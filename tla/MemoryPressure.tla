--------------------------- MODULE MemoryPressure ---------------------------
(***************************************************************************)
(* The two pressure drivers: p03-kvcalc/pressure.py ramps the concurrency  *)
(* past the batch size libs/kv_math.py predicts until it sees distress,    *)
(* once per sequence length; p09-paged-attn/pressure.py sends waves of one *)
(* size and notes the first that queues.  Both run a sampler task next to  *)
(* each wave, in the same event loop, that scrapes the server's queue      *)
(* every two seconds.                                                      *)
(*                                                                         *)
(* The server is external: Slots requests decode, the others wait.  Which  *)
(* script runs is chosen at the start.                                     *)
(***************************************************************************)
EXTENDS Integers, Sequences

CONSTANTS SeqLens,    \* p03: --seq-lens, in units of some tokens
          Usable, Fixed, PerToken, \* kv_math: memory, weights + 1.0, KV per unit
          MostBatch,  \* kv_math: 512
          Overshoot,  \* p03: --overshoot
          QueueLimit, \* p03: --queue-limit
          Conc, Waves,\* p09: --conc, --waves
          Slots,      \* requests the server decodes at a time
          Resent      \* bound: requests of one wave that are tried a second time

ASSUME PressureConstants ==
  /\ SeqLens \in Seq(Nat \ {0}) /\ SeqLens # << >> /\ QueueLimit \in Nat \ {0}
  /\ Usable \in Nat /\ Fixed \in Nat /\ PerToken \in Nat \ {0}
  /\ MostBatch \in Nat /\ Overshoot \in Nat
  /\ Conc \in Nat \ {0} /\ Waves \in Nat \ {0} /\ Slots \in Nat \ {0}
  /\ Resent \in Nat

VARIABLES driver,   \* "ramp" (p03) or "waves" (p09)
          pc,       \* where the driver is
          seq,      \* p03: the sequence length it is at
          wave,     \* the wave it is at, 0 for the warmup
          coming,   \* requests of the wave that are not sent yet
          running, waiting, \* the server
          retries,  \* second tries the requests of this wave may still have
          errs,     \* results of this wave with ok=False
          sampler,  \* the sampler task
          stop,     \* its stop event
          peak,     \* deepest queue a scrape of this wave has read
          observed, distress, \* p03: locals of the ramp, 0 for None
          firstWait,\* p09: first_wait, 0 for None (waves are counted from 1)
          report,   \* p03: report["seqs"], in the order of SeqLens
          deepest,  \* history: deepest queue of this wave
          past      \* history: the waves that are over

pressureVars == <<driver, pc, seq, wave, coming, running, waiting, retries, errs, sampler,
                  stop, peak, observed, distress, firstWait, report, deepest, past>>
serverVars == <<coming, running, waiting, retries, errs, deepest>>
noteVars == <<observed, distress, firstWait, report, past>>

-----------------------------------------------------------------------------
(* libs/kv_math.py *)

\* KV cache of batch sequences, with the weights, the reserve and the block
\* overhead, which PerToken includes.
TotalGb(len, batch) == Fixed + PerToken * len * batch
Fits(len, batch) == TotalGb(len, batch) <= Usable

\* The loop stops before the first batch that does not fit, or at the cap.
StopsAt(len, b) == /\ \A c \in 1..b : Fits(len, c)
                   /\ b = MostBatch \/ ~Fits(len, b + 1)
MaxBatch(len) == CHOOSE b \in 0..MostBatch : StopsAt(len, b)

Predicted(s) == MaxBatch(SeqLens[s])
Limit(s) == Predicted(s) + Overshoot

-----------------------------------------------------------------------------

Drivers == {"ramp", "waves"}
Size(d, w) == IF w = 0 THEN 1 ELSE IF d = "ramp" THEN w ELSE Conc

PressureTypeOK ==
  /\ driver \in Drivers /\ pc \in {"health", "wave", "join", "done", "fatal"}
  /\ seq \in 1..Len(SeqLens) /\ wave \in Nat
  /\ running \in 0..Slots
  /\ coming \in Nat /\ waiting \in Nat /\ retries \in Nat
  /\ errs \in 0..Size(driver, wave)
  /\ coming + running + waiting + errs <= Size(driver, wave)
  /\ sampler \in {"off", "scrape", "pause"} /\ stop \in BOOLEAN
  /\ peak \in Nat /\ deepest \in Nat
  /\ observed \in Nat /\ distress \in Nat /\ firstWait \in 0..Waves
  /\ Len(report) <= Len(SeqLens)

Init ==
  /\ driver \in Drivers
  /\ pc = "health" /\ seq = 1 /\ wave = 0
  /\ coming = 0 /\ running = 0 /\ waiting = 0 /\ retries = 0 /\ errs = 0 /\ deepest = 0
  /\ sampler = "off" /\ stop = FALSE /\ peak = 0
  /\ observed = 0 /\ distress = 0 /\ firstWait = 0
  /\ report = << >> /\ past = << >>

-----------------------------------------------------------------------------
(* The requests of a wave and the server *)

Deeper(x, y) == IF x < y THEN y ELSE x

\* one_request: a try that fails before its first token is made once more after a
\* pause, any other failure is the result.
Fails(left) == \/ errs' = errs + 1 /\ coming' = left /\ UNCHANGED retries
               \/ retries > 0 /\ retries' = retries - 1 /\ coming' = left + 1 /\ UNCHANGED errs

\* A request is sent, the first time after its 50 ms per index; it is refused,
\* decodes or waits.
Arrive ==
  /\ coming > 0
  /\ \/ /\ coming' = coming - 1 /\ UNCHANGED <<retries, errs>>
        /\ \/ running < Slots /\ running' = running + 1 /\ UNCHANGED waiting
           \/ running = Slots /\ waiting' = waiting + 1 /\ UNCHANGED running
     \/ Fails(coming - 1) /\ UNCHANGED <<running, waiting>>
  /\ deepest' = Deeper(deepest, waiting')
  /\ UNCHANGED <<driver, pc, seq, wave, sampler, stop, peak, noteVars>>

\* A decoding request ends, well or not, and the next one starts.
Finish ==
  /\ running > 0
  /\ \/ waiting > 0 /\ waiting' = waiting - 1 /\ UNCHANGED running
     \/ waiting = 0 /\ running' = running - 1 /\ UNCHANGED waiting
  /\ Fails(coming) \/ UNCHANGED <<coming, retries, errs>>
  /\ UNCHANGED <<driver, pc, seq, wave, sampler, stop, peak, deepest, noteVars>>

\* A waiting request times out or is reset.
Lost ==
  /\ waiting > 0 /\ waiting' = waiting - 1 /\ Fails(coming)
  /\ UNCHANGED <<driver, pc, seq, wave, running, sampler, stop, peak, deepest, noteVars>>

-----------------------------------------------------------------------------
(* The sampler *)

\* A scrape that fails, or a page without the metric, reads no queue.
Scrape ==
  /\ sampler = "scrape" /\ sampler' = "pause"
  /\ \/ peak' = Deeper(peak, waiting) \/ UNCHANGED peak
  /\ UNCHANGED <<driver, pc, seq, wave, serverVars, stop, noteVars>>

\* Two seconds are over, or p03's stop event is set.
MutAwake == "scrape"
Awake == IF stop THEN "off" ELSE "scrape"
Wake ==
  /\ sampler = "pause"
  /\ sampler' = Awake
  /\ UNCHANGED <<driver, pc, seq, wave, serverVars, stop, peak, noteVars>>

-----------------------------------------------------------------------------
(* The drivers *)

\* gather() returns; the warmup has no sampler to wait for.
Gather ==
  /\ pc = "wave" /\ coming + running + waiting = 0
  /\ pc' = "join" /\ stop' = TRUE
  /\ UNCHANGED <<driver, seq, wave, serverVars, sampler, peak, noteVars>>

\* Every wave has its own sampler, peak and count of errors.
MutFresh(x) == x
Fresh(x) == 0
StartWave(s, w) ==
  /\ pc' = "wave" /\ seq' = s /\ wave' = w
  /\ coming' = Size(driver, w) /\ retries' = Resent /\ running' = 0 /\ waiting' = 0
  /\ errs' = Fresh(errs) /\ deepest' = 0 /\ stop' = FALSE
  /\ sampler' = IF w = 0 THEN "off" ELSE "scrape"
  /\ peak' = Fresh(peak)

Over == /\ pc' = "done"
        /\ UNCHANGED <<seq, wave, serverVars, sampler, stop, peak>>

\* health(): without it the script exits before it has made anything.
Begin ==
  /\ pc = "health"
  /\ \/ StartWave(1, 0)
     \/ pc' = "fatal" /\ UNCHANGED <<seq, wave, serverVars, sampler, stop, peak>>
  /\ UNCHANGED <<driver, noteVars>>

Record == past' = IF wave = 0 THEN past
                  ELSE Append(past, [seq |-> seq, wave |-> wave, errs |-> errs,
                                     peak |-> peak, deepest |-> deepest])

MutDistressed == errs > 0 \/ peak > QueueLimit
Distressed == errs > 0 \/ peak >= QueueLimit

\* The end of the for loop of a sequence length: its line of the report.
\* abs(err_pct) <= 15, of the prediction or of 1.
Apart(x, y) == IF x < y THEN y - x ELSE x - y
Verdict(ok) ==
  IF 100 * Apart(ok, Predicted(seq)) <= 15 * Deeper(Predicted(seq), 1)
  THEN "PASS" ELSE "RECALIBRATE"

Reported(ok, at) ==
  Append(report, [observed |-> ok, distress |-> at, verdict |-> Verdict(ok)])
NextSeq == IF seq = Len(SeqLens) THEN Over ELSE StartWave(seq + 1, 0)

\* p03, after the wave: distress ends the ramp, a quiet wave is one step more.
RampWave ==
  LET quiet == wave = 0 \/ ~Distressed
      ok == IF quiet THEN wave ELSE observed
      at == IF quiet THEN 0 ELSE wave IN
  /\ driver = "ramp" /\ pc = "join" /\ sampler = "off"
  /\ Record
  /\ \/ /\ quiet /\ wave < Limit(seq)
        /\ observed' = ok /\ distress' = 0
        /\ StartWave(seq, wave + 1)
        /\ UNCHANGED report
     \/ /\ ~quiet \/ wave = Limit(seq)
        /\ report' = Reported(ok, at)
        /\ observed' = 0 /\ distress' = 0
        /\ NextSeq
  /\ UNCHANGED <<driver, firstWait>>

\* p09, after the wave: a line of the timeline, and the next wave.
MutFirst(w) == w
First(w) == IF firstWait = 0 THEN w ELSE firstWait
NextWave ==
  /\ driver = "waves" /\ pc = "join" /\ sampler = "off"
  /\ Record
  /\ firstWait' = IF wave > 0 /\ peak > 0 THEN First(wave) ELSE firstWait
  /\ \/ wave < Waves /\ StartWave(seq, wave + 1)
     \/ wave = Waves /\ Over
  /\ UNCHANGED <<driver, observed, distress, report>>

Done == pc \in {"done", "fatal"} /\ UNCHANGED pressureVars

Drive == Begin \/ Gather \/ RampWave \/ NextWave
Next == Arrive \/ Finish \/ Lost \/ Scrape \/ Wake \/ Drive \/ Done

Spec == Init /\ [][Next]_pressureVars

\* The event loop runs what is ready, scrapes time out after 5 s, requests after
\* --timeout-s.
FairSpec == /\ Spec /\ WF_pressureVars(Drive) /\ WF_pressureVars(Scrape \/ Wake)
            /\ WF_pressureVars(Arrive) /\ WF_pressureVars(Finish \/ Lost)

-----------------------------------------------------------------------------
(* Properties *)

WavesOf(s) == {i \in DOMAIN past : past[i].seq = s}

\* What the ramp reports was seen: "observed" waves in a row without an error,
\* and distress in the one after them only where requests failed or the queue
\* of that very wave was at the limit, not that of an earlier one.  A verdict of
\* PASS stands on a wave of almost the predicted size that saw no distress.
RampReportsWhatHappened ==
  driver = "ramp" => \A s \in DOMAIN report :
    /\ \A i \in WavesOf(s) :
         past[i].wave <= report[s].observed => past[i].errs = 0 /\ past[i].peak < QueueLimit
    /\ report[s].distress = 0 => report[s].observed = Limit(s)
    /\ report[s].distress # 0 =>
         /\ report[s].observed = report[s].distress - 1
         /\ \E i \in WavesOf(s) : /\ past[i].wave = report[s].distress
                                  /\ past[i].errs > 0 \/ past[i].deepest >= QueueLimit
    /\ report[s].verdict = "PASS" /\ Predicted(s) > 0 =>
         \E i \in WavesOf(s) : /\ 100 * past[i].wave >= 85 * Predicted(s)
                               /\ past[i].errs = 0 /\ past[i].peak < QueueLimit

\* "first_wait_wave": the queue really had grown in that wave, and no scrape of
\* an earlier one had read it.
FirstWaitIsFirst ==
  driver = "waves" /\ firstWait # 0 =>
    /\ past[firstWait].deepest > 0
    /\ \A i \in DOMAIN past : i < firstWait => past[i].peak = 0

\* Both drivers come to their end: no wave hangs on its sampler, and the ramp
\* reports every sequence length, unless there was no server to begin with.
DriverEnds ==
  <>(\/ pc = "fatal"
     \/ pc = "done" /\ (driver = "ramp" => Len(report) = Len(SeqLens)))
=============================================================================
