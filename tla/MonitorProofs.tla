--------------------------- MODULE MonitorProofs ---------------------------
(***************************************************************************)
(* What the two pressure drivers report, and when the monitor next to them *)
(* prints an ALERT: for all sequence lengths, memory sizes, limits, waves  *)
(* and slots of the server.  The invariant ties the locals of the loops to *)
(* the waves that are over.                                                *)
(***************************************************************************)
EXTENDS Monitor, WellFoundedInduction, TLAPS

Waved == [seq : Nat, wave : Nat, errs : Nat, peak : Nat, deepest : Nat]
Lines == [observed : Nat, distress : Nat, verdict : {"PASS", "RECALIBRATE"}]

\* The requests of a wave are at one place each.
Requests ==
  /\ running \in 0..Slots /\ coming \in Nat /\ waiting \in Nat /\ retries \in Nat
  /\ errs \in 0..Size(driver, wave)
  /\ coming + running + waiting + errs <= Size(driver, wave)

\* No scrape reads a queue the wave has not had.
Queues ==
  /\ peak \in Nat /\ deepest \in Nat /\ peak <= deepest /\ waiting <= deepest
  /\ sampler \in {"off", "scrape", "pause"} /\ stop \in BOOLEAN
  /\ \A i \in DOMAIN past : past[i].peak <= past[i].deepest

Places ==
  /\ driver \in Drivers /\ pc \in {"health", "wave", "join", "done", "fatal"}
  /\ seq \in 1..Len(SeqLens) /\ wave \in Nat
  /\ pc = "health" => seq = 1 /\ wave = 0
  /\ observed \in Nat /\ distress \in Nat /\ firstWait \in 0..Waves
  /\ report \in Seq(Lines) /\ past \in Seq(Waved)

\* No scrape of these waves met distress.
Quiet(i) == past[i].errs = 0 /\ past[i].peak < QueueLimit

\* p03: the waves of the present length so far are 1 to wave - 1, all quiet, and
\* the lengths before it are reported.
Ramping ==
  /\ distress = 0
  /\ Len(report) = IF pc = "done" THEN seq ELSE seq - 1
  /\ \A i \in DOMAIN past : past[i].seq <= seq
  /\ pc # "done" =>
       /\ observed = (IF wave = 0 THEN 0 ELSE wave - 1)
       /\ \A i \in WavesOf(seq) : past[i].wave < wave /\ Quiet(i)
       /\ \A w \in 1..wave - 1 : \E i \in WavesOf(seq) : past[i].wave = w

\* p09: wave w is the w-th.
Counting ==
  /\ wave <= Waves
  /\ Len(past) = IF pc = "done" \/ wave = 0 THEN wave ELSE wave - 1
  /\ firstWait <= Len(past) /\ Len(report) = 0
  /\ \A i \in DOMAIN past : (firstWait = 0 \/ i < firstWait) => past[i].peak = 0
  /\ firstWait # 0 => past[firstWait].peak > 0

PressureInv ==
  /\ Places /\ Requests /\ Queues
  /\ RampReportsWhatHappened
  /\ driver = "ramp" => Ramping
  /\ driver = "waves" => Counting

MonitorInv ==
  /\ usage \in Below..Over90 /\ page \in Below..None /\ watching \in BOOLEAN
  /\ alerted \in BOOLEAN /\ calm \in BOOLEAN
  /\ ~alerted \/ page = Below => calm

-----------------------------------------------------------------------------
(* libs/kv_math.py *)

\* The loop stops: below the cap there is a first batch that does not fit, or
\* every one does.
LEMMA LoopStops ==
  ASSUME NEW len \in Nat
  PROVE  MaxBatch(len) \in 0..MostBatch /\ StopsAt(len, MaxBatch(len))
<1> DEFINE Bad == {b \in Nat : b + 1 > MostBatch \/ ~Fits(len, b + 1)}
<1>1. MostBatch \in Nat /\ MostBatch \in Bad
  BY PressureConstants
<1>2. PICK b \in Bad : \A c \in Bad : ~(<<c, b>> \in OpToRel(<, Nat))
  <2>1. Bad \subseteq Nat /\ Bad # {}
    BY <1>1
  <2> HIDE DEF Bad
  <2> QED BY <2>1, NatLessThanWellFounded, WFMin
<1>3. ASSUME NEW c \in Bad PROVE b <= c
  <2>1. OpToRel(<, Nat) = {ss \in Nat \X Nat : ss[1] < ss[2]}
    BY Zenon DEF OpToRel
  <2>2. <<c, b>> \notin {ss \in Nat \X Nat : ss[1] < ss[2]}
    BY <1>2, <2>1, Zenon
  <2> QED BY <2>2
<1>4. b \in 0..MostBatch
  BY <1>1, <1>3
<1>5. ASSUME NEW c \in 1..b PROVE Fits(len, c)
  <2>1. c - 1 \in Nat /\ ~(b <= c - 1)
    BY <1>4
  <2>2. c - 1 \notin Bad
    BY <1>3, <2>1
  <2>3. (c - 1) + 1 = c
    OBVIOUS
  <2> QED BY <2>1, <2>2, <2>3
<1>6. b = MostBatch \/ ~Fits(len, b + 1)
  BY <1>1, <1>4
<1>7. StopsAt(len, b)
  BY <1>5, <1>6 DEF StopsAt
<1> QED BY <1>4, <1>7 DEF MaxBatch

\* max_batch() is the largest batch that fits under the cap: a batch fits exactly
\* if it is no larger, although the loop looks at no batch after the first miss.
THEOREM PredictionIsTight ==
  ASSUME NEW len \in Nat, NEW b \in 1..MostBatch
  PROVE  Fits(len, b) <=> b <= MaxBatch(len)
<1> DEFINE m == MaxBatch(len)
<1>1. m \in 0..MostBatch /\ StopsAt(len, m) /\ MostBatch \in Nat
  BY LoopStops, PressureConstants
<1>2. ASSUME b <= m PROVE Fits(len, b)
  <2> HIDE DEF m
  <2> QED BY <1>1, <1>2 DEF StopsAt
<1>3. ASSUME Fits(len, b), ~(b <= m) PROVE FALSE
  <2>1. ~Fits(len, m + 1)
    <3> HIDE DEF m
    <3> QED BY <1>1, <1>3 DEF StopsAt
  <2>2. PICK k \in Nat : k = PerToken * len
    BY PressureConstants
  <2>3. k * b = k * (m + 1) + k * (b - (m + 1)) /\ k * (b - (m + 1)) >= 0
    <3>1. b - (m + 1) \in Nat /\ m + 1 \in Nat
      BY <1>1, <1>3
    <3> HIDE DEF m
    <3> QED BY <3>1
  <2>4. k * b \in Nat /\ k * (m + 1) \in Nat /\ k * (m + 1) <= k * b
    <3>1. m + 1 \in Nat /\ b \in Nat
      BY <1>1
    <3>2. k * b \in Nat /\ k * (m + 1) \in Nat
      BY <3>1
    <3> HIDE DEF m
    <3> QED BY <2>3, <3>1, <3>2
  <2>5. Fixed + k * b <= Usable /\ ~(Fixed + k * (m + 1) <= Usable)
    BY <1>3, <2>1, <2>2 DEF Fits, TotalGb
  <2> HIDE DEF m
  <2> QED BY <2>4, <2>5, PressureConstants
<1> QED BY <1>2, <1>3

-----------------------------------------------------------------------------
(* The drivers *)

\* What the arithmetic of the drivers needs.
LEMMA PressureNumbers ==
  /\ QueueLimit \in Nat \ {0} /\ Waves \in Nat \ {0} /\ Conc \in Nat \ {0}
  /\ Len(SeqLens) \in Nat \ {0}
  /\ \A s \in 1..Len(SeqLens) : Predicted(s) \in Nat /\ Limit(s) \in Nat
  /\ \A d \in Drivers, w \in Nat : Size(d, w) \in Nat
<1>1. \A s \in 1..Len(SeqLens) : Predicted(s) \in Nat
  <2> SUFFICES ASSUME NEW s \in 1..Len(SeqLens) PROVE Predicted(s) \in Nat
    OBVIOUS
  <2>1. SeqLens[s] \in Nat
    BY PressureConstants
  <2>2. MaxBatch(SeqLens[s]) \in 0..MostBatch
    BY <2>1, LoopStops
  <2> QED BY <2>2, PressureConstants DEF Predicted
<1>2. Len(SeqLens) \in Nat \ {0}
  BY PressureConstants
<1> QED BY <1>1, <1>2, PressureConstants DEF Limit, Size

\* Nothing has been sent, read or reported yet.
LEMMA PressureStarts == Init => PressureInv
<1> SUFFICES ASSUME Init PROVE PressureInv
  OBVIOUS
<1>1. Len(report) = 0 /\ DOMAIN report = {} /\ Len(past) = 0 /\ DOMAIN past = {}
  BY DEF Init
<1>2. Places
  BY PressureNumbers DEF Init, Places
<1>3. Requests
  <2>1. Size(driver, wave) = 1
    BY DEF Init, Size
  <2> QED BY <2>1, PressureConstants DEF Init, Requests
<1>4. Queues
  <2>1. peak = 0 /\ deepest = 0 /\ waiting = 0 /\ sampler = "off" /\ stop \in BOOLEAN
    BY DEF Init
  <2> QED BY <1>1, <2>1 DEF Queues
<1>5. RampReportsWhatHappened
  BY <1>1 DEF RampReportsWhatHappened
<1>6. Ramping
  BY <1>1 DEF Init, Ramping, WavesOf
<1>7. Counting
  BY <1>1, PressureNumbers DEF Init, Counting
<1> QED BY <1>2, <1>3, <1>4, <1>5, <1>6, <1>7 DEF PressureInv

\* What a step must leave alone for the notes of the drivers to stay true.
noted == <<driver, seq, wave, noteVars>>
LEMMA NotesStay ==
  ASSUME PressureInv, UNCHANGED noted,
         pc' = pc \/ (pc = "wave" /\ pc' = "join"), Requests', Queues'
  PROVE  PressureInv'
<1>1. Places'
  BY DEF PressureInv, Places, noted, noteVars
<1>2. RampReportsWhatHappened'
  BY DEF PressureInv, RampReportsWhatHappened, noted, noteVars, WavesOf
<1>3. driver = "ramp" => Ramping'
  BY DEF PressureInv, Ramping, noted, noteVars, WavesOf, Quiet
<1>4. driver = "waves" => Counting'
  BY DEF PressureInv, Counting, noted, noteVars
<1> QED BY <1>1, <1>2, <1>3, <1>4 DEF PressureInv, noted

\* Requests, server and sampler take no note.
LEMMA ServerKeeps ==
  ASSUME PressureInv, Arrive \/ Finish \/ Lost \/ Scrape \/ Wake \/ Gather
  PROVE  PressureInv'
<1>1. Size(driver, wave) \in Nat /\ errs \in Nat
  BY PressureNumbers DEF PressureInv, Places, Requests
<1>2. UNCHANGED noted /\ (pc' = pc \/ (pc = "wave" /\ pc' = "join"))
  BY DEF noted, Arrive, Finish, Lost, Scrape, Wake, Gather
<1>3. Requests'
  <2>1. CASE Arrive
    <3>1. CASE Fails(coming - 1) /\ UNCHANGED <<running, waiting>>
      BY <1>1, <2>1, <3>1 DEF PressureInv, Requests, Arrive, Fails
    <3>2. CASE /\ coming' = coming - 1 /\ UNCHANGED <<retries, errs>>
               /\ \/ running < Slots /\ running' = running + 1 /\ UNCHANGED waiting
                  \/ running = Slots /\ waiting' = waiting + 1 /\ UNCHANGED running
      BY <1>1, <2>1, <3>2, PressureConstants DEF PressureInv, Requests, Arrive
    <3> QED BY <2>1, <3>1, <3>2 DEF Arrive
  <2>2. CASE Finish
    <3>1. /\ running > 0
          /\ \/ waiting' = waiting - 1 /\ running' = running /\ waiting > 0
             \/ waiting = 0 /\ waiting' = waiting /\ running' = running - 1
          /\ UNCHANGED <<driver, wave>>
      BY <2>2 DEF Finish
    <3>2. CASE Fails(coming)
      <4>1. running' \in 0..Slots /\ waiting' \in Nat
        BY <3>1, PressureConstants DEF PressureInv, Requests
      <4>2. coming' \in Nat /\ retries' \in Nat /\ errs' \in Nat
        BY <1>1, <3>2 DEF PressureInv, Requests, Fails
      <4>3. CASE coming' = coming /\ errs' = errs + 1
        BY <1>1, <3>1, <4>1, <4>2, <4>3, PressureConstants DEF PressureInv, Requests
      <4>4. CASE coming' = coming + 1 /\ errs' = errs
        BY <1>1, <3>1, <4>1, <4>2, <4>4, PressureConstants DEF PressureInv, Requests
      <4> QED BY <3>2, <4>3, <4>4 DEF Fails
    <3>3. CASE UNCHANGED <<coming, retries, errs>>
      BY <1>1, <3>1, <3>3, PressureConstants DEF PressureInv, Requests
    <3> QED BY <2>2, <3>2, <3>3 DEF Finish
  <2>3. CASE Lost
    BY <1>1, <2>3 DEF PressureInv, Requests, Lost, Fails
  <2>4. CASE Scrape \/ Wake \/ Gather
    BY <2>4 DEF PressureInv, Requests, Scrape, Wake, Gather, serverVars
  <2> QED BY <2>1, <2>2, <2>3, <2>4
<1>4. Queues'
  <2>1. CASE Arrive
    BY <2>1 DEF PressureInv, Requests, Queues, Arrive, Deeper, noteVars
  <2>2. CASE Finish \/ Lost
    BY <2>2 DEF PressureInv, Requests, Queues, Finish, Lost, noteVars
  <2>3. CASE Scrape
    BY <2>3 DEF PressureInv, Requests, Queues, Scrape, Deeper, serverVars, noteVars
  <2>4. CASE Wake \/ Gather
    BY <2>4 DEF PressureInv, Queues, Wake, Awake, Gather, serverVars, noteVars
  <2> QED BY <2>1, <2>2, <2>3, <2>4
<1> QED BY <1>2, <1>3, <1>4, NotesStay

\* The line of this wave, as the history has it.
ThisWave == [seq |-> seq, wave |-> wave, errs |-> errs, peak |-> peak, deepest |-> deepest]
New == Len(past) + 1

\* A wave that is over is one line more, the warmup none.
LEMMA WaveRecorded ==
  ASSUME PressureInv, Record
  PROVE  /\ past' \in Seq(Waved) /\ Len(past) \in Nat
         /\ wave = 0 => past' = past
         /\ wave > 0 => Len(past') = New /\ past'[New] = ThisWave
         /\ DOMAIN past' = 1..Len(past')
         /\ \A i \in DOMAIN past : i \in DOMAIN past' /\ past'[i] = past[i]
         /\ \A i \in DOMAIN past' : i \in DOMAIN past \/ (wave > 0 /\ i = New)
         /\ \A i \in DOMAIN past' : past'[i].peak <= past'[i].deepest
<1>1. past \in Seq(Waved) /\ wave \in Nat /\ ThisWave \in Waved /\ peak <= deepest
  <2>1. errs \in Nat /\ wave \in Nat
    BY PressureNumbers DEF PressureInv, Places, Requests
  <2> QED BY <2>1 DEF PressureInv, Places, Queues, ThisWave, Waved
<1>2. CASE wave = 0
  BY <1>1, <1>2 DEF PressureInv, Queues, Record
<1>3. CASE wave > 0
  <2>1. past' = Append(past, ThisWave)
    BY <1>3 DEF Record, ThisWave
  <2>2. ThisWave.peak <= ThisWave.deepest
    BY <1>1 DEF ThisWave
  <2> HIDE DEF ThisWave
  <2> QED BY <1>1, <1>3, <2>1, <2>2 DEF PressureInv, Queues, New
<1> QED BY <1>1, <1>2, <1>3

\* What starts or ends with the recorded wave leaves request and queue counts as
\* a fresh wave has them, or as they were.
LEMMA WaveTurns ==
  ASSUME PressureInv, Record, driver' = driver,
         NEW s \in Nat, NEW w \in Nat, StartWave(s, w) \/ Over
  PROVE  Requests' /\ Queues'
<1>1. \A i \in DOMAIN past' : past'[i].peak <= past'[i].deepest
  BY WaveRecorded
<1>2. CASE StartWave(s, w)
  <2>1. Size(driver', wave') \in Nat /\ Size(driver, w) \in Nat /\ Size(driver', wave') = Size(driver, w)
    BY <1>2, PressureNumbers DEF PressureInv, Places, StartWave
  <2>2. Requests'
    BY <1>2, <2>1, PressureConstants DEF StartWave, Requests, Fresh
  <2>3. /\ peak' = 0 /\ deepest' = 0 /\ waiting' = 0 /\ stop' \in BOOLEAN
        /\ sampler' \in {"off", "scrape", "pause"}
    BY <1>2 DEF StartWave, Fresh
  <2> QED BY <1>1, <2>2, <2>3 DEF Queues
<1>3. CASE Over
  BY <1>1, <1>3 DEF PressureInv, Requests, Queues, Over, serverVars
<1> QED BY <1>2, <1>3

\* p09: the wave it notes first is the first whose scrapes met a queue.
LEMMA NextWaveKeeps == PressureInv /\ NextWave => PressureInv'
<1> SUFFICES ASSUME PressureInv, NextWave PROVE PressureInv'
  OBVIOUS
<1>1. /\ driver = "waves" /\ driver' = driver /\ pc = "join" /\ Record
      /\ firstWait' = IF wave > 0 /\ peak > 0 THEN First(wave) ELSE firstWait
      /\ UNCHANGED <<observed, distress, report>>
  BY DEF NextWave
<1>2. Places /\ Counting /\ Waves \in Nat \ {0} /\ peak \in Nat
  BY <1>1, PressureNumbers DEF PressureInv, Queues
<1>3. \/ wave < Waves /\ wave' = wave + 1 /\ pc' = "wave" /\ seq' = seq
      \/ wave = Waves /\ wave' = wave /\ pc' = "done" /\ seq' = seq
  BY DEF NextWave, StartWave, Over
<1>4. Requests' /\ Queues'
  <2>1. wave + 1 \in Nat /\ seq \in Nat /\ (StartWave(seq, wave + 1) \/ Over)
    BY <1>2, PressureNumbers DEF NextWave, Places
  <2> QED BY <1>1, <2>1, WaveTurns
<1>5. Len(past) = (IF wave = 0 THEN 0 ELSE wave - 1) /\ wave \in Nat
  BY <1>1, <1>2 DEF Places, Counting
<1>6. Len(past') = wave
  <2>1. wave = 0 => past' = past
    BY <1>1, WaveRecorded
  <2>2. wave > 0 => Len(past') = Len(past) + 1
    BY <1>1, WaveRecorded DEF New
  <2> QED BY <1>5, <2>1, <2>2
<1>7. firstWait' \in 0..Waves /\ firstWait' <= wave
  BY <1>1, <1>2, <1>5 DEF Places, Counting, First
<1>8. Places'
  BY <1>1, <1>2, <1>3, <1>7, WaveRecorded DEF Places
<1>9. \A i \in DOMAIN past' : (firstWait' = 0 \/ i < firstWait') => past'[i].peak = 0
  <2> SUFFICES ASSUME NEW i \in DOMAIN past', firstWait' = 0 \/ i < firstWait'
               PROVE  past'[i].peak = 0
    OBVIOUS
  <2>1. CASE i \in DOMAIN past
    <3>1. i \in 1..Len(past) /\ past'[i] = past[i]
      BY <1>1, <1>2, <2>1, WaveRecorded DEF Places
    <3>2. firstWait = 0 \/ i < firstWait
      BY <1>1, <1>2, <1>5, <3>1 DEF Places, First
    <3> QED BY <1>2, <2>1, <3>1, <3>2 DEF Counting
  <2>2. CASE wave > 0 /\ i = New
    <3>1. i = wave /\ past'[i].peak = peak
      BY <1>1, <1>5, <2>2, WaveRecorded DEF New, ThisWave
    <3>2. ~(peak > 0)
      BY <1>1, <1>2, <1>5, <2>2, <3>1 DEF Counting, First, Places
    <3> QED BY <1>2, <3>1, <3>2
  <2> QED BY <1>1, <2>1, <2>2, WaveRecorded
<1>10. firstWait' # 0 => past'[firstWait'].peak > 0
  <2> SUFFICES ASSUME firstWait' # 0 PROVE past'[firstWait'].peak > 0
    OBVIOUS
  <2>1. CASE firstWait # 0
    <3>1. firstWait' = firstWait /\ firstWait \in DOMAIN past
      BY <1>1, <1>2, <2>1 DEF Places, Counting, First
    <3> QED BY <1>1, <1>2, <2>1, <3>1, WaveRecorded DEF Counting
  <2>2. CASE firstWait = 0
    <3>1. firstWait' = wave /\ wave > 0 /\ peak > 0
      BY <1>1, <2>2 DEF First
    <3> QED BY <1>1, <1>5, <3>1, WaveRecorded DEF New, ThisWave
  <2> QED BY <2>1, <2>2
<1>11. Counting'
  BY <1>1, <1>2, <1>3, <1>5, <1>6, <1>7, <1>9, <1>10 DEF Counting
<1>12. RampReportsWhatHappened'
  BY <1>1 DEF RampReportsWhatHappened
<1> QED BY <1>1, <1>4, <1>8, <1>11, <1>12 DEF PressureInv

\* What the report says of one sequence length is true.
LineTrue(s) ==
  /\ \A i \in WavesOf(s) : past[i].wave <= report[s].observed => Quiet(i)
  /\ report[s].distress = 0 => report[s].observed = Limit(s)
  /\ report[s].distress # 0 =>
       /\ report[s].observed = report[s].distress - 1
       /\ \E i \in WavesOf(s) : /\ past[i].wave = report[s].distress
                                /\ past[i].errs > 0 \/ past[i].deepest >= QueueLimit
  /\ report[s].verdict = "PASS" /\ Predicted(s) > 0 =>
       \E i \in WavesOf(s) : 100 * past[i].wave >= 85 * Predicted(s) /\ Quiet(i)

LEMMA ReportByLines ==
  RampReportsWhatHappened <=> (driver = "ramp" => \A s \in DOMAIN report : LineTrue(s))
BY DEF RampReportsWhatHappened, LineTrue, Quiet

\* A wave of this length is one of the present length's only.
LEMMA WavesRecorded ==
  ASSUME PressureInv, Record, NEW s \in Nat
  PROVE  /\ \A i \in WavesOf(s) : i \in WavesOf(s)' /\ past'[i] = past[i]
         /\ \A i \in WavesOf(s)' : i \in WavesOf(s) \/ (wave > 0 /\ i = New /\ s = seq)
<1>1. ThisWave.seq = seq
  BY DEF ThisWave
<1> HIDE DEF ThisWave, New
<1> QED BY <1>1, WaveRecorded DEF WavesOf

\* A line stays true when a wave of another length is over.
LEMMA OldLines ==
  ASSUME PressureInv, Record, NEW s \in Nat, s # seq, LineTrue(s), report'[s] = report[s]
  PROVE  LineTrue(s)'
<1>1. \A i \in WavesOf(s) : i \in WavesOf(s)' /\ past'[i] = past[i]
  BY WavesRecorded
<1>2. \A i \in WavesOf(s)' : i \in WavesOf(s) /\ past'[i] = past[i]
  BY WavesRecorded
<1> QED BY <1>1, <1>2 DEF LineTrue, Quiet, Limit, Predicted

\* The present length's waves when this one is over.
LEMMA PresentWaves ==
  ASSUME PressureInv, Record, driver = "ramp", pc = "join"
  PROVE  /\ \A i \in DOMAIN past' : past'[i].seq <= seq
         /\ \A i \in DOMAIN past' : past'[i].seq = seq =>
              /\ past'[i].wave <= wave
              /\ past'[i].wave < wave \/ wave = 0 \/ ~Distressed =>
                   past'[i].errs = 0 /\ past'[i].peak < QueueLimit
         /\ \A w \in 1..wave : \E i \in DOMAIN past' : past'[i].seq = seq /\ past'[i].wave = w
<1>1. Ramping /\ Places /\ seq \in Nat /\ wave \in Nat
  BY PressureNumbers DEF PressureInv, Places
<1>2. ThisWave.wave = wave /\ ThisWave.seq = seq /\ ThisWave.errs = errs /\ ThisWave.peak = peak
  BY DEF ThisWave
<1>3. errs \in Nat /\ peak \in Nat
  BY PressureNumbers DEF PressureInv, Requests, Queues, Places
<1> HIDE DEF ThisWave
<1>4. ASSUME NEW i \in DOMAIN past', past'[i].seq = seq
      PROVE  /\ past'[i].wave <= wave
             /\ past'[i].wave < wave \/ wave = 0 \/ ~Distressed =>
                  past'[i].errs = 0 /\ past'[i].peak < QueueLimit
  <2>1. CASE i \in DOMAIN past
    <3>1. past'[i] = past[i] /\ past[i] \in Waved
      BY <1>1, <2>1, WaveRecorded DEF Places
    <3>2. past[i].wave < wave /\ Quiet(i)
      BY <1>1, <1>4, <2>1, <3>1 DEF Ramping, WavesOf
    <3> QED BY <1>1, <3>1, <3>2 DEF Quiet, Waved
  <2>2. CASE wave > 0 /\ i = New
    <3>1. past'[i] = ThisWave
      BY <2>2, WaveRecorded
    <3>2. ~Distressed => errs = 0 /\ peak < QueueLimit
      BY <1>3, PressureNumbers DEF Distressed
    <3> QED BY <1>1, <1>2, <2>2, <3>1, <3>2
  <2> QED BY <2>1, <2>2, WaveRecorded
<1>5. ASSUME NEW w \in 1..wave
      PROVE  \E i \in DOMAIN past' : past'[i].seq = seq /\ past'[i].wave = w
  <2>1. CASE w < wave
    <3>1. PICK i \in WavesOf(seq) : past[i].wave = w
      BY <1>1, <2>1 DEF Ramping
    <3> QED BY <3>1, WaveRecorded DEF WavesOf
  <2>2. CASE w = wave
    <3>1. Len(past') = New /\ past'[New] = ThisWave /\ DOMAIN past' = 1..Len(past')
      BY <1>1, <2>2, WaveRecorded
    <3>2. New \in DOMAIN past'
      BY <3>1, WaveRecorded DEF New
    <3> QED BY <1>2, <2>2, <3>1, <3>2
  <2> QED BY <1>1, <2>1, <2>2
<1>6. ASSUME NEW i \in DOMAIN past' PROVE past'[i].seq <= seq
  BY <1>1, <1>2, WaveRecorded DEF Ramping
<1> QED BY <1>4, <1>5, <1>6

\* A verdict of PASS is of a ramp that came close to the prediction.
LEMMA PassIsClose ==
  ASSUME NEW ok \in Nat, seq \in 1..Len(SeqLens), Predicted(seq) > 0, Verdict(ok) = "PASS"
  PROVE  ok >= 1 /\ 100 * ok >= 85 * Predicted(seq)
<1>1. Predicted(seq) \in Nat
  BY PressureNumbers
<1>2. 100 * Apart(ok, Predicted(seq)) <= 15 * Deeper(Predicted(seq), 1)
  BY DEF Verdict
<1>3. Deeper(Predicted(seq), 1) = Predicted(seq)
  BY <1>1 DEF Deeper
<1> QED BY <1>1, <1>2, <1>3 DEF Apart

\* p03: one wave more of the same length, or the line of this length.
LEMMA RampWaveKeeps == PressureInv /\ RampWave => PressureInv'
<1> SUFFICES ASSUME PressureInv, RampWave PROVE PressureInv'
  OBVIOUS
<1> DEFINE quiet == wave = 0 \/ ~Distressed
           ok == IF quiet THEN wave ELSE observed
           at == IF quiet THEN 0 ELSE wave
           line == [observed |-> ok, distress |-> at, verdict |-> Verdict(ok)]
<1>1. /\ driver = "ramp" /\ driver' = driver /\ pc = "join" /\ Record
      /\ firstWait' = firstWait
  BY DEF RampWave
<1>2. PICK s \in 1..Len(SeqLens) : s = seq
  BY DEF PressureInv, Places
<1>3. Places /\ Ramping /\ wave \in Nat /\ s \in Nat /\ Len(SeqLens) \in Nat /\ Limit(s) \in Nat
  BY <1>1, PressureNumbers DEF PressureInv, Places
<1>4. Len(report) = s - 1 /\ report \in Seq(Lines)
      /\ observed = (IF wave = 0 THEN 0 ELSE wave - 1)
  BY <1>1, <1>2, <1>3 DEF Ramping, Places
<1>5. /\ \A i \in DOMAIN past' : past'[i].seq <= s
      /\ \A i \in DOMAIN past' : past'[i].seq = s =>
           /\ past'[i].wave <= wave
           /\ past'[i].wave < wave \/ quiet => past'[i].errs = 0 /\ past'[i].peak < QueueLimit
      /\ \A w \in 1..wave : \E i \in DOMAIN past' : past'[i].seq = s /\ past'[i].wave = w
  BY <1>1, <1>2, PresentWaves
<1>6. \A r \in DOMAIN report : LineTrue(r) /\ r \in Nat /\ r # s
  BY <1>1, <1>3, <1>4, ReportByLines DEF PressureInv
<1>7. \A i \in DOMAIN past' : past'[i] \in Waved
  BY <1>1, WaveRecorded
<1>8. CASE quiet /\ wave < Limit(seq) /\ observed' = ok /\ distress' = 0
           /\ StartWave(seq, wave + 1) /\ report' = report
  <2>1. pc' = "wave" /\ seq' = s /\ wave' = wave + 1 /\ observed' = wave
    BY <1>2, <1>8 DEF StartWave
  <2>2. Requests' /\ Queues'
    BY <1>1, <1>2, <1>3, <1>8, WaveTurns
  <2>3. Places'
    BY <1>1, <1>2, <1>3, <1>8, <2>1, WaveRecorded DEF Places
  <2>4. Ramping'
    <3>1. \A i \in DOMAIN past' : past'[i] \in Waved
      BY <1>7
    <3>2. \A i \in WavesOf(seq)' : past'[i].wave < wave' /\ Quiet(i)'
      BY <1>3, <1>5, <1>8, <2>1, <3>1 DEF WavesOf, Quiet, Waved
    <3>3. \A w \in 1..wave' - 1 : \E i \in WavesOf(seq)' : past'[i].wave = w
      BY <1>3, <1>5, <2>1 DEF WavesOf
    <3>4. Len(report') = seq' - 1 /\ observed' = wave' - 1 /\ wave' # 0 /\ distress' = 0
      BY <1>3, <1>4, <1>8, <2>1
    <3> QED BY <1>5, <2>1, <3>2, <3>3, <3>4 DEF Ramping
  <2>5. RampReportsWhatHappened'
    <3>1. ASSUME NEW r \in DOMAIN report' PROVE LineTrue(r)'
      BY <1>1, <1>2, <1>6, <1>8, <3>1, OldLines
    <3> QED BY <3>1 DEF RampReportsWhatHappened, LineTrue, Quiet
  <2> QED BY <1>1, <2>2, <2>3, <2>4, <2>5 DEF PressureInv
<1>9. CASE /\ ~quiet \/ wave = Limit(seq)
           /\ report' = Reported(ok, at) /\ observed' = 0 /\ distress' = 0 /\ NextSeq
  <2>1. report' = Append(report, line) /\ ok \in Nat /\ at \in Nat
    BY <1>3, <1>4, <1>9 DEF Reported
  <2>2. line \in Lines
    BY <2>1 DEF Lines, Verdict
  <2>3. /\ report' \in Seq(Lines) /\ Len(report') = s /\ report'[s] = line
        /\ \A r \in DOMAIN report : report'[r] = report[r]
        /\ \A r \in DOMAIN report' : r \in DOMAIN report \/ r = s
    <3> HIDE DEF line
    <3> QED BY <1>3, <1>4, <2>1, <2>2
  <2>4. \/ /\ seq = Len(SeqLens) /\ Over /\ pc' = "done" /\ seq' = s /\ wave' = wave
        \/ /\ seq # Len(SeqLens) /\ StartWave(s + 1, 0)
           /\ pc' = "wave" /\ seq' = s + 1 /\ wave' = 0
    BY <1>2, <1>9 DEF NextSeq, Over, StartWave
  <2>5. Requests' /\ Queues'
    <3>1. s + 1 \in Nat /\ 0 \in Nat
      BY <1>3
    <3> QED BY <1>1, <2>4, <3>1, WaveTurns
  <2>6. Places'
    <3>1. seq' \in 1..Len(SeqLens) /\ wave' \in Nat
      BY <1>2, <1>3, <2>4
    <3>2. pc' # "health" /\ pc' \in {"health", "wave", "join", "done", "fatal"}
      BY <2>4
    <3> QED BY <1>1, <1>3, <1>9, <2>3, <3>1, <3>2, WaveRecorded DEF Places
  <2>7. Ramping'
    <3>1. CASE pc' = "done"
      BY <1>5, <1>9, <2>3, <2>4, <3>1 DEF Ramping
    <3>2. CASE pc' # "done"
      <4>1. seq' = s + 1 /\ wave' = 0 /\ Len(report') = seq' - 1 /\ observed' = 0 /\ distress' = 0
        BY <1>3, <1>9, <2>3, <2>4, <3>2
      <4>2. \A i \in DOMAIN past' : past'[i].seq \in Nat /\ past'[i].seq <= s
        BY <1>5, <1>7 DEF Waved
      <4>3. WavesOf(seq)' = {}
        BY <1>3, <4>1, <4>2 DEF WavesOf
      <4>4. \A i \in DOMAIN past' : past'[i].seq <= seq'
        BY <1>3, <4>1, <4>2
      <4> QED BY <3>2, <4>1, <4>3, <4>4 DEF Ramping
    <3> QED BY <3>1, <3>2
  <2>8. LineTrue(s)'
    <3>1. line.observed = ok /\ line.distress = at /\ line.verdict = Verdict(ok)
      OBVIOUS
    <3> HIDE DEF line
    <3>2. \A i \in DOMAIN past' : past'[i].seq = s /\ past'[i].wave <= ok =>
                                    past'[i].errs = 0 /\ past'[i].peak < QueueLimit
      <4>1. \A i \in DOMAIN past' : past'[i].wave \in Nat
        BY <1>7 DEF Waved
      <4>2. ~quiet => ok < wave
        BY <1>3, <1>4
      <4> HIDE DEF ok
      <4> QED BY <1>3, <1>5, <2>1, <4>1, <4>2
    <3>3. at = 0 => ok = Limit(s)
      BY <1>2, <1>3, <1>9
    <3>4. ASSUME at # 0
          PROVE /\ ok = at - 1
                /\ \E i \in DOMAIN past' :
                     /\ past'[i].seq = s /\ past'[i].wave = at
                     /\ past'[i].errs > 0 \/ past'[i].deepest >= QueueLimit
      <4>1. wave > 0 /\ Distressed /\ at = wave /\ ok = wave - 1
        BY <1>3, <1>4, <3>4
      <4>2. /\ ThisWave.seq = seq /\ ThisWave.wave = wave /\ ThisWave.errs = errs
            /\ ThisWave.deepest = deepest
        BY DEF ThisWave
      <4> HIDE DEF ThisWave, at, ok
      <4>3. New \in DOMAIN past' /\ past'[New] = ThisWave
        BY <1>1, <4>1, WaveRecorded DEF New
      <4>4. errs > 0 \/ deepest >= QueueLimit
        BY <4>1, PressureNumbers DEF Distressed, PressureInv, Queues
      <4> QED BY <1>2, <4>1, <4>2, <4>3, <4>4
    <3>5. ASSUME Verdict(ok) = "PASS", Predicted(s) > 0
          PROVE \E i \in DOMAIN past' :
                     /\ past'[i].seq = s /\ 100 * past'[i].wave >= 85 * Predicted(s)
                     /\ past'[i].errs = 0 /\ past'[i].peak < QueueLimit
      <4>1. ok >= 1 /\ 100 * ok >= 85 * Predicted(s)
        BY <1>2, <2>1, <3>5, PassIsClose
      <4>2. ok \in 1..wave
        BY <1>3, <1>4, <4>1
      <4>3. PICK i \in DOMAIN past' : past'[i].seq = s /\ past'[i].wave = ok
        BY <1>5, <4>2
      <4>4. past'[i].errs = 0 /\ past'[i].peak < QueueLimit
        BY <2>1, <3>2, <4>3
      <4> HIDE DEF ok
      <4> QED BY <4>1, <4>3, <4>4
    <3> HIDE DEF ok, at
    <3> QED BY <2>3, <3>1, <3>2, <3>3, <3>4, <3>5 DEF LineTrue, WavesOf, Quiet, Limit, Predicted
  <2>9. RampReportsWhatHappened'
    <3>1. ASSUME NEW r \in DOMAIN report' PROVE LineTrue(r)'
      <4>1. CASE r = s
        BY <2>8, <4>1
      <4>2. CASE r \in DOMAIN report
        BY <1>1, <1>2, <1>6, <2>3, <4>2, OldLines
      <4> QED BY <2>3, <4>1, <4>2
    <3> QED BY <3>1 DEF RampReportsWhatHappened, LineTrue, Quiet
  <2> QED BY <1>1, <2>5, <2>6, <2>7, <2>9 DEF PressureInv
<1> QED BY <1>8, <1>9 DEF RampWave

\* health() leads to the warmup of the first length, or out.
LEMMA BeginKeeps == PressureInv /\ Begin => PressureInv'
<1> SUFFICES ASSUME PressureInv, Begin PROVE PressureInv'
  OBVIOUS
<1>1. seq = 1 /\ wave = 0 /\ Places /\ pc = "health" /\ UNCHANGED <<driver, noteVars>>
  BY DEF PressureInv, Places, Begin
<1>2. Record
  BY <1>1 DEF Record, noteVars
<1>3. (StartWave(1, 0) \/ (pc' = "fatal" /\ UNCHANGED <<seq, wave, serverVars, sampler, stop, peak>>))
  BY DEF Begin
<1>4. pc' \in {"wave", "fatal"} /\ seq' = seq /\ wave' = wave
  BY <1>1, <1>3 DEF StartWave
<1>5. Requests' /\ Queues'
  <2>1. CASE StartWave(1, 0)
    BY <1>1, <1>2, <2>1, WaveTurns
  <2>2. CASE UNCHANGED <<seq, wave, serverVars, sampler, stop, peak>>
    BY <1>1, <2>2 DEF PressureInv, Requests, Queues, serverVars, noteVars
  <2> QED BY <1>3, <2>1, <2>2
<1>6. Places'
  BY <1>1, <1>4 DEF Places, noteVars
<1>7. driver = "ramp" => Ramping'
  BY <1>1, <1>4 DEF PressureInv, Ramping, noteVars, WavesOf, Quiet
<1>8. driver = "waves" => Counting'
  BY <1>1, <1>4 DEF PressureInv, Counting, noteVars
<1>9. RampReportsWhatHappened'
  BY <1>1 DEF PressureInv, RampReportsWhatHappened, noteVars, WavesOf
<1> QED BY <1>1, <1>5, <1>6, <1>7, <1>8, <1>9 DEF PressureInv

\* Every step of drivers, sampler and server keeps the invariant.
LEMMA PressureKeeps == PressureInv /\ [Next]_pressureVars => PressureInv'
<1>1. CASE UNCHANGED pressureVars
  BY <1>1 DEF pressureVars, PressureInv, Places, Requests, Queues, RampReportsWhatHappened,
              Ramping, Counting, WavesOf, Quiet
<1> QED BY <1>1, ServerKeeps, BeginKeeps, RampWaveKeeps, NextWaveKeeps
        DEF Next, Drive, Done

LEMMA PressureInvariant == Spec => []PressureInv
BY PressureStarts, PressureKeeps, PTL DEF Spec

-----------------------------------------------------------------------------
(* With the monitor beside them *)

\* The monitor only reads: with it, the drivers and the server do what they do
\* without it.
THEOREM MonitorOnlyReads == MonitorSpec => Spec
<1>1. MonitorInit => Init
  BY DEF MonitorInit
<1>2. [MonitorNext]_allVars => [Next]_pressureVars
  BY DEF MonitorNext, Cache, CacheMoves, Fetch, Judge, EndWatch, allVars
<1> QED BY <1>1, <1>2, PTL DEF MonitorSpec, Spec

\* What pressure.py of p03 files for a sequence length happened, for every
\* prediction, overshoot and queue limit, and however scrapes and requests fall.
THEOREM RampTellsTruth == MonitorSpec => []RampReportsWhatHappened
<1>1. PressureInv => RampReportsWhatHappened
  BY DEF PressureInv
<1> QED BY <1>1, MonitorOnlyReads, PressureInvariant, PTL

\* The first_wait_wave that pressure.py of p09 files is the first wave of which a
\* scrape met a queue, and there was one.
THEOREM FirstWaitTellsTruth == MonitorSpec => []FirstWaitIsFirst
<1>1. PressureInv => FirstWaitIsFirst
  <2> SUFFICES ASSUME PressureInv, driver = "waves", firstWait # 0
               PROVE  /\ past[firstWait].deepest > 0
                      /\ \A i \in DOMAIN past : i < firstWait => past[i].peak = 0
    BY DEF FirstWaitIsFirst
  <2>1. Counting /\ Places /\ past \in Seq(Waved)
    BY DEF PressureInv, Places
  <2>2. firstWait \in DOMAIN past
    BY <2>1 DEF Places, Counting
  <2>3. past[firstWait].peak <= past[firstWait].deepest /\ past[firstWait] \in Waved
    BY <2>1, <2>2 DEF PressureInv, Queues
  <2> QED BY <2>1, <2>3 DEF Counting, Waved
<1> QED BY <1>1, MonitorOnlyReads, PressureInvariant, PTL

\* Type correctness of drivers, sampler and server.
THEOREM PressureTyping == MonitorSpec => []PressureTypeOK
<1>1. PressureInv => PressureTypeOK
  <2> SUFFICES ASSUME PressureInv PROVE PressureTypeOK
    OBVIOUS
  <2>1. Len(report) <= Len(SeqLens)
    BY PressureNumbers DEF PressureInv, Places, Ramping, Counting, Drivers
  <2> QED BY <2>1 DEF PressureInv, Places, Requests, Queues, PressureTypeOK
<1> QED BY <1>1, MonitorOnlyReads, PressureInvariant, PTL

LEMMA MonitorInvariant == MonitorSpec => []MonitorInv
<1>1. MonitorInit => MonitorInv
  <2> SUFFICES ASSUME MonitorInit PROVE MonitorInv
    OBVIOUS
  <2>1. usage \in Below..Over90 /\ page \in Below..None /\ page # Below
    BY DEF MonitorInit, Below, Over90, None
  <2>2. /\ watching \in BOOLEAN /\ alerted \in BOOLEAN /\ calm \in BOOLEAN
        /\ ~alerted => calm
    BY Zenon DEF MonitorInit
  <2>3. calm
    BY DEF MonitorInit
  <2> QED BY <2>1, <2>2, <2>3, Zenon DEF MonitorInv
<1>2. MonitorInv /\ [MonitorNext]_allVars => MonitorInv'
  <2> SUFFICES ASSUME MonitorInv, [MonitorNext]_allVars PROVE MonitorInv'
    OBVIOUS
  <2>1. CASE Cache(Next) \/ CacheMoves
    <3>1. usage' \in Below..Over90
      BY <2>1 DEF Cache, CacheMoves, MonitorInv, Below, Over90
    <3>2. calm' = (calm \/ usage' = Below) /\ UNCHANGED <<watching, page, alerted>>
      BY <2>1 DEF Cache, CacheMoves, Seen
    <3>3. calm' \in BOOLEAN /\ (calm => calm')
      BY <3>2, Zenon
    <3> QED BY <3>1, <3>2, <3>3, Zenon DEF MonitorInv
  <2>2. CASE Fetch
    <3>1. UNCHANGED <<usage, watching, alerted>> /\ calm' = (calm \/ page' = Below)
      BY <2>2 DEF Fetch
    <3>2. page' \in Below..None
      BY <2>2 DEF Fetch, Reads, MonitorInv, Below, Over90, None
    <3>3. calm' \in BOOLEAN /\ (calm \/ page' = Below => calm')
      BY <3>1, Zenon
    <3> QED BY <3>1, <3>2, <3>3, Zenon DEF MonitorInv
  <2>3. CASE Judge
    <3>1. UNCHANGED <<usage, watching>> /\ page' = None
      BY <2>3 DEF Judge
    <3>2. page' \in Below..None /\ page' # Below
      BY <3>1 DEF Below, None
    <3>3. Rearms(page) => page = Below
      BY DEF Rearms, MonitorInv, Below, Band, None
    <3>4. \/ alerted' = TRUE /\ calm' = FALSE
          \/ Rearms(page) /\ alerted' = FALSE /\ calm' = calm
          \/ alerted' = alerted /\ calm' = calm
      BY <2>3, Zenon DEF Judge
    <3>5. alerted' \in BOOLEAN /\ calm' \in BOOLEAN /\ (~alerted' => calm')
      BY <3>3, <3>4, Zenon DEF MonitorInv
    <3> QED BY <3>1, <3>2, <3>5, Zenon DEF MonitorInv
  <2>4. CASE EndWatch
    <3>1. page' \in Below..None /\ page' # Below /\ watching' = FALSE
      BY <2>4 DEF EndWatch, Below, None
    <3> QED BY <2>4, <3>1, Zenon DEF EndWatch, MonitorInv
  <2>5. CASE UNCHANGED allVars
    BY <2>5, Zenon DEF allVars, monitorVars, MonitorInv
  <2> QED BY <2>1, <2>2, <2>3, <2>4, <2>5 DEF MonitorNext
<1> QED BY <1>1, <1>2, PTL DEF MonitorSpec

\* An ALERT comes from a page over the threshold, and never two without usage, or
\* a page that says nothing, below the band between them.
THEOREM AlertsAreApart == MonitorSpec => AlertsApart
<1>1. MonitorInv /\ [MonitorNext]_allVars => [~alerted /\ alerted' => page = Over90 /\ calm]_allVars
  <2> SUFFICES ASSUME MonitorInv, MonitorNext, ~alerted, alerted'
               PROVE  page = Over90 /\ calm
    OBVIOUS
  <2>1. Judge
    BY DEF MonitorNext, Cache, CacheMoves, Seen, Fetch, EndWatch
  <2> QED BY <2>1, Zenon DEF Judge, MonitorInv
<1> QED BY <1>1, MonitorInvariant, PTL DEF MonitorSpec, AlertsApart
=============================================================================
