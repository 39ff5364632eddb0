---------------------------- MODULE BenchHarness ----------------------------
(***************************************************************************)
(* The load harness of p02-bench/bench.py: one_request with its retries,   *)
(* wave, and the sweep of amain that turns results into rows, wave totals  *)
(* and a CSV file.  Workloads puts it together with the two scripts that   *)
(* import its functions, and holds the specification of all three.         *)
(*                                                                         *)
(* The tasks of a wave run interleaved in one event loop.  The semaphore   *)
(* has a permit for each of them and never makes one wait.  Times are left *)
(* out; a token's arrival time is the event that counts it.  A chunk may   *)
(* carry several tokens when the server decodes speculatively, and a usage *)
(* next to them, or a null in its place.                                   *)
(***************************************************************************)
EXTENDS Integers, Sequences, SequencesExt

CONSTANTS Concs,    \* the concurrencies of the sweep, a sequence
          MostTasks,\* requests at the same time at most, in any wave
          Repeats,  \* recorded waves per concurrency
          Retries,
          MaxChunks, Batch \* what the server sends at most, full chunks in an
                            \* attempt and tokens in a chunk

ASSUME BenchConstants ==
  /\ MostTasks \in Nat \ {0} /\ Concs \in Seq(1..MostTasks) /\ Repeats \in Nat \ {0}
  /\ Retries \in Nat \ {0} /\ MaxChunks \in Nat \ {0} /\ Batch \in Nat \ {0}

VARIABLES burst,     \* most tokens the server puts in a chunk, 1 or Batch
          key, rep,  \* position in the sweep, NotBegun or Fatal; rep 0 is the warmup
          pc,        \* where each task is
          attempt,   \* counted from 1
          tokens,    \* len(token_times)
          usage,     \* usage_tokens, 0 while it is None
          made,      \* history: tokens the server sent in this attempt
          result,    \* what one_request returned
          rows,      \* the rows of this key
          waves,     \* history: wave totals, with the wave they are of
          csv        \* results.csv

benchVars == <<burst, key, rep, pc, attempt, tokens, usage, made, result, rows, waves, csv>>

NotBegun == 0
Fatal == -1

Tasks == 1..MostTasks
\* The warmup is a wave of one.
Conc == IF rep = 0 THEN 1 ELSE Concs[key]
Wave == 1..Conc
\* What one_request reports, and how many tokens the server made for it.
Results == [ok : BOOLEAN, gen : Nat, made : Nat]
Nothing == [ok |-> FALSE, gen |-> 0, made |-> 0]

BenchTypeOK ==
  /\ burst \in {1, Batch}
  /\ key \in Nat \cup {Fatal} /\ rep \in Nat
  /\ pc \in [Tasks -> {"idle", "send", "open", "stream", "backoff", "returned"}]
  /\ attempt \in [Tasks -> 1..Retries + 1]
  /\ tokens \in [Tasks -> 0..MaxChunks * Batch]
  /\ usage \in [Tasks -> 0..MaxChunks * Batch]
  /\ made \in [Tasks -> 0..MaxChunks * Batch]
  /\ result \in [Tasks -> Results]

Start(n) == [i \in Tasks |-> IF i <= n THEN "send" ELSE "idle"]

Init ==
  /\ burst \in {1, Batch}
  /\ key = NotBegun /\ rep = 0
  /\ pc = Start(0)
  /\ attempt = [i \in Tasks |-> 1] /\ tokens = [i \in Tasks |-> 0]
  /\ usage = [i \in Tasks |-> 0] /\ made = [i \in Tasks |-> 0]
  /\ result = [i \in Tasks |-> Nothing]
  /\ rows = << >> /\ waves = << >> /\ csv = << >>

-----------------------------------------------------------------------------
(* one_request *)

\* compute_stats: without a token there is nothing to count, whatever n says.
Counted(seen, n) == IF seen = 0 THEN 0 ELSE n

\* What an attempt saw is its own: when it is over nothing reads it any more, and
\* the next one starts with nothing.
DropAttempt(i) ==
  /\ tokens' = [tokens EXCEPT ![i] = 0]
  /\ usage' = [usage EXCEPT ![i] = 0]
  /\ made' = [made EXCEPT ![i] = 0]

Return(i, o) ==
  /\ pc' = [pc EXCEPT ![i] = "returned"]
  /\ result' = [result EXCEPT ![i] = o]
  /\ DropAttempt(i)
  /\ UNCHANGED <<key, rep, attempt, rows, waves, csv>>

Outcome(i, ok, gen) == [ok |-> ok, gen |-> gen, made |-> made[i]]

Send(i) ==
  /\ pc[i] = "send"
  /\ pc' = [pc EXCEPT ![i] = "open"]
  /\ UNCHANGED <<key, rep, attempt, tokens, usage, made, result, rows, waves, csv>>

\* raise_for_status() raises what only the last except clause catches.
HttpError(i) == pc[i] = "open" /\ Return(i, Outcome(i, FALSE, 0))

Accepted(i) ==
  /\ pc[i] = "open"
  /\ pc' = [pc EXCEPT ![i] = "stream"]
  /\ UNCHANGED <<key, rep, attempt, tokens, usage, made, result, rows, waves, csv>>

\* An SSE chunk of n tokens: one more arrival time.  With "usage" in it, null or the
\* count so far, it is no arrival, whatever it carries.
Mentions == {"no usage", "null", "count"}
Chunk(i, n, mention) ==
  /\ pc[i] = "stream" /\ made[i] + n <= MaxChunks * burst
  /\ n = 0 => mention # "no usage" /\ made[i] > 0
  /\ made' = [made EXCEPT ![i] = @ + n]
  /\ tokens' = IF mention = "no usage" THEN [tokens EXCEPT ![i] = @ + 1] ELSE tokens
  /\ usage' = IF mention = "count" THEN [usage EXCEPT ![i] = made[i] + n] ELSE usage
  /\ UNCHANGED <<key, rep, pc, attempt, result, rows, waves, csv>>

\* n_tok = usage_tokens if usage_tokens else len(token_times)
MutByChunks(i) == tokens[i]
Tally(i) == IF usage[i] > 0 THEN usage[i] ELSE tokens[i]

\* data: [DONE], or the end of the body without it.
Done(i) == /\ pc[i] = "stream"
           /\ Return(i, Outcome(i, TRUE, Counted(tokens[i], Tally(i))))

\* A body that is not SSE: with a usage it is one sample, without it none.
Body(i, n) ==
  /\ pc[i] = "stream" /\ made[i] = 0
  /\ Return(i, [ok |-> TRUE, gen |-> n, made |-> n])

\* Refused, reset or timed out.  Without an arrival the attempt is repeated after
\* a pause; with one the loop is left for the line that reports no connection.
Retriable(i) == tokens[i] = 0

ConnectionLost(i) ==
  /\ pc[i] \in {"open", "stream"}
  /\ IF Retriable(i)
     THEN /\ pc' = [pc EXCEPT ![i] = "backoff"]
          /\ DropAttempt(i)
          /\ UNCHANGED <<key, rep, attempt, result, rows, waves, csv>>
     ELSE Return(i, Outcome(i, FALSE, 0))

\* The sleep ends; the last attempt sleeps too.
MutNoAnswer(i) == pc' = [pc EXCEPT ![i] = IF attempt[i] < Retries THEN "send" ELSE "idle"]
Again(i) == pc' = [pc EXCEPT ![i] = IF attempt[i] < Retries THEN "send" ELSE "returned"]

Wake(i) ==
  /\ pc[i] = "backoff"
  /\ attempt' = [attempt EXCEPT ![i] = @ + 1]
  /\ Again(i)
  /\ UNCHANGED <<key, rep, result, tokens, usage, made, rows, waves, csv>>

\* A chunked body that breaks off raises another class, and is a failed row with
\* the tokens that came.
PayloadError(i) == /\ pc[i] = "stream"
                   /\ Return(i, Outcome(i, FALSE, tokens[i]))
-----------------------------------------------------------------------------
(* The sweep *)

\* health() and the results directory, which must be new: without them the
\* script ends before the first wave, the warmup of the first key.
Begin ==
  /\ key = NotBegun
  /\ \/ key' = 1 /\ pc' = Start(1)
     \/ key' = Fatal /\ UNCHANGED pc
  /\ UNCHANGED <<rep, attempt, tokens, usage, made, result, rows, waves, csv>>

MutLastOf(s, n) == s
LastOf(s, n) == SubSeq(s, Len(s) - n + 1, Len(s))

\* ntok: the tokens of the ok rows among the last conc ones.
TokensOf(s) == FoldLeft(LAMBDA sum, r : sum + (IF r.ok THEN r.gen ELSE 0), 0, s)

Row(label, i) == [key |-> label, rep |-> rep, ok |-> result[i].ok,
                  gen |-> result[i].gen, made |-> result[i].made]

NextWave(k, n) == pc' = Start(IF n = 0 THEN 1 ELSE Concs[k])

\* gather() returns; the warmup's results are dropped, those of the last repeat
\* bring the key's rows to the file.
Gather ==
  LET more == rows \o [i \in Wave |-> Row(key, i)]
      last == rep = Repeats IN
  /\ key \in 1..Len(Concs) /\ \A i \in Wave : pc[i] = "returned"
  /\ attempt' = [i \in Tasks |-> 1] /\ result' = [i \in Tasks |-> Nothing]
  /\ UNCHANGED <<tokens, usage, made>>
  /\ \/ /\ rep = 0
        /\ rep' = 1 /\ NextWave(key, 1)
        /\ UNCHANGED <<key, rows, waves, csv>>
     \/ /\ rep > 0
        /\ waves' = Append(waves, [key |-> key, rep |-> rep,
                                   tok |-> TokensOf(LastOf(more, Conc))])
        /\ IF last THEN /\ csv' = csv \o more /\ rows' = << >>
                        /\ key' = key + 1 /\ rep' = 0
                   ELSE /\ rows' = more /\ rep' = rep + 1
                        /\ UNCHANGED <<csv, key>>
        /\ IF last /\ key = Len(Concs) THEN pc' = Start(0) ELSE NextWave(key', rep')

\* What the server, the network and the session's timeout do to a task.
Meets(i) ==
  \/ HttpError(i) \/ Accepted(i) \/ Done(i) \/ ConnectionLost(i) \/ PayloadError(i)
  \/ \E n \in 0..burst, mention \in Mentions : Chunk(i, n, mention)
  \/ \E n \in {0, burst} : Body(i, n)

Step(i) == Send(i) \/ Wake(i) \/ Meets(i)

-----------------------------------------------------------------------------
(* Properties *)

Reported == csv \o rows

\* No row claims more tokens than the server sent for it in one attempt, over
\* retries, batches and broken streams; and where the server's count closes an
\* answer of which one arrival was recorded, the row claims all of it, however it
\* was batched.
CountsTokensOnce ==
  /\ [](\A n \in DOMAIN Reported : Reported[n].gen <= Reported[n].made)
  /\ [][\A i \in Tasks :
         pc[i] = "stream" /\ pc'[i] = "returned" /\ result'[i].ok
         /\ usage[i] = made[i] /\ tokens[i] > 0
         => result'[i].gen = made[i]]_benchVars

\* "Authoritative token count": an ok row reports the server's count, if it sent one.
UsageIsAuthoritative ==
  [][\A i \in Tasks :
       pc[i] = "stream" /\ pc'[i] = "returned" /\ result'[i].ok /\ usage[i] > 0
       => result'[i].gen = usage[i]]_benchVars

\* "only while zero tokens arrived": no attempt follows one that brought a token.
RetriesUnserved ==
  [][\A i \in Tasks : pc[i] \in {"open", "stream"} /\ pc'[i] = "backoff" => made[i] = 0]_benchVars

\* The throughput of a wave is that of its own rows, which are next to each other:
\* the slice rows[-conc:] takes in no other repeat and the warmup is in none.
WaveTotals ==
  \A n \in DOMAIN waves : \E first, last \in DOMAIN Reported :
    /\ \A j \in DOMAIN Reported :
         Reported[j].key = waves[n].key /\ Reported[j].rep = waves[n].rep <=> j \in first..last
    /\ waves[n].tok = TokensOf(SubSeq(Reported, first, last))
=============================================================================
