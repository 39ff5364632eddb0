-------------------------- MODULE WorkloadsProofs --------------------------
(***************************************************************************)
(* What the three measuring scripts file, for all concurrencies, repeats,  *)
(* retries and conversations: tokens that were sent, once; waves, phases   *)
(* and conversations that are kept apart; whole units.  The invariant has  *)
(* a part for the tasks, which all share, and one for each script.         *)
(***************************************************************************)
EXTENDS Workloads, FiniteSetTheorems, FunctionTheorems, SequenceTheorems,
        WellFoundedInduction, TLAPS

Codes == {"idle", "send", "open", "stream", "backoff", "returned"}

\* What one_request reports never exceeds what was sent for it.
Outcomes == {r \in Results : r.gen <= r.made}

TaskTypes ==
  /\ burst \in {1, Batch} /\ key \in Nat \cup {Fatal} /\ rep \in Nat
  /\ pc \in [Tasks -> Codes]
  /\ attempt \in [Tasks -> 1..Retries + 1]
  /\ tokens \in [Tasks -> Nat] /\ usage \in [Tasks -> Nat] /\ made \in [Tasks -> Nat]
  /\ result \in [Tasks -> Outcomes]

\* The counts of an attempt: no arrival without a token, no usage above the tokens.
Served(i) ==
  /\ tokens[i] <= made[i] /\ usage[i] <= made[i] /\ made[i] <= MaxChunks * burst
  /\ pc[i] \in {"send", "open", "stream", "backoff"} => attempt[i] <= Retries

Waits == key = NotBegun => \A i \in Tasks : pc[i] = "idle" /\ attempt[i] = 1

TaskInv == TaskTypes /\ Waits /\ \A i \in Tasks : Served(i)

-----------------------------------------------------------------------------
(* bench.py *)

SweepRows ==
  {r \in [key : Nat, rep : Nat, ok : BOOLEAN, gen : Nat, made : Nat] : r.gen <= r.made}

Count(s, G) == Cardinality({n \in DOMAIN s : s[n] \in G})
OfKey(k) == {r \in SweepRows : r.key = k}

\* Of the totals it matters here only that they are totals of rows.
Totals == {TokensOf(s) : s \in Seq(SweepRows)}
WaveRecords == [key : Nat, rep : Nat, tok : Totals]

Sweeping == key \in 1..Len(Concs)

SweepInv ==
  /\ csv \in Seq(SweepRows) /\ rows \in Seq(SweepRows)
  /\ key \in {Fatal} \cup 0..Len(Concs) + 1 /\ rep \in 0..Repeats
  /\ ~Sweeping \/ rep = 0 => rows = << >>
  /\ ~Sweeping => rep = 0
  /\ Sweeping /\ rep > 0 =>
       /\ Len(rows) = (rep - 1) * Concs[key]
       /\ \A n \in DOMAIN rows : rows[n].key = key /\ rows[n].rep < rep
  /\ key # Fatal => \A n \in DOMAIN csv : csv[n].key < key
  /\ \A k \in DOMAIN Concs : Count(csv, OfKey(k)) \in {0, Repeats * Concs[k]}
  /\ waves \in Seq(WaveRecords)
  /\ key # Fatal => \A n \in DOMAIN waves :
       waves[n].key < key \/ (waves[n].key = key /\ waves[n].rep < rep)
  /\ WaveTotals

-----------------------------------------------------------------------------
(* experiment.py *)

Labels == {"base:decode", "mixed:decode", "mixed:hog"}
MixedRows ==
  {r \in [key : Labels, rep : Nat, ok : BOOLEAN, gen : Nat, made : Nat] : r.gen <= r.made}

OkOf(label) == {r \in MixedRows : r.key = label /\ r.ok}
OfRep(label, k) == {r \in MixedRows : r.key = label /\ r.rep = k}

MixedInv ==
  /\ csv \in Seq(MixedRows) /\ rows = << >> /\ waves = << >>
  /\ key \in {Fatal, NotBegun, Base, Mixed, Mixed + 1}
  /\ key \in {Base, Mixed} => rep \in 1..MixedRepeats
  /\ key = NotBegun => csv = << >>
  /\ key = Base => \A n \in DOMAIN csv : csv[n].rep < rep
  /\ key = Mixed => \A n \in DOMAIN csv :
       csv[n].rep < rep \/ (csv[n].rep = rep /\ csv[n].key = "base:decode")
  /\ samples \in [base : Nat, mixed : Nat, hog : Nat]
  /\ key # Fatal =>
       /\ samples.base = Count(csv, OkOf("base:decode"))
       /\ samples.mixed = Count(csv, OkOf("mixed:decode"))
       /\ samples.hog = Count(csv, OkOf("mixed:hog"))
  /\ \A k \in 1..MixedRepeats :
       /\ Count(csv, OfRep("mixed:decode", k)) = Decodes * Count(csv, OfRep("mixed:hog", k))
       /\ Count(csv, OfRep("base:decode", k)) \in {0, Decodes}

-----------------------------------------------------------------------------
(* workload.py *)

TurnRows ==
  {r \in [key : Nat, conv : Nat, history : Seq(Nat), ok : BOOLEAN, gen : Nat, made : Nat] :
     r.gen <= r.made}

\* The rows are conversations of Turns turns one after the other.
Conversations(s) ==
  \A n \in DOMAIN s :
    /\ s[n].conv = (n - 1) \div Turns + 1 /\ s[n].key = (n - 1) % Turns
    /\ s[n].history = IF s[n].key = 0 THEN << >> ELSE Append(s[n - 1].history, s[n - 1].gen)

\* They are those that come after the first q.
Follows(s, q) ==
  \A n \in 1..Len(s) :
    /\ s[n].conv = q + ((n - 1) \div Turns) + 1 /\ s[n].key = (n - 1) % Turns
    /\ s[n].history = IF s[n].key = 0 THEN << >> ELSE Append(s[n - 1].history, s[n - 1].gen)

\* What a task has said so far is one of them, and its history goes on from there.
Speaks(i) ==
  /\ Len(said[i]) <= Turns
  /\ \A t \in DOMAIN said[i] :
       /\ said[i][t].conv = Conv(key, i) /\ said[i][t].key = t - 1
       /\ said[i][t].history = IF t = 1 THEN << >>
                              ELSE Append(said[i][t - 1].history, said[i][t - 1].gen)
  /\ history[i] = IF said[i] = << >> THEN << >>
                  ELSE Append(said[i][Len(said[i])].history, said[i][Len(said[i])].gen)
  /\ Len(said[i]) = Turns => pc[i] = "returned" /\ attempt[i] = 1

TurnInv ==
  /\ csv \in Seq(TurnRows) /\ rows \in Seq(TurnRows) /\ waves = << >>
  /\ key \in {Fatal} \cup 0..LastGroup + 1
  /\ said \in [Tasks -> Seq(TurnRows)] /\ history \in [Tasks -> Seq(Nat)]
  /\ key \notin 1..LastGroup => said = NoTalk /\ history = NoTalk /\ rows = << >>
                               /\ \A i \in Tasks : pc[i] = "idle"
  /\ key \in 0..LastGroup => csv = << >>
  /\ csv = << >> \/ Len(csv) = Convs * Turns
  /\ key \in 1..LastGroup => Len(rows) = ((key - 1) * ConcConvs) * Turns
  /\ Conversations(csv) /\ Conversations(rows)
  /\ \A i \in Tasks : Speaks(i)

WorkInv ==
  /\ TaskInv
  /\ driver \in {"sweep", "mixed", "turns"}
  /\ driver = "sweep" => SweepInv
  /\ driver = "mixed" => MixedInv
  /\ driver = "turns" => TurnInv

-----------------------------------------------------------------------------
(* The tasks *)

\* What an attempt can carry.
LEMMA Capacity ==
  burst \in {1, Batch} => /\ MaxChunks * burst \in Nat /\ MaxChunks * Batch \in Nat
                          /\ MaxChunks * burst <= MaxChunks * Batch
<1> SUFFICES ASSUME burst \in {1, Batch}
             PROVE  /\ MaxChunks * burst \in Nat /\ MaxChunks * Batch \in Nat
                    /\ MaxChunks * burst <= MaxChunks * Batch
  OBVIOUS
<1>1. MaxChunks \in Nat /\ Batch \in Nat \ {0}
  BY BenchConstants
<1>2. MaxChunks * Batch \in Nat /\ MaxChunks <= MaxChunks * Batch
  <2>1. MaxChunks * (Batch - 1) \in Nat
    BY <1>1
  <2>2. MaxChunks * (Batch - 1) = MaxChunks * Batch - MaxChunks
    BY <1>1
  <2> QED BY <1>1, <2>1, <2>2
<1>3. CASE burst = 1
  BY <1>1, <1>2, <1>3
<1>4. CASE burst = Batch
  BY <1>2, <1>4
<1> QED BY <1>3, <1>4

LEMMA TaskConstants ==
  /\ Retries \in Nat \ {0} /\ MaxChunks \in Nat \ {0} /\ Batch \in Nat \ {0}
  /\ Nothing \in Outcomes /\ Tasks \subseteq Nat
  /\ \A n \in Int : Start(n) \in [Tasks -> Codes] /\ \A i \in Tasks : Start(n)[i] \in {"send", "idle"}
<1>1. Nothing \in Outcomes
  BY DEF Nothing, Outcomes, Results
<1>2. \A n \in Int : Start(n) \in [Tasks -> Codes] /\ \A i \in Tasks : Start(n)[i] \in {"send", "idle"}
  BY DEF Start, Codes
<1> QED BY <1>1, <1>2, BenchConstants DEF Tasks

\* A task that moves leaves the others what they have.
LEMMA OneTaskMoves ==
  ASSUME TaskInv, NEW i \in Tasks, pc[i] # "idle", UNCHANGED <<burst, key>>, TaskTypes', Served(i)',
         \A j \in Tasks \ {i} :
           /\ pc'[j] = pc[j] /\ attempt'[j] = attempt[j] /\ tokens'[j] = tokens[j]
           /\ usage'[j] = usage[j] /\ made'[j] = made[j] /\ result'[j] = result[j]
  PROVE  TaskInv'
<1>1. ASSUME NEW j \in Tasks, j # i PROVE Served(j)'
  BY <1>1 DEF TaskInv, Served
<1>2. Waits'
  BY DEF TaskInv, Waits
<1> QED BY <1>1, <1>2 DEF TaskInv

\* one_request returns, with no more than was sent.
LEMMA Returns ==
  ASSUME TaskInv, NEW i \in Tasks, NEW o \in Outcomes, UNCHANGED burst,
         pc[i] \in {"open", "stream"}, Return(i, o)
  PROVE  TaskInv'
<1>1. TaskTypes'
  BY DEF Return, DropAttempt, TaskInv, TaskTypes, Codes
<1>2. Served(i)'
  BY Capacity DEF Return, DropAttempt, TaskInv, TaskTypes, Served
<1>3. \A j \in Tasks \ {i} :
        /\ pc'[j] = pc[j] /\ attempt'[j] = attempt[j] /\ tokens'[j] = tokens[j]
        /\ usage'[j] = usage[j] /\ made'[j] = made[j] /\ result'[j] = result[j]
  BY DEF Return, DropAttempt, TaskInv, TaskTypes
<1> QED BY <1>1, <1>2, <1>3, OneTaskMoves DEF Return

\* Whatever a server sends, and however a request ends.
LEMMA TaskStep ==
  ASSUME TaskInv, NEW i \in Tasks, Step(i), UNCHANGED burst
  PROVE  TaskInv'
<1> DEFINE same(j) == /\ pc'[j] = pc[j] /\ attempt'[j] = attempt[j] /\ tokens'[j] = tokens[j]
                      /\ usage'[j] = usage[j] /\ made'[j] = made[j] /\ result'[j] = result[j]
<1>0. pc[i] # "idle" /\ UNCHANGED key
  BY DEF Step, Send, Wake, Meets, HttpError, Accepted, Done, Return, ConnectionLost,
         PayloadError, Chunk, Body
<1> DEFINE cap == MaxChunks * burst
<1>1. /\ made[i] \in Nat /\ tokens[i] \in Nat /\ usage[i] \in Nat /\ result[i] \in Outcomes
      /\ tokens[i] <= made[i] /\ usage[i] <= made[i] /\ burst \in Nat \ {0}
  BY TaskConstants, Capacity DEF TaskInv, TaskTypes, Served
<1>2. Served(i) /\ attempt[i] \in 1..Retries + 1 /\ cap \in Nat
  BY Capacity DEF TaskInv, TaskTypes
<1> HIDE DEF cap
<1>3. ASSUME NEW gen \in Nat, gen <= made[i]
      PROVE  Outcome(i, TRUE, gen) \in Outcomes /\ Outcome(i, FALSE, gen) \in Outcomes
  BY <1>1, <1>3 DEF Outcomes, Results, Outcome
<1>4. CASE Send(i)
  <2>1. TaskTypes'
    BY <1>4, TaskConstants DEF Send, TaskInv, TaskTypes, Codes
  <2>2. Served(i)'
    BY <1>1, <1>2, <1>4, TaskConstants DEF Send, TaskInv, TaskTypes, Served
  <2>3. \A j \in Tasks \ {i} : same(j)
    BY <1>4 DEF Send, TaskInv, TaskTypes
  <2> QED BY <2>1, <2>2, <2>3, <1>0, OneTaskMoves
<1>5. CASE Wake(i)
  <2>1. TaskTypes'
    BY <1>1, <1>2, <1>5, TaskConstants DEF Wake, Again, TaskInv, TaskTypes, Codes, Served
  <2>2. /\ pc'[i] = IF attempt[i] < Retries THEN "send" ELSE "returned"
        /\ attempt'[i] = attempt[i] + 1 /\ attempt[i] <= Retries
        /\ UNCHANGED <<tokens, usage, made, result>>
    BY <1>1, <1>2, <1>5 DEF Wake, Again, TaskInv, TaskTypes, Served
  <2>3. Served(i)'
    BY <1>1, <1>2, <2>2, TaskConstants DEF Served
  <2>4. \A j \in Tasks \ {i} : same(j)
    BY <1>5 DEF Wake, Again, TaskInv, TaskTypes
  <2> QED BY <2>1, <2>3, <2>4, <1>0, OneTaskMoves
<1>6. CASE HttpError(i)
  <2>1. Outcome(i, FALSE, 0) \in Outcomes
    BY <1>1 DEF Outcomes, Results, Outcome
  <2> QED BY <1>6, <2>1, Returns DEF HttpError
<1>7. CASE Accepted(i)
  <2>1. TaskTypes'
    BY <1>7 DEF Accepted, TaskInv, TaskTypes, Codes
  <2>2. Served(i)'
    BY <1>1, <1>2, <1>7 DEF Accepted, TaskInv, TaskTypes, Served
  <2>3. \A j \in Tasks \ {i} : same(j)
    BY <1>7 DEF Accepted, TaskInv, TaskTypes
  <2> QED BY <2>1, <2>2, <2>3, <1>0, OneTaskMoves
<1>8. ASSUME NEW n \in 0..burst, NEW mention \in Mentions, Chunk(i, n, mention) PROVE TaskInv'
  <2>0. n \in Nat
    BY <1>1
  <2>1. /\ made' = [made EXCEPT ![i] = @ + n]
        /\ tokens' = IF mention = "no usage" THEN [tokens EXCEPT ![i] = @ + 1] ELSE tokens
        /\ usage' = IF mention = "count" THEN [usage EXCEPT ![i] = made[i] + n] ELSE usage
        /\ UNCHANGED <<key, rep, pc, attempt, result>>
        /\ made[i] + n <= cap
        /\ n = 0 => mention # "no usage"
    BY <1>8, Zenon DEF Chunk, cap
  <2>2. /\ made'[i] = made[i] + n /\ made'[i] <= cap
        /\ tokens'[i] = tokens[i] \/ (tokens'[i] = tokens[i] + 1 /\ n # 0)
        /\ usage'[i] = usage[i] \/ usage'[i] = made[i] + n
    <3>1. tokens'[i] = IF mention = "no usage" THEN tokens[i] + 1 ELSE tokens[i]
      BY <2>1 DEF TaskInv, TaskTypes
    <3> QED BY <2>1, <3>1 DEF TaskInv, TaskTypes
  <2>3. TaskTypes'
    <3>1. made[i] + n \in Nat /\ tokens[i] + 1 \in Nat
      BY <1>1, <2>0
    <3>2. made' \in [Tasks -> Nat]
      BY <2>1, <3>1 DEF TaskInv, TaskTypes
    <3>3. tokens' \in [Tasks -> Nat]
      BY <2>1, <3>1 DEF TaskInv, TaskTypes
    <3>4. usage' \in [Tasks -> Nat]
      BY <2>1, <3>1 DEF TaskInv, TaskTypes
    <3> QED BY <2>1, <3>2, <3>3, <3>4 DEF TaskInv, TaskTypes
  <2>4. Served(i)'
    <3>1. /\ tokens'[i] <= made'[i] /\ usage'[i] <= made'[i]
          /\ made'[i] <= cap
      <4>1. made'[i] <= cap /\ made'[i] = made[i] + n
        BY <2>2
      <4>2. tokens'[i] <= made'[i]
        BY <1>1, <2>0, <2>2
      <4>3. usage'[i] <= made'[i]
        BY <1>1, <2>0, <2>2
      <4> QED BY <4>1, <4>2, <4>3
    <3> QED BY <1>1, <1>2, <2>1, <3>1 DEF Served, cap
  <2>5. \A j \in Tasks \ {i} : same(j)
    BY <2>1 DEF TaskInv, TaskTypes
  <2> QED BY <2>1, <2>3, <2>4, <2>5, <1>0, OneTaskMoves
<1>9. CASE Done(i)
  <2> DEFINE g == Counted(tokens[i], Tally(i))
  <2>1. g \in Nat /\ g <= made[i]
    BY <1>1 DEF Counted, Tally
  <2> HIDE DEF g
  <2>2. Outcome(i, TRUE, g) \in Outcomes
    BY <1>3, <2>1
  <2> QED BY <1>9, <2>2, Returns DEF Done, g
<1>10. ASSUME NEW n \in {0, burst}, Body(i, n) PROVE TaskInv'
  <2>1. [ok |-> TRUE, gen |-> n, made |-> n] \in Outcomes
    BY <1>1 DEF Outcomes, Results
  <2> QED BY <1>10, <2>1, Returns DEF Body
<1>11. CASE ConnectionLost(i)
  <2>1. CASE Retriable(i)
    <3>1. pc' = [pc EXCEPT ![i] = "backoff"] /\ DropAttempt(i) /\ pc[i] \in {"open", "stream"}
          /\ UNCHANGED <<key, rep, attempt, result>>
      BY <1>11, <2>1 DEF ConnectionLost
    <3>2. TaskTypes'
      BY <3>1 DEF DropAttempt, TaskInv, TaskTypes, Codes
    <3>3. Served(i)'
      <4>1. tokens'[i] = 0 /\ usage'[i] = 0 /\ made'[i] = 0 /\ attempt'[i] = attempt[i]
        BY <3>1 DEF DropAttempt, TaskInv, TaskTypes
      <4>2. 0 <= cap
        BY <1>2
      <4> QED BY <1>2, <3>1, <4>1, <4>2 DEF Served, cap
    <3>4. \A j \in Tasks \ {i} : same(j)
      BY <3>1 DEF DropAttempt, TaskInv, TaskTypes
    <3> QED BY <3>2, <3>3, <3>4, <1>0, OneTaskMoves
  <2>2. CASE ~Retriable(i)
    <3>1. Return(i, Outcome(i, FALSE, 0)) /\ pc[i] \in {"open", "stream"}
      BY <1>11, <2>2 DEF ConnectionLost
    <3>2. Outcome(i, FALSE, 0) \in Outcomes
      BY <1>1 DEF Outcomes, Results, Outcome
    <3> QED BY <3>1, <3>2, Returns
  <2> QED BY <2>1, <2>2
<1>12. CASE PayloadError(i)
  <2>1. Outcome(i, FALSE, tokens[i]) \in Outcomes
    BY <1>1, <1>3
  <2> QED BY <1>12, <2>1, Returns DEF PayloadError
<1> QED BY <1>4, <1>5, <1>6, <1>7, <1>8, <1>9, <1>10, <1>11, <1>12 DEF Step, Meets

\* A wave starts with fresh attempts.
LEMMA WaveStarts ==
  ASSUME TaskInv, NEW n \in Int, UNCHANGED <<burst, tokens, usage, made>>, pc' = Start(n),
         key' \in Nat, key' # NotBegun, rep' \in Nat,
         attempt' \in [Tasks -> 1..Retries + 1], \A i \in Tasks : i <= n => attempt'[i] = 1,
         result' \in [Tasks -> Outcomes]
  PROVE  TaskInv'
<1>1. \A i \in Tasks : pc'[i] = IF i <= n THEN "send" ELSE "idle"
  BY DEF Start
<1>2. TaskTypes'
  BY TaskConstants DEF TaskInv, TaskTypes
<1>3. ASSUME NEW i \in Tasks PROVE Served(i)'
  BY <1>1, TaskConstants DEF TaskInv, Served
<1> QED BY <1>2, <1>3 DEF TaskInv, Waits

\* It does when the results of the last one are dropped.
LEMMA NextWaveStarts ==
  ASSUME TaskInv, UNCHANGED <<burst, tokens, usage, made>>, \E n \in Int : pc' = Start(n),
         key' \in Nat, key' # NotBegun, rep' \in Nat, Forget
  PROVE  TaskInv'
<1>1. PICK n \in Int : pc' = Start(n)
  OBVIOUS
<1>2. attempt' \in [Tasks -> 1..Retries + 1] /\ result' \in [Tasks -> Outcomes]
      /\ \A i \in Tasks : attempt'[i] = 1
  BY TaskConstants DEF Forget
<1> QED BY <1>1, <1>2, WaveStarts

\* The first wave finds the attempts as they were made.
LEMMA FirstWaveStarts ==
  ASSUME TaskInv, key = NotBegun, NEW n \in Int, pc' = Start(n), key' \in Nat \ {0}, rep' \in Nat,
         UNCHANGED <<burst, attempt, tokens, usage, made, result>>
  PROVE  TaskInv'
<1>1. \A i \in Tasks : attempt'[i] = 1
  BY DEF TaskInv, Waits
<1>2. attempt' \in [Tasks -> 1..Retries + 1] /\ result' \in [Tasks -> Outcomes]
  BY DEF TaskInv, TaskTypes
<1> QED BY <1>1, <1>2, WaveStarts DEF NotBegun

\* Without a server a script ends as it began.
LEMMA GivesUp ==
  ASSUME TaskInv, key' = Fatal, UNCHANGED <<burst, rep, pc, attempt, tokens, usage, made, result>>
  PROVE  TaskInv'
<1>1. TaskTypes'
  BY DEF TaskInv, TaskTypes
<1>2. \A i \in Tasks : Served(i)'
  BY DEF TaskInv, Served
<1> QED BY <1>1, <1>2 DEF TaskInv, Waits, NotBegun, Fatal

\* All groups but the last are full.
LEMMA GroupArithmetic ==
  /\ LastGroup \in Nat \ {0}
  /\ \A g \in 1..LastGroup :
       /\ GroupSize(g) \in 1..ConcConvs
       /\ (g - 1) * ConcConvs + GroupSize(g) = IF g = LastGroup THEN Convs ELSE g * ConcConvs
       /\ g # LastGroup => GroupSize(g) = ConcConvs
<1> DEFINE c == ConcConvs
           v == Convs
           l == LastGroup
<1>1. c \in Nat \ {0} /\ v \in Nat \ {0}
  BY WorkloadConstants, BenchConstants
<1>2. l \in Nat /\ \E m \in 0..c - 1 : v + c - 1 = c * l + m
  <2>1. (v + c - 1) \div c \in Nat /\ (v + c - 1) % c \in 0..c - 1
        /\ v + c - 1 = c * ((v + c - 1) \div c) + ((v + c - 1) % c)
    BY <1>1, Z3
  <2> QED BY <2>1 DEF LastGroup
<1> HIDE DEF l
<1>3. PICK m \in 0..c - 1 : v + c - 1 = c * l + m
  BY <1>2
<1>4. c * l >= v /\ c * l - c < v
  <2>1. c * l \in Nat
    BY <1>1, <1>2
  <2> QED BY <1>1, <1>3, <2>1
<1>5. l # 0
  BY <1>1, <1>4
<1>6. ASSUME NEW g \in 1..l PROVE
        /\ GroupSize(g) \in 1..c /\ (g # l => GroupSize(g) = c)
        /\ (g - 1) * c + GroupSize(g) = IF g = l THEN v ELSE g * c
  <2>1. g * c \in Nat /\ c * l \in Nat /\ (g - 1) * c = g * c - c
    BY <1>1, <1>2
  <2>2. g # l => g * c + c <= c * l
    <3>1. g # l => c * (l - g - 1) >= 0
      BY <1>1, <1>2
    <3>2. c * (l - g - 1) = c * l - g * c - c
      BY <1>1, <1>2
    <3> QED BY <1>1, <1>2, <2>1, <3>1, <3>2
  <2>3. g = l => g * c = c * l
    BY <1>1, <1>2
  <2> QED BY <1>1, <1>4, <2>1, <2>2, <2>3 DEF GroupSize
<1> QED BY <1>2, <1>5, <1>6 DEF l

\* Whatever the script does next, the tasks keep to their part of the invariant.
LEMMA TaskNext ==
  ASSUME WorkInv, WorkNext
  PROVE  TaskInv'
<1>0. /\ TaskInv /\ UNCHANGED <<driver, burst>> /\ 0 \in Int /\ 1 \in Int /\ Retries >= 1
      /\ \A k \in 1..Len(Concs) : Concs[k] \in Int
      /\ Decodes \in Int /\ Decodes >= 1 /\ Hog \in Int
      /\ key \in Nat \cup {Fatal} /\ rep \in Nat
  BY TaskConstants, BenchConstants, WorkloadConstants
     DEF WorkInv, TaskInv, TaskTypes, WorkNext, asked, Hog
<1>1. CASE Begin
  <2>1. key = NotBegun /\ UNCHANGED <<rep, attempt, tokens, usage, made, result>>
    BY <1>1 DEF Begin
  <2>2. CASE key' = Fatal /\ UNCHANGED pc
    BY <1>0, <2>1, <2>2, GivesUp
  <2>3. CASE key' = 1 /\ pc' = Start(1)
    BY <1>0, <2>1, <2>3, FirstWaveStarts
  <2> QED BY <1>1, <2>2, <2>3 DEF Begin
<1>2. CASE Gather
  <2>1. Forget /\ UNCHANGED <<tokens, usage, made>> /\ key \in 1..Len(Concs)
    BY <1>2 DEF Gather, Forget
  <2>2. \E n \in Int : pc' = Start(n)
    <3>1. CASE rep = 0
      <4>1. pc' = Start(Concs[key])
        BY <1>2, <3>1 DEF Gather, NextWave
      <4> QED BY <1>0, <2>1, <4>1
    <3>2. CASE rep > 0
      <4>1. CASE rep = Repeats /\ key = Len(Concs)
        BY <1>0, <1>2, <3>2, <4>1 DEF Gather
      <4>2. CASE rep = Repeats /\ key # Len(Concs)
        <5>1. pc' = Start(1)
          BY <1>2, <3>2, <4>2 DEF Gather, NextWave
        <5> QED BY <1>0, <5>1
      <4>3. CASE rep # Repeats
        <5>1. pc' = Start(IF rep + 1 = 0 THEN 1 ELSE Concs[key])
          BY <1>2, <3>2, <4>3 DEF Gather, NextWave
        <5> QED BY <1>0, <2>1, <3>2, <5>1
      <4> QED BY <4>1, <4>2, <4>3
    <3> QED BY <1>0, <3>1, <3>2
  <2>3. key' \in Nat /\ key' # NotBegun /\ rep' \in Nat
    BY <1>0, <1>2, <2>1 DEF Gather, NotBegun
  <2> QED BY <1>0, <2>1, <2>2, <2>3, NextWaveStarts
<1>3. CASE MixedBegin
  <2>1. key = NotBegun /\ UNCHANGED <<attempt, tokens, usage, made, result>>
    BY <1>3 DEF MixedBegin
  <2>2. CASE key' = Fatal /\ UNCHANGED <<rep, pc>>
    BY <1>0, <2>1, <2>2, GivesUp
  <2>3. CASE key' = Base /\ rep' = 1 /\ pc' = Start(Decodes)
    BY <1>0, <2>1, <2>3, FirstWaveStarts DEF Base
  <2> QED BY <1>3, <2>2, <2>3 DEF MixedBegin
<1>4. CASE BaseEnds
  <2>1. key' = Mixed /\ pc' = Start(Hog) /\ Forget /\ UNCHANGED <<rep, tokens, usage, made>>
    BY <1>4 DEF BaseEnds
  <2> QED BY <1>0, <2>1, NextWaveStarts DEF NotBegun, Mixed
<1>5. CASE MixedEnds
  <2>1. Forget /\ UNCHANGED <<tokens, usage, made>>
    BY <1>5 DEF MixedEnds
  <2>2. CASE key' = Base /\ rep' = rep + 1 /\ pc' = Start(Decodes)
    BY <1>0, <2>1, <2>2, NextWaveStarts DEF NotBegun, Base
  <2>3. CASE key' = Mixed + 1 /\ pc' = Start(0) /\ UNCHANGED rep
    BY <1>0, <2>1, <2>3, NextWaveStarts DEF NotBegun, Mixed
  <2> QED BY <1>5, <2>2, <2>3 DEF MixedEnds
<1>6. CASE TurnsBegin
  <2>1. key = NotBegun /\ UNCHANGED <<rep, attempt, tokens, usage, made, result>>
    BY <1>6 DEF TurnsBegin
  <2>2. CASE key' = Fatal /\ UNCHANGED pc
    BY <1>0, <2>1, <2>2, GivesUp
  <2>3. CASE key' = 1 /\ pc' = Start(GroupSize(1))
    <3>1. GroupSize(1) \in Int
      BY GroupArithmetic
    <3> QED BY <1>0, <2>1, <2>3, <3>1, FirstWaveStarts
  <2> QED BY <1>6, <2>2, <2>3 DEF TurnsBegin
<1>7. CASE GroupEnds /\ driver = "turns"
  <2>1. key \in 1..LastGroup /\ key' = key + 1 /\ GroupSize(key) \in Int
        /\ pc' = Start(IF key = LastGroup THEN 0 ELSE GroupSize(key + 1))
        /\ UNCHANGED <<rep, attempt, tokens, usage, made, result>>
    BY <1>7, GroupArithmetic DEF GroupEnds
  <2>2. \A i \in Tasks : i <= GroupSize(key) => attempt[i] = 1
    <3>1. \A i \in 1..GroupSize(key) : Len(said[i]) = Turns
      BY <1>7 DEF GroupEnds
    <3>2. \A i \in Tasks : Len(said[i]) = Turns => attempt[i] = 1
      BY <1>7 DEF WorkInv, TurnInv, Speaks
    <3>3. \A i \in Tasks : i <= GroupSize(key) => i \in 1..GroupSize(key)
      BY <2>1 DEF Tasks
    <3> QED BY <3>1, <3>2, <3>3
  <2>3. attempt' \in [Tasks -> 1..Retries + 1] /\ result' \in [Tasks -> Outcomes]
        /\ key' \in Nat /\ key' # NotBegun /\ rep' \in Nat
    BY <1>0, <2>1, GroupArithmetic DEF TaskInv, TaskTypes, NotBegun
  <2>4. CASE key = LastGroup
    <3>1. pc' = Start(0) /\ \A i \in Tasks : i <= 0 => attempt'[i] = 1
      BY <2>1, <2>4 DEF Tasks
    <3> QED BY <1>0, <2>1, <2>3, <3>1, WaveStarts
  <2>5. CASE key # LastGroup
    <3>1. GroupSize(key + 1) \in Int /\ GroupSize(key + 1) <= GroupSize(key)
      <4>1. key + 1 \in 1..LastGroup
        BY <2>1, <2>5, GroupArithmetic
      <4> QED BY <2>1, <2>5, <4>1, GroupArithmetic, WorkloadConstants, BenchConstants
    <3>2. \A i \in Tasks : i <= GroupSize(key + 1) => attempt'[i] = 1
      BY <2>1, <2>2, <3>1 DEF Tasks
    <3>3. pc' = Start(GroupSize(key + 1))
      BY <2>1, <2>5
    <3> QED BY <1>0, <2>1, <2>3, <3>1, <3>2, <3>3, WaveStarts
  <2> QED BY <2>4, <2>5
<1>8. ASSUME NEW i \in Tasks, TurnEnds(i) PROVE TaskInv'
  <2>1. pc[i] = "returned" /\ UNCHANGED <<key, rep, tokens, usage, made>>
    BY <1>8 DEF TurnEnds
  <2>2. /\ attempt' = [attempt EXCEPT ![i] = 1] /\ result' = [result EXCEPT ![i] = Nothing]
        /\ \E c \in {"send", "returned"} : pc' = [pc EXCEPT ![i] = c]
    BY <1>8 DEF TurnEnds
  <2>3. TaskTypes'
    BY <1>0, <2>1, <2>2, TaskConstants DEF TaskInv, TaskTypes, Codes
  <2>4. attempt'[i] = 1 /\ ~result'[i].ok /\ pc'[i] \in {"send", "returned"}
    BY <1>0, <2>2 DEF TaskInv, TaskTypes, Nothing
  <2>5. Served(i)'
    BY <1>0, <2>1, <2>4 DEF TaskInv, Served
  <2>6. \A j \in Tasks \ {i} :
          pc'[j] = pc[j] /\ attempt'[j] = attempt[j] /\ result'[j] = result[j]
    BY <1>0, <2>2 DEF TaskInv, TaskTypes
  <2> QED BY <1>0, <2>1, <2>3, <2>5, <2>6, OneTaskMoves
<1>9. CASE Interrupt
  <2>1. TaskTypes'
    BY <1>0, <1>9, TaskConstants DEF Interrupt, Forget, TaskInv, TaskTypes
  <2>2. \A i \in Tasks : pc'[i] = "idle" /\ tokens'[i] = 0 /\ usage'[i] = 0 /\ made'[i] = 0
    BY <1>9, TaskConstants DEF Interrupt, Start, Tasks
  <2>3. ASSUME NEW i \in Tasks PROVE Served(i)'
    BY <1>0, <1>9, <2>2, TaskConstants, Capacity DEF Served, TaskInv, TaskTypes
  <2> QED BY <1>9, <2>1, <2>3 DEF Interrupt, TaskInv, Waits, NotBegun, Fatal
<1>10. CASE Over
  BY <1>0, <1>10 DEF Over, workVars, benchVars, TaskInv, TaskTypes, Waits, Served
<1>11. ASSUME NEW i \in Tasks, Step(i) PROVE TaskInv'
  BY <1>0, <1>11, TaskStep
<1> QED BY <1>1, <1>2, <1>3, <1>4, <1>5, <1>6, <1>7, <1>8, <1>9, <1>10, <1>11
        DEF WorkNext, Coordinate

-----------------------------------------------------------------------------
(* Rows that are put behind other rows *)

\* What is counted in two files is counted in one behind the other.
LEMMA CountAppend ==
  ASSUME NEW S, NEW s \in Seq(S), NEW t \in Seq(S), NEW G
  PROVE  /\ Count(s, G) \in Nat /\ Count(t, G) \in Nat
         /\ Count(s \o t, G) = Count(s, G) + Count(t, G)
<1> DEFINE u == s \o t
           A == {n \in DOMAIN s : s[n] \in G}
           B == {n \in DOMAIN t : t[n] \in G}
           C == {n \in DOMAIN u : u[n] \in G /\ n > Len(s)}
           f == [n \in B |-> n + Len(s)]
<1>1. /\ Len(s) \in Nat /\ Len(t) \in Nat /\ DOMAIN s = 1..Len(s) /\ DOMAIN t = 1..Len(t)
      /\ DOMAIN u = 1..Len(s) + Len(t)
      /\ \A i \in 1..Len(s) + Len(t) : u[i] = IF i <= Len(s) THEN s[i] ELSE t[i - Len(s)]
  BY LenProperties, ConcatProperties
<1> HIDE DEF u
<1>2. /\ IsFiniteSet(A) /\ IsFiniteSet(B)
      /\ Cardinality(A) \in Nat /\ Cardinality(B) \in Nat
  <2>1. IsFiniteSet(1..Len(s)) /\ IsFiniteSet(1..Len(t))
    BY <1>1, FS_Interval
  <2>2. A \in SUBSET (1..Len(s)) /\ B \in SUBSET (1..Len(t))
    BY <1>1
  <2> HIDE DEF A, B
  <2>3. IsFiniteSet(A) /\ IsFiniteSet(B)
    BY <2>1, <2>2, FS_Subset
  <2> QED BY <2>3, FS_CardinalityType
<1>3. IsFiniteSet(C) /\ Cardinality(C) = Cardinality(B)
  <2>1. f \in [B -> C]
    BY <1>1
  <2>2. \A a, b \in B : f[a] = f[b] => a = b
    BY <1>1
  <2>3. \A c \in C : \E b \in B : f[b] = c
    <3>1. ASSUME NEW c \in C PROVE c - Len(s) \in B /\ f[c - Len(s)] = c
      BY <1>1
    <3> QED BY <3>1
  <2>4. ExistsBijection(B, C)
    BY <2>1, <2>2, <2>3, Fun_IsBij, Fun_ExistsBij
  <2> QED BY <1>2, <2>4, FS_Bijection
<1>4. {n \in DOMAIN u : u[n] \in G} = A \cup C /\ A \cap C = {}
  BY <1>1
<1>5. Cardinality(A \cup C) = Cardinality(A) + Cardinality(C) - Cardinality(A \cap C)
  BY <1>2, <1>3, FS_Union
<1>6. Cardinality(A \cup C) = Cardinality(A) + Cardinality(B)
  <2>1. Cardinality(A \cap C) = 0
    BY <1>4, FS_EmptySet
  <2> HIDE DEF A, B, C
  <2> QED BY <1>2, <1>3, <1>5, <2>1
<1> QED BY <1>2, <1>4, <1>6 DEF Count, u

\* A file of rows of one kind has all of them, and none of another kind.
LEMMA CountOfOneKind ==
  ASSUME NEW S, NEW s \in Seq(S), NEW G
  PROVE  /\ (\A n \in DOMAIN s : s[n] \in G) => Count(s, G) = Len(s)
         /\ (\A n \in DOMAIN s : s[n] \notin G) => Count(s, G) = 0
<1>1. DOMAIN s = 1..Len(s) /\ Len(s) \in Nat
  BY LenProperties
<1>2. ASSUME \A n \in DOMAIN s : s[n] \in G PROVE Count(s, G) = Len(s)
  <2>1. {n \in DOMAIN s : s[n] \in G} = 1..Len(s)
    BY <1>1, <1>2
  <2>2. Cardinality(1..Len(s)) = Len(s)
    <3>1. Cardinality(1..Len(s)) = IF 1 > Len(s) THEN 0 ELSE Len(s) - 1 + 1
      BY <1>1, FS_Interval
    <3> QED BY <1>1, <3>1
  <2> QED BY <2>1, <2>2 DEF Count
<1>3. ASSUME \A n \in DOMAIN s : s[n] \notin G PROVE Count(s, G) = 0
  <2>1. {n \in DOMAIN s : s[n] \in G} = {}
    BY <1>3
  <2> QED BY <2>1, FS_EmptySet DEF Count
<1> QED BY <1>2, <1>3

\* The end of a concatenation is what was put there.
LEMMA LastOfConcat ==
  ASSUME NEW S, NEW s \in Seq(S), NEW t \in Seq(S), Len(t) > 0
  PROVE  SubSeq(s \o t, Len(s) + 1, Len(s) + Len(t)) = t /\ LastOf(s \o t, Len(t)) = t
<1>1. Len(s) \in Nat /\ Len(t) \in Nat /\ Len(s \o t) = Len(s) + Len(t)
  BY LenProperties, ConcatProperties
<1>2. SubSeq(s \o t, Len(s) + 1, Len(s) + Len(t))
        = SubSeq(t, Len(s) + 1 - Len(s), Len(s) + Len(t) - Len(s))
  BY <1>1, SubSeqOfConcat2
<1>3. Len(s) + 1 - Len(s) = 1 /\ Len(s) + Len(t) - Len(s) = Len(t)
      /\ Len(s) + Len(t) - Len(t) + 1 = Len(s) + 1
  BY <1>1
<1> QED BY <1>1, <1>2, <1>3, SubSeqFull DEF LastOf

-----------------------------------------------------------------------------
(* bench.py *)

LEMMA SweepConstants ==
  /\ Repeats \in Nat \ {0} /\ Len(Concs) \in Nat /\ DOMAIN Concs = 1..Len(Concs)
  /\ \A k \in 1..Len(Concs) : Concs[k] \in Nat \ {0} /\ Concs[k] \in Tasks
  /\ \A k : OfKey(k) = {r \in SweepRows : r.key = k}
BY BenchConstants DEF Tasks, OfKey

\* The rows of a wave, one for each of its requests.
LEMMA RowsOfWave ==
  ASSUME TaskInv, NEW label \in Nat, NEW c \in Tasks
  PROVE  LET new == [i \in 1..c |-> Row(label, i)] IN
         /\ new \in Seq(SweepRows) /\ Len(new) = c
         /\ \A n \in 1..c : new[n].key = label /\ new[n].rep = rep
<1> DEFINE new == [i \in 1..c |-> Row(label, i)]
<1>1. c \in Nat /\ \A i \in 1..c : i \in Tasks
  BY TaskConstants, BenchConstants DEF Tasks
<1>2. ASSUME NEW i \in 1..c
      PROVE  Row(label, i) \in SweepRows /\ Row(label, i).key = label /\ Row(label, i).rep = rep
  <2>1. result[i] \in Outcomes /\ rep \in Nat
    BY <1>1 DEF TaskInv, TaskTypes
  <2> QED BY <2>1 DEF Row, SweepRows, Outcomes, Results
<1>3. new \in Seq(SweepRows) /\ Len(new) = c /\ \A n \in 1..c : new[n] = Row(label, n)
  BY <1>1, <1>2
<1> QED BY <1>2, <1>3

\* A wave that is filed behind the others keeps every total true: the rows it adds
\* are those of its own repeat, and no other row is.
LEMMA OneWaveMore ==
  ASSUME csv \in Seq(SweepRows), rows \in Seq(SweepRows), waves \in Seq(WaveRecords),
         NEW w \in WaveRecords, NEW new \in Seq(SweepRows), Len(new) > 0, w.tok = TokensOf(new),
         \A n \in DOMAIN new : new[n].key = w.key /\ new[n].rep = w.rep,
         \A n \in DOMAIN Reported : ~(Reported[n].key = w.key /\ Reported[n].rep = w.rep),
         \A n \in DOMAIN waves : ~(waves[n].key = w.key /\ waves[n].rep = w.rep),
         WaveTotals, Reported' = Reported \o new, waves' = Append(waves, w)
  PROVE  WaveTotals' /\ waves' \in Seq(WaveRecords) /\ Reported \in Seq(SweepRows)
<1> DEFINE all == Reported
<1>1. all \in Seq(SweepRows)
  BY ConcatProperties DEF Reported
<1> HIDE DEF all
<1>3. /\ waves' \in Seq(WaveRecords) /\ Len(waves) \in Nat /\ DOMAIN waves = 1..Len(waves)
      /\ DOMAIN waves' = 1..Len(waves) + 1 /\ waves'[Len(waves) + 1] = w
      /\ \A n \in 1..Len(waves) : waves'[n] = waves[n]
  <2>1. waves' \in Seq(WaveRecords) /\ Len(waves') = Len(waves) + 1
    BY AppendProperties
  <2> QED BY <2>1, AppendProperties, LenProperties
<1>4. /\ Len(all) \in Nat /\ Len(new) \in Nat /\ DOMAIN all = 1..Len(all) /\ DOMAIN new = 1..Len(new)
      /\ DOMAIN (all \o new) = 1..Len(all) + Len(new)
      /\ \A j \in 1..Len(all) + Len(new) :
           (all \o new)[j] = IF j <= Len(all) THEN all[j] ELSE new[j - Len(all)]
  BY <1>1, LenProperties, ConcatProperties
<1> DEFINE more == all \o new
           own(n, j) == more[j].key = waves'[n].key /\ more[j].rep = waves'[n].rep
<1>5. ASSUME NEW n \in DOMAIN waves'
      PROVE  \E first, last \in DOMAIN more :
               /\ \A j \in DOMAIN more : own(n, j) <=> j \in first..last
               /\ waves'[n].tok = TokensOf(SubSeq(more, first, last))
  <2>1. CASE n = Len(waves) + 1
    <3> DEFINE first == Len(all) + 1
               last == Len(all) + Len(new)
    <3>1. SubSeq(more, first, last) = new
      BY <1>1, LastOfConcat
    <3>2. first \in DOMAIN more /\ last \in DOMAIN more
      BY <1>4
    <3>3. waves'[n] = w
      BY <1>3, <2>1
    <3>4. ASSUME NEW j \in DOMAIN more PROVE own(n, j) <=> j \in first..last
      <4>1. CASE j <= Len(all)
        <5>1. more[j] = all[j] /\ j \in DOMAIN all /\ j \notin first..last
          BY <1>4, <4>1
        <5> QED BY <3>3, <5>1 DEF all
      <4>2. CASE ~(j <= Len(all))
        <5>1. more[j] = new[j - Len(all)] /\ j - Len(all) \in DOMAIN new /\ j \in first..last
          BY <1>4, <4>2
        <5> QED BY <3>3, <5>1
      <4> QED BY <4>1, <4>2
    <3> HIDE DEF first, last
    <3> QED BY <3>1, <3>2, <3>3, <3>4
  <2>2. CASE n \in 1..Len(waves)
    <3>1. waves'[n] = waves[n] /\ ~(waves'[n].key = w.key /\ waves'[n].rep = w.rep)
      BY <1>3, <2>2
    <3>2. PICK first \in DOMAIN all, last \in DOMAIN all :
            /\ \A j \in DOMAIN all :
                 all[j].key = waves[n].key /\ all[j].rep = waves[n].rep <=> j \in first..last
            /\ waves[n].tok = TokensOf(SubSeq(all, first, last))
      BY <1>3, <2>2 DEF WaveTotals, all
    <3>3. SubSeq(more, first, last) = SubSeq(all, first, last)
      <4>1. first \in 1..Len(all) /\ last \in 1..Len(all)
        BY <1>4
      <4> QED BY <1>1, <4>1, SubSeqOfConcat1
    <3>4. first \in DOMAIN more /\ last \in DOMAIN more
      BY <1>4
    <3>5. ASSUME NEW j \in DOMAIN more PROVE own(n, j) <=> j \in first..last
      <4>1. CASE j <= Len(all)
        <5>1. more[j] = all[j] /\ j \in DOMAIN all
          BY <1>4, <4>1
        <5> QED BY <3>1, <3>2, <5>1
      <4>2. CASE ~(j <= Len(all))
        <5>1. more[j] = new[j - Len(all)] /\ j - Len(all) \in DOMAIN new /\ j \notin first..last
          BY <1>4, <4>2
        <5> QED BY <3>1, <5>1
      <4> QED BY <4>1, <4>2
    <3> QED BY <3>1, <3>2, <3>3, <3>4, <3>5
  <2>3. n = Len(waves) + 1 \/ n \in 1..Len(waves)
    <3>1. n \in 1..Len(waves) + 1 /\ Len(waves) \in Nat
      BY <1>3, <1>5, Zenon
    <3> QED BY <3>1
  <2> HIDE DEF own, more
  <2> QED BY <2>1, <2>2, <2>3
<1>6. Reported' = more
  BY DEF all
<1> HIDE DEF more
<1> QED BY <1>1, <1>3, <1>5, <1>6 DEF WaveTotals, all

LEMMA WaveTyped ==
  ASSUME NEW s \in Seq(WaveRecords)
  PROVE  \A n \in DOMAIN s : s[n].key \in Nat /\ s[n].rep \in Nat
<1>1. \A n \in DOMAIN s : s[n] \in WaveRecords
  BY ElementOfSeq, LenProperties
<1> QED BY <1>1 DEF WaveRecords

\* Nothing but the script itself touches what is filed.
LEMMA SweepRests ==
  ASSUME SweepInv, UNCHANGED <<key, rep, rows, waves, csv>>
  PROVE  SweepInv'
<1>1. UNCHANGED Reported
  BY DEF Reported
<1>2. WaveTotals'
  BY <1>1 DEF SweepInv, WaveTotals
<1> QED BY <1>2 DEF SweepInv, Sweeping

LEMMA SweepBegins ==
  ASSUME SweepInv, Begin
  PROVE  SweepInv'
<1>1. key = 0 /\ key' \in {1, Fatal} /\ UNCHANGED <<rep, rows, waves, csv>>
  BY DEF Begin, NotBegun
<1>2. WaveTotals'
  BY <1>1 DEF SweepInv, WaveTotals, Reported
<1>3. rep = 0 /\ rows = << >>
  BY <1>1 DEF SweepInv, Sweeping
<1>4. \A n \in DOMAIN csv : csv[n].key \in Nat /\ csv[n].key < 0
  BY <1>1, ElementOfSeq, LenProperties DEF SweepInv, SweepRows, Fatal
<1>5. \A n \in DOMAIN waves : waves[n].key \in Nat /\ waves[n].rep \in Nat
  BY WaveTyped DEF SweepInv
<1>6. \A n \in DOMAIN waves : waves[n].key < 0
  BY <1>1, <1>3, <1>5 DEF SweepInv, Fatal
<1>7. key' \in {Fatal} \cup 0..Len(Concs) + 1
  BY <1>1, SweepConstants
<1>8. key' # Fatal => \A n \in DOMAIN csv' : csv'[n].key < key'
  BY <1>1, <1>4
<1>9. key' # Fatal => \A n \in DOMAIN waves' : waves'[n].key < key'
  BY <1>1, <1>5, <1>6
<1> QED BY <1>1, <1>2, <1>3, <1>7, <1>8, <1>9 DEF SweepInv, Sweeping

LEMMA SweepStops ==
  ASSUME SweepInv, Interrupt
  PROVE  SweepInv'
<1>1. key' = Fatal /\ rep' = 0 /\ rows' = << >> /\ waves' = << >> /\ UNCHANGED csv
  BY DEF Interrupt
<1>2. WaveTotals' /\ waves' \in Seq(WaveRecords)
  BY <1>1 DEF WaveTotals
<1>3. ~Sweeping'
  BY <1>1, SweepConstants DEF Sweeping, Fatal
<1> QED BY <1>1, <1>2, <1>3, SweepConstants, EmptySeq DEF SweepInv

\* The warmup leaves no row.
LEMMA WarmupEnds ==
  ASSUME SweepInv, Gather, rep = 0
  PROVE  SweepInv'
<1>1. key \in 1..Len(Concs) /\ rep' = 1 /\ UNCHANGED <<key, rows, waves, csv>>
  BY DEF Gather
<1>2. rows = << >> /\ Sweeping /\ Sweeping'
  BY <1>1 DEF SweepInv, Sweeping
<1>3. WaveTotals'
  BY <1>1 DEF SweepInv, WaveTotals, Reported
<1>4. \A n \in DOMAIN waves : waves[n].key \in Nat /\ waves[n].rep \in Nat
  BY WaveTyped DEF SweepInv
<1>5. key' # Fatal => \A n \in DOMAIN waves' :
        waves'[n].key < key' \/ (waves'[n].key = key' /\ waves'[n].rep < rep')
  BY <1>1, <1>4 DEF SweepInv
<1>6. Len(rows') = (rep' - 1) * Concs[key'] /\ DOMAIN rows' = {}
  BY <1>1, <1>2, SweepConstants
<1> QED BY <1>1, <1>2, <1>3, <1>5, <1>6, SweepConstants DEF SweepInv

\* A recorded wave: its rows are all of one repeat, which has none yet; with the
\* last repeat the file has all rows of the key.
LEMMA RecordedWaveEnds ==
  ASSUME TaskInv, SweepInv, Gather, rep > 0
  PROVE  SweepInv'
<1> DEFINE k == key
           c == Conc
           new == [i \in Wave |-> Row(key, i)]
           more == rows \o new
           last == rep = Repeats
<1>1. /\ k \in 1..Len(Concs) /\ k \in Nat /\ c \in Nat \ {0} /\ c \in Tasks /\ rep \in Nat
      /\ rep <= Repeats /\ Sweeping /\ c = Concs[k] /\ Wave = 1..c /\ k # Fatal
  <2>1. k \in 1..Len(Concs) /\ rep \in Nat /\ rep <= Repeats
    <3>1. k \in 1..Len(Concs)
      BY DEF Gather
    <3>2. rep \in 0..Repeats
      BY DEF SweepInv
    <3> QED BY <3>1, <3>2, SweepConstants
  <2>2. Conc = Concs[key]
    BY <2>1 DEF Conc
  <2>3. Wave = 1..Conc
    BY DEF Wave
  <2> QED BY <2>1, <2>2, <2>3, SweepConstants DEF Sweeping, Fatal
<1>2. /\ new \in Seq(SweepRows) /\ Len(new) = c
      /\ \A n \in 1..c : new[n].key = k /\ new[n].rep = rep
  BY <1>1, RowsOfWave DEF Wave
<1> DEFINE w == [key |-> k, rep |-> rep, tok |-> TokensOf(LastOf(more, c))]
<1>3. /\ waves' = Append(waves, w)
      /\ last => csv' = csv \o more /\ rows' = << >> /\ key' = k + 1 /\ rep' = 0
      /\ ~last => rows' = more /\ rep' = rep + 1 /\ UNCHANGED <<csv, key>>
  <2>1. ~(rep = 0)
    OBVIOUS
  <2> HIDE DEF w
  <2>2. waves' = Append(waves, w)
    BY <2>1 DEF Gather, w
  <2>3. last => csv' = csv \o more /\ rows' = << >> /\ key' = k + 1 /\ rep' = 0
    BY <2>1 DEF Gather
  <2>4. ~last => rows' = more /\ rep' = rep + 1 /\ UNCHANGED <<csv, key>>
    BY <2>1 DEF Gather
  <2> QED BY <2>2, <2>3, <2>4
<1>4. /\ csv \in Seq(SweepRows) /\ rows \in Seq(SweepRows) /\ waves \in Seq(WaveRecords)
      /\ WaveTotals /\ Len(rows) = (rep - 1) * c
      /\ \A n \in DOMAIN rows : rows[n].key = k /\ rows[n].rep < rep
      /\ \A n \in DOMAIN csv : csv[n].key < k
      /\ \A n \in DOMAIN waves : waves[n].key < k \/ (waves[n].key = k /\ waves[n].rep < rep)
  BY <1>1 DEF SweepInv
<1>a. w.key = k /\ w.rep = rep /\ w.tok = TokensOf(LastOf(more, c))
  OBVIOUS
<1> HIDE DEF new, c, w
<1>5. /\ more \in Seq(SweepRows) /\ DOMAIN new = 1..c
      /\ Len(more) = rep * c /\ DOMAIN more = 1..Len(more)
      /\ \A n \in DOMAIN more : more[n].key = k /\ more[n].rep < rep + 1
  <2>1. /\ more \in Seq(SweepRows) /\ Len(more) = Len(rows) + c /\ DOMAIN more = 1..Len(more)
        /\ DOMAIN rows = 1..Len(rows) /\ Len(rows) \in Nat /\ DOMAIN new = 1..c
        /\ \A n \in 1..Len(more) : more[n] = IF n <= Len(rows) THEN rows[n] ELSE new[n - Len(rows)]
    BY <1>2, <1>4, ConcatProperties, LenProperties
  <2>2. (rep - 1) * c = rep * c - c
    BY <1>1
  <2>3. Len(more) = rep * c
    BY <1>1, <1>4, <2>1, <2>2
  <2> HIDE DEF more
  <2>4. ASSUME NEW n \in 1..Len(more) PROVE more[n].key = k /\ more[n].rep < rep + 1
    <3>1. CASE n <= Len(rows)
      <4>1. n \in DOMAIN rows /\ more[n] = rows[n] /\ rows[n] \in SweepRows
        BY <2>1, <3>1, <1>4, ElementOfSeq
      <4> QED BY <1>1, <1>4, <4>1 DEF SweepRows
    <3>2. CASE ~(n <= Len(rows))
      <4>1. n - Len(rows) \in 1..c /\ more[n] = new[n - Len(rows)]
        BY <1>1, <2>1, <3>2
      <4> QED BY <1>1, <1>2, <4>1
    <3> QED BY <3>1, <3>2
  <2> QED BY <2>1, <2>3, <2>4
<1>6. LastOf(more, c) = new
  BY <1>1, <1>2, <1>4, LastOfConcat
<1>7. Reported' = Reported \o new
  <2>1. (csv \o rows) \o new = csv \o more
    BY <1>2, <1>4, ConcatAssociative
  <2>2. csv \o more \in Seq(SweepRows)
    BY <1>4, <1>5, ConcatProperties
  <2>3. CASE last
    BY <1>3, <2>1, <2>2, <2>3, ConcatEmptySeq DEF Reported
  <2>4. CASE ~last
    BY <1>3, <2>1, <2>4 DEF Reported
  <2> QED BY <2>3, <2>4
<1>8. \A n \in DOMAIN Reported : ~(Reported[n].key = k /\ Reported[n].rep = rep)
  <2>1. /\ Len(csv) \in Nat /\ Len(rows) \in Nat /\ DOMAIN Reported = 1..Len(csv) + Len(rows)
        /\ DOMAIN csv = 1..Len(csv) /\ DOMAIN rows = 1..Len(rows)
        /\ \A n \in 1..Len(csv) + Len(rows) :
             Reported[n] = IF n <= Len(csv) THEN csv[n] ELSE rows[n - Len(csv)]
    <3>1. Reported = csv \o rows /\ csv \o rows \in Seq(SweepRows)
      BY <1>4, ConcatProperties DEF Reported
    <3> QED BY <1>4, <3>1, ConcatProperties, LenProperties
  <2>2. ASSUME NEW n \in DOMAIN Reported PROVE ~(Reported[n].key = k /\ Reported[n].rep = rep)
    <3>1. CASE n <= Len(csv)
      <4>1. n \in DOMAIN csv /\ Reported[n] = csv[n]
        BY <2>1, <3>1
      <4> QED BY <1>1, <1>4, <4>1
    <3>2. CASE ~(n <= Len(csv))
      <4>1. n - Len(csv) \in DOMAIN rows /\ Reported[n] = rows[n - Len(csv)]
        BY <2>1, <3>2
      <4> QED BY <1>1, <1>4, <4>1
    <3> QED BY <3>1, <3>2
  <2> QED BY <2>2
<1>9. WaveTotals' /\ waves' \in Seq(WaveRecords)
  <2>1. w \in WaveRecords
    BY <1>1, <1>2, <1>6 DEF w, WaveRecords, Totals
  <2>2. \A n \in DOMAIN waves : ~(waves[n].key = w.key /\ waves[n].rep = w.rep)
    BY <1>1, <1>4, <1>a
  <2>3. Len(new) > 0 /\ \A n \in DOMAIN new : new[n].key = w.key /\ new[n].rep = w.rep
    BY <1>1, <1>2, <1>5, <1>a
  <2>4. \A n \in DOMAIN Reported : ~(Reported[n].key = w.key /\ Reported[n].rep = w.rep)
    BY <1>8, <1>a
  <2>5. w.tok = TokensOf(new) /\ waves' = Append(waves, w)
    BY <1>3, <1>6, <1>a
  <2> QED BY <1>2, <1>4, <1>7, <2>1, <2>2, <2>3, <2>4, <2>5, OneWaveMore
<1>10. \A n \in DOMAIN waves' :
         waves'[n].key < k \/ (waves'[n].key = k /\ waves'[n].rep < rep + 1)
  <2>1. w.key = k /\ w.rep = rep /\ waves' = Append(waves, w)
    BY <1>3, <1>a
  <2>2. /\ Len(waves) \in Nat /\ DOMAIN waves' = 1..Len(waves) + 1 /\ waves'[Len(waves) + 1] = w
        /\ DOMAIN waves = 1..Len(waves) /\ \A n \in 1..Len(waves) : waves'[n] = waves[n]
    BY <1>4, <2>1
  <2>3. ASSUME NEW n \in DOMAIN waves'
        PROVE  waves'[n].key < k \/ (waves'[n].key = k /\ waves'[n].rep < rep + 1)
    <3>1. CASE n = Len(waves) + 1
      BY <1>1, <2>1, <2>2, <3>1
    <3>2. CASE n \in 1..Len(waves)
      <4>1. waves'[n] = waves[n] /\ waves[n].key \in Nat /\ waves[n].rep \in Nat
        BY <1>4, <2>2, <3>2, WaveTyped
      <4> QED BY <1>1, <1>4, <2>2, <3>2, <4>1
    <3> QED BY <2>2, <3>1, <3>2
  <2> QED BY <2>3
<1>11. CASE ~last
  <2>1. /\ rows' = more /\ rep' = rep + 1 /\ key' = k /\ csv' = csv /\ rep' \in 0..Repeats
        /\ Sweeping' /\ (rep' - 1) * Concs[key'] = rep * c
    BY <1>1, <1>3, <1>11, SweepConstants DEF Sweeping, c
  <2> HIDE DEF more
  <2> QED BY <1>1, <1>4, <1>5, <1>9, <1>10, <2>1 DEF SweepInv
<1>12. CASE last
  <2>1. /\ rows' = << >> /\ rep' = 0 /\ key' = k + 1 /\ csv' = csv \o more
    BY <1>3, <1>12
  <2>2. /\ csv' \in Seq(SweepRows) /\ DOMAIN csv = 1..Len(csv) /\ Len(csv) \in Nat
        /\ DOMAIN csv' = 1..Len(csv) + Len(more) /\ Len(more) \in Nat
        /\ \A n \in 1..Len(csv) + Len(more) :
             csv'[n] = IF n <= Len(csv) THEN csv[n] ELSE more[n - Len(csv)]
    BY <1>4, <1>5, <2>1, ConcatProperties, LenProperties
  <2> HIDE DEF more
  <2>3. \A n \in DOMAIN csv' : csv'[n].key < key'
    <3>1. ASSUME NEW n \in DOMAIN csv' PROVE csv'[n].key < k + 1
      <4>1. CASE n <= Len(csv)
        <5>1. n \in DOMAIN csv /\ csv'[n] = csv[n] /\ csv[n].key \in Nat
          BY <1>4, <2>2, <4>1, ElementOfSeq DEF SweepRows
        <5> QED BY <1>1, <1>4, <5>1
      <4>2. CASE ~(n <= Len(csv))
        <5>1. n - Len(csv) \in DOMAIN more /\ csv'[n] = more[n - Len(csv)]
          BY <1>5, <2>2, <4>2
        <5> QED BY <1>1, <1>5, <5>1
      <4> QED BY <4>1, <4>2
    <3> QED BY <2>1, <3>1
  <2>4. ASSUME NEW j \in DOMAIN Concs PROVE Count(csv', OfKey(j)) \in {0, Repeats * Concs[j]}
    <3>1. Count(csv', OfKey(j)) = Count(csv, OfKey(j)) + Count(more, OfKey(j))
          /\ Count(csv, OfKey(j)) \in Nat
      BY <1>4, <1>5, <2>1, CountAppend
    <3>2. Count(csv, OfKey(j)) \in {0, Repeats * Concs[j]}
      BY DEF SweepInv
    <3>3. CASE j = k
      <4>1. \A n \in DOMAIN csv : csv[n] \notin OfKey(j)
        BY <1>1, <1>4, <3>3 DEF OfKey
      <4>2. \A n \in DOMAIN more : more[n] \in OfKey(j)
        BY <1>5, <3>3, ElementOfSeq DEF OfKey
      <4>3. Count(csv, OfKey(j)) = 0 /\ Count(more, OfKey(j)) = Len(more)
        BY <1>4, <1>5, <4>1, <4>2, CountOfOneKind
      <4>4. Len(more) = Repeats * Concs[j]
        <5>1. Len(more) = Repeats * c /\ c = Concs[j]
          BY <1>1, <1>5, <1>12, <3>3
        <5> QED BY <5>1
      <4> QED BY <2>2, <3>1, <4>3, <4>4
    <3>4. CASE j # k
      <4>1. \A n \in DOMAIN more : more[n] \notin OfKey(j)
        BY <1>5, <3>4 DEF OfKey
      <4>2. Count(more, OfKey(j)) = 0
        BY <1>5, <4>1, CountOfOneKind
      <4> QED BY <3>1, <3>2, <4>2
    <3> QED BY <3>3, <3>4
  <2>5. \A n \in DOMAIN waves' : waves'[n].key < key'
    <3>1. \A n \in DOMAIN waves' : waves'[n].key \in Nat
      BY <1>9, WaveTyped
    <3>2. ASSUME NEW n \in DOMAIN waves' PROVE waves'[n].key < k + 1
      <4>1. waves'[n].key \in Nat /\ (waves'[n].key < k \/ waves'[n].key = k)
        BY <1>10, <3>1
      <4> QED BY <1>1, <4>1
    <3> QED BY <2>1, <3>2
  <2>6. key' \in {Fatal} \cup 0..Len(Concs) + 1 /\ rep' \in 0..Repeats /\ rows' \in Seq(SweepRows)
    BY <1>1, <2>1, SweepConstants
  <2> QED BY <1>9, <2>1, <2>2, <2>3, <2>4, <2>5, <2>6 DEF SweepInv
<1> QED BY <1>11, <1>12

-----------------------------------------------------------------------------
(* experiment.py *)

LEMMA MixedConstants ==
  /\ Decodes \in Nat \ {0} /\ Hog = Decodes + 1 /\ Hog \in Tasks /\ 1..Decodes \subseteq Tasks
  /\ MixedRepeats \in Nat \ {0} /\ Base = 1 /\ Mixed = 2 /\ Fatal = -1 /\ NotBegun = 0
BY WorkloadConstants, BenchConstants DEF Hog, Tasks, Base, Mixed, Fatal, NotBegun

LEMMA RowOfTask ==
  ASSUME TaskInv, NEW i \in Tasks, NEW label \in Labels
  PROVE  /\ Row(label, i) \in MixedRows /\ Row(label, i).key = label /\ Row(label, i).rep = rep
         /\ Row(label, i).ok = result[i].ok
<1>1. result[i] \in Outcomes /\ rep \in Nat
  BY DEF TaskInv, TaskTypes
<1> QED BY <1>1 DEF Row, MixedRows, Outcomes, Results

\* Ok rows of a phase are ok results of its tasks.
LEMMA OkRows ==
  ASSUME NEW new \in Seq(MixedRows), NEW label, NEW T, T \subseteq DOMAIN new,
         \A n \in DOMAIN new : new[n].key = label <=> n \in T,
         \A n \in DOMAIN new : new[n].ok = result[n].ok
  PROVE  Count(new, OkOf(label)) = OkAmong(T) /\ OkAmong(T) \in Nat
<1>1. \A n \in DOMAIN new : new[n] \in MixedRows
  BY ElementOfSeq, LenProperties
<1>2. {n \in DOMAIN new : new[n] \in OkOf(label)} = {i \in T : result[i].ok}
  BY <1>1 DEF OkOf
<1>3. Count(new, OkOf(label)) \in Nat
  BY CountAppend
<1> QED BY <1>2, <1>3 DEF Count, OkAmong

\* The rows of a repeat.
LEMMA RowsOfRep ==
  ASSUME NEW new \in Seq(MixedRows), NEW label, NEW T, T \subseteq DOMAIN new,
         \A n \in DOMAIN new : new[n].key = label <=> n \in T,
         \A n \in DOMAIN new : new[n].rep = rep
  PROVE  \A k : Count(new, OfRep(label, k)) = IF k = rep THEN Cardinality(T) ELSE 0
<1>1. \A n \in DOMAIN new : new[n] \in MixedRows
  BY ElementOfSeq, LenProperties
<1>2. ASSUME NEW k PROVE Count(new, OfRep(label, k)) = IF k = rep THEN Cardinality(T) ELSE 0
  <2>1. CASE k = rep
    <3>1. {n \in DOMAIN new : new[n] \in OfRep(label, k)} = T
      BY <1>1, <2>1 DEF OfRep
    <3> QED BY <2>1, <3>1 DEF Count
  <2>2. CASE k # rep
    <3>1. \A n \in DOMAIN new : new[n] \notin OfRep(label, k)
      BY <2>2 DEF OfRep
    <3> QED BY <2>2, <3>1, CountOfOneKind
  <2> QED BY <2>1, <2>2
<1> QED BY <1>2

\* A phase in which nobody has the label adds nothing to its rows.
LEMMA NoRowsOf ==
  ASSUME NEW new \in Seq(MixedRows), NEW label, \A n \in DOMAIN new : new[n].key # label
  PROVE  Count(new, OkOf(label)) = 0 /\ \A k : Count(new, OfRep(label, k)) = 0
<1>1. \A n \in DOMAIN new : new[n] \notin OkOf(label)
  BY DEF OkOf
<1>2. \A k : \A n \in DOMAIN new : new[n] \notin OfRep(label, k)
  BY DEF OfRep
<1> QED BY <1>1, <1>2, CountOfOneKind

LEMMA MixedRests ==
  ASSUME MixedInv, UNCHANGED <<key, rep, rows, waves, csv, samples>>
  PROVE  MixedInv'
BY DEF MixedInv

LEMMA MixedBegins ==
  ASSUME MixedInv, MixedBegin
  PROVE  MixedInv'
<1>1. key = NotBegun /\ UNCHANGED <<rows, waves, csv, samples>>
  BY DEF MixedBegin, driverVars
<1>2. key' = Fatal \/ (key' = Base /\ rep' = 1)
  BY DEF MixedBegin
<1>3. csv = << >>
  BY <1>1 DEF MixedInv
<1>4. key # Fatal
  BY <1>1, MixedConstants
<1>5. key' \in {Base, Mixed} => key' = Base /\ rep' \in 1..MixedRepeats
  BY <1>2, MixedConstants
<1>6. key' # Mixed /\ key' # NotBegun
  BY <1>2, MixedConstants
<1>7. \A n \in DOMAIN csv' : FALSE
  BY <1>1, <1>3
<1> QED BY <1>1, <1>2, <1>3, <1>4, <1>5, <1>6, <1>7 DEF MixedInv

LEMMA MixedStops ==
  ASSUME MixedInv, Interrupt
  PROVE  MixedInv'
<1>1. key' = Fatal /\ rows' = << >> /\ waves' = << >> /\ samples' = NoSamples /\ UNCHANGED csv
  BY DEF Interrupt
<1>2. samples' \in [base : Nat, mixed : Nat, hog : Nat]
  BY <1>1 DEF NoSamples
<1> QED BY <1>1, <1>2, MixedConstants DEF MixedInv

\* What the two phases have in common: rows of the present repeat are filed.
LEMMA PhaseFiled ==
  ASSUME MixedInv, key \in {Base, Mixed}, NEW new \in Seq(MixedRows), csv' = csv \o new,
         \A n \in DOMAIN new : new[n].rep = rep
  PROVE  /\ csv' \in Seq(MixedRows)
         /\ \A n \in DOMAIN csv' : csv'[n].rep <= rep
         /\ \A n \in DOMAIN csv' : \/ n \in DOMAIN csv /\ csv'[n] = csv[n]
                                  \/ \E m \in DOMAIN new : csv'[n] = new[m]
         /\ \A G : /\ Count(csv', G) = Count(csv, G) + Count(new, G)
                   /\ Count(csv, G) \in Nat /\ Count(new, G) \in Nat
<1>1. csv \in Seq(MixedRows) /\ rep \in Nat /\ \A n \in DOMAIN csv : csv[n].rep <= rep
  <2>1. csv \in Seq(MixedRows) /\ rep \in Nat
    BY MixedConstants DEF MixedInv
  <2>2. \A n \in DOMAIN csv : csv[n].rep \in Nat
    BY <2>1, ElementOfSeq, LenProperties DEF MixedRows
  <2>3. \A n \in DOMAIN csv : csv[n].rep < rep \/ csv[n].rep = rep
    BY MixedConstants DEF MixedInv
  <2> QED BY <2>1, <2>2, <2>3
<1>2. /\ csv' \in Seq(MixedRows) /\ DOMAIN csv = 1..Len(csv) /\ DOMAIN new = 1..Len(new)
      /\ Len(csv) \in Nat /\ Len(new) \in Nat /\ DOMAIN csv' = 1..Len(csv) + Len(new)
      /\ \A n \in 1..Len(csv) + Len(new) :
           csv'[n] = IF n <= Len(csv) THEN csv[n] ELSE new[n - Len(csv)]
  BY <1>1, ConcatProperties, LenProperties
<1>3. ASSUME NEW n \in DOMAIN csv'
      PROVE  \/ n \in DOMAIN csv /\ csv'[n] = csv[n]
             \/ \E m \in DOMAIN new : csv'[n] = new[m]
  <2>1. CASE n <= Len(csv)
    BY <1>2, <2>1
  <2>2. CASE ~(n <= Len(csv))
    <3>1. n - Len(csv) \in DOMAIN new /\ csv'[n] = new[n - Len(csv)]
      BY <1>2, <2>2
    <3> QED BY <3>1
  <2> QED BY <2>1, <2>2
<1>4. \A n \in DOMAIN csv' : csv'[n].rep <= rep
  BY <1>1, <1>3
<1>5. ASSUME NEW G
      PROVE  /\ Count(csv', G) = Count(csv, G) + Count(new, G)
             /\ Count(csv, G) \in Nat /\ Count(new, G) \in Nat
  BY <1>1, CountAppend
<1> QED BY <1>2, <1>3, <1>4, <1>5

\* Phase 1: only decodes, of a repeat that has no row yet.
LEMMA BaseFiled ==
  ASSUME TaskInv, MixedInv, BaseEnds
  PROVE  MixedInv'
<1> DEFINE new == [i \in 1..Decodes |-> Row("base:decode", i)]
           T == 1..Decodes
<1>1. /\ key = Base /\ csv' = csv \o new /\ key' = Mixed /\ UNCHANGED <<rep, rows, waves>>
      /\ samples' = [samples EXCEPT !.base = @ + OkAmong(T)]
  BY DEF BaseEnds, File
<1>2. /\ DOMAIN new = T /\ Cardinality(T) = Decodes
      /\ \A n \in T : /\ new[n] \in MixedRows /\ new[n].key = "base:decode"
                       /\ new[n].rep = rep /\ new[n].ok = result[n].ok
  <2>1. Cardinality(T) = Decodes
    <3>1. Cardinality(T) = IF 1 > Decodes THEN 0 ELSE Decodes - 1 + 1
      BY MixedConstants, FS_Interval
    <3> QED BY <3>1, MixedConstants
  <2>2. ASSUME NEW n \in T
        PROVE  /\ new[n] \in MixedRows /\ new[n].key = "base:decode"
               /\ new[n].rep = rep /\ new[n].ok = result[n].ok
    BY RowOfTask, MixedConstants DEF Labels
  <2> QED BY <2>1, <2>2
<1>3. new \in Seq(MixedRows)
  BY <1>2, MixedConstants
<1> HIDE DEF new, T
<1>4. /\ Count(new, OkOf("base:decode")) = OkAmong(T) /\ OkAmong(T) \in Nat
      /\ \A k : Count(new, OfRep("base:decode", k)) = IF k = rep THEN Decodes ELSE 0
  <2>1. \A n \in DOMAIN new : new[n].key = "base:decode" <=> n \in T
    BY <1>2
  <2>2. \A n \in DOMAIN new : new[n].rep = rep
    BY <1>2
  <2>3. \A n \in DOMAIN new : new[n].ok = result[n].ok
    BY <1>2
  <2>4. T \subseteq DOMAIN new /\ Cardinality(T) = Decodes
    BY <1>2
  <2>5. Count(new, OkOf("base:decode")) = OkAmong(T) /\ OkAmong(T) \in Nat
    BY <1>3, <2>1, <2>3, <2>4, OkRows
  <2>6. \A k : Count(new, OfRep("base:decode", k)) = IF k = rep THEN Cardinality(T) ELSE 0
    BY <1>3, <2>1, <2>2, <2>4, RowsOfRep
  <2> QED BY <2>4, <2>5, <2>6
<1>5. ASSUME NEW label \in {"mixed:decode", "mixed:hog"}
      PROVE  Count(new, OkOf(label)) = 0 /\ \A k : Count(new, OfRep(label, k)) = 0
  BY <1>2, <1>3, NoRowsOf
<1>6. /\ csv' \in Seq(MixedRows)
      /\ \A n \in DOMAIN csv' : \/ n \in DOMAIN csv /\ csv'[n] = csv[n]
                               \/ \E m \in DOMAIN new : csv'[n] = new[m]
      /\ \A G : /\ Count(csv', G) = Count(csv, G) + Count(new, G)
                /\ Count(csv, G) \in Nat /\ Count(new, G) \in Nat
  BY <1>1, <1>2, <1>3, PhaseFiled
<1>7. \A n \in DOMAIN csv' :
        csv'[n].rep < rep' \/ (csv'[n].rep = rep' /\ csv'[n].key = "base:decode")
  BY <1>1, <1>2, <1>6 DEF MixedInv
<1>8. /\ samples' \in [base : Nat, mixed : Nat, hog : Nat]
      /\ samples'.base = Count(csv', OkOf("base:decode"))
      /\ samples'.mixed = Count(csv', OkOf("mixed:decode"))
      /\ samples'.hog = Count(csv', OkOf("mixed:hog"))
  <2>1. /\ samples \in [base : Nat, mixed : Nat, hog : Nat]
        /\ samples.base = Count(csv, OkOf("base:decode"))
        /\ samples.mixed = Count(csv, OkOf("mixed:decode"))
        /\ samples.hog = Count(csv, OkOf("mixed:hog"))
    BY <1>1, MixedConstants DEF MixedInv
  <2>2. /\ samples'.base = samples.base + OkAmong(T) /\ samples'.mixed = samples.mixed
        /\ samples'.hog = samples.hog /\ samples' \in [base : Nat, mixed : Nat, hog : Nat]
    BY <1>1, <1>4, <2>1
  <2> QED BY <1>4, <1>5, <1>6, <2>1, <2>2
<1>9. ASSUME NEW k \in 1..MixedRepeats
      PROVE  /\ Count(csv', OfRep("mixed:decode", k)) = Decodes * Count(csv', OfRep("mixed:hog", k))
             /\ Count(csv', OfRep("base:decode", k)) \in {0, Decodes}
  <2>1. /\ Count(csv, OfRep("mixed:decode", k)) = Decodes * Count(csv, OfRep("mixed:hog", k))
        /\ Count(csv, OfRep("base:decode", k)) \in {0, Decodes}
    BY DEF MixedInv
  <2>2. k = rep => Count(csv, OfRep("base:decode", k)) = 0
    <3>1. csv \in Seq(MixedRows) /\ \A n \in DOMAIN csv : csv[n].rep < rep
      BY <1>1 DEF MixedInv
    <3>2. rep \in Nat
      BY <1>1, MixedConstants DEF MixedInv
    <3>3. \A n \in DOMAIN csv : csv[n] \notin OfRep("base:decode", rep)
      BY <3>1, <3>2 DEF OfRep
    <3> QED BY <3>1, <3>3, CountOfOneKind
  <2>3. Count(csv', OfRep("mixed:decode", k)) = Count(csv, OfRep("mixed:decode", k))
    BY <1>5, <1>6
  <2>4. Count(csv', OfRep("mixed:hog", k)) = Count(csv, OfRep("mixed:hog", k))
    BY <1>5, <1>6
  <2>5. Count(csv', OfRep("base:decode", k)) \in {0, Decodes}
    BY <1>4, <1>6, <2>1, <2>2, MixedConstants
  <2> QED BY <2>1, <2>3, <2>4, <2>5
<1>10. /\ rows' = << >> /\ waves' = << >> /\ rep' \in 1..MixedRepeats
       /\ key' = Mixed /\ key' # NotBegun /\ key' # Base
  BY <1>1, MixedConstants DEF MixedInv
<1>11. csv' \in Seq(MixedRows)
  BY <1>6
<1> QED BY <1>7, <1>8, <1>9, <1>10, <1>11 DEF MixedInv

\* Phase 2: as many decodes and the hog.
LEMMA MixedFiled ==
  ASSUME TaskInv, MixedInv, MixedEnds
  PROVE  MixedInv'
<1> DEFINE label(i) == IF i = Hog THEN "mixed:hog" ELSE "mixed:decode"
           new == [i \in 1..Hog |-> Row(label(i), i)]
           T == 1..Decodes
<1>1. /\ key = Mixed /\ csv' = csv \o new /\ UNCHANGED <<rows, waves>>
      /\ \/ rep < MixedRepeats /\ key' = Base /\ rep' = rep + 1
         \/ key' = Mixed + 1
      /\ samples' = [samples EXCEPT !.mixed = @ + OkAmong(T), !.hog = @ + OkAmong({Hog})]
  BY DEF MixedEnds, File, DecodeResults
<1>2. /\ DOMAIN new = 1..Hog
      /\ \A n \in 1..Hog : /\ new[n] \in MixedRows /\ new[n].key = (IF n = Hog THEN "mixed:hog" ELSE "mixed:decode")
                            /\ new[n].rep = rep /\ new[n].ok = result[n].ok
  <2>1. ASSUME NEW n \in 1..Hog
        PROVE  /\ new[n] \in MixedRows
               /\ new[n].key = (IF n = Hog THEN "mixed:hog" ELSE "mixed:decode")
               /\ new[n].rep = rep /\ new[n].ok = result[n].ok
    <3>1. n \in Tasks /\ label(n) \in Labels /\ new[n] = Row(label(n), n)
      BY MixedConstants DEF Labels, Tasks
    <3> HIDE DEF new
    <3>2. /\ new[n] \in MixedRows /\ new[n].key = label(n)
          /\ new[n].rep = rep /\ new[n].ok = result[n].ok
      BY <3>1, RowOfTask
    <3> QED BY <3>2
  <2> QED BY <2>1
<1>3. /\ Cardinality(T) = Decodes /\ Cardinality({Hog}) = 1
      /\ T \subseteq 1..Hog /\ {Hog} \subseteq 1..Hog
      /\ \A n \in 1..Hog : n = Hog <=> n \notin T
  <2>1. Cardinality(T) = IF 1 > Decodes THEN 0 ELSE Decodes - 1 + 1
    BY MixedConstants, FS_Interval
  <2>2. Cardinality(T) = Decodes
    BY <2>1, MixedConstants
  <2>3. \A n \in 1..Hog : n = Hog <=> n \notin T
    BY MixedConstants
  <2>4. T \subseteq 1..Hog /\ {Hog} \subseteq 1..Hog
    BY MixedConstants
  <2> QED BY <2>2, <2>3, <2>4, FS_Singleton
<1>4. new \in Seq(MixedRows)
  BY <1>2, MixedConstants
<1> HIDE DEF new, T
<1>a. /\ \A n \in DOMAIN new : new[n].rep = rep
      /\ \A n \in DOMAIN new : new[n].ok = result[n].ok
  BY <1>2
<1>5. /\ Count(new, OkOf("mixed:decode")) = OkAmong(T) /\ OkAmong(T) \in Nat
      /\ \A k : Count(new, OfRep("mixed:decode", k)) = IF k = rep THEN Decodes ELSE 0
  <2>1. ASSUME NEW n \in DOMAIN new PROVE new[n].key = "mixed:decode" <=> n \in T
    <3>1. n \in 1..Hog /\ new[n].key = (IF n = Hog THEN "mixed:hog" ELSE "mixed:decode")
      BY <1>2
    <3> QED BY <1>3, <3>1
  <2>2. T \subseteq DOMAIN new /\ Cardinality(T) = Decodes
    BY <1>2, <1>3
  <2>3. Count(new, OkOf("mixed:decode")) = OkAmong(T) /\ OkAmong(T) \in Nat
    BY <1>4, <1>a, <2>1, <2>2, OkRows
  <2>4. \A k : Count(new, OfRep("mixed:decode", k)) = IF k = rep THEN Cardinality(T) ELSE 0
    BY <1>4, <1>a, <2>1, <2>2, RowsOfRep
  <2> QED BY <2>2, <2>3, <2>4
<1>6. /\ Count(new, OkOf("mixed:hog")) = OkAmong({Hog}) /\ OkAmong({Hog}) \in Nat
      /\ \A k : Count(new, OfRep("mixed:hog", k)) = IF k = rep THEN 1 ELSE 0
  <2>1. ASSUME NEW n \in DOMAIN new PROVE new[n].key = "mixed:hog" <=> n \in {Hog}
    <3>1. n \in 1..Hog /\ new[n].key = (IF n = Hog THEN "mixed:hog" ELSE "mixed:decode")
      BY <1>2
    <3> QED BY <1>3, <3>1
  <2>2. {Hog} \subseteq DOMAIN new /\ Cardinality({Hog}) = 1
    BY <1>2, <1>3
  <2>3. Count(new, OkOf("mixed:hog")) = OkAmong({Hog}) /\ OkAmong({Hog}) \in Nat
    BY <1>4, <1>a, <2>1, <2>2, OkRows
  <2>4. \A k : Count(new, OfRep("mixed:hog", k)) = IF k = rep THEN Cardinality({Hog}) ELSE 0
    BY <1>4, <1>a, <2>1, <2>2, RowsOfRep
  <2> QED BY <2>2, <2>3, <2>4
<1>7. /\ Count(new, OkOf("base:decode")) = 0
      /\ \A k : Count(new, OfRep("base:decode", k)) = 0
  BY <1>2, <1>3, <1>4, NoRowsOf
<1>8. /\ csv' \in Seq(MixedRows) /\ \A n \in DOMAIN csv' : csv'[n].rep <= rep
      /\ \A G : /\ Count(csv', G) = Count(csv, G) + Count(new, G)
                /\ Count(csv, G) \in Nat /\ Count(new, G) \in Nat
  BY <1>1, <1>2, <1>4, PhaseFiled
<1>9. key' = Base => \A n \in DOMAIN csv' : csv'[n].rep < rep'
  <2>1. rep \in Nat
    BY <1>1, MixedConstants DEF MixedInv
  <2>2. \A n \in DOMAIN csv' : csv'[n].rep \in Nat
    BY <1>8, ElementOfSeq, LenProperties DEF MixedRows
  <2> QED BY <1>1, <1>8, <2>1, <2>2, MixedConstants
<1>10. /\ samples' \in [base : Nat, mixed : Nat, hog : Nat]
       /\ samples'.base = Count(csv', OkOf("base:decode"))
       /\ samples'.mixed = Count(csv', OkOf("mixed:decode"))
       /\ samples'.hog = Count(csv', OkOf("mixed:hog"))
  <2>1. /\ samples \in [base : Nat, mixed : Nat, hog : Nat]
        /\ samples.base = Count(csv, OkOf("base:decode"))
        /\ samples.mixed = Count(csv, OkOf("mixed:decode"))
        /\ samples.hog = Count(csv, OkOf("mixed:hog"))
    BY <1>1, MixedConstants DEF MixedInv
  <2>2. /\ samples'.mixed = samples.mixed + OkAmong(T) /\ samples'.base = samples.base
        /\ samples'.hog = samples.hog + OkAmong({Hog})
        /\ samples' \in [base : Nat, mixed : Nat, hog : Nat]
    <3>1. OkAmong(T) \in Nat /\ OkAmong({Hog}) \in Nat
      BY <1>5, <1>6
    <3> DEFINE d == OkAmong(T)
               o == OkAmong({Hog})
    <3>2. samples' = [samples EXCEPT !.mixed = @ + d, !.hog = @ + o] /\ d \in Nat /\ o \in Nat
      BY <1>1, <3>1
    <3>3. samples \in [base : Nat, mixed : Nat, hog : Nat]
      BY <2>1
    <3> HIDE DEF d, o
    <3>4. /\ samples'.mixed = samples.mixed + d /\ samples'.base = samples.base
          /\ samples'.hog = samples.hog + o
      BY <3>2, <3>3
    <3>5. samples' \in [base : Nat, mixed : Nat, hog : Nat]
      <4>1. samples' = [base |-> samples.base, mixed |-> samples.mixed + d, hog |-> samples.hog + o]
        BY <3>2, <3>3
      <4>2. samples.base \in Nat /\ samples.mixed + d \in Nat /\ samples.hog + o \in Nat
        BY <3>2, <3>3
      <4> QED BY <4>1, <4>2
    <3> QED BY <3>4, <3>5 DEF d, o
  <2> QED BY <1>5, <1>6, <1>7, <1>8, <2>1, <2>2
<1>11. ASSUME NEW k \in 1..MixedRepeats
       PROVE  /\ Count(csv', OfRep("mixed:decode", k)) = Decodes * Count(csv', OfRep("mixed:hog", k))
              /\ Count(csv', OfRep("base:decode", k)) \in {0, Decodes}
  <2> DEFINE h == Count(csv, OfRep("mixed:hog", k))
  <2>1. /\ Count(csv, OfRep("mixed:decode", k)) = Decodes * h /\ h \in Nat
        /\ Count(csv, OfRep("base:decode", k)) \in {0, Decodes}
    BY <1>8 DEF MixedInv
  <2>2. /\ Count(csv', OfRep("mixed:hog", k)) = h + (IF k = rep THEN 1 ELSE 0)
        /\ Count(csv', OfRep("mixed:decode", k)) = Decodes * h + (IF k = rep THEN Decodes ELSE 0)
        /\ Count(csv', OfRep("base:decode", k)) = Count(csv, OfRep("base:decode", k))
    BY <1>5, <1>6, <1>7, <1>8, <2>1
  <2> HIDE DEF h
  <2>3. Decodes * (h + 1) = Decodes * h + Decodes /\ Decodes * h \in Nat
    BY <2>1, MixedConstants
  <2> QED BY <2>1, <2>2, <2>3, MixedConstants
<1>12. /\ rows' = << >> /\ waves' = << >> /\ key' \in {Base, Mixed + 1}
       /\ key' \in {Base, Mixed} => rep' \in 1..MixedRepeats /\ key' = Base
       /\ key' # Mixed /\ key' # NotBegun
  BY <1>1, MixedConstants DEF MixedInv
<1>13. csv' \in Seq(MixedRows)
  BY <1>8
<1> QED BY <1>9, <1>10, <1>11, <1>12, <1>13 DEF MixedInv

-----------------------------------------------------------------------------
(* workload.py *)

\* There is one way to write a number as a multiple and a remainder.
LEMMA OneDivision ==
  ASSUME NEW x \in Nat, NEW n \in Nat \ {0}, NEW i \in Nat, NEW m \in 0..n - 1, x = n * i + m
  PROVE  x \div n = i /\ x % n = m
<1> DEFINE j == x \div n
           l == x % n
<1>1. j \in Nat /\ l \in 0..n - 1 /\ x = n * j + l
  BY Z3
<1> HIDE DEF j, l
<1>2. ASSUME NEW a \in Nat, NEW b \in Nat, a < b PROVE n * a + n <= n * b
  <2>1. n * (b - a - 1) >= 0
    <3>1. b - a - 1 \in Nat
      BY <1>2
    <3> QED BY <3>1
  <2>2. n * (b - a - 1) = n * b - n * a - n
    OBVIOUS
  <2> QED BY <2>1, <2>2
<1>3. ~(j < i) /\ ~(i < j)
  BY <1>1, <1>2
<1>4. i = j
  BY <1>1, <1>3
<1>5. m = l
  BY <1>1, <1>4
<1> QED BY <1>4, <1>5 DEF j, l

\* Whole conversations in front change no turn.
LEMMA TurnsInFront ==
  ASSUME NEW x \in Nat, NEW n \in Nat \ {0}, NEW q \in Nat, NEW y \in Nat, y = q * n + x
  PROVE  y \div n = q + (x \div n) /\ y % n = x % n
<1> DEFINE j == x \div n
           l == x % n
<1>1. j \in Nat /\ l \in 0..n - 1 /\ x = n * j + l
  BY Z3
<1> HIDE DEF j, l
<1>2. n * (q + j) = q * n + n * j /\ q * n \in Nat
  BY <1>1
<1>3. q + j \in Nat /\ y = n * (q + j) + l
  BY <1>1, <1>2
<1>4. y \div n = q + j /\ y % n = l
  BY <1>1, <1>3, OneDivision
<1> QED BY <1>4 DEF j, l

\* The turn before is of the same conversation, and so many turns are of so many.
LEMMA TurnArithmetic ==
  ASSUME NEW x \in Nat, NEW n \in Nat \ {0}, NEW q \in Nat
  PROVE  /\ x \div n \in Nat /\ x % n \in 0..n - 1
         /\ x % n # 0 => /\ x >= 1 /\ (x - 1) \div n = x \div n
                         /\ (x - 1) % n = (x % n) - 1
         /\ x < q * n => x \div n < q
<1> DEFINE j == x \div n
           l == x % n
<1>1. j \in Nat /\ l \in 0..n - 1 /\ x = n * j + l
  BY Z3
<1> HIDE DEF j, l
<1>2. ASSUME l # 0 PROVE x >= 1 /\ (x - 1) \div n = j /\ (x - 1) % n = l - 1
  <2>1. n * j \in Nat
    BY <1>1
  <2>2. x - 1 \in Nat /\ l - 1 \in 0..n - 1 /\ x - 1 = n * j + (l - 1)
    BY <1>1, <1>2, <2>1
  <2> QED BY <1>1, <2>2, OneDivision
<1>3. ASSUME x < q * n PROVE j < q
  <2>1. ASSUME j >= q PROVE FALSE
    <3>1. n * (j - q) >= 0 /\ n * (j - q) = n * j - q * n
      <4>1. j - q \in Nat
        BY <1>1, <2>1
      <4> QED BY <1>1, <4>1
    <3>2. n * j \in Nat /\ q * n \in Nat
      BY <1>1
    <3> QED BY <1>1, <1>3, <3>1, <3>2
  <2> QED BY <1>1, <2>1
<1> QED BY <1>1, <1>2, <1>3 DEF j, l

LEMMA TurnConstants ==
  /\ Turns \in Nat \ {0} /\ Convs \in Nat \ {0} /\ ConcConvs \in Nat \ {0} /\ LastGroup \in Nat \ {0}
  /\ Fatal = -1 /\ NotBegun = 0 /\ 1..ConcConvs \subseteq Tasks
  /\ NoTalk \in [Tasks -> Seq(TurnRows)] /\ NoTalk \in [Tasks -> Seq(Nat)]
  /\ \A i \in Tasks : NoTalk[i] = << >>
BY WorkloadConstants, BenchConstants, GroupArithmetic DEF Tasks, Fatal, NotBegun, NoTalk

\* Who has said nothing can go on anywhere.
LEMMA SilenceSpeaks ==
  ASSUME said' = NoTalk, history' = NoTalk, NEW i \in Tasks
  PROVE  Speaks(i)'
<1>1. said'[i] = << >> /\ history'[i] = << >> /\ Len(said'[i]) = 0 /\ DOMAIN said'[i] = {}
  BY TurnConstants
<1> QED BY <1>1, TurnConstants DEF Speaks

LEMMA TurnsRest ==
  ASSUME TaskInv, TurnInv, NEW i \in Tasks, Step(i), UNCHANGED driverVars
  PROVE  TurnInv'
<1>1. /\ pc[i] \notin {"idle", "returned"} /\ UNCHANGED <<key, rows, waves, csv, said, history>>
      /\ \A j \in Tasks \ {i} : pc'[j] = pc[j] /\ attempt'[j] = attempt[j]
  BY DEF Step, Send, Wake, Meets, HttpError, Accepted, Done, Return, ConnectionLost,
         PayloadError, Chunk, Body, Again, driverVars, TaskInv, TaskTypes
<1>2. key \in 1..LastGroup
  BY <1>1 DEF TurnInv
<1>3. ASSUME NEW j \in Tasks PROVE Speaks(j)'
  <2>1. Speaks(j)
    BY DEF TurnInv
  <2>2. Len(said[j]) = Turns => pc'[j] = "returned" /\ attempt'[j] = 1
    BY <1>1, <2>1 DEF Speaks
  <2> QED BY <1>1, <2>1, <2>2 DEF Speaks
<1> QED BY <1>1, <1>2, <1>3 DEF TurnInv

LEMMA TurnsBegins ==
  ASSUME TurnInv, TurnsBegin
  PROVE  TurnInv'
<1>1. key = 0 /\ key' \in {1, Fatal} /\ UNCHANGED <<rows, waves, csv, said, history>>
  BY DEF TurnsBegin, driverVars, NotBegun
<1>2. key' = Fatal => UNCHANGED pc
  BY TurnConstants DEF TurnsBegin
<1>3. /\ said = NoTalk /\ history = NoTalk /\ rows = << >> /\ csv = << >>
      /\ \A i \in Tasks : pc[i] = "idle"
  BY <1>1, TurnConstants DEF TurnInv
<1>4. ASSUME NEW i \in Tasks PROVE Speaks(i)'
  BY <1>1, <1>3, SilenceSpeaks
<1>5. key' \in {Fatal} \cup 0..LastGroup + 1
  BY <1>1, TurnConstants
<1>6. key' \in 1..LastGroup => key' = 1 /\ Len(rows') = ((key' - 1) * ConcConvs) * Turns
  <2>1. (0 * ConcConvs) * Turns = 0 /\ Len(rows') = 0
    BY <1>1, <1>3, TurnConstants
  <2>2. key' \in 1..LastGroup => key' = 1 /\ key' - 1 = 0
    BY <1>1, TurnConstants
  <2> QED BY <2>1, <2>2
<1>7. key' \notin 1..LastGroup => key' = Fatal
  BY <1>1, TurnConstants
<1> QED BY <1>1, <1>2, <1>3, <1>4, <1>5, <1>6, <1>7 DEF TurnInv

LEMMA TurnsStop ==
  ASSUME TurnInv, Interrupt
  PROVE  TurnInv'
<1>1. /\ key' = Fatal /\ rows' = << >> /\ waves' = << >> /\ UNCHANGED csv
      /\ said' = NoTalk /\ history' = NoTalk /\ pc' = Start(0)
  BY DEF Interrupt
<1>2. ASSUME NEW i \in Tasks PROVE Speaks(i)' /\ pc'[i] = "idle"
  <2>1. pc'[i] = "idle"
    BY <1>1 DEF Start, Tasks
  <2> QED BY <1>1, <2>1, SilenceSpeaks
<1>3. rows' \in Seq(TurnRows) /\ Conversations(rows')
  BY <1>1, EmptySeq DEF Conversations
<1>4. key' \notin 0..LastGroup
  BY <1>1, TurnConstants
<1> QED BY <1>1, <1>2, <1>3, <1>4, TurnConstants DEF TurnInv

\* A turn goes on from what was said before it.
LEMMA OneTurnMore ==
  ASSUME TaskInv, TurnInv, NEW i \in Tasks, TurnEnds(i)
  PROVE  TurnInv'
<1> DEFINE row == [key |-> Len(said[i]), conv |-> Conv(key, i), history |-> history[i],
                   ok |-> result[i].ok, gen |-> result[i].gen, made |-> result[i].made]
           t == Len(said[i])
<1>1. /\ pc[i] = "returned" /\ t < Turns /\ UNCHANGED <<key, rows, waves, csv>>
      /\ said' = [said EXCEPT ![i] = Append(@, row)]
      /\ history' = [history EXCEPT ![i] = Append(history[i], result[i].gen)]
      /\ attempt' = [attempt EXCEPT ![i] = 1]
      /\ pc' = [pc EXCEPT ![i] = IF Len(said'[i]) < Turns THEN "send" ELSE "returned"]
  BY DEF TurnEnds, Said
<1>2. /\ said \in [Tasks -> Seq(TurnRows)] /\ history \in [Tasks -> Seq(Nat)]
      /\ pc \in [Tasks -> Codes] /\ attempt \in [Tasks -> 1..Retries + 1] /\ Speaks(i)
      /\ result[i] \in Outcomes /\ result[i].gen \in Nat
  BY DEF TurnInv, TaskInv, TaskTypes, Outcomes, Results
<1>3. key \in 1..LastGroup
  BY <1>1 DEF TurnInv
<1>4. row \in TurnRows
  <2>1. Conv(key, i) \in Nat
    <3>1. (key - 1) * ConcConvs \in Nat
      <4>1. key - 1 \in Nat
        BY <1>3, TurnConstants
      <4> QED BY <4>1, TurnConstants
    <3> QED BY <3>1, TaskConstants DEF Conv
  <2>2. Len(said[i]) \in Nat /\ history[i] \in Seq(Nat)
    BY <1>2, LenProperties
  <2> QED BY <1>2, <2>1, <2>2 DEF TurnRows, Outcomes, Results
<1>5. /\ row.key = t /\ row.conv = Conv(key, i) /\ row.history = history[i]
      /\ row.gen = result[i].gen
  OBVIOUS
<1> HIDE DEF row
<1>6. /\ said'[i] = Append(said[i], row) /\ said'[i] \in Seq(TurnRows) /\ t \in Nat
      /\ DOMAIN said[i] = 1..t /\ DOMAIN said'[i] = 1..t + 1 /\ Len(said'[i]) = t + 1
      /\ said'[i][t + 1] = row /\ \A n \in 1..t : said'[i][n] = said[i][n]
  <2>1. said'[i] = Append(said[i], row) /\ said[i] \in Seq(TurnRows)
    BY <1>1, <1>2
  <2> QED BY <1>4, <2>1, AppendProperties, LenProperties
<1>7. /\ history'[i] = Append(row.history, row.gen) /\ history'[i] \in Seq(Nat)
  BY <1>1, <1>2, <1>5
<1>8. said' \in [Tasks -> Seq(TurnRows)] /\ history' \in [Tasks -> Seq(Nat)]
  BY <1>1, <1>2, <1>6, <1>7
<1>9. Speaks(i)'
  <2>1. t + 1 <= Turns
    BY <1>1, <1>6, TurnConstants
  <2>2. ASSUME NEW n \in 1..t + 1
        PROVE  /\ said'[i][n].conv = Conv(key, i) /\ said'[i][n].key = n - 1
               /\ said'[i][n].history = IF n = 1 THEN << >>
                                        ELSE Append(said'[i][n - 1].history, said'[i][n - 1].gen)
    <3>1. CASE n = t + 1
      <4>1. said'[i][n] = row /\ row.key = n - 1
        BY <1>5, <1>6, <3>1
      <4>2. CASE t = 0
        <5>1. history[i] = << >>
          <6>1. said[i] = << >>
            BY <1>2, <1>6, <4>2
          <6> QED BY <1>2, <6>1 DEF Speaks
        <5> QED BY <1>5, <3>1, <4>1, <4>2, <5>1
      <4>3. CASE t # 0
        <5>1. history[i] = Append(said[i][t].history, said[i][t].gen)
          <6>1. said[i] # << >>
            BY <1>6, <4>3
          <6> QED BY <1>2, <6>1 DEF Speaks
        <5>2. n - 1 = t /\ n # 1 /\ said'[i][t] = said[i][t]
          BY <1>6, <3>1, <4>3
        <5> QED BY <1>5, <4>1, <5>1, <5>2
      <4> QED BY <4>2, <4>3
    <3>2. CASE n \in 1..t
      <4>1. said'[i][n] = said[i][n] /\ (n # 1 => said'[i][n - 1] = said[i][n - 1])
        BY <1>6, <3>2
      <4> QED BY <1>2, <1>6, <3>2, <4>1 DEF Speaks
    <3> QED BY <1>6, <3>1, <3>2
  <2>3. said'[i] # << >> /\ said'[i][Len(said'[i])] = row
    <3>1. Len(said'[i]) # 0 /\ Len(<< >>) = 0
      BY <1>6
    <3> QED BY <1>6, <3>1
  <2>4. t + 1 = Turns => pc'[i] = "returned" /\ attempt'[i] = 1
    BY <1>1, <1>2, <1>6, TurnConstants
  <2> QED BY <1>1, <1>6, <1>7, <2>1, <2>2, <2>3, <2>4 DEF Speaks
<1>10. ASSUME NEW j \in Tasks, j # i PROVE Speaks(j)'
  <2>1. /\ said'[j] = said[j] /\ history'[j] = history[j] /\ pc'[j] = pc[j]
        /\ attempt'[j] = attempt[j] /\ UNCHANGED key /\ Speaks(j)
    BY <1>1, <1>2, <1>10 DEF TurnInv
  <2> QED BY <2>1 DEF Speaks
<1> QED BY <1>1, <1>3, <1>8, <1>9, <1>10 DEF TurnInv

\* The rows of a group are its conversations, whole and in their order.
LEMMA TalksAreConversations ==
  ASSUME TurnInv, GroupEnds
  PROVE  /\ Talks \in Seq(TurnRows) /\ Len(Talks) = GroupSize(key) * Turns
         /\ Follows(Talks, (key - 1) * ConcConvs)
<1> DEFINE g == GroupSize(key)
           at(n) == (n - 1) \div Turns
           turn(n) == (n - 1) % Turns
<1>1. /\ key \in 1..LastGroup /\ g \in 1..ConcConvs /\ g * Turns \in Nat
      /\ \A i \in 1..g : Len(said[i]) = Turns
  BY GroupArithmetic, TurnConstants DEF GroupEnds
<1>2. ASSUME NEW i \in 1..g
      PROVE  /\ i \in Tasks /\ said[i] \in Seq(TurnRows) /\ DOMAIN said[i] = 1..Turns
             /\ \A t \in 1..Turns :
                  /\ said[i][t] \in TurnRows
                  /\ said[i][t].conv = Conv(key, i) /\ said[i][t].key = t - 1
                  /\ said[i][t].history = IF t = 1 THEN << >>
                                         ELSE Append(said[i][t - 1].history, said[i][t - 1].gen)
  <2>1. i \in Tasks
    BY <1>1, TurnConstants
  <2>2. said[i] \in Seq(TurnRows) /\ Speaks(i)
    BY <2>1 DEF TurnInv
  <2>3. Len(said[i]) = Turns
    BY <1>1
  <2>4. DOMAIN said[i] = 1..Turns /\ \A t \in 1..Turns : said[i][t] \in TurnRows
    BY <2>2, <2>3, LenProperties, ElementOfSeq
  <2> QED BY <2>1, <2>2, <2>4 DEF Speaks
<1>3. ASSUME NEW n \in 1..g * Turns
      PROVE  /\ at(n) + 1 \in 1..g /\ turn(n) + 1 \in 1..Turns /\ at(n) \in Nat /\ turn(n) \in Nat
             /\ Talks[n] = said[at(n) + 1][turn(n) + 1]
             /\ turn(n) # 0 => /\ n - 1 \in 1..g * Turns /\ at(n - 1) = at(n)
                              /\ turn(n - 1) = turn(n) - 1
  <2>1. n - 1 \in Nat /\ n - 1 < g * Turns /\ g \in Nat
    BY <1>1
  <2>2. /\ at(n) \in Nat /\ at(n) < g /\ turn(n) \in 0..Turns - 1
        /\ turn(n) # 0 => n - 1 >= 1 /\ at(n - 1) = at(n) /\ turn(n - 1) = turn(n) - 1
    BY <2>1, TurnConstants, TurnArithmetic
  <2> HIDE DEF at, turn
  <2>3. /\ at(n) + 1 \in 1..g /\ turn(n) + 1 \in 1..Turns
        /\ turn(n) # 0 => n - 1 \in 1..g * Turns
    BY <1>1, <2>1, <2>2, TurnConstants
  <2>4. Talks[n] = said[at(n) + 1][turn(n) + 1]
    BY DEF Talks, at, turn
  <2> QED BY <2>2, <2>3, <2>4, TurnConstants
<1> HIDE DEF g, at, turn
<1>4. Talks \in Seq(TurnRows) /\ Len(Talks) = g * Turns
  <2>1. \A n \in 1..g * Turns : Talks[n] \in TurnRows
    BY <1>2, <1>3
  <2>2. Talks = [n \in 1..g * Turns |-> Talks[n]]
    BY DEF Talks, g
  <2> HIDE DEF Talks
  <2>3. Talks \in [1..g * Turns -> TurnRows]
    BY <2>1, <2>2
  <2> QED BY <1>1, <2>3
<1>5. ASSUME NEW n \in 1..g * Turns
      PROVE  /\ Talks[n].conv = (key - 1) * ConcConvs + at(n) + 1
             /\ Talks[n].key = turn(n)
             /\ Talks[n].history = IF Talks[n].key = 0 THEN << >>
                                  ELSE Append(Talks[n - 1].history, Talks[n - 1].gen)
  <2> DEFINE i == at(n) + 1
             t == turn(n) + 1
  <2>1. i \in 1..g /\ t \in 1..Turns /\ Talks[n] = said[i][t] /\ at(n) \in Nat /\ t - 1 = turn(n)
    BY <1>3, TurnConstants
  <2>2. Talks[n].conv = (key - 1) * ConcConvs + i /\ Talks[n].key = t - 1
    BY <1>2, <2>1 DEF Conv
  <2>3. Talks[n].conv = (key - 1) * ConcConvs + at(n) + 1
    BY <1>1, <2>1, <2>2, TurnConstants
  <2>4. CASE turn(n) = 0
    <3>1. t = 1
      BY <2>1, <2>4
    <3> QED BY <1>2, <2>1, <2>2, <2>3, <2>4, <3>1
  <2>5. CASE turn(n) # 0
    <3>1. n - 1 \in 1..g * Turns /\ at(n - 1) = at(n) /\ turn(n - 1) = turn(n) - 1
      BY <1>3, <2>5
    <3>2. Talks[n - 1] = said[i][t - 1]
      <4>1. Talks[n - 1] = said[at(n - 1) + 1][turn(n - 1) + 1]
        BY <1>3, <3>1
      <4>2. turn(n - 1) + 1 = t - 1
        BY <2>1, <3>1, TurnConstants
      <4> QED BY <3>1, <4>1, <4>2
    <3> QED BY <1>2, <2>1, <2>2, <2>3, <2>5, <3>2
  <2> QED BY <2>1, <2>2, <2>3, <2>4, <2>5
<1> QED BY <1>4, <1>5 DEF Follows, g, at, turn

\* Conversations behind whole conversations are conversations.
LEMMA ConversationsJoin ==
  ASSUME NEW s \in Seq(TurnRows), NEW new \in Seq(TurnRows), NEW q \in Nat,
         Conversations(s), Len(s) = q * Turns, Follows(new, q)
  PROVE  Conversations(s \o new)
<1> DEFINE all == s \o new
           l == Len(s)
<1>1. /\ l \in Nat /\ Len(new) \in Nat /\ DOMAIN all = 1..l + Len(new) /\ DOMAIN s = 1..l
      /\ \A n \in 1..l + Len(new) : all[n] = IF n <= l THEN s[n] ELSE new[n - l]
  <2>1. /\ all \in Seq(TurnRows) /\ Len(all) = Len(s) + Len(new)
        /\ \A n \in 1..Len(s) + Len(new) : all[n] = IF n <= Len(s) THEN s[n] ELSE new[n - Len(s)]
    BY ConcatProperties
  <2>2. Len(s) \in Nat /\ Len(new) \in Nat /\ DOMAIN s = 1..Len(s)
    BY LenProperties
  <2> HIDE DEF all
  <2>3. DOMAIN all = 1..Len(all)
    BY <2>1, LenProperties
  <2> QED BY <2>1, <2>2, <2>3
<1> HIDE DEF all
<1>2. ASSUME NEW n \in DOMAIN all
      PROVE  /\ all[n].conv = (n - 1) \div Turns + 1 /\ all[n].key = (n - 1) % Turns
             /\ all[n].history = IF all[n].key = 0 THEN << >>
                                ELSE Append(all[n - 1].history, all[n - 1].gen)
  <2>1. CASE n <= l
    <3>1. n \in DOMAIN s /\ all[n] = s[n] /\ n - 1 \in Nat
      BY <1>1, <2>1
    <3>2. s[n].key # 0 => all[n - 1] = s[n - 1]
      <4>1. s[n].key = (n - 1) % Turns
        BY <3>1 DEF Conversations
      <4>2. s[n].key # 0 => n - 1 >= 1
        BY <3>1, <4>1, TurnConstants, TurnArithmetic
      <4>3. n - 1 >= 1 => n - 1 \in 1..l + Len(new) /\ n - 1 <= l
        BY <1>1, <2>1, <3>1
      <4> QED BY <1>1, <4>2, <4>3
    <3> QED BY <3>1, <3>2 DEF Conversations
  <2>2. CASE ~(n <= l)
    <3> DEFINE m == n - l
               x == m - 1
    <3>1. m \in 1..Len(new) /\ all[n] = new[m] /\ x \in Nat /\ n - 1 = q * Turns + x
      BY <1>1, <2>2
    <3> HIDE DEF x, m
    <3>2. (n - 1) \div Turns = q + (x \div Turns) /\ (n - 1) % Turns = x % Turns
          /\ x \div Turns \in Nat /\ (x % Turns # 0 => x >= 1)
      <4>1. n - 1 \in Nat
        BY <1>1, <2>2
      <4>2. Turns \in Nat \ {0}
        BY TurnConstants
      <4>3. (n - 1) \div Turns = q + (x \div Turns) /\ (n - 1) % Turns = x % Turns
        <5> DEFINE y == n - 1
        <5>1. y \in Nat /\ y = q * Turns + x /\ x \in Nat
          BY <3>1, <4>1
        <5> HIDE DEF y
        <5>2. y \div Turns = q + (x \div Turns) /\ y % Turns = x % Turns
          BY <4>2, <5>1, TurnsInFront
        <5> QED BY <5>2 DEF y
      <4>4. x \div Turns \in Nat /\ (x % Turns # 0 => x >= 1)
        BY <3>1, <4>2, TurnArithmetic
      <4> QED BY <4>3, <4>4
    <3>3. /\ new[m].conv = q + (x \div Turns) + 1 /\ new[m].key = x % Turns
          /\ new[m].history = IF new[m].key = 0 THEN << >>
                             ELSE Append(new[m - 1].history, new[m - 1].gen)
      BY <3>1 DEF Follows, x
    <3>4. new[m].key # 0 => all[n - 1] = new[m - 1]
      <4>1. new[m].key # 0 => n - 1 \in 1..l + Len(new) /\ ~(n - 1 <= l) /\ n - 1 - l = m - 1
        BY <1>1, <2>2, <3>2, <3>3 DEF x, m
      <4> QED BY <1>1, <4>1
    <3> QED BY <3>1, <3>2, <3>3, <3>4
  <2> QED BY <2>1, <2>2
<1> QED BY <1>2 DEF Conversations, all

\* A group is filed behind the groups before it, the last one with all of them.
LEMMA GroupFiledWhole ==
  ASSUME TurnInv, GroupEnds
  PROVE  TurnInv'
<1> DEFINE q == (key - 1) * ConcConvs
           more == rows \o Talks
<1>1. /\ key \in 1..LastGroup /\ key' = key + 1 /\ said' = NoTalk /\ history' = NoTalk
      /\ pc' = Start(IF key = LastGroup THEN 0 ELSE GroupSize(key + 1)) /\ UNCHANGED waves
      /\ key = LastGroup => csv' = csv \o more /\ rows' = << >>
      /\ key # LastGroup => rows' = more /\ UNCHANGED csv
  BY DEF GroupEnds, GroupFiled, File
<1>2. /\ csv \in Seq(TurnRows) /\ rows \in Seq(TurnRows) /\ csv = << >> /\ Conversations(rows)
      /\ Len(rows) = q * Turns /\ waves = << >>
  BY <1>1, TurnConstants DEF TurnInv
<1>3. /\ Talks \in Seq(TurnRows) /\ Len(Talks) = GroupSize(key) * Turns /\ Follows(Talks, q)
  BY TalksAreConversations
<1>4. q \in Nat
  BY <1>1, TurnConstants
<1> HIDE DEF q
<1>5. Conversations(more) /\ more \in Seq(TurnRows)
  BY <1>2, <1>3, <1>4, ConversationsJoin, ConcatProperties
<1>6. Len(more) = (IF key = LastGroup THEN Convs ELSE key * ConcConvs) * Turns
  <2> DEFINE g == GroupSize(key)
  <2>1. g \in Nat /\ q + g = IF key = LastGroup THEN Convs ELSE key * ConcConvs
    <3>1. /\ g \in 1..ConcConvs
          /\ (key - 1) * ConcConvs + g = IF key = LastGroup THEN Convs ELSE key * ConcConvs
      BY <1>1, GroupArithmetic
    <3> QED BY <3>1, TurnConstants DEF q
  <2>2. Len(more) = Len(rows) + Len(Talks)
    BY <1>2, <1>3, ConcatProperties
  <2>a. Len(more) = q * Turns + g * Turns
    BY <1>2, <1>3, <2>2
  <2> HIDE DEF g, more
  <2>3. q * Turns + g * Turns = (q + g) * Turns
    BY <1>4, <2>1, TurnConstants
  <2> QED BY <2>1, <2>a, <2>3
<1>7. ASSUME NEW i \in Tasks PROVE Speaks(i)'
  BY <1>1, SilenceSpeaks
<1>8. key' \in {Fatal} \cup 0..LastGroup + 1 /\ waves' = << >>
  BY <1>1, <1>2, TurnConstants
<1> HIDE DEF more
<1>9. CASE key = LastGroup
  <2>1. csv' = more /\ rows' = << >>
    BY <1>1, <1>2, <1>5, <1>9, ConcatEmptySeq
  <2>2. key' \notin 0..LastGroup /\ key' \notin 1..LastGroup
    BY <1>1, <1>9, TurnConstants
  <2>3. \A i \in Tasks : pc'[i] = "idle"
    BY <1>1, <1>9 DEF Start, Tasks
  <2>4. rows' \in Seq(TurnRows) /\ Conversations(rows')
    BY <2>1, EmptySeq DEF Conversations
  <2>5. csv' \in Seq(TurnRows) /\ Conversations(csv') /\ Len(csv') = Convs * Turns
    BY <1>5, <1>6, <1>9, <2>1
  <2> QED BY <1>1, <1>7, <1>8, <2>1, <2>2, <2>3, <2>4, <2>5, TurnConstants DEF TurnInv
<1>10. CASE key # LastGroup
  <2>1. rows' = more /\ csv' = << >>
    BY <1>1, <1>2, <1>10
  <2>2. key' \in 1..LastGroup /\ key' - 1 = key
    BY <1>1, <1>10, TurnConstants
  <2>3. Len(rows') = ((key' - 1) * ConcConvs) * Turns
    BY <1>6, <1>10, <2>1, <2>2
  <2>4. csv' \in Seq(TurnRows) /\ Conversations(csv')
    BY <2>1, EmptySeq DEF Conversations
  <2>5. rows' \in Seq(TurnRows) /\ Conversations(rows')
    BY <1>5, <2>1
  <2> QED BY <1>1, <1>7, <1>8, <2>1, <2>2, <2>3, <2>4, <2>5, TurnConstants DEF TurnInv
<1> QED BY <1>9, <1>10

-----------------------------------------------------------------------------
(* All three *)

LEMMA WorkStarts == WorkInit => WorkInv
<1> SUFFICES ASSUME WorkInit PROVE WorkInv
  OBVIOUS
<1>1. /\ burst \in {1, Batch} /\ key = 0 /\ rep = 0 /\ pc = Start(0)
      /\ attempt = [i \in Tasks |-> 1] /\ tokens = [i \in Tasks |-> 0]
      /\ usage = [i \in Tasks |-> 0] /\ made = [i \in Tasks |-> 0]
      /\ result = [i \in Tasks |-> Nothing]
      /\ rows = << >> /\ waves = << >> /\ csv = << >>
      /\ driver \in {"sweep", "mixed", "turns"}
      /\ samples = NoSamples /\ history = NoTalk /\ said = NoTalk
  BY DEF WorkInit, Init, NotBegun
<1>2. \A i \in Tasks : pc[i] = "idle"
  BY <1>1 DEF Start, Tasks
<1>3. TaskInv
  <2>1. TaskTypes
    BY <1>1, TaskConstants DEF TaskTypes
  <2>2. ASSUME NEW i \in Tasks PROVE Served(i)
    BY <1>1, <1>2, TaskConstants DEF Served
  <2> QED BY <1>1, <1>2, <2>1, <2>2 DEF TaskInv, Waits
<1>4. SweepInv
  <2>1. ~Sweeping /\ WaveTotals
    BY <1>1 DEF Sweeping, WaveTotals
  <2>2. << >> \in Seq(SweepRows) /\ << >> \in Seq(WaveRecords) /\ DOMAIN csv = {}
    BY <1>1, EmptySeq
  <2>3. \A k \in DOMAIN Concs : Count(csv, OfKey(k)) = 0
    BY <1>1, <2>2, CountOfOneKind
  <2>4. DOMAIN waves = {}
    BY <1>1
  <2> QED BY <1>1, <2>1, <2>2, <2>3, <2>4, SweepConstants DEF SweepInv
<1>5. MixedInv
  <2>1. csv \in Seq(MixedRows) /\ DOMAIN csv = {}
    BY <1>1, EmptySeq
  <2>2. ASSUME NEW G PROVE Count(csv, G) = 0
    BY <2>1, CountOfOneKind
  <2>3. /\ samples \in [base : Nat, mixed : Nat, hog : Nat]
        /\ samples.base = 0 /\ samples.mixed = 0 /\ samples.hog = 0
    BY <1>1 DEF NoSamples
  <2> QED BY <1>1, <2>1, <2>2, <2>3, MixedConstants DEF MixedInv
<1>6. TurnInv
  <2>1. ASSUME NEW i \in Tasks PROVE Speaks(i)
    <3>1. said[i] = << >> /\ history[i] = << >> /\ Len(said[i]) = 0 /\ DOMAIN said[i] = {}
      BY <1>1, TurnConstants
    <3> QED BY <3>1, TurnConstants DEF Speaks
  <2>2. csv \in Seq(TurnRows) /\ rows \in Seq(TurnRows) /\ Conversations(csv) /\ Conversations(rows)
    BY <1>1, EmptySeq DEF Conversations
  <2> QED BY <1>1, <1>2, <2>1, <2>2, TurnConstants DEF TurnInv
<1> QED BY <1>1, <1>3, <1>4, <1>5, <1>6 DEF WorkInv

\* Whatever one of the scripts does, its part of the invariant stays true.
LEMMA WorkSteps ==
  ASSUME WorkInv, [WorkNext]_workVars
  PROVE  WorkInv'
<1>1. CASE WorkNext
  <2>1. /\ TaskInv /\ TaskInv' /\ UNCHANGED driver /\ driver \in {"sweep", "mixed", "turns"}
        /\ Coordinate \/ Interrupt \/ Over \/ \E i \in Tasks : Step(i) /\ UNCHANGED driverVars
    BY <1>1, TaskNext DEF WorkInv, WorkNext, asked
  <2>2. ASSUME NEW i \in Tasks, Step(i) PROVE UNCHANGED <<key, rep, rows, waves, csv>>
    BY <2>2 DEF Step, Send, Wake, Meets, HttpError, Accepted, Done, Return,
                ConnectionLost, PayloadError, Chunk, Body
  <2>3. Over => UNCHANGED <<key, rep, rows, waves, csv, driverVars, pc, attempt>>
    BY DEF Over, workVars, benchVars, driverVars
  <2>4. CASE driver = "sweep"
    <3> SUFFICES SweepInv'
      BY <2>1, <2>4 DEF WorkInv
    <3>1. SweepInv
      BY <2>4 DEF WorkInv
    <3>2. CASE Begin
      BY <3>1, <3>2, SweepBegins
    <3>3. CASE Gather
      <4>1. rep \in 0..Repeats
        BY <3>1 DEF SweepInv
      <4>2. rep = 0 \/ rep > 0
        BY <4>1, SweepConstants
      <4> QED BY <2>1, <3>1, <3>3, <4>2, WarmupEnds, RecordedWaveEnds
    <3>4. CASE Interrupt
      BY <3>1, <3>4, SweepStops
    <3>5. CASE UNCHANGED <<key, rep, rows, waves, csv>>
      BY <3>1, <3>5, SweepRests
    <3> QED BY <2>1, <2>2, <2>3, <2>4, <3>2, <3>3, <3>4, <3>5 DEF Coordinate
  <2>5. CASE driver = "mixed"
    <3> SUFFICES MixedInv'
      BY <2>1, <2>5 DEF WorkInv
    <3>1. MixedInv
      BY <2>5 DEF WorkInv
    <3>2. CASE MixedBegin
      BY <3>1, <3>2, MixedBegins
    <3>3. CASE BaseEnds
      BY <2>1, <3>1, <3>3, BaseFiled
    <3>4. CASE MixedEnds
      BY <2>1, <3>1, <3>4, MixedFiled
    <3>5. CASE Interrupt
      BY <3>1, <3>5, MixedStops
    <3>6. CASE UNCHANGED <<key, rep, rows, waves, csv, samples>>
      BY <3>1, <3>6, MixedRests
    <3>7. UNCHANGED driverVars => UNCHANGED samples
      BY DEF driverVars
    <3> QED BY <2>1, <2>2, <2>3, <2>5, <3>2, <3>3, <3>4, <3>5, <3>6, <3>7 DEF Coordinate
  <2>6. CASE driver = "turns"
    <3> SUFFICES TurnInv'
      BY <2>1, <2>6 DEF WorkInv
    <3>1. TurnInv
      BY <2>6 DEF WorkInv
    <3>2. CASE TurnsBegin
      BY <3>1, <3>2, TurnsBegins
    <3>3. CASE GroupEnds
      BY <3>1, <3>3, GroupFiledWhole
    <3>4. ASSUME NEW i \in Tasks, TurnEnds(i) PROVE TurnInv'
      BY <2>1, <3>1, <3>4, OneTurnMore
    <3>5. CASE Interrupt
      BY <3>1, <3>5, TurnsStop
    <3>6. CASE Over
      <4>1. UNCHANGED <<key, rows, waves, csv, said, history, pc, attempt>>
        BY <2>3, <3>6 DEF driverVars
      <4>2. ASSUME NEW i \in Tasks PROVE Speaks(i)'
        BY <3>1, <4>1 DEF TurnInv, Speaks, Conv
      <4>3. Conversations(csv)' /\ Conversations(rows)'
        BY <3>1, <4>1 DEF TurnInv, Conversations
      <4> QED BY <3>1, <4>1, <4>2, <4>3 DEF TurnInv
    <3>7. ASSUME NEW i \in Tasks, Step(i), UNCHANGED driverVars PROVE TurnInv'
      BY <2>1, <3>1, <3>7, TurnsRest
    <3> QED BY <2>1, <2>6, <3>2, <3>3, <3>4, <3>5, <3>6, <3>7 DEF Coordinate
  <2> QED BY <2>1, <2>4, <2>5, <2>6
<1>2. CASE UNCHANGED workVars
  <2>1. /\ UNCHANGED <<burst, key, rep, pc, attempt, tokens, usage, made, result>>
        /\ UNCHANGED <<rows, waves, csv, driver, samples, history, said>>
    BY <1>2 DEF workVars, benchVars, driverVars
  <2>2. TaskInv'
    BY <2>1 DEF WorkInv, TaskInv, TaskTypes, Waits, Served
  <2>3. driver = "sweep" => SweepInv'
    BY <2>1, SweepRests DEF WorkInv
  <2>4. driver = "mixed" => MixedInv'
    BY <2>1, MixedRests DEF WorkInv
  <2>5. driver = "turns" => TurnInv'
    BY <2>1 DEF WorkInv, TurnInv, Speaks
  <2> QED BY <2>1, <2>2, <2>3, <2>4, <2>5 DEF WorkInv
<1> QED BY <1>1, <1>2

LEMMA WorkAlways == WorkSpec => []WorkInv
BY WorkStarts, WorkSteps, PTL DEF WorkSpec

-----------------------------------------------------------------------------
(* What holds at every state, and at every step *)

\* one_request, wave and the two scripts that import them keep their state in
\* range: no task makes more attempts than --retries, nor counts more tokens than
\* the server can send in one of them.
THEOREM WorkTyping == WorkSpec => []BenchTypeOK
<1>1. WorkInv => BenchTypeOK
  <2> SUFFICES ASSUME WorkInv PROVE BenchTypeOK
    OBVIOUS
  <2>1. TaskTypes /\ \A i \in Tasks : Served(i)
    BY DEF WorkInv, TaskInv
  <2> DEFINE Most == MaxChunks * Batch
             Here == MaxChunks * burst
  <2>2. Most \in Nat /\ Here \in Nat /\ Here <= Most
    BY <2>1, Capacity DEF TaskTypes
  <2>3. ASSUME NEW i \in Tasks
        PROVE  /\ tokens[i] \in Nat /\ usage[i] \in Nat /\ made[i] \in Nat
               /\ tokens[i] <= made[i] /\ usage[i] <= made[i] /\ made[i] <= Here
    BY <2>1 DEF TaskTypes, Served
  <2> HIDE DEF Most, Here
  <2>4. /\ tokens \in [Tasks -> 0..Most] /\ usage \in [Tasks -> 0..Most]
        /\ made \in [Tasks -> 0..Most]
    <3>1. ASSUME NEW i \in Tasks
          PROVE  tokens[i] \in 0..Most /\ usage[i] \in 0..Most /\ made[i] \in 0..Most
      BY <2>2, <2>3
    <3> QED BY <2>1, <3>1 DEF TaskTypes
  <2>5. result \in [Tasks -> Results]
    BY <2>1 DEF TaskTypes, Outcomes
  <2> QED BY <2>1, <2>4, <2>5 DEF TaskTypes, BenchTypeOK, Codes, Most
<1> QED BY <1>1, WorkAlways, PTL

\* No row that any of the scripts has, in memory or on file, claims more tokens than
\* the server sent for it in one attempt; and an answer that the server's count
\* closes is credited with that count if one arrival was recorded, over whatever
\* batches the rest came.
THEOREM TokensCountedOnce == WorkSpec => CountsTokensOnce
<1> DEFINE NoMore == \A n \in DOMAIN Reported : Reported[n].gen <= Reported[n].made
           All == \A i \in Tasks : pc[i] = "stream" /\ pc'[i] = "returned" /\ result'[i].ok
                                   /\ usage[i] = made[i] /\ tokens[i] > 0
                                   => result'[i].gen = made[i]
<1>1. WorkInv => NoMore
  <2> SUFFICES ASSUME WorkInv PROVE NoMore
    OBVIOUS
  <2>1. CASE driver = "sweep"
    <3>1. csv \o rows \in Seq(SweepRows)
      BY <2>1 DEF WorkInv, SweepInv
    <3> QED BY <3>1, ElementOfSeq DEF Reported, SweepRows
  <2>2. CASE driver = "mixed"
    <3>1. csv \o rows \in Seq(MixedRows)
      BY <2>2 DEF WorkInv, MixedInv
    <3> QED BY <3>1, ElementOfSeq DEF Reported, MixedRows
  <2>3. CASE driver = "turns"
    <3>1. csv \o rows \in Seq(TurnRows)
      BY <2>3 DEF WorkInv, TurnInv
    <3> QED BY <3>1, ElementOfSeq DEF Reported, TurnRows
  <2> QED BY <2>1, <2>2, <2>3 DEF WorkInv
<1>2. ASSUME WorkInv, [WorkNext]_workVars PROVE [All]_benchVars
  <2> SUFFICES ASSUME WorkNext, NEW i \in Tasks, pc[i] = "stream", pc'[i] = "returned",
                      result'[i].ok, usage[i] = made[i], tokens[i] > 0
               PROVE  result'[i].gen = made[i]
    BY <1>2 DEF workVars
  <2>1. /\ pc \in [Tasks -> Codes] /\ made[i] \in Nat /\ tokens[i] \in Nat
        /\ tokens[i] <= made[i] /\ result \in [Tasks -> Outcomes]
    BY <1>2 DEF WorkInv, TaskInv, TaskTypes, Served
  <2>2. ~\E n \in Int : pc' = Start(n)
    <3>1. ASSUME NEW n \in Int PROVE Start(n)[i] # "returned"
      BY DEF Start
    <3> QED BY <3>1
  <2>3. ~UNCHANGED pc
    OBVIOUS
  <2>4. ~Coordinate /\ ~Interrupt /\ ~Over
    <3>1. ~Interrupt
      BY <2>2 DEF Interrupt
    <3>2. ~Over
      BY <2>3 DEF Over, workVars, benchVars
    <3>3. ~Begin
      BY <2>2, <2>3 DEF Begin
    <3>4. ~MixedBegin /\ ~BaseEnds /\ ~MixedEnds
      <4>1. Decodes \in Int /\ Hog \in Int
        BY WorkloadConstants, TaskConstants DEF Hog
      <4> QED BY <2>2, <2>3, <4>1 DEF MixedBegin, BaseEnds, MixedEnds
    <3>5. ASSUME TurnsBegin \/ GroupEnds PROVE FALSE
      <4>1. \A g : g \in Int => GroupSize(g) \in Int
        BY WorkloadConstants, TaskConstants DEF GroupSize
      <4>2. key \in Int
        BY <1>2 DEF WorkInv, TaskInv, TaskTypes, Fatal
      <4> QED BY <2>2, <2>3, <3>5, <4>1, <4>2 DEF TurnsBegin, GroupEnds
    <3>6. ASSUME NEW j \in Tasks, TurnEnds(j) PROVE FALSE
      BY <2>1, <3>6 DEF TurnEnds
    <3>7. ASSUME Gather PROVE FALSE
      <4>1. \E n \in Int : pc' = Start(n)
        <5>1. /\ key \in 1..Len(Concs) /\ rep \in Nat /\ Repeats \in Nat
              /\ Concs \in Seq(Int)
          BY <1>2, <3>7, BenchConstants DEF Gather, WorkInv, TaskInv, TaskTypes
        <5>2. CASE rep = 0
          BY <3>7, <5>1, <5>2 DEF Gather, NextWave
        <5>3. CASE rep > 0
          <6>1. CASE rep = Repeats /\ key = Len(Concs)
            BY <3>7, <5>3, <6>1 DEF Gather
          <6>2. CASE ~(rep = Repeats /\ key = Len(Concs))
            <7>1. /\ NextWave(key', rep')
                  /\ \/ key' = key + 1 /\ rep' = 0
                     \/ key' = key /\ rep' = rep + 1
              BY <3>7, <5>3, <6>2 DEF Gather
            <7> QED BY <5>1, <5>3, <7>1 DEF NextWave
          <6> QED BY <6>1, <6>2
        <5> QED BY <5>1, <5>2, <5>3
      <4> QED BY <2>2, <4>1
    <3> QED BY <3>1, <3>2, <3>3, <3>4, <3>5, <3>6, <3>7 DEF Coordinate
  <2>5. PICK j \in Tasks : Step(j)
    BY <2>4 DEF WorkNext
  <2>6. j = i
    <3>1. j # i => pc'[i] = pc[i]
      BY <2>1, <2>5 DEF Step, Send, Wake, Again, Meets, HttpError, Accepted, Done, Return,
                        ConnectionLost, PayloadError, Chunk, Body
    <3> QED BY <3>1
  <2>7. ASSUME NEW o, Return(i, o) PROVE result'[i] = o
    BY <2>1, <2>7 DEF Return
  <2>8. \/ Done(i) \/ PayloadError(i)
        \/ ConnectionLost(i) /\ ~Retriable(i)
        \/ \E n \in {0, burst} : Body(i, n)
    <3>1. ASSUME NEW n, NEW mention PROVE ~Chunk(i, n, mention)
      BY <2>1, <2>3, <3>1 DEF Chunk
    <3>2. ~Send(i) /\ ~Wake(i) /\ ~HttpError(i) /\ ~Accepted(i)
      BY DEF Send, Wake, HttpError, Accepted
    <3>3. ~(ConnectionLost(i) /\ Retriable(i))
      BY <2>1 DEF ConnectionLost
    <3> QED BY <2>5, <2>6, <3>1, <3>2, <3>3 DEF Step, Meets
  <2>9. Done(i)
    <3>1. ASSUME NEW gen PROVE ~Return(i, Outcome(i, FALSE, gen))
      BY <2>7 DEF Outcome
    <3>2. ~PayloadError(i) /\ ~(ConnectionLost(i) /\ ~Retriable(i))
      BY <3>1 DEF PayloadError, ConnectionLost
    <3>3. ASSUME NEW n, Body(i, n) PROVE FALSE
      BY <2>1, <3>3 DEF Body
    <3> QED BY <2>8, <3>2, <3>3
  <2>10. result'[i] = Outcome(i, TRUE, Counted(tokens[i], Tally(i)))
    BY <2>7, <2>9 DEF Done
  <2> QED BY <2>1, <2>10 DEF Outcome, Counted, Tally
<1> QED BY <1>1, <1>2, WorkAlways, PTL DEF WorkSpec, CountsTokensOnce

\* A wave's throughput divides the tokens of that wave and of no other: the slice
\* rows[-conc:] is the whole of the rows that bear its concurrency and repeat.
THEOREM ThroughputOfOwnWave == WorkSpec => []WaveTotals
<1>1. WorkInv => WaveTotals
  <2> SUFFICES ASSUME WorkInv PROVE WaveTotals
    OBVIOUS
  <2>1. CASE driver = "sweep"
    BY <2>1 DEF WorkInv, SweepInv
  <2>2. CASE driver # "sweep"
    <3>1. waves = << >>
      BY <2>2 DEF WorkInv, MixedInv, TurnInv
    <3> QED BY <3>1 DEF WaveTotals
  <2> QED BY <2>1, <2>2
<1> QED BY <1>1, WorkAlways, PTL

\* starvation_x compares the decodes of the base phase with those next to the hog:
\* each sample has as many entries as its own phase has ok rows on file.
THEOREM SamplesOfOwnPhase == WorkSpec => []PhasesApart
<1>1. WorkInv => PhasesApart
  <2> SUFFICES ASSUME WorkInv, driver = "mixed", key # Fatal
               PROVE  samples =
                 [base |-> Cardinality({n \in DOMAIN csv : csv[n].key = "base:decode" /\ csv[n].ok}),
                  mixed |-> Cardinality({n \in DOMAIN csv : csv[n].key = "mixed:decode" /\ csv[n].ok}),
                  hog |-> Cardinality({n \in DOMAIN csv : csv[n].key = "mixed:hog" /\ csv[n].ok})]
    BY DEF PhasesApart
  <2>1. MixedInv
    BY DEF WorkInv
  <2>2. ASSUME NEW label
        PROVE  {n \in DOMAIN csv : csv[n].key = label /\ csv[n].ok}
                 = {n \in DOMAIN csv : csv[n] \in OkOf(label)}
    <3>1. \A n \in DOMAIN csv : csv[n] \in MixedRows
      BY <2>1, ElementOfSeq DEF MixedInv
    <3> QED BY <3>1 DEF OkOf
  <2>3. /\ samples \in [base : Nat, mixed : Nat, hog : Nat]
        /\ samples.base = Count(csv, OkOf("base:decode"))
        /\ samples.mixed = Count(csv, OkOf("mixed:decode"))
        /\ samples.hog = Count(csv, OkOf("mixed:hog"))
    BY <2>1 DEF MixedInv
  <2>4. samples = [base |-> samples.base, mixed |-> samples.mixed, hog |-> samples.hog]
    BY <2>3
  <2> QED BY <2>2, <2>3, <2>4 DEF Count
<1> QED BY <1>1, WorkAlways, PTL

\* Ctrl-C leaves a file with whole units only: every concurrency of the sweep, every
\* phase of a repeat, all conversations, or nothing of them.
THEOREM FilesWholeUnits == WorkSpec => []WholeUnits
<1>1. WorkInv => WholeUnits
  <2> SUFFICES ASSUME WorkInv PROVE WholeUnits
    OBVIOUS
  <2>1. CASE driver = "sweep"
    <3>1. /\ csv \in Seq(SweepRows)
          /\ \A k \in DOMAIN Concs : Count(csv, OfKey(k)) \in {0, Repeats * Concs[k]}
      BY <2>1 DEF WorkInv, SweepInv
    <3>2. \A n \in DOMAIN csv : csv[n] \in SweepRows
      BY <3>1, ElementOfSeq
    <3>3. ASSUME NEW k
          PROVE  {n \in DOMAIN csv : csv[n].key = k} = {n \in DOMAIN csv : csv[n] \in OfKey(k)}
      BY <3>2 DEF OfKey
    <3>4. ASSUME NEW k \in DOMAIN Concs
          PROVE  Cardinality({n \in DOMAIN csv : csv[n].key = k}) \in {0, Repeats * Concs[k]}
      BY <3>1, <3>3 DEF Count
    <3>5. driver # "mixed" /\ driver # "turns"
      BY <2>1
    <3> QED BY <3>4, <3>5, Zenon DEF WholeUnits
  <2>2. CASE driver = "mixed"
    <3>1. /\ csv \in Seq(MixedRows)
          /\ \A k \in 1..MixedRepeats :
               /\ Count(csv, OfRep("mixed:decode", k)) = Decodes * Count(csv, OfRep("mixed:hog", k))
               /\ Count(csv, OfRep("base:decode", k)) \in {0, Decodes}
      BY <2>2 DEF WorkInv, MixedInv
    <3>2. \A n \in DOMAIN csv : csv[n] \in MixedRows
      BY <3>1, ElementOfSeq
    <3>3. ASSUME NEW label, NEW k
          PROVE  {n \in DOMAIN csv : csv[n].key = label /\ csv[n].rep = k}
                   = {n \in DOMAIN csv : csv[n] \in OfRep(label, k)}
      BY <3>2 DEF OfRep
    <3>4. ASSUME NEW label, NEW k
          PROVE  Cardinality({n \in DOMAIN csv : csv[n].key = label /\ csv[n].rep = k})
                   = Count(csv, OfRep(label, k))
      BY <3>3, Zenon DEF Count
    <3>5. ASSUME NEW k \in 1..MixedRepeats
          PROVE  LET count(label) ==
                       Cardinality({n \in DOMAIN csv : csv[n].key = label /\ csv[n].rep = k}) IN
                 /\ count("mixed:decode") = Decodes * count("mixed:hog")
                 /\ count("base:decode") \in {0, Decodes}
      BY <3>1, <3>4, Zenon
    <3>6. driver # "sweep" /\ driver # "turns"
      BY <2>2
    <3> QED BY <3>5, <3>6, Zenon DEF WholeUnits
  <2>3. CASE driver = "turns"
    BY <2>3 DEF WorkInv, TurnInv, WholeUnits
  <2> QED BY <2>1, <2>2, <2>3 DEF WorkInv
<1> QED BY <1>1, WorkAlways, PTL

\* "turns within a conversation stay sequential (causal history)": the history each
\* turn on file was asked with is that of the turn before it and its answer, in every
\* conversation, however the conversations of a group interleave.
THEOREM TurnsAreCausal == WorkSpec => []TurnsExtendHistory
<1>1. WorkInv => TurnsExtendHistory
  BY DEF WorkInv, TurnInv, TurnsExtendHistory, Conversations
<1> QED BY <1>1, WorkAlways, PTL

-----------------------------------------------------------------------------
(* p14-chaos/slo.py, on any file *)

\* Rows have a last one of every kind they have at all.
LEMMA LastOne ==
  ASSUME NEW n \in Nat, NEW S \in SUBSET (1..n), S # {}
  PROVE  \E i \in S : \A j \in S : j <= i
<1> DEFINE T == {d \in Nat : n - d \in S}
<1>1. PICK d \in T : \A e \in T : ~(<<e, d>> \in OpToRel(<, Nat))
  <2>1. PICK i \in S : TRUE
    OBVIOUS
  <2>2. n - i \in Nat /\ n - (n - i) = i
    BY <2>1
  <2>3. T \subseteq Nat /\ T # {}
    BY <2>1, <2>2
  <2> HIDE DEF T
  <2> QED BY <2>3, NatLessThanWellFounded, WFMin
<1>2. ASSUME NEW e \in T PROVE d <= e
  <2>1. OpToRel(<, Nat) = {ss \in Nat \X Nat : ss[1] < ss[2]}
    BY Zenon DEF OpToRel
  <2>2. <<e, d>> \notin {ss \in Nat \X Nat : ss[1] < ss[2]}
    BY <1>1, <2>1, Zenon
  <2> QED BY <2>2
<1>3. ASSUME NEW j \in S PROVE j <= n - d
  <2>1. n - j \in Nat /\ n - (n - j) = j
    OBVIOUS
  <2>2. n - j \in T
    BY <2>1
  <2> QED BY <1>2, <2>2
<1> QED BY <1>3

\* mttr_proxy() counts the rows after the last failure: they are ok, and the row
\* before them, if there is one, is not.
THEOREM RecoveredRowsAreOk ==
  ASSUME NEW R, NEW s \in Seq(R)
  PROVE  /\ MttrProxy(s) \in 0..Len(s)
         /\ \A i \in DOMAIN s : i > Len(s) - MttrProxy(s) => s[i].ok
         /\ MttrProxy(s) < Len(s) => ~s[Len(s) - MttrProxy(s)].ok
<1> DEFINE bad == {i \in DOMAIN s : ~s[i].ok}
           last == CHOOSE i \in bad : \A j \in bad : j <= i
<1>1. Len(s) \in Nat /\ DOMAIN s = 1..Len(s) /\ bad \in SUBSET (1..Len(s))
  OBVIOUS
<1>2. MttrProxy(s) = Len(s) - (IF bad = {} THEN 0 ELSE last)
  BY DEF MttrProxy, Bad
<1>3. CASE bad = {}
  BY <1>1, <1>2, <1>3
<1>4. CASE bad # {}
  <2>1. last \in bad /\ \A j \in bad : j <= last
    <3> HIDE DEF bad
    <3> QED BY <1>1, <1>4, LastOne
  <2> HIDE DEF last
  <2> QED BY <1>1, <1>2, <1>4, <2>1
<1> QED BY <1>3, <1>4

\* burn() counts a row as bad at most once, and every failed one, whichever are
\* slow: availability lost is budget burnt, and no more is burnt than there is.
THEOREM FailuresBurnBudget ==
  ASSUME NEW R, NEW s \in Seq(R), NEW slow \in SUBSET DOMAIN s
  PROVE  LET burn == Burn(s, slow) IN
         /\ burn.n \in Nat \ {0} /\ burn.bad \in 0..burn.n
         /\ burn.available \in 0..burn.n /\ burn.n - burn.available <= burn.bad
<1> DEFINE n == IF s = << >> THEN 1 ELSE Len(s)
           failed == Cardinality(Bad(s, {}))
           bad == Cardinality(Bad(s, slow))
<1>1. /\ Len(s) \in Nat /\ DOMAIN s = 1..Len(s)
      /\ n \in Nat \ {0} /\ Len(s) <= n
  OBVIOUS
<1>2. IsFiniteSet(1..Len(s)) /\ Cardinality(1..Len(s)) = Len(s)
  BY <1>1, FS_Interval
<1>3. Bad(s, {}) \subseteq Bad(s, slow) /\ Bad(s, slow) \subseteq 1..Len(s)
  BY <1>1 DEF Bad
<1>4. IsFiniteSet(Bad(s, slow)) /\ bad \in Nat /\ bad <= Len(s)
  BY <1>2, <1>3, FS_Subset, FS_CardinalityType
<1>5. failed \in Nat /\ failed <= bad
  BY <1>3, <1>4, FS_Subset, FS_CardinalityType
<1>6. /\ Burn(s, slow).n = n /\ Burn(s, slow).bad = bad
      /\ Burn(s, slow).available = n - failed
  BY DEF Burn
<1> HIDE DEF n, failed, bad
<1> QED BY <1>1, <1>4, <1>5, <1>6
=============================================================================
