------------------------- MODULE PrefixProxyProofs -------------------------
(***************************************************************************)
(* What a request through the prefix proxy is answered and what is logged  *)
(* of it, and whose turn it is: for any requests, keys and backends, and   *)
(* threads that race for the counter in any way.                           *)
(***************************************************************************)
EXTENDS PrefixProxy, TLAPS

Typing ==
  /\ pc \in [Requests -> Picking \cup {"route", "connect", "relay", "reply502", "log", "done"}]
  /\ counter \in Nat /\ loaded \in [Requests -> Nat]
  /\ backend \in [Requests -> Places]
  /\ out \in [Requests -> Seq({"ok", "502"})]
  /\ first \in [Requests -> BOOLEAN] /\ gone \in [Requests -> BOOLEAN]
  /\ broke \in [Requests -> BOOLEAN] /\ mixed \in [Requests -> BOOLEAN]
  /\ DOMAIN log = Requests
  /\ last \in [backend : Places, alone : BOOLEAN]

\* What the client of a request has got, by the place of its thread.
Answered(r) ==
  /\ pc[r] \in Picking \cup {"route", "connect"} => out[r] = << >> /\ ~first[r] /\ ~broke[r]
  /\ pc[r] = "relay" => out[r] = <<"ok">> /\ ~broke[r]
  /\ pc[r] = "reply502" => ~first[r] /\ out[r] = IF broke[r] THEN <<"ok">> ELSE << >>
  /\ pc[r] \in {"log", "done"} /\ KeyOf[r] # Malformed =>
       /\ first[r] => out[r] = <<"ok">>
       /\ ~gone[r] => Len(out[r]) = IF broke[r] THEN 2 ELSE 1

\* Where a request goes, and what its line says in the end.
Routed(r) ==
  /\ KeyOf[r] = Malformed => pc[r] \in {"route", "done"}
  /\ pc[r] \in Picking => KeyOf[r] = NoKey
  /\ KeyOf[r] \in Keys /\ pc[r] # "route" => backend[r] = Home[KeyOf[r]]
  /\ pc[r] = "done" /\ KeyOf[r] # Malformed =>
       log[r] = [backend |-> backend[r], ttft |-> first[r]]

AnswerInv == Typing /\ \A r \in Requests : Answered(r) /\ Routed(r)

-----------------------------------------------------------------------------
(* One request *)

\* A step of one request leaves the answers of the others alone.
LEMMA OthersKeep ==
  ASSUME NEW r \in Requests, Answered(r), Routed(r),
         pc'[r] = pc[r], out'[r] = out[r], first'[r] = first[r], broke'[r] = broke[r],
         gone'[r] = gone[r], backend'[r] = backend[r], log'[r] = log[r]
  PROVE  Answered(r)' /\ Routed(r)'
BY DEF Answered, Routed

\* Before a request there is no answer.
LEMMA AnswersStart == Init => AnswerInv
<1> SUFFICES ASSUME Init PROVE AnswerInv
  OBVIOUS
<1>1. Typing
  BY PrefixConstants DEF Init, Typing, Places
<1>2. \A r \in Requests : Answered(r) /\ Routed(r)
  BY DEF Init, Answered, Routed, Picking
<1> QED BY <1>1, <1>2 DEF AnswerInv

\* Choosing a backend answers nothing.
LEMMA PickingKeepsAnswers ==
  ASSUME AnswerInv, NEW r \in Requests, Route(r) \/ Load(r) \/ Store(r) \/ Read(r)
  PROVE  AnswerInv'
<1> USE DEF AnswerInv
<1>1. UNCHANGED answerVars
  BY DEF Route, Load, Store, Read
<1>2. UNCHANGED <<out, first, gone, log, broke>>
  BY <1>1 DEF answerVars
<1>3. Typing'
  <2>1. CASE Route(r)
    <3>1. CASE KeyOf[r] \in Keys /\ backend' = [backend EXCEPT ![r] = Home[KeyOf[r]]]
               /\ Goto(r, "connect") /\ UNCHANGED <<counter, loaded, mixed, last>>
      <4>1. Home[KeyOf[r]] \in Places
        BY <3>1, PrefixConstants DEF Places
      <4> QED BY <1>2, <3>1, <4>1 DEF Goto, Typing
    <3>2. CASE BeginPick(r)
      <4>1. mixed' \in [Requests -> BOOLEAN]
        BY <3>2, Zenon DEF BeginPick, Typing
      <4> QED BY <1>2, <3>2, <4>1 DEF BeginPick, Goto, Typing, Picking
    <3>3. CASE Goto(r, "done") /\ UNCHANGED pickVars
      BY <1>2, <3>3 DEF Goto, pickVars, Typing
    <3> QED BY <2>1, <3>1, <3>2, <3>3 DEF Route
  <2>2. CASE Load(r)
    BY <1>2, <2>2 DEF Load, Goto, Typing, Picking
  <2>3. CASE Store(r)
    BY <1>2, <2>3 DEF Store, Goto, Typing, Picking, Bumped
  <2>4. CASE Read(r)
    <3>1. Turn(counter) \in Places
      BY PrefixConstants DEF Turn, Places, Typing
    <3>2. (~mixed[r]) \in BOOLEAN
      OBVIOUS
    <3> QED BY <1>2, <2>4, <3>1, <3>2 DEF Read, Goto, Typing
  <2> QED BY <2>1, <2>2, <2>3, <2>4
<1>4. \A q \in Requests \ {r} : pc'[q] = pc[q] /\ backend'[q] = backend[q]
  BY DEF Route, BeginPick, Load, Store, Read, Goto, pickVars, Typing
<1>5. Answered(r)'
  BY <1>2 DEF Route, BeginPick, Load, Store, Read, Goto, Typing, Answered, Picking
<1>6. Routed(r)'
  BY <1>2, PrefixConstants
  DEF Route, BeginPick, Load, Store, Read, Goto, pickVars, Typing, Routed, Picking
<1>7. \A q \in Requests \ {r} : Answered(q)' /\ Routed(q)'
  BY <1>2, <1>4, OthersKeep
<1> QED BY <1>3, <1>5, <1>6, <1>7

\* What a step of the relay of r does not touch.
Aside(r) ==
  /\ UNCHANGED pickVars
  /\ DOMAIN log' = Requests
  /\ \A q \in Requests \ {r} :
       /\ pc'[q] = pc[q] /\ out'[q] = out[q] /\ first'[q] = first[q]
       /\ broke'[q] = broke[q] /\ gone'[q] = gone[q] /\ log'[q] = log[q]

\* It is enough that a step keeps the types and what is said of its request.
LEMMA RelayKeeps ==
  ASSUME AnswerInv, NEW r \in Requests, Aside(r),
         pc' \in [Requests -> {"route", "connect", "relay", "reply502", "log", "done"} \cup Picking],
         out' \in [Requests -> Seq({"ok", "502"})], first' \in [Requests -> BOOLEAN],
         gone' \in [Requests -> BOOLEAN], broke' \in [Requests -> BOOLEAN],
         Answered(r)', Routed(r)'
  PROVE  AnswerInv'
<1> USE DEF AnswerInv
<1>1. UNCHANGED <<counter, loaded, backend, mixed, last>>
  BY DEF Aside, pickVars
<1>2. Typing'
  BY <1>1 DEF Aside, Typing
<1>3. \A q \in Requests \ {r} : Answered(q)' /\ Routed(q)'
  BY <1>1, OthersKeep DEF Aside
<1> QED BY <1>2, <1>3

\* Every step of the relay keeps the invariant.
LEMMA RelayStepsKeep ==
  ASSUME AnswerInv, NEW r \in Requests,
         \/ Unreachable(r) \/ RelayHead(r) \/ Chunk(r) \/ Eof(r) \/ Break(r)
         \/ Reply502(r) \/ Log(r) \/ HangUp(r)
  PROVE  AnswerInv'
<1> USE DEF AnswerInv, Goto
<1> DEFINE Codes == {"route", "connect", "relay", "reply502", "log", "done"} \cup Picking
<1>1. /\ pc \in [Requests -> Codes] /\ out \in [Requests -> Seq({"ok", "502"})]
      /\ first \in [Requests -> BOOLEAN] /\ gone \in [Requests -> BOOLEAN]
      /\ broke \in [Requests -> BOOLEAN] /\ DOMAIN log = Requests
  BY DEF Typing
<1>2. Answered(r) /\ Routed(r)
  OBVIOUS
<1>3. \A s \in Seq({"ok", "502"}) :
        /\ Append(s, "ok") \in Seq({"ok", "502"}) /\ Append(s, "502") \in Seq({"ok", "502"})
  OBVIOUS
<1>4. CASE Unreachable(r)
  <2>1. Aside(r)
    BY <1>1, <1>4 DEF Unreachable, answerVars, Aside
  <2>2. Answered(r)' /\ Routed(r)'
    BY <1>1, <1>2, <1>4 DEF Unreachable, answerVars, pickVars, Answered, Routed, Picking
  <2> QED BY <1>1, <1>4, <2>1, <2>2, RelayKeeps DEF Unreachable, answerVars
<1>5. CASE RelayHead(r)
  <2>1. Aside(r)
    BY <1>1, <1>5 DEF RelayHead, Aside
  <2>2. CASE out' = [out EXCEPT ![r] = Append(@, "ok")] /\ pc' = [pc EXCEPT ![r] = "relay"]
    <3>1. pc[r] = "connect" /\ out[r] = << >>
      BY <1>2, <1>5 DEF RelayHead, Answered
    <3>2. Append(<< >>, "ok") = <<"ok">>
      OBVIOUS
    <3>3. out'[r] = <<"ok">> /\ pc'[r] = "relay"
      BY <1>1, <2>2, <3>1, <3>2
    <3>4. Answered(r)' /\ Routed(r)'
      BY <1>2, <1>5, <3>1, <3>3 DEF RelayHead, pickVars, Answered, Routed, Picking
    <3>5. out' \in [Requests -> Seq({"ok", "502"})]
      BY <1>1, <1>3, <2>2
    <3> QED BY <1>1, <1>5, <2>1, <2>2, <3>4, <3>5, RelayKeeps DEF RelayHead
  <2>3. CASE pc' = [pc EXCEPT ![r] = "reply502"] /\ out' = out
    <3>1. Answered(r)' /\ Routed(r)'
      BY <1>1, <1>2, <1>5, <2>3 DEF RelayHead, pickVars, Answered, Routed, Picking
    <3> QED BY <1>1, <1>5, <2>1, <2>3, <3>1, RelayKeeps DEF RelayHead
  <2> QED BY <1>5, <2>2, <2>3 DEF RelayHead
<1>6. CASE Chunk(r)
  <2>1. Aside(r) /\ pc' \in [Requests -> Codes]
    BY <1>1, <1>6 DEF Chunk, Aside
  <2>2. Answered(r)' /\ Routed(r)'
    BY <1>1, <1>2, <1>6 DEF Chunk, pickVars, Answered, Routed, Picking
  <2> QED BY <1>1, <1>6, <2>1, <2>2, RelayKeeps DEF Chunk
<1>7. CASE Eof(r)
  <2>1. Aside(r)
    BY <1>1, <1>7 DEF Eof, answerVars, Aside
  <2>2. Answered(r)' /\ Routed(r)'
    BY <1>1, <1>2, <1>7 DEF Eof, answerVars, pickVars, Answered, Routed, Picking
  <2> QED BY <1>1, <1>7, <2>1, <2>2, RelayKeeps DEF Eof, answerVars
<1>8. CASE Break(r)
  <2>1. Aside(r) /\ pc' \in [Requests -> Codes]
    BY <1>1, <1>8 DEF Break, AfterBreak, Aside
  <2>2. broke' \in [Requests -> BOOLEAN]
    BY <1>1, <1>8 DEF Break
  <2>3. pc[r] = "relay" /\ out[r] = <<"ok">> /\ ~broke[r] /\ out' = out /\ first' = first
        /\ gone' = gone
    BY <1>2, <1>8 DEF Break, Answered
  <2>4. broke'[r] = ~first[r] /\ pc'[r] = IF first[r] THEN "log" ELSE "reply502"
    BY <1>1, <1>8, <2>3 DEF Break, AfterBreak
  <2>5. Answered(r)'
    BY <2>3, <2>4 DEF Answered, Picking
  <2>6. Routed(r)'
    BY <1>2, <1>8, <2>4 DEF Break, pickVars, Routed, Picking
  <2> QED BY <1>1, <1>8, <2>1, <2>2, <2>5, <2>6, RelayKeeps DEF Break
<1>9. CASE Reply502(r)
  <2>1. Aside(r) /\ pc' \in [Requests -> Codes]
    BY <1>1, <1>9 DEF Reply502, Aside
  <2>2. out' \in [Requests -> Seq({"ok", "502"})]
    BY <1>1, <1>3, <1>9 DEF Reply502
  <2>3. pc[r] = "reply502" /\ ~first[r] /\ first' = first /\ broke' = broke /\ gone' = gone
        /\ pc'[r] = "log"
    BY <1>1, <1>2, <1>9 DEF Reply502, Answered
  <2>4. ~gone[r] => Len(out'[r]) = IF broke[r] THEN 2 ELSE 1
    <3>1. Len(Append(<< >>, "502")) = 1 /\ Len(Append(<<"ok">>, "502")) = 2
      OBVIOUS
    <3> QED BY <1>1, <1>2, <1>9, <3>1 DEF Reply502, Answered
  <2>5. Answered(r)'
    BY <2>3, <2>4 DEF Answered, Picking
  <2>6. Routed(r)'
    BY <1>2, <1>9, <2>3 DEF Reply502, pickVars, Routed, Picking
  <2> QED BY <1>1, <1>9, <2>1, <2>2, <2>5, <2>6, RelayKeeps DEF Reply502
<1>10. CASE Log(r)
  <2>1. Aside(r) /\ pc' \in [Requests -> Codes]
    BY <1>1, <1>10 DEF Log, Aside
  <2>2. Answered(r)' /\ Routed(r)'
    BY <1>1, <1>2, <1>10 DEF Log, pickVars, Answered, Routed, Picking
  <2> QED BY <1>1, <1>10, <2>1, <2>2, RelayKeeps DEF Log
<1>11. CASE HangUp(r)
  <2>1. Aside(r) /\ gone' \in [Requests -> BOOLEAN]
    BY <1>1, <1>11 DEF HangUp, Aside
  <2>2. Answered(r)' /\ Routed(r)'
    BY <1>1, <1>2, <1>11 DEF HangUp, pickVars, Answered, Routed, Picking
  <2> QED BY <1>1, <1>11, <2>1, <2>2, RelayKeeps DEF HangUp
<1> QED BY <1>4, <1>5, <1>6, <1>7, <1>8, <1>9, <1>10, <1>11

\* Threads keep the invariant, each on its own.
LEMMA AnswersKeep == AnswerInv /\ [Next]_prefixVars => AnswerInv'
<1> SUFFICES ASSUME AnswerInv, [Next]_prefixVars PROVE AnswerInv'
  OBVIOUS
<1>1. ASSUME NEW r \in Requests, Route(r) \/ Load(r) \/ Store(r) \/ Read(r) PROVE AnswerInv'
  BY <1>1, PickingKeepsAnswers
<1>2. ASSUME NEW r \in Requests,
             \/ Unreachable(r) \/ RelayHead(r) \/ Chunk(r) \/ Eof(r) \/ Break(r)
             \/ Reply502(r) \/ Log(r) \/ HangUp(r)
      PROVE AnswerInv'
  BY <1>2, RelayStepsKeep
<1>3. CASE UNCHANGED prefixVars
  <2>1. Typing'
    BY <1>3 DEF prefixVars, AnswerInv, Typing
  <2>2. \A r \in Requests : Answered(r)' /\ Routed(r)'
    BY <1>3, OthersKeep DEF prefixVars, AnswerInv
  <2> QED BY <2>1, <2>2 DEF AnswerInv
<1> QED BY <1>1, <1>2, <1>3 DEF Next

\* The invariant holds of every reachable state.
LEMMA AnswerInvariant == Spec => []AnswerInv
BY AnswersStart, AnswersKeep, PTL DEF Spec

-----------------------------------------------------------------------------
(* Remainders *)

\* Multiples of a number lie that number apart.
LEMMA MultiplesApart ==
  ASSUME NEW n \in Nat, NEW i \in Nat, NEW j \in Nat, i < j
  PROVE  n * i + n <= n * j
<1>1. n * (j - i - 1) >= 0
  <2>1. j - i - 1 \in Nat
    OBVIOUS
  <2> QED BY <2>1
<1>2. n * (j - i - 1) = n * j - n * i - n
  OBVIOUS
<1> QED BY <1>1, <1>2

\* There is one way to write a number as a multiple and a remainder.
LEMMA OneRemainder ==
  ASSUME NEW x \in Nat, NEW n \in Nat \ {0}, NEW i \in Nat, NEW m \in 0..n - 1, x = n * i + m
  PROVE  x % n = m
<1> DEFINE j == x \div n
           l == x % n
<1>1. j \in Nat /\ l \in 0..n - 1 /\ x = n * j + l
  BY Z3
<1> HIDE DEF j, l
<1>2. ~(j < i) /\ ~(i < j)
  BY <1>1, MultiplesApart
<1>3. i = j
  BY <1>1, <1>2
<1>4. m = l
  BY <1>1, <1>3
<1> QED BY <1>4 DEF l

\* The next number has the next remainder.
LEMMA NextTurn ==
  ASSUME NEW x \in Nat
  PROVE  Turn(x) \in Places /\ Turn(Bumped(x)) = Turn(Turn(x) + 1)
<1> DEFINE n == Backends
           j == x \div n
           l == x % n
<1>1. n \in Nat \ {0}
  BY PrefixConstants
<1> HIDE DEF n
<1>2. j \in Nat /\ l \in 0..n - 1 /\ x = n * j + l
  BY <1>1, Z3
<1> HIDE DEF j, l
<1>3. CASE l < n - 1
  <2>1. (x + 1) % n = l + 1
    <3>1. l + 1 \in 0..n - 1 /\ x + 1 \in Nat /\ x + 1 = n * j + (l + 1)
      BY <1>1, <1>2, <1>3
    <3> QED BY <1>1, <1>2, <3>1, OneRemainder
  <2>2. (l + 1) % n = l + 1
    <3>1. l + 1 \in 0..n - 1 /\ l + 1 \in Nat /\ l + 1 = n * 0 + (l + 1)
      BY <1>1, <1>2, <1>3
    <3> QED BY <1>1, <3>1, OneRemainder
  <2> QED BY <1>2, <2>1, <2>2 DEF Turn, Bumped, Places, n, l
<1>4. CASE l = n - 1
  <2>1. (x + 1) % n = 0
    <3>1. 0 \in 0..n - 1 /\ x + 1 \in Nat /\ j + 1 \in Nat /\ x + 1 = n * (j + 1) + 0
      BY <1>1, <1>2, <1>4
    <3> QED BY <1>1, <3>1, OneRemainder
  <2>2. (l + 1) % n = 0
    <3>1. 0 \in 0..n - 1 /\ l + 1 \in Nat /\ l + 1 = n * 1 + 0
      BY <1>1, <1>2, <1>4
    <3> QED BY <1>1, <3>1, OneRemainder
  <2> QED BY <1>2, <2>1, <2>2 DEF Turn, Bumped, Places, n, l
<1> QED BY <1>1, <1>2, <1>3, <1>4

-----------------------------------------------------------------------------
(* Taking turns *)

\* Two who pick at the same moment are both marked.
Marked ==
  \A q, r \in Requests : q # r /\ pc[q] \in Picking /\ pc[r] \in Picking => mixed[q]

\* After a pick alone the counter stands at that pick, whoever races later, and
\* the next to pick alone moves it by one.
Counting ==
  last.alone =>
    /\ (\A r \in Requests : pc[r] \notin Picking) => Turn(counter) = last.backend
    /\ \A r \in Requests : pc[r] \in Picking /\ ~mixed[r] =>
         /\ pc[r] \in {"load", "store"} => Turn(counter) = last.backend
         /\ pc[r] = "store" => loaded[r] = counter
         /\ pc[r] = "read" => Turn(counter) = Turn(last.backend + 1)

TurnInv == Marked /\ Counting

\* The first request without a prefix starts from backend 0.
LEMMA TurnsStart == Init => TurnInv
<1> SUFFICES ASSUME Init PROVE TurnInv
  OBVIOUS
<1>1. Turn(0) = 0
  <2>1. 0 \in 0..Backends - 1 /\ 0 = Backends * 0 + 0
    BY PrefixConstants
  <2> QED BY <2>1, OneRemainder, PrefixConstants DEF Turn
<1>2. \A r \in Requests : pc[r] \notin Picking
  BY DEF Init, Picking
<1> QED BY <1>1, <1>2 DEF Init, TurnInv, Marked, Counting

\* Who is not picking does not disturb the counter.
LEMMA AsideKeepsTurns ==
  ASSUME Typing, TurnInv, NEW r \in Requests, pc[r] \notin Picking, pc'[r] \notin Picking,
         \A q \in Requests \ {r} : pc'[q] = pc[q],
         UNCHANGED <<counter, loaded, mixed, last>>
  PROVE  TurnInv'
<1>1. \A q \in Requests : pc'[q] \in Picking => pc[q] \in Picking /\ pc'[q] = pc[q]
  OBVIOUS
<1>2. \A q \in Requests : pc[q] \in Picking => pc'[q] = pc[q]
  OBVIOUS
<1>3. Marked'
  BY <1>1 DEF TurnInv, Marked
<1>4. Counting'
  BY <1>1, <1>2 DEF TurnInv, Counting
<1> QED BY <1>3, <1>4 DEF TurnInv

\* The three steps of a pick, and coming to it.
LEMMA PickKeepsTurns ==
  ASSUME Typing, TurnInv, NEW r \in Requests,
         (BeginPick(r) /\ pc[r] = "route") \/ Load(r) \/ Store(r) \/ Read(r)
  PROVE  TurnInv'
<1> USE DEF TurnInv, Goto
<1>1. CASE BeginPick(r) /\ pc[r] = "route"
  <2> DEFINE others == {q \in Requests : pc[q] \in Picking}
  <2>1. /\ pc[r] = "route" /\ pc'[r] = "load"
        /\ \A q \in Requests \ {r} : pc'[q] = pc[q]
        /\ mixed'[r] = (others # {})
        /\ \A q \in Requests \ {r} : mixed'[q] = (mixed[q] \/ q \in others)
        /\ counter' = counter /\ loaded' = loaded /\ last' = last
    BY <1>1 DEF BeginPick, Typing
  <2>2. \A q \in Requests : q # r /\ pc'[q] \in Picking => mixed'[q] /\ mixed'[r]
    BY <2>1
  <2>3. Marked'
    BY <2>2 DEF Marked
  <2>4. ~mixed'[r] => \A q \in Requests : pc[q] \notin Picking
    BY <2>1
  <2>5. Counting'
    BY <2>1, <2>2, <2>4 DEF Counting, Picking
  <2> QED BY <2>3, <2>5
<1>2. CASE Load(r)
  <2>1. /\ pc[r] = "load" /\ pc'[r] = "store" /\ loaded'[r] = counter
        /\ \A q \in Requests \ {r} : pc'[q] = pc[q]
        /\ \A q \in Requests \ {r} : loaded'[q] = loaded[q]
        /\ counter' = counter /\ mixed' = mixed /\ last' = last
    BY <1>2 DEF Load, Typing
  <2>2. Marked'
    BY <2>1 DEF Marked, Picking
  <2>3. Counting'
    BY <2>1 DEF Counting, Picking
  <2> QED BY <2>2, <2>3
<1>3. CASE Store(r)
  <2>1. /\ pc[r] = "store" /\ pc'[r] = "read" /\ counter' = Bumped(loaded[r])
        /\ \A q \in Requests \ {r} : pc'[q] = pc[q]
        /\ loaded' = loaded /\ mixed' = mixed /\ last' = last
    BY <1>3 DEF Store, Typing
  <2>2. Marked'
    BY <2>1 DEF Marked, Picking
  <2>3. \A q \in Requests : q # r /\ pc[q] \in Picking => mixed[q]
    BY <2>1 DEF Marked, Picking
  <2>4. last.alone /\ ~mixed[r] => Turn(counter') = Turn(last.backend + 1)
    BY <2>1, NextTurn DEF Counting, Typing, Picking
  <2>5. Counting'
    BY <2>1, <2>3, <2>4 DEF Counting, Picking
  <2> QED BY <2>2, <2>5
<1>4. CASE Read(r)
  <2>1. /\ pc[r] = "read" /\ pc'[r] = "connect"
        /\ \A q \in Requests \ {r} : pc'[q] = pc[q]
        /\ last'.backend = Turn(counter) /\ last'.alone = ~mixed[r]
        /\ counter' = counter /\ mixed' = mixed
    BY <1>4 DEF Read, Typing
  <2>2. Marked'
    BY <2>1 DEF Marked, Picking
  <2>3. ~mixed[r] => \A q \in Requests : pc'[q] \notin Picking
    BY <2>1 DEF Marked, Picking
  <2>4. Counting'
    BY <2>1, <2>3 DEF Counting
  <2> QED BY <2>2, <2>4
<1> QED BY <1>1, <1>2, <1>3, <1>4

\* Every step keeps the count.
LEMMA TurnsKeep == AnswerInv /\ TurnInv /\ [Next]_prefixVars => TurnInv'
<1> SUFFICES ASSUME AnswerInv, TurnInv, [Next]_prefixVars PROVE TurnInv'
  OBVIOUS
<1>1. Typing
  BY DEF AnswerInv
<1>2. ASSUME NEW r \in Requests, Route(r) PROVE TurnInv'
  <2>1. CASE BeginPick(r)
    BY <1>1, <1>2, <2>1, PickKeepsTurns DEF Route
  <2>2. CASE ~BeginPick(r)
    <3>1. pc[r] \notin Picking /\ pc'[r] \notin Picking
      BY <1>1, <1>2, <2>2 DEF Route, Goto, Picking, Typing
    <3>2. /\ \A q \in Requests \ {r} : pc'[q] = pc[q]
          /\ UNCHANGED <<counter, loaded, mixed, last>>
      BY <1>1, <1>2, <2>2 DEF Route, Goto, pickVars, Typing
    <3> QED BY <1>1, <3>1, <3>2, AsideKeepsTurns
  <2> QED BY <2>1, <2>2
<1>3. ASSUME NEW r \in Requests, Load(r) \/ Store(r) \/ Read(r) PROVE TurnInv'
  BY <1>1, <1>3, PickKeepsTurns
<1>4. ASSUME NEW r \in Requests,
             \/ Unreachable(r) \/ RelayHead(r) \/ Chunk(r) \/ Eof(r) \/ Break(r)
             \/ Reply502(r) \/ Log(r)
      PROVE TurnInv'
  <2>1. pc[r] \notin Picking /\ pc'[r] \notin Picking
    BY <1>1, <1>4
    DEF Unreachable, RelayHead, Chunk, Eof, Break, AfterBreak, Reply502, Log, Goto, Picking, Typing
  <2>2. /\ \A q \in Requests \ {r} : pc'[q] = pc[q]
        /\ UNCHANGED <<counter, loaded, mixed, last>>
    BY <1>1, <1>4
    DEF Unreachable, RelayHead, Chunk, Eof, Break, Reply502, Log, Goto, pickVars, Typing
  <2> QED BY <1>1, <2>1, <2>2, AsideKeepsTurns
<1>5. ASSUME NEW r \in Requests, HangUp(r) PROVE TurnInv'
  BY <1>5 DEF HangUp, pickVars, TurnInv, Marked, Counting
<1>6. CASE UNCHANGED prefixVars
  BY <1>6 DEF prefixVars, TurnInv, Marked, Counting
<1> QED BY <1>2, <1>3, <1>4, <1>5, <1>6 DEF Next

-----------------------------------------------------------------------------
(* What a reader may rely on *)

\* A request that ends has one line, which is true of it, and its client one
\* head, or the 502 in the body that do_POST writes when the backend breaks off
\* before its first chunk.
THEOREM PrefixAnswers == Spec => []OneLineOneAnswer
<1>1. AnswerInv => OneLineOneAnswer
  <2> SUFFICES ASSUME AnswerInv, NEW r \in Requests, pc[r] = "done", KeyOf[r] # Malformed
               PROVE  /\ log[r] # NoLine
                      /\ KeyOf[r] \in Keys => log[r].backend = Home[KeyOf[r]]
                      /\ log[r].ttft => out[r] = <<"ok">>
                      /\ ~gone[r] => Len(out[r]) = IF broke[r] THEN 2 ELSE 1
    BY DEF OneLineOneAnswer
  <2>1. Answered(r) /\ Routed(r) /\ backend[r] \in Places /\ first[r] \in BOOLEAN
    BY DEF AnswerInv, Typing
  <2>2. log[r] = [backend |-> backend[r], ttft |-> first[r]]
    BY <2>1 DEF Routed
  <2>3. log[r] \in [backend : 0..Backends - 1, ttft : BOOLEAN]
    BY <2>1, <2>2 DEF Places
  <2>4. log[r] # NoLine
    BY <2>3, PrefixConstants
  <2>5. log[r].backend = backend[r] /\ log[r].ttft = first[r]
    BY <2>2
  <2> QED BY <2>1, <2>4, <2>5 DEF Answered, Routed
<1> QED BY <1>1, AnswerInvariant, PTL

\* The unlocked rr_counter takes turns again as soon as nobody races for it.
THEOREM PrefixTurns == Spec => TakesTurns
<1>1. AnswerInv /\ TurnInv /\ [Next]_prefixVars
        => [\A r \in Requests :
              pc[r] = "read" /\ pc'[r] = "connect" /\ last.alone /\ ~mixed[r] =>
                backend'[r] = (last.backend + 1) % Backends]_prefixVars
  <2> SUFFICES ASSUME AnswerInv, TurnInv, [Next]_prefixVars, NEW r \in Requests,
                      pc[r] = "read", pc'[r] = "connect", last.alone, ~mixed[r]
               PROVE  backend'[r] = (last.backend + 1) % Backends
    OBVIOUS
  <2>1. Typing
    BY DEF AnswerInv
  <2>2. Read(r)
    BY <2>1 DEF Next, Route, BeginPick, Load, Store, Read, Unreachable, RelayHead, Chunk, Eof,
                Break, Reply502, Log, HangUp, Goto, prefixVars, pickVars, Typing
  <2>3. backend'[r] = Turn(counter)
    BY <2>1, <2>2 DEF Read, Typing
  <2>4. Turn(counter) = Turn(last.backend + 1)
    BY DEF TurnInv, Counting, Picking
  <2> QED BY <2>3, <2>4 DEF Turn
<1>2. Spec => []TurnInv
  BY TurnsStart, TurnsKeep, AnswerInvariant, PTL DEF Spec
<1> QED BY <1>1, <1>2, AnswerInvariant, PTL DEF Spec, TakesTurns

\* The types of the proxy's threads.
THEOREM PrefixTyping == Spec => []PrefixTypeOK
<1> DEFINE Logged == log \in [Requests -> Lines \cup {NoLine}]
<1>1. Init => Logged
  BY DEF Init
<1>2. AnswerInv /\ Logged /\ [Next]_prefixVars => Logged'
  <2> SUFFICES ASSUME AnswerInv, Logged, [Next]_prefixVars PROVE Logged'
    OBVIOUS
  <2>1. ASSUME NEW r \in Requests, Log(r) PROVE Logged'
    <3>1. [backend |-> backend[r], ttft |-> first[r]] \in Lines
      BY DEF AnswerInv, Typing, Lines
    <3> QED BY <2>1, <3>1 DEF Log
  <2>2. ASSUME NEW r \in Requests, ~Log(r),
               \/ Route(r) \/ Load(r) \/ Store(r) \/ Read(r)
               \/ Unreachable(r) \/ RelayHead(r) \/ Chunk(r) \/ Eof(r) \/ Break(r)
               \/ Reply502(r) \/ HangUp(r)
        PROVE  Logged'
    BY <2>2 DEF Route, Load, Store, Read, Unreachable, RelayHead, Chunk, Eof, Break, Reply502,
                HangUp, answerVars
  <2>3. CASE UNCHANGED prefixVars
    BY <2>3 DEF prefixVars
  <2> QED BY <2>1, <2>2, <2>3 DEF Next
<1>3. AnswerInv /\ Logged => PrefixTypeOK
  BY DEF AnswerInv, Typing, PrefixTypeOK
<1> QED BY <1>1, <1>2, <1>3, AnswerInvariant, PTL DEF Spec
=============================================================================
