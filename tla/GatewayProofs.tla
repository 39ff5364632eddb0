--------------------------- MODULE GatewayProofs ---------------------------
(***************************************************************************)
(* Theorems about Gateway, for every set of requests, every SLO, head and  *)
(* body length, with a fallback or without; then how long a client waits   *)
(* at most (GatewayDeadline), for which the same invariant is kept with    *)
(* the client's clock beside it.                                           *)
(***************************************************************************)
EXTENDS GatewayDeadline, TLAPS

(***************************************************************************)
(* The inductive invariant, request by request.                            *)
(***************************************************************************)

\* The thread waits for the backend of an attempt, or writes what it sent.
Attempting == Waiting \cup {"send", "relay"}

\* Where the thread is fixes what leg and log can be.
Place(r) ==
  /\ pc[r] \in Attempting => leg[r] \in Legs
  /\ pc[r] \in {"limiter", "reply429", "reply503"} => leg[r] = "none"
  /\ leg[r] = "fallback" => HasFallback
  /\ pc[r] \in Attempting \cup {"limiter", "reply503", "log"} =>
       log[r] = NoEntry
  /\ pc[r] = "reply429" => log[r] # NoEntry /\ log[r].route = "rate_limited"
  /\ log[r] = NoEntry /\ pc[r] = "done" => gone[r]

\* The failures so far are those that lead to the present leg.
History(r) ==
  /\ pc[r] \in {"limiter", "reply429"} => fails[r] = << >>
  /\ leg[r] = "primary" => fails[r] = << >>
  /\ leg[r] = "retry" => Len(fails[r]) = 1 /\ Exception(fails[r][1]) = "conn"
  /\ leg[r] = "fallback" \/ pc[r] = "reply503" => PrimaryGivenUp(fails[r])
  /\ leg[r] = "fallback" => (reason[r] = "breach" <=> Occurs("breach", fails[r]))

\* What a client that is still there and saw no stream break has received.
Received(r) ==
  /\ Occurs("hangup", fails[r]) => gone[r]
  /\ ~gone[r] /\ ~Occurs("broken", fails[r]) =>
       /\ pc[r] \in {"limiter", "reply429", "connect", "head", "send", "reply503"} =>
            out[r] = << >>
       /\ pc[r] \in {"relay", "stream", "log", "done"} => Len(out[r]) = 1
  /\ pc[r] = "done" /\ ~gone[r] => Len(out[r]) >= 1

\* The last head sent is that of the leg being served, or the 503.
Sent(r) ==
  /\ pc[r] \in {"relay", "stream", "log"} =>
       /\ out[r] # << >>
       /\ LastOf(out[r]) = IF leg[r] = "none" THEN "503" ELSE leg[r]
  /\ log[r] # NoEntry /\ log[r].route # "rate_limited" =>
       /\ pc[r] = "done" /\ out[r] # << >>
       /\ log[r].route = RouteOf(LastOf(out[r]))
       /\ log[r].breach <=> (log[r].route = "error" \/ Occurs("breach", fails[r]))

GatewayInv ==
  TypeOK /\ \A r \in Requests : Place(r) /\ History(r) /\ Received(r) /\ Sent(r)

\* The steps of one request leave the others alone.
Untouched(r) ==
  /\ pc'[r] = pc[r] /\ leg'[r] = leg[r] /\ reason'[r] = reason[r]
  /\ out'[r] = out[r] /\ gone'[r] = gone[r] /\ fails'[r] = fails[r]
  /\ log'[r] = log[r]

\* The invariant of a request holds again when nothing it speaks of changed.
LEMMA UntouchedKeeps ==
  ASSUME NEW r \in Requests, Place(r), History(r), Received(r), Sent(r), Untouched(r)
  PROVE  Place(r)' /\ History(r)' /\ Received(r)' /\ Sent(r)'
<1>1. Place(r)' BY DEF Place, Untouched
<1>2. History(r)' BY DEF History, Untouched, PrimaryGivenUp, Occurs
<1>3. Received(r)' BY DEF Received, Untouched, Occurs
<1>4. Sent(r)' BY DEF Sent, Untouched, Occurs, LastOf, RouteOf
<1> QED BY <1>1, <1>2, <1>3, <1>4

\* Appending to a sequence.
LEMMA AppendFacts ==
  ASSUME NEW S, NEW s \in Seq(S), NEW x \in S
  PROVE  /\ Append(s, x) \in Seq(S) /\ Append(s, x) # << >>
         /\ Len(Append(s, x)) = Len(s) + 1 /\ Len(s) \in Nat
         /\ LastOf(Append(s, x)) = x
         /\ \A y : Occurs(y, Append(s, x)) <=> (y = x \/ Occurs(y, s))
         /\ \A i \in 1..Len(s) : Append(s, x)[i] = s[i]
         /\ Append(s, x)[Len(s) + 1] = x
<1>1. /\ Append(s, x) \in Seq(S) /\ Len(Append(s, x)) = Len(s) + 1 /\ Len(s) \in Nat
      /\ \A i \in 1..Len(s) : Append(s, x)[i] = s[i]
      /\ Append(s, x)[Len(s) + 1] = x
  OBVIOUS
<1>2. Append(s, x) # << >> BY <1>1
<1>3. LastOf(Append(s, x)) = x BY <1>1 DEF LastOf
<1>4. DOMAIN s = 1..Len(s) /\ DOMAIN Append(s, x) = 1..(Len(s) + 1)
  BY <1>1
<1>5. ASSUME NEW y PROVE Occurs(y, Append(s, x)) <=> (y = x \/ Occurs(y, s))
  <2>1. 1..(Len(s) + 1) = 1..Len(s) \cup {Len(s) + 1} BY <1>1
  <2> QED BY <1>1, <1>4, <2>1 DEF Occurs
<1> QED BY <1>1, <1>2, <1>3, <1>5

(***************************************************************************)
(* Opening the next attempt, and failing one.                              *)
(***************************************************************************)

LEMMA AttemptTypes ==
  ASSUME TypeOK, NEW r \in Requests, NEW l \in Legs, Attempt(r, l)
  PROVE  /\ pc' = [pc EXCEPT ![r] = "connect"] /\ leg' = [leg EXCEPT ![r] = l]
         /\ pc' \in [Requests -> Waiting \cup AtClient \cup {"log", "done"}]
         /\ leg' \in [Requests -> Legs \cup {"none"}]
         /\ age' \in [Requests -> 0..Saturated]
         /\ quiet' \in [Requests -> 0..Saturated]
         /\ firstAge' \in [Requests -> {NoChunk} \cup 0..Saturated]
         /\ got' \in [Requests -> 0..MaxChunks]
         /\ status' \in [Requests -> {"none", "ok", "4xx"}]
<1>1. 0 \in 0..Saturated /\ 0 \in 0..MaxChunks
  BY GatewayConstants DEF Saturated
<1> QED BY <1>1 DEF TypeOK, Attempt, Waiting

\* A failed attempt of a thread that waits for its backend or writes to its client.
LEMMA FailKeeps ==
  ASSUME GatewayInv, NEW r \in Requests, NEW cause \in Causes, Fail(r, cause),
         pc[r] \in Attempting,
         pc[r] \in {"relay", "stream"} => cause \in {"broken", "hangup"},
         cause = "hangup" => gone[r]
  PROVE  GatewayInv'
<1>0. /\ TypeOK /\ Place(r) /\ History(r) /\ Received(r) /\ Sent(r)
      /\ leg[r] \in Legs /\ log[r] = NoEntry
  BY DEF GatewayInv, Place
<1> DEFINE next == NextLeg(leg[r], Exception(cause))
           f == Append(fails[r], cause)
<1>1. /\ fails' = [fails EXCEPT ![r] = f]
      /\ reason' = [reason EXCEPT ![r] = IF leg[r] = "fallback" THEN reason[r]
                                         ELSE Exception(cause)]
      /\ out' = out /\ gone' = gone /\ stuck' = stuck /\ log' = log
  BY DEF Fail
<1>2. /\ fails[r] \in Seq(Causes) /\ f \in Seq(Causes)
      /\ Len(f) = Len(fails[r]) + 1 /\ Len(fails[r]) \in Nat
      /\ \A y : Occurs(y, f) <=> (y = cause \/ Occurs(y, fails[r]))
      /\ \A i \in 1..Len(fails[r]) : f[i] = fails[r][i]
      /\ f[Len(fails[r]) + 1] = cause
  <2>1. fails[r] \in Seq(Causes) BY <1>0 DEF TypeOK
  <2> QED BY <2>1, AppendFacts
<1>3. \/ next \in Legs /\ Attempt(r, next)
      \/ /\ next = "none"
         /\ pc' = [pc EXCEPT ![r] = "reply503"]
         /\ leg' = [leg EXCEPT ![r] = "none"]
         /\ UNCHANGED <<age, quiet, firstAge, got, status>>
  BY DEF Fail, NextLeg, Legs
<1>4. Exception(cause) \in {"conn", "5xx", "breach"}
  BY DEF Exception, Causes
<1>5. TypeOK'
  <2>1. fails' \in [Requests -> Seq(Causes)] BY <1>0, <1>1, <1>2 DEF TypeOK
  <2>2. reason' \in [Requests -> {"none", "conn", "5xx", "breach"}]
    BY <1>0, <1>1, <1>4 DEF TypeOK
  <2>3. CASE next \in Legs /\ Attempt(r, next)
    BY <1>0, <1>1, <2>1, <2>2, <2>3, AttemptTypes DEF TypeOK
  <2>4. CASE /\ pc' = [pc EXCEPT ![r] = "reply503"]
             /\ leg' = [leg EXCEPT ![r] = "none"]
             /\ UNCHANGED <<age, quiet, firstAge, got, status>>
    BY <1>0, <1>1, <2>1, <2>2, <2>4 DEF TypeOK, AtClient
  <2> QED BY <1>3, <2>3, <2>4
<1>6. /\ fails'[r] = f /\ out'[r] = out[r] /\ gone'[r] = gone[r] /\ log'[r] = NoEntry
      /\ reason'[r] = IF leg[r] = "fallback" THEN reason[r] ELSE Exception(cause)
      /\ \/ next \in Legs /\ pc'[r] = "connect" /\ leg'[r] = next
         \/ next = "none" /\ pc'[r] = "reply503" /\ leg'[r] = "none"
  BY <1>0, <1>1, <1>3 DEF TypeOK, Attempt
<1>7. Place(r)'
  <2>1. next = "fallback" => HasFallback BY DEF NextLeg
  <2> QED BY <1>6, <2>1 DEF Place, Attempting, Waiting, Legs
<1>8. History(r)'
  <2>1. CASE leg[r] = "primary"
    <3>1. fails[r] = << >> BY <1>0, <2>1 DEF History
    <3>2. Len(f) = 1 /\ f[1] = cause BY <1>2, <3>1
    <3>3. ~Occurs("breach", fails[r]) BY <3>1 DEF Occurs
    <3>4. Exception(cause) = "breach" <=> cause = "breach" BY DEF Exception, Causes
    <3>5. Occurs("breach", f) <=> cause = "breach" BY <1>2, <3>3
    <3>6. next = "retry" <=> Exception(cause) = "conn" BY <2>1 DEF NextLeg
    <3>7. next # "primary" BY DEF NextLeg
    <3> HIDE DEF f, next
    <3> QED BY <1>6, <2>1, <3>2, <3>4, <3>5, <3>6, <3>7, <1>4
         DEF History, PrimaryGivenUp, Legs
  <2>2. CASE leg[r] = "retry"
    <3>1. Len(fails[r]) = 1 /\ Exception(fails[r][1]) = "conn" BY <1>0, <2>2 DEF History
    <3>2. Len(f) = 2 /\ f[1] = fails[r][1] BY <1>2, <3>1
    <3>3. ~Occurs("breach", fails[r]) BY <3>1, <1>2 DEF Occurs, Exception
    <3>4. Exception(cause) = "breach" <=> cause = "breach" BY DEF Exception, Causes
    <3>5. Occurs("breach", f) <=> cause = "breach" BY <1>2, <3>3
    <3>6. next \in {"fallback", "none"} BY <2>2 DEF NextLeg
    <3> HIDE DEF f, next
    <3> QED BY <1>6, <2>2, <3>1, <3>2, <3>4, <3>5, <3>6 DEF History, PrimaryGivenUp, Legs
  <2>3. CASE leg[r] = "fallback"
    <3>1. PrimaryGivenUp(fails[r]) BY <1>0, <2>3 DEF History
    <3>2. PrimaryGivenUp(f) BY <1>2, <3>1 DEF PrimaryGivenUp
    <3>3. next = "none" BY <2>3 DEF NextLeg
    <3> HIDE DEF f, next
    <3> QED BY <1>6, <3>2, <3>3 DEF History, Legs
  <2> QED BY <1>0, <2>1, <2>2, <2>3 DEF Legs
<1>9. Received(r)'
  <2>1. Occurs("hangup", f) => gone[r] BY <1>0, <1>2 DEF Received
  <2>2. ~gone[r] /\ ~Occurs("broken", f) => out[r] = << >>
    <3>1. SUFFICES ASSUME ~gone[r], ~Occurs("broken", f) PROVE out[r] = << >>
      OBVIOUS
    <3>2. ~Occurs("broken", fails[r]) /\ cause # "broken" BY <1>2, <3>1
    <3>3. pc[r] \in {"connect", "head", "send"}
      BY <3>1, <3>2, <1>0 DEF Attempting, Waiting, Received
    <3> QED BY <1>0, <3>1, <3>2, <3>3 DEF Received
  <2> HIDE DEF f, next
  <2> QED BY <1>6, <2>1, <2>2 DEF Received
<1>10. Sent(r)'
  <2> HIDE DEF f, next
  <2> QED BY <1>6 DEF Sent
<1>11. ASSUME NEW q \in Requests, q # r PROVE Untouched(q)
  BY <1>0, <1>1, <1>3, <1>11 DEF TypeOK, Attempt, Untouched
<1> QED BY <1>5, <1>7, <1>8, <1>9, <1>10, <1>11, UntouchedKeeps DEF GatewayInv

(***************************************************************************)
(* Every step keeps the invariant.                                         *)
(***************************************************************************)

\* The steps of one thread that are not a failure.
LEMMA ThreadKeeps ==
  ASSUME GatewayInv, NEW r \in Requests, TypeOK',
         Place(r)', History(r)', Received(r)', Sent(r)',
         \A q \in Requests : q # r => Untouched(q)
  PROVE  GatewayInv'
BY UntouchedKeeps DEF GatewayInv

LEMMA GatewayInitially == Init => GatewayInv
<1> SUFFICES ASSUME Init PROVE GatewayInv
  OBVIOUS
<1> USE GatewayConstants DEF Init
<1>1. TypeOK BY DEF TypeOK, Saturated, AtClient
<1>2. ASSUME NEW r \in Requests PROVE Place(r) /\ History(r) /\ Received(r) /\ Sent(r)
  BY DEF Place, History, Received, Sent, Attempting, Waiting, Occurs
<1> QED BY <1>1, <1>2 DEF GatewayInv

LEMMA GatewayStepInv == GatewayInv /\ [Next]_gatewayVars => GatewayInv'
<1> SUFFICES ASSUME GatewayInv, [Next]_gatewayVars PROVE GatewayInv'
  OBVIOUS
<1> USE GatewayConstants
<1>0. TypeOK /\ \A r \in Requests : Place(r) /\ History(r) /\ Received(r) /\ Sent(r)
  BY DEF GatewayInv
<1>1. ASSUME NEW r \in Requests, Refuse(r) PROVE GatewayInv'
  <2>1. TypeOK' BY <1>0, <1>1 DEF Refuse, TypeOK, AtClient, Entries
  <2>2. /\ pc[r] = "limiter" /\ pc'[r] = "reply429" /\ leg'[r] = leg[r] /\ fails'[r] = fails[r]
        /\ out'[r] = out[r] /\ gone'[r] = gone[r]
        /\ log'[r] = [route |-> "rate_limited", breach |-> FALSE]
    BY <1>0, <1>1 DEF Refuse, TypeOK
  <2>3. log'[r] # NoEntry
    <3>1. log'[r] \in Entries BY <2>2 DEF Entries
    <3> QED BY <3>1
  <2>4. Place(r)' BY <1>0, <2>2, <2>3 DEF Place, Attempting, Waiting
  <2>5. History(r)' BY <1>0, <2>2 DEF Place, History
  <2>6. Received(r)' BY <1>0, <2>2 DEF Received
  <2>7. Sent(r)' BY <2>2 DEF Sent
  <2>8. \A q \in Requests : q # r => Untouched(q)
    BY <1>0, <1>1 DEF Refuse, TypeOK, Untouched
  <2> QED BY <2>1, <2>4, <2>5, <2>6, <2>7, <2>8, ThreadKeeps
<1>2. ASSUME NEW r \in Requests, Admit(r) PROVE GatewayInv'
  <2>1. TypeOK' BY <1>0, <1>2, AttemptTypes DEF Admit, TypeOK, Legs
  <2>2. /\ pc[r] = "limiter" /\ pc'[r] = "connect" /\ leg'[r] = "primary"
        /\ fails'[r] = fails[r] /\ out'[r] = out[r] /\ gone'[r] = gone[r] /\ log'[r] = log[r]
    BY <1>0, <1>2 DEF Admit, Attempt, TypeOK
  <2>3. Place(r)' BY <1>0, <2>2 DEF Place, Attempting, Waiting, Legs
  <2>4. History(r)' BY <1>0, <2>2 DEF History
  <2>5. Received(r)' BY <1>0, <2>2 DEF Received, Occurs
  <2>6. Sent(r)' BY <1>0, <2>2 DEF Sent, Place
  <2>7. \A q \in Requests : q # r => Untouched(q)
    BY <1>0, <1>2 DEF Admit, Attempt, TypeOK, Untouched
  <2> QED BY <2>1, <2>3, <2>4, <2>5, <2>6, <2>7, ThreadKeeps
<1>3. ASSUME NEW r \in Requests, Reply429(r) PROVE GatewayInv'
  <2> DEFINE Heads == Legs \cup {"429", "503"}
  <2>1. /\ pc[r] = "reply429" /\ pc' = [pc EXCEPT ![r] = "done"] /\ pc'[r] = "done"
        /\ UNCHANGED <<leg, age, quiet, firstAge, got, status, reason, gone, stuck, fails, log>>
    BY <1>0, <1>3 DEF Reply429, TypeOK
  <2>2. out[r] \in Seq(Heads) BY <1>0 DEF TypeOK
  <2>3. /\ Append(out[r], "429") \in Seq(Heads) /\ Len(Append(out[r], "429")) = Len(out[r]) + 1
        /\ Len(out[r]) \in Nat
    BY <2>2, AppendFacts
  <2>4. \/ out' = [out EXCEPT ![r] = Append(out[r], "429")]
        \/ gone[r] /\ out' = out
    BY <1>3 DEF Reply429
  <2>5. TypeOK' BY <1>0, <2>1, <2>3, <2>4 DEF TypeOK
  <2>6. Place(r)' BY <1>0, <2>1 DEF Place, Attempting, Waiting
  <2>7. History(r)' BY <1>0, <2>1 DEF History, Place
  <2>8. Received(r)'
    <3>1. ASSUME ~gone[r] PROVE Len(out'[r]) = 1 \/ Occurs("broken", fails[r])
      <4>1. out[r] = << >> \/ Occurs("broken", fails[r])
        BY <1>0, <2>1, <3>1 DEF Received
      <4>2. out'[r] = Append(out[r], "429") BY <1>0, <2>4, <3>1 DEF TypeOK
      <4> QED BY <2>3, <4>1, <4>2
    <3>2. ASSUME ~gone[r] PROVE Len(out'[r]) >= 1
      BY <1>0, <2>3, <2>4, <3>2 DEF TypeOK
    <3> QED BY <1>0, <2>1, <3>1, <3>2 DEF Received
  <2>9. Sent(r)' BY <1>0, <2>1 DEF Sent, Place
  <2>10. \A q \in Requests : q # r => Untouched(q)
    BY <1>0, <2>1, <2>4 DEF TypeOK, Untouched
  <2> QED BY <2>5, <2>6, <2>7, <2>8, <2>9, <2>10, ThreadKeeps
<1>4. ASSUME NEW r \in Requests,
             ConnectionError(r) \/ ServerError(r) \/ KernelTimeout(r) \/ SocketTimeout(r)
               \/ StreamTimeout(r) \/ StreamBreaks(r)
      PROVE  GatewayInv'
  <2>1. PICK cause \in Causes : /\ Fail(r, cause) /\ pc[r] \in Waiting
                                /\ pc[r] = "stream" => cause \in {"broken", "hangup"}
                                /\ cause = "hangup" => gone[r]
    BY <1>4 DEF ConnectionError, ServerError, KernelTimeout, SocketTimeout, StreamTimeout,
                StreamBreaks, TimedOut, Waiting, Causes
  <2>2. pc[r] \in Attempting /\ pc[r] # "relay"
    BY <2>1 DEF Attempting, Waiting
  <2> QED BY <2>1, <2>2, FailKeeps
<1>5. ASSUME NEW r \in Requests, NEW s \in {"ok", "4xx"}, Status(r, s) PROVE GatewayInv'
  <2>1. 0 \in 0..Saturated BY DEF Saturated
  <2>2. TypeOK' BY <1>0, <1>5, <2>1 DEF Status, TypeOK, Waiting
  <2>3. /\ pc[r] = "connect" /\ pc'[r] = "head" /\ leg'[r] = leg[r] /\ reason'[r] = reason[r]
        /\ fails'[r] = fails[r] /\ out'[r] = out[r] /\ gone'[r] = gone[r] /\ log'[r] = log[r]
    BY <1>0, <1>5 DEF Status, TypeOK
  <2>4. Place(r)' BY <1>0, <2>3 DEF Place, Attempting, Waiting
  <2>5. History(r)' BY <1>0, <2>3 DEF History
  <2>6. Received(r)' BY <1>0, <2>3 DEF Received
  <2>7. Sent(r)' BY <1>0, <2>3 DEF Sent, Place
  <2>8. \A q \in Requests : q # r => Untouched(q)
    BY <1>0, <1>5 DEF Status, TypeOK, Untouched
  <2> QED BY <2>2, <2>4, <2>5, <2>6, <2>7, <2>8, ThreadKeeps
<1>6. ASSUME NEW r \in Requests, HeadChunk(r) PROVE GatewayInv'
  <2>1. 0 \in 0..Saturated BY DEF Saturated
  <2>2. TypeOK'
    <3>1. got' \in [Requests -> 0..MaxChunks]
      <4>1. got[r] \in 0..MaxChunks /\ got[r] < MaxChunks
        BY <1>0, <1>6 DEF HeadChunk, TypeOK
      <4>2. got[r] + 1 \in 0..MaxChunks BY <4>1
      <4> QED BY <1>0, <1>6, <4>2 DEF HeadChunk, TypeOK
    <3>2. quiet' \in [Requests -> 0..Saturated]
      BY <1>0, <1>6, <2>1 DEF HeadChunk, TypeOK
    <3>3. firstAge' \in [Requests -> {NoChunk} \cup 0..Saturated]
      <4>1. age[r] \in 0..Saturated /\ firstAge \in [Requests -> {NoChunk} \cup 0..Saturated]
        BY <1>0 DEF TypeOK
      <4>2. \/ firstAge' = firstAge
            \/ firstAge' = [firstAge EXCEPT ![r] = age[r]]
        BY <1>6, <4>1 DEF HeadChunk
      <4> QED BY <4>1, <4>2
    <3> QED BY <1>0, <1>6, <3>1, <3>2, <3>3 DEF HeadChunk, TypeOK
  <2>3. \A q \in Requests : Untouched(q)
    BY <1>6 DEF HeadChunk, Untouched
  <2> QED BY <1>0, <2>2, <2>3, UntouchedKeeps DEF GatewayInv
<1>7. ASSUME NEW r \in Requests, HeadFull(r) \/ HeadIsAll(r) PROVE GatewayInv'
  <2>1. pc[r] = "head" /\ HeadRead(r)
    BY <1>7 DEF HeadFull, HeadIsAll
  <2>2. CASE Fail(r, "breach")
    BY <2>1, <2>2, FailKeeps DEF Attempting, Waiting, Causes
  <2>3. CASE /\ pc' = [pc EXCEPT ![r] = "send"]
             /\ UNCHANGED <<leg, age, quiet, firstAge, got, status, reason, out, gone, stuck,
                            fails, log>>
    <3>1. TypeOK' BY <1>0, <2>3 DEF TypeOK, AtClient
    <3>2. pc'[r] = "send" BY <1>0, <2>3 DEF TypeOK
    <3>3. Place(r)' BY <1>0, <2>1, <2>3, <3>2 DEF Place, Attempting, Waiting
    <3>4. History(r)' BY <1>0, <2>1, <2>3, <3>2 DEF History
    <3>5. Received(r)' BY <1>0, <2>1, <2>3, <3>2 DEF Received
    <3>6. Sent(r)' BY <1>0, <2>1, <2>3, <3>2 DEF Sent, Place, Attempting, Waiting
    <3>7. \A q \in Requests : q # r => Untouched(q)
      BY <1>0, <2>3 DEF TypeOK, Untouched
    <3> QED BY <3>1, <3>3, <3>4, <3>5, <3>6, <3>7, ThreadKeeps
  <2> QED BY <2>1, <2>2, <2>3 DEF HeadRead
<1>8. ASSUME NEW r \in Requests, Send(r) PROVE GatewayInv'
  <2>1. pc[r] = "send"
    BY <1>8 DEF Send
  <2>2. CASE WriteFails(r)
    BY <2>1, <2>2, FailKeeps DEF WriteFails, Attempting, Waiting, Causes
  <2>3. CASE ~WriteFails(r)
    <3> DEFINE Heads == Legs \cup {"429", "503"}
    <3>0. /\ out' = [out EXCEPT ![r] = Append(out[r], leg[r])]
          /\ \/ pc' = [pc EXCEPT ![r] = "log"]
             \/ pc' = [pc EXCEPT ![r] = "relay"]
          /\ UNCHANGED <<leg, age, quiet, firstAge, got, status, reason, gone, stuck, fails, log>>
      BY <1>8, <2>3 DEF Send
    <3>1. out[r] \in Seq(Heads) /\ leg[r] \in Heads /\ leg[r] \in Legs
      BY <1>0, <2>1 DEF TypeOK, Place, Attempting
    <3> DEFINE o == Append(out[r], leg[r])
    <3>2. o \in Seq(Heads) /\ Len(o) = Len(out[r]) + 1 /\ Len(out[r]) \in Nat
          /\ o # << >> /\ LastOf(o) = leg[r]
      <4> HIDE DEF Heads
      <4> QED BY <3>1, AppendFacts
    <3>3. out'[r] = o /\ pc'[r] \in {"log", "relay"} BY <1>0, <3>0 DEF TypeOK
    <3>4. TypeOK'
      <4>1. out' \in [Requests -> Seq(Heads)] BY <1>0, <3>0, <3>2 DEF TypeOK
      <4>2. pc' \in [Requests -> Waiting \cup AtClient \cup {"log", "done"}]
        BY <1>0, <3>0 DEF TypeOK, AtClient
      <4> QED BY <1>0, <3>0, <4>1, <4>2 DEF TypeOK
    <3>5. Place(r)' BY <1>0, <2>1, <3>0, <3>1, <3>3 DEF Place, Attempting, Waiting
    <3>6. History(r)' BY <1>0, <2>1, <3>0, <3>3 DEF History
    <3>7. Received(r)'
      <4>1. ~gone[r] /\ ~Occurs("broken", fails[r]) => Len(o) = 1
        BY <1>0, <2>1, <3>2 DEF Received
      <4> HIDE DEF o
      <4> QED BY <1>0, <3>0, <3>3, <4>1 DEF Received
    <3>8. Sent(r)'
      <4>1. log'[r] = NoEntry BY <1>0, <2>1, <3>0 DEF Place, Attempting
      <4> HIDE DEF o
      <4>2. leg'[r] \in Legs /\ leg'[r] = leg[r] BY <3>0, <3>1
      <4> QED BY <3>2, <3>3, <4>1, <4>2 DEF Sent, Legs
    <3>9. \A q \in Requests : q # r => Untouched(q)
      BY <1>0, <3>0 DEF TypeOK, Untouched
    <3> QED BY <3>4, <3>5, <3>6, <3>7, <3>8, <3>9, ThreadKeeps
  <2> QED BY <2>2, <2>3
<1>9. ASSUME NEW r \in Requests, Relay(r) PROVE GatewayInv'
  <2>1. pc[r] = "relay"
    BY <1>9 DEF Relay
  <2>2. CASE WriteFails(r)
    BY <2>1, <2>2, FailKeeps DEF WriteFails, Attempting, Waiting, Causes
  <2>3. CASE ~WriteFails(r)
    <3>0. /\ \/ pc' = [pc EXCEPT ![r] = "log"]
             \/ pc' = [pc EXCEPT ![r] = "stream"]
          /\ quiet' = [quiet EXCEPT ![r] = 0]
          /\ UNCHANGED <<leg, age, firstAge, got, status, reason, out, gone, stuck, fails, log>>
      BY <1>9, <2>3 DEF Relay
    <3>1. pc'[r] \in {"log", "stream"} BY <1>0, <3>0 DEF TypeOK
    <3>2. 0 \in 0..Saturated BY DEF Saturated
    <3>3. TypeOK'
      <4>1. quiet' \in [Requests -> 0..Saturated] BY <1>0, <3>0, <3>2 DEF TypeOK
      <4>2. pc' \in [Requests -> Waiting \cup AtClient \cup {"log", "done"}]
        BY <1>0, <3>0 DEF TypeOK, Waiting
      <4> QED BY <1>0, <3>0, <4>1, <4>2 DEF TypeOK
    <3>4. Place(r)' BY <1>0, <2>1, <3>0, <3>1 DEF Place, Attempting, Waiting
    <3>5. History(r)' BY <1>0, <2>1, <3>0, <3>1 DEF History
    <3>6. Received(r)' BY <1>0, <2>1, <3>0, <3>1 DEF Received
    <3>7. Sent(r)' BY <1>0, <2>1, <3>0, <3>1 DEF Sent, Place, Attempting
    <3>8. \A q \in Requests : q # r => Untouched(q)
      BY <1>0, <3>0 DEF TypeOK, Untouched
    <3> QED BY <3>3, <3>4, <3>5, <3>6, <3>7, <3>8, ThreadKeeps
  <2> QED BY <2>2, <2>3
<1>10. ASSUME NEW r \in Requests, StreamChunk(r) PROVE GatewayInv'
  <2>1. TypeOK'
    <3>1. got' \in [Requests -> 0..MaxChunks]
      <4>1. got[r] \in 0..MaxChunks /\ got[r] < MaxChunks
        BY <1>0, <1>10 DEF StreamChunk, TypeOK
      <4>2. got[r] + 1 \in 0..MaxChunks BY <4>1
      <4> QED BY <1>0, <1>10, <4>2 DEF StreamChunk, TypeOK
    <3>2. pc' \in [Requests -> Waiting \cup AtClient \cup {"log", "done"}]
      BY <1>0, <1>10 DEF StreamChunk, TypeOK, AtClient
    <3> QED BY <1>0, <1>10, <3>1, <3>2 DEF StreamChunk, TypeOK
  <2>2. /\ pc[r] = "stream" /\ pc'[r] = "relay" /\ leg'[r] = leg[r] /\ reason'[r] = reason[r]
        /\ fails'[r] = fails[r] /\ out'[r] = out[r] /\ gone'[r] = gone[r] /\ log'[r] = log[r]
    BY <1>0, <1>10 DEF StreamChunk, TypeOK
  <2>3. Place(r)' BY <1>0, <2>2 DEF Place, Attempting, Waiting
  <2>4. History(r)' BY <1>0, <2>2 DEF History
  <2>5. Received(r)' BY <1>0, <2>2 DEF Received
  <2>6. Sent(r)' BY <1>0, <2>2 DEF Sent, Place, Attempting, Waiting
  <2>7. \A q \in Requests : q # r => Untouched(q)
    BY <1>0, <1>10 DEF StreamChunk, TypeOK, Untouched
  <2> QED BY <2>1, <2>3, <2>4, <2>5, <2>6, <2>7, ThreadKeeps
<1>11. ASSUME NEW r \in Requests, StreamEnd(r) PROVE GatewayInv'
  <2>1. TypeOK' BY <1>0, <1>11 DEF StreamEnd, TypeOK
  <2>2. /\ pc[r] = "stream" /\ pc'[r] = "log" /\ leg'[r] = leg[r] /\ reason'[r] = reason[r]
        /\ fails'[r] = fails[r] /\ out'[r] = out[r] /\ gone'[r] = gone[r] /\ log'[r] = log[r]
    BY <1>0, <1>11 DEF StreamEnd, TypeOK
  <2>3. Place(r)' BY <1>0, <2>2 DEF Place, Attempting, Waiting
  <2>4. History(r)' BY <1>0, <2>2 DEF History
  <2>5. Received(r)' BY <1>0, <2>2 DEF Received
  <2>6. Sent(r)' BY <1>0, <2>2 DEF Sent, Place
  <2>7. \A q \in Requests : q # r => Untouched(q)
    BY <1>0, <1>11 DEF StreamEnd, TypeOK, Untouched
  <2> QED BY <2>1, <2>3, <2>4, <2>5, <2>6, <2>7, ThreadKeeps
<1>12. ASSUME NEW r \in Requests, Reply503(r) PROVE GatewayInv'
  <2> DEFINE Heads == Legs \cup {"429", "503"}
             o == Append(out[r], "503")
  <2>1. /\ pc[r] = "reply503" /\ leg[r] = "none" /\ log[r] = NoEntry
        /\ UNCHANGED <<leg, age, quiet, firstAge, got, status, reason, gone, stuck, fails, log>>
    BY <1>0, <1>12 DEF Reply503, Place
  <2>2. out[r] \in Seq(Heads) BY <1>0 DEF TypeOK
  <2>3. o \in Seq(Heads) /\ Len(o) = Len(out[r]) + 1 /\ Len(out[r]) \in Nat
        /\ o # << >> /\ LastOf(o) = "503"
    BY <2>2, AppendFacts
  <2>4. \/ out' = [out EXCEPT ![r] = o] /\ pc' = [pc EXCEPT ![r] = "log"]
        \/ gone[r] /\ out' = out /\ pc' = [pc EXCEPT ![r] = "done"]
    BY <1>12 DEF Reply503
  <2>5. \/ out'[r] = o /\ pc'[r] = "log"
        \/ gone[r] /\ out'[r] = out[r] /\ pc'[r] = "done"
    BY <1>0, <2>4 DEF TypeOK
  <2>6. TypeOK'
    <3>1. out' \in [Requests -> Seq(Heads)] BY <1>0, <2>3, <2>4 DEF TypeOK
    <3>2. pc' \in [Requests -> Waiting \cup AtClient \cup {"log", "done"}]
      BY <1>0, <2>4 DEF TypeOK
    <3> QED BY <1>0, <2>1, <3>1, <3>2 DEF TypeOK
  <2>7. ~gone[r] /\ ~Occurs("broken", fails[r]) => Len(o) = 1
    BY <1>0, <2>1, <2>3 DEF Received
  <2> HIDE DEF o, Heads
  <2>8. Place(r)' BY <1>0, <2>1, <2>5 DEF Place, Attempting, Waiting
  <2>9. History(r)' BY <1>0, <2>1, <2>5 DEF History
  <2>10. Received(r)' BY <1>0, <2>1, <2>5, <2>7 DEF Received
  <2>11. Sent(r)' BY <2>1, <2>3, <2>5 DEF Sent
  <2>12. \A q \in Requests : q # r => Untouched(q)
    BY <1>0, <2>1, <2>4 DEF TypeOK, Untouched
  <2> QED BY <2>6, <2>8, <2>9, <2>10, <2>11, <2>12, ThreadKeeps
<1>13. ASSUME NEW r \in Requests, Log(r) PROVE GatewayInv'
  <2> DEFINE route == IF leg[r] = "none" THEN "error"
                      ELSE IF leg[r] = "fallback" THEN "fallback" ELSE "primary"
             entry == [route |-> route,
                       breach |-> route = "error"
                                    \/ (route = "fallback" /\ reason[r] = "breach")]
  <2>1. /\ pc[r] = "log" /\ pc' = [pc EXCEPT ![r] = "done"]
        /\ log' = [log EXCEPT ![r] = entry]
        /\ UNCHANGED <<leg, age, quiet, firstAge, got, status, reason, out, gone, stuck, fails>>
    BY <1>13 DEF Log
  <2>2. /\ pc'[r] = "done" /\ log'[r] = entry /\ entry \in Entries
        /\ entry.route = route
        /\ entry.breach = (route = "error" \/ (route = "fallback" /\ reason[r] = "breach"))
    BY <1>0, <2>1 DEF TypeOK, Entries
  <2>3. entry # NoEntry BY <2>2
  <2>4. TypeOK'
    <3>1. log' \in [Requests -> Entries \cup {NoEntry}] BY <1>0, <2>1, <2>2 DEF TypeOK
    <3>2. pc' \in [Requests -> Waiting \cup AtClient \cup {"log", "done"}]
      BY <1>0, <2>1 DEF TypeOK
    <3> QED BY <1>0, <2>1, <3>1, <3>2 DEF TypeOK
  <2>5. Place(r)' BY <1>0, <2>1, <2>2, <2>3 DEF Place, Attempting, Waiting
  <2>6. History(r)' BY <1>0, <2>1, <2>2 DEF History
  <2>7. Received(r)'
    <3>1. out[r] # << >> /\ out[r] \in Seq(Legs \cup {"429", "503"})
      BY <1>0, <2>1 DEF Sent, TypeOK
    <3>2. Len(out[r]) >= 1 BY <3>1
    <3> QED BY <1>0, <2>1, <2>2, <3>2 DEF Received
  <2>8. Sent(r)'
    <3>1. out[r] # << >> /\ LastOf(out[r]) = IF leg[r] = "none" THEN "503" ELSE leg[r]
      BY <1>0, <2>1 DEF Sent
    <3>2. leg[r] \in Legs \cup {"none"} BY <1>0 DEF TypeOK
    <3>3. RouteOf(LastOf(out[r])) = route BY <3>1, <3>2 DEF RouteOf, Legs
    <3>4. entry.breach <=> (route = "error" \/ Occurs("breach", fails[r]))
      <4>1. CASE leg[r] = "none" BY <2>2, <4>1
      <4>2. CASE leg[r] = "fallback" BY <1>0, <2>2, <4>2 DEF History
      <4>3. CASE leg[r] = "primary"
        <5>1. ~Occurs("breach", fails[r]) BY <1>0, <4>3 DEF History, Occurs
        <5> QED BY <2>2, <4>3, <5>1
      <4>4. CASE leg[r] = "retry"
        <5>1. Len(fails[r]) = 1 /\ Exception(fails[r][1]) = "conn"
          BY <1>0, <4>4 DEF History
        <5>2. fails[r] \in Seq(Causes) BY <1>0 DEF TypeOK
        <5>3. ~Occurs("breach", fails[r]) BY <5>1, <5>2 DEF Occurs, Exception
        <5> QED BY <2>2, <4>4, <5>3
      <4> QED BY <3>2, <4>1, <4>2, <4>3, <4>4 DEF Legs
    <3> HIDE DEF entry, route
    <3>5. out'[r] = out[r] /\ fails'[r] = fails[r] BY <2>1
    <3>6. LastOf(out[r])' = LastOf(out[r]) BY <3>5 DEF LastOf
    <3>7. Occurs("breach", fails[r])' <=> Occurs("breach", fails[r])
      BY <3>5 DEF Occurs
    <3>8. log[r]' = entry /\ log[r].route' = route /\ log[r].breach' = entry.breach BY <2>2
    <3>9. RouteOf(LastOf(out[r]))' = route BY <3>3, <3>6 DEF RouteOf
    <3> QED BY <2>2, <3>1, <3>4, <3>5, <3>7, <3>8, <3>9 DEF Sent
  <2>9. \A q \in Requests : q # r => Untouched(q)
    BY <1>0, <2>1 DEF TypeOK, Untouched
  <2> QED BY <2>4, <2>5, <2>6, <2>7, <2>8, <2>9, ThreadKeeps
<1>14. ASSUME NEW r \in Requests, HangUp(r) PROVE GatewayInv'
  <2>1. TypeOK' BY <1>0, <1>14 DEF HangUp, TypeOK
  <2>2. /\ gone'[r] = TRUE
        /\ UNCHANGED <<pc, leg, reason, out, fails, log>>
    BY <1>0, <1>14 DEF HangUp, TypeOK
  <2>3. Place(r)' BY <1>0, <2>2 DEF Place
  <2>4. History(r)' BY <1>0, <2>2 DEF History
  <2>5. Received(r)' BY <2>2 DEF Received
  <2>6. Sent(r)' BY <1>0, <2>2 DEF Sent
  <2>7. \A q \in Requests : q # r => Untouched(q)
    BY <1>0, <1>14 DEF HangUp, TypeOK, Untouched
  <2> QED BY <2>1, <2>3, <2>4, <2>5, <2>6, <2>7, ThreadKeeps
<1>15. ASSUME NEW r \in Requests, Stall(r) \/ Resume(r) PROVE GatewayInv'
  <2>1. TypeOK' BY <1>0, <1>15 DEF Stall, Resume, TypeOK
  <2>2. \A q \in Requests : Untouched(q) BY <1>15 DEF Stall, Resume, Untouched
  <2> QED BY <1>0, <2>1, <2>2, UntouchedKeeps DEF GatewayInv
<1>16. CASE Tick
  <2>1. \A x \in 0..Saturated : Later(x) \in 0..Saturated BY DEF Later, Saturated
  <2>2. age' \in [Requests -> 0..Saturated] /\ quiet' \in [Requests -> 0..Saturated]
    BY <1>0, <1>16, <2>1 DEF Tick, TypeOK
  <2>3. TypeOK' BY <1>0, <1>16, <2>2 DEF Tick, TypeOK
  <2>4. \A q \in Requests : Untouched(q) BY <1>16 DEF Tick, Untouched
  <2> QED BY <1>0, <2>3, <2>4, UntouchedKeeps DEF GatewayInv
<1>17. CASE UNCHANGED gatewayVars
  <2>1. TypeOK' BY <1>0, <1>17 DEF gatewayVars, TypeOK
  <2>2. \A q \in Requests : Untouched(q) BY <1>17 DEF gatewayVars, Untouched
  <2> QED BY <1>0, <2>1, <2>2, UntouchedKeeps DEF GatewayInv
<1> QED BY <1>1, <1>2, <1>3, <1>4, <1>5, <1>6, <1>7, <1>8, <1>9, <1>10, <1>11, <1>12,
           <1>13, <1>14, <1>15, <1>16, <1>17
        DEF Next, Serve, Environment

THEOREM GatewayInvariant == Spec => []GatewayInv
BY GatewayInitially, GatewayStepInv, PTL DEF Spec

\* The types of the gateway's state.
THEOREM GatewayTyping == Spec => []TypeOK
BY GatewayInvariant, PTL DEF GatewayInv

\* Every line of the JSONL log names the route the client was served by and
\* carries slo_breach exactly when an attempt breached or none served.
THEOREM GatewayLog == Spec => []LogTellsTruth
<1>1. GatewayInv => LogTellsTruth BY DEF GatewayInv, Sent, LogTellsTruth
<1> QED BY <1>1, GatewayInvariant, PTL

\* A client that stays is answered and on record, with one response head unless
\* a stream broke.
THEOREM GatewayAnswers == Spec => []AnsweredOnRecord
<1>1. GatewayInv => AnsweredOnRecord
  <2> SUFFICES ASSUME GatewayInv, NEW r \in Requests, pc[r] = "done", ~gone[r]
               PROVE  /\ log[r] # NoEntry
                      /\ Len(out[r]) >= 1
                      /\ Len(out[r]) > 1 => Occurs("broken", fails[r])
    BY DEF AnsweredOnRecord
  <2>1. log[r] # NoEntry BY DEF GatewayInv, Place
  <2>2. Len(out[r]) >= 1 BY DEF GatewayInv, Received
  <2>3. ~Occurs("broken", fails[r]) => Len(out[r]) = 1 BY DEF GatewayInv, Received
  <2>4. Len(out[r]) = 1 => ~(Len(out[r]) > 1) OBVIOUS
  <2> QED BY <2>1, <2>2, <2>3, <2>4
<1> QED BY <1>1, GatewayInvariant, PTL

\* Nothing but a primary that has failed for good leads to the fallback or 503.
THEOREM GatewayFailover == Spec => []NoHastyFailover
<1>1. GatewayInv => NoHastyFailover BY DEF GatewayInv, History, NoHastyFailover
<1> QED BY <1>1, GatewayInvariant, PTL

(***************************************************************************)
(* Refinement.                                                             *)
(***************************************************************************)

Stages == [r \in Requests |-> StageOf(r)]
Results == [r \in Requests |-> ResultOf(r)]

\* A step of one thread moves that request along the chain, or nothing.
LEMMA ChainMove ==
  ASSUME NEW r \in Requests, NEW to,
         StageOf(r)' = to, ResultOf(r)' = ResultOf(r),
         \A q \in Requests : q # r => Untouched(q)
  PROVE  Stages' = [Stages EXCEPT ![r] = to] /\ Results' = Results
<1>1. \A q \in Requests : q # r => StageOf(q)' = StageOf(q) /\ ResultOf(q)' = ResultOf(q)
  BY DEF Untouched, StageOf, ResultOf
<1> QED BY <1>1 DEF Stages, Results

LEMMA ChainEnd ==
  ASSUME NEW r \in Requests, NEW how,
         StageOf(r)' = "over", ResultOf(r)' = how,
         \A q \in Requests : q # r => Untouched(q)
  PROVE  /\ Stages' = [Stages EXCEPT ![r] = "over"]
         /\ Results' = [Results EXCEPT ![r] = how]
<1>1. \A q \in Requests : q # r => StageOf(q)' = StageOf(q) /\ ResultOf(q)' = ResultOf(q)
  BY DEF Untouched, StageOf, ResultOf
<1> QED BY <1>1 DEF Stages, Results

\* A failed attempt is the chain's next stage.
LEMMA FailMoves ==
  ASSUME GatewayInv, NEW r \in Requests, NEW cause \in Causes, Fail(r, cause), pc[r] \in Attempting
  PROVE  Chain!Next
<1>0. TypeOK /\ Place(r) /\ leg[r] \in Legs /\ StageOf(r) = leg[r] /\ ResultOf(r) = "none"
  BY DEF GatewayInv, Place, Attempting, Waiting, StageOf, ResultOf, Legs
<1> DEFINE next == NextLeg(leg[r], Exception(cause))
<1>1. \/ next \in Legs /\ pc' = [pc EXCEPT ![r] = "connect"] /\ leg' = [leg EXCEPT ![r] = next]
      \/ next = "none" /\ pc' = [pc EXCEPT ![r] = "reply503"] /\ leg' = [leg EXCEPT ![r] = "none"]
  BY DEF Fail, Attempt, NextLeg, Legs
<1>2. \A q \in Requests : q # r => Untouched(q)
  BY <1>0, <1>1 DEF Fail, TypeOK, Untouched
<1> DEFINE to == IF next = "none" THEN "exhausted" ELSE next
<1>3. log'[r] = NoEntry
  BY <1>0 DEF Fail, Place
<1>4. StageOf(r)' = to /\ ResultOf(r)' = "none"
  BY <1>0, <1>1, <1>3 DEF TypeOK, StageOf, ResultOf, Legs
<1>5. \/ leg[r] = "primary" /\ to = "retry"
      \/ leg[r] \in {"primary", "retry"} /\ to = "fallback" /\ HasFallback
      \/ leg[r] = "fallback" /\ HasFallback /\ to = "exhausted"
      \/ leg[r] \in {"primary", "retry"} /\ ~HasFallback /\ to = "exhausted"
  BY <1>0 DEF Legs, NextLeg, Place
<1> HIDE DEF next, to
<1>6. Stages' = [Stages EXCEPT ![r] = to] /\ Results' = Results
  BY <1>0, <1>2, <1>4, ChainMove
<1>7. Stages[r] = leg[r] BY <1>0 DEF Stages
<1> QED
  BY <1>5, <1>6, <1>7
     DEF Chain!Next, Chain!Retry, Chain!FailOver, Chain!Exhaust, Chain!Move, Stages, Results

\* A step that leaves every request where it is.
LEMMA ChainStutters ==
  ASSUME \A r \in Requests : StageOf(r)' = StageOf(r) /\ ResultOf(r)' = ResultOf(r)
  PROVE  UNCHANGED Chain!chainVars
BY DEF Chain!chainVars

\* Gateway goes down the chain of DegradationChain: backends in order, each stage
\* once, and a result on record that fits the stage it was reached from.
THEOREM GatewayRefinement == Spec => ImplementsChain
<1> USE GatewayConstants
<1>1. Init => Chain!Init
  BY DEF Init, Chain!Init, StageOf, ResultOf
<1>2. GatewayInv /\ [Next]_gatewayVars => [Chain!Next]_(Chain!chainVars)
  <2> SUFFICES ASSUME GatewayInv, [Next]_gatewayVars
               PROVE  Chain!Next \/ UNCHANGED Chain!chainVars
    OBVIOUS
  <2>0. TypeOK /\ \A r \in Requests : Place(r) /\ Sent(r) BY DEF GatewayInv
  <2>1. ASSUME NEW r \in Requests, Admit(r) PROVE Chain!Next
    <3>1. /\ StageOf(r) = "arrived" /\ StageOf(r)' = "primary"
          /\ ResultOf(r)' = ResultOf(r)
      BY <2>0, <2>1 DEF Admit, Attempt, TypeOK, Place, StageOf, ResultOf
    <3>2. \A q \in Requests : q # r => Untouched(q)
      BY <2>0, <2>1 DEF Admit, Attempt, TypeOK, Untouched
    <3>3. Stages' = [Stages EXCEPT ![r] = "primary"] /\ Results' = Results
      BY <3>1, <3>2, ChainMove
    <3> QED BY <3>1, <3>3 DEF Chain!Next, Chain!Start, Chain!Move, Stages, Results
  <2>2. ASSUME NEW r \in Requests, Refuse(r) PROVE UNCHANGED Chain!chainVars
    <3>1. ASSUME NEW q \in Requests
          PROVE  StageOf(q)' = StageOf(q) /\ ResultOf(q)' = ResultOf(q)
      BY <2>0, <2>2 DEF Refuse, TypeOK, Place, StageOf, ResultOf
    <3> QED BY <3>1, ChainStutters
  <2>3. ASSUME NEW r \in Requests, Reply429(r) PROVE Chain!Next
    <3>1. /\ StageOf(r) = "arrived" /\ StageOf(r)' = "over"
          /\ ResultOf(r)' = "refused"
      BY <2>0, <2>3 DEF Reply429, TypeOK, Place, StageOf, ResultOf
    <3>2. \A q \in Requests : q # r => Untouched(q)
      BY <2>0, <2>3 DEF Reply429, TypeOK, Untouched
    <3>3. /\ Stages' = [Stages EXCEPT ![r] = "over"]
          /\ Results' = [Results EXCEPT ![r] = "refused"]
      BY <3>1, <3>2, ChainEnd
    <3> QED BY <3>1, <3>3 DEF Chain!Next, Chain!Refuse, Chain!End, Stages, Results
  <2>4. ASSUME NEW r \in Requests,
               ConnectionError(r) \/ ServerError(r) \/ KernelTimeout(r) \/ SocketTimeout(r)
                 \/ StreamTimeout(r) \/ StreamBreaks(r)
        PROVE  Chain!Next
    <3>1. PICK cause \in Causes : Fail(r, cause) /\ pc[r] \in Attempting
      BY <2>4 DEF ConnectionError, ServerError, KernelTimeout, SocketTimeout, StreamTimeout,
                  StreamBreaks, TimedOut, Attempting, Waiting, Causes
    <3> QED BY <3>1, FailMoves
  <2>5. ASSUME NEW r \in Requests,
               (\E s \in {"ok", "4xx"} : Status(r, s)) \/ HeadChunk(r) \/ StreamChunk(r)
                 \/ StreamEnd(r) \/ HangUp(r) \/ Stall(r) \/ Resume(r)
        PROVE  UNCHANGED Chain!chainVars
    <3>1. ASSUME NEW q \in Requests
          PROVE  StageOf(q)' = StageOf(q) /\ ResultOf(q)' = ResultOf(q)
      BY <2>0, <2>5 DEF Status, HeadChunk, StreamChunk, StreamEnd, HangUp, Stall, Resume,
                        TypeOK, StageOf, ResultOf
    <3> QED BY <3>1, ChainStutters
  <2>6. ASSUME NEW r \in Requests, HeadFull(r) \/ HeadIsAll(r) \/ Send(r) \/ Relay(r)
        PROVE  Chain!Next \/ UNCHANGED Chain!chainVars
    <3>1. CASE \E cause \in Causes : Fail(r, cause) /\ pc[r] \in Attempting
      BY <3>1, FailMoves
    <3>2. CASE /\ pc[r] \in Attempting /\ UNCHANGED <<leg, log>>
               /\ \E place \in {"send", "relay", "stream", "log"} :
                    pc' = [pc EXCEPT ![r] = place]
      <4>1. ASSUME NEW q \in Requests
            PROVE  StageOf(q)' = StageOf(q) /\ ResultOf(q)' = ResultOf(q)
        BY <2>0, <3>2 DEF TypeOK, StageOf, ResultOf, Attempting, Waiting
      <4> QED BY <4>1, ChainStutters
    <3>3. CASE HeadFull(r) \/ HeadIsAll(r)
      BY <3>1, <3>2, <3>3 DEF HeadFull, HeadIsAll, HeadRead, Attempting, Waiting, Causes
    <3>4. CASE Send(r)
      BY <3>1, <3>2, <3>4 DEF Send, WriteFails, Attempting, Causes
    <3>5. CASE Relay(r)
      BY <3>1, <3>2, <3>5 DEF Relay, WriteFails, Attempting, Causes
    <3> QED BY <2>6, <3>3, <3>4, <3>5
  <2>7. ASSUME NEW r \in Requests, Reply503(r) PROVE UNCHANGED Chain!chainVars
    <3>0. leg[r] = "none" /\ log[r] = NoEntry /\ pc[r] = "reply503"
      BY <2>0, <2>7 DEF Reply503, Place
    <3>1. leg' = leg /\ log' = log /\ \E place \in {"log", "done"} : pc' = [pc EXCEPT ![r] = place]
      BY <2>7 DEF Reply503
    <3>2. ASSUME NEW q \in Requests
          PROVE  StageOf(q)' = StageOf(q) /\ ResultOf(q)' = ResultOf(q)
      BY <2>0, <3>0, <3>1 DEF TypeOK, StageOf, ResultOf
    <3> QED BY <3>2, ChainStutters
  <2>8. ASSUME NEW r \in Requests, Log(r) PROVE Chain!Next
    <3>0. pc[r] = "log" /\ pc' = [pc EXCEPT ![r] = "done"] /\ leg[r] \in Legs \cup {"none"}
      BY <2>0, <2>8 DEF Log, TypeOK
    <3>1. log'[r] # NoEntry /\ log'[r].route = IF leg[r] = "none" THEN "error"
            ELSE IF leg[r] = "fallback" THEN "fallback" ELSE "primary"
      <4>1. GatewayInv' BY <2>8, GatewayStepInv DEF Next, Serve
      <4>2. log'[r] \in Entries
        BY <2>0, <2>8 DEF Log, TypeOK, Entries
      <4>3. log'[r].route = IF leg[r] = "none" THEN "error"
              ELSE IF leg[r] = "fallback" THEN "fallback" ELSE "primary"
        BY <2>0, <2>8 DEF Log, TypeOK
      <4> QED BY <4>2, <4>3
    <3>2. \A q \in Requests : q # r => Untouched(q)
      BY <2>0, <2>8 DEF Log, TypeOK, Untouched
    <3>3. pc'[r] = "done" BY <2>0, <3>0 DEF TypeOK
    <3>4. StageOf(r)' = "over" BY <3>1, <3>3 DEF StageOf
    <3>5. ResultOf(r)' = IF leg[r] = "none" THEN "error" ELSE "served"
      BY <3>1, <3>3 DEF ResultOf
    <3>6. StageOf(r) = IF leg[r] = "none" THEN "exhausted" ELSE leg[r]
      BY <2>0, <3>0 DEF StageOf, Place
    <3>7. Stages' = [Stages EXCEPT ![r] = "over"]
          /\ Results' = [Results EXCEPT ![r] = IF leg[r] = "none" THEN "error" ELSE "served"]
      BY <3>2, <3>4, <3>5, ChainEnd
    <3>9. CASE leg[r] = "none"
      BY <3>6, <3>7, <3>9 DEF Chain!Next, Chain!GiveUp, Chain!End, Stages, Results
    <3>10. CASE leg[r] \in Legs
      BY <3>6, <3>7, <3>10 DEF Chain!Next, Chain!Serve, Chain!End, Stages, Results, Legs
    <3> QED BY <3>0, <3>9, <3>10
  <2>9. CASE Tick
    <3>1. ASSUME NEW q \in Requests
          PROVE  StageOf(q)' = StageOf(q) /\ ResultOf(q)' = ResultOf(q)
      BY <2>9 DEF Tick, StageOf, ResultOf
    <3> QED BY <3>1, ChainStutters
  <2>10. CASE UNCHANGED gatewayVars
    <3>1. ASSUME NEW q \in Requests
          PROVE  StageOf(q)' = StageOf(q) /\ ResultOf(q)' = ResultOf(q)
      BY <2>10 DEF gatewayVars, StageOf, ResultOf
    <3> QED BY <3>1, ChainStutters
  <2> QED BY <2>1, <2>2, <2>3, <2>4, <2>5, <2>6, <2>7, <2>8, <2>9, <2>10
          DEF Next, Serve, Environment
<1> QED BY <1>1, <1>2, GatewayInvariant, PTL DEF Spec, ImplementsChain, Chain!Spec

-----------------------------------------------------------------------------
(* The clock of the client *)

\* The waits of an attempt: its operations before the body, and a chunk each until
\* the head is read.
Rounds == Operations + HeadChunks
Patience == Rounds * SLO

\* Waits of this attempt that are over.
Over(r) == IF pc[r] = "head" THEN Operations + got[r] ELSE made[r]

\* What the attempts before this one may have taken.
Before(l) == IF l = "primary" THEN 0 ELSE IF l = "retry" THEN Patience ELSE Patience + Patience

Trying(r) == pc[r] \in {"connect", "head"} /\ out[r] = << >>

ClockTypes ==
  /\ punctual \in BOOLEAN
  /\ waited \in [Requests -> Nat] /\ made \in [Requests -> Nat]

\* The client's clock of one request.
Clock(r) ==
  /\ ~punctual => waited[r] = 0
  /\ waited[r] <= WorstWait
  /\ pc[r] \in {"limiter", "reply429"} => waited[r] = 0
  /\ pc[r] = "connect" => got[r] = 0 /\ made[r] < Operations
  /\ pc[r] = "head" => got[r] <= HeadChunks
  /\ punctual /\ Trying(r) =>
       /\ quiet[r] <= Deadline(leg[r])
       /\ pc[r] = "head" /\ got[r] = HeadChunks => quiet[r] = 0
       /\ waited[r] <= Before(leg[r]) + Over(r) * Deadline(leg[r]) + quiet[r]
  /\ punctual /\ pc[r] = "send" /\ out[r] = << >> =>
       waited[r] <= Before(leg[r]) + Rounds * Deadline(leg[r])

DeadlineInv == GatewayInv /\ ClockTypes /\ \A r \in Requests : Clock(r)

-----------------------------------------------------------------------------
(* Sums of waits *)

\* A wait more is one more deadline.
LEMMA OneWaitMore ==
  ASSUME NEW d \in Nat, NEW n \in Nat, NEW m \in Nat, n < m
  PROVE  /\ n * d \in Nat /\ (n + 1) * d = n * d + d
         /\ n * d + d <= m * d
<1>1. n * d \in Nat /\ (n + 1) * d = n * d + d
  OBVIOUS
<1>2. (m - n - 1) * d >= 0
  <2>1. m - n - 1 \in Nat
    OBVIOUS
  <2> QED BY <2>1
<1>3. (m - n - 1) * d = m * d - n * d - d
  OBVIOUS
<1> QED BY <1>1, <1>2, <1>3

\* The chain's patience in attempts: one each on primary and retry, two on the
\* fallback, which has twice the time.
LEMMA Patiences ==
  /\ SLO \in Nat \ {0} /\ Patience \in Nat /\ HeadChunks \in Nat \ {0}
  /\ WorstWait = Patience + Patience + Patience + Patience
  /\ \A l \in Legs : /\ Deadline(l) \in Nat \ {0} /\ Deadline(l) < Saturated
                     /\ Before(l) \in Nat
                     /\ Rounds * Deadline(l) =
                          IF l = "fallback" THEN Patience + Patience ELSE Patience
                     /\ Before(l) + Rounds * Deadline(l) <= WorstWait
<1>1. SLO \in Nat \ {0} /\ Rounds \in Nat /\ HeadChunks \in Nat \ {0}
  BY GatewayConstants, DeadlineConstants DEF Rounds
<1>2. Patience \in Nat
  BY <1>1 DEF Patience
<1>3. Rounds * (SLO + SLO + 2 * SLO) = Rounds * SLO + Rounds * SLO + Rounds * SLO + Rounds * SLO
  BY <1>1
<1>4. WorstWait = Patience + Patience + Patience + Patience
  BY <1>3 DEF WorstWait, Patience, Rounds
<1>5. Rounds * (2 * SLO) = Patience + Patience
  BY <1>1 DEF Patience
<1>6. ASSUME NEW l \in Legs
      PROVE  /\ Deadline(l) \in Nat \ {0} /\ Deadline(l) < Saturated
             /\ Rounds * Deadline(l) = IF l = "fallback" THEN Patience + Patience ELSE Patience
  BY <1>1, <1>5 DEF Deadline, Saturated, Patience
<1>7. ASSUME NEW l \in Legs
      PROVE  Before(l) \in Nat /\ Before(l) + Rounds * Deadline(l) <= WorstWait
  BY <1>2, <1>4, <1>6 DEF Legs, Before
<1> QED BY <1>1, <1>2, <1>4, <1>6, <1>7

-----------------------------------------------------------------------------
(* One request *)

\* A request that is tried has its types, and fewer waits behind it than an
\* attempt has, unless the head is about to be written.
LEMMA TryingTypes ==
  ASSUME DeadlineInv, NEW r \in Requests
  PROVE  /\ waited[r] \in Nat /\ quiet[r] \in Nat /\ got[r] \in Nat /\ Over(r) \in Nat
         /\ pc[r] \in {"connect", "head"} => leg[r] \in Legs
         /\ Rounds \in Nat /\ Operations \in Nat
         /\ pc[r] = "connect" => Over(r) = made[r] /\ Over(r) < Operations /\ Over(r) < Rounds
         /\ pc[r] = "head" => /\ Over(r) = Operations + got[r] /\ Over(r) <= Rounds
                              /\ got[r] < HeadChunks => Over(r) < Rounds
<1>1. waited[r] \in Nat /\ quiet[r] \in Nat /\ got[r] \in Nat /\ made[r] \in Nat
  BY DEF DeadlineInv, ClockTypes, GatewayInv, TypeOK
<1>2. pc[r] \in {"connect", "head"} => leg[r] \in Legs
  BY DEF DeadlineInv, GatewayInv, Place, Attempting, Waiting
<1>3. /\ pc[r] = "head" => got[r] <= HeadChunks
      /\ pc[r] = "connect" => made[r] < Operations
  BY DEF DeadlineInv, Clock
<1>4. HeadChunks \in Nat \ {0} /\ Operations \in Nat \ {0}
  BY GatewayConstants, DeadlineConstants
<1> QED BY <1>1, <1>2, <1>3, <1>4 DEF Over, Rounds

\* When an attempt ends, its client has waited no longer than it was worth.
LEMMA WaitedOut ==
  ASSUME DeadlineInv, NEW r \in Requests, punctual, Trying(r)
  PROVE  waited[r] <= Before(leg[r]) + Rounds * Deadline(leg[r])
<1>0. Rounds \in Nat
  BY TryingTypes
<1> DEFINE d == Deadline(leg[r])
           b == Before(leg[r])
           o == Over(r)
<1>1. leg[r] \in Legs /\ o \in Nat /\ waited[r] \in Nat /\ quiet[r] \in Nat
  BY TryingTypes DEF Trying
<1>2. d \in Nat /\ b \in Nat /\ Rounds * d \in Nat
  BY <1>1, Patiences
<1>3. waited[r] <= b + o * d + quiet[r] /\ quiet[r] <= d
  BY DEF DeadlineInv, Clock
<1>4. ASSUME o < Rounds PROVE waited[r] <= b + Rounds * d
  <2>1. o * d \in Nat /\ o * d + d <= Rounds * d
    BY <1>0, <1>1, <1>2, <1>4, OneWaitMore
  <2> HIDE DEF d, b, o
  <2> QED BY <1>1, <1>2, <1>3, <2>1
<1>5. ASSUME ~(o < Rounds) PROVE waited[r] <= b + Rounds * d
  <2>1. pc[r] = "head" /\ ~(got[r] < HeadChunks) /\ o <= Rounds
    BY <1>5, TryingTypes DEF Trying
  <2>2. got[r] = HeadChunks
    BY <2>1, TryingTypes, GatewayConstants DEF DeadlineInv, Clock
  <2>3. quiet[r] = 0 /\ o = Rounds
    BY <2>1, <2>2, TryingTypes DEF DeadlineInv, Clock, Rounds
  <2>4. o * d = Rounds * d
    BY <2>3
  <2> HIDE DEF d, b, o
  <2> QED BY <1>1, <1>2, <1>3, <2>3, <2>4
<1> QED BY <1>4, <1>5

\* The clock of a request whose thread does nothing.
LEMMA OthersClock ==
  ASSUME NEW r \in Requests, Clock(r), punctual' = punctual,
         pc'[r] = pc[r], leg'[r] = leg[r], got'[r] = got[r], out'[r] = out[r],
         quiet'[r] = quiet[r], made'[r] = made[r], waited'[r] = waited[r]
  PROVE  Clock(r)'
BY DEF Clock, Trying, Over

\* The clock of a request that is not tried any more.
LEMMA OverClock ==
  ASSUME NEW r \in Requests, Clock(r), punctual' = punctual, waited'[r] = waited[r],
         pc'[r] \in {"relay", "stream", "reply503", "log", "done"}
  PROVE  Clock(r)'
BY DEF Clock, Trying

\* An attempt that fails hands on a client that has waited no longer than it may
\* when the next one begins.
LEMMA FailClock ==
  ASSUME DeadlineInv, NEW r \in Requests, NEW cause \in Causes, Fail(r, cause),
         pc[r] \in Attempting, Meanwhile(r), punctual' = punctual, waited' = waited
  PROVE  Clock(r)'
<1> DEFINE next == NextLeg(leg[r], Exception(cause))
<1>1. Clock(r) /\ TypeOK /\ Place(r) /\ Sent(r) /\ ClockTypes
  BY DEF DeadlineInv, GatewayInv
<1>2. CASE next = "none"
  <2>1. pc'[r] = "reply503"
    BY <1>1, <1>2 DEF Fail, TypeOK
  <2> QED BY <1>1, <2>1, OverClock
<1>3. CASE next # "none"
  <2>1. leg[r] \in Legs
    BY <1>1 DEF Place
  <2>2. next \in Legs /\ next # leg[r]
        /\ (next = "retry" => leg[r] = "primary")
        /\ (next = "fallback" => leg[r] \in {"primary", "retry"})
        /\ next # "primary"
    BY <1>3, <2>1 DEF NextLeg, Legs
  <2> HIDE DEF next
  <2>3. Attempt(r, next) /\ out' = out
    BY <1>3 DEF Fail, next
  <2>4. pc'[r] = "connect" /\ leg'[r] = next /\ quiet'[r] = 0 /\ got'[r] = 0
    BY <1>1, <2>3 DEF Attempt, TypeOK
  <2>5. made'[r] = 0
    BY <1>1, <2>2, <2>4 DEF Meanwhile, ClockTypes
  <2>6. Over(r)' = 0
    BY <2>4, <2>5 DEF Over
  <2>7. Deadline(next) \in Nat /\ Before(next) \in Nat /\ 0 * Deadline(next) = 0
    BY <2>2, Patiences
  <2>8. punctual /\ Trying(r)' => waited[r] <= Before(next)
    <3> SUFFICES ASSUME punctual, Trying(r)' PROVE waited[r] <= Before(next)
      OBVIOUS
    <3>1. out[r] = << >> /\ (Trying(r) \/ pc[r] = "send")
      BY <1>1, <2>3 DEF Trying, Sent, Attempting, Waiting
    <3>2. waited[r] <= Before(leg[r]) + Rounds * Deadline(leg[r])
      BY <1>1, <3>1, WaitedOut DEF Clock
    <3>3. Before(leg[r]) + Rounds * Deadline(leg[r]) <= Before(next)
      <4>1. leg[r] \in {"primary", "retry"} /\ Rounds * Deadline(leg[r]) = Patience
        BY <2>1, <2>2, Patiences DEF Legs
      <4>2. \/ leg[r] = "primary" /\ next \in {"retry", "fallback"}
            \/ leg[r] = "retry" /\ next = "fallback"
        BY <2>2, <4>1 DEF Legs
      <4> HIDE DEF Patience
      <4> QED BY <4>1, <4>2, Patiences DEF Before
    <3>4. waited[r] \in Nat /\ Before(leg[r]) \in Nat /\ Rounds * Deadline(leg[r]) \in Nat
      BY <2>1, Patiences, TryingTypes
    <3> QED BY <2>7, <3>2, <3>3, <3>4
  <2>9. made'[r] < Operations
    BY <2>5, DeadlineConstants
  <2> QED BY <1>1, <2>4, <2>6, <2>7, <2>8, <2>9 DEF Clock
<1> QED BY <1>2, <1>3

\* What a step of one thread leaves of another.
Same(q) ==
  pc'[q] = pc[q] /\ leg'[q] = leg[q] /\ got'[q] = got[q] /\ out'[q] = out[q] /\ quiet'[q] = quiet[q]

LEMMA FailAlone ==
  ASSUME TypeOK, NEW r \in Requests, NEW cause, Fail(r, cause), NEW q \in Requests, q # r
  PROVE  Same(q)
BY DEF Fail, Attempt, TypeOK, Same

LEMMA ThreadAlone ==
  ASSUME TypeOK, NEW r \in Requests, Admit(r) \/ Refuse(r) \/ Serve(r) \/ Environment(r),
         NEW q \in Requests, q # r
  PROVE  Same(q)
<1>1. CASE Admit(r) \/ Refuse(r)
  BY <1>1 DEF Admit, Refuse, Attempt, TypeOK, Same
<1>2. ASSUME NEW cause, Fail(r, cause) PROVE Same(q)
  BY <1>2, FailAlone
<1>3. CASE SocketTimeout(r) \/ StreamTimeout(r) \/ ConnectionError(r) \/ ServerError(r)
           \/ KernelTimeout(r) \/ StreamBreaks(r)
  BY <1>2, <1>3 DEF SocketTimeout, StreamTimeout, ConnectionError, ServerError, KernelTimeout,
                    TimedOut, StreamBreaks
<1>4. CASE HeadFull(r) \/ HeadIsAll(r) \/ Send(r) \/ Relay(r)
  BY <1>2, <1>4 DEF HeadFull, HeadIsAll, HeadRead, Send, Relay, WriteFails, TypeOK, Same
<1>5. CASE Reply429(r) \/ Reply503(r) \/ Log(r) \/ HangUp(r) \/ Stall(r) \/ Resume(r)
  BY <1>5 DEF Reply429, Reply503, Log, HangUp, Stall, Resume, TypeOK, Same
<1>6. CASE (\E s \in {"ok", "4xx"} : Status(r, s)) \/ HeadChunk(r) \/ StreamChunk(r) \/ StreamEnd(r)
  BY <1>6 DEF Status, HeadChunk, StreamChunk, StreamEnd, TypeOK, Same
<1> QED BY <1>1, <1>3, <1>4, <1>5, <1>6 DEF Serve, Environment

\* Every step of a thread keeps its client's clock within bounds.
LEMMA ThreadClock ==
  ASSUME DeadlineInv, NEW r \in Requests, Admit(r) \/ Refuse(r) \/ Serve(r) \/ Environment(r),
         Meanwhile(r), punctual' = punctual, waited' = waited
  PROVE  Clock(r)'
<1>1. Clock(r) /\ TypeOK /\ Place(r) /\ Sent(r) /\ ClockTypes
  BY DEF DeadlineInv, GatewayInv
<1>2. ASSUME NEW cause \in Causes, Fail(r, cause), pc[r] \in Attempting PROVE Clock(r)'
  BY <1>2, FailClock
<1>3. CASE Admit(r)
  <2>1. pc'[r] = "connect" /\ leg'[r] = "primary" /\ quiet'[r] = 0 /\ got'[r] = 0 /\ waited[r] = 0
    BY <1>1, <1>3 DEF Admit, Attempt, TypeOK, Clock
  <2>2. leg[r] = "none"
    BY <1>1, <1>3 DEF Admit, Place
  <2>3. made'[r] = 0 /\ made'[r] < Operations
    BY <1>1, <2>1, <2>2, DeadlineConstants DEF Meanwhile, ClockTypes
  <2>4. Deadline("primary") \in Nat /\ Before("primary") = 0 /\ WorstWait \in Nat
    BY Patiences DEF Before, Legs
  <2>5. Over(r)' = 0 /\ 0 * Deadline("primary") = 0
    BY <2>1, <2>3, <2>4 DEF Over
  <2> QED BY <2>1, <2>3, <2>4, <2>5, Patiences DEF Clock
<1>4. CASE Refuse(r)
  <2>1. pc'[r] = "reply429" /\ waited[r] = 0
    BY <1>1, <1>4 DEF Refuse, TypeOK, Clock
  <2> QED BY <1>1, <2>1 DEF Clock, Trying
<1>5. CASE SocketTimeout(r) \/ StreamTimeout(r) \/ ConnectionError(r) \/ ServerError(r)
           \/ KernelTimeout(r) \/ StreamBreaks(r)
  BY <1>2, <1>5 DEF SocketTimeout, StreamTimeout, ConnectionError, ServerError, KernelTimeout,
                    TimedOut, StreamBreaks, Attempting, Waiting, Causes
<1>6. CASE HeadFull(r) \/ HeadIsAll(r)
  <2>1. pc[r] = "head"
    BY <1>6 DEF HeadFull, HeadIsAll
  <2>2. CASE Fail(r, "breach")
    BY <1>2, <2>1, <2>2 DEF Attempting, Waiting, Causes
  <2>3. CASE pc' = [pc EXCEPT ![r] = "send"] /\ leg' = leg /\ out' = out
    <3>1. pc'[r] = "send"
      BY <1>1, <2>3 DEF TypeOK
    <3>2. punctual /\ out[r] = << >> =>
            waited[r] <= Before(leg[r]) + Rounds * Deadline(leg[r])
      BY <2>1, WaitedOut DEF Trying
    <3> QED BY <1>1, <2>3, <3>1, <3>2 DEF Clock, Trying
  <2> QED BY <1>6, <2>2, <2>3 DEF HeadFull, HeadIsAll, HeadRead
<1>7. CASE Reply429(r) \/ Reply503(r) \/ Log(r) \/ StreamChunk(r) \/ StreamEnd(r)
  <2>1. pc'[r] \in {"relay", "stream", "reply503", "log", "done"}
    BY <1>1, <1>7 DEF Reply429, Reply503, Log, StreamChunk, StreamEnd, TypeOK
  <2> QED BY <1>1, <2>1, OverClock
<1>8. CASE Send(r) \/ Relay(r)
  <2>1. pc[r] \in Attempting
    BY <1>8 DEF Send, Relay, Attempting
  <2>2. CASE WriteFails(r)
    BY <1>2, <2>1, <2>2 DEF WriteFails, Causes
  <2>3. CASE ~WriteFails(r)
    <3>1. pc'[r] \in {"relay", "stream", "log"}
      BY <1>1, <1>8, <2>3 DEF Send, Relay, TypeOK
    <3> QED BY <1>1, <3>1, OverClock
  <2> QED BY <2>2, <2>3
<1>9. ASSUME NEW s \in {"ok", "4xx"}, Status(r, s) PROVE Clock(r)'
  <2> DEFINE d == Deadline(leg[r])
             b == Before(leg[r])
             o == Over(r)
  <2>1. pc[r] = "connect" /\ pc'[r] = "head" /\ quiet'[r] = 0 /\ got[r] = 0
        /\ got' = got /\ leg' = leg /\ out' = out
    BY <1>1, <1>9 DEF Status, TypeOK, Clock
  <2>2. Over(r)' = Operations /\ Trying(r)' = Trying(r)
    BY <2>1, DeadlineConstants DEF Over, Trying
  <2>3. leg[r] \in Legs /\ o \in Nat /\ Operations \in Nat /\ o < Operations
        /\ waited[r] \in Nat /\ quiet[r] \in Nat
    BY <2>1, TryingTypes
  <2>4. d \in Nat /\ b \in Nat /\ HeadChunks \in Nat \ {0}
    BY <2>3, Patiences
  <2>5. punctual /\ Trying(r) => waited[r] <= b + o * d + quiet[r] /\ quiet[r] <= d
    BY <1>1 DEF Clock
  <2>6. punctual /\ Trying(r) => waited[r] <= b + Operations * d
    <3>1. o * d \in Nat /\ o * d + d <= Operations * d /\ Operations * d \in Nat
      BY <2>3, <2>4, OneWaitMore
    <3> HIDE DEF d, b, o
    <3> QED BY <2>3, <2>4, <2>5, <3>1
  <2>7. punctual /\ Trying(r)' => waited'[r] <= b + Operations * d + 0
    <3>1. Operations * d \in Nat
      BY <2>3, <2>4
    <3> HIDE DEF d, b, o
    <3> QED BY <2>2, <2>3, <2>4, <2>6, <3>1
  <2> QED BY <1>1, <2>1, <2>2, <2>4, <2>7 DEF Clock
<1>10. CASE HeadChunk(r)
  <2> DEFINE d == Deadline(leg[r])
             b == Before(leg[r])
             o == Over(r)
  <2>1. pc[r] = "head" /\ pc' = pc /\ quiet'[r] = 0 /\ got[r] < HeadChunks
        /\ got'[r] = got[r] + 1 /\ leg' = leg /\ out' = out
    BY <1>1, <1>10 DEF HeadChunk, TypeOK
  <2>2. leg[r] \in Legs /\ o = Operations + got[r] /\ o \in Nat /\ o < Rounds
        /\ Rounds \in Nat /\ Operations \in Nat
        /\ waited[r] \in Nat /\ quiet[r] \in Nat /\ got[r] \in Nat
    BY <2>1, TryingTypes
  <2>3. d \in Nat /\ b \in Nat /\ HeadChunks \in Nat \ {0}
    BY <2>2, Patiences
  <2>4. Over(r)' = o + 1 /\ Trying(r)' = Trying(r)
    BY <2>1, <2>2 DEF Over, Trying
  <2>5. punctual /\ Trying(r) => waited[r] <= b + o * d + quiet[r] /\ quiet[r] <= d
    BY <1>1 DEF Clock
  <2>6. o * d \in Nat /\ (o + 1) * d = o * d + d
    BY <2>2, <2>3, OneWaitMore
  <2>7. punctual /\ Trying(r)' => waited'[r] <= b + (o + 1) * d + 0
    <3> HIDE DEF d, b, o
    <3> QED BY <2>2, <2>3, <2>4, <2>5, <2>6
  <2> QED BY <1>1, <2>1, <2>2, <2>3, <2>4, <2>7 DEF Clock
<1>11. CASE HangUp(r) \/ Stall(r) \/ Resume(r)
  <2>1. pc' = pc /\ leg' = leg /\ got' = got /\ out' = out /\ quiet' = quiet
    BY <1>11 DEF HangUp, Stall, Resume
  <2>2. pc[r] = "connect" => made'[r] = made[r]
    BY <1>1, <2>1 DEF Meanwhile, ClockTypes
  <2>3. Over(r)' = Over(r) \/ pc[r] \notin {"connect", "head"}
    BY <2>1, <2>2 DEF Over
  <2> QED BY <1>1, <2>1, <2>2, <2>3 DEF Clock, Trying
<1> QED BY <1>3, <1>4, <1>5, <1>6, <1>7, <1>8, <1>9, <1>10, <1>11 DEF Serve, Environment

-----------------------------------------------------------------------------
(* The invariant *)

\* Nobody has waited yet.
LEMMA DeadlineStarts == DeadlineInit => DeadlineInv
<1> SUFFICES ASSUME DeadlineInit PROVE DeadlineInv
  OBVIOUS
<1>1. GatewayInv
  BY GatewayInitially DEF DeadlineInit
<1>2. ClockTypes
  BY DEF DeadlineInit, ClockTypes
<1>3. ASSUME NEW r \in Requests PROVE Clock(r)
  BY <1>3, Patiences DEF DeadlineInit, Init, Clock, Trying
<1> QED BY <1>1, <1>2, <1>3 DEF DeadlineInv

\* Time passes for those who wait, but where threads are punctual not beyond a
\* deadline.
LEMMA PassesKeeps ==
  ASSUME DeadlineInv, Passes, punctual' = punctual
  PROVE  DeadlineInv'
<1>1. TypeOK /\ ClockTypes /\ GatewayInv
  BY DEF DeadlineInv, GatewayInv
<1>2. GatewayInv'
  BY <1>1, GatewayStepInv DEF Passes, Next
<1>3. WorstWait \in Nat
  BY Patiences
<1>4. ASSUME NEW r \in Requests
      PROVE  waited'[r] \in Nat /\ waited'[r] \in {waited[r], waited[r] + 1}
             /\ (waited'[r] # waited[r] => punctual /\ Waits(r))
  BY <1>1, <1>3 DEF Passes, ClockTypes
<1>5. ClockTypes'
  <2>1. waited' \in [Requests -> Nat]
    BY <1>4 DEF Passes
  <2> QED BY <1>1, <2>1 DEF Passes, ClockTypes
<1>6. /\ pc' = pc /\ leg' = leg /\ got' = got /\ out' = out /\ made' = made
      /\ \A r \in Requests : quiet'[r] = IF pc[r] \in Waiting THEN Later(quiet[r]) ELSE quiet[r]
  BY <1>1 DEF Passes, Tick, TypeOK
<1>7. ASSUME NEW r \in Requests PROVE Clock(r)'
  <2> DEFINE d == Deadline(leg[r])
             b == Before(leg[r])
             o == Over(r)
  <2>1. Clock(r) /\ Sent(r) /\ waited[r] \in Nat
    BY <1>1 DEF DeadlineInv, GatewayInv, ClockTypes
  <2>2. CASE punctual /\ Trying(r)
    <3>1. leg[r] \in Legs /\ o \in Nat /\ quiet[r] \in Nat /\ pc[r] \in Waiting
      BY <2>2, TryingTypes DEF Trying, Waiting
    <3>2. d \in Nat /\ d < Saturated /\ b \in Nat /\ b + Rounds * d <= WorstWait /\ Saturated \in Nat
      BY <3>1, Patiences DEF Saturated
    <3>3. ~(quiet[r] >= d) /\ ~(pc[r] = "head" /\ got[r] = HeadChunks)
      BY <2>2, <3>1 DEF Passes, Due
    <3>4. o < Rounds
      <4>1. CASE pc[r] = "connect"
        BY <4>1, TryingTypes
      <4>2. CASE pc[r] = "head"
        BY <2>1, <3>3, <4>2, TryingTypes, GatewayConstants DEF Clock
      <4> QED BY <2>2, <4>1, <4>2 DEF Trying
    <3>5. o * d \in Nat /\ o * d + d <= Rounds * d /\ Rounds * d \in Nat
      BY <3>2, <3>4, <3>1, OneWaitMore, Patiences, TryingTypes
    <3>6. waited[r] <= b + o * d + quiet[r]
      BY <2>1, <2>2 DEF Clock
    <3>7. quiet'[r] = quiet[r] + 1
      <4> HIDE DEF d
      <4> QED BY <1>6, <3>1, <3>2, <3>3 DEF Later
    <3>8. /\ quiet'[r] <= d /\ waited'[r] <= b + o * d + quiet'[r]
          /\ waited'[r] <= WorstWait
      <4> HIDE DEF d, b, o
      <4> QED BY <1>3, <1>4, <2>1, <3>1, <3>2, <3>3, <3>5, <3>6, <3>7
    <3>9. Over(r)' = o /\ Trying(r)'
      BY <1>6, <2>2 DEF Over, Trying
    <3>10. pc[r] \notin {"limiter", "reply429", "send"}
      BY <2>2 DEF Trying
    <3> QED BY <1>6, <2>1, <2>2, <3>3, <3>8, <3>9, <3>10 DEF Clock
  <2>3. CASE ~(punctual /\ Trying(r))
    <3>1. ~(punctual /\ Waits(r))
      BY <2>1, <2>3 DEF Waits, Waiting, Trying, Sent
    <3>2. waited'[r] = waited[r]
      BY <1>4, <3>1
    <3>3. ~(punctual' /\ Trying(r)')
      BY <1>6, <2>3 DEF Trying
    <3> QED BY <1>6, <2>1, <3>2, <3>3 DEF Clock
  <2> QED BY <2>2, <2>3
<1> QED BY <1>2, <1>5, <1>7 DEF DeadlineInv

\* An operation done is one wait less.
LEMMA OperationKeeps ==
  ASSUME DeadlineInv, NEW r \in Requests, Operation(r), waited' = waited, punctual' = punctual
  PROVE  DeadlineInv'
<1>1. TypeOK /\ ClockTypes /\ Clock(r)
  BY DEF DeadlineInv, GatewayInv
<1>2. /\ pc[r] = "connect" /\ made[r] + 1 < Operations /\ made' = [made EXCEPT ![r] = made[r] + 1]
      /\ quiet' = [quiet EXCEPT ![r] = 0]
      /\ pc' = pc /\ leg' = leg /\ age' = age /\ firstAge' = firstAge /\ got' = got
      /\ status' = status /\ reason' = reason /\ out' = out /\ gone' = gone
      /\ stuck' = stuck /\ fails' = fails /\ log' = log
  BY DEF Operation
<1>3. GatewayInv'
  <2>1. TypeOK'
    <3>1. 0 \in 0..Saturated
      BY GatewayConstants DEF Saturated
    <3>2. quiet' \in [Requests -> 0..Saturated]
      BY <1>1, <1>2, <3>1 DEF TypeOK
    <3> QED BY <1>1, <1>2, <3>2 DEF TypeOK
  <2>2. ASSUME NEW q \in Requests PROVE Place(q)' /\ History(q)' /\ Received(q)' /\ Sent(q)'
    BY <1>2, UntouchedKeeps DEF DeadlineInv, GatewayInv, Untouched
  <2> QED BY <2>1, <2>2 DEF GatewayInv
<1>4. ClockTypes'
  BY <1>1, <1>2 DEF ClockTypes
<1>5. Clock(r)'
  <2> DEFINE d == Deadline(leg[r])
             b == Before(leg[r])
             o == Over(r)
  <2>1. leg[r] \in Legs /\ waited[r] \in Nat /\ quiet[r] \in Nat /\ o = made[r] /\ o \in Nat
        /\ o < Rounds /\ Rounds \in Nat
    BY <1>2, TryingTypes
  <2>2. d \in Nat /\ b \in Nat
    BY <2>1, Patiences
  <2>3. made'[r] = made[r] + 1 /\ quiet'[r] = 0
    BY <1>1, <1>2 DEF ClockTypes, TypeOK
  <2>4. Over(r)' = o + 1 /\ Trying(r)' = Trying(r)
    BY <1>2, <2>1, <2>3 DEF Over, Trying
  <2>5. punctual /\ Trying(r) => waited[r] <= b + o * d + quiet[r] /\ quiet[r] <= d
    BY <1>1 DEF Clock
  <2>6. o * d \in Nat /\ (o + 1) * d = o * d + d
    BY <2>1, <2>2, OneWaitMore
  <2>7. punctual /\ Trying(r) => waited'[r] <= b + (o + 1) * d + 0
    <3> HIDE DEF d, b, o
    <3> QED BY <2>1, <2>2, <2>5, <2>6
  <2> HIDE DEF o
  <2> QED BY <1>1, <1>2, <2>2, <2>3, <2>4, <2>7 DEF Clock
<1>6. ASSUME NEW q \in Requests, q # r PROVE Clock(q)'
  <2>1. made'[q] = made[q] /\ quiet'[q] = quiet[q]
    BY <1>1, <1>2, <1>6 DEF ClockTypes, TypeOK
  <2> QED BY <1>2, <2>1, OthersClock DEF DeadlineInv
<1> QED BY <1>3, <1>4, <1>5, <1>6 DEF DeadlineInv

\* Every step keeps both the gateway's invariant and the clock's.
LEMMA DeadlineKeeps == DeadlineInv /\ [DeadlineNext]_deadlineVars => DeadlineInv'
<1> SUFFICES ASSUME DeadlineInv, [DeadlineNext]_deadlineVars PROVE DeadlineInv'
  OBVIOUS
<1>1. CASE Passes /\ punctual' = punctual
  BY <1>1, PassesKeeps
<1>2. ASSUME NEW r \in Requests, Operation(r), waited' = waited, punctual' = punctual
      PROVE  DeadlineInv'
  BY <1>2, OperationKeeps
<1>3. ASSUME NEW r \in Requests, Admit(r) \/ Refuse(r) \/ Serve(r) \/ Environment(r),
             Meanwhile(r), waited' = waited, punctual' = punctual
      PROVE  DeadlineInv'
  <2>1. GatewayInv'
    BY <1>3, GatewayStepInv DEF DeadlineInv, Next
  <2>2. TypeOK /\ ClockTypes
    BY DEF DeadlineInv, GatewayInv
  <2>3. ClockTypes'
    <3>1. made' \in [Requests -> Nat]
      BY <1>3, <2>2 DEF Meanwhile, ClockTypes
    <3> QED BY <1>3, <2>2, <3>1 DEF ClockTypes
  <2>4. Clock(r)'
    BY <1>3, ThreadClock
  <2>5. ASSUME NEW q \in Requests, q # r PROVE Clock(q)'
    <3>1. Same(q)
      BY <1>3, <2>2, <2>5, ThreadAlone
    <3>2. made'[q] = made[q]
      BY <1>3, <2>2, <2>5 DEF Meanwhile, ClockTypes
    <3> QED BY <1>3, <3>1, <3>2, OthersClock DEF Same, DeadlineInv
  <2> QED BY <2>1, <2>3, <2>4, <2>5 DEF DeadlineInv
<1>4. CASE UNCHANGED deadlineVars
  <2>1. UNCHANGED gatewayVars /\ punctual' = punctual /\ made' = made /\ waited' = waited
    BY <1>4 DEF deadlineVars
  <2>2. GatewayInv'
    BY <2>1, GatewayStepInv DEF DeadlineInv
  <2>3. ClockTypes'
    BY <2>1 DEF DeadlineInv, ClockTypes
  <2>4. ASSUME NEW q \in Requests PROVE Clock(q)'
    BY <2>1, OthersClock DEF DeadlineInv, gatewayVars
  <2> QED BY <2>2, <2>3, <2>4 DEF DeadlineInv
<1> QED BY <1>1, <1>2, <1>3, <1>4 DEF DeadlineNext, Others

\* The invariant holds of every reachable state.
LEMMA DeadlineInvariant == DeadlineSpec => []DeadlineInv
BY DeadlineStarts, DeadlineKeeps, PTL DEF DeadlineSpec

-----------------------------------------------------------------------------
(* What a reader may rely on *)

\* Whatever _relay_from meets on whichever attempt, a client has a response head
\* when the timeouts of all operations before the body and of HeadChunks reads of
\* every attempt have passed, if the gateway's threads run when they can.
THEOREM DeadlineBound == DeadlineSpec => []WaitBound
<1>1. DeadlineInv => WaitBound
  BY DEF DeadlineInv, Clock, WaitBound
<1> QED BY <1>1, DeadlineInvariant, PTL

\* What is shown of log and failover does not depend on the clock of
\* the socket: it holds when its operations are told apart as well.
THEOREM DeadlineKeepsTruth == DeadlineSpec => [](LogTellsTruth /\ NoHastyFailover)
<1>1. DeadlineInv => LogTellsTruth /\ NoHastyFailover
  BY DEF DeadlineInv, GatewayInv, Sent, History, LogTellsTruth, NoHastyFailover
<1> QED BY <1>1, DeadlineInvariant, PTL
=============================================================================
