------------------------------ MODULE Gateway ------------------------------
(***************************************************************************)
(* The degradation chain of p13-ai-gateway/gateway.py: do_POST, _serve,    *)
(* _relay_from and relay, one thread per request.  The answer of the rate  *)
(* limiter is a choice here; RateLimiter.tla models it.                    *)
(*                                                                         *)
(* Time is counted per attempt: age, the ticks since the attempt began,    *)
(* and quiet, the ticks since its socket last made progress.  Both stop at *)
(* Saturated, beyond every threshold the code compares them with, which    *)
(* keeps the model finite without bounding the run.  A response body is a  *)
(* number of chunks: HeadChunks of them fill the 64 KB that relay() reads  *)
(* before anything is sent on, MaxChunks is the longest body considered.   *)
(***************************************************************************)
EXTENDS Integers, Sequences

CONSTANTS Requests,
          HasFallback,  \* whether --fallback is given
          SLO,          \* --slo-ms, in ticks
          HeadChunks,   \* chunks that fill resp.read(65536)
          MaxChunks,    \* bound on the chunks of one response
          NoEntry       \* a request that is not in the JSONL log

\* The fields of a log line that the other projects read.
Entries == [route : {"rate_limited", "primary", "fallback", "error"},
            breach : BOOLEAN]

ASSUME GatewayConstants ==
  /\ HasFallback \in BOOLEAN
  /\ SLO \in Nat \ {0}
  /\ HeadChunks \in Nat \ {0} /\ MaxChunks \in Nat /\ HeadChunks <= MaxChunks
  /\ NoEntry \notin Entries

VARIABLES pc,        \* where the thread of a request is
          leg,       \* the attempt it is making
          age,       \* ticks since _relay_from was entered
          quiet,     \* ticks since the backend's socket last made progress
          firstAge,  \* history: age at the first chunk, NoChunk before it
          got,       \* chunks read in this attempt
          status,    \* class of the backend's status line
          reason,    \* last_err, by the class of exception that set it
          out,       \* response heads written to the client, in order
          gone,      \* the client has hung up
          stuck,     \* the thread is blocked on a client that neither reads nor writes
          fails,     \* history: what ended each failed attempt
          log        \* the request's line in the JSONL log

threadVars == <<pc, leg, age, quiet, firstAge, got, status, reason>>
gatewayVars == <<pc, leg, age, quiet, firstAge, got, status, reason,
                 out, gone, stuck, fails, log>>

\* A thread that waits for its backend does so under the timeout of the attempt's
\* socket.  The client's socket has none: reading the request body and each write
\* of an answer blocks for as long as the client stalls.
Legs == {"primary", "retry", "fallback"}
Waiting == {"connect", "head", "stream"}
AtClient == {"limiter", "reply429", "send", "relay", "reply503"}
NoChunk == -1

\* The socket timeout of an attempt: slo_s, twice that on the fallback.
MutFallbackUntimed(l) == IF l = "fallback" THEN 4 * SLO ELSE SLO
Deadline(l) == IF l = "fallback" THEN 2 * SLO ELSE SLO
Saturated == 2 * SLO + 1
Later(x) == IF x < Saturated THEN x + 1 ELSE x

\* "conn" stands for every exception of the first except clause of _serve while
\* the response is awaited, "broken" for one while it is streamed, "hangup" for
\* a write to a client that is gone.
Causes == {"conn", "5xx", "breach", "broken", "hangup"}

TypeOK ==
  /\ pc \in [Requests -> Waiting \cup AtClient \cup {"log", "done"}]
  /\ leg \in [Requests -> Legs \cup {"none"}]
  /\ age \in [Requests -> 0..Saturated]
  /\ quiet \in [Requests -> 0..Saturated]
  /\ firstAge \in [Requests -> {NoChunk} \cup 0..Saturated]
  /\ got \in [Requests -> 0..MaxChunks]
  /\ status \in [Requests -> {"none", "ok", "4xx"}]
  /\ reason \in [Requests -> {"none", "conn", "5xx", "breach"}]
  /\ out \in [Requests -> Seq(Legs \cup {"429", "503"})]
  /\ gone \in [Requests -> BOOLEAN]
  /\ stuck \in [Requests -> BOOLEAN]
  /\ fails \in [Requests -> Seq(Causes)]
  /\ log \in [Requests -> Entries \cup {NoEntry}]

Init ==
  /\ pc = [r \in Requests |-> "limiter"]
  /\ leg = [r \in Requests |-> "none"]
  /\ age = [r \in Requests |-> 0]
  /\ quiet = [r \in Requests |-> 0]
  /\ firstAge = [r \in Requests |-> NoChunk]
  /\ got = [r \in Requests |-> 0]
  /\ status = [r \in Requests |-> "none"]
  /\ reason = [r \in Requests |-> "none"]
  /\ out = [r \in Requests |-> << >>]
  /\ gone = [r \in Requests |-> FALSE]
  /\ stuck = [r \in Requests |-> FALSE]
  /\ fails = [r \in Requests |-> << >>]
  /\ log = [r \in Requests |-> NoEntry]

-----------------------------------------------------------------------------
(* The limiter's answer, once the body has been read *)

\* The bucket is empty: the line is logged first, then 429 is sent.
Refuse(r) ==
  /\ pc[r] = "limiter" /\ ~stuck[r]
  /\ log' = [log EXCEPT ![r] = [route |-> "rate_limited", breach |-> FALSE]]
  /\ pc' = [pc EXCEPT ![r] = "reply429"]
  /\ UNCHANGED <<leg, age, quiet, firstAge, got, status, reason, out, gone, stuck, fails>>

Reply429(r) ==
  /\ pc[r] = "reply429" /\ ~stuck[r]
  /\ pc' = [pc EXCEPT ![r] = "done"]
  /\ \/ out' = [out EXCEPT ![r] = Append(@, "429")]
     \/ gone[r] /\ UNCHANGED out
  /\ UNCHANGED <<leg, age, quiet, firstAge, got, status, reason, gone, stuck, fails, log>>

\* _relay_from for leg l starts its clock and opens a connection.
Attempt(r, l) ==
  /\ pc' = [pc EXCEPT ![r] = "connect"]
  /\ leg' = [leg EXCEPT ![r] = l]
  /\ age' = [age EXCEPT ![r] = 0]
  /\ quiet' = [quiet EXCEPT ![r] = 0]
  /\ firstAge' = [firstAge EXCEPT ![r] = NoChunk]
  /\ got' = [got EXCEPT ![r] = 0]
  /\ status' = [status EXCEPT ![r] = "none"]

Admit(r) ==
  /\ pc[r] = "limiter" /\ ~stuck[r]
  /\ Attempt(r, "primary")
  /\ UNCHANGED <<reason, out, gone, stuck, fails, log>>

-----------------------------------------------------------------------------
(* Failing attempts: the except clauses of _serve *)

\* The exception class a cause is to _serve: a stream that breaks and a client
\* that hangs up are OSErrors like a refused connection.
MutExceptionByName(cause) == cause
MutStreamBreach(cause) == IF cause = "broken" THEN "breach"
                          ELSE IF cause = "hangup" THEN "conn" ELSE cause
Exception(cause) == IF cause \in {"broken", "hangup"} THEN "conn" ELSE cause

\* After a connection error on the first attempt the primary is retried; any
\* other failure of the primary goes to the fallback, if there is one.
MutNeverRetry(l, exc) == IF l # "fallback" /\ HasFallback THEN "fallback" ELSE "none"
MutRetryAnyLeg(l, exc) == IF exc = "conn" THEN "retry"
                          ELSE IF l # "fallback" /\ HasFallback THEN "fallback" ELSE "none"
NextLeg(l, exc) == IF l = "primary" /\ exc = "conn" THEN "retry"
                   ELSE IF l # "fallback" /\ HasFallback THEN "fallback"
                   ELSE "none"

Fail(r, cause) ==
  LET exc == Exception(cause)
      next == NextLeg(leg[r], exc) IN
  /\ fails' = [fails EXCEPT ![r] = Append(@, cause)]
  /\ reason' = [reason EXCEPT ![r] = IF leg[r] = "fallback" THEN @ ELSE exc]
  /\ \/ next # "none" /\ Attempt(r, next)
     \/ /\ next = "none"
        /\ pc' = [pc EXCEPT ![r] = "reply503"]
        /\ leg' = [leg EXCEPT ![r] = "none"]
        /\ UNCHANGED <<age, quiet, firstAge, got, status>>
  /\ UNCHANGED <<out, gone, stuck, log>>

\* Refused, reset, or not HTTP, before the head is complete.
ConnectionError(r) == pc[r] \in {"connect", "head"} /\ Fail(r, "conn")

ServerError(r) == pc[r] = "connect" /\ Fail(r, "5xx")

\* A timeout before the head is complete is a breach of the SLO if 0.9 of it has
\* passed, an error of the connection otherwise.
TimedOut(r) == Fail(r, IF 10 * age[r] >= 9 * SLO THEN "breach" ELSE "conn")

\* The socket's own deadline ...
SocketTimeout(r) == /\ pc[r] = "connect" \/ (pc[r] = "head" /\ got[r] < HeadChunks)
                    /\ quiet[r] >= Deadline(leg[r])
                    /\ TimedOut(r)

\* ... and the kernel's ETIMEDOUT, which Python raises as TimeoutError too.
KernelTimeout(r) == pc[r] = "connect" /\ TimedOut(r)

\* The relay loop runs outside _relay_from's try: whatever goes wrong in it is
\* one more failed attempt to _serve, head sent or not.
StreamTimeout(r) == /\ pc[r] = "stream"
                    /\ quiet[r] >= Deadline(leg[r])
                    /\ Fail(r, "broken")
StreamBreaks(r) == pc[r] = "stream" /\ Fail(r, "broken")

-----------------------------------------------------------------------------
(* Attempts that get somewhere *)

\* getresponse(): a status line below 500.
Status(r, s) ==
  /\ pc[r] = "connect"
  /\ pc' = [pc EXCEPT ![r] = "head"]
  /\ status' = [status EXCEPT ![r] = s]
  /\ quiet' = [quiet EXCEPT ![r] = 0]
  /\ UNCHANGED <<leg, age, firstAge, got, reason, out, gone, stuck, fails, log>>

\* A chunk arrives; resp.read(65536) goes on waiting for 64 KB or the end.
HeadChunk(r) ==
  /\ pc[r] = "head" /\ got[r] < HeadChunks
  /\ got' = [got EXCEPT ![r] = @ + 1]
  /\ quiet' = [quiet EXCEPT ![r] = 0]
  /\ firstAge' = [firstAge EXCEPT ![r] = IF @ = NoChunk THEN age[r] ELSE @]
  /\ UNCHANGED <<pc, leg, age, status, reason, out, gone, stuck, fails, log>>

\* The head is read: a primary over the SLO is abandoned, anything else goes to
\* the client.
HeadRead(r) ==
  LET late == age[r] > SLO /\ leg[r] # "fallback" IN
  \/ late /\ Fail(r, "breach")
  \/ /\ ~late
     /\ pc' = [pc EXCEPT ![r] = "send"]
     /\ UNCHANGED <<leg, age, quiet, firstAge, got, status, reason, out, gone, stuck,
                    fails, log>>

HeadFull(r) == pc[r] = "head" /\ got[r] = HeadChunks /\ HeadRead(r)

\* The body ends within the head.
HeadIsAll(r) == pc[r] = "head" /\ got[r] < HeadChunks /\ HeadRead(r)

\* A write to a client that is gone raises OSError, or is lost in the kernel.
WriteFails(r) == gone[r] /\ Fail(r, "hangup")

\* end_headers() writes the response head.
Send(r) ==
  /\ pc[r] = "send" /\ ~stuck[r]
  /\ \/ WriteFails(r)
     \/ /\ out' = [out EXCEPT ![r] = Append(@, leg[r])]
        /\ pc' = [pc EXCEPT ![r] = IF got[r] = 0 THEN "log" ELSE "relay"]
        /\ UNCHANGED <<leg, age, quiet, firstAge, got, status, reason, gone, stuck,
                       fails, log>>

\* The bytes read are written; a head that was not full is all there is to read.
Relay(r) ==
  /\ pc[r] = "relay" /\ ~stuck[r]
  /\ \/ WriteFails(r)
     \/ /\ pc' = [pc EXCEPT ![r] = IF got[r] < HeadChunks THEN "log" ELSE "stream"]
        /\ quiet' = [quiet EXCEPT ![r] = 0]
        /\ UNCHANGED <<leg, age, firstAge, got, status, reason, out, gone, stuck,
                       fails, log>>

StreamChunk(r) ==
  /\ pc[r] = "stream" /\ got[r] < MaxChunks
  /\ got' = [got EXCEPT ![r] = @ + 1]
  /\ pc' = [pc EXCEPT ![r] = "relay"]
  /\ UNCHANGED <<leg, age, quiet, firstAge, status, reason, out, gone, stuck, fails, log>>

StreamEnd(r) ==
  /\ pc[r] = "stream"
  /\ pc' = [pc EXCEPT ![r] = "log"]
  /\ UNCHANGED <<leg, age, quiet, firstAge, got, status, reason, out, gone, stuck, fails, log>>

MutReply503Unlogged(r) ==
  /\ pc[r] = "reply503" /\ ~stuck[r]
  /\ out' = [out EXCEPT ![r] = Append(@, "503")]
  /\ pc' = [pc EXCEPT ![r] = "done"]
  /\ UNCHANGED <<leg, age, quiet, firstAge, got, status, reason, gone, stuck, fails, log>>

\* 503 with Retry-After; if the write raises, the exception leaves do_POST and
\* its _log call is never reached.
Reply503(r) ==
  /\ pc[r] = "reply503" /\ ~stuck[r]
  /\ \/ /\ out' = [out EXCEPT ![r] = Append(@, "503")]
        /\ pc' = [pc EXCEPT ![r] = "log"]
     \/ /\ gone[r]
        /\ pc' = [pc EXCEPT ![r] = "done"]
        /\ UNCHANGED out
  /\ UNCHANGED <<leg, age, quiet, firstAge, got, status, reason, gone, stuck, fails, log>>

\* The route logged, and slo_breach: returned as True with the 503, otherwise
\* read off the fail_reason, which is empty when the primary served.
Log(r) ==
  LET route == IF leg[r] = "none" THEN "error"
               ELSE IF leg[r] = "fallback" THEN "fallback" ELSE "primary" IN
  /\ pc[r] = "log"
  /\ log' = [log EXCEPT ![r] =
       [route |-> route,
        breach |-> route = "error" \/ (route = "fallback" /\ reason[r] = "breach")]]
  /\ pc' = [pc EXCEPT ![r] = "done"]
  /\ UNCHANGED <<leg, age, quiet, firstAge, got, status, reason, out, gone, stuck, fails>>

-----------------------------------------------------------------------------
(* Clients and time *)

\* The client closes its connection while its request is being served; a thread
\* blocked on it wakes up.
HangUp(r) ==
  /\ pc[r] # "done" /\ ~gone[r]
  /\ gone' = [gone EXCEPT ![r] = TRUE]
  /\ stuck' = [stuck EXCEPT ![r] = FALSE]
  /\ UNCHANGED <<pc, leg, age, quiet, firstAge, got, status, reason, out, fails, log>>

\* The client stops sending its body, or reading its answer, and keeps the
\* connection open ...
Stall(r) ==
  /\ pc[r] \in AtClient /\ ~gone[r] /\ ~stuck[r]
  /\ stuck' = [stuck EXCEPT ![r] = TRUE]
  /\ UNCHANGED <<pc, leg, age, quiet, firstAge, got, status, reason, out, gone, fails, log>>

\* ... until it goes on, if ever.
Resume(r) ==
  /\ stuck[r]
  /\ stuck' = [stuck EXCEPT ![r] = FALSE]
  /\ UNCHANGED <<pc, leg, age, quiet, firstAge, got, status, reason, out, gone, fails, log>>

\* A tick ages every attempt that waits for its backend.
Tick ==
  LET older(f) == [r \in Requests |-> IF pc[r] \in Waiting THEN Later(f[r]) ELSE f[r]] IN
  /\ \E r \in Requests : pc[r] \in Waiting
  /\ age' = older(age)
  /\ quiet' = older(quiet)
  /\ UNCHANGED <<pc, leg, firstAge, got, status, reason, out, gone, stuck, fails, log>>

\* What the thread does of itself, without a backend or a client moving.
Serve(r) ==
  \/ SocketTimeout(r) \/ StreamTimeout(r) \/ HeadFull(r) \/ Send(r) \/ Relay(r)
  \/ Reply429(r) \/ Reply503(r) \/ Log(r)

\* What the backend, the network and the client do to it.
Environment(r) ==
  \/ ConnectionError(r) \/ ServerError(r) \/ KernelTimeout(r) \/ StreamBreaks(r)
  \/ \E s \in {"ok", "4xx"} : Status(r, s)
  \/ HeadChunk(r) \/ HeadIsAll(r) \/ StreamChunk(r) \/ StreamEnd(r)
  \/ HangUp(r) \/ Stall(r) \/ Resume(r)

Next == \/ Tick
        \/ \E r \in Requests : Admit(r) \/ Refuse(r) \/ Serve(r) \/ Environment(r)

Spec == Init /\ [][Next]_gatewayVars

\* Time passes, the limiter answers and a thread that can run does; nothing is
\* assumed of backends and clients.
Fairness == /\ WF_gatewayVars(Tick)
            /\ \A r \in Requests : WF_gatewayVars(Admit(r) \/ Refuse(r))
            /\ \A r \in Requests : WF_gatewayVars(Serve(r))
FairSpec == Spec /\ Fairness

-----------------------------------------------------------------------------
(* Properties *)

Occurs(x, s) == \E i \in DOMAIN s : s[i] = x
LastOf(s) == s[Len(s)]

\* The route a response head announces.
RouteOf(h) == IF h = "503" THEN "error"
              ELSE IF h = "fallback" THEN "fallback" ELSE "primary"

\* The JSONL line says what happened: the route is that of the last head the
\* client was sent, and slo_breach is set exactly when an attempt breached the
\* SLO or nothing could be served.  The docstring has P12 bill from it.
LogTellsTruth ==
  \A r \in Requests : log[r] # NoEntry /\ log[r].route # "rate_limited" =>
    /\ out[r] # << >>
    /\ log[r].route = RouteOf(LastOf(out[r]))
    /\ log[r].breach <=> (log[r].route = "error" \/ Occurs("breach", fails[r]))

\* A client that waits for its answer gets one and is on record; a second head
\* in the same response comes from a stream that broke, and from nothing else:
\* buffering the head until the SLO check passes is what rules out the rest.
AnsweredOnRecord ==
  \A r \in Requests : pc[r] = "done" /\ ~gone[r] =>
    /\ log[r] # NoEntry
    /\ Len(out[r]) >= 1
    /\ Len(out[r]) > 1 => Occurs("broken", fails[r])

\* The fallback and the 503 are reached only when the primary has failed for
\* good: on a breach or 5xx at once, on connection errors after the retry.
PrimaryGivenUp(f) ==
  \/ Len(f) >= 1 /\ Exception(f[1]) # "conn"
  \/ Len(f) >= 2 /\ Exception(f[1]) = "conn"
NoHastyFailover ==
  \A r \in Requests : leg[r] = "fallback" \/ pc[r] = "reply503" => PrimaryGivenUp(fails[r])

\* The gateway goes down the chain as DegradationChain has it.  A request is over
\* when its line is in the log: one whose 503 could not be written is on no record
\* and stays exhausted.
StageOf(r) == IF pc[r] \in {"limiter", "reply429"} THEN "arrived"
              ELSE IF log[r] # NoEntry THEN "over"
              ELSE IF leg[r] = "none" THEN "exhausted" ELSE leg[r]
ResultOf(r) == IF pc[r] # "done" \/ log[r] = NoEntry THEN "none"
               ELSE IF log[r].route = "rate_limited" THEN "refused"
               ELSE IF log[r].route = "error" THEN "error" ELSE "served"
Chain == INSTANCE DegradationChain WITH
           stage <- [r \in Requests |-> StageOf(r)],
           result <- [r \in Requests |-> ResultOf(r)]
ImplementsChain == Chain!Spec

\* Every request comes to an end, whatever backends hang, trickle or break off and
\* wherever the client hangs up, unless its client stalls for ever.
EveryRequestEnds == \A r \in Requests : <>[]~stuck[r] => <>(pc[r] = "done")
=============================================================================
