-------------------------- MODULE GatewayDeadline --------------------------
(***************************************************************************)
(* How long a client of p13-ai-gateway/gateway.py waits for its answer.    *)
(* Every attempt of Gateway starts its own SLO clock, and its socket's     *)
(* timeout starts again with every operation; this module keeps the clock  *)
(* of the client beside them, and counts the operations before the body:   *)
(* connect(), the two sendalls of conn.request (head, body) and a recv for *)
(* each piece in which the status line and the headers arrive.  Nothing in *)
(* the code bounds those pieces; Operations is the bound assumed of the    *)
(* backends.  Only waits for backends count: the client's own stalling is  *)
(* its own.  The scheduler may hold a thread up for any time; the clock    *)
(* runs where it does not, that is where time passes only when no thread   *)
(* has anything to do.                                                     *)
(***************************************************************************)
EXTENDS Gateway

CONSTANT Operations  \* bound on the socket operations of an attempt before the body

ASSUME DeadlineConstants == Operations \in Nat \ {0}

VARIABLES punctual, \* whether threads run as soon as they can
          made,     \* socket operations an attempt has made before its status line
          waited    \* ticks until the first response head, where threads are punctual

deadlineVars == <<gatewayVars, punctual, made, waited>>

\* A deadline has passed, or the thread waits for nobody.
Due(r) ==
  \/ pc[r] \in AtClient \cup {"log"} /\ ~stuck[r]
  \/ pc[r] \in Waiting /\ quiet[r] >= Deadline(leg[r])
  \/ pc[r] = "head" /\ got[r] = HeadChunks

\* Every operation before the body and every chunk of the head may take the whole
\* timeout: SLO on the primary and its retry, twice that on the fallback.
WorstWait == (Operations + HeadChunks) * (SLO + SLO + 2 * SLO)

Waits(r) == pc[r] \in Waiting /\ out[r] = << >>

DeadlineInit ==
  /\ Init /\ punctual \in BOOLEAN
  /\ made = [r \in Requests |-> 0] /\ waited = [r \in Requests |-> 0]

\* An operation is done, and what the socket waits for next has a timeout of its
\* own; the last one brings the end of the headers, which is Status.  A backend
\* that answers at once is not seen to connect.
Operation(r) ==
  /\ pc[r] = "connect" /\ made[r] + 1 < Operations
  /\ made' = [made EXCEPT ![r] = @ + 1]
  /\ quiet' = [quiet EXCEPT ![r] = 0]
  /\ UNCHANGED <<pc, leg, age, firstAge, got, status, reason, out, gone, stuck, fails, log>>

Passes ==
  /\ Tick /\ (punctual => \A r \in Requests : ~Due(r))
  /\ waited' = [r \in Requests |->
       IF punctual /\ Waits(r) /\ waited[r] <= WorstWait THEN waited[r] + 1 ELSE waited[r]]
  /\ UNCHANGED made

\* The attempt goes on, or another one begins.
Meanwhile(r) ==
  made' = [made EXCEPT ![r] = IF pc'[r] = "connect" /\ leg'[r] = leg[r] THEN @ ELSE 0]

Others == \E r \in Requests :
  \/ Operation(r)
  \/ (Admit(r) \/ Refuse(r) \/ Serve(r) \/ Environment(r)) /\ Meanwhile(r)

DeadlineNext ==
  /\ Passes \/ (Others /\ UNCHANGED waited)
  /\ UNCHANGED punctual

\* The fairness of Gateway.
DeadlineSpec ==
  /\ DeadlineInit /\ [][DeadlineNext]_deadlineVars
  /\ WF_deadlineVars(Passes /\ UNCHANGED punctual)
  /\ \A r \in Requests :
       /\ WF_deadlineVars((Admit(r) \/ Refuse(r)) /\ UNCHANGED <<punctual, made, waited>>)
       /\ WF_deadlineVars(Serve(r) /\ Meanwhile(r) /\ UNCHANGED <<punctual, waited>>)

-----------------------------------------------------------------------------
(* Properties *)

\* Until its first response head, or the 503, a client waits WorstWait for backends
\* at the latest, whichever attempts hang, trickle or fail at the last moment: many
\* times --slo-ms, since every socket operation has a timeout of its own, but no
\* more attempts and no longer timeouts than the chain's.
WaitBound == \A r \in Requests : waited[r] <= WorstWait
=============================================================================
