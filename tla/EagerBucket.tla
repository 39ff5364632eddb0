---------------------------- MODULE EagerBucket ----------------------------
(***************************************************************************)
(* What a token bucket promises, without the arithmetic of the code: a     *)
(* level that is topped up on every clock tick, never above Cap, and that  *)
(* a granted request lowers by Unit.  RateLimiter.tla, where the level is  *)
(* recomputed lazily from the time of the last take(), implements it.      *)
(***************************************************************************)
EXTENDS Integers

CONSTANTS Requests, \* one thread of the gateway each
          Buckets,  \* bucket objects
          Cap, Refill, Unit

VARIABLES level,   \* [Buckets -> 0..Cap]
          answer   \* what take() returned to each request

eagerVars == <<level, answer>>

Answers == {"none", "granted", "refused"}

CappedAt(x) == IF x < Cap THEN x ELSE Cap

Init == /\ level = [b \in Buckets |-> Cap]
        /\ answer = [r \in Requests |-> "none"]

TopUp == /\ level' = [b \in Buckets |-> CappedAt(level[b] + Refill)]
         /\ UNCHANGED answer

Grant(r, b) == /\ answer[r] = "none"
               /\ level[b] >= Unit
               /\ level' = [level EXCEPT ![b] = @ - Unit]
               /\ answer' = [answer EXCEPT ![r] = "granted"]

Refuse(r, b) == /\ answer[r] = "none"
                /\ level[b] < Unit
                /\ answer' = [answer EXCEPT ![r] = "refused"]
                /\ UNCHANGED level

Next == \/ TopUp
        \/ \E r \in Requests, b \in Buckets : Grant(r, b) \/ Refuse(r, b)

Spec == Init /\ [][Next]_eagerVars
=============================================================================
