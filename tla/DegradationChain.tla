-------------------------- MODULE DegradationChain --------------------------
(***************************************************************************)
(* What the gateway of P13 promises of one request, as its README and      *)
(* docstring put it: primary, one retry on the primary, fallback, 503, and *)
(* a line in the log.  Every backend is contacted at most once per stage   *)
(* and in this order, and a request is over once.                          *)
(***************************************************************************)
CONSTANTS Requests, HasFallback

VARIABLES stage,   \* how far down the chain a request is
          result   \* how it ended, by its line in the log

chainVars == <<stage, result>>

Init == /\ stage = [r \in Requests |-> "arrived"]
        /\ result = [r \in Requests |-> "none"]

Move(r, from, to) == /\ stage[r] \in from
                     /\ stage' = [stage EXCEPT ![r] = to]
                     /\ UNCHANGED result

End(r, from, how) == /\ stage[r] \in from
                     /\ stage' = [stage EXCEPT ![r] = "over"]
                     /\ result' = [result EXCEPT ![r] = how]

Start(r) == Move(r, {"arrived"}, "primary")
Retry(r) == Move(r, {"primary"}, "retry")
FailOver(r) == HasFallback /\ Move(r, {"primary", "retry"}, "fallback")
Exhaust(r) == Move(r, IF HasFallback THEN {"fallback"} ELSE {"primary", "retry"},
                   "exhausted")

Refuse(r) == End(r, {"arrived"}, "refused")
Serve(r) == End(r, {"primary", "retry", "fallback"}, "served")
GiveUp(r) == End(r, {"exhausted"}, "error")

Next == \E r \in Requests :
          \/ Start(r) \/ Retry(r) \/ FailOver(r) \/ Exhaust(r)
          \/ Refuse(r) \/ Serve(r) \/ GiveUp(r)

Spec == Init /\ [][Next]_chainVars
=============================================================================
