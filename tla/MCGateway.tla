----------------------------- MODULE MCGateway -----------------------------
(* Instances of Gateway for TLC, and two claims of its documents. *)
EXTENDS Gateway

\* "a breach closes the backend connection before a single byte reaches the
\* client": a client that stays never sees a second response head.
OneHead == \A r \in Requests : ~gone[r] => Len(out[r]) <= 1

\* "Every request appended to --log JSONL": a request that is over has its line.
EveryRequestLogged == \A r \in Requests : pc[r] = "done" => log[r] # NoEntry
=============================================================================
