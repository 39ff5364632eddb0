--------------------------- MODULE MCPrefixProxy ---------------------------
(* An instance of PrefixProxy for TLC. *)
EXTENDS PrefixProxy, TLC

CONSTANTS r1, r2, r3, r4, r5, system

\* Three requests that take turns, one with a system prompt, one malformed.
MCRequests == {r1, r2, r3, r4, r5}
MCKeyOf == (r1 :> NoKey) @@ (r2 :> NoKey) @@ (r3 :> NoKey) @@ (r4 :> system)
           @@ (r5 :> Malformed)
MCLeaving == {r4}
InTurn == Permutations({r1, r2, r3})
MCHome == system :> 1
=============================================================================
