-------------------------- MODULE MCDisaggProxies ---------------------------
(* An instance of DisaggProxies for TLC. *)
EXTENDS DisaggProxies

CONSTANTS c1, c2, nokey, r1, r2, r3

\* Three turns of a client that waits, two of one that does not.
MCConvs == {c1, c2}
MCTurns == ({c1} \X (1..3)) \cup ({c2} \X (1..2))
MCPatient == {c1}
=============================================================================
