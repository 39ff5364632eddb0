-------------------------- MODULE MCMemoryPressure --------------------------
(* An instance of Monitor, and MemoryPressure in it, for TLC. *)
EXTENDS Monitor

\* Predictions of 2, where the cap stops the loop, of 0 and of 1: the ramp goes
\* past what the memory and the server take, and one length does not fit at all.
MCSeqLens == <<2, 7, 5>>
=============================================================================
