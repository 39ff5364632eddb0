---------------------------- MODULE MCGpuSession ----------------------------
(* An instance of GpuSession for TLC: two spot requests, a grace period of two
   cron runs. *)
EXTENDS GpuSession
=============================================================================
