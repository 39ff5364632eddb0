----------------------------- MODULE MCGpuHost -----------------------------
(* An instance of GpuHost for TLC: three of the scripts, one of each kind of
   second tool and one without. *)
EXTENDS GpuHost

CONSTANTS base, spec

MCScripts == {"p05", "p06", "p09"}
MCLabels == <<base, spec>>
=============================================================================
