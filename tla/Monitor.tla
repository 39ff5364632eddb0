------------------------------ MODULE Monitor ------------------------------
(***************************************************************************)
(* The live monitor p03-kvcalc/monitor.py, in the second terminal next to  *)
(* pressure.py: it polls the server's KV cache usage and prints an ALERT,  *)
(* with a band below the threshold that has to be left before the next.    *)
(* It only reads.  The server and its drivers are those of MemoryPressure. *)
(***************************************************************************)
EXTENDS MemoryPressure

VARIABLES usage,   \* kv_cache_usage_perc: below the band, in it, or over --alert
          watching, \* whether the monitor runs
          page,    \* the usage of the page it has fetched and not yet judged, or None
          alerted,
          calm     \* history: since the last ALERT usage has been, or was read as, below the band

monitorVars == <<watching, page, alerted, calm>>
allVars == <<pressureVars, usage, monitorVars>>

Below == 0
Band == 1
Over90 == 2
None == 3

MonitorInit ==
  /\ Init
  /\ usage = Below /\ watching \in BOOLEAN /\ page = None
  /\ alerted = FALSE /\ calm = TRUE

\* Requests hold blocks of the cache, more with every token; none holds none.
Seen == calm' = (calm \/ usage' = Below) /\ UNCHANGED <<watching, page, alerted>>
Cache(step) == step /\ usage' = (IF running' = 0 THEN Below ELSE usage) /\ Seen
CacheMoves == running > 0 /\ usage' \in Below..Over90 /\ Seen /\ UNCHANGED pressureVars

\* kv < a.alert - 0.05
MutRearms(kv) == kv < Over90
Rearms(kv) == kv < Band

\* fetch_metrics: a page without the gauge reads as an empty cache.
Reads == {usage, Below}

\* A poll is two steps, and the cache moves between them.  A fetch that fails is
\* printed and changes nothing.
Fetch ==
  /\ watching /\ page = None
  /\ page' \in Reads
  /\ calm' = (calm \/ page' = Below)
  /\ UNCHANGED <<pressureVars, usage, watching, alerted>>

\* if kv >= a.alert and not alerted ... elif kv < a.alert - 0.05
Judge ==
  /\ page # None /\ page' = None
  /\ \/ page = Over90 /\ ~alerted /\ alerted' = TRUE /\ calm' = FALSE
     \/ Rearms(page) /\ alerted' = FALSE /\ UNCHANGED calm
     \/ ~Rearms(page) /\ (alerted \/ page # Over90) /\ UNCHANGED <<alerted, calm>>
  /\ UNCHANGED <<pressureVars, usage, watching>>

\* --duration-s is over, or Ctrl-C.
EndWatch == /\ watching /\ watching' = FALSE /\ page' = None
            /\ UNCHANGED <<pressureVars, usage, alerted, calm>>

MonitorNext == Cache(Next) \/ CacheMoves \/ Fetch \/ Judge \/ EndWatch

\* What Spec assumes of the drivers and the server; nothing of the monitor.
MonitorSpec ==
  /\ MonitorInit /\ [][MonitorNext]_allVars
  /\ WF_allVars(Cache(Drive)) /\ WF_allVars(Cache(Scrape \/ Wake))
  /\ WF_allVars(Cache(Arrive)) /\ WF_allVars(Cache(Finish \/ Lost))

-----------------------------------------------------------------------------
(* Properties *)

\* An ALERT is printed for a page that was over the threshold when it was read,
\* and no second one before the cache has been below the band since, or a page has
\* said so by saying nothing: usage that goes up and down around the threshold
\* does not flood the terminal, however polls and usage fall, and although the
\* usage may be another when the page is judged.
AlertsApart == [][~alerted /\ alerted' => page = Over90 /\ calm]_allVars
=============================================================================
