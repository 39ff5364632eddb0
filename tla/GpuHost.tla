------------------------------ MODULE GpuHost ------------------------------
(***************************************************************************)
(* The matrix runners that share a GPU host: serve-matrix.sh of p05 and    *)
(* p06, run-matrix.sh of p08 and p09.  Each walks through its server       *)
(* configurations: override file, docker compose up, wait, measure, down.  *)
(* They run with set -e: a command that fails ends the script where it is, *)
(* and so does Ctrl-C.  p14-chaos/faults.sh restarts the container in      *)
(* between.  Docker and the server are external; there is one container,   *)
(* named in the compose file, for all of them, and one runner at a time.   *)
(***************************************************************************)
EXTENDS Integers, Sequences

CONSTANTS Scripts,  \* those of the four that are run on this host
          Labels,   \* the configurations of each, in the order they are run
          Attempts, \* polls of wait_healthy()
          NoConfig

ASSUME HostConstants ==
  /\ Scripts \subseteq {"p05", "p06", "p08", "p09"} /\ Scripts # {}
  /\ Labels \in Seq({Labels[i] : i \in DOMAIN Labels}) /\ Len(Labels) > 0
  /\ Attempts \in Nat \ {0}
  /\ NoConfig \notin {Labels[i] : i \in DOMAIN Labels}
  /\ NoConfig \notin Scripts \X {Labels[i] : i \in DOMAIN Labels}

VARIABLES pc,       \* the command the runner is at, "idle" without one
          script,   \* which one it is
          at,       \* index of the configuration
          polls,
          override, \* [Scripts -> the configuration in its .override.yml, or NoConfig]
          config,   \* of the container: whose, and which; or NoConfig
          health,   \* of the server in it
          measured, \* history: the container's configuration as the bench began
          results   \* complete measurements in the results directory

hostVars == <<pc, script, at, polls, override, config, health, measured, results>>

Probed == {"p05", "p06"}  \* have a second tool
Configs == {Labels[i] : i \in DOMAIN Labels}
Label == Labels[at]
Settings == Scripts \X Configs

HostTypeOK ==
  /\ pc \in {"idle", "write", "up", "wait", "bench", "benching", "probe", "down", "rm", "compare"}
  /\ script \in Scripts /\ at \in DOMAIN Labels
  /\ polls \in 0..Attempts
  /\ override \in [Scripts -> Configs \cup {NoConfig}] /\ config \in Settings \cup {NoConfig}
  /\ health \in {"loading", "healthy", "hung", "exited"}
  /\ measured \in Settings \cup {NoConfig}
  /\ results \subseteq [script : Scripts, label : Configs, began : Settings,
                        ended : Settings \cup {NoConfig}, probed : BOOLEAN]

Init ==
  /\ pc = "idle" /\ script \in Scripts /\ at = 1 /\ polls = 0
  /\ override = [s \in Scripts |-> NoConfig] /\ config = NoConfig /\ health = "exited"
  /\ measured = NoConfig /\ results = {}

serverVars == <<config, health>>

-----------------------------------------------------------------------------
(* A runner, one command a step *)

RunScript ==
  /\ pc = "idle" /\ pc' = "write" /\ at' = 1 /\ script' \in Scripts
  /\ UNCHANGED <<polls, override, serverVars, measured, results>>

\* set -e
MutExit == pc' = "down"
Exit == pc' = "idle"

WriteOverride ==
  /\ pc = "write" /\ override' = [override EXCEPT ![script] = Label] /\ pc' = "up"
  /\ UNCHANGED <<script, at, polls, serverVars, measured, results>>

\* up -d --force-recreate: whatever ran is replaced.  A command that fails leaves
\* it, or stops it, and may have removed it or made the new one.
MutRecreated == IF config = NoConfig THEN <<script, override[script]>> ELSE config
Recreated == <<script, override[script]>>
Up ==
  /\ pc = "up" /\ polls' = 0
  /\ \/ config' = Recreated /\ health' = "loading" /\ pc' = "wait"
     \/ config' \in {config, NoConfig, Recreated} /\ health' = "exited" /\ Exit
     \/ UNCHANGED serverVars /\ Exit
  /\ UNCHANGED <<script, at, override, measured, results>>

\* wait_healthy(): so many polls ten seconds apart, then exit 1.  The poll is a curl
\* without a time limit: while the server accepts and does not answer, nothing
\* happens.
MutPolled(n) == n
Polled(n) == n + 1
Wait ==
  /\ pc = "wait"
  /\ \/ health = "healthy" /\ pc' = "bench" /\ UNCHANGED polls
     \/ /\ health \in {"loading", "exited"} /\ polls' = Polled(polls)
        /\ IF polls' < Attempts THEN UNCHANGED pc ELSE Exit
  /\ UNCHANGED <<script, at, override, serverVars, measured, results>>

\* bench.py, experiment.py or pressure.py: without an answer of the server, for
\* which it has ten seconds, it exits 1 ...
Bench ==
  /\ pc = "bench"
  /\ \/ health = "healthy" /\ pc' = "benching" /\ measured' = config
     \/ health # "healthy" /\ Exit /\ UNCHANGED measured
  /\ UNCHANGED <<script, at, polls, override, serverVars, results>>

Filed(probed) == results' = results \cup
  {[script |-> script, label |-> Label, began |-> measured, ended |-> config, probed |-> probed]}

\* ... with it, it ends well and files its summary, whatever becomes of the
\* server meanwhile.
BenchEnds ==
  /\ pc = "benching" /\ Filed(FALSE)
  /\ pc' = IF script \in Probed THEN "probe" ELSE "down"
  /\ UNCHANGED <<script, at, polls, override, serverVars, measured>>

\* The second tool files nothing unless every request of it is answered.
Probe ==
  /\ pc = "probe"
  /\ \/ health = "healthy" /\ Filed(TRUE) /\ pc' = "down"
     \/ Exit /\ UNCHANGED results
  /\ UNCHANGED <<script, at, polls, override, serverVars, measured>>

\* p05: the perplexity of a text, chunk by chunk; an exception ends it.
Quality == script = "p05" /\ Probe

\* p06: one scrape of the metrics, or sys.exit().
Acceptance == script = "p06" /\ Probe

Down ==
  /\ pc = "down"
  /\ \/ config' = NoConfig /\ health' = "exited" /\ pc' = "rm"
     \/ Exit /\ UNCHANGED serverVars
  /\ UNCHANGED <<script, at, polls, override, measured, results>>

Remove ==
  /\ pc = "rm" /\ override' = [override EXCEPT ![script] = NoConfig]
  /\ \/ at < Len(Labels) /\ at' = at + 1 /\ pc' = "write"
     \/ at = Len(Labels) /\ pc' = "compare" /\ UNCHANGED at
  /\ UNCHANGED <<script, polls, serverVars, measured, results>>

Compare ==
  /\ pc = "compare" /\ pc' = "idle"
  /\ UNCHANGED <<script, at, polls, override, serverVars, measured, results>>

Interrupt ==
  /\ pc # "idle" /\ pc' = "idle"
  /\ UNCHANGED <<script, at, polls, override, serverVars, measured, results>>

-----------------------------------------------------------------------------
(* The container *)

Server(h) ==
  /\ health' = h
  /\ UNCHANGED <<pc, script, at, polls, override, config, measured, results>>

Ready == health \in {"loading", "hung"} /\ Server("healthy")

\* It accepts connections and does not answer.
Hang == health \in {"loading", "healthy"} /\ Server("hung")

\* The engine dies; the compose file has no restart policy.
Crash == config # NoConfig /\ health # "exited" /\ Server("exited")

\* faults.sh kill-replica: docker restart, of whatever the container is.
KillReplica == config # NoConfig /\ Server("loading")

Script == WriteOverride \/ Up \/ Wait \/ Bench \/ BenchEnds \/ Quality \/ Acceptance \/ Down \/ Remove \/ Compare
Next == RunScript \/ Script \/ Interrupt \/ Ready \/ Hang \/ Crash \/ KillReplica

Spec == Init /\ [][Next]_hostVars

\* A command that has begun ends, a poll as soon as the server it hangs on answers,
\* restarts or dies; nobody has to start or interrupt a runner, and the server need
\* not come up.
FairSpec == Spec /\ WF_hostVars(Script) /\ SF_hostVars(Wait)

-----------------------------------------------------------------------------
(* Properties *)

\* A result is of the configuration it is filed under, from the first request
\* to the last, whatever an earlier run, its own or another script's, left in the
\* container or the override file, and however often the replica was killed.
Labelled == \A r \in results : r.began = <<r.script, r.label>> /\ r.ended = r.began

\* Where the comparison begins, every configuration has a measurement with all
\* its parts, and nothing is left to serve the next user of the host by accident.
\* What an earlier run of the script filed counts.
ComparesEverything ==
  pc = "compare" =>
    /\ \A c \in Configs : \E r \in results :
         r.script = script /\ r.label = c /\ r.probed = (script \in Probed)
    /\ config = NoConfig /\ override[script] = NoConfig

\* A runner ends whatever becomes of its server, one case apart: it may wait for
\* ever on a server that accepts connections and from then on answers none.
RunnerEnds == []<>(pc = "idle") \/ <>[](pc = "wait" /\ health = "hung")

\* "server never became healthy": wait_healthy() comes to an end either way.
WaitEnds == pc = "wait" ~> pc # "wait"
=============================================================================
