--------------------------- MODULE GpuHostProofs ---------------------------
(***************************************************************************)
(* What the matrix runners file is of the configuration it is filed under, *)
(* and their comparison has all of them: for any list of configurations,   *)
(* any number of polls, and a container that may crash, restart or be left *)
(* behind by a runner that died.  And the host's own autostop: for any     *)
(* grace period and any number of instances.                               *)
(***************************************************************************)
EXTENDS GpuHost, GpuSession, TLAPS

Serving == {"wait", "bench", "benching", "probe", "down"}

Typing ==
  /\ pc \in {"idle", "write", "up", "rm", "compare"} \cup Serving
  /\ script \in Scripts /\ at \in DOMAIN Labels /\ DOMAIN override = Scripts

\* From the command that wrote it on, the runner's own configuration is in the
\* override file, then in the container, then in what is measured.
Own ==
  /\ pc = "up" => override[script] = Label
  /\ pc \in Serving => config = <<script, Label>>
  /\ pc \in {"benching", "probe"} => measured = <<script, Label>>
  /\ pc = "probe" => script \in Probed
  /\ pc \in {"rm", "compare"} => config = NoConfig
  /\ pc = "compare" => override[script] = NoConfig

\* What a complete measurement of the running script's i-th configuration is.
Complete(i) == \E r \in results :
  r.script = script /\ r.label = Labels[i] /\ r.probed = (script \in Probed)

\* The configurations before this one are done, this one from "down" on.
Done ==
  /\ pc # "idle" => \A i \in DOMAIN Labels : i < at => Complete(i)
  /\ pc \in {"down", "rm", "compare"} => Complete(at)
  /\ pc = "compare" => at = Len(Labels)

\* A runner that waits has polls left.
Polls == pc = "wait" => polls < Attempts

HostInv == Typing /\ Own /\ Done /\ Labelled

-----------------------------------------------------------------------------
(* The invariant *)

\* Positions in the list of configurations.
LEMMA Positions ==
  /\ Len(Labels) \in Nat \ {0} /\ DOMAIN Labels = 1..Len(Labels)
  /\ \A i \in DOMAIN Labels : i \in Nat /\ (i < Len(Labels) => i + 1 \in DOMAIN Labels)
<1>1. Len(Labels) \in Nat /\ DOMAIN Labels = 1..Len(Labels) /\ Len(Labels) > 0
  BY HostConstants
<1> QED BY <1>1

\* A runner that has not begun owes nothing.
LEMMA HostStarts == Init => HostInv
BY Positions DEF Init, HostInv, Typing, Own, Done, Labelled, Serving

\* A command that ends the runner leaves the results as they are.
LEMMA ExitKeeps ==
  ASSUME HostInv, pc' = "idle", UNCHANGED <<script, at, override, results>>
  PROVE  HostInv'
BY DEF HostInv, Typing, Own, Done, Labelled, Serving

\* Filing what was measured of the own configuration.
LEMMA FiledKeeps ==
  ASSUME HostInv, pc \in {"benching", "probe"}, NEW probed \in BOOLEAN, Filed(probed),
         script' = script, at' = at
  PROVE  /\ Labelled'
         /\ \A i \in DOMAIN Labels : Complete(i) => Complete(i)'
         /\ probed = (script \in Probed) => Complete(at)'
<1> DEFINE n == [script |-> script, label |-> Label, began |-> measured, ended |-> config, probed |-> probed]
<1>1. results' = results \cup {n}
  BY DEF Filed
<1>2. /\ n.script = script /\ n.label = Label /\ n.probed = probed
      /\ n.began = <<script, Label>> /\ n.ended = <<script, Label>>
  BY DEF HostInv, Own, Serving
<1> HIDE DEF n
<1>3. Labelled'
  BY <1>1, <1>2 DEF HostInv, Labelled
<1>4. \A i \in DOMAIN Labels : Complete(i) => Complete(i)'
  BY <1>1 DEF Complete
<1>5. probed = (script \in Probed) => Complete(at)'
  BY <1>1, <1>2 DEF Complete, Label
<1> QED BY <1>3, <1>4, <1>5

\* Steps of the server keep the container's configuration.
LEMMA ServerKeeps ==
  ASSUME HostInv, NEW h, Server(h)
  PROVE  HostInv'
BY DEF Server, HostInv, Typing, Own, Done, Complete, Labelled, Label

\* The second tool files under the configuration it found.
LEMMA ProbeKeeps ==
  ASSUME HostInv, Probe
  PROVE  HostInv'
<1>1. CASE pc' = "idle" /\ results' = results
  BY <1>1, ExitKeeps DEF Probe, serverVars
<1>2. CASE Filed(TRUE) /\ pc' = "down"
  <2>1. pc = "probe" /\ UNCHANGED <<script, at, override, config>>
    BY DEF Probe, serverVars
  <2>2. /\ Labelled' /\ Complete(at)'
        /\ \A i \in DOMAIN Labels : Complete(i) => Complete(i)'
    BY <1>2, <2>1, FiledKeeps DEF HostInv, Own
  <2>3. Typing' /\ Own'
    BY <1>2, <2>1 DEF HostInv, Typing, Own, Serving, Label
  <2>4. Done'
    BY <1>2, <2>1, <2>2 DEF HostInv, Done
  <2> QED BY <2>2, <2>3, <2>4 DEF HostInv
<1> QED BY <1>1, <1>2 DEF Probe, Exit

\* Every command, interruption and server step keeps the invariant.
LEMMA HostKeeps == HostInv /\ [Next]_hostVars => HostInv'
<1> SUFFICES ASSUME HostInv, [Next]_hostVars PROVE HostInv'
  OBVIOUS
<1>1. CASE RunScript
  <2>1. Typing' /\ Own' /\ Labelled'
    BY <1>1, Positions DEF RunScript, HostInv, Typing, Own, Labelled, Serving
  <2>2. Done'
    BY <1>1, Positions DEF RunScript, Done
  <2> QED BY <2>1, <2>2 DEF HostInv
<1>2. CASE WriteOverride
  BY <1>2 DEF WriteOverride, HostInv, Typing, Own, Done, Complete, Labelled, Label, Serving,
              serverVars
<1>3. CASE Up
  <2>1. CASE pc' = "idle"
    BY <1>3, <2>1, ExitKeeps DEF Up
  <2>2. CASE pc' = "wait" /\ config' = Recreated
    BY <1>3, <2>2 DEF Up, Recreated, HostInv, Typing, Own, Done, Complete, Labelled, Label,
                      Serving
  <2> QED BY <1>3, <2>1, <2>2 DEF Up, Exit
<1>4. CASE Wait
  <2>1. CASE pc' = "idle"
    BY <1>4, <2>1, ExitKeeps DEF Wait
  <2>2. CASE pc' \in {"wait", "bench"}
    BY <1>4, <2>2 DEF Wait, HostInv, Typing, Own, Done, Complete, Labelled, Label, Serving,
                      serverVars
  <2> QED BY <1>4, <2>1, <2>2 DEF Wait, Exit
<1>5. CASE Bench
  <2>1. CASE pc' = "idle"
    BY <1>5, <2>1, ExitKeeps DEF Bench
  <2>2. CASE pc' = "benching" /\ measured' = config
    BY <1>5, <2>2 DEF Bench, HostInv, Typing, Own, Done, Complete, Labelled, Label, Serving,
                      serverVars
  <2> QED BY <1>5, <2>1, <2>2 DEF Bench, Exit
<1>6. CASE BenchEnds
  <2>1. pc = "benching" /\ UNCHANGED <<script, at, override, config>>
        /\ measured' = measured /\ Filed(FALSE)
    BY <1>6 DEF BenchEnds, serverVars
  <2>2. /\ Labelled'
        /\ \A i \in DOMAIN Labels : Complete(i) => Complete(i)'
        /\ FALSE = (script \in Probed) => Complete(at)'
    BY <2>1, FiledKeeps
  <2>3. \/ pc' = "probe" /\ script \in Probed
        \/ pc' = "down" /\ script \notin Probed
    BY <1>6 DEF BenchEnds
  <2>4. Typing' /\ Own'
    BY <2>1, <2>3 DEF HostInv, Typing, Own, Serving, Label
  <2>5. Done'
    BY <2>1, <2>2, <2>3 DEF HostInv, Done
  <2> QED BY <2>2, <2>4, <2>5 DEF HostInv
<1>7. CASE Quality \/ Acceptance
  BY <1>7, ProbeKeeps DEF Quality, Acceptance
<1>8. CASE Down
  <2>1. CASE pc' = "idle"
    BY <1>8, <2>1, ExitKeeps DEF Down
  <2>2. CASE pc' = "rm" /\ config' = NoConfig
    BY <1>8, <2>2 DEF Down, HostInv, Typing, Own, Done, Complete, Labelled, Label, Serving
  <2> QED BY <1>8, <2>1, <2>2 DEF Down, Exit
<1>9. CASE Remove
  <2>1. /\ pc = "rm" /\ override'[script] = NoConfig /\ DOMAIN override' = Scripts
        /\ script \in Scripts /\ config' = config /\ config = NoConfig
        /\ script' = script /\ results' = results
        /\ \A i \in DOMAIN Labels : i < at => Complete(i)
        /\ Complete(at) /\ at \in DOMAIN Labels
    BY <1>9 DEF Remove, HostInv, Own, Done, Typing, serverVars
  <2>2. \A i \in DOMAIN Labels : Complete(i) => Complete(i)'
    BY <2>1 DEF Complete
  <2>3. CASE at < Len(Labels) /\ at' = at + 1 /\ pc' = "write"
    <3>1. \A i \in DOMAIN Labels : i < at' => Complete(i)
      BY <2>1, <2>3, Positions
    <3>2. Typing' /\ Own' /\ Labelled'
      BY <2>1, <2>3, Positions DEF HostInv, Typing, Own, Labelled, Serving
    <3>3. Done'
      BY <2>2, <2>3, <3>1 DEF Done
    <3> QED BY <3>2, <3>3 DEF HostInv
  <2>4. CASE at = Len(Labels) /\ at' = at /\ pc' = "compare"
    <3>1. Typing' /\ Own' /\ Labelled'
      BY <2>1, <2>4 DEF HostInv, Typing, Own, Labelled, Serving
    <3>2. Done'
      BY <2>1, <2>2, <2>4 DEF Done
    <3> QED BY <3>1, <3>2 DEF HostInv
  <2> QED BY <1>9, <2>3, <2>4 DEF Remove
<1>10. CASE Compare
  BY <1>10, ExitKeeps DEF Compare, serverVars
<1>11. CASE Interrupt
  BY <1>11, ExitKeeps DEF Interrupt, serverVars
<1>12. CASE Ready \/ Hang \/ Crash \/ KillReplica
  BY <1>12, ServerKeeps DEF Ready, Hang, Crash, KillReplica
<1>13. CASE UNCHANGED hostVars
  BY <1>13 DEF hostVars, HostInv, Typing, Own, Done, Complete, Labelled, Label
<1> QED BY <1>1, <1>2, <1>3, <1>4, <1>5, <1>6, <1>7, <1>8, <1>9, <1>10, <1>11, <1>12, <1>13
        DEF Next, Script

\* The invariant holds of every reachable state.
LEMMA HostInvariant == Spec => []HostInv
BY HostStarts, HostKeeps, PTL DEF Spec

-----------------------------------------------------------------------------
(* What a reader may rely on *)

\* A result is of the configuration it is filed under: up --force-recreate puts
\* the override just written into the container, and set -e stops the script
\* where that fails.
THEOREM HostLabelled == Spec => []Labelled
BY HostInvariant, PTL DEF HostInv

\* compare.py is only reached with a complete measurement of every configuration,
\* and leaves neither a container nor an override file.
THEOREM HostCompares == Spec => []ComparesEverything
<1>1. HostInv => ComparesEverything
  <2> SUFFICES ASSUME HostInv, pc = "compare"
               PROVE  /\ \A c \in Configs : \E r \in results :
                           r.script = script /\ r.label = c /\ r.probed = (script \in Probed)
                      /\ config = NoConfig /\ override[script] = NoConfig
    BY DEF ComparesEverything
  <2>1. at = Len(Labels) /\ Complete(at) /\ \A i \in DOMAIN Labels : i < at => Complete(i)
    BY DEF HostInv, Done
  <2>2. \A i \in DOMAIN Labels : Complete(i)
    BY <2>1, Positions
  <2>3. config = NoConfig /\ override[script] = NoConfig
    BY DEF HostInv, Own
  <2> QED BY <2>2, <2>3 DEF Complete, Configs
<1> QED BY <1>1, HostInvariant, PTL

\* The types of runner and container.
THEOREM HostTyping == Spec => []HostTypeOK
<1> USE HostConstants
<1>1. Init => HostTypeOK /\ Polls
  BY Positions DEF Init, HostTypeOK, Polls
<1>2. HostInv /\ HostTypeOK /\ Polls /\ [Next]_hostVars => HostTypeOK' /\ Polls'
  <2> SUFFICES ASSUME HostInv, HostTypeOK, Polls, [Next]_hostVars PROVE HostTypeOK' /\ Polls'
    OBVIOUS
  <2>0. Polls'
    BY DEF Next, Script, RunScript, WriteOverride, Up, Wait, Bench, BenchEnds, Quality, Acceptance,
           Probe, Down, Remove, Compare, Interrupt, Exit, Ready, Hang, Crash, KillReplica, Server,
           hostVars, Polls, HostTypeOK
  <2> SUFFICES HostTypeOK'
    BY <2>0
  <2>1. /\ Label \in Configs /\ \A i \in DOMAIN Labels : i + 1 \in DOMAIN Labels \/ ~(i < Len(Labels))
        /\ 1 \in DOMAIN Labels
    BY Positions DEF HostTypeOK, Label, Configs
  <2>2. CASE RunScript
    BY <2>1, <2>2 DEF RunScript, serverVars, HostTypeOK
  <2>3. CASE WriteOverride \/ Up \/ Wait \/ Bench
    <3>1. <<script, Label>> \in Settings /\ script \in Scripts
      BY <2>1 DEF Settings, HostTypeOK
    <3>2. CASE WriteOverride
      BY <2>1, <3>1, <3>2 DEF WriteOverride, serverVars, HostTypeOK
    <3>3. CASE Up
      <4>1. Recreated = <<script, Label>> /\ 0 \in 0..Attempts
        BY <3>3 DEF Up, Recreated, HostInv, Own
      <4>2. config' \in Settings \cup {NoConfig}
        BY <3>1, <3>3, <4>1 DEF Up, serverVars, HostTypeOK
      <4> HIDE DEF Recreated
      <4> QED BY <3>3, <4>1, <4>2 DEF Up, Exit, serverVars, HostTypeOK
    <3>4. CASE Wait
      <4>1. polls' \in 0..Attempts
        BY <3>4 DEF Wait, Polled, Exit, HostTypeOK, Polls
      <4> QED BY <3>4, <4>1 DEF Wait, Exit, serverVars, HostTypeOK
    <3>5. CASE Bench
      BY <3>1, <3>5 DEF Bench, Exit, serverVars, HostTypeOK
    <3> QED BY <2>3, <3>2, <3>3, <3>4, <3>5
  <2>4. ASSUME NEW probed \in BOOLEAN, Filed(probed), measured = <<script, Label>>
        PROVE  results' \subseteq [script : Scripts, label : Configs, began : Settings,
                                   ended : Settings \cup {NoConfig}, probed : BOOLEAN]
    <3> DEFINE n == [script |-> script, label |-> Label, began |-> measured, ended |-> config,
                     probed |-> probed]
    <3>1. <<script, Label>> \in Settings /\ script \in Scripts
      BY <2>1 DEF Settings, HostTypeOK
    <3>2. n \in [script : Scripts, label : Configs, began : Settings,
                ended : Settings \cup {NoConfig}, probed : BOOLEAN]
      BY <2>1, <2>4, <3>1 DEF HostTypeOK
    <3> HIDE DEF n
    <3>3. results' = results \cup {n}
      BY <2>4 DEF Filed, n
    <3> QED BY <3>2, <3>3 DEF HostTypeOK
  <2>5. CASE BenchEnds
    BY <2>4, <2>5 DEF BenchEnds, serverVars, HostTypeOK, HostInv, Own
  <2>6. CASE Quality \/ Acceptance
    <3>1. Probe
      BY <2>6 DEF Quality, Acceptance
    <3> QED BY <2>4, <3>1 DEF Probe, Exit, serverVars, HostTypeOK, HostInv, Own
  <2>7. CASE Down \/ Remove \/ Compare \/ Interrupt
    BY <2>1, <2>7, Positions DEF Down, Remove, Compare, Interrupt, Exit, serverVars, HostTypeOK
  <2>8. CASE Ready \/ Hang \/ Crash \/ KillReplica
    BY <2>8 DEF Ready, Hang, Crash, KillReplica, Server, HostTypeOK
  <2>9. CASE UNCHANGED hostVars
    BY <2>9 DEF hostVars, HostTypeOK
  <2> QED BY <2>2, <2>3, <2>5, <2>6, <2>7, <2>8, <2>9 DEF Next, Script
<1> QED BY <1>1, <1>2, HostInvariant, PTL DEF Spec

-----------------------------------------------------------------------------
(* The session a host belongs to *)

\* The stamp is as old as the row of idle samples is long: it was set by the first
\* of them, and each that follows adds a period.
StampInv ==
  /\ SessionTypeOK
  /\ \A i \in Instances : idleRuns[i] = since[i] + 1

\* A host that is gone has neither a stamp nor samples.
LEMMA EndClears ==
  ASSUME StampInv, NEW i \in Instances, EndOf(i), UNCHANGED <<launching, tracked, installed>>
  PROVE  StampInv'
BY SessionConstants DEF StampInv, SessionTypeOK, EndOf, Activities, NoStamp, installed

\* One run of idle-autostop.sh.
LEMMA CronKeeps ==
  ASSUME StampInv, NEW i \in Instances, Cron(i)
  PROVE  StampInv'
<1> USE DEF NoStamp
<1>1. /\ since[i] \in -1..Grace /\ idleRuns[i] = since[i] + 1 /\ Grace \in Nat \ {0}
      /\ UNCHANGED <<launching, tracked, installed>>
  BY SessionConstants DEF StampInv, SessionTypeOK, Cron
<1>2. CASE EndOf(i)
  BY <1>1, <1>2, EndClears
<1>3. ASSUME NEW s \in -1..Grace, since' = [since EXCEPT ![i] = s],
             idleRuns' = [idleRuns EXCEPT ![i] = s + 1], UNCHANGED <<state, work>>
      PROVE  StampInv'
  BY <1>1, <1>3 DEF StampInv, SessionTypeOK, installed
<1>4. CASE Busy(i) /\ since' = [since EXCEPT ![i] = -1]
           /\ idleRuns' = [idleRuns EXCEPT ![i] = 0] /\ UNCHANGED <<state, work>>
  <2>1. -1 \in -1..Grace /\ idleRuns' = [idleRuns EXCEPT ![i] = (-1) + 1]
    BY <1>1, <1>4
  <2> QED BY <1>3, <1>4, <2>1
<1>5. CASE since' = [since EXCEPT ![i] = 0] /\ idleRuns' = [idleRuns EXCEPT ![i] = 1]
           /\ UNCHANGED <<state, work>>
  <2>1. 0 \in -1..Grace /\ idleRuns' = [idleRuns EXCEPT ![i] = 0 + 1]
    BY <1>1, <1>5
  <2> QED BY <1>3, <1>5, <2>1
<1>6. ASSUME NEW short \in BOOLEAN, since[i] # -1, ~Expired(Age(i), short),
             since' = [since EXCEPT ![i] = Age(i)],
             idleRuns' = [idleRuns EXCEPT ![i] = IdleRuns(i)], UNCHANGED <<state, work>>
      PROVE  StampInv'
  <2>1. Age(i) \in -1..Grace /\ Age(i) = since[i] + 1
    BY <1>1, <1>6 DEF Expired, Age
  <2>2. IdleRuns(i) = Age(i) + 1
    BY <1>1, <2>1 DEF IdleRuns
  <2> QED BY <1>3, <1>6, <2>1, <2>2
<1> QED BY <1>2, <1>4, <1>5, <1>6 DEF Cron, RemovedStamp

\* Every command, every instance and every sample keeps it.
LEMMA SessionSteps ==
  ASSUME StampInv, [SessionNext]_sessionVars
  PROVE  StampInv'
<1> USE DEF installed
<1>1. CASE WriteId \/ LaunchDies
  BY <1>1 DEF StampInv, SessionTypeOK, WriteId, LaunchDies, onHost
<1>2. CASE Stop
  <2>1. tracked \in Instances
    BY <1>2 DEF StampInv, SessionTypeOK, Stop
  <2> QED BY <1>2, <2>1, EndClears DEF Stop
<1>3. ASSUME NEW i \in Instances, Request(i) \/ Fulfil(i) \/ UserData(i) \/ Clone(i)
      PROVE  StampInv'
  BY <1>3 DEF UserData, Clone, StampInv, SessionTypeOK, Request, Fulfil, onHost, Activities
<1>4. ASSUME NEW i \in Instances, Reclaim(i) PROVE StampInv'
  BY <1>4, EndClears DEF Reclaim
<1>5. ASSUME NEW i \in Instances, Cron(i) PROVE StampInv'
  BY <1>5, CronKeeps
<1>6. ASSUME NEW i \in Instances, NEW w \in Activities, Works(i, w)
      PROVE  StampInv'
  BY <1>6 DEF StampInv, SessionTypeOK, Works
<1>7. CASE UNCHANGED sessionVars
  BY <1>7 DEF StampInv, SessionTypeOK, sessionVars
<1> QED BY <1>1, <1>2, <1>3, <1>4, <1>5, <1>6, <1>7 DEF SessionNext

\* So it always holds.
LEMMA SessionInvariant == SessionSpec => []StampInv
<1>1. SessionInit => StampInv
  BY SessionConstants DEF SessionInit, StampInv, SessionTypeOK, Activities, NoStamp
<1>2. StampInv /\ [SessionNext]_sessionVars => StampInv'
  BY SessionSteps
<1> QED BY <1>1, <1>2, PTL DEF SessionSpec

\* The types of the operator's scripts, of AWS and of the hosts.
THEOREM SessionTyping == SessionSpec => []SessionTypeOK
BY SessionInvariant, PTL DEF StampInv

\* idle-autostop.sh switches a host off only when every sample of the grace period
\* was idle, the last one included: no stamp survives a busy sample, and none is
\* inherited from a host that is gone.
THEOREM SessionStopsIdle == SessionSpec => StopsOnIdleSamples
<1>1. StampInv => \A i \in Instances :
        Cron(i) /\ state'[i] = "ended" => idleRuns[i] >= Grace /\ work[i] # "serving"
  <2> SUFFICES ASSUME StampInv, NEW i \in Instances, Cron(i), state'[i] = "ended"
               PROVE  idleRuns[i] >= Grace /\ work[i] # "serving"
    OBVIOUS
  <2>1. /\ since[i] \in -1..Grace /\ idleRuns[i] = since[i] + 1 /\ Grace \in Nat \ {0}
        /\ state[i] = "running"
    BY SessionConstants DEF StampInv, SessionTypeOK, Cron, NoStamp
  <2>2. ~Busy(i) /\ \E short \in BOOLEAN : Expired(Age(i), short)
    BY <2>1 DEF Cron
  <2> QED BY <2>1, <2>2 DEF Busy, Expired, Age
<1> QED BY <1>1, SessionInvariant, PTL DEF StopsOnIdleSamples
=============================================================================
