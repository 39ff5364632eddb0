----------------------------- MODULE GpuSession -----------------------------
(***************************************************************************)
(* A GPU session on AWS: the operator's infra/aws/spot-launch.sh and       *)
(* stop.sh, the file .instance-id they share, user-data.sh and the cron    *)
(* job idle-autostop.sh on the host.  The scripts die between any two      *)
(* commands (set -e, a waiter that gives up, Ctrl-C).  AWS is external: it *)
(* fulfils requests late, and takes spot instances back.                   *)
(*                                                                         *)
(* Time on a host is counted in cron runs, one every five minutes.         *)
(***************************************************************************)
EXTENDS Integers

CONSTANTS Instances, \* one per spot request
          NoId,      \* .instance-id before the first launch
          Grace      \* GRACE_S, in cron periods

ASSUME SessionConstants == Grace \in Nat \ {0} /\ NoId \notin Instances

VARIABLES state,     \* [Instances -> what AWS has of it]
          launching, \* the instance a running spot-launch.sh waits for, or NoId
          tracked,   \* .instance-id
          checkout,  \* [Instances -> whether the repository is in ~/track]
          booted,    \* [Instances -> whether user-data.sh has come to an end]
          armed,     \* [Instances -> whether cron finds the autostop script]
          work,      \* [Instances -> what the host does]
          since,     \* [Instances -> age of the idle stamp at the last cron run]
          idleRuns   \* history: cron runs in a row that saw an idle host

sessionVars == <<state, launching, tracked, checkout, booted, armed, work, since, idleRuns>>

NoStamp == -1
\* "loading" is a boot that pulls its image and weights: the metrics endpoint is
\* not up and the GPU does nothing.
Activities == {"none", "loading", "serving"}

SessionTypeOK ==
  /\ state \in [Instances -> {"unused", "requested", "running", "ended"}]
  /\ launching \in Instances \cup {NoId} /\ tracked \in Instances \cup {NoId}
  /\ checkout \in [Instances -> BOOLEAN] /\ booted \in [Instances -> BOOLEAN]
  /\ armed \in [Instances -> BOOLEAN]
  /\ work \in [Instances -> Activities]
  /\ since \in [Instances -> NoStamp..Grace]
  /\ idleRuns \in [Instances -> 0..Grace + 1]

SessionInit ==
  /\ state = [i \in Instances |-> "unused"]
  /\ launching = NoId /\ tracked = NoId
  /\ checkout = [i \in Instances |-> FALSE] /\ booted = checkout /\ armed = checkout
  /\ work = [i \in Instances |-> "none"]
  /\ since = [i \in Instances |-> NoStamp] /\ idleRuns = [i \in Instances |-> 0]

installed == <<checkout, booted, armed>>
onHost == <<installed, work, since, idleRuns>>

-----------------------------------------------------------------------------
(* The operator's scripts and AWS *)

\* request-spot-instances, then the waiter.
Request(i) ==
  /\ launching = NoId /\ state[i] = "unused"
  /\ state' = [state EXCEPT ![i] = "requested"]
  /\ launching' = i
  /\ UNCHANGED <<tracked, onHost>>

Fulfil(i) ==
  /\ state[i] = "requested"
  /\ state' = [state EXCEPT ![i] = "running"]
  /\ UNCHANGED <<launching, tracked, onHost>>

WriteId ==
  /\ launching # NoId /\ state[launching] \in {"running", "ended"}
  /\ tracked' = launching /\ launching' = NoId
  /\ UNCHANGED <<state, onHost>>

\* The script dies before it writes the file; its request stays open.
LaunchDies ==
  /\ launching # NoId /\ launching' = NoId
  /\ UNCHANGED <<state, tracked, onHost>>

\* An instance that ends takes its host with it.
EndOf(i) == /\ state' = [state EXCEPT ![i] = "ended"]
            /\ work' = [work EXCEPT ![i] = "none"]
            /\ since' = [since EXCEPT ![i] = NoStamp]
            /\ idleRuns' = [idleRuns EXCEPT ![i] = 0]

\* stop.sh: whatever the file names.
Stop == /\ tracked # NoId /\ state[tracked] = "running"
        /\ EndOf(tracked)
        /\ UNCHANGED <<launching, tracked, installed>>

Reclaim(i) == /\ state[i] = "running"
              /\ EndOf(i)
              /\ UNCHANGED <<launching, tracked, installed>>

-----------------------------------------------------------------------------
(* The host *)

\* user-data.sh, once, at the first boot.  With set -e it may end before the cron
\* line; and the autostop script is copied out of ~/track, "|| true", which it has
\* just made itself if it was not there.
UserData(i) ==
  /\ state[i] = "running" /\ ~booted[i]
  /\ booted' = [booted EXCEPT ![i] = TRUE]
  /\ armed' \in {armed, [armed EXCEPT ![i] = checkout[i]]}
  /\ UNCHANGED <<state, launching, tracked, checkout, work, since, idleRuns>>

\* The operator's git clone, over ssh, which does not wait for user-data.sh.
Clone(i) ==
  /\ state[i] = "running" /\ ~checkout[i]
  /\ checkout' = [checkout EXCEPT ![i] = TRUE]
  /\ UNCHANGED <<state, launching, tracked, booted, armed, work, since, idleRuns>>

Works(i, w) ==
  /\ state[i] = "running" /\ work[i] # w
  /\ work' = [work EXCEPT ![i] = w]
  /\ UNCHANGED <<state, launching, tracked, installed, since, idleRuns>>

\* busy(): requests in the metrics, or a GPU that works.
Busy(i) == work[i] = "serving"

\* What a busy sample does to the stamp file.
MutKeptStamp(i) == UNCHANGED since
RemovedStamp(i) == since' = [since EXCEPT ![i] = NoStamp]

\* NOW - SINCE, in cron runs: an idle run leaves the stamp as it was written.
MutStampedAgain(i) == 0
Age(i) == since[i] + 1

\* The clock is read some seconds into a run, and the last run of the grace period
\* may find it a second short of GRACE_S.
Expired(age, short) == age > Grace \/ (age = Grace /\ ~short)

\* Counted to Grace + 1.
IdleRuns(i) == IF idleRuns[i] > Grace THEN idleRuns[i] ELSE idleRuns[i] + 1

\* One run of the cron job, a period after the last one.
Cron(i) ==
  /\ state[i] = "running" /\ armed[i]
  /\ \/ /\ Busy(i) /\ RemovedStamp(i)
        /\ idleRuns' = [idleRuns EXCEPT ![i] = 0]
        /\ UNCHANGED <<state, work>>
     \/ /\ ~Busy(i) /\ since[i] = NoStamp
        /\ since' = [since EXCEPT ![i] = 0]
        /\ idleRuns' = [idleRuns EXCEPT ![i] = 1]
        /\ UNCHANGED <<state, work>>
     \/ \E short \in BOOLEAN :
        /\ ~Busy(i) /\ since[i] # NoStamp /\ ~Expired(Age(i), short)
        /\ since' = [since EXCEPT ![i] = Age(i)]
        /\ idleRuns' = [idleRuns EXCEPT ![i] = IdleRuns(i)]
        /\ UNCHANGED <<state, work>>
     \/ \E short \in BOOLEAN :
        /\ ~Busy(i) /\ since[i] # NoStamp /\ Expired(Age(i), short)
        /\ EndOf(i)
  /\ UNCHANGED <<launching, tracked, installed>>

SessionNext ==
  \/ WriteId \/ LaunchDies \/ Stop
  \/ \E i \in Instances :
       \/ Request(i) \/ Fulfil(i) \/ Reclaim(i)
       \/ UserData(i) \/ Clone(i) \/ Cron(i)
       \/ \E w \in Activities : Works(i, w)

SessionSpec == SessionInit /\ [][SessionNext]_sessionVars

\* A boot comes to its end and crond runs; nothing is assumed of operator, AWS and
\* load.
FairSession == /\ SessionSpec
               /\ \A i \in Instances : WF_sessionVars(UserData(i)) /\ WF_sessionVars(Cron(i))

-----------------------------------------------------------------------------
(* Properties *)

\* The autostop ends a host only when the grace period's samples were all idle,
\* the one it acts on included: the stamp file never outlives a busy sample.
StopsOnIdleSamples ==
  [][\A i \in Instances : Cron(i) /\ state'[i] = "ended"
       => idleRuns[i] >= Grace /\ work[i] # "serving"]_sessionVars

\* Where the autostop is installed, a run of idle samples does not last: the host is
\* gone, or a later sample finds it at work.  Work that comes and goes between the
\* samples holds nothing up.
ArmedSessionEnds == \A i \in Instances : idleRuns[i] > 0 ~> idleRuns[i] = 0

\* "Cron every 5 min on GPU host: shutdown after 20 min of true idle.": no host
\* idles for ever.
IdleHostEnds ==
  \A i \in Instances :
    state[i] = "running" /\ work[i] = "none" ~> state[i] = "ended" \/ work[i] # "none"
=============================================================================
