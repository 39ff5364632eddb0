------------------------------- MODULE Scaler -------------------------------
(***************************************************************************)
(* The autoscaler loop of p11-autoscaler/scaler.py, the replicas it acts   *)
(* on, and the process dying and being started again.  One tick is one     *)
(* --interval-s.  Streaks and cooldown are only compared with a threshold, *)
(* so the counters stop there.                                             *)
(***************************************************************************)
EXTENDS Integers, Sequences

CONSTANTS MinN, MaxN,            \* --min-n, --max-n
          UpStreak, DownStreak,  \* --up-streak, --down-streak, in polls
          Cooldown               \* --cooldown-s, in ticks

ASSUME ScalerConstants ==
  /\ MinN \in Nat /\ MaxN \in Nat \ {0} /\ MinN <= MaxN
  /\ UpStreak \in Nat \ {0} /\ DownStreak \in Nat \ {0} /\ Cooldown \in Nat

VARIABLES pc,       \* "poll", "actuate", "record", "dead"
          wait,     \* what the last poll read
          su, sd,   \* streaks
          desired,
          cool,     \* ticks since last_action, as this process knows it
          again,    \* whether the process has been restarted
          exec,     \* --exec: without it nothing is actuated
          most,     \* replicas the --compose file can run
          actual,   \* replicas docker compose runs
          calm,     \* history: ticks since a scaling command was last run
          seen      \* history: readings since the start or the last action

scalerVars == <<pc, wait, su, sd, desired, cool, again, exec, most, actual, calm, seen>>
options == <<exec, most>>

\* queue_depth(): unreachable is -1; "absent" is a page without the metric, which
\* the sum over no line turns into 0; "some" and "late" are below --scale-up-q, and
\* "late" has a request in it that has waited for longer than the docstring's
\* --wait-slo-s, an option main() does not have.
Readings == {"unreachable", "absent", "idle", "some", "late", "high"}
MutReadsZeroBlind(w) == w \in {"absent", "idle", "unreachable"}
ReadsZero(w) == w \in {"absent", "idle"}

UpTo(limit, x) == IF x < limit THEN x ELSE limit

ScalerTypeOK ==
  /\ pc \in {"poll", "actuate", "record", "dead"}
  /\ wait \in Readings
  /\ su \in 0..UpStreak /\ sd \in 0..DownStreak
  /\ desired \in MinN..MaxN /\ actual \in MinN..MaxN
  /\ cool \in 0..Cooldown /\ calm \in 0..Cooldown
  /\ again \in BOOLEAN /\ exec \in BOOLEAN /\ most \in 1..MaxN
  /\ seen \in Seq(Readings)

\* The locals of main() at its start: last_action = 0.0 is long ago.  It is started
\* beside the warm minimum, for a compose file that may or may not scale: the
\* default, p01-serve/compose.yml, runs one replica at most, since its service has
\* a container_name and a host port of its own.
Init == /\ pc = "poll" /\ su = 0 /\ sd = 0 /\ desired = MinN /\ cool = Cooldown
        /\ wait = "some" /\ again = FALSE /\ actual = MinN /\ calm = Cooldown /\ seen = << >>
        /\ exec \in BOOLEAN /\ most \in 1..MaxN

\* decide(), the comparator test_scaler.py tests; main() has its own.
Decide(w, up, down, n) ==
  IF w = "unreachable" THEN n
  ELSE IF up >= UpStreak /\ n < MaxN THEN n + 1
  ELSE IF down >= DownStreak /\ n > MinN THEN n - 1
  ELSE n

\* The conditions of main()'s if and elif on a streak of n polls.
MutWantsUpLate(n) == n > UpStreak /\ desired < MaxN
MutWantsUpBelow(n) == n >= UpStreak /\ desired < MaxN - 1
WantsUp(n) == n >= UpStreak /\ desired < MaxN
MutWantsDownAlways(n) == n >= DownStreak
MutWantsDownAbove(n) == n >= DownStreak /\ desired > MinN + 1
WantsDown(n) == n >= DownStreak /\ desired > MinN

\* One turn of the loop up to the decision.
Poll(w) ==
  LET up     == WantsUp(su')
      down   == WantsDown(sd')
      cooled == cool >= Cooldown IN
  /\ pc = "poll"
  /\ wait' = w
  /\ su' = IF w = "high" THEN UpTo(UpStreak, su + 1) ELSE 0
  /\ sd' = IF ReadsZero(w) THEN UpTo(DownStreak, sd + 1) ELSE 0
  /\ seen' = Append(IF Len(seen) < UpStreak + DownStreak THEN seen ELSE Tail(seen), w)
  /\ \/ cooled /\ up /\ desired' = desired + 1 /\ pc' = "actuate"
     \/ cooled /\ ~up /\ down /\ desired' = desired - 1 /\ pc' = "actuate"
     \/ ~(cooled /\ (up \/ down)) /\ desired' = desired /\ pc' = "record"
  /\ UNCHANGED <<cool, again, options, actual, calm>>

\* docker compose up -d --scale vllm=<desired> is run and carried out.
Commanded ==
  /\ pc = "actuate"
  /\ exec => desired <= most
  /\ actual' = IF exec THEN desired ELSE actual
  /\ su' = 0 /\ sd' = 0 /\ calm' = 0 /\ seen' = << >>
  /\ pc' = "record"
  /\ UNCHANGED <<wait, desired, again, options>>

MutActuateForgets == Commanded /\ UNCHANGED cool

\* actuate() returned: only now is the action remembered.
Actuate == Commanded /\ cool' = 0

\* docker compose failed, check=True raises and main() dies without a log line;
\* compose may have scaled before it failed, where the file lets it.
ActuateFails ==
  /\ pc = "actuate" /\ exec
  /\ actual' \in {actual} \cup {n \in {desired} : n <= most}
  /\ calm' = 0 /\ pc' = "dead"
  /\ UNCHANGED <<wait, su, sd, desired, cool, again, options, seen>>

\* The JSONL line and the sleep.
Record ==
  /\ pc = "record"
  /\ cool' = UpTo(Cooldown, cool + 1)
  /\ calm' = UpTo(Cooldown, calm + 1)
  /\ pc' = "poll"
  /\ UNCHANGED <<wait, su, sd, desired, again, options, actual, seen>>

\* Ctrl-C, or the host takes the process down.
Die == /\ pc # "dead"
       /\ pc' = "dead"
       /\ UNCHANGED <<wait, su, sd, desired, cool, again, options, actual, calm, seen>>

Restart == /\ pc = "dead"
           /\ again' = TRUE
           /\ pc' = "poll" /\ su' = 0 /\ sd' = 0 /\ desired' = MinN /\ cool' = Cooldown
           /\ seen' = << >>
           /\ UNCHANGED <<wait, options, actual, calm>>

Loop == (\E w \in Readings : Poll(w)) \/ Actuate \/ ActuateFails \/ Record
Next == Loop \/ Die \/ Restart

Spec == Init /\ [][Next]_scalerVars
\* The loop keeps turning while its process lives; nobody has to start it again.
FairSpec == Spec /\ WF_scalerVars(Loop)

-----------------------------------------------------------------------------
(* Properties *)

\* Whether the last n readings are all in S.
LastAre(n, S) ==
  Len(seen) >= n /\ \A i \in (Len(seen) - n + 1)..Len(seen) : seen[i] \in S

\* A command goes out only after an unbroken streak of readings that all came
\* after the previous command: a blind poll, a lone spike or one non-empty
\* queue starts the count again.  Nothing else makes it go out, the docstring's
\* request that has waited too long included.
ScalesOnStreak ==
  pc = "actuate" => \/ LastAre(UpStreak, {"high"})
                    \/ LastAre(DownStreak, {"idle", "absent"})

\* The loop in main() decides as decide() does, which is all the tests see.
AgreesWithDecide ==
  [][pc = "poll" /\ pc' \in {"actuate", "record"} /\ cool = Cooldown
       => desired' = Decide(wait', su', sd', desired)]_scalerVars

\* One process never runs two commands within the cooldown, nor acts on a
\* replica count other than the one it last commanded.
SteadyInOneLife ==
  ~again => /\ pc = "actuate" => calm = Cooldown
            /\ exec /\ pc \in {"poll", "record"} => actual = desired

\* Pressure that stays is answered with all replicas, whatever died before, if the
\* loop lives to give the commands: with --exec it dies of every one that fails.
PressureAnswered ==
  <>[](wait = "high" /\ pc # "dead") => <>[](desired = MaxN /\ (exec => actual = MaxN))

\* Idleness that stays takes a process that was never restarted, and the replicas
\* it runs, back to the warm minimum.
IdlenessDrains ==
  <>[](wait = "idle" /\ pc # "dead" /\ ~again)
    => <>[](desired = MinN /\ (exec => actual = MinN))
=============================================================================
