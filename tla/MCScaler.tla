------------------------------ MODULE MCScaler ------------------------------
(* Instances of Scaler for TLC, and claims of its documents. *)
EXTENDS Scaler

\* "Metrics unreachable -> hold (never scale on blindness)": what the loop acts
\* on is a reading of the queue.
NeverScaleBlind == pc = "actuate" => wait \notin {"unreachable", "absent"}

\* "Scale-up also fires immediately if any request waited > --wait-slo-s": a poll
\* of a queue with such a request in it, outside the cooldown, adds a replica.
FiresOnWait ==
  [][pc = "poll" /\ pc' \in {"actuate", "record"} /\ wait' = "late"
       /\ cool = Cooldown /\ desired < MaxN => desired' = desired + 1]_scalerVars

\* "scaler.py --exec ... expect scale 1->2", with the compose file that is its
\* default: pressure that stays on a loop that nobody interrupts for ever, and that
\* is started again when it has died, gets a second replica.
ExecScales ==
  /\ exec /\ most = 1
  /\ []<>(pc = "poll") /\ <>[](wait = "high") /\ <>[][~Die]_scalerVars
  => <>(actual >= 2)

\* "waiting == 0 for --down-streak polls -> -1 replica (min --min-n)": idleness
\* that stays ends with the minimum running, with a loop that was restarted too.
IdleShrinks ==
  exec /\ <>[](wait = "idle" /\ pc # "dead") => <>[](actual = MinN)
=============================================================================
