---------------------------- MODULE ScalerProofs ----------------------------
(***************************************************************************)
(* The safety of the autoscaler loop, for all thresholds, any cooldown and *)
(* any number of deaths, for every compose file.                           *)
(***************************************************************************)
EXTENDS Scaler, TLAPS

\* The streaks are those of the last readings, and an action is due to one.
Streaks ==
  /\ Len(seen) <= UpStreak + DownStreak
  /\ LastAre(su, {"high"}) /\ LastAre(sd, {"idle", "absent"})
  /\ pc = "actuate" => su = UpStreak \/ sd = DownStreak

\* The first process knows when it acted, and what came of it.
FirstLife ==
  ~again /\ pc # "dead" =>
    /\ cool = calm
    /\ pc = "actuate" => cool = Cooldown
    /\ exec /\ pc # "actuate" => actual = desired

ScalerInv == ScalerTypeOK /\ Streaks /\ FirstLife

-----------------------------------------------------------------------------
(* Readings *)

\* What Poll does to the readings it keeps.
Push(s, w) == Append(IF Len(s) < UpStreak + DownStreak THEN s ELSE Tail(s), w)

Recent(s, n, S) == Len(s) >= n /\ \A i \in (Len(s) - n + 1)..Len(s) : s[i] \in S

\* One more reading is the last; those kept move down at most by one place.
LEMMA Pushed ==
  ASSUME NEW s \in Seq(Readings), Len(s) <= UpStreak + DownStreak, NEW w \in Readings
  PROVE  /\ Push(s, w) \in Seq(Readings)
         /\ Len(Push(s, w)) <= UpStreak + DownStreak
         /\ Push(s, w)[Len(Push(s, w))] = w
         /\ \/ Len(Push(s, w)) = Len(s) + 1 /\ \A i \in 1..Len(s) : Push(s, w)[i] = s[i]
            \/ /\ Len(s) = UpStreak + DownStreak /\ Len(Push(s, w)) = Len(s)
               /\ \A i \in 1..(Len(s) - 1) : Push(s, w)[i] = s[i + 1]
<1> DEFINE L == UpStreak + DownStreak
<1>0. L \in Nat \ {0} /\ Len(s) \in Nat
  BY ScalerConstants
<1>1. CASE Len(s) < L
  <2>1. Push(s, w) = Append(s, w)
    BY <1>1 DEF Push
  <2> QED BY <1>0, <1>1, <2>1
<1>2. CASE Len(s) = L
  <2>1. Push(s, w) = Append(Tail(s), w)
    BY <1>0, <1>2 DEF Push
  <2>2. s # << >>
    BY <1>0, <1>2
  <2>3. Tail(s) \in Seq(Readings) /\ Len(Tail(s)) = Len(s) - 1
    BY <2>2
  <2>4. \A i \in 1..(Len(s) - 1) : Tail(s)[i] = s[i + 1]
    BY <2>2
  <2> HIDE DEF L
  <2>5. Len(Push(s, w)) = Len(s)
    BY <1>0, <2>1, <2>3
  <2>6. Push(s, w)[Len(s)] = w
    BY <1>0, <2>1, <2>3
  <2>7. \A i \in 1..(Len(s) - 1) : Push(s, w)[i] = Tail(s)[i]
    BY <1>0, <2>1, <2>3
  <2>8. Push(s, w) \in Seq(Readings)
    BY <2>1, <2>3
  <2> QED BY <1>2, <2>4, <2>5, <2>6, <2>7, <2>8 DEF L
<1> QED BY <1>0, <1>1, <1>2

\* A reading in S makes an unbroken streak of such readings one longer.
LEMMA StreakGrows ==
  ASSUME NEW s \in Seq(Readings), Len(s) <= UpStreak + DownStreak, NEW w \in Readings,
         NEW S, w \in S, NEW n \in Nat, Recent(s, n, S),
         NEW k \in Nat, k <= n + 1, k <= UpStreak + DownStreak
  PROVE  Recent(Push(s, w), k, S)
<1> DEFINE t == Push(s, w)
<1>0. /\ t \in Seq(Readings)
      /\ t[Len(t)] = w
      /\ \/ Len(t) = Len(s) + 1 /\ \A i \in 1..Len(s) : t[i] = s[i]
         \/ /\ Len(s) = UpStreak + DownStreak /\ Len(t) = Len(s)
            /\ \A i \in 1..(Len(s) - 1) : t[i] = s[i + 1]
  BY Pushed, Zenon
<1> HIDE DEF t
<1>1. Len(t) \in Nat /\ Len(s) \in Nat
  BY <1>0
<1>2. UpStreak + DownStreak \in Nat
  BY ScalerConstants
<1>3. Len(t) >= k
  BY <1>0, <1>1, <1>2 DEF Recent
<1>4. ASSUME NEW i \in (Len(t) - k + 1)..Len(t) PROVE t[i] \in S
  <2>1. CASE i = Len(t)
    BY <1>0, <2>1
  <2>2. CASE i < Len(t) /\ Len(t) = Len(s) + 1 /\ \A j \in 1..Len(s) : t[j] = s[j]
    <3>1. i \in 1..Len(s) /\ i \in (Len(s) - n + 1)..Len(s)
      BY <1>1, <1>3, <2>2
    <3> QED BY <2>2, <3>1 DEF Recent
  <2>3. CASE i < Len(t) /\ Len(t) = Len(s) /\ \A j \in 1..(Len(s) - 1) : t[j] = s[j + 1]
    <3>1. i \in 1..(Len(s) - 1) /\ i + 1 \in (Len(s) - n + 1)..Len(s)
      BY <1>1, <1>3, <2>3
    <3> QED BY <2>3, <3>1 DEF Recent
  <2> QED BY <1>0, <1>1, <2>1, <2>2, <2>3
<1> QED BY <1>3, <1>4 DEF Recent, t

\* A streak of no readings is unbroken.
LEMMA NoStreak ==
  ASSUME NEW s \in Seq(Readings), NEW S
  PROVE  Recent(s, 0, S)
BY DEF Recent

-----------------------------------------------------------------------------
(* The invariant *)

\* A process that has just been started has seen nothing and done nothing.
LEMMA ScalerStarts == Init => ScalerInv
<1> SUFFICES ASSUME Init PROVE ScalerInv
  OBVIOUS
<1>1. seen \in Seq(Readings) /\ Len(seen) = 0
  BY DEF Init
<1>2. ScalerTypeOK
  <2>1. wait \in Readings
    BY DEF Init, Readings
  <2>2. exec \in BOOLEAN /\ most \in 1..MaxN /\ again \in BOOLEAN
    BY DEF Init
  <2>3. desired \in MinN..MaxN /\ actual \in MinN..MaxN /\ cool \in 0..Cooldown
        /\ calm \in 0..Cooldown /\ su \in 0..UpStreak /\ sd \in 0..DownStreak
    BY ScalerConstants DEF Init
  <2>4. pc \in {"poll", "actuate", "record", "dead"}
    BY DEF Init
  <2> QED BY <1>1, <2>1, <2>2, <2>3, <2>4 DEF ScalerTypeOK
<1>3. Streaks
  BY <1>1, ScalerConstants DEF Init, Streaks, LastAre
<1>4. FirstLife
  BY DEF Init, FirstLife
<1> QED BY <1>2, <1>3, <1>4 DEF ScalerInv

\* Poll counts streaks of what it reads and acts on those that are long enough.
LEMMA PollKeeps ==
  ASSUME ScalerInv, NEW w \in Readings, Poll(w)
  PROVE  ScalerInv'
<1> USE DEF ScalerInv
<1>0. /\ seen \in Seq(Readings) /\ Len(seen) <= UpStreak + DownStreak
      /\ Recent(seen, su, {"high"}) /\ Recent(seen, sd, {"idle", "absent"})
  BY DEF ScalerTypeOK, Streaks, LastAre, Recent
<1>1. /\ UpStreak \in Nat \ {0} /\ DownStreak \in Nat \ {0} /\ Cooldown \in Nat
      /\ MinN \in Nat /\ MaxN \in Nat
  BY ScalerConstants
<1>2. seen' = Push(seen, w)
  BY DEF Poll, Push
<1>3. seen' \in Seq(Readings) /\ Len(seen') <= UpStreak + DownStreak
  BY <1>2, Pushed DEF ScalerTypeOK, Streaks
<1>4. su \in 0..UpStreak /\ sd \in 0..DownStreak
  BY DEF ScalerTypeOK
<1>5. su' \in 0..UpStreak /\ LastAre(su, {"high"})'
  <2>1. CASE w = "high"
    <3>1. su' \in 0..UpStreak /\ su' <= su + 1
      BY <1>1, <1>4, <2>1 DEF Poll, UpTo
    <3>2. su \in Nat /\ su' \in Nat /\ su' <= UpStreak + DownStreak
      BY <1>1, <1>4, <3>1
    <3>3. w \in {"high"}
      BY <2>1
    <3>4. Recent(Push(seen, w), su', {"high"})
      BY <1>0, <3>1, <3>2, <3>3, StreakGrows
    <3> QED BY <1>2, <3>1, <3>4 DEF LastAre, Recent
  <2>2. CASE w # "high"
    <3>1. su' = 0
      BY <2>2 DEF Poll
    <3> QED BY <1>1, <1>3, <3>1, NoStreak DEF LastAre, Recent
  <2> QED BY <2>1, <2>2
<1>6. sd' \in 0..DownStreak /\ LastAre(sd, {"idle", "absent"})'
  <2>1. CASE ReadsZero(w)
    <3>1. sd' \in 0..DownStreak /\ sd' <= sd + 1
      BY <1>1, <1>4, <2>1 DEF Poll, UpTo
    <3>2. w \in {"idle", "absent"}
      BY <2>1 DEF ReadsZero
    <3>3. sd \in Nat /\ sd' \in Nat /\ sd' <= UpStreak + DownStreak
      BY <1>1, <1>4, <3>1
    <3>4. Recent(Push(seen, w), sd', {"idle", "absent"})
      BY <1>0, <3>1, <3>2, <3>3, StreakGrows
    <3> QED BY <1>2, <3>1, <3>4 DEF LastAre, Recent
  <2>2. CASE ~ReadsZero(w)
    <3>1. sd' = 0
      BY <2>2 DEF Poll
    <3> QED BY <1>1, <1>3, <3>1, NoStreak DEF LastAre, Recent
  <2> QED BY <2>1, <2>2
<1>7. /\ desired' \in MinN..MaxN /\ pc' \in {"actuate", "record"}
      /\ pc' = "actuate" => /\ su' = UpStreak \/ sd' = DownStreak
                            /\ cool = Cooldown
      /\ pc' = "record" => desired' = desired
  <2>1. desired \in MinN..MaxN /\ cool \in 0..Cooldown
    BY DEF ScalerTypeOK
  <2>2. CASE cool >= Cooldown /\ WantsUp(su') /\ desired' = desired + 1 /\ pc' = "actuate"
    BY <1>1, <1>5, <2>1, <2>2 DEF WantsUp
  <2>3. CASE cool >= Cooldown /\ WantsDown(sd') /\ desired' = desired - 1 /\ pc' = "actuate"
    BY <1>1, <1>6, <2>1, <2>3 DEF WantsDown
  <2>4. CASE desired' = desired /\ pc' = "record"
    BY <2>1, <2>4
  <2> QED BY <2>2, <2>3, <2>4 DEF Poll
<1>8. ScalerTypeOK'
  BY <1>3, <1>5, <1>6, <1>7 DEF Poll, options, ScalerTypeOK
<1>9. Streaks'
  BY <1>3, <1>5, <1>6, <1>7 DEF Streaks
<1>10. FirstLife'
  BY <1>7 DEF Poll, options, FirstLife
<1> QED BY <1>8, <1>9, <1>10

\* Where the readings are forgotten, so are the streaks.
LEMMA Forgotten ==
  ASSUME seen' = << >>, su' = 0, sd' = 0, pc' # "actuate"
  PROVE  Streaks' /\ seen' \in Seq(Readings)
BY ScalerConstants DEF Streaks, LastAre

\* Every step of the loop, its death and its restart keep the invariant.
LEMMA ScalerKeeps == ScalerInv /\ [Next]_scalerVars => ScalerInv'
<1> SUFFICES ASSUME ScalerInv, [Next]_scalerVars PROVE ScalerInv'
  OBVIOUS
<1> USE ScalerConstants DEF ScalerInv
<1>1. ASSUME NEW w \in Readings, Poll(w) PROVE ScalerInv'
  BY <1>1, PollKeeps
<1>2. CASE Actuate
  <2>1. Streaks' /\ seen' \in Seq(Readings)
    BY <1>2, Forgotten DEF Actuate, Commanded
  <2>2. ScalerTypeOK'
    BY <1>2, <2>1 DEF Actuate, Commanded, options, ScalerTypeOK
  <2>3. FirstLife'
    BY <1>2 DEF Actuate, Commanded, options, FirstLife, ScalerTypeOK
  <2> QED BY <2>1, <2>2, <2>3
<1>3. CASE ActuateFails
  <2>1. ScalerTypeOK'
    BY <1>3 DEF ActuateFails, options, ScalerTypeOK
  <2>2. Streaks'
    BY <1>3 DEF ActuateFails, Streaks, LastAre
  <2>3. FirstLife'
    BY <1>3 DEF ActuateFails, FirstLife
  <2> QED BY <2>1, <2>2, <2>3
<1>4. CASE Record
  <2>1. ScalerTypeOK'
    BY <1>4 DEF Record, options, ScalerTypeOK, UpTo
  <2>2. Streaks'
    BY <1>4 DEF Record, Streaks, LastAre
  <2>3. FirstLife'
    BY <1>4 DEF Record, options, FirstLife, ScalerTypeOK
  <2> QED BY <2>1, <2>2, <2>3
<1>5. CASE Die
  <2>1. ScalerTypeOK'
    BY <1>5 DEF Die, options, ScalerTypeOK
  <2>2. Streaks'
    BY <1>5 DEF Die, Streaks, LastAre
  <2>3. FirstLife'
    BY <1>5 DEF Die, FirstLife
  <2> QED BY <2>1, <2>2, <2>3
<1>6. CASE Restart
  <2>1. Streaks' /\ seen' \in Seq(Readings)
    BY <1>6, Forgotten DEF Restart
  <2>2. ScalerTypeOK'
    BY <1>6, <2>1 DEF Restart, options, ScalerTypeOK
  <2>3. FirstLife'
    BY <1>6 DEF Restart, FirstLife, ScalerTypeOK
  <2> QED BY <2>1, <2>2, <2>3
<1>7. CASE UNCHANGED scalerVars
  BY <1>7 DEF scalerVars, ScalerTypeOK, Streaks, LastAre, FirstLife
<1> QED BY <1>1, <1>2, <1>3, <1>4, <1>5, <1>6, <1>7 DEF Next, Loop

\* The invariant holds of every reachable state.
LEMMA ScalerInvariant == Spec => []ScalerInv
BY ScalerStarts, ScalerKeeps, PTL DEF Spec

-----------------------------------------------------------------------------
(* What a reader may rely on *)

\* Whatever dies when, every command follows an unbroken streak of readings
\* that came after the previous command of the same process (main() and its
\* two counters).
THEOREM ScalerStreaks == Spec => []ScalesOnStreak
<1>1. ScalerInv => ScalesOnStreak
  <2> SUFFICES ASSUME ScalerInv PROVE ScalesOnStreak
    OBVIOUS
  <2>1. CASE pc = "actuate" /\ su = UpStreak
    BY <2>1 DEF ScalerInv, Streaks, ScalesOnStreak
  <2>2. CASE pc = "actuate" /\ sd = DownStreak
    BY <2>2 DEF ScalerInv, Streaks, ScalesOnStreak
  <2> QED BY <2>1, <2>2 DEF ScalerInv, Streaks, ScalesOnStreak
<1> QED BY <1>1, ScalerInvariant, PTL

\* A process that was never restarted keeps its cooldown, and the replicas are
\* those it last commanded (last_action is set only after actuate() returns).
THEOREM ScalerSteady == Spec => []SteadyInOneLife
<1>1. ScalerInv => SteadyInOneLife
  BY DEF ScalerInv, FirstLife, SteadyInOneLife
<1> QED BY <1>1, ScalerInvariant, PTL

\* Outside the cooldown the loop in main() decides what decide(), the function
\* the tests check, decides.
THEOREM ScalerDecides == Spec => AgreesWithDecide
<1>1. ScalerInv /\ [Next]_scalerVars
        => [pc = "poll" /\ pc' \in {"actuate", "record"} /\ cool = Cooldown
              => desired' = Decide(wait', su', sd', desired)]_scalerVars
  <2> SUFFICES ASSUME ScalerInv, [Next]_scalerVars,
                      pc = "poll", pc' \in {"actuate", "record"}, cool = Cooldown
               PROVE  desired' = Decide(wait', su', sd', desired)
    OBVIOUS
  <2>1. PICK w \in Readings : Poll(w)
    BY DEF Next, Loop, Actuate, Commanded, ActuateFails, Record, Die, Restart, scalerVars
  <2>2. /\ UpStreak \in Nat \ {0} /\ DownStreak \in Nat \ {0} /\ Cooldown \in Nat
        /\ MinN \in Nat /\ MaxN \in Nat /\ desired \in MinN..MaxN
    BY ScalerConstants DEF ScalerInv, ScalerTypeOK
  <2>3. wait' = w
    BY <2>1 DEF Poll
  <2>4. CASE w = "unreachable"
    <3>1. su' = 0 /\ sd' = 0
      BY <2>1, <2>4 DEF Poll, ReadsZero
    <3>2. ~WantsUp(su') /\ ~WantsDown(sd')
      BY <2>2, <3>1 DEF WantsUp, WantsDown
    <3> QED BY <2>1, <2>3, <2>4, <3>2 DEF Poll, Decide
  <2>5. CASE w # "unreachable"
    BY <2>1, <2>2, <2>3, <2>5 DEF Poll, Decide, WantsUp, WantsDown
  <2> QED BY <2>4, <2>5
<1> QED BY <1>1, ScalerInvariant, PTL DEF Spec, AgreesWithDecide

\* The types of the loop's locals and of what it commands.
THEOREM ScalerTyping == Spec => []ScalerTypeOK
BY ScalerInvariant, PTL DEF ScalerInv
=============================================================================
