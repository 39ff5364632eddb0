-------------------------- MODULE DisaggProxiesProofs --------------------------
(***************************************************************************)
(* The cache of the multi-turn proxy: whose blocks a prefill is given, and *)
(* when they are still there, for all sets of conversations and turns, all *)
(* instances, any TTL and any timeout of D.  Then what the minimal proxy   *)
(* writes to its clients, for any set of requests, and both where either   *)
(* may stand in front of the workers.                                      *)
(***************************************************************************)
EXTENDS DisaggProxies, SequenceTheorems, TLAPS

Codes == {"new", "prefill", "decode", "finished", "served", "failed"}

Typing ==
  /\ pc \in [Turns -> Codes]
  /\ store \in [Convs -> Turns \cup {None}]
  /\ kept \in [Convs -> 0..TTL + 1]
  /\ late \in [Convs -> 0..Abort + 1]
  /\ used \in [Turns -> Turns \cup {None}]
  /\ idle \in [Turns -> 0..Abort + 1]

\* Cached is what was captured, under its own conversation if it has one.
Cached ==
  \A c \in Convs : store[c] # None =>
    Keyed(c) /\ ConvOf(store[c]) = c /\ pc[store[c]] = "served"

\* Handed out is what was captured, to a turn that has come.
HandedOut ==
  \A t \in Turns : used[t] # None => pc[t] # "new" /\ pc[used[t]] = "served"

\* What may still be handed out has been idle for no longer than it has been
\* cached, and its last chunk had been on the way.
Aged ==
  \A c \in Convs : store[c] # None /\ kept[c] <= TTL =>
    idle[store[c]] <= kept[c] + late[c]

\* Turns of a conversation come in order, those of a patient client one by one,
\* so that what is cached for it is of the last turn that came.
InOrder ==
  \A t, u \in Turns : ConvOf(t) = ConvOf(u) /\ t[2] < u[2] /\ pc[u] # "new" =>
    /\ pc[t] # "new"
    /\ ConvOf(t) \in Patient => pc[t] \in {"served", "failed"}

Latest ==
  \A u \in Turns : LET c == ConvOf(u) IN
    c \in Patient /\ store[c] # None /\ u[2] > store[c][2] => pc[u] = "new"

CacheInv == /\ Typing /\ Cached /\ HandedOut /\ SingleUse
            /\ Aged /\ InOrder /\ Latest /\ PreviousTurn

-----------------------------------------------------------------------------
(* Turns *)

\* A turn is a conversation and a number; all but the first have a previous one.
LEMMA TurnsArePairs ==
  ASSUME NEW t \in Turns
  PROVE  /\ ConvOf(t) \in Convs /\ t[2] \in Nat \ {0} /\ t # None
         /\ \A u \in Turns : ConvOf(u) = ConvOf(t) /\ u[2] = t[2] => u = t
         /\ t[2] > 1 => /\ Previous(t) \in Turns
                        /\ ConvOf(Previous(t)) = ConvOf(t)
                        /\ Previous(t)[2] = t[2] - 1
BY ProxyConstants DEF ConvOf, Previous

\* get() answers with the entry or with nothing.
LEMMA FreshIsStored ==
  ASSUME Typing, NEW c \in Convs
  PROVE  /\ Fresh(c) \in {store[c], None}
         /\ Fresh(c) \in Turns \cup {None}
         /\ Fresh(c) # None => kept[c] <= TTL
  BY ProxyConstants DEF Typing, Fresh

-----------------------------------------------------------------------------
(* The invariant *)

\* At the start nothing is cached and no turn has come.
LEMMA CacheStarts == Init => CacheInv
<1> SUFFICES ASSUME Init PROVE CacheInv
  OBVIOUS
<1>1. Typing
  BY ProxyConstants DEF Init, Typing, Codes
<1>2. /\ \A c \in Convs : store[c] = None
      /\ \A t \in Turns : pc[t] = "new" /\ used[t] = None
  BY DEF Init
<1>3. Cached /\ Aged
  BY <1>2 DEF Cached, Aged
<1>4. HandedOut /\ SingleUse /\ PreviousTurn
  BY <1>2 DEF HandedOut, SingleUse, PreviousTurn
<1>5. InOrder /\ Latest
  BY <1>2 DEF InOrder, Latest
<1> QED BY <1>1, <1>3, <1>4, <1>5 DEF CacheInv

\* A handler that has begun and neither asks the cache nor answers it changes
\* nothing but its own place and the clock of the blocks D has just written.
LEMMA HandlerMoves ==
  ASSUME CacheInv, NEW t \in Turns, NEW place \in {"decode", "finished", "failed"},
         pc[t] \in {"prefill", "decode", "finished"},
         pc' = [pc EXCEPT ![t] = place],
         store' = store, kept' = kept, late' = late, used' = used,
         \/ idle' = idle /\ place # "finished"
         \/ idle' = [idle EXCEPT ![t] = 0]
  PROVE  CacheInv'
<1> USE DEF CacheInv
<1>1. Typing'
  BY ProxyConstants DEF Typing, Codes
<1>2. /\ pc'[t] = place /\ pc'[t] # "new" /\ pc'[t] # "served"
      /\ \A u \in Turns \ {t} : pc'[u] = pc[u] /\ idle'[u] = idle[u]
  BY DEF Typing
<1>3. \A u \in Turns : pc[u] = "served" => u # t /\ pc'[u] = "served" /\ idle'[u] = idle[u]
  BY <1>2
<1>4. Cached'
  BY <1>3 DEF Cached, Typing
<1>5. HandedOut'
  BY <1>2, <1>3 DEF HandedOut, Typing
<1>6. SingleUse' /\ PreviousTurn'
  BY DEF SingleUse, PreviousTurn
<1>7. Aged'
  <2>1. \A c \in Convs : store[c] # None => idle'[store[c]] = idle[store[c]]
    BY <1>3 DEF Cached, Typing
  <2> QED BY <2>1 DEF Aged
<1>8. InOrder'
  BY <1>2 DEF InOrder
<1>9. Latest'
  BY <1>2 DEF Latest
<1> QED BY <1>1, <1>4, <1>5, <1>6, <1>7, <1>8, <1>9

\* A turn that comes takes the entry out, and is the next of its conversation.
LEMMA ArriveKeeps ==
  ASSUME CacheInv, NEW t \in Turns, Arrive(t)
  PROVE  CacheInv'
<1> USE DEF CacheInv
<1> DEFINE c == ConvOf(t)
           b == Fresh(c)
<1>1. /\ c \in Convs /\ pc[t] = "new" /\ used[t] = None
      /\ kept' = kept /\ late' = late /\ idle' = idle
      /\ pc' = [pc EXCEPT ![t] = "prefill"]
  BY TurnsArePairs DEF Arrive, HandedOut
<1>2. /\ pc'[t] = "prefill"
      /\ \A u \in Turns \ {t} : pc'[u] = pc[u]
      /\ \A u \in Turns : pc[u] = "served" => pc'[u] = "served" /\ u # t
  BY <1>1 DEF Typing
<1>3. b \in {store[c], None} /\ b \in Turns \cup {None}
  BY <1>1, FreshIsStored
<1>4. \/ used' = [used EXCEPT ![t] = b] /\ store' = [store EXCEPT ![c] = None]
      \/ used' = used /\ store' = store
  BY DEF Arrive, Popped
<1> HIDE DEF b
<1>5. /\ \A u \in Turns \ {t} : used'[u] = used[u]
      /\ used'[t] # None => used'[t] = b /\ b = store[c] /\ store'[c] = None
      /\ \A d \in Convs : store'[d] \in {store[d], None}
  BY <1>1, <1>3, <1>4 DEF Typing
<1>6. Typing'
  BY <1>1, <1>3, <1>4 DEF Typing, Codes
<1>7. Cached'
  BY <1>2, <1>5 DEF Cached, Typing
<1>8. HandedOut'
  BY <1>1, <1>2, <1>5 DEF HandedOut, Cached, Typing
<1>9. SingleUse'
  <2>1. used'[t] # None => /\ ConvOf(used'[t]) = c
                           /\ \A u \in Turns : used[u] # used'[t]
                           /\ \A d \in Convs : store'[d] # used'[t]
    BY <1>1, <1>5 DEF SingleUse, Cached, Typing
  <2>2. ASSUME NEW u \in Turns \ {t}, used'[u] # None
        PROVE  /\ ConvOf(used'[u]) = ConvOf(u)
               /\ \A w \in Turns \ {u} : used'[w] # used'[u]
               /\ \A d \in Convs : store'[d] # used'[u]
    <3>1. used'[u] = used[u] /\ used[u] # None
      BY <1>5, <2>2
    <3> QED BY <1>5, <2>1, <3>1 DEF SingleUse
  <2>3. \A u \in Turns \ {t} : used'[t] # None => used'[u] # used'[t]
    BY <1>5, <2>1
  <2> QED BY <2>1, <2>2, <2>3 DEF SingleUse
<1>10. Aged'
  BY <1>1, <1>5 DEF Aged
\* Everything before t has come, and is over if the client waits.
<1>11. \A u \in Turns : ConvOf(u) = c /\ u[2] < t[2] =>
         /\ pc[u] # "new"
         /\ c \in Patient => pc[u] \in {"served", "failed"}
  <2> SUFFICES ASSUME NEW u \in Turns, ConvOf(u) = c, u[2] < t[2]
               PROVE  /\ pc[u] # "new"
                      /\ c \in Patient => pc[u] \in {"served", "failed"}
    OBVIOUS
  <2>1. t[2] > 1 /\ t[2] \in Nat /\ u[2] \in Nat
    BY TurnsArePairs
  <2>2. /\ Previous(t) \in Turns /\ ConvOf(Previous(t)) = c
        /\ Previous(t)[2] = t[2] - 1
    BY <2>1, TurnsArePairs
  <2>3. /\ pc[Previous(t)] # "new"
        /\ c \in Patient => pc[Previous(t)] \in {"served", "failed"}
    BY <2>1 DEF Arrive, MayCome
  <2>4. CASE u[2] = t[2] - 1
    BY <2>2, <2>3, <2>4, TurnsArePairs
  <2>5. CASE u[2] < t[2] - 1
    BY <2>2, <2>3, <2>5 DEF InOrder
  <2> QED BY <2>1, <2>4, <2>5
<1>12. InOrder'
  <2> SUFFICES ASSUME NEW u \in Turns, NEW w \in Turns,
                      ConvOf(u) = ConvOf(w), u[2] < w[2], pc'[w] # "new"
               PROVE  /\ pc'[u] # "new"
                      /\ ConvOf(u) \in Patient => pc'[u] \in {"served", "failed"}
    BY DEF InOrder
  <2>1. CASE w = t
    <3>1. u # t
      BY <2>1, TurnsArePairs
    <3> QED BY <1>2, <1>11, <2>1, <3>1
  <2>2. CASE w # t
    BY <1>1, <1>2, <2>2 DEF InOrder
  <2> QED BY <2>1, <2>2
<1>13. Latest'
  <2> SUFFICES ASSUME NEW u \in Turns, ConvOf(u) \in Patient,
                      store'[ConvOf(u)] # None, u[2] > store'[ConvOf(u)][2]
               PROVE  pc'[u] = "new"
    BY DEF Latest
  <2>1. store'[ConvOf(u)] = store[ConvOf(u)] /\ ConvOf(u) \in Convs
    BY <1>5, TurnsArePairs
  <2>2. CASE u = t
    <3>1. Keyed(c)
      BY <2>1, <2>2 DEF Cached
    <3>2. store'[c] = None
      BY <1>1, <3>1 DEF Arrive, Popped, Typing
    <3> QED BY <2>2, <3>2
  <2> QED BY <1>2, <2>1, <2>2 DEF Latest
<1>14. PreviousTurn'
  <2>1. ASSUME c \in Patient, used'[t] # None PROVE used'[t] = Previous(t)
    <3> DEFINE o == store[c]
    <3>1. /\ used'[t] = o /\ o \in Turns /\ ConvOf(o) = c /\ pc[o] = "served"
      BY <1>1, <1>5, <2>1 DEF Cached, Typing
    <3>2. o[2] \in Nat \ {0} /\ t[2] \in Nat \ {0} /\ o # t
      BY <1>1, <3>1, TurnsArePairs
    <3> HIDE DEF o
    <3>3. o[2] # t[2]
      BY <3>1, <3>2, TurnsArePairs
    <3>4. ~(t[2] < o[2])
      BY <1>1, <3>1 DEF InOrder
    <3>5. /\ t[2] > 1 /\ Previous(t) \in Turns /\ ConvOf(Previous(t)) = c
          /\ Previous(t)[2] = t[2] - 1 /\ pc[Previous(t)] # "new"
      <4>1. t[2] > 1
        BY <3>2, <3>3, <3>4
      <4>2. Previous(t) \in Turns /\ ConvOf(Previous(t)) = c /\ Previous(t)[2] = t[2] - 1
        BY <4>1, TurnsArePairs
      <4>3. Previous(t)[2] < t[2]
        BY <3>2, <4>2
      <4> QED BY <1>11, <4>1, <4>2, <4>3
    <3>6. ~(Previous(t)[2] > o[2])
      BY <2>1, <3>1, <3>5, TurnsArePairs DEF Latest, o
    <3>7. o[2] = Previous(t)[2]
      BY <3>2, <3>3, <3>4, <3>5, <3>6
    <3>8. o = Previous(t)
      BY <3>1, <3>5, <3>7, TurnsArePairs
    <3> QED BY <3>1, <3>8
  <2> QED BY <1>5, <2>1 DEF PreviousTurn
<1> QED BY <1>6, <1>7, <1>8, <1>9, <1>10, <1>12, <1>13, <1>14

\* The chunk that names the blocks of a turn is read once: nobody else has them.
LEMMA CaptureKeeps ==
  ASSUME CacheInv, NEW t \in Turns, Capture(t)
  PROVE  CacheInv'
<1> USE DEF CacheInv
<1> DEFINE c == ConvOf(t)
<1>1. /\ c \in Convs /\ pc[t] = "finished"
      /\ used' = used /\ idle' = idle
      /\ pc' = [pc EXCEPT ![t] = "served"]
  BY TurnsArePairs DEF Capture
<1>2. /\ pc'[t] = "served"
      /\ \A u \in Turns \ {t} : pc'[u] = pc[u]
      /\ \A u \in Turns : pc[u] = "served" => pc'[u] = "served" /\ u # t
  BY <1>1 DEF Typing
<1>3. \/ /\ Keyed(c)
         /\ store' = [store EXCEPT ![c] = t] /\ kept' = [kept EXCEPT ![c] = 0]
         /\ late' = [late EXCEPT ![c] = idle[t]]
      \/ store' = store /\ kept' = kept /\ late' = late
  BY DEF Capture, Put
<1>4. \A d \in Convs :
        \/ store'[d] = store[d] /\ kept'[d] = kept[d] /\ late'[d] = late[d]
        \/ d = c /\ Keyed(c) /\ store'[d] = t /\ kept'[d] = 0 /\ late'[d] = idle[t]
  BY <1>1, <1>3 DEF Typing
<1>5. Typing'
  <2>1. pc' \in [Turns -> Codes]
    BY <1>1 DEF Typing, Codes
  <2>2. 0 \in 0..TTL + 1
    BY ProxyConstants
  <2>3. /\ store' \in [Convs -> Turns \cup {None}]
        /\ kept' \in [Convs -> 0..TTL + 1] /\ late' \in [Convs -> 0..Abort + 1]
    BY <1>1, <1>3, <2>2 DEF Typing
  <2> QED BY <1>1, <2>1, <2>3 DEF Typing
<1>6. Cached'
  BY <1>2, <1>4 DEF Cached, Typing
<1>7. HandedOut'
  BY <1>1, <1>2 DEF HandedOut, Typing
<1>8. \A u \in Turns : used[u] # t
  BY <1>1, TurnsArePairs DEF HandedOut
<1>9. SingleUse'
  BY <1>1, <1>4, <1>8 DEF SingleUse
<1>10. Aged'
  <2>1. ASSUME NEW d \in Convs, store'[d] # None, kept'[d] <= TTL
        PROVE  idle'[store'[d]] <= kept'[d] + late'[d]
    <3>1. CASE store'[d] = store[d] /\ kept'[d] = kept[d] /\ late'[d] = late[d]
      BY <1>1, <2>1, <3>1 DEF Aged
    <3>2. CASE store'[d] = t /\ kept'[d] = 0 /\ late'[d] = idle[t]
      BY <1>1, <3>2 DEF Typing
    <3> QED BY <1>4, <3>1, <3>2
  <2> QED BY <2>1 DEF Aged
<1>11. InOrder'
  BY <1>1, <1>2 DEF InOrder
<1>12. Latest'
  <2> SUFFICES ASSUME NEW u \in Turns, ConvOf(u) \in Patient,
                      store'[ConvOf(u)] # None, u[2] > store'[ConvOf(u)][2]
               PROVE  pc'[u] = "new"
    BY DEF Latest
  <2>1. ConvOf(u) \in Convs /\ u[2] \in Nat /\ t[2] \in Nat
    BY TurnsArePairs
  <2>2. CASE store'[ConvOf(u)] = store[ConvOf(u)]
    <3>1. pc[u] = "new"
      BY <2>2 DEF Latest
    <3> QED BY <1>1, <1>2, <3>1
  <2>3. CASE ConvOf(u) = c /\ store'[ConvOf(u)] = t
    <3>1. u # t /\ t[2] < u[2]
      BY <2>1, <2>3
    <3>2. pc[u] = "new"
      BY <1>1, <2>3, <3>1 DEF InOrder
    <3> QED BY <1>2, <3>1, <3>2
  <2> QED BY <1>4, <2>1, <2>2, <2>3
<1>13. PreviousTurn'
  BY <1>1 DEF PreviousTurn
<1> QED BY <1>5, <1>6, <1>7, <1>9, <1>10, <1>11, <1>12, <1>13

\* evict_stale() only takes entries out.
LEMMA HealthKeeps ==
  ASSUME CacheInv, Health
  PROVE  CacheInv'
<1> USE DEF CacheInv
<1>1. /\ pc' = pc /\ kept' = kept /\ late' = late /\ used' = used /\ idle' = idle
      /\ store' = [d \in Convs |-> Fresh(d)]
  BY DEF Health, Evicted
<1>2. \A d \in Convs : /\ store'[d] \in {store[d], None}
                       /\ store'[d] \in Turns \cup {None}
  BY <1>1, FreshIsStored
<1>3. Typing'
  <2>1. store' \in [Convs -> Turns \cup {None}]
    BY <1>1, <1>2
  <2> QED BY <1>1, <2>1 DEF Typing
<1>4. Cached' /\ HandedOut'
  BY <1>1, <1>2 DEF Cached, HandedOut
<1>5. SingleUse'
  BY <1>1, <1>2 DEF SingleUse, Typing
<1>6. Aged'
  BY <1>1, <1>2 DEF Aged
<1>7. InOrder' /\ PreviousTurn'
  BY <1>1 DEF InOrder, PreviousTurn
<1>8. Latest'
  BY <1>1, <1>2, TurnsArePairs DEF Latest
<1> QED BY <1>3, <1>4, <1>5, <1>6, <1>7, <1>8

\* Both clocks of an entry move together.
LEMMA TickKeeps ==
  ASSUME CacheInv, Tick
  PROVE  CacheInv'
<1> USE DEF CacheInv
<1>1. /\ pc' = pc /\ store' = store /\ used' = used
      /\ kept' = [c \in Convs |-> IF store[c] = None THEN 0 ELSE Older(kept[c], TTL + 1)]
      /\ late' = [c \in Convs |-> IF store[c] = None THEN 0 ELSE late[c]]
      /\ idle' = [t \in Turns |-> IF pc[t] = "finished" \/ store[ConvOf(t)] = t
                                  THEN Older(idle[t], Abort + 1) ELSE 0]
  BY DEF Tick
<1>2. TTL \in Nat /\ Abort \in Nat
  BY ProxyConstants
<1>3. /\ \A c \in Convs : kept[c] \in 0..TTL + 1 /\ late[c] \in 0..Abort + 1
      /\ \A t \in Turns : idle[t] \in 0..Abort + 1
  BY DEF Typing
<1>4. \A t \in Turns : idle'[t] \in 0..Abort + 1 /\ idle'[t] <= idle[t] + 1
  BY <1>1, <1>2, <1>3 DEF Older
<1>5. \A c \in Convs : /\ kept'[c] \in 0..TTL + 1 /\ late'[c] \in 0..Abort + 1
                       /\ store[c] # None => late'[c] = late[c]
                       /\ store[c] # None /\ kept'[c] <= TTL => kept'[c] = kept[c] + 1
  BY <1>1, <1>2, <1>3 DEF Older
<1>6. Typing'
  <2>1. /\ kept' \in [Convs -> 0..TTL + 1] /\ late' \in [Convs -> 0..Abort + 1]
        /\ idle' \in [Turns -> 0..Abort + 1]
    BY <1>1, <1>4, <1>5
  <2> QED BY <1>1, <2>1 DEF Typing
<1>7. Cached' /\ HandedOut' /\ SingleUse' /\ InOrder' /\ Latest' /\ PreviousTurn'
  BY <1>1 DEF Cached, HandedOut, SingleUse, InOrder, Latest, PreviousTurn
<1>8. Aged'
  <2>1. ASSUME NEW c \in Convs, store[c] # None, kept'[c] <= TTL
        PROVE  idle'[store[c]] <= kept'[c] + late'[c]
    <3>1. kept'[c] = kept[c] + 1 /\ late'[c] = late[c] /\ store[c] \in Turns
      BY <1>5, <2>1 DEF Typing
    <3>2. idle[store[c]] <= kept[c] + late[c]
      BY <1>2, <1>3, <2>1, <3>1 DEF Aged
    <3> QED BY <1>2, <1>3, <1>4, <3>1, <3>2
  <2> QED BY <1>1, <2>1 DEF Aged
<1> QED BY <1>6, <1>7, <1>8

\* No step of a handler, of the clock or of /health breaks the invariant.
LEMMA CacheKeeps == CacheInv /\ [Next]_proxyVars => CacheInv'
<1> SUFFICES ASSUME CacheInv, [Next]_proxyVars PROVE CacheInv'
  OBVIOUS
<1>1. ASSUME NEW t \in Turns, Arrive(t) PROVE CacheInv'
  BY <1>1, ArriveKeeps
<1>2. ASSUME NEW t \in Turns, PrefillDone(t) PROVE CacheInv'
  BY <1>2, HandlerMoves DEF PrefillDone
<1>3. ASSUME NEW t \in Turns, DecodeFinishes(t) PROVE CacheInv'
  BY <1>3, HandlerMoves DEF DecodeFinishes
<1>4. ASSUME NEW t \in Turns, Capture(t) PROVE CacheInv'
  BY <1>4, CaptureKeeps
<1>5. ASSUME NEW t \in Turns, Fails(t) PROVE CacheInv'
  BY <1>5, HandlerMoves DEF Fails
<1>6. CASE Health
  BY <1>6, HealthKeeps
<1>7. CASE Tick
  BY <1>7, TickKeeps
<1>8. CASE UNCHANGED proxyVars
  BY <1>8 DEF proxyVars, CacheInv, Typing, Cached, HandedOut, SingleUse, Aged, InOrder,
              Latest, PreviousTurn
<1> QED BY <1>1, <1>2, <1>3, <1>4, <1>5, <1>6, <1>7, <1>8 DEF Next, Handle

\* The invariant holds of every reachable state.
LEMMA CacheInvariant == Spec => []CacheInv
BY CacheStarts, CacheKeeps, PTL DEF Spec

-----------------------------------------------------------------------------
(* What a reader may rely on *)

\* However handlers interleave, get() gives the blocks of a turn to one prefill
\* of its own conversation at most.
THEOREM CacheSingleUse == Spec => []SingleUse
BY CacheInvariant, PTL DEF CacheInv

\* What get() gives a client that waits for its answers is of the turn before.
THEOREM CachePreviousTurn == Spec => []PreviousTurn
BY CacheInvariant, PTL DEF CacheInv

\* What get() gives has not outlived D's timeout, unless the TTL and the lag of D's
\* last chunk together exceed it: for every TTL and timeout, and any lag.
THEOREM CacheAlive == Spec => AliveAtHandoff
<1>1. CacheInv /\ [Next]_proxyVars
        => [\A t \in Turns : used'[t] # used[t] =>
              idle[used'[t]] <= Abort \/ late[ConvOf(t)] + TTL > Abort]_proxyVars
  <2> SUFFICES ASSUME CacheInv, [Next]_proxyVars, NEW t \in Turns, used'[t] # used[t]
               PROVE  idle[used'[t]] <= Abort \/ late[ConvOf(t)] + TTL > Abort
    OBVIOUS
  <2>1. PICK u \in Turns : Arrive(u)
    BY DEF Next, Handle, PrefillDone, DecodeFinishes, Capture, Fails, Health, Tick, proxyVars
  <2> DEFINE c == ConvOf(u)
             b == Fresh(c)
  <2>2. c \in Convs /\ Typing
    BY TurnsArePairs DEF CacheInv
  <2>3. used[u] = None
    BY <2>1 DEF Arrive, CacheInv, HandedOut
  <2>4. used' = [used EXCEPT ![u] = b]
    BY <2>1 DEF Arrive
  <2>5. b \in {store[c], None} /\ b \in Turns \cup {None} /\ (b # None => kept[c] <= TTL)
    BY <2>2, FreshIsStored
  <2> HIDE DEF b
  <2>6. t = u /\ used'[t] = b /\ b # None
    BY <2>2, <2>3, <2>4, <2>5 DEF Typing
  <2>7. idle[b] <= kept[c] + late[c]
    BY <2>2, <2>5, <2>6 DEF CacheInv, Aged
  <2>8. idle[b] \in Nat /\ kept[c] \in Nat /\ late[c] \in Nat
    BY <2>2, <2>5, <2>6, ProxyConstants DEF Typing
  <2> QED BY <2>5, <2>6, <2>7, <2>8, ProxyConstants
<1> QED BY <1>1, CacheInvariant, PTL DEF Spec, AliveAtHandoff

\* The types of cache and handlers; the iterators stay on the instances.
THEOREM ProxyTyping == Spec => []ProxyTypeOK
<1> DEFINE Iterators ==
      /\ prefill \in 0..Prefills - 1 /\ decode \in 0..Decodes - 1
      /\ onP \in [Turns -> 0..Prefills - 1 \cup {None}]
      /\ onD \in [Turns -> 0..Decodes - 1 \cup {None}]
<1>1. Prefills \in Nat \ {0} /\ Decodes \in Nat \ {0}
  BY ProxyConstants
<1>2. ASSUME NEW n \in Nat \ {0}, NEW i \in 0..n - 1 PROVE After(i, n) \in 0..n - 1
  <2>1. i + 1 \in Nat
    OBVIOUS
  <2> QED BY <2>1, Z3 DEF After
<1>3. Init => Iterators
  BY <1>1 DEF Init
<1>4. Iterators /\ [Next]_proxyVars => Iterators'
  <2> SUFFICES ASSUME Iterators, [Next]_proxyVars PROVE Iterators'
    OBVIOUS
  <2>1. ASSUME NEW t \in Turns, Arrive(t) PROVE Iterators'
    BY <1>1, <1>2, <2>1 DEF Arrive
  <2>2. ASSUME NEW t \in Turns, PrefillDone(t) PROVE Iterators'
    BY <1>1, <1>2, <2>2 DEF PrefillDone
  <2>3. ASSUME NEW t \in Turns, DecodeFinishes(t) \/ Capture(t) \/ Fails(t) PROVE Iterators'
    BY <2>3 DEF DecodeFinishes, Capture, Fails
  <2>4. CASE Health \/ Tick \/ UNCHANGED proxyVars
    BY <2>4 DEF Health, Tick, proxyVars
  <2> QED BY <2>1, <2>2, <2>3, <2>4 DEF Next, Handle
<1>5. CacheInv /\ Iterators => ProxyTypeOK
  BY DEF CacheInv, Typing, Codes, ProxyTypeOK
<1> QED BY <1>3, <1>4, <1>5, CacheInvariant, PTL DEF Spec

-----------------------------------------------------------------------------
(* The minimal proxy: AnsweredWhole is not inductive.  It needs what has    *)
(* been written at each place of the thread, and that only a thread whose   *)
(* client left has written into an answer twice.                            *)

MiniTyping ==
  /\ at \in [Reqs -> {"new", "prefill", "decode", "head", "body", "closed"}]
  /\ present \in [Reqs -> BOOLEAN]
  /\ reply \in [Reqs -> Mini!Codes \cup {None}]
  /\ guarded \in [Reqs -> BOOLEAN]
  /\ out \in [Reqs -> Seq(Mini!Codes \cup {"body"})]

\* What is on the wire at a place: before a head nothing, or the head of the
\* answer a client did not wait for.
Wire(r) ==
  /\ at[r] \in {"new", "prefill", "decode"} => out[r] = << >>
  /\ at[r] = "head" => \/ out[r] = << >>
                       \/ ~guarded[r] /\ reply[r] = "502" /\ \E c \in Mini!Codes : out[r] = <<c>>
  /\ at[r] = "body" => \/ \E c \in Mini!Codes : out[r] = <<c>>
                       \/ ~guarded[r] /\ \E c \in Mini!Codes : out[r] = <<c, "502">>
  /\ at[r] = "closed" =>
       \/ out[r] = << >>
       \/ \E c \in Mini!Codes : out[r] \in {<<c>>, <<c, "body">>, <<c, "502">>, <<c, "502", "body">>}
  /\ at[r] \in {"head", "body"} => reply[r] \in Mini!Codes

\* A client that stays sees no write raise.
Unbroken(r) ==
  present[r] =>
    /\ at[r] = "head" => out[r] = << >>
    /\ at[r] = "body" => \E c \in Mini!Codes : out[r] = <<c>>
    /\ at[r] = "closed" => \E c \in Mini!Codes : out[r] = <<c, "body">>

MiniInv == MiniTyping /\ \A r \in Reqs : Wire(r) /\ Unbroken(r)

-----------------------------------------------------------------------------

\* Nothing has been written yet.
LEMMA MiniStarts == Mini!Init => MiniInv
<1> SUFFICES ASSUME Mini!Init PROVE MiniInv
  OBVIOUS
<1>1. MiniTyping
  BY DEF Mini!Init, MiniTyping
<1>2. ASSUME NEW r \in Reqs PROVE Wire(r) /\ Unbroken(r)
  BY DEF Mini!Init, Wire, Unbroken
<1> QED BY <1>1, <1>2 DEF MiniInv

\* A thread that changes its own place, and keeps what it owes the wire, keeps
\* the invariant of all.
LEMMA OneThread ==
  ASSUME MiniInv, NEW r \in Reqs, MiniTyping', Wire(r)', Unbroken(r)',
         \A q \in Reqs \ {r} : /\ at'[q] = at[q] /\ present'[q] = present[q]
                               /\ reply'[q] = reply[q] /\ guarded'[q] = guarded[q]
                               /\ out'[q] = out[q]
  PROVE  MiniInv'
<1>1. ASSUME NEW q \in Reqs \ {r} PROVE Wire(q)' /\ Unbroken(q)'
  <2>1. Wire(q) /\ Unbroken(q)
    BY DEF MiniInv
  <2>2. Wire(q)'
    BY <2>1 DEF Wire
  <2>3. Unbroken(q)'
    BY <2>1 DEF Unbroken
  <2> QED BY <2>2, <2>3
<1> QED BY <1>1 DEF MiniInv

\* An answer is begun: the first, or the one of the except clause after it.
LEMMA SendKeeps ==
  ASSUME MiniInv, NEW r \in Reqs, NEW code \in Mini!Codes, NEW inTry \in BOOLEAN,
         Mini!Send(r, code, inTry),
         \/ out[r] = << >>
         \/ ~inTry /\ code = "502" /\ ~present[r] /\ \E c \in Mini!Codes : out[r] = <<c>>
  PROVE  MiniInv'
<1>1. /\ at'[r] = "head" /\ reply'[r] = code /\ guarded'[r] = inTry
      /\ out'[r] = out[r] /\ present'[r] = present[r]
      /\ \A q \in Reqs \ {r} : /\ at'[q] = at[q] /\ present'[q] = present[q]
                               /\ reply'[q] = reply[q] /\ guarded'[q] = guarded[q]
                               /\ out'[q] = out[q]
  BY DEF Mini!Send, MiniInv, MiniTyping
<1>2. MiniTyping'
  BY DEF Mini!Send, MiniInv, MiniTyping
<1>3. Wire(r)'
  BY <1>1 DEF Wire
<1>4. Unbroken(r)'
  BY <1>1 DEF Unbroken
<1> QED BY <1>1, <1>2, <1>3, <1>4, OneThread

\* A worker is asked, or a thread whose client left ends.
LEMMA GoesKeeps ==
  ASSUME MiniInv, NEW r \in Reqs, NEW there \in {"prefill", "decode", "closed"},
         Mini!Goes(r, there),
         \/ at[r] \in {"new", "prefill"} /\ there # "closed"
         \/ at[r] \in {"head", "body"} /\ ~guarded[r] /\ ~present[r] /\ there = "closed"
  PROVE  MiniInv'
<1>1. /\ at'[r] = there /\ reply'[r] = reply[r] /\ guarded'[r] = guarded[r]
      /\ out'[r] = out[r] /\ present'[r] = present[r]
      /\ \A q \in Reqs \ {r} : /\ at'[q] = at[q] /\ present'[q] = present[q]
                               /\ reply'[q] = reply[q] /\ guarded'[q] = guarded[q]
                               /\ out'[q] = out[q]
  BY DEF Mini!Goes, MiniInv, MiniTyping
<1>2. MiniTyping'
  BY DEF Mini!Goes, MiniInv, MiniTyping
<1>3. Wire(r) /\ Unbroken(r)
  BY DEF MiniInv
<1>4. Wire(r)'
  <2>1. CASE there # "closed"
    BY <1>1, <1>3, <2>1 DEF Wire
  <2>2. CASE there = "closed" /\ at[r] = "head"
    BY <1>1, <1>3, <2>2 DEF Wire
  <2>3. CASE there = "closed" /\ at[r] = "body"
    BY <1>1, <1>3, <2>3 DEF Wire
  <2> QED BY <2>1, <2>2, <2>3
<1>5. Unbroken(r)'
  BY <1>1, <1>3 DEF Unbroken
<1> QED BY <1>1, <1>2, <1>4, <1>5, OneThread

\* What a write adds to one piece, or to two.
LEMMA Appending ==
  ASSUME NEW S, NEW a \in S, NEW b \in S, NEW c \in S
  PROVE  /\ Append(<<a>>, b) = <<a, b>>
         /\ Append(<<a, b>>, c) = <<a, b, c>>
<1>1. <<a>> \in Seq(S) /\ <<a, b>> \in Seq(S)
  OBVIOUS
<1>2. Append(<<a>>, b) = <<a, b>>
  <2>1. /\ Append(<<a>>, b) \in Seq(S) /\ Len(Append(<<a>>, b)) = 2
        /\ Append(<<a>>, b)[1] = a /\ Append(<<a>>, b)[2] = b
    BY <1>1, AppendProperties
  <2>2. /\ <<a, b>> \in Seq(S) /\ Len(<<a, b>>) = 2
        /\ <<a, b>>[1] = a /\ <<a, b>>[2] = b
    OBVIOUS
  <2>3. \A i \in 1..2 : i = 1 \/ i = 2
    OBVIOUS
  <2> QED BY <2>1, <2>2, <2>3, SeqEqual
<1>3. Append(<<a, b>>, c) = <<a, b, c>>
  <2>1. /\ Append(<<a, b>>, c) \in Seq(S) /\ Len(Append(<<a, b>>, c)) = 3
        /\ Append(<<a, b>>, c)[1] = a /\ Append(<<a, b>>, c)[2] = b
        /\ Append(<<a, b>>, c)[3] = c
    BY <1>1, AppendProperties
  <2>2. /\ <<a, b, c>> \in Seq(S) /\ Len(<<a, b, c>>) = 3
        /\ <<a, b, c>>[1] = a /\ <<a, b, c>>[2] = b /\ <<a, b, c>>[3] = c
    OBVIOUS
  <2>3. \A i \in 1..3 : i = 1 \/ i = 2 \/ i = 3
    OBVIOUS
  <2> QED BY <2>1, <2>2, <2>3, SeqEqual
<1> QED BY <1>2, <1>3

\* A head is followed by a body, and then the thread ends.
LEMMA WriteKeeps ==
  ASSUME MiniInv, NEW r \in Reqs, Mini!WriteHead(r) \/ Mini!WriteBody(r)
  PROVE  MiniInv'
<1>1. Wire(r) /\ Unbroken(r) /\ MiniTyping
  BY DEF MiniInv
<1>2. ASSUME Mini!WriteHead(r) PROVE MiniInv'
  <2>1. /\ at[r] = "head" /\ at'[r] = "body" /\ reply'[r] = reply[r]
        /\ guarded'[r] = guarded[r] /\ present'[r] = present[r]
        /\ out'[r] = Append(out[r], reply[r]) /\ reply[r] \in Mini!Codes
        /\ \A q \in Reqs \ {r} : /\ at'[q] = at[q] /\ present'[q] = present[q]
                                 /\ reply'[q] = reply[q] /\ guarded'[q] = guarded[q]
                                 /\ out'[q] = out[q]
    BY <1>1, <1>2 DEF Mini!WriteHead, Mini!Write, MiniTyping, Wire
  <2>2. MiniTyping'
    <3>1. Append(out[r], reply[r]) \in Seq(Mini!Codes \cup {"body"})
      BY <1>1, <2>1 DEF MiniTyping
    <3> QED BY <1>1, <1>2, <3>1 DEF Mini!WriteHead, Mini!Write, MiniTyping
  <2>3. CASE out[r] = << >>
    <3>1. out'[r] = <<reply[r]>>
      BY <2>1, <2>3
    <3>2. Wire(r)'
      BY <2>1, <3>1 DEF Wire
    <3>3. Unbroken(r)'
      BY <2>1, <3>1 DEF Unbroken
    <3> QED BY <2>1, <2>2, <3>2, <3>3, OneThread
  <2>4. CASE out[r] # << >>
    <3>1. PICK c \in Mini!Codes : out[r] = <<c>>
      BY <1>1, <2>1, <2>4 DEF Wire
    <3>2. ~guarded[r] /\ reply[r] = "502" /\ ~present[r]
      BY <1>1, <2>1, <2>4 DEF Wire, Unbroken
    <3>3. out'[r] = <<c, "502">>
      BY <2>1, <3>1, <3>2, Appending DEF Mini!Codes
    <3>4. Wire(r)'
      BY <2>1, <3>2, <3>3 DEF Wire
    <3>5. Unbroken(r)'
      BY <2>1, <3>2 DEF Unbroken
    <3> QED BY <2>1, <2>2, <3>4, <3>5, OneThread
  <2> QED BY <2>3, <2>4
<1>3. ASSUME Mini!WriteBody(r) PROVE MiniInv'
  <2>1. /\ at[r] = "body" /\ at'[r] = "closed" /\ present'[r] = present[r]
        /\ out'[r] = Append(out[r], "body")
        /\ \A q \in Reqs \ {r} : /\ at'[q] = at[q] /\ present'[q] = present[q]
                                 /\ reply'[q] = reply[q] /\ guarded'[q] = guarded[q]
                                 /\ out'[q] = out[q]
    BY <1>1, <1>3 DEF Mini!WriteBody, Mini!Write, MiniTyping
  <2>2. MiniTyping'
    <3>1. Append(out[r], "body") \in Seq(Mini!Codes \cup {"body"})
      BY <1>1 DEF MiniTyping
    <3> QED BY <1>1, <1>3, <3>1 DEF Mini!WriteBody, Mini!Write, MiniTyping
  <2>3. ASSUME NEW c \in Mini!Codes, out[r] = <<c>> PROVE MiniInv'
    <3>1. out'[r] = <<c, "body">>
      <4>1. c \in Mini!Codes \cup {"body"} /\ "body" \in Mini!Codes \cup {"body"}
        BY <2>3
      <4> QED BY <2>1, <2>3, <4>1, Appending
    <3>2. Wire(r)'
      BY <2>1, <3>1 DEF Wire
    <3>3. Unbroken(r)'
      BY <2>1, <3>1 DEF Unbroken
    <3> QED BY <2>1, <2>2, <3>2, <3>3, OneThread
  <2>4. ASSUME NEW c \in Mini!Codes, out[r] = <<c, "502">> PROVE MiniInv'
    <3>1. out'[r] = <<c, "502", "body">>
      <4>1. /\ c \in Mini!Codes \cup {"body"} /\ "body" \in Mini!Codes \cup {"body"}
            /\ "502" \in Mini!Codes \cup {"body"}
        BY <2>4 DEF Mini!Codes
      <4> QED BY <2>1, <2>4, <4>1, Appending
    <3>2. \A d \in Mini!Codes : out[r] # <<d>>
      BY <2>4
    <3>3. ~present[r]
      BY <1>1, <2>1, <3>2 DEF Unbroken
    <3>4. Wire(r)'
      BY <2>1, <3>1 DEF Wire
    <3>5. Unbroken(r)'
      BY <2>1, <3>3 DEF Unbroken
    <3> QED BY <2>1, <2>2, <3>4, <3>5, OneThread
  <2> QED BY <1>1, <2>1, <2>3, <2>4 DEF Wire
<1> QED BY <1>2, <1>3

\* A write that raises: inside the try it is answered, outside the thread ends.
LEMMA WriteRaisesKeeps ==
  ASSUME MiniInv, NEW r \in Reqs, Mini!WriteRaises(r)
  PROVE  MiniInv'
<1>1. at[r] \in {"head", "body"} /\ ~present[r] /\ Wire(r)
  BY DEF Mini!WriteRaises, MiniInv
<1>2. CASE guarded[r]
  <2>1. Mini!Send(r, "502", FALSE)
    BY <1>2 DEF Mini!WriteRaises
  <2>2. out[r] = << >> \/ \E c \in Mini!Codes : out[r] = <<c>>
    BY <1>1, <1>2 DEF Wire
  <2> QED BY <1>1, <2>1, <2>2, SendKeeps DEF Mini!Codes
<1>3. CASE ~guarded[r]
  <2>1. Mini!Goes(r, "closed")
    BY <1>3 DEF Mini!WriteRaises
  <2> QED BY <1>1, <1>3, <2>1, GoesKeeps
<1> QED BY <1>2, <1>3

\* Every step of the proxy, its workers and its clients keeps the invariant.
LEMMA MiniKeeps == MiniInv /\ [Mini!Next]_(Mini!miniVars) => MiniInv'
<1> SUFFICES ASSUME MiniInv, [Mini!Next]_(Mini!miniVars) PROVE MiniInv'
  OBVIOUS
<1>1. CASE UNCHANGED Mini!miniVars
  BY <1>1 DEF Mini!miniVars, MiniInv, MiniTyping, Wire, Unbroken
<1>2. CASE Mini!Get
  BY <1>1, <1>2 DEF Mini!Get, Mini!miniVars
<1>3. ASSUME NEW r \in Reqs, at[r] \in {"new", "prefill", "decode"} PROVE out[r] = << >>
  BY <1>3 DEF MiniInv, Wire
<1>4. ASSUME NEW r \in Reqs, Mini!BadJson(r) PROVE MiniInv'
  BY <1>3, <1>4, SendKeeps DEF Mini!BadJson, Mini!Codes
<1>5. ASSUME NEW r \in Reqs, Mini!Receive(r) PROVE MiniInv'
  BY <1>5, GoesKeeps DEF Mini!Receive
<1>6. ASSUME NEW r \in Reqs, Mini!LegFails(r) PROVE MiniInv'
  BY <1>3, <1>6, SendKeeps DEF Mini!LegFails, Mini!Codes
<1>7. ASSUME NEW r \in Reqs, Mini!NoParams(r) PROVE MiniInv'
  BY <1>3, <1>7, SendKeeps DEF Mini!NoParams, Mini!Codes
<1>8. ASSUME NEW r \in Reqs, Mini!PrefillDone(r) PROVE MiniInv'
  BY <1>8, GoesKeeps DEF Mini!PrefillDone
<1>9. ASSUME NEW r \in Reqs, Mini!DecodeDone(r) PROVE MiniInv'
  BY <1>3, <1>9, SendKeeps DEF Mini!DecodeDone, Mini!Codes
<1>10. ASSUME NEW r \in Reqs, Mini!WriteHead(r) \/ Mini!WriteBody(r) PROVE MiniInv'
  BY <1>10, WriteKeeps
<1>11. ASSUME NEW r \in Reqs, Mini!WriteRaises(r) PROVE MiniInv'
  BY <1>11, WriteRaisesKeeps
<1>12. ASSUME NEW r \in Reqs, Mini!ClientLeaves(r) PROVE MiniInv'
  <2>1. /\ at' = at /\ reply' = reply /\ guarded' = guarded /\ out' = out
        /\ present' = [present EXCEPT ![r] = FALSE]
    BY <1>12 DEF Mini!ClientLeaves
  <2>2. MiniTyping'
    BY <2>1 DEF MiniInv, MiniTyping
  <2>3. ASSUME NEW q \in Reqs PROVE Wire(q)' /\ Unbroken(q)'
    <3>1. Wire(q) /\ Unbroken(q)
      BY DEF MiniInv
    <3>2. Wire(q)'
      BY <2>1, <3>1 DEF Wire
    <3>3. present'[q] => present[q]
      BY <2>1 DEF MiniInv, MiniTyping
    <3>4. Unbroken(q)'
      BY <2>1, <3>1, <3>3 DEF Unbroken
    <3> QED BY <3>2, <3>4
  <2> QED BY <2>2, <2>3 DEF MiniInv
<1> QED
  BY <1>1, <1>2, <1>4, <1>5, <1>6, <1>7, <1>8, <1>9, <1>10, <1>11, <1>12
     DEF Mini!Next, Mini!Thread

\* The invariant holds of every reachable state.
LEMMA MiniInvariant == Mini!Spec => []MiniInv
BY MiniStarts, MiniKeeps, PTL DEF Mini!Spec

\* The minimal proxy answers a client that stays exactly once and whole; a second
\* head goes only into an answer whose client left: for any number of requests in
\* flight, with its two writes failing one by one.
THEOREM MiniAnswers == Mini!Spec => []Mini!AnsweredWhole
<1>1. MiniInv => Mini!AnsweredWhole
  <2> SUFFICES ASSUME MiniInv, NEW r \in Reqs
               PROVE /\ present[r] => out[r] \in
                          IF at[r] = "closed" THEN {<<c, "body">> : c \in Mini!Codes}
                          ELSE {<< >>} \cup {<<c>> : c \in Mini!Codes}
                     /\ Len(out[r]) > 1 /\ out[r][2] # "body" =>
                          ~present[r] /\ out[r][2] = "502"
    BY DEF Mini!AnsweredWhole
  <2>1. Wire(r) /\ Unbroken(r) /\ MiniTyping
    BY DEF MiniInv
  <2>2. ASSUME present[r]
        PROVE  out[r] \in IF at[r] = "closed" THEN {<<c, "body">> : c \in Mini!Codes}
                          ELSE {<< >>} \cup {<<c>> : c \in Mini!Codes}
    BY <2>1, <2>2 DEF Wire, Unbroken, MiniTyping
  <2>3. ASSUME Len(out[r]) > 1, out[r][2] # "body" PROVE ~present[r] /\ out[r][2] = "502"
    <3>1. out[r] # << >> /\ \A c \in Mini!Codes : out[r] # <<c>> /\ out[r] # <<c, "body">>
      BY <2>3
    <3>2. PICK c \in Mini!Codes : out[r] \in {<<c, "502">>, <<c, "502", "body">>}
      BY <2>1, <3>1 DEF Wire, MiniTyping
    <3>3. ~present[r]
      BY <2>2, <3>1
    <3> QED BY <3>2, <3>3
  <2> QED BY <2>2, <2>3
<1> QED BY <1>1, MiniInvariant, PTL

-----------------------------------------------------------------------------
(* Either of them in front *)

\* Where either proxy may stand in front, the minimal one answers once and whole.
THEOREM FrontAnswers == FrontSpec => []AnsweredWhole
<1>1. FrontSpec => Mini!Spec
  <2>1. FrontInit => Mini!Init
    BY DEF FrontInit
  <2>2. [FrontNext]_<<proxyVars, miniVars, front>> => [Mini!Next]_(Mini!miniVars)
    BY DEF FrontNext, miniVars, Mini!miniVars
  <2> QED BY <2>1, <2>2, PTL DEF FrontSpec, Mini!Spec
<1> QED BY <1>1, MiniAnswers, PTL DEF AnsweredWhole

\* And what the other hands to a prefill is used once, of the turn before, and
\* alive unless its last chunk was too late: the minimal proxy shares none of its
\* state.
THEOREM FrontHandsOver == FrontSpec => [](SingleUse /\ PreviousTurn) /\ AliveAtHandoff
<1>1. FrontInit => Init
  BY DEF FrontInit
<1>2. [FrontNext]_<<proxyVars, miniVars, front>> => [Next]_proxyVars
  BY DEF FrontNext, proxyVars
<1>3. FrontSpec => Spec
  BY <1>1, <1>2, PTL DEF FrontSpec, Spec
<1> QED BY <1>3, CacheSingleUse, CachePreviousTurn, CacheAlive, PTL
=============================================================================
