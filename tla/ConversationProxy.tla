------------------------- MODULE ConversationProxy -------------------------
(***************************************************************************)
(* The multi-turn disaggregation proxy, p10-disagg/proxy-0.29.0.py: the    *)
(* per-conversation cache of KV parameters, and the handler that carries a *)
(* turn through prefill (P) and decode (D).                                *)
(*                                                                         *)
(* The proxy is one asyncio loop: a handler runs undisturbed from one      *)
(* await to the next, so each action below is what happens between two     *)
(* awaits.  D keeps the blocks of a finished turn for Abort ticks          *)
(* (VLLM_NIXL_ABORT_REQUEST_TIMEOUT), the cache hands them out for TTL.    *)
(* D's last chunk may reach the proxy any time after D has finished: the   *)
(* clients of P and D have no timeout, and a streamed line is not followed *)
(* by the next before the client has taken it.  Ages stop one tick beyond  *)
(* the thresholds they are compared with.                                  *)
(***************************************************************************)
EXTENDS Integers

CONSTANTS Convs,    \* conversation ids
          NoConv,   \* the id of requests that carry none, in Convs or not
          Turns,    \* bound: the turns that may come, <<conversation, 1>>, ...
          Patient,  \* conversations whose client waits for the end of a turn
                    \* before it sends the next one
          TTL, Abort,
          Prefills, Decodes, \* how many instances of each
          None

ASSUME ProxyConstants ==
  /\ Turns \subseteq Convs \X (Nat \ {0}) /\ Patient \subseteq Convs
  /\ \A t \in Turns : t[2] > 1 => <<t[1], t[2] - 1>> \in Turns
  /\ TTL \in Nat /\ Abort \in Nat
  /\ Prefills \in Nat \ {0} /\ Decodes \in Nat \ {0}
  /\ None \notin Turns

VARIABLES pc,      \* where the handler of a turn is
          store,   \* [Convs -> the turn whose D blocks are cached, or None]
          kept,    \* [Convs -> ticks since put()], 0 without an entry
          late,    \* [Convs -> ticks from D's finish to put()], 0 without an entry
          used,    \* the turn whose blocks a turn's prefill was given, or None
          idle,    \* [Turns -> ticks since D finished it], 0 once the proxy
                   \* cannot hand it out any more
          prefill, decode, \* round-robin iterators
          onP, onD \* instance each turn was sent to, None before

proxyVars == <<pc, store, kept, late, used, idle, prefill, decode, onP, onD>>

ConvOf(t) == t[1]
Previous(t) == <<t[1], t[2] - 1>>
Keyed(c) == c # NoConv
Older(x, limit) == IF x < limit THEN x + 1 ELSE x

ProxyTypeOK ==
  /\ pc \in [Turns -> {"new", "prefill", "decode", "finished", "served", "failed"}]
  /\ store \in [Convs -> Turns \cup {None}]
  /\ kept \in [Convs -> 0..TTL + 1]
  /\ late \in [Convs -> 0..Abort + 1]
  /\ used \in [Turns -> Turns \cup {None}]
  /\ idle \in [Turns -> 0..Abort + 1]
  /\ prefill \in 0..Prefills - 1 /\ decode \in 0..Decodes - 1
  /\ onP \in [Turns -> 0..Prefills - 1 \cup {None}]
  /\ onD \in [Turns -> 0..Decodes - 1 \cup {None}]

Init ==
  /\ pc = [t \in Turns |-> "new"]
  /\ store = [c \in Convs |-> None] /\ kept = [c \in Convs |-> 0]
  /\ late = [c \in Convs |-> 0]
  /\ used = [t \in Turns |-> None] /\ idle = [t \in Turns |-> 0]
  /\ prefill = 0 /\ decode = 0
  /\ onP = [t \in Turns |-> None] /\ onD = [t \in Turns |-> None]

\* A client sends its turns in order; an impatient one does not wait for the
\* answer, and the handler of the turn it gave up runs on.
MayCome(t) ==
  t[2] > 1 => pc[Previous(t)] \in IF ConvOf(t) \in Patient THEN {"served", "failed"}
                                  ELSE {"prefill", "decode", "finished", "served", "failed"}

\* _is_stale: what get() returns, and what evict_stale() leaves.
MutUnchecked(c) == store[c]
Fresh(c) == IF kept[c] > TTL THEN None ELSE store[c]

\* get() takes the entry out, stale or not.
MutPeeked(c) == store
Popped(c) == [store EXCEPT ![c] = None]

\* itertools.cycle over the instances of a role.
MutRunsOut(i, n) == i + 1
After(i, n) == (i + 1) % n

\* From the parsed body to the await on P.
Arrive(t) ==
  LET c == ConvOf(t) IN
  /\ pc[t] = "new" /\ MayCome(t)
  /\ pc' = [pc EXCEPT ![t] = "prefill"]
  /\ IF Keyed(c)
     THEN used' = [used EXCEPT ![t] = Fresh(c)] /\ store' = Popped(c)
     ELSE UNCHANGED <<used, store>>
  /\ onP' = [onP EXCEPT ![t] = prefill]
  /\ prefill' = After(prefill, Prefills)
  /\ UNCHANGED <<kept, late, idle, decode, onD>>

\* P answered: the turn goes to the next D.
PrefillDone(t) ==
  /\ pc[t] = "prefill"
  /\ pc' = [pc EXCEPT ![t] = "decode"]
  /\ onD' = [onD EXCEPT ![t] = decode]
  /\ decode' = After(decode, Decodes)
  /\ UNCHANGED <<store, kept, late, used, idle, prefill, onP>>

\* D is through with the turn and starts the clock on its blocks; its last
\* chunk, which names them, is on the way.
DecodeFinishes(t) ==
  /\ pc[t] = "decode"
  /\ pc' = [pc EXCEPT ![t] = "finished"]
  /\ idle' = [idle EXCEPT ![t] = 0]
  /\ UNCHANGED <<store, kept, late, used, prefill, decode, onP, onD>>

\* put() overwrites whatever the conversation has, stamped with the current time.
Put(c, t) == /\ store' = [store EXCEPT ![c] = t]
             /\ kept' = [kept EXCEPT ![c] = 0]
             /\ late' = [late EXCEPT ![c] = idle[t]]

\* The chunk with kv_transfer_params, in either of the two stream readers.
Capture(t) ==
  LET c == ConvOf(t) IN
  /\ pc[t] = "finished"
  /\ pc' = [pc EXCEPT ![t] = "served"]
  /\ IF Keyed(c)
     THEN Put(c, t)
     ELSE UNCHANGED <<store, kept, late>>
  /\ UNCHANGED <<used, idle, prefill, decode, onP, onD>>

\* raise_for_status(), a connection that breaks, a streaming client that leaves:
\* the handler ends, what get() popped is not put back.
Fails(t) ==
  /\ pc[t] \in {"prefill", "decode", "finished"}
  /\ pc' = [pc EXCEPT ![t] = "failed"]
  /\ UNCHANGED <<store, kept, late, used, idle, prefill, decode, onP, onD>>

Evicted == [c \in Convs |-> Fresh(c)]

\* GET /health: evict_stale().
Health ==
  /\ store' = Evicted
  /\ UNCHANGED <<pc, kept, late, used, idle, prefill, decode, onP, onD>>

Tick ==
  /\ kept' = [c \in Convs |-> IF store[c] = None THEN 0 ELSE Older(kept[c], TTL + 1)]
  /\ late' = [c \in Convs |-> IF store[c] = None THEN 0 ELSE late[c]]
  /\ idle' = [t \in Turns |-> IF pc[t] = "finished" \/ store[ConvOf(t)] = t
                              THEN Older(idle[t], Abort + 1) ELSE 0]
  /\ UNCHANGED <<pc, store, used, prefill, decode, onP, onD>>

Handle(t) == PrefillDone(t) \/ DecodeFinishes(t) \/ Capture(t) \/ Fails(t)

Next == Health \/ Tick \/ \E t \in Turns : Arrive(t) \/ Handle(t)

Spec == Init /\ [][Next]_proxyVars

-----------------------------------------------------------------------------
(* Properties *)

\* "The entry is removed after retrieval (single-use)": no two prefills are told
\* to read the blocks of one turn, in whatever order handlers interleave, and a
\* conversation never reads the blocks of another.
SingleUse ==
  \A t \in Turns : used[t] # None =>
    /\ ConvOf(used[t]) = ConvOf(t)
    /\ \A u \in Turns \ {t} : used[u] # used[t]
    /\ \A c \in Convs : store[c] # used[t]

\* Blocks handed to P are still held by D, unless D's last chunk came so late that
\* the TTL, which starts with it, ends after D's own timeout: what get() and
\* evict_stale() compare leaves Abort - TTL for the chunk, and no more.
AliveAtHandoff ==
  [][\A t \in Turns : used'[t] # used[t] =>
       idle[used'[t]] <= Abort \/ late[ConvOf(t)] + TTL > Abort]_proxyVars

\* "If cache hit, ... P can read D's KV blocks instead of recomputing", with a TTL
\* that is "< VLLM_NIXL_ABORT_REQUEST_TIMEOUT": a hit names blocks D still holds.
HitsAreReadable ==
  [][\A t \in Turns : used'[t] # used[t] => idle[used'[t]] <= Abort]_proxyVars

\* A turn of a client that waits reuses the blocks of the turn before it, or
\* none: an entry that outlived a failed turn never comes back.
PreviousTurn ==
  \A t \in Turns : ConvOf(t) \in Patient => used[t] \in {None, Previous(t)}
=============================================================================
