---------------------------- MODULE PrefixProxy ----------------------------
(***************************************************************************)
(* The prefix-caching proxy of p04-prefix-proxy/proxy.py: do_POST, one     *)
(* thread per request, with _route_key and _pick.                          *)
(*                                                                         *)
(* A shared prefix is hashed to its backend; requests without one take     *)
(* turns by a class-level counter that no lock protects.  Python promises  *)
(* nothing of `rr_counter += 1` between threads: it is a load and a store  *)
(* here, and the counter is read once more to pick the backend.            *)
(***************************************************************************)
EXTENDS Integers, Sequences

CONSTANTS Requests,
          Keys,
          KeyOf,    \* [Requests -> Keys, or NoKey, or Malformed]
          NoKey,    \* a body without a cacheable prefix
          Malformed,\* JSON that is not an object: _route_key raises
          Leaving,  \* bound: requests whose client may hang up
          Backends, \* how many
          Home,     \* [Keys -> 0..Backends-1], md5(key) % n
          NoLine

ASSUME PrefixConstants ==
  /\ NoKey \notin Keys /\ Malformed \notin Keys /\ NoKey # Malformed
  /\ KeyOf \in [Requests -> Keys \cup {NoKey, Malformed}]
  /\ Leaving \subseteq Requests
  /\ Backends \in Nat \ {0} /\ Home \in [Keys -> 0..Backends - 1]
  /\ NoLine \notin [backend : 0..Backends - 1, ttft : BOOLEAN]

VARIABLES pc,
          counter,  \* Proxy.rr_counter
          loaded,   \* what each thread loaded from it
          backend,  \* the thread's backend
          out,      \* response heads written to the client
          first,    \* first_ms >= 0: a body chunk was read
          gone,     \* the client has hung up
          log,      \* the request's JSONL line
          mixed,    \* history: another thread was picking at the same time
          last,     \* history: the last pick by counter
          broke     \* history: the backend broke off between head and body

prefixVars == <<pc, counter, loaded, backend, out, first, gone, log, mixed, last, broke>>

Picking == {"load", "store", "read"}
Places == 0..Backends - 1
Lines == [backend : Places, ttft : BOOLEAN]

PrefixTypeOK ==
  /\ pc \in [Requests -> Picking \cup {"route", "connect", "relay", "reply502", "log", "done"}]
  /\ counter \in Nat /\ loaded \in [Requests -> Nat]
  /\ backend \in [Requests -> Places]
  /\ out \in [Requests -> Seq({"ok", "502"})]
  /\ first \in [Requests -> BOOLEAN] /\ gone \in [Requests -> BOOLEAN]
  /\ log \in [Requests -> Lines \cup {NoLine}]
  /\ mixed \in [Requests -> BOOLEAN] /\ broke \in [Requests -> BOOLEAN]
  /\ last \in [backend : Places, alone : BOOLEAN]

Init ==
  /\ pc = [r \in Requests |-> "route"]
  /\ counter = 0 /\ loaded = [r \in Requests |-> 0]
  /\ backend = [r \in Requests |-> 0]
  /\ out = [r \in Requests |-> << >>]
  /\ first = [r \in Requests |-> FALSE] /\ gone = [r \in Requests |-> FALSE]
  /\ log = [r \in Requests |-> NoLine]
  /\ mixed = [r \in Requests |-> FALSE] /\ broke = [r \in Requests |-> FALSE]
  /\ last = [backend |-> 0, alone |-> TRUE]

answerVars == <<out, first, gone, log, broke>>
pickVars == <<counter, loaded, backend, mixed, last>>
Goto(r, place) == pc' = [pc EXCEPT ![r] = place]

-----------------------------------------------------------------------------
(* _route_key and _pick *)

\* Whoever picks meanwhile is marked, and so is the one that comes in.
BeginPick(r) ==
  LET others == {q \in Requests : pc[q] \in Picking} IN
  /\ Goto(r, "load")
  /\ mixed' = [q \in Requests |-> IF q = r THEN others # {}
                                  ELSE mixed[q] \/ q \in others]
  /\ UNCHANGED <<counter, loaded, backend, last>>

\* A body of the wrong shape raises before the try: no answer, no line.
Route(r) ==
  /\ pc[r] = "route"
  /\ \/ /\ KeyOf[r] \in Keys
        /\ backend' = [backend EXCEPT ![r] = Home[KeyOf[r]]]
        /\ Goto(r, "connect")
        /\ UNCHANGED <<counter, loaded, mixed, last>>
     \/ KeyOf[r] = NoKey /\ BeginPick(r)
     \/ KeyOf[r] = Malformed /\ Goto(r, "done") /\ UNCHANGED pickVars
  /\ UNCHANGED answerVars

\* Proxy.rr_counter += 1, the load ...
Load(r) ==
  /\ pc[r] = "load"
  /\ loaded' = [loaded EXCEPT ![r] = counter]
  /\ Goto(r, "store")
  /\ UNCHANGED <<counter, backend, mixed, last, answerVars>>

\* ... and the store, whatever was stored in between.
MutBumpedByTwo(n) == n + 2
Bumped(n) == n + 1
Store(r) ==
  /\ pc[r] = "store"
  /\ counter' = Bumped(loaded[r])
  /\ Goto(r, "read")
  /\ UNCHANGED <<loaded, backend, mixed, last, answerVars>>

\* sorted(backends)[rr_counter % n] reads the counter again.
MutTurn(n) == n
Turn(n) == n % Backends
Read(r) ==
  /\ pc[r] = "read"
  /\ backend' = [backend EXCEPT ![r] = Turn(counter)]
  /\ last' = [backend |-> Turn(counter), alone |-> ~mixed[r]]
  /\ Goto(r, "connect")
  /\ UNCHANGED <<counter, loaded, mixed, answerVars>>

-----------------------------------------------------------------------------
(* The relay *)

\* urlopen raises: refused, timed out, or a status urllib takes for an error.
Unreachable(r) ==
  /\ pc[r] = "connect"
  /\ Goto(r, "reply502")
  /\ UNCHANGED <<pickVars, answerVars>>

\* The head is passed on; a client that is gone may make the write raise.
RelayHead(r) ==
  /\ pc[r] = "connect"
  /\ \/ out' = [out EXCEPT ![r] = Append(@, "ok")] /\ Goto(r, "relay")
     \/ gone[r] /\ Goto(r, "reply502") /\ UNCHANGED out
  /\ UNCHANGED <<pickVars, first, gone, log, broke>>

\* A chunk is read, then written to a client that may be gone.
Chunk(r) ==
  /\ pc[r] = "relay"
  /\ first' = [first EXCEPT ![r] = TRUE]
  /\ \/ UNCHANGED pc
     \/ gone[r] /\ Goto(r, "log")
  /\ UNCHANGED <<pickVars, out, gone, log, broke>>

Eof(r) == pc[r] = "relay" /\ Goto(r, "log") /\ UNCHANGED <<pickVars, answerVars>>

\* What the except clause does once the relay has begun: with the first chunk
\* read the response just ends, without it a 502 is written.
MutAfterBreak(r) == "reply502"
AfterBreak(r) == IF first[r] THEN "log" ELSE "reply502"
Break(r) ==
  /\ pc[r] = "relay"
  /\ Goto(r, AfterBreak(r))
  /\ broke' = [broke EXCEPT ![r] = @ \/ ~first[r]]
  /\ UNCHANGED <<pickVars, out, first, gone, log>>

\* Written after whatever was written before; finally logs even if it raises.
Reply502(r) ==
  /\ pc[r] = "reply502"
  /\ \/ out' = [out EXCEPT ![r] = Append(@, "502")]
     \/ gone[r] /\ UNCHANGED out
  /\ Goto(r, "log")
  /\ UNCHANGED <<pickVars, first, gone, log, broke>>

Log(r) ==
  /\ pc[r] = "log"
  /\ log' = [log EXCEPT ![r] = [backend |-> backend[r], ttft |-> first[r]]]
  /\ Goto(r, "done")
  /\ UNCHANGED <<pickVars, out, first, gone, broke>>

HangUp(r) ==
  /\ r \in Leaving /\ pc[r] # "done" /\ ~gone[r]
  /\ gone' = [gone EXCEPT ![r] = TRUE]
  /\ UNCHANGED <<pc, pickVars, out, first, log, broke>>

Next == \E r \in Requests :
          \/ Route(r) \/ Load(r) \/ Store(r) \/ Read(r)
          \/ Unreachable(r) \/ RelayHead(r) \/ Chunk(r) \/ Eof(r) \/ Break(r)
          \/ Reply502(r) \/ Log(r) \/ HangUp(r)

Spec == Init /\ [][Next]_prefixVars

-----------------------------------------------------------------------------
(* Properties *)

\* "round-robin so stateless traffic still balances": as long as two threads do
\* not pick at the same moment, each request without a prefix goes to the
\* backend after the last one's, however many raced before, and requests with a
\* prefix do not disturb the order.
TakesTurns ==
  [][\A r \in Requests :
       pc[r] = "read" /\ pc'[r] = "connect" /\ last.alone /\ ~mixed[r] =>
         backend'[r] = (last.backend + 1) % Backends]_prefixVars

\* A request whose body can be read gets one line, which names the backend of
\* its prefix; a line with a TTFT is of a request whose only head was the
\* backend's.  A client that waits gets one head, except that a backend which
\* breaks off between its head and its first chunk makes the 502 a part of the
\* body.
OneLineOneAnswer ==
  \A r \in Requests : pc[r] = "done" /\ KeyOf[r] # Malformed =>
    /\ log[r] # NoLine
    /\ KeyOf[r] \in Keys => log[r].backend = Home[KeyOf[r]]
    /\ log[r].ttft => out[r] = <<"ok">>
    /\ ~gone[r] => Len(out[r]) = IF broke[r] THEN 2 ELSE 1
=============================================================================
