----------------------------- MODULE MiniProxy -----------------------------
(***************************************************************************)
(* The minimal disaggregation proxy, p10-disagg/mini_proxy.py: a thread    *)
(* per request posts it to the prefill worker, passes the KV parameters of *)
(* the answer on to the decode worker untouched, and returns what that     *)
(* says in one piece.  Everything after the parse is in one try: whatever  *)
(* raises in it, the two writes of an answer included, is answered by a    *)
(* 502.                                                                    *)
(*                                                                         *)
(* The socket to the client has no timeout: a write raises only when the   *)
(* client is gone, and then it may also be taken by the kernel.  Requests  *)
(* carry a Content-Length that is a number.                                *)
(***************************************************************************)
EXTENDS Naturals, Sequences

CONSTANTS Reqs, None

VARIABLES at,      \* [Reqs -> where the thread of a request is]
          present, \* [Reqs -> whether its client is still connected]
          reply,   \* [Reqs -> status of the answer being written, or None]
          guarded, \* [Reqs -> whether it is written inside the try]
          out      \* [Reqs -> what was written: heads, by status, and bodies]

miniVars == <<at, present, reply, guarded, out>>

Codes == {"200", "400", "502"}

Init ==
  /\ at = [r \in Reqs |-> "new"]
  /\ present = [r \in Reqs |-> TRUE]
  /\ reply = [r \in Reqs |-> None]
  /\ guarded = [r \in Reqs |-> FALSE]
  /\ out = [r \in Reqs |-> << >>]

\* _send_json begins; its head and its body are writes of their own.
Send(r, code, inTry) ==
  /\ at' = [at EXCEPT ![r] = "head"]
  /\ reply' = [reply EXCEPT ![r] = code]
  /\ guarded' = [guarded EXCEPT ![r] = inTry]
  /\ UNCHANGED <<present, out>>

Goes(r, there) == at' = [at EXCEPT ![r] = there] /\ UNCHANGED <<present, reply, guarded, out>>

\* A body that is no JSON, or that a client never finished sending.
BadJson(r) == at[r] = "new" /\ Send(r, "400", FALSE)

Receive(r) == at[r] = "new" /\ Goes(r, "prefill")

\* Refused, an HTTP error, 600 s, or an answer that is no JSON, of either worker.
LegFails(r) == at[r] \in {"prefill", "decode"} /\ Send(r, "502", FALSE)

\* The prefill worker names no blocks: a 502 of its own, inside the try.
MutNoReturn(r) ==
  /\ at[r] = "prefill"
  /\ at' = [at EXCEPT ![r] = "decode"]
  /\ out' = [out EXCEPT ![r] = @ \o <<"502", "body">>]
  /\ UNCHANGED <<present, reply, guarded>>
NoParams(r) == at[r] = "prefill" /\ Send(r, "502", TRUE)

PrefillDone(r) == at[r] = "prefill" /\ Goes(r, "decode")
DecodeDone(r) == at[r] = "decode" /\ Send(r, "200", TRUE)

Write(r, piece, then) ==
  /\ at' = [at EXCEPT ![r] = then]
  /\ out' = [out EXCEPT ![r] = Append(@, piece)]
  /\ UNCHANGED <<present, reply, guarded>>

WriteHead(r) == at[r] = "head" /\ Write(r, reply[r], "body")
WriteBody(r) == at[r] = "body" /\ Write(r, "body", "closed")

\* Inside the try a second answer follows, into the one that was begun; in the
\* except clauses the thread ends.
WriteRaises(r) ==
  /\ at[r] \in {"head", "body"} /\ ~present[r]
  /\ IF guarded[r] THEN Send(r, "502", FALSE) ELSE Goes(r, "closed")

ClientLeaves(r) ==
  /\ present[r] /\ at[r] # "closed" /\ present' = [present EXCEPT ![r] = FALSE]
  /\ UNCHANGED <<at, reply, guarded, out>>

Thread(r) == BadJson(r) \/ Receive(r) \/ NoParams(r) \/ PrefillDone(r) \/ DecodeDone(r)
             \/ LegFails(r) \/ WriteHead(r) \/ WriteBody(r) \/ WriteRaises(r)

\* GET /health and /status ask both workers and change nothing.
Get == UNCHANGED miniVars

Next == Get \/ \E r \in Reqs : Thread(r) \/ ClientLeaves(r)

Spec == Init /\ [][Next]_miniVars

-----------------------------------------------------------------------------
(* Properties *)

\* A client that stays is answered once and in one piece, whatever raises where:
\* of the two ways to a 502 and the answer that is written inside the try, one at
\* most reaches it.  A second head is begun only for a client that left in the
\* middle of an answer, and it is that of the except clause.
AnsweredWhole ==
  \A r \in Reqs :
    /\ present[r] => out[r] \in IF at[r] = "closed" THEN {<<c, "body">> : c \in Codes}
                                ELSE {<< >>} \cup {<<c>> : c \in Codes}
    /\ Len(out[r]) > 1 /\ out[r][2] # "body" => ~present[r] /\ out[r][2] = "502"
=============================================================================
