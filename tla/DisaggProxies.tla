--------------------------- MODULE DisaggProxies ---------------------------
(***************************************************************************)
(* The two proxies of p10-disagg, of which one stands in front of the      *)
(* prefill and decode workers: proxy-0.29.0.py for conversations or        *)
(* mini_proxy.py.                                                          *)
(***************************************************************************)
EXTENDS ConversationProxy

CONSTANTS Reqs  \* requests to the minimal one

ASSUME FrontConstants == None \notin Reqs

VARIABLES front, at, present, reply, guarded, out

Mini == INSTANCE MiniProxy

miniVars == <<at, present, reply, guarded, out>>

FrontInit == Init /\ Mini!Init /\ front \in {"conversations", "mini"}

FrontNext ==
  /\ \/ front = "conversations" /\ Next /\ UNCHANGED miniVars
     \/ front = "mini" /\ Mini!Next /\ UNCHANGED proxyVars
  /\ UNCHANGED front

FrontSpec == FrontInit /\ [][FrontNext]_<<proxyVars, miniVars, front>>

\* The minimal proxy answers a client that stays once and in one piece.
AnsweredWhole == Mini!AnsweredWhole
=============================================================================
