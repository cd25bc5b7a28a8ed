------------------------------ MODULE MCChatHub ------------------------------
(* Values for the constants of ChatHub: handlers, the tabs they belong to   *)
(* and the accounts that own the tabs.                                      *)
EXTENDS ChatHub, TLC

CONSTANTS c1, c2, c3, t1, t2, t3, i1, i2

\* One tab that reconnects.
ReconnectTabs == c1 :> t1 @@ c2 :> t1
ReconnectIds  == c1 :> i1 @@ c2 :> i1

\* Two devices of one account and one of another: more requests than slots,
\* more accounts than conversations.
CrowdTabs == c1 :> t1 @@ c2 :> t2 @@ c3 :> t3
CrowdIds  == c1 :> i1 @@ c2 :> i2 @@ c3 :> i1
=============================================================================
