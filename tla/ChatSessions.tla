---------------------------- MODULE ChatSessions ----------------------------
(***************************************************************************)
(* What the connection registry promises, without sockets, counters or     *)
(* limits: a handshake is admitted while the chat is open; it may come     *)
(* online as long as no boundary (disable, mode switch, disconnect, stop)  *)
(* was crossed since; a boundary takes everybody admitted and everybody    *)
(* online with it.  ChatHub implements it.                                 *)
(***************************************************************************)
CONSTANTS Conns, Tabs, TabOf, NoConn

VARIABLES
    open,      \* may anybody come online
    admitted,  \* handshakes that may still come online
    online     \* per tab, the connection that is online

vars == <<open, admitted, online>>

Nobody == [t \in Tabs |-> NoConn]

Init == open = FALSE /\ admitted = {} /\ online = Nobody

Admit(c) ==
    /\ open
    /\ admitted' = admitted \cup {c}
    /\ UNCHANGED <<open, online>>

ComeOnline(c) ==
    /\ open
    /\ c \in admitted
    /\ online' = [online EXCEPT ![TabOf[c]] = c]
    /\ admitted' = admitted \ {c}
    /\ UNCHANGED open

GiveUp(c) ==
    /\ admitted' = admitted \ {c}
    /\ UNCHANGED <<open, online>>

\* Any number of connections go offline; none comes back.
GoOffline(gone) ==
    /\ online' = [t \in Tabs |-> IF online[t] \in gone THEN NoConn ELSE online[t]]
    /\ UNCHANGED <<open, admitted>>

\* Whatever was in flight is void; closing leaves nobody online.
Boundary ==
    /\ open' \in BOOLEAN
    /\ admitted' = {}
    /\ online' \in {online, Nobody}
    /\ ~open' => online' = Nobody

Next ==
    \/ \E c \in Conns : Admit(c) \/ ComeOnline(c) \/ GiveUp(c)
    \/ \E gone \in SUBSET Conns : GoOffline(gone)
    \/ Boundary

Spec == Init /\ [][Next]_vars
=============================================================================
