-------------------------- MODULE MCServerLifecycle --------------------------
(* Requests of one account, from one tab.                                   *)
EXTENDS ServerLifecycle

CONSTANTS c1, c2, t1, i1

OneTab == [c \in Conns |-> t1]
OneId  == [c \in Conns |-> i1]
=============================================================================
