------------------------------ MODULE MCAccounts ------------------------------
(* Ids, passwords, tokens and requests that only differ by being different.   *)
EXTENDS Accounts, TLC

CONSTANTS u1, u2, n1, n2, p1, p2, k1, k2, r1, r2

Serial ==
    [overlapping |-> 1, failing |-> {"saveAccount", "saveSession"}, names |-> {n1, n2}, logins |-> 2]
Overlapping ==
    [overlapping |-> 2, failing |-> {"delete"}, names |-> {n1}, logins |-> 1]
Undisturbed ==
    [overlapping |-> 2, failing |-> {}, names |-> {n1}, logins |-> 1]

SerialOrOverlapping == {Serial, Overlapping}
OnlyUndisturbed     == {Undisturbed}

Interchangeable ==
    Permutations(Ids) \cup Permutations(Passwords)
        \cup Permutations(Tokens) \cup Permutations(Requests)
===============================================================================
