----------------------------- MODULE MCChatGroups -----------------------------
(* One device per account.                                                   *)
EXTENDS ChatGroups, TLC

CONSTANTS a, b, d1, d2, adm, g1, g2, n1, n2

\* Ids and names only differ by being different.
Interchangeable == Permutations(Gids) \cup Permutations(Names)

DeviceOwners == d1 :> a @@ d2 :> b

Created == {g \in Gids : groups[g] # NoGroup}

\* One group and one handler at a time, with the administrator and failures.
OneAtATime ==
    /\ Cardinality(Created) <= 1
    /\ Cardinality({t \in Threads : pending[t] # Idle}) <= 1

NameOf(t) == IF pending[t] = Idle THEN {} ELSE {pending[t].name}

NamesInUse ==
    {groups[g].name : g \in Created}
        \cup {stored[g].name : g \in {h \in Gids : stored[h] # NoGroup}}
        \cup UNION {NameOf(t) : t \in Threads}

\* Two groups and overlapping handlers of the devices: all accounts listed,
\* nothing failed, no renaming.
DevicesOverlap ==
    /\ createOpen
    /\ \A i \in Identities : users[i] = "listed"
    /\ current = live
    /\ unsaved = {}
    /\ \A t \in Admins : pending[t] = Idle
    /\ Cardinality(NamesInUse) <= 1

\* The bound of the run: the instance is the union of the two.
SmallEnough == OneAtATime \/ DevicesOverlap
===============================================================================
