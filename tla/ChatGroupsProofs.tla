--------------------------- MODULE ChatGroupsProofs ---------------------------
(***************************************************************************)
(* Proofs about ChatGroups for every set of accounts, devices and groups.  *)
(*                                                                         *)
(* Every handler of the devices and of the administrator has one shape,    *)
(* Changes: it puts a changed group in memory and leaves a save behind.    *)
(* The proofs look at that shape, at the steps of a save, and at a crash.  *)
(***************************************************************************)
EXTENDS ChatGroups, FiniteSetTheorems, TLAPS

\* Another thread's save, when a handler changes g: only a save of g changes,
\* and of that only what the shared slice can show.
SameSave(g, u) ==
  /\ pending[u] = Idle \/ pending[u].gid # g => pending'[u] = pending[u]
  /\ pending'[u] = Idle <=> pending[u] = Idle
  /\ pending[u] # Idle =>
       /\ pending'[u].step = pending[u].step /\ pending'[u].op = pending[u].op
       /\ pending'[u].gid = pending[u].gid /\ pending'[u].owner = pending[u].owner
       /\ pending'[u].name = pending[u].name /\ pending'[u].loaded = pending[u].loaded

\* How the save a handler leaves behind fits the group it leaves in memory.
Fits(group, op, step) ==
  \/ step = "load" /\ op = "save" /\ group.listed
  \/ step = "load" /\ op = "delete" /\ ~group.listed
  \/ step = "read" /\ op = "save" /\ (group.listed <=> group.members # {})

\* Who may be new among the members, and when an owner may be lost.
Admits(g, group) ==
  /\ \A i \in group.members : i \in Members(g) \/ users[i] = "listed"
  /\ InMemory(g) /\ groups[g].owner \in groups[g].members \ group.members
       => users[groups[g].owner] # "listed"

\* The snapshot a handler carries away, at the step it goes on from.
Taken(g, op, group, step) == [Snapshot(g, op, group) EXCEPT !.step = step]

Outside == <<peopleVars, storeVars, results>>

Changes(t, g, group, op, step) ==
  /\ Ready(t)
  /\ groups[g] # NoGroup => groups[g].listed /\ group.owner = groups[g].owner
  /\ groups' = [groups EXCEPT ![g] = group]
  /\ pending' \in [Threads -> Saves \cup {Idle}]
  /\ pending'[t] = Taken(g, op, group, step)
  /\ \A u \in Threads \ {t} : SameSave(g, u)
  /\ Fits(group, op, step)
  /\ Admits(g, group)
  /\ Overtakes(g)
  /\ UNCHANGED Outside

-----------------------------------------------------------------------------
\* The snapshot a handler takes is a save, with these parts.
LEMMA SnapshotIsSave ==
  ASSUME NEW g \in Gids, NEW op \in {"save", "delete"}, NEW group \in GroupObjects,
         NEW step \in {"read", "load"}
  PROVE  /\ Taken(g, op, group, step) \in Saves /\ Taken(g, op, group, step) # Idle
         /\ Taken(g, op, group, step).step = step /\ Taken(g, op, group, step).op = op
         /\ Taken(g, op, group, step).gid = g
         /\ Taken(g, op, group, step).owner = group.owner
         /\ Taken(g, op, group, step).name = group.name
         /\ Taken(g, op, group, step).may = {group.members}
         /\ \A h \in Gids : Taken(g, op, group, step).loaded[h] = NoGroup
<1> DEFINE none == [h \in Gids |-> NoGroup]
           shown == {group.members}
<1>0. PICK save : save = Taken(g, op, group, step)
  OBVIOUS
<1>1. Snapshot(g, op, group) =
        [step |-> "load", op |-> op, gid |-> g, owner |-> group.owner, name |-> group.name,
         may |-> shown, aliased |-> TRUE, loaded |-> none]
  BY DEF Snapshot
<1>2. /\ group.owner \in Identities /\ group.name \in Names
      /\ shown \in SUBSET SUBSET Identities
      /\ none \in [Gids -> Entry \cup {NoGroup}]
      /\ \A h \in Gids : none[h] = NoGroup
  BY DEF GroupObjects
<1> HIDE DEF none, shown
<1>3. Snapshot(g, op, group) \in Saves
  BY <1>1, <1>2 DEF Saves
<1>4. save \in Saves
  BY <1>0, <1>3, Zenon DEF Saves, Taken
<1>5. save.step = step /\ save.op = op /\ save.gid = g /\ save.owner = group.owner
      /\ save.name = group.name /\ save.may = shown /\ save.loaded = none
  <2>1. PICK plain \in Saves : plain = Snapshot(g, op, group)
    BY <1>3
  <2>2. /\ plain.op = op /\ plain.gid = g /\ plain.owner = group.owner
        /\ plain.name = group.name /\ plain.may = shown /\ plain.loaded = none
    BY <1>1, <2>1
  <2>3. save = [plain EXCEPT !.step = step]
    BY <1>0, <2>1, Zenon DEF Taken
  <2> QED
    BY <2>2, <2>3 DEF Saves
<1>6. save # Idle
  BY <1>5 DEF Idle
<1> QED
  BY <1>0, <1>2, <1>4, <1>5, <1>6 DEF shown

LEMMA IdleIsNoSave == Idle.step = "idle" /\ Idle \notin Saves
  BY DEF Idle, Saves

\* Compacting the slice, and giving a group a slice of its own, touch no more
\* of another thread's save than what it can show.
LEMMA CompactedSame ==
  ASSUME TypeOK, NEW g \in Gids, NEW members \in SUBSET Identities
  PROVE  /\ Compacted(g, members) \in [Threads -> Saves \cup {Idle}]
         /\ \A u \in Threads : pending'[u] = Compacted(g, members)[u] => SameSave(g, u)
<1>1. ASSUME NEW u \in Threads
      PROVE  /\ Compacted(g, members)[u] \in Saves \cup {Idle}
             /\ pending'[u] = Compacted(g, members)[u] => SameSave(g, u)
  <2>1. CASE pending[u] # Idle /\ pending[u].gid = g /\ pending[u].aliased
    <3>1. pending[u] \in Saves
      BY <2>1 DEF TypeOK
    <3>2. Compacted(g, members)[u] = [pending[u] EXCEPT !.may = pending[u].may \cup {members}]
      BY <2>1 DEF Compacted
    <3>3. pending[u].may \cup {members} \in SUBSET SUBSET Identities
      BY <3>1 DEF Saves
    <3> QED
      BY <2>1, <3>1, <3>2, <3>3, IdleIsNoSave DEF Saves, SameSave
  <2>2. CASE ~(pending[u] # Idle /\ pending[u].gid = g /\ pending[u].aliased)
    <3>1. Compacted(g, members)[u] = pending[u]
      BY <2>2 DEF Compacted
    <3> QED
      BY <3>1 DEF SameSave, TypeOK
  <2> QED
    BY <2>1, <2>2
<1>2. Compacted(g, members) = [u \in Threads |-> Compacted(g, members)[u]]
  BY DEF Compacted
<1> QED
  BY <1>1, <1>2

LEMMA ReallocatedSame ==
  ASSUME TypeOK, NEW g \in Gids
  PROVE  /\ Reallocated(g) \in [Threads -> Saves \cup {Idle}]
         /\ \A u \in Threads : pending'[u] = Reallocated(g)[u] => SameSave(g, u)
<1>1. ASSUME NEW u \in Threads
      PROVE  /\ Reallocated(g)[u] \in Saves \cup {Idle}
             /\ pending'[u] = Reallocated(g)[u] => SameSave(g, u)
  <2>1. CASE pending[u] # Idle /\ pending[u].gid = g
    <3>1. pending[u] \in Saves
      BY <2>1 DEF TypeOK
    <3>2. Reallocated(g)[u] = [pending[u] EXCEPT !.aliased = FALSE]
      BY <2>1 DEF Reallocated
    <3>3. Reallocated(g)[u] \in Saves
      BY <3>1, <3>2, Zenon DEF Saves
    <3>4. /\ Reallocated(g)[u].step = pending[u].step /\ Reallocated(g)[u].op = pending[u].op
          /\ Reallocated(g)[u].gid = pending[u].gid
          /\ Reallocated(g)[u].owner = pending[u].owner
          /\ Reallocated(g)[u].name = pending[u].name
          /\ Reallocated(g)[u].loaded = pending[u].loaded
      BY <3>1, <3>2 DEF Saves
    <3> QED
      BY <2>1, <3>3, <3>4, IdleIsNoSave DEF SameSave
  <2>2. CASE ~(pending[u] # Idle /\ pending[u].gid = g)
    <3>1. Reallocated(g)[u] = pending[u]
      BY <2>2 DEF Reallocated
    <3> QED
      BY <3>1 DEF SameSave, TypeOK
  <2> QED
    BY <2>1, <2>2
<1>2. Reallocated(g) = [u \in Threads |-> Reallocated(g)[u]]
  BY DEF Reallocated
<1> QED
  BY <1>1, <1>2

-----------------------------------------------------------------------------
\* A group in memory, or one that was there, keeps its fields when a handler
\* changes one of them.
LEMMA MembersChanged ==
  ASSUME NEW group \in GroupObjects, NEW m \in SUBSET Identities, NEW new,
         new = [group EXCEPT !.members = m]
  PROVE  /\ new \in GroupObjects /\ new.members = m /\ new.owner = group.owner
         /\ new.name = group.name /\ (new.listed <=> group.listed)
  BY Zenon DEF GroupObjects

LEMMA NameChanged ==
  ASSUME NEW group \in GroupObjects, NEW n \in Names, NEW new, new = [group EXCEPT !.name = n]
  PROVE  /\ new \in GroupObjects /\ new.members = group.members
         /\ new.owner = group.owner /\ new.name = n /\ (new.listed <=> group.listed)
  BY Zenon DEF GroupObjects

LEMMA NoLongerListed ==
  ASSUME NEW group \in GroupObjects, NEW new, new = [group EXCEPT !.listed = FALSE]
  PROVE  /\ new \in GroupObjects /\ new.members = group.members
         /\ new.owner = group.owner /\ new.name = group.name /\ ~new.listed
  BY Zenon DEF GroupObjects

LEMMA InMemoryGroup ==
  ASSUME TypeOK, NEW g \in Gids
  PROVE  /\ groups[g] # NoGroup => groups[g] \in GroupObjects
         /\ InMemory(g) => groups[g] # NoGroup /\ Members(g) = groups[g].members
  BY DEF TypeOK, InMemory, Members

\* What the save of a handler must fit, for a handler that only sets
\* pending[t], and for one that compacts the slice first.
LEMMA PlainSave ==
  ASSUME TypeOK, NEW t \in Threads, NEW save \in Saves, NEW g,
         pending' = [pending EXCEPT ![t] = save]
  PROVE  /\ pending' \in [Threads -> Saves \cup {Idle}]
         /\ pending'[t] = save
         /\ \A u \in Threads \ {t} : SameSave(g, u)
<1>1. /\ pending \in [Threads -> Saves \cup {Idle}]
      /\ \A u \in Threads \ {t} : pending'[u] = pending[u]
  BY DEF TypeOK
<1> QED
  BY <1>1 DEF SameSave

LEMMA CompactedSave ==
  ASSUME TypeOK, NEW t \in Threads, NEW save \in Saves, NEW g \in Gids,
         NEW members \in SUBSET Identities,
         pending' = [Compacted(g, members) EXCEPT ![t] = save]
  PROVE  /\ pending' \in [Threads -> Saves \cup {Idle}]
         /\ pending'[t] = save
         /\ \A u \in Threads \ {t} : SameSave(g, u)
<1>1. /\ Compacted(g, members) \in [Threads -> Saves \cup {Idle}]
      /\ \A u \in Threads : pending'[u] = Compacted(g, members)[u] => SameSave(g, u)
  BY CompactedSame
<1> QED
  BY <1>1

LEMMA ReallocatedSave ==
  ASSUME TypeOK, NEW t \in Threads, NEW save \in Saves, NEW g \in Gids,
         pending' = [Reallocated(g) EXCEPT ![t] = save]
  PROVE  /\ pending' \in [Threads -> Saves \cup {Idle}]
         /\ pending'[t] = save
         /\ \A u \in Threads \ {t} : SameSave(g, u)
<1>1. /\ Reallocated(g) \in [Threads -> Saves \cup {Idle}]
      /\ \A u \in Threads : pending'[u] = Reallocated(g)[u] => SameSave(g, u)
  BY ReallocatedSame
<1> QED
  BY <1>1

\* Changing the step of a snapshot to the step it has changes nothing, and
\* only some parts of the group are looked at.
LEMMA SameSnapshot ==
  ASSUME NEW g \in Gids, NEW op \in {"save", "delete"},
         NEW group \in GroupObjects, NEW other \in GroupObjects,
         other.owner = group.owner, other.name = group.name, other.members = group.members
  PROVE  Snapshot(g, op, group) = Taken(g, op, other, "load")
<1>0. Taken(g, op, other, "load") = [Snapshot(g, op, other) EXCEPT !.step = "load"]
  BY Zenon DEF Taken
<1>1. Snapshot(g, op, group) = Snapshot(g, op, other)
  BY Zenon DEF Snapshot
<1>2. Snapshot(g, op, other) = [Snapshot(g, op, other) EXCEPT !.step = "load"]
  <2>1. Snapshot(g, op, other).step = "load"
    BY DEF Snapshot
  <2> QED
    BY <2>1 DEF Snapshot
<1> QED
  BY <1>0, <1>1, <1>2, Zenon

-----------------------------------------------------------------------------
\* Every handler is of the one shape.
LEMMA CreateChanges ==
  ASSUME TypeOK, NEW d \in Devices, NEW g \in Gids, NEW chosen \in SUBSET Identities,
         NEW name \in Names, CreateGroup(d, g, chosen, name)
  PROVE  \E group \in GroupObjects : Changes(d, g, group, "save", "load")
<1> DEFINE members == Listed(chosen \cup {IdentityOf[d]})
           group == [listed |-> TRUE, owner |-> IdentityOf[d], members |-> members,
                     name |-> name]
<1>1. IdentityOf[d] \in Identities /\ d \in Threads
  BY GroupsAssumption DEF Threads
<1>2. members \in SUBSET Identities /\ \A i \in members : users[i] = "listed"
  BY <1>1 DEF Listed
<1>3. group \in GroupObjects /\ group.listed /\ group.members = members
  <2> HIDE DEF members
  <2> QED
    BY <1>1, <1>2 DEF GroupObjects
<1>4. /\ Ready(d) /\ groups[g] = NoGroup
      /\ groups' = [groups EXCEPT ![g] = group]
      /\ pending' = [pending EXCEPT ![d] = Snapshot(g, "save", group)]
      /\ Overtakes(g) /\ UNCHANGED Outside
  BY Zenon DEF CreateGroup, Outside
<1> HIDE DEF members, group
<1>5. Snapshot(g, "save", group) = Taken(g, "save", group, "load")
  BY <1>3, SameSnapshot
<1>6. Taken(g, "save", group, "load") \in Saves
  BY <1>3, SnapshotIsSave
<1>7. /\ pending' \in [Threads -> Saves \cup {Idle}]
      /\ pending'[d] = Taken(g, "save", group, "load")
      /\ \A u \in Threads \ {d} : SameSave(g, u)
  BY <1>1, <1>4, <1>5, <1>6, PlainSave
<1>8. Fits(group, "save", "load") /\ Admits(g, group)
  BY <1>2, <1>3, <1>4, InMemoryGroup DEF Fits, Admits
<1> QED
  BY <1>3, <1>4, <1>7, <1>8, Zenon DEF Changes

LEMMA LeaveChanges ==
  ASSUME TypeOK, NEW d \in Devices, NEW g \in Gids, LeaveGroup(d, g)
  PROVE  \E group \in GroupObjects : Changes(d, g, group, "save", "read")
<1> DEFINE me == IdentityOf[d]
           rest == groups[g].members \ {me}
           more == groups[g].members # {me}
           group == [groups[g] EXCEPT !.members = @ \ {me}, !.listed = groups[g].members # {me}]
<1>1. d \in Threads
  BY DEF Threads
<1>2. InMemory(g) /\ me \in groups[g].members /\ groups[g].owner # me
  BY DEF LeaveGroup
<1>3. groups[g] \in GroupObjects /\ groups[g] # NoGroup /\ Members(g) = groups[g].members
  BY <1>2, InMemoryGroup
<1>4. rest \in SUBSET Identities /\ more \in BOOLEAN
  BY <1>3 DEF GroupObjects
<1>5. group = [groups[g] EXCEPT !.members = rest, !.listed = more]
  BY Zenon
<1>6. /\ group \in GroupObjects /\ group.members = rest /\ group.owner = groups[g].owner
      /\ (group.listed <=> more)
  <2> HIDE DEF rest, more, group
  <2> QED
    BY <1>3, <1>4, <1>5, Zenon DEF GroupObjects
<1>7. /\ Ready(d)
      /\ groups' = [groups EXCEPT ![g] = group]
      /\ pending' = [Compacted(g, group.members) EXCEPT
                        ![d] = Taken(g, "save", group, "read")]
      /\ Overtakes(g) /\ UNCHANGED Outside
  BY Zenon DEF LeaveGroup, Outside, Taken
<1> HIDE DEF group
<1>8. Taken(g, "save", group, "read") \in Saves
  BY <1>6, SnapshotIsSave
<1>9. /\ pending' \in [Threads -> Saves \cup {Idle}]
      /\ pending'[d] = Taken(g, "save", group, "read")
      /\ \A u \in Threads \ {d} : SameSave(g, u)
  <2>1. PICK save \in Saves : save = Taken(g, "save", group, "read")
    BY <1>8
  <2>2. group.members \in SUBSET Identities
    BY <1>4, <1>6
  <2>3. pending' = [Compacted(g, group.members) EXCEPT ![d] = save]
    BY <1>7, <2>1
  <2> QED
    BY <1>1, <2>1, <2>2, <2>3, CompactedSave
<1>10. Fits(group, "save", "read") /\ Admits(g, group)
  BY <1>2, <1>3, <1>6 DEF Fits, Admits
<1> QED
  BY <1>2, <1>6, <1>7, <1>9, <1>10, Zenon DEF Changes, InMemory

LEMMA RenameChanges ==
  ASSUME TypeOK, NEW t \in Threads, NEW g \in Gids, NEW name \in Names, Rename(t, g, name)
  PROVE  \E group \in GroupObjects : Changes(t, g, group, "save", "load")
<1> DEFINE group == [groups[g] EXCEPT !.name = name]
<1>1. InMemory(g)
  BY DEF Rename
<1>2. groups[g] \in GroupObjects /\ groups[g] # NoGroup /\ Members(g) = groups[g].members
  BY <1>1, InMemoryGroup
<1>3. /\ group \in GroupObjects /\ group.members = groups[g].members
      /\ group.owner = groups[g].owner /\ (group.listed <=> groups[g].listed)
  BY <1>2, NameChanged
<1>4. /\ Ready(t)
      /\ groups' = [groups EXCEPT ![g] = group]
      /\ pending' = [pending EXCEPT ![t] = Snapshot(g, "save", group)]
      /\ Overtakes(g) /\ UNCHANGED Outside
  BY Zenon DEF Rename, Outside
<1> HIDE DEF group
<1>5. Snapshot(g, "save", group) = Taken(g, "save", group, "load")
  BY <1>3, SameSnapshot
<1>6. Taken(g, "save", group, "load") \in Saves
  BY <1>3, SnapshotIsSave
<1>7. /\ pending' \in [Threads -> Saves \cup {Idle}]
      /\ pending'[t] = Taken(g, "save", group, "load")
      /\ \A u \in Threads \ {t} : SameSave(g, u)
  BY <1>4, <1>5, <1>6, PlainSave
<1>8. Fits(group, "save", "load") /\ Admits(g, group)
  BY <1>1, <1>2, <1>3 DEF Fits, Admits, InMemory
<1> QED
  BY <1>1, <1>3, <1>4, <1>7, <1>8, Zenon DEF Changes, InMemory

LEMMA RemoveChanges ==
  ASSUME TypeOK, NEW t \in Threads, NEW g \in Gids, NEW target \in Identities,
         RemoveMember(t, g, target)
  PROVE  \E group \in GroupObjects : Changes(t, g, group, "save", "load")
<1> DEFINE rest == groups[g].members \ {target}
           group == [groups[g] EXCEPT !.members = @ \ {target}]
<1>1. InMemory(g) /\ target # groups[g].owner
  BY DEF RemoveMember
<1>2. groups[g] \in GroupObjects /\ groups[g] # NoGroup /\ Members(g) = groups[g].members
  BY <1>1, InMemoryGroup
<1>3. rest \in SUBSET Identities
  BY <1>2 DEF GroupObjects
<1>4. /\ group \in GroupObjects /\ group.members = rest
      /\ group.owner = groups[g].owner /\ (group.listed <=> groups[g].listed)
  BY <1>2, <1>3, MembersChanged
<1>5. /\ Ready(t)
      /\ groups' = [groups EXCEPT ![g] = group]
      /\ pending' = [Compacted(g, group.members) EXCEPT ![t] = Snapshot(g, "save", group)]
      /\ Overtakes(g) /\ UNCHANGED Outside
  BY Zenon DEF RemoveMember, Outside
<1> HIDE DEF group
<1>6. Snapshot(g, "save", group) = Taken(g, "save", group, "load")
  BY <1>4, SameSnapshot
<1>7. Taken(g, "save", group, "load") \in Saves
  BY <1>4, SnapshotIsSave
<1>8. /\ pending' \in [Threads -> Saves \cup {Idle}]
      /\ pending'[t] = Taken(g, "save", group, "load")
      /\ \A u \in Threads \ {t} : SameSave(g, u)
  BY <1>3, <1>4, <1>5, <1>6, <1>7, CompactedSave
<1>9. Fits(group, "save", "load") /\ Admits(g, group)
  BY <1>1, <1>2, <1>4 DEF Fits, Admits, InMemory
<1> QED
  BY <1>1, <1>4, <1>5, <1>8, <1>9, Zenon DEF Changes, InMemory

LEMMA DeleteChanges ==
  ASSUME TypeOK, NEW t \in Threads, NEW g \in Gids, DeleteGroup(t, g)
  PROVE  \E group \in GroupObjects : Changes(t, g, group, "delete", "load")
<1> DEFINE group == [groups[g] EXCEPT !.listed = FALSE]
<1>1. InMemory(g)
  BY DEF DeleteGroup
<1>2. groups[g] \in GroupObjects /\ groups[g] # NoGroup /\ Members(g) = groups[g].members
  BY <1>1, InMemoryGroup
<1>3. /\ group \in GroupObjects /\ group.members = groups[g].members
      /\ group.owner = groups[g].owner /\ group.name = groups[g].name /\ ~group.listed
  BY <1>2, NoLongerListed
<1>4. /\ Ready(t)
      /\ groups' = [groups EXCEPT ![g] = group]
      /\ pending' = [pending EXCEPT ![t] = Snapshot(g, "delete", groups[g])]
      /\ Overtakes(g) /\ UNCHANGED Outside
  BY Zenon DEF DeleteGroup, Outside
<1> HIDE DEF group
<1>5. Snapshot(g, "delete", groups[g]) = Taken(g, "delete", group, "load")
  BY <1>2, <1>3, SameSnapshot
<1>6. Taken(g, "delete", group, "load") \in Saves
  BY <1>3, SnapshotIsSave
<1>7. /\ pending' \in [Threads -> Saves \cup {Idle}]
      /\ pending'[t] = Taken(g, "delete", group, "load")
      /\ \A u \in Threads \ {t} : SameSave(g, u)
  BY <1>4, <1>5, <1>6, PlainSave
<1>8. Fits(group, "delete", "load") /\ Admits(g, group)
  BY <1>2, <1>3 DEF Fits, Admits
<1> QED
  BY <1>1, <1>3, <1>4, <1>7, <1>8, Zenon DEF Changes, InMemory

LEMMA AddChanges ==
  ASSUME TypeOK, NEW d \in Devices, NEW g \in Gids, NEW invited \in SUBSET Identities,
         AddMembers(d, g, invited)
  PROVE  \E group \in GroupObjects : Changes(d, g, group, "save", "load")
<1> DEFINE members == Listed(groups[g].members \cup invited)
           group == [groups[g] EXCEPT !.members = members]
<1>0. d \in Threads
  BY DEF Threads
<1>1. InMemory(g)
  BY DEF AddMembers
<1>2. groups[g] \in GroupObjects /\ groups[g] # NoGroup /\ Members(g) = groups[g].members
  BY <1>1, InMemoryGroup
<1>3. /\ members \in SUBSET Identities
      /\ \A i \in members : users[i] = "listed"
      /\ \A i \in groups[g].members \ members : users[i] # "listed"
  <2>1. groups[g].members \in SUBSET Identities
    BY <1>2 DEF GroupObjects
  <2> QED
    BY <2>1 DEF Listed
<1>4. /\ group \in GroupObjects /\ group.members = members
      /\ group.owner = groups[g].owner /\ (group.listed <=> groups[g].listed)
  <2> HIDE DEF members
  <2> QED
    BY <1>2, <1>3, MembersChanged
<1>5. /\ Ready(d)
      /\ groups' = [groups EXCEPT ![g] = group]
      /\ pending' = [Reallocated(g) EXCEPT ![d] = Snapshot(g, "save", group)]
      /\ Overtakes(g) /\ UNCHANGED Outside
  BY Zenon DEF AddMembers, Outside
<1> HIDE DEF group, members
<1>6. Snapshot(g, "save", group) = Taken(g, "save", group, "load")
  BY <1>4, SameSnapshot
<1>7. Taken(g, "save", group, "load") \in Saves
  BY <1>4, SnapshotIsSave
<1>8. /\ pending' \in [Threads -> Saves \cup {Idle}]
      /\ pending'[d] = Taken(g, "save", group, "load")
      /\ \A u \in Threads \ {d} : SameSave(g, u)
  BY <1>0, <1>5, <1>6, <1>7, ReallocatedSave
<1>9. Fits(group, "save", "load") /\ Admits(g, group)
  BY <1>1, <1>2, <1>3, <1>4 DEF Fits, Admits, InMemory
<1> QED
  BY <1>1, <1>4, <1>5, <1>8, <1>9, Zenon DEF Changes, InMemory

Handler == (\E d \in Devices : DeviceHandler(d)) \/ (\E a \in Admins : AdminHandler(a))

LEMMA HandlersChange ==
  ASSUME TypeOK, Handler
  PROVE  \E t \in Threads, g \in Gids, group \in GroupObjects,
            op \in {"save", "delete"}, step \in {"read", "load"} :
               Changes(t, g, group, op, step)
<1> DEFINE Shaped == \E t \in Threads, g \in Gids, group \in GroupObjects,
                        op \in {"save", "delete"}, step \in {"read", "load"} :
                           Changes(t, g, group, op, step)
<1>1. ASSUME NEW t \in Threads, NEW g \in Gids, NEW op \in {"save", "delete"},
             NEW step \in {"read", "load"},
             \E group \in GroupObjects : Changes(t, g, group, op, step)
      PROVE  Shaped
  BY <1>1, Zenon
<1> HIDE DEF Shaped
<1>2. ASSUME NEW d \in Devices, DeviceHandler(d)
      PROVE  Shaped
  <2>0. d \in Threads
    BY DEF Threads
  <2>1. PICK g \in Gids :
          \/ \E chosen \in SUBSET Identities, name \in Names : CreateGroup(d, g, chosen, name)
          \/ LeaveGroup(d, g)
          \/ DissolveUserGroup(d, g)
          \/ \E name \in Names : RenameUserGroup(d, g, name)
          \/ \E invited \in SUBSET Identities : AddMembers(d, g, invited)
          \/ \E target \in Identities : RemoveUserGroupMember(d, g, target)
    BY <1>2, Zenon DEF DeviceHandler
  <2>2. CASE \E chosen \in SUBSET Identities, name \in Names : CreateGroup(d, g, chosen, name)
    BY <2>0, <2>2, <1>1, CreateChanges
  <2>3. CASE LeaveGroup(d, g)
    BY <2>0, <2>3, <1>1, LeaveChanges
  <2>4. CASE DissolveUserGroup(d, g)
    BY <2>0, <2>4, <1>1, DeleteChanges DEF DissolveUserGroup
  <2>5. CASE \E name \in Names : RenameUserGroup(d, g, name)
    BY <2>0, <2>5, <1>1, RenameChanges DEF RenameUserGroup
  <2>6. CASE \E invited \in SUBSET Identities : AddMembers(d, g, invited)
    BY <2>0, <2>6, <1>1, AddChanges
  <2>7. CASE \E target \in Identities : RemoveUserGroupMember(d, g, target)
    BY <2>0, <2>7, <1>1, RemoveChanges DEF RemoveUserGroupMember
  <2> QED
    BY <2>1, <2>2, <2>3, <2>4, <2>5, <2>6, <2>7
<1>3. ASSUME NEW a \in Admins, AdminHandler(a)
      PROVE  Shaped
  <2>0. a \in Threads
    BY DEF Threads
  <2>1. PICK g \in Gids : \/ \E name \in Names : Rename(a, g, name)
                          \/ \E target \in Identities : RemoveMember(a, g, target)
                          \/ DeleteGroup(a, g)
    BY <1>3, Zenon DEF AdminHandler
  <2>2. CASE \E name \in Names : Rename(a, g, name)
    BY <2>0, <2>2, <1>1, RenameChanges
  <2>3. CASE \E target \in Identities : RemoveMember(a, g, target)
    BY <2>0, <2>3, <1>1, RemoveChanges
  <2>4. CASE DeleteGroup(a, g)
    BY <2>0, <2>4, <1>1, DeleteChanges
  <2> QED
    BY <2>1, <2>2, <2>3, <2>4
<1> QED
  BY <1>2, <1>3 DEF Handler, Shaped

-----------------------------------------------------------------------------
(* The owner of a group never changes, and memory, database and the saves  *)
(* under way name the same one.                                            *)

OwnedBy(g, owner) == groups[g] # NoGroup /\ groups[g].owner = owner

OneOwner ==
  /\ \A t \in Threads : pending[t] # Idle =>
       /\ OwnedBy(pending[t].gid, pending[t].owner)
       /\ \A h \in Gids : pending[t].loaded[h] # NoGroup => OwnedBy(h, pending[t].loaded[h].owner)
  /\ \A g \in Gids : stored[g] # NoGroup => OwnedBy(g, stored[g].owner)

GroupsInv == TypeOK /\ OneOwner

\* What a save under way is made of.
LEMMA SaveParts ==
  ASSUME NEW save \in Saves
  PROVE  /\ save.step \in {"read", "load", "store"} /\ save.op \in {"save", "delete"}
         /\ save.gid \in Gids /\ save.owner \in Identities /\ save.name \in Names
         /\ save.may \in SUBSET SUBSET Identities
         /\ save.loaded \in [Gids -> Entry \cup {NoGroup}]
         /\ save # Idle
  BY IdleIsNoSave DEF Saves

LEMMA StepMeansSave ==
  ASSUME TypeOK, NEW t \in Threads, pending[t].step \in {"read", "load", "store"}
  PROVE  pending[t] \in Saves /\ pending[t] # Idle
  BY IdleIsNoSave DEF TypeOK

\* What a restart leaves of a group.
LEMMA RestoredParts ==
  ASSUME TypeOK, OneOwner, NEW g \in Gids
  PROVE  /\ Restored(g) \in GroupObjects \cup {NoGroup}
         /\ groups[g] # NoGroup => Restored(g) # NoGroup /\ Restored(g).owner = groups[g].owner
         /\ Restorable(stored[g]) =>
              /\ Restored(g) # NoGroup /\ Restored(g).listed
              /\ Restored(g).owner = stored[g].owner
              /\ Restored(g).members = stored[g].members
              /\ Restored(g).name = stored[g].name
         /\ ~Restorable(stored[g]) => Restored(g) = NoGroup \/ ~Restored(g).listed
<1>1. groups[g] \in GroupObjects \cup {NoGroup} /\ stored[g] \in Entry \cup {NoGroup}
  BY DEF TypeOK
<1>2. NoGroup \notin Entry /\ NoGroup \notin GroupObjects
  BY GroupsAssumption
<1>3. CASE Restorable(stored[g])
  <2>1. Restored(g) = [listed |-> TRUE, owner |-> stored[g].owner,
                       members |-> stored[g].members, name |-> stored[g].name]
    BY <1>3 DEF Restored
  <2>2. stored[g] # NoGroup /\ stored[g] \in Entry
    BY <1>1, <1>3 DEF Restorable
  <2>3. /\ stored[g].owner \in Identities /\ stored[g].name \in Names
        /\ stored[g].members \in SUBSET Identities
    BY <2>2 DEF Entry
  <2>4. Restored(g) \in GroupObjects
    BY <2>1, <2>3 DEF GroupObjects
  <2>5. OwnedBy(g, stored[g].owner)
    BY <2>2 DEF OneOwner
  <2>6. /\ Restored(g).listed /\ Restored(g).owner = stored[g].owner
        /\ Restored(g).members = stored[g].members /\ Restored(g).name = stored[g].name
    BY <2>1
  <2> QED
    BY <1>2, <1>3, <2>4, <2>5, <2>6 DEF OwnedBy
<1>4. CASE ~Restorable(stored[g]) /\ groups[g] # NoGroup
  <2>1. Restored(g) = [groups[g] EXCEPT !.listed = FALSE]
    BY <1>4 DEF Restored
  <2>2. groups[g] \in GroupObjects
    BY <1>1, <1>4
  <2> QED
    BY <1>2, <1>4, <2>1, <2>2, NoLongerListed
<1>5. CASE ~Restorable(stored[g]) /\ groups[g] = NoGroup
  BY <1>5 DEF Restored
<1> QED
  BY <1>3, <1>4, <1>5

\* What the steps of a save do to the saves under way and to the value stored.
LEMMA LeaveReadsDoes ==
  ASSUME GroupsInv, NEW d \in Devices, LeaveReads(d)
  PROVE  /\ pending[d] \in Saves /\ pending[d] # Idle /\ pending[d].step = "read" /\ d \in Threads
         /\ \E g \in Gids, group \in GroupObjects, op \in {"save", "delete"}, save \in Saves :
              /\ g = pending[d].gid /\ groups[g] = group /\ groups[g] # NoGroup
              /\ op = (IF group.members = {} THEN "delete" ELSE "save")
              /\ save.step = "load" /\ save.op = op /\ save.gid = g /\ save # Idle
              /\ save.owner = group.owner /\ save.name = group.name
              /\ save.may = {group.members} /\ \A h \in Gids : save.loaded[h] = NoGroup
              /\ pending' = [pending EXCEPT ![d] = save]
         /\ UNCHANGED <<memoryVars, storeVars, reported>>
<1>1. d \in Threads /\ TypeOK /\ OneOwner
  BY DEF Threads, GroupsInv
<1>2. pending[d].step = "read"
  BY DEF LeaveReads
<1>3. pending[d] \in Saves /\ pending[d] # Idle
  BY <1>1, <1>2, StepMeansSave
<1>4. PICK g \in Gids : g = pending[d].gid
  BY <1>3, SaveParts
<1>5. groups[g] # NoGroup
  BY <1>1, <1>3, <1>4 DEF OneOwner, OwnedBy
<1>6. PICK group \in GroupObjects : groups[g] = group
  BY <1>1, <1>5, InMemoryGroup
<1>7. PICK op \in {"save", "delete"} : op = (IF group.members = {} THEN "delete" ELSE "save")
  OBVIOUS
<1>8. pending' = [pending EXCEPT ![d] = Snapshot(g, op, group)]
  BY <1>4, <1>6, <1>7, Zenon DEF LeaveReads
<1>9. PICK save \in Saves : save = Taken(g, op, group, "load")
  BY SnapshotIsSave
<1>10. pending' = [pending EXCEPT ![d] = save]
  <2>1. Snapshot(g, op, group) = Taken(g, op, group, "load")
    BY SameSnapshot
  <2>2. save = Snapshot(g, op, group)
    BY <1>9, <2>1, Zenon
  <2> QED
    BY <1>8, <2>2, Zenon
<1>11. /\ save.step = "load" /\ save.op = op /\ save.gid = g /\ save # Idle
       /\ save.owner = group.owner /\ save.name = group.name
       /\ save.may = {group.members} /\ \A h \in Gids : save.loaded[h] = NoGroup
  BY <1>9, SnapshotIsSave
<1>12. UNCHANGED <<memoryVars, storeVars, reported>>
  BY Zenon DEF LeaveReads
<1> QED
  BY <1>1, <1>2, <1>3, <1>4, <1>5, <1>6, <1>7, <1>10, <1>11, <1>12

LEMMA LoadDoes ==
  ASSUME TypeOK, NEW t \in Threads, LoadGroups(t)
  PROVE  /\ pending[t] \in Saves /\ pending[t] # Idle /\ pending[t].step = "load"
         /\ \E save \in Saves :
              /\ save.step = "store" /\ save.op = pending[t].op /\ save.gid = pending[t].gid
              /\ save.owner = pending[t].owner /\ save.name = pending[t].name
              /\ save.may = pending[t].may /\ save.loaded = stored
              /\ pending' = [pending EXCEPT ![t] = save]
         /\ UNCHANGED <<memoryVars, storeVars, reported>>
<1>1. pending[t].step = "load"
  BY DEF LoadGroups
<1>2. PICK old \in Saves : old = pending[t] /\ old # Idle
  BY <1>1, StepMeansSave
<1>3. PICK save : save = [old EXCEPT !.step = "store", !.loaded = stored]
  OBVIOUS
<1>4. stored \in [Gids -> Entry \cup {NoGroup}]
  BY DEF TypeOK
<1>5. save \in Saves
  BY <1>3, <1>4, Zenon DEF Saves
<1>6. /\ save.step = "store" /\ save.op = old.op /\ save.gid = old.gid
      /\ save.owner = old.owner /\ save.name = old.name
      /\ save.may = old.may /\ save.loaded = stored
  BY <1>3, Zenon DEF Saves
<1>7. pending' = [pending EXCEPT ![t] = save]
  BY <1>2, <1>3, Zenon DEF LoadGroups
<1>8. UNCHANGED <<memoryVars, storeVars, reported>>
  BY Zenon DEF LoadGroups
<1> QED
  BY <1>1, <1>2, <1>5, <1>6, <1>7, <1>8

LEMMA StoreDoes ==
  ASSUME TypeOK, NEW t \in Threads, StoreGroups(t)
  PROVE  /\ pending[t] \in Saves /\ pending[t] # Idle /\ pending[t].step = "store"
         /\ \E members \in SUBSET Identities, entry \in Entry \cup {NoGroup} :
              /\ members \in pending[t].may
              /\ pending[t].op = "delete" => entry = NoGroup
              /\ pending[t].op = "save" =>
                   /\ entry # NoGroup /\ entry \in Entry
                   /\ entry = [owner |-> pending[t].owner, members |-> members,
                               name |-> pending[t].name]
              /\ stored' = [pending[t].loaded EXCEPT ![pending[t].gid] = entry]
         /\ dissolved' = IF pending[t].op = "delete" THEN dissolved \cup {pending[t].gid}
                                                     ELSE dissolved
         /\ unsaved' = unsaved \ {pending[t].gid}
         /\ overtaken' = overtaken \cup Outdated(t)
         /\ pending' = [pending EXCEPT ![t] = Idle]
         /\ UNCHANGED <<memoryVars, crashes>>
<1>1. pending[t].step = "store"
  BY DEF StoreGroups
<1>2. pending[t] \in Saves /\ pending[t] # Idle
  BY <1>1, StepMeansSave
<1>3. PICK members \in pending[t].may :
        stored' = [pending[t].loaded EXCEPT ![pending[t].gid] = Written(pending[t], members)]
  BY Zenon DEF StoreGroups
<1>4. members \in SUBSET Identities
  BY <1>2, <1>3, SaveParts
<1>5. PICK entry : entry = Written(pending[t], members)
  OBVIOUS
<1>6. /\ pending[t].op = "delete" => entry = NoGroup
      /\ pending[t].op = "save" =>
           /\ entry \in Entry
           /\ entry = [owner |-> pending[t].owner, members |-> members,
                       name |-> pending[t].name]
  <2>1. pending[t].owner \in Identities /\ pending[t].name \in Names
    BY <1>2, SaveParts
  <2> QED
    BY <1>4, <1>5, <2>1 DEF Written, Entry
<1>7. pending[t].op \in {"save", "delete"}
  BY <1>2, SaveParts
<1>8. entry \in Entry \cup {NoGroup} /\ (pending[t].op = "save" => entry # NoGroup)
  BY <1>6, <1>7, GroupsAssumption
<1>9. /\ dissolved' = IF pending[t].op = "delete" THEN dissolved \cup {pending[t].gid}
                                                   ELSE dissolved
      /\ unsaved' = unsaved \ {pending[t].gid}
      /\ overtaken' = overtaken \cup Outdated(t)
      /\ pending' = [pending EXCEPT ![t] = Idle]
      /\ UNCHANGED <<memoryVars, crashes>>
  BY Zenon DEF StoreGroups
<1> QED
  BY <1>1, <1>2, <1>3, <1>4, <1>5, <1>6, <1>8, <1>9

-----------------------------------------------------------------------------
LEMMA InitGroups == Init => GroupsInv
<1> SUFFICES ASSUME Init PROVE GroupsInv
  OBVIOUS
<1>1. TypeOK
  BY GroupsAssumption DEF Init, TypeOK
<1>2. OneOwner
  BY DEF Init, OneOwner
<1> QED
  BY <1>1, <1>2 DEF GroupsInv

\* Coming, going, being listed or blacklisted leaves groups and saves alone.
LEMMA PeopleDo ==
  ASSUME TypeOK, People
  PROVE  /\ TypeOK'
         /\ UNCHANGED <<groups, pending, storeVars, reported>>
<1>1. CASE \E d \in Devices : Connect(d)
  <2>1. PICK d \in Devices : Connect(d)
    BY <1>1
  <2>2. IdentityOf[d] \in Identities
    BY GroupsAssumption
  <2> QED
    BY <2>1, <2>2 DEF TypeOK, Connect, storeVars, reported, results
<1>2. CASE \E d \in Devices : Detach(d)
  BY <1>2 DEF TypeOK, Detach, storeVars, reported, results
<1>3. CASE \E d \in Devices : Leave(d)
  BY <1>3 DEF TypeOK, Leave, storeVars, reported, results
<1>4. CASE \E i \in Identities : RemoveVisitor(i)
  BY <1>4 DEF TypeOK, RemoveVisitor, storeVars, reported, results
<1>5. CASE \E i \in Identities : \E barred \in BOOLEAN : SetBlacklisted(i, barred)
  BY <1>5 DEF TypeOK, SetBlacklisted, storeVars, reported, results
<1>6. CASE SwitchCreation
  BY <1>6 DEF TypeOK, SwitchCreation, storeVars, reported, results
<1> QED
  BY <1>1, <1>2, <1>3, <1>4, <1>5, <1>6 DEF People

LEMMA OvertakesType ==
  ASSUME TypeOK, NEW g \in Gids, Overtakes(g)
  PROVE  /\ overtaken' \subseteq Gids
         /\ g \in overtaken' => Busy(g) \/ g \in dissolved
         /\ g \in dissolved /\ g \in overtaken => g \in overtaken'
         /\ g \notin overtaken' => ~Busy(g)
         /\ \A h \in Gids \ {g} : h \in overtaken' <=> h \in overtaken
<1>1. overtaken' = IF Busy(g) THEN overtaken \cup {g} ELSE overtaken \ ({g} \ dissolved)
  BY DEF Overtakes
<1>2. overtaken \subseteq Gids
  BY DEF TypeOK
<1> HIDE DEF Busy
<1> QED
  BY <1>1, <1>2

LEMMA GroupsSame ==
  ASSUME GroupsInv, UNCHANGED <<groups, pending, stored>>
  PROVE  OneOwner'
  BY DEF GroupsInv, OneOwner, OwnedBy

\* A handler's change keeps the owner of every group.
LEMMA ChangesKeep ==
  ASSUME GroupsInv, NEW t \in Threads, NEW g \in Gids, NEW group \in GroupObjects,
         NEW op \in {"save", "delete"}, NEW step \in {"read", "load"},
         Changes(t, g, group, op, step)
  PROVE  GroupsInv'
<1>1. TypeOK /\ OneOwner
  BY DEF GroupsInv
<1>2. /\ groups[g] # NoGroup => groups[g].listed /\ group.owner = groups[g].owner
      /\ groups' = [groups EXCEPT ![g] = group]
      /\ pending' \in [Threads -> Saves \cup {Idle}]
      /\ pending'[t] = Taken(g, op, group, step)
      /\ \A u \in Threads \ {t} : SameSave(g, u)
      /\ Overtakes(g) /\ UNCHANGED Outside
  BY Zenon DEF Changes
<1>3. group # NoGroup
  BY GroupsAssumption
<1>4. TypeOK'
  BY <1>1, <1>2, OvertakesType DEF TypeOK, Outside, peopleVars, storeVars, results
<1>5. ASSUME NEW h \in Gids, NEW owner, OwnedBy(h, owner)
      PROVE  OwnedBy(h, owner)'
  BY <1>1, <1>2, <1>3, <1>5 DEF OwnedBy, TypeOK
<1>6. OwnedBy(g, group.owner)'
  BY <1>1, <1>2, <1>3 DEF OwnedBy, TypeOK
<1>7. ASSUME NEW u \in Threads, pending'[u] # Idle
      PROVE  /\ OwnedBy(pending[u].gid, pending[u].owner)'
             /\ \A h \in Gids : pending'[u].loaded[h] # NoGroup
                                  => OwnedBy(h, pending[u].loaded[h].owner)'
  <2>1. CASE u = t
    <3>1. /\ pending'[u].gid = g /\ pending'[u].owner = group.owner
          /\ \A h \in Gids : pending'[u].loaded[h] = NoGroup
      BY <1>2, <2>1, SnapshotIsSave
    <3> QED
      BY <1>6, <3>1
  <2>2. CASE u # t
    <3>1. SameSave(g, u)
      BY <1>2, <2>2
    <3>2. /\ pending[u] # Idle
          /\ pending'[u].gid = pending[u].gid /\ pending'[u].owner = pending[u].owner
          /\ pending'[u].loaded = pending[u].loaded
      BY <1>7, <3>1 DEF SameSave
    <3>3. pending[u] \in Saves
      BY <1>1, <3>2 DEF TypeOK
    <3>4. pending[u].gid \in Gids
      BY <3>3, SaveParts
    <3>5. /\ OwnedBy(pending[u].gid, pending[u].owner)
          /\ \A h \in Gids : pending[u].loaded[h] # NoGroup
                               => OwnedBy(h, pending[u].loaded[h].owner)
      BY <1>1, <3>2 DEF OneOwner
    <3> QED
      BY <1>5, <3>2, <3>4, <3>5
  <2> QED
    BY <2>1, <2>2
<1>8. ASSUME NEW h \in Gids, stored'[h] # NoGroup
      PROVE  OwnedBy(h, stored[h].owner)'
  <2>1. stored' = stored
    BY <1>2 DEF Outside, storeVars
  <2>2. OwnedBy(h, stored[h].owner)
    BY <1>1, <1>8, <2>1 DEF OneOwner
  <2> QED
    BY <1>5, <2>1, <2>2
<1>9. OneOwner'
  BY <1>7, <1>8 DEF OneOwner
<1> QED
  BY <1>4, <1>9 DEF GroupsInv

LEMMA LeaveReadsKeeps ==
  ASSUME GroupsInv, NEW d \in Devices, LeaveReads(d)
  PROVE  GroupsInv'
<1>1. TypeOK /\ OneOwner
  BY DEF GroupsInv
<1>2. d \in Threads /\ UNCHANGED <<memoryVars, storeVars, reported>>
  BY LeaveReadsDoes
<1>3. PICK g \in Gids, group \in GroupObjects, op \in {"save", "delete"}, save \in Saves :
        /\ g = pending[d].gid /\ groups[g] = group /\ groups[g] # NoGroup
        /\ op = (IF group.members = {} THEN "delete" ELSE "save")
        /\ save.step = "load" /\ save.op = op /\ save.gid = g /\ save # Idle
        /\ save.owner = group.owner /\ save.name = group.name
        /\ save.may = {group.members} /\ \A h \in Gids : save.loaded[h] = NoGroup
        /\ pending' = [pending EXCEPT ![d] = save]
  BY LeaveReadsDoes, Zenon
<1>4. TypeOK'
  BY <1>1, <1>2, <1>3 DEF TypeOK, memoryVars, peopleVars, storeVars, reported, results
<1>5. OneOwner'
  BY <1>1, <1>2, <1>3 DEF OneOwner, OwnedBy, TypeOK, memoryVars, storeVars
<1> QED
  BY <1>4, <1>5 DEF GroupsInv

LEMMA LoadKeeps ==
  ASSUME GroupsInv, NEW t \in Threads, LoadGroups(t)
  PROVE  GroupsInv'
<1>1. TypeOK /\ OneOwner
  BY DEF GroupsInv
<1>2. pending[t] # Idle /\ UNCHANGED <<memoryVars, storeVars, reported>>
  BY <1>1, LoadDoes
<1>3. PICK save \in Saves :
        /\ save.gid = pending[t].gid /\ save.owner = pending[t].owner
        /\ save.loaded = stored
        /\ pending' = [pending EXCEPT ![t] = save]
  BY <1>1, LoadDoes, Zenon
<1>4. TypeOK'
  BY <1>1, <1>2, <1>3 DEF TypeOK, memoryVars, peopleVars, storeVars, reported, results
<1>5. OneOwner'
  BY <1>1, <1>2, <1>3 DEF OneOwner, OwnedBy, TypeOK, memoryVars, storeVars
<1> QED
  BY <1>4, <1>5 DEF GroupsInv

LEMMA StoreKeeps ==
  ASSUME GroupsInv, NEW t \in Threads, StoreGroups(t)
  PROVE  GroupsInv'
<1>1. TypeOK /\ OneOwner
  BY DEF GroupsInv
<1>2. /\ pending[t] # Idle /\ pending[t] \in Saves
      /\ dissolved' = IF pending[t].op = "delete" THEN dissolved \cup {pending[t].gid}
                                                  ELSE dissolved
      /\ unsaved' = unsaved \ {pending[t].gid}
      /\ overtaken' = overtaken \cup Outdated(t)
      /\ pending' = [pending EXCEPT ![t] = Idle]
      /\ UNCHANGED <<memoryVars, crashes>>
  BY <1>1, StoreDoes
<1>3. PICK members \in SUBSET Identities, entry \in Entry \cup {NoGroup} :
        /\ members \in pending[t].may
        /\ pending[t].op = "delete" => entry = NoGroup
        /\ pending[t].op = "save" =>
             /\ entry # NoGroup /\ entry \in Entry
             /\ entry = [owner |-> pending[t].owner, members |-> members,
                         name |-> pending[t].name]
        /\ stored' = [pending[t].loaded EXCEPT ![pending[t].gid] = entry]
  BY <1>1, StoreDoes, Zenon
<1>4. /\ pending[t].gid \in Gids /\ pending[t].op \in {"save", "delete"}
      /\ pending[t].loaded \in [Gids -> Entry \cup {NoGroup}]
  BY <1>2, SaveParts
<1>5. stored' \in [Gids -> Entry \cup {NoGroup}]
  BY <1>3, <1>4
<1>6. TypeOK'
  BY <1>1, <1>2, <1>4, <1>5 DEF TypeOK, memoryVars, peopleVars, Outdated
<1>7. groups' = groups
  BY <1>2 DEF memoryVars
<1>8. ASSUME NEW h \in Gids, stored'[h] # NoGroup
      PROVE  OwnedBy(h, stored'[h].owner)
  <2>1. CASE h = pending[t].gid
    <3>1. stored'[h] = entry
      BY <1>3, <1>4, <2>1
    <3>2. entry.owner = pending[t].owner
      BY <1>3, <1>4, <1>8, <3>1
    <3> QED
      BY <1>1, <1>2, <2>1, <3>1, <3>2 DEF OneOwner
  <2>2. CASE h # pending[t].gid
    BY <1>1, <1>2, <1>3, <1>4, <1>8, <2>2 DEF OneOwner
  <2> QED
    BY <2>1, <2>2
<1>9. OneOwner'
  BY <1>1, <1>2, <1>7, <1>8 DEF OneOwner, OwnedBy, TypeOK
<1> QED
  BY <1>6, <1>9 DEF GroupsInv

LEMMA FailKeeps ==
  ASSUME GroupsInv, NEW t \in Threads, StoreFails(t)
  PROVE  GroupsInv'
<1>1. TypeOK /\ OneOwner
  BY DEF GroupsInv
<1>2. pending[t] \in Saves /\ pending[t].gid \in Gids
  BY <1>1, StepMeansSave, SaveParts DEF StoreFails
<1>3. TypeOK'
  BY <1>1, <1>2 DEF TypeOK, StoreFails, memoryVars, peopleVars, storeVars
<1>4. OneOwner'
  BY <1>1 DEF OneOwner, OwnedBy, TypeOK, StoreFails, memoryVars, storeVars
<1> QED
  BY <1>3, <1>4 DEF GroupsInv

LEMMA CrashKeeps ==
  ASSUME GroupsInv, CrashAndRestart
  PROVE  GroupsInv'
<1>1. TypeOK /\ OneOwner
  BY DEF GroupsInv
<1>2. /\ groups' = [g \in Gids |-> Restored(g)]
      /\ pending' = [t \in Threads |-> Idle]
      /\ stored' = stored /\ dissolved' = dissolved /\ unsaved' = {}
      /\ overtaken' = overtaken \cap dissolved
      /\ users' = users /\ createOpen' = createOpen /\ live' = {} /\ current' = {}
      /\ crashes < MaxCrashes /\ crashes' = crashes + 1
  BY DEF CrashAndRestart
<1>3. \A g \in Gids : groups'[g] \in GroupObjects \cup {NoGroup}
  BY <1>1, <1>2, RestoredParts
<1>4. groups' \in [Gids -> GroupObjects \cup {NoGroup}]
  BY <1>2, <1>3
<1>5. crashes' \in 0 .. MaxCrashes
  BY <1>1, <1>2, GroupsAssumption DEF TypeOK
<1>6. TypeOK'
  BY <1>1, <1>2, <1>4, <1>5 DEF TypeOK
<1>7. ASSUME NEW g \in Gids, stored'[g] # NoGroup
      PROVE  OwnedBy(g, stored[g].owner)'
  <2>1. OwnedBy(g, stored[g].owner)
    BY <1>1, <1>2, <1>7 DEF OneOwner
  <2> QED
    BY <1>1, <1>2, <2>1, RestoredParts DEF OwnedBy
<1>8. OneOwner'
  BY <1>2, <1>7 DEF OneOwner
<1> QED
  BY <1>6, <1>8 DEF GroupsInv

LEMMA GroupsStep == GroupsInv /\ [Next]_vars => GroupsInv'
<1> SUFFICES ASSUME GroupsInv, [Next]_vars PROVE GroupsInv'
  OBVIOUS
<1>0. TypeOK
  BY DEF GroupsInv
<1>1. CASE People
  <2>1. TypeOK' /\ UNCHANGED <<groups, pending, stored>>
    BY <1>0, <1>1, PeopleDo DEF storeVars
  <2> QED
    BY <2>1, GroupsSame DEF GroupsInv
<1>2. CASE Handler
  BY <1>0, <1>2, HandlersChange, ChangesKeep
<1>3. CASE \E d \in Devices : LeaveReads(d)
  BY <1>3, LeaveReadsKeeps
<1>4. CASE \E t \in Threads : LoadGroups(t)
  BY <1>4, LoadKeeps
<1>5. CASE \E t \in Threads : StoreGroups(t)
  BY <1>5, StoreKeeps
<1>6. CASE \E t \in Threads : StoreFails(t)
  BY <1>6, FailKeeps
<1>7. CASE CrashAndRestart
  BY <1>7, CrashKeeps
<1>8. CASE UNCHANGED vars
  <2>1. UNCHANGED <<groups, pending, stored>>
    BY <1>8 DEF vars, memoryVars, storeVars
  <2>2. TypeOK'
    BY <1>0, <1>8 DEF TypeOK, vars, memoryVars, peopleVars, storeVars, reported, results
  <2> QED
    BY <2>1, <2>2, GroupsSame DEF GroupsInv
<1> QED
  BY <1>1, <1>2, <1>3, <1>4, <1>5, <1>6, <1>7, <1>8, Zenon DEF Next, Handler, SaveStep

\* Memory, database and every save under way name one owner for a group,
\* whatever the handlers, the saves and the crashes do (createUserGroup sets
\* OwnerIP and no other function of chat.go assigns it).
THEOREM OneOwnerEverywhere == Spec => []GroupsInv
<1>1. Init => GroupsInv
  BY InitGroups
<1>2. GroupsInv /\ [Next]_vars => GroupsInv'
  BY GroupsStep
<1> QED
  BY <1>1, <1>2, PTL DEF Spec

-----------------------------------------------------------------------------
\* Crashes apart, a group in memory gets no member who is not listed.
LEMMA JoinStep ==
  ASSUME GroupsInv, [Next]_vars, NEW g \in Gids, NEW i \in Identities,
         crashes' = crashes, InMemory(g)', i \in groups'[g].members \ Members(g)
  PROVE  users[i] # "blacklisted"
<1>0. TypeOK
  BY DEF GroupsInv
<1>1. CASE groups' = groups
  <2>1. InMemory(g)
    BY <1>1 DEF InMemory
  <2> QED
    BY <1>0, <1>1, <2>1, InMemoryGroup
<1>2. CASE Handler
  <2>1. PICK t \in Threads, h \in Gids, group \in GroupObjects, op \in {"save", "delete"},
             step \in {"read", "load"} : Changes(t, h, group, op, step)
    BY <1>0, <1>2, HandlersChange
  <2>2. groups' = [groups EXCEPT ![h] = group] /\ Admits(h, group)
    BY <2>1, Zenon DEF Changes
  <2>3. CASE h = g
    <3>1. groups'[g] = group
      BY <1>0, <2>2, <2>3 DEF TypeOK
    <3> QED
      BY <2>2, <2>3, <3>1 DEF Admits
  <2>4. CASE h # g
    <3>1. groups'[g] = groups[g]
      BY <1>0, <2>2, <2>4 DEF TypeOK
    <3>2. InMemory(g)
      BY <3>1 DEF InMemory
    <3> QED
      BY <1>0, <3>1, <3>2, InMemoryGroup
  <2> QED
    BY <2>3, <2>4
<1>3. ~CrashAndRestart
  BY <1>0 DEF CrashAndRestart, TypeOK
<1>4. groups' = groups \/ Handler
  <2>1. CASE People
    BY <1>0, <2>1, PeopleDo
  <2>2. CASE \E d \in Devices : LeaveReads(d)
    BY <2>2 DEF LeaveReads, memoryVars
  <2>3. CASE \E t \in Threads : SaveStep(t)
    BY <2>3 DEF SaveStep, LoadGroups, StoreGroups, StoreFails, memoryVars
  <2>4. CASE UNCHANGED vars
    BY <2>4 DEF vars, memoryVars
  <2> QED
    BY <1>3, <2>1, <2>2, <2>3, <2>4, Zenon DEF Next, Handler
<1> QED
  BY <1>1, <1>2, <1>4

\* No handler makes anyone a member whom the administrator has blacklisted
\* (the filters of createUserGroup and addUserGroupMembers).
THEOREM BlacklistedNeverBecomesMember == Spec => BlacklistedNeverJoins
<1> DEFINE Never == \A g \in Gids, i \in Identities :
                       /\ crashes' = crashes
                       /\ InMemory(g)'
                       /\ i \in groups'[g].members \ Members(g)
                       => users[i] # "blacklisted"
<1>1. GroupsInv /\ [Next]_vars => Never
  BY JoinStep
<1>2. GroupsInv /\ [Next]_vars => [Never]_vars
  BY <1>1
<1> QED
  BY <1>2, OneOwnerEverywhere, PTL DEF Spec, BlacklistedNeverJoins

\* A group stays in memory without its owner only when the owner is not listed.
LEMMA OwnerStep ==
  ASSUME GroupsInv, [Next]_vars, NEW g \in Gids, InMemory(g), InMemory(g)',
         groups[g].owner \in groups[g].members \ groups'[g].members
  PROVE  users[groups[g].owner] # "listed"
<1>0. TypeOK /\ OneOwner /\ groups[g] # NoGroup
  BY InMemoryGroup DEF GroupsInv
<1>1. groups' # groups
  OBVIOUS
<1>2. CASE Handler
  <2>1. PICK t \in Threads, h \in Gids, group \in GroupObjects, op \in {"save", "delete"},
             step \in {"read", "load"} : Changes(t, h, group, op, step)
    BY <1>0, <1>2, HandlersChange
  <2>2. groups' = [groups EXCEPT ![h] = group] /\ Admits(h, group)
    BY <2>1, Zenon DEF Changes
  <2>3. h = g /\ groups'[g] = group
    BY <1>0, <2>2 DEF TypeOK
  <2> QED
    BY <2>2, <2>3 DEF Admits
<1>3. CASE CrashAndRestart
  <2>1. groups'[g] = Restored(g)
    BY <1>3 DEF CrashAndRestart
  <2>2. Restorable(stored[g])
    BY <1>0, <2>1, RestoredParts DEF InMemory
  <2>3. groups'[g].members = stored[g].members /\ groups'[g].owner = stored[g].owner
    BY <1>0, <2>1, <2>2, RestoredParts
  <2>4. groups[g].owner = stored[g].owner
    BY <1>0, <2>2 DEF OneOwner, OwnedBy, Restorable
  <2> QED
    BY <2>2, <2>3, <2>4 DEF Restorable
<1>4. groups' = groups \/ Handler \/ CrashAndRestart
  <2>1. CASE People
    BY <1>0, <2>1, PeopleDo
  <2>2. CASE \E d \in Devices : LeaveReads(d)
    BY <2>2 DEF LeaveReads, memoryVars
  <2>3. CASE \E t \in Threads : SaveStep(t)
    BY <2>3 DEF SaveStep, LoadGroups, StoreGroups, StoreFails, memoryVars
  <2>4. CASE UNCHANGED vars
    BY <2>4 DEF vars, memoryVars
  <2> QED
    BY <2>1, <2>2, <2>3, <2>4, Zenon DEF Next, Handler
<1> QED
  BY <1>1, <1>2, <1>3, <1>4

\* A group in memory keeps its owner as a member for as long as the hub lists
\* the owner: neither the owner nor the administrator can remove it, and a
\* restart brings back no group without it ("The owner remains protected").
THEOREM OwnerStaysProtected == Spec => OwnerLostOnlyWhenBarred
<1> DEFINE Never == \A g \in Gids :
                       /\ InMemory(g) /\ InMemory(g)'
                       /\ groups[g].owner \in groups[g].members \ groups'[g].members
                       => users[groups[g].owner] # "listed"
<1>1. GroupsInv /\ [Next]_vars => Never
  BY OwnerStep
<1>2. GroupsInv /\ [Next]_vars => [Never]_vars
  BY <1>1
<1> QED
  BY <1>2, OneOwnerEverywhere, PTL DEF Spec, OwnerLostOnlyWhenBarred

-----------------------------------------------------------------------------
(* What overlapping handlers keep, for any number of them at a time.       *)

Agreed(g) == IF InMemory(g) THEN stored[g] = EntryOf(g) ELSE ~Restorable(stored[g])

Saving(t) == pending[t] # Idle

SavingOf(t, g) == Saving(t) /\ pending[t].gid = g

\* The save under way is of what the memory holds.
Faithful(t) ==
  LET save == pending[t]  group == groups[pending[t].gid]
  IN  /\ save.name = group.name
      /\ save.may = {group.members}
      /\ save.step = "read" => (group.listed <=> group.members # {})
      /\ save.step # "read" => (group.listed <=> save.op = "save")

\* A group whose dissolution is reported done is nowhere, and its id stays used.
Gone(g) == groups[g] # NoGroup /\ ~groups[g].listed /\ ~Restorable(stored[g])

\* A group that no save has spoilt has one handler at a time.
OneHandler ==
  \A g \in Gids \ overtaken : \A t \in Threads :
     SavingOf(t, g) => Faithful(t) /\ \A u \in Threads : SavingOf(u, g) => u = t

SavedOrBusy == \A g \in Gids \ (unsaved \cup overtaken) : Agreed(g) \/ Busy(g)

DissolvedGone == \A g \in dissolved \ overtaken : Gone(g) /\ ~Busy(g)

OverlapInv == OneHandler /\ SavedOrBusy /\ DissolvedGone

LEMMA BusySaves ==
  ASSUME NEW g
  PROVE  Busy(g) <=> \E t \in Threads : SavingOf(t, g)
BY DEF Busy, SavingOf, Saving

LEMMA AgreedSame ==
  ASSUME NEW g \in Gids, groups'[g] = groups[g], stored'[g] = stored[g]
  PROVE  /\ Agreed(g)' <=> Agreed(g)
         /\ Gone(g)' <=> Gone(g)
<1>1. InMemory(g)' <=> InMemory(g)
  BY DEF InMemory
<1>2. EntryOf(g)' = EntryOf(g)
  BY DEF EntryOf
<1>3. Restorable(stored[g])' <=> Restorable(stored[g])
  BY DEF Restorable
<1> QED
  BY <1>1, <1>2, <1>3 DEF Agreed, Gone

\* A save whose parts and whose group stay the same stays faithful.
LEMMA FaithfulSame ==
  ASSUME NEW t \in Threads, pending'[t] = pending[t],
         groups'[pending[t].gid] = groups[pending[t].gid]
  PROVE  /\ Faithful(t)' <=> Faithful(t)
         /\ \A g : SavingOf(t, g)' <=> SavingOf(t, g)
BY DEF Faithful, SavingOf, Saving

LEMMA InitOverlap == Init => OverlapInv
<1> SUFFICES ASSUME Init PROVE OverlapInv
  OBVIOUS
<1> USE DEF Init
<1>1. \A t \in Threads : ~Saving(t)
  BY DEF Saving
<1>2. \A g \in Gids : Agreed(g)
  BY DEF Agreed, InMemory, Restorable
<1> QED
  BY <1>1, <1>2 DEF OverlapInv, OneHandler, SavedOrBusy, DissolvedGone, SavingOf

\* A handler that finds its group free leaves a faithful save of it behind; a
\* group that had a handler counts as overtaken from here on.
LEMMA HandlersOverlap ==
  ASSUME GroupsInv, OverlapInv, Handler
  PROVE  OverlapInv'
<1>0. TypeOK
  BY DEF GroupsInv
<1>1. PICK t \in Threads, g \in Gids, group \in GroupObjects, op \in {"save", "delete"},
           step \in {"read", "load"} : Changes(t, g, group, op, step)
  BY <1>0, HandlersChange
<1>2. /\ Ready(t)
      /\ groups[g] # NoGroup => groups[g].listed /\ group.owner = groups[g].owner
      /\ groups' = [groups EXCEPT ![g] = group]
      /\ pending'[t] = Taken(g, op, group, step)
      /\ \A u \in Threads \ {t} : SameSave(g, u)
      /\ Fits(group, op, step)
      /\ Overtakes(g) /\ UNCHANGED Outside
  BY <1>1, Zenon DEF Changes
<1>3. groups'[g] = group /\ \A h \in Gids \ {g} : groups'[h] = groups[h]
  BY <1>0, <1>2 DEF TypeOK
<1>4. stored' = stored /\ dissolved' = dissolved /\ unsaved' = unsaved
  BY <1>2 DEF Outside, storeVars, results
<1>5. /\ g \notin overtaken' => ~Busy(g)
      /\ g \in dissolved /\ g \in overtaken => g \in overtaken'
      /\ \A h \in Gids \ {g} : h \in overtaken' <=> h \in overtaken
  BY <1>0, <1>2, OvertakesType
<1>6. ~Saving(t)
  BY <1>2 DEF Ready, Saving
<1>7. SavingOf(t, g)' /\ Faithful(t)' /\ \A h : SavingOf(t, h)' => h = g
  <2>1. /\ pending'[t] # Idle /\ pending'[t].gid = g /\ pending'[t].name = group.name
        /\ pending'[t].may = {group.members} /\ pending'[t].step = step
        /\ pending'[t].op = op
    BY <1>2, SnapshotIsSave
  <2> QED
    BY <1>2, <1>3, <2>1 DEF Saving, SavingOf, Faithful, Fits
<1>8. \A u \in Threads \ {t} : \A h : SavingOf(u, h)' <=> SavingOf(u, h)
  BY <1>2 DEF SameSave, Saving, SavingOf
<1>9. Busy(g)' /\ \A h \in Gids \ {g} : Busy(h)' <=> Busy(h)
  <2>1. \A h : Busy(h)' <=> \E u \in Threads : SavingOf(u, h)'
    BY DEF Busy, SavingOf, Saving
  <2> QED
    BY <1>6, <1>7, <1>8, <2>1, BusySaves DEF SavingOf
<1>10. OneHandler'
  <2> SUFFICES ASSUME NEW h \in Gids, h \notin overtaken', NEW u \in Threads, SavingOf(u, h)'
               PROVE  /\ Faithful(u)'
                      /\ \A v \in Threads : SavingOf(v, h)' => v = u
    BY DEF OneHandler
  <2>1. CASE h = g
    <3>1. \A v \in Threads \ {t} : ~SavingOf(v, g)'
      BY <1>5, <1>8, <2>1, BusySaves
    <3> QED
      BY <1>7, <2>1, <3>1
  <2>2. CASE h # g
    <3>1. u # t /\ SavingOf(u, h)
      BY <1>7, <1>8, <2>2
    <3>2. Faithful(u) /\ \A v \in Threads : SavingOf(v, h) => v = u
      BY <1>5, <2>2, <3>1 DEF OverlapInv, OneHandler
    <3>3. pending'[u] = pending[u] /\ groups'[pending[u].gid] = groups[pending[u].gid]
      BY <1>2, <1>3, <2>2, <3>1 DEF SameSave, SavingOf
    <3> QED
      BY <1>7, <1>8, <2>2, <3>1, <3>2, <3>3, FaithfulSame
  <2> QED
    BY <2>1, <2>2
<1>11. SavedOrBusy'
  <2> SUFFICES ASSUME NEW h \in Gids, h \notin unsaved', h \notin overtaken'
               PROVE  Agreed(h)' \/ Busy(h)'
    BY DEF SavedOrBusy
  <2>1. CASE h = g
    BY <1>9, <2>1
  <2>2. CASE h # g
    <3>1. Agreed(h) \/ Busy(h)
      BY <1>4, <1>5, <2>2 DEF OverlapInv, SavedOrBusy
    <3> QED
      BY <1>3, <1>4, <1>9, <2>2, <3>1, AgreedSame
  <2> QED
    BY <2>1, <2>2
<1>12. DissolvedGone'
  <2> SUFFICES ASSUME NEW h \in dissolved, h \notin overtaken'
               PROVE  Gone(h)' /\ ~Busy(h)'
    BY <1>4 DEF DissolvedGone
  <2>1. h \in Gids
    BY <1>0 DEF TypeOK
  <2>2. h \notin overtaken
    BY <1>5, <2>1
  <2>3. Gone(h) /\ ~Busy(h)
    BY <2>2 DEF OverlapInv, DissolvedGone
  <2>4. h # g
    BY <1>2, <2>3 DEF Gone
  <2> QED
    BY <1>3, <1>4, <1>9, <2>1, <2>3, <2>4, AgreedSame
<1> QED
  BY <1>10, <1>11, <1>12 DEF OverlapInv

\* A step that only replaces a save by a faithful one of the same group.
LEMMA SaveMovesOn ==
  ASSUME GroupsInv, OverlapInv, NEW t \in Threads, Saving(t), NEW save \in Saves,
         save.gid = pending[t].gid, pending' = [pending EXCEPT ![t] = save],
         Faithful(t) => Faithful(t)',
         UNCHANGED <<groups, stored, dissolved, unsaved, overtaken>>
  PROVE  OverlapInv'
<1>0. TypeOK /\ save # Idle
  BY SaveParts DEF GroupsInv
<1>1. pending'[t] = save /\ \A u \in Threads \ {t} : pending'[u] = pending[u]
  BY <1>0 DEF TypeOK
<1>2. \A u \in Threads : \A h : SavingOf(u, h)' <=> SavingOf(u, h)
  BY <1>0, <1>1 DEF SavingOf, Saving
<1>3. \A h : Busy(h)' <=> Busy(h)
  <2>1. \A h : Busy(h)' <=> \E u \in Threads : SavingOf(u, h)'
    BY DEF Busy, SavingOf, Saving
  <2> QED
    BY <1>2, <2>1, BusySaves
<1>4. \A h \in Gids : (Agreed(h)' <=> Agreed(h)) /\ (Gone(h)' <=> Gone(h))
  BY AgreedSame
<1>5. \A u \in Threads : Faithful(u) => Faithful(u)'
  BY <1>1, FaithfulSame
<1>6. OneHandler'
  BY <1>2, <1>5 DEF OverlapInv, OneHandler
<1>7. SavedOrBusy'
  BY <1>3, <1>4 DEF OverlapInv, SavedOrBusy
<1>8. DissolvedGone'
  BY <1>0, <1>3, <1>4 DEF OverlapInv, DissolvedGone, TypeOK
<1> QED
  BY <1>6, <1>7, <1>8 DEF OverlapInv

LEMMA ReadsOverlap ==
  ASSUME GroupsInv, OverlapInv, NEW d \in Devices, LeaveReads(d)
  PROVE  OverlapInv'
<1>0. TypeOK /\ d \in Threads
  BY DEF GroupsInv, Threads
<1>1. /\ Saving(d) /\ pending[d].step = "read"
      /\ UNCHANGED <<memoryVars, storeVars, reported>>
  BY LeaveReadsDoes DEF Saving
<1>2. PICK g \in Gids, group \in GroupObjects, op \in {"save", "delete"}, save \in Saves :
        /\ g = pending[d].gid /\ groups[g] = group /\ groups[g] # NoGroup
        /\ op = (IF group.members = {} THEN "delete" ELSE "save")
        /\ save.step = "load" /\ save.op = op /\ save.gid = g /\ save # Idle
        /\ save.owner = group.owner /\ save.name = group.name
        /\ save.may = {group.members} /\ \A h \in Gids : save.loaded[h] = NoGroup
        /\ pending' = [pending EXCEPT ![d] = save]
  BY LeaveReadsDoes, Zenon
<1>3. UNCHANGED <<groups, stored, dissolved, unsaved, overtaken>>
  BY <1>1 DEF memoryVars, storeVars, reported, results
<1>4. pending'[d] = save
  BY <1>0, <1>2 DEF TypeOK
<1>5. Faithful(d) => Faithful(d)'
  BY <1>1, <1>2, <1>3, <1>4 DEF Faithful
<1> QED
  BY <1>0, <1>1, <1>2, <1>3, <1>5, SaveMovesOn

LEMMA LoadsOverlap ==
  ASSUME GroupsInv, OverlapInv, NEW t \in Threads, LoadGroups(t)
  PROVE  OverlapInv'
<1>0. TypeOK
  BY DEF GroupsInv
<1>1. /\ Saving(t) /\ pending[t].step = "load"
      /\ UNCHANGED <<memoryVars, storeVars, reported>>
  BY <1>0, LoadDoes DEF Saving
<1>2. PICK save \in Saves :
        /\ save.step = "store" /\ save.op = pending[t].op /\ save.gid = pending[t].gid
        /\ save.owner = pending[t].owner /\ save.name = pending[t].name
        /\ save.may = pending[t].may /\ save.loaded = stored
        /\ pending' = [pending EXCEPT ![t] = save]
  BY <1>0, LoadDoes, Zenon
<1>3. UNCHANGED <<groups, stored, dissolved, unsaved, overtaken>>
  BY <1>1 DEF memoryVars, storeVars, reported, results
<1>4. pending'[t] = save
  BY <1>0, <1>2 DEF TypeOK
<1>5. Faithful(t) => Faithful(t)'
  BY <1>1, <1>2, <1>3, <1>4 DEF Faithful
<1> QED
  BY <1>1, <1>2, <1>3, <1>5, SaveMovesOn

\* When a save is over, the other saves are as they were.
LEMMA OneSaveLess ==
  ASSUME TypeOK, NEW t \in Threads, Saving(t), NEW g \in Gids, g = pending[t].gid,
         pending' = [pending EXCEPT ![t] = Idle], groups' = groups
  PROVE  /\ \A u \in Threads : \A h : SavingOf(u, h)' => SavingOf(u, h) /\ (Faithful(u) => Faithful(u)')
         /\ \A h \in Gids \ {g} : Busy(h)' <=> Busy(h)
         /\ \A h \in Gids : Busy(h)' => Busy(h)
<1>1. pending'[t] = Idle /\ \A u \in Threads \ {t} : pending'[u] = pending[u]
  BY DEF TypeOK
<1>2. ~Saving(t)'
  BY <1>1 DEF Saving
<1>3. \A u \in Threads \ {t} : \A h : SavingOf(u, h)' <=> SavingOf(u, h)
  BY <1>1 DEF SavingOf, Saving
<1>4. \A u \in Threads \ {t} : Faithful(u)' <=> Faithful(u)
  BY <1>1, FaithfulSame
<1>5. \A h : Busy(h)' <=> \E u \in Threads : SavingOf(u, h)'
  BY DEF Busy, SavingOf, Saving
<1> QED
  BY <1>2, <1>3, <1>4, <1>5, BusySaves DEF SavingOf

\* A stored list keeps the entry of every other group that does not count as
\* overtaken afterwards and has no save to come.
LEMMA StoresOverlap ==
  ASSUME GroupsInv, OverlapInv, NEW t \in Threads, StoreGroups(t)
  PROVE  OverlapInv'
<1>0. TypeOK /\ OneOwner
  BY DEF GroupsInv
<1>1. /\ Saving(t) /\ pending[t].step = "store" /\ pending[t] \in Saves
      /\ dissolved' = IF pending[t].op = "delete" THEN dissolved \cup {pending[t].gid}
                                                  ELSE dissolved
      /\ unsaved' = unsaved \ {pending[t].gid}
      /\ overtaken' = overtaken \cup Outdated(t)
      /\ pending' = [pending EXCEPT ![t] = Idle]
      /\ UNCHANGED <<memoryVars, crashes>>
  BY <1>0, StoreDoes DEF Saving
<1>2. PICK members \in SUBSET Identities, entry \in Entry \cup {NoGroup} :
        /\ members \in pending[t].may
        /\ pending[t].op = "delete" => entry = NoGroup
        /\ pending[t].op = "save" =>
             /\ entry # NoGroup /\ entry \in Entry
             /\ entry = [owner |-> pending[t].owner, members |-> members,
                         name |-> pending[t].name]
        /\ stored' = [pending[t].loaded EXCEPT ![pending[t].gid] = entry]
  BY <1>0, StoreDoes, Zenon
<1>3. PICK g \in Gids : g = pending[t].gid
  BY <1>1, SaveParts
<1>4. /\ pending[t].op \in {"save", "delete"}
      /\ pending[t].loaded \in [Gids -> Entry \cup {NoGroup}]
  BY <1>1, SaveParts
<1>5. groups' = groups
  BY <1>1 DEF memoryVars
<1>6. stored'[g] = entry /\ \A h \in Gids \ {g} : stored'[h] = pending[t].loaded[h]
  BY <1>2, <1>3, <1>4
<1>7. /\ \A u \in Threads : \A h : SavingOf(u, h)' => SavingOf(u, h) /\ (Faithful(u) => Faithful(u)')
      /\ \A h \in Gids \ {g} : Busy(h)' <=> Busy(h)
      /\ \A h \in Gids : Busy(h)' => Busy(h)
  BY <1>0, <1>1, <1>3, <1>5, OneSaveLess
<1>8. groups[g] # NoGroup /\ groups[g].owner = pending[t].owner
  BY <1>0, <1>1, <1>3 DEF OneOwner, OwnedBy, Saving
<1>9. ASSUME g \notin overtaken
      PROVE  /\ ~Busy(g)' /\ Agreed(g)'
             /\ pending[t].op = "delete" => Gone(g)'
             /\ pending[t].op = "save" => g \notin dissolved
  <2>1. SavingOf(t, g)
    BY <1>1, <1>3 DEF SavingOf
  <2>2. Faithful(t) /\ \A u \in Threads : SavingOf(u, g) => u = t
    BY <1>9, <2>1 DEF OverlapInv, OneHandler
  <2>3. /\ pending[t].name = groups[g].name /\ pending[t].may = {groups[g].members}
        /\ (groups[g].listed <=> pending[t].op = "save")
    BY <1>1, <1>3, <2>2 DEF Faithful
  <2>4. ~Busy(g)'
    <3>1. \A u \in Threads : ~SavingOf(u, g)'
      <4>1. ~SavingOf(t, g)'
        BY <1>0, <1>1 DEF TypeOK, SavingOf, Saving
      <4> QED
        BY <1>7, <2>2, <4>1
    <3> QED
      BY <3>1 DEF Busy, SavingOf, Saving
  <2>5. CASE pending[t].op = "save"
    <3>1. InMemory(g)'
      BY <1>5, <1>8, <2>3, <2>5 DEF InMemory
    <3>2. entry = [owner |-> groups[g].owner, members |-> groups[g].members,
                   name |-> groups[g].name]
      BY <1>2, <1>8, <2>3, <2>5
    <3>3. EntryOf(g)' = entry
      BY <1>5, <3>2 DEF EntryOf
    <3>4. g \notin dissolved
      BY <1>9, <2>1, BusySaves DEF OverlapInv, DissolvedGone
    <3> QED
      BY <1>6, <2>4, <2>5, <3>1, <3>3, <3>4 DEF Agreed
  <2>6. CASE pending[t].op = "delete"
    <3>1. stored'[g] = NoGroup /\ ~groups[g].listed
      BY <1>2, <1>6, <2>3, <2>6
    <3>2. ~InMemory(g)' /\ ~Restorable(stored[g])'
      BY <1>5, <3>1 DEF InMemory, Restorable
    <3> QED
      BY <1>5, <1>8, <2>4, <2>6, <3>1, <3>2 DEF Agreed, Gone
  <2> QED
    BY <1>4, <2>5, <2>6
<1>10. ASSUME NEW h \in Gids \ {g}, h \notin overtaken'
       PROVE  /\ h \notin overtaken
              /\ Busy(h) \/ stored'[h] = stored[h]
  BY <1>1, <1>3, <1>6, <1>10 DEF Outdated
<1>11. OneHandler'
  <2> SUFFICES ASSUME NEW h \in Gids, h \notin overtaken', NEW u \in Threads, SavingOf(u, h)'
               PROVE  /\ Faithful(u)'
                      /\ \A v \in Threads : SavingOf(v, h)' => v = u
    BY DEF OneHandler
  <2>1. h \notin overtaken /\ SavingOf(u, h)
    BY <1>1, <1>7
  <2>2. Faithful(u) /\ \A v \in Threads : SavingOf(v, h) => v = u
    BY <2>1 DEF OverlapInv, OneHandler
  <2> QED
    BY <1>7, <2>2
<1>12. SavedOrBusy'
  <2> SUFFICES ASSUME NEW h \in Gids, h \notin unsaved', h \notin overtaken'
               PROVE  Agreed(h)' \/ Busy(h)'
    BY DEF SavedOrBusy
  <2>1. CASE h = g
    BY <1>1, <1>9, <2>1
  <2>2. CASE h # g
    <3>1. h \notin unsaved /\ h \notin overtaken
      BY <1>1, <1>3, <2>2
    <3>2. Agreed(h) \/ Busy(h)
      BY <3>1 DEF OverlapInv, SavedOrBusy
    <3> QED
      BY <1>5, <1>7, <1>10, <2>2, <3>2, AgreedSame
  <2> QED
    BY <2>1, <2>2
<1>13. DissolvedGone'
  <2> SUFFICES ASSUME NEW h \in dissolved', h \notin overtaken'
               PROVE  Gone(h)' /\ ~Busy(h)'
    BY DEF DissolvedGone
  <2>1. CASE h = g
    <3>1. g \notin overtaken
      BY <1>1, <2>1
    <3> QED
      BY <1>1, <1>3, <1>4, <1>9, <2>1, <3>1
  <2>2. CASE h # g
    <3>1. h \in dissolved /\ h \in Gids
      BY <1>0, <1>1, <1>3, <2>2 DEF TypeOK
    <3>2. h \notin overtaken /\ (Busy(h) \/ stored'[h] = stored[h])
      BY <1>10, <2>2, <3>1
    <3>3. Gone(h) /\ ~Busy(h)
      BY <3>1, <3>2 DEF OverlapInv, DissolvedGone
    <3> QED
      BY <1>5, <1>7, <2>2, <3>1, <3>2, <3>3, AgreedSame
  <2> QED
    BY <2>1, <2>2
<1> QED
  BY <1>11, <1>12, <1>13 DEF OverlapInv

LEMMA FailsOverlap ==
  ASSUME GroupsInv, OverlapInv, NEW t \in Threads, StoreFails(t)
  PROVE  OverlapInv'
<1>0. TypeOK
  BY DEF GroupsInv
<1>1. /\ unsaved' = unsaved \cup {pending[t].gid}
      /\ pending' = [pending EXCEPT ![t] = Idle]
      /\ groups' = groups /\ stored' = stored
      /\ dissolved' = dissolved /\ overtaken' = overtaken
  BY DEF StoreFails, memoryVars, storeVars
<1>2. Saving(t) /\ pending[t] \in Saves
  BY <1>0, StepMeansSave DEF StoreFails, Saving
<1>3. PICK g \in Gids : g = pending[t].gid
  BY <1>2, SaveParts
<1>4. /\ \A u \in Threads : \A h : SavingOf(u, h)' => SavingOf(u, h) /\ (Faithful(u) => Faithful(u)')
      /\ \A h \in Gids \ {g} : Busy(h)' <=> Busy(h)
      /\ \A h \in Gids : Busy(h)' => Busy(h)
  BY <1>0, <1>1, <1>2, <1>3, OneSaveLess
<1>5. \A h \in Gids : (Agreed(h)' <=> Agreed(h)) /\ (Gone(h)' <=> Gone(h))
  BY <1>1, AgreedSame
<1>6. OneHandler'
  BY <1>1, <1>4 DEF OverlapInv, OneHandler
<1>7. SavedOrBusy'
  BY <1>1, <1>3, <1>4, <1>5 DEF OverlapInv, SavedOrBusy
<1>8. DissolvedGone'
  BY <1>0, <1>1, <1>4, <1>5 DEF OverlapInv, DissolvedGone, TypeOK
<1> QED
  BY <1>6, <1>7, <1>8 DEF OverlapInv

LEMMA CrashesOverlap ==
  ASSUME GroupsInv, OverlapInv, CrashAndRestart
  PROVE  OverlapInv'
<1>0. TypeOK /\ OneOwner
  BY DEF GroupsInv
<1>1. /\ \A g \in Gids : groups'[g] = Restored(g)
      /\ \A t \in Threads : pending'[t] = Idle
      /\ stored' = stored /\ dissolved' = dissolved
      /\ overtaken' = overtaken \cap dissolved
  BY DEF CrashAndRestart
<1>2. \A t \in Threads : \A g : ~SavingOf(t, g)'
  BY <1>1 DEF SavingOf, Saving
<1>3. \A g \in Gids : ~Busy(g)'
  BY <1>1 DEF Busy
<1>4. ASSUME NEW g \in Gids
      PROVE  Agreed(g)'
  <2>1. CASE Restorable(stored[g])
    <3>1. InMemory(g)'
      BY <1>0, <1>1, <2>1, RestoredParts DEF InMemory
    <3>2. stored[g] \in Entry
      BY <1>0, <2>1 DEF TypeOK, Restorable
    <3>3. stored[g] = [owner |-> stored[g].owner, members |-> stored[g].members,
                       name |-> stored[g].name]
      BY <3>2 DEF Entry
    <3>4. EntryOf(g)' = stored[g]
      BY <1>0, <1>1, <2>1, <3>3, RestoredParts DEF EntryOf
    <3> QED
      BY <1>1, <3>1, <3>4 DEF Agreed
  <2>2. CASE ~Restorable(stored[g])
    <3>1. ~InMemory(g)'
      BY <1>0, <1>1, <2>2, RestoredParts DEF InMemory
    <3> QED
      BY <1>1, <2>2, <3>1 DEF Agreed, Restorable
  <2> QED
    BY <2>1, <2>2
<1>5. ASSUME NEW g \in dissolved \ overtaken
      PROVE  Gone(g)'
  <2>1. Gone(g) /\ g \in Gids
    BY <1>0 DEF OverlapInv, DissolvedGone, TypeOK
  <2>2. Restored(g) # NoGroup /\ ~Restored(g).listed
    BY <1>0, <2>1, RestoredParts DEF Gone
  <2> QED
    BY <1>1, <2>1, <2>2 DEF Gone, Restorable
<1>6. OneHandler' /\ SavedOrBusy'
  BY <1>2, <1>4 DEF OneHandler, SavedOrBusy
<1>7. DissolvedGone'
  BY <1>0, <1>1, <1>3, <1>5 DEF DissolvedGone, TypeOK
<1> QED
  BY <1>6, <1>7 DEF OverlapInv

LEMMA OverlapSame ==
  ASSUME GroupsInv, OverlapInv,
         UNCHANGED <<groups, pending, stored, dissolved, unsaved, overtaken>>
  PROVE  OverlapInv'
<1>1. \A g \in Gids : (Agreed(g)' <=> Agreed(g)) /\ (Gone(g)' <=> Gone(g))
  BY AgreedSame
<1>2. /\ \A t \in Threads : Faithful(t)' <=> Faithful(t)
      /\ \A t \in Threads : \A g : SavingOf(t, g)' <=> SavingOf(t, g)
  BY FaithfulSame
<1>3. \A g : Busy(g)' <=> Busy(g)
  BY DEF Busy
<1>4. dissolved \subseteq Gids
  BY DEF GroupsInv, TypeOK
<1>5. OneHandler'
  BY <1>2 DEF OverlapInv, OneHandler
<1>6. SavedOrBusy' /\ DissolvedGone'
  BY <1>1, <1>3, <1>4 DEF OverlapInv, SavedOrBusy, DissolvedGone
<1> QED
  BY <1>5, <1>6 DEF OverlapInv

LEMMA OverlapStep == GroupsInv /\ OverlapInv /\ [Next]_vars => OverlapInv'
<1> SUFFICES ASSUME GroupsInv, OverlapInv, [Next]_vars PROVE OverlapInv'
  OBVIOUS
<1>1. CASE People
  <2>1. UNCHANGED <<groups, pending, stored, dissolved, unsaved, overtaken>>
    BY <1>1, PeopleDo DEF GroupsInv, storeVars, reported, results
  <2> QED
    BY <2>1, OverlapSame
<1>2. CASE Handler
  BY <1>2, HandlersOverlap
<1>3. CASE \E d \in Devices : LeaveReads(d)
  BY <1>3, ReadsOverlap
<1>4. CASE \E t \in Threads : LoadGroups(t)
  BY <1>4, LoadsOverlap
<1>5. CASE \E t \in Threads : StoreGroups(t)
  BY <1>5, StoresOverlap
<1>6. CASE \E t \in Threads : StoreFails(t)
  BY <1>6, FailsOverlap
<1>7. CASE CrashAndRestart
  BY <1>7, CrashesOverlap
<1>8. CASE UNCHANGED vars
  <2>1. UNCHANGED <<groups, pending, stored, dissolved, unsaved, overtaken>>
    BY <1>8 DEF vars, memoryVars, storeVars, reported, results
  <2> QED
    BY <2>1, OverlapSame
<1> QED
  BY <1>1, <1>2, <1>3, <1>4, <1>5, <1>6, <1>7, <1>8, Zenon DEF Next, Handler, SaveStep

LEMMA OverlapAlways == Spec => []OverlapInv
<1>1. Init => GroupsInv /\ OverlapInv
  BY InitGroups, InitOverlap
<1>2. GroupsInv /\ OverlapInv /\ [Next]_vars => GroupsInv' /\ OverlapInv'
  BY GroupsStep, OverlapStep
<1> QED
  BY <1>1, <1>2, PTL DEF Spec

\* However many handlers and saves overlap, a group that no handler is at
\* work on is in the database as it is in memory, unless its last save failed,
\* two of its own handlers overlapped, or a handler of another group stored a
\* list loaded before this group was saved (the handlers of chat.go with
\* SaveChatGroup and DeleteChatGroup of database.go).
THEOREM OverlapsLoseNothingElse == Spec => []RestartLosesNothing
<1>1. OverlapInv => RestartLosesNothing
  BY DEF OverlapInv, SavedOrBusy, RestartLosesNothing, Agreed
<1> QED
  BY <1>1, OverlapAlways, PTL

\* A dissolution reported done stands, in memory and in the database, however
\* many handlers overlap, whatever fails and whenever the process dies: what
\* undoes it is a handler of that group that was not through when it began, or
\* a list loaded before it was stored.
THEOREM DissolutionsStand == Spec => []DissolvedStaysGone
<1>1. OverlapInv => DissolvedStaysGone
  BY DEF OverlapInv, DissolvedGone, DissolvedStaysGone, Gone, InMemory
<1> QED
  BY <1>1, OverlapAlways, PTL
=============================================================================
