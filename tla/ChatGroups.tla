----------------------------- MODULE ChatGroups -----------------------------
(***************************************************************************)
(* User-created groups: the groups chatHub keeps in memory                 *)
(* (src/internal/server/chat.go) beside the "chat-groups" value of the     *)
(* database (src/internal/database/database.go).                           *)
(*                                                                         *)
(* Every handler changes the memory in one critical section of chatHub.mu  *)
(* and saves after it unlocked.  The database keeps all groups in one      *)
(* value: a save loads it in one transaction and stores the modified list  *)
(* in another, and nothing serialises two saves.  The slice of members is  *)
(* shared between a group and the snapshot a handler carries to the        *)
(* database, and removeIP compacts it in place.                            *)
(*                                                                         *)
(* Left out: the messages of a group, UpdatedAt (it only orders listings), *)
(* the frames broadcast to members.                                        *)
(***************************************************************************)
EXTENDS Integers, FiniteSets

CONSTANTS
    Identities,   \* accounts
    Devices,      \* browser connections whose readPump calls the handlers
    IdentityOf,   \* account of a device
    Admins,       \* threads of the administrator: desktop window, admin page
    Gids,         \* random group ids, each used once
    Names,        \* group names
    NoGroup,      \* no entry in the database
    MaxPending,   \* how many handlers may be between unlock and return
    Failures,     \* whether a database call may fail
    MaxCrashes    \* bound of the model on crashes

Threads == Devices \cup Admins

Entry == [owner : Identities, members : SUBSET Identities, name : Names]

\* "listed": the object is in chatHub.userGroups.
GroupObjects == [listed : BOOLEAN, owner : Identities, members : SUBSET Identities, name : Names]

ASSUME GroupsAssumption ==
    /\ IsFiniteSet(Identities)
    /\ IsFiniteSet(Threads)
    /\ Devices \cap Admins = {}
    /\ IdentityOf \in [Devices -> Identities]
    /\ NoGroup \notin Entry \cup GroupObjects
    /\ MaxPending \in Nat
    /\ Failures \in BOOLEAN
    /\ MaxCrashes \in Nat

VARIABLES
    users,       \* what chatHub.users knows of an identity
    createOpen,  \* enabled, groupCreate and userListEnabled
    live,        \* devices whose readPump runs
    current,     \* devices in chatHub.peers
    groups,      \* group objects, NoGroup before the id is drawn
    pending,     \* per thread, the save it has yet to do
    stored,      \* the chat-groups value
    dissolved,   \* history: groups whose dissolution was reported done
    unsaved,     \* history: groups whose last save failed
    overtaken,   \* history: groups whose entry an overlapping save may have spoilt
    crashes

peopleVars == <<users, createOpen, live, current>>
memoryVars == <<peopleVars, groups>>
storeVars  == <<stored, crashes>>
results    == <<dissolved, unsaved>>
reported   == <<results, overtaken>>
vars == <<memoryVars, pending, storeVars, reported>>

\* "may": what the shared slice can show when the snapshot is encoded;
\* "aliased": later removals still write into that slice.
Saves == [step : {"read", "load", "store"}, op : {"save", "delete"}, gid : Gids,
          owner : Identities, name : Names, may : SUBSET SUBSET Identities,
          aliased : BOOLEAN, loaded : [Gids -> Entry \cup {NoGroup}]]

Idle == [step |-> "idle"]

TypeOK ==
    /\ users \in [Identities -> {"unknown", "listed", "blacklisted"}]
    /\ createOpen \in BOOLEAN
    /\ live \subseteq Devices
    /\ current \subseteq live
    /\ groups \in [Gids -> GroupObjects \cup {NoGroup}]
    /\ pending \in [Threads -> Saves \cup {Idle}]
    /\ stored \in [Gids -> Entry \cup {NoGroup}]
    /\ dissolved \subseteq Gids
    /\ unsaved \subseteq Gids
    /\ overtaken \subseteq Gids
    /\ crashes \in 0 .. MaxCrashes

Init ==
    /\ users = [i \in Identities |-> "listed"]
    /\ createOpen = TRUE
    /\ live = {}
    /\ current = {}
    /\ groups = [g \in Gids |-> NoGroup]
    /\ pending = [t \in Threads |-> Idle]
    /\ stored = [g \in Gids |-> NoGroup]
    /\ dissolved = {}
    /\ unsaved = {}
    /\ overtaken = {}
    /\ crashes = 0

-----------------------------------------------------------------------------
(* Connections and users, as far as the group handlers look at them.       *)

Connect(d) ==
    /\ d \notin live
    /\ users[IdentityOf[d]] # "blacklisted"
    /\ live' = live \cup {d}
    /\ current' = current \cup {d}
    /\ users' = [users EXCEPT ![IdentityOf[d]] = "listed"]
    /\ UNCHANGED <<createOpen, groups, pending, storeVars, reported>>

\* A connection is taken out of the registry while its readPump still runs.
Detach(d) ==
    /\ d \in current
    /\ current' = current \ {d}
    /\ UNCHANGED <<users, createOpen, live, groups, pending, storeVars, reported>>

Leave(d) ==
    /\ d \in live
    /\ pending[d] = Idle
    /\ live' = live \ {d}
    /\ current' = current \ {d}
    /\ UNCHANGED <<users, createOpen, groups, pending, storeVars, reported>>

SetBlacklisted(i, barred) ==
    /\ users' = [users EXCEPT ![i] = IF barred THEN "blacklisted" ELSE "listed"]
    /\ current' = IF barred THEN {d \in current : IdentityOf[d] # i} ELSE current
    /\ UNCHANGED <<createOpen, live, groups, pending, storeVars, reported>>

\* RemoveChatVisitor: the record goes, the socket stays.
RemoveVisitor(i) ==
    /\ users[i] # "unknown"
    /\ users' = [users EXCEPT ![i] = "unknown"]
    /\ UNCHANGED <<createOpen, live, current, groups, pending, storeVars, reported>>

SwitchCreation ==
    /\ createOpen' = ~createOpen
    /\ UNCHANGED <<users, live, current, groups, pending, storeVars, reported>>

-----------------------------------------------------------------------------
(* The critical sections.                                                  *)

\* A handler is free to run on this thread.
Ready(t) ==
    /\ pending[t] = Idle
    /\ t \in Devices => t \in live
    /\ Cardinality({u \in Threads : pending[u] # Idle}) < MaxPending

InMemory(g) == groups[g] # NoGroup /\ groups[g].listed

\* Some handler has unlocked after it changed g and has not returned.
Busy(g) == \E t \in Threads : pending[t] # Idle /\ pending[t].gid = g

\* Bookkeeping of the model: two handlers of one group at a time may store
\* their snapshots in either order, so its entry is not relied on until a
\* handler has the group for itself (nor, if it was dissolved, after that).
Overtakes(g) ==
    overtaken' = IF Busy(g) THEN overtaken \cup {g} ELSE overtaken \ ({g} \ dissolved)

\* What other threads' snapshots of g can show after the slice was compacted.
Compacted(g, members) ==
    [t \in Threads |->
        IF pending[t] # Idle /\ pending[t].gid = g /\ pending[t].aliased
        THEN [pending[t] EXCEPT !.may = @ \cup {members}] ELSE pending[t]]

\* The members of g got a slice of their own: older snapshots keep the old one.
Reallocated(g) ==
    [t \in Threads |->
        IF pending[t] # Idle /\ pending[t].gid = g
        THEN [pending[t] EXCEPT !.aliased = FALSE] ELSE pending[t]]

Snapshot(g, op, group) ==
    [step |-> "load", op |-> op, gid |-> g, owner |-> group.owner, name |-> group.name,
     may |-> {group.members}, aliased |-> TRUE, loaded |-> [h \in Gids |-> NoGroup]]

Listed_OnlyKnown(chosen) == {m \in chosen : users[m] # "unknown"}

\* Those of the chosen that the hub knows and has not blacklisted.
Listed(chosen) == {m \in chosen : users[m] = "listed"}

CreateGroup(d, g, chosen, name) ==
    LET members == Listed(chosen \cup {IdentityOf[d]})
        group   == [listed |-> TRUE, owner |-> IdentityOf[d], members |-> members, name |-> name]
    IN  /\ Ready(d)
        /\ createOpen
        /\ d \in current
        /\ groups[g] = NoGroup
        /\ Cardinality(members) >= 2
        /\ groups' = [groups EXCEPT ![g] = group]
        /\ pending' = [pending EXCEPT ![d] = Snapshot(g, "save", group)]
        /\ Overtakes(g)
        /\ UNCHANGED <<peopleVars, storeVars, results>>

LeaveGroup_NotSaved(d, g) ==
    LET me    == IdentityOf[d]
        group == [groups[g] EXCEPT !.members = @ \ {me},
                                   !.listed = groups[g].members # {me}]
    IN  /\ Ready(d)
        /\ InMemory(g)
        /\ me \in groups[g].members
        /\ groups[g].owner # me
        /\ groups' = [groups EXCEPT ![g] = group]
        /\ pending' = Compacted(g, group.members)
        /\ Overtakes(g)
        /\ UNCHANGED <<peopleVars, storeVars, results>>

\* leaveUserGroup looks at the group again after it unlocked (LeaveReads).
LeaveGroup(d, g) ==
    LET me    == IdentityOf[d]
        group == [groups[g] EXCEPT !.members = @ \ {me},
                                   !.listed = groups[g].members # {me}]
    IN  /\ Ready(d)
        /\ InMemory(g)
        /\ me \in groups[g].members
        /\ groups[g].owner # me
        /\ groups' = [groups EXCEPT ![g] = group]
        /\ pending' = [Compacted(g, group.members) EXCEPT
                          ![d] = [Snapshot(g, "save", group) EXCEPT !.step = "read"]]
        /\ Overtakes(g)
        /\ UNCHANGED <<peopleVars, storeVars, results>>

LeaveReads(d) ==
    /\ pending[d].step = "read"
    /\ LET g == pending[d].gid
       IN  pending' = [pending EXCEPT ![d] =
              Snapshot(g, IF groups[g].members = {} THEN "delete" ELSE "save", groups[g])]
    /\ UNCHANGED <<memoryVars, storeVars, reported>>

\* The part that rename, remove and delete share, for the owner and the admin.
Rename(t, g, name) ==
    LET group == [groups[g] EXCEPT !.name = name]
    IN  /\ Ready(t)
        /\ InMemory(g)
        /\ groups' = [groups EXCEPT ![g] = group]
        /\ pending' = [pending EXCEPT ![t] = Snapshot(g, "save", group)]
        /\ Overtakes(g)
        /\ UNCHANGED <<peopleVars, storeVars, results>>

RemoveMember_EvenOwner(t, g, target) ==
    LET group == [groups[g] EXCEPT !.members = @ \ {target}]
    IN  /\ Ready(t)
        /\ InMemory(g)
        /\ target \in groups[g].members
        /\ groups' = [groups EXCEPT ![g] = group]
        /\ pending' = [Compacted(g, group.members) EXCEPT ![t] = Snapshot(g, "save", group)]
        /\ Overtakes(g)
        /\ UNCHANGED <<peopleVars, storeVars, results>>

RemoveMember(t, g, target) ==
    LET group == [groups[g] EXCEPT !.members = @ \ {target}]
    IN  /\ Ready(t)
        /\ InMemory(g)
        /\ target \in groups[g].members
        /\ target # groups[g].owner
        /\ groups' = [groups EXCEPT ![g] = group]
        /\ pending' = [Compacted(g, group.members) EXCEPT ![t] = Snapshot(g, "save", group)]
        /\ Overtakes(g)
        /\ UNCHANGED <<peopleVars, storeVars, results>>

DeleteGroup(t, g) ==
    /\ Ready(t)
    /\ InMemory(g)
    /\ groups' = [groups EXCEPT ![g].listed = FALSE]
    /\ pending' = [pending EXCEPT ![t] = Snapshot(g, "delete", groups[g])]
    /\ Overtakes(g)
    /\ UNCHANGED <<peopleVars, storeVars, results>>

Owns(d, g) == InMemory(g) /\ groups[g].owner = IdentityOf[d]

\* The filter goes over the old members as well as the invited ones.
AddMembers(d, g, invited) ==
    LET members == Listed(groups[g].members \cup invited)
        group   == [groups[g] EXCEPT !.members = members]
    IN  /\ Ready(d)
        /\ InMemory(g)
        /\ Owns(d, g)
        /\ Cardinality(members) # Cardinality(groups[g].members)
        /\ groups' = [groups EXCEPT ![g] = group]
        /\ pending' = [Reallocated(g) EXCEPT ![d] = Snapshot(g, "save", group)]
        /\ Overtakes(g)
        /\ UNCHANGED <<peopleVars, storeVars, results>>

RenameUserGroup(d, g, name)         == Owns(d, g) /\ Rename(d, g, name)
RemoveUserGroupMember(d, g, target) == Owns(d, g) /\ RemoveMember(d, g, target)
DissolveUserGroup(d, g)             == Owns(d, g) /\ DeleteGroup(d, g)

-----------------------------------------------------------------------------
(* SaveChatGroup and DeleteChatGroup of the database.                      *)

LoadGroups(t) ==
    /\ pending[t].step = "load"
    /\ pending' = [pending EXCEPT ![t].step = "store", ![t].loaded = stored]
    /\ UNCHANGED <<memoryVars, storeVars, reported>>

Written_NeverFiltered(save, members) ==
    [owner |-> save.owner, members |-> members, name |-> save.name]

\* What the list becomes: the entry is replaced or appended, or filtered out.
Written(save, members) ==
    IF save.op = "delete" THEN NoGroup
    ELSE [owner |-> save.owner, members |-> members, name |-> save.name]

\* Bookkeeping: the other groups that a list loaded before somebody else's
\* store takes back, unless a handler is about to write their entry again.
Outdated(t) ==
    {h \in Gids \ {pending[t].gid} : pending[t].loaded[h] # stored[h] /\ ~Busy(h)}

StoreGroups(t) ==
    /\ pending[t].step = "store"
    /\ \E members \in pending[t].may :
          stored' = [pending[t].loaded EXCEPT ![pending[t].gid] = Written(pending[t], members)]
    /\ dissolved' = IF pending[t].op = "delete" THEN dissolved \cup {pending[t].gid} ELSE dissolved
    /\ unsaved' = unsaved \ {pending[t].gid}
    /\ overtaken' = overtaken \cup Outdated(t)
    /\ pending' = [pending EXCEPT ![t] = Idle]
    /\ UNCHANGED <<memoryVars, crashes>>

\* The handler returns an error; the memory is not put back.
StoreFails(t) ==
    /\ Failures
    /\ pending[t].step \in {"load", "store"}
    /\ unsaved' = unsaved \cup {pending[t].gid}
    /\ pending' = [pending EXCEPT ![t] = Idle]
    /\ UNCHANGED <<memoryVars, storeVars, dissolved, overtaken>>

-----------------------------------------------------------------------------
\* SetPersistence skips a group whose owner is not one of its members.
Restorable(e) == e # NoGroup /\ e.owner \in e.members

Restored(g) ==
    IF Restorable(stored[g])
    THEN [listed |-> TRUE, owner |-> stored[g].owner,
          members |-> stored[g].members, name |-> stored[g].name]
    ELSE IF groups[g] = NoGroup THEN NoGroup ELSE [groups[g] EXCEPT !.listed = FALSE]

\* The process dies and starts again with what the database has.
CrashAndRestart ==
    /\ crashes < MaxCrashes
    /\ crashes' = crashes + 1
    /\ live' = {}
    /\ current' = {}
    /\ groups' = [g \in Gids |-> Restored(g)]
    /\ pending' = [t \in Threads |-> Idle]
    /\ unsaved' = {}
    /\ overtaken' = overtaken \cap dissolved
    /\ UNCHANGED <<users, createOpen, stored, dissolved>>

-----------------------------------------------------------------------------
DeviceHandler(d) ==
    \E g \in Gids :
        \/ \E chosen \in SUBSET Identities, name \in Names : CreateGroup(d, g, chosen, name)
        \/ LeaveGroup(d, g)
        \/ DissolveUserGroup(d, g)
        \/ \E name \in Names : RenameUserGroup(d, g, name)
        \/ \E invited \in SUBSET Identities : AddMembers(d, g, invited)
        \/ \E target \in Identities : RemoveUserGroupMember(d, g, target)

AdminHandler(a) ==
    \E g \in Gids :
        \/ \E name \in Names : Rename(a, g, name)
        \/ \E target \in Identities : RemoveMember(a, g, target)
        \/ DeleteGroup(a, g)

SaveStep(t) == LoadGroups(t) \/ StoreGroups(t) \/ StoreFails(t)

\* Without an administrator the accounts and the switches stay as they are.
People ==
    \/ \E d \in Devices : Connect(d) \/ Detach(d) \/ Leave(d)
    \/ /\ Admins # {}
       /\ \/ \E i \in Identities :
                RemoveVisitor(i) \/ \E barred \in BOOLEAN : SetBlacklisted(i, barred)
          \/ SwitchCreation

Next ==
    \/ People
    \/ \E d \in Devices : DeviceHandler(d) \/ LeaveReads(d)
    \/ \E a \in Admins : AdminHandler(a)
    \/ \E t \in Threads : SaveStep(t)
    \/ CrashAndRestart

Spec == Init /\ [][Next]_vars

-----------------------------------------------------------------------------
(* Properties.                                                             *)

EntryOf(g) == [owner |-> groups[g].owner, members |-> groups[g].members, name |-> groups[g].name]

\* While no handler is at work on a group, the database holds of it what the
\* memory holds: a restart would bring it back as it is if it still has its
\* owner, and not at all if it was dissolved. Whatever handlers overlap, only
\* three things spoil this: its last save failed, two of its own handlers
\* overlapped, or a handler of another group stored a list it had loaded
\* before this group was saved (the group handlers of chat.go, which save
\* after unlocking, with SaveChatGroup and DeleteChatGroup, which load and
\* store the whole list in two transactions).
RestartLosesNothing ==
    \A g \in Gids \ (unsaved \cup overtaken) :
        ~Busy(g) => IF InMemory(g) THEN stored[g] = EntryOf(g) ELSE ~Restorable(stored[g])

\* A group whose dissolution was reported done is not in memory and would
\* not be restored ("DeleteChatGroup dissolves a user-created group").
DissolvedForGood ==
    \A g \in dissolved : ~InMemory(g) /\ ~Restorable(stored[g])

\* That holds, through any failures, crashes and overlaps of other groups'
\* handlers, of every dissolution that no overlapping save has spoilt: what
\* brings a group back is one of its own handlers that was not through when
\* the dissolution began, or a list loaded before the dissolution was stored.
DissolvedStaysGone ==
    \A g \in dissolved \ overtaken : ~InMemory(g) /\ ~Restorable(stored[g])

\* A group in memory loses its owner only to the filter of addUserGroupMembers,
\* and only an owner the hub has blacklisted or no longer knows ("The owner
\* remains protected so a group always has a responsible owner").
OwnerLostOnlyWhenBarred ==
    [][\A g \in Gids :
          /\ InMemory(g) /\ InMemory(g)'
          /\ groups[g].owner \in groups[g].members \ groups'[g].members
          => users[groups[g].owner] # "listed"]_vars

Members(g) == IF groups[g] = NoGroup THEN {} ELSE groups[g].members

\* Nobody the administrator has blacklisted becomes a member: every handler
\* that adds members filters them (a restart brings back old members).
BlacklistedNeverJoins ==
    [][\A g \in Gids, i \in Identities :
          /\ crashes' = crashes
          /\ InMemory(g)'
          /\ i \in groups'[g].members \ Members(g)
          => users[i] # "blacklisted"]_vars
=============================================================================
