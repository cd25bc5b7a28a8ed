------------------------------ MODULE ChatUsers ------------------------------
(***************************************************************************)
(* Chat users: the records the hub keeps in memory, the rows that survive  *)
(* it, private remarks, and the two switches of the user list. Nearly      *)
(* every change copies the record under the hub's lock and saves the copy  *)
(* after unlocking, so that saves of one user may be stored in another     *)
(* order than they were made.                                              *)
(***************************************************************************)
EXTENDS Naturals, FiniteSets

CONSTANTS
  Users,       \* identities
  NoRecord,    \* a user the hub, or the database, knows nothing of
  MaxWrites,   \* bound of the model: database calls under way at once
  MaxChanges,  \* bound of the model: changes of records
  MaxFaults    \* bound of the model: failed saves and crashes

ASSUME UsersAssumption == {MaxWrites, MaxChanges, MaxFaults} \subseteq Nat

VARIABLES
  listOn, privateOn,    \* userListEnabled, privateEnabled
  users, rows,          \* records in memory and in the database
  remarks, remarkRows,  \* remarks[o]: whom o has given a name, and the same on disk
  connected,            \* users with a registered connection
  writes,               \* database calls made after unlocking and not done yet
  loose, looseRemarks,  \* whose writes overlapped, failed or were never made
  changes, faults

userSwitches == <<listOn, privateOn>>
userMemory   == <<users, remarks>>
userRows     == <<rows, remarkRows>>
userNotes    == <<loose, looseRemarks>>
userVars == <<userSwitches, userMemory, userRows, connected, writes, userNotes, changes, faults>>

\* renamed stands for the name and the avatar a user or the administrator chose.
Records == [renamed : BOOLEAN, banned : BOOLEAN]
NewRecord == [renamed |-> FALSE, banned |-> FALSE]

\* ensureUserLocked: the record, made if there is none.
Ensured(u) == IF users[u] = NoRecord THEN NewRecord ELSE users[u]

UsersInit ==
  /\ listOn = TRUE /\ privateOn \in BOOLEAN
  /\ users = [u \in Users |-> NoRecord] /\ rows = users
  /\ remarks = [o \in Users |-> {}] /\ remarkRows = remarks
  /\ connected = {} /\ writes = {}
  /\ loose = {} /\ looseRemarks = {}
  /\ changes = 0 /\ faults = 0

-----------------------------------------------------------------------------
(* Database calls under way. *)

Write(kind, who, copy) == [kind |-> kind, who |-> who, copy |-> copy, number |-> changes]
ClearingUsers(w) == w.kind \in {"clearUsers", "clearRemarks"}
Touches(w, u) == ClearingUsers(w) \/ (w.kind # "remark" /\ w.who = u)
TouchesRemarks(w, o) == ClearingUsers(w) \/ (w.kind = "remark" /\ w.who = o)
Racing(who, calls) == {u \in who : \E w \in calls : Touches(w, u)}
RacingRemarks(who) == {o \in who : \E w \in writes : TouchesRemarks(w, o)}

Counting == changes < MaxChanges /\ changes' = changes + 1
Change == Counting /\ UNCHANGED faults

\* persistUserLocked: saved before unlocking; an error is ignored.
PersistUserLocked(u, record) ==
  \/ /\ rows' = [rows EXCEPT ![u] = record]
     /\ loose' = (loose \ {u}) \cup Racing({u}, writes)
     /\ UNCHANGED faults
  \/ /\ faults < MaxFaults /\ faults' = faults + 1
     /\ loose' = loose \cup {u}
     /\ UNCHANGED rows

\* A change of u's record whose copy is saved after unlocking.
Saving(u, record, kind) ==
  /\ Cardinality(writes) < MaxWrites
  /\ users' = [users EXCEPT ![u] = record]
  /\ writes' = writes \cup {Write(kind, u, record)}
  /\ loose' = loose \cup Racing({u}, writes)

-----------------------------------------------------------------------------

SetUserListEnabled ==
  /\ Change
  /\ listOn' = ~listOn
  /\ privateOn' = (privateOn /\ ~listOn)
  /\ UNCHANGED <<userMemory, userRows, connected, writes, userNotes>>

SetPrivateEnabled ==
  /\ Change
  /\ privateOn' = (~privateOn /\ listOn)
  /\ UNCHANGED <<listOn, userMemory, userRows, connected, writes, userNotes>>

\* An authenticated page request of a user that is not blacklisted.
ObserveUser(u) ==
  /\ Change
  /\ ~Ensured(u).banned
  /\ Saving(u, Ensured(u), "save")
  /\ UNCHANGED <<userSwitches, remarks, userRows, connected, looseRemarks>>

\* register: refused, it leaves a record in memory only.
RegisterUser(u) ==
  /\ Counting
  /\ u \notin connected
  /\ users' = [users EXCEPT ![u] = Ensured(u)]
  /\ \/ /\ ~Ensured(u).banned
        /\ connected' = connected \cup {u}
        /\ PersistUserLocked(u, Ensured(u))
     \/ /\ loose' = IF users[u] = NoRecord THEN loose \cup {u} ELSE loose
        /\ UNCHANGED <<connected, rows, faults>>
  /\ UNCHANGED <<userSwitches, remarks, remarkRows, writes, looseRemarks>>

UnregisterUser(u) ==
  /\ u \in connected
  /\ connected' = connected \ {u}
  /\ IF users[u] = NoRecord THEN UNCHANGED <<rows, loose, faults>>
                            ELSE PersistUserLocked(u, users[u])
  /\ UNCHANGED <<userSwitches, userMemory, remarkRows, writes, looseRemarks, changes>>

\* Any message of a connected user makes its record again if it was removed.
MentionUser(u) ==
  /\ u \in connected /\ users[u] = NoRecord
  /\ users' = [users EXCEPT ![u] = NewRecord]
  /\ loose' = loose \cup {u}
  /\ UNCHANGED <<userSwitches, remarks, userRows, connected, writes, looseRemarks,
                 changes, faults>>

\* The peer itself (name, avatar), while it is registered.
UpdatePeerName(u) ==
  /\ Change
  /\ u \in connected
  /\ Saving(u, [Ensured(u) EXCEPT !.renamed = ~@], "save")
  /\ UNCHANGED <<userSwitches, remarks, userRows, connected, looseRemarks>>

SetChatUserName(u) ==
  /\ Change
  /\ Saving(u, [Ensured(u) EXCEPT !.renamed = ~@], "save")
  /\ UNCHANGED <<userSwitches, remarks, userRows, connected, looseRemarks>>

\* SetChatUserBlacklisted.
BlacklistUser(u, banned) ==
  /\ Change
  /\ Saving(u, [Ensured(u) EXCEPT !.banned = banned], "ban")
  /\ connected' = IF banned THEN connected \ {u} ELSE connected
  /\ UNCHANGED <<userSwitches, remarks, userRows, looseRemarks>>

UpdatePeerRemark(o, u, given) ==
  /\ Change
  /\ o # u /\ o \in connected
  /\ Cardinality(writes) < MaxWrites
  /\ remarks' = [remarks EXCEPT ![o] = IF given THEN @ \cup {u} ELSE @ \ {u}]
  /\ writes' = writes \cup {Write("remark", o, [about |-> u, given |-> given])}
  /\ looseRemarks' = looseRemarks \cup RacingRemarks({o})
  /\ UNCHANGED <<userSwitches, users, userRows, connected, loose>>

\* The connection stays, and so do the remarks about the user.
RemoveUser(u) ==
  /\ Change
  /\ Saving(u, NoRecord, "delete")
  /\ UNCHANGED <<userSwitches, remarks, userRows, connected, looseRemarks>>

\* Everybody online starts again with an empty record.
ClearUsers ==
  /\ Change
  /\ Cardinality(writes) < MaxWrites
  /\ users' = [u \in Users |-> IF u \in connected THEN NewRecord ELSE NoRecord]
  /\ remarks' = [o \in Users |-> {}]
  /\ writes' = writes \cup {Write("clearUsers", "all", NoRecord)}
  /\ loose' = loose \cup Racing(Users, writes)
  /\ looseRemarks' = looseRemarks \cup RacingRemarks(Users)
  /\ UNCHANGED <<userSwitches, userRows, connected>>

-----------------------------------------------------------------------------
(* The database calls. *)

\* A write of u's latest record that no other one can undo any more.
Settles(w) == w.copy = users[w.who] /\ Racing({w.who}, writes \ {w}) = {}

RowWritten_KeepsOldBans(w) ==
  /\ w.kind \in {"save", "ban", "delete"}
  /\ rows' = [rows EXCEPT ![w.who] = IF w.kind = "ban" /\ ~w.copy.banned THEN @ ELSE w.copy]
  /\ writes' = writes \ {w}
  /\ loose' = IF Settles(w) THEN loose \ {w.who} ELSE loose
  /\ UNCHANGED <<userSwitches, userMemory, remarkRows, connected, looseRemarks, changes, faults>>

RowWritten(w) ==
  /\ w.kind \in {"save", "ban", "delete"}
  /\ rows' = [rows EXCEPT ![w.who] = w.copy]
  /\ writes' = writes \ {w}
  /\ loose' = IF Settles(w) THEN loose \ {w.who} ELSE loose
  /\ UNCHANGED <<userSwitches, userMemory, remarkRows, connected, looseRemarks, changes, faults>>

RemarkWritten(w) ==
  /\ w.kind = "remark"
  /\ remarkRows' = [remarkRows EXCEPT ![w.who] = IF w.copy.given THEN @ \cup {w.copy.about}
                                                                 ELSE @ \ {w.copy.about}]
  /\ writes' = writes \ {w}
  /\ UNCHANGED <<userSwitches, userMemory, rows, connected, userNotes, changes, faults>>

UserRowsCleared(w) ==
  /\ w.kind = "clearUsers"
  /\ rows' = [u \in Users |-> NoRecord]
  /\ writes' = (writes \ {w}) \cup {[w EXCEPT !.kind = "clearRemarks"]}
  /\ UNCHANGED <<userSwitches, userMemory, remarkRows, connected, userNotes, changes, faults>>

\* Then whoever is in memory by now is saved again.
RemarkRowsCleared(w) ==
  /\ w.kind = "clearRemarks"
  /\ remarkRows' = [o \in Users |-> {}]
  /\ writes' = (writes \ {w})
       \cup {[kind |-> "save", who |-> u, copy |-> users[u], number |-> w.number] :
               u \in {u \in Users : users[u] # NoRecord}}
  /\ UNCHANGED <<userSwitches, userMemory, rows, connected, userNotes, changes, faults>>

Fault == faults < MaxFaults /\ faults' = faults + 1 /\ UNCHANGED changes

WriteFails(w) ==
  /\ Fault
  /\ writes' = writes \ {w}
  /\ loose' = loose \cup {u \in Users : Touches(w, u)}
  /\ looseRemarks' = looseRemarks \cup {o \in Users : TouchesRemarks(w, o)}
  /\ UNCHANGED <<userSwitches, userMemory, userRows, connected>>

\* The rows are all that is left.
UsersRestart ==
  /\ Fault
  /\ users' = rows /\ remarks' = remarkRows
  /\ connected' = {} /\ writes' = {}
  /\ loose' = {} /\ looseRemarks' = {}
  /\ UNCHANGED <<userSwitches, userRows>>

-----------------------------------------------------------------------------
UserStep(u) ==
  \/ ObserveUser(u) \/ RegisterUser(u) \/ UnregisterUser(u) \/ MentionUser(u)
  \/ UpdatePeerName(u)
  \/ \E v \in Users, given \in BOOLEAN : UpdatePeerRemark(u, v, given)

ManagerStep ==
  \/ SetUserListEnabled \/ SetPrivateEnabled \/ ClearUsers
  \/ \E u \in Users : SetChatUserName(u) \/ RemoveUser(u)
  \/ \E u \in Users, banned \in BOOLEAN : BlacklistUser(u, banned)

WriteStep(w) ==
  RowWritten(w) \/ RemarkWritten(w) \/ UserRowsCleared(w) \/ RemarkRowsCleared(w) \/ WriteFails(w)

UsersNext ==
  \/ \E u \in Users : UserStep(u)
  \/ ManagerStep
  \/ \E w \in writes : WriteStep(w)
  \/ UsersRestart

UsersSpec == UsersInit /\ [][UsersNext]_userVars

-----------------------------------------------------------------------------
(* Properties. *)

\* Every variable has its type; no private messages without the user list,
\* and nobody connected is blacklisted.
UsersTypeOK ==
  /\ listOn \in BOOLEAN /\ privateOn \in BOOLEAN /\ (privateOn => listOn)
  /\ users \in [Users -> Records \cup {NoRecord}]
  /\ rows \in [Users -> Records \cup {NoRecord}]
  /\ remarks \in [Users -> SUBSET Users] /\ remarkRows \in [Users -> SUBSET Users]
  /\ \A u \in connected : users[u] # NoRecord => ~users[u].banned

\* A blacklisting that was saved is still there after a restart, whatever is
\* saved of that user later, as long as no two writes of the user overlap.
BlacklistOnDisk ==
  \A u \in Users \ loose :
    (/\ users[u] # NoRecord /\ users[u].banned
     /\ ~\E w \in writes : w.kind = "ban" /\ w.who = u)
      => rows[u] # NoRecord /\ rows[u].banned

\* Once its writes are through, the row of a user is its record, and the rows
\* of its remarks are its remarks, so that a restart changes nothing - unless
\* two writes overlapped (either copy may have been stored last), one failed,
\* or the record was only made in memory. And the blacklisting is there.
UsersOnDisk ==
  /\ \A u \in Users :
      /\ u \notin loose \cup Racing({u}, writes) => rows[u] = users[u]
      /\ u \notin looseRemarks \cup RacingRemarks({u}) => remarkRows[u] = remarks[u]
  /\ BlacklistOnDisk
=============================================================================
