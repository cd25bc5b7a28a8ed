--------------------------- MODULE BusinessTables ---------------------------
(***************************************************************************)
(* The users table of the database. Three buckets are mirrored into its    *)
(* rows by the transaction that writes them: accounts, profiles of the     *)
(* chat and WeChat bindings, all under the id of the account; user names   *)
(* are unique in it. Registration, login and the hub write a copy after    *)
(* unlocking, so that it may arrive when the account is gone. Copies that  *)
(* are equal count as one.                                                 *)
(***************************************************************************)
EXTENDS Naturals, FiniteSets

CONSTANTS
  Ids,      \* account ids, never used again
  Names,    \* user names
  NoName,   \* no account, no user name in the row
  NoRow,
  MaxSaves  \* bound of the model: logins, profiles and bindings saved

Row == [name : Names \cup {NoName}, account : BOOLEAN, profile : BOOLEAN, claw : BOOLEAN]

ASSUME TablesAssumption == MaxSaves \in Nat /\ NoName \notin Names /\ NoRow \notin Row

VARIABLES
  stage,           \* how far an account is in being made and deleted
  nameOf,          \* the user name an id was registered with
  taken,           \* user names in use in memory (byUsername)
  lateAccounts,    \* copies of accounts not saved yet; new: by registration
  known, named,    \* users the hub has in memory; those with a user name
  arrived, late,   \* authenticated requests; copies of profiles not saved yet
  accountKeys, profileKeys, clawKeys,  \* the buckets
  userRow,         \* the table
  saves

accountSide == <<nameOf, taken, lateAccounts>>
serverSide == <<stage, accountSide, known, named, arrived, late>>
buckets == <<accountKeys, profileKeys, clawKeys>>
tableVars == <<serverSide, buckets, userRow, saves>>

Blank == [name |-> NoName, account |-> FALSE, profile |-> FALSE, claw |-> FALSE]
RowOf(id) == IF userRow[id] = NoRow THEN Blank ELSE userRow[id]

\* users_username_idx, which ON CONFLICT(id) does not cover.
NameFree(id, name) ==
  \A other \in Ids \ {id} : userRow[other] # NoRow => userRow[other].name # name

TablesInit ==
  /\ stage = [id \in Ids |-> "unused"] /\ nameOf = [id \in Ids |-> NoName]
  /\ taken = {} /\ lateAccounts = {}
  /\ known = {} /\ named = {} /\ arrived = {} /\ late = {}
  /\ accountKeys = {} /\ profileKeys = {} /\ clawKeys = {}
  /\ userRow = [id \in Ids |-> NoRow] /\ saves = 0

To(id, next) == stage' = [stage EXCEPT ![id] = next]
Saves == saves < MaxSaves /\ saves' = saves + 1

-----------------------------------------------------------------------------
(* The server. *)

\* The account is there at once; SaveAccount comes after the lock.
Register(id, name) ==
  /\ stage[id] = "unused" /\ name \notin taken
  /\ nameOf' = [nameOf EXCEPT ![id] = name]
  /\ taken' = taken \cup {name}
  /\ lateAccounts' = lateAccounts \cup {[user |-> id, new |-> TRUE]}
  /\ To(id, "open")
  /\ UNCHANGED <<known, named, arrived, late, buckets, userRow, saves>>

\* A login copies the account, and saves the copy whether or not the account
\* is still there by then.
Login(id) ==
  /\ Saves
  /\ stage[id] = "open"
  /\ lateAccounts' = lateAccounts \cup {[user |-> id, new |-> FALSE]}
  /\ UNCHANGED <<stage, nameOf, taken, known, named, arrived, late, buckets, userRow>>

\* A page request passes the session check, and observes the user after it.
Authenticate(id) ==
  /\ stage[id] = "open"
  /\ arrived' = arrived \cup {id}
  /\ UNCHANGED <<stage, accountSide, known, named, late, buckets, userRow, saves>>

ObserveChatAccount(id) ==
  /\ Saves
  /\ id \in arrived /\ arrived' = arrived \ {id}
  /\ known' = known \cup {id} /\ named' = named \cup {id}
  /\ late' = late \cup {[user |-> id, named |-> TRUE]}
  /\ UNCHANGED <<stage, accountSide, buckets, userRow>>

Copy(id) == [user |-> id, named |-> id \in named]

\* The administrator names or blacklists a user of the list.
EditChatUser(id) ==
  /\ Saves
  /\ id \in known
  /\ late' = late \cup {Copy(id)}
  /\ UNCHANGED <<stage, accountSide, known, named, arrived, buckets, userRow>>

\* DeleteAccount frees the name in memory and deletes the row after it;
\* /__admin/account/delete ends there, /__admin/user/delete goes on to the
\* binding and the profile.
DeleteAccount(id) ==
  /\ stage[id] = "open"
  /\ To(id, "account row")
  /\ taken' = taken \ {nameOf[id]}
  /\ UNCHANGED <<nameOf, lateAccounts, known, named, arrived, late, buckets, userRow, saves>>

\* The page finds no account to delete when registration took it back.
DeleteUser(id) ==
  /\ stage[id] = "refused"
  /\ To(id, "claw row")
  /\ UNCHANGED <<accountSide, known, named, arrived, late, buckets, userRow, saves>>

RemoveChatVisitor(id) ==
  /\ stage[id] = "memory"
  /\ known' = known \ {id} /\ named' = named \ {id}
  /\ To(id, IF id \in known THEN "profile row" ELSE "deleted")
  /\ UNCHANGED <<accountSide, arrived, late, buckets, userRow, saves>>

-----------------------------------------------------------------------------
(* Transactions: the bucket and the row together, or neither. *)

PutAccount(id) ==
  /\ accountKeys' = accountKeys \cup {id}
  /\ userRow' = [userRow EXCEPT ![id] = [RowOf(id) EXCEPT !.name = nameOf[id], !.account = TRUE]]

\* Registration takes back an account that was not saved, and frees its name.
RollBack(id) ==
  /\ stage' = IF stage[id] = "open" THEN [stage EXCEPT ![id] = "refused"] ELSE stage
  /\ taken' = taken \ {nameOf[id]}

SaveAccount(copy) ==
  /\ copy \in lateAccounts /\ lateAccounts' = lateAccounts \ {copy}
  /\ \/ /\ NameFree(copy.user, nameOf[copy.user])
        /\ PutAccount(copy.user)
        /\ UNCHANGED <<stage, taken>>
     \/ /\ ~NameFree(copy.user, nameOf[copy.user])
        /\ IF copy.new THEN RollBack(copy.user) ELSE UNCHANGED <<stage, taken>>
        /\ UNCHANGED <<accountKeys, userRow>>
  /\ UNCHANGED <<nameOf, known, named, arrived, late, profileKeys, clawKeys, saves>>

\* The administrator's new status or password is saved under the lock.
SetAccount(id) ==
  /\ stage[id] = "open" /\ NameFree(id, nameOf[id])
  /\ PutAccount(id)
  /\ UNCHANGED <<serverSide, profileKeys, clawKeys, saves>>

SaveChatUser_ReplacesRow(copy) ==
  LET id == copy.user
      name == IF copy.named THEN nameOf[id] ELSE NoName
  IN
  /\ copy \in late /\ late' = late \ {copy}
  /\ profileKeys' = profileKeys \cup {id}
  /\ userRow' = [userRow EXCEPT ![id] = [Blank EXCEPT !.name = name, !.profile = TRUE]]
  /\ UNCHANGED <<stage, accountSide, known, named, arrived, accountKeys, clawKeys, saves>>

\* The row is made if there is none; a profile without a user name keeps the
\* name the row has.
SaveChatUser(copy) ==
  LET id == copy.user
      name == IF copy.named THEN nameOf[id] ELSE RowOf(id).name
  IN
  /\ copy \in late /\ late' = late \ {copy}
  /\ IF copy.named => NameFree(id, name)
       THEN /\ profileKeys' = profileKeys \cup {id}
            /\ userRow' = [userRow EXCEPT ![id] =
                             [RowOf(id) EXCEPT !.name = name, !.profile = TRUE]]
       ELSE UNCHANGED <<profileKeys, userRow>>
  /\ UNCHANGED <<stage, accountSide, known, named, arrived, accountKeys, clawKeys, saves>>

\* The monitor of a binding goes on until the binding is deleted.
SaveClawBotBinding(id) ==
  /\ Saves
  /\ stage[id] \in {"open", "refused", "account row", "claw row"}
  /\ clawKeys' = clawKeys \cup {id}
  /\ userRow' = [userRow EXCEPT ![id] = [RowOf(id) EXCEPT !.claw = TRUE]]
  /\ UNCHANGED <<serverSide, accountKeys, profileKeys>>

DeleteAccountRow(id) ==
  /\ stage[id] = "account row"
  /\ accountKeys' = accountKeys \ {id}
  /\ userRow' = [userRow EXCEPT ![id] = NoRow]
  /\ To(id, "claw row")
  /\ UNCHANGED <<accountSide, known, named, arrived, late, profileKeys, clawKeys, saves>>

\* The other two deletions blank their columns in a row that is there.
Blanked(id, column) ==
  userRow' = IF userRow[id] = NoRow THEN userRow ELSE [userRow EXCEPT ![id][column] = FALSE]

DeleteClawBotBinding(id) ==
  /\ stage[id] = "claw row"
  /\ clawKeys' = clawKeys \ {id}
  /\ Blanked(id, "claw")
  /\ To(id, "memory")
  /\ UNCHANGED <<accountSide, known, named, arrived, late, accountKeys, profileKeys, saves>>

DeleteChatUser(id) ==
  /\ stage[id] = "profile row"
  /\ profileKeys' = profileKeys \ {id}
  /\ Blanked(id, "profile")
  /\ To(id, "deleted")
  /\ UNCHANGED <<accountSide, known, named, arrived, late, accountKeys, clawKeys, saves>>

\* The hub keeps a new record, without a user name, of each connected user.
Cleared(connected) ==
  /\ Saves
  /\ connected \subseteq known
  /\ known' = connected /\ named' = {}
  /\ late' = late \cup {[user |-> id, named |-> FALSE] : id \in connected}
  /\ profileKeys' = {}
  /\ UNCHANGED <<stage, accountSide, arrived, accountKeys, clawKeys>>

\* recreateBucket with clearBusinessTable; the new records are saved after it.
ClearChatUsers(connected) ==
  /\ Cleared(connected)
  /\ userRow' = [id \in Ids |-> IF userRow[id] = NoRow THEN NoRow
                               ELSE [userRow[id] EXCEPT !.profile = FALSE]]

TableStep(id) ==
  \/ \E name \in Names : Register(id, name)
  \/ Login(id) \/ Authenticate(id) \/ ObserveChatAccount(id) \/ EditChatUser(id)
  \/ DeleteAccount(id) \/ DeleteUser(id) \/ RemoveChatVisitor(id)
  \/ SetAccount(id) \/ SaveClawBotBinding(id)
  \/ DeleteAccountRow(id) \/ DeleteClawBotBinding(id) \/ DeleteChatUser(id)

TablesNext ==
  \/ \E connected \in SUBSET Ids : ClearChatUsers(connected)
  \/ \E copy \in lateAccounts : SaveAccount(copy)
  \/ \E copy \in late : SaveChatUser(copy)
  \/ \E id \in Ids : TableStep(id)

TablesSpec == TablesInit /\ [][TablesNext]_tableVars

-----------------------------------------------------------------------------
(* Properties. *)

RowFollows(id) ==
  /\ RowOf(id).account <=> id \in accountKeys
  /\ RowOf(id).profile => id \in profileKeys
  /\ RowOf(id).claw => id \in clawKeys
  /\ id \in accountKeys => RowOf(id).name = nameOf[id]
  /\ stage[id] \in {"open", "refused", "account row"} =>
       /\ id \in profileKeys => RowOf(id).profile
       /\ id \in clawKeys => RowOf(id).claw

NamesUnique ==
  \A id, other \in Ids :
    (id # other /\ userRow[id] # NoRow /\ userRow[other] # NoRow
      /\ userRow[id].name # NoName) => userRow[id].name # userRow[other].name

\* The rows and the three buckets agree through every order of saving, clearing
\* and deleting them, and of copies that arrive late. A row shows nothing that
\* no bucket has; the row of an account has its name; a row lacks nothing until
\* the account's deletion (a copy of a login saved after that makes a row with
\* blank columns); and no two rows have one user name.
RowsFollowBuckets == (\A id \in Ids : RowFollows(id)) /\ NamesUnique

\* The administrator's page asks "permanently delete this account and its user
\* data?": when the deletion is through, and nothing more is being saved, no
\* row of the user is left.
DeletedLeavesNothing ==
  \A id \in Ids \ (arrived \cup known) :
    (stage[id] = "deleted" /\ \A copy \in late \cup lateAccounts : copy.user # id)
      => userRow[id] = NoRow
=============================================================================
