-------------------------- MODULE UserDataProofs ---------------------------
(***************************************************************************)
(* Proofs about what the database keeps of a user: BusinessTables, for     *)
(* every set of ids and of names, ChatUsers, for every set of users and    *)
(* any number of writes under way, and ClawBot, for any number of codes,   *)
(* monitors, failures and restarts.                                        *)
(***************************************************************************)
EXTENDS BusinessTables, ChatUsers, ClawBot, SubsequencesProofs, SequenceTheorems, TLAPS

-----------------------------------------------------------------------------
(* The users table. *)

Stages == {"unused", "refused", "open", "account row", "claw row", "memory",
           "profile row", "deleted"}

ServerTypeOK ==
  /\ stage \in [Ids -> Stages] /\ nameOf \in [Ids -> Names \cup {NoName}]
  /\ known \subseteq Ids /\ named \subseteq Ids /\ arrived \subseteq Ids
  /\ late \subseteq [user : Ids, named : BOOLEAN]
  /\ taken \subseteq Names /\ lateAccounts \subseteq [user : Ids, new : BOOLEAN]

StoreTypeOK ==
  /\ accountKeys \subseteq Ids /\ profileKeys \subseteq Ids /\ clawKeys \subseteq Ids
  /\ userRow \in [Ids -> Row \cup {NoRow}]

\* Nothing is known, saved or about to be saved of a user before the account is.
Fresh(id) ==
  /\ id \notin known \cup arrived \cup accountKeys \cup profileKeys \cup clawKeys
  /\ \A copy \in late \cup lateAccounts : copy.user # id
NothingTooEarly == \A id \in Ids : stage[id] = "unused" => Fresh(id)

TablesInv == ServerTypeOK /\ StoreTypeOK /\ NothingTooEarly /\ RowsFollowBuckets

-----------------------------------------------------------------------------
\* What a transaction that writes one row may do to it: the bucket and the row
\* move together, and the name is the old one or one that no other row has.
RowChanges(id, row) ==
  /\ userRow' = [userRow EXCEPT ![id] = row]
  /\ row \in Row \cup {NoRow}
  /\ row # NoRow /\ row.name # NoName => NameFree(id, row.name)

LEMMA RowOfTyped ==
  ASSUME StoreTypeOK, NEW id \in Ids
  PROVE  /\ RowOf(id) \in Row /\ Blank \in Row
         /\ userRow[id] # NoRow => RowOf(id) = userRow[id]
  BY DEF StoreTypeOK, RowOf, Blank, Row

\* The name a row has is free for it; so is that of a row just made.
LEMMA OwnNameFree ==
  ASSUME StoreTypeOK, NamesUnique, NEW id \in Ids, RowOf(id).name # NoName
  PROVE  NameFree(id, RowOf(id).name)
  BY RowOfTyped DEF NamesUnique, NameFree, RowOf, Blank

LEMMA UniqueStays ==
  ASSUME StoreTypeOK, NamesUnique, NEW id \in Ids, NEW row, RowChanges(id, row)
  PROVE  NamesUnique'
  <1>1. /\ userRow'[id] = row
        /\ \A other \in Ids : other # id => userRow'[other] = userRow[other]
      BY DEF StoreTypeOK, RowChanges
  <1> QED
      BY <1>1 DEF NamesUnique, RowChanges, NameFree

\* What a user's row, name, buckets and stage leave alone keeps the row right.
SameUser(id) ==
  /\ userRow'[id] = userRow[id] /\ nameOf'[id] = nameOf[id] /\ stage'[id] = stage[id]
  /\ id \in accountKeys' <=> id \in accountKeys
  /\ id \in profileKeys' <=> id \in profileKeys
  /\ id \in clawKeys' <=> id \in clawKeys

LEMMA SameUserFollows ==
  ASSUME NEW id \in Ids, RowFollows(id), SameUser(id)
  PROVE  RowFollows(id)'
  BY DEF RowFollows, SameUser, RowOf

\* A step that writes the row of one user only.
LEMMA OneRowKeeps ==
  ASSUME StoreTypeOK, RowsFollowBuckets, NEW id \in Ids, NEW row, RowChanges(id, row),
         RowFollows(id)', \A other \in Ids \ {id} : SameUser(other)
  PROVE  RowsFollowBuckets'
  BY UniqueStays, SameUserFollows DEF RowsFollowBuckets

\* A step that writes no row, and moves a stage within or out of those in which
\* a row must be complete.
LEMMA NoRowKeeps ==
  ASSUME RowsFollowBuckets, UNCHANGED <<buckets, userRow>>,
         \A id \in Ids : /\ id \in accountKeys => nameOf'[id] = nameOf[id]
                         /\ stage'[id] \in {"open", "refused", "account row"} =>
                              \/ stage[id] \in {"open", "refused", "account row"}
                              \/ id \notin profileKeys \cup clawKeys
  PROVE  RowsFollowBuckets'
  <1>1. ASSUME NEW id \in Ids PROVE RowFollows(id)'
      BY <1>1 DEF RowsFollowBuckets, RowFollows, RowOf, buckets
  <1> QED
      BY <1>1 DEF RowsFollowBuckets, NamesUnique

-----------------------------------------------------------------------------
\* The server's own steps write no row.
LEMMA ServerStepKeeps ==
  ASSUME TablesInv, NEW id \in Ids,
         \/ \E name \in Names : Register(id, name)
         \/ Login(id) \/ Authenticate(id) \/ ObserveChatAccount(id) \/ EditChatUser(id)
         \/ DeleteAccount(id) \/ DeleteUser(id) \/ RemoveChatVisitor(id)
  PROVE  TablesInv'
  <1> USE DEF TablesInv
  <1>1. UNCHANGED <<buckets, userRow>>
      BY DEF Register, Login, Authenticate, ObserveChatAccount, EditChatUser, DeleteAccount,
             DeleteUser, RemoveChatVisitor
  <1>2. StoreTypeOK'
      BY <1>1 DEF StoreTypeOK, buckets
  <1>3. ASSUME NEW name \in Names, Register(id, name) PROVE TablesInv'
    <2>1. /\ stage[id] = "unused" /\ Fresh(id) /\ stage' \in [Ids -> Stages]
          /\ stage'[id] = "open" /\ nameOf' \in [Ids -> Names \cup {NoName}]
          /\ \A other \in Ids : other # id => /\ stage'[other] = stage[other]
                                             /\ nameOf'[other] = nameOf[other]
          /\ UNCHANGED <<known, named, arrived, late>>
        BY <1>3 DEF Register, To, ServerTypeOK, Stages, NothingTooEarly
    <2>2. /\ lateAccounts' = lateAccounts \cup {[user |-> id, new |-> TRUE]}
          /\ taken' = taken \cup {name}
        BY <1>3 DEF Register
    <2>6. [user |-> id, new |-> TRUE] \in [user : Ids, new : BOOLEAN]
        OBVIOUS
    <2>3. ServerTypeOK'
        BY <2>1, <2>2, <2>6 DEF ServerTypeOK
    <2>4. NothingTooEarly'
        BY <1>1, <2>1, <2>2 DEF buckets, NothingTooEarly, Fresh
    <2>5. RowsFollowBuckets'
        BY <1>1, <2>1, NoRowKeeps DEF Fresh
    <2> QED
        BY <1>2, <2>3, <2>4, <2>5
  <1>4. CASE Login(id)
    <2>1. /\ stage[id] = "open" /\ UNCHANGED <<stage, nameOf, taken, known, named, arrived, late>>
          /\ lateAccounts' = lateAccounts \cup {[user |-> id, new |-> FALSE]}
        BY <1>4 DEF Login
    <2>3. [user |-> id, new |-> FALSE] \in [user : Ids, new : BOOLEAN]
        OBVIOUS
    <2>4. ServerTypeOK'
        BY <2>1, <2>3 DEF ServerTypeOK
    <2>2. NothingTooEarly'
        BY <1>1, <2>1 DEF buckets, NothingTooEarly, Fresh
    <2> QED
        BY <1>1, <1>2, <2>1, <2>2, <2>4, NoRowKeeps
  <1>5. CASE Authenticate(id)
    <2>1. ServerTypeOK' /\ NothingTooEarly'
        BY <1>1, <1>5 DEF Authenticate, accountSide, buckets, ServerTypeOK, NothingTooEarly, Fresh
    <2>2. RowsFollowBuckets'
        BY <1>1, <1>5, NoRowKeeps DEF Authenticate, accountSide
    <2> QED
        BY <1>2, <2>1, <2>2
  <1>6. CASE ObserveChatAccount(id) \/ EditChatUser(id)
    <2>4. [user |-> id, named |-> TRUE] \in [user : {id}, named : BOOLEAN]
          /\ Copy(id) \in [user : {id}, named : BOOLEAN]
        BY DEF Copy
    <2>1. /\ id \in arrived \cup known /\ UNCHANGED <<stage, accountSide>>
          /\ known' \in {known, known \cup {id}} /\ named' \in {named, named \cup {id}}
          /\ arrived' \in {arrived, arrived \ {id}}
          /\ \E copy \in [user : {id}, named : BOOLEAN] : late' = late \cup {copy}
        BY <1>6, <2>4 DEF ObserveChatAccount, EditChatUser
    <2>2. ServerTypeOK' /\ NothingTooEarly'
        BY <1>1, <2>1 DEF accountSide, buckets, ServerTypeOK, NothingTooEarly, Fresh
    <2>3. RowsFollowBuckets'
        BY <1>1, <2>1, NoRowKeeps DEF accountSide
    <2> QED
        BY <1>2, <2>2, <2>3
  <1>7. CASE DeleteAccount(id) \/ DeleteUser(id) \/ RemoveChatVisitor(id)
    <2>1. /\ stage[id] \in {"open", "refused", "memory"} /\ stage' \in [Ids -> Stages]
          /\ stage'[id] \in {"account row", "claw row", "profile row", "deleted"}
          /\ stage[id] # "open" => stage'[id] # "account row"
          /\ \A other \in Ids : other # id => stage'[other] = stage[other]
        BY <1>7 DEF DeleteAccount, DeleteUser, RemoveChatVisitor, To, ServerTypeOK, Stages
    <2>2. /\ nameOf' = nameOf /\ lateAccounts' = lateAccounts /\ arrived' = arrived
          /\ late' = late /\ taken' \subseteq taken
          /\ known' \subseteq known /\ named' \subseteq named
        BY <1>7 DEF DeleteAccount, DeleteUser, RemoveChatVisitor, accountSide
    <2>3. ServerTypeOK' /\ NothingTooEarly'
        BY <1>1, <2>1, <2>2 DEF buckets, ServerTypeOK, NothingTooEarly, Fresh
    <2>4. RowsFollowBuckets'
        BY <1>1, <2>1, <2>2, NoRowKeeps
    <2> QED
        BY <1>2, <2>3, <2>4
  <1> QED
      BY <1>3, <1>4, <1>5, <1>6, <1>7

-----------------------------------------------------------------------------
\* Transactions.
LEMMA PutAccountFollows ==
  ASSUME TablesInv, NEW id \in Ids, NameFree(id, nameOf[id]), PutAccount(id),
         UNCHANGED <<stage, nameOf, profileKeys, clawKeys>>
  PROVE  StoreTypeOK' /\ RowsFollowBuckets'
  <1> USE DEF TablesInv
  <1> DEFINE row == [RowOf(id) EXCEPT !.name = nameOf[id], !.account = TRUE]
  <1>1. nameOf[id] \in Names \cup {NoName} /\ RowOf(id) \in Row
      BY RowOfTyped DEF ServerTypeOK
  <1>2. /\ row \in Row /\ row.name = nameOf[id] /\ row.account
        /\ row.profile = RowOf(id).profile /\ row.claw = RowOf(id).claw
      BY <1>1 DEF Row
  <1>3. userRow' = [userRow EXCEPT ![id] = row] /\ accountKeys' = accountKeys \cup {id}
      BY DEF PutAccount
  <1> HIDE DEF row
  <1>4. /\ userRow'[id] = row /\ userRow'[id] # NoRow
        /\ \A other \in Ids : other # id => userRow'[other] = userRow[other]
      BY <1>2, <1>3, TablesAssumption DEF StoreTypeOK
  <1>5. RowChanges(id, row)
      BY <1>2, <1>3 DEF RowChanges
  <1>6. RowFollows(id)'
      BY <1>2, <1>3, <1>4 DEF RowsFollowBuckets, RowFollows, RowOf
  <1>7. \A other \in Ids \ {id} : SameUser(other)
      BY <1>3, <1>4 DEF SameUser
  <1>8. RowsFollowBuckets'
      BY <1>5, <1>6, <1>7, OneRowKeeps
  <1> QED
      BY <1>2, <1>3, <1>8 DEF StoreTypeOK

LEMMA SaveAccountKeeps ==
  ASSUME TablesInv, NEW copy \in lateAccounts, SaveAccount(copy)
  PROVE  TablesInv'
  <1> USE DEF TablesInv
  <1> DEFINE id == copy.user
  <1>1. /\ id \in Ids /\ stage[id] # "unused" /\ lateAccounts' \subseteq lateAccounts
        /\ UNCHANGED <<nameOf, known, named, arrived, late, profileKeys, clawKeys>>
      BY DEF SaveAccount, ServerTypeOK, NothingTooEarly, Fresh
  <1>2. CASE NameFree(id, nameOf[id])
    <2>1. PutAccount(id) /\ UNCHANGED <<stage, taken>>
        BY <1>2 DEF SaveAccount
    <2>2. accountKeys' = accountKeys \cup {id}
        BY <2>1 DEF PutAccount
    <2>3. ServerTypeOK' /\ NothingTooEarly'
        BY <1>1, <2>1, <2>2 DEF ServerTypeOK, NothingTooEarly, Fresh
    <2> QED
        BY <1>1, <1>2, <2>1, <2>3, PutAccountFollows
  <1>3. CASE ~NameFree(id, nameOf[id])
    <2>1. /\ stage' = stage \/ (stage[id] = "open" /\ stage' = [stage EXCEPT ![id] = "refused"])
          /\ taken' \subseteq taken /\ UNCHANGED <<accountKeys, userRow>>
        BY <1>3 DEF SaveAccount, RollBack
    <2>2. /\ stage' \in [Ids -> Stages]
          /\ \A other \in Ids : \/ stage'[other] = stage[other]
                                \/ stage[other] = "open" /\ stage'[other] = "refused"
        BY <2>1 DEF ServerTypeOK, Stages
    <2>3. ServerTypeOK' /\ StoreTypeOK' /\ NothingTooEarly'
        BY <1>1, <2>1, <2>2 DEF ServerTypeOK, StoreTypeOK, NothingTooEarly, Fresh
    <2>4. RowsFollowBuckets'
        BY <1>1, <2>1, <2>2, NoRowKeeps DEF buckets
    <2> QED
        BY <2>3, <2>4
  <1> QED
      BY <1>2, <1>3

LEMMA SetAccountKeeps ==
  ASSUME TablesInv, NEW id \in Ids, SetAccount(id)
  PROVE  TablesInv'
  <1> USE DEF TablesInv
  <1>1. /\ stage[id] = "open" /\ accountKeys' = accountKeys \cup {id}
        /\ UNCHANGED <<stage, nameOf, taken, lateAccounts, known, named, arrived, late,
                       profileKeys, clawKeys>>
      BY DEF SetAccount, PutAccount, serverSide, accountSide
  <1>2. ServerTypeOK' /\ NothingTooEarly'
      BY <1>1 DEF ServerTypeOK, NothingTooEarly, Fresh
  <1> QED
      BY <1>1, <1>2, PutAccountFollows DEF SetAccount

LEMMA SaveChatUserKeeps ==
  ASSUME TablesInv, NEW copy \in late, SaveChatUser(copy)
  PROVE  TablesInv'
  <1> USE DEF TablesInv
  <1> DEFINE id == copy.user
             name == IF copy.named THEN nameOf[id] ELSE RowOf(id).name
             row == [RowOf(id) EXCEPT !.name = name, !.profile = TRUE]
  <1>1. /\ id \in Ids /\ stage[id] # "unused" /\ late' \subseteq late
        /\ nameOf[id] \in Names \cup {NoName}
        /\ UNCHANGED <<stage, accountSide, known, named, arrived, accountKeys, clawKeys>>
      BY DEF SaveChatUser, ServerTypeOK, NothingTooEarly, Fresh
  <1>2. CASE copy.named => NameFree(id, name)
    <2>1. /\ row \in Row /\ row.name = name /\ row.profile = TRUE
          /\ row.account = RowOf(id).account /\ row.claw = RowOf(id).claw
        BY <1>1, RowOfTyped DEF Row
    <2>2. userRow' = [userRow EXCEPT ![id] = row] /\ profileKeys' = profileKeys \cup {id}
        BY <1>2 DEF SaveChatUser
    <2>3. row.name # NoName => NameFree(id, row.name)
        BY <1>1, <1>2, <2>1, OwnNameFree DEF RowsFollowBuckets
    <2>4. id \in accountKeys => name = nameOf[id]
        BY <1>1 DEF RowsFollowBuckets, RowFollows
    <2> HIDE DEF row, name
    <2>5. /\ userRow'[id] = row /\ userRow'[id] # NoRow
          /\ \A other \in Ids : other # id => userRow'[other] = userRow[other]
        BY <1>1, <2>1, <2>2, TablesAssumption DEF StoreTypeOK
    <2>6. RowChanges(id, row)
        BY <2>1, <2>2, <2>3 DEF RowChanges
    <2>7. RowFollows(id)'
        BY <1>1, <2>1, <2>2, <2>4, <2>5 DEF accountSide, RowsFollowBuckets, RowFollows, RowOf
    <2>8. \A other \in Ids \ {id} : SameUser(other)
        BY <1>1, <2>2, <2>5 DEF accountSide, SameUser
    <2>9. RowsFollowBuckets'
        BY <1>1, <2>6, <2>7, <2>8, OneRowKeeps
    <2>10. ServerTypeOK' /\ StoreTypeOK' /\ NothingTooEarly'
        BY <1>1, <2>1, <2>2 DEF accountSide, ServerTypeOK, StoreTypeOK, NothingTooEarly, Fresh
    <2> QED
        BY <2>9, <2>10
  <1>3. CASE ~(copy.named => NameFree(id, name))
    <2>1. UNCHANGED <<profileKeys, userRow>>
        BY <1>3 DEF SaveChatUser
    <2>2. ServerTypeOK' /\ StoreTypeOK' /\ NothingTooEarly'
        BY <1>1, <2>1 DEF accountSide, ServerTypeOK, StoreTypeOK, NothingTooEarly, Fresh
    <2>3. RowsFollowBuckets'
        BY <1>1, <2>1, NoRowKeeps DEF accountSide, buckets
    <2> QED
        BY <2>2, <2>3
  <1> QED
      BY <1>2, <1>3

LEMMA SaveBindingKeeps ==
  ASSUME TablesInv, NEW id \in Ids, SaveClawBotBinding(id)
  PROVE  TablesInv'
  <1> USE DEF TablesInv
  <1> DEFINE row == [RowOf(id) EXCEPT !.claw = TRUE]
  <1>1. /\ UNCHANGED <<serverSide, accountKeys, profileKeys>> /\ clawKeys' = clawKeys \cup {id}
        /\ userRow' = [userRow EXCEPT ![id] = row] /\ stage[id] # "unused"
      BY DEF SaveClawBotBinding
  <1>2. /\ row \in Row /\ row.name = RowOf(id).name /\ row.claw = TRUE
        /\ row.account = RowOf(id).account /\ row.profile = RowOf(id).profile
      BY RowOfTyped DEF Row
  <1>3. row.name # NoName => NameFree(id, row.name)
      BY <1>2, OwnNameFree DEF RowsFollowBuckets
  <1> HIDE DEF row
  <1>4. /\ userRow'[id] = row /\ userRow'[id] # NoRow
        /\ \A other \in Ids : other # id => userRow'[other] = userRow[other]
      BY <1>1, <1>2, TablesAssumption DEF StoreTypeOK
  <1>5. RowChanges(id, row)
      BY <1>1, <1>2, <1>3 DEF RowChanges
  <1>6. RowFollows(id)'
      BY <1>1, <1>2, <1>4 DEF serverSide, accountSide, RowsFollowBuckets, RowFollows, RowOf
  <1>7. \A other \in Ids \ {id} : SameUser(other)
      BY <1>1, <1>4 DEF serverSide, accountSide, SameUser
  <1>8. RowsFollowBuckets'
      BY <1>5, <1>6, <1>7, OneRowKeeps
  <1>9. ServerTypeOK' /\ StoreTypeOK' /\ NothingTooEarly'
      BY <1>1, <1>2 DEF serverSide, accountSide, ServerTypeOK, StoreTypeOK, NothingTooEarly, Fresh
  <1> QED
      BY <1>8, <1>9

\* Blanking a column of a user makes no row, and leaves the rest of it alone.
LEMMA BlankedKeeps ==
  ASSUME StoreTypeOK, NamesUnique, NEW id \in Ids, NEW column \in {"profile", "claw"},
         Blanked(id, column)
  PROVE  /\ userRow' \in [Ids -> Row \cup {NoRow}] /\ NamesUnique'
         /\ \A other \in Ids : other # id => userRow'[other] = userRow[other]
         /\ RowOf(id)'.name = RowOf(id).name /\ RowOf(id)'.account = RowOf(id).account
         /\ ~RowOf(id)'[column]
         /\ column = "claw" => RowOf(id)'.profile = RowOf(id).profile
         /\ column = "profile" => RowOf(id)'.claw = RowOf(id).claw
  <1>1. CASE userRow[id] = NoRow
      BY <1>1 DEF Blanked, StoreTypeOK, NamesUnique, RowOf, Blank
  <1>2. CASE userRow[id] # NoRow
    <2> DEFINE row == [userRow[id] EXCEPT ![column] = FALSE]
    <2>1. userRow' = [userRow EXCEPT ![id] = row]
        BY <1>2 DEF Blanked, StoreTypeOK
    <2>2. userRow[id] \in Row /\ RowOf(id) = userRow[id]
        BY <1>2 DEF StoreTypeOK, RowOf
    <2>3. /\ row \in Row /\ row.name = userRow[id].name /\ row.account = userRow[id].account
          /\ ~row[column]
          /\ column = "claw" => row.profile = userRow[id].profile
          /\ column = "profile" => row.claw = userRow[id].claw
        BY <2>2 DEF Row
    <2>4. row.name # NoName => NameFree(id, row.name)
        BY <1>2, <2>2, <2>3, OwnNameFree
    <2> HIDE DEF row
    <2>5. userRow'[id] = row /\ row # NoRow
        BY <2>1, <2>3, TablesAssumption DEF StoreTypeOK
    <2>6. RowOf(id)' = row
        BY <2>5 DEF RowOf
    <2> QED
        BY <2>1, <2>2, <2>3, <2>4, <2>6, UniqueStays DEF RowChanges, StoreTypeOK
  <1> QED
      BY <1>1, <1>2

LEMMA DeletionKeeps ==
  ASSUME TablesInv, NEW id \in Ids,
         DeleteAccountRow(id) \/ DeleteClawBotBinding(id) \/ DeleteChatUser(id)
  PROVE  TablesInv'
  <1> USE DEF TablesInv
  <1>1. /\ stage' \in [Ids -> Stages] /\ stage[id] \in {"account row", "claw row", "profile row"}
        /\ stage'[id] \in {"claw row", "memory", "deleted"}
        /\ \A other \in Ids : other # id => stage'[other] = stage[other]
      BY DEF DeleteAccountRow, DeleteClawBotBinding, DeleteChatUser, To, ServerTypeOK, Stages
  <1>2. UNCHANGED <<accountSide, known, named, arrived, late>>
      BY DEF DeleteAccountRow, DeleteClawBotBinding, DeleteChatUser
  <1>3. /\ accountKeys' \subseteq accountKeys
        /\ profileKeys' \subseteq profileKeys /\ clawKeys' \subseteq clawKeys
        /\ \A other \in Ids \ {id} : /\ other \in accountKeys' <=> other \in accountKeys
                                     /\ other \in profileKeys' <=> other \in profileKeys
                                     /\ other \in clawKeys' <=> other \in clawKeys
      BY DEF DeleteAccountRow, DeleteClawBotBinding, DeleteChatUser
  <1>4. /\ userRow' \in [Ids -> Row \cup {NoRow}] /\ NamesUnique' /\ RowFollows(id)'
        /\ \A other \in Ids : other # id => userRow'[other] = userRow[other]
    <2>1. CASE DeleteAccountRow(id)
      <3>1. userRow'[id] = NoRow /\ userRow' \in [Ids -> Row \cup {NoRow}] /\ id \notin accountKeys'
          BY <2>1 DEF DeleteAccountRow, StoreTypeOK
      <3>2. NamesUnique'
          BY <2>1, UniqueStays DEF DeleteAccountRow, RowChanges, RowsFollowBuckets
      <3>3. RowFollows(id)'
          BY <1>1, <3>1 DEF RowFollows, RowOf, Blank
      <3> QED
          BY <2>1, <3>1, <3>2, <3>3 DEF DeleteAccountRow, StoreTypeOK
    <2>2. CASE DeleteClawBotBinding(id)
      <3>1. /\ Blanked(id, "claw") /\ stage'[id] = "memory"
            /\ UNCHANGED <<accountKeys, profileKeys, nameOf>>
          BY <1>2, <2>2 DEF DeleteClawBotBinding, accountSide, To, ServerTypeOK
      <3>2. RowFollows(id)'
          BY <3>1, BlankedKeeps DEF RowsFollowBuckets, RowFollows
      <3> QED
          BY <3>1, <3>2, BlankedKeeps DEF RowsFollowBuckets
    <2>3. CASE DeleteChatUser(id)
      <3>1. /\ Blanked(id, "profile") /\ stage'[id] = "deleted"
            /\ UNCHANGED <<accountKeys, clawKeys, nameOf>>
          BY <1>2, <2>3 DEF DeleteChatUser, accountSide, To, ServerTypeOK
      <3>2. RowFollows(id)'
          BY <3>1, BlankedKeeps DEF RowsFollowBuckets, RowFollows
      <3> QED
          BY <3>1, <3>2, BlankedKeeps DEF RowsFollowBuckets
    <2> QED
        BY <2>1, <2>2, <2>3
  <1>5. ServerTypeOK' /\ StoreTypeOK'
      BY <1>1, <1>2, <1>3, <1>4 DEF accountSide, ServerTypeOK, StoreTypeOK
  <1>6. NothingTooEarly'
      BY <1>1, <1>2, <1>3 DEF accountSide, NothingTooEarly, Fresh
  <1>7. \A other \in Ids \ {id} : SameUser(other)
      BY <1>1, <1>2, <1>3, <1>4 DEF accountSide, SameUser
  <1>8. \A other \in Ids : RowFollows(other)'
      BY <1>4, <1>7, SameUserFollows DEF RowsFollowBuckets
  <1> QED
      BY <1>4, <1>5, <1>6, <1>8 DEF RowsFollowBuckets

LEMMA ClearKeeps ==
  ASSUME TablesInv, NEW online \in SUBSET Ids, ClearChatUsers(online)
  PROVE  TablesInv'
  <1> USE DEF TablesInv
  <1>1. /\ online \subseteq known /\ known' = online /\ named' = {} /\ profileKeys' = {}
        /\ late' = late \cup {[user |-> id, named |-> FALSE] : id \in online}
        /\ UNCHANGED <<stage, accountSide, arrived, accountKeys, clawKeys>>
      BY DEF ClearChatUsers, Cleared
  <1>2. userRow' = [id \in Ids |-> IF userRow[id] = NoRow THEN NoRow
                                   ELSE [userRow[id] EXCEPT !.profile = FALSE]]
      BY DEF ClearChatUsers
  <1>3. ASSUME NEW id \in Ids, userRow[id] # NoRow
        PROVE  /\ userRow'[id] \in Row /\ userRow'[id] # NoRow
               /\ userRow'[id].name = userRow[id].name /\ ~userRow'[id].profile
               /\ userRow'[id].account <=> userRow[id].account
               /\ userRow'[id].claw <=> userRow[id].claw
    <2>1. userRow[id] \in Row /\ userRow'[id] = [userRow[id] EXCEPT !.profile = FALSE]
        BY <1>2, <1>3 DEF StoreTypeOK
    <2> QED
        BY <2>1, TablesAssumption DEF Row
  <1>4. \A id \in Ids : userRow[id] = NoRow => userRow'[id] = NoRow
      BY <1>2
  <1>5. StoreTypeOK'
      BY <1>1, <1>2, <1>3, <1>4 DEF StoreTypeOK
  <1>6. NamesUnique'
    <2>1. ASSUME NEW id \in Ids, userRow'[id] # NoRow
          PROVE  userRow[id] # NoRow /\ userRow'[id].name = userRow[id].name
        BY <1>3, <1>4, <2>1
    <2> QED
        BY <2>1 DEF RowsFollowBuckets, NamesUnique
  <1>7. \A id \in online : [user |-> id, named |-> FALSE] \in [user : Ids, named : BOOLEAN]
      BY <1>1 DEF ServerTypeOK
  <1>8. late' \subseteq [user : Ids, named : BOOLEAN]
      BY <1>1, <1>7 DEF ServerTypeOK
  <1>9. ServerTypeOK'
      BY <1>1, <1>8 DEF accountSide, ServerTypeOK
  <1>10. NothingTooEarly'
      BY <1>1 DEF accountSide, NothingTooEarly, Fresh
  <1>11. ASSUME NEW id \in Ids PROVE RowFollows(id)'
    <2>1. CASE userRow[id] = NoRow
        BY <1>1, <1>4, <2>1 DEF accountSide, RowsFollowBuckets, RowFollows, RowOf, Blank
    <2>2. CASE userRow[id] # NoRow
        BY <1>1, <1>3, <2>2 DEF accountSide, RowsFollowBuckets, RowFollows, RowOf
    <2> QED
        BY <2>1, <2>2
  <1> QED
      BY <1>5, <1>6, <1>9, <1>10, <1>11 DEF RowsFollowBuckets

-----------------------------------------------------------------------------
LEMMA TablesInvStep == TablesInv /\ [TablesNext]_tableVars => TablesInv'
  <1> SUFFICES ASSUME TablesInv, [TablesNext]_tableVars PROVE TablesInv'
      OBVIOUS
  <1>1. CASE UNCHANGED tableVars
      BY <1>1 DEF tableVars, serverSide, accountSide, buckets, TablesInv, ServerTypeOK,
         StoreTypeOK, NothingTooEarly, Fresh, RowsFollowBuckets, RowFollows, RowOf, NamesUnique
  <1>2. ASSUME NEW id \in Ids, TableStep(id) PROVE TablesInv'
      BY <1>2, ServerStepKeeps, SetAccountKeeps, SaveBindingKeeps, DeletionKeeps DEF TableStep
  <1> QED
      BY <1>1, <1>2, ClearKeeps, SaveAccountKeeps, SaveChatUserKeeps DEF TablesNext

LEMMA TablesInvInit == TablesInit => TablesInv
  BY DEF TablesInit, TablesInv, ServerTypeOK, StoreTypeOK, Stages, NothingTooEarly, Fresh,
     RowsFollowBuckets, RowFollows, RowOf, Blank, NamesUnique

\* The buckets, the rows and the stages of every account always fit together.
THEOREM TablesCorrect == TablesSpec => []TablesInv
  BY TablesInvInit, TablesInvStep, PTL DEF TablesSpec

\* A row shows nothing that no bucket has, lacks nothing until the account is
\* deleted, and shares its user name with no other, whichever copies of
\* accounts and profiles arrive late (SaveAccount, SaveChatUser of database.go).
THEOREM RowsRightAlways == TablesSpec => []RowsFollowBuckets
  BY TablesCorrect, PTL DEF TablesInv

-----------------------------------------------------------------------------
(* User records and remarks. *)

RowKinds == {"save", "ban", "delete"}
RowRecords == Records \cup {NoRecord}
GivenRemarks == [about : Users, given : BOOLEAN]

Fields(w) == [kind |-> w.kind, who |-> w.who, copy |-> w.copy, number |-> w.number]

\* What a database call under way is about.
WriteFits(w) ==
  /\ w = Fields(w)
  /\ w.kind \in RowKinds \cup {"remark", "clearUsers", "clearRemarks"}
  /\ w.kind \in RowKinds => w.who \in Users /\ w.copy \in RowRecords
  /\ w.kind = "remark" => w.who \in Users /\ w.copy \in GivenRemarks

UsersTyped ==
  /\ UsersTypeOK
  /\ connected \subseteq Users
  /\ changes \in Nat /\ faults \in Nat
  /\ \A w \in writes : WriteFits(w)

\* The row of a user with no call that touches it is the record; a user that is
\* not loose has one such call at most, which carries the record, or clears
\* a table for a user whose record is empty.
RowTracked(u) ==
  /\ (\A w \in writes : ~Touches(w, u)) => rows[u] = users[u]
  /\ \A w \in writes :
       Touches(w, u) =>
         /\ \A v \in writes : Touches(v, u) => v = w
         /\ w.kind \in RowKinds => w.copy = users[u]
         /\ ClearingUsers(w) => users[u] \in {NoRecord, NewRecord}
         /\ w.kind = "clearRemarks" => rows[u] = NoRecord

RemarkKept(names, given) == IF given.given THEN names \cup {given.about} ELSE names \ {given.about}

\* The same of the remarks a user has made.
RemarksTracked(o) ==
  /\ (\A w \in writes : ~TouchesRemarks(w, o)) => remarkRows[o] = remarks[o]
  /\ \A w \in writes :
       TouchesRemarks(w, o) =>
         /\ \A v \in writes : TouchesRemarks(v, o) => v = w
         /\ w.kind = "remark" => remarks[o] = RemarkKept(remarkRows[o], w.copy)
         /\ ClearingUsers(w) => remarks[o] = {}

UsersInv ==
  /\ UsersTyped
  /\ \A u \in Users \ loose : RowTracked(u)
  /\ \A o \in Users \ looseRemarks : RemarksTracked(o)
  /\ BlacklistOnDisk

Banned(r) == r # NoRecord /\ r.banned

LEMMA RacingIs ==
  /\ \A x, u, calls : x \in Racing({u}, calls) <=> x = u /\ \E w \in calls : Touches(w, u)
  /\ \A x, calls : x \in Racing(Users, calls) <=> x \in Users /\ \E w \in calls : Touches(w, x)
  /\ \A x, u : x \in RacingRemarks({u}) <=> x = u /\ \E w \in writes : TouchesRemarks(w, u)
  /\ \A x : x \in RacingRemarks(Users) <=> x \in Users /\ \E w \in writes : TouchesRemarks(w, x)
  BY DEF Racing, RacingRemarks

\* The parts of UsersInv, in the words of the proofs.
LEMMA InvParts ==
  ASSUME UsersInv
  PROVE  /\ UsersTyped /\ UsersTypeOK
         /\ users \in [Users -> RowRecords] /\ rows \in [Users -> RowRecords]
         /\ remarks \in [Users -> SUBSET Users] /\ remarkRows \in [Users -> SUBSET Users]
         /\ \A u \in Users \ loose : RowTracked(u)
         /\ \A o \in Users \ looseRemarks : RemarksTracked(o)
         /\ \A u \in Users \ loose :
              Banned(users[u]) /\ (\A w \in writes : ~(w.kind = "ban" /\ w.who = u)) => Banned(rows[u])
  BY DEF UsersInv, UsersTyped, UsersTypeOK, RowRecords, BlacklistOnDisk, Banned

LEMMA BlacklistParts ==
  ASSUME \A u \in Users \ loose :
           Banned(users[u]) /\ (\A w \in writes : ~(w.kind = "ban" /\ w.who = u)) => Banned(rows[u])
  PROVE  BlacklistOnDisk
  BY DEF BlacklistOnDisk, Banned

LEMMA RecordsAre ==
  /\ NewRecord \in Records /\ NewRecord \in RowRecords /\ ~NewRecord.banned
  /\ NoRecord \in RowRecords
  /\ \A r \in Records : r \in RowRecords /\ r.banned \in BOOLEAN /\ r.renamed \in BOOLEAN
  BY DEF NewRecord, Records, RowRecords

LEMMA EnsuredIs ==
  ASSUME users \in [Users -> RowRecords], NEW u \in Users
  PROVE  /\ Ensured(u) \in Records
         /\ users[u] # NoRecord => Ensured(u) = users[u]
         /\ users[u] = NoRecord => Ensured(u) = NewRecord
  BY RecordsAre DEF Ensured, RowRecords

\* The change of a name.
Renamed(r) == [r EXCEPT !.renamed = ~@]

LEMMA RenamedIs ==
  ASSUME NEW r \in Records
  PROVE  Renamed(r) \in Records /\ (Renamed(r).banned <=> r.banned)
  BY Zenon DEF Renamed, Records

Barred(r, banned) == [r EXCEPT !.banned = banned]

LEMMA BarredIs ==
  ASSUME NEW r \in Records, NEW banned \in BOOLEAN
  PROVE  Barred(r, banned) \in Records /\ (Barred(r, banned).banned <=> banned)
  BY Zenon DEF Barred, Records

\* Neither the row nor the remarks of a user are touched by another user's call.
LEMMA WriteIs ==
  ASSUME NEW kind \in RowKinds, NEW u, NEW copy, NEW w, w = Write(kind, u, copy)
  PROVE  /\ w.kind = kind /\ w.who = u /\ w.copy = copy /\ ~ClearingUsers(w) /\ w = Fields(w)
         /\ \A x : Touches(w, x) <=> x = u
         /\ \A x : ~TouchesRemarks(w, x)
<1>1. w.kind = kind /\ w.who = u /\ w.copy = copy /\ w = Fields(w)
  BY DEF Write, Fields
<1> QED
  BY <1>1 DEF RowKinds, ClearingUsers, Touches, TouchesRemarks

\* A change whose copy is saved after unlocking keeps the rows tracked.
LEMMA SavingKeeps ==
  ASSUME UsersInv, NEW u \in Users, NEW record \in RowRecords, NEW kind \in RowKinds,
         Saving(u, record, kind), rows' = rows,
         kind # "ban" => (Banned(record) => Banned(users[u]))
  PROVE  /\ \A x \in Users \ loose' : RowTracked(x)'
         /\ BlacklistOnDisk'
         /\ users' \in [Users -> RowRecords]
         /\ \A w \in writes' : WriteFits(w)
<1>1. /\ users' \in [Users -> RowRecords] /\ users'[u] = record
      /\ \A x \in Users : x # u => users'[x] = users[x]
  BY InvParts DEF Saving
<1> DEFINE w0 == Write(kind, u, record)
<1>2. writes' = writes \cup {w0}
  BY DEF Saving
<1>3. /\ w0.kind = kind /\ w0.who = u /\ w0.copy = record /\ ~ClearingUsers(w0) /\ w0 = Fields(w0)
      /\ \A x : Touches(w0, x) <=> x = u
  BY WriteIs
<1>4. \A x : x \notin loose' => x \notin loose /\ (x = u => \A w \in writes : ~Touches(w, u))
  BY RacingIs DEF Saving
<1> HIDE DEF w0
<1>5. ASSUME NEW x \in Users \ loose' PROVE RowTracked(x)'
  <2>1. RowTracked(x)
    BY <1>4, InvParts
  <2>2. CASE x = u
    <3>1. \A w \in writes' : Touches(w, u) => w = w0
      BY <2>2, <1>2, <1>4
    <3>2. w0 \in writes' /\ Touches(w0, u) /\ w0.kind # "clearRemarks"
      BY <1>2, <1>3 DEF RowKinds
    <3>3. w0.copy = users'[u] /\ ~ClearingUsers(w0)
      BY <1>1, <1>3
    <3> QED
      BY <2>2, <3>1, <3>2, <3>3 DEF RowTracked
  <2>3. CASE x # u
    BY <2>1, <2>3, <1>1, <1>2, <1>3 DEF RowTracked
  <2> QED
    BY <2>2, <2>3
<1>6. ASSUME NEW x \in Users \ loose', Banned(users'[x]),
             \A w \in writes' : ~(w.kind = "ban" /\ w.who = x)
      PROVE  Banned(rows[x])
  <2>1. RowTracked(x)
    BY <1>4, InvParts
  <2>2. CASE x = u
    <3>1. kind # "ban" /\ Banned(users[u])
      BY <1>6, <2>2, <1>1, <1>2, <1>3
    <3>2. rows[u] = users[u]
      BY <2>1, <2>2, <1>4, <1>6 DEF RowTracked
    <3> QED
      BY <2>2, <3>1, <3>2
  <2>3. CASE x # u
    BY <2>3, <1>1, <1>2, <1>4, <1>6, InvParts
  <2> QED
    BY <2>2, <2>3
<1>7. BlacklistOnDisk'
  BY <1>6, BlacklistParts DEF BlacklistOnDisk, Banned
<1>8. \A w \in writes' : WriteFits(w)
  BY <1>2, <1>3, InvParts DEF UsersTyped, WriteFits, RowKinds
<1> QED
  BY <1>1, <1>5, <1>7, <1>8

\* Saving before unlocking keeps them tracked as well, of the record in memory.
LEMMA PersistKeeps ==
  ASSUME UsersInv, NEW u \in Users, NEW record \in RowRecords, PersistUserLocked(u, record),
         users' \in [Users -> RowRecords], users'[u] = record,
         \A x \in Users : x # u => users'[x] = users[x],
         writes' = writes
  PROVE  /\ \A x \in Users \ loose' : RowTracked(x)'
         /\ BlacklistOnDisk'
         /\ rows' \in [Users -> RowRecords]
         /\ faults' \in Nat
<1>1. CASE /\ rows' = [rows EXCEPT ![u] = record]
           /\ loose' = (loose \ {u}) \cup Racing({u}, writes)
           /\ UNCHANGED faults
  <2>1. /\ rows' \in [Users -> RowRecords] /\ rows'[u] = record
        /\ \A x \in Users : x # u => rows'[x] = rows[x]
    BY <1>1, InvParts
  <2>2. \A x : x \notin loose' => (x # u => x \notin loose) /\ (x = u => \A w \in writes : ~Touches(w, u))
    BY <1>1, RacingIs
  <2>3. ASSUME NEW x \in Users \ loose' PROVE RowTracked(x)'
    <3>1. CASE x = u
      BY <2>1, <2>2, <2>3, <3>1 DEF RowTracked
    <3>2. CASE x # u
      <4>1. RowTracked(x)
        BY <2>2, <2>3, <3>2, InvParts
      <4> QED
        BY <2>1, <2>3, <3>2, <4>1 DEF RowTracked
    <3> QED
      BY <3>1, <3>2
  <2>4. BlacklistOnDisk'
    <3>1. ASSUME NEW x \in Users \ loose', Banned(users'[x]),
                 \A w \in writes : ~(w.kind = "ban" /\ w.who = x)
          PROVE  Banned(rows'[x])
      <4>1. CASE x = u
        BY <2>1, <3>1, <4>1
      <4>2. CASE x # u
        BY <2>1, <2>2, <3>1, <4>2, InvParts
      <4> QED
        BY <4>1, <4>2
    <3> QED
      BY <3>1 DEF BlacklistOnDisk, Banned
  <2> QED
    BY <1>1, <2>1, <2>3, <2>4, InvParts DEF UsersTyped
<1>2. CASE faults' = faults + 1 /\ loose' = loose \cup {u} /\ UNCHANGED rows
  <2>1. ASSUME NEW x \in Users \ loose' PROVE RowTracked(x)'
    <3>1. RowTracked(x) /\ x # u
      BY <1>2, <2>1, InvParts
    <3> QED
      BY <1>2, <2>1, <3>1 DEF RowTracked
  <2>2. ASSUME NEW x \in Users \ loose', Banned(users'[x]),
               \A w \in writes : ~(w.kind = "ban" /\ w.who = x)
        PROVE  Banned(rows'[x])
    BY <1>2, <2>2, InvParts
  <2>3. BlacklistOnDisk'
    BY <2>2 DEF BlacklistOnDisk, Banned
  <2> QED
    BY <1>2, <2>1, <2>3, InvParts DEF UsersTyped
<1> QED
  BY <1>1, <1>2 DEF PersistUserLocked

\* Calls that touch no remarks leave the remarks tracked.
LEMMA RemarksKept ==
  ASSUME UsersInv, remarks' = remarks, remarkRows' = remarkRows, looseRemarks' = looseRemarks,
         \A o \in Users, w \in writes : TouchesRemarks(w, o) => w \in writes',
         \A o \in Users, w \in writes' : TouchesRemarks(w, o) => w \in writes
  PROVE  \A o \in Users \ looseRemarks' : RemarksTracked(o)'
<1> SUFFICES ASSUME NEW o \in Users \ looseRemarks' PROVE RemarksTracked(o)'
  OBVIOUS
<1>1. RemarksTracked(o)
  BY InvParts
<1> QED
  BY <1>1 DEF RemarksTracked

\* A copy for the rows touches no remarks.
LEMMA SavingRemarks ==
  ASSUME UsersInv, NEW u \in Users, NEW record, NEW kind \in RowKinds, Saving(u, record, kind),
         remarks' = remarks, remarkRows' = remarkRows, looseRemarks' = looseRemarks
  PROVE  \A o \in Users \ looseRemarks' : RemarksTracked(o)'
<1>1. /\ \A o \in Users, w \in writes : TouchesRemarks(w, o) => w \in writes'
      /\ \A o \in Users, w \in writes' : TouchesRemarks(w, o) => w \in writes
  BY WriteIs DEF Saving
<1> QED
  BY <1>1, RemarksKept

\* What is left of UsersInv, when records and connections are typed and nobody
\* connected is blacklisted.
LEMMA TypedAgain ==
  ASSUME UsersInv,
         userSwitches' = userSwitches \/ (listOn' \in BOOLEAN /\ privateOn' \in BOOLEAN /\ (privateOn' => listOn')),
         users' \in [Users -> RowRecords], rows' \in [Users -> RowRecords],
         remarks' \in [Users -> SUBSET Users], remarkRows' \in [Users -> SUBSET Users],
         connected' \subseteq Users, \A u \in connected' : ~Banned(users'[u]),
         changes' \in Nat, faults' \in Nat, \A w \in writes' : WriteFits(w)
  PROVE  UsersTyped'
<1>1. listOn' \in BOOLEAN /\ privateOn' \in BOOLEAN /\ (privateOn' => listOn')
  <2>1. CASE userSwitches' = userSwitches
    <3>1. listOn' = listOn /\ privateOn' = privateOn
      BY <2>1 DEF userSwitches
    <3>2. listOn \in BOOLEAN /\ privateOn \in BOOLEAN /\ (privateOn => listOn)
      BY InvParts DEF UsersTypeOK
    <3> QED
      BY <3>1, <3>2, Zenon
  <2> QED
    BY <2>1
<1>2. \A u \in connected' : users'[u] # NoRecord => ~users'[u].banned
  BY DEF Banned
<1>3. UsersTypeOK'
  BY <1>1, <1>2, Zenon DEF UsersTypeOK, RowRecords
<1> QED
  BY <1>3 DEF UsersTyped

LEMMA ChangeCounts ==
  ASSUME UsersInv
  PROVE  /\ Counting => changes' \in Nat
         /\ Change => changes' \in Nat /\ faults' \in Nat
         /\ Fault => changes' \in Nat /\ faults' \in Nat
  BY InvParts DEF Counting, Change, Fault, UsersTyped

LEMMA SwitchesKeep ==
  ASSUME UsersInv, SetUserListEnabled \/ SetPrivateEnabled
  PROVE  UsersInv'
<1>1. listOn \in BOOLEAN /\ privateOn \in BOOLEAN /\ (privateOn => listOn)
  BY InvParts DEF UsersTypeOK
<1>2. listOn' \in BOOLEAN /\ privateOn' \in BOOLEAN /\ (privateOn' => listOn')
  <2>1. CASE SetUserListEnabled
    BY <1>1, <2>1, Zenon DEF SetUserListEnabled
  <2>2. CASE SetPrivateEnabled
    BY <1>1, <2>2, Zenon DEF SetPrivateEnabled
  <2> QED
    BY <2>1, <2>2
<1>3. /\ users' = users /\ remarks' = remarks /\ rows' = rows /\ remarkRows' = remarkRows
      /\ connected' = connected /\ writes' = writes /\ loose' = loose
      /\ looseRemarks' = looseRemarks /\ Change
  BY DEF SetUserListEnabled, SetPrivateEnabled, userMemory, userRows, userNotes
<1>4. UsersTyped'
  <2>1. \A u \in connected : ~Banned(users[u])
    BY InvParts DEF UsersTypeOK, Banned
  <2> QED
    BY <1>2, <1>3, <2>1, TypedAgain, ChangeCounts, InvParts DEF UsersTyped
<1>5. \A u \in Users \ loose' : RowTracked(u)'
  BY <1>3, InvParts DEF RowTracked
<1>6. \A o \in Users \ looseRemarks' : RemarksTracked(o)'
  BY <1>3, RemarksKept
<1>7. BlacklistOnDisk'
  BY <1>3 DEF UsersInv, BlacklistOnDisk
<1> QED
  BY <1>4, <1>5, <1>6, <1>7 DEF UsersInv

\* The handlers that save a copy after unlocking, at once.
LEMMA HandlersSave ==
  ASSUME UsersInv, NEW u \in Users, NEW record \in RowRecords, NEW kind \in RowKinds,
         Change, Saving(u, record, kind), rows' = rows, remarkRows' = remarkRows,
         remarks' = remarks, looseRemarks' = looseRemarks, userSwitches' = userSwitches,
         connected' \subseteq connected, u \in connected' => ~Banned(record),
         kind # "ban" => (Banned(record) => Banned(users[u]))
  PROVE  UsersInv'
<1>1. \A x \in connected' : ~Banned(users'[x])
  <2>1. users' = [users EXCEPT ![u] = record]
    BY DEF Saving
  <2>2. \A x \in connected : x \in Users /\ ~Banned(users[x])
    BY InvParts DEF UsersTyped, UsersTypeOK, Banned
  <2> QED
    BY <2>1, <2>2, InvParts
<1>2. connected' \subseteq Users
  BY InvParts DEF UsersTyped
<1>3. UsersTyped'
  BY <1>1, <1>2, SavingKeeps, TypedAgain, ChangeCounts, InvParts
<1> QED
  BY <1>3, SavingKeeps, SavingRemarks DEF UsersInv

LEMMA ObserveKeeps ==
  ASSUME UsersInv, NEW u \in Users, ObserveUser(u)
  PROVE  UsersInv'
<1>1. /\ Change /\ Saving(u, Ensured(u), "save") /\ ~Ensured(u).banned
      /\ rows' = rows /\ remarkRows' = remarkRows /\ remarks' = remarks
      /\ looseRemarks' = looseRemarks /\ userSwitches' = userSwitches /\ connected' = connected
  BY DEF ObserveUser, userRows, userSwitches
<1>2. Ensured(u) \in RowRecords /\ ~Banned(Ensured(u))
  BY <1>1, EnsuredIs, RecordsAre, InvParts DEF Banned
<1> QED
  BY <1>1, <1>2, HandlersSave DEF RowKinds

LEMMA RenamingKeeps ==
  ASSUME UsersInv, NEW u \in Users, UpdatePeerName(u) \/ SetChatUserName(u)
  PROVE  UsersInv'
<1>1. /\ Change /\ Saving(u, Renamed(Ensured(u)), "save")
      /\ rows' = rows /\ remarkRows' = remarkRows /\ remarks' = remarks
      /\ looseRemarks' = looseRemarks /\ userSwitches' = userSwitches /\ connected' = connected
  BY DEF UpdatePeerName, SetChatUserName, userRows, userSwitches, Renamed
<1>2. /\ Ensured(u) \in Records /\ Renamed(Ensured(u)) \in Records
      /\ Renamed(Ensured(u)).banned <=> Ensured(u).banned
  BY EnsuredIs, RenamedIs, InvParts
<1>3. Banned(Renamed(Ensured(u))) => Banned(users[u])
  BY <1>2, EnsuredIs, RecordsAre, InvParts DEF Banned
<1>4. u \in connected => ~Banned(users[u])
  BY InvParts DEF UsersTypeOK, Banned
<1>5. Renamed(Ensured(u)) \in RowRecords
  BY <1>2, RecordsAre
<1> QED
  BY <1>1, <1>3, <1>4, <1>5, HandlersSave DEF RowKinds

LEMMA BlacklistKeeps ==
  ASSUME UsersInv, NEW u \in Users, NEW banned \in BOOLEAN, BlacklistUser(u, banned)
  PROVE  UsersInv'
<1>1. /\ Change /\ Saving(u, Barred(Ensured(u), banned), "ban")
      /\ rows' = rows /\ remarkRows' = remarkRows /\ remarks' = remarks
      /\ looseRemarks' = looseRemarks /\ userSwitches' = userSwitches
      /\ connected' \subseteq connected /\ (banned => u \notin connected')
  BY DEF BlacklistUser, userRows, userSwitches, Barred
<1>2. /\ Barred(Ensured(u), banned) \in RowRecords
      /\ Barred(Ensured(u), banned).banned <=> banned
  BY EnsuredIs, BarredIs, RecordsAre, InvParts
<1>3. u \in connected' => ~Banned(Barred(Ensured(u), banned))
  BY <1>1, <1>2 DEF Banned
<1> QED
  BY <1>1, <1>2, <1>3, HandlersSave DEF RowKinds

LEMMA RemoveKeeps ==
  ASSUME UsersInv, NEW u \in Users, RemoveUser(u)
  PROVE  UsersInv'
<1>1. /\ Change /\ Saving(u, NoRecord, "delete")
      /\ rows' = rows /\ remarkRows' = remarkRows /\ remarks' = remarks
      /\ looseRemarks' = looseRemarks /\ userSwitches' = userSwitches /\ connected' = connected
  BY DEF RemoveUser, userRows, userSwitches
<1>2. ~Banned(NoRecord)
  BY DEF Banned
<1> QED
  BY <1>1, <1>2, RecordsAre, HandlersSave DEF RowKinds

LEMMA RegisterKeeps ==
  ASSUME UsersInv, NEW u \in Users, RegisterUser(u)
  PROVE  UsersInv'
<1>1. /\ Counting /\ users' = [users EXCEPT ![u] = Ensured(u)] /\ writes' = writes
      /\ remarks' = remarks /\ remarkRows' = remarkRows /\ looseRemarks' = looseRemarks
      /\ userSwitches' = userSwitches
  BY DEF RegisterUser, userSwitches
<1>2. Ensured(u) \in RowRecords /\ (users[u] # NoRecord => Ensured(u) = users[u])
  BY EnsuredIs, RecordsAre, InvParts
<1>3. /\ users' \in [Users -> RowRecords] /\ users'[u] = Ensured(u)
      /\ \A x \in Users : x # u => users'[x] = users[x]
  BY <1>1, <1>2, InvParts
<1>4. \A o \in Users \ looseRemarks' : RemarksTracked(o)'
  BY <1>1, RemarksKept
<1>5. \A x \in connected : x \in Users /\ ~Banned(users[x])
  BY InvParts DEF UsersTyped, UsersTypeOK, Banned
<1>6. CASE ~Ensured(u).banned /\ connected' = connected \cup {u} /\ PersistUserLocked(u, Ensured(u))
  <2>1. /\ \A x \in Users \ loose' : RowTracked(x)'
        /\ BlacklistOnDisk'
        /\ rows' \in [Users -> RowRecords]
        /\ faults' \in Nat
    BY <1>1, <1>2, <1>3, <1>6, PersistKeeps
  <2>2. connected' \subseteq Users /\ \A x \in connected' : ~Banned(users'[x])
    BY <1>3, <1>5, <1>6 DEF Banned
  <2>3. UsersTyped'
    BY <1>1, <1>3, <2>1, <2>2, TypedAgain, ChangeCounts, InvParts DEF UsersTyped
  <2> QED
    BY <1>4, <2>1, <2>3 DEF UsersInv
<1>7. CASE /\ loose' = IF users[u] = NoRecord THEN loose \cup {u} ELSE loose
           /\ UNCHANGED <<connected, rows, faults>>
  <2>1. \A x \in Users \ loose' : x \in Users \ loose /\ users'[x] = users[x]
    BY <1>2, <1>3, <1>7
  <2>2. ASSUME NEW x \in Users \ loose' PROVE RowTracked(x)'
    <3>1. RowTracked(x)
      BY <2>1, InvParts
    <3> QED
      BY <1>1, <1>7, <2>1, <3>1 DEF RowTracked
  <2>3. BlacklistOnDisk'
    <3>1. ASSUME NEW x \in Users \ loose', Banned(users'[x]),
                 \A w \in writes : ~(w.kind = "ban" /\ w.who = x)
          PROVE  Banned(rows'[x])
      BY <1>7, <2>1, <3>1, InvParts
    <3> QED
      BY <1>1, <3>1 DEF BlacklistOnDisk, Banned
  <2>4. \A x \in connected' : ~Banned(users'[x])
    <3>1. ASSUME NEW x \in connected PROVE ~Banned(users'[x])
      <4>1. CASE users'[x] = users[x]
        BY <1>5, <3>1, <4>1
      <4>2. CASE x = u /\ users'[x] = NewRecord
        BY <4>2, RecordsAre DEF Banned
      <4> QED
        BY <1>2, <1>3, <1>5, <3>1, <4>1, <4>2, EnsuredIs, InvParts
    <3> QED
      BY <1>7, <3>1
  <2>5. UsersTyped'
    BY <1>1, <1>3, <1>5, <1>7, <2>4, TypedAgain, ChangeCounts, InvParts DEF UsersTyped
  <2> QED
    BY <1>4, <2>2, <2>3, <2>5 DEF UsersInv
<1> QED
  BY <1>6, <1>7 DEF RegisterUser

LEMMA UnregisterKeeps ==
  ASSUME UsersInv, NEW u \in Users, UnregisterUser(u)
  PROVE  UsersInv'
<1>1. /\ users' = users /\ writes' = writes /\ changes' = changes
      /\ remarks' = remarks /\ remarkRows' = remarkRows /\ looseRemarks' = looseRemarks
      /\ userSwitches' = userSwitches /\ connected' \subseteq connected
  BY DEF UnregisterUser, userSwitches, userMemory
<1>2. connected' \subseteq Users /\ \A x \in connected' : ~Banned(users[x])
  BY <1>1, InvParts DEF UsersTyped, UsersTypeOK, Banned
<1>3. \A o \in Users \ looseRemarks' : RemarksTracked(o)'
  BY <1>1, RemarksKept
<1>4. /\ \A x \in Users \ loose' : RowTracked(x)'
      /\ BlacklistOnDisk'
      /\ rows' \in [Users -> RowRecords]
      /\ faults' \in Nat
  <2>1. CASE PersistUserLocked(u, users[u])
    BY <1>1, <2>1, PersistKeeps, InvParts
  <2>2. CASE UNCHANGED <<rows, loose, faults>>
    <3>1. rows' = rows /\ loose' = loose /\ faults' = faults
      BY <2>2
    <3>2. \A x \in Users \ loose' : RowTracked(x)'
      BY <1>1, <3>1, InvParts DEF RowTracked
    <3>3. BlacklistOnDisk'
      BY <1>1, <3>1 DEF UsersInv, BlacklistOnDisk
    <3> QED
      BY <3>1, <3>2, <3>3, InvParts DEF UsersTyped
  <2> QED
    BY <2>1, <2>2 DEF UnregisterUser
<1>5. UsersTyped'
  BY <1>1, <1>2, <1>4, TypedAgain, InvParts DEF UsersTyped
<1> QED
  BY <1>3, <1>4, <1>5 DEF UsersInv

LEMMA MentionKeeps ==
  ASSUME UsersInv, NEW u \in Users, MentionUser(u)
  PROVE  UsersInv'
<1>1. /\ users' = [users EXCEPT ![u] = NewRecord] /\ loose' = loose \cup {u}
      /\ rows' = rows /\ writes' = writes /\ changes' = changes /\ faults' = faults
      /\ remarks' = remarks /\ remarkRows' = remarkRows /\ looseRemarks' = looseRemarks
      /\ userSwitches' = userSwitches /\ connected' = connected
  BY DEF MentionUser, userSwitches, userRows
<1>2. users' \in [Users -> RowRecords] /\ \A x \in Users : users'[x] = IF x = u THEN NewRecord ELSE users[x]
  BY <1>1, RecordsAre, InvParts
<1>3. ASSUME NEW x \in Users \ loose' PROVE RowTracked(x)'
  <2>1. RowTracked(x) /\ users'[x] = users[x]
    BY <1>1, <1>2, <1>3, InvParts
  <2> QED
    BY <1>1, <2>1 DEF RowTracked
<1>4. BlacklistOnDisk'
  <2>1. ASSUME NEW x \in Users \ loose', Banned(users'[x]),
               \A w \in writes : ~(w.kind = "ban" /\ w.who = x)
        PROVE  Banned(rows'[x])
    BY <1>1, <1>2, <2>1, InvParts
  <2> QED
    BY <1>1, <2>1 DEF BlacklistOnDisk, Banned
<1>5. UsersTyped'
  <2>1. \A x \in connected : x \in Users /\ ~Banned(users[x])
    BY InvParts DEF UsersTyped, UsersTypeOK, Banned
  <2>2. ~Banned(NewRecord)
    BY RecordsAre DEF Banned
  <2>3. \A x \in connected : ~Banned(users'[x])
    BY <1>2, <2>1, <2>2
  <2> QED
    BY <1>1, <1>2, <2>1, <2>3, TypedAgain, InvParts DEF UsersTyped
<1>6. \A o \in Users \ looseRemarks' : RemarksTracked(o)'
  BY <1>1, RemarksKept
<1> QED
  BY <1>3, <1>4, <1>5, <1>6 DEF UsersInv

\* A remark touches no row.
LEMMA RemarkIs ==
  ASSUME NEW o, NEW copy, NEW w, w = Write("remark", o, copy)
  PROVE  /\ w.kind = "remark" /\ w.who = o /\ w.copy = copy
         /\ \A x : ~Touches(w, x)
         /\ \A x : TouchesRemarks(w, x) <=> x = o
         /\ ~ClearingUsers(w) /\ w = Fields(w)
<1>1. w.kind = "remark" /\ w.who = o /\ w.copy = copy /\ w = Fields(w)
  BY DEF Write, Fields
<1> QED
  BY <1>1 DEF ClearingUsers, Touches, TouchesRemarks

\* Calls that touch no row leave the rows tracked.
LEMMA RowsKept ==
  ASSUME UsersInv, users' = users, rows' = rows, loose' = loose,
         \A u \in Users, w \in writes : Touches(w, u) => w \in writes',
         \A u \in Users, w \in writes' : Touches(w, u) => w \in writes
  PROVE  /\ \A u \in Users \ loose' : RowTracked(u)'
         /\ BlacklistOnDisk'
<1>1. ASSUME NEW u \in Users \ loose' PROVE RowTracked(u)'
  <2>1. RowTracked(u)
    BY <1>1, InvParts
  <2> QED
    BY <1>1, <2>1 DEF RowTracked
<1>2. \A u \in Users, w \in writes : w.kind = "ban" /\ w.who = u => Touches(w, u)
  BY DEF Touches
<1>3. BlacklistOnDisk'
  BY <1>2 DEF UsersInv, BlacklistOnDisk
<1> QED
  BY <1>1, <1>3

LEMMA PeerRemarkKeeps ==
  ASSUME UsersInv, NEW o \in Users, NEW u \in Users, NEW given \in BOOLEAN,
         UpdatePeerRemark(o, u, given)
  PROVE  UsersInv'
<1> DEFINE copy == [about |-> u, given |-> given]
           w0 == Write("remark", o, copy)
<1>1. /\ Change /\ writes' = writes \cup {w0}
      /\ remarks' = [remarks EXCEPT ![o] = IF given THEN @ \cup {u} ELSE @ \ {u}]
      /\ looseRemarks' = looseRemarks \cup RacingRemarks({o})
      /\ users' = users /\ rows' = rows /\ remarkRows' = remarkRows /\ connected' = connected
      /\ loose' = loose /\ userSwitches' = userSwitches
  BY DEF UpdatePeerRemark, userRows, userSwitches
<1>2. copy \in GivenRemarks /\ copy.about = u /\ copy.given = given
  BY DEF GivenRemarks
<1>3. /\ w0.kind = "remark" /\ w0.who = o /\ w0.copy = copy
      /\ \A x : ~Touches(w0, x)
      /\ \A x : TouchesRemarks(w0, x) <=> x = o
      /\ ~ClearingUsers(w0) /\ w0 = Fields(w0)
  BY RemarkIs
<1>4. /\ remarks' \in [Users -> SUBSET Users] /\ remarks'[o] = RemarkKept(remarks[o], copy)
      /\ \A x \in Users : x # o => remarks'[x] = remarks[x]
  <2>1. (IF given THEN remarks[o] \cup {u} ELSE remarks[o] \ {u}) = RemarkKept(remarks[o], copy)
    BY <1>2 DEF RemarkKept
  <2>2. RemarkKept(remarks[o], copy) \in SUBSET Users
    BY <2>1, InvParts
  <2> HIDE DEF copy
  <2>3. remarks' = [remarks EXCEPT ![o] = RemarkKept(remarks[o], copy)]
    BY <1>1, <2>1
  <2> QED
    BY <2>2, <2>3, InvParts
<1>5. \A x : x \notin looseRemarks' => x \notin looseRemarks /\ (x = o => \A w \in writes : ~TouchesRemarks(w, o))
  BY <1>1, RacingIs
<1> HIDE DEF w0, copy
<1>6. ASSUME NEW x \in Users \ looseRemarks' PROVE RemarksTracked(x)'
  <2>1. RemarksTracked(x)
    BY <1>5, InvParts
  <2>2. CASE x = o
    <3>1. remarkRows[o] = remarks[o]
      BY <1>5, <1>6, <2>1, <2>2 DEF RemarksTracked
    <3>2. \A w \in writes' : TouchesRemarks(w, o) => w = w0
      BY <1>1, <1>5, <1>6, <2>2
    <3>3. remarks'[o] = RemarkKept(remarkRows'[o], w0.copy) /\ w0 \in writes' /\ TouchesRemarks(w0, o)
      BY <1>1, <1>3, <1>4, <3>1
    <3> QED
      BY <1>3, <2>2, <3>2, <3>3 DEF RemarksTracked
  <2>3. CASE x # o
    BY <1>1, <1>3, <1>4, <2>1, <2>3 DEF RemarksTracked
  <2> QED
    BY <2>2, <2>3
<1>7. (\A x \in Users \ loose' : RowTracked(x)') /\ BlacklistOnDisk'
  <2>1. /\ \A x \in Users, w \in writes : Touches(w, x) => w \in writes'
        /\ \A x \in Users, w \in writes' : Touches(w, x) => w \in writes
    BY <1>1, <1>3
  <2> QED
    BY <1>1, <2>1, RowsKept
<1>8. UsersTyped'
  <2>1. \A w \in writes' : WriteFits(w)
    BY <1>1, <1>2, <1>3, InvParts DEF UsersTyped, WriteFits, RowKinds
  <2>2. \A x \in connected : x \in Users /\ ~Banned(users[x])
    BY InvParts DEF UsersTyped, UsersTypeOK, Banned
  <2> QED
    BY <1>1, <1>4, <2>1, <2>2, TypedAgain, ChangeCounts, InvParts
<1> QED
  BY <1>6, <1>7, <1>8 DEF UsersInv

LEMMA ClearIs ==
  ASSUME NEW kind \in {"clearUsers", "clearRemarks"}, NEW who, NEW copy, NEW w, w = Write(kind, who, copy)
  PROVE  /\ w.kind = kind /\ ClearingUsers(w) /\ w.kind \notin RowKinds /\ w.kind # "remark"
         /\ \A x : Touches(w, x) /\ TouchesRemarks(w, x)
         /\ w = Fields(w)
<1>1. w.kind = kind /\ w = Fields(w)
  BY DEF Write, Fields
<1> QED
  BY <1>1 DEF ClearingUsers, Touches, TouchesRemarks, RowKinds

LEMMA ClearUsersKeeps ==
  ASSUME UsersInv, ClearUsers
  PROVE  UsersInv'
<1> DEFINE w0 == Write("clearUsers", "all", NoRecord)
<1>1. /\ Change /\ writes' = writes \cup {w0}
      /\ users' = [u \in Users |-> IF u \in connected THEN NewRecord ELSE NoRecord]
      /\ remarks' = [o \in Users |-> {}]
      /\ loose' = loose \cup Racing(Users, writes)
      /\ looseRemarks' = looseRemarks \cup RacingRemarks(Users)
      /\ rows' = rows /\ remarkRows' = remarkRows /\ connected' = connected
      /\ userSwitches' = userSwitches
  BY DEF ClearUsers, userRows, userSwitches
<1>2. /\ w0.kind = "clearUsers" /\ ClearingUsers(w0) /\ w0.kind \notin RowKinds /\ w0.kind # "remark"
      /\ \A x : Touches(w0, x) /\ TouchesRemarks(w0, x)
      /\ w0 = Fields(w0)
  BY ClearIs
<1> HIDE DEF w0
<1>3. /\ users' \in [Users -> RowRecords]
      /\ \A u \in Users : users'[u] \in {NoRecord, NewRecord} /\ ~Banned(users'[u])
  BY <1>1, RecordsAre DEF Banned
<1>4. remarks' \in [Users -> SUBSET Users] /\ \A o \in Users : remarks'[o] = {}
  BY <1>1
<1>5. ASSUME NEW u \in Users \ loose' PROVE RowTracked(u)'
  <2>1. \A w \in writes : ~Touches(w, u)
    BY <1>1, <1>5, RacingIs
  <2>2. \A w \in writes' : Touches(w, u) => w = w0
    BY <1>1, <2>1
  <2>3. w0 \in writes' /\ Touches(w0, u) /\ w0.kind # "clearRemarks"
    BY <1>1, <1>2
  <2> QED
    BY <1>2, <1>3, <2>2, <2>3 DEF RowTracked
<1>6. ASSUME NEW o \in Users \ looseRemarks' PROVE RemarksTracked(o)'
  <2>1. \A w \in writes' : TouchesRemarks(w, o) => w = w0
    BY <1>1, <1>6, RacingIs
  <2>2. w0 \in writes' /\ TouchesRemarks(w0, o)
    BY <1>1, <1>2
  <2> QED
    BY <1>2, <1>4, <2>1, <2>2 DEF RemarksTracked
<1>7. BlacklistOnDisk'
  BY <1>3 DEF BlacklistOnDisk, Banned
<1>8. UsersTyped'
  <2>1. \A w \in writes' : WriteFits(w)
    BY <1>1, <1>2, InvParts DEF UsersTyped, WriteFits
  <2>2. connected \subseteq Users
    BY InvParts DEF UsersTyped
  <2> QED
    BY <1>1, <1>3, <1>4, <2>1, <2>2, TypedAgain, ChangeCounts, InvParts
<1> QED
  BY <1>5, <1>6, <1>7, <1>8 DEF UsersInv

\* Who is connected, as far as a step leaves records and connections alone.
LEMMA SameMemory ==
  ASSUME UsersInv, users' = users, connected' = connected
  PROVE  connected' \subseteq Users /\ \A x \in connected' : ~Banned(users'[x])
  BY InvParts DEF UsersTyped, UsersTypeOK, Banned

LEMMA RowWrittenKeeps ==
  ASSUME UsersInv, NEW w \in writes, RowWritten(w)
  PROVE  UsersInv'
<1>1. /\ w.kind \in RowKinds /\ rows' = [rows EXCEPT ![w.who] = w.copy]
      /\ writes' = writes \ {w}
      /\ loose' = IF Settles(w) THEN loose \ {w.who} ELSE loose
      /\ users' = users /\ remarks' = remarks /\ remarkRows' = remarkRows
      /\ connected' = connected /\ looseRemarks' = looseRemarks /\ changes' = changes
      /\ faults' = faults /\ userSwitches' = userSwitches
  BY DEF RowWritten, userSwitches, userMemory, RowKinds
<1>2. /\ w.who \in Users /\ w.copy \in RowRecords
      /\ \A x : Touches(w, x) <=> x = w.who
      /\ \A x : ~TouchesRemarks(w, x)
  BY <1>1, InvParts DEF UsersTyped, WriteFits, RowKinds, Touches, TouchesRemarks, ClearingUsers
<1>3. /\ rows' \in [Users -> RowRecords] /\ rows'[w.who] = w.copy
      /\ \A x \in Users : x # w.who => rows'[x] = rows[x]
  BY <1>1, <1>2, InvParts
\* Whose row was written is the record now, or its user is loose.
<1>4. w.who \notin loose' => w.copy = users[w.who] /\ \A v \in writes' : ~Touches(v, w.who)
  <2>1. CASE Settles(w)
    BY <1>1, <2>1, RacingIs DEF Settles
  <2>2. CASE ~Settles(w)
    <3> SUFFICES ASSUME w.who \notin loose'
                 PROVE  w.copy = users[w.who] /\ \A v \in writes' : ~Touches(v, w.who)
      OBVIOUS
    <3>1. RowTracked(w.who)
      BY <1>1, <1>2, <2>2, InvParts
    <3> QED
      BY <1>1, <1>2, <3>1 DEF RowTracked
  <2> QED
    BY <2>1, <2>2
<1>5. ASSUME NEW x \in Users \ loose' PROVE RowTracked(x)'
  <2>1. CASE x = w.who
    BY <1>1, <1>3, <1>4, <1>5, <2>1 DEF RowTracked
  <2>2. CASE x # w.who
    <3>1. RowTracked(x)
      BY <1>1, <1>5, <2>2, InvParts
    <3> QED
      BY <1>1, <1>2, <1>3, <1>5, <2>2, <3>1 DEF RowTracked
  <2> QED
    BY <2>1, <2>2
<1>6. BlacklistOnDisk'
  <2>1. ASSUME NEW x \in Users \ loose', Banned(users'[x]),
               \A v \in writes' : ~(v.kind = "ban" /\ v.who = x)
        PROVE  Banned(rows'[x])
    <3>1. CASE x = w.who
      BY <1>1, <1>3, <1>4, <2>1, <3>1
    <3>2. CASE x # w.who
      <4>1. x \in Users \ loose /\ \A v \in writes : ~(v.kind = "ban" /\ v.who = x)
        BY <1>1, <2>1, <3>2
      <4> QED
        BY <1>1, <1>3, <2>1, <3>2, <4>1, InvParts
    <3> QED
      BY <3>1, <3>2
  <2> QED
    BY <2>1 DEF BlacklistOnDisk, Banned
<1>7. \A o \in Users \ looseRemarks' : RemarksTracked(o)'
  BY <1>1, <1>2, RemarksKept
<1>8. UsersTyped'
  BY <1>1, <1>3, SameMemory, TypedAgain, InvParts DEF UsersTyped
<1> QED
  BY <1>5, <1>6, <1>7, <1>8 DEF UsersInv

LEMMA RemarkWrittenKeeps ==
  ASSUME UsersInv, NEW w \in writes, RemarkWritten(w)
  PROVE  UsersInv'
<1>1. /\ w.kind = "remark"
      /\ remarkRows' = [remarkRows EXCEPT ![w.who] = RemarkKept(remarkRows[w.who], w.copy)]
      /\ writes' = writes \ {w} /\ loose' = loose
      /\ users' = users /\ remarks' = remarks /\ rows' = rows
      /\ connected' = connected /\ looseRemarks' = looseRemarks /\ changes' = changes
      /\ faults' = faults /\ userSwitches' = userSwitches
  BY DEF RemarkWritten, userSwitches, userMemory, userNotes, RemarkKept
<1>2. /\ w.who \in Users /\ w.copy \in GivenRemarks
      /\ \A x : ~Touches(w, x)
      /\ \A x : TouchesRemarks(w, x) <=> x = w.who
      /\ ~ClearingUsers(w)
  BY <1>1, InvParts DEF UsersTyped, WriteFits, Touches, TouchesRemarks, ClearingUsers
<1>3. /\ remarkRows' \in [Users -> SUBSET Users]
      /\ remarkRows'[w.who] = RemarkKept(remarkRows[w.who], w.copy)
      /\ \A x \in Users : x # w.who => remarkRows'[x] = remarkRows[x]
  <2>1. RemarkKept(remarkRows[w.who], w.copy) \in SUBSET Users
    BY <1>2, InvParts DEF RemarkKept, GivenRemarks
  <2> QED
    BY <1>1, <1>2, <2>1, InvParts
<1>4. ASSUME NEW x \in Users \ looseRemarks' PROVE RemarksTracked(x)'
  <2>1. RemarksTracked(x)
    BY <1>1, <1>4, InvParts
  <2>2. CASE x = w.who
    <3>1. \A v \in writes' : ~TouchesRemarks(v, x)
      BY <1>1, <1>2, <2>1, <2>2 DEF RemarksTracked
    <3>2. remarkRows'[x] = remarks'[x]
      BY <1>1, <1>2, <1>3, <2>1, <2>2 DEF RemarksTracked
    <3> QED
      BY <3>1, <3>2 DEF RemarksTracked
  <2>3. CASE x # w.who
    BY <1>1, <1>2, <1>3, <2>1, <2>3 DEF RemarksTracked
  <2> QED
    BY <2>2, <2>3
<1>5. (\A x \in Users \ loose' : RowTracked(x)') /\ BlacklistOnDisk'
  BY <1>1, <1>2, RowsKept
<1>6. UsersTyped'
  BY <1>1, <1>3, SameMemory, TypedAgain, InvParts DEF UsersTyped
<1> QED
  BY <1>4, <1>5, <1>6 DEF UsersInv

ClearsRemarks(w) == [w EXCEPT !.kind = "clearRemarks"]

LEMMA RowsClearedKeeps ==
  ASSUME UsersInv, NEW w \in writes, UserRowsCleared(w)
  PROVE  UsersInv'
<1> DEFINE w0 == ClearsRemarks(w)
<1>1. /\ w.kind = "clearUsers" /\ rows' = [u \in Users |-> NoRecord]
      /\ writes' = (writes \ {w}) \cup {w0} /\ loose' = loose
      /\ users' = users /\ remarks' = remarks /\ remarkRows' = remarkRows
      /\ connected' = connected /\ looseRemarks' = looseRemarks /\ changes' = changes
      /\ faults' = faults /\ userSwitches' = userSwitches
  BY DEF UserRowsCleared, userSwitches, userMemory, userNotes, ClearsRemarks
<1>2. w0.kind = "clearRemarks" /\ w0 = Fields(w0)
  <2>1. w = Fields(w)
    BY InvParts DEF UsersTyped, WriteFits
  <2>2. Fields(w) = [kind |-> w.kind, who |-> w.who, copy |-> w.copy, number |-> w.number]
    BY DEF Fields
  <2>3. [Fields(w) EXCEPT !.kind = "clearRemarks"]
          = [kind |-> "clearRemarks", who |-> w.who, copy |-> w.copy, number |-> w.number]
    BY <2>2
  <2>4. w0 = [kind |-> "clearRemarks", who |-> w.who, copy |-> w.copy, number |-> w.number]
    BY <2>1, <2>3, Zenon DEF ClearsRemarks
  <2> HIDE DEF w0
  <2> QED
    BY <2>4 DEF Fields
<1>3. /\ \A x : Touches(w, x) /\ Touches(w0, x) /\ TouchesRemarks(w, x) /\ TouchesRemarks(w0, x)
      /\ ClearingUsers(w) /\ ClearingUsers(w0)
      /\ w0.kind \notin RowKinds /\ w0.kind # "remark"
  BY <1>1, <1>2 DEF Touches, TouchesRemarks, ClearingUsers, RowKinds
<1> HIDE DEF w0
<1>4. rows' \in [Users -> RowRecords] /\ \A u \in Users : rows'[u] = NoRecord
  BY <1>1, RecordsAre
<1>5. ASSUME NEW u \in Users \ loose' PROVE RowTracked(u)'
  <2>1. RowTracked(u)
    BY <1>1, <1>5, InvParts
  <2>2. \A v \in writes' : Touches(v, u) => v = w0
    BY <1>1, <1>3, <2>1 DEF RowTracked
  <2>3. users'[u] \in {NoRecord, NewRecord} /\ w0 \in writes' /\ Touches(w0, u)
    BY <1>1, <1>3, <2>1 DEF RowTracked
  <2> QED
    BY <1>3, <1>4, <1>5, <2>2, <2>3 DEF RowTracked
<1>6. ASSUME NEW o \in Users \ looseRemarks' PROVE RemarksTracked(o)'
  <2>1. RemarksTracked(o)
    BY <1>1, <1>6, InvParts
  <2>2. \A v \in writes' : TouchesRemarks(v, o) => v = w0
    BY <1>1, <1>3, <2>1 DEF RemarksTracked
  <2>3. remarks'[o] = {} /\ w0 \in writes' /\ TouchesRemarks(w0, o)
    BY <1>1, <1>3, <2>1 DEF RemarksTracked
  <2> QED
    BY <1>3, <2>2, <2>3 DEF RemarksTracked
<1>7. BlacklistOnDisk'
  <2>1. \A u \in Users \ loose' : ~Banned(users'[u])
    <3>1. ASSUME NEW u \in Users \ loose' PROVE ~Banned(users'[u])
      <4>1. users[u] \in {NoRecord, NewRecord}
        BY <1>1, <1>3, <3>1, InvParts DEF RowTracked
      <4> QED
        BY <1>1, <4>1, RecordsAre DEF Banned
    <3> QED
      BY <3>1
  <2> QED
    BY <2>1 DEF BlacklistOnDisk, Banned
<1>8. UsersTyped'
  <2>1. \A v \in writes' : WriteFits(v)
    BY <1>1, <1>2, <1>3, InvParts DEF UsersTyped, WriteFits
  <2> QED
    BY <1>1, <1>4, <2>1, SameMemory, TypedAgain, InvParts DEF UsersTyped
<1> QED
  BY <1>5, <1>6, <1>7, <1>8 DEF UsersInv

\* The saves that follow a clearing: one for everybody in memory by now.
SavedAgain(w, u) == [kind |-> "save", who |-> u, copy |-> users[u], number |-> w.number]

LEMMA RemarksClearedKeeps ==
  ASSUME UsersInv, NEW w \in writes, RemarkRowsCleared(w)
  PROVE  UsersInv'
<1>1. /\ w.kind = "clearRemarks" /\ remarkRows' = [o \in Users |-> {}]
      /\ writes' = (writes \ {w}) \cup {SavedAgain(w, u) : u \in {u \in Users : users[u] # NoRecord}}
      /\ loose' = loose
      /\ users' = users /\ remarks' = remarks /\ rows' = rows
      /\ connected' = connected /\ looseRemarks' = looseRemarks /\ changes' = changes
      /\ faults' = faults /\ userSwitches' = userSwitches
  BY DEF RemarkRowsCleared, userSwitches, userMemory, userNotes, SavedAgain
<1>2. /\ ClearingUsers(w) /\ \A x : Touches(w, x) /\ TouchesRemarks(w, x)
  BY <1>1 DEF Touches, TouchesRemarks, ClearingUsers
<1>3. ASSUME NEW u \in Users
      PROVE  /\ SavedAgain(w, u).kind = "save" /\ SavedAgain(w, u).who = u
             /\ SavedAgain(w, u).copy = users[u] /\ SavedAgain(w, u) = Fields(SavedAgain(w, u))
             /\ \A x : Touches(SavedAgain(w, u), x) <=> x = u
             /\ \A x : ~TouchesRemarks(SavedAgain(w, u), x)
             /\ ~ClearingUsers(SavedAgain(w, u))
  <2>1. /\ SavedAgain(w, u).kind = "save" /\ SavedAgain(w, u).who = u
        /\ SavedAgain(w, u).copy = users[u] /\ SavedAgain(w, u) = Fields(SavedAgain(w, u))
    BY DEF SavedAgain, Fields
  <2> QED
    BY <2>1 DEF Touches, TouchesRemarks, ClearingUsers
<1>4. /\ \A v \in writes' : (v \in writes /\ v # w) \/ \E u \in Users : users[u] # NoRecord /\ v = SavedAgain(w, u)
      /\ \A u \in Users : users[u] # NoRecord => SavedAgain(w, u) \in writes'
      /\ \A v \in writes : v # w => v \in writes'
  BY <1>1
<1>5. ASSUME NEW x \in Users \ loose' PROVE RowTracked(x)'
  <2>1. RowTracked(x)
    BY <1>1, <1>5, InvParts
  <2>2. rows[x] = NoRecord /\ \A v \in writes : Touches(v, x) => v = w
    BY <1>1, <1>2, <2>1 DEF RowTracked
  <2>3. \A v \in writes' : Touches(v, x) => users[x] # NoRecord /\ v = SavedAgain(w, x)
    BY <1>3, <1>4, <2>2
  <2>4. (\A v \in writes' : ~Touches(v, x)) => rows[x] = users[x]
    BY <1>3, <1>4, <1>5, <2>2
  <2>5. \A v \in writes' : Touches(v, x) => v.copy = users[x] /\ ~ClearingUsers(v) /\ v.kind = "save"
    BY <1>3, <1>5, <2>3
  <2> QED
    BY <1>1, <2>3, <2>4, <2>5 DEF RowTracked
<1>6. ASSUME NEW o \in Users \ looseRemarks' PROVE RemarksTracked(o)'
  <2>1. RemarksTracked(o)
    BY <1>1, <1>6, InvParts
  <2>2. remarks[o] = {} /\ \A v \in writes : TouchesRemarks(v, o) => v = w
    BY <1>2, <2>1 DEF RemarksTracked
  <2>3. \A v \in writes' : ~TouchesRemarks(v, o)
    BY <1>3, <1>4, <2>2
  <2>4. remarkRows'[o] = {}
    BY <1>1, <1>6
  <2> QED
    BY <1>1, <2>2, <2>3, <2>4 DEF RemarksTracked
<1>7. BlacklistOnDisk'
  <2>1. ASSUME NEW u \in Users \ loose' PROVE ~Banned(users'[u])
    <3>1. users[u] \in {NoRecord, NewRecord}
      BY <1>1, <1>2, <2>1, InvParts DEF RowTracked
    <3> QED
      BY <1>1, <3>1, RecordsAre DEF Banned
  <2> QED
    BY <2>1 DEF BlacklistOnDisk, Banned
<1>8. UsersTyped'
  <2>1. \A v \in writes' : WriteFits(v)
    <3>1. ASSUME NEW u \in Users PROVE WriteFits(SavedAgain(w, u))
      BY <1>3, <3>1, InvParts DEF WriteFits, RowKinds
    <3> QED
      BY <1>4, <3>1, InvParts DEF UsersTyped
  <2>2. remarkRows' \in [Users -> SUBSET Users]
    BY <1>1
  <2> QED
    BY <1>1, <2>1, <2>2, SameMemory, TypedAgain, InvParts DEF UsersTyped
<1> QED
  BY <1>5, <1>6, <1>7, <1>8 DEF UsersInv

LEMMA WriteFailsKeeps ==
  ASSUME UsersInv, NEW w \in writes, WriteFails(w)
  PROVE  UsersInv'
<1>1. /\ Fault /\ writes' = writes \ {w}
      /\ loose' = loose \cup {u \in Users : Touches(w, u)}
      /\ looseRemarks' = looseRemarks \cup {o \in Users : TouchesRemarks(w, o)}
      /\ users' = users /\ remarks' = remarks /\ rows' = rows /\ remarkRows' = remarkRows
      /\ connected' = connected /\ userSwitches' = userSwitches
  BY DEF WriteFails, userSwitches, userMemory, userRows
<1>2. ASSUME NEW x \in Users \ loose' PROVE RowTracked(x)'
  <2>1. RowTracked(x) /\ ~Touches(w, x)
    BY <1>1, <1>2, InvParts
  <2> QED
    BY <1>1, <2>1 DEF RowTracked
<1>3. ASSUME NEW o \in Users \ looseRemarks' PROVE RemarksTracked(o)'
  <2>1. RemarksTracked(o) /\ ~TouchesRemarks(w, o)
    BY <1>1, <1>3, InvParts
  <2> QED
    BY <1>1, <2>1 DEF RemarksTracked
<1>4. BlacklistOnDisk'
  <2>1. \A u \in Users : w.kind = "ban" /\ w.who = u => Touches(w, u)
    BY DEF Touches
  <2>2. ASSUME NEW u \in Users \ loose', Banned(users'[u]),
               \A v \in writes' : ~(v.kind = "ban" /\ v.who = u)
        PROVE  Banned(rows'[u])
    <3>1. u \in Users \ loose /\ \A v \in writes : ~(v.kind = "ban" /\ v.who = u)
      BY <1>1, <2>1, <2>2
    <3> QED
      BY <1>1, <2>2, <3>1, InvParts
  <2> QED
    BY <2>2 DEF BlacklistOnDisk, Banned
<1>5. UsersTyped'
  BY <1>1, SameMemory, TypedAgain, ChangeCounts, InvParts DEF UsersTyped
<1> QED
  BY <1>2, <1>3, <1>4, <1>5 DEF UsersInv

LEMMA UsersRestartKeeps ==
  ASSUME UsersInv, UsersRestart
  PROVE  UsersInv'
<1>1. /\ Fault /\ users' = rows /\ remarks' = remarkRows /\ connected' = {} /\ writes' = {}
      /\ rows' = rows /\ remarkRows' = remarkRows /\ userSwitches' = userSwitches
  BY DEF UsersRestart, userSwitches, userRows
<1>2. /\ \A u \in Users \ loose' : RowTracked(u)'
      /\ \A o \in Users \ looseRemarks' : RemarksTracked(o)'
  BY <1>1 DEF RowTracked, RemarksTracked
<1>3. BlacklistOnDisk'
  BY <1>1 DEF BlacklistOnDisk
<1>4. UsersTyped'
  <2>1. connected' \subseteq Users /\ (\A u \in connected' : ~Banned(users'[u])) /\ \A w \in writes' : WriteFits(w)
    BY <1>1
  <2> QED
    BY <1>1, <2>1, TypedAgain, ChangeCounts, InvParts
<1> QED
  BY <1>2, <1>3, <1>4 DEF UsersInv

LEMMA UsersInvInit == UsersInit => UsersInv
<1> SUFFICES ASSUME UsersInit PROVE UsersInv
  OBVIOUS
<1>1. /\ users \in [Users -> RowRecords] /\ rows = users
      /\ remarks \in [Users -> SUBSET Users] /\ remarkRows = remarks
      /\ connected = {} /\ writes = {} /\ changes = 0 /\ faults = 0
      /\ \A u \in Users : users[u] = NoRecord
  BY RecordsAre DEF UsersInit
<1>2. listOn \in BOOLEAN /\ privateOn \in BOOLEAN /\ (privateOn => listOn)
  BY Zenon DEF UsersInit
<1>3. UsersTypeOK
  BY <1>1, <1>2 DEF UsersTypeOK, RowRecords
<1>4. UsersTyped
  BY <1>1, <1>3 DEF UsersTyped
<1>5. /\ \A u \in Users : RowTracked(u)
      /\ \A o \in Users : RemarksTracked(o)
      /\ BlacklistOnDisk
  BY <1>1 DEF RowTracked, RemarksTracked, BlacklistOnDisk
<1> QED
  BY <1>4, <1>5 DEF UsersInv

LEMMA UsersInvStep == UsersInv /\ [UsersNext]_userVars => UsersInv'
<1> SUFFICES ASSUME UsersInv, [UsersNext]_userVars PROVE UsersInv'
  OBVIOUS
<1>1. ASSUME UNCHANGED userVars PROVE UsersInv'
  BY <1>1 DEF userVars, userSwitches, userMemory, userRows, userNotes, UsersInv, UsersTyped,
     UsersTypeOK, RowTracked, RemarksTracked, BlacklistOnDisk
<1>2. ASSUME NEW u \in Users, UserStep(u) PROVE UsersInv'
  BY <1>2, ObserveKeeps, RegisterKeeps, UnregisterKeeps, MentionKeeps, RenamingKeeps,
     PeerRemarkKeeps DEF UserStep
<1>3. ASSUME ManagerStep PROVE UsersInv'
  BY <1>3, SwitchesKeep, ClearUsersKeeps, RenamingKeeps, RemoveKeeps, BlacklistKeeps
  DEF ManagerStep
<1>4. ASSUME NEW w \in writes, WriteStep(w) PROVE UsersInv'
  BY <1>4, RowWrittenKeeps, RemarkWrittenKeeps, RowsClearedKeeps, RemarksClearedKeeps,
     WriteFailsKeeps DEF WriteStep
<1> QED
  BY <1>1, <1>2, <1>3, <1>4, UsersRestartKeeps DEF UsersNext

\* The inductive invariant: types, and for every user that is not loose how the
\* one call under way that touches it relates its record and its row.
THEOREM UsersCorrect == UsersSpec => []UsersInv
<1> QED
  BY UsersInvInit, UsersInvStep, PTL DEF UsersSpec

\* Types, no private messages without the user list, and nobody connected is
\* blacklisted.
THEOREM UsersTypeCorrect == UsersSpec => []UsersTypeOK
<1>1. UsersInv => UsersTypeOK
  BY InvParts
<1> QED
  BY <1>1, UsersCorrect, PTL

\* Rows and records, remarks and their rows agree once the calls are through,
\* for any number of users, changes and overlapping calls of the database.
THEOREM UsersAlwaysOnDisk == UsersSpec => []UsersOnDisk
<1>1. UsersInv => UsersOnDisk
  <2> SUFFICES ASSUME UsersInv PROVE UsersOnDisk
    OBVIOUS
  <2>1. ASSUME NEW u \in Users, u \notin loose \cup Racing({u}, writes) PROVE rows[u] = users[u]
    BY <2>1, InvParts, RacingIs DEF RowTracked
  <2>2. ASSUME NEW u \in Users, u \notin looseRemarks \cup RacingRemarks({u})
        PROVE  remarkRows[u] = remarks[u]
    BY <2>2, InvParts, RacingIs DEF RemarksTracked
  <2> QED
    BY <2>1, <2>2 DEF UsersOnDisk, UsersInv
<1> QED
  BY <1>1, UsersCorrect, PTL

-----------------------------------------------------------------------------
(* The WeChat bridge. *)

Stands == {"unbound", "waiting", "bound"}
Places == {"off", "started", "looping", "asking", "answered", "failed"}

BindingFields(b) ==
  [status |-> b.status, code |-> b.code, token |-> b.token, cursor |-> b.cursor,
   messages |-> b.messages, forward |-> b.forward]
MonitorFields(r) ==
  [at |-> r.at, live |-> r.live, bot |-> r.bot, cursor |-> r.cursor, news |-> r.news]

IsBinding(b) == b = BindingFields(b) /\ b.status \in Stands
IsMonitor(r) == r = MonitorFields(r) /\ r.at \in Places /\ r.live \in BOOLEAN

ClawTyped ==
  /\ binding # NoBinding => IsBinding(binding)
  /\ bindingRow # NoBinding => IsBinding(bindingRow)
  /\ polls \subseteq Bots
  /\ codes \in Nat /\ starts \in Nat /\ deletes \in Nat /\ troubles \in Nat
  /\ unheard \in BOOLEAN /\ astray \in BOOLEAN
  /\ DOMAIN monitor = Monitors /\ monitor = [m \in Monitors |-> monitor[m]]
  /\ \A m \in Monitors : IsMonitor(monitor[m])
  /\ cancel \in Monitors \cup {NoMonitor}

\* Whom the cancel map can stop was not stopped; bound without a token is a
\* late error's word; and a bound account with no start to come has a monitor
\* that asks for its own bot.
Heard ==
  /\ Bound /\ binding.token = 0 => unheard
  /\ cancel # NoMonitor /\ monitor[cancel].at # "off" => monitor[cancel].live
  /\ Bound /\ ~unheard /\ starts = 0 =>
       /\ cancel # NoMonitor /\ monitor[cancel].at # "off"
       /\ monitor[cancel].at \in {"asking", "answered"} => monitor[cancel].bot = binding.token

ClawInv == ClawTyped /\ Heard /\ BindingOnDisk

\* The changes of a binding that the handlers make, field by field.
Standing(b, status) == [b EXCEPT !.status = status]
Coded(b, code) == [b EXCEPT !.code = code]
Tokened(b, token) == [b EXCEPT !.token = token]
Pointing(b, cursor) == [b EXCEPT !.cursor = cursor]
Showing(b, messages) == [b EXCEPT !.messages = messages]
Forwarding(b, forward) == [b EXCEPT !.forward = forward]

LEMMA BindingChanges ==
  ASSUME NEW b, IsBinding(b)
  PROVE  /\ \A status \in Stands :
              IsBinding(Standing(b, status)) /\ Standing(b, status).status = status
              /\ Standing(b, status).token = b.token
         /\ \A code :
              IsBinding(Coded(b, code)) /\ Coded(b, code).status = b.status
              /\ Coded(b, code).token = b.token
         /\ \A token :
              IsBinding(Tokened(b, token)) /\ Tokened(b, token).status = b.status
              /\ Tokened(b, token).token = token
         /\ \A cursor :
              IsBinding(Pointing(b, cursor)) /\ Pointing(b, cursor).status = b.status
              /\ Pointing(b, cursor).token = b.token
         /\ \A messages :
              IsBinding(Showing(b, messages)) /\ Showing(b, messages).status = b.status
              /\ Showing(b, messages).token = b.token
         /\ \A forward :
              IsBinding(Forwarding(b, forward)) /\ Forwarding(b, forward).status = b.status
              /\ Forwarding(b, forward).token = b.token
<1> DEFINE x(s, c, t, u, m, f) == [status |-> s, code |-> c, token |-> t, cursor |-> u, messages |-> m, forward |-> f]
<1>1. b = x(b.status, b.code, b.token, b.cursor, b.messages, b.forward) /\ b.status \in Stands
  BY DEF IsBinding, BindingFields
<1>2. \A s \in Stands : \A c, t, u, m, f :
        /\ IsBinding(x(s, c, t, u, m, f))
        /\ x(s, c, t, u, m, f).status = s /\ x(s, c, t, u, m, f).token = t
  BY DEF IsBinding, BindingFields
<1>3. \A status : Standing(b, status) = x(status, b.code, b.token, b.cursor, b.messages, b.forward)
  BY <1>1 DEF Standing
<1>4. \A code : Coded(b, code) = x(b.status, code, b.token, b.cursor, b.messages, b.forward)
  BY <1>1 DEF Coded
<1>5. \A token : Tokened(b, token) = x(b.status, b.code, token, b.cursor, b.messages, b.forward)
  BY <1>1 DEF Tokened
<1>6. \A cursor : Pointing(b, cursor) = x(b.status, b.code, b.token, cursor, b.messages, b.forward)
  BY <1>1 DEF Pointing
<1>7. \A messages : Showing(b, messages) = x(b.status, b.code, b.token, b.cursor, messages, b.forward)
  BY <1>1 DEF Showing
<1>8. \A forward : Forwarding(b, forward) = x(b.status, b.code, b.token, b.cursor, b.messages, forward)
  BY <1>1 DEF Forwarding
<1> HIDE DEF x
<1> QED
  BY <1>1, <1>2, <1>3, <1>4, <1>5, <1>6, <1>7, <1>8

LEMMA CutIs ==
  ASSUME NEW b, IsBinding(b)
  PROVE  IsBinding(Cut(b)) /\ Cut(b).status = b.status /\ Cut(b).token = b.token
<1>1. \E messages : Cut(b) = Showing(b, messages)
  BY Zenon DEF Cut, Showing
<1> QED
  BY <1>1, BindingChanges

LEMMA SaveLockedDoes ==
  ASSUME ClawTyped, NEW b, IsBinding(b), NEW saved, SaveLocked(b, saved)
  PROVE  /\ binding' # NoBinding => IsBinding(binding')
         /\ binding'.status = b.status /\ binding'.token = b.token
         /\ bindingRow' # NoBinding => IsBinding(bindingRow')
         /\ astray' \in BOOLEAN /\ (astray' \/ bindingRow' = binding')
         /\ troubles' \in Nat
<1>1. binding' = Cut(b)
  BY DEF SaveLocked
<1>2. CASE bindingRow' = Cut(b) /\ astray' = FALSE /\ UNCHANGED troubles
  BY <1>1, <1>2, CutIs DEF ClawTyped
<1>3. CASE troubles' = troubles + 1 /\ astray' = TRUE /\ UNCHANGED bindingRow
  BY <1>1, <1>3, CutIs DEF ClawTyped
<1> QED
  BY <1>2, <1>3 DEF SaveLocked

\* The same of a monitor.
Placed(r, at) == [r EXCEPT !.at = at]
Enlivened(r, live) == [r EXCEPT !.live = live]
Asking(r, bot) == [r EXCEPT !.bot = bot]
Reading(r, cursor) == [r EXCEPT !.cursor = cursor]
Told(r, news) == [r EXCEPT !.news = news]

LEMMA MonitorChanges ==
  ASSUME NEW r, IsMonitor(r)
  PROVE  /\ \A at \in Places :
              IsMonitor(Placed(r, at)) /\ Placed(r, at).at = at
              /\ Placed(r, at).live = r.live /\ Placed(r, at).bot = r.bot
         /\ \A live \in BOOLEAN :
              IsMonitor(Enlivened(r, live)) /\ Enlivened(r, live).at = r.at
              /\ Enlivened(r, live).live = live /\ Enlivened(r, live).bot = r.bot
         /\ \A bot :
              IsMonitor(Asking(r, bot)) /\ Asking(r, bot).at = r.at
              /\ Asking(r, bot).live = r.live /\ Asking(r, bot).bot = bot
         /\ \A cursor :
              IsMonitor(Reading(r, cursor)) /\ Reading(r, cursor).at = r.at
              /\ Reading(r, cursor).live = r.live /\ Reading(r, cursor).bot = r.bot
         /\ \A news :
              IsMonitor(Told(r, news)) /\ Told(r, news).at = r.at
              /\ Told(r, news).live = r.live /\ Told(r, news).bot = r.bot
<1> DEFINE x(a, l, b, c, n) == [at |-> a, live |-> l, bot |-> b, cursor |-> c, news |-> n]
<1>1. r = x(r.at, r.live, r.bot, r.cursor, r.news) /\ r.at \in Places /\ r.live \in BOOLEAN
  BY DEF IsMonitor, MonitorFields
<1>2. \A a, l, b, c, n :
        /\ x(a, l, b, c, n) = MonitorFields(x(a, l, b, c, n))
        /\ x(a, l, b, c, n).at = a /\ x(a, l, b, c, n).live = l /\ x(a, l, b, c, n).bot = b
  BY DEF MonitorFields
<1>3. \A at : Placed(r, at) = x(at, r.live, r.bot, r.cursor, r.news)
  BY <1>1 DEF Placed
<1>4. \A live : Enlivened(r, live) = x(r.at, live, r.bot, r.cursor, r.news)
  BY <1>1 DEF Enlivened
<1>5. \A bot : Asking(r, bot) = x(r.at, r.live, bot, r.cursor, r.news)
  BY <1>1 DEF Asking
<1>6. \A cursor : Reading(r, cursor) = x(r.at, r.live, r.bot, cursor, r.news)
  BY <1>1 DEF Reading
<1>7. \A news : Told(r, news) = x(r.at, r.live, r.bot, r.cursor, news)
  BY <1>1 DEF Told
<1> HIDE DEF x
<1>8. \A a, l, b, c, n : a \in Places /\ l \in BOOLEAN => IsMonitor(x(a, l, b, c, n))
  BY <1>2 DEF IsMonitor
<1>9. \A at \in Places :
         IsMonitor(Placed(r, at)) /\ Placed(r, at).at = at
         /\ Placed(r, at).live = r.live /\ Placed(r, at).bot = r.bot
  BY <1>1, <1>2, <1>3, <1>8
<1>10. \A live \in BOOLEAN :
         IsMonitor(Enlivened(r, live)) /\ Enlivened(r, live).at = r.at
         /\ Enlivened(r, live).live = live /\ Enlivened(r, live).bot = r.bot
  BY <1>1, <1>2, <1>4, <1>8
<1>11. \A bot :
         IsMonitor(Asking(r, bot)) /\ Asking(r, bot).at = r.at
         /\ Asking(r, bot).live = r.live /\ Asking(r, bot).bot = bot
  BY <1>1, <1>2, <1>5, <1>8
<1>12. \A cursor :
         IsMonitor(Reading(r, cursor)) /\ Reading(r, cursor).at = r.at
         /\ Reading(r, cursor).live = r.live /\ Reading(r, cursor).bot = r.bot
  BY <1>1, <1>2, <1>6, <1>8
<1>13. \A news :
         IsMonitor(Told(r, news)) /\ Told(r, news).at = r.at
         /\ Told(r, news).live = r.live /\ Told(r, news).bot = r.bot
  BY <1>1, <1>2, <1>7, <1>8
<1> QED
  BY <1>9, <1>10, <1>11, <1>12, <1>13, Zenon

LEMMA UnaskedIs ==
  IsMonitor(Unasked) /\ Unasked.at = "off" /\ ~Unasked.live /\ Unasked.bot = 0
<1>1. Unasked = MonitorFields(Unasked) /\ Unasked.at = "off" /\ Unasked.bot = 0
  BY DEF Unasked, MonitorFields
<1>2. Unasked.live = FALSE
  BY DEF Unasked
<1> QED
  BY <1>1, <1>2 DEF IsMonitor, Places

\* Whether all monitors are typed, and what is changed of one of them.
Monitored(f) ==
  /\ DOMAIN f = Monitors /\ f = [m \in Monitors |-> f[m]]
  /\ \A m \in Monitors : IsMonitor(f[m])

OneChanged(f, m, r) == [f EXCEPT ![m] = r]

LEMMA OneMonitor ==
  ASSUME NEW f, Monitored(f), NEW m \in Monitors, NEW r, IsMonitor(r)
  PROVE  /\ Monitored(OneChanged(f, m, r))
         /\ OneChanged(f, m, r)[m] = r
         /\ \A n \in Monitors : n # m => OneChanged(f, m, r)[n] = f[n]
  BY DEF Monitored, OneChanged

LEMMA StoppedIs ==
  ASSUME ClawTyped
  PROVE  Monitored(Stopped) /\ \A m \in Monitors : m # cancel => Stopped[m] = monitor[m]
<1>1. Monitored(monitor)
  BY DEF ClawTyped, Monitored
<1>2. CASE cancel = NoMonitor
  BY <1>1, <1>2 DEF Stopped
<1>3. CASE cancel # NoMonitor
  <2>1. cancel \in Monitors /\ IsMonitor(monitor[cancel])
    BY <1>1, <1>3 DEF ClawTyped, Monitored
  <2>2. Stopped = OneChanged(monitor, cancel, Enlivened(monitor[cancel], FALSE))
    BY <1>3, Zenon DEF Stopped, Enlivened, OneChanged
  <2>3. IsMonitor(Enlivened(monitor[cancel], FALSE))
    BY <2>1, MonitorChanges
  <2> DEFINE r == Enlivened(monitor[cancel], FALSE)
  <2>5. IsMonitor(r)
    BY <2>3
  <2> HIDE DEF r
  <2>4. /\ Monitored(OneChanged(monitor, cancel, r))
        /\ \A n \in Monitors : n # cancel => OneChanged(monitor, cancel, r)[n] = monitor[n]
    BY <1>1, <2>1, <2>5, OneMonitor
  <2> QED
    BY <2>2, <2>4 DEF r
<1> QED
  BY <1>2, <1>3

LEMMA ReachIs ==
  ASSUME ClawTyped, NEW m \in Monitors, NEW place \in Places, Reach(m, place)
  PROVE  /\ Monitored(monitor')
         /\ monitor'[m].at = place
         /\ monitor'[m].live <=> place # "off" /\ monitor[m].live
         /\ \A n \in Monitors : n # m => monitor'[n] = monitor[n]
<1> DEFINE live == place # "off" /\ monitor[m].live
           r == Enlivened(Placed(Unasked, place), live)
<1>1. monitor' = OneChanged(monitor, m, r)
  BY Zenon DEF Reach, Enlivened, Placed, OneChanged
<1>2. live \in BOOLEAN
  OBVIOUS
<1>3. live <=> place # "off" /\ monitor[m].live
  OBVIOUS
<1>4. IsMonitor(Placed(Unasked, place)) /\ Placed(Unasked, place).at = place
  BY UnaskedIs, MonitorChanges
<1> HIDE DEF live
<1>5. IsMonitor(r) /\ r.at = place /\ r.live = live
  BY <1>2, <1>4, MonitorChanges
<1> HIDE DEF r
<1>6. Monitored(monitor)
  BY DEF ClawTyped, Monitored
<1>7. Monitored(monitor') /\ monitor'[m] = r /\ \A n \in Monitors : n # m => monitor'[n] = monitor[n]
  BY <1>1, <1>5, <1>6, OneMonitor
<1> QED
  BY <1>3, <1>5, <1>7, Zenon

LEMMA ClawParts ==
  ASSUME ClawInv
  PROVE  /\ ClawTyped /\ Heard /\ Monitored(monitor)
         /\ \A m \in Monitors : IsMonitor(monitor[m])
         /\ NoMonitor \notin Monitors
  BY ClawAssumption DEF ClawInv, ClawTyped, Monitored

\* A monitor that the cancel map can stop goes on after a step: it was not
\* stopped, and if the account needs it, it is there and asks for its bot.
GoesOn(m) ==
  /\ monitor'[m].at # "off" => monitor'[m].live
  /\ monitor[m].at # "off" /\ Bound /\ (monitor[m].at \in {"asking", "answered"} => monitor[m].bot = binding.token) =>
       /\ monitor'[m].at # "off"
       /\ monitor'[m].at \in {"asking", "answered"} => monitor'[m].bot = binding.token

LEMMA HeardAgain ==
  ASSUME ClawInv,
         Bound' => unheard' \/ (Bound /\ ~unheard /\ binding'.token = binding.token),
         starts' = starts, cancel' = cancel,
         cancel # NoMonitor => GoesOn(cancel)
  PROVE  Heard'
<1>1. Bound' /\ binding'.token = 0 => unheard'
  BY ClawParts DEF Heard
<1>2. cancel' # NoMonitor /\ monitor'[cancel'].at # "off" => monitor'[cancel'].live
  BY DEF GoesOn
<1>3. ASSUME Bound', ~unheard', starts' = 0
      PROVE  /\ cancel' # NoMonitor /\ monitor'[cancel'].at # "off"
             /\ monitor'[cancel'].at \in {"asking", "answered"} => monitor'[cancel'].bot = binding'.token
  <2>1. Bound /\ ~unheard /\ binding'.token = binding.token
    BY <1>3, Zenon
  <2>2. /\ cancel # NoMonitor /\ monitor[cancel].at # "off"
        /\ monitor[cancel].at \in {"asking", "answered"} => monitor[cancel].bot = binding.token
    BY <1>3, <2>1, ClawParts DEF Heard
  <2> QED
    BY <2>1, <2>2 DEF GoesOn
<1> QED
  BY <1>1, <1>2, <1>3 DEF Heard, Bound

LEMMA SameMonitors ==
  ASSUME ClawInv, monitor' = monitor, cancel # NoMonitor
  PROVE  GoesOn(cancel)
  BY ClawParts DEF GoesOn, Heard

\* What a step that leaves the monitors alone has to show.
LEMMA NoMonitorStep ==
  ASSUME ClawInv, monitor' = monitor, cancel' = cancel, starts' = starts,
         Bound' => unheard' \/ (Bound /\ ~unheard /\ binding'.token = binding.token),
         binding' # NoBinding => IsBinding(binding'),
         bindingRow' # NoBinding => IsBinding(bindingRow'),
         polls' \subseteq Bots, codes' \in Nat, deletes' \in Nat, troubles' \in Nat,
         unheard' \in BOOLEAN, astray' \in BOOLEAN,
         BindingOnDisk'
  PROVE  ClawInv'
<1>1. Heard'
  BY SameMonitors, HeardAgain
<1>2. ClawTyped'
  BY ClawParts DEF ClawTyped
<1> QED
  BY <1>1, <1>2 DEF ClawInv

\* Saving a binding, or nothing.
LEMMA SavedOnDisk ==
  ASSUME ClawTyped, NEW b, IsBinding(b), NEW saved, SaveLocked(b, saved)
  PROVE  BindingOnDisk'
  BY SaveLockedDoes DEF BindingOnDisk

LEMMA SetErrorDoes ==
  ASSUME ClawInv, SetError
  PROVE  /\ binding' # NoBinding => IsBinding(binding')
         /\ bindingRow' # NoBinding => IsBinding(bindingRow')
         /\ astray' \in BOOLEAN /\ unheard' \in BOOLEAN /\ troubles' \in Nat
         /\ Bound' => unheard' \/ (Bound /\ ~unheard /\ binding'.token = binding.token)
         /\ deletes' = deletes => BindingOnDisk'
<1>0. ClawTyped
  BY ClawParts
<1>1. CASE binding = NoBinding /\ UNCHANGED <<binding, bindingRow, unheard, astray, troubles>>
  BY <1>0, <1>1 DEF ClawTyped, ClawInv, BindingOnDisk, Bound
<1>2. CASE /\ binding # NoBinding
           /\ \E saved \in BOOLEAN : SaveLocked([binding EXCEPT !.status = "bound"], saved)
           /\ unheard' = (unheard \/ binding.status # "bound")
  <2>1. PICK saved \in BOOLEAN : SaveLocked(Standing(binding, "bound"), saved)
    BY <1>2, Zenon DEF Standing
  <2>2. IsBinding(Standing(binding, "bound")) /\ Standing(binding, "bound").token = binding.token
    BY <1>0, <1>2, BindingChanges DEF ClawTyped, Stands
  <2>3. /\ binding' # NoBinding => IsBinding(binding')
        /\ binding'.token = binding.token
        /\ bindingRow' # NoBinding => IsBinding(bindingRow')
        /\ astray' \in BOOLEAN /\ troubles' \in Nat
    BY <1>0, <2>1, <2>2, SaveLockedDoes
  <2>4. BindingOnDisk'
    BY <1>0, <2>1, <2>2, SavedOnDisk
  <2>5. unheard' \in BOOLEAN
    BY <1>2, Zenon
  <2>6. unheard' \/ (~unheard /\ binding.status = "bound")
    BY <1>2, Zenon
  <2>7. unheard' \/ (Bound /\ ~unheard)
    BY <1>2, <2>6, Zenon DEF Bound
  <2> QED
    BY <2>3, <2>4, <2>5, <2>7
<1> QED
  BY <1>1, <1>2 DEF SetError

LEMMA StoppedMonitored ==
  ASSUME ClawInv, monitor' = Stopped, cancel' = NoMonitor, ~Bound',
         binding' # NoBinding => IsBinding(binding'),
         bindingRow' # NoBinding => IsBinding(bindingRow'),
         polls' \subseteq Bots, codes' \in Nat, starts' \in Nat, deletes' \in Nat, troubles' \in Nat,
         unheard' \in BOOLEAN, astray' \in BOOLEAN, BindingOnDisk'
  PROVE  ClawInv'
<1>1. Heard'
  BY DEF Heard
<1>2. Monitored(monitor')
  BY StoppedIs, ClawParts
<1>3. ClawTyped'
  BY <1>2 DEF ClawTyped, Monitored
<1> QED
  BY <1>1, <1>3 DEF ClawInv

LEMMA StartQRKeeps ==
  ASSUME ClawInv, NEW saved \in BOOLEAN, StartQR(saved)
  PROVE  ClawInv'
<1> DEFINE b == IF binding # NoBinding THEN binding
                ELSE [status |-> "unbound", code |-> 0, token |-> 0, cursor |-> NoCursor,
                      messages |-> <<>>, forward |-> FALSE]
           c == Coded(Standing(b, "waiting"), codes + 1)
<1>1. /\ monitor' = Stopped /\ cancel' = NoMonitor /\ SaveLocked(c, saved)
      /\ polls' = (IF saved THEN polls \cup {codes + 1} ELSE polls) /\ unheard' = FALSE
      /\ starts' = starts /\ deletes' = deletes
  BY Zenon DEF StartQR, Coded, Standing
<1>2. codes < MaxCodes /\ codes' = codes + 1
  BY DEF StartQR
<1>3. IsBinding(b)
  BY ClawParts DEF ClawTyped, IsBinding, BindingFields, Stands
<1> HIDE DEF b
<1>4. IsBinding(c) /\ c.status = "waiting"
  <2>1. "waiting" \in Stands
    BY DEF Stands
  <2>2. IsBinding(Standing(b, "waiting")) /\ Standing(b, "waiting").status = "waiting"
    BY <1>3, <2>1, BindingChanges
  <2> QED
    BY <2>2, BindingChanges
<1> HIDE DEF c
<1>5. /\ binding' # NoBinding => IsBinding(binding')
      /\ binding'.status = "waiting"
      /\ bindingRow' # NoBinding => IsBinding(bindingRow')
      /\ astray' \in BOOLEAN /\ troubles' \in Nat
      /\ BindingOnDisk'
  BY <1>1, <1>4, ClawParts, SaveLockedDoes, SavedOnDisk
<1>6. ~Bound'
  BY <1>5 DEF Bound
<1>7. polls' \subseteq Bots /\ codes' \in Nat
  <2>1. codes \in Nat /\ codes + 1 \in Bots /\ polls \subseteq Bots
    BY <1>2, ClawParts, ClawAssumption DEF ClawTyped, Bots
  <2> QED
    BY <1>1, <1>2, <2>1
<1> QED
  BY <1>1, <1>5, <1>6, <1>7, StoppedMonitored, ClawParts DEF ClawTyped

LEMMA UnbindKeeps ==
  ASSUME ClawInv, Unbind
  PROVE  ClawInv'
<1>1. /\ binding' = NoBinding /\ monitor' = Stopped /\ cancel' = NoMonitor
      /\ deletes' = deletes + 1 /\ unheard' = FALSE /\ bindingRow' = bindingRow
      /\ polls' = polls /\ starts' = starts /\ astray' = astray /\ troubles' = troubles
      /\ codes' = codes
  BY DEF Unbind, clawService
<1>2. deletes \in Nat
  BY ClawParts DEF ClawTyped
<1>3. BindingOnDisk' /\ ~Bound'
  BY <1>1, <1>2 DEF BindingOnDisk, Bound
<1>4. unheard' \in BOOLEAN /\ astray' \in BOOLEAN
  BY <1>1, ClawParts DEF ClawTyped
<1>5. /\ codes' \in Nat /\ starts' \in Nat /\ deletes' \in Nat /\ troubles' \in Nat
      /\ polls' \subseteq Bots
      /\ bindingRow' # NoBinding => IsBinding(bindingRow')
  BY <1>1, <1>2, ClawParts DEF ClawTyped
<1> QED
  BY <1>1, <1>3, <1>4, <1>5, StoppedMonitored

\* The saves of a goroutine that polls: it has a code to confirm, and may take
\* any status but "bound" without a start.
LEMMA PolledKeeps ==
  ASSUME ClawInv, NEW c \in Bots, Polled(c), NEW b, IsBinding(b), NEW saved, SaveLocked(b, saved),
         unheard' = FALSE, monitor' = monitor, cancel' = cancel, deletes' = deletes, codes' = codes,
         \/ b.status # "bound" /\ starts' = starts
         \/ b.token # 0 /\ starts' = starts + 1
  PROVE  ClawInv'
<1>1. /\ binding' # NoBinding => IsBinding(binding')
      /\ binding'.status = b.status /\ binding'.token = b.token
      /\ bindingRow' # NoBinding => IsBinding(bindingRow')
      /\ astray' \in BOOLEAN /\ troubles' \in Nat
      /\ BindingOnDisk'
  BY ClawParts, SaveLockedDoes, SavedOnDisk
<1>2. starts \in Nat /\ starts' \in Nat
  BY ClawParts DEF ClawTyped
<1>3. Bound' => binding'.token # 0 /\ starts' # 0
  BY <1>1, <1>2 DEF Bound
<1>4. cancel' # NoMonitor /\ monitor'[cancel'].at # "off" => monitor'[cancel'].live
  BY ClawParts DEF Heard
<1>5. Heard'
  BY <1>3, <1>4 DEF Heard, Bound
<1>6. polls' \subseteq Bots
  BY ClawParts DEF Polled, ClawTyped
<1>7. ClawTyped'
  BY <1>1, <1>2, <1>6, ClawParts DEF ClawTyped
<1> QED
  BY <1>1, <1>5, <1>7 DEF ClawInv

LEMMA ConfirmedKeeps ==
  ASSUME ClawInv, NEW c \in Bots, QRConfirmed(c)
  PROVE  ClawInv'
<1> DEFINE b == Coded(Tokened(Standing(binding, "bound"), c), 0)
<1>1. PICK saved \in BOOLEAN : SaveLocked(b, saved)
  BY Zenon DEF QRConfirmed, Coded, Tokened, Standing
<1>2. /\ Polled(c) /\ binding # NoBinding /\ starts' = starts + 1 /\ unheard' = FALSE
      /\ monitor' = monitor /\ cancel' = cancel /\ deletes' = deletes /\ codes' = codes
  BY DEF QRConfirmed, Awaits, clawService
<1>3. IsBinding(b) /\ b.token = c /\ c # 0
  <2>1. "bound" \in Stands /\ IsBinding(binding) /\ c # 0
    BY <1>2, ClawParts, ClawAssumption DEF Stands, ClawTyped, Bots
  <2>2. IsBinding(Standing(binding, "bound"))
    BY <2>1, BindingChanges
  <2>3. IsBinding(Tokened(Standing(binding, "bound"), c)) /\ Tokened(Standing(binding, "bound"), c).token = c
    BY <2>2, BindingChanges
  <2> QED
    BY <2>1, <2>3, BindingChanges
<1> HIDE DEF b
<1> QED
  BY <1>1, <1>2, <1>3, PolledKeeps

LEMMA FailedKeeps ==
  ASSUME ClawInv, NEW c \in Bots, QRFailed(c)
  PROVE  ClawInv'
<1> DEFINE b == Coded(Standing(binding, "unbound"), 0)
<1>1. PICK saved \in BOOLEAN : SaveLocked(b, saved)
  BY Zenon DEF QRFailed, Coded, Standing
<1>2. /\ Polled(c) /\ binding # NoBinding /\ starts' = starts /\ unheard' = FALSE
      /\ monitor' = monitor /\ cancel' = cancel /\ deletes' = deletes /\ codes' = codes
  BY DEF QRFailed, Awaits, clawService
<1>3. IsBinding(b) /\ b.status # "bound"
  <2>1. "unbound" \in Stands /\ IsBinding(binding)
    BY <1>2, ClawParts DEF Stands, ClawTyped
  <2>2. IsBinding(Standing(binding, "unbound")) /\ Standing(binding, "unbound").status = "unbound"
    BY <2>1, BindingChanges
  <2> QED
    BY <2>2, BindingChanges
<1> HIDE DEF b
<1> QED
  BY <1>1, <1>2, <1>3, PolledKeeps

LEMMA SameBinding ==
  ASSUME ClawInv, binding' = binding, unheard' = unheard
  PROVE  Bound' => unheard' \/ (Bound /\ ~unheard /\ binding'.token = binding.token)
<1>1. CASE unheard
  BY <1>1, Zenon
<1>2. CASE ~unheard
  BY <1>2 DEF Bound
<1> QED
  BY <1>1, <1>2

\* Steps that change neither binding nor monitors.
LEMMA ForgottenKeeps ==
  ASSUME ClawInv, NEW c \in Bots, QRForgotten(c) \/ WeChatMessage(c)
  PROVE  ClawInv'
<1>1. /\ binding' = binding /\ bindingRow' = bindingRow /\ monitor' = monitor /\ cancel' = cancel
      /\ starts' = starts /\ deletes' = deletes /\ unheard' = unheard /\ astray' = astray
      /\ troubles' = troubles /\ polls' \subseteq polls /\ codes' = codes
  BY DEF QRForgotten, WeChatMessage, Polled, clawCalls, clawService
<1>2. BindingOnDisk'
  BY <1>1 DEF ClawInv, BindingOnDisk
<1> QED
  BY <1>1, <1>2, SameBinding, NoMonitorStep, ClawParts DEF ClawTyped

LEMMA SendBeginsKeeps ==
  ASSUME ClawInv, NEW kind, SendBegins(kind)
  PROVE  ClawInv'
<1>1. /\ binding' = binding /\ bindingRow' = bindingRow /\ monitor' = monitor /\ cancel' = cancel
      /\ starts' = starts /\ deletes' = deletes /\ unheard' = unheard /\ astray' = astray
      /\ troubles' = troubles /\ polls' = polls /\ codes' = codes
  BY DEF SendBegins, clawService
<1>2. BindingOnDisk'
  BY <1>1 DEF ClawInv, BindingOnDisk
<1> QED
  BY <1>1, <1>2, SameBinding, NoMonitorStep, ClawParts DEF ClawTyped

LEMMA DeletedKeeps ==
  ASSUME ClawInv, BindingDeleted
  PROVE  ClawInv'
<1>1. /\ binding' = binding /\ bindingRow' = NoBinding /\ monitor' = monitor /\ cancel' = cancel
      /\ starts' = starts /\ deletes > 0 /\ deletes' = deletes - 1 /\ unheard' = unheard
      /\ troubles' = troubles /\ polls' = polls /\ codes' = codes
  BY DEF BindingDeleted, clawService
<1>2. astray' <=> binding # NoBinding
  BY Zenon DEF BindingDeleted
<1>3. astray' \in BOOLEAN
  BY Zenon DEF BindingDeleted
<1>4. BindingOnDisk'
  BY <1>1, <1>2 DEF BindingOnDisk
<1> QED
  BY <1>1, <1>3, <1>4, SameBinding, NoMonitorStep, ClawParts DEF ClawTyped

LEMMA ForwardKeeps ==
  ASSUME ClawInv, SetForward
  PROVE  ClawInv'
<1>1. PICK saved \in BOOLEAN : SaveLocked(Forwarding(binding, ~binding.forward), saved)
  BY Zenon DEF SetForward, Forwarding
<1>2. /\ Bound /\ binding # NoBinding /\ monitor' = monitor /\ cancel' = cancel /\ starts' = starts
      /\ deletes' = deletes /\ unheard' = unheard /\ polls' = polls /\ codes' = codes
  BY DEF SetForward, Bound, clawService
<1>3. /\ IsBinding(Forwarding(binding, ~binding.forward))
      /\ Forwarding(binding, ~binding.forward).token = binding.token
  BY <1>2, ClawParts, BindingChanges DEF ClawTyped
<1>4. /\ binding' # NoBinding => IsBinding(binding')
      /\ binding'.token = binding.token
      /\ bindingRow' # NoBinding => IsBinding(bindingRow')
      /\ astray' \in BOOLEAN /\ troubles' \in Nat
      /\ BindingOnDisk'
  BY <1>1, <1>3, ClawParts, SaveLockedDoes, SavedOnDisk
<1>5. Bound' => unheard' \/ (Bound /\ ~unheard /\ binding'.token = binding.token)
  BY <1>2, <1>4, Zenon
<1> QED
  BY <1>2, <1>4, <1>5, NoMonitorStep, ClawParts DEF ClawTyped

LEMMA SendSucceedsKeeps ==
  ASSUME ClawInv, NEW kind, SendSucceeds(kind)
  PROVE  ClawInv'
<1>1. /\ monitor' = monitor /\ cancel' = cancel /\ starts' = starts
      /\ deletes' = deletes /\ unheard' = unheard /\ polls' = polls /\ codes' = codes
  BY DEF SendSucceeds, clawService
<1>2. CASE UNCHANGED <<binding, bindingRow, astray, troubles>>
  <2>1. BindingOnDisk'
    BY <1>1, <1>2 DEF ClawInv, BindingOnDisk
  <2> QED
    BY <1>1, <1>2, <2>1, SameBinding, NoMonitorStep, ClawParts DEF ClawTyped
<1>3. ASSUME binding # NoBinding, NEW messages, NEW saved \in BOOLEAN,
             SaveLocked(Showing(binding, messages), saved)
      PROVE  ClawInv'
  <2>1. /\ IsBinding(Showing(binding, messages))
        /\ Showing(binding, messages).token = binding.token
        /\ Showing(binding, messages).status = binding.status
    BY <1>3, ClawParts, BindingChanges DEF ClawTyped
  <2>2. /\ binding' # NoBinding => IsBinding(binding')
        /\ binding'.token = binding.token /\ binding'.status = binding.status
        /\ bindingRow' # NoBinding => IsBinding(bindingRow')
        /\ astray' \in BOOLEAN /\ troubles' \in Nat
        /\ BindingOnDisk'
    BY <1>3, <2>1, ClawParts, SaveLockedDoes, SavedOnDisk
  <2>3. Bound' => Bound
    BY <1>3, <2>2 DEF Bound
  <2>4. Bound' => unheard' \/ (Bound /\ ~unheard /\ binding'.token = binding.token)
    BY <1>1, <2>2, <2>3, Zenon
  <2> QED
    BY <1>1, <2>2, <2>4, NoMonitorStep, ClawParts DEF ClawTyped
<1>4. \/ UNCHANGED <<binding, bindingRow, astray, troubles>>
      \/ binding # NoBinding /\ \E saved \in BOOLEAN :
           SaveLocked(Showing(binding, Append(binding.messages, Reply(sends))), saved)
  BY Zenon DEF SendSucceeds, Showing
<1> QED
  BY <1>2, <1>3, <1>4

LEMMA SendFailsKeeps ==
  ASSUME ClawInv, NEW kind, SendFails(kind)
  PROVE  ClawInv'
<1>1. /\ SetError /\ monitor' = monitor /\ cancel' = cancel /\ starts' = starts
      /\ deletes' = deletes /\ polls' = polls /\ codes' = codes
  BY DEF SendFails, clawService
<1> QED
  BY <1>1, SetErrorDoes, NoMonitorStep, ClawParts DEF ClawTyped

LEMMA StartMonitorKeeps ==
  ASSUME ClawInv, StartMonitor
  PROVE  ClawInv'
<1> DEFINE m == NewMonitor
           r == Enlivened(Placed(Unasked, "started"), TRUE)
<1>1. /\ starts > 0 /\ starts' = starts - 1 /\ Idlers # {} /\ cancel' = m
      /\ monitor' = OneChanged(Stopped, m, r)
  BY Zenon DEF StartMonitor, OneChanged, Enlivened, Placed
<1>2. /\ binding' = binding /\ bindingRow' = bindingRow /\ deletes' = deletes /\ polls' = polls
      /\ unheard' = unheard /\ astray' = astray /\ troubles' = troubles /\ codes' = codes
  BY DEF StartMonitor, clawService
<1>3. m \in Monitors
  BY <1>1 DEF NewMonitor, Idlers
<1>4. IsMonitor(r) /\ r.at = "started" /\ r.live
  <2>1. "started" \in Places
    BY DEF Places
  <2>2. IsMonitor(Placed(Unasked, "started")) /\ Placed(Unasked, "started").at = "started"
    BY <2>1, UnaskedIs, MonitorChanges
  <2>3. IsMonitor(r) /\ r.at = "started" /\ r.live = TRUE
    BY <2>2, MonitorChanges
  <2> QED
    BY <2>3, Zenon
<1> HIDE DEF m, r
<1>5. Monitored(monitor') /\ monitor'[m] = r
  BY <1>1, <1>3, <1>4, StoppedIs, OneMonitor, ClawParts
<1>6. m # NoMonitor
  BY <1>3, ClawParts
<1>7. Heard'
  <2>1. monitor'[cancel'].at = "started" /\ monitor'[cancel'].live /\ cancel' # NoMonitor
    BY <1>1, <1>4, <1>5, <1>6
  <2>2. Bound' /\ binding'.token = 0 => unheard'
    BY <1>2, ClawParts DEF Heard, Bound
  <2> QED
    BY <2>1, <2>2 DEF Heard
<1>8. ClawTyped'
  BY <1>1, <1>2, <1>3, <1>5, ClawParts DEF ClawTyped, Monitored
<1>9. BindingOnDisk'
  BY <1>2 DEF ClawInv, BindingOnDisk
<1> QED
  BY <1>7, <1>8, <1>9 DEF ClawInv

\* What a step of one monitor has to show.
LEMMA OneMonitorStep ==
  ASSUME ClawInv, NEW m \in Monitors, Monitored(monitor'),
         \A n \in Monitors : n # m => monitor'[n] = monitor[n],
         m = cancel => GoesOn(m),
         cancel' = cancel, starts' = starts, deletes' = deletes, polls' = polls, codes' = codes,
         Bound' => unheard' \/ (Bound /\ ~unheard /\ binding'.token = binding.token),
         binding' # NoBinding => IsBinding(binding'),
         bindingRow' # NoBinding => IsBinding(bindingRow'),
         troubles' \in Nat, unheard' \in BOOLEAN, astray' \in BOOLEAN,
         BindingOnDisk'
  PROVE  ClawInv'
<1>1. ASSUME cancel # NoMonitor PROVE GoesOn(cancel)
  <2>1. CASE cancel = m
    BY <2>1
  <2>2. CASE cancel # m
    <3>1. monitor'[cancel] = monitor[cancel]
      BY <1>1, <2>2, ClawParts DEF ClawTyped
    <3> QED
      BY <1>1, <3>1, ClawParts DEF GoesOn, Heard
  <2> QED
    BY <2>1, <2>2
<1>2. Heard'
  BY <1>1, HeardAgain
<1>3. ClawTyped'
  BY ClawParts DEF ClawTyped, Monitored
<1> QED
  BY <1>2, <1>3 DEF ClawInv

LEMMA MonitorOnlyStep ==
  ASSUME ClawInv, MonitorOnly, NEW m \in Monitors, Monitored(monitor'),
         \A n \in Monitors : n # m => monitor'[n] = monitor[n],
         m = cancel => GoesOn(m)
  PROVE  ClawInv'
<1>1. /\ binding' = binding /\ bindingRow' = bindingRow /\ cancel' = cancel
      /\ starts' = starts /\ deletes' = deletes /\ polls' = polls /\ codes' = codes
      /\ unheard' = unheard /\ astray' = astray /\ troubles' = troubles
  BY DEF MonitorOnly, clawService, clawCalls
<1>2. BindingOnDisk'
  BY <1>1 DEF ClawInv, BindingOnDisk
<1> QED
  BY <1>1, <1>2, SameBinding, OneMonitorStep, ClawParts DEF ClawTyped

LEMMA OneSet ==
  ASSUME ClawInv, NEW m \in Monitors, NEW r, IsMonitor(r), monitor' = OneChanged(monitor, m, r)
  PROVE  /\ Monitored(monitor') /\ monitor'[m] = r
         /\ \A n \in Monitors : n # m => monitor'[n] = monitor[n]
<1>1. Monitored(monitor)
  BY ClawParts
<1> QED
  BY <1>1, OneMonitor

LEMMA CancelLives ==
  ASSUME ClawInv, NEW m \in Monitors, m = cancel, monitor[m].at # "off"
  PROVE  monitor[m].live
  BY ClawParts DEF Heard

LEMMA StartsKeeps ==
  ASSUME ClawInv, NEW m \in Monitors, MonitorStarts(m)
  PROVE  ClawInv'
<1>1. MonitorOnly /\ monitor[m].at = "started"
  BY DEF MonitorStarts
<1>2. ASSUME NEW place \in {"looping", "off", "failed"}, Reach(m, place), place = "off" => ~Bound
      PROVE  ClawInv'
  <2>1. /\ Monitored(monitor') /\ monitor'[m].at = place
        /\ monitor'[m].live <=> place # "off" /\ monitor[m].live
        /\ \A n \in Monitors : n # m => monitor'[n] = monitor[n]
    BY <1>2, ReachIs, ClawParts DEF Places
  <2>2. m = cancel => GoesOn(m)
    <3> SUFFICES ASSUME m = cancel PROVE GoesOn(m)
      OBVIOUS
    <3>1. monitor[m].live
      BY <1>1, CancelLives
    <3>2. monitor'[m].at # "off" => monitor'[m].live
      BY <2>1, <3>1
    <3> QED
      BY <1>2, <2>1, <3>2 DEF GoesOn
  <2> QED
    BY <1>1, <2>1, <2>2, MonitorOnlyStep
<1> QED
  BY <1>2 DEF MonitorStarts

LEMMA AsksKeeps ==
  ASSUME ClawInv, NEW m \in Monitors, MonitorAsks(m)
  PROVE  ClawInv'
<1> DEFINE r == Reading(Asking(Placed(monitor[m], "asking"), binding.token), binding.cursor)
<1>1. MonitorOnly /\ monitor[m].at = "looping"
  BY DEF MonitorAsks
<1>2. \/ monitor[m].live /\ Bound /\ monitor' = OneChanged(monitor, m, r)
      \/ ~(monitor[m].live /\ Bound) /\ monitor' = OneChanged(monitor, m, Unasked)
  BY Zenon DEF MonitorAsks, OneChanged, Reading, Asking, Placed
<1>3. IsMonitor(r) /\ r.at = "asking" /\ r.bot = binding.token /\ r.live = monitor[m].live
  <2>1. IsMonitor(monitor[m]) /\ "asking" \in Places
    BY ClawParts DEF Places
  <2>2. /\ IsMonitor(Placed(monitor[m], "asking")) /\ Placed(monitor[m], "asking").at = "asking"
        /\ Placed(monitor[m], "asking").live = monitor[m].live
    BY <2>1, MonitorChanges
  <2>3. /\ IsMonitor(Asking(Placed(monitor[m], "asking"), binding.token))
        /\ Asking(Placed(monitor[m], "asking"), binding.token).at = "asking"
        /\ Asking(Placed(monitor[m], "asking"), binding.token).live = monitor[m].live
        /\ Asking(Placed(monitor[m], "asking"), binding.token).bot = binding.token
    BY <2>2, MonitorChanges
  <2> QED
    BY <2>3, MonitorChanges
<1> HIDE DEF r
<1>4. CASE monitor[m].live /\ Bound /\ monitor' = OneChanged(monitor, m, r)
  <2>1. /\ Monitored(monitor') /\ monitor'[m] = r
        /\ \A n \in Monitors : n # m => monitor'[n] = monitor[n]
    BY <1>3, <1>4, OneSet
  <2>2. monitor'[m].live
    BY <1>3, <1>4, <2>1
  <2>3. GoesOn(m)
    BY <1>3, <2>1, <2>2 DEF GoesOn
  <2> QED
    BY <1>1, <2>1, <2>3, MonitorOnlyStep
<1>5. CASE ~(monitor[m].live /\ Bound) /\ monitor' = OneChanged(monitor, m, Unasked)
  <2>1. /\ Monitored(monitor') /\ monitor'[m] = Unasked
        /\ \A n \in Monitors : n # m => monitor'[n] = monitor[n]
    BY <1>5, UnaskedIs, OneSet
  <2>2. m = cancel => GoesOn(m)
    <3> SUFFICES ASSUME m = cancel PROVE GoesOn(m)
      OBVIOUS
    <3>1. ~Bound
      BY <1>1, <1>5, CancelLives
    <3> QED
      BY <2>1, <3>1, UnaskedIs DEF GoesOn
  <2> QED
    BY <1>1, <2>1, <2>2, MonitorOnlyStep
<1> QED
  BY <1>2, <1>4, <1>5

LEMMA AnsweredKeeps ==
  ASSUME ClawInv, NEW m \in Monitors, MonitorAnswered(m)
  PROVE  ClawInv'
<1>1. MonitorOnly /\ monitor[m].at = "asking" /\ monitor[m].live
  BY DEF MonitorAnswered
<1>2. PICK a \in News(m) :
        monitor' = [monitor EXCEPT ![m].at = "answered", ![m].cursor = a.cursor, ![m].news = a.news]
  BY DEF MonitorAnswered
<1> DEFINE r == Told(Reading(Placed(monitor[m], "answered"), a.cursor), a.news)
<1>3. monitor' = OneChanged(monitor, m, r)
  <2>1. m \in DOMAIN monitor
    BY ClawParts DEF ClawTyped
  <2> QED
    BY <1>2, <2>1, Zenon DEF OneChanged, Told, Reading, Placed
<1>4. IsMonitor(r) /\ r.at = "answered" /\ r.bot = monitor[m].bot /\ r.live = monitor[m].live
  <2>1. IsMonitor(monitor[m]) /\ "answered" \in Places
    BY ClawParts DEF Places
  <2>2. /\ IsMonitor(Placed(monitor[m], "answered")) /\ Placed(monitor[m], "answered").at = "answered"
        /\ Placed(monitor[m], "answered").live = monitor[m].live
        /\ Placed(monitor[m], "answered").bot = monitor[m].bot
    BY <2>1, MonitorChanges
  <2>3. /\ IsMonitor(Reading(Placed(monitor[m], "answered"), a.cursor))
        /\ Reading(Placed(monitor[m], "answered"), a.cursor).at = "answered"
        /\ Reading(Placed(monitor[m], "answered"), a.cursor).live = monitor[m].live
        /\ Reading(Placed(monitor[m], "answered"), a.cursor).bot = monitor[m].bot
    BY <2>2, MonitorChanges
  <2> QED
    BY <2>3, MonitorChanges
<1> HIDE DEF r
<1>5. /\ Monitored(monitor') /\ monitor'[m] = r
      /\ \A n \in Monitors : n # m => monitor'[n] = monitor[n]
  BY <1>3, <1>4, OneSet
<1>6. monitor'[m].live
  BY <1>1, <1>4, <1>5
<1>7. GoesOn(m)
  BY <1>1, <1>4, <1>5, <1>6 DEF GoesOn
<1> QED
  BY <1>1, <1>5, <1>7, MonitorOnlyStep

LEMMA FailsKeeps ==
  ASSUME ClawInv, NEW m \in Monitors, MonitorFails(m)
  PROVE  ClawInv'
<1>1. MonitorOnly /\ monitor[m].at = "asking"
  BY DEF MonitorFails
<1>2. \/ monitor[m].live /\ Reach(m, "failed")
      \/ ~monitor[m].live /\ Reach(m, "off")
  BY Zenon DEF MonitorFails
<1>3. ASSUME NEW place \in {"failed", "off"}, Reach(m, place), place = "off" => ~monitor[m].live
      PROVE  ClawInv'
  <2>1. /\ Monitored(monitor') /\ monitor'[m].at = place
        /\ monitor'[m].live <=> place # "off" /\ monitor[m].live
        /\ \A n \in Monitors : n # m => monitor'[n] = monitor[n]
    BY <1>3, ReachIs, ClawParts DEF Places
  <2>2. m = cancel => GoesOn(m)
    <3> SUFFICES ASSUME m = cancel PROVE GoesOn(m)
      OBVIOUS
    <3>1. monitor[m].live /\ place = "failed"
      BY <1>1, <1>3, CancelLives
    <3>2. monitor'[m].live
      BY <2>1, <3>1
    <3> QED
      BY <2>1, <3>1, <3>2 DEF GoesOn
  <2> QED
    BY <1>1, <2>1, <2>2, MonitorOnlyStep
<1> QED
  BY <1>2, <1>3

LEMMA ReportsKeeps ==
  ASSUME ClawInv, NEW m \in Monitors, MonitorReports(m)
  PROVE  ClawInv'
<1>1. /\ monitor[m].at = "failed" /\ Reach(m, "looping") /\ SetError /\ cancel' = cancel
      /\ starts' = starts /\ deletes' = deletes /\ polls' = polls /\ codes' = codes
  BY DEF MonitorReports, clawService, clawCalls
<1>2. /\ Monitored(monitor') /\ monitor'[m].at = "looping"
      /\ monitor'[m].live <=> monitor[m].live
      /\ \A n \in Monitors : n # m => monitor'[n] = monitor[n]
  BY <1>1, ReachIs, ClawParts DEF Places
<1>3. m = cancel => GoesOn(m)
  <2> SUFFICES ASSUME m = cancel PROVE GoesOn(m)
    OBVIOUS
  <2>1. monitor'[m].live
    BY <1>1, <1>2, CancelLives
  <2> QED
    BY <1>2, <2>1 DEF GoesOn
<1> QED
  BY <1>1, <1>2, <1>3, SetErrorDoes, OneMonitorStep

LEMMA AppliesKeeps ==
  ASSUME ClawInv, NEW m \in Monitors, MonitorApplies(m)
  PROVE  ClawInv'
<1> DEFINE b == Showing(Pointing(binding, monitor[m].cursor), binding.messages \o Unshown(m))
<1>1. /\ monitor[m].at = "answered" /\ binding # NoBinding /\ Reach(m, "looping") /\ cancel' = cancel
      /\ starts' = starts /\ deletes' = deletes /\ polls' = polls /\ codes' = codes
      /\ unheard' = unheard
  BY DEF MonitorApplies, clawService, clawCalls
<1>2. PICK saved \in BOOLEAN :
        SaveLocked([binding EXCEPT !.cursor = monitor[m].cursor, !.messages = @ \o Unshown(m)], saved)
  BY DEF MonitorApplies
<1>3. b = [binding EXCEPT !.cursor = monitor[m].cursor, !.messages = @ \o Unshown(m)]
  BY Zenon DEF Showing, Pointing
<1>4. SaveLocked(b, saved)
  BY <1>2, <1>3, Zenon
<1>5. IsBinding(b) /\ b.token = binding.token /\ b.status = binding.status
  <2>1. /\ IsBinding(Pointing(binding, monitor[m].cursor))
        /\ Pointing(binding, monitor[m].cursor).token = binding.token
        /\ Pointing(binding, monitor[m].cursor).status = binding.status
    BY <1>1, ClawParts, BindingChanges DEF ClawTyped
  <2> QED
    BY <2>1, BindingChanges
<1> HIDE DEF b
<1>6. /\ binding' # NoBinding => IsBinding(binding')
      /\ binding'.token = binding.token /\ binding'.status = binding.status
      /\ bindingRow' # NoBinding => IsBinding(bindingRow')
      /\ astray' \in BOOLEAN /\ troubles' \in Nat
      /\ BindingOnDisk'
  BY <1>4, <1>5, ClawParts, SaveLockedDoes, SavedOnDisk
<1>7. Bound' => Bound
  BY <1>1, <1>6 DEF Bound
<1>8. Bound' => unheard' \/ (Bound /\ ~unheard /\ binding'.token = binding.token)
  BY <1>1, <1>6, <1>7, Zenon
<1>9. /\ Monitored(monitor') /\ monitor'[m].at = "looping"
      /\ monitor'[m].live <=> monitor[m].live
      /\ \A n \in Monitors : n # m => monitor'[n] = monitor[n]
  BY <1>1, ReachIs, ClawParts DEF Places
<1>10. m = cancel => GoesOn(m)
  <2> SUFFICES ASSUME m = cancel PROVE GoesOn(m)
    OBVIOUS
  <2>1. monitor'[m].live
    BY <1>1, <1>9, CancelLives
  <2> QED
    BY <1>9, <2>1 DEF GoesOn
<1> QED
  BY <1>1, <1>6, <1>8, <1>9, <1>10, OneMonitorStep, ClawParts DEF ClawTyped

LEMMA DropsKeeps ==
  ASSUME ClawInv, NEW m \in Monitors, MonitorDrops(m)
  PROVE  ClawInv'
<1>1. /\ MonitorOnly /\ monitor[m].at = "answered" /\ monitor' = OneChanged(monitor, m, Unasked)
      /\ ~(binding # NoBinding /\ binding.token = monitor[m].bot)
  BY DEF MonitorDrops, OneChanged
<1>2. /\ Monitored(monitor') /\ monitor'[m] = Unasked
      /\ \A n \in Monitors : n # m => monitor'[n] = monitor[n]
  BY <1>1, UnaskedIs, OneSet
<1>3. GoesOn(m)
  BY <1>1, <1>2, UnaskedIs DEF GoesOn, Bound
<1> QED
  BY <1>1, <1>2, <1>3, MonitorOnlyStep

LEMMA ClawRestartKeeps ==
  ASSUME ClawInv, ClawRestart
  PROVE  ClawInv'
<1>1. /\ binding' = bindingRow /\ bindingRow' = bindingRow /\ polls' = {} /\ deletes' = 0
      /\ monitor' = [m \in Monitors |-> Unasked] /\ cancel' = NoMonitor
      /\ astray' = FALSE /\ codes' = codes /\ troubles' = troubles + 1
  BY DEF ClawRestart, clawService
<1> DEFINE resumes == bindingRow # NoBinding /\ bindingRow.status = "bound"
<1>2. starts' = IF resumes /\ bindingRow.token # 0 THEN 1 ELSE 0
  BY DEF ClawRestart
<1>3. unheard' = (resumes /\ bindingRow.token = 0)
  BY Zenon DEF ClawRestart
<1>4. unheard' \in BOOLEAN /\ (unheard' <=> resumes /\ bindingRow.token = 0)
  BY <1>3, Zenon
<1>5. Bound' <=> resumes
  BY <1>1 DEF Bound
<1>6. starts' \in Nat /\ (resumes /\ bindingRow.token # 0 => starts' = 1)
  BY <1>2
<1> HIDE DEF resumes
<1>7. Heard'
  BY <1>1, <1>4, <1>5, <1>6 DEF Heard
<1>8. Monitored(monitor')
  BY <1>1, UnaskedIs DEF Monitored
<1>9. ClawTyped'
  <2>1. unheard' \in BOOLEAN /\ astray' \in BOOLEAN
    BY <1>1, <1>4, Zenon
  <2>2. /\ binding' # NoBinding => IsBinding(binding')
        /\ bindingRow' # NoBinding => IsBinding(bindingRow')
    BY <1>1, ClawParts DEF ClawTyped
  <2>3. codes' \in Nat /\ starts' \in Nat /\ deletes' \in Nat /\ troubles' \in Nat
    BY <1>1, <1>6, ClawParts DEF ClawTyped
  <2>4. polls' \subseteq Bots /\ cancel' \in Monitors \cup {NoMonitor}
    BY <1>1
  <2> QED
    BY <1>8, <2>1, <2>2, <2>3, <2>4 DEF ClawTyped, Monitored
<1>10. BindingOnDisk'
  BY <1>1 DEF BindingOnDisk
<1> QED
  BY <1>7, <1>9, <1>10 DEF ClawInv

LEMMA ClawInvInit == ClawInit => ClawInv
<1> SUFFICES ASSUME ClawInit PROVE ClawInv
  OBVIOUS
<1>1. /\ binding = NoBinding /\ bindingRow = NoBinding /\ polls = {} /\ starts = 0 /\ deletes = 0
      /\ monitor = [m \in Monitors |-> Unasked] /\ cancel = NoMonitor /\ codes = 0 /\ troubles = 0
      /\ unheard = FALSE /\ astray = FALSE
  BY DEF ClawInit
<1>2. Monitored(monitor)
  BY <1>1, UnaskedIs DEF Monitored
<1>3. ClawTyped
  BY <1>1, <1>2 DEF ClawTyped, Monitored
<1>4. Heard /\ BindingOnDisk
  BY <1>1 DEF Heard, Bound, BindingOnDisk
<1> QED
  BY <1>3, <1>4 DEF ClawInv

LEMMA ClawInvStep == ClawInv /\ [ClawNext]_clawVars => ClawInv'
<1> SUFFICES ASSUME ClawInv, [ClawNext]_clawVars PROVE ClawInv'
  OBVIOUS
<1>1. ASSUME UNCHANGED clawVars PROVE ClawInv'
  BY <1>1 DEF clawVars, clawCalls, clawService, ClawInv, ClawTyped, Heard, Bound, BindingOnDisk
<1>2. ASSUME NEW c \in Bots, BindingStep(c) \/ WeChatMessage(c) PROVE ClawInv'
  BY <1>2, ConfirmedKeeps, FailedKeeps, ForgottenKeeps DEF BindingStep
<1>3. ASSUME NEW m \in Monitors, MonitorStep(m) PROVE ClawInv'
  BY <1>3, StartsKeeps, AsksKeeps, AnsweredKeeps, FailsKeeps, ReportsKeeps, AppliesKeeps,
     DropsKeeps DEF MonitorStep
<1>4. ASSUME NEW kind, SendStep(kind) PROVE ClawInv'
  BY <1>4, SendBeginsKeeps, SendSucceedsKeeps, SendFailsKeeps DEF SendStep
<1> QED
  BY <1>1, <1>2, <1>3, <1>4, StartQRKeeps, UnbindKeeps, DeletedKeeps, ForwardKeeps,
     StartMonitorKeeps, ClawRestartKeeps DEF ClawNext

\* The inductive invariant of the bridge: types, the monitor of a bound account,
\* and the row of its binding.
THEOREM BridgeCorrect == ClawSpec => []ClawInv
<1> QED
  BY ClawInvInit, ClawInvStep, PTL DEF ClawSpec

\* A bound account is heard: its monitor runs or is about to start, and its row
\* is the binding, for any number of monitors, codes, replies and restarts.
THEOREM BoundAlwaysHeard == ClawSpec => []BoundIsHeard
<1>1. ClawInv => BoundIsHeard
  <2> SUFFICES ASSUME ClawInv PROVE BoundIsHeard
    OBVIOUS
  <2>1. starts \in Nat
    BY ClawParts DEF ClawTyped
  <2>2. Bound /\ ~unheard =>
          starts > 0 \/ (cancel # NoMonitor /\ monitor[cancel].live /\ monitor[cancel].at # "off")
    BY <2>1, ClawParts DEF Heard
  <2> QED
    BY <2>2 DEF BoundIsHeard, ClawInv
<1> QED
  BY <1>1, BridgeCorrect, PTL

-----------------------------------------------------------------------------
(* What the bridge shows. *)

\* Tokens a binding or a monitor can have: of codes that nobody polls any more.
Tokens == (0 .. codes) \ polls
\* The replies shown so far have smaller numbers.
NextReply == IF "reply" \in sending THEN sends ELSE sends + 1

IsCursor(c) == c.bot \in Nat /\ c.after \in Nat /\ c.upto \in Nat
Covered(c, messages) == \A i \in (c.after + 1) .. c.upto : <<c.bot, i>> \in messages
OnceEach(s) == \A i, j \in DOMAIN s : s[i] = s[j] => i = j

\* A binding before saveLocked cuts its messages, and after.
Whole(b, tokens, reply) ==
  /\ IsCursor(b.cursor) /\ b.token \in tokens
  /\ b.messages \in Seq(Nat \X Nat) /\ OnceEach(b.messages)
  /\ Len(b.messages) < MaxShown => Covered(b.cursor, Shown(b))
  /\ \A i \in DOMAIN b.messages : b.messages[i][1] = 0 => b.messages[i][2] < reply
Kept(b, tokens, reply) == Whole(b, tokens, reply) /\ Len(b.messages) <= MaxShown

\* A monitor that reads for the binding: what its cursor stands for is shown,
\* or about to be.
NewsOf(r) == IF r.at = "answered" THEN {r.news[i] : i \in DOMAIN r.news} ELSE {}
ReadsFor(r, b) ==
  b # NoBinding /\ b.token = r.bot /\ r.bot # 0 /\ Len(b.messages) < MaxShown
Listens(r, b, tokens) ==
  /\ r.at \in {"asking", "answered"} =>
       /\ IsCursor(r.cursor) /\ r.bot \in tokens
       /\ ReadsFor(r, b) => Covered(r.cursor, Shown(b) \cup NewsOf(r))
  /\ r.at = "answered" =>
       r.bot # 0 /\ r.news \in Seq({r.bot} \X Nat) /\ OnceEach(r.news)

ServiceTyped ==
  sends \in Nat /\ codes \in 0 .. MaxCodes /\ inbox \in [Bots -> Nat] /\ polls \subseteq 1 .. codes
ShownInv ==
  /\ ServiceTyped
  /\ binding # NoBinding => Kept(binding, Tokens, NextReply)
  /\ bindingRow # NoBinding => Kept(bindingRow, Tokens, NextReply)
  /\ \A m \in Monitors : Listens(monitor[m], binding, Tokens)

LEMMA WholeShows ==
  ASSUME NEW b, b.messages \in Seq(Nat \X Nat)
  PROVE  /\ Len(b.messages) \in Nat /\ DOMAIN b.messages = 1 .. Len(b.messages)
         /\ \A i \in 1 .. Len(b.messages) : b.messages[i] \in Nat \X Nat
         /\ \A x : x \in Shown(b) <=> \E i \in 1 .. Len(b.messages) : b.messages[i] = x
<1>1. /\ Len(b.messages) \in Nat /\ DOMAIN b.messages = 1 .. Len(b.messages)
      /\ b.messages \in [1 .. Len(b.messages) -> Nat \X Nat]
  BY LenProperties
<1> QED
  BY <1>1 DEF Shown

\* A binding with other fields, but the same cursor and messages.
LEMMA WholeAgain ==
  ASSUME NEW b, NEW c, NEW tokens, NEW more, NEW n \in Nat, NEW reply \in Nat, Whole(b, tokens, n),
         c.cursor = b.cursor, c.messages = b.messages, c.token \in more, n <= reply
  PROVE  Whole(c, more, reply)
<1>1. /\ IsCursor(b.cursor) /\ b.messages \in Seq(Nat \X Nat) /\ OnceEach(b.messages)
      /\ Len(b.messages) < MaxShown => Covered(b.cursor, Shown(b))
      /\ \A i \in DOMAIN b.messages : b.messages[i][1] = 0 => b.messages[i][2] < n
  BY DEF Whole
<1>2. Shown(c) = Shown(b)
  BY DEF Shown
<1>3. \A i \in DOMAIN c.messages : c.messages[i][1] = 0 => c.messages[i][2] < reply
  <2>1. \A i \in DOMAIN b.messages : b.messages[i][2] \in Nat
    BY <1>1, WholeShows
  <2> QED
    BY <1>1, <2>1
<1>4. Len(c.messages) < MaxShown => Covered(c.cursor, Shown(c))
  BY <1>1, <1>2
<1>5. IsCursor(c.cursor) /\ c.token \in more /\ c.messages \in Seq(Nat \X Nat) /\ OnceEach(c.messages)
  BY <1>1
<1> QED
  BY <1>3, <1>4, <1>5 DEF Whole

LEMMA ShowingIs ==
  ASSUME NEW b, IsBinding(b)
  PROVE  /\ \A messages :
              /\ Showing(b, messages).messages = messages /\ Showing(b, messages).cursor = b.cursor
              /\ Showing(b, messages).token = b.token
         /\ \A status : Standing(b, status).messages = b.messages /\ Standing(b, status).cursor = b.cursor
         /\ \A code : Coded(b, code).messages = b.messages /\ Coded(b, code).cursor = b.cursor
         /\ \A token : Tokened(b, token).messages = b.messages /\ Tokened(b, token).cursor = b.cursor
         /\ \A cursor : Pointing(b, cursor).messages = b.messages /\ Pointing(b, cursor).cursor = cursor
         /\ \A forward :
              Forwarding(b, forward).messages = b.messages /\ Forwarding(b, forward).cursor = b.cursor
<1>1. b = BindingFields(b)
  BY DEF IsBinding
<1>2. \A messages :
        /\ Showing(b, messages).messages = messages /\ Showing(b, messages).cursor = b.cursor
        /\ Showing(b, messages).token = b.token
  BY <1>1 DEF BindingFields, Showing
<1>3. \A status : Standing(b, status).messages = b.messages /\ Standing(b, status).cursor = b.cursor
  BY <1>1 DEF BindingFields, Standing
<1>4. \A code : Coded(b, code).messages = b.messages /\ Coded(b, code).cursor = b.cursor
  BY <1>1 DEF BindingFields, Coded
<1>5. \A token : Tokened(b, token).messages = b.messages /\ Tokened(b, token).cursor = b.cursor
  BY <1>1 DEF BindingFields, Tokened
<1>6. \A cursor : Pointing(b, cursor).messages = b.messages /\ Pointing(b, cursor).cursor = cursor
  BY <1>1 DEF BindingFields, Pointing
<1>7. \A forward :
        Forwarding(b, forward).messages = b.messages /\ Forwarding(b, forward).cursor = b.cursor
  BY <1>1 DEF BindingFields, Forwarding
<1> QED
  BY <1>2, <1>3, <1>4, <1>5, <1>6, <1>7, Zenon

\* saveLocked cuts nothing, or fills the history.
LEMMA CutKeeps ==
  ASSUME NEW b, IsBinding(b), NEW tokens, NEW reply, Whole(b, tokens, reply)
  PROVE  /\ Kept(Cut(b), tokens, reply) /\ Cut(b).token = b.token
         /\ Len(Cut(b).messages) < MaxShown => Shown(Cut(b)) = Shown(b) /\ Len(b.messages) < MaxShown
<1> DEFINE s == b.messages
           from == Len(s) - MaxShown + 1
           t == IF Len(s) > MaxShown THEN SubSeq(s, from, Len(s)) ELSE s
           c == Cut(b)
<1>1. /\ IsCursor(b.cursor) /\ b.token \in tokens /\ s \in Seq(Nat \X Nat) /\ OnceEach(s)
      /\ Len(s) < MaxShown => Covered(b.cursor, Shown(b))
      /\ \A i \in DOMAIN s : s[i][1] = 0 => s[i][2] < reply
  BY DEF Whole
<1>2. MaxShown \in Nat /\ MaxShown > 0
  BY ClawAssumption
<1>3. Len(s) \in Nat /\ DOMAIN s = 1 .. Len(s) /\ \A i \in 1 .. Len(s) : s[i] \in Nat \X Nat
  BY <1>1, WholeShows
<1>4. c = Showing(b, t)
  BY Zenon DEF Cut, Showing
<1>5. c.messages = t /\ c.cursor = b.cursor /\ c.token = b.token
  BY <1>4, ShowingIs
<1>6. CASE Len(s) <= MaxShown
  <2>1. t = s
    BY <1>2, <1>3, <1>6
  <2> HIDE DEF t, s, c
  <2>2. Shown(c) = Shown(b)
    BY <1>5, <2>1 DEF Shown, s
  <2>3. Whole(c, tokens, reply)
    BY <1>1, <1>5, <2>1, <2>2 DEF Whole
  <2> QED
    BY <1>5, <1>6, <2>1, <2>2, <2>3 DEF Kept, s, c
<1>7. CASE Len(s) > MaxShown
  <2>1. t = SubSeq(s, from, Len(s))
    BY <1>7
  <2> HIDE DEF s, t
  <2>2. from \in Int
    BY <1>2, <1>3
  <2>3. t = SubSeq(s, from, Len(s)) /\ from \in Int
    BY <2>1, <2>2
  <2>4. \A i \in from .. Len(s) : s[i] \in Nat \X Nat
    BY <1>2, <1>3, <1>7
  <2>5. /\ t \in Seq(Nat \X Nat) /\ Len(t) = Len(s) - from + 1
        /\ \A i \in 1 .. Len(t) : t[i] = s[from + i - 1]
    BY <1>2, <1>3, <1>7, <2>3, <2>4, SubSeqProperties
  <2>6. Len(t) = MaxShown /\ DOMAIN t = 1 .. Len(t)
    BY <1>2, <1>3, <2>5, LenProperties
  <2>7. \A i \in 1 .. Len(t) : from + i - 1 \in DOMAIN s
    BY <1>2, <1>3, <1>7, <2>6
  <2>8. OnceEach(t)
    <3> SUFFICES ASSUME NEW i \in 1 .. Len(t), NEW j \in 1 .. Len(t), t[i] = t[j] PROVE i = j
      BY <2>6 DEF OnceEach
    <3>1. s[from + i - 1] = s[from + j - 1]
      BY <2>5
    <3>2. from + i - 1 = from + j - 1
      BY <1>1, <2>7, <3>1 DEF OnceEach
    <3> QED
      BY <1>2, <1>3, <3>2
  <2>9. \A i \in DOMAIN t : t[i][1] = 0 => t[i][2] < reply
    BY <1>1, <2>5, <2>6, <2>7
  <2> HIDE DEF c, from
  <2>10. Whole(c, tokens, reply)
    BY <1>1, <1>2, <1>5, <2>5, <2>6, <2>8, <2>9 DEF Whole
  <2> QED
    BY <1>2, <1>5, <2>6, <2>10 DEF Kept, c
<1> QED
  BY <1>2, <1>3, <1>6, <1>7

LEMMA SaveLockedKeeps ==
  ASSUME NEW b, IsBinding(b), NEW tokens, NEW reply, Whole(b, tokens, reply),
         NEW saved, SaveLocked(b, saved)
  PROVE  /\ Kept(binding', tokens, reply) /\ binding'.token = b.token
         /\ Len(binding'.messages) < MaxShown => Shown(binding') = Shown(b) /\ Len(b.messages) < MaxShown
         /\ bindingRow' \in {bindingRow, binding'}
<1>1. binding' = Cut(b) /\ bindingRow' \in {bindingRow, Cut(b)}
  BY DEF SaveLocked
<1> QED
  BY <1>1, CutKeeps

\* What a handler appends to a binding: messages it does not show yet.
Entries(s) == {s[i] : i \in DOMAIN s}
NewTo(b, more, reply) ==
  /\ more \in Seq(Nat \X Nat) /\ OnceEach(more)
  /\ \A i \in DOMAIN more : more[i] \notin Shown(b)
  /\ \A i \in DOMAIN more : more[i][1] = 0 => more[i][2] < reply

LEMMA AppendedWhole ==
  ASSUME NEW b, IsBinding(b), NEW tokens, NEW reply, Whole(b, tokens, reply),
         NEW more, NewTo(b, more, reply),
         NEW c, c.messages = b.messages \o more, c.token = b.token, IsCursor(c.cursor),
         Len(b.messages) < MaxShown => Covered(c.cursor, Shown(b) \cup Entries(more))
  PROVE  /\ Whole(c, tokens, reply)
         /\ Len(c.messages) < MaxShown => Len(b.messages) < MaxShown
         /\ Shown(c) = Shown(b) \cup Entries(more)
<1> DEFINE s == b.messages
           t == s \o more
<1>1. /\ more \in Seq(Nat \X Nat) /\ OnceEach(more)
      /\ \A i \in DOMAIN more : more[i] \notin Shown(b)
      /\ \A i \in DOMAIN more : more[i][1] = 0 => more[i][2] < reply
  BY DEF NewTo
<1>2. /\ b.token \in tokens /\ s \in Seq(Nat \X Nat) /\ OnceEach(s)
      /\ \A i \in DOMAIN s : s[i][1] = 0 => s[i][2] < reply
  BY DEF Whole
<1>3. /\ Len(s) \in Nat /\ DOMAIN s = 1 .. Len(s) /\ Len(more) \in Nat /\ DOMAIN more = 1 .. Len(more)
      /\ MaxShown \in Nat
  BY <1>1, <1>2, LenProperties, ClawAssumption
<1>4. /\ t \in Seq(Nat \X Nat) /\ Len(t) = Len(s) + Len(more)
      /\ \A i \in 1 .. Len(s) + Len(more) : t[i] = IF i <= Len(s) THEN s[i] ELSE more[i - Len(s)]
  BY <1>1, <1>2, ConcatProperties
<1>5. DOMAIN t = 1 .. Len(s) + Len(more)
  BY <1>4, LenProperties
<1>6. s = b.messages
  OBVIOUS
<1> HIDE DEF t, s
<1>7. /\ \A i \in 1 .. Len(s) : t[i] = s[i]
      /\ \A i \in 1 .. Len(more) : t[Len(s) + i] = more[i]
  <2>1. ASSUME NEW i \in 1 .. Len(s) PROVE t[i] = s[i]
    BY <1>3, <1>4
  <2>2. ASSUME NEW i \in 1 .. Len(more) PROVE t[Len(s) + i] = more[i]
    <3>1. Len(s) + i \in 1 .. Len(s) + Len(more) /\ ~(Len(s) + i <= Len(s)) /\ (Len(s) + i) - Len(s) = i
      BY <1>3
    <3> QED
      BY <1>4, <3>1
  <2> QED
    BY <2>1, <2>2
<1>8. \A k \in DOMAIN t : k \in 1 .. Len(s) \/ \E i \in 1 .. Len(more) : k = Len(s) + i
  <2> SUFFICES ASSUME NEW k \in DOMAIN t, k \notin 1 .. Len(s)
               PROVE  \E i \in 1 .. Len(more) : k = Len(s) + i
    OBVIOUS
  <2>1. k \in 1 .. Len(s) + Len(more)
    BY <1>5
  <2>2. k - Len(s) \in 1 .. Len(more) /\ k = Len(s) + (k - Len(s))
    BY <1>3, <2>1
  <2> QED
    BY <2>2
<1>9. \A i \in 1 .. Len(s) : i \in DOMAIN t
  BY <1>3, <1>5
<1>10. \A i \in 1 .. Len(more) : Len(s) + i \in DOMAIN t
  BY <1>3, <1>5
<1>11. Shown(c) = Shown(b) \cup Entries(more)
  <2>1. Shown(c) = {t[k] : k \in DOMAIN t}
    BY <1>6 DEF Shown, t
  <2>2. Shown(b) = {s[i] : i \in 1 .. Len(s)}
    BY <1>3, <1>6 DEF Shown
  <2>3. ASSUME NEW k \in DOMAIN t PROVE t[k] \in Shown(b) \cup {more[i] : i \in DOMAIN more}
    <3>1. CASE k \in 1 .. Len(s)
      BY <1>7, <2>2, <3>1
    <3>2. CASE k \notin 1 .. Len(s)
      <4>1. PICK i \in 1 .. Len(more) : k = Len(s) + i
        BY <1>8, <3>2
      <4> QED
        BY <1>3, <1>7, <4>1
    <3> QED
      BY <3>1, <3>2
  <2>4. \A x \in Shown(b) \cup {more[i] : i \in DOMAIN more} : x \in Shown(c)
    BY <1>3, <1>7, <1>9, <1>10, <2>1, <2>2
  <2> QED
    BY <2>1, <2>3, <2>4 DEF Entries
<1>12. OnceEach(t)
  <2> SUFFICES ASSUME NEW i \in DOMAIN t, NEW j \in DOMAIN t, t[i] = t[j] PROVE i = j
    BY DEF OnceEach
  <2>1. ASSUME NEW x \in 1 .. Len(s), NEW y \in 1 .. Len(more), s[x] = more[y] PROVE FALSE
    BY <1>1, <1>3, <1>6, <2>1 DEF Shown
  <2>2. CASE i \in 1 .. Len(s) /\ j \in 1 .. Len(s)
    BY <1>2, <1>3, <1>7, <2>2 DEF OnceEach
  <2>3. CASE i \notin 1 .. Len(s) /\ j \notin 1 .. Len(s)
    <3>1. PICK x \in 1 .. Len(more), y \in 1 .. Len(more) : i = Len(s) + x /\ j = Len(s) + y
      BY <1>8, <2>3
    <3>2. more[x] = more[y]
      BY <1>7, <3>1
    <3> QED
      BY <1>1, <1>3, <3>1, <3>2 DEF OnceEach
  <2>4. CASE i \in 1 .. Len(s) /\ j \notin 1 .. Len(s)
    <3>1. PICK y \in 1 .. Len(more) : j = Len(s) + y
      BY <1>8, <2>4
    <3>2. s[i] = more[y]
      BY <1>7, <2>4, <3>1
    <3> QED
      BY <2>1, <2>4, <3>2
  <2>5. CASE i \notin 1 .. Len(s) /\ j \in 1 .. Len(s)
    <3>1. PICK x \in 1 .. Len(more) : i = Len(s) + x
      BY <1>8, <2>5
    <3>2. s[j] = more[x]
      BY <1>7, <2>5, <3>1
    <3> QED
      BY <2>1, <2>5, <3>2
  <2> QED
    BY <2>2, <2>3, <2>4, <2>5
<1>13. \A k \in DOMAIN t : t[k][1] = 0 => t[k][2] < reply
  <2> SUFFICES ASSUME NEW k \in DOMAIN t PROVE t[k][1] = 0 => t[k][2] < reply
    OBVIOUS
  <2>1. CASE k \in 1 .. Len(s)
    BY <1>2, <1>3, <1>7, <2>1
  <2>2. CASE k \notin 1 .. Len(s)
    <3>1. PICK i \in 1 .. Len(more) : k = Len(s) + i
      BY <1>8, <2>2
    <3> QED
      BY <1>1, <1>3, <1>7, <3>1
  <2> QED
    BY <2>1, <2>2
<1>14. Len(t) < MaxShown => Len(s) < MaxShown
  BY <1>3, <1>4
<1>15. c.messages = t
  BY <1>6 DEF t
<1>16. Len(c.messages) < MaxShown => Covered(c.cursor, Shown(c))
  BY <1>6, <1>11, <1>14, <1>15
<1>17. Whole(c, tokens, reply)
  BY <1>2, <1>4, <1>12, <1>13, <1>15, <1>16 DEF Whole
<1> QED
  BY <1>6, <1>11, <1>14, <1>15, <1>17

-----------------------------------------------------------------------------
\* A step after which the binding shows what it showed, and perhaps more, or is
\* nobody's for whom a monitor can be reading.
Grows(b, c, tokens) ==
  c # NoBinding =>
    \/ c.token = 0 \/ c.token \notin tokens
    \/ /\ b # NoBinding /\ c.token = b.token
       /\ Len(c.messages) < MaxShown => Len(b.messages) < MaxShown /\ Shown(b) \subseteq Shown(c)

LEMMA ListensStill ==
  ASSUME NEW r, NEW b, NEW c, NEW tokens, NEW more, Listens(r, b, tokens), tokens \subseteq more,
         Grows(b, c, tokens)
  PROVE  Listens(r, c, more)
<1>1. ASSUME r.at \in {"asking", "answered"}
      PROVE  /\ IsCursor(r.cursor) /\ r.bot \in more
             /\ ReadsFor(r, c) => Covered(r.cursor, Shown(c) \cup NewsOf(r))
  <2>1. IsCursor(r.cursor) /\ r.bot \in tokens
    BY <1>1 DEF Listens
  <2>2. ASSUME ReadsFor(r, c) PROVE Covered(r.cursor, Shown(c) \cup NewsOf(r))
    <3>1. ReadsFor(r, b) /\ Shown(b) \subseteq Shown(c)
      BY <2>1, <2>2 DEF ReadsFor, Grows
    <3>2. Covered(r.cursor, Shown(b) \cup NewsOf(r))
      BY <1>1, <3>1 DEF Listens
    <3> QED
      BY <3>1, <3>2 DEF Covered
  <2> QED
    BY <2>1, <2>2
<1> QED
  BY <1>1 DEF Listens

\* A monitor that does not read, or reads as before.
Reads(r) == r.at \in {"asking", "answered"}
SameReading(r, old) ==
  Reads(r) => r.at = old.at /\ r.bot = old.bot /\ r.cursor = old.cursor /\ r.news = old.news

LEMMA ListensSame ==
  ASSUME NEW r, NEW old, SameReading(r, old), NEW b, NEW tokens, Listens(old, b, tokens)
  PROVE  Listens(r, b, tokens)
<1>1. CASE ~Reads(r)
  BY <1>1 DEF Reads, Listens
<1>2. CASE Reads(r)
  <2>1. r.at = old.at /\ r.bot = old.bot /\ r.cursor = old.cursor /\ r.news = old.news
    BY <1>2 DEF SameReading
  <2>2. NewsOf(r) = NewsOf(old) /\ (ReadsFor(r, b) <=> ReadsFor(old, b))
    BY <2>1 DEF NewsOf, ReadsFor
  <2> QED
    BY <2>1, <2>2 DEF Listens
<1> QED
  BY <1>1, <1>2

LEMMA ShownParts ==
  ASSUME ShownInv
  PROVE  /\ sends \in Nat /\ codes \in Nat /\ codes <= MaxCodes /\ MaxCodes \in Nat
         /\ inbox \in [Bots -> Nat] /\ polls \subseteq 1 .. codes
         /\ NextReply \in Nat /\ NextReply <= sends + 1 /\ 0 \in Tokens
         /\ binding # NoBinding => Kept(binding, Tokens, NextReply)
         /\ bindingRow # NoBinding => Kept(bindingRow, Tokens, NextReply)
         /\ \A m \in Monitors : Listens(monitor[m], binding, Tokens)
<1>1. sends \in Nat /\ codes \in 0 .. MaxCodes /\ inbox \in [Bots -> Nat] /\ polls \subseteq 1 .. codes
  BY DEF ShownInv, ServiceTyped
<1>2. MaxCodes \in Nat
  BY ClawAssumption
<1>3. codes \in Nat /\ codes <= MaxCodes
  BY <1>1, <1>2
<1>4. 0 \in Tokens
  BY <1>1, <1>3 DEF Tokens
<1>5. NextReply \in Nat /\ NextReply <= sends + 1
  BY <1>1 DEF NextReply
<1> QED
  BY <1>1, <1>2, <1>3, <1>4, <1>5 DEF ShownInv

LEMMA KeptAgain ==
  ASSUME NEW b, NEW tokens, NEW more, NEW n \in Nat, NEW reply \in Nat, Kept(b, tokens, n),
         tokens \subseteq more, n <= reply
  PROVE  Kept(b, more, reply)
<1>1. b.token \in more /\ Whole(b, tokens, n)
  BY DEF Kept, Whole
<1>2. Whole(b, more, reply)
  BY <1>1, WholeAgain
<1> QED
  BY <1>2 DEF Kept

\* What the service and the senders do between them.
ServiceGoesOn ==
  ServiceTyped' /\ Tokens \subseteq Tokens' /\ NextReply <= NextReply' /\ NextReply' \in Nat

LEMMA ServiceSame ==
  ASSUME ShownInv, sends' = sends, codes' = codes, inbox' = inbox, polls' = polls, sending' = sending
  PROVE  ServiceGoesOn /\ Tokens' = Tokens /\ NextReply' = NextReply
<1>1. ServiceTyped'
  BY DEF ShownInv, ServiceTyped
<1>2. Tokens' = Tokens
  BY DEF Tokens
<1>3. NextReply' = NextReply
  BY DEF NextReply
<1>4. NextReply \in Nat
  BY ShownParts
<1> QED
  BY <1>1, <1>2, <1>3, <1>4 DEF ServiceGoesOn

\* What a step has to show.
LEMMA ShownStep ==
  ASSUME ShownInv, ServiceGoesOn,
         binding' # NoBinding => Kept(binding', Tokens', NextReply'),
         bindingRow' \in {bindingRow, binding', NoBinding},
         \A m \in Monitors : Listens(monitor'[m], binding', Tokens')
  PROVE  ShownInv'
<1>1. ASSUME bindingRow # NoBinding PROVE Kept(bindingRow, Tokens', NextReply')
  BY <1>1, ShownParts, KeptAgain DEF ServiceGoesOn
<1>2. bindingRow' # NoBinding => Kept(bindingRow', Tokens', NextReply')
  BY <1>1
<1> QED
  BY <1>2 DEF ShownInv, ServiceGoesOn

\* A step of the binding, which the monitors read as before.
LEMMA ShownBindingStep ==
  ASSUME ShownInv, ServiceGoesOn,
         binding' # NoBinding => Kept(binding', Tokens', NextReply'),
         bindingRow' \in {bindingRow, binding', NoBinding},
         Grows(binding, binding', Tokens),
         \A m \in Monitors : SameReading(monitor'[m], monitor[m])
  PROVE  ShownInv'
<1>1. ASSUME NEW m \in Monitors PROVE Listens(monitor'[m], binding', Tokens')
  <2>1. Listens(monitor[m], binding, Tokens)
    BY ShownParts
  <2>2. Listens(monitor'[m], binding, Tokens)
    BY <2>1, ListensSame
  <2> QED
    BY <2>2, ListensStill DEF ServiceGoesOn
<1> QED
  BY <1>1, ShownStep

\* A save that leaves cursor and messages alone.
LEMMA SavedShows ==
  ASSUME ShownInv, ServiceGoesOn, binding # NoBinding, NEW b, IsBinding(b),
         b.cursor = binding.cursor, b.messages = binding.messages, b.token \in Tokens',
         b.token = binding.token \/ b.token \notin Tokens,
         NEW saved, SaveLocked(b, saved),
         \A m \in Monitors : SameReading(monitor'[m], monitor[m])
  PROVE  ShownInv'
<1>1. Whole(binding, Tokens, NextReply) /\ NextReply \in Nat
  BY ShownParts DEF Kept
<1>2. Whole(b, Tokens', NextReply')
  BY <1>1, WholeAgain DEF ServiceGoesOn
<1>3. /\ Kept(binding', Tokens', NextReply') /\ binding'.token = b.token
      /\ Len(binding'.messages) < MaxShown => Shown(binding') = Shown(b) /\ Len(b.messages) < MaxShown
      /\ bindingRow' \in {bindingRow, binding'}
  BY <1>2, SaveLockedKeeps
<1>4. Shown(b) = Shown(binding)
  BY DEF Shown
<1>5. Grows(binding, binding', Tokens)
  BY <1>3, <1>4 DEF Grows
<1> QED
  BY <1>3, <1>5, ShownBindingStep

LEMMA SameMonitorsRead ==
  ASSUME monitor' = monitor
  PROVE  \A m \in Monitors : SameReading(monitor'[m], monitor[m])
  BY DEF SameReading

LEMMA StoppedReads ==
  ASSUME ClawInv
  PROVE  \A m \in Monitors : SameReading(Stopped[m], monitor[m])
<1>1. CASE cancel = NoMonitor
  BY <1>1 DEF Stopped, SameReading
<1>2. CASE cancel # NoMonitor
  <2>1. cancel \in Monitors /\ IsMonitor(monitor[cancel]) /\ DOMAIN monitor = Monitors
    BY <1>2, ClawParts DEF ClawTyped
  <2> DEFINE r == Enlivened(monitor[cancel], FALSE)
  <2>2. SameReading(r, monitor[cancel])
    <3>1. monitor[cancel] = MonitorFields(monitor[cancel])
      BY <2>1 DEF IsMonitor
    <3> QED
      BY <3>1 DEF MonitorFields, Enlivened, SameReading
  <2>3. Stopped = [monitor EXCEPT ![cancel] = r]
    BY <1>2, Zenon DEF Stopped, Enlivened
  <2> HIDE DEF r
  <2>4. Stopped[cancel] = r
    BY <2>1, <2>3
  <2> QED
    BY <2>2, <2>4, StoppedIs, ClawParts DEF SameReading
<1> QED
  BY <1>1, <1>2

\* Binding and monitors are left alone.
LEMMA SameBindingShows ==
  ASSUME ShownInv, ServiceGoesOn, binding' = binding, bindingRow' \in {bindingRow, NoBinding},
         \A m \in Monitors : SameReading(monitor'[m], monitor[m])
  PROVE  ShownInv'
<1>1. binding' # NoBinding => Kept(binding', Tokens', NextReply')
  BY ShownParts, KeptAgain DEF ServiceGoesOn
<1>2. Grows(binding, binding', Tokens)
  BY DEF Grows
<1> QED
  BY <1>1, <1>2, ShownBindingStep

-----------------------------------------------------------------------------
LEMMA StartQRShows ==
  ASSUME ClawInv, ShownInv, NEW saved \in BOOLEAN, StartQR(saved)
  PROVE  ShownInv'
<1> DEFINE fresh == [status |-> "unbound", code |-> 0, token |-> 0, cursor |-> NoCursor,
                     messages |-> <<>>, forward |-> FALSE]
           b == IF binding # NoBinding THEN binding ELSE fresh
           c == Coded(Standing(b, "waiting"), codes + 1)
<1>1. /\ monitor' = Stopped /\ SaveLocked(c, saved) /\ codes < MaxCodes /\ codes' = codes + 1
      /\ polls' = (IF saved THEN polls \cup {codes + 1} ELSE polls)
      /\ inbox' = inbox /\ sends' = sends /\ sending' = sending
  BY Zenon DEF StartQR, Coded, Standing
<1>2. polls' \subseteq polls \cup {codes + 1}
  BY <1>1
<1>3. ServiceGoesOn
  <2>1. ServiceTyped'
    BY <1>1, <1>2, ShownParts DEF ServiceTyped
  <2>2. Tokens \subseteq Tokens'
    BY <1>1, <1>2, ShownParts DEF Tokens
  <2>3. NextReply' = NextReply
    BY <1>1 DEF NextReply
  <2> QED
    BY <2>1, <2>2, <2>3, ShownParts DEF ServiceGoesOn
<1>4. \A m \in Monitors : SameReading(monitor'[m], monitor[m])
  BY <1>1, StoppedReads
<1>5. IsBinding(fresh) /\ fresh.token = 0 /\ fresh.cursor = NoCursor /\ fresh.messages = <<>>
  BY DEF IsBinding, BindingFields, Stands
<1> HIDE DEF fresh
<1>6. IsBinding(b)
  BY <1>5, ClawParts DEF ClawTyped
<1> HIDE DEF b
<1>7. IsBinding(c) /\ c.token = b.token /\ c.cursor = b.cursor /\ c.messages = b.messages
  <2>1. "waiting" \in Stands
    BY DEF Stands
  <2>2. /\ IsBinding(Standing(b, "waiting")) /\ Standing(b, "waiting").token = b.token
        /\ Standing(b, "waiting").cursor = b.cursor /\ Standing(b, "waiting").messages = b.messages
    BY <1>6, <2>1, BindingChanges, ShowingIs
  <2> QED
    BY <2>2, BindingChanges, ShowingIs
<1> HIDE DEF c
<1>8. CASE binding # NoBinding
  <2>1. b = binding
    BY <1>8 DEF b
  <2>2. b.token \in Tokens /\ b.token \in Tokens'
    BY <1>3, <1>8, <2>1, ShownParts DEF Kept, Whole, ServiceGoesOn
  <2> QED
    BY <1>1, <1>3, <1>4, <1>7, <1>8, <2>1, <2>2, SavedShows
<1>9. CASE binding = NoBinding
  <2>1. c.token = 0 /\ c.cursor = NoCursor /\ c.messages = <<>>
    BY <1>5, <1>7, <1>9 DEF b
  <2>2. <<>> \in Seq(Nat \X Nat) /\ DOMAIN <<>> = {} /\ Len(<<>>) = 0
    OBVIOUS
  <2>3. IsCursor(NoCursor) /\ (NoCursor.after + 1) .. NoCursor.upto = {}
    BY DEF IsCursor, NoCursor
  <2>4. Covered(NoCursor, Shown(c)) /\ OnceEach(<<>>)
    BY <2>2, <2>3 DEF Covered, OnceEach
  <2>5. 0 \in Tokens'
    BY <1>3, ShownParts DEF ServiceGoesOn
  <2>6. Whole(c, Tokens', NextReply')
    BY <2>1, <2>2, <2>3, <2>4, <2>5 DEF Whole
  <2>7. /\ Kept(binding', Tokens', NextReply') /\ binding'.token = 0
        /\ bindingRow' \in {bindingRow, binding'}
    BY <1>1, <1>7, <2>1, <2>6, SaveLockedKeeps
  <2>8. Grows(binding, binding', Tokens)
    BY <2>7 DEF Grows
  <2> QED
    BY <1>3, <1>4, <2>7, <2>8, ShownBindingStep
<1> QED
  BY <1>8, <1>9

\* The saves of a goroutine that polls a code.
LEMMA PolledShows ==
  ASSUME ClawInv, ShownInv, NEW c \in Bots, Polled(c), binding # NoBinding, NEW b, IsBinding(b),
         b.cursor = binding.cursor, b.messages = binding.messages, b.token \in {c, binding.token},
         NEW saved, SaveLocked(b, saved),
         monitor' = monitor, inbox' = inbox, codes' = codes, sends' = sends, sending' = sending
  PROVE  ShownInv'
<1>1. c \in polls /\ polls' = polls \ {c}
  BY DEF Polled
<1>2. ServiceGoesOn /\ c \in Tokens' /\ c \notin Tokens
  <2>1. ServiceTyped'
    BY <1>1, ShownParts DEF ServiceTyped
  <2>2. Tokens \subseteq Tokens' /\ c \in Tokens' /\ c \notin Tokens
    BY <1>1, ShownParts DEF Tokens
  <2>3. NextReply' = NextReply
    BY DEF NextReply
  <2> QED
    BY <2>1, <2>2, <2>3, ShownParts DEF ServiceGoesOn
<1>3. binding.token \in Tokens'
  BY <1>2, ShownParts DEF Kept, Whole, ServiceGoesOn
<1> QED
  BY <1>2, <1>3, SameMonitorsRead, SavedShows

LEMMA ConfirmedShows ==
  ASSUME ClawInv, ShownInv, NEW c \in Bots, QRConfirmed(c)
  PROVE  ShownInv'
<1> DEFINE b == Coded(Tokened(Standing(binding, "bound"), c), 0)
<1>1. PICK saved \in BOOLEAN : SaveLocked(b, saved)
  BY Zenon DEF QRConfirmed, Coded, Tokened, Standing
<1>2. /\ Polled(c) /\ binding # NoBinding /\ monitor' = monitor
      /\ inbox' = inbox /\ codes' = codes /\ sends' = sends /\ sending' = sending
  BY DEF QRConfirmed, Awaits, clawService
<1> DEFINE x == Standing(binding, "bound")
           y == Tokened(x, c)
<1>3. IsBinding(x) /\ x.cursor = binding.cursor /\ x.messages = binding.messages
  <2>1. "bound" \in Stands /\ IsBinding(binding)
    BY <1>2, ClawParts DEF Stands, ClawTyped
  <2> QED
    BY <2>1, BindingChanges, ShowingIs
<1> HIDE DEF x
<1>4. IsBinding(y) /\ y.token = c /\ y.cursor = binding.cursor /\ y.messages = binding.messages
  BY <1>3, BindingChanges, ShowingIs
<1> HIDE DEF y
<1>5. b = Coded(y, 0)
  BY DEF x, y
<1> HIDE DEF b
<1>6. IsBinding(b) /\ b.token = c /\ b.cursor = binding.cursor /\ b.messages = binding.messages
  BY <1>4, <1>5, BindingChanges, ShowingIs
<1> QED
  BY <1>1, <1>2, <1>6, PolledShows

LEMMA FailedShows ==
  ASSUME ClawInv, ShownInv, NEW c \in Bots, QRFailed(c)
  PROVE  ShownInv'
<1> DEFINE x == Standing(binding, "unbound")
           b == Coded(x, 0)
<1>1. PICK saved \in BOOLEAN : SaveLocked(b, saved)
  BY Zenon DEF QRFailed, Coded, Standing
<1>2. /\ Polled(c) /\ binding # NoBinding /\ monitor' = monitor
      /\ inbox' = inbox /\ codes' = codes /\ sends' = sends /\ sending' = sending
  BY DEF QRFailed, Awaits, clawService
<1>3. /\ IsBinding(x) /\ x.token = binding.token
      /\ x.cursor = binding.cursor /\ x.messages = binding.messages
  <2>1. "unbound" \in Stands /\ IsBinding(binding)
    BY <1>2, ClawParts DEF Stands, ClawTyped
  <2> QED
    BY <2>1, BindingChanges, ShowingIs
<1> HIDE DEF x
<1>4. /\ IsBinding(b) /\ b.token = binding.token
      /\ b.cursor = binding.cursor /\ b.messages = binding.messages
  BY <1>3, BindingChanges, ShowingIs
<1> HIDE DEF b
<1> QED
  BY <1>1, <1>2, <1>4, PolledShows

LEMMA ForgottenShows ==
  ASSUME ShownInv, NEW c \in Bots, QRForgotten(c)
  PROVE  ShownInv'
<1>1. /\ polls' = polls \ {c} /\ monitor' = monitor /\ binding' = binding /\ bindingRow' = bindingRow
      /\ inbox' = inbox /\ codes' = codes /\ sends' = sends /\ sending' = sending
  BY DEF QRForgotten, Polled, clawService
<1>2. ServiceTyped'
  BY <1>1, ShownParts DEF ServiceTyped
<1>3. Tokens \subseteq Tokens'
  BY <1>1 DEF Tokens
<1>4. NextReply' = NextReply
  BY <1>1 DEF NextReply
<1> QED
  BY <1>1, <1>2, <1>3, <1>4, ShownParts, SameMonitorsRead, SameBindingShows DEF ServiceGoesOn

LEMMA WeChatMessageShows ==
  ASSUME ShownInv, NEW c \in Bots, WeChatMessage(c)
  PROVE  ShownInv'
<1>1. /\ polls' = polls /\ monitor' = monitor /\ binding' = binding /\ bindingRow' = bindingRow
      /\ inbox' = [inbox EXCEPT ![c] = @ + 1] /\ codes' = codes /\ sends' = sends /\ sending' = sending
  BY DEF WeChatMessage, clawCalls
<1>2. inbox' \in [Bots -> Nat]
  BY <1>1, ShownParts
<1>3. ServiceTyped'
  BY <1>1, <1>2, ShownParts DEF ServiceTyped
<1>4. Tokens' = Tokens
  BY <1>1 DEF Tokens
<1>5. NextReply' = NextReply
  BY <1>1 DEF NextReply
<1> QED
  BY <1>1, <1>3, <1>4, <1>5, ShownParts, SameMonitorsRead, SameBindingShows DEF ServiceGoesOn

LEMMA UnbindShows ==
  ASSUME ClawInv, ShownInv, Unbind
  PROVE  ShownInv'
<1>1. /\ binding' = NoBinding /\ monitor' = Stopped /\ bindingRow' = bindingRow
      /\ polls' = polls /\ inbox' = inbox /\ codes' = codes /\ sends' = sends /\ sending' = sending
  BY DEF Unbind, clawService
<1>2. Grows(binding, binding', Tokens)
  BY <1>1 DEF Grows
<1>3. \A m \in Monitors : SameReading(monitor'[m], monitor[m])
  BY <1>1, StoppedReads
<1> QED
  BY <1>1, <1>2, <1>3, ServiceSame, ShownBindingStep

LEMMA DeletedShows ==
  ASSUME ShownInv, BindingDeleted
  PROVE  ShownInv'
<1>1. /\ binding' = binding /\ monitor' = monitor /\ bindingRow' = NoBinding
      /\ polls' = polls /\ inbox' = inbox /\ codes' = codes /\ sends' = sends /\ sending' = sending
  BY DEF BindingDeleted, clawService
<1> QED
  BY <1>1, ServiceSame, SameMonitorsRead, SameBindingShows

LEMMA ForwardShows ==
  ASSUME ClawInv, ShownInv, SetForward
  PROVE  ShownInv'
<1> DEFINE b == Forwarding(binding, ~binding.forward)
<1>1. PICK saved \in BOOLEAN : SaveLocked(b, saved)
  BY Zenon DEF SetForward, Forwarding
<1>2. /\ binding # NoBinding /\ monitor' = monitor /\ sends' = sends + 1
      /\ polls' = polls /\ inbox' = inbox /\ codes' = codes /\ sending' = sending
  BY DEF SetForward, Bound, clawService
<1>3. ServiceGoesOn /\ Tokens' = Tokens
  <2>1. ServiceTyped'
    BY <1>2, ShownParts DEF ServiceTyped
  <2>2. Tokens' = Tokens
    BY <1>2 DEF Tokens
  <2>3. NextReply <= NextReply' /\ NextReply' \in Nat
    BY <1>2, ShownParts DEF NextReply
  <2> QED
    BY <2>1, <2>2, <2>3 DEF ServiceGoesOn
<1>4. /\ IsBinding(b) /\ b.token = binding.token
      /\ b.cursor = binding.cursor /\ b.messages = binding.messages
  BY <1>2, ClawParts, BindingChanges, ShowingIs DEF ClawTyped
<1> HIDE DEF b
<1>5. b.token \in Tokens'
  BY <1>2, <1>3, <1>4, ShownParts DEF Kept, Whole
<1> QED
  BY <1>1, <1>2, <1>3, <1>4, <1>5, SameMonitorsRead, SavedShows

-----------------------------------------------------------------------------
LEMMA SetErrorShows ==
  ASSUME ClawInv, ShownInv, SetError, ServiceGoesOn, Tokens' = Tokens,
         \A m \in Monitors : SameReading(monitor'[m], monitor[m])
  PROVE  ShownInv'
<1>1. CASE binding = NoBinding
  <2>1. binding' = binding /\ bindingRow' = bindingRow
    BY <1>1 DEF SetError
  <2> QED
    BY <2>1, SameBindingShows
<1>2. CASE binding # NoBinding
  <2> DEFINE b == Standing(binding, "bound")
  <2>1. PICK saved \in BOOLEAN : SaveLocked(b, saved)
    BY <1>2, Zenon DEF SetError, Standing
  <2>2. /\ IsBinding(b) /\ b.token = binding.token
        /\ b.cursor = binding.cursor /\ b.messages = binding.messages
    <3>1. "bound" \in Stands /\ IsBinding(binding)
      BY <1>2, ClawParts DEF Stands, ClawTyped
    <3> QED
      BY <3>1, BindingChanges, ShowingIs
  <2> HIDE DEF b
  <2>3. b.token \in Tokens'
    BY <1>2, <2>2, ShownParts DEF Kept, Whole
  <2> QED
    BY <1>2, <2>1, <2>2, <2>3, SavedShows
<1> QED
  BY <1>1, <1>2

LEMMA SendBeginsShows ==
  ASSUME ShownInv, NEW kind, SendBegins(kind)
  PROVE  ShownInv'
<1>1. /\ binding' = binding /\ bindingRow' = bindingRow /\ monitor' = monitor /\ sends' = sends + 1
      /\ polls' = polls /\ inbox' = inbox /\ codes' = codes /\ sending' = sending \cup {kind}
  BY DEF SendBegins, clawService
<1>2. ServiceTyped'
  BY <1>1, ShownParts DEF ServiceTyped
<1>3. Tokens' = Tokens
  BY <1>1 DEF Tokens
<1>4. NextReply <= NextReply' /\ NextReply' \in Nat
  BY <1>1, ShownParts DEF NextReply
<1> QED
  BY <1>1, <1>2, <1>3, <1>4, SameMonitorsRead, SameBindingShows DEF ServiceGoesOn

\* A call that sends ends, and no other message is a reply of its number.
LEMMA SendEnds ==
  ASSUME ShownInv, NEW kind, kind \in sending, sending' = sending \ {kind},
         sends' = sends, codes' = codes, inbox' = inbox, polls' = polls
  PROVE  /\ ServiceGoesOn /\ Tokens' = Tokens
         /\ kind = "reply" => NextReply = sends /\ NextReply' = sends + 1
<1>1. ServiceTyped'
  BY ShownParts DEF ServiceTyped
<1>2. Tokens' = Tokens
  BY DEF Tokens
<1>3. /\ NextReply <= NextReply' /\ NextReply' \in Nat
      /\ kind = "reply" => NextReply = sends /\ NextReply' = sends + 1
  BY ShownParts DEF NextReply
<1> QED
  BY <1>1, <1>2, <1>3 DEF ServiceGoesOn

LEMMA SendFailsShows ==
  ASSUME ClawInv, ShownInv, NEW kind, SendFails(kind)
  PROVE  ShownInv'
<1>1. /\ SetError /\ kind \in sending /\ sending' = sending \ {kind} /\ monitor' = monitor
      /\ sends' = sends /\ codes' = codes /\ inbox' = inbox /\ polls' = polls
  BY DEF SendFails, clawService
<1> QED
  BY <1>1, SendEnds, SameMonitorsRead, SetErrorShows

\* Saving a binding to which messages were appended.
LEMMA AppendedShows ==
  ASSUME ClawInv, ShownInv, ServiceGoesOn, Tokens' = Tokens, binding # NoBinding,
         NEW more, NewTo(binding, more, NextReply'),
         NEW c, IsBinding(c), c.messages = binding.messages \o more, c.token = binding.token,
         IsCursor(c.cursor),
         Len(binding.messages) < MaxShown => Covered(c.cursor, Shown(binding) \cup Entries(more)),
         NEW saved, SaveLocked(c, saved),
         \A m \in Monitors : SameReading(monitor'[m], monitor[m])
  PROVE  ShownInv'
<1>1. IsBinding(binding) /\ Whole(binding, Tokens, NextReply) /\ NextReply \in Nat
  BY ClawParts, ShownParts DEF ClawTyped, Kept
<1>2. binding.token \in Tokens' /\ NextReply <= NextReply' /\ NextReply' \in Nat
  BY <1>1 DEF Whole, ServiceGoesOn
<1>3. Whole(binding, Tokens', NextReply')
  BY <1>1, <1>2, WholeAgain
<1>4. /\ Whole(c, Tokens', NextReply')
      /\ Len(c.messages) < MaxShown => Len(binding.messages) < MaxShown
      /\ Shown(c) = Shown(binding) \cup Entries(more)
  BY <1>1, <1>3, AppendedWhole
<1>5. /\ Kept(binding', Tokens', NextReply') /\ binding'.token = c.token
      /\ Len(binding'.messages) < MaxShown => Shown(binding') = Shown(c) /\ Len(c.messages) < MaxShown
      /\ bindingRow' \in {bindingRow, binding'}
  BY <1>4, SaveLockedKeeps
<1>6. Grows(binding, binding', Tokens)
  BY <1>4, <1>5 DEF Grows
<1> QED
  BY <1>5, <1>6, ShownBindingStep

LEMMA SendSucceedsShows ==
  ASSUME ClawInv, ShownInv, NEW kind \in {"reply", "forward"}, SendSucceeds(kind)
  PROVE  ShownInv'
<1>1. /\ kind \in sending /\ sending' = sending \ {kind} /\ monitor' = monitor
      /\ sends' = sends /\ codes' = codes /\ inbox' = inbox /\ polls' = polls
  BY DEF SendSucceeds, clawService
<1>2. ServiceGoesOn /\ Tokens' = Tokens
  BY <1>1, SendEnds
<1>3. CASE kind = "forward" \/ binding = NoBinding
  <2>1. binding' = binding /\ bindingRow' = bindingRow
    BY <1>3 DEF SendSucceeds
  <2> QED
    BY <1>1, <1>2, <2>1, SameMonitorsRead, SameBindingShows
<1>4. CASE kind = "reply" /\ binding # NoBinding
  <2> DEFINE more == <<Reply(sends)>>
             c == Showing(binding, binding.messages \o more)
  <2>1. PICK saved \in BOOLEAN : SaveLocked(Showing(binding, Append(binding.messages, Reply(sends))), saved)
    BY <1>4, Zenon DEF SendSucceeds, Showing
  <2>2. NextReply = sends /\ NextReply' = sends + 1 /\ sends \in Nat
    BY <1>1, <1>4, SendEnds, ShownParts
  <2>3. IsBinding(binding) /\ Whole(binding, Tokens, sends)
    BY <1>4, <2>2, ClawParts, ShownParts DEF ClawTyped, Kept
  <2>4. /\ Reply(sends) \in Nat \X Nat /\ Reply(sends)[1] = 0 /\ Reply(sends)[2] = sends
    BY <2>2 DEF Reply
  <2>5. Append(binding.messages, Reply(sends)) = binding.messages \o more
    BY <2>3, <2>4, AppendIsConcat DEF Whole
  <2>6. SaveLocked(c, saved)
    BY <2>1, <2>5
  <2>7. /\ more \in Seq(Nat \X Nat) /\ DOMAIN more = {1} /\ more[1] = Reply(sends)
    BY <2>4
  <2> HIDE DEF more
  <2>8. \A messages :
            /\ IsBinding(Showing(binding, messages)) /\ Showing(binding, messages).messages = messages
            /\ Showing(binding, messages).cursor = binding.cursor
            /\ Showing(binding, messages).token = binding.token
    BY <2>3, BindingChanges, ShowingIs
  <2>9. IsBinding(c) /\ c.messages = binding.messages \o more /\ c.token = binding.token
        /\ c.cursor = binding.cursor
    BY <2>8
  <2> HIDE DEF c
  <2>10. OnceEach(more)
    BY <2>7 DEF OnceEach
  <2>11. Reply(sends) \notin Shown(binding)
    <3> SUFFICES ASSUME Reply(sends) \in Shown(binding) PROVE FALSE
      OBVIOUS
    <3>1. PICK i \in DOMAIN binding.messages : binding.messages[i] = Reply(sends)
      BY DEF Shown
    <3>2. sends < sends
      BY <2>3, <2>4, <3>1 DEF Whole
    <3> QED
      BY <2>2, <3>2
  <2>12. \A i \in DOMAIN more : more[i] \notin Shown(binding)
    BY <2>7, <2>11
  <2>13. \A i \in DOMAIN more : more[i][1] = 0 => more[i][2] < NextReply'
    BY <2>2, <2>4, <2>7
  <2>14. IsCursor(c.cursor)
    BY <2>3, <2>9 DEF Whole
  <2>15. NewTo(binding, more, NextReply')
    BY <2>7, <2>10, <2>12, <2>13 DEF NewTo
  <2>16. Len(binding.messages) < MaxShown => Covered(c.cursor, Shown(binding) \cup Entries(more))
    BY <2>3, <2>9 DEF Whole, Covered
  <2>17. \A m \in Monitors : SameReading(monitor'[m], monitor[m])
    BY <1>1, SameMonitorsRead
  <2> QED
    BY <1>2, <1>4, <2>6, <2>9, <2>14, <2>15, <2>16, <2>17, AppendedShows
<1> QED
  BY <1>3, <1>4

LEMMA StartMonitorShows ==
  ASSUME ClawInv, ShownInv, StartMonitor
  PROVE  ShownInv'
<1> DEFINE m == NewMonitor
           r == Enlivened(Placed(Unasked, "started"), TRUE)
<1>1. Idlers # {} /\ monitor' = OneChanged(Stopped, m, r)
  BY Zenon DEF StartMonitor, OneChanged, Enlivened, Placed
<1>2. /\ binding' = binding /\ bindingRow' = bindingRow
      /\ sends' = sends /\ codes' = codes /\ inbox' = inbox /\ polls' = polls /\ sending' = sending
  BY DEF StartMonitor, clawService
<1>3. m \in Monitors
  BY <1>1 DEF NewMonitor, Idlers
<1>4. IsMonitor(r) /\ r.at = "started"
  <2>1. "started" \in Places
    BY DEF Places
  <2>2. IsMonitor(Placed(Unasked, "started")) /\ Placed(Unasked, "started").at = "started"
    BY <2>1, UnaskedIs, MonitorChanges
  <2> QED
    BY <2>2, MonitorChanges
<1> HIDE DEF m, r
<1>5. /\ monitor'[m] = r
      /\ \A n \in Monitors : n # m => monitor'[n] = Stopped[n]
  BY <1>1, <1>3, <1>4, StoppedIs, OneMonitor, ClawParts
<1>6. SameReading(r, monitor[m])
  BY <1>4 DEF SameReading, Reads
<1>7. \A n \in Monitors : SameReading(monitor'[n], monitor[n])
  BY <1>5, <1>6, StoppedReads
<1> QED
  BY <1>2, <1>7, ServiceSame, SameBindingShows

-----------------------------------------------------------------------------
\* What a step of one monitor has to show.
LEMMA OneListens ==
  ASSUME ClawInv, ShownInv, MonitorOnly, NEW m \in Monitors, NEW r, IsMonitor(r),
         monitor' = OneChanged(monitor, m, r), Listens(r, binding, Tokens)
  PROVE  ShownInv'
<1>1. /\ binding' = binding /\ bindingRow' = bindingRow
      /\ sends' = sends /\ codes' = codes /\ inbox' = inbox /\ polls' = polls /\ sending' = sending
  BY DEF MonitorOnly, clawService, clawCalls
<1>2. ServiceGoesOn /\ Tokens' = Tokens /\ NextReply' = NextReply
  BY <1>1, ServiceSame
<1>3. monitor'[m] = r /\ \A n \in Monitors : n # m => monitor'[n] = monitor[n]
  BY OneSet
<1>4. \A n \in Monitors : Listens(monitor'[n], binding', Tokens')
  BY <1>1, <1>2, <1>3, ShownParts
<1>5. binding' # NoBinding => Kept(binding', Tokens', NextReply')
  BY <1>1, <1>2, ShownParts
<1> QED
  BY <1>1, <1>2, <1>4, <1>5, ShownStep

LEMMA ReachReads ==
  ASSUME ClawInv, NEW m \in Monitors, NEW place \in Places \ {"asking", "answered"}, Reach(m, place)
  PROVE  \A n \in Monitors : SameReading(monitor'[n], monitor[n])
<1>1. monitor'[m].at = place /\ \A n \in Monitors : n # m => monitor'[n] = monitor[n]
  BY ReachIs, ClawParts
<1> QED
  BY <1>1 DEF SameReading, Reads

\* A monitor starts, or fails.
LEMMA StartsShows ==
  ASSUME ClawInv, ShownInv, NEW m \in Monitors, MonitorStarts(m) \/ MonitorFails(m)
  PROVE  ShownInv'
<1>1. PICK place \in {"looping", "off", "failed"} : Reach(m, place)
  BY DEF MonitorStarts, MonitorFails
<1>2. MonitorOnly
  BY DEF MonitorStarts, MonitorFails
<1>3. \A n \in Monitors : SameReading(monitor'[n], monitor[n])
  BY <1>1, ReachReads DEF Places
<1>4. /\ binding' = binding /\ bindingRow' = bindingRow
      /\ sends' = sends /\ codes' = codes /\ inbox' = inbox /\ polls' = polls /\ sending' = sending
  BY <1>2 DEF MonitorOnly, clawService, clawCalls
<1> QED
  BY <1>3, <1>4, ServiceSame, SameBindingShows

LEMMA DropsShows ==
  ASSUME ClawInv, ShownInv, NEW m \in Monitors, MonitorDrops(m)
  PROVE  ShownInv'
<1>1. MonitorOnly /\ monitor' = OneChanged(monitor, m, Unasked)
  BY DEF MonitorDrops, OneChanged
<1>2. Listens(Unasked, binding, Tokens)
  BY UnaskedIs DEF Listens
<1> QED
  BY <1>1, <1>2, UnaskedIs, OneListens

LEMMA AsksShows ==
  ASSUME ClawInv, ShownInv, NEW m \in Monitors, MonitorAsks(m)
  PROVE  ShownInv'
<1> DEFINE x == Placed(monitor[m], "asking")
           y == Asking(x, binding.token)
           r == Reading(y, binding.cursor)
<1>1. MonitorOnly
  BY DEF MonitorAsks
<1>2. \/ Bound /\ monitor' = OneChanged(monitor, m, r)
      \/ monitor' = OneChanged(monitor, m, Unasked)
  BY Zenon DEF MonitorAsks, OneChanged, Reading, Asking, Placed
<1>3. IsMonitor(x) /\ x.at = "asking"
  BY ClawParts, MonitorChanges DEF Places
<1> HIDE DEF x
<1>4. IsMonitor(y) /\ y.at = "asking" /\ y.bot = binding.token
  BY <1>3, MonitorChanges
<1> HIDE DEF y
<1>5. IsMonitor(r) /\ r.at = "asking" /\ r.bot = binding.token /\ r.cursor = binding.cursor
  <2>1. y = MonitorFields(y)
    BY <1>4 DEF IsMonitor
  <2>2. r.cursor = binding.cursor
    BY <2>1 DEF MonitorFields, Reading
  <2> QED
    BY <1>4, <2>2, MonitorChanges
<1> HIDE DEF r
<1>6. CASE Bound /\ monitor' = OneChanged(monitor, m, r)
  <2>1. Whole(binding, Tokens, NextReply)
    BY <1>6, ShownParts DEF Bound, Kept
  <2>2. IsCursor(r.cursor) /\ r.bot \in Tokens
    BY <1>5, <2>1 DEF Whole
  <2>3. ReadsFor(r, binding) => Covered(r.cursor, Shown(binding) \cup NewsOf(r))
    BY <1>5, <2>1 DEF Whole, ReadsFor, Covered
  <2>4. Listens(r, binding, Tokens)
    BY <1>5, <2>2, <2>3 DEF Listens
  <2> QED
    BY <1>1, <1>5, <1>6, <2>4, OneListens
<1>7. CASE monitor' = OneChanged(monitor, m, Unasked)
  <2>1. Listens(Unasked, binding, Tokens)
    BY UnaskedIs DEF Listens
  <2> QED
    BY <1>1, <1>7, <2>1, UnaskedIs, OneListens
<1> QED
  BY <1>2, <1>6, <1>7

\* The service hands over, once each, what follows a cursor, and a cursor for
\* just these messages.
LEMMA NewsAre ==
  ASSUME ShownInv, NEW m \in Monitors, monitor[m].bot \in Bots, IsCursor(monitor[m].cursor),
         NEW a \in News(m)
  PROVE  /\ IsCursor(a.cursor) /\ a.news \in Seq({monitor[m].bot} \X Nat) /\ OnceEach(a.news)
         /\ \A messages :
              Covered(monitor[m].cursor, messages) => Covered(a.cursor, messages \cup Entries(a.news))
<1> DEFINE b == monitor[m].bot
           c == monitor[m].cursor
           last == inbox[b]
           next(after) == [bot |-> b, after |-> after, upto |-> last]
           told(from) == [i \in 1 .. (last - from) |-> <<b, from + i>>]
<1>1. b \in Nat /\ last \in Nat /\ c.bot \in Nat /\ c.after \in Nat /\ c.upto \in Nat
  BY ShownParts DEF Bots, IsCursor
<1>2. \/ c.bot = b /\ a.cursor \in {next(c.after), c} /\ a.news = told(c.upto)
      \/ \E k \in 0 .. last : a.cursor \in {next(k), c} /\ a.news = told(k)
  <2> DEFINE answers(after, from) == [cursor : {next(after)} \cup {c}, news : {told(from)}]
  <2>1. a \in IF c.bot = b THEN answers(c.after, c.upto) ELSE UNION {answers(k, k) : k \in 0 .. last}
    BY Zenon DEF News
  <2> HIDE DEF next, told
  <2>2. \A after, from : a \in answers(after, from) =>
          a.cursor \in {next(after), c} /\ a.news = told(from)
    OBVIOUS
  <2> HIDE DEF answers
  <2>3. CASE c.bot = b
    BY <2>1, <2>2, <2>3
  <2>4. CASE c.bot # b
    <3>1. PICK k \in 0 .. last : a \in answers(k, k)
      BY <2>1, <2>4
    <3> QED
      BY <2>2, <3>1
  <2> QED
    BY <2>3, <2>4
<1> HIDE DEF b, c, last
<1>3. PICK after \in Nat, from \in Nat :
        /\ a.cursor \in {next(after), c} /\ a.news = told(from)
        /\ \/ c.bot = b /\ after = c.after /\ from = c.upto
           \/ after = from
  <2>1. CASE c.bot = b /\ a.cursor \in {next(c.after), c} /\ a.news = told(c.upto)
    BY <1>1, <2>1
  <2>2. CASE \E k \in 0 .. last : a.cursor \in {next(k), c} /\ a.news = told(k)
    <3>1. PICK k \in 0 .. last : a.cursor \in {next(k), c} /\ a.news = told(k)
      BY <2>2
    <3>2. k \in Nat
      BY <1>1
    <3> QED
      BY <3>1, <3>2
  <2> QED
    BY <1>2, <2>1, <2>2
<1>4. IsCursor(next(after)) /\ IsCursor(c)
  BY <1>1 DEF IsCursor
<1>5. \A i \in 1 .. (last - from) : <<b, from + i>> \in {b} \X Nat
  BY <1>1
<1>6. told(from) \in Seq({b} \X Nat) /\ DOMAIN told(from) = 1 .. (last - from)
  BY <1>1, <1>5
<1>7. OnceEach(told(from))
  BY <1>1 DEF OnceEach
<1>8. ASSUME NEW i \in Nat, i > from, i <= last PROVE <<b, i>> \in Entries(told(from))
  <2>1. i - from \in 1 .. (last - from) /\ from + (i - from) = i
    BY <1>1, <1>8
  <2>2. told(from)[i - from] = <<b, i>>
    BY <2>1
  <2> QED
    BY <1>6, <2>1, <2>2 DEF Entries
<1>9. ASSUME NEW messages, Covered(c, messages)
      PROVE  Covered(a.cursor, messages \cup Entries(told(from)))
  <2>1. CASE a.cursor = c
    BY <1>9, <2>1 DEF Covered
  <2>2. CASE a.cursor = next(after)
    <3>1. a.cursor.bot = b /\ a.cursor.after = after /\ a.cursor.upto = last
      BY <2>2
    <3>2. ASSUME NEW i \in (after + 1) .. last PROVE <<b, i>> \in messages \cup Entries(told(from))
      <4>1. i \in Nat /\ i > after /\ i <= last
        BY <1>1
      <4>2. CASE i > from
        BY <1>8, <4>1, <4>2
      <4>3. CASE i <= from
        <5>1. c.bot = b /\ after = c.after /\ from = c.upto
          BY <1>3, <4>1, <4>3
        <5>2. i \in (c.after + 1) .. c.upto
          BY <1>1, <4>1, <4>3, <5>1
        <5> QED
          BY <1>9, <5>1, <5>2 DEF Covered
      <4> QED
        BY <4>1, <4>2, <4>3
    <3> QED
      BY <3>1, <3>2 DEF Covered
  <2> QED
    BY <1>3, <2>1, <2>2
<1> QED
  BY <1>3, <1>4, <1>6, <1>7, <1>9 DEF b, c

LEMMA AnsweredShows ==
  ASSUME ClawInv, ShownInv, NEW m \in Monitors, MonitorAnswered(m)
  PROVE  ShownInv'
<1>1. MonitorOnly /\ monitor[m].at = "asking" /\ monitor[m].bot # 0
  BY DEF MonitorAnswered
<1>2. PICK a \in News(m) :
        monitor' = [monitor EXCEPT ![m].at = "answered", ![m].cursor = a.cursor, ![m].news = a.news]
  BY DEF MonitorAnswered
<1> DEFINE old == monitor[m]
           x == Placed(old, "answered")
           y == Reading(x, a.cursor)
           r == Told(y, a.news)
<1>3. monitor' = OneChanged(monitor, m, r)
  <2>1. m \in DOMAIN monitor
    BY ClawParts DEF ClawTyped
  <2> QED
    BY <1>2, <2>1, Zenon DEF OneChanged, Told, Reading, Placed
<1>4. /\ IsMonitor(old) /\ IsCursor(old.cursor) /\ old.bot \in Tokens /\ old.bot \in Bots
      /\ ReadsFor(old, binding) => Covered(old.cursor, Shown(binding))
  <2>1. IsMonitor(old) /\ Listens(old, binding, Tokens)
    BY ClawParts, ShownParts
  <2>2. IsCursor(old.cursor) /\ old.bot \in Tokens
    BY <1>1, <2>1 DEF Listens
  <2>3. old.bot \in Bots
    BY <1>1, <2>2, ShownParts DEF Tokens, Bots
  <2>4. NewsOf(old) = {}
    BY <1>1 DEF NewsOf
  <2>5. ASSUME ReadsFor(old, binding) PROVE Covered(old.cursor, Shown(binding))
    <3>1. Covered(old.cursor, Shown(binding) \cup NewsOf(old))
      BY <1>1, <2>1, <2>5 DEF Listens
    <3> QED
      BY <2>4, <3>1 DEF Covered
  <2> QED
    BY <2>1, <2>2, <2>3, <2>5
<1>5. /\ IsCursor(a.cursor) /\ a.news \in Seq({old.bot} \X Nat) /\ OnceEach(a.news)
      /\ \A messages :
           Covered(old.cursor, messages) => Covered(a.cursor, messages \cup Entries(a.news))
  BY <1>4, NewsAre
<1> HIDE DEF old
<1>6. IsMonitor(x) /\ x.at = "answered" /\ x.bot = old.bot
  BY <1>4, MonitorChanges DEF Places
<1> HIDE DEF x
<1>7. IsMonitor(y) /\ y.at = "answered" /\ y.bot = old.bot /\ y.cursor = a.cursor
  <2>1. x = MonitorFields(x)
    BY <1>6 DEF IsMonitor
  <2>2. y.cursor = a.cursor
    BY <2>1 DEF MonitorFields, Reading
  <2> QED
    BY <1>6, <2>2, MonitorChanges
<1> HIDE DEF y
<1>8. IsMonitor(r) /\ r.at = "answered" /\ r.bot = old.bot /\ r.cursor = a.cursor /\ r.news = a.news
  <2>1. y = MonitorFields(y)
    BY <1>7 DEF IsMonitor
  <2>2. r.cursor = y.cursor /\ r.news = a.news
    BY <2>1 DEF MonitorFields, Told
  <2> QED
    BY <1>7, <2>2, MonitorChanges
<1> HIDE DEF r
<1>9. Listens(r, binding, Tokens)
  <2>1. NewsOf(r) = Entries(a.news)
    BY <1>8 DEF NewsOf, Entries
  <2>2. ReadsFor(r, binding) => Covered(r.cursor, Shown(binding) \cup NewsOf(r))
    BY <1>4, <1>5, <1>8, <2>1 DEF ReadsFor
  <2> QED
    BY <1>1, <1>4, <1>5, <1>8, <2>2 DEF Listens, old
<1> QED
  BY <1>1, <1>3, <1>8, <1>9, OneListens

LEMMA ReportsShows ==
  ASSUME ClawInv, ShownInv, NEW m \in Monitors, MonitorReports(m)
  PROVE  ShownInv'
<1>1. /\ Reach(m, "looping") /\ SetError
      /\ sends' = sends /\ codes' = codes /\ inbox' = inbox /\ polls' = polls /\ sending' = sending
  BY DEF MonitorReports, clawService, clawCalls
<1>2. \A n \in Monitors : SameReading(monitor'[n], monitor[n])
  BY <1>1, ReachReads DEF Places
<1> QED
  BY <1>1, <1>2, ServiceSame, SetErrorShows

\* What a monitor was told and the binding does not show.
LEMMA UnshownIs ==
  ASSUME NEW m \in Monitors, NEW bot \in Nat, bot # 0, monitor[m].news \in Seq({bot} \X Nat),
         OnceEach(monitor[m].news), NEW reply
  PROVE  /\ NewTo(binding, Unshown(m), reply)
         /\ Entries(monitor[m].news) \subseteq Shown(binding) \cup Entries(Unshown(m))
<1> DEFINE news == monitor[m].news
           places == {i \in DOMAIN news : news[i] \notin Shown(binding)}
           t == Unshown(m)
<1>1. t = EntriesAt(news, places)
  BY DEF Unshown
<1>2. DOMAIN news = 1 .. Len(news) /\ \A i \in 1 .. Len(news) : news[i] \in {bot} \X Nat
  BY LenProperties
<1>3. places \in SUBSET (1 .. Len(news))
  BY <1>2
<1>4. \A p \in places : p \in 1 .. Len(news) /\ news[p] \notin Shown(binding)
  BY <1>2
<1>5. \A i, j \in 1 .. Len(news) : news[i] = news[j] => i = j
  BY <1>2 DEF OnceEach
<1>6. news \in Seq({bot} \X Nat)
  OBVIOUS
<1>7. \A p \in DOMAIN news : p \in places \/ news[p] \in Shown(binding)
  OBVIOUS
<1> HIDE DEF news, places, t
<1>8. /\ t \in Seq({bot} \X Nat)
      /\ \A n \in 1 .. Len(t) : \E p \in places : t[n] = news[p]
      /\ \A p \in places : \E n \in 1 .. Len(t) : t[n] = news[p]
      /\ \A i, j \in 1 .. Len(t) : t[i] = t[j] => i = j
  <2>1. PICK S : S = {bot} \X Nat
    OBVIOUS
  <2>2. news \in Seq(S)
    BY <1>6, <2>1
  <2>3. LET u == EntriesAt(news, places)
        IN  /\ u \in Seq(S)
            /\ \A n \in 1 .. Len(u) : \E p \in places : u[n] = news[p]
            /\ \A p \in places : \E n \in 1 .. Len(u) : u[n] = news[p]
            /\ (\A i, j \in 1 .. Len(news) : news[i] = news[j] => i = j)
                 => (\A i, j \in 1 .. Len(u) : u[i] = u[j] => i = j)
    BY ONLY <1>3, <2>2, EntriesAtDoes
  <2> QED
    BY <1>1, <1>5, <2>1, <2>3
<1>9. DOMAIN t = 1 .. Len(t) /\ \A i \in DOMAIN t : t[i] \in {bot} \X Nat
  BY <1>8, LenProperties
<1>10. t \in Seq(Nat \X Nat)
  <2>1. {bot} \X Nat \subseteq Nat \X Nat
    OBVIOUS
  <2> QED
    BY <1>8, <2>1
<1>11. \A i \in DOMAIN t : t[i] \notin Shown(binding) /\ t[i][1] # 0
  BY <1>4, <1>8, <1>9
<1>12. NewTo(binding, t, reply)
  BY <1>8, <1>9, <1>10, <1>11 DEF NewTo, OnceEach
<1>13. Entries(news) \subseteq Shown(binding) \cup Entries(t)
  <2> SUFFICES ASSUME NEW p \in DOMAIN news PROVE news[p] \in Shown(binding) \cup Entries(t)
    BY DEF Entries
  <2>1. CASE p \in places
    <3>1. PICK n \in 1 .. Len(t) : t[n] = news[p]
      BY <1>8, <2>1
    <3>2. t[n] \in Entries(t)
      BY <1>9 DEF Entries
    <3> QED
      BY <3>1, <3>2
  <2>2. CASE p \notin places
    BY <1>7, <2>2
  <2> QED
    BY <2>1, <2>2
<1> QED
  BY <1>12, <1>13 DEF news, t

LEMMA AppliesShows ==
  ASSUME ClawInv, ShownInv, NEW m \in Monitors, MonitorApplies(m)
  PROVE  ShownInv'
<1> DEFINE r == monitor[m]
           more == Unshown(m)
           x == Pointing(binding, r.cursor)
           b == Showing(x, binding.messages \o more)
<1>1. /\ r.at = "answered" /\ binding # NoBinding /\ binding.token = r.bot /\ Reach(m, "looping")
      /\ sends' = sends /\ codes' = codes /\ inbox' = inbox /\ polls' = polls /\ sending' = sending
  BY DEF MonitorApplies, clawService, clawCalls
<1>2. PICK saved \in BOOLEAN : SaveLocked(b, saved)
  <2>1. PICK saved \in BOOLEAN :
          SaveLocked([binding EXCEPT !.cursor = r.cursor, !.messages = @ \o Unshown(m)], saved)
    BY DEF MonitorApplies
  <2>2. b = [binding EXCEPT !.cursor = r.cursor, !.messages = @ \o Unshown(m)]
    BY Zenon DEF Showing, Pointing
  <2> QED
    BY <2>1, <2>2, Zenon
<1>3. /\ ServiceGoesOn /\ Tokens' = Tokens
      /\ \A n \in Monitors : SameReading(monitor'[n], monitor[n])
  BY <1>1, ServiceSame, ReachReads DEF Places
<1>4. Listens(r, binding, Tokens)
  BY ShownParts
<1>5. /\ IsCursor(r.cursor) /\ r.bot \in Nat /\ r.bot # 0
      /\ r.news \in Seq({r.bot} \X Nat) /\ OnceEach(r.news)
  BY <1>1, <1>4 DEF Listens, Tokens
<1>6. /\ NewTo(binding, more, NextReply')
      /\ Entries(r.news) \subseteq Shown(binding) \cup Entries(more)
  BY <1>5, UnshownIs
<1>7. ASSUME Len(binding.messages) < MaxShown
      PROVE  Covered(r.cursor, Shown(binding) \cup Entries(more))
  <2>1. ReadsFor(r, binding) /\ NewsOf(r) = Entries(r.news)
    BY <1>1, <1>5, <1>7 DEF ReadsFor, NewsOf, Entries
  <2>2. Covered(r.cursor, Shown(binding) \cup NewsOf(r))
    BY <1>1, <1>4, <2>1 DEF Listens
  <2> QED
    BY <1>6, <2>1, <2>2 DEF Covered
<1> HIDE DEF r, more
<1>8. IsBinding(x) /\ x.token = binding.token /\ x.cursor = r.cursor
  BY <1>1, ClawParts, BindingChanges, ShowingIs DEF ClawTyped
<1> HIDE DEF x
<1>9. \A messages :
        /\ IsBinding(Showing(x, messages)) /\ Showing(x, messages).messages = messages
        /\ Showing(x, messages).cursor = r.cursor /\ Showing(x, messages).token = binding.token
  BY <1>8, BindingChanges, ShowingIs
<1>10. /\ IsBinding(b) /\ b.messages = binding.messages \o more /\ b.token = binding.token
       /\ b.cursor = r.cursor
  BY <1>9
<1> HIDE DEF b
<1> QED
  BY <1>1, <1>2, <1>3, <1>5, <1>6, <1>7, <1>10, AppendedShows

LEMMA ClawRestartShows ==
  ASSUME ClawInv, ShownInv, ClawRestart
  PROVE  ShownInv'
<1>1. /\ binding' = bindingRow /\ bindingRow' = bindingRow /\ polls' = {} /\ sending' = {}
      /\ monitor' = [m \in Monitors |-> Unasked]
      /\ codes' = codes /\ inbox' = inbox /\ sends' = sends
  BY DEF ClawRestart, clawService
<1>2. ServiceTyped'
  BY <1>1, ShownParts DEF ServiceTyped
<1>3. Tokens \subseteq Tokens'
  BY <1>1 DEF Tokens
<1>4. NextReply <= NextReply' /\ NextReply' \in Nat
  BY <1>1, ShownParts DEF NextReply
<1>5. ServiceGoesOn
  BY <1>2, <1>3, <1>4 DEF ServiceGoesOn
<1>6. \A m \in Monitors : Listens(monitor'[m], binding', Tokens')
  BY <1>1, UnaskedIs DEF Listens
<1>7. binding' # NoBinding => Kept(binding', Tokens', NextReply')
  BY <1>1, <1>3, <1>4, ShownParts, KeptAgain
<1> QED
  BY <1>1, <1>5, <1>6, <1>7, ShownStep

LEMMA ShownInvInit == ClawInit => ShownInv
<1> SUFFICES ASSUME ClawInit PROVE ShownInv
  OBVIOUS
<1>1. /\ binding = NoBinding /\ bindingRow = NoBinding /\ polls = {} /\ sends = 0
      /\ codes = 0 /\ inbox = [b \in Bots |-> 0] /\ monitor = [m \in Monitors |-> Unasked]
  BY DEF ClawInit
<1>2. ServiceTyped
  BY <1>1, ClawAssumption DEF ServiceTyped
<1>3. \A m \in Monitors : Listens(monitor[m], binding, Tokens)
  BY <1>1, UnaskedIs DEF Listens
<1> QED
  BY <1>1, <1>2, <1>3 DEF ShownInv

LEMMA ShownInvStep == ClawInv /\ ShownInv /\ [ClawNext]_clawVars => ShownInv'
<1> SUFFICES ASSUME ClawInv, ShownInv, [ClawNext]_clawVars PROVE ShownInv'
  OBVIOUS
<1>1. ASSUME UNCHANGED clawVars PROVE ShownInv'
  <2>1. /\ binding' = binding /\ bindingRow' = bindingRow /\ monitor' = monitor
        /\ sends' = sends /\ codes' = codes /\ inbox' = inbox /\ polls' = polls /\ sending' = sending
    BY <1>1 DEF clawVars, clawCalls, clawService
  <2> QED
    BY <2>1, ServiceSame, SameMonitorsRead, SameBindingShows
<1>2. ASSUME NEW c \in Bots, BindingStep(c) \/ WeChatMessage(c) PROVE ShownInv'
  BY <1>2, ConfirmedShows, FailedShows, ForgottenShows, WeChatMessageShows DEF BindingStep
<1>3. ASSUME NEW m \in Monitors, MonitorStep(m) PROVE ShownInv'
  BY <1>3, StartsShows, AsksShows, AnsweredShows, ReportsShows, AppliesShows, DropsShows
     DEF MonitorStep
<1>4. ASSUME NEW kind \in {"reply", "forward"}, SendStep(kind) PROVE ShownInv'
  BY <1>4, SendBeginsShows, SendSucceedsShows, SendFailsShows DEF SendStep
<1> QED
  BY <1>1, <1>2, <1>3, <1>4, StartQRShows, UnbindShows, DeletedShows, ForwardShows,
     StartMonitorShows, ClawRestartShows DEF ClawNext

\* The inductive invariant of what the bridge shows: what a cursor stands for
\* is in the binding, or a monitor that reads for the binding is about to put it
\* there; and nothing is twice in it.
THEOREM BridgeShows == ClawSpec => [](ClawInv /\ ShownInv)
<1>1. ClawInit => ClawInv /\ ShownInv
  BY ClawInvInit, ShownInvInit
<1>2. (ClawInv /\ ShownInv) /\ [ClawNext]_clawVars => (ClawInv /\ ShownInv)'
  BY ClawInvStep, ShownInvStep
<1> QED
  BY <1>1, <1>2, PTL DEF ClawSpec

\* No message is skipped or shown twice, for any number of codes, monitors,
\* messages, replies, failed saves and restarts: a cursor stands only for what
\* its binding shows, or has cut.
THEOREM NothingSkipped == ClawSpec => []NoMessageSkipped
<1>1. ClawInv /\ ShownInv => NoMessageSkipped
  <2> SUFFICES ASSUME ShownInv, NEW b \in {binding, bindingRow} \ {NoBinding}
               PROVE  /\ \A i, j \in DOMAIN b.messages : b.messages[i] = b.messages[j] => i = j
                      /\ Len(b.messages) <= MaxShown
                      /\ Len(b.messages) < MaxShown =>
                           \A i \in (b.cursor.after + 1) .. b.cursor.upto :
                             <<b.cursor.bot, i>> \in Shown(b)
    BY Zenon DEF NoMessageSkipped
  <2>1. Kept(b, Tokens, NextReply)
    BY ShownParts
  <2> QED
    BY <2>1 DEF Kept, Whole, OnceEach, Covered
<1> QED
  BY <1>1, BridgeShows, PTL
=============================================================================
