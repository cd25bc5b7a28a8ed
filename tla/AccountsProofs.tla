---------------------------- MODULE AccountsProofs ----------------------------
(***************************************************************************)
(* Proofs about Accounts for any ids, names, passwords, tokens and         *)
(* requests, any kinds of behaviour and any number of restarts.            *)
(***************************************************************************)
EXTENDS Accounts, FiniteSetTheorems, TLAPS

\* However calls overlap, whatever may still become a session, or the account
\* of one, belongs to an account that was active.
ActiveOnly ==
    /\ \A id \in Ids : accounts[id] # None /\ accounts[id].status = "active" => id \in onceActive
    /\ \A id \in Ids :
          savedAccounts[id] # None /\ savedAccounts[id].status = "active" => id \in onceActive
    /\ \A t \in Tokens : sessions[t] # None => sessions[t] \in onceActive

RequestsActiveOnly ==
    \A r \in Requests :
        /\ request[r].at = "registered" =>
              /\ request[r].account.status \in {"pending", "active"}
              /\ request[r].account.status = "active" => request[r].id \in onceActive
        /\ request[r].at \in {"verified", "updated"} => request[r].id \in onceActive
        /\ request[r].at = "authorized" => request[r].id \in onceActive

ApprovalInv == TypeOK /\ ActiveOnly /\ RequestsActiveOnly

-----------------------------------------------------------------------------
\* When calls do not overlap.

OneAtATime ==
    \A r \in Requests : request[r] # Idle =>
        /\ admin = Idle
        /\ \A s \in Requests : request[s] # Idle => s = r

\* Ids and tokens that were not drawn yet are nowhere.
Undrawn ==
    /\ \A id \in Ids \ drawn :
          /\ accounts[id] = None /\ savedAccounts[id] = None
          /\ decided[id].password = None /\ decided[id].status = None
    /\ \A t \in Tokens \ drawn : sessions[t] = None /\ savedSessions[t] = None /\ t \notin revoked

\* Names lead to their accounts, in memory and in the database.
NamesHold ==
    /\ \A id \in Ids : accounts[id] # None => byUsername[accounts[id].name] = id
    /\ \A n \in Names : byUsername[n] # None =>
          accounts[byUsername[n]] # None /\ accounts[byUsername[n]].name = n
    /\ \A id \in Ids :
          takenNames[id] = IF savedAccounts[id] = None THEN None ELSE savedAccounts[id].name
    /\ \A id, other \in Ids : id # other /\ takenNames[id] # None => takenNames[id] # takenNames[other]

\* Memory and database differ only in what the call under way has yet to save.
OnlyUnderWay ==
    /\ \A id \in Ids : accounts[id] # savedAccounts[id] =>
          \/ \E r \in Requests : request[r].at = "registered" /\ request[r].id = id
          \/ admin.at = "delete" /\ admin.id = id
    /\ \A t \in Tokens : sessions[t] # savedSessions[t] =>
          \/ \E r \in Requests : request[r].at \in {"issued", "dropped"} /\ request[r].token = t
          \/ admin # Idle /\ savedSessions[t] = admin.id

\* What each call relies on between its steps.
Relies(r) ==
    /\ request[r].at = "registered" =>
          /\ accounts[request[r].id] = request[r].account
          /\ savedAccounts[request[r].id] = None
          /\ \A t \in Tokens : sessions[t] # request[r].id
    /\ request[r].at \in {"verified", "updated"} => accounts[request[r].id] = request[r].account
    /\ request[r].at \in {"verified", "updated", "authorized"} =>
          /\ accounts[request[r].id] # None
          /\ accounts[request[r].id].status = "active"
    /\ request[r].at = "issued" =>
          /\ sessions[request[r].token] = request[r].id
          /\ savedSessions[request[r].token] = None
    /\ request[r].at = "touched" => sessions[request[r].token] = request[r].id
    /\ request[r].at = "dropped" =>
          sessions[request[r].token] = None /\ request[r].token \in drawn

RequestHolds == \A r \in Requests : Relies(r)

AdminHolds ==
    admin # Idle =>
        /\ admin.gone = {t \in Tokens : savedSessions[t] = admin.id}
        /\ \A t \in admin.gone : sessions[t] = None
        /\ admin.at = "delete" => accounts[admin.id] = None

\* Every session can be used; what the administrator decided, and what was
\* reported revoked, is in memory and in the database.
SessionsUsable == \A t \in Tokens : sessions[t] # None => Usable(t)

DecisionsHold ==
    \A id \in Ids :
        /\ accounts[id] # None =>
              /\ decided[id].password # None => accounts[id].password = decided[id].password
              /\ decided[id].status # None => accounts[id].status = decided[id].status
        /\ savedAccounts[id] # None =>
              /\ decided[id].password # None => savedAccounts[id].password = decided[id].password
              /\ decided[id].status # None => savedAccounts[id].status = decided[id].status

RevokedHold == \A t \in revoked : sessions[t] = None /\ savedSessions[t] = None

SerialInv ==
    /\ OneAtATime /\ Undrawn /\ NamesHold /\ OnlyUnderWay /\ RequestHolds /\ AdminHolds
    /\ SessionsUsable /\ DecisionsHold /\ RevokedHold

AccountsInv == ApprovalInv /\ (Orderly => SerialInv)

-----------------------------------------------------------------------------
(* The steps of a request and what each action does to the variables.      *)

LEMMA NoMark ==
  /\ None \notin Account /\ None \notin Ids /\ None \notin Names
  /\ None \notin Passwords /\ None \notin Statuses
  BY AccountsAssumption

LEMMA StepFields ==
  ASSUME NEW step \in RequestSteps
  PROVE  /\ step = Idle <=> step.at = "idle"
         /\ step.at = "deciding" => step.status \in {"pending", "active"}
         /\ step.at \in {"registered", "verified", "updated"} =>
               step.id \in Ids /\ step.account \in Account
         /\ step.at = "authorized" => step.id \in Ids
         /\ step.at \in {"issued", "touched"} => step.token \in Tokens /\ step.id \in Ids
         /\ step.at = "dropped" => step.token \in Tokens
         /\ step.at \in {"idle", "deciding", "registered", "verified", "updated", "authorized",
                         "issued", "touched", "dropped"}
  BY DEF RequestSteps, Idle

LEMMA StepRecords ==
  /\ Idle \in RequestSteps
  /\ \A status \in {"pending", "active"} : [at |-> "deciding", status |-> status] \in RequestSteps
  /\ \A at \in {"registered", "verified", "updated"}, id \in Ids, account \in Account :
        [at |-> at, id |-> id, account |-> account] \in RequestSteps
  /\ \A id \in Ids : [at |-> "authorized", id |-> id] \in RequestSteps
  /\ \A at \in {"issued", "touched"}, token \in Tokens, id \in Ids :
        [at |-> at, token |-> token, id |-> id] \in RequestSteps
  /\ \A token \in Tokens : [at |-> "dropped", token |-> token] \in RequestSteps
  BY DEF RequestSteps

LEMMA RequestTyped ==
  ASSUME TypeOK, NEW r \in Requests
  PROVE  request[r] \in RequestSteps
  BY DEF TypeOK

LEMMA GoesTo ==
  ASSUME TypeOK, NEW r \in Requests, NEW step \in RequestSteps, Goes(r, step)
  PROVE  /\ request' \in [Requests -> RequestSteps]
         /\ request'[r] = step
         /\ \A s \in Requests : s # r => request'[s] = request[s]
  BY DEF TypeOK, Goes

LEMMA AdminFields ==
  ASSUME TypeOK
  PROVE  /\ admin = Idle <=> admin.at = "idle"
         /\ admin # Idle => admin.at \in {"dropSessions", "delete"}
                            /\ admin.id \in Ids /\ admin.gone \subseteq Tokens
  BY DEF TypeOK, Idle

\* An account with another status or password is an account.
LEMMA ChangedAccount ==
  ASSUME NEW account \in Account, NEW status \in Statuses, NEW password \in Passwords
  PROVE  /\ [account EXCEPT !.status = status] \in Account
         /\ [account EXCEPT !.status = status].status = status
         /\ [account EXCEPT !.status = status].name = account.name
         /\ [account EXCEPT !.status = status].password = account.password
         /\ [account EXCEPT !.password = password] \in Account
         /\ [account EXCEPT !.password = password].password = password
         /\ [account EXCEPT !.password = password].name = account.name
         /\ [account EXCEPT !.password = password].status = account.status
  BY DEF Account

\* While calls do not overlap, one that begins meets no other.
LEMMA FreeMeansQuiet ==
  ASSUME mode.overlapping = 1, Busy < mode.overlapping
  PROVE  admin = Idle /\ \A r \in Requests : request[r] = Idle
  <1> DEFINE busy == {r \in Requests : request[r] # Idle}
  <1>1. IsFiniteSet(busy) /\ Cardinality(busy) \in Nat
      BY AccountsAssumption, FS_Subset, FS_CardinalityType
  <1>2. Cardinality(busy) + (IF admin = Idle THEN 0 ELSE 1) < 1
      BY DEF Busy
  <1>3. Cardinality(busy) = 0 /\ admin = Idle
    <2> HIDE DEF busy
    <2> QED
        BY <1>1, <1>2
  <1>4. busy = {}
      BY <1>1, <1>3, FS_EmptySet
  <1> QED
      BY <1>3, <1>4

\* All but the requests.
beside == <<mode, approvalRequired, accounts, byUsername, sessions, savedAccounts, savedSessions,
            takenNames, admin, drawn, decided, revoked, onceActive, restarts>>

\* A step of one request that changes nothing else.
LEMMA OnlyRequest ==
  ASSUME TypeOK, NEW r \in Requests, NEW step \in RequestSteps, Goes(r, step), UNCHANGED beside
  PROVE  TypeOK'
  BY GoesTo DEF TypeOK, beside

LEMMA RegisterDecidesDoes ==
  ASSUME TypeOK, NEW r \in Requests, RegisterDecides(r)
  PROVE  /\ TypeOK' /\ Free(r) /\ UNCHANGED beside
         /\ request'[r].at = "deciding"
         /\ \A s \in Requests : s # r => request'[s] = request[s]
  <1> DEFINE step == [at |-> "deciding", status |-> IF approvalRequired THEN "pending" ELSE "active"]
  <1>1. Free(r) /\ Goes(r, step) /\ UNCHANGED beside
      BY DEF RegisterDecides, memory, saved, history, beside
  <1>2. step \in RequestSteps
      BY DEF RequestSteps
  <1>3. step.at = "deciding"
      OBVIOUS
  <1> HIDE DEF step
  <1> QED
      BY <1>1, <1>2, <1>3, GoesTo, OnlyRequest

LEMMA RegisterRefusedDoes ==
  ASSUME TypeOK, NEW r \in Requests, RegisterRefused(r)
  PROVE  /\ TypeOK' /\ UNCHANGED beside
         /\ request[r].at = "deciding" /\ request'[r] = Idle
         /\ \A s \in Requests : s # r => request'[s] = request[s]
  <1>1. request[r].at = "deciding" /\ Goes(r, Idle) /\ UNCHANGED beside
      BY DEF RegisterRefused, memory, saved, history, beside
  <1> QED
      BY <1>1, StepRecords, GoesTo, OnlyRequest

LEMMA LoginVerifiesDoes ==
  ASSUME TypeOK, NEW r \in Requests, NEW name \in Names, NEW password \in Passwords,
         LoginVerifies(r, name, password)
  PROVE  /\ TypeOK' /\ Free(r) /\ UNCHANGED beside
         /\ \E id \in Ids : /\ accounts[id] # None /\ accounts[id].status = "active"
                            /\ request'[r] = [at |-> "verified", id |-> id, account |-> accounts[id]]
         /\ \A s \in Requests : s # r => request'[s] = request[s]
  <1>1. PICK id \in Ids :
          /\ id = byUsername[name] /\ accounts[id] # None /\ accounts[id].status = "active"
          /\ Free(r) /\ Goes(r, [at |-> "verified", id |-> id, account |-> accounts[id]])
          /\ UNCHANGED beside
      BY DEF LoginVerifies, TypeOK, memory, saved, history, beside
  <1>2. [at |-> "verified", id |-> id, account |-> accounts[id]] \in RequestSteps
    <2>1. accounts[id] \in Account
        BY <1>1 DEF TypeOK
    <2> QED
        BY <2>1, StepRecords
  <1> QED
      BY <1>1, <1>2, GoesTo, OnlyRequest

LEMMA TouchSessionDoes ==
  ASSUME TypeOK, NEW r \in Requests, NEW token \in Tokens, TouchSession(r, token)
  PROVE  /\ TypeOK' /\ Free(r) /\ UNCHANGED beside
         /\ sessions[token] \in Ids
         /\ request'[r] = [at |-> "touched", token |-> token, id |-> sessions[token]]
         /\ \A s \in Requests : s # r => request'[s] = request[s]
  <1>1. /\ Free(r) /\ Goes(r, [at |-> "touched", token |-> token, id |-> sessions[token]])
        /\ UNCHANGED beside
        /\ sessions[token] # None
      BY DEF TouchSession, Usable, memory, saved, history, beside
  <1>2. sessions[token] \in Ids
      BY <1>1 DEF TypeOK
  <1>3. [at |-> "touched", token |-> token, id |-> sessions[token]] \in RequestSteps
      BY <1>2, StepRecords
  <1> QED
      BY <1>1, <1>2, <1>3, GoesTo, OnlyRequest

LEMMA RegisterDoes ==
  ASSUME TypeOK, NEW r \in Requests, NEW id \in Ids, NEW name \in Names, NEW password \in Passwords,
         Register(r, id, name, password)
  PROVE  /\ TypeOK'
         /\ request[r].at = "deciding" /\ id \notin drawn /\ byUsername[name] = None
         /\ UNCHANGED <<mode, sessions, savedAccounts, savedSessions, takenNames, admin, decided, revoked>>
         /\ \E account \in Account :
               /\ account.name = name /\ account.status \in {"pending", "active"}
               /\ accounts'[id] = account
               /\ request'[r] = [at |-> "registered", id |-> id, account |-> account]
               /\ account.status = "active" => id \in onceActive'
         /\ \A other \in Ids : other # id => accounts'[other] = accounts[other]
         /\ byUsername'[name] = id
         /\ \A other \in Names : other # name => byUsername'[other] = byUsername[other]
         /\ drawn' = drawn \cup {id} /\ onceActive \subseteq onceActive'
         /\ \A s \in Requests : s # r => request'[s] = request[s]
  <1>d. PICK account : account = [name |-> name, password |-> password, status |-> request[r].status]
      OBVIOUS
  <1>1. /\ request[r].at = "deciding" /\ id \notin drawn /\ byUsername[name] = None
        /\ accounts' = [accounts EXCEPT ![id] = account]
        /\ byUsername' = [byUsername EXCEPT ![name] = id]
        /\ drawn' = drawn \cup {id}
        /\ onceActive' = IF account.status = "active" THEN onceActive \cup {id} ELSE onceActive
        /\ Goes(r, [at |-> "registered", id |-> id, account |-> account])
        /\ UNCHANGED <<mode, approvalRequired, sessions, savedAccounts, savedSessions, takenNames,
                       admin, decided, revoked, restarts>>
      BY <1>d DEF Register, saved
  <1>2. account \in Account /\ account.name = name /\ account.status \in {"pending", "active"}
    <2>1. request[r].status \in {"pending", "active"}
        BY <1>1, RequestTyped, StepFields
    <2> QED
        BY <1>d, <2>1 DEF Account, Statuses
  <1>3. [at |-> "registered", id |-> id, account |-> account] \in RequestSteps
      BY <1>2, StepRecords
  <1>4. /\ accounts' \in [Ids -> Account \cup {None}] /\ accounts'[id] = account
        /\ \A other \in Ids : other # id => accounts'[other] = accounts[other]
      BY <1>1, <1>2 DEF TypeOK
  <1>5. /\ byUsername' \in [Names -> Ids \cup {None}] /\ byUsername'[name] = id
        /\ \A other \in Names : other # name => byUsername'[other] = byUsername[other]
      BY <1>1 DEF TypeOK
  <1>6. TypeOK'
      BY <1>1, <1>3, <1>4, <1>5, GoesTo DEF TypeOK
  <1> QED
      BY <1>1, <1>2, <1>3, <1>4, <1>5, <1>6, GoesTo

LEMMA RegisterSavesDoes ==
  ASSUME TypeOK, NEW r \in Requests, RegisterSaves(r)
  PROVE  /\ TypeOK'
         /\ UNCHANGED <<mode, accounts, byUsername, sessions, savedSessions, admin, drawn, decided,
                        revoked, onceActive>>
         /\ request[r].at = "registered"
         /\ \E id \in Ids, account \in Account :
               /\ id = request[r].id /\ account = request[r].account
               /\ NameFree(id, account.name)
               /\ savedAccounts'[id] = account
               /\ takenNames'[id] = account.name
               /\ \A other \in Ids : other # id => /\ savedAccounts'[other] = savedAccounts[other]
                                                   /\ takenNames'[other] = takenNames[other]
               /\ IF account.status = "pending" THEN request'[r] = Idle
                  ELSE request'[r] = [at |-> "authorized", id |-> id]
         /\ \A s \in Requests : s # r => request'[s] = request[s]
  <1>1. request[r].at = "registered" /\ request[r].id \in Ids /\ request[r].account \in Account
      BY RequestTyped, StepFields DEF RegisterSaves
  <1>d. PICK id \in Ids, account \in Account : id = request[r].id /\ account = request[r].account
      BY <1>1
  <1>2. /\ NameFree(id, account.name)
        /\ savedAccounts' = [savedAccounts EXCEPT ![id] = account]
        /\ takenNames' = [takenNames EXCEPT ![id] = account.name]
        /\ UNCHANGED <<mode, approvalRequired, accounts, byUsername, sessions, savedSessions, admin,
                       drawn, decided, revoked, onceActive, restarts>>
      BY <1>d DEF RegisterSaves, SaveAccount, memory, history
  <1>3. PICK step \in RequestSteps :
          /\ Goes(r, step)
          /\ IF account.status = "pending" THEN step = Idle ELSE step = [at |-> "authorized", id |-> id]
    <2>1. Goes(r, IF account.status = "pending" THEN Idle ELSE [at |-> "authorized", id |-> id])
        BY <1>d DEF RegisterSaves, AfterRegistration
    <2> QED
        BY <2>1, StepRecords
  <1>4. account.name \in Names
      BY DEF Account
  <1>5. /\ savedAccounts' \in [Ids -> Account \cup {None}] /\ savedAccounts'[id] = account
        /\ \A other \in Ids : other # id => savedAccounts'[other] = savedAccounts[other]
      BY <1>2 DEF TypeOK
  <1>6. /\ takenNames' \in [Ids -> Names \cup {None}] /\ takenNames'[id] = account.name
        /\ \A other \in Ids : other # id => takenNames'[other] = takenNames[other]
      BY <1>2, <1>4 DEF TypeOK
  <1>7. TypeOK'
      BY <1>2, <1>3, <1>5, <1>6, GoesTo DEF TypeOK
  <1>8. request'[r] = step /\ \A s \in Requests : s # r => request'[s] = request[s]
      BY <1>3, GoesTo
  <1>9. IF account.status = "pending" THEN request'[r] = Idle
        ELSE request'[r] = [at |-> "authorized", id |-> id]
      BY <1>3, <1>8
  <1> QED
      BY <1>1, <1>d, <1>2, <1>5, <1>6, <1>7, <1>8, <1>9

LEMMA RegisterSaveFailsDoes ==
  ASSUME TypeOK, NEW r \in Requests, RegisterSaveFails(r)
  PROVE  /\ TypeOK'
         /\ UNCHANGED <<mode, sessions, savedAccounts, savedSessions, takenNames, admin, drawn, decided,
                        revoked, onceActive>>
         /\ request[r].at = "registered" /\ request'[r] = Idle
         /\ \E id \in Ids, account \in Account :
               /\ id = request[r].id /\ account = request[r].account
               /\ accounts'[id] = None
               /\ \A other \in Ids : other # id => accounts'[other] = accounts[other]
               /\ byUsername'[account.name] = None
               /\ \A n \in Names : n # account.name => byUsername'[n] = byUsername[n]
         /\ \A s \in Requests : s # r => request'[s] = request[s]
  <1>1. request[r].at = "registered" /\ request[r].id \in Ids /\ request[r].account \in Account
      BY RequestTyped, StepFields DEF RegisterSaveFails
  <1>d. PICK id \in Ids, account \in Account : id = request[r].id /\ account = request[r].account
      BY <1>1
  <1>2. /\ accounts' = [accounts EXCEPT ![id] = None]
        /\ byUsername' = [byUsername EXCEPT ![account.name] = None]
        /\ Goes(r, Idle)
        /\ UNCHANGED <<mode, approvalRequired, sessions, savedAccounts, savedSessions, takenNames,
                       admin, drawn, decided, revoked, onceActive, restarts>>
      BY <1>d DEF RegisterSaveFails, saved, history
  <1>3. account.name \in Names
      BY DEF Account
  <1>4. /\ accounts' \in [Ids -> Account \cup {None}] /\ accounts'[id] = None
        /\ \A other \in Ids : other # id => accounts'[other] = accounts[other]
      BY <1>2 DEF TypeOK
  <1>5. /\ byUsername' \in [Names -> Ids \cup {None}] /\ byUsername'[account.name] = None
        /\ \A n \in Names : n # account.name => byUsername'[n] = byUsername[n]
      BY <1>2, <1>3 DEF TypeOK
  <1>6. TypeOK'
      BY <1>2, <1>4, <1>5, StepRecords, GoesTo DEF TypeOK
  <1> QED
      BY <1>1, <1>d, <1>2, <1>4, <1>5, <1>6, StepRecords, GoesTo

LEMMA LoginUpdatesDoes ==
  ASSUME TypeOK, NEW r \in Requests, LoginUpdates(r)
  PROVE  /\ TypeOK'
         /\ UNCHANGED <<mode, byUsername, sessions, savedAccounts, savedSessions, takenNames, admin,
                        drawn, decided, revoked, onceActive>>
         /\ request[r].at = "verified"
         /\ \E id \in Ids, account \in Account :
               /\ id = request[r].id /\ account = request[r].account
               /\ accounts'[id] = IF accounts[id] = None THEN None ELSE account
               /\ \A other \in Ids : other # id => accounts'[other] = accounts[other]
               /\ request'[r] = [at |-> "updated", id |-> id, account |-> account]
         /\ \A s \in Requests : s # r => request'[s] = request[s]
  <1>1. /\ request[r].at = "verified" /\ request[r].id \in Ids /\ request[r].account \in Account
        /\ [request[r] EXCEPT !.at = "updated"]
            = [at |-> "updated", id |-> request[r].id, account |-> request[r].account]
    <2>1. request[r].at = "verified" /\ request[r] \in RequestSteps
        BY RequestTyped DEF LoginUpdates
    <2>2. request[r].id \in Ids /\ request[r].account \in Account
        BY <2>1, StepFields
    <2>3. request[r] \in [at : {"registered", "verified", "updated"}, id : Ids, account : Account]
        BY <2>1 DEF RequestSteps, Idle
    <2>4. [request[r] EXCEPT !.at = "updated"]
            = [at |-> "updated", id |-> request[r].id, account |-> request[r].account]
        BY <2>3
    <2> QED
        BY <2>1, <2>2, <2>4
  <1>d. PICK id \in Ids, account \in Account : id = request[r].id /\ account = request[r].account
      BY <1>1
  <1>2. /\ accounts' = IF accounts[id] = None THEN accounts ELSE [accounts EXCEPT ![id] = account]
        /\ UNCHANGED <<mode, approvalRequired, byUsername, sessions, savedAccounts, savedSessions,
                       takenNames, admin, drawn, decided, revoked, onceActive, restarts>>
      BY <1>d DEF LoginUpdates, saved, history
  <1>3. PICK step \in RequestSteps :
          Goes(r, step) /\ step = [at |-> "updated", id |-> id, account |-> account]
    <2>1. Goes(r, [request[r] EXCEPT !.at = "updated"])
        BY DEF LoginUpdates
    <2>2. [at |-> "updated", id |-> id, account |-> account] \in RequestSteps
        BY StepRecords
    <2> QED
        BY <1>1, <1>d, <2>1, <2>2
  <1>4. /\ accounts' \in [Ids -> Account \cup {None}]
        /\ accounts'[id] = IF accounts[id] = None THEN None ELSE account
        /\ \A other \in Ids : other # id => accounts'[other] = accounts[other]
      BY <1>2 DEF TypeOK
  <1>5. TypeOK'
      BY <1>2, <1>3, <1>4, GoesTo DEF TypeOK
  <1>6. request'[r] = step /\ \A s \in Requests : s # r => request'[s] = request[s]
      BY <1>3, GoesTo
  <1> QED
      BY <1>1, <1>d, <1>2, <1>3, <1>4, <1>5, <1>6

LEMMA LoginSavesDoes ==
  ASSUME TypeOK, NEW r \in Requests, LoginSaves(r)
  PROVE  /\ TypeOK'
         /\ UNCHANGED <<mode, accounts, byUsername, sessions, savedSessions, admin, drawn, decided,
                        revoked, onceActive>>
         /\ request[r].at = "updated"
         /\ \E id \in Ids, account \in Account :
               /\ id = request[r].id /\ account = request[r].account
               /\ \/ savedAccounts'[id] = account /\ takenNames'[id] = account.name
                  \/ savedAccounts'[id] = savedAccounts[id] /\ takenNames'[id] = takenNames[id]
               /\ \A other \in Ids : other # id => /\ savedAccounts'[other] = savedAccounts[other]
                                                   /\ takenNames'[other] = takenNames[other]
               /\ request'[r] = [at |-> "authorized", id |-> id]
         /\ \A s \in Requests : s # r => request'[s] = request[s]
  <1>1. request[r].at = "updated" /\ request[r].id \in Ids /\ request[r].account \in Account
      BY RequestTyped, StepFields DEF LoginSaves
  <1>d. PICK id \in Ids, account \in Account : id = request[r].id /\ account = request[r].account
      BY <1>1
  <1>2. /\ \/ /\ savedAccounts' = [savedAccounts EXCEPT ![id] = account]
              /\ takenNames' = [takenNames EXCEPT ![id] = account.name]
           \/ savedAccounts' = savedAccounts /\ takenNames' = takenNames
        /\ Goes(r, [at |-> "authorized", id |-> id])
        /\ UNCHANGED <<mode, approvalRequired, accounts, byUsername, sessions, savedSessions, admin,
                       drawn, decided, revoked, onceActive, restarts>>
      BY <1>d DEF LoginSaves, SaveAccount, memory, history
  <1>3. [at |-> "authorized", id |-> id] \in RequestSteps
      BY StepRecords
  <1>4. account.name \in Names
      BY DEF Account
  <1>5. /\ savedAccounts' \in [Ids -> Account \cup {None}] /\ takenNames' \in [Ids -> Names \cup {None}]
        /\ \/ savedAccounts'[id] = account /\ takenNames'[id] = account.name
           \/ savedAccounts'[id] = savedAccounts[id] /\ takenNames'[id] = takenNames[id]
        /\ \A other \in Ids : other # id => /\ savedAccounts'[other] = savedAccounts[other]
                                            /\ takenNames'[other] = takenNames[other]
      BY <1>2, <1>4 DEF TypeOK
  <1>6. TypeOK'
      BY <1>2, <1>3, <1>5, GoesTo DEF TypeOK
  <1>7. request'[r] = [at |-> "authorized", id |-> id]
        /\ \A s \in Requests : s # r => request'[s] = request[s]
      BY <1>2, <1>3, GoesTo
  <1> QED
      BY <1>1, <1>d, <1>2, <1>5, <1>6, <1>7

LEMMA CreateAccountSessionDoes ==
  ASSUME TypeOK, NEW r \in Requests, NEW token \in Tokens, CreateAccountSession(r, token)
  PROVE  /\ TypeOK'
         /\ UNCHANGED <<mode, accounts, byUsername, savedAccounts, savedSessions, takenNames, admin,
                        decided, revoked, onceActive>>
         /\ request[r].at = "authorized" /\ token \notin drawn /\ drawn' = drawn \cup {token}
         /\ \E id \in Ids :
               /\ id = request[r].id
               /\ sessions'[token] = id
               /\ \A t \in Tokens : t # token => sessions'[t] = sessions[t]
               /\ request'[r] = [at |-> "issued", token |-> token, id |-> id]
         /\ \A s \in Requests : s # r => request'[s] = request[s]
  <1>1. request[r].at = "authorized" /\ request[r].id \in Ids
      BY RequestTyped, StepFields DEF CreateAccountSession
  <1>d. PICK id \in Ids : id = request[r].id
      BY <1>1
  <1>2. /\ token \notin drawn /\ drawn' = drawn \cup {token}
        /\ sessions' = [sessions EXCEPT ![token] = id]
        /\ Goes(r, [at |-> "issued", token |-> token, id |-> id])
        /\ UNCHANGED <<mode, approvalRequired, accounts, byUsername, savedAccounts, savedSessions,
                       takenNames, admin, decided, revoked, onceActive, restarts>>
      BY <1>d DEF CreateAccountSession, saved
  <1>3. [at |-> "issued", token |-> token, id |-> id] \in RequestSteps
      BY StepRecords
  <1>4. /\ sessions' \in [Tokens -> Ids \cup {None}] /\ sessions'[token] = id
        /\ \A t \in Tokens : t # token => sessions'[t] = sessions[t]
      BY <1>2 DEF TypeOK
  <1>5. TypeOK'
      BY <1>2, <1>3, <1>4, GoesTo DEF TypeOK
  <1>6. request'[r] = [at |-> "issued", token |-> token, id |-> id]
        /\ \A s \in Requests : s # r => request'[s] = request[s]
      BY <1>2, <1>3, GoesTo
  <1> QED
      BY <1>1, <1>d, <1>2, <1>4, <1>5, <1>6

LEMMA SessionSavesDoes ==
  ASSUME TypeOK, NEW r \in Requests, SessionSaves(r)
  PROVE  /\ TypeOK'
         /\ UNCHANGED <<mode, accounts, byUsername, sessions, savedAccounts, takenNames, admin, drawn,
                        decided, revoked, onceActive>>
         /\ request[r].at \in {"issued", "touched"} /\ request'[r] = Idle
         /\ \E token \in Tokens, id \in Ids :
               /\ token = request[r].token /\ id = request[r].id
               /\ savedSessions'[token] = id
               /\ \A t \in Tokens : t # token => savedSessions'[t] = savedSessions[t]
         /\ \A s \in Requests : s # r => request'[s] = request[s]
  <1>1. request[r].at \in {"issued", "touched"} /\ request[r].token \in Tokens /\ request[r].id \in Ids
      BY RequestTyped, StepFields DEF SessionSaves
  <1>d. PICK token \in Tokens, id \in Ids : token = request[r].token /\ id = request[r].id
      BY <1>1
  <1>2. /\ savedSessions' = [savedSessions EXCEPT ![token] = id]
        /\ Goes(r, Idle)
        /\ UNCHANGED <<mode, approvalRequired, accounts, byUsername, sessions, savedAccounts,
                       takenNames, admin, drawn, decided, revoked, onceActive, restarts>>
      BY <1>d DEF SessionSaves, memory, history
  <1>3. /\ savedSessions' \in [Tokens -> Ids \cup {None}] /\ savedSessions'[token] = id
        /\ \A t \in Tokens : t # token => savedSessions'[t] = savedSessions[t]
      BY <1>2 DEF TypeOK
  <1>4. TypeOK'
      BY <1>2, <1>3, StepRecords, GoesTo DEF TypeOK
  <1>5. request'[r] = Idle /\ \A s \in Requests : s # r => request'[s] = request[s]
      BY <1>2, StepRecords, GoesTo
  <1> QED
      BY <1>1, <1>d, <1>2, <1>3, <1>4, <1>5

LEMMA SessionSaveFailsDoes ==
  ASSUME TypeOK, NEW r \in Requests, SessionSaveFails(r)
  PROVE  /\ TypeOK'
         /\ UNCHANGED <<mode, accounts, byUsername, savedAccounts, savedSessions, takenNames, admin,
                        drawn, decided, revoked, onceActive>>
         /\ request[r].at \in {"issued", "touched"} /\ request'[r] = Idle
         /\ \E token \in Tokens :
               /\ token = request[r].token
               /\ sessions'[token] = IF request[r].at = "issued" THEN None ELSE sessions[token]
               /\ \A t \in Tokens : t # token => sessions'[t] = sessions[t]
         /\ \A s \in Requests : s # r => request'[s] = request[s]
  <1>1. request[r].at \in {"issued", "touched"} /\ request[r].token \in Tokens
      BY RequestTyped, StepFields DEF SessionSaveFails
  <1>d. PICK token \in Tokens : token = request[r].token
      BY <1>1
  <1>2. /\ \/ request[r].at = "issued" /\ sessions' = [sessions EXCEPT ![token] = None]
           \/ request[r].at = "touched" /\ sessions' = sessions
        /\ Goes(r, Idle)
        /\ UNCHANGED <<mode, approvalRequired, accounts, byUsername, savedAccounts, savedSessions,
                       takenNames, admin, drawn, decided, revoked, onceActive, restarts>>
      BY <1>d DEF SessionSaveFails, saved, history
  <1>3. /\ sessions' \in [Tokens -> Ids \cup {None}]
        /\ sessions'[token] = IF request[r].at = "issued" THEN None ELSE sessions[token]
        /\ \A t \in Tokens : t # token => sessions'[t] = sessions[t]
      BY <1>2 DEF TypeOK
  <1>4. TypeOK'
      BY <1>2, <1>3, StepRecords, GoesTo DEF TypeOK
  <1>5. request'[r] = Idle /\ \A s \in Requests : s # r => request'[s] = request[s]
      BY <1>2, StepRecords, GoesTo
  <1> QED
      BY <1>1, <1>d, <1>2, <1>3, <1>4, <1>5

LEMMA DropUnusableDoes ==
  ASSUME TypeOK, NEW token \in Tokens, DropUnusable(token)
  PROVE  /\ TypeOK'
         /\ UNCHANGED <<mode, accounts, byUsername, savedAccounts, savedSessions, takenNames, request,
                        admin, drawn, decided, revoked, onceActive>>
         /\ sessions[token] # None /\ ~Usable(token)
         /\ sessions'[token] = None
         /\ \A t \in Tokens : t # token => sessions'[t] = sessions[t]
  <1>1. /\ sessions[token] # None /\ ~Usable(token)
        /\ sessions' = [sessions EXCEPT ![token] = None]
        /\ UNCHANGED <<mode, approvalRequired, accounts, byUsername, savedAccounts, savedSessions,
                       takenNames, request, admin, drawn, decided, revoked, onceActive, restarts>>
      BY DEF DropUnusable, saved, history
  <1>2. /\ sessions' \in [Tokens -> Ids \cup {None}] /\ sessions'[token] = None
        /\ \A t \in Tokens : t # token => sessions'[t] = sessions[t]
      BY <1>1 DEF TypeOK
  <1>3. TypeOK'
      BY <1>1, <1>2 DEF TypeOK
  <1> QED
      BY <1>1, <1>2, <1>3

LEMMA EndSessionDoes ==
  ASSUME TypeOK, NEW r \in Requests, NEW token \in Tokens, EndSession(r, token)
  PROVE  /\ TypeOK' /\ Free(r)
         /\ UNCHANGED <<mode, accounts, byUsername, savedAccounts, savedSessions, takenNames, admin,
                        drawn, decided, revoked, onceActive>>
         /\ token \in drawn
         /\ request'[r] = [at |-> "dropped", token |-> token]
         /\ sessions'[token] = None
         /\ \A t \in Tokens : t # token => sessions'[t] = sessions[t]
         /\ \A s \in Requests : s # r => request'[s] = request[s]
  <1>1. /\ Free(r) /\ token \in drawn
        /\ sessions' = [sessions EXCEPT ![token] = None]
        /\ Goes(r, [at |-> "dropped", token |-> token])
        /\ UNCHANGED <<mode, approvalRequired, accounts, byUsername, savedAccounts, savedSessions,
                       takenNames, admin, drawn, decided, revoked, onceActive, restarts>>
      BY DEF EndSession, Held, saved, history
  <1>2. /\ sessions' \in [Tokens -> Ids \cup {None}] /\ sessions'[token] = None
        /\ \A t \in Tokens : t # token => sessions'[t] = sessions[t]
      BY <1>1 DEF TypeOK
  <1>3. [at |-> "dropped", token |-> token] \in RequestSteps
      BY StepRecords
  <1>4. TypeOK'
      BY <1>1, <1>2, <1>3, GoesTo DEF TypeOK
  <1> QED
      BY <1>1, <1>2, <1>3, <1>4, GoesTo

LEMMA SessionDeletedDoes ==
  ASSUME TypeOK, NEW r \in Requests, SessionDeleted(r) \/ SessionDeleteFails(r)
  PROVE  /\ TypeOK'
         /\ UNCHANGED <<mode, accounts, byUsername, sessions, savedAccounts, takenNames, admin, drawn,
                        decided, onceActive>>
         /\ request[r].at = "dropped" /\ request'[r] = Idle
         /\ \E token \in Tokens :
               /\ token = request[r].token
               /\ revoked' = revoked \cup {token}
               /\ savedSessions'[token] = None \/ "delete" \in mode.failing
               /\ \A t \in Tokens : t # token => savedSessions'[t] = savedSessions[t]
         /\ \A s \in Requests : s # r => request'[s] = request[s]
  <1>1. request[r].at = "dropped" /\ request[r].token \in Tokens
      BY RequestTyped, StepFields DEF SessionDeleted, SessionDeleteFails
  <1>d. PICK token \in Tokens : token = request[r].token
      BY <1>1
  <1>2. /\ \/ savedSessions' = [savedSessions EXCEPT ![token] = None]
           \/ savedSessions' = savedSessions /\ "delete" \in mode.failing
        /\ revoked' = revoked \cup {token}
        /\ Goes(r, Idle)
        /\ UNCHANGED <<mode, approvalRequired, accounts, byUsername, sessions, savedAccounts,
                       takenNames, admin, drawn, decided, onceActive, restarts>>
      BY <1>d DEF SessionDeleted, SessionDeleteFails, memory, saved
  <1>3. /\ savedSessions' \in [Tokens -> Ids \cup {None}]
        /\ savedSessions'[token] = None \/ "delete" \in mode.failing
        /\ \A t \in Tokens : t # token => savedSessions'[t] = savedSessions[t]
      BY <1>2 DEF TypeOK
  <1>4. TypeOK'
      BY <1>2, <1>3, StepRecords, GoesTo DEF TypeOK
  <1>5. request'[r] = Idle /\ \A s \in Requests : s # r => request'[s] = request[s]
      BY <1>2, StepRecords, GoesTo
  <1> QED
      BY <1>1, <1>d, <1>2, <1>3, <1>4, <1>5

LEMMA ChangeAccountDoes ==
  ASSUME TypeOK, NEW id \in Ids, NEW account \in Account, ChangeAccount(id, account)
  PROVE  /\ AdminFree /\ accounts[id] # None /\ NameFree(id, account.name)
         /\ accounts' \in [Ids -> Account \cup {None}]
         /\ savedAccounts' \in [Ids -> Account \cup {None}]
         /\ takenNames' \in [Ids -> Names \cup {None}]
         /\ onceActive' \subseteq Ids /\ onceActive \subseteq onceActive'
         /\ account.status = "active" => id \in onceActive'
         /\ accounts'[id] = account /\ savedAccounts'[id] = account /\ takenNames'[id] = account.name
         /\ \A other \in Ids : other # id => /\ accounts'[other] = accounts[other]
                                             /\ savedAccounts'[other] = savedAccounts[other]
                                             /\ takenNames'[other] = takenNames[other]
  <1>1. /\ AdminFree /\ accounts[id] # None /\ NameFree(id, account.name)
        /\ savedAccounts' = [savedAccounts EXCEPT ![id] = account]
        /\ takenNames' = [takenNames EXCEPT ![id] = account.name]
        /\ accounts' = [accounts EXCEPT ![id] = account]
        /\ onceActive' = IF account.status = "active" THEN onceActive \cup {id} ELSE onceActive
      BY DEF ChangeAccount, SaveAccount
  <1>2. account.name \in Names
      BY DEF Account
  <1>3. /\ accounts' \in [Ids -> Account \cup {None}] /\ accounts'[id] = account
        /\ \A other \in Ids : other # id => accounts'[other] = accounts[other]
      BY <1>1 DEF TypeOK
  <1>4. /\ savedAccounts' \in [Ids -> Account \cup {None}] /\ savedAccounts'[id] = account
        /\ \A other \in Ids : other # id => savedAccounts'[other] = savedAccounts[other]
      BY <1>1 DEF TypeOK
  <1>5. /\ takenNames' \in [Ids -> Names \cup {None}] /\ takenNames'[id] = account.name
        /\ \A other \in Ids : other # id => takenNames'[other] = takenNames[other]
      BY <1>1, <1>2 DEF TypeOK
  <1>6. /\ onceActive' \subseteq Ids /\ onceActive \subseteq onceActive'
        /\ account.status = "active" => id \in onceActive'
      BY <1>1 DEF TypeOK
  <1> QED
      BY <1>1, <1>3, <1>4, <1>5, <1>6

LEMMA DropSessionsDoes ==
  ASSUME TypeOK, NEW id \in Ids, sessions' = WithoutTokens(SessionsOf(id))
  PROVE  /\ sessions' \in [Tokens -> Ids \cup {None}]
         /\ \A t \in Tokens : sessions'[t] = IF sessions[t] = id THEN None ELSE sessions[t]
         /\ SessionsOf(id) \subseteq Tokens
  BY DEF TypeOK, WithoutTokens, SessionsOf

\* What the two changes of an account by the administrator have in common.
LEMMA SetAccountDoes ==
  ASSUME TypeOK, NEW id \in Ids,
         \/ \E status \in Statuses : SetAccountStatus(id, status)
         \/ \E password \in Passwords : SetAccountPassword(id, password)
  PROVE  /\ TypeOK' /\ AdminFree /\ accounts[id] # None
         /\ UNCHANGED <<mode, byUsername, savedSessions, request, drawn, revoked>>
         /\ \E account \in Account :
               /\ account.name = accounts[id].name /\ NameFree(id, account.name)
               /\ account.status = "active" => id \in onceActive'
               /\ accounts'[id] = account /\ savedAccounts'[id] = account
               /\ takenNames'[id] = account.name
               /\ \/ /\ decided'[id].status = account.status
                     /\ decided'[id].password = decided[id].password
                     /\ account.password = accounts[id].password
                  \/ /\ decided'[id].password = account.password
                     /\ decided'[id].status = decided[id].status
                     /\ account.status = accounts[id].status
               /\ \/ /\ account.status = "active" /\ UNCHANGED <<sessions, admin>>
                  \/ /\ admin' = [at |-> "dropSessions", id |-> id, gone |-> SessionsOf(id)]
                     /\ \A t \in Tokens : sessions'[t] = IF sessions[t] = id THEN None ELSE sessions[t]
         /\ \A other \in Ids : other # id => /\ accounts'[other] = accounts[other]
                                             /\ savedAccounts'[other] = savedAccounts[other]
                                             /\ takenNames'[other] = takenNames[other]
                                             /\ decided'[other] = decided[other]
         /\ onceActive \subseteq onceActive'
  <1>1. accounts[id] # None /\ accounts[id] \in Account
      BY DEF TypeOK, SetAccountStatus, SetAccountPassword
  <1>2. PICK account \in Account :
          /\ ChangeAccount(id, account)
          /\ account.name = accounts[id].name
          /\ decided' \in [Ids -> [password : Passwords \cup {None}, status : Statuses \cup {None}]]
          /\ \/ /\ decided'[id].status = account.status
                /\ decided'[id].password = decided[id].password
                /\ account.password = accounts[id].password
             \/ /\ decided'[id].password = account.password
                /\ decided'[id].status = decided[id].status
                /\ account.status = accounts[id].status
          /\ \A other \in Ids : other # id => decided'[other] = decided[other]
          /\ (account.status = "active" /\ UNCHANGED <<sessions, admin>>) \/ DropSessionsOf(id)
          /\ UNCHANGED <<mode, approvalRequired, byUsername, savedSessions, request, drawn, revoked,
                         restarts>>
    <2>1. CASE \E status \in Statuses : SetAccountStatus(id, status)
      <3>1. PICK status \in Statuses : SetAccountStatus(id, status)
          BY <2>1
      <3> DEFINE account == [accounts[id] EXCEPT !.status = status]
      <3>2. /\ account \in Account /\ account.status = status /\ account.name = accounts[id].name
            /\ account.password = accounts[id].password
          BY <1>1 DEF Account
      <3>3. /\ ChangeAccount(id, account)
            /\ decided' = [decided EXCEPT ![id].status = status]
            /\ (status = "active" /\ UNCHANGED <<sessions, admin>>) \/ DropSessionsOf(id)
            /\ UNCHANGED <<mode, approvalRequired, byUsername, savedSessions, request, drawn, revoked,
                           restarts>>
          BY <3>1 DEF SetAccountStatus
      <3>4. /\ decided' \in [Ids -> [password : Passwords \cup {None}, status : Statuses \cup {None}]]
            /\ decided'[id].status = status /\ decided'[id].password = decided[id].password
            /\ \A other \in Ids : other # id => decided'[other] = decided[other]
          BY <3>3 DEF TypeOK
      <3> HIDE DEF account
      <3> QED
          BY <3>2, <3>3, <3>4
    <2>2. CASE \E password \in Passwords : SetAccountPassword(id, password)
      <3>1. PICK password \in Passwords : SetAccountPassword(id, password)
          BY <2>2
      <3> DEFINE account == [accounts[id] EXCEPT !.password = password]
      <3>2. /\ account \in Account /\ account.password = password /\ account.name = accounts[id].name
            /\ account.status = accounts[id].status
          BY <1>1 DEF Account
      <3>3. /\ ChangeAccount(id, account)
            /\ decided' = [decided EXCEPT ![id].password = password]
            /\ DropSessionsOf(id)
            /\ UNCHANGED <<mode, approvalRequired, byUsername, savedSessions, request, drawn, revoked,
                           restarts>>
          BY <3>1 DEF SetAccountPassword
      <3>4. /\ decided' \in [Ids -> [password : Passwords \cup {None}, status : Statuses \cup {None}]]
            /\ decided'[id].password = password /\ decided'[id].status = decided[id].status
            /\ \A other \in Ids : other # id => decided'[other] = decided[other]
          BY <3>3 DEF TypeOK
      <3> HIDE DEF account
      <3> QED
          BY <3>2, <3>3, <3>4
    <2> QED
        BY <2>1, <2>2
  <1>3. \/ account.status = "active" /\ UNCHANGED <<sessions, admin>>
        \/ /\ admin' = [at |-> "dropSessions", id |-> id, gone |-> SessionsOf(id)]
           /\ \A t \in Tokens : sessions'[t] = IF sessions[t] = id THEN None ELSE sessions[t]
           /\ sessions' \in [Tokens -> Ids \cup {None}] /\ SessionsOf(id) \subseteq Tokens
      BY <1>2, DropSessionsDoes DEF DropSessionsOf
  <1>4. TypeOK'
    <2>1. sessions' \in [Tokens -> Ids \cup {None}]
        BY <1>3 DEF TypeOK
    <2>2. admin' \in {Idle} \cup [at : {"dropSessions", "delete"}, id : Ids, gone : SUBSET Tokens]
        BY <1>3 DEF TypeOK
    <2> QED
        BY <1>2, <2>1, <2>2, ChangeAccountDoes DEF TypeOK
  <1> QED
      BY <1>1, <1>2, <1>3, <1>4, ChangeAccountDoes

LEMMA SessionsDroppedDoes ==
  ASSUME TypeOK, SessionsDropped \/ SessionsDropFails
  PROVE  /\ TypeOK' /\ admin.at = "dropSessions" /\ admin' = Idle
         /\ UNCHANGED <<mode, accounts, byUsername, sessions, savedAccounts, takenNames, request, drawn,
                        decided, onceActive>>
         /\ revoked' = revoked \cup admin.gone
         /\ \/ \A t \in Tokens :
                  savedSessions'[t] = IF savedSessions[t] = admin.id THEN None ELSE savedSessions[t]
            \/ "delete" \in mode.failing
  <1>1. /\ admin.at = "dropSessions" /\ admin' = Idle /\ revoked' = revoked \cup admin.gone
        /\ UNCHANGED <<mode, approvalRequired, accounts, byUsername, sessions, savedAccounts, takenNames,
                       request, drawn, decided, onceActive, restarts>>
        /\ \/ savedSessions' = [t \in Tokens |->
                                  IF savedSessions[t] = admin.id THEN None ELSE savedSessions[t]]
           \/ savedSessions' = savedSessions /\ "delete" \in mode.failing
      BY DEF SessionsDropped, SessionsDropFails, memory, saved
  <1>2. /\ savedSessions' \in [Tokens -> Ids \cup {None}]
        /\ \/ \A t \in Tokens :
                 savedSessions'[t] = IF savedSessions[t] = admin.id THEN None ELSE savedSessions[t]
           \/ "delete" \in mode.failing
      BY <1>1 DEF TypeOK
  <1>3. admin.gone \subseteq Tokens
      BY <1>1, AdminFields DEF Idle
  <1>4. TypeOK'
      BY <1>1, <1>2, <1>3 DEF TypeOK
  <1> QED
      BY <1>1, <1>2, <1>4

LEMMA DeleteAccountDoes ==
  ASSUME TypeOK, NEW id \in Ids, DeleteAccount(id)
  PROVE  /\ TypeOK' /\ AdminFree /\ accounts[id] # None
         /\ UNCHANGED <<mode, savedAccounts, savedSessions, takenNames, request, drawn, decided,
                        revoked, onceActive>>
         /\ accounts'[id] = None
         /\ \A other \in Ids : other # id => accounts'[other] = accounts[other]
         /\ byUsername'[accounts[id].name] = None
         /\ \A n \in Names : n # accounts[id].name => byUsername'[n] = byUsername[n]
         /\ \A t \in Tokens : sessions'[t] = IF sessions[t] = id THEN None ELSE sessions[t]
         /\ admin' = [at |-> "delete", id |-> id, gone |-> SessionsOf(id)]
  <1>1. /\ AdminFree /\ accounts[id] # None
        /\ accounts' = [accounts EXCEPT ![id] = None]
        /\ byUsername' = [byUsername EXCEPT ![accounts[id].name] = None]
        /\ sessions' = WithoutTokens(SessionsOf(id))
        /\ admin' = [at |-> "delete", id |-> id, gone |-> SessionsOf(id)]
        /\ UNCHANGED <<mode, approvalRequired, savedAccounts, savedSessions, takenNames, request, drawn,
                       decided, revoked, onceActive, restarts>>
      BY DEF DeleteAccount, saved, history
  <1>2. accounts[id].name \in Names
      BY <1>1 DEF TypeOK, Account
  <1>3. /\ accounts' \in [Ids -> Account \cup {None}] /\ accounts'[id] = None
        /\ \A other \in Ids : other # id => accounts'[other] = accounts[other]
      BY <1>1 DEF TypeOK
  <1>4. /\ byUsername' \in [Names -> Ids \cup {None}] /\ byUsername'[accounts[id].name] = None
        /\ \A n \in Names : n # accounts[id].name => byUsername'[n] = byUsername[n]
      BY <1>1, <1>2 DEF TypeOK
  <1>5. /\ sessions' \in [Tokens -> Ids \cup {None}] /\ SessionsOf(id) \subseteq Tokens
        /\ \A t \in Tokens : sessions'[t] = IF sessions[t] = id THEN None ELSE sessions[t]
      BY <1>1, DropSessionsDoes
  <1>6. TypeOK'
      BY <1>1, <1>3, <1>4, <1>5 DEF TypeOK
  <1> QED
      BY <1>1, <1>3, <1>4, <1>5, <1>6

LEMMA AccountDeletedDoes ==
  ASSUME TypeOK, AccountDeleted
  PROVE  /\ TypeOK' /\ admin.at = "delete" /\ admin' = Idle
         /\ UNCHANGED <<mode, accounts, byUsername, sessions, request, drawn, decided, onceActive>>
         /\ revoked' = revoked \cup admin.gone
         /\ savedAccounts'[admin.id] = None /\ takenNames'[admin.id] = None
         /\ \A other \in Ids : other # admin.id => /\ savedAccounts'[other] = savedAccounts[other]
                                                   /\ takenNames'[other] = takenNames[other]
         /\ \A t \in Tokens :
               savedSessions'[t] = IF savedSessions[t] = admin.id THEN None ELSE savedSessions[t]
  <1>1. /\ admin.at = "delete" /\ admin' = Idle /\ revoked' = revoked \cup admin.gone
        /\ savedAccounts' = [savedAccounts EXCEPT ![admin.id] = None]
        /\ takenNames' = [takenNames EXCEPT ![admin.id] = None]
        /\ savedSessions' = [t \in Tokens |->
                               IF savedSessions[t] = admin.id THEN None ELSE savedSessions[t]]
        /\ UNCHANGED <<mode, approvalRequired, accounts, byUsername, sessions, request, drawn, decided,
                       onceActive, restarts>>
      BY DEF AccountDeleted, memory
  <1>2. admin.id \in Ids /\ admin.gone \subseteq Tokens
      BY <1>1, AdminFields DEF Idle
  <1>3. /\ savedAccounts' \in [Ids -> Account \cup {None}] /\ savedAccounts'[admin.id] = None
        /\ \A other \in Ids : other # admin.id => savedAccounts'[other] = savedAccounts[other]
      BY <1>1, <1>2 DEF TypeOK
  <1>4. /\ takenNames' \in [Ids -> Names \cup {None}] /\ takenNames'[admin.id] = None
        /\ \A other \in Ids : other # admin.id => takenNames'[other] = takenNames[other]
      BY <1>1, <1>2 DEF TypeOK
  <1>5. /\ savedSessions' \in [Tokens -> Ids \cup {None}]
        /\ \A t \in Tokens :
              savedSessions'[t] = IF savedSessions[t] = admin.id THEN None ELSE savedSessions[t]
      BY <1>1 DEF TypeOK
  <1>6. TypeOK'
      BY <1>1, <1>2, <1>3, <1>4, <1>5 DEF TypeOK
  <1> QED
      BY <1>1, <1>3, <1>4, <1>5, <1>6

LEMMA AccountDeleteFailsDoes ==
  ASSUME TypeOK, AccountDeleteFails
  PROVE  /\ TypeOK' /\ "delete" \in mode.failing
         /\ UNCHANGED <<mode, accounts, sessions, savedAccounts, request, onceActive>>
  BY DEF AccountDeleteFails, memory, saved, history, TypeOK

LEMMA SetApprovalRequiredDoes ==
  ASSUME TypeOK, SetApprovalRequired
  PROVE  /\ TypeOK'
         /\ UNCHANGED <<mode, accounts, byUsername, sessions, savedAccounts, savedSessions, takenNames,
                        request, admin, drawn, decided, revoked, onceActive, restarts>>
  BY DEF SetApprovalRequired, memory, saved, history, TypeOK

LEMMA RestartDoes ==
  ASSUME TypeOK, Restart
  PROVE  /\ TypeOK'
         /\ UNCHANGED <<mode, savedAccounts, takenNames, drawn, decided, revoked, onceActive>>
         /\ accounts' = savedAccounts
         /\ \A n \in Names :
               IF \A id \in Ids : savedAccounts[id] # None => savedAccounts[id].name # n
               THEN byUsername'[n] = None
               ELSE /\ byUsername'[n] \in Ids
                    /\ savedAccounts[byUsername'[n]] # None /\ savedAccounts[byUsername'[n]].name = n
         /\ \A t \in Tokens : sessions'[t] = IF Restorable(t) THEN savedSessions[t] ELSE None
         /\ \A t \in Tokens : savedSessions'[t] = sessions'[t] \/ "delete" \in mode.failing
         /\ \A r \in Requests : request'[r] = Idle
         /\ admin' = Idle
  <1>1. /\ accounts' = savedAccounts
        /\ restarts < MaxRestarts /\ restarts' = restarts + 1
        /\ byUsername' \in [Names -> Ids \cup {None}]
        /\ \A n \in Names :
              LET owners == {id \in Ids : savedAccounts[id] # None /\ savedAccounts[id].name = n}
              IN  IF owners = {} THEN byUsername'[n] = None ELSE byUsername'[n] \in owners
        /\ sessions' = [t \in Tokens |-> IF Restorable(t) THEN savedSessions[t] ELSE None]
        /\ request' = [r \in Requests |-> Idle]
        /\ admin' = Idle
        /\ UNCHANGED <<mode, approvalRequired, savedAccounts, takenNames, drawn, decided, revoked,
                       onceActive>>
      BY DEF Restart
  <1>2. PICK kept \in IF "delete" \in mode.failing THEN SUBSET Tokens ELSE {{}} :
          savedSessions' = [t \in Tokens |-> IF t \in kept THEN savedSessions[t] ELSE sessions'[t]]
      BY DEF Restart
  <1>3. sessions' \in [Tokens -> Ids \cup {None}]
      BY <1>1 DEF TypeOK
  <1>4. /\ savedSessions' \in [Tokens -> Ids \cup {None}]
        /\ \A t \in Tokens : savedSessions'[t] = sessions'[t] \/ "delete" \in mode.failing
      BY <1>2, <1>3 DEF TypeOK
  <1>5. \A n \in Names :
          IF \A id \in Ids : savedAccounts[id] # None => savedAccounts[id].name # n
          THEN byUsername'[n] = None
          ELSE /\ byUsername'[n] \in Ids
               /\ savedAccounts[byUsername'[n]] # None /\ savedAccounts[byUsername'[n]].name = n
    <2> TAKE n \in Names
    <2> DEFINE owners == {id \in Ids : savedAccounts[id] # None /\ savedAccounts[id].name = n}
    <2>1. IF owners = {} THEN byUsername'[n] = None ELSE byUsername'[n] \in owners
        BY <1>1
    <2> QED
        BY <2>1
  <1>6. TypeOK'
    <2>1. restarts' \in 0 .. MaxRestarts
        BY <1>1, AccountsAssumption DEF TypeOK
    <2>2. request' \in [Requests -> RequestSteps]
        BY <1>1, StepRecords
    <2> QED
        BY <1>1, <1>3, <1>4, <2>1, <2>2 DEF TypeOK
  <1> QED
      BY <1>1, <1>3, <1>4, <1>5, <1>6

-----------------------------------------------------------------------------
(* The cases of Next, one for each lemma above.                            *)

LEMMA NextCases ==
  ASSUME Next
  PROVE  \/ \E r \in Requests :
              \/ RegisterDecides(r)
              \/ RegisterRefused(r)
              \/ \E name \in Names, password \in Passwords : LoginVerifies(r, name, password)
              \/ \E token \in Tokens : TouchSession(r, token)
              \/ \E token \in Tokens : EndSession(r, token)
              \/ \E id \in Ids, name \in Names, password \in Passwords :
                    Register(r, id, name, password)
              \/ RegisterSaves(r)
              \/ RegisterSaveFails(r)
              \/ LoginUpdates(r)
              \/ LoginSaves(r)
              \/ \E token \in Tokens : CreateAccountSession(r, token)
              \/ SessionSaves(r)
              \/ SessionSaveFails(r)
              \/ SessionDeleted(r) \/ SessionDeleteFails(r)
         \/ \E token \in Tokens : DropUnusable(token)
         \/ SetApprovalRequired
         \/ \E id \in Ids : \/ \E status \in Statuses : SetAccountStatus(id, status)
                            \/ \E password \in Passwords : SetAccountPassword(id, password)
         \/ \E id \in Ids : DeleteAccount(id)
         \/ SessionsDropped \/ SessionsDropFails
         \/ AccountDeleted
         \/ AccountDeleteFails
         \/ Restart
  BY DEF Next, RequestStarts, RequestContinues, Administrator

LEMMA InitTyped == Init => TypeOK
  <1> SUFFICES ASSUME Init PROVE TypeOK
      OBVIOUS
  <1>1. restarts \in 0 .. MaxRestarts
      BY AccountsAssumption DEF Init
  <1>2. request \in [Requests -> RequestSteps]
      BY StepRecords DEF Init
  <1> QED
      BY <1>1, <1>2 DEF Init, TypeOK, Nothing

-----------------------------------------------------------------------------
(* No session before approval.                                             *)

\* A request that took a step still holds what was active; the others did not move.
LEMMA RequestMoves ==
  ASSUME RequestsActiveOnly, onceActive \subseteq onceActive', NEW r \in Requests,
         \A s \in Requests : s # r => request'[s] = request[s],
         request'[r].at = "registered" =>
            /\ request'[r].account.status \in {"pending", "active"}
            /\ request'[r].account.status = "active" => request'[r].id \in onceActive',
         request'[r].at \in {"verified", "updated", "authorized"} => request'[r].id \in onceActive'
  PROVE  RequestsActiveOnly'
  BY DEF RequestsActiveOnly

LEMMA ApprovalRequestStep ==
  ASSUME ApprovalInv, NEW r \in Requests,
         \/ RegisterDecides(r)
         \/ RegisterRefused(r)
         \/ \E name \in Names, password \in Passwords : LoginVerifies(r, name, password)
         \/ \E token \in Tokens : TouchSession(r, token)
         \/ \E token \in Tokens : EndSession(r, token)
         \/ SessionSaves(r)
         \/ SessionSaveFails(r)
         \/ SessionDeleted(r) \/ SessionDeleteFails(r)
  PROVE  ApprovalInv'
  <1> USE DEF ApprovalInv
  <1>1. CASE RegisterDecides(r) \/ RegisterRefused(r) \/ \E token \in Tokens : TouchSession(r, token)
    <2>1. /\ TypeOK' /\ UNCHANGED <<accounts, savedAccounts, sessions, onceActive>>
          /\ request'[r].at \in {"deciding", "idle", "touched"}
          /\ \A s \in Requests : s # r => request'[s] = request[s]
      <3>1. CASE RegisterDecides(r)
          BY <3>1, RegisterDecidesDoes DEF beside
      <3>2. CASE RegisterRefused(r)
          BY <3>2, RegisterRefusedDoes DEF beside, Idle
      <3>3. ASSUME NEW token \in Tokens, TouchSession(r, token)
            PROVE  /\ TypeOK' /\ UNCHANGED <<accounts, savedAccounts, sessions, onceActive>>
                   /\ request'[r].at = "touched"
                   /\ \A s \in Requests : s # r => request'[s] = request[s]
        <4>1. TypeOK' /\ UNCHANGED beside
            BY <3>3, TouchSessionDoes
        <4>2. request'[r] = [at |-> "touched", token |-> token, id |-> sessions[token]]
              /\ \A s \in Requests : s # r => request'[s] = request[s]
            BY <3>3, TouchSessionDoes
        <4> QED
            BY <4>1, <4>2 DEF beside
      <3> QED
          BY <1>1, <3>1, <3>2, <3>3
    <2> QED
        BY <2>1, RequestMoves DEF ActiveOnly
  <1>2. ASSUME NEW name \in Names, NEW password \in Passwords, LoginVerifies(r, name, password)
        PROVE  ApprovalInv'
    <2>1. /\ TypeOK' /\ UNCHANGED <<accounts, savedAccounts, sessions, onceActive>>
          /\ \E id \in Ids : /\ accounts[id] # None /\ accounts[id].status = "active"
                             /\ request'[r].at = "verified" /\ request'[r].id = id
          /\ \A s \in Requests : s # r => request'[s] = request[s]
      <3>1. TypeOK' /\ UNCHANGED beside /\ \A s \in Requests : s # r => request'[s] = request[s]
          BY <1>2, LoginVerifiesDoes
      <3>2. \E id \in Ids : /\ accounts[id] # None /\ accounts[id].status = "active"
                            /\ request'[r] = [at |-> "verified", id |-> id, account |-> accounts[id]]
          BY <1>2, LoginVerifiesDoes
      <3> QED
          BY <3>1, <3>2 DEF beside
    <2> QED
        BY <2>1, RequestMoves DEF ActiveOnly
  <1>3. ASSUME NEW token \in Tokens, EndSession(r, token)
        PROVE  ApprovalInv'
    <2>1. /\ TypeOK' /\ UNCHANGED <<accounts, savedAccounts, onceActive>>
          /\ request'[r].at = "dropped"
          /\ \A t \in Tokens : sessions'[t] \in {None, sessions[t]}
          /\ \A s \in Requests : s # r => request'[s] = request[s]
      <3>1. request'[r] = [at |-> "dropped", token |-> token]
          BY <1>3, EndSessionDoes
      <3>2. /\ TypeOK' /\ UNCHANGED <<accounts, savedAccounts, onceActive>>
            /\ sessions'[token] = None /\ \A t \in Tokens : t # token => sessions'[t] = sessions[t]
            /\ \A s \in Requests : s # r => request'[s] = request[s]
          BY <1>3, EndSessionDoes
      <3> QED
          BY <3>1, <3>2
    <2> QED
        BY <2>1, RequestMoves DEF ActiveOnly
  <1>4. CASE SessionSaves(r) \/ SessionSaveFails(r) \/ SessionDeleted(r) \/ SessionDeleteFails(r)
    <2>1. /\ TypeOK' /\ UNCHANGED <<accounts, savedAccounts, onceActive>>
          /\ request'[r].at = "idle"
          /\ \A s \in Requests : s # r => request'[s] = request[s]
        BY <1>4, SessionSavesDoes, SessionSaveFailsDoes, SessionDeletedDoes DEF Idle
    <2>2. \A t \in Tokens : sessions'[t] \in {None, sessions[t]}
        BY <1>4, SessionSavesDoes, SessionSaveFailsDoes, SessionDeletedDoes
    <2> QED
        BY <2>1, <2>2, RequestMoves DEF ActiveOnly
  <1> QED
      BY <1>1, <1>2, <1>3, <1>4

LEMMA ApprovalAccountStep ==
  ASSUME ApprovalInv, NEW r \in Requests,
         \/ \E id \in Ids, name \in Names, password \in Passwords : Register(r, id, name, password)
         \/ RegisterSaves(r)
         \/ RegisterSaveFails(r)
         \/ LoginUpdates(r)
         \/ LoginSaves(r)
         \/ \E token \in Tokens : CreateAccountSession(r, token)
  PROVE  ApprovalInv'
  <1> USE DEF ApprovalInv
  <1>1. ASSUME NEW id \in Ids, NEW name \in Names, NEW password \in Passwords,
               Register(r, id, name, password)
        PROVE  ApprovalInv'
    <2>1. PICK account \in Account :
            /\ TypeOK' /\ UNCHANGED <<sessions, savedAccounts>>
            /\ account.status \in {"pending", "active"}
            /\ accounts'[id] = account
            /\ \A other \in Ids : other # id => accounts'[other] = accounts[other]
            /\ account.status = "active" => id \in onceActive'
            /\ onceActive \subseteq onceActive'
            /\ request'[r] = [at |-> "registered", id |-> id, account |-> account]
            /\ \A s \in Requests : s # r => request'[s] = request[s]
      <3>1. PICK account \in Account :
               /\ account.name = name /\ account.status \in {"pending", "active"}
               /\ accounts'[id] = account
               /\ request'[r] = [at |-> "registered", id |-> id, account |-> account]
               /\ account.status = "active" => id \in onceActive'
          BY <1>1, RegisterDoes, Zenon
      <3>2. /\ TypeOK' /\ UNCHANGED <<sessions, savedAccounts>>
            /\ \A other \in Ids : other # id => accounts'[other] = accounts[other]
            /\ onceActive \subseteq onceActive'
            /\ \A s \in Requests : s # r => request'[s] = request[s]
          BY <1>1, RegisterDoes
      <3> QED
          BY <3>1, <3>2
    <2>2. RequestsActiveOnly'
      <3>1. request'[r].at = "registered" /\ request'[r].id = id /\ request'[r].account = account
          BY <2>1
      <3> QED
          BY <2>1, <3>1, RequestMoves
    <2>3. ActiveOnly'
        BY <2>1 DEF ActiveOnly
    <2> QED
        BY <2>1, <2>2, <2>3
  <1>2. CASE RegisterSaves(r)
    <2>1. PICK id \in Ids, account \in Account :
            /\ TypeOK' /\ UNCHANGED <<accounts, sessions, onceActive>>
            /\ request[r].at = "registered" /\ id = request[r].id /\ account = request[r].account
            /\ savedAccounts'[id] = account
            /\ \A other \in Ids : other # id => savedAccounts'[other] = savedAccounts[other]
            /\ IF account.status = "pending" THEN request'[r] = Idle
               ELSE request'[r] = [at |-> "authorized", id |-> id]
            /\ \A s \in Requests : s # r => request'[s] = request[s]
        BY <1>2, RegisterSavesDoes
    <2>2. /\ account.status \in {"pending", "active"}
          /\ account.status = "active" => id \in onceActive
        BY <2>1 DEF RequestsActiveOnly
    <2>3. RequestsActiveOnly'
      <3>1. request'[r].at = "idle" \/ (request'[r].at = "authorized" /\ request'[r].id \in onceActive')
          BY <2>1, <2>2 DEF Idle
      <3> QED
          BY <2>1, <3>1, RequestMoves
    <2>4. ActiveOnly'
        BY <2>1, <2>2 DEF ActiveOnly
    <2> QED
        BY <2>1, <2>3, <2>4
  <1>3. CASE RegisterSaveFails(r)
    <2>1. /\ TypeOK' /\ UNCHANGED <<sessions, savedAccounts, onceActive>>
          /\ \A id \in Ids : accounts'[id] \in {None, accounts[id]}
          /\ request'[r].at = "idle"
          /\ \A s \in Requests : s # r => request'[s] = request[s]
        BY <1>3, RegisterSaveFailsDoes DEF Idle
    <2> QED
        BY <2>1, RequestMoves DEF ActiveOnly
  <1>4. CASE LoginUpdates(r)
    <2>1. PICK id \in Ids, account \in Account :
            /\ TypeOK' /\ UNCHANGED <<sessions, savedAccounts, onceActive>>
            /\ request[r].at = "verified" /\ id = request[r].id
            /\ accounts'[id] = IF accounts[id] = None THEN None ELSE account
            /\ \A other \in Ids : other # id => accounts'[other] = accounts[other]
            /\ request'[r] = [at |-> "updated", id |-> id, account |-> account]
            /\ \A s \in Requests : s # r => request'[s] = request[s]
        BY <1>4, LoginUpdatesDoes
    <2>2. id \in onceActive
        BY <2>1 DEF RequestsActiveOnly
    <2>3. RequestsActiveOnly'
      <3>1. request'[r].at = "updated" /\ request'[r].id = id
          BY <2>1
      <3> QED
          BY <2>1, <2>2, <3>1, RequestMoves
    <2>4. ActiveOnly'
        BY <2>1, <2>2 DEF ActiveOnly
    <2> QED
        BY <2>1, <2>3, <2>4
  <1>5. CASE LoginSaves(r)
    <2>1. PICK id \in Ids :
            /\ TypeOK' /\ UNCHANGED <<accounts, sessions, onceActive>>
            /\ request[r].at = "updated" /\ id = request[r].id
            /\ \A other \in Ids : other # id => savedAccounts'[other] = savedAccounts[other]
            /\ request'[r] = [at |-> "authorized", id |-> id]
            /\ \A s \in Requests : s # r => request'[s] = request[s]
        BY <1>5, LoginSavesDoes
    <2>2. id \in onceActive
        BY <2>1 DEF RequestsActiveOnly
    <2>3. RequestsActiveOnly'
      <3>1. request'[r].at = "authorized" /\ request'[r].id = id
          BY <2>1
      <3> QED
          BY <2>1, <2>2, <3>1, RequestMoves
    <2>4. ActiveOnly'
        BY <2>1, <2>2 DEF ActiveOnly
    <2> QED
        BY <2>1, <2>3, <2>4
  <1>6. ASSUME NEW token \in Tokens, CreateAccountSession(r, token)
        PROVE  ApprovalInv'
    <2>1. PICK id \in Ids :
            /\ TypeOK' /\ UNCHANGED <<accounts, savedAccounts, onceActive>>
            /\ request[r].at = "authorized" /\ id = request[r].id
            /\ sessions'[token] = id
            /\ \A t \in Tokens : t # token => sessions'[t] = sessions[t]
            /\ request'[r] = [at |-> "issued", token |-> token, id |-> id]
            /\ \A s \in Requests : s # r => request'[s] = request[s]
        BY <1>6, CreateAccountSessionDoes
    <2>2. id \in onceActive
        BY <2>1 DEF RequestsActiveOnly
    <2>3. RequestsActiveOnly'
      <3>1. request'[r].at = "issued"
          BY <2>1
      <3> QED
          BY <2>1, <3>1, RequestMoves
    <2>4. ActiveOnly'
        BY <2>1, <2>2 DEF ActiveOnly
    <2> QED
        BY <2>1, <2>3, <2>4
  <1> QED
      BY <1>1, <1>2, <1>3, <1>4, <1>5, <1>6

LEMMA ApprovalAdminStep ==
  ASSUME ApprovalInv,
         \/ \E token \in Tokens : DropUnusable(token)
         \/ SetApprovalRequired
         \/ \E id \in Ids : \/ \E status \in Statuses : SetAccountStatus(id, status)
                            \/ \E password \in Passwords : SetAccountPassword(id, password)
         \/ \E id \in Ids : DeleteAccount(id)
         \/ SessionsDropped \/ SessionsDropFails
         \/ AccountDeleted
         \/ AccountDeleteFails
         \/ Restart
  PROVE  ApprovalInv'
  <1> USE DEF ApprovalInv
  <1>1. CASE \E token \in Tokens : DropUnusable(token)
    <2>1. /\ TypeOK' /\ UNCHANGED <<accounts, savedAccounts, request, onceActive>>
          /\ \A t \in Tokens : sessions'[t] \in {None, sessions[t]}
        BY <1>1, DropUnusableDoes
    <2> QED
        BY <2>1 DEF ActiveOnly, RequestsActiveOnly
  <1>2. CASE SetApprovalRequired \/ SessionsDropped \/ SessionsDropFails \/ AccountDeleteFails
    <2>1. TypeOK' /\ UNCHANGED <<accounts, savedAccounts, sessions, request, onceActive>>
        BY <1>2, SetApprovalRequiredDoes, SessionsDroppedDoes, AccountDeleteFailsDoes
    <2> QED
        BY <2>1 DEF ActiveOnly, RequestsActiveOnly
  <1>3. ASSUME NEW id \in Ids,
               \/ \E status \in Statuses : SetAccountStatus(id, status)
               \/ \E password \in Passwords : SetAccountPassword(id, password)
        PROVE  ApprovalInv'
    <2>1. PICK account \in Account :
            /\ TypeOK' /\ UNCHANGED request /\ onceActive \subseteq onceActive'
            /\ account.status = "active" => id \in onceActive'
            /\ accounts'[id] = account /\ savedAccounts'[id] = account
            /\ \A other \in Ids : other # id => /\ accounts'[other] = accounts[other]
                                                /\ savedAccounts'[other] = savedAccounts[other]
            /\ \A t \in Tokens : sessions'[t] \in {None, sessions[t]}
        BY <1>3, SetAccountDoes
    <2>2. RequestsActiveOnly'
        BY <2>1 DEF RequestsActiveOnly
    <2>3. ActiveOnly'
        BY <2>1 DEF ActiveOnly
    <2> QED
        BY <2>1, <2>2, <2>3
  <1>4. ASSUME NEW id \in Ids, DeleteAccount(id)
        PROVE  ApprovalInv'
    <2>1. /\ TypeOK' /\ UNCHANGED <<savedAccounts, request, onceActive>>
          /\ \A other \in Ids : accounts'[other] \in {None, accounts[other]}
          /\ \A t \in Tokens : sessions'[t] \in {None, sessions[t]}
        BY <1>4, DeleteAccountDoes
    <2> QED
        BY <2>1 DEF ActiveOnly, RequestsActiveOnly
  <1>5. CASE AccountDeleted
    <2>1. /\ TypeOK' /\ UNCHANGED <<accounts, sessions, request, onceActive>>
          /\ \A other \in Ids : savedAccounts'[other] \in {None, savedAccounts[other]}
        BY <1>5, AccountDeletedDoes
    <2> QED
        BY <2>1 DEF ActiveOnly, RequestsActiveOnly
  <1>6. CASE Restart
    <2>1. /\ TypeOK' /\ UNCHANGED <<savedAccounts, onceActive>> /\ accounts' = savedAccounts
          /\ \A t \in Tokens : sessions'[t] = IF Restorable(t) THEN savedSessions[t] ELSE None
          /\ \A r \in Requests : request'[r].at = "idle"
        BY <1>6, RestartDoes DEF Idle
    <2>2. \A t \in Tokens : savedSessions[t] \in Ids \cup {None}
        BY DEF TypeOK
    <2>3. ActiveOnly'
        BY <2>1, <2>2 DEF ActiveOnly, Restorable
    <2> QED
        BY <2>1, <2>3 DEF RequestsActiveOnly
  <1> QED
      BY <1>1, <1>2, <1>3, <1>4, <1>5, <1>6

LEMMA ApprovalInit == Init => ApprovalInv
  <1>1. Init => ActiveOnly /\ RequestsActiveOnly
      BY DEF Init, Nothing, ActiveOnly, RequestsActiveOnly, Idle
  <1> QED
      BY <1>1, InitTyped DEF ApprovalInv

LEMMA ApprovalStep ==
  ASSUME ApprovalInv, [Next]_vars
  PROVE  ApprovalInv'
  <1>1. CASE Next
      BY <1>1, NextCases, ApprovalRequestStep, ApprovalAccountStep, ApprovalAdminStep
  <1>2. CASE UNCHANGED vars
      BY <1>2 DEF vars, memory, saved, history, ApprovalInv, TypeOK, ActiveOnly, RequestsActiveOnly
  <1> QED
      BY <1>1, <1>2

\* Nobody holds a session of an account that was never approved: register gives
\* a pending account no session, login and the loader look at the status, and
\* what a request carries from one step to the next was active when it was read.
THEOREM NoSessionEverBeforeApproval == Spec => []NoSessionBeforeApproval
  <1>1. ApprovalInv => NoSessionBeforeApproval
      BY DEF ApprovalInv, ActiveOnly, NoSessionBeforeApproval
  <1> QED
      BY <1>1, ApprovalInit, ApprovalStep, PTL DEF Spec

-----------------------------------------------------------------------------
(* Calls that do not overlap.                                              *)

\* What SerialInv speaks of, but for the requests.
known == <<accounts, byUsername, sessions, savedAccounts, savedSessions, takenNames, admin, drawn,
           decided, revoked>>

Settled ==
    /\ \A id \in Ids : accounts[id] = savedAccounts[id]
    /\ \A t \in Tokens : sessions[t] = savedSessions[t]

\* Only r, if anybody, is under way.
Alone(r) == admin = Idle /\ \A s \in Requests : s # r => request[s] = Idle

LEMMA FreeIsAlone ==
  ASSUME Orderly, SerialInv, NEW r \in Requests, Free(r)
  PROVE  Alone(r) /\ request[r] = Idle /\ Settled
  <1>1. admin = Idle /\ \A s \in Requests : request[s] = Idle
      BY FreeMeansQuiet DEF Orderly, Free
  <1>2. \A s \in Requests : request[s].at = "idle"
      BY <1>1 DEF Idle
  <1>3. Settled
      BY <1>1, <1>2 DEF Settled, SerialInv, OnlyUnderWay, Idle
  <1> QED
      BY <1>1, <1>3 DEF Alone

LEMMA AdminFreeIsQuiet ==
  ASSUME Orderly, SerialInv, AdminFree
  PROVE  admin = Idle /\ (\A s \in Requests : request[s] = Idle) /\ Settled
  <1>1. admin = Idle /\ \A s \in Requests : request[s] = Idle
      BY FreeMeansQuiet DEF Orderly, AdminFree
  <1>2. \A s \in Requests : request[s].at = "idle"
      BY <1>1 DEF Idle
  <1> QED
      BY <1>1, <1>2 DEF Settled, SerialInv, OnlyUnderWay, Idle

LEMMA BusyIsAlone ==
  ASSUME SerialInv, NEW r \in Requests, request[r] # Idle
  PROVE  /\ Alone(r)
         /\ request[r].at \notin {"registered", "issued", "dropped"} => Settled
         /\ request[r].at = "registered" =>
               /\ \A id \in Ids : id # request[r].id => accounts[id] = savedAccounts[id]
               /\ \A t \in Tokens : sessions[t] = savedSessions[t]
         /\ request[r].at \in {"issued", "dropped"} =>
               /\ \A id \in Ids : accounts[id] = savedAccounts[id]
               /\ \A t \in Tokens : t # request[r].token => sessions[t] = savedSessions[t]
  <1>1. Alone(r)
      BY DEF SerialInv, OneAtATime, Alone
  <1>2. admin = Idle /\ admin.at = "idle" /\ \A s \in Requests : s # r => request[s].at = "idle"
      BY <1>1 DEF Alone, Idle
  <1> QED
      BY <1>1, <1>2 DEF SerialInv, OnlyUnderWay, Settled

\* After a step of r alone.
LEMMA AloneAfter ==
  ASSUME NEW r \in Requests, Alone(r)', Relies(r)'
  PROVE  OneAtATime' /\ RequestHolds' /\ AdminHolds'
  <1>1. OneAtATime'
      BY DEF Alone, OneAtATime
  <1>2. ASSUME NEW s \in Requests, s # r PROVE Relies(s)'
    <2>1. request'[s].at = "idle"
        BY <1>2 DEF Alone, Idle
    <2> QED
        BY <2>1 DEF Relies
  <1>3. RequestHolds'
      BY <1>2 DEF RequestHolds
  <1>4. AdminHolds'
      BY DEF Alone, AdminHolds
  <1> QED
      BY <1>1, <1>3, <1>4

LEMMA NamesUntouched ==
  ASSUME SerialInv, UNCHANGED <<accounts, byUsername, savedAccounts, takenNames, decided>>
  PROVE  NamesHold' /\ DecisionsHold'
  BY DEF SerialInv, NamesHold, DecisionsHold

LEMMA IdsUntouched ==
  ASSUME SerialInv, UNCHANGED <<accounts, savedAccounts, decided>>, drawn \subseteq drawn'
  PROVE  \A id \in Ids \ drawn' :
           /\ accounts'[id] = None /\ savedAccounts'[id] = None
           /\ decided'[id].password = None /\ decided'[id].status = None
  BY DEF SerialInv, Undrawn

\* A step of one request that leaves all SerialInv speaks of as it is.
LEMMA MerelyRequest ==
  ASSUME SerialInv, Settled, NEW r \in Requests, Alone(r),
         \A s \in Requests : s # r => request'[s] = request[s],
         UNCHANGED known, Relies(r)'
  PROVE  SerialInv'
  <1>1. UNCHANGED <<accounts, byUsername, sessions, savedAccounts, savedSessions, takenNames, admin,
                    drawn, decided, revoked>>
      BY DEF known
  <1>2. Alone(r)'
      BY <1>1 DEF Alone
  <1>3. NamesHold' /\ DecisionsHold'
      BY <1>1, NamesUntouched
  <1>4. Undrawn' /\ SessionsUsable' /\ RevokedHold'
      BY <1>1 DEF SerialInv, Undrawn, SessionsUsable, Usable, RevokedHold
  <1>5. OnlyUnderWay'
      BY <1>1 DEF Settled, OnlyUnderWay
  <1> QED
      BY <1>2, <1>3, <1>4, <1>5, AloneAfter DEF SerialInv

LEMMA SerialMerely ==
  ASSUME TypeOK, Orderly, SerialInv, NEW r \in Requests,
         \/ RegisterDecides(r)
         \/ RegisterRefused(r)
         \/ \E name \in Names, password \in Passwords : LoginVerifies(r, name, password)
         \/ \E token \in Tokens : TouchSession(r, token)
  PROVE  SerialInv'
  <1>1. CASE RegisterDecides(r)
    <2>1. /\ Free(r) /\ UNCHANGED beside /\ request'[r].at = "deciding"
          /\ \A s \in Requests : s # r => request'[s] = request[s]
        BY <1>1, RegisterDecidesDoes
    <2>2. UNCHANGED known /\ Relies(r)'
        BY <2>1 DEF beside, known, Relies
    <2> QED
        BY <2>1, <2>2, FreeIsAlone, MerelyRequest
  <1>2. CASE RegisterRefused(r)
    <2>1. /\ UNCHANGED beside /\ request[r].at = "deciding" /\ request'[r].at = "idle"
          /\ \A s \in Requests : s # r => request'[s] = request[s]
        BY <1>2, RegisterRefusedDoes DEF Idle
    <2>2. UNCHANGED known /\ Relies(r)'
        BY <2>1 DEF beside, known, Relies
    <2>3. Alone(r) /\ Settled
        BY <2>1, BusyIsAlone DEF Idle
    <2> QED
        BY <2>1, <2>2, <2>3, MerelyRequest
  <1>3. ASSUME NEW name \in Names, NEW password \in Passwords, LoginVerifies(r, name, password)
        PROVE  SerialInv'
    <2>1. /\ Free(r) /\ UNCHANGED beside
          /\ \A s \in Requests : s # r => request'[s] = request[s]
        BY <1>3, LoginVerifiesDoes
    <2>2. PICK id \in Ids : /\ accounts[id] # None /\ accounts[id].status = "active"
                            /\ request'[r] = [at |-> "verified", id |-> id, account |-> accounts[id]]
        BY <1>3, LoginVerifiesDoes
    <2>3. /\ request'[r].at = "verified" /\ request'[r].id = id /\ request'[r].account = accounts[id]
          /\ accounts' = accounts
        BY <2>1, <2>2 DEF beside
    <2>4. UNCHANGED known
        BY <2>1 DEF beside, known
    <2>5. Relies(r)'
        BY <2>2, <2>3 DEF Relies
    <2> QED
        BY <2>1, <2>4, <2>5, FreeIsAlone, MerelyRequest
  <1>4. ASSUME NEW token \in Tokens, TouchSession(r, token)
        PROVE  SerialInv'
    <2>1. /\ Free(r) /\ UNCHANGED beside
          /\ \A s \in Requests : s # r => request'[s] = request[s]
        BY <1>4, TouchSessionDoes
    <2>2. request'[r] = [at |-> "touched", token |-> token, id |-> sessions[token]]
        BY <1>4, TouchSessionDoes
    <2>3. /\ request'[r].at = "touched" /\ request'[r].id = sessions[token]
          /\ request'[r].token = token /\ sessions' = sessions
        BY <2>1, <2>2 DEF beside
    <2>4. UNCHANGED known
        BY <2>1 DEF beside, known
    <2>5. Relies(r)'
        BY <2>3 DEF Relies
    <2> QED
        BY <2>1, <2>4, <2>5, FreeIsAlone, MerelyRequest
  <1> QED
      BY <1>1, <1>2, <1>3, <1>4

\* A login writes back the account as it is: nobody changed it in between.
LEMMA SerialLogin ==
  ASSUME TypeOK, Orderly, SerialInv, NEW r \in Requests, LoginUpdates(r) \/ LoginSaves(r)
  PROVE  SerialInv'
  <1>1. CASE LoginUpdates(r)
    <2>1. /\ TypeOK' /\ request[r].at = "verified"
          /\ UNCHANGED <<byUsername, sessions, savedAccounts, savedSessions, takenNames, admin, drawn,
                         decided, revoked>>
          /\ \A s \in Requests : s # r => request'[s] = request[s]
        BY <1>1, LoginUpdatesDoes
    <2>2. PICK id \in Ids, account \in Account :
            /\ id = request[r].id /\ account = request[r].account
            /\ accounts'[id] = IF accounts[id] = None THEN None ELSE account
            /\ \A other \in Ids : other # id => accounts'[other] = accounts[other]
            /\ request'[r] = [at |-> "updated", id |-> id, account |-> account]
        BY <1>1, LoginUpdatesDoes
    <2>3. accounts[id] = account /\ accounts[id] # None /\ accounts[id].status = "active"
        BY <2>1, <2>2 DEF SerialInv, RequestHolds, Relies
    <2>4. accounts' = accounts
      <3>1. \A other \in Ids : accounts'[other] = accounts[other]
          BY <2>2, <2>3
      <3> QED
          BY <2>1, <3>1 DEF TypeOK
    <2>5. UNCHANGED known
        BY <2>1, <2>4 DEF known
    <2>6. Relies(r)'
      <3>1. request'[r].at = "updated" /\ request'[r].id = id /\ request'[r].account = account
          BY <2>2
      <3> QED
          BY <2>3, <2>4, <3>1 DEF Relies
    <2>7. Alone(r) /\ Settled
        BY <2>1, BusyIsAlone DEF Idle
    <2> QED
        BY <2>1, <2>5, <2>6, <2>7, MerelyRequest
  <1>2. CASE LoginSaves(r)
    <2>1. /\ TypeOK' /\ request[r].at = "updated"
          /\ UNCHANGED <<accounts, byUsername, sessions, savedSessions, admin, drawn, decided, revoked>>
          /\ \A s \in Requests : s # r => request'[s] = request[s]
        BY <1>2, LoginSavesDoes
    <2>2. PICK id \in Ids, account \in Account :
            /\ id = request[r].id /\ account = request[r].account
            /\ \/ savedAccounts'[id] = account /\ takenNames'[id] = account.name
               \/ savedAccounts'[id] = savedAccounts[id] /\ takenNames'[id] = takenNames[id]
            /\ \A other \in Ids : other # id => /\ savedAccounts'[other] = savedAccounts[other]
                                                /\ takenNames'[other] = takenNames[other]
            /\ request'[r] = [at |-> "authorized", id |-> id]
        BY <1>2, LoginSavesDoes
    <2>3. accounts[id] = account /\ accounts[id] # None /\ accounts[id].status = "active"
        BY <2>1, <2>2 DEF SerialInv, RequestHolds, Relies
    <2>4. Alone(r) /\ Settled
        BY <2>1, BusyIsAlone DEF Idle
    <2>5. savedAccounts[id] = account /\ takenNames[id] = account.name
        BY <2>3, <2>4 DEF Settled, SerialInv, NamesHold
    <2>6. savedAccounts' = savedAccounts /\ takenNames' = takenNames
      <3>1. \A other \in Ids : savedAccounts'[other] = savedAccounts[other]
                               /\ takenNames'[other] = takenNames[other]
          BY <2>2, <2>5
      <3> QED
          BY <2>1, <3>1 DEF TypeOK
    <2>7. UNCHANGED known
        BY <2>1, <2>6 DEF known
    <2>8. Relies(r)'
      <3>1. request'[r].at = "authorized" /\ request'[r].id = id
          BY <2>2
      <3> QED
          BY <2>1, <2>3, <3>1 DEF Relies
    <2> QED
        BY <2>1, <2>4, <2>7, <2>8, MerelyRequest
  <1> QED
      BY <1>1, <1>2

\* Nobody but the new account can have its id, and nobody its name.
LEMMA SerialRegister ==
  ASSUME TypeOK, Orderly, SerialInv, NEW r \in Requests,
         NEW id \in Ids, NEW name \in Names, NEW password \in Passwords,
         Register(r, id, name, password)
  PROVE  SerialInv'
  <1>1. /\ request[r].at = "deciding" /\ id \notin drawn /\ byUsername[name] = None
        /\ UNCHANGED <<sessions, savedAccounts, savedSessions, takenNames, admin, decided, revoked>>
        /\ \A other \in Ids : other # id => accounts'[other] = accounts[other]
        /\ byUsername'[name] = id
        /\ \A other \in Names : other # name => byUsername'[other] = byUsername[other]
        /\ drawn' = drawn \cup {id}
        /\ \A s \in Requests : s # r => request'[s] = request[s]
      BY RegisterDoes
  <1>2. PICK account \in Account :
          /\ account.name = name /\ account.status \in {"pending", "active"}
          /\ accounts'[id] = account
          /\ request'[r] = [at |-> "registered", id |-> id, account |-> account]
          /\ account.status = "active" => id \in onceActive'
      BY RegisterDoes, Zenon
  <1>3. request'[r].at = "registered" /\ request'[r].id = id /\ request'[r].account = account
      BY <1>2
  <1>4. Alone(r) /\ Settled
      BY <1>1, BusyIsAlone DEF Idle
  <1>5. account # None /\ id # None
      BY NoMark
  <1>6. /\ accounts[id] = None /\ savedAccounts[id] = None
        /\ decided[id].password = None /\ decided[id].status = None
      BY <1>1 DEF SerialInv, Undrawn
  <1>7. \A t \in Tokens : sessions[t] # id
      BY <1>5, <1>6 DEF SerialInv, SessionsUsable, Usable
  <1>8. /\ \A other \in Ids : accounts[other] # None => accounts[other].name # name
        /\ \A n \in Names : byUsername[n] # id
    <2>1. ASSUME NEW other \in Ids, accounts[other] # None PROVE accounts[other].name # name
      <3>1. byUsername[accounts[other].name] = other /\ other # None
          BY <2>1, NoMark DEF SerialInv, NamesHold
      <3> QED
          BY <1>1, <3>1
    <2>2. ASSUME NEW n \in Names, byUsername[n] = id PROVE FALSE
        BY <1>5, <1>6, <2>2 DEF SerialInv, NamesHold
    <2> QED
        BY <2>1, <2>2
  <1>9. OneAtATime' /\ RequestHolds' /\ AdminHolds'
    <2>1. Alone(r)'
        BY <1>1, <1>4 DEF Alone
    <2>2. Relies(r)'
        BY <1>1, <1>2, <1>3, <1>6, <1>7 DEF Relies
    <2> QED
        BY <2>1, <2>2, AloneAfter
  <1>10. Undrawn'
      BY <1>1 DEF SerialInv, Undrawn
  <1>11. NamesHold'
    <2>1. \A other \in Ids : accounts'[other] # None => byUsername'[accounts'[other].name] = other
      <3> SUFFICES ASSUME NEW other \in Ids, accounts'[other] # None
                   PROVE  byUsername'[accounts'[other].name] = other
          OBVIOUS
      <3>1. CASE other = id
          BY <1>1, <1>2, <3>1
      <3>2. CASE other # id
        <4>1. accounts[other].name # name /\ accounts[other].name \in Names
              /\ byUsername[accounts[other].name] = other
            BY <1>1, <1>8, <3>2 DEF SerialInv, NamesHold, TypeOK, Account
        <4> QED
            BY <1>1, <3>2, <4>1
      <3> QED
          BY <3>1, <3>2
    <2>2. \A n \in Names : byUsername'[n] # None =>
            accounts'[byUsername'[n]] # None /\ accounts'[byUsername'[n]].name = n
      <3> SUFFICES ASSUME NEW n \in Names, byUsername'[n] # None
                   PROVE  accounts'[byUsername'[n]] # None /\ accounts'[byUsername'[n]].name = n
          OBVIOUS
      <3>1. CASE n = name
          BY <1>1, <1>2, <1>5, <3>1
      <3>2. CASE n # name
        <4>1. byUsername[n] # None /\ byUsername[n] # id /\ byUsername[n] \in Ids
            BY <1>1, <1>8, <3>2 DEF TypeOK
        <4> QED
            BY <1>1, <3>2, <4>1 DEF SerialInv, NamesHold
      <3> QED
          BY <3>1, <3>2
    <2> QED
        BY <1>1, <2>1, <2>2 DEF SerialInv, NamesHold
  <1>12. OnlyUnderWay'
      BY <1>1, <1>3, <1>4 DEF Settled, OnlyUnderWay
  <1>13. SessionsUsable'
      BY <1>1, <1>7 DEF SerialInv, SessionsUsable, Usable, TypeOK
  <1>14. DecisionsHold'
      BY <1>1, <1>6 DEF SerialInv, DecisionsHold
  <1>15. RevokedHold'
      BY <1>1 DEF SerialInv, RevokedHold
  <1> QED
      BY <1>9, <1>10, <1>11, <1>12, <1>13, <1>14, <1>15 DEF SerialInv

LEMMA SerialRegisterSaves ==
  ASSUME TypeOK, Orderly, SerialInv, RequestsActiveOnly, NEW r \in Requests, RegisterSaves(r)
  PROVE  SerialInv'
  <1>1. /\ UNCHANGED <<accounts, byUsername, sessions, savedSessions, admin, drawn, decided, revoked>>
        /\ request[r].at = "registered"
        /\ \A s \in Requests : s # r => request'[s] = request[s]
      BY RegisterSavesDoes
  <1>2. PICK id \in Ids, account \in Account :
          /\ id = request[r].id /\ account = request[r].account
          /\ NameFree(id, account.name)
          /\ savedAccounts'[id] = account
          /\ takenNames'[id] = account.name
          /\ \A other \in Ids : other # id => /\ savedAccounts'[other] = savedAccounts[other]
                                              /\ takenNames'[other] = takenNames[other]
          /\ IF account.status = "pending" THEN request'[r] = Idle
             ELSE request'[r] = [at |-> "authorized", id |-> id]
      BY RegisterSavesDoes
  <1>3. /\ Alone(r)
        /\ \A other \in Ids : other # id => accounts[other] = savedAccounts[other]
        /\ \A t \in Tokens : sessions[t] = savedSessions[t]
      BY <1>1, <1>2, BusyIsAlone DEF Idle
  <1>4. accounts[id] = account /\ account # None /\ account.name \in Names
      BY <1>1, <1>2, NoMark DEF SerialInv, RequestHolds, Relies, Account
  <1>5. id \in drawn
      BY <1>4 DEF SerialInv, Undrawn
  <1>6. Settled'
      BY <1>1, <1>2, <1>3, <1>4 DEF Settled
  <1>7. OneAtATime' /\ RequestHolds' /\ AdminHolds'
    <2>1. Alone(r)'
        BY <1>1, <1>3 DEF Alone
    <2>2. Relies(r)'
      <3>1. CASE account.status = "pending"
        <4>1. request'[r].at = "idle"
            BY <1>2, <3>1 DEF Idle
        <4> QED
            BY <4>1 DEF Relies
      <3>2. CASE account.status # "pending"
        <4>1. request'[r].at = "authorized" /\ request'[r].id = id
            BY <1>2, <3>2
        <4>2. account.status = "active"
            BY <1>1, <1>2, <3>2 DEF RequestsActiveOnly
        <4> QED
            BY <1>1, <1>4, <4>1, <4>2 DEF Relies
      <3> QED
          BY <3>1, <3>2
    <2> QED
        BY <2>1, <2>2, AloneAfter
  <1>8. Undrawn'
      BY <1>1, <1>2, <1>5 DEF SerialInv, Undrawn
  <1>9. NamesHold'
    <2>1. \A other \in Ids :
            takenNames'[other] = IF savedAccounts'[other] = None THEN None ELSE savedAccounts'[other].name
        BY <1>2, <1>4 DEF SerialInv, NamesHold
    <2>2. \A a, b \in Ids : a # b /\ takenNames'[a] # None => takenNames'[a] # takenNames'[b]
        BY <1>2 DEF SerialInv, NamesHold, NameFree
    <2> QED
        BY <1>1, <2>1, <2>2 DEF SerialInv, NamesHold
  <1>10. OnlyUnderWay'
      BY <1>6 DEF Settled, OnlyUnderWay
  <1>11. SessionsUsable' /\ RevokedHold'
      BY <1>1 DEF SerialInv, SessionsUsable, Usable, RevokedHold
  <1>12. DecisionsHold'
      BY <1>1, <1>2, <1>4 DEF SerialInv, DecisionsHold
  <1> QED
      BY <1>7, <1>8, <1>9, <1>10, <1>11, <1>12 DEF SerialInv

LEMMA SerialRegisterSaveFails ==
  ASSUME TypeOK, Orderly, SerialInv, NEW r \in Requests, RegisterSaveFails(r)
  PROVE  SerialInv'
  <1>1. /\ UNCHANGED <<sessions, savedAccounts, savedSessions, takenNames, admin, drawn, decided, revoked>>
        /\ request[r].at = "registered" /\ request'[r] = Idle
        /\ \A s \in Requests : s # r => request'[s] = request[s]
      BY RegisterSaveFailsDoes
  <1>2. PICK id \in Ids, account \in Account :
          /\ id = request[r].id /\ account = request[r].account
          /\ accounts'[id] = None
          /\ \A other \in Ids : other # id => accounts'[other] = accounts[other]
          /\ byUsername'[account.name] = None
          /\ \A n \in Names : n # account.name => byUsername'[n] = byUsername[n]
      BY RegisterSaveFailsDoes
  <1>3. /\ Alone(r)
        /\ \A other \in Ids : other # id => accounts[other] = savedAccounts[other]
        /\ \A t \in Tokens : sessions[t] = savedSessions[t]
      BY <1>1, <1>2, BusyIsAlone DEF Idle
  <1>4. /\ accounts[id] = account /\ account # None /\ account.name \in Names
        /\ savedAccounts[id] = None /\ \A t \in Tokens : sessions[t] # id
      BY <1>1, <1>2, NoMark DEF SerialInv, RequestHolds, Relies, Account
  <1>5. Settled'
      BY <1>1, <1>2, <1>3, <1>4 DEF Settled
  <1>6. OneAtATime' /\ RequestHolds' /\ AdminHolds'
    <2>1. Alone(r)'
        BY <1>1, <1>3 DEF Alone
    <2>2. Relies(r)'
        BY <1>1 DEF Relies, Idle
    <2> QED
        BY <2>1, <2>2, AloneAfter
  <1>7. Undrawn'
      BY <1>1, <1>2 DEF SerialInv, Undrawn
  <1>8. NamesHold'
    <2>1. \A other \in Ids : accounts'[other] # None => byUsername'[accounts'[other].name] = other
      <3> SUFFICES ASSUME NEW other \in Ids, accounts'[other] # None
                   PROVE  byUsername'[accounts'[other].name] = other
          OBVIOUS
      <3>1. other # id /\ accounts'[other] = accounts[other] /\ accounts[other].name \in Names
          BY <1>2 DEF TypeOK, Account
      <3>2. byUsername[accounts[other].name] = other /\ byUsername[account.name] = id
          BY <1>4, <3>1 DEF SerialInv, NamesHold
      <3> QED
          BY <1>2, <3>1, <3>2
    <2>2. \A n \in Names : byUsername'[n] # None =>
            accounts'[byUsername'[n]] # None /\ accounts'[byUsername'[n]].name = n
      <3> SUFFICES ASSUME NEW n \in Names, byUsername'[n] # None
                   PROVE  accounts'[byUsername'[n]] # None /\ accounts'[byUsername'[n]].name = n
          OBVIOUS
      <3>1. n # account.name /\ byUsername'[n] = byUsername[n] /\ byUsername[n] \in Ids
          BY <1>2 DEF TypeOK
      <3>2. accounts[byUsername[n]] # None /\ accounts[byUsername[n]].name = n
          BY <3>1 DEF SerialInv, NamesHold
      <3> QED
          BY <1>2, <1>4, <3>1, <3>2
    <2> QED
        BY <1>1, <2>1, <2>2 DEF SerialInv, NamesHold
  <1>9. OnlyUnderWay'
      BY <1>5 DEF Settled, OnlyUnderWay
  <1>10. SessionsUsable'
      BY <1>1, <1>2, <1>4 DEF SerialInv, SessionsUsable, Usable, TypeOK
  <1>11. DecisionsHold' /\ RevokedHold'
      BY <1>1, <1>2 DEF SerialInv, DecisionsHold, RevokedHold
  <1> QED
      BY <1>6, <1>7, <1>8, <1>9, <1>10, <1>11 DEF SerialInv

-----------------------------------------------------------------------------
\* Calls on sessions.

LEMMA SerialCreateSession ==
  ASSUME TypeOK, Orderly, SerialInv, NEW r \in Requests, NEW token \in Tokens,
         CreateAccountSession(r, token)
  PROVE  SerialInv'
  <1>1. /\ UNCHANGED <<accounts, byUsername, savedAccounts, savedSessions, takenNames, admin, decided,
                       revoked>>
        /\ request[r].at = "authorized" /\ token \notin drawn /\ drawn' = drawn \cup {token}
        /\ \A s \in Requests : s # r => request'[s] = request[s]
      BY CreateAccountSessionDoes
  <1>2. PICK id \in Ids :
          /\ id = request[r].id
          /\ sessions'[token] = id
          /\ \A t \in Tokens : t # token => sessions'[t] = sessions[t]
          /\ request'[r] = [at |-> "issued", token |-> token, id |-> id]
      BY CreateAccountSessionDoes
  <1>3. Alone(r) /\ Settled
      BY <1>1, BusyIsAlone DEF Idle
  <1>4. /\ accounts[id] # None /\ accounts[id].status = "active"
      BY <1>1, <1>2 DEF SerialInv, RequestHolds, Relies
  <1>5. sessions[token] = None /\ savedSessions[token] = None /\ token \notin revoked
      BY <1>1 DEF SerialInv, Undrawn
  <1>6. request'[r].at = "issued" /\ request'[r].token = token /\ request'[r].id = id
      BY <1>2
  <1>7. OneAtATime' /\ RequestHolds' /\ AdminHolds'
    <2>1. Alone(r)'
        BY <1>1, <1>3 DEF Alone
    <2>2. Relies(r)'
        BY <1>1, <1>2, <1>5, <1>6 DEF Relies
    <2> QED
        BY <2>1, <2>2, AloneAfter
  <1>8. Undrawn'
      BY <1>1, <1>2 DEF SerialInv, Undrawn
  <1>9. NamesHold' /\ DecisionsHold'
      BY <1>1, NamesUntouched
  <1>10. OnlyUnderWay'
      BY <1>1, <1>2, <1>3, <1>6 DEF Settled, OnlyUnderWay
  <1>11. SessionsUsable'
    <2> SUFFICES ASSUME NEW t \in Tokens, sessions'[t] # None PROVE Usable(t)'
        BY DEF SessionsUsable
    <2>1. CASE t = token
        BY <1>1, <1>2, <1>4, <2>1, NoMark DEF Usable
    <2>2. CASE t # token
        BY <1>1, <1>2, <2>2 DEF SerialInv, SessionsUsable, Usable
    <2> QED
        BY <2>1, <2>2
  <1>12. RevokedHold'
      BY <1>1, <1>2, <1>5 DEF SerialInv, RevokedHold, TypeOK
  <1> QED
      BY <1>7, <1>8, <1>9, <1>10, <1>11, <1>12 DEF SerialInv

LEMMA SerialSessionSaves ==
  ASSUME TypeOK, Orderly, SerialInv, NEW r \in Requests, SessionSaves(r)
  PROVE  SerialInv'
  <1>1. /\ UNCHANGED <<accounts, byUsername, sessions, savedAccounts, takenNames, admin, drawn, decided,
                       revoked>>
        /\ request[r].at \in {"issued", "touched"} /\ request'[r] = Idle
        /\ \A s \in Requests : s # r => request'[s] = request[s]
      BY SessionSavesDoes
  <1>2. PICK token \in Tokens, id \in Ids :
          /\ token = request[r].token /\ id = request[r].id
          /\ savedSessions'[token] = id
          /\ \A t \in Tokens : t # token => savedSessions'[t] = savedSessions[t]
      BY SessionSavesDoes
  <1>3. /\ Alone(r)
        /\ \A other \in Ids : accounts[other] = savedAccounts[other]
        /\ \A t \in Tokens : t # token => sessions[t] = savedSessions[t]
      BY <1>1, <1>2, BusyIsAlone DEF Idle, Settled
  <1>4. sessions[token] = id /\ id # None
      BY <1>1, <1>2, NoMark DEF SerialInv, RequestHolds, Relies
  <1>5. token \in drawn /\ token \notin revoked
      BY <1>4 DEF SerialInv, Undrawn, RevokedHold
  <1>6. Settled'
      BY <1>1, <1>2, <1>3, <1>4 DEF Settled
  <1>7. OneAtATime' /\ RequestHolds' /\ AdminHolds'
    <2>1. Alone(r)'
        BY <1>1, <1>3 DEF Alone
    <2>2. Relies(r)'
        BY <1>1 DEF Relies, Idle
    <2> QED
        BY <2>1, <2>2, AloneAfter
  <1>8. Undrawn'
      BY <1>1, <1>2, <1>5 DEF SerialInv, Undrawn
  <1>9. NamesHold' /\ DecisionsHold'
      BY <1>1, NamesUntouched
  <1>10. OnlyUnderWay'
      BY <1>6 DEF Settled, OnlyUnderWay
  <1>11. SessionsUsable'
      BY <1>1 DEF SerialInv, SessionsUsable, Usable
  <1>12. RevokedHold'
      BY <1>1, <1>2, <1>5 DEF SerialInv, RevokedHold, TypeOK
  <1> QED
      BY <1>7, <1>8, <1>9, <1>10, <1>11, <1>12 DEF SerialInv

LEMMA SerialSessionSaveFails ==
  ASSUME TypeOK, Orderly, SerialInv, NEW r \in Requests, SessionSaveFails(r)
  PROVE  SerialInv'
  <1>1. /\ UNCHANGED <<accounts, byUsername, savedAccounts, savedSessions, takenNames, admin, drawn,
                       decided, revoked>>
        /\ request[r].at \in {"issued", "touched"} /\ request'[r] = Idle
        /\ \A s \in Requests : s # r => request'[s] = request[s]
      BY SessionSaveFailsDoes
  <1>2. PICK token \in Tokens :
          /\ token = request[r].token
          /\ sessions'[token] = IF request[r].at = "issued" THEN None ELSE sessions[token]
          /\ \A t \in Tokens : t # token => sessions'[t] = sessions[t]
      BY SessionSaveFailsDoes
  <1>3. /\ Alone(r)
        /\ \A other \in Ids : accounts[other] = savedAccounts[other]
        /\ \A t \in Tokens : t # token => sessions[t] = savedSessions[t]
        /\ request[r].at = "touched" => Settled
      BY <1>1, <1>2, BusyIsAlone DEF Idle, Settled
  <1>4. request[r].at = "issued" => savedSessions[token] = None
      BY <1>2 DEF SerialInv, RequestHolds, Relies
  <1>5. Settled'
      BY <1>1, <1>2, <1>3, <1>4 DEF Settled
  <1>6. OneAtATime' /\ RequestHolds' /\ AdminHolds'
    <2>1. Alone(r)'
        BY <1>1, <1>3 DEF Alone
    <2>2. Relies(r)'
        BY <1>1 DEF Relies, Idle
    <2> QED
        BY <2>1, <2>2, AloneAfter
  <1>7. \A t \in Tokens : sessions'[t] \in {None, sessions[t]}
      BY <1>2
  <1>8. Undrawn'
      BY <1>1, <1>7 DEF SerialInv, Undrawn
  <1>9. NamesHold' /\ DecisionsHold'
      BY <1>1, NamesUntouched
  <1>10. OnlyUnderWay'
      BY <1>5 DEF Settled, OnlyUnderWay
  <1>11. SessionsUsable'
      BY <1>1, <1>7 DEF SerialInv, SessionsUsable, Usable
  <1>12. RevokedHold'
      BY <1>1, <1>7 DEF SerialInv, RevokedHold, TypeOK
  <1> QED
      BY <1>6, <1>8, <1>9, <1>10, <1>11, <1>12 DEF SerialInv

LEMMA SerialEndSession ==
  ASSUME TypeOK, Orderly, SerialInv, NEW r \in Requests, NEW token \in Tokens, EndSession(r, token)
  PROVE  SerialInv'
  <1>1. /\ Free(r) /\ token \in drawn
        /\ UNCHANGED <<accounts, byUsername, savedAccounts, savedSessions, takenNames, admin, drawn,
                       decided, revoked>>
        /\ sessions'[token] = None
        /\ \A t \in Tokens : t # token => sessions'[t] = sessions[t]
        /\ \A s \in Requests : s # r => request'[s] = request[s]
      BY EndSessionDoes
  <1>2. request'[r] = [at |-> "dropped", token |-> token]
      BY EndSessionDoes
  <1>3. request'[r].at = "dropped" /\ request'[r].token = token
      BY <1>2
  <1>4. Alone(r) /\ Settled
      BY <1>1, FreeIsAlone
  <1>5. OneAtATime' /\ RequestHolds' /\ AdminHolds'
    <2>1. Alone(r)'
        BY <1>1, <1>4 DEF Alone
    <2>2. Relies(r)'
        BY <1>1, <1>3 DEF Relies
    <2> QED
        BY <2>1, <2>2, AloneAfter
  <1>6. \A t \in Tokens : sessions'[t] \in {None, sessions[t]}
      BY <1>1
  <1>7. Undrawn'
      BY <1>1, <1>6 DEF SerialInv, Undrawn
  <1>8. NamesHold' /\ DecisionsHold'
      BY <1>1, NamesUntouched
  <1>9. OnlyUnderWay'
      BY <1>1, <1>3, <1>4 DEF Settled, OnlyUnderWay
  <1>10. SessionsUsable'
      BY <1>1, <1>6 DEF SerialInv, SessionsUsable, Usable
  <1>11. RevokedHold'
      BY <1>1, <1>6 DEF SerialInv, RevokedHold, TypeOK
  <1> QED
      BY <1>5, <1>7, <1>8, <1>9, <1>10, <1>11 DEF SerialInv

LEMMA SerialSessionDeleted ==
  ASSUME TypeOK, Orderly, SerialInv, NEW r \in Requests, SessionDeleted(r) \/ SessionDeleteFails(r)
  PROVE  SerialInv'
  <1>1. /\ UNCHANGED <<accounts, byUsername, sessions, savedAccounts, takenNames, admin, drawn, decided>>
        /\ request[r].at = "dropped" /\ request'[r] = Idle
        /\ \A s \in Requests : s # r => request'[s] = request[s]
      BY SessionDeletedDoes
  <1>2. PICK token \in Tokens :
          /\ token = request[r].token
          /\ revoked' = revoked \cup {token}
          /\ savedSessions'[token] = None \/ "delete" \in mode.failing
          /\ \A t \in Tokens : t # token => savedSessions'[t] = savedSessions[t]
      BY SessionDeletedDoes
  <1>3. /\ Alone(r)
        /\ \A other \in Ids : accounts[other] = savedAccounts[other]
        /\ \A t \in Tokens : t # token => sessions[t] = savedSessions[t]
      BY <1>1, <1>2, BusyIsAlone DEF Idle
  <1>4. sessions[token] = None /\ savedSessions'[token] = None
      BY <1>1, <1>2 DEF SerialInv, RequestHolds, Relies, Orderly
  <1>5. Settled'
      BY <1>1, <1>2, <1>3, <1>4 DEF Settled
  <1>6. OneAtATime' /\ RequestHolds' /\ AdminHolds'
    <2>1. Alone(r)'
        BY <1>1, <1>3 DEF Alone
    <2>2. Relies(r)'
        BY <1>1 DEF Relies, Idle
    <2> QED
        BY <2>1, <2>2, AloneAfter
  <1>8. Undrawn'
    <2>1. token \in drawn
        BY <1>1, <1>2 DEF SerialInv, RequestHolds, Relies
    <2> QED
        BY <1>1, <1>2, <2>1 DEF SerialInv, Undrawn
  <1>9. NamesHold' /\ DecisionsHold'
      BY <1>1, NamesUntouched
  <1>10. OnlyUnderWay'
      BY <1>5 DEF Settled, OnlyUnderWay
  <1>11. SessionsUsable'
      BY <1>1 DEF SerialInv, SessionsUsable, Usable
  <1>12. RevokedHold'
      BY <1>1, <1>2, <1>4 DEF SerialInv, RevokedHold, TypeOK
  <1> QED
      BY <1>6, <1>8, <1>9, <1>10, <1>11, <1>12 DEF SerialInv

-----------------------------------------------------------------------------
\* The administrator's calls, and a restart.

LEMMA SerialSetAccount ==
  ASSUME TypeOK, Orderly, SerialInv, NEW id \in Ids,
         \/ \E status \in Statuses : SetAccountStatus(id, status)
         \/ \E password \in Passwords : SetAccountPassword(id, password)
  PROVE  SerialInv'
  <1>1. /\ AdminFree /\ accounts[id] # None
        /\ UNCHANGED <<mode, byUsername, savedSessions, request, drawn, revoked>>
        /\ \A other \in Ids : other # id => /\ accounts'[other] = accounts[other]
                                            /\ savedAccounts'[other] = savedAccounts[other]
                                            /\ takenNames'[other] = takenNames[other]
                                            /\ decided'[other] = decided[other]
      BY SetAccountDoes
  <1>2. PICK account \in Account :
          /\ account.name = accounts[id].name /\ NameFree(id, account.name)
          /\ account.status = "active" => id \in onceActive'
          /\ accounts'[id] = account /\ savedAccounts'[id] = account
          /\ takenNames'[id] = account.name
          /\ \/ /\ decided'[id].status = account.status
                /\ decided'[id].password = decided[id].password
                /\ account.password = accounts[id].password
             \/ /\ decided'[id].password = account.password
                /\ decided'[id].status = decided[id].status
                /\ account.status = accounts[id].status
          /\ \/ /\ account.status = "active" /\ UNCHANGED <<sessions, admin>>
             \/ /\ admin' = [at |-> "dropSessions", id |-> id, gone |-> SessionsOf(id)]
                /\ \A t \in Tokens : sessions'[t] = IF sessions[t] = id THEN None ELSE sessions[t]
      BY SetAccountDoes, Zenon
  <1>3. admin = Idle /\ (\A s \in Requests : request[s] = Idle) /\ Settled
      BY <1>1, AdminFreeIsQuiet
  <1>4. account # None /\ id # None
      BY NoMark
  <1>5. id \in drawn
      BY <1>1 DEF SerialInv, Undrawn
  <1>6. \A s \in Requests : request'[s] = Idle
      BY <1>1, <1>3
  <1>7. \A t \in Tokens : sessions'[t] \in {None, sessions[t]}
      BY <1>2
  <1>8. OneAtATime' /\ RequestHolds'
      BY <1>6 DEF OneAtATime, RequestHolds, Relies, Idle
  <1>9. AdminHolds'
    <2>1. CASE UNCHANGED <<sessions, admin>>
        BY <1>3, <2>1 DEF AdminHolds
    <2>2. CASE /\ admin' = [at |-> "dropSessions", id |-> id, gone |-> SessionsOf(id)]
               /\ \A t \in Tokens : sessions'[t] = IF sessions[t] = id THEN None ELSE sessions[t]
      <3>1. admin'.at = "dropSessions" /\ admin'.id = id /\ admin'.gone = SessionsOf(id)
          BY <2>2
      <3>2. SessionsOf(id) = {t \in Tokens : savedSessions'[t] = id}
          BY <1>1, <1>3 DEF SessionsOf, Settled
      <3> QED
          BY <1>4, <2>2, <3>1, <3>2 DEF AdminHolds, SessionsOf
    <2> QED
        BY <1>2, <2>1, <2>2
  <1>10. Undrawn'
      BY <1>1, <1>5, <1>7 DEF SerialInv, Undrawn
  <1>11. NamesHold'
    <2>1. \A other \in Ids : accounts'[other] # None => byUsername'[accounts'[other].name] = other
        BY <1>1, <1>2 DEF SerialInv, NamesHold
    <2>2. \A n \in Names : byUsername'[n] # None =>
            accounts'[byUsername'[n]] # None /\ accounts'[byUsername'[n]].name = n
        BY <1>1, <1>2, <1>4 DEF SerialInv, NamesHold, TypeOK
    <2>3. \A other \in Ids :
            takenNames'[other] = IF savedAccounts'[other] = None THEN None ELSE savedAccounts'[other].name
        BY <1>1, <1>2, <1>4 DEF SerialInv, NamesHold
    <2>4. \A a, b \in Ids : a # b /\ takenNames'[a] # None => takenNames'[a] # takenNames'[b]
        BY <1>1, <1>2 DEF SerialInv, NamesHold, NameFree
    <2> QED
        BY <2>1, <2>2, <2>3, <2>4 DEF NamesHold
  <1>12. OnlyUnderWay'
    <2>1. \A other \in Ids : accounts'[other] = savedAccounts'[other]
        BY <1>1, <1>2, <1>3 DEF Settled
    <2>2. \A t \in Tokens : sessions'[t] # savedSessions'[t] =>
            admin' # Idle /\ savedSessions'[t] = admin'.id
      <3> SUFFICES ASSUME NEW t \in Tokens, sessions'[t] # savedSessions'[t]
                   PROVE  admin' # Idle /\ savedSessions'[t] = admin'.id
          OBVIOUS
      <3>1. savedSessions'[t] = sessions[t]
          BY <1>1, <1>3 DEF Settled
      <3>2. /\ admin' = [at |-> "dropSessions", id |-> id, gone |-> SessionsOf(id)]
            /\ sessions[t] = id
          BY <1>2, <3>1
      <3>3. admin'.at = "dropSessions" /\ admin'.id = id
          BY <3>2
      <3> QED
          BY <3>1, <3>2, <3>3 DEF Idle
    <2> QED
        BY <2>1, <2>2 DEF OnlyUnderWay
  <1>13. SessionsUsable'
    <2> SUFFICES ASSUME NEW t \in Tokens, sessions'[t] # None PROVE Usable(t)'
        BY DEF SessionsUsable
    <2>1. sessions'[t] = sessions[t] /\ sessions[t] \in Ids /\ Usable(t)
        BY <1>7 DEF SerialInv, SessionsUsable, TypeOK
    <2>2. CASE sessions[t] = id
        BY <1>2, <1>4, <2>1, <2>2 DEF Usable
    <2>3. CASE sessions[t] # id
        BY <1>1, <2>1, <2>3 DEF Usable
    <2> QED
        BY <2>2, <2>3
  <1>14. DecisionsHold'
    <2> SUFFICES ASSUME NEW other \in Ids
                 PROVE  /\ accounts'[other] # None =>
                             /\ decided'[other].password # None =>
                                   accounts'[other].password = decided'[other].password
                             /\ decided'[other].status # None =>
                                   accounts'[other].status = decided'[other].status
                        /\ savedAccounts'[other] # None =>
                             /\ decided'[other].password # None =>
                                   savedAccounts'[other].password = decided'[other].password
                             /\ decided'[other].status # None =>
                                   savedAccounts'[other].status = decided'[other].status
        BY DEF DecisionsHold
    <2>1. CASE other = id
        BY <1>1, <1>2, <2>1 DEF SerialInv, DecisionsHold
    <2>2. CASE other # id
        BY <1>1, <2>2 DEF SerialInv, DecisionsHold
    <2> QED
        BY <2>1, <2>2
  <1>15. RevokedHold'
      BY <1>1, <1>7 DEF SerialInv, RevokedHold, TypeOK
  <1> QED
      BY <1>8, <1>9, <1>10, <1>11, <1>12, <1>13, <1>14, <1>15 DEF SerialInv

LEMMA SerialDeleteAccount ==
  ASSUME TypeOK, Orderly, SerialInv, NEW id \in Ids, DeleteAccount(id)
  PROVE  SerialInv'
  <1>1. /\ AdminFree /\ accounts[id] # None
        /\ UNCHANGED <<mode, savedAccounts, savedSessions, takenNames, request, drawn, decided, revoked>>
        /\ accounts'[id] = None
        /\ \A other \in Ids : other # id => accounts'[other] = accounts[other]
        /\ byUsername'[accounts[id].name] = None
        /\ \A n \in Names : n # accounts[id].name => byUsername'[n] = byUsername[n]
        /\ \A t \in Tokens : sessions'[t] = IF sessions[t] = id THEN None ELSE sessions[t]
      BY DeleteAccountDoes
  <1>2. admin' = [at |-> "delete", id |-> id, gone |-> SessionsOf(id)]
      BY DeleteAccountDoes
  <1>3. admin'.at = "delete" /\ admin'.id = id /\ admin'.gone = SessionsOf(id) /\ admin' # Idle
      BY <1>2 DEF Idle
  <1>4. admin = Idle /\ (\A s \in Requests : request[s] = Idle) /\ Settled
      BY <1>1, AdminFreeIsQuiet
  <1>5. id # None
      BY NoMark
  <1>6. \A s \in Requests : request'[s] = Idle
      BY <1>1, <1>4
  <1>7. \A t \in Tokens : sessions'[t] \in {None, sessions[t]}
      BY <1>1
  <1>8. OneAtATime' /\ RequestHolds'
      BY <1>6 DEF OneAtATime, RequestHolds, Relies, Idle
  <1>9. AdminHolds'
    <2>1. SessionsOf(id) = {t \in Tokens : savedSessions'[t] = id}
        BY <1>1, <1>4 DEF SessionsOf, Settled
    <2> QED
        BY <1>1, <1>3, <1>5, <2>1 DEF AdminHolds, SessionsOf
  <1>10. Undrawn'
      BY <1>1, <1>7 DEF SerialInv, Undrawn
  <1>11. NamesHold'
    <2>1. \A other \in Ids : accounts'[other] # None => byUsername'[accounts'[other].name] = other
      <3> SUFFICES ASSUME NEW other \in Ids, accounts'[other] # None
                   PROVE  byUsername'[accounts'[other].name] = other
          OBVIOUS
      <3>1. other # id /\ accounts'[other] = accounts[other] /\ accounts[other].name \in Names
          BY <1>1 DEF TypeOK, Account
      <3>2. byUsername[accounts[other].name] = other /\ byUsername[accounts[id].name] = id
          BY <1>1, <3>1 DEF SerialInv, NamesHold
      <3> QED
          BY <1>1, <3>1, <3>2
    <2>2. \A n \in Names : byUsername'[n] # None =>
            accounts'[byUsername'[n]] # None /\ accounts'[byUsername'[n]].name = n
      <3> SUFFICES ASSUME NEW n \in Names, byUsername'[n] # None
                   PROVE  accounts'[byUsername'[n]] # None /\ accounts'[byUsername'[n]].name = n
          OBVIOUS
      <3>1. n # accounts[id].name /\ byUsername'[n] = byUsername[n] /\ byUsername[n] \in Ids
          BY <1>1 DEF TypeOK
      <3>2. accounts[byUsername[n]] # None /\ accounts[byUsername[n]].name = n
          BY <3>1 DEF SerialInv, NamesHold
      <3> QED
          BY <1>1, <3>1, <3>2
    <2> QED
        BY <1>1, <2>1, <2>2 DEF SerialInv, NamesHold
  <1>12. OnlyUnderWay'
      BY <1>1, <1>3, <1>4 DEF Settled, OnlyUnderWay
  <1>13. SessionsUsable'
    <2> SUFFICES ASSUME NEW t \in Tokens, sessions'[t] # None PROVE Usable(t)'
        BY DEF SessionsUsable
    <2>1. sessions'[t] = sessions[t] /\ sessions[t] \in Ids /\ Usable(t) /\ sessions[t] # id
        BY <1>1, <1>7 DEF SerialInv, SessionsUsable, TypeOK
    <2> QED
        BY <1>1, <2>1 DEF Usable
  <1>14. DecisionsHold'
      BY <1>1 DEF SerialInv, DecisionsHold
  <1>15. RevokedHold'
      BY <1>1, <1>7 DEF SerialInv, RevokedHold, TypeOK
  <1> QED
      BY <1>8, <1>9, <1>10, <1>11, <1>12, <1>13, <1>14, <1>15 DEF SerialInv

LEMMA SerialSessionsDropped ==
  ASSUME TypeOK, Orderly, SerialInv,
         SessionsDropped \/ SessionsDropFails \/ AccountDeleted
  PROVE  SerialInv'
  <1>1. /\ UNCHANGED <<mode, accounts, byUsername, sessions, request, drawn, decided>>
        /\ admin # Idle /\ admin' = Idle /\ admin.id \in Ids
        /\ revoked' = revoked \cup admin.gone
        /\ \A t \in Tokens :
              savedSessions'[t] = IF savedSessions[t] = admin.id THEN None ELSE savedSessions[t]
        /\ \A other \in Ids : other # admin.id => /\ savedAccounts'[other] = savedAccounts[other]
                                                  /\ takenNames'[other] = takenNames[other]
    <2>1. CASE SessionsDropped \/ SessionsDropFails
        BY <2>1, SessionsDroppedDoes, AdminFields DEF Orderly, Idle
    <2>2. CASE AccountDeleted
        BY <2>2, AccountDeletedDoes, AdminFields DEF Idle
    <2> QED
        BY <2>1, <2>2
  <1>2. \/ admin.at = "dropSessions" /\ UNCHANGED <<savedAccounts, takenNames>>
        \/ admin.at = "delete" /\ savedAccounts'[admin.id] = None /\ takenNames'[admin.id] = None
      BY SessionsDroppedDoes, AccountDeletedDoes
  <1>3. \A s \in Requests : request[s] = Idle /\ request'[s] = Idle
      BY <1>1 DEF SerialInv, OneAtATime
  <1>4. /\ admin.gone = {t \in Tokens : savedSessions[t] = admin.id}
        /\ \A t \in admin.gone : sessions[t] = None
        /\ admin.at = "delete" => accounts[admin.id] = None
      BY <1>1 DEF SerialInv, AdminHolds
  <1>5. Settled'
    <2>1. \A s \in Requests : request[s].at = "idle"
        BY <1>3 DEF Idle
    <2>2. \A t \in Tokens : sessions[t] # savedSessions[t] =>
            savedSessions[t] = admin.id /\ sessions[t] \in Ids \cup {None}
        BY <2>1 DEF SerialInv, OnlyUnderWay, TypeOK
    <2>3. \A t \in Tokens : savedSessions[t] = admin.id => sessions[t] = None
        BY <1>1, <1>4
    <2>4. \A t \in Tokens : sessions'[t] = savedSessions'[t]
        BY <1>1, <1>4, <2>2, <2>3
    <2>5. \A id \in Ids : accounts[id] # savedAccounts[id] => admin.at = "delete" /\ admin.id = id
        BY <2>1 DEF SerialInv, OnlyUnderWay
    <2>6. \A id \in Ids : accounts'[id] = savedAccounts'[id]
        BY <1>1, <1>2, <1>4, <2>5
    <2> QED
        BY <2>4, <2>6 DEF Settled
  <1>6. OneAtATime' /\ RequestHolds' /\ AdminHolds'
      BY <1>1, <1>3 DEF OneAtATime, RequestHolds, Relies, AdminHolds, Idle
  <1>7. \A id \in Ids : savedAccounts'[id] \in {None, savedAccounts[id]}
      BY <1>1, <1>2
  <1>8. Undrawn'
    <2>1. \A t \in admin.gone : t \in drawn
        BY <1>1, <1>4, NoMark DEF SerialInv, Undrawn
    <2> QED
        BY <1>1, <1>7, <2>1 DEF SerialInv, Undrawn
  <1>9. NamesHold'
    <2>1. \A id \in Ids :
            takenNames'[id] = IF savedAccounts'[id] = None THEN None ELSE savedAccounts'[id].name
        BY <1>1, <1>2 DEF SerialInv, NamesHold
    <2>2. \A id \in Ids : takenNames'[id] \in {None, takenNames[id]}
        BY <1>1, <1>2
    <2>3. \A a, b \in Ids : a # b /\ takenNames'[a] # None => takenNames'[a] # takenNames'[b]
        BY <2>2 DEF SerialInv, NamesHold
    <2> QED
        BY <1>1, <2>1, <2>3 DEF SerialInv, NamesHold
  <1>10. OnlyUnderWay'
      BY <1>5 DEF Settled, OnlyUnderWay
  <1>11. SessionsUsable'
      BY <1>1 DEF SerialInv, SessionsUsable, Usable
  <1>12. DecisionsHold'
      BY <1>1, <1>7 DEF SerialInv, DecisionsHold
  <1>13. RevokedHold'
    <2>1. \A t \in admin.gone : t \in Tokens /\ sessions'[t] = savedSessions'[t] /\ savedSessions'[t] = None
        BY <1>1, <1>4, <1>5 DEF Settled
    <2>2. \A t \in revoked : t \in Tokens /\ sessions[t] = None /\ savedSessions[t] = None
        BY DEF SerialInv, RevokedHold, TypeOK
    <2> QED
        BY <1>1, <2>1, <2>2 DEF RevokedHold
  <1> QED
      BY <1>6, <1>8, <1>9, <1>10, <1>11, <1>12, <1>13 DEF SerialInv

\* The loader finds each account under its name, and every session it keeps
\* can be used: the rows of a call that was cut off are all or nothing.
LEMMA SerialRestart ==
  ASSUME TypeOK, Orderly, SerialInv, Restart
  PROVE  SerialInv'
  <1>1. /\ UNCHANGED <<mode, savedAccounts, takenNames, drawn, decided, revoked>>
        /\ accounts' = savedAccounts
        /\ \A t \in Tokens : sessions'[t] = IF Restorable(t) THEN savedSessions[t] ELSE None
        /\ \A t \in Tokens : savedSessions'[t] = sessions'[t]
        /\ \A r \in Requests : request'[r] = Idle
        /\ admin' = Idle
      BY RestartDoes DEF Orderly
  <1>2. \A n \in Names :
          IF \A id \in Ids : savedAccounts[id] # None => savedAccounts[id].name # n
          THEN byUsername'[n] = None
          ELSE /\ byUsername'[n] \in Ids
               /\ savedAccounts[byUsername'[n]] # None /\ savedAccounts[byUsername'[n]].name = n
      BY RestartDoes
  <1>3. Settled'
      BY <1>1 DEF Settled
  <1>4. OneAtATime' /\ RequestHolds' /\ AdminHolds'
      BY <1>1 DEF OneAtATime, RequestHolds, Relies, AdminHolds, Idle
  <1>5. \A t \in Tokens : sessions'[t] \in {None, savedSessions[t]}
      BY <1>1
  <1>6. Undrawn'
      BY <1>1, <1>5 DEF SerialInv, Undrawn
  <1>7. NamesHold'
    <2>1. \A id \in Ids : savedAccounts[id] # None => byUsername'[savedAccounts[id].name] = id
      <3> SUFFICES ASSUME NEW id \in Ids, savedAccounts[id] # None
                   PROVE  byUsername'[savedAccounts[id].name] = id
          OBVIOUS
      <3> DEFINE name == savedAccounts[id].name
                 other == byUsername'[name]
      <3>1. name \in Names /\ name # None
          BY NoMark DEF TypeOK, Account
      <3>2. other \in Ids /\ savedAccounts[other] # None /\ savedAccounts[other].name = name
          BY <1>2, <3>1
      <3>3. takenNames[id] = name /\ takenNames[other] = name
          BY <3>2 DEF SerialInv, NamesHold
      <3> QED
          BY <3>1, <3>2, <3>3 DEF SerialInv, NamesHold
    <2>2. \A n \in Names : byUsername'[n] # None =>
            savedAccounts[byUsername'[n]] # None /\ savedAccounts[byUsername'[n]].name = n
        BY <1>2
    <2> QED
        BY <1>1, <2>1, <2>2 DEF SerialInv, NamesHold
  <1>8. OnlyUnderWay'
      BY <1>3 DEF Settled, OnlyUnderWay
  <1>9. SessionsUsable'
      BY <1>1 DEF SessionsUsable, Usable, Restorable
  <1>10. DecisionsHold'
      BY <1>1 DEF SerialInv, DecisionsHold
  <1>11. RevokedHold'
      BY <1>1, <1>5 DEF SerialInv, RevokedHold, TypeOK
  <1> QED
      BY <1>4, <1>6, <1>7, <1>8, <1>9, <1>10, <1>11 DEF SerialInv

LEMMA SerialStutter ==
  ASSUME SerialInv, UNCHANGED known, UNCHANGED request
  PROVE  SerialInv'
  <1>1. UNCHANGED <<accounts, byUsername, sessions, savedAccounts, savedSessions, takenNames, request,
                    admin, drawn, decided, revoked>>
      BY DEF known
  <1>2. OneAtATime' /\ RequestHolds' /\ AdminHolds' /\ OnlyUnderWay'
      BY <1>1 DEF SerialInv, OneAtATime, RequestHolds, Relies, AdminHolds, OnlyUnderWay
  <1>3. Undrawn' /\ SessionsUsable' /\ RevokedHold'
      BY <1>1 DEF SerialInv, Undrawn, SessionsUsable, Usable, RevokedHold
  <1>4. NamesHold' /\ DecisionsHold'
      BY <1>1, NamesUntouched
  <1> QED
      BY <1>2, <1>3, <1>4 DEF SerialInv

LEMMA SerialStep ==
  ASSUME ApprovalInv, Orderly, SerialInv, Next
  PROVE  SerialInv'
  <1> USE DEF ApprovalInv
  <1>1. ASSUME NEW r \in Requests, RequestStarts(r) \/ RequestContinues(r)
        PROVE  SerialInv'
      BY <1>1, SerialMerely, SerialLogin, SerialRegister, SerialRegisterSaves,
         SerialRegisterSaveFails, SerialCreateSession, SerialSessionSaves, SerialSessionSaveFails,
         SerialEndSession, SerialSessionDeleted DEF RequestStarts, RequestContinues
  <1>2. ASSUME NEW token \in Tokens, DropUnusable(token)
        PROVE  FALSE
      BY <1>2, DropUnusableDoes DEF SerialInv, SessionsUsable
  <1>3. CASE SetApprovalRequired
      BY <1>3, SetApprovalRequiredDoes, SerialStutter DEF known
  <1>4. CASE AccountDeleteFails
      BY <1>4, AccountDeleteFailsDoes DEF Orderly
  <1>5. CASE \E id \in Ids : \/ \E status \in Statuses : SetAccountStatus(id, status)
                             \/ \E password \in Passwords : SetAccountPassword(id, password)
      BY <1>5, SerialSetAccount
  <1>6. CASE \E id \in Ids : DeleteAccount(id)
      BY <1>6, SerialDeleteAccount
  <1>7. CASE SessionsDropped \/ SessionsDropFails \/ AccountDeleted
      BY <1>7, SerialSessionsDropped
  <1>8. CASE Restart
      BY <1>8, SerialRestart
  <1> QED
      BY <1>1, <1>2, <1>3, <1>4, <1>5, <1>6, <1>7, <1>8 DEF Next, Administrator

-----------------------------------------------------------------------------
(* What memory and database keep.                                          *)

LEMMA OrderlyStays ==
  ASSUME TypeOK, Next
  PROVE  mode' = mode
  BY NextCases, RegisterDecidesDoes, RegisterRefusedDoes, LoginVerifiesDoes, TouchSessionDoes,
     EndSessionDoes, RegisterDoes, RegisterSavesDoes, RegisterSaveFailsDoes, LoginUpdatesDoes,
     LoginSavesDoes, CreateAccountSessionDoes, SessionSavesDoes, SessionSaveFailsDoes,
     SessionDeletedDoes, DropUnusableDoes, SetApprovalRequiredDoes, SetAccountDoes,
     DeleteAccountDoes, SessionsDroppedDoes, AccountDeletedDoes, AccountDeleteFailsDoes,
     RestartDoes DEF beside

\* At every step of calls that do not overlap, memory and database differ only
\* in what the call under way has yet to save, and everything that could be
\* restored after a crash is as consistent as the memory.
THEOREM AccountsCorrect == Spec => []AccountsInv
  <1>1. Init => ApprovalInv
      BY ApprovalInit
  <1>2. Init => SerialInv
    <2> SUFFICES ASSUME Init PROVE SerialInv
        OBVIOUS
    <2>1. OneAtATime /\ RequestHolds /\ AdminHolds
        BY DEF Init, OneAtATime, RequestHolds, Relies, AdminHolds, Idle
    <2>2. Undrawn /\ NamesHold /\ OnlyUnderWay
        BY DEF Init, Nothing, Undrawn, NamesHold, OnlyUnderWay
    <2>3. SessionsUsable /\ DecisionsHold /\ RevokedHold
        BY DEF Init, Nothing, SessionsUsable, DecisionsHold, RevokedHold
    <2> QED
        BY <2>1, <2>2, <2>3 DEF SerialInv
  <1>3. AccountsInv /\ [Next]_vars => AccountsInv'
    <2> SUFFICES ASSUME AccountsInv, [Next]_vars PROVE AccountsInv'
        OBVIOUS
    <2>1. ApprovalInv'
        BY ApprovalStep DEF AccountsInv
    <2>2. ASSUME Orderly', Next PROVE SerialInv'
      <3>1. Orderly
          BY <2>2, OrderlyStays DEF AccountsInv, ApprovalInv, Orderly
      <3> QED
          BY <2>2, <3>1, SerialStep DEF AccountsInv
    <2>3. ASSUME Orderly', UNCHANGED vars PROVE SerialInv'
      <3>1. Orderly /\ UNCHANGED known /\ UNCHANGED request
          BY <2>3 DEF vars, memory, saved, history, known, Orderly
      <3> QED
          BY <3>1, SerialStutter DEF AccountsInv, known
    <2> QED
        BY <2>1, <2>2, <2>3 DEF AccountsInv
  <1>4. Init => AccountsInv
      BY <1>1, <1>2 DEF AccountsInv
  <1> QED
      BY <1>3, <1>4, PTL DEF Spec

\* Between calls that do not overlap a restart changes no account and no
\* session, whatever save failed on the way.
THEOREM RestartNeverChanges == Spec => []RestartChangesNothing
  <1>1. AccountsInv => RestartChangesNothing
    <2> SUFFICES ASSUME AccountsInv, Orderly, Quiet
                 PROVE  savedAccounts = accounts /\ savedSessions = sessions
        BY DEF RestartChangesNothing
    <2>1. admin = Idle /\ \A r \in Requests : request[r] = Idle
        BY FreeMeansQuiet DEF Orderly, Quiet
    <2>2. Settled
        BY <2>1 DEF AccountsInv, SerialInv, OnlyUnderWay, Settled, Idle
    <2> QED
        BY <2>2 DEF Settled, AccountsInv, ApprovalInv, TypeOK
  <1> QED
      BY <1>1, AccountsCorrect, PTL

\* A password or status the administrator set is in force, also after a crash:
\* both are saved inside the critical section that changes the memory.
THEOREM DecisionsAlwaysStand == Spec => []DecisionsStand
  <1>1. AccountsInv => DecisionsStand
      BY DEF AccountsInv, SerialInv, DecisionsHold, DecisionsStand, PasswordResetStands
  <1> QED
      BY <1>1, AccountsCorrect, PTL

\* A session that was reported revoked is gone from memory and database.
THEOREM RevocationAlwaysStands == Spec => []RevocationStands
  <1>1. AccountsInv => RevocationStands
      BY DEF AccountsInv, SerialInv, RevokedHold, RevocationStands, RevokedStaysRevoked
  <1> QED
      BY <1>1, AccountsCorrect, PTL

\* Two accounts never answer to one name, also after a crash: the unique index
\* keeps the names of the rows apart, and the map of names follows the accounts.
THEOREM NamesAlwaysResolve == Spec => []NamesResolve
  <1>1. AccountsInv => NamesResolve
      BY DEF AccountsInv, SerialInv, NamesHold, NamesResolve
  <1> QED
      BY <1>1, AccountsCorrect, PTL
=============================================================================
