------------------------------ MODULE Accounts ------------------------------
(***************************************************************************)
(* Accounts and login sessions (src/internal/server/auth.go): what         *)
(* accountManager keeps in memory beside what the database holds.          *)
(*                                                                         *)
(* Every critical section of accountManager.mu and every database call     *)
(* outside one is a step.  An administrator's change saves inside its      *)
(* critical section; registration, login, logout and the hourly touch of   *)
(* a session save after they unlocked, and a login writes back the whole   *)
(* account it read before it verified the password.                        *)
(*                                                                         *)
(* Left out: the rate limit, session expiry by age beyond the step that    *)
(* drops a session, addresses and times.  "rejected" and "disabled" are    *)
(* one status, "barred": no code tells them apart but for a message.       *)
(***************************************************************************)
EXTENDS Integers, FiniteSets

CONSTANTS
    Ids,          \* random account ids, each drawn once
    Names,        \* usernames
    Passwords,
    Tokens,       \* random session tokens, each drawn once
    Requests,     \* goroutines serving /__auth/ and authenticated pages
    None,
    Modes,        \* kinds of behaviour, see Mode
    MaxRestarts   \* bound of the model on crashes

Statuses == {"pending", "active", "barred"}

Account == [name : Names, password : Passwords, status : Statuses]

\* How many calls may be between two of their steps, which database calls may
\* fail, and bounds of the model on the names used and the sessions begun.
Mode == [overlapping : Nat, failing : SUBSET {"saveAccount", "saveSession", "delete"},
         names : SUBSET Names, logins : Nat]

ASSUME AccountsAssumption ==
    /\ IsFiniteSet(Requests)
    /\ None \notin Account \cup Ids \cup Names \cup Passwords \cup Statuses
    /\ Modes \subseteq Mode
    /\ MaxRestarts \in Nat

VARIABLES
    mode,                               \* the kind of this behaviour
    approvalRequired,
    accounts, byUsername, sessions,     \* memory
    savedAccounts, savedSessions,       \* the accounts and sessions buckets
    takenNames,                         \* username of a row of the users table
    request,                            \* what each request has yet to do
    admin,                              \* what the administrator's call has yet to do
    drawn,                              \* ids and tokens drawn so far
    decided,                            \* history: what the administrator last decided
    revoked,                            \* history: tokens reported revoked
    onceActive,                         \* history: accounts that were ever active
    restarts

memory  == <<accounts, byUsername, sessions>>
saved   == <<savedAccounts, savedSessions, takenNames>>
history == <<mode, drawn, decided, revoked, onceActive, restarts>>
vars    == <<approvalRequired, memory, saved, request, admin, history>>

Idle == [at |-> "idle"]

RequestSteps ==
    {Idle}
    \cup [at : {"deciding"}, status : {"pending", "active"}]
    \cup [at : {"registered", "verified", "updated"}, id : Ids, account : Account]
    \cup [at : {"authorized"}, id : Ids]
    \cup [at : {"issued", "touched"}, token : Tokens, id : Ids]
    \cup [at : {"dropped"}, token : Tokens]

TypeOK ==
    /\ mode \in Modes
    /\ approvalRequired \in BOOLEAN
    /\ accounts \in [Ids -> Account \cup {None}]
    /\ byUsername \in [Names -> Ids \cup {None}]
    /\ sessions \in [Tokens -> Ids \cup {None}]
    /\ savedAccounts \in [Ids -> Account \cup {None}]
    /\ savedSessions \in [Tokens -> Ids \cup {None}]
    /\ takenNames \in [Ids -> Names \cup {None}]
    /\ request \in [Requests -> RequestSteps]
    /\ admin \in {Idle} \cup [at : {"dropSessions", "delete"}, id : Ids, gone : SUBSET Tokens]
    /\ drawn \subseteq Ids \cup Tokens
    /\ decided \in [Ids -> [password : Passwords \cup {None}, status : Statuses \cup {None}]]
    /\ revoked \subseteq Tokens
    /\ onceActive \subseteq Ids
    /\ restarts \in 0 .. MaxRestarts

Nothing(S) == [x \in S |-> None]

Init ==
    /\ mode \in Modes
    /\ approvalRequired \in BOOLEAN
    /\ accounts = Nothing(Ids)
    /\ byUsername = Nothing(Names)
    /\ sessions = Nothing(Tokens)
    /\ savedAccounts = Nothing(Ids)
    /\ savedSessions = Nothing(Tokens)
    /\ takenNames = Nothing(Ids)
    /\ request = [r \in Requests |-> Idle]
    /\ admin = Idle
    /\ drawn = {}
    /\ decided = [id \in Ids |-> [password |-> None, status |-> None]]
    /\ revoked = {}
    /\ onceActive = {}
    /\ restarts = 0

-----------------------------------------------------------------------------
Busy == Cardinality({r \in Requests : request[r] # Idle}) + (IF admin = Idle THEN 0 ELSE 1)

\* A goroutine of its own serves each request.
Free(r)   == request[r] = Idle /\ Busy < mode.overlapping
AdminFree == admin = Idle /\ Busy < mode.overlapping

Goes(r, step) == request' = [request EXCEPT ![r] = step]

\* The unique index on users.username refuses a second row with the name.
NameFree(id, name) == \A other \in Ids \ {id} : takenNames[other] # name

SaveAccount(id, account) ==
    /\ savedAccounts' = [savedAccounts EXCEPT ![id] = account]
    /\ takenNames' = [takenNames EXCEPT ![id] = account.name]

-----------------------------------------------------------------------------
(* Registration.                                                           *)

\* Whether approval is required is read before the lock is taken.
RegisterDecides(r) ==
    /\ Free(r)
    /\ Goes(r, [at |-> "deciding",
                status |-> IF approvalRequired THEN "pending" ELSE "active"])
    /\ UNCHANGED <<approvalRequired, memory, saved, admin, history>>

Register(r, id, name, password) ==
    LET account == [name |-> name, password |-> password, status |-> request[r].status]
    IN  /\ request[r].at = "deciding"
        /\ id \notin drawn
        /\ name \in mode.names
        /\ byUsername[name] = None
        /\ accounts' = [accounts EXCEPT ![id] = account]
        /\ byUsername' = [byUsername EXCEPT ![name] = id]
        /\ drawn' = drawn \cup {id}
        /\ onceActive' = IF account.status = "active" THEN onceActive \cup {id} ELSE onceActive
        /\ Goes(r, [at |-> "registered", id |-> id, account |-> account])
        /\ UNCHANGED <<mode, approvalRequired, sessions, saved, admin, decided, revoked, restarts>>

\* The name is taken.
RegisterRefused(r) ==
    /\ request[r].at = "deciding"
    /\ \E name \in Names : byUsername[name] # None
    /\ Goes(r, Idle)
    /\ UNCHANGED <<approvalRequired, memory, saved, admin, history>>

AfterRegistration_AlwaysLogsIn(step) == [at |-> "authorized", id |-> step.id]

\* A registration that waits for approval gets no session.
AfterRegistration(step) ==
    IF step.account.status = "pending" THEN Idle ELSE [at |-> "authorized", id |-> step.id]

RegisterSaves(r) ==
    /\ request[r].at = "registered"
    /\ NameFree(request[r].id, request[r].account.name)
    /\ SaveAccount(request[r].id, request[r].account)
    /\ Goes(r, AfterRegistration(request[r]))
    /\ UNCHANGED <<approvalRequired, memory, savedSessions, admin, history>>

RegisterSaveFails_KeepsAccount(r) ==
    /\ request[r].at = "registered"
    /\ "saveAccount" \in mode.failing \/ ~NameFree(request[r].id, request[r].account.name)
    /\ Goes(r, Idle)
    /\ UNCHANGED <<approvalRequired, memory, saved, admin, history>>

RegisterSaveFails(r) ==
    /\ request[r].at = "registered"
    /\ "saveAccount" \in mode.failing \/ ~NameFree(request[r].id, request[r].account.name)
    /\ accounts' = [accounts EXCEPT ![request[r].id] = None]
    /\ byUsername' = [byUsername EXCEPT ![request[r].account.name] = None]
    /\ Goes(r, Idle)
    /\ UNCHANGED <<approvalRequired, sessions, saved, admin, history>>

-----------------------------------------------------------------------------
(* Login.                                                                  *)

\* The account is copied under the read lock and verified afterwards; a wrong
\* password or a status that is not active ends the request.
LoginVerifies(r, name, password) ==
    LET id == byUsername[name]
    IN  /\ Free(r)
        /\ id # None
        /\ accounts[id] # None
        /\ accounts[id].password = password
        /\ accounts[id].status = "active"
        /\ Goes(r, [at |-> "verified", id |-> id, account |-> accounts[id]])
        /\ UNCHANGED <<approvalRequired, memory, saved, admin, history>>

\* The copy replaces the account, if that still exists.
LoginUpdates(r) ==
    /\ request[r].at = "verified"
    /\ accounts' = IF accounts[request[r].id] = None THEN accounts
                   ELSE [accounts EXCEPT ![request[r].id] = request[r].account]
    /\ Goes(r, [request[r] EXCEPT !.at = "updated"])
    /\ UNCHANGED <<approvalRequired, byUsername, sessions, saved, admin, history>>

\* The error of this save is ignored.
LoginSaves(r) ==
    /\ request[r].at = "updated"
    /\ \/ /\ NameFree(request[r].id, request[r].account.name)
          /\ SaveAccount(request[r].id, request[r].account)
       \/ /\ "saveAccount" \in mode.failing \/ ~NameFree(request[r].id, request[r].account.name)
          /\ UNCHANGED <<savedAccounts, takenNames>>
    /\ Goes(r, [at |-> "authorized", id |-> request[r].id])
    /\ UNCHANGED <<approvalRequired, memory, savedSessions, admin, history>>

CreateAccountSession(r, token) ==
    /\ request[r].at = "authorized"
    /\ token \notin drawn
    /\ Cardinality(drawn \cap Tokens) < mode.logins
    /\ drawn' = drawn \cup {token}
    /\ sessions' = [sessions EXCEPT ![token] = request[r].id]
    /\ Goes(r, [at |-> "issued", token |-> token, id |-> request[r].id])
    /\ UNCHANGED <<mode, approvalRequired, accounts, byUsername, saved, admin, decided, revoked, onceActive, restarts>>

\* The save of a new session and that of a touched one.
SessionSaves(r) ==
    /\ request[r].at \in {"issued", "touched"}
    /\ savedSessions' = [savedSessions EXCEPT ![request[r].token] = request[r].id]
    /\ Goes(r, Idle)
    /\ UNCHANGED <<approvalRequired, memory, savedAccounts, takenNames, admin, history>>

\* A new session is taken back; the error of a touch is ignored.
SessionSaveFails(r) ==
    /\ "saveSession" \in mode.failing
    /\ \/ /\ request[r].at = "issued"
          /\ sessions' = [sessions EXCEPT ![request[r].token] = None]
       \/ /\ request[r].at = "touched"
          /\ UNCHANGED sessions
    /\ Goes(r, Idle)
    /\ UNCHANGED <<approvalRequired, accounts, byUsername, saved, admin, history>>

-----------------------------------------------------------------------------
(* Using and leaving a session.                                            *)

\* The cookie with the token is set after the session was saved.
Held(token) ==
    /\ token \in drawn
    /\ \A r \in Requests : request[r].at = "issued" => request[r].token # token

Usable(token) ==
    /\ sessions[token] # None
    /\ accounts[sessions[token]] # None
    /\ accounts[sessions[token]].status = "active"

\* authenticatedAccount finds that the session was last seen an hour ago.
TouchSession(r, token) ==
    /\ Free(r)
    /\ Held(token)
    /\ Usable(token)
    /\ Goes(r, [at |-> "touched", token |-> token, id |-> sessions[token]])
    /\ UNCHANGED <<approvalRequired, memory, saved, admin, history>>

\* authenticatedAccount meets the session of an account that may not use it:
\* it goes from memory only.
DropUnusable(token) ==
    /\ Held(token)
    /\ sessions[token] # None
    /\ ~Usable(token)
    /\ sessions' = [sessions EXCEPT ![token] = None]
    /\ UNCHANGED <<approvalRequired, accounts, byUsername, saved, request, admin, history>>

\* Logout, whether the session is known or not, and a session that
\* authenticatedAccount finds expired.
EndSession(r, token) ==
    /\ Free(r)
    /\ Held(token)
    /\ sessions' = [sessions EXCEPT ![token] = None]
    /\ Goes(r, [at |-> "dropped", token |-> token])
    /\ UNCHANGED <<approvalRequired, accounts, byUsername, saved, admin, history>>

SessionDeleted(r) ==
    /\ request[r].at = "dropped"
    /\ savedSessions' = [savedSessions EXCEPT ![request[r].token] = None]
    /\ revoked' = revoked \cup {request[r].token}
    /\ Goes(r, Idle)
    /\ UNCHANGED <<mode, approvalRequired, memory, savedAccounts, takenNames, admin,
                   drawn, decided, onceActive, restarts>>

\* The error is ignored, the row stays.
SessionDeleteFails(r) ==
    /\ "delete" \in mode.failing
    /\ request[r].at = "dropped"
    /\ revoked' = revoked \cup {request[r].token}
    /\ Goes(r, Idle)
    /\ UNCHANGED <<mode, approvalRequired, memory, saved, admin, drawn, decided, onceActive, restarts>>

-----------------------------------------------------------------------------
(* The administrator.                                                      *)

SessionsOf(id) == {t \in Tokens : sessions[t] = id}

WithoutTokens(gone) == [t \in Tokens |-> IF t \in gone THEN None ELSE sessions[t]]

\* A change that is saved, then made in memory, all in one critical section.
ChangeAccount(id, account) ==
    /\ AdminFree
    /\ accounts[id] # None
    /\ NameFree(id, account.name)
    /\ SaveAccount(id, account)
    /\ accounts' = [accounts EXCEPT ![id] = account]
    /\ onceActive' = IF account.status = "active" THEN onceActive \cup {id} ELSE onceActive

DropSessionsOf(id) ==
    /\ sessions' = WithoutTokens(SessionsOf(id))
    /\ admin' = [at |-> "dropSessions", id |-> id, gone |-> SessionsOf(id)]

SetAccountStatus(id, status) ==
    /\ status # "pending"
    /\ accounts[id] # None
    /\ ChangeAccount(id, [accounts[id] EXCEPT !.status = status])
    /\ decided' = [decided EXCEPT ![id].status = status]
    /\ IF status = "active" THEN UNCHANGED <<sessions, admin>> ELSE DropSessionsOf(id)
    /\ UNCHANGED <<mode, approvalRequired, byUsername, savedSessions, request, drawn, revoked, restarts>>

SetAccountPassword_OnlyInMemory(id, password) ==
    /\ AdminFree
    /\ accounts[id] # None
    /\ accounts' = [accounts EXCEPT ![id].password = password]
    /\ decided' = [decided EXCEPT ![id].password = password]
    /\ DropSessionsOf(id)
    /\ UNCHANGED <<mode, approvalRequired, byUsername, saved, request, drawn, revoked, onceActive, restarts>>

SetAccountPassword(id, password) ==
    /\ accounts[id] # None
    /\ ChangeAccount(id, [accounts[id] EXCEPT !.password = password])
    /\ decided' = [decided EXCEPT ![id].password = password]
    /\ DropSessionsOf(id)
    /\ UNCHANGED <<mode, approvalRequired, byUsername, savedSessions, request, drawn, revoked, restarts>>

SessionsDropped_OnlyInMemory ==
    /\ admin.at = "dropSessions"
    /\ revoked' = revoked \cup admin.gone
    /\ admin' = Idle
    /\ UNCHANGED <<mode, approvalRequired, memory, saved, request, drawn, decided, onceActive, restarts>>

\* DeleteAccountSessions; the call returns after it.
SessionsDropped ==
    /\ admin.at = "dropSessions"
    /\ savedSessions' = [t \in Tokens |->
                           IF savedSessions[t] = admin.id THEN None ELSE savedSessions[t]]
    /\ revoked' = revoked \cup admin.gone
    /\ admin' = Idle
    /\ UNCHANGED <<mode, approvalRequired, memory, savedAccounts, takenNames, request,
                   drawn, decided, onceActive, restarts>>

\* The error is ignored, the rows stay.
SessionsDropFails ==
    /\ "delete" \in mode.failing
    /\ admin.at = "dropSessions"
    /\ revoked' = revoked \cup admin.gone
    /\ admin' = Idle
    /\ UNCHANGED <<mode, approvalRequired, memory, saved, request, drawn, decided, onceActive, restarts>>

DeleteAccount_KeepsName(id) ==
    /\ AdminFree
    /\ accounts[id] # None
    /\ accounts' = [accounts EXCEPT ![id] = None]
    /\ sessions' = WithoutTokens(SessionsOf(id))
    /\ admin' = [at |-> "delete", id |-> id, gone |-> SessionsOf(id)]
    /\ UNCHANGED <<approvalRequired, byUsername, saved, request, history>>

DeleteAccount(id) ==
    /\ AdminFree
    /\ accounts[id] # None
    /\ accounts' = [accounts EXCEPT ![id] = None]
    /\ byUsername' = [byUsername EXCEPT ![accounts[id].name] = None]
    /\ sessions' = WithoutTokens(SessionsOf(id))
    /\ admin' = [at |-> "delete", id |-> id, gone |-> SessionsOf(id)]
    /\ UNCHANGED <<approvalRequired, saved, request, history>>

AccountDeleted ==
    /\ admin.at = "delete"
    /\ savedAccounts' = [savedAccounts EXCEPT ![admin.id] = None]
    /\ takenNames' = [takenNames EXCEPT ![admin.id] = None]
    /\ savedSessions' = [t \in Tokens |->
                           IF savedSessions[t] = admin.id THEN None ELSE savedSessions[t]]
    /\ revoked' = revoked \cup admin.gone
    /\ admin' = Idle
    /\ UNCHANGED <<mode, approvalRequired, memory, request, drawn, decided, onceActive, restarts>>

\* The administrator is told, the memory is not put back.
AccountDeleteFails ==
    /\ "delete" \in mode.failing
    /\ admin.at = "delete"
    /\ admin' = Idle
    /\ UNCHANGED <<approvalRequired, memory, saved, request, history>>

SetApprovalRequired ==
    /\ approvalRequired' = ~approvalRequired
    /\ UNCHANGED <<memory, saved, request, admin, history>>

-----------------------------------------------------------------------------
\* Sessions the loader keeps; it deletes the others.
Restorable(t) ==
    /\ savedSessions[t] # None
    /\ savedAccounts[savedSessions[t]] # None
    /\ savedAccounts[savedSessions[t]].status = "active"

\* The process dies and starts again: setPersistence loads what was saved.  The
\* row of a session it does not keep stays if its deletion fails.
Restart ==
    /\ restarts < MaxRestarts
    /\ restarts' = restarts + 1
    /\ accounts' = savedAccounts
    /\ byUsername' \in {f \in [Names -> Ids \cup {None}] : \A n \in Names :
          LET owners == {id \in Ids : savedAccounts[id] # None /\ savedAccounts[id].name = n}
          IN  IF owners = {} THEN f[n] = None ELSE f[n] \in owners}
    /\ sessions' = [t \in Tokens |-> IF Restorable(t) THEN savedSessions[t] ELSE None]
    /\ \E kept \in IF "delete" \in mode.failing THEN SUBSET Tokens ELSE {{}} :
          savedSessions' = [t \in Tokens |-> IF t \in kept THEN savedSessions[t] ELSE sessions'[t]]
    /\ request' = [r \in Requests |-> Idle]
    /\ admin' = Idle
    /\ UNCHANGED <<mode, approvalRequired, savedAccounts, takenNames, drawn, decided, revoked, onceActive>>

-----------------------------------------------------------------------------
RequestStarts(r) ==
    \/ RegisterDecides(r)
    \/ \E name \in Names, password \in Passwords : LoginVerifies(r, name, password)
    \/ \E token \in Tokens : TouchSession(r, token) \/ EndSession(r, token)

RequestContinues(r) ==
    \/ \E id \in Ids, name \in Names, password \in Passwords : Register(r, id, name, password)
    \/ RegisterRefused(r)
    \/ RegisterSaves(r)
    \/ RegisterSaveFails(r)
    \/ LoginUpdates(r)
    \/ LoginSaves(r)
    \/ \E token \in Tokens : CreateAccountSession(r, token)
    \/ SessionSaves(r)
    \/ SessionSaveFails(r)
    \/ SessionDeleted(r) \/ SessionDeleteFails(r)

Administrator ==
    \/ SetApprovalRequired
    \/ \E id \in Ids :
          \/ \E status \in Statuses : SetAccountStatus(id, status)
          \/ \E password \in Passwords : SetAccountPassword(id, password)
          \/ DeleteAccount(id)
    \/ SessionsDropped \/ SessionsDropFails
    \/ AccountDeleted \/ AccountDeleteFails

Next ==
    \/ \E r \in Requests : RequestStarts(r) \/ RequestContinues(r)
    \/ \E token \in Tokens : DropUnusable(token)
    \/ Administrator
    \/ Restart

Spec == Init /\ [][Next]_vars

-----------------------------------------------------------------------------
(* Properties.                                                             *)

Quiet == Busy = 0

\* Calls run one after the other, and what is deleted in memory goes from the
\* database too.
Orderly == mode.overlapping = 1 /\ "delete" \notin mode.failing

\* Calls that run one after the other leave memory and database equal, so
\* that a restart changes nothing: no account and no session appears or
\* disappears, whatever save failed on the way (every save function of auth.go).
RestartChangesNothing ==
    Orderly /\ Quiet => savedAccounts = accounts /\ savedSessions = sessions

\* A password set by the administrator is the one in force until the next.
PasswordResetStands ==
    \A id \in Ids : accounts[id] # None /\ decided[id].password # None =>
        accounts[id].password = decided[id].password

\* A session that was reported revoked never works again, not even after a
\* restart.
RevokedStaysRevoked == \A t \in revoked : sessions[t] = None

\* Whatever the administrator last decided about an account, its password or
\* its status, is in force, also after a crash, when calls do not overlap.
DecisionsStand ==
    Orderly => /\ PasswordResetStands
               /\ \A id \in Ids : accounts[id] # None /\ decided[id].status # None =>
                     accounts[id].status = decided[id].status

\* A password reset, a barring, a deletion or a logout ends the sessions it
\* reported for good, also after a crash, when calls do not overlap.
RevocationStands == Orderly => RevokedStaysRevoked

\* "An administrator password reset must also remove access from devices that
\* still hold an old authentication cookie": whatever else is running, neither
\* the old password nor a revoked session opens the account again.
ResetRemovesAccess == PasswordResetStands /\ RevokedStaysRevoked

\* Nobody holds a session of an account that was never approved, however
\* calls overlap and whatever is deleted in between.
NoSessionBeforeApproval == \A t \in Tokens : sessions[t] # None => sessions[t] \in onceActive

\* Two accounts never answer to one name, and an account that exists can be
\* found by its name, when calls do not overlap.
NamesResolve ==
    Orderly =>
        /\ \A id \in Ids : accounts[id] # None => byUsername[accounts[id].name] = id
        /\ \A n \in Names : byUsername[n] # None =>
              accounts[byUsername[n]] # None /\ accounts[byUsername[n]].name = n
=============================================================================
