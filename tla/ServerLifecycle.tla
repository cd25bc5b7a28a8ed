--------------------------- MODULE ServerLifecycle ---------------------------
(***************************************************************************)
(* The server around the chat registry (src/internal/server/server.go):    *)
(* Start and Stop, the gate every HTTP request passes, the two checks      *)
(* before a chat handshake (web password, account session) and what        *)
(* happens to requests in flight when the credentials change.              *)
(*                                                                         *)
(* It composes ChatHub: a member of Conns is now one HTTP request that     *)
(* wants to become a chat connection, from its arrival at a listener.      *)
(***************************************************************************)
EXTENDS ChatHub

CONSTANTS
    MaxRuns,       \* bound of the model on the number of starts
    MaxAccess,     \* bound of the model on the number of password changes
    OpenVersions   \* access versions without a web password

ASSUME BoundsAssumption == MaxRuns \in Nat /\ MaxAccess \in Nat /\ OpenVersions \subseteq Nat

VARIABLES
    running,        \* s.http # nil: the listeners belong to a run
    lifecycle,      \* who holds lifecycleMu, and how far it is
    run,            \* number of the last started run
    canceled,       \* runCancel of that run was called
    gate,           \* handlerAccepting
    accessVersion,  \* bumped when the web password changes
    accessChange,   \* SetAccess is between its two critical sections
    revoking,       \* identities whose sessions are revoked, connections not yet cut
    req             \* progress and credentials of each request

runVars    == <<running, lifecycle, run, canceled, gate>>
accessVars == <<accessVersion, accessChange, revoking>>
serverVars == <<runVars, accessVars, req>>
allVars    == <<vars, serverVars>>

NoRequest == [at |-> "none", run |-> 0, version |-> 0, creds |-> 0, cookie |-> "live"]

\* Requests counted by handlerWG.
Inside == {c \in Conns : req[c].at \notin {"none", "arrived"}}

ServerTypeOK ==
    /\ TypeOK
    /\ running \in BOOLEAN
    /\ lifecycle \in {"idle", "resumed", "gated", "canceled", "pausing", "waiting"}
    /\ run \in 0 .. MaxRuns
    /\ canceled \in BOOLEAN
    /\ gate \in BOOLEAN
    /\ accessVersion \in 0 .. MaxAccess
    /\ accessChange \in BOOLEAN
    /\ revoking \subseteq Identities
    /\ req \in [Conns ->
          [at : {"none", "arrived", "inside", "versioned", "admitted", "authed", "chat", "leaving"},
           run : 0 .. MaxRuns, version : 0 .. MaxAccess, creds : 0 .. MaxAccess,
           cookie : {"live", "revoked"}]]

ServerInit ==
    /\ Init
    /\ running = FALSE
    /\ lifecycle = "idle"
    /\ run = 0
    /\ canceled = TRUE
    /\ gate = TRUE
    /\ accessVersion = 0
    /\ accessChange = FALSE
    /\ revoking = {}
    /\ req = [c \in Conns |-> NoRequest]

-----------------------------------------------------------------------------
(* Start and Stop, each under lifecycleMu.                                 *)

StartResumesChat ==
    /\ lifecycle = "idle"
    /\ ~running
    /\ run < MaxRuns
    /\ Resume
    /\ lifecycle' = "resumed"
    /\ UNCHANGED <<running, run, canceled, gate, accessVars, req>>

StartServes ==
    /\ lifecycle = "resumed"
    /\ run' = run + 1
    /\ canceled' = FALSE
    /\ running' = TRUE
    /\ gate' = TRUE
    /\ lifecycle' = "idle"
    /\ UNCHANGED <<vars, accessVars, req>>

StopClosesGate ==
    /\ lifecycle = "idle"
    /\ gate' = FALSE
    /\ lifecycle' = "gated"
    /\ UNCHANGED <<vars, running, run, canceled, accessVars, req>>

StopCancels ==
    /\ lifecycle = "gated"
    /\ canceled' = TRUE
    /\ lifecycle' = "canceled"
    /\ UNCHANGED <<vars, running, run, gate, accessVars, req>>

StopPauses_WithoutPausing ==
    /\ lifecycle = "canceled"
    /\ pause' = "timedOut"
    /\ lifecycle' = "pausing"
    /\ UNCHANGED <<hubState, peers, peopleVars, slotVars, connVars, doomed>>
    /\ UNCHANGED <<running, run, canceled, gate, accessVars, req>>

StopPauses ==
    /\ lifecycle = "canceled"
    /\ Pause
    /\ lifecycle' = "pausing"
    /\ UNCHANGED <<running, run, canceled, gate, accessVars, req>>

\* The listeners are shut down; a stop of a stopped server returns here.
StopShutsDown ==
    /\ lifecycle = "pausing"
    /\ pause # "waiting"
    /\ lifecycle' = IF running THEN "waiting" ELSE "idle"
    /\ UNCHANGED <<vars, running, run, canceled, gate, accessVars, req>>

StopReturns_WithoutWaiting ==
    /\ lifecycle = "waiting"
    /\ running' = FALSE
    /\ lifecycle' = "idle"
    /\ UNCHANGED <<vars, run, canceled, gate, accessVars, req>>

\* handlerWG.Wait came back.
StopReturns ==
    /\ lifecycle = "waiting"
    /\ Inside = {}
    /\ running' = FALSE
    /\ lifecycle' = "idle"
    /\ UNCHANGED <<vars, run, canceled, gate, accessVars, req>>

-----------------------------------------------------------------------------
(* Credentials.                                                            *)

SetAccess ==
    /\ ~accessChange
    /\ accessVersion < MaxAccess
    /\ accessVersion' = accessVersion + 1
    /\ accessChange' = TRUE
    /\ UNCHANGED <<vars, runVars, revoking, req>>

SetAccessDisconnects ==
    /\ accessChange
    /\ Disconnect
    /\ accessChange' = FALSE
    /\ UNCHANGED <<runVars, accessVersion, revoking, req>>

\* SetAccountPassword (SetAccountStatus, DeleteAccount): every session of the
\* account is dropped, so that every cookie issued so far is refused.
RevokeSessions(i) ==
    /\ i \notin revoking
    /\ revoking' = revoking \cup {i}
    /\ req' = [c \in Conns |->
                 IF IdentityOf[c] = i THEN [req[c] EXCEPT !.cookie = "revoked"] ELSE req[c]]
    /\ UNCHANGED <<vars, runVars, accessVersion, accessChange>>

RevocationDisconnects(i) ==
    /\ i \in revoking
    /\ DisconnectIdentity(i)
    /\ revoking' = revoking \ {i}
    /\ UNCHANGED <<runVars, accessVersion, accessChange, req>>

-----------------------------------------------------------------------------
(* A request.                                                              *)

\* A listener hands the request a goroutine and the context of its run.  The
\* browser holds some web password and some session cookie, perhaps old ones.
Arrive(c) ==
    /\ running
    /\ lifecycle # "waiting"
    /\ req[c].at = "none"
    /\ \E creds \in 0 .. accessVersion, cookie \in {"live", "revoked"} :
          req' = [req EXCEPT ![c] = [at |-> "arrived", run |-> run, version |-> 0,
                                     creds |-> creds, cookie |-> cookie]]
    /\ UNCHANGED <<vars, runVars, accessVars>>

ContextLive_Forgotten(c) == TRUE

ContextLive(c) == req[c].run = run /\ ~canceled

\* beginHTTPHandler
EnterServeHTTP(c) ==
    /\ req[c].at = "arrived"
    /\ IF gate /\ ContextLive(c)
       THEN req' = [req EXCEPT ![c].at = "inside"]
       ELSE req' = [req EXCEPT ![c] = NoRequest]
    /\ UNCHANGED <<vars, runVars, accessVars>>

ReadAccessVersion(c) ==
    /\ req[c].at = "inside"
    /\ req' = [req EXCEPT ![c].at = "versioned", ![c].version = accessVersion]
    /\ UNCHANGED <<vars, runVars, accessVars>>

\* The password is empty, or the browser's is the one in force.
HasAccess(c) == accessVersion \in OpenVersions \/ req[c].creds = accessVersion

\* webAccessRequired reads the password again.
CheckWebAccess(c) ==
    /\ req[c].at = "versioned"
    /\ req' = [req EXCEPT ![c].at = IF HasAccess(c) THEN "admitted" ELSE "leaving"]
    /\ UNCHANGED <<vars, runVars, accessVars>>

\* authenticatedAccount
Authenticate(c) ==
    /\ req[c].at = "admitted"
    /\ req' = [req EXCEPT ![c].at = IF req[c].cookie = "live" THEN "authed" ELSE "leaving"]
    /\ UNCHANGED <<vars, runVars, accessVars>>

AccessUnchanged_Unchecked(c) == TRUE

AccessUnchanged(c) == req[c].version = accessVersion

\* handleChatWebSocket up to its reservation: both under s.mu.RLock.
ReserveChat(c) ==
    /\ req[c].at = "authed"
    /\ AccessUnchanged(c)
    /\ BeginHandler(c)
    /\ req' = [req EXCEPT ![c].at = "chat"]
    /\ UNCHANGED <<runVars, accessVars>>

RefuseChat(c) ==
    /\ req[c].at = "authed"
    /\ \/ ~AccessUnchanged(c)
       \/ ~accepting
       \/ ~enabled
       \/ active >= MaxConnections
    /\ req' = [req EXCEPT ![c].at = "leaving"]
    /\ UNCHANGED <<vars, runVars, accessVars>>

\* ServeHTTP returns and counts itself out of handlerWG.
LeaveServeHTTP(c) ==
    /\ \/ req[c].at = "leaving"
       \/ req[c].at = "chat" /\ phase[c] = "none"
    /\ req' = [req EXCEPT ![c] = NoRequest]
    /\ UNCHANGED <<vars, runVars, accessVars>>

-----------------------------------------------------------------------------
StopSteps ==
    StopCancels \/ StopPauses \/ StopShutsDown \/ StopReturns

\* Steps of ChatHub that are not taken together with a step of the server.
HubStep ==
    /\ \/ \E on \in BOOLEAN : SetEnabled(on)
       \/ PauseReturns
       \/ \E c \in Conns :
             \/ Upgrade(c) \/ RegisterReturns(c) \/ ReadReturns(c)
             \/ Unregister(c) \/ EndHandler(c) \/ Shutdown(c) \/ WritePumpReturns(c)
    /\ UNCHANGED serverVars

RequestProgress(c) ==
    \/ EnterServeHTTP(c) \/ ReadAccessVersion(c) \/ CheckWebAccess(c) \/ Authenticate(c)
    \/ ReserveChat(c) \/ RefuseChat(c) \/ LeaveServeHTTP(c)

ServerNext ==
    \/ StartResumesChat \/ StartServes \/ StopClosesGate \/ StopSteps
    \/ SetAccess \/ SetAccessDisconnects
    \/ \E i \in Identities : RevokeSessions(i) \/ RevocationDisconnects(i)
    \/ \E c \in Conns : Arrive(c) \/ RequestProgress(c)
    \/ HubStep

ServerSpec == ServerInit /\ [][ServerNext]_allVars

(***************************************************************************)
(* The goroutines of ChatHub run, a request inside the server runs, and    *)
(* so do the callers of Start and Stop: nothing they wait for but the      *)
(* handlers is outside the process, and pause has a timer.                 *)
(***************************************************************************)
ServerFairness ==
    /\ \A c \in Conns :
          /\ WF_allVars(HandlerProgress(c) /\ UNCHANGED serverVars)
          /\ WF_allVars(Shutdown(c) /\ UNCHANGED serverVars)
          /\ WF_allVars(CloseProgress(c) /\ UNCHANGED serverVars)
          /\ WF_allVars(RequestProgress(c))
    /\ WF_allVars(PauseReturns /\ UNCHANGED serverVars)
    /\ WF_allVars(StopSteps)

FairServerSpec == ServerSpec /\ ServerFairness

-----------------------------------------------------------------------------
(* Properties.                                                             *)

\* Once Stop has returned no request is inside the server, no slot is held
\* and nobody is online, even when pause gave up waiting: "a stopped Server
\* never leaves unmanaged handlers running behind a newly started listener".
StoppedIsQuiet ==
    ~running /\ lifecycle = "idle" => Inside = {} /\ active = 0 /\ Online = {}

\* Every request inside the server belongs to the run in progress: one that
\* was accepted by the listener of an earlier run does not slip through the
\* gate of the next one (the context check in beginHTTPHandler).
InsideThisRun == \A c \in Inside : running /\ req[c].run = run

\* Whoever is online passed the web password in force; while SetAccess is
\* between its two critical sections the old ones are still being cut off.
OnlineWithCurrentPassword ==
    \A c \in Online : HasAccess(c) \/ accessChange

\* Stop returns, whatever the requests inside are doing (the last disjunct is
\* the model's bound: it has no generation left for the pause).
StopTerminates ==
    lifecycle = "gated" ~> lifecycle = "idle" \/ generation = MaxGeneration

\* After a password reset, a disabling or a deletion has run to its end no
\* connection opened with a revoked session is online ("must also remove
\* access from devices that still hold an old authentication cookie").
OnlineWithLiveSession ==
    \A c \in Online : req[c].cookie = "live" \/ IdentityOf[c] \in revoking
=============================================================================
