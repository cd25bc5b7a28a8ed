------------------------------- MODULE ChatHub -------------------------------
(***************************************************************************)
(* The connection registry of the chat (type chatHub in                    *)
(* src/internal/server/chat.go): who may open a chat connection, who is    *)
(* online, and how connections are replaced, thrown out and drained.       *)
(*                                                                         *)
(* A member of Conns is one WebSocket handler together with its chatPeer:  *)
(* the handler goroutine (reserve a slot, upgrade, register, read,         *)
(* unregister, wait for the socket, release the slot) and the writePump    *)
(* goroutine that owns the socket's closing.  Every action but the socket  *)
(* ones is one critical section of chatHub.mu; what the code does after    *)
(* it unlocks (shutting peers down) is a step of its own.                  *)
(*                                                                         *)
(* Left out: the frames and the history (other modules), the user record   *)
(* beyond "unknown / listed / blacklisted" and its saving, the coalesced   *)
(* GUI notification.                                                       *)
(***************************************************************************)
EXTENDS Integers, FiniteSets

CONSTANTS
    Conns,             \* handlers: WebSocket requests and their peers
    Tabs,              \* connection ids: one per login session and browser tab
    Identities,        \* account ids (chatPeer.ip)
    TabOf,             \* connection id of a handler
    IdentityOf,        \* identity of a handler
    NoConn,            \* an empty place of the registry
    MaxConnections,    \* chatMaxConnections
    MaxConversations,  \* chatMaxConversations
    SavesFail,         \* whether saving a blacklisting may fail
    MaxGeneration      \* bound of the model on the generation counter

ASSUME ConstantsAssumption ==
    /\ IsFiniteSet(Conns)
    /\ IsFiniteSet(Tabs)
    /\ IsFiniteSet(Identities)
    /\ TabOf \in [Conns -> Tabs]
    /\ IdentityOf \in [Conns -> Identities]
    /\ NoConn \notin Conns
    /\ MaxConnections \in Nat \ {0}
    /\ MaxConversations \in Nat \ {0}
    /\ SavesFail \in BOOLEAN
    /\ MaxGeneration \in Nat

\* deriveChatConnectionID hashes the account id into the connection id.
ASSUME TabBelongsToOneIdentity ==
    \A c, d \in Conns : TabOf[c] = TabOf[d] => IdentityOf[c] = IdentityOf[d]

VARIABLES
    enabled,        \* administrator's switch
    groupEnabled,   \* system group mode against one-to-one mode
    accepting,      \* FALSE between pause and resume
    generation,     \* bumped by every change that invalidates handshakes
    peers,          \* the registry: connection id -> registered handler
    users,          \* what the hub knows of an identity
    conversations,  \* identities that have a conversation
    active,         \* reserved handler slots
    idle,           \* whether the idle channel is closed
    pause,          \* progress of the last pause()
    phase,          \* progress of each handler
    gen,            \* the generation its reservation returned
    sock,           \* its socket, as its writePump leaves it
    doomed,         \* peers some goroutine has yet to call shutdown on
    fence           \* history: generation set by the last detaching change

hubState  == <<enabled, groupEnabled, accepting, generation, fence>>
peopleVars == <<users, conversations>>
slotVars  == <<active, idle>>
connVars  == <<phase, gen, sock>>
vars == <<hubState, peers, peopleVars, slotVars, pause, connVars, doomed>>

Phases == {"none", "begun", "upgraded", "refused", "reading", "left", "draining"}

Online       == {c \in Conns : peers[TabOf[c]] = c}
OnlineIds    == {IdentityOf[c] : c \in Online}
Handlers     == {c \in Conns : phase[c] # "none"}
EmptyRegistry == [t \in Tabs |-> NoConn]

TypeOK ==
    /\ enabled \in BOOLEAN
    /\ groupEnabled \in BOOLEAN
    /\ accepting \in BOOLEAN
    /\ generation \in Nat
    /\ fence \in Nat
    /\ peers \in [Tabs -> Conns \cup {NoConn}]
    /\ users \in [Identities -> {"unknown", "listed", "blacklisted"}]
    /\ conversations \subseteq Identities
    /\ active \in Int
    /\ idle \in BOOLEAN
    /\ pause \in {"none", "waiting", "drained", "timedOut"}
    /\ phase \in [Conns -> Phases]
    /\ gen \in [Conns -> Nat]
    /\ sock \in [Conns -> {"none", "open", "closing", "closed"}]
    /\ doomed \subseteq Conns

Init ==
    /\ enabled = FALSE
    /\ groupEnabled = FALSE
    /\ accepting = TRUE
    /\ generation = 0
    /\ fence = 0
    /\ peers = EmptyRegistry
    /\ users = [i \in Identities |-> "unknown"]
    /\ conversations = {}
    /\ active = 0
    /\ idle = TRUE
    /\ pause = "none"
    /\ phase = [c \in Conns |-> "none"]
    /\ gen = [c \in Conns |-> 0]
    /\ sock = [c \in Conns |-> "none"]
    /\ doomed = {}

-----------------------------------------------------------------------------
(* Administration: each of these bumps the generation, so that a handshake *)
(* that started before it can no longer register.                          *)

BumpGeneration ==
    /\ generation < MaxGeneration
    /\ generation' = generation + 1

DetachAll_ForgetsPeers ==
    /\ peers' = EmptyRegistry
    /\ doomed' = doomed
    /\ fence' = generation'

\* detachAllLocked; the caller shuts the detached peers down once it unlocked.
DetachAll ==
    /\ peers' = EmptyRegistry
    /\ doomed' = doomed \cup Online
    /\ fence' = generation'

SetEnabled(on) ==
    /\ enabled # on
    /\ enabled' = on
    /\ BumpGeneration
    /\ IF on THEN UNCHANGED <<peers, doomed, fence>> ELSE DetachAll
    /\ UNCHANGED <<groupEnabled, accepting, peopleVars, slotVars, pause, connVars>>

SetGroupEnabled(on) ==
    /\ groupEnabled # on
    /\ groupEnabled' = on
    /\ BumpGeneration
    /\ DetachAll
    /\ UNCHANGED <<enabled, accepting, peopleVars, slotVars, pause, connVars>>

Disconnect ==
    /\ BumpGeneration
    /\ DetachAll
    /\ UNCHANGED <<enabled, groupEnabled, accepting, peopleVars, slotVars, pause, connVars>>

\* pause and resume are only called under Server.lifecycleMu, so no two
\* overlap.
Pause ==
    /\ pause # "waiting"
    /\ accepting' = FALSE
    /\ BumpGeneration
    /\ DetachAll
    /\ pause' = "waiting"
    /\ UNCHANGED <<enabled, groupEnabled, peopleVars, slotVars, connVars>>

\* pause returns true: the idle channel it read was closed.
PauseDrained ==
    /\ pause = "waiting"
    /\ idle
    /\ pause' = "drained"
    /\ UNCHANGED <<hubState, peers, peopleVars, slotVars, connVars, doomed>>

\* pause returns false: its timer fired first.
PauseTimedOut ==
    /\ pause = "waiting"
    /\ pause' = "timedOut"
    /\ UNCHANGED <<hubState, peers, peopleVars, slotVars, connVars, doomed>>

Resume ==
    /\ pause # "waiting"
    /\ accepting' = TRUE
    /\ BumpGeneration
    /\ pause' = "none"
    /\ UNCHANGED <<enabled, groupEnabled, fence, peers, peopleVars, slotVars, connVars, doomed>>

-----------------------------------------------------------------------------
(* People: throwing one identity out, and what the hub knows of it.        *)

DetachIdentity_OneConnection(i) ==
    /\ \E c \in Conns : peers' = [t \in Tabs |-> IF peers[t] = c /\ IdentityOf[c] = i
                                                THEN NoConn ELSE peers[t]]
    /\ doomed' = doomed

DetachIdentity(i) ==
    LET out == {c \in Online : IdentityOf[c] = i}
    IN  /\ peers' = [t \in Tabs |-> IF peers[t] \in out THEN NoConn ELSE peers[t]]
        /\ doomed' = doomed \cup out

\* disconnectIdentity: the account was disabled, deleted or given a new password.
DisconnectIdentity(i) ==
    /\ DetachIdentity(i)
    /\ UNCHANGED <<hubState, peopleVars, slotVars, pause, connVars>>

SetBlacklisted(i, barred) ==
    /\ users' = [users EXCEPT ![i] = IF barred THEN "blacklisted" ELSE "listed"]
    /\ IF barred THEN DetachIdentity(i) ELSE UNCHANGED <<peers, doomed>>
    /\ UNCHANGED <<hubState, conversations, slotVars, pause, connVars>>

\* The record cannot be saved: SetChatUserBlacklisted returns the error, the
\* connections are out of the registry and nobody shuts them down.
SetBlacklistedNotSaved(i) ==
    /\ SavesFail
    /\ users' = [users EXCEPT ![i] = "blacklisted"]
    /\ peers' = [t \in Tabs |-> IF \E c \in Online : peers[t] = c /\ IdentityOf[c] = i
                                THEN NoConn ELSE peers[t]]
    /\ UNCHANGED <<hubState, conversations, slotVars, pause, connVars, doomed>>

\* ensureUserLocked
Known(i) == [users EXCEPT ![i] = IF @ = "unknown" THEN "listed" ELSE @]

\* ObserveChatAccount: a page visit; it adds a conversation whatever their number.
Observe(i) ==
    /\ users' = Known(i)
    /\ conversations' = conversations \cup {i}
    /\ UNCHANGED <<hubState, peers, slotVars, pause, connVars, doomed>>

RemoveVisitor(i) ==
    /\ i \in conversations \/ users[i] # "unknown"
    /\ users' = [users EXCEPT ![i] = "unknown"]
    /\ conversations' = conversations \ {i}
    /\ UNCHANGED <<hubState, peers, slotVars, pause, connVars, doomed>>

ClearUsers ==
    /\ users' = [i \in Identities |-> IF i \in OnlineIds THEN "listed" ELSE "unknown"]
    /\ UNCHANGED <<hubState, peers, conversations, slotVars, pause, connVars, doomed>>

-----------------------------------------------------------------------------
(* The handler of one connection.                                          *)

BeginHandler_OneTooMany(c) ==
    /\ phase[c] = "none"
    /\ c \notin doomed
    /\ accepting
    /\ enabled
    /\ active <= MaxConnections
    /\ active' = active + 1
    /\ idle' = FALSE
    /\ phase' = [phase EXCEPT ![c] = "begun"]
    /\ gen' = [gen EXCEPT ![c] = generation]
    /\ sock' = [sock EXCEPT ![c] = "none"]
    /\ UNCHANGED <<hubState, peers, peopleVars, pause, doomed>>

BeginHandler(c) ==
    /\ phase[c] = "none"
    /\ c \notin doomed                  \* every request has a peer of its own
    /\ accepting
    /\ enabled
    /\ active < MaxConnections
    /\ active' = active + 1
    /\ idle' = FALSE
    /\ phase' = [phase EXCEPT ![c] = "begun"]
    /\ gen' = [gen EXCEPT ![c] = generation]
    /\ sock' = [sock EXCEPT ![c] = "none"]
    /\ UNCHANGED <<hubState, peers, peopleVars, pause, doomed>>

EndHandler_IdleTooEarly(c) ==
    /\ \/ phase[c] = "begun"
       \/ phase[c] \in {"refused", "draining"} /\ sock[c] = "closed"
    /\ phase' = [phase EXCEPT ![c] = "none"]
    /\ active' = active - 1
    /\ idle' = TRUE
    /\ UNCHANGED <<hubState, peers, peopleVars, pause, gen, sock, doomed>>

\* The deferred endHandler.
EndHandler(c) ==
    /\ \/ phase[c] = "begun"            \* the upgrade failed
       \/ phase[c] \in {"refused", "draining"} /\ sock[c] = "closed"
    /\ phase' = [phase EXCEPT ![c] = "none"]
    /\ active' = active - 1
    /\ idle' = (active' = 0)
    /\ UNCHANGED <<hubState, peers, peopleVars, pause, gen, sock, doomed>>

Upgrade(c) ==
    /\ phase[c] = "begun"
    /\ phase' = [phase EXCEPT ![c] = "upgraded"]
    /\ sock' = [sock EXCEPT ![c] = "open"]
    /\ UNCHANGED <<hubState, peers, peopleVars, slotVars, pause, gen, doomed>>

ConversationsWith_EvictsAnyone(i) ==
    IF i \in conversations THEN {conversations}
    ELSE IF Cardinality(conversations) < MaxConversations
         THEN {conversations \cup {i}}
         ELSE {(conversations \ {o}) \cup {i} : o \in conversations}

\* The ways to make room for the conversation of i: none when every
\* conversation belongs to somebody online (evictOldestOfflineLocked; which
\* of the offline ones is the oldest is not kept).
ConversationsWith(i) ==
    IF i \in conversations THEN {conversations}
    ELSE IF Cardinality(conversations) < MaxConversations
         THEN {conversations \cup {i}}
         ELSE {(conversations \ {o}) \cup {i} : o \in conversations \ OnlineIds}

Current_AnyGeneration(c) == enabled /\ accepting

Current(c) == enabled /\ accepting /\ gen[c] = generation

\* A new connection id needs a place in the registry, a reconnecting one has it.
PlaceFor(c) ==
    peers[TabOf[c]] # NoConn \/ Cardinality({t \in Tabs : peers[t] # NoConn}) < MaxConnections

\* register returns false; the handler shuts its own peer down.
Refuse(c) ==
    /\ phase' = [phase EXCEPT ![c] = "refused"]
    /\ doomed' = doomed \cup {c}
    /\ UNCHANGED <<hubState, peers, slotVars, pause, gen, sock>>

RegisterStale(c) ==
    /\ phase[c] = "upgraded"
    /\ ~Current(c)
    /\ Refuse(c)
    /\ UNCHANGED peopleVars

RegisterBarred(c) ==
    /\ phase[c] = "upgraded"
    /\ Current(c)
    /\ users[IdentityOf[c]] = "blacklisted"
    /\ Refuse(c)
    /\ UNCHANGED peopleVars

RegisterFull(c) ==
    /\ phase[c] = "upgraded"
    /\ Current(c)
    /\ users[IdentityOf[c]] # "blacklisted"
    /\ ~(PlaceFor(c) /\ ConversationsWith(IdentityOf[c]) # {})
    /\ users' = Known(IdentityOf[c])
    /\ Refuse(c)
    /\ UNCHANGED conversations

MayRegister(c) ==
    /\ phase[c] = "upgraded"
    /\ Current(c)
    /\ users[IdentityOf[c]] # "blacklisted"
    /\ PlaceFor(c)
    /\ users' = Known(IdentityOf[c])
    /\ conversations' \in ConversationsWith(IdentityOf[c])

\* The ready frame cannot be queued, the peer is already closed: the registry
\* gets its old entry back.
RegisterRolledBack(c) ==
    /\ MayRegister(c)
    /\ sock[c] = "closed"
    /\ Refuse(c)

Register_ShutsDownNobody(c) ==
    /\ MayRegister(c)
    /\ sock[c] # "closed"
    /\ peers' = [peers EXCEPT ![TabOf[c]] = c]
    /\ doomed' = doomed \cup {peers[TabOf[c]]}
    /\ phase' = [phase EXCEPT ![c] = "reading"]
    /\ UNCHANGED <<hubState, slotVars, pause, gen, sock>>

Register(c) ==
    /\ MayRegister(c)
    /\ sock[c] # "closed"
    /\ peers' = [peers EXCEPT ![TabOf[c]] = c]
    /\ doomed' = doomed \cup ({peers[TabOf[c]]} \ {NoConn})   \* session replaced
    /\ phase' = [phase EXCEPT ![c] = "reading"]
    /\ UNCHANGED <<hubState, slotVars, pause, gen, sock>>

\* readPump returns: the browser left, or the socket was closed under it.
ReadReturns(c) ==
    /\ phase[c] = "reading"
    /\ phase' = [phase EXCEPT ![c] = "left"]
    /\ UNCHANGED <<hubState, peers, peopleVars, slotVars, pause, gen, sock, doomed>>

Unregister_WhoeverIsThere(c) ==
    /\ phase[c] = "left"
    /\ peers' = [peers EXCEPT ![TabOf[c]] = NoConn]
    /\ phase' = [phase EXCEPT ![c] = "draining"]
    /\ doomed' = doomed \cup {c}
    /\ UNCHANGED <<hubState, peopleVars, slotVars, pause, gen, sock>>

Unregister_KeepsEntry(c) ==
    /\ phase[c] = "left"
    /\ phase' = [phase EXCEPT ![c] = "draining"]
    /\ doomed' = doomed \cup {c}
    /\ UNCHANGED <<hubState, peers, peopleVars, slotVars, pause, gen, sock>>

\* unregister, then the handler shuts its own peer down.
Unregister(c) ==
    /\ phase[c] = "left"
    /\ peers' = IF peers[TabOf[c]] = c THEN [peers EXCEPT ![TabOf[c]] = NoConn] ELSE peers
    /\ phase' = [phase EXCEPT ![c] = "draining"]
    /\ doomed' = doomed \cup {c}
    /\ UNCHANGED <<hubState, peopleVars, slotVars, pause, gen, sock>>

-----------------------------------------------------------------------------
(* The peer's socket.                                                      *)

\* A broadcast finds the queue of c full: c is shut down, not unregistered.
BroadcastFindsSlow(c) ==
    /\ c \in Online
    /\ doomed' = doomed \cup {c}
    /\ UNCHANGED <<hubState, peers, peopleVars, slotVars, pause, connVars>>

\* chatPeer.shutdown, once per peer.
Shutdown(c) ==
    /\ c \in doomed
    /\ doomed' = doomed \ {c}
    /\ sock' = [sock EXCEPT ![c] = IF @ = "open" THEN "closing" ELSE @]
    /\ UNCHANGED <<hubState, peers, peopleVars, slotVars, pause, phase, gen>>

\* writePump returns: it sent the requested close frame, or a write failed.
WritePumpReturns(c) ==
    /\ sock[c] \in {"open", "closing"}
    /\ sock' = [sock EXCEPT ![c] = "closed"]
    /\ UNCHANGED <<hubState, peers, peopleVars, slotVars, pause, phase, gen, doomed>>

-----------------------------------------------------------------------------
Administration ==
    \/ \E on \in BOOLEAN : SetEnabled(on) \/ SetGroupEnabled(on)
    \/ Disconnect
    \/ \E i \in Identities : \/ DisconnectIdentity(i)
                             \/ \E barred \in BOOLEAN : SetBlacklisted(i, barred)
                             \/ SetBlacklistedNotSaved(i)
                             \/ Observe(i)
                             \/ RemoveVisitor(i)
    \/ ClearUsers

PauseReturns == PauseDrained \/ PauseTimedOut

Lifecycle == Pause \/ PauseReturns \/ Resume

RegisterReturns(c) ==
    RegisterStale(c) \/ RegisterBarred(c) \/ RegisterFull(c)
        \/ RegisterRolledBack(c) \/ Register(c)

Handler(c) ==
    \/ BeginHandler(c)
    \/ Upgrade(c)
    \/ RegisterReturns(c)
    \/ ReadReturns(c)
    \/ Unregister(c)
    \/ EndHandler(c)

Socket(c) == BroadcastFindsSlow(c) \/ Shutdown(c) \/ WritePumpReturns(c)

Next ==
    \/ Administration
    \/ Lifecycle
    \/ \E c \in Conns : Handler(c) \/ Socket(c)

Spec == Init /\ [][Next]_vars

(***************************************************************************)
(* Goroutines that can run do run: a handler past its reservation, the     *)
(* goroutine that has peers to shut down, a writePump that was asked to    *)
(* close (its writes have a deadline), a readPump whose connection was     *)
(* closed under it, and the caller of pause.  Nothing makes a browser      *)
(* leave or an administrator act.                                          *)
(***************************************************************************)
HandlerProgress(c) ==
    \/ Upgrade(c)
    \/ RegisterReturns(c)
    \/ sock[c] = "closed" /\ ReadReturns(c)
    \/ Unregister(c)
    \/ EndHandler(c)

CloseProgress(c) == sock[c] = "closing" /\ WritePumpReturns(c)

Fairness ==
    /\ \A c \in Conns : /\ WF_vars(HandlerProgress(c))
                        /\ WF_vars(Shutdown(c))
                        /\ WF_vars(CloseProgress(c))
    /\ WF_vars(PauseReturns)

FairSpec == Spec /\ Fairness

-----------------------------------------------------------------------------
(* Properties.                                                             *)

\* Nobody is online while chat is switched off or the server is stopping,
\* whatever handshakes were in flight when it was switched off (setEnabled,
\* pause and register).
OnlineOnlyWhileOpen == Online # {} => enabled /\ accepting

\* A handshake that reserved its slot before a disable, a mode switch, a
\* disconnect or a pause never comes online after it: the generation check
\* of register.
OnlineSinceFence == \A c \in Online : gen[c] >= fence

\* A blacklisted identity has no registered connection on any device.
NoneBlacklistedOnline == \A c \in Online : users[IdentityOf[c]] # "blacklisted"

\* Every entry of the registry is a handler that still runs its readPump or
\* is about to unregister: no connection stays online after its handler ended.
NoGhost == \A t \in Tabs : peers[t] # NoConn =>
              TabOf[peers[t]] = t /\ phase[peers[t]] \in {"reading", "left"}

\* A connection that reads frames and that nobody is closing is the
\* registered one of its tab: the end of a replaced connection never takes
\* its successor out of the registry (the identity test in unregister).  Only
\* a blacklisting that could not be saved leaves connections like that behind.
NoLostPeer == ~SavesFail => \A c \in Conns :
                 phase[c] = "reading" /\ sock[c] = "open" /\ c \notin doomed => c \in Online

\* The counter of reserved slots counts the handlers, it respects the limit,
\* and the idle channel is closed exactly when it is zero (beginHandler,
\* endHandler).
SlotsExact ==
    /\ active = Cardinality(Handlers)
    /\ active <= MaxConnections
    /\ idle <=> active = 0

\* A handler that holds a slot always finds a place in the registry: the
\* limit in beginHandler is never contradicted by the one in register.
ReservedHasPlace == \A c \in Conns : phase[c] = "upgraded" => PlaceFor(c)

\* When pause reports success no handler is left and nobody is online,
\* until resume.
DrainedIsQuiet == pause = "drained" => active = 0 /\ Online = {}

\* Making room for a conversation never takes the one of somebody online;
\* only the administrator's removal does.
EvictionSparesOnline ==
    [][\A i \in conversations \ conversations' : i \in OnlineIds => RemoveVisitor(i)]_vars

\* Once the server stops accepting, every slot is given back, unless it is
\* resumed: pause can always succeed given time.
StoppedDrains == ~accepting ~> active = 0 \/ accepting

-----------------------------------------------------------------------------
(* The registry implements ChatSessions: admitted are the handshakes of    *)
(* the current generation that have not registered yet.                    *)

Sessions == INSTANCE ChatSessions WITH
    open     <- enabled /\ accepting,
    admitted <- {c \in Conns : phase[c] \in {"begun", "upgraded"} /\ gen[c] = generation},
    online   <- peers

\* Every step of the registry is a step of ChatSessions or changes nothing
\* it can see: admission, coming online, going offline, boundary.
ImplementsSessions == Sessions!Spec
=============================================================================
