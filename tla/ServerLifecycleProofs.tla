------------------------- MODULE ServerLifecycleProofs -------------------------
(***************************************************************************)
(* Proofs about the registry, ChatHub, for every number of handlers, tabs  *)
(* and identities; and about ServerLifecycle on top of them: every step of *)
(* the server is a step of ChatHub or leaves it alone.                     *)
(***************************************************************************)
EXTENDS ServerLifecycle, FiniteSetTheorems, TLAPS

-----------------------------------------------------------------------------
(* The registry. *)

\* No handshake and no fence is ahead of the generation counter.
GenerationBound ==
    /\ fence <= generation
    /\ \A c \in Conns : gen[c] <= generation

\* The inductive invariant: each conjunct is a property of ChatHub, except the
\* bound above, which makes a current handshake one that follows the fence.
RegistryInv ==
    /\ TypeOK
    /\ GenerationBound
    /\ OnlineOnlyWhileOpen
    /\ OnlineSinceFence
    /\ NoneBlacklistedOnline
    /\ NoGhost
    /\ NoLostPeer

LEMMA InitRegistry == Init => RegistryInv
  <1> USE ConstantsAssumption
  <1> SUFFICES ASSUME Init PROVE RegistryInv
      OBVIOUS
  <1>1. TypeOK
    <2>1. enabled \in BOOLEAN /\ groupEnabled \in BOOLEAN /\ accepting \in BOOLEAN /\ idle \in BOOLEAN
        BY DEF Init
    <2>2. peers \in [Tabs -> Conns \cup {NoConn}] /\ doomed \subseteq Conns
        BY DEF Init, EmptyRegistry
    <2>3. /\ users \in [Identities -> {"unknown", "listed", "blacklisted"}]
          /\ sock \in [Conns -> {"none", "open", "closing", "closed"}]
          /\ conversations \subseteq Identities
        BY DEF Init
    <2>4. phase \in [Conns -> Phases] /\ gen \in [Conns -> Nat]
        BY DEF Init, Phases
    <2>5. /\ generation \in Nat /\ fence \in Nat /\ active \in Int
          /\ pause \in {"none", "waiting", "drained", "timedOut"}
        BY DEF Init
    <2> QED
        BY <2>1, <2>2, <2>3, <2>4, <2>5 DEF TypeOK
  <1>2. Online = {}
      BY DEF Init, Online, EmptyRegistry
  <1> QED
      BY <1>1, <1>2 DEF Init, RegistryInv, GenerationBound, OnlineOnlyWhileOpen,
         OnlineSinceFence, NoneBlacklistedOnline, NoGhost, NoLostPeer, EmptyRegistry

LEMMA TypeStep == TypeOK /\ [Next]_vars => TypeOK'
  <1> USE ConstantsAssumption
  <1> SUFFICES ASSUME TypeOK, [Next]_vars PROVE TypeOK'
      OBVIOUS
  <1> USE DEF TypeOK, vars, hubState, peopleVars, slotVars, connVars
  <1>1. ASSUME NEW on \in BOOLEAN, SetEnabled(on) PROVE TypeOK'
      BY <1>1 DEF SetEnabled, BumpGeneration, DetachAll, EmptyRegistry, Online
  <1>2. ASSUME NEW on \in BOOLEAN, SetGroupEnabled(on) PROVE TypeOK'
      BY <1>2 DEF SetGroupEnabled, BumpGeneration, DetachAll, EmptyRegistry, Online
  <1>3. CASE Disconnect
      BY <1>3 DEF Disconnect, BumpGeneration, DetachAll, EmptyRegistry, Online
  <1>4. ASSUME NEW i \in Identities, DisconnectIdentity(i) PROVE TypeOK'
      BY <1>4 DEF DisconnectIdentity, DetachIdentity, Online
  <1>5. ASSUME NEW i \in Identities, NEW barred \in BOOLEAN, SetBlacklisted(i, barred)
        PROVE TypeOK'
      BY <1>5 DEF SetBlacklisted, DetachIdentity, Online
  <1>5a. ASSUME NEW i \in Identities, SetBlacklistedNotSaved(i) PROVE TypeOK'
      BY <1>5a DEF SetBlacklistedNotSaved, Online
  <1>6. ASSUME NEW i \in Identities, Observe(i) PROVE TypeOK'
      BY <1>6 DEF Observe, Known
  <1>7. ASSUME NEW i \in Identities, RemoveVisitor(i) PROVE TypeOK'
      BY <1>7 DEF RemoveVisitor
  <1>8. CASE ClearUsers
      BY <1>8 DEF ClearUsers
  <1>9. CASE Lifecycle
    <2>1. CASE Pause
      <3>1. accepting' \in BOOLEAN
          BY <2>1 DEF Pause
      <3>2. /\ generation' \in Nat /\ fence' \in Nat
            /\ pause' \in {"none", "waiting", "drained", "timedOut"}
          BY <2>1 DEF Pause, BumpGeneration, DetachAll
      <3>3. peers' \in [Tabs -> Conns \cup {NoConn}] /\ doomed' \subseteq Conns
          BY <2>1 DEF Pause, DetachAll, EmptyRegistry, Online
      <3> QED
          BY <2>1, <3>1, <3>2, <3>3 DEF Pause
    <2>2. CASE PauseReturns
        BY <2>2 DEF PauseReturns, PauseDrained, PauseTimedOut
    <2>3. CASE Resume
        BY <2>3 DEF Resume, BumpGeneration
    <2> QED
        BY <1>9, <2>1, <2>2, <2>3 DEF Lifecycle
  <1>10. ASSUME NEW c \in Conns, Handler(c) PROVE TypeOK'
    <2>1. CASE BeginHandler(c)
      <3>1. idle' \in BOOLEAN
          BY <2>1 DEF BeginHandler
      <3>2. phase' \in [Conns -> Phases] /\ gen' \in [Conns -> Nat]
          BY <2>1 DEF BeginHandler, Phases
      <3>3. sock' \in [Conns -> {"none", "open", "closing", "closed"}] /\ active' \in Int
          BY <2>1 DEF BeginHandler
      <3> QED
          BY <2>1, <3>1, <3>2, <3>3 DEF BeginHandler
    <2>2. CASE Upgrade(c)
        BY <2>2 DEF Upgrade, Phases
    <2>3. CASE RegisterStale(c) \/ RegisterBarred(c)
        BY <2>3 DEF RegisterStale, RegisterBarred, Refuse, Phases
    <2>4. CASE RegisterFull(c)
        BY <2>4 DEF RegisterFull, Refuse, Known, Phases
    <2>5. ASSUME MayRegister(c) PROVE conversations' \subseteq Identities /\ users' \in [Identities -> {"unknown", "listed", "blacklisted"}]
        BY <2>5 DEF MayRegister, Known, ConversationsWith
    <2>6. CASE RegisterRolledBack(c)
        BY <2>5, <2>6 DEF RegisterRolledBack, Refuse, Phases
    <2>7. CASE Register(c)
        BY <2>5, <2>7 DEF Register, Phases
    <2>8. CASE ReadReturns(c)
        BY <2>8 DEF ReadReturns, Phases
    <2>9. CASE Unregister(c)
        BY <2>9 DEF Unregister, Phases
    <2>10. CASE EndHandler(c)
        BY <2>10 DEF EndHandler, Phases
    <2> QED
        BY <1>10, <2>1, <2>2, <2>3, <2>4, <2>6, <2>7, <2>8, <2>9, <2>10
        DEF Handler, RegisterReturns
  <1>11. ASSUME NEW c \in Conns, Socket(c) PROVE TypeOK'
      BY <1>11 DEF Socket, BroadcastFindsSlow, Shutdown, WritePumpReturns, Online
  <1>12. CASE UNCHANGED vars
      BY <1>12
  <1> QED
      BY <1>1, <1>2, <1>3, <1>4, <1>5, <1>5a, <1>6, <1>7, <1>8, <1>9, <1>10, <1>11,
         <1>12
      DEF Next, Administration

-----------------------------------------------------------------------------
(* The steps that empty the registry: everything follows from that.        *)

LEMMA DetachAllStep ==
  ASSUME RegistryInv, TypeOK', BumpGeneration, DetachAll,
         UNCHANGED <<users, conversations, phase, gen, sock>>
  PROVE  RegistryInv'
  <1> USE ConstantsAssumption DEF RegistryInv
  <1>1. Online' = {}
      BY DEF Online, DetachAll, EmptyRegistry, ConstantsAssumption
  <1>2. GenerationBound'
      BY DEF GenerationBound, BumpGeneration, DetachAll, TypeOK
  <1>3. OnlineOnlyWhileOpen' /\ OnlineSinceFence' /\ NoneBlacklistedOnline'
      BY <1>1 DEF OnlineOnlyWhileOpen, OnlineSinceFence, NoneBlacklistedOnline
  <1>4. NoGhost'
      BY DEF NoGhost, DetachAll, EmptyRegistry
  <1>5. NoLostPeer'
      BY DEF NoLostPeer, DetachAll
  <1> QED
      BY <1>2, <1>3, <1>4, <1>5

\* Taking connections of one identity out, and shutting them down.
LEMMA DetachIdentityStep ==
  ASSUME RegistryInv, NEW i \in Identities, DetachIdentity(i),
         UNCHANGED <<hubState, phase, gen, sock>>
  PROVE  /\ Online' = {c \in Online : IdentityOf[c] # i}
         /\ NoGhost'
         /\ NoLostPeer'
  <1> USE ConstantsAssumption DEF RegistryInv, TypeOK, ConstantsAssumption
  <1>1. Online' = {c \in Online : IdentityOf[c] # i}
      BY TabBelongsToOneIdentity DEF DetachIdentity, Online, NoGhost
  <1>2. NoGhost'
      BY DEF DetachIdentity, NoGhost
  <1>3. NoLostPeer'
      BY <1>1 DEF DetachIdentity, NoLostPeer
  <1> QED
      BY <1>1, <1>2, <1>3

\* Steps that leave the registry and the handlers as they are.
LEMMA RegistryKept ==
  ASSUME RegistryInv, TypeOK',
         UNCHANGED <<enabled, accepting, generation, fence, peers, phase, gen>>,
         \A c \in Online : users'[IdentityOf[c]] # "blacklisted",
         \A c \in Conns : c \in doomed \/ sock[c] # "open" => c \in doomed' \/ sock'[c] # "open"
  PROVE  RegistryInv'
  <1> USE DEF RegistryInv
  <1>1. GenerationBound' /\ OnlineSinceFence' /\ NoGhost'
      BY DEF GenerationBound, OnlineSinceFence, NoGhost, Online
  <1>2. OnlineOnlyWhileOpen'
      BY DEF OnlineOnlyWhileOpen, Online
  <1>3. NoneBlacklistedOnline'
      BY DEF NoneBlacklistedOnline, Online
  <1>4. NoLostPeer'
      BY DEF NoLostPeer, Online
  <1> QED
      BY <1>1, <1>2, <1>3, <1>4

\* Steps of a handler outside the registry: its phase changes between two
\* phases that have no place in it.
LEMMA OutsideRegistry ==
  ASSUME RegistryInv, TypeOK', NEW c \in Conns, NEW p,
         phase' = [phase EXCEPT ![c] = p],
         phase[c] \notin {"reading", "left"},
         p # "reading",
         \A d \in Conns \ {c} : gen'[d] = gen[d],
         gen'[c] <= generation,
         \A d \in Conns \ {c} : sock'[d] = sock[d],
         UNCHANGED <<enabled, accepting, generation, fence, peers>>,
         \A d \in Online : users'[IdentityOf[d]] # "blacklisted",
         doomed \subseteq doomed'
  PROVE  RegistryInv'
  <1> USE ConstantsAssumption DEF RegistryInv, TypeOK, ConstantsAssumption
  <1>1. Online' = Online /\ c \notin Online
    <2>1. TabOf[c] \in Tabs
        OBVIOUS
    <2>2. peers[TabOf[c]] # c
        BY <2>1 DEF NoGhost
    <2> QED
        BY <2>2 DEF Online
  <1>2. GenerationBound'
      BY DEF GenerationBound
  <1>3. OnlineSinceFence'
      BY <1>1 DEF OnlineSinceFence, Online
  <1>4. OnlineOnlyWhileOpen'
      BY <1>1 DEF OnlineOnlyWhileOpen
  <1>5. NoneBlacklistedOnline'
      BY <1>1 DEF NoneBlacklistedOnline
  <1>6. NoGhost'
      BY DEF NoGhost
  <1>7. NoLostPeer'
      BY <1>1 DEF NoLostPeer
  <1> QED
      BY <1>2, <1>3, <1>4, <1>5, <1>6, <1>7

LEMMA RegistryStep == RegistryInv /\ [Next]_vars => RegistryInv'
  <1> SUFFICES ASSUME RegistryInv, [Next]_vars PROVE RegistryInv'
      OBVIOUS
  <1> USE ConstantsAssumption DEF hubState, peopleVars, slotVars, connVars
  <1>0. TypeOK /\ TypeOK'
      BY TypeStep DEF RegistryInv
  <1>1. ASSUME NEW on \in BOOLEAN, SetEnabled(on) PROVE RegistryInv'
    <2>1. CASE ~on
        BY <1>0, <1>1, <2>1, DetachAllStep DEF SetEnabled
    <2>2. CASE on
      <3>1. Online = {} /\ Online' = {}
          BY <1>1, <2>2 DEF SetEnabled, RegistryInv, OnlineOnlyWhileOpen, Online
      <3>2. GenerationBound'
          BY <1>0, <1>1, <2>2 DEF SetEnabled, BumpGeneration, RegistryInv, GenerationBound, TypeOK
      <3>3. OnlineOnlyWhileOpen' /\ OnlineSinceFence' /\ NoneBlacklistedOnline'
          BY <3>1 DEF OnlineOnlyWhileOpen, OnlineSinceFence, NoneBlacklistedOnline
      <3>4. NoGhost' /\ NoLostPeer'
          BY <1>1, <2>2, <3>1 DEF SetEnabled, RegistryInv, NoGhost, NoLostPeer
      <3> QED
          BY <1>0, <3>2, <3>3, <3>4 DEF RegistryInv
    <2> QED
        BY <1>1, <2>1, <2>2
  <1>2. ASSUME NEW on \in BOOLEAN, SetGroupEnabled(on) PROVE RegistryInv'
      BY <1>0, <1>2, DetachAllStep DEF SetGroupEnabled
  <1>3. CASE Disconnect
      BY <1>0, <1>3, DetachAllStep DEF Disconnect
  <1>4. ASSUME NEW i \in Identities, DisconnectIdentity(i) PROVE RegistryInv'
    <2>1. /\ Online' = {c \in Online : IdentityOf[c] # i}
          /\ NoGhost' /\ NoLostPeer'
        BY <1>4, DetachIdentityStep DEF DisconnectIdentity
    <2> QED
        BY <1>0, <1>4, <2>1 DEF DisconnectIdentity, RegistryInv, GenerationBound,
           OnlineOnlyWhileOpen, OnlineSinceFence, NoneBlacklistedOnline
  <1>5. ASSUME NEW i \in Identities, NEW barred \in BOOLEAN, SetBlacklisted(i, barred)
        PROVE RegistryInv'
    <2>1. CASE barred
      <3>1. /\ Online' = {c \in Online : IdentityOf[c] # i}
            /\ NoGhost' /\ NoLostPeer'
          BY <1>5, <2>1, DetachIdentityStep DEF SetBlacklisted
      <3>2. NoneBlacklistedOnline'
          BY <1>0, <1>5, <3>1 DEF SetBlacklisted, RegistryInv, NoneBlacklistedOnline, TypeOK
      <3> QED
          BY <1>0, <1>5, <3>1, <3>2 DEF SetBlacklisted, RegistryInv, GenerationBound,
             OnlineOnlyWhileOpen, OnlineSinceFence
    <2>2. CASE ~barred
      <3>1. \A c \in Online : users'[IdentityOf[c]] # "blacklisted"
          BY <1>0, <1>5, <2>2 DEF SetBlacklisted, RegistryInv, NoneBlacklistedOnline, TypeOK,
             Online, ConstantsAssumption
      <3> QED
          BY <1>0, <1>5, <2>2, <3>1, RegistryKept DEF SetBlacklisted
    <2> QED
        BY <1>5, <2>1, <2>2
  <1>5a. ASSUME NEW i \in Identities, SetBlacklistedNotSaved(i) PROVE RegistryInv'
    <2>1. Online' = {c \in Online : IdentityOf[c] # i}
        BY <1>0, <1>5a, TabBelongsToOneIdentity DEF SetBlacklistedNotSaved, Online, TypeOK,
           ConstantsAssumption
    <2>2. NoGhost'
        BY <1>0, <1>5a DEF SetBlacklistedNotSaved, RegistryInv, NoGhost, TypeOK
    <2>3. NoneBlacklistedOnline'
        BY <1>0, <1>5a, <2>1 DEF SetBlacklistedNotSaved, RegistryInv, NoneBlacklistedOnline, TypeOK
    <2>4. NoLostPeer'
        BY <1>5a DEF SetBlacklistedNotSaved, NoLostPeer
    <2> QED
        BY <1>0, <1>5a, <2>1, <2>2, <2>3, <2>4 DEF SetBlacklistedNotSaved, RegistryInv,
           GenerationBound, OnlineOnlyWhileOpen, OnlineSinceFence
  <1>6. CASE ClearUsers \/ \E i \in Identities : Observe(i) \/ RemoveVisitor(i)
    <2>1. \A c \in Online : users'[IdentityOf[c]] # "blacklisted"
        BY <1>0, <1>6 DEF Observe, RemoveVisitor, ClearUsers, Known, RegistryInv,
           NoneBlacklistedOnline, TypeOK, Online, ConstantsAssumption
    <2> QED
        BY <1>0, <1>6, <2>1, RegistryKept DEF Observe, RemoveVisitor, ClearUsers
  <1>7. CASE Lifecycle
    <2>1. CASE Pause
        BY <1>0, <2>1, DetachAllStep DEF Pause
    <2>2. CASE PauseReturns
      <3>1. \A c \in Online : users'[IdentityOf[c]] # "blacklisted"
          BY <2>2 DEF PauseReturns, PauseDrained, PauseTimedOut, RegistryInv,
             NoneBlacklistedOnline
      <3> QED
          BY <1>0, <2>2, <3>1, RegistryKept DEF PauseReturns, PauseDrained, PauseTimedOut
    <2>3. CASE Resume
      <3>1. GenerationBound'
          BY <1>0, <2>3 DEF Resume, BumpGeneration, RegistryInv, GenerationBound, TypeOK
      <3>2. OnlineOnlyWhileOpen'
          BY <2>3 DEF Resume, RegistryInv, OnlineOnlyWhileOpen, Online
      <3>3. OnlineSinceFence' /\ NoneBlacklistedOnline' /\ NoGhost' /\ NoLostPeer'
          BY <2>3 DEF Resume, RegistryInv, OnlineSinceFence, NoneBlacklistedOnline,
             NoGhost, NoLostPeer, Online
      <3> QED
          BY <1>0, <3>1, <3>2, <3>3 DEF RegistryInv
    <2> QED
        BY <1>7, <2>1, <2>2, <2>3 DEF Lifecycle
  <1>8. ASSUME NEW c \in Conns, Handler(c) PROVE RegistryInv'
    <2> USE DEF Phases
    <2>0. \A d \in Online : users[IdentityOf[d]] # "blacklisted"
        BY DEF RegistryInv, NoneBlacklistedOnline
    <2>1. CASE BeginHandler(c)
      <3>1. /\ phase[c] = "none" /\ phase' = [phase EXCEPT ![c] = "begun"]
            /\ gen' = [gen EXCEPT ![c] = generation] /\ sock' = [sock EXCEPT ![c] = "none"]
            /\ UNCHANGED <<enabled, accepting, generation, fence, peers, users, doomed>>
          BY <2>1 DEF BeginHandler
      <3>2. gen'[c] <= generation /\ \A d \in Conns \ {c} : gen'[d] = gen[d] /\ sock'[d] = sock[d]
          BY <1>0, <3>1 DEF TypeOK
      <3> QED
          BY <1>0, <2>0, <3>1, <3>2, OutsideRegistry
    <2>2. CASE Upgrade(c)
        BY <1>0, <2>0, <2>2, OutsideRegistry DEF Upgrade, TypeOK, RegistryInv, GenerationBound
    <2>3. CASE RegisterStale(c) \/ RegisterBarred(c) \/ RegisterFull(c) \/ RegisterRolledBack(c)
      <3>1. \A d \in Online : users'[IdentityOf[d]] # "blacklisted"
          BY <1>0, <2>0, <2>3 DEF RegisterStale, RegisterBarred, RegisterFull, RegisterRolledBack,
             MayRegister, Known, TypeOK, Online, ConstantsAssumption
      <3>2. phase[c] = "upgraded" /\ Refuse(c)
          BY <2>3 DEF RegisterStale, RegisterBarred, RegisterFull, RegisterRolledBack, MayRegister
      <3> QED
          BY <1>0, <3>1, <3>2, OutsideRegistry DEF Refuse, TypeOK, RegistryInv, GenerationBound
    <2>4. CASE Register(c)
      <3> DEFINE t == TabOf[c]
      <3> USE DEF ConstantsAssumption
      <3>1. /\ t \in Tabs /\ c # NoConn
            /\ phase[c] = "upgraded" /\ phase' = [phase EXCEPT ![c] = "reading"]
            /\ peers' = [peers EXCEPT ![t] = c]
            /\ doomed' = doomed \cup ({peers[t]} \ {NoConn})
            /\ UNCHANGED <<enabled, accepting, generation, fence, gen, sock>>
          BY <2>4 DEF Register, MayRegister
      <3>2. gen[c] = generation /\ enabled /\ accepting /\ users[IdentityOf[c]] # "blacklisted"
          BY <2>4 DEF Register, MayRegister, Current
      <3>3. Online' = {c} \cup {d \in Online : TabOf[d] # t}
          BY <1>0, <3>1 DEF Online, TypeOK
      <3>4. GenerationBound'
          BY <3>1 DEF RegistryInv, GenerationBound
      <3>5. OnlineOnlyWhileOpen'
          BY <3>1, <3>2 DEF OnlineOnlyWhileOpen
      <3>6. OnlineSinceFence'
          BY <1>0, <3>1, <3>2, <3>3 DEF RegistryInv, OnlineSinceFence, GenerationBound
      <3>7. NoneBlacklistedOnline'
          BY <1>0, <2>0, <2>4, <3>2, <3>3 DEF Register, MayRegister, Known, TypeOK,
             NoneBlacklistedOnline, Online
      <3>8. NoGhost'
          BY <1>0, <3>1 DEF RegistryInv, NoGhost, TypeOK
      <3>9. NoLostPeer'
          BY <1>0, <3>1, <3>3 DEF RegistryInv, NoLostPeer, TypeOK, Online
      <3> QED
          BY <1>0, <3>4, <3>5, <3>6, <3>7, <3>8, <3>9 DEF RegistryInv
    <2>5. CASE ReadReturns(c)
      <3>1. Online' = Online
          BY <2>5 DEF ReadReturns, Online
      <3>2. NoGhost' /\ NoLostPeer'
          BY <1>0, <2>5, <3>1 DEF ReadReturns, RegistryInv, NoGhost, NoLostPeer, TypeOK
      <3> QED
          BY <1>0, <2>5, <3>1, <3>2 DEF ReadReturns, RegistryInv, GenerationBound,
             OnlineOnlyWhileOpen, OnlineSinceFence, NoneBlacklistedOnline
    <2>6. CASE Unregister(c)
      <3> USE DEF ConstantsAssumption
      <3>1. Online' = Online \ {c}
          BY <1>0, <2>6 DEF Unregister, Online, TypeOK
      <3>2. NoGhost'
          BY <1>0, <2>6 DEF Unregister, RegistryInv, NoGhost, TypeOK
      <3>3. NoLostPeer'
          BY <1>0, <2>6, <3>1 DEF Unregister, RegistryInv, NoLostPeer, TypeOK
      <3> QED
          BY <1>0, <2>6, <3>1, <3>2, <3>3 DEF Unregister, RegistryInv, GenerationBound,
             OnlineOnlyWhileOpen, OnlineSinceFence, NoneBlacklistedOnline
    <2>7. CASE EndHandler(c)
        BY <1>0, <2>0, <2>7, OutsideRegistry DEF EndHandler, TypeOK, RegistryInv, GenerationBound
    <2> QED
        BY <1>8, <2>1, <2>2, <2>3, <2>4, <2>5, <2>6, <2>7 DEF Handler, RegisterReturns
  <1>9. ASSUME NEW c \in Conns, Socket(c) PROVE RegistryInv'
    <2>1. \A d \in Online : users'[IdentityOf[d]] # "blacklisted"
        BY <1>9 DEF Socket, BroadcastFindsSlow, Shutdown, WritePumpReturns, RegistryInv,
           NoneBlacklistedOnline
    <2>2. \A d \in Conns : d \in doomed \/ sock[d] # "open" => d \in doomed' \/ sock'[d] # "open"
        BY <1>0, <1>9 DEF Socket, BroadcastFindsSlow, Shutdown, WritePumpReturns, TypeOK
    <2> QED
        BY <1>0, <1>9, <2>1, <2>2, RegistryKept
        DEF Socket, BroadcastFindsSlow, Shutdown, WritePumpReturns
  <1>10. CASE UNCHANGED vars
    <2>1. \A d \in Online : users'[IdentityOf[d]] # "blacklisted"
        BY <1>10 DEF vars, RegistryInv, NoneBlacklistedOnline
    <2> QED
        BY <1>0, <1>10, <2>1, RegistryKept DEF vars
  <1> QED
      BY <1>1, <1>2, <1>3, <1>4, <1>5, <1>5a, <1>6, <1>7, <1>8, <1>9, <1>10
      DEF Next, Administration

-----------------------------------------------------------------------------
\* The registry never breaks any of its promises: chat switched off means
\* nobody online, no handshake crosses a fence, nobody blacklisted is online,
\* no entry outlives its handler, no live connection is lost (register,
\* unregister, detachAllLocked of chatHub).
THEOREM RegistryCorrect == Spec => []RegistryInv
  <1>1. Init => RegistryInv
      BY InitRegistry
  <1>2. RegistryInv /\ [Next]_vars => RegistryInv'
      BY RegistryStep
  <1> QED
      BY <1>1, <1>2, PTL DEF Spec

\* Every variable of the registry keeps its type.
THEOREM TypeCorrect == Spec => []TypeOK
  BY RegistryCorrect, PTL DEF RegistryInv

\* Nobody is online while chat is off or the server is stopping.
THEOREM OffMeansNobodyOnline == Spec => []OnlineOnlyWhileOpen
  BY RegistryCorrect, PTL DEF RegistryInv

\* No handshake from before a fence is online after it.
THEOREM FenceHolds == Spec => []OnlineSinceFence
  BY RegistryCorrect, PTL DEF RegistryInv

\* A blacklisted identity is never online, on any device.
THEOREM BlacklistHolds == Spec => []NoneBlacklistedOnline
  BY RegistryCorrect, PTL DEF RegistryInv

\* The registry holds no finished handler and misses no running one.
THEOREM RegistryMatchesHandlers == Spec => [](NoGhost /\ NoLostPeer)
  BY RegistryCorrect, PTL DEF RegistryInv

\* The end of a replaced connection never takes its successor out.
THEOREM NoConnectionIsLost == Spec => []NoLostPeer
  BY RegistryCorrect, PTL DEF RegistryInv

-----------------------------------------------------------------------------
(* The slots.                                                              *)

LEMMA HandlersFinite == IsFiniteSet(Handlers) /\ Cardinality(Handlers) \in Nat
  <1>1. IsFiniteSet(Conns) /\ Handlers \subseteq Conns
      BY ConstantsAssumption DEF Handlers
  <1> QED
      BY <1>1, FS_Subset, FS_CardinalityType

\* Every step but the reservation and the release leaves the slots alone.
LEMMA SlotsKept ==
  ASSUME TypeOK, [Next]_vars,
         \A c \in Conns : ~BeginHandler(c) /\ ~EndHandler(c)
  PROVE  UNCHANGED <<active, idle>> /\ Handlers' = Handlers
  <1>1. CASE Administration
      BY <1>1 DEF Administration, SetEnabled, SetGroupEnabled, Disconnect, DisconnectIdentity,
         SetBlacklisted, SetBlacklistedNotSaved, Observe, RemoveVisitor, ClearUsers, slotVars, connVars, Handlers
  <1>2. CASE Lifecycle
      BY <1>2 DEF Lifecycle, PauseReturns, Pause, PauseDrained, PauseTimedOut, Resume,
         slotVars, connVars, Handlers
  <1>3. ASSUME NEW c \in Conns, Handler(c)
        PROVE  UNCHANGED <<active, idle>> /\ Handlers' = Handlers
    <2>1. UNCHANGED <<active, idle>>
        BY <1>3 DEF Handler, Upgrade, RegisterReturns, RegisterStale, RegisterBarred, RegisterFull,
           RegisterRolledBack, Refuse, Register, ReadReturns, Unregister, slotVars
    <2>2. phase[c] # "none" /\ \E p \in Phases \ {"none"} : phase' = [phase EXCEPT ![c] = p]
        BY <1>3 DEF Handler, Upgrade, RegisterReturns, RegisterStale, RegisterBarred, RegisterFull,
           RegisterRolledBack, MayRegister, Refuse, Register, ReadReturns, Unregister, Phases
    <2>3. Handlers' = Handlers
        BY <2>2 DEF TypeOK, Handlers
    <2> QED
        BY <2>1, <2>3
  <1>4. ASSUME NEW c \in Conns, Socket(c)
        PROVE  UNCHANGED <<active, idle>> /\ Handlers' = Handlers
      BY <1>4 DEF Socket, BroadcastFindsSlow, Shutdown, WritePumpReturns, slotVars, connVars, Handlers
  <1>5. CASE UNCHANGED vars
      BY <1>5 DEF vars, slotVars, connVars, Handlers
  <1> QED
      BY <1>1, <1>2, <1>3, <1>4, <1>5 DEF Next

LEMMA SlotsStep == TypeOK /\ SlotsExact /\ [Next]_vars => SlotsExact'
  <1> SUFFICES ASSUME TypeOK, SlotsExact, [Next]_vars PROVE SlotsExact'
      OBVIOUS
  <1>0. IsFiniteSet(Handlers) /\ Cardinality(Handlers) \in Nat /\ MaxConnections \in Nat
      BY HandlersFinite, ConstantsAssumption
  <1>1. ASSUME NEW c \in Conns, BeginHandler(c) PROVE SlotsExact'
    <2>1. c \notin Handlers /\ Handlers' = Handlers \cup {c}
        BY <1>1 DEF BeginHandler, Handlers, TypeOK
    <2>2. active' = active + 1 /\ active < MaxConnections
        BY <1>1 DEF BeginHandler
    <2>3. idle' = FALSE
        BY <1>1 DEF BeginHandler
    <2>4. Cardinality(Handlers') = Cardinality(Handlers) + 1
        BY <1>0, <2>1, FS_AddElement
    <2>5. active' = Cardinality(Handlers') /\ active' <= MaxConnections /\ active' # 0
        BY <1>0, <2>2, <2>4 DEF SlotsExact
    <2> QED
        BY <2>3, <2>5, Zenon DEF SlotsExact
  <1>2. ASSUME NEW c \in Conns, EndHandler(c) PROVE SlotsExact'
    <2>1. c \in Handlers /\ Handlers' = Handlers \ {c}
        BY <1>2 DEF EndHandler, Handlers, TypeOK
    <2>2. active' = active - 1
        BY <1>2 DEF EndHandler
    <2>3. idle' <=> active' = 0
        BY <1>2 DEF EndHandler
    <2>4. Cardinality(Handlers') = Cardinality(Handlers) - 1
        BY <1>0, <2>1, FS_RemoveElement
    <2>5. active' = Cardinality(Handlers') /\ active' <= MaxConnections
        BY <1>0, <2>2, <2>4 DEF SlotsExact
    <2> QED
        BY <2>3, <2>5, Zenon DEF SlotsExact
  <1>3. ASSUME \A c \in Conns : ~BeginHandler(c) /\ ~EndHandler(c) PROVE SlotsExact'
    <2>1. UNCHANGED <<active, idle>> /\ Handlers' = Handlers
        BY <1>3, SlotsKept
    <2> QED
        BY <2>1 DEF SlotsExact
  <1> QED
      BY <1>1, <1>2, <1>3

LEMMA InitSlots == Init => SlotsExact
  <1> SUFFICES ASSUME Init PROVE SlotsExact
      OBVIOUS
  <1>1. Handlers = {} /\ active = 0
      BY DEF Init, Handlers
  <1>2. idle
      BY DEF Init
  <1>3. Cardinality({}) = 0 /\ 0 <= MaxConnections
      BY FS_EmptySet, ConstantsAssumption
  <1>4. active = Cardinality(Handlers) /\ active <= MaxConnections /\ active = 0
      BY <1>1, <1>3
  <1> QED
      BY <1>2, <1>4, Zenon DEF SlotsExact

\* The slot counter counts the handlers, within the limit, and the idle
\* channel is closed exactly when there is none (beginHandler, endHandler).
THEOREM SlotsCounted == Spec => []SlotsExact
  BY InitSlots, SlotsStep, TypeCorrect, PTL DEF Spec

\* A pause keeps the door closed until resume.
PausedMeansClosed == pause # "none" => ~accepting

\* What keeps a drained registry quiet: the door is closed, and no handler
\* that could still end or register is left.
QuietInv == PausedMeansClosed /\ (pause = "drained" => active = 0)

LEMMA QuietStep == TypeOK /\ SlotsExact /\ QuietInv /\ [Next]_vars => QuietInv'
  <1> SUFFICES ASSUME TypeOK, SlotsExact, QuietInv, [Next]_vars PROVE QuietInv'
      OBVIOUS
  <1>0. IsFiniteSet(Handlers) /\ (Cardinality(Handlers) = 0 <=> Handlers = {})
      BY HandlersFinite, FS_EmptySet
  <1>1. CASE Administration
      BY <1>1 DEF Administration, SetEnabled, SetGroupEnabled, Disconnect, DisconnectIdentity,
         SetBlacklisted, SetBlacklistedNotSaved, Observe, RemoveVisitor, ClearUsers, slotVars, hubState, QuietInv,
         PausedMeansClosed
  <1>2. CASE Pause
    <2>1. pause' = "waiting"
        BY <1>2 DEF Pause
    <2>2. ~accepting'
        BY <1>2 DEF Pause
    <2> QED
        BY <2>1, <2>2 DEF QuietInv, PausedMeansClosed
  <1>3. CASE PauseDrained
    <2>1. pause = "waiting" /\ active' = active
        BY <1>3 DEF PauseDrained, slotVars
    <2>2. idle
        BY <1>3 DEF PauseDrained
    <2>3. active = 0
        BY <2>2 DEF SlotsExact
    <2>4. ~accepting /\ accepting' = accepting
        BY <1>3, <2>1 DEF PauseDrained, hubState, QuietInv, PausedMeansClosed
    <2> QED
        BY <2>1, <2>3, <2>4 DEF QuietInv, PausedMeansClosed
  <1>4. CASE PauseTimedOut
    <2>1. pause = "waiting" /\ pause' = "timedOut" /\ accepting' = accepting
        BY <1>4 DEF PauseTimedOut, hubState
    <2> QED
        BY <2>1 DEF QuietInv, PausedMeansClosed
  <1>5. CASE Resume
      BY <1>5 DEF Resume, QuietInv, PausedMeansClosed
  <1>6. ASSUME NEW c \in Conns, BeginHandler(c) PROVE QuietInv'
    <2>1. accepting
        BY <1>6 DEF BeginHandler
    <2>2. pause = "none" /\ pause' = pause
        BY <1>6, <2>1 DEF BeginHandler, QuietInv, PausedMeansClosed
    <2> QED
        BY <2>2 DEF QuietInv, PausedMeansClosed
  <1>7. ASSUME NEW c \in Conns, EndHandler(c) PROVE QuietInv'
    <2>1. c \in Handlers
        BY <1>7 DEF EndHandler, Handlers
    <2>2. active # 0
        BY <1>0, <2>1 DEF SlotsExact
    <2>3. pause' = pause /\ accepting' = accepting
        BY <1>7 DEF EndHandler, hubState
    <2> QED
        BY <2>2, <2>3 DEF QuietInv, PausedMeansClosed
  <1>8. ASSUME \A c \in Conns : ~BeginHandler(c) /\ ~EndHandler(c),
               \/ \E c \in Conns : Handler(c) \/ Socket(c)
               \/ UNCHANGED vars
        PROVE  QuietInv'
    <2>1. active' = active
        BY <1>8, SlotsKept
    <2>2. pause' = pause /\ accepting' = accepting
        BY <1>8 DEF Handler, Upgrade, RegisterReturns, RegisterStale, RegisterBarred, RegisterFull,
           RegisterRolledBack, Refuse, Register, ReadReturns, Unregister,
           Socket, BroadcastFindsSlow, Shutdown, WritePumpReturns, vars, hubState
    <2> QED
        BY <2>1, <2>2 DEF QuietInv, PausedMeansClosed
  <1> QED
      BY <1>1, <1>2, <1>3, <1>4, <1>5, <1>6, <1>7, <1>8 DEF Next, Lifecycle, PauseReturns

\* When pause reports success the chat is empty and stays empty until resume.
THEOREM DrainKeepsQuiet == Spec => []DrainedIsQuiet
  <1>1. Init => QuietInv
      BY DEF Init, QuietInv, PausedMeansClosed
  <1>2. OnlineOnlyWhileOpen /\ QuietInv => DrainedIsQuiet
      BY DEF OnlineOnlyWhileOpen, QuietInv, PausedMeansClosed, DrainedIsQuiet
  <1> QED
      BY <1>1, <1>2, QuietStep, TypeCorrect, SlotsCounted, OffMeansNobodyOnline, PTL DEF Spec

-----------------------------------------------------------------------------
(* Places and conversations.                                               *)

\* The registered connections are handlers, one per place, and none of them is
\* a handshake: so the places taken are fewer than the slots in use.
LEMMA PlacesBelowSlots ==
  ASSUME RegistryInv, SlotsExact, NEW c \in Conns, phase[c] = "upgraded"
  PROVE  PlaceFor(c)
  <1> DEFINE Taken == {t \in Tabs : peers[t] # NoConn}
             Others == Handlers \ {c}
             entry == [t \in Taken |-> peers[t]]
  <1>1. IsFiniteSet(Handlers) /\ Cardinality(Handlers) \in Nat
      BY HandlersFinite
  <1>2. c \in Handlers
      BY DEF Handlers
  <1>3. IsFiniteSet(Others) /\ Cardinality(Others) = Cardinality(Handlers) - 1
      BY <1>1, <1>2, FS_RemoveElement
  <1>4. \A t \in Taken : entry[t] \in Others /\ TabOf[entry[t]] = t
      BY DEF RegistryInv, TypeOK, NoGhost, Handlers
  <1>5. entry \in [Taken -> Others]
      BY <1>4
  <1>6. \A s, t \in Taken : entry[s] = entry[t] => s = t
      BY <1>4
  <1> HIDE DEF entry
  <1>7. entry \in Injection(Taken, Others)
      BY <1>5, <1>6 DEF Injection, IsInjective
  <1>8. Cardinality(Taken) <= Cardinality(Others) /\ IsFiniteSet(Taken)
      BY <1>3, <1>7, FS_Injection
  <1>9. Cardinality(Taken) \in Nat
      BY <1>8, FS_CardinalityType
  <1>10. Cardinality(Taken) < MaxConnections
      BY <1>1, <1>3, <1>8, <1>9, ConstantsAssumption DEF SlotsExact
  <1> QED
      BY <1>10 DEF PlaceFor

\* A handler that holds a slot always finds its place: the limit that
\* beginHandler tests covers the one that register tests on another map.
THEOREM SlotGivesPlace == Spec => []ReservedHasPlace
  <1>1. RegistryInv /\ SlotsExact => ReservedHasPlace
      BY PlacesBelowSlots DEF ReservedHasPlace
  <1> QED
      BY <1>1, RegistryCorrect, SlotsCounted, PTL

\* A conversation leaves by the administrator's removal or to make room in
\* register, which takes one of somebody offline (evictOldestOfflineLocked).
LEMMA EvictionStep ==
  ASSUME Next, NEW i \in conversations \ conversations', i \in OnlineIds
  PROVE  RemoveVisitor(i)
  <1>1. CASE Administration
    <2>1. ASSUME NEW j \in Identities, RemoveVisitor(j) PROVE j = i
        BY <2>1 DEF RemoveVisitor
    <2>2. ASSUME NEW j \in Identities, Observe(j) PROVE FALSE
        BY <2>2 DEF Observe
    <2> QED
        BY <1>1, <2>1, <2>2 DEF Administration, SetEnabled, SetGroupEnabled, Disconnect,
           DisconnectIdentity, SetBlacklisted, SetBlacklistedNotSaved, ClearUsers, peopleVars
  <1>2. CASE Lifecycle
      BY <1>2 DEF Lifecycle, Pause, PauseReturns, PauseDrained, PauseTimedOut, Resume, peopleVars
  <1>3. ASSUME NEW c \in Conns, Handler(c) \/ Socket(c) PROVE FALSE
    <2>1. CASE MayRegister(c)
      <3>1. conversations' \in ConversationsWith(IdentityOf[c])
          BY <2>1 DEF MayRegister
      <3>2. i \in conversations'
          BY <3>1 DEF ConversationsWith
      <3> QED
          BY <3>2
    <2>2. CASE ~MayRegister(c)
        BY <1>3, <2>2 DEF Handler, BeginHandler, Upgrade, RegisterReturns, RegisterStale,
           RegisterBarred, RegisterFull, RegisterRolledBack, Register, ReadReturns, Unregister,
           EndHandler, Socket, BroadcastFindsSlow, Shutdown, WritePumpReturns, peopleVars
    <2> QED
        BY <2>1, <2>2
  <1> QED
      BY <1>1, <1>2, <1>3 DEF Next

\* Making room for a conversation never takes the one of somebody online.
THEOREM EvictionSparesTheOnline == Spec => EvictionSparesOnline
  <1>1. [Next]_vars =>
          [\A i \in conversations \ conversations' : i \in OnlineIds => RemoveVisitor(i)]_vars
      BY EvictionStep
  <1> QED
      BY <1>1, PTL DEF Spec, EvictionSparesOnline

-----------------------------------------------------------------------------
(* The registry implements ChatSessions.                                   *)

\* The handshakes that may still come online, as the mapping sees them.
Admitted == {c \in Conns : phase[c] \in {"begun", "upgraded"} /\ gen[c] = generation}

LEMMA InitSessions == Init => Sessions!Init
  BY DEF Init, Sessions!Init, Sessions!Nobody, EmptyRegistry

\* A change that bumps the generation is a boundary: no handshake is of the
\* new generation, and the registry is kept or emptied.
LEMMA BoundaryStep ==
  ASSUME RegistryInv, RegistryInv', BumpGeneration, UNCHANGED connVars,
         peers' \in {peers, EmptyRegistry},
         ~(enabled /\ accepting)' => peers' = EmptyRegistry
  PROVE  Sessions!Boundary
  <1>1. \A c \in Conns : gen'[c] # generation'
      BY DEF RegistryInv, GenerationBound, TypeOK, BumpGeneration, connVars
  <1>2. Admitted' = {}
      BY <1>1 DEF Admitted
  <1>3. (enabled /\ accepting)' \in BOOLEAN
      BY DEF RegistryInv, TypeOK
  <1> QED
      BY <1>2, <1>3 DEF Sessions!Boundary, Sessions!Nobody, EmptyRegistry, Admitted

\* With nobody online every place of the registry is empty.
LEMMA NobodyMeansEmpty == RegistryInv /\ Online = {} => peers = EmptyRegistry
  BY DEF RegistryInv, TypeOK, NoGhost, Online, EmptyRegistry

\* A step that takes the connections in gone out of the registry, and touches
\* neither the switches nor a handshake.
LEMMA OfflineStep ==
  ASSUME NEW gone \in SUBSET Conns,
         peers' = [t \in Tabs |-> IF peers[t] \in gone THEN NoConn ELSE peers[t]],
         Admitted' = Admitted, UNCHANGED <<enabled, accepting>>
  PROVE  Sessions!GoOffline(gone)
  BY DEF Sessions!GoOffline, Admitted

\* A handler that leaves its handshake behind gives up, if it was admitted.
LEMMA GiveUpStep ==
  ASSUME RegistryInv, NEW c \in Conns, NEW p \in {"none", "refused"},
         phase' = [phase EXCEPT ![c] = p], gen' = gen,
         UNCHANGED <<hubState, peers>>
  PROVE  Sessions!GiveUp(c)
  <1>1. phase \in [Conns -> Phases]
      BY DEF RegistryInv, TypeOK
  <1>2. Admitted' = Admitted \ {c}
      BY <1>1 DEF Admitted, hubState
  <1> QED
      BY <1>2 DEF Sessions!GiveUp, Admitted, hubState

LEMMA SessionsStep ==
  ASSUME RegistryInv, RegistryInv', [Next]_vars
  PROVE  [Sessions!Next]_(Sessions!vars)
  <1> USE ConstantsAssumption
  <1>0. /\ phase \in [Conns -> Phases] /\ gen \in [Conns -> Nat]
        /\ peers \in [Tabs -> Conns \cup {NoConn}]
      BY DEF RegistryInv, TypeOK
  <1>1. ASSUME Sessions!Boundary PROVE Sessions!Next
      BY <1>1 DEF Sessions!Next
  <1>2. ASSUME NEW gone \in SUBSET Conns, Sessions!GoOffline(gone) PROVE Sessions!Next
      BY <1>2 DEF Sessions!Next
  <1>3. ASSUME NEW c \in Conns,
               Sessions!Admit(c) \/ Sessions!ComeOnline(c) \/ Sessions!GiveUp(c)
        PROVE  Sessions!Next
      BY <1>3 DEF Sessions!Next
  <1>4. ASSUME UNCHANGED <<enabled, accepting, peers>>, Admitted' = Admitted
        PROVE  UNCHANGED Sessions!vars
      BY <1>4 DEF Sessions!vars, Admitted
  <1>5. ASSUME UNCHANGED <<phase, gen, generation>> PROVE Admitted' = Admitted
      BY <1>5 DEF Admitted
  <1>6. ~(enabled /\ accepting) => peers = EmptyRegistry
      BY NobodyMeansEmpty DEF RegistryInv, OnlineOnlyWhileOpen
  <1>7. ASSUME NEW i \in Identities, DetachIdentity(i),
               UNCHANGED <<enabled, accepting, generation, phase, gen>>
        PROVE  Sessions!Next
    <2> DEFINE out == {c \in Online : IdentityOf[c] = i}
    <2>1. out \in SUBSET Conns /\ peers' = [t \in Tabs |-> IF peers[t] \in out THEN NoConn ELSE peers[t]]
        BY <1>7 DEF DetachIdentity, Online
    <2> HIDE DEF out
    <2> QED
        BY <1>2, <1>5, <1>7, <2>1, OfflineStep
  <1>8. ASSUME \/ \E on \in BOOLEAN : SetEnabled(on) \/ SetGroupEnabled(on)
               \/ Disconnect \/ Pause \/ Resume
        PROVE  Sessions!Next
    <2>1. BumpGeneration /\ UNCHANGED connVars
        BY <1>8 DEF SetEnabled, SetGroupEnabled, Disconnect, Pause, Resume
    <2>2. \/ peers' = EmptyRegistry
          \/ peers' = peers /\ (~(enabled /\ accepting)' => ~(enabled /\ accepting))
          \/ peers' = peers /\ ~(enabled /\ accepting)
        BY <1>8 DEF SetEnabled, SetGroupEnabled, Disconnect, Pause, Resume, DetachAll,
           RegistryInv, TypeOK
    <2> QED
        BY <1>1, <1>6, <2>1, <2>2, BoundaryStep
  <1>9. CASE Administration
    <2>1. ASSUME NEW i \in Identities, DisconnectIdentity(i) PROVE Sessions!Next
        BY <1>7, <2>1 DEF DisconnectIdentity, hubState, connVars
    <2>2. ASSUME NEW i \in Identities, NEW barred \in BOOLEAN, SetBlacklisted(i, barred)
          PROVE  [Sessions!Next]_(Sessions!vars)
      <3>1. CASE barred
          BY <1>7, <2>2, <3>1 DEF SetBlacklisted, hubState, connVars
      <3>2. CASE ~barred
          BY <1>4, <1>5, <2>2, <3>2 DEF SetBlacklisted, hubState, connVars
      <3> QED
          BY <3>1, <3>2
    <2>3. ASSUME NEW i \in Identities, SetBlacklistedNotSaved(i) PROVE Sessions!Next
      <3> DEFINE out == {c \in Online : IdentityOf[c] = i}
      <3>1. out \in SUBSET Conns /\ peers' = [t \in Tabs |-> IF peers[t] \in out THEN NoConn ELSE peers[t]]
          BY <2>3 DEF SetBlacklistedNotSaved, Online
      <3>2. UNCHANGED <<enabled, accepting, generation, phase, gen>>
          BY <2>3 DEF SetBlacklistedNotSaved, hubState, connVars
      <3> HIDE DEF out
      <3> QED
          BY <1>2, <1>5, <3>1, <3>2, OfflineStep
    <2>4. ASSUME ClearUsers \/ \E i \in Identities : Observe(i) \/ RemoveVisitor(i)
          PROVE  UNCHANGED Sessions!vars
        BY <1>4, <1>5, <2>4 DEF ClearUsers, Observe, RemoveVisitor, hubState, connVars
    <2> QED
        BY <1>8, <1>9, <2>1, <2>2, <2>3, <2>4 DEF Administration
  <1>10. CASE Lifecycle
    <2>1. ASSUME PauseReturns PROVE UNCHANGED Sessions!vars
        BY <1>4, <1>5, <2>1 DEF PauseReturns, PauseDrained, PauseTimedOut, hubState, connVars
    <2> QED
        BY <1>8, <1>10, <2>1 DEF Lifecycle
  <1>11. ASSUME NEW c \in Conns, Handler(c) PROVE [Sessions!Next]_(Sessions!vars)
    <2>1. CASE BeginHandler(c)
      <3>1. Admitted' = Admitted \cup {c}
          BY <1>0, <2>1 DEF BeginHandler, Admitted, hubState
      <3>2. Sessions!Admit(c)
          BY <2>1, <3>1 DEF BeginHandler, hubState, Sessions!Admit, Admitted
      <3> QED
          BY <1>3, <3>2
    <2>2. CASE Upgrade(c) \/ ReadReturns(c)
      <3>1. Admitted' = Admitted
          BY <1>0, <2>2 DEF Upgrade, ReadReturns, Admitted, hubState
      <3> QED
          BY <1>4, <2>2, <3>1 DEF Upgrade, ReadReturns, hubState
    <2>3. CASE EndHandler(c)
        BY <1>3, <2>3, GiveUpStep DEF EndHandler
    <2>4. CASE RegisterStale(c) \/ RegisterBarred(c) \/ RegisterFull(c) \/ RegisterRolledBack(c)
        BY <1>3, <2>4, GiveUpStep DEF RegisterStale, RegisterBarred, RegisterFull,
           RegisterRolledBack, Refuse
    <2>5. CASE Register(c)
      <3>1. c \in Admitted /\ enabled /\ accepting
          BY <2>5 DEF Register, MayRegister, Current, Admitted
      <3>2. Admitted' = Admitted \ {c}
          BY <1>0, <2>5 DEF Register, Admitted, hubState
      <3>3. Sessions!ComeOnline(c)
          BY <2>5, <3>1, <3>2 DEF Register, hubState, Sessions!ComeOnline, Admitted
      <3> QED
          BY <1>3, <3>3
    <2>6. CASE Unregister(c)
      <3>1. Admitted' = Admitted
          BY <1>0, <2>6 DEF Unregister, Admitted, hubState
      <3>2. peers' = [t \in Tabs |-> IF peers[t] \in {c} THEN NoConn ELSE peers[t]]
        <4>1. \A t \in Tabs : peers[t] = c => t = TabOf[c]
            BY DEF RegistryInv, NoGhost
        <4>2. peers' \in [Tabs -> Conns \cup {NoConn}]
            BY DEF RegistryInv, TypeOK
        <4>3. \A t \in Tabs : peers'[t] = IF peers[t] = c THEN NoConn ELSE peers[t]
            BY <1>0, <2>6, <4>1 DEF Unregister
        <4> QED
            BY <4>2, <4>3
      <3>3. {c} \in SUBSET Conns /\ UNCHANGED <<enabled, accepting>>
          BY <2>6 DEF Unregister, hubState
      <3> QED
          BY <1>2, <3>1, <3>2, <3>3, OfflineStep
    <2> QED
        BY <1>11, <2>1, <2>2, <2>3, <2>4, <2>5, <2>6 DEF Handler, RegisterReturns
  <1>12. ASSUME NEW c \in Conns, Socket(c) PROVE UNCHANGED Sessions!vars
      BY <1>4, <1>5, <1>12 DEF Socket, BroadcastFindsSlow, Shutdown, WritePumpReturns, hubState, connVars
  <1>13. CASE UNCHANGED vars
      BY <1>4, <1>5, <1>13 DEF vars, hubState, connVars
  <1> QED
      BY <1>9, <1>10, <1>11, <1>12, <1>13 DEF Next

\* The registry implements ChatSessions: nobody comes online but by a handshake
\* admitted since the last boundary, and no boundary leaves one behind.
THEOREM RegistryImplementsSessions == Spec => ImplementsSessions
  <1>1. RegistryInv /\ RegistryInv' /\ [Next]_vars => [Sessions!Next]_(Sessions!vars)
      BY SessionsStep
  <1> QED
      BY <1>1, InitSessions, RegistryCorrect, PTL DEF Spec, ImplementsSessions, Sessions!Spec

-----------------------------------------------------------------------------
(* The server. *)

RunInv ==
    /\ ~canceled => running
    /\ lifecycle = "resumed" => ~running /\ run < MaxRuns
    /\ lifecycle \in {"canceled", "pausing", "waiting"} => canceled
    /\ InsideThisRun
    /\ \A c \in Conns : phase[c] # "none" => req[c].at = "chat"

\* A request that checked the password in the version it read has access as
\* long as that is the version; so has a handler of the current generation.
AccessInv ==
    /\ \A c \in Conns : req[c].version <= accessVersion
    /\ \A c \in Conns :
          req[c].at \in {"admitted", "authed"} /\ req[c].version = accessVersion => HasAccess(c)
    /\ \A c \in Conns :
          phase[c] # "none" /\ gen[c] = generation => HasAccess(c) \/ accessChange
    /\ OnlineWithCurrentPassword

ServerInv == RegistryInv /\ SlotsExact /\ ServerTypeOK /\ RunInv /\ AccessInv

-----------------------------------------------------------------------------
(* The steps as the server sees them.                                      *)

LEMMA ServerStepIsHubStep == [ServerNext]_allVars => [Next]_vars
  <1> SUFFICES ASSUME [ServerNext]_allVars PROVE [Next]_vars
      OBVIOUS
  <1>1. CASE UNCHANGED allVars
      BY <1>1 DEF allVars
  <1>2. CASE StartResumesChat
      BY <1>2 DEF StartResumesChat, Next, Lifecycle
  <1>3. CASE StartServes \/ StopClosesGate \/ StopCancels \/ StopShutsDown \/ StopReturns
      BY <1>3 DEF StartServes, StopClosesGate, StopCancels, StopShutsDown, StopReturns
  <1>4. CASE StopPauses
      BY <1>4 DEF StopPauses, Next, Lifecycle
  <1>5. CASE SetAccess \/ \E i \in Identities : RevokeSessions(i)
      BY <1>5 DEF SetAccess, RevokeSessions
  <1>6. CASE SetAccessDisconnects
      BY <1>6 DEF SetAccessDisconnects, Next, Administration
  <1>7. ASSUME NEW i \in Identities, RevocationDisconnects(i) PROVE Next
      BY <1>7 DEF RevocationDisconnects, Next, Administration
  <1>8. ASSUME NEW c \in Conns, Arrive(c) \/ RequestProgress(c) PROVE Next \/ UNCHANGED vars
      BY <1>8 DEF Arrive, RequestProgress, EnterServeHTTP, ReadAccessVersion, CheckWebAccess,
         Authenticate, ReserveChat, RefuseChat, LeaveServeHTTP, Next, Handler
  <1>9. CASE HubStep
      BY <1>9 DEF HubStep, Next, Administration, Lifecycle, Handler, Socket
  <1> QED
      BY <1>1, <1>2, <1>3, <1>4, <1>5, <1>6, <1>7, <1>8, <1>9 DEF ServerNext, StopSteps

\* What every step of the hub but a reservation keeps: nobody gets a slot or a
\* younger generation, and only a current handshake comes online.
HubKeeps ==
    /\ gen' = gen /\ generation' \in Nat /\ generation <= generation'
    /\ \A c \in Conns : phase'[c] # "none" => phase[c] # "none"
    /\ \A c \in Online' : c \in Online \/ (phase[c] # "none" /\ gen[c] = generation)

LEMMA SameHubKeeps == TypeOK /\ UNCHANGED vars => HubKeeps
  BY DEF TypeOK, HubKeeps, vars, hubState, connVars, Online

LEMMA BoundaryKeeps ==
  ASSUME TypeOK, BumpGeneration, DetachAll \/ UNCHANGED peers, UNCHANGED connVars
  PROVE  HubKeeps
  <1> USE ConstantsAssumption
  <1>1. generation \in Nat /\ generation' = generation + 1
      BY DEF BumpGeneration, TypeOK
  <1>2. Online' \subseteq Online
      BY DEF Online, DetachAll, EmptyRegistry
  <1> QED
      BY <1>1, <1>2 DEF HubKeeps, connVars

LEMMA HubStepKeeps ==
  ASSUME RegistryInv, HubStep
  PROVE  HubKeeps
  <1> USE ConstantsAssumption DEF RegistryInv
  <1>0. generation \in Nat /\ phase \in [Conns -> Phases] /\ peers \in [Tabs -> Conns \cup {NoConn}]
      BY DEF TypeOK
  <1>1. ASSUME NEW on \in BOOLEAN, SetEnabled(on) PROVE HubKeeps
      BY <1>1, BoundaryKeeps DEF SetEnabled
  <1>2. CASE PauseReturns
      BY <1>0, <1>2 DEF PauseReturns, PauseDrained, PauseTimedOut, HubKeeps, hubState, connVars, Online
  <1>3. ASSUME NEW c \in Conns, Upgrade(c) \/ ReadReturns(c) \/ EndHandler(c) PROVE HubKeeps
      BY <1>0, <1>3 DEF Upgrade, ReadReturns, EndHandler, HubKeeps, hubState, Online
  <1>4. ASSUME NEW c \in Conns, Shutdown(c) \/ WritePumpReturns(c) PROVE HubKeeps
      BY <1>0, <1>4 DEF Shutdown, WritePumpReturns, HubKeeps, hubState, Online
  <1>5. ASSUME NEW c \in Conns, Unregister(c) PROVE HubKeeps
      BY <1>0, <1>5 DEF Unregister, HubKeeps, hubState, Online
  <1>6. ASSUME NEW c \in Conns, RegisterReturns(c) PROVE HubKeeps
    <2>1. CASE RegisterStale(c) \/ RegisterBarred(c) \/ RegisterFull(c) \/ RegisterRolledBack(c)
        BY <1>0, <2>1 DEF RegisterStale, RegisterBarred, RegisterFull, RegisterRolledBack,
           MayRegister, Refuse, HubKeeps, hubState, Online
    <2>2. CASE Register(c)
      <3>1. phase[c] # "none" /\ gen[c] = generation
          BY <2>2 DEF Register, MayRegister, Current
      <3>2. gen' = gen /\ generation' = generation /\ phase' = [phase EXCEPT ![c] = "reading"]
            /\ peers' = [peers EXCEPT ![TabOf[c]] = c]
          BY <2>2 DEF Register, hubState
      <3> QED
          BY <1>0, <3>1, <3>2 DEF HubKeeps, Online
    <2> QED
        BY <1>6, <2>1, <2>2 DEF RegisterReturns
  <1> QED
      BY <1>1, <1>2, <1>3, <1>4, <1>5, <1>6 DEF HubStep

\* Whoever is online has a handler.
LEMMA OnlineHasHandler ==
  ASSUME RegistryInv, NEW c \in Online
  PROVE  phase[c] # "none"
  BY ConstantsAssumption DEF RegistryInv, NoGhost, Online, TypeOK

\* Nor does a step that keeps the credentials cost anybody the access.
LEMMA AccessKept ==
  ASSUME ServerInv, HubKeeps, UNCHANGED <<req, accessVersion>>, accessChange' = accessChange
  PROVE  AccessInv'
  <1> USE DEF ServerInv
  <1>1. \A c \in Conns : gen[c] <= generation /\ gen[c] \in Nat
      BY DEF RegistryInv, GenerationBound, TypeOK
  <1>2. generation \in Nat
      BY DEF RegistryInv, TypeOK
  <1>3. \A c \in Conns : HasAccess(c)' <=> HasAccess(c)
      BY DEF HasAccess
  <1>5. \A c \in Conns : phase'[c] # "none" /\ gen'[c] = generation'
                           => HasAccess(c)' \/ accessChange'
      BY <1>1, <1>2, <1>3 DEF AccessInv, HubKeeps
  <1>6. OnlineWithCurrentPassword'
      BY <1>1, <1>2, <1>3 DEF AccessInv, HubKeeps, OnlineWithCurrentPassword, Online
  <1> QED
      BY <1>3, <1>5, <1>6 DEF AccessInv

\* The hub's own steps disturb nothing of the server.
LEMMA HubKeepsServer ==
  ASSUME ServerInv, HubKeeps, UNCHANGED <<runVars, req, accessVersion>>,
         accessChange' = accessChange
  PROVE  RunInv' /\ AccessInv'
  <1>1. RunInv'
      BY DEF ServerInv, RunInv, InsideThisRun, Inside, runVars, HubKeeps
  <1> QED
      BY <1>1, AccessKept

-----------------------------------------------------------------------------
(* The server's own steps.                                                 *)

\* One request moves on, and the hub does not.
LEMMA OneRequest ==
  ASSUME ServerInv, NEW c \in Conns, UNCHANGED <<vars, runVars, accessVars>>,
         \A d \in Conns \ {c} : req'[d] = req[d],
         phase[c] = "none",
         req'[c].at \notin {"none", "arrived"} => running /\ req'[c].run = run,
         req'[c].version <= accessVersion,
         req'[c].at \in {"admitted", "authed"} /\ req'[c].version = accessVersion
           => accessVersion \in OpenVersions \/ req'[c].creds = accessVersion
  PROVE  RunInv' /\ AccessInv'
  <1> USE DEF ServerInv
  <1>1. UNCHANGED <<running, lifecycle, run, canceled, gate, accessVersion, accessChange>>
        /\ UNCHANGED <<peers, phase, gen, generation>>
      BY DEF runVars, accessVars, vars, hubState, connVars
  <1>2. \A d \in Conns \ {c} : HasAccess(d)' <=> HasAccess(d)
      BY <1>1 DEF HasAccess
  <1>3. c \notin Online /\ Online' = Online
      BY <1>1, OnlineHasHandler DEF Online
  <1>4. RunInv'
      BY <1>1 DEF RunInv, InsideThisRun, Inside
  <1>5. OnlineWithCurrentPassword'
      BY <1>1, <1>2, <1>3 DEF AccessInv, OnlineWithCurrentPassword, Online
  <1>6. HasAccess(c)' <=> accessVersion \in OpenVersions \/ req'[c].creds = accessVersion
      BY <1>1 DEF HasAccess
  <1>7. \A d \in Conns : req'[d].version <= accessVersion
      BY DEF AccessInv
  <1>8. \A d \in Conns : req'[d].at \in {"admitted", "authed"} /\ req'[d].version = accessVersion
                           => HasAccess(d)'
      BY <1>2, <1>6 DEF AccessInv
  <1>9. \A d \in Conns : phase[d] # "none" /\ gen[d] = generation => HasAccess(d)' \/ accessChange
      BY <1>2 DEF AccessInv
  <1> QED
      BY <1>1, <1>4, <1>5, <1>7, <1>8, <1>9 DEF AccessInv

LEMMA RequestStep ==
  ASSUME ServerInv, NEW c \in Conns, Arrive(c) \/ RequestProgress(c)
  PROVE  RunInv' /\ AccessInv'
  <1> USE DEF ServerInv
  <1>0. /\ req \in [Conns ->
              [at : {"none", "arrived", "inside", "versioned", "admitted", "authed", "chat", "leaving"},
               run : 0 .. MaxRuns, version : 0 .. MaxAccess, creds : 0 .. MaxAccess,
               cookie : {"live", "revoked"}]]
        /\ accessVersion \in 0 .. MaxAccess
        /\ MaxAccess \in Nat
      BY BoundsAssumption DEF ServerTypeOK
  <1>1. phase[c] # "none" => req[c].at = "chat"
      BY DEF RunInv
  <1>2. c \in Inside => running /\ req[c].run = run
      BY DEF RunInv, InsideThisRun
  <1>3. req[c].version <= accessVersion
        /\ (req[c].at \in {"admitted", "authed"} /\ req[c].version = accessVersion => HasAccess(c))
      BY DEF AccessInv
  <1>4. CASE Arrive(c)
    <2>1. /\ req'[c].at = "arrived" /\ req'[c].version = 0
          /\ \A d \in Conns \ {c} : req'[d] = req[d]
          /\ req[c].at = "none"
        BY <1>0, <1>4 DEF Arrive
    <2>2. UNCHANGED <<vars, runVars, accessVars>>
        BY <1>4 DEF Arrive
    <2> QED
        BY <1>0, <1>1, <2>1, <2>2, OneRequest
  <1>5. CASE EnterServeHTTP(c)
    <2>1. /\ \A d \in Conns \ {c} : req'[d] = req[d]
          /\ req[c].at = "arrived"
          /\ \/ req'[c].at = "none" /\ req'[c].version = 0
             \/ /\ req'[c].at = "inside" /\ req'[c].version = req[c].version
                /\ req'[c].run = req[c].run /\ ContextLive(c)
        BY <1>0, <1>5 DEF EnterServeHTTP, NoRequest
    <2>2. UNCHANGED <<vars, runVars, accessVars>>
        BY <1>5 DEF EnterServeHTTP
    <2>3. ContextLive(c) => running /\ req[c].run = run
        BY DEF ContextLive, RunInv
    <2> QED
        BY <1>0, <1>1, <1>3, <2>1, <2>2, <2>3, OneRequest
  <1>6. CASE ReadAccessVersion(c) \/ CheckWebAccess(c) \/ Authenticate(c) \/ RefuseChat(c)
    <2>1. /\ \A d \in Conns \ {c} : req'[d] = req[d]
          /\ req[c].at \in {"inside", "versioned", "admitted", "authed"}
          /\ req'[c].run = req[c].run /\ req'[c].creds = req[c].creds
        BY <1>0, <1>6 DEF ReadAccessVersion, CheckWebAccess, Authenticate, RefuseChat
    <2>2. UNCHANGED <<vars, runVars, accessVars>>
        BY <1>6 DEF ReadAccessVersion, CheckWebAccess, Authenticate, RefuseChat
    <2>3. req'[c].version <= accessVersion
        BY <1>0, <1>3, <1>6 DEF ReadAccessVersion, CheckWebAccess, Authenticate, RefuseChat
    <2>4. req'[c].at \in {"admitted", "authed"} /\ req'[c].version = accessVersion
            => accessVersion \in OpenVersions \/ req'[c].creds = accessVersion
      <3>1. CASE ReadAccessVersion(c) \/ RefuseChat(c)
          BY <1>0, <3>1 DEF ReadAccessVersion, RefuseChat
      <3>2. CASE CheckWebAccess(c)
          BY <1>0, <3>2 DEF CheckWebAccess, HasAccess
      <3>3. CASE Authenticate(c)
          BY <1>0, <1>3, <3>3 DEF Authenticate, HasAccess
      <3> QED
          BY <1>6, <3>1, <3>2, <3>3
    <2>5. req[c].at \notin {"none", "arrived", "chat"}
        BY <2>1
    <2>6. running /\ req'[c].run = run /\ phase[c] = "none"
        BY <1>1, <1>2, <2>1, <2>5 DEF Inside
    <2> QED
        BY <2>1, <2>2, <2>3, <2>4, <2>6, OneRequest
  <1>7. CASE LeaveServeHTTP(c)
    <2>1. /\ \A d \in Conns \ {c} : req'[d] = req[d]
          /\ req[c].at = "leaving" \/ phase[c] = "none"
          /\ req'[c].at = "none" /\ req'[c].version = 0
        BY <1>0, <1>7 DEF LeaveServeHTTP, NoRequest
    <2>2. UNCHANGED <<vars, runVars, accessVars>>
        BY <1>7 DEF LeaveServeHTTP
    <2> QED
        BY <1>0, <1>1, <2>1, <2>2, OneRequest
  <1>8. CASE ReserveChat(c)
    <2>1. /\ \A d \in Conns \ {c} : req'[d] = req[d]
          /\ req[c].at = "authed" /\ req'[c].at = "chat"
          /\ req'[c].run = req[c].run /\ req'[c].creds = req[c].creds
          /\ req'[c].version = req[c].version /\ req[c].version = accessVersion
        BY <1>0, <1>8 DEF ReserveChat, AccessUnchanged
    <2>2. UNCHANGED <<running, lifecycle, run, canceled, gate, accessVersion, accessChange>>
          /\ UNCHANGED <<peers, generation>>
        BY <1>8 DEF ReserveChat, BeginHandler, hubState, runVars, accessVars
    <2>3. phase \in [Conns -> Phases] /\ gen \in [Conns -> Nat]
        BY DEF TypeOK, ServerTypeOK
    <2>4. \A d \in Conns \ {c} : phase'[d] = phase[d] /\ gen'[d] = gen[d]
        BY <1>8, <2>3 DEF ReserveChat, BeginHandler
    <2>5. \A d \in Conns : HasAccess(d)' <=> HasAccess(d)
        BY <2>1, <2>2 DEF HasAccess
    <2>6. HasAccess(c) /\ running /\ req[c].run = run
        BY <1>2, <1>3, <2>1 DEF Inside
    <2>7. RunInv'
        BY <2>1, <2>2, <2>4, <2>6 DEF RunInv, InsideThisRun, Inside
    <2>8. OnlineWithCurrentPassword'
        BY <2>2, <2>5 DEF AccessInv, OnlineWithCurrentPassword, Online
    <2>9. \A d \in Conns : req'[d].version <= accessVersion
        BY <2>1 DEF AccessInv
    <2>10. \A d \in Conns : req'[d].at \in {"admitted", "authed"} /\ req'[d].version = accessVersion
                             => HasAccess(d)'
        BY <2>1, <2>5 DEF AccessInv
    <2>11. \A d \in Conns : phase'[d] # "none" /\ gen'[d] = generation => HasAccess(d)' \/ accessChange
        BY <2>4, <2>5, <2>6 DEF AccessInv
    <2> QED
        BY <2>2, <2>7, <2>8, <2>9, <2>10, <2>11 DEF AccessInv
  <1> QED
      BY <1>4, <1>5, <1>6, <1>7, <1>8 DEF RequestProgress

\* Start and Stop: the steps that leave the hub alone, or only cut it off.
LEMMA LifecycleStep ==
  ASSUME ServerInv,
         StartResumesChat \/ StartServes \/ StopClosesGate \/ StopSteps
  PROVE  RunInv' /\ AccessInv'
  <1> USE DEF ServerInv
  <1>0. UNCHANGED <<req, accessVersion, accessChange>>
      BY DEF StartResumesChat, StartServes, StopClosesGate, StopSteps, StopCancels, StopPauses,
         StopShutsDown, StopReturns, accessVars
  <1>1. HubKeeps
    <2>1. CASE StartResumesChat
        BY <2>1, BoundaryKeeps DEF StartResumesChat, Resume, ServerTypeOK
    <2>2. CASE StopPauses
        BY <2>2, BoundaryKeeps DEF StopPauses, Pause, ServerTypeOK
    <2>3. CASE StartServes \/ StopClosesGate \/ StopCancels \/ StopShutsDown \/ StopReturns
        BY <2>3, SameHubKeeps DEF StartServes, StopClosesGate, StopCancels, StopShutsDown,
           StopReturns, ServerTypeOK
    <2> QED
        BY <2>1, <2>2, <2>3 DEF StopSteps
  <1>2. \A c \in Conns : phase'[c] # "none" => req[c].at = "chat"
      BY <1>1 DEF HubKeeps, RunInv
  <1>3. Inside' = Inside
      BY <1>0 DEF Inside
  <1>4. RunInv'
    <2>1. CASE StartResumesChat
        BY <1>0, <1>2, <1>3, <2>1 DEF StartResumesChat, RunInv, InsideThisRun
    <2>2. CASE StartServes
      <3>1. Inside = {}
          BY <2>2 DEF StartServes, RunInv, InsideThisRun
      <3> QED
          BY <1>0, <1>2, <1>3, <2>2, <3>1 DEF StartServes, RunInv, InsideThisRun
    <2>3. CASE StopClosesGate \/ StopCancels
        BY <1>0, <1>2, <1>3, <2>3 DEF StopClosesGate, StopCancels, RunInv, InsideThisRun
    <2>4. CASE StopPauses \/ StopShutsDown
        BY <1>0, <1>2, <1>3, <2>4 DEF StopPauses, StopShutsDown, RunInv, InsideThisRun
    <2>5. CASE StopReturns
        BY <1>0, <1>2, <1>3, <2>5 DEF StopReturns, RunInv, InsideThisRun
    <2> QED
        BY <2>1, <2>2, <2>3, <2>4, <2>5 DEF StopSteps
  <1>5. AccessInv'
      BY <1>0, <1>1, AccessKept
  <1> QED
      BY <1>4, <1>5

\* SetAccess: until its second critical section nothing is promised.
LEMMA SetAccessStep ==
  ASSUME ServerInv, SetAccess
  PROVE  RunInv' /\ AccessInv'
  <1> USE DEF ServerInv
  <1>1. UNCHANGED <<vars, runVars, req>> /\ accessChange' = TRUE /\ accessVersion' = accessVersion + 1
      BY DEF SetAccess
  <1>2. UNCHANGED <<peers, phase, gen, generation, running, lifecycle, run, canceled>>
      BY <1>1 DEF vars, hubState, connVars, runVars
  <1>3. RunInv'
      BY <1>1, <1>2 DEF RunInv, InsideThisRun, Inside
  <1>4. accessVersion \in Nat /\ \A c \in Conns : req[c].version \in Nat
      BY BoundsAssumption DEF ServerTypeOK
  <1>5. \A c \in Conns : req[c].version < accessVersion'
      BY <1>1, <1>4 DEF AccessInv
  <1>6. \A c \in Conns : req'[c].version <= accessVersion' /\ req'[c].version # accessVersion'
      BY <1>1, <1>4, <1>5
  <1> QED
      BY <1>1, <1>3, <1>6 DEF AccessInv, OnlineWithCurrentPassword

LEMMA SetAccessDisconnectsStep ==
  ASSUME ServerInv, SetAccessDisconnects
  PROVE  RunInv' /\ AccessInv'
  <1> USE ConstantsAssumption DEF ServerInv
  <1>1. UNCHANGED <<runVars, req, accessVersion>> /\ BumpGeneration /\ DetachAll
        /\ UNCHANGED <<phase, gen>>
      BY DEF SetAccessDisconnects, Disconnect, connVars
  <1>2. RunInv'
      BY <1>1 DEF RunInv, InsideThisRun, Inside, runVars
  <1>3. Online' = {}
      BY <1>1 DEF Online, DetachAll, EmptyRegistry
  <1>4. \A c \in Conns : gen[c] # generation'
      BY <1>1 DEF BumpGeneration, RegistryInv, GenerationBound, TypeOK
  <1>5. \A c \in Conns : HasAccess(c)' <=> HasAccess(c)
      BY <1>1 DEF HasAccess
  <1> QED
      BY <1>1, <1>2, <1>3, <1>4, <1>5 DEF AccessInv, OnlineWithCurrentPassword

LEMMA RevocationStep ==
  ASSUME ServerInv, NEW i \in Identities, RevokeSessions(i) \/ RevocationDisconnects(i)
  PROVE  RunInv' /\ AccessInv'
  <1> USE ConstantsAssumption DEF ServerInv
  <1>1. CASE RevokeSessions(i)
    <2>1. UNCHANGED <<peers, phase, gen, generation, running, lifecycle, run, canceled,
                      accessVersion, accessChange>>
        BY <1>1 DEF RevokeSessions, vars, hubState, connVars, runVars
    <2>2. \A c \in Conns : /\ req'[c].at = req[c].at /\ req'[c].run = req[c].run
                           /\ req'[c].version = req[c].version /\ req'[c].creds = req[c].creds
        BY <1>1 DEF RevokeSessions, ServerTypeOK
    <2>3. \A c \in Conns : HasAccess(c)' <=> HasAccess(c)
        BY <2>1, <2>2 DEF HasAccess
    <2>4. Online' = Online
        BY <2>1 DEF Online
    <2>5. RunInv'
        BY <2>1, <2>2 DEF RunInv, InsideThisRun, Inside
    <2>6. OnlineWithCurrentPassword'
        BY <2>1, <2>3, <2>4 DEF AccessInv, OnlineWithCurrentPassword, Online
    <2>7. \A c \in Conns : req'[c].version <= accessVersion
        BY <2>2 DEF AccessInv
    <2>8. \A c \in Conns : req'[c].at \in {"admitted", "authed"} /\ req'[c].version = accessVersion
                             => HasAccess(c)'
        BY <2>2, <2>3 DEF AccessInv
    <2>9. \A c \in Conns : phase[c] # "none" /\ gen[c] = generation => HasAccess(c)' \/ accessChange
        BY <2>3 DEF AccessInv
    <2> QED
        BY <2>1, <2>5, <2>6, <2>7, <2>8, <2>9 DEF AccessInv
  <1>2. CASE RevocationDisconnects(i)
    <2>1. UNCHANGED <<runVars, accessVersion, accessChange, req>> /\ DetachIdentity(i)
          /\ UNCHANGED <<hubState, connVars>>
        BY <1>2 DEF RevocationDisconnects, DisconnectIdentity
    <2>2. Online' \subseteq Online
        BY <2>1 DEF Online, DetachIdentity
    <2>3. UNCHANGED <<phase, gen, generation>> /\ generation \in Nat
        BY <2>1 DEF hubState, connVars, ServerTypeOK, TypeOK
    <2>4. HubKeeps
        BY <2>2, <2>3 DEF HubKeeps
    <2> QED
        BY <2>1, <2>4, HubKeepsServer
  <1> QED
      BY <1>1, <1>2

-----------------------------------------------------------------------------
(* The type, and the theorems.                                             *)

LEMMA ServerTypeStep ==
  ASSUME ServerInv, [ServerNext]_allVars, TypeOK'
  PROVE  ServerTypeOK'
  <1> USE BoundsAssumption DEF ServerInv, ServerTypeOK
  <1>1. CASE UNCHANGED allVars
      BY <1>1 DEF allVars, serverVars, runVars, accessVars
  <1>2. CASE StartResumesChat \/ StopClosesGate \/ StopSteps
      BY <1>2 DEF StartResumesChat, StopClosesGate, StopSteps, StopCancels, StopPauses,
         StopShutsDown, StopReturns, accessVars
  <1>3. CASE StartServes
    <2>1. run' \in 0 .. MaxRuns
        BY <1>3 DEF StartServes, RunInv
    <2>2. UNCHANGED <<accessVersion, accessChange, revoking, req>>
        BY <1>3 DEF StartServes, accessVars
    <2> QED
        BY <1>3, <2>1, <2>2 DEF StartServes
  <1>4. CASE SetAccess \/ SetAccessDisconnects
    <2>1. UNCHANGED <<running, lifecycle, run, canceled, gate, revoking, req>>
        BY <1>4 DEF SetAccess, SetAccessDisconnects, runVars
    <2>2. accessVersion' \in 0 .. MaxAccess
        BY <1>4 DEF SetAccess, SetAccessDisconnects
    <2>3. accessChange' \in BOOLEAN
        BY <1>4, Zenon DEF SetAccess, SetAccessDisconnects
    <2> QED
        BY <2>1, <2>2, <2>3
  <1>5. ASSUME NEW i \in Identities, RevokeSessions(i) PROVE ServerTypeOK'
      BY <1>5 DEF RevokeSessions, runVars
  <1>6. ASSUME NEW i \in Identities, RevocationDisconnects(i) PROVE ServerTypeOK'
      BY <1>6 DEF RevocationDisconnects, runVars
  <1>7. ASSUME NEW c \in Conns, Arrive(c) PROVE ServerTypeOK'
      BY <1>7 DEF Arrive, runVars, accessVars
  <1>8. ASSUME NEW c \in Conns, RequestProgress(c) PROVE ServerTypeOK'
    <2>1. UNCHANGED <<runVars, accessVars>>
        BY <1>8 DEF RequestProgress, EnterServeHTTP, ReadAccessVersion, CheckWebAccess,
           Authenticate, ReserveChat, RefuseChat, LeaveServeHTTP
    <2>2. CASE EnterServeHTTP(c) \/ LeaveServeHTTP(c)
        BY <2>1, <2>2 DEF EnterServeHTTP, LeaveServeHTTP, NoRequest, runVars, accessVars
    <2>3. CASE ReadAccessVersion(c)
        BY <2>1, <2>3 DEF ReadAccessVersion, runVars, accessVars
    <2>4. CASE CheckWebAccess(c) \/ Authenticate(c) \/ ReserveChat(c) \/ RefuseChat(c)
        BY <2>1, <2>4 DEF CheckWebAccess, Authenticate, ReserveChat, RefuseChat, runVars, accessVars
    <2> QED
        BY <1>8, <2>2, <2>3, <2>4 DEF RequestProgress
  <1>9. CASE HubStep
      BY <1>9 DEF HubStep, serverVars, runVars, accessVars
  <1> QED
      BY <1>1, <1>2, <1>3, <1>4, <1>5, <1>6, <1>7, <1>8, <1>9 DEF ServerNext

LEMMA ServerStep == ServerInv /\ [ServerNext]_allVars => ServerInv'
  <1> SUFFICES ASSUME ServerInv, [ServerNext]_allVars PROVE ServerInv'
      OBVIOUS
  <1>1. [Next]_vars
      BY ServerStepIsHubStep
  <1>2. RegistryInv'
      BY <1>1, RegistryStep DEF ServerInv
  <1>3. TypeOK /\ TypeOK'
      BY <1>2 DEF ServerInv, RegistryInv
  <1>4. SlotsExact'
      BY <1>1, <1>3, SlotsStep DEF ServerInv
  <1>5. ServerTypeOK'
      BY <1>3, ServerTypeStep
  <1>6. RunInv' /\ AccessInv'
    <2>1. CASE UNCHANGED allVars
      <3>1. UNCHANGED vars /\ UNCHANGED <<runVars, req, accessVersion>> /\ accessChange' = accessChange
          BY <2>1 DEF allVars, serverVars, accessVars
      <3> QED
          BY <1>3, <3>1, SameHubKeeps, HubKeepsServer
    <2>2. CASE HubStep
      <3>1. UNCHANGED <<runVars, req, accessVersion>> /\ accessChange' = accessChange
          BY <2>2 DEF HubStep, serverVars, accessVars
      <3> QED
          BY <2>2, <3>1, HubStepKeeps, HubKeepsServer DEF ServerInv
    <2> QED
        BY <2>1, <2>2, LifecycleStep, SetAccessStep, SetAccessDisconnectsStep, RevocationStep,
           RequestStep DEF ServerNext
  <1> QED
      BY <1>2, <1>4, <1>5, <1>6 DEF ServerInv

LEMMA ServerInitInv == ServerInit => ServerInv
  <1> SUFFICES ASSUME ServerInit PROVE ServerInv
      OBVIOUS
  <1> USE ConstantsAssumption, BoundsAssumption DEF ServerInit
  <1>1. RegistryInv /\ SlotsExact
      BY InitRegistry, InitSlots
  <1>2. \A c \in Conns : req[c] = NoRequest
      BY DEF ServerInit
  <1>3. ServerTypeOK
    <2>1. req \in [Conns -> {NoRequest}]
        BY DEF ServerInit
    <2>2. NoRequest \in
            [at : {"none", "arrived", "inside", "versioned", "admitted", "authed", "chat", "leaving"},
             run : 0 .. MaxRuns, version : 0 .. MaxAccess, creds : 0 .. MaxAccess,
             cookie : {"live", "revoked"}]
        BY DEF NoRequest
    <2>3. TypeOK /\ run \in 0 .. MaxRuns /\ accessVersion \in 0 .. MaxAccess
        BY <1>1 DEF RegistryInv
    <2> HIDE DEF NoRequest
    <2> QED
        BY <2>1, <2>2, <2>3 DEF ServerTypeOK
  <1>4. Inside = {} /\ Online = {}
      BY <1>2 DEF Inside, NoRequest, Online, Init, EmptyRegistry
  <1>5. \A c \in Conns : phase[c] = "none"
      BY DEF Init
  <1>6. RunInv
      BY <1>4, <1>5 DEF RunInv, InsideThisRun
  <1>7. AccessInv
      BY <1>2, <1>4, <1>5 DEF AccessInv, NoRequest, OnlineWithCurrentPassword
  <1> QED
      BY <1>1, <1>3, <1>6, <1>7 DEF ServerInv

\* The server's inductive invariant holds for every number of requests, runs
\* and passwords (Start, Stop, ServeHTTP, SetAccess, handleChatWebSocket).
THEOREM ServerCorrect == ServerSpec => []ServerInv
  <1>1. ServerInit => ServerInv
      BY ServerInitInv
  <1>2. ServerInv /\ [ServerNext]_allVars => ServerInv'
      BY ServerStep
  <1> QED
      BY <1>1, <1>2, PTL DEF ServerSpec

\* The server runs the registry as ChatHub has it: what is proved of the
\* registry alone, the refinement of ChatSessions included, holds inside it.
THEOREM ServerImplementsHub == ServerSpec => Spec
  <1>1. ServerInit => Init
      BY DEF ServerInit
  <1> QED
      BY <1>1, ServerStepIsHubStep, PTL DEF ServerSpec, Spec

\* A server that has stopped has no request inside, no slot in use and nobody
\* online: Stop waits for handlerWG, whatever pause answered.
THEOREM StoppedServerIsQuiet == ServerSpec => []StoppedIsQuiet
  <1>1. ServerInv => StoppedIsQuiet
    <2> SUFFICES ASSUME ServerInv, ~running PROVE Inside = {} /\ active = 0 /\ Online = {}
        BY DEF StoppedIsQuiet
    <2>1. Inside = {}
        BY DEF ServerInv, RunInv, InsideThisRun
    <2>2. \A c \in Conns : phase[c] = "none"
        BY <2>1 DEF ServerInv, RunInv, Inside
    <2>3. Handlers = {}
        BY <2>2 DEF Handlers
    <2>4. active = 0
        BY <2>3, FS_EmptySet DEF ServerInv, SlotsExact
    <2>5. Online = {}
        BY <2>2, OnlineHasHandler DEF ServerInv, Online
    <2> QED
        BY <2>1, <2>4, <2>5
  <1> QED
      BY <1>1, ServerCorrect, PTL

\* No request accepted for an earlier run is inside a later one.
THEOREM RunsDoNotMix == ServerSpec => []InsideThisRun
  <1>1. ServerInv => InsideThisRun
      BY DEF ServerInv, RunInv
  <1> QED
      BY <1>1, ServerCorrect, PTL

\* Nobody stays online with an old web password once SetAccess has returned.
THEOREM PasswordChangeCuts == ServerSpec => []OnlineWithCurrentPassword
  <1>1. ServerInv => OnlineWithCurrentPassword
      BY DEF ServerInv, AccessInv
  <1> QED
      BY <1>1, ServerCorrect, PTL
=============================================================================
