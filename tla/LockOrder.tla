------------------------------ MODULE LockOrder ------------------------------
(***************************************************************************)
(* The locks of the server and who waits for whom. chatHub.mu guards the   *)
(* chat, DB.attachmentMu the attachment files, Server.lifecycleMu start    *)
(* and stop. Most critical sections wait for nothing inside and are one    *)
(* step here. Two are not: an upload holds attachmentMu for as long as the *)
(* browser sends its body (no deadline is set for it), and a recall, or a  *)
(* message that carries its image or file, holds chatHub.mu while it waits *)
(* for attachmentMu.                                                       *)
(***************************************************************************)
EXTENDS Naturals

CONSTANTS
  Uploads,    \* HTTP requests that stream an attachment
  Recalls,    \* recalls and messages with inline data, of browsers
  Deletions,  \* DeleteChatMessage, RemoveChatVisitor, ClearChatHistory
  Switches,   \* calls of SetChatEnabled from the desktop
  Stops       \* calls of Server.Stop

ASSUME LocksAssumption ==
  /\ Uploads \cap (Recalls \cup Deletions \cup Switches \cup Stops) = {}
  /\ Recalls \cap (Deletions \cup Switches \cup Stops) = {}
  /\ Deletions \cap (Switches \cup Stops) = {}
  /\ Switches \cap Stops = {}

VARIABLES
  at,      \* at[p]: where the call p is
  gate,    \* handlerAccepting
  severed  \* Shutdown timed out and Close cut the connections

lockVars == <<at, gate, severed>>

Calls == Uploads \cup Recalls \cup Deletions \cup Switches \cup Stops
Go(p, there) == at' = [at EXCEPT ![p] = there]

HubFree  == ~\E r \in Recalls : at[r] = "holding the hub"
LifeFree == ~\E s \in Stops : at[s] \in {"stopping", "paused", "severing"}

StoreFree_OnlyAfterPublishing == ~\E u \in Uploads : at[u] \in {"streaming", "saved"}
StoreFree == ~\E u \in Uploads : at[u] = "streaming"

LocksInit == at = [p \in Calls |-> "idle"] /\ gate = TRUE /\ severed = FALSE

-----------------------------------------------------------------------------
\* A browser begins an upload; the gate is passed and the hub admits it.
Begin(u) == at[u] = "idle" /\ gate /\ Go(u, "arrived") /\ UNCHANGED <<gate, severed>>
AdmitUpload(u) == at[u] = "arrived" /\ HubFree /\ Go(u, "admitted") /\ UNCHANGED <<gate, severed>>
TakeStore(u) == at[u] = "admitted" /\ StoreFree /\ Go(u, "streaming") /\ UNCHANGED <<gate, severed>>

\* The browser has sent everything, or hangs up.
BodyEnds(u) == at[u] = "streaming" /\ Go(u, "saved") /\ UNCHANGED <<gate, severed>>
BodyCut(u)  == at[u] = "streaming" /\ severed /\ Go(u, "done") /\ UNCHANGED <<gate, severed>>
Publish(u)  == at[u] = "saved" /\ HubFree /\ Go(u, "done") /\ UNCHANGED <<gate, severed>>

Request(p) ==
  /\ p \in Recalls \cup Deletions \cup Switches \cup Stops
  /\ at[p] = "idle" /\ Go(p, "called")
  /\ UNCHANGED <<gate, severed>>

RecallTakesHub(r) == at[r] = "called" /\ HubFree /\ Go(r, "holding the hub") /\ UNCHANGED <<gate, severed>>
RecallRefused(r) == at[r] = "called" /\ HubFree /\ Go(r, "done") /\ UNCHANGED <<gate, severed>>
RecallReturns(r) == at[r] = "holding the hub" /\ StoreFree /\ Go(r, "done") /\ UNCHANGED <<gate, severed>>

\* Memory under the hub's lock, rows and files after it.
DeletionUnlocks(d) == at[d] = "called" /\ HubFree /\ Go(d, "unlocked") /\ UNCHANGED <<gate, severed>>
DeletionReturns(d) == at[d] = "unlocked" /\ StoreFree /\ Go(d, "done") /\ UNCHANGED <<gate, severed>>

SwitchReturns(w) == at[w] = "called" /\ HubFree /\ Go(w, "done") /\ UNCHANGED <<gate, severed>>

\* Stop: lifecycleMu, the gate, the hub for pause, and only then the
\* connections, of which Close cuts those that Shutdown waited for in vain.
StopTakesLife(s) ==
  at[s] = "called" /\ LifeFree /\ Go(s, "stopping") /\ gate' = FALSE /\ UNCHANGED severed
StopPausesHub(s) == at[s] = "stopping" /\ HubFree /\ Go(s, "paused") /\ UNCHANGED <<gate, severed>>
StopSevers(s) == at[s] = "paused" /\ Go(s, "severing") /\ severed' = TRUE /\ UNCHANGED gate
HandlersReturned == \A p \in Uploads \cup Recalls : at[p] \in {"idle", "done"}
StopReturned(s) ==
  /\ at[s] = "severing"
  /\ HandlersReturned
  /\ Go(s, "done") /\ UNCHANGED <<gate, severed>>

-----------------------------------------------------------------------------
\* What the server does by itself, once it may.
UploadStep(u)   == AdmitUpload(u) \/ TakeStore(u) \/ BodyCut(u) \/ Publish(u)
RecallStep(r)   == RecallTakesHub(r) \/ RecallRefused(r) \/ RecallReturns(r)
DeletionStep(d) == DeletionUnlocks(d) \/ DeletionReturns(d)
StopStep(s)     == StopTakesLife(s) \/ StopPausesHub(s) \/ StopSevers(s) \/ StopReturned(s)

LocksNext ==
  \/ \E u \in Uploads : Begin(u) \/ BodyEnds(u) \/ UploadStep(u)
  \/ \E p \in Calls : Request(p)
  \/ \E r \in Recalls : RecallStep(r)
  \/ \E d \in Deletions : DeletionStep(d)
  \/ \E w \in Switches : SwitchReturns(w)
  \/ \E s \in Stops : StopStep(s)

\* Go's mutexes do not starve a waiter; nothing is assumed of browsers.
LocksFairness ==
  /\ \A u \in Uploads : SF_lockVars(UploadStep(u))
  /\ \A r \in Recalls : SF_lockVars(RecallStep(r))
  /\ \A d \in Deletions : SF_lockVars(DeletionStep(d))
  /\ \A w \in Switches : SF_lockVars(SwitchReturns(w))
  /\ \A s \in Stops : SF_lockVars(StopStep(s))

LocksSpec == LocksInit /\ [][LocksNext]_lockVars
FairLocksSpec == LocksSpec /\ LocksFairness

-----------------------------------------------------------------------------
(* Properties. *)

UploadPlaces == {"idle", "arrived", "admitted", "streaming", "saved", "done"}
RecallPlaces == {"idle", "called", "holding the hub", "done"}
DeletionPlaces == {"idle", "called", "unlocked", "done"}
SwitchPlaces == {"idle", "called", "done"}
StopPlaces == {"idle", "called", "stopping", "paused", "severing", "done"}
Positions == UploadPlaces \cup RecallPlaces \cup DeletionPlaces \cup SwitchPlaces \cup StopPlaces

Fits(p, there) ==
  /\ p \in Uploads => there \in UploadPlaces
  /\ p \in Recalls => there \in RecallPlaces
  /\ p \in Deletions => there \in DeletionPlaces
  /\ p \in Switches => there \in SwitchPlaces
  /\ p \in Stops => there \in StopPlaces

\* Every call is where its kind can be, and no lock has two holders.
LocksTypeOK ==
  /\ at \in [Calls -> Positions] /\ gate \in BOOLEAN /\ severed \in BOOLEAN
  /\ \A p \in Calls : Fits(p, at[p])
  /\ \A u, v \in Uploads : at[u] = "streaming" /\ at[v] = "streaming" => u = v
  /\ \A r, q \in Recalls : at[r] = "holding the hub" /\ at[q] = "holding the hub" => r = q

\* Somebody the server's own steps can move.
SomebodyMoves ==
  \/ \E u \in Uploads : \/ at[u] = "arrived" /\ HubFree
                        \/ at[u] = "admitted" /\ StoreFree
                        \/ at[u] = "saved" /\ HubFree
  \/ \E p \in Recalls \cup Deletions \cup Switches : at[p] = "called" /\ HubFree
  \/ \E r \in Recalls : at[r] = "holding the hub" /\ StoreFree
  \/ \E d \in Deletions : at[d] = "unlocked" /\ StoreFree
  \/ \E s \in Stops : \/ at[s] = "called" /\ LifeFree
                      \/ at[s] = "stopping" /\ HubFree
                      \/ at[s] = "paused"
                      \/ at[s] = "severing" /\ HandlersReturned

\* The locks alone never deadlock: when calls are open, one of them can take
\* its next step, or a browser that streams an upload is what all wait for.
WaitsEndAtBrowser ==
  (\E p \in Calls : at[p] \notin {"idle", "done"})
    => SomebodyMoves \/ \E u \in Uploads : at[u] = "streaming"

\* "SetChatEnabled controls new chat connections. Disabling also removes all
\* currently connected visitors without blocking the calling (GUI) thread":
\* once the desktop calls it, it returns.
SwitchNeverBlocks == \A w \in Switches : at[w] = "called" ~> at[w] = "done"
=============================================================================
