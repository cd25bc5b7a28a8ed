------------------------------- MODULE ClawBot -------------------------------
(***************************************************************************)
(* The WeChat bridge of one account (accounts share a lock and nothing     *)
(* else): a QR code is polled until it is confirmed, a monitor then reads  *)
(* the bot's messages, and the binding - status, token, cursor, messages - *)
(* is saved under the lock. Every call of the service is made without it.  *)
(* WeChat gives a new token for every confirmed code: code and bot have    *)
(* one number here, and 0 is none.                                         *)
(***************************************************************************)
EXTENDS Naturals, Sequences, Subsequences

CONSTANTS
  Monitors,    \* goroutines that may be reading messages at once
  NoMonitor,   \* no entry in the cancel map
  NoBinding,
  MaxShown,    \* clawBotMaxHistory
  MaxCodes,    \* bound of the model: QR codes asked for
  MaxInbox,    \* bound of the model: messages WeChat has for one bot
  MaxSends,    \* bound of the model: replies, forwards, switches of forwarding
  MaxTroubles  \* bound of the model: failed saves and restarts

ASSUME ClawAssumption ==
  /\ {MaxCodes, MaxInbox, MaxSends, MaxTroubles} \subseteq Nat /\ MaxShown \in Nat \ {0}
  /\ NoMonitor \notin Monitors

VARIABLES
  binding, bindingRow,   \* in memory and in the database
  polls,                 \* codes whose goroutine polls the service
  starts, deletes,       \* startMonitor calls and row deletions still to be made
  monitor, cancel,       \* the monitors, and the one the cancel map can stop
  sending, sends,        \* calls under way that send, and how many there were
  codes, inbox,          \* the service: codes given out, messages of each bot
  unheard, astray,       \* status and row that setError or a failure set apart
  troubles

clawService == <<codes, inbox>>
clawCalls == <<polls, starts, deletes, sending, sends>>
clawVars == <<binding, bindingRow, clawCalls, monitor, cancel, clawService, unheard, astray,
              troubles>>

Bots == 1..MaxCodes
\* UpdatesBuffer: the bot it was given for, and which messages it stands for.
NoCursor == [bot |-> 0, after |-> 0, upto |-> 0]
Unasked == [at |-> "off", live |-> FALSE, bot |-> 0, cursor |-> NoCursor, news |-> <<>>]

ClawInit ==
  /\ binding = NoBinding /\ bindingRow = NoBinding
  /\ polls = {} /\ starts = 0 /\ deletes = 0
  /\ monitor = [m \in Monitors |-> Unasked] /\ cancel = NoMonitor
  /\ sending = {} /\ sends = 0
  /\ codes = 0 /\ inbox = [b \in Bots |-> 0]
  /\ unheard = FALSE /\ astray = FALSE /\ troubles = 0

-----------------------------------------------------------------------------
(* saveLocked, and what several handlers share. *)

Cut(b) ==
  [b EXCEPT !.messages =
     IF Len(@) > MaxShown THEN SubSeq(@, Len(@) - MaxShown + 1, Len(@)) ELSE @]

\* The row is the whole binding; no caller undoes its change when saving fails.
SaveLocked(b, saved) ==
  /\ binding' = Cut(b)
  /\ \/ saved /\ bindingRow' = Cut(b) /\ astray' = FALSE /\ UNCHANGED troubles
     \/ /\ ~saved /\ troubles < MaxTroubles /\ troubles' = troubles + 1
        /\ astray' = TRUE /\ UNCHANGED bindingRow

Stopped == IF cancel = NoMonitor THEN monitor ELSE [monitor EXCEPT ![cancel].live = FALSE]

\* Every error is reported with the status "bound", whatever it was before.
SetError ==
  IF binding = NoBinding
    THEN UNCHANGED <<binding, bindingRow, unheard, astray, troubles>>
    ELSE /\ \E saved \in BOOLEAN : SaveLocked([binding EXCEPT !.status = "bound"], saved)
         /\ unheard' = (unheard \/ binding.status # "bound")

-----------------------------------------------------------------------------
(* Binding. *)

Bound == binding # NoBinding /\ binding.status = "bound"

\* The monitor is stopped at once; token, cursor and messages stay. Nobody
\* polls a code whose save failed.
StartQR(saved) ==
  /\ codes < MaxCodes /\ codes' = codes + 1
  /\ monitor' = Stopped /\ cancel' = NoMonitor
  /\ LET b == IF binding # NoBinding THEN binding
              ELSE [status |-> "unbound", code |-> 0, token |-> 0, cursor |-> NoCursor,
                    messages |-> <<>>, forward |-> FALSE]
     IN  SaveLocked([b EXCEPT !.status = "waiting", !.code = codes + 1], saved)
  /\ polls' = IF saved THEN polls \cup {codes + 1} ELSE polls
  /\ unheard' = FALSE
  /\ UNCHANGED <<inbox, starts, deletes, sending, sends>>

Polled(c) == c \in polls /\ polls' = polls \ {c}
Awaits(c) == binding # NoBinding /\ binding.code = c

QRConfirmed_WithoutMonitor(c) ==
  /\ Polled(c)
  /\ Awaits(c)
  /\ \E saved \in BOOLEAN :
       SaveLocked([binding EXCEPT !.status = "bound", !.token = c, !.code = 0], saved)
  /\ starts' = IF cancel = NoMonitor THEN starts + 1 ELSE starts
  /\ unheard' = FALSE
  /\ UNCHANGED <<clawService, monitor, cancel, deletes, sending, sends>>

\* The monitor is started after unlocking.
QRConfirmed(c) ==
  /\ Polled(c)
  /\ Awaits(c)
  /\ \E saved \in BOOLEAN :
       SaveLocked([binding EXCEPT !.status = "bound", !.token = c, !.code = 0], saved)
  /\ starts' = starts + 1
  /\ unheard' = FALSE
  /\ UNCHANGED <<clawService, monitor, cancel, deletes, sending, sends>>

\* setQRError: expired, or refused.
QRFailed(c) ==
  /\ Polled(c)
  /\ Awaits(c)
  /\ \E saved \in BOOLEAN : SaveLocked([binding EXCEPT !.status = "unbound", !.code = 0], saved)
  /\ unheard' = FALSE
  /\ UNCHANGED <<clawService, monitor, cancel, starts, deletes, sending, sends>>

\* Somebody unbound, or asked for another code.
QRForgotten(c) ==
  /\ Polled(c)
  /\ ~Awaits(c)
  /\ UNCHANGED <<binding, bindingRow, clawService, monitor, cancel, starts, deletes, sending,
                 sends, unheard, astray, troubles>>

Unbind ==
  /\ binding # NoBinding
  /\ binding' = NoBinding
  /\ monitor' = Stopped /\ cancel' = NoMonitor
  /\ deletes' = deletes + 1
  /\ unheard' = FALSE
  /\ UNCHANGED <<bindingRow, clawService, polls, starts, sending, sends, astray, troubles>>

\* DeleteClawBotBinding, after unlocking: by now there may be a new binding.
BindingDeleted ==
  /\ deletes > 0 /\ deletes' = deletes - 1
  /\ bindingRow' = NoBinding
  /\ astray' = (binding # NoBinding)
  /\ UNCHANGED <<binding, clawService, monitor, cancel, polls, starts, sending, sends, unheard,
                 troubles>>

SetForward ==
  /\ sends < MaxSends /\ sends' = sends + 1
  /\ Bound
  /\ \E saved \in BOOLEAN : SaveLocked([binding EXCEPT !.forward = ~@], saved)
  /\ UNCHANGED <<clawService, polls, starts, deletes, sending, monitor, cancel, unheard>>

-----------------------------------------------------------------------------
(* The monitor. *)

\* A goroutine that is not running; which one does not matter.
Idlers == {m \in Monitors : monitor[m].at = "off"}
NewMonitor == CHOOSE m \in Idlers : TRUE

StartMonitor ==
  /\ starts > 0 /\ starts' = starts - 1
  /\ Idlers # {}
  /\ monitor' = [Stopped EXCEPT ![NewMonitor] = [Unasked EXCEPT !.at = "started", !.live = TRUE]]
  /\ cancel' = NewMonitor
  /\ UNCHANGED <<binding, bindingRow, clawService, polls, deletes, sending, sends, unheard,
                 astray, troubles>>

Reach(m, place) ==
  monitor' = [monitor EXCEPT ![m] =
    [Unasked EXCEPT !.at = place, !.live = (place # "off" /\ monitor[m].live)]]
MonitorOnly == UNCHANGED <<binding, bindingRow, clawService, clawCalls, cancel, unheard, astray,
                           troubles>>

\* NotifyStart only if the binding is there; its failure is reported, and the
\* loop entered all the same.
MonitorStarts(m) ==
  /\ monitor[m].at = "started"
  /\ \/ Reach(m, IF Bound THEN "looping" ELSE "off") /\ MonitorOnly
     \/ Bound /\ monitor[m].live /\ Reach(m, "failed") /\ MonitorOnly

\* One turn of the loop: the binding is copied and the service asked.
MonitorAsks(m) ==
  /\ monitor[m].at = "looping"
  /\ monitor' = [monitor EXCEPT ![m] =
       IF @.live /\ Bound
         THEN [@ EXCEPT !.at = "asking", !.bot = binding.token, !.cursor = binding.cursor]
         ELSE Unasked]
  /\ MonitorOnly

\* The service's answer: what follows the cursor - of another bot's cursor it
\* makes what it likes - and the next cursor, or none.
News(m) ==
  LET c == monitor[m].cursor
      b == monitor[m].bot
      Following(after, from) ==
        [cursor : {[bot |-> b, after |-> after, upto |-> inbox[b]]} \cup {c},
         news : {[i \in 1..(inbox[b] - from) |-> <<b, from + i>>]}]
  IN  IF c.bot = b THEN Following(c.after, c.upto)
      ELSE UNION {Following(k, k) : k \in 0..inbox[b]}

MonitorAnswered(m) ==
  /\ monitor[m].at = "asking" /\ monitor[m].live /\ monitor[m].bot # 0
  /\ \E a \in News(m) :
       monitor' = [monitor EXCEPT ![m].at = "answered", ![m].cursor = a.cursor, ![m].news = a.news]
  /\ MonitorOnly

\* The context is looked at here, and the failure reported later.
MonitorFails(m) ==
  /\ monitor[m].at = "asking"
  /\ Reach(m, IF monitor[m].live THEN "failed" ELSE "off")
  /\ MonitorOnly

MonitorReports(m) ==
  /\ monitor[m].at = "failed"
  /\ Reach(m, "looping")
  /\ SetError
  /\ UNCHANGED <<clawService, clawCalls, cancel>>

Shown(b) == {b.messages[i] : i \in DOMAIN b.messages}
Unshown(m) ==
  LET news == monitor[m].news
  IN  EntriesAt(news, {i \in DOMAIN news : news[i] \notin Shown(binding)})

MonitorApplies_ShowsAgain(m) ==
  /\ monitor[m].at = "answered"
  /\ binding # NoBinding /\ binding.token = monitor[m].bot
  /\ \E saved \in BOOLEAN :
       SaveLocked([binding EXCEPT !.cursor = monitor[m].cursor,
                                  !.messages = @ \o monitor[m].news], saved)
  /\ Reach(m, "looping")
  /\ UNCHANGED <<clawService, clawCalls, cancel, unheard>>

\* Cursor and messages go into the binding together, whether or not the
\* monitor was stopped meanwhile; a message it has already is left out.
MonitorApplies(m) ==
  /\ monitor[m].at = "answered"
  /\ binding # NoBinding /\ binding.token = monitor[m].bot
  /\ \E saved \in BOOLEAN :
       SaveLocked([binding EXCEPT !.cursor = monitor[m].cursor, !.messages = @ \o Unshown(m)],
                  saved)
  /\ Reach(m, "looping")
  /\ UNCHANGED <<clawService, clawCalls, cancel, unheard>>

\* Another bot's, or nobody's, binding by now: the monitor ends.
MonitorDrops(m) ==
  /\ monitor[m].at = "answered"
  /\ ~(binding # NoBinding /\ binding.token = monitor[m].bot)
  /\ monitor' = [monitor EXCEPT ![m] = Unasked]
  /\ MonitorOnly

-----------------------------------------------------------------------------
(* Sending. *)

\* The message shown for a reply; its number is no bot's.
Reply(n) == <<0, n>>

\* sendText and sendMedia, and forwardIncoming of a chat message.
SendBegins(kind) ==
  /\ sends < MaxSends /\ kind \notin sending
  /\ Bound
  /\ sends' = sends + 1 /\ sending' = sending \cup {kind}
  /\ UNCHANGED <<binding, bindingRow, clawService, polls, starts, deletes, monitor, cancel,
                 unheard, astray, troubles>>

\* A reply is shown in whatever binding there is now; a forward is not shown.
SendSucceeds(kind) ==
  /\ kind \in sending /\ sending' = sending \ {kind}
  /\ IF kind = "forward" \/ binding = NoBinding
       THEN UNCHANGED <<binding, bindingRow, astray, troubles>>
       ELSE \E saved \in BOOLEAN :
              SaveLocked([binding EXCEPT !.messages = Append(@, Reply(sends))], saved)
  /\ UNCHANGED <<clawService, polls, starts, deletes, sends, monitor, cancel, unheard>>

SendFails(kind) ==
  /\ kind \in sending /\ sending' = sending \ {kind}
  /\ SetError
  /\ UNCHANGED <<clawService, polls, starts, deletes, sends, monitor, cancel>>

-----------------------------------------------------------------------------
\* A friend writes to a bot.
WeChatMessage(b) ==
  /\ b <= codes /\ inbox[b] < MaxInbox
  /\ inbox' = [inbox EXCEPT ![b] = @ + 1]
  /\ UNCHANGED <<binding, bindingRow, clawCalls, monitor, cancel, codes, unheard, astray, troubles>>

\* Another process; setPersistence loads the rows and starts the monitors of
\* the bound ones. A code that was waiting is polled no more.
ClawRestart ==
  /\ troubles < MaxTroubles /\ troubles' = troubles + 1
  /\ binding' = bindingRow
  /\ polls' = {} /\ sending' = {} /\ deletes' = 0
  /\ monitor' = [m \in Monitors |-> Unasked] /\ cancel' = NoMonitor
  /\ LET resumes == bindingRow # NoBinding /\ bindingRow.status = "bound"
     IN  /\ starts' = IF resumes /\ bindingRow.token # 0 THEN 1 ELSE 0
         /\ unheard' = (resumes /\ bindingRow.token = 0)
  /\ astray' = FALSE
  /\ UNCHANGED <<bindingRow, clawService, sends>>

-----------------------------------------------------------------------------
BindingStep(c) == QRConfirmed(c) \/ QRFailed(c) \/ QRForgotten(c)
MonitorStep(m) ==
  \/ MonitorStarts(m) \/ MonitorAsks(m) \/ MonitorAnswered(m)
  \/ MonitorFails(m) \/ MonitorReports(m) \/ MonitorApplies(m) \/ MonitorDrops(m)
SendStep(kind) == SendBegins(kind) \/ SendSucceeds(kind) \/ SendFails(kind)

ClawNext ==
  \/ \E saved \in BOOLEAN : StartQR(saved)
  \/ \E c \in Bots : BindingStep(c) \/ WeChatMessage(c)
  \/ Unbind \/ BindingDeleted \/ SetForward \/ StartMonitor
  \/ \E m \in Monitors : MonitorStep(m)
  \/ \E kind \in {"reply", "forward"} : SendStep(kind)
  \/ ClawRestart

ClawSpec == ClawInit /\ [][ClawNext]_clawVars

-----------------------------------------------------------------------------
(* Properties. *)

\* A message the service handed over is shown once, and a cursor never stands
\* for a message that is not shown, in memory and on disk, through stopped
\* monitors, restarts, failed saves and a second bot - unless the history is
\* full and older messages were cut.
NoMessageSkipped ==
  \A b \in {binding, bindingRow} \ {NoBinding} :
    /\ \A i, j \in DOMAIN b.messages : b.messages[i] = b.messages[j] => i = j
    /\ Len(b.messages) <= MaxShown
    /\ Len(b.messages) < MaxShown =>
         \A i \in (b.cursor.after + 1)..b.cursor.upto : <<b.cursor.bot, i>> \in Shown(b)

\* The row is the binding, so that a restart resumes it - unless a save failed,
\* or a late deletion took the row of a new binding, since the last save.
BindingOnDisk ==
  (deletes = 0 /\ ~astray) => bindingRow = binding

\* A bound account has a monitor that is not stopped, or one about to start;
\* except that an error reported late says "bound" of an account that is not.
\* And its row is the binding, so that it is heard again after a restart.
BoundIsHeard ==
  /\ Bound /\ ~unheard =>
       starts > 0 \/ (cancel # NoMonitor /\ monitor[cancel].live /\ monitor[cancel].at # "off")
  /\ BindingOnDisk
=============================================================================
