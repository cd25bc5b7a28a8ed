------------------------------ MODULE Settings ------------------------------
(***************************************************************************)
(* The settings: the program's copy, the row in the database, and what the *)
(* running server was told. On Windows the window saves them and starts    *)
(* and stops the server; on Linux the administration page posts them.      *)
(* Of the switches the user list and private messages are kept, because    *)
(* the second depends on the first; an address is a host with its ports.   *)
(* At a start of the Linux program an environment variable wins over the   *)
(* saved switch, and the flags do when nothing was saved yet.              *)
(***************************************************************************)
EXTENDS Naturals

CONSTANTS
  Forms,              \* calls that change the settings
  Addresses,          \* what the server can listen on
  Nowhere,
  MaxForms,           \* bound of the model: calls
  MaxSettingsMishaps  \* bound of the model: failing operations and crashes

ASSUME SettingsAssumption ==
  /\ {MaxForms, MaxSettingsMishaps} \subseteq Nat
  /\ Addresses # {} /\ Nowhere \notin Addresses

VARIABLES
  desktop,            \* the program is the Windows one
  current,            \* m.settings, or storedSettings of the Linux program
  fixed, given,       \* switches the environment sets; the values of the flags
  found,              \* settings have been saved
  settingsRow,        \* the settings in the database, or else the defaults
  live,               \* userListEnabled and privateEnabled of the server
  listening,          \* where its listeners are
  redirect,           \* where HTTP requests are sent on to
  running, transition,
  form,               \* the step each call takes next, and its copy of the settings
  overlapped,         \* posts have met since the last restart
  rowFailed,          \* the last save failed
  formsDone, settingsMishaps

flagVars == <<running, transition>>
asStarted == <<desktop, fixed, given>>
settingsVars == <<asStarted, found, current, settingsRow, live, listening, redirect, flagVars, form,
                  overlapped, rowFailed, formsDone, settingsMishaps>>

Setting == [address : Addresses, users : BOOLEAN, private : BOOLEAN]

\* validateModernSettings; the closure of the Linux program does the same.
Validated(s) == [s EXCEPT !.private = s.private /\ s.users]
SwitchesOf(s) == [users |-> s.users, private |-> s.private]

SwitchNames == {"users", "private"}
Flagged(switch) == ~found \/ switch \in fixed

StartSwitches(s) ==
  LET value(switch) == IF Flagged(switch) THEN given[switch] ELSE s[switch]
  IN  [users |-> value("users"), private |-> value("private") /\ value("users")]

\* Run: what a start makes of the row. The Windows program redirects to the
\* address of the row, takes another one when that is gone, and saves; the
\* Linux program listens where its flags say, here where the row does.
StartsFrom(row) ==
  /\ \E address \in IF desktop THEN Addresses ELSE {row.address} :
       current' = [row EXCEPT !.address = address]
  /\ rowFailed' \in IF desktop THEN BOOLEAN ELSE {FALSE}
  /\ settingsRow' = IF rowFailed' THEN row ELSE current'
  /\ live' = StartSwitches(row)
  /\ redirect' = row.address
  /\ listening' = IF desktop THEN Nowhere ELSE row.address
  /\ running' = FALSE /\ transition' = FALSE
  /\ form' = [f \in Forms |-> [step |-> "none", copy |-> row]]
  /\ overlapped' = FALSE
  /\ UNCHANGED found

\* The first start that is modelled. A flag that no start reads is TRUE.
SettingsInit ==
  /\ desktop \in BOOLEAN /\ found \in BOOLEAN
  /\ fixed \in SUBSET SwitchNames /\ given \in [SwitchNames -> BOOLEAN]
  /\ desktop => found /\ fixed = {}
  /\ \A switch \in SwitchNames : given[switch] \/ Flagged(switch)
  /\ current \in {s \in Setting : Validated(s) = s}
  /\ ~found => SwitchesOf(current) = [users |-> FALSE, private |-> FALSE]
  /\ settingsRow = current /\ live = StartSwitches(current)
  /\ IF desktop THEN redirect \in Addresses ELSE redirect = current.address
  /\ listening = IF desktop THEN Nowhere ELSE current.address
  /\ running = FALSE /\ transition = FALSE
  /\ form = [f \in Forms |-> [step |-> "none", copy |-> current]]
  /\ overlapped = FALSE /\ rowFailed = FALSE
  /\ formsDone = 0 /\ settingsMishaps = 0

Unused(f) == form[f].step = "none"
Quiet == \A f \in Forms : Unused(f)
At(f, step) == form[f].step = step
Goes(f, step) == form' = [form EXCEPT ![f].step = step]
GoesWith(f, step, s) == form' = [form EXCEPT ![f] = [step |-> step, copy |-> s]]

\* The window's library runs its calls one after the other, on the thread of
\* the window; each administration request has a goroutine of its own.
Asks(f) ==
  /\ formsDone < MaxForms /\ formsDone' = formsDone + 1
  /\ Unused(f) /\ (desktop => Quiet)
  /\ UNCHANGED <<asStarted, settingsMishaps>>

SettingsMishap ==
  /\ settingsMishaps < MaxSettingsMishaps /\ settingsMishaps' = settingsMishaps + 1
  /\ UNCHANGED <<asStarted, formsDone>>

Within == UNCHANGED <<asStarted, formsDone, settingsMishaps>>

-----------------------------------------------------------------------------
(* What every call does to the server and to the database. *)

\* SetUserListEnabled, which takes private messages away with the list ...
SetsUserList(f) ==
  /\ At(f, "user list")
  /\ live' = LET users == form[f].copy.users
             IN  [users |-> users, private |-> users /\ live.private]
  /\ Goes(f, "private messages")
  /\ Within
  /\ UNCHANGED <<found, current, settingsRow, listening, redirect, flagVars, overlapped, rowFailed>>

\* ... and SetPrivateMessagesEnabled, which asks for it.
NextStep(f) == IF transition THEN "listen" ELSE "save"

SetsPrivateMessages(f) ==
  /\ At(f, "private messages")
  /\ live' = [live EXCEPT !.private = form[f].copy.private /\ live.users]
  /\ Goes(f, NextStep(f))
  /\ Within
  /\ UNCHANGED <<found, current, settingsRow, listening, redirect, flagVars, overlapped, rowFailed>>

\* The Linux program copies the form into storedSettings first.
SavesSettings(f) ==
  /\ At(f, "save")
  /\ current' = IF desktop THEN current ELSE form[f].copy
  /\ \/ Within /\ settingsRow' = form[f].copy /\ found' = TRUE /\ rowFailed' = FALSE
     \/ SettingsMishap /\ UNCHANGED <<settingsRow, found>> /\ rowFailed' = TRUE
  /\ Goes(f, "none")
  /\ UNCHANGED <<live, listening, redirect, flagVars, overlapped>>

-----------------------------------------------------------------------------
(* The administration page: the settings case of serveAdmin. *)

PostsSettings(f, s) ==
  /\ ~desktop /\ Asks(f)
  /\ GoesWith(f, "user list", Validated([s EXCEPT !.address = current.address]))
  /\ overlapped' = (overlapped \/ ~Quiet)
  /\ UNCHANGED <<found, current, settingsRow, live, listening, redirect, flagVars, rowFailed>>

-----------------------------------------------------------------------------
(* The window. *)

\* saveSettings: a running server keeps its address. A mutant moves it.
SaveSettings_WhileRunning(f, s) ==
  /\ desktop /\ Asks(f) /\ ~transition
  /\ current' = Validated(s)
  /\ redirect' = s.address
  /\ GoesWith(f, "user list", Validated(s))
  /\ UNCHANGED <<found, settingsRow, live, listening, flagVars, overlapped, rowFailed>>

SaveSettings(f, s) ==
  /\ desktop /\ Asks(f) /\ ~transition
  /\ running => s.address = current.address
  /\ current' = Validated(s)
  /\ redirect' = s.address
  /\ GoesWith(f, "user list", Validated(s))
  /\ UNCHANGED <<found, settingsRow, live, listening, flagVars, overlapped, rowFailed>>

\* toggleServer works on a copy; the address comes from the page and may be refused.
ToggleStarts(f, address) ==
  /\ desktop /\ Asks(f) /\ ~transition /\ ~running
  /\ \/ /\ transition' = TRUE
        /\ GoesWith(f, "user list", Validated([current EXCEPT !.address = address]))
        /\ redirect' = address
     \/ UNCHANGED <<transition, form, redirect>>
  /\ UNCHANGED <<found, current, settingsRow, live, listening, running, overlapped, rowFailed>>

\* The listeners open, and the copy becomes the settings ...
ServerStarted(f) ==
  /\ At(f, "listen")
  /\ listening' = form[f].copy.address
  /\ running' = TRUE /\ transition' = FALSE
  /\ current' = form[f].copy
  /\ Goes(f, "save")
  /\ Within /\ UNCHANGED <<found, settingsRow, live, redirect, overlapped, rowFailed>>

\* ... or there is no certificate, or a port is taken; a mutant keeps the copy.
ServerNotStarted_KeepsCopy(f) ==
  /\ At(f, "listen") /\ SettingsMishap
  /\ transition' = FALSE
  /\ current' = form[f].copy
  /\ Goes(f, "none")
  /\ UNCHANGED <<found, settingsRow, live, listening, redirect, running, overlapped, rowFailed>>

ServerNotStarted(f) ==
  /\ At(f, "listen") /\ SettingsMishap
  /\ transition' = FALSE
  /\ Goes(f, "none")
  /\ UNCHANGED <<found, current, settingsRow, live, listening, redirect, running, overlapped, rowFailed>>

\* Stop closes the listeners even when it reports an error; the window then
\* goes on saying that the server runs, until it is stopped again.
ToggleStops(f) ==
  /\ desktop /\ Unused(f) /\ Quiet /\ ~transition /\ running
  /\ listening' = Nowhere
  /\ \/ Asks(f) /\ running' = FALSE /\ GoesWith(f, "save", current)
     \/ SettingsMishap /\ UNCHANGED <<running, form>>
  /\ UNCHANGED <<found, current, settingsRow, live, redirect, transition, overlapped, rowFailed>>

\* generateCertificate keeps the server stopped, and saves the settings too.
GeneratesCertificate(f) ==
  /\ desktop /\ Asks(f) /\ ~running /\ ~transition
  /\ transition' = TRUE
  /\ GoesWith(f, "certificate", current)
  /\ UNCHANGED <<found, current, settingsRow, live, listening, redirect, running, overlapped, rowFailed>>

\* finishCertificateGeneration; a failed generation saves nothing.
CertificateDone(f) ==
  /\ At(f, "certificate")
  /\ \/ Within /\ settingsRow' = form[f].copy /\ rowFailed' = FALSE /\ current' = form[f].copy
     \/ SettingsMishap /\ UNCHANGED <<settingsRow, current>> /\ rowFailed' \in {rowFailed, TRUE}
  /\ transition' = FALSE
  /\ Goes(f, "none")
  /\ UNCHANGED <<found, live, listening, redirect, running, overlapped>>

-----------------------------------------------------------------------------
(* The end of the program and its next start. *)

\* cleanup saves the settings, and does not ask whether it worked.
Exits ==
  /\ desktop /\ Quiet
  /\ formsDone < MaxForms /\ formsDone' = formsDone + 1
  /\ UNCHANGED <<asStarted, settingsMishaps>>
  /\ \E row \in {settingsRow, current} : StartsFrom(row)

\* A crash, or the end of the Linux program, which saves nothing.
EndsUnsaved == SettingsMishap /\ StartsFrom(settingsRow)

SettingsNext ==
  \/ \E f \in Forms :
       \/ SetsUserList(f) \/ SetsPrivateMessages(f) \/ SavesSettings(f)
       \/ ServerStarted(f) \/ ServerNotStarted(f) \/ ToggleStops(f)
       \/ GeneratesCertificate(f) \/ CertificateDone(f)
       \/ \E s \in Setting : PostsSettings(f, s) \/ SaveSettings(f, s)
       \/ \E address \in Addresses : ToggleStarts(f, address)
  \/ Exits
  \/ EndsUnsaved

SettingsSpec == SettingsInit /\ [][SettingsNext]_settingsVars

-----------------------------------------------------------------------------
(* Properties. *)

SettingsTypeOK ==
  /\ fixed \subseteq SwitchNames /\ given \in [SwitchNames -> BOOLEAN]
  /\ {desktop, found, running, transition, overlapped, rowFailed} \subseteq BOOLEAN
  /\ {current, settingsRow} \subseteq Setting
  /\ live \in [users : BOOLEAN, private : BOOLEAN]
  /\ listening \in Addresses \cup {Nowhere} /\ redirect \in Addresses
  /\ form \in [Forms -> [step : {"none", "user list", "private messages", "listen", "save",
                                 "certificate"}, copy : Setting]]
  /\ formsDone \in 0 .. MaxForms /\ settingsMishaps \in 0 .. MaxSettingsMishaps

\* Posted settings hold for such a switch only until the next start.
Overridden(switch) ==
  switch \in fixed \/ (switch = "private" /\ "users" \in fixed /\ ~given["users"])

\* When no call is under way and the last save worked, the server behaves as
\* a start from the database would make it, whichever of several starts,
\* stops, saves and failures came before: a restart changes nothing
\* (saveSettings, toggleServer, generateCertificate, the settings request).
\* Left out are switches that the environment of the Linux program overrides,
\* and requests of the administration page that met: they mix.
SettingsSurvive ==
  Quiet /\ ~rowFailed /\ ~overlapped =>
    /\ \A switch \in SwitchNames :
         ~Overridden(switch) => live[switch] = StartSwitches(settingsRow)[switch]
    /\ current = settingsRow

\* A server that listens does so at the address that the window shows and
\* that HTTP requests are sent on to, except while it is being started or
\* stopped (saveSettings refuses an address, toggleServer takes one).
ListensWhereShown ==
  desktop /\ listening # Nowhere /\ ~transition =>
    running /\ listening = current.address /\ redirect = listening
=============================================================================
