-------------------------- MODULE AdministrationProofs --------------------------
(***************************************************************************)
(* Proofs about the parts that the desktop window and the administration   *)
(* page drive: Settings, for every set of calls and of addresses,          *)
(* Certificates, for any number of generations, failures and restarts, and *)
(* Shares, for any number of uploads, changes and restarts.                *)
(***************************************************************************)
EXTENDS Settings, Certificates, Shares, SubsequencesProofs, SequenceTheorems, TLAPS

-----------------------------------------------------------------------------
(* Settings. *)

Steps == {"none", "user list", "private messages", "listen", "save", "certificate"}

\* A call under way starts the server or makes a certificate exactly while
\* `transition` is set; until it has saved, the server, the copy and the
\* settings agree as far as the call has come.
InStep(f) ==
  /\ Validated(form[f].copy) = form[f].copy
  /\ form[f].step \in {"listen", "certificate"} => transition
  /\ transition => form[f].step # "save"
  /\ transition /\ form[f].step \in {"user list", "private messages", "listen"}
       => redirect = form[f].copy.address
  /\ ~overlapped =>
       /\ form[f].step = "private messages" => live.users = form[f].copy.users
       /\ form[f].step \in {"listen", "save", "certificate"} => live = SwitchesOf(form[f].copy)
       /\ transition /\ form[f].step # "none" => SwitchesOf(form[f].copy) = SwitchesOf(current)
       /\ desktop /\ ~transition /\ form[f].step # "none" => current = form[f].copy

Flags ==
  /\ desktop => ~overlapped /\ found /\ fixed = {}
  /\ ~desktop => ~running /\ ~transition
  /\ running => ~transition

\* The server does what a start from these settings would make it do.
Fits(s) ==
  \A switch \in SwitchNames : ~Overridden(switch) => live[switch] = StartSwitches(s)[switch]

Kept ==
  /\ Validated(current) = current /\ Validated(settingsRow) = settingsRow
  /\ transition /\ ~rowFailed => current = settingsRow
  /\ Quiet /\ ~overlapped =>
       /\ desktop => live = SwitchesOf(current)
       /\ ~rowFailed => current = settingsRow /\ (desktop \/ Fits(current))

Shown ==
  desktop /\ listening # Nowhere => running /\ listening = current.address /\ redirect = listening

OneAtATime ==
  ~overlapped => \A f, g \in Forms : ~Unused(f) /\ ~Unused(g) => f = g

SettingsInv ==
  SettingsTypeOK /\ Flags /\ Kept /\ Shown /\ OneAtATime /\ \A f \in Forms : InStep(f)

-----------------------------------------------------------------------------
\* Validating a copy changes nothing else, and twice is once.
LEMMA ValidatedIsSetting ==
  ASSUME NEW s \in Setting
  PROVE  /\ Validated(s) \in Setting /\ Validated(Validated(s)) = Validated(s)
         /\ Validated(s).address = s.address
         /\ SwitchesOf(s) \in [users : BOOLEAN, private : BOOLEAN]
         /\ \A a \in Addresses :
              /\ [s EXCEPT !.address = a] \in Setting
              /\ [s EXCEPT !.address = a].address = a
              /\ SwitchesOf([s EXCEPT !.address = a]) = SwitchesOf(s)
              /\ Validated(s) = s =>
                   Validated([s EXCEPT !.address = a]) = [s EXCEPT !.address = a]
  BY DEF Setting, Validated, SwitchesOf

LEMMA Readdressed ==
  ASSUME NEW s \in Setting, NEW a \in Addresses, Validated(s) = s
  PROVE  /\ [s EXCEPT !.address = a] \in Setting /\ [s EXCEPT !.address = a].address = a
         /\ SwitchesOf([s EXCEPT !.address = a]) = SwitchesOf(s)
         /\ Validated([s EXCEPT !.address = a]) = [s EXCEPT !.address = a]
  BY ValidatedIsSetting

\* What a call leaves behind of itself when it takes a step.
Took(f, step, s) ==
  /\ form' \in [Forms -> [step : Steps, copy : Setting]]
  /\ form'[f].step = step /\ form'[f].copy = s
  /\ \A g \in Forms \ {f} : form'[g] = form[g]

LEMMA GoesTook ==
  ASSUME SettingsTypeOK, NEW f \in Forms, NEW step \in Steps, Goes(f, step)
  PROVE  Took(f, step, form[f].copy)
  BY DEF SettingsTypeOK, Goes, Took, Steps

LEMMA GoesWithTook ==
  ASSUME SettingsTypeOK, NEW f \in Forms, NEW step \in Steps, NEW s \in Setting,
         GoesWith(f, step, s)
  PROVE  Took(f, step, s)
  BY DEF SettingsTypeOK, GoesWith, Took, Steps

LEMMA BoundsAreNumbers ==
  MaxForms \in Nat /\ MaxSettingsMishaps \in Nat
  BY SettingsAssumption

LEMMA MishapCounts ==
  ASSUME SettingsTypeOK, SettingsMishap
  PROVE  /\ desktop' = desktop /\ fixed' = fixed /\ given' = given
         /\ formsDone' \in 0 .. MaxForms /\ settingsMishaps' \in 0 .. MaxSettingsMishaps
  <1>1. formsDone \in 0 .. MaxForms /\ settingsMishaps \in 0 .. MaxSettingsMishaps
      BY DEF SettingsTypeOK
  <1> QED
      BY <1>1, BoundsAreNumbers DEF SettingsMishap, asStarted

LEMMA AskCounts ==
  ASSUME SettingsTypeOK, NEW f \in Forms, Asks(f)
  PROVE  /\ desktop' = desktop /\ fixed' = fixed /\ given' = given
         /\ formsDone' \in 0 .. MaxForms /\ settingsMishaps' \in 0 .. MaxSettingsMishaps
         /\ Unused(f) /\ (desktop => Quiet)
  <1>1. formsDone \in 0 .. MaxForms /\ settingsMishaps \in 0 .. MaxSettingsMishaps
      BY DEF SettingsTypeOK
  <1> QED
      BY <1>1, BoundsAreNumbers DEF Asks, asStarted

LEMMA WithinCounts ==
  ASSUME SettingsTypeOK, Within
  PROVE  /\ desktop' = desktop /\ fixed' = fixed /\ given' = given
         /\ formsDone' \in 0 .. MaxForms /\ settingsMishaps' \in 0 .. MaxSettingsMishaps
  BY DEF Within, asStarted, SettingsTypeOK

-----------------------------------------------------------------------------
\* The end of the program keeps the settings valid and the calls away.
LEMMA StartKeeps ==
  ASSUME SettingsInv, NEW row \in {settingsRow, current}, StartsFrom(row),
         desktop' = desktop /\ fixed' = fixed /\ given' = given,
         formsDone' \in 0 .. MaxForms, settingsMishaps' \in 0 .. MaxSettingsMishaps
  PROVE  SettingsInv'
  <1> USE DEF SettingsInv
  <1>1. row \in Setting /\ Validated(row) = row /\ desktop \in BOOLEAN
      BY DEF SettingsTypeOK, Kept
  <1>2. PICK a \in Addresses : current' = [row EXCEPT !.address = a] /\ (desktop \/ a = row.address)
      BY <1>1 DEF StartsFrom, Setting
  <1>3. current' \in Setting /\ Validated(current') = current' /\ current'.address \in Addresses
      BY <1>1, <1>2, ValidatedIsSetting DEF Setting
  <1>4. rowFailed' \in BOOLEAN /\ settingsRow' \in Setting /\ Validated(settingsRow') = settingsRow'
        /\ (~rowFailed' => settingsRow' = current')
      BY <1>1, <1>3 DEF StartsFrom
  <1>5. /\ live' = StartSwitches(row) /\ live' \in [users : BOOLEAN, private : BOOLEAN]
        /\ found' = found /\ StartSwitches(row)' = StartSwitches(row)
      BY <1>1 DEF StartsFrom, StartSwitches, Flagged, SwitchNames, SettingsTypeOK, Setting
  <1>12. desktop => live' = SwitchesOf(current')
      BY <1>1, <1>2, <1>5 DEF Flags, StartSwitches, Flagged, SwitchesOf, Validated, Setting
  <1>13. ~desktop => current' = row /\ Fits(current)'
      BY <1>1, <1>2, <1>5 DEF Fits, StartSwitches, Flagged, Setting
  <1>6. /\ ~running' /\ ~transition' /\ ~overlapped' /\ redirect' \in Addresses
        /\ listening' \in Addresses \cup {Nowhere} /\ (desktop => listening' = Nowhere)
        /\ running' = FALSE /\ transition' = FALSE /\ overlapped' = FALSE
      BY <1>1 DEF StartsFrom, Setting
  <1>7. /\ form' \in [Forms -> [step : Steps, copy : Setting]]
        /\ \A f \in Forms : form'[f].step = "none" /\ form'[f].copy = row
      BY <1>1 DEF StartsFrom, Steps
  <1>8. SettingsTypeOK'
      BY <1>1, <1>3, <1>4, <1>5, <1>6, <1>7 DEF SettingsTypeOK, Steps
  <1>9. Flags' /\ OneAtATime' /\ Shown'
      BY <1>5, <1>6, <1>7 DEF Flags, OneAtATime, Unused, Shown
  <1>10. Kept'
      BY <1>3, <1>4, <1>6, <1>12, <1>13 DEF Kept, Validated
  <1>11. \A f \in Forms : InStep(f)'
      BY <1>1, <1>6, <1>7 DEF InStep, Validated
  <1> QED
      BY <1>8, <1>9, <1>10, <1>11

-----------------------------------------------------------------------------
\* A step of one call. The other calls have nothing under way, or requests of
\* the administration page have met and little is promised of them.
LEMMA OneCallSteps ==
  ASSUME SettingsInv, NEW f \in Forms, NEW step, NEW s, Took(f, step, s),
         overlapped => overlapped',
         ~overlapped' => \A g \in Forms \ {f} : Unused(g),
         SettingsTypeOK', desktop' = desktop, Flags', Kept', Shown', InStep(f)'
  PROVE  SettingsInv'
  <1> USE DEF SettingsInv
  <1>1. OneAtATime'
      BY DEF OneAtATime, Took, Unused
  <1>2. ASSUME NEW g \in Forms \ {f} PROVE InStep(g)'
    <2>1. form'[g] = form[g] /\ InStep(g) /\ desktop \in BOOLEAN
        BY DEF Took, SettingsTypeOK
    <2>2. CASE overlapped'
      <3>1. ~desktop /\ ~transition /\ ~transition'
          BY <2>1, <2>2 DEF Flags
      <3> QED
          BY <2>1, <2>2, <3>1 DEF InStep
    <2>3. CASE ~overlapped'
      <3>1. form[g].step = "none"
          BY <2>3 DEF Unused
      <3> QED
          BY <2>1, <3>1 DEF InStep
    <2> QED
        BY <2>2, <2>3
  <1> QED
      BY <1>1, <1>2

\* As long as nothing has met, one call at most has something under way.
LEMMA Alone ==
  ASSUME SettingsInv, NEW f \in Forms, (~Unused(f) \/ Quiet), ~overlapped
  PROVE  \A g \in Forms \ {f} : Unused(g)
  BY DEF SettingsInv, OneAtATime, Quiet

-----------------------------------------------------------------------------
\* One lemma per step of a call.
LEMMA UserListKeeps ==
  ASSUME SettingsInv, NEW f \in Forms, SetsUserList(f)
  PROVE  SettingsInv'
  <1> USE DEF SettingsInv
  <1>1. Took(f, "private messages", form[f].copy)
      BY GoesTook DEF Steps, SetsUserList
  <1>2. /\ desktop' = desktop /\ fixed' = fixed /\ given' = given
        /\ formsDone' \in 0 .. MaxForms /\ settingsMishaps' \in 0 .. MaxSettingsMishaps
      BY WithinCounts DEF SetsUserList
  <1>3. /\ current' = current /\ settingsRow' = settingsRow
        /\ listening' = listening /\ redirect' = redirect
        /\ running' = running /\ transition' = transition
        /\ overlapped' = overlapped /\ rowFailed' = rowFailed /\ found' = found
        /\ live' = [users |-> form[f].copy.users, private |-> form[f].copy.users /\ live.private]
      BY DEF SetsUserList, flagVars
  <1>4. form[f].step = "user list"
      BY WithinCounts DEF SetsUserList, At, Unused, Quiet
  <1>5. SettingsTypeOK'
      BY <1>1, <1>2, <1>3, <1>4 DEF SettingsTypeOK, Took, Steps, Setting
  <1>6. Flags' /\ Shown'
      BY <1>1, <1>2, <1>3, <1>4 DEF Flags, Shown, InStep, SettingsTypeOK
  <1>7. ~overlapped' => ~overlapped /\ \A g \in Forms \ {f} : Unused(g)
      BY <1>3, <1>4, Alone DEF Unused, Quiet, Flags, SettingsTypeOK
  <1>8. Kept'
      BY <1>1, <1>2, <1>3, <1>4, <1>7 DEF Kept, Took, Flags, InStep, Unused, Quiet, SwitchesOf,
         SettingsTypeOK
  <1>9. InStep(f)'
      BY <1>1, <1>2, <1>3, <1>4, <1>7 DEF Kept, Took, Flags, InStep, SwitchesOf, Quiet, Unused,
         SettingsTypeOK, Setting
  <1> QED
      BY <1>1, <1>2, <1>3, <1>5, <1>6, <1>7, <1>8, <1>9, OneCallSteps

LEMMA PrivateKeeps ==
  ASSUME SettingsInv, NEW f \in Forms, SetsPrivateMessages(f)
  PROVE  SettingsInv'
  <1> USE DEF SettingsInv
  <1>1. Took(f, IF transition THEN "listen" ELSE "save", form[f].copy)
      BY GoesTook DEF Steps, SetsPrivateMessages, NextStep
  <1>2. /\ desktop' = desktop /\ fixed' = fixed /\ given' = given
        /\ formsDone' \in 0 .. MaxForms /\ settingsMishaps' \in 0 .. MaxSettingsMishaps
      BY WithinCounts DEF SetsPrivateMessages
  <1>3. /\ current' = current /\ settingsRow' = settingsRow
        /\ listening' = listening /\ redirect' = redirect
        /\ running' = running /\ transition' = transition
        /\ overlapped' = overlapped /\ rowFailed' = rowFailed /\ found' = found
        /\ live' = [live EXCEPT !.private = form[f].copy.private /\ live.users]
      BY DEF SetsPrivateMessages, flagVars
  <1>4. form[f].step = "private messages"
      BY WithinCounts DEF SetsPrivateMessages, At, Unused, Quiet
  <1>5. SettingsTypeOK'
      BY <1>1, <1>2, <1>3, <1>4 DEF SettingsTypeOK, Took, Steps, Setting
  <1>6. Flags' /\ Shown'
      BY <1>1, <1>2, <1>3, <1>4 DEF Flags, Shown, InStep, SettingsTypeOK
  <1>7. ~overlapped' => ~overlapped /\ \A g \in Forms \ {f} : Unused(g)
      BY <1>3, <1>4, Alone DEF Unused, Quiet, Flags, SettingsTypeOK
  <1>10. /\ Validated(form[f].copy) = form[f].copy /\ form[f].copy \in Setting
        /\ live \in [users : BOOLEAN, private : BOOLEAN]
      BY DEF InStep, SettingsTypeOK
  <1>11. form[f].copy.private => form[f].copy.users
      BY <1>10 DEF Validated, Setting
  <1>12. live.users = form[f].copy.users => live' = SwitchesOf(form[f].copy)
      BY <1>3, <1>10, <1>11 DEF SwitchesOf, Setting
  <1>8. Kept'
      BY <1>1, <1>2, <1>3, <1>4, <1>7 DEF Kept, Took, Flags, InStep, Unused, Quiet, SwitchesOf,
         SettingsTypeOK
  <1>9. InStep(f)'
      BY <1>1, <1>2, <1>3, <1>4, <1>7, <1>10, <1>12 DEF Kept, Took, Flags, InStep, Quiet, Unused,
         SettingsTypeOK, Setting
  <1> QED
      BY <1>1, <1>2, <1>3, <1>5, <1>6, <1>7, <1>8, <1>9, OneCallSteps

LEMMA PostKeeps ==
  ASSUME SettingsInv, NEW f \in Forms, NEW s \in Setting, PostsSettings(f, s)
  PROVE  SettingsInv'
  <1> USE DEF SettingsInv
  <1>0. /\ current.address \in Addresses /\ [s EXCEPT !.address = current.address] \in Setting
        /\ Validated([s EXCEPT !.address = current.address]) \in Setting
        /\ Validated(Validated([s EXCEPT !.address = current.address]))
             = Validated([s EXCEPT !.address = current.address])
      BY ValidatedIsSetting DEF SettingsTypeOK, Setting
  <1>1. Took(f, "user list", Validated([s EXCEPT !.address = current.address]))
      BY GoesWithTook, <1>0 DEF Steps, PostsSettings
  <1>2. /\ desktop' = desktop /\ fixed' = fixed /\ given' = given
        /\ formsDone' \in 0 .. MaxForms /\ settingsMishaps' \in 0 .. MaxSettingsMishaps
      BY AskCounts DEF PostsSettings
  <1>3. /\ current' = current /\ settingsRow' = settingsRow
        /\ live' = live /\ listening' = listening
        /\ redirect' = redirect /\ running' = running
        /\ transition' = transition /\ overlapped' = (overlapped \/ ~Quiet)
        /\ rowFailed' = rowFailed /\ found' = found
      BY DEF PostsSettings, flagVars
  <1>4. ~desktop /\ form[f].step = "none"
      BY AskCounts DEF PostsSettings, At, Unused, Quiet
  <1>5. SettingsTypeOK'
      BY <1>1, <1>2, <1>3, <1>4, <1>0 DEF SettingsTypeOK, Took, Steps, Setting
  <1>6. Flags' /\ Shown'
      BY <1>1, <1>2, <1>3, <1>4, <1>0 DEF Flags, Shown, InStep, SettingsTypeOK
  <1>7. ~overlapped' => ~overlapped /\ \A g \in Forms \ {f} : Unused(g)
      BY <1>3, <1>4, Alone DEF Unused, Quiet, Flags, SettingsTypeOK
  <1>8. Kept'
      BY <1>1, <1>2, <1>3, <1>4, <1>7, <1>0 DEF Kept, Took, Flags, InStep, Unused, Quiet,
         SwitchesOf, SettingsTypeOK
  <1>9. InStep(f)'
      BY <1>1, <1>2, <1>3, <1>4, <1>7, <1>0 DEF Kept, Took, Flags, InStep, SwitchesOf, Quiet,
         Unused, SettingsTypeOK, Setting
  <1> QED
      BY <1>1, <1>2, <1>3, <1>5, <1>6, <1>7, <1>8, <1>9, OneCallSteps

LEMMA SaveCallKeeps ==
  ASSUME SettingsInv, NEW f \in Forms, NEW s \in Setting, SaveSettings(f, s)
  PROVE  SettingsInv'
  <1> USE DEF SettingsInv
  <1>0. /\ Validated(s) \in Setting /\ Validated(Validated(s)) = Validated(s)
        /\ s.address \in Addresses /\ Validated(s).address = s.address
      BY ValidatedIsSetting DEF Setting
  <1>1. Took(f, "user list", Validated(s))
      BY GoesWithTook, <1>0 DEF Steps, SaveSettings
  <1>2. /\ desktop' = desktop /\ fixed' = fixed /\ given' = given
        /\ formsDone' \in 0 .. MaxForms /\ settingsMishaps' \in 0 .. MaxSettingsMishaps
      BY AskCounts DEF SaveSettings
  <1>3. /\ current' = Validated(s) /\ settingsRow' = settingsRow
        /\ live' = live /\ listening' = listening
        /\ redirect' = s.address /\ running' = running
        /\ transition' = transition /\ overlapped' = overlapped
        /\ rowFailed' = rowFailed /\ found' = found
      BY DEF SaveSettings, flagVars
  <1>4. desktop /\ ~transition /\ form[f].step = "none" /\ Quiet
        /\ (running => s.address = current.address)
      BY AskCounts DEF SaveSettings, At, Unused, Quiet
  <1>5. SettingsTypeOK'
      BY <1>1, <1>2, <1>3, <1>4, <1>0 DEF SettingsTypeOK, Took, Steps, Setting
  <1>6. Flags' /\ Shown'
      BY <1>1, <1>2, <1>3, <1>4, <1>0 DEF Flags, Shown, InStep, SettingsTypeOK
  <1>7. ~overlapped' => ~overlapped /\ \A g \in Forms \ {f} : Unused(g)
      BY <1>3, <1>4, Alone DEF Unused, Quiet, Flags, SettingsTypeOK
  <1>8. Kept'
      BY <1>1, <1>2, <1>3, <1>4, <1>7, <1>0 DEF Kept, Took, Flags, InStep, Unused, Quiet,
         SwitchesOf, SettingsTypeOK
  <1>9. InStep(f)'
      BY <1>1, <1>2, <1>3, <1>4, <1>7, <1>0 DEF Kept, Took, Flags, InStep, SwitchesOf, Quiet,
         Unused, SettingsTypeOK, Setting
  <1> QED
      BY <1>1, <1>2, <1>3, <1>5, <1>6, <1>7, <1>8, <1>9, OneCallSteps

LEMMA StartedKeeps ==
  ASSUME SettingsInv, NEW f \in Forms, ServerStarted(f)
  PROVE  SettingsInv'
  <1> USE DEF SettingsInv
  <1>1. Took(f, "save", form[f].copy)
      BY GoesTook DEF Steps, ServerStarted
  <1>2. /\ desktop' = desktop /\ fixed' = fixed /\ given' = given
        /\ formsDone' \in 0 .. MaxForms /\ settingsMishaps' \in 0 .. MaxSettingsMishaps
      BY WithinCounts DEF ServerStarted
  <1>3. /\ current' = form[f].copy /\ settingsRow' = settingsRow
        /\ live' = live /\ listening' = form[f].copy.address
        /\ redirect' = redirect /\ running' = TRUE
        /\ transition' = FALSE /\ overlapped' = overlapped
        /\ rowFailed' = rowFailed /\ found' = found
      BY DEF ServerStarted, flagVars
  <1>4. form[f].step = "listen"
      BY WithinCounts DEF ServerStarted, At, Unused, Quiet
  <1>5. SettingsTypeOK'
      BY <1>1, <1>2, <1>3, <1>4 DEF SettingsTypeOK, Took, Steps, Setting
  <1>6. Flags' /\ Shown'
      BY <1>1, <1>2, <1>3, <1>4 DEF Flags, Shown, InStep, SettingsTypeOK
  <1>7. ~overlapped' => ~overlapped /\ \A g \in Forms \ {f} : Unused(g)
      BY <1>3, <1>4, Alone DEF Unused, Quiet, Flags, SettingsTypeOK
  <1>8. Kept'
      BY <1>1, <1>2, <1>3, <1>4, <1>7 DEF Kept, Took, Flags, InStep, Unused, Quiet, SwitchesOf,
         SettingsTypeOK
  <1>9. InStep(f)'
      BY <1>1, <1>2, <1>3, <1>4, <1>7 DEF Kept, Took, Flags, InStep, SwitchesOf, Quiet, Unused,
         SettingsTypeOK, Setting
  <1> QED
      BY <1>1, <1>2, <1>3, <1>5, <1>6, <1>7, <1>8, <1>9, OneCallSteps

LEMMA NotStartedKeeps ==
  ASSUME SettingsInv, NEW f \in Forms, ServerNotStarted(f)
  PROVE  SettingsInv'
  <1> USE DEF SettingsInv
  <1>1. Took(f, "none", form[f].copy)
      BY GoesTook DEF Steps, ServerNotStarted
  <1>2. /\ desktop' = desktop /\ fixed' = fixed /\ given' = given
        /\ formsDone' \in 0 .. MaxForms /\ settingsMishaps' \in 0 .. MaxSettingsMishaps
      BY MishapCounts DEF ServerNotStarted
  <1>3. /\ current' = current /\ settingsRow' = settingsRow
        /\ live' = live /\ listening' = listening
        /\ redirect' = redirect /\ running' = running
        /\ transition' = FALSE /\ overlapped' = overlapped
        /\ rowFailed' = rowFailed /\ found' = found
      BY DEF ServerNotStarted, flagVars
  <1>4. form[f].step = "listen"
      BY MishapCounts DEF ServerNotStarted, At, Unused, Quiet
  <1>5. SettingsTypeOK'
      BY <1>1, <1>2, <1>3, <1>4 DEF SettingsTypeOK, Took, Steps, Setting
  <1>6. Flags' /\ Shown'
      BY <1>1, <1>2, <1>3, <1>4 DEF Flags, Shown, InStep, SettingsTypeOK
  <1>7. ~overlapped' => ~overlapped /\ \A g \in Forms \ {f} : Unused(g)
      BY <1>3, <1>4, Alone DEF Unused, Quiet, Flags, SettingsTypeOK
  <1>8. Kept'
      BY <1>1, <1>2, <1>3, <1>4, <1>7 DEF Kept, Took, Flags, InStep, Unused, Quiet, SwitchesOf,
         SettingsTypeOK
  <1>9. InStep(f)'
      BY <1>1, <1>2, <1>3, <1>4, <1>7 DEF Kept, Took, Flags, InStep, SwitchesOf, Quiet, Unused,
         SettingsTypeOK, Setting
  <1> QED
      BY <1>1, <1>2, <1>3, <1>5, <1>6, <1>7, <1>8, <1>9, OneCallSteps

LEMMA CertificateKeeps ==
  ASSUME SettingsInv, NEW f \in Forms, GeneratesCertificate(f)
  PROVE  SettingsInv'
  <1> USE DEF SettingsInv
  <1>0. current \in Setting
      BY DEF SettingsTypeOK
  <1>1. Took(f, "certificate", current)
      BY GoesWithTook, <1>0 DEF Steps, GeneratesCertificate
  <1>2. /\ desktop' = desktop /\ fixed' = fixed /\ given' = given
        /\ formsDone' \in 0 .. MaxForms /\ settingsMishaps' \in 0 .. MaxSettingsMishaps
      BY AskCounts DEF GeneratesCertificate
  <1>3. /\ current' = current /\ settingsRow' = settingsRow
        /\ live' = live /\ listening' = listening
        /\ redirect' = redirect /\ running' = running
        /\ transition' = TRUE /\ overlapped' = overlapped
        /\ rowFailed' = rowFailed /\ found' = found
      BY DEF GeneratesCertificate, flagVars
  <1>4. desktop /\ ~running /\ ~transition /\ form[f].step = "none" /\ Quiet
      BY AskCounts DEF GeneratesCertificate, At, Unused, Quiet
  <1>5. SettingsTypeOK'
      BY <1>1, <1>2, <1>3, <1>4, <1>0 DEF SettingsTypeOK, Took, Steps, Setting
  <1>6. Flags' /\ Shown'
      BY <1>1, <1>2, <1>3, <1>4, <1>0 DEF Flags, Shown, InStep, SettingsTypeOK
  <1>7. ~overlapped' => ~overlapped /\ \A g \in Forms \ {f} : Unused(g)
      BY <1>3, <1>4, Alone DEF Unused, Quiet, Flags, SettingsTypeOK
  <1>8. Kept'
      BY <1>1, <1>2, <1>3, <1>4, <1>7, <1>0 DEF Kept, Took, Flags, InStep, Unused, Quiet,
         SwitchesOf, SettingsTypeOK
  <1>9. InStep(f)'
      BY <1>1, <1>2, <1>3, <1>4, <1>7, <1>0 DEF Kept, Took, Flags, InStep, SwitchesOf, Quiet,
         Unused, SettingsTypeOK, Setting
  <1> QED
      BY <1>1, <1>2, <1>3, <1>5, <1>6, <1>7, <1>8, <1>9, OneCallSteps

LEMMA SavedKeeps ==
  ASSUME SettingsInv, NEW f \in Forms, SavesSettings(f), settingsRow' = form[f].copy,
         found' = TRUE, rowFailed' = FALSE, Within
  PROVE  SettingsInv'
  <1> USE DEF SettingsInv
  <1>1. Took(f, "none", form[f].copy)
      BY GoesTook DEF Steps, SavesSettings
  <1>2. /\ desktop' = desktop /\ fixed' = fixed /\ given' = given
        /\ formsDone' \in 0 .. MaxForms /\ settingsMishaps' \in 0 .. MaxSettingsMishaps
      BY WithinCounts DEF SavesSettings
  <1>3. /\ current' = (IF desktop THEN current ELSE form[f].copy) /\ settingsRow' = form[f].copy
        /\ live' = live /\ listening' = listening
        /\ redirect' = redirect /\ running' = running
        /\ transition' = transition /\ overlapped' = overlapped
        /\ rowFailed' = FALSE /\ found' = TRUE
      BY DEF SavesSettings, flagVars
  <1>4. form[f].step = "save"
      BY WithinCounts DEF SavesSettings, At, Unused, Quiet
  <1>5. SettingsTypeOK'
      BY <1>1, <1>2, <1>3, <1>4 DEF SettingsTypeOK, Took, Steps, Setting
  <1>6. Flags' /\ Shown'
      BY <1>1, <1>2, <1>3, <1>4 DEF Flags, Shown, InStep, SettingsTypeOK
  <1>7. ~overlapped' => ~overlapped /\ \A g \in Forms \ {f} : Unused(g)
      BY <1>3, <1>4, Alone DEF Unused, Quiet, Flags, SettingsTypeOK
  <1>10. /\ form[f].copy \in Setting /\ Validated(form[f].copy) = form[f].copy
         /\ ~overlapped => live = SwitchesOf(form[f].copy)
      BY <1>4 DEF InStep, SettingsTypeOK
  <1>11. ~overlapped /\ ~desktop => Fits(current)'
      BY <1>2, <1>3, <1>10 DEF Fits, Overridden, StartSwitches, Flagged, SwitchNames, SwitchesOf,
         Validated, Setting
  <1>8. Kept'
      BY <1>1, <1>2, <1>3, <1>4, <1>7, <1>10, <1>11 DEF Kept, Took, Flags, InStep, Unused, Quiet,
         SwitchesOf, SettingsTypeOK
  <1>9. InStep(f)'
      BY <1>1, <1>2, <1>3, <1>4, <1>7 DEF Kept, Took, Flags, InStep, SwitchesOf, Quiet, Unused,
         SettingsTypeOK, Setting
  <1> QED
      BY <1>1, <1>2, <1>3, <1>5, <1>6, <1>7, <1>8, <1>9, OneCallSteps

LEMMA NotSavedKeeps ==
  ASSUME SettingsInv, NEW f \in Forms, SavesSettings(f), settingsRow' = settingsRow,
         found' = found, rowFailed' = TRUE, SettingsMishap
  PROVE  SettingsInv'
  <1> USE DEF SettingsInv
  <1>1. Took(f, "none", form[f].copy)
      BY GoesTook DEF Steps, SavesSettings
  <1>2. /\ desktop' = desktop /\ fixed' = fixed /\ given' = given
        /\ formsDone' \in 0 .. MaxForms /\ settingsMishaps' \in 0 .. MaxSettingsMishaps
      BY MishapCounts DEF SavesSettings
  <1>3. /\ current' = (IF desktop THEN current ELSE form[f].copy) /\ settingsRow' = settingsRow
        /\ live' = live /\ listening' = listening
        /\ redirect' = redirect /\ running' = running
        /\ transition' = transition /\ overlapped' = overlapped
        /\ rowFailed' = TRUE /\ found' = found
      BY DEF SavesSettings, flagVars
  <1>4. form[f].step = "save"
      BY MishapCounts DEF SavesSettings, At, Unused, Quiet
  <1>5. SettingsTypeOK'
      BY <1>1, <1>2, <1>3, <1>4 DEF SettingsTypeOK, Took, Steps, Setting
  <1>6a. Flags'
    <2>1. /\ desktop => ~overlapped /\ found /\ fixed = {}
          /\ ~desktop => ~running /\ ~transition
          /\ running => ~transition
        BY DEF Flags
    <2> QED
        BY <1>2, <1>3, <2>1 DEF Flags
  <1>6b. Shown'
      BY <1>2, <1>3 DEF Shown
  <1>6. Flags' /\ Shown'
      BY <1>6a, <1>6b
  <1>7. ~overlapped' => ~overlapped /\ \A g \in Forms \ {f} : Unused(g)
      BY <1>3, <1>4, Alone DEF Unused, Quiet, Flags, SettingsTypeOK
  <1>8. Kept'
      BY <1>1, <1>2, <1>3, <1>4, <1>7 DEF Kept, Took, Flags, InStep, Unused, Quiet, SwitchesOf,
         SettingsTypeOK
  <1>9. InStep(f)'
      BY <1>1, <1>2, <1>3, <1>4, <1>7 DEF Kept, Took, Flags, InStep, SwitchesOf, Quiet, Unused,
         SettingsTypeOK, Setting
  <1> QED
      BY <1>1, <1>2, <1>3, <1>5, <1>6, <1>7, <1>8, <1>9, OneCallSteps

LEMMA StartCallKeeps ==
  ASSUME SettingsInv, NEW f \in Forms, NEW address \in Addresses, ToggleStarts(f, address),
         transition' = TRUE,
         GoesWith(f, "user list", Validated([current EXCEPT !.address = address])),
         redirect' = address
  PROVE  SettingsInv'
  <1> USE DEF SettingsInv
  <1>13. current \in Setting /\ Validated(current) = current
      BY DEF SettingsTypeOK, Kept
  <1>14. /\ [current EXCEPT !.address = address] \in Setting
        /\ [current EXCEPT !.address = address].address = address
        /\ SwitchesOf([current EXCEPT !.address = address]) = SwitchesOf(current)
        /\ Validated([current EXCEPT !.address = address]) = [current EXCEPT !.address = address]
      BY <1>13, Readdressed
  <1>0. /\ Validated([current EXCEPT !.address = address]) \in Setting
        /\ Validated(Validated([current EXCEPT !.address = address]))
             = Validated([current EXCEPT !.address = address])
        /\ Validated([current EXCEPT !.address = address]).address = address
        /\ SwitchesOf(Validated([current EXCEPT !.address = address])) = SwitchesOf(current)
      BY <1>14
  <1>1. Took(f, "user list", Validated([current EXCEPT !.address = address]))
      BY GoesWithTook, <1>0 DEF Steps, ToggleStarts
  <1>2. /\ desktop' = desktop /\ fixed' = fixed /\ given' = given
        /\ formsDone' \in 0 .. MaxForms /\ settingsMishaps' \in 0 .. MaxSettingsMishaps
      BY AskCounts DEF ToggleStarts
  <1>3. /\ current' = current /\ settingsRow' = settingsRow
        /\ live' = live /\ listening' = listening
        /\ redirect' = address /\ running' = running
        /\ transition' = TRUE /\ overlapped' = overlapped
        /\ rowFailed' = rowFailed /\ found' = found
      BY DEF ToggleStarts, flagVars
  <1>4. desktop /\ ~running /\ ~transition /\ form[f].step = "none" /\ Quiet
      BY AskCounts DEF ToggleStarts, At, Unused, Quiet
  <1>5. SettingsTypeOK'
      BY <1>1, <1>2, <1>3, <1>4, <1>0 DEF SettingsTypeOK, Took, Steps, Setting
  <1>6. Flags' /\ Shown'
      BY <1>1, <1>2, <1>3, <1>4, <1>0 DEF Flags, Shown, InStep, SettingsTypeOK
  <1>7. ~overlapped' => ~overlapped /\ \A g \in Forms \ {f} : Unused(g)
      BY <1>3, <1>4, Alone DEF Unused, Quiet, Flags, SettingsTypeOK
  <1>8. Kept'
      BY <1>1, <1>2, <1>3, <1>4, <1>7, <1>0 DEF Kept, Took, Flags, InStep, Unused, Quiet,
         SwitchesOf, SettingsTypeOK
  <1>9. InStep(f)'
      BY <1>1, <1>2, <1>3, <1>4, <1>7, <1>0 DEF Kept, Took, Flags, InStep, SwitchesOf, Quiet,
         Unused, SettingsTypeOK, Setting
  <1> QED
      BY <1>1, <1>2, <1>3, <1>5, <1>6, <1>7, <1>8, <1>9, OneCallSteps

LEMMA StopKeeps ==
  ASSUME SettingsInv, NEW f \in Forms, ToggleStops(f), Asks(f), running' = FALSE, GoesWith(f,
         "save", current)
  PROVE  SettingsInv'
  <1> USE DEF SettingsInv
  <1>0. current \in Setting /\ Validated(current) = current
      BY DEF SettingsTypeOK, Kept
  <1>1. Took(f, "save", current)
      BY GoesWithTook, <1>0 DEF Steps, ToggleStops
  <1>2. /\ desktop' = desktop /\ fixed' = fixed /\ given' = given
        /\ formsDone' \in 0 .. MaxForms /\ settingsMishaps' \in 0 .. MaxSettingsMishaps
      BY AskCounts DEF ToggleStops
  <1>3. /\ current' = current /\ settingsRow' = settingsRow
        /\ live' = live /\ listening' = Nowhere
        /\ redirect' = redirect /\ running' = FALSE
        /\ transition' = transition /\ overlapped' = overlapped
        /\ rowFailed' = rowFailed /\ found' = found
      BY DEF ToggleStops, flagVars
  <1>4. desktop /\ ~transition /\ form[f].step = "none" /\ Quiet
      BY AskCounts DEF ToggleStops, At, Unused, Quiet
  <1>5. SettingsTypeOK'
      BY <1>1, <1>2, <1>3, <1>4, <1>0 DEF SettingsTypeOK, Took, Steps, Setting
  <1>6. Flags' /\ Shown'
      BY <1>1, <1>2, <1>3, <1>4, <1>0 DEF Flags, Shown, InStep, SettingsTypeOK
  <1>7. ~overlapped' => ~overlapped /\ \A g \in Forms \ {f} : Unused(g)
      BY <1>3, <1>4, Alone DEF Unused, Quiet, Flags, SettingsTypeOK
  <1>8. Kept'
      BY <1>1, <1>2, <1>3, <1>4, <1>7, <1>0 DEF Kept, Took, Flags, InStep, Unused, Quiet,
         SwitchesOf, SettingsTypeOK
  <1>9. InStep(f)'
      BY <1>1, <1>2, <1>3, <1>4, <1>7, <1>0 DEF Kept, Took, Flags, InStep, SwitchesOf, Quiet,
         Unused, SettingsTypeOK, Setting
  <1> QED
      BY <1>1, <1>2, <1>3, <1>5, <1>6, <1>7, <1>8, <1>9, OneCallSteps

LEMMA CertificateKept ==
  ASSUME SettingsInv, NEW f \in Forms, CertificateDone(f), Within, settingsRow' = form[f].copy,
         rowFailed' = FALSE,
         current' = form[f].copy
  PROVE  SettingsInv'
  <1> USE DEF SettingsInv
  <1>1. Took(f, "none", form[f].copy)
      BY GoesTook DEF Steps, CertificateDone
  <1>2. /\ desktop' = desktop /\ fixed' = fixed /\ given' = given
        /\ formsDone' \in 0 .. MaxForms /\ settingsMishaps' \in 0 .. MaxSettingsMishaps
      BY WithinCounts DEF CertificateDone
  <1>3. /\ current' = form[f].copy /\ settingsRow' = form[f].copy
        /\ live' = live /\ listening' = listening
        /\ redirect' = redirect /\ running' = running
        /\ transition' = FALSE /\ overlapped' = overlapped
        /\ rowFailed' = FALSE /\ found' = found
      BY DEF CertificateDone, flagVars
  <1>4. form[f].step = "certificate"
      BY WithinCounts DEF CertificateDone, At, Unused, Quiet
  <1>5. SettingsTypeOK'
      BY <1>1, <1>2, <1>3, <1>4 DEF SettingsTypeOK, Took, Steps, Setting
  <1>6. Flags' /\ Shown'
      BY <1>1, <1>2, <1>3, <1>4 DEF Flags, Shown, InStep, SettingsTypeOK
  <1>7. ~overlapped' => ~overlapped /\ \A g \in Forms \ {f} : Unused(g)
      BY <1>3, <1>4, Alone DEF Unused, Quiet, Flags, SettingsTypeOK
  <1>8. Kept'
      BY <1>1, <1>2, <1>3, <1>4, <1>7 DEF Kept, Took, Flags, InStep, Unused, Quiet, SwitchesOf,
         SettingsTypeOK
  <1>9. InStep(f)'
      BY <1>1, <1>2, <1>3, <1>4, <1>7 DEF Kept, Took, Flags, InStep, SwitchesOf, Quiet, Unused,
         SettingsTypeOK, Setting
  <1> QED
      BY <1>1, <1>2, <1>3, <1>5, <1>6, <1>7, <1>8, <1>9, OneCallSteps

LEMMA CertificateFailed ==
  ASSUME SettingsInv, NEW f \in Forms, CertificateDone(f), SettingsMishap, UNCHANGED <<settingsRow,
         current>>,
         rowFailed' \in {rowFailed, TRUE}
  PROVE  SettingsInv'
  <1> USE DEF SettingsInv
  <1>1. Took(f, "none", form[f].copy)
      BY GoesTook DEF Steps, CertificateDone
  <1>2. /\ desktop' = desktop /\ fixed' = fixed /\ given' = given
        /\ formsDone' \in 0 .. MaxForms /\ settingsMishaps' \in 0 .. MaxSettingsMishaps
      BY MishapCounts DEF CertificateDone
  <1>3. /\ current' = current /\ settingsRow' = settingsRow
        /\ live' = live /\ listening' = listening
        /\ redirect' = redirect /\ running' = running
        /\ transition' = FALSE /\ overlapped' = overlapped
        /\ rowFailed' \in {rowFailed, TRUE} /\ found' = found
      BY DEF CertificateDone, flagVars
  <1>4. form[f].step = "certificate"
      BY MishapCounts DEF CertificateDone, At, Unused, Quiet
  <1>5. SettingsTypeOK'
      BY <1>1, <1>2, <1>3, <1>4 DEF SettingsTypeOK, Took, Steps, Setting
  <1>6. Flags' /\ Shown'
      BY <1>1, <1>2, <1>3, <1>4 DEF Flags, Shown, InStep, SettingsTypeOK
  <1>7. ~overlapped' => ~overlapped /\ \A g \in Forms \ {f} : Unused(g)
      BY <1>3, <1>4, Alone DEF Unused, Quiet, Flags, SettingsTypeOK
  <1>8. Kept'
      BY <1>1, <1>2, <1>3, <1>4, <1>7 DEF Kept, Took, Flags, InStep, Unused, Quiet, SwitchesOf,
         SettingsTypeOK
  <1>9. InStep(f)'
      BY <1>1, <1>2, <1>3, <1>4, <1>7 DEF Kept, Took, Flags, InStep, SwitchesOf, Quiet, Unused,
         SettingsTypeOK, Setting
  <1> QED
      BY <1>1, <1>2, <1>3, <1>5, <1>6, <1>7, <1>8, <1>9, OneCallSteps

-----------------------------------------------------------------------------
\* Calls that change no form: a start refused, and a stop with an error.
LEMMA NoCallSteps ==
  ASSUME SettingsInv, form' = form, listening' \in {listening, Nowhere},
         desktop' = desktop /\ fixed' = fixed /\ given' = given, found' = found,
         formsDone' \in 0 .. MaxForms, settingsMishaps' \in 0 .. MaxSettingsMishaps,
         UNCHANGED <<current, settingsRow, live, redirect, running, transition,
                     overlapped, rowFailed>>
  PROVE  SettingsInv'
  <1> USE DEF SettingsInv
  <1>1. SettingsTypeOK'
      BY DEF SettingsTypeOK
  <1>2. Flags' /\ Shown' /\ Kept' /\ OneAtATime'
      BY DEF Flags, Shown, Kept, Fits, Overridden, StartSwitches, Flagged, OneAtATime, Quiet, Unused
  <1>3. \A f \in Forms : InStep(f)'
      BY DEF InStep
  <1> QED
      BY <1>1, <1>2, <1>3

LEMMA SettingsInvStep == SettingsInv /\ [SettingsNext]_settingsVars => SettingsInv'
  <1> SUFFICES ASSUME SettingsInv, [SettingsNext]_settingsVars PROVE SettingsInv'
      OBVIOUS
  <1> SettingsTypeOK
      BY DEF SettingsInv
  <1>1. ASSUME NEW f \in Forms,
               SetsUserList(f) \/ SetsPrivateMessages(f) \/ ServerStarted(f) \/ ServerNotStarted(f)
                 \/ GeneratesCertificate(f)
        PROVE  SettingsInv'
      BY <1>1, UserListKeeps, PrivateKeeps, StartedKeeps, NotStartedKeeps, CertificateKeeps
  <1>2. ASSUME NEW f \in Forms, SavesSettings(f) PROVE SettingsInv'
      BY <1>2, SavedKeeps, NotSavedKeeps DEF SavesSettings
  <1>3. ASSUME NEW f \in Forms, NEW s \in Setting, PostsSettings(f, s) \/ SaveSettings(f, s)
        PROVE  SettingsInv'
      BY <1>3, PostKeeps, SaveCallKeeps
  <1>4. ASSUME NEW f \in Forms, NEW address \in Addresses, ToggleStarts(f, address)
        PROVE  SettingsInv'
    <2>1. CASE transition' = TRUE /\ redirect' = address
                 /\ GoesWith(f, "user list", Validated([current EXCEPT !.address = address]))
        BY <1>4, <2>1, StartCallKeeps
    <2>2. CASE UNCHANGED <<transition, form, redirect>>
        BY <1>4, <2>2, AskCounts, NoCallSteps DEF ToggleStarts
    <2> QED
        BY <1>4, <2>1, <2>2 DEF ToggleStarts
  <1>5. ASSUME NEW f \in Forms, ToggleStops(f) PROVE SettingsInv'
    <2>1. CASE Asks(f) /\ running' = FALSE /\ GoesWith(f, "save", current)
        BY <1>5, <2>1, StopKeeps
    <2>2. CASE SettingsMishap /\ UNCHANGED <<running, form>>
        BY <1>5, <2>2, MishapCounts, NoCallSteps DEF ToggleStops
    <2> QED
        BY <1>5, <2>1, <2>2 DEF ToggleStops
  <1>6. ASSUME NEW f \in Forms, CertificateDone(f) PROVE SettingsInv'
      BY <1>6, CertificateKept, CertificateFailed DEF CertificateDone
  <1>7. CASE Exits
    <2>0. formsDone \in 0 .. MaxForms /\ settingsMishaps \in 0 .. MaxSettingsMishaps
        BY DEF SettingsTypeOK
    <2>1. formsDone' \in 0 .. MaxForms /\ settingsMishaps' \in 0 .. MaxSettingsMishaps
          /\ desktop' = desktop /\ fixed' = fixed /\ given' = given
        BY <1>7, <2>0, BoundsAreNumbers DEF Exits, asStarted
    <2> QED
        BY <1>7, <2>1, StartKeeps DEF Exits
  <1>8. CASE EndsUnsaved
      BY <1>8, MishapCounts, StartKeeps DEF EndsUnsaved
  <1>9. CASE UNCHANGED settingsVars
      BY <1>9, NoCallSteps DEF settingsVars, asStarted, flagVars, SettingsTypeOK
  <1> QED
      BY <1>1, <1>2, <1>3, <1>4, <1>5, <1>6, <1>7, <1>8, <1>9 DEF SettingsNext

LEMMA SettingsInvInit == SettingsInit => SettingsInv
  <1> SUFFICES ASSUME SettingsInit PROVE SettingsInv
      OBVIOUS
  <1>1. /\ current \in Setting /\ Validated(current) = current /\ settingsRow = current
        /\ current.address \in Addresses
      BY DEF SettingsInit, Setting
  <1>13. live \in [users : BOOLEAN, private : BOOLEAN]
      BY <1>1 DEF SettingsInit, StartSwitches, Flagged, SwitchNames, Setting
  <1>14. form \in [Forms -> [step : Steps, copy : Setting]]
      BY <1>1 DEF SettingsInit, Steps
  <1>15. formsDone \in 0 .. MaxForms /\ settingsMishaps \in 0 .. MaxSettingsMishaps
      BY BoundsAreNumbers DEF SettingsInit
  <1>2. SettingsTypeOK
      BY <1>1, <1>13, <1>14, <1>15 DEF SettingsInit, SettingsTypeOK, Steps
  <1>3. Flags /\ Kept /\ OneAtATime
    <2>1. live = StartSwitches(current) /\ current \in Setting
        BY <1>1 DEF SettingsInit
    <2>2. Fits(current)
        BY <2>1 DEF Fits
    <2>3. desktop => live = SwitchesOf(current)
        BY <1>1, <2>1 DEF SettingsInit, StartSwitches, Flagged, SwitchesOf, Validated, Setting
    <2> QED
        BY <1>1, <2>2, <2>3 DEF SettingsInit, Flags, Kept, OneAtATime, Unused
  <1>4. Shown
      BY <1>1 DEF SettingsInit, Shown
  <1>5. \A f \in Forms : InStep(f)
      BY <1>1 DEF SettingsInit, InStep
  <1> QED
      BY <1>2, <1>3, <1>4, <1>5 DEF SettingsInv

-----------------------------------------------------------------------------
\* The settings, the server and the calls under way always fit together
\* (saveSettings, toggleServer, generateCertificate, the settings request).
THEOREM SettingsCorrect == SettingsSpec => []SettingsInv
  BY SettingsInvInit, SettingsInvStep, PTL DEF SettingsSpec

\* A server that listens does so where the window shows it, whichever calls
\* came before and failed (saveSettings, toggleServer).
THEOREM ListensRight == SettingsSpec => []ListensWhereShown
  <1>1. SettingsInv => ListensWhereShown
      BY DEF SettingsInv, Shown, ListensWhereShown
  <1> QED
      BY <1>1, SettingsCorrect, PTL

\* When all is quiet and the last save worked, a restart changes nothing but
\* the switches that the environment overrides.
THEOREM RestartKeepsSettings == SettingsSpec => []SettingsSurvive
  <1>1. ASSUME SettingsInv, desktop, live = SwitchesOf(current) PROVE Fits(current)
      BY <1>1 DEF SettingsInv, Kept, Fits, Flags, StartSwitches, Flagged, SwitchNames, SwitchesOf,
         Validated, Setting, SettingsTypeOK
  <1>2. SettingsInv => SettingsSurvive
      BY <1>1 DEF SettingsInv, Kept, Fits, SettingsSurvive
  <1> QED
      BY <1>2, SettingsCorrect, PTL

-----------------------------------------------------------------------------
(* Certificates. *)

Slots == {"caKey", "caCert", "key", "cert"}
Pems == [made : Nat, ca : Nat]

\* The four places in their order.
LEMMA Places ==
  /\ Len(CertFiles) = 4
  /\ CertFiles[1] = "caKey" /\ CertFiles[2] = "caCert"
  /\ CertFiles[3] = "key" /\ CertFiles[4] = "cert"
  /\ \A i \in 1 .. 4 : CertFiles[i] \in Slots
  /\ \A i, j \in 1 .. 4 : CertFiles[i] = CertFiles[j] => i = j
  /\ \A s \in Slots : \E i \in 1 .. 4 : CertFiles[i] = s
  BY DEF CertFiles, Slots

\* What a generation writes fits together; no files is four missing ones.
LEMMA MadeParts ==
  ASSUME NEW n \in Nat, NEW c \in Nat
  PROVE  /\ Made(n, c) \in [Slots -> Pems]
         /\ Made(n, c).caKey = [made |-> c, ca |-> c]
         /\ Made(n, c).caCert = [made |-> c, ca |-> c]
         /\ Made(n, c).key = [made |-> n, ca |-> c]
         /\ Made(n, c).cert = [made |-> n, ca |-> c]
  BY DEF Made, Slots, Pems

LEMMA NoFilesParts ==
  NoFiles \in [Slots -> Pems] /\ (\A s \in Slots : NoFiles[s] = Missing)
    /\ NoFiles.caCert = Missing
  BY DEF NoFiles, Slots, Pems, Missing

-----------------------------------------------------------------------------
FileJobs == {"staging", "movingAway", "installing", "puttingBack", "reporting"}

CertTypeOK ==
  /\ hasDb \in BOOLEAN /\ spoiled \in BOOLEAN
  /\ pem \in [Slots -> Pems] /\ bundle \in [Slots -> Pems] /\ old \in [Slots -> Pems]
  /\ before \in [Slots -> Pems] /\ wanted \in [Slots -> Pems]
  /\ certJob \in FileJobs \cup {"none", "starting", "clearing"}
  /\ place \in 0 .. 4
  /\ certJob \in {"staging", "movingAway", "installing", "clearing"} => place # 0
  /\ outcome \in {"none", "failed", "done"}
  /\ trusted \in Nat /\ made \in Nat /\ certMishaps \in Nat

\* A CA signed itself: its certificate and its key carry its own number.
SelfSigned(files) ==
  files.caKey.ca = files.caKey.made /\ files.caCert.ca = files.caCert.made

\* Which job belongs to which way of keeping the certificate.
JobsFit ==
  /\ SelfSigned(pem) /\ SelfSigned(old) /\ SelfSigned(before) /\ SelfSigned(wanted)
  /\ ~hasDb => bundle = NoFiles
  /\ certJob \in FileJobs => ~hasDb
  /\ certJob \in {"starting", "clearing"} => hasDb
  /\ certJob = "clearing" => bundle # NoFiles

Holds(files) == CAUsable(files) /\ files.caCert.made = trusted

\* The CA clients trust is in the row or, while there is none, in the files;
\* a commit that finds it there does not write the CA's files.
CAHeld ==
  /\ trusted # 0 => Holds(IF bundle = NoFiles THEN pem ELSE bundle)
  /\ certJob \in FileJobs /\ trusted # 0 => First = 3

\* What a commit writes fits together, and it leaves a CA it keeps alone.
PlanFits ==
  certJob \in FileJobs =>
    /\ Available(wanted)
    /\ wanted.caCert = before.caCert => wanted.caKey = before.caKey

Backed(k) == \A i \in First .. k : old[CertFiles[i]] = before[CertFiles[i]]

\* How far a commit, or putting it back, has come.
Progress ==
  /\ certJob = "staging" => pem = before
  /\ certJob \in {"movingAway", "installing"} =>
       /\ place >= First
       /\ \A i \in 1 .. 4 :
            /\ First <= i /\ i < place => pem[CertFiles[i]] = wanted[CertFiles[i]]
            /\ i < First \/ i > place => pem[CertFiles[i]] = before[CertFiles[i]]
  /\ certJob = "movingAway" =>
       pem[CertFiles[place]] = before[CertFiles[place]] /\ Backed(place - 1)
  /\ certJob = "installing" => Backed(place)
  /\ certJob = "puttingBack" /\ ~spoiled =>
       /\ \A i \in 1 .. 4 : i < First \/ i > place => pem[CertFiles[i]] = before[CertFiles[i]]
       /\ Backed(place)
  /\ certJob = "reporting" => pem = wanted

CertInv == CertTypeOK /\ JobsFit /\ CAHeld /\ PlanFits /\ Progress /\ CommitIsAtomic

-----------------------------------------------------------------------------
\* One file is replaced.
With(f, k, x) == [f EXCEPT ![CertFiles[k]] = x]

LEMMA Replaced ==
  ASSUME NEW f \in [Slots -> Pems], NEW k \in 1 .. 4, NEW x \in Pems
  PROVE  /\ With(f, k, x) \in [Slots -> Pems]
         /\ With(f, k, x)[CertFiles[k]] = x
         /\ \A i \in 1 .. 4 : i # k => With(f, k, x)[CertFiles[i]] = f[CertFiles[i]]
         /\ k >= 3 => With(f, k, x).caKey = f.caKey /\
                    With(f, k, x).caCert = f.caCert
         /\ SelfSigned(f) /\ (k < 3 => x.ca = x.made) => SelfSigned(With(f, k, x))
<1>0. PICK g : g = With(f, k, x)
  OBVIOUS
<1>1. CertFiles[k] \in Slots
  BY Places
<1>2. /\ g \in [Slots -> Pems]
      /\ g[CertFiles[k]] = x
      /\ \A s \in Slots : s # CertFiles[k] => g[s] = f[s]
  BY <1>0, <1>1 DEF With
<1>3. \A i \in 1 .. 4 : i # k => g[CertFiles[i]] = f[CertFiles[i]]
  BY <1>2, Places
<1>4. k >= 3 => g.caKey = f.caKey /\ g.caCert = f.caCert
  BY <1>3, Places
<1>5. SelfSigned(f) /\ (k < 3 => x.ca = x.made) => SelfSigned(g)
  <2>1. CASE k >= 3
    BY <1>4, <2>1 DEF SelfSigned
  <2>2. CASE k = 1
    BY <1>2, <1>3, <2>2, Places DEF SelfSigned
  <2>3. CASE k = 2
    BY <1>2, <1>3, <2>3, Places DEF SelfSigned
  <2> QED
    BY <2>1, <2>2, <2>3
<1> QED
  BY <1>0, <1>2, <1>3, <1>4, <1>5

LEMMA SignedAt ==
  ASSUME NEW f \in [Slots -> Pems], NEW k \in 1 .. 4, SelfSigned(f)
  PROVE  f[CertFiles[k]] \in Pems /\ (k < 3 => f[CertFiles[k]].ca = f[CertFiles[k]].made)
<1>1. k < 3 => k = 1 \/ k = 2
  OBVIOUS
<1> QED
  BY <1>1, Places DEF SelfSigned

LEMMA MissingIsPem == Missing \in Pems /\ Missing.ca = Missing.made
  BY DEF Missing, Pems

LEMMA FirstIs == First \in {1, 3}
  BY DEF First

\* Two sets of files that agree at the four places are the same.
LEMMA SameFiles ==
  ASSUME NEW f \in [Slots -> Pems], NEW g \in [Slots -> Pems],
         \A i \in 1 .. 4 : f[CertFiles[i]] = g[CertFiles[i]]
  PROVE  f = g
<1>1. \A s \in Slots : f[s] = g[s]
  BY Places
<1> QED
  BY <1>1

\* A usable CA has a number.
LEMMA UsableNumber ==
  ASSUME NEW f \in [Slots -> Pems], SelfSigned(f), CAUsable(f)
  PROVE  /\ f.caCert.made \in Nat \ {0}
         /\ f.caCert = [made |-> f.caCert.made, ca |-> f.caCert.made]
         /\ f.caKey = f.caCert
<1>1. f.caCert \in Pems /\ f.caCert.ca = f.caCert.made
  BY DEF SelfSigned, Slots
<1>2. f.caCert = [made |-> f.caCert.made, ca |-> f.caCert.made]
  BY <1>1 DEF Pems
<1> QED
  BY <1>1, <1>2 DEF CAUsable, Missing, Pems

LEMMA InitCert == CertInit => CertInv
<1> SUFFICES ASSUME CertInit PROVE CertInv
  OBVIOUS
<1> USE DEF CertInit
<1>1. CertTypeOK
  <2>1. /\ pem \in [Slots -> Pems] /\ bundle \in [Slots -> Pems] /\ old \in [Slots -> Pems]
        /\ before \in [Slots -> Pems] /\ wanted \in [Slots -> Pems]
    BY NoFilesParts
  <2>2. hasDb \in BOOLEAN /\ spoiled \in BOOLEAN
    BY Zenon
  <2>3. certJob \in FileJobs \cup {"none", "starting", "clearing"} /\ place \in 0 .. 4
    OBVIOUS
  <2> QED
    BY <2>1, <2>2, <2>3 DEF CertTypeOK
<1>2. JobsFit
  BY NoFilesParts, MissingIsPem DEF JobsFit, SelfSigned, FileJobs, Slots
<1>3. CAHeld /\ PlanFits /\ Progress /\ CommitIsAtomic
  BY DEF CAHeld, PlanFits, Progress, CommitIsAtomic, FileJobs
<1> QED
  BY <1>1, <1>2, <1>3 DEF CertInv

LEMMA GenerateKeeps ==
  ASSUME CertInv, GenerateFiles
  PROVE  CertInv'
<1>0. CertTypeOK /\ JobsFit /\ CAHeld
  BY DEF CertInv
<1>1. /\ ~hasDb /\ certJob = "none" /\ made' = made + 1
      /\ before' = pem /\ old' = NoFiles /\ outcome' = "none" /\ spoiled' = FALSE
      /\ hasDb' = hasDb /\ pem' = pem /\ bundle' = bundle /\ trusted' = trusted
      /\ certMishaps' = certMishaps
  BY DEF GenerateFiles
<1>2. /\ made' \in Nat \ {0} /\ SelfSigned(pem) /\ pem \in [Slots -> Pems] /\ bundle = NoFiles
  BY <1>0, <1>1 DEF CertTypeOK, JobsFit
<1>3. \/ /\ CAUsable(pem) /\ wanted' = Made(made', pem.caCert.made)
         /\ certJob' = "staging" /\ place' = 3
      \/ /\ pem.caKey = Missing /\ pem.caCert = Missing
         /\ wanted' = Made(made', made') /\ certJob' = "staging" /\ place' = 1
  BY DEF GenerateFiles, Put
<1>4. PICK c \in Nat \ {0} :
        /\ wanted' = Made(made', c)
        /\ \/ CAUsable(pem) /\ c = pem.caCert.made
           \/ pem.caCert = Missing /\ c = made'
  BY <1>2, <1>3, UsableNumber
<1>5. /\ wanted' \in [Slots -> Pems]
      /\ wanted'.caKey = [made |-> c, ca |-> c] /\ wanted'.caCert = [made |-> c, ca |-> c]
      /\ wanted'.key = [made |-> made', ca |-> c] /\ wanted'.cert = [made |-> made', ca |-> c]
  BY <1>2, <1>4, MadeParts
<1>6. certJob' = "staging" /\ place' \in {1, 3}
  BY <1>3
<1>7. CertTypeOK'
  <2>1. /\ pem' \in [Slots -> Pems] /\ bundle' \in [Slots -> Pems] /\ old' \in [Slots -> Pems]
        /\ before' \in [Slots -> Pems] /\ wanted' \in [Slots -> Pems]
    BY <1>0, <1>1, <1>5, NoFilesParts DEF CertTypeOK
  <2>2. /\ certJob' = "staging" /\ place' \in 0 .. 4 /\ place' # 0
    BY <1>6
  <2>3. /\ hasDb' \in BOOLEAN /\ spoiled' \in BOOLEAN /\ outcome' \in {"none", "failed", "done"}
        /\ trusted' \in Nat /\ made' \in Nat /\ certMishaps' \in Nat
    BY <1>0, <1>1, <1>2 DEF CertTypeOK
  <2> QED
    BY <2>1, <2>2, <2>3 DEF CertTypeOK, FileJobs
<1>8. JobsFit'
  <2>1. SelfSigned(wanted)' /\ SelfSigned(pem)' /\ SelfSigned(before)'
    BY <1>1, <1>2, <1>5 DEF SelfSigned
  <2>2. SelfSigned(old)'
    BY <1>1, NoFilesParts, MissingIsPem DEF SelfSigned, Slots
  <2> QED
    BY <1>1, <1>2, <1>6, <2>1, <2>2 DEF JobsFit, FileJobs
<1>9. Available(wanted)'
  <2>1. wanted'.caCert # Missing /\ wanted'.cert # Missing
    BY <1>2, <1>5 DEF Missing
  <2> QED
    BY <1>5, <2>1 DEF Available, CAUsable
<1>10. CASE CAUsable(pem) /\ c = pem.caCert.made
  <2>1. wanted'.caCert = pem.caCert /\ wanted'.caKey = pem.caKey
    BY <1>2, <1>5, <1>10, UsableNumber
  <2>2. First' = 3
    BY <1>1, <2>1 DEF First
  <2>3. CAHeld'
    BY <1>0, <1>1, <1>2, <2>2 DEF CAHeld, Holds
  <2>4. PlanFits'
    BY <1>1, <1>9, <2>1 DEF PlanFits
  <2> QED
    BY <1>1, <1>6, <1>7, <1>8, <2>3, <2>4 DEF CertInv, Progress, CommitIsAtomic
<1>11. CASE pem.caCert = Missing
  <2>1. trusted = 0
    BY <1>0, <1>2, <1>11 DEF CAHeld, Holds, CAUsable
  <2>2. wanted'.caCert # Missing
    BY <1>9 DEF Available, CAUsable
  <2>3. CAHeld' /\ PlanFits'
    BY <1>1, <1>9, <1>11, <2>1, <2>2 DEF CAHeld, PlanFits
  <2> QED
    BY <1>1, <1>6, <1>7, <1>8, <2>3 DEF CertInv, Progress, CommitIsAtomic
<1> QED
  BY <1>4, <1>10, <1>11

LEMMA RefusedKeeps ==
  ASSUME CertInv, GenerateRefused
  PROVE  CertInv'
<1>0. CertTypeOK /\ JobsFit /\ CAHeld
  BY DEF CertInv
<1>1. /\ ~hasDb /\ certJob = "none" /\ made' = made + 1 /\ before' = pem /\ outcome' = "failed"
      /\ hasDb' = hasDb /\ pem' = pem /\ bundle' = bundle /\ certJob' = certJob
      /\ place' = place /\ old' = old /\ wanted' = wanted /\ spoiled' = spoiled
      /\ trusted' = trusted /\ certMishaps' = certMishaps
  BY DEF GenerateRefused
<1>2. CertTypeOK'
  BY <1>0, <1>1 DEF CertTypeOK
<1>3. JobsFit'
  BY <1>0, <1>1 DEF JobsFit, SelfSigned
<1>4. CAHeld' /\ PlanFits' /\ Progress' /\ CommitIsAtomic'
  BY <1>0, <1>1 DEF CAHeld, Holds, CAUsable, PlanFits, Progress, CommitIsAtomic, FileJobs
<1> QED
  BY <1>2, <1>3, <1>4 DEF CertInv

-----------------------------------------------------------------------------
(* The steps of a commit. *)

\* What they all leave as it is, and what of the invariant follows from that.
LEMMA CommitSame ==
  ASSUME CertInv, certJob \in FileJobs, UNCHANGED CommitVars
  PROVE  /\ ~hasDb /\ hasDb' = hasDb /\ bundle' = bundle /\ bundle = NoFiles
         /\ before' = before /\ wanted' = wanted /\ made' = made
         /\ First' = First /\ (trusted # 0 => First = 3)
         /\ Available(wanted)
         /\ Available(wanted)' /\ (wanted'.caCert = before'.caCert => wanted'.caKey = before'.caKey)
         /\ \A k \in Nat : old' = old => (Backed(k)' <=> Backed(k))
  BY DEF CertInv, JobsFit, CAHeld, PlanFits, CommitVars, First, Available, CAUsable, Backed

\* The parts of the invariant a step of a commit keeps when it ends in a
\* state of its own kind.
LEMMA CommitKept ==
  ASSUME CertInv, certJob \in FileJobs, UNCHANGED CommitVars, UNCHANGED trusted,
         certJob' \in FileJobs, CertTypeOK', SelfSigned(pem)', SelfSigned(old)',
         trusted # 0 => pem'.caKey = pem.caKey /\ pem'.caCert = pem.caCert
  PROVE  JobsFit' /\ CAHeld' /\ PlanFits' /\ CommitIsAtomic'
<1>1. /\ ~hasDb /\ hasDb' = hasDb /\ bundle' = bundle /\ bundle = NoFiles
      /\ before' = before /\ wanted' = wanted
      /\ First' = First /\ (trusted # 0 => First = 3)
      /\ Available(wanted)' /\ (wanted'.caCert = before'.caCert => wanted'.caKey = before'.caKey)
  BY CommitSame DEF CommitVars
<1>2. JobsFit'
  BY <1>1 DEF CertInv, JobsFit, SelfSigned, FileJobs
<1>3. CAHeld'
  BY <1>1 DEF CertInv, CAHeld, Holds, CAUsable
<1>4. PlanFits' /\ CommitIsAtomic'
  BY <1>1 DEF PlanFits, CommitIsAtomic, FileJobs
<1> QED
  BY <1>2, <1>3, <1>4

\* Its types, from those of what it changes.
LEMMA CommitTypes ==
  ASSUME CertInv, certJob \in FileJobs, UNCHANGED CommitVars,
         pem' \in [Slots -> Pems], old' \in [Slots -> Pems],
         certJob' \in FileJobs \cup {"none"}, place' \in 0 .. 4,
         certJob' \in {"staging", "movingAway", "installing"} => place' # 0,
         outcome' \in {"none", "failed", "done"}, trusted' \in Nat,
         spoiled' \in BOOLEAN, certMishaps' \in Nat
  PROVE  CertTypeOK'
<1>1. /\ hasDb' = hasDb /\ bundle' = bundle /\ before' = before /\ wanted' = wanted
      /\ made' = made
  BY CommitSame
<1>2. /\ bundle' \in [Slots -> Pems] /\ before' \in [Slots -> Pems]
      /\ wanted' \in [Slots -> Pems] /\ made' \in Nat /\ hasDb' \in BOOLEAN
  BY <1>1 DEF CertInv, CertTypeOK
<1>3. certJob' # "clearing"
  BY DEF FileJobs
<1> QED
  BY <1>2, <1>3 DEF CertTypeOK

\* The same for a step that ends the commit in failure.
LEMMA FailedKept ==
  ASSUME CertInv, certJob \in FileJobs, UNCHANGED <<CommitVars, pem, old, spoiled, trusted>>,
         certMishaps' \in Nat, Failed, ~spoiled => pem = before
  PROVE  CertInv'
<1>1. /\ ~hasDb /\ hasDb' = hasDb /\ bundle' = bundle /\ bundle = NoFiles
      /\ before' = before /\ wanted' = wanted /\ made' = made
  BY CommitSame
<1>2. certJob' = "none" /\ place' = 0 /\ outcome' = "failed"
  BY DEF Failed
<1>3. CertTypeOK'
  <2>1. /\ pem' \in [Slots -> Pems] /\ old' \in [Slots -> Pems]
        /\ trusted' \in Nat /\ spoiled' \in BOOLEAN
    BY DEF CertInv, CertTypeOK
  <2>2. certJob' \in FileJobs \cup {"none"} /\ place' \in 0 .. 4
        /\ certJob' \notin {"staging", "movingAway", "installing"}
        /\ outcome' \in {"none", "failed", "done"}
    BY <1>2
  <2>3. UNCHANGED CommitVars
    OBVIOUS
  <2> QED
    BY <2>1, <2>2, <2>3, CommitTypes
<1>4. JobsFit'
  BY <1>1, <1>2 DEF CertInv, JobsFit, SelfSigned, FileJobs
<1>5. CAHeld'
  BY <1>1, <1>2 DEF CertInv, CAHeld, Holds, CAUsable, FileJobs
<1>6. PlanFits' /\ Progress' /\ CommitIsAtomic'
  BY <1>1, <1>2 DEF PlanFits, Progress, CommitIsAtomic, FileJobs
<1> QED
  BY <1>3, <1>4, <1>5, <1>6 DEF CertInv

LEMMA StageKeeps ==
  ASSUME CertInv, Stage
  PROVE  CertInv'
<1>1. /\ certJob = "staging" /\ pem' = pem /\ old' = old /\ outcome' = outcome
      /\ spoiled' = spoiled /\ trusted' = trusted /\ certMishaps' = certMishaps
      /\ UNCHANGED CommitVars
  BY DEF Stage
<1>2. certJob \in FileJobs
  BY <1>1 DEF FileJobs
<1>3. place \in 1 .. 4 /\ pem = before
  BY <1>1 DEF CertInv, CertTypeOK, Progress
<1>4. \/ place = 4 /\ certJob' = "movingAway" /\ place' = First
      \/ place # 4 /\ certJob' = "staging" /\ place' = place + 1
  BY Places DEF Stage, Put
<1>5. /\ hasDb' = hasDb /\ bundle' = bundle /\ before' = before /\ wanted' = wanted
      /\ made' = made /\ First' = First
  BY <1>2, <1>1, CommitSame
<1>6. certJob' \in FileJobs /\ place' \in 1 .. 4
  <2>1. CASE place = 4
    <3>1. First \in 1 .. 4
      BY FirstIs
    <3> QED
      BY <1>4, <2>1, <3>1 DEF FileJobs
  <2>2. CASE place # 4
    <3>1. place + 1 \in 1 .. 4
      BY <1>3, <2>2
    <3> QED
      BY <1>4, <2>2, <3>1 DEF FileJobs
  <2> QED
    BY <2>1, <2>2
<1>7. CertTypeOK'
  <2>1. /\ pem' \in [Slots -> Pems] /\ old' \in [Slots -> Pems] /\ trusted' \in Nat
        /\ spoiled' \in BOOLEAN /\ certMishaps' \in Nat /\ outcome' \in {"none", "failed", "done"}
    BY <1>1 DEF CertInv, CertTypeOK
  <2>2. place' \in 0 .. 4 /\ place' # 0
    BY <1>6
  <2> QED
    BY <1>1, <1>2, <1>6, <2>1, <2>2, CommitTypes
<1>8. SelfSigned(pem)' /\ SelfSigned(old)'
  BY <1>1 DEF CertInv, JobsFit, SelfSigned
<1>9. JobsFit' /\ CAHeld' /\ PlanFits' /\ CommitIsAtomic'
  BY <1>1, <1>2, <1>6, <1>7, <1>8, CommitKept
<1>10. Progress'
  <2>1. CASE place # 4
    BY <1>1, <1>3, <1>4, <1>5, <2>1 DEF Progress
  <2>2. CASE place = 4
    <3>1. PICK f \in {1, 3} : First = f
      BY FirstIs
    <3>2. certJob' = "movingAway" /\ place' = f /\ First' = f
      BY <1>4, <1>5, <2>2, <3>1
    <3>3. \A i \in 1 .. 4 : pem'[CertFiles[i]] = before'[CertFiles[i]]
      BY <1>1, <1>3, <1>5
    <3>4. /\ \A i \in f .. (f - 1) : FALSE
          /\ \A i \in 1 .. 4 : ~(f <= i /\ i < f)
          /\ f \in 1 .. 4 /\ f >= f
      BY <3>1
    <3> HIDE DEF First
    <3> QED
      BY <3>2, <3>3, <3>4 DEF Progress, Backed
  <2> QED
    BY <2>1, <2>2
<1> QED
  BY <1>7, <1>9, <1>10 DEF CertInv

LEMMA StageFailsKeeps ==
  ASSUME CertInv, StageFails
  PROVE  CertInv'
<1>1. /\ certJob = "staging" /\ Failed
      /\ UNCHANGED <<CommitVars, pem, old, spoiled, trusted>>
  BY DEF StageFails
<1>2. certJob \in FileJobs /\ pem = before
  BY <1>1 DEF CertInv, Progress, FileJobs
<1>3. certMishaps' \in Nat
  BY DEF StageFails, CertMishap, CertInv, CertTypeOK
<1> QED
  BY <1>1, <1>2, <1>3, FailedKept

LEMMA MoveAwayKeeps ==
  ASSUME CertInv, MoveAway
  PROVE  CertInv'
<1>1. /\ certJob = "movingAway" /\ certJob' = "installing" /\ place' = place
      /\ old' = [old EXCEPT ![CertFiles[place]] = pem[CertFiles[place]]]
      /\ pem' = [pem EXCEPT ![CertFiles[place]] = Missing]
      /\ outcome' = outcome /\ spoiled' = spoiled /\ trusted' = trusted
      /\ certMishaps' = certMishaps /\ UNCHANGED CommitVars
  BY DEF MoveAway, Put, File
<1>2. certJob \in FileJobs /\ certJob' \in FileJobs
  BY <1>1 DEF FileJobs
<1>3. /\ place \in 1 .. 4 /\ place >= First /\ pem \in [Slots -> Pems]
      /\ old \in [Slots -> Pems] /\ SelfSigned(pem) /\ SelfSigned(old)
  <2>1. place \in 0 .. 4 /\ place # 0 /\ pem \in [Slots -> Pems] /\ old \in [Slots -> Pems]
    BY <1>1 DEF CertInv, CertTypeOK
  <2>2. place >= First
    BY <1>1 DEF CertInv, Progress
  <2>3. SelfSigned(pem) /\ SelfSigned(old)
    BY DEF CertInv, JobsFit
  <2> QED
    BY <2>1, <2>2, <2>3
<1>4. /\ hasDb' = hasDb /\ bundle' = bundle /\ before' = before /\ wanted' = wanted
      /\ made' = made /\ First' = First /\ (trusted # 0 => First = 3)
  BY <1>1, <1>2, CommitSame
<1>5. /\ pem' \in [Slots -> Pems] /\ SelfSigned(pem')
      /\ \A i \in 1 .. 4 : i # place => pem'[CertFiles[i]] = pem[CertFiles[i]]
      /\ place >= 3 => pem'.caKey = pem.caKey /\ pem'.caCert = pem.caCert
  <2>1. pem' = With(pem, place, Missing)
    BY <1>1 DEF With
  <2>2. Missing \in Pems /\ Missing.ca = Missing.made
    BY MissingIsPem
  <2> QED
    BY <1>3, <2>1, <2>2, Replaced
<1>6. /\ old' \in [Slots -> Pems] /\ SelfSigned(old')
      /\ old'[CertFiles[place]] = pem[CertFiles[place]]
      /\ \A i \in 1 .. 4 : i # place => old'[CertFiles[i]] = old[CertFiles[i]]
  <2>1. old' = [old EXCEPT ![CertFiles[place]] = pem[CertFiles[place]]]
    BY <1>1
  <2>2. PICK x \in Pems : x = pem[CertFiles[place]] /\ (place < 3 => x.ca = x.made)
    BY <1>3, SignedAt
  <2>3. old' = With(old, place, x)
    BY <2>1, <2>2 DEF With
  <2>4. /\ With(old, place, x) \in [Slots -> Pems]
        /\ With(old, place, x)[CertFiles[place]] = x
        /\ \A i \in 1 .. 4 : i # place => With(old, place, x)[CertFiles[i]] = old[CertFiles[i]]
        /\ place >= 3 => With(old, place, x).caKey = old.caKey
                          /\ With(old, place, x).caCert = old.caCert
        /\ SelfSigned(With(old, place, x))
    BY <1>3, <2>2, Replaced
  <2> QED
    BY <2>2, <2>3, <2>4
<1>7. CertTypeOK'
  BY <1>1, <1>2, <1>3, <1>4, <1>5, <1>6 DEF CertInv, CertTypeOK
<1>8. JobsFit' /\ CAHeld' /\ PlanFits' /\ CommitIsAtomic'
  <2>1. trusted # 0 => pem'.caKey = pem.caKey /\ pem'.caCert = pem.caCert
    BY <1>3, <1>4, <1>5
  <2>2. SelfSigned(pem)' /\ SelfSigned(old)'
    BY <1>5, <1>6 DEF SelfSigned
  <2> QED
    BY <1>1, <1>2, <1>7, <2>1, <2>2, CommitKept
<1>9. Progress'
  <2>1. /\ \A i \in 1 .. 4 :
             /\ First <= i /\ i < place => pem[CertFiles[i]] = wanted[CertFiles[i]]
             /\ i < First \/ i > place => pem[CertFiles[i]] = before[CertFiles[i]]
        /\ pem[CertFiles[place]] = before[CertFiles[place]]
        /\ \A i \in First .. (place - 1) : old[CertFiles[i]] = before[CertFiles[i]]
    BY <1>1 DEF CertInv, Progress, Backed
  <2>2. \A i \in First .. place : old'[CertFiles[i]] = before[CertFiles[i]]
    BY <1>3, <1>6, <2>1, FirstIs
  <2>3. \A i \in 1 .. 4 :
             /\ First <= i /\ i < place => pem'[CertFiles[i]] = wanted[CertFiles[i]]
             /\ i < First \/ i > place => pem'[CertFiles[i]] = before[CertFiles[i]]
    BY <1>3, <1>5, <2>1, FirstIs
  <2> QED
    BY <1>1, <1>3, <1>4, <2>2, <2>3 DEF Progress, Backed
<1> QED
  BY <1>7, <1>8, <1>9 DEF CertInv

LEMMA InstallKeeps ==
  ASSUME CertInv, Install
  PROVE  CertInv'
<1>1. /\ certJob = "installing"
      /\ pem' = [pem EXCEPT ![CertFiles[place]] = wanted[CertFiles[place]]]
      /\ old' = old /\ outcome' = outcome /\ spoiled' = spoiled /\ trusted' = trusted
      /\ certMishaps' = certMishaps /\ UNCHANGED CommitVars
  BY DEF Install, File
<1>2. \/ place < 4 /\ certJob' = "movingAway" /\ place' = place + 1
      \/ ~(place < 4) /\ certJob' = "reporting" /\ place' = 0
  BY Places DEF Install, Put
<1>3. certJob \in FileJobs /\ certJob' \in FileJobs
  BY <1>1, <1>2 DEF FileJobs
<1>4. /\ place \in 1 .. 4 /\ place >= First /\ pem \in [Slots -> Pems]
      /\ wanted \in [Slots -> Pems] /\ before \in [Slots -> Pems]
      /\ SelfSigned(pem) /\ SelfSigned(wanted)
  BY <1>1 DEF CertInv, CertTypeOK, Progress, JobsFit
<1>5. /\ hasDb' = hasDb /\ bundle' = bundle /\ before' = before /\ wanted' = wanted
      /\ made' = made /\ First' = First /\ (trusted # 0 => First = 3)
  BY <1>1, <1>3, CommitSame
<1>6. /\ pem' \in [Slots -> Pems] /\ SelfSigned(pem')
      /\ pem'[CertFiles[place]] = wanted[CertFiles[place]]
      /\ \A i \in 1 .. 4 : i # place => pem'[CertFiles[i]] = pem[CertFiles[i]]
      /\ place >= 3 => pem'.caKey = pem.caKey /\ pem'.caCert = pem.caCert
  <2>1. pem' = [pem EXCEPT ![CertFiles[place]] = wanted[CertFiles[place]]]
    BY <1>1
  <2>2. PICK x \in Pems : x = wanted[CertFiles[place]] /\ (place < 3 => x.ca = x.made)
    BY <1>4, SignedAt
  <2>3. pem' = With(pem, place, x)
    BY <2>1, <2>2 DEF With
  <2>4. /\ With(pem, place, x) \in [Slots -> Pems]
        /\ With(pem, place, x)[CertFiles[place]] = x
        /\ \A i \in 1 .. 4 : i # place => With(pem, place, x)[CertFiles[i]] = pem[CertFiles[i]]
        /\ place >= 3 => With(pem, place, x).caKey = pem.caKey
                          /\ With(pem, place, x).caCert = pem.caCert
        /\ SelfSigned(With(pem, place, x))
    <3>1. pem \in [Slots -> Pems] /\ place \in 1 .. 4 /\ SelfSigned(pem)
      BY <1>4
    <3> QED
      BY <2>2, <3>1, Replaced
  <2> QED
    BY <2>2, <2>3, <2>4
<1>7. CertTypeOK'
  <2>1. place' \in 0 .. 4 /\ (certJob' = "movingAway" => place' # 0)
    <3>1. CASE place < 4
      <4>1. place' = place + 1
        BY <1>2, <3>1
      <4>2. place' \in 0 .. 4
        BY <1>4, <3>1, <4>1
      <4>3. place' # 0
        BY <1>4, <4>1
      <4> QED
        BY <4>2, <4>3
    <3>2. CASE ~(place < 4)
      <4>1. certJob' = "reporting" /\ place' = 0
        BY <1>2, <3>2
      <4>2. place' \in 0 .. 4
        BY <4>1
      <4> QED
        BY <4>1, <4>2
    <3> QED
      BY <3>1, <3>2
  <2> QED
    BY <1>1, <1>2, <1>3, <1>5, <1>6, <2>1 DEF CertInv, CertTypeOK
<1>8. JobsFit' /\ CAHeld' /\ PlanFits' /\ CommitIsAtomic'
  <2>1. trusted # 0 => pem'.caKey = pem.caKey /\ pem'.caCert = pem.caCert
    BY <1>4, <1>5, <1>6
  <2>2. SelfSigned(pem)' /\ SelfSigned(old)'
    BY <1>1, <1>6 DEF SelfSigned, CertInv, JobsFit
  <2> QED
    BY <1>1, <1>3, <1>7, <2>1, <2>2, CommitKept
<1>9. /\ \A i \in 1 .. 4 :
           /\ First <= i /\ i <= place => pem'[CertFiles[i]] = wanted[CertFiles[i]]
           /\ i < First \/ i > place => pem'[CertFiles[i]] = before[CertFiles[i]]
      /\ \A i \in First .. place : old[CertFiles[i]] = before[CertFiles[i]]
  <2>1. /\ \A i \in 1 .. 4 :
             /\ First <= i /\ i < place => pem[CertFiles[i]] = wanted[CertFiles[i]]
             /\ i < First \/ i > place => pem[CertFiles[i]] = before[CertFiles[i]]
        /\ \A i \in First .. place : old[CertFiles[i]] = before[CertFiles[i]]
    BY <1>1 DEF CertInv, Progress, Backed
  <2> QED
    BY <1>4, <1>6, <2>1, FirstIs
<1>10. Progress'
  <2>1. CASE place < 4
    <3>1. place' = place + 1 /\ certJob' = "movingAway" /\ place' \in 1 .. 4 /\ place' >= First
      <4>1. place' = place + 1
        BY <1>2, <2>1
      <4>2. certJob' = "movingAway"
        BY <1>2, <2>1
      <4>3. place' \in 1 .. 4
        BY <1>4, <2>1, <4>1
      <4>4. place' >= First
        BY <1>4, <4>1, FirstIs
      <4> QED
        BY <4>1, <4>2, <4>3, <4>4
    <3>2. /\ \A i \in 1 .. 4 :
               /\ First <= i /\ i < place' => pem'[CertFiles[i]] = wanted[CertFiles[i]]
               /\ i < First \/ i > place' => pem'[CertFiles[i]] = before[CertFiles[i]]
          /\ pem'[CertFiles[place']] = before[CertFiles[place']]
          /\ \A i \in First .. (place' - 1) : old[CertFiles[i]] = before[CertFiles[i]]
      <4>1. place' = place + 1 /\ place' \in 1 .. 4
        BY <3>1
      <4>2. \A i \in 1 .. 4 : (i < place' <=> i <= place) /\ (i > place' => i > place)
        BY <1>4, <4>1
      <4>3. place' > place /\ place' - 1 = place
        BY <1>4, <4>1
      <4> QED
        BY <1>9, <4>1, <4>2, <4>3
    <3> QED
      BY <1>1, <1>5, <3>1, <3>2 DEF Progress, Backed
  <2>2. CASE ~(place < 4)
    <3>1. place = 4 /\ certJob' = "reporting"
      <4>1. certJob' = "reporting"
        BY <1>2, <2>2
      <4>2. place = 4
        BY <1>4, <2>2
      <4> QED
        BY <4>1, <4>2
    <3>2. \A i \in 1 .. 4 : pem'[CertFiles[i]] = wanted[CertFiles[i]]
      <4>1. CASE First = 1
        BY <1>9, <3>1, <4>1
      <4>2. CASE First = 3
        <5>1. wanted.caCert = before.caCert /\ wanted.caKey = before.caKey
          BY <1>3, <4>2 DEF CertInv, PlanFits, First
        <5>2. \A i \in 1 .. 4 : i < 3 => i = 1 \/ i = 2
          OBVIOUS
        <5>3. \A i \in 1 .. 4 : i < 3 => wanted[CertFiles[i]] = before[CertFiles[i]]
          BY <5>1, <5>2, Places
        <5> QED
          BY <1>9, <3>1, <4>2, <5>3
      <4> QED
        BY <4>1, <4>2, FirstIs
    <3>3. pem' = wanted
      BY <1>4, <1>6, <3>2, SameFiles
    <3> QED
      BY <1>5, <3>1, <3>3 DEF Progress
  <2> QED
    BY <2>1, <2>2
<1> QED
  BY <1>7, <1>8, <1>10 DEF CertInv

LEMMA InstallFailsKeeps ==
  ASSUME CertInv, InstallFails
  PROVE  CertInv'
<1>1. /\ certJob = "installing" /\ certJob' = "puttingBack" /\ place' = place
      /\ old' = old /\ outcome' = outcome /\ spoiled' = spoiled /\ trusted' = trusted
      /\ UNCHANGED CommitVars
  BY DEF InstallFails, Put
<1>2. certJob \in FileJobs /\ certJob' \in FileJobs
  BY <1>1 DEF FileJobs
<1>3. /\ place \in 0 .. 4 /\ place # 0 /\ pem \in [Slots -> Pems] /\ wanted \in [Slots -> Pems]
      /\ old \in [Slots -> Pems]
  BY <1>1 DEF CertInv, CertTypeOK
<1>4. place >= First /\ place \in 1 .. 4
  BY <1>1, <1>3 DEF CertInv, Progress
<1>5. SelfSigned(pem) /\ SelfSigned(wanted) /\ SelfSigned(old)
  BY DEF CertInv, JobsFit
<1>6. /\ hasDb' = hasDb /\ bundle' = bundle /\ before' = before /\ wanted' = wanted
      /\ made' = made /\ First' = First /\ (trusted # 0 => First = 3)
  BY <1>1, <1>2, CommitSame
<1>7. /\ pem' \in [Slots -> Pems] /\ SelfSigned(pem')
      /\ \A i \in 1 .. 4 : i # place => pem'[CertFiles[i]] = pem[CertFiles[i]]
      /\ place >= 3 => pem'.caKey = pem.caKey /\ pem'.caCert = pem.caCert
  <2>1. CASE pem' = pem
    BY <1>3, <1>5, <2>1
  <2>2. CASE pem' = [pem EXCEPT ![CertFiles[place]] = wanted[CertFiles[place]]]
    <3>1. PICK x \in Pems : x = wanted[CertFiles[place]] /\ (place < 3 => x.ca = x.made)
      BY <1>3, <1>4, <1>5, SignedAt
    <3>2. pem' = With(pem, place, x)
      BY <2>2, <3>1 DEF With
    <3>3. pem \in [Slots -> Pems] /\ place \in 1 .. 4 /\ SelfSigned(pem)
      BY <1>3, <1>4, <1>5
    <3>4. /\ With(pem, place, x) \in [Slots -> Pems]
          /\ \A i \in 1 .. 4 : i # place => With(pem, place, x)[CertFiles[i]] = pem[CertFiles[i]]
          /\ place >= 3 => With(pem, place, x).caKey = pem.caKey
                            /\ With(pem, place, x).caCert = pem.caCert
          /\ SelfSigned(With(pem, place, x))
      BY <3>1, <3>3, Replaced
    <3> QED
      BY <3>2, <3>4
  <2> QED
    BY <2>1, <2>2 DEF InstallFails, File
<1>8. CertTypeOK'
  <2>1. /\ outcome' \in {"none", "failed", "done"} /\ trusted' \in Nat /\ spoiled' \in BOOLEAN
        /\ certMishaps' \in Nat
    BY <1>1 DEF CertInv, CertTypeOK, InstallFails, CertMishap
  <2>2. old' \in [Slots -> Pems] /\ place' \in 0 .. 4 /\ place' # 0
    BY <1>1, <1>3
  <2>3. certJob' \in FileJobs \cup {"none"}
    BY <1>2
  <2> QED
    BY <1>1, <1>2, <1>7, <2>1, <2>2, <2>3, CommitTypes
<1>9. JobsFit' /\ CAHeld' /\ PlanFits' /\ CommitIsAtomic'
  <2>1. trusted # 0 => pem'.caKey = pem.caKey /\ pem'.caCert = pem.caCert
    BY <1>4, <1>6, <1>7
  <2>2. SelfSigned(pem)' /\ SelfSigned(old)'
    BY <1>1, <1>5, <1>7 DEF SelfSigned
  <2> QED
    BY <1>1, <1>2, <1>8, <2>1, <2>2, CommitKept
<1>10. Progress'
  <2>1. /\ \A i \in 1 .. 4 : i < First \/ i > place => pem[CertFiles[i]] = before[CertFiles[i]]
        /\ Backed(place)
    BY <1>1 DEF CertInv, Progress
  <2>2. \A i \in 1 .. 4 : i < First \/ i > place => pem'[CertFiles[i]] = before[CertFiles[i]]
    BY <1>4, <1>7, <2>1, FirstIs
  <2> QED
    BY <1>1, <1>6, <2>1, <2>2 DEF Progress, Backed
<1> QED
  BY <1>8, <1>9, <1>10 DEF CertInv

LEMMA MoveAwayFailsKeeps ==
  ASSUME CertInv, MoveAwayFails
  PROVE  CertInv'
<1>1. /\ certJob = "movingAway" /\ certJob' = "puttingBack" /\ place' = place - 1
      /\ pem' = pem /\ old' = old /\ outcome' = outcome /\ spoiled' = spoiled
      /\ trusted' = trusted /\ UNCHANGED CommitVars
  BY DEF MoveAwayFails, Put
<1>2. certJob \in FileJobs /\ certJob' \in FileJobs
  BY <1>1 DEF FileJobs
<1>3. /\ place \in 0 .. 4 /\ place # 0 /\ pem \in [Slots -> Pems] /\ old \in [Slots -> Pems]
  BY <1>1 DEF CertInv, CertTypeOK
<1>4. place \in 1 .. 4
  BY <1>3
<1>5. SelfSigned(pem)' /\ SelfSigned(old)'
  BY <1>1 DEF CertInv, JobsFit, SelfSigned
<1>6. /\ hasDb' = hasDb /\ bundle' = bundle /\ before' = before /\ wanted' = wanted
      /\ made' = made /\ First' = First
  BY <1>1, <1>2, CommitSame
<1>7. CertTypeOK'
  <2>1. /\ outcome' \in {"none", "failed", "done"} /\ trusted' \in Nat /\ spoiled' \in BOOLEAN
        /\ certMishaps' \in Nat /\ pem' \in [Slots -> Pems] /\ old' \in [Slots -> Pems]
    BY <1>1 DEF CertInv, CertTypeOK, MoveAwayFails, CertMishap
  <2>2. place - 1 \in 0 .. 4
    BY <1>4
  <2>3. place' \in 0 .. 4
    BY <1>1, <2>2
  <2>4. certJob' \in FileJobs \cup {"none"} /\ certJob' \notin {"staging", "movingAway", "installing"}
    BY <1>1 DEF FileJobs
  <2> QED
    BY <1>1, <1>2, <2>1, <2>3, <2>4, CommitTypes
<1>8. JobsFit' /\ CAHeld' /\ PlanFits' /\ CommitIsAtomic'
  <2>1. trusted # 0 => pem'.caKey = pem.caKey /\ pem'.caCert = pem.caCert
    BY <1>1
  <2> QED
    BY <1>1, <1>2, <1>5, <1>7, <2>1, CommitKept
<1>9. Progress'
  <2>1. /\ \A i \in 1 .. 4 : i < First \/ i > place => pem[CertFiles[i]] = before[CertFiles[i]]
        /\ pem[CertFiles[place]] = before[CertFiles[place]] /\ Backed(place - 1)
    BY <1>1 DEF CertInv, Progress
  <2>2. PICK p \in 0 .. 3 : p = place - 1 /\ place' = p
    BY <1>1, <1>4
  <2>3. \A i \in 1 .. 4 : i > p => i > place \/ i = place
    BY <1>4, <2>2
  <2>4. \A i \in 1 .. 4 : i < First \/ i > p => pem'[CertFiles[i]] = before[CertFiles[i]]
    BY <1>1, <2>1, <2>3
  <2> QED
    BY <1>1, <1>6, <2>1, <2>2, <2>4 DEF Progress, Backed
<1> QED
  BY <1>7, <1>8, <1>9 DEF CertInv

\* Going backwards: what has been put back is as it was, and what has not has
\* a backup; the CA's files are not among them once a CA is trusted.
LEMMA PuttingBackKeeps ==
  ASSUME CertInv, NEW x \in Pems, certJob = "puttingBack", place >= First,
         place \in 1 .. 4, place < 3 => x.ca = x.made,
         pem' = pem \/ pem' = With(pem, place, x),
         spoiled' \in BOOLEAN, ~spoiled' => ~spoiled /\ pem' = With(pem, place, old[CertFiles[place]]),
         Put("puttingBack", place - 1), certMishaps' \in Nat,
         UNCHANGED <<old, outcome, trusted>>, UNCHANGED CommitVars
  PROVE  CertInv'
<1>1. certJob' = "puttingBack" /\ place' = place - 1
  BY DEF Put
<1>2. certJob \in FileJobs /\ certJob' \in FileJobs
  BY <1>1 DEF FileJobs
<1>3. /\ pem \in [Slots -> Pems] /\ old \in [Slots -> Pems] /\ SelfSigned(pem) /\ SelfSigned(old)
  BY DEF CertInv, CertTypeOK, JobsFit
<1>4. /\ hasDb' = hasDb /\ bundle' = bundle /\ before' = before /\ wanted' = wanted
      /\ made' = made /\ First' = First /\ (trusted # 0 => First = 3)
  BY <1>2, CommitSame
<1>5. /\ pem' \in [Slots -> Pems] /\ SelfSigned(pem')
      /\ place >= 3 => pem'.caKey = pem.caKey /\ pem'.caCert = pem.caCert
  <2>1. CASE pem' = pem
    BY <1>3, <2>1
  <2>2. CASE pem' = With(pem, place, x)
    <3>1. /\ With(pem, place, x) \in [Slots -> Pems]
          /\ place >= 3 => With(pem, place, x).caKey = pem.caKey
                            /\ With(pem, place, x).caCert = pem.caCert
          /\ SelfSigned(With(pem, place, x))
      BY <1>3, Replaced
    <3> QED
      BY <2>2, <3>1
  <2> QED
    BY <2>1, <2>2
<1>6. CertTypeOK'
  <2>1. /\ outcome' \in {"none", "failed", "done"} /\ trusted' \in Nat /\ old' \in [Slots -> Pems]
    BY DEF CertInv, CertTypeOK
  <2>2. place - 1 \in 0 .. 4
    OBVIOUS
  <2>3. place' \in 0 .. 4
    BY <1>1, <2>2
  <2>4. certJob' \in FileJobs \cup {"none"} /\ certJob' \notin {"staging", "movingAway", "installing"}
    BY <1>1 DEF FileJobs
  <2> QED
    BY <1>2, <1>5, <2>1, <2>3, <2>4, CommitTypes
<1>7. JobsFit' /\ CAHeld' /\ PlanFits' /\ CommitIsAtomic'
  <2>1. trusted # 0 => pem'.caKey = pem.caKey /\ pem'.caCert = pem.caCert
    BY <1>4, <1>5
  <2>2. SelfSigned(pem)' /\ SelfSigned(old)'
    BY <1>3, <1>5 DEF SelfSigned
  <2> QED
    BY <1>2, <1>6, <2>1, <2>2, CommitKept
<1>8. Progress'
  <2>1. CASE spoiled'
    BY <1>1, <2>1 DEF Progress
  <2>2. CASE ~spoiled'
    <3>1. /\ \A i \in 1 .. 4 : i < First \/ i > place => pem[CertFiles[i]] = before[CertFiles[i]]
          /\ \A i \in First .. place : old[CertFiles[i]] = before[CertFiles[i]]
      BY <2>2 DEF CertInv, Progress, Backed
    <3>2. old[CertFiles[place]] = before[CertFiles[place]]
      BY <3>1, FirstIs
    <3>3. old[CertFiles[place]] \in Pems
      BY <1>3, SignedAt
    <3>4. /\ pem'[CertFiles[place]] = old[CertFiles[place]]
          /\ \A i \in 1 .. 4 : i # place => pem'[CertFiles[i]] = pem[CertFiles[i]]
      <4>1. PICK y \in Pems : y = old[CertFiles[place]]
        BY <3>3
      <4>2. pem' = With(pem, place, y)
        BY <2>2, <4>1
      <4>3. /\ With(pem, place, y)[CertFiles[place]] = y
            /\ \A i \in 1 .. 4 :
                 i # place => With(pem, place, y)[CertFiles[i]] = pem[CertFiles[i]]
        <5>1. place \in 1 .. 4
          OBVIOUS
        <5> QED
          BY ONLY <1>3, <4>1, <5>1, Replaced
      <4> QED
        BY <4>1, <4>2, <4>3
    <3>5. PICK p \in 0 .. 3 : p = place - 1 /\ place' = p
      BY <1>1
    <3>6. \A i \in 1 .. 4 : i > p => i > place \/ i = place
      BY <3>5
    <3>7. \A i \in 1 .. 4 : i < First \/ i > p => pem'[CertFiles[i]] = before[CertFiles[i]]
      BY <3>1, <3>2, <3>4, <3>6, FirstIs
    <3>8. \A i \in First .. p : old[CertFiles[i]] = before[CertFiles[i]]
      BY <3>1, <3>5, FirstIs
    <3> QED
      BY <1>1, <1>4, <3>5, <3>7, <3>8 DEF Progress, Backed
  <2> QED
    BY <2>1, <2>2
<1> QED
  BY <1>6, <1>7, <1>8 DEF CertInv

LEMMA PutBackPlace ==
  ASSUME CertInv, certJob = "puttingBack", place >= First
  PROVE  /\ place \in 1 .. 4 /\ old[CertFiles[place]] \in Pems
         /\ place < 3 => old[CertFiles[place]].ca = old[CertFiles[place]].made
<1>1. place \in 0 .. 4
  BY DEF CertInv, CertTypeOK
<1>2. place \in 1 .. 4
  BY <1>1, FirstIs
<1>3. old \in [Slots -> Pems] /\ SelfSigned(old)
  BY DEF CertInv, CertTypeOK, JobsFit
<1> QED
  BY <1>2, <1>3, SignedAt

LEMMA PutBackKeeps ==
  ASSUME CertInv, PutBack
  PROVE  CertInv'
<1>1. /\ certJob = "puttingBack" /\ place >= First
      /\ pem' = [pem EXCEPT ![CertFiles[place]] = old[CertFiles[place]]]
      /\ Put("puttingBack", place - 1)
      /\ UNCHANGED <<old, outcome, trusted>> /\ UNCHANGED CommitVars
      /\ spoiled' = spoiled /\ certMishaps' = certMishaps
  BY DEF PutBack, File
<1>2. PICK x \in Pems : x = old[CertFiles[place]] /\ (place < 3 => x.ca = x.made)
  BY <1>1, PutBackPlace
<1>3. place \in 1 .. 4
  BY <1>1, PutBackPlace
<1>4. pem' = With(pem, place, x) /\ pem' = With(pem, place, old[CertFiles[place]])
  BY <1>1, <1>2 DEF With
<1>5. spoiled' \in BOOLEAN /\ certMishaps' \in Nat
  BY <1>1 DEF CertInv, CertTypeOK
<1>6. ~spoiled' => ~spoiled
  BY <1>1
<1> QED
  BY <1>1, <1>2, <1>3, <1>4, <1>5, <1>6, PuttingBackKeeps

LEMMA PutBackFailsKeeps ==
  ASSUME CertInv, PutBackFails
  PROVE  CertInv'
<1>1. /\ certJob = "puttingBack" /\ place >= First
      /\ pem' = pem \/ pem' = With(pem, place, Missing)
      /\ Put("puttingBack", place - 1)
      /\ UNCHANGED <<old, outcome, trusted>> /\ UNCHANGED CommitVars
      /\ spoiled'
  BY DEF PutBackFails, File, With
<1>2. Missing \in Pems /\ Missing.ca = Missing.made
  BY MissingIsPem
<1>3. place \in 1 .. 4
  BY <1>1, PutBackPlace
<1>4. spoiled' \in BOOLEAN /\ certMishaps' \in Nat
  BY DEF CertInv, CertTypeOK, PutBackFails, CertMishap
<1> QED
  BY <1>1, <1>2, <1>3, <1>4, PuttingBackKeeps

LEMMA PutBackEndsKeeps ==
  ASSUME CertInv, PutBackEnds
  PROVE  CertInv'
<1>1. /\ certJob = "puttingBack" /\ place < First /\ Failed
      /\ UNCHANGED <<CommitVars, pem, old, spoiled, trusted>> /\ certMishaps' = certMishaps
  BY DEF PutBackEnds
<1>2. certJob \in FileJobs /\ certMishaps' \in Nat
  BY <1>1 DEF FileJobs, CertInv, CertTypeOK
<1>3. ~spoiled => pem = before
  <2> HAVE ~spoiled
  <2>1. \A i \in 1 .. 4 : i < First \/ i > place => pem[CertFiles[i]] = before[CertFiles[i]]
    BY <1>1 DEF CertInv, Progress
  <2>2. place \in 0 .. 4 /\ pem \in [Slots -> Pems] /\ before \in [Slots -> Pems]
    BY DEF CertInv, CertTypeOK
  <2>3. \A i \in 1 .. 4 : i < First \/ i > place
    BY <1>1, <2>2, FirstIs
  <2> QED
    BY <2>1, <2>2, <2>3, SameFiles
<1> QED
  BY <1>1, <1>2, <1>3, FailedKept

LEMMA ReportKeeps ==
  ASSUME CertInv, Report
  PROVE  CertInv'
<1>1. /\ certJob = "reporting" /\ certJob' = "none" /\ place' = 0
      /\ pem' = pem /\ old' = old /\ spoiled' = spoiled /\ certMishaps' = certMishaps
      /\ UNCHANGED CommitVars
  BY DEF Report, Put
<1>2. certJob \in FileJobs
  BY <1>1 DEF FileJobs
<1>3. /\ hasDb' = hasDb /\ ~hasDb /\ bundle' = bundle /\ bundle = NoFiles /\ before' = before
      /\ wanted' = wanted /\ Available(wanted) /\ pem = wanted
  BY <1>1, <1>2, CommitSame DEF CertInv, Progress
<1>4. outcome' = "done" /\ trusted' = pem.caCert.made
  BY <1>3 DEF Report
<1>5. pem \in [Slots -> Pems] /\ SelfSigned(pem)
  BY DEF CertInv, CertTypeOK, JobsFit
<1>6. CAUsable(pem) /\ pem.caCert.made \in Nat
  BY <1>3, <1>5, UsableNumber DEF Available
<1>7. CertTypeOK'
  <2>1. /\ old' \in [Slots -> Pems] /\ spoiled' \in BOOLEAN /\ certMishaps' \in Nat
    BY <1>1 DEF CertInv, CertTypeOK
  <2>2. certJob' \in FileJobs \cup {"none"} /\ place' \in 0 .. 4
        /\ certJob' \notin {"staging", "movingAway", "installing"}
    BY <1>1
  <2> QED
    BY <1>1, <1>2, <1>4, <1>5, <1>6, <2>1, <2>2, CommitTypes
<1>8. JobsFit'
  BY <1>1, <1>3 DEF CertInv, JobsFit, SelfSigned, FileJobs
<1>9. CAHeld'
  BY <1>1, <1>3, <1>4, <1>6 DEF CAHeld, Holds, CAUsable, FileJobs
<1>10. PlanFits' /\ Progress'
  BY <1>1 DEF PlanFits, Progress, FileJobs
<1>11. CommitIsAtomic'
  BY <1>1, <1>3, <1>4 DEF CommitIsAtomic, Available, CAUsable
<1> QED
  BY <1>7, <1>8, <1>9, <1>10, <1>11 DEF CertInv

-----------------------------------------------------------------------------
(* The database, and the restart. *)

\* What they leave as it is: everything but the row, the files when there is
\* a row, the job and what was reported.
LEMMA OutsideCommit ==
  ASSUME CertInv, UNCHANGED <<wanted>>, hasDb' \in BOOLEAN, hasDb',
         before' \in {before, pem}, old' \in {old, NoFiles},
         pem' \in [Slots -> Pems], SelfSigned(pem'), bundle' \in [Slots -> Pems],
         certJob' \in {"none", "starting", "clearing"}, place' \in 0 .. 4,
         certJob' = "clearing" => place' # 0 /\ bundle' # NoFiles,
         outcome' \in {"none", "failed", "done"}, spoiled' \in BOOLEAN,
         trusted' \in Nat, made' \in Nat, certMishaps' \in Nat,
         trusted' # 0 => Holds(IF bundle = NoFiles THEN pem ELSE bundle)'
  PROVE  CertInv'
<1>1. /\ before' \in [Slots -> Pems] /\ old' \in [Slots -> Pems] /\ wanted' \in [Slots -> Pems]
      /\ SelfSigned(before') /\ SelfSigned(old') /\ SelfSigned(wanted')
  <2>1. NoFiles \in [Slots -> Pems] /\ SelfSigned(NoFiles)
    BY NoFilesParts, MissingIsPem DEF SelfSigned, Slots
  <2>2. /\ before \in [Slots -> Pems] /\ old \in [Slots -> Pems] /\ wanted \in [Slots -> Pems]
        /\ pem \in [Slots -> Pems]
        /\ SelfSigned(before) /\ SelfSigned(old) /\ SelfSigned(wanted) /\ SelfSigned(pem)
    BY DEF CertInv, CertTypeOK, JobsFit
  <2> QED
    BY <2>1, <2>2
<1>2. CertTypeOK'
  BY <1>1 DEF CertTypeOK
<1>3. JobsFit'
  BY <1>1 DEF JobsFit, SelfSigned, FileJobs
<1>4. CAHeld' /\ PlanFits' /\ Progress' /\ CommitIsAtomic'
  BY DEF CAHeld, PlanFits, Progress, CommitIsAtomic, FileJobs
<1> QED
  BY <1>2, <1>3, <1>4 DEF CertInv

LEMMA InvParts ==
  ASSUME CertInv
  PROVE  /\ pem \in [Slots -> Pems] /\ SelfSigned(pem) /\ bundle \in [Slots -> Pems]
         /\ place \in 0 .. 4 /\ trusted \in Nat /\ made \in Nat /\ certMishaps \in Nat
         /\ spoiled \in BOOLEAN /\ outcome \in {"none", "failed", "done"}
         /\ trusted # 0 => Holds(IF bundle = NoFiles THEN pem ELSE bundle)
         /\ certJob = "starting" => hasDb
         /\ certJob = "clearing" => hasDb /\ bundle # NoFiles /\ place \in 1 .. 4
  BY DEF CertInv, CertTypeOK, JobsFit, CAHeld

LEMMA BundleKeeps ==
  ASSUME CertInv, GenerateBundle
  PROVE  CertInv'
<1>1. /\ hasDb /\ hasDb' = hasDb /\ certJob = "none" /\ made' = made + 1 /\ before' = pem
      /\ pem' = pem /\ old' = old /\ wanted' = wanted /\ spoiled' = spoiled
  BY DEF GenerateBundle
<1>2. made' \in Nat /\ made' # 0
  BY <1>1, InvParts
<1>3. CASE /\ bundle' = Made(made', made') /\ trusted' = made'
           /\ outcome' = "done" /\ certJob' = "clearing" /\ place' = 1
           /\ certMishaps' = certMishaps
  <2>1. /\ bundle' \in [Slots -> Pems]
        /\ bundle'.caKey = [made |-> made', ca |-> made']
        /\ bundle'.caCert = [made |-> made', ca |-> made']
    BY <1>2, <1>3, MadeParts
  <2>2. bundle'.caCert # Missing
    BY <1>2, <2>1 DEF Missing
  <2>3. bundle' # NoFiles
    BY <2>2, NoFilesParts
  <2>4. Holds(IF bundle = NoFiles THEN pem ELSE bundle)'
    BY <1>3, <2>1, <2>2, <2>3 DEF Holds, CAUsable
  <2> QED
    BY <1>1, <1>2, <1>3, <2>1, <2>3, <2>4, InvParts, OutsideCommit
<1>4. CASE /\ outcome' = "failed" /\ bundle' = bundle /\ trusted' = trusted
           /\ certJob' = certJob /\ place' = place /\ certMishaps' = certMishaps + 1
  <2>1. trusted' # 0 => Holds(IF bundle = NoFiles THEN pem ELSE bundle)'
    BY <1>1, <1>4, InvParts DEF Holds, CAUsable
  <2>2. certMishaps' \in Nat
    BY <1>4, InvParts
  <2> QED
    BY <1>1, <1>2, <1>4, <2>1, <2>2, InvParts, OutsideCommit
<1> QED
  BY <1>3, <1>4 DEF GenerateBundle, Put, CertMishap

LEMMA MigrateKeeps ==
  ASSUME CertInv, Migrate
  PROVE  CertInv'
<1>1. /\ certJob = "starting" /\ hasDb' = hasDb /\ pem' = pem /\ old' = old /\ before' = before
      /\ wanted' = wanted /\ outcome' = outcome /\ spoiled' = spoiled /\ trusted' = trusted
      /\ made' = made
  BY DEF Migrate
<1>2. certMishaps' \in Nat
  BY InvParts DEF Migrate, CertMishap
<1>3. hasDb' \in BOOLEAN /\ hasDb'
  BY <1>1, InvParts
<1>4. CASE certJob' = "clearing" /\ place' = 1 /\ bundle # NoFiles /\ bundle' = bundle
  <2>1. trusted' # 0 => Holds(IF bundle = NoFiles THEN pem ELSE bundle)'
    BY <1>1, <1>4, InvParts DEF Holds, CAUsable
  <2> QED
    BY <1>1, <1>2, <1>3, <1>4, <2>1, InvParts, OutsideCommit
<1>5. CASE /\ certJob' = "clearing" /\ place' = 1 /\ bundle = NoFiles /\ Available(pem)
           /\ bundle' = pem
  <2>1. bundle' # NoFiles
    BY <1>5, NoFilesParts DEF Available, CAUsable
  <2>2. trusted' # 0 => Holds(IF bundle = NoFiles THEN pem ELSE bundle)'
    BY <1>1, <1>5, <2>1, InvParts DEF Holds, CAUsable
  <2> QED
    BY <1>1, <1>2, <1>3, <1>5, <2>1, <2>2, InvParts, OutsideCommit
<1>6. CASE certJob' = "none" /\ place' = 0 /\ bundle' = bundle
  <2>1. trusted' # 0 => Holds(IF bundle = NoFiles THEN pem ELSE bundle)'
    BY <1>1, <1>6, InvParts DEF Holds, CAUsable
  <2> QED
    BY <1>1, <1>2, <1>3, <1>6, <2>1, InvParts, OutsideCommit
<1> QED
  BY <1>4, <1>5, <1>6 DEF Migrate, Put

LEMMA ClearKeeps ==
  ASSUME CertInv, ClearFile
  PROVE  CertInv'
<1>1. /\ certJob = "clearing" /\ hasDb' = hasDb /\ bundle' = bundle /\ old' = old
      /\ before' = before /\ wanted' = wanted /\ outcome' = outcome /\ spoiled' = spoiled
      /\ trusted' = trusted /\ made' = made
  BY DEF ClearFile
<1>2. certMishaps' \in Nat
  BY InvParts DEF ClearFile, CertMishap
<1>3. hasDb' \in BOOLEAN /\ hasDb' /\ bundle # NoFiles /\ place \in 1 .. 4
  BY <1>1, InvParts
<1>4. pem' \in [Slots -> Pems] /\ SelfSigned(pem')
  <2>1. CASE pem' = pem
    BY <2>1, InvParts
  <2>2. CASE pem' = With(pem, place, Missing)
    <3>1. pem \in [Slots -> Pems] /\ SelfSigned(pem)
      BY InvParts
    <3>2. With(pem, place, Missing) \in [Slots -> Pems] /\ SelfSigned(With(pem, place, Missing))
      BY <1>3, <3>1, MissingIsPem, Replaced
    <3> QED
      BY <2>2, <3>2
  <2> QED
    BY <2>1, <2>2 DEF ClearFile, File, With
<1>5. trusted' # 0 => Holds(IF bundle = NoFiles THEN pem ELSE bundle)'
  BY <1>1, <1>3, InvParts DEF Holds, CAUsable
<1>6. \/ certJob' = "clearing" /\ place' = place + 1 /\ place < 4
      \/ certJob' = "none" /\ place' = 0
  BY <1>3, Places DEF ClearFile, Put
<1>7. /\ certJob' \in {"none", "starting", "clearing"} /\ place' \in 0 .. 4
      /\ certJob' = "clearing" => place' # 0 /\ bundle' # NoFiles
  BY <1>1, <1>3, <1>6
<1> QED
  BY <1>1, <1>2, <1>3, <1>4, <1>5, <1>7, InvParts, OutsideCommit

LEMMA RestartKeeps ==
  ASSUME CertInv, CertRestart
  PROVE  CertInv'
<1>1. /\ hasDb' \in {hasDb, TRUE} /\ place' = 0 /\ old' = NoFiles /\ outcome' = "none"
      /\ spoiled' = TRUE /\ pem' = pem /\ bundle' = bundle /\ before' = before
      /\ wanted' = wanted /\ trusted' = trusted /\ made' = made
      /\ IF hasDb' THEN certJob' = "starting" ELSE certJob' = "none"
      /\ certMishaps' = certMishaps + 1
  BY DEF CertRestart, Put, CertMishap
<1>2. certMishaps' \in Nat /\ hasDb' \in BOOLEAN
  <2>1. certMishaps \in Nat /\ hasDb \in BOOLEAN
    BY DEF CertInv, CertTypeOK
  <2>2. certMishaps' \in Nat
    BY <1>1, <2>1
  <2>3. hasDb' = hasDb \/ hasDb' = TRUE
    BY <1>1, Zenon
  <2>4. hasDb' \in BOOLEAN
    BY <2>1, <2>3, Zenon
  <2> QED
    BY <2>2, <2>4
<1>3. trusted' # 0 => Holds(IF bundle = NoFiles THEN pem ELSE bundle)'
  BY <1>1, InvParts DEF Holds, CAUsable
<1>4. CASE hasDb'
  BY <1>1, <1>2, <1>3, <1>4, InvParts, OutsideCommit
<1>5. CASE ~hasDb'
  <2>1. certJob' = "none" /\ ~hasDb
    <3>1. hasDb' = hasDb \/ hasDb' = TRUE
      BY <1>1, Zenon
    <3>2. ~hasDb
      BY <1>5, <3>1, Zenon
    <3>3. certJob' = "none"
      BY <1>1, <1>5, Zenon
    <3> QED
      BY <3>2, <3>3
  <2>2. CertTypeOK'
    BY <1>1, <1>2, <2>1, NoFilesParts DEF CertInv, CertTypeOK
  <2>3. SelfSigned(NoFiles)
    BY NoFilesParts, MissingIsPem DEF SelfSigned, Slots
  <2>4. JobsFit'
    BY <1>1, <2>1, <2>3 DEF CertInv, JobsFit, SelfSigned, FileJobs
  <2>5. CAHeld' /\ PlanFits' /\ Progress' /\ CommitIsAtomic'
    BY <1>1, <1>3, <2>1 DEF CAHeld, PlanFits, Progress, CommitIsAtomic, FileJobs
  <2> QED
    BY <2>2, <2>4, <2>5 DEF CertInv
<1> QED
  BY <1>4, <1>5

LEMMA CertStep == CertInv /\ [CertNext]_certVars => CertInv'
<1> SUFFICES ASSUME CertInv, [CertNext]_certVars PROVE CertInv'
  OBVIOUS
<1>1. ASSUME UNCHANGED certVars
      PROVE  CertInv'
  BY <1>1 DEF certVars, CertInv, CertTypeOK, JobsFit, SelfSigned, CAHeld, Holds, CAUsable, First,
     PlanFits, Available, Progress, Backed, CommitIsAtomic
<1> QED
  BY <1>1, GenerateKeeps, RefusedKeeps, StageKeeps, StageFailsKeeps, MoveAwayKeeps,
     MoveAwayFailsKeeps, InstallKeeps, InstallFailsKeeps, PutBackKeeps, PutBackFailsKeeps,
     PutBackEndsKeeps, ReportKeeps, BundleKeeps, MigrateKeeps, ClearKeeps, RestartKeeps
     DEF CertNext

\* Every variable has its type, a commit is as far as its place says, and the
\* CA that clients trust is where the next reader will look.
THEOREM CertificatesCorrect == CertSpec => []CertInv
<1> QED
  BY InitCert, CertStep, PTL DEF CertSpec

\* The CA that clients were told to trust is on disk or in the row at every
\* moment, whatever fails and whenever the process ends
\* (generateHTTPSCertificate, migrateLegacyHTTPSCertificate).
THEOREM TrustedCAAlwaysKept == CertSpec => []TrustedCAIsKept
<1>1. CertInv => TrustedCAIsKept
  <2>1. ASSUME CertInv, trusted # 0
        PROVE  \E store \in {pem, bundle} : CAUsable(store) /\ store.caCert.made = trusted
    <3>1. Holds(IF bundle = NoFiles THEN pem ELSE bundle)
      BY <2>1, InvParts
    <3>2. CASE bundle = NoFiles
      BY <3>1, <3>2 DEF Holds
    <3>3. CASE bundle # NoFiles
      BY <3>1, <3>3 DEF Holds
    <3> QED
      BY <3>2, <3>3
  <2> QED
    BY <2>1 DEF TrustedCAIsKept
<1> QED
  BY <1>1, CertificatesCorrect, PTL

\* A generation of the four files is all or nothing, at whatever step it
\* failed, unless putting the files back failed as well
\* (commitCertificateFiles).
THEOREM CommitAlwaysAtomic == CertSpec => []CommitIsAtomic
<1>1. CertInv => CommitIsAtomic
  BY DEF CertInv
<1> QED
  BY <1>1, CertificatesCorrect, PTL

-----------------------------------------------------------------------------
(* Shares. *)

RequestPhases == {"idle", "writing", "creating", "listed", "saving"}
WindowPhases == {"idle", "unlisting", "saving", "stopped", "exited"}

\* Somebody has the list still to read and to save.
ToSave(p) ==
  \/ phase[p] = "saving" /\ copyToSave[p] = NotSaving
  \/ phase[p] \in {"listed", "stopped"}

\* One saver at a time holds a copy, which is the list unless somebody else has
\* a later one to save; and the row is the list unless somebody has.
SavesInv ==
  /\ phase = [p \in Savers |-> phase[p]] /\ copyToSave = [p \in Savers |-> copyToSave[p]]
  /\ \A u \in Uploaders : phase[u] \in RequestPhases
  /\ phase[Window] \in WindowPhases
  /\ ~notifier => phase[Window] \in {"stopped", "saving", "exited"}
  /\ ~notifier /\ phase[Window] # "stopped" => \A u \in Uploaders : phase[u] = "idle"
  /\ \A p \in Savers : copyToSave[p] # NotSaving => phase[p] = "saving"
  /\ \A p, q \in Savers : copyToSave[p] # NotSaving /\ copyToSave[q] # NotSaving => p = q
  /\ \A p \in Savers : copyToSave[p] \in {NotSaving, shares} \/ \E q \in Savers : ToSave(q)
  /\ unsaved \/ sharesRow = shares \/ (\E p \in Savers : copyToSave[p] # NotSaving) \/ \E q \in Savers : ToSave(q)

LEMMA SaversAre ==
  /\ Window \in Savers /\ Window \notin Uploaders
  /\ \A u \in Uploaders : u \in Savers /\ u # Window
  /\ \A p \in Savers : p \in Uploaders \/ p = Window
  BY SharesAssumption DEF Savers

LEMMA Entered ==
  ASSUME SavesInv, NEW p \in Savers, NEW next, Enter(p, next)
  PROVE  /\ phase' = [q \in Savers |-> phase'[q]]
         /\ phase'[p] = next
         /\ \A q \in Savers : q # p => phase'[q] = phase[q]
  BY DEF SavesInv, Enter

\* A request that has nothing to save before and after a step.
LEMMA QuietRequest ==
  ASSUME SavesInv, NEW u \in Uploaders, NEW next \in {"idle", "writing", "creating"},
         phase[u] \in {"idle", "writing", "creating"}, Enter(u, next),
         notifier \/ phase[Window] = "stopped" \/ next = "idle",
         shares' = shares, sharesRow' = sharesRow, copyToSave' = copyToSave, unsaved' = unsaved,
         notifier' = notifier
  PROVE  SavesInv'
<1>1. /\ phase' = [q \in Savers |-> phase'[q]] /\ phase'[u] = next
      /\ \A q \in Savers : q # u => phase'[q] = phase[q]
  BY Entered, SaversAre
<1>2. /\ \A v \in Uploaders : phase'[v] \in RequestPhases
      /\ phase'[Window] = phase[Window]
  BY <1>1, SaversAre DEF SavesInv, RequestPhases
<1>3. \A q \in Savers : ToSave(q)' <=> ToSave(q)
  BY <1>1 DEF ToSave
<1>4. ~notifier /\ phase[Window] # "stopped" => \A v \in Uploaders : phase'[v] = "idle"
  BY <1>1, SaversAre DEF SavesInv
<1>5. \A p \in Savers : copyToSave[p] # NotSaving => phase'[p] = "saving"
  BY <1>1, SaversAre DEF SavesInv
<1> QED
  BY <1>1, <1>2, <1>3, <1>4, <1>5 DEF SavesInv

\* Requests run only while there is a notifier, or the server still stops.
LEMMA RequestsRun ==
  ASSUME SavesInv, NEW u \in Uploaders, phase[u] # "idle"
  PROVE  notifier \/ phase[Window] = "stopped"
  BY DEF SavesInv

LEMMA UploadStepKeeps ==
  ASSUME SavesInv, NEW u \in Uploaders,
         (\E names : UploadBegins(u, names)) \/ PicksTarget(u) \/ StoresFile(u) \/ UploadFails(u)
  PROVE  SavesInv'
<1>1. \E next \in {"idle", "writing", "creating"} :
        /\ phase[u] \in {"idle", "writing", "creating"} /\ Enter(u, next)
        /\ notifier \/ phase[Window] = "stopped" \/ next = "idle"
        /\ shares' = shares /\ sharesRow' = sharesRow /\ copyToSave' = copyToSave
        /\ unsaved' = unsaved /\ notifier' = notifier
  BY RequestsRun DEF UploadBegins, PicksTarget, StoresFile, UploadFails, NotSaves
<1> QED
  BY <1>1, QuietRequest

\* A step after which somebody has the list to save, and nobody else's copy is
\* touched.
LEMMA NowToSave ==
  ASSUME SavesInv, NEW p \in Savers, NEW next, Enter(p, next), copyToSave' = copyToSave,
         copyToSave[p] = NotSaving, next \in {"listed", "saving", "stopped"},
         p = Window => next # "listed" /\ (next = "stopped" \/ notifier' \/ \A u \in Uploaders : phase[u] = "idle"),
         p # Window => next # "stopped" /\ notifier' = notifier /\ (notifier \/ phase[Window] = "stopped")
  PROVE  SavesInv'
<1>1. /\ phase' = [q \in Savers |-> phase'[q]] /\ phase'[p] = next
      /\ \A q \in Savers : q # p => phase'[q] = phase[q]
  BY Entered
<1>2. ToSave(p)'
  BY <1>1 DEF ToSave
<1>3. \A u \in Uploaders : phase'[u] \in RequestPhases
  BY <1>1, SaversAre DEF SavesInv, RequestPhases
<1>4. phase'[Window] \in WindowPhases
  BY <1>1, SaversAre DEF SavesInv, WindowPhases
<1>5. ~notifier' => phase'[Window] \in {"stopped", "saving", "exited"}
  BY <1>1, SaversAre DEF SavesInv
<1>6. ~notifier' /\ phase'[Window] # "stopped" => \A u \in Uploaders : phase'[u] = "idle"
  BY <1>1, SaversAre DEF SavesInv
<1>7. \A q \in Savers : copyToSave[q] # NotSaving => phase'[q] = "saving"
  BY <1>1 DEF SavesInv
<1> QED
  BY <1>1, <1>2, <1>3, <1>4, <1>5, <1>6, <1>7 DEF SavesInv

LEMMA ListedKeeps ==
  ASSUME SavesInv, NEW u \in Uploaders, UploadListed(u) \/ (UploadNotifies(u) /\ notifier)
  PROVE  SavesInv'
<1>1. phase[u] \in {"writing", "listed"}
  BY DEF UploadListed, UploadNotifies
<1>2. copyToSave[u] = NotSaving
  BY <1>1, SaversAre DEF SavesInv
<1>3. \E next \in {"listed", "saving"} : Enter(u, next) /\ copyToSave' = copyToSave /\ notifier' = notifier
  BY DEF UploadListed, UploadNotifies, NotSaves
<1>4. notifier \/ phase[Window] = "stopped"
  BY <1>1, RequestsRun
<1> QED
  BY <1>2, <1>3, <1>4, SaversAre, NowToSave

LEMMA NotNotified ==
  ASSUME SavesInv, NEW u \in Uploaders, UploadNotifies(u), ~notifier
  PROVE  SavesInv'
<1>1. /\ phase[u] = "listed" /\ Enter(u, "idle") /\ copyToSave' = copyToSave /\ notifier' = notifier
      /\ shares' = shares /\ sharesRow' = sharesRow /\ unsaved' = unsaved
  BY DEF UploadNotifies, NotSaves
<1>2. phase[Window] = "stopped"
  BY <1>1, RequestsRun
<1>3. /\ phase' = [q \in Savers |-> phase'[q]] /\ phase'[u] = "idle"
      /\ \A q \in Savers : q # u => phase'[q] = phase[q]
  BY <1>1, Entered, SaversAre
<1>4. phase'[Window] = "stopped" /\ ToSave(Window)'
  BY <1>2, <1>3, SaversAre DEF ToSave
<1>5. \A v \in Uploaders : phase'[v] \in RequestPhases
  BY <1>3, SaversAre DEF SavesInv, RequestPhases
<1>6. \A q \in Savers : copyToSave[q] # NotSaving => phase'[q] = "saving"
  BY <1>1, <1>3, SaversAre DEF SavesInv
<1> QED
  BY <1>1, <1>3, <1>4, <1>5, <1>6, SaversAre DEF SavesInv, WindowPhases

LEMMA SaveReadsKeeps ==
  ASSUME SavesInv, NEW p \in Savers, SaveReads(p)
  PROVE  SavesInv'
<1>1. /\ phase[p] = "saving" /\ (\A q \in Savers : copyToSave[q] = NotSaving)
      /\ copyToSave' = [copyToSave EXCEPT ![p] = shares]
      /\ shares' = shares /\ sharesRow' = sharesRow /\ phase' = phase /\ notifier' = notifier
      /\ unsaved' = unsaved
  BY DEF SaveReads
<1>2. /\ copyToSave' = [q \in Savers |-> copyToSave'[q]] /\ copyToSave'[p] = shares
      /\ \A q \in Savers : q # p => copyToSave'[q] = NotSaving
  BY <1>1 DEF SavesInv
<1>3. \A q \in Savers : copyToSave'[q] \in {NotSaving, shares'}
  BY <1>1, <1>2
<1>4. copyToSave'[p] # NotSaving \/ ToSave(p)'
  BY <1>1, <1>2 DEF ToSave
<1>5. \A q \in Savers : copyToSave'[q] # NotSaving => phase'[q] = "saving"
  BY <1>1, <1>2
<1>6. \A q, r \in Savers : copyToSave'[q] # NotSaving /\ copyToSave'[r] # NotSaving => q = r
  BY <1>2
<1>7. (\E q \in Savers : copyToSave'[q] # NotSaving) \/ \E q \in Savers : ToSave(q)'
  BY <1>4
<1> QED
  BY <1>1, <1>2, <1>3, <1>5, <1>6, <1>7 DEF SavesInv

LEMMA SaveWritesKeeps ==
  ASSUME SavesInv, NEW p \in Savers, SaveWrites(p)
  PROVE  SavesInv'
<1>1. /\ copyToSave[p] # NotSaving /\ copyToSave' = [copyToSave EXCEPT ![p] = NotSaving]
      /\ sharesRow' = copyToSave[p] \/ unsaved' = TRUE
      /\ shares' = shares /\ notifier' = notifier
      /\ Enter(p, IF p = Window /\ ~notifier THEN "exited" ELSE "idle")
  BY DEF SaveWrites
<1>2. phase[p] = "saving" /\ \A q \in Savers : q # p => copyToSave[q] = NotSaving
  BY <1>1 DEF SavesInv
<1>3. /\ copyToSave' = [q \in Savers |-> copyToSave'[q]]
      /\ \A q \in Savers : copyToSave'[q] = NotSaving
  BY <1>1, <1>2 DEF SavesInv
<1>4. /\ phase' = [q \in Savers |-> phase'[q]]
      /\ phase'[p] = (IF p = Window /\ ~notifier THEN "exited" ELSE "idle")
      /\ \A q \in Savers : q # p => phase'[q] = phase[q]
  BY <1>1, Entered
<1>5. \A q \in Savers : ToSave(q) => ToSave(q)'
  BY <1>1, <1>2, <1>3, <1>4 DEF ToSave
<1>6. unsaved' \/ sharesRow' = shares' \/ \E q \in Savers : ToSave(q)'
  BY <1>1, <1>5 DEF SavesInv
<1>7. \A u \in Uploaders : phase'[u] \in RequestPhases
  BY <1>4, SaversAre DEF SavesInv, RequestPhases
<1>8. phase'[Window] \in WindowPhases
  BY <1>4, SaversAre DEF SavesInv, WindowPhases
<1>9. ~notifier' => phase'[Window] \in {"stopped", "saving", "exited"}
  BY <1>1, <1>4, SaversAre DEF SavesInv
<1>10. ~notifier' /\ phase'[Window] # "stopped" => \A u \in Uploaders : phase'[u] = "idle"
  BY <1>1, <1>2, <1>4, SaversAre DEF SavesInv
<1> QED
  BY <1>3, <1>4, <1>6, <1>7, <1>8, <1>9, <1>10 DEF SavesInv

LEMMA WindowChanges ==
  ASSUME SavesInv,
         \/ \E leaf : AddPaths(leaf)
         \/ \E i, label : RenameShare(i, label)
         \/ RemoveMany \/ CleanupBegins \/ CleanupSaves
  PROVE  SavesInv'
<1>1. phase[Window] \in {"idle", "unlisting", "stopped"}
  BY DEF AddPaths, RenameShare, RemoveMany, CleanupBegins, CleanupSaves
<1>2. copyToSave[Window] = NotSaving
  BY <1>1, SaversAre DEF SavesInv
<1>3. phase[Window] # "stopped" => notifier
  BY <1>1 DEF SavesInv
<1>4. /\ copyToSave' = copyToSave
      /\ \E next \in {"saving", "stopped"} :
           Enter(Window, next) /\ (next = "stopped" \/ notifier' \/ \A u \in Uploaders : phase[u] = "idle")
  <2>1. CASE (\E leaf : AddPaths(leaf)) \/ (\E i, label : RenameShare(i, label)) \/ RemoveMany
    <3>1. /\ phase[Window] # "stopped" /\ notifier' = notifier /\ copyToSave' = copyToSave
          /\ Enter(Window, "saving")
      BY <2>1 DEF AddPaths, RenameShare, RemoveMany, NotSaves
    <3> QED
      BY <1>3, <3>1
  <2>2. CASE CleanupBegins
    BY <2>2 DEF CleanupBegins, NotSaves
  <2>3. CASE CleanupSaves
    BY <2>3 DEF CleanupSaves, NotSaves
  <2> QED
    BY <2>1, <2>2, <2>3
<1> QED
  BY <1>2, <1>4, SaversAre, NowToSave

LEMMA RemoveSharesKeeps ==
  ASSUME SavesInv, NEW i, NEW deleteTemporary, RemoveShares(i, deleteTemporary)
  PROVE  SavesInv'
<1>1. /\ phase[Window] = "idle" /\ Enter(Window, "unlisting") /\ copyToSave' = copyToSave
      /\ notifier' = notifier /\ shares' = shares /\ sharesRow' = sharesRow /\ unsaved' = unsaved
  BY DEF RemoveShares, NotSaves
<1>2. notifier
  BY <1>1 DEF SavesInv
<1>3. /\ phase' = [q \in Savers |-> phase'[q]] /\ phase'[Window] = "unlisting"
      /\ \A q \in Savers : q # Window => phase'[q] = phase[q]
  BY <1>1, Entered, SaversAre
<1>4. \A q \in Savers : ToSave(q)' <=> ToSave(q)
  BY <1>1, <1>3 DEF ToSave
<1>5. \A u \in Uploaders : phase'[u] \in RequestPhases
  BY <1>3, SaversAre DEF SavesInv
<1>6. \A q \in Savers : copyToSave[q] # NotSaving => phase'[q] = "saving"
  BY <1>1, <1>3 DEF SavesInv
<1> QED
  BY <1>1, <1>2, <1>3, <1>4, <1>5, <1>6 DEF SavesInv, WindowPhases

LEMMA SharesRestartKeeps ==
  ASSUME SavesInv, SharesRestart
  PROVE  SavesInv'
<1>1. /\ phase' = [p \in Savers |-> "idle"] /\ copyToSave' = [p \in Savers |-> NotSaving]
      /\ notifier' = TRUE /\ sharesRow' = sharesRow
  BY DEF SharesRestart
<1>2. unsaved' <=> shares' # sharesRow
  BY Zenon DEF SharesRestart
<1>3. \A u \in Uploaders : phase'[u] \in RequestPhases
  BY <1>1, SaversAre DEF RequestPhases
<1>4. phase'[Window] \in WindowPhases
  BY <1>1, SaversAre DEF WindowPhases
<1>5. unsaved' \/ sharesRow' = shares'
  BY <1>1, <1>2
<1> QED
  BY <1>1, <1>3, <1>4, <1>5 DEF SavesInv

LEMMA SavesInvInit == SharesInit => SavesInv
  BY SaversAre DEF SharesInit, SavesInv, RequestPhases, WindowPhases

LEMMA SavesInvStep == SavesInv /\ [SharesNext]_sharesVars => SavesInv'
<1> SUFFICES ASSUME SavesInv, [SharesNext]_sharesVars PROVE SavesInv'
  OBVIOUS
<1>1. ASSUME UNCHANGED sharesVars PROVE SavesInv'
  BY <1>1 DEF sharesVars, SavesInv, ToSave
<1>2. ASSUME NEW u \in Uploaders, RequestStep(u) PROVE SavesInv'
  BY <1>2, UploadStepKeeps, ListedKeeps, NotNotified DEF RequestStep
<1>3. ASSUME WindowStep PROVE SavesInv'
  BY <1>3, WindowChanges, RemoveSharesKeeps DEF WindowStep
<1> QED
  BY <1>1, <1>2, <1>3, SaveReadsKeeps, SaveWritesKeeps, SharesRestartKeeps DEF SharesNext

\* The list is in the database once every save is through, whatever order the
\* uploads and the window's changes are saved in.
THEOREM SharesAlwaysOnDisk == SharesSpec => []SharesOnDisk
<1>1. SavesInv => SharesOnDisk
  <2> SUFFICES ASSUME SavesInv, SavesDone, ~unsaved PROVE sharesRow = shares
    BY DEF SharesOnDisk
  <2>1. \A p \in Savers : phase[p] \notin {"listed", "saving", "stopped"}
    BY SaversAre DEF SavesDone, SavesInv, RequestPhases
  <2>2. \A p \in Savers : copyToSave[p] = NotSaving /\ ~ToSave(p)
    BY <2>1 DEF SavesInv, ToSave
  <2> QED
    BY <2>2 DEF SavesInv
<1> QED
  BY <1>1, SavesInvInit, SavesInvStep, PTL DEF SharesSpec

-----------------------------------------------------------------------------
(* The files of the upload directory and who owns them. *)

\* The entry whose file the window has taken away, and which goes next.
Dying(i) == phase[Window] = "unlisting" /\ target[Window] = <<i>>

\* An entry that owns its file in the upload directory.
Owner(i) == shares[i].managed /\ ~Dying(i)

IsSequence(s) == \E S : s \in Seq(S)
IsEntry(e) == e = Entry(e.leaf, e.managed, e.label) /\ e.managed \in BOOLEAN
IsList(list) == \E S : list \in Seq(S) /\ \A e \in S : IsEntry(e)

OwnersTyped ==
  /\ IsList(shares) /\ IsList(sharesRow)
  /\ \A p \in Savers : copyToSave[p] # NotSaving => IsList(copyToSave[p])
  /\ stored = [u \in Uploaders |-> stored[u]] /\ \A u \in Uploaders : IsSequence(stored[u])
  /\ \A u \in Uploaders : phase[u] \notin {"writing", "creating"} => stored[u] = <<>>
  /\ target = [p \in Savers |-> target[p]]
  /\ phase[Window] = "unlisting" => \E i \in DOMAIN shares : target[Window] = <<i>>

\* But for strays, a file has one owner: an entry, or the request that wrote it.
OneOwnerEach ==
  /\ \A i, k \in DOMAIN shares :
       Owner(i) /\ Owner(k) /\ shares[i].leaf = shares[k].leaf => i = k \/ shares[i].leaf \in strays
  /\ \A u, v \in Uploaders : \A j \in DOMAIN stored[u] : \A k \in DOMAIN stored[v] :
       stored[u][j] = stored[v][k] => (u = v /\ j = k) \/ stored[u][j] \in strays
  /\ \A i \in DOMAIN shares : \A u \in Uploaders : \A j \in DOMAIN stored[u] :
       Owner(i) /\ stored[u][j] = shares[i].leaf => shares[i].leaf \in strays

\* And a file is there exactly while it has an owner.
Listed(f) == \E i \in DOMAIN shares : Owner(i) /\ shares[i].leaf = f
Written(f) == \E u \in Uploaders : \E j \in DOMAIN stored[u] : stored[u][j] = f

FilesOwned ==
  /\ \A i \in DOMAIN shares : Owner(i) => shares[i].leaf \in uploadDir \cup strays
  /\ \A u \in Uploaders : \A j \in DOMAIN stored[u] : stored[u][j] \in uploadDir \cup strays
  /\ \A f \in uploadDir : Listed(f) \/ Written(f) \/ f \in strays

OwnersInv == OwnersTyped /\ OneOwnerEach /\ FilesOwned

-----------------------------------------------------------------------------
(* What the changes of the list return. *)

LEMMA ListParts ==
  ASSUME NEW s, IsList(s)
  PROVE  Len(s) \in Nat /\ DOMAIN s = 1 .. Len(s) /\ \A i \in 1 .. Len(s) : IsEntry(s[i])
<1>1. PICK S : s \in Seq(S) /\ \A e \in S : IsEntry(e)
  BY DEF IsList
<1>2. \A i \in 1 .. Len(s) : s[i] \in S
  BY <1>1
<1> QED
  BY <1>1, <1>2

LEMMA EntryParts ==
  ASSUME NEW leaf, NEW managed \in BOOLEAN, NEW label
  PROVE  /\ IsEntry(Entry(leaf, managed, label))
         /\ Entry(leaf, managed, label).leaf = leaf
         /\ Entry(leaf, managed, label).managed = managed
  BY DEF Entry, IsEntry

LEMMA Added ==
  ASSUME IsList(shares), NEW leaves, IsSequence(leaves), NEW managed \in BOOLEAN
  PROVE  LET t == AddMany(leaves, managed)
         IN  /\ IsList(t) /\ Len(t) = Len(shares) + Len(leaves)
             /\ \A i \in 1 .. Len(shares) : t[i] = shares[i]
             /\ \A j \in 1 .. Len(leaves) :
                  t[Len(shares) + j].leaf = leaves[j] /\ t[Len(shares) + j].managed = managed
<1> DEFINE new == [j \in DOMAIN leaves |-> Labelled(leaves, j, managed)]
           t == AddMany(leaves, managed)
<1>1. PICK S : shares \in Seq(S) /\ \A e \in S : IsEntry(e)
  BY DEF IsList
<1>2. PICK L : leaves \in Seq(L)
  BY DEF IsSequence
<1>3. Len(leaves) \in Nat /\ DOMAIN leaves = 1 .. Len(leaves)
  BY <1>2
<1>4. \A j \in 1 .. Len(leaves) :
        \E label : Labelled(leaves, j, managed) = Entry(leaves[j], managed, label)
  BY DEF Labelled
<1>5. \A j \in 1 .. Len(leaves) :
        new[j].leaf = leaves[j] /\ new[j].managed = managed /\ IsEntry(new[j])
  BY <1>3, <1>4, EntryParts
<1> DEFINE T == S \cup {new[j] : j \in 1 .. Len(leaves)}
<1>6. new \in [1 .. Len(leaves) -> T]
  BY <1>3
<1> HIDE DEF new
<1>7. \A e \in T : IsEntry(e)
  BY <1>1, <1>5
<1>8. new \in Seq(T) /\ Len(new) = Len(leaves) /\ shares \in Seq(T)
  <2>1. new \in Seq(T) /\ Len(new) = Len(leaves)
    BY <1>3, <1>6
  <2>2. S \subseteq T
    OBVIOUS
  <2>3. \A i \in 1 .. Len(shares) : shares[i] \in T
    BY <1>1, <2>2
  <2>4. shares \in [1 .. Len(shares) -> T] /\ Len(shares) \in Nat
    BY <1>1, <2>3
  <2> QED
    BY <2>1, <2>4
<1> HIDE DEF T
<1>9. t = shares \o new
  BY DEF AddMany, new
<1> HIDE DEF t
<1>10. /\ t \in Seq(T) /\ Len(t) = Len(shares) + Len(new)
       /\ \A i \in 1 .. Len(shares) + Len(new) :
            t[i] = IF i <= Len(shares) THEN shares[i] ELSE new[i - Len(shares)]
  BY <1>8, <1>9, ConcatProperties
<1>11. IsList(t)
  BY <1>7, <1>10 DEF IsList
<1>12. Len(shares) \in Nat
  BY <1>1
<1>13. \A i \in 1 .. Len(shares) : t[i] = shares[i]
  BY <1>3, <1>8, <1>10, <1>12
<1>14. ASSUME NEW j \in 1 .. Len(leaves) PROVE t[Len(shares) + j] = new[j]
  <2>1. /\ Len(shares) + j \in 1 .. Len(shares) + Len(new)
        /\ ~(Len(shares) + j <= Len(shares)) /\ (Len(shares) + j) - Len(shares) = j
    BY <1>3, <1>8, <1>12
  <2> QED
    BY <1>10, <2>1
<1> QED
  BY <1>5, <1>8, <1>10, <1>11, <1>13, <1>14 DEF t

LEMMA Dropped ==
  ASSUME NEW s, IsList(s), NEW d \in 1 .. Len(s)
  PROVE  LET t == RemoveAt(s, d)
         IN  /\ IsList(t) /\ Len(t) = Len(s) - 1
             /\ \A i \in 1 .. Len(s) - 1 : t[i] = IF i < d THEN s[i] ELSE s[i + 1]
<1> DEFINE p == SubSeq(s, 1, d - 1)
           q == SubSeq(s, d + 1, Len(s))
           t == RemoveAt(s, d)
<1>1. PICK S : s \in Seq(S) /\ \A e \in S : IsEntry(e)
  BY DEF IsList
<1>2. Len(s) \in Nat
  BY <1>1
<1>3. /\ p \in Seq(S) /\ Len(p) = d - 1 /\ \A i \in 1 .. d - 1 : p[i] = s[i]
  <2>1. 1 \in 1 .. Len(s) + 1 /\ d - 1 \in 1 - 1 .. Len(s)
    BY <1>2
  <2> QED
    BY <1>1, <1>2, <2>1, SubSeqProperties
<1>4. /\ q \in Seq(S) /\ Len(q) = Len(s) - d /\ \A i \in 1 .. Len(s) - d : q[i] = s[d + i]
  <2>1. d + 1 \in 1 .. Len(s) + 1 /\ Len(s) \in (d + 1) - 1 .. Len(s)
    BY <1>2
  <2> QED
    BY <1>1, <1>2, <2>1, SubSeqProperties
<1>5. t = p \o q
  BY DEF RemoveAt
<1> HIDE DEF p, q, t
<1>6. /\ t \in Seq(S) /\ Len(t) = Len(p) + Len(q)
      /\ \A i \in 1 .. Len(p) + Len(q) : t[i] = IF i <= Len(p) THEN p[i] ELSE q[i - Len(p)]
  BY <1>3, <1>4, <1>5, ConcatProperties
<1>7. Len(t) = Len(s) - 1 /\ Len(p) + Len(q) = Len(s) - 1
  BY <1>2, <1>3, <1>4, <1>6
<1>8. ASSUME NEW i \in 1 .. Len(s) - 1 PROVE t[i] = IF i < d THEN s[i] ELSE s[i + 1]
  <2>1. CASE i < d
    BY <1>2, <1>3, <1>6, <1>7, <2>1
  <2>2. CASE ~(i < d)
    <3>1. i - (d - 1) \in 1 .. Len(s) - d /\ d + (i - (d - 1)) = i + 1
      BY <1>2, <2>2
    <3>2. t[i] = q[i - (d - 1)]
      BY <1>2, <1>3, <1>6, <1>7, <2>2
    <3>3. q[i - (d - 1)] = s[d + (i - (d - 1))]
      BY <1>4, <3>1
    <3> QED
      BY <2>2, <3>1, <3>2, <3>3
  <2> QED
    BY <2>1, <2>2
<1>9. IsList(t)
  BY <1>1, <1>6 DEF IsList
<1> QED
  BY <1>7, <1>8, <1>9 DEF t

LEMMA Survivors ==
  ASSUME IsList(sharesRow)
  PROVE  LET t == EntriesAt(sharesRow, {i \in DOMAIN sharesRow : Exists(sharesRow[i])})
         IN  IsList(t) /\ \A i \in 1 .. Len(t) : Exists(t[i])
<1> DEFINE places == {i \in DOMAIN sharesRow : Exists(sharesRow[i])}
           t == EntriesAt(sharesRow, places)
<1>1. PICK S : sharesRow \in Seq(S) /\ \A e \in S : IsEntry(e)
  BY DEF IsList
<1>2. places \in SUBSET (1 .. Len(sharesRow))
  BY <1>1
<1>3. \A p \in places : Exists(sharesRow[p])
  OBVIOUS
<1> HIDE DEF places
<1>4. t \in Seq(S) /\ \A n \in 1 .. Len(t) : \E p \in places : t[n] = sharesRow[p]
  BY <1>1, <1>2, EntriesAtDoes
<1> HIDE DEF t
<1>5. \A n \in 1 .. Len(t) : Exists(t[n])
  BY <1>3, <1>4
<1>6. IsList(t)
  BY <1>1, <1>4 DEF IsList
<1> QED
  BY <1>5, <1>6 DEF t, places

-----------------------------------------------------------------------------
(* Steps that leave owners and files alone. *)

LEMMA OwnersSame ==
  ASSUME OneOwnerEach, FilesOwned, shares' = shares, stored' = stored, uploadDir' = uploadDir,
         strays' = strays, \A i \in DOMAIN shares : Dying(i)' <=> Dying(i)
  PROVE  OneOwnerEach' /\ FilesOwned'
<1>1. \A i \in DOMAIN shares : Owner(i)' <=> Owner(i)
  BY DEF Owner
<1>2. OneOwnerEach'
  BY <1>1 DEF OneOwnerEach
<1>3. \A f : (Listed(f)' <=> Listed(f)) /\ (Written(f)' <=> Written(f))
  BY <1>1 DEF Listed, Written
<1> QED
  BY <1>1, <1>2, <1>3 DEF FilesOwned

\* What the steps of uploads have in common.
LEMMA RequestShape ==
  ASSUME NEW u \in Uploaders, RequestStep(u)
  PROVE  /\ \E next : Enter(u, next)
         /\ target' = target \/ \E leaf : target' = [target EXCEPT ![u] = leaf]
         /\ sharesRow' = sharesRow /\ copyToSave' = copyToSave
<1> DEFINE Shape == /\ \E next : Enter(u, next)
                    /\ target' = target \/ \E leaf : target' = [target EXCEPT ![u] = leaf]
                    /\ sharesRow' = sharesRow /\ copyToSave' = copyToSave
<1>1. ASSUME NEW names, UploadBegins(u, names) PROVE Shape
  BY <1>1 DEF UploadBegins, NotSaves
<1>2. PicksTarget(u) => Shape
  BY DEF PicksTarget, NotSaves
<1>3. StoresFile(u) => Shape
  BY DEF StoresFile, NotSaves
<1>4. UploadFails(u) => Shape
  BY DEF UploadFails, NotSaves
<1>5. UploadListed(u) => Shape
  BY DEF UploadListed, NotSaves
<1>6. UploadNotifies(u) => Shape
  BY DEF UploadNotifies, NotSaves
<1> HIDE DEF Shape
<1>7. Shape
  BY <1>1, <1>2, <1>3, <1>4, <1>5, <1>6 DEF RequestStep
<1> QED
  BY <1>7 DEF Shape

\* Steps of uploads do not touch what the window is removing.
LEMMA UploadSparesWindow ==
  ASSUME OwnersInv, SavesInv, NEW u \in Uploaders, RequestStep(u)
  PROVE  /\ phase'[Window] = phase[Window] /\ target'[Window] = target[Window]
         /\ target' = [p \in Savers |-> target'[p]]
         /\ \A v \in Uploaders : v # u => phase'[v] = phase[v]
<1>1. \E next : Enter(u, next)
  BY RequestShape
<1>2. target' = target \/ \E leaf : target' = [target EXCEPT ![u] = leaf]
  BY RequestShape
<1>3. target = [p \in Savers |-> target[p]]
  BY DEF OwnersInv, OwnersTyped
<1>4. target'[Window] = target[Window] /\ target' = [p \in Savers |-> target'[p]]
  BY <1>2, <1>3, SaversAre
<1> QED
  BY <1>1, <1>4, Entered, SaversAre

LEMMA SameDying ==
  ASSUME phase'[Window] = phase[Window], target'[Window] = target[Window]
  PROVE  \A i : Dying(i)' <=> Dying(i)
  BY DEF Dying

\* A request's files are noted from its first one to the list or the failure.
LEMMA NoFilesOutside ==
  ASSUME OwnersInv, NEW u \in Uploaders, phase[u] \notin {"writing", "creating"}
  PROVE  stored[u] = <<>>
  BY DEF OwnersInv, OwnersTyped

LEMMA EmptyIsSequence == IsSequence(<<>>) /\ Len(<<>>) = 0 /\ DOMAIN <<>> = {}
<1>1. <<>> \in Seq({})
  OBVIOUS
<1> QED
  BY <1>1 DEF IsSequence

LEMMA SequenceParts ==
  ASSUME NEW s, IsSequence(s)
  PROVE  Len(s) \in Nat /\ DOMAIN s = 1 .. Len(s)
  BY DEF IsSequence

\* Types, when a request's step changes its own files and the list grows.
LEMMA UploadTyped ==
  ASSUME OwnersInv, SavesInv, NEW u \in Uploaders, RequestStep(u),
         NEW files, stored' = [stored EXCEPT ![u] = files], IsSequence(files),
         phase'[u] \notin {"writing", "creating"} => files = <<>>,
         IsList(shares'), Len(shares) <= Len(shares')
  PROVE  OwnersTyped'
<1>1. sharesRow' = sharesRow /\ copyToSave' = copyToSave
  BY RequestShape
<1>2. /\ stored' = [v \in Uploaders |-> stored'[v]] /\ stored'[u] = files
      /\ \A v \in Uploaders : v # u => stored'[v] = stored[v]
  BY DEF OwnersInv, OwnersTyped
<1>3. /\ phase'[Window] = phase[Window] /\ target'[Window] = target[Window]
      /\ target' = [p \in Savers |-> target'[p]]
      /\ \A v \in Uploaders : v # u => phase'[v] = phase[v]
  BY UploadSparesWindow
<1>4. DOMAIN shares \subseteq DOMAIN shares'
  <2>1. /\ Len(shares) \in Nat /\ DOMAIN shares = 1 .. Len(shares)
        /\ Len(shares') \in Nat /\ DOMAIN shares' = 1 .. Len(shares')
    BY ListParts DEF OwnersInv, OwnersTyped
  <2> QED
    BY <2>1
<1>5. phase'[Window] = "unlisting" => \E i \in DOMAIN shares' : target'[Window] = <<i>>
  BY <1>3, <1>4 DEF OwnersInv, OwnersTyped
<1>6. \A v \in Uploaders : IsSequence(stored'[v])
  BY <1>2 DEF OwnersInv, OwnersTyped
<1>7. \A v \in Uploaders : phase'[v] \notin {"writing", "creating"} => stored'[v] = <<>>
  BY <1>2, <1>3 DEF OwnersInv, OwnersTyped
<1>8. IsList(sharesRow') /\ \A p \in Savers : copyToSave'[p] # NotSaving => IsList(copyToSave'[p])
  BY <1>1 DEF OwnersInv, OwnersTyped
<1> QED
  BY ONLY <1>2, <1>3, <1>5, <1>6, <1>7, <1>8, IsList(shares') DEF OwnersTyped

LEMMA QuietUploadStep ==
  ASSUME OwnersInv, SavesInv, NEW u \in Uploaders, RequestStep(u),
         (\E names : UploadBegins(u, names)) \/ PicksTarget(u) \/ UploadNotifies(u)
  PROVE  OwnersInv'
<1>1. shares' = shares /\ uploadDir' = uploadDir /\ strays' = strays
  BY DEF UploadBegins, PicksTarget, UploadNotifies
<1>2. /\ stored = [v \in Uploaders |-> stored[v]] /\ IsSequence(stored[u])
      /\ IsList(shares)
  BY DEF OwnersInv, OwnersTyped
<1>3. stored' = stored \/ (stored' = [stored EXCEPT ![u] = <<>>] /\ phase[u] = "idle")
  BY DEF UploadBegins, PicksTarget, UploadNotifies, requestVars
<1>4. stored' = stored
  <2>1. phase[u] = "idle" => stored[u] = <<>>
    BY NoFilesOutside
  <2> QED
    BY <1>2, <1>3, <2>1
<1>5. stored' = [stored EXCEPT ![u] = stored[u]]
  BY <1>2, <1>4
<1>6. phase[u] # "idle" \/ stored[u] = <<>>
  BY NoFilesOutside
<1>7. phase'[u] \notin {"writing", "creating"} => stored[u] = <<>>
  <2>1. CASE UploadNotifies(u)
    BY <2>1, NoFilesOutside DEF UploadNotifies
  <2>2. CASE (\E names : UploadBegins(u, names)) \/ PicksTarget(u)
    <3>1. \E next \in {"writing", "creating"} : Enter(u, next)
      BY <2>2 DEF UploadBegins, PicksTarget
    <3> QED
      BY <3>1, Entered, SaversAre
  <2> QED
    BY <2>1, <2>2
<1>8. Len(shares) \in Nat
  BY <1>2, ListParts
<1>9. OwnersTyped'
  BY ONLY OwnersInv, SavesInv, u \in Uploaders, RequestStep(u), <1>1, <1>2, <1>5, <1>7, <1>8, UploadTyped
<1> QED
  BY <1>1, <1>4, <1>9, OwnersSame, UploadSparesWindow, SameDying DEF OwnersInv

-----------------------------------------------------------------------------
(* Steps of a request that change owners and files. *)

\* A new file has a name that no owner has, unless it is a stray's.
LEMMA NewNameIsFree ==
  ASSUME FilesOwned, NEW f, f \notin uploadDir, f \notin strays
  PROVE  /\ \A i \in DOMAIN shares : Owner(i) => shares[i].leaf # f
         /\ \A v \in Uploaders : \A k \in DOMAIN stored[v] : stored[v][k] # f
  BY DEF FilesOwned

LEMMA StoresFileKeeps ==
  ASSUME OwnersInv, SavesInv, NEW u \in Uploaders, StoresFile(u)
  PROVE  OwnersInv'
<1> DEFINE f == target[u]
           had == stored[u]
           now == Append(had, f)
<1>1. /\ f \notin uploadDir /\ uploadDir' = uploadDir \cup {f} /\ stored' = [stored EXCEPT ![u] = now]
      /\ shares' = shares /\ strays' = strays /\ Enter(u, "writing")
  BY DEF StoresFile
<1>2. RequestStep(u)
  BY DEF RequestStep
<1>3. /\ stored = [v \in Uploaders |-> stored[v]] /\ IsSequence(had) /\ IsList(shares)
  BY DEF OwnersInv, OwnersTyped
<1>4. Len(shares) \in Nat
  BY <1>3, ListParts
<1> HIDE DEF f
<1>5. /\ IsSequence(now) /\ Len(now) = Len(had) + 1 /\ DOMAIN now = 1 .. Len(had) + 1
      /\ now[Len(had) + 1] = f /\ \A j \in 1 .. Len(had) : now[j] = had[j]
      /\ Len(had) \in Nat /\ DOMAIN had = 1 .. Len(had)
  <2>1. PICK S : had \in Seq(S)
    BY <1>3 DEF IsSequence
  <2>2. had \in Seq(S \cup {f})
    <3>1. \A j \in 1 .. Len(had) : had[j] \in S \cup {f}
      BY <2>1
    <3> QED
      BY <2>1, <3>1
  <2>3. now \in Seq(S \cup {f})
    BY <2>2
  <2> QED
    BY <2>1, <2>2, <2>3 DEF IsSequence
<1> HIDE DEF now, had
<1>6. phase'[u] = "writing"
  BY <1>1, Entered, SaversAre
<1>7. OwnersTyped'
  BY ONLY OwnersInv, SavesInv, u \in Uploaders, <1>1, <1>2, <1>3, <1>4, <1>5, <1>6, UploadTyped
<1>8. /\ stored'[u] = now /\ \A v \in Uploaders : v # u => stored'[v] = stored[v]
  BY <1>1, <1>3
<1>9. \A i \in DOMAIN shares : Owner(i)' <=> Owner(i)
  BY <1>1, <1>2, UploadSparesWindow, SameDying DEF Owner
\* A file of a request is an earlier one, of that request or another, or the new one.
<1>10. ASSUME NEW v \in Uploaders, NEW k \in DOMAIN stored'[v]
       PROVE  \/ k \in DOMAIN stored[v] /\ stored'[v][k] = stored[v][k]
              \/ v = u /\ k = Len(had) + 1 /\ stored'[v][k] = f
  <2>1. CASE v # u
    BY <1>8, <2>1
  <2>2. CASE v = u /\ k = Len(had) + 1
    BY <1>5, <1>8, <2>2
  <2>3. CASE v = u /\ k # Len(had) + 1
    <3>1. k \in 1 .. Len(had)
      BY <1>5, <1>8, <2>3
    <3> QED
      BY <1>5, <1>8, <2>3, <3>1 DEF had
  <2> QED
    BY <2>1, <2>2, <2>3
<1>11. /\ f \notin strays => \A i \in DOMAIN shares : Owner(i) => shares[i].leaf # f
       /\ f \notin strays => \A v \in Uploaders : \A k \in DOMAIN stored[v] : stored[v][k] # f
  BY <1>1, NewNameIsFree DEF OwnersInv
<1>12. \A i, k \in DOMAIN shares' :
         Owner(i)' /\ Owner(k)' /\ shares'[i].leaf = shares'[k].leaf => i = k \/ shares'[i].leaf \in strays'
  BY <1>1, <1>9 DEF OwnersInv, OneOwnerEach
<1>13. ASSUME NEW v \in Uploaders, NEW w \in Uploaders, NEW j \in DOMAIN stored'[v],
              NEW k \in DOMAIN stored'[w], stored'[v][j] = stored'[w][k], stored'[v][j] \notin strays
       PROVE  v = w /\ j = k
  BY <1>10, <1>11, <1>13 DEF OwnersInv, OneOwnerEach
<1>14. ASSUME NEW i \in DOMAIN shares, NEW v \in Uploaders, NEW j \in DOMAIN stored'[v],
              Owner(i), stored'[v][j] = shares[i].leaf
       PROVE  shares[i].leaf \in strays
  BY <1>10, <1>11, <1>14 DEF OwnersInv, OneOwnerEach
<1>15. OneOwnerEach'
  BY ONLY <1>1, <1>9, <1>12, <1>13, <1>14 DEF OneOwnerEach
<1>16. \A v \in Uploaders : \A j \in DOMAIN stored'[v] : stored'[v][j] \in uploadDir' \cup strays'
  BY <1>1, <1>10 DEF OwnersInv, FilesOwned
<1>17. ASSUME NEW g \in uploadDir' PROVE Listed(g)' \/ Written(g)' \/ g \in strays'
  <2>1. CASE g = f
    <3>1. Len(had) + 1 \in DOMAIN stored'[u] /\ stored'[u][Len(had) + 1] = f
      BY <1>5, <1>8
    <3> QED
      BY <2>1, <3>1 DEF Written
  <2>2. CASE g # f
    <3>1. Listed(g) \/ Written(g) \/ g \in strays
      BY <1>1, <2>2 DEF OwnersInv, FilesOwned
    <3>2. Listed(g) => Listed(g)'
      BY <1>1, <1>9 DEF Listed
    <3>3. ASSUME Written(g) PROVE Written(g)'
      <4>1. PICK v \in Uploaders : \E j \in DOMAIN stored[v] : stored[v][j] = g
        BY <3>3 DEF Written
      <4>2. PICK j \in DOMAIN stored[v] : stored[v][j] = g
        BY <4>1
      <4>3. CASE v = u
        <5>1. j \in 1 .. Len(had) /\ had[j] = g
          BY <1>5, <4>2, <4>3 DEF had
        <5>2. j \in DOMAIN now /\ now[j] = g
          BY <1>5, <5>1
        <5> QED
          BY <1>8, <5>2 DEF Written
      <4>4. CASE v # u
        BY <1>8, <4>2, <4>4 DEF Written
      <4> QED
        BY <4>3, <4>4
    <3> QED
      BY <1>1, <3>1, <3>2, <3>3
  <2> QED
    BY <2>1, <2>2
<1>18. \A i \in DOMAIN shares : Owner(i)' => shares[i].leaf \in uploadDir' \cup strays'
  BY <1>1, <1>9 DEF OwnersInv, FilesOwned
<1>19. FilesOwned'
  BY ONLY <1>1, <1>16, <1>17, <1>18 DEF FilesOwned
<1> QED
  BY <1>7, <1>15, <1>19 DEF OwnersInv

LEMMA UploadFailsKeeps ==
  ASSUME OwnersInv, SavesInv, NEW u \in Uploaders, UploadFails(u)
  PROVE  OwnersInv'
<1>0. PICK left :
             uploadDir' = (uploadDir \ Range(stored[u])) \cup left /\ strays' = strays \cup left
  BY DEF UploadFails
<1>1. /\ uploadDir' = (uploadDir \ Range(stored[u])) \cup left /\ stored' = [stored EXCEPT ![u] = <<>>]
      /\ shares' = shares /\ strays' = strays \cup left
  BY <1>0 DEF UploadFails
<1>2. RequestStep(u)
  BY DEF RequestStep
<1>3. stored = [v \in Uploaders |-> stored[v]] /\ IsList(shares)
  BY DEF OwnersInv, OwnersTyped
<1>4. Len(shares) \in Nat
  BY <1>3, ListParts
<1>5. OwnersTyped'
  BY ONLY OwnersInv, SavesInv, u \in Uploaders, <1>1, <1>2, <1>3, <1>4, EmptyIsSequence, UploadTyped
<1>6. /\ DOMAIN stored'[u] = {} /\ \A v \in Uploaders : v # u => stored'[v] = stored[v]
  BY <1>1, <1>3, EmptyIsSequence
<1>7. \A i \in DOMAIN shares : Owner(i)' <=> Owner(i)
  BY <1>1, <1>2, UploadSparesWindow, SameDying DEF Owner
<1>8. \A f : f \in Range(stored[u]) <=> \E j \in DOMAIN stored[u] : stored[u][j] = f
  BY DEF Range
<1>9. OneOwnerEach'
  <2>1. \A v \in Uploaders : \A k \in DOMAIN stored'[v] : v # u /\ k \in DOMAIN stored[v] /\ stored'[v][k] = stored[v][k]
    BY <1>6
  <2> QED
    BY <1>1, <1>7, <2>1 DEF OwnersInv, OneOwnerEach
<1>10. ASSUME NEW i \in DOMAIN shares, Owner(i) PROVE shares[i].leaf \in uploadDir' \cup strays'
  <2>1. shares[i].leaf \in strays \/ shares[i].leaf \notin Range(stored[u])
    BY <1>8, <1>10 DEF OwnersInv, OneOwnerEach
  <2> QED
    BY <1>1, <1>10, <2>1 DEF OwnersInv, FilesOwned
<1>11. ASSUME NEW v \in Uploaders, NEW k \in DOMAIN stored'[v]
       PROVE  stored'[v][k] \in uploadDir' \cup strays'
  <2>1. v # u /\ k \in DOMAIN stored[v] /\ stored'[v][k] = stored[v][k]
    BY <1>6, <1>11
  <2>2. stored[v][k] \in strays \/ stored[v][k] \notin Range(stored[u])
    BY <1>8, <2>1 DEF OwnersInv, OneOwnerEach
  <2> QED
    BY <1>1, <2>1, <2>2 DEF OwnersInv, FilesOwned
<1>12. ASSUME NEW f \in uploadDir' PROVE Listed(f)' \/ Written(f)' \/ f \in strays'
  <2> SUFFICES ASSUME f \notin strays' PROVE Listed(f)' \/ Written(f)'
    OBVIOUS
  <2>1. f \in uploadDir /\ f \notin Range(stored[u]) /\ f \notin strays
    BY <1>1, <1>12
  <2>2. Listed(f) \/ Written(f) \/ f \in strays
    BY <2>1 DEF OwnersInv, FilesOwned
  <2>3. Listed(f) => Listed(f)'
    BY <1>1, <1>7 DEF Listed
  <2>4. Written(f) => Written(f)'
    BY <1>6, <1>8, <2>1 DEF Written
  <2> QED
    BY <2>1, <2>2, <2>3, <2>4
<1>13. FilesOwned'
  BY ONLY <1>1, <1>7, <1>10, <1>11, <1>12 DEF FilesOwned
<1> QED
  BY <1>5, <1>9, <1>13 DEF OwnersInv

LEMMA UploadListedKeeps ==
  ASSUME OwnersInv, SavesInv, NEW u \in Uploaders, UploadListed(u)
  PROVE  OwnersInv'
<1> DEFINE files == stored[u]
           n == Len(shares)
<1>1. /\ shares' = AddMany(files, TRUE) /\ stored' = [stored EXCEPT ![u] = <<>>]
      /\ uploadDir' = uploadDir /\ strays' = strays
  BY DEF UploadListed
<1>2. RequestStep(u)
  BY DEF RequestStep
<1>3. /\ stored = [v \in Uploaders |-> stored[v]] /\ IsSequence(files) /\ IsList(shares)
  BY DEF OwnersInv, OwnersTyped
<1>4. /\ IsList(shares') /\ Len(shares') = n + Len(files)
      /\ \A i \in 1 .. n : shares'[i] = shares[i]
      /\ \A j \in 1 .. Len(files) : shares'[n + j].leaf = files[j] /\ shares'[n + j].managed = TRUE
  <2> DEFINE t == AddMany(files, TRUE)
  <2>1. /\ IsList(t) /\ Len(t) = Len(shares) + Len(files)
        /\ \A i \in 1 .. Len(shares) : t[i] = shares[i]
        /\ \A j \in 1 .. Len(files) : t[Len(shares) + j].leaf = files[j] /\ t[Len(shares) + j].managed = TRUE
    BY ONLY <1>3, TRUE \in BOOLEAN, Added
  <2> HIDE DEF t
  <2>2. shares' = t
    BY <1>1 DEF t
  <2> QED
    BY <2>1, <2>2
<1>5. /\ n \in Nat /\ DOMAIN shares = 1 .. n /\ DOMAIN shares' = 1 .. n + Len(files)
      /\ Len(files) \in Nat /\ DOMAIN files = 1 .. Len(files)
  BY <1>3, <1>4, ListParts, SequenceParts
<1> HIDE DEF n
<1>6. OwnersTyped'
  <2>1. Len(shares) <= Len(shares')
    BY <1>4, <1>5 DEF n
  <2> QED
    BY ONLY OwnersInv, SavesInv, u \in Uploaders, <1>1, <1>2, <1>4, <2>1, EmptyIsSequence, UploadTyped
<1>7. /\ DOMAIN stored'[u] = {} /\ \A v \in Uploaders : v # u => stored'[v] = stored[v]
  BY <1>1, <1>3, EmptyIsSequence
<1>8. \A i : Dying(i)' <=> Dying(i)
  BY <1>2, UploadSparesWindow, SameDying
<1>9. ASSUME NEW j \in 1 .. Len(files) PROVE ~Dying(n + j)
  <2> SUFFICES ASSUME Dying(n + j) PROVE FALSE
    OBVIOUS
  <2>1. PICK i \in DOMAIN shares : target[Window] = <<i>>
    BY DEF Dying, OwnersInv, OwnersTyped
  <2>2. n + j = i
    BY <2>1 DEF Dying
  <2> QED
    BY <1>5, <2>1, <2>2
\* An owner is one of before, or one of the request's files.
<1>10. ASSUME NEW i \in DOMAIN shares'
       PROVE  \/ i \in DOMAIN shares /\ shares'[i] = shares[i] /\ (Owner(i)' <=> Owner(i))
              \/ \E j \in DOMAIN files : i = n + j /\ shares'[i].leaf = files[j] /\ Owner(i)'
  <2>1. CASE i <= n
    <3>1. i \in DOMAIN shares /\ shares'[i] = shares[i]
      BY <1>4, <1>5, <2>1
    <3> QED
      BY <1>8, <3>1 DEF Owner
  <2>2. CASE ~(i <= n)
    <3>1. i - n \in 1 .. Len(files) /\ i = n + (i - n)
      BY <1>5, <2>2
    <3>2. PICK j \in 1 .. Len(files) : i = n + j
      BY <3>1
    <3>3. shares'[i].leaf = files[j] /\ shares'[i].managed = TRUE /\ ~Dying(i)
      BY <1>4, <1>9, <3>2
    <3> QED
      BY <1>5, <1>8, <3>2, <3>3 DEF Owner
  <2> QED
    BY <2>1, <2>2
<1>11. /\ \A i \in DOMAIN shares : i \in DOMAIN shares' /\ shares'[i] = shares[i] /\ (Owner(i)' <=> Owner(i))
       /\ \A j \in DOMAIN files : \E i \in DOMAIN shares' : shares'[i].leaf = files[j] /\ Owner(i)'
  <2>1. \A i \in DOMAIN shares : i \in DOMAIN shares' /\ shares'[i] = shares[i]
    BY <1>4, <1>5
  <2>2. \A i \in DOMAIN shares : Owner(i)' <=> Owner(i)
    BY <1>8, <2>1 DEF Owner
  <2>3. ASSUME NEW j \in 1 .. Len(files)
        PROVE  \E i \in DOMAIN shares' : shares'[i].leaf = files[j] /\ Owner(i)'
    <3>1. PICK i \in DOMAIN shares' : i = n + j
      BY <1>5
    <3>2. shares'[i].leaf = files[j] /\ shares'[i].managed /\ ~Dying(i)'
      BY <1>4, <1>8, <1>9, <3>1
    <3> QED
      BY <3>2 DEF Owner
  <2> QED
    BY <1>5, <2>1, <2>2, <2>3
<1>12. \A v \in Uploaders : \A k \in DOMAIN stored'[v] :
         v # u /\ k \in DOMAIN stored[v] /\ stored'[v][k] = stored[v][k]
  BY <1>7
\* What the invariant says of the owners of before.
<1>13. /\ \A i, k \in DOMAIN shares :
            Owner(i) /\ Owner(k) /\ shares[i].leaf = shares[k].leaf => i = k \/ shares[i].leaf \in strays
       /\ \A i \in DOMAIN shares : \A j \in DOMAIN files :
            Owner(i) /\ files[j] = shares[i].leaf => files[j] \in strays
       /\ \A j, k \in DOMAIN files : files[j] = files[k] => j = k \/ files[j] \in strays
       /\ \A j \in DOMAIN files : \A v \in Uploaders : \A k \in DOMAIN stored[v] :
            v # u /\ stored[v][k] = files[j] => files[j] \in strays
       /\ \A i \in DOMAIN shares : \A v \in Uploaders : \A k \in DOMAIN stored[v] :
            Owner(i) /\ stored[v][k] = shares[i].leaf => shares[i].leaf \in strays
       /\ \A v, w \in Uploaders : \A j \in DOMAIN stored[v] : \A k \in DOMAIN stored[w] :
            stored[v][j] = stored[w][k] => (v = w /\ j = k) \/ stored[v][j] \in strays
  BY DEF OwnersInv, OneOwnerEach
<1>14. ASSUME NEW i \in DOMAIN shares', NEW k \in DOMAIN shares', Owner(i)', Owner(k)',
              shares'[i].leaf = shares'[k].leaf, shares'[i].leaf \notin strays
       PROVE  i = k
  BY ONLY <1>10, <1>13, <1>14
<1>15. ASSUME NEW i \in DOMAIN shares', NEW v \in Uploaders, NEW k \in DOMAIN stored'[v],
              Owner(i)', stored'[v][k] = shares'[i].leaf
       PROVE  shares'[i].leaf \in strays
  BY ONLY <1>10, <1>12, <1>13, <1>15
<1>16. OneOwnerEach'
  <2>1. \A v, w \in Uploaders : \A j \in DOMAIN stored'[v] : \A k \in DOMAIN stored'[w] :
          stored'[v][j] = stored'[w][k] => (v = w /\ j = k) \/ stored'[v][j] \in strays'
    BY <1>1, <1>12, <1>13
  <2> QED
    BY ONLY <1>1, <1>14, <1>15, <2>1 DEF OneOwnerEach
<1>17. ASSUME NEW i \in DOMAIN shares', Owner(i)' PROVE shares'[i].leaf \in uploadDir \cup strays
  BY <1>10, <1>17 DEF OwnersInv, FilesOwned
<1>18. \A v \in Uploaders : \A k \in DOMAIN stored'[v] : stored'[v][k] \in uploadDir \cup strays
  BY <1>12 DEF OwnersInv, FilesOwned
<1>19. ASSUME NEW f \in uploadDir PROVE Listed(f)' \/ Written(f)' \/ f \in strays
  <2>1. Listed(f) \/ Written(f) \/ f \in strays
    BY DEF OwnersInv, FilesOwned
  <2>2. Listed(f) => Listed(f)'
    BY <1>11 DEF Listed
  <2>3. ASSUME Written(f) PROVE Listed(f)' \/ Written(f)'
    <3>1. PICK v \in Uploaders : \E j \in DOMAIN stored[v] : stored[v][j] = f
      BY <2>3 DEF Written
    <3>2. CASE v = u
      <4>1. PICK j \in DOMAIN files : files[j] = f
        BY <3>1, <3>2
      <4> QED
        BY <1>11, <4>1 DEF Listed
    <3>3. CASE v # u
      BY <1>7, <3>1, <3>3 DEF Written
    <3> QED
      BY <3>2, <3>3
  <2> QED
    BY <2>1, <2>2, <2>3
<1>20. FilesOwned'
  BY ONLY <1>1, <1>17, <1>18, <1>19 DEF FilesOwned
<1> QED
  BY <1>6, <1>16, <1>20 DEF OwnersInv

-----------------------------------------------------------------------------
(* Saves, the window, and the next start. *)

LEMMA NoneDying == phase[Window] # "unlisting" => \A i : ~Dying(i)
  BY DEF Dying

LEMMA SaveReadsKeepsOwners ==
  ASSUME OwnersInv, SavesInv, NEW p \in Savers, SaveReads(p)
  PROVE  OwnersInv'
<1>1. /\ copyToSave' = [copyToSave EXCEPT ![p] = shares]
      /\ shares' = shares /\ sharesRow' = sharesRow /\ phase' = phase /\ stored' = stored
      /\ target' = target /\ uploadDir' = uploadDir /\ strays' = strays
  BY DEF SaveReads, requestVars
<1>2. \A q \in Savers : copyToSave'[q] \in {copyToSave[q], shares}
  BY <1>1 DEF SavesInv
<1>3. \A q \in Savers : copyToSave'[q] # NotSaving => IsList(copyToSave'[q])
  BY <1>2 DEF OwnersInv, OwnersTyped
<1>4. OwnersTyped'
  BY <1>1, <1>3 DEF OwnersInv, OwnersTyped
<1> QED
  BY <1>1, <1>4, OwnersSame, SameDying DEF OwnersInv

LEMMA SaveWritesKeepsOwners ==
  ASSUME OwnersInv, SavesInv, NEW p \in Savers, SaveWrites(p)
  PROVE  OwnersInv'
<1> DEFINE next == IF p = Window /\ ~notifier THEN "exited" ELSE "idle"
<1>1. /\ copyToSave[p] # NotSaving /\ copyToSave' = [copyToSave EXCEPT ![p] = NotSaving]
      /\ sharesRow' \in {sharesRow, copyToSave[p]}
      /\ shares' = shares /\ stored' = stored /\ target' = target /\ uploadDir' = uploadDir
      /\ strays' = strays /\ Enter(p, next)
  BY DEF SaveWrites, requestVars
<1>2. phase[p] = "saving"
  BY <1>1 DEF SavesInv
<1>3. phase'[p] = next /\ \A q \in Savers : q # p => phase'[q] = phase[q]
  BY <1>1, Entered
<1>4. \A u \in Uploaders : phase'[u] \notin {"writing", "creating"} => phase[u] \notin {"writing", "creating"}
  BY <1>2, <1>3, SaversAre
<1>5. phase'[Window] = "unlisting" <=> phase[Window] = "unlisting"
  BY <1>2, <1>3, SaversAre
<1>6. \A q \in Savers : copyToSave'[q] \in {copyToSave[q], NotSaving}
  BY <1>1 DEF SavesInv
<1>7. IsList(sharesRow') /\ \A q \in Savers : copyToSave'[q] # NotSaving => IsList(copyToSave'[q])
  BY <1>1, <1>6 DEF OwnersInv, OwnersTyped
<1>8. OwnersTyped'
  BY <1>1, <1>4, <1>5, <1>7 DEF OwnersInv, OwnersTyped
<1>9. \A i : Dying(i)' <=> Dying(i)
  BY <1>1, <1>5 DEF Dying
<1> QED
  BY <1>1, <1>8, <1>9, OwnersSame DEF OwnersInv

\* Types, when the window has made a step.
LEMMA WindowTyped ==
  ASSUME OwnersInv, SavesInv, NEW next, Enter(Window, next), sharesRow' = sharesRow,
         copyToSave' = copyToSave, stored' = stored, IsList(shares'),
         target' = target \/ \E t : target' = [target EXCEPT ![Window] = t],
         next = "unlisting" => \E i \in DOMAIN shares' : target'[Window] = <<i>>
  PROVE  OwnersTyped'
<1>1. phase'[Window] = next /\ \A u \in Uploaders : phase'[u] = phase[u]
  BY Entered, SaversAre
<1>2. target' = [p \in Savers |-> target'[p]]
  BY DEF OwnersInv, OwnersTyped
<1> QED
  BY <1>1, <1>2 DEF OwnersInv, OwnersTyped

\* The list changes, but its owners are those of before, each from one place.
LEMMA OwnersCarried ==
  ASSUME OneOwnerEach, FilesOwned, stored' = stored, uploadDir' = uploadDir, strays' = strays,
         NEW from,
         \A i \in DOMAIN shares' : Owner(i)' =>
           from[i] \in DOMAIN shares /\ Owner(from[i]) /\ shares[from[i]].leaf = shares'[i].leaf,
         \A i, k \in DOMAIN shares' : from[i] = from[k] => i = k,
         \A i \in DOMAIN shares : Owner(i) =>
           \E k \in DOMAIN shares' : Owner(k)' /\ shares'[k].leaf = shares[i].leaf
  PROVE  OneOwnerEach' /\ FilesOwned'
<1>1. ASSUME NEW i \in DOMAIN shares', NEW k \in DOMAIN shares', Owner(i)', Owner(k)',
             shares'[i].leaf = shares'[k].leaf, shares'[i].leaf \notin strays
      PROVE  i = k
  <2>1. from[i] = from[k]
    BY <1>1 DEF OneOwnerEach
  <2> QED
    BY <2>1
<1>2. ASSUME NEW i \in DOMAIN shares', NEW u \in Uploaders, NEW j \in DOMAIN stored[u],
             Owner(i)', stored[u][j] = shares'[i].leaf
      PROVE  shares'[i].leaf \in strays
  BY <1>2 DEF OneOwnerEach
<1>3. OneOwnerEach'
  BY <1>1, <1>2 DEF OneOwnerEach
<1>4. \A f : Listed(f) => Listed(f)'
  BY DEF Listed
<1>5. \A f : Written(f) => Written(f)'
  BY DEF Written
<1>6. \A i \in DOMAIN shares' : Owner(i)' => shares'[i].leaf \in uploadDir' \cup strays'
  BY DEF FilesOwned
<1>7. \A u \in Uploaders : \A j \in DOMAIN stored'[u] : stored'[u][j] \in uploadDir' \cup strays'
  BY DEF FilesOwned
<1>8. \A f \in uploadDir' : Listed(f)' \/ Written(f)' \/ f \in strays'
  BY <1>4, <1>5 DEF FilesOwned
<1> QED
  BY <1>3, <1>6, <1>7, <1>8 DEF FilesOwned

LEMMA AddPathsKeepsOwners ==
  ASSUME OwnersInv, SavesInv, NEW leaf, AddPaths(leaf)
  PROVE  OwnersInv'
<1> DEFINE t == AddMany(<<leaf>>, FALSE)
           from == [i \in DOMAIN shares' |-> i]
<1>1. /\ phase[Window] = "idle" /\ shares' = t /\ Enter(Window, "saving")
      /\ sharesRow' = sharesRow /\ copyToSave' = copyToSave /\ stored' = stored
      /\ uploadDir' = uploadDir /\ strays' = strays /\ target' = target
  BY DEF AddPaths, NotSaves, requestVars
<1>2. IsSequence(<<leaf>>) /\ Len(<<leaf>>) = 1
  <2>1. <<leaf>> \in Seq({leaf})
    OBVIOUS
  <2> QED
    BY <2>1 DEF IsSequence
<1>3. IsList(shares)
  BY DEF OwnersInv, OwnersTyped
<1>4. /\ IsList(t) /\ Len(t) = Len(shares) + Len(<<leaf>>)
      /\ \A i \in 1 .. Len(shares) : t[i] = shares[i]
      /\ \A j \in 1 .. Len(<<leaf>>) :
           t[Len(shares) + j].leaf = <<leaf>>[j] /\ t[Len(shares) + j].managed = FALSE
  BY ONLY <1>2, <1>3, FALSE \in BOOLEAN, Added
<1> HIDE DEF t
<1>5. /\ Len(shares) \in Nat /\ DOMAIN shares = 1 .. Len(shares)
      /\ DOMAIN shares' = 1 .. Len(shares) + 1
      /\ t[Len(shares) + 1].managed = FALSE
  BY <1>1, <1>2, <1>3, <1>4, ListParts
<1>6. phase'[Window] = "saving"
  BY <1>1, Entered, SaversAre
<1>7. OwnersTyped'
  BY <1>1, <1>4, WindowTyped
<1>8. \A i \in DOMAIN shares : i \in DOMAIN shares' /\ shares'[i] = shares[i]
  BY <1>1, <1>4, <1>5
<1>9. \A i \in DOMAIN shares : Owner(i)' <=> Owner(i)
  BY <1>1, <1>6, <1>8 DEF Owner, Dying
<1>10. \A i \in DOMAIN shares' : Owner(i)' => i \in DOMAIN shares
  <2> SUFFICES ASSUME NEW i \in DOMAIN shares', Owner(i)' PROVE i \in DOMAIN shares
    OBVIOUS
  <2>1. i # Len(shares) + 1
    BY <1>1, <1>5 DEF Owner
  <2> QED
    BY <1>5, <2>1
<1>11. \A i \in DOMAIN shares' : from[i] = i
  OBVIOUS
<1> HIDE DEF from
<1>12. OneOwnerEach' /\ FilesOwned'
  BY <1>1, <1>8, <1>9, <1>10, <1>11, OwnersCarried DEF OwnersInv
<1> QED
  BY <1>7, <1>12 DEF OwnersInv

LEMMA RenameShareKeepsOwners ==
  ASSUME OwnersInv, SavesInv, NEW d \in DOMAIN shares, NEW label, RenameShare(d, label)
  PROVE  OwnersInv'
<1> DEFINE t == [shares EXCEPT ![d].label = label]
           from == [i \in DOMAIN shares' |-> i]
<1>1. /\ phase[Window] = "idle" /\ shares' = t /\ Enter(Window, "saving")
      /\ sharesRow' = sharesRow /\ copyToSave' = copyToSave /\ stored' = stored
      /\ uploadDir' = uploadDir /\ strays' = strays /\ target' = target
  BY DEF RenameShare, NotSaves, requestVars
<1>2. IsList(shares) /\ d \in 1 .. Len(shares)
  BY ListParts DEF OwnersInv, OwnersTyped
<1>3. /\ IsList(t) /\ Len(t) = Len(shares)
      /\ \A i \in 1 .. Len(shares) : t[i].leaf = shares[i].leaf /\ t[i].managed = shares[i].managed
  <2> DEFINE e == [shares[d] EXCEPT !.label = label]
  <2>1. PICK S : shares \in Seq(S) /\ \A x \in S : IsEntry(x)
    BY <1>2 DEF IsList
  <2>2. IsEntry(shares[d])
    BY <1>2, <2>1
  <2>3. e = Entry(shares[d].leaf, shares[d].managed, label) /\ shares[d].managed \in BOOLEAN
    BY <2>2 DEF IsEntry, Entry
  <2>4. IsEntry(e) /\ e.leaf = shares[d].leaf /\ e.managed = shares[d].managed
    BY <2>3, EntryParts
  <2>5. t = [shares EXCEPT ![d] = e]
    OBVIOUS
  <2> HIDE DEF e, t
  <2>6. t \in Seq(S \cup {e}) /\ Len(t) = Len(shares)
    BY <2>1, <2>5
  <2>7. \A x \in S \cup {e} : IsEntry(x)
    BY <2>1, <2>4
  <2>8. \A i \in 1 .. Len(shares) : t[i] = IF i = d THEN e ELSE shares[i]
    BY <2>1, <2>5
  <2>9. IsList(t)
    BY <2>6, <2>7 DEF IsList
  <2> QED
    BY <2>4, <2>6, <2>8, <2>9
<1> HIDE DEF t
<1>4. DOMAIN shares = 1 .. Len(shares) /\ DOMAIN shares' = 1 .. Len(shares)
  BY <1>1, <1>2, <1>3, ListParts
<1>5. phase'[Window] = "saving"
  BY <1>1, Entered, SaversAre
<1>6. OwnersTyped'
  BY <1>1, <1>3, WindowTyped
<1>7. \A i \in DOMAIN shares : (Owner(i)' <=> Owner(i)) /\ shares'[i].leaf = shares[i].leaf
  BY <1>1, <1>3, <1>4, <1>5 DEF Owner, Dying
<1>8. \A i \in DOMAIN shares' : from[i] = i
  OBVIOUS
<1> HIDE DEF from
<1>9. OneOwnerEach' /\ FilesOwned'
  BY <1>1, <1>4, <1>7, <1>8, OwnersCarried DEF OwnersInv
<1> QED
  BY <1>6, <1>9 DEF OwnersInv

LEMMA RemoveSharesKeepsOwners ==
  ASSUME OwnersInv, SavesInv, NEW d \in DOMAIN shares, NEW deleteTemporary,
         RemoveShares(d, deleteTemporary)
  PROVE  OwnersInv'
<1> DEFINE entry == shares[d]
<1>1. /\ phase[Window] = "idle" /\ Enter(Window, "unlisting") /\ shares' = shares
      /\ sharesRow' = sharesRow /\ copyToSave' = copyToSave /\ stored' = stored
      /\ target' = [target EXCEPT ![Window] = <<d>>]
  BY DEF RemoveShares, NotSaves, requestVars
<1>2. \/ entry.managed /\ uploadDir' = uploadDir \ {entry.leaf} /\ strays' = strays
      \/ entry.managed /\ strays' = strays \cup {entry.leaf} /\ uploadDir' = uploadDir
      \/ ~entry.managed /\ strays' = strays /\ uploadDir' = uploadDir
  BY DEF RemoveShares
<1>3. IsList(shares) /\ target = [p \in Savers |-> target[p]]
  BY DEF OwnersInv, OwnersTyped
<1>4. phase'[Window] = "unlisting" /\ target'[Window] = <<d>>
  BY <1>1, <1>3, Entered, SaversAre
<1>5. OwnersTyped'
  BY <1>1, <1>3, <1>4, WindowTyped
<1>6. \A i : <<i>> = <<d>> => i = d
  OBVIOUS
<1>7. \A i \in DOMAIN shares : Owner(i)' <=> Owner(i) /\ i # d
  BY <1>1, <1>4, <1>6 DEF Owner, Dying
<1>8. entry.managed => Owner(d)
  BY <1>1 DEF Owner, Dying
<1>9. strays \subseteq strays'
  BY <1>2
<1>10. OneOwnerEach'
  BY <1>1, <1>7, <1>9 DEF OwnersInv, OneOwnerEach
<1>11. ASSUME NEW i \in DOMAIN shares, Owner(i)' PROVE shares[i].leaf \in uploadDir' \cup strays'
  <2>1. shares[i].leaf \in strays \/ (shares[i].leaf \in uploadDir /\ (entry.managed => shares[i].leaf # entry.leaf))
    BY <1>7, <1>8, <1>11 DEF OwnersInv, OneOwnerEach, FilesOwned
  <2> QED
    BY <1>2, <2>1
<1>12. ASSUME NEW u \in Uploaders, NEW j \in DOMAIN stored[u]
       PROVE  stored[u][j] \in uploadDir' \cup strays'
  <2>1. stored[u][j] \in strays \/ (stored[u][j] \in uploadDir /\ (entry.managed => stored[u][j] # entry.leaf))
    BY <1>8 DEF OwnersInv, OneOwnerEach, FilesOwned
  <2> QED
    BY <1>2, <2>1
<1>13. ASSUME NEW f \in uploadDir' PROVE Listed(f)' \/ Written(f)' \/ f \in strays'
  <2>1. Listed(f) \/ Written(f) \/ f \in strays
    BY <1>2 DEF OwnersInv, FilesOwned
  <2>2. Written(f) => Written(f)'
    BY <1>1 DEF Written
  <2>3. ASSUME NEW i \in DOMAIN shares, Owner(i), shares[i].leaf = f, f \notin strays'
        PROVE  Listed(f)'
    <3>1. i # d
      BY <1>2, <2>3 DEF Owner
    <3> QED
      BY <1>1, <1>7, <2>3, <3>1 DEF Listed
  <2> QED
    BY <1>9, <2>1, <2>2, <2>3 DEF Listed
<1>14. FilesOwned'
  BY <1>1, <1>11, <1>12, <1>13 DEF FilesOwned
<1> QED
  BY <1>5, <1>10, <1>14 DEF OwnersInv

LEMMA RemoveManyKeepsOwners ==
  ASSUME OwnersInv, SavesInv, RemoveMany
  PROVE  OwnersInv'
<1>1. /\ phase[Window] = "unlisting" /\ Enter(Window, "saving")
      /\ shares' = RemoveAt(shares, target[Window][1]) /\ target' = [target EXCEPT ![Window] = <<>>]
      /\ sharesRow' = sharesRow /\ copyToSave' = copyToSave /\ stored' = stored
      /\ uploadDir' = uploadDir /\ strays' = strays
  BY DEF RemoveMany, NotSaves, requestVars
<1>2. PICK d \in DOMAIN shares : target[Window] = <<d>>
  BY <1>1 DEF OwnersInv, OwnersTyped
<1>3. target[Window][1] = d
  BY <1>2
<1>4. IsList(shares)
  BY DEF OwnersInv, OwnersTyped
<1>5. Len(shares) \in Nat /\ DOMAIN shares = 1 .. Len(shares)
  BY <1>4, ListParts
<1>6. /\ IsList(shares') /\ Len(shares') = Len(shares) - 1
      /\ \A i \in 1 .. Len(shares) - 1 : shares'[i] = IF i < d THEN shares[i] ELSE shares[i + 1]
  BY <1>1, <1>2, <1>3, <1>4, <1>5, Dropped
<1>7. DOMAIN shares' = 1 .. Len(shares) - 1
  BY <1>6, ListParts
<1>8. phase'[Window] = "saving"
  BY <1>1, Entered, SaversAre
<1>9. OwnersTyped'
  BY <1>1, <1>6, WindowTyped
<1> DEFINE from == [i \in DOMAIN shares' |-> IF i < d THEN i ELSE i + 1]
<1>10. \A i \in DOMAIN shares' :
         from[i] \in DOMAIN shares /\ from[i] # d /\ shares[from[i]] = shares'[i]
  BY <1>2, <1>5, <1>6, <1>7
<1>11. \A i, k \in DOMAIN shares' : from[i] = from[k] => i = k
  BY <1>2, <1>5, <1>7
<1>12. ASSUME NEW k \in DOMAIN shares, k # d PROVE \E i \in DOMAIN shares' : from[i] = k
  <2>1. CASE k < d
    BY <1>2, <1>5, <1>7, <2>1
  <2>2. CASE ~(k < d)
    <3>1. k - 1 \in DOMAIN shares' /\ ~(k - 1 < d) /\ (k - 1) + 1 = k
      BY <1>2, <1>5, <1>7, <1>12, <2>2
    <3>2. from[k - 1] = k
      BY <3>1
    <3> QED
      BY <3>1, <3>2
  <2> QED
    BY <2>1, <2>2
<1> HIDE DEF from
<1>13. \A i : <<i>> = <<d>> => i = d
  OBVIOUS
<1>14. /\ ~Owner(d) /\ \A i \in DOMAIN shares : i # d => (Owner(i) <=> shares[i].managed)
       /\ \A i \in DOMAIN shares' : Owner(i)' <=> shares'[i].managed
  BY <1>1, <1>2, <1>8, <1>13 DEF Owner, Dying
<1>15. \A i \in DOMAIN shares' : Owner(i)' =>
         from[i] \in DOMAIN shares /\ Owner(from[i]) /\ shares[from[i]].leaf = shares'[i].leaf
  BY <1>10, <1>14
<1>16. ASSUME NEW k \in DOMAIN shares, Owner(k)
       PROVE  \E i \in DOMAIN shares' : Owner(i)' /\ shares'[i].leaf = shares[k].leaf
  <2>1. k # d
    BY <1>14, <1>16
  <2>2. PICK i \in DOMAIN shares' : from[i] = k
    BY <1>12, <2>1
  <2> QED
    BY <1>10, <1>14, <1>16, <2>1, <2>2
<1>17. OneOwnerEach' /\ FilesOwned'
  BY <1>1, <1>11, <1>15, <1>16, OwnersCarried DEF OwnersInv
<1> QED
  BY <1>9, <1>17 DEF OwnersInv

LEMMA CleanupKeepsOwners ==
  ASSUME OwnersInv, SavesInv, CleanupBegins \/ CleanupSaves
  PROVE  OwnersInv'
<1>1. /\ phase[Window] # "unlisting" /\ \E next \in {"stopped", "saving"} : Enter(Window, next)
      /\ shares' = shares /\ sharesRow' = sharesRow /\ copyToSave' = copyToSave
      /\ stored' = stored /\ target' = target /\ uploadDir' = uploadDir /\ strays' = strays
  BY DEF CleanupBegins, CleanupSaves, NotSaves, requestVars
<1>2. phase'[Window] # "unlisting"
  BY <1>1, Entered, SaversAre
<1>3. IsList(shares')
  BY <1>1 DEF OwnersInv, OwnersTyped
<1>4. OwnersTyped'
  BY <1>1, <1>3, WindowTyped
<1>5. \A i : Dying(i)' <=> Dying(i)
  BY <1>1, <1>2 DEF Dying
<1> QED
  BY <1>1, <1>4, <1>5, OwnersSame DEF OwnersInv

\* What a restart cannot give one owner is a stray from then on.
LEMMA RestartKeepsOwners ==
  ASSUME OwnersInv, SavesInv, SharesRestart
  PROVE  OwnersInv'
<1> DEFINE t == EntriesAt(sharesRow, {i \in DOMAIN sharesRow : Exists(sharesRow[i])})
           owners(f) == {i \in DOMAIN shares' : shares'[i].managed /\ shares'[i].leaf = f}
<1>1. /\ shares' = t
      /\ phase' = [p \in Savers |-> "idle"] /\ stored' = [u \in Uploaders |-> <<>>]
      /\ target' = [p \in Savers |-> <<>>] /\ copyToSave' = [p \in Savers |-> NotSaving]
      /\ strays' = {f \in uploadDir : Cardinality(owners(f)) # 1}
      /\ sharesRow' = sharesRow /\ uploadDir' = uploadDir
  BY Zenon DEF SharesRestart
<1>2. IsList(sharesRow)
  BY DEF OwnersInv, OwnersTyped
<1>3. IsList(t) /\ \A i \in 1 .. Len(t) : Exists(t[i])
  BY <1>2, Survivors
<1> HIDE DEF t
<1>4. DOMAIN shares' = 1 .. Len(shares') /\ Len(shares') \in Nat
  BY <1>1, <1>3, ListParts
<1>5. /\ phase'[Window] = "idle" /\ \A u \in Uploaders : DOMAIN stored'[u] = {} /\ stored'[u] = <<>>
  BY <1>1, SaversAre, EmptyIsSequence
<1>6. OwnersTyped'
  BY <1>1, <1>2, <1>3, <1>5, EmptyIsSequence DEF OwnersTyped
<1>7. \A i \in DOMAIN shares' : Owner(i)' <=> shares'[i].managed
  BY <1>5 DEF Owner, Dying
<1>8. \A i \in DOMAIN shares' : shares'[i].managed => shares'[i].leaf \in uploadDir
  BY <1>1, <1>3, <1>4 DEF Exists
<1>9. ASSUME NEW f PROVE Cardinality(owners(f)) = 1 <=> \E i : owners(f) = {i}
  <2>1. IsFiniteSet(1 .. Len(shares')) /\ owners(f) \subseteq 1 .. Len(shares')
    BY <1>4, FS_Interval
  <2>2. IsFiniteSet(owners(f))
    BY <2>1, FS_Subset
  <2> QED
    BY <2>2, FS_Singleton
<1>10. \A f \in uploadDir : f \in strays' \/ \E i : owners(f) = {i}
  BY <1>1, <1>9
<1>11. ASSUME NEW i \in DOMAIN shares', NEW k \in DOMAIN shares', Owner(i)', Owner(k)',
              shares'[i].leaf = shares'[k].leaf, shares'[i].leaf \notin strays'
       PROVE  i = k
  <2>1. PICK o : owners(shares'[i].leaf) = {o}
    BY <1>7, <1>8, <1>10, <1>11
  <2>2. i \in owners(shares'[i].leaf) /\ k \in owners(shares'[i].leaf)
    BY <1>7, <1>11
  <2> QED
    BY <2>1, <2>2
<1>12. OneOwnerEach'
  BY <1>5, <1>11 DEF OneOwnerEach
<1>13. ASSUME NEW f \in uploadDir, f \notin strays' PROVE Listed(f)'
  <2>1. PICK i : owners(f) = {i}
    BY <1>10, <1>13
  <2>2. i \in DOMAIN shares' /\ shares'[i].managed /\ shares'[i].leaf = f
    BY <2>1
  <2> QED
    BY <1>7, <2>2 DEF Listed
<1>14. FilesOwned'
  BY <1>1, <1>5, <1>7, <1>8, <1>13 DEF FilesOwned
<1> QED
  BY <1>6, <1>12, <1>14 DEF OwnersInv

-----------------------------------------------------------------------------
LEMMA OwnersInvInit == SharesInit => OwnersInv
<1> SUFFICES ASSUME SharesInit PROVE OwnersInv
  OBVIOUS
<1>1. /\ shares = <<>> /\ sharesRow = <<>> /\ uploadDir = {} /\ phase = [p \in Savers |-> "idle"]
      /\ stored = [u \in Uploaders |-> <<>>] /\ target = [p \in Savers |-> <<>>]
      /\ copyToSave = [p \in Savers |-> NotSaving]
  BY DEF SharesInit
<1>2. IsList(<<>>)
  <2>1. PICK none : none = {}
    OBVIOUS
  <2>2. <<>> \in Seq(none)
    OBVIOUS
  <2>3. \A e \in none : IsEntry(e)
    BY <2>1
  <2> QED
    BY <2>2, <2>3, Zenon DEF IsList
<1>3. OwnersTyped
  BY <1>1, <1>2, SaversAre, EmptyIsSequence DEF OwnersTyped
<1>4. OneOwnerEach /\ FilesOwned
  BY <1>1, EmptyIsSequence DEF OneOwnerEach, FilesOwned
<1> QED
  BY <1>3, <1>4 DEF OwnersInv

LEMMA OwnersInvStep == SavesInv /\ OwnersInv /\ [SharesNext]_sharesVars => OwnersInv'
<1> SUFFICES ASSUME SavesInv, OwnersInv, [SharesNext]_sharesVars PROVE OwnersInv'
  OBVIOUS
<1>1. ASSUME UNCHANGED sharesVars PROVE OwnersInv'
  <2>1. /\ shares' = shares /\ sharesRow' = sharesRow /\ copyToSave' = copyToSave /\ stored' = stored
        /\ target' = target /\ uploadDir' = uploadDir /\ strays' = strays /\ phase' = phase
    BY <1>1 DEF sharesVars, requestVars
  <2>2. OwnersTyped'
    BY <2>1 DEF OwnersInv, OwnersTyped
  <2> QED
    BY <2>1, <2>2, OwnersSame, SameDying DEF OwnersInv
<1>2. ASSUME NEW u \in Uploaders, RequestStep(u) PROVE OwnersInv'
  <2>1. \/ (\E names : UploadBegins(u, names)) \/ PicksTarget(u) \/ UploadNotifies(u)
        \/ StoresFile(u) \/ UploadFails(u) \/ UploadListed(u)
    BY <1>2 DEF RequestStep
  <2> QED
    BY <1>2, <2>1, QuietUploadStep, StoresFileKeeps, UploadFailsKeeps, UploadListedKeeps
<1>3. ASSUME WindowStep PROVE OwnersInv'
  BY <1>3, AddPathsKeepsOwners, RenameShareKeepsOwners, RemoveSharesKeepsOwners,
     RemoveManyKeepsOwners, CleanupKeepsOwners DEF WindowStep
<1> QED
  BY <1>1, <1>2, <1>3, SaveReadsKeepsOwners, SaveWritesKeepsOwners, RestartKeepsOwners DEF SharesNext

\* The inductive invariant of shares: who has the list still to save, and that
\* every file has one owner, an entry or the upload that wrote it.
THEOREM SharesCorrect == SharesSpec => [](SavesInv /\ OwnersInv)
  BY SavesInvInit, SavesInvStep, OwnersInvInit, OwnersInvStep, PTL DEF SharesSpec

\* The upload directory holds what the list owns, through uploads that fail
\* half-way, removals beside uploads, crashes and restarts.
THEOREM UploadsAlwaysListed == SharesSpec => []UploadsAreListed
<1>1. SavesInv /\ OwnersInv => UploadsAreListed
  <2> SUFFICES ASSUME OwnersInv PROVE UploadsAreListed
    OBVIOUS
  <2>1. \A i \in DOMAIN shares : shares[i].managed =>
          shares[i].leaf \in uploadDir \cup strays \/ Dying(i)
    BY DEF OwnersInv, FilesOwned, Owner
  <2>2. \A f \in uploadDir :
          \/ \E i \in DOMAIN shares : shares[i].managed /\ shares[i].leaf = f
          \/ \E u \in Uploaders : f \in Range(stored[u])
          \/ f \in strays
    BY DEF OwnersInv, FilesOwned, Listed, Written, Owner, Range
  <2> QED
    BY <2>1, <2>2 DEF UploadsAreListed, Dying
<1> QED
  BY <1>1, SharesCorrect, PTL
=============================================================================
