-------------------------------- MODULE Parts --------------------------------
(***************************************************************************)
(* The parts of the program whose state does not meet: each is checked     *)
(* with the others at rest, and part says whose turn it is.                *)
(***************************************************************************)
EXTENDS AttachmentStore, ChatUsers, LockOrder, ClawBot, Certificates, BusinessTables, Shares, Settings

VARIABLE part

PartNames == {"attachments", "users", "locks", "wechat", "certificates", "tables", "shares",
              "settings"}

PartsInit ==
  /\ part \in PartNames
  /\ StoreInit /\ UsersInit /\ LocksInit /\ ClawInit /\ CertInit /\ TablesInit /\ SharesInit
  /\ SettingsInit
  /\ part # "users" => privateOn
  /\ part # "settings" => /\ desktop /\ redirect = current.address
                          /\ current = CHOOSE s \in Setting : Validated(s) = s

Rest(others) == UNCHANGED <<part, others>>

PartsNext ==
  \/ part = "attachments" /\ StoreNext
       /\ Rest(<<userVars, lockVars, clawVars, certVars, tableVars, sharesVars, settingsVars>>)
  \/ part = "users" /\ UsersNext
       /\ Rest(<<storeVars, lockVars, clawVars, certVars, tableVars, sharesVars, settingsVars>>)
  \/ part = "locks" /\ LocksNext
       /\ Rest(<<storeVars, userVars, clawVars, certVars, tableVars, sharesVars, settingsVars>>)
  \/ part = "wechat" /\ ClawNext
       /\ Rest(<<storeVars, userVars, lockVars, certVars, tableVars, sharesVars, settingsVars>>)
  \/ part = "certificates" /\ CertNext
       /\ Rest(<<storeVars, userVars, lockVars, clawVars, tableVars, sharesVars, settingsVars>>)
  \/ part = "tables" /\ TablesNext
       /\ Rest(<<storeVars, userVars, lockVars, clawVars, certVars, sharesVars, settingsVars>>)
  \/ part = "shares" /\ SharesNext
       /\ Rest(<<storeVars, userVars, lockVars, clawVars, certVars, tableVars, settingsVars>>)
  \/ part = "settings" /\ SettingsNext
       /\ Rest(<<storeVars, userVars, lockVars, clawVars, certVars, tableVars, sharesVars>>)

partsVars ==
  <<part, storeVars, userVars, lockVars, clawVars, certVars, tableVars, sharesVars,
    settingsVars>>

PartsSpec == PartsInit /\ [][PartsNext]_partsVars
=============================================================================
