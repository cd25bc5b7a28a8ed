# TinyChatGo: models and proofs

TLA+ models of TinyChatGo, the TLC configurations that check them on small
instances, and proofs for every instance. Source paths are relative to
`src/internal/` (`chat.go` is `src/internal/server/chat.go`). `PROJECT.json` maps
every definition to the lines it stands for, lists the hazards and says which
property guards which.

## 1. The system

One Go process serves files and a chat to browsers of a LAN; a desktop window
(Windows) or an administration page (Linux) drives it; SQLite and two directories
(attachments, uploads) keep what must survive a restart.

| Component | State | Operations | Hard behaviour | What makes it correct |
|---|---|---|---|---|
| connection registry (`chatHub`, `chat.go`) | switches, `generation`, `peers` (connection id → handler), `active`, `idle`, `conversations` | switch, mode, disconnect, pause, resume, begin/register/unregister/end, shutdown, blacklist, eviction | handshakes in flight across a switch; a tab that reconnects before its old handler ended; shutdown after unlock | nobody online while closed, no handshake crosses a boundary, registry = running handlers, exact slots, everybody thrown out ends |
| server lifecycle (`server.go`, `web_access.go`) | `http`, run context, `handlerAccepting`, `handlerWG`, `accessVersion` | Start, Stop, ServeHTTP's gate and checks, SetAccess | requests of an earlier run; a password change between check and reservation; a pause that times out | a stop that returned left nothing running; whoever is online passed the password in force; Stop returns |
| locks (`s.mu`, `chatHub.mu`, `attachmentMu`, `lifecycleMu`) | holders and waiters | uploads, recalls, deletions, switches, stops | a lock held while a browser streams | no deadlock; every chain of waits ends at a browser |
| accounts and sessions (`auth.go`) | accounts, names, sessions, and their rows | register, login, logout, touch, status, password, delete, load | login copies, verifies for a second, writes back; saves after unlock; failed saves | the administrator's decisions stand, revoked sessions stay revoked, nobody in before approval, a restart changes nothing |
| user-created groups (`chat.go`, `chat_users.go`) | groups in memory, one `chat-groups` value | create, leave, dissolve, rename, add, remove; the administrator's three; load | every save is load + store outside the lock; shared member slices | memory = database when quiet, dissolved stays dissolved, owner and blacklist respected |
| messages, receipts, recall (`chat.go`, `chat_users.go`) | histories with byte counts, read and recall marks, rows | send, upload, deliver, read, recall, delete, clear, remove a visitor, evict, load | persisted before delivered; an upload in two critical sections around a stream; memory first and database after unlocking; a full table forgets a conversation whose rows stay | what is shown is what is stored, marks are never undone, caps hold |
| users, names, remarks (`chat_users.go`) | user records, remarks, two switches, rows | name, remark, blacklist, observe, clear, load | a record is copied under the lock and saved after it | the records a restart finds are those of the memory |
| attachment store (`database/database.go`) | message rows, index, hash records with counts, files | save, save again what WeChat delivers again, recall, delete, remove a conversation, clear | files and rows change in separate steps, a crash between any two; an id that is saved twice | every shown attachment opens, counts cover references, nothing left behind |
| SQL tables (`database/sqlkv.go`) | one `users` row fed by three buckets | account, profile and binding saved or deleted | copies of accounts and profiles saved after a deletion; a unique name | the row says what the buckets say |
| WeChat bridge (`server/clawbot.go`, `clawbot/client.go`) | binding, cursor, monitor | QR code, poll, bind, forward, reply, unbind, load | retries, a rebinding and a restart in mid-poll | no message skipped, a bound account is listened to |
| shares and uploads (`server/server.go`, `gui/`) | share list, its row, upload directory | add, rename, remove, upload, roll back, save | uploads that end together save the list at once; a roll-back that cannot remove a file | the saved list is the shown one, every uploaded file is listed |
| certificates (`gui/certificate.go`) | four files or one row | generate, stage, replace, roll back, migrate | a failure or a crash between two renames | old set or new set, the CA users trusted stays |
| settings (`gui/`, `server/admin.go`) | the program's copy, the row, what the running server was told | save, start, stop, post, load | a start works on a copy and may fail at four points; flags and environment against saved switches | program, server and row agree when quiet; the server listens where it is shown |
| administration page (`server/admin.go`) | – | calls into the parts above | the stages of removing a user | those of the parts |
| portal, archives, discovery, proxy header, drawing, Android client, build tools | – | I/O and formatting | – | – |

**Interactions.** `Server.ServeHTTP` counts a request into `handlerWG`, checks the
web password and the account session, and calls `handleChatWebSocket`, which
reserves a slot of `chatHub` under `s.mu` and so ties `accessVersion` to the
generation it gets. `Start`/`Stop` call the hub's `resume`/`pause`; `SetAccess`
and the account operations call `disconnect`/`disconnectIdentity` after they
unlocked their own state. Group, user and message handlers run on the `readPump`
of a connection, under `chatHub.mu`, and call the database after unlocking it,
but texts, receipts and recalls while holding it. Everything in the database goes
through one SQLite connection whose transactions are serial.

## 2. Modules

| Module | Models | Of the code |
|---|---|---|
| `ChatSessions` | abstract promise of the registry: admitted, online, boundary | the contract of `beginHandler`, `register`, `detachAllLocked` |
| `ChatHub` | the registry with handlers, sockets and shutdowns | `chatHub`, `chatPeer` |
| `ServerLifecycle` | extends `ChatHub` by the server around it | `Server.Start/Stop/ServeHTTP/SetAccess` |
| `LockOrder` | who holds which lock while waiting for which | uploads, recalls, deletions, switches, `Stop` |
| `ChatGroups` | groups in memory and database | group handlers, `SaveChatGroup`, `DeleteChatGroup`, loader |
| `Accounts` | accounts and sessions in memory and database | `auth.go` |
| `ChatMessages` | histories, receipts, recalls, uploads, rows | message handlers of `chat.go`, `chat_users.go`, loader |
| `ChatUsers` | user records, remarks, switches, rows | `chat_users.go`, user part of `database.go` |
| `AttachmentStore` | rows, index, hash records, files | attachment part of `database.go` |
| `BusinessTables` | accounts, profiles, bindings and their row | `sqlkv.go` |
| `ClawBot` | binding, monitor, service | `server/clawbot.go` |
| `Certificates` | files, staging, roll-back, row | `gui/certificate.go` |
| `Shares` | share list, row, upload directory | `server.go`, `gui/modern_windows.go`, `database.go` |
| `Settings` | copies, row, running server | `gui/`, `server/admin.go` |
| `Subsequences` | what a loop that keeps some items of a list returns, and rows in key order, without recursion | used by `ChatMessages`, `ClawBot`, `Shares` |
| `Parts` | the modules whose state does not meet, one after the other | – |
| `ServerLifecycleProofs` | theorems about `ChatHub` and, on top of them, `ServerLifecycle` | – |
| `AccountsProofs`, `ChatGroupsProofs`, `ChatMessagesProofs` | theorems about the module of that name | – |
| `SubsequencesProofs` | lemmas about `Subsequences` that the proofs below and `ChatMessagesProofs` cite | – |
| `StoreAndLocksProofs` | theorems about `AttachmentStore` and `LockOrder` | – |
| `UserDataProofs` | theorems about `BusinessTables`, `ChatUsers` and `ClawBot` | – |
| `AdministrationProofs` | theorems about `Settings`, `Certificates` and `Shares` | – |
| `MC…` | constant values, symmetry, and the state constraint of `Groups` | – |

How state and actions correspond to the code:

- **ChatHub.** A member of `Conns` is one WebSocket handler with its `chatPeer`:
  `phase` is where the handler goroutine stands, `sock` where its `writePump` is,
  `doomed` the peers somebody detached and has yet to call `shutdown` on. Every
  other action is one critical section of `chatHub.mu`. `register` is five actions,
  one per outcome: stale, blacklisted, full, rolled back because the ready frame
  could not be queued, registered. `pause` is split where it waits. A handler can
  be used again after it ended, which stands for the next request from the tab.
- **ServerLifecycle.** `req` holds where a request stands between the listener and
  the end of `ServeHTTP`, the run and access version it read and the credentials it
  carries. `Start` and `Stop` are split at every point where another goroutine may
  run; `lifecycle` stands for `lifecycleMu` and the place of its holder. `HubStep`
  lets the hub's own steps run in between; group mode, blacklisting and slow peers
  change nothing the server looks at and stay in `ChatHub`.
- **LockOrder.** Calls are of five kinds; each stands at a place (`Positions`) that
  says what it holds and waits for. A critical section that waits for nothing is one
  step. The browser of an upload and the handlers `Stop` waits for may take any time.
- **ChatGroups.** A handler is one critical section that changes `groups` and leaves
  a save in `pending`; the save is the two transactions of `SaveChatGroup`. `may` is
  the set of member lists the snapshot can show, because `removeIP` compacts the
  slice the snapshot shares. `overtaken` notes the groups an overlap may have spoilt: a
  handler changed the group while another one of it was not through, or a list was stored
  that had been loaded before a save of the group.
- **Accounts.** A request carries what it read from step to step, so a login really
  writes back its copy. `takenNames` is the unique column of the users table.
  `mode`, chosen initially, says how many calls overlap and which operations fail.
- **ChatMessages.** A text is persisted and shown in one step. An upload, a clearing, a
  deletion and the removal of a visitor are a first and a second step with anything in
  between. `undelivered` are messages no queue took, whose rows stay. The two-minute
  window of a recall and the flag that switches receipts off are choices; the
  recomputation of a byte count that is zero is left out, as no history has one.
  At `chatMaxConversations` a connection that registers, or a message or an upload of the
  legacy mode, evicts the conversation of somebody offline (`RoomFor`, `Evict`): it leaves
  memory with its counter and its rows stay. Which offline conversation is the oldest is a
  choice. A page request and the loader make entries without asking for room, so the table may
  be over its limit.
  `ClearChatHistory` leaves messages of user groups in memory, and the rows of a
  dissolved group stay, as the code has it.
- **ChatUsers.** `writes` are copies on their way to the disk. A user of whom two
  writes overlapped is `loose`, and nothing is promised of his row.
- **AttachmentStore.** A transaction is a step, a file operation is a step, `job` is
  what the holder of `attachmentMu` has yet to do. A path is a content and a place,
  since the file's name is derived from its hash and its day. `Crash` drops the job. Chat
  messages have random ids and are saved once (`Messages`, `Fresh`); what WeChat delivers has
  the id it had there (`Incoming`) and is saved again with every delivery: over its row, or,
  when the service gives no time, into a second one (`Rows` are the keys of `messageKey`).
  `saveStoredChatMessage` then counts once more and releases nothing; `overwritten` notes the
  contents this happened to. A delivery after the first is one of the `MaxMishaps`.
- **BusinessTables.** A save of one bucket is one transaction that writes bucket and
  row. `ClearChatUsers` keeps the records without a name of users that are connected,
  and saves them. Profiles that were copied earlier arrive at any time, and so do the accounts
  a registration or a login is about to save (`lateAccounts`), whether or not the account is
  still there. A registration whose save is refused takes the account back in memory
  (`RollBack`); the administration page can remove its user all the same (`DeleteUser`).
- **ClawBot.** One account: accounts share a lock and nothing else. The service is
  external; that every confirmed code gives a new token is assumed. Cursor, reply peer
  and context token survive a rebinding, as in the code. `unheard` is a binding whose
  monitor ended on an error: the status says "bound" all the same.
- **Certificates.** Files hold the number of the certificate made; each rename is a step
  and may fail. With a database every generation makes a new CA.
- **Shares.** `fallback` uploads are kept as files and entries; a save is read under the
  lock of the Windows program or, in the mutant, without one. A request that fails removes its
  files, all but those that cannot be removed, the half-written one included: they stay
  (`strays`). Both programs switch
  uploads off at present (`SetAccess(…, false, false, false)`), and the Windows window
  binds no call to `removeShares`: the module models the server's code all the same.
- **Settings.** A call carries its form from step to step. The window's calls are serial
  (one window thread); posts of the Linux program may meet, and nothing is promised once
  they did (`overlapped`), since their switches really mix. `fixed` are the switches that an
  environment variable of the Linux program sets (`docs/linux-nas.md:46`) and `given` the
  values of the flags: a start takes the row's switch, but for those, or while nothing was
  ever saved (`Flagged`). Such a switch can be changed until the next start, which takes it
  back; `Overridden` exempts it from `SettingsSurvive`.

## 3. Runs

| Run | Question | Bounds |
|---|---|---|
| `ChatHubReconnect` | registry against handlers, refinement of `ChatSessions`, what ends under fairness | 2 handlers of 1 tab, 2 boundaries |
| `ChatHubCrowd` | limits, two devices of a blacklisted account, eviction, failed saves | 3 handlers, 2 slots, 1 conversation, 2 accounts, 1 boundary |
| `Server` | two runs, two password changes, termination of Stop | 1 request, 2 starts, 2 changes, 5 boundaries |
| `Groups` | group handlers one after the other with failures; handlers that overlap; a crash | 1 group, 2 names, owner, member, administrator; or 2 groups, 2 users, 2 handlers at a time; 1 crash |
| `Accounts` | serial calls with failing saves; overlapping calls with failing deletes; a crash | 2 accounts, 2 names, 2 passwords, 2 sessions, 2 requests, 1 restart |
| `Messages` | every kind of conversation, uploads, clearing, eviction, a crash or a failed save | 2 users, a table of 1 conversation with the administrator, 1 group, 3 messages, histories of 2 messages or 1 unit of bytes, 2 calls between their steps, 1 mishap |
| `Parts` | attachments, users, locks, WeChat, certificates, tables, shares, settings, each alone | below |
| `ServerRevocation` | (violated) sessions revoked during a handshake | 1 request, 1 start |
| `GroupsDissolve` | (violated) a save beside a dissolution | 2 groups, 2 handlers at a time |
| `AccountsReset` | (violated) a login beside a password reset | 1 account, 2 calls at a time |
| `LockOrder` | (violated) the switch of the chat waits for an upload | 2 uploads, 2 recalls, 1 of each other kind |
| `TablesDeletion` | (violated) a copy saved after its account was deleted | 2 ids, 1 name |

What the passing runs show:

- `ChatHubReconnect`: `NoGhost`, `NoLostPeer` (the registry and the running handlers are the
  same), `DrainedIsQuiet`, `ImplementsSessions` (`ChatSessions` with the refinement mapping
  of `ChatHub`), `StoppedDrains` (after a pause every slot comes back).
- `ChatHubCrowd`: `NoneBlacklistedOnline` on any device, `ReservedHasPlace` (the limit of
  `beginHandler` is never contradicted by that of `register`), `EvictionSparesOnline`.
- `Server`: `StoppedIsQuiet`, `InsideThisRun`, `OnlineWithCurrentPassword`, `StopTerminates`.
- `Groups`: `RestartLosesNothing` and `DissolvedStaysGone` (only two kinds of overlap lose or bring
  back anything, `overtaken`; every other group and every other dissolution is stored as it is in
  memory), `OwnerLostOnlyWhenBarred`, `BlacklistedNeverJoins`.
- `Accounts`: `RestartChangesNothing`, `DecisionsStand`, `RevocationStands` and `NamesResolve`
  for serial calls, `NoSessionBeforeApproval` for overlapping ones too.
- `Messages`: `ShownAsStored` and `HiddenRowsExplained` (memory against rows, with the
  differences a clearing, a cap, an eviction or a full queue explains), `HistoryCounted` (caps and byte
  counts), `MarksStand` (a read or recalled message stays so over a restart).
- `Parts`: `AttachmentsOpen`, `CountsCover`, `NothingLeftBehind` (attachments); `UsersOnDisk`;
  `WaitsEndAtBrowser` (a call that waits for a lock waits, in the end, for a call that can move
  or for a browser); `NoMessageSkipped`, `BoundIsHeard` (WeChat); `CommitIsAtomic`,
  `TrustedCAIsKept` (certificates); `RowsFollowBuckets`; `SharesOnDisk`, `UploadsAreListed`;
  `SettingsSurvive`, `ListensWhereShown`.

**Bounds of `Parts`.** Its initial states choose the part whose turn it is (`part`); the state
of the parts does not meet, so their state spaces add up instead of multiplying. Attachments: 2
messages of the chat and 1 from WeChat with 2 times, 2 contents, 2 places, 2 mishaps, so that one
content is indexed under a path that today's date would not give it, one crash meets the remains
of another, and one delivery is repeated before or after a failure. Users: 2 users, 2
writes at once, 3 changes, 1 fault. Locks: 2 uploads, 2 recalls, 1 of each other kind. WeChat: 2
monitors (an old and a new binding), 2 codes, 1 waiting message, 1 send, 1 trouble. Certificates:
3 made, 3 mishaps (a failure, one in its roll-back, a crash). Tables: 2 ids that want 1 name, 3
saves. Shares: 2 uploaders that want 1 file name, 3 entries, 3 changes, 1 mishap. Settings: 2
calls, 2 addresses, 3 forms, 2 mishaps, either program, any environment and flags.

**Why the bounds suffice.** The races of the registry are between an old and a new handler of one
tab, or between one handler and one boundary: two handlers and boundaries enough to open, close
and (in `Server`) open again. The limits need one request more than there are slots and one
account more than there are conversations. A stale request needs two runs. A stale password needs
two changes, so that an old one is neither the first nor the last. A race of groups, accounts or
messages is between two calls, and a crash matters once, between two steps of one call.
Overlapping group handlers need two groups, because a save of one can bring back the other.
`Groups` explores the union of two regions (`SmallEnough`, a state constraint of its MC module): one
group and one handler at a time with the administrator, failing saves and both names
(`OneAtATime`), and two groups with overlapping handlers of the users (`DevicesOverlap`), where
nothing has failed, nobody is barred, the administrator, whose handlers have the shape of the
owner's, is idle and nothing is renamed. A conversation is evicted as soon as a second
user comes to a table of one; `Messages` starts with one of them connected; the other one was
removed from the list of users before and is still a member of the group. A history that is cut
needs one message more than it holds; `MaxDisturbed` caps how many messages of `ChatMessages` may
meet a call that works on them, `MaxUploads` how many are uploads. The proofs of section 5 need no
bound. `MaxGeneration`, `MaxRuns`, `MaxAccess`, `MaxPending`, `MaxCrashes`, `MaxRestarts` and all
`Max…Mishaps` bound counters of the model only: at `MaxGeneration` no administrator's switch
happens any more, everything else goes on (`StopTerminates` names that bound). `SavesFail`,
`Failures` and `Modes` switch failing database calls on.

**Deadlock** is checked in the runs of the registry, server, groups and accounts: a browser or an
administrator always has another step to take. `Messages`, `Parts`, `LockOrder`
and `TablesDeletion` say `CHECK_DEADLOCK FALSE`, because their calls are counted and may all be done;
what deadlock means for locks is stated there by `WaitsEndAtBrowser`.

**Fairness.** Liveness is checked in `ChatHubReconnect` and `Server` under weak fairness of what a
running process does on its own: a handler past its reservation, the goroutine that has peers to
shut down, a `writePump` that was asked to close (every write has a deadline), a `readPump` whose
connection was closed under it, the caller of `pause` (it has a timer), a request inside
`ServeHTTP` and the caller of `Stop`. No fairness makes a browser leave, a broadcast find a full
queue or an administrator act. `LockOrder` refutes its property under strong fairness of every
call's own steps (Go's mutexes hand the lock to a waiter that starves), again assuming nothing of
a browser: the counterexample is no unfair schedule.

**Symmetry** is used in `Groups`, `Accounts` and `Messages`, for ids, names, passwords, tokens and
users that are only compared for equality (`SmallEnough` only counts and compares them, too); no run with a liveness property uses it.

## 4. What the runs found

Five runs are meant to be violated; each refutes a sentence of the code's own comments or pages.

- `ServerRevocation`: `disconnectIdentity` cuts registered connections off and does not bump the
  generation; a handshake authenticated just before a password reset registers just after it and
  stays.
- `AccountsReset`: a login puts the account it copied before verifying the password back over the
  administrator's change, in memory and in the database. In the same way `createAccountSession`
  saves after unlocking, and a session revoked in between comes back with the next start.
- `GroupsDissolve`: a save loads the list of all groups and stores it in a second transaction, so
  a group dissolved in between comes back at the next start.
- `LockOrder`: a recall holds the hub's lock while it waits for `attachmentMu`, which an upload
  holds for as long as its browser streams; `SetChatEnabled`, promised not to block the window,
  waits for both.
- `TablesDeletion`: a profile, or the account itself by a login or a registration under way, that was
  copied before the deletion and is saved after it makes the row of the user again, with the name,
  and nothing removes it any more.

More facts are stated as the boundary of a property:

- an owner who was blacklisted, or whose record was removed, while his connection still runs takes
  himself out of his group by inviting somebody (`OwnerLostOnlyWhenBarred`: the only way);
- a blacklisting that cannot be saved leaves connections open that are no longer registered
  (`NoLostPeer` holds when `SavesFail` is FALSE);
- the error of `DeleteAccountSessions` is dropped, so `RevocationStands` needs deletes that work;
- with overlapping registrations `NamesResolve` is false: the roll-back deletes a name by its key;
- overlapping writes of one user may leave the older copy on the disk (`loose` in `UsersOnDisk`);
- without the lock of the Windows program `SharesOnDisk` is false; the Linux program has none;
- settings requests of the Linux program that meet mix their switches (`overlapped`);
- a switch that the environment of the Linux program sets is taken back by every restart, whatever
  was saved (`Overridden`), and private messages go with the user list;
- an upload that cannot be rolled back leaves its files without entries (`strays`);
- a save of a login that comes after the deletion of the account makes a row whose profile and
  binding columns are blank although those keys may still be there: `RowsFollowBuckets` says that a
  row lacks nothing until the deletion, and never shows what no bucket has;
- messages of an evicted conversation are on the disk and not shown until the next start;
- an attachment from WeChat is stored before the bridge asks whether it knows the message
  (clawbot.go:392, before 323), and its id is the one it has there: a second delivery counts once
  more for the same row (`saveStoredChatMessage`, database.go:507-550), and deleting the attachment
  then leaves its file and its count for ever (`overwritten` in `CountsCover`, `NothingLeftBehind`);
- a text refused because no queue took it stays stored (`undelivered`).

## 5. What is proved

Every theorem holds for all values of the constants that satisfy the named assumptions, which TLC
also evaluates in the runs. A safety property is proved from an inductive invariant, which is a
theorem of its own; `[][A]` properties follow from the invariant step by step. The theorems are
listed here with the property of section 3 they state, in parentheses where the name differs.

**`ServerLifecycleProofs`, the registry**, from `ConstantsAssumption` (types of the constants) and
`TabBelongsToOneIdentity` (the connection id is a hash of the account id with the tab's id):
`RegistryCorrect`, and from its invariant `TypeCorrect`, `OffMeansNobodyOnline`, `FenceHolds`,
`BlacklistHolds` (`NoneBlacklistedOnline`), `RegistryMatchesHandlers` (`NoGhost`),
`NoConnectionIsLost` (`NoLostPeer`); `SlotsCounted`; `DrainKeepsQuiet` (`DrainedIsQuiet`);
`SlotGivesPlace` (`ReservedHasPlace`); `EvictionSparesTheOnline` (`EvictionSparesOnline`);
`RegistryImplementsSessions` (`ImplementsSessions`).
*Argument.* The properties are inductive together with `GenerationBound` (no reservation and no
fence is ahead of the counter): registering needs `gen[c] = generation`, and `fence <= generation`
turns that into `OnlineSinceFence`. `NoGhost` says that a handler outside `reading`/`left` is not
registered, so steps in other phases leave `Online` alone (`OutsideRegistry`), and by
`TabBelongsToOneIdentity` detaching one identity takes out exactly its connections. Boundaries
empty the registry (`DetachAllStep`). `DrainedIsQuiet` is not inductive: `QuietInv` adds that a
pause implies `~accepting`, and the exact slot count turns `active = 0` into "no handler is left".
`ReservedHasPlace` compares two counts: by `NoGhost` every registered tab has a running handler
other than the one that registers, and the slots of the running handlers are counted exactly.
The refinement goes action by action: what `ChatSessions` calls admitted is a handler past its
reservation whose generation is current, so a boundary empties the set in one step, and the later
`shutdown` calls, sockets and slots are stutters.

**`ServerLifecycleProofs`, the server**, on top of it and from `BoundsAssumption`: `ServerCorrect`, and from it
`StoppedServerIsQuiet` (`StoppedIsQuiet`), `RunsDoNotMix` (`InsideThisRun`), `PasswordChangeCuts`
(`OnlineWithCurrentPassword`), and `ServerImplementsHub` (`ServerSpec => Spec`, so that every theorem
about the registry is one about the server's).
*Argument.* Every step of the server is a step of `ChatHub` or leaves it alone
(`ServerStepIsHubStep`), so the registry's invariants carry over. `RunInv` adds that a live context
means running, that `Stop` has cancelled it once it passed that point, and that a handler's request
is at `"chat"`: with an exact slot count a server without requests inside has no slot in use.
`AccessInv` adds the two places where an admission can be stale: a request that read the version
now in force has access, and so has a handler of the current generation unless `SetAccess` is
between its critical sections, which bumps the generation and leaves nobody online.

**`AccountsProofs`**: `AccountsCorrect`; `NoSessionEverBeforeApproval` (`NoSessionBeforeApproval`), for
any overlap of calls; and where calls are serial (`Orderly`, the condition the properties themselves
state) `RestartNeverChanges` (`RestartChangesNothing`), `DecisionsAlwaysStand` (`DecisionsStand`),
`RevocationAlwaysStands` (`RevocationStands`), `NamesAlwaysResolve` (`NamesResolve`).
*Argument.* `ApprovalInv` follows whatever can still become a session: the account in memory, the
one in the database, and the copy every request carries, which is active only if the administrator
once approved its id. `SerialInv` says that at most one call is at work, what it relies on at each of
its steps (`Relies`), and that rows differ from memory only for what it has changed and not saved
(`OnlyUnderWay`) or what a failed save left - the four properties are what remains of that when
nobody is at work.

**`ChatGroupsProofs`**: `OneOwnerEverywhere`, `BlacklistedNeverBecomesMember` (`BlacklistedNeverJoins`),
`OwnerStaysProtected` (`OwnerLostOnlyWhenBarred`), `OverlapsLoseNothingElse` (`RestartLosesNothing`),
`DissolutionsStand` (`DissolvedStaysGone`), all of them for any number of handlers that overlap, failures
and crashes. None assumes anything of `MaxPending`. What the last two exempt (`overtaken`) is what the
code does not prevent, as the violated run `GroupsDissolve` shows.
*Argument.* All handlers have one shape, `Changes` - a new group in memory, a save in `pending` - and
the proofs are about that shape, the two transactions of a save, and a crash. `OneOwner`: a group's
owner is fixed when it is created, and memory, rows and saves under way agree on it, although the
member list a save writes may be older. `OverlapInv` is about the groups that were not overtaken: at
most one handler is at work on such a group, and what it will save is what the memory has
(`OneHandler`); without one the row is that of the memory unless its save failed (`SavedOrBusy`); and
once dissolved it is in neither, with no handler at work (`DissolvedGone`). A save of another group
leaves its row alone, because otherwise the list it loaded is older (`Outdated`) and the group overtaken.

**`ChatMessagesProofs`**: `MessagesCorrect`, `MessagesTypeCorrect` (`MessagesTypeOK`),
`HistoryAlwaysCounted` (`HistoryCounted`), `AlwaysShownAsStored` (`ShownAsStored`),
`HiddenRowsAlwaysExplained` (`HiddenRowsExplained`), `MarksAlwaysStand` (`MarksStand`), for any caps,
clients and groups and any number of messages and calls.
*Argument.* `MessagesInv` has four parts. Per conversation, `GoodHistory`: its messages are sent ones of
that conversation, none twice, their weight is the byte counter and both caps hold; the lemmas at the
top of the module say what appending, cutting the excess (`ExcessIs`), taking one out (`WithoutDoes`),
recalling and sorting a set (`InOrderDoes`) do to that.
`UploadsApart`: an upload that is still streaming is in nobody's history and no other call's work, so
publishing it cannot show a message twice. `SweptIsGone`: what a deletion has swept has no row any
more, so that anything else that is shown still has one when a restart or a receipt looks for it.
`Hidden`: every row that is not shown has one of the explanations of `HiddenRowsExplained`, carried
from the first step of a call, which says what is at stake, to its second. An eviction empties
whole histories and resets their counters (`Forget`), and puts what it took into `cut`; it meets
neither uploads, which are in no history while they stream, nor marks. `MarksStand` is an action
property: it needs `ShownAsStored` before the step, since a restart takes its marks from the rows.

**`StoreAndLocksProofs`**. `AttachmentStore`: `StoreCorrect`, `AttachmentsAlwaysOpen`
(`AttachmentsOpen`), `CountsAlwaysCover` (`CountsCover`), `NothingEverLeftBehind`
(`NothingLeftBehind`). `LockOrder`, from `LocksAssumption` (a call is of one kind): `LocksTypeCorrect`,
`NoDeadlock` (`WaitsEndAtBrowser`).
*Argument.* `RowsAgree` ties the row of a chat message to its index entry, `RecordsHold` says that all
messages of a content share the one file of its record and that the count is not below their number,
nor above it unless a reference was overwritten by a second delivery or a clearing was cut short;
`JobHolds` what the holder of `attachmentMu` has done so far, and `DiskHolds` that while no file
operation failed the files are those the index knows of, those of overwritten contents and the one the
job is about. Saving an id again is one more case of each: the entry it replaces keeps its count, which
is why its content is then `overwritten` and its file no release ever removes. A release removes a file only at a count of one, and then
`RecordsHold` leaves no message but the released one. The locks are taken in one order, so a call that
waits can be followed to one that holds a lock and either moves (`OneMoves`) or waits for a browser.

**`UserDataProofs`**. `BusinessTables`, from `TablesAssumption`: `TablesCorrect`, `RowsRightAlways`
(`RowsFollowBuckets`). `ChatUsers`: `UsersCorrect`, `UsersTypeCorrect` (`UsersTypeOK`), `UsersAlwaysOnDisk`
(`UsersOnDisk`). `ClawBot`, from `ClawAssumption`: `BridgeCorrect`, `BoundAlwaysHeard`
(`BoundIsHeard`), `BridgeShows`, `NothingSkipped` (`NoMessageSkipped`).
*Argument.* Tables: every transaction moves its bucket and the row together (`RowChanges`), and takes a
name only where no other row has it; nothing is saved of an id before its account was made
(`NothingTooEarly`). A copy of an account that comes after the deletion can make a row with blank
columns, so that a row lacks nothing only while the account's stage says that it was not deleted. Users: a
write under way carries what memory has now, or its user is `loose`; so the row, or the one write that
is still to come, is that of the memory. WeChat: a `startMonitor` call still to come or the monitor the
cancel map holds is live whenever the binding is bound; the exceptions (`unheard`, `astray`) are set by
exactly the steps that break it. `ShownInv` follows the messages: what the cursor of a binding stands
for is in it, unless the history is full (`Whole`); and a monitor that has asked for the binding's own
bot has a cursor whose messages are in the binding or among the news it holds (`Listens`). Other steps
may append to the binding, or fill it and cut it, meanwhile, but never take anything out of one that
is not full (`Grows`); and a rebinding never makes an old monitor's bot the binding's again, because a
token is nobody's until its code is confirmed (`Tokens`). A reply is distinct from the ones
before it by its number (`NextReply`); the model sends one at a time.

**`AdministrationProofs`**. `Settings`, from `SettingsAssumption`: `SettingsCorrect`, `ListensRight`
(`ListensWhereShown`), `RestartKeepsSettings` (`SettingsSurvive`). `Certificates`:
`CertificatesCorrect`, `TrustedCAAlwaysKept` (`TrustedCAIsKept`), `CommitAlwaysAtomic`
(`CommitIsAtomic`). `Shares`, from `SharesAssumption`: `SharesCorrect`, `SharesAlwaysOnDisk` (`SharesOnDisk`), `UploadsAlwaysListed`
(`UploadsAreListed`).
*Argument.* Settings: `InStep` says, for each step of a call, how far the copy, the server and the row
agree; `OneAtATime` that unless calls overlapped one of them is at work; `Kept` and `Shown` that this is
full agreement when all is quiet. Agreement of the server with the row means what a start makes of the
row (`StartSwitches`), for the switches the environment does not override. Certificates: `JobsFit` and `PlanFits` say which renames a job has still
to make, `Progress` which of the four files hold the old set and which the new one at that point, so
that putting back the moved ones gives the old set again; `CAHeld` that the trusted CA is in its place or
in the name it was moved to. Shares: somebody who changed the list has yet to save it (`SavesInv`), and
the lock makes his copy the newest, so that the last save is of the last change. `OwnersInv` gives every file in the upload directory that
is not a stray (left by a crash, a removal or a roll-back that could not remove it) one owner: an entry of the list or a request that has stored it; two
requests that picked one free name do not both store it (`O_EXCL`), so a roll-back removes only the
files of its own request. The entry a removal has in hand keeps its index, as uploads append. A restart
takes what the row and the directory still have in common, in the row's order (`EntriesAt`).

**`SubsequencesProofs`**: `InOrderDoes` (a finite set of numbers as a sequence without repetitions, each
at the place its rank gives it) and `EntriesAtDoes` (what the places have, and nothing else, once each
if the sequence had it once). The definitions say by a cardinality what a loop does step by step,
because what a recursive definition computes cannot be proved here.

**Only model-checked.** Liveness (`StoppedDrains`, `StopTerminates`): fairness and ENABLED are outside the
prover's reach. Every invariant and every other action property of the passing runs is a theorem. The
properties of the violated runs are false; of `DissolvedForGood` the theorem `DissolutionsStand` says
when it holds.

## 6. Not modelled, and why

- Frames and their JSON, pages and scripts, archives, listings, searches, avatars, the schema
  migration, access records, the proxy header, discovery: I/O and formatting without state of
  their own.
- Windows, drawing, tray, clipboards, the client programs, the Android client, the icon
  converter: platform calls. Of the desktop programs only the manager's calls with state are
  modelled (`Shares`, `Settings`, `Certificates`).
- Rate limits, the attempt limit of the login, the slots of the key derivation: counters over time
  windows, one lock each; the chat's are covered by unit tests.
- Media and encryption of the WeChat bridge; host names and expiry of certificates; expiry of
  sessions by age is only the step that drops a session.
- Forwarding of a stored attachment, folder uploads.

## 7. Plan

1. Proofs: a store of messages with contents as the abstract specification of `AttachmentStore`, which
   implements it between mishaps; the same for the row and the list of `Shares`.
2. Models: forwarding of attachments as an upload without a stream; the rate limits with
   their shared window.
