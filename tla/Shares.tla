------------------------------- MODULE Shares -------------------------------
(***************************************************************************)
(* Shared files: the list the portal shows, its row in the database, and   *)
(* the upload directory, whose files browsers put into the list. Uploads   *)
(* run beside the window, which adds, renames and removes entries one      *)
(* after the other; whoever has changed the list saves it.                 *)
(***************************************************************************)
EXTENDS Naturals, Sequences, FiniteSets, SequencesExt, Subsequences

CONSTANTS
  Uploaders,       \* upload requests under way at once
  FileNames,       \* names of the files that are uploaded and shared
  Window,          \* the thread of the window
  NotSaving,
  MaxEntries,      \* bound of the model: entries in the list
  MaxShareOps,     \* bound of the model: changes asked for
  MaxShareMishaps  \* bound of the model: failing operations and crashes

ASSUME SharesAssumption ==
  {MaxEntries, MaxShareOps, MaxShareMishaps} \subseteq Nat /\ Window \notin Uploaders

VARIABLES
  shares,          \* the list
  sharesRow,       \* the list in the database
  uploadDir,       \* files in the upload directory
  phase,           \* how far each request is, and the window
  queued, stored,  \* what a request has still to write, and has written
  target,          \* the file a request creates next, the entry the window removes
  copyToSave,      \* the list that a saver, holding sharesSaveMu, has read
  notifier,        \* the share change notifier is installed
  unsaved,         \* the last save failed
  strays,          \* files without an entry, or with two, left by a crash, a removal
                   \* or a roll-back
  shareOps, shareMishaps

requestVars == <<queued, stored>>
sharesVars == <<shares, sharesRow, uploadDir, phase, requestVars, target, copyToSave, notifier,
                unsaved, strays, shareOps, shareMishaps>>

Savers == Uploaders \cup {Window}

\* "name", "name (2)", ... in the upload directory; the window shares files
\* of the same names from elsewhere (managed is ManagedTemporary).
Leaf(name, n) == <<name, n>>
Entry(leaf, managed, label) == [leaf |-> leaf, managed |-> managed, label |-> label]

\* The first number that is free after so many free ones.
FreeAfter(count, used, atMost) ==
  CHOOSE n \in 1 .. atMost + count + 1 :
    n \notin used /\ Cardinality((1 .. n - 1) \ used) = count

\* uniquePath
UniqueLeaf(name) ==
  LET used == {f[2] : f \in {g \in uploadDir : g[1] = name}}
  IN  Leaf(name, FreeAfter(0, used, Cardinality(uploadDir)))

\* The names in the list are numbered when they are used there: those that
\* come together see each other.
Labelled(leaves, j, managed) ==
  LET leaf    == leaves[j]
      used    == {shares[i].label[2] : i \in {k \in DOMAIN shares : shares[k].label[1] = leaf}}
      earlier == Cardinality({i \in 1 .. j - 1 : leaves[i] = leaf})
  IN  Entry(leaf, managed, <<leaf, FreeAfter(earlier, used, Len(shares))>>)

AddMany(leaves, managed) == shares \o [j \in DOMAIN leaves |-> Labelled(leaves, j, managed)]

SharesInit ==
  /\ shares = <<>> /\ sharesRow = <<>> /\ uploadDir = {}
  /\ phase = [p \in Savers |-> "idle"]
  /\ queued = [u \in Uploaders |-> <<>>] /\ stored = [u \in Uploaders |-> <<>>]
  /\ target = [p \in Savers |-> <<>>]
  /\ copyToSave = [p \in Savers |-> NotSaving]
  /\ notifier = TRUE /\ unsaved = FALSE /\ strays = {}
  /\ shareOps = 0 /\ shareMishaps = 0

ShareOp == shareOps < MaxShareOps /\ shareOps' = shareOps + 1 /\ UNCHANGED shareMishaps
ShareMishap == shareMishaps < MaxShareMishaps /\ shareMishaps' = shareMishaps + 1 /\ UNCHANGED shareOps
NoBound == UNCHANGED <<shareOps, shareMishaps>>

Enter(p, next) == phase' = [phase EXCEPT ![p] = next]
NotSaves == UNCHANGED <<sharesRow, copyToSave, unsaved>>

\* Entries that are there or will be.
Expected == Len(shares) + Cardinality(UNION {{u} \X DOMAIN (queued[u] \o stored[u]) : u \in Uploaders})

-----------------------------------------------------------------------------
(* Uploads: handleFallbackUpload and saveUploadedFiles. *)

UploadBegins(u, names) ==
  /\ ShareOp
  /\ phase[u] = "idle" /\ (notifier \/ phase[Window] = "stopped")
  /\ Expected + Len(names) <= MaxEntries
  /\ Enter(u, "writing")
  /\ queued' = [queued EXCEPT ![u] = names] /\ stored' = [stored EXCEPT ![u] = <<>>]
  /\ NotSaves /\ UNCHANGED <<shares, uploadDir, target, notifier, strays>>

\* uniquePath finds a name that is free ...
PicksTarget(u) ==
  /\ phase[u] = "writing" /\ queued[u] # <<>>
  /\ target' = [target EXCEPT ![u] = UniqueLeaf(Head(queued[u]))]
  /\ Enter(u, "creating")
  /\ NoBound /\ NotSaves /\ UNCHANGED <<shares, uploadDir, requestVars, notifier, strays>>

\* ... and O_EXCL makes sure that it is.
StoresFile(u) ==
  /\ phase[u] = "creating" /\ target[u] \notin uploadDir
  /\ uploadDir' = uploadDir \cup {target[u]}
  /\ stored' = [stored EXCEPT ![u] = Append(@, target[u])]
  /\ queued' = [queued EXCEPT ![u] = Tail(@)]
  /\ target' = [target EXCEPT ![u] = <<>>]
  /\ Enter(u, "writing")
  /\ NoBound /\ NotSaves /\ UNCHANGED <<shares, notifier, strays>>

UploadFails_KeepsEarlierFiles(u) ==
  /\ \/ phase[u] = "creating" /\ target[u] \in uploadDir /\ NoBound
     \/ phase[u] \in {"writing", "creating"} /\ ShareMishap
  /\ queued' = [queued EXCEPT ![u] = <<>>] /\ stored' = [stored EXCEPT ![u] = <<>>]
  /\ target' = [target EXCEPT ![u] = <<>>]
  /\ Enter(u, "idle")
  /\ NotSaves /\ UNCHANGED <<shares, uploadDir, notifier, strays>>

\* A file that was created and not written to its end.
HalfWritten(u) == IF phase[u] = "creating" THEN {target[u]} \ uploadDir ELSE {}

\* Somebody else took the name, or a file could not be read or written, or not
\* be put into the list: the files of the request go. Those that cannot be
\* removed stay, and nobody is told.
UploadFails(u) ==
  \E left \in SUBSET ((Range(stored[u]) \cap uploadDir) \cup HalfWritten(u)) :
    /\ \/ phase[u] = "creating" /\ target[u] \in uploadDir /\ left = {} /\ NoBound
       \/ phase[u] \in {"writing", "creating"} /\ ShareMishap
    /\ uploadDir' = (uploadDir \ Range(stored[u])) \cup left
    /\ strays' = strays \cup left
    /\ queued' = [queued EXCEPT ![u] = <<>>] /\ stored' = [stored EXCEPT ![u] = <<>>]
    /\ target' = [target EXCEPT ![u] = <<>>]
    /\ Enter(u, "idle")
    /\ NotSaves /\ UNCHANGED <<shares, notifier>>

UploadListed(u) ==
  /\ phase[u] = "writing" /\ queued[u] = <<>>
  /\ shares' = AddMany(stored[u], TRUE)
  /\ stored' = [stored EXCEPT ![u] = <<>>]
  /\ Enter(u, "listed")
  /\ NoBound /\ NotSaves /\ UNCHANGED <<uploadDir, queued, target, notifier, strays>>

UploadNotifies(u) ==
  /\ phase[u] = "listed"
  /\ Enter(u, IF notifier THEN "saving" ELSE "idle")
  /\ NoBound /\ NotSaves /\ UNCHANGED <<shares, uploadDir, requestVars, target, notifier, strays>>

-----------------------------------------------------------------------------
(* saveShares, of the notifier and of the window. *)

SaveReads_WithoutLock(p) ==
  /\ phase[p] = "saving" /\ copyToSave[p] = NotSaving
  /\ copyToSave' = [copyToSave EXCEPT ![p] = shares]
  /\ NoBound
  /\ UNCHANGED <<shares, sharesRow, uploadDir, phase, requestVars, target, notifier, unsaved, strays>>

SaveReads(p) ==
  /\ phase[p] = "saving"
  /\ \A q \in Savers : copyToSave[q] = NotSaving
  /\ copyToSave' = [copyToSave EXCEPT ![p] = shares]
  /\ NoBound
  /\ UNCHANGED <<shares, sharesRow, uploadDir, phase, requestVars, target, notifier, unsaved, strays>>

SaveWrites(p) ==
  /\ copyToSave[p] # NotSaving
  /\ copyToSave' = [copyToSave EXCEPT ![p] = NotSaving]
  /\ \/ sharesRow' = copyToSave[p] /\ unsaved' = FALSE /\ NoBound
     \/ unsaved' = TRUE /\ ShareMishap /\ UNCHANGED sharesRow
  /\ Enter(p, IF p = Window /\ ~notifier THEN "exited" ELSE "idle")
  /\ UNCHANGED <<shares, uploadDir, requestVars, target, notifier, strays>>

-----------------------------------------------------------------------------
(* The window. *)

AddPaths(leaf) ==
  /\ ShareOp
  /\ phase[Window] = "idle" /\ Expected < MaxEntries
  /\ shares' = AddMany(<<leaf>>, FALSE)
  /\ Enter(Window, "saving")
  /\ NotSaves /\ UNCHANGED <<uploadDir, requestVars, target, notifier, strays>>

RenameShare(i, label) ==
  /\ ShareOp
  /\ phase[Window] = "idle"
  /\ \A k \in DOMAIN shares : k # i => shares[k].label # label
  /\ shares' = [shares EXCEPT ![i].label = label]
  /\ Enter(Window, "saving")
  /\ NotSaves /\ UNCHANGED <<uploadDir, requestVars, target, notifier, strays>>

\* removeShares takes the entry by its index: first away with the file, if
\* the list owns it and the user asks for that ...
RemoveShares(i, deleteTemporary) ==
  LET entry == shares[i] IN
  /\ ShareOp
  /\ phase[Window] = "idle"
  /\ target' = [target EXCEPT ![Window] = <<i>>]
  /\ IF entry.managed /\ deleteTemporary
       THEN uploadDir' = uploadDir \ {entry.leaf} /\ UNCHANGED strays
       ELSE /\ strays' = IF entry.managed THEN strays \cup {entry.leaf} ELSE strays
            /\ UNCHANGED uploadDir
  /\ Enter(Window, "unlisting")
  /\ NotSaves /\ UNCHANGED <<shares, requestVars, notifier>>

\* ... then the entry, from a list that uploads may have lengthened.
RemoveMany ==
  /\ phase[Window] = "unlisting"
  /\ shares' = RemoveAt(shares, target[Window][1])
  /\ target' = [target EXCEPT ![Window] = <<>>]
  /\ Enter(Window, "saving")
  /\ NoBound /\ NotSaves /\ UNCHANGED <<uploadDir, requestVars, notifier, strays>>

\* cleanup: no notifier, then Stop, then a last save.
CleanupBegins ==
  /\ ShareOp
  /\ phase[Window] = "idle" /\ notifier
  /\ notifier' = FALSE
  /\ Enter(Window, "stopped")
  /\ NotSaves /\ UNCHANGED <<shares, uploadDir, requestVars, target, strays>>

\* Stop waits for every request that has passed the gate.
CleanupSaves ==
  /\ phase[Window] = "stopped" /\ \A u \in Uploaders : phase[u] = "idle"
  /\ Enter(Window, "saving")
  /\ NoBound /\ NotSaves /\ UNCHANGED <<shares, uploadDir, requestVars, target, notifier, strays>>

Exists(entry) == entry.managed => entry.leaf \in uploadDir

\* The next start, after an exit or a crash: ReplaceShares takes what still
\* exists from the row.
SharesRestart ==
  /\ IF phase[Window] = "exited" THEN NoBound ELSE ShareMishap
  /\ shares' = EntriesAt(sharesRow, {i \in DOMAIN sharesRow : Exists(sharesRow[i])})
  /\ phase' = [p \in Savers |-> "idle"]
  /\ queued' = [u \in Uploaders |-> <<>>] /\ stored' = [u \in Uploaders |-> <<>>]
  /\ target' = [p \in Savers |-> <<>>]
  /\ copyToSave' = [p \in Savers |-> NotSaving]
  /\ notifier' = TRUE
  /\ LET Owners(f) == {i \in DOMAIN shares' : shares'[i].managed /\ shares'[i].leaf = f}
     IN  strays' = {f \in uploadDir : Cardinality(Owners(f)) # 1}
  /\ unsaved' = (shares' # sharesRow)
  /\ UNCHANGED <<sharesRow, uploadDir>>

-----------------------------------------------------------------------------
RequestStep(u) ==
  \/ \E names \in {<<f>> : f \in FileNames} \cup {<<f, g>> : f, g \in FileNames} : UploadBegins(u, names)
  \/ PicksTarget(u) \/ StoresFile(u) \/ UploadFails(u) \/ UploadListed(u) \/ UploadNotifies(u)

WindowStep ==
  \/ \E f \in FileNames : AddPaths(Leaf(f, 1))
  \/ \E i \in DOMAIN shares :
       \/ \E k \in DOMAIN shares, n \in 1 .. 2 : RenameShare(i, <<shares[k].leaf, n>>)
       \/ \E deleteTemporary \in BOOLEAN : RemoveShares(i, deleteTemporary)
  \/ RemoveMany \/ CleanupBegins \/ CleanupSaves

SharesNext ==
  \/ \E u \in Uploaders : RequestStep(u)
  \/ \E p \in Savers : SaveReads(p) \/ SaveWrites(p)
  \/ WindowStep
  \/ SharesRestart

SharesSpec == SharesInit /\ [][SharesNext]_sharesVars

-----------------------------------------------------------------------------
(* Properties. *)

\* Nobody has a change of the list to save.
SavesDone ==
  /\ \A u \in Uploaders : phase[u] \notin {"listed", "saving"}
  /\ phase[Window] \in {"idle", "exited"}

\* When every save is through, the row is the list: of uploads and changes in
\* the window that end at the same time, none is missing from it, nor of those
\* during a clean exit - unless the last save failed.
SharesOnDisk == SavesDone /\ ~unsaved => sharesRow = shares

\* The upload directory holds what the list owns: an upload adds all its files
\* or none, no entry loses its file to another one, and what the window
\* removes it removes from both. A crash may leave files without an entry, or
\* with two, the roll-back of an upload those that it cannot remove, and an
\* entry may be removed without its file.
UploadsAreListed ==
  /\ \A i \in DOMAIN shares :
       shares[i].managed =>
         \/ shares[i].leaf \in uploadDir \cup strays
         \/ phase[Window] = "unlisting" /\ target[Window] = <<i>>
  /\ \A f \in uploadDir :
       \/ \E i \in DOMAIN shares : shares[i].managed /\ shares[i].leaf = f
       \/ \E u \in Uploaders : f \in Range(stored[u])
       \/ f \in strays
=============================================================================
