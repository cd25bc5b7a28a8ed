--------------------------- MODULE AttachmentStore ---------------------------
(***************************************************************************)
(* Chat messages and their attachments in the database                     *)
(* (src/internal/database/database.go): the messages bucket, the           *)
(* attachment index, the content hash records with their reference counts, *)
(* and the files under chat_files.                                         *)
(*                                                                         *)
(* A transaction is one step; the file operations around it are steps of   *)
(* their own, all of them done by the holder of attachmentMu (job).  The   *)
(* process may die between any two of them and nothing repairs the store   *)
(* when it starts again.  A file keeps the content it was written with, so *)
(* a path is a content together with the directory and extension that the  *)
(* date and the name of its first message gave it.                         *)
(*                                                                         *)
(* A chat message has a random id and is saved once.  What arrives from    *)
(* WeChat has the id it had there (src/internal/server/clawbot.go): when   *)
(* it is delivered again it is saved again, over its row or, without a     *)
(* time of its own, into another one.  Nothing else is done to it than     *)
(* deleting it on the archive page.                                        *)
(*                                                                         *)
(* Left out: the text of messages, the mirror tables for SQL readers,      *)
(* temporary upload files a crash leaves behind.                           *)
(***************************************************************************)
EXTENDS Integers, FiniteSets

CONSTANTS
    Messages,        \* ids of chat messages, each used once
    Incoming,        \* ids of attachments from WeChat
    Times,           \* the times under which those are stored
    Conversations,
    ConversationOf,
    Contents,        \* SHA-256 of a content
    Places,          \* date directory and extension
    None,            \* no row, no record
    Plain,           \* a message row without an attachment path
    MaxMishaps       \* bound of the model on crashes, failed operations, second deliveries

Paths == Contents \X Places

\* messageKey: a row is found under its conversation, time and id.
Rows == Messages \cup (Incoming \X Times)
MessageIds == Messages \cup Incoming
IdOf(row) == IF row \in Messages THEN row ELSE row[1]

ASSUME StoreAssumption ==
    /\ IsFiniteSet(MessageIds)
    /\ Messages \cap (Incoming \cup (Incoming \X Times)) = {}
    /\ ConversationOf \in [Messages -> Conversations]
    /\ None \notin Paths \cup {Plain}
    /\ Plain \notin Paths
    /\ None \notin [path : Paths, refs : Nat]
    /\ MaxMishaps \in Nat

VARIABLES
    messages,     \* chat-messages: the attachment path of a row
    index,        \* attachments: the attachment path of an id
    hashes,       \* attachment-hashes: the record of a content
    files,        \* what is on the disk
    job,          \* what the holder of attachmentMu has yet to do
    overwritten,  \* history: contents whose reference was overwritten, not released
    torn,         \* history: a ClearChatMessages did not come to its end
    littered,     \* history: a file operation failed or was cut off
    mishaps       \* mishaps so far

storeVars == <<messages, index, hashes, files, job, overwritten, torn, littered, mishaps>>

Content(path) == path[1]

Mishap == mishaps < MaxMishaps /\ mishaps' = mishaps + 1

Idle == [step |-> "idle"]

Jobs ==
    {Idle}
    \cup [step : {"save"}, row : Rows, path : Paths, created : BOOLEAN]
    \cup [step : {"remove"}, paths : SUBSET Paths]
    \cup [step : {"clearIndex", "clearHashes", "clearFiles"}]

StoreTypeOK ==
    /\ messages \in [Rows -> Paths \cup {Plain, None}]
    /\ index \in [MessageIds -> Paths \cup {None}]
    /\ hashes \in [Contents -> [path : Paths, refs : Nat] \cup {None}]
    /\ files \subseteq Paths
    /\ job \in Jobs
    /\ overwritten \subseteq Contents
    /\ torn \in BOOLEAN
    /\ littered \in BOOLEAN
    /\ mishaps \in 0 .. MaxMishaps

StoreInit ==
    /\ messages = [row \in Rows |-> None]
    /\ index = [i \in MessageIds |-> None]
    /\ hashes = [c \in Contents |-> None]
    /\ files = {}
    /\ job = Idle
    /\ overwritten = {}
    /\ torn = FALSE
    /\ littered = FALSE
    /\ mishaps = 0

-----------------------------------------------------------------------------
(* Saving.                                                                 *)

Fresh(m) == messages[m] = None /\ index[m] = None

\* A message without an attachment needs no attachmentMu.
SaveChatMessage(m) ==
    /\ Fresh(m)
    /\ job.step = "save" => job.row # m
    /\ messages' = [messages EXCEPT ![m] = Plain]
    /\ UNCHANGED <<index, hashes, files, job, overwritten, torn, littered, mishaps>>

RowsWith(i) == {row \in Rows : IdOf(row) = i /\ messages[row] # None}

\* cacheIncomingMedia stores before it is known whether the message is new.
Arrives(row) ==
    IF row \in Messages THEN Fresh(row) /\ UNCHANGED mishaps
    ELSE IF index[IdOf(row)] = None /\ RowsWith(IdOf(row)) = {} THEN UNCHANGED mishaps
    ELSE Mishap

\* Where the content goes: to the file its record names, else to today's;
\* also when the recorded file is gone and cannot be made again.
PathsFor(c, place) ==
    LET today == <<c, place>>
    IN  IF hashes[c] = None THEN {today}
        ELSE {hashes[c].path} \cup (IF hashes[c].path \in files THEN {} ELSE {today})

WriteAttachmentStream(row, c, place) ==
    \E path \in PathsFor(c, place) :
        /\ job = Idle
        /\ Arrives(row)
        /\ files' = files \cup {path}
        /\ job' = [step |-> "save", row |-> row, path |-> path, created |-> path \notin files]
        /\ UNCHANGED <<messages, index, hashes, overwritten, torn, littered>>

Counted_Once(path) ==
    [hashes EXCEPT ![Content(path)] = IF @ = None THEN [path |-> path, refs |-> 1] ELSE @]

Counted(path) ==
    LET record == hashes[Content(path)]
    IN  [hashes EXCEPT ![Content(path)] =
            IF record = None THEN [path |-> path, refs |-> 1]
            ELSE [record EXCEPT !.refs = @ + 1]]

\* saveStoredChatMessage releases nothing of what it replaces.
SaveStoredChatMessage ==
    LET id == IdOf(job.row)
    IN  /\ job.step = "save"
        /\ messages' = [messages EXCEPT ![job.row] = job.path]
        /\ index' = [index EXCEPT ![id] = job.path]
        /\ hashes' = Counted(job.path)
        /\ overwritten' = overwritten \cup (IF index[id] = None THEN {} ELSE {Content(index[id])})
        /\ job' = Idle
        /\ UNCHANGED <<files, torn, littered, mishaps>>

UndoWrite_AlwaysRemoves == files \ {job.path}

\* Only a file this save has created is taken back.
UndoWrite == IF job.created THEN files \ {job.path} ELSE files

SaveStoredChatMessageFails ==
    /\ Mishap
    /\ job.step = "save"
    /\ files' = UndoWrite
    /\ job' = Idle
    /\ UNCHANGED <<messages, index, hashes, overwritten, torn, littered>>

-----------------------------------------------------------------------------
(* Releasing.                                                              *)

\* The messages among gone, given with their paths, that count for content c.
RowsOf(gone, path, c) == {m \in gone : path[m] \in Paths /\ Content(path[m]) = c}

Released_LastKept(gone, path) ==
    [c \in Contents |->
        LET n == Cardinality(RowsOf(gone, path, c))
        IN  IF hashes[c] = None \/ hashes[c].refs < n THEN None
            ELSE [hashes[c] EXCEPT !.refs = @ - n]]

\* releaseAttachmentReference for each row in turn: a record counts down and
\* goes with its last reference.
Released(gone, path) ==
    [c \in Contents |->
        LET n == Cardinality(RowsOf(gone, path, c))
        IN  IF hashes[c] = None \/ n = 0 THEN hashes[c]
            ELSE IF hashes[c].refs > n THEN [hashes[c] EXCEPT !.refs = @ - n]
            ELSE None]

\* The files nothing refers to any more: that of a record that goes, and
\* that of a message without a record to which no other one in the index points.
Unreferenced(gone, path) ==
    {hashes[c].path : c \in {d \in Contents : hashes[d] # None /\ Released(gone, path)[d] = None}}
    \cup {path[m] : m \in {k \in gone :
            /\ path[k] \in Paths
            /\ \/ hashes[Content(path[k])] = None
               \/ hashes[Content(path[k])].refs < Cardinality(RowsOf(gone, path, Content(path[k])))
            /\ \A other \in MessageIds \ gone : index[other] # path[k]}}

ReleaseAndRemove(gone, path) ==
    /\ hashes' = Released(gone, path)
    /\ LET paths == Unreferenced(gone, path)
       IN  job' = IF paths = {} THEN Idle ELSE [step |-> "remove", paths |-> paths]

Without(rows, gone) == [m \in DOMAIN rows |-> IF m \in gone THEN None ELSE rows[m]]

\* DeleteChatMessage finds the attachment in the index, and takes the first
\* row it meets.
DeleteChatMessage(i) ==
    /\ job = Idle
    /\ index[i] # None \/ RowsWith(i) # {}
    /\ ReleaseAndRemove({i}, index)
    /\ \/ RowsWith(i) = {} /\ UNCHANGED messages
       \/ \E row \in RowsWith(i) : messages' = Without(messages, {row})
    /\ index' = Without(index, {i})
    /\ UNCHANGED <<files, overwritten, torn, littered, mishaps>>

\* RecallChatMessage finds it in the message row, which stays.
RecallChatMessage(m) ==
    /\ job = Idle
    /\ messages[m] # None
    /\ ReleaseAndRemove({m}, messages)
    /\ messages' = [messages EXCEPT ![m] = Plain]
    /\ index' = Without(index, {m})
    /\ UNCHANGED <<files, overwritten, torn, littered, mishaps>>

DeleteChatConversation(v) ==
    LET gone     == {m \in Messages : ConversationOf[m] = v /\ messages[m] # None}
        attached == {m \in gone : messages[m] # Plain}
    IN  /\ job = Idle
        /\ gone # {}
        /\ ReleaseAndRemove(attached, messages)
        /\ messages' = Without(messages, gone)
        /\ index' = Without(index, attached)
        /\ UNCHANGED <<files, overwritten, torn, littered, mishaps>>

StillToRemove(p) == IF job.paths = {p} THEN Idle ELSE [job EXCEPT !.paths = @ \ {p}]

RemoveFile(p) ==
    /\ job.step = "remove"
    /\ p \in job.paths
    /\ files' = files \ {p}
    /\ job' = StillToRemove(p)
    /\ UNCHANGED <<messages, index, hashes, overwritten, torn, littered, mishaps>>

\* The error of os.Remove is ignored.
RemoveFileFails(p) ==
    /\ Mishap
    /\ job.step = "remove"
    /\ p \in job.paths
    /\ littered' = TRUE
    /\ job' = StillToRemove(p)
    /\ UNCHANGED <<messages, index, hashes, files, overwritten, torn>>

-----------------------------------------------------------------------------
(* ClearChatMessages: three transactions, then the directory.              *)

ClearMessages ==
    /\ job = Idle
    /\ messages' = [row \in Rows |-> None]
    /\ job' = [step |-> "clearIndex"]
    /\ UNCHANGED <<index, hashes, files, overwritten, torn, littered, mishaps>>

ClearIndex ==
    /\ job.step = "clearIndex"
    /\ index' = [i \in MessageIds |-> None]
    /\ job' = [step |-> "clearHashes"]
    /\ UNCHANGED <<messages, hashes, files, overwritten, torn, littered, mishaps>>

ClearHashes ==
    /\ job.step = "clearHashes"
    /\ hashes' = [c \in Contents |-> None]
    /\ overwritten' = {}
    /\ job' = [step |-> "clearFiles"]
    /\ UNCHANGED <<messages, index, files, torn, littered, mishaps>>

ClearFiles ==
    /\ job.step = "clearFiles"
    /\ files' = {}
    /\ job' = Idle
    /\ UNCHANGED <<messages, index, hashes, overwritten, torn, littered, mishaps>>

Clearing == job.step \in {"clearIndex", "clearHashes", "clearFiles"}

ClearFails ==
    /\ Mishap
    /\ Clearing
    /\ torn' = TRUE
    /\ littered' = TRUE
    /\ job' = Idle
    /\ UNCHANGED <<messages, index, hashes, files, overwritten>>

Crash ==
    /\ Mishap
    /\ torn' = (torn \/ Clearing)
    /\ littered' = (littered \/ job # Idle)
    /\ job' = Idle
    /\ UNCHANGED <<messages, index, hashes, files, overwritten>>

-----------------------------------------------------------------------------
StoreNext ==
    \/ \E m \in Messages : SaveChatMessage(m) \/ RecallChatMessage(m)
    \/ \E row \in Rows, c \in Contents, place \in Places : WriteAttachmentStream(row, c, place)
    \/ \E i \in MessageIds : DeleteChatMessage(i)
    \/ SaveStoredChatMessage \/ SaveStoredChatMessageFails
    \/ \E v \in Conversations : DeleteChatConversation(v)
    \/ \E p \in Paths : RemoveFile(p) \/ RemoveFileFails(p)
    \/ ClearMessages \/ ClearIndex \/ ClearHashes \/ ClearFiles \/ ClearFails
    \/ Crash

StoreSpec == StoreInit /\ [][StoreNext]_storeVars

-----------------------------------------------------------------------------
(* Properties.                                                             *)

References(c) == {i \in MessageIds : index[i] # None /\ Content(index[i]) = c}

\* Whatever attachment a message shows can be opened by the message's id: the
\* row of a chat message is indexed and the indexed file exists, at every
\* moment and after every crash; rows are written after their file and go
\* before it ("committed only after the complete, size-checked file is safely
\* in place"). What WeChat delivers opens as it was delivered last.
AttachmentsOpen ==
    /\ \A m \in Messages : messages[m] \in Paths => index[m] = messages[m]
    /\ \A i \in MessageIds : index[i] # None => index[i] \in files

\* A record never counts fewer references than there are, so the first
\* deletion of a shared attachment does not take the file from the others. It
\* counts exactly those while every clearing has come to its end and no
\* second delivery from WeChat has overwritten one (saveStoredChatMessage).
CountsCover ==
    \A c \in Contents :
        LET n == Cardinality(References(c))
        IN  IF hashes[c] = None THEN n = 0
            ELSE /\ hashes[c].refs >= n
                 /\ torn \/ Clearing \/ c \in overwritten \/ hashes[c].refs = n

IndexedFiles == {index[i] : i \in {k \in MessageIds : index[k] # None}}

\* When nothing was cut off or failed, the disk holds the referenced files,
\* and no others but those of contents that a second delivery counted twice:
\* the space of any other recalled or deleted attachment comes back.
NothingLeftBehind ==
    job = Idle /\ ~littered =>
        files = IndexedFiles \cup {hashes[c].path : c \in overwritten}
=============================================================================
