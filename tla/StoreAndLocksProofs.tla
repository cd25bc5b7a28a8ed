------------------------- MODULE StoreAndLocksProofs -------------------------
(***************************************************************************)
(* Proofs about AttachmentStore, for any messages, contents and places and *)
(* any number of crashes and failed operations, and about LockOrder, the   *)
(* locks that uploads, recalls and deletions of attachments wait for, for  *)
(* every set of calls of every kind.                                       *)
(***************************************************************************)
EXTENDS AttachmentStore, LockOrder, FiniteSetTheorems, TLAPS

-----------------------------------------------------------------------------
(* The attachment store. *)

\* A message row that shows an attachment is indexed; an indexed message has
\* that row, or lost it to a clearing that did not come to its end.
RowsAgree ==
    \A m \in Messages :
        /\ messages[m] \in Paths => index[m] = messages[m]
        /\ index[m] # None => messages[m] \in {None, index[m]}

\* The record of a content names the one file all its messages share, and
\* the file is there; without a record no message refers to the content. An
\* overwritten reference is counted for ever.
RecordsHold ==
    \A c \in Contents :
        IF hashes[c] = None THEN References(c) = {} /\ c \notin overwritten
        ELSE /\ Content(hashes[c].path) = c
             /\ hashes[c].path \in files
             /\ \A m \in References(c) : index[m] = hashes[c].path
             /\ hashes[c].refs >= Cardinality(References(c))
             /\ c \in overwritten => hashes[c].refs > Cardinality(References(c))
             /\ torn \/ Clearing \/ c \in overwritten \/ hashes[c].refs = Cardinality(References(c))

\* What the holder of attachmentMu relies on between its steps.
JobHolds ==
    /\ job.step = "save" =>
          /\ job.row \in Messages => Fresh(job.row)
          /\ job.path \in files
          /\ hashes[Content(job.path)] # None =>
                hashes[Content(job.path)].path = job.path /\ ~job.created
    /\ job.step = "remove" => \A p \in job.paths : hashes[Content(p)] = None
    /\ Clearing => \A m \in Messages : messages[m] \notin Paths
    /\ job.step \in {"clearHashes", "clearFiles"} => \A i \in MessageIds : index[i] = None
    /\ job.step = "clearFiles" => \A c \in Contents : hashes[c] = None

KeptFiles == IndexedFiles \cup {hashes[c].path : c \in overwritten}

\* Unless something was cut off, the files are those of the index, those whose
\* record counts too many and those the job under way has made or has yet to
\* remove.
DiskHolds ==
    /\ torn => littered
    /\ ~littered =>
          /\ job = Idle => files = KeptFiles
          /\ job.step = "save" => /\ files = KeptFiles \cup {job.path}
                                  /\ job.created <=> job.path \notin KeptFiles
          /\ job.step = "remove" => files = KeptFiles \cup job.paths

StoreInv == StoreTypeOK /\ RowsAgree /\ RecordsHold /\ JobHolds /\ DiskHolds

-----------------------------------------------------------------------------
(* Sets of rows and jobs.                                                  *)

LEMMA ReferencesFinite ==
  ASSUME NEW c
  PROVE  IsFiniteSet(References(c)) /\ Cardinality(References(c)) \in Nat
  <1>1. References(c) \subseteq MessageIds /\ IsFiniteSet(MessageIds)
      BY StoreAssumption DEF References
  <1> QED
      BY <1>1, FS_Subset, FS_CardinalityType

LEMMA CountWithout ==
  ASSUME NEW S, IsFiniteSet(S), NEW T
  PROVE  /\ Cardinality(S \ T) = Cardinality(S) - Cardinality(S \cap T)
         /\ Cardinality(S) \in Nat /\ Cardinality(S \cap T) \in Nat /\ Cardinality(S \ T) \in Nat
         /\ Cardinality(S \cap T) = 0 <=> S \cap T = {}
         /\ Cardinality(S \ T) = 0 <=> S \ T = {}
  <1> DEFINE A == S \ T
             B == S \cap T
  <1>1. IsFiniteSet(A) /\ IsFiniteSet(B)
      BY FS_Subset
  <1>2. A \cup B = S /\ A \cap B = {}
      OBVIOUS
  <1>3. Cardinality(A \cup B) = Cardinality(A) + Cardinality(B) - Cardinality(A \cap B)
      BY <1>1, FS_Union
  <1>4. Cardinality({}) = 0
      BY FS_EmptySet
  <1>5. Cardinality(A) \in Nat /\ Cardinality(B) \in Nat /\ Cardinality(S) \in Nat
      BY <1>1, FS_CardinalityType
  <1>6. (Cardinality(A) = 0 <=> A = {}) /\ (Cardinality(B) = 0 <=> B = {})
      BY <1>1, FS_EmptySet
  <1> HIDE DEF A, B
  <1>7. Cardinality(A) = Cardinality(S) - Cardinality(B)
      BY <1>2, <1>3, <1>4, <1>5
  <1> QED
      BY <1>5, <1>6, <1>7 DEF A, B

\* The kinds of job exclude each other.
LEMMA JobKinds ==
  ASSUME StoreTypeOK
  PROVE  /\ job = Idle <=> job.step = "idle"
         /\ job.step = "save" =>
               job.row \in Rows /\ job.path \in Paths /\ job.created \in BOOLEAN
         /\ job.step = "remove" => job.paths \subseteq Paths
  BY DEF StoreTypeOK, Jobs, Idle

LEMMA PathsAreNoMarks == None \notin Paths /\ Plain \notin Paths /\ None # Plain
  BY StoreAssumption

\* A row belongs to a message: that of a chat message has its key.
LEMMA RowIds ==
  /\ Messages \subseteq Rows /\ Messages \subseteq MessageIds
  /\ \A row \in Rows : IdOf(row) \in MessageIds
  /\ \A row \in Messages : IdOf(row) = row
  /\ \A row \in Rows : IdOf(row) \in Messages => row = IdOf(row)
  <1>1. \A row \in Rows \ Messages : IdOf(row) \in Incoming /\ IdOf(row) \notin Messages
      BY StoreAssumption DEF IdOf, Rows
  <1> QED
      BY <1>1 DEF IdOf, Rows, MessageIds

LEMMA ContentOfPath == \A p \in Paths : Content(p) \in Contents
  BY DEF Paths, Content

-----------------------------------------------------------------------------
(* Releasing rows.                                                         *)

\* What DeleteChatMessage, RecallChatMessage and DeleteChatConversation share:
\* the rows in gone leave the index, where path says what the index had.
Leaving(gone, path) ==
    /\ gone \subseteq MessageIds
    /\ \A m \in gone : IF path[m] \in Paths THEN index[m] = path[m] ELSE index[m] = None
    /\ index' = Without(index, gone)

LEMMA LeavingRows ==
  ASSUME StoreInv, NEW gone, NEW path, Leaving(gone, path), NEW c \in Contents
  PROVE  /\ RowsOf(gone, path, c) = References(c) \cap gone
         /\ References(c)' = References(c) \ gone
  <1>1. \A m \in MessageIds : index[m] \in Paths \cup {None}
      BY DEF StoreInv, StoreTypeOK
  <1>2. RowsOf(gone, path, c) = References(c) \cap gone
      BY <1>1, PathsAreNoMarks DEF Leaving, RowsOf, References
  <1>3. \A m \in MessageIds : index'[m] = IF m \in gone THEN None ELSE index[m]
      BY DEF Leaving, Without, StoreInv, StoreTypeOK
  <1>4. References(c)' = References(c) \ gone
      BY <1>3 DEF References
  <1> QED
      BY <1>2, <1>4

\* What becomes of the record of one content.
LEMMA ReleasedRecord ==
  ASSUME StoreInv, job = Idle, NEW gone, NEW path, Leaving(gone, path),
         hashes' = Released(gone, path), NEW c \in Contents
  PROVE  /\ hashes[c] = None => hashes'[c] = None /\ References(c) = {} /\ c \notin overwritten
         /\ hashes[c] # None =>
              /\ hashes[c].refs >= Cardinality(RowsOf(gone, path, c))
              /\ hashes'[c] = None => /\ References(c) \ gone = {}
                                      /\ References(c) \cap gone # {}
              /\ hashes'[c] # None =>
                    /\ hashes'[c] \in [path : Paths, refs : Nat]
                    /\ hashes'[c].path = hashes[c].path
                    /\ hashes'[c].refs >= Cardinality(References(c) \ gone)
                    /\ c \in overwritten => hashes'[c].refs > Cardinality(References(c) \ gone)
                    /\ torn \/ c \in overwritten \/ hashes'[c].refs = Cardinality(References(c) \ gone)
              /\ c \in overwritten => hashes'[c] # None
              /\ torn \/ c \in overwritten \/ (hashes'[c] # None => References(c) \ gone # {} \/ References(c) = {})
  <1> DEFINE n == Cardinality(RowsOf(gone, path, c))
             all == Cardinality(References(c))
             left == Cardinality(References(c) \ gone)
  <1>1. n = Cardinality(References(c) \cap gone)
      BY LeavingRows
  <1>2. /\ left = all - n /\ all \in Nat /\ n \in Nat /\ left \in Nat
        /\ n = 0 <=> References(c) \cap gone = {}
        /\ left = 0 <=> References(c) \ gone = {}
    <2>1. IsFiniteSet(References(c))
        BY ReferencesFinite
    <2> HIDE DEF n
    <2> QED
        BY <1>1, <2>1, CountWithout, Zenon
  <1>3. hashes'[c] = IF hashes[c] = None \/ n = 0 THEN hashes[c]
                     ELSE IF hashes[c].refs > n THEN [hashes[c] EXCEPT !.refs = @ - n]
                     ELSE None
      BY DEF Released
  <1>4. hashes[c] \in [path : Paths, refs : Nat] \cup {None}
      BY DEF StoreInv, StoreTypeOK
  <1>5. ~Clearing
      BY DEF Clearing, Idle
  <1> HIDE DEF n, all, left
  <1>6. CASE hashes[c] = None
      BY <1>3, <1>6 DEF StoreInv, RecordsHold
  <1>7. CASE hashes[c] # None
    <2>1. hashes[c].refs >= all /\ hashes[c].refs \in Nat /\ hashes[c].path \in Paths
          /\ (c \in overwritten => hashes[c].refs > all)
          /\ (torn \/ c \in overwritten \/ hashes[c].refs = all)
        BY <1>4, <1>5, <1>7 DEF StoreInv, RecordsHold, all
    <2>2. CASE n = 0
        BY <1>2, <1>3, <1>4, <1>7, <2>1, <2>2 DEF left, n, all
    <2>3. CASE n # 0 /\ hashes[c].refs > n
      <3>1. hashes'[c] = [path |-> hashes[c].path, refs |-> hashes[c].refs - n]
          BY <1>3, <1>4, <1>7, <2>3
      <3>2. hashes'[c].refs = hashes[c].refs - n /\ hashes'[c].path = hashes[c].path
            /\ hashes'[c] \in [path : Paths, refs : Nat]
          BY <1>2, <2>1, <2>3, <3>1
      <3>3. hashes'[c] # None
          BY <3>2, StoreAssumption
      <3>4. /\ hashes'[c].refs >= left /\ (c \in overwritten => hashes'[c].refs > left)
            /\ torn \/ c \in overwritten \/ (hashes'[c].refs = left /\ left # 0)
          BY <1>2, <2>1, <2>3, <3>2
      <3> QED
          BY <1>2, <1>7, <2>1, <2>3, <3>2, <3>3, <3>4 DEF left, n
    <2>4. CASE n # 0 /\ ~(hashes[c].refs > n)
      <3>1. hashes'[c] = None /\ hashes[c].refs = n /\ left = 0 /\ c \notin overwritten
          BY <1>2, <1>3, <1>7, <2>1, <2>4
      <3> QED
          BY <1>2, <1>7, <2>1, <2>4, <3>1 DEF n
    <2> QED
        BY <2>2, <2>3, <2>4
  <1> QED
      BY <1>6, <1>7

\* A step that releases rows keeps the invariant, given that it leaves the
\* message rows agreeing with the index.
LEMMA ReleaseStep ==
  ASSUME StoreInv, job = Idle, NEW gone, NEW path, Leaving(gone, path),
         ReleaseAndRemove(gone, path),
         messages' \in [Rows -> Paths \cup {Plain, None}], RowsAgree',
         UNCHANGED <<files, overwritten, torn, littered, mishaps>>
  PROVE  StoreInv'
  <1> DEFINE dropped == {d \in Contents : hashes[d] # None /\ hashes'[d] = None}
             paths == Unreferenced(gone, path)
  <1>1. hashes' = Released(gone, path)
        /\ job' = IF paths = {} THEN Idle ELSE [step |-> "remove", paths |-> paths]
      BY DEF ReleaseAndRemove
  <1>2. /\ index \in [MessageIds -> Paths \cup {None}]
        /\ hashes \in [Contents -> [path : Paths, refs : Nat] \cup {None}]
        /\ files \subseteq Paths /\ torn \in BOOLEAN /\ littered \in BOOLEAN
      BY DEF StoreInv, StoreTypeOK
  <1>3. \A m \in MessageIds : index'[m] = IF m \in gone THEN None ELSE index[m]
      BY <1>2 DEF Leaving, Without
  <1>4. \A c \in Contents :
          /\ hashes'[c] = None => References(c)' = {} /\ c \notin overwritten
          /\ hashes'[c] # None =>
                /\ hashes[c] # None
                /\ hashes'[c] \in [path : Paths, refs : Nat]
                /\ hashes'[c].path = hashes[c].path
                /\ hashes'[c].refs >= Cardinality(References(c)')
                /\ c \in overwritten => hashes'[c].refs > Cardinality(References(c)')
                /\ torn \/ c \in overwritten \/ hashes'[c].refs = Cardinality(References(c)')
      BY <1>1, LeavingRows, ReleasedRecord
  <1>5. paths = {hashes[c].path : c \in dropped}
    <2>1. dropped = {d \in Contents : hashes[d] # None /\ Released(gone, path)[d] = None}
        BY <1>1
    <2>2. ASSUME NEW m \in gone, path[m] \in Paths
          PROVE  /\ hashes[Content(path[m])] # None
                 /\ hashes[Content(path[m])].refs >= Cardinality(RowsOf(gone, path, Content(path[m])))
      <3>1. Content(path[m]) \in Contents /\ m \in References(Content(path[m]))
          BY <2>2, ContentOfPath, PathsAreNoMarks DEF Leaving, References
      <3> QED
          BY <1>1, <3>1, ReleasedRecord
    <2>3. ASSUME NEW m \in gone, path[m] \in Paths
          PROVE  ~(\/ hashes[Content(path[m])] = None
                   \/ hashes[Content(path[m])].refs < Cardinality(RowsOf(gone, path, Content(path[m]))))
      <3> DEFINE c == Content(path[m])
      <3>1. c \in Contents /\ hashes[c] # None
          BY <2>2, <2>3, ContentOfPath
      <3>2. hashes[c].refs \in Nat
          BY <1>2, <3>1
      <3>3. Cardinality(RowsOf(gone, path, c)) \in Nat
        <4>1. RowsOf(gone, path, c) = References(c) \cap gone /\ IsFiniteSet(References(c))
            BY <3>1, LeavingRows, ReferencesFinite
        <4> QED
            BY <4>1, CountWithout, Zenon
      <3> QED
          BY <2>2, <2>3, <3>1, <3>2, <3>3
    <2> QED
        BY <2>1, <2>3 DEF Unreferenced
  <1>6. paths \subseteq Paths /\ \A p \in paths : hashes'[Content(p)] = None
    <2>1. \A c \in dropped : hashes[c].path \in Paths /\ Content(hashes[c].path) = c
        BY <1>2 DEF StoreInv, RecordsHold
    <2> QED
        BY <1>5, <2>1
  <1> HIDE DEF paths
  <1>7. StoreTypeOK'
    <2>1. hashes' \in [Contents -> [path : Paths, refs : Nat] \cup {None}]
        BY <1>1, <1>4 DEF Released
    <2>2. index' \in [MessageIds -> Paths \cup {None}]
        BY <1>2, <1>3 DEF Leaving, Without
    <2>3. job' \in Jobs
        BY <1>1, <1>6 DEF Jobs
    <2> QED
        BY <1>2, <2>1, <2>2, <2>3 DEF StoreInv, StoreTypeOK
  <1>8. job'.step \in {"idle", "remove"} /\ (job'.step = "remove" => job'.paths = paths)
        /\ (job'.step = "idle" => paths = {}) /\ (job' = Idle => paths = {})
      BY <1>1 DEF Idle
  <1>9. RecordsHold'
    <2>1. ASSUME NEW c \in Contents, hashes'[c] # None
          PROVE  /\ Content(hashes'[c].path) = c
                 /\ hashes'[c].path \in files
                 /\ \A m \in References(c)' : index'[m] = hashes'[c].path
      <3>1. hashes[c] # None /\ hashes'[c].path = hashes[c].path
          BY <1>4, <2>1
      <3>2. \A m \in References(c)' : m \in References(c) /\ index'[m] = index[m]
          BY <1>3, LeavingRows DEF References
      <3> QED
          BY <3>1, <3>2 DEF StoreInv, RecordsHold
    <2> QED
        BY <1>4, <1>8, <2>1 DEF RecordsHold
  <1>10. JobHolds'
      BY <1>6, <1>8 DEF JobHolds, Clearing
  <1>11. ~littered => KeptFiles' \cup paths = KeptFiles
    <2> SUFFICES ASSUME ~littered PROVE KeptFiles' \cup paths = KeptFiles
        OBVIOUS
    <2>1. ~torn
        BY <1>2 DEF StoreInv, DiskHolds
    <2>2. \A c \in overwritten : c \in Contents /\ hashes[c] # None /\ hashes'[c] # None
                                 /\ hashes'[c].path = hashes[c].path
        BY <1>4 DEF StoreInv, StoreTypeOK, RecordsHold
    <2>3. {hashes'[c].path : c \in overwritten} = {hashes[c].path : c \in overwritten}
        BY <2>2
    <2>4. IndexedFiles' \subseteq IndexedFiles
        BY <1>3 DEF IndexedFiles
    <2>5. paths \subseteq IndexedFiles
      <3> SUFFICES ASSUME NEW c \in dropped PROVE hashes[c].path \in IndexedFiles
          BY <1>5
      <3>1. PICK m \in References(c) : TRUE
          BY <1>1, ReleasedRecord
      <3>2. index[m] = hashes[c].path /\ index[m] # None /\ m \in MessageIds
          BY DEF StoreInv, RecordsHold, References
      <3> QED
          BY <3>2 DEF IndexedFiles
    <2>6. ASSUME NEW m \in MessageIds, index[m] # None
          PROVE  index[m] \in IndexedFiles' \cup {hashes[c].path : c \in overwritten} \cup paths
      <3> DEFINE c == Content(index[m])
      <3>1. c \in Contents /\ m \in References(c) /\ index[m] \in Paths
          BY <1>2, <2>6, ContentOfPath DEF References
      <3>2. hashes[c] # None /\ index[m] = hashes[c].path
          BY <3>1 DEF StoreInv, RecordsHold
      <3>3. CASE hashes'[c] = None
          BY <1>5, <3>1, <3>2, <3>3
      <3>4. CASE hashes'[c] # None /\ c \notin overwritten
        <4> HIDE DEF c
        <4>0. References(c) \ gone # {} \/ References(c) = {}
            BY <1>1, <2>1, <3>1, <3>2, <3>4, ReleasedRecord
        <4>1. PICK k \in References(c) : k \notin gone
            BY <3>1, <4>0
        <4>2. k \in MessageIds /\ index'[k] = index[k] /\ index[k] # None /\ index[k] = index[m]
            BY <1>3, <3>1, <3>2, <4>1 DEF StoreInv, RecordsHold, References
        <4> QED
            BY <2>6, <4>2 DEF IndexedFiles
      <3>5. CASE c \in overwritten
          BY <3>2, <3>5
      <3> QED
          BY <3>3, <3>4, <3>5
    <2>7. overwritten' = overwritten
        OBVIOUS
    <2> QED
        BY <2>3, <2>4, <2>5, <2>6, <2>7 DEF KeptFiles, IndexedFiles
  <1>12. DiskHolds'
    <2>1. (torn => littered) /\ (~littered => files = KeptFiles)
        BY DEF StoreInv, DiskHolds
    <2> QED
        BY <1>8, <1>11, <2>1 DEF DiskHolds
  <1> QED
      BY <1>7, <1>9, <1>10, <1>12 DEF StoreInv

LEMMA DeleteChatMessageStep ==
  ASSUME StoreInv, NEW i \in MessageIds, DeleteChatMessage(i)
  PROVE  StoreInv'
  <1>1. /\ messages \in [Rows -> Paths \cup {Plain, None}]
        /\ index \in [MessageIds -> Paths \cup {None}]
      BY DEF StoreInv, StoreTypeOK
  <1>2. Leaving({i}, index)
      BY <1>1, PathsAreNoMarks DEF DeleteChatMessage, Leaving
  <1>3. PICK gone \in SUBSET RowsWith(i) :
          /\ \A row \in Rows : messages'[row] = IF row \in gone THEN None ELSE messages[row]
          /\ messages' \in [Rows -> Paths \cup {Plain, None}]
          /\ RowsWith(i) # {} => gone # {}
    <2>1. CASE RowsWith(i) = {} /\ UNCHANGED messages
        BY <1>1, <2>1
    <2>2. ASSUME NEW row \in RowsWith(i), messages' = Without(messages, {row})
          PROVE  /\ \A k \in Rows : messages'[k] = IF k \in {row} THEN None ELSE messages[k]
                 /\ messages' \in [Rows -> Paths \cup {Plain, None}]
        BY <1>1, <2>2 DEF Without
    <2>3. ASSUME NEW row \in RowsWith(i), messages' = Without(messages, {row})
          PROVE  \E gone \in SUBSET RowsWith(i) :
                   /\ \A k \in Rows : messages'[k] = IF k \in gone THEN None ELSE messages[k]
                   /\ messages' \in [Rows -> Paths \cup {Plain, None}]
                   /\ RowsWith(i) # {} => gone # {}
      <3>1. {row} \in SUBSET RowsWith(i) /\ {row} # {}
          OBVIOUS
      <3> QED
          BY <2>2, <2>3, <3>1
    <2> QED
        BY <2>1, <2>3 DEF DeleteChatMessage
  <1>4. RowsAgree'
    <2>1. \A k \in MessageIds : index'[k] = IF k \in {i} THEN None ELSE index[k]
        BY <1>1 DEF DeleteChatMessage, Without
    <2>2. ASSUME NEW k \in Messages, k # i PROVE messages'[k] = messages[k]
      <3>1. k \notin RowsWith(i)
          BY <2>2, RowIds DEF RowsWith
      <3> QED
          BY <1>3, <3>1, RowIds
    <2>3. i \in Messages => messages'[i] = None
      <3> SUFFICES ASSUME i \in Messages PROVE messages'[i] = None
          OBVIOUS
      <3>1. i \in Rows /\ IdOf(i) = i /\ \A row \in RowsWith(i) : row = i
          BY RowIds DEF RowsWith
      <3>2. messages[i] = None \/ i \in RowsWith(i)
          BY <3>1 DEF RowsWith
      <3> QED
          BY <1>3, <3>1, <3>2
    <2> QED
        BY <2>1, <2>2, <2>3, RowIds, PathsAreNoMarks DEF StoreInv, RowsAgree
  <1> QED
      BY <1>2, <1>3, <1>4, ReleaseStep DEF DeleteChatMessage

LEMMA RecallChatMessageStep ==
  ASSUME StoreInv, NEW m \in Messages, RecallChatMessage(m)
  PROVE  StoreInv'
  <1>1. /\ messages \in [Rows -> Paths \cup {Plain, None}]
        /\ index \in [MessageIds -> Paths \cup {None}]
      BY DEF StoreInv, StoreTypeOK
  <1>2. Leaving({m}, messages)
      BY <1>1, RowIds, PathsAreNoMarks DEF RecallChatMessage, Leaving, StoreInv, RowsAgree
  <1>3. messages' \in [Rows -> Paths \cup {Plain, None}]
      BY <1>1 DEF RecallChatMessage
  <1>4. RowsAgree'
    <2>1. \A k \in Messages : messages'[k] = IF k = m THEN Plain ELSE messages[k]
        BY <1>1, RowIds DEF RecallChatMessage
    <2>2. \A k \in MessageIds : index'[k] = IF k \in {m} THEN None ELSE index[k]
        BY <1>1 DEF RecallChatMessage, Without
    <2> QED
        BY <2>1, <2>2, RowIds, PathsAreNoMarks DEF StoreInv, RowsAgree
  <1> QED
      BY <1>2, <1>3, <1>4, ReleaseStep DEF RecallChatMessage

LEMMA DeleteChatConversationStep ==
  ASSUME StoreInv, NEW v \in Conversations, DeleteChatConversation(v)
  PROVE  StoreInv'
  <1> DEFINE gone == {m \in Messages : ConversationOf[m] = v /\ messages[m] # None}
             attached == {m \in gone : messages[m] # Plain}
  <1>1. /\ messages \in [Rows -> Paths \cup {Plain, None}]
        /\ index \in [MessageIds -> Paths \cup {None}]
      BY DEF StoreInv, StoreTypeOK
  <1>2. /\ job = Idle /\ ReleaseAndRemove(attached, messages)
        /\ messages' = Without(messages, gone)
        /\ index' = Without(index, attached)
        /\ UNCHANGED <<files, overwritten, torn, littered, mishaps>>
      BY DEF DeleteChatConversation
  <1>3. gone \subseteq Messages /\ attached \subseteq gone
        /\ \A m \in gone : m \notin attached <=> messages[m] = Plain
      OBVIOUS
  <1>4. \A m \in attached : messages[m] \in Paths
      BY <1>1, RowIds
  <1> HIDE DEF gone, attached
  <1>5. Leaving(attached, messages)
      BY <1>2, <1>3, <1>4, RowIds DEF Leaving, StoreInv, RowsAgree
  <1>6. messages' \in [Rows -> Paths \cup {Plain, None}]
      BY <1>1, <1>2 DEF Without
  <1>7. RowsAgree'
    <2>1. \A k \in Rows : messages'[k] = IF k \in gone THEN None ELSE messages[k]
        BY <1>1, <1>2 DEF Without
    <2>2. \A k \in MessageIds : index'[k] = IF k \in attached THEN None ELSE index[k]
        BY <1>1, <1>2 DEF Without
    <2>3. \A k \in gone : k \notin attached => index[k] = None
        BY <1>1, <1>3, RowIds, PathsAreNoMarks DEF StoreInv, RowsAgree
    <2> QED
        BY <1>3, <2>1, <2>2, <2>3, RowIds, PathsAreNoMarks DEF StoreInv, RowsAgree
  <1> QED
      BY <1>2, <1>5, <1>6, <1>7, ReleaseStep

LEMMA MishapCount ==
  ASSUME StoreTypeOK, Mishap \/ UNCHANGED mishaps
  PROVE  mishaps' \in 0 .. MaxMishaps
  BY StoreAssumption DEF StoreTypeOK, Mishap

\* A file is removed, or stays although nothing refers to it.
LEMMA RemoveFileStep ==
  ASSUME StoreInv, NEW p \in Paths, RemoveFile(p) \/ RemoveFileFails(p)
  PROVE  StoreInv'
  <1>1. /\ job.step = "remove" /\ p \in job.paths
        /\ UNCHANGED <<messages, index, hashes, overwritten, torn>>
        /\ job' = StillToRemove(p)
        /\ \/ files' = files \ {p} /\ littered' = littered
           \/ files' = files /\ littered' = TRUE
      BY Zenon DEF RemoveFile, RemoveFileFails
  <1>a. mishaps' \in 0 .. MaxMishaps
      BY MishapCount DEF RemoveFile, RemoveFileFails, StoreInv, StoreTypeOK
  <1>2. job.paths \subseteq Paths /\ job = [step |-> "remove", paths |-> job.paths]
      BY <1>1 DEF StoreInv, StoreTypeOK, Jobs, Idle
  <1>3. \/ job.paths = {p} /\ job' = Idle
        \/ job' = [step |-> "remove", paths |-> job.paths \ {p}]
      BY <1>1, <1>2 DEF StillToRemove
  <1>4. job'.step \in {"idle", "remove"}
        /\ (job'.step = "remove" => job'.paths = job.paths \ {p})
        /\ (job' = Idle => job.paths = {p})
        /\ job' \in Jobs
      BY <1>2, <1>3 DEF Idle, Jobs
  <1>5. \A c \in Contents : References(c)' = References(c)
      BY <1>1 DEF References
  <1>6. \A c \in Contents : hashes[c] # None => hashes[c].path # p
    <2>1. hashes[Content(p)] = None
        BY <1>1 DEF StoreInv, JobHolds
    <2> QED
        BY <2>1 DEF StoreInv, RecordsHold
  <1>7. StoreTypeOK'
    <2>1. files' \subseteq Paths
        BY <1>1 DEF StoreInv, StoreTypeOK
    <2>2. littered' \in BOOLEAN
        BY <1>1 DEF StoreInv, StoreTypeOK
    <2> QED
        BY <1>1, <1>a, <1>4, <2>1, <2>2 DEF StoreInv, StoreTypeOK
  <1>8. RowsAgree'
      BY <1>1 DEF StoreInv, RowsAgree
  <1>9. RecordsHold'
    <2>1. ~Clearing /\ ~Clearing'
        BY <1>1, <1>4 DEF Clearing
    <2>2. \A c \in Contents : hashes[c] # None => hashes[c].path \in files'
        BY <1>1, <1>6 DEF StoreInv, RecordsHold
    <2> QED
        BY <1>1, <1>5, <2>1, <2>2 DEF StoreInv, RecordsHold
  <1>10. JobHolds'
      BY <1>1, <1>4 DEF StoreInv, JobHolds, Clearing
  <1>11. DiskHolds'
    <2>1. KeptFiles' = KeptFiles
        BY <1>1 DEF KeptFiles, IndexedFiles
    <2>2. p \notin KeptFiles
      <3>1. hashes[Content(p)] = None /\ Content(p) \in Contents
          BY <1>1, ContentOfPath DEF StoreInv, JobHolds
      <3>2. References(Content(p)) = {}
          BY <3>1 DEF StoreInv, RecordsHold
      <3>3. \A c \in overwritten : hashes[c].path # p
          BY <1>6 DEF StoreInv, StoreTypeOK, RecordsHold
      <3> QED
          BY <3>2, <3>3, PathsAreNoMarks DEF References, KeptFiles, IndexedFiles
    <2>3. ~littered' => ~littered /\ files' = (KeptFiles \cup job.paths) \ {p}
      <3>1. ~littered => files = KeptFiles \cup job.paths
          BY <1>1 DEF StoreInv, DiskHolds
      <3> QED
          BY <1>1, <3>1
    <2>4. torn' => littered'
      <3>1. torn => littered
          BY DEF StoreInv, DiskHolds
      <3>2. torn' = torn /\ (littered' = littered \/ littered' = TRUE)
          BY <1>1
      <3> QED
          BY <3>1, <3>2, Zenon
    <2>5. job' = Idle => (KeptFiles \cup job.paths) \ {p} = KeptFiles
        BY <1>4, <2>2
    <2>6. (KeptFiles \cup job.paths) \ {p} = KeptFiles \cup (job.paths \ {p})
        BY <2>2
    <2> QED
        BY <1>4, <2>1, <2>3, <2>4, <2>5, <2>6 DEF DiskHolds
  <1> QED
      BY <1>7, <1>8, <1>9, <1>10, <1>11 DEF StoreInv

-----------------------------------------------------------------------------
(* Saving.                                                                 *)

\* A message that is not stored yet has no row and is in no set of references.
LEMMA SaveChatMessageStep ==
  ASSUME StoreInv, NEW m \in Messages, SaveChatMessage(m)
  PROVE  StoreInv'
  <1>1. /\ Fresh(m) /\ (job.step = "save" => job.row # m)
        /\ UNCHANGED <<index, hashes, files, job, overwritten, torn, littered, mishaps>>
        /\ messages' \in [Rows -> Paths \cup {Plain, None}]
        /\ \A k \in Rows : messages'[k] = IF k = m THEN Plain ELSE messages[k]
      BY RowIds DEF SaveChatMessage, StoreInv, StoreTypeOK
  <1>2. StoreTypeOK'
      BY <1>1 DEF StoreInv, StoreTypeOK
  <1>3. RowsAgree'
      BY <1>1, RowIds, PathsAreNoMarks DEF StoreInv, RowsAgree, Fresh
  <1>4. RecordsHold'
      BY <1>1 DEF StoreInv, RecordsHold, References, Clearing
  <1>5. JobHolds'
    <2>1. job.step = "save" /\ job.row \in Messages => Fresh(job.row)'
        BY <1>1, JobKinds, RowIds DEF StoreInv, JobHolds, Fresh
    <2> QED
        BY <1>1, <2>1, RowIds, PathsAreNoMarks DEF StoreInv, JobHolds, Clearing
  <1>6. DiskHolds'
      BY <1>1 DEF StoreInv, DiskHolds, KeptFiles, IndexedFiles
  <1> QED
      BY <1>2, <1>3, <1>4, <1>5, <1>6 DEF StoreInv

LEMMA WriteAttachmentStreamStep ==
  ASSUME StoreInv, NEW m \in Rows, NEW c \in Contents, NEW place \in Places,
         WriteAttachmentStream(m, c, place)
  PROVE  StoreInv'
  <1>0. PICK p \in PathsFor(c, place) :
          /\ job = Idle /\ Arrives(m)
          /\ files' = files \cup {p}
          /\ job' = [step |-> "save", row |-> m, path |-> p, created |-> p \notin files]
          /\ UNCHANGED <<messages, index, hashes, overwritten, torn, littered>>
      BY DEF WriteAttachmentStream
  <1>1. /\ job = Idle /\ (m \in Messages => Fresh(m))
        /\ files' = files \cup {p}
        /\ job' = [step |-> "save", row |-> m, path |-> p, created |-> p \notin files]
        /\ UNCHANGED <<messages, index, hashes, overwritten, torn, littered>>
      BY <1>0 DEF Arrives
  <1>a. mishaps' \in 0 .. MaxMishaps
      BY <1>0, MishapCount DEF Arrives, StoreInv
  <1>2. p \in Paths /\ Content(p) = c /\ (hashes[c] # None => p = hashes[c].path /\ p \in files)
      BY DEF StoreInv, StoreTypeOK, RecordsHold, PathsFor, Paths, Content
  <1>3. job'.step = "save" /\ job'.row = m /\ job'.path = p /\ job'.created \in BOOLEAN
        /\ (job'.created <=> p \notin files) /\ job' \in Jobs
    <2>1. (p \notin files) \in BOOLEAN
        OBVIOUS
    <2> QED
        BY <1>1, <1>2, <2>1 DEF Jobs
  <1>4. ~Clearing /\ ~Clearing' /\ job' # Idle
      BY <1>1, <1>3 DEF Clearing, Idle
  <1>5. StoreTypeOK'
      BY <1>1, <1>a, <1>2, <1>3 DEF StoreInv, StoreTypeOK
  <1>6. RowsAgree'
      BY <1>1 DEF StoreInv, RowsAgree
  <1>7. RecordsHold'
      BY <1>1, <1>4 DEF StoreInv, RecordsHold, References
  <1>8. JobHolds'
    <2>1. (job.row \in Messages => Fresh(job.row))'
        BY <1>1, <1>3 DEF Fresh
    <2>2. job'.path \in files'
        BY <1>1, <1>3
    <2>3. hashes'[Content(job'.path)] # None
          => hashes'[Content(job'.path)].path = job'.path /\ ~job'.created
        BY <1>1, <1>2, <1>3
    <2> QED
        BY <1>3, <1>4, <2>1, <2>2, <2>3 DEF JobHolds, Fresh
  <1>9. DiskHolds'
    <2>1. KeptFiles' = KeptFiles
        BY <1>1 DEF KeptFiles, IndexedFiles
    <2>2. ~littered => files = KeptFiles
        BY <1>1 DEF StoreInv, DiskHolds
    <2>3. torn' => littered'
        BY <1>1 DEF StoreInv, DiskHolds
    <2> QED
        BY <1>1, <1>3, <1>4, <2>1, <2>2, <2>3 DEF DiskHolds
  <1> QED
      BY <1>5, <1>6, <1>7, <1>8, <1>9 DEF StoreInv

\* The row, the index entry and the count of one more reference.
LEMMA SaveStoredChatMessageStep ==
  ASSUME StoreInv, SaveStoredChatMessage
  PROVE  StoreInv'
  <1>d. PICK m, p, i : m = job.row /\ p = job.path /\ i = IdOf(job.row)
      OBVIOUS
  <1> DEFINE c == Content(p)
  <1>1. /\ job.step = "save" /\ m \in Rows /\ i \in MessageIds /\ p \in Paths /\ c \in Contents
        /\ i = IdOf(m) /\ p \in files
        /\ hashes[c] # None => hashes[c].path = p
      BY <1>d, JobKinds, RowIds, ContentOfPath DEF SaveStoredChatMessage, StoreInv, JobHolds
  <1>2. /\ messages' = [messages EXCEPT ![m] = p]
        /\ index' = [index EXCEPT ![i] = p]
        /\ hashes' = Counted(p)
        /\ overwritten' = overwritten \cup (IF index[i] = None THEN {} ELSE {Content(index[i])})
        /\ job' = Idle
        /\ UNCHANGED <<files, torn, littered, mishaps>>
      BY <1>d DEF SaveStoredChatMessage
  <1>3. /\ messages \in [Rows -> Paths \cup {Plain, None}]
        /\ index \in [MessageIds -> Paths \cup {None}]
        /\ hashes \in [Contents -> [path : Paths, refs : Nat] \cup {None}]
      BY DEF StoreInv, StoreTypeOK
  <1> HIDE DEF c
  <1>4. /\ \A k \in Rows : messages'[k] = IF k = m THEN p ELSE messages[k]
        /\ \A k \in MessageIds : index'[k] = IF k = i THEN p ELSE index[k]
      BY <1>2, <1>3
  <1>5. /\ hashes'[c] = IF hashes[c] = None THEN [path |-> p, refs |-> 1]
                        ELSE [path |-> p, refs |-> hashes[c].refs + 1]
        /\ hashes'[c] \in [path : Paths, refs : Nat]
        /\ \A d \in Contents : d # c => hashes'[d] = hashes[d]
        /\ hashes' \in [Contents -> [path : Paths, refs : Nat] \cup {None}]
    <2>1. CASE hashes[c] = None
        BY <1>1, <1>2, <1>3, <2>1 DEF Counted, c
    <2>2. CASE hashes[c] # None
      <3>1. hashes[c] = [path |-> p, refs |-> hashes[c].refs] /\ hashes[c].refs \in Nat
          BY <1>1, <1>3, <2>2
      <3>2. [hashes[c] EXCEPT !.refs = @ + 1] = [path |-> p, refs |-> hashes[c].refs + 1]
          BY <3>1
      <3>3. hashes' = [hashes EXCEPT ![c] = [path |-> p, refs |-> hashes[c].refs + 1]]
        <4>1. hashes' = [hashes EXCEPT ![c] = [hashes[c] EXCEPT !.refs = @ + 1]]
          <5>1. (IF hashes[c] = None THEN [path |-> p, refs |-> 1]
                 ELSE [hashes[c] EXCEPT !.refs = @ + 1]) = [hashes[c] EXCEPT !.refs = @ + 1]
              BY <2>2, Zenon
          <5>2. Counted(p) = [hashes EXCEPT ![c] = IF hashes[c] = None
                                                    THEN [path |-> p, refs |-> 1]
                                                    ELSE [hashes[c] EXCEPT !.refs = @ + 1]]
              BY Zenon DEF Counted, c
          <5> QED
              BY <1>2, <5>1, <5>2, Zenon
        <4> QED
            BY <3>2, <4>1
      <3>4. [path |-> p, refs |-> hashes[c].refs + 1] \in [path : Paths, refs : Nat]
          BY <1>1, <3>1
      <3> QED
          BY <1>1, <1>3, <2>2, <3>3, <3>4
    <2> QED
        BY <2>1, <2>2
  <1>6. hashes'[c] # None /\ hashes'[c].path = p
      BY <1>1, <1>5, StoreAssumption
  <1>7. /\ References(c)' = References(c) \cup {i}
        /\ \A d \in Contents : d # c => References(d)' = References(d) \ {i}
        /\ \A d \in Contents : d \in overwritten' <=> d \in overwritten \/ i \in References(d)
    <2>1. /\ \A k \in MessageIds \ {i} : index'[k] = index[k]
          /\ index'[i] = p /\ p # None /\ Content(p) = c
        BY <1>1, <1>4, PathsAreNoMarks DEF c
    <2>2. \A d, k : k \in References(d)' <=> k \in MessageIds /\ index'[k] # None /\ Content(index'[k]) = d
        BY DEF References
    <2>3. \A d, k : k \in References(d) <=> k \in MessageIds /\ index[k] # None /\ Content(index[k]) = d
        BY DEF References
    <2>4. References(c)' = References(c) \cup {i}
        BY <1>1, <2>1, <2>2, <2>3
    <2>5. ASSUME NEW d \in Contents, d # c PROVE References(d)' = References(d) \ {i}
        BY <1>1, <2>1, <2>2, <2>3, <2>5
    <2>6. \A d \in Contents : d \in overwritten' <=> d \in overwritten \/ i \in References(d)
        BY <1>1, <1>2, <2>3
    <2> QED
        BY <2>4, <2>5, <2>6
  <1>8. ~Clearing /\ ~Clearing'
      BY <1>1, <1>2 DEF Clearing, Idle
  <1>9. StoreTypeOK'
    <2>1. index[i] # None => Content(index[i]) \in Contents
        BY <1>1, <1>3, ContentOfPath
    <2> QED
        BY <1>1, <1>2, <1>3, <1>5, <2>1 DEF StoreInv, StoreTypeOK, Jobs
  <1>10. RowsAgree'
    <2>1. i \in Messages => m = i
        BY <1>1, RowIds
    <2>2. m \in Messages => m = i
        BY <1>1, RowIds
    <2> QED
        BY <1>1, <1>4, <2>1, <2>2, RowIds, PathsAreNoMarks DEF StoreInv, RowsAgree
  <1>11. RecordsHold'
    <2> SUFFICES ASSUME NEW d \in Contents
                 PROVE  (IF hashes[d] = None THEN References(d) = {} /\ d \notin overwritten
                         ELSE /\ Content(hashes[d].path) = d
                              /\ hashes[d].path \in files
                              /\ \A k \in References(d) : index[k] = hashes[d].path
                              /\ hashes[d].refs >= Cardinality(References(d))
                              /\ d \in overwritten => hashes[d].refs > Cardinality(References(d))
                              /\ torn \/ Clearing \/ d \in overwritten
                                 \/ hashes[d].refs = Cardinality(References(d)))'
        BY DEF RecordsHold
    <2>1. /\ IsFiniteSet(References(d)) /\ Cardinality(References(d)) \in Nat
          /\ References(d) = {} => Cardinality(References(d)) = 0
        BY ReferencesFinite, FS_EmptySet
    <2>2. /\ hashes[d] = None => References(d) = {} /\ d \notin overwritten
          /\ hashes[d] # None =>
               /\ hashes[d].refs \in Nat
               /\ Content(hashes[d].path) = d /\ hashes[d].path \in files
               /\ \A k \in References(d) : index[k] = hashes[d].path
               /\ hashes[d].refs >= Cardinality(References(d))
               /\ d \in overwritten => hashes[d].refs > Cardinality(References(d))
               /\ torn \/ d \in overwritten \/ hashes[d].refs = Cardinality(References(d))
        BY <1>3, <1>8 DEF StoreInv, RecordsHold
    <2>3. CASE d = c
      <3>1. /\ Content(hashes'[c].path) = c /\ hashes'[c].path \in files'
            /\ \A k \in References(c)' : index'[k] = hashes'[c].path
        <4>1. \A k \in References(c) : k \in MessageIds /\ index[k] = p
            BY <1>1, <2>2, <2>3 DEF References
        <4> QED
            BY <1>1, <1>2, <1>4, <1>6, <1>7, <4>1 DEF c
      <3>2. CASE i \in References(c)
        <4>1. References(c)' = References(c) /\ hashes[c] # None /\ c \in overwritten'
            BY <1>1, <1>7, <2>2, <2>3, <3>2
        <4>2. hashes'[c].refs = hashes[c].refs + 1
            BY <1>5, <4>1
        <4> QED
            BY <1>6, <2>1, <2>2, <2>3, <3>1, <4>1, <4>2
      <3>3. CASE i \notin References(c)
        <4>1. Cardinality(References(c)') = Cardinality(References(c)) + 1
            BY <1>7, <2>1, <2>3, <3>3, FS_AddElement
        <4>2. c \in overwritten' <=> c \in overwritten
            BY <1>1, <1>7, <3>3
        <4>3. /\ hashes[c] = None => hashes'[c].refs = 1
              /\ hashes[c] # None => hashes'[c].refs = hashes[c].refs + 1
            BY <1>5
        <4>4. torn' = torn
            BY <1>2
        <4> QED
            BY <1>6, <2>1, <2>2, <2>3, <3>1, <4>1, <4>2, <4>3, <4>4
      <3> QED
          BY <3>2, <3>3
    <2>4. CASE d # c
      <3>1. hashes'[d] = hashes[d] /\ References(d)' = References(d) \ {i}
            /\ (d \in overwritten' <=> d \in overwritten \/ i \in References(d))
            /\ files' = files /\ torn' = torn
          BY <1>2, <1>5, <1>7, <2>4
      <3>2. \A k \in References(d)' : k \in References(d) /\ index'[k] = index[k]
          BY <1>4, <3>1 DEF References
      <3>3. CASE i \in References(d)
        <4>1. Cardinality(References(d)') = Cardinality(References(d)) - 1
            BY <2>1, <3>1, <3>3, FS_RemoveElement
        <4>2. d \in overwritten' /\ hashes[d] # None
            BY <2>2, <3>1, <3>3
        <4> QED
            BY <2>1, <2>2, <3>1, <3>2, <4>1, <4>2
      <3>4. CASE i \notin References(d)
        <4>1. References(d)' = References(d) /\ (d \in overwritten' <=> d \in overwritten)
            BY <3>1, <3>4
        <4> QED
            BY <2>1, <2>2, <3>1, <3>2, <4>1
      <3> QED
          BY <3>3, <3>4
    <2> QED
        BY <2>3, <2>4
  <1>12. JobHolds'
      BY <1>2, <1>8 DEF JobHolds, Idle, Clearing
  <1>13. DiskHolds'
    <2>1. IndexedFiles' \subseteq IndexedFiles \cup {p} /\ p \in IndexedFiles'
        BY <1>1, <1>4, PathsAreNoMarks DEF IndexedFiles
    <2>2. ASSUME NEW f \in IndexedFiles
          PROVE  f \in IndexedFiles' \/ \E d \in overwritten' : f = hashes[d].path
      <3>1. PICK k \in MessageIds : index[k] # None /\ f = index[k]
          BY DEF IndexedFiles
      <3>2. CASE k # i
          BY <1>4, <3>1, <3>2 DEF IndexedFiles
      <3>3. CASE k = i
        <4> DEFINE d == Content(f)
        <4>1. d \in Contents /\ i \in References(d)
            BY <1>1, <1>3, <3>1, <3>3, ContentOfPath DEF References
        <4>2. f = hashes[d].path /\ d \in overwritten'
            BY <1>7, <3>1, <3>3, <4>1 DEF StoreInv, RecordsHold
        <4> QED
            BY <4>2
      <3> QED
          BY <3>2, <3>3
    <2>3. overwritten' \subseteq Contents /\ overwritten \subseteq overwritten'
        BY <1>2, <1>9 DEF StoreTypeOK
    <2>4. ASSUME NEW d \in overwritten'
          PROVE  /\ hashes'[d].path = IF d = c THEN p ELSE hashes[d].path
                 /\ d # c => hashes[d].path \in KeptFiles
      <3>1. d \in overwritten \/ i \in References(d)
          BY <1>7, <2>3
      <3>2. hashes[d].path \in KeptFiles
        <4>1. CASE d \in overwritten
            BY <4>1 DEF KeptFiles
        <4>2. CASE i \in References(d)
          <5>1. index[i] = hashes[d].path /\ index[i] # None
              BY <2>3, <4>2 DEF StoreInv, RecordsHold, References
          <5> QED
              BY <1>1, <5>1 DEF KeptFiles, IndexedFiles
        <4> QED
            BY <3>1, <4>1, <4>2
      <3> QED
          BY <1>5, <1>6, <2>3, <3>2
    <2>5. ASSUME NEW d \in overwritten' PROVE d # c => hashes[d].path \in KeptFiles'
        BY <2>4 DEF KeptFiles
    <2>6. hashes[c] # None => hashes[c].path = p
        BY <1>1
    <2>7. KeptFiles' \subseteq KeptFiles \cup {p}
        BY <2>1, <2>4 DEF KeptFiles
    <2>8. ASSUME NEW d \in overwritten' PROVE hashes[d].path \in KeptFiles'
      <3>1. d = c => hashes[c] # None
        <4>1. d \in overwritten \/ i \in References(d)
            BY <1>7, <2>3
        <4> QED
            BY <1>1, <4>1 DEF StoreInv, RecordsHold
      <3> QED
          BY <2>1, <2>5, <2>6, <3>1 DEF KeptFiles
    <2>9. KeptFiles \cup {p} \subseteq KeptFiles'
      <3>1. \A f \in IndexedFiles : f \in KeptFiles'
          BY <2>2, <2>8 DEF KeptFiles
      <3>2. \A d \in overwritten : hashes[d].path \in KeptFiles'
          BY <2>3, <2>8
      <3>3. p \in KeptFiles'
          BY <2>1 DEF KeptFiles
      <3> QED
          BY <3>1, <3>2, <3>3 DEF KeptFiles
    <2>10. ~littered => files = KeptFiles \cup {p}
        BY <1>1, <1>d DEF StoreInv, DiskHolds
    <2>11. torn' => littered'
        BY <1>2 DEF StoreInv, DiskHolds
    <2> QED
        BY <1>2, <2>7, <2>9, <2>10, <2>11 DEF DiskHolds, Idle
  <1> QED
      BY <1>9, <1>10, <1>11, <1>12, <1>13 DEF StoreInv

\* Only a file this save has made is taken back, and nothing refers to it yet.
LEMMA SaveStoredChatMessageFailsStep ==
  ASSUME StoreInv, SaveStoredChatMessageFails
  PROVE  StoreInv'
  <1>d. PICK p : p = job.path
      OBVIOUS
  <1>1. /\ job.step = "save" /\ p \in Paths /\ Content(p) \in Contents
        /\ hashes[Content(p)] # None => hashes[Content(p)].path = p /\ ~job.created
        /\ job.created \in BOOLEAN
      BY <1>d, JobKinds, ContentOfPath DEF SaveStoredChatMessageFails, StoreInv, JobHolds
  <1>2. /\ files' = IF job.created THEN files \ {p} ELSE files
        /\ job' = Idle
        /\ UNCHANGED <<messages, index, hashes, overwritten, torn, littered>>
      BY <1>d DEF SaveStoredChatMessageFails, UndoWrite
  <1>3. mishaps' \in 0 .. MaxMishaps
      BY MishapCount DEF SaveStoredChatMessageFails, StoreInv
  <1>4. ~Clearing /\ ~Clearing'
      BY <1>1, <1>2 DEF Clearing, Idle
  <1>5. \A c \in Contents : hashes[c] # None => hashes[c].path \in files'
    <2> SUFFICES ASSUME NEW c \in Contents, hashes[c] # None PROVE hashes[c].path \in files'
        OBVIOUS
    <2>1. hashes[c].path \in files /\ Content(hashes[c].path) = c
        BY DEF StoreInv, RecordsHold
    <2>2. CASE job.created
      <3>1. hashes[Content(p)] = None
          BY <1>1, <2>2
      <3> QED
          BY <1>2, <2>1, <3>1
    <2>3. CASE ~job.created
        BY <1>2, <2>1, <2>3
    <2> QED
        BY <2>2, <2>3
  <1>6. StoreTypeOK'
      BY <1>2, <1>3 DEF StoreInv, StoreTypeOK, Jobs
  <1>7. RowsAgree'
      BY <1>2 DEF StoreInv, RowsAgree
  <1>8. RecordsHold'
    <2>1. \A c \in Contents : References(c)' = References(c)
        BY <1>2 DEF References
    <2> QED
        BY <1>2, <1>4, <1>5, <2>1 DEF StoreInv, RecordsHold
  <1>9. JobHolds'
      BY <1>2, <1>4 DEF JobHolds, Idle, Clearing
  <1>10. DiskHolds'
    <2>1. KeptFiles' = KeptFiles
        BY <1>2 DEF KeptFiles, IndexedFiles
    <2>2. ~littered => files' = KeptFiles
      <3> SUFFICES ASSUME ~littered PROVE files' = KeptFiles
          OBVIOUS
      <3>1. files = KeptFiles \cup {p} /\ (job.created <=> p \notin KeptFiles)
          BY <1>1, <1>d DEF StoreInv, DiskHolds
      <3> QED
          BY <1>2, <3>1
    <2>3. torn' => littered'
        BY <1>2 DEF StoreInv, DiskHolds
    <2> QED
        BY <1>2, <2>1, <2>2, <2>3 DEF DiskHolds, Idle
  <1> QED
      BY <1>6, <1>7, <1>8, <1>9, <1>10 DEF StoreInv

-----------------------------------------------------------------------------
(* Clearing, and what cuts a job off.                                      *)

LEMMA ClearMessagesStep ==
  ASSUME StoreInv, ClearMessages
  PROVE  StoreInv'
  <1>1. /\ \A m \in Messages : messages'[m] = None
        /\ messages' \in [Rows -> Paths \cup {Plain, None}]
        /\ job'.step = "clearIndex" /\ job' # Idle /\ job' \in Jobs /\ Clearing'
        /\ UNCHANGED <<index, hashes, files, overwritten, torn, littered, mishaps>>
      BY RowIds DEF ClearMessages, Jobs, Idle, Clearing
  <1>2. StoreTypeOK'
      BY <1>1 DEF StoreInv, StoreTypeOK
  <1>3. RowsAgree'
      BY <1>1, PathsAreNoMarks DEF StoreInv, RowsAgree
  <1>4. RecordsHold'
    <2>1. \A c \in Contents : References(c)' = References(c)
        BY <1>1 DEF References
    <2> QED
        BY <1>1, <2>1 DEF StoreInv, RecordsHold
  <1>5. JobHolds'
      BY <1>1, PathsAreNoMarks DEF JobHolds
  <1>6. DiskHolds'
      BY <1>1 DEF StoreInv, DiskHolds
  <1> QED
      BY <1>2, <1>3, <1>4, <1>5, <1>6 DEF StoreInv

LEMMA ClearIndexStep ==
  ASSUME StoreInv, ClearIndex
  PROVE  StoreInv'
  <1>1. /\ job.step = "clearIndex" /\ Clearing
        /\ \A i \in MessageIds : index'[i] = None
        /\ index' \in [MessageIds -> Paths \cup {None}]
        /\ job'.step = "clearHashes" /\ job' # Idle /\ job' \in Jobs /\ Clearing'
        /\ UNCHANGED <<messages, hashes, files, overwritten, torn, littered, mishaps>>
      BY DEF ClearIndex, Jobs, Idle, Clearing
  <1>2. \A m \in Messages : messages[m] \notin Paths
      BY <1>1 DEF StoreInv, JobHolds
  <1>3. StoreTypeOK'
      BY <1>1 DEF StoreInv, StoreTypeOK
  <1>4. RowsAgree'
      BY <1>1, <1>2, RowIds DEF StoreInv, RowsAgree
  <1>5. RecordsHold'
    <2> SUFFICES ASSUME NEW c \in Contents
                 PROVE  (IF hashes'[c] = None THEN References(c)' = {} /\ c \notin overwritten'
                         ELSE /\ Content(hashes'[c].path) = c
                              /\ hashes'[c].path \in files'
                              /\ \A k \in References(c)' : index'[k] = hashes'[c].path
                              /\ hashes'[c].refs >= Cardinality(References(c)')
                              /\ c \in overwritten' => hashes'[c].refs > Cardinality(References(c)')
                              /\ torn' \/ Clearing' \/ c \in overwritten' \/ hashes'[c].refs = Cardinality(References(c)'))
        BY DEF RecordsHold
    <2>1. References(c)' = {}
        BY <1>1 DEF References
    <2>2. Cardinality(References(c)') = 0
        BY <2>1, FS_EmptySet
    <2>3. hashes[c] # None => hashes[c].refs \in Nat
        BY DEF StoreInv, StoreTypeOK
    <2>6. /\ hashes[c] = None => c \notin overwritten
          /\ hashes[c] # None /\ c \in overwritten => hashes[c].refs > 0
      <3>1. Cardinality(References(c)) \in Nat
          BY ReferencesFinite
      <3> QED
          BY <2>3, <3>1 DEF StoreInv, RecordsHold
    <2>4. hashes[c] # None => Content(hashes[c].path) = c /\ hashes[c].path \in files
        BY DEF StoreInv, RecordsHold
    <2>5. hashes'[c] = hashes[c] /\ files' = files
        BY <1>1
    <2> QED
        BY <1>1, <2>1, <2>2, <2>3, <2>4, <2>5, <2>6
  <1>6. JobHolds'
      BY <1>1, <1>2 DEF JobHolds
  <1>7. DiskHolds'
      BY <1>1 DEF StoreInv, DiskHolds
  <1> QED
      BY <1>3, <1>4, <1>5, <1>6, <1>7 DEF StoreInv

LEMMA ClearHashesStep ==
  ASSUME StoreInv, ClearHashes
  PROVE  StoreInv'
  <1>1. /\ job.step = "clearHashes" /\ Clearing
        /\ \A c \in Contents : hashes'[c] = None
        /\ hashes' \in [Contents -> [path : Paths, refs : Nat] \cup {None}]
        /\ job'.step = "clearFiles" /\ job' # Idle /\ job' \in Jobs /\ Clearing'
        /\ overwritten' = {}
        /\ UNCHANGED <<messages, index, files, torn, littered, mishaps>>
      BY DEF ClearHashes, Jobs, Idle, Clearing
  <1>2. /\ \A i \in MessageIds : index[i] = None
        /\ \A m \in Messages : messages[m] \notin Paths
      BY <1>1 DEF StoreInv, JobHolds
  <1>3. StoreTypeOK'
      BY <1>1 DEF StoreInv, StoreTypeOK
  <1>4. RowsAgree'
      BY <1>1 DEF StoreInv, RowsAgree
  <1>5. RecordsHold'
    <2>1. \A c \in Contents : References(c)' = {}
        BY <1>1, <1>2 DEF References
    <2> QED
        BY <1>1, <2>1 DEF RecordsHold
  <1>6. JobHolds'
      BY <1>1, <1>2 DEF JobHolds
  <1>7. DiskHolds'
      BY <1>1 DEF StoreInv, DiskHolds
  <1> QED
      BY <1>3, <1>4, <1>5, <1>6, <1>7 DEF StoreInv

LEMMA ClearFilesStep ==
  ASSUME StoreInv, ClearFiles
  PROVE  StoreInv'
  <1>1. /\ job.step = "clearFiles" /\ Clearing
        /\ files' = {} /\ job' = Idle
        /\ UNCHANGED <<messages, index, hashes, overwritten, torn, littered, mishaps>>
      BY DEF ClearFiles, Clearing
  <1>2. /\ \A i \in MessageIds : index[i] = None
        /\ \A c \in Contents : hashes[c] = None /\ c \notin overwritten
      BY <1>1 DEF StoreInv, JobHolds, RecordsHold
  <1>3. StoreTypeOK'
      BY <1>1 DEF StoreInv, StoreTypeOK, Jobs
  <1>4. RowsAgree'
      BY <1>1 DEF StoreInv, RowsAgree
  <1>5. RecordsHold'
    <2>1. \A c \in Contents : References(c)' = {}
        BY <1>1, <1>2 DEF References
    <2> QED
        BY <1>1, <1>2, <2>1 DEF RecordsHold
  <1>6. JobHolds'
      BY <1>1 DEF JobHolds, Idle, Clearing
  <1>7. DiskHolds'
    <2>1. KeptFiles' = {}
        BY <1>1, <1>2 DEF KeptFiles, IndexedFiles, StoreInv, StoreTypeOK, RecordsHold
    <2>2. torn' => littered'
        BY <1>1 DEF StoreInv, DiskHolds
    <2> QED
        BY <1>1, <2>1, <2>2 DEF DiskHolds, Idle
  <1> QED
      BY <1>3, <1>4, <1>5, <1>6, <1>7 DEF StoreInv

\* The process dies, or a clearing ends with an error: the job is over, and
\* the store stays as its last transaction left it.
LEMMA CutOffStep ==
  ASSUME StoreInv, ClearFails \/ Crash
  PROVE  StoreInv'
  <1>1. /\ UNCHANGED <<messages, index, hashes, files, overwritten>> /\ job' = Idle
        /\ mishaps' \in 0 .. MaxMishaps
      BY MishapCount DEF ClearFails, Crash, StoreInv
  <1>2. torn' \in BOOLEAN /\ littered' \in BOOLEAN
      BY DEF ClearFails, Crash, StoreInv, StoreTypeOK
  <1>3. /\ torn \/ Clearing => torn'
        /\ torn' => littered'
        /\ ~littered' => ~littered /\ job = Idle
    <2>1. (torn => littered) /\ (Clearing => job # Idle)
        BY DEF StoreInv, DiskHolds, Clearing, Idle
    <2>2. CASE ClearFails
      <3>1. torn' /\ littered'
          BY <2>2 DEF ClearFails
      <3> QED
          BY <3>1
    <2>3. CASE Crash
      <3>1. torn' = (torn \/ Clearing) /\ littered' = (littered \/ job # Idle)
          BY <2>3 DEF Crash
      <3> QED
          BY <2>1, <3>1, Zenon
    <2> QED
        BY <2>2, <2>3
  <1>4. StoreTypeOK'
      BY <1>1, <1>2 DEF StoreInv, StoreTypeOK, Jobs
  <1>5. RowsAgree'
      BY <1>1 DEF StoreInv, RowsAgree
  <1>6. RecordsHold'
    <2>1. \A c \in Contents : References(c)' = References(c)
        BY <1>1 DEF References
    <2> QED
        BY <1>1, <1>3, <2>1 DEF StoreInv, RecordsHold
  <1>7. JobHolds'
      BY <1>1 DEF JobHolds, Idle, Clearing
  <1>8. DiskHolds'
    <2>1. KeptFiles' = KeptFiles
        BY <1>1 DEF KeptFiles, IndexedFiles
    <2>2. ~littered' => files = KeptFiles
        BY <1>3 DEF StoreInv, DiskHolds
    <2> QED
        BY <1>1, <1>3, <2>1, <2>2 DEF DiskHolds, Idle
  <1> QED
      BY <1>4, <1>5, <1>6, <1>7, <1>8 DEF StoreInv

LEMMA StoreStutters ==
  ASSUME StoreInv, UNCHANGED storeVars
  PROVE  StoreInv'
  <1>1. UNCHANGED <<messages, index, hashes, files, job, overwritten, torn, littered, mishaps>>
      BY DEF storeVars
  <1>2. /\ \A c : References(c)' = References(c)
        /\ KeptFiles' = KeptFiles /\ Clearing' = Clearing
      BY <1>1 DEF References, KeptFiles, IndexedFiles, Clearing
  <1>3. StoreTypeOK' /\ RowsAgree' /\ RecordsHold'
      BY <1>1, <1>2 DEF StoreInv, StoreTypeOK, RowsAgree, RecordsHold
  <1>4. JobHolds' /\ DiskHolds'
      BY <1>1, <1>2 DEF StoreInv, JobHolds, Fresh, DiskHolds
  <1> QED
      BY <1>3, <1>4 DEF StoreInv

LEMMA StoreInitInv == StoreInit => StoreInv
  <1> SUFFICES ASSUME StoreInit PROVE StoreInv
      OBVIOUS
  <1>1. StoreTypeOK
    <2>1. mishaps \in 0 .. MaxMishaps
        BY StoreAssumption DEF StoreInit
    <2>2. job \in Jobs
        BY DEF StoreInit, Jobs
    <2> QED
        BY <2>1, <2>2 DEF StoreInit, StoreTypeOK
  <1>2. RowsAgree /\ JobHolds
      BY RowIds, PathsAreNoMarks DEF StoreInit, RowsAgree, JobHolds, Idle, Clearing
  <1>3. RecordsHold
      BY DEF StoreInit, RecordsHold, References
  <1>4. DiskHolds
      BY DEF StoreInit, DiskHolds, KeptFiles, IndexedFiles, Idle
  <1> QED
      BY <1>1, <1>2, <1>3, <1>4 DEF StoreInv

-----------------------------------------------------------------------------
(* What the store keeps.                                                   *)

\* Rows, records, files and the job under way fit together in every state the
\* store can reach, whatever fails and wherever the process dies.
THEOREM StoreCorrect == StoreSpec => []StoreInv
  <1>1. StoreInit => StoreInv
      BY StoreInitInv
  <1>2. StoreInv /\ [StoreNext]_storeVars => StoreInv'
    <2> SUFFICES ASSUME StoreInv, [StoreNext]_storeVars PROVE StoreInv'
        OBVIOUS
    <2>1. ASSUME NEW m \in Messages, SaveChatMessage(m) PROVE StoreInv'
        BY <2>1, SaveChatMessageStep
    <2>2. ASSUME NEW m \in Rows, NEW c \in Contents, NEW place \in Places,
                 WriteAttachmentStream(m, c, place)
          PROVE  StoreInv'
        BY <2>2, WriteAttachmentStreamStep
    <2>3. ASSUME NEW i \in MessageIds, DeleteChatMessage(i) PROVE StoreInv'
        BY <2>3, DeleteChatMessageStep
    <2>4. ASSUME NEW m \in Messages, RecallChatMessage(m) PROVE StoreInv'
        BY <2>4, RecallChatMessageStep
    <2>5. CASE SaveStoredChatMessage
        BY <2>5, SaveStoredChatMessageStep
    <2>6. CASE SaveStoredChatMessageFails
        BY <2>6, SaveStoredChatMessageFailsStep
    <2>7. ASSUME NEW v \in Conversations, DeleteChatConversation(v) PROVE StoreInv'
        BY <2>7, DeleteChatConversationStep
    <2>8. ASSUME NEW p \in Paths, RemoveFile(p) \/ RemoveFileFails(p) PROVE StoreInv'
        BY <2>8, RemoveFileStep
    <2>9. CASE ClearMessages
        BY <2>9, ClearMessagesStep
    <2>10. CASE ClearIndex
        BY <2>10, ClearIndexStep
    <2>11. CASE ClearHashes
        BY <2>11, ClearHashesStep
    <2>12. CASE ClearFiles
        BY <2>12, ClearFilesStep
    <2>13. CASE ClearFails \/ Crash
        BY <2>13, CutOffStep
    <2>14. CASE UNCHANGED storeVars
        BY <2>14, StoreStutters
    <2> QED
        BY <2>1, <2>2, <2>3, <2>4, <2>5, <2>6, <2>7, <2>8, <2>9, <2>10, <2>11, <2>12, <2>13,
           <2>14 DEF StoreNext
  <1> QED
      BY <1>1, <1>2, PTL DEF StoreSpec

\* Whatever attachment a message shows can be opened: SaveStoredChatMessage
\* writes the rows after the file is in place, and every deletion removes the
\* file only after the transaction that took the last row.
THEOREM AttachmentsAlwaysOpen == StoreSpec => []AttachmentsOpen
  <1>1. StoreInv => AttachmentsOpen
    <2> SUFFICES ASSUME StoreInv, NEW i \in MessageIds, index[i] # None PROVE index[i] \in files
        BY DEF AttachmentsOpen, StoreInv, RowsAgree
    <2>1. index[i] \in Paths
        BY DEF StoreInv, StoreTypeOK
    <2>2. Content(index[i]) \in Contents /\ i \in References(Content(index[i]))
        BY <2>1, ContentOfPath DEF References
    <2> QED
        BY <2>2 DEF StoreInv, RecordsHold
  <1> QED
      BY <1>1, StoreCorrect, PTL

\* The record of a content counts at least the messages that share its file,
\* and exactly those unless a clearing was cut off or WeChat delivered one of
\* them again: saveStoredChatMessage counts and releaseAttachmentReference
\* releases in the transactions that write the rows.
THEOREM CountsAlwaysCover == StoreSpec => []CountsCover
  <1>1. StoreInv => CountsCover
    <2>1. Cardinality({}) = 0
        BY FS_EmptySet
    <2> QED
        BY <2>1 DEF StoreInv, RecordsHold, CountsCover
  <1> QED
      BY <1>1, StoreCorrect, PTL

\* An attachment that was recalled or deleted leaves no file behind, unless a
\* file operation failed or was cut off, or a second delivery from WeChat had
\* its content counted twice.
THEOREM NothingEverLeftBehind == StoreSpec => []NothingLeftBehind
  <1>1. StoreInv => NothingLeftBehind
      BY DEF StoreInv, DiskHolds, KeptFiles, NothingLeftBehind
  <1> QED
      BY <1>1, StoreCorrect, PTL

-----------------------------------------------------------------------------
(* The order of the locks. *)

\* The kinds of calls are disjoint.
LEMMA Kinds ==
  /\ \A p \in Uploads : p \in Calls /\ p \notin Recalls \cup Deletions \cup Switches \cup Stops
  /\ \A p \in Recalls : p \in Calls /\ p \notin Uploads \cup Deletions \cup Switches \cup Stops
  /\ \A p \in Deletions : p \in Calls /\ p \notin Uploads \cup Recalls \cup Switches \cup Stops
  /\ \A p \in Switches : p \in Calls /\ p \notin Uploads \cup Recalls \cup Deletions \cup Stops
  /\ \A p \in Stops : p \in Calls /\ p \notin Uploads \cup Recalls \cup Deletions \cup Switches
  BY LocksAssumption DEF Calls

\* What a step of one call has to respect: where its kind can be, and a lock
\* that is free before it is taken.
Allowed(p, there) ==
  /\ p \in Calls /\ there \in Positions /\ Fits(p, there)
  /\ Go(p, there) /\ gate' \in BOOLEAN /\ severed' \in BOOLEAN
  /\ there = "streaming" => StoreFree
  /\ there = "holding the hub" => HubFree

\* Such a step keeps every call in its place and every lock with one holder.
LEMMA OneMoves ==
  ASSUME LocksTypeOK, NEW p, NEW there, Allowed(p, there)
  PROVE  LocksTypeOK'
  <1>1. /\ at' \in [Calls -> Positions] /\ at'[p] = there
        /\ \A q \in Calls : q # p => at'[q] = at[q]
      BY DEF LocksTypeOK, Allowed, Go
  <1>2. \A q \in Calls : Fits(q, at'[q])
      BY <1>1 DEF LocksTypeOK, Allowed
  <1>3. \A u, v \in Uploads : at'[u] = "streaming" /\ at'[v] = "streaming" => u = v
      BY <1>1, Kinds DEF LocksTypeOK, Allowed, StoreFree
  <1>4. \A r, q \in Recalls : at'[r] = "holding the hub" /\ at'[q] = "holding the hub" => r = q
      BY <1>1, Kinds DEF LocksTypeOK, Allowed, HubFree
  <1>5. gate' \in BOOLEAN /\ severed' \in BOOLEAN
      BY DEF Allowed
  <1> QED
      BY <1>1, <1>2, <1>3, <1>4, <1>5 DEF LocksTypeOK, Fits

LEMMA LocksTypeStep == LocksTypeOK /\ [LocksNext]_lockVars => LocksTypeOK'
  <1> SUFFICES ASSUME LocksTypeOK, [LocksNext]_lockVars PROVE LocksTypeOK'
      OBVIOUS
  <1> USE Kinds DEF Allowed, Fits, Positions, UploadPlaces, RecallPlaces, DeletionPlaces,
                    SwitchPlaces, StopPlaces
  <1>0. gate \in BOOLEAN /\ severed \in BOOLEAN
      BY DEF LocksTypeOK
  <1>1. ASSUME NEW u \in Uploads, Begin(u) \/ BodyEnds(u) \/ UploadStep(u) PROVE LocksTypeOK'
    <2>1. CASE Begin(u)
      <3>1. Allowed(u, "arrived")
          BY <1>0, <2>1 DEF Begin
      <3> QED
          BY <3>1, OneMoves
    <2>2. CASE AdmitUpload(u)
      <3>1. Allowed(u, "admitted")
          BY <1>0, <2>2 DEF AdmitUpload
      <3> QED
          BY <3>1, OneMoves
    <2>3. CASE TakeStore(u)
      <3>1. Allowed(u, "streaming")
          BY <1>0, <2>3 DEF TakeStore
      <3> QED
          BY <3>1, OneMoves
    <2>4. CASE BodyEnds(u)
      <3>1. Allowed(u, "saved")
          BY <1>0, <2>4 DEF BodyEnds
      <3> QED
          BY <3>1, OneMoves
    <2>5. CASE BodyCut(u)
      <3>1. Allowed(u, "done")
          BY <1>0, <2>5 DEF BodyCut
      <3> QED
          BY <3>1, OneMoves
    <2>6. CASE Publish(u)
      <3>1. Allowed(u, "done")
          BY <1>0, <2>6 DEF Publish
      <3> QED
          BY <3>1, OneMoves
    <2> QED
        BY <1>1, <2>1, <2>2, <2>3, <2>4, <2>5, <2>6 DEF UploadStep
  <1>2. ASSUME NEW r \in Recalls, RecallStep(r) PROVE LocksTypeOK'
    <2>1. CASE RecallTakesHub(r)
      <3>1. Allowed(r, "holding the hub")
          BY <1>0, <2>1 DEF RecallTakesHub
      <3> QED
          BY <3>1, OneMoves
    <2>2. CASE RecallRefused(r)
      <3>1. Allowed(r, "done")
          BY <1>0, <2>2 DEF RecallRefused
      <3> QED
          BY <3>1, OneMoves
    <2>3. CASE RecallReturns(r)
      <3>1. Allowed(r, "done")
          BY <1>0, <2>3 DEF RecallReturns
      <3> QED
          BY <3>1, OneMoves
    <2> QED
        BY <1>2, <2>1, <2>2, <2>3 DEF RecallStep
  <1>3. ASSUME NEW d \in Deletions, DeletionStep(d) PROVE LocksTypeOK'
    <2>1. CASE DeletionUnlocks(d)
      <3>1. Allowed(d, "unlocked")
          BY <1>0, <2>1 DEF DeletionUnlocks
      <3> QED
          BY <3>1, OneMoves
    <2>2. CASE DeletionReturns(d)
      <3>1. Allowed(d, "done")
          BY <1>0, <2>2 DEF DeletionReturns
      <3> QED
          BY <3>1, OneMoves
    <2> QED
        BY <1>3, <2>1, <2>2 DEF DeletionStep
  <1>4. ASSUME NEW w \in Switches, SwitchReturns(w) PROVE LocksTypeOK'
    <2>1. CASE SwitchReturns(w)
      <3>1. Allowed(w, "done")
          BY <1>0, <2>1 DEF SwitchReturns
      <3> QED
          BY <3>1, OneMoves
    <2> QED
        BY <1>4, <2>1
  <1>5. ASSUME NEW s \in Stops, StopStep(s) PROVE LocksTypeOK'
    <2>1. CASE StopTakesLife(s)
      <3>1. Allowed(s, "stopping")
          BY <1>0, <2>1 DEF StopTakesLife
      <3> QED
          BY <3>1, OneMoves
    <2>2. CASE StopPausesHub(s)
      <3>1. Allowed(s, "paused")
          BY <1>0, <2>2 DEF StopPausesHub
      <3> QED
          BY <3>1, OneMoves
    <2>3. CASE StopSevers(s)
      <3>1. Allowed(s, "severing")
          BY <1>0, <2>3 DEF StopSevers
      <3> QED
          BY <3>1, OneMoves
    <2>4. CASE StopReturned(s)
      <3>1. Allowed(s, "done")
          BY <1>0, <2>4 DEF StopReturned
      <3> QED
          BY <3>1, OneMoves
    <2> QED
        BY <1>5, <2>1, <2>2, <2>3, <2>4 DEF StopStep
  <1>6. ASSUME NEW p \in Calls, Request(p) PROVE LocksTypeOK'
    <2>1. Allowed(p, "called")
        BY <1>0, <1>6 DEF Request
    <2> QED
        BY <2>1, OneMoves
  <1>7. CASE UNCHANGED lockVars
      BY <1>7 DEF lockVars, LocksTypeOK
  <1> QED
      BY <1>1, <1>2, <1>3, <1>4, <1>5, <1>6, <1>7 DEF LocksNext

\* No lock ever has two holders and every call is where its kind can be
\* (recallPeerMessage, SaveChatAttachment, Stop and the others).
THEOREM LocksTypeCorrect == LocksSpec => []LocksTypeOK
  <1>1. ASSUME LocksInit PROVE LocksTypeOK
    <2>1. \A p \in Calls : at[p] = "idle" /\ Fits(p, "idle")
        BY <1>1 DEF LocksInit, Fits, UploadPlaces, RecallPlaces, DeletionPlaces, SwitchPlaces,
           StopPlaces
    <2>2. at \in [Calls -> Positions]
        BY <1>1 DEF LocksInit, Positions, UploadPlaces
    <2> QED
        BY <1>1, <2>1, <2>2, Kinds DEF LocksInit, LocksTypeOK
  <1> QED
      BY <1>1, LocksTypeStep, PTL DEF LocksSpec

\* When no upload streams, whoever is inside a call can be helped on: the hub's
\* holder waits for nobody, then the callers at the hub, then those at the
\* attachment lock, and what is left of Stop waits for requests that returned.
LEMMA NobodyStuck ==
  ASSUME LocksTypeOK, StoreFree, NEW p \in Calls, at[p] \notin {"idle", "done"}
  PROVE  SomebodyMoves
  <1> USE Kinds DEF LocksTypeOK, Calls, Fits, UploadPlaces, RecallPlaces, DeletionPlaces,
                    SwitchPlaces, StopPlaces
  <1>1. CASE ~HubFree
      BY <1>1 DEF HubFree, SomebodyMoves
  <1>2. CASE HubFree /\ \E q \in Uploads \cup Recalls : at[q] \notin {"idle", "done"}
    <2> PICK q \in Uploads \cup Recalls : at[q] \notin {"idle", "done"}
        BY <1>2
    <2>1. CASE q \in Uploads
        BY <1>2, <2>1 DEF SomebodyMoves, StoreFree
    <2>2. CASE q \in Recalls
        BY <1>2, <2>2 DEF SomebodyMoves, HubFree
    <2> QED
        BY <2>1, <2>2
  <1>3. CASE HubFree /\ \A q \in Uploads \cup Recalls : at[q] \in {"idle", "done"}
    <2>1. HandlersReturned
        BY <1>3 DEF HandlersReturned
    <2>2. p \in Deletions \cup Switches \cup Stops
        BY <1>3
    <2>3. CASE p \in Deletions \cup Switches
        BY <1>3, <2>3 DEF SomebodyMoves
    <2>4. CASE p \in Stops
      <3>1. CASE LifeFree
          BY <2>4, <3>1 DEF SomebodyMoves, LifeFree
      <3>2. CASE ~LifeFree
          BY <1>3, <2>1, <3>2 DEF SomebodyMoves, LifeFree
      <3> QED
          BY <3>1, <3>2
    <2> QED
        BY <2>2, <2>3, <2>4
  <1> QED
      BY <1>1, <1>2, <1>3

\* The locks alone never deadlock: as long as a call is open one of them can go
\* on, or a browser that streams is what they wait for.
THEOREM NoDeadlock == LocksSpec => []WaitsEndAtBrowser
  <1>1. LocksTypeOK => WaitsEndAtBrowser
      BY NobodyStuck DEF WaitsEndAtBrowser, StoreFree
  <1> QED
      BY <1>1, LocksTypeCorrect, PTL
=============================================================================
