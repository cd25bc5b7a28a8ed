---------------------------- MODULE ChatMessages ----------------------------
(***************************************************************************)
(* Messages of the chat: the histories chatHub keeps in memory beside the  *)
(* rows of the database. Texts are stored and shown in one critical        *)
(* section of the hub; an upload is admitted in one, streamed and saved    *)
(* outside the lock, and published or discarded in another; clearing,      *)
(* deleting and removing a visitor change the memory first and the         *)
(* database after unlocking. Receipts and recalls change both under the    *)
(* lock, and a restart loads the rows again.                               *)
(***************************************************************************)
EXTENDS Naturals, Sequences, FiniteSets, SequencesExt, FiniteSetsExt, Subsequences

CONSTANTS
  Clients,      \* identities of browsers
  Admin,        \* the desktop administrator as a sender
  Groups,       \* user-created groups
  MaxHistory,   \* messages kept and loaded per conversation
  MaxBytes,     \* weight of the messages kept per conversation
  MaxConversations, \* chatMaxConversations: conversations with the administrator kept
  MaxMessages,  \* bound of the model: messages ever sent
  MaxDisturbed, \* bound of the model: messages of a run with chores and mishaps
  MaxUploads,   \* bound of the model: uploads among them
  MaxJobs,      \* bound of the model: calls between their two steps
  MaxChores,    \* bound of the model: calls of the administrator and leavers
  MaxMishaps    \* bound of the model: crashes, lost connections, failed database calls

ASSUME MessagesAssumption ==
  /\ Admin \notin Clients
  /\ {MaxHistory, MaxBytes, MaxConversations, MaxMessages, MaxDisturbed, MaxUploads, MaxJobs,
     MaxChores, MaxMishaps} \subseteq Nat
  /\ MaxHistory > 0

VARIABLES
  enabled, groupMode, private,   \* switches; private: user list and private messages
  link,            \* link[c]: gone, online, or detached with its readPump still running
  chats,           \* clients with an administrator conversation in memory
  unavailable,     \* clients that are unknown or blacklisted as targets
  members,         \* members[g]; a dissolved group has none
  sent,            \* every message ever built: sender, conversation, text or upload
  shown, bytes,    \* history and historyBytes of each conversation
  recalledShown, readShown,            \* marks of messages in memory
  stored, recalledStored, readStored,  \* rows and their marks
  jobs,            \* calls that still have steps to take
  cut, undelivered, swept, abandoned,  \* what explains a difference of memory and rows;
                                       \* cut: pushed out of memory by a cap
  chores, mishaps

switches == <<enabled, groupMode, private>>
people   == <<link, chats, unavailable, members>>
memory   == <<shown, bytes, recalledShown, readShown>>
rows     == <<stored, recalledStored, readStored>>
notes    == <<cut, undelivered, swept, abandoned>>
bounds   == <<chores, mishaps>>
messageVars == <<switches, people, sent, memory, rows, jobs, notes, bounds>>

-----------------------------------------------------------------------------
(* Conversations and histories. *)

Conversation(kind, of) == [kind |-> kind, of |-> of]
SystemGroup  == Conversation("group", {})
AdminChat(c) == Conversation("admin", {c})
Direct(c, d) == Conversation("direct", {c, d})
GroupChat(g) == Conversation("userGroup", {g})
Conversations ==
  {SystemGroup} \cup {AdminChat(c) : c \in Clients} \cup {GroupChat(g) : g \in Groups}
    \cup ({Direct(c, d) : c, d \in Clients} \ {Direct(c, c) : c \in Clients})

Ids == 1 .. Len(sent)
Shown == UNION {ToSet(shown[k]) : k \in Conversations}
Online == {c \in Clients : link[c] = "online"}

\* chatMessageHistoryBytes: a text weighs one, an upload or a recalled
\* message nothing.
WeightOf(log, recalled, ids) == Cardinality({id \in ids \ recalled : log[id].text})

\* How many of the oldest messages the caps push out of history s, whose
\* counter stands at total. User groups are cut by number only.
Excess(k, log, recalled, s, total) ==
  Min({n \in 0 .. Len(s) :
         \/ n = Len(s)
         \/ /\ Len(s) - n <= MaxHistory
            /\ \/ k.kind = "userGroup"
               \/ total - WeightOf(log, recalled, ToSet(SubSeq(s, 1, n))) <= MaxBytes})

\* evictOldestOfflineLocked, before c gets an entry: when the table is full
\* the oldest conversation without a connection leaves memory; its rows stay.
\* Which one is the oldest is left open. There is no member when the table is
\* full of clients that are online, and c is refused.
RoomFor(c) ==
  IF c \in chats \/ Cardinality(chats) < MaxConversations THEN {{}}
  ELSE {{d} : d \in chats \ Online}

AdminChats(out) == {AdminChat(d) : d \in out}
Entered(c, out) == chats' = (chats \ out) \cup {c}
Forget(histories, out, nothing) ==
  [k \in Conversations |-> IF k \in AdminChats(out) THEN nothing ELSE histories[k]]
LostWith(out) == {id \in Shown : sent[id].to \in AdminChats(out)}

Evict(out) ==
  /\ shown' = Forget(shown, out, <<>>) /\ bytes' = Forget(bytes, out, 0)
  /\ cut' = cut \cup LostWith(out)
  /\ UNCHANGED <<recalledShown, readShown>>

\* One message more, after the conversations of out have been evicted.
AppendChatMessage(k, id, log, out) ==
  LET s     == Append(shown[k], id)
      total == bytes[k] + WeightOf(log, recalledShown, {id})
      n     == Excess(k, log, recalledShown, s, total)
      old   == ToSet(SubSeq(s, 1, n))
  IN  /\ shown' = [Forget(shown, out, <<>>) EXCEPT ![k] = SubSeq(s, n + 1, Len(s))]
      /\ bytes' = [Forget(bytes, out, 0) EXCEPT ![k] = total - WeightOf(log, recalledShown, old)]
      /\ cut' = cut \cup LostWith(out) \cup old
      /\ UNCHANGED <<recalledShown, readShown>>

-----------------------------------------------------------------------------
\* One client is connected; the others have been removed from the list of
\* users before, which leaves them in their groups.
MessagesInit ==
  /\ enabled = TRUE /\ groupMode \in BOOLEAN /\ private = TRUE
  /\ chats \in {{c} : c \in Clients} /\ unavailable = Clients \ chats
  /\ link = [c \in Clients |-> IF c \in chats THEN "online" ELSE "gone"]
  /\ members = [g \in Groups |-> Clients]
  /\ sent = <<>>
  /\ shown = [k \in Conversations |-> <<>>]
  /\ bytes = [k \in Conversations |-> 0]
  /\ recalledShown = {} /\ readShown = {}
  /\ stored = {} /\ recalledStored = {} /\ readStored = {}
  /\ jobs = {}
  /\ cut = {} /\ undelivered = {} /\ swept = {} /\ abandoned = {}
  /\ chores = 0 /\ mishaps = 0

-----------------------------------------------------------------------------
(* Connections, as far as messages look at them (ChatHub has them in full). *)

\* The request of the page may have made the entry of c before, and asks for no
\* room (ObserveChatAccount).
Connect(c) ==
  /\ enabled /\ link[c] = "gone"
  /\ \E out \in RoomFor(c) \cup {{}} : Entered(c, out) /\ Evict(out)
  /\ link' = [link EXCEPT ![c] = "online"]
  /\ unavailable' = unavailable \ {c}
  /\ UNCHANGED <<switches, members, sent, rows, jobs, undelivered, swept, abandoned, bounds>>

MayBeDisturbed == Len(sent) <= MaxDisturbed
Mishap == mishaps < MaxMishaps /\ mishaps' = mishaps + 1 /\ UNCHANGED chores
RoomForMessage == Len(sent) < IF chores + mishaps = 0 THEN MaxMessages ELSE MaxDisturbed

\* A connection the hub let go ends by itself; any other one is a loss.
HangUp(c) ==
  /\ link[c] # "gone"
  /\ IF link[c] = "online" THEN MayBeDisturbed /\ Mishap ELSE UNCHANGED bounds
  /\ link' = [link EXCEPT ![c] = "gone"]
  /\ UNCHANGED <<switches, chats, unavailable, members, sent, memory, rows, jobs, notes>>

Detached(who) == [c \in Clients |-> IF c \in who /\ link[c] = "online" THEN "detached" ELSE link[c]]

-----------------------------------------------------------------------------
(* Texts: persisted first, then appended and put into the queues, all under *)
(* the hub's lock. taken says whether any queue took the frame.             *)

Persist(by, k, appended, out) ==
  LET id  == Len(sent) + 1
      log == Append(sent, [by |-> by, to |-> k, text |-> TRUE])
  IN  /\ RoomForMessage
      /\ sent' = log
      /\ stored' = stored \cup {id}
      /\ IF appended THEN AppendChatMessage(k, id, log, out) /\ UNCHANGED undelivered
                     ELSE undelivered' = undelivered \cup {id} /\ Evict(out)
      /\ UNCHANGED <<recalledStored, readStored, swept, abandoned>>

\* receivePeerChatMessage: to the system group, or to the administrator in
\* the legacy mode, where an error follows when no queue took the frame. The
\* entry of c comes first: a new one stays when the name is missing or the
\* save fails.
ReceivePeerChatMessage(c, taken) ==
  /\ enabled /\ link[c] = "online"
  /\ \E out \in RoomFor(c) :
       /\ Entered(c, out)
       /\ \/ groupMode /\ taken /\ Persist(c, SystemGroup, TRUE, out)
          \/ ~groupMode /\ Persist(c, AdminChat(c), taken, out)
          \/ /\ ~taken /\ c \notin chats
             /\ Evict(out) /\ UNCHANGED <<sent, rows, undelivered, swept, abandoned>>
  /\ UNCHANGED <<switches, link, unavailable, members, jobs, bounds>>

ReceiveDirectMessage(c, d) ==
  /\ c # d /\ enabled /\ link[c] = "online" /\ private
  /\ d \notin unavailable
  /\ unavailable' = unavailable \ {c}
  /\ Persist(c, Direct(c, d), TRUE, {})
  /\ UNCHANGED <<switches, link, chats, members, jobs, bounds>>

\* Shown whether or not a queue takes the frame.
ReceiveAdministratorPrivateMessage(c) ==
  /\ enabled /\ link[c] = "online" /\ private
  /\ unavailable' = unavailable \ {c}
  /\ chats' = chats \cup {c}
  /\ Persist(c, AdminChat(c), TRUE, {})
  /\ UNCHANGED <<switches, link, members, jobs, bounds>>

\* Membership is all that is asked for: neither the switch nor the registry.
ReceiveUserGroupMessage(c, g) ==
  /\ link[c] # "gone" /\ c \in members[g]
  /\ unavailable' = unavailable \ {c}
  /\ Persist(c, GroupChat(g), TRUE, {})
  /\ UNCHANGED <<switches, link, chats, members, jobs, bounds>>

SendAdminToAll ==
  /\ enabled /\ groupMode
  /\ Persist(Admin, SystemGroup, TRUE, {})
  /\ UNCHANGED <<switches, people, jobs, bounds>>

SendAdminChatMessage(c, taken) ==
  /\ enabled /\ link[c] = "online"
  /\ IF groupMode THEN private /\ c \notin unavailable ELSE c \in chats
  /\ chats' = chats \cup {c}
  /\ Persist(Admin, AdminChat(c), taken, {})
  /\ UNCHANGED <<switches, link, unavailable, members, jobs, bounds>>

-----------------------------------------------------------------------------
(* Receipts and recalls: database first, then memory, under the hub's lock. *)

Unread(c, d) ==
  {id \in ToSet(shown[Direct(c, d)]) : sent[id].by = d /\ id \notin readShown}

MarkMessagesRead_InMemoryOnly(c, d, ids) ==
  /\ d # c /\ enabled /\ link[c] = "online"
  /\ ids # {} /\ ids \subseteq Unread(c, d)
  /\ readShown' = readShown \cup ids
  /\ UNCHANGED <<switches, people, sent, shown, bytes, recalledShown, rows, jobs, notes, bounds>>

\* The database's side: a receipt is set once, a missing row is passed over.
MarkChatMessagesRead(ids) == readStored' = readStored \cup (ids \cap stored)

\* c reports the messages it sees in the chat with d it looks at.
MarkMessagesRead(c, d, ids) ==
  /\ d # c /\ enabled /\ link[c] = "online"
  /\ ids # {} /\ ids \subseteq Unread(c, d)
  /\ MarkChatMessagesRead(ids)
  /\ readShown' = readShown \cup ids
  /\ UNCHANGED <<switches, people, sent, shown, bytes, recalledShown, stored, recalledStored,
                 jobs, notes, bounds>>

\* Where recallPeerMessage looks for a message of c.
Recallable(c) ==
  (IF groupMode THEN {SystemGroup} ELSE {})
    \cup {GroupChat(g) : g \in {g \in Groups : c \in members[g]}}
    \cup {Direct(c, d) : d \in Clients \ {c}}

RecallChatMessage(id) == id \in stored /\ recalledStored' = recalledStored \cup {id}

RecallPeerMessage_KeepsBytes(c, id) ==
  /\ enabled /\ link[c] = "online"
  /\ id \notin recalledShown /\ sent[id].by = c
  /\ \E k \in Recallable(c) : id \in ToSet(shown[k])
  /\ RecallChatMessage(id)
  /\ recalledShown' = recalledShown \cup {id}
  /\ readShown' = IF id \in readStored THEN readShown \cup {id} ELSE readShown \ {id}
  /\ UNCHANGED <<switches, people, sent, shown, bytes, stored, readStored, jobs, notes, bounds>>

\* The message in memory becomes the row that was written.
RecallPeerMessage(c, id) ==
  /\ enabled /\ link[c] = "online"
  /\ id \notin recalledShown /\ sent[id].by = c
  /\ \E k \in Recallable(c) :
       /\ id \in ToSet(shown[k])
       /\ bytes' = [bytes EXCEPT ![k] = @ - WeightOf(sent, recalledShown, {id})]
  /\ RecallChatMessage(id)
  /\ recalledShown' = recalledShown \cup {id}
  /\ readShown' = IF id \in readStored THEN readShown \cup {id} ELSE readShown \ {id}
  /\ UNCHANGED <<switches, people, sent, shown, stored, readStored, jobs, notes, bounds>>

-----------------------------------------------------------------------------
(* Uploads. A job carries the message and the route it was admitted on;     *)
(* the message has its time, and so its place among the rows, from here.    *)

Job(kind, step, id, who) == [kind |-> kind, step |-> step, id |-> id, who |-> who]
Begun(job) == Cardinality(jobs) < MaxJobs /\ jobs' = jobs \cup {job}
Advanced(job, step) == jobs' = (jobs \ {job}) \cup {[job EXCEPT !.step = step]}
Ended(job) == jobs' = jobs \ {job}

Admit(by, k, route, who, out) ==
  /\ RoomForMessage /\ Cardinality({id \in Ids : ~sent[id].text}) < MaxUploads
  /\ sent' = Append(sent, [by |-> by, to |-> k, text |-> FALSE])
  /\ Begun(Job(route, "streaming", Len(sent) + 1, who))
  /\ Evict(out)
  /\ UNCHANGED <<switches, link, members, rows, undelivered, swept, abandoned, bounds>>

ReceiveHTTPAttachment(c) ==
  /\ enabled /\ link[c] = "online"
  /\ unavailable' = unavailable \ {c}
  /\ \/ private /\ chats' = chats \cup {c} /\ Admit(c, AdminChat(c), "private", c, {})
     \/ /\ private /\ UNCHANGED chats
        /\ \E d \in Clients \ (unavailable \cup {c}) : Admit(c, Direct(c, d), "direct", c, {})
     \/ /\ UNCHANGED chats
        /\ \E g \in Groups : c \in members[g] /\ Admit(c, GroupChat(g), "userGroup", c, {})
     \/ groupMode /\ UNCHANGED chats /\ Admit(c, SystemGroup, "group", c, {})
     \/ /\ ~groupMode
        /\ \E out \in RoomFor(c) : Entered(c, out) /\ Admit(c, AdminChat(c), "legacy", c, out)

ReceiveAdminAttachment ==
  /\ enabled /\ UNCHANGED unavailable
  /\ \/ groupMode /\ UNCHANGED chats /\ Admit(Admin, SystemGroup, "adminGroup", Admin, {})
     \/ \E c \in Online :
          \/ /\ groupMode /\ private /\ c \notin unavailable
             /\ chats' = chats \cup {c}
             /\ Admit(Admin, AdminChat(c), "adminPrivate", c, {})
          \/ /\ ~groupMode /\ c \in chats
             /\ UNCHANGED chats
             /\ Admit(Admin, AdminChat(c), "adminLegacy", c, {})

AttachmentSaved(job) ==
  /\ job.step = "streaming"
  /\ stored' = stored \cup {job.id}
  /\ Advanced(job, "saved")
  /\ UNCHANGED <<switches, people, sent, memory, recalledStored, readStored, notes, bounds>>

\* The body breaks off, is too large, or the transaction fails.
AttachmentNotSaved(job) ==
  /\ job.step = "streaming"
  /\ Ended(job)
  /\ UNCHANGED <<switches, people, sent, memory, rows, notes, bounds>>

\* What is tested again before a message is published.
StillValid(job) ==
  /\ enabled
  /\ CASE job.kind = "private"      -> link[job.who] = "online" /\ private
       [] job.kind = "direct"       -> /\ link[job.who] = "online" /\ private
                                       /\ (sent[job.id].to.of \ {job.who}) \cap unavailable = {}
       [] job.kind = "userGroup"    -> /\ link[job.who] = "online"
                                       /\ \E g \in Groups : /\ sent[job.id].to = GroupChat(g)
                                                            /\ job.who \in members[g]
       [] job.kind = "group"        -> link[job.who] = "online" /\ groupMode
       [] job.kind = "legacy"       -> link[job.who] = "online" /\ ~groupMode
       [] job.kind = "adminGroup"   -> groupMode
       [] job.kind = "adminPrivate" -> groupMode /\ private /\ link[job.who] = "online"
       [] job.kind = "adminLegacy"  -> ~groupMode /\ link[job.who] = "online"
  /\ sent[job.id].to.kind = "admin" => sent[job.id].to.of \subseteq chats

AttachmentPublished_BeforeSaving(job) ==
  /\ job.step = "streaming" /\ StillValid(job)
  /\ AppendChatMessage(sent[job.id].to, job.id, sent, {})
  /\ Ended(job)
  /\ UNCHANGED <<switches, people, sent, rows, undelivered, swept, abandoned, bounds>>

AttachmentPublished(job) ==
  /\ job.step = "saved" /\ StillValid(job)
  /\ AppendChatMessage(sent[job.id].to, job.id, sent, {})
  /\ Ended(job)
  /\ UNCHANGED <<switches, people, sent, rows, undelivered, swept, abandoned, bounds>>

AttachmentRefused_KeepsTheRow(job) ==
  /\ job.step = "saved" /\ ~StillValid(job)
  /\ Ended(job)
  /\ UNCHANGED <<switches, people, sent, memory, rows, notes, bounds>>

AttachmentRefused(job) ==
  /\ job.step = "saved" /\ ~StillValid(job)
  /\ Advanced(job, "refused")
  /\ UNCHANGED <<switches, people, sent, memory, rows, notes, bounds>>

Erased(ids) ==
  /\ stored' = stored \ ids
  /\ recalledStored' = recalledStored \ ids
  /\ readStored' = readStored \ ids

\* Rows that disappear under a message in memory, or one about to be there.
SweptWith(ids) == ids \cap (Shown \cup {j.id : j \in {j \in jobs : j.step = "saved"}})

\* DeleteChatMessage of the database, for a refused upload or a deletion.
RowDeleted(job) ==
  /\ job.step \in {"refused", "delete"}
  /\ Erased({job.id})
  /\ swept' = swept \cup SweptWith({job.id})
  /\ Ended(job)
  /\ UNCHANGED <<switches, people, sent, memory, cut, undelivered, abandoned, bounds>>

-----------------------------------------------------------------------------
(* The administrator. *)

Chore == MayBeDisturbed /\ chores < MaxChores /\ chores' = chores + 1 /\ UNCHANGED mishaps

\* Only switching off counts, so that the bound never leaves the chat off.
SetEnabled ==
  /\ IF enabled THEN Chore ELSE UNCHANGED bounds
  /\ enabled' = ~enabled
  /\ link' = IF enabled THEN Detached(Clients) ELSE link
  /\ UNCHANGED <<groupMode, private, chats, unavailable, members, sent, memory, rows,
                 jobs, notes>>

SetGroupEnabled ==
  /\ Chore
  /\ groupMode' = ~groupMode
  /\ link' = Detached(Clients)
  /\ UNCHANGED <<enabled, private, chats, unavailable, members, sent, memory, rows,
                 jobs, notes>>

SetPrivateMessagesEnabled ==
  /\ Chore
  /\ private' = ~private
  /\ UNCHANGED <<enabled, groupMode, people, sent, memory, rows, jobs, notes>>

SetChatUserBlacklisted(c) ==
  /\ Chore
  /\ unavailable' = unavailable \cup {c}
  /\ link' = Detached({c})
  /\ UNCHANGED <<switches, chats, members, sent, memory, rows, jobs, notes>>

\* A member leaves, is removed, or the whole group goes; the rows of its
\* messages stay.
GroupShrinks(g, left) ==
  /\ Chore
  /\ left # members[g] /\ left \subseteq members[g]
  /\ members' = [members EXCEPT ![g] = left]
  /\ shown' = IF left = {} THEN [shown EXCEPT ![GroupChat(g)] = <<>>] ELSE shown
  /\ bytes' = IF left = {} THEN [bytes EXCEPT ![GroupChat(g)] = 0] ELSE bytes
  /\ UNCHANGED <<switches, link, chats, unavailable, sent, recalledShown, readShown,
                 rows, jobs, notes>>

Without(s, id) ==
  IF id \in ToSet(s) THEN RemoveAt(s, CHOOSE n \in DOMAIN s : s[n] = id) ELSE s

DeleteChatMessage(id) ==
  /\ Chore
  /\ id \in Shown \cup stored
  /\ shown' = [k \in Conversations |-> Without(shown[k], id)]
  /\ bytes' = [k \in Conversations |->
                 IF id \in ToSet(shown[k]) THEN bytes[k] - WeightOf(sent, recalledShown, {id})
                                           ELSE bytes[k]]
  /\ Begun(Job("delete", "delete", id, Admin))
  /\ UNCHANGED <<switches, people, sent, recalledShown, readShown, rows, notes>>

\* The histories of user groups stay.
Emptied(k) == k.kind # "userGroup"
ClearChatHistory ==
  /\ Chore
  /\ shown' = [k \in Conversations |-> IF Emptied(k) THEN <<>> ELSE shown[k]]
  /\ bytes' = [k \in Conversations |-> IF Emptied(k) THEN 0 ELSE bytes[k]]
  /\ Begun(Job("clear", "clear", 0, Admin))
  /\ UNCHANGED <<switches, people, sent, recalledShown, readShown, rows, notes>>

RowsCleared(job) ==
  /\ job.step = "clear"
  /\ Erased(stored)
  /\ swept' = swept \cup SweptWith(stored)
  /\ Ended(job)
  /\ UNCHANGED <<switches, people, sent, memory, cut, undelivered, abandoned, bounds>>

RemoveChatVisitor(c) ==
  /\ Chore
  /\ c \in chats \/ c \notin unavailable
  /\ chats' = chats \ {c}
  /\ unavailable' = unavailable \cup {c}
  /\ shown' = [shown EXCEPT ![AdminChat(c)] = <<>>]
  /\ bytes' = [bytes EXCEPT ![AdminChat(c)] = 0]
  /\ Begun(Job("visitor", "visitor", 0, c))
  /\ UNCHANGED <<switches, link, members, sent, recalledShown, readShown, rows, notes>>

RowsOf(k) == {id \in stored : sent[id].to = k}
VisitorRowsDeleted(job) ==
  /\ job.step = "visitor"
  /\ Erased(RowsOf(AdminChat(job.who)))
  /\ swept' = swept \cup SweptWith(RowsOf(AdminChat(job.who)))
  /\ Ended(job)
  /\ UNCHANGED <<switches, people, sent, memory, cut, undelivered, abandoned, bounds>>

-----------------------------------------------------------------------------
(* Failures and restarts. *)

\* The rows a call in flight was about to delete, or to publish.
RowsAtStake(job) ==
  CASE job.step \in {"refused", "delete", "saved"} -> {job.id}
    [] job.step = "clear"   -> stored
    [] job.step = "visitor" -> RowsOf(AdminChat(job.who))
    [] OTHER                -> {}

\* Deleting rows fails; the memory has changed already.
DeletionFails(job) ==
  /\ job.step \in {"refused", "delete", "clear", "visitor"}
  /\ MayBeDisturbed /\ Mishap
  /\ abandoned' = abandoned \cup RowsAtStake(job)
  /\ Ended(job)
  /\ UNCHANGED <<switches, people, sent, memory, rows, cut, undelivered, swept>>

\* SetPersistence appends the latest rows of a conversation in the order of
\* their time, which their numbers stand for; those of a group that is gone are skipped.
Loaded(k) ==
  LET all  == InOrder(RowsOf(k))
      last == SubSeq(all, IF Len(all) > MaxHistory THEN Len(all) - MaxHistory + 1 ELSE 1, Len(all))
      n    == Excess(k, sent, recalledStored, last, WeightOf(sent, recalledStored, ToSet(last)))
  IN  IF k.kind = "userGroup" /\ \E g \in k.of : members[g] = {} THEN <<>>
      ELSE SubSeq(last, n + 1, Len(last))

\* The users come back as their rows say (ChatUsers has them in full).
CrashAndRestart ==
  /\ (MayBeDisturbed \/ jobs = {}) /\ Mishap
  /\ chats' = (Clients \ unavailable) \cup {c \in Clients : RowsOf(AdminChat(c)) # {}}
  /\ link' = [c \in Clients |-> "gone"]
  /\ shown' = [k \in Conversations |-> Loaded(k)]
  /\ bytes' = [k \in Conversations |-> WeightOf(sent, recalledStored, ToSet(Loaded(k)))]
  /\ recalledShown' = recalledStored
  /\ readShown' = readStored
  /\ jobs' = {}
  /\ abandoned' = abandoned \cup UNION {RowsAtStake(j) : j \in jobs}
  /\ cut' = cut \cup (stored \ UNION {ToSet(Loaded(k)) : k \in Conversations})
  /\ UNCHANGED <<switches, unavailable, members, sent, rows, undelivered, swept>>

-----------------------------------------------------------------------------
BrowserStep(c) ==
  \/ Connect(c)
  \/ HangUp(c)
  \/ \E taken \in BOOLEAN : ReceivePeerChatMessage(c, taken)
  \/ \E d \in Clients : ReceiveDirectMessage(c, d)
  \/ ReceiveAdministratorPrivateMessage(c)
  \/ \E g \in Groups : ReceiveUserGroupMessage(c, g)
  \/ \E d \in Clients \ {c} : \E ids \in SUBSET Unread(c, d) : MarkMessagesRead(c, d, ids)
  \/ \E id \in Shown : RecallPeerMessage(c, id)
  \/ ReceiveHTTPAttachment(c)

AdministratorStep ==
  \/ SendAdminToAll
  \/ \E c \in Clients, taken \in BOOLEAN : SendAdminChatMessage(c, taken)
  \/ ReceiveAdminAttachment
  \/ SetEnabled \/ SetGroupEnabled \/ SetPrivateMessagesEnabled
  \/ \E c \in Clients : SetChatUserBlacklisted(c) \/ RemoveChatVisitor(c)
  \/ \E g \in Groups, left \in SUBSET Clients : GroupShrinks(g, left)
  \/ \E id \in Ids : DeleteChatMessage(id)
  \/ ClearChatHistory

JobStep(job) ==
  \/ AttachmentSaved(job) \/ AttachmentNotSaved(job)
  \/ AttachmentPublished(job) \/ AttachmentRefused(job)
  \/ RowDeleted(job) \/ RowsCleared(job) \/ VisitorRowsDeleted(job)
  \/ DeletionFails(job)

MessagesNext ==
  \/ \E c \in Clients : BrowserStep(c)
  \/ AdministratorStep
  \/ \E job \in jobs : JobStep(job)
  \/ CrashAndRestart

MessagesSpec == MessagesInit /\ [][MessagesNext]_messageVars

-----------------------------------------------------------------------------
(* Properties. *)

\* Every variable has its type; memory shows a message once, in its own
\* conversation, and marks only messages that exist.
MessagesTypeOK ==
  /\ link \in [Clients -> {"gone", "online", "detached"}]
  /\ \A k \in Conversations :
       /\ IsInjective(shown[k])
       /\ \A id \in ToSet(shown[k]) : id \in Ids /\ sent[id].to = k
  /\ stored \subseteq Ids
  /\ recalledStored \cup readStored \subseteq stored
  /\ recalledShown \cup readShown \subseteq Ids

\* What a browser sees is what the database has, marks included: a message
\* in memory has its row with the same recall and receipt. Only a row that a
\* clearing, a deletion or the removal of a visitor took from under it may be
\* missing (messages sent between the two steps of such a call, uploads
\* caught by it, and the user groups that ClearChatHistory leaves in memory).
ShownAsStored ==
  \A id \in Shown :
    \/ id \in swept
    \/ /\ id \in stored
       /\ (id \in recalledShown) <=> (id \in recalledStored)
       /\ (id \in readShown) <=> (id \in readStored)

\* What a restart may bring up is known: a row without its message in memory
\* was pushed out by the caps on a history or, with its whole conversation, by
\* the cap on conversations, never reached a queue (its sender was told so),
\* belongs to a dissolved group, is at stake in a call that still runs, or
\* was left behind by a crash or a failed deletion.
HiddenRowsExplained ==
  \A id \in stored \ Shown :
    \/ id \in cut \cup undelivered \cup abandoned
    \/ \E g \in Groups : sent[id].to = GroupChat(g) /\ members[g] = {}
    \/ \E job \in jobs : id \in RowsAtStake(job)

\* The counter the byte cap relies on is exact after appends, cuts, recalls,
\* deletions and restarts, and both caps hold.
HistoryCounted ==
  \A k \in Conversations :
    /\ bytes[k] = WeightOf(sent, recalledShown, ToSet(shown[k]))
    /\ Len(shown[k]) <= MaxHistory
    /\ k.kind # "userGroup" => bytes[k] <= MaxBytes

\* A recalled message never comes back and a receipt is never taken back:
\* as long as a copy exists in memory or in the database it keeps the mark,
\* through deletions, clearings, crashes and restarts.
MarksStand ==
  [][/\ \A id \in Shown \cap Shown' :
          /\ id \in recalledShown => id \in recalledShown'
          /\ id \in readShown => id \in readShown'
     /\ \A id \in stored \cap stored' :
          /\ id \in recalledStored => id \in recalledStored'
          /\ id \in readStored => id \in readStored']_messageVars
=============================================================================
