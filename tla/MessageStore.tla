---------------------------- MODULE MessageStore ----------------------------
(***************************************************************************)
(* The server's message tables for one conversation and the handlers that  *)
(* change them (server/internal/api/handlers.go): sending with an optional *)
(* attachment, the offline queue and its acknowledgements, deletion for    *)
(* oneself, recall for everybody, clearing the conversation, uploading and *)
(* removing attachments, and the deletion of a member's account.  Every    *)
(* statement of these handlers is restricted to one conversation, or does  *)
(* the same to each, so one stands for all.                                *)
(*                                                                         *)
(* A transaction is one step: InnoDB's row locks serialize the writes of   *)
(* two of them, and a deadlock aborts one, which here is the outcome       *)
(* "failed".  A handler that issues several statements outside a           *)
(* transaction takes several steps.  Files and tables survive a crash of   *)
(* the server, handlers do not.                                            *)
(***************************************************************************)
EXTENDS Naturals

CONSTANTS
    Users,          \* the members the conversation was created with
    Msgs,           \* message ids, one for each call of sendMessage
    Author,         \* the caller of each
    Attachments,    \* attachment ids, one for each upload
    AttOf,          \* the attachment each message names, or None
    Recalls,        \* calls of deleteMessage with scope=all
    Target, By,     \* the message and the caller of each
    Clears,         \* calls of clearConversationMessages
    Actor,          \* the caller of each
    Fetchers,       \* bound: members whose devices ask for the queue
    Hiders,         \* bound: members who delete messages for themselves
    None, Unbound   \* no attachment row; a row whose message_id is NULL

ASSUME SendAssumption ==
    /\ Author \in [Msgs -> Users]
    /\ AttOf \in [Msgs -> Attachments \cup {None}]
ASSUME RecallAssumption ==
    Target \in [Recalls -> Msgs] /\ By \in [Recalls -> Users]
ASSUME ClearAssumption == Actor \in [Clears -> Users]
ASSUME BoundAssumption == Fetchers \subseteq Users /\ Hiders \subseteq Users
ASSUME MarkAssumption ==
    None \notin Attachments \cup Msgs /\ Unbound \notin Msgs /\ None # Unbound

VARIABLES
    messages,       \* rows of messages
    pending,        \* rows of pending_messages
    recipients,     \* rows of pending_message_recipients
    deletions,      \* rows of message_deletions
    clears,         \* pending_conversation_clears: each member's event_id, or 0
    rows,           \* encrypted_attachments: None, Unbound, or the message_id
    files,          \* attachment files on disk
    expired,        \* messages whose expires_at has passed
    pc,             \* where each handler is
    doomed,         \* files each clear still has to remove
    event,          \* the event id of each clear, once it has one
    lastEvent,      \* the last id nextMessageID drew for a clear
    members,        \* rows of conversation_members, and of users
    addressed,      \* the recipients each sendMessage has read
    known,          \* messages each member's device has been given
    committed,      \* history: messages whose transaction committed
    wiped,          \* history: messages recalled, cleared, or gone with their author
    settled         \* history: <<message, user>> pairs acknowledged, or given up with
                    \* the user's account

queueVars   == <<messages, pending, recipients, deletions>>
fileVars    == <<rows, files>>
clearVars   == <<clears, doomed, event, lastEvent>>
memberVars  == <<members, addressed, known>>
historyVars == <<committed, wiped, settled>>
vars == <<queueVars, fileVars, clearVars, memberVars, historyVars, expired, pc>>

------------------------------------------------------------------------------
(* Handlers.  A handler is named by its operation and its argument.        *)

Send(m)   == <<"send", m>>
Fetch(u)  == <<"fetch", u>>
Recall(r) == <<"recall", r>>
Clear(k)  == <<"clear", k>>
Upload(a) == <<"upload", a>>
Remove(a) == <<"remove", a>>

Handler == ({"send"} \X Msgs) \cup ({"fetch"} \X Fetchers) \cup ({"recall"} \X Recalls)
           \cup ({"clear"} \X Clears) \cup ({"upload", "remove"} \X Attachments)

Goto(h, label) == pc' = [pc EXCEPT ![h] = label]

Others(u) == members \ {u}
Bound == {a \in Attachments : rows[a] \notin {None, Unbound}}

Init ==
    /\ messages = {} /\ pending = {} /\ recipients = {} /\ deletions = {}
    /\ clears = [u \in Users |-> 0]
    /\ rows = [a \in Attachments |-> None]
    /\ files = {}
    /\ expired = {}
    /\ pc = [h \in Handler |-> "idle"]
    /\ doomed = [k \in Clears |-> {}]
    /\ event = [k \in Clears |-> 0]
    /\ lastEvent = 0
    /\ members = Users
    /\ addressed = [m \in Msgs |-> {}]
    /\ known = [u \in Users |-> {}]
    /\ committed = {} /\ wiped = {} /\ settled = {}

------------------------------------------------------------------------------
(* Faulty variants of actions below: plausible bugs that a property reports. *)

\* The parameters of INSERT INTO pending_message_recipients are swapped.
BugSendSwaps(m) ==
    /\ pc[Send(m)] = "ready"
    /\ Goto(Send(m), "notify")
    /\ messages' = messages \cup {m}
    /\ pending' = pending \cup {m}
    /\ recipients' = recipients \cup (addressed[m] \X {m})
    /\ committed' = committed \cup {m}
    /\ UNCHANGED <<deletions, fileVars, clearVars, memberVars, wiped, settled, expired>>

\* The second DELETE of an acknowledgement lacks its NOT EXISTS.
BugAckDropsQueue(u, m) ==
    /\ m \in known[u] /\ <<m, u>> \notin settled
    /\ recipients' = recipients \ {<<m, u>>}
    /\ pending' = pending \ {m}
    /\ settled' = settled \cup {<<m, u>>}
    /\ UNCHANGED <<messages, deletions, fileVars, clearVars, memberVars, committed,
                   wiped, expired, pc>>

\* A recall forgets the offline queue.
BugRecallKeepsQueue(r) ==
    LET mine == {n \in Msgs : n = Target[r] /\ Author[n] = By[r]} IN
    /\ pc[Recall(r)] = "checked"
    /\ Goto(Recall(r), "attachment")
    /\ deletions' = {x \in deletions : x[1] \notin mine \cap messages}
    /\ messages' = messages \ mine
    /\ wiped' = wiped \cup mine
    /\ UNCHANGED <<pending, recipients, fileVars, clearVars, memberVars, committed,
                   settled, expired>>

\* uploadAttachment inserts the row although the copy failed.
BugUploadInserts(a) ==
    /\ pc[Upload(a)] = "written"
    /\ Goto(Upload(a), "done")
    /\ rows' = [rows EXCEPT ![a] = Unbound]
    /\ files' = files \ {a}
    /\ UNCHANGED <<queueVars, clearVars, memberVars, historyVars, expired>>

\* The clear is pending for whoever has made it.
BugClearForActor(k) ==
    /\ pc[Clear(k)] = "checked"
    /\ Goto(Clear(k), "unlink")
    /\ lastEvent' = lastEvent + 1
    /\ event' = [event EXCEPT ![k] = lastEvent']
    /\ doomed' = [doomed EXCEPT ![k] = Bound]
    /\ rows' = [a \in Attachments |-> IF a \in Bound THEN None ELSE rows[a]]
    /\ recipients' = {x \in recipients : x[1] \notin pending}
    /\ pending' = {}
    /\ deletions' = {x \in deletions : x[1] \notin messages}
    /\ messages' = {}
    /\ clears' = [clears EXCEPT ![Actor[k]] = lastEvent']
    /\ wiped' = wiped \cup messages
    /\ UNCHANGED <<files, memberVars, committed, settled, expired>>

\* deleteAttachment lacks its message_id IS NULL.
BugRemoveSent(a) ==
    /\ pc[Remove(a)] = "idle"
    /\ pc[Upload(a)] = "done"
    /\ IF rows[a] # None
       THEN /\ rows' = [rows EXCEPT ![a] = None]
            /\ Goto(Remove(a), "unlink")
       ELSE /\ Goto(Remove(a), "failed")
            /\ UNCHANGED rows
    /\ UNCHANGED <<queueVars, files, clearVars, memberVars, historyVars, expired>>

------------------------------------------------------------------------------
(* cleanupExpiredPendingMessages: two statements, each with its own NOW(). *)

\* DELETE pmr ... JOIN pending_messages ... WHERE expires_at<=NOW()
CleanRecipients(h) ==
    /\ pc[h] = "clean"
    /\ Goto(h, "cleaned")
    /\ recipients' = {r \in recipients : r[1] \notin pending \cap expired}
    /\ UNCHANGED <<messages, pending, deletions, fileVars, clearVars, memberVars,
                   historyVars, expired>>

\* DELETE FROM pending_messages WHERE expires_at<=NOW()
CleanPending(h) ==
    /\ pc[h] = "cleaned"
    /\ Goto(h, "ready")
    /\ pending' = pending \ expired
    /\ UNCHANGED <<messages, recipients, deletions, fileVars, clearVars, memberVars,
                   historyVars, expired>>

------------------------------------------------------------------------------
(* sendMessage.                                                            *)

AttachmentUnsent(m) == AttOf[m] # None => rows[AttOf[m]] = Unbound

\* A stranger, or an envelope that is malformed or not for exactly the members, is
\* refused before anything happens; otherwise the attachment must exist and be unsent.
SendCheck(m) ==
    /\ pc[Send(m)] = "idle"
    /\ Author[m] \in members
    /\ Goto(Send(m), IF AttachmentUnsent(m) THEN "clean" ELSE "failed")
    /\ addressed' = [addressed EXCEPT ![m] = Others(Author[m])]
    /\ UNCHANGED <<queueVars, fileVars, clearVars, members, known, historyVars, expired>>

\* The transaction: history, queue, recipients, and the attachment if it is
\* still unsent (another sendMessage or deleteAttachment may have been faster).  The
\* recipients are those of the check: an account deleted since gets its row all the
\* same, and that of the author does not stop the send.
SendCommit(m) ==
    /\ pc[Send(m)] = "ready"
    /\ AttachmentUnsent(m)
    /\ Goto(Send(m), "notify")
    /\ messages' = messages \cup {m}
    /\ pending' = IF addressed[m] = {} THEN pending ELSE pending \cup {m}
    /\ recipients' = recipients \cup ({m} \X addressed[m])
    /\ rows' = [a \in Attachments |-> IF a = AttOf[m] THEN m ELSE rows[a]]
    /\ committed' = committed \cup {m}
    /\ UNCHANGED <<deletions, files, clearVars, memberVars, wiped, settled, expired>>

\* The attachment conflict (409), an error or a deadlock: everything rolls back.
SendRollback(m) ==
    /\ pc[Send(m)] = "ready"
    /\ Goto(Send(m), "failed")
    /\ UNCHANGED <<queueVars, fileVars, clearVars, memberVars, historyVars, expired>>

\* SendTo(recipientIDs): some of the devices are connected and get the message.
SendNotify(m) ==
    /\ pc[Send(m)] = "notify"
    /\ Goto(Send(m), "done")
    /\ \E online \in SUBSET addressed[m] :
        known' = [u \in Users |-> IF u \in online THEN known[u] \cup {m} ELSE known[u]]
    /\ UNCHANGED <<queueVars, fileVars, clearVars, members, addressed, historyVars, expired>>

------------------------------------------------------------------------------
(* The offline queue.                                                      *)

\* pendingMessages begins; the pages of 100 it reads stand for the whole queue.
FetchStart(u) ==
    /\ pc[Fetch(u)] = "idle"
    /\ Goto(Fetch(u), "clean")
    /\ UNCHANGED <<queueVars, fileVars, clearVars, memberVars, historyVars, expired>>

\* SELECT ... JOIN users (the sender) JOIN conversation_members (the caller)
\* WHERE pmr.user_id=? AND pm.expires_at>NOW()
FetchRead(u) ==
    /\ pc[Fetch(u)] = "ready"
    /\ Goto(Fetch(u), "idle")
    /\ known' = [known EXCEPT ![u] =
                    @ \cup {m \in pending \ expired : /\ <<m, u>> \in recipients
                                                     /\ {Author[m], u} \subseteq members}]
    /\ UNCHANGED <<queueVars, fileVars, clearVars, members, addressed, historyVars, expired>>

\* ackPendingMessage: one transaction; aborted, it leaves everything as it is.
Ack(u, m) ==
    /\ m \in known[u] /\ <<m, u>> \notin settled
    /\ recipients' = recipients \ {<<m, u>>}
    /\ pending' = IF \E v \in Users : <<m, v>> \in recipients' THEN pending
                                                              ELSE pending \ {m}
    /\ settled' = settled \cup {<<m, u>>}
    /\ UNCHANGED <<messages, deletions, fileVars, clearVars, memberVars, committed,
                   wiped, expired, pc>>

\* expires_at of a message passes.
Expire(m) ==
    /\ m \in committed \ expired
    /\ expired' = expired \cup {m}
    /\ UNCHANGED <<queueVars, fileVars, clearVars, memberVars, historyVars, pc>>

------------------------------------------------------------------------------
(* deleteMessage.                                                          *)

\* scope=self: INSERT IGNORE INTO message_deletions SELECT ... FROM messages.  The caller
\* was a member when the handler began; its account may be gone by now.
DeleteForSelf(u, m) ==
    /\ m \in messages
    /\ deletions' = deletions \cup {<<m, u>>}
    /\ UNCHANGED <<messages, pending, recipients, fileVars, clearVars, memberVars,
                   historyVars, expired, pc>>

\* scope=all: the caller is a member.  Ids reach devices once they are committed.
RecallCheck(r) ==
    /\ pc[Recall(r)] = "idle"
    /\ Target[r] \in committed /\ By[r] \in members
    /\ Goto(Recall(r), "checked")
    /\ UNCHANGED <<queueVars, fileVars, clearVars, memberVars, historyVars, expired>>

\* The transaction.  For a caller who is not the author every WHERE clause is empty.
RecallCommit(r) ==
    LET mine == {n \in Msgs : n = Target[r] /\ Author[n] = By[r]} IN
    /\ pc[Recall(r)] = "checked"
    /\ Goto(Recall(r), "attachment")
    /\ recipients' = {x \in recipients : x[1] \notin mine \cap pending}
    /\ pending' = pending \ mine
    /\ deletions' = {x \in deletions : x[1] \notin mine \cap messages}
    /\ messages' = messages \ mine
    /\ wiped' = wiped \cup mine
    /\ UNCHANGED <<fileVars, clearVars, memberVars, committed, settled, expired>>

\* DELETE FROM encrypted_attachments WHERE id=? AND uploader_id=?  The request names the
\* attachment; App.vue:526 takes it from the message it recalls, and no other client asks.
RecallAttachment(r) ==
    LET a == AttOf[Target[r]] IN
    /\ pc[Recall(r)] = "attachment"
    /\ IF a # None /\ Author[Target[r]] = By[r] /\ rows[a] # None
       THEN /\ rows' = [rows EXCEPT ![a] = None]
            /\ Goto(Recall(r), "unlink")
       ELSE /\ Goto(Recall(r), "done")
            /\ UNCHANGED rows
    /\ UNCHANGED <<queueVars, files, clearVars, memberVars, historyVars, expired>>

RecallUnlink(r) ==
    /\ pc[Recall(r)] = "unlink"
    /\ Goto(Recall(r), "done")
    /\ files' = files \ {AttOf[Target[r]]}
    /\ UNCHANGED <<queueVars, rows, clearVars, memberVars, historyVars, expired>>

------------------------------------------------------------------------------
(* clearConversationMessages.                                              *)

ClearCheck(k) ==
    /\ pc[Clear(k)] = "idle"
    /\ Actor[k] \in members
    /\ Goto(Clear(k), "checked")
    /\ UNCHANGED <<queueVars, fileVars, clearVars, memberVars, historyVars, expired>>

\* The transaction.  FOR UPDATE on the members serializes clears before their
\* event ids are drawn, so the ids grow in the order of the transactions.
ClearCommit(k) ==
    /\ pc[Clear(k)] = "checked"
    /\ Goto(Clear(k), "unlink")
    /\ lastEvent' = lastEvent + 1
    /\ event' = [event EXCEPT ![k] = lastEvent']
    /\ doomed' = [doomed EXCEPT ![k] = Bound]
    /\ rows' = [a \in Attachments |-> IF a \in Bound THEN None ELSE rows[a]]
    /\ recipients' = {x \in recipients : x[1] \notin pending}
    /\ pending' = {}
    /\ deletions' = {x \in deletions : x[1] \notin messages}
    /\ messages' = {}
    /\ clears' = [u \in Users |-> IF u \in Others(Actor[k]) THEN lastEvent' ELSE clears[u]]
    /\ wiped' = wiped \cup messages
    /\ UNCHANGED <<files, memberVars, committed, settled, expired>>

\* os.Remove for each attachment read in the transaction.
ClearUnlink(k, a) ==
    /\ pc[Clear(k)] = "unlink"
    /\ a \in doomed[k]
    /\ doomed' = [doomed EXCEPT ![k] = @ \ {a}]
    /\ files' = files \ {a}
    /\ UNCHANGED <<queueVars, rows, clears, event, lastEvent, memberVars, historyVars,
                   expired, pc>>

\* SendTo of the cleared event.
ClearNotify(k) ==
    /\ pc[Clear(k)] = "unlink"
    /\ doomed[k] = {}
    /\ Goto(Clear(k), "done")
    /\ UNCHANGED <<queueVars, fileVars, clearVars, memberVars, historyVars, expired>>

\* ackPendingConversationClear: DELETE ... WHERE event_id=? AND user_id=?  A device has
\* the id from the event, or from pendingConversationClears, which it may read at any
\* time.
AckClear(u, e) ==
    /\ e # 0
    /\ clears' = [clears EXCEPT ![u] = IF @ = e THEN 0 ELSE @]
    /\ UNCHANGED <<queueVars, fileVars, doomed, event, lastEvent, memberVars, historyVars,
                   expired, pc>>

------------------------------------------------------------------------------
(* Attachments.                                                            *)

\* uploadAttachment: the file is created and the body copied into it.
UploadWrite(a) ==
    /\ pc[Upload(a)] = "idle"
    /\ Goto(Upload(a), "written")
    /\ files' = files \cup {a}
    /\ UNCHANGED <<queueVars, rows, clearVars, memberVars, historyVars, expired>>

UploadInsert(a) ==
    /\ pc[Upload(a)] = "written"
    /\ Goto(Upload(a), "done")
    /\ rows' = [rows EXCEPT ![a] = Unbound]
    /\ UNCHANGED <<queueVars, files, clearVars, memberVars, historyVars, expired>>

\* The copy or the INSERT failed: os.Remove(path).
UploadFails(a) ==
    /\ pc[Upload(a)] = "written"
    /\ Goto(Upload(a), "failed")
    /\ files' = files \ {a}
    /\ UNCHANGED <<queueVars, rows, clearVars, memberVars, historyVars, expired>>

\* deleteAttachment, which a device calls when its send seems to have failed:
\* DELETE ... WHERE message_id IS NULL
RemoveRow(a) ==
    /\ pc[Remove(a)] = "idle"
    /\ pc[Upload(a)] = "done"
    /\ IF rows[a] = Unbound
       THEN /\ rows' = [rows EXCEPT ![a] = None]
            /\ Goto(Remove(a), "unlink")
       ELSE /\ Goto(Remove(a), "failed")
            /\ UNCHANGED rows
    /\ UNCHANGED <<queueVars, files, clearVars, memberVars, historyVars, expired>>

RemoveFile(a) ==
    /\ pc[Remove(a)] = "unlink"
    /\ Goto(Remove(a), "done")
    /\ files' = files \ {a}
    /\ UNCHANGED <<queueVars, rows, clearVars, memberVars, historyVars, expired>>

------------------------------------------------------------------------------
\* deleteUser: one transaction, in the order of its statements.  It asks no foreign key
\* and no handler under way: files and rows of attachments stay, and so does what a send
\* that has read the members before commits afterwards.
DeleteUser(u) ==
    LET own  == {m \in Msgs : Author[m] = u}
        left == {x \in recipients : x[2] # u /\ x[1] \notin own \cap pending}
    IN
    /\ u \in members
    /\ recipients' = left
    /\ clears' = [v \in Users |->
                    IF v = u \/ \E k \in Clears : Actor[k] = u /\ event[k] = clears[v]
                    THEN 0 ELSE clears[v]]
    /\ pending' = {m \in pending \ own : \E v \in Users : <<m, v>> \in left}
    /\ deletions' = {x \in deletions : x[1] \notin own \cap messages /\ x[2] # u}
    /\ messages' = messages \ own
    /\ members' = members \ {u}
    /\ wiped' = wiped \cup (own \cap messages)
    /\ settled' = settled \cup (messages \X {u})
    /\ UNCHANGED <<fileVars, doomed, event, lastEvent, addressed, known, committed,
                   expired, pc>>

\* The process stops: handlers under way never continue, and a device that asks
\* for its queue again does so from the start.
Crash ==
    /\ pc' = [h \in Handler |->
                IF pc[h] \in {"idle", "done", "failed"} THEN pc[h]
                ELSE IF h[1] = "fetch" THEN "idle" ELSE "lost"]
    /\ pc' # pc
    /\ UNCHANGED <<queueVars, fileVars, clearVars, memberVars, historyVars, expired>>

Next ==
    \/ \E m \in Msgs : \/ SendCheck(m) \/ SendCommit(m) \/ SendRollback(m)
                       \/ SendNotify(m) \/ Expire(m)
    \/ \E h \in Handler : CleanRecipients(h) \/ CleanPending(h)
    \/ \E u \in Fetchers : FetchStart(u) \/ FetchRead(u)
    \/ \E u \in Users : DeleteUser(u)
    \/ \E u \in Users, m \in Msgs : Ack(u, m)
    \/ \E u \in Hiders, m \in Msgs : DeleteForSelf(u, m)
    \/ \E u \in Users, k \in Clears : AckClear(u, event[k])
    \/ \E r \in Recalls : \/ RecallCheck(r) \/ RecallCommit(r) \/ RecallAttachment(r)
                          \/ RecallUnlink(r)
    \/ \E k \in Clears : ClearCheck(k) \/ ClearCommit(k) \/ ClearNotify(k)
    \/ \E k \in Clears, a \in Attachments : ClearUnlink(k, a)
    \/ \E a \in Attachments : \/ UploadWrite(a) \/ UploadInsert(a) \/ UploadFails(a)
                              \/ RemoveRow(a) \/ RemoveFile(a)
    \/ Crash

Spec == Init /\ [][Next]_vars

------------------------------------------------------------------------------
(* Properties.                                                             *)

TypeOK ==
    /\ messages \in SUBSET Msgs /\ pending \in SUBSET Msgs
    /\ recipients \in SUBSET (Msgs \X Users) /\ deletions \in SUBSET (Msgs \X Users)
    /\ clears \in [Users -> Nat]
    /\ rows \in [Attachments -> Msgs \cup {None, Unbound}]
    /\ files \in SUBSET Attachments
    /\ expired \in SUBSET Msgs
    /\ pc \in [Handler -> {"idle", "clean", "cleaned", "ready", "notify", "checked", "attachment",
                           "unlink", "written", "done", "failed", "lost"}]
    /\ doomed \in [Clears -> SUBSET Attachments]
    /\ event \in [Clears -> Nat]
    /\ lastEvent \in Nat
    /\ members \in SUBSET Users
    /\ addressed \in [Msgs -> SUBSET Users]
    /\ known \in [Users -> SUBSET Msgs]
    /\ committed \in SUBSET Msgs /\ wiped \in SUBSET Msgs
    /\ settled \in SUBSET (Msgs \X Users)

\* A message the server still owes to a device of somebody it was addressed to.
Owed(m, u) == m \in messages /\ u \in addressed[m] /\ <<m, u>> \notin settled

\* Until it expires, a message is in the offline queue of exactly those it is owed to,
\* and its queue row is there exactly as long as somebody is: sends, acknowledgements,
\* recalls, clears, deletions of accounts and the clean-up running in the middle of other
\* handlers neither lose an entry nor bring one back.
QueueIsOwed ==
    \A m \in Msgs \ expired :
        /\ \A u \in Users : <<m, u>> \in recipients <=> Owed(m, u)
        /\ m \in pending <=> \E u \in Users : Owed(m, u)

\* README.md:93: an acknowledgement only removes the queue's copy, and a recall or
\* a clear removes the history too.  Only these two and the deletion of the author's
\* account (handlers.go:1188-1195) remove history, and what they removed is gone from
\* every table that names the message.
HistoryIsKept ==
    /\ committed \ messages = wiped
    /\ pending \cup {d[1] : d \in deletions} \subseteq messages

\* An attachment row always has its file, whatever crashed: upload writes the file
\* first, every removal deletes the row first.
RowHasFile == \A a \in Attachments : rows[a] # None => a \in files

\* What the server is to member u, as the queries of messages (:608) and FetchRead read
\* it: of both tables the messages of the others who still have an account, of the queue
\* those that are u's and have not expired, and u's pending clear.
Server(u) == INSTANCE MemberServer WITH
    Peers     <- Users \ {u},
    Msgs      <- {m \in Msgs : Author[m] # u},
    From      <- Author,
    peers     <- members \ {u},
    sent      <- {m \in committed : Author[m] # u},
    history   <- {m \in messages : Author[m] \in members \ {u}},
    queue     <- {m \in pending \ expired : <<m, u>> \in recipients /\ Author[m] \in members},
    clear     <- clears[u],
    lastClear <- lastEvent

\* The members who make no clear.
OnlyReceive == Users \ {Actor[k] : k \in Clears}

\* To each of them, as long as the account exists, every step of any handler, deletions
\* of other accounts, clean-ups and crashes included, is one step of MemberServer or
\* none: sends, recalls and clears change history and queue at once, an acknowledgement
\* changes the queue alone, and nothing comes back (README.md:93; handlers.go:511
\* clearConversationMessages, :659 ackPendingMessage, :719 deleteMessage, :1177
\* deleteUser).
MembersServed ==
    [][\A u \in OnlyReceive \cap members' :
         UNCHANGED Server(u)!vars \/ Server(u)!Next]_vars

\* A message in the history keeps the attachment it was sent with, bound to it
\* alone, although its uploader may send the attachment again, or ask to remove
\* it because the answer to the send was lost (App.vue:448).
MessageKeepsAttachment ==
    \A m \in messages : AttOf[m] # None => rows[AttOf[m]] = m

==============================================================================
