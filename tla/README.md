# A verification development for the WebSocket chat

The repository holds a chat service: a Go server (`server/`), a Vue client for
browsers, phones and the desktop (`frontend/client`, `mobile`, `desktop`), an
administration client (`frontend/admin`) and a customer-service widget.  This
directory holds TLA+ modules translated from that code, configurations that check
them with TLC, and proofs that TLAPS checks.  Paths below are relative to the
repository's root; `handlers.go` is `server/internal/api/handlers.go`, `App.vue` is
`frontend/client/src/App.vue`.

## 1. The system

### 1.1 Components

**Socket hub** (`server/internal/api/socket`).  State: the map `clients` under an
`RWMutex`, the unbuffered channels `register` and `unregister`, the buffered
`broadcast`, and one buffered `Send` channel for each connection.  Operations:
`Upgrade` (an HTTP handler that consumes a ticket, registers the client, queues
`socket_ready` and starts the two pumps), `ReadPump`, `WritePump`, `Hub.Run` (one
goroutine), `SendTo`, `Broadcast`, `Stop`.  Hard: every one of them is a goroutine;
a channel that is closed while another goroutine sends on it panics; a full channel
must not block the senders; a writer waiting for the lock blocks new readers.
Correct when: nobody uses a closed channel; a connection that serves is in the map;
a connection that ends takes its goroutines and its entry with it; a message is
only dropped at a full channel; `SendTo` always returns.

**Message history, offline queue, attachments** (`handlers.go`).  State: the tables
`messages`, `pending_messages`, `pending_message_recipients`, `message_deletions`,
`pending_conversation_clears`, `encrypted_attachments`, and the files.  Operations:
`sendMessage`, `pendingMessages`, `ackPendingMessage`, `deleteMessage` (for oneself
or for all), `clearConversationMessages`, `pendingConversationClears`,
`ackPendingConversationClear`, `uploadAttachment`, `deleteAttachment`,
`cleanupExpiredPendingMessages`, and `deleteUser`, which removes an account with all that it
has sent, its entries of the queue and the clears it made, in one transaction.  Hard: handlers of several members interleave
between their transactions, files are not transactional, the server may crash
between any two steps.  Correct when: the queue holds exactly what is still owed;
only a recall, a clear and the deletion of the author's account touch the history; a row of an attachment has its file; a
message keeps its attachment.

**Message ids** (`nextMessageID`, `handlers.go:46`).  State: one atomic counter.
Hard: racing calls, bursts, a clock set back, a restart.  Correct when ids are
unique and in the order of the calls.

**WebSocket tickets** (`server/internal/auth/auth.go`).  State: a map from tickets to
users and expiry.  Correct when a ticket opens one socket, of its owner, in time.

**Friendships and conversations** (`handlers.go`, `store.go:119`).  State:
`friendships`, `conversations`, `conversation_members`, `users`.  Operations:
`requestFriend`, `acceptFriend`, `removeFriend`, `createConversation`,
`deleteConversation`, `deleteUser`, and a back-fill of friendships at every start.
Hard: handlers check in one statement and write in another.  Correct when nobody
becomes a friend, or shares a conversation of somebody, without having agreed, and
when removing a friend lasts.

**Client delivery and synchronization** (`App.vue`, `history.js`).  State: the local
history, the chain of socket events, the runs of `syncOffline`, the history page
being read.  Operations: `onmessage` / `handleSocketEvent`, `syncOffline`,
`openRoom`, `loadOlder`, deletion on the device, reload.  Hard: event chain,
synchronization and history pages interleave at every `await`; requests fail;
connections end; copies of the local history refuse; the queue belongs to the user, so
another device may acknowledge, and it expires after 30 days.  Correct when what this device
acknowledges it has stored, a clear is tried here before it is acknowledged here, and the
queue drains.

**Visitor widget and customer service** (`support-widget.js`, `support.go`,
`support_encryption.go`).  State: in the page the session's token, the key, `lastID`, the
bubbles, two caches (IndexedDB for the key, `localStorage` for ciphertexts); on the server
visitors with their public key, threads with their status, `support_messages`.
Operations: `sync` (polling), the handler of submit, `ensureSession`, `ensureKey`, `append`,
the launcher, the page's `visibilitychange`, "start anew"; `createWidgetSession`,
`setVisitorKey`, `widgetMessages`, `sendWidgetMessage`, `sendSupportMessage`,
`updateSupportThreadStatus`.  Hard: `sync` and submit share every variable of the script and
interleave at every `await`, with a page that is hidden, closed or reloaded in between.
Correct when both use one session and one key, nothing decrypted shows in the background,
and polling neither stops nor passes a message over.

**Client room view** (`App.vue:236-401`, `:524-566`, `:732`, `:800`).  State: `activeId`, the
entries shown, `roomSessions` (the entries of rooms that were left), the pictures, and
`roomRevision`, a counter by which a task notices that it is no longer wanted.  Operations:
`openRoom` with `decryptMessages`, `loadOlder`, `addMessage`, recalls, deletions, clears,
`loadEntryImage`, the page's `visibilitychange`, the change of views.  Hard: each of them
awaits decryptions, requests and the local history, and any other may run meanwhile.
Correct when the entries are of the open room, nothing decrypted stays in the background,
reading the history loses no live message, and what was removed is not shown by a
decryption that was under way.

**Local history** (`history.js`, `desktop/history-store.js`).  State: every record in up to
three copies, the mirror in `localStorage`, IndexedDB, and the desktop application's table,
which is written as a whole to a file beside the real one and renamed over it.  Operations:
`put`, `markRead`, `delete`, `deleteIfSender`, `clear`, each on all copies, with failures
swallowed one by one.  Hard: calls overlap, copies fail or lag separately, pages reload
while their requests go on, the application may end between the write and the rename.
Correct when the file is whole and holds what was answered as done, and when a removal
that no copy refused is a removal from all of them.

**Encryption keys** of accounts (`e2ee.js`, `start` in `App.vue:187`, `setPublicKey` in
`handlers.go:151`).  State: the account's public keys and backups on the server, the pairs
in IndexedDB of each device, the token in `localStorage`.  Operations: a login finds,
restores or makes the pairs, keeps them and publishes their public halves.  Hard: logins at
the same time, answers that are lost between keeping and publishing, cleared browsers.
Correct when a client that has started can decrypt what others encrypt to the account, and
when logging in works in the end.

**Client connection management** (`App.vue:736-783`): `connect`, `reconnectNow`,
`scheduleReconnect` and their timers; not modelled, see section 6.

The rest has no state of its own that a model would tell apart, or is external:
bearer tokens and passwords (a pure HMAC, one statement per login), the migration of
old history (a tool run once, in one transaction), web push (fire and forget), router,
configuration and CORS, schema statements, the administration client, context menu,
image preview and mentions, the windows of the desktop shell, the service worker, and
deployment scripts.  `PROJECT.json` lists each of them with its reason.

### 1.2 How they interact

A device asks for a ticket over HTTP, `Upgrade` consumes it and registers the
connection in the hub.  A handler commits its transaction and then calls
`hub.SendTo`; nothing joins the two, so a crash, a full channel or an absent
connection loses the event, and the offline queue has to make up for it: `onopen`
starts `syncOffline`, which fetches pending clears and pending messages, stores them
and acknowledges them one by one.  Acknowledgements come from the event chain and
from `syncOffline` alike.  The history is a second source: `openRoom` and `loadOlder`
read pages of `messages` and write them to the same local history.

On the device, the event chain, `syncOffline` and `loadOlder` write to the local history;
`openRoom`, `loadOlder` and `addMessage` show what they read from it.  `start` gets the
account's keys before anything is decrypted or a connection made.

The widget knows nothing of the hub: it polls, and only the agents are pushed to.

Hub and handlers share only the `Send` channels; ids, tickets, friendships and the widget
share nothing with the hub.  So there is a module for each.  `MessageStore` and `Delivery` meet
in `MemberServer`, what the server is to a member who only receives: the tables implement it, and
`Delivery` instantiates it and composes it with a device whose local history is one set, of
what any copy has; `LocalHistory` takes that set apart into its copies and composes the page's
calls with the desktop's `HistoryStore`; `Room` takes any messages of the room for a page of
the local history.

## 2. Modules

| Module | Part | Constants |
|---|---|---|
| `Hub` | socket hub | connections and owners, `SendTo` and `Broadcast` calls, channel capacity |
| `MemberServer` | what the server is to a member who only receives | the other members, messages and their senders |
| `MessageStore` | tables and files of one conversation | members, messages, attachments, recalls, clears, who fetches and who hides |
| `MessageId` | `nextMessageID` | calls, ids per millisecond, last millisecond |
| `Tickets` | WebSocket tickets | calls of Issue and Consume, lifetime, last instant |
| `Contacts` | friendships, conversations | accounts, requests, creations |
| `Delivery` | one device of one member, against `MemberServer` | other members, messages, clears, runs of `syncOffline`, ways to read the history, faults |
| `Widget` | one visitor's page and the server's handlers for it | bounds on sessions, messages, keys |
| `Room` | the room view of a client | rooms, messages and their rooms, pictures, tasks under way |
| `DurableHistory` | what the desktop's history promises of its file | contents, callers |
| `HistoryStore` | `desktop/history-store.js` | messages, own messages, `MAX_MESSAGES`, callers |
| `LocalHistory` | `history.js` on top of it | records of the mirror, calls |
| `Keys` | the keys of one account | tabs, devices, which tab is on which device |

`MC...` modules hold instances for TLC, `...Proofs` modules the theorems of the module
they extend.  Every module begins with its operations; operators whose names begin
with `Bug` are plausible mistakes in one action, used to see that a property would
report them; no specification uses them.

### 2.1 Hub

Program counters: `up[c]` follows `Upgrade` (register, queue `socket_ready`, start the
pumps), `rp[c]` and `wp[c]` the two pumps with their deferred calls, `hub` the position
of `Run` in its `select`, in the insertion, in `unregisterClient`, and in the loop over
a broadcast; `sp[s]` is a call of `SendTo`.  The lock needs no variable: `Run` is the
only writer, so the lock is "some `SendTo` is in its loop" and "`Run` waits to write",
and Go's rule that a waiting writer stops new readers is the guard of `GrantRLock`.
`register` and `unregister` are unbuffered, so a hand-over is one step of both
goroutines (`ReceiveRegister`, `ReceiveUnregister`).  A send on a closed channel and a
second close are not excluded by guards: they lead to the label `"panicked"`.
`conn[c]` is the TCP connection as the server sees it: `PeerLeaves` ends it, and so
does a pump when it closes it.  `target`, `missed` and `inbox` are history variables.

### 2.2 MessageStore

One conversation stands for all, since every statement of these handlers is restricted
to one conversation.  A transaction is one step: InnoDB's row locks serialize the
writes of two of them, and a deadlock aborts one, which is the outcome "failed"
(`SendRollback`).  A handler of several statements outside a transaction takes several
steps: `sendMessage` is `SendCheck`, the two statements of the clean-up,
`SendCommit` or `SendRollback`, `SendNotify`; a recall is `RecallCommit`,
`RecallAttachment`, `RecallUnlink`, behind the check of the membership, `RecallCheck`; a clear
is `ClearCheck`, `ClearCommit`, one `ClearUnlink` per file, `ClearNotify`; an upload is `UploadWrite` followed by `UploadInsert` or
`UploadFails`.  `Crash` loses every handler under way and nothing else.  A device
acknowledges only messages it was given, which is a set per member.

`DeleteUser` is the one transaction of `deleteUser`, at any point: `members` is who still has
an account and `addressed[m]` the recipients that a send has read, so that an account deleted
between the check and the commit of a send gets its row of the queue all the same, and a send
whose author is deleted commits.  `settled` is history: what was acknowledged, or was owed to an
account that is gone.  A recall names the attachment of its own message, as
`App.vue:526` does.

`MemberServer` is an abstract specification: the messages ever sent, the history, the queue and
the pending clear of one member, and which of the others still have an account.  Sends, recalls,
clears and deletions of accounts change history and queue in one step.  `Server(u)` maps the
tables to it for member `u`: the history are the messages of the others who still exist, the
queue is what `FetchRead` would give `u`, with the rows of `pending_messages`,
`pending_message_recipients` and `users` joined and the expired ones left out, and the clear is
`u`'s row of `pending_conversation_clears`.  An expiry or an acknowledgement is `Taken`, a send
whose author is gone is `SendUnseen`; the clean-up, the attachments and a crash are no step at
all.  `MembersServed` says so for every member who makes no clear, as long as its account exists:
one's own clear empties the history without being pending for oneself, which neither
`MemberServer` nor `Delivery` has.

### 2.3 MessageId and Tickets

Both take one step per access to shared memory or to the clock.  `MessageId` lets wall
time move both ways (`SetClock`), and `Restart` sets the counter to zero.  The comment
at `handlers.go:47` takes for granted that a restarted process sees a clock beyond all
ids of the process before it; the model states exactly that and no more.  `Tickets`
reads the time before the mutex in Issue and after it in Consume, as the code does.  Their
operators are called `IdSpec`, `TicketSpec` and so on, since each shares a proof module with
another component.

### 2.4 Contacts

`friendships` is a function from pairs to rows, since the code orders the two ids.
`requestFriend` checks and inserts in two steps (`RequestCheck`, `RequestInsert`);
`createConversation` checks one friend at a time (`CheckFriend`), looks for an existing
direct conversation (`FindExisting`, `FindNone`), and inserts or shows it again.
`CreatePanics` is the index out of range when the list holds nobody but the caller.
`Restart` loses the calls under way and runs the back-fill of `store.go:119-120`.

### 2.5 Delivery

The server is `MemberServer`, instantiated: each action of the server is one of its actions
together with the event that the handler sends afterwards.  One pending clear is enough,
because `NewestClearIsPending` holds of the tables.  The queue and the pending clear are the
user's, not the device's, and the device is not alone: `TakenElsewhere` is an acknowledgement by
another device, or the expiry of the entry, `ClearedElsewhere` the end of the pending clear by
another device, and `AccountDeleted` the deletion of another member.  The connection is `"open"`
between the browser's `onopen` and the insertion by `Hub.Run` and `"registered"` after it.

The device is detailed: one step per `await` of `handleSocketEvent` (`ChainApply`, `ChainAck`), of
`syncOffline` (`FetchClears`, `SyncClear`, `SyncClearAck`, `FetchMessages`, `SyncPut`, `SyncAck`),
and of the history pages (`Browse`, `BrowsePut`).  `roomRevision` stops an `openRoom` under way,
and does not stop the fetch and the writes of `loadOlder` (`StopRoom`).  `store` is what any copy
of the local history has.  A removal may leave any part of it (`Left`), since `history.js:170` and
`:139` swallow the copies that refuse, and the device acknowledges the clear all the same
(`App.vue:696`).  `kept` is history: the messages that were on the device at the newest clear and
are still there, while that clear has neither been tried here nor ended elsewhere.

Crash, loss of the connection, failing requests, reload, refusing copies, other devices with
expiry, and deletions of accounts may happen at any point; the constant `Faults` says which of
them an instance has.

### 2.6 Widget

Two tasks, `"sync"` and `"submit"`, each with a label per `await`: `create` (the shared
`sessionPromise`), `get`, `got`, `generate`, `put`, `post`, `posted` (the awaits of
`ensureKey`), `restore` (the cache), `fetch`, `show` (the loop over `append`), `send`,
`insert`.  Every `await` ends a step, also one that the browser passes at once; the model
interleaves more than the browser there.  An
`append` that needs no decryption ends without an await that lets anybody else in, so
`AppendRest` takes all such messages at once, and `AppendOne` runs up to the first
`decrypt`, which `AppendEnds` finishes.  `opening[t]` is the message being decrypted.  A
transaction of IndexedDB reads when it is its turn (`ReadKey`) and the script sees the
result later (`GotKey`); `put` takes effect before it is awaited (`GenerateKey`, `KeyPut`).  Polling asks with the
token and `lastID` of one moment (`AskMessages`) and is answered at another
(`FetchMessages`).
`sendWidgetMessage` is two steps (`SendCheck`, `SendInsert`) because it looks at the
thread's status and inserts in separate statements; an agent's reply commits any id that
is not used, since its id was drawn before the commit.  `overtaken` is history: the messages
that were committed behind a greater id (`AgentReply`), or that the widget had not fetched
when the visitor's own message was appended (`LeftBehind`).  `TaskFails` and `CreateFails` are
a request or a transaction that fails, or whose answer is lost; `NoticeOf` is what the two
catch clauses do to the panel.  Tokens and threads are the same number, as each visitor
has one thread.

### 2.7 Room

`pc[t]` is the await that a call `t` of `openRoom` is at: `page1`, `page2`, `page3` the three
readings of the local history, `decrypt1`.. their decryptions, `members`, `trust`, `confirm`,
`trusting` (the members and their keys), `remote`, `put` (the server's history).  `older` is
the one `loadOlder` that `historyLoading` allows, and `job[j]` an event or a command of the
user (`AddMessage`, `Recall`, `DeleteMessage`, `Clear`).  `roomRevision` only serves to be
compared with a remembered value, so `fresh` is the set of tasks that would find it equal:
`openRoom` makes itself the only member, a removal or the background empties it.
`Replace(S)` is an assignment to `entries.value`, and `Push(m)` changes the list in place,
which `loadOlder` sees, since it remembers the list: `older.same` tells whether it is
still the one shown.  A list is the set of its messages; order and repetition are not
modelled.  A page of the local history is any subset of the room's messages (`Pages`): a copy may
have refused a removal (`history.js:108-117`, `:135-171`).  `gone` is history: what was removed,
and neither read from the local history nor put there since.

### 2.8 HistoryStore, LocalHistory and DurableHistory

`HistoryStore` is the queue of requests of the desktop application, one step each for the
change in memory (`Work`), its refusal by `cleanMessage` (`Refuses`), the write of `filePath.tmp` (`Write`), the rename (`Rename`) and a
failure of the write (`PersistFails`), with `Crash` and `Load` between any of them; a file that was not
written to its end is `Torn`.  `LocalHistory` extends it: `Begin` is what every call does at
once (the mirror, a transaction of IndexedDB), `Calls` adds the request to the application,
`DeleteIfSender` awaits `db()` first, and `Settle` is `Promise.allSettled`.  `kept`, `removed` and
`seen` are history variables: what calls that ended have achieved in all copies (for a put,
in one of the two lasting ones), and what no later call has undone.

`DurableHistory` is an abstract specification: data, what a start would load, and answers.
`FileIsWhole` is `INSTANCE DurableHistory` with the file's loaded content for the disk, and says
that the store implements it.

### 2.9 Keys

A pair is a number, so public halves are compared as numbers and a backup is the number
it restores.  `at[t]` follows `start`: `get` (the read of IndexedDB in `E2EE.init`), `put`,
`publish`.  `InitKeys` is `init` between two awaits: for each of the two kinds the stored pair
`Serves`, the backup `Restores`, or a new one is made (`Makes`), or `init` throws (`Fails`).
`Accepts` is the server's rule, which binds another key only for the login that found an
account without a backup.  `PublishLost`, `RequestFails`, `Close` and `ClearData` are the
failures, bounded by `MaxTroubles`.

## 3. Runs

Twelve configurations.  `CHECK_DEADLOCK` is off except for the widget, whose visitor can always do
something: each of the other systems may come to rest when the calls of the instance have
all been made.

| Run | Instance | Shows |
|---|---|---|
| `hub` | one connection, two `SendTo`, one `Broadcast`, capacity 1 | no use of a closed channel, `Upgrade`'s unprotected send included; nothing is lost with room; a serving connection is registered; a connection that ends is released; `SendTo` returns |
| `store` | three members, one message, one attachment, one recall, one clear | the queue is exactly what is owed; only recall, clear and the deletion of the author's account remove history; an attachment row has its file; a message keeps its attachment; to each recipient, as long as its account exists, the server is a `MemberServer` |
| `message_ids` | three calls, two ids per millisecond, three milliseconds | ids are unique and in order; the loop ends |
| `tickets` | three tickets, three uses, two of them of one ticket | single use, right user, in time; the clean-up is harmless |
| `contacts` | two accounts, requests both ways, two creations that race and one without members | friends and conversations rest on agreement |
| `delivery` | one message, two clears, two runs of `syncOffline`, `loadOlder`, every fault but deletions of accounts | this device takes nothing from the queue that it has not stored or removed; a clear is pending until it has been tried here or ended elsewhere |
| `delivery_drain` | one message, one clear, one `syncOffline`, `openRoom`, every fault, deletions included | the queue drains |
| `delivery_cleared` | one message, one clear, no fault | **violated**: a clear reaches a connected device by neither way |
| `widget` | one session, two messages, three keys, every failure | nothing decrypted shows in the background; one session; polling catches up with every message that is not overtaken |
| `room` | two rooms, two messages of one of them, two openings, two jobs, three calls | only what the open room may show is shown; what is shown stays; the end of an `openRoom` or `loadOlder` does not show what was removed meanwhile |
| `local_history` | two messages, one of them one's own, two callers, three calls, room for one record in mirror and file | what calls promised holds in all copies; the store implements `DurableHistory` |
| `keys` | two tabs on one device or on two, two failures, new and old accounts | a client that has started can decrypt; logging in works in the end |

The types of `MessageId` and `Tickets` are not among the runs' invariants: `IdTypes` and
`TicketTypes` prove them.

### 3.1 Bounds

* *Hub.*  A channel of capacity 1 is full after `socket_ready` or one message, so every
  run meets both branches of each non-blocking send; two senders and a broadcast meet in
  one channel, which is then closed by an eviction or for its reader.  Capacity 256 adds
  only more of the first branch.  Several connections are too many states together with
  broadcasts; the theorems cover them.
* *MessageStore.*  Three members give a message two recipients, the least for "the last
  acknowledgement removes the row"; the two are interchangeable and reduced by symmetry.
  The attachment may be uploaded, sent, removed by its owner whose send got no answer,
  and recalled or cleared, with a crash between any two of these steps, and any account may be
  deleted at any point.  `Fetchers` and `Hiders` say whose devices ask for the queue (the two
  recipients) and who deletes for itself (the author, which touches one table).  Every operation
  occurs once per argument; `Fetch` and `Ack` may occur as often as the device likes.
  Two sends of one attachment are too many states here; `AttachmentsAreKept` covers them.
* *MessageId.*  Three calls with two ids per millisecond overrun the clock once, and three
  milliseconds let it be set back by one and by two.
* *Tickets.*  Lifetime 1 and times 0 to 3: a ticket can be good, expired at an answer, and
  expired at a clean-up with an old time.
* *Contacts.*  Two accounts and two creations of their direct conversation.  Groups of
  three are too large for TLC here; the theorem covers them.
* *Delivery.*  Two overlapping runs of `syncOffline` are the least for a stale one; two
  clears the least for "an older event acknowledges a newer clear".  Messages and runs of
  `syncOffline` are interchangeable and reduced by symmetry, in safety runs only.  `Reads`: with two
  runs the history is read by `loadOlder` alone, the one that no removal stops; `delivery_drain`
  has `openRoom`, and `delivery_cleared` both.  Deletions of accounts are in
  `delivery_drain`; they make the other instance too large, and the theorems cover them there.
* *Widget.*  One session and two messages: what could go wrong needs `sync` and submit under
  way together, a page hidden at an `await`, a failure, one message arriving by two ways, and
  one that overtakes another.  With one session a fourth key adds no state: `GenerateKey`
  is never short of a fresh one.  More sessions (those after "start anew") and more messages
  are covered by the theorems, except for `PollingCatchesUp`.
* *Room.*  Every property relates one or two tasks and one message or its room, and three
  calls (`MaxTurns`) are one task disturbed by two others; `Show`, `LeaveChats` and `CloseRoom` and every
  step of a task are free.  Two messages make "all but one" happen; a second room to leave
  for needs no messages.  The theorems cover all numbers.
* *LocalHistory.*  Two callers overlap in every way; three calls are a put, a removal of it
  and another put.  One record in mirror and file makes every second put drop one.  The
  application may crash and the page reload as often as they like.
* *Keys.*  Two tabs race in every step of `start`, on one device (one IndexedDB) or two.  Two
  failures make a login lose its answer and the next its device.  `MaxKey` only makes the
  state space finite: with 13 no login that needs a new pair ever finds the numbers used up,
  whereas a smaller bound would stop one and refute `LoginSucceeds` by itself.

### 3.2 Fairness

* *Hub* (`FairSpec`): the Go scheduler runs every goroutine that can run, so `Run`, the
  pumps, `SendReady` and each `SendTo` are weakly fair.  Nobody owes a call, a connection, a
  disconnection or a shutdown.  `WritePump`'s ping is what makes a dead connection fail.
* *Widget* (`FairSpec`): the event loop runs on and, while the panel is open, the timer starts
  `sync` again and again (`WF` of what `sync` does); after some time requests no longer fail
  (`<>[][~RequestFails]_vars`), without which no polling could promise anything.  Nobody owes
  a submit, an agent's reply or a visible page; the property asks only for what happens while
  the visitor looks.
* *Keys* (`FairSpec`): what `start` awaits comes or fails (`WF` of `StartStep`), and the user
  logs in with the password again and again until it has worked (`SF` of `Start(t, TRUE)`).
  The second is an assumption about the user; without it nobody would ever log in.
  Failures are finitely many.
* *MessageId*: each call runs on.  The swap may fail, but only because another succeeded.
* *Delivery* (`RoamingSpec`): goroutines and the browser's event loop run on, and a device
  without a connection makes one (`scheduleReconnect`).  Two more assumptions are made
  for `QueueDrains`: connections end from time to time, since the code starts `syncOffline`
  only in `onopen`, and a request that is made again and again succeeds in the end.  The
  first is a property of networks and not of the code: on a connection that never ends a
  failed synchronization is not repeated.

## 4. Proofs

TLAPS proves the following for every value of the constants that satisfies the named
assumptions of the module (which TLC evaluates in the runs).

* `HubProofs`.  `HubInvariant` is the inductive invariant: types; who may hold the lock
  (`HubSafe`): while a `SendTo` is in its loop the map contains all the clients it has
  still to visit, a client in the map has an open channel, `Run` holds at most one client
  and that one is not in the map; the pumps run only after `socket_ready` is queued.
  `HubTypes`, `HubNeverPanics` and `ServedIsRegistered` follow; `UpgradeIsSafe`, a part of
  `NoPanic`, adds that without broadcasts only a `ReadPump` causes a close.  `NoPanic` alone
  is not inductive: that a map entry is open depends on nobody being inserted twice.
  `NothingIsLostWithRoom` needs in addition that the targets of a `SendTo` were registered.
* `MessageStoreProofs`.  `QueueInvariant`: types, a message is in the history only after
  its commit, and the two properties, which need each other: a clear, a recall or the
  deletion of an account removes the queue's rows through joins with tables that must
  contain them.  `QueueMatchesDebt` and
  `HistoryOnlyWiped` follow.  `AttachmentInvariant` is a second one, over files, rows and
  sends: a row is written after its file and removed before it, and an attachment is bound
  to at most one message, which the conditional `UPDATE` of the commit decides and not the
  check before it.  `RowsHaveFiles` and `AttachmentsAreKept` follow.
  `ClearInvariant` is a third: the ids of clears are different and at most the last one drawn, and
  what a member has pending is the newest clear of the others (`NewestIsPending`), so an
  acknowledgement that names an older event changes nothing (`handlers.go:711`).
  `NewestClearIsPending` follows, and `StoreTypes` from all three.
  `ServesMembers` and `ImplementsMemberServer` prove the refinement of `MemberServer`, the first as
  the action property of the run, the second as the whole specification, for a member who
  makes no clear and under the assumption that its own account is never deleted.  Each
  transaction is mapped to its action; the queue's invariant is what makes the
  rest no step: without it the clean-up, or the acknowledgement of another member, could take a
  row that this member is still named in, and a recall by somebody who is not the author, or of a
  message that is gone, could touch the queue.
* `DeliveryProofs`, first part, about `MessageId`.  `IdInvariant`: every id is at most the
  counter, or, while the counter is zero, lies before the clock; a candidate exceeds what its call
  loaded, so a successful swap exceeds every id.  `IdTypes`, `IdsAreUnique`, `IdsAreOrdered` follow.
* `DeliveryProofs`, second part.  `AckedIsStored` is not inductive: an acknowledgement under way
  has been decided upon earlier.  So `DeliveryInvariant` follows each thing from where it was
  read to where it is used: events, fetched pages and pages of the history hold only what the
  server has committed (`UnderWay`), which rules out that a message is stored or acknowledged
  before it is sent; what the event chain or `syncOffline` is about to acknowledge is, or
  was, in the local history (`InHandIsStored`), so that only another device or the expiry can take
  what this one has not got; and the clear about to be acknowledged has been tried here, unless
  a later one has taken its place (`ClearInHandIsDone`), in which case the comparison of event ids
  makes the acknowledgement empty.  `DeliveryTypes`, `AcknowledgedIsStored` and
  `ClearsStayPending` follow, for any number of messages, clears, overlapping synchronizations,
  refusing copies, other devices and deleted accounts.  The server in it is `MemberServer` by
  definition; that a device with the server taken out of its module works with every
  `MemberServer` is not stated.
* `LoginProofs`, first part, about `Tickets`.  `TicketInvariant`: a ticket is in the map, in the
  hand of one call, or used.  `TicketTypes`, `TicketsAreSingleUse`, and the action properties
  `GoodTicketsAreKept` and `ExpiredTicketsAreRefused`, follow.
* `LoginProofs`, second part, about `Keys`.  `KeysInvariant`: a backup is of the published key
  (`BackedUp`); a published key that a login has read is still published (`RowsAreBound`, which excepts the
  classic key of an account from before the backups); and from the key pairs on, a tab has the published ones
  or has made its own and must still publish them (`HoldsPublished`).  The second is the point:
  a login works with a row it read several awaits earlier, and only the server's rule of
  acceptance keeps that row true.  `KeysTypes` and `StartedCanDecrypt` follow for any number of
  tabs and devices, and so does the action property `KeysAreBoundOnce`: a published key is never
  replaced, but for the same exception.
* `ContactsProofs`.  `ContactInvariant`: whoever asked has agreed, every member a creation
  has already checked has agreed, and members of a conversation were invited by its
  creator.  Friendships may end meanwhile; agreement is history and does not.
  `ContactTypes`, `FriendsHaveAgreed` and `ConversationsAmongFriends` follow.
* `WidgetProofs`.  `WidgetInv` is the types and `SharedSession`; the types say that what a
  task holds across an `await` (session, key, batch) belongs to what the server has
  handed out.  `WidgetTypes`, `SessionsAreShared`, `NothingShownHidden` follow, and
  `SessionsAreKept`: the token changes only from or to none.  That needs
  `SharedSession`: `CreateSession` overwrites the token, and is harmless only because
  nobody waits for a session while there is one.

* `RoomProofs`.  `RoomInv` is the types, `ShowsWhatIsOpen`, and three strengthenings: what a task
  holds is of the room it is about (`TasksOK`); the list that `loadOlder` remembers is of its
  room, and is the one shown as long as nobody replaced it (`ListOK`); and what a task that is
  still wanted holds is not gone (`GoneOK`): every removal ends the freshness of the
  tasks of its room before it touches the local history, and what a task reads there
  afterwards has come back by itself, from a copy that refused.  `RoomTypes`, `OnlyOpenIsShown`, and the action
  properties `ShownMessagesStay` and `RemovedMessagesStayHidden` follow, for any number of rooms,
  messages and tasks.
* `LocalHistoryProofs`.  `HistoryInv`: the types; between write and rename the temporary file is
  the table; while the application is down its memory is empty and nobody waits.
  `HistoryTypes` follows, and
  `HistoryIsDurable` proves the refinement: initial states map to initial states, and every
  step of `LocalHistory` is a step of `DurableHistory` or leaves its variables alone.
  `PromisesHold` speaks of calls that have ended, and a request of another call may still be
  waiting then.  So `PromiseInvariant` says of each of the three copies what it has taken and
  what waits before it: the mirror has what was done to it at once (`MirrorOK`); IndexedDB and the
  application have what they answered as done (`IndexedOK`, `StoreOK`), and nothing that waits
  behind a request, or at all once the request was answered, undoes it (`IdbOK`, `QueueOK`); a put
  is not followed by a deletion that still waits for the database to open (`PutOK`).  A
  database that refuses to open needs the exception in `IdbOK`: what waits there is never carried
  out.  `PromisesAreKept` follows, for any number of messages and callers.

The inductive invariants that say more than the properties of a run (`DeliveryInv`, `KeysInv`,
`PromiseInv`, `ClearInv`) have also been model-checked on the instance of that run.

Only model-checked: liveness (`DisconnectedIsReleased`, `SendToReturns`, `CallsEnd`,
`QueueDrains`, `PollingCatchesUp`, `LoginSucceeds`), which is out of the prover's reach, since it
rests on fairness and ENABLED.  Every invariant and every other action property of the passing
runs is a theorem.

## 5. What the code does otherwise than it says

One run ends in a violation, without any fault being needed: `ClearedIsGone`.  `onopen`
(`App.vue:772`) runs `syncOffline` once, perhaps before `Hub.Run` has inserted the connection.  A
clear committed after the pending clears were read, and sent before the insertion, reaches
the device neither way while the connection lasts (`App.vue:559` promises both ways).

More contradict the documents, and the models allow for them without a run of their own:

1. `store.go:119-120` inserts an accepted friendship for every direct conversation that has
   none, at every start and not once, so a removed friend (`README.md:82`) is a friend again
   after the next restart.  `Contacts` has the back-fill in `Restart`.
2. `ensureSession` shares one session between `sync` and submit, but `ensureKey`
   (`support-widget.js:52-64`) is not shared: a visitor who sends before the first polling is
   through makes both generate a key.  The first to post publishes its key, the second has
   replaced it in IndexedDB, and its own post is refused (409), as is that of every later
   load of the page.  `README.md:99` promises the key to be in IndexedDB.  In `Widget` that is
   `KeyLost`, which `PollingCatchesUp` excepts.
3. The clear of both sides' records (`App.vue:559`) is forgotten by the server as soon as any
   device has acknowledged it: the row is the user's (`handlers.go:711`), so a second device
   that was offline is never told and keeps its records.  And a device acknowledges it when
   its copies have answered, whatever they answered (`history.js:170`, `App.vue:696`), so a copy
   that refused keeps the records, and `page` shows them again (`history.js:113`).  In `Delivery`
   these are `ClearedElsewhere` and `Left`, and `ClearIsPending` promises the clear only until it
   has been tried on the device or ended elsewhere.  `deleteUser` also withdraws the clears that
   its account has made.
4. The entries of a room that is left are kept in `roomSessions` (`App.vue:281`).  A clear that has
   dropped the session already (`:560`, `:696`), and waits for `historyStore.clear`, drops no
   session that is made meanwhile, and afterwards empties the entries of the room only if it
   is open (`activeId`): open room r, clear it, change to another room while the local history is
   being cleared, open r again, and its old entries are shown; since `decryptMessages` merges
   what it reads into what is shown (`:255`), they stay until the page is hidden.
   `CHAT-CACHE-FIX-2026-10-30.md:13` says that recalls and clears invalidate the cache.
   `RemovedStaysHidden` is about the decryptions under way (the first half of that line) and not
   about this.
5. Polling can pass an agent's reply over.  Ids are drawn before the commit, so a reply may
   commit behind a greater id that has been fetched; and the answer to the visitor's own
   message raises `lastID` (`support-widget.js:43`, `:90`) past a reply that polling has not
   fetched.  It is not asked for again as long as the cache holds the greater id, from which
   a page that was hidden or reloaded goes on (`:76`).  `PollingCatchesUp` promises every message but those (`overtaken`).

Seen while modelling and not stated as runs: `socket_ready` can be queued before the
connection is in the map, against the comment at `handler.go:58`; the clean-up reads the
time twice (`handlers.go:637`), so recipients of a message that expires in between keep
their rows, which no query returns; two people who open their conversation at the same
time get two; a creation without other members panics with its transaction open, which
keeps a database connection from the pool; `loadOlder` puts the server's page before it
looks at `roomRevision`; a message deleted on the device only (`App.vue:525`) comes back with a page of the history,
since the server is never told.  In the widget: a page hidden and shown during a fetch
does not restore its cache, which `CHAT-CACHE-FIX-2026-10-30.md:15` announces; a failed
`sync` that finds a notice wipes every bubble without resetting `lastID`; two tasks that
append one message at the same time give it two bubbles.

In the room view: `loadOlder` (`App.vue:347-365`) prepends to the list from before its
decryption, so it undoes a `decryptMessages` of `openRoom` that ended meanwhile (`ShownIsKept`
excepts it as `OlderOverwrites`); an empty page sets `historyDone` of whatever room is open;
`addMessage` may give a message two entries; a removal during an opening ends the opening, and
nothing starts it again; refusing changed keys (`:317`) closes whatever room is open by then.  `sendMessage` reads the conversation before
the upload of a picture and `members.value` after it (`:431`, `:444`), and an `openRoom` that was
left may still set `members.value` when no key has changed (`:321`): a message can be encrypted
for the members of another room.  Two calls of `connect` that both wait for a ticket open two
sockets, which both feed the event chain.

In the local history: an IndexedDB that refuses to open is not asked again until the page is
reloaded, and `deleteIfSender` then rejects without asking the desktop's store; a put with
`read` false makes a read message unread again; a request whose write failed leaves its change in
memory; a file that cannot be parsed loads as an empty history, which the next request
writes over it; a put of an old message into a full table drops the message itself.

With the keys: an account from before the backups gets none as long as its device logs
in with the stored key, and a login elsewhere replaces the key (`CanDecrypt` excepts it);
`forwardMessage` (`:529`) encrypts to members' keys without asking whether they have changed, which
`README.md:128` promises; a start without the password makes no ML-KEM pair.

## 6. What is not modelled

* Of `MessageStore`: read marks and the flags of `conversation_members`, which no rule of
  messages reads; the bodies of history pages; `deleteUser` with a statement that fails, whose error
  the code ignores (`handlers.go:1188-1201`; a deadlock undoes the statements before it, while
  those after it still run); a recall that names another attachment of its caller
  (`handlers.go:771`), which the client never sends (`App.vue:526`).
* Of `Contacts`: `updateConversationState` and `readConversation`, independent flags.
* Of `Delivery`: the device of the member who clears or recalls, pages of 100; the copies of the
  local history one by one, which are in `LocalHistory`; what another device does beyond its
  acknowledgements.
* Of `Room`: order and repetition of entries, the cursor of the history, `members.value` and
  the sending of messages, the list of conversations with its previews and counts, the
  agents' view of their threads.
* Of `LocalHistory`: several accounts and conversations, whose records have keys of their own;
  the reading of pages, which merges the copies.  `PromisesHold` covers removals that no copy
  refused.  `FileIsWhole` is about the end of the application, not of the operating system:
  `persist` does not call fsync.
* Of `Keys`: trust in other people's keys and its confirmation, the keys of customer service,
  a password that changes.
* Connection management (`App.vue:736-783`) as such: `Delivery` has a connection that comes and
  goes, which is all that the delivery of messages sees of it.  The timers of `connect`,
  `scheduleReconnect` and the 12 seconds of `socketConnectTimer` are left out.
* Of `Widget`: the agents' own view of their threads (`App.vue`), roles and sites, the
  assignment, which is only displayed, the pages of 200 messages, the 300 ciphertexts
  kept, two bubbles of one message, and what the cache holds for the empty token.
* Cryptography, SQL isolation below the level of row locks, timeouts of HTTP and of the
  proxy, and everything listed as external in section 1.1.

## 7. Plan

1. `Connection`: `connect`, `reconnectNow`, `scheduleReconnect`.  Properties: at most one socket
   feeds the event chain, a lost connection comes back.
2. `Room`, continued: entries as a sequence with repetition, `members.value` and `sendMessage`
   (a message is encrypted for the members of its own conversation).
3. `Widget`, continued: a run in which the return from the background has to restore the
   cache, and bubbles as a bag, so that every message shows once; the agents' side.
4. `Keys`, continued: trust in other accounts' keys, across tabs.
5. Proofs: the refinement of `MemberServer` for a member who clears, once `Delivery` has that
   member's device; that a device without a server of its own works with every `MemberServer`;
   the parts of 1 to 4 as they are written.
