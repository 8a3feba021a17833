------------------------------- MODULE Widget --------------------------------
(***************************************************************************)
(* A visitor's support widget in one browser tab                           *)
(* (frontend/client/public/assets/support-widget.js) and the server's      *)
(* handlers it talks to (server/internal/api/support.go and                *)
(* support_encryption.go): sessions, the visitor's key, the messages of a  *)
(* session's thread and its status.                                        *)
(*                                                                         *)
(* Two asynchronous functions of the widget run side by side, sync (from a *)
(* timer, the launcher or the return of the page) and the handler of the   *)
(* form's submit.  They share every variable of the script, and a step of  *)
(* either ends at an await, even at one that the browser passes at once,   *)
(* so that more interleavings are possible here.  A session is named by    *)
(* the number of its thread; what is kept for the empty token is left out, *)
(* since only a function that the server is about to refuse could read it. *)
(* A request may fail at any time; that covers the network, a site that is *)
(* disabled, and an envelope for agents that have changed.                 *)
(***************************************************************************)
EXTENDS Naturals

CONSTANTS
    MaxSessions,    \* bound: sessions
    MaxMessages,    \* bound: ids of support_messages
    MaxKeys         \* keys generateKey can return

ASSUME BoundAssumption == MaxSessions \in Nat /\ MaxMessages \in Nat /\ MaxKeys \in Nat

Tasks    == {"sync", "submit"}
Sessions == 1..MaxSessions
Ids      == 1..MaxMessages
Keys     == 1..MaxKeys

VARIABLES
    sessions,       \* rows of support_visitors and support_threads
    published,      \* support_visitors.public_key, or 0
    open,           \* threads whose status is "open"
    thread,         \* support_messages: the thread_id of each committed id, or 0
    token,          \* visitorToken, also in localStorage: a session, or 0
    key,            \* visitorKey, or 0
    recipient,      \* recipientID: a session, or 0
    stored,         \* IndexedDB: the key of each session, or 0
    cache,          \* localStorage: the messages kept of each session
    lastID,
    shown,          \* bubbles in the panel
    notices,        \* notices in the panel: of a failure, the box with "restart"
    closed,
    panelOpen,      \* ~panel.hidden
    hidden,         \* document.hidden
    pc,             \* where each function awaits
    made,           \* the session and the key it works with
    batch,          \* messages it still has to append
    opening,        \* the one being decrypted, or 0
    after,          \* the lastID that sync asks with
    answer,         \* the status sync has read: closed or not
    overtaken       \* history: messages that a greater id was ahead of, either when
                    \* they committed or as the visitor's own message, cached before

serverVars == <<sessions, published, open, thread, overtaken>>
keyVars    == <<key, recipient, stored>>
viewVars   == <<lastID, shown, notices>>
userVars   == <<panelOpen, hidden>>
pollVars   == <<after, answer>>
taskVars   == <<made, batch, opening, pollVars>>
vars == <<serverVars, token, keyVars, cache, viewVars, closed, userVars, pc,
          taskVars>>

Watching == panelOpen /\ ~hidden

Goto(t, label) == pc' = [pc EXCEPT ![t] = label]

Init ==
    /\ sessions = 0
    /\ published = [s \in Sessions |-> 0]
    /\ open = {}
    /\ thread = [i \in Ids |-> 0]
    /\ token = 0 /\ key = 0 /\ recipient = 0
    /\ stored = [s \in Sessions |-> 0]
    /\ cache = [s \in Sessions |-> {}]
    /\ lastID = 0 /\ shown = {} /\ notices = {}
    /\ closed = FALSE
    /\ panelOpen = FALSE /\ hidden = FALSE
    /\ pc = [t \in Tasks |-> "idle"]
    /\ made = [t \in Tasks |-> <<0, 0>>]
    /\ batch = [t \in Tasks |-> {}]
    /\ opening = [t \in Tasks |-> 0]
    /\ after = 0 /\ answer = FALSE
    /\ overtaken = {}

------------------------------------------------------------------------------
(* Faulty variants of actions below: plausible bugs that a property reports. *)

\* A reply to a thread that does not exist.
BugAgentReply(s, i) ==
    /\ thread[i] = 0
    /\ thread' = [thread EXCEPT ![i] = s]
    /\ UNCHANGED <<sessions, published, open, overtaken, token, keyVars, cache, viewVars, closed,
                   userVars, pc, taskVars>>

\* append does not look again after its await.
BugAppendBlind(t) ==
    LET m == opening[t] IN
    /\ m # 0
    /\ shown' = shown \cup {m}
    /\ lastID' = IF m > lastID THEN m ELSE lastID
    /\ batch' = [batch EXCEPT ![t] = @ \ {m}]
    /\ opening' = [opening EXCEPT ![t] = 0]
    /\ UNCHANGED <<serverVars, token, keyVars, cache, notices, closed, userVars, pc, made,
                   pollVars>>

\* ensureSession without sessionPromise: each function makes a session of its own.
BugCreateOwn ==
    /\ sessions < MaxSessions
    /\ sessions' = sessions + 1
    /\ open' = open \cup {sessions'}
    /\ token' = sessions'
    /\ closed' = FALSE
    /\ lastID' = 0 /\ shown' = {} /\ notices' = {}
    /\ \E t \in Tasks : pc[t] = "create" /\ Goto(t, "get")
    /\ UNCHANGED <<published, thread, overtaken, keyVars, cache, userVars, taskVars>>

\* sync asks for the messages behind the newest that any answer has brought, whether
\* it was appended or not.
BugFetchMarks ==
    LET s == made["sync"][1]
        new == {i \in Ids : thread[i] = s /\ i > after} IN
    /\ pc["sync"] = "fetch" /\ s # 0
    /\ batch' = [batch EXCEPT !["sync"] = new]
    /\ lastID' = IF new = {} THEN lastID ELSE CHOOSE i \in new : \A j \in new : j <= i
    /\ made' = [made EXCEPT !["sync"] = <<0, 0>>]
    /\ after' = 0 /\ answer' = (s \notin open)
    /\ Goto("sync", "show")
    /\ UNCHANGED <<serverVars, opening, shown, notices, token, keyVars, cache, closed, userVars>>

------------------------------------------------------------------------------
(* Failures.                                                               *)

\* What a function forgets when it ends.
Ended(t) ==
    /\ Goto(t, "idle")
    /\ made' = [made EXCEPT ![t] = <<0, 0>>]
    /\ batch' = [batch EXCEPT ![t] = {}]
    /\ opening' = [opening EXCEPT ![t] = 0]
    /\ IF t = "sync" THEN after' = 0 /\ answer' = FALSE ELSE UNCHANGED pollVars

\* The catch of submit adds a notice; the catch of sync replaces everything in the
\* panel by one if there is a notice or nothing else.
NoticeOf(failing) ==
    LET wipe == shown = {} \/ notices # {} IN
    IF "sync" \in failing /\ wipe
    THEN /\ shown' = {} /\ notices' = {"failure"}
    ELSE /\ notices' = IF "submit" \in failing THEN notices \cup {"failure"} ELSE notices
         /\ UNCHANGED shown

Fails(t) == Ended(t) /\ NoticeOf({t}) /\ UNCHANGED <<lastID, token, recipient>>

\* error.status===401: the widget forgets its session.
Unauthorized(t) ==
    IF t = "submit" THEN Fails(t) /\ UNCHANGED key
    ELSE /\ Ended(t)
         /\ token' = 0 /\ key' = 0 /\ recipient' = 0
         /\ lastID' = 0 /\ shown' = {} /\ notices' = {}

\* A request, or IndexedDB, fails, the server refuses a key or an envelope that does not
\* name the thread's present members with keys of theirs, or an answer is lost.
TaskFails(t) ==
    /\ \/ pc[t] \in {"get", "got", "post", "posted", "fetch", "send", "insert"}
       \/ t = "submit" /\ pc[t] = "show" /\ opening[t] = 0 /\ batch[t] # {}
    /\ Fails(t)
    /\ UNCHANGED <<serverVars, key, stored, cache, closed, userVars>>

------------------------------------------------------------------------------
(* ensureSession and ensureKey.                                            *)

\* A function that has its session and key goes on: sync with
\* if(!lastID)for(const message of cachedMessages())await append(message)
Continue(t) ==
    /\ Goto(t, IF t = "sync" THEN "restore" ELSE "send")
    /\ batch' = IF t = "sync" /\ lastID = 0 /\ token # 0
              THEN [batch EXCEPT ![t] = cache[token]] ELSE batch
    /\ UNCHANGED <<opening, pollVars>>

\* The first step of sync and submit.
Starts(t) ==
    /\ pc[t] = "idle"
    /\ IF token # 0 /\ key # 0 /\ recipient # 0
       THEN Continue(t)
       ELSE /\ Goto(t, IF token = 0 THEN "create" ELSE "get")
            /\ UNCHANGED <<batch, opening, pollVars>>
    /\ UNCHANGED <<serverVars, token, keyVars, cache, viewVars, closed, userVars,
                   made>>

\* sync returns at once if one is running or nobody is looking.
StartSync == Watching /\ Starts("sync")

StartSubmit == Watching /\ ~closed /\ Starts("submit")

\* createWidgetSession, of a site that is enabled and for this origin: everybody who
\* awaits sessionPromise goes on.
CreateSession ==
    /\ \E t \in Tasks : pc[t] = "create"
    /\ sessions < MaxSessions
    /\ sessions' = sessions + 1
    /\ open' = open \cup {sessions'}
    /\ token' = sessions'
    /\ closed' = FALSE
    /\ lastID' = 0 /\ shown' = {} /\ notices' = {}
    /\ pc' = [t \in Tasks |-> IF pc[t] = "create" THEN "get" ELSE pc[t]]
    /\ UNCHANGED <<published, thread, overtaken, keyVars, cache, userVars, taskVars>>

CreateFails ==
    /\ \E t \in Tasks : pc[t] = "create"
    /\ pc' = [t \in Tasks |-> IF pc[t] = "create" THEN "idle" ELSE pc[t]]
    /\ NoticeOf({t \in Tasks : pc[t] = "create"})
    /\ UNCHANGED <<serverVars, token, keyVars, cache, lastID, closed, userVars,
                   taskVars>>

\* exportKey(visitorKey.publicKey), of the key k the script has now, for the request.
Export(t, k) ==
    IF k = 0
    THEN Fails(t)
    ELSE /\ made' = [made EXCEPT ![t] = <<token, k>>]
         /\ Goto(t, "post")
         /\ UNCHANGED <<batch, opening, pollVars, viewVars, token, recipient>>

\* The transactions of IndexedDB take their turns: a get reads what the puts before it
\* write ...
ReadKey(t) ==
    /\ pc[t] = "get"
    /\ made' = [made EXCEPT ![t] = <<token, IF token = 0 THEN 0 ELSE stored[token]>>]
    /\ Goto(t, "got")
    /\ UNCHANGED <<serverVars, token, keyVars, cache, viewVars, closed, userVars, batch,
                   opening, pollVars>>

\* ... and visitorKey = await get(storageKey + ':' + visitorToken)
GotKey(t) ==
    /\ pc[t] = "got"
    /\ key' = made[t][2]
    /\ IF key' = 0
       THEN /\ Goto(t, "generate")
            /\ made' = [made EXCEPT ![t] = <<0, 0>>]
            /\ UNCHANGED <<batch, opening, pollVars, viewVars, token, recipient>>
       ELSE Export(t, key')
    /\ UNCHANGED <<serverVars, stored, cache, closed, userVars>>

\* A key that nobody has.
Fresh(k) == k \notin {key} \cup {stored[s] : s \in Sessions}
                     \cup {published[s] : s \in Sessions} \cup {made[t][2] : t \in Tasks}

\* visitorKey = await generateKey(), and put is called with it at once.
GenerateKey(t) ==
    /\ pc[t] = "generate"
    /\ \E k \in Keys :
        /\ Fresh(k) /\ \A j \in 1..(k-1) : ~Fresh(j)
        /\ key' = k
    /\ stored' = [s \in Sessions |-> IF s = token THEN key' ELSE stored[s]]
    /\ Goto(t, "put")
    /\ UNCHANGED <<serverVars, token, recipient, cache, viewVars, closed, userVars, taskVars>>

\* The put is complete: whatever key the script has now is exported.
KeyPut(t) ==
    /\ pc[t] = "put"
    /\ Export(t, key)
    /\ UNCHANGED <<serverVars, key, stored, cache, closed, userVars>>

\* setVisitorKey: the first key of a session stays; another one is a conflict (409).
PostKey(t) ==
    LET k == made[t][2] IN
    /\ pc[t] = "post"
    /\ IF token = 0
       THEN Unauthorized(t) /\ UNCHANGED published
       ELSE IF published[token] \in {0, k}
       THEN /\ published' = [published EXCEPT ![token] = k]
            /\ made' = [made EXCEPT ![t] = <<token, 0>>]
            /\ Goto(t, "posted")
            /\ UNCHANGED <<batch, opening, pollVars, viewVars, token, key, recipient>>
       ELSE Fails(t) /\ UNCHANGED <<published, key>>
    /\ UNCHANGED <<sessions, open, thread, overtaken, stored, cache, closed, userVars>>

\* recipientID = result.recipient_id
KeyPosted(t) ==
    /\ pc[t] = "posted"
    /\ recipient' = made[t][1]
    /\ made' = [made EXCEPT ![t] = <<0, 0>>]
    /\ Continue(t)
    /\ UNCHANGED <<serverVars, token, key, stored, cache, viewVars, closed,
                   userVars>>

------------------------------------------------------------------------------
(* append: cache the message, then show it unless nobody looks or it is    *)
(* there already.                                                          *)

\* No message that is left needs a bubble.
AppendRest(t) ==
    /\ batch[t] # {} /\ (Watching => batch[t] \subseteq shown)
    /\ cache' = [s \in Sessions |-> IF s = token THEN cache[s] \cup batch[t] ELSE cache[s]]
    /\ batch' = [batch EXCEPT ![t] = {}]
    /\ UNCHANGED <<opening, made, pollVars, pc, viewVars, token, recipient>>

\* m is the first that does; visitorKey.privateKey of null fails.
AppendOne(t, m) ==
    LET begun == {i \in batch[t] : i <= m} IN
    /\ Watching /\ m \in batch[t] \ shown
    /\ \A i \in begun : i # m => i \in shown
    /\ cache' = [s \in Sessions |-> IF s = token THEN cache[s] \cup begun ELSE cache[s]]
    /\ IF key = 0
       THEN Fails(t)
       ELSE /\ batch' = [batch EXCEPT ![t] = @ \ (begun \ {m})]
            /\ opening' = [opening EXCEPT ![t] = m]
            /\ UNCHANGED <<made, pollVars, pc, viewVars, token, recipient>>

\* What the visitor's own message leaves behind: the widget has not fetched it yet, and
\* will not once the bubble of a greater id, made now or from the cache, raises lastID.
LeftBehind == {i \in Ids : /\ token # 0 /\ thread[i] = token /\ i \notin cache[token]
                           /\ \E k \in batch["submit"] : k > i}

\* The loop runs up to the first await.
AppendStarts(t) ==
    /\ pc[t] \in {"restore", "show"} /\ opening[t] = 0
    /\ AppendRest(t) \/ \E m \in Ids : AppendOne(t, m)
    /\ overtaken' = IF t = "submit" THEN overtaken \cup LeftBehind ELSE overtaken
    /\ UNCHANGED <<sessions, published, open, thread, key, stored, closed, userVars>>

\* decrypt has returned: look again whether somebody looks.
AppendEnds(t) ==
    LET m == opening[t] IN
    /\ m # 0
    /\ IF Watching
       THEN /\ shown' = shown \cup {m}
            /\ lastID' = IF m > lastID THEN m ELSE lastID
       ELSE UNCHANGED <<shown, lastID>>
    /\ batch' = [batch EXCEPT ![t] = @ \ {m}]
    /\ opening' = [opening EXCEPT ![t] = 0]
    /\ UNCHANGED <<serverVars, token, keyVars, cache, notices, closed, userVars,
                   pc, made, pollVars>>

------------------------------------------------------------------------------
(* sync.                                                                   *)

\* request('/messages?after='+lastID), with the token of this moment ...
AskMessages ==
    /\ pc["sync"] = "restore" /\ batch["sync"] = {}
    /\ made' = [made EXCEPT !["sync"] = <<token, 0>>]
    /\ after' = lastID
    /\ Goto("sync", "fetch")
    /\ UNCHANGED <<serverVars, token, keyVars, cache, viewVars, closed, userVars, batch,
                   opening, answer>>

\* ... and widgetMessages: the thread's messages after that id, and its status.
FetchMessages ==
    LET s == made["sync"][1] IN
    /\ pc["sync"] = "fetch"
    /\ IF s = 0
       THEN Unauthorized("sync")
       ELSE /\ batch' = [batch EXCEPT !["sync"] = {i \in Ids : thread[i] = s /\ i > after}]
            /\ made' = [made EXCEPT !["sync"] = <<0, 0>>]
            /\ after' = 0 /\ answer' = (s \notin open)
            /\ Goto("sync", "show")
            /\ UNCHANGED <<opening, viewVars, token, key, recipient>>
    /\ UNCHANGED <<serverVars, stored, cache, closed, userVars>>

\* closed=result.thread.status==='closed', with the box to start anew.
SyncEnds ==
    /\ pc["sync"] = "show" /\ batch["sync"] = {}
    /\ closed' = answer
    /\ notices' = IF answer THEN notices \cup {"restart"} ELSE notices
    /\ Ended("sync")
    /\ UNCHANGED <<serverVars, token, keyVars, cache, lastID, shown, userVars>>

------------------------------------------------------------------------------
(* submit.                                                                 *)

\* sendWidgetMessage finds the thread and checks its status ...
SendCheck ==
    /\ pc["submit"] = "send"
    /\ IF token = 0 \/ token \notin open
       THEN Fails("submit") /\ UNCHANGED key
       ELSE /\ made' = [made EXCEPT !["submit"] = <<token, 0>>]
            /\ Goto("submit", "insert")
            /\ UNCHANGED <<batch, opening, pollVars, viewVars, token, key, recipient>>
    /\ UNCHANGED <<serverVars, stored, cache, closed, userVars>>

\* ... and inserts the message, whatever happens to the thread in between.
SendInsert ==
    /\ pc["submit"] = "insert"
    /\ \E i \in Ids :
        /\ \A j \in Ids : thread[j] # 0 => j < i
        /\ thread' = [thread EXCEPT ![i] = made["submit"][1]]
        /\ batch' = [batch EXCEPT !["submit"] = {i}]
    /\ made' = [made EXCEPT !["submit"] = <<0, 0>>]
    /\ Goto("submit", "show")
    /\ UNCHANGED <<sessions, published, open, overtaken, token, keyVars, cache, viewVars,
                   closed, userVars, opening, pollVars>>

SubmitEnds ==
    /\ pc["submit"] = "show" /\ batch["submit"] = {}
    /\ Ended("submit")
    /\ UNCHANGED <<serverVars, token, keyVars, cache, viewVars, closed, userVars>>

------------------------------------------------------------------------------
(* Agents.                                                                 *)

\* sendSupportMessage commits.  It has found the thread open at some time, which every
\* thread was, and has drawn the id at some time, so that greater ones may be there.
AgentReply(s, i) ==
    /\ s \in 1..sessions
    /\ thread[i] = 0
    /\ thread' = [thread EXCEPT ![i] = s]
    /\ overtaken' = IF \E k \in Ids : k > i /\ thread[k] = s
                    THEN overtaken \cup {i} ELSE overtaken
    /\ UNCHANGED <<sessions, published, open, token, keyVars, cache, viewVars, closed,
                   userVars, pc, taskVars>>

\* updateSupportThreadStatus
SetStatus(s) ==
    /\ s \in 1..sessions
    /\ open' \in {open \cup {s}, open \ {s}}
    /\ UNCHANGED <<sessions, published, thread, overtaken, token, keyVars, cache, viewVars, closed,
                   userVars, pc, taskVars>>

------------------------------------------------------------------------------
(* The visitor.                                                            *)

\* The launcher and the cross; the bubbles stay.
TogglePanel ==
    /\ ~hidden
    /\ panelOpen' = ~panelOpen
    /\ UNCHANGED <<serverVars, token, keyVars, cache, viewVars, closed, hidden, pc,
                   taskVars>>

\* visibilitychange: what was decrypted is released.
HidePage ==
    /\ ~hidden
    /\ hidden' = TRUE
    /\ lastID' = 0 /\ shown' = {} /\ notices' = {}
    /\ UNCHANGED <<serverVars, token, keyVars, cache, closed, panelOpen, pc,
                   taskVars>>

ShowPage ==
    /\ hidden
    /\ hidden' = FALSE
    /\ UNCHANGED <<serverVars, token, keyVars, cache, viewVars, closed, panelOpen,
                   pc, taskVars>>

\* "start anew": the sync it calls is StartSync.
Restart ==
    /\ Watching /\ "restart" \in notices
    /\ token' = 0 /\ key' = 0 /\ recipient' = 0 /\ lastID' = 0
    /\ notices' = notices \ {"restart"}
    /\ UNCHANGED <<serverVars, stored, cache, shown, closed, userVars, pc,
                   taskVars>>

\* The page is loaded anew; localStorage and IndexedDB stay.
Reload ==
    /\ key' = 0 /\ recipient' = 0 /\ lastID' = 0 /\ shown' = {} /\ notices' = {}
    /\ closed' = FALSE
    /\ panelOpen' = FALSE /\ hidden' = FALSE
    /\ pc' = [t \in Tasks |-> "idle"]
    /\ made' = [t \in Tasks |-> <<0, 0>>]
    /\ batch' = [t \in Tasks |-> {}]
    /\ opening' = [t \in Tasks |-> 0]
    /\ after' = 0 /\ answer' = FALSE
    /\ UNCHANGED <<serverVars, token, stored, cache>>

------------------------------------------------------------------------------
SessionNext ==
    \/ StartSync \/ StartSubmit \/ CreateSession \/ CreateFails
    \/ \E t \in Tasks : \/ ReadKey(t) \/ GotKey(t) \/ GenerateKey(t) \/ KeyPut(t)
                        \/ PostKey(t) \/ KeyPosted(t) \/ TaskFails(t)

MessageNext ==
    \/ \E t \in Tasks : AppendStarts(t) \/ AppendEnds(t)
    \/ AskMessages \/ FetchMessages \/ SyncEnds
    \/ SendCheck \/ SendInsert \/ SubmitEnds

AgentNext == \E s \in Sessions : SetStatus(s) \/ \E i \in Ids : AgentReply(s, i)

VisitorNext == TogglePanel \/ HidePage \/ ShowPage \/ Restart \/ Reload

Next == SessionNext \/ MessageNext \/ AgentNext \/ VisitorNext

Spec == Init /\ [][Next]_vars

RequestFails == CreateFails \/ \E t \in Tasks : TaskFails(t)

\* What sync does by itself, the timer that starts it included.
SyncStep == \/ StartSync \/ CreateSession \/ AskMessages \/ FetchMessages \/ SyncEnds
            \/ ReadKey("sync") \/ GotKey("sync") \/ GenerateKey("sync") \/ KeyPut("sync")
            \/ PostKey("sync") \/ KeyPosted("sync") \/ AppendStarts("sync") \/ AppendEnds("sync")

\* The event loop runs on and the timer starts sync while the panel is open; after some
\* time requests are answered.
FairSpec ==
    /\ Spec
    /\ WF_vars(SyncStep)
    /\ <>[][~RequestFails]_vars

------------------------------------------------------------------------------
(* Properties.                                                             *)

Labels == {"idle", "create", "get", "got", "generate", "put", "post", "posted", "restore",
           "fetch", "send", "insert", "show"}

ServerTypes ==
    /\ sessions \in 0..MaxSessions /\ open \in SUBSET (1..sessions)
    /\ published \in [Sessions -> Keys \cup {0}]
    /\ thread \in [Ids -> 0..sessions]
    /\ overtaken \subseteq Ids

KeyTypes ==
    /\ token \in 0..sessions /\ recipient \in 0..sessions
    /\ key \in Keys \cup {0} /\ stored \in [Sessions -> Keys \cup {0}]

ViewTypes ==
    /\ cache \in [Sessions -> SUBSET Ids]
    /\ lastID \in Ids \cup {0} /\ shown \in SUBSET Ids
    /\ notices \in SUBSET {"failure", "restart"}
    /\ closed \in BOOLEAN /\ panelOpen \in BOOLEAN /\ hidden \in BOOLEAN

TaskTypes ==
    /\ pc \in [Tasks -> Labels]
    /\ batch \in [Tasks -> SUBSET Ids]
    /\ opening \in [Tasks -> Ids \cup {0}]
    /\ after \in Ids \cup {0} /\ answer \in BOOLEAN

MadeTypes == made \in [Tasks -> (0..sessions) \X (Keys \cup {0})]

TypeOK == ServerTypes /\ KeyTypes /\ ViewTypes /\ TaskTypes /\ MadeTypes

\* README.md:94: in the background nothing decrypted is on display, although a message
\* may be in the middle of its decryption as the page is hidden.
HiddenShowsNothing == hidden => shown = {}

\* Functions that need a session at the same time share one: none awaits a session while
\* there is one, so that none replaces the one in use.
SharedSession == \A t \in Tasks : pc[t] = "create" => token = 0

\* The widget never replaces its session by another: "start anew" and a refusal by the
\* server drop it first.
SessionIsKept == [][token # 0 => token' \in {0, token}]_vars

\* The key in IndexedDB and the published one differ.
KeyLost == token # 0 /\ published[token] \notin {0, stored[token]}

\* A message of the thread that the visitor, who looks, has not got: it is not kept, or
\* its bubble or that of a later one has not been made.
Missing(m) ==
    /\ Watching /\ token # 0 /\ thread[m] = token /\ m \notin overtaken
    /\ m \notin cache[token] \/ lastID < m

\* While the visitor looks, polling brings every message of the thread into the widget,
\* and again and again it has them all: no failure, no send and no return of the page
\* makes sync pass one over or leaves it behind for good (support-widget.js:76).  What a
\* greater id has overtaken may be passed over (:43 raises lastID to what is appended,
\* the answer of :90 to the visitor's own message included), and a visitor whose key is
\* lost cannot go on.
PollingCatchesUp == []<>(KeyLost \/ \A m \in Ids : ~Missing(m))

==============================================================================
