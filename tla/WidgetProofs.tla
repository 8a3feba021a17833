---------------------------- MODULE WidgetProofs -----------------------------
(***************************************************************************)
(* Proofs about Widget, for any number of sessions, messages and keys and  *)
(* any interleaving of sync, submit, the visitor and the agents.           *)
(***************************************************************************)
EXTENDS Widget, TLAPS

\* The types, and that a function awaits a session only while there is none.
WidgetInv == TypeOK /\ SharedSession

\* Nothing has begun.
LEMMA InitWidget == Init => WidgetInv /\ HiddenShowsNothing
<1> SUFFICES ASSUME Init PROVE WidgetInv /\ HiddenShowsNothing
  OBVIOUS
<1>1. ServerTypes
  BY BoundAssumption DEF Init, ServerTypes, Sessions, Ids, Keys
<1>2. KeyTypes
  BY <1>1 DEF Init, KeyTypes, ServerTypes, Sessions, Ids, Keys
<1>3. ViewTypes
  BY DEF Init, ViewTypes, Sessions, Ids
<1>4. TaskTypes
  BY DEF Init, TaskTypes, Labels, Ids
<1>m. MadeTypes
  BY <1>1 DEF Init, MadeTypes, ServerTypes, Keys
<1>5. SharedSession /\ HiddenShowsNothing
  BY DEF Init, SharedSession, HiddenShowsNothing
<1>q. QED
  BY <1>1, <1>2, <1>3, <1>4, <1>m, <1>5 DEF WidgetInv, TypeOK

USE DEF Goto, Sessions, Ids, Keys, serverVars, keyVars, viewVars, userVars, pollVars, taskVars

\* A function that fails keeps the types and waits for no session.
LEMMA FailsKeeps ==
    ASSUME WidgetInv, NEW t \in Tasks, Fails(t)
    PROVE  /\ pc' \in [Tasks -> Labels]
           /\ \A u \in Tasks : pc'[u] = "create" => pc[u] = "create"
           /\ made' \in [Tasks -> (0..sessions) \X (Keys \cup {0})]
           /\ batch' \in [Tasks -> SUBSET Ids]
           /\ opening' \in [Tasks -> Ids \cup {0}]
           /\ after' \in Ids \cup {0} /\ answer' \in BOOLEAN
           /\ shown' \in SUBSET shown
           /\ notices' \in SUBSET {"failure", "restart"}
           /\ UNCHANGED <<lastID, token, recipient>>
<1>1. /\ pc' \in [Tasks -> Labels]
      /\ \A u \in Tasks : pc'[u] = "create" => pc[u] = "create"
  BY DEF WidgetInv, TypeOK, TaskTypes, Fails, Ended, Labels
<1>2. made' \in [Tasks -> (0..sessions) \X (Keys \cup {0})]
  BY DEF WidgetInv, TypeOK, ServerTypes, MadeTypes, Fails, Ended, Labels
<1>3. /\ batch' \in [Tasks -> SUBSET Ids]
      /\ opening' \in [Tasks -> Ids \cup {0}]
      /\ after' \in Ids \cup {0} /\ answer' \in BOOLEAN
  BY DEF WidgetInv, TypeOK, TaskTypes, Fails, Ended, Labels
<1>4. shown' \in SUBSET shown /\ notices' \in SUBSET {"failure", "restart"}
  BY DEF WidgetInv, TypeOK, ViewTypes, Fails, NoticeOf
<1>q. QED
  BY <1>1, <1>2, <1>3, <1>4 DEF Fails

\* What a function works with is a session, or none, and a key, or none.
LEMMA MadeParts ==
    ASSUME WidgetInv, NEW t \in Tasks
    PROVE  made[t][1] \in 0..sessions /\ made[t][2] \in Keys \cup {0}
<1>1. made[t] \in (0..sessions) \X (Keys \cup {0})
  BY DEF WidgetInv, TypeOK, MadeTypes
<1>q. QED
  BY <1>1

\* It may be set to any such pair.
LEMMA MadeSet ==
    ASSUME WidgetInv, NEW t \in Tasks, NEW s \in 0..sessions, NEW k \in Keys \cup {0},
           UNCHANGED sessions, made' = [made EXCEPT ![t] = <<s, k>>]
    PROVE  MadeTypes'
<1>1. <<s, k>> \in (0..sessions) \X (Keys \cup {0})
  OBVIOUS
<1>q. QED
  BY <1>1 DEF WidgetInv, TypeOK, MadeTypes

\* A function that goes on has the messages of the cache, or none, to append.
LEMMA ContinueTypes ==
    ASSUME WidgetInv, NEW t \in Tasks, Continue(t) PROVE TaskTypes'
<1>1. /\ pc' \in [Tasks -> Labels] /\ opening' \in [Tasks -> Ids \cup {0}]
      /\ after' \in Ids \cup {0} /\ answer' \in BOOLEAN
  BY DEF Continue, WidgetInv, TypeOK, TaskTypes, Labels
<1>2. token # 0 => cache[token] \in SUBSET Ids
  BY BoundAssumption DEF WidgetInv, TypeOK, KeyTypes, ServerTypes, ViewTypes
<1>3. batch' \in [Tasks -> SUBSET Ids]
  BY <1>2 DEF Continue, WidgetInv, TypeOK, TaskTypes
<1>q. QED
  BY <1>1, <1>3 DEF TaskTypes

\* Every step keeps the types and lets nobody wait for a session while there is one.
LEMMA WidgetStep == ASSUME WidgetInv, [Next]_vars PROVE WidgetInv'
<1>s. SUFFICES ASSUME WidgetInv PROVE [Next]_vars => WidgetInv'
  OBVIOUS
<1>1. CASE StartSync
  <2>1. ServerTypes'
    BY <1>s, <1>1 DEF StartSync, Starts, WidgetInv, TypeOK, ServerTypes
  <2>2. KeyTypes'
    BY <1>s, <1>1 DEF StartSync, Starts, WidgetInv, TypeOK, KeyTypes
  <2>3. ViewTypes'
    BY <1>s, <1>1 DEF StartSync, Starts, WidgetInv, TypeOK, ViewTypes
  <2>4. TaskTypes'
    <3>t. "sync" \in Tasks
      BY DEF Tasks
    <3>1. CASE token # 0 /\ key # 0 /\ recipient # 0
      <4>1. Continue("sync")
        BY <1>1, <3>1 DEF StartSync, Starts
      <4>q. QED
        BY <1>s, <3>t, <4>1, ContinueTypes
    <3>2. CASE ~(token # 0 /\ key # 0 /\ recipient # 0)
      BY <1>s, <1>1, <3>2 DEF StartSync, Starts, WidgetInv, TypeOK, TaskTypes, Labels
    <3>q. QED
      BY <3>1, <3>2
  <2>5. MadeTypes'
    BY <1>s, <1>1 DEF StartSync, Starts, WidgetInv, TypeOK, MadeTypes
  <2>6. SharedSession'
    BY <1>s, <1>1
       DEF StartSync, Starts, Continue, WidgetInv, TypeOK, TaskTypes, SharedSession
  <2>q. QED
    BY <2>1, <2>2, <2>3, <2>4, <2>5, <2>6 DEF WidgetInv, TypeOK
<1>2. CASE StartSubmit
  <2>1. ServerTypes'
    BY <1>s, <1>2 DEF StartSubmit, Starts, WidgetInv, TypeOK, ServerTypes
  <2>2. KeyTypes'
    BY <1>s, <1>2 DEF StartSubmit, Starts, WidgetInv, TypeOK, KeyTypes
  <2>3. ViewTypes'
    BY <1>s, <1>2 DEF StartSubmit, Starts, WidgetInv, TypeOK, ViewTypes
  <2>4. TaskTypes'
    <3>t. "submit" \in Tasks
      BY DEF Tasks
    <3>1. CASE token # 0 /\ key # 0 /\ recipient # 0
      <4>1. Continue("submit")
        BY <1>2, <3>1 DEF StartSubmit, Starts
      <4>q. QED
        BY <1>s, <3>t, <4>1, ContinueTypes
    <3>2. CASE ~(token # 0 /\ key # 0 /\ recipient # 0)
      BY <1>s, <1>2, <3>2 DEF StartSubmit, Starts, WidgetInv, TypeOK, TaskTypes, Labels
    <3>q. QED
      BY <3>1, <3>2
  <2>5. MadeTypes'
    BY <1>s, <1>2 DEF StartSubmit, Starts, WidgetInv, TypeOK, MadeTypes
  <2>6. SharedSession'
    BY <1>s, <1>2
       DEF StartSubmit, Starts, Continue, WidgetInv, TypeOK, TaskTypes, SharedSession
  <2>q. QED
    BY <2>1, <2>2, <2>3, <2>4, <2>5, <2>6 DEF WidgetInv, TypeOK
<1>3. CASE CreateSession
  <2>1. ServerTypes'
    BY <1>s, <1>3, BoundAssumption DEF CreateSession, WidgetInv, TypeOK, ServerTypes
  <2>2. KeyTypes'
    BY <1>s, <1>3 DEF CreateSession, WidgetInv, TypeOK, ServerTypes, KeyTypes
  <2>3. ViewTypes'
    BY <1>s, <1>3 DEF CreateSession, WidgetInv, TypeOK, ViewTypes
  <2>4. TaskTypes'
    BY <1>s, <1>3 DEF CreateSession, WidgetInv, TypeOK, TaskTypes, Labels
  <2>5. MadeTypes'
    BY <1>s, <1>3 DEF CreateSession, WidgetInv, TypeOK, ServerTypes, MadeTypes
  <2>6. SharedSession'
    BY <1>s, <1>3 DEF CreateSession, WidgetInv, TypeOK, SharedSession
  <2>q. QED
    BY <2>1, <2>2, <2>3, <2>4, <2>5, <2>6 DEF WidgetInv, TypeOK
<1>4. CASE CreateFails
  <2>1. ServerTypes'
    BY <1>s, <1>4 DEF CreateFails, WidgetInv, TypeOK, ServerTypes
  <2>2. KeyTypes'
    BY <1>s, <1>4 DEF CreateFails, WidgetInv, TypeOK, KeyTypes
  <2>3. ViewTypes'
    BY <1>s, <1>4 DEF CreateFails, NoticeOf, WidgetInv, TypeOK, ViewTypes
  <2>4. TaskTypes'
    BY <1>s, <1>4 DEF CreateFails, WidgetInv, TypeOK, TaskTypes, Labels
  <2>5. MadeTypes'
    BY <1>s, <1>4 DEF CreateFails, WidgetInv, TypeOK, MadeTypes
  <2>6. SharedSession'
    BY <1>s, <1>4 DEF CreateFails, WidgetInv, TypeOK, SharedSession
  <2>q. QED
    BY <2>1, <2>2, <2>3, <2>4, <2>5, <2>6 DEF WidgetInv, TypeOK
<1>5. ASSUME NEW t \in Tasks, ReadKey(t) PROVE WidgetInv'
  <2>1. ServerTypes'
    BY <1>s, <1>5 DEF ReadKey, WidgetInv, TypeOK, ServerTypes
  <2>2. KeyTypes'
    BY <1>s, <1>5 DEF ReadKey, WidgetInv, TypeOK, KeyTypes
  <2>3. ViewTypes'
    BY <1>s, <1>5 DEF ReadKey, WidgetInv, TypeOK, ViewTypes
  <2>4. TaskTypes'
    BY <1>s, <1>5 DEF ReadKey, WidgetInv, TypeOK, TaskTypes, Labels
  <2>5. MadeTypes'
    BY <1>s, <1>5, BoundAssumption
       DEF ReadKey, WidgetInv, TypeOK, ServerTypes, KeyTypes, MadeTypes
  <2>6. SharedSession'
    BY <1>s, <1>5 DEF ReadKey, WidgetInv, TypeOK, SharedSession
  <2>q. QED
    BY <2>1, <2>2, <2>3, <2>4, <2>5, <2>6 DEF WidgetInv, TypeOK
<1>6. ASSUME NEW t \in Tasks, GotKey(t) PROVE WidgetInv'
  <2>1. ServerTypes'
    BY <1>s, <1>6 DEF GotKey, WidgetInv, TypeOK, ServerTypes
  <2>2. KeyTypes'
    BY <1>s, <1>6 DEF GotKey, Export, WidgetInv, TypeOK, KeyTypes, MadeTypes
  <2>3. ViewTypes'
    BY <1>s, <1>6 DEF GotKey, Export, WidgetInv, TypeOK, ViewTypes
  <2>4. TaskTypes'
    BY <1>s, <1>6 DEF GotKey, Export, WidgetInv, TypeOK, TaskTypes, Labels
  <2>5. MadeTypes'
    <3>k. UNCHANGED sessions /\ key' = made[t][2]
      BY <1>6 DEF GotKey
    <3>1. UNCHANGED sessions /\ key' \in Keys \cup {0} /\ token \in 0..sessions
      BY <1>s, <3>k, MadeParts DEF WidgetInv, TypeOK, KeyTypes
    <3>2. CASE Fails(t)
      BY <1>s, <3>1, <3>2, FailsKeeps DEF MadeTypes
    <3>z. 0 \in 0..sessions
      BY <1>s DEF WidgetInv, TypeOK, ServerTypes
    <3>3. CASE made' = [made EXCEPT ![t] = <<0, 0>>]
      BY <1>s, <3>k, <3>z, <3>3, MadeSet
    <3>4. CASE made' = [made EXCEPT ![t] = <<token, key'>>]
      BY <1>s, <3>1, <3>4, MadeSet
    <3>q. QED
      BY <1>6, <3>2, <3>3, <3>4 DEF GotKey, Export
  <2>6. SharedSession'
    BY <1>s, <1>6 DEF GotKey, Export, WidgetInv, TypeOK, TaskTypes, SharedSession
  <2>q. QED
    BY <2>1, <2>2, <2>3, <2>4, <2>5, <2>6 DEF WidgetInv, TypeOK
<1>7. ASSUME NEW t \in Tasks, GenerateKey(t) PROVE WidgetInv'
  <2>1. ServerTypes'
    BY <1>s, <1>7 DEF GenerateKey, WidgetInv, TypeOK, ServerTypes
  <2>2. KeyTypes'
    BY <1>s, <1>7 DEF GenerateKey, WidgetInv, TypeOK, KeyTypes
  <2>3. ViewTypes'
    BY <1>s, <1>7 DEF GenerateKey, WidgetInv, TypeOK, ViewTypes
  <2>4. TaskTypes'
    BY <1>s, <1>7 DEF GenerateKey, WidgetInv, TypeOK, TaskTypes, Labels
  <2>5. MadeTypes'
    BY <1>s, <1>7 DEF GenerateKey, WidgetInv, TypeOK, MadeTypes
  <2>6. SharedSession'
    BY <1>s, <1>7 DEF GenerateKey, WidgetInv, TypeOK, SharedSession
  <2>q. QED
    BY <2>1, <2>2, <2>3, <2>4, <2>5, <2>6 DEF WidgetInv, TypeOK
<1>8. ASSUME NEW t \in Tasks, KeyPut(t) PROVE WidgetInv'
  <2>1. ServerTypes'
    BY <1>s, <1>8 DEF KeyPut, WidgetInv, TypeOK, ServerTypes
  <2>2. KeyTypes'
    BY <1>s, <1>8, FailsKeeps DEF KeyPut, Export, WidgetInv, TypeOK, KeyTypes
  <2>3. ViewTypes'
    BY <1>s, <1>8, FailsKeeps DEF KeyPut, Export, WidgetInv, TypeOK, ViewTypes
  <2>4. TaskTypes'
    BY <1>s, <1>8, FailsKeeps DEF KeyPut, Export, WidgetInv, TypeOK, TaskTypes, Labels
  <2>5. MadeTypes'
    <3>1. UNCHANGED sessions /\ key \in Keys \cup {0} /\ token \in 0..sessions
      BY <1>s, <1>8 DEF KeyPut, WidgetInv, TypeOK, KeyTypes
    <3>2. CASE Fails(t)
      BY <1>s, <3>1, <3>2, FailsKeeps DEF MadeTypes
    <3>3. CASE made' = [made EXCEPT ![t] = <<token, key>>]
      BY <1>s, <3>1, <3>3, MadeSet
    <3>q. QED
      BY <1>8, <3>2, <3>3 DEF KeyPut, Export
  <2>6. SharedSession'
    BY <1>s, <1>8, FailsKeeps
       DEF KeyPut, Export, WidgetInv, TypeOK, TaskTypes, SharedSession
  <2>q. QED
    BY <2>1, <2>2, <2>3, <2>4, <2>5, <2>6 DEF WidgetInv, TypeOK
<1>9. ASSUME NEW t \in Tasks, PostKey(t) PROVE WidgetInv'
  <2>1. ServerTypes'
    <3>1. made[t][2] \in Keys \cup {0}
      BY <1>s, MadeParts
    <3>2. published' \in [Sessions -> Keys \cup {0}]
      BY <1>s, <1>9, <3>1 DEF PostKey, WidgetInv, TypeOK, ServerTypes
    <3>q. QED
      BY <1>s, <1>9, <3>2 DEF PostKey, WidgetInv, TypeOK, ServerTypes
  <2>2. KeyTypes'
    BY <1>s, <1>9, FailsKeeps DEF PostKey, Unauthorized, WidgetInv, TypeOK, KeyTypes
  <2>3. ViewTypes'
    BY <1>s, <1>9, FailsKeeps DEF PostKey, Unauthorized, WidgetInv, TypeOK, ViewTypes
  <2>4. TaskTypes'
    BY <1>s, <1>9, FailsKeeps
       DEF PostKey, Unauthorized, Ended, WidgetInv, TypeOK, TaskTypes, Labels
  <2>5. MadeTypes'
    <3>1. UNCHANGED sessions /\ token \in 0..sessions /\ 0 \in 0..sessions
      BY <1>s, <1>9 DEF PostKey, WidgetInv, TypeOK, KeyTypes, ServerTypes
    <3>2. CASE Fails(t)
      BY <1>s, <3>1, <3>2, FailsKeeps DEF MadeTypes
    <3>3. CASE made' = [made EXCEPT ![t] = <<token, 0>>]
      BY <1>s, <3>1, <3>3, MadeSet
    <3>4. CASE made' = [made EXCEPT ![t] = <<0, 0>>]
      BY <1>s, <3>1, <3>4, MadeSet
    <3>q. QED
      BY <1>9, <3>2, <3>3, <3>4 DEF PostKey, Unauthorized, Ended
  <2>6. SharedSession'
    BY <1>s, <1>9, FailsKeeps
       DEF PostKey, Unauthorized, WidgetInv, TypeOK, TaskTypes, SharedSession
  <2>q. QED
    BY <2>1, <2>2, <2>3, <2>4, <2>5, <2>6 DEF WidgetInv, TypeOK
<1>10. ASSUME NEW t \in Tasks, KeyPosted(t) PROVE WidgetInv'
  <2>1. ServerTypes'
    BY <1>s, <1>10 DEF KeyPosted, WidgetInv, TypeOK, ServerTypes
  <2>2. KeyTypes'
    BY <1>s, <1>10 DEF KeyPosted, WidgetInv, TypeOK, KeyTypes, MadeTypes
  <2>3. ViewTypes'
    BY <1>s, <1>10 DEF KeyPosted, WidgetInv, TypeOK, ViewTypes
  <2>4. TaskTypes'
    BY <1>s, <1>10, ContinueTypes DEF KeyPosted
  <2>5. MadeTypes'
    BY <1>s, <1>10 DEF KeyPosted, WidgetInv, TypeOK, ServerTypes, MadeTypes
  <2>6. SharedSession'
    BY <1>s, <1>10 DEF KeyPosted, Continue, WidgetInv, TypeOK, SharedSession
  <2>q. QED
    BY <2>1, <2>2, <2>3, <2>4, <2>5, <2>6 DEF WidgetInv, TypeOK
<1>11. ASSUME NEW t \in Tasks, TaskFails(t) PROVE WidgetInv'
  <2>1. ServerTypes'
    BY <1>s, <1>11 DEF TaskFails, WidgetInv, TypeOK, ServerTypes
  <2>2. KeyTypes'
    BY <1>s, <1>11, FailsKeeps DEF TaskFails, WidgetInv, TypeOK, KeyTypes
  <2>3. ViewTypes'
    BY <1>s, <1>11, FailsKeeps DEF TaskFails, WidgetInv, TypeOK, ViewTypes
  <2>4. TaskTypes'
    BY <1>s, <1>11, FailsKeeps DEF TaskFails, WidgetInv, TypeOK, TaskTypes
  <2>5. MadeTypes'
    BY <1>s, <1>11, FailsKeeps DEF TaskFails, WidgetInv, TypeOK, MadeTypes
  <2>6. SharedSession'
    BY <1>s, <1>11, FailsKeeps DEF TaskFails, WidgetInv, TypeOK, SharedSession
  <2>q. QED
    BY <2>1, <2>2, <2>3, <2>4, <2>5, <2>6 DEF WidgetInv, TypeOK
<1>12. ASSUME NEW t \in Tasks, AppendStarts(t) PROVE WidgetInv'
  <2>1. ServerTypes'
    <3>1. overtaken' \subseteq Ids
      BY <1>s, <1>12 DEF AppendStarts, LeftBehind, WidgetInv, TypeOK, ServerTypes
    <3>q. QED
      BY <1>s, <1>12, <3>1
         DEF AppendStarts, AppendRest, AppendOne, WidgetInv, TypeOK, ServerTypes
  <2>2. KeyTypes'
    BY <1>s, <1>12, FailsKeeps
       DEF AppendStarts, AppendRest, AppendOne, WidgetInv, TypeOK, KeyTypes
  <2>3. ViewTypes'
    <3>1. cache' \in [Sessions -> SUBSET Ids]
      BY <1>s, <1>12
         DEF AppendStarts, AppendRest, AppendOne, WidgetInv, TypeOK, ViewTypes, TaskTypes
    <3>2. /\ UNCHANGED <<lastID, closed, userVars>>
          /\ shown' \in SUBSET shown /\ notices' \in SUBSET {"failure", "restart"}
      BY <1>s, <1>12, FailsKeeps
         DEF AppendStarts, AppendRest, AppendOne, WidgetInv, TypeOK, ViewTypes
    <3>q. QED
      BY <1>s, <3>1, <3>2 DEF WidgetInv, TypeOK, ViewTypes
  <2>4. TaskTypes'
    BY <1>s, <1>12, FailsKeeps
       DEF AppendStarts, AppendRest, AppendOne, WidgetInv, TypeOK, TaskTypes
  <2>5. MadeTypes'
    BY <1>s, <1>12, FailsKeeps
       DEF AppendStarts, AppendRest, AppendOne, WidgetInv, TypeOK, MadeTypes
  <2>6. SharedSession'
    BY <1>s, <1>12, FailsKeeps
       DEF AppendStarts, AppendRest, AppendOne, WidgetInv, TypeOK, SharedSession
  <2>q. QED
    BY <2>1, <2>2, <2>3, <2>4, <2>5, <2>6 DEF WidgetInv, TypeOK
<1>13. ASSUME NEW t \in Tasks, AppendEnds(t) PROVE WidgetInv'
  <2>1. ServerTypes'
    BY <1>s, <1>13 DEF AppendEnds, WidgetInv, TypeOK, ServerTypes
  <2>2. KeyTypes'
    BY <1>s, <1>13 DEF AppendEnds, WidgetInv, TypeOK, KeyTypes
  <2>3. ViewTypes'
    BY <1>s, <1>13 DEF AppendEnds, WidgetInv, TypeOK, ViewTypes, TaskTypes
  <2>4. TaskTypes'
    BY <1>s, <1>13 DEF AppendEnds, WidgetInv, TypeOK, TaskTypes
  <2>5. MadeTypes'
    BY <1>s, <1>13 DEF AppendEnds, WidgetInv, TypeOK, MadeTypes
  <2>6. SharedSession'
    BY <1>s, <1>13 DEF AppendEnds, WidgetInv, TypeOK, SharedSession
  <2>q. QED
    BY <2>1, <2>2, <2>3, <2>4, <2>5, <2>6 DEF WidgetInv, TypeOK
<1>a. CASE AskMessages
  <2>1. ServerTypes'
    BY <1>s, <1>a DEF AskMessages, WidgetInv, TypeOK, ServerTypes
  <2>2. KeyTypes'
    BY <1>s, <1>a DEF AskMessages, WidgetInv, TypeOK, KeyTypes
  <2>3. ViewTypes'
    BY <1>s, <1>a DEF AskMessages, WidgetInv, TypeOK, ViewTypes
  <2>4. TaskTypes'
    <3>1. pc' \in [Tasks -> Labels]
      BY <1>s, <1>a DEF AskMessages, WidgetInv, TypeOK, TaskTypes, Labels
    <3>2. after' \in Ids \cup {0}
      BY <1>s, <1>a DEF AskMessages, WidgetInv, TypeOK, ViewTypes
    <3>q. QED
      BY <1>s, <1>a, <3>1, <3>2 DEF AskMessages, WidgetInv, TypeOK, TaskTypes
  <2>5. MadeTypes'
    <3>1. /\ "sync" \in Tasks /\ token \in 0..sessions /\ UNCHANGED sessions
          /\ made' = [made EXCEPT !["sync"] = <<token, 0>>]
      BY <1>s, <1>a DEF AskMessages, WidgetInv, TypeOK, KeyTypes, Tasks
    <3>q. QED
      BY <1>s, <3>1, MadeSet
  <2>6. SharedSession'
    BY <1>s, <1>a DEF AskMessages, WidgetInv, TypeOK, TaskTypes, SharedSession
  <2>q. QED
    BY <2>1, <2>2, <2>3, <2>4, <2>5, <2>6 DEF WidgetInv, TypeOK
<1>14. CASE FetchMessages
  <2>1. ServerTypes'
    BY <1>s, <1>14 DEF FetchMessages, WidgetInv, TypeOK, ServerTypes
  <2>2. KeyTypes'
    <3>1. /\ token' \in {0, token} /\ recipient' \in {0, recipient} /\ key' \in {0, key}
          /\ UNCHANGED <<sessions, stored>>
      BY <1>14 DEF FetchMessages, Unauthorized
    <3>q. QED
      BY <1>s, <3>1, BoundAssumption DEF WidgetInv, TypeOK, KeyTypes, ServerTypes
  <2>3. ViewTypes'
    BY <1>s, <1>14 DEF FetchMessages, Unauthorized, WidgetInv, TypeOK, ViewTypes
  <2>4. TaskTypes'
    <3>1. /\ pc' \in [Tasks -> Labels]
          /\ after' \in Ids \cup {0} /\ answer' \in BOOLEAN
      BY <1>s, <1>14
         DEF FetchMessages, Unauthorized, Ended, WidgetInv, TypeOK, TaskTypes, Labels
    <3>o. opening' \in [Tasks -> Ids \cup {0}]
      BY <1>s, <1>14 DEF FetchMessages, Unauthorized, Ended, WidgetInv, TypeOK, TaskTypes
    <3>2. batch' \in [Tasks -> SUBSET Ids]
      <4>1. CASE batch' = [batch EXCEPT !["sync"] = {}]
        BY <1>s, <4>1 DEF WidgetInv, TypeOK, TaskTypes
      <4>2. CASE batch' = [batch EXCEPT !["sync"] =
                               {i \in Ids : thread[i] = made["sync"][1] /\ i > after}]
        BY <1>s, <4>2 DEF WidgetInv, TypeOK, TaskTypes
      <4>q. QED
        BY <1>14, <4>1, <4>2 DEF FetchMessages, Unauthorized, Ended
    <3>q. QED
      BY <3>1, <3>o, <3>2 DEF TaskTypes
  <2>5. MadeTypes'
    <3>1. UNCHANGED sessions /\ 0 \in 0..sessions /\ "sync" \in Tasks
      BY <1>s, <1>14 DEF FetchMessages, WidgetInv, TypeOK, ServerTypes, Tasks
    <3>3. CASE made' = [made EXCEPT !["sync"] = <<0, 0>>]
      BY <1>s, <3>1, <3>3, MadeSet
    <3>q. QED
      BY <1>14, <3>3 DEF FetchMessages, Unauthorized, Ended
  <2>6. SharedSession'
    BY <1>s, <1>14
       DEF FetchMessages, Unauthorized, WidgetInv, TypeOK, TaskTypes, SharedSession
  <2>q. QED
    BY <2>1, <2>2, <2>3, <2>4, <2>5, <2>6 DEF WidgetInv, TypeOK
<1>15. CASE SyncEnds
  <2>1. ServerTypes'
    BY <1>s, <1>15 DEF SyncEnds, WidgetInv, TypeOK, ServerTypes
  <2>2. KeyTypes'
    BY <1>s, <1>15 DEF SyncEnds, WidgetInv, TypeOK, KeyTypes
  <2>3. ViewTypes'
    BY <1>s, <1>15 DEF SyncEnds, WidgetInv, TypeOK, ViewTypes, TaskTypes
  <2>4. TaskTypes'
    BY <1>s, <1>15 DEF SyncEnds, Ended, WidgetInv, TypeOK, TaskTypes, Labels
  <2>5. MadeTypes'
    BY <1>s, <1>15 DEF SyncEnds, Ended, Tasks, WidgetInv, TypeOK, ServerTypes, MadeTypes
  <2>6. SharedSession'
    BY <1>s, <1>15 DEF SyncEnds, Ended, WidgetInv, TypeOK, SharedSession
  <2>q. QED
    BY <2>1, <2>2, <2>3, <2>4, <2>5, <2>6 DEF WidgetInv, TypeOK
<1>16. CASE SendCheck
  <2>1. ServerTypes'
    BY <1>s, <1>16 DEF SendCheck, WidgetInv, TypeOK, ServerTypes
  <2>2. KeyTypes'
    BY <1>s, <1>16, FailsKeeps DEF SendCheck, Tasks, WidgetInv, TypeOK, KeyTypes
  <2>3. ViewTypes'
    BY <1>s, <1>16, FailsKeeps DEF SendCheck, Tasks, WidgetInv, TypeOK, ViewTypes
  <2>4. TaskTypes'
    BY <1>s, <1>16, FailsKeeps DEF SendCheck, Tasks, WidgetInv, TypeOK, TaskTypes, Labels
  <2>5. MadeTypes'
    BY <1>s, <1>16, FailsKeeps DEF SendCheck, Tasks, WidgetInv, TypeOK, KeyTypes, MadeTypes
  <2>6. SharedSession'
    BY <1>s, <1>16, FailsKeeps
       DEF SendCheck, Tasks, WidgetInv, TypeOK, TaskTypes, SharedSession
  <2>q. QED
    BY <2>1, <2>2, <2>3, <2>4, <2>5, <2>6 DEF WidgetInv, TypeOK
<1>17. CASE SendInsert
  <2>1. ServerTypes'
    <3>1. made["submit"][1] \in 0..sessions
      BY <1>s, MadeParts DEF Tasks
    <3>2. thread' \in [Ids -> 0..sessions]
      BY <1>s, <1>17, <3>1 DEF SendInsert, WidgetInv, TypeOK, ServerTypes
    <3>q. QED
      BY <1>s, <1>17, <3>2 DEF SendInsert, WidgetInv, TypeOK, ServerTypes
  <2>2. KeyTypes'
    BY <1>s, <1>17 DEF SendInsert, WidgetInv, TypeOK, KeyTypes
  <2>3. ViewTypes'
    BY <1>s, <1>17 DEF SendInsert, WidgetInv, TypeOK, ViewTypes
  <2>4. TaskTypes'
    BY <1>s, <1>17 DEF SendInsert, Tasks, WidgetInv, TypeOK, TaskTypes, Labels
  <2>5. MadeTypes'
    BY <1>s, <1>17 DEF SendInsert, Tasks, WidgetInv, TypeOK, ServerTypes, MadeTypes
  <2>6. SharedSession'
    BY <1>s, <1>17 DEF SendInsert, WidgetInv, TypeOK, SharedSession
  <2>q. QED
    BY <2>1, <2>2, <2>3, <2>4, <2>5, <2>6 DEF WidgetInv, TypeOK
<1>18. CASE SubmitEnds
  <2>1. ServerTypes'
    BY <1>s, <1>18 DEF SubmitEnds, WidgetInv, TypeOK, ServerTypes
  <2>2. KeyTypes'
    BY <1>s, <1>18 DEF SubmitEnds, WidgetInv, TypeOK, KeyTypes
  <2>3. ViewTypes'
    BY <1>s, <1>18 DEF SubmitEnds, WidgetInv, TypeOK, ViewTypes
  <2>4. TaskTypes'
    BY <1>s, <1>18 DEF SubmitEnds, Ended, WidgetInv, TypeOK, TaskTypes, Labels
  <2>5. MadeTypes'
    BY <1>s, <1>18 DEF SubmitEnds, Ended, Tasks, WidgetInv, TypeOK, ServerTypes, MadeTypes
  <2>6. SharedSession'
    BY <1>s, <1>18 DEF SubmitEnds, Ended, WidgetInv, TypeOK, SharedSession
  <2>q. QED
    BY <2>1, <2>2, <2>3, <2>4, <2>5, <2>6 DEF WidgetInv, TypeOK
<1>19. ASSUME NEW s \in Sessions, NEW i \in Ids, AgentReply(s, i) PROVE WidgetInv'
  <2>1. ServerTypes'
    BY <1>s, <1>19 DEF AgentReply, WidgetInv, TypeOK, ServerTypes
  <2>2. KeyTypes'
    BY <1>s, <1>19 DEF AgentReply, WidgetInv, TypeOK, KeyTypes
  <2>3. ViewTypes'
    BY <1>s, <1>19 DEF AgentReply, WidgetInv, TypeOK, ViewTypes
  <2>4. TaskTypes'
    BY <1>s, <1>19 DEF AgentReply, WidgetInv, TypeOK, TaskTypes
  <2>5. MadeTypes'
    BY <1>s, <1>19 DEF AgentReply, WidgetInv, TypeOK, MadeTypes
  <2>6. SharedSession'
    BY <1>s, <1>19 DEF AgentReply, WidgetInv, TypeOK, SharedSession
  <2>q. QED
    BY <2>1, <2>2, <2>3, <2>4, <2>5, <2>6 DEF WidgetInv, TypeOK
<1>20. ASSUME NEW s \in Sessions, SetStatus(s) PROVE WidgetInv'
  <2>1. ServerTypes'
    BY <1>s, <1>20 DEF SetStatus, WidgetInv, TypeOK, ServerTypes
  <2>2. KeyTypes'
    BY <1>s, <1>20 DEF SetStatus, WidgetInv, TypeOK, KeyTypes
  <2>3. ViewTypes'
    BY <1>s, <1>20 DEF SetStatus, WidgetInv, TypeOK, ViewTypes
  <2>4. TaskTypes'
    BY <1>s, <1>20 DEF SetStatus, WidgetInv, TypeOK, TaskTypes
  <2>5. MadeTypes'
    BY <1>s, <1>20 DEF SetStatus, WidgetInv, TypeOK, MadeTypes
  <2>6. SharedSession'
    BY <1>s, <1>20 DEF SetStatus, WidgetInv, TypeOK, SharedSession
  <2>q. QED
    BY <2>1, <2>2, <2>3, <2>4, <2>5, <2>6 DEF WidgetInv, TypeOK
<1>21. CASE TogglePanel
  <2>1. ServerTypes'
    BY <1>s, <1>21 DEF TogglePanel, WidgetInv, TypeOK, ServerTypes
  <2>2. KeyTypes'
    BY <1>s, <1>21 DEF TogglePanel, WidgetInv, TypeOK, KeyTypes
  <2>3. ViewTypes'
    BY <1>s, <1>21 DEF TogglePanel, WidgetInv, TypeOK, ViewTypes
  <2>4. TaskTypes'
    BY <1>s, <1>21 DEF TogglePanel, WidgetInv, TypeOK, TaskTypes
  <2>5. MadeTypes'
    BY <1>s, <1>21 DEF TogglePanel, WidgetInv, TypeOK, MadeTypes
  <2>6. SharedSession'
    BY <1>s, <1>21 DEF TogglePanel, WidgetInv, TypeOK, SharedSession
  <2>q. QED
    BY <2>1, <2>2, <2>3, <2>4, <2>5, <2>6 DEF WidgetInv, TypeOK
<1>22. CASE HidePage
  <2>1. ServerTypes'
    BY <1>s, <1>22 DEF HidePage, WidgetInv, TypeOK, ServerTypes
  <2>2. KeyTypes'
    BY <1>s, <1>22 DEF HidePage, WidgetInv, TypeOK, KeyTypes
  <2>3. ViewTypes'
    BY <1>s, <1>22 DEF HidePage, WidgetInv, TypeOK, ViewTypes
  <2>4. TaskTypes'
    BY <1>s, <1>22 DEF HidePage, WidgetInv, TypeOK, TaskTypes
  <2>5. MadeTypes'
    BY <1>s, <1>22 DEF HidePage, WidgetInv, TypeOK, MadeTypes
  <2>6. SharedSession'
    BY <1>s, <1>22 DEF HidePage, WidgetInv, TypeOK, SharedSession
  <2>q. QED
    BY <2>1, <2>2, <2>3, <2>4, <2>5, <2>6 DEF WidgetInv, TypeOK
<1>23. CASE ShowPage
  <2>1. ServerTypes'
    BY <1>s, <1>23 DEF ShowPage, WidgetInv, TypeOK, ServerTypes
  <2>2. KeyTypes'
    BY <1>s, <1>23 DEF ShowPage, WidgetInv, TypeOK, KeyTypes
  <2>3. ViewTypes'
    BY <1>s, <1>23 DEF ShowPage, WidgetInv, TypeOK, ViewTypes
  <2>4. TaskTypes'
    BY <1>s, <1>23 DEF ShowPage, WidgetInv, TypeOK, TaskTypes
  <2>5. MadeTypes'
    BY <1>s, <1>23 DEF ShowPage, WidgetInv, TypeOK, MadeTypes
  <2>6. SharedSession'
    BY <1>s, <1>23 DEF ShowPage, WidgetInv, TypeOK, SharedSession
  <2>q. QED
    BY <2>1, <2>2, <2>3, <2>4, <2>5, <2>6 DEF WidgetInv, TypeOK
<1>24. CASE Restart
  <2>1. ServerTypes'
    BY <1>s, <1>24 DEF Restart, WidgetInv, TypeOK, ServerTypes
  <2>2. KeyTypes'
    BY <1>s, <1>24 DEF Restart, WidgetInv, TypeOK, ServerTypes, KeyTypes
  <2>3. ViewTypes'
    BY <1>s, <1>24 DEF Restart, WidgetInv, TypeOK, ViewTypes
  <2>4. TaskTypes'
    BY <1>s, <1>24 DEF Restart, WidgetInv, TypeOK, TaskTypes
  <2>5. MadeTypes'
    BY <1>s, <1>24 DEF Restart, WidgetInv, TypeOK, MadeTypes
  <2>6. SharedSession'
    BY <1>s, <1>24 DEF Restart, WidgetInv, TypeOK, SharedSession
  <2>q. QED
    BY <2>1, <2>2, <2>3, <2>4, <2>5, <2>6 DEF WidgetInv, TypeOK
<1>25. CASE Reload
  <2>1. ServerTypes'
    BY <1>s, <1>25 DEF Reload, WidgetInv, TypeOK, ServerTypes
  <2>2. KeyTypes'
    BY <1>s, <1>25 DEF Reload, WidgetInv, TypeOK, ServerTypes, KeyTypes
  <2>3. ViewTypes'
    BY <1>s, <1>25 DEF Reload, WidgetInv, TypeOK, ViewTypes
  <2>4. TaskTypes'
    BY <1>s, <1>25 DEF Reload, WidgetInv, TypeOK, TaskTypes, Labels
  <2>5. MadeTypes'
    BY <1>s, <1>25 DEF Reload, WidgetInv, TypeOK, ServerTypes, MadeTypes
  <2>6. SharedSession'
    BY <1>s, <1>25 DEF Reload, WidgetInv, TypeOK, SharedSession
  <2>q. QED
    BY <2>1, <2>2, <2>3, <2>4, <2>5, <2>6 DEF WidgetInv, TypeOK
<1>26. CASE UNCHANGED vars
  <2>1. ServerTypes'
    BY <1>s, <1>26 DEF vars, WidgetInv, TypeOK, ServerTypes
  <2>2. KeyTypes'
    BY <1>s, <1>26 DEF vars, WidgetInv, TypeOK, KeyTypes
  <2>3. ViewTypes'
    BY <1>s, <1>26 DEF vars, WidgetInv, TypeOK, ViewTypes
  <2>4. TaskTypes'
    BY <1>s, <1>26 DEF vars, WidgetInv, TypeOK, TaskTypes
  <2>5. MadeTypes'
    BY <1>s, <1>26 DEF vars, WidgetInv, TypeOK, MadeTypes
  <2>6. SharedSession'
    BY <1>s, <1>26 DEF vars, WidgetInv, TypeOK, SharedSession
  <2>q. QED
    BY <2>1, <2>2, <2>3, <2>4, <2>5, <2>6 DEF WidgetInv, TypeOK
<1>q. QED
  BY <1>1, <1>2, <1>3, <1>4, <1>5, <1>6, <1>7, <1>8, <1>9, <1>10, <1>11, <1>12, <1>13,
     <1>a, <1>14, <1>15, <1>16, <1>17, <1>18, <1>19, <1>20, <1>21, <1>22, <1>23, <1>24, <1>25, <1>26
     DEF Next, SessionNext, MessageNext, AgentNext, VisitorNext

\* Whatever is under way, nothing decrypted comes back on display while the page is
\* hidden.
LEMMA HiddenStep ==
    ASSUME WidgetInv, HiddenShowsNothing, [Next]_vars PROVE HiddenShowsNothing'
<1>s. SUFFICES ASSUME WidgetInv, HiddenShowsNothing
               PROVE  [Next]_vars => HiddenShowsNothing'
  OBVIOUS
<1>f. \A t \in Tasks : Fails(t) => shown' \in SUBSET shown
  BY <1>s, FailsKeeps
<1>1. ASSUME SessionNext PROVE HiddenShowsNothing'
  <2>1. CASE StartSync \/ StartSubmit \/ CreateSession \/ CreateFails
    BY <1>s, <2>1 DEF HiddenShowsNothing, StartSync, StartSubmit, Starts, CreateSession,
                      CreateFails, NoticeOf
  <2>2. ASSUME NEW t \in Tasks, ReadKey(t) \/ GotKey(t) \/ GenerateKey(t) \/ KeyPut(t)
        PROVE HiddenShowsNothing'
    BY <1>s, <1>f, <2>2 DEF HiddenShowsNothing, ReadKey, GotKey, GenerateKey, KeyPut, Export
  <2>3. ASSUME NEW t \in Tasks, PostKey(t) \/ KeyPosted(t) \/ TaskFails(t)
        PROVE HiddenShowsNothing'
    BY <1>s, <1>f, <2>3 DEF HiddenShowsNothing, PostKey, Unauthorized, KeyPosted, TaskFails
  <2>q. QED
    BY <1>1, <2>1, <2>2, <2>3 DEF SessionNext
<1>2. ASSUME MessageNext PROVE HiddenShowsNothing'
  <2>1. ASSUME NEW t \in Tasks, AppendStarts(t) \/ AppendEnds(t)
        PROVE HiddenShowsNothing'
    BY <1>s, <1>f, <2>1 DEF HiddenShowsNothing, AppendStarts, AppendRest, AppendOne,
                            AppendEnds, Watching
  <2>2. CASE AskMessages \/ FetchMessages \/ SyncEnds \/ SendCheck \/ SendInsert \/ SubmitEnds
    BY <1>s, <1>f, <2>2 DEF HiddenShowsNothing, AskMessages, FetchMessages, Unauthorized, SyncEnds,
                            SendCheck, SendInsert, SubmitEnds, Tasks
  <2>q. QED
    BY <1>2, <2>1, <2>2 DEF MessageNext
<1>3. CASE AgentNext \/ VisitorNext \/ UNCHANGED vars
  BY <1>s, <1>3 DEF HiddenShowsNothing, AgentNext, AgentReply, SetStatus, VisitorNext,
                    TogglePanel, HidePage, ShowPage, Restart, Reload, vars
<1>q. QED
  BY <1>1, <1>2, <1>3 DEF Next

\* Only a created session becomes the token of the widget, and only while there is none.
LEMMA KeptStep ==
    ASSUME WidgetInv, [Next]_vars PROVE token # 0 => token' \in {0, token}
<1>s. SUFFICES ASSUME WidgetInv PROVE [Next]_vars => (token # 0 => token' \in {0, token})
  OBVIOUS
<1>1. CASE SessionNext
  BY <1>s, <1>1 DEF SessionNext, StartSync, StartSubmit, Starts, CreateSession, CreateFails,
       ReadKey, GotKey, GenerateKey, KeyPut, Export, PostKey, Unauthorized, KeyPosted,
       TaskFails, Fails, WidgetInv, SharedSession
<1>2. CASE MessageNext
  BY <1>s, <1>2 DEF MessageNext, AppendStarts, AppendRest, AppendOne, AppendEnds,
       AskMessages, FetchMessages, Unauthorized, SyncEnds, SendCheck, SendInsert, SubmitEnds, Fails
<1>3. CASE AgentNext \/ VisitorNext \/ UNCHANGED vars
  BY <1>s, <1>3 DEF AgentNext, AgentReply, SetStatus, VisitorNext, TogglePanel, HidePage,
       ShowPage, Restart, Reload, vars
<1>q. QED
  BY <1>1, <1>2, <1>3 DEF Next

\* The invariant holds of every behaviour.
LEMMA WidgetInvariant == Spec => [](WidgetInv /\ HiddenShowsNothing)
<1>1. WidgetInv /\ HiddenShowsNothing /\ [Next]_vars => (WidgetInv /\ HiddenShowsNothing)'
  BY WidgetStep, HiddenStep
<1>q. QED
  BY InitWidget, <1>1, PTL DEF Spec

\* Every variable keeps its type: the sessions, keys and messages that sync and submit
\* still hold after an await are ones the server knows or knew.
THEOREM WidgetTypes == Spec => []TypeOK
  BY WidgetInvariant, PTL DEF WidgetInv

\* No function awaits a new session while the widget has one (ensureSession).
THEOREM SessionsAreShared == Spec => []SharedSession
  BY WidgetInvariant, PTL DEF WidgetInv

\* Nothing decrypted is on display in the background (append, visibilitychange).
THEOREM NothingShownHidden == Spec => []HiddenShowsNothing
  BY WidgetInvariant, PTL

\* The widget never replaces a session in use (ensureSession, sync, restart).
THEOREM SessionsAreKept == Spec => SessionIsKept
<1>1. WidgetInv /\ [Next]_vars => [token # 0 => token' \in {0, token}]_vars
  BY KeptStep
<1>q. QED
  BY WidgetInvariant, <1>1, PTL DEF Spec, SessionIsKept

==============================================================================
