------------------------- MODULE MessageStoreProofs -------------------------
(***************************************************************************)
(* Proofs about the message tables, for any number of members, messages,   *)
(* attachments, recalls and clears.                                        *)
(***************************************************************************)
EXTENDS MessageStore, TLAPS

\* The labels a handler goes through, as TypeOK lists them.
Label == {"idle", "clean", "cleaned", "ready", "notify", "checked", "attachment",
          "unlink", "written", "done", "failed", "lost"}

\* The tables and the histories, without the attachments.
QueueTypes ==
    /\ messages \in SUBSET Msgs /\ pending \in SUBSET Msgs
    /\ recipients \in SUBSET (Msgs \X Users) /\ deletions \in SUBSET (Msgs \X Users)
    /\ expired \in SUBSET Msgs
    /\ pc \in [Handler -> Label]
    /\ members \in SUBSET Users
    /\ addressed \in [Msgs -> SUBSET Users]
    /\ known \in [Users -> SUBSET Msgs]
    /\ committed \in SUBSET Msgs /\ wiped \in SUBSET Msgs
    /\ settled \in SUBSET (Msgs \X Users)

\* Only committed messages are in a table, given to a device, acknowledged, or
\* expired, or recalled, and a send that can still commit has not done so yet.  Nobody is
\* addressed in a message of their own, and everybody else who is a member is, once the
\* send has read the members: accounts only go.
CommittedFirst ==
    /\ messages \cup wiped \cup expired \subseteq committed
    /\ \A u \in Users : known[u] \subseteq committed
    /\ \A x \in settled : x[1] \in committed
    /\ \A m \in Msgs :
        /\ pc[Send(m)] \in {"idle", "clean", "cleaned", "ready"} => m \notin committed
        /\ pc[Send(m)] = "notify" => m \in committed
        /\ Author[m] \notin addressed[m]
        /\ pc[Send(m)] \in {"clean", "cleaned", "ready"} =>
               Others(Author[m]) \subseteq addressed[m]
    /\ \A r \in Recalls : pc[Recall(r)] = "checked" => Target[r] \in committed

QueueInv == QueueTypes /\ CommittedFirst /\ HistoryIsKept /\ QueueIsOwed

------------------------------------------------------------------------------
\* Handlers of different operations, or of different arguments, are different.
LEMMA Handlers ==
    /\ \A m \in Msgs : Send(m) \in Handler
    /\ \A u \in Fetchers : Fetch(u) \in Handler
    /\ \A r \in Recalls : Recall(r) \in Handler
    /\ \A k \in Clears : Clear(k) \in Handler
    /\ \A a \in Attachments : Upload(a) \in Handler /\ Remove(a) \in Handler
    /\ \A m \in Msgs, n \in Msgs : Send(m) = Send(n) => m = n
    /\ \A r \in Recalls, q \in Recalls : Recall(r) = Recall(q) => r = q
    /\ \A r \in Recalls, k \in Clears : Recall(r) # Clear(k)
    /\ \A m \in Msgs : /\ \A u \in Fetchers : Send(m) # Fetch(u)
                       /\ \A r \in Recalls : Send(m) # Recall(r)
                       /\ \A k \in Clears : Send(m) # Clear(k)
                       /\ \A a \in Attachments : Send(m) # Upload(a) /\ Send(m) # Remove(a)
  BY DEF Handler, Send, Fetch, Recall, Clear, Upload, Remove

\* Every step keeps the types of the tables.
LEMMA QueueTypesStep == QueueTypes /\ [Next]_vars => QueueTypes'
<1>s. SUFFICES ASSUME QueueTypes PROVE [Next]_vars => QueueTypes'
  OBVIOUS
<1>1. ASSUME NEW m \in Msgs, SendCheck(m)
      PROVE  QueueTypes'
  BY <1>s, Handlers, <1>1 DEF SendCheck, Goto, Others, QueueTypes, Label, queueVars, fileVars, clearVars,
        memberVars, historyVars
<1>2. ASSUME NEW m \in Msgs, SendCommit(m)
      PROVE  QueueTypes'
  <2>1. /\ recipients' = recipients \cup ({m} \X addressed[m])
        /\ addressed[m] \subseteq Users
    BY <1>s, <1>2 DEF SendCommit, QueueTypes
  <2>2. recipients' \in SUBSET (Msgs \X Users)
    BY <1>s, <2>1 DEF QueueTypes
  <2>3. pending' \in SUBSET Msgs /\ messages' \in SUBSET Msgs /\ committed' \in SUBSET Msgs
    BY <1>s, <1>2 DEF SendCommit, QueueTypes
  <2>4. pc' \in [Handler -> Label]
    BY <1>s, <1>2, Handlers DEF SendCommit, Goto, QueueTypes, Label
  <2>5. UNCHANGED <<deletions, expired, members, addressed, known, wiped, settled>>
    BY <1>2 DEF SendCommit, memberVars
  <2>. QED
    BY <1>s, <2>2, <2>3, <2>4, <2>5 DEF QueueTypes
<1>3. ASSUME NEW m \in Msgs, SendRollback(m)
      PROVE  QueueTypes'
  BY <1>s, Handlers, <1>3 DEF SendRollback, Goto, QueueTypes, Label, queueVars, fileVars, clearVars,
        memberVars, historyVars
<1>4. ASSUME NEW m \in Msgs, SendNotify(m)
      PROVE  QueueTypes'
  BY <1>s, Handlers, <1>4 DEF SendNotify, Goto, QueueTypes, Label, queueVars, fileVars, clearVars,
        memberVars, historyVars
<1>5. ASSUME NEW m \in Msgs, Expire(m)
      PROVE  QueueTypes'
  BY <1>s, Handlers, <1>5 DEF Expire, Goto, QueueTypes, Label, queueVars, fileVars, clearVars,
        memberVars, historyVars
<1>6. ASSUME NEW h \in Handler, CleanRecipients(h)
      PROVE  QueueTypes'
  BY <1>s, Handlers, <1>6 DEF CleanRecipients, Goto, QueueTypes, Label, queueVars, fileVars, clearVars,
        memberVars, historyVars
<1>7. ASSUME NEW h \in Handler, CleanPending(h)
      PROVE  QueueTypes'
  BY <1>s, Handlers, <1>7 DEF CleanPending, Goto, QueueTypes, Label, queueVars, fileVars, clearVars,
        memberVars, historyVars
<1>8. ASSUME NEW u \in Fetchers, FetchStart(u)
      PROVE  QueueTypes'
  BY <1>s, Handlers, <1>8 DEF FetchStart, Goto, QueueTypes, Label, queueVars, fileVars, clearVars,
        memberVars, historyVars
<1>9. ASSUME NEW u \in Fetchers, FetchRead(u)
      PROVE  QueueTypes'
  BY <1>s, Handlers, <1>9 DEF FetchRead, Goto, QueueTypes, Label, queueVars, fileVars, clearVars,
        memberVars, historyVars
<1>10. ASSUME NEW u \in Users, NEW m \in Msgs, Ack(u, m)
      PROVE  QueueTypes'
  <2>1. /\ recipients' = recipients \ {<<m, u>>}
        /\ pending' = pending \/ pending' = pending \ {m}
        /\ settled' = settled \cup {<<m, u>>}
    BY <1>10 DEF Ack
  <2>2. UNCHANGED <<messages, deletions, members, addressed, known, committed, wiped, expired,
                   pc>>
    BY <1>10 DEF Ack, memberVars
  <2>. QED
    BY <1>s, <2>1, <2>2 DEF QueueTypes
<1>11. ASSUME NEW u \in Hiders, NEW m \in Msgs, DeleteForSelf(u, m)
      PROVE  QueueTypes'
  BY <1>s, Handlers, <1>11, BoundAssumption DEF DeleteForSelf, Goto, QueueTypes, Label, queueVars, fileVars, clearVars,
        memberVars, historyVars
<1>12. ASSUME NEW u \in Users, NEW k \in Clears, AckClear(u, event[k])
      PROVE  QueueTypes'
  BY <1>s, Handlers, <1>12 DEF AckClear, Goto, QueueTypes, Label, queueVars, fileVars, clearVars,
        memberVars, historyVars
<1>13. ASSUME NEW r \in Recalls, RecallCommit(r)
      PROVE  QueueTypes'
  BY <1>s, Handlers, <1>13 DEF RecallCommit, Goto, QueueTypes, Label, queueVars, fileVars, clearVars,
        memberVars, historyVars
<1>14. ASSUME NEW r \in Recalls, RecallAttachment(r)
      PROVE  QueueTypes'
  BY <1>s, Handlers, <1>14 DEF RecallAttachment, Goto, QueueTypes, Label, queueVars, fileVars, clearVars,
        memberVars, historyVars
<1>15. ASSUME NEW r \in Recalls, RecallUnlink(r)
      PROVE  QueueTypes'
  BY <1>s, Handlers, <1>15 DEF RecallUnlink, Goto, QueueTypes, Label, queueVars, fileVars, clearVars,
        memberVars, historyVars
<1>16. ASSUME NEW k \in Clears, ClearCommit(k)
      PROVE  QueueTypes'
  BY <1>s, Handlers, <1>16 DEF ClearCommit, Goto, QueueTypes, Label, queueVars, fileVars, clearVars,
        memberVars, historyVars
<1>17. ASSUME NEW k \in Clears, ClearNotify(k)
      PROVE  QueueTypes'
  BY <1>s, Handlers, <1>17 DEF ClearNotify, Goto, QueueTypes, Label, queueVars, fileVars, clearVars,
        memberVars, historyVars
<1>18. ASSUME NEW k \in Clears, NEW a \in Attachments, ClearUnlink(k, a)
      PROVE  QueueTypes'
  BY <1>s, Handlers, <1>18 DEF ClearUnlink, Goto, QueueTypes, Label, queueVars, fileVars, clearVars,
        memberVars, historyVars
<1>19. ASSUME NEW a \in Attachments, UploadWrite(a)
      PROVE  QueueTypes'
  BY <1>s, Handlers, <1>19 DEF UploadWrite, Goto, QueueTypes, Label, queueVars, fileVars, clearVars,
        memberVars, historyVars
<1>20. ASSUME NEW a \in Attachments, UploadInsert(a)
      PROVE  QueueTypes'
  BY <1>s, Handlers, <1>20 DEF UploadInsert, Goto, QueueTypes, Label, queueVars, fileVars, clearVars,
        memberVars, historyVars
<1>21. ASSUME NEW a \in Attachments, UploadFails(a)
      PROVE  QueueTypes'
  BY <1>s, Handlers, <1>21 DEF UploadFails, Goto, QueueTypes, Label, queueVars, fileVars, clearVars,
        memberVars, historyVars
<1>22. ASSUME NEW a \in Attachments, RemoveRow(a)
      PROVE  QueueTypes'
  BY <1>s, Handlers, <1>22 DEF RemoveRow, Goto, QueueTypes, Label, queueVars, fileVars, clearVars,
        memberVars, historyVars
<1>23. ASSUME NEW a \in Attachments, RemoveFile(a)
      PROVE  QueueTypes'
  BY <1>s, Handlers, <1>23 DEF RemoveFile, Goto, QueueTypes, Label, queueVars, fileVars, clearVars,
        memberVars, historyVars
<1>24. CASE Crash
  BY <1>s, Handlers, <1>24 DEF Crash, Goto, QueueTypes, Label, queueVars, fileVars, clearVars,
        memberVars, historyVars
<1>25. CASE UNCHANGED vars
  BY <1>s, <1>25 DEF vars, queueVars, fileVars, clearVars,
        memberVars, historyVars, QueueTypes
<1>26. ASSUME NEW r \in Recalls, RecallCheck(r)
      PROVE  QueueTypes'
  BY <1>s, Handlers, <1>26 DEF RecallCheck, Goto, QueueTypes, Label, queueVars, fileVars, clearVars,
        memberVars, historyVars
<1>27. ASSUME NEW k \in Clears, ClearCheck(k)
      PROVE  QueueTypes'
  BY <1>s, Handlers, <1>27 DEF ClearCheck, Goto, QueueTypes, Label, queueVars, fileVars, clearVars,
        memberVars, historyVars
<1>28. ASSUME NEW u \in Users, DeleteUser(u)
      PROVE  QueueTypes'
  BY <1>s, Handlers, <1>28 DEF DeleteUser, Goto, QueueTypes, Label, queueVars, fileVars, clearVars,
        memberVars, historyVars
<1>. QED
  BY <1>1, <1>2, <1>3, <1>4, <1>5, <1>6, <1>7, <1>8, <1>9, <1>10, <1>11, <1>12,
     <1>13, <1>14, <1>15, <1>16, <1>17, <1>18, <1>19, <1>20, <1>21, <1>22, <1>23, <1>24,
     <1>25, <1>26, <1>27, <1>28 DEF Next

\* Every step keeps CommittedFirst.
LEMMA CommittedStep == QueueTypes /\ CommittedFirst /\ HistoryIsKept /\ [Next]_vars => CommittedFirst'
<1>s. SUFFICES ASSUME QueueTypes, CommittedFirst, HistoryIsKept
               PROVE  [Next]_vars => CommittedFirst'
  OBVIOUS
<1>1. ASSUME NEW m \in Msgs, SendCheck(m)
      PROVE  CommittedFirst'
  BY <1>s, Handlers, <1>1 DEF SendCheck, Goto, Others, QueueTypes, CommittedFirst, HistoryIsKept, queueVars, fileVars, clearVars,
        memberVars, historyVars
<1>2. ASSUME NEW m \in Msgs, SendCommit(m)
      PROVE  CommittedFirst'
  BY <1>s, Handlers, <1>2 DEF SendCommit, Goto, Others, QueueTypes, CommittedFirst, HistoryIsKept, queueVars, fileVars, clearVars,
        memberVars, historyVars
<1>3. ASSUME NEW m \in Msgs, SendRollback(m)
      PROVE  CommittedFirst'
  BY <1>s, Handlers, <1>3 DEF SendRollback, Goto, Others, QueueTypes, CommittedFirst, HistoryIsKept, queueVars, fileVars, clearVars,
        memberVars, historyVars
<1>4. ASSUME NEW m \in Msgs, SendNotify(m)
      PROVE  CommittedFirst'
  BY <1>s, Handlers, <1>4 DEF SendNotify, Goto, Others, QueueTypes, CommittedFirst, HistoryIsKept, queueVars, fileVars, clearVars,
        memberVars, historyVars
<1>5. ASSUME NEW m \in Msgs, Expire(m)
      PROVE  CommittedFirst'
  BY <1>s, Handlers, <1>5 DEF Expire, Goto, Others, QueueTypes, CommittedFirst, HistoryIsKept, queueVars, fileVars, clearVars,
        memberVars, historyVars
<1>6. ASSUME NEW h \in Handler, CleanRecipients(h)
      PROVE  CommittedFirst'
  BY <1>s, Handlers, <1>6 DEF CleanRecipients, Goto, Others, QueueTypes, CommittedFirst, HistoryIsKept, queueVars, fileVars, clearVars,
        memberVars, historyVars
<1>7. ASSUME NEW h \in Handler, CleanPending(h)
      PROVE  CommittedFirst'
  BY <1>s, Handlers, <1>7 DEF CleanPending, Goto, Others, QueueTypes, CommittedFirst, HistoryIsKept, queueVars, fileVars, clearVars,
        memberVars, historyVars
<1>8. ASSUME NEW u \in Fetchers, FetchStart(u)
      PROVE  CommittedFirst'
  BY <1>s, Handlers, <1>8 DEF FetchStart, Goto, Others, QueueTypes, CommittedFirst, HistoryIsKept, queueVars, fileVars, clearVars,
        memberVars, historyVars
<1>9. ASSUME NEW u \in Fetchers, FetchRead(u)
      PROVE  CommittedFirst'
  BY <1>s, Handlers, <1>9 DEF FetchRead, Goto, Others, QueueTypes, CommittedFirst, HistoryIsKept, queueVars, fileVars, clearVars,
        memberVars, historyVars
<1>10. ASSUME NEW u \in Users, NEW m \in Msgs, Ack(u, m)
      PROVE  CommittedFirst'
  BY <1>s, Handlers, <1>10 DEF Ack, Goto, Others, QueueTypes, CommittedFirst, HistoryIsKept, queueVars, fileVars, clearVars,
        memberVars, historyVars
<1>11. ASSUME NEW u \in Hiders, NEW m \in Msgs, DeleteForSelf(u, m)
      PROVE  CommittedFirst'
  BY <1>s, Handlers, <1>11, BoundAssumption DEF DeleteForSelf, Goto, Others, QueueTypes, CommittedFirst, HistoryIsKept, queueVars, fileVars, clearVars,
        memberVars, historyVars
<1>12. ASSUME NEW u \in Users, NEW k \in Clears, AckClear(u, event[k])
      PROVE  CommittedFirst'
  BY <1>s, Handlers, <1>12 DEF AckClear, Goto, Others, QueueTypes, CommittedFirst, HistoryIsKept, queueVars, fileVars, clearVars,
        memberVars, historyVars
<1>13. ASSUME NEW r \in Recalls, RecallCommit(r)
      PROVE  CommittedFirst'
  BY <1>s, Handlers, <1>13, RecallAssumption DEF RecallCommit, Goto, Others, QueueTypes, CommittedFirst, HistoryIsKept, queueVars, fileVars, clearVars,
        memberVars, historyVars
<1>14. ASSUME NEW r \in Recalls, RecallAttachment(r)
      PROVE  CommittedFirst'
  BY <1>s, Handlers, <1>14 DEF RecallAttachment, Goto, Others, QueueTypes, CommittedFirst, HistoryIsKept, queueVars, fileVars, clearVars,
        memberVars, historyVars
<1>15. ASSUME NEW r \in Recalls, RecallUnlink(r)
      PROVE  CommittedFirst'
  BY <1>s, Handlers, <1>15 DEF RecallUnlink, Goto, Others, QueueTypes, CommittedFirst, HistoryIsKept, queueVars, fileVars, clearVars,
        memberVars, historyVars
<1>16. ASSUME NEW k \in Clears, ClearCommit(k)
      PROVE  CommittedFirst'
  BY <1>s, Handlers, <1>16 DEF ClearCommit, Goto, Others, QueueTypes, CommittedFirst, HistoryIsKept, queueVars, fileVars, clearVars,
        memberVars, historyVars
<1>17. ASSUME NEW k \in Clears, ClearNotify(k)
      PROVE  CommittedFirst'
  BY <1>s, Handlers, <1>17 DEF ClearNotify, Goto, Others, QueueTypes, CommittedFirst, HistoryIsKept, queueVars, fileVars, clearVars,
        memberVars, historyVars
<1>18. ASSUME NEW k \in Clears, NEW a \in Attachments, ClearUnlink(k, a)
      PROVE  CommittedFirst'
  BY <1>s, Handlers, <1>18 DEF ClearUnlink, Goto, Others, QueueTypes, CommittedFirst, HistoryIsKept, queueVars, fileVars, clearVars,
        memberVars, historyVars
<1>19. ASSUME NEW a \in Attachments, UploadWrite(a)
      PROVE  CommittedFirst'
  BY <1>s, Handlers, <1>19 DEF UploadWrite, Goto, Others, QueueTypes, CommittedFirst, HistoryIsKept, queueVars, fileVars, clearVars,
        memberVars, historyVars
<1>20. ASSUME NEW a \in Attachments, UploadInsert(a)
      PROVE  CommittedFirst'
  BY <1>s, Handlers, <1>20 DEF UploadInsert, Goto, Others, QueueTypes, CommittedFirst, HistoryIsKept, queueVars, fileVars, clearVars,
        memberVars, historyVars
<1>21. ASSUME NEW a \in Attachments, UploadFails(a)
      PROVE  CommittedFirst'
  BY <1>s, Handlers, <1>21 DEF UploadFails, Goto, Others, QueueTypes, CommittedFirst, HistoryIsKept, queueVars, fileVars, clearVars,
        memberVars, historyVars
<1>22. ASSUME NEW a \in Attachments, RemoveRow(a)
      PROVE  CommittedFirst'
  BY <1>s, Handlers, <1>22 DEF RemoveRow, Goto, Others, QueueTypes, CommittedFirst, HistoryIsKept, queueVars, fileVars, clearVars,
        memberVars, historyVars
<1>23. ASSUME NEW a \in Attachments, RemoveFile(a)
      PROVE  CommittedFirst'
  BY <1>s, Handlers, <1>23 DEF RemoveFile, Goto, Others, QueueTypes, CommittedFirst, HistoryIsKept, queueVars, fileVars, clearVars,
        memberVars, historyVars
<1>24. CASE Crash
  <2>1. UNCHANGED <<messages, wiped, expired, committed, members, addressed, known, settled>>
    BY <1>24 DEF Crash, queueVars, memberVars, historyVars
  <2>2. ASSUME NEW m \in Msgs
        PROVE  pc'[Send(m)] = pc[Send(m)] \/ pc'[Send(m)] = "lost"
    BY <1>24, Handlers DEF Crash, Send
  <2>3. ASSUME NEW r \in Recalls
        PROVE  pc'[Recall(r)] = "checked" => pc[Recall(r)] = "checked"
    BY <1>24, Handlers DEF Crash
  <2>. QED
    BY <1>s, <2>1, <2>2, <2>3 DEF CommittedFirst, Others
<1>25. CASE UNCHANGED vars
  BY <1>s, <1>25 DEF vars, queueVars, fileVars, clearVars,
        memberVars, historyVars, QueueTypes, CommittedFirst, HistoryIsKept, Others
<1>26. ASSUME NEW r \in Recalls, RecallCheck(r)
      PROVE  CommittedFirst'
  BY <1>s, Handlers, <1>26 DEF RecallCheck, Goto, Others, QueueTypes, CommittedFirst, HistoryIsKept, queueVars, fileVars, clearVars,
        memberVars, historyVars
<1>27. ASSUME NEW k \in Clears, ClearCheck(k)
      PROVE  CommittedFirst'
  BY <1>s, Handlers, <1>27 DEF ClearCheck, Goto, Others, QueueTypes, CommittedFirst, HistoryIsKept, queueVars, fileVars, clearVars,
        memberVars, historyVars
<1>28. ASSUME NEW u \in Users, DeleteUser(u)
      PROVE  CommittedFirst'
  BY <1>s, Handlers, <1>28 DEF DeleteUser, Goto, Others, QueueTypes, CommittedFirst, HistoryIsKept, queueVars, fileVars, clearVars,
        memberVars, historyVars
<1>. QED
  BY <1>1, <1>2, <1>3, <1>4, <1>5, <1>6, <1>7, <1>8, <1>9, <1>10, <1>11, <1>12,
     <1>13, <1>14, <1>15, <1>16, <1>17, <1>18, <1>19, <1>20, <1>21, <1>22, <1>23, <1>24,
     <1>25, <1>26, <1>27, <1>28 DEF Next

\* Every step keeps the history and the tables that name its messages in line.
LEMMA HistoryStep == QueueTypes /\ CommittedFirst /\ HistoryIsKept /\ [Next]_vars => HistoryIsKept'
<1>s. SUFFICES ASSUME QueueTypes, CommittedFirst, HistoryIsKept
               PROVE  [Next]_vars => HistoryIsKept'
  OBVIOUS
<1>1. ASSUME NEW m \in Msgs, SendCheck(m)
      PROVE  HistoryIsKept'
  BY <1>s, <1>1 DEF SendCheck, Goto, QueueTypes, CommittedFirst, HistoryIsKept, queueVars, fileVars, clearVars,
        memberVars, historyVars
<1>2. ASSUME NEW m \in Msgs, SendCommit(m)
      PROVE  HistoryIsKept'
  BY <1>s, <1>2 DEF SendCommit, Goto, QueueTypes, CommittedFirst, HistoryIsKept, queueVars, fileVars, clearVars,
        memberVars, historyVars
<1>3. ASSUME NEW m \in Msgs, SendRollback(m)
      PROVE  HistoryIsKept'
  BY <1>s, <1>3 DEF SendRollback, Goto, QueueTypes, CommittedFirst, HistoryIsKept, queueVars, fileVars, clearVars,
        memberVars, historyVars
<1>4. ASSUME NEW m \in Msgs, SendNotify(m)
      PROVE  HistoryIsKept'
  BY <1>s, <1>4 DEF SendNotify, Goto, QueueTypes, CommittedFirst, HistoryIsKept, queueVars, fileVars, clearVars,
        memberVars, historyVars
<1>5. ASSUME NEW m \in Msgs, Expire(m)
      PROVE  HistoryIsKept'
  BY <1>s, <1>5 DEF Expire, Goto, QueueTypes, CommittedFirst, HistoryIsKept, queueVars, fileVars, clearVars,
        memberVars, historyVars
<1>6. ASSUME NEW h \in Handler, CleanRecipients(h)
      PROVE  HistoryIsKept'
  BY <1>s, <1>6 DEF CleanRecipients, Goto, QueueTypes, CommittedFirst, HistoryIsKept, queueVars, fileVars, clearVars,
        memberVars, historyVars
<1>7. ASSUME NEW h \in Handler, CleanPending(h)
      PROVE  HistoryIsKept'
  BY <1>s, <1>7 DEF CleanPending, Goto, QueueTypes, CommittedFirst, HistoryIsKept, queueVars, fileVars, clearVars,
        memberVars, historyVars
<1>8. ASSUME NEW u \in Fetchers, FetchStart(u)
      PROVE  HistoryIsKept'
  BY <1>s, <1>8 DEF FetchStart, Goto, QueueTypes, CommittedFirst, HistoryIsKept, queueVars, fileVars, clearVars,
        memberVars, historyVars
<1>9. ASSUME NEW u \in Fetchers, FetchRead(u)
      PROVE  HistoryIsKept'
  BY <1>s, <1>9 DEF FetchRead, Goto, QueueTypes, CommittedFirst, HistoryIsKept, queueVars, fileVars, clearVars,
        memberVars, historyVars
<1>10. ASSUME NEW u \in Users, NEW m \in Msgs, Ack(u, m)
      PROVE  HistoryIsKept'
  BY <1>s, <1>10 DEF Ack, Goto, QueueTypes, CommittedFirst, HistoryIsKept, queueVars, fileVars, clearVars,
        memberVars, historyVars
<1>11. ASSUME NEW u \in Hiders, NEW m \in Msgs, DeleteForSelf(u, m)
      PROVE  HistoryIsKept'
  BY <1>s, <1>11, BoundAssumption DEF DeleteForSelf, Goto, QueueTypes, CommittedFirst, HistoryIsKept, queueVars, fileVars, clearVars,
        memberVars, historyVars
<1>12. ASSUME NEW u \in Users, NEW k \in Clears, AckClear(u, event[k])
      PROVE  HistoryIsKept'
  BY <1>s, <1>12 DEF AckClear, Goto, QueueTypes, CommittedFirst, HistoryIsKept, queueVars, fileVars, clearVars,
        memberVars, historyVars
<1>13. ASSUME NEW r \in Recalls, RecallCommit(r)
      PROVE  HistoryIsKept'
  BY <1>s, <1>13 DEF RecallCommit, Goto, QueueTypes, CommittedFirst, HistoryIsKept, queueVars, fileVars, clearVars,
        memberVars, historyVars
<1>14. ASSUME NEW r \in Recalls, RecallAttachment(r)
      PROVE  HistoryIsKept'
  BY <1>s, <1>14 DEF RecallAttachment, Goto, QueueTypes, CommittedFirst, HistoryIsKept, queueVars, fileVars, clearVars,
        memberVars, historyVars
<1>15. ASSUME NEW r \in Recalls, RecallUnlink(r)
      PROVE  HistoryIsKept'
  BY <1>s, <1>15 DEF RecallUnlink, Goto, QueueTypes, CommittedFirst, HistoryIsKept, queueVars, fileVars, clearVars,
        memberVars, historyVars
<1>16. ASSUME NEW k \in Clears, ClearCommit(k)
      PROVE  HistoryIsKept'
  BY <1>s, <1>16 DEF ClearCommit, Goto, QueueTypes, CommittedFirst, HistoryIsKept, queueVars, fileVars, clearVars,
        memberVars, historyVars
<1>17. ASSUME NEW k \in Clears, ClearNotify(k)
      PROVE  HistoryIsKept'
  BY <1>s, <1>17 DEF ClearNotify, Goto, QueueTypes, CommittedFirst, HistoryIsKept, queueVars, fileVars, clearVars,
        memberVars, historyVars
<1>18. ASSUME NEW k \in Clears, NEW a \in Attachments, ClearUnlink(k, a)
      PROVE  HistoryIsKept'
  BY <1>s, <1>18 DEF ClearUnlink, Goto, QueueTypes, CommittedFirst, HistoryIsKept, queueVars, fileVars, clearVars,
        memberVars, historyVars
<1>19. ASSUME NEW a \in Attachments, UploadWrite(a)
      PROVE  HistoryIsKept'
  BY <1>s, <1>19 DEF UploadWrite, Goto, QueueTypes, CommittedFirst, HistoryIsKept, queueVars, fileVars, clearVars,
        memberVars, historyVars
<1>20. ASSUME NEW a \in Attachments, UploadInsert(a)
      PROVE  HistoryIsKept'
  BY <1>s, <1>20 DEF UploadInsert, Goto, QueueTypes, CommittedFirst, HistoryIsKept, queueVars, fileVars, clearVars,
        memberVars, historyVars
<1>21. ASSUME NEW a \in Attachments, UploadFails(a)
      PROVE  HistoryIsKept'
  BY <1>s, <1>21 DEF UploadFails, Goto, QueueTypes, CommittedFirst, HistoryIsKept, queueVars, fileVars, clearVars,
        memberVars, historyVars
<1>22. ASSUME NEW a \in Attachments, RemoveRow(a)
      PROVE  HistoryIsKept'
  BY <1>s, <1>22 DEF RemoveRow, Goto, QueueTypes, CommittedFirst, HistoryIsKept, queueVars, fileVars, clearVars,
        memberVars, historyVars
<1>23. ASSUME NEW a \in Attachments, RemoveFile(a)
      PROVE  HistoryIsKept'
  BY <1>s, <1>23 DEF RemoveFile, Goto, QueueTypes, CommittedFirst, HistoryIsKept, queueVars, fileVars, clearVars,
        memberVars, historyVars
<1>24. CASE Crash
  BY <1>s, <1>24 DEF Crash, Goto, QueueTypes, CommittedFirst, HistoryIsKept, queueVars, fileVars, clearVars,
        memberVars, historyVars
<1>25. CASE UNCHANGED vars
  BY <1>s, <1>25 DEF vars, queueVars, fileVars, clearVars,
        memberVars, historyVars, QueueTypes, CommittedFirst, HistoryIsKept
<1>26. ASSUME NEW r \in Recalls, RecallCheck(r)
      PROVE  HistoryIsKept'
  BY <1>s, <1>26 DEF RecallCheck, Goto, QueueTypes, CommittedFirst, HistoryIsKept, queueVars, fileVars, clearVars,
        memberVars, historyVars
<1>27. ASSUME NEW k \in Clears, ClearCheck(k)
      PROVE  HistoryIsKept'
  BY <1>s, <1>27 DEF ClearCheck, Goto, QueueTypes, CommittedFirst, HistoryIsKept, queueVars, fileVars, clearVars,
        memberVars, historyVars
<1>28. ASSUME NEW u \in Users, DeleteUser(u)
      PROVE  HistoryIsKept'
  BY <1>s, <1>28 DEF DeleteUser, Goto, QueueTypes, CommittedFirst, HistoryIsKept, queueVars, fileVars, clearVars,
        memberVars, historyVars
<1>. QED
  BY <1>1, <1>2, <1>3, <1>4, <1>5, <1>6, <1>7, <1>8, <1>9, <1>10, <1>11, <1>12,
     <1>13, <1>14, <1>15, <1>16, <1>17, <1>18, <1>19, <1>20, <1>21, <1>22, <1>23, <1>24,
     <1>25, <1>26, <1>27, <1>28 DEF Next

\* Every step keeps the queue equal to what is owed.
LEMMA QueueStep == QueueInv /\ [Next]_vars => QueueIsOwed'
<1>s. SUFFICES ASSUME QueueTypes, CommittedFirst, HistoryIsKept, QueueIsOwed
               PROVE  [Next]_vars => QueueIsOwed'
  BY DEF QueueInv
<1>1. ASSUME NEW m \in Msgs, SendCheck(m)
      PROVE  QueueIsOwed'
  BY <1>s, <1>1 DEF SendCheck, Goto, QueueTypes, CommittedFirst, HistoryIsKept,
        QueueIsOwed, Owed, queueVars, fileVars, clearVars,
        memberVars, historyVars
<1>2. ASSUME NEW m \in Msgs, SendCommit(m)
      PROVE  QueueIsOwed'
  <2>1. /\ messages' = messages \cup {m}
        /\ recipients' = recipients \cup ({m} \X addressed[m]) /\ addressed[m] \subseteq Users
        /\ pending' = IF addressed[m] = {} THEN pending ELSE pending \cup {m}
        /\ settled' = settled /\ expired' = expired /\ addressed' = addressed
    BY <1>s, <1>2 DEF SendCommit, memberVars, QueueTypes
  <2>2. m \notin committed /\ m \notin messages /\ \A u \in Users : <<m, u>> \notin settled
    BY <1>s, <1>2 DEF SendCommit, CommittedFirst
  <2>3. ASSUME NEW n \in Msgs \ expired, NEW u \in Users
        PROVE  <<n, u>> \in recipients' <=> Owed(n, u)'
    BY <1>s, <2>1, <2>2, <2>3 DEF QueueIsOwed, Owed
  <2>4. ASSUME NEW n \in Msgs \ expired
        PROVE  n \in pending' <=> \E u \in Users : Owed(n, u)'
    <3>1. CASE n = m
      BY <1>s, <2>1, <2>2, <3>1 DEF QueueIsOwed, Owed
    <3>2. CASE n # m
      BY <1>s, <2>1, <2>4, <3>2 DEF QueueIsOwed, Owed
    <3>. QED
      BY <3>1, <3>2
  <2>. QED
    BY <2>1, <2>3, <2>4 DEF QueueIsOwed
<1>3. ASSUME NEW m \in Msgs, SendRollback(m)
      PROVE  QueueIsOwed'
  BY <1>s, <1>3 DEF SendRollback, Goto, QueueTypes, CommittedFirst, HistoryIsKept,
        QueueIsOwed, Owed, queueVars, fileVars, clearVars,
        memberVars, historyVars
<1>4. ASSUME NEW m \in Msgs, SendNotify(m)
      PROVE  QueueIsOwed'
  BY <1>s, <1>4 DEF SendNotify, Goto, QueueTypes, CommittedFirst, HistoryIsKept,
        QueueIsOwed, Owed, queueVars, fileVars, clearVars,
        memberVars, historyVars
<1>5. ASSUME NEW m \in Msgs, Expire(m)
      PROVE  QueueIsOwed'
  BY <1>s, <1>5 DEF Expire, Goto, QueueTypes, CommittedFirst, HistoryIsKept,
        QueueIsOwed, Owed, queueVars, fileVars, clearVars,
        memberVars, historyVars
<1>6. ASSUME NEW h \in Handler, CleanRecipients(h)
      PROVE  QueueIsOwed'
  BY <1>s, <1>6 DEF CleanRecipients, Goto, QueueTypes, CommittedFirst, HistoryIsKept,
        QueueIsOwed, Owed, queueVars, fileVars, clearVars,
        memberVars, historyVars
<1>7. ASSUME NEW h \in Handler, CleanPending(h)
      PROVE  QueueIsOwed'
  BY <1>s, <1>7 DEF CleanPending, Goto, QueueTypes, CommittedFirst, HistoryIsKept,
        QueueIsOwed, Owed, queueVars, fileVars, clearVars,
        memberVars, historyVars
<1>8. ASSUME NEW u \in Fetchers, FetchStart(u)
      PROVE  QueueIsOwed'
  BY <1>s, <1>8 DEF FetchStart, Goto, QueueTypes, CommittedFirst, HistoryIsKept,
        QueueIsOwed, Owed, queueVars, fileVars, clearVars,
        memberVars, historyVars
<1>9. ASSUME NEW u \in Fetchers, FetchRead(u)
      PROVE  QueueIsOwed'
  BY <1>s, <1>9 DEF FetchRead, Goto, QueueTypes, CommittedFirst, HistoryIsKept,
        QueueIsOwed, Owed, queueVars, fileVars, clearVars,
        memberVars, historyVars
<1>10. ASSUME NEW u \in Users, NEW m \in Msgs, Ack(u, m)
      PROVE  QueueIsOwed'
  BY <1>s, <1>10 DEF Ack, Goto, QueueTypes, CommittedFirst, HistoryIsKept,
        QueueIsOwed, Owed, queueVars, fileVars, clearVars,
        memberVars, historyVars
<1>11. ASSUME NEW u \in Hiders, NEW m \in Msgs, DeleteForSelf(u, m)
      PROVE  QueueIsOwed'
  BY <1>s, <1>11 DEF DeleteForSelf, Goto, QueueTypes, CommittedFirst, HistoryIsKept,
        QueueIsOwed, Owed, queueVars, fileVars, clearVars,
        memberVars, historyVars
<1>12. ASSUME NEW u \in Users, NEW k \in Clears, AckClear(u, event[k])
      PROVE  QueueIsOwed'
  BY <1>s, <1>12 DEF AckClear, Goto, QueueTypes, CommittedFirst, HistoryIsKept,
        QueueIsOwed, Owed, queueVars, fileVars, clearVars,
        memberVars, historyVars
<1>13. ASSUME NEW r \in Recalls, RecallCommit(r)
      PROVE  QueueIsOwed'
  BY <1>s, <1>13 DEF RecallCommit, Goto, QueueTypes, CommittedFirst, HistoryIsKept,
        QueueIsOwed, Owed, queueVars, fileVars, clearVars,
        memberVars, historyVars
<1>14. ASSUME NEW r \in Recalls, RecallAttachment(r)
      PROVE  QueueIsOwed'
  BY <1>s, <1>14 DEF RecallAttachment, Goto, QueueTypes, CommittedFirst, HistoryIsKept,
        QueueIsOwed, Owed, queueVars, fileVars, clearVars,
        memberVars, historyVars
<1>15. ASSUME NEW r \in Recalls, RecallUnlink(r)
      PROVE  QueueIsOwed'
  BY <1>s, <1>15 DEF RecallUnlink, Goto, QueueTypes, CommittedFirst, HistoryIsKept,
        QueueIsOwed, Owed, queueVars, fileVars, clearVars,
        memberVars, historyVars
<1>16. ASSUME NEW k \in Clears, ClearCommit(k)
      PROVE  QueueIsOwed'
  BY <1>s, <1>16 DEF ClearCommit, Goto, QueueTypes, CommittedFirst, HistoryIsKept,
        QueueIsOwed, Owed, queueVars, fileVars, clearVars,
        memberVars, historyVars
<1>17. ASSUME NEW k \in Clears, ClearNotify(k)
      PROVE  QueueIsOwed'
  BY <1>s, <1>17 DEF ClearNotify, Goto, QueueTypes, CommittedFirst, HistoryIsKept,
        QueueIsOwed, Owed, queueVars, fileVars, clearVars,
        memberVars, historyVars
<1>18. ASSUME NEW k \in Clears, NEW a \in Attachments, ClearUnlink(k, a)
      PROVE  QueueIsOwed'
  BY <1>s, <1>18 DEF ClearUnlink, Goto, QueueTypes, CommittedFirst, HistoryIsKept,
        QueueIsOwed, Owed, queueVars, fileVars, clearVars,
        memberVars, historyVars
<1>19. ASSUME NEW a \in Attachments, UploadWrite(a)
      PROVE  QueueIsOwed'
  BY <1>s, <1>19 DEF UploadWrite, Goto, QueueTypes, CommittedFirst, HistoryIsKept,
        QueueIsOwed, Owed, queueVars, fileVars, clearVars,
        memberVars, historyVars
<1>20. ASSUME NEW a \in Attachments, UploadInsert(a)
      PROVE  QueueIsOwed'
  BY <1>s, <1>20 DEF UploadInsert, Goto, QueueTypes, CommittedFirst, HistoryIsKept,
        QueueIsOwed, Owed, queueVars, fileVars, clearVars,
        memberVars, historyVars
<1>21. ASSUME NEW a \in Attachments, UploadFails(a)
      PROVE  QueueIsOwed'
  BY <1>s, <1>21 DEF UploadFails, Goto, QueueTypes, CommittedFirst, HistoryIsKept,
        QueueIsOwed, Owed, queueVars, fileVars, clearVars,
        memberVars, historyVars
<1>22. ASSUME NEW a \in Attachments, RemoveRow(a)
      PROVE  QueueIsOwed'
  BY <1>s, <1>22 DEF RemoveRow, Goto, QueueTypes, CommittedFirst, HistoryIsKept,
        QueueIsOwed, Owed, queueVars, fileVars, clearVars,
        memberVars, historyVars
<1>23. ASSUME NEW a \in Attachments, RemoveFile(a)
      PROVE  QueueIsOwed'
  BY <1>s, <1>23 DEF RemoveFile, Goto, QueueTypes, CommittedFirst, HistoryIsKept,
        QueueIsOwed, Owed, queueVars, fileVars, clearVars,
        memberVars, historyVars
<1>24. CASE Crash
  BY <1>s, <1>24 DEF Crash, Goto, QueueTypes, CommittedFirst, HistoryIsKept,
        QueueIsOwed, Owed, queueVars, fileVars, clearVars,
        memberVars, historyVars
<1>25. CASE UNCHANGED vars
  BY <1>s, <1>25 DEF vars, queueVars, fileVars, clearVars,
        memberVars, historyVars, QueueTypes, CommittedFirst, HistoryIsKept,
        QueueIsOwed, Owed
<1>26. ASSUME NEW r \in Recalls, RecallCheck(r)
      PROVE  QueueIsOwed'
  BY <1>s, <1>26 DEF RecallCheck, Goto, QueueTypes, CommittedFirst, HistoryIsKept,
        QueueIsOwed, Owed, queueVars, fileVars, clearVars,
        memberVars, historyVars
<1>27. ASSUME NEW k \in Clears, ClearCheck(k)
      PROVE  QueueIsOwed'
  BY <1>s, <1>27 DEF ClearCheck, Goto, QueueTypes, CommittedFirst, HistoryIsKept,
        QueueIsOwed, Owed, queueVars, fileVars, clearVars,
        memberVars, historyVars
<1>28. ASSUME NEW u \in Users, DeleteUser(u)
      PROVE  QueueIsOwed'
  BY <1>s, <1>28 DEF DeleteUser, Goto, QueueTypes, CommittedFirst, HistoryIsKept,
        QueueIsOwed, Owed, queueVars, fileVars, clearVars,
        memberVars, historyVars
<1>. QED
  BY <1>1, <1>2, <1>3, <1>4, <1>5, <1>6, <1>7, <1>8, <1>9, <1>10, <1>11, <1>12,
     <1>13, <1>14, <1>15, <1>16, <1>17, <1>18, <1>19, <1>20, <1>21, <1>22, <1>23, <1>24,
     <1>25, <1>26, <1>27, <1>28 DEF Next

------------------------------------------------------------------------------
LEMMA InitQueue == Init => QueueInv
  BY Handlers DEF Init, QueueInv, QueueTypes, Label, CommittedFirst, HistoryIsKept, QueueIsOwed, Owed

LEMMA QueueInvStep == QueueInv /\ [Next]_vars => QueueInv'
  BY QueueTypesStep, CommittedStep, HistoryStep, QueueStep DEF QueueInv

\* The inductive invariant of the message tables.
THEOREM QueueInvariant == Spec => []QueueInv
  BY InitQueue, QueueInvStep, PTL DEF Spec

\* Until it expires, a message is queued for exactly the members it is owed to.
THEOREM QueueMatchesDebt == Spec => []QueueIsOwed
<1>1. QueueInv => QueueIsOwed
  BY DEF QueueInv
<1>. QED
  BY <1>1, QueueInvariant, PTL

\* Only recalls, clears and the deletion of the author's account remove history, and they
\* remove it from every table.
THEOREM HistoryOnlyWiped == Spec => []HistoryIsKept
<1>1. QueueInv => HistoryIsKept
  BY DEF QueueInv
<1>. QED
  BY <1>1, QueueInvariant, PTL

------------------------------------------------------------------------------
(* Attachments.                                                            *)

\* The row of an attachment is gone for good: its upload is over.
Gone(a) == rows[a] = None /\ pc[Upload(a)] = "done"

FileTypes ==
    /\ rows \in [Attachments -> Msgs \cup {None, Unbound}]
    /\ files \in SUBSET Attachments
    /\ doomed \in [Clears -> SUBSET Attachments]

\* Whoever still has a file to remove has removed the row before, and no upload can
\* bring it back.
RowsFirst ==
    /\ \A a \in Attachments : /\ rows[a] # None => pc[Upload(a)] = "done"
                              /\ (rows[a] # None \/ pc[Upload(a)] = "written") => a \in files
    /\ \A a \in Attachments : pc[Remove(a)] = "unlink" => Gone(a)
    /\ \A r \in Recalls : pc[Recall(r)] = "unlink" =>
                              AttOf[Target[r]] \in Attachments /\ Gone(AttOf[Target[r]])
    /\ \A k \in Clears : \A a \in doomed[k] : Gone(a)

\* An attachment once sent stays with its message until its row is deleted, and a
\* recall deletes the row of a message that is gone.
BoundOnce ==
    /\ \A m \in committed : AttOf[m] # None =>
           rows[AttOf[m]] \in {m, None} /\ pc[Upload(AttOf[m])] = "done"
    /\ \A r \in Recalls : pc[Recall(r)] = "attachment" =>
           /\ Target[r] \in committed
           /\ Author[Target[r]] = By[r] => Target[r] \notin messages

AttachmentInv == FileTypes /\ RowsFirst /\ BoundOnce /\ MessageKeepsAttachment

\* A step that moves handlers nowhere near a file.
PcQuiet == \A h \in Handler : \/ pc'[h] = pc[h]
                              \/ pc[h] # "done" /\ pc'[h] \notin {"unlink", "attachment", "written"}

LEMMA OneHandlerMoves ==
    ASSUME QueueTypes, NEW h \in Handler, NEW l \in Label \ {"unlink", "attachment", "written"},
           pc[h] # "done", Goto(h, l)
    PROVE  PcQuiet
  BY DEF QueueTypes, Goto, PcQuiet, Label

\* Such a step keeps the invariant when it leaves the files and their rows alone
\* and adds no message.
LEMMA QuietStep ==
    ASSUME AttachmentInv, PcQuiet, committed \subseteq Msgs,
           messages' \subseteq messages, UNCHANGED <<rows, files, doomed, committed>>
    PROVE  AttachmentInv'
<1>h. /\ \A a \in Attachments : Upload(a) \in Handler /\ Remove(a) \in Handler
      /\ \A r \in Recalls : Recall(r) \in Handler
  BY Handlers
<1>1. FileTypes'
  BY DEF AttachmentInv, FileTypes
<1>2. RowsFirst'
  <2>1. \A a \in Attachments : Gone(a) => Gone(a)'
    BY <1>h DEF Gone, PcQuiet
  <2>2. \A a \in Attachments :
          /\ rows'[a] # None => pc'[Upload(a)] = "done"
          /\ (rows'[a] # None \/ pc'[Upload(a)] = "written") => a \in files'
    BY <1>h DEF AttachmentInv, RowsFirst, PcQuiet
  <2>3. \A a \in Attachments : pc'[Remove(a)] = "unlink" => Gone(a)'
    BY <1>h, <2>1 DEF AttachmentInv, RowsFirst, PcQuiet
  <2>4. \A r \in Recalls : pc'[Recall(r)] = "unlink" =>
                              AttOf[Target[r]] \in Attachments /\ Gone(AttOf[Target[r]])'
    BY <1>h, <2>1 DEF AttachmentInv, RowsFirst, PcQuiet
  <2>5. \A k \in Clears : \A a \in doomed'[k] : Gone(a)'
    BY <2>1 DEF AttachmentInv, RowsFirst, FileTypes
  <2>. QED
    BY <2>2, <2>3, <2>4, <2>5 DEF RowsFirst, Gone
<1>3. BoundOnce'
  BY <1>h, SendAssumption DEF AttachmentInv, BoundOnce, PcQuiet
<1>4. MessageKeepsAttachment'
  BY DEF AttachmentInv, MessageKeepsAttachment
<1>. QED
  BY <1>1, <1>2, <1>3, <1>4 DEF AttachmentInv

\* The steps that move no row and add no message.
LEMMA QuietActions ==
    ASSUME QueueTypes, CommittedFirst, AttachmentInv, [Next]_vars
    PROVE  \/ AttachmentInv'
           \/ \E m \in Msgs : SendCommit(m)
           \/ \E r \in Recalls : RecallCommit(r) \/ RecallAttachment(r) \/ RecallUnlink(r)
           \/ \E k \in Clears : ClearCommit(k)
           \/ \E k \in Clears, a \in Attachments : ClearUnlink(k, a)
           \/ \E a \in Attachments : \/ UploadWrite(a) \/ UploadInsert(a) \/ UploadFails(a)
                                     \/ RemoveRow(a) \/ RemoveFile(a)
<1>s. SUFFICES ASSUME QueueTypes, CommittedFirst, AttachmentInv
               PROVE  [Next]_vars =>
                        \/ AttachmentInv'
                        \/ \E m \in Msgs : SendCommit(m)
                        \/ \E r \in Recalls : RecallCommit(r) \/ RecallAttachment(r) \/ RecallUnlink(r)
                        \/ \E k \in Clears : ClearCommit(k)
                        \/ \E k \in Clears, a \in Attachments : ClearUnlink(k, a)
                        \/ \E a \in Attachments : \/ UploadWrite(a) \/ UploadInsert(a) \/ UploadFails(a)
                                                  \/ RemoveRow(a) \/ RemoveFile(a)
  OBVIOUS
<1>f. committed \subseteq Msgs /\ pc \in [Handler -> Label]
  BY <1>s DEF QueueTypes
<1>1. ASSUME NEW m \in Msgs, SendCheck(m) \/ SendRollback(m) \/ SendNotify(m)
      PROVE  AttachmentInv'
  <2>1. \E l \in Label \ {"unlink", "attachment", "written"} : Goto(Send(m), l)
    BY <1>1 DEF SendCheck, SendRollback, SendNotify, Label
  <2>2. pc[Send(m)] # "done"
    BY <1>1 DEF SendCheck, SendRollback, SendNotify
  <2>3. PcQuiet
    BY <1>s, <2>1, <2>2, Handlers, OneHandlerMoves
  <2>4. UNCHANGED <<rows, files, doomed, messages, committed>>
    BY <1>1 DEF SendCheck, SendRollback, SendNotify, queueVars, fileVars, clearVars, historyVars
  <2>. QED
    BY <1>s, <1>f, <2>3, <2>4, QuietStep
<1>2. ASSUME NEW h \in Handler, CleanRecipients(h) \/ CleanPending(h)
      PROVE  AttachmentInv'
  <2>1. \E l \in Label \ {"unlink", "attachment", "written"} : Goto(h, l)
    BY <1>2 DEF CleanRecipients, CleanPending, Label
  <2>2. pc[h] # "done"
    BY <1>2 DEF CleanRecipients, CleanPending
  <2>3. PcQuiet
    BY <1>s, <2>1, <2>2, OneHandlerMoves
  <2>4. UNCHANGED <<rows, files, doomed, messages, committed>>
    BY <1>2 DEF CleanRecipients, CleanPending, fileVars, clearVars, historyVars
  <2>. QED
    BY <1>s, <1>f, <2>3, <2>4, QuietStep
<1>3. ASSUME NEW u \in Fetchers, FetchStart(u) \/ FetchRead(u)
      PROVE  AttachmentInv'
  <2>1. \E l \in Label \ {"unlink", "attachment", "written"} : Goto(Fetch(u), l)
    BY <1>3 DEF FetchStart, FetchRead, Label
  <2>2. pc[Fetch(u)] # "done"
    BY <1>3 DEF FetchStart, FetchRead
  <2>3. PcQuiet
    BY <1>s, <2>1, <2>2, Handlers, OneHandlerMoves
  <2>4. UNCHANGED <<rows, files, doomed, messages, committed>>
    BY <1>3 DEF FetchStart, FetchRead, queueVars, fileVars, clearVars, historyVars
  <2>. QED
    BY <1>s, <1>f, <2>3, <2>4, QuietStep
<1>4. ASSUME UNCHANGED <<pc, rows, files, doomed, messages, committed>>
      PROVE  AttachmentInv'
  <2>1. PcQuiet
    BY <1>4 DEF PcQuiet
  <2>. QED
    BY <1>s, <1>f, <1>4, <2>1, QuietStep
<1>5. ASSUME NEW m \in Msgs, Expire(m)
      PROVE  AttachmentInv'
  BY <1>4, <1>5 DEF Expire, queueVars, fileVars, clearVars, historyVars
<1>6. ASSUME NEW u \in Users, NEW m \in Msgs, Ack(u, m)
      PROVE  AttachmentInv'
  BY <1>4, <1>6 DEF Ack, fileVars, clearVars
<1>7. ASSUME NEW u \in Hiders, NEW m \in Msgs, DeleteForSelf(u, m)
      PROVE  AttachmentInv'
  BY <1>4, <1>7 DEF DeleteForSelf, fileVars, clearVars, historyVars
<1>8. ASSUME NEW u \in Users, NEW k \in Clears, AckClear(u, event[k])
      PROVE  AttachmentInv'
  BY <1>4, <1>8 DEF AckClear, queueVars, fileVars, historyVars
<1>9. ASSUME NEW k \in Clears, ClearNotify(k)
      PROVE  AttachmentInv'
  <2>1. Goto(Clear(k), "done") /\ pc[Clear(k)] # "done"
    BY <1>9 DEF ClearNotify
  <2>2. PcQuiet
    BY <1>s, <2>1, Handlers, OneHandlerMoves DEF Label
  <2>3. UNCHANGED <<rows, files, doomed, messages, committed>>
    BY <1>9 DEF ClearNotify, queueVars, fileVars, clearVars, historyVars
  <2>. QED
    BY <1>s, <1>f, <2>2, <2>3, QuietStep
<1>10. ASSUME Crash
      PROVE  AttachmentInv'
  <2>1. PcQuiet
    BY <1>10, <1>f DEF Crash, PcQuiet
  <2>2. UNCHANGED <<rows, files, doomed, messages, committed>>
    BY <1>10 DEF Crash, queueVars, fileVars, clearVars, historyVars
  <2>. QED
    BY <1>s, <1>f, <2>1, <2>2, QuietStep
<1>11. ASSUME UNCHANGED vars
      PROVE  AttachmentInv'
  BY <1>4, <1>11 DEF vars, queueVars, fileVars, clearVars, historyVars
<1>12. ASSUME NEW r \in Recalls, RecallCheck(r)
      PROVE  AttachmentInv'
  <2>1. Goto(Recall(r), "checked") /\ pc[Recall(r)] # "done"
    BY <1>12 DEF RecallCheck
  <2>2. PcQuiet
    BY <1>s, <2>1, Handlers, OneHandlerMoves DEF Label
  <2>3. UNCHANGED <<rows, files, doomed, messages, committed>>
    BY <1>12 DEF RecallCheck, queueVars, fileVars, clearVars, historyVars
  <2>. QED
    BY <1>s, <1>f, <2>2, <2>3, QuietStep
<1>13. ASSUME NEW k \in Clears, ClearCheck(k)
      PROVE  AttachmentInv'
  <2>1. Goto(Clear(k), "checked") /\ pc[Clear(k)] # "done"
    BY <1>13 DEF ClearCheck
  <2>2. PcQuiet
    BY <1>s, <2>1, Handlers, OneHandlerMoves DEF Label
  <2>3. UNCHANGED <<rows, files, doomed, messages, committed>>
    BY <1>13 DEF ClearCheck, queueVars, fileVars, clearVars, historyVars
  <2>. QED
    BY <1>s, <1>f, <2>2, <2>3, QuietStep
<1>14. ASSUME NEW u \in Users, DeleteUser(u)
      PROVE  AttachmentInv'
  <2>1. messages' \subseteq messages /\ UNCHANGED <<pc, rows, files, doomed, committed>>
    BY <1>14 DEF DeleteUser, fileVars
  <2>2. PcQuiet
    BY <2>1 DEF PcQuiet
  <2>. QED
    BY <1>s, <1>f, <2>1, <2>2, QuietStep
<1>. QED
  BY <1>1, <1>2, <1>3, <1>5, <1>6, <1>7, <1>8, <1>9, <1>10, <1>11, <1>12, <1>13, <1>14
     DEF Next

\* Handlers that touch files are different from one another.
LEMMA FileHandlers ==
    /\ \A a \in Attachments, b \in Attachments :
         /\ Upload(a) = Upload(b) => a = b
         /\ Remove(a) = Remove(b) => a = b
         /\ Upload(a) # Remove(b)
    /\ \A r \in Recalls, q \in Recalls : Recall(r) = Recall(q) => r = q
    /\ \A a \in Attachments, r \in Recalls : Upload(a) # Recall(r) /\ Remove(a) # Recall(r)
    /\ \A k \in Clears :
         /\ \A a \in Attachments : Upload(a) # Clear(k) /\ Remove(a) # Clear(k)
         /\ \A r \in Recalls : Recall(r) # Clear(k)
  BY DEF Send, Recall, Clear, Upload, Remove

\* A send binds an attachment that is there and unsent.
LEMMA SendBinds ==
    ASSUME QueueTypes, CommittedFirst, AttachmentInv, NEW m \in Msgs, SendCommit(m)
    PROVE  AttachmentInv'
<1>s. SUFFICES ASSUME QueueTypes, CommittedFirst, AttachmentInv
               PROVE  SendCommit(m) => AttachmentInv'
  OBVIOUS
<1>1. ASSUME SendCommit(m) PROVE AttachmentInv'
  <2>1. /\ m \notin committed /\ messages \subseteq committed
        /\ AttachmentUnsent(m)
        /\ messages' = messages \cup {m} /\ committed' = committed \cup {m}
        /\ rows' = [a \in Attachments |-> IF a = AttOf[m] THEN m ELSE rows[a]]
        /\ UNCHANGED <<files, doomed>>
    BY <1>s, <1>1 DEF SendCommit, CommittedFirst, clearVars
  <2>2. /\ \A a \in Attachments : /\ pc'[Upload(a)] = pc[Upload(a)]
                                  /\ pc'[Remove(a)] = pc[Remove(a)]
        /\ \A r \in Recalls : pc'[Recall(r)] = pc[Recall(r)]
    BY <1>s, <1>1, Handlers, FileHandlers DEF SendCommit, Goto, QueueTypes
  <2>3. \A a \in Attachments : /\ rows'[a] = IF a = AttOf[m] THEN m ELSE rows[a]
                               /\ rows'[a] = None <=> rows[a] = None
    BY <2>1, MarkAssumption DEF AttachmentUnsent
  <2>4. FileTypes'
    BY <1>s, <2>1 DEF AttachmentInv, FileTypes
  <2>5. RowsFirst'
    BY <1>s, <2>1, <2>2, <2>3 DEF AttachmentInv, RowsFirst, Gone, FileTypes
  <2>6. \A n \in committed : AttOf[n] # None =>
           /\ AttOf[n] \in Attachments
           /\ AttOf[n] # AttOf[m] \/ rows[AttOf[n]] = None
    BY <1>s, <2>1, SendAssumption, MarkAssumption
       DEF AttachmentInv, BoundOnce, AttachmentUnsent, QueueTypes
  <2>7. AttOf[m] # None => AttOf[m] \in Attachments /\ rows[AttOf[m]] = Unbound
    BY <2>1, SendAssumption DEF AttachmentUnsent
  <2>8. BoundOnce'
    <3>1. \A n \in committed : AttOf[n] # None =>
             rows'[AttOf[n]] \in {n, None} /\ pc'[Upload(AttOf[n])] = "done"
      BY <1>s, <2>1, <2>2, <2>3, <2>6, <2>7, MarkAssumption DEF AttachmentInv, BoundOnce
    <3>2. AttOf[m] # None => rows'[AttOf[m]] = m /\ pc'[Upload(AttOf[m])] = "done"
      BY <1>s, <2>2, <2>3, <2>7, MarkAssumption DEF AttachmentInv, RowsFirst
    <3>3. \A r \in Recalls : pc'[Recall(r)] = "attachment" =>
             /\ Target[r] \in committed
             /\ Author[Target[r]] = By[r] => Target[r] \notin messages'
      BY <1>s, <2>1, <2>2 DEF AttachmentInv, BoundOnce
    <3>. QED
      BY <2>1, <3>1, <3>2, <3>3 DEF BoundOnce
  <2>9. MessageKeepsAttachment'
    BY <1>s, <2>1, <2>3, <2>6, <2>7, MarkAssumption
       DEF AttachmentInv, MessageKeepsAttachment
  <2>. QED
    BY <2>4, <2>5, <2>8, <2>9 DEF AttachmentInv
<1>. QED
  BY <1>1

\* A recall removes the message before the row, and the row before the file.
LEMMA RecallUnbinds ==
    ASSUME QueueTypes, CommittedFirst, AttachmentInv, NEW r \in Recalls,
           RecallCommit(r) \/ RecallAttachment(r) \/ RecallUnlink(r)
    PROVE  AttachmentInv'
<1>s. SUFFICES ASSUME QueueTypes, CommittedFirst, AttachmentInv
               PROVE  RecallCommit(r) \/ RecallAttachment(r) \/ RecallUnlink(r) => AttachmentInv'
  OBVIOUS
<1>h. pc \in [Handler -> Label] /\ Recall(r) \in Handler /\ Target[r] \in Msgs
  BY <1>s, Handlers, RecallAssumption DEF QueueTypes
<1>1. ASSUME RecallCommit(r) PROVE AttachmentInv'
  <2>1. /\ Target[r] \in committed
        /\ messages' = messages \ {n \in Msgs : n = Target[r] /\ Author[n] = By[r]}
        /\ pc' = [pc EXCEPT ![Recall(r)] = "attachment"]
        /\ UNCHANGED <<rows, files, doomed, committed>>
    BY <1>s, <1>1 DEF RecallCommit, Goto, CommittedFirst, fileVars, clearVars
  <2>2. \A a \in Attachments : /\ pc'[Upload(a)] = pc[Upload(a)]
                               /\ pc'[Remove(a)] = pc[Remove(a)]
    BY <1>h, <2>1, FileHandlers
  <2>3. \A q \in Recalls : IF q = r THEN pc'[Recall(q)] = "attachment"
                                    ELSE pc'[Recall(q)] = pc[Recall(q)]
    BY <1>h, <2>1, FileHandlers, Handlers
  <2>4. FileTypes'
    BY <1>s, <2>1 DEF AttachmentInv, FileTypes
  <2>5. RowsFirst'
    BY <1>s, <2>1, <2>2, <2>3 DEF AttachmentInv, RowsFirst, Gone, FileTypes
  <2>6. BoundOnce'
    <3>1. \A n \in committed : n \in Msgs /\ (AttOf[n] # None => AttOf[n] \in Attachments)
      BY <1>s, SendAssumption DEF QueueTypes
    <3>2. \A n \in committed : AttOf[n] # None =>
             rows'[AttOf[n]] \in {n, None} /\ pc'[Upload(AttOf[n])] = "done"
      BY <1>s, <2>1, <2>2, <3>1 DEF AttachmentInv, BoundOnce
    <3>3. \A q \in Recalls : pc'[Recall(q)] = "attachment" =>
             /\ Target[q] \in committed
             /\ Author[Target[q]] = By[q] => Target[q] \notin messages'
      BY <1>s, <1>h, <2>1, <2>3 DEF AttachmentInv, BoundOnce
    <3>. QED
      BY <2>1, <3>2, <3>3 DEF BoundOnce
  <2>7. MessageKeepsAttachment'
    BY <1>s, <2>1 DEF AttachmentInv, MessageKeepsAttachment
  <2>. QED
    BY <2>4, <2>5, <2>6, <2>7 DEF AttachmentInv
<1>2. ASSUME RecallAttachment(r) PROVE AttachmentInv'
  <2> DEFINE a == AttOf[Target[r]]
  <2>1. /\ pc[Recall(r)] = "attachment"
        /\ UNCHANGED <<messages, files, doomed, committed>>
    BY <1>2 DEF RecallAttachment, queueVars, clearVars, historyVars
  <2>2. \/ /\ a # None /\ Author[Target[r]] = By[r] /\ rows[a] # None
           /\ rows' = [rows EXCEPT ![a] = None]
           /\ pc' = [pc EXCEPT ![Recall(r)] = "unlink"]
        \/ rows' = rows /\ pc' = [pc EXCEPT ![Recall(r)] = "done"]
    BY <1>2 DEF RecallAttachment, Goto
  <2>3. CASE rows' = rows /\ pc' = [pc EXCEPT ![Recall(r)] = "done"]
    <3>1. /\ \A b \in Attachments : /\ pc'[Upload(b)] = pc[Upload(b)]
                                    /\ pc'[Remove(b)] = pc[Remove(b)]
          /\ \A q \in Recalls : IF q = r THEN pc'[Recall(q)] = "done"
                                         ELSE pc'[Recall(q)] = pc[Recall(q)]
      BY <1>h, <2>3, FileHandlers, Handlers
    <3>2. FileTypes' /\ MessageKeepsAttachment'
      BY <1>s, <2>1, <2>3 DEF AttachmentInv, FileTypes, MessageKeepsAttachment
    <3>3. RowsFirst'
      BY <1>s, <2>1, <2>3, <3>1 DEF AttachmentInv, RowsFirst, Gone, FileTypes
    <3>4. BoundOnce'
      BY <1>s, <2>1, <2>3, <3>1 DEF AttachmentInv, BoundOnce
    <3>. QED
      BY <3>2, <3>3, <3>4 DEF AttachmentInv
  <2>4. CASE /\ a # None /\ Author[Target[r]] = By[r] /\ rows[a] # None
             /\ rows' = [rows EXCEPT ![a] = None]
             /\ pc' = [pc EXCEPT ![Recall(r)] = "unlink"]
    <3>1. /\ \A b \in Attachments : /\ pc'[Upload(b)] = pc[Upload(b)]
                                    /\ pc'[Remove(b)] = pc[Remove(b)]
          /\ \A q \in Recalls : IF q = r THEN pc'[Recall(q)] = "unlink"
                                         ELSE pc'[Recall(q)] = pc[Recall(q)]
      BY <1>h, <2>4, FileHandlers, Handlers
    <3>2. a \in Attachments /\ pc[Upload(a)] = "done"
      BY <1>s, <1>h, <2>4, SendAssumption DEF AttachmentInv, RowsFirst
    <3>3. /\ \A b \in Attachments : rows'[b] = IF b = a THEN None ELSE rows[b]
          /\ rows' \in [Attachments -> Msgs \cup {None, Unbound}]
      BY <1>s, <2>4, <3>2 DEF AttachmentInv, FileTypes
    <3>4. FileTypes'
      BY <1>s, <2>1, <3>3 DEF AttachmentInv, FileTypes
    <3>5. RowsFirst'
      <4>1. \A b \in Attachments : Gone(b) => Gone(b)'
        BY <3>1, <3>3 DEF Gone
      <4>2. Gone(a)'
        BY <3>1, <3>2, <3>3 DEF Gone
      <4>3. \A b \in Attachments :
              /\ rows'[b] # None => pc'[Upload(b)] = "done"
              /\ (rows'[b] # None \/ pc'[Upload(b)] = "written") => b \in files'
        BY <1>s, <2>1, <3>1, <3>3 DEF AttachmentInv, RowsFirst
      <4>4. \A b \in Attachments : pc'[Remove(b)] = "unlink" => Gone(b)'
        BY <1>s, <3>1, <4>1 DEF AttachmentInv, RowsFirst
      <4>5. \A q \in Recalls : pc'[Recall(q)] = "unlink" =>
               AttOf[Target[q]] \in Attachments /\ Gone(AttOf[Target[q]])'
        BY <1>s, <3>1, <3>2, <4>1, <4>2 DEF AttachmentInv, RowsFirst
      <4>6. \A k \in Clears : \A b \in doomed'[k] : Gone(b)'
        BY <1>s, <2>1, <4>1 DEF AttachmentInv, RowsFirst, FileTypes
      <4>. QED
        BY <4>3, <4>4, <4>5, <4>6 DEF RowsFirst, Gone
    <3>6. rows[a] = Target[r] /\ Target[r] \notin messages
      BY <1>s, <2>1, <2>4 DEF AttachmentInv, BoundOnce
    <3>7. \A n \in Msgs : AttOf[n] # None => AttOf[n] \in Attachments
      BY SendAssumption
    <3>8. BoundOnce'
      BY <1>s, <2>1, <3>1, <3>3, <3>7 DEF AttachmentInv, BoundOnce, QueueTypes
    <3>9. MessageKeepsAttachment'
      BY <1>s, <2>1, <3>3, <3>6, <3>7
         DEF AttachmentInv, MessageKeepsAttachment, QueueTypes
    <3>. QED
      BY <3>4, <3>5, <3>8, <3>9 DEF AttachmentInv
  <2>. QED
    BY <2>2, <2>3, <2>4
<1>3. ASSUME RecallUnlink(r) PROVE AttachmentInv'
  <2>1. /\ pc[Recall(r)] = "unlink" /\ pc' = [pc EXCEPT ![Recall(r)] = "done"]
        /\ files' = files \ {AttOf[Target[r]]}
        /\ UNCHANGED <<messages, rows, doomed, committed>>
    BY <1>3 DEF RecallUnlink, Goto, queueVars, clearVars, historyVars
  <2>2. /\ \A b \in Attachments : /\ pc'[Upload(b)] = pc[Upload(b)]
                                  /\ pc'[Remove(b)] = pc[Remove(b)]
        /\ \A q \in Recalls : IF q = r THEN pc'[Recall(q)] = "done"
                                       ELSE pc'[Recall(q)] = pc[Recall(q)]
    BY <1>h, <2>1, FileHandlers, Handlers
  <2>3. rows[AttOf[Target[r]]] = None
    BY <1>s, <2>1 DEF AttachmentInv, RowsFirst, Gone
  <2>4. FileTypes' /\ MessageKeepsAttachment'
    BY <1>s, <2>1 DEF AttachmentInv, FileTypes, MessageKeepsAttachment
  <2>5. RowsFirst'
    BY <1>s, <2>1, <2>2, <2>3 DEF AttachmentInv, RowsFirst, Gone, FileTypes
  <2>6. BoundOnce'
    BY <1>s, <2>1, <2>2 DEF AttachmentInv, BoundOnce
  <2>. QED
    BY <2>4, <2>5, <2>6 DEF AttachmentInv
<1>. QED
  BY <1>1, <1>2, <1>3

\* A clear removes all messages with their rows, then the files of these rows.
LEMMA ClearUnbinds ==
    ASSUME QueueTypes, AttachmentInv, NEW k \in Clears,
           ClearCommit(k) \/ \E a \in Attachments : ClearUnlink(k, a)
    PROVE  AttachmentInv'
<1>s. SUFFICES ASSUME QueueTypes, AttachmentInv
               PROVE  ClearCommit(k) \/ (\E a \in Attachments : ClearUnlink(k, a))
                        => AttachmentInv'
  OBVIOUS
<1>1. ASSUME ClearCommit(k) PROVE AttachmentInv'
  <2>1. /\ messages' = {}
        /\ rows' = [a \in Attachments |-> IF a \in Bound THEN None ELSE rows[a]]
        /\ doomed' = [doomed EXCEPT ![k] = Bound]
        /\ pc' = [pc EXCEPT ![Clear(k)] = "unlink"]
        /\ UNCHANGED <<files, committed>>
    BY <1>1 DEF ClearCommit, Goto
  <2>2. /\ \A a \in Attachments : /\ pc'[Upload(a)] = pc[Upload(a)]
                                  /\ pc'[Remove(a)] = pc[Remove(a)]
        /\ \A r \in Recalls : pc'[Recall(r)] = pc[Recall(r)]
    <3>1. pc \in [Handler -> Label] /\ Clear(k) \in Handler
      BY <1>s, Handlers DEF QueueTypes
    <3>. QED
      BY <2>1, <3>1, Handlers, FileHandlers
  <2>3. FileTypes'
    BY <1>s, <2>1 DEF AttachmentInv, FileTypes, Bound
  <2>4. RowsFirst'
    <3>1. \A a \in Attachments : Gone(a) => Gone(a)'
      BY <2>1, <2>2 DEF Gone
    <3>2. \A a \in Bound : a \in Attachments /\ Gone(a)'
      BY <1>s, <2>1, <2>2 DEF AttachmentInv, RowsFirst, Gone, Bound
    <3>3. \A a \in Attachments :
            /\ rows'[a] # None => pc'[Upload(a)] = "done"
            /\ (rows'[a] # None \/ pc'[Upload(a)] = "written") => a \in files'
      BY <1>s, <2>1, <2>2 DEF AttachmentInv, RowsFirst
    <3>4. \A a \in Attachments : pc'[Remove(a)] = "unlink" => Gone(a)'
      BY <1>s, <2>2, <3>1 DEF AttachmentInv, RowsFirst
    <3>5. \A r \in Recalls : pc'[Recall(r)] = "unlink" =>
             AttOf[Target[r]] \in Attachments /\ Gone(AttOf[Target[r]])'
      BY <1>s, <2>2, <3>1 DEF AttachmentInv, RowsFirst
    <3>6. \A j \in Clears : \A a \in doomed'[j] : Gone(a)'
      BY <1>s, <2>1, <3>1, <3>2 DEF AttachmentInv, RowsFirst, FileTypes
    <3>. QED
      BY <3>3, <3>4, <3>5, <3>6 DEF RowsFirst, Gone
  <2>5. BoundOnce'
    BY <1>s, <2>1, <2>2, SendAssumption DEF AttachmentInv, BoundOnce, QueueTypes
  <2>6. MessageKeepsAttachment'
    BY <2>1 DEF MessageKeepsAttachment
  <2>. QED
    BY <2>3, <2>4, <2>5, <2>6 DEF AttachmentInv
<1>2. ASSUME NEW a \in Attachments, ClearUnlink(k, a) PROVE AttachmentInv'
  <2>1. /\ a \in doomed[k] /\ doomed' = [doomed EXCEPT ![k] = @ \ {a}]
        /\ files' = files \ {a}
        /\ UNCHANGED <<pc, messages, rows, committed>>
    BY <1>2 DEF ClearUnlink, queueVars, historyVars
  <2>2. rows[a] = None
    BY <1>s, <2>1 DEF AttachmentInv, RowsFirst, Gone
  <2>3. FileTypes' /\ MessageKeepsAttachment' /\ BoundOnce'
    BY <1>s, <2>1 DEF AttachmentInv, FileTypes, MessageKeepsAttachment, BoundOnce
  <2>4. RowsFirst'
    BY <1>s, <2>1, <2>2 DEF AttachmentInv, RowsFirst, Gone, FileTypes
  <2>. QED
    BY <2>3, <2>4 DEF AttachmentInv
<1>. QED
  BY <1>1, <1>2

\* An upload inserts the row after the file, and deleteAttachment takes the row of
\* an unsent one before the file.
LEMMA UploadStep ==
    ASSUME QueueTypes, AttachmentInv, NEW a \in Attachments,
           UploadWrite(a) \/ UploadInsert(a) \/ UploadFails(a) \/ RemoveRow(a) \/ RemoveFile(a)
    PROVE  AttachmentInv'
<1>s. SUFFICES ASSUME QueueTypes, AttachmentInv
               PROVE  UploadWrite(a) \/ UploadInsert(a) \/ UploadFails(a) \/ RemoveRow(a)
                        \/ RemoveFile(a) => AttachmentInv'
  OBVIOUS
<1>h. /\ pc \in [Handler -> Label] /\ Upload(a) \in Handler /\ Remove(a) \in Handler
      /\ \A n \in committed : n \in Msgs /\ (AttOf[n] # None => AttOf[n] \in Attachments)
      /\ \A n \in messages : n \in Msgs /\ (AttOf[n] # None => AttOf[n] \in Attachments)
  BY <1>s, Handlers, SendAssumption DEF QueueTypes
<1>1. ASSUME UploadWrite(a) PROVE AttachmentInv'
  <2>1. /\ pc[Upload(a)] = "idle" /\ pc' = [pc EXCEPT ![Upload(a)] = "written"]
        /\ files' = files \cup {a}
        /\ UNCHANGED <<messages, rows, doomed, committed>>
    BY <1>1 DEF UploadWrite, Goto, queueVars, clearVars, historyVars
  <2>2. /\ \A b \in Attachments : /\ pc'[Upload(b)] = (IF b = a THEN "written" ELSE pc[Upload(b)])
                                  /\ pc'[Remove(b)] = (pc[Remove(b)])
        /\ \A q \in Recalls : pc'[Recall(q)] = pc[Recall(q)]
    BY <1>h, <2>1, FileHandlers, Handlers
  <2>4. FileTypes'
    BY <1>s, <2>1 DEF AttachmentInv, FileTypes
  <2>5. MessageKeepsAttachment' /\ BoundOnce'
    BY <1>s, <1>h, <2>1, <2>2, MarkAssumption
       DEF AttachmentInv, MessageKeepsAttachment, BoundOnce, FileTypes
  <2>6. RowsFirst'
    BY <1>s, <2>1, <2>2 DEF AttachmentInv, RowsFirst, Gone, FileTypes
  <2>. QED
    BY <2>4, <2>5, <2>6 DEF AttachmentInv
<1>2. ASSUME UploadInsert(a) PROVE AttachmentInv'
  <2>1. /\ pc[Upload(a)] = "written" /\ pc' = [pc EXCEPT ![Upload(a)] = "done"]
        /\ rows' = [rows EXCEPT ![a] = Unbound]
        /\ UNCHANGED <<messages, files, doomed, committed>>
    BY <1>2 DEF UploadInsert, Goto, queueVars, clearVars, historyVars
  <2>2. /\ \A b \in Attachments : /\ pc'[Upload(b)] = (IF b = a THEN "done" ELSE pc[Upload(b)])
                                  /\ pc'[Remove(b)] = (pc[Remove(b)])
        /\ \A q \in Recalls : pc'[Recall(q)] = pc[Recall(q)]
    BY <1>h, <2>1, FileHandlers, Handlers
  <2>3. rows[a] = None /\ \A n \in committed : AttOf[n] # a
    BY <1>s, <1>h, <2>1, MarkAssumption DEF AttachmentInv, RowsFirst, BoundOnce
  <2>4. FileTypes'
    BY <1>s, <2>1 DEF AttachmentInv, FileTypes
  <2>5. MessageKeepsAttachment' /\ BoundOnce'
    BY <1>s, <1>h, <2>1, <2>2, <2>3, MarkAssumption
       DEF AttachmentInv, MessageKeepsAttachment, BoundOnce, FileTypes
  <2>6. RowsFirst'
    BY <1>s, <2>1, <2>2, <2>3 DEF AttachmentInv, RowsFirst, Gone, FileTypes
  <2>. QED
    BY <2>4, <2>5, <2>6 DEF AttachmentInv
<1>3. ASSUME UploadFails(a) PROVE AttachmentInv'
  <2>1. /\ pc[Upload(a)] = "written" /\ pc' = [pc EXCEPT ![Upload(a)] = "failed"]
        /\ files' = files \ {a}
        /\ UNCHANGED <<messages, rows, doomed, committed>>
    BY <1>3 DEF UploadFails, Goto, queueVars, clearVars, historyVars
  <2>2. /\ \A b \in Attachments : /\ pc'[Upload(b)] = (IF b = a THEN "failed" ELSE pc[Upload(b)])
                                  /\ pc'[Remove(b)] = (pc[Remove(b)])
        /\ \A q \in Recalls : pc'[Recall(q)] = pc[Recall(q)]
    BY <1>h, <2>1, FileHandlers, Handlers
  <2>3. rows[a] = None
    BY <1>s, <2>1 DEF AttachmentInv, RowsFirst
  <2>4. FileTypes'
    BY <1>s, <2>1 DEF AttachmentInv, FileTypes
  <2>5. MessageKeepsAttachment' /\ BoundOnce'
    BY <1>s, <1>h, <2>1, <2>2, <2>3, MarkAssumption
       DEF AttachmentInv, MessageKeepsAttachment, BoundOnce, FileTypes
  <2>6. RowsFirst'
    BY <1>s, <2>1, <2>2, <2>3 DEF AttachmentInv, RowsFirst, Gone, FileTypes
  <2>. QED
    BY <2>4, <2>5, <2>6 DEF AttachmentInv
<1>4. ASSUME RemoveRow(a) PROVE AttachmentInv'
  <2>1. /\ pc[Remove(a)] = "idle" /\ pc[Upload(a)] = "done"
        /\ UNCHANGED <<messages, files, doomed, committed>>
        /\ \/ /\ rows[a] = Unbound /\ rows' = [rows EXCEPT ![a] = None]
              /\ pc' = [pc EXCEPT ![Remove(a)] = "unlink"]
           \/ rows' = rows /\ pc' = [pc EXCEPT ![Remove(a)] = "failed"]
    BY <1>4 DEF RemoveRow, Goto, queueVars, clearVars, historyVars
  <2>2. /\ \A b \in Attachments :
             /\ pc'[Upload(b)] = pc[Upload(b)]
             /\ pc'[Remove(b)] = "unlink" =>
                  \/ pc[Remove(b)] = "unlink"
                  \/ /\ b = a /\ rows[a] = Unbound
                     /\ rows' = [rows EXCEPT ![a] = None]
        /\ \A q \in Recalls : pc'[Recall(q)] = pc[Recall(q)]
    BY <1>h, <2>1, FileHandlers, Handlers
  <2>3. \A b \in Attachments : \/ rows'[b] = rows[b]
                               \/ b = a /\ rows[a] = Unbound /\ rows'[b] = None
    BY <1>s, <2>1 DEF AttachmentInv, FileTypes
  <2>4. FileTypes'
    BY <1>s, <2>1 DEF AttachmentInv, FileTypes
  <2>5. MessageKeepsAttachment' /\ BoundOnce'
    BY <1>s, <1>h, <2>1, <2>2, <2>3, MarkAssumption
       DEF AttachmentInv, MessageKeepsAttachment, BoundOnce
  <2>6. RowsFirst'
    <3>1. \A b \in Attachments : Gone(b) => Gone(b)'
      BY <2>2, <2>3, MarkAssumption DEF Gone
    <3>2. \A b \in Attachments : pc'[Remove(b)] = "unlink" => Gone(b)'
      BY <1>s, <2>1, <2>2, <3>1 DEF AttachmentInv, RowsFirst, FileTypes, Gone
    <3>3. \A b \in Attachments :
            /\ rows'[b] # None => pc'[Upload(b)] = "done"
            /\ (rows'[b] # None \/ pc'[Upload(b)] = "written") => b \in files'
      BY <1>s, <2>1, <2>2, <2>3, MarkAssumption DEF AttachmentInv, RowsFirst
    <3>4. \A q \in Recalls : pc'[Recall(q)] = "unlink" =>
             AttOf[Target[q]] \in Attachments /\ Gone(AttOf[Target[q]])'
      BY <1>s, <2>2, <3>1 DEF AttachmentInv, RowsFirst
    <3>5. \A k \in Clears : \A b \in doomed'[k] : Gone(b)'
      BY <1>s, <2>1, <3>1 DEF AttachmentInv, RowsFirst, FileTypes
    <3>. QED
      BY <3>2, <3>3, <3>4, <3>5 DEF RowsFirst, Gone
  <2>. QED
    BY <2>4, <2>5, <2>6 DEF AttachmentInv
<1>5. ASSUME RemoveFile(a) PROVE AttachmentInv'
  <2>1. /\ pc[Remove(a)] = "unlink" /\ pc' = [pc EXCEPT ![Remove(a)] = "done"]
        /\ files' = files \ {a}
        /\ UNCHANGED <<messages, rows, doomed, committed>>
    BY <1>5 DEF RemoveFile, Goto, queueVars, clearVars, historyVars
  <2>2. /\ \A b \in Attachments : /\ pc'[Upload(b)] = (pc[Upload(b)])
                                  /\ pc'[Remove(b)] = (IF b = a THEN "done" ELSE pc[Remove(b)])
        /\ \A q \in Recalls : pc'[Recall(q)] = pc[Recall(q)]
    BY <1>h, <2>1, FileHandlers, Handlers
  <2>3. rows[a] = None /\ pc[Upload(a)] = "done"
    BY <1>s, <2>1 DEF AttachmentInv, RowsFirst, Gone
  <2>4. FileTypes'
    BY <1>s, <2>1 DEF AttachmentInv, FileTypes
  <2>5. MessageKeepsAttachment' /\ BoundOnce'
    BY <1>s, <1>h, <2>1, <2>2, <2>3, MarkAssumption
       DEF AttachmentInv, MessageKeepsAttachment, BoundOnce, FileTypes
  <2>6. RowsFirst'
    BY <1>s, <2>1, <2>2, <2>3 DEF AttachmentInv, RowsFirst, Gone, FileTypes
  <2>. QED
    BY <2>4, <2>5, <2>6 DEF AttachmentInv
<1>. QED
  BY <1>1, <1>2, <1>3, <1>4, <1>5

LEMMA InitAttachments == Init => AttachmentInv
<1>s. SUFFICES ASSUME Init PROVE AttachmentInv
  OBVIOUS
<1>1. FileTypes
  BY <1>s DEF Init, FileTypes
<1>2. RowsFirst /\ BoundOnce /\ MessageKeepsAttachment
  BY <1>s, Handlers DEF Init, RowsFirst, BoundOnce, MessageKeepsAttachment
<1>. QED
  BY <1>1, <1>2 DEF AttachmentInv

LEMMA AttachmentStep == QueueInv /\ AttachmentInv /\ [Next]_vars => AttachmentInv'
  BY QuietActions, SendBinds, RecallUnbinds, ClearUnbinds, UploadStep DEF QueueInv

\* The inductive invariant of the attachments, on top of the queue's: rows go before
\* files, and a row that was sent belongs to one message.
THEOREM AttachmentInvariant == Spec => []AttachmentInv
  BY InitAttachments, AttachmentStep, QueueInvariant, PTL DEF Spec

\* Whatever crashes, an attachment row has its file.
THEOREM RowsHaveFiles == Spec => []RowHasFile
<1>1. AttachmentInv => RowHasFile
  BY DEF AttachmentInv, RowsFirst, RowHasFile
<1>. QED
  BY <1>1, AttachmentInvariant, PTL

\* A message of the history keeps its attachment, for any number of messages that name
\* the same one, removals, recalls and clears.
THEOREM AttachmentsAreKept == Spec => []MessageKeepsAttachment
<1>1. AttachmentInv => MessageKeepsAttachment
  BY DEF AttachmentInv
<1>. QED
  BY <1>1, AttachmentInvariant, PTL

------------------------------------------------------------------------------
(* Pending clears.                                                         *)

\* What a member has pending is the newest clear of the others, until it is
\* acknowledged (handlers.go:575, :711): an acknowledgement that
\* names an older one must leave it.
NewestIsPending ==
    \A u \in Users : clears[u] # 0 =>
        /\ \E k \in Clears : Actor[k] # u /\ event[k] = clears[u]
        /\ \A k \in Clears : Actor[k] # u => event[k] <= clears[u]

\* No two clears have the same id, and none is pending for who has no account.
ClearInv ==
    /\ clears \in [Users -> Nat] /\ event \in [Clears -> Nat] /\ lastEvent \in Nat
    /\ \A k \in Clears : event[k] <= lastEvent
    /\ \A j, k \in Clears : event[j] = event[k] /\ event[k] # 0 => j = k
    /\ \A u \in Users \ members : clears[u] = 0
    /\ NewestIsPending

\* The events of clears are numbered in the order of their transactions.
LEMMA ClearStep == ASSUME ClearInv, [Next]_vars PROVE ClearInv'
<1>s. SUFFICES ASSUME ClearInv PROVE [Next]_vars => ClearInv'
  OBVIOUS
<1>1. ASSUME NEW k \in Clears, ClearCommit(k) PROVE ClearInv'
  <2>1. /\ lastEvent' = lastEvent + 1 /\ lastEvent \in Nat
        /\ event' = [event EXCEPT ![k] = lastEvent + 1]
        /\ clears' = [u \in Users |-> IF u \in Others(Actor[k]) THEN lastEvent + 1 ELSE clears[u]]
        /\ members' = members
    BY <1>s, <1>1 DEF ClearCommit, ClearInv, memberVars
  <2>2. \A j \in Clears : event'[j] = IF j = k THEN lastEvent + 1 ELSE event[j]
    BY <1>s, <2>1 DEF ClearInv
  <2>3. /\ clears' \in [Users -> Nat] /\ event' \in [Clears -> Nat]
        /\ \A j \in Clears : event'[j] <= lastEvent'
        /\ \A i, j \in Clears : event'[i] = event'[j] /\ event'[j] # 0 => i = j
        /\ \A u \in Users \ members' : clears'[u] = 0
    BY <1>s, <2>1, <2>2 DEF ClearInv, Others
  <2>4. NewestIsPending'
    <3>1. ASSUME NEW u \in Users, u \in Others(Actor[k])
          PROVE  /\ clears'[u] = lastEvent + 1 /\ Actor[k] # u /\ event'[k] = clears'[u]
                 /\ \A j \in Clears : event'[j] <= clears'[u]
      BY <2>1, <2>2, <2>3, <3>1 DEF Others
    <3>2. ASSUME NEW u \in Users, u \notin Others(Actor[k]), clears'[u] # 0
          PROVE  clears'[u] = clears[u] /\ Actor[k] = u
      BY <1>s, <2>1, <3>2 DEF ClearInv, Others
    <3>. QED
      BY <1>s, <2>1, <2>2, <2>3, <3>1, <3>2 DEF ClearInv, NewestIsPending
  <2>. QED
    BY <2>1, <2>3, <2>4 DEF ClearInv
<1>2. ASSUME NEW u \in Users, NEW k \in Clears, AckClear(u, event[k]) PROVE ClearInv'
  <2>1. /\ UNCHANGED <<event, lastEvent, members>>
        /\ clears' \in [Users -> Nat]
        /\ \A v \in Users : clears'[v] \in {0, clears[v]}
    BY <1>s, <1>2 DEF AckClear, ClearInv, memberVars
  <2>. QED
    BY <1>s, <2>1 DEF ClearInv, NewestIsPending
\* With the account of a member its clears go, and the newer ones of others stay.
<1>4. ASSUME NEW u \in Users, DeleteUser(u) PROVE ClearInv'
  <2>1. /\ UNCHANGED <<event, lastEvent>>
        /\ clears' \in [Users -> Nat]
        /\ \A v \in Users : clears'[v] \in {0, clears[v]}
        /\ \A v \in Users \ members' : clears'[v] = 0
    BY <1>s, <1>4 DEF DeleteUser, ClearInv
  <2>. QED
    BY <1>s, <2>1 DEF ClearInv, NewestIsPending
<1>3. CASE UNCHANGED <<clears, event, lastEvent, members>>
  BY <1>s, <1>3 DEF ClearInv, NewestIsPending
<1>. QED
  BY <1>1, <1>2, <1>3, <1>4
     DEF Next, SendCheck, SendCommit, SendRollback, SendNotify, Expire, CleanRecipients,
         CleanPending, FetchStart, FetchRead, Ack, DeleteForSelf, RecallCheck, RecallCommit,
         RecallAttachment, RecallUnlink, ClearCheck, ClearNotify, ClearUnlink, UploadWrite,
         UploadInsert, UploadFails, RemoveRow, RemoveFile, Crash, clearVars, memberVars, vars

\* The inductive invariant of the pending clears.
THEOREM ClearInvariant == Spec => []ClearInv
<1>1. Init => ClearInv
  BY DEF Init, ClearInv, NewestIsPending
<1>. QED
  BY <1>1, ClearStep, PTL DEF Spec

\* A member's pending clear is the newest that others have made.
THEOREM NewestClearIsPending == Spec => []NewestIsPending
<1>1. ClearInv => NewestIsPending
  BY DEF ClearInv
<1>. QED
  BY <1>1, ClearInvariant, PTL

\* The variables keep their types.
THEOREM StoreTypes == Spec => []TypeOK
<1>1. QueueInv /\ AttachmentInv /\ ClearInv => TypeOK
  BY DEF QueueInv, QueueTypes, Label, AttachmentInv, FileTypes, ClearInv, TypeOK
<1>. QED
  BY <1>1, QueueInvariant, AttachmentInvariant, ClearInvariant, PTL

------------------------------------------------------------------------------
(* What the server is to a member who makes no clear.                      *)

\* Every step is one step of the member's server, or none.
LEMMA ServedStep ==
    ASSUME QueueInv, ClearInv, NEW u \in OnlyReceive, u \in members', [Next]_vars
    PROVE  UNCHANGED Server(u)!vars \/ Server(u)!Next
<1> DEFINE History == {m \in messages : Author[m] \in members \ {u}}
           Queue   == {m \in pending \ expired : <<m, u>> \in recipients /\ Author[m] \in members}
<1>s. SUFFICES ASSUME QueueInv, ClearInv, u \in Users, \A k \in Clears : Actor[k] # u,
                      u \in members'
               PROVE  [Next]_vars => UNCHANGED Server(u)!vars \/ Server(u)!Next
  BY DEF OnlyReceive
<1>t. /\ messages \subseteq Msgs /\ pending \subseteq messages /\ members \subseteq Users
      /\ messages \subseteq committed /\ expired \subseteq committed
      /\ clears \in [Users -> Nat]
      /\ \A m \in Queue : m \in Msgs /\ Author[m] # u
  <2>1. /\ messages \subseteq Msgs /\ pending \subseteq messages /\ members \subseteq Users
        /\ messages \subseteq committed /\ expired \subseteq committed
        /\ clears \in [Users -> Nat]
    BY <1>s DEF QueueInv, QueueTypes, CommittedFirst, HistoryIsKept, ClearInv
  <2>2. ASSUME NEW m \in Queue PROVE m \in Msgs /\ Author[m] # u
    BY <1>s, <2>1, <2>2 DEF QueueInv, QueueIsOwed, Owed, CommittedFirst
  <2>. QED
    BY <2>1, <2>2
\* A message comes into the history and the member's queue, and for the first time.
<1>1. ASSUME NEW m \in Msgs, SendCommit(m)
      PROVE  UNCHANGED Server(u)!vars \/ Server(u)!Next
  <2>1. /\ messages' = messages \cup {m} /\ committed' = committed \cup {m}
        /\ recipients' = recipients \cup ({m} \X addressed[m])
        /\ pending' = IF addressed[m] = {} THEN pending ELSE pending \cup {m}
        /\ UNCHANGED <<expired, clears, lastEvent, members>>
    BY <1>1 DEF SendCommit, clearVars, memberVars
  <2>2. /\ m \notin committed /\ m \notin expired /\ m \notin pending
        /\ Author[m] \notin addressed[m] /\ Others(Author[m]) \subseteq addressed[m]
        /\ <<m, u>> \notin recipients
    BY <1>s, <1>t, <1>1 DEF SendCommit, QueueInv, CommittedFirst, QueueIsOwed, Owed
  <2>3. CASE Author[m] = u
    <3>1. \A n : <<n, u>> \in recipients' <=> <<n, u>> \in recipients
      BY <2>1, <2>2, <2>3
    <3>2. Queue' = Queue /\ History' = History
      BY <2>1, <2>2, <2>3, <3>1
    <3>. QED
      BY <2>1, <2>3, <3>2 DEF Server!vars
  <2>4. CASE Author[m] # u /\ Author[m] \in members
    <3>1. u \in addressed[m] /\ pending' = pending \cup {m}
      BY <1>s, <2>1, <2>2, <2>4 DEF Others
    <3>2. Queue' = Queue \cup {m} /\ History' = History \cup {m}
      BY <1>s, <2>1, <2>2, <2>4, <3>1
    <3>3. Server(u)!Send(m)
      BY <2>1, <2>2, <2>4, <3>2 DEF Server!Send
    <3>. QED
      BY <2>4, <3>3 DEF Server!Next
  <2>5. CASE Author[m] # u /\ Author[m] \notin members
    <3>1. Queue' = Queue /\ History' = History
      BY <2>1, <2>5
    <3>2. Server(u)!SendUnseen(m)
      BY <2>1, <2>2, <2>5, <3>1 DEF Server!SendUnseen
    <3>. QED
      BY <2>5, <3>2 DEF Server!Next
  <2>. QED
    BY <2>3, <2>4, <2>5
\* An acknowledgement by another member leaves a queue row this member is named in.
<1>2. ASSUME NEW v \in Users, NEW m \in Msgs, Ack(v, m)
      PROVE  UNCHANGED Server(u)!vars \/ Server(u)!Next
  <2>1. /\ recipients' = recipients \ {<<m, v>>}
        /\ pending' = IF \E w \in Users : <<m, w>> \in recipients' THEN pending
                                                                   ELSE pending \ {m}
        /\ UNCHANGED <<messages, committed, expired, clears, lastEvent, members>>
    BY <1>2 DEF Ack, clearVars, memberVars
  <2>2. ASSUME NEW n \in pending, <<n, u>> \in recipients, n # m \/ v # u
        PROVE  n \in pending' /\ <<n, u>> \in recipients'
    BY <1>s, <2>1, <2>2
  <2>3. CASE v = u /\ m \in Queue
    <3>1. Queue' = Queue \ {m}
      BY <2>1, <2>2, <2>3
    <3>2. Server(u)!Taken(m)
      BY <2>1, <2>3, <3>1 DEF Server!Taken
    <3>. QED
      BY <1>t, <2>3, <3>2 DEF Server!Next
  <2>4. CASE ~(v = u /\ m \in Queue)
    <3>1. Queue' = Queue
      BY <2>1, <2>2, <2>4
    <3>. QED
      BY <2>1, <3>1 DEF Server!vars
  <2>. QED
    BY <2>3, <2>4
<1>3. ASSUME NEW m \in Msgs, Expire(m)
      PROVE  UNCHANGED Server(u)!vars \/ Server(u)!Next
  <2>1. /\ m \notin expired /\ expired' = expired \cup {m}
        /\ UNCHANGED <<messages, pending, recipients, committed, clears, lastEvent, members>>
    BY <1>3 DEF Expire, queueVars, clearVars, historyVars, memberVars
  <2>2. CASE m \in Queue
    <3>1. Server(u)!Taken(m)
      BY <2>1, <2>2 DEF Server!Taken
    <3>. QED
      BY <1>t, <2>2, <3>1 DEF Server!Next
  <2>3. CASE m \notin Queue
    BY <2>1, <2>3 DEF Server!vars
  <2>. QED
    BY <2>2, <2>3
\* The clean-up only takes what has expired: FetchRead would not give it out.
<1>4. ASSUME NEW h \in Handler, CleanRecipients(h) \/ CleanPending(h)
      PROVE  UNCHANGED Server(u)!vars
  <2>1. UNCHANGED <<messages, expired, committed, clears, lastEvent, members>>
    BY <1>4 DEF CleanRecipients, CleanPending, clearVars, historyVars, memberVars
  <2>2. Queue' = Queue
    BY <1>4, <2>1 DEF CleanRecipients, CleanPending
  <2>. QED
    BY <2>1, <2>2 DEF Server!vars
<1>5. ASSUME NEW r \in Recalls, RecallCommit(r)
      PROVE  UNCHANGED Server(u)!vars \/ Server(u)!Next
  <2> DEFINE mine == {n \in Msgs : n = Target[r] /\ Author[n] = By[r]}
  <2>1. /\ recipients' = {x \in recipients : x[1] \notin mine \cap pending}
        /\ pending' = pending \ mine /\ messages' = messages \ mine
        /\ UNCHANGED <<expired, committed, clears, lastEvent, members>>
    BY <1>5 DEF RecallCommit, clearVars, memberVars
  <2>2. Queue' = Queue \ mine /\ History' = History \ mine
    BY <2>1
  <2>3. CASE \E n \in mine : n \in History
    <3>1. PICK n \in mine : n \in History
      BY <2>3
    <3>2. mine = {n} /\ n \in Msgs /\ Author[n] # u
      BY <3>1
    <3>3. Server(u)!Recall(n)
      BY <2>1, <2>2, <3>1, <3>2 DEF Server!Recall
    <3>. QED
      BY <3>2, <3>3 DEF Server!Next
  <2>4. CASE \A n \in mine : n \notin History
    <3>1. Queue \subseteq History
      BY <1>t
    <3>2. Queue' = Queue /\ History' = History
      BY <2>2, <2>4, <3>1
    <3>. QED
      BY <2>1, <3>2 DEF Server!vars
  <2>. QED
    BY <2>3, <2>4
\* The clears are those of the others.
<1>6. ASSUME NEW k \in Clears, ClearCommit(k)
      PROVE  Server(u)!Next
  <2>1. /\ messages' = {} /\ pending' = {} /\ lastEvent' = lastEvent + 1
        /\ clears' = [v \in Users |-> IF v \in Others(Actor[k]) THEN lastEvent' ELSE clears[v]]
        /\ UNCHANGED <<committed, members>>
    BY <1>6 DEF ClearCommit, memberVars
  <2>2. clears'[u] = lastEvent'
    BY <1>s, <2>1 DEF Others
  <2>3. Server(u)!Clear
    BY <2>1, <2>2 DEF Server!Clear
  <2>. QED
    BY <2>3 DEF Server!Next
<1>7. ASSUME NEW v \in Users, NEW k \in Clears, AckClear(v, event[k])
      PROVE  UNCHANGED Server(u)!vars \/ Server(u)!Next
  <2>1. /\ UNCHANGED <<messages, pending, recipients, expired, committed, lastEvent, members>>
        /\ clears'[u] \in {0, clears[u]}
    BY <1>s, <1>t, <1>7 DEF AckClear, queueVars, historyVars, memberVars
  <2>2. CASE clears'[u] = 0 /\ clears[u] # 0
    BY <2>1, <2>2 DEF Server!Cleared, Server!Next
  <2>3. CASE clears'[u] = clears[u]
    BY <2>1, <2>3 DEF Server!vars
  <2>. QED
    BY <2>1, <2>2, <2>3
\* With the account of another member all that it has sent goes, everywhere at once.
<1>8. ASSUME NEW v \in Users, DeleteUser(v)
      PROVE  Server(u)!Next
  <2> DEFINE own  == {m \in Msgs : Author[m] = v}
             left == {x \in recipients : x[2] # v /\ x[1] \notin own \cap pending}
  <2>1. /\ v \in members /\ members' = members \ {v}
        /\ recipients' = left /\ messages' = messages \ own
        /\ pending' = {m \in pending \ own : \E w \in Users : <<m, w>> \in left}
        /\ clears'[u] \in {clears[u], 0}
        /\ UNCHANGED <<expired, committed, lastEvent>>
    BY <1>s, <1>t, <1>8 DEF DeleteUser
  <2>2. v # u
    BY <1>s, <2>1
  <2>3. History' = {m \in History : Author[m] # v}
    BY <1>t, <2>1
  <2>4. Queue' = {m \in Queue : Author[m] # v}
    <3>1. ASSUME NEW m \in pending \ expired, <<m, u>> \in recipients, m \notin own
          PROVE  <<m, u>> \in left
      BY <2>2, <3>1
    <3>. QED
      BY <1>s, <1>t, <2>1, <3>1
  <2>5. Server(u)!AccountDeleted(v)
    BY <2>1, <2>2, <2>3, <2>4 DEF Server!AccountDeleted
  <2>. QED
    BY <2>2, <2>5 DEF Server!Next
<1>9. CASE UNCHANGED <<messages, pending, recipients, expired, committed, clears, lastEvent,
                       members>>
  BY <1>9 DEF Server!vars
<1>. QED
  BY <1>1, <1>2, <1>3, <1>4, <1>5, <1>6, <1>7, <1>8, <1>9
     DEF Next, SendCheck, SendRollback, SendNotify, FetchStart, FetchRead, DeleteForSelf,
         RecallCheck, RecallAttachment, RecallUnlink, ClearCheck, ClearNotify, ClearUnlink,
         UploadWrite, UploadInsert, UploadFails, RemoveRow, RemoveFile, Crash, queueVars,
         clearVars, memberVars, historyVars, vars

\* To every member who makes no clear and keeps the account, each step of the tables is
\* one of MemberServer.
THEOREM ServesMembers == Spec => MembersServed
<1>1. QueueInv /\ ClearInv /\ [Next]_vars =>
        \A u \in OnlyReceive \cap members' : UNCHANGED Server(u)!vars \/ Server(u)!Next
  BY ServedStep
<1>. QED
  BY <1>1, QueueInvariant, ClearInvariant, PTL DEF Spec, MembersServed

\* The tables implement MemberServer, which Delivery works with, for such a member.
THEOREM ImplementsMemberServer ==
    ASSUME NEW CONSTANT u, u \in OnlyReceive
    PROVE  Spec /\ [](u \in members) => Server(u)!Spec
<1>1. Init => Server(u)!Init
  BY DEF Init, Server!Init, OnlyReceive
<1>2. QueueInv /\ ClearInv /\ (u \in members)' /\ [Next]_vars => [Server(u)!Next]_(Server(u)!vars)
  BY ServedStep
<1>. QED
  BY <1>1, <1>2, QueueInvariant, ClearInvariant, PTL DEF Spec, Server!Spec

==============================================================================
