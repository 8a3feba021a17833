----------------------------- MODULE LoginProofs -----------------------------
(***************************************************************************)
(* Proofs about what a client goes through when it logs in: the keys that  *)
(* start finds, makes and publishes (Keys), for any number of tabs and     *)
(* devices, and the tickets that open its sockets (Tickets), for any       *)
(* number of calls, any lifetime and any interleaving.                     *)
(***************************************************************************)
EXTENDS Tickets, Keys, FiniteSetTheorems, TLAPS

------------------------------------------------------------------------------
(* Tickets.                                                                *)

\* A ticket that was stored is in the map or in the hands of at most one Consume,
\* the first that presented it, and never comes back.
TicketInv ==
    /\ TicketTypeOK
    /\ \A i \in tickets : pc[i] = "done"
    /\ \A c \in Uses : pc[c] = "idle" => entry[c] = {}
    /\ \A c \in Uses : granted[c] # {} => pc[c] = "done" /\ entry[c] # {}
    /\ \A c \in Uses : granted[c] \subseteq {Caller[i] : i \in entry[c]}
    /\ \A c \in Uses : \A i \in entry[c] :
          i = Presented[c] /\ i \notin tickets /\ pc[i] = "done"
    /\ \A c, d \in Uses : \A i \in entry[c] : i \in entry[d] => c = d
    /\ \A i \in Issues : pc[i] = "done" => expires[i] = now[i] + Lifetime
    /\ \A i \in Issues : now[i] <= clock

\* No call has begun and the map is empty.
LEMMA InitTickets == TicketInit => TicketInv
  BY CallAssumption, TimeAssumption DEF TicketInit, TicketInv, TicketTypeOK

\* Every step keeps the invariant.
LEMMA TicketStep == ASSUME TicketInv, [TicketNext]_ticketVars PROVE TicketInv'
<1>s. SUFFICES ASSUME TicketInv PROVE [TicketNext]_ticketVars => TicketInv'
  OBVIOUS
<1>1. ASSUME NEW i \in Issues, IssueTime(i) PROVE TicketInv'
  BY <1>s, <1>1, CallAssumption, TimeAssumption DEF IssueTime, TicketInv, TicketTypeOK
<1>2. ASSUME NEW i \in Issues, IssueStore(i) PROVE TicketInv'
  BY <1>s, <1>2, CallAssumption, TimeAssumption DEF IssueStore, TicketInv, TicketTypeOK
<1>3. ASSUME NEW c \in Uses, Take(c) PROVE TicketInv'
  BY <1>s, <1>3, CallAssumption, TimeAssumption DEF Take, TicketInv, TicketTypeOK
<1>4. ASSUME NEW c \in Uses, Answer(c) PROVE TicketInv'
  BY <1>s, <1>4, CallAssumption, TimeAssumption DEF Answer, TicketInv, TicketTypeOK
<1>5. CASE Tick
  BY <1>s, <1>5, CallAssumption, TimeAssumption DEF Tick, TicketInv, TicketTypeOK
<1>6. CASE Restart
  BY <1>s, <1>6, CallAssumption, TimeAssumption DEF Restart, TicketInv, TicketTypeOK
<1>7. CASE UNCHANGED ticketVars
  BY <1>s, <1>7 DEF ticketVars, TicketInv, TicketTypeOK
<1>q. QED
  BY <1>1, <1>2, <1>3, <1>4, <1>5, <1>6, <1>7 DEF TicketNext

\* The invariant holds in every reachable state.
THEOREM TicketInvariant == TicketSpec => []TicketInv
  BY InitTickets, TicketStep, PTL DEF TicketSpec

\* The variables keep their types.
THEOREM TicketTypes == TicketSpec => []TicketTypeOK
<1>1. TicketInv => TicketTypeOK
  BY DEF TicketInv
<1>q. QED
  BY <1>1, TicketInvariant, PTL

\* A ticket opens at most one socket, for the user it was issued to (auth.go:75).
THEOREM TicketsAreSingleUse == TicketSpec => []SingleUse
<1>1. TicketInv => SingleUse
  BY CallAssumption DEF TicketInv, TicketTypeOK, SingleUse
<1>q. QED
  BY <1>1, TicketInvariant, PTL

\* The clean-up of IssueWebSocketTicket never removes a ticket that is still good.
THEOREM GoodTicketsAreKept == TicketSpec => GoodTicketIsKept
<1> DEFINE A == \A k \in Issues : (pc[k] = "timed" /\ pc'[k] = "done")
                  => \A i \in tickets \ tickets' : expires[i] <= clock
<1>1. TicketInv => ([TicketNext]_ticketVars => [A]_ticketVars)
  <2>s. SUFFICES ASSUME TicketInv PROVE TicketNext => A
    OBVIOUS
  <2>1. ASSUME NEW i \in Issues, IssueStore(i) PROVE A
    BY <2>s, <2>1, CallAssumption, TimeAssumption DEF IssueStore, TicketInv, TicketTypeOK
  <2>2. ASSUME NEW i \in Issues, IssueTime(i) PROVE A
    BY <2>s, <2>2 DEF IssueTime, TicketInv, TicketTypeOK
  <2>3. ASSUME NEW c \in Uses, Take(c) PROVE A
    BY <2>s, <2>3, CallAssumption DEF Take, TicketInv, TicketTypeOK
  <2>4. ASSUME NEW c \in Uses, Answer(c) PROVE A
    BY <2>s, <2>4 DEF Answer
  <2>5. CASE Tick
    BY <2>5 DEF Tick
  <2>6. CASE Restart
    BY <2>s, <2>6, CallAssumption DEF Restart, TicketInv, TicketTypeOK
  <2>q. QED
    BY <2>1, <2>2, <2>3, <2>4, <2>5, <2>6 DEF TicketNext
<1>q. QED
  BY <1>1, TicketInvariant, PTL DEF TicketSpec, GoodTicketIsKept

\* No upgrade succeeds with a ticket older than its lifetime.
THEOREM ExpiredTicketsAreRefused == TicketSpec => ExpiredIsRefused
<1> DEFINE A == \A c \in Uses : granted'[c] # granted[c]
                  => clock < now[Presented[c]] + Lifetime
<1>1. TicketInv => ([TicketNext]_ticketVars => [A]_ticketVars)
  <2>s. SUFFICES ASSUME TicketInv PROVE TicketNext => A
    OBVIOUS
  <2>1. ASSUME NEW c \in Uses, Answer(c) PROVE A
    BY <2>s, <2>1, CallAssumption, TimeAssumption DEF Answer, TicketInv, TicketTypeOK
  <2>2. CASE UNCHANGED granted
    BY <2>2
  <2>q. QED
    BY <2>1, <2>2 DEF TicketNext, IssueTime, IssueStore, Take, Tick, Restart
<1>q. QED
  BY <1>1, TicketInvariant, PTL DEF TicketSpec, ExpiredIsRefused

------------------------------------------------------------------------------
(* Keys.                                                                   *)

\* A backup restores the published key; but for an account of before the backups, no
\* classic key is published without one.
BackedUp(keys) ==
    /\ \A k \in Kinds : keys.backup[k] \in {None, keys.published[k]}
    /\ early \/ keys.backup["classic"] = keys.published["classic"]

Account == [published |-> published, backup |-> backup]

\* What a key was once, it is: key is the published one of its kind, if there is one.
Bound(k, key) == key \in {None, published[k]}

\* A tab knows the account as it was, and the keys have not changed since.
RowsAreBound ==
    \A t \in Tabs :
        /\ BackedUp(row[t])
        /\ early \/ Bound("classic", row[t].published["classic"])
        /\ Bound("pq", row[t].published["pq"])

\* From the key pairs on, a tab has those that are published, but for what it has made
\* itself and must publish; it makes none where it has seen one.
HoldsPublished(t) ==
    /\ identity[t]["classic"] # None
    /\ IF "classic" \in created[t] THEN early \/ row[t].published["classic"] = None
       ELSE early \/ identity[t]["classic"] = published["classic"]
    /\ IF "pq" \in created[t] THEN identity[t]["pq"] # None ELSE Bound("pq", identity[t]["pq"])

KeysInv ==
    /\ TypeOK
    /\ made # 0
    /\ BackedUp(Account)
    /\ RowsAreBound
    /\ \A t \in Tabs : at[t] \in {"put", "publish", "started"} => HoldsPublished(t)
    /\ \A t \in Tabs : at[t] = "started" => created[t] = {}

\* The server binds a key once: only an account of before the backups gets another
\* classic key.
BoundOnce ==
    [][\A k \in Kinds : published[k] # None =>
          published'[k] = published[k] \/ (early /\ k = "classic")]_vars

\* The pairs made at once are counted, and none is counted where none is made.
LEMMA NewPairs ==
  ASSUME NEW t \in Tabs
  PROVE  Cardinality(New(t)) \in Nat /\ (New(t) # {} => Cardinality(New(t)) # 0)
<1>1. IsFiniteSet(Kinds)
  <2>1. IsFiniteSet({"classic"}) /\ IsFiniteSet({"pq"})
    BY FS_Singleton
  <2>2. Kinds = {"classic"} \cup {"pq"}
    BY DEF Kinds
  <2>q. QED
    BY <2>1, <2>2, FS_Union
<1>2. New(t) \subseteq Kinds
  BY DEF New
<1>3. IsFiniteSet(New(t))
  BY <1>1, <1>2, FS_Subset
<1>q. QED
  BY <1>3, FS_CardinalityType, FS_EmptySet

\* Every step keeps the types.
LEMMA KeysTypesStep ==
  ASSUME TypeOK, made # 0, [Next]_vars
  PROVE  TypeOK' /\ made' # 0
<1>s. SUFFICES ASSUME TypeOK, made # 0 PROVE [Next]_vars => TypeOK' /\ made' # 0
  OBVIOUS
<1>1. ASSUME NEW t \in Tabs, NEW given \in BOOLEAN, Start(t, given) PROVE TypeOK' /\ made' # 0
  BY <1>s, <1>1, KeysAssumption
     DEF Start, Goes, serverVars, NoPair, Pairs, Keys, None, TypeOK
<1>2. ASSUME NEW t \in Tabs, InitKeys(t) PROVE TypeOK' /\ made' # 0
  <2>1. CASE Fails(t)
    BY <1>s, <1>2, <2>1, KeysAssumption
       DEF InitKeys, Throws, Goes, serverVars, TypeOK
  <2>2. CASE ~Fails(t)
    <3>1. /\ made + Cardinality(New(t)) \in Keys
          /\ made' = made + Cardinality(New(t)) /\ made' # 0
      BY <1>s, <1>2, <2>2, NewPairs, KeysAssumption DEF InitKeys, TypeOK, Keys
    <3>2. Arrives(t) \in Pairs
      <4>1. \A k \in Kinds : Reuses(t, k) => stored[device[t]][k] \in Keys
        BY <1>s, KeysAssumption DEF TypeOK, Pairs
      <4>2. \A k \in Kinds : row[t].published[k] \in Keys
        BY <1>s DEF TypeOK, Pairs
      <4>3. \A k \in Kinds : k \in New(t) =>
               made + (IF k = "pq" THEN Cardinality(New(t)) ELSE 1) \in Keys
        <5>1. made \in Nat /\ MaxKey \in Nat /\ Cardinality(New(t)) \in Nat
          BY <1>s, NewPairs, KeysAssumption DEF TypeOK, Keys
        <5>2. \A k \in Kinds : k \in New(t) => Cardinality(New(t)) # 0
          BY NewPairs
        <5>q. QED
          BY <3>1, <5>1, <5>2 DEF Keys
      <4>q. QED
        BY <4>1, <4>2, <4>3 DEF Arrives, Pairs
    <3>q. QED
      BY <1>s, <1>2, <2>2, <3>1, <3>2 DEF InitKeys, Goes, serverVars, TypeOK
  <2>q. QED
    BY <2>1, <2>2
<1>3. ASSUME NEW t \in Tabs, Keep(t) PROVE TypeOK' /\ made' # 0
  BY <1>s, <1>3, KeysAssumption
     DEF Keep, Goes, serverVars, tabVars, TypeOK
<1>4. ASSUME NEW t \in Tabs, NEW k \in Kinds, Publish(t, k) PROVE TypeOK' /\ made' # 0
  <2>1. CASE Accepts(t, k)
    <3>1. /\ published' \in Pairs /\ backup' \in Pairs
          /\ created' \in [Tabs -> SUBSET Kinds]
      <4>1. Saves(t, k) /\ created' = [created EXCEPT ![t] = created[t] \ {k}]
        BY <1>4, <2>1 DEF Publish
      <4>2. identity[t][k] \in Keys
        BY <1>s DEF TypeOK, Pairs
      <4>q. QED
        BY <1>s, <4>1, <4>2 DEF Saves, TypeOK, Pairs
    <3>q. QED
      BY <1>s, <1>4, <2>1, <3>1 DEF Publish, TypeOK
  <2>2. CASE ~Accepts(t, k)
    BY <1>s, <1>4, <2>2 DEF Publish, Publishes, Throws, Goes, serverVars, TypeOK
  <2>q. QED
    BY <2>1, <2>2
<1>5. ASSUME NEW t \in Tabs, Started(t) PROVE TypeOK' /\ made' # 0
  BY <1>s, <1>5, KeysAssumption
     DEF Started, Goes, serverVars, tabVars, TypeOK
<1>6. ASSUME NEW t \in Tabs, RequestFails(t) PROVE TypeOK' /\ made' # 0
  BY <1>s, <1>6, KeysAssumption
     DEF RequestFails, Trouble, Throws, Goes, serverVars, tabVars, TypeOK
<1>7. ASSUME NEW t \in Tabs, Close(t) PROVE TypeOK' /\ made' # 0
  BY <1>s, <1>7, KeysAssumption
     DEF Close, Trouble, Goes, serverVars, tabVars, TypeOK
<1>8. ASSUME NEW t \in Tabs, NEW k \in Kinds, PublishLost(t, k) PROVE TypeOK' /\ made' # 0
  BY <1>s, <1>8, KeysAssumption
     DEF PublishLost, Trouble, Publishes, Saves, Throws, Goes, serverVars, tabVars, Pairs, TypeOK
<1>9. ASSUME NEW d \in Devices, ClearData(d) PROVE TypeOK' /\ made' # 0
  BY <1>s, <1>9, KeysAssumption
     DEF ClearData, Trouble, serverVars, tabVars, NoPair, Pairs, Keys, None, TypeOK
<1>10. ASSUME UNCHANGED vars PROVE TypeOK' /\ made' # 0
  BY <1>s, <1>10, KeysAssumption
     DEF vars, serverVars, tabVars, TypeOK
<1>q. QED
  BY <1>1, <1>2, <1>3, <1>4, <1>5, <1>6, <1>7, <1>8, <1>9, <1>10 DEF Next, StartStep

\* A key that the server takes from a tab changes none that is bound.
LEMMA BindsOnce ==
  ASSUME KeysInv, NEW t \in Tabs, NEW k \in Kinds,
         Publishes(t, k), Accepts(t, k), Saves(t, k), early' = early
  PROVE  /\ \A j \in Kinds : published[j] # None =>
               published'[j] = published[j] \/ (early /\ j = "classic")
         /\ published' \in Pairs /\ published'[k] = identity[t][k]
         /\ \A j \in Kinds \ {k} : published'[j] = published[j]
         /\ BackedUp(Account)'
<1>1. early \/ published[k] \in {None, identity[t][k]} \/ k # "classic"
  <2>1. HoldsPublished(t) /\ k \in created[t]
    BY DEF KeysInv, Publishes
  <2>q. QED
    BY <2>1 DEF Accepts, HoldsPublished
<1>2. published[k] \in {None, identity[t][k]} \/ (early /\ k = "classic")
  BY <1>1 DEF Accepts
<1>3. published \in Pairs /\ backup \in Pairs /\ identity[t] \in Pairs
  BY DEF KeysInv, TypeOK
<1>4. BackedUp(Account)
  BY DEF KeysInv
<1>q. QED
  BY <1>2, <1>3, <1>4 DEF Saves, BackedUp, Account, Pairs, Kinds

\* What a step does to the account's row: it binds a key, or nothing.
LEMMA PublishedStep ==
  ASSUME KeysInv, [Next]_vars
  PROVE  /\ \A k \in Kinds : published[k] # None =>
               published'[k] = published[k] \/ (early /\ k = "classic")
         /\ BackedUp(Account)'
         /\ early' = early
<1> DEFINE Goal == /\ \A k \in Kinds : published[k] # None =>
                         published'[k] = published[k] \/ (early /\ k = "classic")
                   /\ BackedUp(Account)'
                   /\ early' = early
<1>1. ASSUME NEW t \in Tabs, NEW k \in Kinds, Publish(t, k) PROVE Goal
  <2>1. early' = early
    BY <1>1 DEF Publish
  <2>2. CASE Accepts(t, k)
    BY <1>1, <2>1, <2>2, BindsOnce DEF Publish
  <2>3. CASE ~Accepts(t, k)
    BY <1>1, <2>1, <2>3 DEF Publish, serverVars, KeysInv, BackedUp, Account
  <2>q. QED
    BY <2>2, <2>3
<1>2. ASSUME NEW t \in Tabs, NEW k \in Kinds, PublishLost(t, k) PROVE Goal
  BY <1>2, BindsOnce DEF PublishLost
<1>3. CASE UNCHANGED <<serverVars, early>>
  BY <1>3 DEF serverVars, KeysInv, BackedUp, Account
<1>q. QED
  BY <1>1, <1>2, <1>3
     DEF Next, StartStep, Start, InitKeys, Keep, Started, RequestFails, Close, ClearData,
         vars

\* What a tab has seen of the account, it has seen for good.
LEMMA RowsStep == ASSUME KeysInv, [Next]_vars PROVE RowsAreBound'
<1>1. /\ \A k \in Kinds : published[k] # None =>
            published'[k] = published[k] \/ (early /\ k = "classic")
      /\ early' = early
  BY PublishedStep
<1>2. ASSUME row' = row PROVE RowsAreBound'
  BY <1>1, <1>2 DEF KeysInv, RowsAreBound, BackedUp, Bound, Kinds
<1>3. ASSUME NEW t \in Tabs, NEW given \in BOOLEAN, Start(t, given) PROVE RowsAreBound'
  BY <1>3 DEF Start, serverVars, KeysInv, RowsAreBound, BackedUp, Account, Bound, TypeOK
<1>q. QED
  BY <1>2, <1>3
     DEF Next, StartStep, InitKeys, Keep, Publish, PublishLost, Started, RequestFails,
         Close, ClearData, tabVars, vars

\* The key pairs at which a tab arrives are the published ones or its own.
LEMMA ArrivesAtPublished ==
  ASSUME KeysInv, NEW t \in Tabs, InitKeys(t), ~Fails(t)
  PROVE  HoldsPublished(t)'
<1>1. /\ identity'[t] = Arrives(t)
      /\ created'[t] = {k \in Kinds : Makes(t, k)}
      /\ UNCHANGED <<early, published, row>>
  BY DEF InitKeys, serverVars, KeysInv, TypeOK
<1>2. /\ BackedUp(row[t])
      /\ early \/ Bound("classic", row[t].published["classic"])
      /\ Bound("pq", row[t].published["pq"])
  BY DEF KeysInv, RowsAreBound
<1>3. made + Cardinality(New(t)) # 0 /\ made + 1 # 0
  BY NewPairs DEF KeysInv, TypeOK, Keys
<1>4. "classic" \in Kinds /\ "pq" \in Kinds
  BY DEF Kinds
<1>5. /\ identity'[t]["classic"] # None
      /\ IF "classic" \in created'[t] THEN early \/ row[t].published["classic"] = None
         ELSE early \/ identity'[t]["classic"] = published["classic"]
  <2>1. CASE Makes(t, "classic")
    <3>1. "classic" \in created'[t] /\ identity'[t]["classic"] = made + 1
      BY <1>1, <1>4, <2>1 DEF Arrives, Reuses, New
    <3>2. row[t].backup["classic"] = None
      BY <2>1 DEF Makes, Restores
    <3>q. QED
      BY <1>2, <1>3, <3>1, <3>2 DEF BackedUp, None
  <2>2. CASE ~Makes(t, "classic")
    <3>1. "classic" \notin created'[t] /\ identity'[t]["classic"] = row[t].published["classic"]
      BY <1>1, <1>4, <2>2 DEF Arrives, Reuses, New
    <3>2. row[t].published["classic"] # None
      BY <1>2, <1>4, <2>2 DEF Makes, Serves, Restores, BackedUp
    <3>q. QED
      BY <1>2, <3>1, <3>2 DEF Bound
  <2>q. QED
    BY <2>1, <2>2
<1>6. IF "pq" \in created'[t] THEN identity'[t]["pq"] # None
      ELSE Bound("pq", identity'[t]["pq"])
  <2>1. CASE Makes(t, "pq")
    BY <1>1, <1>3, <1>4, <2>1 DEF Arrives, Reuses, New, None
  <2>2. CASE ~Makes(t, "pq")
    <3>1. "pq" \notin created'[t] /\ identity'[t]["pq"] = row[t].published["pq"]
      BY <1>1, <1>4, <2>2 DEF Arrives, Reuses, New
    <3>q. QED
      BY <1>2, <3>1
  <2>q. QED
    BY <2>1, <2>2
<1>q. QED
  BY <1>1, <1>5, <1>6 DEF HoldsPublished, Bound

\* A tab that holds the published keys goes on to hold them, whatever others publish.
LEMMA HeldIsKept ==
  ASSUME KeysInv, [Next]_vars, NEW t \in Tabs, HoldsPublished(t),
         UNCHANGED <<identity[t], created[t], row[t]>>
  PROVE  HoldsPublished(t)'
<1>1. /\ \A k \in Kinds : published[k] # None =>
            published'[k] = published[k] \/ (early /\ k = "classic")
      /\ early' = early
  BY PublishedStep
<1>q. QED
  BY <1>1 DEF HoldsPublished, Bound, Kinds

\* Every step keeps the argument.
LEMMA KeysStep == ASSUME KeysInv, [Next]_vars PROVE KeysInv'
<1> DEFINE Holds == \A t \in Tabs : at[t] \in {"put", "publish", "started"} => HoldsPublished(t)
           Done  == \A t \in Tabs : at[t] = "started" => created[t] = {}
<1>1. TypeOK' /\ made' # 0
  BY KeysTypesStep DEF KeysInv
<1>2. BackedUp(Account)' /\ RowsAreBound'
  BY PublishedStep, RowsStep
<1>s. SUFFICES [Next]_vars => Holds' /\ Done'
  BY <1>1, <1>2 DEF KeysInv
<1>3. ASSUME UNCHANGED <<identity, created, row>>,
             \A t \in Tabs : \/ at'[t] = at[t] \/ at'[t] = "out"
                             \/ at[t] = "put" /\ at'[t] = "publish"
                             \/ at[t] = "publish" /\ created[t] = {}
      PROVE  Holds' /\ Done'
  <2>1. ASSUME NEW t \in Tabs, at'[t] \in {"put", "publish", "started"}
        PROVE  HoldsPublished(t)'
    <3>1. HoldsPublished(t)
      BY <1>3, <2>1 DEF KeysInv
    <3>q. QED
      BY <1>3, <3>1, HeldIsKept
  <2>q. QED
    BY <1>3, <2>1 DEF KeysInv
<1>4. ASSUME NEW t \in Tabs, NEW given \in BOOLEAN, Start(t, given) PROVE Holds' /\ Done'
  <2>1. \A u \in Tabs \ {t} : UNCHANGED <<at[u], identity[u], created[u], row[u]>>
    BY <1>4 DEF Start, Goes, KeysInv, TypeOK
  <2>2. at'[t] = "get"
    BY <1>4 DEF Start, Goes, KeysInv, TypeOK
  <2>q. QED
    BY <2>1, <2>2, HeldIsKept DEF KeysInv
<1>5. ASSUME NEW t \in Tabs, InitKeys(t) PROVE Holds' /\ Done'
  <2>1. CASE Fails(t)
    BY <1>3, <1>5, <2>1 DEF InitKeys, Throws, Goes, KeysInv, TypeOK
  <2>2. CASE ~Fails(t)
    <3>1. /\ \A u \in Tabs \ {t} : UNCHANGED <<at[u], identity[u], created[u], row[u]>>
          /\ at'[t] = "put"
      BY <1>5, <2>2 DEF InitKeys, Goes, KeysInv, TypeOK
    <3>2. HoldsPublished(t)'
      BY <1>5, <2>2, ArrivesAtPublished
    <3>q. QED
      BY <3>1, <3>2, HeldIsKept DEF KeysInv
  <2>q. QED
    BY <2>1, <2>2
<1>6. ASSUME NEW t \in Tabs, NEW k \in Kinds, Publish(t, k), Accepts(t, k)
      PROVE  Holds' /\ Done'
  <2>1. /\ UNCHANGED <<at, identity, row>>
        /\ \A u \in Tabs \ {t} : created'[u] = created[u]
        /\ created'[t] = created[t] \ {k} /\ k \in created[t] /\ at[t] = "publish"
    BY <1>6 DEF Publish, Publishes, KeysInv, TypeOK
  <2>2. HoldsPublished(t)
    BY <2>1 DEF KeysInv
  <2>3. /\ \A j \in Kinds \ {k} : published'[j] = published[j]
        /\ published'[k] = identity[t][k] /\ early' = early
    BY <1>6, BindsOnce DEF Publish
  <2>4. HoldsPublished(t)'
    BY <2>1, <2>2, <2>3 DEF HoldsPublished, Bound, Kinds
  <2>q. QED
    BY <2>1, <2>4, HeldIsKept DEF KeysInv
<1>7. ASSUME NEW t \in Tabs, NEW k \in Kinds, Publish(t, k), ~Accepts(t, k)
      PROVE  Holds' /\ Done'
  BY <1>3, <1>7 DEF Publish, Throws, Goes, KeysInv, TypeOK
<1>8. ASSUME NEW t \in Tabs, Keep(t) \/ Started(t) \/ RequestFails(t) \/ Close(t)
      PROVE  Holds' /\ Done'
  BY <1>3, <1>8
     DEF Keep, Started, RequestFails, Close, Throws, Goes, tabVars, KeysInv, TypeOK
<1>9. ASSUME NEW t \in Tabs, NEW k \in Kinds, PublishLost(t, k) PROVE Holds' /\ Done'
  BY <1>3, <1>9 DEF PublishLost, Throws, Goes, tabVars, KeysInv, TypeOK
<1>10. ASSUME NEW d \in Devices, ClearData(d) PROVE Holds' /\ Done'
  BY <1>3, <1>10 DEF ClearData, tabVars
<1>11. CASE UNCHANGED vars
  BY <1>3, <1>11 DEF vars, tabVars
<1>q. QED
  BY <1>4, <1>5, <1>6, <1>7, <1>8, <1>9, <1>10, <1>11 DEF Next, StartStep

\* An account without keys, or with the one of before the backups.
LEMMA InitKeysInv == Init => KeysInv
<1> SUFFICES ASSUME Init PROVE KeysInv
  OBVIOUS
<1>1. /\ NoPair \in Pairs /\ published \in Pairs /\ made \in Keys
      /\ made # 0 /\ troubles \in 0..MaxTroubles
  <2>1. None \in Keys /\ Early \in Keys /\ Early # 0
    BY KeysAssumption DEF Keys, None, Early
  <2>2. NoPair \in Pairs
    BY <2>1 DEF NoPair, Pairs
  <2>3. published \in Pairs
    BY <2>1, <2>2 DEF Init, Pairs
  <2>q. QED
    BY <2>1, <2>2, <2>3, KeysAssumption DEF Init
<1>2. TypeOK /\ made # 0
  <2>1. /\ row \in [Tabs -> [published : Pairs, backup : Pairs]]
        /\ identity \in [Tabs -> Pairs] /\ stored \in [Devices -> Pairs]
    BY <1>1 DEF Init
  <2>2. /\ at \in [Tabs -> {"out", "get", "put", "publish", "started"}]
        /\ password \in [Tabs -> BOOLEAN] /\ created \in [Tabs -> SUBSET Kinds]
    BY DEF Init
  <2>q. QED
    BY <1>1, <2>1, <2>2 DEF Init, TypeOK
<1>3. BackedUp(Account)
  BY DEF Init, BackedUp, Account, NoPair, Kinds
<1>4. RowsAreBound
  BY DEF Init, RowsAreBound, BackedUp, Bound, NoPair, Kinds
<1>q. QED
  BY <1>2, <1>3, <1>4 DEF Init, KeysInv

\* The invariant holds in every reachable state.
THEOREM KeysInvariant == Spec => []KeysInv
  BY InitKeysInv, KeysStep, PTL DEF Spec

\* The variables keep their types.
THEOREM KeysTypes == Spec => []TypeOK
<1>1. KeysInv => TypeOK
  BY DEF KeysInv
<1>q. QED
  BY <1>1, KeysInvariant, PTL

\* A client that has started can decrypt what is encrypted to the account's keys.
THEOREM StartedCanDecrypt == Spec => []CanDecrypt
<1>1. KeysInv => CanDecrypt
  BY DEF KeysInv, HoldsPublished, Bound, CanDecrypt
<1>q. QED
  BY <1>1, KeysInvariant, PTL

\* The server never binds another key in place of one (handlers.go:174-185, 202-214),
\* but for the classic key of an account of before the backups.
THEOREM KeysAreBoundOnce == Spec => BoundOnce
<1> DEFINE A == \A k \in Kinds : published[k] # None =>
                  published'[k] = published[k] \/ (early /\ k = "classic")
<1>1. KeysInv => ([Next]_vars => [A]_vars)
  BY PublishedStep
<1>q. QED
  BY <1>1, KeysInvariant, PTL DEF Spec, BoundOnce

==============================================================================
