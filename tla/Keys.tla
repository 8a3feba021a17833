--------------------------------- MODULE Keys ---------------------------------
(***************************************************************************)
(* The encryption keys of one account (frontend/client/src/crypto/e2ee.js, *)
(* submitAuth and start in App.vue): every login finds, restores or makes  *)
(* the two key pairs, keeps them in the device's IndexedDB and publishes   *)
(* the public halves with a backup under the password.  Logins may run at  *)
(* the same time, on several devices or in several tabs of one.            *)
(*                                                                         *)
(* A key pair is a number, and a backup is the pair that it restores.  The *)
(* password of an account never changes.                                   *)
(***************************************************************************)
EXTENDS Integers, FiniteSets

CONSTANTS
    Tabs,           \* pages in which the account logs in
    Devices,
    Layouts,        \* on which devices the tabs may be
    MaxKey,         \* bound: key pairs made
    MaxTroubles     \* bound: failed requests, closed tabs and cleared browsers

None   == 0
Early  == 1         \* the key an account published before there were backups
Keys   == 0..MaxKey
Kinds  == {"classic", "pq"}
Pairs  == [Kinds -> Keys]
NoPair == [k \in Kinds |-> None]

ASSUME KeysAssumption ==
    /\ MaxKey \in Nat \ {0} /\ MaxTroubles \in Nat
    /\ Layouts \subseteq [Tabs -> Devices]

VARIABLES
    early,          \* whether the account has published the key Early
    device,         \* the device of each tab
    published,      \* the account's row: its public halves ...
    backup,         \* ... and the pairs that its backups restore
    stored,         \* the pairs in IndexedDB of each device
    token,          \* devices whose localStorage has a token
    at,             \* of each tab: the await of start, "out" or "started"
    password,       \* of each tab: whether start has the password
    row,            \* of each tab: the account as /me has answered it
    identity,       \* of each tab
    created,        \* of each tab: the kinds start has made and must publish
    made,           \* key pairs so far
    troubles        \* failures so far

serverVars == <<published, backup>>
tabVars    == <<password, row, identity, created>>
vars == <<early, device, serverVars, stored, token, at, tabVars, made, troubles>>

\* A new account, or one of before the backups; some devices hold its key.
Init ==
    /\ early \in BOOLEAN /\ device \in Layouts
    /\ published = [NoPair EXCEPT !["classic"] = IF early THEN Early ELSE None]
    /\ backup = NoPair
    /\ stored \in [Devices -> {NoPair, published}]
    /\ token = {}
    /\ at = [t \in Tabs |-> "out"]
    /\ password = [t \in Tabs |-> FALSE]
    /\ row = [t \in Tabs |-> [published |-> NoPair, backup |-> NoPair]]
    /\ identity = [t \in Tabs |-> NoPair]
    /\ created = [t \in Tabs |-> {}]
    /\ made = Early /\ troubles = 0

Trouble == troubles < MaxTroubles /\ troubles' = troubles + 1

Goes(t, to) == at' = [at EXCEPT ![t] = to]

\* start throws: the token is forgotten.
Throws(t) == Goes(t, "out") /\ token' = token \ {device[t]}

------------------------------------------------------------------------------
\* API.login and register answer a token to whoever gives the password; a page that
\* loads finds the one its device has kept.
HasToken(t, given) == given \/ device[t] \in token

\* /me has answered: after a login with the password, or when the page loads with a
\* token.
Start(t, given) ==
    /\ at[t] = "out" /\ HasToken(t, given)
    /\ Goes(t, "get") /\ token' = token \cup {device[t]}
    /\ password' = [password EXCEPT ![t] = given]
    /\ row' = [row EXCEPT ![t] = [published |-> published, backup |-> backup]]
    /\ identity' = [identity EXCEPT ![t] = NoPair]
    /\ created' = [created EXCEPT ![t] = {}]
    /\ UNCHANGED <<early, device, serverVars, stored, made, troubles>>

\* The pair that IndexedDB holds serves if its public half is the published one.
Serves(t, k) == row[t].published[k] # None
                /\ stored[device[t]][k] = row[t].published[k]

\* Otherwise the backup's does, of which the public half is compared, too.
Restores(t, k) == ~Serves(t, k) /\ row[t].backup[k] # None

\* A classic pair is made for want of both, an ML-KEM pair only if none is published;
\* one that was stored and never published is published then.
Makes(t, k) ==
    IF k = "classic" THEN ~Serves(t, k) /\ ~Restores(t, k)
    ELSE row[t].published[k] = None /\ password[t]

Reuses(t, k) == k = "pq" /\ Makes(t, k) /\ stored[device[t]][k] # None

\* init looks only at what the device has stored.
BugFails(t) ==
    \/ ~password[t] /\ Makes(t, "classic")
    \/ \E k \in Kinds : row[t].published[k] # None /\ ~Serves(t, k)

\* What init throws for: no password to restore or make a pair, no backup, a wrong one.
Fails(t) ==
    \/ ~password[t] /\ \E k \in Kinds : Restores(t, k) \/ (k = "classic" /\ Makes(t, k))
    \/ row[t].published["pq"] # None /\ ~Serves(t, "pq") /\ ~Restores(t, "pq")
    \/ \E k \in Kinds : Restores(t, k) /\ row[t].backup[k] # row[t].published[k]

\* The pairs that init arrives at: what is made takes the next numbers.
New(t) == {k \in Kinds : Makes(t, k) /\ ~Reuses(t, k)}

Arrives(t) ==
    [k \in Kinds |-> IF Reuses(t, k) THEN stored[device[t]][k]
                     ELSE IF k \notin New(t) THEN row[t].published[k]
                     ELSE made + IF k = "pq" THEN Cardinality(New(t)) ELSE 1]

\* init has read IndexedDB.
InitKeys(t) ==
    /\ at[t] = "get"
    /\ \/ Fails(t) /\ Throws(t) /\ UNCHANGED <<identity, created, made>>
       \/ /\ ~Fails(t) /\ Goes(t, "put")
          /\ made + Cardinality(New(t)) <= MaxKey /\ made' = made + Cardinality(New(t))
          /\ identity' = [identity EXCEPT ![t] = Arrives(t)]
          /\ created' = [created EXCEPT ![t] = {k \in Kinds : Makes(t, k)}]
          /\ UNCHANGED token
    /\ UNCHANGED <<early, device, serverVars, stored, password, row, troubles>>

\* The ML-KEM pair is not kept.
BugKeep(t) ==
    /\ at[t] = "put" /\ Goes(t, "publish")
    /\ stored' = [stored EXCEPT ![device[t]] = [k \in {"classic"} |-> identity[t][k]]]
    /\ UNCHANGED <<early, device, serverVars, token, tabVars, made, troubles>>

\* put(username, identity), before anything is published.
Keep(t) ==
    /\ at[t] = "put" /\ Goes(t, "publish")
    /\ stored' = [stored EXCEPT ![device[t]] = identity[t]]
    /\ UNCHANGED <<early, device, serverVars, token, tabVars, made, troubles>>

\* The server binds whatever key it is sent.
BugAccepts(t, k) == created[t] # {}

\* setPublicKey and setPostQuantumKey: another key is replaced only by the login that
\* has found a classic one without a backup.
Accepts(t, k) ==
    \/ published[k] \in {None, identity[t][k]}
    \/ k = "classic" /\ row[t].published[k] # None

Publishes(t, k) ==
    /\ at[t] = "publish" /\ k \in created[t]
    /\ k = "pq" => "classic" \notin created[t]

Saves(t, k) ==
    /\ published' = [published EXCEPT ![k] = identity[t][k]]
    /\ backup' = [backup EXCEPT ![k] = identity[t][k]]

Publish(t, k) ==
    /\ Publishes(t, k)
    /\ \/ /\ Accepts(t, k) /\ Saves(t, k)
          /\ created' = [created EXCEPT ![t] = @ \ {k}]
          /\ UNCHANGED <<at, token>>
       \/ ~Accepts(t, k) /\ Throws(t) /\ UNCHANGED <<serverVars, created>>
    /\ UNCHANGED <<early, device, stored, password, row, identity, made, troubles>>

\* The answer is lost: the key is published, and start throws.
PublishLost(t, k) ==
    /\ Trouble
    /\ Publishes(t, k) /\ Accepts(t, k) /\ Saves(t, k) /\ Throws(t)
    /\ UNCHANGED <<early, device, stored, tabVars, made>>

\* Everything is published, and start goes on.
Started(t) ==
    /\ at[t] = "publish" /\ created[t] = {}
    /\ Goes(t, "started")
    /\ UNCHANGED <<early, device, serverVars, stored, token, tabVars, made, troubles>>

\* A request of start fails before it reaches the server.
RequestFails(t) ==
    /\ Trouble
    /\ at[t] \notin {"out", "started"} /\ Throws(t)
    /\ UNCHANGED <<early, device, serverVars, stored, tabVars, made>>

\* The tab is closed or reloaded, at any moment.
Close(t) ==
    /\ Trouble
    /\ at[t] # "out" /\ Goes(t, "out")
    /\ UNCHANGED <<early, device, serverVars, stored, token, tabVars, made>>

\* The user clears the data of a browser.
ClearData(d) ==
    /\ Trouble
    /\ stored' = [stored EXCEPT ![d] = NoPair]
    /\ token' = token \ {d}
    /\ at' = [t \in Tabs |-> IF device[t] = d THEN "out" ELSE at[t]]
    /\ UNCHANGED <<early, device, serverVars, tabVars, made>>

StartStep(t) ==
    InitKeys(t) \/ Keep(t) \/ (\E k \in Kinds : Publish(t, k)) \/ Started(t)

Next ==
    \/ \E t \in Tabs : \/ \E given \in BOOLEAN : Start(t, given)
                       \/ StartStep(t) \/ RequestFails(t) \/ Close(t)
                       \/ \E k \in Kinds : PublishLost(t, k)
    \/ \E d \in Devices : ClearData(d)

Spec == Init /\ [][Next]_vars

\* What start awaits comes, and the user logs in again and again until it has worked.
Fairness == \A t \in Tabs : WF_vars(StartStep(t)) /\ SF_vars(Start(t, TRUE))

FairSpec == Spec /\ Fairness

------------------------------------------------------------------------------
(* Properties.                                                             *)

TypeOK ==
    /\ early \in BOOLEAN /\ device \in Layouts
    /\ published \in Pairs /\ backup \in Pairs
    /\ stored \in [Devices -> Pairs] /\ token \subseteq Devices
    /\ at \in [Tabs -> {"out", "get", "put", "publish", "started"}]
    /\ password \in [Tabs -> BOOLEAN]
    /\ row \in [Tabs -> [published : Pairs, backup : Pairs]]
    /\ identity \in [Tabs -> Pairs]
    /\ created \in [Tabs -> SUBSET Kinds]
    /\ made \in Keys /\ troubles \in 0..MaxTroubles

\* A client that has started holds the private halves of the account's public keys, so
\* that it can read what others encrypt to them, whatever other logins were under way
\* (handlers.go:182 refuses to bind another key).  An account of before the backups is
\* excepted, whose key a login on another device replaces; so is the ML-KEM key of a
\* client that started without the password before there was one.
CanDecrypt ==
    \A t \in Tabs : at[t] = "started" =>
        /\ early \/ identity[t]["classic"] = published["classic"]
        /\ identity[t]["pq"] \in {None, published["pq"]}

\* Whatever a login has made and lost, who logs in with the password again gets in at
\* last, on every device and in every tab (README.md:95 "清空浏览器数据后可通过登录密码恢复账号加密私钥",
\* after the browser's data is cleared the password restores the private keys).
LoginSucceeds == \A t \in Tabs : <>[](at[t] = "started")
===============================================================================
