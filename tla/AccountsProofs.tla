--------------------------- MODULE AccountsProofs ----------------------------
(***************************************************************************)
(* For any names, addresses, connections, windows and limits: two accounts *)
(* have different ids unless the counter of a millisecond was exhausted; a *)
(* manager's block keeps out whom it names, but for logins decided before  *)
(* the users were kicked out; as many failures as allowed in an hour block *)
(* their target.                                                           *)
(*                                                                         *)
(* Types comes first. Remembered carries the ids; BlockListed and KeptOut, *)
(* the blocks of a manager; Counting, those of the failures.               *)
(***************************************************************************)
EXTENDS Accounts, FiniteSetTheorems, TLAPS

\* Somebody fails to log in.
Increases == \E key \in Addresses \cup Ids, type \in {"ip", "account"} : Increase(key, type)
\* An entry of the list; a counter is never 0.
Entry == [type : {"ip", "account"}, blocked : BOOLEAN, until : Nat,
          m : Nat \ {0}, mFor : Nat, h : Nat \ {0}, hFor : Nat]

\* The state, part by part.
IdsType == lastTime \in Nat /\ lastTime <= clock /\ counter \in 0..MaxCounter
  /\ issued \subseteq Ids
ListType ==
  /\ DOMAIN statuses \subseteq Addresses \cup Ids
  /\ \A key \in DOMAIN statuses : statuses[key] \in Entry
SessionType ==
  /\ session \in [Connections -> [pc : {"none", "new", "decided", "in"},
                                  id : Ids \cup {None}, open : BOOLEAN]]
  /\ \A c \in Connections : session[c].pc \in {"decided", "in"} => session[c].id \in Ids
  /\ raced \subseteq Connections

\* TypeOK, and what the code takes for granted: an account that is decided has an id.
Types ==
  /\ accounts \subseteq [id : Ids, account : Names, disabled : BOOLEAN]
  /\ clock \in 1..MaxClock /\ kicking \subseteq Addresses \cup Ids
  /\ {crash, repeated, wrapped} \subseteq BOOLEAN
  /\ IdsType /\ ListType /\ SessionType

\* What the assumptions say of the parameters.
LEMMA ParametersFacts ==
  /\ MaxCounter \in Nat /\ MaxClock \in Nat /\ MaxClock >= 1 /\ Minute \in Nat /\ Hour \in Nat
  /\ Minute > 0 /\ Hour > 0 /\ MinuteBlock \in Nat /\ HourBlock \in Nat /\ Duration \in Nat
  /\ MaxFailures \in Nat /\ MaxFailures >= 2
  /\ \A c \in Connections : peerIP[c] \in Addresses
BY ParametersOK, BoundsOK

\* Which steps change which part of the state.
LEMMA NextCases ==
  ASSUME Types, [Next]_vars
  PROVE  \/ \E n \in Names : AddAccount(n) \/ EnableAccount(n) \/ DeleteAccount(n)
         \/ \E key \in Addresses \cup Ids : /\ Block(key) /\ kicking' = kicking \cup {key}
                         /\ UNCHANGED <<accounts, ids, session, clock, crash, raced>>
         \/ \E target \in kicking : KickOut(target)
         \/ \E key \in DOMAIN statuses : Unblock(key)
         \/ /\ Increases
            /\ UNCHANGED session \/ \E c \in Connections : session' = Close({c})
            /\ UNCHANGED <<accounts, ids, kicking, clock, crash, raced>>
         \/ \E c \in Connections : \/ Connect(c) \/ Bind(c) \/ Leave(c) \/ Clean(c)
                                   \/ \E n \in Names : Login(c, n)
         \/ /\ UNCHANGED <<accounts, ids, list, session, kicking, raced>>
            /\ crash' \in BOOLEAN
            /\ clock' = clock \/ (clock' = clock + 1 /\ clock < MaxClock)
<1>1. CASE Manage
  <2>1. ASSUME NEW n \in Names, AddAccount(n) \/ EnableAccount(n) \/ DisableAccount(n)
                 \/ DeleteAccount(n)
        PROVE  AddAccount(n) \/ EnableAccount(n) \/ DeleteAccount(n)
    BY <2>1 DEF DisableAccount, EnableAccount
  <2>2. ASSUME NEW key \in issued, BlockAccount(key)
        PROVE  key \in Addresses \cup Ids /\ Block(key) /\ kicking' = kicking \cup {key}
               /\ UNCHANGED <<accounts, ids, session, clock, crash, raced>>
    BY <2>2 DEF BlockAccount, Types, IdsType
  <2>3. ASSUME NEW key \in Addresses, BlockAddress(key)
        PROVE  key \in Addresses \cup Ids /\ Block(key) /\ kicking' = kicking \cup {key}
               /\ UNCHANGED <<accounts, ids, session, clock, crash, raced>>
    BY <2>3 DEF BlockAddress
  <2>4. CASE ListAddresses
    <3>1. crash' \in BOOLEAN
      BY <2>4, Zenon DEF ListAddresses
    <3> QED
      BY <2>4, <3>1 DEF ListAddresses
  <2> QED
    BY <1>1, <2>1, <2>2, <2>3, <2>4 DEF Manage
<1>2. CASE Tick
  BY <1>2 DEF Tick, Types
<1>3. ASSUME NEW c \in Connections, Session(c)
      PROVE  \/ /\ Increases
                /\ UNCHANGED session \/ session' = Close({c})
                /\ UNCHANGED <<accounts, ids, kicking, clock, crash, raced>>
             \/ Connect(c) \/ Bind(c) \/ Leave(c) \/ Clean(c)
             \/ \E n \in Names : Login(c, n)
  <2>1. peerIP[c] \in Addresses
    BY ParametersFacts
  <2>2. CASE LoginFails(c)
    BY <2>1, <2>2 DEF LoginFails, Increases
  <2>3. CASE BadMessage(c)
    BY <2>1, <2>3 DEF BadMessage, Increases
  <2>4. CASE RefuseVisit(c)
    BY <2>4 DEF RefuseVisit, Increases, Types, SessionType
  <2> QED
    BY <1>3, <2>2, <2>3, <2>4 DEF Session
<1>4. CASE UNCHANGED vars
  BY <1>4 DEF vars, Types
<1> QED
  BY <1>1, <1>2, <1>3, <1>4 DEF Next

\* createId keeps the types of the ids.
LEMMA IdsStep ==
  ASSUME Types, NEW n \in Names, AddAccount(n)
  PROVE  /\ Generated.id \in Ids /\ accounts' = accounts \cup {[id |-> Generated.id,
              account |-> n, disabled |-> FALSE]}
         /\ IdsType' /\ {repeated', wrapped'} \subseteq BOOLEAN
<1>0. /\ lastTime \in Nat /\ lastTime <= clock /\ counter \in 0..MaxCounter
           /\ issued \subseteq Ids
      /\ clock \in 1..MaxClock /\ clock' = clock /\ MaxCounter \in Nat /\ MaxClock \in Nat
  BY ParametersFacts DEF Types, IdsType, AddAccount
<1>1. /\ Generated.id \in Ids /\ Generated.time \in Nat /\ Generated.time <= clock
      /\ Generated.counter \in 0..MaxCounter
  <2>1. CASE clock > lastTime
    BY <1>0, <2>1 DEF Generated, Ids
  <2>2. CASE ~(clock > lastTime) /\ counter < MaxCounter
    <3>1. Generated = [id |-> <<lastTime, counter + 1>>, time |-> lastTime,
            counter |-> counter + 1]
      BY <2>2 DEF Generated
    <3> QED
      BY <1>0, <2>2, <3>1 DEF Ids
  <2>3. CASE ~(clock > lastTime) /\ ~(counter < MaxCounter)
    <3>1. Generated = [id |-> <<lastTime + 1, 0>>, time |-> lastTime, counter |-> 0]
      BY <2>3 DEF Generated
    <3> QED
      BY <1>0, <2>3, <3>1 DEF Ids
  <2> QED
    BY <2>1, <2>2, <2>3
<1>2. IdsType'
  BY <1>0, <1>1 DEF AddAccount, IdsType, Ids
<1>3. {repeated', wrapped'} \subseteq BOOLEAN
  <2>1. repeated' \in BOOLEAN
    BY Zenon DEF AddAccount
  <2>2. wrapped' \in BOOLEAN
    BY Zenon DEF AddAccount
  <2> QED
    BY <2>1, <2>2
<1> QED
  BY <1>1, <1>2, <1>3 DEF AddAccount

\* A failure counted leaves an entry.
LEMMA CountedType ==
  ASSUME Types, NEW s \in Entry
  PROVE  Counted(s) \in Entry
<1>1. /\ Window(clock, Minute) \in Nat /\ Window(clock, Hour) \in Nat /\ clock \in Nat
      /\ MinuteBlock \in Nat /\ HourBlock \in Nat
  BY ParametersFacts DEF Types, Window
<1>2. s.m \in Nat \ {0} /\ s.h \in Nat \ {0} /\ s.blocked \in BOOLEAN /\ s.until \in Nat
      /\ s.mFor \in Nat /\ s.hFor \in Nat /\ s.type \in {"ip", "account"}
  BY DEF Entry
<1> DEFINE m == IF s.mFor = Window(clock, Minute) THEN s.m + 1 ELSE 1
           h == IF s.hFor = Window(clock, Hour) THEN s.h + 1 ELSE 1
           b == s.blocked \/ m >= MaxFailures \/ h >= MaxFailures
           u == IF h >= MaxFailures THEN clock + HourBlock
                ELSE IF m >= MaxFailures THEN clock + MinuteBlock ELSE s.until
<1>3. m \in Nat \ {0} /\ h \in Nat \ {0} /\ u \in Nat
  BY <1>1, <1>2
<1>4. b \in BOOLEAN
  BY Zenon
<1>5. Counted(s) = [s EXCEPT !.m = m, !.mFor = Window(clock, Minute), !.h = h,
        !.hFor = Window(clock, Hour),
               !.blocked = b, !.until = u]
  BY Zenon DEF Counted
<1> HIDE DEF m, h, b, u
<1> QED
  BY <1>1, <1>2, <1>3, <1>4, <1>5 DEF Entry

-----------------------------------------------------------------------------
\* BlackList's calls keep the list's types.
LEMMA PutType ==
  ASSUME ListType, NEW key \in Addresses \cup Ids, NEW s \in Entry, statuses' = Put(key, s)
  PROVE  ListType'
<1>1. DOMAIN statuses' = DOMAIN statuses \cup {key} /\ statuses'[key] = s
  BY DEF Put
<1>2. \A k \in DOMAIN statuses \ {key} : statuses'[k] = statuses[k]
  BY DEF Put
<1> QED
  BY <1>1, <1>2 DEF ListType

\* So does the first failure of a target.
LEMMA NewEntryType ==
  ASSUME Types, NEW type \in {"ip", "account"}
  PROVE  NewEntry(type) \in Entry
<1>1. Window(clock, Minute) \in Nat /\ Window(clock, Hour) \in Nat
  BY ParametersFacts DEF Types, Window
<1> QED
  BY <1>1 DEF NewEntry, Entry

\* increase changes the entry of its target, and nothing else of the list.
LEMMA IncreaseEffect ==
  ASSUME Types, NEW key \in Addresses \cup Ids, NEW type \in {"ip", "account"},
         Increase(key, type)
  PROVE  /\ ListType'
         /\ DOMAIN statuses' = DOMAIN statuses \cup {key}
         /\ \A k \in DOMAIN statuses \ {key} : statuses'[k] = statuses[k]
         /\ statuses'[key] = IF Known(key) THEN Counted(statuses[key]) ELSE NewEntry(type)
<1> DEFINE s == IF Known(key) THEN Counted(statuses[key]) ELSE NewEntry(type)
<1>1. s \in Entry
  BY CountedType, NewEntryType DEF Types, ListType, Known
<1>2. statuses' = Put(key, s)
  BY DEF Increase
<1> HIDE DEF s
<1>3. /\ DOMAIN statuses' = DOMAIN statuses \cup {key}
      /\ \A k \in DOMAIN statuses \ {key} : statuses'[k] = statuses[k]
      /\ statuses'[key] = s
  BY <1>2 DEF Put
<1>4. ListType'
  BY <1>1, <1>2, PutType DEF Types
<1> QED
  BY <1>3, <1>4 DEF s

\* block makes a manager's entry, keeping the counters there are.
LEMMA BlockEffect ==
  ASSUME Types, NEW key \in Addresses \cup Ids, Block(key)
  PROVE  /\ ListType'
         /\ DOMAIN statuses' = DOMAIN statuses \cup {key}
         /\ \A k \in DOMAIN statuses \ {key} : statuses'[k] = statuses[k]
         /\ statuses'[key] \in Entry /\ statuses'[key].blocked
         /\ statuses'[key].until = clock + Duration
         /\ statuses'[key].m = IF Known(key) THEN statuses[key].m ELSE 1
         /\ statuses'[key].mFor = IF Known(key) THEN statuses[key].mFor ELSE Window(clock, Minute)
         /\ statuses'[key].h = IF Known(key) THEN statuses[key].h ELSE 1
         /\ statuses'[key].hFor = IF Known(key) THEN statuses[key].hFor ELSE Window(clock, Hour)
<1> DEFINE s == IF Known(key) THEN statuses[key] ELSE NewEntry("ip")
           b == [s EXCEPT !.blocked = TRUE, !.until = clock + Duration]
<1>1. s \in Entry
  BY NewEntryType DEF Types, ListType, Known
<1>2. statuses' = Put(key, b)
  BY DEF Block
<1>3. clock + Duration \in Nat
  BY ParametersFacts DEF Types
<1>4. s.m = (IF Known(key) THEN statuses[key].m ELSE 1)
        /\ s.h = (IF Known(key) THEN statuses[key].h ELSE 1)
  BY DEF NewEntry
<1>5. /\ s.mFor = IF Known(key) THEN statuses[key].mFor ELSE Window(clock, Minute)
      /\ s.hFor = IF Known(key) THEN statuses[key].hFor ELSE Window(clock, Hour)
  BY DEF NewEntry
<1> HIDE DEF s
<1>6. b \in Entry /\ b.blocked /\ b.until = clock + Duration /\ b.m = s.m /\ b.mFor = s.mFor
        /\ b.h = s.h /\ b.hFor = s.hFor
  BY <1>1, <1>3 DEF Entry
<1> HIDE DEF b
<1>7. /\ DOMAIN statuses' = DOMAIN statuses \cup {key}
      /\ \A k \in DOMAIN statuses \ {key} : statuses'[k] = statuses[k]
      /\ statuses'[key] = b
  BY <1>2 DEF Put
<1>8. ListType'
  BY <1>2, <1>6, PutType DEF Types
<1> QED
  BY <1>4, <1>5, <1>6, <1>7, <1>8

\* remove takes the entry away.
LEMMA RemoveEffect ==
  ASSUME Types, NEW key, Remove(key)
  PROVE  /\ ListType'
         /\ DOMAIN statuses' = DOMAIN statuses \ {key}
         /\ \A k \in DOMAIN statuses' : statuses'[k] = statuses[k]
BY DEF Types, ListType, Remove

\* Closing connections keeps what the logins are.
LEMMA CloseFacts ==
  ASSUME Types, NEW S
  PROVE  \A c \in Connections :
           /\ Close(S)[c] \in [pc : {"none", "new", "decided", "in"}, id : Ids \cup {None},
                open : BOOLEAN]
           /\ Close(S)[c].pc = session[c].pc /\ Close(S)[c].id = session[c].id
           /\ Close(S)[c].open => session[c].open /\ c \notin S
<1> SUFFICES ASSUME NEW c \in Connections
             PROVE  /\ Close(S)[c] \in [pc : {"none", "new", "decided", "in"},
                         id : Ids \cup {None}, open : BOOLEAN]
                    /\ Close(S)[c].pc = session[c].pc /\ Close(S)[c].id = session[c].id
                    /\ Close(S)[c].open => session[c].open /\ c \notin S
  OBVIOUS
<1>1. session[c] \in [pc : {"none", "new", "decided", "in"}, id : Ids \cup {None}, open : BOOLEAN]
  BY DEF Types, SessionType
<1>2. Close(S)[c] = IF c \in S THEN [session[c] EXCEPT !.open = FALSE] ELSE session[c]
  BY DEF Close
<1> QED
  BY <1>1, <1>2

\* Closing keeps the types of the sessions.
LEMMA CloseType ==
  ASSUME Types, NEW S, session' = Close(S), raced' \subseteq Connections
  PROVE  SessionType'
<1>1. session' = [c \in Connections |-> Close(S)[c]]
  BY DEF Close
<1> QED
  BY <1>1, CloseFacts DEF Types, SessionType

\* The other steps of a connection, by what they do to its session.
LEMMA ConnectionSteps ==
  ASSUME Types, NEW c \in Connections,
         Connect(c) \/ Bind(c) \/ Leave(c) \/ Clean(c) \/ \E n \in Names : Login(c, n)
  PROVE  /\ SessionType' /\ UNCHANGED <<accounts, ids, list, kicking, clock, crash>>
         /\ \A d \in Connections \ {c} : session'[d] = session[d]
              /\ (d \in raced' <=> d \in raced)
         /\ \/ session'[c].pc \in {"none", "new"}
            \/ /\ session'[c].id = session[c].id /\ (session'[c].open => session[c].open)
               /\ raced' = raced
               /\ session'[c].pc = session[c].pc \/ session[c].pc = "decided"
            \/ /\ session[c].pc = "new" /\ session'[c].pc = "decided"
               /\ Allowed(peerIP[c]) /\ Allowed(session'[c].id)
<1>1. session \in [Connections -> [pc : {"none", "new", "decided", "in"}, id : Ids \cup {None},
        open : BOOLEAN]]
      /\ raced \subseteq Connections /\ SessionType
  BY DEF Types, SessionType
<1>2. CASE Connect(c)
  BY <1>1, <1>2 DEF Connect, SessionType
<1>3. CASE Bind(c)
  BY <1>1, <1>3 DEF Bind, SessionType
<1>4. CASE Leave(c)
  <2>1. \A d \in Connections \ {c} : Close({c})[d] = session[d]
    BY DEF Close
  <2> QED
    BY <1>1, <1>4, <2>1, CloseFacts, CloseType DEF Leave
<1>5. CASE Clean(c)
  BY <1>1, <1>5 DEF Clean, SessionType
<1>6. ASSUME NEW n \in Names, Login(c, n) 
      PROVE  /\ SessionType' /\ UNCHANGED <<accounts, ids, list, kicking, clock, crash, raced>>
             /\ \A d \in Connections \ {c} : session'[d] = session[d]
             /\ session[c].pc = "new" /\ session'[c].pc = "decided"
             /\ Allowed(peerIP[c]) /\ Allowed(session'[c].id)
  <2>1. PICK a \in accounts : Allowed(a.id) /\ session' =
          [session EXCEPT ![c].pc = "decided", ![c].id = a.id]
    BY <1>6 DEF Login
  <2>2. a.id \in Ids
    BY DEF Types
  <2>3. session'[c].pc = "decided" /\ session'[c].id = a.id /\ session'[c].open = session[c].open
    BY <1>1, <2>1
  <2>4. \A d \in Connections \ {c} : session'[d] = session[d]
    BY <1>1, <2>1
  <2>5. SessionType'
    <3>1. session'[c] \in [pc : {"none", "new", "decided", "in"}, id : Ids \cup {None},
            open : BOOLEAN]
      <4>1. session' = [session EXCEPT ![c] = [[session[c] EXCEPT !.pc = "decided"] EXCEPT !.id = a.id]]
        BY <1>1, <2>1
      <4> QED
        BY <1>1, <2>2, <4>1
    <3>2. session' \in [Connections -> [pc : {"none", "new", "decided", "in"},
                                        id : Ids \cup {None}, open : BOOLEAN]]
      <4>1. session' = [d \in Connections |-> session'[d]]
        BY <1>1, <2>1
      <4> QED
        BY <1>1, <2>4, <3>1, <4>1
    <3> QED
      BY <1>1, <1>6, <2>2, <2>3, <2>4, <3>2 DEF SessionType, Login
  <2> QED
    BY <1>6, <2>1, <2>3, <2>4, <2>5 DEF Login
<1> QED
  BY <1>2, <1>3, <1>4, <1>5, <1>6

-----------------------------------------------------------------------------
\* Initially.
LEMMA InitTypes == Init => Types
<1> SUFFICES ASSUME Init PROVE Types
  OBVIOUS
<1>1. OldAccount \in [id : Ids, account : Names, disabled : BOOLEAN]
  BY ParametersOK, BoundsOK DEF OldAccount, Ids
<1>2. DOMAIN statuses = {}
  BY DEF Init, None
<1>3. IdsType /\ ListType /\ SessionType
  BY <1>2, ParametersFacts DEF Init, IdsType, ListType, SessionType
<1>4. {crash, repeated, wrapped} \subseteq BOOLEAN
  BY DEF Init
<1> QED
  BY <1>1, <1>3, <1>4, ParametersFacts DEF Init, Types

\* Every step keeps the types.
LEMMA NextTypes == Types /\ [Next]_vars => Types'
<1> SUFFICES ASSUME Types, [Next]_vars PROVE Types'
  OBVIOUS
<1> USE DEF ids, list
<1>0. /\ IdsType /\ ListType /\ SessionType /\ clock \in 1..MaxClock
      /\ accounts \subseteq [id : Ids, account : Names, disabled : BOOLEAN]
      /\ kicking \subseteq Addresses \cup Ids /\ {crash, repeated, wrapped} \subseteq BOOLEAN
  BY DEF Types
<1>1. ASSUME NEW n \in Names, AddAccount(n) \/ EnableAccount(n) \/ DeleteAccount(n) PROVE Types'
  <2>1. CASE AddAccount(n)
    <3>1. UNCHANGED <<list, session, kicking, clock, crash, raced>>
      BY <2>1 DEF AddAccount
    <3>2. ListType' /\ SessionType'
      BY <1>0, <3>1 DEF ListType, SessionType
    <3>3. accounts' \subseteq [id : Ids, account : Names, disabled : BOOLEAN]
      <4>1. accounts' = accounts \cup {[id |-> Generated.id, account |-> n, disabled |-> FALSE]}
        BY <2>1, IdsStep
      <4>2. Generated.id \in Ids
        BY <2>1, IdsStep
      <4>3. [id |-> Generated.id, account |-> n, disabled |-> FALSE]
              \in [id : Ids, account : Names, disabled : BOOLEAN]
        BY <4>2
      <4> QED
        BY <1>0, <4>1, <4>3
    <3>4. IdsType' /\ {crash', repeated', wrapped'} \subseteq BOOLEAN
      BY <1>0, <2>1, <3>1, IdsStep
    <3> QED
      BY <1>0, <3>1, <3>2, <3>3, <3>4 DEF Types
  <2>2. CASE EnableAccount(n) \/ DeleteAccount(n)
    <3>1. UNCHANGED <<ids, list, session, kicking, clock, crash, raced>>
      BY <2>2 DEF EnableAccount, DeleteAccount
    <3>2. accounts' \subseteq [id : Ids, account : Names, disabled : BOOLEAN]
      <4>1. CASE DeleteAccount(n)
        BY <1>0, <4>1 DEF DeleteAccount
      <4>2. CASE EnableAccount(n)
        <5>1. accounts' = {IF a.account = n THEN [a EXCEPT !.disabled = FALSE] ELSE a : a \in accounts}
          BY <4>2 DEF EnableAccount, Enable
        <5>2. ASSUME NEW a \in accounts
              PROVE  (IF a.account = n THEN [a EXCEPT !.disabled = FALSE] ELSE a)
                       \in [id : Ids, account : Names, disabled : BOOLEAN]
          <6>1. a \in [id : Ids, account : Names, disabled : BOOLEAN]
            BY <1>0
          <6>2. [a EXCEPT !.disabled = FALSE] \in [id : Ids, account : Names, disabled : BOOLEAN]
            BY <6>1
          <6> QED
            BY <6>1, <6>2
        <5> QED
          BY <5>1, <5>2
      <4> QED
        BY <2>2, <4>1, <4>2
    <3> QED
      BY <1>0, <3>1, <3>2 DEF Types, IdsType, ListType, SessionType
  <2> QED
    BY <1>1, <2>1, <2>2
<1>2. ASSUME NEW key \in Addresses \cup Ids, Block(key), kicking' = kicking \cup {key},
             UNCHANGED <<accounts, ids, session, clock, crash, raced>>
      PROVE  Types'
  BY <1>0, <1>2, BlockEffect DEF Types, IdsType, SessionType
<1>3. ASSUME NEW target \in kicking, KickOut(target) PROVE Types'
  <2>1. \E S : session' = Close(S)
    BY <1>3 DEF KickOut
  <2>2. raced' \subseteq Connections /\ kicking' \subseteq kicking
          /\ UNCHANGED <<accounts, ids, list, clock, crash>>
    BY <1>0, <1>3 DEF KickOut, SessionType
  <2>3. SessionType'
    BY <2>1, <2>2, CloseType
  <2> QED
    BY <1>0, <2>2, <2>3 DEF Types, IdsType, ListType
<1>4. ASSUME NEW key \in DOMAIN statuses, Unblock(key) PROVE Types'
  BY <1>0, <1>4, RemoveEffect DEF Unblock, Types, IdsType, SessionType
<1>5. ASSUME Increases, UNCHANGED session \/ \E c \in Connections : session' = Close({c}),
             UNCHANGED <<accounts, ids, kicking, clock, crash, raced>>
      PROVE  Types'
  <2>1. ListType'
    BY <1>5, IncreaseEffect DEF Increases
  <2>2. SessionType'
    <3>1. CASE UNCHANGED session
      BY <1>0, <1>5, <3>1 DEF SessionType
    <3>2. CASE \E c \in Connections : session' = Close({c})
      BY <1>0, <1>5, <3>2, CloseType DEF SessionType
    <3> QED
      BY <1>5, <3>1, <3>2
  <2> QED
    BY <1>0, <1>5, <2>1, <2>2 DEF Types, IdsType
<1>6. ASSUME NEW c \in Connections,
             Connect(c) \/ Bind(c) \/ Leave(c) \/ Clean(c) \/ \E n \in Names : Login(c, n)
      PROVE  Types'
  <2>1. SessionType' /\ UNCHANGED <<accounts, ids, list, kicking, clock, crash>>
    BY <1>6, ConnectionSteps
  <2> QED
    BY <1>0, <2>1 DEF Types, IdsType, ListType
<1>7. ASSUME UNCHANGED <<accounts, ids, list, session, kicking, raced>>, crash' \in BOOLEAN,
             clock' = clock \/ (clock' = clock + 1 /\ clock < MaxClock)
      PROVE  Types'
  <2>1. clock' \in 1..MaxClock /\ clock' >= clock
    BY <1>0, <1>7, ParametersFacts
  <2>2. IdsType' /\ ListType' /\ SessionType'
    BY <1>0, <1>7, <2>1, ParametersFacts DEF IdsType, ListType, SessionType
  <2> QED
    BY <1>0, <1>7, <2>1, <2>2 DEF Types
<1> QED
  BY <1>1, <1>2, <1>3, <1>4, <1>5, <1>6, <1>7, NextCases

\* The types are an invariant.
LEMMA TypesInvariant == Spec => []Types
BY InitTypes, NextTypes, PTL DEF Spec

\* Every variable has its type.
THEOREM TypeCorrect == Spec => []TypeOK
<1>1. Types => TypeOK
  BY ParametersFacts DEF Types, IdsType, ListType, SessionType, Entry, TypeOK
<1> QED
  BY <1>1, TypesInvariant, PTL

-----------------------------------------------------------------------------
(* The ids. *)

\* i was issued not after the n-th id of the millisecond time.
NotAfter(i, time, n) == i[1] < time \/ (i[1] = time /\ i[2] <= n)

\* Unless the counter was exhausted, no id is after the time and the counter kept.
Remembered == ~wrapped => ~repeated /\ \A i \in issued : NotAfter(i, lastTime, counter)

\* Every step remembers the last id, or has exhausted the counter.
LEMMA NextRemembered == Types /\ Remembered /\ [Next]_vars => Remembered'
<1> SUFFICES ASSUME Types, Remembered, [Next]_vars PROVE Remembered'
  OBVIOUS
<1>1. ASSUME NEW n \in Names, AddAccount(n) PROVE Remembered'
  <2> SUFFICES ASSUME ~wrapped' PROVE ~repeated'
        /\ \A i \in issued' : NotAfter(i, lastTime', counter')
    BY DEF Remembered
  <2>0. /\ lastTime \in Nat /\ lastTime <= clock /\ counter \in Nat /\ clock \in Nat
        /\ \A i \in issued : i[1] \in Nat /\ i[2] \in Nat
    BY ParametersFacts DEF Types, IdsType, Ids
  <2>1. ~wrapped /\ ~(Generated.id[1] > Generated.time)
    BY <1>1 DEF AddAccount
  <2>2. ~repeated /\ \A i \in issued : NotAfter(i, lastTime, counter)
    BY <2>1 DEF Remembered
  <2>3. PICK t \in Nat, k \in Nat : /\ Generated = [id |-> <<t, k>>, time |-> t, counter |-> k]
                                    /\ t > lastTime \/ (t = lastTime /\ k > counter)
    <3>1. CASE clock > lastTime
      BY <2>0, <3>1 DEF Generated
    <3>2. CASE ~(clock > lastTime) /\ counter < MaxCounter
      <4>1. Generated = [id |-> <<lastTime, counter + 1>>, time |-> lastTime,
              counter |-> counter + 1]
        BY <3>2 DEF Generated
      <4> QED
        BY <2>0, <4>1
    <3>3. CASE ~(clock > lastTime) /\ ~(counter < MaxCounter)
      <4>1. Generated = [id |-> <<lastTime + 1, 0>>, time |-> lastTime, counter |-> 0]
        BY <3>3 DEF Generated
      <4> QED
        BY <2>0, <2>1, <4>1
    <3> QED
      BY <3>1, <3>2, <3>3
  <2>4. lastTime' = t /\ counter' = k /\ issued' = issued \cup {<<t, k>>}
        /\ repeated' = (repeated \/ <<t, k>> \in issued)
    BY <1>1, <2>3 DEF AddAccount
  <2>5. ASSUME NEW i \in issued PROVE i # <<t, k>> /\ NotAfter(i, t, k)
    BY <2>0, <2>2, <2>3 DEF NotAfter
  <2>6. NotAfter(<<t, k>>, t, k)
    BY DEF NotAfter
  <2> QED
    BY <2>2, <2>4, <2>5, <2>6
<1>2. CASE UNCHANGED ids
  BY <1>2 DEF ids, Remembered
<1>3. UNCHANGED ids \/ \E n \in Names : AddAccount(n)
  <2>1. ASSUME NEW c \in Connections,
               Connect(c) \/ Bind(c) \/ Leave(c) \/ Clean(c) \/ \E n \in Names : Login(c, n)
        PROVE  UNCHANGED ids
    BY <2>1, ConnectionSteps
  <2>2. ASSUME NEW n \in Names, AddAccount(n) \/ EnableAccount(n) \/ DeleteAccount(n)
        PROVE  UNCHANGED ids \/ AddAccount(n)
    BY <2>2 DEF EnableAccount, DeleteAccount
  <2>3. ASSUME NEW key, KickOut(key) \/ Unblock(key)
        PROVE  UNCHANGED ids
    BY <2>3 DEF KickOut, Unblock
  <2> QED
    BY <2>1, <2>2, <2>3, NextCases
<1> QED
  BY <1>1, <1>2, <1>3

\* However accounts are added and whatever the clock's granularity, no two get one id
\* unless the counter of a millisecond was exhausted.
THEOREM IdsAreDifferent == Spec => []IdsDiffer
<1>1. Init => Remembered
  BY DEF Init, Remembered
<1>2. Remembered => IdsDiffer
  BY DEF Remembered, IdsDiffer
<1> QED
  BY <1>1, <1>2, NextRemembered, TypesInvariant, PTL DEF Spec

-----------------------------------------------------------------------------
(* Who is blocked. *)

\* What can be blocked.
Targets == Addresses \cup Ids

\* A manager's block is what the list says, as long as nobody counts or removes over it.
BlockListed ==
  \A b \in blocks :
    /\ b.key \in DOMAIN statuses
    /\ statuses[b.key].blocked /\ statuses[b.key].until = b.until

\* A target under a manager's block whose users were kicked out.
Barred(k) == k \notin kicking /\ \E b \in blocks : b.key = k /\ b.until >= clock

\* What holds of a connection and a barred target. A login that was decided and not bound
\* when the users were kicked out is remembered: it will be bound later.
Apart(c, k) ==
  /\ session[c].pc \in {"decided", "in"} /\ session[c].open => peerIP[c] # k
  /\ session[c].pc = "decided" /\ session[c].id = k => c \in raced
  /\ session[c].pc = "in" /\ session[c].open /\ session[c].id = k => c \in raced

\* Nobody is in whom a barred target keeps out.
KeptOut == \A c \in Connections, k \in Targets : Barred(k) => Apart(c, k)

\* No new login passes a barred target.
LEMMA BarredNotAllowed ==
  ASSUME Types, BlockListed, NEW k \in Targets, Barred(k)
  PROVE  ~Allowed(k)
BY DEF BlockListed, Barred, Allowed, Known

\* A failure counted changes the end of a block or leaves the block.
LEMMA CountedKeeps ==
  ASSUME Types, NEW s \in Entry, s.blocked
  PROVE  Counted(s).blocked
<1> DEFINE m == IF s.mFor = Window(clock, Minute) THEN s.m + 1 ELSE 1
           h == IF s.hFor = Window(clock, Hour) THEN s.h + 1 ELSE 1
           u == IF h >= MaxFailures THEN clock + HourBlock
                ELSE IF m >= MaxFailures THEN clock + MinuteBlock ELSE s.until
<1>1. Counted(s) = [s EXCEPT !.m = m, !.mFor = Window(clock, Minute), !.h = h,
        !.hFor = Window(clock, Hour),
               !.blocked = @ \/ m >= MaxFailures \/ h >= MaxFailures, !.until = u]
  BY Zenon DEF Counted
<1> HIDE DEF m, h, u
<1> QED
  BY <1>1 DEF Entry

\* Every step keeps a manager's blocks in the list.
LEMMA NextBlockListed == Types /\ BlockListed /\ [Next]_vars => BlockListed'
<1> SUFFICES ASSUME Types, BlockListed, [Next]_vars PROVE BlockListed'
  OBVIOUS
<1> USE DEF list
<1>1. ASSUME NEW n \in Names, AddAccount(n) \/ EnableAccount(n) \/ DeleteAccount(n)
               PROVE BlockListed'
  BY <1>1 DEF AddAccount, EnableAccount, DeleteAccount, BlockListed
<1>2. ASSUME NEW key \in Addresses \cup Ids, Block(key) PROVE BlockListed'
  <2>1. blocks' = (blocks \ Of(key, blocks)) \cup {[key |-> key, until |-> clock + Duration]}
    BY <1>2 DEF Block
  <2>2. /\ DOMAIN statuses' = DOMAIN statuses \cup {key}
        /\ \A k \in DOMAIN statuses \ {key} : statuses'[k] = statuses[k]
        /\ statuses'[key].blocked /\ statuses'[key].until = clock + Duration
    BY <1>2, BlockEffect
  <2>3. ASSUME NEW b \in blocks \ Of(key, blocks) PROVE b.key # key
    BY <2>3 DEF Of
  <2> QED
    BY <2>1, <2>2, <2>3 DEF BlockListed
<1>3. ASSUME NEW target \in kicking, KickOut(target) PROVE BlockListed'
  BY <1>3 DEF KickOut, BlockListed
<1>4. ASSUME NEW key \in DOMAIN statuses, Unblock(key) PROVE BlockListed'
  BY <1>4, RemoveEffect DEF Unblock, Remove, Of, BlockListed
<1>5. ASSUME NEW key \in Addresses \cup Ids, NEW type \in {"ip", "account"},
         Increase(key, type)
               PROVE BlockListed'
  <2>1. /\ DOMAIN statuses' = DOMAIN statuses \cup {key}
        /\ \A k \in DOMAIN statuses \ {key} : statuses'[k] = statuses[k]
        /\ statuses'[key] = IF Known(key) THEN Counted(statuses[key]) ELSE NewEntry(type)
    BY <1>5, IncreaseEffect
  <2>2. blocks' = IF statuses'[key].until = (IF Known(key) THEN statuses[key].until ELSE 0)
                  THEN blocks ELSE blocks \ Of(key, blocks)
    BY <1>5 DEF Increase
  <2>3. ASSUME NEW b \in blocks' PROVE b.key \in DOMAIN statuses' /\ statuses'[b.key].blocked
                 /\ statuses'[b.key].until = b.until
    <3>1. b \in blocks /\ b.key \in DOMAIN statuses /\ statuses[b.key].blocked
            /\ statuses[b.key].until = b.until
      BY <2>2, <2>3 DEF BlockListed
    <3>2. CASE b.key # key
      BY <2>1, <3>1, <3>2
    <3>3. CASE b.key = key
      <4>1. Known(key) /\ b \in Of(key, blocks) /\ statuses[key] \in Entry
        BY <3>1, <3>3 DEF Known, Of, Types, ListType
      <4>2. statuses'[key].until = statuses[key].until
        BY <2>2, <2>3, <4>1
      <4>3. statuses'[key].blocked
        BY <2>1, <3>1, <3>3, <4>1, CountedKeeps
      <4> QED
        BY <2>1, <3>1, <3>3, <4>2, <4>3
    <3> QED
      BY <3>2, <3>3
  <2> QED
    BY <2>3 DEF BlockListed
<1>6. ASSUME NEW c \in Connections,
             Connect(c) \/ Bind(c) \/ Leave(c) \/ Clean(c) \/ \E n \in Names : Login(c, n)
      PROVE  BlockListed'
  BY <1>6, ConnectionSteps DEF BlockListed
<1>7. CASE UNCHANGED list
  BY <1>7 DEF BlockListed
<1> QED
  BY <1>1, <1>2, <1>3, <1>4, <1>5, <1>6, <1>7, NextCases DEF Increases

\* A target becomes barred when its users are kicked out, and not otherwise.
LEMMA BarredSteps ==
  ASSUME Types, BlockListed, [Next]_vars, NEW k \in Targets, Barred(k)'
  PROVE  Barred(k) \/ KickOut(k)
<1> USE DEF list
<1>0. clock \in Nat
  BY ParametersFacts DEF Types
<1>1. CASE \E key \in Addresses \cup Ids : Block(key) /\ kicking' = kicking \cup {key}
        /\ UNCHANGED clock
  <2>1. PICK key \in Addresses \cup Ids : Block(key) /\ kicking' = kicking \cup {key}
          /\ UNCHANGED clock
    BY <1>1
  <2>2. k # key
    BY <2>1 DEF Barred
  <2>3. blocks' = (blocks \ Of(key, blocks)) \cup {[key |-> key, until |-> clock + Duration]}
    BY <2>1 DEF Block
  <2>4. PICK b \in blocks' : b.key = k /\ b.until >= clock'
    BY DEF Barred
  <2>5. b \in blocks
    BY <2>2, <2>3, <2>4
  <2> QED
    BY <2>1, <2>4, <2>5 DEF Barred
<1>2. CASE \E target \in kicking : KickOut(target)
  <2>1. PICK target \in kicking : KickOut(target)
    BY <1>2
  <2>2. kicking' = kicking \ {target} /\ UNCHANGED <<blocks, clock>>
    BY <2>1 DEF KickOut
  <2> QED
    BY <2>1, <2>2 DEF Barred
<1>3. CASE blocks' \subseteq blocks /\ kicking' = kicking /\ clock' >= clock /\ clock' \in Nat
  <2>1. PICK b \in blocks' : b.key = k /\ b.until >= clock'
    BY DEF Barred
  <2>2. b \in blocks /\ b.until \in Nat
    BY <1>3, <2>1 DEF BlockListed, Types, ListType, Entry
  <2>3. b.until >= clock
    BY <1>0, <1>3, <2>1, <2>2
  <2> QED
    BY <1>3, <2>1, <2>2, <2>3 DEF Barred
<1>4. \/ \E key \in Addresses \cup Ids : Block(key) /\ kicking' = kicking \cup {key}
           /\ UNCHANGED clock
      \/ \E target \in kicking : KickOut(target)
      \/ blocks' \subseteq blocks /\ kicking' = kicking /\ clock' >= clock /\ clock' \in Nat
  <2>1. ASSUME NEW n \in Names, AddAccount(n) \/ EnableAccount(n) \/ DeleteAccount(n)
        PROVE  UNCHANGED <<blocks, kicking, clock>>
    BY <2>1 DEF AddAccount, EnableAccount, DeleteAccount
  <2>2. ASSUME NEW key \in DOMAIN statuses, Unblock(key)
        PROVE  blocks' \subseteq blocks /\ UNCHANGED <<kicking, clock>>
    BY <2>2 DEF Unblock, Remove
  <2>3. ASSUME Increases PROVE blocks' \subseteq blocks
    BY <2>3 DEF Increases, Increase
  <2>4. ASSUME NEW c \in Connections,
               Connect(c) \/ Bind(c) \/ Leave(c) \/ Clean(c) \/ \E n \in Names : Login(c, n)
        PROVE  UNCHANGED <<blocks, kicking, clock>>
    BY <2>4, ConnectionSteps
  <2> QED
    BY <1>0, <2>1, <2>2, <2>3, <2>4, NextCases
<1> QED
  BY <1>1, <1>2, <1>3, <1>4

\* A connection stays apart from what it is apart from, unless it is let in now.
LEMMA ApartSteps ==
  ASSUME Types, BlockListed, [Next]_vars, NEW c \in Connections, NEW k \in Targets,
         Barred(k), Apart(c, k)
  PROVE  Apart(c, k)'
<1>1. CASE session'[c].pc = session[c].pc /\ session'[c].id = session[c].id
           /\ (session'[c].open => session[c].open) /\ (c \in raced => c \in raced')
  BY <1>1 DEF Apart
<1>2. ASSUME NEW d \in Connections,
             Connect(d) \/ Bind(d) \/ Leave(d) \/ Clean(d) \/ \E n \in Names : Login(d, n)
      PROVE  Apart(c, k)'
  <2>1. CASE d # c
    BY <1>1, <1>2, <2>1, ConnectionSteps
  <2>2. CASE d = c /\ session'[c].pc \in {"none", "new"}
    BY <2>2 DEF Apart
  <2>3. CASE d = c /\ session'[c].id = session[c].id /\ (session'[c].open => session[c].open)
             /\ raced' = raced /\ (session'[c].pc = session[c].pc \/ session[c].pc = "decided")
    BY <2>3 DEF Apart
  <2>4. CASE d = c /\ Allowed(peerIP[c]) /\ Allowed(session'[c].id)
    BY <2>4, BarredNotAllowed DEF Apart
  <2> QED
    BY <1>2, <2>1, <2>2, <2>3, <2>4, ConnectionSteps
<1>3. ASSUME NEW S, session' = Close(S), raced \subseteq raced'
      PROVE  Apart(c, k)'
  <2>1. Close(S)[c].pc = session[c].pc /\ Close(S)[c].id = session[c].id
        /\ (Close(S)[c].open => session[c].open)
    BY CloseFacts
  <2> QED
    BY <1>1, <1>3, <2>1
<1>4. ASSUME NEW target, KickOut(target) PROVE Apart(c, k)'
  BY <1>4, <1>3 DEF KickOut
<1>5. ASSUME UNCHANGED <<session, raced>> PROVE Apart(c, k)'
  BY <1>1, <1>5
<1>6. ASSUME NEW n \in Names, AddAccount(n) \/ EnableAccount(n) \/ DeleteAccount(n)
      PROVE  UNCHANGED <<session, raced>>
  BY <1>6 DEF AddAccount, EnableAccount, DeleteAccount
<1>7. ASSUME NEW key \in DOMAIN statuses, Unblock(key) PROVE UNCHANGED <<session, raced>>
  BY <1>7 DEF Unblock
<1>8. ASSUME UNCHANGED raced, UNCHANGED session \/ \E d \in Connections : session' = Close({d})
      PROVE  Apart(c, k)'
  BY <1>3, <1>5, <1>8
<1> QED
  BY <1>2, <1>4, <1>5, <1>6, <1>7, <1>8, NextCases

\* The kick-out closes or remembers every connection of its target.
LEMMA KickOutApart ==
  ASSUME Types, NEW k, KickOut(k), NEW c \in Connections
  PROVE  Apart(c, k)'
<1> DEFINE S == {d \in Connections : peerIP[d] = k \/ (session[d].pc = "in" /\ session[d].id = k)}
<1>1. session' = Close(S) /\ raced' = raced \cup {d \in Connections : session[d].pc = "decided"
        /\ session[d].id = k}
  BY DEF KickOut
<1>2. Close(S)[c].pc = session[c].pc /\ Close(S)[c].id = session[c].id
      /\ (Close(S)[c].open => c \notin S)
  BY CloseFacts
<1> QED
  BY <1>1, <1>2 DEF Apart

\* Every step keeps them out.
LEMMA NextKeptOut == Types /\ BlockListed /\ KeptOut /\ [Next]_vars => KeptOut'
<1> SUFFICES ASSUME Types, BlockListed, KeptOut, [Next]_vars PROVE KeptOut'
  OBVIOUS
<1>1. ASSUME NEW c \in Connections, NEW k \in Targets, Barred(k)' PROVE Apart(c, k)'
  <2>1. CASE Barred(k)
    BY <2>1, ApartSteps DEF KeptOut
  <2>2. CASE KickOut(k)
    BY <2>2, KickOutApart
  <2> QED
    BY <1>1, <2>1, <2>2, BarredSteps
<1> QED
  BY <1>1 DEF KeptOut, Targets

\* While a manager's block lasts and its users were kicked out, nobody uses the address or,
\* but for the logins that raced the kick-out, the account.
THEOREM BlockedAreOut == Spec => []BlockedStaysOut
<1>1. Init => BlockListed /\ KeptOut
  BY DEF Init, BlockListed, KeptOut, Barred
<1>2. Types /\ BlockListed /\ KeptOut => BlockedStaysOut
  <2> SUFFICES ASSUME Types, BlockListed, KeptOut, NEW b \in blocks, b.until >= clock,
        b.key \notin kicking,
                      NEW c \in Connections, session[c].pc = "in", session[c].open
               PROVE  peerIP[c] # b.key /\ (session[c].id = b.key => c \in raced)
    BY DEF BlockedStaysOut
  <2>1. b.key \in Targets /\ Barred(b.key)
    BY DEF BlockListed, Types, ListType, Targets, Barred
  <2> QED
    BY <2>1 DEF KeptOut, Apart
<1> QED
  BY <1>1, <1>2, NextBlockListed, NextKeptOut, TypesInvariant, PTL DEF Spec

-----------------------------------------------------------------------------
(* How failures block. *)

\* A number is in the window that begins before it and ends after it, and in no other.
LEMMA QuotientUnique ==
  ASSUME NEW t \in Nat, NEW w \in Nat, w > 0, NEW a \in Nat, w * a <= t, t < w * a + w
  PROVE  t \div w = a
<1> DEFINE q == t \div w
<1>1. q \in Nat /\ w * q <= t /\ t < w * q + w
  OBVIOUS
<1> HIDE DEF q
<1>2. ASSUME q < a PROVE FALSE
  <2>1. w * (q + 1) <= w * a
    BY <1>1, <1>2
  <2> QED
    BY <1>1, <2>1
<1>3. ASSUME a < q PROVE FALSE
  <2>1. w * (a + 1) <= w * q
    BY <1>1, <1>3
  <2> QED
    BY <1>1, <2>1
<1> QED
  BY <1>1, <1>2, <1>3 DEF q

\* Windows of k widths are made of whole windows of one.
LEMMA QuotientNests ==
  ASSUME NEW t \in Nat, NEW w \in Nat, w > 0, NEW k \in Nat, k > 0
  PROVE  t \div (w * k) = (t \div w) \div k
<1> DEFINE q == t \div w
           a == q \div k
<1>1. q \in Nat /\ w * q <= t /\ t < w * q + w
  OBVIOUS
<1> HIDE DEF q
<1>2. a \in Nat /\ k * a <= q /\ q + 1 <= k * a + k
  BY <1>1
<1> HIDE DEF a
<1>3. w * (k * a) <= w * q /\ w * (q + 1) <= w * (k * a + k)
  BY <1>1, <1>2
<1>4. (w * k) * a <= t /\ t < (w * k) * a + (w * k) /\ w * k \in Nat /\ w * k > 0
  BY <1>1, <1>2, <1>3
<1>5. t \div (w * k) = a
  BY <1>2, <1>4, QuotientUnique
<1> QED
  BY <1>5 DEF a, q

\* A multiple of w is w times its quotient.
LEMMA WholeQuotient ==
  ASSUME NEW h \in Nat, NEW w \in Nat, w > 0, h % w = 0, h > 0
  PROVE  h \div w \in Nat /\ h \div w > 0 /\ h = w * (h \div w)
<1>1. h \div w \in Nat /\ h = w * (h \div w) + (h % w)
  OBVIOUS
<1>2. h = w * (h \div w)
  BY <1>1
<1>3. h \div w # 0
  BY <1>2
<1> QED
  BY <1>1, <1>2, <1>3

\* The windows of the code nest: what is in one minute's window is in one hour's.
LEMMA WindowsNest ==
  ASSUME NEW t \in Nat, NEW u \in Nat, Window(t, Minute) = Window(u, Minute)
  PROVE  Window(t, Hour) = Window(u, Hour)
<1> DEFINE k == Hour \div Minute
<1>1. k \in Nat /\ k > 0 /\ Hour = Minute * k
  BY ParametersFacts, ParametersOK, WholeQuotient
<1>2. Minute \in Nat /\ Minute > 0
  BY ParametersFacts
<1> HIDE DEF k
<1>3. t \div (Minute * k) = (t \div Minute) \div k /\ u \div (Minute * k) = (u \div Minute) \div k
  BY <1>1, <1>2, QuotientNests
<1> QED
  BY <1>1, <1>3 DEF Window

\* A window is a number.
LEMMA WindowType ==
  ASSUME NEW t \in Nat, NEW w \in Nat, w > 0
  PROVE  Window(t, w) \in Nat
BY DEF Window

\* Windows are in the order of time.
LEMMA WindowGrows ==
  ASSUME NEW t \in Nat, NEW u \in Nat, t <= u
  PROVE  Window(t, Hour) <= Window(u, Hour)
BY ParametersFacts DEF Window

\* The failures of a target in an hour's window, and those up to one of them.
InWindow(key, v) == {f \in Of(key, failures) : Window(f.time, Hour) = v}
Upto(key, f) == {g \in Of(key, failures) : Window(g.time, Hour) = Window(f.time, Hour)
                                         /\ g.no <= f.no}

\* The two counters of an entry belong to the windows of one moment, the hour's counts all
\* that the minute's does, and every failure of the hour.
Counts(key) ==
  LET s == statuses[key] IN
  /\ \E t \in 0..clock : s.mFor = Window(t, Minute) /\ s.hFor = Window(t, Hour)
  /\ s.m <= s.h
  /\ Cardinality(InWindow(key, s.hFor)) <= s.h
  /\ \A f \in Of(key, failures) : Window(f.time, Hour) <= s.hFor

\* Once there were too many failures in an hour, the target is blocked for an hour.
BlockedFor(key) ==
  \A f \in Of(key, failures) :
    Cardinality(Upto(key, f)) >= MaxFailures
      => statuses[key].blocked /\ statuses[key].until >= f.time + HourBlock

\* The end of a manager's block need not be an hour away.
ByManager(key) == key \in {b.key : b \in blocks}

\* The list's entries count the failures, and block for them.
Counting ==
  /\ IsFiniteSet(failures)
  /\ \A f \in failures : f.key \in DOMAIN statuses /\ f.time \in 0..clock
  /\ \A key \in DOMAIN statuses : Counts(key) /\ (~ByManager(key) => BlockedFor(key))

\* What an entry has of a failure more.
LEMMA CountedFacts ==
  ASSUME Types, NEW s \in Entry
  PROVE  LET r == Counted(s) IN
         /\ r.mFor = Window(clock, Minute) /\ r.hFor = Window(clock, Hour)
         /\ r.m = IF s.mFor = Window(clock, Minute) THEN s.m + 1 ELSE 1
         /\ r.h = IF s.hFor = Window(clock, Hour) THEN s.h + 1 ELSE 1
         /\ r.h >= MaxFailures => r.blocked /\ r.until = clock + HourBlock
         /\ r.h < MaxFailures /\ r.m < MaxFailures => r.blocked = s.blocked /\ r.until = s.until
<1> DEFINE m == IF s.mFor = Window(clock, Minute) THEN s.m + 1 ELSE 1
           h == IF s.hFor = Window(clock, Hour) THEN s.h + 1 ELSE 1
           u == IF h >= MaxFailures THEN clock + HourBlock
                ELSE IF m >= MaxFailures THEN clock + MinuteBlock ELSE s.until
           b == s.blocked \/ m >= MaxFailures \/ h >= MaxFailures
<1>1. Counted(s) = [s EXCEPT !.m = m, !.mFor = Window(clock, Minute), !.h = h,
        !.hFor = Window(clock, Hour),
               !.blocked = b, !.until = u]
  BY Zenon DEF Counted
<1>2. s.m \in Nat /\ s.h \in Nat /\ s.blocked \in BOOLEAN /\ MaxFailures \in Nat
  BY ParametersFacts DEF Entry
<1>3. m \in Nat /\ h \in Nat
  BY <1>2
<1>4. h >= MaxFailures => b = TRUE /\ u = clock + HourBlock
  BY Zenon
<1>5. h < MaxFailures /\ m < MaxFailures => ~(h >= MaxFailures) /\ ~(m >= MaxFailures)
  BY <1>2, <1>3
<1>6. ~(h >= MaxFailures) /\ ~(m >= MaxFailures) => b = s.blocked /\ u = s.until
  <2>1. ~(h >= MaxFailures) /\ ~(m >= MaxFailures) => u = s.until
    BY Zenon
  <2>2. ~(h >= MaxFailures) /\ ~(m >= MaxFailures) => b = s.blocked
    BY <1>2, Zenon
  <2> QED
    BY <2>1, <2>2
<1>7. m = (IF s.mFor = Window(clock, Minute) THEN s.m + 1 ELSE 1)
      /\ h = (IF s.hFor = Window(clock, Hour) THEN s.h + 1 ELSE 1)
  OBVIOUS
<1> HIDE DEF m, h, u, b
<1>8. /\ Counted(s).mFor = Window(clock, Minute) /\ Counted(s).hFor = Window(clock, Hour)
      /\ Counted(s).m = m /\ Counted(s).h = h /\ Counted(s).blocked = b /\ Counted(s).until = u
  BY <1>1 DEF Entry
<1> QED
  BY <1>4, <1>5, <1>6, <1>7, <1>8

\* What the failures of a target satisfy does not depend on the others'.
LEMMA OthersCount ==
  ASSUME Types, NEW key, Of(key, failures') = Of(key, failures), statuses'[key] = statuses[key],
         clock' \in Nat, clock' >= clock
  PROVE  /\ Counts(key) => Counts(key)'
         /\ BlockedFor(key) => BlockedFor(key)'
<1>0. clock \in Nat
  BY ParametersFacts DEF Types
<1>1. (\A v : InWindow(key, v)' = InWindow(key, v)) /\ \A f : Upto(key, f)' = Upto(key, f)
  BY DEF InWindow, Upto
<1>2. ASSUME Counts(key) PROVE Counts(key)'
  <2>1. \E t \in 0..clock' : statuses[key].mFor = Window(t, Minute)
          /\ statuses[key].hFor = Window(t, Hour)
    BY <1>0, <1>2 DEF Counts
  <2>2. PICK s : s = statuses[key]
    OBVIOUS
  <2>3. InWindow(key, s.hFor)' = InWindow(key, s.hFor)
    BY <1>1
  <2> QED
    BY <1>2, <2>1, <2>2, <2>3 DEF Counts
<1>3. ASSUME BlockedFor(key) PROVE BlockedFor(key)'
  BY <1>1, <1>3 DEF BlockedFor
<1> QED
  BY <1>2, <1>3

\* increase counts a failure more, and blocks at the limit.
LEMMA IncreaseCounting ==
  ASSUME Types, Counting, NEW key \in Targets, NEW type \in {"ip", "account"},
         Increase(key, type), UNCHANGED clock
  PROVE  Counting'
<1>0. /\ clock \in Nat /\ MaxFailures \in Nat /\ MaxFailures >= 2 /\ HourBlock \in Nat
      /\ clock' = clock /\ Window(clock, Hour) \in Nat
  BY ParametersFacts, WindowType DEF Types
<1>now. PICK now \in Nat : now = Window(clock, Hour)
  BY <1>0
<1>new. PICK new : new = [key |-> key, time |-> clock, no |-> Cardinality(Of(key, failures))]
  OBVIOUS
<1>1. /\ DOMAIN statuses' = DOMAIN statuses \cup {key}
      /\ \A k \in DOMAIN statuses \ {key} : statuses'[k] = statuses[k]
      /\ statuses'[key] = IF Known(key) THEN Counted(statuses[key]) ELSE NewEntry(type)
      /\ statuses'[key] \in Entry
  BY IncreaseEffect DEF Targets, ListType
<1>2. failures' = failures \cup {new}
  BY <1>new DEF Increase
<1>3. blocks' = IF statuses'[key].until = (IF Known(key) THEN statuses[key].until ELSE 0)
                THEN blocks ELSE blocks \ Of(key, blocks)
  BY DEF Increase
<1>4. new.key = key /\ new.time = clock
  BY <1>new
<1>5. IsFiniteSet(failures')
  BY <1>2, FS_AddElement DEF Counting
<1>6. \A f \in failures' : f.key \in DOMAIN statuses' /\ f.time \in 0..clock'
  BY <1>0, <1>1, <1>2, <1>4 DEF Counting
<1>7. Of(key, failures') = Of(key, failures) \cup {new} /\ \A k : k # key
        => Of(k, failures') = Of(k, failures)
  BY <1>2, <1>4 DEF Of
<1>8. ASSUME NEW k \in DOMAIN statuses', k # key
      PROVE  Counts(k)' /\ (~ByManager(k)' => BlockedFor(k)')
  <2>1. k \in DOMAIN statuses /\ statuses'[k] = statuses[k] /\ Of(k, failures') = Of(k, failures)
    BY <1>1, <1>7, <1>8
  <2>2. ByManager(k) => ByManager(k)'
    BY <1>3, <1>8 DEF ByManager, Of
  <2> QED
    BY <1>0, <2>1, <2>2, OthersCount DEF Counting
<1> DEFINE s == statuses'[key]
           W == InWindow(key, now)
<1>9. /\ s.mFor = Window(clock, Minute) /\ s.hFor = now /\ s.m \in Nat /\ s.h \in Nat
           /\ s.m <= s.h
      /\ Cardinality(W \cup {new}) <= s.h
      /\ \A f \in Of(key, failures) : Window(f.time, Hour) <= now
  <2>0. s.m \in Nat /\ s.h \in Nat
    BY <1>1 DEF Entry
  <2>1. IsFiniteSet(W)
    <3>1. W \in SUBSET failures
      BY DEF InWindow, Of
    <3> QED
      BY <3>1, FS_Subset DEF Counting
  <2>2. Cardinality(W) \in Nat /\ Cardinality(W \cup {new}) <= Cardinality(W) + 1
        /\ Cardinality(W \cup {new}) \in Nat
    <3>1. Cardinality(W) \in Nat
      BY <2>1, FS_CardinalityType
    <3>2. Cardinality(W \cup {new}) = IF new \in W THEN Cardinality(W) ELSE Cardinality(W) + 1
      BY <2>1, FS_AddElement
    <3> QED
      BY <3>1, <3>2
  <2>3. \A f \in Of(key, failures) : Window(f.time, Hour) <= now
    BY <1>now, <1>0, WindowGrows DEF Counting, Of
  <2>4. CASE ~Known(key)
    <3>1. Of(key, failures) = {}
      BY <2>4 DEF Counting, Known, Of
    <3>2. W = {}
      BY <3>1 DEF InWindow
    <3>3. Cardinality(W) = 0
      BY <3>2, FS_EmptySet
    <3>4. s = NewEntry(type)
      BY <1>1, <2>4
    <3>5. s.mFor = Window(clock, Minute) /\ s.hFor = now /\ s.m = 1 /\ s.h = 1
      BY <1>now, <3>4 DEF NewEntry
    <3> QED
      BY <2>2, <2>3, <3>3, <3>5
  <2>5. CASE Known(key)
    <3> DEFINE o == statuses[key]
    <3>1. o \in Entry /\ Counts(key) /\ s = Counted(o)
      BY <1>1, <2>5 DEF Types, ListType, Known, Counting
    <3>2. /\ o.m \in Nat /\ o.h \in Nat /\ o.m <= o.h /\ o.m >= 1 /\ o.h >= 1
          /\ Cardinality(InWindow(key, o.hFor)) <= o.h
          /\ \A f \in Of(key, failures) : Window(f.time, Hour) <= o.hFor
      BY <3>1 DEF Counts, Entry
    <3>3. PICK t \in 0..clock : o.mFor = Window(t, Minute) /\ o.hFor = Window(t, Hour)
      BY <3>1 DEF Counts
    <3>4. o.hFor \in Nat /\ o.hFor <= now
      BY <1>now, <1>0, <3>3, WindowGrows, WindowType, ParametersFacts
    <3>5. /\ s.mFor = Window(clock, Minute) /\ s.hFor = now
          /\ s.m = IF o.mFor = Window(clock, Minute) THEN o.m + 1 ELSE 1
          /\ s.h = IF o.hFor = now THEN o.h + 1 ELSE 1
      BY <1>now, <3>1, CountedFacts
    <3>6. o.mFor = Window(clock, Minute) => o.hFor = now
      <4>1. t \in Nat
        BY <1>0
      <4> QED
        BY <1>now, <1>0, <3>3, <4>1, WindowsNest
    <3>7. s.m <= s.h
      BY <3>2, <3>5, <3>6
    <3>8. o.hFor # now => W = {}
      <4>1. ASSUME o.hFor # now, NEW f \in W PROVE FALSE
        <5>1. f \in Of(key, failures) /\ Window(f.time, Hour) = now
          BY <4>1 DEF InWindow
        <5> QED
          BY <1>0, <3>2, <3>4, <4>1, <5>1
      <4> QED
        BY <4>1
    <3>9. o.hFor # now => Cardinality(W) = 0
      BY <3>8, FS_EmptySet
    <3>10. Cardinality(W \cup {new}) <= s.h
      <4>1. CASE o.hFor = now
        <5>1. Cardinality(W) <= o.h
          BY <3>2, <4>1
        <5>2. s.h = o.h + 1
          BY <3>5, <4>1
        <5> HIDE DEF W, s, o
        <5> QED
          BY <2>2, <3>2, <5>1, <5>2
      <4>2. CASE o.hFor # now
        <5>1. s.h = 1
          BY <3>5, <4>2
        <5> HIDE DEF W, s, o
        <5> QED
          BY <2>2, <3>9, <4>2, <5>1
      <4> QED
        BY <4>1, <4>2
    <3> QED
      BY <2>0, <2>3, <3>5, <3>7, <3>10
  <2> QED
    BY <2>4, <2>5
<1>10. InWindow(key, now)' = W \cup {new} 
  <2>1. InWindow(key, now)' = {f \in Of(key, failures') : Window(f.time, Hour) = now}
    BY <1>now, <1>0 DEF InWindow
  <2>2. Window(new.time, Hour) = now
    BY <1>now, <1>4
  <2> QED
    BY <1>7, <2>1, <2>2 DEF InWindow
<1>11. Counts(key)'
  BY <1>now, <1>0, <1>4, <1>7, <1>9, <1>10 DEF Counts
<1>12. ASSUME ~ByManager(key)' PROVE BlockedFor(key)'
  <2> SUFFICES ASSUME NEW f \in Of(key, failures'), Cardinality(Upto(key, f)') >= MaxFailures
               PROVE  s.blocked /\ s.until >= f.time + HourBlock
    BY DEF BlockedFor
  <2>1. f.time \in 0..clock
    BY <1>0, <1>6 DEF Of
  <2>2. CASE s.h >= MaxFailures
    <3>1. Known(key)
      BY <1>0, <1>1, <2>2 DEF NewEntry
    <3>2. statuses[key] \in Entry /\ s = Counted(statuses[key])
      BY <1>1, <3>1 DEF Types, ListType, Known
    <3>3. s.blocked /\ s.until = clock + HourBlock
      BY <2>2, <3>2, CountedFacts
    <3> QED
      BY <1>0, <2>1, <3>3
  <2>3. CASE ~(s.h >= MaxFailures)
    <3>1. s.h < MaxFailures /\ s.m < MaxFailures
      BY <1>0, <1>9, <2>3
    <3>2. CASE Window(f.time, Hour) = now
      <4>1. Upto(key, f)' \in SUBSET (W \cup {new})
        BY <1>10, <3>2 DEF Upto, InWindow
      <4>2. IsFiniteSet(W \cup {new})
        <5>1. InWindow(key, now)' \in SUBSET failures'
          BY DEF InWindow, Of
        <5> QED
          BY <1>5, <1>10, <5>1, FS_Subset
      <4>3. Cardinality(Upto(key, f)') <= Cardinality(W \cup {new})
            /\ Cardinality(Upto(key, f)') \in Nat /\ Cardinality(W \cup {new}) \in Nat
        BY <4>1, <4>2, FS_Subset, FS_CardinalityType
      <4> QED
        BY <1>0, <1>9, <3>1, <4>3
    <3>3. CASE Window(f.time, Hour) # now
      <4>1. f # new /\ Window(new.time, Hour) = now
        BY <1>now, <1>4, <3>3
      <4>2. f \in Of(key, failures) /\ Known(key)
        BY <1>7, <4>1 DEF Counting, Known, Of
      <4>3. Upto(key, f)' = Upto(key, f)
        BY <1>7, <3>3, <4>1 DEF Upto
      <4>4. statuses[key] \in Entry /\ s = Counted(statuses[key])
        BY <1>1, <4>2 DEF Types, ListType, Known
      <4>5. s.blocked = statuses[key].blocked /\ s.until = statuses[key].until
        BY <3>1, <4>4, CountedFacts
      <4>6. ~ByManager(key)
        BY <1>3, <1>12, <4>2, <4>5 DEF ByManager
      <4>7. BlockedFor(key)
        BY <4>2, <4>6 DEF Counting, Known
      <4> QED
        BY <4>2, <4>3, <4>5, <4>7 DEF BlockedFor
    <3> QED
      BY <3>2, <3>3
  <2> QED
    BY <2>2, <2>3
<1> QED
  BY <1>5, <1>6, <1>8, <1>11, <1>12 DEF Counting

\* A manager's block takes the target from the failures' rule, and keeps the counters.
LEMMA BlockCounting ==
  ASSUME Types, Counting, NEW key \in Targets, Block(key), UNCHANGED clock
  PROVE  Counting'
<1>0. clock \in Nat /\ clock' = clock /\ Window(clock, Hour) \in Nat
  BY ParametersFacts, WindowType DEF Types
<1>1. /\ DOMAIN statuses' = DOMAIN statuses \cup {key}
      /\ \A k \in DOMAIN statuses \ {key} : statuses'[k] = statuses[k]
      /\ statuses'[key].m = IF Known(key) THEN statuses[key].m ELSE 1
      /\ statuses'[key].mFor = IF Known(key) THEN statuses[key].mFor ELSE Window(clock, Minute)
      /\ statuses'[key].h = IF Known(key) THEN statuses[key].h ELSE 1
      /\ statuses'[key].hFor = IF Known(key) THEN statuses[key].hFor ELSE Window(clock, Hour)
  BY BlockEffect DEF Targets
<1>2. failures' = failures /\ ByManager(key)'
      /\ \A k \in DOMAIN statuses \ {key} : ByManager(k) => ByManager(k)'
  <2>1. failures' = failures
        /\ blocks' = (blocks \ Of(key, blocks)) \cup {[key |-> key, until |-> clock + Duration]}
    BY DEF Block
  <2>2. ByManager(key)'
    <3>1. PICK b : b = [key |-> key, until |-> clock + Duration]
      OBVIOUS
    <3>2. b \in blocks' /\ b.key = key
      BY <2>1, <3>1
    <3> QED
      BY <3>2 DEF ByManager
  <2>3. ASSUME NEW k \in DOMAIN statuses \ {key}, ByManager(k) PROVE ByManager(k)'
    <3>1. PICK b \in blocks : b.key = k
      BY <2>3 DEF ByManager
    <3>2. b \in blocks'
      BY <2>1, <3>1 DEF Of
    <3> QED
      BY <3>1, <3>2 DEF ByManager
  <2> QED
    BY <2>1, <2>2, <2>3
<1>3. IsFiniteSet(failures') /\ \A f \in failures' : f.key \in DOMAIN statuses'
        /\ f.time \in 0..clock'
  BY <1>0, <1>1, <1>2 DEF Counting
<1>4. ASSUME NEW k \in DOMAIN statuses', k # key
      PROVE  Counts(k)' /\ (~ByManager(k)' => BlockedFor(k)')
  <2>1. k \in DOMAIN statuses /\ statuses'[k] = statuses[k] /\ Of(k, failures') = Of(k, failures)
    BY <1>1, <1>2, <1>4
  <2> QED
    BY <1>0, <1>2, <1>4, <2>1, OthersCount DEF Counting
<1>5. Counts(key)'
  <2>1. CASE Known(key)
    <3>1. Counts(key)
      BY <2>1 DEF Counting, Known
    <3> QED
      BY <1>0, <1>1, <1>2, <2>1, <3>1 DEF Counts, InWindow
  <2>2. CASE ~Known(key)
    <3>1. Of(key, failures') = {}
      BY <1>2, <2>2 DEF Counting, Known, Of
    <3>2. PICK v : v = statuses'[key].hFor
      OBVIOUS
    <3>3. Cardinality(InWindow(key, v)') = 0
      BY <3>1, FS_EmptySet DEF InWindow
    <3> QED
      BY <1>0, <1>1, <2>2, <3>1, <3>2, <3>3 DEF Counts
  <2> QED
    BY <2>1, <2>2
<1> QED
  BY <1>2, <1>3, <1>4, <1>5 DEF Counting

\* remove forgets the failures with the entry.
LEMMA RemoveCounting ==
  ASSUME Types, Counting, NEW key, Remove(key), UNCHANGED clock
  PROVE  Counting'
<1>0. clock \in Nat /\ clock' = clock
  BY ParametersFacts DEF Types
<1>1. DOMAIN statuses' = DOMAIN statuses \ {key}
        /\ \A k \in DOMAIN statuses' : statuses'[k] = statuses[k]
  BY RemoveEffect
<1>2. failures' = failures \ Of(key, failures) /\ blocks' = blocks \ Of(key, blocks)
  BY DEF Remove
<1>3. IsFiniteSet(failures')
  <2>1. failures' \in SUBSET failures
    BY <1>2
  <2> QED
    BY <2>1, FS_Subset DEF Counting
<1>4. \A f \in failures' : f.key \in DOMAIN statuses' /\ f.time \in 0..clock'
  BY <1>0, <1>1, <1>2 DEF Counting, Of
<1>5. ASSUME NEW k \in DOMAIN statuses'
      PROVE  Counts(k)' /\ (~ByManager(k)' => BlockedFor(k)')
  <2>1. k \in DOMAIN statuses /\ k # key /\ statuses'[k] = statuses[k]
          /\ Of(k, failures') = Of(k, failures)
    BY <1>1, <1>2, <1>5 DEF Of
  <2>2. ByManager(k) => ByManager(k)'
    BY <1>2, <2>1 DEF ByManager, Of
  <2> QED
    BY <1>0, <2>1, <2>2, OthersCount DEF Counting
<1> QED
  BY <1>3, <1>4, <1>5 DEF Counting

\* Every step counts.
LEMMA NextCounting == Types /\ Counting /\ [Next]_vars => Counting'
<1> SUFFICES ASSUME Types, Counting, [Next]_vars PROVE Counting'
  OBVIOUS
<1>0. clock \in Nat
  BY ParametersFacts DEF Types
<1>1. ASSUME UNCHANGED list, clock' = clock \/ clock' = clock + 1 PROVE Counting'
  <2>1. clock' \in Nat /\ clock' >= clock /\ UNCHANGED <<statuses, failures, blocks>>
    BY <1>0, <1>1 DEF list
  <2>2. ASSUME NEW k \in DOMAIN statuses' PROVE Counts(k)' /\ (~ByManager(k)' => BlockedFor(k)')
    <3>1. k \in DOMAIN statuses /\ statuses'[k] = statuses[k]
            /\ Of(k, failures') = Of(k, failures)
      BY <2>1, <2>2
    <3>2. ByManager(k) => ByManager(k)'
      BY <2>1 DEF ByManager
    <3> QED
      BY <2>1, <3>1, <3>2, OthersCount DEF Counting
  <2> QED
    BY <1>0, <2>1, <2>2 DEF Counting
<1>2. ASSUME NEW n \in Names, AddAccount(n) \/ EnableAccount(n) \/ DeleteAccount(n)
      PROVE  UNCHANGED <<list, clock>>
  BY <1>2 DEF AddAccount, EnableAccount, DeleteAccount
<1>3. ASSUME NEW target, KickOut(target) PROVE UNCHANGED <<list, clock>>
  BY <1>3 DEF KickOut
<1>4. ASSUME NEW key \in DOMAIN statuses, Unblock(key) PROVE Counting'
  BY <1>4, RemoveCounting DEF Unblock
<1>5. ASSUME NEW c \in Connections,
             Connect(c) \/ Bind(c) \/ Leave(c) \/ Clean(c) \/ \E n \in Names : Login(c, n)
      PROVE  UNCHANGED <<list, clock>>
  BY <1>5, ConnectionSteps
<1>6. ASSUME Increases, UNCHANGED clock PROVE Counting'
  BY <1>6, IncreaseCounting DEF Increases, Targets
<1>7. ASSUME NEW key \in Addresses \cup Ids, Block(key), UNCHANGED clock PROVE Counting'
  BY <1>7, BlockCounting DEF Targets
<1> QED
  BY <1>1, <1>2, <1>3, <1>4, <1>5, <1>6, <1>7, NextCases

\* As many failures as allowed in an hour block their target for an hour from the last one,
\* however many targets, windows, expired blocks and removals there are: the hour's counter
\* is never behind the failures of the hour or behind the minute's.
THEOREM FailuresDoBlock == Spec => []FailuresBlock
<1>1. Init => Counting
  <2> SUFFICES ASSUME Init PROVE Counting
    OBVIOUS
  <2>1. failures = {} /\ DOMAIN statuses = {}
    BY DEF Init, None
  <2> QED
    BY <2>1, FS_EmptySet DEF Counting
<1>2. Counting => FailuresBlock
  BY DEF Counting, FailuresBlock, ByManager, BlockedFor, Upto
<1> QED
  BY <1>1, <1>2, NextCounting, TypesInvariant, PTL DEF Spec
=============================================================================
