------------------------- MODULE ServerRoomsProofs -------------------------
(***************************************************************************)
(* For any accounts, guards, visitors and kinds, and whether or not guards *)
(* of an account overlap: a room has an owner that is not cleaned up, an   *)
(* account views a screen or files once, ghosts come late, and an assert   *)
(* fails only after a login has failed.  For one guard connection per      *)
(* account at a time (~Overlap) also: the asserts hold, a guard that has   *)
(* gone leaves no viewer connected, the owner of a screen is told exactly  *)
(* whether it has viewers, and only a late consent leaves a terminal open. *)
(*                                                                         *)
(* The invariants build on each other: Types; Owning, who may own a room;  *)
(* Answering, whom a task asked and which room a consent is for; Viewing,  *)
(* whose target a viewer's room is; Keeping, the rooms a guard takes for   *)
(* granted; Single, which holds of a guard that is alone; Cleaning; and    *)
(* Tended.                                                                 *)
(***************************************************************************)
EXTENDS ServerRooms, TLAPS

-----------------------------------------------------------------------------
\* Types, and whom a handler inside handleResponse serves.

Handling ==
  \A g \in Guards :
    /\ pc[g] \in {"answer", "add"} => serving[g] \in Visitors
    /\ pc[g] \notin {"answer", "add"} => serving[g] = None
    /\ pc[g] = "add" => found[g] \in Guards

Types == TypeOK /\ Handling

Status == [Connections -> {"open", "closing", "gone"}]
Rooms  == [Kinds -> [Accounts -> Guards \cup {None}]]
Viewers == [Kinds -> [Guards -> SUBSET Visitors]]

\* The value of a function of functions after one of its places has changed.
LEMMA Put2 ==
  ASSUME NEW K, NEW A, NEW V, NEW f \in [K -> [A -> V]], NEW k \in K, NEW a \in A, NEW x \in V
  PROVE  /\ [f EXCEPT ![k][a] = x] \in [K -> [A -> V]]
         /\ \A l \in K, b \in A : [f EXCEPT ![k][a] = x][l][b] = IF l = k /\ b = a THEN x ELSE f[l][b]
OBVIOUS

\* What the roles say of the connections and their kinds.
LEMMA Constants ==
  /\ \A g \in Guards : g \in Connections /\ g \notin Visitors /\ accountOf[g] \in Accounts /\ kindsOf[g] \subseteq Kinds
  /\ \A v \in Visitors : v \in Connections /\ v \notin Guards /\ accountOf[v] \in Accounts /\ kindOf[v] \in Kinds
  /\ None \notin Guards /\ None \notin Visitors /\ None \notin Accounts
BY Roles DEF Connections

\* The next kind a login or a clean-up goes through is one of those left.
LEMMA FirstIn ==
  ASSUME NEW S \in SUBSET Kinds, S # {}
  PROVE  First(S) \in S /\ First(S) \in Kinds
BY DEF First, Kinds

\* disconnect() only closes what is open.
LEMMA Closing ==
  ASSUME TypeOK, NEW C
  PROVE  /\ Disconnected(C) \in Status
         /\ \A c \in Connections : /\ Disconnected(C)[c] = "gone" <=> status[c] = "gone"
                                   /\ Disconnected(C)[c] = "open" => status[c] = "open" /\ c \notin C
BY DEF TypeOK, Disconnected, Status

\* What a look-up of a room finds: a guard, or nothing.
LEMMA Lookup ==
  ASSUME TypeOK
  PROVE  /\ \A g \in Guards, k \in Kinds : RoomOf(k, g) \in Guards \cup {None}
         /\ \A v \in Visitors : /\ RoomFor(v) \in Guards \cup {None}
                                /\ RoomFor(v) # None => /\ target[v] \in Accounts
                                                        /\ RoomFor(v) = rooms[kindOf[v]][target[v]]
BY Constants DEF TypeOK, RoomOf, RoomFor

\* What the actions do to the tables.
Puts(k, a, x) ==
  rooms' \in Rooms /\ \A l \in Kinds, b \in Accounts : rooms'[l][b] = IF l = k /\ b = a THEN x ELSE rooms[l][b]
Sets(k, g, S) ==
  viewers' \in Viewers /\ \A l \in Kinds, h \in Guards : viewers'[l][h] = IF l = k /\ h = g THEN S ELSE viewers[l][h]
Closes(C) ==
  /\ status' \in Status
  /\ \A c \in Connections : /\ status'[c] = "gone" <=> status[c] = "gone"
                            /\ status'[c] = "open" => status[c] = "open" /\ c \notin C

\* createRoom makes a room where there was none, or the login is rolled back.
LEMMA Creates ==
  ASSUME TypeOK, NEW g \in Guards, CreateRoom(g)
  PROVE  /\ pc[g] = "create" /\ left[g] # {}
         /\ \/ pc' = [pc EXCEPT ![g] = "rollback"] /\ left' = [left EXCEPT ![g] = Kinds] /\ rooms' = rooms
               /\ \E k \in left[g] : RoomOf(k, g) # None
            \/ \E k \in left[g] : /\ RoomOf(k, g) = None /\ Puts(k, accountOf[g], g)
                                  /\ left' = [left EXCEPT ![g] = @ \ {k}] /\ pc' = pc
<1> DEFINE k == First(left[g])
<1>1. pc[g] = "create" /\ left[g] # {} /\ left[g] \in SUBSET Kinds
  BY DEF CreateRoom, TypeOK
<1>2. k \in left[g] /\ k \in Kinds
  BY <1>1, FirstIn
<1> HIDE DEF k
<1>3. CASE RoomOf(k, g) = None
  <2>1. rooms' = [rooms EXCEPT ![k][accountOf[g]] = g] /\ left' = [left EXCEPT ![g] = @ \ {k}] /\ pc' = pc
    BY <1>3 DEF CreateRoom, k
  <2>2. rooms \in [Kinds -> [Accounts -> Guards \cup {None}]]
    BY DEF TypeOK
  <2>3. Puts(k, accountOf[g], g)
    BY <1>2, <2>1, <2>2, Put2, Constants DEF Puts, Rooms
  <2> QED BY <1>1, <1>2, <1>3, <2>1, <2>3
<1>4. CASE RoomOf(k, g) # None
  BY <1>1, <1>2, <1>4 DEF CreateRoom, k
<1> QED BY <1>3, <1>4

\* removeRoom: the account has no room of the kind, and its viewers are closed.
LEMMA Removes ==
  ASSUME TypeOK, NEW g \in Guards, NEW k \in Kinds, RemoveRoom(k, g)
  PROVE  /\ Puts(k, accountOf[g], None) /\ left' = [left EXCEPT ![g] = @ \ {k}]
         /\ rooms' \in Rooms /\ left' \in [Guards -> SUBSET Kinds] /\ status' \in Status
         /\ RoomOf(k, g) = None => Closes({})
         /\ RoomOf(k, g) # None => Closes(viewers[k][RoomOf(k, g)])
<1>1. rooms \in [Kinds -> [Accounts -> Guards \cup {None}]]
  BY DEF TypeOK
<1>2. Puts(k, accountOf[g], None)
  BY <1>1, Put2, Constants DEF RemoveRoom, Puts, Rooms
<1>3. left' = [left EXCEPT ![g] = @ \ {k}]
  BY DEF RemoveRoom
<1>4. status' = Disconnected(IF RoomOf(k, g) = None THEN {} ELSE viewers[k][RoomOf(k, g)])
  BY DEF RemoveRoom
<1>5. left' \in [Guards -> SUBSET Kinds]
  BY <1>3 DEF TypeOK
<1>6. rooms' \in Rooms
  BY <1>2 DEF Puts
<1> QED BY <1>2, <1>3, <1>4, <1>5, <1>6, Closing DEF Closes

\* handleResponse adds the visitor it serves to the room it has found, or finds its account in it.
LEMMA Adds ==
  ASSUME Types, NEW g \in Guards, AddViewer(g)
  PROVE  /\ pc[g] = "add" /\ pc' = [pc EXCEPT ![g] = "idle"] /\ serving[g] \in Visitors /\ found[g] \in Guards
         /\ serving' = [serving EXCEPT ![g] = None] /\ found' = [found EXCEPT ![g] = None]
         /\ \/ /\ Admits(kindOf[serving[g]], found[g], serving[g])
               /\ Sets(kindOf[serving[g]], found[g], viewers[kindOf[serving[g]]][found[g]] \cup {serving[g]})
               /\ autoPub' = IF kindOf[serving[g]] = "screen" /\ viewers["screen"][found[g]] = {}
                             THEN [autoPub EXCEPT ![found[g]] = TRUE] ELSE autoPub
               /\ late' = IF status[serving[g]] = "gone" THEN late \cup {serving[g]} ELSE late
            \/ /\ ~Admits(kindOf[serving[g]], found[g], serving[g])
               /\ viewers' = viewers /\ autoPub' = autoPub /\ late' = late
<1> DEFINE v == serving[g]
           k == kindOf[v]
           h == found[g]
<1>1. pc[g] = "add" /\ pc' = [pc EXCEPT ![g] = "idle"]
  BY DEF AddViewer, Goto
<1>2. v \in Visitors /\ h \in Guards /\ k \in Kinds
  BY <1>1, Constants DEF Types, Handling
<1>3. viewers \in [Kinds -> [Guards -> SUBSET Visitors]]
  BY DEF Types, TypeOK
<1>4. CASE Admits(k, h, v)
  <2>1. viewers' = [viewers EXCEPT ![k][h] = @ \cup {v}]
    BY <1>4 DEF AddViewer
  <2>2. viewers[k][h] \cup {v} \in SUBSET Visitors
    BY <1>2, <1>3
  <2>3. viewers' = [viewers EXCEPT ![k][h] = viewers[k][h] \cup {v}]
    BY <1>2, <1>3, <2>1
  <2>4. Sets(k, h, viewers[k][h] \cup {v})
    BY <1>2, <1>3, <2>2, <2>3, Put2 DEF Sets, Viewers
  <2> QED BY <1>1, <1>2, <1>4, <2>4 DEF AddViewer
<1>5. CASE ~Admits(k, h, v)
  BY <1>1, <1>2, <1>5 DEF AddViewer
<1> QED BY <1>4, <1>5

\* A visitor that is cleaned up leaves the room of its target, or there is none.
LEMMA Leaves ==
  ASSUME TypeOK, NEW v \in Visitors, CleanVisitor(v)
  PROVE  /\ status[v] = "closing" /\ v \in bound
         /\ \/ /\ RoomFor(v) = None /\ status' = [status EXCEPT ![v] = "gone"]
               /\ UNCHANGED <<viewers, autoPub, terminal, fault>>
            \/ \E g \in Guards :
                 /\ g = RoomFor(v) /\ target[v] \in Accounts /\ g = rooms[kindOf[v]][target[v]]
                 /\ Sets(kindOf[v], g, viewers[kindOf[v]][g] \ {v})
                 /\ \/ /\ status' = [status EXCEPT ![v] = "gone"] /\ fault' = fault
                       /\ autoPub' = IF kindOf[v] = "screen" /\ viewers["screen"][g] \subseteq {v}
                                     THEN [autoPub EXCEPT ![g] = FALSE] ELSE autoPub
                       /\ terminal' = IF kindOf[v] = "terminal" /\ v \in viewers["terminal"][g]
                                      THEN [terminal EXCEPT ![v] = "closed"] ELSE terminal
                    \/ /\ g \notin bound /\ kindOf[v] = "screen" /\ fault' = "null_cipher"
                       /\ UNCHANGED <<status, autoPub, terminal>>
<1> DEFINE k == kindOf[v]
           g == RoomFor(v)
<1>1. status[v] = "closing" /\ v \in bound
  BY DEF CleanVisitor, Served
<1>2. CASE g = None
  BY <1>1, <1>2 DEF CleanVisitor
<1>3. CASE g # None
  <2>1. g \in Guards /\ k \in Kinds /\ target[v] \in Accounts /\ g = rooms[k][target[v]]
    BY <1>3, Constants, Lookup
  <2>2. viewers \in [Kinds -> [Guards -> SUBSET Visitors]]
    BY DEF TypeOK
  <2>3. viewers' = [viewers EXCEPT ![k][g] = @ \ {v}]
    BY <1>3 DEF CleanVisitor
  <2>4. viewers' = [viewers EXCEPT ![k][g] = viewers[k][g] \ {v}] /\ viewers[k][g] \ {v} \in SUBSET Visitors
    BY <2>1, <2>2, <2>3
  <2>5. Sets(k, g, viewers[k][g] \ {v})
    BY <2>1, <2>2, <2>4, Put2 DEF Sets, Viewers
  <2>6. \/ /\ status' = [status EXCEPT ![v] = "gone"] /\ fault' = fault
           /\ autoPub' = IF k = "screen" /\ viewers["screen"][g] \subseteq {v}
                         THEN [autoPub EXCEPT ![g] = FALSE] ELSE autoPub
           /\ terminal' = IF k = "terminal" /\ v \in viewers["terminal"][g]
                          THEN [terminal EXCEPT ![v] = "closed"] ELSE terminal
        \/ /\ g \notin bound /\ k = "screen" /\ fault' = "null_cipher"
           /\ UNCHANGED <<status, autoPub, terminal>>
    BY <1>3 DEF CleanVisitor
  <2> QED BY <1>1, <2>1, <2>5, <2>6
<1> QED BY <1>2, <1>3

\* A guard's RequestLogin keeps the types.
LEMMA TypedLogin ==
  ASSUME Types, NEW g \in Guards, LoginStep(g) \/ LoginGuard(g)
  PROVE  Types'
<1> USE DEF Types
<1>0. g \in Connections /\ kindsOf[g] \subseteq Kinds
  BY Constants
<1>1. CASE CreateRoom(g)
  <2>1. rooms' \in Rooms /\ left' \in [Guards -> SUBSET Kinds] /\ pc' \in [Connections -> Points]
    <3>1. rooms' \in Rooms
      BY <1>1, Creates DEF Puts, TypeOK, Rooms
    <3>2. pc' \in [Connections -> Points]
      BY <1>0, <1>1, Creates DEF TypeOK, Points
    <3>3. left' \in [Guards -> SUBSET Kinds]
      <4>1. \E S \in SUBSET Kinds : left' = [left EXCEPT ![g] = S]
        <5>1. left[g] \in SUBSET Kinds
          BY DEF TypeOK
        <5>2. \/ left' = [left EXCEPT ![g] = Kinds]
              \/ \E k \in left[g] : left' = [left EXCEPT ![g] = @ \ {k}]
          BY <1>1, Creates
        <5>3. ASSUME NEW k \in left[g], left' = [left EXCEPT ![g] = @ \ {k}]
              PROVE  left' = [left EXCEPT ![g] = left[g] \ {k}] /\ left[g] \ {k} \in SUBSET Kinds
          BY <5>1, <5>3
        <5> QED BY <5>2, <5>3
      <4> QED BY <4>1 DEF TypeOK
    <3> QED BY <3>1, <3>2, <3>3
  <2>2. UNCHANGED <<status, bound, viewers, autoPub, visit, answer, terminal, late, fault>>
    BY <1>1 DEF CreateRoom
  <2>3. TypeOK'
    BY <2>1, <2>2 DEF TypeOK, Rooms, visit, answer, task
  <2>4. pc[g] = "create" /\ (pc' = pc \/ pc' = [pc EXCEPT ![g] = "rollback"])
    BY <1>1, Creates
  <2>5. Handling'
    BY <1>0, <2>2, <2>4, Constants DEF Handling, answer, TypeOK
  <2> QED BY <2>3, <2>5
<1>2. CASE Rollback(g)
  <2>1. CASE left[g] # {} /\ RemoveRoom(First(left[g]), g)
    <3>1. First(left[g]) \in Kinds
      BY <2>1, FirstIn DEF TypeOK
    <3>2. rooms' \in Rooms /\ left' \in [Guards -> SUBSET Kinds] /\ status' \in Status
      BY <2>1, <3>1, Removes
    <3>3. UNCHANGED <<pc, bound, viewers, autoPub, visit, answer, terminal, late, fault>>
      BY <1>2, <2>1 DEF Rollback, Goto
    <3> QED BY <3>2, <3>3 DEF TypeOK, Rooms, Status, visit, answer, task, Handling
  <2>2. CASE left[g] = {} /\ Goto(g, "rollback", "failed") /\ UNCHANGED <<status, left, rooms>>
    <3>1. pc[g] = "rollback" /\ pc' = [pc EXCEPT ![g] = "failed"]
      BY <2>2 DEF Goto
    <3>2. UNCHANGED <<bound, viewers, autoPub, visit, answer, terminal, late, fault>>
      BY <1>2 DEF Rollback
    <3>3. TypeOK'
      BY <1>0, <2>2, <3>1, <3>2 DEF TypeOK, Points, visit, answer, task
    <3>4. Handling'
      BY <1>0, <3>1, <3>2, Constants DEF Handling, answer, TypeOK
    <3> QED BY <3>3, <3>4
  <2> QED BY <1>2, <2>1, <2>2 DEF Rollback
<1>3. CASE Bind(g) \/ LoginGuard(g)
  <2>1. /\ left' \in [Guards -> SUBSET Kinds] /\ bound' \subseteq Connections
        /\ \E p \in {"idle", "create"} : pc' = [pc EXCEPT ![g] = p]
        /\ pc[g] \in {"new", "create"}
    BY <1>0, <1>3 DEF Bind, LoginGuard, Goto, TypeOK
  <2>2. UNCHANGED <<status, share, visit, answer, terminal, late, fault>>
    BY <1>3 DEF Bind, LoginGuard
  <2>3. TypeOK'
    BY <1>0, <2>1, <2>2 DEF TypeOK, Points, share, visit, answer, task
  <2>4. Handling'
    BY <1>0, <2>1, <2>2, Constants DEF Handling, answer, TypeOK
  <2> QED BY <2>3, <2>4
<1> QED BY <1>1, <1>2, <1>3 DEF LoginStep

\* handleResponse keeps the types.
LEMMA TypedAnswer ==
  ASSUME Types, NEW g \in Guards, AnswerStep(g)
  PROVE  Types'
<1> USE DEF Types
<1>0. g \in Connections
  BY Constants
<1>1. CASE FindRoom(g)
  <2>1. RoomFor(serving[g]) # None => RoomFor(serving[g]) \in Guards
    BY <1>1, Lookup DEF FindRoom, Handling
  <2>2. /\ pc' \in [Connections -> Points] /\ fault' \in Faults /\ found' \in [Guards -> Guards \cup {None}]
        /\ (pc' = pc /\ found' = found) \/ (pc' = [pc EXCEPT ![g] = "add"] /\ \E h \in Guards : found' = [found EXCEPT ![g] = h])
        /\ pc[g] = "answer"
    BY <1>0, <1>1, <2>1 DEF FindRoom, Goto, TypeOK, Points, Faults
  <2>3. UNCHANGED <<status, bound, left, share, visit, serving, terminal, late>>
    BY <1>1 DEF FindRoom
  <2>4. TypeOK'
    BY <2>2, <2>3 DEF TypeOK, share, visit, task
  <2>5. Handling'
    BY <1>0, <2>2, <2>3, Constants DEF Handling, TypeOK
  <2> QED BY <2>4, <2>5
<1>2. CASE AddViewer(g)
  <2>1. /\ pc[g] = "add" /\ pc' = [pc EXCEPT ![g] = "idle"] /\ serving[g] \in Visitors /\ found[g] \in Guards
        /\ serving' = [serving EXCEPT ![g] = None] /\ found' = [found EXCEPT ![g] = None]
    BY <1>2, Adds
  <2>2. viewers' \in Viewers /\ late' \subseteq Visitors /\ autoPub' \in [Guards -> BOOLEAN]
    <3>1. viewers' \in Viewers
      BY <1>2, Adds DEF Sets, TypeOK, Viewers
    <3>2. late' \subseteq Visitors
      <4>1. late' = late \/ late' = late \cup {serving[g]}
        BY <1>2, Adds
      <4> QED BY <2>1, <4>1 DEF TypeOK
    <3>3. autoPub' = autoPub \/ autoPub' = [autoPub EXCEPT ![found[g]] = TRUE]
      BY <1>2, Adds
    <3> QED BY <3>1, <3>2, <3>3 DEF TypeOK
  <2>3. dispatched' = dispatched /\ asked' = asked /\ outcome' \in [Visitors -> Seq(Visit!Outcomes)]
    <3>1. outcome' = [outcome EXCEPT ![serving[g]] = <<"answered">>] /\ UNCHANGED <<dispatched, asked>>
      BY <1>2 DEF AddViewer, Visit!Settle
    <3>2. <<"answered">> \in Seq(Visit!Outcomes)
      BY DEF Visit!Outcomes
    <3> QED BY <3>1, <3>2 DEF TypeOK
  <2>4. UNCHANGED <<status, bound, left, rooms, target, partner, terminal, fault>>
    BY <1>2 DEF AddViewer
  <2>5. TypeOK'
    BY <1>0, <2>1, <2>2, <2>3, <2>4 DEF TypeOK, Points, Viewers
  <2>6. Handling'
    BY <1>0, <2>1, Constants DEF Handling, TypeOK
  <2> QED BY <2>5, <2>6
<1> QED BY <1>1, <1>2 DEF AnswerStep

\* CleanUserConnection keeps the types.
LEMMA TypedClean ==
  ASSUME Types, NEW c \in Connections, CleanStep(c)
  PROVE  Types'
<1> USE DEF Types
<1>1. CASE CleanUnbound(c) \/ CleanGuardEnd(c)
  <2>1. status' = [status EXCEPT ![c] = "gone"] /\ UNCHANGED <<login, share, visit, answer, terminal, late, fault>>
    BY <1>1 DEF CleanUnbound, CleanGuardEnd
  <2> QED BY <2>1 DEF TypeOK, Handling, login, share, visit, answer, task
<1>2. CASE c \in Guards /\ CleanGuard(c)
  <2>1. pc[c] = "idle" /\ pc' = [pc EXCEPT ![c] = "clean"] /\ left' = [left EXCEPT ![c] = kindsOf[c]]
          /\ UNCHANGED <<status, bound, share, visit, answer, terminal, late, fault>>
    BY <1>2 DEF CleanGuard, Goto
  <2>2. TypeOK'
    BY <1>2, <2>1, Constants DEF TypeOK, Points, share, visit, answer, task
  <2>3. Handling'
    BY <1>2, <2>1, Constants DEF Handling, TypeOK, answer
  <2> QED BY <2>2, <2>3
<1>3. CASE c \in Guards /\ CleanRoom(c)
  <2>1. UNCHANGED <<pc, bound, viewers, autoPub, visit, answer, terminal, late>>
    BY <1>3 DEF CleanRoom
  <2>2. CASE fault' = "clean_assert" /\ UNCHANGED <<status, rooms, left>>
    BY <2>1, <2>2 DEF TypeOK, Faults, Handling, visit, answer, task
  <2>3. CASE left[c] # {} /\ RemoveRoom(First(left[c]), c) /\ UNCHANGED fault
    <3>1. First(left[c]) \in Kinds
      BY <1>3, <2>3, FirstIn DEF TypeOK
    <3>2. rooms' \in Rooms /\ left' \in [Guards -> SUBSET Kinds] /\ status' \in Status
      BY <1>3, <2>3, <3>1, Removes
    <3> QED BY <2>1, <2>3, <3>2 DEF TypeOK, Rooms, Status, visit, answer, task, Handling
  <2> QED BY <1>3, <2>2, <2>3 DEF CleanRoom
<1>4. CASE c \in Visitors /\ CleanVisitor(c)
  <2>1. UNCHANGED <<login, rooms, visit, answer, late>>
    BY <1>4 DEF CleanVisitor
  <2>2. /\ viewers' \in Viewers /\ status' \in Status /\ autoPub' \in [Guards -> BOOLEAN] /\ fault' \in Faults
        /\ terminal' \in [Visitors -> {"none", "open", "closed"}]
    <3>1. viewers' \in Viewers
      BY <1>4, Leaves DEF Sets, TypeOK, Viewers
    <3>2. status' = status \/ status' = [status EXCEPT ![c] = "gone"]
      BY <1>4, Leaves
    <3>3. autoPub' = autoPub \/ \E g \in Guards : autoPub' = [autoPub EXCEPT ![g] = FALSE]
      BY <1>4, Leaves
    <3>4. fault' = fault \/ fault' = "null_cipher"
      BY <1>4, Leaves
    <3>5. terminal' = terminal \/ terminal' = [terminal EXCEPT ![c] = "closed"]
      BY <1>4, Leaves
    <3> QED BY <3>1, <3>2, <3>3, <3>4, <3>5 DEF TypeOK, Status, Faults
  <2> QED BY <2>1, <2>2 DEF TypeOK, Viewers, Status, Handling, login, visit, answer, task
<1> QED BY <1>1, <1>2, <1>3, <1>4 DEF CleanStep

\* A visitor's requests and the threads of Task::Manager keep the types.
LEMMA TypedVisit ==
  ASSUME Types, NEW v \in Visitors, Execute(v) \/ Timeout(v) \/ LoginVisitor(v) \/ RequestVisit(v) \/ FileRequest(v)
  PROVE  Types'
<1> USE DEF Types
<1>0. v \in Connections /\ v \notin Guards
  BY Constants
<1>1. ASSUME NEW o \in Visit!Outcomes, Visit!Settle(v, o)
      PROVE  outcome' \in [Visitors -> Seq(Visit!Outcomes)] /\ UNCHANGED <<dispatched, asked>>
  <2>1. outcome' = [outcome EXCEPT ![v] = <<o>>] /\ UNCHANGED <<dispatched, asked>>
    BY <1>1 DEF Visit!Settle
  <2> QED BY <2>1 DEF TypeOK
<1>2. "unreachable" \in Visit!Outcomes /\ "timeout" \in Visit!Outcomes
  BY DEF Visit!Outcomes
<1>3. CASE Execute(v)
  <2>1. UNCHANGED <<status, login, share, target, answer, terminal, late>>
    BY <1>3 DEF Execute
  <2>2. CASE Visit!Settle(v, "unreachable") /\ UNCHANGED <<partner, fault>>
    BY <1>1, <1>2, <2>1, <2>2 DEF TypeOK, Handling, login, share, answer
  <2>3. CASE RoomFor(v) # None /\ Visit!Ask(v) /\ partner' = [partner EXCEPT ![v] = RoomFor(v)] /\ UNCHANGED fault
    <3>1. partner' \in [Visitors -> Guards \cup {None}]
      BY <2>3, Lookup DEF TypeOK
    <3>2. dispatched' = dispatched /\ outcome' = outcome /\ asked' = asked \cup {v}
      BY <2>3 DEF Visit!Ask
    <3> QED BY <2>1, <2>3, <3>1, <3>2 DEF TypeOK, Handling, login, share, answer
  <2>4. CASE fault' = "null_cipher" /\ UNCHANGED <<task, partner>>
    BY <2>1, <2>4 DEF TypeOK, Faults, Handling, login, share, answer, task
  <2> QED BY <1>3, <2>2, <2>3, <2>4 DEF Execute
<1>4. CASE Timeout(v)
  <2>1. UNCHANGED <<status, login, share, target, partner, answer, terminal, late, fault>> /\ Visit!Settle(v, "timeout")
    BY <1>4 DEF Timeout
  <2> QED BY <1>1, <1>2, <2>1 DEF TypeOK, Handling, login, share, answer
<1>5. CASE LoginVisitor(v)
  <2>1. pc' = [pc EXCEPT ![v] = "idle"] /\ bound' = bound \cup {v}
          /\ UNCHANGED <<status, left, share, visit, answer, terminal, late, fault>>
    BY <1>5 DEF LoginVisitor, Goto
  <2>2. TypeOK'
    BY <1>0, <2>1 DEF TypeOK, Points, share, visit, answer, task
  <2>3. Handling'
    BY <1>0, <2>1, Constants DEF Handling, TypeOK, answer
  <2> QED BY <2>2, <2>3
<1>6. CASE RequestVisit(v)
  <2>1. /\ \E a \in Accounts : target' = [target EXCEPT ![v] = a]
        /\ dispatched' = dispatched \cup {v} /\ UNCHANGED <<asked, outcome>>
        /\ UNCHANGED <<status, login, share, partner, answer, terminal, late, fault>>
    BY <1>6 DEF RequestVisit, Visit!Begin
  <2> QED BY <2>1 DEF TypeOK, Handling, login, share, answer
<1>7. CASE FileRequest(v)
  <2>1. fault' \in Faults /\ UNCHANGED <<status, login, share, visit, answer, terminal, late>>
    BY <1>7 DEF FileRequest, Faults
  <2> QED BY <2>1 DEF TypeOK, Handling, login, share, visit, answer, task
<1> QED BY <1>3, <1>4, <1>5, <1>6, <1>7

\* A guard's requests and responses keep the types.
LEMMA TypedGuard ==
  ASSUME Types, NEW g \in Guards,
         \/ GuardFileRequest(g) \/ Kickout(g) \/ \E k \in Kinds : Publish(g, k)
         \/ \E v \in Visitors : RespondLate(g, v) \/ Refuse(g, v) \/ Consent(g, v)
  PROVE  Types'
<1> USE DEF Types
<1>0. g \in Connections
  BY Constants
<1>1. CASE GuardFileRequest(g) \/ \E k \in Kinds : Publish(g, k)
  <2>1. fault' \in Faults /\ UNCHANGED <<status, login, share, visit, answer, terminal, late>>
    BY <1>1 DEF GuardFileRequest, Publish, Faults
  <2> QED BY <2>1 DEF TypeOK, Handling, login, share, visit, answer, task
<1>2. CASE Kickout(g)
  <2>1. status' \in Status /\ UNCHANGED <<login, share, visit, answer, terminal, late, fault>>
    BY <1>2, Closing DEF Kickout
  <2> QED BY <2>1 DEF TypeOK, Status, Handling, login, share, visit, answer, task
<1>3. ASSUME NEW v \in Visitors, RespondLate(g, v) PROVE Types'
  <2>1. terminal' = [terminal EXCEPT ![v] = "closed"] /\ UNCHANGED <<status, login, share, visit, answer, late, fault>>
    BY <1>3 DEF RespondLate
  <2> QED BY <2>1 DEF TypeOK, Handling, login, share, visit, answer, task
<1>4. ASSUME NEW v \in Visitors, Refuse(g, v) PROVE Types'
  <2>1. /\ \E o \in Visit!Outcomes : outcome' = [outcome EXCEPT ![v] = <<o>>]
        /\ UNCHANGED <<dispatched, asked>>
        /\ UNCHANGED <<status, login, share, target, partner, answer, terminal, late, fault>>
    BY <1>4 DEF Refuse, Visit!Settle, Visit!Outcomes
  <2> QED BY <2>1 DEF TypeOK, Handling, login, share, answer
<1>5. ASSUME NEW v \in Visitors, Consent(g, v) PROVE Types'
  <2>1. /\ pc[g] = "idle" /\ pc' = [pc EXCEPT ![g] = "answer"] /\ serving' = [serving EXCEPT ![g] = v]
        /\ terminal' \in [Visitors -> {"none", "open", "closed"}]
        /\ UNCHANGED <<status, bound, left, share, visit, found, late, fault>>
    BY <1>5 DEF Consent, Served, TypeOK
  <2>2. TypeOK'
    BY <1>0, <2>1 DEF TypeOK, Points, share, visit, task
  <2>3. Handling'
    BY <1>0, <2>1, Constants DEF Handling, TypeOK
  <2> QED BY <2>2, <2>3
<1> QED BY <1>1, <1>2, <1>3, <1>4, <1>5

\* Every step keeps the types.
LEMMA TypedNext ==
  ASSUME Types, Next
  PROVE  Types'
<1>1. CASE ServerStep
  BY <1>1, TypedLogin, TypedAnswer, TypedClean, TypedVisit DEF ServerStep
<1>2. ASSUME NEW c \in Connections, Disconnect(c) PROVE Types'
  <2>1. status' \in Status /\ UNCHANGED <<login, share, visit, answer, terminal, late, fault>>
    BY <1>2, Closing DEF Disconnect, Types
  <2> QED BY <2>1 DEF Types, TypeOK, Status, Handling, login, share, visit, answer, task
<1>3. CASE ClientStep
  BY <1>2, <1>3, TypedLogin, TypedVisit, TypedGuard DEF ClientStep
<1>4. CASE UNCHANGED vars
  BY <1>4 DEF vars, Types, TypeOK, Handling, login, share, visit, answer, task
<1> QED BY <1>1, <1>3, <1>4 DEF Next, Terminated

\* Types in every reachable state.
LEMMA Typed == Spec => []Types
<1>1. Init => Types
  <2>1. Init => TypeOK
    BY Constants DEF Init, TypeOK, Visit!AInit, Points, Faults, Kinds
  <2> QED BY <2>1, Constants DEF Init, Types, Handling
<1>2. ASSUME Types, UNCHANGED vars PROVE Types'
  BY <1>2 DEF vars, Types, TypeOK, Handling, login, share, visit, answer, task
<1> QED BY <1>1, <1>2, TypedNext, PTL DEF Spec

\* Every variable has its type, in every order of logins, visits and clean-ups.
THEOREM TypeCorrect == Spec => []TypeOK
BY Typed, PTL DEF Types

-----------------------------------------------------------------------------
\* Who owns which room.

\* g owns the room of kind k of its account.
Owns(g, k) == rooms[k][accountOf[g]] = g

\* Has g got past making its room of kind k?
Opened(g, k) == k \in kindsOf[g] /\ pc[g] # "new" /\ (pc[g] = "create" => k \notin left[g])

\* What g owns it has opened, and its rollback or clean-up has still to remove.
OwningAt(g) ==
  /\ g \in bound <=> pc[g] \in {"idle", "answer", "add", "clean"}
  /\ status[g] = "gone" => pc[g] \in {"new", "failed"} \/ (pc[g] = "clean" /\ left[g] = {})
  /\ pc[g] = "create" => left[g] \subseteq kindsOf[g]
  /\ \A k \in Kinds : Owns(g, k) =>
       /\ Opened(g, k) /\ pc[g] # "failed"
       /\ pc[g] \in {"rollback", "clean"} => k \in left[g]

\* The owner of an account's room is a guard of that account.
Placed == \A k \in Kinds, a \in Accounts : rooms[k][a] # None => accountOf[rooms[k][a]] = a

Owning == Placed /\ \A g \in Guards : OwningAt(g)

\* Nothing of g that Owning is about moves.
Rests(g) == /\ pc'[g] = pc[g] /\ left'[g] = left[g] /\ (g \in bound' <=> g \in bound)
            /\ status'[g] = "gone" => status[g] = "gone"

\* A step that moves no guard and no room keeps Owning.
LEMMA OwningRests ==
  ASSUME Owning, rooms' = rooms,
         \A g \in Guards : Rests(g)
  PROVE  Owning'
<1> USE DEF Rests
<1>1. Placed'
  BY DEF Owning, Placed
<1>2. ASSUME NEW g \in Guards PROVE OwningAt(g)'
  BY DEF Owning, OwningAt, Owns, Opened
<1> QED BY <1>1, <1>2 DEF Owning

\* A step of the handlers of g that leaves the rooms alone.
LEMMA OwningMoves ==
  ASSUME Types, Owning, NEW g \in Guards, rooms' = rooms, OwningAt(g)',
         \A h \in Guards \ {g} : Rests(h)
  PROVE  Owning'
<1> USE DEF Rests
<1>1. Placed'
  BY DEF Owning, Placed
<1>2. ASSUME NEW h \in Guards PROVE OwningAt(h)'
  <2>1. CASE h = g
    BY <2>1
  <2>2. CASE h # g
    BY <2>2 DEF Owning, OwningAt, Owns, Opened
  <2> QED BY <2>1, <2>2
<1> QED BY <1>1, <1>2 DEF Owning

\* A room of g's account goes: no owner but the one it had notices.
LEMMA OwningRemoved ==
  ASSUME Types, Owning, NEW g \in Guards, NEW k \in Kinds, k \in left[g], RemoveRoom(k, g),
         pc[g] \in {"rollback", "clean"}, pc' = pc, bound' = bound
  PROVE  Owning'
<1>1. Puts(k, accountOf[g], None) /\ left' = [left EXCEPT ![g] = @ \ {k}] /\ left \in [Guards -> SUBSET Kinds]
        /\ \A c \in Connections : status'[c] = "gone" <=> status[c] = "gone"
  BY Removes DEF Types, TypeOK, Closes
<1>2. Placed'
  BY <1>1, Constants DEF Owning, Placed, Puts
<1>3. ASSUME NEW h \in Guards PROVE OwningAt(h)'
  <2>1. h \in Connections /\ accountOf[h] \in Accounts /\ h # None /\ accountOf[g] \in Accounts
    BY Constants
  <2>2. \A l \in Kinds : Owns(h, l)' => Owns(h, l) /\ (h = g => l # k)
    BY <1>1, <2>1 DEF Owns, Puts
  <2>3. OwningAt(h)
    BY DEF Owning
  <2>4. left'[h] = IF h = g THEN left[h] \ {k} ELSE left[h]
    BY <1>1
  <2>5. (h \in bound <=> h \in bound') /\ pc'[h] = pc[h] /\ (status'[h] = "gone" <=> status[h] = "gone")
    BY <1>1, <2>1
  <2>6. h = g => pc[h] \in {"rollback", "clean"} /\ k \in left[h]
    OBVIOUS
  <2>7. \A l \in Kinds : Owns(h, l)' => /\ Opened(h, l)' /\ pc'[h] # "failed"
                                        /\ pc'[h] \in {"rollback", "clean"} => l \in left'[h]
    BY <2>2, <2>3, <2>4, <2>5, <2>6 DEF OwningAt, Opened
  <2> QED BY <2>3, <2>4, <2>5, <2>6, <2>7 DEF OwningAt
<1> QED BY <1>2, <1>3 DEF Owning

\* RequestLogin: a room is made by a guard that has yet to make it.
LEMMA OwningLogin ==
  ASSUME Types, Owning, NEW g \in Guards, LoginStep(g) \/ LoginGuard(g)
  PROVE  Owning'
<1>0. g \in Connections /\ accountOf[g] \in Accounts /\ g # None /\ kindsOf[g] \subseteq Kinds
        /\ pc \in [Connections -> Points] /\ left \in [Guards -> SUBSET Kinds] /\ bound \subseteq Connections
        /\ \A h \in Guards : h \in Connections
  BY Constants DEF Types, TypeOK
<1>a. OwningAt(g)
  BY DEF Owning
<1>1. CASE CreateRoom(g)
  <2>0. status' = status /\ bound' = bound /\ pc[g] = "create"
    BY <1>1 DEF CreateRoom
  <2>1. CASE pc' = [pc EXCEPT ![g] = "rollback"] /\ left' = [left EXCEPT ![g] = Kinds] /\ rooms' = rooms
    <3>1. OwningAt(g)'
      BY <1>0, <1>a, <2>0, <2>1 DEF OwningAt, Owns, Opened
    <3> QED BY <1>0, <2>0, <2>1, <3>1, OwningMoves DEF Rests
  <2>2. ASSUME NEW k \in left[g], RoomOf(k, g) = None, Puts(k, accountOf[g], g),
               left' = [left EXCEPT ![g] = @ \ {k}], pc' = pc
        PROVE  Owning'
    <3>1. k \in Kinds
      BY <1>0
    <3>2. Placed'
      BY <1>0, <2>2, <3>1 DEF Owning, Placed, Puts
    <3>3. ASSUME NEW h \in Guards PROVE OwningAt(h)'
      <4>0. accountOf[h] \in Accounts
        BY Constants
      <4>1. \A l \in Kinds : Owns(h, l)' => Owns(h, l) \/ (h = g /\ l = k)
        BY <1>0, <2>2, <3>1, <4>0 DEF Owns, Puts
      <4>2. left'[h] = IF h = g THEN left[h] \ {k} ELSE left[h]
        BY <1>0, <2>2
      <4>3. OwningAt(h)
        BY DEF Owning
      <4>4. h = g => pc[h] = "create" /\ k \in kindsOf[h]
        BY <1>a, <2>0, <2>2 DEF OwningAt
      <4>5. \A l \in Kinds : Owns(h, l)' => /\ Opened(h, l)' /\ pc'[h] # "failed"
                                            /\ pc'[h] \in {"rollback", "clean"} => l \in left'[h]
        BY <2>2, <4>1, <4>2, <4>3, <4>4 DEF OwningAt, Opened
      <4> QED BY <2>0, <2>2, <4>2, <4>3, <4>4, <4>5 DEF OwningAt
    <3> QED BY <3>2, <3>3 DEF Owning
  <2> QED BY <1>1, <2>1, <2>2, Creates DEF Types
<1>2. CASE Rollback(g)
  <2>1. CASE left[g] # {} /\ RemoveRoom(First(left[g]), g) /\ pc' = pc
    <3>1. First(left[g]) \in left[g] /\ First(left[g]) \in Kinds /\ pc[g] = "rollback" /\ bound' = bound
      BY <1>0, <1>2, <2>1, FirstIn DEF Rollback
    <3> QED BY <2>1, <3>1, OwningRemoved
  <2>2. CASE left[g] = {} /\ Goto(g, "rollback", "failed") /\ UNCHANGED <<status, left, rooms>>
    <3>1. bound' = bound /\ pc[g] = "rollback" /\ pc' = [pc EXCEPT ![g] = "failed"]
      BY <1>2, <2>2 DEF Rollback, Goto
    <3>2. OwningAt(g)'
      BY <1>0, <1>a, <2>2, <3>1 DEF OwningAt, Owns, Opened
    <3> QED BY <1>0, <2>2, <3>1, <3>2, OwningMoves DEF Rests
  <2> QED BY <1>2, <2>1, <2>2 DEF Rollback
<1>3. CASE Bind(g)
  <2>1. left[g] = {} /\ pc[g] = "create" /\ pc' = [pc EXCEPT ![g] = "idle"] /\ bound' = bound \cup {g}
          /\ left' = left /\ status' = status /\ rooms' = rooms
    BY <1>3 DEF Bind, Goto, share
  <2>2. OwningAt(g)'
    BY <1>0, <1>a, <2>1 DEF OwningAt, Owns, Opened
  <2> QED BY <1>0, <2>1, <2>2, OwningMoves DEF Rests
<1>4. CASE LoginGuard(g)
  <2>1. status[g] # "gone" /\ pc[g] = "new" /\ pc' = [pc EXCEPT ![g] = "create"] /\ bound' = bound
          /\ left' = [left EXCEPT ![g] = kindsOf[g]] /\ status' = status /\ rooms' = rooms
    BY <1>4 DEF LoginGuard, Goto, share
  <2>2. OwningAt(g)'
    BY <1>0, <1>a, <2>1 DEF OwningAt, Owns, Opened
  <2> QED BY <1>0, <2>1, <2>2, OwningMoves DEF Rests
<1> QED BY <1>1, <1>2, <1>3, <1>4 DEF LoginStep

\* CleanUserConnection: what g owns, g has still to remove.
LEMMA OwningClean ==
  ASSUME Types, Owning, NEW c \in Connections, CleanStep(c)
  PROVE  Owning'
<1>0. /\ pc \in [Connections -> Points] /\ left \in [Guards -> SUBSET Kinds] /\ status \in Status
      /\ \A h \in Guards : h \in Connections /\ h \notin Visitors
  BY Constants DEF Types, TypeOK, Status
<1>1. CASE CleanUnbound(c) \/ (c \in Guards /\ CleanGuardEnd(c))
  <2>1. /\ status' = [status EXCEPT ![c] = "gone"] /\ UNCHANGED <<pc, bound, left, rooms>>
        /\ pc[c] \in {"new", "failed"} \/ (pc[c] = "clean" /\ left[c] = {})
    BY <1>1 DEF CleanUnbound, CleanGuardEnd, login, share
  <2>2. CASE c \in Guards
    <3>1. OwningAt(c)'
      BY <1>0, <2>1, <2>2 DEF Owning, OwningAt, Owns, Opened
    <3> QED BY <1>0, <2>1, <2>2, <3>1, OwningMoves DEF Rests
  <2>3. CASE c \notin Guards
    BY <1>0, <2>1, <2>3, OwningRests DEF Rests
  <2> QED BY <2>2, <2>3
<1>2. CASE c \in Guards /\ CleanGuard(c)
  <2>1. pc[c] = "idle" /\ pc' = [pc EXCEPT ![c] = "clean"] /\ left' = [left EXCEPT ![c] = kindsOf[c]]
          /\ status[c] # "gone" /\ UNCHANGED <<status, bound, rooms>>
    BY <1>2 DEF CleanGuard, Goto, share
  <2>2. OwningAt(c)'
    BY <1>0, <1>2, <2>1 DEF Owning, OwningAt, Owns, Opened
  <2> QED BY <1>0, <1>2, <2>1, <2>2, OwningMoves DEF Rests
<1>3. CASE c \in Guards /\ CleanRoom(c)
  <2>1. CASE UNCHANGED <<status, rooms, left>>
    BY <1>3, <2>1, OwningRests DEF CleanRoom, Rests
  <2>2. CASE left[c] # {} /\ RemoveRoom(First(left[c]), c)
    <3>1. First(left[c]) \in left[c] /\ First(left[c]) \in Kinds /\ pc[c] = "clean" /\ bound' = bound /\ pc' = pc
      BY <1>0, <1>3, <2>2, FirstIn DEF CleanRoom
    <3> QED BY <1>3, <2>2, <3>1, OwningRemoved
  <2> QED BY <1>3, <2>1, <2>2 DEF CleanRoom
<1>4. CASE c \in Visitors /\ CleanVisitor(c)
  <2>1. UNCHANGED <<pc, bound, left, rooms>> /\ (status' = status \/ status' = [status EXCEPT ![c] = "gone"])
    BY <1>4 DEF CleanVisitor, login
  <2>2. \A g \in Guards : status'[g] = status[g]
    BY <1>0, <1>4, <2>1 DEF Status
  <2> QED BY <2>1, <2>2, OwningRests DEF Rests
<1> QED BY <1>1, <1>2, <1>3, <1>4 DEF CleanStep

\* The handlers of a guard that is bound move no room.
LEMMA OwningServed ==
  ASSUME Types, Owning, NEW g \in Guards, AnswerStep(g) \/ \E v \in Visitors : Consent(g, v)
  PROVE  Owning'
<1>0. pc \in [Connections -> Points] /\ \A h \in Guards : h \in Connections
  BY Constants DEF Types, TypeOK
<1>1. /\ UNCHANGED <<status, bound, left, rooms>>
      /\ \/ pc' = pc
         \/ pc[g] = "idle" /\ pc' = [pc EXCEPT ![g] = "answer"]
         \/ pc[g] = "answer" /\ pc' = [pc EXCEPT ![g] = "add"]
         \/ pc[g] = "add" /\ pc' = [pc EXCEPT ![g] = "idle"]
  BY DEF AnswerStep, FindRoom, AddViewer, Consent, Served, Goto, share
<1>2. OwningAt(g)'
  BY <1>0, <1>1 DEF Owning, OwningAt, Owns, Opened
<1> QED BY <1>0, <1>1, <1>2, OwningMoves DEF Rests

\* Steps that neither move a guard nor change the rooms
Bystander ==
  \/ \E v \in Visitors : Execute(v) \/ Timeout(v) \/ LoginVisitor(v) \/ RequestVisit(v) \/ FileRequest(v)
  \/ \E g \in Guards : GuardFileRequest(g) \/ Kickout(g) \/ \E k \in Kinds : Publish(g, k)
  \/ \E g \in Guards, v \in Visitors : RespondLate(g, v) \/ Refuse(g, v)
  \/ \E c \in Connections : Disconnect(c)
  \/ UNCHANGED vars

\* A step is one of a login, of a clean-up, of a consent, or of a bystander.
LEMMA NextCases ==
  ASSUME Next
  PROVE  \/ \E g \in Guards : LoginStep(g) \/ LoginGuard(g)
         \/ \E c \in Connections : CleanStep(c)
         \/ \E g \in Guards : AnswerStep(g) \/ \E v \in Visitors : Consent(g, v)
         \/ Bystander
<1>1. CASE ServerStep
  BY <1>1 DEF ServerStep, Bystander
<1>2. CASE ClientStep
  <2>1. CASE \E g \in Guards, v \in Visitors : RespondLate(g, v) \/ Refuse(g, v) \/ Consent(g, v)
    <3>1. PICK g \in Guards, v \in Visitors : RespondLate(g, v) \/ Refuse(g, v) \/ Consent(g, v)
      BY <2>1
    <3>2. CASE Consent(g, v)
      BY <3>2
    <3>3. CASE RespondLate(g, v) \/ Refuse(g, v)
      BY <3>3 DEF Bystander
    <3> QED BY <3>1, <3>2, <3>3
  <2>2. CASE \E g \in Guards : LoginGuard(g) \/ GuardFileRequest(g) \/ Kickout(g) \/ \E k \in Kinds : Publish(g, k)
    BY <2>2 DEF Bystander
  <2>3. CASE \E v \in Visitors : LoginVisitor(v) \/ RequestVisit(v) \/ FileRequest(v)
    BY <2>3 DEF Bystander
  <2>4. CASE \E c \in Connections : Disconnect(c)
    BY <2>4 DEF Bystander
  <2> QED BY <1>2, <2>1, <2>2, <2>3, <2>4 DEF ClientStep
<1>3. CASE UNCHANGED vars
  BY <1>3 DEF Bystander
<1> QED BY <1>1, <1>2, <1>3 DEF Next, Terminated

\* What a bystander changes: it may bind a visitor and close connections.
LEMMA Bystanders ==
  ASSUME Types, Bystander
  PROVE  /\ UNCHANGED <<left, share, answer, late>>
         /\ \A g \in Guards : pc'[g] = pc[g] /\ (g \in bound' <=> g \in bound)
         /\ bound \subseteq bound'
         /\ status' \in Status
         /\ \A c \in Connections : /\ status'[c] = "gone" <=> status[c] = "gone"
                                   /\ status'[c] = "open" => status[c] = "open"
<1>0. pc \in [Connections -> Points] /\ status \in Status
        /\ \A v \in Visitors : v \notin Guards /\ \A h \in Guards : h \in Connections
  BY Constants DEF Types, TypeOK, Status
<1>1. ASSUME NEW v \in Visitors, LoginVisitor(v)
      PROVE  /\ UNCHANGED <<left, share, answer, late, status>> /\ bound' = bound \cup {v}
             /\ pc' = [pc EXCEPT ![v] = "idle"]
  BY <1>1 DEF LoginVisitor, Goto, answer
<1>2. ASSUME NEW g \in Guards, Kickout(g)
      PROVE  UNCHANGED <<left, share, answer, late, pc, bound>> /\ \E C : status' = Disconnected(C)
  BY <1>2 DEF Kickout, login, answer
<1>3. ASSUME NEW c \in Connections, Disconnect(c)
      PROVE  UNCHANGED <<left, share, answer, late, pc, bound>> /\ \E C : status' = Disconnected(C)
  BY <1>3 DEF Disconnect, login, answer
<1>4. \/ \E v \in Visitors : LoginVisitor(v)
      \/ \E g \in Guards : Kickout(g)
      \/ \E c \in Connections : Disconnect(c)
      \/ UNCHANGED <<left, share, answer, late, status, pc, bound>>
  BY DEF Bystander, Execute, Timeout, RequestVisit, FileRequest, GuardFileRequest, Publish, RespondLate, Refuse,
         vars, login
<1>5. CASE \E v \in Visitors : LoginVisitor(v)
  BY <1>0, <1>1, <1>5
<1>6. CASE (\E g \in Guards : Kickout(g)) \/ \E c \in Connections : Disconnect(c)
  <2>1. UNCHANGED <<left, share, answer, late, pc, bound>> /\ \E C : status' = Disconnected(C)
    BY <1>2, <1>3, <1>6
  <2>2. PICK C : status' = Disconnected(C)
    BY <2>1
  <2>3. /\ status' \in Status
        /\ \A c \in Connections : /\ status'[c] = "gone" <=> status[c] = "gone"
                                  /\ status'[c] = "open" => status[c] = "open"
    BY <2>2, Closing DEF Types
  <2>4. UNCHANGED <<left, share, answer, late, pc, bound>>
    BY <2>1
  <2> QED BY <2>3, <2>4
<1>7. CASE UNCHANGED <<left, share, answer, late, status, pc, bound>>
  BY <1>0, <1>7
<1> QED BY <1>4, <1>5, <1>6, <1>7

\* Owning in every reachable state.
LEMMA OwningInvariant == Spec => []Owning
<1>1. Init => Owning
  <2>1. ASSUME Init, NEW g \in Guards PROVE OwningAt(g)
    BY <2>1, Constants DEF Init, OwningAt, Owns
  <2>2. Init => Placed
    BY Constants DEF Init, Placed
  <2> QED BY <2>1, <2>2 DEF Owning
<1>2. ASSUME Types, Owning, Next PROVE Owning'
  <2>1. CASE Bystander
    <3>1. rooms' = rooms /\ left' = left
      BY <1>2, <2>1, Bystanders DEF share
    <3>2. \A g \in Guards : Rests(g)
      <4>1. \A g \in Guards : pc'[g] = pc[g] /\ (g \in bound' <=> g \in bound)
        BY <1>2, <2>1, Bystanders
      <4>2. \A c \in Connections : status'[c] = "gone" <=> status[c] = "gone"
        BY <1>2, <2>1, Bystanders
      <4>3. left' = left
        BY <3>1
      <4> QED BY <4>1, <4>2, <4>3, Constants DEF Rests
    <3> QED BY <1>2, <3>1, <3>2, OwningRests DEF Rests
  <2> QED BY <1>2, <2>1, NextCases, OwningLogin, OwningClean, OwningServed
<1>3. ASSUME Types, Owning, UNCHANGED vars PROVE Owning'
  BY <1>3, OwningRests DEF Rests, vars, login, share
<1> QED BY <1>1, <1>2, <1>3, Typed, PTL DEF Spec

\* The owner of a room has opened it and has not removed it, so it is not cleaned up.
LEMMA OwnerStays == TypeOK /\ Owning => RoomHasOwner
<1> SUFFICES ASSUME TypeOK, Owning, NEW k \in Kinds, NEW a \in Accounts, rooms[k][a] # None
             PROVE  LET g == rooms[k][a] IN accountOf[g] = a /\ k \in kindsOf[g] /\ status[g] # "gone"
  BY DEF RoomHasOwner
<1> DEFINE g == rooms[k][a]
<1>1. g \in Guards /\ accountOf[g] = a
  BY DEF TypeOK, Owning, Placed
<1>2. OwningAt(g) /\ Owns(g, k)
  BY <1>1 DEF Owning, Owns
<1> QED BY <1>1, <1>2 DEF OwningAt, Opened

\* No visitor is sent to an owner that has left (SharingRoomManager, CleanUserConnection).
THEOREM RoomKeepsOwner == Spec => []RoomHasOwner
BY Typed, OwningInvariant, OwnerStays, PTL DEF Types

-----------------------------------------------------------------------------
\* Visits: whom a task has asked, and which room a consent is for.

\* A task has asked a guard of its target's account that has the kind of room it wants.
AskingAt(v) ==
  /\ target[v] # None => v \in bound
  /\ partner[v] # None => /\ target[v] = accountOf[partner[v]] /\ Opened(partner[v], kindOf[v])
                          /\ v \in asked

\* A consent is handled for a task that asked this guard; the room is the target's.
AnsweringAt(g) ==
  /\ pc[g] \in {"answer", "add"} => partner[serving[g]] = g
  /\ pc[g] = "add" => accountOf[found[g]] = target[serving[g]] /\ Opened(found[g], kindOf[serving[g]])

Answering == (\A v \in Visitors : AskingAt(v)) /\ \A g \in Guards : AnsweringAt(g)

\* What no step takes back
LEMMA Grows ==
  ASSUME Types, Next
  PROVE  /\ bound \subseteq bound' /\ asked \subseteq asked'
         /\ \A v \in Visitors : target[v] # None => target'[v] = target[v]
         /\ \A g \in Guards, k \in Kinds : Opened(g, k) => Opened(g, k)'
<1>0. /\ pc \in [Connections -> Points] /\ left \in [Guards -> SUBSET Kinds] /\ target \in [Visitors -> Accounts \cup {None}]
      /\ \A g \in Guards : g \in Connections
  BY Constants DEF Types, TypeOK
<1>1. ASSUME NEW h \in Guards, NEW k \in Kinds, Opened(h, k),
             pc'[h] # "new", pc'[h] = "create" => pc[h] = "create" /\ left'[h] \subseteq left[h]
      PROVE  Opened(h, k)'
  BY <1>1 DEF Opened
<1>2. ASSUME NEW g \in Guards, LoginStep(g) \/ LoginGuard(g)
      PROVE  /\ bound \subseteq bound' /\ UNCHANGED <<asked, target>>
             /\ \A h \in Guards, k \in Kinds : Opened(h, k) => Opened(h, k)'
  <2>1. bound \subseteq bound' /\ UNCHANGED <<asked, target>>
    BY <1>2 DEF LoginStep, LoginGuard, CreateRoom, Rollback, Bind, visit, task
  <2>2. CASE CreateRoom(g)
    <3>1. pc[g] = "create" /\ \/ pc' = [pc EXCEPT ![g] = "rollback"] /\ left' = [left EXCEPT ![g] = Kinds]
                              \/ pc' = pc /\ \E k \in left[g] : left' = [left EXCEPT ![g] = @ \ {k}]
      BY <2>2, Creates DEF Types
    <3>2. ASSUME NEW h \in Guards, NEW k \in Kinds, Opened(h, k) PROVE Opened(h, k)'
      <4>1. pc[h] # "new"
        BY <3>2 DEF Opened
      <4>2. pc'[h] # "new" /\ (pc'[h] = "create" => pc[h] = "create" /\ left'[h] \subseteq left[h])
        BY <1>0, <3>1, <4>1
      <4> QED BY <1>1, <3>2, <4>2
    <3> QED BY <2>1, <3>2
  <2>3. CASE Rollback(g) \/ Bind(g) \/ LoginGuard(g)
    <3>1. \/ pc[g] = "rollback" /\ pc' = pc /\ left' = [left EXCEPT ![g] = @ \ {First(left[g])}]
          \/ pc[g] = "rollback" /\ pc' = [pc EXCEPT ![g] = "failed"] /\ left' = left
          \/ pc[g] = "create" /\ pc' = [pc EXCEPT ![g] = "idle"] /\ left' = left
          \/ pc[g] = "new" /\ pc' = [pc EXCEPT ![g] = "create"] /\ left' = [left EXCEPT ![g] = kindsOf[g]]
      BY <2>3 DEF Rollback, RemoveRoom, Bind, LoginGuard, Goto
    <3>2. ASSUME NEW h \in Guards, NEW k \in Kinds, Opened(h, k) PROVE Opened(h, k)'
      <4>1. pc[h] # "new"
        BY <3>2 DEF Opened
      <4>2. pc'[h] # "new" /\ (pc'[h] = "create" => pc[h] = "create" /\ left'[h] \subseteq left[h])
        BY <1>0, <3>1, <4>1
      <4> QED BY <1>1, <3>2, <4>2
    <3> QED BY <2>1, <3>2
  <2> QED BY <1>2, <2>2, <2>3 DEF LoginStep
<1>3. ASSUME NEW c \in Connections, CleanStep(c)
      PROVE  /\ bound \subseteq bound' /\ UNCHANGED <<asked, target>>
             /\ \A h \in Guards, k \in Kinds : Opened(h, k) => Opened(h, k)'
  <2>1. /\ bound \subseteq bound' /\ UNCHANGED <<asked, target>>
        /\ pc' = pc \/ pc' = [pc EXCEPT ![c] = "clean"]
        /\ left' = left \/ (c \in Guards /\ (pc'[c] = "clean" \/ pc[c] = "clean") /\ \A h \in Guards \ {c} : left'[h] = left[h])
    BY <1>0, <1>3 DEF CleanStep, CleanUnbound, CleanGuard, CleanRoom, CleanGuardEnd, CleanVisitor, RemoveRoom, Goto,
                 login, visit, task
  <2>2. ASSUME NEW h \in Guards, NEW k \in Kinds, Opened(h, k) PROVE Opened(h, k)'
    BY <1>0, <1>1, <2>1, <2>2 DEF Opened
  <2> QED BY <2>1, <2>2
<1>4. ASSUME NEW g \in Guards, AnswerStep(g) \/ \E v \in Visitors : Consent(g, v)
      PROVE  /\ bound \subseteq bound' /\ UNCHANGED <<asked, target>>
             /\ \A h \in Guards, k \in Kinds : Opened(h, k) => Opened(h, k)'
  <2>1. /\ bound' = bound /\ UNCHANGED <<asked, target, left>>
        /\ pc' = pc \/ \E p \in {"answer", "add", "idle"} : pc' = [pc EXCEPT ![g] = p]
    BY <1>4 DEF AnswerStep, FindRoom, AddViewer, Consent, Goto, visit, task, Visit!Settle
  <2> QED BY <1>0, <1>1, <2>1 DEF Opened
<1>5. CASE Bystander
  <2>1. left' = left /\ bound \subseteq bound' /\ \A g \in Guards : pc'[g] = pc[g]
    BY <1>5, Bystanders
  <2>2. asked \subseteq asked' /\ \A v \in Visitors : target[v] # None => target'[v] = target[v]
    <3>1. ASSUME NEW v \in Visitors, RequestVisit(v)
          PROVE  asked' = asked /\ target[v] = None /\ \E a \in Accounts : target' = [target EXCEPT ![v] = a]
      BY <3>1 DEF RequestVisit, Visit!Begin
    <3>2. (\E v \in Visitors : RequestVisit(v)) \/ (asked \subseteq asked' /\ target' = target)
      BY <1>5 DEF Bystander, Execute, Timeout, LoginVisitor, FileRequest, GuardFileRequest, Kickout, Publish,
                  RespondLate, Refuse, Disconnect, Visit!Settle, Visit!Ask, vars, visit, task
    <3> QED BY <1>0, <3>1, <3>2
  <2>3. \A g \in Guards, k \in Kinds : Opened(g, k) => Opened(g, k)'
    BY <2>1 DEF Opened
  <2> QED BY <2>1, <2>2, <2>3
<1> QED BY <1>2, <1>3, <1>4, <1>5, NextCases

\* A step that claims no task and sends no request keeps Answering.
LEMMA AnsweringRests ==
  ASSUME Types, Answering, Next, UNCHANGED <<target, partner, serving, found>>,
         \A g \in Guards : pc'[g] \in {"answer", "add"} => pc'[g] = pc[g]
  PROVE  Answering'
<1>1. ASSUME NEW v \in Visitors PROVE AskingAt(v)'
  <2>1. partner[v] # None => partner[v] \in Guards /\ kindOf[v] \in Kinds
    BY Constants DEF Types, TypeOK
  <2> QED BY <2>1, Grows DEF Answering, AskingAt
<1>2. ASSUME NEW g \in Guards PROVE AnsweringAt(g)'
  <2>1. pc[g] = "add" => found[g] \in Guards /\ kindOf[serving[g]] \in Kinds
    BY Constants DEF Types, Handling
  <2> QED BY <2>1, Grows DEF Answering, AnsweringAt
<1> QED BY <1>1, <1>2 DEF Answering

\* A task that is not claimed asks the owner of its room.
LEMMA AnsweringVisit ==
  ASSUME Types, Owning, Answering, Next, NEW v \in Visitors, Execute(v) \/ RequestVisit(v)
  PROVE  Answering'
<1>0. UNCHANGED <<pc, serving, found, left>> /\ kindOf[v] \in Kinds /\ accountOf[v] \in Accounts
  BY Constants DEF Execute, RequestVisit, login, answer
<1>1. ASSUME RequestVisit(v) PROVE partner[v] = None /\ v \in bound /\ target[v] = None /\ partner' = partner
  <2>1. v \in bound /\ target[v] = None /\ partner' = partner
    BY <1>1 DEF RequestVisit, Served
  <2>2. partner[v] # None => accountOf[partner[v]] # None
    BY Constants DEF Types, TypeOK
  <2> QED BY <2>1, <2>2 DEF Answering, AskingAt
<1>2. CASE partner' = partner
  <2>1. ASSUME NEW w \in Visitors PROVE AskingAt(w)'
    <3>1. CASE w # v \/ ~RequestVisit(v)
      <4>1. target'[w] = target[w]
        BY <3>1 DEF Execute, RequestVisit, Types, TypeOK
      <4>2. partner[w] # None => partner[w] \in Guards /\ kindOf[w] \in Kinds
        BY Constants DEF Types, TypeOK
      <4> QED BY <1>2, <4>1, <4>2, Grows DEF Answering, AskingAt
    <3>2. CASE w = v /\ RequestVisit(v)
      BY <1>1, <3>2, Grows DEF AskingAt
    <3> QED BY <3>1, <3>2
  <2>2. ASSUME NEW g \in Guards PROVE AnsweringAt(g)'
    <3>1. pc[g] \in {"answer", "add"} => serving[g] \in Visitors /\ kindOf[serving[g]] \in Kinds
      BY Constants DEF Types, Handling
    <3>2. pc[g] = "add" => found[g] \in Guards /\ accountOf[found[g]] # None
      BY Constants DEF Types, Handling
    <3> QED BY <1>0, <1>2, <3>1, <3>2, Grows DEF Answering, AnsweringAt
  <2> QED BY <2>1, <2>2 DEF Answering
<1>3. CASE Execute(v) /\ partner' # partner
  <2>1. /\ RoomFor(v) # None /\ partner' = [partner EXCEPT ![v] = RoomFor(v)] /\ asked' = asked \cup {v}
        /\ Waiting(v) /\ target' = target
    BY <1>3 DEF Execute, Visit!Ask, task
  <2>2. RoomFor(v) \in Guards /\ target[v] \in Accounts /\ RoomFor(v) = rooms[kindOf[v]][target[v]]
    BY <2>1, Lookup DEF Types
  <2>3. PICK r \in Guards : r = RoomFor(v)
    BY <2>2
  <2>4. accountOf[r] = target[v] /\ Opened(r, kindOf[v])
    <3>1. accountOf[r] = target[v] /\ Owns(r, kindOf[v])
      BY <1>0, <2>1, <2>2, <2>3 DEF Owning, Placed, Owns
    <3> QED BY <1>0, <2>3, <3>1 DEF Owning, OwningAt
  <2>5. ASSUME NEW w \in Visitors PROVE AskingAt(w)'
    <3>1. partner'[w] = IF w = v THEN r ELSE partner[w]
      BY <2>1, <2>3 DEF Types, TypeOK
    <3>2. partner[w] # None => partner[w] \in Guards /\ kindOf[w] \in Kinds
      BY Constants DEF Types, TypeOK
    <3>3. CASE w = v
      <4>1. Opened(r, kindOf[w])'
        BY <1>0, <2>4, <3>3, Grows
      <4>2. partner'[w] = r /\ target'[w] = accountOf[r] /\ w \in asked'
        BY <2>1, <2>4, <3>1, <3>3
      <4>3. w \in bound'
        BY <2>2, <3>3, Grows, Constants DEF Answering, AskingAt
      <4>4. Opened(partner[w], kindOf[w])'
        BY <4>1, <4>2 DEF Opened
      <4> QED BY <4>2, <4>3, <4>4 DEF AskingAt
    <3>4. CASE w # v
      BY <2>1, <3>1, <3>2, <3>4, Grows DEF Answering, AskingAt
    <3> QED BY <3>3, <3>4
  <2>6. ASSUME NEW g \in Guards PROVE AnsweringAt(g)'
    <3>1. pc[g] \in {"answer", "add"} => serving[g] \in Visitors /\ kindOf[serving[g]] \in Kinds
      BY Constants DEF Types, Handling
    <3>2. pc[g] = "add" => found[g] \in Guards
      BY DEF Types, Handling
    <3>3. serving[g] # v
      BY <2>1 DEF Waiting
    <3>4. pc[g] \in {"answer", "add"} => partner'[serving[g]] = partner[serving[g]]
      BY <2>1, <3>1, <3>3 DEF Types, TypeOK
    <3> QED BY <1>0, <2>1, <3>1, <3>2, <3>4, Grows DEF Answering, AnsweringAt
  <2> QED BY <2>5, <2>6 DEF Answering
<1> QED BY <1>1, <1>2, <1>3

\* handleResponse
LEMMA AnsweringServed ==
  ASSUME Types, Owning, Answering, Next, NEW g \in Guards, AnswerStep(g) \/ \E v \in Visitors : Consent(g, v)
  PROVE  Answering'
<1>0. /\ UNCHANGED <<left, target, partner, asked, bound>> /\ pc \in [Connections -> Points]
      /\ \A h \in Guards : h \in Connections
  BY Constants DEF AnswerStep, FindRoom, AddViewer, Consent, visit, task, Visit!Settle, Types, TypeOK
<1>1. ASSUME NEW v \in Visitors PROVE AskingAt(v)'
  <2>1. partner[v] # None => partner[v] \in Guards /\ kindOf[v] \in Kinds
    BY Constants DEF Types, TypeOK
  <2> QED BY <1>0, <2>1, Grows DEF Answering, AskingAt
<1>2. ASSUME NEW h \in Guards, pc'[h] = pc[h], serving'[h] = serving[h], found'[h] = found[h]
      PROVE  AnsweringAt(h)'
  <2>1. pc[h] = "add" => found[h] \in Guards /\ kindOf[serving[h]] \in Kinds
    BY Constants DEF Types, Handling
  <2> QED BY <1>0, <1>2, <2>1, Grows DEF Answering, AnsweringAt
<1>3. /\ \/ serving' = serving \/ \E v \in Visitors \cup {None} : serving' = [serving EXCEPT ![g] = v]
      /\ \/ found' = found \/ \E h \in Guards \cup {None} : found' = [found EXCEPT ![g] = h]
      /\ \/ pc' = pc \/ \E p \in Points : pc' = [pc EXCEPT ![g] = p]
  <2>1. ASSUME NEW v \in Visitors, Consent(g, v)
        PROVE  serving' = [serving EXCEPT ![g] = v] /\ found' = found /\ pc' = [pc EXCEPT ![g] = "answer"]
    BY <2>1 DEF Consent
  <2>2. CASE FindRoom(g)
    <3>1. RoomFor(serving[g]) \in Guards \cup {None}
      BY <2>2, Lookup DEF FindRoom, Types, Handling
    <3>2. /\ serving' = serving
          /\ found' = found \/ found' = [found EXCEPT ![g] = RoomFor(serving[g])]
          /\ pc' = pc \/ pc' = [pc EXCEPT ![g] = "add"]
      BY <2>2 DEF FindRoom, Goto
    <3> QED BY <3>1, <3>2 DEF Points
  <2>3. CASE AddViewer(g)
    BY <2>3, Adds DEF Points
  <2> QED BY <2>1, <2>2, <2>3 DEF AnswerStep, Points
<1>4. ASSUME NEW h \in Guards \ {g} PROVE AnsweringAt(h)'
  <2>1. pc'[h] = pc[h] /\ serving'[h] = serving[h] /\ found'[h] = found[h]
    BY <1>0, <1>3 DEF Types, TypeOK
  <2> QED BY <1>2, <2>1
<1>5. AnsweringAt(g)'
  <2>1. ASSUME NEW v \in Visitors, Consent(g, v) PROVE AnsweringAt(g)'
    <3>1. pc'[g] = "answer" /\ serving'[g] = v /\ partner'[v] = g
      BY <1>0, <2>1 DEF Consent, Types, TypeOK
    <3> QED BY <3>1 DEF AnsweringAt
  <2>2. CASE FindRoom(g)
    <3> DEFINE v == serving[g]
               h == RoomFor(v)
    <3>1. v \in Visitors /\ kindOf[v] \in Kinds /\ pc[g] = "answer" /\ partner[v] = g /\ serving' = serving
      BY <2>2, Constants DEF FindRoom, Types, Handling, Answering, AnsweringAt
    <3>2. CASE h = None
      <4>1. pc' = pc /\ found' = found
        BY <2>2, <3>2 DEF FindRoom
      <4> QED BY <1>2, <3>1, <4>1
    <3>3. CASE h # None
      <4>1. h \in Guards /\ target[v] \in Accounts /\ h = rooms[kindOf[v]][target[v]]
        BY <3>1, <3>3, Lookup DEF Types
      <4>2. PICK r \in Guards : r = h
        BY <4>1
      <4>3. accountOf[r] = target[v] /\ Opened(r, kindOf[v])
        <5>1. accountOf[r] = target[v] /\ Owns(r, kindOf[v])
          BY <3>1, <3>3, <4>1, <4>2 DEF Owning, Placed, Owns
        <5> QED BY <3>1, <5>1 DEF Owning, OwningAt
      <4>4. Opened(r, kindOf[serving[g]])'
        BY <3>1, <4>3, Grows DEF Opened
      <4>5. pc'[g] = "add" /\ found'[g] = r
        BY <1>0, <2>2, <3>3, <4>2 DEF FindRoom, Goto, Types, TypeOK
      <4>6. Opened(found[g], kindOf[serving[g]])'
        BY <4>4, <4>5 DEF Opened
      <4> QED BY <1>0, <3>1, <4>3, <4>5, <4>6 DEF AnsweringAt
    <3> QED BY <3>2, <3>3
  <2>3. CASE AddViewer(g)
    <3>1. pc'[g] = "idle"
      BY <1>0, <2>3, Adds
    <3> QED BY <3>1 DEF AnsweringAt
  <2> QED BY <2>1, <2>2, <2>3 DEF AnswerStep
<1> QED BY <1>1, <1>4, <1>5 DEF Answering

\* Answering in every reachable state.
LEMMA AnsweringInvariant == Spec => []Answering
<1>1. Init => Answering
  BY Constants DEF Init, Answering, AskingAt, AnsweringAt
<1>2. ASSUME Types, Owning, Answering, Next PROVE Answering'
  <2>1. CASE \E g \in Guards : LoginStep(g) \/ LoginGuard(g)
    <3>1. PICK g \in Guards : LoginStep(g) \/ LoginGuard(g)
      BY <2>1
    <3>2. UNCHANGED <<target, partner, serving, found>>
      BY <3>1 DEF LoginStep, LoginGuard, CreateRoom, Rollback, Bind, visit, answer
    <3>3. pc' = pc \/ \E p \in {"create", "rollback", "failed", "idle"} : pc' = [pc EXCEPT ![g] = p]
      BY <3>1 DEF LoginStep, LoginGuard, CreateRoom, Rollback, Bind, Goto
    <3> QED BY <1>2, <3>2, <3>3, AnsweringRests, Constants DEF Types, TypeOK
  <2>2. CASE \E c \in Connections : CleanStep(c)
    <3>1. PICK c \in Connections : CleanStep(c)
      BY <2>2
    <3>2. UNCHANGED <<target, partner, serving, found>> /\ (pc' = pc \/ pc' = [pc EXCEPT ![c] = "clean"])
      BY <3>1 DEF CleanStep, CleanUnbound, CleanGuard, CleanRoom, CleanGuardEnd, CleanVisitor, Goto, login, visit, answer
    <3> QED BY <1>2, <3>2, AnsweringRests, Constants DEF Types, TypeOK
  <2>3. CASE \E g \in Guards : AnswerStep(g) \/ \E v \in Visitors : Consent(g, v)
    BY <1>2, <2>3, AnsweringServed
  <2>4. CASE Bystander
    <3>1. \/ \E v \in Visitors : Execute(v) \/ RequestVisit(v)
          \/ UNCHANGED <<target, partner>>
      BY <2>4 DEF Bystander, Timeout, LoginVisitor, FileRequest, GuardFileRequest, Kickout, Publish,
                  RespondLate, Refuse, Disconnect, vars, visit
    <3>2. UNCHANGED <<serving, found>> /\ \A g \in Guards : pc'[g] = pc[g]
      BY <1>2, <2>4, Bystanders DEF answer
    <3> QED BY <1>2, <3>1, <3>2, AnsweringVisit, AnsweringRests
  <2> QED BY <1>2, <2>1, <2>2, <2>3, <2>4, NextCases
<1>3. ASSUME Answering, UNCHANGED vars PROVE Answering'
  BY <1>3 DEF vars, login, visit, task, answer, Answering, AskingAt, AnsweringAt, Opened
<1> QED BY <1>1, <1>2, <1>3, Typed, OwningInvariant, PTL DEF Spec

-----------------------------------------------------------------------------
\* Who views which room.

\* The viewers of the rooms change when one is added and when one is cleaned up.
LEMMA ViewersMove ==
  ASSUME Next
  PROVE  \/ UNCHANGED <<viewers, autoPub, late>>
         \/ \E g \in Guards : AddViewer(g)
         \/ \E v \in Visitors : CleanVisitor(v)
<1>1. ASSUME NEW g \in Guards, LoginStep(g) \/ LoginGuard(g) PROVE UNCHANGED <<viewers, autoPub, late>>
  BY <1>1 DEF LoginStep, LoginGuard, CreateRoom, Rollback, Bind, share
<1>2. ASSUME NEW c \in Connections, CleanStep(c)
      PROVE  UNCHANGED <<viewers, autoPub, late>> \/ \E v \in Visitors : CleanVisitor(v)
  BY <1>2 DEF CleanStep, CleanUnbound, CleanGuard, CleanRoom, CleanGuardEnd, share
<1>3. ASSUME NEW g \in Guards, AnswerStep(g) \/ \E v \in Visitors : Consent(g, v)
      PROVE  UNCHANGED <<viewers, autoPub, late>> \/ AddViewer(g)
  BY <1>3 DEF AnswerStep, FindRoom, Consent, share
<1>4. CASE Bystander
  BY <1>4 DEF Bystander, Execute, Timeout, LoginVisitor, RequestVisit, FileRequest, GuardFileRequest, Kickout, Publish,
              RespondLate, Refuse, Disconnect, vars, share
<1> QED BY <1>1, <1>2, <1>3, <1>4, NextCases

\* Nobody enters a room but the visitor a guard is answering.
Joins(h) ==
  /\ AddViewer(h) /\ Admits(kindOf[serving[h]], found[h], serving[h])
  /\ \A k \in Kinds, g \in Guards :
       viewers'[k][g] = IF k = kindOf[serving[h]] /\ g = found[h] THEN viewers[k][g] \cup {serving[h]} ELSE viewers[k][g]

\* The viewers of a room become fewer, or the visitor being answered joins them.
LEMMA Entering ==
  ASSUME Types, Next
  PROVE  \/ \A k \in Kinds, g \in Guards : viewers'[k][g] \subseteq viewers[k][g]
         \/ \E h \in Guards : Joins(h)
<1>1. ASSUME NEW h \in Guards, AddViewer(h)
      PROVE  (\A k \in Kinds, g \in Guards : viewers'[k][g] \subseteq viewers[k][g]) \/ Joins(h)
  <2>1. CASE viewers' = viewers
    BY <2>1
  <2>2. CASE /\ Admits(kindOf[serving[h]], found[h], serving[h])
             /\ Sets(kindOf[serving[h]], found[h], viewers[kindOf[serving[h]]][found[h]] \cup {serving[h]})
    <3>1. ASSUME NEW k \in Kinds, NEW g \in Guards
          PROVE  viewers'[k][g] = IF k = kindOf[serving[h]] /\ g = found[h] THEN viewers[k][g] \cup {serving[h]} ELSE viewers[k][g]
      BY <2>2 DEF Sets
    <3> QED BY <1>1, <2>2, <3>1 DEF Joins
  <2> QED BY <1>1, <2>1, <2>2, Adds
<1>2. ASSUME NEW v \in Visitors, CleanVisitor(v)
      PROVE  \A k \in Kinds, g \in Guards : viewers'[k][g] \subseteq viewers[k][g]
  <2>1. CASE viewers' = viewers
    BY <2>1
  <2>2. ASSUME NEW r \in Guards, Sets(kindOf[v], r, viewers[kindOf[v]][r] \ {v}), NEW k \in Kinds, NEW g \in Guards
        PROVE  viewers'[k][g] \subseteq viewers[k][g]
    <3>1. viewers'[k][g] = IF k = kindOf[v] /\ g = r THEN viewers[kindOf[v]][r] \ {v} ELSE viewers[k][g]
      BY <2>2 DEF Sets
    <3> QED BY <3>1
  <2> QED BY <1>2, <2>1, <2>2, Leaves DEF Types
<1> QED BY <1>1, <1>2, ViewersMove

\* The viewers of a room want its kind and its owner's account.
ViewingAt(k, g) == \A v \in viewers[k][g] : kindOf[v] = k /\ target[v] = accountOf[g] /\ Opened(g, k)
Viewing == \A k \in Kinds, g \in Guards : ViewingAt(k, g)

\* A viewer's room is its target's, and its owner has got past making it.
LEMMA ViewingInvariant == Spec => []Viewing
<1>1. Init => Viewing
  BY DEF Init, Viewing, ViewingAt
<1>2. ASSUME Types, Answering, Viewing, Next PROVE Viewing'
  <2>1. SUFFICES ASSUME NEW k \in Kinds, NEW g \in Guards, NEW v \in viewers'[k][g]
                 PROVE  kindOf[v] = k /\ target'[v] = accountOf[g] /\ Opened(g, k)'
    BY DEF Viewing, ViewingAt
  <2>2. CASE v \in viewers[k][g]
    <3>1. v \in Visitors /\ accountOf[g] # None
      BY <1>2, <2>2, Constants DEF Types, TypeOK
    <3> QED BY <1>2, <2>2, <3>1, Grows DEF Viewing, ViewingAt
  <2>3. CASE v \notin viewers[k][g]
    <3>1. PICK h \in Guards : Joins(h)
      BY <1>2, <2>3, Entering
    <3>2. k = kindOf[v] /\ g = found[h] /\ v = serving[h]
      <4>1. viewers'[k][g] = IF k = kindOf[serving[h]] /\ g = found[h] THEN viewers[k][g] \cup {serving[h]} ELSE viewers[k][g]
        BY <3>1 DEF Joins
      <4> QED BY <2>3, <4>1
    <3>3. pc[h] = "add" /\ v \in Visitors
      BY <1>2, <3>1, <3>2, Adds DEF Joins
    <3>4. target[v] = accountOf[g] /\ Opened(g, k)
      BY <1>2, <3>2, <3>3 DEF Answering, AnsweringAt
    <3> QED BY <1>2, <3>2, <3>3, <3>4, Grows, Constants
  <2> QED BY <2>2, <2>3
<1>3. ASSUME Viewing, UNCHANGED vars PROVE Viewing'
  BY <1>3 DEF vars, login, share, visit, Viewing, ViewingAt, Opened
<1> QED BY <1>1, <1>2, <1>3, Typed, AnsweringInvariant, PTL DEF Spec

\* addViewer admits one viewer per account, on whatever threads it is answered.
THEOREM AccountViewsOnce == Spec => []OneViewerPerAccount
<1>1. Init => OneViewerPerAccount
  BY DEF Init, OneViewerPerAccount, Kinds
<1>2. ASSUME Types, OneViewerPerAccount, Next PROVE OneViewerPerAccount'
  <2>1. SUFFICES ASSUME NEW k \in {"screen", "file"}, NEW g \in Guards,
                        NEW u \in viewers'[k][g], NEW v \in viewers'[k][g], accountOf[u] = accountOf[v]
                 PROVE  u = v
    BY DEF OneViewerPerAccount
  <2>2. k \in Kinds /\ k # "terminal"
    BY DEF Kinds
  <2>3. CASE u \in viewers[k][g] /\ v \in viewers[k][g]
    BY <1>2, <2>1, <2>3 DEF OneViewerPerAccount
  <2>4. CASE u \notin viewers[k][g] \/ v \notin viewers[k][g]
    <3>1. PICK h \in Guards : Joins(h)
      BY <1>2, <2>2, <2>4, Entering
    <3>2. k = kindOf[serving[h]] /\ g = found[h] /\ (u = serving[h] \/ v = serving[h])
            /\ viewers'[k][g] = viewers[k][g] \cup {serving[h]}
      <4>1. viewers'[k][g] = IF k = kindOf[serving[h]] /\ g = found[h] THEN viewers[k][g] \cup {serving[h]} ELSE viewers[k][g]
        BY <2>2, <3>1 DEF Joins
      <4> QED BY <2>4, <4>1
    <3>3. \A w \in viewers[k][g] : accountOf[w] # accountOf[serving[h]]
      BY <2>2, <3>1, <3>2 DEF Joins, Admits
    <3> QED BY <2>1, <3>2, <3>3
  <2> QED BY <2>3, <2>4
<1>3. ASSUME OneViewerPerAccount, UNCHANGED vars PROVE OneViewerPerAccount'
  BY <1>3 DEF vars, share, OneViewerPerAccount
<1> QED BY <1>1, <1>2, <1>3, Typed, PTL DEF Spec

\* Only its own clean-up makes a connection go.
LEMMA Leaving ==
  ASSUME Types, Next, NEW c \in Connections, status'[c] = "gone", status[c] # "gone"
  PROVE  CleanStep(c)
<1>0. status \in Status
  BY DEF Types, TypeOK, Status
<1>1. ASSUME NEW g \in Guards, NEW k \in Kinds, RemoveRoom(k, g) PROVE FALSE
  BY <1>1, Removes DEF Types, Closes
<1>2. ASSUME NEW g \in Guards, LoginStep(g) \/ LoginGuard(g) PROVE FALSE
  <2>1. First(left[g]) \in Kinds /\ RemoveRoom(First(left[g]), g)
    <3>1. Rollback(g) /\ left[g] # {} /\ RemoveRoom(First(left[g]), g)
      BY <1>2 DEF LoginStep, LoginGuard, CreateRoom, Rollback, Bind
    <3> QED BY <3>1, FirstIn DEF Types, TypeOK
  <2> QED BY <1>1, <2>1
<1>3. ASSUME NEW d \in Connections, CleanStep(d) PROVE CleanStep(c)
  <2>1. CASE d \in Guards /\ CleanRoom(d)
    <3>1. First(left[d]) \in Kinds /\ RemoveRoom(First(left[d]), d)
      BY <2>1, FirstIn DEF CleanRoom, Types, TypeOK
    <3> QED BY <1>1, <2>1, <3>1
  <2>2. CASE ~(d \in Guards /\ CleanRoom(d))
    <3>1. status' = status \/ status' = [status EXCEPT ![d] = "gone"]
      BY <1>3, <2>2 DEF CleanStep, CleanUnbound, CleanGuard, CleanGuardEnd, CleanVisitor
    <3>2. c = d
      BY <1>0, <3>1 DEF Status
    <3> QED BY <1>3, <3>2
  <2> QED BY <2>1, <2>2
<1>4. ASSUME NEW g \in Guards, AnswerStep(g) \/ \E v \in Visitors : Consent(g, v) PROVE FALSE
  BY <1>4 DEF AnswerStep, FindRoom, AddViewer, Consent
<1>5. CASE Bystander
  BY <1>5, Bystanders
<1> QED BY <1>2, <1>3, <1>4, <1>5, NextCases

\* A room that was not there is one its owner has just made.
LEMMA Appearing ==
  ASSUME Types, Next, NEW k \in Kinds, NEW a \in Accounts, rooms'[k][a] # None, rooms'[k][a] # rooms[k][a]
  PROVE  \E g \in Guards : CreateRoom(g) /\ rooms'[k][a] = g /\ accountOf[g] = a /\ k \in left[g] /\ pc[g] = "create"
                          /\ RoomOf(k, g) = None
<1>1. ASSUME NEW g \in Guards, NEW l \in Kinds, RemoveRoom(l, g) PROVE FALSE
  BY <1>1, Removes DEF Types, Puts
<1>2. ASSUME NEW g \in Guards, Rollback(g) \/ CleanRoom(g) PROVE FALSE
  <2>1. left[g] # {} /\ RemoveRoom(First(left[g]), g)
    BY <1>2 DEF Rollback, CleanRoom
  <2>2. First(left[g]) \in Kinds
    BY <2>1, FirstIn DEF Types, TypeOK
  <2> QED BY <1>1, <2>1, <2>2
<1>3. ASSUME NEW g \in Guards, CreateRoom(g)
      PROVE  rooms'[k][a] = g /\ accountOf[g] = a /\ k \in left[g] /\ pc[g] = "create" /\ RoomOf(k, g) = None
  BY <1>3, Creates DEF Types, Puts
<1>4. ASSUME NEW g \in Guards, LoginStep(g) \/ LoginGuard(g) PROVE CreateRoom(g)
  BY <1>2, <1>4 DEF LoginStep, LoginGuard, Bind, share
<1>5. ASSUME NEW c \in Connections, CleanStep(c) PROVE FALSE
  BY <1>2, <1>5 DEF CleanStep, CleanUnbound, CleanGuard, CleanGuardEnd, CleanVisitor, share
<1>6. ASSUME NEW g \in Guards, AnswerStep(g) \/ \E v \in Visitors : Consent(g, v) PROVE FALSE
  BY <1>6 DEF AnswerStep, FindRoom, AddViewer, Consent, share
<1>7. CASE Bystander
  BY <1>7, Bystanders DEF share
<1> QED BY <1>3, <1>4, <1>5, <1>6, <1>7, NextCases

\* A viewer that goes leaves its room, unless it has never been bound; a new room is empty.
LEMMA GhostsStep ==
  ASSUME Types, Owning, Answering, Viewing, GhostsComeLate, Next
  PROVE  GhostsComeLate'
<1>1. SUFFICES ASSUME NEW k \in Kinds, NEW a \in Accounts, NEW r \in Guards, r = rooms'[k][a],
                      NEW v \in viewers'[k][r], status'[v] = "gone"
               PROVE  v \in late'
  <2>1. rooms' \in Rooms
    <3>1. Types'
      BY TypedNext
    <3> QED BY <3>1 DEF Types, TypeOK, Rooms
  <2> QED BY <2>1 DEF GhostsComeLate, Rooms
<1>2. v \in Visitors /\ v \in Connections /\ v \notin Guards /\ accountOf[r] # None /\ None # r /\ kindOf[v] \in Kinds
  <2>1. Types'
    BY TypedNext
  <2>2. v \in Visitors
    BY <2>1 DEF Types, TypeOK
  <2> QED BY <2>2, Constants
<1>3. CASE rooms[k][a] # r
  <2>1. PICK g \in Guards : CreateRoom(g) /\ r = g /\ k \in left[g] /\ pc[g] = "create"
    BY <1>1, <1>2, <1>3, Appearing
  <2>2. v \in viewers[k][r]
    BY <1>1, <2>1 DEF CreateRoom
  <2>3. Opened(r, k)
    BY <2>2 DEF Viewing, ViewingAt
  <2> QED BY <2>1, <2>3 DEF Opened
<1>4. CASE rooms[k][a] = r /\ v \in viewers[k][r]
  <2>1. accountOf[r] = a /\ kindOf[v] = k /\ target[v] = accountOf[r] /\ v \in bound
    BY <1>2, <1>4 DEF Owning, Placed, Viewing, ViewingAt, Answering, AskingAt
  <2>2. RoomFor(v) = r
    BY <1>2, <1>4, <2>1 DEF RoomFor
  <2>3. CASE status[v] # "gone"
    <3>1. CleanVisitor(v)
      BY <1>1, <1>2, <2>1, <2>3, Leaving DEF CleanStep, CleanUnbound
    <3>2. v \notin viewers'[k][r]
      <4>1. Sets(k, r, viewers[k][r] \ {v})
        BY <1>2, <2>1, <2>2, <3>1, Leaves DEF Types
      <4>2. viewers'[k][r] = viewers[k][r] \ {v}
        BY <4>1 DEF Sets
      <4> QED BY <4>2
    <3> QED BY <3>2
  <2>4. CASE status[v] = "gone"
    <3>1. v \in late
      BY <1>2, <1>4, <2>4 DEF GhostsComeLate
    <3>2. late' = late \/ \E u \in Visitors : late' = late \cup {u}
      BY ViewersMove, Adds DEF CleanVisitor
    <3> QED BY <3>1, <3>2
  <2> QED BY <2>3, <2>4
<1>5. CASE v \notin viewers[k][r]
  <2>1. PICK h \in Guards : Joins(h)
    BY <1>5, Entering
  <2>2. v = serving[h]
    BY <1>5, <2>1 DEF Joins
  <2>3. status' = status /\ late' = IF status[v] = "gone" THEN late \cup {v} ELSE late
    BY <2>1, <2>2 DEF Joins, AddViewer
  <2> QED BY <1>1, <2>3
<1> QED BY <1>3, <1>4, <1>5

\* A visitor that was cleaned up is found in a room only if handleResponse came after
\* CleanUserConnection; with and without overlap.
THEOREM GhostsAreLate == Spec => []GhostsComeLate
<1>1. Init => GhostsComeLate
  BY DEF Init, GhostsComeLate
<1>2. ASSUME GhostsComeLate, UNCHANGED vars PROVE GhostsComeLate'
  BY <1>2 DEF vars, share, GhostsComeLate
<1> QED BY <1>1, <1>2, GhostsStep, Typed, OwningInvariant, AnsweringInvariant, ViewingInvariant, PTL DEF Spec

-----------------------------------------------------------------------------
\* The way of a guard through its handlers.

\* Where g was and where it is, and what it did if that matters below.
Moved(g) ==
  \/ /\ pc'[g] = pc[g] /\ found'[g] = found[g] /\ serving'[g] = serving[g]
     /\ left'[g] = left[g] \/ pc[g] \in {"create", "rollback"} \/ CleanRoom(g)
  \/ pc[g] = "new" /\ pc'[g] = "create" /\ LoginGuard(g)
  \/ pc[g] = "create" /\ pc'[g] = "rollback" /\ CreateRoom(g)
  \/ pc[g] = "rollback" /\ pc'[g] = "failed"
  \/ pc[g] = "create" /\ pc'[g] = "idle" /\ left'[g] = left[g]
  \/ pc[g] = "idle" /\ pc'[g] = "answer"
  \/ pc[g] = "answer" /\ pc'[g] = "add" /\ FindRoom(g)
  \/ pc[g] = "add" /\ pc'[g] = "idle" /\ AddViewer(g)
  \/ pc[g] = "idle" /\ pc'[g] = "clean" /\ left'[g] = kindsOf[g] /\ status[g] # "open"

\* A guard goes through its handlers in their order.
LEMMA Moves ==
  ASSUME Types, Next, NEW g \in Guards
  PROVE  Moved(g)
<1>0. /\ pc \in [Connections -> Points] /\ left \in [Guards -> SUBSET Kinds]
      /\ serving \in [Guards -> Visitors \cup {None}] /\ found \in [Guards -> Guards \cup {None}]
      /\ g \in Connections
  BY Constants DEF Types, TypeOK
<1>1. ASSUME NEW h \in Guards, LoginStep(h) \/ LoginGuard(h) PROVE Moved(g)
  <2>0. serving' = serving /\ found' = found
    BY <1>1 DEF LoginStep, LoginGuard, CreateRoom, Rollback, Bind, answer
  <2>1. CASE h # g
    <3>1. /\ pc' = pc \/ \E q \in Points : pc' = [pc EXCEPT ![h] = q]
          /\ left' = left \/ \E S : left' = [left EXCEPT ![h] = S]
      <4>1. ASSUME NEW k, RemoveRoom(k, h) PROVE \E S : left' = [left EXCEPT ![h] = S]
        BY <4>1 DEF RemoveRoom
      <4> QED BY <1>1, <4>1 DEF LoginStep, LoginGuard, CreateRoom, Rollback, Bind, Goto, Points
    <3>2. pc'[g] = pc[g] /\ left'[g] = left[g]
      BY <1>0, <2>1, <3>1
    <3> QED BY <2>0, <3>2 DEF Moved
  <2>2. CASE h = g /\ CreateRoom(g)
    <3>1. pc[g] = "create" /\ (pc' = pc \/ pc' = [pc EXCEPT ![g] = "rollback"])
      BY <2>2, Creates DEF Types
    <3> QED BY <1>0, <2>0, <2>2, <3>1 DEF Moved
  <2>3. CASE h = g /\ Rollback(g)
    BY <1>0, <2>0, <2>3 DEF Rollback, Goto, Moved
  <2>4. CASE h = g /\ (Bind(g) \/ LoginGuard(g))
    <3>1. CASE Bind(g)
      BY <1>0, <2>0, <3>1 DEF Bind, Goto, Moved
    <3>2. CASE LoginGuard(g)
      <4>1. pc[g] = "new" /\ pc' = [pc EXCEPT ![g] = "create"]
        BY <3>2 DEF LoginGuard, Goto
      <4> QED BY <1>0, <3>2, <4>1 DEF Moved
    <3> QED BY <2>4, <3>1, <3>2
  <2> QED BY <1>1, <2>1, <2>2, <2>3, <2>4 DEF LoginStep
<1>2. ASSUME NEW c \in Connections, CleanStep(c) PROVE Moved(g)
  <2>0. serving' = serving /\ found' = found
    BY <1>2 DEF CleanStep, CleanUnbound, CleanGuard, CleanRoom, CleanGuardEnd, CleanVisitor, answer
  <2>1. CASE c \in Guards /\ CleanGuard(c)
    BY <1>0, <2>0, <2>1 DEF CleanGuard, Goto, Moved
  <2>2. CASE c \in Guards /\ CleanRoom(c)
    <3>1. pc' = pc
      BY <2>2 DEF CleanRoom
    <3>2. c # g => left'[g] = left[g]
      BY <1>0, <2>2 DEF CleanRoom, RemoveRoom
    <3> QED BY <2>0, <2>2, <3>1, <3>2 DEF Moved
  <2>3. CASE pc' = pc /\ left' = left
    BY <2>0, <2>3 DEF Moved
  <2> QED BY <1>2, <2>1, <2>2, <2>3 DEF CleanStep, CleanUnbound, CleanGuardEnd, CleanVisitor, login
<1>3. ASSUME NEW h \in Guards, AnswerStep(h) \/ \E v \in Visitors : Consent(h, v) PROVE Moved(g)
  <2>1. ASSUME NEW v \in Visitors, Consent(h, v) PROVE Moved(g)
    <3>1. pc[h] = "idle" /\ pc' = [pc EXCEPT ![h] = "answer"] /\ serving' = [serving EXCEPT ![h] = v]
            /\ found' = found /\ left' = left
      BY <2>1 DEF Consent, Served
    <3> QED BY <1>0, <3>1 DEF Moved
  <2>2. CASE FindRoom(h)
    <3>1. /\ pc[h] = "answer" /\ left' = left /\ serving' = serving
          /\ \/ pc' = pc /\ found' = found
             \/ pc' = [pc EXCEPT ![h] = "add"] /\ \E r : found' = [found EXCEPT ![h] = r]
      BY <2>2 DEF FindRoom, Goto
    <3> QED BY <1>0, <2>2, <3>1 DEF Moved
  <2>3. CASE AddViewer(h)
    <3>1. /\ pc[h] = "add" /\ pc' = [pc EXCEPT ![h] = "idle"] /\ left' = left
          /\ serving' = [serving EXCEPT ![h] = None] /\ found' = [found EXCEPT ![h] = None]
      BY <2>3, Adds DEF AddViewer
    <3> QED BY <1>0, <2>3, <3>1 DEF Moved
  <2> QED BY <1>3, <2>1, <2>2, <2>3 DEF AnswerStep
<1>4. CASE Bystander
  BY <1>4, Bystanders DEF answer, Moved
<1> QED BY <1>1, <1>2, <1>3, <1>4, NextCases

\* A connection only ever closes.
LEMMA Closed ==
  ASSUME Types, Next, NEW c \in Connections
  PROVE  (status[c] = "gone" => status'[c] = "gone") /\ (status'[c] = "open" => status[c] = "open")
<1>0. status \in Status
  BY DEF Types, TypeOK, Status
<1>1. ASSUME NEW g \in Guards, RemoveRoom(First(left[g]), g), left[g] # {}
      PROVE  (status'[c] = "gone" <=> status[c] = "gone") /\ (status'[c] = "open" => status[c] = "open")
  <2>1. First(left[g]) \in Kinds
    BY <1>1, FirstIn DEF Types, TypeOK
  <2> QED BY <1>1, <2>1, Removes DEF Types, Closes
<1>2. CASE \E g \in Guards : RemoveRoom(First(left[g]), g) /\ left[g] # {}
  BY <1>1, <1>2
<1>3. CASE status' = status \/ \E d \in Connections : status' = [status EXCEPT ![d] = "gone"]
  BY <1>0, <1>3 DEF Status
<1>4. CASE Bystander
  BY <1>4, Bystanders
<1>5. ASSUME NEW g \in Guards, LoginStep(g) \/ LoginGuard(g)
      PROVE  status' = status \/ (RemoveRoom(First(left[g]), g) /\ left[g] # {})
  BY <1>5 DEF LoginStep, LoginGuard, CreateRoom, Rollback, Bind
<1>6. ASSUME NEW d \in Connections, CleanStep(d)
      PROVE  \/ status' = status \/ status' = [status EXCEPT ![d] = "gone"]
             \/ d \in Guards /\ RemoveRoom(First(left[d]), d) /\ left[d] # {}
  BY <1>6 DEF CleanStep, CleanUnbound, CleanGuard, CleanRoom, CleanGuardEnd, CleanVisitor
<1>7. ASSUME NEW g \in Guards, AnswerStep(g) \/ \E v \in Visitors : Consent(g, v)
      PROVE  status' = status
  BY <1>7 DEF AnswerStep, FindRoom, AddViewer, Consent
<1> QED BY <1>2, <1>3, <1>4, <1>5, <1>6, <1>7, NextCases

-----------------------------------------------------------------------------
\* As long as no login has failed, a guard has the rooms it takes for granted.

\* Some login has failed.
Failed == \E g \in Guards : pc[g] \in {"rollback", "failed"}

\* The rooms that g takes for granted.
Held(g) == IF pc[g] = "create" THEN kindsOf[g] \ left[g]
           ELSE IF pc[g] = "clean" THEN left[g]
           ELSE IF pc[g] \in {"idle", "answer", "add"} THEN kindsOf[g] ELSE {}

KeepingAt(g) == \A k \in Held(g) : Owns(g, k)
Keeping == ~Failed => \A g \in Guards : KeepingAt(g)

\* A login that has failed stays so.
LEMMA FailedStays ==
  ASSUME Types, Next, Failed
  PROVE  Failed'
<1>1. PICK g \in Guards : pc[g] \in {"rollback", "failed"}
  BY DEF Failed
<1>2. pc'[g] \in {"rollback", "failed"}
  BY <1>1, Moves DEF Moved
<1> QED BY <1>2 DEF Failed

\* What a guard takes for granted are kinds.
LEMMA HeldKinds ==
  ASSUME Types, NEW g \in Guards
  PROVE  Held(g) \subseteq Kinds
BY Constants DEF Held, Types, TypeOK

\* The rooms stay, and what g may take for granted does not become more.
LEMMA KeepingRests ==
  ASSUME NEW g \in Guards, KeepingAt(g), rooms' = rooms, Held(g)' \subseteq Held(g)
  PROVE  KeepingAt(g)'
BY DEF KeepingAt, Owns

\* Nobody else has the room that g makes.
LEMMA KeepingMade ==
  ASSUME Types, \A h \in Guards : KeepingAt(h), NEW g \in Guards, NEW k \in left[g], pc[g] = "create",
         RoomOf(k, g) = None, Puts(k, accountOf[g], g), left' = [left EXCEPT ![g] = @ \ {k}], pc' = pc,
         NEW h \in Guards
  PROVE  KeepingAt(h)'
<1>0. k \in Kinds /\ accountOf[h] \in Accounts /\ h # None /\ left'[h] = IF h = g THEN left[h] \ {k} ELSE left[h]
  BY Constants DEF Types, TypeOK
<1>1. ASSUME NEW l \in Held(h)' PROVE Owns(h, l)'
  <2>1. l \in Kinds
    BY <1>0, HeldKinds, Constants DEF Held, Types, TypeOK
  <2>2. rooms'[l][accountOf[h]] = IF l = k /\ accountOf[h] = accountOf[g] THEN g ELSE rooms[l][accountOf[h]]
    BY <1>0, <2>1 DEF Puts
  <2>3. CASE l \in Held(h)
    <3>1. rooms[l][accountOf[h]] = h
      BY <2>3 DEF KeepingAt, Owns
    <3>2. ~(l = k /\ accountOf[h] = accountOf[g])
      BY <1>0, <3>1 DEF RoomOf
    <3> QED BY <2>2, <3>1, <3>2 DEF Owns
  <2>4. CASE l \notin Held(h)
    <3>1. h = g /\ l = k
      BY <1>0, <2>4 DEF Held
    <3> QED BY <2>2, <3>1 DEF Owns
  <2> QED BY <2>3, <2>4
<1> QED BY <1>1 DEF KeepingAt

\* A clean-up removes a room that no other guard has.
LEMMA KeepingRemoved ==
  ASSUME Types, \A h \in Guards : KeepingAt(h), NEW g \in Guards, NEW k \in left[g], pc[g] = "clean",
         RemoveRoom(k, g), pc' = pc, NEW h \in Guards
  PROVE  KeepingAt(h)'
<1>0. k \in Kinds /\ accountOf[h] \in Accounts
  BY Constants DEF Types, TypeOK
<1>1. Puts(k, accountOf[g], None) /\ left'[h] = IF h = g THEN left[h] \ {k} ELSE left[h]
  <2>1. Puts(k, accountOf[g], None) /\ left' = [left EXCEPT ![g] = @ \ {k}]
    BY <1>0, Removes DEF Types
  <2>2. left \in [Guards -> SUBSET Kinds]
    BY DEF Types, TypeOK
  <2> QED BY <2>1, <2>2
<1>2. ASSUME NEW l \in Held(h)' PROVE Owns(h, l)'
  <2>1. l \in Held(h) /\ ~(h = g /\ l = k)
    BY <1>1 DEF Held
  <2>2. l \in Kinds
    BY <2>1, HeldKinds
  <2>3. rooms'[l][accountOf[h]] = IF l = k /\ accountOf[h] = accountOf[g] THEN None ELSE rooms[l][accountOf[h]]
    BY <1>0, <1>1, <2>2 DEF Puts
  <2>4. rooms[l][accountOf[h]] = h
    BY <2>1 DEF KeepingAt, Owns
  <2>5. rooms[k][accountOf[g]] = g
    BY DEF KeepingAt, Owns, Held
  <2>6. ~(l = k /\ accountOf[h] = accountOf[g])
    BY <2>1, <2>4, <2>5
  <2> QED BY <2>3, <2>4, <2>6 DEF Owns
<1> QED BY <1>2 DEF KeepingAt

\* As long as no login fails, nobody takes the room of another.
LEMMA KeepingStep ==
  ASSUME Types, Keeping, Next
  PROVE  Keeping'
<1> SUFFICES ASSUME ~Failed', NEW h \in Guards PROVE KeepingAt(h)'
  BY DEF Keeping
<1>0. /\ ~Failed /\ \A g \in Guards : KeepingAt(g)
      /\ pc \in [Connections -> Points] /\ left \in [Guards -> SUBSET Kinds] /\ \A g \in Guards : g \in Connections
  BY FailedStays, Constants DEF Keeping, Types, TypeOK
<1>1. ASSUME NEW g \in Guards, LoginStep(g) \/ LoginGuard(g) PROVE KeepingAt(h)'
  <2>1. CASE CreateRoom(g)
    <3>1. CASE pc' = [pc EXCEPT ![g] = "rollback"]
      <4>1. pc'[g] = "rollback"
        BY <1>0, <3>1
      <4> QED BY <4>1 DEF Failed
    <3>2. CASE \E k \in left[g] : /\ RoomOf(k, g) = None /\ Puts(k, accountOf[g], g)
                                   /\ left' = [left EXCEPT ![g] = @ \ {k}] /\ pc' = pc
      <4>1. pc[g] = "create"
        BY <2>1, Creates DEF Types
      <4> QED BY <1>0, <3>2, <4>1, KeepingMade
    <3> QED BY <2>1, <3>1, <3>2, Creates DEF Types
  <2>2. CASE Rollback(g)
    BY <1>0, <2>2 DEF Rollback, Failed
  <2>3. CASE Bind(g) \/ LoginGuard(g)
    <3>1. /\ rooms' = rooms
          /\ \/ pc[g] = "create" /\ left[g] = {} /\ pc' = [pc EXCEPT ![g] = "idle"] /\ left' = left
             \/ pc[g] = "new" /\ pc' = [pc EXCEPT ![g] = "create"] /\ left' = [left EXCEPT ![g] = kindsOf[g]]
      BY <2>3 DEF Bind, LoginGuard, Goto, share
    <3>2. Held(h)' \subseteq Held(h)
      BY <1>0, <3>1 DEF Held
    <3> QED BY <1>0, <3>1, <3>2, KeepingRests
  <2> QED BY <1>1, <2>1, <2>2, <2>3 DEF LoginStep
<1>2. ASSUME NEW c \in Connections, CleanStep(c) PROVE KeepingAt(h)'
  <2>1. CASE c \in Guards /\ CleanGuard(c)
    <3>1. rooms' = rooms /\ pc[c] = "idle" /\ pc' = [pc EXCEPT ![c] = "clean"] /\ left' = [left EXCEPT ![c] = kindsOf[c]]
      BY <2>1 DEF CleanGuard, Goto, share
    <3>2. Held(h)' \subseteq Held(h)
      BY <1>0, <2>1, <3>1 DEF Held
    <3> QED BY <1>0, <3>1, <3>2, KeepingRests
  <2>2. CASE c \in Guards /\ left[c] # {} /\ RemoveRoom(First(left[c]), c) /\ pc[c] = "clean" /\ pc' = pc
    BY <1>0, <2>2, FirstIn, KeepingRemoved
  <2>3. CASE UNCHANGED <<pc, left, rooms>>
    BY <1>0, <2>3, KeepingRests DEF Held
  <2> QED BY <1>2, <2>1, <2>2, <2>3 DEF CleanStep, CleanUnbound, CleanRoom, CleanGuardEnd, CleanVisitor, login, share
<1>3. ASSUME NEW g \in Guards, AnswerStep(g) \/ \E v \in Visitors : Consent(g, v) PROVE KeepingAt(h)'
  <2>1. /\ UNCHANGED <<left, rooms>>
        /\ \/ pc' = pc
           \/ pc[g] = "idle" /\ pc' = [pc EXCEPT ![g] = "answer"]
           \/ pc[g] = "answer" /\ pc' = [pc EXCEPT ![g] = "add"]
           \/ pc[g] = "add" /\ pc' = [pc EXCEPT ![g] = "idle"]
    BY <1>3 DEF AnswerStep, FindRoom, AddViewer, Consent, Served, Goto, share
  <2>2. Held(h)' = Held(h)
    BY <1>0, <2>1 DEF Held
  <2> QED BY <1>0, <2>1, <2>2, KeepingRests
<1>4. CASE Bystander
  <2>1. UNCHANGED <<left, rooms>> /\ pc'[h] = pc[h]
    BY <1>4, Bystanders DEF share
  <2> QED BY <1>0, <2>1, KeepingRests DEF Held
<1> QED BY <1>1, <1>2, <1>3, <1>4, NextCases

\* Keeping in every reachable state.
LEMMA KeepingInvariant == Spec => []Keeping
<1>1. Init => Keeping
  BY Constants DEF Init, Keeping, KeepingAt, Held
<1>2. ASSUME Keeping, UNCHANGED vars PROVE Keeping'
  BY <1>2 DEF vars, login, share, Keeping, KeepingAt, Held, Failed, Owns
<1> QED BY <1>1, <1>2, KeepingStep, Typed, PTL DEF Spec

\* An assert that fails: the room is not there for a guard that publishes, answers or is cleaned up.
LEMMA Faulting ==
  ASSUME Next, AssertsHold, ~AssertsHold'
  PROVE  \E g \in Guards :
           \/ pc[g] = "idle" /\ \E k \in kindsOf[g] : RoomOf(k, g) = None
           \/ pc[g] = "answer" /\ RoomFor(serving[g]) = None
           \/ pc[g] = "clean" /\ left[g] # {} /\ RoomOf(First(left[g]), g) = None
<1> USE DEF AssertsHold, PublishFindsRoom, CleanFindsRoom, AnswerFindsRoom
<1>1. ASSUME NEW g \in Guards, LoginStep(g) \/ LoginGuard(g) PROVE FALSE
  BY <1>1 DEF LoginStep, LoginGuard, CreateRoom, Rollback, Bind
<1>2. ASSUME NEW c \in Connections, CleanStep(c)
      PROVE  c \in Guards /\ pc[c] = "clean" /\ left[c] # {} /\ RoomOf(First(left[c]), c) = None
  BY <1>2 DEF CleanStep, CleanUnbound, CleanGuard, CleanRoom, CleanGuardEnd, CleanVisitor
<1>3. ASSUME NEW g \in Guards, AnswerStep(g) \/ \E v \in Visitors : Consent(g, v)
      PROVE  pc[g] = "answer" /\ RoomFor(serving[g]) = None
  BY <1>3 DEF AnswerStep, FindRoom, AddViewer, Consent
<1>4. ASSUME NEW g \in Guards, NEW k \in Kinds, Publish(g, k)
      PROVE  pc[g] = "idle" /\ k \in kindsOf[g] /\ RoomOf(k, g) = None
  BY <1>4 DEF Publish, Served
<1>5. CASE Bystander
  <2>1. \E g \in Guards, k \in Kinds : Publish(g, k)
    BY <1>5 DEF Bystander, Execute, Timeout, LoginVisitor, RequestVisit, FileRequest, GuardFileRequest, Kickout,
                RespondLate, Refuse, Disconnect, vars
  <2> QED BY <1>4, <2>1
<1> QED BY <1>1, <1>2, <1>3, <1>5, NextCases

\* An assert that fails finds a room missing that Keeping promises.
LEMMA AssertsStep ==
  ASSUME Types, Answering, Keeping, AssertsNeedFailedLogin, Next
  PROVE  AssertsNeedFailedLogin'
<1> SUFFICES ASSUME ~AssertsHold' PROVE Failed'
  BY DEF AssertsNeedFailedLogin, Failed
<1>1. CASE Failed
  BY <1>1, FailedStays
<1>2. CASE ~Failed
  <2>1. AssertsHold /\ \A g \in Guards : KeepingAt(g)
    BY <1>2 DEF AssertsNeedFailedLogin, Failed, Keeping
  <2>2. PICK g \in Guards :
           \/ pc[g] = "idle" /\ \E k \in kindsOf[g] : RoomOf(k, g) = None
           \/ pc[g] = "answer" /\ RoomFor(serving[g]) = None
           \/ pc[g] = "clean" /\ left[g] # {} /\ RoomOf(First(left[g]), g) = None
    BY <2>1, Faulting
  <2>3. g # None /\ \A k \in Held(g) : RoomOf(k, g) = g
    BY <2>1, Constants DEF KeepingAt, Owns, RoomOf
  <2>4. CASE pc[g] = "idle" /\ \E k \in kindsOf[g] : RoomOf(k, g) = None
    BY <2>3, <2>4 DEF Held
  <2>5. CASE pc[g] = "clean" /\ left[g] # {} /\ RoomOf(First(left[g]), g) = None
    <3>1. First(left[g]) \in left[g]
      BY <2>5, FirstIn DEF Types, TypeOK
    <3> QED BY <2>3, <2>5, <3>1 DEF Held
  <2>6. CASE pc[g] = "answer" /\ RoomFor(serving[g]) = None
    <3> DEFINE v == serving[g]
    <3>1. v \in Visitors /\ partner[v] = g
      BY <2>6 DEF Types, Handling, Answering, AnsweringAt
    <3>2. target[v] = accountOf[g] /\ kindOf[v] \in kindsOf[g] /\ accountOf[g] # None
      BY <2>3, <3>1, Constants DEF Answering, AskingAt, Opened
    <3>3. RoomFor(v) = RoomOf(kindOf[v], g)
      BY <3>2 DEF RoomFor, RoomOf
    <3> QED BY <2>3, <2>6, <3>2, <3>3 DEF Held
  <2> QED BY <2>2, <2>4, <2>5, <2>6
<1> QED BY <1>1, <1>2

\* An assert(room.get()) fails only when the login of a second guard has failed and taken
\* the rooms of its account back.
THEOREM AssertsFailAfterLoginFails == Spec => []AssertsNeedFailedLogin
<1>1. Init => AssertsNeedFailedLogin
  BY DEF Init, AssertsNeedFailedLogin, AssertsHold, PublishFindsRoom, CleanFindsRoom, AnswerFindsRoom
<1>2. ASSUME AssertsNeedFailedLogin, UNCHANGED vars PROVE AssertsNeedFailedLogin'
  BY <1>2 DEF vars, login, AssertsNeedFailedLogin, AssertsHold, PublishFindsRoom, CleanFindsRoom, AnswerFindsRoom
<1> QED BY <1>1, <1>2, AssertsStep, Typed, AnsweringInvariant, KeepingInvariant, PTL DEF Spec

-----------------------------------------------------------------------------
\* One guard connection per account at a time: the guard that is there is the only one.

\* g has begun to log in and is not cleaned up.
Active(g) == pc[g] # "new" /\ status[g] # "gone"

Lone == \A g, h \in Guards : Active(g) /\ Active(h) /\ accountOf[g] = accountOf[h] => g = h

\* g finds its own room for its visitors, has viewers only while it is bound, and its clean-up
\* has closed those of the rooms it has gone through.
ApartAt(g) ==
  /\ pc[g] = "add" => found[g] = g
  /\ \A k \in Kinds :
       /\ viewers[k][g] # {} => g \in bound
       /\ pc[g] = "clean" /\ k \notin left[g] => \A v \in viewers[k][g] : status[v] # "open"

Single == Lone /\ ~Failed /\ \A g \in Guards : ApartAt(g)
Alone == ~Overlap => Single

\* Whoever has the room of an active guard's account is that guard.
LEMMA OnlyOwner ==
  ASSUME Types, Owning, Lone, NEW g \in Guards, Active(g), NEW k \in Kinds, RoomOf(k, g) # None
  PROVE  RoomOf(k, g) = g /\ Opened(g, k)
<1>1. PICK r \in Guards : r = RoomOf(k, g)
  BY Lookup DEF Types
<1>2. accountOf[r] = accountOf[g] /\ Owns(r, k)
  BY <1>1, Constants DEF Owning, Placed, RoomOf, Owns
<1>3. Opened(r, k) /\ Active(r)
  BY <1>2 DEF Owning, OwningAt, Opened, Active
<1> QED BY <1>1, <1>2, <1>3 DEF Lone

\* A guard logs in only when none of its account is active.
LEMMA LoneStep ==
  ASSUME ~Overlap, Types, Lone, Next
  PROVE  Lone'
<1>1. ASSUME NEW g \in Guards, NEW h \in Guards, g # h, accountOf[g] = accountOf[h], Active(g)', ~Active(g), Active(h)'
      PROVE  FALSE
  <2>1. g \in Connections /\ h \in Connections
    BY Constants
  <2>2. pc[g] = "new" /\ pc'[g] # "new"
    BY <1>1, <2>1, Closed DEF Active
  <2>3. LoginGuard(g)
    BY <2>2, Moves DEF Moved
  <2>4. pc'[h] = pc[h] /\ status'[h] = status[h]
    BY <1>1, <2>1, <2>3 DEF LoginGuard, Goto, Types, TypeOK
  <2>5. pc[h] = "new" \/ status[h] = "gone"
    BY <1>1, <2>3 DEF LoginGuard
  <2> QED BY <1>1, <2>4, <2>5 DEF Active
<1>2. SUFFICES ASSUME NEW g \in Guards, NEW h \in Guards, Active(g)', Active(h)', accountOf[g] = accountOf[h], g # h
               PROVE  FALSE
  BY DEF Lone
<1>3. Active(g) /\ Active(h)
  BY <1>1, <1>2
<1> QED BY <1>2, <1>3 DEF Lone

\* A login fails only on a room of the account, whose owner would be active.
LEMMA NoLoginFails ==
  ASSUME Types, Owning, Lone, ~Failed, Next
  PROVE  ~Failed'
<1> SUFFICES ASSUME NEW g \in Guards, pc'[g] \in {"rollback", "failed"} PROVE FALSE
  BY DEF Failed
<1>1. pc[g] = "create" /\ pc'[g] = "rollback" /\ CreateRoom(g)
  BY Moves DEF Moved, Failed
<1>2. PICK k \in left[g] : RoomOf(k, g) # None
  <2>1. pc' # pc
    BY <1>1
  <2> QED BY <1>1, <2>1, Creates DEF Types
<1>3. k \in Kinds
  BY DEF Types, TypeOK
<1>4. Active(g)
  BY <1>1 DEF Owning, OwningAt, Active
<1>5. Opened(g, k)
  BY <1>2, <1>3, <1>4, OnlyOwner
<1> QED BY <1>1, <1>2, <1>5 DEF Opened

\* What is special about a guard that is alone: nobody else answers or cleans up its rooms.
LEMMA ApartStep ==
  ASSUME Types, Owning, Answering, Viewing, Keeping, Single, Next, NEW g \in Guards
  PROVE  ApartAt(g)'
<1>1. ASSUME pc'[g] = "add" PROVE found'[g] = g
  <2>1. CASE pc[g] = "add"
    <3>1. found'[g] = found[g]
      BY <1>1, <2>1, Moves DEF Moved
    <3> QED BY <2>1, <3>1 DEF Single, ApartAt
  <2>2. CASE pc[g] # "add"
    <3>1. pc[g] = "answer" /\ FindRoom(g)
      BY <1>1, <2>2, Moves DEF Moved
    <3>2. PICK v \in Visitors : v = serving[g]
      BY <3>1 DEF Types, Handling
    <3>3. partner[v] = g
      BY <3>1, <3>2 DEF Answering, AnsweringAt
    <3>4. target[v] = accountOf[g] /\ accountOf[g] # None /\ kindOf[v] \in Kinds
      BY <3>3, Constants DEF Answering, AskingAt
    <3>5. RoomFor(v) = RoomOf(kindOf[v], g)
      BY <3>4 DEF RoomFor, RoomOf
    <3>6. RoomFor(v) # None /\ found'[g] = RoomFor(v)
      BY <1>1, <2>2, <3>1, <3>2 DEF FindRoom, Types, TypeOK
    <3>7. Active(g)
      BY <3>1 DEF Owning, OwningAt, Active
    <3> QED BY <3>4, <3>5, <3>6, <3>7, OnlyOwner DEF Single
  <2> QED BY <2>1, <2>2
<1>2. ASSUME NEW k \in Kinds, NEW v \in viewers'[k][g], v \notin viewers[k][g]
      PROVE  pc[g] = "add" /\ pc'[g] = "idle"
  <2>1. PICK h \in Guards : Joins(h)
    BY <1>2, Entering
  <2>2. found[h] = g
    <3>1. viewers'[k][g] = IF k = kindOf[serving[h]] /\ g = found[h] THEN viewers[k][g] \cup {serving[h]} ELSE viewers[k][g]
      BY <2>1 DEF Joins
    <3> QED BY <1>2, <3>1
  <2>3. pc[h] = "add" /\ pc' = [pc EXCEPT ![h] = "idle"]
    BY <2>1, Adds DEF Joins
  <2>4. h = g
    BY <2>2, <2>3 DEF Single, ApartAt
  <2> QED BY <2>3, <2>4, Constants DEF Types, TypeOK
<1>3. ASSUME NEW k \in Kinds, NEW v \in viewers'[k][g] PROVE g \in bound'
  <2>1. g \in bound
    BY <1>2, <1>3 DEF Single, ApartAt, Owning, OwningAt
  <2> QED BY <2>1, Grows
<1>4. ASSUME NEW k \in Kinds, pc'[g] = "clean", k \notin left'[g], NEW v \in viewers'[k][g], status'[v] = "open"
      PROVE  FALSE
  <2>1. v \in viewers[k][g]
    BY <1>2, <1>4
  <2>2. v \in Connections /\ Opened(g, k)
    BY <2>1, Constants DEF Viewing, ViewingAt, Types, TypeOK
  <2>3. status[v] = "open"
    BY <1>4, <2>2, Closed
  <2>4. CASE pc[g] # "clean"
    <3>1. left'[g] = kindsOf[g]
      BY <1>4, <2>4, Moves DEF Moved
    <3> QED BY <1>4, <2>2, <3>1 DEF Opened
  <2>5. CASE pc[g] = "clean"
    <3>1. k \in left[g]
      BY <2>1, <2>3, <2>5 DEF Single, ApartAt
    <3>2. CleanRoom(g)
      BY <1>4, <2>5, <3>1, Moves DEF Moved
    <3>3. left[g] # {} /\ RemoveRoom(First(left[g]), g) /\ First(left[g]) \in Kinds
      BY <1>4, <3>1, <3>2, FirstIn DEF CleanRoom, Types, TypeOK
    <3>4. k = First(left[g])
      <4>1. left' = [left EXCEPT ![g] = @ \ {First(left[g])}]
        BY <3>3, Removes DEF Types
      <4> QED BY <1>4, <3>1, <4>1 DEF Types, TypeOK
    <3>5. RoomOf(k, g) = g
      BY <2>5, <3>1 DEF Single, Keeping, KeepingAt, Held, Owns, RoomOf
    <3>6. Closes(viewers[k][g])
      BY <3>3, <3>4, <3>5, Removes, Constants DEF Types
    <3> QED BY <1>4, <2>1, <2>2, <3>6 DEF Closes
  <2> QED BY <2>4, <2>5
<1> QED BY <1>1, <1>3, <1>4 DEF ApartAt

\* Without overlap there is one active guard per account, and no login fails.
LEMMA AloneInvariant == Spec => []Alone
<1>1. Init => Alone
  BY Constants DEF Init, Alone, Single, Lone, Active, Failed, ApartAt
<1>2. ASSUME Types, Owning, Answering, Viewing, Keeping, Alone, Next PROVE Alone'
  BY <1>2, LoneStep, NoLoginFails, ApartStep DEF Alone, Single
<1>3. ASSUME Alone, UNCHANGED vars PROVE Alone'
  BY <1>3 DEF vars, login, share, answer, Alone, Single, Lone, Active, Failed, ApartAt
<1> QED BY <1>1, <1>2, <1>3, Typed, OwningInvariant, AnsweringInvariant, ViewingInvariant, KeepingInvariant, PTL DEF Spec

\* With one guard connection per account at a time, every room an assert asks for is there.
THEOREM AssertsHoldAlone ==
  ASSUME ~Overlap PROVE Spec => []AssertsHold
<1>1. AssertsNeedFailedLogin /\ Alone => AssertsHold
  BY DEF AssertsNeedFailedLogin, Alone, Single, Failed
<1> QED BY <1>1, AssertsFailAfterLoginFails, AloneInvariant, PTL

\* ... and CleanUserConnection of a guard leaves none of its viewers connected.
THEOREM NoViewerBehindAlone ==
  ASSUME ~Overlap PROVE Spec => []NoViewerLeftBehind
<1>1. Types /\ Owning /\ Viewing /\ Alone => NoViewerLeftBehind
  <2>1. SUFFICES ASSUME Types, Owning, Viewing, Single, NEW g \in Guards, status[g] = "gone",
                        NEW k \in Kinds, NEW v \in viewers[k][g]
                 PROVE  status[v] # "open"
    BY DEF NoViewerLeftBehind, Alone
  <2>2. pc[g] # "new"
    BY <2>1 DEF Viewing, ViewingAt, Opened
  <2>3. pc[g] = "clean" /\ left[g] = {}
    BY <2>1, <2>2 DEF Owning, OwningAt, Single, Failed
  <2> QED BY <2>1, <2>3 DEF Single, ApartAt
<1> QED BY <1>1, Typed, OwningInvariant, ViewingInvariant, AloneInvariant, PTL

\* addViewer and removeViewer tell the owner when the room stops or starts being empty.
LEMMA AutoPublishStep ==
  ASSUME Types, Single, AutoPublishMatches, Next
  PROVE  AutoPublishMatches'
<1>0. autoPub \in [Guards -> BOOLEAN] /\ "screen" \in Kinds
  BY DEF Types, TypeOK, Kinds
<1>1. CASE UNCHANGED <<viewers, autoPub>>
  BY <1>1 DEF AutoPublishMatches
<1>2. ASSUME NEW h \in Guards, AddViewer(h), NEW g \in Guards
      PROVE  autoPub'[g] = (viewers'["screen"][g] # {})
  <2>1. CASE UNCHANGED <<viewers, autoPub>>
    BY <2>1 DEF AutoPublishMatches
  <2>2. CASE /\ Sets(kindOf[serving[h]], found[h], viewers[kindOf[serving[h]]][found[h]] \cup {serving[h]})
             /\ autoPub' = IF kindOf[serving[h]] = "screen" /\ viewers["screen"][found[h]] = {}
                           THEN [autoPub EXCEPT ![found[h]] = TRUE] ELSE autoPub
    <3>1. viewers'["screen"][g] = IF kindOf[serving[h]] = "screen" /\ g = found[h]
                                  THEN viewers["screen"][g] \cup {serving[h]} ELSE viewers["screen"][g]
      BY <1>0, <2>2 DEF Sets
    <3>2. autoPub'[g] = IF kindOf[serving[h]] = "screen" /\ g = found[h] /\ viewers["screen"][g] = {}
                        THEN TRUE ELSE autoPub[g]
      BY <1>0, <2>2
    <3>3. CASE kindOf[serving[h]] = "screen" /\ g = found[h]
      <4>1. viewers'["screen"][g] # {}
        BY <3>1, <3>3
      <4>2. autoPub'[g] = TRUE
        BY <3>2, <3>3 DEF AutoPublishMatches
      <4> QED BY <4>1, <4>2
    <3>4. CASE ~(kindOf[serving[h]] = "screen" /\ g = found[h])
      BY <3>1, <3>2, <3>4 DEF AutoPublishMatches
    <3> QED BY <3>3, <3>4
  <2> QED BY <1>2, <2>1, <2>2, Adds
<1>3. ASSUME NEW v \in Visitors, CleanVisitor(v), NEW g \in Guards
      PROVE  autoPub'[g] = (viewers'["screen"][g] # {})
  <2>1. CASE UNCHANGED <<viewers, autoPub>>
    BY <2>1 DEF AutoPublishMatches
  <2>2. ASSUME NEW r \in Guards, Sets(kindOf[v], r, viewers[kindOf[v]][r] \ {v}),
               \/ autoPub' = IF kindOf[v] = "screen" /\ viewers["screen"][r] \subseteq {v}
                             THEN [autoPub EXCEPT ![r] = FALSE] ELSE autoPub
               \/ r \notin bound /\ autoPub' = autoPub
        PROVE  autoPub'[g] = (viewers'["screen"][g] # {})
    <3>1. viewers'["screen"][g] = IF kindOf[v] = "screen" /\ g = r
                                  THEN viewers["screen"][g] \ {v} ELSE viewers["screen"][g]
      BY <1>0, <2>2 DEF Sets
    <3>2. CASE kindOf[v] = "screen" /\ g = r /\ viewers["screen"][r] \subseteq {v} /\ r \in bound
      <4>1. viewers'["screen"][g] = {}
        BY <3>1, <3>2
      <4>2. autoPub'[g] = FALSE
        BY <1>0, <2>2, <3>2
      <4> QED BY <4>1, <4>2
    <3>3. CASE kindOf[v] = "screen" /\ g = r /\ r \notin bound
      <4>1. viewers["screen"][g] = {} /\ viewers'["screen"][g] = {}
        BY <1>0, <3>1, <3>3 DEF Single, ApartAt
      <4>2. autoPub[g] = FALSE
        BY <4>1 DEF AutoPublishMatches
      <4>3. autoPub'[g] = FALSE
        BY <1>0, <2>2, <3>3, <4>2
      <4> QED BY <4>1, <4>3
    <3>4. CASE kindOf[v] = "screen" /\ g = r /\ ~(viewers["screen"][r] \subseteq {v})
      <4>1. autoPub' = autoPub /\ viewers["screen"][g] # {} /\ viewers'["screen"][g] # {}
        BY <2>2, <3>1, <3>4
      <4> QED BY <4>1 DEF AutoPublishMatches
    <3>5. CASE ~(kindOf[v] = "screen" /\ g = r)
      <4>1. autoPub'[g] = autoPub[g] /\ viewers'["screen"][g] = viewers["screen"][g]
        BY <1>0, <2>2, <3>1, <3>5
      <4> QED BY <4>1 DEF AutoPublishMatches
    <3> QED BY <3>2, <3>3, <3>4, <3>5
  <2> QED BY <1>3, <2>1, <2>2, Leaves DEF Types
<1> QED BY <1>1, <1>2, <1>3, ViewersMove DEF AutoPublishMatches

\* ... and EnableAutoPublishDesktop was last sent to the owner of a screen with what is true.
THEOREM AutoPublishAlone ==
  ASSUME ~Overlap PROVE Spec => []AutoPublishMatches
<1>1. Init => AutoPublishMatches
  <2>1. ASSUME Init, NEW g \in Guards PROVE autoPub[g] = FALSE /\ viewers["screen"][g] = {}
    BY <2>1 DEF Init, Kinds
  <2> QED BY <2>1 DEF AutoPublishMatches
<1>2. ASSUME Types, Alone, AutoPublishMatches, Next PROVE AutoPublishMatches'
  BY <1>2, AutoPublishStep DEF Alone
<1>3. ASSUME AutoPublishMatches, UNCHANGED vars PROVE AutoPublishMatches'
  BY <1>3 DEF vars, share, AutoPublishMatches
<1> QED BY <1>1, <1>2, <1>3, Typed, AloneInvariant, PTL DEF Spec

-----------------------------------------------------------------------------
\* Terminals.

\* An open terminal has its visitor among the viewers, or it is being answered.
TerminalAt(v) ==
  terminal[v] = "open" =>
    /\ kindOf[v] = "terminal" /\ partner[v] \in Guards
    /\ v \in viewers["terminal"][partner[v]] \/ serving[partner[v]] = v

Tended == \A v \in Visitors : TerminalAt(v)

\* A guard whose clean-up has begun is not connected.
Cleaning == \A g \in Guards : pc[g] = "clean" => status[g] # "open"

LEMMA CleaningInvariant == Spec => []Cleaning
<1>1. Init => Cleaning
  BY Constants DEF Init, Cleaning
<1>2. ASSUME Types, Cleaning, Next PROVE Cleaning'
  <2>1. SUFFICES ASSUME NEW g \in Guards, pc'[g] = "clean", status'[g] = "open" PROVE FALSE
    BY DEF Cleaning
  <2>2. status[g] = "open"
    BY <1>2, <2>1, Closed, Constants
  <2>3. pc[g] = "clean" \/ status[g] # "open"
    BY <1>2, <2>1, Moves DEF Moved
  <2> QED BY <1>2, <2>2, <2>3 DEF Cleaning
<1>3. ASSUME Cleaning, UNCHANGED vars PROVE Cleaning'
  BY <1>3 DEF vars, login, Cleaning
<1> QED BY <1>1, <1>2, <1>3, Typed, PTL DEF Spec

\* Whom a task has asked does not change.
LEMMA AskedOnce ==
  ASSUME Types, Answering, Next, NEW v \in Visitors, partner[v] # None
  PROVE  partner'[v] = partner[v]
<1>1. ASSUME NEW w \in Visitors, Execute(w) PROVE partner'[v] = partner[v]
  <2>1. partner' = partner \/ (w \notin asked /\ partner' = [partner EXCEPT ![w] = RoomFor(w)])
    BY <1>1 DEF Execute, task
  <2>2. v \in asked
    BY DEF Answering, AskingAt
  <2> QED BY <2>1, <2>2 DEF Types, TypeOK
<1>2. ASSUME NEW g \in Guards, LoginStep(g) \/ LoginGuard(g) PROVE partner' = partner
  BY <1>2 DEF LoginStep, LoginGuard, CreateRoom, Rollback, Bind, visit
<1>3. ASSUME NEW c \in Connections, CleanStep(c) PROVE partner' = partner
  BY <1>3 DEF CleanStep, CleanUnbound, CleanGuard, CleanRoom, CleanGuardEnd, CleanVisitor, visit
<1>4. ASSUME NEW g \in Guards, AnswerStep(g) \/ \E w \in Visitors : Consent(g, w) PROVE partner' = partner
  BY <1>4 DEF AnswerStep, FindRoom, AddViewer, Consent, visit
<1>5. CASE Bystander
  <2>1. (\E w \in Visitors : Execute(w)) \/ partner' = partner
    BY <1>5 DEF Bystander, Timeout, LoginVisitor, RequestVisit, FileRequest, GuardFileRequest, Kickout, Publish,
                RespondLate, Refuse, Disconnect, vars, visit
  <2> QED BY <1>1, <2>1
<1> QED BY <1>2, <1>3, <1>4, <1>5, NextCases

\* Only a guard's consent opens a terminal.
LEMMA Opening ==
  ASSUME Types, Next, NEW v \in Visitors, terminal'[v] = "open", terminal[v] # "open"
  PROVE  \E g \in Guards : Consent(g, v) /\ kindOf[v] = "terminal"
<1>0. terminal \in [Visitors -> {"none", "open", "closed"}]
  BY DEF Types, TypeOK
<1>1. ASSUME NEW g \in Guards, LoginStep(g) \/ LoginGuard(g) PROVE FALSE
  BY <1>1 DEF LoginStep, LoginGuard, CreateRoom, Rollback, Bind
<1>2. ASSUME NEW c \in Connections, CleanStep(c) PROVE FALSE
  <2>1. CASE c \in Visitors /\ CleanVisitor(c)
    <3>1. terminal' = terminal \/ terminal' = [terminal EXCEPT ![c] = "closed"]
      BY <2>1, Leaves DEF Types
    <3> QED BY <1>0, <3>1
  <2>2. CASE terminal' = terminal
    BY <2>2
  <2> QED BY <1>2, <2>1, <2>2 DEF CleanStep, CleanUnbound, CleanGuard, CleanRoom, CleanGuardEnd
<1>3. ASSUME NEW g \in Guards, AnswerStep(g) \/ \E w \in Visitors : Consent(g, w)
      PROVE  Consent(g, v) /\ kindOf[v] = "terminal"
  <2>1. PICK w \in Visitors : Consent(g, w)
    BY <1>3 DEF AnswerStep, FindRoom, AddViewer
  <2>2. terminal' = IF kindOf[w] = "terminal" THEN [terminal EXCEPT ![w] = "open"] ELSE terminal
    BY <2>1 DEF Consent
  <2>3. w = v /\ kindOf[w] = "terminal"
    BY <1>0, <2>2
  <2> QED BY <2>1, <2>3
<1>4. CASE Bystander
  <2>1. ASSUME NEW g \in Guards, NEW w \in Visitors, RespondLate(g, w) PROVE FALSE
    <3>1. terminal' = [terminal EXCEPT ![w] = "closed"]
      BY <2>1 DEF RespondLate
    <3> QED BY <1>0, <3>1
  <2>2. (\E g \in Guards, w \in Visitors : RespondLate(g, w)) \/ terminal' = terminal
    BY <1>4 DEF Bystander, Execute, Timeout, LoginVisitor, RequestVisit, FileRequest, GuardFileRequest, Kickout,
                Publish, Refuse, Disconnect, vars
  <2> QED BY <2>1, <2>2
<1> QED BY <1>1, <1>2, <1>3, <1>4, NextCases

\* A terminal's visitor is being answered, then a viewer, and its clean-up closes the terminal.
LEMMA TendedStep ==
  ASSUME Types, Owning, Answering, Viewing, Single, Tended, Next
  PROVE  Tended'
<1> SUFFICES ASSUME NEW v \in Visitors, terminal'[v] = "open"
             PROVE  /\ kindOf[v] = "terminal" /\ partner'[v] \in Guards
                    /\ v \in viewers'["terminal"][partner'[v]] \/ serving'[partner'[v]] = v
  BY DEF Tended, TerminalAt
<1>0. "terminal" \in Kinds
  BY DEF Kinds
<1>1. CASE terminal[v] # "open"
  <2>1. PICK g \in Guards : Consent(g, v) /\ kindOf[v] = "terminal"
    BY <1>1, Opening
  <2>2. partner'[v] = g /\ serving'[g] = v
    BY <2>1 DEF Consent, visit, Types, TypeOK
  <2> QED BY <2>1, <2>2
<1>2. CASE terminal[v] = "open"
  <2>1. PICK p \in Guards : p = partner[v]
    BY <1>2 DEF Tended, TerminalAt
  <2>2. kindOf[v] = "terminal" /\ partner'[v] = p /\ (v \in viewers["terminal"][p] \/ serving[p] = v)
    BY <1>2, <2>1, AskedOnce, Constants DEF Tended, TerminalAt
  <2>3. CASE v \in viewers["terminal"][p]
    <3>1. ASSUME v \notin viewers'["terminal"][p] PROVE FALSE
      <4>1. viewers' # viewers
        BY <2>3, <3>1
      <4>2. ~ \E h \in Guards : AddViewer(h)
        <5>1. ASSUME NEW h \in Guards, Sets(kindOf[serving[h]], found[h], viewers[kindOf[serving[h]]][found[h]] \cup {serving[h]})
              PROVE  v \in viewers'["terminal"][p]
          <6>1. viewers'["terminal"][p] = IF "terminal" = kindOf[serving[h]] /\ p = found[h]
                                          THEN viewers["terminal"][p] \cup {serving[h]} ELSE viewers["terminal"][p]
            BY <1>0, <5>1 DEF Sets
          <6> QED BY <2>3, <6>1
        <5> QED BY <3>1, <4>1, <5>1, Adds
      <4>3. PICK u \in Visitors : CleanVisitor(u)
        BY <4>1, <4>2, ViewersMove
      <4>4. PICK r \in Guards :
              /\ Sets(kindOf[u], r, viewers[kindOf[u]][r] \ {u})
              /\ \/ terminal' = IF kindOf[u] = "terminal" /\ u \in viewers["terminal"][r]
                                THEN [terminal EXCEPT ![u] = "closed"] ELSE terminal
                 \/ kindOf[u] = "screen"
        BY <4>1, <4>3, Leaves DEF Types
      <4>5. viewers'["terminal"][p] = IF "terminal" = kindOf[u] /\ p = r
                                      THEN viewers["terminal"][p] \ {u} ELSE viewers["terminal"][p]
        BY <1>0, <4>4 DEF Sets
      <4>6. u = v /\ r = p /\ kindOf[u] = "terminal"
        BY <2>3, <3>1, <4>5
      <4>7. terminal' = [terminal EXCEPT ![v] = "closed"]
        BY <2>3, <4>4, <4>6
      <4> QED BY <4>7 DEF Types, TypeOK
    <3> QED BY <2>2, <3>1
  <2>4. CASE serving[p] = v /\ serving'[p] # v
    <3>1. pc[p] \in {"answer", "add"}
      BY <2>4, Constants DEF Types, Handling
    <3>2. AddViewer(p)
      <4>1. pc'[p] = pc[p] => serving'[p] = serving[p]
        BY <3>1, Moves DEF Moved
      <4>2. FindRoom(p) => serving' = serving
        BY DEF FindRoom
      <4> QED BY <2>4, <3>1, <4>1, <4>2, Moves DEF Moved
    <3>3. found[p] = p
      BY <3>2, Adds DEF Single, ApartAt
    <3>4. Sets("terminal", p, viewers["terminal"][p] \cup {v})
      <4>1. Admits(kindOf[v], p, v)
        BY <2>2 DEF Admits
      <4>2. Admits(kindOf[serving[p]], found[p], serving[p])
        BY <2>4, <3>3, <4>1
      <4>3. Sets(kindOf[serving[p]], found[p], viewers[kindOf[serving[p]]][found[p]] \cup {serving[p]})
        BY <3>2, <4>2, Adds
      <4> QED BY <2>2, <2>4, <3>3, <4>3
    <3>5. viewers'["terminal"][p] = viewers["terminal"][p] \cup {v}
      BY <1>0, <3>4 DEF Sets
    <3> QED BY <2>2, <3>5
  <2> QED BY <2>2, <2>3, <2>4
<1> QED BY <1>1, <1>2

\* ... and every terminal that is open has its visitor to close it.
THEOREM TerminalsTendedAlone ==
  ASSUME ~Overlap PROVE Spec => []TerminalHasViewer
<1>1. Init => Tended
  BY DEF Init, Tended, TerminalAt
<1>2. ASSUME Types, Owning, Answering, Viewing, Alone, Tended, Next PROVE Tended'
  BY <1>2, TendedStep DEF Alone
<1>3. ASSUME Tended, UNCHANGED vars PROVE Tended'
  BY <1>3 DEF vars, share, visit, answer, Tended, TerminalAt
<1>4. Types /\ Owning /\ Viewing /\ Keeping /\ Alone /\ Cleaning /\ GhostsComeLate /\ Tended => TerminalHasViewer
  <2>1. SUFFICES ASSUME Types, Owning, Viewing, Keeping, Alone, Cleaning, GhostsComeLate, Tended,
                        NEW v \in Visitors, terminal[v] = "open", serving[partner[v]] # v,
                        status[v] = "gone", status[partner[v]] = "open"
                 PROVE  v \in late
    BY DEF TerminalHasViewer, Tended, TerminalAt
  <2> DEFINE g == partner[v]
  <2>2. g \in Guards /\ v \in viewers["terminal"][g] /\ "terminal" \in Kinds
    BY <2>1 DEF Tended, TerminalAt, Kinds
  <2>3. "terminal" \in kindsOf[g] /\ g \in bound
    BY <2>1, <2>2 DEF Viewing, ViewingAt, Opened, Alone, Single, ApartAt
  <2>4. pc[g] \in {"idle", "answer", "add"}
    BY <2>1, <2>2, <2>3 DEF Owning, OwningAt, Cleaning
  <2>5. Owns(g, "terminal")
    BY <2>1, <2>2, <2>3, <2>4 DEF Keeping, KeepingAt, Held, Alone, Single
  <2>6. accountOf[g] \in Accounts /\ g # None
    BY <2>2, Constants
  <2> QED BY <2>1, <2>2, <2>5, <2>6 DEF Owns, GhostsComeLate
<1> QED BY <1>1, <1>2, <1>3, <1>4, GhostsAreLate, Typed, OwningInvariant, AnsweringInvariant, ViewingInvariant,
           KeepingInvariant, AloneInvariant, CleaningInvariant, PTL DEF Spec
=============================================================================
