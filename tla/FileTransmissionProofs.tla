----------------------- MODULE FileTransmissionProofs -----------------------
(***************************************************************************)
(* For any number of blocks, tasks, resumptions and mishaps:               *)
(*   - a task that waits, prepares or transmits is never out of exec's     *)
(*     sight (NobodyForgotten);                                            *)
(*   - a task the guard serves leaves m_tasks only by a request of the     *)
(*     viewer, by a restart, or because exec has kept an older task of the *)
(*     same id (EvictedByRequestOrOldTask);                                *)
(*   - a transfer whose blocks all reached their writer is a file copy,    *)
(*     block by block and in order (CopyImplemented).                      *)
(*                                                                         *)
(* Shape gives the types these arguments need: tasks, rows, lists,         *)
(* messages and the thread of the answers. It leaves the bounds of the     *)
(* blocks and of the guard's objects to the model checker.                 *)
(*                                                                         *)
(* The copy needs the invariant Sound: as long as nothing is torn,         *)
(* Conversation says which messages may still be on their way, about which *)
(* task and in which order, and Copying what the file then holds. Most     *)
(* steps are Routine: they add nothing to the conversation but an answer   *)
(* in the place of its request. The others each have a lemma, once for the *)
(* conversation, once for the copy of a download, once for that of an      *)
(* upload. Last, each step is shown to be one of FileCopy or a stutter.    *)
(***************************************************************************)
EXTENDS FileTransmission, SequenceTheorems, FiniteSetTheorems, TLAPS

\* A task, its row, and the messages of both directions.
TaskRec == [state : States \cup {"none"}, progress : Nat, fp : Modes, force : BOOLEAN]
RowRec  == [state : States \cup {"none"}, progress : Nat]
Up == [kind : {"Open"}, id : Ids, seek : Nat, force : BOOLEAN]
        \cup [kind : {"Read", "Write"}, id : Ids, seek : Nat] \cup [kind : {"Close"}, id : Ids]
Down == [kind : {"OpenOk", "ReadOk", "WriteOk"}, id : Ids, seek : Nat]
          \cup [kind : {"OpenErr", "ReadErr", "WriteErr"}, id : Ids,
              err : {"exists", "eof", "failed"}]

\* The state, part by part.
TasksShape == task \in [Ids -> TaskRec] /\ row \in [Ids -> RowRec]
ListsShape == live \subseteq Ids /\ queue \in Seq(Ids) /\ exec \in Names /\ asked \subseteq Ids
IOShape == /\ io \in [do : {"none", "request", "block", "write"}, id : Names, seek : Nat]
           /\ io.do # "none" => io.id \in Ids
NetShape == online \in BOOLEAN /\ up \in Seq(Up) /\ down \in Seq(Down)
TableShape == table = [i \in Ids |-> table[i]]
Shape == TasksShape /\ ListsShape /\ IOShape /\ NetShape /\ TableShape

\* What the bounds say.
LEMMA ConstFacts ==
  /\ MaxTasks \in Nat /\ MaxTasks > 0 /\ N \in Nat
  /\ \A i \in Ids : i \in Names
BY Bounds DEF Ids, Names
-----------------------------------------------------------------------------
(* Sequences. *)

\* x is somewhere in q.
In(x, q) == \E n \in DOMAIN q : q[n] = x

\* Appending puts the new element in, and loses none.
LEMMA InAppend ==
  ASSUME NEW S, NEW q \in Seq(S), NEW x \in S
  PROVE  Append(q, x) \in Seq(S) /\ \A y : In(y, Append(q, x)) <=> In(y, q) \/ y = x
<1>1. /\ Append(q, x) \in Seq(S) /\ Len(q) \in Nat /\ Len(Append(q, x)) = Len(q) + 1
      /\ DOMAIN q = 1..Len(q) /\ DOMAIN Append(q, x) = 1..(Len(q) + 1)
      /\ \A n \in 1..Len(q) : Append(q, x)[n] = q[n]
      /\ Append(q, x)[Len(q) + 1] = x
  OBVIOUS
<1> QED
  BY <1>1 DEF In

\* Popping loses the head only.
LEMMA InTail ==
  ASSUME NEW S, NEW q \in Seq(S), q # <<>>
  PROVE  Head(q) \in S /\ Tail(q) \in Seq(S) /\ \A y : In(y, q) => In(y, Tail(q)) \/ y = Head(q)
<1>1. /\ Head(q) = q[1] /\ Head(q) \in S /\ Tail(q) \in Seq(S) /\ Len(Tail(q)) = Len(q) - 1
           /\ Len(q) \in Nat /\ Len(q) > 0
      /\ DOMAIN q = 1..Len(q) /\ DOMAIN Tail(q) = 1..(Len(q) - 1)
      /\ \A n \in 1..(Len(q) - 1) : Tail(q)[n] = q[n + 1]
  OBVIOUS
<1>2. ASSUME NEW n \in 1..Len(q), n # 1 PROVE n - 1 \in DOMAIN Tail(q) /\ Tail(q)[n - 1] = q[n]
  BY <1>1, <1>2
<1>3. ASSUME NEW y, In(y, q), y # Head(q) PROVE In(y, Tail(q))
  <2>1. PICK n \in DOMAIN q : q[n] = y
    BY <1>3 DEF In
  <2>2. n # 1
    BY <1>1, <1>3, <2>1
  <2> QED
    BY <1>1, <1>2, <2>1, <2>2 DEF In
<1> QED
  BY <1>1, <1>3

\* Every set of numbers that is not empty has a least one: the intervals 0..n are ordered
\* by inclusion, which is well-founded on finite sets.
LEMMA LeastNumber ==
  ASSUME NEW H \in SUBSET Nat, H # {}
  PROVE  \E n \in H : \A m \in H : n <= m
<1> DEFINE T == {0..n : n \in H}
<1>1. ASSUME NEW n \in H PROVE 0..n \in FiniteSubsetsOf(Nat)
  <2>1. IsFiniteSet(0..n) /\ 0..n \in SUBSET Nat
    BY FS_Interval
  <2> QED
    BY <2>1 DEF FiniteSubsetsOf
<1>2. T \subseteq FiniteSubsetsOf(Nat) /\ T # {}
  BY <1>1
<1>3. PICK t \in T : \A u \in T : ~ (<<u, t>> \in StrictSubsetOrdering(Nat))
  <2> HIDE DEF T
  <2> QED
    BY <1>2, FS_StrictSubsetOrderingWellFounded, WFMin
<1>4. PICK n \in H : t = 0..n
  OBVIOUS
<1>5. ASSUME NEW m \in H, m < n PROVE FALSE
  <2>1. 0..m \in SUBSET Nat /\ 0..n \in SUBSET Nat /\ 0..m \subseteq 0..n
    BY <1>5
  <2>2. n \in 0..n /\ n \notin 0..m
    BY <1>5
  <2>3. <<0..m, 0..n>> \in StrictSubsetOrdering(Nat)
    BY <2>1, <2>2 DEF StrictSubsetOrdering
  <2> QED
    BY <1>3, <1>4, <2>3
<1> QED
  BY <1>5

\* The length of what follows the k-th of l elements.
LEMMA RestLength ==
  ASSUME NEW l \in Nat, NEW k \in 1..l
  PROVE  l - (k + 1) + 1 = l - k /\ (IF k + 1 <= l THEN l - (k + 1) + 1 ELSE 0) = l - k
OBVIOUS

\* WithoutFirst takes one element of T out, or none.
LEMMA WithoutShape ==
  ASSUME NEW S, NEW q \in Seq(S), NEW T
  PROVE  \/ WithoutFirst(q, T) = q
         \/ \E k \in 1..Len(q) :
              /\ q[k] \in T /\ WithoutFirst(q, T) \in Seq(S)
              /\ DOMAIN WithoutFirst(q, T) = 1..(Len(q) - 1)
              /\ \A n \in 1..(Len(q) - 1) :
                   WithoutFirst(q, T)[n] = IF n < k THEN q[n] ELSE q[n + 1]
<1> DEFINE hits == {n \in DOMAIN q : q[n] \in T}
<1>0. DOMAIN q = 1..Len(q) /\ Len(q) \in Nat
  BY LenProperties
<1>1. CASE hits = {}
  BY <1>1 DEF WithoutFirst
<1>2. CASE hits # {}
  <2>1. \E n \in hits : \A m \in hits : n <= m
    <3>1. hits \in SUBSET Nat
      BY <1>0
    <3> HIDE DEF hits
    <3> QED
      BY <1>2, <3>1, LeastNumber
  <2> DEFINE k == CHOOSE n \in hits : \A m \in hits : n <= m
  <2>2. k \in hits
    <3> HIDE DEF hits
    <3> QED
      BY <2>1
  <2>0. WithoutFirst(q, T) = RemoveAt(q, k)
    BY <1>2 DEF WithoutFirst
  <2> HIDE DEF k
  <2>3. k \in 1..Len(q) /\ q[k] \in T
    BY <1>0, <2>2
  <2> DEFINE a == SubSeq(q, 1, k - 1)
             b == SubSeq(q, k + 1, Len(q))
  <2>4. a \in Seq(S) /\ Len(a) = k - 1 /\ \A n \in 1..(k - 1) : a[n] = q[n]
    <3>1. \A n \in 1..(k - 1) : q[n] \in S
      BY <1>0, <2>3, ElementOfSeq
    <3>2. k - 1 \in Int /\ 1 \in Int
      BY <1>0, <2>3
    <3>3. /\ a \in Seq(S) /\ Len(a) = IF 1 <= k - 1 THEN (k - 1) - 1 + 1 ELSE 0
          /\ \A n \in 1..((k - 1) - 1 + 1) : a[n] = q[1 + n - 1]
      BY <3>1, <3>2, SubSeqProperties
    <3> QED
      BY <1>0, <2>3, <3>3
  <2>5. b \in Seq(S) /\ Len(b) = Len(q) - k /\ \A n \in 1..(Len(q) - k) : b[n] = q[n + k]
    <3>1. \A n \in (k + 1)..Len(q) : q[n] \in S
      BY <1>0, <2>3, ElementOfSeq
    <3>2. k + 1 \in Int /\ Len(q) \in Int
      BY <1>0, <2>3
    <3>3. /\ b \in Seq(S) /\ Len(b) = IF k + 1 <= Len(q) THEN Len(q) - (k + 1) + 1 ELSE 0
          /\ \A n \in 1..(Len(q) - (k + 1) + 1) : b[n] = q[k + 1 + n - 1]
      BY <3>1, <3>2, SubSeqProperties
    <3>4. Len(b) = Len(q) - k /\ Len(q) - (k + 1) + 1 = Len(q) - k
      <4>1. Len(q) \in Nat /\ k \in 1..Len(q)
        BY <1>0, <2>3
      <4> QED
        BY <3>3, <4>1, RestLength
    <3>5. ASSUME NEW n \in 1..(Len(q) - k) PROVE b[n] = q[n + k]
      <4>1. k + 1 + n - 1 = n + k /\ n \in 1..(Len(q) - (k + 1) + 1)
        BY <1>0, <2>3
      <4>2. b[n] = q[k + 1 + n - 1]
        BY <3>3, <4>1
      <4> QED
        BY <4>1, <4>2
    <3> QED
      BY <3>3, <3>4, <3>5
  <2>6. WithoutFirst(q, T) = a \o b
    BY <2>0 DEF RemoveAt
  <2> HIDE DEF a, b
  <2>7. /\ a \o b \in Seq(S) /\ Len(a \o b) = Len(q) - 1 /\ DOMAIN (a \o b) = 1..(Len(q) - 1)
        /\ \A n \in 1..(Len(q) - 1) : (a \o b)[n] = IF n <= k - 1 THEN a[n] ELSE b[n - (k - 1)]
    <3>1. /\ a \o b \in Seq(S) /\ Len(a \o b) = Len(a) + Len(b)
          /\ \A n \in 1..(Len(a) + Len(b)) :
                (a \o b)[n] = IF n <= Len(a) THEN a[n] ELSE b[n - Len(a)]
      BY <2>4, <2>5, ConcatProperties
    <3>2. Len(a) + Len(b) = Len(q) - 1
      BY <1>0, <2>3, <2>4, <2>5
    <3>3. DOMAIN (a \o b) = 1..Len(a \o b)
      BY <3>1, LenProperties
    <3> QED
      BY <2>4, <3>1, <3>2, <3>3
  <2>8. ASSUME NEW n \in 1..(Len(q) - 1)
        PROVE  (a \o b)[n] = IF n < k THEN q[n] ELSE q[n + 1]
    <3>1. CASE n < k
      <4>1. n <= k - 1 /\ n \in 1..(k - 1)
        BY <1>0, <2>3, <2>8, <3>1
      <4> QED
        BY <2>4, <2>7, <3>1, <4>1
    <3>2. CASE ~(n < k)
      <4>1. /\ ~(n <= k - 1) /\ n - (k - 1) \in 1..(Len(q) - k)
            /\ (n - (k - 1)) + k = n + 1
        BY <1>0, <2>3, <2>8, <3>2
      <4> QED
        BY <2>5, <2>7, <3>2, <4>1
    <3> QED
      BY <3>1, <3>2
  <2> QED
    BY <2>3, <2>6, <2>7, <2>8
<1> QED
  BY <1>1, <1>2

\* WithoutFirst loses nothing but an element of T.
LEMMA InWithout ==
  ASSUME NEW S, NEW q \in Seq(S), NEW T
  PROVE  WithoutFirst(q, T) \in Seq(S) /\ \A y : In(y, q) /\ y \notin T
           => In(y, WithoutFirst(q, T))
<1> DEFINE w == WithoutFirst(q, T)
<1>0. DOMAIN q = 1..Len(q) /\ Len(q) \in Nat
  BY LenProperties
<1> HIDE DEF w
<1>1. CASE w = q
  BY <1>1 DEF w
<1>2. CASE w # q
  <2>1. PICK k \in 1..Len(q) :
          /\ q[k] \in T /\ w \in Seq(S) /\ DOMAIN w = 1..(Len(q) - 1)
          /\ \A n \in 1..(Len(q) - 1) : w[n] = IF n < k THEN q[n] ELSE q[n + 1]
    BY <1>2, WithoutShape DEF w
  <2>2. ASSUME NEW n \in 1..Len(q), q[n] \notin T
        PROVE  \E m \in 1..(Len(q) - 1) : w[m] = q[n]
    <3>1. CASE n < k
      <4>1. n \in 1..(Len(q) - 1)
        BY <1>0, <3>1
      <4> QED
        BY <2>1, <3>1, <4>1
    <3>2. CASE n > k
      <4>1. n - 1 \in 1..(Len(q) - 1) /\ ~(n - 1 < k) /\ (n - 1) + 1 = n
        BY <1>0, <3>2
      <4> QED
        BY <2>1, <4>1
    <3> QED
      BY <1>0, <2>1, <2>2, <3>1, <3>2
  <2> QED
    BY <1>0, <2>1, <2>2 DEF In, w
<1> QED
  BY <1>1, <1>2
-----------------------------------------------------------------------------
(* The shape of the state. *)

\* initIO returns a mode of fopen, or a closed file.
LEMMA InitIOModes ==
  ASSUME NEW w, NEW fp \in Modes, NEW p, NEW f, NEW g
  PROVE  InitIO(w, fp, p, f).fp \in Modes
BY DEF InitIO, Modes

\* What Become, Progressed and Send leave of the shape.
LEMMA BecomeShape ==
  ASSUME TasksShape, NEW i \in Ids, NEW t \in TaskRec, Become(i, t) \/ Progressed(i, t)
  PROVE  TasksShape' /\ task' = [task EXCEPT ![i] = t]
<1>1. task' = [task EXCEPT ![i] = t] /\ row' \in {row, Flushed(i, t)}
  BY DEF Become, Progressed
<1>2. task' \in [Ids -> TaskRec]
  BY <1>1 DEF TasksShape
<1>3. [state |-> t.state, progress |-> t.progress] \in RowRec
  BY DEF TaskRec, RowRec
<1>4. Flushed(i, t) \in [Ids -> RowRec]
  BY <1>3 DEF TasksShape, Flushed
<1> QED
  BY <1>1, <1>2, <1>4 DEF TasksShape

\* A message sent is the last of up, or lost.
LEMMA SendShape ==
  ASSUME up \in Seq(Up), NEW m \in Up, Send(m)
  PROVE  up' \in Seq(Up)
BY DEF Send

\* A task in another state.
LEMMA StateChange ==
  ASSUME NEW t \in TaskRec, NEW s \in States
  PROVE  [t EXCEPT !.state = s] \in TaskRec /\ [t EXCEPT !.state = s].state = s
BY DEF TaskRec

\* A task, or a row, that begins.
LEMMA NewTask ==
  ASSUME NEW s \in States, NEW p \in Nat, NEW f \in BOOLEAN
  PROVE  /\ NoTask \in TaskRec /\ NoRow \in RowRec
         /\ [NoTask EXCEPT !.state = s, !.progress = p, !.force = f] \in TaskRec
         /\ [NoTask EXCEPT !.progress = p, !.state = s] \in TaskRec
         /\ [NoTask EXCEPT !.state = s] \in TaskRec
         /\ [state |-> s, progress |-> p] \in RowRec
BY DEF TaskRec, RowRec, NoTask, NoRow, Modes

\* The messages the two sides make.
LEMMA Messages ==
  ASSUME NEW i \in Ids, NEW n \in Nat, NEW f \in BOOLEAN
  PROVE  /\ Open(i, n, f) \in Up /\ Close(i) \in Up
         /\ \A k \in {"Read", "Write"} : Request(k, i, n) \in Up
         /\ \A k \in {"OpenOk", "ReadOk", "WriteOk"} : Request(k, i, n) \in Down
         /\ \A k \in {"OpenErr", "ReadErr", "WriteErr"}, e \in {"exists", "eof", "failed"} :
              Err(k, i, e) \in Down
BY DEF Up, Down, Open, Close, Request, Err

\* The states of a task, by their names.
LEMMA StateNames ==
  {"PREPARING", "TRANSMITTING", "WAITING_FOR_START", "STOPED", "FINISHED", "FAILED"} = States
BY DEF States, Active

\* Initially.
LEMMA InitShape ==
  ASSUME Init
  PROVE  Shape
<1>1. TasksShape
  <2>1. NoTask \in TaskRec /\ NoRow \in RowRec
    BY DEF TaskRec, RowRec, NoTask, NoRow, Modes
  <2> QED
    BY <2>1 DEF Init, TasksShape
<1>2. ListsShape
  BY ConstFacts DEF Init, ListsShape, Names
<1>3. IOShape /\ NetShape /\ TableShape
  BY ConstFacts DEF Init, IOShape, NetShape, TableShape, NoIO, Names
<1> QED
  BY <1>1, <1>2, <1>3 DEF Shape

\* The user's clicks keep the shape.
LEMMA UserShape ==
  ASSUME Shape, User
  PROVE  Shape'
<1> USE DEF Shape
<1>0. UNCHANGED io /\ UNCHANGED <<online, down>> /\ UNCHANGED table /\ exec' = exec
  BY DEF User, AddTask, RemoveTask, Overwrite, StopTask, ResumeTask, net, guard
<1>1. IOShape' /\ TableShape'
  BY <1>0 DEF IOShape, TableShape
<1>2. CASE AddTask
  <2>1. PICK i \in Fresh : Added(i, 0, FALSE) /\ live' = {i} /\ queue' = Append(queue, i)
    BY <1>2 DEF AddTask
  <2>2. i \in Ids
    BY <2>1 DEF Fresh
  <2>3. TasksShape'
    <3>1. [NoTask EXCEPT !.state = "WAITING_FOR_START", !.progress = 0,
            !.force = FALSE] \in TaskRec
      BY NewTask, StateNames
    <3>2. [state |-> "WAITING_FOR_START", progress |-> 0] \in RowRec
      BY NewTask, StateNames
    <3>3. [NoTask EXCEPT !.state = "WAITING_FOR_START", !.progress = 0,
            !.force = FALSE].state = "WAITING_FOR_START"
      BY DEF NoTask
    <3> QED
      BY <2>1, <2>2, <3>1, <3>2, <3>3 DEF TasksShape, Added
  <2>4. ListsShape'
    BY <1>2, <2>1, <2>2, <1>0, InAppend DEF AddTask, ListsShape
  <2>5. NetShape'
    BY <1>2 DEF AddTask, net, NetShape
  <2> QED
    BY <1>1, <2>3, <2>4, <2>5
<1>3. ASSUME NEW i \in Ids, RemoveTask(i) PROVE Shape'
  <2>1. TasksShape'
    BY <1>3, NewTask, StateNames DEF RemoveTask, TasksShape, RowRec, NoRow
  <2>2. ListsShape'
    BY <1>3, InWithout DEF RemoveTask, ListsShape
  <2>3. NetShape'
    BY <1>3 DEF RemoveTask, net, NetShape
  <2> QED
    BY <1>1, <2>1, <2>2, <2>3
<1>4. ASSUME NEW i \in Ids, Overwrite(i) PROVE Shape'
  <2>1. NetShape'
    BY <1>4 DEF Overwrite, net, NetShape
  <2>2. CASE UNCHANGED <<task, live, queue, row>>
    <3>1. TasksShape' /\ ListsShape'
      BY <1>4, <2>2 DEF Overwrite, TasksShape, ListsShape
    <3> QED
      BY <1>1, <2>1, <3>1
  <2>3. CASE ~ UNCHANGED <<task, live, queue, row>>
    <3>1. PICK j \in Fresh :
            /\ live' = (live \ {i}) \cup {j}
            /\ queue' = Append(WithoutFirst(queue, {i}), j)
            /\ task' = [task EXCEPT ![j] = [NoTask EXCEPT !.state = "WAITING_FOR_START",
                                              !.progress = task[i].progress, !.force = TRUE]]
            /\ row' = [row EXCEPT ![i] = NoRow,
                         ![j] = [state |-> "WAITING_FOR_START", progress |-> task[i].progress]]
      BY <1>4, <2>3 DEF Overwrite
    <3>2. j \in Ids /\ task[i].progress \in Nat
      BY DEF Fresh, TasksShape, TaskRec
    <3>3. /\ [NoTask EXCEPT !.state = "WAITING_FOR_START", !.progress = task[i].progress,
               !.force = TRUE] \in TaskRec
          /\ NoRow \in RowRec
          /\ [state |-> "WAITING_FOR_START", progress |-> task[i].progress] \in RowRec
      BY <3>2, NewTask, StateNames
    <3>4. TasksShape'
      BY <3>1, <3>2, <3>3 DEF TasksShape
    <3>5. ListsShape'
      <4>1. WithoutFirst(queue, {i}) \in Seq(Ids)
        BY InWithout DEF ListsShape
      <4> QED
        BY <1>4, <3>1, <3>2, <4>1, InAppend DEF Overwrite, ListsShape
    <3> QED
      BY <1>1, <2>1, <3>4, <3>5
  <2> QED
    BY <2>2, <2>3
<1>5. ASSUME NEW i \in Ids, StopTask(i) PROVE Shape'
  <2>1. task[i] \in TaskRec /\ Close(i) \in Up
    BY <1>5, Messages DEF TasksShape
  <2>2. [task[i] EXCEPT !.state = "STOPED"] \in TaskRec
    BY <2>1, StateNames, StateChange
  <2>3. TasksShape'
    BY <1>5, <2>2, BecomeShape DEF StopTask
  <2>4. ListsShape'
    BY <1>5 DEF StopTask, ListsShape
  <2>5. NetShape'
    BY <1>5, <2>1, SendShape DEF StopTask, NetShape
  <2> QED
    BY <1>1, <2>3, <2>4, <2>5
<1>6. ASSUME NEW i \in Ids, ResumeTask(i) PROVE Shape'
  <2>1. [task[i] EXCEPT !.state = "WAITING_FOR_START"] \in TaskRec
    BY StateNames, StateChange DEF TasksShape
  <2>2. TasksShape'
    BY <1>6, <2>1, BecomeShape DEF ResumeTask
  <2>3. ListsShape'
    BY <1>6, InAppend DEF ResumeTask, ListsShape
  <2>4. NetShape'
    BY <1>6 DEF ResumeTask, net, NetShape
  <2> QED
    BY <1>1, <2>2, <2>3, <2>4
<1> QED
  BY <1>2, <1>3, <1>4, <1>5, <1>6 DEF User

\* exec of the viewer keeps the shape.
LEMMA ExecShape ==
  ASSUME Shape, Exec
  PROVE  Shape'
<1> USE DEF Shape
<1>0. UNCHANGED io /\ UNCHANGED <<online, down>> /\ UNCHANGED table /\ UNCHANGED live
  BY DEF Exec, Start, RemoteOpen, Watch, TimeOut, Drop, net, guard
<1>1. IOShape' /\ TableShape'
  BY <1>0 DEF IOShape, TableShape
<1>2. ASSUME NEW i \in Ids, Popped(i)
      PROVE  Tail(queue) \in Seq(Ids) /\ (Requeued => queue' \in Seq(Ids))
  <2>1. queue # <<>> /\ queue \in Seq(Ids)
    BY <1>2 DEF Popped, ListsShape
  <2> QED
    BY <2>1, InTail, InAppend DEF Requeued
<1>3. ASSUME NEW i \in Ids, Start(i) PROVE Shape'
  <2> DEFINE r == InitIO(Downloads, task[i].fp, task[i].progress, task[i].force)
  <2>1. task[i] \in TaskRec /\ task[i].fp \in Modes
    BY DEF TasksShape, TaskRec
  <2>2. r.fp \in Modes
    BY <2>1, InitIOModes
  <2>3. \/ /\ Become(i, [task[i] EXCEPT !.state = "PREPARING", !.fp = r.fp])
           /\ exec' = i /\ UNCHANGED asked
        \/ Become(i, [task[i] EXCEPT !.state = "FAILED"]) /\ exec' = exec /\ Asking(i, r.err)
        \/ Become(i, [task[i] EXCEPT !.state = "FAILED"]) /\ UNCHANGED <<asked, exec>>
    BY <1>3 DEF Start
  <2> HIDE DEF r
  <2>4. /\ [task[i] EXCEPT !.state = "FAILED"] \in TaskRec
        /\ [task[i] EXCEPT !.state = "PREPARING", !.fp = r.fp] \in TaskRec
    BY <2>1, <2>2, StateNames, StateChange DEF TaskRec
  <2>5. TasksShape'
    BY <2>3, <2>4, BecomeShape
  <2>6. ListsShape'
    <3>1. queue' \in Seq(Ids)
      BY <1>2, <1>3 DEF Start
    <3>2. exec' \in Names /\ asked' \subseteq Ids
      BY <2>3, ConstFacts DEF ListsShape, Asking
    <3> QED
      BY <1>0, <3>1, <3>2 DEF ListsShape
  <2>7. NetShape'
    BY <1>3 DEF Start, net, NetShape
  <2> QED
    BY <1>1, <2>5, <2>6, <2>7
<1>4. ASSUME NEW i \in Ids, RemoteOpen(i) PROVE Shape'
  <2>1. TasksShape'
    BY <1>4 DEF RemoteOpen, TasksShape
  <2>2. ListsShape'
    BY <1>4, InAppend, ConstFacts DEF RemoteOpen, ListsShape, Names
  <2>3. NetShape'
    <3>1. task[i].progress \in Nat /\ task[i].force \in BOOLEAN
      BY DEF TasksShape, TaskRec
    <3>2. Open(i, task[i].progress, task[i].force) \in Up
      BY <3>1, Messages
    <3> QED
      BY <1>4, <3>2, SendShape DEF RemoteOpen, NetShape
  <2> QED
    BY <1>1, <2>1, <2>2, <2>3
<1>5. ASSUME NEW i \in Ids, Watch(i) PROVE Shape'
  <2>1. ListsShape'
    BY <1>2, <1>5 DEF Watch, ListsShape
  <2>2. TasksShape' /\ NetShape'
    BY <1>5 DEF Watch, TasksShape, NetShape, net
  <2> QED
    BY <1>1, <2>1, <2>2
<1>6. ASSUME NEW i \in Ids, TimeOut(i) PROVE Shape'
  <2>1. ListsShape'
    BY <1>2, <1>6 DEF TimeOut, ListsShape
  <2>2. NetShape'
    BY <1>6 DEF TimeOut, NetShape, net
  <2>3. [task[i] EXCEPT !.state = "STOPED"] \in TaskRec
    BY StateNames, StateChange DEF TasksShape
  <2>4. TasksShape'
    BY <1>6, <2>3, BecomeShape DEF TimeOut
  <2> QED
    BY <1>1, <2>1, <2>2, <2>4
<1>7. ASSUME NEW i \in Ids, Drop(i) PROVE Shape'
  <2>1. ListsShape'
    BY <1>2, <1>7 DEF Drop, ListsShape
  <2>2. TasksShape' /\ NetShape'
    BY <1>7 DEF Drop, TasksShape, NetShape, net
  <2> QED
    BY <1>1, <2>1, <2>2
<1> QED
  BY <1>3, <1>4, <1>5, <1>6, <1>7 DEF Exec

\* The next answer, and those behind it.
LEMMA AnswerShape ==
  ASSUME Shape, down # <<>>
  PROVE  /\ Head(down) \in Down /\ Head(down).id \in Ids /\ Tail(down) \in Seq(Down)
         /\ Head(down).kind \in {"OpenOk", "ReadOk", "WriteOk"} => Head(down).seek \in Nat
<1>1. down \in Seq(Down)
  BY DEF Shape, NetShape
<1>2. Head(down) \in Down /\ Tail(down) \in Seq(Down)
  BY <1>1, InTail
<1> QED
  BY <1>2 DEF Down

\* What the thread of the answers leaves for later.
LEMMA LaterShape ==
  ASSUME NEW do \in {"none", "request", "block", "write"}, NEW i \in Ids, NEW n \in Nat,
           Later(do, i, n)
  PROVE  IOShape'
BY ConstFacts DEF Later, IOShape

\* It has nothing left to do.
LEMMA NoIOShape == io' = NoIO => IOShape'
BY ConstFacts DEF IOShape, NoIO, Names

\* The thread of the answers keeps the shape.
LEMMA AnswersShape ==
  ASSUME Shape, Answers
  PROVE  Shape'
<1> USE DEF Shape
<1>0. UNCHANGED <<online, table, live, queue, exec>>
  BY DEF Answers, Unwanted, RequestBlock, ReadBlock, WriteBlock, OpenSucceeded, OpenFailed,
     TransferFailed,
         BlockArrived, BlockTaken, viewer, guard
<1>1. TableShape'
  BY <1>0 DEF TableShape
<1>a. \A i \in Ids : task[i] \in TaskRec /\ task[i].progress \in Nat /\ Close(i) \in Up
  BY Messages DEF TasksShape, TaskRec
<1>b. asked' = asked => ListsShape'
  BY <1>0 DEF ListsShape
<1>c. io' = io => IOShape'
  BY DEF IOShape
<1>d. UNCHANGED <<task, row>> => TasksShape'
  BY DEF TasksShape
<1>e. up \in Seq(Up) /\ down \in Seq(Down) /\ online' \in BOOLEAN
  BY <1>0 DEF NetShape
<1>2. ASSUME Unwanted PROVE Shape'
  <2>1. down' \in Seq(Down)
    BY <1>2, AnswerShape DEF Unwanted, Received
  <2> QED
    BY <1>1, <1>2, <1>b, <1>c, <1>d, <1>e, <2>1 DEF Unwanted, viewer, NetShape
<1>3. ASSUME RequestBlock PROVE Shape'
  <2>1. io.id \in Ids
    BY <1>3 DEF RequestBlock, IOShape
  <2>2. Request("Read", io.id, task[io.id].progress) \in Up
    BY <1>a, <2>1, Messages
  <2>3. NetShape'
    BY <1>3, <1>e, <2>2, SendShape DEF RequestBlock, NetShape
  <2>4. TasksShape' /\ ListsShape' /\ IOShape'
    BY <1>3, <1>b, <1>d, NoIOShape DEF RequestBlock
  <2> QED
    BY <1>1, <2>3, <2>4
<1>4. ASSUME ReadBlock PROVE Shape'
  <2> DEFINE i == io.id
             t == task[i]
             u == [t EXCEPT !.fp = "closed", !.progress = IF t.fp = "closed" THEN @ ELSE io.seek,
                      !.state = IF t.fp # "closed" /\ io.seek >= N THEN "FINISHED" ELSE "FAILED"]
  <2>1. i \in Ids /\ io.seek \in Nat /\ t \in TaskRec
    BY <1>4, <1>a DEF ReadBlock, IOShape
  <2>2. u \in TaskRec /\ [t EXCEPT !.progress = io.seek + 1] \in TaskRec
    <3>1. [t EXCEPT !.progress = io.seek + 1] \in TaskRec
      BY <2>1 DEF TaskRec
    <3>2. (IF t.fp = "closed" THEN t.progress ELSE io.seek) \in Nat
      BY <2>1, <1>a
    <3>3. (IF t.fp # "closed" /\ io.seek >= N THEN "FINISHED" ELSE "FAILED")
            \in States \cup {"none"}
      BY StateNames
    <3>4. "closed" \in Modes
      BY DEF Modes
    <3> HIDE DEF t
    <3>5. u \in TaskRec
      BY <2>1, <3>2, <3>3, <3>4 DEF TaskRec
    <3> QED
      BY <3>1, <3>5
  <2>3. \/ UNCHANGED <<task, row, up>> /\ io' = NoIO
        \/ /\ task' = [task EXCEPT ![i] = [t EXCEPT !.progress = io.seek + 1]]
           /\ io' = [io EXCEPT !.do = "write"] /\ UNCHANGED <<row, up>>
        \/ Become(i, u) /\ Send(Close(i)) /\ io' = NoIO
    BY <1>4 DEF ReadBlock
  <2> HIDE DEF i, t, u
  <2>4. TasksShape'
    BY <1>d, <2>1, <2>2, <2>3, BecomeShape DEF Progressed
  <2>5. IOShape'
    BY <2>1, <2>3, NoIOShape DEF IOShape, i
  <2>6. NetShape'
    <3>1. UNCHANGED <<online, down>>
      BY <1>4 DEF ReadBlock
    <3>2. up' \in Seq(Up)
      BY <1>a, <1>e, <2>1, <2>3, SendShape
    <3> QED
      BY <1>e, <3>1, <3>2 DEF NetShape
  <2>7. ListsShape'
    BY <1>4, <1>b DEF ReadBlock
  <2> QED
    BY <1>1, <2>4, <2>5, <2>6, <2>7
<1>5. ASSUME WriteBlock PROVE Shape'
  <2>1. io.id \in Ids /\ io.seek \in Nat
    BY <1>5 DEF WriteBlock, IOShape
  <2>2. Request("Write", io.id, io.seek) \in Up
    BY <2>1, Messages
  <2>3. NetShape'
    BY <1>5, <1>e, <2>2, SendShape DEF WriteBlock, NetShape
  <2>4. TasksShape' /\ ListsShape' /\ IOShape'
    BY <1>5, <1>b, <1>d, NoIOShape DEF WriteBlock
  <2> QED
    BY <1>1, <2>3, <2>4
<1>6. ASSUME NEW i \in Ids, OpenSucceeded(i) PROVE Shape'
  <2>1. down' \in Seq(Down) /\ up' = up
    BY <1>6, AnswerShape DEF OpenSucceeded, Answer, Received
  <2>2. [task[i] EXCEPT !.state = "TRANSMITTING"] \in TaskRec
    BY <1>a, StateNames, StateChange
  <2>3. TasksShape'
    BY <1>6, <2>2, BecomeShape DEF OpenSucceeded
  <2>4. IOShape'
    BY <1>6, <1>a, LaterShape DEF OpenSucceeded
  <2>5. ListsShape'
    BY <1>6, <1>b DEF OpenSucceeded
  <2> QED
    BY <1>1, <1>e, <2>1, <2>3, <2>4, <2>5 DEF NetShape
<1>7. ASSUME NEW i \in Ids, OpenFailed(i) PROVE Shape'
  <2>1. down' \in Seq(Down) /\ up' = up
    BY <1>7, AnswerShape DEF OpenFailed, Answer, Received
  <2>2. [task[i] EXCEPT !.state = "FAILED"] \in TaskRec
    BY <1>a, StateNames, StateChange
  <2>3. TasksShape'
    BY <1>7, <2>2, BecomeShape DEF OpenFailed
  <2>4. IOShape'
    BY <1>7, <1>c DEF OpenFailed
  <2>5. ListsShape'
    BY <1>7, <1>0 DEF OpenFailed, Asking, ListsShape
  <2> QED
    BY <1>1, <1>e, <2>1, <2>3, <2>4, <2>5 DEF NetShape
<1>8. ASSUME NEW i \in Ids, TransferFailed(i) PROVE Shape'
  <2>1. down' \in Seq(Down)
    BY <1>8, AnswerShape DEF TransferFailed, Answer, Received
  <2>2. up' \in Seq(Up)
    BY <1>8, <1>a, <1>e, SendShape DEF TransferFailed
  <2> DEFINE s == IF Head(down).err = "eof" THEN "FINISHED" ELSE "FAILED"
  <2>3. s \in States /\ "closed" \in Modes
    BY StateNames DEF Modes
  <2>4. Become(i, [task[i] EXCEPT !.fp = "closed", !.state = s])
    BY <1>8 DEF TransferFailed
  <2> HIDE DEF s
  <2>5. [task[i] EXCEPT !.fp = "closed", !.state = s] \in TaskRec
    BY <1>a, <2>3 DEF TaskRec
  <2>6. TasksShape'
    BY <2>4, <2>5, BecomeShape
  <2>7. IOShape' /\ ListsShape'
    BY <1>8, <1>b, <1>c DEF TransferFailed
  <2> QED
    BY <1>1, <1>e, <2>1, <2>2, <2>6, <2>7 DEF NetShape
<1>9. ASSUME NEW i \in Ids, BlockArrived(i) PROVE Shape'
  <2> DEFINE s == Head(down).seek
  <2>1. down' \in Seq(Down) /\ s \in Nat
    BY <1>9, AnswerShape DEF BlockArrived, Answer, Received
  <2>2. \/ /\ Progressed(i, [task[i] EXCEPT !.progress = s + 1])
           /\ Later("request", i, 0) /\ UNCHANGED up
        \/ /\ Progressed(i, [task[i] EXCEPT !.progress = s, !.fp = "closed"])
           /\ Later("request", i, 0) /\ UNCHANGED up
        \/ UNCHANGED io /\ Become(i, [task[i] EXCEPT !.state = "FAILED"]) /\ Send(Close(i))
    BY <1>9 DEF BlockArrived
  <2> HIDE DEF s
  <2>3. /\ [task[i] EXCEPT !.progress = s + 1] \in TaskRec
        /\ [task[i] EXCEPT !.progress = s, !.fp = "closed"] \in TaskRec
        /\ [task[i] EXCEPT !.state = "FAILED"] \in TaskRec
    <3>1. task[i] \in TaskRec /\ "closed" \in Modes /\ "FAILED" \in States
      BY <1>a, StateNames DEF Modes
    <3>2. [task[i] EXCEPT !.progress = s + 1] \in TaskRec
      BY <2>1, <3>1 DEF TaskRec
    <3>3. [task[i] EXCEPT !.progress = s, !.fp = "closed"] \in TaskRec
      BY <2>1, <3>1 DEF TaskRec
    <3> QED
      BY <3>1, <3>2, <3>3, StateChange
  <2>4. TasksShape'
    BY <2>2, <2>3, BecomeShape
  <2>5. up' \in Seq(Up)
    BY <1>a, <1>e, <2>2, SendShape
  <2>6. IOShape'
    <3>1. Later("request", i, 0) => IOShape'
      BY LaterShape
    <3> QED
      BY <1>c, <2>2, <3>1
  <2>7. ListsShape'
    BY <1>9, <1>b DEF BlockArrived
  <2> QED
    BY <1>1, <1>e, <2>1, <2>4, <2>5, <2>6, <2>7 DEF NetShape
<1>10. ASSUME NEW i \in Ids, BlockTaken(i) PROVE Shape'
  <2>1. down' \in Seq(Down) /\ Head(down).seek \in Nat /\ up' = up
    BY <1>10, AnswerShape DEF BlockTaken, Answer, Received
  <2>2. TasksShape'
    BY <1>10, <1>a, BecomeShape DEF BlockTaken
  <2>3. IOShape'
    BY <1>10, <2>1, LaterShape DEF BlockTaken
  <2>4. ListsShape'
    BY <1>10, <1>b DEF BlockTaken
  <2> QED
    BY <1>1, <1>e, <2>1, <2>2, <2>3, <2>4 DEF NetShape
<1> QED
  BY <1>2, <1>3, <1>4, <1>5, <1>6, <1>7, <1>8, <1>9, <1>10 DEF Answers

\* The next request, and those behind it.
LEMMA RequestShape ==
  ASSUME Shape, up # <<>>
  PROVE  /\ Head(up) \in Up /\ Head(up).id \in Ids /\ Tail(up) \in Seq(Up)
         /\ Len(Tail(up)) < Len(up)
         /\ Head(up).kind \in {"Open", "Read", "Write"} => Head(up).seek \in Nat
<1>1. up \in Seq(Up)
  BY DEF Shape, NetShape
<1>2. Head(up) \in Up /\ Tail(up) \in Seq(Up)
  BY <1>1, InTail
<1>3. Len(Tail(up)) < Len(up)
  BY <1>1
<1> QED
  BY <1>2, <1>3 DEF Up

\* An answer is the last of down.
LEMMA ReplyShape ==
  ASSUME Shape, NEW m \in Down, Reply(m)
  PROVE  down' \in Seq(Down)
BY DEF Reply, Shape, NetShape

\* The guard's handlers keep the shape, and each takes a request.
LEMMA HandlersShape ==
  ASSUME Shape, Handlers
  PROVE  Shape' /\ Len(up') < Len(up)
<1> USE DEF Shape
<1>0. UNCHANGED viewer /\ online' = online
  BY DEF Handlers, HandleOpen, HandleClose, HandleRead, HandleWrite
<1>1. TasksShape' /\ ListsShape' /\ IOShape'
  BY <1>0 DEF viewer, TasksShape, ListsShape, IOShape
<1>2. ASSUME NEW i \in Ids, NEW k \in {"Open", "Close", "Read", "Write"}, Asked(k, i),
               up' = Tail(up)
      PROVE  /\ up' \in Seq(Up) /\ Len(up') < Len(up)
             /\ k # "Close" => Head(up).seek \in Nat
  BY <1>2, RequestShape DEF Asked
<1>3. ASSUME up' \in Seq(Up), down' \in Seq(Down) PROVE NetShape'
  BY <1>0, <1>3 DEF NetShape
<1>4. \A i \in Ids : Forget(i) => TableShape'
  BY DEF Forget, TableShape
<1>5. down \in Seq(Down)
  BY DEF NetShape
<1>6. ASSUME NEW i \in Ids, HandleOpen(i) PROVE Shape' /\ Len(up') < Len(up)
  <2> DEFINE r == InitIO(~Downloads, "closed", Head(up).seek, Head(up).force)
  <2>1. up' \in Seq(Up) /\ Len(up') < Len(up) /\ Head(up).seek \in Nat
    BY <1>2, <1>6 DEF HandleOpen
  <2>2. \/ table' = [table EXCEPT ![i] = NewObj] /\ Reply(Request("OpenOk", i, Head(up).seek))
        \/ /\ Forget(i)
           /\ \/ r.err # "none" /\ Reply(Err("OpenErr", i, r.err))
              \/ Reply(Err("OpenErr", i, "failed"))
    BY <1>6 DEF HandleOpen
  <2>3. r.err # "none" => r.err = "exists"
    BY DEF InitIO
  <2> HIDE DEF r
  <2>4. /\ Request("OpenOk", i, Head(up).seek) \in Down
        /\ Err("OpenErr", i, "exists") \in Down /\ Err("OpenErr", i, "failed") \in Down
    BY <2>1, Messages DEF Down, Err
  <2>5. down' \in Seq(Down)
    BY <2>2, <2>3, <2>4, ReplyShape
  <2>6. TableShape'
    BY <1>4, <2>2 DEF TableShape
  <2> QED
    BY <1>1, <1>3, <2>1, <2>5, <2>6
<1>7. ASSUME NEW i \in Ids, HandleClose(i) PROVE Shape' /\ Len(up') < Len(up)
  <2>1. up' \in Seq(Up) /\ Len(up') < Len(up)
    BY <1>2, <1>7 DEF HandleClose
  <2>2. TableShape' /\ down' = down
    BY <1>4, <1>7 DEF HandleClose
  <2> QED
    BY <1>1, <1>3, <1>5, <2>1, <2>2
<1>8. ASSUME NEW i \in Ids, HandleRead(i) PROVE Shape' /\ Len(up') < Len(up)
  <2>1. up' \in Seq(Up) /\ Len(up') < Len(up) /\ Head(up).seek \in Nat
    BY <1>2, <1>8 DEF HandleRead
  <2>2. \/ Reply(Err("ReadErr", i, "failed")) \/ Reply(Err("ReadErr", i, "eof"))
        \/ Reply(Request("ReadOk", i, Head(up).seek))
    BY <1>8 DEF HandleRead
  <2>3. /\ Request("ReadOk", i, Head(up).seek) \in Down
        /\ Err("ReadErr", i, "eof") \in Down /\ Err("ReadErr", i, "failed") \in Down
    BY <2>1, Messages DEF Down, Err
  <2>4. down' \in Seq(Down)
    BY <2>2, <2>3, ReplyShape
  <2>5. TableShape'
    BY <1>8 DEF HandleRead, TableShape
  <2> QED
    BY <1>1, <1>3, <2>1, <2>4, <2>5
<1>9. ASSUME NEW i \in Ids, HandleWrite(i) PROVE Shape' /\ Len(up') < Len(up)
  <2>1. up' \in Seq(Up) /\ Len(up') < Len(up) /\ Head(up).seek \in Nat
    BY <1>2, <1>9 DEF HandleWrite
  <2>2. Reply(Err("WriteErr", i, "failed")) \/ Reply(Request("WriteOk", i, Head(up).seek + 1))
    BY <1>9 DEF HandleWrite
  <2>3. Err("WriteErr", i, "failed") \in Down /\ Request("WriteOk", i, Head(up).seek + 1) \in Down
    <3>1. Head(up).seek + 1 \in Nat
      BY <2>1
    <3> QED
      BY <3>1, Messages DEF Down, Err
  <2>4. down' \in Seq(Down)
    BY <2>2, <2>3, ReplyShape
  <2>5. TableShape'
    BY <1>9 DEF HandleWrite, TableShape
  <2> QED
    BY <1>1, <1>3, <2>1, <2>4, <2>5
<1> QED
  BY <1>6, <1>7, <1>8, <1>9 DEF Handlers

\* exec of the guard keeps the shape.
LEMMA GuardShape ==
  ASSUME Shape, GuardExec
  PROVE  Shape'
<1>1. UNCHANGED <<viewer, net>>
  BY DEF GuardExec, GuardTake, GuardWatch, GuardTimeOut, GuardDrop
<1>2. TasksShape' /\ ListsShape' /\ IOShape' /\ NetShape'
  BY <1>1 DEF viewer, net, Shape, TasksShape, ListsShape, IOShape, NetShape
<1>3. TableShape'
  BY DEF Shape, TableShape, GuardExec, GuardTake, GuardWatch, GuardTimeOut, GuardDrop
<1> QED
  BY <1>2, <1>3 DEF Shape

\* Any part of a sequence of messages is one.
LEMMA PartOfSeq ==
  ASSUME NEW S, NEW q \in Seq(S), NEW m \in 1..(Len(q) + 1), NEW n \in 0..Len(q)
  PROVE  SubSeq(q, m, n) \in Seq(S)
<1>1. m \in Int /\ n \in Int /\ \A k \in m..n : k \in 1..Len(q)
  OBVIOUS
<1>2. \A k \in m..n : q[k] \in S
  BY <1>1, ElementOfSeq
<1> QED
  BY <1>1, <1>2, SubSeqProperties

\* A lost connection leaves a part of the messages of each direction.
LEMMA LostShape ==
  ASSUME Shape, NEW causes, Lost(causes)
  PROVE  NetShape'
<1>1. up \in Seq(Up) /\ down \in Seq(Down) /\ Len(up) \in Nat /\ Len(down) \in Nat
  BY DEF Shape, NetShape
<1>2. PICK n \in 0..Len(up) : up' = SubSeq(up, 1, n)
  BY DEF Lost
<1>3. PICK m \in 1..(Len(down) + 1) : down' = SubSeq(down, m, Len(down))
  BY DEF Lost
<1>4. up' \in Seq(Up)
  <2>1. 1 \in 1..(Len(up) + 1)
    BY <1>1
  <2> QED
    BY <1>1, <1>2, <2>1, PartOfSeq
<1>5. down' \in Seq(Down)
  <2>1. Len(down) \in 0..Len(down)
    BY <1>1
  <2> QED
    BY <1>1, <1>3, <2>1, PartOfSeq
<1> QED
  BY <1>4, <1>5 DEF Lost, NetShape

\* Lost connections and restarts keep the shape.
LEMMA EnvironmentShape ==
  ASSUME Shape, Environment
  PROVE  Shape'
<1> USE DEF Shape
<1>1. CASE LoseConnection
  <2>1. NetShape'
    BY <1>1, LostShape DEF LoseConnection
  <2> QED
    BY <1>1, <2>1 DEF LoseConnection, viewer, guard, TasksShape, ListsShape, IOShape, TableShape
<1>2. CASE Reconnect
  BY <1>2 DEF Reconnect, viewer, guard, TasksShape, ListsShape, IOShape, NetShape, TableShape
<1>3. CASE Unroutable
  <2>1. Tail(down) \in Seq(Down)
    BY <1>3, AnswerShape DEF Unroutable
  <2> QED
    BY <1>3, <2>1 DEF Unroutable, viewer, guard, TasksShape, ListsShape, IOShape, NetShape,
       TableShape
<1>4. CASE RestartViewer
  <2> DEFINE rows == {i \in Ids : row[i] # NoRow}
  <2>1. PICK p \in [Ids -> 0..N] :
          /\ \E c : Lost(c)
          /\ row' = [i \in Ids |-> [row[i] EXCEPT !.progress = p[i]]]
          /\ task' = [i \in Ids |->
               IF i \in rows
               THEN [NoTask EXCEPT !.progress = p[i],
                       !.state = IF row[i].state \in {"FINISHED", "FAILED"}
                                 THEN row[i].state ELSE "STOPED"]
               ELSE IF task[i] = NoTask THEN NoTask ELSE [NoTask EXCEPT !.state = "FAILED"]]
          /\ live' = rows
          /\ \E q \in [1..Cardinality(rows) -> rows] : queue' = q
    BY <1>4 DEF RestartViewer
  <2>2. \A i \in Ids : p[i] \in Nat /\ row[i] \in RowRec
    BY ConstFacts DEF TasksShape
  <2>3. NetShape'
    BY <2>1, LostShape
  <2>4. ListsShape'
    <3>1. rows \subseteq Ids /\ IsFiniteSet(Ids)
      BY ConstFacts, FS_Interval DEF Ids
    <3>2. Cardinality(rows) \in Nat
      BY <3>1, FS_Subset, FS_CardinalityType
    <3> HIDE DEF rows
    <3>3. PICK q \in [1..Cardinality(rows) -> rows] : queue' = q
      BY <2>1
    <3>4. queue' \in Seq(Ids)
      BY <3>1, <3>2, <3>3
    <3> QED
      <4>1. exec' \in Names /\ asked' \subseteq Ids
        <5>1. exec' = 0 /\ asked' = {}
          BY <1>4 DEF RestartViewer
        <5>2. 0 \in Names
          BY ConstFacts DEF Names
        <5> QED
          BY <5>1, <5>2
      <4>2. live' = rows
        BY <2>1
      <4> QED
        BY <3>1, <3>4, <4>1, <4>2 DEF ListsShape
  <2>5. TasksShape'
    <3>1. ASSUME NEW i \in Ids PROVE row'[i] \in RowRec
      BY <2>1, <2>2, <3>1 DEF RowRec
    <3>2. ASSUME NEW i \in Ids PROVE task'[i] \in TaskRec
      <4> DEFINE s == IF row[i].state \in {"FINISHED", "FAILED"} THEN row[i].state ELSE "STOPED"
      <4>1. s \in States /\ "FAILED" \in States
        BY StateNames
      <4>2. task'[i] \in {[NoTask EXCEPT !.progress = p[i], !.state = s], NoTask,
                          [NoTask EXCEPT !.state = "FAILED"]}
        BY <2>1
      <4> HIDE DEF s
      <4>3. NoTask \in TaskRec
        BY DEF TaskRec, NoTask, Modes
      <4>4. [NoTask EXCEPT !.progress = p[i], !.state = s] \in TaskRec
        BY <2>2, <4>1, <4>3 DEF TaskRec
      <4>5. [NoTask EXCEPT !.state = "FAILED"] \in TaskRec
        BY <4>1, <4>3, StateChange
      <4> QED
        BY <4>2, <4>3, <4>4, <4>5
    <3>3. DOMAIN task' = Ids /\ DOMAIN row' = Ids /\ task' = [i \in Ids |-> task'[i]]
            /\ row' = [i \in Ids |-> row'[i]]
      BY <2>1
    <3> QED
      BY <3>1, <3>2, <3>3 DEF TasksShape
  <2>6. IOShape' /\ TableShape'
    BY <1>4, NoIOShape DEF RestartViewer, guard, TableShape
  <2> QED
    BY <2>3, <2>4, <2>5, <2>6
<1>5. CASE RestartGuard
  <2>1. TasksShape' /\ ListsShape' /\ IOShape' /\ TableShape'
    BY <1>5 DEF RestartGuard, viewer, TasksShape, ListsShape, IOShape, TableShape
  <2>2. NetShape'
    <3>1. online' = FALSE /\ up' = <<>> /\ down' = <<>>
      BY <1>5 DEF RestartGuard
    <3>2. <<>> \in Seq(Up) /\ <<>> \in Seq(Down)
      BY EmptySeq
    <3> QED
      BY <3>1, <3>2 DEF NetShape
  <2> QED
    BY <2>1, <2>2
<1> QED
  BY <1>1, <1>2, <1>3, <1>4, <1>5 DEF Environment

\* Every step keeps the shape.
LEMMA ShapeStep ==
  ASSUME Shape, [Next]_vars
  PROVE  Shape'
<1>1. CASE Next
  BY <1>1, UserShape, ExecShape, AnswersShape, HandlersShape, GuardShape,
     EnvironmentShape DEF Next
<1>2. CASE UNCHANGED vars
  BY <1>2 DEF vars, viewer, net, guard, Shape, TasksShape, ListsShape, IOShape, NetShape,
     TableShape
<1> QED
  BY <1>1, <1>2

\* The shape is an invariant.
LEMMA ShapeAlways == Spec => []Shape
<1>1. Init => Shape
  BY InitShape
<1>2. Shape /\ [Next]_vars => Shape'
  BY ShapeStep
<1> QED
  BY <1>1, <1>2, PTL DEF Spec
-----------------------------------------------------------------------------
(* What exec has still to look at. *)

\* The states of a task that exec must come to.
Pending == Active \cup {"WAITING_FOR_START"}

\* The property, in the words of the lemmas.
LEMMA QueuedMeans ==
  ActiveIsQueued <=> \A i \in live : task[i].state \in Pending => exec = i \/ In(i, queue)
BY DEF ActiveIsQueued, In, Pending

\* A task that changes, but for the worse, is no more in need of a place in the queue.
LEMMA StillQueued ==
  ASSUME Shape, ActiveIsQueued, NEW i \in Ids, NEW t \in TaskRec,
         live' \subseteq live, queue' = queue, exec' = exec, task' = [task EXCEPT ![i] = t],
         t.state \in Pending => task[i].state \in Pending
  PROVE  ActiveIsQueued'
<1>1. ASSUME NEW j \in live', task'[j].state \in Pending PROVE exec' = j \/ In(j, queue')
  <2>1. j \in live /\ j \in Ids /\ task \in [Ids -> TaskRec]
    BY <1>1 DEF Shape, ListsShape, TasksShape
  <2>2. task[j].state \in Pending
    BY <1>1, <2>1
  <2>3. exec = j \/ In(j, queue)
    BY <2>1, <2>2, QueuedMeans
  <2> QED
    BY <2>3
<1> QED
  BY <1>1 DEF ActiveIsQueued, In, Pending

\* The user's clicks queue what they make pending, and unqueue only what they remove.
LEMMA UserQueued ==
  ASSUME Shape, ActiveIsQueued, User
  PROVE  ActiveIsQueued'
<1>0. queue \in Seq(Ids) /\ live \subseteq Ids /\ task \in [Ids -> TaskRec]
  BY DEF Shape, ListsShape, TasksShape
<1>1. \A j \in live : task[j].state \in Pending => exec = j \/ In(j, queue)
  BY QueuedMeans
<1>2. (\A j \in live' : task'[j].state \in Pending => exec' = j \/ In(j, queue'))
        => ActiveIsQueued'
  BY DEF ActiveIsQueued, In, Pending
<1>3. exec' = exec
  BY DEF User, AddTask, RemoveTask, Overwrite, StopTask, ResumeTask
<1>4. CASE AddTask
  <2>1. PICK i \in Fresh : live' = {i} /\ queue' = Append(queue, i)
    BY <1>4 DEF AddTask
  <2>2. i \in Ids /\ In(i, queue')
    BY <1>0, <2>1, InAppend DEF Fresh
  <2> QED
    BY <1>2, <2>1, <2>2
<1>5. ASSUME NEW i \in Ids, RemoveTask(i) PROVE ActiveIsQueued'
  <2>1. live' = live \ {i} /\ queue' = WithoutFirst(queue, {i}) /\ task' = task
    BY <1>5 DEF RemoveTask
  <2>2. ASSUME NEW j \in live', task'[j].state \in Pending PROVE exec' = j \/ In(j, queue')
    <3>1. j \in live /\ j \notin {i} /\ (exec = j \/ In(j, queue))
      BY <1>1, <2>1, <2>2
    <3> QED
      BY <1>0, <1>3, <2>1, <3>1, InWithout
  <2> QED
    BY <1>2, <2>2
<1>6. ASSUME NEW i \in Ids, Overwrite(i) PROVE ActiveIsQueued'
  <2>1. CASE UNCHANGED <<task, live, queue>>
    BY <1>1, <1>2, <1>3, <2>1
  <2>2. CASE ~ UNCHANGED <<task, live, queue>>
    <3>1. PICK j \in Fresh :
            /\ live' = (live \ {i}) \cup {j} /\ queue' = Append(WithoutFirst(queue, {i}), j)
            /\ task' = [task EXCEPT ![j] = [NoTask EXCEPT !.state = "WAITING_FOR_START",
                                              !.progress = task[i].progress, !.force = TRUE]]
      BY <1>6, <2>2 DEF Overwrite
    <3>2. j \in Ids
      BY DEF Fresh
    <3>3. /\ WithoutFirst(queue, {i}) \in Seq(Ids)
          /\ \A k : In(k, queue') <=> In(k, WithoutFirst(queue, {i})) \/ k = j
      BY <1>0, <3>1, <3>2, InWithout, InAppend
    <3>4. ASSUME NEW k \in live', task'[k].state \in Pending PROVE exec' = k \/ In(k, queue')
      <4>1. CASE k = j
        BY <3>3, <4>1
      <4>2. CASE k # j
        <5>1. k \in live /\ k \notin {i} /\ task'[k] = task[k]
          BY <1>0, <3>1, <4>2
        <5>2. exec = k \/ In(k, queue)
          BY <1>1, <3>4, <5>1
        <5>3. In(k, queue) => In(k, WithoutFirst(queue, {i}))
          BY <1>0, <5>1, InWithout
        <5> QED
          BY <1>3, <3>3, <5>2, <5>3
      <4> QED
        BY <4>1, <4>2
    <3> QED
      BY <1>2, <3>4
  <2> QED
    BY <2>1, <2>2
<1>7. ASSUME NEW i \in Ids, StopTask(i) PROVE ActiveIsQueued'
  <2>1. /\ [task[i] EXCEPT !.state = "STOPED"] \in TaskRec
        /\ [task[i] EXCEPT !.state = "STOPED"].state = "STOPED"
    BY <1>0, StateNames, StateChange
  <2>2. "STOPED" \notin Pending
    BY DEF Pending, Active
  <2> QED
    BY <1>7, <2>1, <2>2, StillQueued DEF StopTask, Become
<1>8. ASSUME NEW i \in Ids, ResumeTask(i) PROVE ActiveIsQueued'
  <2>1. /\ live' = live /\ queue' = Append(queue, i)
        /\ task' = [task EXCEPT ![i] = [task[i] EXCEPT !.state = "WAITING_FOR_START"]]
    BY <1>8 DEF ResumeTask, Become
  <2>2. ASSUME NEW j \in live', task'[j].state \in Pending PROVE exec' = j \/ In(j, queue')
    <3>1. j = i \/ task'[j] = task[j]
      BY <1>0, <2>1, <2>2
    <3> QED
      BY <1>0, <1>1, <1>3, <2>1, <2>2, <3>1, InAppend
  <2> QED
    BY <1>2, <2>2
<1> QED
  BY <1>4, <1>5, <1>6, <1>7, <1>8 DEF User

\* exec pushes back what it pops, or holds it, or has brought it to its end.
LEMMA ExecQueued ==
  ASSUME Shape, ActiveIsQueued, Exec
  PROVE  ActiveIsQueued'
<1>0. queue \in Seq(Ids) /\ live \subseteq Ids /\ task \in [Ids -> TaskRec] /\ live' = live
  BY DEF Shape, ListsShape, TasksShape, Exec, Start, RemoteOpen, Watch, TimeOut, Drop
<1>1. \A j \in live : task[j].state \in Pending => exec = j \/ In(j, queue)
  BY QueuedMeans
<1>2. (\A j \in live' : task'[j].state \in Pending => exec' = j \/ In(j, queue'))
        => ActiveIsQueued'
  BY DEF ActiveIsQueued, In, Pending
<1>3. ASSUME NEW i \in Ids, Popped(i), NEW j \in live, task[j].state \in Pending
      PROVE  /\ In(j, queue) /\ (j # i => In(j, Tail(queue)))
             /\ Requeued => In(j, queue')
  <2>1. j # 0 /\ exec = 0 /\ queue # <<>> /\ Head(queue) = i
    BY <1>0, <1>3, ConstFacts DEF Popped, Ids
  <2>2. In(j, queue)
    BY <1>1, <1>3, <2>1
  <2>3. Head(queue) \in Ids /\ Tail(queue) \in Seq(Ids) /\ (In(j, Tail(queue)) \/ j = Head(queue))
    BY <1>0, <2>1, <2>2, InTail
  <2>4. In(j, Append(Tail(queue), Head(queue)))
    BY <2>3, InAppend
  <2> QED
    BY <2>1, <2>2, <2>3, <2>4 DEF Requeued
<1>4. "STOPED" \notin Pending /\ "FAILED" \notin Pending /\ "FINISHED" \notin Pending
  BY DEF Pending, Active
<1>5. ASSUME NEW i \in Ids, Start(i) PROVE ActiveIsQueued'
  <2> DEFINE r == InitIO(Downloads, task[i].fp, task[i].progress, task[i].force)
  <2>1. Popped(i) /\ queue' = Tail(queue) /\ task[i].state \in Pending
    BY <1>5 DEF Start, Pending
  <2>2. \/ /\ task' = [task EXCEPT ![i] = [task[i] EXCEPT !.state = "PREPARING", !.fp = r.fp]]
           /\ exec' = i
        \/ task' = [task EXCEPT ![i] = [task[i] EXCEPT !.state = "FAILED"]]
    BY <1>5 DEF Start, Become
  <2>3. [task[i] EXCEPT !.state = "FAILED"].state = "FAILED"
    BY <1>0, StateNames, StateChange
  <2> HIDE DEF r
  <2>4. ASSUME NEW j \in live', task'[j].state \in Pending PROVE exec' = j \/ In(j, queue')
    <3>1. CASE j = i
      BY <1>0, <1>4, <2>2, <2>3, <2>4, <3>1
    <3>2. CASE j # i
      <4>1. task'[j] = task[j]
        BY <1>0, <2>2, <2>4, <3>2
      <4> QED
        BY <1>0, <1>3, <2>1, <2>4, <3>2, <4>1
    <3> QED
      BY <3>1, <3>2
  <2> QED
    BY <1>2, <2>4
<1>6. ASSUME NEW i \in Ids, RemoteOpen(i) PROVE ActiveIsQueued'
  <2>1. exec = i /\ queue' = Append(queue, i) /\ task' = task
    BY <1>6 DEF RemoteOpen
  <2> QED
    BY <1>0, <1>1, <1>2, <2>1, InAppend
<1>7. ASSUME NEW i \in Ids, Watch(i) PROVE ActiveIsQueued'
  BY <1>0, <1>2, <1>3, <1>7 DEF Watch
<1>8. ASSUME NEW i \in Ids, TimeOut(i) PROVE ActiveIsQueued'
  <2>1. /\ Popped(i) /\ Requeued
        /\ task' = [task EXCEPT ![i] = [task[i] EXCEPT !.state = "STOPED"]]
    BY <1>8 DEF TimeOut, Become
  <2>2. [task[i] EXCEPT !.state = "STOPED"].state = "STOPED"
    BY <1>0, StateNames, StateChange
  <2>3. ASSUME NEW j \in live', task'[j].state \in Pending PROVE In(j, queue')
    <3>1. j # i /\ task'[j] = task[j]
      BY <1>0, <1>4, <2>1, <2>2, <2>3
    <3> QED
      BY <1>0, <1>3, <2>1, <2>3, <3>1
  <2> QED
    BY <1>2, <2>3
<1>9. ASSUME NEW i \in Ids, Drop(i) PROVE ActiveIsQueued'
  <2>1. /\ Popped(i) /\ queue' = Tail(queue) /\ task' = task /\ task[i].state \notin Pending
    BY <1>4, <1>9 DEF Drop
  <2>2. ASSUME NEW j \in live', task'[j].state \in Pending PROVE In(j, queue')
    BY <1>0, <1>3, <2>1, <2>2
  <2> QED
    BY <1>2, <2>2
<1> QED
  BY <1>5, <1>6, <1>7, <1>8, <1>9 DEF Exec

\* No answer makes a task pending that was not.
LEMMA AnswersQueued ==
  ASSUME Shape, ActiveIsQueued, Answers
  PROVE  ActiveIsQueued'
<1>0. UNCHANGED <<live, queue, exec>> /\ \A i \in Ids : task[i] \in TaskRec
  BY DEF Answers, Unwanted, RequestBlock, ReadBlock, WriteBlock, OpenSucceeded, OpenFailed,
     TransferFailed,
         BlockArrived, BlockTaken, viewer, Shape, TasksShape
<1>1. task' = task => ActiveIsQueued'
  BY <1>0 DEF ActiveIsQueued
<1>2. "FAILED" \notin Pending /\ "FINISHED" \notin Pending
  BY DEF Pending, Active
<1>3. ASSUME NEW i \in Ids, NEW t, Become(i, t) \/ Progressed(i, t),
             t.state \in Pending => task[i].state \in Pending
      PROVE  ActiveIsQueued'
  <2>1. task' = [task EXCEPT ![i] = t] /\ task \in [Ids -> TaskRec] /\ live \subseteq Ids
    BY <1>3 DEF Become, Progressed, Shape, TasksShape, ListsShape
  <2>2. ASSUME NEW j \in live', task'[j].state \in Pending PROVE exec' = j \/ In(j, queue')
    <3>1. task[j].state \in Pending /\ j \in live
      BY <1>0, <1>3, <2>1, <2>2
    <3>2. exec = j \/ In(j, queue)
      BY <3>1, QueuedMeans
    <3> QED
      BY <1>0, <3>2
  <2> QED
    BY <2>2 DEF ActiveIsQueued, In, Pending
<1>4. CASE Unwanted \/ RequestBlock \/ WriteBlock
  BY <1>1, <1>4 DEF Unwanted, RequestBlock, WriteBlock, viewer
<1>5. CASE ReadBlock
  <2> DEFINE i == io.id
             t == task[i]
             s == IF t.fp # "closed" /\ io.seek >= N THEN "FINISHED" ELSE "FAILED"
             u == [t EXCEPT !.fp = "closed", !.progress = IF t.fp = "closed" THEN @ ELSE io.seek,
               !.state = s]
  <2>1. i \in Ids /\ t \in TaskRec
    BY <1>0, <1>5 DEF ReadBlock, Shape, IOShape
  <2>2. task' = task \/ Progressed(i, [t EXCEPT !.progress = io.seek + 1]) \/ Become(i, u)
    BY <1>5 DEF ReadBlock, Progressed
  <2>3. s \notin Pending
    BY <1>2
  <2> HIDE DEF i, t, s
  <2>4. u.state = s /\ [t EXCEPT !.progress = io.seek + 1].state = t.state
    BY <2>1 DEF TaskRec
  <2> HIDE DEF u
  <2> QED
    BY <1>1, <1>3, <2>1, <2>2, <2>3, <2>4 DEF t
<1>6. ASSUME NEW i \in Ids, OpenSucceeded(i) PROVE ActiveIsQueued'
  BY <1>3, <1>6 DEF OpenSucceeded, Pending, Active
<1>7. ASSUME NEW i \in Ids, OpenFailed(i) PROVE ActiveIsQueued'
  <2>1. [task[i] EXCEPT !.state = "FAILED"].state = "FAILED"
    BY <1>0, StateNames, StateChange
  <2> QED
    BY <1>2, <1>3, <1>7, <2>1 DEF OpenFailed
<1>8. ASSUME NEW i \in Ids, TransferFailed(i) PROVE ActiveIsQueued'
  BY <1>3, <1>8 DEF TransferFailed, Pending, Active
<1>9. ASSUME NEW i \in Ids, BlockArrived(i) PROVE ActiveIsQueued'
  BY <1>3, <1>9 DEF BlockArrived, Pending, Active
<1>10. ASSUME NEW i \in Ids, BlockTaken(i) PROVE ActiveIsQueued'
  BY <1>3, <1>10 DEF BlockTaken
<1> QED
  BY <1>4, <1>5, <1>6, <1>7, <1>8, <1>9, <1>10 DEF Answers

\* After a restart no task is pending: loadTasks stops them all.
LEMMA EnvironmentQueued ==
  ASSUME Shape, ActiveIsQueued, Environment
  PROVE  ActiveIsQueued'
<1>1. CASE LoseConnection \/ Reconnect \/ Unroutable \/ RestartGuard
  BY <1>1 DEF LoseConnection, Reconnect, Unroutable, RestartGuard, viewer, ActiveIsQueued
<1>2. CASE RestartViewer
  <2> DEFINE rows == {i \in Ids : row[i] # NoRow}
             s(i) == IF row[i].state \in {"FINISHED", "FAILED"} THEN row[i].state ELSE "STOPED"
  <2>1. PICK p \in [Ids -> 0..N] :
          /\ task' = [i \in Ids |->
               IF i \in rows
               THEN [NoTask EXCEPT !.progress = p[i], !.state = s(i)]
               ELSE IF task[i] = NoTask THEN NoTask ELSE [NoTask EXCEPT !.state = "FAILED"]]
          /\ live' = rows
    BY <1>2 DEF RestartViewer
  <2>2. ASSUME NEW i \in live' PROVE task'[i].state \notin Pending
    <3>1. i \in Ids /\ task'[i] = [NoTask EXCEPT !.progress = p[i], !.state = s(i)]
      BY <2>1, <2>2
    <3>2. s(i) \notin Pending
      BY DEF Pending, Active
    <3> HIDE DEF s
    <3> QED
      BY <3>1, <3>2 DEF NoTask
  <2> QED
    BY <2>2 DEF ActiveIsQueued, Pending
<1> QED
  BY <1>1, <1>2 DEF Environment

\* A task that waits, prepares or transmits is in m_queuedLocalTasks, or exec has it.
THEOREM NobodyForgotten == Spec => []ActiveIsQueued
<1>1. Init => ActiveIsQueued
  BY DEF Init, ActiveIsQueued
<1>2. Shape /\ ActiveIsQueued /\ [Next]_vars => ActiveIsQueued'
  <2> SUFFICES ASSUME Shape, ActiveIsQueued, [Next]_vars PROVE ActiveIsQueued'
    OBVIOUS
  <2>1. CASE User \/ Exec \/ Answers \/ Environment
    BY <2>1, UserQueued, ExecQueued, AnswersQueued, EnvironmentQueued
  <2>2. CASE Handlers \/ GuardExec \/ UNCHANGED vars
    <3>1. UNCHANGED viewer
      BY <2>2 DEF Handlers, HandleOpen, HandleClose, HandleRead, HandleWrite, GuardExec,
         GuardTake, GuardWatch,
                  GuardTimeOut, GuardDrop, vars
    <3> QED
      BY <3>1 DEF viewer, ActiveIsQueued
  <2> QED
    BY <2>1, <2>2 DEF Next
<1> QED
  BY <1>1, <1>2, ShapeAlways, PTL DEF Spec
-----------------------------------------------------------------------------
(* Who takes a served task out of m_tasks. *)

\* A task the guard is serving leaves m_tasks by a request of the viewer, or because exec has
\* kept an older task of the same id.
THEOREM EvictedByRequestOrOldTask == Spec => EvictedOnlyOvertaken
<1> DEFINE Evicted(i) == \/ Len(up') < Len(up) \/ \A o \in Objs : obj'[o] = NoObj
                         \/ gheld \notin {0, table[i]} /\ obj[gheld].id = i
<1>1. ASSUME Shape, Next, NEW i \in Ids, Serves(i), table'[i] # table[i] PROVE Evicted(i)
  <2>1. CASE Handlers
    BY <1>1, <2>1, HandlersShape
  <2>2. CASE User \/ Exec \/ Answers
    <3>1. table' = table
      BY <2>2 DEF User, AddTask, RemoveTask, Overwrite, StopTask, ResumeTask,
                  Exec, Start, RemoteOpen, Watch, TimeOut, Drop,
                  Answers, Unwanted, RequestBlock, ReadBlock, WriteBlock, OpenSucceeded,
                    OpenFailed, TransferFailed,
                  BlockArrived, BlockTaken, guard
    <3> QED
      BY <1>1, <3>1
  <2>3. CASE GuardExec
    <3>1. GuardDrop
      BY <1>1, <2>3 DEF GuardExec, GuardTake, GuardWatch, GuardTimeOut
    <3>2. /\ gheld # 0 /\ obj[gheld].state # "TRANSMITTING"
          /\ table' = [table EXCEPT ![obj[gheld].id] = 0]
      BY <3>1 DEF GuardDrop
    <3>3. gheld # table[i]
      BY <1>1, <3>2 DEF Serves
    <3>4. obj[gheld].id = i
      BY <1>1, <3>2 DEF Shape, TableShape
    <3> QED
      BY <3>2, <3>3, <3>4
  <2>4. CASE Environment
    <3>1. CASE RestartGuard
      BY <3>1 DEF RestartGuard
    <3>2. CASE ~ RestartGuard
      <4>1. table' = table
        BY <2>4, <3>2 DEF Environment, LoseConnection, Reconnect, Unroutable, RestartViewer, guard
      <4> QED
        BY <1>1, <4>1
    <3> QED
      BY <3>1, <3>2
  <2> QED
    BY <1>1, <2>1, <2>2, <2>3, <2>4 DEF Next
<1>2. Shape /\ [Next]_vars => [\A i \in Ids : Serves(i) /\ table'[i] # table[i]
        => Evicted(i)]_vars
  BY <1>1
<1> QED
  BY <1>2, ShapeAlways, PTL DEF Spec, EvictedOnlyOvertaken
-----------------------------------------------------------------------------
(* The copy and the conversation. *)

Exists == file # <<>>
Size == Len(file[1])
Blocks(k) == [n \in 1..k |-> n]

\* Messages by what they are about; a Close is about nothing that matters here.
Message == Up \cup Down
Talk == {m \in Message : m.kind # "Close"}
Opening(i) == {m \in Message : m.kind \in {"Open", "OpenOk", "OpenErr"} /\ m.id = i}
Token(i) == {m \in Message : m.id = i
               /\ m.kind \in {"Read", "ReadOk", "ReadErr", "Write", "WriteOk", "WriteErr"}}
About(i) == Opening(i) \cup Token(i)
OfKind(K) == {m \in Message : m.kind \in K}
Sent == {m \in Message : m.kind = "Write"}
Opened(i) == {m \in Message : m.kind = "OpenOk" /\ m.id = i}
Forced == {m \in Message : m.kind = "Open" /\ m.force}
Forcing(i) == {m \in Message : m.kind = "Open" /\ m.force /\ m.id = i}
Emptying(i) == {m \in Message : m.kind = "Open" /\ m.force /\ m.id = i /\ m.seek = 0}
Flow(i) == {m \in Message : m.kind = "Write" \/ (m.kind = "WriteOk" /\ m.id = i)}
AtEnd(i) == {m \in Message : m.kind = "ReadErr" /\ m.id = i /\ m.err = "eof"}
Odd == {m \in Message : \/ m.kind = "ReadOk" /\ m.seek >= N
                        \/ m.kind = "WriteErr" /\ m.err = "eof"}
\* What is in the channel before there is a copy, and is not an opening that would be refused if
\* there were one, or one that has failed.
Early == {m \in Message : \/ m.kind = "Open" /\ ~m.force
                          \/ m.kind = "OpenErr" /\ m.err # "exists"}
Late == Talk \ Early
\* The messages of kinds K about i that have another position than s.
Off(K, i, s) == {m \in Message : m.kind \in K /\ m.id = i /\ m.seek # s}
OffSent(s) == {m \in Message : m.kind = "Write" /\ m.seek # s}

\* The answers d and the requests u are one channel, d first: a request is answered in its place.
\* No message of P is in it; none of P is ahead of one of Q.
NoneIn(P, d, u) == (\A n \in DOMAIN d : d[n] \notin P) /\ (\A n \in DOMAIN u : u[n] \notin P)
NeverIn(P, Q, d, u) ==
  /\ \A m, n \in DOMAIN d : m < n => ~(d[m] \in P /\ d[n] \in Q)
  /\ \A m, n \in DOMAIN u : m < n => ~(u[m] \in P /\ u[n] \in Q)
  /\ \A m \in DOMAIN d, n \in DOMAIN u : ~(d[m] \in P /\ u[n] \in Q)
None(P) == NoneIn(P, down, up)
Never(P, Q) == NeverIn(P, Q, down, up)

\* A set without a Close; one with the requests of its answers, too.
Quiet(P) == \A m \in P : m.kind # "Close"
AnswerTo(m, r) ==
  /\ m.id = r.id
  /\ \/ m.kind = "Open"  /\ r.kind \in {"OpenOk", "OpenErr"} /\ (r.kind = "OpenOk" => r.seek = m.seek)
     \/ m.kind = "Read"  /\ r.kind \in {"ReadOk", "ReadErr"} /\ (r.kind = "ReadOk" => r.seek = m.seek)
     \/ m.kind = "Write" /\ r.kind \in {"WriteOk", "WriteErr"}
Lasting(P) == Quiet(P) /\ \A m \in Up, r \in Down : AnswerTo(m, r) /\ r \in P => m \in P
\* A step that puts nothing in the channel but a Close; one that may answer a request; one that
\* may send m; and one that takes no block from it.
Fewer ==
  /\ \A P : Quiet(P) /\ NoneIn(P, down, up) => NoneIn(P, down', up')
  /\ \A P, Q : Quiet(P) /\ Quiet(Q) /\ NeverIn(P, Q, down, up) => NeverIn(P, Q, down', up')
Calm ==
  /\ \A P : Lasting(P) /\ NoneIn(P, down, up) => NoneIn(P, down', up')
  /\ \A P, Q : Lasting(P) /\ Lasting(Q) /\ NeverIn(P, Q, down, up) => NeverIn(P, Q, down', up')
Sends(m) ==
  /\ \A P : m \notin P /\ NoneIn(P, down, up) => NoneIn(P, down', up')
  /\ \A P, Q : (m \notin Q \/ NoneIn(P, down, up)) /\ NeverIn(P, Q, down, up)
                 => NeverIn(P, Q, down', up')
SentStays == NoneIn(Sent, down', up') => NoneIn(Sent, down, up)

Begun(i)   == task[i].state # "none"
Waiting(i) == task[i].state = "WAITING_FOR_START"
Sending(i) == task[i].state = "TRANSMITTING"
Busy == io.do # "none"

\* exec has not come to task j yet.
Idle(j) ==
  /\ task[j].state \in {"none", "WAITING_FOR_START"} /\ task[j].fp = "closed"
  /\ None(About(j)) /\ exec # j /\ (Busy => io.id # j)

\* The task in m_tasks is the newest, and a row is its.
Current ==
  /\ \A i, j \in Ids : j > i /\ Begun(j) => Begun(i)
  /\ \A i \in live : Begun(i) /\ \A j \in Ids : j > i => ~Begun(j)
  /\ \A i \in Ids : IF i \in live THEN row[i].state # "none" ELSE row[i] = NoRow
  /\ \A i \in Ids : row[i].state = "FINISHED" => task[i].state = "FINISHED"
  /\ \A i \in asked \cap live : task[i].state = "FAILED"
NotBegun == \A i \in Ids : ~Begun(i) => task[i] = NoTask /\ Idle(i) /\ i \notin asked
\* A task that waits was queued before the newer ones, and is started before them.
Line ==
  \A n \in DOMAIN queue :
    /\ Begun(queue[n])
    /\ Waiting(queue[n]) =>
         /\ \A m \in DOMAIN queue : m < n => queue[m] <= queue[n]
         /\ \A j \in Ids : j > queue[n] => Idle(j) /\ task[j].progress = 0
Starting ==
  exec # 0 =>
    /\ task[exec].state \in {"PREPARING", "FAILED"}
    /\ \A j \in Ids : j > exec => Idle(j) /\ task[j].progress \in {0, task[exec].progress}
\* What belongs to a task's last conversation is ahead of the next one's opening.
OpeningLast ==
  \A i \in Ids :
    /\ Never(Opening(i), Token(i))
    /\ ~None(Opening(i)) => ~(io.id = i /\ io.do \in {"request", "write"})
OpeningsInOrder == \A i, j \in Ids : i > j => Never(Opening(i), Opening(j))
NoneSends == \A i \in Ids : ~None(Opening(i)) => \A j \in Ids : j >= i => ~Sending(j)
EmptyFirst == \A i \in Ids : ~None(Emptying(i)) => \A j \in Ids : j >= i => task[j].progress = 0
SeekAgrees == \A i \in live : None(Off({"Open", "OpenOk"}, i, task[i].progress))
Directions ==
  /\ Downloads => io.do \in {"none", "request"} /\ None(OfKind({"Write", "WriteOk", "WriteErr"}))
  /\ ~Downloads => io.do \in {"none", "block", "write"} /\ None(OfKind({"Read", "ReadOk", "ReadErr"}))
  /\ None(Odd)

Conversation ==
  /\ Current /\ NotBegun /\ Line /\ Starting /\ OpeningLast /\ OpeningsInOrder /\ NoneSends
  /\ EmptyFirst /\ SeekAgrees /\ Directions
-----------------------------------------------------------------------------
(* The steps that neither add nor start a task, nor open or ask for anything. *)

\* The queue w keeps what is in q, and nothing gets ahead of an element of T.
Follows(w, q, T) ==
  \A n \in DOMAIN w : \E k \in DOMAIN q :
    /\ w[n] = q[k]
    /\ q[k] \in T => \A m \in DOMAIN w : m < n => \E l \in DOMAIN q : l < k /\ w[m] = q[l]
\* Task j goes on, or to one of its ends.
Moves(j) ==
  /\ task[j].state \in Active /\ task'[j].state \in {task[j].state, "STOPED", "FINISHED", "FAILED"}
  /\ Sending(j) \/ (task'[j].progress = task[j].progress /\ task'[j].fp = task[j].fp)
  /\ task'[j].force = task[j].force
  /\ exec = j => Sending(j) \/ task'[j].state = "FAILED"
\* The row of j is kept, follows its task, or goes with it.
RowFollows(j) ==
  \/ row'[j] = row[j] /\ (j \in live' <=> j \in live)
  \/ row[j] # NoRow /\ row'[j].state = task'[j].state /\ (j \in live' <=> j \in live)
  \/ row'[j] = NoRow /\ j \notin live'
\* The thread of the answers goes on, or takes one.
GoesOn ==
  io'.do # "none" =>
    \/ io' = io
    \/ io.do = "block" /\ io'.do = "write" /\ io'.id = io.id /\ Sending(io.id)
       /\ io'.seek = io.seek /\ io.seek < N
    \/ /\ io'.id \in live /\ ~None(Token(io'.id))
       /\ \/ ~Downloads /\ io'.do = "block"
          \/ Downloads /\ io'.do = "request" /\ Sending(io'.id)
Routine ==
  /\ action' = action /\ exec' = exec /\ live' \subseteq live
  /\ Calm /\ (None(Odd) => NoneIn(Odd, down', up'))
  /\ Follows(queue', queue, {i \in Ids : Waiting(i)})
  /\ \A j \in Ids : (task'[j] = task[j] \/ Moves(j)) /\ RowFollows(j)
  /\ \A j \in asked' : j \in asked \/ task'[j].state = "FAILED"
  /\ GoesOn
\* What more they leave to a download, and to an upload.
DownloadLeft ==
  /\ Routine /\ UNCHANGED file /\ (Exists \/ asked' \subseteq asked) /\ (io' = io \/ io' = NoIO)
  /\ \A i \in Ids : task'[i].progress = task[i].progress /\ task'[i].fp \in {task[i].fp, "closed"}
  /\ \A i \in Ids : \A s \in 0..(N - 1) :
       None(AtEnd(i)) /\ None(Off({"Read", "ReadOk"}, i, s)) => NoneIn(AtEnd(i), down', up')
UploadLeft ==
  /\ Routine /\ UNCHANGED file /\ SentStays
  /\ \A i \in asked' : i \in asked \/ (Exists /\ io'.do = "none" /\ NoneIn(Token(i), down', up'))
  /\ None(Late) /\ ~Exists => NoneIn(Late, down', up')
  /\ \A i : None(Opened(i)) => NoneIn(Opened(i), down', up')
  /\ \A i, s : None(Off({"WriteOk"}, i, s)) => NoneIn(Off({"WriteOk"}, i, s), down', up')
-----------------------------------------------------------------------------
(* The copy. *)

Whole == Exists => Size \in 0..N /\ file = <<Blocks(Size)>>

\* Nothing has been opened for writing yet.
Untouched ==
  ~Exists =>
    /\ ~Busy /\ asked = {}
    /\ \A i \in Ids : task[i].progress = 0 /\ ~task[i].force /\ ~Sending(i)
    /\ None(Late)
    /\ Downloads => /\ exec = 0 /\ None(Talk)
                    /\ \A i \in Ids : task[i].fp = "closed" /\ task[i].state # "PREPARING"

\* A download that has opened its copy has written what its progress says.
DownloadFits ==
  Downloads => \A i \in live :
    task[i].fp # "closed" \/ task[i].progress > 0 => Exists /\ Size = task[i].progress
\* It asks for one block at a time, and for the next one.
OneRead ==
  Downloads => \A i \in live : Sending(i) =>
    /\ Never(Token(i), Token(i)) /\ (Busy /\ io.id = i => None(Token(i)))
    /\ None(Off({"Read", "ReadOk"}, i, task[i].progress))
    /\ task[i].progress < N => None(AtEnd(i))

\* Once a task that may write is known to the guard, no older one has the thread of the answers.
HandsOff ==
  ~Downloads => \A i \in Ids :
    \/ ~task[i].force /\ task[i].progress = 0 /\ ~Sending(i) /\ None(Forcing(i)) /\ None(Opened(i))
    \/ Busy => io.id >= i
Questioned ==
  ~Downloads => \A i \in asked \cap live : ~Busy /\ None(Token(i))
SentFirst == Never(Forced, Sent) /\ (io.do = "write" => None(Forced))
\* At most one block is on its way to the guard, and it is the next.
OneBlock ==
  /\ Never(Sent, Sent)
  /\ ~None(Sent) => io.do # "write" /\ ~(io.do = "block" /\ Sending(io.id)) /\ Size < N
  /\ None(OffSent(Size))
  /\ io.do = "write" => io.seek = Size /\ Size < N
  /\ io.do = "block" /\ Sending(io.id) => io.seek = Size
OpenFits ==
  ~Downloads => \A i \in live : ~None(Opened(i)) =>
    Exists /\ Size = task[i].progress /\ None(Sent) /\ io.do # "write"
Pend == IF None(Sent) /\ io.do # "write" THEN 0 ELSE 1
UploadFits ==
  ~Downloads => \A i \in live :
    task[i].progress > 0 \/ Sending(i) => Exists /\ Size + Pend = task[i].progress
OneAnswer ==
  ~Downloads => \A i \in live : Sending(i) =>
    Never(Flow(i), Flow(i)) /\ (Busy => None(Flow(i))) /\ None(Off({"WriteOk"}, i, Size))

Copying ==
  /\ Whole /\ Untouched /\ DownloadFits /\ OneRead /\ HandsOff /\ Questioned /\ SentFirst
  /\ OneBlock /\ OpenFits /\ UploadFits /\ OneAnswer

Sound == torn = {} => Conversation /\ Copying
-----------------------------------------------------------------------------
(* The channel. *)

\* The elements of a tail, of an appended sequence, of a part.
LEMMA Elements ==
  ASSUME NEW S, NEW q \in Seq(S)
  PROVE  /\ Len(q) \in Nat /\ DOMAIN q = 1..Len(q) /\ \A n \in 1..Len(q) : q[n] \in S
         /\ q # <<>> => /\ Len(q) > 0 /\ Head(q) = q[1] /\ Tail(q) \in Seq(S)
                        /\ DOMAIN Tail(q) = 1..(Len(q) - 1)
                        /\ \A n \in 1..(Len(q) - 1) : Tail(q)[n] = q[n + 1]
         /\ \A x : /\ DOMAIN Append(q, x) = 1..(Len(q) + 1)
                   /\ \A n \in 1..Len(q) : Append(q, x)[n] = q[n]
                   /\ Append(q, x)[Len(q) + 1] = x
<1>1. /\ Len(q) \in Nat /\ DOMAIN q = 1..Len(q) /\ \A n \in 1..Len(q) : q[n] \in S
      /\ q # <<>> => /\ Len(q) > 0 /\ Head(q) = q[1] /\ Tail(q) \in Seq(S)
                     /\ DOMAIN Tail(q) = 1..(Len(q) - 1)
                     /\ \A n \in 1..(Len(q) - 1) : Tail(q)[n] = q[n + 1]
  OBVIOUS
<1>2. ASSUME NEW x
      PROVE  /\ DOMAIN Append(q, x) = 1..(Len(q) + 1)
             /\ \A n \in 1..Len(q) : Append(q, x)[n] = q[n]
             /\ Append(q, x)[Len(q) + 1] = x
  <2>1. q \in Seq(S \cup {x}) /\ x \in S \cup {x}
    OBVIOUS
  <2> QED
    BY <2>1, AppendProperties
<1> QED
  BY <1>1, <1>2

\* An answer is taken: nothing new is in the channel, and what was behind it goes on.
LEMMA TakeAnswer ==
  ASSUME NEW S, NEW d \in Seq(S), d # <<>>, NEW T, NEW u \in Seq(T), NEW P, NEW Q
  PROVE  /\ NoneIn(P, d, u) => Head(d) \notin P /\ NoneIn(P, Tail(d), u)
         /\ NoneIn(P, Tail(d), u) /\ Head(d) \notin P => NoneIn(P, d, u)
         /\ NeverIn(P, Q, d, u) => NeverIn(P, Q, Tail(d), u)
         /\ NeverIn(P, Q, d, u) /\ Head(d) \in P => NoneIn(Q, Tail(d), u)
<1>1. /\ Len(d) \in Nat /\ DOMAIN d = 1..Len(d) /\ Len(d) > 0 /\ Head(d) = d[1]
      /\ DOMAIN Tail(d) = 1..(Len(d) - 1) /\ \A n \in 1..(Len(d) - 1) : Tail(d)[n] = d[n + 1]
  BY Elements
<1>2. \A n \in 1..(Len(d) - 1) : n + 1 \in 1..Len(d) /\ 1 \in 1..Len(d)
  BY <1>1
<1>3. \A n \in 1..Len(d) : n = 1 \/ (n - 1 \in 1..(Len(d) - 1) /\ Tail(d)[n - 1] = d[n])
  BY <1>1
<1>4. 1 \in 1..Len(d)
  BY <1>1
<1>5. NoneIn(P, d, u) => Head(d) \notin P /\ NoneIn(P, Tail(d), u)
  BY <1>1, <1>2, <1>4 DEF NoneIn
<1>6. NoneIn(P, Tail(d), u) /\ Head(d) \notin P => NoneIn(P, d, u)
  BY <1>1, <1>3 DEF NoneIn
<1>7. NeverIn(P, Q, d, u) => NeverIn(P, Q, Tail(d), u)
  BY <1>1, <1>2 DEF NeverIn
<1>8. NeverIn(P, Q, d, u) /\ Head(d) \in P => NoneIn(Q, Tail(d), u)
  BY <1>1, <1>2, <1>4 DEF NeverIn, NoneIn
<1> QED
  BY <1>5, <1>6, <1>7, <1>8

\* A request is sent.
LEMMA SendRequest ==
  ASSUME NEW S, NEW d \in Seq(S), NEW T, NEW u \in Seq(T), NEW m, NEW P, NEW Q
  PROVE  /\ NoneIn(P, d, Append(u, m)) <=> NoneIn(P, d, u) /\ m \notin P
         /\ NeverIn(P, Q, d, u) /\ (m \notin Q \/ NoneIn(P, d, u))
              => NeverIn(P, Q, d, Append(u, m))
<1>1. /\ Len(u) \in Nat /\ DOMAIN u = 1..Len(u) /\ DOMAIN Append(u, m) = 1..(Len(u) + 1)
      /\ \A n \in 1..Len(u) : Append(u, m)[n] = u[n]
      /\ Append(u, m)[Len(u) + 1] = m
  BY Elements
<1>2. \A n \in 1..(Len(u) + 1) : n \in 1..Len(u) \/ n = Len(u) + 1
  BY <1>1
<1>3. \A n \in 1..Len(u) : n \in 1..(Len(u) + 1) /\ ~(Len(u) + 1 < n)
  BY <1>1
<1>4. Len(u) + 1 \in 1..(Len(u) + 1)
  BY <1>1
<1> DEFINE a == Append(u, m)
           l == Len(u)
<1> HIDE DEF a, l
<1>5. NoneIn(P, d, a) <=> NoneIn(P, d, u) /\ m \notin P
  BY <1>1, <1>2, <1>3, <1>4 DEF NoneIn, a, l
<1>6. ASSUME NeverIn(P, Q, d, u), m \notin Q \/ NoneIn(P, d, u) PROVE NeverIn(P, Q, d, a)
  <2>1. ASSUME NEW i \in DOMAIN a, NEW j \in DOMAIN a, i < j PROVE ~(a[i] \in P /\ a[j] \in Q)
    <3>1. i \in 1..l /\ a[i] = u[i]
      BY <1>1, <1>2, <2>1 DEF a, l
    <3>2. CASE j = l + 1
      BY <1>1, <1>6, <3>1, <3>2 DEF NoneIn, a, l
    <3>3. CASE j \in 1..l
      BY <1>1, <1>6, <2>1, <3>1, <3>3 DEF NeverIn, a, l
    <3> QED
      BY <1>1, <1>2, <3>2, <3>3 DEF a, l
  <2>2. ASSUME NEW i \in DOMAIN d, NEW j \in DOMAIN a PROVE ~(d[i] \in P /\ a[j] \in Q)
    <3>1. CASE j = l + 1
      BY <1>1, <1>6, <3>1 DEF NoneIn, a, l
    <3>2. CASE j \in 1..l
      BY <1>1, <1>6, <3>2 DEF NeverIn, a, l
    <3> QED
      BY <1>1, <1>2, <3>1, <3>2 DEF a, l
  <2> QED
    BY <1>6, <2>1, <2>2 DEF NeverIn
<1> QED
  BY <1>5, <1>6 DEF a

\* A request is taken without an answer.
LEMMA TakeRequest ==
  ASSUME NEW S, NEW d \in Seq(S), NEW T, NEW u \in Seq(T), u # <<>>, NEW P, NEW Q
  PROVE  /\ NoneIn(P, d, u) => Head(u) \notin P /\ NoneIn(P, d, Tail(u))
         /\ NoneIn(P, d, Tail(u)) /\ Head(u) \notin P => NoneIn(P, d, u)
         /\ NeverIn(P, Q, d, u) => NeverIn(P, Q, d, Tail(u))
         /\ NeverIn(P, Q, d, u) /\ Head(u) \in P => NoneIn(Q, <<>>, Tail(u))
         /\ NeverIn(P, Q, d, u) /\ Head(u) \in Q => NoneIn(P, d, <<>>)
         /\ NoneIn(P, d, <<>>) /\ NoneIn(P, <<>>, Tail(u)) => NoneIn(P, d, Tail(u))
<1>1. /\ Len(u) \in Nat /\ DOMAIN u = 1..Len(u) /\ Len(u) > 0 /\ Head(u) = u[1]
      /\ DOMAIN Tail(u) = 1..(Len(u) - 1) /\ \A n \in 1..(Len(u) - 1) : Tail(u)[n] = u[n + 1]
  BY Elements
<1>2. \A n \in 1..(Len(u) - 1) : n + 1 \in 1..Len(u) /\ 1 < n + 1
  BY <1>1
<1>3. \A n \in 1..Len(u) : n = 1 \/ (n - 1 \in 1..(Len(u) - 1) /\ Tail(u)[n - 1] = u[n])
  BY <1>1
<1>4. 1 \in 1..Len(u) /\ DOMAIN <<>> = {}
  BY <1>1
<1>5. NoneIn(P, d, u) => Head(u) \notin P /\ NoneIn(P, d, Tail(u))
  BY <1>1, <1>2, <1>4 DEF NoneIn
<1>6. NoneIn(P, d, Tail(u)) /\ Head(u) \notin P => NoneIn(P, d, u)
  BY <1>1, <1>3 DEF NoneIn
<1>7. NeverIn(P, Q, d, u) => NeverIn(P, Q, d, Tail(u))
  BY <1>1, <1>2 DEF NeverIn
<1>8. NeverIn(P, Q, d, u) /\ Head(u) \in P => NoneIn(Q, <<>>, Tail(u))
  BY <1>1, <1>2, <1>4 DEF NeverIn, NoneIn
<1>9. NeverIn(P, Q, d, u) /\ Head(u) \in Q => NoneIn(P, d, <<>>)
  BY <1>1, <1>4 DEF NeverIn, NoneIn
<1>10. NoneIn(P, d, <<>>) /\ NoneIn(P, <<>>, Tail(u)) => NoneIn(P, d, Tail(u))
  BY DEF NoneIn
<1> QED
  BY <1>5, <1>6, <1>7, <1>8, <1>9, <1>10

\* An answer is appended, behind what was answered before.
LEMMA AddAnswer ==
  ASSUME NEW S, NEW d \in Seq(S), NEW T, NEW u \in Seq(T), NEW r, NEW P, NEW Q
  PROVE  /\ NoneIn(P, Append(d, r), u) <=> NoneIn(P, d, u) /\ r \notin P
         /\ /\ NeverIn(P, Q, d, u)
            /\ r \in Q => NoneIn(P, d, <<>>)
            /\ r \in P => NoneIn(Q, <<>>, u)
            => NeverIn(P, Q, Append(d, r), u)
<1> DEFINE a == Append(d, r)
           l == Len(d)
<1>1. /\ l \in Nat /\ DOMAIN d = 1..l /\ DOMAIN a = 1..(l + 1)
      /\ \A n \in 1..l : a[n] = d[n]
      /\ a[l + 1] = r
  BY Elements
<1> HIDE DEF a, l
<1>2. \A n \in 1..(l + 1) : n \in 1..l \/ n = l + 1
  BY <1>1
<1>3. \A n \in 1..l : n \in 1..(l + 1)
  BY <1>1
<1>4. l + 1 \in 1..(l + 1)
  BY <1>1
<1>5. NoneIn(P, a, u) <=> NoneIn(P, d, u) /\ r \notin P
  BY <1>1, <1>2, <1>3, <1>4 DEF NoneIn
<1>6. ASSUME NeverIn(P, Q, d, u), r \in Q => NoneIn(P, d, <<>>), r \in P => NoneIn(Q, <<>>, u)
      PROVE  NeverIn(P, Q, a, u)
  <2>1. ASSUME NEW i \in DOMAIN a, NEW j \in DOMAIN a, i < j PROVE ~(a[i] \in P /\ a[j] \in Q)
    <3>1. i \in 1..l /\ a[i] = d[i]
      BY <1>1, <1>2, <2>1
    <3>2. CASE j = l + 1
      BY <1>1, <1>6, <3>1, <3>2 DEF NoneIn
    <3>3. CASE j \in 1..l
      BY <1>1, <1>6, <2>1, <3>1, <3>3 DEF NeverIn
    <3> QED
      BY <1>1, <1>2, <3>2, <3>3
  <2>2. ASSUME NEW i \in DOMAIN a, NEW j \in DOMAIN u PROVE ~(a[i] \in P /\ u[j] \in Q)
    <3>1. CASE i = l + 1
      BY <1>1, <1>6, <3>1 DEF NoneIn
    <3>2. CASE i \in 1..l
      BY <1>1, <1>6, <3>2 DEF NeverIn
    <3> QED
      BY <1>1, <1>2, <3>1, <3>2
  <2> QED
    BY <1>6, <2>1, <2>2 DEF NeverIn
<1> QED
  BY <1>5, <1>6 DEF a

\* A request is replaced by its answer.
LEMMA AnswerRequest ==
  ASSUME NEW S, NEW d \in Seq(S), NEW T, NEW u \in Seq(T), u # <<>>, NEW r, NEW P, NEW Q
  PROVE  /\ NoneIn(P, d, u) /\ r \notin P => NoneIn(P, Append(d, r), Tail(u))
         /\ NoneIn(P, Append(d, r), Tail(u)) =>
              r \notin P /\ (Head(u) \notin P => NoneIn(P, d, u))
         /\ NeverIn(P, Q, d, u) /\ (r \in P => Head(u) \in P) /\ (r \in Q => Head(u) \in Q)
              => NeverIn(P, Q, Append(d, r), Tail(u))
         /\ NoneIn(P, d, <<>>) /\ NoneIn(P, <<>>, Tail(u)) /\ r \notin P
              => NoneIn(P, Append(d, r), Tail(u))
<1>1. Tail(u) \in Seq(T)
  BY Elements
<1> QED
  BY <1>1, TakeRequest, AddAnswer

\* The length of what is left of l elements after the first n.
LEMMA LeftOver ==
  ASSUME NEW l \in Nat, NEW n \in 0..l
  PROVE  (IF n + 1 <= l THEN l - (n + 1) + 1 ELSE 0) = l - n
OBVIOUS

\* A part of the channel.
LEMMA CutChannel ==
  ASSUME NEW S, NEW d \in Seq(S), NEW T, NEW u \in Seq(T), NEW P, NEW Q,
         NEW k \in 1..(Len(d) + 1), NEW n \in 0..Len(u)
  PROVE  /\ NoneIn(P, d, u) => NoneIn(P, SubSeq(d, k, Len(d)), SubSeq(u, 1, n))
         /\ NeverIn(P, Q, d, u) => NeverIn(P, Q, SubSeq(d, k, Len(d)), SubSeq(u, 1, n))
         /\ /\ NoneIn(P, <<>>, SubSeq(u, 1, n)) /\ NoneIn(P, <<>>, SubSeq(u, n + 1, Len(u)))
            /\ NoneIn(P, d, <<>>)
            => NoneIn(P, d, u)
<1> DEFINE e == SubSeq(d, k, Len(d))
           v == SubSeq(u, 1, n)
           w == SubSeq(u, n + 1, Len(u))
<1>0. Len(d) \in Nat /\ Len(u) \in Nat /\ DOMAIN d = 1..Len(d) /\ DOMAIN u = 1..Len(u)
      /\ DOMAIN <<>> = {}
  BY Elements
<1>1. /\ DOMAIN e = 1..(Len(d) - k + 1) /\ \A i \in DOMAIN e : e[i] = d[i + (k - 1)]
      /\ \A i \in DOMAIN e : i + (k - 1) \in DOMAIN d
  <2>1. e \in Seq(S) /\ Len(e) = (IF k <= Len(d) THEN Len(d) - k + 1 ELSE 0)
        /\ \A i \in 1..(Len(d) - k + 1) : e[i] = d[k + i - 1]
    <3>1. k \in Int /\ Len(d) \in Int /\ \A i \in k..Len(d) : d[i] \in S
      BY <1>0, ElementOfSeq
    <3> QED
      BY <3>1, SubSeqProperties
  <2>2. DOMAIN e = 1..Len(e) /\ Len(e) = Len(d) - k + 1
    BY <1>0, <2>1, LenProperties
  <2>3. \A i \in 1..(Len(d) - k + 1) : k + i - 1 = i + (k - 1) /\ i + (k - 1) \in 1..Len(d)
    BY <1>0
  <2> QED
    BY <1>0, <2>1, <2>2, <2>3
<1>2. /\ DOMAIN v = 1..n /\ \A i \in DOMAIN v : v[i] = u[i] /\ i \in DOMAIN u
  <2>1. v \in Seq(T) /\ Len(v) = (IF 1 <= n THEN n - 1 + 1 ELSE 0)
        /\ \A i \in 1..(n - 1 + 1) : v[i] = u[1 + i - 1]
    <3>1. 1 \in Int /\ n \in Int /\ \A i \in 1..n : u[i] \in T
      BY <1>0, ElementOfSeq
    <3> QED
      BY <3>1, SubSeqProperties
  <2>2. DOMAIN v = 1..Len(v) /\ Len(v) = n
    BY <1>0, <2>1, LenProperties
  <2>3. \A i \in 1..n : 1 + i - 1 = i /\ i \in 1..Len(u) /\ i \in 1..(n - 1 + 1)
    BY <1>0
  <2> QED
    BY <1>0, <2>1, <2>2, <2>3
<1>3. \A i \in 1..Len(u) : i \in 1..n \/ (i - n \in DOMAIN w /\ w[i - n] = u[i])
  <2>1. w \in Seq(T) /\ Len(w) = (IF n + 1 <= Len(u) THEN Len(u) - (n + 1) + 1 ELSE 0)
        /\ \A i \in 1..(Len(u) - (n + 1) + 1) : w[i] = u[n + 1 + i - 1]
    <3>1. n + 1 \in Int /\ Len(u) \in Int /\ \A i \in (n + 1)..Len(u) : u[i] \in T
      BY <1>0, ElementOfSeq
    <3> QED
      BY <3>1, SubSeqProperties
  <2>2. DOMAIN w = 1..Len(w) /\ Len(w) = Len(u) - n
    <3>1. DOMAIN w = 1..Len(w)
      BY <2>1, LenProperties
    <3>2. (IF n + 1 <= Len(u) THEN Len(u) - (n + 1) + 1 ELSE 0) = Len(u) - n
      <4>1. Len(u) \in Nat /\ n \in 0..Len(u)
        BY <1>0
      <4> QED
        BY <4>1, LeftOver
    <3> QED
      BY <2>1, <3>1, <3>2
  <2>3. ASSUME NEW i \in 1..Len(u), i \notin 1..n
        PROVE  i - n \in 1..(Len(u) - n) /\ i - n \in 1..(Len(u) - (n + 1) + 1)
               /\ n + 1 + (i - n) - 1 = i
    BY <1>0, <2>3
  <2> QED
    BY <2>1, <2>2, <2>3
<1> HIDE DEF e, v, w
<1>4. NoneIn(P, d, u) => NoneIn(P, e, v)
  BY <1>1, <1>2 DEF NoneIn
<1>5. ASSUME NeverIn(P, Q, d, u) PROVE NeverIn(P, Q, e, v)
  <2>1. ASSUME NEW i \in DOMAIN e, NEW j \in DOMAIN e, i < j PROVE ~(e[i] \in P /\ e[j] \in Q)
    <3>1. i + (k - 1) < j + (k - 1)
      BY <1>1, <2>1
    <3> QED
      BY <1>1, <1>5, <3>1 DEF NeverIn
  <2>2. ASSUME NEW i \in DOMAIN v, NEW j \in DOMAIN v, i < j PROVE ~(v[i] \in P /\ v[j] \in Q)
    BY <1>2, <1>5, <2>2 DEF NeverIn
  <2>3. ASSUME NEW i \in DOMAIN e, NEW j \in DOMAIN v PROVE ~(e[i] \in P /\ v[j] \in Q)
    BY <1>1, <1>2, <1>5 DEF NeverIn
  <2> QED
    BY <2>1, <2>2, <2>3 DEF NeverIn
<1>6. NoneIn(P, <<>>, v) /\ NoneIn(P, <<>>, w) /\ NoneIn(P, d, <<>>) => NoneIn(P, d, u)
  BY <1>0, <1>2, <1>3 DEF NoneIn
<1> QED
  BY <1>4, <1>5, <1>6 DEF e, v, w

\* The sets of the invariant, and which of them an answer stays in.
LEMMA LastingSets ==
  /\ \A i : /\ Lasting(Opening(i)) /\ Lasting(Token(i)) /\ Lasting(About(i))
            /\ Lasting(Forcing(i)) /\ Lasting(Emptying(i)) /\ Lasting(Flow(i))
  /\ \A i, s : Lasting(Off({"Open", "OpenOk"}, i, s)) /\ Lasting(Off({"Read", "ReadOk"}, i, s))
  /\ \A s : Lasting(OffSent(s))
  /\ Lasting(Sent) /\ Lasting(Forced) /\ Lasting(Talk)
  /\ Lasting(OfKind({"Write", "WriteOk", "WriteErr"})) /\ Lasting(OfKind({"Read", "ReadOk", "ReadErr"}))
<1>1. ASSUME NEW i
      PROVE  Lasting(Opening(i)) /\ Lasting(Token(i)) /\ Lasting(About(i))
  BY DEF Lasting, Quiet, AnswerTo, Opening, Token, About, Message
<1>2. ASSUME NEW i
      PROVE  Lasting(Forcing(i)) /\ Lasting(Emptying(i)) /\ Lasting(Flow(i))
  BY DEF Lasting, Quiet, AnswerTo, Forcing, Emptying, Flow, Message, Up, Down
<1>3. ASSUME NEW i, NEW s
      PROVE  Lasting(Off({"Open", "OpenOk"}, i, s)) /\ Lasting(Off({"Read", "ReadOk"}, i, s))
  BY DEF Lasting, Quiet, AnswerTo, Off, Message, Up, Down
<1>4. ASSUME NEW s PROVE Lasting(OffSent(s))
  BY DEF Lasting, Quiet, AnswerTo, OffSent, Message, Up, Down
<1>5. Lasting(Sent) /\ Lasting(Forced) /\ Lasting(Talk)
  BY DEF Lasting, Quiet, AnswerTo, Sent, Forced, Talk, Message, Up, Down
<1>6. /\ Lasting(OfKind({"Write", "WriteOk", "WriteErr"}))
      /\ Lasting(OfKind({"Read", "ReadOk", "ReadErr"}))
  BY DEF Lasting, Quiet, AnswerTo, OfKind, Message, Up, Down
<1> QED
  BY <1>1, <1>2, <1>3, <1>4, <1>5, <1>6

\* The sets of messages without a Close, among them every set closed under requests.
LEMMA QuietSets ==
  /\ \A P : Lasting(P) => Quiet(P)
  /\ \A i : Quiet(Opened(i)) /\ Quiet(AtEnd(i))
  /\ \A i, s : Quiet(Off({"WriteOk"}, i, s))
  /\ Quiet(Odd) /\ Quiet(Late)
<1>1. \A P : Lasting(P) => Quiet(P)
  BY DEF Lasting
<1>2. \A i : Quiet(Opened(i)) /\ Quiet(AtEnd(i))
  BY DEF Quiet, Opened, AtEnd
<1>3. \A i, s : Quiet(Off({"WriteOk"}, i, s))
  BY DEF Quiet, Off
<1>4. Quiet(Odd) /\ Quiet(Late)
  BY DEF Quiet, Odd, Late, Talk
<1> QED
  BY <1>1, <1>2, <1>3, <1>4

\* A part of a set that is not in the channel is not.
LEMMA Smaller ==
  ASSUME NEW d, NEW u, NEW P, NEW Q, P \subseteq Q, NoneIn(Q, d, u)
  PROVE  NoneIn(P, d, u)
BY DEF NoneIn

\* Nothing is behind or ahead of a message that is not there.
LEMMA NoneNever ==
  ASSUME NEW d, NEW u, NEW P, NoneIn(P, d, u)
  PROVE  \A Q : NeverIn(P, Q, d, u) /\ NeverIn(Q, P, d, u)
BY DEF NoneIn, NeverIn

\* What is a part of what.
LEMMA Parts ==
  ASSUME NEW d, NEW u
  PROVE  /\ \A i : NoneIn(About(i), d, u) <=> NoneIn(Opening(i), d, u) /\ NoneIn(Token(i), d, u)
         /\ \A i : NoneIn(Opening(i), d, u) =>
              /\ NoneIn(Opened(i), d, u) /\ NoneIn(Forcing(i), d, u) /\ NoneIn(Emptying(i), d, u)
              /\ \A s : NoneIn(Off({"Open", "OpenOk"}, i, s), d, u)
         /\ \A i : NoneIn(Token(i), d, u) =>
              /\ NoneIn(AtEnd(i), d, u)
              /\ \A s : NoneIn(Off({"Read", "ReadOk"}, i, s), d, u)
              /\ \A s : NoneIn(Off({"WriteOk"}, i, s), d, u)
         /\ \A i : NoneIn(Flow(i), d, u) =>
              NoneIn(Sent, d, u) /\ \A s : NoneIn(Off({"WriteOk"}, i, s), d, u)
         /\ \A i : NoneIn(Sent, d, u) /\ NoneIn(Token(i), d, u) => NoneIn(Flow(i), d, u)
         /\ NoneIn(Sent, d, u) => \A s : NoneIn(OffSent(s), d, u)
         /\ NoneIn(OfKind({"Write", "WriteOk", "WriteErr"}), d, u) => NoneIn(Sent, d, u)
         /\ NoneIn(Talk, d, u) => NoneIn(Late, d, u)
         /\ NoneIn(Talk, d, u) => \A i : NoneIn(Token(i), d, u) /\ NoneIn(Opening(i), d, u)
         /\ NoneIn(Late, d, u) =>
              /\ NoneIn(Sent, d, u) /\ NoneIn(Forced, d, u) /\ NoneIn(Odd, d, u)
              /\ \A i : NoneIn(Token(i), d, u) /\ NoneIn(Forcing(i), d, u) /\ NoneIn(Opened(i), d, u)
<1>1. ASSUME NEW i
      PROVE  NoneIn(About(i), d, u) <=> NoneIn(Opening(i), d, u) /\ NoneIn(Token(i), d, u)
  BY DEF NoneIn, About
<1>2. ASSUME NEW i, NoneIn(Opening(i), d, u)
      PROVE  /\ NoneIn(Opened(i), d, u) /\ NoneIn(Forcing(i), d, u) /\ NoneIn(Emptying(i), d, u)
             /\ \A s : NoneIn(Off({"Open", "OpenOk"}, i, s), d, u)
  <2>1. Opened(i) \subseteq Opening(i) /\ Forcing(i) \subseteq Opening(i) /\ Emptying(i) \subseteq Opening(i)
        /\ \A s : Off({"Open", "OpenOk"}, i, s) \subseteq Opening(i)
    BY DEF Opened, Opening, Forcing, Emptying, Off
  <2> QED
    BY <1>2, <2>1, Smaller
<1>3. ASSUME NEW i, NoneIn(Token(i), d, u)
      PROVE  /\ NoneIn(AtEnd(i), d, u)
             /\ \A s : NoneIn(Off({"Read", "ReadOk"}, i, s), d, u)
             /\ \A s : NoneIn(Off({"WriteOk"}, i, s), d, u)
  <2>1. AtEnd(i) \subseteq Token(i)
        /\ \A s : Off({"Read", "ReadOk"}, i, s) \subseteq Token(i) /\ Off({"WriteOk"}, i, s) \subseteq Token(i)
    BY DEF AtEnd, Token, Off
  <2> QED
    BY <1>3, <2>1, Smaller
<1>4. ASSUME NEW i, NoneIn(Flow(i), d, u)
      PROVE  NoneIn(Sent, d, u) /\ \A s : NoneIn(Off({"WriteOk"}, i, s), d, u)
  <2>1. Sent \subseteq Flow(i) /\ \A s : Off({"WriteOk"}, i, s) \subseteq Flow(i)
    BY DEF Sent, Flow, Off
  <2> QED
    BY <1>4, <2>1, Smaller
<1>5. ASSUME NEW i, NoneIn(Sent, d, u), NoneIn(Token(i), d, u)
      PROVE  NoneIn(Flow(i), d, u)
  <2>1. \A m \in Flow(i) : m \in Sent \/ m \in Token(i)
    BY DEF Flow, Sent, Token
  <2> QED
    BY <1>5, <2>1 DEF NoneIn
<1>6. ASSUME NoneIn(Sent, d, u) PROVE \A s : NoneIn(OffSent(s), d, u)
  <2>1. \A s : OffSent(s) \subseteq Sent
    BY DEF Sent, OffSent
  <2> QED
    BY <1>6, <2>1, Smaller
<1>7. ASSUME NoneIn(OfKind({"Write", "WriteOk", "WriteErr"}), d, u) PROVE NoneIn(Sent, d, u)
  <2>1. Sent \subseteq OfKind({"Write", "WriteOk", "WriteErr"})
    BY DEF Sent, OfKind
  <2> QED
    BY <1>7, <2>1, Smaller
<1>10. NoneIn(Talk, d, u) => \A i : NoneIn(Token(i), d, u) /\ NoneIn(Opening(i), d, u)
  <2>1. \A i : Token(i) \subseteq Talk /\ Opening(i) \subseteq Talk
    BY DEF Token, Opening, Talk
  <2> QED
    BY <2>1, Smaller
<1>8. NoneIn(Talk, d, u) => NoneIn(Late, d, u)
  BY Smaller DEF Late
<1>9. ASSUME NoneIn(Late, d, u)
      PROVE  /\ NoneIn(Sent, d, u) /\ NoneIn(Forced, d, u) /\ NoneIn(Odd, d, u)
             /\ \A i : NoneIn(Token(i), d, u) /\ NoneIn(Forcing(i), d, u) /\ NoneIn(Opened(i), d, u)
  <2>1. Sent \subseteq Late /\ Forced \subseteq Late /\ Odd \subseteq Late
    BY DEF Sent, Forced, Odd, Late, Talk, Early
  <2>2. ASSUME NEW i PROVE Token(i) \subseteq Late /\ Forcing(i) \subseteq Late /\ Opened(i) \subseteq Late
    BY DEF Token, Forcing, Opened, Late, Talk, Early
  <2> QED
    BY <1>9, <2>1, <2>2, Smaller
<1> QED
  BY <1>1, <1>2, <1>3, <1>4, <1>5, <1>6, <1>7, <1>8, <1>9, <1>10
-----------------------------------------------------------------------------
(* What a step does to the channel. *)

\* A step that puts nothing in the channel leaves every order of requests and answers.
LEMMA FewerIsCalm == Fewer => Calm
BY QuietSets DEF Fewer, Calm

\* A step that leaves the channel alone.
LEMMA ChannelUnchanged ==
  ASSUME UNCHANGED <<up, down>>
  PROVE  Fewer /\ Calm /\ SentStays
BY FewerIsCalm DEF Fewer, SentStays

\* An answer is taken; a Close is sent, or not; both.
LEMMA AnswerLeaves ==
  ASSUME NetShape, down # <<>>, down' = Tail(down), up' = up
  PROVE  Fewer /\ Calm /\ SentStays
<1>1. \A P, Q : /\ NoneIn(P, down, up) => NoneIn(P, down', up')
                /\ NeverIn(P, Q, down, up) => NeverIn(P, Q, down', up')
                /\ NoneIn(P, down', up') /\ Head(down) \notin P => NoneIn(P, down, up)
  BY TakeAnswer DEF NetShape
<1>2. Head(down) \notin Sent
  BY Elements DEF NetShape, Sent, Down
<1> QED
  BY <1>1, <1>2, FewerIsCalm DEF Fewer, SentStays

\* A Close sent, or not sent, at the end of the requests.
LEMMA HangsUp ==
  ASSUME NEW d \in Seq(Down), NEW u \in Seq(Up), NEW v, NEW i \in Ids,
         v \in {u, Append(u, Close(i))}
  PROVE  /\ \A P : Quiet(P) /\ NoneIn(P, d, u) => NoneIn(P, d, v)
         /\ \A P, Q : Quiet(P) /\ Quiet(Q) /\ NeverIn(P, Q, d, u) => NeverIn(P, Q, d, v)
         /\ \A P : Quiet(P) /\ NoneIn(P, d, v) => NoneIn(P, d, u)
<1>1. \A P : Quiet(P) => Close(i) \notin P
  BY DEF Quiet, Close
<1>2. \A P, Q : /\ NoneIn(P, d, Append(u, Close(i))) <=> NoneIn(P, d, u) /\ Close(i) \notin P
                /\ NeverIn(P, Q, d, u) /\ (Close(i) \notin Q \/ NoneIn(P, d, u))
                     => NeverIn(P, Q, d, Append(u, Close(i)))
  BY SendRequest
<1> QED
  BY <1>1, <1>2

\* removeTask, stopTask and the time-outs of exec send a Close.
LEMMA CloseSent ==
  ASSUME NetShape, NEW i \in Ids, Send(Close(i)), down' = down
  PROVE  Fewer /\ Calm /\ SentStays
<1>1. up' \in {up, Append(up, Close(i))}
  BY DEF Send
<1> QED
  BY <1>1, HangsUp, FewerIsCalm, LastingSets, QuietSets DEF NetShape, Fewer, SentStays

\* An answer is taken, and a Close sent for it.
LEMMA AnswerLeavesCloseSent ==
  ASSUME NetShape, NEW i \in Ids, Send(Close(i)), down # <<>>, down' = Tail(down)
  PROVE  Fewer /\ Calm /\ SentStays
<1>1. \A P, Q : /\ NoneIn(P, down, up) => NoneIn(P, down', up)
                /\ NeverIn(P, Q, down, up) => NeverIn(P, Q, down', up)
                /\ NoneIn(P, down', up) /\ Head(down) \notin P => NoneIn(P, down, up)
  BY TakeAnswer DEF NetShape
<1>2. Head(down) \notin Sent /\ down' \in Seq(Down)
  BY Elements DEF NetShape, Sent, Down
<1>3. up' \in {up, Append(up, Close(i))}
  BY DEF Send
<1>4. /\ \A P : Quiet(P) /\ NoneIn(P, down', up) => NoneIn(P, down', up')
      /\ \A P, Q : Quiet(P) /\ Quiet(Q) /\ NeverIn(P, Q, down', up) => NeverIn(P, Q, down', up')
      /\ \A P : Quiet(P) /\ NoneIn(P, down', up') => NoneIn(P, down', up)
  BY <1>2, <1>3, HangsUp DEF NetShape
<1> QED
  BY <1>1, <1>2, <1>4, FewerIsCalm, LastingSets, QuietSets DEF Fewer, SentStays

\* The guard takes a Close.
LEMMA CloseTaken ==
  ASSUME NetShape, up # <<>>, Head(up).kind = "Close", up' = Tail(up), down' = down
  PROVE  Fewer /\ Calm /\ SentStays
<1>1. \A P, Q : /\ NoneIn(P, down, up) => NoneIn(P, down', up')
                /\ NeverIn(P, Q, down, up) => NeverIn(P, Q, down', up')
                /\ NoneIn(P, down', up') /\ Head(up) \notin P => NoneIn(P, down, up)
  BY TakeRequest DEF NetShape
<1>2. Head(up) \notin Sent
  BY DEF Sent
<1> QED
  BY <1>1, <1>2, FewerIsCalm DEF Fewer, SentStays

\* Nothing is left when a part of the channel without a block is lost.
LEMMA NoWrites ==
  ASSUME NEW q \in Seq(Up), Writes(q) = {}
  PROVE  NoneIn(Sent, <<>>, q)
BY DEF Writes, NoneIn, Sent

\* What the server or a connection drops is no block, as long as nothing is torn.
LEMMA LostLeaves ==
  ASSUME NetShape, NEW causes, Lost(causes), torn' = {}
  PROVE  Fewer /\ Calm /\ SentStays /\ causes = {}
<1>1. PICK n \in 0..Len(up) :
             /\ up' = SubSeq(up, 1, n)
             /\ torn' = torn \cup causes \cup Writes(SubSeq(up, n + 1, Len(up)))
  BY DEF Lost
<1>2. PICK k \in 1..(Len(down) + 1) : down' = SubSeq(down, k, Len(down))
  BY DEF Lost
<1>3. Writes(SubSeq(up, n + 1, Len(up))) = {} /\ causes = {}
  BY <1>1
<1>4. SubSeq(up, n + 1, Len(up)) \in Seq(Up)
  <2>1. Len(up) \in Nat /\ up \in Seq(Up)
    BY DEF NetShape
  <2>2. n + 1 \in 1..(Len(up) + 1) /\ Len(up) \in 0..Len(up)
    BY <2>1
  <2> QED
    BY <2>1, <2>2, PartOfSeq
<1>5. \A P, Q : /\ NoneIn(P, down, up) => NoneIn(P, down', up')
                /\ NeverIn(P, Q, down, up) => NeverIn(P, Q, down', up')
                /\ /\ NoneIn(P, <<>>, up') /\ NoneIn(P, <<>>, SubSeq(up, n + 1, Len(up)))
                   /\ NoneIn(P, down, <<>>)
                   => NoneIn(P, down, up)
  BY <1>1, <1>2, CutChannel DEF NetShape
<1>6. NoneIn(Sent, down, <<>>)
  BY Elements DEF NoneIn, Sent, NetShape, Down
<1>7. NoneIn(Sent, down', up') => NoneIn(Sent, <<>>, up')
  BY DEF NoneIn
<1>8. SentStays
  BY <1>3, <1>4, <1>5, <1>6, <1>7, NoWrites DEF SentStays
<1> QED
  BY <1>3, <1>5, <1>8, FewerIsCalm DEF Fewer

\* A connection that goes takes both directions with it.
LEMMA AllLost ==
  ASSUME NetShape, up' = <<>>, down' = <<>>, torn' = torn \cup Writes(up), torn' = {}
  PROVE  Fewer /\ Calm /\ SentStays
<1>1. Writes(up) = {}
  OBVIOUS
<1>2. NoneIn(Sent, down, up)
  <2>1. NoneIn(Sent, down, <<>>)
    BY Elements DEF NoneIn, Sent, NetShape, Down
  <2> QED
    BY <1>1, <2>1, NoWrites DEF NoneIn, NetShape
<1>3. \A P, Q : NoneIn(P, down', up') /\ NeverIn(P, Q, down', up')
  BY DEF NoneIn, NeverIn
<1> QED
  BY <1>2, <1>3, FewerIsCalm DEF Fewer, SentStays

\* A request is sent, or lost when the window is closed.
LEMMA RequestSent ==
  ASSUME NetShape, NEW m \in Up, Send(m), down' = down
  PROVE  Sends(m) /\ (~online => UNCHANGED <<up, down>>)
<1>1. up' \in {up, Append(up, m)} /\ (~online => up' = up)
  BY DEF Send
<1>2. \A P, Q : /\ NoneIn(P, down, Append(up, m)) <=> NoneIn(P, down, up) /\ m \notin P
                /\ NeverIn(P, Q, down, up) /\ (m \notin Q \/ NoneIn(P, down, up))
                     => NeverIn(P, Q, down, Append(up, m))
  BY SendRequest DEF NetShape
<1> QED
  BY <1>1, <1>2 DEF Sends

\* A request is answered.
LEMMA RequestAnswered ==
  ASSUME NetShape, up # <<>>, up' = Tail(up), NEW r \in Down, AnswerTo(Head(up), r), Reply(r)
  PROVE  /\ Calm
         /\ \A P : r \notin P /\ NoneIn(P, down, up) => NoneIn(P, down', up')
         /\ Head(up).kind # "Write" => SentStays
<1>1. Head(up) \in Up /\ down' = Append(down, r)
  BY Elements DEF NetShape, Reply
<1>2. \A P, Q :
         /\ NoneIn(P, down, up) /\ r \notin P => NoneIn(P, down', up')
         /\ NoneIn(P, down', up') => r \notin P /\ (Head(up) \notin P => NoneIn(P, down, up))
         /\ NeverIn(P, Q, down, up) /\ (r \in P => Head(up) \in P) /\ (r \in Q => Head(up) \in Q)
              => NeverIn(P, Q, down', up')
  BY <1>1, AnswerRequest DEF NetShape
<1>3. \A P : Lasting(P) /\ r \in P => Head(up) \in P
  BY <1>1 DEF Lasting
<1>4. \A P : NoneIn(P, down, up) => Head(up) \notin P
  BY TakeRequest DEF NetShape
<1>5. Head(up).kind # "Write" => Head(up) \notin Sent
  BY DEF Sent
<1> QED
  BY <1>2, <1>3, <1>4, <1>5 DEF Calm, SentStays
-----------------------------------------------------------------------------
(* The conversation goes on. *)

\* A task exec has not come to is left alone.
LEMMA IdleStays ==
  ASSUME Shape, Conversation, Routine, NEW j \in Ids, Idle(j)
  PROVE  Idle(j)' /\ task'[j] = task[j]
<1>1. task'[j] = task[j]
  BY DEF Idle, Routine, Moves, Active
<1>2. None(About(j))'
  BY LastingSets DEF Idle, Routine, Calm, None
<1>3. io'.do # "none" => io'.id # j
  <2>1. None(Token(j))
    BY Parts DEF Idle, None
  <2> QED
    BY <2>1 DEF Idle, Routine, GoesOn, Busy
<1> QED
  BY <1>1, <1>2, <1>3 DEF Idle, Routine, Busy

\* A routine step keeps the newest task in m_tasks, and its row.
LEMMA RoutineCurrent ==
  ASSUME Shape, Conversation, Routine
  PROVE  Current'
<1>1. \A i \in Ids : Begun(i) <=> Begun(i)'
  BY DEF Begun, Routine, Moves, Active
<1>2. live \subseteq Ids /\ asked \subseteq Ids /\ Current
  BY DEF Shape, ListsShape, Conversation
<1>7. \A i, j \in Ids : j > i /\ Begun(j)' => Begun(i)'
  BY <1>1, <1>2 DEF Current
<1>3. \A i \in live' : i \in Ids /\ Begun(i)' /\ \A j \in Ids : j > i => ~Begun(j)'
  BY <1>1, <1>2 DEF Current, Routine
<1>4. ASSUME NEW i \in Ids PROVE IF i \in live' THEN row'[i].state # "none" ELSE row'[i] = NoRow
  <2>1. RowFollows(i) /\ (i \in live' => i \in live)
    BY DEF Routine
  <2>2. IF i \in live THEN row[i].state # "none" ELSE row[i] = NoRow
    BY <1>2 DEF Current
  <2>3. i \in live' => task'[i].state # "none"
    BY <1>3 DEF Begun
  <2> QED
    BY <2>1, <2>2, <2>3 DEF RowFollows
<1>5. ASSUME NEW i \in Ids, row'[i].state = "FINISHED" PROVE task'[i].state = "FINISHED"
  <2>1. RowFollows(i) /\ (task'[i] = task[i] \/ Moves(i))
    BY DEF Routine
  <2>2. row[i].state = "FINISHED" => task[i].state = "FINISHED"
    BY <1>2 DEF Current
  <2> QED
    BY <1>5, <2>1, <2>2 DEF RowFollows, Moves, Active, NoRow
<1>6. ASSUME NEW i \in asked' \cap live' PROVE task'[i].state = "FAILED"
  <2>1. i \in live /\ i \in Ids /\ (i \in asked \/ task'[i].state = "FAILED")
    BY <1>2 DEF Routine
  <2>2. i \in asked => task[i].state = "FAILED"
    BY <1>2, <2>1 DEF Current
  <2> QED
    BY <2>1, <2>2 DEF Routine, Moves, Active
<1> QED
  BY <1>3, <1>4, <1>5, <1>6, <1>7 DEF Current

\* It begins no task.
LEMMA RoutineNotBegun ==
  ASSUME Shape, Conversation, Routine
  PROVE  NotBegun'
<1>1. ASSUME NEW i \in Ids, ~Begun(i)'
      PROVE  task'[i] = NoTask /\ Idle(i)' /\ i \notin asked'
  <2>1. ~Begun(i) /\ task'[i].state = "none"
    BY <1>1 DEF Begun, Routine, Moves, Active
  <2>2. task[i] = NoTask /\ Idle(i) /\ i \notin asked
    BY <2>1 DEF Conversation, NotBegun
  <2> QED
    BY <2>1, <2>2, IdleStays DEF Routine
<1> QED
  BY <1>1 DEF NotBegun

\* It lets no task get ahead of one that waits.
LEMMA RoutineLine ==
  ASSUME Shape, Conversation, Routine
  PROVE  Line'
<1>0. queue \in Seq(Ids) /\ Line
  BY DEF Shape, ListsShape, Conversation
<1>1. ASSUME NEW n \in DOMAIN queue'
      PROVE  /\ task'[queue'[n]].state # "none"
             /\ task'[queue'[n]].state = "WAITING_FOR_START" =>
                  /\ \A m \in DOMAIN queue' : m < n => queue'[m] <= queue'[n]
                  /\ \A j \in Ids : j > queue'[n] => Idle(j)' /\ task'[j].progress = 0
  <2> DEFINE T == {i \in Ids : Waiting(i)}
  <2>1. PICK k \in DOMAIN queue :
          /\ queue'[n] = queue[k]
          /\ queue[k] \in T => \A m \in DOMAIN queue' : m < n =>
                                 \E l \in DOMAIN queue : l < k /\ queue'[m] = queue[l]
    BY DEF Routine, Follows
  <2>2. PICK i \in Ids : i = queue[k] /\ task[i].state # "none"
    BY <1>0, Elements DEF Line, Begun
  <2>3. task'[i].state # "none" /\ (task'[i].state = "WAITING_FOR_START" => Waiting(i))
    BY <2>2 DEF Waiting, Routine, Moves, Active
  <2>4. ASSUME Waiting(i)
        PROVE  /\ \A m \in DOMAIN queue' : m < n => queue'[m] <= queue'[n]
               /\ \A j \in Ids : j > queue'[n] => Idle(j)' /\ task'[j].progress = 0
    <3>1. \A m \in DOMAIN queue : m < k => queue[m] <= i
      BY <1>0, <2>2, <2>4 DEF Line
    <3>2. \A j \in Ids : j > i => Idle(j) /\ task[j].progress = 0
      BY <1>0, <2>2, <2>4 DEF Line
    <3> QED
      BY <2>1, <2>2, <2>4, <3>1, <3>2, IdleStays
  <2> QED
    BY <2>1, <2>2, <2>3, <2>4
<1> QED
  BY <1>1 DEF Line, Begun, Waiting

\* It leaves the task that exec starts.
LEMMA RoutineStarting ==
  ASSUME Shape, Conversation, Routine
  PROVE  Starting'
<1> SUFFICES ASSUME exec # 0
             PROVE  /\ task'[exec].state \in {"PREPARING", "FAILED"}
                    /\ \A j \in Ids : j > exec => Idle(j)' /\ task'[j].progress \in {0, task'[exec].progress}
  BY DEF Starting, Routine
<1>1. exec \in Ids
  BY DEF Shape, ListsShape, Names, Ids
<1>2. /\ task[exec].state \in {"PREPARING", "FAILED"}
      /\ \A j \in Ids : j > exec => Idle(j) /\ task[j].progress \in {0, task[exec].progress}
  BY DEF Conversation, Starting
<1>3. task'[exec].state \in {"PREPARING", "FAILED"} /\ task'[exec].progress = task[exec].progress
  BY <1>1, <1>2 DEF Routine, Moves, Active, Sending
<1> QED
  BY <1>2, <1>3, IdleStays

\* It sends no opening, and puts nothing of an old conversation behind one.
LEMMA RoutineOpenings ==
  ASSUME Shape, Conversation, Routine
  PROVE  OpeningLast' /\ OpeningsInOrder' /\ NoneSends'
<1>1. /\ \A i : None(Opening(i)) => None(Opening(i))'
      /\ \A i, j : Never(Opening(i), Opening(j)) => Never(Opening(i), Opening(j))'
      /\ \A i : Never(Opening(i), Token(i)) => Never(Opening(i), Token(i))'
  BY LastingSets DEF Routine, Calm, None, Never
<1>2. OpeningsInOrder'
  BY <1>1 DEF Conversation, OpeningsInOrder
<1>3. NoneSends'
  <2>1. \A j \in Ids : Sending(j)' => Sending(j)
    BY DEF Sending, Routine, Moves, Active
  <2> QED
    BY <1>1, <2>1 DEF Conversation, NoneSends
<1>4. ASSUME NEW i \in Ids, ~None(Opening(i))', io'.id = i, io'.do \in {"request", "write"}
      PROVE  FALSE
  <2>1. ~None(Opening(i))
    BY <1>1, <1>4
  <2>2. ~Sending(i) /\ ~(io.id = i /\ io.do \in {"request", "write"})
    BY <2>1 DEF Conversation, NoneSends, OpeningLast, Ids
  <2> QED
    BY <1>4, <2>2 DEF Routine, GoesOn
<1> QED
  BY <1>1, <1>2, <1>3, <1>4 DEF Conversation, OpeningLast

\* It moves no task whose opening is on its way.
LEMMA RoutinePositions ==
  ASSUME Shape, Conversation, Routine
  PROVE  EmptyFirst' /\ SeekAgrees'
<1>0. \A j \in Ids : task'[j].progress = task[j].progress \/ Sending(j)
  BY DEF Routine, Moves
<1>1. \A i, j \in Ids : Sending(j) /\ j >= i => None(Opening(i))
  BY DEF Conversation, NoneSends
<1>2. EmptyFirst'
  <2>1. ASSUME NEW i \in Ids, ~None(Emptying(i))', NEW j \in Ids, j >= i
        PROVE  task'[j].progress = 0
    <3>1. ~None(Emptying(i))
      BY <2>1, LastingSets DEF Routine, Calm, None
    <3>2. task[j].progress = 0 /\ ~None(Opening(i))
      BY <2>1, <3>1, Parts DEF Conversation, EmptyFirst, None
    <3> QED
      BY <1>0, <1>1, <2>1, <3>2
  <2> QED
    BY <2>1 DEF EmptyFirst
<1>3. SeekAgrees'
  <2>1. ASSUME NEW i \in live' PROVE NoneIn(Off({"Open", "OpenOk"}, i, task'[i].progress), down', up')
    <3>1. i \in live /\ i \in Ids
      BY DEF Routine, Shape, ListsShape
    <3>2. None(Off({"Open", "OpenOk"}, i, task[i].progress))
      BY <3>1 DEF Conversation, SeekAgrees
    <3>3. Sending(i) => None(Off({"Open", "OpenOk"}, i, task'[i].progress))
      BY <1>1, <3>1, Parts DEF None, Ids
    <3>4. None(Off({"Open", "OpenOk"}, i, task'[i].progress))
      BY <1>0, <3>1, <3>2, <3>3
    <3> QED
      BY <3>4, LastingSets DEF Routine, Calm, None
  <2> QED
    BY <2>1 DEF SeekAgrees, None
<1> QED
  BY <1>2, <1>3

\* It mixes no reads with writes.
LEMMA RoutineDirections ==
  ASSUME Shape, Conversation, Routine
  PROVE  Directions'
<1>1. Directions
  BY DEF Conversation
<1>2. /\ None(OfKind({"Write", "WriteOk", "WriteErr"})) => None(OfKind({"Write", "WriteOk", "WriteErr"}))'
      /\ None(OfKind({"Read", "ReadOk", "ReadErr"})) => None(OfKind({"Read", "ReadOk", "ReadErr"}))'
      /\ None(Odd) => None(Odd)'
  BY LastingSets DEF Routine, Calm, None
<1>3. Downloads' <=> Downloads
  BY DEF Downloads, Routine
<1>4. Downloads => io'.do \in {"none", "request"}
  BY <1>1 DEF Directions, Routine, GoesOn
<1>5. ~Downloads => io'.do \in {"none", "block", "write"}
  BY <1>1 DEF Directions, Routine, GoesOn
<1> QED
  BY <1>1, <1>2, <1>3, <1>4, <1>5 DEF Directions

\* A routine step keeps the conversation.
LEMMA RoutineConversation ==
  ASSUME Shape, Conversation, Routine
  PROVE  Conversation'
BY RoutineCurrent, RoutineNotBegun, RoutineLine, RoutineStarting, RoutineOpenings,
   RoutinePositions, RoutineDirections DEF Conversation

\* The queue as it was, without its head, with its head put back, without one element.
LEMMA QueueFollows ==
  ASSUME NEW q \in Seq(Ids), NEW T
  PROVE  /\ Follows(q, q, T)
         /\ q # <<>> => Follows(Tail(q), q, T)
         /\ q # <<>> /\ Head(q) \notin T => Follows(Append(Tail(q), Head(q)), q, T)
         /\ \A A : Follows(WithoutFirst(q, A), q, T)
<1>0. /\ Len(q) \in Nat /\ DOMAIN q = 1..Len(q)
      /\ q # <<>> => /\ Len(q) > 0 /\ Head(q) = q[1] /\ Tail(q) \in Seq(Ids)
                     /\ DOMAIN Tail(q) = 1..(Len(q) - 1)
                     /\ \A n \in 1..(Len(q) - 1) : Tail(q)[n] = q[n + 1]
  BY Elements
<1>1. Follows(q, q, T)
  BY <1>0 DEF Follows
<1>2. ASSUME q # <<>> PROVE Follows(Tail(q), q, T)
  <2>1. ASSUME NEW n \in 1..(Len(q) - 1)
        PROVE  n + 1 \in 1..Len(q) /\ \A m \in 1..(Len(q) - 1) : m < n => m + 1 < n + 1 /\ m + 1 \in 1..Len(q)
    BY <1>0
  <2> QED
    BY <1>0, <1>2, <2>1 DEF Follows
<1>3. ASSUME q # <<>>, Head(q) \notin T PROVE Follows(Append(Tail(q), Head(q)), q, T)
  <2> DEFINE w == Append(Tail(q), Head(q))
             l == Len(q)
  <2>1. /\ DOMAIN w = 1..l /\ w[l] = q[1] /\ \A n \in 1..(l - 1) : w[n] = q[n + 1]
    <3>1. DOMAIN Tail(q) = 1..Len(Tail(q)) /\ Len(Tail(q)) \in Nat
      BY <1>0, <1>3, Elements
    <3>2. Len(Tail(q)) = l - 1
      BY <1>0, <1>3
    <3>3. /\ DOMAIN w = 1..(Len(Tail(q)) + 1)
          /\ \A n \in 1..Len(Tail(q)) : w[n] = Tail(q)[n]
          /\ w[Len(Tail(q)) + 1] = Head(q)
      BY <1>0, <1>3, Elements
    <3> QED
      BY <1>0, <1>3, <3>2, <3>3
  <2> HIDE DEF w, l
  <2>2. l \in Nat /\ l > 0 /\ DOMAIN q = 1..l /\ q[1] \notin T
    BY <1>0, <1>3 DEF l
  <2>3. ASSUME NEW n \in 1..l
        PROVE  \E k \in DOMAIN q :
                 /\ w[n] = q[k]
                 /\ q[k] \in T => \A m \in DOMAIN w : m < n => \E o \in DOMAIN q : o < k /\ w[m] = q[o]
    <3>1. CASE n = l
      <4>1. 1 \in DOMAIN q /\ w[n] = q[1]
        BY <2>1, <2>2, <3>1
      <4> QED
        BY <2>2, <4>1
    <3>2. CASE n # l
      <4>1. n + 1 \in DOMAIN q /\ w[n] = q[n + 1]
        BY <2>1, <2>2, <3>2
      <4>2. \A m \in 1..l : m < n => m + 1 \in DOMAIN q /\ m + 1 < n + 1 /\ w[m] = q[m + 1]
        BY <2>1, <2>2, <3>2
      <4> QED
        BY <2>1, <4>1, <4>2
    <3> QED
      BY <3>1, <3>2
  <2> QED
    BY <2>1, <2>3 DEF Follows, w
<1>4. ASSUME NEW A PROVE Follows(WithoutFirst(q, A), q, T)
  <2> DEFINE w == WithoutFirst(q, A)
  <2> HIDE DEF w
  <2>1. CASE w = q
    BY <1>1, <2>1 DEF w
  <2>2. CASE w # q
    <3>1. PICK k \in 1..Len(q) :
            /\ DOMAIN w = 1..(Len(q) - 1)
            /\ \A n \in 1..(Len(q) - 1) : w[n] = IF n < k THEN q[n] ELSE q[n + 1]
      BY <2>2, WithoutShape DEF w
    <3>4. ASSUME NEW n \in 1..(Len(q) - 1)
          PROVE  \E o \in DOMAIN q :
                   /\ w[n] = q[o]
                   /\ \A m \in DOMAIN w : m < n => \E p \in DOMAIN q : p < o /\ w[m] = q[p]
      <4>1. CASE n < k
        <5>1. n \in DOMAIN q /\ w[n] = q[n] /\ \A m \in DOMAIN w : m < n => m \in DOMAIN q /\ w[m] = q[m]
          BY <1>0, <3>1, <4>1
        <5> QED
          BY <5>1
      <4>2. CASE ~(n < k)
        <5>1. n + 1 \in DOMAIN q /\ w[n] = q[n + 1]
          BY <1>0, <3>1, <4>2
        <5>2. ASSUME NEW m \in DOMAIN w, m < n PROVE \E p \in DOMAIN q : p < n + 1 /\ w[m] = q[p]
          <6>1. m \in 1..(Len(q) - 1) /\ m \in DOMAIN q /\ m + 1 \in DOMAIN q /\ m < n + 1 /\ m + 1 < n + 1
            BY <1>0, <3>1, <5>2
          <6>2. w[m] = q[m] \/ w[m] = q[m + 1]
            BY <3>1, <6>1
          <6> QED
            BY <6>1, <6>2
        <5> QED
          BY <5>1, <5>2
      <4> QED
        BY <4>1, <4>2
    <3> QED
      BY <3>1, <3>4 DEF Follows, w
  <2> QED
    BY <2>1, <2>2
<1> QED
  BY <1>1, <1>2, <1>3, <1>4

\* A task that changes leaves the others, and its row follows it.
LEMMA OneTaskChanges ==
  ASSUME TasksShape, NEW i \in Ids, NEW t \in TaskRec, Become(i, t) \/ Progressed(i, t),
         live' = live
  PROVE  /\ task'[i] = t /\ \A j \in Ids : j # i => task'[j] = task[j]
         /\ \A j \in Ids : RowFollows(j)
<1>1. task' = [task EXCEPT ![i] = t]
  BY DEF Become, Progressed
<1>2. row' = row \/ row' = Flushed(i, t)
  BY DEF Become, Progressed
<1>3. ASSUME NEW j \in Ids PROVE RowFollows(j)
  BY <1>1, <1>2 DEF RowFollows, Flushed, TasksShape
<1> QED
  BY <1>1, <1>3 DEF TasksShape
-----------------------------------------------------------------------------
(* Which steps are routine. *)

\* No odd message comes from nowhere.
LEMMA FewerOdd == Fewer /\ None(Odd) => NoneIn(Odd, down', up')
BY QuietSets DEF Fewer, None

\* The first answer, and the first request.
LEMMA FirstAnswer ==
  ASSUME NetShape, down # <<>>
  PROVE  Head(down) \in Down /\ \A P : Head(down) \in P => ~None(P)
<1>1. Head(down) \in Down
  BY Elements DEF NetShape
<1>2. ASSUME NEW P, Head(down) \in P PROVE ~None(P)
  BY <1>2, TakeAnswer DEF NetShape, None
<1> QED
  BY <1>1, <1>2

\* The request the guard takes is one that was in the channel.
LEMMA FirstRequest ==
  ASSUME NetShape, up # <<>>
  PROVE  Head(up) \in Up /\ \A P : Head(up) \in P => ~None(P)
<1>1. Head(up) \in Up
  BY Elements DEF NetShape
<1>2. ASSUME NEW P, Head(up) \in P PROVE ~None(P)
  BY <1>2, TakeRequest DEF NetShape, None
<1> QED
  BY <1>1, <1>2

\* A step that leaves the viewer alone.
LEMMA ViewerUnchanged ==
  ASSUME Shape, UNCHANGED <<viewer, action>>, Calm, None(Odd) => NoneIn(Odd, down', up')
  PROVE  Routine
<1>1. Follows(queue', queue, {i \in Ids : Waiting(i)})
  BY QueueFollows DEF viewer, Shape, ListsShape
<1> QED
  BY <1>1 DEF Routine, viewer, RowFollows, GoesOn

\* A step of a task that exec, an answer or the user ends.
LEMMA TaskMoves ==
  ASSUME Shape, NEW i \in Ids, NEW t \in TaskRec, Become(i, t) \/ Progressed(i, t),
         UNCHANGED <<action, exec, live>>, Fewer, GoesOn,
         Follows(queue', queue, {j \in Ids : Waiting(j)}),
         \A j \in asked' : j \in asked \/ (j = i /\ t.state = "FAILED"),
         task[i].state \in Active, t.state \in {task[i].state, "STOPED", "FINISHED", "FAILED"},
         Sending(i) \/ (t.progress = task[i].progress /\ t.fp = task[i].fp),
         t.force = task[i].force, exec = i => Sending(i) \/ t.state = "FAILED"
  PROVE  Routine
<1>1. /\ task'[i] = t /\ \A j \in Ids : j # i => task'[j] = task[j]
      /\ \A j \in Ids : RowFollows(j)
  BY OneTaskChanges DEF Shape
<1>2. Moves(i)
  BY <1>1 DEF Moves
<1> QED
  BY <1>1, <1>2, FewerIsCalm, FewerOdd DEF Routine

\* A step of the queue only.
LEMMA QueueMoves ==
  ASSUME Shape, Follows(queue', queue, {j \in Ids : Waiting(j)}),
         UNCHANGED <<action, task, live, exec, io, row, asked, net>>
  PROVE  Routine
BY ChannelUnchanged, FewerOdd DEF Routine, RowFollows, GoesOn, net

\* removeTask and stopTask are routine: they only send a Close.
LEMMA UserRoutine ==
  ASSUME Shape, Conversation, NEW i \in Ids, RemoveTask(i) \/ StopTask(i)
  PROVE  Routine
<1> USE DEF Shape
<1>q. queue \in Seq(Ids)
  BY DEF ListsShape
<1>1. CASE RemoveTask(i)
  <2>1. Follows(queue', queue, {j \in Ids : Waiting(j)})
    BY <1>q, <1>1, QueueFollows DEF RemoveTask
  <2>2. Fewer /\ Calm
    BY <1>1, ChannelUnchanged DEF RemoveTask, net
  <2>3. \A j \in Ids : RowFollows(j)
    BY <1>1 DEF RemoveTask, RowFollows, TasksShape
  <2> QED
    BY <1>1, <2>1, <2>2, <2>3, FewerOdd DEF RemoveTask, Routine, GoesOn
<1>2. CASE StopTask(i)
  <2>1. task[i] \in TaskRec
    BY DEF TasksShape
  <2> DEFINE t == [task[i] EXCEPT !.state = "STOPED"]
  <2>2. t \in TaskRec /\ t.state = "STOPED" /\ t.progress = task[i].progress /\ t.fp = task[i].fp /\ t.force = task[i].force
    BY <2>1 DEF TaskRec, States
  <2>3. Fewer
    BY <1>2, CloseSent DEF StopTask
  <2>4. Become(i, t) /\ UNCHANGED <<action, exec, live, queue, io, asked>> /\ Sending(i)
    BY <1>2 DEF StopTask, Sending
  <2> HIDE DEF t
  <2>5. Follows(queue', queue, {j \in Ids : Waiting(j)}) /\ GoesOn /\ task[i].state \in Active
    BY <1>q, <2>4, QueueFollows DEF GoesOn, Sending, Active
  <2> QED
    BY <2>2, <2>3, <2>4, <2>5, TaskMoves
<1> QED
  BY <1>1, <1>2

\* So is what exec does with a task that runs, has timed out or is over.
LEMMA ExecRoutine ==
  ASSUME Shape, NEW i \in Ids, Watch(i) \/ TimeOut(i) \/ Drop(i)
  PROVE  Routine
<1> USE DEF Shape
<1>q. queue \in Seq(Ids) /\ queue # <<>> /\ Head(queue) = i /\ exec = 0 /\ 0 # i
  BY ConstFacts DEF ListsShape, Watch, TimeOut, Drop, Popped, Ids
<1>1. CASE Watch(i)
  <2>1. Follows(queue', queue, {j \in Ids : Waiting(j)})
    BY <1>q, <1>1, QueueFollows DEF Watch, Requeued, Waiting, Active
  <2> QED
    BY <1>1, <2>1, QueueMoves DEF Watch
<1>2. CASE TimeOut(i)
  <2>1. task[i] \in TaskRec
    BY DEF TasksShape
  <2> DEFINE t == [task[i] EXCEPT !.state = "STOPED"]
  <2>2. t \in TaskRec /\ t.state = "STOPED" /\ t.progress = task[i].progress /\ t.fp = task[i].fp /\ t.force = task[i].force
    BY <2>1 DEF TaskRec, States
  <2>3. Fewer
    BY <1>2, ChannelUnchanged DEF TimeOut, net
  <2>4. Become(i, t) /\ UNCHANGED <<action, exec, live, io, asked>> /\ task[i].state \in Active
    BY <1>2 DEF TimeOut
  <2>5. Follows(queue', queue, {j \in Ids : Waiting(j)})
    BY <1>q, <1>2, QueueFollows DEF TimeOut, Requeued, Waiting, Active
  <2> HIDE DEF t
  <2> QED
    BY <1>q, <2>2, <2>3, <2>4, <2>5, TaskMoves DEF GoesOn
<1>3. CASE Drop(i)
  <2>1. Follows(queue', queue, {j \in Ids : Waiting(j)})
    BY <1>q, <1>3, QueueFollows DEF Drop
  <2> QED
    BY <1>3, <2>1, QueueMoves DEF Drop
<1> QED
  BY <1>1, <1>2, <1>3

\* So is a question the user answers with no.
LEMMA DeclinedRoutine ==
  ASSUME Shape, UNCHANGED <<action, task, live, queue, exec, io, row, net>>, asked' \subseteq asked
  PROVE  Routine
<1>1. Follows(queue', queue, {j \in Ids : Waiting(j)})
  BY QueueFollows DEF Shape, ListsShape
<1> QED
  BY <1>1, ChannelUnchanged, FewerOdd DEF Routine, RowFollows, GoesOn, net

\* What the kind of an answer says.
LEMMA AnswerMeans ==
  ASSUME Shape, Conversation, NEW i \in Ids, NEW k, Answer(k, i), Received
  PROVE  /\ Head(down) \in Down /\ Head(down).kind = k /\ Head(down).id = i
         /\ down # <<>> /\ down' = Tail(down) /\ ~Busy /\ online
         /\ k \in {"OpenOk", "OpenErr"} => Head(down) \in Opening(i)
         /\ k \in {"ReadOk", "ReadErr", "WriteOk", "WriteErr"} => Head(down) \in Token(i) /\ ~None(Token(i))
         /\ k \in {"ReadOk", "ReadErr"} => Downloads
         /\ k \in {"WriteOk", "WriteErr"} => ~Downloads
<1>1. /\ down # <<>> /\ down' = Tail(down) /\ Head(down).kind = k /\ Head(down).id = i /\ io = NoIO
      /\ online
  BY DEF Answer, Received
<1>2. Head(down) \in Down /\ \A P : Head(down) \in P => ~None(P)
  BY <1>1, FirstAnswer DEF Shape
<1>3. Head(down) \in Message
  BY <1>2 DEF Message
<1>4. k \in {"OpenOk", "OpenErr"} => Head(down) \in Opening(i)
  BY <1>1, <1>3 DEF Opening
<1>5. k \in {"ReadOk", "ReadErr", "WriteOk", "WriteErr"} => Head(down) \in Token(i)
  BY <1>1, <1>3 DEF Token
<1>6. k \in {"ReadOk", "ReadErr"} => Head(down) \in OfKind({"Read", "ReadOk", "ReadErr"})
  BY <1>1, <1>3 DEF OfKind
<1>7. k \in {"WriteOk", "WriteErr"} => Head(down) \in OfKind({"Write", "WriteOk", "WriteErr"})
  BY <1>1, <1>3 DEF OfKind
<1> QED
  BY <1>1, <1>2, <1>4, <1>5, <1>6, <1>7 DEF Conversation, Directions, Busy, NoIO

\* So is an answer that says that the guard has failed.
LEMMA FailuresRoutine ==
  ASSUME Shape, Conversation, NEW i \in Ids, OpenFailed(i) \/ TransferFailed(i)
  PROVE  Routine /\ Fewer
<1> USE DEF Shape
<1>t. task[i] \in TaskRec /\ queue \in Seq(Ids)
  BY DEF TasksShape, ListsShape
<1>f. queue' = queue => Follows(queue', queue, {j \in Ids : Waiting(j)})
  BY <1>t, QueueFollows
<1>1. CASE OpenFailed(i)
  <2> DEFINE t == [task[i] EXCEPT !.state = "FAILED"]
  <2>1. t \in TaskRec /\ t.state = "FAILED" /\ t.progress = task[i].progress /\ t.fp = task[i].fp /\ t.force = task[i].force
    BY <1>t DEF TaskRec, States
  <2>2. /\ Become(i, t) /\ UNCHANGED <<action, exec, live, queue, io>> /\ task[i].state \in Active
        /\ asked' \subseteq asked \cup {i}
        /\ up' = up /\ Answer("OpenErr", i) /\ Received
    BY <1>1 DEF OpenFailed, Asking, Active
  <2>3. Fewer
    BY <2>2, AnswerMeans, AnswerLeaves
  <2> HIDE DEF t
  <2> QED
    BY <1>f, <2>1, <2>2, <2>3, TaskMoves DEF GoesOn
<1>2. CASE TransferFailed(i)
  <2> DEFINE s == IF Head(down).err = "eof" THEN "FINISHED" ELSE "FAILED"
             t == [task[i] EXCEPT !.fp = "closed", !.state = s]
  <2>1. s \in {"FINISHED", "FAILED"}
    OBVIOUS
  <2>2. Become(i, t)
    BY <1>2 DEF TransferFailed
  <2> HIDE DEF s
  <2>3. t \in TaskRec /\ t.state = s /\ t.force = task[i].force
    BY <1>t, <2>1 DEF TaskRec, States, Modes
  <2>4. /\ UNCHANGED <<action, exec, live, queue, io, asked>> /\ Sending(i)
        /\ Received /\ Send(Close(i)) /\ (Answer("ReadErr", i) \/ Answer("WriteErr", i))
    BY <1>2 DEF TransferFailed, Sending
  <2>5. Fewer
    BY <2>4, AnswerMeans, AnswerLeavesCloseSent
  <2> HIDE DEF t
  <2> QED
    BY <1>f, <2>1, <2>2, <2>3, <2>4, <2>5, TaskMoves DEF GoesOn, Sending, Active
<1> QED
  BY <1>1, <1>2

\* So is an answer about a block: the next one is asked for by another step.
LEMMA BlocksRoutine ==
  ASSUME Shape, Conversation, NEW i \in Ids, BlockArrived(i) \/ BlockTaken(i)
  PROVE  Routine /\ Fewer
<1> USE DEF Shape
<1>t. task[i] \in TaskRec /\ queue \in Seq(Ids)
  BY DEF TasksShape, ListsShape
<1>f. queue' = queue => Follows(queue', queue, {j \in Ids : Waiting(j)})
  BY <1>t, QueueFollows
<1>1. CASE BlockTaken(i)
  <2>1. /\ UNCHANGED <<action, exec, live, queue, asked, row>> /\ up' = up /\ i \in live
        /\ Answer("WriteOk", i) /\ Received /\ io'.do = "block" /\ io'.id = i
        /\ task' = [task EXCEPT ![i] = task[i]]
    BY <1>1 DEF BlockTaken, Later, Progressed
  <2>2. task' = task
    BY <2>1 DEF TasksShape
  <2>3. Fewer
    BY <2>1, AnswerMeans, AnswerLeaves
  <2>4. GoesOn
    BY <2>1, AnswerMeans DEF GoesOn
  <2>5. \A j \in Ids : RowFollows(j)
    BY <2>1 DEF RowFollows
  <2> QED
    BY <1>f, <2>1, <2>2, <2>3, <2>4, <2>5, FewerIsCalm, FewerOdd DEF Routine
<1>2. CASE BlockArrived(i)
  <2>1. /\ UNCHANGED <<action, exec, live, queue, asked>> /\ Sending(i) /\ i \in live
        /\ Answer("ReadOk", i) /\ Received
    BY <1>2 DEF BlockArrived, Sending
  <2>2. Downloads /\ ~None(Token(i)) /\ Head(down) \in Down /\ Head(down).kind = "ReadOk"
        /\ down # <<>> /\ down' = Tail(down)
    BY <2>1, AnswerMeans
  <2>3. Head(down).seek \in Nat
    BY <2>2 DEF Down
  <2>4. ASSUME NEW p \in Nat, NEW m \in Modes, Progressed(i, [task[i] EXCEPT !.progress = p, !.fp = m]),
               up' = up, io'.do = "request", io'.id = i
        PROVE  Routine /\ Fewer
    <3> DEFINE t == [task[i] EXCEPT !.progress = p, !.fp = m]
    <3>1. t \in TaskRec /\ t.state = task[i].state /\ t.force = task[i].force
      BY <1>t DEF TaskRec
    <3>2. Fewer
      BY <2>2, <2>4, AnswerLeaves
    <3>3. GoesOn
      BY <2>1, <2>2, <2>4 DEF GoesOn
    <3>4. Progressed(i, t)
      BY <2>4
    <3> HIDE DEF t
    <3> QED
      BY <1>f, <2>1, <3>1, <3>2, <3>3, <3>4, TaskMoves DEF Sending, Active
  <2>5. ASSUME Become(i, [task[i] EXCEPT !.state = "FAILED"]), Send(Close(i)), io' = io
        PROVE  Routine /\ Fewer
    <3> DEFINE t == [task[i] EXCEPT !.state = "FAILED"]
    <3>1. t \in TaskRec /\ t.state = "FAILED" /\ t.force = task[i].force
      BY <1>t DEF TaskRec, States
    <3>2. Fewer
      BY <2>2, <2>5, AnswerLeavesCloseSent
    <3>4. Become(i, t)
      BY <2>5
    <3> HIDE DEF t
    <3> QED
      BY <1>f, <2>1, <2>5, <3>1, <3>2, <3>4, TaskMoves DEF Sending, Active, GoesOn
  <2>6. task[i].fp \in Modes /\ "closed" \in Modes
        /\ \A p : [task[i] EXCEPT !.progress = p] = [task[i] EXCEPT !.progress = p, !.fp = task[i].fp]
    BY <1>t DEF TaskRec, Modes
  <2>7. Head(down).seek + 1 \in Nat
    BY <2>3
  <2>8. \/ /\ Progressed(i, [task[i] EXCEPT !.progress = Head(down).seek + 1])
           /\ up' = up /\ io'.do = "request" /\ io'.id = i
        \/ /\ Progressed(i, [task[i] EXCEPT !.progress = Head(down).seek, !.fp = "closed"])
           /\ up' = up /\ io'.do = "request" /\ io'.id = i
        \/ Become(i, [task[i] EXCEPT !.state = "FAILED"]) /\ Send(Close(i)) /\ io' = io
    BY <1>2 DEF BlockArrived, Later
  <2>9. CASE /\ Progressed(i, [task[i] EXCEPT !.progress = Head(down).seek + 1])
             /\ up' = up /\ io'.do = "request" /\ io'.id = i
    <3>1. [task[i] EXCEPT !.progress = Head(down).seek + 1]
            = [task[i] EXCEPT !.progress = Head(down).seek + 1, !.fp = task[i].fp]
      BY <2>6
    <3>2. Progressed(i, [task[i] EXCEPT !.progress = Head(down).seek + 1, !.fp = task[i].fp])
      BY <2>9, <3>1
    <3> QED
      BY <2>4, <2>6, <2>7, <2>9, <3>2
  <2>10. CASE /\ Progressed(i, [task[i] EXCEPT !.progress = Head(down).seek, !.fp = "closed"])
              /\ up' = up /\ io'.do = "request" /\ io'.id = i
    BY <2>3, <2>4, <2>6, <2>10
  <2> QED
    BY <2>5, <2>8, <2>9, <2>10
<1> QED
  BY <1>1, <1>2

\* So is reading the block that is to be sent.
LEMMA ReadBlockRoutine ==
  ASSUME Shape, Conversation, ReadBlock
  PROVE  Routine /\ Fewer /\ Calm /\ SentStays
<1> USE DEF Shape
<1> DEFINE i == io.id
<1>0. i \in Ids /\ io.do = "block" /\ io.seek \in Nat /\ UNCHANGED <<action, exec, live, queue, asked, down>>
  BY DEF ReadBlock, IOShape
<1>t. task[i] \in TaskRec /\ queue \in Seq(Ids)
  BY <1>0 DEF TasksShape, ListsShape
<1>f. queue' = queue => Follows(queue', queue, {j \in Ids : Waiting(j)})
  BY <1>t, QueueFollows
<1>1. CASE UNCHANGED <<task, row, up, mishaps>> /\ io' = NoIO
  BY <1>0, <1>1, <1>f, ChannelUnchanged, FewerOdd DEF Routine, RowFollows, GoesOn, NoIO
<1>2. CASE /\ Sending(i) /\ io.seek < N /\ task' = [task EXCEPT ![i] = [task[i] EXCEPT !.progress = io.seek + 1]]
           /\ io' = [io EXCEPT !.do = "write"] /\ UNCHANGED <<row, up, mishaps>>
  <2> DEFINE t == [task[i] EXCEPT !.progress = io.seek + 1]
  <2>1. t \in TaskRec /\ t.state = task[i].state /\ t.force = task[i].force
    BY <1>0, <1>t DEF TaskRec
  <2>2. Progressed(i, t)
    BY <1>2 DEF Progressed
  <2>3. Fewer /\ Calm /\ SentStays
    BY <1>0, <1>2, ChannelUnchanged
  <2>4. GoesOn
    BY <1>0, <1>2 DEF GoesOn, IOShape
  <2> HIDE DEF t
  <2> QED
    BY <1>0, <1>2, <1>f, <2>1, <2>2, <2>3, <2>4, TaskMoves DEF Sending, Active
<1>3. ASSUME NEW p \in Nat, NEW s \in {"FINISHED", "FAILED"}, Sending(i),
             Become(i, [task[i] EXCEPT !.fp = "closed", !.progress = p, !.state = s]),
             Send(Close(i)), io' = NoIO
      PROVE  Routine /\ Fewer /\ Calm /\ SentStays
  <2> DEFINE t == [task[i] EXCEPT !.fp = "closed", !.progress = p, !.state = s]
  <2>1. t \in TaskRec /\ t.state = s /\ t.force = task[i].force
    BY <1>t DEF TaskRec, States, Modes
  <2>2. Become(i, t)
    BY <1>3
  <2>3. Fewer /\ Calm /\ SentStays
    BY <1>0, <1>3, CloseSent
  <2> HIDE DEF t
  <2> QED
    BY <1>0, <1>3, <1>f, <2>1, <2>2, <2>3, TaskMoves DEF Sending, Active, GoesOn, NoIO
<1>4. (IF task[i].fp = "closed" THEN task[i].progress ELSE io.seek) \in Nat
  BY <1>0, <1>t DEF TaskRec
<1> QED
  BY <1>1, <1>2, <1>3, <1>4 DEF ReadBlock, Sending

\* What the guard answers to an opening, and what that does to the copy.
LEMMA OpenHandled ==
  ASSUME Shape, NEW i \in Ids, HandleOpen(i)
  PROVE  /\ up # <<>> /\ up' = Tail(up) /\ Head(up) \in Up /\ Head(up).kind = "Open" /\ Head(up).id = i
         /\ UNCHANGED <<action, viewer, torn>>
         /\ \E r \in Down :
              /\ AnswerTo(Head(up), r) /\ Reply(r) /\ r \notin Odd
              /\ \/ /\ r.kind = "OpenOk"
                    /\ InitIO(~Downloads, "closed", Head(up).seek, Head(up).force).err = "none"
                    /\ file' = InitIO(~Downloads, "closed", Head(up).seek, Head(up).force).file
                 \/ r.kind = "OpenErr" /\ UNCHANGED file /\ (r.err = "exists" => ~Downloads /\ file # <<>>)
<1>1. /\ up # <<>> /\ up' = Tail(up) /\ Head(up).kind = "Open" /\ Head(up).id = i
      /\ UNCHANGED <<action, viewer, torn>>
  BY DEF HandleOpen, Asked
<1>2. Head(up) \in Up
  BY <1>1, FirstRequest DEF Shape
<1>3. Head(up).seek \in Nat
  BY <1>1, <1>2 DEF Up
<1> DEFINE r == InitIO(~Downloads, "closed", Head(up).seek, Head(up).force)
<1>4. r.err \in {"none", "exists"} /\ (r.err = "exists" => ~Downloads /\ file # <<>>)
  BY DEF InitIO
<1> HIDE DEF r
<1>5. \/ r.err = "none" /\ file' = r.file /\ Reply(Request("OpenOk", i, Head(up).seek))
      \/ r.err # "none" /\ UNCHANGED file /\ Reply(Err("OpenErr", i, r.err))
      \/ UNCHANGED file /\ Reply(Err("OpenErr", i, "failed"))
  BY DEF HandleOpen, r
<1>6. ASSUME NEW a, a = Request("OpenOk", i, Head(up).seek)
      PROVE  a \in Down /\ AnswerTo(Head(up), a) /\ a \notin Odd /\ a.kind = "OpenOk"
  <2>1. a \in Down
    BY <1>3, <1>6, Messages
  <2> QED
    BY <1>1, <1>6, <2>1 DEF AnswerTo, Odd, Request
<1>7. ASSUME NEW e \in {"exists", "failed"}, NEW a, a = Err("OpenErr", i, e)
      PROVE  a \in Down /\ AnswerTo(Head(up), a) /\ a \notin Odd /\ a.kind = "OpenErr" /\ a.err = e
  <2>1. a \in Down
    BY <1>7 DEF Err, Down
  <2> QED
    BY <1>1, <1>7, <2>1 DEF AnswerTo, Odd, Err
<1>8. CASE r.err = "none" /\ file' = r.file /\ Reply(Request("OpenOk", i, Head(up).seek))
  BY <1>1, <1>2, <1>6, <1>8 DEF r
<1>9. CASE r.err # "none" /\ UNCHANGED file /\ Reply(Err("OpenErr", i, r.err))
  BY <1>1, <1>2, <1>4, <1>7, <1>9
<1>10. CASE UNCHANGED file /\ Reply(Err("OpenErr", i, "failed"))
  BY <1>1, <1>2, <1>7, <1>10
<1> QED
  BY <1>5, <1>8, <1>9, <1>10

\* ... to a request for a block,
LEMMA ReadHandled ==
  ASSUME Shape, NEW i \in Ids, HandleRead(i)
  PROVE  /\ up # <<>> /\ up' = Tail(up) /\ Head(up) \in Up /\ Head(up).kind = "Read" /\ Head(up).id = i
         /\ UNCHANGED <<action, viewer, torn, file>>
         /\ \E r \in Down :
              /\ AnswerTo(Head(up), r) /\ Reply(r) /\ r \notin Odd
              /\ r.kind \in {"ReadOk", "ReadErr"}
              /\ r.kind = "ReadErr" /\ r.err = "eof" => Head(up).seek >= N
<1>1. /\ up # <<>> /\ up' = Tail(up) /\ Head(up).kind = "Read" /\ Head(up).id = i
      /\ UNCHANGED <<action, viewer, torn, file>>
  BY DEF HandleRead, Asked
<1>2. Head(up) \in Up
  BY <1>1, FirstRequest DEF Shape
<1>3. Head(up).seek \in Nat /\ N \in Nat
  BY <1>1, <1>2, ConstFacts DEF Up
<1>5. \/ Head(up).seek < N /\ Reply(Request("ReadOk", i, Head(up).seek))
      \/ Head(up).seek >= N /\ Reply(Err("ReadErr", i, "eof"))
      \/ Reply(Err("ReadErr", i, "failed"))
  BY DEF HandleRead
<1>6. ASSUME NEW a, a = Request("ReadOk", i, Head(up).seek), Head(up).seek < N
      PROVE  a \in Down /\ AnswerTo(Head(up), a) /\ a \notin Odd /\ a.kind = "ReadOk"
  <2>1. a \in Down
    BY <1>3, <1>6, Messages
  <2> QED
    BY <1>1, <1>3, <1>6, <2>1 DEF AnswerTo, Odd, Request
<1>7. ASSUME NEW e \in {"eof", "failed"}, NEW a, a = Err("ReadErr", i, e)
      PROVE  a \in Down /\ AnswerTo(Head(up), a) /\ a \notin Odd /\ a.kind = "ReadErr" /\ a.err = e
  <2>1. a \in Down
    BY <1>7 DEF Err, Down
  <2> QED
    BY <1>1, <1>7, <2>1 DEF AnswerTo, Odd, Err
<1>8. CASE Head(up).seek < N /\ Reply(Request("ReadOk", i, Head(up).seek))
  BY <1>1, <1>2, <1>6, <1>8
<1>9. CASE Head(up).seek >= N /\ Reply(Err("ReadErr", i, "eof"))
  BY <1>1, <1>2, <1>7, <1>9
<1>10. CASE Reply(Err("ReadErr", i, "failed"))
  <2>1. PICK a \in Down : a = Err("ReadErr", i, "failed")
    BY <1>7
  <2>2. AnswerTo(Head(up), a) /\ a \notin Odd /\ a.kind = "ReadErr" /\ a.err = "failed" /\ Reply(a)
    BY <1>7, <1>10, <2>1
  <2> QED
    BY <1>1, <1>2, <2>2
<1> QED
  BY <1>5, <1>8, <1>9, <1>10

\* ... and to a block, when the copy may survive.
LEMMA WriteHandled ==
  ASSUME Shape, NEW i \in Ids, HandleWrite(i), torn' = {}
  PROVE  /\ up # <<>> /\ up' = Tail(up) /\ Head(up) \in Up /\ Head(up).kind = "Write" /\ Head(up).id = i
         /\ UNCHANGED <<action, viewer, torn>>
         /\ \E m : file' = Put(m, Head(up).seek)
         /\ \E r \in Down : /\ AnswerTo(Head(up), r) /\ Reply(r) /\ r \notin Odd
                            /\ r.kind = "WriteOk" /\ r.id = i /\ r.seek = Head(up).seek + 1
<1>1. /\ up # <<>> /\ up' = Tail(up) /\ Head(up).kind = "Write" /\ Head(up).id = i
      /\ UNCHANGED <<action, viewer>>
  BY DEF HandleWrite, Asked
<1>2. Head(up) \in Up
  BY <1>1, FirstRequest DEF Shape
<1>3. Head(up).seek \in Nat
  BY <1>1, <1>2 DEF Up
<1>4. /\ torn' = torn /\ file' = Put(obj[table[i]].fp, Head(up).seek)
      /\ Reply(Request("WriteOk", i, Head(up).seek + 1))
  BY DEF HandleWrite
<1>5. PICK a : a = Request("WriteOk", i, Head(up).seek + 1)
  OBVIOUS
<1>6. a \in Down
  <2>1. Head(up).seek + 1 \in Nat
    BY <1>3
  <2> QED
    BY <1>5, <2>1, Messages
<1>7. AnswerTo(Head(up), a) /\ a \notin Odd /\ a.kind = "WriteOk" /\ a.id = i /\ a.seek = Head(up).seek + 1
  BY <1>1, <1>5 DEF AnswerTo, Odd, Request
<1> QED
  BY <1>1, <1>2, <1>4, <1>5, <1>6, <1>7

\* So are the guard's handlers: the answer takes the place of its request.
LEMMA HandlersRoutine ==
  ASSUME Shape, NEW i \in Ids, HandleOpen(i) \/ HandleRead(i) \/ HandleClose(i) \/ (HandleWrite(i) /\ torn' = {})
  PROVE  /\ Routine
         /\ ~HandleWrite(i) => SentStays
<1> USE DEF Shape
<1>1. ASSUME NEW r \in Down, AnswerTo(Head(up), r), Reply(r), r \notin Odd, up # <<>>, up' = Tail(up),
             UNCHANGED <<action, viewer>>
      PROVE  Routine /\ (Head(up).kind # "Write" => SentStays)
  <2>1. Calm /\ (None(Odd) => NoneIn(Odd, down', up')) /\ (Head(up).kind # "Write" => SentStays)
    BY <1>1, RequestAnswered DEF None
  <2> QED
    BY <1>1, <2>1, ViewerUnchanged
<1>2. CASE HandleOpen(i)
  BY <1>1, <1>2, OpenHandled
<1>3. CASE HandleRead(i)
  BY <1>1, <1>3, ReadHandled
<1>4. CASE HandleClose(i)
  <2>1. Fewer /\ Calm /\ SentStays /\ UNCHANGED <<action, viewer>>
    BY <1>4, CloseTaken DEF HandleClose, Asked
  <2> QED
    BY <2>1, ViewerUnchanged, FewerOdd
<1>5. CASE HandleWrite(i) /\ torn' = {}
  BY <1>1, <1>5, WriteHandled
<1> QED
  BY <1>2, <1>3, <1>4, <1>5

\* The other steps that leave the viewer alone.
LEMMA OthersRoutine ==
  ASSUME Shape, torn' = {},
         GuardExec \/ LoseConnection \/ Reconnect \/ Unroutable \/ RestartGuard \/ Unwanted
  PROVE  Routine /\ Fewer /\ Calm /\ SentStays /\ UNCHANGED <<action, file, viewer>>
<1> USE DEF Shape
<1>0. UNCHANGED <<action, file, viewer>>
  BY DEF GuardExec, GuardTake, GuardWatch, GuardTimeOut, GuardDrop, LoseConnection, Reconnect, Unroutable,
         RestartGuard, Unwanted
<1>1. Fewer /\ Calm /\ SentStays
  <2>1. CASE GuardExec \/ Reconnect
    <3>1. UNCHANGED <<up, down>>
      BY <2>1 DEF GuardExec, GuardTake, GuardWatch, GuardTimeOut, GuardDrop, Reconnect, net
    <3> QED
      BY <3>1, ChannelUnchanged
  <2>2. CASE LoseConnection
    BY <2>2, LostLeaves DEF LoseConnection
  <2>3. CASE Unroutable \/ Unwanted
    BY <2>3, AnswerLeaves DEF Unroutable, Unwanted, Received
  <2>4. CASE RestartGuard
    BY <2>4, AllLost DEF RestartGuard
  <2> QED
    BY <2>1, <2>2, <2>3, <2>4
<1> QED
  BY <1>0, <1>1, ViewerUnchanged, FewerOdd
-----------------------------------------------------------------------------
(* The steps that add or start a task, open or ask for something, and a restart. *)

\* The ids of tasks are numbers.
LEMMA IdOrder ==
  /\ \A i, j \in Ids : j >= i => j = i \/ j > i
  /\ \A i, j, k \in Ids : i < j /\ (j = k \/ j < k) => i < k
<1>1. Ids \subseteq Nat
  BY DEF Ids
<1>2. /\ \A i, j \in Nat : j >= i => j = i \/ j > i
      /\ \A i, j, k \in Nat : i < j /\ (j = k \/ j < k) => i < k
  OBVIOUS
<1> QED
  BY <1>1, <1>2

\* Task j joins, from position p, at the end of the queue.
Joins(j, p, q) ==
  /\ action' = action /\ exec' = exec /\ io' = io /\ UNCHANGED <<up, down>>
  /\ task[j] = NoTask /\ \A k \in Ids : k < j => task[k] # NoTask
  /\ task'[j].state = "WAITING_FOR_START" /\ task'[j].fp = "closed" /\ task'[j].progress = p
  /\ \A k \in Ids : k # j => task'[k] = task[k]
  /\ live' = {j} /\ row'[j].state = "WAITING_FOR_START" /\ \A k \in Ids : k # j => row'[k] = NoRow
  /\ queue' = Append(q, j) /\ Follows(q, queue, {i \in Ids : Waiting(i)})
  /\ asked' \subseteq asked

\* A task that joins with the position p keeps the conversation, when nobody waits, is started or
\* empties the file with another position.
LEMMA JoinsConversation ==
  ASSUME Shape, Conversation, NEW j \in Ids, NEW p \in Nat, NEW q \in Seq(Ids), Joins(j, p, q),
         \A n \in DOMAIN queue : Waiting(queue[n]) => p = 0,
         exec # 0 => p \in {0, task[exec].progress},
         \A k \in Ids : ~None(Emptying(k)) => p = 0
  PROVE  Conversation'
<1> USE DEF Conversation
<1>0. live \subseteq Ids /\ queue \in Seq(Ids) /\ asked \subseteq Ids /\ Ids \subseteq Nat /\ j \in Nat
  BY DEF Shape, ListsShape, Ids
<1>1. \A k \in Ids : ~Begun(k) => task[k] = NoTask /\ Idle(k) /\ k \notin asked
  BY DEF NotBegun
<1>2. ~Begun(j) /\ Idle(j) /\ j \notin asked /\ (\A k \in Ids : k < j => Begun(k))
      /\ \A k \in Ids : k > j => ~Begun(k)
  BY <1>0, <1>1 DEF Joins, Begun, NoTask, Current
<1>3. \A k \in Ids : IF k = j THEN Begun(k)' ELSE task'[k] = task[k] /\ (Begun(k)' <=> Begun(k))
  BY DEF Joins, Begun
<1>13. \A k \in Ids : k \in Nat /\ (k = j \/ k < j \/ k > j) /\ (k < j <=> k <= j /\ k # j)
  BY <1>0
<1>14. \A k \in Ids : (Begun(k)' <=> k = j \/ k < j) /\ (Begun(k) <=> k < j)
  <2>1. ASSUME NEW k \in Ids PROVE (Begun(k)' <=> k = j \/ k < j) /\ (Begun(k) <=> k < j)
    <3>1. CASE k = j
      BY <1>2, <1>3, <1>13, <3>1 DEF Joins, Begun
    <3>2. CASE k < j
      BY <1>2, <1>3, <1>13, <3>2
    <3>3. CASE k > j
      BY <1>2, <1>3, <1>13, <3>3
    <3> QED
      BY <1>13, <3>1, <3>2, <3>3
  <2> QED
    BY <2>1
<1>4. \A k \in Ids : Idle(k) => Idle(k)'
  BY <1>2, <1>3 DEF Idle, Joins, None, Busy
<1>5. Current'
  <2>1. \A k, l \in Ids : l > k /\ Begun(l)' => Begun(k)'
    <3>1. ASSUME NEW k \in Ids, NEW l \in Ids, l > k, l = j \/ l < j PROVE k < j
      BY <3>1, IdOrder
    <3> QED
      BY <1>14, <3>1
  <2>2. \A k \in live' : Begun(k)' /\ \A l \in Ids : l > k => ~Begun(l)'
    BY <1>0, <1>2, <1>3 DEF Joins
  <2>3. \A k \in Ids : /\ IF k \in live' THEN row'[k].state # "none" ELSE row'[k] = NoRow
                       /\ row'[k].state = "FINISHED" => task'[k].state = "FINISHED"
    BY DEF Joins, NoRow
  <2>4. asked' \cap live' = {}
    BY <1>2 DEF Joins
  <2> QED
    BY <2>1, <2>2, <2>3, <2>4 DEF Current
<1>6. NotBegun'
  <2>1. ASSUME NEW k \in Ids, ~Begun(k)' PROVE task'[k] = NoTask /\ Idle(k)' /\ k \notin asked'
    BY <1>1, <1>3, <1>4, <2>1 DEF Joins
  <2> QED
    BY <2>1 DEF NotBegun
<1>7. Line'
  <2>1. /\ Len(q) \in Nat /\ DOMAIN q = 1..Len(q) /\ DOMAIN queue' = 1..(Len(q) + 1)
        /\ \A n \in 1..Len(q) : queue'[n] = q[n]
        /\ queue'[Len(q) + 1] = j
    BY Elements DEF Joins
  <2> DEFINE l == Len(q)
  <2> HIDE DEF l
  <2>2. l \in Nat /\ DOMAIN q = 1..l /\ DOMAIN queue' = 1..(l + 1)
        /\ (\A n \in 1..l : queue'[n] = q[n]) /\ queue'[l + 1] = j
    BY <2>1 DEF l
  <2>3. \A n \in 1..l : \E k \in DOMAIN queue :
          /\ q[n] = queue[k]
          /\ Waiting(queue[k]) => \A m \in 1..l : m < n => \E o \in DOMAIN queue : o < k /\ q[m] = queue[o]
    <3>1. \A k \in DOMAIN queue : queue[k] \in Ids
      BY <1>0, Elements
    <3> QED
      BY <2>2, <3>1 DEF Joins, Follows
  <2>4. \A n \in 1..l : q[n] \in Ids /\ Begun(q[n]) /\ q[n] <= j /\ q[n] # j
    <3>1. \A k \in DOMAIN queue : queue[k] \in Ids /\ Begun(queue[k])
      BY <1>0, Elements DEF Line
    <3> QED
      BY <1>13, <1>14, <2>3, <3>1
  <2>5. ASSUME NEW n \in 1..(l + 1)
        PROVE  /\ task'[queue'[n]].state # "none"
               /\ task'[queue'[n]].state = "WAITING_FOR_START" =>
                    /\ \A m \in 1..(l + 1) : m < n => queue'[m] <= queue'[n]
                    /\ \A k \in Ids : k > queue'[n] => Idle(k)' /\ task'[k].progress = 0
    <3>1. CASE n = l + 1
      <4>1. \A m \in 1..(l + 1) : m < n => queue'[m] <= j
        BY <2>2, <2>4, <3>1
      <4>2. \A k \in Ids : k > j => Idle(k)' /\ task'[k].progress = 0
        <5>1. ASSUME NEW k \in Ids, k > j PROVE Idle(k)' /\ task'[k].progress = 0
          <6>1. ~Begun(k) /\ k # j
            BY <1>0, <1>2, <5>1
          <6> QED
            BY <1>1, <1>3, <1>4, <6>1 DEF NoTask
        <5> QED
          BY <5>1
      <4> QED
        BY <2>2, <3>1, <4>1, <4>2 DEF Joins
    <3>2. CASE n \in 1..l
      <4>1. PICK i \in Ids : i = q[n] /\ i = queue'[n] /\ Begun(i) /\ i < j
        BY <1>13, <2>2, <2>4, <3>2
      <4>2. PICK k \in DOMAIN queue :
              /\ i = queue[k]
              /\ Waiting(i) => \A m \in 1..l : m < n => \E o \in DOMAIN queue : o < k /\ q[m] = queue[o]
        BY <2>3, <3>2, <4>1
      <4>3. task'[i] = task[i] /\ task'[i].state # "none"
        BY <1>0, <1>3, <4>1 DEF Begun
      <4>4. ASSUME Waiting(i)
            PROVE  /\ \A m \in 1..(l + 1) : m < n => queue'[m] <= i
                   /\ \A o \in Ids : o > i => Idle(o)' /\ task'[o].progress = 0
        <5>1. /\ \A m \in DOMAIN queue : m < k => queue[m] <= i
              /\ \A o \in Ids : o > i => Idle(o) /\ task[o].progress = 0
          BY <4>2, <4>4 DEF Line
        <5>2. p = 0
          BY <4>2, <4>4
        <5>3. \A m \in 1..(l + 1) : m < n => m \in 1..l
          BY <2>2, <3>2
        <5>4. \A o \in Ids : o > i => Idle(o)' /\ task'[o].progress = 0
          BY <1>3, <1>4, <5>1, <5>2 DEF Joins
        <5>5. \A m \in 1..(l + 1) : m < n => queue'[m] <= i
          BY <2>2, <4>2, <4>4, <5>1, <5>3
        <5> QED
          BY <5>4, <5>5
      <4> QED
        BY <4>1, <4>3, <4>4 DEF Waiting
    <3> QED
      BY <2>2, <3>1, <3>2
  <2> QED
    BY <2>2, <2>5 DEF Line, Begun, Waiting
<1>8. Starting'
  <2> SUFFICES ASSUME exec # 0
               PROVE  /\ task'[exec].state \in {"PREPARING", "FAILED"}
                      /\ \A k \in Ids : k > exec => Idle(k)' /\ task'[k].progress \in {0, task'[exec].progress}
    BY DEF Starting, Joins
  <2>1. exec \in Ids
    BY DEF Shape, ListsShape, Names, Ids
  <2>2. /\ task[exec].state \in {"PREPARING", "FAILED"}
        /\ \A k \in Ids : k > exec => Idle(k) /\ task[k].progress \in {0, task[exec].progress}
    BY DEF Starting
  <2>3. exec # j /\ task'[exec] = task[exec]
    BY <1>2, <1>3, <2>1, <2>2 DEF Begun
  <2> QED
    BY <1>3, <1>4, <2>2, <2>3 DEF Joins
<1>9. OpeningLast' /\ OpeningsInOrder' /\ NoneSends'
  <2>1. \A k \in Ids : Sending(k)' => Sending(k)
    BY <1>3 DEF Sending, Joins
  <2> QED
    BY <2>1 DEF OpeningLast, OpeningsInOrder, NoneSends, Joins, None, Never
<1>10. EmptyFirst'
  BY <1>3 DEF EmptyFirst, Joins, None
<1>11. SeekAgrees'
  <2>1. None(Off({"Open", "OpenOk"}, j, p))
    BY <1>2, Parts DEF Idle, None
  <2> QED
    BY <2>1 DEF SeekAgrees, Joins, None
<1>12. Directions'
  BY DEF Directions, Joins, None, Downloads
<1> QED
  BY <1>5, <1>6, <1>7, <1>8, <1>9, <1>10, <1>11, <1>12

\* A task that is added is the first, or overwrites the copy.
LEMMA AddTaskJoins ==
  ASSUME Shape, Conversation, AddTask
  PROVE  \E j \in Ids : Joins(j, 0, queue) /\ ~task'[j].force
<1> USE DEF Shape
<1>1. PICK j \in Ids : Added(j, 0, FALSE) /\ live' = {j} /\ queue' = Append(queue, j)
                       /\ task[j] = NoTask /\ \A k \in Ids : k < j => task[k] # NoTask
  BY DEF AddTask, Fresh
<1>2. queue \in Seq(Ids) /\ live = {} /\ asked' = asked
      /\ UNCHANGED <<action, exec, io, up, down>>
  BY DEF ListsShape, AddTask, net
<1>3. task'[j] = [NoTask EXCEPT !.state = "WAITING_FOR_START", !.progress = 0, !.force = FALSE]
      /\ \A k \in Ids : k # j => task'[k] = task[k]
  BY <1>1 DEF Added, TasksShape
<1>4. row'[j].state = "WAITING_FOR_START" /\ \A k \in Ids : k # j => row'[k] = row[k]
  BY <1>1 DEF Added, TasksShape
<1>5. \A k \in Ids : row[k] = NoRow
  BY <1>2 DEF Conversation, Current
<1>6. Joins(j, 0, queue)
  BY <1>1, <1>2, <1>3, <1>4, <1>5, QueueFollows DEF Joins, NoTask
<1> QED
  BY <1>3, <1>6 DEF NoTask

\* addTask keeps the conversation.
LEMMA AddTaskConversation ==
  ASSUME Shape, Conversation, AddTask
  PROVE  Conversation'
<1>1. PICK j \in Ids : Joins(j, 0, queue)
  BY AddTaskJoins
<1> QED
  BY <1>1, JoinsConversation DEF Shape, ListsShape

\* The task that may be overwritten is the newest, and has failed.
LEMMA OverwriteJoins ==
  ASSUME Shape, Conversation, torn' = {}, NEW i \in Ids, Overwrite(i)
  PROVE  \/ UNCHANGED <<task, live, queue, row>>
         \/ \E j \in Ids, q \in Seq(Ids) :
              /\ i \in live /\ Joins(j, task[i].progress, q) /\ task'[j].force
              /\ live = {i} /\ task[i].state = "FAILED" /\ \A k \in Ids : k > i => ~Begun(k)
<1> USE DEF Shape
<1>0. i \in asked /\ UNCHANGED <<action, exec, io, up, down>> /\ asked' \subseteq asked
  BY DEF Overwrite, net
<1>1. ASSUME NEW j \in Fresh,
             live' = (live \ {i}) \cup {j}, queue' = Append(WithoutFirst(queue, {i}), j),
             task' = [task EXCEPT ![j] = [NoTask EXCEPT !.state = "WAITING_FOR_START",
                                            !.progress = task[i].progress, !.force = TRUE]],
             row' = [row EXCEPT ![i] = NoRow,
                       ![j] = [state |-> "WAITING_FOR_START", progress |-> task[i].progress]],
             torn' = IF i \in live THEN torn ELSE torn \cup {"removed"}
      PROVE  \E q \in Seq(Ids) :
               /\ i \in live /\ Joins(j, task[i].progress, q) /\ task'[j].force
               /\ live = {i} /\ task[i].state = "FAILED" /\ \A k \in Ids : k > i => ~Begun(k)
  <2>1. i \in live
    BY <1>1
  <2>2. task[i].state = "FAILED" /\ \A k \in Ids : k > i => ~Begun(k)
    BY <1>0, <2>1 DEF Conversation, Current
  <2>3. live = {i}
    <3>1. \A k \in live : Begun(k) /\ \A l \in Ids : l > k => ~Begun(l)
      BY DEF Conversation, Current
    <3>2. \A k \in live : k = i
      <4>1. ASSUME NEW k \in live, k # i PROVE FALSE
        <5>1. k \in Ids /\ Ids \subseteq Nat
          BY DEF ListsShape, Ids
        <5>2. k < i \/ i < k
          BY <4>1, <5>1
        <5> QED
          BY <2>1, <3>1, <5>1, <5>2
      <4> QED
        BY <4>1
    <3> QED
      BY <2>1, <3>2
  <2>4. j \in Ids /\ task[j] = NoTask /\ (\A k \in Ids : k < j => task[k] # NoTask) /\ j # i
    BY <1>1, <2>2 DEF Fresh, NoTask
  <2>5. task'[j] = [NoTask EXCEPT !.state = "WAITING_FOR_START", !.progress = task[i].progress, !.force = TRUE]
        /\ \A k \in Ids : k # j => task'[k] = task[k]
    BY <1>1, <2>4 DEF TasksShape
  <2>6. row'[j].state = "WAITING_FOR_START" /\ row'[i] = NoRow
        /\ \A k \in Ids : k # j /\ k # i => row'[k] = row[k]
    BY <1>1, <2>4 DEF TasksShape
  <2>7. \A k \in Ids : k # j => row'[k] = NoRow
    BY <2>3, <2>6 DEF Conversation, Current
  <2>8. queue \in Seq(Ids) /\ WithoutFirst(queue, {i}) \in Seq(Ids)
    BY InWithout DEF ListsShape
  <2>9. live' = {j}
    BY <1>1, <2>3
  <2>10. Joins(j, task[i].progress, WithoutFirst(queue, {i}))
    <3>1. Follows(WithoutFirst(queue, {i}), queue, {k \in Ids : Waiting(k)})
      BY <2>8, QueueFollows
    <3>2. /\ task'[j].state = "WAITING_FOR_START" /\ task'[j].fp = "closed"
          /\ task'[j].progress = task[i].progress
      BY <2>5 DEF NoTask
    <3>3. row'[j].state = "WAITING_FOR_START"
      BY <2>6
    <3> QED
      BY <1>0, <1>1, <2>4, <2>5, <2>7, <2>9, <3>1, <3>2, <3>3 DEF Joins
  <2>11. task'[j].force
    BY <2>5 DEF NoTask
  <2> QED
    BY <2>1, <2>2, <2>3, <2>8, <2>10, <2>11
<1>2. Fresh \subseteq Ids
  BY DEF Fresh
<1> QED
  BY <1>1, <1>2 DEF Overwrite

\* Overwriting keeps it: the task that had failed is replaced by one that goes on from its place.
LEMMA OverwriteConversation ==
  ASSUME Shape, Conversation, torn' = {}, NEW i \in Ids, Overwrite(i)
  PROVE  Conversation'
<1> USE DEF Shape
<1>0. UNCHANGED <<action, exec, io, net>> /\ asked' \subseteq asked
  BY DEF Overwrite
<1>1. CASE UNCHANGED <<task, live, queue, row>>
  BY <1>0, <1>1, DeclinedRoutine, RoutineConversation
<1>2. ASSUME NEW j \in Ids, NEW q \in Seq(Ids), i \in live, Joins(j, task[i].progress, q),
             task[i].state = "FAILED", \A k \in Ids : k > i => ~Begun(k)
      PROVE  Conversation'
  <2>0. Ids \subseteq Nat /\ task[i].progress \in Nat
    BY DEF Ids, TasksShape, TaskRec
  <2>1. ASSUME NEW k \in Ids, Begun(k), k # i PROVE i > k
    <3>1. ~(k > i)
      BY <1>2, <2>1
    <3> QED
      BY <2>0, <2>1, <3>1
  <2>2. ASSUME NEW n \in DOMAIN queue, Waiting(queue[n]) PROVE task[i].progress = 0
    <3>1. queue[n] \in Ids /\ Begun(queue[n])
      BY Elements DEF ListsShape, Conversation, Line
    <3>2. i > queue[n]
      BY <1>2, <2>1, <2>2, <3>1 DEF Waiting
    <3> QED
      BY <2>2, <3>2 DEF Conversation, Line
  <2>3. exec # 0 => task[i].progress \in {0, task[exec].progress}
    <3>1. ASSUME exec # 0, exec # i PROVE task[i].progress \in {0, task[exec].progress}
      <4>1. exec \in Ids /\ Begun(exec)
        BY <3>1 DEF ListsShape, Names, Ids, Conversation, Starting, Begun
      <4> QED
        BY <2>1, <3>1, <4>1 DEF Conversation, Starting
    <3> QED
      BY <3>1
  <2>4. ASSUME NEW k \in Ids, ~None(Emptying(k)) PROVE task[i].progress = 0
    <3>1. Begun(k)
      BY <2>4, Parts DEF Conversation, NotBegun, Idle, None
    <3>2. i >= k
      BY <2>0, <2>1, <3>1
    <3> QED
      BY <2>4, <3>2 DEF Conversation, EmptyFirst
  <2> QED
    BY <1>2, <2>0, <2>2, <2>3, <2>4, JoinsConversation
<1> QED
  BY <1>1, <1>2, OverwriteJoins

\* Task i is queued again, or taken out of the queue; no message is sent.
Turns(i) ==
  /\ UNCHANGED <<action, live, io, up, down>>
  /\ \A k \in Ids : k # i => task'[k] = task[k]
  /\ task[i].state \in {"WAITING_FOR_START", "STOPED"}
  /\ task'[i].state \in {"WAITING_FOR_START", "PREPARING", "FAILED"}
  /\ task'[i].progress = task[i].progress /\ task'[i].force = task[i].force
  /\ \A k \in Ids : RowFollows(k)
  /\ exec' \in {exec, i}
  /\ \A k \in asked' : k \in asked \/ (k = i /\ task'[i].state = "FAILED")

\* A task that waits again, or is started, keeps it, when the queue and exec allow it.
LEMMA TurnsConversation ==
  ASSUME Shape, Conversation, NEW i \in Ids, Turns(i), Line', Starting'
  PROVE  Conversation'
<1> USE DEF Shape, Conversation
<1>0. live \subseteq Ids /\ Ids \subseteq Nat /\ Begun(i) /\ ~Sending(i)
  BY DEF ListsShape, Ids, Turns, Begun, Sending
<1>1. \A k \in Ids : (Begun(k)' <=> Begun(k)) /\ task'[k].progress = task[k].progress /\ (Sending(k)' => Sending(k))
  BY DEF Turns, Begun, Sending
<1>2. Current'
  <2>1. /\ \A k, l \in Ids : l > k /\ Begun(l)' => Begun(k)'
        /\ \A k \in live' : Begun(k)' /\ \A l \in Ids : l > k => ~Begun(l)'
    BY <1>0, <1>1 DEF Current, Turns
  <2>2. ASSUME NEW k \in Ids
        PROVE  /\ IF k \in live' THEN row'[k].state # "none" ELSE row'[k] = NoRow
               /\ row'[k].state = "FINISHED" => task'[k].state = "FINISHED"
    <3>1. RowFollows(k) /\ (k \in live' <=> k \in live)
      BY DEF Turns
    <3>2. /\ IF k \in live THEN row[k].state # "none" ELSE row[k] = NoRow
          /\ row[k].state = "FINISHED" => task[k].state = "FINISHED"
      BY DEF Current
    <3>3. task[k].state = "FINISHED" => task'[k] = task[k]
      BY DEF Turns
    <3>4. k \in live' => task'[k].state # "none"
      BY <2>1 DEF Begun
    <3> QED
      BY <3>1, <3>2, <3>3, <3>4 DEF RowFollows, NoRow
  <2>3. \A k \in asked' \cap live' : task'[k].state = "FAILED"
    BY <1>0 DEF Current, Turns
  <2> QED
    BY <2>1, <2>2, <2>3 DEF Current
<1>3. NotBegun'
  <2>1. ASSUME NEW k \in Ids, ~Begun(k)' PROVE task'[k] = NoTask /\ Idle(k)' /\ k \notin asked'
    <3>1. ~Begun(k) /\ k # i
      BY <1>0, <1>1, <2>1
    <3>2. task[k] = NoTask /\ Idle(k) /\ k \notin asked
      BY <3>1 DEF NotBegun
    <3>3. Idle(k)'
      BY <3>1, <3>2 DEF Idle, Turns, None, Busy
    <3> QED
      BY <3>1, <3>2, <3>3 DEF Turns
  <2> QED
    BY <2>1 DEF NotBegun
<1>4. OpeningLast' /\ OpeningsInOrder' /\ NoneSends'
  BY <1>1 DEF OpeningLast, OpeningsInOrder, NoneSends, Turns, None, Never
<1>5. EmptyFirst' /\ SeekAgrees'
  BY <1>0, <1>1 DEF EmptyFirst, SeekAgrees, Turns, None
<1>6. Directions'
  BY DEF Directions, Turns, None, Downloads
<1> QED
  BY <1>2, <1>3, <1>4, <1>5, <1>6

\* A task in m_tasks has no newer one.
LEMMA Newest ==
  ASSUME Shape, Conversation, NEW i \in live
  PROVE  i \in Ids /\ Begun(i) /\ live = {i} /\ \A k \in Ids : (k > i => ~Begun(k)) /\ (Begun(k) => k <= i)
<1>1. live \subseteq Ids /\ Ids \subseteq Nat
  BY DEF Shape, ListsShape, Ids
<1>2. \A k \in live : Begun(k) /\ \A l \in Ids : l > k => ~Begun(l)
  BY DEF Conversation, Current
<1>3. ASSUME NEW k \in Ids, Begun(k) PROVE k <= i
  <2>1. ~(k > i)
    BY <1>2, <1>3
  <2> QED
    BY <1>1, <2>1
<1>4. ASSUME NEW k \in live PROVE k = i
  <2>1. k <= i /\ ~(i > k)
    BY <1>1, <1>2, <1>3, <1>4
  <2> QED
    BY <1>1, <1>4, <2>1
<1> QED
  BY <1>1, <1>2, <1>3, <1>4

\* Resuming a task keeps it: only the newest task can be resumed.
LEMMA ResumeConversation ==
  ASSUME Shape, Conversation, NEW i \in Ids, ResumeTask(i)
  PROVE  Conversation'
<1> USE DEF Shape
<1> DEFINE t == [task[i] EXCEPT !.state = "WAITING_FOR_START"]
<1>1. /\ i \in live /\ task[i].state = "STOPED" /\ Become(i, t) /\ queue' = Append(queue, i)
      /\ UNCHANGED <<action, live, exec, io, asked, up, down>>
  BY DEF ResumeTask, net
<1>2. /\ t \in TaskRec /\ t.state = "WAITING_FOR_START" /\ t.progress = task[i].progress
      /\ t.force = task[i].force
  BY DEF TasksShape, TaskRec, States
<1> HIDE DEF t
<1>3. /\ task'[i] = t /\ \A k \in Ids : k # i => task'[k] = task[k]
      /\ \A k \in Ids : RowFollows(k)
  BY <1>1, <1>2, OneTaskChanges
<1>4. Turns(i)
  BY <1>1, <1>2, <1>3 DEF Turns
<1>5. \A k \in Ids : (k > i => ~Begun(k)) /\ (Begun(k) => k <= i)
  BY <1>1, Newest
<1>6. ~Idle(i)
  BY <1>1 DEF Idle
<1>7. Ids \subseteq Nat /\ queue \in Seq(Ids)
  BY DEF Ids, ListsShape
<1>8. exec = 0
  <2>1. ASSUME exec # 0 PROVE FALSE
    <3>1. exec \in Ids
      BY <2>1 DEF ListsShape, Names, Ids
    <3>2. Begun(exec) /\ exec # i /\ \A j \in Ids : j > exec => Idle(j)
      BY <1>1, <2>1 DEF Conversation, Starting, Begun
    <3>3. i > exec
      BY <1>5, <1>7, <3>1, <3>2
    <3> QED
      BY <1>6, <3>2, <3>3
  <2> QED
    BY <2>1
<1>9. Starting'
  BY <1>1, <1>8 DEF Starting
<1>10. \A k \in Ids : k > i => Idle(k)' /\ task'[k].progress = 0
  <2>1. ASSUME NEW k \in Ids, k > i PROVE Idle(k)' /\ task'[k].progress = 0
    <3>1. task[k] = NoTask /\ Idle(k) /\ k # i
      BY <1>5, <1>7, <2>1 DEF Conversation, NotBegun
    <3>2. task'[k] = NoTask
      BY <1>3, <3>1
    <3> QED
      BY <1>1, <3>1, <3>2 DEF Idle, None, Busy, NoTask
  <2> QED
    BY <2>1
<1>11. Line'
  <2>1. /\ Len(queue) \in Nat /\ DOMAIN queue = 1..Len(queue) /\ DOMAIN queue' = 1..(Len(queue) + 1)
        /\ \A n \in 1..Len(queue) : queue'[n] = queue[n] /\ queue[n] \in Ids
        /\ queue'[Len(queue) + 1] = i
    BY <1>1, <1>7, Elements
  <2>2. \A n \in 1..Len(queue) : Begun(queue[n]) /\ queue[n] <= i
    BY <1>5, <2>1 DEF Conversation, Line
  <2>3. ASSUME NEW n \in 1..Len(queue), Waiting(queue[n]) PROVE FALSE
    <3>1. PICK k \in Ids : k = queue[n] /\ Begun(k) /\ Waiting(k)
      BY <2>1, <2>2, <2>3
    <3>2. k # i
      BY <1>1, <3>1 DEF Waiting
    <3>3. i > k
      BY <1>5, <1>7, <3>1, <3>2
    <3> QED
      BY <1>6, <2>1, <3>1, <3>3 DEF Conversation, Line
  <2> DEFINE l == Len(queue)
  <2>4. \A n \in 1..(l + 1) : n \in 1..l \/ n = l + 1
    BY <2>1
  <2>5. \A m \in 1..(l + 1) : queue'[m] <= i /\ queue'[m] \in Ids
    BY <1>7, <2>1, <2>2, <2>4
  <2>6. \A n \in 1..(l + 1) : task'[queue'[n]].state # "none"
                              /\ (task'[queue'[n]].state = "WAITING_FOR_START" => queue'[n] = i)
    <3>1. ASSUME NEW n \in 1..l, queue[n] # i PROVE task'[queue[n]].state # "none" /\ task'[queue[n]].state # "WAITING_FOR_START"
      BY <1>3, <2>1, <2>2, <2>3, <3>1 DEF Begun, Waiting
    <3> QED
      BY <1>2, <1>3, <2>1, <2>4, <3>1
  <2> HIDE DEF l
  <2>7. DOMAIN queue' = 1..(l + 1)
    BY <2>1 DEF l
  <2> QED
    BY <1>10, <2>5, <2>6, <2>7 DEF Line, Begun, Waiting
<1> QED
  BY <1>4, <1>9, <1>11, TurnsConversation

\* exec starts the oldest task that waits, and keeps it.
LEMMA StartConversation ==
  ASSUME Shape, Conversation, NEW i \in Ids, Start(i)
  PROVE  Conversation'
<1> USE DEF Shape
<1>0. /\ exec = 0 /\ queue # <<>> /\ Head(queue) = i /\ Waiting(i) /\ queue' = Tail(queue)
      /\ UNCHANGED <<action, live, io, up, down>>
  BY DEF Start, Popped, Waiting, net
<1>1. \E s \in {"PREPARING", "FAILED"}, m \in Modes :
        /\ Become(i, [task[i] EXCEPT !.state = s, !.fp = m])
        /\ exec' = (IF s = "PREPARING" THEN i ELSE 0)
        /\ \A k \in asked' : k \in asked \/ (k = i /\ s = "FAILED")
  <2> DEFINE r == InitIO(Downloads, task[i].fp, task[i].progress, task[i].force)
  <2>1. task[i] \in TaskRec /\ task[i].fp \in Modes
    BY DEF TasksShape, TaskRec
  <2>2. r.fp \in Modes
    BY <2>1, InitIOModes
  <2>3. [task[i] EXCEPT !.state = "FAILED"] = [task[i] EXCEPT !.state = "FAILED", !.fp = task[i].fp]
    BY <2>1 DEF TaskRec
  <2>4. \/ Become(i, [task[i] EXCEPT !.state = "PREPARING", !.fp = r.fp]) /\ exec' = i /\ asked' = asked
        \/ Become(i, [task[i] EXCEPT !.state = "FAILED"]) /\ exec' = exec /\ asked' \subseteq asked \cup {i}
    BY DEF Start, Asking
  <2> HIDE DEF r
  <2>5. CASE Become(i, [task[i] EXCEPT !.state = "PREPARING", !.fp = r.fp]) /\ exec' = i /\ asked' = asked
    BY <2>2, <2>5
  <2>6. CASE Become(i, [task[i] EXCEPT !.state = "FAILED"]) /\ exec' = exec /\ asked' \subseteq asked \cup {i}
    <3>1. Become(i, [task[i] EXCEPT !.state = "FAILED", !.fp = task[i].fp])
      BY <2>3, <2>6
    <3> QED
      BY <1>0, <2>1, <2>6, <3>1
  <2> QED
    BY <2>4, <2>5, <2>6
<1>2. PICK s \in {"PREPARING", "FAILED"}, m \in Modes :
        /\ Become(i, [task[i] EXCEPT !.state = s, !.fp = m])
        /\ exec' = (IF s = "PREPARING" THEN i ELSE 0)
        /\ \A k \in asked' : k \in asked \/ (k = i /\ s = "FAILED")
  BY <1>1
<1> DEFINE t == [task[i] EXCEPT !.state = s, !.fp = m]
<1>3. /\ t \in TaskRec /\ t.state = s /\ t.progress = task[i].progress /\ t.force = task[i].force
  BY DEF TasksShape, TaskRec, States, Active
<1>4. Become(i, t)
  BY <1>2
<1> HIDE DEF t
<1>5. /\ task'[i] = t /\ \A k \in Ids : k # i => task'[k] = task[k]
      /\ \A k \in Ids : RowFollows(k)
  BY <1>0, <1>3, <1>4, OneTaskChanges
<1>6. Turns(i)
  BY <1>0, <1>2, <1>3, <1>5 DEF Turns, Waiting
<1>7. Ids \subseteq Nat /\ queue \in Seq(Ids)
  BY DEF Ids, ListsShape
<1>8. /\ Len(queue) \in Nat /\ Len(queue) > 0 /\ DOMAIN queue = 1..Len(queue)
      /\ DOMAIN queue' = 1..(Len(queue) - 1) /\ queue[1] = i
      /\ \A n \in 1..(Len(queue) - 1) : queue'[n] = queue[n + 1]
      /\ \A n \in 1..Len(queue) : queue[n] \in Ids
  BY <1>0, <1>7, Elements
<1>9. \A k \in Ids : Idle(k) /\ k # i => Idle(k)'
  BY <1>0, <1>2, <1>5 DEF Idle, None, Busy, Ids
<1>10. \A k \in Ids : k > i => Idle(k) /\ task[k].progress = 0 /\ k # i
  <2>1. 1 \in DOMAIN queue
    BY <1>8
  <2>2. \A k \in Ids : k > i => Idle(k) /\ task[k].progress = 0
    BY <1>0, <1>8, <2>1 DEF Conversation, Line
  <2> QED
    BY <1>7, <2>2
<1>11. Starting'
  <2>1. CASE s = "PREPARING"
    <3>1. exec' = i /\ task'[i].state = "PREPARING" /\ task'[i].progress = task[i].progress
      BY <1>2, <1>3, <1>5, <2>1
    <3>2. \A k \in Ids : k > i => Idle(k)' /\ task'[k].progress = 0
      BY <1>5, <1>9, <1>10
    <3> QED
      BY <3>1, <3>2 DEF Starting
  <2>2. CASE s # "PREPARING"
    BY <1>2, <2>2 DEF Starting
  <2> QED
    BY <2>1, <2>2
<1>12. Line'
  <2>1. ASSUME NEW n \in 1..(Len(queue) - 1)
        PROVE  /\ task'[queue'[n]].state # "none"
               /\ task'[queue'[n]].state = "WAITING_FOR_START" =>
                    /\ \A o \in 1..(Len(queue) - 1) : o < n => queue'[o] <= queue'[n]
                    /\ \A k \in Ids : k > queue'[n] => Idle(k)' /\ task'[k].progress = 0
    <3>1. n + 1 \in 1..Len(queue) /\ 1 \in 1..Len(queue) /\ 1 < n + 1
          /\ \A o \in 1..(Len(queue) - 1) : o + 1 \in 1..Len(queue) /\ (o < n => o + 1 < n + 1)
      BY <1>8
    <3>2. PICK k \in Ids : k = queue[n + 1] /\ k = queue'[n] /\ Begun(k)
      BY <1>8, <3>1 DEF Conversation, Line
    <3>3. task'[k].state # "none"
      BY <1>2, <1>3, <1>5, <3>2 DEF Begun
    <3>4. ASSUME task'[k].state = "WAITING_FOR_START"
          PROVE  /\ \A o \in 1..(Len(queue) - 1) : o < n => queue'[o] <= k
                 /\ \A o \in Ids : o > k => Idle(o)' /\ task'[o].progress = 0
      <4>1. k # i /\ Waiting(k)
        BY <1>2, <1>3, <1>5, <3>4 DEF Waiting
      <4>2. /\ \A o \in 1..Len(queue) : o < n + 1 => queue[o] <= k
            /\ \A o \in Ids : o > k => Idle(o) /\ task[o].progress = 0
        BY <1>8, <3>1, <3>2, <4>1 DEF Conversation, Line
      <4>3. i <= k
        BY <1>8, <3>1, <4>2
      <4>4. \A o \in Ids : o > k => o # i
        BY <1>7, <4>1, <4>3
      <4>5. \A o \in Ids : o > k => Idle(o)' /\ task'[o].progress = 0
        BY <1>5, <1>9, <4>2, <4>4
      <4>6. \A o \in 1..(Len(queue) - 1) : o < n => queue'[o] <= k
        BY <1>8, <3>1, <4>2
      <4> QED
        BY <4>5, <4>6
    <3> QED
      BY <3>2, <3>3, <3>4
  <2> QED
    BY <1>8, <2>1 DEF Line, Begun, Waiting
<1> QED
  BY <1>6, <1>11, <1>12, TurnsConversation

\* The queue grows by a task that does not wait.
LEMMA LineGrows ==
  ASSUME Shape, Line, NEW i \in Ids, queue' = Append(queue, i), task' = task, Begun(i), ~Waiting(i),
         \A k \in Ids : Idle(k) => Idle(k)'
  PROVE  Line'
<1>1. /\ Len(queue) \in Nat /\ DOMAIN queue = 1..Len(queue) /\ DOMAIN queue' = 1..(Len(queue) + 1)
      /\ \A n \in 1..Len(queue) : queue'[n] = queue[n] /\ queue[n] \in Ids
      /\ queue'[Len(queue) + 1] = i
  BY Elements DEF Shape, ListsShape
<1> DEFINE l == Len(queue)
<1>2. \A n \in 1..(l + 1) : n \in 1..l \/ n = l + 1
  BY <1>1
<1>3. \A n \in 1..l, o \in 1..(l + 1) : o < n => o \in 1..l
  BY <1>1
<1> HIDE DEF l
<1>4. DOMAIN queue' = 1..(l + 1) /\ DOMAIN queue = 1..l /\ queue'[l + 1] = i
      /\ \A n \in 1..l : queue'[n] = queue[n]
  BY <1>1 DEF l
<1>5. ASSUME NEW n \in 1..(l + 1)
      PROVE  /\ task[queue'[n]].state # "none"
             /\ task[queue'[n]].state = "WAITING_FOR_START" =>
                  /\ \A o \in 1..(l + 1) : o < n => queue'[o] <= queue'[n]
                  /\ \A k \in Ids : k > queue'[n] => Idle(k)' /\ task[k].progress = 0
  <2>1. CASE n = l + 1
    BY <1>4, <2>1 DEF Begun, Waiting
  <2>2. CASE n \in 1..l
    <3>1. PICK j : j = queue[n] /\ j = queue'[n]
      BY <1>4, <2>2
    <3>2. task[j].state # "none"
      BY <1>4, <2>2, <3>1 DEF Line, Begun
    <3>3. ASSUME task[j].state = "WAITING_FOR_START"
          PROVE  /\ \A o \in 1..(l + 1) : o < n => queue'[o] <= j
                 /\ \A k \in Ids : k > j => Idle(k)' /\ task[k].progress = 0
      <4>1. /\ \A o \in 1..l : o < n => queue[o] <= j
            /\ \A k \in Ids : k > j => Idle(k) /\ task[k].progress = 0
        BY <1>4, <2>2, <3>1, <3>3 DEF Line, Waiting
      <4> QED
        BY <1>3, <1>4, <2>2, <4>1
    <3> QED
      BY <3>1, <3>2, <3>3
  <2> QED
    BY <1>2, <2>1, <2>2
<1> QED
  BY <1>4, <1>5 DEF Line, Begun, Waiting

\* A message of the task that exec starts, or that the thread of the answers has in hand.
LEMMA SentConversation ==
  ASSUME Shape, Conversation, NEW i \in Ids, NEW m \in Up, Sends(m), m.id = i, ~Idle(i),
         UNCHANGED <<action, task, live, row, asked>>, exec' \in {0, exec},
         io' = io \/ io' = NoIO,
         \/ queue' = queue
         \/ queue' = Append(queue, i) /\ Begun(i) /\ ~Waiting(i),
         \/ m.kind \in {"Read", "Write"} /\ None(Opening(i)) /\ io' = NoIO
            /\ (IF Downloads THEN m.kind = "Read" ELSE m.kind = "Write")
         \/ /\ m.kind = "Open" /\ m.seek = task[i].progress /\ m.force = task[i].force
            /\ ~(io'.id = i /\ io'.do \in {"request", "write"})
            /\ \A k \in Ids : k > i => Idle(k) /\ (task[i].progress = 0 => task[k].progress = 0)
            /\ ~Sending(i)
  PROVE  Conversation'
<1> USE DEF Shape, Conversation
<1>0. Ids \subseteq Nat /\ i \in Nat /\ queue \in Seq(Ids)
  BY DEF Ids, ListsShape
<1>n. \A j \in Ids : j >= i => j = i \/ j > i
  BY IdOrder
<1>m. m \in Message
  BY DEF Message
<1>1. \A k \in Ids : k # i => m \notin About(k)
  BY DEF About, Opening, Token
<1>2. \A k \in Ids : Idle(k) => Idle(k)'
  <2>1. ASSUME NEW k \in Ids, Idle(k) PROVE Idle(k)'
    <3>1. k # i /\ m \notin About(k)
      BY <1>1, <2>1
    <3>2. None(About(k))'
      BY <2>1, <3>1 DEF Idle, Sends, None
    <3>3. exec' # k
      BY <1>0, <2>1, ConstFacts DEF Idle, Ids
    <3> QED
      BY <2>1, <3>2, <3>3 DEF Idle, Busy, NoIO
  <2> QED
    BY <2>1
<1>3. Current' /\ NotBegun'
  BY <1>2 DEF Current, NotBegun, Begun
<1>4. Starting'
  BY <1>2 DEF Starting
<1>5. Line'
  <2>1. CASE queue' = queue
    BY <1>2, <2>1 DEF Line, Begun, Waiting
  <2>2. CASE queue' = Append(queue, i) /\ Begun(i) /\ ~Waiting(i)
    BY <1>2, <2>2, LineGrows
  <2> QED
    BY <2>1, <2>2
<1>6. OpeningLast'
  <2>1. ASSUME NEW k \in Ids PROVE Never(Opening(k), Token(k))'
    <3>1. m \notin Token(k) \/ None(Opening(k))
      BY DEF Token
    <3> QED
      BY <3>1 DEF OpeningLast, Sends, Never, None
  <2>2. ASSUME NEW k \in Ids, ~None(Opening(k))' PROVE ~(io'.id = k /\ io'.do \in {"request", "write"})
    <3>1. CASE m \notin Opening(k)
      BY <2>2, <3>1 DEF OpeningLast, Sends, None, NoIO
    <3>2. CASE m \in Opening(k)
      BY <1>1, <3>2 DEF Opening
    <3> QED
      BY <3>1, <3>2
  <2> QED
    BY <2>1, <2>2 DEF OpeningLast
<1>7. ASSUME NEW k \in Ids, NEW j \in Ids, k > j PROVE Never(Opening(k), Opening(j))'
  <2>1. Never(Opening(k), Opening(j))
    BY <1>7 DEF OpeningsInOrder
  <2>2. m \notin Opening(j) \/ None(Opening(k))
    <3>1. ASSUME m \in Opening(j) PROVE None(Opening(k))
      <4>1. j = i /\ m.kind = "Open"
        BY <3>1 DEF Opening, Up
      <4>2. Idle(k)
        BY <1>7, <4>1
      <4> QED
        BY <4>2, Parts DEF Idle, None
    <3> QED
      BY <3>1
  <2> QED
    BY <2>1, <2>2 DEF Sends, Never, None
<1>8. NoneSends'
  <2>1. ASSUME NEW k \in Ids, ~None(Opening(k))', NEW j \in Ids, j >= k PROVE ~Sending(j)
    <3>1. CASE m \notin Opening(k)
      <4>1. ~None(Opening(k))
        BY <2>1, <3>1 DEF Sends, None
      <4> QED
        BY <2>1, <4>1 DEF NoneSends
    <3>2. CASE m \in Opening(k)
      <4>1. k = i /\ m.kind = "Open"
        BY <3>2 DEF Opening, Up
      <4>2. j = i \/ j > i
        BY <1>n, <2>1, <4>1
      <4> QED
        BY <4>1, <4>2 DEF Idle, Sending
    <3> QED
      BY <3>1, <3>2
  <2> QED
    BY <2>1 DEF NoneSends, Sending
<1>9. EmptyFirst'
  <2>1. ASSUME NEW k \in Ids, ~None(Emptying(k))', NEW j \in Ids, j >= k PROVE task[j].progress = 0
    <3>1. CASE m \notin Emptying(k)
      <4>1. ~None(Emptying(k))
        BY <2>1, <3>1 DEF Sends, None
      <4> QED
        BY <2>1, <4>1 DEF EmptyFirst
    <3>2. CASE m \in Emptying(k)
      <4>1. k = i /\ m.kind = "Open" /\ m.seek = 0
        BY <3>2 DEF Emptying
      <4>2. j = i \/ j > i
        BY <1>n, <2>1, <4>1
      <4> QED
        BY <4>1, <4>2
    <3> QED
      BY <3>1, <3>2
  <2> QED
    BY <2>1 DEF EmptyFirst
<1>10. SeekAgrees'
  <2>1. ASSUME NEW k \in live PROVE NoneIn(Off({"Open", "OpenOk"}, k, task[k].progress), down', up')
    <3>1. m \notin Off({"Open", "OpenOk"}, k, task[k].progress)
      BY DEF Off
    <3> QED
      BY <2>1, <3>1 DEF SeekAgrees, Sends, None
  <2> QED
    BY <2>1 DEF SeekAgrees, None
<1>11. Directions'
  <2>1. m \notin Odd
    BY DEF Odd, Up
  <2>2. Downloads => m \notin OfKind({"Write", "WriteOk", "WriteErr"})
    BY DEF OfKind
  <2>3. ~Downloads => m \notin OfKind({"Read", "ReadOk", "ReadErr"})
    BY DEF OfKind
  <2> QED
    BY <2>1, <2>2, <2>3 DEF Directions, Sends, None, Downloads, NoIO
<1> QED
  BY <1>3, <1>4, <1>5, <1>6, <1>7, <1>8, <1>9, <1>10, <1>11 DEF OpeningsInOrder

\* The opening that exec sends is the last message of its conversation.
LEMMA RemoteOpenConversation ==
  ASSUME Shape, Conversation, torn' = {}, NEW i \in Ids, RemoteOpen(i)
  PROVE  Conversation'
<1> USE DEF Shape
<1> DEFINE m == Open(i, task[i].progress, task[i].force)
<1>1. /\ exec = i /\ exec' = 0 /\ Send(m) /\ queue' = Append(queue, i) /\ down' = down
      /\ UNCHANGED <<action, task, live, row, asked, io>>
      /\ ~Overtakes(i)
  BY DEF RemoteOpen
<1>2. task[i].progress \in Nat /\ task[i].force \in BOOLEAN
  BY DEF TasksShape, TaskRec
<1>3. m \in Up /\ m.id = i /\ m.kind = "Open" /\ m.seek = task[i].progress /\ m.force = task[i].force
  <2>1. m \in Up
    BY <1>2, Messages
  <2> QED
    BY <2>1 DEF Open
<1> HIDE DEF m
<1>4. /\ task[i].state \in {"PREPARING", "FAILED"} /\ i # 0
      /\ \A j \in Ids : j > i => Idle(j) /\ task[j].progress \in {0, task[i].progress}
  BY <1>1, ConstFacts DEF Conversation, Starting, Ids
<1>5. ~Idle(i) /\ Begun(i) /\ ~Waiting(i) /\ ~Sending(i)
  BY <1>4 DEF Idle, Begun, Waiting, Sending
<1>6. Sends(m) /\ (~online => UNCHANGED <<up, down>>)
  BY <1>1, <1>3, RequestSent
<1>7. CASE online
  <2>1. ~(io'.id = i /\ io'.do \in {"request", "write"})
    BY <1>1, <1>7 DEF Overtakes
  <2> QED
    BY <1>1, <1>3, <1>4, <1>5, <1>6, <2>1, SentConversation
<1>8. CASE ~online
  <2>1. UNCHANGED <<up, down>>
    BY <1>6, <1>8
  <2>2. \A k \in Ids : Idle(k) => Idle(k)'
    BY <1>1, <2>1, ConstFacts DEF Idle, None, Busy, Ids
  <2>3. Line' /\ Starting'
    BY <1>1, <1>5, <2>2, LineGrows DEF Conversation, Starting
  <2>4. Current' /\ NotBegun' /\ OpeningLast' /\ OpeningsInOrder' /\ NoneSends' /\ EmptyFirst'
        /\ SeekAgrees' /\ Directions'
    BY <1>1, <2>1, <2>2 DEF Conversation, Current, NotBegun, OpeningLast, OpeningsInOrder, NoneSends,
       EmptyFirst, SeekAgrees, Directions, Begun, Sending, None, Never, Downloads
  <2> QED
    BY <2>3, <2>4 DEF Conversation
<1> QED
  BY <1>7, <1>8

\* The request for the next block follows the opening it belongs to.
LEMMA RequestBlockConversation ==
  ASSUME Shape, Conversation, RequestBlock
  PROVE  Conversation'
<1> USE DEF Shape
<1> DEFINE i == io.id
           m == Request("Read", i, task[i].progress)
<1>1. /\ io.do = "request" /\ Send(m) /\ io' = NoIO
      /\ UNCHANGED <<action, task, live, queue, exec, row, asked, down>>
  BY DEF RequestBlock
<1>2. i \in Ids
  BY <1>1 DEF IOShape
<1>3. m \in Up /\ m.id = i /\ m.kind = "Read"
  <2>1. task[i].progress \in Nat
    BY <1>2 DEF TasksShape, TaskRec
  <2>2. m \in Up
    BY <1>2, <2>1, Messages
  <2> QED
    BY <2>2 DEF Request
<1> HIDE DEF m
<1>4. Downloads
  BY <1>1 DEF Conversation, Directions
<1>5. None(Opening(i))
  BY <1>1, <1>2 DEF Conversation, OpeningLast
<1>6. ~Idle(i)
  BY <1>1 DEF Idle, Busy
<1>7. Sends(m)
  BY <1>1, <1>3, RequestSent
<1>8. exec' \in {0, exec}
  BY <1>1
<1> HIDE DEF i
<1> QED
  BY <1>1, <1>2, <1>3, <1>4, <1>5, <1>6, <1>7, <1>8, SentConversation

\* So does the next block.
LEMMA WriteBlockConversation ==
  ASSUME Shape, Conversation, torn' = {}, WriteBlock
  PROVE  Conversation'
<1> USE DEF Shape
<1> DEFINE i == io.id
           m == Request("Write", i, io.seek)
<1>1. /\ io.do = "write" /\ Send(m) /\ io' = NoIO
      /\ UNCHANGED <<action, task, live, queue, exec, row, asked, down>>
  BY DEF WriteBlock
<1>2. i \in Ids
  BY <1>1 DEF IOShape
<1>3. m \in Up /\ m.id = i /\ m.kind = "Write"
  <2>1. io.seek \in Nat
    BY DEF IOShape
  <2>2. m \in Up
    BY <1>2, <2>1, Messages
  <2> QED
    BY <2>2 DEF Request
<1> HIDE DEF m
<1>4. ~Downloads
  BY <1>1 DEF Conversation, Directions
<1>5. None(Opening(i))
  BY <1>1, <1>2 DEF Conversation, OpeningLast
<1>6. ~Idle(i)
  BY <1>1 DEF Idle, Busy
<1>7. Sends(m)
  BY <1>1, <1>3, RequestSent
<1>8. exec' \in {0, exec}
  BY <1>1
<1> HIDE DEF i
<1> QED
  BY <1>1, <1>2, <1>3, <1>4, <1>5, <1>6, <1>7, <1>8, SentConversation

\* An opening that has succeeded was the only one of its task, when no other was on its way.
LEMMA OpenedAlone ==
  ASSUME Shape, Conversation, torn' = {}, NEW i \in Ids, OpenSucceeded(i)
  PROVE  /\ NoneIn(Opening(i), down', up') /\ NoneIn(Token(i), down', up') /\ exec # i
         /\ i \in live /\ Head(down) \in Opened(i) /\ ~None(Opened(i))
         /\ down # <<>> /\ down' = Tail(down) /\ ~Busy /\ up' = up
<1> USE DEF Shape
<1>1. Answer("OpenOk", i) /\ Received /\ up' = up /\ ~Reopened(i) /\ i \in live
  BY DEF OpenSucceeded
<1>2. /\ Head(down) \in Down /\ Head(down).kind = "OpenOk" /\ Head(down).id = i
      /\ down # <<>> /\ down' = Tail(down) /\ ~Busy /\ Head(down) \in Opening(i)
  BY <1>1, AnswerMeans
<1>3. /\ exec # i
      /\ \A n \in DOMAIN up : ~(up[n].kind = "Open" /\ up[n].id = i)
      /\ \A n \in DOMAIN down \ {1} : ~(down[n].kind \in {"OpenOk", "OpenErr"} /\ down[n].id = i)
  BY <1>1 DEF Reopened
<1>4. NoneIn(Opening(i), down', up')
  <2>1. ASSUME NEW n \in DOMAIN up PROVE up[n] \notin Opening(i)
    <3>1. up[n] \in Up
      BY Elements DEF NetShape
    <3> QED
      BY <1>3, <3>1 DEF Opening, Up
  <2>2. /\ Len(down) \in Nat /\ DOMAIN down = 1..Len(down)
        /\ DOMAIN down' = 1..(Len(down) - 1) /\ \A n \in 1..(Len(down) - 1) : down'[n] = down[n + 1]
        /\ \A n \in 1..Len(down) : down[n] \in Down
    BY <1>2, Elements DEF NetShape
  <2>3. \A n \in 1..(Len(down) - 1) : n + 1 \in DOMAIN down \ {1} /\ n + 1 \in 1..Len(down)
    BY <2>2
  <2>4. ASSUME NEW n \in DOMAIN down' PROVE down'[n] \notin Opening(i)
    <3>1. PICK d \in Down : d = down'[n] /\ ~(d.kind \in {"OpenOk", "OpenErr"} /\ d.id = i)
      BY <1>3, <2>2, <2>3, <2>4
    <3> QED
      BY <3>1 DEF Opening, Down
  <2> QED
    BY <1>1, <2>1, <2>4 DEF NoneIn
<1>5. NoneIn(Token(i), down', up')
  <2>1. Never(Opening(i), Token(i))
    BY DEF Conversation, OpeningLast
  <2> QED
    BY <1>1, <1>2, <2>1, TakeAnswer DEF Never, NetShape
<1>6. Head(down) \in Opened(i) /\ ~None(Opened(i))
  <2>1. Head(down) \in Opened(i)
    BY <1>2 DEF Opened, Message
  <2> QED
    BY <1>2, <2>1, FirstAnswer
<1> QED
  BY <1>1, <1>2, <1>3, <1>4, <1>5, <1>6

\* An opening that has succeeded starts the transmission of its task only.
LEMMA OpenSucceededConversation ==
  ASSUME Shape, Conversation, torn' = {}, NEW i \in Ids, OpenSucceeded(i)
  PROVE  Conversation'
<1> USE DEF Shape, Conversation
<1>0. /\ NoneIn(Opening(i), down', up') /\ exec # i /\ i \in live /\ Head(down) \in Opened(i)
      /\ down # <<>> /\ down' = Tail(down) /\ ~Busy /\ up' = up
  BY OpenedAlone
<1> DEFINE t == [task[i] EXCEPT !.state = "TRANSMITTING"]
<1>1. /\ task[i].state = "PREPARING" /\ Become(i, t)
      /\ UNCHANGED <<action, live, queue, exec, asked>>
      /\ io'.id = i /\ io'.do = (IF Downloads THEN "request" ELSE "block")
  BY DEF OpenSucceeded, Later
<1>2. t \in TaskRec /\ t.state = "TRANSMITTING" /\ t.progress = task[i].progress
  BY DEF TasksShape, TaskRec, States, Active
<1> HIDE DEF t
<1>3. /\ task'[i] = t /\ \A j \in Ids : j # i => task'[j] = task[j]
      /\ \A j \in Ids : RowFollows(j)
  BY <1>1, <1>2, OneTaskChanges
<1>4. Fewer /\ Calm
  BY <1>0, AnswerLeaves
<1>5. \A k \in Ids : /\ (Begun(k)' <=> Begun(k)) /\ (Waiting(k)' <=> Waiting(k))
                     /\ task'[k].progress = task[k].progress
                     /\ (Sending(k)' => Sending(k) \/ k = i)
  BY <1>1, <1>2, <1>3 DEF Begun, Waiting, Sending
<1>6. \A k \in Ids : Idle(k) => Idle(k)' /\ k # i /\ task'[k] = task[k]
  <2>1. ASSUME NEW k \in Ids, Idle(k) PROVE Idle(k)' /\ k # i /\ task'[k] = task[k]
    <3>1. k # i
      BY <1>1, <2>1 DEF Idle
    <3>2. None(About(k))'
      BY <1>4, <2>1, LastingSets DEF Calm, Idle, None
    <3> QED
      BY <1>1, <1>3, <2>1, <3>1, <3>2 DEF Idle, Busy
  <2> QED
    BY <2>1
<1>7. Ids \subseteq Nat /\ \A k \in Ids : (k > i => ~Begun(k)) /\ (Begun(k) => k <= i)
  BY <1>0, Newest DEF Ids
<1>8. Current'
  <2>1. /\ \A k, l \in Ids : l > k /\ Begun(l)' => Begun(k)'
        /\ \A k \in live' : Begun(k)' /\ \A l \in Ids : l > k => ~Begun(l)'
    BY <1>1, <1>5 DEF Current, ListsShape
  <2>2. ASSUME NEW k \in Ids
        PROVE  /\ IF k \in live' THEN row'[k].state # "none" ELSE row'[k] = NoRow
               /\ row'[k].state = "FINISHED" => task'[k].state = "FINISHED"
    <3>1. RowFollows(k) /\ (k \in live' <=> k \in live)
      BY <1>1, <1>3
    <3>2. /\ IF k \in live THEN row[k].state # "none" ELSE row[k] = NoRow
          /\ row[k].state = "FINISHED" => task[k].state = "FINISHED"
      BY DEF Current
    <3>3. task[k].state = "FINISHED" => task'[k] = task[k]
      BY <1>1, <1>3
    <3>4. k \in live' => task'[k].state # "none"
      BY <2>1 DEF Begun
    <3> QED
      BY <3>1, <3>2, <3>3, <3>4 DEF RowFollows, NoRow
  <2>3. \A k \in asked' \cap live' : task'[k].state = "FAILED"
    BY <1>1, <1>3 DEF Current, ListsShape
  <2> QED
    BY <2>1, <2>2, <2>3 DEF Current
<1>9. NotBegun'
  <2>1. ASSUME NEW k \in Ids, ~Begun(k)' PROVE task'[k] = NoTask /\ Idle(k)' /\ k \notin asked'
    BY <1>1, <1>5, <1>6, <2>1 DEF NotBegun
  <2> QED
    BY <2>1 DEF NotBegun
<1>10. Line'
  <2>1. ASSUME NEW n \in DOMAIN queue
        PROVE  /\ task'[queue[n]].state # "none"
               /\ task'[queue[n]].state = "WAITING_FOR_START" =>
                    /\ \A m \in DOMAIN queue : m < n => queue[m] <= queue[n]
                    /\ \A j \in Ids : j > queue[n] => Idle(j)' /\ task'[j].progress = 0
    <3>1. PICK k \in Ids : k = queue[n] /\ Begun(k)
      BY Elements DEF ListsShape, Line
    <3>2. task'[k].state # "none" /\ (task'[k].state = "WAITING_FOR_START" => Waiting(k))
      BY <1>5, <3>1 DEF Begun, Waiting
    <3> QED
      BY <1>5, <1>6, <3>1, <3>2 DEF Line
  <2> QED
    BY <1>1, <2>1 DEF Line, Begun, Waiting
<1>11. Starting'
  <2>1. ASSUME exec # 0 PROVE exec \in Ids /\ task'[exec] = task[exec]
    BY <1>0, <1>3, <2>1 DEF ListsShape, Names, Ids
  <2> QED
    BY <1>1, <1>5, <1>6, <2>1 DEF Starting
<1>12. OpeningsInOrder'
  BY <1>4, LastingSets DEF OpeningsInOrder, Calm, Never
<1>13. \A k \in Ids : k <= i => NoneIn(Opening(k), down', up')
  <2>1. ASSUME NEW k \in Ids, k <= i, k # i PROVE NoneIn(Opening(k), down', up')
    <3>1. i > k
      BY <1>7, <2>1
    <3>2. Never(Opening(i), Opening(k))
      BY <3>1 DEF OpeningsInOrder
    <3>3. Head(down) \in Opening(i)
      BY <1>0 DEF Opening, Opened
    <3> QED
      BY <1>0, <3>2, <3>3, TakeAnswer DEF Never, NetShape
  <2> QED
    BY <1>0, <2>1
<1>14. NoneSends'
  <2>1. ASSUME NEW k \in Ids, ~None(Opening(k))', NEW j \in Ids, j >= k PROVE ~Sending(j)'
    <3>1. ~None(Opening(k))
      BY <1>4, <2>1, LastingSets DEF Calm, None
    <3>2. j # i
      BY <1>13, <2>1 DEF None
    <3> QED
      BY <1>5, <2>1, <3>1, <3>2 DEF NoneSends
  <2> QED
    BY <2>1 DEF NoneSends
<1>15. OpeningLast'
  <2>1. \A k : Never(Opening(k), Token(k)) => Never(Opening(k), Token(k))'
    BY <1>4, LastingSets DEF Calm, Never
  <2> QED
    BY <1>0, <1>1, <2>1 DEF OpeningLast, None
<1>16. EmptyFirst' /\ SeekAgrees'
  <2>1. \A k : None(Emptying(k)) => None(Emptying(k))'
    BY <1>4, LastingSets DEF Calm, None
  <2>2. \A k, s : NoneIn(Off({"Open", "OpenOk"}, k, s), down, up) => NoneIn(Off({"Open", "OpenOk"}, k, s), down', up')
    BY <1>4, LastingSets DEF Calm
  <2> QED
    BY <1>1, <1>5, <2>1, <2>2 DEF EmptyFirst, SeekAgrees, None, ListsShape
<1>17. Directions'
  <2>1. /\ None(OfKind({"Write", "WriteOk", "WriteErr"})) => None(OfKind({"Write", "WriteOk", "WriteErr"}))'
        /\ None(OfKind({"Read", "ReadOk", "ReadErr"})) => None(OfKind({"Read", "ReadOk", "ReadErr"}))'
        /\ None(Odd) => None(Odd)'
    BY <1>4, LastingSets, FewerOdd DEF Calm, None
  <2> QED
    BY <1>1, <2>1 DEF Directions, Downloads
<1> QED
  BY <1>8, <1>9, <1>10, <1>11, <1>12, <1>14, <1>15, <1>16, <1>17

\* What a restart leaves when the copy may survive it: the rows have every progress.
LEMMA Restarted ==
  ASSUME Shape, Conversation, torn' = {}, RestartViewer
  PROVE  /\ Fewer /\ Calm /\ SentStays /\ io.do # "write"
         /\ UNCHANGED <<action, file, live>> /\ io' = NoIO /\ exec' = 0 /\ asked' = {}
         /\ \A n \in DOMAIN queue' : queue'[n] \in live
         /\ \A i \in Ids :
              /\ task'[i].fp = "closed" /\ ~task'[i].force
              /\ task'[i].state \in {"none", "STOPED", "FINISHED", "FAILED"}
              /\ Begun(i)' <=> Begun(i)
              /\ ~Begun(i) => task'[i] = NoTask
              /\ i \in live => task'[i].progress = task[i].progress
              /\ i \notin live => task'[i].progress = 0
              /\ IF i \in live THEN row'[i].state # "none" ELSE row'[i] = NoRow
              /\ row'[i].state = "FINISHED" => task'[i].state = "FINISHED"
              /\ task'[i].state = "FINISHED" => i \in live /\ row[i].state = "FINISHED"
<1> USE DEF Shape
<1> DEFINE rows == {i \in Ids : row[i] # NoRow}
<1>1. PICK p \in [Ids -> 0..N] :
         /\ \A i \in Ids : p[i] \in {row[i].progress} \cup
                              (IF i \in live THEN row[i].progress..task[i].progress ELSE {})
         /\ Lost({c \in {"lost"} : io.do = "write"} \cup {c \in {"stale"} : \E i \in live : p[i] # task[i].progress})
         /\ row' = [i \in Ids |-> [row[i] EXCEPT !.progress = p[i]]]
         /\ task' = [i \in Ids |->
              IF i \in rows
              THEN [NoTask EXCEPT !.progress = p[i],
                      !.state = IF row[i].state \in {"FINISHED", "FAILED"} THEN row[i].state ELSE "STOPED"]
              ELSE IF task[i] = NoTask THEN NoTask ELSE [NoTask EXCEPT !.state = "FAILED"]]
         /\ live' = rows
         /\ \E q \in [1..Cardinality(rows) -> rows] : queue' = q
  BY DEF RestartViewer
<1>2. UNCHANGED <<action, file>> /\ io' = NoIO /\ exec' = 0 /\ asked' = {}
  BY DEF RestartViewer
<1>3. Fewer /\ Calm /\ SentStays /\ io.do # "write" /\ \A i \in live : p[i] = task[i].progress
  <2> DEFINE a == {c \in {"lost"} : io.do = "write"}
             b == {c \in {"stale"} : \E i \in live : p[i] # task[i].progress}
  <2>1. Lost(a \cup b)
    BY <1>1
  <2> HIDE DEF a, b
  <2>2. Fewer /\ Calm /\ SentStays /\ a \cup b = {}
    BY <2>1, LostLeaves
  <2>3. io.do = "write" => "lost" \in a
    BY DEF a
  <2>4. (\E i \in live : p[i] # task[i].progress) => "stale" \in b
    BY DEF b
  <2> QED
    BY <2>2, <2>3, <2>4
<1>0. \A i \in Ids : i \in live \/ p[i] = row[i].progress
  BY <1>1
<1>4. \A i \in Ids : (i \in rows <=> i \in live) /\ (i \in live => row[i].state # "none") /\ (i \notin live => row[i] = NoRow)
                     /\ (i \in live => Begun(i)) /\ (row[i].state = "FINISHED" => task[i].state = "FINISHED")
                     /\ (~Begun(i) => task[i] = NoTask)
  BY DEF Conversation, Current, NoRow, NotBegun
<1>5. rows = live
  BY <1>4 DEF ListsShape
<1> HIDE DEF rows
<1>6. ASSUME NEW i \in live
      PROVE  /\ task'[i].fp = "closed" /\ ~task'[i].force
             /\ task'[i].state = (IF row[i].state \in {"FINISHED", "FAILED"} THEN row[i].state ELSE "STOPED")
             /\ task'[i].progress = task[i].progress
             /\ row'[i].state = row[i].state
  <2>1. i \in Ids /\ i \in rows /\ row[i] \in RowRec
    BY <1>5 DEF ListsShape, TasksShape
  <2>2. task'[i] = [NoTask EXCEPT !.progress = p[i],
                      !.state = IF row[i].state \in {"FINISHED", "FAILED"} THEN row[i].state ELSE "STOPED"]
    BY <1>1, <2>1
  <2>3. row'[i] = [row[i] EXCEPT !.progress = p[i]]
    BY <1>1, <2>1
  <2> QED
    BY <1>3, <2>1, <2>2, <2>3 DEF NoTask, RowRec
<1>7. ASSUME NEW i \in Ids, i \notin live
      PROVE  /\ task'[i] = IF task[i] = NoTask THEN NoTask ELSE [NoTask EXCEPT !.state = "FAILED"]
             /\ row'[i] = NoRow
  <2>1. task'[i] = IF task[i] = NoTask THEN NoTask ELSE [NoTask EXCEPT !.state = "FAILED"]
    BY <1>1, <1>5, <1>7
  <2>2. row[i] = NoRow /\ p[i] = 0
    BY <1>0, <1>4, <1>7 DEF NoRow
  <2>3. row'[i] = [NoRow EXCEPT !.progress = 0]
    BY <1>1, <2>2
  <2> QED
    BY <2>1, <2>3 DEF NoRow
<1>8. \A n \in DOMAIN queue' : queue'[n] \in live
  BY <1>1, <1>5
<1>9. ASSUME NEW i \in Ids
      PROVE  /\ task'[i].fp = "closed" /\ ~task'[i].force
             /\ task'[i].state \in {"none", "STOPED", "FINISHED", "FAILED"}
             /\ Begun(i)' <=> Begun(i)
             /\ ~Begun(i) => task'[i] = NoTask
             /\ i \in live => task'[i].progress = task[i].progress
             /\ i \notin live => task'[i].progress = 0
             /\ IF i \in live THEN row'[i].state # "none" ELSE row'[i] = NoRow
             /\ row'[i].state = "FINISHED" => task'[i].state = "FINISHED"
             /\ task'[i].state = "FINISHED" => i \in live /\ row[i].state = "FINISHED"
  <2>1. CASE i \in live
    BY <1>4, <1>6, <2>1 DEF Begun
  <2>2. CASE i \notin live
    BY <1>4, <1>7, <2>2 DEF Begun, NoTask, NoRow
  <2> QED
    BY <2>1, <2>2
<1>10. live' = live
  BY <1>1, <1>5
<1> QED
  BY <1>2, <1>3, <1>8, <1>9, <1>10

\* A viewer that starts again keeps the newest task, with its row's progress, and no message.
LEMMA RestartConversation ==
  ASSUME Shape, Conversation, torn' = {}, RestartViewer
  PROVE  Conversation'
<1> USE DEF Shape, Conversation
<1>1. /\ Fewer /\ Calm
      /\ UNCHANGED <<action, live>> /\ io' = NoIO /\ exec' = 0 /\ asked' = {}
      /\ \A n \in DOMAIN queue' : queue'[n] \in live
      /\ \A i \in Ids :
           /\ task'[i].fp = "closed"
           /\ task'[i].state \in {"none", "STOPED", "FINISHED", "FAILED"}
           /\ Begun(i)' <=> Begun(i)
           /\ ~Begun(i) => task'[i] = NoTask
           /\ i \in live => task'[i].progress = task[i].progress
           /\ i \notin live => task'[i].progress = 0
           /\ IF i \in live THEN row'[i].state # "none" ELSE row'[i] = NoRow
           /\ row'[i].state = "FINISHED" => task'[i].state = "FINISHED"
  BY Restarted
<1>2. Current'
  BY <1>1 DEF Current, ListsShape
<1>3. NotBegun'
  <2>1. ASSUME NEW k \in Ids, ~Begun(k)' PROVE task'[k] = NoTask /\ Idle(k)' /\ k \notin asked'
    <3>1. Idle(k) /\ task'[k] = NoTask
      BY <1>1, <2>1 DEF NotBegun
    <3>2. NoneIn(About(k), down', up')
      BY <1>1, <3>1, LastingSets DEF Calm, Idle, None
    <3> QED
      BY <1>1, <3>1, <3>2, ConstFacts DEF Idle, None, Busy, NoIO, NoTask, Ids
  <2> QED
    BY <2>1 DEF NotBegun
<1>4. Line'
  <2>1. ASSUME NEW n \in DOMAIN queue'
        PROVE  task'[queue'[n]].state # "none" /\ task'[queue'[n]].state # "WAITING_FOR_START"
    <3>1. PICK k \in live : k = queue'[n]
      BY <1>1, <2>1
    <3>2. k \in Ids /\ Begun(k)'
      BY <1>1 DEF ListsShape, Current
    <3> QED
      BY <1>1, <3>1, <3>2 DEF Begun
  <2> QED
    BY <2>1 DEF Line, Begun, Waiting
<1>5. Starting'
  BY <1>1 DEF Starting
<1>6. \A k \in Ids : ~Sending(k)'
  BY <1>1 DEF Sending
<1>7. OpeningsInOrder' /\ NoneSends' /\ OpeningLast'
  BY <1>1, <1>6, LastingSets DEF OpeningsInOrder, NoneSends, OpeningLast, Calm, Never, NoIO
<1>8. EmptyFirst'
  <2>1. \A k : None(Emptying(k)) => None(Emptying(k))'
    BY <1>1, LastingSets DEF Calm, None
  <2> QED
    BY <1>1, <2>1 DEF EmptyFirst
<1>9. SeekAgrees'
  <2>2. \A k, s : NoneIn(Off({"Open", "OpenOk"}, k, s), down, up) => NoneIn(Off({"Open", "OpenOk"}, k, s), down', up')
    BY <1>1, LastingSets DEF Calm
  <2> QED
    BY <1>1, <2>2 DEF SeekAgrees, None, ListsShape
<1>10. Directions'
  <2>1. /\ None(OfKind({"Write", "WriteOk", "WriteErr"})) => None(OfKind({"Write", "WriteOk", "WriteErr"}))'
        /\ None(OfKind({"Read", "ReadOk", "ReadErr"})) => None(OfKind({"Read", "ReadOk", "ReadErr"}))'
        /\ None(Odd) => None(Odd)'
    BY <1>1, LastingSets, FewerOdd DEF Calm, None
  <2> QED
    BY <1>1, <2>1 DEF Directions, Downloads, NoIO
<1> QED
  BY <1>2, <1>3, <1>4, <1>5, <1>7, <1>8, <1>9, <1>10

\* Every step keeps the conversation.
LEMMA ConversationStep ==
  ASSUME Shape, Conversation, torn' = {}, [Next]_vars
  PROVE  Conversation'
<1>1. CASE User
  <2>1. ASSUME NEW i \in Ids, RemoveTask(i) \/ StopTask(i) PROVE Conversation'
    BY <2>1, UserRoutine, RoutineConversation
  <2> QED
    BY <1>1, <2>1, AddTaskConversation, OverwriteConversation, ResumeConversation DEF User
<1>2. CASE Exec
  <2>1. ASSUME NEW i \in Ids, Watch(i) \/ TimeOut(i) \/ Drop(i) PROVE Conversation'
    BY <2>1, ExecRoutine, RoutineConversation
  <2> QED
    BY <1>2, <2>1, StartConversation, RemoteOpenConversation DEF Exec
<1>3. CASE Answers
  <2>1. ASSUME NEW i \in Ids, OpenFailed(i) \/ TransferFailed(i) \/ BlockArrived(i) \/ BlockTaken(i)
        PROVE  Conversation'
    BY <2>1, FailuresRoutine, BlocksRoutine, RoutineConversation
  <2>2. Unwanted \/ ReadBlock => Conversation'
    BY OthersRoutine, ReadBlockRoutine, RoutineConversation
  <2>3. RequestBlock \/ WriteBlock => Conversation'
    BY RequestBlockConversation, WriteBlockConversation
  <2>4. ASSUME NEW i \in Ids, OpenSucceeded(i) PROVE Conversation'
    BY <2>4, OpenSucceededConversation
  <2> QED
    BY <1>3, <2>1, <2>2, <2>3, <2>4 DEF Answers
<1>4. CASE Handlers
  <2>1. ASSUME NEW i \in Ids, HandleOpen(i) \/ HandleClose(i) \/ HandleRead(i) \/ HandleWrite(i)
        PROVE  Conversation'
    BY <2>1, HandlersRoutine, RoutineConversation
  <2> QED
    BY <1>4, <2>1 DEF Handlers
<1>5. CASE GuardExec
  BY <1>5, OthersRoutine, RoutineConversation
<1>6. CASE Environment
  BY <1>6, OthersRoutine, RoutineConversation, RestartConversation DEF Environment
<1>7. CASE UNCHANGED vars
  <2>1. Calm /\ Fewer /\ UNCHANGED <<viewer, action>>
    BY <1>7, ChannelUnchanged DEF vars, net
  <2> QED
    BY <2>1, FewerOdd, ViewerUnchanged, RoutineConversation
<1> QED
  BY <1>1, <1>2, <1>3, <1>4, <1>5, <1>6, <1>7 DEF Next
-----------------------------------------------------------------------------
(* The copy of a download. *)

\* What the invariant says of uploads does not matter.
LEMMA DownloadCopying ==
  ASSUME Conversation', Downloads', Whole', Untouched', DownloadFits', OneRead'
  PROVE  Copying'
<1>1. HandsOff' /\ Questioned' /\ OpenFits' /\ UploadFits' /\ OneAnswer'
  BY DEF HandsOff, Questioned, OpenFits, UploadFits, OneAnswer
<1>2. NoneIn(Sent, down', up') /\ io'.do \in {"none", "request"}
  BY Parts DEF Conversation, Directions, None
<1>3. SentFirst'
  BY <1>2, NoneNever DEF SentFirst, Never
<1>4. OneBlock'
  <2>1. NeverIn(Sent, Sent, down', up') /\ \A s : NoneIn(OffSent(s), down', up')
    BY <1>2, NoneNever, Parts
  <2> QED
    BY <1>2, <2>1 DEF OneBlock, None, Never
<1> QED
  BY <1>1, <1>3, <1>4 DEF Copying

\* A step that leaves the file, the progress and the position of a download keeps its copy.
LEMMA DownloadLeftCopying ==
  ASSUME Shape, Conversation, Copying, Conversation', Downloads, DownloadLeft
  PROVE  Copying'
<1>0. Routine /\ file' = file /\ (io' = io \/ io' = NoIO) /\ Downloads'
  BY DEF DownloadLeft, Routine, Downloads
<1>1. \A i \in Ids : /\ task'[i].force = task[i].force /\ (Sending(i)' => Sending(i))
                     /\ task'[i].progress = task[i].progress /\ task'[i].fp \in {task[i].fp, "closed"}
                     /\ task'[i].state = "PREPARING" => task[i].state = "PREPARING"
  BY DEF DownloadLeft, Routine, Moves, Active, Sending
<1>2. live' \subseteq live /\ live \subseteq Ids /\ exec' = exec
  BY <1>0 DEF Routine, Shape, ListsShape
<1>3. Whole'
  BY <1>0 DEF Copying, Whole, Exists, Size
<1>4. Untouched'
  <2> SUFFICES ASSUME ~Exists' PROVE
        /\ ~Busy' /\ asked' = {}
        /\ \A i \in Ids : task'[i].progress = 0 /\ ~task'[i].force /\ ~Sending(i)'
        /\ None(Late)'
        /\ Downloads' => /\ exec' = 0 /\ None(Talk)'
                         /\ \A i \in Ids : task'[i].fp = "closed" /\ task'[i].state # "PREPARING"
    BY DEF Untouched
  <2>1. ~Exists
    BY <1>0 DEF Exists
  <2>2. /\ ~Busy /\ asked = {} /\ exec = 0 /\ None(Talk)
        /\ \A i \in Ids : /\ task[i].progress = 0 /\ ~task[i].force /\ ~Sending(i)
                          /\ task[i].fp = "closed" /\ task[i].state # "PREPARING"
    BY <2>1 DEF Copying, Untouched
  <2>3. NoneIn(Talk, down', up')
    BY <1>0, <2>2, LastingSets DEF Routine, Calm, None
  <2>4. NoneIn(Late, down', up')
    BY <2>3, Parts
  <2>5. asked' = {} /\ ~Busy'
    BY <1>0, <2>1, <2>2 DEF DownloadLeft, Busy, NoIO
  <2> QED
    BY <1>1, <1>2, <2>2, <2>3, <2>4, <2>5 DEF None
<1>5. DownloadFits'
  <2>1. ASSUME NEW i \in live', task'[i].fp # "closed" \/ task'[i].progress > 0
        PROVE  Exists' /\ Size' = task'[i].progress
    <3>1. i \in live /\ i \in Ids /\ (task[i].fp # "closed" \/ task[i].progress > 0)
      BY <1>1, <1>2, <2>1
    <3> QED
      BY <1>0, <1>1, <3>1 DEF Copying, DownloadFits, Exists, Size
  <2> QED
    BY <2>1 DEF DownloadFits
<1>6. OneRead'
  <2>1. ASSUME NEW i \in live', Sending(i)'
        PROVE  /\ Never(Token(i), Token(i))' /\ (Busy' /\ io'.id = i => None(Token(i))')
               /\ NoneIn(Off({"Read", "ReadOk"}, i, task'[i].progress), down', up')
               /\ task'[i].progress < N => None(AtEnd(i))'
    <3>1. i \in live /\ i \in Ids /\ Sending(i)
      BY <1>1, <1>2, <2>1
    <3>2. /\ Never(Token(i), Token(i)) /\ (Busy /\ io.id = i => None(Token(i)))
          /\ None(Off({"Read", "ReadOk"}, i, task[i].progress))
          /\ task[i].progress < N => None(AtEnd(i))
      BY <3>1 DEF Copying, OneRead
    <3>3. Never(Token(i), Token(i))' /\ (None(Token(i)) => None(Token(i))')
      BY <1>0, <3>2, LastingSets DEF Routine, Calm, None, Never
    <3>4. NoneIn(Off({"Read", "ReadOk"}, i, task[i].progress), down', up')
      BY <1>0, <3>2, LastingSets DEF Routine, Calm, None
    <3>5. task[i].progress < N => None(AtEnd(i))'
      <4>1. task[i].progress \in Nat /\ N \in Nat
        BY <3>1, ConstFacts DEF Shape, TasksShape, TaskRec
      <4>2. task[i].progress < N => task[i].progress \in 0..(N - 1)
        BY <4>1
      <4> QED
        BY <3>1, <3>2, <4>2 DEF DownloadLeft, None
    <3>6. Busy' => io' = io
      BY <1>0 DEF Busy, NoIO
    <3> QED
      BY <1>1, <3>1, <3>2, <3>3, <3>4, <3>5, <3>6 DEF Busy
  <2> QED
    BY <2>1 DEF OneRead, None
<1> QED
  BY <1>0, <1>3, <1>4, <1>5, <1>6, DownloadCopying

\* A step that sends nothing but a Close cannot end a download.
LEMMA FewerAtEnd ==
  ASSUME Fewer
  PROVE  \A i : None(AtEnd(i)) => NoneIn(AtEnd(i), down', up')
BY QuietSets DEF Fewer, None

\* A step that leaves the viewer alone.
LEMMA GuardLeavesDownload ==
  ASSUME Shape, Routine, UNCHANGED <<viewer, file>>,
         \A i \in Ids : \A s \in 0..(N - 1) :
           None(AtEnd(i)) /\ None(Off({"Read", "ReadOk"}, i, s)) => NoneIn(AtEnd(i), down', up')
  PROVE  DownloadLeft
BY DEF DownloadLeft, viewer

\* The guard's handlers leave a download: they read the file, from where they are asked to.
LEMMA HandlersLeaveDownload ==
  ASSUME Shape, Conversation, Downloads, torn' = {}, NEW i \in Ids,
         HandleOpen(i) \/ HandleClose(i) \/ HandleRead(i) \/ HandleWrite(i)
  PROVE  DownloadLeft
<1> USE DEF Shape
<1>0. Routine
  BY HandlersRoutine
<1>1. CASE HandleOpen(i)
  <2>1. PICK r \in Down :
          /\ AnswerTo(Head(up), r) /\ Reply(r)
          /\ \/ /\ r.kind = "OpenOk"
                /\ file' = InitIO(~Downloads, "closed", Head(up).seek, Head(up).force).file
             \/ r.kind = "OpenErr" /\ UNCHANGED file
    BY <1>1, OpenHandled
  <2>2. up # <<>> /\ up' = Tail(up) /\ UNCHANGED viewer
    BY <1>1, OpenHandled
  <2>3. file' = file
    BY <2>1 DEF InitIO
  <2>4. \A k : None(AtEnd(k)) => NoneIn(AtEnd(k), down', up')
    <3>1. \A k : r \notin AtEnd(k)
      BY <2>1 DEF AtEnd
    <3> QED
      BY <2>1, <2>2, <3>1, RequestAnswered DEF None
  <2> QED
    BY <1>0, <2>2, <2>3, <2>4, GuardLeavesDownload
<1>2. CASE HandleClose(i)
  <2>1. Fewer /\ UNCHANGED <<viewer, file>>
    BY <1>2, CloseTaken DEF HandleClose, Asked
  <2> QED
    BY <1>0, <2>1, FewerAtEnd, GuardLeavesDownload
<1>3. CASE HandleRead(i)
  <2>1. PICK r \in Down :
              /\ AnswerTo(Head(up), r) /\ Reply(r)
              /\ r.kind \in {"ReadOk", "ReadErr"}
              /\ r.kind = "ReadErr" /\ r.err = "eof" => Head(up).seek >= N
    BY <1>3, ReadHandled
  <2>2. up # <<>> /\ up' = Tail(up) /\ UNCHANGED <<viewer, file>>
        /\ Head(up) \in Up /\ Head(up).kind = "Read" /\ Head(up).id = i
    BY <1>3, ReadHandled
  <2>3. ASSUME NEW k \in Ids, NEW s \in 0..(N - 1), None(AtEnd(k)), None(Off({"Read", "ReadOk"}, k, s))
        PROVE  NoneIn(AtEnd(k), down', up')
    <3>1. r \notin AtEnd(k)
      <4>1. ASSUME r \in AtEnd(k) PROVE FALSE
        <5>1. Head(up).id = k /\ Head(up).seek >= N
          BY <2>1, <2>2, <4>1 DEF AtEnd, AnswerTo
        <5>2. Head(up).seek # s
          BY <2>2, <5>1, ConstFacts DEF Up
        <5>3. Head(up) \in Off({"Read", "ReadOk"}, k, s)
          BY <2>2, <5>1, <5>2 DEF Off, Message
        <5> QED
          BY <2>2, <2>3, <5>3, FirstRequest
      <4> QED
        BY <4>1
    <3> QED
      BY <2>1, <2>2, <2>3, <3>1, RequestAnswered DEF None
  <2> QED
    BY <1>0, <2>2, <2>3, GuardLeavesDownload
<1>4. CASE HandleWrite(i)
  <2>1. up # <<>> /\ Head(up) \in Up /\ Head(up).kind = "Write"
    BY <1>4, WriteHandled
  <2>2. Head(up) \in OfKind({"Write", "WriteOk", "WriteErr"})
    BY <2>1 DEF OfKind, Message
  <2> QED
    BY <2>1, <2>2, FirstRequest DEF Conversation, Directions
<1> QED
  BY <1>1, <1>2, <1>3, <1>4

\* So do the guard itself, the connection and an answer that nobody wants.
LEMMA OthersLeaveDownload ==
  ASSUME Shape, torn' = {},
         GuardExec \/ LoseConnection \/ Reconnect \/ Unroutable \/ RestartGuard \/ Unwanted
  PROVE  DownloadLeft
BY OthersRoutine, FewerAtEnd, GuardLeavesDownload

\* A step of one task that keeps its progress.
LEMMA TaskLeftDownload ==
  ASSUME Shape, Routine, UNCHANGED file, NEW i \in Ids, NEW t \in TaskRec,
         task' = [task EXCEPT ![i] = t], t.progress = task[i].progress, t.fp \in {task[i].fp, "closed"},
         Exists \/ asked' \subseteq asked, io' = io \/ io' = NoIO, Fewer
  PROVE  DownloadLeft
<1>1. task'[i] = t /\ \A j \in Ids : j # i => task'[j] = task[j]
  BY DEF Shape, TasksShape
<1> QED
  BY <1>1, FewerAtEnd DEF DownloadLeft

\* So do the user and exec where they stop, drop or watch a task.
LEMMA UserLeavesDownload ==
  ASSUME Shape, Conversation, NEW i \in Ids,
         \/ RemoveTask(i) \/ StopTask(i) \/ Watch(i) \/ TimeOut(i) \/ Drop(i)
         \/ Overwrite(i) /\ UNCHANGED <<task, live, queue, row>>
  PROVE  DownloadLeft
<1> USE DEF Shape
<1>t. task[i] \in TaskRec
  BY DEF TasksShape
<1> DEFINE t == [task[i] EXCEPT !.state = "STOPED"]
<1>s. t \in TaskRec /\ t.progress = task[i].progress /\ t.fp = task[i].fp
  BY <1>t DEF TaskRec, States
<1> HIDE DEF t
<1>1. CASE RemoveTask(i)
  BY <1>1, UserRoutine, ChannelUnchanged, FewerAtEnd DEF RemoveTask, DownloadLeft, net
<1>2. CASE StopTask(i)
  <2>1. task' = [task EXCEPT ![i] = t] /\ UNCHANGED <<file, asked, io>> /\ Routine
    BY <1>2, UserRoutine DEF StopTask, Become, t
  <2>2. Fewer
    BY <1>2, CloseSent DEF StopTask
  <2> QED
    BY <1>s, <2>1, <2>2, TaskLeftDownload
<1>3. CASE Watch(i) \/ Drop(i)
  BY <1>3, ExecRoutine, ChannelUnchanged, FewerAtEnd DEF Watch, Drop, DownloadLeft, net
<1>4. CASE TimeOut(i)
  <2>1. task' = [task EXCEPT ![i] = t] /\ UNCHANGED <<file, asked, io, up, down>> /\ Routine
    BY <1>4, ExecRoutine DEF TimeOut, Become, net, t
  <2> QED
    BY <1>s, <2>1, ChannelUnchanged, TaskLeftDownload
<1>5. CASE Overwrite(i) /\ UNCHANGED <<task, live, queue, row>>
  <2>1. UNCHANGED <<action, task, live, queue, exec, io, row, net, file>> /\ asked' \subseteq asked
    BY <1>5 DEF Overwrite
  <2>2. UNCHANGED <<up, down>>
    BY <2>1 DEF net
  <2> QED
    BY <2>1, <2>2, DeclinedRoutine, ChannelUnchanged, FewerAtEnd DEF DownloadLeft
<1> QED
  BY <1>1, <1>2, <1>3, <1>4, <1>5

\* So does an answer that says that the guard has failed.
LEMMA FailuresLeaveDownload ==
  ASSUME Shape, Conversation, Copying, Downloads, NEW i \in Ids, OpenFailed(i) \/ TransferFailed(i)
  PROVE  DownloadLeft
<1> USE DEF Shape
<1>t. task[i] \in TaskRec
  BY DEF TasksShape
<1>1. CASE OpenFailed(i)
  <2> DEFINE t == [task[i] EXCEPT !.state = "FAILED"]
  <2>1. t \in TaskRec /\ t.progress = task[i].progress /\ t.fp = task[i].fp
    BY <1>t DEF TaskRec, States
  <2>2. /\ task' = [task EXCEPT ![i] = t] /\ UNCHANGED <<file, io>>
        /\ Answer("OpenErr", i) /\ Received
    BY <1>1 DEF OpenFailed, Become
  <2>3. Exists
    <3>1. Head(down) \in Opening(i) /\ down # <<>>
      BY <2>2, AnswerMeans
    <3>2. ~None(Talk)
      BY <3>1, FirstAnswer, Parts DEF None
    <3> QED
      BY <3>2 DEF Copying, Untouched
  <2> HIDE DEF t
  <2> QED
    BY <1>1, <2>1, <2>2, <2>3, FailuresRoutine, TaskLeftDownload
<1>2. CASE TransferFailed(i)
  <2> DEFINE s == IF Head(down).err = "eof" THEN "FINISHED" ELSE "FAILED"
             t == [task[i] EXCEPT !.fp = "closed", !.state = s]
  <2>1. s \in {"FINISHED", "FAILED"}
    OBVIOUS
  <2>2. task' = [task EXCEPT ![i] = t] /\ UNCHANGED <<file, io, asked>>
    BY <1>2 DEF TransferFailed, Become
  <2> HIDE DEF s
  <2>3. t \in TaskRec /\ t.progress = task[i].progress /\ t.fp = "closed"
    BY <1>t, <2>1 DEF TaskRec, States, Modes
  <2> HIDE DEF t
  <2> QED
    BY <1>2, <2>2, <2>3, FailuresRoutine, TaskLeftDownload
<1> QED
  BY <1>1, <1>2

\* A task is added. No step that adds or starts a task lets one transmit.
LEMMA JoinsDownload ==
  ASSUME Shape, Conversation, Copying, Conversation', Downloads, NEW j \in Ids, NEW p \in Nat, NEW q,
         Joins(j, p, q), UNCHANGED file, p > 0 => Exists /\ Size = p, ~Exists => ~task'[j].force
  PROVE  Copying'
<1>0. /\ file' = file /\ UNCHANGED <<action, exec, io, up, down>> /\ live' = {j} /\ asked' \subseteq asked
      /\ task'[j].state = "WAITING_FOR_START" /\ task'[j].fp = "closed" /\ task'[j].progress = p
      /\ \A k \in Ids : k # j => task'[k] = task[k]
  BY DEF Joins
<1>1. Downloads' /\ Whole' /\ Exists' = Exists /\ Size' = Size
  BY <1>0 DEF Copying, Whole, Exists, Size, Downloads
<1>2. DownloadFits'
  BY <1>0, <1>1 DEF DownloadFits
<1>3. OneRead'
  BY <1>0 DEF OneRead, Sending
<1>4. Untouched'
  <2>1. CASE Exists
    BY <1>1, <2>1 DEF Untouched
  <2>2. CASE ~Exists
    <3>1. p = 0
      BY <2>2
    <3>2. /\ ~Busy /\ asked = {} /\ exec = 0 /\ None(Talk) /\ None(Late)
          /\ \A i \in Ids : /\ task[i].progress = 0 /\ ~task[i].force /\ ~Sending(i)
                            /\ task[i].fp = "closed" /\ task[i].state # "PREPARING"
      BY <2>2 DEF Copying, Untouched
    <3> QED
      BY <1>0, <2>2, <3>1, <3>2 DEF Untouched, Busy, None, Sending
  <2> QED
    BY <2>1, <2>2
<1> QED
  BY <1>1, <1>2, <1>3, <1>4, DownloadCopying

\* A task is queued again, or fails to start.
LEMMA TurnsDownload ==
  ASSUME Shape, Conversation, Copying, Conversation', Downloads, NEW i \in Ids, Turns(i), UNCHANGED <<file, exec>>,
         task'[i].fp = task[i].fp, task'[i].state # "PREPARING", Exists \/ asked' \subseteq asked
  PROVE  Copying'
<1>0. /\ UNCHANGED <<action, live, io, up, down, file>> /\ \A k \in Ids : k # i => task'[k] = task[k]
      /\ task'[i].state \in {"WAITING_FOR_START", "FAILED"}
      /\ task'[i].progress = task[i].progress /\ task'[i].force = task[i].force /\ live \subseteq Ids
  BY DEF Turns, Shape, ListsShape
<1>1. Downloads' /\ Whole' /\ Exists' = Exists /\ Size' = Size
  BY <1>0 DEF Copying, Whole, Exists, Size, Downloads
<1>2. DownloadFits'
  BY <1>0, <1>1 DEF Copying, DownloadFits
<1>3. OneRead'
  <2>1. \A k \in Ids : Sending(k)' => k # i /\ Sending(k)
    BY <1>0 DEF Sending
  <2> QED
    BY <1>0, <2>1 DEF Copying, OneRead, None, Never, Busy
<1>4. Untouched'
  <2>1. CASE Exists
    BY <1>1, <2>1 DEF Untouched
  <2>2. CASE ~Exists
    <3>2. /\ ~Busy /\ asked = {} /\ exec = 0 /\ None(Talk) /\ None(Late)
          /\ \A k \in Ids : /\ task[k].progress = 0 /\ ~task[k].force /\ ~Sending(k)
                            /\ task[k].fp = "closed" /\ task[k].state # "PREPARING"
      BY <2>2 DEF Copying, Untouched
    <3> QED
      BY <1>0, <2>2, <3>2 DEF Untouched, Busy, None, Sending
  <2> QED
    BY <2>1, <2>2
<1> QED
  BY <1>1, <1>2, <1>3, <1>4, DownloadCopying

\* A task that is resumed waits again from its own position.
LEMMA ResumeTurns ==
  ASSUME Shape, Conversation, NEW i \in Ids, ResumeTask(i)
  PROVE  Turns(i) /\ UNCHANGED <<file, exec, asked>> /\ task'[i].fp = task[i].fp /\ task'[i].state = "WAITING_FOR_START"
<1> USE DEF Shape
<1> DEFINE t == [task[i] EXCEPT !.state = "WAITING_FOR_START"]
<1>1. /\ i \in live /\ task[i].state = "STOPED" /\ Become(i, t) /\ queue' = Append(queue, i)
      /\ UNCHANGED <<action, live, exec, io, asked, up, down, file>>
  BY DEF ResumeTask, net
<1>2. /\ t \in TaskRec /\ t.state = "WAITING_FOR_START" /\ t.progress = task[i].progress
      /\ t.force = task[i].force /\ t.fp = task[i].fp
  BY DEF TasksShape, TaskRec, States
<1> HIDE DEF t
<1>3. /\ task'[i] = t /\ \A k \in Ids : k # i => task'[k] = task[k]
      /\ \A k \in Ids : RowFollows(k)
  BY <1>1, <1>2, OneTaskChanges
<1> QED
  BY <1>1, <1>2, <1>3 DEF Turns

\* What exec makes of the task it starts.
LEMMA StartTurns ==
  ASSUME Shape, Conversation, NEW i \in Ids, Start(i)
  PROVE  LET r == InitIO(Downloads, task[i].fp, task[i].progress, task[i].force) IN
         /\ exec = 0 /\ Waiting(i) /\ Turns(i) /\ task'[i].force = task[i].force
         /\ \/ /\ r.err = "none" /\ file' = r.file /\ asked' = asked /\ exec' = i
               /\ task'[i].state = "PREPARING" /\ task'[i].fp = r.fp
            \/ /\ r.err = "exists" /\ UNCHANGED <<file, exec>> /\ asked' \subseteq asked \cup {i}
               /\ task'[i].state = "FAILED" /\ task'[i].fp = task[i].fp
            \/ /\ UNCHANGED <<file, exec, asked>>
               /\ task'[i].state = "FAILED" /\ task'[i].fp = task[i].fp
<1> USE DEF Shape
<1>0. /\ exec = 0 /\ Waiting(i) /\ UNCHANGED <<action, live, io, up, down>>
  BY DEF Start, Popped, Waiting, net
<1> DEFINE r == InitIO(Downloads, task[i].fp, task[i].progress, task[i].force)
<1>1. task[i] \in TaskRec /\ task[i].fp \in Modes
  BY DEF TasksShape, TaskRec
<1>2. r.fp \in Modes /\ r.err \in {"none", "exists"} /\ (r.err = "exists" => r.file = file)
  BY <1>1, InitIOModes DEF InitIO
<1>3. \/ /\ r.err = "none" /\ file' = r.file /\ asked' = asked /\ exec' = i
         /\ Become(i, [task[i] EXCEPT !.state = "PREPARING", !.fp = r.fp])
      \/ /\ r.err = "exists" /\ file' = r.file /\ exec' = exec /\ asked' \subseteq asked \cup {i}
         /\ Become(i, [task[i] EXCEPT !.state = "FAILED"])
      \/ /\ UNCHANGED <<file, exec, asked>>
         /\ Become(i, [task[i] EXCEPT !.state = "FAILED"])
  BY <1>2 DEF Start, Asking
<1> HIDE DEF r
<1>4. ASSUME NEW t \in TaskRec, Become(i, t), t.state \in {"PREPARING", "FAILED"},
             t.progress = task[i].progress, t.force = task[i].force,
             exec' \in {exec, i}, \A k \in asked' : k \in asked \/ (k = i /\ t.state = "FAILED")
      PROVE  Turns(i) /\ task'[i] = t
  <2>1. /\ task'[i] = t /\ \A k \in Ids : k # i => task'[k] = task[k]
        /\ \A k \in Ids : RowFollows(k)
    BY <1>0, <1>4, OneTaskChanges
  <2> QED
    BY <1>0, <1>4, <2>1 DEF Turns, Waiting
<1>5. CASE /\ r.err = "none" /\ file' = r.file /\ asked' = asked /\ exec' = i
           /\ Become(i, [task[i] EXCEPT !.state = "PREPARING", !.fp = r.fp])
  <2> DEFINE t == [task[i] EXCEPT !.state = "PREPARING", !.fp = r.fp]
  <2>1. /\ t \in TaskRec /\ t.state = "PREPARING" /\ t.progress = task[i].progress
        /\ t.force = task[i].force /\ t.fp = r.fp
    BY <1>1, <1>2 DEF TaskRec, States, Active
  <2>2. Become(i, t)
    BY <1>5
  <2> HIDE DEF t
  <2>3. Turns(i) /\ task'[i] = t
    BY <1>4, <1>5, <2>1, <2>2
  <2> QED
    BY <1>0, <1>5, <2>1, <2>3 DEF r
<1>6. ASSUME Become(i, [task[i] EXCEPT !.state = "FAILED"]), exec' = exec, asked' \subseteq asked \cup {i}
      PROVE  Turns(i) /\ task'[i].state = "FAILED" /\ task'[i].fp = task[i].fp /\ task'[i].force = task[i].force
  <2> DEFINE t == [task[i] EXCEPT !.state = "FAILED"]
  <2>1. /\ t \in TaskRec /\ t.state = "FAILED" /\ t.progress = task[i].progress
        /\ t.force = task[i].force /\ t.fp = task[i].fp
    BY <1>1 DEF TaskRec, States
  <2>2. Become(i, t)
    BY <1>6
  <2> HIDE DEF t
  <2>3. Turns(i) /\ task'[i] = t
    BY <1>4, <1>6, <2>1, <2>2
  <2> QED
    BY <2>1, <2>3
<1> QED
  BY <1>0, <1>2, <1>3, <1>5, <1>6 DEF r

\* exec starts a download by opening its file where its progress is.
LEMMA StartDownload ==
  ASSUME Shape, Conversation, Copying, Conversation', Downloads, NEW i \in Ids, Start(i)
  PROVE  Copying'
<1> USE DEF Shape
<1> DEFINE r == InitIO(Downloads, task[i].fp, task[i].progress, task[i].force)
<1>1. /\ exec = 0 /\ Waiting(i) /\ Turns(i)
      /\ \/ /\ r.err = "none" /\ file' = r.file /\ asked' = asked /\ exec' = i
            /\ task'[i].state = "PREPARING" /\ task'[i].fp = r.fp
         \/ /\ r.err = "exists" /\ UNCHANGED <<file, exec>> /\ asked' \subseteq asked \cup {i}
            /\ task'[i].state = "FAILED" /\ task'[i].fp = task[i].fp
         \/ /\ UNCHANGED <<file, exec, asked>>
            /\ task'[i].state = "FAILED" /\ task'[i].fp = task[i].fp
  BY StartTurns
<1>2. /\ r.err = "exists" => Exists
      /\ r.err = "none" =>
           \/ task[i].fp # "closed" /\ r.file = file
           \/ task[i].fp = "closed" /\ task[i].progress > 0 /\ (Exists => r.file = file)
           \/ task[i].fp = "closed" /\ ~(task[i].progress > 0) /\ r.file = <<<<>>>>
  BY DEF InitIO, Exists
<1> HIDE DEF r
<1>3. /\ UNCHANGED <<action, live, io, up, down>> /\ \A k \in Ids : k # i => task'[k] = task[k]
      /\ task'[i].progress = task[i].progress /\ live \subseteq Ids
      /\ task[i] \in TaskRec /\ task[i].progress \in Nat
  BY <1>1 DEF Turns, ListsShape, TasksShape, TaskRec
<1>d. Downloads'
  BY <1>3 DEF Downloads
<1>4. OneRead' \/ task'[i].state = "TRANSMITTING"
  <2>1. ASSUME task'[i].state # "TRANSMITTING" PROVE \A k \in Ids : Sending(k)' => k # i /\ Sending(k)
    BY <1>3, <2>1 DEF Sending
  <2> QED
    BY <1>3, <2>1 DEF Copying, OneRead, None, Never, Busy
<1>5. CASE /\ r.err = "none" /\ file' = r.file /\ asked' = asked /\ exec' = i
           /\ task'[i].state = "PREPARING" /\ task'[i].fp = r.fp
  <2>0. ~Exists => task[i].fp = "closed" /\ task[i].progress = 0
    BY DEF Copying, Untouched
  <2>1. CASE file' = file /\ Exists
    <3>1. Whole' /\ Exists' /\ Size' = Size
      BY <2>1 DEF Copying, Whole, Exists, Size
    <3>2. DownloadFits'
      <4>1. ASSUME NEW k \in live PROVE Size = task[k].progress \/ (task'[k].fp = "closed" /\ ~(task'[k].progress > 0))
        <5>1. k \in Ids
          BY <1>3
        <5>2. CASE task[k].fp # "closed" \/ task[k].progress > 0
          BY <5>2 DEF Copying, DownloadFits
        <5>3. CASE k # i /\ ~(task[k].fp # "closed" \/ task[k].progress > 0)
          BY <1>3, <5>1, <5>3
        <5>4. CASE k = i /\ ~(task[k].fp # "closed" \/ task[k].progress > 0)
          <6>1. r.file = <<<<>>>>
            BY <1>2, <1>5, <5>4
          <6>2. file = <<<<>>>>
            BY <1>5, <2>1, <6>1
          <6>3. Size = 0
            BY <6>2 DEF Size
          <6> QED
            BY <1>3, <5>4, <6>3
        <5> QED
          BY <5>2, <5>3, <5>4
      <4>2. \A k \in live : k \in Ids /\ task'[k].progress = task[k].progress
        BY <1>3
      <4> QED
        BY <1>3, <3>1, <4>1, <4>2 DEF DownloadFits
    <3> QED
      BY <1>4, <1>5, <1>d, <3>1, <3>2, DownloadCopying DEF Untouched
  <2>2. CASE file' = <<<<>>>> /\ task[i].fp = "closed" /\ task[i].progress = 0
    <3>1. Size' = 0 /\ Exists' /\ Blocks(0) = <<>>
      BY <2>2 DEF Size, Exists, Blocks
    <3>2. Whole'
      BY <2>2, <3>1, ConstFacts DEF Whole, Blocks, Size
    <3>3. ASSUME NEW k \in live PROVE task'[k].progress = 0
      <4>1. k \in Ids /\ i <= k /\ Ids \subseteq Nat
        BY <1>1, Newest, ConstFacts DEF Begun, Waiting, Ids
      <4>2. CASE k = i
        BY <1>3, <2>2, <4>2
      <4>3. CASE k # i
        <5>1. k > i
          BY <4>1, <4>3
        <5>2. 1 \in DOMAIN queue /\ queue[1] = i
          <6>1. queue # <<>> /\ Head(queue) = i /\ queue \in Seq(Ids)
            BY DEF Start, Popped, ListsShape
          <6> QED
            BY <6>1, Elements
        <5>3. task[k].progress = 0
          BY <1>1, <4>1, <5>1, <5>2 DEF Conversation, Line
        <5> QED
          BY <1>3, <4>1, <4>3, <5>3
      <4> QED
        BY <4>2, <4>3
    <3>4. DownloadFits'
      BY <1>3, <3>1, <3>3 DEF DownloadFits
    <3> QED
      BY <1>4, <1>5, <1>d, <3>1, <3>2, <3>4, DownloadCopying DEF Untouched
  <2>3. CASE task[i].fp = "closed" /\ ~(task[i].progress > 0)
    <3>1. task[i].progress = 0
      BY <1>3, <2>3
    <3>2. r.file = <<<<>>>>
      BY <1>2, <1>5, <2>3
    <3> QED
      BY <1>5, <2>2, <2>3, <3>1, <3>2
  <2>4. \/ task[i].fp # "closed" /\ r.file = file
        \/ task[i].progress > 0 /\ (Exists => r.file = file)
        => file' = file /\ Exists
    BY <1>3, <1>5, <2>0
  <2> QED
    BY <1>2, <1>5, <2>1, <2>3, <2>4
<1>6. CASE UNCHANGED <<file, exec>> /\ task'[i].fp = task[i].fp /\ task'[i].state = "FAILED"
           /\ (Exists \/ asked' \subseteq asked)
  BY <1>1, <1>6, TurnsDownload
<1> QED
  BY <1>1, <1>2, <1>5, <1>6

\* The opening goes to the guard, the file stays.
LEMMA RemoteOpenDownload ==
  ASSUME Shape, Conversation, Copying, Conversation', Downloads, NEW i \in Ids, RemoteOpen(i)
  PROVE  Copying'
<1> USE DEF Shape
<1> DEFINE m == Open(i, task[i].progress, task[i].force)
<1>1. /\ exec = i /\ Send(m) /\ down' = down /\ UNCHANGED <<action, task, live, io, file>>
  BY DEF RemoteOpen
<1>2. m \in Up /\ m.kind = "Open"
  <2>1. m \in Up
    BY Messages DEF TasksShape, TaskRec
  <2> QED
    BY <2>1 DEF Open
<1> HIDE DEF m
<1>3. Sends(m)
  BY <1>1, <1>2, RequestSent
<1>4. Exists
  BY <1>1, ConstFacts DEF Copying, Untouched, Ids
<1>5. Whole' /\ Exists' /\ Downloads' /\ DownloadFits'
  BY <1>1, <1>4 DEF Copying, Whole, Exists, Size, DownloadFits, Downloads
<1>6. OneRead'
  <2>1. \A k : m \notin Token(k) /\ m \notin AtEnd(k) /\ \A s : m \notin Off({"Read", "ReadOk"}, k, s)
    BY <1>2 DEF Token, AtEnd, Off
  <2>2. ASSUME NEW k \in live, Sending(k)
        PROVE  /\ Never(Token(k), Token(k))' /\ (Busy /\ io.id = k => None(Token(k))')
               /\ NoneIn(Off({"Read", "ReadOk"}, k, task[k].progress), down', up')
               /\ task[k].progress < N => None(AtEnd(k))'
    <3>1. /\ Never(Token(k), Token(k)) /\ (Busy /\ io.id = k => None(Token(k)))
          /\ None(Off({"Read", "ReadOk"}, k, task[k].progress))
          /\ task[k].progress < N => None(AtEnd(k))
      BY <2>2 DEF Copying, OneRead
    <3> QED
      BY <1>3, <2>1, <3>1 DEF Sends, None, Never
  <2> QED
    BY <1>1, <2>2 DEF OneRead, None, Busy, Sending
<1> QED
  BY <1>5, <1>6, DownloadCopying DEF Untouched

\* The guard has opened its file: the first block is asked for.
LEMMA OpenSucceededDownload ==
  ASSUME Shape, Conversation, Copying, Conversation', Downloads, torn' = {}, NEW i \in Ids, OpenSucceeded(i)
  PROVE  Copying'
<1> USE DEF Shape
<1>1. /\ NoneIn(Token(i), down', up') /\ i \in live /\ ~None(Opened(i))
  BY OpenedAlone
<1>2. /\ UNCHANGED <<action, live, file>> /\ \A k \in Ids : k # i => task'[k] = task[k]
      /\ task'[i].progress = task[i].progress /\ task'[i].fp = task[i].fp
  <2>1. task' = [task EXCEPT ![i] = [task[i] EXCEPT !.state = "TRANSMITTING"]]
        /\ UNCHANGED <<action, live, file>>
    BY DEF OpenSucceeded, Become
  <2>2. task[i] \in TaskRec
    BY DEF TasksShape
  <2> QED
    BY <2>1, <2>2 DEF TasksShape, TaskRec
<1>3. Exists
  <2>1. ~None(Talk)
    BY <1>1, Parts DEF None
  <2> QED
    BY <2>1 DEF Copying, Untouched
<1>4. live = {i}
  BY <1>1, Newest
<1>5. Whole' /\ Exists' /\ Downloads' /\ DownloadFits'
  BY <1>2, <1>3, <1>4 DEF Copying, Whole, Exists, Size, DownloadFits, Downloads
<1>6. OneRead'
  <2>1. NeverIn(Token(i), Token(i), down', up') /\ NoneIn(AtEnd(i), down', up')
        /\ \A s : NoneIn(Off({"Read", "ReadOk"}, i, s), down', up')
    BY <1>1, NoneNever, Parts
  <2> QED
    BY <1>1, <1>2, <1>4, <2>1 DEF OneRead, None, Never
<1> QED
  BY <1>5, <1>6, DownloadCopying DEF Untouched

\* The block that is asked for is the one that the task's progress names.
LEMMA RequestBlockDownload ==
  ASSUME Shape, Conversation, Copying, Conversation', RequestBlock
  PROVE  Copying'
<1> USE DEF Shape
<1>0. PICK i : i = io.id
  OBVIOUS
<1> DEFINE m == Request("Read", i, task[i].progress)
<1>1. /\ io.do = "request" /\ Send(m) /\ io' = NoIO /\ down' = down
      /\ UNCHANGED <<action, task, live, file>>
  BY <1>0 DEF RequestBlock
<1>2. i \in Ids
  BY <1>0, <1>1 DEF IOShape
<1>3. m \in Up /\ m.id = i /\ m.kind = "Read" /\ m.seek = task[i].progress
  <2>1. task[i].progress \in Nat
    BY <1>2 DEF TasksShape, TaskRec
  <2>2. m \in Up
    BY <1>2, <2>1, Messages
  <2> QED
    BY <2>2 DEF Request
<1> HIDE DEF m
<1>4. Downloads /\ Busy
  BY <1>1 DEF Conversation, Directions, Busy
<1>5. Exists
  BY <1>4 DEF Copying, Untouched
<1>6. Whole' /\ Exists' /\ Downloads' /\ DownloadFits'
  BY <1>1, <1>4, <1>5 DEF Copying, Whole, Exists, Size, DownloadFits, Downloads
<1>7. Sends(m)
  BY <1>1, <1>3, RequestSent
<1>8. OneRead'
  <2>1. ASSUME NEW k \in live, Sending(k)
        PROVE  /\ Never(Token(k), Token(k))'
               /\ NoneIn(Off({"Read", "ReadOk"}, k, task[k].progress), down', up')
               /\ task[k].progress < N => None(AtEnd(k))'
    <3>1. /\ Never(Token(k), Token(k)) /\ (io.id = k => None(Token(k)))
          /\ None(Off({"Read", "ReadOk"}, k, task[k].progress))
          /\ task[k].progress < N => None(AtEnd(k))
      BY <1>4, <2>1 DEF Copying, OneRead
    <3>2. m \notin AtEnd(k) /\ m \notin Off({"Read", "ReadOk"}, k, task[k].progress)
      BY <1>3 DEF AtEnd, Off
    <3>3. m \notin Token(k) \/ None(Token(k))
      BY <1>0, <1>3, <3>1 DEF Token
    <3> QED
      BY <1>7, <3>1, <3>2, <3>3 DEF Sends, None, Never
  <2> QED
    BY <1>1, <2>1 DEF OneRead, None, Busy, NoIO, Sending
<1> QED
  BY <1>6, <1>8, DownloadCopying DEF Untouched

\* The copies that are whole, and the next block.
LEMMA BlocksFacts ==
  ASSUME NEW k \in Nat
  PROVE  Blocks(k) \in Seq(Nat) /\ Len(Blocks(k)) = k /\ Append(Blocks(k), k + 1) = Blocks(k + 1)
<1>1. Blocks(k) \in Seq(Nat) /\ Len(Blocks(k)) = k /\ DOMAIN Blocks(k) = 1..k
      /\ \A n \in 1..k : Blocks(k)[n] = n
  BY DEF Blocks
<1>2. DOMAIN Append(Blocks(k), k + 1) = 1..(k + 1)
      /\ \A n \in 1..k : Append(Blocks(k), k + 1)[n] = n
      /\ Append(Blocks(k), k + 1)[k + 1] = k + 1
  BY <1>1, Elements
<1>3. \A n \in 1..(k + 1) : n \in 1..k \/ n = k + 1
  OBVIOUS
<1>4. \A n \in 1..(k + 1) : Append(Blocks(k), k + 1)[n] = n
  BY <1>2, <1>3
<1>5. Append(Blocks(k), k + 1) \in Seq(Nat)
  BY <1>1
<1>6. Append(Blocks(k), k + 1) = [n \in DOMAIN Append(Blocks(k), k + 1) |-> Append(Blocks(k), k + 1)[n]]
  BY <1>5
<1> QED
  BY <1>1, <1>2, <1>4, <1>6 DEF Blocks

\* A block put behind the last one of the copy makes it one longer, in both modes.
LEMMA PutNext ==
  ASSUME Whole, Exists, NEW mode
  PROVE  Size \in Nat /\ Put(mode, Size) = <<Blocks(Size + 1)>>
<1>1. PICK k \in Nat : k = Size /\ file = <<Blocks(k)>>
  BY ConstFacts DEF Whole
<1>2. file[1] = Blocks(k) /\ Len(Blocks(k)) = k
  BY <1>1, BlocksFacts
<1>3. Append(file[1], k + 1) = Blocks(k + 1)
  BY <1>2, BlocksFacts
<1>4. Padded(Blocks(k), k) = Blocks(k + 1)
  <2>1. Padded(Blocks(k), k) = [i \in 1..(k + 1) |-> IF i = k + 1 THEN k + 1 ELSE IF i <= k THEN Blocks(k)[i] ELSE 0]
    BY <1>2 DEF Padded
  <2>2. \A i \in 1..(k + 1) : (IF i = k + 1 THEN k + 1 ELSE IF i <= k THEN Blocks(k)[i] ELSE 0) = i
    BY DEF Blocks
  <2> QED
    BY <2>1, <2>2 DEF Blocks
<1> QED
  BY <1>1, <1>2, <1>3, <1>4 DEF Put

\* The copy has grown.
LEMMA Grown ==
  ASSUME Whole, Exists, NEW mode, file' = Put(mode, Size), Size < N
  PROVE  Exists' /\ Size' = Size + 1 /\ Whole' /\ Size \in Nat
<1>1. PICK k \in Nat : k = Size
  BY PutNext
<1>2. file' = <<Blocks(k + 1)>>
  BY <1>1, PutNext
<1>3. Len(Blocks(k + 1)) = k + 1
  <2>1. k + 1 \in Nat
    OBVIOUS
  <2> QED
    BY <2>1, BlocksFacts
<1>4. Exists' /\ Size' = k + 1
  BY <1>2, <1>3 DEF Exists, Size
<1>5. k + 1 \in 0..N
  BY <1>1, ConstFacts
<1> QED
  BY <1>1, <1>2, <1>4, <1>5 DEF Whole

\* A block that arrives is the next one of the copy, which it makes longer.
LEMMA BlockArrivedDownload ==
  ASSUME Shape, Conversation, Copying, Conversation', NEW i \in Ids, BlockArrived(i), torn' = {}
  PROVE  Copying' /\ Exists /\ (file' = file \/ (Size < N /\ file' = Put(task[i].fp, Size)))
<1> USE DEF Shape
<1>0. PICK s : s = Head(down).seek
  OBVIOUS
<1>1. /\ Answer("ReadOk", i) /\ Received /\ i \in live /\ Sending(i) /\ UNCHANGED <<action, live, asked>>
  BY DEF BlockArrived, Sending
<1>2. /\ Head(down) \in Down /\ Head(down).kind = "ReadOk" /\ Head(down).id = i
      /\ down # <<>> /\ down' = Tail(down) /\ ~Busy /\ Downloads
      /\ Head(down) \in Token(i) /\ ~None(Token(i))
  BY <1>1, AnswerMeans
<1>3. Exists
  <2>1. ~None(Talk)
    BY <1>2, Parts DEF None
  <2> QED
    BY <1>2, <2>1 DEF Copying, Untouched
<1>4. s = task[i].progress /\ s \in Nat /\ s < N
  <2>1. None(Off({"Read", "ReadOk"}, i, task[i].progress)) /\ None(Odd)
    BY <1>1, <1>2 DEF Copying, OneRead, Conversation, Directions
  <2>2. Head(down) \notin Off({"Read", "ReadOk"}, i, task[i].progress) /\ Head(down) \notin Odd
    BY <1>2, <2>1, FirstAnswer
  <2> QED
    BY <1>0, <1>2, <2>2, ConstFacts DEF Off, Odd, Message, Down
<1>5. live = {i} /\ task[i] \in TaskRec
  BY <1>1, Newest DEF TasksShape
<1>6. ASSUME NEW p, NEW m, task' = [task EXCEPT ![i] = [task[i] EXCEPT !.progress = p, !.fp = m]],
             up' = up, io'.id = i
      PROVE  OneRead' /\ task'[i].progress = p /\ task'[i].fp = m
  <2>1. NoneIn(Token(i), down', up')
    <3>1. Never(Token(i), Token(i))
      BY <1>1, <1>2 DEF Copying, OneRead
    <3> QED
      BY <1>2, <1>6, <3>1, TakeAnswer DEF Never, NetShape
  <2>2. NeverIn(Token(i), Token(i), down', up') /\ NoneIn(AtEnd(i), down', up')
        /\ \A q : NoneIn(Off({"Read", "ReadOk"}, i, q), down', up')
    BY <2>1, NoneNever, Parts
  <2>3. OneRead'
    BY <1>1, <1>5, <2>1, <2>2 DEF OneRead, None, Never
  <2>4. task'[i].progress = p /\ task'[i].fp = m
    BY <1>5, <1>6 DEF TasksShape, TaskRec
  <2> QED
    BY <2>3, <2>4
<1>7. Downloads'
  BY <1>1, <1>2 DEF Downloads
<1>8. CASE /\ file' = Put(task[i].fp, s) /\ task' = [task EXCEPT ![i] = [task[i] EXCEPT !.progress = s + 1]]
           /\ io'.id = i /\ up' = up /\ task[i].fp # "closed"
  <2>1. [task[i] EXCEPT !.progress = s + 1] = [task[i] EXCEPT !.progress = s + 1, !.fp = task[i].fp]
    BY <1>5 DEF TaskRec
  <2>2. OneRead' /\ task'[i].progress = s + 1
    BY <1>6, <1>8, <2>1
  <2>3. Size = s
    BY <1>1, <1>2, <1>4, <1>8 DEF Copying, DownloadFits
  <2>4. Exists' /\ Size' = s + 1 /\ Whole'
    BY <1>3, <1>4, <1>8, <2>3, Grown DEF Copying
  <2>5. DownloadFits'
    BY <1>1, <1>5, <2>2, <2>4 DEF DownloadFits
  <2> QED
    BY <1>3, <1>4, <1>7, <1>8, <2>2, <2>3, <2>4, <2>5, DownloadCopying DEF Untouched
<1>9. CASE /\ file' = file /\ task' = [task EXCEPT ![i] = [task[i] EXCEPT !.progress = s, !.fp = "closed"]]
           /\ io'.id = i /\ up' = up
  <2>1. OneRead' /\ task'[i].progress = s /\ task'[i].fp = "closed"
    BY <1>6, <1>9
  <2>2. Exists' /\ Whole' /\ Size' = Size
    BY <1>3, <1>9 DEF Exists, Copying, Whole, Size
  <2>3. DownloadFits'
    BY <1>1, <1>2, <1>4, <1>5, <2>1, <2>2 DEF Copying, DownloadFits
  <2> QED
    BY <1>3, <1>7, <1>9, <2>1, <2>2, <2>3, DownloadCopying DEF Untouched
<1>10. CASE /\ file' = file /\ io' = io /\ Send(Close(i))
            /\ task' = [task EXCEPT ![i] = [task[i] EXCEPT !.state = "FAILED"]]
  <2>1. [task[i] EXCEPT !.state = "FAILED"] \in TaskRec
        /\ [task[i] EXCEPT !.state = "FAILED"].progress = task[i].progress
        /\ [task[i] EXCEPT !.state = "FAILED"].fp = task[i].fp
    BY <1>5 DEF TaskRec, States
  <2>2. DownloadLeft
    BY <1>1, <1>10, <2>1, BlocksRoutine, TaskLeftDownload
  <2> QED
    BY <1>2, <1>3, <1>10, <2>2, DownloadLeftCopying
<1> QED
  BY <1>0, <1>8, <1>9, <1>10 DEF BlockArrived, Progressed, Become, Later

\* A viewer that starts again closes the file and keeps what it holds.
LEMMA RestartDownload ==
  ASSUME Shape, Conversation, Copying, Conversation', Downloads, torn' = {}, RestartViewer
  PROVE  Copying'
<1> USE DEF Shape
<1>1. /\ Calm /\ UNCHANGED <<action, file, live>> /\ io' = NoIO /\ exec' = 0 /\ asked' = {}
      /\ \A i \in Ids :
           /\ task'[i].fp = "closed" /\ ~task'[i].force
           /\ task'[i].state \in {"none", "STOPED", "FINISHED", "FAILED"}
           /\ i \in live => task'[i].progress = task[i].progress
           /\ i \notin live => task'[i].progress = 0
  BY Restarted
<1>2. Whole' /\ Downloads' /\ Exists' = Exists /\ Size' = Size
  BY <1>1 DEF Copying, Whole, Exists, Size, Downloads
<1>3. DownloadFits'
  BY <1>1, <1>2 DEF Copying, DownloadFits, ListsShape
<1>4. OneRead'
  BY <1>1 DEF OneRead, Sending, ListsShape
<1>5. Untouched'
  <2>1. CASE Exists
    BY <1>2, <2>1 DEF Untouched
  <2>2. CASE ~Exists
    <3>1. NoneIn(Talk, down', up')
      BY <1>1, <2>2, LastingSets DEF Copying, Untouched, Calm, None
    <3>2. NoneIn(Late, down', up')
      BY <3>1, Parts
    <3>3. \A i \in Ids : task'[i].progress = 0
      BY <1>1, <2>2 DEF Copying, Untouched
    <3> QED
      BY <1>1, <3>1, <3>2, <3>3 DEF Untouched, Busy, NoIO, None, Sending
  <2> QED
    BY <2>1, <2>2
<1> QED
  BY <1>2, <1>3, <1>4, <1>5, DownloadCopying

\* What the user asks for keeps the copy of a download.
LEMMA UserDownload ==
  ASSUME Shape, Conversation, Copying, Conversation', Downloads, torn' = {}, User
  PROVE  Copying'
<1>1. CASE AddTask
  <2>1. PICK j \in Ids : Joins(j, 0, queue) /\ ~task'[j].force
    BY <1>1, AddTaskJoins
  <2> QED
    BY <1>1, <2>1, JoinsDownload DEF AddTask
<1>2. ASSUME NEW i \in Ids, Overwrite(i)
      PROVE  Copying'
  <2>1. CASE UNCHANGED <<task, live, queue, row>>
    BY <1>2, <2>1, UserLeavesDownload, DownloadLeftCopying
  <2>2. ASSUME NEW j \in Ids, NEW q \in Seq(Ids), i \in live, Joins(j, task[i].progress, q)
        PROVE  Copying'
    <3>1. i \in asked /\ file' = file
      BY <1>2 DEF Overwrite
    <3>2. Exists
      BY <3>1 DEF Copying, Untouched
    <3>3. task[i].progress > 0 => Size = task[i].progress
      BY <2>2 DEF Copying, DownloadFits
    <3>4. task[i].progress \in Nat
      BY DEF Shape, TasksShape, TaskRec
    <3> QED
      BY <2>2, <3>1, <3>2, <3>3, <3>4, JoinsDownload
  <2> QED
    BY <1>2, <2>1, <2>2, OverwriteJoins
<1>3. ASSUME NEW i \in Ids, RemoveTask(i) \/ StopTask(i)
      PROVE  Copying'
  BY <1>3, UserLeavesDownload, DownloadLeftCopying
<1>4. ASSUME NEW i \in Ids, ResumeTask(i)
      PROVE  Copying'
  BY <1>4, ResumeTurns, TurnsDownload
<1> QED
  BY <1>1, <1>2, <1>3, <1>4 DEF User

\* Every step keeps the copy of a download.
LEMMA DownloadStep ==
  ASSUME Shape, Conversation, Copying, Conversation', Downloads, torn' = {}, [Next]_vars
  PROVE  Copying'
<1>1. CASE Exec
  <2>1. ASSUME NEW i \in Ids, Watch(i) \/ TimeOut(i) \/ Drop(i) PROVE Copying'
    BY <2>1, UserLeavesDownload, DownloadLeftCopying
  <2> QED
    BY <1>1, <2>1, StartDownload, RemoteOpenDownload DEF Exec
<1>2. CASE Answers
  <2>1. ASSUME NEW i \in Ids, OpenFailed(i) \/ TransferFailed(i) PROVE Copying'
    BY <2>1, FailuresLeaveDownload, DownloadLeftCopying
  <2>2. Unwanted => Copying'
    BY OthersLeaveDownload, DownloadLeftCopying
  <2>3. ASSUME NEW i \in Ids, BlockTaken(i) PROVE Copying'
    BY <2>3, AnswerMeans DEF BlockTaken
  <2>4. ReadBlock \/ WriteBlock => Copying'
    BY DEF ReadBlock, WriteBlock, Conversation, Directions
  <2> QED
    BY <1>2, <2>1, <2>2, <2>3, <2>4, OpenSucceededDownload, BlockArrivedDownload, RequestBlockDownload DEF Answers
<1>3. CASE Handlers
  BY <1>3, HandlersLeaveDownload, DownloadLeftCopying DEF Handlers
<1>4. CASE GuardExec
  BY <1>4, OthersLeaveDownload, DownloadLeftCopying
<1>5. CASE Environment
  BY <1>5, OthersLeaveDownload, DownloadLeftCopying, RestartDownload DEF Environment
<1>6. CASE UNCHANGED vars
  <2>1. Fewer /\ Calm /\ UNCHANGED <<viewer, action, file>>
    BY <1>6, ChannelUnchanged DEF vars, net
  <2>2. Routine
    BY <2>1, FewerOdd, ViewerUnchanged
  <2> QED
    BY <2>1, <2>2, FewerAtEnd, GuardLeavesDownload, DownloadLeftCopying
<1> QED
  BY <1>1, <1>2, <1>3, <1>4, <1>5, <1>6, UserDownload DEF Next
-----------------------------------------------------------------------------
(* The copy of an upload. *)

\* An opening that empties the copy is one of some task.
LEMMA NoForced ==
  ASSUME NetShape, \A k \in Ids : None(Forcing(k))
  PROVE  None(Forced)
<1>1. ASSUME NEW n \in DOMAIN down PROVE down[n] \notin Forced
  <2>1. down[n] \in Down
    BY Elements DEF NetShape
  <2> QED
    BY <2>1 DEF Forced, Down
<1>2. ASSUME NEW n \in DOMAIN up, up[n] \in Forced PROVE FALSE
  <2>1. up[n] \in Up
    BY Elements DEF NetShape
  <2>2. up[n].id \in Ids /\ up[n] \in Forcing(up[n].id)
    BY <1>2, <2>1 DEF Forced, Forcing, Up
  <2> QED
    BY <2>2 DEF None, NoneIn
<1> QED
  BY <1>1, <1>2 DEF None, NoneIn

\* While a block is to be read for a task that transmits, no opening is on its way that could
\* empty the copy, and no answer to an opening of a task of now.
LEMMA ReadingAlone ==
  ASSUME Shape, Conversation, Copying, ~Downloads, Busy, Sending(io.id)
  PROVE  None(Forced) /\ \A i \in Ids : None(Opened(i))
<1>1. io.id \in Ids /\ Ids \subseteq Nat
  BY DEF Shape, IOShape, Busy, Ids
<1>2. ASSUME NEW k \in Ids, ~None(Forcing(k)) \/ ~None(Opened(k)) PROVE FALSE
  <2>1. ~None(Opening(k))
    BY <1>2, Parts DEF None
  <2>2. io.id >= k
    BY <1>2 DEF Copying, HandsOff
  <2> QED
    BY <1>1, <2>1, <2>2 DEF Conversation, NoneSends
<1> QED
  BY <1>2, NoForced DEF Shape

\* What a step that leaves an upload alone says of tasks and messages.
LEMMA UploadLeftTasks ==
  ASSUME Shape, Conversation, UploadLeft
  PROVE  /\ file' = file /\ live' \subseteq live /\ live \subseteq Ids
         /\ \A i \in Ids : /\ task'[i].force = task[i].force /\ (Sending(i)' => Sending(i))
                           /\ ~Sending(i) => task'[i].progress = task[i].progress
         /\ \A P : Lasting(P) /\ None(P) => NoneIn(P, down', up')
         /\ None(Sent)' <=> None(Sent)
<1>1. Routine /\ Calm
  BY DEF UploadLeft, Routine
<1> QED
  BY <1>1, LastingSets DEF UploadLeft, Routine, Moves, Active, Sending, Calm, None, SentStays, Shape, ListsShape

\* It leaves a copy that is not there yet, and one that is.
LEMMA UploadLeftUntouched ==
  ASSUME Shape, Conversation, Copying, ~Downloads, UploadLeft
  PROVE  Whole' /\ Untouched'
<1>0. ~Downloads' /\ GoesOn
  BY DEF UploadLeft, Routine, Downloads
<1>1. /\ file' = file
      /\ \A i \in Ids : /\ task'[i].force = task[i].force /\ (Sending(i)' => Sending(i))
                        /\ ~Sending(i) => task'[i].progress = task[i].progress
      /\ \A P : Lasting(P) /\ None(P) => NoneIn(P, down', up')
  BY UploadLeftTasks
<1>2. Whole'
  BY <1>1 DEF Copying, Whole, Exists, Size
<1>3. Untouched'
  <2> SUFFICES ASSUME ~Exists' PROVE
        /\ ~Busy' /\ asked' = {}
        /\ \A i \in Ids : task'[i].progress = 0 /\ ~task'[i].force /\ ~Sending(i)'
        /\ NoneIn(Late, down', up')
    BY <1>0 DEF Untouched, None
  <2>1. ~Exists
    BY <1>1 DEF Exists
  <2>2. /\ ~Busy /\ asked = {} /\ None(Late)
        /\ \A i \in Ids : task[i].progress = 0 /\ ~task[i].force /\ ~Sending(i)
    BY <2>1 DEF Copying, Untouched
  <2>3. NoneIn(Late, down', up') /\ asked' = {}
    BY <2>1, <2>2 DEF UploadLeft
  <2>4. \A i : None(Token(i))
    BY <2>2, Parts DEF None
  <2>5. ~Busy'
    BY <1>0, <2>2, <2>4 DEF GoesOn, Busy
  <2> QED
    BY <1>1, <2>2, <2>3, <2>5
<1> QED
  BY <1>2, <1>3

\* It lets no older task at the thread of the answers, and sends no block.
LEMMA UploadLeftHands ==
  ASSUME Shape, Conversation, Copying, ~Downloads, UploadLeft
  PROVE  HandsOff' /\ Questioned' /\ SentFirst' /\ OpenFits'
<1> USE DEF Shape
<1>0. ~Downloads' /\ GoesOn /\ Calm
  BY DEF UploadLeft, Routine, Downloads
<1>1. /\ file' = file /\ live' \subseteq live /\ live \subseteq Ids
      /\ \A i \in Ids : /\ task'[i].force = task[i].force /\ (Sending(i)' => Sending(i))
                        /\ ~Sending(i) => task'[i].progress = task[i].progress
      /\ \A P : Lasting(P) /\ None(P) => NoneIn(P, down', up')
      /\ None(Sent)' <=> None(Sent)
  BY UploadLeftTasks
<1>2. HandsOff'
  <2>1. ASSUME NEW i \in Ids
        PROVE  \/ /\ ~task'[i].force /\ task'[i].progress = 0 /\ ~Sending(i)'
                  /\ NoneIn(Forcing(i), down', up') /\ NoneIn(Opened(i), down', up')
               \/ Busy' => io'.id >= i
    <3>1. CASE ~task[i].force /\ task[i].progress = 0 /\ ~Sending(i) /\ None(Forcing(i)) /\ None(Opened(i))
      BY <1>1, <3>1, LastingSets DEF UploadLeft
    <3>2. CASE Busy => io.id >= i
      <4>1. ASSUME io'.id \in live, ~(io'.id >= i), Busy' PROVE ~Begun(i)
        BY <4>1, Newest DEF Ids
      <4>2. CASE ~Begun(i)
        <5>1. task[i] = NoTask /\ None(About(i))
          BY <4>2 DEF Conversation, NotBegun, Idle
        <5>2. ~task[i].force /\ task[i].progress = 0 /\ ~Sending(i)
          BY <5>1 DEF NoTask, Sending
        <5>3. None(Forcing(i)) /\ None(Opened(i))
          BY <5>1, Parts DEF None
        <5> QED
          BY <3>1, <5>2, <5>3
      <4> QED
        BY <1>0, <3>2, <4>1, <4>2 DEF GoesOn, Busy
    <3> QED
      BY <3>1, <3>2 DEF Copying, HandsOff
  <2> QED
    BY <2>1 DEF HandsOff, None
<1>3. Questioned'
  <2>1. ASSUME NEW i \in asked' \cap live' PROVE ~Busy' /\ NoneIn(Token(i), down', up')
    <3>1. CASE i \in asked
      <4>1. ~Busy /\ None(Token(i)) /\ live = {i}
        BY <1>1, <2>1, <3>1, Newest DEF Copying, Questioned
      <4>2. ~Busy'
        BY <1>0, <4>1 DEF GoesOn, Busy
      <4> QED
        BY <1>1, <4>1, <4>2, LastingSets
    <3>2. CASE i \notin asked
      BY <2>1, <3>2 DEF UploadLeft, Busy
    <3> QED
      BY <3>1, <3>2
  <2> QED
    BY <2>1 DEF Questioned, None
<1>4. SentFirst'
  <2>1. Never(Forced, Sent)'
    BY <1>0, LastingSets DEF Copying, SentFirst, Calm, Never
  <2>2. ASSUME io'.do = "write" PROVE None(Forced)
    <3>1. CASE io' = io
      BY <2>2, <3>1 DEF Copying, SentFirst
    <3>2. CASE io.do = "block" /\ Sending(io.id)
      BY <3>2, ReadingAlone DEF Busy
    <3> QED
      BY <1>0, <2>2, <3>1, <3>2 DEF GoesOn
  <2> QED
    BY <1>1, <2>1, <2>2, LastingSets DEF SentFirst, None
<1>5. OpenFits'
  <2>1. ASSUME NEW i \in live', ~NoneIn(Opened(i), down', up')
        PROVE  Exists' /\ Size' = task'[i].progress /\ None(Sent)' /\ io'.do # "write"
    <3>1. i \in live /\ i \in Ids /\ ~None(Opened(i))
      BY <1>1, <2>1 DEF UploadLeft
    <3>2. Exists /\ Size = task[i].progress /\ None(Sent) /\ io.do # "write"
      BY <3>1 DEF Copying, OpenFits
    <3>3. ~Sending(i)
      <4>1. ~None(Opening(i)) /\ i >= i
        BY <3>1, Parts DEF None, Ids
      <4> QED
        BY <3>1, <4>1 DEF Conversation, NoneSends
    <3>4. io'.do # "write"
      BY <1>0, <3>1, <3>2, ReadingAlone DEF GoesOn, Busy
    <3> QED
      BY <1>1, <3>1, <3>2, <3>3, <3>4 DEF Exists, Size
  <2> QED
    BY <2>1 DEF OpenFits, None
<1> QED
  BY <1>2, <1>3, <1>4, <1>5

\* It keeps the one block that may be on its way, and its answer.
LEMMA UploadLeftBlock ==
  ASSUME Shape, Conversation, Copying, ~Downloads, UploadLeft, io'.do = "block" => io' = io
  PROVE  OneBlock' /\ OneAnswer'
<1> USE DEF Shape
<1>0. ~Downloads' /\ GoesOn /\ Calm
  BY DEF UploadLeft, Routine, Downloads
<1>1. /\ file' = file /\ live' \subseteq live /\ live \subseteq Ids
      /\ \A i \in Ids : Sending(i)' => Sending(i)
      /\ \A P : Lasting(P) /\ None(P) => NoneIn(P, down', up')
      /\ None(Sent)' <=> None(Sent)
  BY UploadLeftTasks
<1>2. io'.do # "none" => \/ io' = io
                         \/ io.do = "block" /\ io'.do = "write" /\ Sending(io.id) /\ io'.seek = io.seek /\ io.seek < N
  BY <1>0 DEF GoesOn
<1>3. io'.do = "block" /\ Sending(io.id)' => io' = io /\ Sending(io.id)
  <2>1. io.do = "block" => io.id \in Ids
    BY DEF IOShape
  <2> QED
    BY <1>1, <2>1
<1>4. OneBlock'
  <2>0. OneBlock
    BY DEF Copying
  <2>1. Never(Sent, Sent)' /\ NoneIn(OffSent(Size), down', up')
    BY <1>0, <1>1, <2>0, LastingSets DEF OneBlock, Calm, Never
  <2>2. ~None(Sent)' => io'.do # "write" /\ ~(io'.do = "block" /\ Sending(io.id)') /\ Size < N
    BY <1>1, <1>2, <1>3, <2>0 DEF OneBlock
  <2>3. io'.do = "write" => io'.seek = Size /\ Size < N
    BY <1>2, <2>0 DEF OneBlock
  <2>4. io'.do = "block" /\ Sending(io.id)' => io'.seek = Size
    BY <1>3, <2>0 DEF OneBlock
  <2>5. Size' = Size
    BY <1>1 DEF Size
  <2> QED
    BY <2>1, <2>2, <2>3, <2>4, <2>5 DEF OneBlock, None
<1>5. OneAnswer'
  <2>1. ASSUME NEW i \in live', Sending(i)'
        PROVE  /\ Never(Flow(i), Flow(i))' /\ (Busy' => None(Flow(i))')
               /\ NoneIn(Off({"WriteOk"}, i, Size), down', up')
    <3>1. i \in live /\ Sending(i)
      BY <1>1, <2>1
    <3>2. Never(Flow(i), Flow(i)) /\ (Busy => None(Flow(i))) /\ None(Off({"WriteOk"}, i, Size))
      BY <3>1 DEF Copying, OneAnswer
    <3>3. Busy' => Busy
      BY <1>2 DEF Busy
    <3>4. Never(Flow(i), Flow(i))' /\ (None(Flow(i)) => None(Flow(i))')
      BY <1>0, <1>1, <3>2, LastingSets DEF Calm, Never, None
    <3>5. NoneIn(Off({"WriteOk"}, i, Size), down', up')
      BY <3>2 DEF UploadLeft
    <3> QED
      BY <3>2, <3>3, <3>4, <3>5
  <2>2. Size' = Size
    BY <1>1 DEF Size
  <2> QED
    BY <2>1, <2>2 DEF OneAnswer, None
<1> QED
  BY <1>4, <1>5

\* It keeps the copy as long as the progress says.
LEMMA UploadFitsStays ==
  ASSUME Shape, Conversation, Copying, ~Downloads, UploadLeft,
         \A i \in Ids : task'[i].progress = task[i].progress, io'.do = "write" <=> io.do = "write"
  PROVE  UploadFits'
<1>1. /\ file' = file /\ live' \subseteq live /\ live \subseteq Ids
      /\ \A i \in Ids : Sending(i)' => Sending(i)
      /\ None(Sent)' <=> None(Sent)
  BY UploadLeftTasks
<1>2. Pend' = Pend /\ Size' = Size /\ Exists' = Exists
  BY <1>1 DEF Pend, Size, Exists
<1> QED
  BY <1>1, <1>2 DEF Copying, UploadFits

\* What the invariant says of downloads does not matter.
LEMMA UploadCopying ==
  ASSUME ~Downloads', Whole', Untouched', HandsOff', Questioned', SentFirst', OneBlock',
         OpenFits', UploadFits', OneAnswer'
  PROVE  Copying'
BY DEF Copying, DownloadFits, OneRead

\* It keeps the copy of an upload.
LEMMA UploadLeftCopying ==
  ASSUME Shape, Conversation, Copying, ~Downloads, UploadLeft, io'.do = "block" => io' = io,
         \A i \in Ids : task'[i].progress = task[i].progress, io'.do = "write" <=> io.do = "write"
  PROVE  Copying'
<1>1. ~Downloads'
  BY DEF UploadLeft, Routine, Downloads
<1> QED
  BY <1>1, UploadLeftUntouched, UploadLeftHands, UploadLeftBlock, UploadFitsStays, UploadCopying

\* Which steps leave an upload so much.
LEMMA FewerLeavesUpload ==
  ASSUME Shape, Routine, Fewer, SentStays, UNCHANGED file, asked' \subseteq asked
  PROVE  UploadLeft
BY QuietSets DEF UploadLeft, Fewer, None

\* The user and exec leave an upload where they stop, drop or watch a task.
LEMMA UserUpload ==
  ASSUME Shape, Conversation, Copying, ~Downloads, NEW i \in Ids,
         \/ RemoveTask(i) \/ StopTask(i) \/ Watch(i) \/ TimeOut(i) \/ Drop(i)
         \/ Overwrite(i) /\ UNCHANGED <<task, live, queue, row>>
  PROVE  Copying'
<1> USE DEF Shape
<1>t. task[i] \in TaskRec
  BY DEF TasksShape
<1>p. ASSUME NEW s, task' = [task EXCEPT ![i] = [task[i] EXCEPT !.state = s]]
      PROVE  \A k \in Ids : task'[k].progress = task[k].progress
  BY <1>t, <1>p DEF TaskRec, TasksShape
<1>1. CASE RemoveTask(i) \/ Watch(i) \/ Drop(i)
  <2>1. Routine /\ UNCHANGED <<file, task, io, asked, up, down>>
    BY <1>1, UserRoutine, ExecRoutine DEF RemoveTask, Watch, Drop, net
  <2> QED
    BY <2>1, ChannelUnchanged, FewerLeavesUpload, UploadLeftCopying
<1>2. CASE StopTask(i)
  <2>1. /\ task' = [task EXCEPT ![i] = [task[i] EXCEPT !.state = "STOPED"]]
        /\ UNCHANGED <<file, asked, io>> /\ Routine
    BY <1>2, UserRoutine DEF StopTask, Become
  <2>2. Fewer /\ SentStays
    BY <1>2, CloseSent DEF StopTask
  <2> QED
    BY <1>p, <2>1, <2>2, FewerLeavesUpload, UploadLeftCopying
<1>4. CASE TimeOut(i)
  <2>1. /\ task' = [task EXCEPT ![i] = [task[i] EXCEPT !.state = "STOPED"]]
        /\ UNCHANGED <<file, asked, io, up, down>> /\ Routine
    BY <1>4, ExecRoutine DEF TimeOut, Become, net
  <2> QED
    BY <1>p, <2>1, ChannelUnchanged, FewerLeavesUpload, UploadLeftCopying
<1>5. CASE Overwrite(i) /\ UNCHANGED <<task, live, queue, row>>
  <2>1. UNCHANGED <<action, task, live, queue, exec, io, row, net, file>> /\ asked' \subseteq asked
    BY <1>5 DEF Overwrite
  <2>2. UNCHANGED <<up, down>>
    BY <2>1 DEF net
  <2> QED
    BY <2>1, <2>2, DeclinedRoutine, ChannelUnchanged, FewerLeavesUpload, UploadLeftCopying
<1> QED
  BY <1>1, <1>2, <1>4, <1>5

\* An answer that says that a block could not be written ends the task, and leaves the copy.
LEMMA TransferFailedUpload ==
  ASSUME Shape, Conversation, Copying, ~Downloads, NEW i \in Ids, TransferFailed(i)
  PROVE  Copying'
<1> USE DEF Shape
<1> DEFINE s == IF Head(down).err = "eof" THEN "FINISHED" ELSE "FAILED"
<1>1. /\ task' = [task EXCEPT ![i] = [task[i] EXCEPT !.fp = "closed", !.state = s]]
      /\ UNCHANGED <<file, io, asked>> /\ Send(Close(i)) /\ Received
      /\ (Answer("ReadErr", i) \/ Answer("WriteErr", i))
  BY DEF TransferFailed, Become
<1> HIDE DEF s
<1>2. down # <<>> /\ down' = Tail(down)
  BY <1>1, AnswerMeans
<1>3. Fewer /\ SentStays
  BY <1>1, <1>2, AnswerLeavesCloseSent
<1>4. \A k \in Ids : task'[k].progress = task[k].progress
  BY <1>1 DEF TasksShape, TaskRec
<1> QED
  BY <1>1, <1>3, <1>4, FailuresRoutine, FewerLeavesUpload, UploadLeftCopying

\* An opening that has failed leaves the copy; the user is asked only when it exists.
LEMMA OpenFailedUpload ==
  ASSUME Shape, Conversation, Copying, ~Downloads, NEW i \in Ids, OpenFailed(i)
  PROVE  Copying'
<1> USE DEF Shape
<1>1. /\ task' = [task EXCEPT ![i] = [task[i] EXCEPT !.state = "FAILED"]]
      /\ UNCHANGED <<file, io, up>> /\ Received /\ Answer("OpenErr", i)
      /\ asked' = IF Head(down).err = "exists" /\ online THEN asked \cup {i} ELSE asked
  BY DEF OpenFailed, Become, Asking
<1>2. /\ down # <<>> /\ down' = Tail(down) /\ ~Busy /\ Head(down) \in Opening(i) /\ Head(down) \in Down
      /\ Head(down).kind = "OpenErr"
  BY <1>1, AnswerMeans
<1>3. Fewer /\ SentStays
  BY <1>1, <1>2, AnswerLeaves
<1>4. \A k \in Ids : task'[k].progress = task[k].progress
  BY <1>1 DEF TasksShape, TaskRec
<1>5. ASSUME Head(down).err = "exists" PROVE Exists
  <2>1. Head(down) \in Late
    BY <1>2, <1>5 DEF Late, Talk, Early, Message
  <2>2. ~None(Late)
    BY <1>2, <2>1, FirstAnswer
  <2> QED
    BY <2>2 DEF Copying, Untouched
<1>6. NoneIn(Token(i), down', up')
  <2>1. Never(Opening(i), Token(i))
    BY DEF Conversation, OpeningLast
  <2> QED
    BY <1>1, <1>2, <2>1, TakeAnswer DEF Never, NetShape
<1>7. UploadLeft
  <2>1. \A k \in asked' : k \in asked \/ (Exists /\ io'.do = "none" /\ NoneIn(Token(k), down', up'))
    BY <1>1, <1>2, <1>5, <1>6 DEF Busy
  <2> QED
    BY <1>1, <1>3, <2>1, FailuresRoutine, QuietSets DEF UploadLeft, Fewer, None
<1> QED
  BY <1>1, <1>4, <1>7, UploadLeftCopying

\* The guard itself, the connection and an answer that nobody wants leave it.
LEMMA OthersUpload ==
  ASSUME Shape, Conversation, Copying, ~Downloads, torn' = {},
         GuardExec \/ LoseConnection \/ Reconnect \/ Unroutable \/ RestartGuard \/ Unwanted
  PROVE  Copying'
<1>1. Routine /\ Fewer /\ SentStays /\ UNCHANGED <<file, task, io, asked>>
  BY OthersRoutine DEF viewer
<1> QED
  BY <1>1, FewerLeavesUpload, UploadLeftCopying

\* The parts of OneBlock and OneAnswer when no block is on its way.
LEMMA NothingSent ==
  ASSUME NoneIn(Sent, down', up'), io'.do # "write",
         io'.do = "block" /\ Sending(io.id)' => io'.seek = Size'
  PROVE  OneBlock'
<1>1. NeverIn(Sent, Sent, down', up') /\ \A s : NoneIn(OffSent(s), down', up')
  BY NoneNever, Parts
<1>2. NoneIn(OffSent(Size'), down', up')
  BY <1>1
<1> QED
  BY <1>1, <1>2 DEF OneBlock, None, Never

\* Without a block or its answer in the channel no task has two of them.
LEMMA NothingFlows ==
  ASSUME \A k \in live' : Sending(k)' => NoneIn(Flow(k), down', up')
  PROVE  OneAnswer'
<1>1. ASSUME NEW k \in live', Sending(k)'
      PROVE  /\ NeverIn(Flow(k), Flow(k), down', up') /\ NoneIn(Flow(k), down', up')
             /\ NoneIn(Off({"WriteOk"}, k, Size'), down', up')
  BY <1>1, NoneNever, Parts
<1> QED
  BY <1>1 DEF OneAnswer, None, Never

\* The answer to a block is the only one, and the next block is read for the position behind it.
LEMMA BlockTakenUpload ==
  ASSUME Shape, Conversation, Copying, NEW i \in Ids, BlockTaken(i)
  PROVE  Copying'
<1> USE DEF Shape
<1>0. PICK s : s = Head(down).seek
  OBVIOUS
<1>1. /\ UNCHANGED <<file, live, asked, row>> /\ up' = up /\ i \in live
      /\ Answer("WriteOk", i) /\ Received /\ io'.do = "block" /\ io'.id = i /\ io'.seek = s
      /\ task' = [task EXCEPT ![i] = task[i]]
  BY <1>0 DEF BlockTaken, Later, Progressed
<1>2. task' = task
  BY <1>1 DEF TasksShape
<1>3. /\ down # <<>> /\ down' = Tail(down) /\ ~Busy /\ ~Downloads
      /\ Head(down) \in Down /\ Head(down).kind = "WriteOk" /\ Head(down).id = i
  BY <1>1, AnswerMeans
<1>4. Fewer /\ SentStays
  BY <1>1, <1>3, AnswerLeaves
<1>5. UploadLeft /\ ~Downloads'
  <2>1. UploadLeft
    BY <1>1, <1>4, BlocksRoutine, FewerLeavesUpload
  <2> QED
    BY <1>3, <2>1 DEF UploadLeft, Routine, Downloads
<1>6. UploadFits'
  BY <1>1, <1>2, <1>3, <1>5, UploadFitsStays DEF Busy
<1>7. live' = {i} /\ live = {i}
  BY <1>1, Newest
<1>8. ASSUME Sending(i) PROVE NoneIn(Flow(i), down', up') /\ s = Size
  <2>1. Never(Flow(i), Flow(i)) /\ None(Off({"WriteOk"}, i, Size))
    BY <1>1, <1>3, <1>8 DEF Copying, OneAnswer
  <2>2. Head(down) \in Flow(i)
    BY <1>3 DEF Flow, Message
  <2>3. Head(down) \notin Off({"WriteOk"}, i, Size)
    BY <1>3, <2>1, FirstAnswer
  <2>4. s = Size
    BY <1>0, <1>3, <2>3 DEF Off, Message
  <2> QED
    BY <1>1, <1>3, <2>1, <2>2, <2>4, TakeAnswer DEF Never, NetShape
<1>9. OneAnswer'
  BY <1>2, <1>7, <1>8, NothingFlows DEF Sending
<1>10. Size' = Size
  BY <1>1 DEF Size
<1>11. OneBlock'
  <2>1. CASE Sending(i)
    <3>1. NoneIn(Sent, down', up')
      BY <1>8, <2>1, Parts
    <3> QED
      BY <1>1, <1>8, <1>10, <2>1, <3>1, NothingSent
  <2>2. CASE ~Sending(i)
    <3>1. Never(Sent, Sent)' /\ (None(OffSent(Size)) => NoneIn(OffSent(Size), down', up'))
      BY <1>4, QuietSets, LastingSets DEF Copying, OneBlock, Fewer, Never, None
    <3>2. ~Sending(io.id)'
      BY <1>1, <1>2, <2>2 DEF Sending
    <3>3. ~None(Sent)' => Size < N
      BY <1>4, QuietSets, LastingSets DEF Copying, OneBlock, Fewer, None
    <3> QED
      BY <1>1, <1>10, <3>1, <3>2, <3>3 DEF Copying, OneBlock, None
  <2> QED
    BY <2>1, <2>2
<1> QED
  BY <1>3, <1>5, <1>6, <1>9, <1>11, UploadLeftUntouched, UploadLeftHands, UploadCopying

\* A block is read: it is the next one, and none is on its way.
LEMMA ReadBlockUpload ==
  ASSUME Shape, Conversation, Copying, ReadBlock
  PROVE  Copying'
<1> USE DEF Shape
<1>0. PICK i : i = io.id
  OBVIOUS
<1>1. /\ i \in Ids /\ io.do = "block" /\ Busy /\ UNCHANGED <<file, live, asked, down>> /\ ~Downloads
      /\ task[i] \in TaskRec
  BY <1>0 DEF ReadBlock, IOShape, Busy, Conversation, Directions, TasksShape
<1>2. Routine /\ Fewer /\ SentStays
  BY ReadBlockRoutine
<1>3. UploadLeft /\ ~Downloads'
  <2>1. UploadLeft
    BY <1>1, <1>2, FewerLeavesUpload
  <2> QED
    BY <1>1, <2>1 DEF UploadLeft, Routine, Downloads
<1>4. Sending(i) => None(Sent) /\ io.seek = Size
  BY <1>0, <1>1 DEF Copying, OneBlock
\* Task i is the task of now if one of now has come so far.
<1>5. ASSUME NEW k \in live, task[k].progress > 0 \/ Sending(k), Sending(i) PROVE k = i
  <2>1. i >= k
    BY <1>0, <1>1, <1>5, ConstFacts DEF Copying, HandsOff, ListsShape
  <2>2. k \in Ids /\ i <= k /\ Ids \subseteq Nat
    BY <1>1, <1>5, Newest DEF Begun, Sending, Ids
  <2> QED
    BY <1>1, <2>1, <2>2
<1>6. CASE task' = task /\ io' = NoIO
  BY <1>1, <1>3, <1>6, UploadLeftCopying DEF NoIO
<1>7. CASE /\ Sending(i) /\ task' = [task EXCEPT ![i] = [task[i] EXCEPT !.progress = io.seek + 1]]
           /\ io' = [io EXCEPT !.do = "write"]
  <2>1. task'[i].progress = io.seek + 1 /\ \A k \in Ids : k # i => task'[k] = task[k]
    BY <1>1, <1>7 DEF TasksShape, TaskRec
  <2>2. io'.do = "write"
    BY <1>7 DEF IOShape
  <2>3. Size' = Size /\ Exists' = Exists /\ Pend' = 1
    BY <1>1, <2>2 DEF Size, Exists, Pend
  <2>4. UploadFits'
    <3>1. ASSUME NEW k \in live, task'[k].progress > 0 \/ Sending(k)' PROVE Exists /\ Size + 1 = task'[k].progress
      <4>1. k \in Ids
        BY DEF ListsShape
      <4>2. CASE k = i
        BY <1>1, <1>4, <1>7, <2>1, <4>2 DEF Copying, UploadFits
      <4>3. CASE k # i
        BY <1>5, <1>7, <2>1, <3>1, <4>1, <4>3 DEF Sending
      <4> QED
        BY <4>2, <4>3
    <3> QED
      BY <1>1, <2>3, <3>1 DEF UploadFits
  <2> QED
    BY <1>1, <1>3, <2>2, <2>4, UploadLeftUntouched, UploadLeftHands, UploadLeftBlock, UploadCopying
<1>8. ASSUME NEW p, NEW s, Sending(i), p = task[i].progress \/ p = io.seek, s \in {"FINISHED", "FAILED"},
             task' = [task EXCEPT ![i] = [task[i] EXCEPT !.fp = "closed", !.progress = p, !.state = s]],
             io' = NoIO
      PROVE  Copying'
  <2>1. /\ task'[i].progress = p /\ task'[i].state = s
        /\ \A k \in Ids : k # i => task'[k] = task[k]
    BY <1>1, <1>8 DEF TasksShape, TaskRec
  <2>2. Size' = Size /\ Exists' = Exists /\ Pend' = Pend
    <3>1. None(Sent)' <=> None(Sent)
      BY <1>3, UploadLeftTasks
    <3> QED
      BY <1>1, <1>8, <3>1 DEF Size, Exists, Pend, NoIO
  <2>3. i \in live => task[i].progress = io.seek
    <3>1. ASSUME i \in live PROVE task[i].progress = Size
      <4>1. Size + Pend = task[i].progress /\ Pend = 0 /\ Exists
        BY <1>1, <1>4, <1>8, <3>1 DEF Copying, UploadFits, Pend
      <4>2. Size \in Nat
        BY <4>1, PutNext DEF Copying
      <4> QED
        BY <4>1, <4>2
    <3> QED
      BY <1>4, <1>8, <3>1
  <2>4. UploadFits'
    <3>1. ASSUME NEW k \in live PROVE task'[k].progress = task[k].progress /\ (Sending(k)' => Sending(k))
      <4>1. k \in Ids
        BY DEF ListsShape
      <4>2. CASE k = i
        BY <1>8, <2>1, <2>3, <3>1, <4>2
      <4>3. CASE k # i
        BY <2>1, <4>1, <4>3 DEF Sending
      <4> QED
        BY <4>2, <4>3
    <3> QED
      BY <1>1, <2>2, <3>1 DEF Copying, UploadFits
  <2> QED
    BY <1>1, <1>3, <1>8, <2>4, UploadLeftUntouched, UploadLeftHands, UploadLeftBlock, UploadCopying DEF NoIO
<1> DEFINE p == IF task[i].fp = "closed" THEN task[i].progress ELSE io.seek
           s == IF task[i].fp # "closed" /\ io.seek >= N THEN "FINISHED" ELSE "FAILED"
<1>9. CASE /\ Sending(i) /\ io' = NoIO
           /\ Become(i, [task[i] EXCEPT !.fp = "closed", !.progress = p, !.state = s])
  <2>1. (p = task[i].progress \/ p = io.seek) /\ s \in {"FINISHED", "FAILED"}
    OBVIOUS
  <2>2. task' = [task EXCEPT ![i] = [task[i] EXCEPT !.fp = "closed", !.progress = p, !.state = s]]
    BY <1>9 DEF Become
  <2> HIDE DEF p, s
  <2> QED
    BY <1>8, <1>9, <2>1, <2>2
<1>10. [task[i] EXCEPT !.fp = "closed", !.progress = IF task[i].fp = "closed" THEN @ ELSE io.seek,
                       !.state = IF task[i].fp # "closed" /\ io.seek >= N THEN "FINISHED" ELSE "FAILED"]
        = [task[i] EXCEPT !.fp = "closed", !.progress = p, !.state = s]
  BY <1>1 DEF TaskRec
<1>11. \/ task' = task /\ io' = NoIO
       \/ /\ Sending(i) /\ task' = [task EXCEPT ![i] = [task[i] EXCEPT !.progress = io.seek + 1]]
          /\ io' = [io EXCEPT !.do = "write"]
       \/ /\ Sending(i) /\ io' = NoIO
          /\ Become(i, [task[i] EXCEPT !.fp = "closed", !.progress = p, !.state = s])
  <2> HIDE DEF p, s
  <2> QED
    BY <1>0, <1>10 DEF ReadBlock, Sending
<1> HIDE DEF p, s
<1> QED
  BY <1>6, <1>7, <1>9, <1>11

\* The block that is sent is the only one on its way, and follows the last one of the copy.
LEMMA WriteBlockUpload ==
  ASSUME Shape, Conversation, Copying, torn' = {}, WriteBlock
  PROVE  Copying'
<1> USE DEF Shape
<1>0. PICK i : i = io.id
  OBVIOUS
<1>s. PICK s : s = io.seek
  OBVIOUS
<1> DEFINE m == Request("Write", i, s)
<1>1. /\ io.do = "write" /\ Send(m) /\ io' = NoIO /\ down' = down
      /\ UNCHANGED <<action, task, live, file, asked>> /\ online
  BY <1>0, <1>s DEF WriteBlock
<1>2. i \in Ids /\ s \in Nat
  BY <1>0, <1>s, <1>1 DEF IOShape
<1>3. m \in Up /\ m.id = i /\ m.kind = "Write" /\ m.seek = s /\ up' = Append(up, m)
  <2>1. m \in Up
    BY <1>2, Messages
  <2> QED
    BY <1>1, <2>1 DEF Request, Send
<1> HIDE DEF m
<1>4. ~Downloads /\ Busy /\ ~Busy' /\ io'.do = "none"
  BY <1>1 DEF Conversation, Directions, Busy, NoIO
<1>5. Exists /\ s = Size /\ Size < N /\ None(Sent) /\ None(Forced)
  BY <1>s, <1>1, <1>4 DEF Copying, Untouched, OneBlock, SentFirst
<1>6. Sends(m)
  BY <1>1, <1>3, RequestSent
<1>7. /\ ~Downloads' /\ Whole' /\ Untouched' /\ Exists' /\ Size' = Size
  BY <1>1, <1>4, <1>5 DEF Copying, Whole, Untouched, Exists, Size, Downloads
<1>8. HandsOff' /\ Questioned'
  BY <1>1, <1>4 DEF Copying, HandsOff, Questioned
<1>9. /\ \A k : m \notin Opened(k) /\ m \notin Off({"WriteOk"}, k, Size)
      /\ m \notin Forced /\ m \notin OffSent(Size) /\ m \in Sent
  BY <1>3, <1>5 DEF Opened, Off, Forced, OffSent, Sent, Message
<1>10. ~NoneIn(Sent, down', up')
  BY <1>1, <1>3, <1>9, SendRequest DEF NetShape
<1>11. SentFirst'
  <2>1. NoneIn(Forced, down', up')
    BY <1>5, <1>6, <1>9 DEF Sends, None
  <2>2. NeverIn(Forced, Sent, down', up')
    BY <2>1, NoneNever
  <2> QED
    BY <1>4, <2>2 DEF SentFirst, Never
<1>12. OneBlock'
  <2>1. NeverIn(Sent, Sent, down', up') /\ NoneIn(OffSent(Size), down', up')
    BY <1>5, <1>6, <1>9 DEF Copying, OneBlock, Sends, None, Never
  <2> QED
    BY <1>4, <1>5, <1>7, <2>1 DEF OneBlock, None, Never
<1>13. OpenFits'
  <2>1. ASSUME NEW k \in live PROVE NoneIn(Opened(k), down', up')
    BY <1>1, <1>4, <1>6, <1>9, <2>1 DEF Copying, OpenFits, Sends, None
  <2> QED
    BY <1>1, <2>1 DEF OpenFits, None
<1>14. UploadFits'
  <2>1. Pend = 1 /\ Pend' = 1
    BY <1>1, <1>10 DEF Pend, None
  <2> QED
    BY <1>1, <1>4, <1>7, <2>1 DEF Copying, UploadFits, Sending
<1>15. OneAnswer'
  <2>1. ASSUME NEW k \in live, Sending(k)
        PROVE  NeverIn(Flow(k), Flow(k), down', up') /\ NoneIn(Off({"WriteOk"}, k, Size), down', up')
    <3>1. Never(Flow(k), Flow(k)) /\ None(Flow(k)) /\ None(Off({"WriteOk"}, k, Size))
      BY <1>4, <2>1 DEF Copying, OneAnswer
    <3> QED
      BY <1>6, <1>9, <3>1 DEF Sends, None, Never
  <2> QED
    BY <1>1, <1>4, <1>7, <2>1 DEF OneAnswer, None, Never, Sending
<1> QED
  BY <1>7, <1>8, <1>11, <1>12, <1>13, <1>14, <1>15, UploadCopying

\* The guard is known to have the file open: the task transmits, and reads its first block.
LEMMA OpenSucceededUpload ==
  ASSUME Shape, Conversation, Copying, ~Downloads, torn' = {}, NEW i \in Ids, OpenSucceeded(i)
  PROVE  Copying'
<1> USE DEF Shape
<1>1. /\ NoneIn(Token(i), down', up') /\ NoneIn(Opening(i), down', up') /\ i \in live /\ ~None(Opened(i))
      /\ down # <<>> /\ down' = Tail(down) /\ ~Busy /\ up' = up
  BY OpenedAlone
<1>2. /\ UNCHANGED <<action, live, file, asked>> /\ \A k \in Ids : k # i => task'[k] = task[k]
      /\ task'[i].progress = task[i].progress /\ task'[i].force = task[i].force /\ Sending(i)'
      /\ io'.do = "block" /\ io'.id = i /\ io'.seek = task[i].progress /\ task[i].state = "PREPARING"
  <2>1. task' = [task EXCEPT ![i] = [task[i] EXCEPT !.state = "TRANSMITTING"]]
        /\ UNCHANGED <<action, live, file, asked>> /\ task[i].state = "PREPARING"
        /\ io' = [do |-> "block", id |-> i, seek |-> task[i].progress]
    BY DEF OpenSucceeded, Become, Later
  <2>2. task[i] \in TaskRec
    BY DEF TasksShape
  <2> QED
    BY <2>1, <2>2 DEF TasksShape, TaskRec, Sending
<1>3. Exists /\ Size = task[i].progress /\ None(Sent) /\ io.do # "write"
  BY <1>1 DEF Copying, OpenFits
<1>4. live = {i} /\ \A k \in Ids : k > i => ~Begun(k)
  BY <1>1, Newest
<1>5. Fewer
  BY <1>1, AnswerLeaves
<1>6. NoneIn(Sent, down', up')
  BY <1>3, <1>5, QuietSets, LastingSets DEF Fewer, None
<1>7. NoneIn(Flow(i), down', up') /\ NoneIn(Opened(i), down', up')
  BY <1>1, <1>6, Parts
<1>8. ~Downloads' /\ Whole' /\ Untouched' /\ Exists' /\ Size' = Size
  BY <1>2, <1>3 DEF Copying, Whole, Untouched, Exists, Size, Downloads
<1>9. OneBlock'
  BY <1>2, <1>3, <1>6, <1>8, NothingSent
<1>10. OneAnswer'
  BY <1>2, <1>4, <1>7, NothingFlows
<1>11. OpenFits'
  BY <1>2, <1>4, <1>7 DEF OpenFits, None
<1>12. UploadFits'
  <2>1. Pend' = 0 /\ Size' + Pend' = task'[i].progress
    <3>1. Pend' = 0
      BY <1>2, <1>6 DEF Pend, None
    <3>2. task[i].progress \in Nat
      BY DEF TasksShape, TaskRec
    <3> QED
      BY <1>2, <1>3, <1>8, <3>1, <3>2
  <2> QED
    BY <1>2, <1>4, <1>8, <2>1 DEF UploadFits
<1>13. Questioned'
  <2>1. i \notin asked
    BY <1>1, <1>2 DEF Conversation, Current
  <2> QED
    BY <1>2, <1>4, <2>1 DEF Questioned
<1>14. SentFirst'
  <2>1. Never(Forced, Sent)'
    BY <1>5, QuietSets, LastingSets DEF Copying, SentFirst, Fewer, Never
  <2> QED
    BY <1>2, <2>1 DEF SentFirst
<1>15. HandsOff'
  <2>1. ASSUME NEW k \in Ids
        PROVE  \/ /\ ~task'[k].force /\ task'[k].progress = 0 /\ ~Sending(k)'
                  /\ NoneIn(Forcing(k), down', up') /\ NoneIn(Opened(k), down', up')
               \/ i >= k
    <3>1. CASE k > i
      <4>1. task[k] = NoTask /\ None(About(k)) /\ k # i
        BY <1>4, <3>1 DEF Conversation, NotBegun, Idle, Ids
      <4>2. ~task[k].force /\ task[k].progress = 0 /\ ~Sending(k)
        BY <4>1 DEF NoTask, Sending
      <4>3. NoneIn(Forcing(k), down', up') /\ NoneIn(Opened(k), down', up')
        BY <1>5, <4>1, Parts, QuietSets, LastingSets DEF Fewer, None
      <4> QED
        BY <1>2, <4>1, <4>2, <4>3 DEF Sending
    <3> QED
      BY <3>1 DEF Ids
  <2> QED
    BY <1>2, <2>1 DEF HandsOff, None
<1> QED
  BY <1>8, <1>9, <1>10, <1>11, <1>12, <1>13, <1>14, <1>15, UploadCopying

\* A step that changes nothing the copy depends on.
LEMMA SameCopying ==
  ASSUME Shape, Copying, ~Downloads, UNCHANGED <<action, file, live, io, up, down, asked>>,
         \A k \in Ids : /\ task'[k].progress = task[k].progress /\ task'[k].force = task[k].force
                        /\ Sending(k)' <=> Sending(k)
  PROVE  Copying'
<1> USE DEF Shape
<1>0. live \subseteq Ids /\ (Busy => io.id \in Ids) /\ Busy' = Busy /\ ~Downloads'
  BY DEF ListsShape, IOShape, Busy, Downloads
<1>1. Exists' = Exists /\ Size' = Size /\ Pend' = Pend /\ Whole' /\ Untouched'
  BY <1>0 DEF Copying, Whole, Untouched, Exists, Size, Pend, None
<1>2. HandsOff' /\ Questioned' /\ SentFirst'
  BY <1>0 DEF Copying, HandsOff, Questioned, SentFirst, None, Never
<1>3. OneBlock'
  <2>1. io.do = "block" => io.id \in Ids
    BY <1>0 DEF Busy
  <2>2. io.do = "block" /\ Sending(io.id)' => Sending(io.id)
    BY <2>1
  <2> QED
    BY <1>1, <2>2 DEF Copying, OneBlock, None, Never
<1>4. OpenFits' /\ UploadFits' /\ OneAnswer'
  BY <1>0, <1>1 DEF Copying, OpenFits, UploadFits, OneAnswer, None, Never
<1> QED
  BY <1>0, <1>1, <1>2, <1>3, <1>4, UploadCopying

\* A task that waits again keeps its position, which is that of the copy.
LEMMA TurnsUpload ==
  ASSUME Shape, Copying, ~Downloads, NEW i \in Ids, Turns(i), UNCHANGED <<file, asked>>
  PROVE  Copying'
<1>1. \A k \in Ids : /\ task'[k].progress = task[k].progress /\ task'[k].force = task[k].force
                     /\ Sending(k)' <=> Sending(k)
  BY DEF Turns, Sending
<1> QED
  BY <1>1, SameCopying DEF Turns

\* exec starts an upload without a message.
LEMMA StartUpload ==
  ASSUME Shape, Conversation, Copying, ~Downloads, NEW i \in Ids, Start(i)
  PROVE  Copying'
<1> DEFINE r == InitIO(Downloads, task[i].fp, task[i].progress, task[i].force)
<1>1. r.err = "none" /\ r.file = file
  BY DEF InitIO
<1>2. Turns(i) /\ UNCHANGED <<file, asked>>
  <2>1. Turns(i) /\ \/ r.err = "none" /\ file' = r.file /\ asked' = asked
                    \/ r.err = "exists"
                    \/ UNCHANGED <<file, exec, asked>>
    BY StartTurns
  <2> HIDE DEF r
  <2> QED
    BY <1>1, <2>1
<1> QED
  BY <1>2, TurnsUpload

\* A task is added: it has nothing of its own on the way.
LEMMA JoinsUpload ==
  ASSUME Shape, Conversation, Copying, ~Downloads, NEW j \in Ids, NEW p \in Nat, NEW q,
         Joins(j, p, q), UNCHANGED file, (p = 0 /\ ~task'[j].force) \/ (Exists /\ ~Busy),
         p > 0 => Exists /\ Size + Pend = p
  PROVE  Copying'
<1> USE DEF Shape
<1>0. /\ UNCHANGED <<action, io, up, down, file>> /\ live' = {j} /\ asked' \subseteq asked
      /\ task'[j].state = "WAITING_FOR_START" /\ task'[j].progress = p /\ task[j] = NoTask
      /\ \A k \in Ids : k # j => task'[k] = task[k]
  BY DEF Joins
<1>1. ~Downloads' /\ Exists' = Exists /\ Size' = Size /\ Pend' = Pend /\ Busy' = Busy
  BY <1>0 DEF Exists, Size, Downloads, Pend, None, Busy
<1>2. j \notin asked /\ None(About(j)) /\ ~Begun(j)
  BY <1>0 DEF Conversation, NotBegun, Idle, Begun, NoTask
<1>3. None(Forcing(j)) /\ None(Opened(j))
  BY <1>2, Parts DEF None
<1>4. \A k \in Ids : Sending(k)' <=> Sending(k)
  BY <1>0 DEF Sending, NoTask
<1>5. Whole' /\ Untouched'
  <2>1. Whole'
    BY <1>0, <1>1 DEF Copying, Whole, Size
  <2>2. CASE Exists
    BY <1>1, <2>1, <2>2 DEF Untouched
  <2>3. CASE ~Exists
    <3>1. /\ ~Busy /\ asked = {} /\ None(Late)
          /\ \A k \in Ids : task[k].progress = 0 /\ ~task[k].force /\ ~Sending(k)
      BY <2>3 DEF Copying, Untouched
    <3>2. p = 0 /\ ~task'[j].force
      BY <2>3
    <3>3. \A k \in Ids : task'[k].progress = 0 /\ ~task'[k].force
      BY <1>0, <3>1, <3>2
    <3> QED
      BY <1>0, <1>1, <1>4, <2>1, <3>1, <3>3 DEF Untouched, None
  <2> QED
    BY <2>2, <2>3
<1>6. HandsOff'
  <2>1. ASSUME NEW k \in Ids
        PROVE  \/ ~task'[k].force /\ task'[k].progress = 0 /\ ~Sending(k)' /\ None(Forcing(k)) /\ None(Opened(k))
               \/ Busy => io.id >= k
    <3>1. CASE k = j
      BY <1>0, <1>3, <3>1 DEF Sending
    <3>2. CASE k # j
      BY <1>0, <3>2 DEF Copying, HandsOff, Sending
    <3> QED
      BY <3>1, <3>2
  <2> QED
    BY <1>0, <1>1, <2>1 DEF HandsOff, None
<1>7. Questioned' /\ SentFirst'
  BY <1>0, <1>2 DEF Copying, Questioned, SentFirst, None, Never
<1>8. OneBlock'
  <2>1. io.do = "block" => io.id \in Ids
    BY DEF IOShape
  <2>2. io.do = "block" /\ Sending(io.id)' => Sending(io.id)
    BY <1>0, <1>4, <2>1
  <2> QED
    BY <1>0, <1>1, <2>2 DEF Copying, OneBlock, None, Never
<1>9. OpenFits' /\ UploadFits' /\ OneAnswer'
  BY <1>0, <1>1, <1>3 DEF OpenFits, UploadFits, OneAnswer, None, Sending
<1> QED
  BY <1>1, <1>5, <1>6, <1>7, <1>8, <1>9, UploadCopying

\* What the user asks for keeps the copy of an upload.
LEMMA AddsUpload ==
  ASSUME Shape, Conversation, Copying, ~Downloads, torn' = {}, User
  PROVE  Copying'
<1>1. CASE AddTask
  <2>1. PICK j \in Ids : Joins(j, 0, queue) /\ ~task'[j].force
    BY <1>1, AddTaskJoins
  <2> QED
    BY <1>1, <2>1, JoinsUpload DEF AddTask
<1>2. ASSUME NEW i \in Ids, Overwrite(i)
      PROVE  Copying'
  <2>1. CASE UNCHANGED <<task, live, queue, row>>
    BY <1>2, <2>1, UserUpload
  <2>2. ASSUME NEW j \in Ids, NEW q \in Seq(Ids), i \in live, Joins(j, task[i].progress, q)
        PROVE  Copying'
    <3>1. i \in asked /\ file' = file
      BY <1>2 DEF Overwrite
    <3>2. Exists /\ ~Busy
      BY <2>2, <3>1 DEF Copying, Untouched, Questioned
    <3>3. task[i].progress > 0 => Size + Pend = task[i].progress
      BY <2>2 DEF Copying, UploadFits
    <3>4. task[i].progress \in Nat
      BY DEF Shape, TasksShape, TaskRec
    <3> QED
      BY <2>2, <3>1, <3>2, <3>3, <3>4, JoinsUpload
  <2> QED
    BY <1>2, <2>1, <2>2, OverwriteJoins
<1>3. ASSUME NEW i \in Ids, RemoveTask(i) \/ StopTask(i)
      PROVE  Copying'
  BY <1>3, UserUpload
<1>4. ASSUME NEW i \in Ids, ResumeTask(i)
      PROVE  Copying'
  BY <1>4, ResumeTurns, TurnsUpload
<1> QED
  BY <1>1, <1>2, <1>3, <1>4 DEF User

\* The guard is asked to open the file. If that empties the copy, no block comes after it.
LEMMA RemoteOpenUpload ==
  ASSUME Shape, Conversation, Copying, ~Downloads, torn' = {}, NEW i \in Ids, RemoteOpen(i)
  PROVE  Copying'
<1> USE DEF Shape
<1> DEFINE m == Open(i, task[i].progress, task[i].force)
<1>1. /\ exec = i /\ Send(m) /\ down' = down /\ UNCHANGED <<action, task, live, io, file, asked>>
      /\ ~Overtakes(i)
  BY DEF RemoteOpen
<1>2. m \in Up /\ m.kind = "Open" /\ m.id = i /\ m.force = task[i].force
  <2>1. m \in Up
    BY Messages DEF TasksShape, TaskRec
  <2> QED
    BY <2>1 DEF Open
<1> HIDE DEF m
<1>3. Sends(m)
  BY <1>1, <1>2, RequestSent
<1>4. CASE ~online
  <2>1. UNCHANGED <<up, down>>
    BY <1>1, <1>2, <1>4, RequestSent
  <2> QED
    BY <1>1, <2>1, SameCopying DEF Sending
<1>5. CASE online
  <2>0. up' = Append(up, m)
    BY <1>1, <1>5 DEF Send
  <2>1. /\ ~Downloads' /\ Exists' = Exists /\ Size' = Size /\ Busy' = Busy /\ live \subseteq Ids
        /\ \A k : Sending(k)' <=> Sending(k)
    BY <1>1 DEF Downloads, Exists, Size, Busy, Sending, ListsShape
  <2>2. /\ \A k : m \notin Token(k) /\ m \notin Opened(k) /\ m \notin Flow(k)
        /\ \A k, s : m \notin Off({"WriteOk"}, k, s)
        /\ \A s : m \notin OffSent(s)
        /\ m \notin Sent
    BY <1>2 DEF Token, Opened, Flow, Off, OffSent, Sent
  <2>3. None(Sent)' <=> None(Sent)
    BY <1>1, <2>0, <2>2, SendRequest DEF None, NetShape
  <2>4. Pend' = Pend
    BY <1>1, <2>3 DEF Pend
  <2>5. Whole' /\ Untouched'
    <3>1. Whole'
      BY <1>1, <2>1 DEF Copying, Whole, Size
    <3>2. ASSUME ~Exists PROVE None(Late)'
      <4>1. None(Late) /\ ~task[i].force
        BY <3>2 DEF Copying, Untouched
      <4>2. m \notin Late
        BY <1>2, <4>1 DEF Late, Talk, Early, Message
      <4> QED
        BY <1>3, <4>1, <4>2 DEF Sends, None
    <3> QED
      BY <1>1, <2>1, <3>1, <3>2 DEF Copying, Untouched
  <2>6. HandsOff'
    <3>1. ASSUME NEW k \in Ids
          PROVE  \/ /\ ~task[k].force /\ task[k].progress = 0 /\ ~Sending(k)
                    /\ None(Forcing(k))' /\ None(Opened(k))'
                 \/ Busy => io.id >= k
      <4>1. CASE ~task[k].force /\ task[k].progress = 0 /\ ~Sending(k) /\ None(Forcing(k)) /\ None(Opened(k))
        <5>1. m \notin Forcing(k)
          BY <1>2, <4>1 DEF Forcing
        <5> QED
          BY <1>3, <2>2, <4>1, <5>1 DEF Sends, None
      <4> QED
        BY <4>1 DEF Copying, HandsOff
    <3> QED
      BY <1>1, <2>1, <3>1 DEF HandsOff
  <2>7. Questioned'
    BY <1>1, <1>3, <2>1, <2>2 DEF Copying, Questioned, Sends, None
  <2>8. SentFirst'
    <3>1. Never(Forced, Sent)'
      BY <1>3, <2>2 DEF Copying, SentFirst, Sends, Never
    <3>2. ASSUME io.do = "write", m \in Forced PROVE FALSE
      <4>1. task[i].force /\ Busy /\ io.id \in Ids /\ Ids \subseteq Nat
        BY <1>2, <3>2 DEF Forced, Busy, IOShape, Ids
      <4>2. io.id >= i
        BY <4>1 DEF Copying, HandsOff
      <4>3. io.id # i
        BY <1>1, <1>5, <3>2 DEF Overtakes
      <4>4. \A k \in Nat, l \in Nat : k >= l /\ k # l => k > l
        OBVIOUS
      <4>5. io.id > i
        BY <4>1, <4>2, <4>3, <4>4
      <4>6. Idle(io.id)
        BY <1>1, <4>1, <4>5, ConstFacts DEF Conversation, Starting, Ids
      <4> QED
        BY <4>1, <4>6 DEF Idle
    <3> QED
      BY <1>1, <1>3, <3>1, <3>2 DEF Copying, SentFirst, Sends, None
  <2>9. OneBlock'
    <3>1. Never(Sent, Sent)' /\ None(OffSent(Size))'
      BY <1>1, <1>3, <2>2 DEF Copying, OneBlock, Sends, Never, None, Size
    <3> QED
      BY <1>1, <2>1, <2>3, <3>1 DEF Copying, OneBlock, None, Sending
  <2>10. OpenFits'
    <3>1. \A k : None(Opened(k)) => None(Opened(k))'
      BY <1>3, <2>2 DEF Sends, None
    <3> QED
      BY <1>1, <2>1, <2>3, <3>1 DEF Copying, OpenFits
  <2>11. UploadFits'
    BY <1>1, <2>1, <2>4 DEF Copying, UploadFits
  <2>12. OneAnswer'
    <3>1. ASSUME NEW k \in live, Sending(k)
          PROVE  /\ Never(Flow(k), Flow(k))' /\ (Busy => None(Flow(k))')
                 /\ NoneIn(Off({"WriteOk"}, k, Size), down', up')
      <4>1. Never(Flow(k), Flow(k)) /\ (Busy => None(Flow(k))) /\ None(Off({"WriteOk"}, k, Size))
        BY <3>1 DEF Copying, OneAnswer
      <4> QED
        BY <1>3, <2>2, <4>1 DEF Sends, None, Never
    <3> QED
      BY <1>1, <2>1, <3>1 DEF OneAnswer, None
  <2> QED
    BY <2>1, <2>5, <2>6, <2>7, <2>8, <2>9, <2>10, <2>11, <2>12, UploadCopying
<1> QED
  BY <1>4, <1>5

\* A viewer that starts again leaves no block on its way, and the row the length of the copy.
LEMMA RestartUpload ==
  ASSUME Shape, Conversation, Copying, ~Downloads, torn' = {}, RestartViewer
  PROVE  Copying'
<1> USE DEF Shape
<1>1. /\ Fewer /\ SentStays /\ UNCHANGED <<action, file, live>> /\ io' = NoIO /\ asked' = {} /\ io.do # "write"
      /\ \A i \in Ids :
           /\ ~task'[i].force
           /\ task'[i].state \in {"none", "STOPED", "FINISHED", "FAILED"}
           /\ i \in live => task'[i].progress = task[i].progress
           /\ i \notin live => task'[i].progress = 0
  BY Restarted
<1>2. /\ ~Downloads' /\ Exists' = Exists /\ Size' = Size /\ live \subseteq Ids /\ ~Busy' /\ io'.do = "none"
      /\ \A i \in Ids : ~Sending(i)'
  BY <1>1 DEF Exists, Size, Downloads, ListsShape, Busy, NoIO, Sending
<1>3. \A P : Quiet(P) /\ None(P) => None(P)'
  BY <1>1 DEF Fewer, None
<1>4. (None(Sent)' <=> None(Sent)) /\ Never(Sent, Sent)' /\ Never(Forced, Sent)' /\ None(OffSent(Size))'
  <2>1. None(OffSent(Size)) => NoneIn(OffSent(Size), down', up')
    BY <1>1, QuietSets, LastingSets DEF Fewer, None
  <2> QED
    BY <1>1, <1>2, <1>3, <2>1, QuietSets, LastingSets DEF SentStays, Fewer, None, Never, Copying, OneBlock, SentFirst
<1>5. Whole' /\ Untouched'
  <2>1. Whole'
    BY <1>1, <1>2 DEF Copying, Whole, Size
  <2>2. ASSUME ~Exists PROVE None(Late)' /\ \A i \in Ids : task'[i].progress = 0
    BY <1>1, <1>3, <2>2, QuietSets DEF Copying, Untouched
  <2> QED
    BY <1>1, <1>2, <2>1, <2>2 DEF Untouched
<1>6. HandsOff' /\ Questioned' /\ SentFirst' /\ OneAnswer'
  BY <1>1, <1>2, <1>4 DEF HandsOff, Questioned, SentFirst, OneAnswer
<1>7. OneBlock'
  BY <1>2, <1>4 DEF Copying, OneBlock
<1>8. OpenFits'
  BY <1>1, <1>2, <1>3, <1>4, QuietSets DEF Copying, OpenFits
<1>9. UploadFits'
  <2>1. Pend' = Pend
    BY <1>1, <1>2, <1>4 DEF Pend
  <2> QED
    BY <1>1, <1>2, <2>1 DEF Copying, UploadFits
<1> QED
  BY <1>2, <1>5, <1>6, <1>7, <1>8, <1>9, UploadCopying

\* The guard refuses to open the file.
LEMMA RefusedUpload ==
  ASSUME Shape, Conversation, Copying, ~Downloads, NEW i \in Ids, HandleOpen(i),
         NEW r \in Down, AnswerTo(Head(up), r), Reply(r), r.kind = "OpenErr", UNCHANGED file,
         r.err = "exists" => Exists
  PROVE  Copying'
<1> USE DEF Shape
<1>1. /\ up # <<>> /\ up' = Tail(up) /\ Head(up).kind = "Open" /\ UNCHANGED viewer
  BY OpenHandled
<1>2. Routine /\ SentStays
  BY <1>1, HandlersRoutine DEF HandleOpen, HandleWrite, Asked
<1>3. \A P : r \notin P /\ None(P) => NoneIn(P, down', up')
  BY <1>1, RequestAnswered DEF None
<1>4. /\ (\A k : r \notin Opened(k)) /\ \A k, s : r \notin Off({"WriteOk"}, k, s)
      /\ ~Exists => r \notin Late
  BY DEF Opened, Off, Late, Talk, Early, Message
<1>5. UploadLeft
  BY <1>1, <1>2, <1>3, <1>4 DEF UploadLeft, viewer
<1>6. UNCHANGED <<task, io>>
  BY <1>1 DEF viewer
<1> QED
  BY <1>5, <1>6, UploadLeftCopying

\* The guard creates the file: nothing has been sent to it yet.
LEMMA CreatedUpload ==
  ASSUME Shape, Conversation, Copying, ~Downloads, NEW i \in Ids, HandleOpen(i),
         NEW r \in Down, AnswerTo(Head(up), r), Reply(r), r.kind = "OpenOk", ~Exists,
         file' = InitIO(~Downloads, "closed", Head(up).seek, Head(up).force).file
  PROVE  Copying' /\ ~Head(up).force /\ file' = <<<<>>>>
<1> USE DEF Shape
<1>1. /\ up # <<>> /\ up' = Tail(up) /\ Head(up) \in Up /\ Head(up).kind = "Open" /\ Head(up).id = i
      /\ UNCHANGED <<viewer, action>>
  BY OpenHandled
<1>2. UNCHANGED <<task, io, live, asked>> /\ ~Downloads' /\ live \subseteq Ids
  BY <1>1 DEF viewer, Downloads, ListsShape
<1>3. /\ ~Busy /\ asked = {} /\ None(Late)
      /\ \A k \in Ids : task[k].progress = 0 /\ ~task[k].force /\ ~Sending(k)
  BY DEF Copying, Untouched
<1>4. ~Head(up).force
  <2>1. Head(up) \notin Late
    BY <1>1, <1>3, FirstRequest
  <2> QED
    BY <1>1, <2>1 DEF Late, Talk, Early, Message
<1>5. file' = <<<<>>>>
  BY <1>4 DEF InitIO, Exists
<1>6. Size' = 0 /\ Exists' /\ Blocks(0) = <<>>
  BY <1>5 DEF Size, Exists, Blocks
<1>7. Whole' /\ Untouched'
  <2>1. Whole'
    BY <1>5, <1>6, ConstFacts DEF Whole
  <2> QED
    BY <1>6, <2>1 DEF Untouched
<1>8. \A P : r \notin P /\ None(P) => NoneIn(P, down', up')
  BY <1>1, RequestAnswered DEF None
<1>9. NoneIn(Sent, down', up') /\ NoneIn(Forced, down', up')
  <2>1. r \notin Sent /\ r \notin Forced
    BY DEF Sent, Forced
  <2>2. None(Sent) /\ None(Forced)
    BY <1>3, Parts DEF None
  <2> QED
    BY <1>8, <2>1, <2>2
<1>10. HandsOff' /\ Questioned' /\ OneAnswer' /\ UploadFits'
  BY <1>2, <1>3 DEF HandsOff, Questioned, OneAnswer, UploadFits, Busy, Sending
<1>11. SentFirst'
  BY <1>2, <1>3, <1>9, NoneNever DEF SentFirst, Never, Busy
<1>12. OneBlock'
  BY <1>2, <1>3, <1>9, NothingSent DEF Busy
<1>13. OpenFits'
  BY <1>2, <1>3, <1>6, <1>9 DEF OpenFits, None, Busy
<1> QED
  BY <1>2, <1>4, <1>5, <1>7, <1>10, <1>11, <1>12, <1>13, UploadCopying

\* No block comes after an opening that may empty the copy, and the task of now does not transmit.
LEMMA ForcedAlone ==
  ASSUME Shape, Conversation, Copying, ~Downloads, NEW i \in Ids,
         up # <<>>, Head(up).kind = "Open", Head(up).id = i, Head(up).force
  PROVE  /\ None(Sent) /\ io.do # "write" /\ (Busy => io.id >= i /\ ~Sending(io.id))
         /\ \A k \in live : k \in Ids /\ k >= i /\ ~Sending(k)
         /\ Head(up) \in Forcing(i) /\ ~None(Forcing(i)) /\ ~None(Opening(i))
         /\ Head(up).seek = 0 => \A k \in live : task[k].progress = 0
<1> USE DEF Shape
<1>1. Head(up) \in Up /\ \A P : Head(up) \in P => ~None(P)
  BY FirstRequest
<1>2. Head(up) \in Forced /\ Head(up) \in Forcing(i) /\ Head(up) \in Opening(i)
      /\ (Head(up).seek = 0 => Head(up) \in Emptying(i))
  BY <1>1 DEF Forced, Forcing, Opening, Emptying, Message
<1>3. Never(Forced, Sent) /\ io.do # "write"
  BY <1>1, <1>2 DEF Copying, SentFirst
<1>4. None(Sent)
  <2>1. NoneIn(Sent, <<>>, Tail(up))
    BY <1>2, <1>3, TakeRequest DEF Never, NetShape
  <2>2. NoneIn(Sent, down, <<>>)
    <3>1. ASSUME NEW n \in DOMAIN down PROVE down[n] \notin Sent
      <4>1. down[n] \in Down
        BY Elements DEF NetShape
      <4> QED
        BY <4>1 DEF Sent, Down
    <3> QED
      BY <3>1 DEF NoneIn
  <2>3. Head(up) \notin Sent
    BY DEF Sent
  <2> QED
    BY <2>1, <2>2, <2>3, TakeRequest DEF None, NetShape
<1>5. \A k \in Ids : k >= i => ~Sending(k)
  BY <1>1, <1>2 DEF Conversation, NoneSends
<1>6. Busy => io.id >= i /\ io.id \in Ids
  BY <1>1, <1>2 DEF Copying, HandsOff, IOShape, Busy
<1>7. ASSUME NEW k \in live PROVE k \in Ids /\ k >= i
  <2>1. Begun(i)
    <3>1. ~None(About(i))
      BY <1>1, <1>2, Parts DEF None
    <3> QED
      BY <3>1 DEF Conversation, NotBegun, Idle
  <2>2. k \in Ids /\ i <= k /\ Ids \subseteq Nat
    BY <2>1, Newest DEF Ids
  <2> QED
    BY <2>2
<1>8. Head(up).seek = 0 => \A k \in live : task[k].progress = 0
  BY <1>1, <1>2, <1>7 DEF Conversation, EmptyFirst
<1> QED
  BY <1>1, <1>2, <1>3, <1>4, <1>5, <1>6, <1>7, <1>8

\* The guard opens a file that is there, as the user has agreed to overwrite it.
LEMMA OverwrittenUpload ==
  ASSUME Shape, Conversation, Copying, ~Downloads, NEW i \in Ids, HandleOpen(i),
         NEW r \in Down, AnswerTo(Head(up), r), Reply(r), r.kind = "OpenOk", Exists, Head(up).force,
         file' = InitIO(~Downloads, "closed", Head(up).seek, Head(up).force).file
  PROVE  Copying'
<1> USE DEF Shape
<1>0. PICK s : s = Head(up).seek
  OBVIOUS
<1>1. /\ up # <<>> /\ up' = Tail(up) /\ Head(up) \in Up /\ Head(up).kind = "Open" /\ Head(up).id = i
      /\ UNCHANGED <<viewer, action>>
  BY OpenHandled
<1>2. UNCHANGED <<task, io, live, asked>> /\ ~Downloads' /\ Busy' = Busy /\ s \in Nat
  BY <1>0, <1>1 DEF viewer, Downloads, Busy, Up
<1>3. /\ None(Sent) /\ io.do # "write" /\ (Busy => io.id >= i /\ ~Sending(io.id))
      /\ \A k \in live : k \in Ids /\ k >= i /\ ~Sending(k)
      /\ Head(up) \in Forcing(i) /\ ~None(Forcing(i)) /\ ~None(Opening(i))
      /\ s = 0 => \A k \in live : task[k].progress = 0
  BY <1>0, <1>1, ForcedAlone
<1>4. IF s = 0 THEN file' = <<<<>>>> ELSE file' = file
  <2>1. s > 0 <=> s # 0
    BY <1>2
  <2> QED
    BY <1>0, <2>1 DEF InitIO, Exists
<1>5. Exists' /\ (IF s = 0 THEN Size' = 0 ELSE Size' = Size)
  BY <1>4 DEF Exists, Size
<1>6. Whole' /\ Untouched'
  <2>1. CASE s = 0
    <3>1. file' = <<<<>>>> /\ Size' = 0 /\ Blocks(0) = <<>>
      BY <1>4, <1>5, <2>1 DEF Blocks
    <3> QED
      BY <1>5, <3>1, ConstFacts DEF Whole, Untouched
  <2>2. CASE s # 0
    <3>1. file' = file /\ Size' = Size
      BY <1>4, <1>5, <2>2
    <3> QED
      BY <1>5, <3>1 DEF Copying, Whole, Untouched
  <2> QED
    BY <2>1, <2>2
<1>7. /\ \A P : r \notin P /\ None(P) => NoneIn(P, down', up')
      /\ Calm
  BY <1>1, RequestAnswered DEF None
<1>8. /\ r.id = i /\ \A k : r \in Opened(k) => k = i
      /\ \A k : r \notin Forcing(k) /\ r \notin Sent
  BY <1>1 DEF AnswerTo, Opened, Forcing, Sent
<1>9. NoneIn(Sent, down', up')
  BY <1>3, <1>7, <1>8
<1>10. HandsOff'
  <2>1. ASSUME NEW k \in Ids
        PROVE  \/ /\ ~task[k].force /\ task[k].progress = 0 /\ ~Sending(k)
                  /\ NoneIn(Forcing(k), down', up') /\ NoneIn(Opened(k), down', up')
               \/ Busy => io.id >= k
    <3>1. CASE k = i
      BY <1>3, <3>1
    <3>2. CASE k # i
      BY <1>7, <1>8, <3>2 DEF Copying, HandsOff
    <3> QED
      BY <3>1, <3>2
  <2> QED
    BY <1>2, <2>1 DEF HandsOff, None, Sending
<1>11. Questioned'
  <2>1. \A k \in asked \cap live : ~Busy /\ NoneIn(Token(k), down', up')
    BY <1>7, LastingSets DEF Copying, Questioned, Calm, None
  <2> QED
    BY <1>2, <2>1 DEF Questioned, None
<1>12. SentFirst'
  BY <1>2, <1>3, <1>7, LastingSets DEF Copying, SentFirst, Calm, Never
<1>13. OneBlock'
  <2>1. ~(io.do = "block" /\ Sending(io.id))
    BY <1>3 DEF Busy
  <2> QED
    BY <1>2, <1>3, <1>9, <2>1, NothingSent DEF Sending
<1>14. OneAnswer'
  BY <1>2, <1>3 DEF OneAnswer, Sending
<1>15. \A k \in live : task[k].progress \in Nat /\ (task[k].progress > 0 => s # 0 /\ Size = task[k].progress)
  <2>1. ASSUME NEW k \in live, task[k].progress > 0 PROVE Size = task[k].progress
    <3>1. Pend = 0 /\ Size + Pend = task[k].progress
      BY <1>3, <2>1 DEF Copying, UploadFits, Pend
    <3>2. Size \in Nat
      BY PutNext DEF Copying
    <3> QED
      BY <3>1, <3>2
  <2>2. \A k \in live : task[k].progress \in Nat
    BY <1>3 DEF TasksShape, TaskRec
  <2> QED
    BY <1>3, <2>1, <2>2
<1>16. UploadFits'
  <2>1. Pend' = 0
    BY <1>2, <1>3, <1>9 DEF Pend, None
  <2>2. ASSUME NEW k \in live, task[k].progress > 0 PROVE Size' + Pend' = task[k].progress
    BY <1>5, <1>15, <2>1, <2>2
  <2> QED
    BY <1>2, <1>3, <1>5, <2>2 DEF UploadFits, Sending
<1>17. OpenFits'
  <2>1. ASSUME NEW k \in live, ~NoneIn(Opened(k), down', up') PROVE Size' = task[k].progress
    <3>1. CASE s = 0
      BY <1>3, <1>5, <3>1
    <3>2. CASE s # 0 /\ k = i
      <4>1. Head(up) \in Off({"Open", "OpenOk"}, i, task[i].progress) \/ s = task[i].progress
        BY <1>0, <1>1 DEF Off, Message
      <4>2. s = task[i].progress
        BY <1>1, <2>1, <3>2, <4>1, FirstRequest DEF Conversation, SeekAgrees
      <4> QED
        BY <1>2, <1>5, <1>15, <3>2, <4>2
    <3>3. CASE s # 0 /\ k # i
      <4>1. ~None(Opened(k))
        BY <1>7, <1>8, <2>1, <3>3
      <4> QED
        BY <1>5, <2>1, <3>3, <4>1 DEF Copying, OpenFits
    <3> QED
      BY <3>1, <3>2, <3>3
  <2> QED
    BY <1>2, <1>3, <1>5, <1>9, <2>1 DEF OpenFits, None
<1> QED
  BY <1>2, <1>6, <1>10, <1>11, <1>12, <1>13, <1>14, <1>16, <1>17, UploadCopying

\* The guard opens the copy where the task that asks goes on, which is where the copy ends.
LEMMA HandleOpenUpload ==
  ASSUME Shape, Conversation, Copying, ~Downloads, NEW i \in Ids, HandleOpen(i)
  PROVE  Copying'
<1> DEFINE o == InitIO(~Downloads, "closed", Head(up).seek, Head(up).force)
<1>1. o.err = "none" => ~Exists \/ Head(up).force
  BY DEF InitIO, Exists
<1> HIDE DEF o
<1>2. PICK r \in Down :
        /\ AnswerTo(Head(up), r) /\ Reply(r)
        /\ \/ r.kind = "OpenOk" /\ o.err = "none" /\ file' = o.file
           \/ r.kind = "OpenErr" /\ UNCHANGED file /\ (r.err = "exists" => Exists)
  BY OpenHandled DEF o, Exists
<1>3. CASE r.kind = "OpenErr" /\ UNCHANGED file /\ (r.err = "exists" => Exists)
  BY <1>2, <1>3, RefusedUpload
<1>4. CASE r.kind = "OpenOk" /\ o.err = "none" /\ file' = o.file
  BY <1>1, <1>2, <1>4, CreatedUpload, OverwrittenUpload DEF o
<1> QED
  BY <1>2, <1>3, <1>4

\* The guard closes the copy and keeps what it holds.
LEMMA HandleCloseUpload ==
  ASSUME Shape, Conversation, Copying, ~Downloads, NEW i \in Ids, HandleClose(i)
  PROVE  Copying'
<1>1. UNCHANGED <<viewer, file>> /\ up # <<>> /\ Head(up).kind = "Close" /\ up' = Tail(up) /\ down' = down
  BY DEF HandleClose, Asked
<1>2. UNCHANGED <<task, io, asked>>
  BY <1>1 DEF viewer
<1>3. Fewer /\ SentStays /\ Routine
  BY <1>1, CloseTaken, HandlersRoutine DEF Shape
<1> QED
  BY <1>1, <1>2, <1>3, FewerLeavesUpload, UploadLeftCopying

\* A block arrives: it is the only one, and the next.
LEMMA HandleWriteUpload ==
  ASSUME Shape, Conversation, Copying, ~Downloads, torn' = {}, NEW i \in Ids, HandleWrite(i)
  PROVE  Copying' /\ Exists /\ Size < N /\ \E m : file' = Put(m, Size)
<1> USE DEF Shape
<1>1. /\ up # <<>> /\ up' = Tail(up) /\ Head(up) \in Up /\ Head(up).kind = "Write" /\ Head(up).id = i
      /\ UNCHANGED <<action, viewer>>
  BY WriteHandled
<1>2. PICK m : file' = Put(m, Head(up).seek)
  BY WriteHandled
<1>3. PICK r \in Down : /\ AnswerTo(Head(up), r) /\ Reply(r)
                        /\ r.kind = "WriteOk" /\ r.id = i /\ r.seek = Head(up).seek + 1
  BY WriteHandled
<1>4. UNCHANGED <<task, io, live, asked>> /\ ~Downloads' /\ Busy' = Busy /\ live \subseteq Ids
  BY <1>1 DEF viewer, Downloads, Busy, ListsShape
<1>5. Head(up) \in Sent /\ (\A k : Head(up) \in Flow(k)) /\ \A P : Head(up) \in P => ~None(P)
  <2>1. \A P : Head(up) \in P => ~None(P)
    BY <1>1, FirstRequest
  <2> QED
    BY <1>1, <2>1 DEF Sent, Flow, Message
<1>6. /\ ~None(Sent) /\ Never(Sent, Sent) /\ Size < N /\ io.do # "write"
      /\ ~(io.do = "block" /\ Sending(io.id)) /\ None(OffSent(Size))
  BY <1>5 DEF Copying, OneBlock
<1>7. Head(up).seek = Size
  BY <1>1, <1>5, <1>6 DEF OffSent, Message
<1>8. Exists
  <2>1. ~None(Late)
    BY <1>6, Parts DEF None
  <2> QED
    BY <2>1 DEF Copying, Untouched
<1>9. Exists' /\ Size' = Size + 1 /\ Whole' /\ Size \in Nat
  BY <1>2, <1>6, <1>7, <1>8, Grown DEF Copying
<1>10. Untouched'
  BY <1>9 DEF Untouched
<1>11. /\ \A P : r \notin P /\ None(P) => NoneIn(P, down', up')
       /\ Calm
  BY <1>1, <1>3, RequestAnswered DEF None
<1>12. \A P : r \notin P /\ NoneIn(P, down, <<>>) /\ NoneIn(P, <<>>, Tail(up)) => NoneIn(P, down', up')
  BY <1>1, <1>3, AnswerRequest DEF Reply, NetShape
<1>13. /\ \A k : r \notin Forcing(k) /\ r \notin Opened(k)
       /\ r \notin Sent /\ \A k : r \notin Off({"WriteOk"}, k, Size + 1)
  BY <1>3, <1>7 DEF Forcing, Opened, Sent, Off
<1>14. NoneIn(Sent, down', up')
  <2>1. NoneIn(Sent, <<>>, Tail(up)) /\ NoneIn(Sent, down, <<>>)
    BY <1>1, <1>5, <1>6, TakeRequest DEF Never, NetShape
  <2> QED
    BY <1>12, <1>13, <2>1
<1>15. HandsOff'
  <2>1. ASSUME NEW k \in Ids
        PROVE  \/ /\ ~task[k].force /\ task[k].progress = 0 /\ ~Sending(k)
                  /\ NoneIn(Forcing(k), down', up') /\ NoneIn(Opened(k), down', up')
               \/ Busy => io.id >= k
    BY <1>11, <1>13 DEF Copying, HandsOff
  <2> QED
    BY <1>4, <2>1 DEF HandsOff, None, Sending
<1>16. Questioned'
  <2>1. \A k \in asked \cap live : ~Busy /\ NoneIn(Token(k), down', up')
    BY <1>11, LastingSets DEF Copying, Questioned, Calm, None
  <2> QED
    BY <1>4, <2>1 DEF Questioned, None
<1>17. SentFirst'
  BY <1>4, <1>6, <1>11, LastingSets DEF Copying, SentFirst, Calm, Never
<1>18. OneBlock'
  BY <1>4, <1>6, <1>14, NothingSent DEF Sending
<1>19. OpenFits'
  <2>1. ASSUME NEW k \in live PROVE NoneIn(Opened(k), down', up')
    BY <1>6, <1>11, <1>13, <2>1 DEF Copying, OpenFits
  <2> QED
    BY <1>4, <2>1 DEF OpenFits, None
<1>20. UploadFits'
  <2>1. Pend' = 0 /\ Pend = 1
    BY <1>4, <1>6, <1>14 DEF Pend, None
  <2>2. Size' + Pend' = Size + Pend
    BY <1>9, <2>1
  <2> QED
    BY <1>4, <1>8, <1>9, <2>2 DEF Copying, UploadFits, Sending
<1>21. OneAnswer'
  <2>1. ASSUME NEW k \in live, Sending(k)
        PROVE  /\ Never(Flow(k), Flow(k))' /\ ~Busy
               /\ NoneIn(Off({"WriteOk"}, k, Size + 1), down', up')
    <3>1. Never(Flow(k), Flow(k)) /\ (Busy => None(Flow(k)))
      BY <2>1 DEF Copying, OneAnswer
    <3>2. Never(Flow(k), Flow(k))'
      BY <1>11, <3>1, LastingSets DEF Calm, Never
    <3>3. NoneIn(Flow(k), <<>>, Tail(up)) /\ NoneIn(Flow(k), down, <<>>)
      BY <1>1, <1>5, <3>1, TakeRequest DEF Never, NetShape
    <3>4. NoneIn(Off({"WriteOk"}, k, Size + 1), <<>>, Tail(up)) /\ NoneIn(Off({"WriteOk"}, k, Size + 1), down, <<>>)
      BY <3>3, Parts
    <3> QED
      BY <1>5, <1>12, <1>13, <3>1, <3>2, <3>4
  <2> QED
    BY <1>4, <1>9, <2>1 DEF OneAnswer, None, Sending
<1> QED
  BY <1>2, <1>4, <1>6, <1>7, <1>8, <1>9, <1>10, <1>15, <1>16, <1>17, <1>18, <1>19, <1>20, <1>21, UploadCopying

\* Every step keeps the copy of an upload.
LEMMA UploadStep ==
  ASSUME Shape, Conversation, Copying, ~Downloads, torn' = {}, [Next]_vars
  PROVE  Copying'
<1>1. CASE Exec
  <2>1. ASSUME NEW i \in Ids, Watch(i) \/ TimeOut(i) \/ Drop(i) PROVE Copying'
    BY <2>1, UserUpload
  <2> QED
    BY <1>1, <2>1, StartUpload, RemoteOpenUpload DEF Exec
<1>2. CASE Answers
  <2>1. ASSUME NEW i \in Ids, BlockArrived(i) PROVE Copying'
    BY <2>1, AnswerMeans DEF BlockArrived
  <2>2. ~RequestBlock
    BY DEF RequestBlock, Conversation, Directions
  <2> QED
    BY <1>2, <2>1, <2>2, OthersUpload, OpenFailedUpload, TransferFailedUpload, OpenSucceededUpload,
       BlockTakenUpload, ReadBlockUpload, WriteBlockUpload DEF Answers
<1>3. CASE Handlers
  <2>1. ASSUME NEW i \in Ids, HandleRead(i) PROVE FALSE
    <3>1. up # <<>> /\ Head(up) \in Up /\ Head(up).kind = "Read"
      BY <2>1, ReadHandled
    <3>2. Head(up) \in OfKind({"Read", "ReadOk", "ReadErr"})
      BY <3>1 DEF OfKind, Message
    <3> QED
      BY <3>1, <3>2, FirstRequest DEF Conversation, Directions, Shape
  <2> QED
    BY <1>3, <2>1, HandleOpenUpload, HandleCloseUpload, HandleWriteUpload DEF Handlers
<1>4. CASE GuardExec
  BY <1>4, OthersUpload
<1>5. CASE Environment
  BY <1>5, OthersUpload, RestartUpload DEF Environment
<1>6. CASE UNCHANGED vars
  <2>1. UNCHANGED <<action, file, live, io, up, down, asked, task>>
    BY <1>6 DEF vars, net, viewer
  <2> QED
    BY <2>1, SameCopying DEF Sending
<1> QED
  BY <1>1, <1>2, <1>3, <1>4, <1>5, <1>6, AddsUpload DEF Next
-----------------------------------------------------------------------------
(* The invariant. *)

\* Nothing is in the channel at first.
LEMMA NothingYet ==
  ASSUME Init
  PROVE  /\ (\A P : None(P)) /\ \A P, Q : Never(P, Q)
         /\ down = <<>> /\ up = <<>>
BY DEF Init, None, Never, NoneIn, NeverIn

\* At first nothing has been said.
LEMMA InitConversation ==
  ASSUME Init
  PROVE  Conversation
<1>1. /\ (\A P : None(P)) /\ \A P, Q : Never(P, Q)
  BY NothingYet
<1>2. /\ \A i \in Ids : task[i] = NoTask /\ row[i] = NoRow
      /\ live = {} /\ queue = <<>> /\ exec = 0 /\ io = NoIO /\ asked = {}
  BY DEF Init
<1>3. \A i \in Ids : /\ ~Begun(i) /\ ~Sending(i) /\ task[i].progress = 0 /\ task[i].state = "none"
                     /\ task[i].fp = "closed" /\ row[i].state = "none"
  BY <1>2 DEF NoTask, NoRow, Begun, Sending
<1>4. io.do = "none" /\ ~Busy /\ 0 \notin Ids
  BY <1>2 DEF NoIO, Busy, Ids
<1>5. Current /\ NotBegun
  BY <1>1, <1>2, <1>3, <1>4 DEF Current, NotBegun, Idle
<1>6. Line /\ Starting
  BY <1>2 DEF Line, Starting
<1>7. OpeningLast /\ OpeningsInOrder /\ NoneSends /\ EmptyFirst /\ SeekAgrees /\ Directions
  BY <1>1, <1>2, <1>4 DEF OpeningLast, OpeningsInOrder, NoneSends, EmptyFirst, SeekAgrees, Directions
<1> QED
  BY <1>5, <1>6, <1>7 DEF Conversation

\* At first there is no copy.
LEMMA InitCopying ==
  ASSUME Init
  PROVE  Copying
<1>1. /\ (\A P : None(P)) /\ \A P, Q : Never(P, Q)
  BY NothingYet
<1>2. /\ \A i \in Ids : task[i] = NoTask
      /\ live = {} /\ exec = 0 /\ io = NoIO /\ asked = {} /\ file = <<>>
  BY DEF Init
<1>3. \A i \in Ids : /\ ~Sending(i) /\ task[i].progress = 0 /\ ~task[i].force /\ task[i].state = "none"
                     /\ task[i].fp = "closed"
  BY <1>2 DEF NoTask, Sending
<1>4. io.do = "none" /\ ~Busy /\ ~Exists
  BY <1>2 DEF NoIO, Busy, Exists
<1>5. Whole /\ Untouched
  BY <1>1, <1>2, <1>3, <1>4 DEF Whole, Untouched
<1>6. DownloadFits /\ OneRead /\ HandsOff /\ Questioned /\ OpenFits /\ UploadFits /\ OneAnswer
  BY <1>2, <1>4 DEF DownloadFits, OneRead, HandsOff, Questioned, OpenFits, UploadFits, OneAnswer
<1>7. SentFirst /\ OneBlock
  BY <1>1, <1>4 DEF SentFirst, OneBlock
<1> QED
  BY <1>5, <1>6, <1>7 DEF Copying

\* What has happened to the copy is not forgotten.
LEMMA TornStays ==
  ASSUME [Next]_vars
  PROVE  torn \subseteq torn'
<1>1. ASSUME User PROVE torn \subseteq torn'
  BY <1>1 DEF User, AddTask, RemoveTask, Overwrite, StopTask, ResumeTask
<1>2. ASSUME Exec PROVE torn \subseteq torn'
  BY <1>2 DEF Exec, Start, RemoteOpen, Watch, TimeOut, Drop
<1>3. ASSUME Answers PROVE torn \subseteq torn'
  BY <1>3 DEF Answers, Unwanted, RequestBlock, ReadBlock, WriteBlock, OpenSucceeded, OpenFailed,
              TransferFailed, BlockArrived, BlockTaken
<1>4. ASSUME Handlers PROVE torn \subseteq torn'
  BY <1>4 DEF Handlers, HandleOpen, HandleClose, HandleRead, HandleWrite
<1>5. ASSUME GuardExec PROVE torn \subseteq torn'
  BY <1>5 DEF GuardExec, GuardTake, GuardWatch, GuardTimeOut, GuardDrop
<1>6. ASSUME Environment PROVE torn \subseteq torn'
  <2>1. ASSUME NEW causes, Lost(causes) PROVE torn \subseteq torn'
    BY <2>1 DEF Lost
  <2>2. LoseConnection \/ RestartViewer => torn \subseteq torn'
    BY <2>1 DEF LoseConnection, RestartViewer
  <2>3. Reconnect \/ Unroutable \/ RestartGuard => torn \subseteq torn'
    BY DEF Reconnect, Unroutable, RestartGuard
  <2> QED
    BY <1>6, <2>2, <2>3 DEF Environment
<1>7. UNCHANGED vars => torn \subseteq torn'
  BY DEF vars
<1> QED
  BY <1>1, <1>2, <1>3, <1>4, <1>5, <1>6, <1>7 DEF Next

\* As long as nothing is torn every step keeps the conversation and the copy.
LEMMA CopyingStep ==
  ASSUME Shape, Sound, torn' = {}, [Next]_vars
  PROVE  Conversation /\ Copying /\ Conversation' /\ Copying' /\ torn = {}
<1>1. torn = {} /\ Conversation /\ Copying
  BY TornStays DEF Sound
<1>2. Conversation'
  BY <1>1, ConversationStep
<1> QED
  BY <1>1, <1>2, DownloadStep, UploadStep

\* A transfer none of whose blocks was lost on its way, answered behind its task or read behind the
\* end, has a conversation in order and a copy of as many blocks, the first ones and in their order,
\* as the task that transmits them says.
THEOREM SoundAlways == Spec => []Sound
<1>1. Init => Sound
  BY InitConversation, InitCopying DEF Sound
<1>2. Shape /\ Sound /\ [Next]_vars => Sound'
  BY CopyingStep DEF Sound
<1> QED
  BY <1>1, <1>2, ShapeAlways, PTL DEF Spec
-----------------------------------------------------------------------------
(* Every step of a transfer is one of FileCopy. *)

Complete == \E i \in Latest : task[i].state = "FINISHED"

\* The steps of FileCopy, in the words of the lemmas.
LEMMA CopySteps ==
  ASSUME torn = {}, torn' = {}
  PROVE  /\ file' = file /\ (Complete' => Complete) => Copy!Ask
         /\ file' = file /\ file = <<Blocks(N)>> /\ Complete' /\ (Agreed' <=> Agreed) => Copy!Finish
         /\ ~Exists /\ file' = <<<<>>>> /\ (Agreed' <=> Agreed) /\ (Complete' <=> Complete) => Copy!Create
         /\ Agreed /\ file' = <<<<>>>> /\ (Complete' <=> Complete) => Copy!Empty
         /\ /\ Exists /\ Size < N /\ file' = <<Append(file[1], Size + 1)>>
            /\ (Agreed' <=> Agreed) /\ (Complete' <=> Complete)
            => Copy!Extend
<1>1. Complete \in BOOLEAN /\ Complete' \in BOOLEAN /\ Agreed \in BOOLEAN /\ Agreed' \in BOOLEAN
  BY DEF Complete, Agreed
<1>2. Complete <=> \E i \in Latest : task[i].state = "FINISHED"
  BY DEF Complete
<1>3. Complete' <=> (\E i \in Latest : task[i].state = "FINISHED")'
  BY DEF Complete
<1>4. ASSUME file' = file, Complete' => Complete PROVE Copy!Ask
  BY <1>1, <1>2, <1>3, <1>4 DEF Copy!Ask
<1>5. ASSUME file' = file, file = <<Blocks(N)>>, Complete', Agreed' <=> Agreed PROVE Copy!Finish
  BY <1>1, <1>2, <1>3, <1>5 DEF Copy!Finish, Copy!Original, Blocks
<1>6. ASSUME ~Exists, file' = <<<<>>>>, Agreed' <=> Agreed, Complete' <=> Complete PROVE Copy!Create
  BY <1>1, <1>2, <1>3, <1>6 DEF Copy!Create, Exists
<1>7. ASSUME Agreed, file' = <<<<>>>>, Complete' <=> Complete PROVE Copy!Empty
  BY <1>1, <1>2, <1>3, <1>7 DEF Copy!Empty
<1>8. ASSUME Exists, Size < N, file' = <<Append(file[1], Size + 1)>>,
             Agreed' <=> Agreed, Complete' <=> Complete
      PROVE  Copy!Extend
  BY <1>1, <1>2, <1>3, <1>8 DEF Copy!Extend, Exists, Size
<1> QED
  BY <1>4, <1>5, <1>6, <1>7, <1>8

\* An existing copy may be overwritten if a task or an opening on its way says so.
LEMMA ForcedOpenings ==
  ASSUME NEW d \in Seq(Down), NEW u \in Seq(Up)
  PROVE  NoneIn(Forced, d, u) <=> ~\E n \in DOMAIN u : u[n].kind = "Open" /\ u[n].force
<1>1. ASSUME NEW n \in DOMAIN d PROVE d[n] \notin Forced
  <2>1. d[n] \in Down
    BY Elements
  <2> QED
    BY <2>1 DEF Forced, Down
<1>2. ASSUME NEW n \in DOMAIN u
      PROVE  u[n] \in Forced <=> u[n].kind = "Open" /\ u[n].force
  <2>1. u[n] \in Up
    BY Elements
  <2> QED
    BY <2>1 DEF Forced, Message, Up
<1> QED
  BY <1>1, <1>2 DEF NoneIn

\* What keeps it so.
LEMMA AgreedStays ==
  ASSUME Shape, Shape', \A i \in Ids : task'[i].force = task[i].force,
         \/ UNCHANGED <<up, down>>
         \/ \E i \in Ids : Send(Close(i)) /\ (down' = down \/ (down # <<>> /\ down' = Tail(down)))
         \/ up # <<>> /\ up' = Tail(up) /\ Head(up) \notin Forced
            /\ \E r : Reply(r) /\ r.kind \in {"OpenOk", "WriteOk"}
  PROVE  Agreed' <=> Agreed
<1> USE DEF Shape
<1>1. None(Forced)' <=> None(Forced)
  <2>1. CASE UNCHANGED <<up, down>>
    BY <2>1 DEF None
  <2>2. ASSUME NEW i \in Ids, Send(Close(i)), down' = down \/ (down # <<>> /\ down' = Tail(down))
        PROVE  None(Forced)' <=> None(Forced)
    <3>1. NoneIn(Forced, down, up') <=> NoneIn(Forced, down, up)
      <4>1. up' \in {up, Append(up, Close(i))}
        BY <2>2 DEF Send
      <4> QED
        BY <4>1, HangsUp, QuietSets, LastingSets DEF NetShape
    <3>2. ASSUME down # <<>>
          PROVE  NoneIn(Forced, Tail(down), up') <=> NoneIn(Forced, down, up')
      <4>1. Head(down) \notin Forced
        <5>1. Head(down) \in Down
          BY <3>2, FirstAnswer
        <5> QED
          BY <5>1 DEF Forced, Down
      <4> QED
        BY <3>2, <4>1, TakeAnswer DEF NetShape
    <3> QED
      BY <2>2, <3>1, <3>2 DEF None
  <2>3. ASSUME up # <<>>, up' = Tail(up), Head(up) \notin Forced,
               NEW r, Reply(r), r.kind \in {"OpenOk", "WriteOk"}
        PROVE  None(Forced)' <=> None(Forced)
    <3>1. r \notin Forced
      BY <2>3 DEF Forced
    <3> QED
      BY <2>3, <3>1, AnswerRequest DEF None, Reply, NetShape
  <2> QED
    BY <2>1, <2>2, <2>3
<1>2. (\E i \in Ids : task'[i].force) <=> (\E i \in Ids : task[i].force)
  OBVIOUS
<1>3. (\E n \in DOMAIN up' : up'[n].kind = "Open" /\ up'[n].force)
       <=> (\E n \in DOMAIN up : up[n].kind = "Open" /\ up[n].force)
  BY <1>1, ForcedOpenings DEF NetShape, None
<1> QED
  BY <1>2, <1>3 DEF Agreed

\* What does not make the last task finished, and what leaves it so.
LEMMA CompleteLater ==
  ASSUME Conversation, Conversation',
         \A i \in Ids : /\ Begun(i) => Begun(i)'
                        /\ task'[i].state = "FINISHED" => task[i].state = "FINISHED"
  PROVE  Complete' => Complete
<1>1. ASSUME NEW i \in Ids PROVE (task[i] # NoTask <=> Begun(i)) /\ (task'[i] # NoTask <=> Begun(i)')
  BY DEF Conversation, NotBegun, Begun, NoTask
<1>2. ASSUME Complete' PROVE Complete
  <2>1. PICK i \in Ids : /\ task'[i] # NoTask /\ task'[i].state = "FINISHED"
                         /\ \A j \in Ids : j > i => task'[j] = NoTask
    BY <1>2 DEF Complete, Latest
  <2>2. task[i].state = "FINISHED" /\ Begun(i) /\ \A j \in Ids : j > i => ~Begun(j)
    BY <1>1, <2>1 DEF Begun
  <2> QED
    BY <1>1, <2>2 DEF Complete, Latest
<1> QED
  BY <1>2

\* The copy is complete as long as its newest task is the one, and as finished, as before.
LEMMA CompleteStays ==
  ASSUME Conversation, Conversation',
         \A i \in Ids : /\ Begun(i)' <=> Begun(i)
                        /\ task'[i].state = "FINISHED" <=> task[i].state = "FINISHED"
  PROVE  Complete' <=> Complete
<1>1. ASSUME NEW i \in Ids PROVE (task[i] # NoTask <=> Begun(i)) /\ (task'[i] # NoTask <=> Begun(i)')
  BY DEF Conversation, NotBegun, Begun, NoTask
<1>2. ASSUME Complete PROVE Complete'
  <2>1. PICK i \in Ids : /\ task[i] # NoTask /\ task[i].state = "FINISHED"
                         /\ \A j \in Ids : j > i => task[j] = NoTask
    BY <1>2 DEF Complete, Latest
  <2>2. task'[i].state = "FINISHED" /\ Begun(i)' /\ \A j \in Ids : j > i => ~Begun(j)'
    BY <1>1, <2>1
  <2> QED
    BY <1>1, <2>2 DEF Complete, Latest
<1> QED
  BY <1>2, CompleteLater

\* No task gets to its end, or is forgotten.
Unfinished ==
  \A i \in Ids : /\ Begun(i) => Begun(i)'
                 /\ task'[i].state = "FINISHED" => task[i].state = "FINISHED"

\* A task that gets another state than that of its end finishes none.
LEMMA StateUnfinished ==
  ASSUME TasksShape, NEW i \in Ids, NEW s, s \notin {"none", "FINISHED"},
         \E t : task' = [task EXCEPT ![i] = t] /\ t.state = s
  PROVE  Unfinished
<1>1. PICK t : task' = [task EXCEPT ![i] = t] /\ t.state = s
  OBVIOUS
<1>2. task'[i].state = s /\ \A k \in Ids : k # i => task'[k] = task[k]
  BY <1>1 DEF TasksShape
<1> QED
  BY <1>2 DEF Unfinished, Begun

\* A task that joins finishes none.
LEMMA JoinsUnfinished ==
  ASSUME NEW j \in Ids, NEW p, NEW q, Joins(j, p, q)
  PROVE  Unfinished
BY DEF Joins, Unfinished, Begun, NoTask

\* These steps neither touch the copy nor finish a task.
LEMMA UserUnfinished ==
  ASSUME Shape, Conversation, torn' = {}, User
  PROVE  Unfinished /\ file' = file
<1> USE DEF Shape
<1>1. CASE AddTask
  <2>1. PICK j \in Ids : Joins(j, 0, queue)
    BY <1>1, AddTaskJoins
  <2>2. file' = file
    BY <1>1 DEF AddTask
  <2> QED
    BY <2>1, <2>2, JoinsUnfinished
<1>2. ASSUME NEW i \in Ids, Overwrite(i) PROVE Unfinished /\ file' = file
  <2>1. file' = file
    BY <1>2 DEF Overwrite
  <2>2. task' = task => Unfinished
    BY DEF Unfinished, Begun
  <2> QED
    BY <1>2, <2>1, <2>2, OverwriteJoins, JoinsUnfinished
<1>3. ASSUME NEW i \in Ids, RemoveTask(i) PROVE Unfinished /\ file' = file
  BY <1>3 DEF RemoveTask, Unfinished, Begun
<1>4. ASSUME NEW i \in Ids, NEW s \in {"STOPED", "WAITING_FOR_START"},
             task' = [task EXCEPT ![i] = [task[i] EXCEPT !.state = s]]
      PROVE  Unfinished
  <2>1. [task[i] EXCEPT !.state = s].state = s
    BY DEF TasksShape, TaskRec
  <2> QED
    BY <1>4, <2>1, StateUnfinished
<1>5. ASSUME NEW i \in Ids, StopTask(i) \/ ResumeTask(i) PROVE Unfinished /\ file' = file
  BY <1>4, <1>5 DEF StopTask, ResumeTask, Become
<1> QED
  BY <1>1, <1>2, <1>3, <1>5 DEF User

\* Nor does exec, which writes nothing.
LEMMA ExecUnfinished ==
  ASSUME Shape, Conversation, NEW i \in Ids, Start(i) \/ RemoteOpen(i) \/ Watch(i) \/ TimeOut(i) \/ Drop(i)
  PROVE  Unfinished /\ (~Start(i) => file' = file)
<1> USE DEF Shape
<1>1. CASE Start(i)
  <2>1. Turns(i)
    BY <1>1, StartTurns
  <2> QED
    BY <1>1, <2>1 DEF Turns, Unfinished, Begun
<1>2. CASE RemoteOpen(i) \/ Watch(i) \/ Drop(i)
  BY <1>2 DEF RemoteOpen, Watch, Drop, Unfinished, Begun
<1>3. CASE TimeOut(i)
  <2>1. [task[i] EXCEPT !.state = "STOPED"].state = "STOPED"
    BY DEF TasksShape, TaskRec
  <2>2. task' = [task EXCEPT ![i] = [task[i] EXCEPT !.state = "STOPED"]] /\ file' = file
    BY <1>3 DEF TimeOut, Become
  <2> QED
    BY <2>1, <2>2, StateUnfinished
<1> QED
  BY <1>1, <1>2, <1>3

\* Nor do the answers that neither bring nor end a block.
LEMMA AnswersUnfinished ==
  ASSUME Shape, Conversation,
         \/ Unwanted \/ RequestBlock \/ WriteBlock
         \/ \E i \in Ids : OpenSucceeded(i) \/ OpenFailed(i) \/ BlockTaken(i)
  PROVE  Unfinished /\ file' = file
<1> USE DEF Shape
<1>1. CASE Unwanted \/ RequestBlock \/ WriteBlock
  BY <1>1 DEF Unwanted, RequestBlock, WriteBlock, viewer, Unfinished, Begun
<1>2. ASSUME NEW i \in Ids, BlockTaken(i) PROVE Unfinished /\ file' = file
  BY <1>2 DEF BlockTaken, Progressed, TasksShape, Unfinished, Begun
<1>3. ASSUME NEW i \in Ids, NEW s \in {"TRANSMITTING", "FAILED"},
             task' = [task EXCEPT ![i] = [task[i] EXCEPT !.state = s]]
      PROVE  Unfinished
  <2>1. [task[i] EXCEPT !.state = s].state = s
    BY DEF TasksShape, TaskRec
  <2> QED
    BY <1>3, <2>1, StateUnfinished
<1>4. ASSUME NEW i \in Ids, OpenSucceeded(i) \/ OpenFailed(i) PROVE Unfinished /\ file' = file
  BY <1>3, <1>4 DEF OpenSucceeded, OpenFailed, Become
<1> QED
  BY <1>1, <1>2, <1>4

\* Nor do the guard, the connection and the closing and reading of its file.
LEMMA OthersUnfinished ==
  ASSUME Shape, Conversation, torn' = {}, GuardExec \/ Environment \/ (\E i \in Ids : HandleClose(i) \/ HandleRead(i))
  PROVE  Unfinished /\ file' = file
<1>1. CASE GuardExec \/ (Environment /\ ~RestartViewer)
  <2>1. UNCHANGED <<file, viewer>>
    BY <1>1, OthersRoutine DEF Environment
  <2> QED
    BY <2>1 DEF viewer, Unfinished, Begun
<1>2. CASE RestartViewer
  <2>1. file' = file /\ \A i \in Ids : /\ Begun(i)' <=> Begun(i)
                                       /\ row'[i].state = "FINISHED" => task'[i].state = "FINISHED"
                                       /\ task'[i].state = "FINISHED" => row[i].state = "FINISHED"
    BY <1>2, Restarted
  <2> QED
    BY <2>1 DEF Unfinished, Conversation, Current
<1>3. ASSUME NEW i \in Ids, HandleClose(i) \/ HandleRead(i) PROVE Unfinished /\ file' = file
  BY <1>3 DEF HandleClose, HandleRead, viewer, Unfinished, Begun
<1> QED
  BY <1>1, <1>2, <1>3

\* A step that finishes no task and leaves the file is one of asking, or a stutter, of FileCopy.
LEMMA Asks ==
  ASSUME Conversation, Conversation', torn = {}, torn' = {}, Unfinished, file' = file
  PROVE  Copy!Ask
BY CompleteLater, CopySteps DEF Unfinished

\* A download that starts creates its copy, or empties one that may be overwritten.
LEMMA StartCopies ==
  ASSUME Shape, Shape', Conversation, Conversation', Copying, torn = {}, torn' = {}, NEW i \in Ids, Start(i)
  PROVE  Copy!CopyNext
<1> USE DEF Shape
<1> DEFINE r == InitIO(Downloads, task[i].fp, task[i].progress, task[i].force)
<1>1. /\ Turns(i) /\ Waiting(i) /\ task'[i].force = task[i].force
      /\ \/ r.err = "none" /\ file' = r.file /\ task'[i].state = "PREPARING"
         \/ file' = file
  BY StartTurns
<1>2. r.err = "none" =>
        \/ r.file = file
        \/ r.file = <<<<>>>> /\ (~Exists \/ task[i].force)
  BY DEF InitIO, Exists
<1> HIDE DEF r
<1>3. CASE file' = file
  BY <1>3, ExecUnfinished, Asks DEF Copy!CopyNext
<1>4. CASE file' = <<<<>>>> /\ task'[i].state = "PREPARING" /\ (~Exists \/ task[i].force)
  <2>1. /\ UNCHANGED <<up, down>> /\ \A k \in Ids : k # i => task'[k] = task[k]
    BY <1>1 DEF Turns
  <2>2. Agreed' <=> Agreed
    <3>1. \A k \in Ids : task'[k].force = task[k].force
      BY <1>1, <2>1
    <3> QED
      BY <2>1, <3>1, AgreedStays
  <2>3. Complete' <=> Complete
    <3>1. \A k \in Ids : /\ Begun(k)' <=> Begun(k)
                         /\ task'[k].state = "FINISHED" <=> task[k].state = "FINISHED"
      BY <1>1, <1>4, <2>1 DEF Begun, Waiting
    <3> QED
      BY <3>1, CompleteStays
  <2>4. task[i].force => Agreed
    BY DEF Agreed
  <2> QED
    BY <1>4, <2>2, <2>3, <2>4, CopySteps DEF Copy!CopyNext
<1> QED
  BY <1>1, <1>2, <1>3, <1>4

\* A block that arrives at either side is the next one of the copy.
LEMMA Extends ==
  ASSUME Copying, torn = {}, torn' = {}, Exists, Size < N, NEW m, file' = Put(m, Size),
         Agreed' <=> Agreed, Complete' <=> Complete
  PROVE  Copy!CopyNext
<1>1. PICK k \in Nat : k = Size /\ file = <<Blocks(k)>>
  BY PutNext DEF Copying, Whole
<1>2. file' = <<Blocks(k + 1)>>
  BY <1>1, PutNext DEF Copying
<1>3. Append(file[1], k + 1) = Blocks(k + 1)
  BY <1>1, BlocksFacts
<1> QED
  BY <1>1, <1>2, <1>3, CopySteps DEF Copy!CopyNext

\* A block that arrives is the next one of FileCopy, and the last one completes it.
LEMMA BlockArrivedCopies ==
  ASSUME Shape, Shape', Conversation, Conversation', Copying, torn = {}, torn' = {},
         NEW i \in Ids, BlockArrived(i)
  PROVE  Copy!CopyNext
<1> USE DEF Shape
<1>1. Exists /\ (file' = file \/ (Size < N /\ file' = Put(task[i].fp, Size)))
  BY BlockArrivedDownload
<1>0. task[i] \in TaskRec /\ Sending(i)
  BY DEF TasksShape, BlockArrived, Sending
<1>2. \/ /\ up' = up /\ task' = [task EXCEPT ![i] = [task[i] EXCEPT !.progress = Head(down).seek + 1]]
      \/ /\ file' = file /\ task' = [task EXCEPT ![i] = [task[i] EXCEPT !.progress = Head(down).seek, !.fp = "closed"]]
      \/ /\ file' = file /\ task' = [task EXCEPT ![i] = [task[i] EXCEPT !.state = "FAILED"]]
  BY DEF BlockArrived, Progressed, Become
<1>3. CASE file' = file
  <2>1. Unfinished
    <3>1. PICK t : task' = [task EXCEPT ![i] = t] /\ t.state \in {"TRANSMITTING", "FAILED"}
      BY <1>0, <1>2 DEF TaskRec, Sending
    <3> QED
      BY <3>1, StateUnfinished
  <2> QED
    BY <1>3, <2>1, Asks DEF Copy!CopyNext
<1>4. CASE file' # file
  <2>1. /\ up' = up /\ task' = [task EXCEPT ![i] = [task[i] EXCEPT !.progress = Head(down).seek + 1]]
    BY <1>2, <1>4
  <2>2. \A k \in Ids : task'[k].state = task[k].state /\ task'[k].force = task[k].force
    BY <1>0, <2>1 DEF TasksShape, TaskRec
  <2>3. Complete' <=> Complete
    BY <2>2, CompleteStays DEF Begun
  <2>4. Agreed' <=> Agreed
    <3>1. (\E k \in Ids : task'[k].force) <=> (\E k \in Ids : task[k].force)
      BY <2>2
    <3> QED
      BY <2>1, <3>1 DEF Agreed
  <2> QED
    BY <1>1, <1>4, <2>3, <2>4, Extends
<1> QED
  BY <1>3, <1>4

\* A task is reported as finished only when the copy is the original.
LEMMA Finishes ==
  ASSUME Shape, Shape', Conversation, Conversation', torn = {}, torn' = {}, NEW i \in Ids, file' = file,
         NEW t, task' = [task EXCEPT ![i] = t], t.force = task[i].force,
         Send(Close(i)), down' = down \/ (down # <<>> /\ down' = Tail(down)),
         Sending(i), t.state \in {"FINISHED", "FAILED"}, t.state = "FINISHED" => file = <<Blocks(N)>>
  PROVE  Copy!CopyNext
<1> USE DEF Shape
<1>1. task'[i] = t /\ \A k \in Ids : k # i => task'[k] = task[k]
  BY DEF TasksShape
<1>2. CASE t.state = "FAILED"
  <2>1. Unfinished
    BY <1>1, <1>2 DEF Unfinished, Begun
  <2> QED
    BY <2>1, Asks DEF Copy!CopyNext
<1>3. CASE t.state = "FINISHED"
  <2>1. Agreed' <=> Agreed
    <3>1. \A k \in Ids : task'[k].force = task[k].force
      BY <1>1
    <3> QED
      BY <3>1, AgreedStays
  <2> QED
    BY <1>3, <2>1, CopySteps DEF Copy!CopyNext
<1> QED
  BY <1>2, <1>3

\* A copy of N blocks is the file.
LEMMA FullCopy ==
  ASSUME Copying, Exists, NEW n, n = Size, n >= N
  PROVE  file = <<Blocks(N)>>
<1>1. PICK k \in 0..N : k = Size /\ file = <<Blocks(k)>>
  BY DEF Copying, Whole
<1>2. k = N
  BY <1>1, ConstFacts
<1> QED
  BY <1>1, <1>2

\* The end of the file finishes a download that has all blocks; any other failure finishes none.
LEMMA TransferFailedCopies ==
  ASSUME Shape, Shape', Conversation, Conversation', Copying, torn = {}, torn' = {},
         NEW i \in Ids, TransferFailed(i)
  PROVE  Copy!CopyNext
<1> USE DEF Shape
<1> DEFINE s == IF Head(down).err = "eof" THEN "FINISHED" ELSE "FAILED"
           t == [task[i] EXCEPT !.fp = "closed", !.state = s]
<1>1. /\ task' = [task EXCEPT ![i] = t] /\ Send(Close(i)) /\ Received /\ file' = file
      /\ (Answer("ReadErr", i) \/ Answer("WriteErr", i)) /\ i \in live /\ Sending(i)
  BY DEF TransferFailed, Become, Sending
<1>2. /\ t.state = s /\ t.force = task[i].force /\ s \in {"FINISHED", "FAILED"}
  BY DEF TasksShape, TaskRec
<1>3. Head(down) \in Down /\ Head(down).id = i /\ down # <<>> /\ down' = Tail(down)
      /\ \/ Head(down).kind = "ReadErr" /\ Downloads
         \/ Head(down).kind = "WriteErr"
  BY <1>1, AnswerMeans
<1>4. ASSUME s = "FINISHED" PROVE file = <<Blocks(N)>>
  <2>1. Head(down).err = "eof"
    BY <1>4
  <2>2. Head(down).kind # "WriteErr"
    <3>1. Head(down) \notin Odd
      BY <1>3, FirstAnswer DEF Conversation, Directions
    <3> QED
      BY <1>3, <2>1, <3>1 DEF Odd, Message
  <2>3. Head(down) \in AtEnd(i) /\ Downloads
    BY <1>3, <2>1, <2>2 DEF AtEnd, Message
  <2>4. ~(task[i].progress < N)
    BY <1>1, <1>3, <2>3, FirstAnswer DEF Copying, OneRead
  <2>5. task[i].progress \in Nat /\ task[i].progress >= N /\ task[i].progress > 0
    <3>1. task[i].progress \in Nat
      BY DEF TasksShape, TaskRec
    <3> QED
      BY <2>4, <3>1, Bounds
  <2>6. Exists /\ Size = task[i].progress
    BY <1>1, <2>3, <2>5 DEF Copying, DownloadFits
  <2> QED
    BY <2>5, <2>6, FullCopy
<1> HIDE DEF s, t
<1> QED
  BY <1>1, <1>2, <1>3, <1>4, Finishes

\* The end of the viewer's file finishes an upload all of whose blocks are written.
LEMMA ReadBlockCopies ==
  ASSUME Shape, Shape', Conversation, Conversation', Copying, torn = {}, torn' = {}, ReadBlock
  PROVE  Copy!CopyNext
<1> USE DEF Shape
<1>0. PICK i : i = io.id
  OBVIOUS
<1>1. i \in Ids /\ io.do = "block" /\ Busy /\ file' = file /\ down' = down /\ task[i] \in TaskRec
  BY <1>0 DEF ReadBlock, IOShape, Busy, TasksShape
<1> DEFINE p == IF task[i].fp = "closed" THEN task[i].progress ELSE io.seek
           s == IF task[i].fp # "closed" /\ io.seek >= N THEN "FINISHED" ELSE "FAILED"
           t == [task[i] EXCEPT !.fp = "closed", !.progress = p, !.state = s]
<1>2. [task[i] EXCEPT !.fp = "closed", !.progress = IF task[i].fp = "closed" THEN @ ELSE io.seek,
                      !.state = IF task[i].fp # "closed" /\ io.seek >= N THEN "FINISHED" ELSE "FAILED"]
        = t
  BY <1>1 DEF TaskRec
<1>3. t.state = s /\ t.force = task[i].force /\ s \in {"FINISHED", "FAILED"}
  BY <1>1 DEF TaskRec
<1>4. s = "FINISHED" => io.seek >= N
  OBVIOUS
<1> HIDE DEF p, s, t
<1>5. \/ task' = task
      \/ Sending(i) /\ task' = [task EXCEPT ![i] = [task[i] EXCEPT !.progress = io.seek + 1]]
      \/ Sending(i) /\ task' = [task EXCEPT ![i] = t] /\ Send(Close(i))
  BY <1>0, <1>2 DEF ReadBlock, Sending, Become
<1>6. CASE task' = task
  BY <1>1, <1>6, Asks DEF Copy!CopyNext, Unfinished, Begun
<1>7. CASE Sending(i) /\ task' = [task EXCEPT ![i] = [task[i] EXCEPT !.progress = io.seek + 1]]
  <2>1. [task[i] EXCEPT !.progress = io.seek + 1].state = "TRANSMITTING"
    BY <1>1, <1>7 DEF TaskRec, Sending
  <2> QED
    BY <1>1, <1>7, <2>1, StateUnfinished, Asks DEF Copy!CopyNext
<1>8. CASE Sending(i) /\ task' = [task EXCEPT ![i] = t] /\ Send(Close(i))
  <2>1. Exists /\ io.seek = Size
    BY <1>0, <1>1, <1>8 DEF Copying, Untouched, OneBlock
  <2>2. s = "FINISHED" => file = <<Blocks(N)>>
    BY <1>4, <2>1, FullCopy
  <2> QED
    BY <1>1, <1>3, <1>8, <2>2, Finishes
<1> QED
  BY <1>5, <1>6, <1>7, <1>8

\* The guard creates the copy of an upload, or empties one that may be overwritten.
LEMMA HandleOpenCopies ==
  ASSUME Shape, Shape', Conversation, Conversation', Copying, torn = {}, torn' = {},
         NEW i \in Ids, HandleOpen(i)
  PROVE  Copy!CopyNext
<1> USE DEF Shape
<1> DEFINE o == InitIO(~Downloads, "closed", Head(up).seek, Head(up).force)
<1>1. /\ up # <<>> /\ up' = Tail(up) /\ Head(up) \in Up /\ Head(up).kind = "Open" /\ Head(up).id = i
      /\ UNCHANGED viewer
  BY OpenHandled
<1>2. o.err = "none" => \/ o.file = file
                        \/ o.file = <<<<>>>> /\ ~Downloads /\ (~Exists \/ Head(up).force)
  BY DEF InitIO, Exists
<1> HIDE DEF o
<1>3. PICK r \in Down :
        /\ AnswerTo(Head(up), r) /\ Reply(r)
        /\ \/ r.kind = "OpenOk" /\ o.err = "none" /\ file' = o.file
           \/ r.kind = "OpenErr" /\ UNCHANGED file
  BY OpenHandled DEF o
<1>4. task' = task
  BY <1>1 DEF viewer
<1>5. CASE file' = file
  BY <1>4, <1>5, Asks DEF Copy!CopyNext, Unfinished, Begun
<1>6. CASE r.kind = "OpenOk" /\ file' = o.file /\ file' = <<<<>>>> /\ ~Downloads /\ (~Exists \/ Head(up).force)
  <2>1. Complete' <=> Complete
    BY <1>4, CompleteStays DEF Begun
  <2>2. CASE Exists
    <3>1. Agreed
      <4>1. 1 \in DOMAIN up /\ up[1] = Head(up)
        BY <1>1, Elements DEF NetShape
      <4> QED
        BY <1>1, <1>6, <2>2, <4>1 DEF Agreed
    <3> QED
      BY <1>6, <2>1, <3>1, CopySteps DEF Copy!CopyNext
  <2>3. CASE ~Exists
    <3>1. ~Head(up).force
      BY <1>3, <1>6, <2>3, CreatedUpload DEF o
    <3>2. Head(up) \notin Forced
      BY <3>1 DEF Forced
    <3>3. Agreed' <=> Agreed
      BY <1>1, <1>3, <1>4, <1>6, <3>2, AgreedStays
    <3> QED
      BY <1>6, <2>1, <2>3, <3>3, CopySteps DEF Copy!CopyNext
  <2> QED
    BY <2>2, <2>3
<1> QED
  BY <1>2, <1>3, <1>5, <1>6

\* A block the guard writes is the next one of FileCopy.
LEMMA HandleWriteCopies ==
  ASSUME Shape, Shape', Conversation, Conversation', Copying, torn = {}, torn' = {},
         NEW i \in Ids, HandleWrite(i)
  PROVE  Copy!CopyNext
<1> USE DEF Shape
<1>1. /\ up # <<>> /\ up' = Tail(up) /\ Head(up) \in Up /\ Head(up).kind = "Write"
      /\ UNCHANGED viewer
      /\ \E r \in Down : Reply(r) /\ r.kind = "WriteOk"
  BY WriteHandled
<1>2. Head(up) \in OfKind({"Write", "WriteOk", "WriteErr"}) /\ Head(up) \notin Forced
  BY <1>1 DEF OfKind, Message, Forced
<1>3. ~Downloads
  BY <1>1, <1>2, FirstRequest DEF Conversation, Directions
<1>4. Exists /\ Size < N /\ \E m : file' = Put(m, Size)
  BY <1>3, HandleWriteUpload
<1>5. task' = task
  BY <1>1 DEF viewer
<1>6. Complete' <=> Complete
  BY <1>5, CompleteStays DEF Begun
<1>7. Agreed' <=> Agreed
  BY <1>1, <1>2, <1>5, AgreedStays
<1> QED
  BY <1>4, <1>6, <1>7, Extends

\* While the copy may survive, every step is one of FileCopy.
LEMMA SoundCopies ==
  ASSUME Shape, Shape', Conversation, Conversation', Copying, torn = {}, torn' = {}, [Next]_vars
  PROVE  Copy!CopyNext
<1>1. CASE User
  BY <1>1, UserUnfinished, Asks DEF Copy!CopyNext
<1>2. CASE Exec
  BY <1>2, ExecUnfinished, Asks, StartCopies DEF Exec, Copy!CopyNext
<1>3. CASE Answers
  <2>1. ASSUME \/ Unwanted \/ RequestBlock \/ WriteBlock
               \/ \E i \in Ids : OpenSucceeded(i) \/ OpenFailed(i) \/ BlockTaken(i)
        PROVE  Copy!CopyNext
    BY <2>1, AnswersUnfinished, Asks DEF Copy!CopyNext
  <2> QED
    BY <1>3, <2>1, BlockArrivedCopies, TransferFailedCopies, ReadBlockCopies DEF Answers
<1>4. CASE Handlers
  <2>1. ASSUME \E i \in Ids : HandleClose(i) \/ HandleRead(i) PROVE Copy!CopyNext
    BY <2>1, OthersUnfinished, Asks DEF Copy!CopyNext
  <2> QED
    BY <1>4, <2>1, HandleOpenCopies, HandleWriteCopies DEF Handlers
<1>5. CASE GuardExec \/ Environment
  BY <1>5, OthersUnfinished, Asks DEF Copy!CopyNext
<1>6. CASE UNCHANGED vars
  <2>1. Unfinished /\ file' = file
    BY <1>6 DEF vars, viewer, Unfinished, Begun
  <2> QED
    BY <2>1, Asks DEF Copy!CopyNext
<1> QED
  BY <1>1, <1>2, <1>3, <1>4, <1>5, <1>6 DEF Next

\* The step that damages the copy does not change it.
LEMMA DamageKeepsFile ==
  ASSUME [Next]_vars, torn' # torn
  PROVE  file' = file
<1>1. ASSUME User PROVE file' = file
  BY <1>1 DEF User, AddTask, RemoveTask, Overwrite, StopTask, ResumeTask
<1>2. ASSUME Exec PROVE file' = file
  BY <1>2 DEF Exec, Start, RemoteOpen, Watch, TimeOut, Drop
<1>3. ASSUME Answers PROVE file' = file
  BY <1>3 DEF Answers, Unwanted, RequestBlock, ReadBlock, WriteBlock, OpenSucceeded, OpenFailed,
              TransferFailed, BlockArrived, BlockTaken
<1>4. ASSUME Handlers PROVE file' = file
  BY <1>4 DEF Handlers, HandleOpen, HandleClose, HandleRead, HandleWrite
<1>5. ASSUME GuardExec PROVE file' = file
  BY <1>5 DEF GuardExec, GuardTake, GuardWatch, GuardTimeOut, GuardDrop
<1>6. ASSUME Environment PROVE file' = file
  BY <1>6 DEF Environment, LoseConnection, RestartViewer, Reconnect, Unroutable, RestartGuard
<1>7. UNCHANGED vars => file' = file
  BY DEF vars
<1> QED
  BY <1>1, <1>2, <1>3, <1>4, <1>5, <1>6, <1>7 DEF Next

\* Every step is one of FileCopy, or a stutter.
LEMMA CopyStep ==
  ASSUME Shape, Shape', Sound, [Next]_vars
  PROVE  Copy!CopyNext
<1>1. CASE torn # {}
  <2>1. torn' # {}
    BY <1>1, TornStays
  <2> QED
    BY <1>1, <2>1 DEF Copy!CopyNext, Copy!Damaged
<1>2. CASE torn = {} /\ torn' # {}
  <2>1. file' = file
    BY <1>2, DamageKeepsFile
  <2>2. Agreed' \in BOOLEAN /\ (\E i \in Latest : task[i].state = "FINISHED")' \in BOOLEAN
    BY DEF Agreed
  <2> QED
    BY <1>2, <2>1, <2>2 DEF Copy!CopyNext, Copy!Damage
<1>3. CASE torn = {} /\ torn' = {}
  BY <1>3, CopyingStep, SoundCopies
<1> QED
  BY <1>1, <1>2, <1>3

\* Whatever is stopped, resumed, removed, overwritten or lost: a copy that was there is emptied
\* only after the user has agreed, it grows by the next block of the original, and the task is
\* FINISHED only when the copy is the original.
THEOREM CopyImplemented == Spec => ImplementsCopy
<1>1. Init => Copy!CopyInit
  <2>1. ASSUME Init PROVE file = <<>> /\ ~Agreed /\ ~Complete /\ torn = {}
    BY <2>1 DEF Init, Agreed, Complete, Latest, NoTask
  <2> QED
    BY <2>1 DEF Copy!CopyInit, Complete
<1>2. Shape /\ Shape' /\ Sound /\ [Next]_vars => [Copy!CopyNext]_(Copy!copyVars)
  BY CopyStep
<1> QED
  BY <1>1, <1>2, ShapeAlways, SoundAlways, PTL DEF Spec, ImplementsCopy, Copy!CopySpec
=============================================================================
