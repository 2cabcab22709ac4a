----------------------- MODULE RequestProcessorProofs -----------------------
(***************************************************************************)
(* For any connections, limit and number of requests: the heap holds each  *)
(* connection that has requests, once; requests are handled in order; and  *)
(* the worker does not sleep over work.  For the last the invariant says   *)
(* what holds inside push: a heap that is not empty although the worker    *)
(* waits was found empty by this push, which will wake it.                 *)
(***************************************************************************)
EXTENDS RequestProcessor, FiniteSetTheorems, SequenceTheorems, TLAPS

\* Who may find work in the heap while the worker waits: nobody, or the push that put it
\* there and will wake the worker.
Awake ==
  /\ holder = "worker" => wpc = "lock"
  /\ wpc = "wait" /\ holder = "nobody" => Queued = {}
  /\ wpc = "wait" /\ holder = "io" /\ Queued # {} => emptied

IInv == TypeOK /\ QueueMatches /\ InOrder /\ Awake

-----------------------------------------------------------------------------
\* The first of the requests that wait moves to the end of those handled.
LEMMA MoveHead ==
  ASSUME NEW h \in Seq(Nat), NEW r \in Seq(Nat), r # <<>>
  PROVE  /\ Append(h, Head(r)) \in Seq(Nat) /\ Tail(r) \in Seq(Nat)
         /\ Append(h, Head(r)) \o Tail(r) = h \o r
<1>1. Head(r) \in Nat /\ Tail(r) \in Seq(Nat) /\ Len(Tail(r)) = Len(r) - 1
  OBVIOUS
<1>2. /\ Append(h, Head(r)) \o Tail(r) \in Seq(Nat) /\ h \o r \in Seq(Nat)
      /\ Len(Append(h, Head(r)) \o Tail(r)) = Len(h \o r)
  BY <1>1
<1>3. \A i \in 1..Len(h \o r) : (Append(h, Head(r)) \o Tail(r))[i] = (h \o r)[i]
  BY <1>1
<1> QED
  BY <1>1, <1>2, <1>3, SeqEqual

\* A new request at the end of those that wait is the last of them all.
LEMMA AppendLast ==
  ASSUME NEW h \in Seq(Nat), NEW r \in Seq(Nat), NEW x \in Nat
  PROVE  /\ Append(r, x) \in Seq(Nat) /\ Append(r, x) # <<>>
         /\ h \o Append(r, x) = Append(h \o r, x)
<1>1. /\ h \o Append(r, x) \in Seq(Nat) /\ Append(h \o r, x) \in Seq(Nat)
      /\ Len(h \o Append(r, x)) = Len(Append(h \o r, x))
  OBVIOUS
<1>2. \A i \in 1..Len(Append(h \o r, x)) : (h \o Append(r, x))[i] = Append(h \o r, x)[i]
  OBVIOUS
<1>3. h \o Append(r, x) = Append(h \o r, x)
  BY <1>1, <1>2, SeqEqual
<1>4. Append(r, x) \in Seq(Nat) /\ Len(Append(r, x)) = Len(r) + 1 /\ Len(r) \in Nat
  OBVIOUS
<1>5. Append(r, x) # <<>>
  BY <1>4, EmptySeq
<1> QED
  BY <1>3, <1>4, <1>5

\* The number that a connection's next data request gets.
LEMMA NumberNat ==
  ASSUME TypeOK, NEW c \in Connections
  PROVE  Cardinality({i \in DOMAIN accepted[c] : accepted[c][i] # Clean}) \in Nat
<1>1. DOMAIN accepted[c] = 1..Len(accepted[c]) /\ Len(accepted[c]) \in Nat
  BY DEF TypeOK
<1>2. IsFiniteSet(DOMAIN accepted[c])
  BY <1>1, FS_Interval
<1> QED
  BY <1>2, FS_Subset, FS_CardinalityType

-----------------------------------------------------------------------------
\* push keeps the invariant, whether it handles the request itself or leaves it.
LEMMA AcceptKeeps ==
  ASSUME IInv, NEW c \in Connections, NEW r \in Nat, Accept(c, r),
         peer' \in [Connections -> {"open", "closing", "reported"}], UNCHANGED m_exit
  PROVE  IInv'
<1> USE DEF IInv
<1>1. CASE /\ requests[c] = <<>> /\ Retag(c)
           /\ handled' = [handled EXCEPT ![c] = Append(@, r)]
           /\ UNCHANGED <<requests, m_queue, thread>>
  <2>1. TypeOK'
    BY <1>1, AppendLast DEF TypeOK, Accept, Retag, thread
  <2>2. QueueMatches'
    BY <1>1 DEF QueueMatches
  <2>3. InOrder'
    <3> SUFFICES ASSUME NEW d \in Connections
                 PROVE  handled'[d] \o requests'[d] = accepted'[d]
      BY DEF InOrder
    <3>1. CASE d = c
      <4>1. handled[c] \in Seq(Nat) /\ handled[c] \o <<>> = accepted[c]
        BY <1>1 DEF TypeOK, InOrder
      <4>2. handled[c] = accepted[c]
        BY <4>1, ConcatEmptySeq
      <4>3. Append(handled[c], r) \in Seq(Nat)
        BY <4>1
      <4>4. Append(handled[c], r) \o <<>> = Append(handled[c], r)
        BY <4>3, ConcatEmptySeq
      <4> QED
        BY <1>1, <3>1, <4>2, <4>4 DEF TypeOK, Accept
    <3>2. CASE d # c
      BY <1>1, <3>2 DEF TypeOK, Accept, InOrder
    <3> QED
      BY <3>1, <3>2
  <2>4. Awake'
    BY <1>1 DEF Awake, Queued, thread
  <2> QED
    BY <2>1, <2>2, <2>3, <2>4
<1>2. CASE /\ requests' = [requests EXCEPT ![c] = Append(@, r)]
           /\ IF requests[c] = <<>> THEN m_queue' = [m_queue EXCEPT ![c] = @ + 1] /\ Retag(c)
                                    ELSE UNCHANGED <<m_queue, due>>
           /\ holder' = "io" /\ emptied' = (Queued = {})
           /\ UNCHANGED <<wpc, handled>>
  <2>1. TypeOK'
    <3>1. requests' \in [Connections -> Seq(Nat)] /\ accepted' \in [Connections -> Seq(Nat)]
      BY <1>2, AppendLast DEF TypeOK, Accept
    <3>2. m_queue' \in [Connections -> Nat] /\ due' \subseteq Connections
      <4>1. CASE requests[c] = <<>>
        <5>1. m_queue' = [m_queue EXCEPT ![c] = @ + 1] /\ Retag(c)
          BY <1>2, <4>1
        <5> QED
          BY <5>1 DEF TypeOK, Retag
      <4>2. CASE requests[c] # <<>>
        <5>1. UNCHANGED <<m_queue, due>>
          BY <1>2, <4>2
        <5> QED
          BY <5>1 DEF TypeOK
      <4> QED
        BY <4>1, <4>2
    <3> QED
      BY <1>2, <3>1, <3>2 DEF TypeOK
  <2>2. QueueMatches'
    <3>1. requests'[c] # <<>> /\ m_queue'[c] = 1
      BY <1>2, AppendLast DEF TypeOK, QueueMatches
    <3> QED
      BY <1>2, <3>1 DEF TypeOK, QueueMatches
  <2>3. InOrder'
    <3> SUFFICES ASSUME NEW d \in Connections
                 PROVE  handled'[d] \o requests'[d] = accepted'[d]
      BY DEF InOrder
    <3>1. CASE d = c
      <4>1. handled[c] \in Seq(Nat) /\ requests[c] \in Seq(Nat)
        BY DEF TypeOK
      <4>2. handled[c] \o Append(requests[c], r) = Append(accepted[c], r)
        <5>1. handled[c] \o requests[c] = accepted[c]
          BY DEF InOrder
        <5>2. handled[c] \o Append(requests[c], r) = Append(handled[c] \o requests[c], r)
          BY <4>1, AppendLast
        <5> QED
          BY <5>1, <5>2
      <4>3. handled'[c] = handled[c] /\ requests'[c] = Append(requests[c], r)
        BY <1>2 DEF TypeOK
      <4>4. accepted'[c] = Append(accepted[c], r)
        BY DEF TypeOK, Accept
      <4> QED
        BY <3>1, <4>2, <4>3, <4>4
    <3>2. CASE d # c
      BY <1>2, <3>2 DEF TypeOK, Accept, InOrder
    <3> QED
      BY <3>1, <3>2
  <2>4. Awake'
    BY <1>2 DEF Awake, Accept
  <2> QED
    BY <2>1, <2>2, <2>3, <2>4
<1> QED
  BY <1>1, <1>2 DEF Accept

\* Handling the first request of a connection of the heap keeps the invariant.
LEMMA PullKeeps ==
  ASSUME IInv, NEW th \in {"io", "worker"}, Pull(th)
  PROVE  IInv'
<1> USE DEF IInv
<1>1. PICK c \in Queued :
        /\ requests' = [requests EXCEPT ![c] = Tail(@)]
        /\ handled' = [handled EXCEPT ![c] = Append(@, Head(requests[c]))]
        /\ m_queue' = [m_queue EXCEPT ![c] = IF Tail(requests[c]) = <<>> THEN @ - 1 ELSE @]
        /\ Retag(c)
  BY DEF Pull
<1>2. c \in Connections /\ requests[c] # <<>> /\ m_queue[c] = 1
  BY DEF Queued, QueueMatches
<1>3. /\ requests[c] \in Seq(Nat) /\ handled[c] \in Seq(Nat)
  BY <1>2 DEF TypeOK
<1>4. /\ Append(handled[c], Head(requests[c])) \in Seq(Nat) /\ Tail(requests[c]) \in Seq(Nat)
      /\ Append(handled[c], Head(requests[c])) \o Tail(requests[c]) = handled[c] \o requests[c]
  BY <1>2, <1>3, MoveHead
<1>5. TypeOK'
  <2>1. requests' \in [Connections -> Seq(Nat)] /\ handled' \in [Connections -> Seq(Nat)]
    BY <1>1, <1>4 DEF TypeOK
  <2>2. m_queue' \in [Connections -> Nat] /\ due' \subseteq Connections
    BY <1>1, <1>2 DEF TypeOK, Retag
  <2> QED
    BY <2>1, <2>2 DEF TypeOK, Pull, thread
<1>6. QueueMatches'
  <2> SUFFICES ASSUME NEW d \in Connections
               PROVE  m_queue'[d] = IF requests'[d] = <<>> THEN 0 ELSE 1
    BY DEF QueueMatches
  <2>1. CASE d = c
    <3>1. requests'[d] = Tail(requests[c])
      BY <1>1, <1>2, <2>1 DEF TypeOK
    <3>2. m_queue'[d] = IF Tail(requests[c]) = <<>> THEN 0 ELSE 1
      BY <1>1, <1>2, <2>1 DEF TypeOK
    <3> QED
      BY <3>1, <3>2
  <2>2. CASE d # c
    BY <1>1, <2>2 DEF TypeOK, QueueMatches
  <2> QED
    BY <2>1, <2>2
<1>7. InOrder'
  <2> SUFFICES ASSUME NEW d \in Connections
               PROVE  handled'[d] \o requests'[d] = accepted'[d]
    BY DEF InOrder
  <2>1. CASE d = c
    <3>1. /\ handled'[d] = Append(handled[c], Head(requests[c]))
          /\ requests'[d] = Tail(requests[c])
      BY <1>1, <1>2, <2>1 DEF TypeOK
    <3> QED
      BY <1>4, <2>1, <3>1 DEF InOrder, Pull
  <2>2. CASE d # c
    BY <1>1, <2>2 DEF TypeOK, InOrder, Pull
  <2> QED
    BY <2>1, <2>2
<1>8. Awake'
  <2>1. Queued' \subseteq Queued
    BY <1>1, <1>2 DEF TypeOK, Queued
  <2> QED
    BY <2>1 DEF Awake, Pull, thread
<1> QED
  BY <1>5, <1>6, <1>7, <1>8

-----------------------------------------------------------------------------
\* Nothing has been received: all queues are empty.
LEMMA InitIInv == Init => IInv
<1> SUFFICES ASSUME Init PROVE IInv
  OBVIOUS
<1>1. TypeOK
  BY EmptySeq DEF Init, TypeOK
<1>2. QueueMatches
  BY DEF Init, QueueMatches
<1>3. InOrder
  BY DEF Init, InOrder
<1>4. Awake
  BY DEF Init, Awake
<1> QED
  BY <1>1, <1>2, <1>3, <1>4 DEF IInv

\* Every step keeps the invariant.
LEMMA NextIInv == IInv /\ [Next]_vars => IInv'
<1> SUFFICES ASSUME IInv, [Next]_vars PROVE IInv'
  OBVIOUS
<1> USE DEF IInv
<1>1. ASSUME NEW c \in Connections, Receive(c) PROVE IInv'
  <2> DEFINE n == Cardinality({i \in DOMAIN accepted[c] : accepted[c][i] # Clean})
  <2>1. n + 1 \in Nat
    BY NumberNat
  <2>2. CASE Accept(c, n + 1) /\ UNCHANGED peer
    BY <1>1, <2>1, <2>2, AcceptKeeps DEF Receive, TypeOK
  <2>3. CASE /\ peer' = [peer EXCEPT ![c] = "closing"]
             /\ UNCHANGED <<requests, m_queue, due, thread, accepted, handled>>
    BY <1>1, <2>3 DEF Receive, TypeOK, QueueMatches, InOrder, Awake, Queued, thread
  <2> QED
    BY <1>1, <2>2, <2>3 DEF Receive
<1>2. ASSUME NEW c \in Connections, Close(c) PROVE IInv'
  BY <1>2 DEF Close, TypeOK, QueueMatches, InOrder, Awake, Queued, thread
<1>3. ASSUME NEW c \in Connections, Report(c) PROVE IInv'
  <2>1. peer' \in [Connections -> {"open", "closing", "reported"}]
    BY <1>3 DEF Report, TypeOK
  <2>2. CASE Accept(c, Clean)
    BY <1>3, <2>1, <2>2, AcceptKeeps DEF Report, Clean
  <2>3. CASE UNCHANGED <<requests, m_queue, due, thread, accepted, handled>>
    BY <1>3, <2>1, <2>3 DEF Report, TypeOK, QueueMatches, InOrder, Awake, Queued, thread
  <2> QED
    BY <1>3, <2>2, <2>3 DEF Report
<1>4. ASSUME NEW c \in Connections, BecomesDue(c) PROVE IInv'
  BY <1>4 DEF BecomesDue, TypeOK, QueueMatches, InOrder, Awake, Queued, thread
<1>5. ASSUME NEW th \in {"io", "worker"}, Pull(th) PROVE IInv'
  BY <1>5, PullKeeps
<1>6. CASE PushEnd
  BY <1>6 DEF PushEnd, TypeOK, QueueMatches, InOrder, Awake, Queued
<1>7. CASE WorkerTop
  BY <1>7 DEF WorkerTop, TypeOK, QueueMatches, InOrder, Awake, Queued
<1>8. CASE WorkerLock
  BY <1>8 DEF WorkerLock, TypeOK, QueueMatches, InOrder, Awake, Queued
<1>9. CASE WorkerEnd
  BY <1>9 DEF WorkerEnd, TypeOK, QueueMatches, InOrder, Awake, Queued
<1>10. CASE SpuriousWakeUp
  BY <1>10 DEF SpuriousWakeUp, TypeOK, QueueMatches, InOrder, Awake, Queued
<1>11. CASE SetExit
  BY <1>11 DEF SetExit, TypeOK, QueueMatches, InOrder, Awake, Queued, thread
<1>12. CASE NotifyAll
  BY <1>12 DEF NotifyAll, TypeOK, QueueMatches, InOrder, Awake, Queued
<1>13. CASE UNCHANGED vars
  BY <1>13 DEF vars, TypeOK, QueueMatches, InOrder, Awake, Queued, thread
<1> QED
  BY <1>1, <1>2, <1>3, <1>4, <1>5, <1>6, <1>7, <1>8, <1>9, <1>10, <1>11, <1>12, <1>13
  DEF Next, IOStep, WorkerStep, Idle

\* The invariant holds in every reachable state.
LEMMA Invariant == Spec => []IInv
BY InitIInv, NextIInv, PTL DEF Spec

-----------------------------------------------------------------------------
\* Types are kept, whatever connections send and whenever they are due.
THEOREM Typing == Spec => []TypeOK
<1>1. IInv => TypeOK
  BY DEF IInv
<1> QED
  BY <1>1, Invariant, PTL

\* A connection is in the heap exactly once while it has requests: pull finds one.
THEOREM HeapComplete == Spec => []QueueMatches
<1>1. IInv => QueueMatches
  BY DEF IInv
<1> QED
  BY <1>1, Invariant, PTL

\* The two threads of a heap handle the requests of a connection in the order received,
\* each once.
THEOREM Ordered == Spec => []InOrder
<1>1. IInv => InOrder
  BY DEF IInv
<1> QED
  BY <1>1, Invariant, PTL

\* The worker does not sleep over work, although push notifies only a heap found empty.
THEOREM WokenUp == Spec => []NoLostWakeUp
<1>1. IInv => NoLostWakeUp
  BY DEF IInv, Awake, NoLostWakeUp
<1> QED
  BY <1>1, Invariant, PTL
=============================================================================
