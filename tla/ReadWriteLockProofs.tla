------------------------ MODULE ReadWriteLockProofs ------------------------
(***************************************************************************)
(* ReadWriteLock is correct for any finite set of threads and any of the   *)
(* four operations: its inductive invariant, and the refinement of         *)
(* AbstractRWLock.  The argument is one of counting: each counter equals   *)
(* the number of threads at the program points where they have announced   *)
(* themselves, so a counter read as 0 says that nobody is there.           *)
(***************************************************************************)
EXTENDS ReadWriteLock, FiniteSetTheorems, TLAPS

\* The inductive invariant. Exclusion is not inductive alone: that a reader may enter
\* when it reads m_write = 0 rests on what the counters count.
IInv == TypeOK /\ CountsExact /\ Exclusion

\* The number of announced threads after a thread has moved between two program points.
Moved(n, from, to, S) ==
  CASE to \in S /\ from \notin S -> n + 1
    [] to \notin S /\ from \in S -> n - 1
    [] OTHER                     -> n

-----------------------------------------------------------------------------
\* Sets of threads at given program points are finite, so they can be counted.
LEMMA InFinite == \A S : IsFiniteSet(In(S)) /\ Cardinality(In(S)) \in Nat
<1> TAKE S
<1>1. In(S) \in SUBSET Threads
  BY DEF In
<1>2. IsFiniteSet(In(S))
  BY <1>1, ThreadsFinite, FS_Subset
<1> QED
  BY <1>2, FS_CardinalityType

\* A thread that moves enters or leaves the set of threads at the program points S.
LEMMA InGoto ==
  ASSUME TypeOK, NEW t \in Threads, NEW from, NEW to, NEW S, Goto(t, from, to)
  PROVE  In(S)' = IF to \in S THEN In(S) \cup {t} ELSE In(S) \ {t}
BY DEF TypeOK, Goto, In

\* ... and the number of threads there changes accordingly.
LEMMA CardGoto ==
  ASSUME TypeOK, NEW t \in Threads, NEW from, NEW to, NEW S, Goto(t, from, to)
  PROVE  Cardinality(In(S)') = Moved(Cardinality(In(S)), from, to, S)
<1>1. IsFiniteSet(In(S)) /\ Cardinality(In(S)) \in Nat
  BY InFinite
<1>2. t \in In(S) <=> from \in S
  BY DEF Goto, In
<1>3. CASE to \in S
  <2>1. In(S)' = In(S) \cup {t}
    BY <1>3, InGoto
  <2> QED
    BY <1>1, <1>2, <1>3, <2>1, FS_AddElement DEF Moved
<1>4. CASE to \notin S
  <2>1. In(S)' = In(S) \ {t}
    BY <1>4, InGoto
  <2> QED
    BY <1>1, <1>2, <1>4, <2>1, FS_RemoveElement DEF Moved
<1> QED
  BY <1>3, <1>4

\* m_write is 0 only when no thread has claimed it, m_read only when none is announced.
LEMMA ZeroMeansNobody ==
  ASSUME CountsExact
  PROVE  /\ m_write = 0 <=> In(CountedWriter) = {}
         /\ m_read = 0 <=> In(CountedReader) = {}
BY InFinite, FS_EmptySet DEF CountsExact

\* At most one thread has claimed m_write.
LEMMA OneWriter ==
  ASSUME TypeOK, CountsExact, NEW t \in In(CountedWriter)
  PROVE  m_write = 1 /\ In(CountedWriter) = {t}
<1>1. m_write = 1
  BY ZeroMeansNobody DEF TypeOK
<1>2. \E u : In(CountedWriter) = {u}
  BY <1>1, InFinite, FS_Singleton DEF CountsExact
<1> QED
  BY <1>1, <1>2

\* What every step has in common: one thread moves, the counters follow it, and the lock
\* is entered only where the other counter has been read as 0.
Shape(t, from, to) ==
  /\ Goto(t, from, to)
  /\ m_read' = Moved(m_read, from, to, CountedReader)
  /\ m_write' = Moved(m_write, from, to, CountedWriter)
  /\ to \in CountedWriter /\ from \notin CountedWriter => m_write = 0
  /\ to = "reading" => m_write = 0
  /\ to = "writing" => m_read = 0 /\ from \in CountedWriter

LEMMA StepShape ==
  ASSUME TypeOK, CountsExact, NEW t \in Threads, Call(t) \/ Step(t)
  PROVE  \E from, to \in PCs : Shape(t, from, to)
<1>0. pc[t] \in CountedWriter => m_write = 1
  BY OneWriter DEF In
<1> USE DEF Shape, Moved, Goto, CountedReader, CountedWriter, PCs, TypeOK
<1>1. CASE Call(t)
  <2>1. \E to \in {"r_spin", "tr_inc", "w_cas", "tw_cas"} :
           Goto(t, "idle", to) /\ UNCHANGED <<m_read, m_write>>
    BY <1>1, OpsKnown DEF Call, AcquireOps
  <2> QED
    BY <2>1
<1>2. CASE ReadLock(t)
  BY <1>2 DEF ReadLock
<1>3. CASE TryReadLock(t)
  BY <1>3 DEF TryReadLock
<1>4. CASE ReadUnlock(t)
  BY <1>4 DEF ReadUnlock
<1>5. CASE WriteLock(t)
  BY <1>5 DEF WriteLock
<1>6. CASE TryWriteLock(t)
  BY <1>0, <1>6 DEF TryWriteLock
<1>7. CASE WriteUnlock(t)
  BY <1>0, <1>7 DEF WriteUnlock
<1> QED
  BY <1>1, <1>2, <1>3, <1>4, <1>5, <1>6, <1>7 DEF Step

-----------------------------------------------------------------------------
LEMMA InitIInv == Init => IInv
<1> SUFFICES ASSUME Init PROVE IInv
  OBVIOUS
<1>1. TypeOK
  BY DEF Init, TypeOK, PCs
<1>2. In(CountedReader) = {} /\ In(CountedWriter) = {} /\ In({"writing"}) = {}
  BY DEF Init, In, CountedReader, CountedWriter
<1> QED
  BY <1>1, <1>2, FS_EmptySet DEF Init, IInv, CountsExact, Exclusion

LEMMA NextIInv == IInv /\ [Next]_vars => IInv'
<1> SUFFICES ASSUME IInv, [Next]_vars PROVE IInv'
  OBVIOUS
<1> USE DEF IInv
<1>1. CASE Next
  <2>1. PICK t \in Threads : Call(t) \/ Step(t)
    BY <1>1 DEF Next
  <2>2. PICK from \in PCs, to \in PCs : Shape(t, from, to)
    BY <2>1, StepShape
  <2>3. CountsExact'
    <3>1. /\ Cardinality(In(CountedReader)') = Moved(m_read, from, to, CountedReader)
          /\ Cardinality(In(CountedWriter)') = Moved(m_write, from, to, CountedWriter)
      BY <2>2, CardGoto DEF CountsExact, Shape
    <3> QED
      BY <2>2, <3>1 DEF CountsExact, Shape
  <2>4. TypeOK'
    <3>1. m_read' \in Nat
      <4>1. Cardinality(In(CountedReader)') \in Nat
        <5>1. In(CountedReader)' \in SUBSET Threads
          BY DEF In
        <5> QED
          BY <5>1, ThreadsFinite, FS_Subset, FS_CardinalityType
      <4> QED
        BY <4>1, <2>3 DEF CountsExact
    <3>2. m_write' \in {0, 1}
      <4>1. from \in CountedWriter => m_write = 1
        BY <2>2, OneWriter DEF In, Shape, Goto
      <4> QED
        BY <4>1, <2>2 DEF Shape, Moved, TypeOK
    <3>3. pc' \in [Threads -> PCs]
      BY <2>2 DEF Shape, Goto, TypeOK
    <3> QED
      BY <3>1, <3>2, <3>3 DEF TypeOK
  <2>5. Exclusion'
    <3>1. In({"reading", "writing"})' =
            IF to \in {"reading", "writing"}
            THEN In({"reading", "writing"}) \cup {t} ELSE In({"reading", "writing"}) \ {t}
      BY <2>2 DEF Shape, Goto, In, TypeOK
    <3>2. In({"writing"})' = IF to = "writing" THEN In({"writing"}) \cup {t}
                                               ELSE In({"writing"}) \ {t}
      BY <2>2 DEF Shape, Goto, In, TypeOK
    <3>3. CASE to = "writing"
      <4>1. In(CountedReader) = {} /\ In(CountedWriter) = {t}
        BY <3>3, <2>2, ZeroMeansNobody, OneWriter DEF Shape, Goto, In
      <4>2. In({"reading", "writing"}) \subseteq {t} /\ In({"writing"}) \subseteq {t}
        BY <4>1 DEF In, CountedReader, CountedWriter
      <4> QED
        BY <3>1, <3>2, <3>3, <4>2 DEF Exclusion
    <3>4. CASE to = "reading"
      <4>1. In(CountedWriter) = {}
        BY <3>4, <2>2, ZeroMeansNobody DEF Shape
      <4>2. In({"writing"}) = {}
        BY <4>1 DEF In, CountedWriter
      <4> QED
        BY <3>2, <3>4, <4>2 DEF Exclusion
    <3>5. CASE to \notin {"reading", "writing"}
      BY <3>1, <3>2, <3>5 DEF Exclusion
    <3> QED
      BY <3>3, <3>4, <3>5
  <2> QED
    BY <2>3, <2>4, <2>5
<1>2. CASE UNCHANGED vars
  BY <1>2 DEF vars, TypeOK, CountsExact, Exclusion, In
<1> QED
  BY <1>1, <1>2

LEMMA Inductive == Spec => []IInv
BY InitIInv, NextIInv, PTL DEF Spec

\* The counters and program points keep their types; m_write never leaves {0, 1} although
\* writeUnlock decrements it without a check.
THEOREM TypeCorrect == Spec => []TypeOK
BY Inductive, PTL DEF IInv

\* No operation loses or forges a count, for any number of threads.
THEOREM CountsCorrect == Spec => []CountsExact
BY Inductive, PTL DEF IInv

\* No thread reads or writes the room table while another one is writing it, for any
\* number of threads and any mix of the four operations.
THEOREM LockExcludes == Spec => []Exclusion
BY Inductive, PTL DEF IInv

-----------------------------------------------------------------------------
LEMMA InitRefines == Init => Abs!AInit
BY DEF Init, Abs!AInit, In

LEMMA NextRefines == IInv /\ [Next]_vars => [Abs!ANext]_(Abs!avars)
<1> SUFFICES ASSUME IInv, [Next]_vars PROVE [Abs!ANext]_(Abs!avars)
  OBVIOUS
<1> USE DEF IInv
<1>1. CASE Next
  <2>1. PICK t \in Threads : Call(t) \/ Step(t)
    BY <1>1 DEF Next
  <2>2. PICK from \in PCs, to \in PCs : Shape(t, from, to)
    BY <2>1, StepShape
  <2> DEFINE Readers == In({"reading"})
             Writers == In({"writing"})
  <2>3. /\ Readers' = IF to = "reading" THEN Readers \cup {t} ELSE Readers \ {t}
        /\ Writers' = IF to = "writing" THEN Writers \cup {t} ELSE Writers \ {t}
    BY <2>2 DEF Shape, Goto, In, TypeOK
  <2>4. /\ to = "reading" => Writers = {}
        /\ to = "writing" => Readers = {} /\ Writers \subseteq {t}
        /\ t \in Readers <=> from = "reading"
        /\ t \in Writers <=> from = "writing"
    <3>1. to = "reading" => In(CountedWriter) = {}
      BY <2>2, ZeroMeansNobody DEF Shape
    <3>2. to = "writing" => In(CountedReader) = {} /\ In(CountedWriter) = {t}
      BY <2>2, ZeroMeansNobody, OneWriter DEF Shape, Goto, In
    <3> QED
      BY <3>1, <3>2, <2>2 DEF In, CountedReader, CountedWriter, Shape, Goto
  <2> HIDE DEF Readers, Writers
  <2>5. \/ UNCHANGED <<Readers, Writers>>
        \/ t \notin Readers /\ Writers = {} /\ Readers' = Readers \cup {t} /\ Writers' = Writers
        \/ t \in Readers /\ Readers' = Readers \ {t} /\ Writers' = Writers
        \/ Readers = {} /\ Writers = {} /\ Writers' = {t} /\ Readers' = Readers
        \/ t \in Writers /\ Writers' = Writers \ {t} /\ Readers' = Readers
    <3>1. from = "reading" => to # "writing"
      BY <2>2 DEF Shape, CountedWriter
    <3>2. from = "writing" => to # "reading"
      <4>1. pc[t] = "writing" => m_write = 1
        BY OneWriter DEF In, CountedWriter
      <4> QED
        BY <4>1, <2>2 DEF Shape, Goto
    <3> QED
      BY <3>1, <3>2, <2>3, <2>4
  <2> QED
    BY <2>5 DEF Readers, Writers, Abs!ANext, Abs!avars,
                Abs!BeginRead, Abs!EndRead, Abs!BeginWrite, Abs!EndWrite
<1>2. CASE UNCHANGED vars
  BY <1>2 DEF vars, Abs!avars, In
<1> QED
  BY <1>1, <1>2

\* The two-counter protocol implements the readers-writer lock its callers rely on.
THEOREM Refinement == Spec => ImplementsRWLock
BY Inductive, InitRefines, NextRefines, PTL DEF Spec, ImplementsRWLock, Abs!ASpec
=============================================================================
