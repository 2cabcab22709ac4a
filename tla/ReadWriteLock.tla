---------------------------- MODULE ReadWriteLock ----------------------------
(***************************************************************************)
(* The spin lock of Global/Component/ReadWriteLock that protects the room  *)
(* table of SharingRoomManager: two atomic counters and no queue.  One     *)
(* step is one atomic operation of the code (a load, ++, --, or            *)
(* compare_exchange), so every interleaving of two threads is a behaviour. *)
(***************************************************************************)
EXTENDS Naturals, FiniteSets

CONSTANTS Threads,   \* the threads that share the lock
          Ops        \* the acquiring operations the threads use

AcquireOps == {"readLock", "tryReadLock", "writeLock", "tryWriteLock"}

ASSUME ThreadsFinite == IsFiniteSet(Threads)
ASSUME OpsKnown == Ops \subseteq AcquireOps

VARIABLES m_read,    \* std::atomic<int>: readers in, or trying to get in
          m_write,   \* std::atomic<int>: 1 while a writer is in, or draining readers
          pc         \* where in its operation each thread is

vars == <<m_read, m_write, pc>>

Goto(t, from, to) == pc[t] = from /\ pc' = [pc EXCEPT ![t] = to]

Init == m_read = 0 /\ m_write = 0 /\ pc = [t \in Threads |-> "idle"]

\* A thread enters one of the acquiring operations it uses.
Call(t) ==
  /\ \E op \in Ops :
       Goto(t, "idle", CASE op = "readLock"     -> "r_spin"
                         [] op = "tryReadLock"  -> "tr_inc"
                         [] op = "writeLock"    -> "w_cas"
                         [] op = "tryWriteLock" -> "tw_cas")
  /\ UNCHANGED <<m_read, m_write>>

-----------------------------------------------------------------------------
\* Mutant: a reader that met a writer keeps its count while it waits.
ReadLockKeepsCount(t) ==
  \/ m_write = 0 /\ Goto(t, "r_spin", "r_inc") /\ UNCHANGED <<m_read, m_write>>
  \/ Goto(t, "r_inc", "r_check") /\ m_read' = m_read + 1 /\ UNCHANGED m_write
  \/ m_write = 0 /\ Goto(t, "r_check", "reading") /\ UNCHANGED <<m_read, m_write>>

\* Mutant: readLock trusts the first load and does not look again.
ReadLockNoRecheck(t) ==
  \/ m_write = 0 /\ Goto(t, "r_spin", "r_inc") /\ UNCHANGED <<m_read, m_write>>
  \/ Goto(t, "r_inc", "reading") /\ m_read' = m_read + 1 /\ UNCHANGED m_write

\* readLock: wait until no writer is seen, announce the reader, look again.
ReadLock(t) ==
  \/ m_write = 0 /\ Goto(t, "r_spin", "r_inc") /\ UNCHANGED <<m_read, m_write>>
  \/ Goto(t, "r_inc", "r_check") /\ m_read' = m_read + 1 /\ UNCHANGED m_write
  \/ m_write # 0 /\ Goto(t, "r_check", "r_dec") /\ UNCHANGED <<m_read, m_write>>
  \/ Goto(t, "r_dec", "r_spin") /\ m_read' = m_read - 1 /\ UNCHANGED m_write
  \/ m_write = 0 /\ Goto(t, "r_check", "reading") /\ UNCHANGED <<m_read, m_write>>

\* Mutant: the failing path of tryReadLock returns without taking the count back.
TryReadLockKeepsCount(t) ==
  \/ Goto(t, "tr_inc", "tr_check") /\ m_read' = m_read + 1 /\ UNCHANGED m_write
  \/ m_write # 0 /\ Goto(t, "tr_check", "idle") /\ UNCHANGED <<m_read, m_write>>
  \/ m_write = 0 /\ Goto(t, "tr_check", "reading") /\ UNCHANGED <<m_read, m_write>>

TryReadLock(t) ==
  \/ Goto(t, "tr_inc", "tr_check") /\ m_read' = m_read + 1 /\ UNCHANGED m_write
  \/ m_write # 0 /\ Goto(t, "tr_check", "tr_dec") /\ UNCHANGED <<m_read, m_write>>
  \/ Goto(t, "tr_dec", "idle") /\ m_read' = m_read - 1 /\ UNCHANGED m_write
  \/ m_write = 0 /\ Goto(t, "tr_check", "reading") /\ UNCHANGED <<m_read, m_write>>

ReadUnlock(t) == Goto(t, "reading", "idle") /\ m_read' = m_read - 1 /\ UNCHANGED m_write

\* writeLock: claim m_write, which stops new readers, then wait for the old ones.
WriteLock(t) ==
  \/ m_write = 0 /\ Goto(t, "w_cas", "w_drain") /\ m_write' = 1 /\ UNCHANGED m_read
  \/ m_read = 0 /\ Goto(t, "w_drain", "writing") /\ UNCHANGED <<m_read, m_write>>

TryWriteLock(t) ==
  \/ m_write # 0 /\ Goto(t, "tw_cas", "idle") /\ UNCHANGED <<m_read, m_write>>
  \/ m_write = 0 /\ Goto(t, "tw_cas", "tw_check") /\ m_write' = 1 /\ UNCHANGED m_read
  \/ m_read # 0 /\ Goto(t, "tw_check", "tw_clear") /\ UNCHANGED <<m_read, m_write>>
  \/ Goto(t, "tw_clear", "idle") /\ m_write' = 0 /\ UNCHANGED m_read
  \/ m_read = 0 /\ Goto(t, "tw_check", "writing") /\ UNCHANGED <<m_read, m_write>>

WriteUnlock(t) == Goto(t, "writing", "idle") /\ m_write' = m_write - 1 /\ UNCHANGED m_read

-----------------------------------------------------------------------------
\* What the thread does on its own once it has called an operation or holds the lock.
Step(t) ==
  \/ ReadLock(t) \/ TryReadLock(t) \/ ReadUnlock(t)
  \/ WriteLock(t) \/ TryWriteLock(t) \/ WriteUnlock(t)

Next == \E t \in Threads : Call(t) \/ Step(t)

Spec == Init /\ [][Next]_vars

\* A running thread keeps running: a spin loop re-reads until its condition holds, and
\* the critical sections of SharingRoomManager are finite map operations.
Fairness == \A t \in Threads : WF_vars(Step(t))

FairSpec == Spec /\ Fairness

-----------------------------------------------------------------------------
CountedReader == {"r_check", "r_dec", "tr_check", "tr_dec", "reading"}
CountedWriter == {"w_drain", "tw_check", "tw_clear", "writing"}
PCs == CountedReader \cup CountedWriter
         \cup {"idle", "r_spin", "r_inc", "tr_inc", "w_cas", "tw_cas"}

TypeOK ==
  /\ m_read \in Nat
  /\ m_write \in {0, 1}
  /\ pc \in [Threads -> PCs]

In(S) == {t \in Threads : pc[t] \in S}

\* While SharingRoomManager changes the room table under writeLock, no other thread is
\* between readLock and readUnlock, and none holds the write lock too.
Exclusion ==
  \A t \in In({"writing"}) : In({"reading", "writing"}) = {t}

\* m_read counts exactly the threads that have announced themselves as readers, and
\* m_write is 1 exactly while one thread has claimed it: no operation loses or forges a
\* count on any path, the failing ones of tryReadLock and tryWriteLock included.
CountsExact ==
  /\ m_read = Cardinality(In(CountedReader))
  /\ m_write = Cardinality(In(CountedWriter))

\* The lock behaves as AbstractRWLock.
Abs == INSTANCE AbstractRWLock WITH readers <- In({"reading"}), writers <- In({"writing"})
ImplementsRWLock == Abs!ASpec

\* Once writeLock has claimed m_write the writer gets in: readers that arrive later back
\* off and the ones inside leave. (If from some time on nobody calls tryReadLock, as
\* SharingRoomManager never does: a caller that polls it could keep m_read away from 0 at
\* every load of the spinning writer.)
Polling == In({"tr_inc", "tr_check", "tr_dec"})
WriterGetsIn ==
  <>[](Polling = {}) => \A t \in Threads : pc[t] = "w_drain" ~> pc[t] = "writing"
=============================================================================
