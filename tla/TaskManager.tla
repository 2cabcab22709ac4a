---------------------------- MODULE TaskManager ----------------------------
(***************************************************************************)
(* Server/Task: the manager that keeps a visitor's request (subscribe to a *)
(* screen, visit files, create a terminal) while its guard is asked.       *)
(* Worker threads run Manager::exec on a shared heap; request-processor    *)
(* threads dispatch tasks and, when a guard's response arrives, destroy    *)
(* the task and answer the visitor.                                        *)
(*                                                                         *)
(* A step is a critical section of m_mutex or of a task's own mutex, or a  *)
(* read of ITask::destroyed() made outside the task's mutex.  A task's     *)
(* mutex is held by the worker that stands at one of the points Holding.   *)
(***************************************************************************)
EXTENDS Integers, Sequences, FiniteSets

CONSTANTS Tasks,        \* the tasks that may be dispatched; their ids are unique
          Workers,      \* the threads running Manager::exec
          Handlers,     \* the threads that handle guards' responses
          NoTask,       \* not a task
          Timeout,      \* msTimeout of the dispatches, in ticks
          StartTimes,   \* executeAtTime values of the dispatches that have one
          LastDispatch, \* bound: no task is dispatched after this tick
          MaxClock      \* bound: the clock stops here

ASSUME NoTaskIsNone == NoTask \notin Tasks
ASSUME TimesNat == /\ Timeout \in Nat /\ LastDispatch \in Nat /\ MaxClock \in Nat
                   /\ StartTimes \subseteq Nat

VARIABLES
  clock,       \* QDateTime::currentDateTime()
  m_mapItems,  \* the tasks destroy() can find
  m_heapItems, \* the tasks waiting for a worker
  executeAt, maxStay, executed,   \* the Item of each task
  destroyed,   \* ITask::m_destroyed
  wpc, cur,    \* each worker's program point and its item
  now,         \* exec's local: the time at the top of the loop (0 when out of scope)
  wakeAt,      \* when the worker's wait_for returns (0 when it does not wait)
  hpc, hcur,   \* each handler thread's program point and its task
  m_exit,      \* Manager::exit: "no", "set" (m_exit), "notified" (notify_all)
  dispatched, asked, outcome   \* what happened to each task, as in AsyncTask

items   == <<m_mapItems, m_heapItems>>
times   == <<executeAt, maxStay>>
worker  == <<wpc, cur, now, wakeAt>>
handler == <<hpc, hcur>>
history == <<dispatched, asked, outcome>>
vars == <<clock, items, times, executed, destroyed, worker, handler, m_exit, history>>

Init ==
  /\ clock = 1
  /\ m_mapItems = {} /\ m_heapItems = {}
  /\ executeAt = [t \in Tasks |-> 0] /\ maxStay = [t \in Tasks |-> 0]
  /\ executed = [t \in Tasks |-> FALSE] /\ destroyed = [t \in Tasks |-> FALSE]
  /\ wpc = [w \in Workers |-> "top"] /\ cur = [w \in Workers |-> NoTask]
  /\ now = [w \in Workers |-> 0] /\ wakeAt = [w \in Workers |-> 0]
  /\ hpc = [h \in Handlers |-> "idle"] /\ hcur = [h \in Handlers |-> NoTask]
  /\ m_exit = "no"
  /\ dispatched = {} /\ asked = {} /\ outcome = [t \in Tasks |-> <<>>]

\* The points at which a worker holds the mutex of its item's task.
Holding == {"timeout", "timeout_destroy", "execute", "execute_destroy", "unlock"}
Locked(t) == \E w \in Workers : cur[w] = t /\ wpc[w] \in Holding

Goto(w, from, to) == wpc[w] = from /\ wpc' = [wpc EXCEPT ![w] = to]
Drop(w) == cur' = [cur EXCEPT ![w] = NoTask]
SettleWith(t, o) == outcome' = [outcome EXCEPT ![t] = Append(@, o)]

\* Manager::compare: the time an item next needs a worker, and an item at the heap's front.
Key(t) == IF executed[t] THEN maxStay[t] ELSE executeAt[t]
Front(t) == t \in m_heapItems /\ \A u \in m_heapItems : Key(t) <= Key(u)

-----------------------------------------------------------------------------
\* dispatch: notify_one only if the new item starts before the item at the front after
\* the push; a worker in wait_for then returns.
Dispatch(t, at, stay) ==
  /\ t \notin dispatched
  /\ clock <= LastDispatch
  /\ dispatched' = dispatched \cup {t}
  /\ m_mapItems' = m_mapItems \cup {t}
  /\ m_heapItems' = m_heapItems \cup {t}
  /\ executeAt' = [executeAt EXCEPT ![t] = at]
  /\ maxStay' = [maxStay EXCEPT ![t] = stay]
  /\ UNCHANGED executed
  /\ \E f \in m_heapItems' :
       /\ Front(f)'
       /\ IF executeAt'[t] < executeAt'[f] /\ \E w \in Workers : wpc[w] = "wait"
          THEN /\ \E w \in Workers : Goto(w, "wait", "top") /\ wakeAt' = [wakeAt EXCEPT ![w] = 0]
               /\ UNCHANGED <<cur, now>>
          ELSE UNCHANGED worker
  /\ UNCHANGED <<clock, destroyed, handler, m_exit, asked, outcome>>

DispatchNow(t) == Dispatch(t, 0, clock + Timeout)            \* dispatch(task, msTimeout)
DispatchAt(t) == \E at \in StartTimes : Dispatch(t, at, at)  \* dispatch(task, executeAtTime)
DispatchAtWithin(t) == \E at \in StartTimes : Dispatch(t, at, at + Timeout)

-----------------------------------------------------------------------------
\* exec, one iteration. The clock is read before anything is locked.
\* Mutant: m_exit is not looked at.
TopNoExit(w) ==
  /\ Goto(w, "top", "scan") /\ now' = [now EXCEPT ![w] = clock]
  /\ UNCHANGED <<clock, items, times, executed, destroyed, cur, wakeAt, handler, m_exit, history>>

Top(w) ==
  /\ \/ m_exit = "no" /\ Goto(w, "top", "scan") /\ now' = [now EXCEPT ![w] = clock]
     \/ m_exit # "no" /\ Goto(w, "top", "done") /\ UNCHANGED now
  /\ UNCHANGED <<clock, items, times, executed, destroyed, cur, wakeAt, handler, m_exit, history>>

\* The part of the iteration under m_mutex: what to do with the item at the front.
ScanEmpty(w) ==
  /\ m_heapItems = {}
  /\ Goto(w, "scan", "sleep")
  /\ UNCHANGED <<clock, items, times, executed, destroyed, cur, now, wakeAt, handler, m_exit, history>>

ScanDestroyed(w) ==
  /\ \E t \in m_heapItems :
       /\ Front(t) /\ destroyed[t]
       /\ m_heapItems' = m_heapItems \ {t} /\ m_mapItems' = m_mapItems \ {t}
  /\ Goto(w, "scan", "sleep")
  /\ UNCHANGED <<clock, times, executed, destroyed, cur, now, wakeAt, handler, m_exit, history>>

\* Mutant: an expired item stays in the map until its task is settled.
ScanExpiredKeepsMap(w) ==
  /\ \E t \in m_heapItems :
       /\ Front(t) /\ ~destroyed[t] /\ now[w] > maxStay[t]
       /\ m_heapItems' = m_heapItems \ {t} /\ UNCHANGED m_mapItems
       /\ cur' = [cur EXCEPT ![w] = t]
  /\ Goto(w, "scan", "timeout_lock")
  /\ UNCHANGED <<clock, times, executed, destroyed, now, wakeAt, handler, m_exit, history>>

\* Mutant: the time is over when it is reached.
ScanExpiredEarly(w) ==
  /\ \E t \in m_heapItems :
       /\ Front(t) /\ ~destroyed[t] /\ now[w] >= maxStay[t]
       /\ m_heapItems' = m_heapItems \ {t} /\ m_mapItems' = m_mapItems \ {t}
       /\ cur' = [cur EXCEPT ![w] = t]
  /\ Goto(w, "scan", "timeout_lock")
  /\ UNCHANGED <<clock, times, executed, destroyed, now, wakeAt, handler, m_exit, history>>

ScanExpired(w) ==
  /\ \E t \in m_heapItems :
       /\ Front(t) /\ ~destroyed[t] /\ now[w] > maxStay[t]
       /\ m_heapItems' = m_heapItems \ {t} /\ m_mapItems' = m_mapItems \ {t}
       /\ cur' = [cur EXCEPT ![w] = t]
  /\ Goto(w, "scan", "timeout_lock")
  /\ UNCHANGED <<clock, times, executed, destroyed, now, wakeAt, handler, m_exit, history>>

ScanDue(w) ==
  /\ \E t \in m_heapItems :
       /\ Front(t) /\ ~destroyed[t] /\ now[w] <= maxStay[t]
       /\ now[w] > executeAt[t] /\ ~executed[t]
       /\ m_heapItems' = m_heapItems \ {t} /\ UNCHANGED m_mapItems
       /\ cur' = [cur EXCEPT ![w] = t]
  /\ Goto(w, "scan", "execute_lock")
  /\ UNCHANGED <<clock, times, executed, destroyed, now, wakeAt, handler, m_exit, history>>

ScanNothing(w) ==
  /\ \E t \in m_heapItems :
       /\ Front(t) /\ ~destroyed[t] /\ now[w] <= maxStay[t]
       /\ now[w] <= executeAt[t] \/ executed[t]
  /\ Goto(w, "scan", "sleep")
  /\ UNCHANGED <<clock, items, times, executed, destroyed, cur, now, wakeAt, handler, m_exit, history>>

\* Mutant: no second look at destroyed() under the task's mutex.
TimeoutLockNoCheck(w) ==
  /\ ~Locked(cur[w])
  /\ Goto(w, "timeout_lock", "timeout")
  /\ UNCHANGED <<clock, items, times, executed, destroyed, cur, now, wakeAt, handler, m_exit, history>>

\* An expired item: it has left heap and map; settle it unless a handler was faster.
TimeoutLock(w) ==
  /\ ~Locked(cur[w])
  /\ \/ Goto(w, "timeout_lock", "timeout") /\ ~destroyed[cur[w]] /\ UNCHANGED cur
     \/ Goto(w, "timeout_lock", "sleep") /\ destroyed[cur[w]] /\ Drop(w)
  /\ UNCHANGED <<clock, items, times, executed, destroyed, now, wakeAt, handler, m_exit, history>>

TaskTimeout(w) ==
  /\ Goto(w, "timeout", "timeout_destroy")
  /\ SettleWith(cur[w], "timeout")
  /\ UNCHANGED <<clock, items, times, executed, destroyed, cur, now, wakeAt, handler, m_exit,
                 dispatched, asked>>

TimeoutDestroy(w) ==
  /\ Goto(w, "timeout_destroy", "sleep")
  /\ destroyed' = [destroyed EXCEPT ![cur[w]] = TRUE]
  /\ Drop(w)
  /\ UNCHANGED <<clock, items, times, executed, now, wakeAt, handler, m_exit, history>>

\* A due item: it has left the heap but not the map, so a response can find it.
ExecuteLock(w) ==
  /\ ~Locked(cur[w])
  /\ \/ Goto(w, "execute_lock", "execute") /\ ~destroyed[cur[w]]
        /\ executed' = [executed EXCEPT ![cur[w]] = TRUE]
     \/ Goto(w, "execute_lock", "erase") /\ destroyed[cur[w]] /\ UNCHANGED executed
  /\ UNCHANGED <<clock, items, times, destroyed, cur, now, wakeAt, handler, m_exit, history>>

\* ITask::execute of the three visit tasks: ask the guard that owns the room, or tell the
\* visitor that there is none.
TaskExecute(w) ==
  /\ \/ /\ Goto(w, "execute", "unlock")
        /\ asked' = asked \cup {cur[w]} /\ UNCHANGED outcome
     \/ /\ Goto(w, "execute", "execute_destroy")
        /\ SettleWith(cur[w], "unreachable") /\ UNCHANGED asked
  /\ UNCHANGED <<clock, items, times, executed, destroyed, cur, now, wakeAt, handler, m_exit,
                 dispatched>>

ExecuteDestroy(w) ==
  /\ Goto(w, "execute_destroy", "unlock")
  /\ destroyed' = [destroyed EXCEPT ![cur[w]] = TRUE]
  /\ UNCHANGED <<clock, items, times, executed, cur, now, wakeAt, handler, m_exit, history>>

Unlock(w) ==
  /\ Goto(w, "unlock", "check")
  /\ UNCHANGED <<clock, items, times, executed, destroyed, cur, now, wakeAt, handler, m_exit, history>>

\* Mutant: an executed item is erased, not pushed back.
CheckErases(w) ==
  /\ Goto(w, "check", "erase")
  /\ UNCHANGED <<clock, items, times, executed, destroyed, cur, now, wakeAt, handler, m_exit, history>>

\* The unlocked look at destroyed() decides whether the item goes back into the heap.
Check(w) ==
  /\ wpc[w] = "check"
  /\ Goto(w, "check", IF destroyed[cur[w]] THEN "erase" ELSE "push")
  /\ UNCHANGED <<clock, items, times, executed, destroyed, cur, now, wakeAt, handler, m_exit, history>>

Erase(w) ==
  /\ Goto(w, "erase", "sleep")
  /\ m_mapItems' = m_mapItems \ {cur[w]}
  /\ Drop(w)
  /\ UNCHANGED <<clock, m_heapItems, times, executed, destroyed, now, wakeAt, handler, m_exit, history>>

\* Mutant: the worker does not give its item up.
PushKeeps(w) ==
  /\ Goto(w, "push", "sleep")
  /\ m_heapItems' = m_heapItems \cup {cur[w]}
  /\ UNCHANGED <<clock, m_mapItems, times, executed, destroyed, cur, now, wakeAt, handler, m_exit, history>>

Push(w) ==
  /\ Goto(w, "push", "sleep")
  /\ m_heapItems' = m_heapItems \cup {cur[w]}
  /\ Drop(w)
  /\ UNCHANGED <<clock, m_mapItems, times, executed, destroyed, now, wakeAt, handler, m_exit, history>>

\* The end of the iteration: how long to wait follows from the item now at the front; an
\* empty heap is looked at again after IdleWait (50 ms).
IdleWait == 1
Difs(w) == IF m_heapItems = {} THEN {IdleWait}
                               ELSE {Key(t) - now[w] : t \in {u \in m_heapItems : Front(u)}}
Sleep(w) ==
  /\ \E dif \in Difs(w) :
       IF dif > 0 THEN Goto(w, "sleep", "wait") /\ wakeAt' = [wakeAt EXCEPT ![w] = clock + dif]
                  ELSE Goto(w, "sleep", "top") /\ UNCHANGED wakeAt
  /\ now' = [now EXCEPT ![w] = 0]
  /\ UNCHANGED <<clock, items, times, executed, destroyed, cur, handler, m_exit, history>>

\* Mutant: wait instead of wait_for.
WakeUpNever(w) ==
  /\ wakeAt[w] < 0
  /\ Goto(w, "wait", "top") /\ wakeAt' = [wakeAt EXCEPT ![w] = 0]
  /\ UNCHANGED <<clock, items, times, executed, destroyed, cur, now, handler, m_exit, history>>

\* wait_for returns when its time is over; at the clock's bound it is over for everyone.
WakeUp(w) ==
  /\ clock >= wakeAt[w] \/ clock = MaxClock
  /\ Goto(w, "wait", "top") /\ wakeAt' = [wakeAt EXCEPT ![w] = 0]
  /\ UNCHANGED <<clock, items, times, executed, destroyed, cur, now, handler, m_exit, history>>

WorkerStep(w) ==
  \/ Top(w) \/ ScanEmpty(w) \/ ScanDestroyed(w) \/ ScanExpired(w) \/ ScanDue(w) \/ ScanNothing(w)
  \/ TimeoutLock(w) \/ TaskTimeout(w) \/ TimeoutDestroy(w)
  \/ ExecuteLock(w) \/ TaskExecute(w) \/ ExecuteDestroy(w) \/ Unlock(w) \/ Check(w)
  \/ Erase(w) \/ Push(w) \/ Sleep(w) \/ WakeUp(w)

\* ... or earlier, as the C++ standard allows.
SpuriousWakeUp(w) ==
  /\ Goto(w, "wait", "top") /\ wakeAt' = [wakeAt EXCEPT ![w] = 0]
  /\ UNCHANGED <<clock, items, times, executed, destroyed, cur, now, handler, m_exit, history>>

-----------------------------------------------------------------------------
\* A guard that was asked responds, perhaps more than once: Manager::destroy looks the
\* task up under m_mutex ...
Find(h, t) ==
  /\ hpc[h] = "idle"
  /\ t \in asked \cap m_mapItems
  /\ hpc' = [hpc EXCEPT ![h] = "destroy"] /\ hcur' = [hcur EXCEPT ![h] = t]
  /\ UNCHANGED <<clock, items, times, executed, destroyed, worker, m_exit, history>>

\* ... and claims it under the task's own mutex. A response of another kind than the task
\* has settled it without a word to the visitor.
Claim(h) ==
  LET t == hcur[h] IN
  /\ hpc[h] = "destroy"
  /\ ~Locked(t)
  /\ destroyed' = [destroyed EXCEPT ![t] = TRUE]
  /\ \/ /\ destroyed[t]
        /\ hpc' = [hpc EXCEPT ![h] = "idle"] /\ hcur' = [hcur EXCEPT ![h] = NoTask]
        /\ UNCHANGED outcome
     \/ /\ ~destroyed[t]
        /\ hpc' = [hpc EXCEPT ![h] = "respond"] /\ UNCHANGED <<hcur, outcome>>
     \/ /\ ~destroyed[t]
        /\ hpc' = [hpc EXCEPT ![h] = "idle"] /\ hcur' = [hcur EXCEPT ![h] = NoTask]
        /\ SettleWith(t, "dropped")
  /\ UNCHANGED <<clock, items, times, executed, worker, m_exit, dispatched, asked>>

\* handleResponse: whatever the response says, its end is one feedback to the visitor.
HandleResponse(h) ==
  /\ hpc[h] = "respond"
  /\ SettleWith(hcur[h], "answered")
  /\ hpc' = [hpc EXCEPT ![h] = "idle"] /\ hcur' = [hcur EXCEPT ![h] = NoTask]
  /\ UNCHANGED <<clock, items, times, executed, destroyed, worker, m_exit, dispatched, asked>>

HandlerStep(h) == Claim(h) \/ HandleResponse(h)

-----------------------------------------------------------------------------
SetExit ==
  /\ m_exit = "no" /\ m_exit' = "set"
  /\ UNCHANGED <<clock, items, times, executed, destroyed, worker, handler, history>>

NotifyAll ==
  /\ m_exit = "set" /\ m_exit' = "notified"
  /\ wpc' = [w \in Workers |-> IF wpc[w] = "wait" THEN "top" ELSE wpc[w]]
  /\ wakeAt' = [w \in Workers |-> 0]
  /\ UNCHANGED <<clock, items, times, executed, destroyed, cur, now, handler, history>>

Tick ==
  /\ clock < MaxClock /\ clock' = clock + 1
  /\ UNCHANGED <<items, times, executed, destroyed, worker, handler, m_exit, history>>

\* Every worker has returned and no response is being handled: the manager may be deleted.
Terminated ==
  /\ \A w \in Workers : wpc[w] = "done"
  /\ UNCHANGED vars

Next ==
  \/ \E t \in Tasks : DispatchNow(t) \/ DispatchAt(t) \/ DispatchAtWithin(t)
  \/ \E w \in Workers : WorkerStep(w) \/ SpuriousWakeUp(w)
  \/ \E h \in Handlers : HandlerStep(h) \/ \E t \in Tasks : Find(h, t)
  \/ SetExit \/ NotifyAll \/ Tick \/ Terminated

Spec == Init /\ [][Next]_vars

\* Threads keep running, time goes on, wait_for returns when its time is over, and a
\* mutex is granted to a waiter once it is free (no thread holds a task's mutex across a
\* wait).  Guards need not answer and visitors need not ask: no fairness for those.
Fairness ==
  /\ \A w \in Workers : WF_vars(WorkerStep(w))
  /\ \A h \in Handlers : WF_vars(HandlerStep(h))
  /\ WF_vars(NotifyAll) /\ WF_vars(Tick)

FairSpec == Spec /\ Fairness

-----------------------------------------------------------------------------
WorkerPoints == Holding \cup {"top", "scan", "timeout_lock", "execute_lock", "check",
                              "erase", "push", "sleep", "wait", "done"}
Abs == INSTANCE AsyncTask

TypeOK ==
  /\ clock \in Nat
  /\ m_mapItems \subseteq Tasks /\ m_heapItems \subseteq Tasks
  /\ executeAt \in [Tasks -> Nat] /\ maxStay \in [Tasks -> Nat]
  /\ executed \in [Tasks -> BOOLEAN] /\ destroyed \in [Tasks -> BOOLEAN]
  /\ wpc \in [Workers -> WorkerPoints] /\ cur \in [Workers -> Tasks \cup {NoTask}]
  /\ now \in [Workers -> Nat] /\ wakeAt \in [Workers -> Nat]
  /\ hpc \in [Handlers -> {"idle", "destroy", "respond"}]
  /\ hcur \in [Handlers -> Tasks \cup {NoTask}]
  /\ m_exit \in {"no", "set", "notified"}
  /\ dispatched \subseteq Tasks /\ asked \subseteq Tasks
  /\ outcome \in [Tasks -> Seq(Abs!Outcomes)]

\* Whatever the order in which a timeout, an execution and several responses of the guard
\* meet on one task, the visitor gets at most one feedback and the guard one request, as
\* AsyncTask says: the second check of destroyed() under the task's mutex is what
\* Manager::exec and Manager::destroy rely on.
ImplementsAsyncTask == Abs!ASpec

\* A worker has the task's item; a handler has claimed the task and will answer.
Held(t) == \E w \in Workers : cur[w] = t
Claimed(t) == \E h \in Handlers : hcur[h] = t /\ hpc[h] = "respond"

\* An item is in the heap or with one worker, never both and never with two: the item a
\* worker has popped is not popped again, and is not in the heap twice after the push.
OneOwner ==
  \A w \in Workers : cur[w] # NoTask =>
    /\ cur[w] \notin m_heapItems
    /\ \A v \in Workers \ {w} : cur[v] # cur[w]

\* m_mapItems holds nothing that no worker will come back to: an entry is in the heap or
\* is the item of a worker, so the map does not grow with the visits of the past.
NoMapLeak ==
  /\ m_heapItems \subseteq m_mapItems
  /\ \A t \in m_mapItems \ m_heapItems : Held(t)

\* A task that is not settled is not forgotten: the heap, a worker or the handler that
\* claimed it has it. (Erasing on the strength of an unlocked destroyed() is safe.)
NotForgotten ==
  \A t \in dispatched : outcome[t] = <<>> => t \in m_heapItems \/ Held(t) \/ Claimed(t)

\* No visitor is told of a timeout before its time is over, although exec decides with a
\* time read before it locked anything.
TimeoutNotEarly ==
  \A t \in Tasks : outcome[t] = <<"timeout">> => clock > maxStay[t]

\* Every visitor gets its feedback (or the guard's answer was of the wrong kind), as long
\* as the manager is not shut down.
EventuallySettled ==
  \A t \in Tasks : t \in dispatched ~> (outcome[t] # <<>> \/ m_exit # "no")

\* exit() ends every worker, one that was about to wait when notify_all was called too.
ExitEnds == m_exit = "set" ~> \A w \in Workers : wpc[w] = "done"
=============================================================================
