------------------------- MODULE TaskManagerProofs -------------------------
(***************************************************************************)
(* For any number of tasks, workers and response handlers, and any times:  *)
(* a visit is settled at most once and its guard asked at most once        *)
(* (AsyncTask), an item has one owner, the map does not leak, no unsettled *)
(* task is forgotten, and none is timed out before its time.               *)
(***************************************************************************)
EXTENDS TaskManager, TLAPS

\* Where a worker has an item, where its item's task is settled but not yet destroyed, and
\* where its item has left the map.
Busy == Holding \cup {"timeout_lock", "execute_lock", "check", "erase", "push"}
Settling == {"timeout_destroy", "execute_destroy"}
Expired == {"timeout_lock", "timeout", "timeout_destroy"}
BeingSettled(t) == \E w \in Workers : cur[w] = t /\ wpc[w] \in Settling

\* What a worker's program point says of its item.
WorkerInv ==
  \A w \in Workers :
    /\ cur[w] # NoTask <=> wpc[w] \in Busy
    /\ cur[w] # NoTask =>
         cur[w] \in dispatched /\ (cur[w] \in m_mapItems <=> wpc[w] \notin Expired)
    /\ wpc[w] \in {"timeout", "execute"} => ~destroyed[cur[w]]
    /\ wpc[w] \in Settling => ~destroyed[cur[w]] /\ outcome[cur[w]] # <<>>
    /\ wpc[w] = "execute_lock" => ~executed[cur[w]]
    /\ wpc[w] = "execute" => cur[w] \notin asked /\ executed[cur[w]]
    /\ wpc[w] = "erase" => destroyed[cur[w]]

\* What a handler's program point says of its task: the one that claimed it is alone.
HandlerInv ==
  \A h \in Handlers :
    /\ hcur[h] # NoTask <=> hpc[h] # "idle"
    /\ hcur[h] # NoTask => hcur[h] \in asked
    /\ hpc[h] = "respond" =>
         /\ destroyed[hcur[h]] /\ outcome[hcur[h]] = <<>>
         /\ \A g \in Handlers \ {h} : hpc[g] = "respond" => hcur[g] # hcur[h]

\* What the flags of a task say of it.
TaskInv ==
  /\ m_mapItems \subseteq dispatched
  /\ asked \subseteq dispatched
  /\ \A t \in Tasks :
       /\ t \in asked => executed[t]
       /\ t \notin dispatched => ~executed[t] /\ ~destroyed[t] /\ outcome[t] = <<>>
       /\ ~destroyed[t] => outcome[t] = <<>> \/ BeingSettled(t)
       /\ destroyed[t] /\ outcome[t] = <<>> => Claimed(t)
       /\ t \in dispatched /\ ~destroyed[t] => t \in m_heapItems \/ Held(t)

\* The inductive invariant. That a task is settled once rests on destroyed, which is read
\* and written under the task's mutex: who found it FALSE there has the task for itself.
IInv == TypeOK /\ OneOwner /\ NoMapLeak /\ WorkerInv /\ HandlerInv /\ TaskInv

-----------------------------------------------------------------------------
\* How the steps change who has which task: who holds an item ...
LEMMA HeldKeep ==
  ASSUME cur' = cur
  PROVE  \A u \in Tasks : Held(u)' <=> Held(u)
BY DEF Held

LEMMA HeldTake ==
  ASSUME TypeOK, NEW w \in Workers, NEW t \in Tasks, cur[w] = NoTask,
         cur' = [cur EXCEPT ![w] = t]
  PROVE  \A u \in Tasks : Held(u)' <=> Held(u) \/ u = t
BY NoTaskIsNone DEF TypeOK, Held

LEMMA HeldDrop ==
  ASSUME TypeOK, OneOwner, NEW w \in Workers, cur[w] # NoTask, Drop(w)
  PROVE  \A u \in Tasks : Held(u)' <=> Held(u) /\ u # cur[w]
BY NoTaskIsNone DEF TypeOK, OneOwner, Held, Drop

\* ... whose item is between its settling and its destroy() ...
LEMMA SettlingKeep ==
  ASSUME TypeOK, NEW w \in Workers, NEW from, NEW to, Goto(w, from, to),
         from \notin Settling, to \notin Settling,
         \A v \in Workers \ {w} : cur'[v] = cur[v]
  PROVE  \A u \in Tasks : BeingSettled(u)' <=> BeingSettled(u)
<1> SUFFICES ASSUME NEW u \in Tasks PROVE BeingSettled(u)' <=> BeingSettled(u)
  OBVIOUS
<1>1. \A v \in Workers : wpc'[v] \in Settling <=> wpc[v] \in Settling
  BY DEF TypeOK, Goto
<1>2. \A v \in Workers : wpc[v] \in Settling => cur'[v] = cur[v]
  BY DEF Goto
<1> QED
  BY <1>1, <1>2 DEF BeingSettled

LEMMA SettlingSame ==
  ASSUME UNCHANGED <<wpc, cur>>
  PROVE  \A u \in Tasks : BeingSettled(u)' <=> BeingSettled(u)
BY DEF BeingSettled

LEMMA SettlingEnter ==
  ASSUME TypeOK, NEW w \in Workers, NEW from, NEW to, Goto(w, from, to),
         from \notin Settling, to \in Settling, cur' = cur
  PROVE  \A u \in Tasks : BeingSettled(u)' <=> BeingSettled(u) \/ u = cur[w]
BY DEF TypeOK, Goto, BeingSettled

LEMMA SettlingLeave ==
  ASSUME TypeOK, OneOwner, NEW w \in Workers, NEW from, NEW to, Goto(w, from, to),
         from \in Settling, to \notin Settling, cur[w] # NoTask,
         \A v \in Workers \ {w} : cur'[v] = cur[v]
  PROVE  \A u \in Tasks : BeingSettled(u)' <=> BeingSettled(u) /\ u # cur[w]
<1> SUFFICES ASSUME NEW u \in Tasks PROVE BeingSettled(u)' <=> BeingSettled(u) /\ u # cur[w]
  OBVIOUS
<1>1. \A v \in Workers : wpc'[v] \in Settling <=> wpc[v] \in Settling /\ v # w
  BY DEF TypeOK, Goto
<1>2. \A v \in Workers \ {w} : cur[v] # cur[w]
  BY DEF OneOwner
<1> QED
  BY <1>1, <1>2 DEF BeingSettled

\* ... and which task a handler has claimed.
LEMMA ClaimedKeep ==
  ASSUME UNCHANGED handler
  PROVE  \A u \in Tasks : Claimed(u)' <=> Claimed(u)
BY DEF Claimed, handler

\* Append by its results.
LEMMA AppendFacts ==
  ASSUME NEW S, NEW s \in Seq(S), NEW o \in S
  PROVE  Append(s, o) \in Seq(S) /\ Append(s, o) # <<>> /\ (s = <<>> => Append(s, o) = <<o>>)
<1>1. Append(s, o) \in Seq(S) /\ Len(Append(s, o)) = Len(s) + 1 /\ Len(s) \in Nat
  OBVIOUS
<1>2. Append(s, o) # <<>>
  BY <1>1
<1>3. s = <<>> => Append(s, o) = <<o>>
  OBVIOUS
<1> QED
  BY <1>1, <1>2, <1>3

\* A settled task has one outcome more; an unsettled one has its only one.
LEMMA Settled ==
  ASSUME TypeOK, NEW t \in Tasks, NEW o \in Abs!Outcomes, SettleWith(t, o)
  PROVE  /\ outcome' \in [Tasks -> Seq(Abs!Outcomes)]
         /\ outcome'[t] # <<>>
         /\ \A u \in Tasks \ {t} : outcome'[u] = outcome[u]
         /\ outcome[t] = <<>> => outcome' = [outcome EXCEPT ![t] = <<o>>]
<1> DEFINE s == outcome[t]
<1>1. s \in Seq(Abs!Outcomes) /\ outcome \in [Tasks -> Seq(Abs!Outcomes)]
  BY DEF TypeOK
<1>2. /\ Append(s, o) \in Seq(Abs!Outcomes)
      /\ Append(s, o) # <<>>
      /\ s = <<>> => Append(s, o) = <<o>>
  BY <1>1, AppendFacts
<1>3. outcome' = [outcome EXCEPT ![t] = Append(s, o)]
  BY DEF SettleWith
<1> HIDE DEF s
<1>4. s = outcome[t]
  BY DEF s
<1> QED
  BY <1>1, <1>2, <1>3, <1>4

\* Many steps only move a thread or the clock: what the items, the tasks and the handlers
\* satisfy is then as it was.
LEMMA QuietStep ==
  ASSUME IInv, UNCHANGED <<items, executed, destroyed, cur, handler, history>>,
         \A u \in Tasks : BeingSettled(u)' <=> BeingSettled(u)
  PROVE  OneOwner' /\ NoMapLeak' /\ HandlerInv' /\ TaskInv'
<1> USE DEF items, handler, history
<1>1. OneOwner'
  BY DEF IInv, OneOwner
<1>2. NoMapLeak'
  BY HeldKeep DEF IInv, NoMapLeak, TypeOK
<1>3. HandlerInv'
  BY DEF IInv, HandlerInv
<1>4. TaskInv'
  BY HeldKeep, ClaimedKeep DEF IInv, TaskInv, TypeOK
<1> QED
  BY <1>1, <1>2, <1>3, <1>4

-----------------------------------------------------------------------------
LEMMA InitIInv == Init => IInv
BY TimesNat, NoTaskIsNone DEF Init, IInv, TypeOK, OneOwner, NoMapLeak, WorkerInv, HandlerInv, TaskInv,
   WorkerPoints, Busy, Holding, Settling, Abs!Outcomes

LEMMA NextIInv == IInv /\ [Next]_vars => IInv'
<1> SUFFICES ASSUME IInv, [Next]_vars PROVE IInv'
  OBVIOUS
<1>0. TypeOK /\ OneOwner /\ NoMapLeak /\ WorkerInv /\ HandlerInv /\ TaskInv
  BY DEF IInv
<1> USE DEF items, times, worker, handler, history
<1>1. CASE \E t \in Tasks, at \in Nat, stay \in Nat : Dispatch(t, at, stay)
  <2>1. PICK t \in Tasks, at \in Nat, stay \in Nat : Dispatch(t, at, stay)
    BY <1>1
  <2>2. UNCHANGED worker \/ \E w \in Workers : Goto(w, "wait", "top") /\ wakeAt' = [wakeAt EXCEPT ![w] = 0] /\ UNCHANGED <<cur, now>>
    BY <2>1 DEF Dispatch
  <2>3. /\ ~Held(t) /\ \A w \in Workers : cur[w] # t
       /\ UNCHANGED <<cur, asked, outcome, executed, destroyed, hpc, hcur>>
    BY <1>0, <2>1, <2>2, NoTaskIsNone DEF Held, WorkerInv, Dispatch
  <2>4. \A u \in Tasks : Held(u)' <=> Held(u)
    BY <1>0, <2>1, <2>2, <2>3, HeldKeep DEF Dispatch, WorkerInv, Goto, Busy, Holding, Settling
  <2>5. \A u \in Tasks : BeingSettled(u)' <=> BeingSettled(u)
    <3>1. CASE UNCHANGED worker
      BY <3>1, SettlingSame
    <3>2. CASE \E w \in Workers : Goto(w, "wait", "top") /\ UNCHANGED <<cur, now>>
      BY <1>0, <3>2, SettlingKeep DEF Settling
    <3> QED
      BY <2>2, <3>1, <3>2
  <2>6. \A u \in Tasks : Claimed(u)' <=> Claimed(u)
    BY <1>0, <2>1, <2>2, <2>3, ClaimedKeep DEF Dispatch
  <2>7. TypeOK'
    <3>1. wpc' \in [Workers -> WorkerPoints] /\ now' \in [Workers -> Nat] /\ wakeAt' \in [Workers -> Nat]
      <4>1. CASE UNCHANGED worker
        BY <1>0, <4>1 DEF TypeOK
      <4>2. CASE \E w \in Workers : /\ Goto(w, "wait", "top") /\ wakeAt' = [wakeAt EXCEPT ![w] = 0]
                                   /\ UNCHANGED <<cur, now>>
        BY <1>0, <4>2 DEF TypeOK, Goto, WorkerPoints
      <4> QED
        BY <2>2, <4>1, <4>2
    <3>2. cur' = cur /\ executeAt' = [executeAt EXCEPT ![t] = at] /\ maxStay' = [maxStay EXCEPT ![t] = stay]
      BY <2>1, <2>2 DEF Dispatch
    <3> QED
      BY <1>0, <2>1, <2>3, <3>1, <3>2 DEF TypeOK, Dispatch
  <2>8. OneOwner'
    BY <1>0, <2>1, <2>2, <2>3, NoTaskIsNone DEF OneOwner, WorkerInv, TypeOK, NoMapLeak, TaskInv, Dispatch, Goto, Drop, Busy, Holding
  <2>9. NoMapLeak'
    BY <1>0, <2>1, <2>2, <2>3, <2>4 DEF NoMapLeak, TypeOK, Dispatch
  <2>10. WorkerInv'
    <3>1. \A w \in Workers : wpc'[w] = wpc[w] \/ (wpc[w] = "wait" /\ wpc'[w] = "top")
      BY <1>0, <2>2 DEF TypeOK, Goto
    <3>2. m_mapItems' = m_mapItems \cup {t} /\ dispatched' = dispatched \cup {t}
      BY <2>1 DEF Dispatch
    <3> QED
      BY <1>0, <2>3, <3>1, <3>2 DEF WorkerInv, Busy, Holding, Settling, Expired
  <2>11. HandlerInv'
    BY <1>0, <2>1, <2>2, <2>3 DEF HandlerInv, TypeOK, Dispatch
  <2>12. TaskInv'
    BY <1>0, <2>1, <2>2, <2>3, <2>4, <2>5, <2>6 DEF TaskInv, TypeOK, WorkerInv, HandlerInv, Dispatch
  <2> QED
    BY <2>7, <2>8, <2>9, <2>10, <2>11, <2>12 DEF IInv
<1>2. CASE \E w \in Workers : Top(w)
  <2>1. PICK w \in Workers : Top(w)
    BY <1>2
  <2>2. \E to \in {"scan", "done"} : Goto(w, "top", to)
    BY <2>1 DEF Top
  <2>3. \A u \in Tasks : BeingSettled(u)' <=> BeingSettled(u)
    BY <1>0, <2>1, <2>2, SettlingKeep DEF Top, Settling
  <2>4. OneOwner' /\ NoMapLeak' /\ HandlerInv' /\ TaskInv'
    BY <2>1, <2>3, QuietStep DEF Top
  <2>5. TypeOK'
    BY <1>0, <2>1, TimesNat DEF TypeOK, Top, Goto, WorkerPoints, Holding
  <2>6. WorkerInv'
    BY <1>0, <2>1 DEF TypeOK, Top, WorkerInv, Goto, Busy, Holding, Settling, Expired
  <2> QED
    BY <2>4, <2>5, <2>6 DEF IInv
<1>3. CASE \E w \in Workers : ScanEmpty(w)
  <2>1. PICK w \in Workers : ScanEmpty(w)
    BY <1>3
  <2>2. \E to \in {"sleep"} : Goto(w, "scan", to)
    BY <2>1 DEF ScanEmpty
  <2>3. \A u \in Tasks : BeingSettled(u)' <=> BeingSettled(u)
    BY <1>0, <2>1, <2>2, SettlingKeep DEF ScanEmpty, Settling
  <2>4. OneOwner' /\ NoMapLeak' /\ HandlerInv' /\ TaskInv'
    BY <2>1, <2>3, QuietStep DEF ScanEmpty
  <2>5. TypeOK'
    BY <1>0, <2>1, TimesNat DEF TypeOK, ScanEmpty, Goto, WorkerPoints, Holding
  <2>6. WorkerInv'
    BY <1>0, <2>1 DEF TypeOK, ScanEmpty, WorkerInv, Goto, Busy, Holding, Settling, Expired
  <2> QED
    BY <2>4, <2>5, <2>6 DEF IInv
<1>4. CASE \E w \in Workers : ScanDestroyed(w)
  <2>1. PICK w \in Workers : ScanDestroyed(w)
    BY <1>4
  <2>2. PICK t \in m_heapItems :
          destroyed[t] /\ m_heapItems' = m_heapItems \ {t} /\ m_mapItems' = m_mapItems \ {t}
    BY <2>1 DEF ScanDestroyed
  <2>3. \A u \in Tasks : Held(u)' <=> Held(u)
    BY <1>0, <2>1, <2>2, HeldKeep DEF ScanDestroyed, WorkerInv, Goto, Busy, Holding, Settling
  <2>4. \A u \in Tasks : BeingSettled(u)' <=> BeingSettled(u)
    <3>1. Goto(w, "scan", "sleep") /\ \A v \in Workers \ {w} : cur'[v] = cur[v]
      BY <1>0, <2>1 DEF ScanDestroyed, Drop, TypeOK
    <3> QED
      BY <1>0, <2>1, <2>2, <3>1, SettlingKeep DEF Settling
  <2>5. \A u \in Tasks : Claimed(u)' <=> Claimed(u)
    BY <1>0, <2>1, <2>2, ClaimedKeep DEF ScanDestroyed
  <2>6. TypeOK'
    BY <1>0, <2>1, <2>2, TimesNat DEF TypeOK, ScanDestroyed, Goto, Drop, WorkerPoints, Holding
  <2>7. OneOwner'
    BY <1>0, <2>1, <2>2, NoTaskIsNone DEF OneOwner, WorkerInv, TypeOK, NoMapLeak, TaskInv, ScanDestroyed, Goto, Drop, Busy, Holding
  <2>8. NoMapLeak'
    BY <1>0, <2>1, <2>2, <2>3 DEF NoMapLeak, TypeOK, ScanDestroyed
  <2>9. WorkerInv'
    BY <1>0, <2>1, <2>2, NoTaskIsNone DEF OneOwner, TypeOK, TaskInv, HandlerInv, ScanDestroyed, WorkerInv, Goto, Busy, Holding, Settling, Expired, Drop
  <2>10. HandlerInv'
    BY <1>0, <2>1, <2>2 DEF HandlerInv, TypeOK, ScanDestroyed
  <2>11. TaskInv'
    BY <1>0, <2>1, <2>2, <2>3, <2>4, <2>5 DEF TaskInv, TypeOK, WorkerInv, HandlerInv, ScanDestroyed
  <2> QED
    BY <2>6, <2>7, <2>8, <2>9, <2>10, <2>11 DEF IInv
<1>5. CASE \E w \in Workers : ScanExpired(w)
  <2>1. PICK w \in Workers : ScanExpired(w)
    BY <1>5
  <2>2. PICK t \in m_heapItems :
          /\ m_heapItems' = m_heapItems \ {t} /\ cur' = [cur EXCEPT ![w] = t] /\ ~destroyed[t]
          /\ m_mapItems' = m_mapItems \ {t}
    BY <2>1 DEF ScanExpired
  <2>3. cur[w] = NoTask /\ t \in Tasks /\ t \in dispatched /\ Goto(w, "scan", "timeout_lock")
    BY <1>0, <2>1, <2>2 DEF TypeOK, WorkerInv, NoMapLeak, TaskInv, ScanExpired, Goto, Busy, Holding
  <2>4. \A u \in Tasks : Held(u)' <=> Held(u) \/ u = t
    BY <1>0, <2>1, <2>2, <2>3, HeldTake DEF ScanExpired, WorkerInv, Goto, Busy, Holding, Settling
  <2>5. \A u \in Tasks : BeingSettled(u)' <=> BeingSettled(u)
    <3>1. Goto(w, "scan", "timeout_lock") /\ \A v \in Workers \ {w} : cur'[v] = cur[v]
      BY <1>0, <2>1, <2>2, <2>3 DEF ScanExpired, Drop, TypeOK
    <3> QED
      BY <1>0, <2>1, <2>2, <3>1, SettlingKeep DEF Settling
  <2>6. \A u \in Tasks : Claimed(u)' <=> Claimed(u)
    BY <1>0, <2>1, <2>2, <2>3, ClaimedKeep DEF ScanExpired
  <2>7. TypeOK'
    BY <1>0, <2>1, <2>2, <2>3, TimesNat DEF TypeOK, ScanExpired, Goto, Drop, WorkerPoints, Holding
  <2>8. OneOwner'
    BY <1>0, <2>1, <2>2, <2>3, NoTaskIsNone DEF OneOwner, WorkerInv, TypeOK, NoMapLeak, TaskInv, ScanExpired, Goto, Drop, Busy, Holding
  <2>9. NoMapLeak'
    BY <1>0, <2>1, <2>2, <2>3, <2>4 DEF NoMapLeak, TypeOK, ScanExpired
  <2>10. WorkerInv'
    BY <1>0, <2>1, <2>2, <2>3, NoTaskIsNone DEF OneOwner, TypeOK, TaskInv, HandlerInv, ScanExpired, WorkerInv, Goto, Busy, Holding, Settling, Expired, Drop
  <2>11. HandlerInv'
    BY <1>0, <2>1, <2>2, <2>3 DEF HandlerInv, TypeOK, ScanExpired
  <2>12. TaskInv'
    BY <1>0, <2>1, <2>2, <2>3, <2>4, <2>5, <2>6 DEF TaskInv, TypeOK, WorkerInv, HandlerInv, ScanExpired
  <2> QED
    BY <2>7, <2>8, <2>9, <2>10, <2>11, <2>12 DEF IInv
<1>6. CASE \E w \in Workers : ScanDue(w)
  <2>1. PICK w \in Workers : ScanDue(w)
    BY <1>6
  <2>2. PICK t \in m_heapItems :
          /\ m_heapItems' = m_heapItems \ {t} /\ cur' = [cur EXCEPT ![w] = t] /\ ~destroyed[t]
          /\ m_mapItems' = m_mapItems
          /\ ~executed[t]
    BY <2>1 DEF ScanDue
  <2>3. cur[w] = NoTask /\ t \in Tasks /\ t \in dispatched /\ Goto(w, "scan", "execute_lock")
    BY <1>0, <2>1, <2>2 DEF TypeOK, WorkerInv, NoMapLeak, TaskInv, ScanDue, Goto, Busy, Holding
  <2>4. \A u \in Tasks : Held(u)' <=> Held(u) \/ u = t
    BY <1>0, <2>1, <2>2, <2>3, HeldTake DEF ScanDue, WorkerInv, Goto, Busy, Holding, Settling
  <2>5. \A u \in Tasks : BeingSettled(u)' <=> BeingSettled(u)
    <3>1. Goto(w, "scan", "execute_lock") /\ \A v \in Workers \ {w} : cur'[v] = cur[v]
      BY <1>0, <2>1, <2>2, <2>3 DEF ScanDue, Drop, TypeOK
    <3> QED
      BY <1>0, <2>1, <2>2, <3>1, SettlingKeep DEF Settling
  <2>6. \A u \in Tasks : Claimed(u)' <=> Claimed(u)
    BY <1>0, <2>1, <2>2, <2>3, ClaimedKeep DEF ScanDue
  <2>7. TypeOK'
    BY <1>0, <2>1, <2>2, <2>3, TimesNat DEF TypeOK, ScanDue, Goto, Drop, WorkerPoints, Holding
  <2>8. OneOwner'
    BY <1>0, <2>1, <2>2, <2>3, NoTaskIsNone DEF OneOwner, WorkerInv, TypeOK, NoMapLeak, TaskInv, ScanDue, Goto, Drop, Busy, Holding
  <2>9. NoMapLeak'
    BY <1>0, <2>1, <2>2, <2>3, <2>4 DEF NoMapLeak, TypeOK, ScanDue
  <2>10. WorkerInv'
    <3>1. /\ wpc' = [wpc EXCEPT ![w] = "execute_lock"] /\ wpc[w] = "scan"
          /\ UNCHANGED <<m_mapItems, executed, destroyed, dispatched, asked, outcome>>
      BY <2>1, <2>2, <2>3 DEF ScanDue, Goto
    <3>2. t # NoTask /\ t \in m_mapItems /\ \A v \in Workers : cur[v] # t
      BY <1>0, <2>2, <2>3, NoTaskIsNone DEF OneOwner, NoMapLeak
    <3> QED
      BY <1>0, <2>2, <2>3, <3>1, <3>2 DEF TypeOK, WorkerInv, Busy, Holding, Settling, Expired
  <2>11. HandlerInv'
    BY <1>0, <2>1, <2>2, <2>3 DEF HandlerInv, TypeOK, ScanDue
  <2>12. TaskInv'
    BY <1>0, <2>1, <2>2, <2>3, <2>4, <2>5, <2>6 DEF TaskInv, TypeOK, WorkerInv, HandlerInv, ScanDue
  <2> QED
    BY <2>7, <2>8, <2>9, <2>10, <2>11, <2>12 DEF IInv
<1>7. CASE \E w \in Workers : ScanNothing(w)
  <2>1. PICK w \in Workers : ScanNothing(w)
    BY <1>7
  <2>2. \E to \in {"sleep"} : Goto(w, "scan", to)
    BY <2>1 DEF ScanNothing
  <2>3. \A u \in Tasks : BeingSettled(u)' <=> BeingSettled(u)
    BY <1>0, <2>1, <2>2, SettlingKeep DEF ScanNothing, Settling
  <2>4. OneOwner' /\ NoMapLeak' /\ HandlerInv' /\ TaskInv'
    BY <2>1, <2>3, QuietStep DEF ScanNothing
  <2>5. TypeOK'
    BY <1>0, <2>1, TimesNat DEF TypeOK, ScanNothing, Goto, WorkerPoints, Holding
  <2>6. WorkerInv'
    BY <1>0, <2>1 DEF TypeOK, ScanNothing, WorkerInv, Goto, Busy, Holding, Settling, Expired
  <2> QED
    BY <2>4, <2>5, <2>6 DEF IInv
<1>8. CASE \E w \in Workers : TimeoutLock(w)
  <2>1. PICK w \in Workers : TimeoutLock(w)
    BY <1>8
  <2>2. cur[w] \in Tasks /\ cur[w] \in dispatched
    BY <1>0, <2>1 DEF WorkerInv, TypeOK, TimeoutLock, Goto, Busy, Holding
  <2>3. \/ cur' = cur /\ ~destroyed[cur[w]] /\ Goto(w, "timeout_lock", "timeout")
        \/ Drop(w) /\ destroyed[cur[w]] /\ Goto(w, "timeout_lock", "sleep")
    BY <2>1 DEF TimeoutLock
  <2>4. cur[w] \notin m_mapItems
    BY <1>0, <2>1, <2>2, NoTaskIsNone DEF TimeoutLock, WorkerInv, Goto, Expired
  <2>5. \A u \in Tasks : Held(u)' <=> Held(u) /\ (cur' = cur \/ u # cur[w])
    BY <1>0, <2>1, <2>2, <2>3, <2>4, HeldKeep, HeldDrop DEF TimeoutLock, WorkerInv, Goto, Busy, Holding, Settling
  <2>6. \A u \in Tasks : BeingSettled(u)' <=> BeingSettled(u)
    <3>1. (\E to \in {"timeout", "sleep"} : Goto(w, "timeout_lock", to)) /\ \A v \in Workers \ {w} : cur'[v] = cur[v]
      BY <1>0, <2>1 DEF TimeoutLock, Drop, TypeOK
    <3> QED
      BY <1>0, <2>1, <2>2, <3>1, SettlingKeep DEF Settling
  <2>7. \A u \in Tasks : Claimed(u)' <=> Claimed(u)
    BY <1>0, <2>1, <2>2, <2>3, <2>4, ClaimedKeep DEF TimeoutLock
  <2>8. TypeOK'
    BY <1>0, <2>1, <2>2, <2>3, <2>4, TimesNat DEF TypeOK, TimeoutLock, Goto, Drop, WorkerPoints, Holding
  <2>9. OneOwner'
    <3>1. cur' = cur \/ cur' = [cur EXCEPT ![w] = NoTask]
      BY <2>3 DEF Drop
    <3>2. m_heapItems' = m_heapItems
      BY <2>1 DEF TimeoutLock
    <3>3. \A v \in Workers : cur'[v] = cur[v] \/ cur'[v] = NoTask
      BY <1>0, <3>1 DEF TypeOK
    <3> QED
      BY <1>0, <3>2, <3>3 DEF OneOwner
  <2>10. NoMapLeak'
    BY <1>0, <2>1, <2>2, <2>3, <2>4, <2>5 DEF NoMapLeak, TypeOK, TimeoutLock
  <2>11. WorkerInv'
    BY <1>0, <2>1, <2>2, <2>3, <2>4, NoTaskIsNone DEF OneOwner, TypeOK, TaskInv, HandlerInv, TimeoutLock, WorkerInv, Goto, Busy, Holding, Settling, Expired, Drop
  <2>12. HandlerInv'
    BY <1>0, <2>1, <2>2, <2>3, <2>4 DEF HandlerInv, TypeOK, TimeoutLock
  <2>13. TaskInv'
    BY <1>0, <2>1, <2>2, <2>3, <2>4, <2>5, <2>6, <2>7 DEF TaskInv, TypeOK, WorkerInv, HandlerInv, TimeoutLock
  <2> QED
    BY <2>8, <2>9, <2>10, <2>11, <2>12, <2>13 DEF IInv
<1>9. CASE \E w \in Workers : TaskTimeout(w)
  <2>1. PICK w \in Workers : TaskTimeout(w)
    BY <1>9
  <2>2. cur[w] \in Tasks /\ cur[w] \in dispatched
    BY <1>0, <2>1 DEF WorkerInv, TypeOK, TaskTimeout, Goto, Busy, Holding
  <2>3. Goto(w, "timeout", "timeout_destroy") /\ SettleWith(cur[w], "timeout")
    BY <2>1 DEF TaskTimeout
  <2>4. \A v \in Workers \ {w} : cur[v] # cur[w]
    BY <1>0, <2>2, NoTaskIsNone DEF OneOwner
  <2>5. ~destroyed[cur[w]]
    BY <1>0, <2>3 DEF WorkerInv, Goto
  <2>6. /\ outcome' \in [Tasks -> Seq(Abs!Outcomes)] /\ outcome'[cur[w]] # <<>>
        /\ \A u \in Tasks \ {cur[w]} : outcome'[u] = outcome[u]
    BY <1>0, <2>2, <2>3, Settled DEF Abs!Outcomes
  <2>7. \A u \in Tasks : Held(u)' <=> Held(u)
    BY <1>0, <2>1, <2>2, <2>3, <2>4, <2>5, <2>6, HeldKeep DEF TaskTimeout, WorkerInv, Goto, Busy, Holding, Settling
  <2>8. \A u \in Tasks : BeingSettled(u)' <=> BeingSettled(u) \/ u = cur[w]
    <3>1. Goto(w, "timeout", "timeout_destroy") /\ cur' = cur
      BY <2>1 DEF TaskTimeout, Drop, TypeOK
    <3> QED
      BY <1>0, <2>1, <2>2, <3>1, SettlingEnter DEF Settling
  <2>9. \A u \in Tasks : Claimed(u)' <=> Claimed(u)
    BY <1>0, <2>1, <2>2, <2>3, <2>4, <2>5, <2>6, ClaimedKeep DEF TaskTimeout
  <2>10. TypeOK'
    BY <1>0, <2>1, <2>2, <2>3, <2>4, <2>5, <2>6, TimesNat DEF TypeOK, TaskTimeout, Goto, Drop, WorkerPoints, Holding
  <2>11. OneOwner'
    BY <1>0, <2>1, <2>2, <2>3, <2>4, <2>5, <2>6, NoTaskIsNone DEF OneOwner, WorkerInv, TypeOK, NoMapLeak, TaskInv, TaskTimeout, Goto, Drop, Busy, Holding
  <2>12. NoMapLeak'
    BY <1>0, <2>1, <2>2, <2>3, <2>4, <2>5, <2>6, <2>7 DEF NoMapLeak, TypeOK, TaskTimeout
  <2>13. WorkerInv'
    BY <1>0, <2>1, <2>2, <2>3, <2>4, <2>5, <2>6, NoTaskIsNone DEF OneOwner, TypeOK, TaskInv, HandlerInv, TaskTimeout, WorkerInv, Goto, Busy, Holding, Settling, Expired, Drop
  <2>14. HandlerInv'
    BY <1>0, <2>1, <2>2, <2>3, <2>4, <2>5, <2>6 DEF HandlerInv, TypeOK, TaskTimeout
  <2>15. TaskInv'
    BY <1>0, <2>1, <2>2, <2>3, <2>4, <2>5, <2>6, <2>7, <2>8, <2>9 DEF TaskInv, TypeOK, WorkerInv, HandlerInv, TaskTimeout
  <2> QED
    BY <2>10, <2>11, <2>12, <2>13, <2>14, <2>15 DEF IInv
<1>10. CASE \E w \in Workers : TimeoutDestroy(w)
  <2>1. PICK w \in Workers : TimeoutDestroy(w)
    BY <1>10
  <2>2. cur[w] \in Tasks /\ cur[w] \in dispatched
    BY <1>0, <2>1 DEF WorkerInv, TypeOK, TimeoutDestroy, Goto, Busy, Holding
  <2>3. Goto(w, "timeout_destroy", "sleep") /\ destroyed' = [destroyed EXCEPT ![cur[w]] = TRUE]
    BY <2>1 DEF TimeoutDestroy
  <2>4. \A v \in Workers \ {w} : cur[v] # cur[w]
    BY <1>0, <2>2, NoTaskIsNone DEF OneOwner
  <2>5. ~destroyed[cur[w]] /\ outcome[cur[w]] # <<>> /\ cur[w] \notin m_mapItems
    BY <1>0, <2>2, <2>3, NoTaskIsNone DEF WorkerInv, Goto, Settling, Expired
  <2>6. \A u \in Tasks : Held(u)' <=> Held(u) /\ u # cur[w]
    BY <1>0, <2>1, <2>2, <2>3, <2>4, <2>5, HeldDrop DEF TimeoutDestroy, WorkerInv, Goto, Busy, Holding, Settling
  <2>7. \A u \in Tasks : BeingSettled(u)' <=> BeingSettled(u) /\ u # cur[w]
    <3>1. Goto(w, "timeout_destroy", "sleep") /\ cur[w] # NoTask /\ \A v \in Workers \ {w} : cur'[v] = cur[v]
      BY <1>0, <2>1, <2>2, NoTaskIsNone DEF TimeoutDestroy, Drop, TypeOK
    <3> QED
      BY <1>0, <2>1, <2>2, <3>1, SettlingLeave DEF Settling
  <2>8. \A u \in Tasks : Claimed(u)' <=> Claimed(u)
    BY <1>0, <2>1, <2>2, <2>3, <2>4, <2>5, ClaimedKeep DEF TimeoutDestroy
  <2>9. TypeOK'
    BY <1>0, <2>1, <2>2, <2>3, <2>4, <2>5, TimesNat DEF TypeOK, TimeoutDestroy, Goto, Drop, WorkerPoints, Holding
  <2>10. OneOwner'
    BY <1>0, <2>1, <2>2, <2>3, <2>4, <2>5, NoTaskIsNone DEF OneOwner, WorkerInv, TypeOK, NoMapLeak, TaskInv, TimeoutDestroy, Goto, Drop, Busy, Holding
  <2>11. NoMapLeak'
    BY <1>0, <2>1, <2>2, <2>3, <2>4, <2>5, <2>6 DEF NoMapLeak, TypeOK, TimeoutDestroy
  <2>12. WorkerInv'
    BY <1>0, <2>1, <2>2, <2>3, <2>4, <2>5, NoTaskIsNone DEF OneOwner, TypeOK, TaskInv, HandlerInv, TimeoutDestroy, WorkerInv, Goto, Busy, Holding, Settling, Expired, Drop
  <2>13. HandlerInv'
    BY <1>0, <2>1, <2>2, <2>3, <2>4, <2>5 DEF HandlerInv, TypeOK, TimeoutDestroy
  <2>14. TaskInv'
    BY <1>0, <2>1, <2>2, <2>3, <2>4, <2>5, <2>6, <2>7, <2>8 DEF TaskInv, TypeOK, WorkerInv, HandlerInv, TimeoutDestroy
  <2> QED
    BY <2>9, <2>10, <2>11, <2>12, <2>13, <2>14 DEF IInv
<1>11. CASE \E w \in Workers : ExecuteLock(w)
  <2>1. PICK w \in Workers : ExecuteLock(w)
    BY <1>11
  <2>2. cur[w] \in Tasks /\ cur[w] \in dispatched
    BY <1>0, <2>1 DEF WorkerInv, TypeOK, ExecuteLock, Goto, Busy, Holding
  <2>3. \/ ~destroyed[cur[w]] /\ Goto(w, "execute_lock", "execute") /\ executed' = [executed EXCEPT ![cur[w]] = TRUE]
        \/ destroyed[cur[w]] /\ Goto(w, "execute_lock", "erase") /\ UNCHANGED executed
    BY <2>1 DEF ExecuteLock
  <2>4. \A v \in Workers \ {w} : cur[v] # cur[w]
    BY <1>0, <2>2, NoTaskIsNone DEF OneOwner
  <2>5. cur[w] \notin asked
    BY <1>0, <2>2, <2>3 DEF WorkerInv, TaskInv, Goto
  <2>6. \A u \in Tasks : Held(u)' <=> Held(u)
    BY <1>0, <2>1, <2>2, <2>3, <2>4, <2>5, HeldKeep DEF ExecuteLock, WorkerInv, Goto, Busy, Holding, Settling
  <2>7. \A u \in Tasks : BeingSettled(u)' <=> BeingSettled(u)
    <3>1. (\E to \in {"execute", "erase"} : Goto(w, "execute_lock", to)) /\ \A v \in Workers \ {w} : cur'[v] = cur[v]
      BY <1>0, <2>1 DEF ExecuteLock, Drop, TypeOK
    <3> QED
      BY <1>0, <2>1, <2>2, <3>1, SettlingKeep DEF Settling
  <2>8. \A u \in Tasks : Claimed(u)' <=> Claimed(u)
    BY <1>0, <2>1, <2>2, <2>3, <2>4, <2>5, ClaimedKeep DEF ExecuteLock
  <2>9. TypeOK'
    BY <1>0, <2>1, <2>2, <2>3, <2>4, <2>5, TimesNat DEF TypeOK, ExecuteLock, Goto, Drop, WorkerPoints, Holding
  <2>10. OneOwner'
    BY <1>0, <2>1, <2>2, <2>3, <2>4, <2>5, NoTaskIsNone DEF OneOwner, WorkerInv, TypeOK, NoMapLeak, TaskInv, ExecuteLock, Goto, Drop, Busy, Holding
  <2>11. NoMapLeak'
    BY <1>0, <2>1, <2>2, <2>3, <2>4, <2>5, <2>6 DEF NoMapLeak, TypeOK, ExecuteLock
  <2>12. WorkerInv'
    BY <1>0, <2>1, <2>2, <2>3, <2>4, <2>5, NoTaskIsNone DEF OneOwner, TypeOK, TaskInv, HandlerInv, ExecuteLock, WorkerInv, Goto, Busy, Holding, Settling, Expired, Drop
  <2>13. HandlerInv'
    BY <1>0, <2>1, <2>2, <2>3, <2>4, <2>5 DEF HandlerInv, TypeOK, ExecuteLock
  <2>14. TaskInv'
    <3>1. UNCHANGED <<items, destroyed, dispatched, asked, outcome>>
      BY <2>1 DEF ExecuteLock
    <3>2. executed' = executed \/ executed' = [executed EXCEPT ![cur[w]] = TRUE]
      BY <2>3
    <3> QED
      BY <1>0, <2>2, <2>6, <2>7, <2>8, <3>1, <3>2 DEF TaskInv, TypeOK
  <2> QED
    BY <2>9, <2>10, <2>11, <2>12, <2>13, <2>14 DEF IInv
<1>12. CASE \E w \in Workers : TaskExecute(w)
  <2>1. PICK w \in Workers : TaskExecute(w)
    BY <1>12
  <2>2. cur[w] \in Tasks /\ cur[w] \in dispatched /\ cur[w] # NoTask
    BY <1>0, <2>1, NoTaskIsNone DEF WorkerInv, TypeOK, TaskExecute, Goto, Busy, Holding
  <2>3. \A v \in Workers \ {w} : cur[v] # cur[w]
    BY <1>0, <2>2 DEF OneOwner
  <2>4. ~destroyed[cur[w]] /\ wpc[w] = "execute" /\ executed[cur[w]]
    BY <1>0, <2>1 DEF WorkerInv, TaskExecute, Goto
  <2>5. \A u \in Tasks : (Held(u)' <=> Held(u)) /\ (Claimed(u)' <=> Claimed(u))
    BY <2>1, HeldKeep, ClaimedKeep DEF TaskExecute
  <2>6. CASE Goto(w, "execute", "unlock") /\ asked' = asked \cup {cur[w]} /\ UNCHANGED outcome
    <3>1. \A u \in Tasks : BeingSettled(u)' <=> BeingSettled(u)
      BY <1>0, <2>1, <2>6, SettlingKeep DEF TaskExecute, Settling
    <3>2. TypeOK'
      BY <1>0, <2>1, <2>2, <2>6 DEF TypeOK, TaskExecute, Goto, WorkerPoints, Holding
    <3>3. OneOwner' /\ NoMapLeak' /\ HandlerInv'
      BY <1>0, <2>1, <2>5, <2>6 DEF OneOwner, NoMapLeak, HandlerInv, TaskExecute, TypeOK
    <3>4. WorkerInv'
      BY <1>0, <2>1, <2>2, <2>3, <2>4, <2>6 DEF TypeOK, TaskExecute, WorkerInv, Goto, Busy, Holding, Settling, Expired
    <3>5. TaskInv'
      BY <1>0, <2>1, <2>2, <2>4, <2>5, <2>6, <3>1 DEF TaskInv, TypeOK, TaskExecute
    <3> QED
      BY <3>2, <3>3, <3>4, <3>5 DEF IInv
  <2>7. CASE Goto(w, "execute", "execute_destroy") /\ SettleWith(cur[w], "unreachable") /\ UNCHANGED asked
    <3>1. \A u \in Tasks : BeingSettled(u)' <=> BeingSettled(u) \/ u = cur[w]
      BY <1>0, <2>1, <2>7, SettlingEnter DEF TaskExecute, Settling
    <3>2. /\ outcome' \in [Tasks -> Seq(Abs!Outcomes)] /\ outcome'[cur[w]] # <<>>
          /\ \A u \in Tasks \ {cur[w]} : outcome'[u] = outcome[u]
      BY <1>0, <2>2, <2>7, Settled DEF Abs!Outcomes
    <3>3. TypeOK'
      BY <1>0, <2>1, <2>2, <2>7, <3>2 DEF TypeOK, TaskExecute, Goto, WorkerPoints, Holding
    <3>4. OneOwner' /\ NoMapLeak'
      BY <1>0, <2>1, <2>5 DEF OneOwner, NoMapLeak, TaskExecute, TypeOK
    <3>5. HandlerInv'
      BY <1>0, <2>1, <2>2, <2>4, <2>7, <3>2, NoTaskIsNone DEF HandlerInv, TaskExecute, TypeOK
    <3>6. WorkerInv'
      BY <1>0, <2>1, <2>2, <2>3, <2>4, <2>7, <3>2 DEF TypeOK, TaskExecute, WorkerInv, Goto, Busy, Holding, Settling, Expired
    <3>7. TaskInv'
      BY <1>0, <2>1, <2>2, <2>4, <2>5, <2>7, <3>1, <3>2 DEF TaskInv, TypeOK, TaskExecute
    <3> QED
      BY <3>3, <3>4, <3>5, <3>6, <3>7 DEF IInv
  <2> QED
    BY <2>1, <2>6, <2>7 DEF TaskExecute
<1>13. CASE \E w \in Workers : ExecuteDestroy(w)
  <2>1. PICK w \in Workers : ExecuteDestroy(w)
    BY <1>13
  <2>2. cur[w] \in Tasks /\ cur[w] \in dispatched
    BY <1>0, <2>1 DEF WorkerInv, TypeOK, ExecuteDestroy, Goto, Busy, Holding
  <2>3. Goto(w, "execute_destroy", "unlock") /\ destroyed' = [destroyed EXCEPT ![cur[w]] = TRUE]
    BY <2>1 DEF ExecuteDestroy
  <2>4. \A v \in Workers \ {w} : cur[v] # cur[w]
    BY <1>0, <2>2, NoTaskIsNone DEF OneOwner
  <2>5. ~destroyed[cur[w]] /\ outcome[cur[w]] # <<>>
    BY <1>0, <2>2, <2>3, NoTaskIsNone DEF WorkerInv, Goto, Settling, Expired
  <2>6. \A u \in Tasks : Held(u)' <=> Held(u)
    BY <1>0, <2>1, <2>2, <2>3, <2>4, <2>5, HeldKeep DEF ExecuteDestroy, WorkerInv, Goto, Busy, Holding, Settling
  <2>7. \A u \in Tasks : BeingSettled(u)' <=> BeingSettled(u) /\ u # cur[w]
    BY <1>0, <2>1, <2>2, <2>3, <2>4, <2>5, SettlingLeave DEF ExecuteDestroy, WorkerInv, TypeOK, Goto, Drop, Busy, Holding, Settling
  <2>8. \A u \in Tasks : Claimed(u)' <=> Claimed(u)
    BY <1>0, <2>1, <2>2, <2>3, <2>4, <2>5, ClaimedKeep DEF ExecuteDestroy
  <2>9. TypeOK'
    BY <1>0, <2>1, <2>2, <2>3, <2>4, <2>5, TimesNat DEF TypeOK, ExecuteDestroy, Goto, Drop, WorkerPoints, Holding
  <2>10. OneOwner'
    BY <1>0, <2>1, <2>2, <2>3, <2>4, <2>5, NoTaskIsNone DEF OneOwner, WorkerInv, TypeOK, NoMapLeak, TaskInv, ExecuteDestroy, Goto, Drop, Busy, Holding
  <2>11. NoMapLeak'
    BY <1>0, <2>1, <2>2, <2>3, <2>4, <2>5, <2>6 DEF NoMapLeak, TypeOK, ExecuteDestroy
  <2>12. WorkerInv'
    BY <1>0, <2>1, <2>2, <2>3, <2>4, <2>5, NoTaskIsNone DEF OneOwner, TypeOK, TaskInv, HandlerInv, ExecuteDestroy, WorkerInv, Goto, Busy, Holding, Settling, Expired, Drop
  <2>13. HandlerInv'
    BY <1>0, <2>1, <2>2, <2>3, <2>4, <2>5 DEF HandlerInv, TypeOK, ExecuteDestroy
  <2>14. TaskInv'
    BY <1>0, <2>1, <2>2, <2>3, <2>4, <2>5, <2>6, <2>7, <2>8 DEF TaskInv, TypeOK, WorkerInv, HandlerInv, ExecuteDestroy
  <2> QED
    BY <2>9, <2>10, <2>11, <2>12, <2>13, <2>14 DEF IInv
<1>14. CASE \E w \in Workers : Unlock(w)
  <2>1. PICK w \in Workers : Unlock(w)
    BY <1>14
  <2>2. \E to \in {"check"} : Goto(w, "unlock", to)
    BY <2>1 DEF Unlock
  <2>3. \A u \in Tasks : BeingSettled(u)' <=> BeingSettled(u)
    BY <1>0, <2>1, <2>2, SettlingKeep DEF Unlock, Settling
  <2>4. OneOwner' /\ NoMapLeak' /\ HandlerInv' /\ TaskInv'
    BY <2>1, <2>3, QuietStep DEF Unlock
  <2>5. TypeOK'
    BY <1>0, <2>1, TimesNat DEF TypeOK, Unlock, Goto, WorkerPoints, Holding
  <2>6. WorkerInv'
    BY <1>0, <2>1 DEF TypeOK, Unlock, WorkerInv, Goto, Busy, Holding, Settling, Expired
  <2> QED
    BY <2>4, <2>5, <2>6 DEF IInv
<1>15. CASE \E w \in Workers : Check(w)
  <2>1. PICK w \in Workers : Check(w)
    BY <1>15
  <2>2. \E to \in {"erase", "push"} : Goto(w, "check", to)
    BY <2>1 DEF Check
  <2>3. \A u \in Tasks : BeingSettled(u)' <=> BeingSettled(u)
    BY <1>0, <2>1, <2>2, SettlingKeep DEF Check, Settling
  <2>4. OneOwner' /\ NoMapLeak' /\ HandlerInv' /\ TaskInv'
    BY <2>1, <2>3, QuietStep DEF Check
  <2>5. TypeOK'
    BY <1>0, <2>1, TimesNat DEF TypeOK, Check, Goto, WorkerPoints, Holding
  <2>6. WorkerInv'
    BY <1>0, <2>1 DEF TypeOK, Check, WorkerInv, Goto, Busy, Holding, Settling, Expired
  <2> QED
    BY <2>4, <2>5, <2>6 DEF IInv
<1>16. CASE \E w \in Workers : Erase(w)
  <2>1. PICK w \in Workers : Erase(w)
    BY <1>16
  <2>2. cur[w] \in Tasks /\ cur[w] \in dispatched
    BY <1>0, <2>1 DEF WorkerInv, TypeOK, Erase, Goto, Busy, Holding
  <2>3. destroyed[cur[w]]
    BY <1>0, <2>1 DEF Erase, WorkerInv, Goto
  <2>4. \A v \in Workers \ {w} : cur[v] # cur[w]
    BY <1>0, <2>2, NoTaskIsNone DEF OneOwner
  <2>5. cur[w] \notin m_heapItems
    BY <1>0, <2>2, NoTaskIsNone DEF OneOwner
  <2>6. \A u \in Tasks : Held(u)' <=> Held(u) /\ u # cur[w]
    BY <1>0, <2>1, <2>2, <2>3, <2>4, <2>5, HeldDrop DEF Erase, WorkerInv, Goto, Busy, Holding, Settling
  <2>7. \A u \in Tasks : BeingSettled(u)' <=> BeingSettled(u)
    BY <1>0, <2>1, <2>2, <2>3, <2>4, <2>5, SettlingKeep DEF Erase, WorkerInv, TypeOK, Goto, Drop, Busy, Holding, Settling
  <2>8. \A u \in Tasks : Claimed(u)' <=> Claimed(u)
    BY <1>0, <2>1, <2>2, <2>3, <2>4, <2>5, ClaimedKeep DEF Erase
  <2>9. TypeOK'
    BY <1>0, <2>1, <2>2, <2>3, <2>4, <2>5, TimesNat DEF TypeOK, Erase, Goto, Drop, WorkerPoints, Holding
  <2>10. OneOwner'
    BY <1>0, <2>1, <2>2, <2>3, <2>4, <2>5, NoTaskIsNone DEF OneOwner, WorkerInv, TypeOK, NoMapLeak, TaskInv, Erase, Goto, Drop, Busy, Holding
  <2>11. NoMapLeak'
    BY <1>0, <2>1, <2>2, <2>3, <2>4, <2>5, <2>6 DEF NoMapLeak, TypeOK, Erase
  <2>12. WorkerInv'
    BY <1>0, <2>1, <2>2, <2>3, <2>4, <2>5, NoTaskIsNone DEF OneOwner, TypeOK, TaskInv, HandlerInv, Erase, WorkerInv, Goto, Busy, Holding, Settling, Expired, Drop
  <2>13. HandlerInv'
    BY <1>0, <2>1, <2>2, <2>3, <2>4, <2>5 DEF HandlerInv, TypeOK, Erase
  <2>14. TaskInv'
    BY <1>0, <2>1, <2>2, <2>3, <2>4, <2>5, <2>6, <2>7, <2>8 DEF TaskInv, TypeOK, WorkerInv, HandlerInv, Erase
  <2> QED
    BY <2>9, <2>10, <2>11, <2>12, <2>13, <2>14 DEF IInv
<1>17. CASE \E w \in Workers : Push(w)
  <2>1. PICK w \in Workers : Push(w)
    BY <1>17
  <2>2. cur[w] \in Tasks /\ cur[w] \in dispatched
    BY <1>0, <2>1 DEF WorkerInv, TypeOK, Push, Goto, Busy, Holding
  <2>3. \A v \in Workers \ {w} : cur[v] # cur[w]
    BY <1>0, <2>2, NoTaskIsNone DEF OneOwner
  <2>4. cur[w] \in m_mapItems
    BY <1>0, <2>1, <2>2, NoTaskIsNone DEF Push, WorkerInv, Goto, Expired
  <2>5. \A u \in Tasks : Held(u)' <=> Held(u) /\ u # cur[w]
    BY <1>0, <2>1, <2>2, <2>3, <2>4, HeldDrop DEF Push, WorkerInv, Goto, Busy, Holding, Settling
  <2>6. \A u \in Tasks : BeingSettled(u)' <=> BeingSettled(u)
    BY <1>0, <2>1, <2>2, <2>3, <2>4, SettlingKeep DEF Push, WorkerInv, TypeOK, Goto, Drop, Busy, Holding, Settling
  <2>7. \A u \in Tasks : Claimed(u)' <=> Claimed(u)
    BY <1>0, <2>1, <2>2, <2>3, <2>4, ClaimedKeep DEF Push
  <2>8. TypeOK'
    BY <1>0, <2>1, <2>2, <2>3, <2>4, TimesNat DEF TypeOK, Push, Goto, Drop, WorkerPoints, Holding
  <2>9. OneOwner'
    BY <1>0, <2>1, <2>2, <2>3, <2>4, NoTaskIsNone DEF OneOwner, WorkerInv, TypeOK, NoMapLeak, TaskInv, Push, Goto, Drop, Busy, Holding
  <2>10. NoMapLeak'
    BY <1>0, <2>1, <2>2, <2>3, <2>4, <2>5 DEF NoMapLeak, TypeOK, Push
  <2>11. WorkerInv'
    BY <1>0, <2>1, <2>2, <2>3, <2>4, NoTaskIsNone DEF OneOwner, TypeOK, TaskInv, HandlerInv, Push, WorkerInv, Goto, Busy, Holding, Settling, Expired, Drop
  <2>12. HandlerInv'
    BY <1>0, <2>1, <2>2, <2>3, <2>4 DEF HandlerInv, TypeOK, Push
  <2>13. TaskInv'
    BY <1>0, <2>1, <2>2, <2>3, <2>4, <2>5, <2>6, <2>7 DEF TaskInv, TypeOK, WorkerInv, HandlerInv, Push
  <2> QED
    BY <2>8, <2>9, <2>10, <2>11, <2>12, <2>13 DEF IInv
<1>18. CASE \E w \in Workers : Sleep(w)
  <2>1. PICK w \in Workers : Sleep(w)
    BY <1>18
  <2>2. \E to \in {"wait", "top"} : Goto(w, "sleep", to)
    BY <2>1 DEF Sleep
  <2>3. \A u \in Tasks : BeingSettled(u)' <=> BeingSettled(u)
    BY <1>0, <2>1, <2>2, SettlingKeep DEF Sleep, Settling
  <2>4. OneOwner' /\ NoMapLeak' /\ HandlerInv' /\ TaskInv'
    BY <2>1, <2>3, QuietStep DEF Sleep
  <2>5. TypeOK'
    <3>1. PICK dif \in Difs(w) :
            \/ dif > 0 /\ Goto(w, "sleep", "wait") /\ wakeAt' = [wakeAt EXCEPT ![w] = clock + dif]
            \/ Goto(w, "sleep", "top") /\ UNCHANGED wakeAt
      BY <2>1 DEF Sleep
    <3>2. dif \in Int
      <4>1. \A t \in Tasks : Key(t) \in Int
        BY <1>0 DEF TypeOK, Key
      <4> QED
        BY <1>0, <3>1, <4>1 DEF Difs, IdleWait, TypeOK
    <3>3. wpc' \in [Workers -> WorkerPoints]
      BY <1>0, <3>1 DEF TypeOK, Goto, WorkerPoints
    <3>4. wakeAt' \in [Workers -> Nat]
      <4>1. dif > 0 => clock + dif \in Nat
        BY <1>0, <3>2 DEF TypeOK
      <4> QED
        BY <1>0, <3>1, <4>1 DEF TypeOK
    <3> QED
      BY <1>0, <2>1, <3>3, <3>4 DEF TypeOK, Sleep
  <2>6. WorkerInv'
    BY <1>0, <2>1 DEF TypeOK, Sleep, WorkerInv, Goto, Busy, Holding, Settling, Expired
  <2> QED
    BY <2>4, <2>5, <2>6 DEF IInv
<1>19. CASE \E w \in Workers : WakeUp(w)
  <2>1. PICK w \in Workers : WakeUp(w)
    BY <1>19
  <2>2. \E to \in {"top"} : Goto(w, "wait", to)
    BY <2>1 DEF WakeUp
  <2>3. \A u \in Tasks : BeingSettled(u)' <=> BeingSettled(u)
    BY <1>0, <2>1, <2>2, SettlingKeep DEF WakeUp, Settling
  <2>4. OneOwner' /\ NoMapLeak' /\ HandlerInv' /\ TaskInv'
    BY <2>1, <2>3, QuietStep DEF WakeUp
  <2>5. TypeOK'
    BY <1>0, <2>1, TimesNat DEF TypeOK, WakeUp, Goto, WorkerPoints, Holding
  <2>6. WorkerInv'
    BY <1>0, <2>1 DEF TypeOK, WakeUp, WorkerInv, Goto, Busy, Holding, Settling, Expired
  <2> QED
    BY <2>4, <2>5, <2>6 DEF IInv
<1>20. CASE \E w \in Workers : SpuriousWakeUp(w)
  <2>1. PICK w \in Workers : SpuriousWakeUp(w)
    BY <1>20
  <2>2. \E to \in {"top"} : Goto(w, "wait", to)
    BY <2>1 DEF SpuriousWakeUp
  <2>3. \A u \in Tasks : BeingSettled(u)' <=> BeingSettled(u)
    BY <1>0, <2>1, <2>2, SettlingKeep DEF SpuriousWakeUp, Settling
  <2>4. OneOwner' /\ NoMapLeak' /\ HandlerInv' /\ TaskInv'
    BY <2>1, <2>3, QuietStep DEF SpuriousWakeUp
  <2>5. TypeOK'
    BY <1>0, <2>1, TimesNat DEF TypeOK, SpuriousWakeUp, Goto, WorkerPoints, Holding
  <2>6. WorkerInv'
    BY <1>0, <2>1 DEF TypeOK, SpuriousWakeUp, WorkerInv, Goto, Busy, Holding, Settling, Expired
  <2> QED
    BY <2>4, <2>5, <2>6 DEF IInv
<1>21. CASE \E h \in Handlers, t \in Tasks : Find(h, t)
  <2>1. PICK h \in Handlers, t \in Tasks : Find(h, t)
    BY <1>21
  <2>2. \A u \in Tasks : Claimed(u)' <=> Claimed(u)
    BY <1>0, <2>1 DEF Claimed, Find, TypeOK
  <2>3. \A u \in Tasks : (Held(u)' <=> Held(u)) /\ (BeingSettled(u)' <=> BeingSettled(u))
    BY <2>1, HeldKeep, SettlingSame DEF Find
  <2>4. TypeOK'
    BY <1>0, <2>1 DEF TypeOK, Find
  <2>5. OneOwner' /\ NoMapLeak' /\ WorkerInv'
    BY <1>0, <2>1, <2>3 DEF OneOwner, NoMapLeak, WorkerInv, Find, TypeOK
  <2>6. HandlerInv'
    BY <1>0, <2>1, NoTaskIsNone DEF HandlerInv, Find, TypeOK
  <2>7. TaskInv'
    BY <1>0, <2>1, <2>2, <2>3 DEF TaskInv, Find, TypeOK
  <2> QED
    BY <2>4, <2>5, <2>6, <2>7 DEF IInv
<1>22. CASE \E h \in Handlers : Claim(h)
  <2>1. PICK h \in Handlers : Claim(h)
    BY <1>22
  <2> DEFINE t == hcur[h]
  <2>2. t \in Tasks /\ t \in asked /\ t # NoTask /\ hpc[h] = "destroy" /\ t \in dispatched /\ executed[t]
    BY <1>0, <2>1, NoTaskIsNone DEF Claim, HandlerInv, TaskInv, TypeOK
  <2>3. \A w \in Workers : cur[w] = t => wpc[w] \notin Holding
    BY <2>1 DEF Claim, Locked
  <2>4. ~BeingSettled(t)
    BY <2>3 DEF BeingSettled, Settling, Holding
  <2>5. \A u \in Tasks : (Held(u)' <=> Held(u)) /\ (BeingSettled(u)' <=> BeingSettled(u))
    BY <2>1, HeldKeep, SettlingSame DEF Claim
  <2>6. OneOwner' /\ NoMapLeak'
    BY <1>0, <2>1, <2>5 DEF OneOwner, NoMapLeak, Claim, TypeOK
  <2>7. ~destroyed[t] => outcome[t] = <<>>
    BY <1>0, <2>2, <2>4 DEF TaskInv
  <2>8. \A g \in Handlers : hpc[g] = "respond" => destroyed[hcur[g]] /\ g # h
    BY <1>0, <2>2 DEF HandlerInv
  <2>9. destroyed' = [destroyed EXCEPT ![t] = TRUE] /\ UNCHANGED <<items, executed, worker, dispatched, asked>>
    BY <2>1 DEF Claim
  <2>10. CASE hpc' = [hpc EXCEPT ![h] = "idle"] /\ hcur' = [hcur EXCEPT ![h] = NoTask]
              /\ destroyed[t] /\ UNCHANGED outcome
    <3>1. \A u \in Tasks : Claimed(u)' <=> Claimed(u)
      BY <1>0, <2>2, <2>10 DEF Claimed, TypeOK
    <3>2. TypeOK'
      BY <1>0, <2>1, <2>2, <2>10 DEF TypeOK, Claim
    <3>3. WorkerInv' /\ HandlerInv'
      BY <1>0, <2>2, <2>3, <2>8, <2>9, <2>10 DEF WorkerInv, HandlerInv, TypeOK, Holding, Settling
    <3>4. TaskInv'
      BY <1>0, <2>2, <2>5, <2>9, <2>10, <3>1 DEF TaskInv, TypeOK
    <3> QED
      BY <2>6, <3>2, <3>3, <3>4 DEF IInv
  <2>11. CASE hpc' = [hpc EXCEPT ![h] = "respond"] /\ ~destroyed[t] /\ UNCHANGED <<hcur, outcome>>
    <3>1. \A u \in Tasks : Claimed(u)' <=> Claimed(u) \/ u = t
      BY <1>0, <2>2, <2>11 DEF Claimed, TypeOK
    <3>2. TypeOK'
      BY <1>0, <2>1, <2>2, <2>11 DEF TypeOK, Claim
    <3>3. WorkerInv'
      BY <1>0, <2>2, <2>3, <2>9, <2>11 DEF WorkerInv, TypeOK, Holding, Settling
    <3>4. HandlerInv'
      BY <1>0, <2>2, <2>7, <2>8, <2>9, <2>11 DEF HandlerInv, TypeOK
    <3>5. TaskInv'
      BY <1>0, <2>2, <2>5, <2>9, <2>11, <3>1 DEF TaskInv, TypeOK
    <3> QED
      BY <2>6, <3>2, <3>3, <3>4, <3>5 DEF IInv
  <2>12. CASE hpc' = [hpc EXCEPT ![h] = "idle"] /\ hcur' = [hcur EXCEPT ![h] = NoTask]
              /\ ~destroyed[t] /\ SettleWith(t, "dropped")
    <3>1. \A u \in Tasks : Claimed(u)' <=> Claimed(u)
      BY <1>0, <2>2, <2>12 DEF Claimed, TypeOK
    <3>2. /\ outcome' \in [Tasks -> Seq(Abs!Outcomes)] /\ outcome'[t] # <<>>
          /\ \A u \in Tasks \ {t} : outcome'[u] = outcome[u]
      BY <1>0, <2>2, <2>12, Settled DEF Abs!Outcomes
    <3>3. TypeOK'
      BY <1>0, <2>1, <2>2, <2>12, <3>2 DEF TypeOK, Claim
    <3>4. WorkerInv'
      <4>1. \A w \in Workers : cur[w] \in Tasks \cup {NoTask} /\ (wpc[w] \in Busy => cur[w] \in Tasks)
        BY <1>0 DEF TypeOK, WorkerInv
      <4>2. \A w \in Workers : wpc[w] \in Settling => cur[w] \in Tasks \ {t} /\ outcome'[cur[w]] = outcome[cur[w]]
        BY <2>3, <3>2, <4>1 DEF Settling, Holding, Busy
      <4> QED
        BY <1>0, <2>2, <2>3, <2>9, <4>1, <4>2 DEF WorkerInv, TypeOK, Holding, Settling
    <3>5. HandlerInv'
      BY <1>0, <2>2, <2>8, <2>9, <2>12, <3>2 DEF HandlerInv, TypeOK
    <3>6. TaskInv'
      BY <1>0, <2>2, <2>5, <2>9, <2>12, <3>1, <3>2 DEF TaskInv, TypeOK
    <3> QED
      BY <2>6, <3>3, <3>4, <3>5, <3>6 DEF IInv
  <2> QED
    BY <2>1, <2>10, <2>11, <2>12 DEF Claim
<1>23. CASE \E h \in Handlers : HandleResponse(h)
  <2>1. PICK h \in Handlers : HandleResponse(h)
    BY <1>23
  <2> DEFINE t == hcur[h]
  <2>2. /\ t \in Tasks /\ t \in asked /\ t # NoTask /\ hpc[h] = "respond" /\ t \in dispatched
        /\ destroyed[t] /\ outcome[t] = <<>>
        /\ \A g \in Handlers \ {h} : hpc[g] = "respond" => hcur[g] # t
    BY <1>0, <2>1, NoTaskIsNone DEF HandleResponse, HandlerInv, TaskInv, TypeOK
  <2>3. /\ outcome' \in [Tasks -> Seq(Abs!Outcomes)] /\ outcome'[t] # <<>>
        /\ \A u \in Tasks \ {t} : outcome'[u] = outcome[u]
    BY <1>0, <2>1, <2>2, Settled DEF Abs!Outcomes, HandleResponse
  <2>4. \A u \in Tasks : (Held(u)' <=> Held(u)) /\ (BeingSettled(u)' <=> BeingSettled(u))
    BY <2>1, HeldKeep, SettlingSame DEF HandleResponse
  <2>5. /\ hpc' = [hpc EXCEPT ![h] = "idle"] /\ hcur' = [hcur EXCEPT ![h] = NoTask]
        /\ UNCHANGED <<items, executed, destroyed, worker, dispatched, asked>>
    BY <2>1 DEF HandleResponse
  <2>6. \A u \in Tasks : Claimed(u)' <=> Claimed(u) /\ u # t
    BY <1>0, <2>2, <2>5 DEF Claimed, TypeOK
  <2>7. TypeOK'
    BY <1>0, <2>1, <2>2, <2>3 DEF TypeOK, HandleResponse
  <2>8. OneOwner' /\ NoMapLeak'
    BY <1>0, <2>4, <2>5 DEF OneOwner, NoMapLeak, TypeOK
  <2>9. WorkerInv'
    BY <1>0, <2>2, <2>3, <2>5, NoTaskIsNone DEF WorkerInv, TypeOK, Settling, Busy, Holding
  <2>10. HandlerInv'
    BY <1>0, <2>2, <2>3, <2>5, NoTaskIsNone DEF HandlerInv, TypeOK
  <2>11. TaskInv'
    BY <1>0, <2>2, <2>3, <2>4, <2>5, <2>6 DEF TaskInv, TypeOK
  <2> QED
    BY <2>7, <2>8, <2>9, <2>10, <2>11 DEF IInv
<1>24. CASE SetExit
  <2>1. \A u \in Tasks : BeingSettled(u)' <=> BeingSettled(u)
    BY <1>24, SettlingSame DEF SetExit
  <2>2. OneOwner' /\ NoMapLeak' /\ HandlerInv' /\ TaskInv'
    BY <1>24, <2>1, QuietStep DEF SetExit
  <2>3. TypeOK' /\ WorkerInv'
    BY <1>0, <1>24 DEF TypeOK, WorkerInv, SetExit
  <2> QED
    BY <2>2, <2>3 DEF IInv
<1>25. CASE Tick
  <2>1. \A u \in Tasks : BeingSettled(u)' <=> BeingSettled(u)
    BY <1>25, SettlingSame DEF Tick
  <2>2. OneOwner' /\ NoMapLeak' /\ HandlerInv' /\ TaskInv'
    BY <1>25, <2>1, QuietStep DEF Tick
  <2>3. TypeOK' /\ WorkerInv'
    BY <1>0, <1>25 DEF TypeOK, WorkerInv, Tick
  <2> QED
    BY <2>2, <2>3 DEF IInv
<1>26. CASE UNCHANGED vars
  <2>1. \A u \in Tasks : BeingSettled(u)' <=> BeingSettled(u)
    BY <1>26, SettlingSame DEF vars
  <2>2. OneOwner' /\ NoMapLeak' /\ HandlerInv' /\ TaskInv'
    BY <1>26, <2>1, QuietStep DEF vars
  <2>3. TypeOK' /\ WorkerInv'
    BY <1>0, <1>26 DEF TypeOK, WorkerInv, vars
  <2> QED
    BY <2>2, <2>3 DEF IInv
<1>27. CASE NotifyAll
  <2>1. \A w \in Workers : /\ wpc'[w] = wpc[w] \/ (wpc[w] = "wait" /\ wpc'[w] = "top")
                          /\ cur'[w] = cur[w]
    BY <1>27 DEF NotifyAll
  <2>2. \A u \in Tasks : BeingSettled(u)' <=> BeingSettled(u)
    BY <2>1 DEF BeingSettled, Settling
  <2>3. OneOwner' /\ NoMapLeak' /\ HandlerInv' /\ TaskInv'
    BY <1>27, <2>2, QuietStep DEF NotifyAll
  <2>4. TypeOK'
    BY <1>0, <1>27 DEF TypeOK, NotifyAll, WorkerPoints
  <2>5. WorkerInv'
    BY <1>0, <1>27, <2>1 DEF NotifyAll, WorkerInv, Busy, Holding, Settling, Expired
  <2> QED
    BY <2>3, <2>4, <2>5 DEF IInv
<1>90. ASSUME NEW t \in Tasks, DispatchNow(t) \/ DispatchAt(t) \/ DispatchAtWithin(t)
       PROVE  \E at \in Nat, stay \in Nat : Dispatch(t, at, stay)
  BY <1>0, <1>90, TimesNat DEF DispatchNow, DispatchAt, DispatchAtWithin, TypeOK
<1>91. ASSUME NEW w \in Workers, WorkerStep(w)
       PROVE  IInv'
  BY <1>91, <1>2, <1>3, <1>4, <1>5, <1>6, <1>7, <1>8, <1>9, <1>10, <1>11, <1>12, <1>13, <1>14, <1>15, <1>16, <1>17, <1>18, <1>19 DEF WorkerStep
<1> QED
  BY <1>90, <1>91, <1>1, <1>2, <1>3, <1>4, <1>5, <1>6, <1>7, <1>8, <1>9, <1>10, <1>11, <1>12, <1>13, <1>14, <1>15, <1>16, <1>17, <1>18, <1>19, <1>20, <1>21, <1>22, <1>23, <1>24, <1>25, <1>26, <1>27 DEF Next, HandlerStep, Terminated

LEMMA Inductive == Spec => []IInv
BY InitIInv, NextIInv, PTL DEF Spec

\* The manager's state keeps its types.
THEOREM TypeCorrect == Spec => []TypeOK
BY Inductive, PTL DEF IInv

\* No item is in the heap twice, with two workers, or with a worker and in the heap.
THEOREM OwnerUnique == Spec => []OneOwner
BY Inductive, PTL DEF IInv

\* Every entry of m_mapItems will be seen by a worker again.
THEOREM MapDoesNotLeak == Spec => []NoMapLeak
BY Inductive, PTL DEF IInv

\* The heap, a worker or a handler has every task whose visitor waits for its feedback.
THEOREM NothingForgotten == Spec => []NotForgotten
<1>1. IInv => NotForgotten
  BY DEF IInv, TaskInv, TypeOK, NotForgotten
<1> QED
  BY <1>1, Inductive, PTL

-----------------------------------------------------------------------------
LEMMA InitRefines == Init => Abs!AInit
BY DEF Init, Abs!AInit

\* A task that is neither destroyed nor at this moment being settled by the worker that
\* holds its mutex has no outcome yet.
LEMMA Unsettled ==
  ASSUME IInv, NEW t \in Tasks, ~destroyed[t], ~BeingSettled(t)
  PROVE  outcome[t] = <<>>
BY DEF IInv, TaskInv

\* Settling a task that is not settled is a step of AsyncTask.
LEMMA SettleRefines ==
  ASSUME IInv, NEW t \in Tasks, NEW o \in Abs!Outcomes, SettleWith(t, o),
         t \in dispatched, outcome[t] = <<>>, UNCHANGED <<dispatched, asked>>,
         o \in {"answered", "dropped"} => t \in asked,
         o = "unreachable" => t \notin asked
  PROVE  Abs!ANext
BY Settled DEF IInv, Abs!ANext, Abs!Settle

\* A worker's item is settled by nobody but that worker.
LEMMA WorkerAlone ==
  ASSUME IInv, NEW w \in Workers, wpc[w] \in {"timeout", "execute"}
  PROVE  /\ cur[w] \in Tasks /\ cur[w] \in dispatched /\ outcome[cur[w]] = <<>>
         /\ wpc[w] = "execute" => cur[w] \notin asked
<1>1. cur[w] \in Tasks /\ cur[w] # NoTask /\ cur[w] \in dispatched /\ ~destroyed[cur[w]]
  BY NoTaskIsNone DEF IInv, WorkerInv, TypeOK, Busy, Holding
<1>2. ~BeingSettled(cur[w])
  BY <1>1 DEF IInv, OneOwner, BeingSettled, Settling
<1>3. wpc[w] = "execute" => cur[w] \notin asked
  BY DEF IInv, WorkerInv
<1> QED
  BY <1>1, <1>2, <1>3, Unsettled

LEMMA NextRefines == IInv /\ [Next]_vars => [Abs!ANext]_(Abs!avars)
<1> SUFFICES ASSUME IInv, [Next]_vars PROVE [Abs!ANext]_(Abs!avars)
  OBVIOUS
<1> USE DEF history, Abs!avars
<1>1. ASSUME NEW t \in Tasks, DispatchNow(t) \/ DispatchAt(t) \/ DispatchAtWithin(t)
      PROVE  Abs!ANext
  BY <1>1 DEF DispatchNow, DispatchAt, DispatchAtWithin, Dispatch, Abs!ANext, Abs!Begin
<1>2. ASSUME NEW w \in Workers, WorkerStep(w) \/ SpuriousWakeUp(w)
      PROVE  [Abs!ANext]_(Abs!avars)
  <2>1. CASE TaskTimeout(w)
    BY <2>1, WorkerAlone, SettleRefines DEF TaskTimeout, Goto, Abs!Outcomes
  <2>2. CASE TaskExecute(w)
    <3>1. wpc[w] = "execute"
      BY <2>2 DEF TaskExecute, Goto
    <3>2. CASE asked' = asked \cup {cur[w]} /\ UNCHANGED outcome
      BY <2>2, <3>1, <3>2, WorkerAlone DEF TaskExecute, Abs!ANext, Abs!Ask
    <3>3. CASE SettleWith(cur[w], "unreachable") /\ UNCHANGED asked
      BY <2>2, <3>1, <3>3, WorkerAlone, SettleRefines DEF TaskExecute, Abs!Outcomes
    <3> QED
      BY <2>2, <3>2, <3>3 DEF TaskExecute
  <2>3. CASE ~TaskTimeout(w) /\ ~TaskExecute(w)
    BY <1>2, <2>3 DEF WorkerStep, Top, ScanEmpty, ScanDestroyed, ScanExpired, ScanDue,
       ScanNothing, TimeoutLock, TimeoutDestroy, ExecuteLock, ExecuteDestroy, Unlock, Check,
       Erase, Push, Sleep, WakeUp, SpuriousWakeUp
  <2> QED
    BY <2>1, <2>2, <2>3
<1>3. ASSUME NEW h \in Handlers, Claim(h)
      PROVE  [Abs!ANext]_(Abs!avars)
  <2>1. /\ hcur[h] \in Tasks /\ hcur[h] \in asked /\ hcur[h] \in dispatched
    BY <1>3, NoTaskIsNone DEF Claim, IInv, HandlerInv, TaskInv, TypeOK
  <2>2. CASE UNCHANGED outcome
    BY <1>3, <2>2 DEF Claim
  <2>3. CASE ~destroyed[hcur[h]] /\ SettleWith(hcur[h], "dropped")
    <3>1. ~BeingSettled(hcur[h])
      BY <1>3 DEF Claim, Locked, BeingSettled, Settling, Holding
    <3>2. outcome[hcur[h]] = <<>>
      BY <2>1, <2>3, <3>1, Unsettled
    <3> QED
      BY <1>3, <2>1, <2>3, <3>2, SettleRefines DEF Claim, Abs!Outcomes
  <2> QED
    BY <1>3, <2>2, <2>3 DEF Claim
<1>4. ASSUME NEW h \in Handlers, HandleResponse(h)
      PROVE  Abs!ANext
  <2>1. /\ hcur[h] \in Tasks /\ hcur[h] \in asked /\ hcur[h] \in dispatched
        /\ outcome[hcur[h]] = <<>>
    BY <1>4, NoTaskIsNone DEF HandleResponse, IInv, HandlerInv, TaskInv, TypeOK
  <2> QED
    BY <1>4, <2>1, SettleRefines DEF HandleResponse, Abs!Outcomes
<1>5. ASSUME NEW h \in Handlers, NEW t \in Tasks, Find(h, t)
      PROVE  UNCHANGED Abs!avars
  BY <1>5 DEF Find
<1>6. CASE SetExit \/ NotifyAll \/ Tick \/ UNCHANGED vars
  BY <1>6 DEF SetExit, NotifyAll, Tick, vars
<1> QED
  BY <1>1, <1>2, <1>3, <1>4, <1>5, <1>6 DEF Next, HandlerStep, Terminated

\* For any number of visits, workers and concurrent or repeated responses, the visitor
\* gets at most one feedback and the guard at most one request, in the order AsyncTask
\* allows.
THEOREM Refinement == Spec => ImplementsAsyncTask
BY Inductive, InitRefines, NextRefines, PTL DEF Spec, ImplementsAsyncTask, Abs!ASpec

-----------------------------------------------------------------------------
\* exec reads the clock before it locks anything, and the clock only grows: a worker that
\* took an item for expired still finds it so when it settles it.
Late ==
  /\ \A w \in Workers : now[w] <= clock
  /\ \A w \in Workers : wpc[w] \in {"timeout_lock", "timeout"} => clock > maxStay[cur[w]]
  /\ TimeoutNotEarly

\* Time goes on, and a worker's reading of it is never ahead.
LEMMA ClockSteps ==
  ASSUME IInv, [Next]_vars
  PROVE  /\ clock' \in Nat /\ clock' >= clock
         /\ \A w \in Workers : now'[w] \in {now[w], clock, 0}
<1>0. clock \in Nat /\ now \in [Workers -> Nat]
  BY DEF IInv, TypeOK
<1> USE DEF items, times, worker, handler, history
<1>1. ASSUME NEW t \in Tasks, DispatchNow(t) \/ DispatchAt(t) \/ DispatchAtWithin(t)
      PROVE  UNCHANGED <<clock, now>>
  BY <1>1 DEF DispatchNow, DispatchAt, DispatchAtWithin, Dispatch
<1>2. ASSUME NEW w \in Workers, WorkerStep(w) \/ SpuriousWakeUp(w)
      PROVE  clock' = clock /\ \E n \in {now[w], clock, 0} : now' = [now EXCEPT ![w] = n]
  <2>1. CASE Top(w) \/ Sleep(w)
    BY <1>0, <2>1 DEF Top, Sleep
  <2>2. CASE ~Top(w) /\ ~Sleep(w)
    <3>1. UNCHANGED <<clock, now>>
      BY <1>2, <2>2 DEF WorkerStep, ScanEmpty, ScanDestroyed, ScanExpired, ScanDue,
         ScanNothing, TimeoutLock, TaskTimeout, TimeoutDestroy, ExecuteLock, TaskExecute,
         ExecuteDestroy, Unlock, Check, Erase, Push, WakeUp, SpuriousWakeUp
    <3> QED
      BY <1>0, <3>1
  <2> QED
    BY <2>1, <2>2
<1>3. ASSUME NEW h \in Handlers, HandlerStep(h) \/ \E t \in Tasks : Find(h, t)
      PROVE  UNCHANGED <<clock, now>>
  BY <1>3 DEF HandlerStep, Claim, HandleResponse, Find
<1>4. CASE SetExit \/ NotifyAll \/ Tick \/ Terminated \/ UNCHANGED vars
  BY <1>0, <1>4 DEF SetExit, NotifyAll, Tick, Terminated, vars
<1> QED
  BY <1>0, <1>1, <1>2, <1>3, <1>4 DEF Next

\* The deadline of a dispatched task stays.
LEMMA StaySteps ==
  ASSUME IInv, [Next]_vars
  PROVE  \A t \in Tasks : t \in dispatched => maxStay'[t] = maxStay[t]
<1>0. maxStay \in [Tasks -> Nat]
  BY DEF IInv, TypeOK
<1> USE DEF items, times, worker, handler, history
<1>1. ASSUME NEW u \in Tasks, DispatchNow(u) \/ DispatchAt(u) \/ DispatchAtWithin(u)
      PROVE  u \notin dispatched /\ \E s : maxStay' = [maxStay EXCEPT ![u] = s]
  BY <1>1 DEF DispatchNow, DispatchAt, DispatchAtWithin, Dispatch
<1>2. ASSUME NEW w \in Workers, WorkerStep(w) \/ SpuriousWakeUp(w)
      PROVE  UNCHANGED maxStay
  BY <1>2 DEF WorkerStep, Top, ScanEmpty, ScanDestroyed, ScanExpired, ScanDue, ScanNothing,
     TimeoutLock, TaskTimeout, TimeoutDestroy, ExecuteLock, TaskExecute, ExecuteDestroy, Unlock,
     Check, Erase, Push, Sleep, WakeUp, SpuriousWakeUp
<1>3. ASSUME NEW h \in Handlers, HandlerStep(h) \/ \E t \in Tasks : Find(h, t)
      PROVE  UNCHANGED maxStay
  BY <1>3 DEF HandlerStep, Claim, HandleResponse, Find
<1>4. CASE SetExit \/ NotifyAll \/ Tick \/ Terminated \/ UNCHANGED vars
  BY <1>4 DEF SetExit, NotifyAll, Tick, Terminated, vars
<1> QED
  BY <1>0, <1>1, <1>2, <1>3, <1>4 DEF Next

\* A worker comes to an expired item in ScanExpired only.
LEMMA ExpiredSteps ==
  ASSUME IInv, [Next]_vars, NEW w \in Workers, wpc'[w] \in {"timeout_lock", "timeout"}
  PROVE  \/ wpc[w] \in {"timeout_lock", "timeout"} /\ cur'[w] = cur[w]
         \/ /\ cur'[w] \in Tasks /\ cur'[w] \in dispatched
            /\ now[w] > maxStay[cur'[w]]
<1>0. /\ wpc \in [Workers -> WorkerPoints] /\ cur \in [Workers -> Tasks \cup {NoTask}]
      /\ m_heapItems \subseteq Tasks /\ m_heapItems \subseteq dispatched
  BY DEF IInv, TypeOK, NoMapLeak, TaskInv
<1> USE DEF items, times, worker, handler, history
<1>1. ASSUME NEW t \in Tasks, DispatchNow(t) \/ DispatchAt(t) \/ DispatchAtWithin(t)
      PROVE  cur' = cur /\ wpc[w] = wpc'[w]
  BY <1>0, <1>1 DEF DispatchNow, DispatchAt, DispatchAtWithin, Dispatch, Goto
<1>2. ASSUME NEW v \in Workers, WorkerStep(v) \/ SpuriousWakeUp(v), v # w
      PROVE  cur'[w] = cur[w] /\ wpc[w] = wpc'[w]
  BY <1>0, <1>2 DEF WorkerStep, Top, ScanEmpty, ScanDestroyed, ScanExpired, ScanDue,
     ScanNothing, TimeoutLock, TaskTimeout, TimeoutDestroy, ExecuteLock, TaskExecute,
     ExecuteDestroy, Unlock, Check, Erase, Push, Sleep, WakeUp, SpuriousWakeUp, Goto, Drop
<1>3. ASSUME WorkerStep(w) \/ SpuriousWakeUp(w)
      PROVE  \/ wpc[w] \in {"timeout_lock", "timeout"} /\ cur'[w] = cur[w]
             \/ /\ cur'[w] \in Tasks /\ cur'[w] \in dispatched
                /\ now[w] > maxStay[cur'[w]]
  <2>1. CASE ScanExpired(w)
    BY <1>0, <2>1 DEF ScanExpired
  <2>2. CASE TimeoutLock(w)
    BY <1>0, <2>2 DEF TimeoutLock, Goto
  <2>3. CASE ~ScanExpired(w) /\ ~TimeoutLock(w)
    BY <1>0, <1>3, <2>3 DEF WorkerStep, Top, ScanEmpty, ScanDestroyed, ScanDue,
       ScanNothing, TaskTimeout, TimeoutDestroy, ExecuteLock, TaskExecute,
       ExecuteDestroy, Unlock, Check, Erase, Push, Sleep, WakeUp, SpuriousWakeUp, Goto
  <2> QED
    BY <2>1, <2>2, <2>3
<1>4. ASSUME NEW h \in Handlers, HandlerStep(h) \/ \E t \in Tasks : Find(h, t)
      PROVE  UNCHANGED <<wpc, cur>>
  BY <1>4 DEF HandlerStep, Claim, HandleResponse, Find
<1>5. CASE SetExit \/ Tick \/ Terminated \/ UNCHANGED vars
  BY <1>5 DEF SetExit, Tick, Terminated, vars
<1>6. CASE NotifyAll
  BY <1>0, <1>6 DEF NotifyAll
<1> QED
  BY <1>1, <1>2, <1>3, <1>4, <1>5, <1>6 DEF Next

\* Nobody but TaskTimeout tells a visitor of a timeout.
LEMMA TimeoutSteps ==
  ASSUME IInv, [Next]_vars, NEW t \in Tasks, outcome'[t] = <<"timeout">>
  PROVE  \/ outcome[t] = <<"timeout">>
         \/ \E w \in Workers : wpc[w] = "timeout" /\ cur[w] = t
<1>0. outcome \in [Tasks -> Seq(Abs!Outcomes)]
  BY DEF IInv, TypeOK
<1> USE DEF items, times, worker, handler, history
<1>1. ASSUME NEW u \in Tasks, DispatchNow(u) \/ DispatchAt(u) \/ DispatchAtWithin(u)
      PROVE  UNCHANGED outcome
  BY <1>1 DEF DispatchNow, DispatchAt, DispatchAtWithin, Dispatch
<1>2. ASSUME NEW u \in Tasks, NEW o \in Abs!Outcomes \ {"timeout"}, SettleWith(u, o),
             outcome[u] = <<>>
      PROVE  outcome[t] = <<"timeout">>
  <2>1. outcome'[u] = <<o>> /\ \A v \in Tasks \ {u} : outcome'[v] = outcome[v]
    BY <1>0, <1>2, Settled DEF IInv
  <2>2. u # t
    BY <1>2, <2>1
  <2> QED
    BY <2>1, <2>2
<1>3. ASSUME NEW w \in Workers, WorkerStep(w) \/ SpuriousWakeUp(w)
      PROVE  \/ outcome[t] = <<"timeout">>
             \/ \E v \in Workers : wpc[v] = "timeout" /\ cur[v] = t
  <2>1. CASE TaskTimeout(w)
    BY <1>0, <2>1, WorkerAlone DEF TaskTimeout, Goto, SettleWith
  <2>2. CASE TaskExecute(w)
    <3>1. wpc[w] = "execute"
      BY <2>2 DEF TaskExecute, Goto
    <3>2. UNCHANGED outcome \/ SettleWith(cur[w], "unreachable")
      BY <2>2 DEF TaskExecute
    <3> QED
      BY <1>2, <3>1, <3>2, WorkerAlone DEF Abs!Outcomes
  <2>3. CASE ~TaskTimeout(w) /\ ~TaskExecute(w)
    BY <1>3, <2>3 DEF WorkerStep, Top, ScanEmpty, ScanDestroyed, ScanExpired, ScanDue,
       ScanNothing, TimeoutLock, TimeoutDestroy, ExecuteLock, ExecuteDestroy, Unlock, Check,
       Erase, Push, Sleep, WakeUp, SpuriousWakeUp
  <2> QED
    BY <2>1, <2>2, <2>3
<1>4. ASSUME NEW h \in Handlers, Claim(h)
      PROVE  outcome[t] = <<"timeout">>
  <2>1. hcur[h] \in Tasks
    BY <1>4, NoTaskIsNone DEF Claim, IInv, HandlerInv, TaskInv, TypeOK
  <2>2. CASE UNCHANGED outcome
    BY <2>2
  <2>3. CASE ~destroyed[hcur[h]] /\ SettleWith(hcur[h], "dropped")
    <3>1. ~BeingSettled(hcur[h])
      BY <1>4 DEF Claim, Locked, BeingSettled, Settling, Holding
    <3> QED
      BY <1>2, <2>1, <2>3, <3>1, Unsettled DEF Abs!Outcomes
  <2> QED
    BY <1>4, <2>2, <2>3 DEF Claim
<1>5. ASSUME NEW h \in Handlers, HandleResponse(h)
      PROVE  outcome[t] = <<"timeout">>
  <2>1. hcur[h] \in Tasks /\ outcome[hcur[h]] = <<>>
    BY <1>5, NoTaskIsNone DEF HandleResponse, IInv, HandlerInv, TypeOK
  <2> QED
    BY <1>2, <1>5, <2>1 DEF HandleResponse, Abs!Outcomes
<1>6. ASSUME NEW h \in Handlers, NEW u \in Tasks, Find(h, u)
      PROVE  UNCHANGED outcome
  BY <1>6 DEF Find
<1>7. CASE SetExit \/ NotifyAll \/ Tick \/ Terminated \/ UNCHANGED vars
  BY <1>7 DEF SetExit, NotifyAll, Tick, Terminated, vars
<1> QED
  BY <1>1, <1>3, <1>4, <1>5, <1>6, <1>7 DEF Next, HandlerStep

LEMMA InitLate == Init => Late
BY DEF Init, Late, TimeoutNotEarly

LEMMA NextLate == IInv /\ Late /\ [Next]_vars => Late'
<1> SUFFICES ASSUME IInv, Late, [Next]_vars PROVE Late'
  OBVIOUS
<1>1. /\ clock \in Nat /\ maxStay \in [Tasks -> Nat] /\ now \in [Workers -> Nat]
      /\ \A w \in Workers : wpc[w] \in {"timeout_lock", "timeout"} =>
           cur[w] \in Tasks /\ cur[w] \in dispatched
  BY NoTaskIsNone DEF IInv, TypeOK, WorkerInv, Busy, Holding
<1>2. clock' \in Nat /\ clock' >= clock
  BY ClockSteps
<1>3. ASSUME NEW w \in Workers PROVE now'[w] <= clock'
  BY <1>1, <1>2, ClockSteps DEF Late
<1>4. ASSUME NEW w \in Workers, wpc'[w] \in {"timeout_lock", "timeout"}
      PROVE  clock' > maxStay'[cur'[w]]
  <2>1. CASE wpc[w] \in {"timeout_lock", "timeout"} /\ cur'[w] = cur[w]
    BY <1>1, <1>2, <2>1, StaySteps DEF Late
  <2>2. CASE /\ cur'[w] \in Tasks /\ cur'[w] \in dispatched
             /\ now[w] > maxStay[cur'[w]]
    BY <1>1, <1>2, <2>2, StaySteps DEF Late
  <2> QED
    BY <1>4, <2>1, <2>2, ExpiredSteps
<1>5. ASSUME NEW t \in Tasks, outcome'[t] = <<"timeout">>
      PROVE  clock' > maxStay'[t]
  <2>1. CASE outcome[t] = <<"timeout">>
    <3>1. t \in dispatched
      BY <2>1 DEF IInv, TaskInv
    <3> QED
      BY <1>1, <1>2, <2>1, <3>1, StaySteps DEF Late, TimeoutNotEarly
  <2>2. CASE \E w \in Workers : wpc[w] = "timeout" /\ cur[w] = t
    BY <1>1, <1>2, <2>2, StaySteps DEF Late
  <2> QED
    BY <1>5, <2>1, <2>2, TimeoutSteps
<1> QED
  BY <1>3, <1>4, <1>5 DEF Late, TimeoutNotEarly

\* No visitor of any number is told of a timeout before its time is over, however long the
\* worker that read the clock was held up before it settled the task.
THEOREM NoEarlyTimeout == Spec => []TimeoutNotEarly
<1>1. Late => TimeoutNotEarly
  BY DEF Late
<1> QED
  BY <1>1, InitLate, NextLate, Inductive, PTL DEF Spec
=============================================================================
