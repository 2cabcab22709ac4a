-------------------------- MODULE RequestProcessor --------------------------
(***************************************************************************)
(* One RequestProcessor::Heap: the requests of the connections that one IO *)
(* thread serves.  The IO thread pushes what it receives, and handles it   *)
(* itself where the rates of the connection allow; the heap's own thread   *)
(* handles the rest.  Handlers run under the heap's mutex, so a step below *)
(* is a critical section or one turn of the loop inside it.                *)
(*                                                                         *)
(* Time is abstract: `due` holds the connections whose reservation tag has *)
(* passed, and a connection not due may be pulled early (its limit tag) or *)
(* not.  A data request weighs 1 of the byte limit, a clean-up 0.          *)
(***************************************************************************)
EXTENDS Naturals, Sequences, FiniteSets

CONSTANTS Connections,
          MaxPending,   \* MAX_PENDING_BYTES, in requests
          MaxRequests   \* bound: data requests a connection sends

ASSUME BoundsNat == MaxPending \in Nat /\ MaxRequests \in Nat

VARIABLES
  peer,        \* each connection: "open", "closing" (disconnect()), "reported"
  requests,    \* m_requests of each connection
  m_queue,     \* how often each connection is in the heap
  due,         \* the connections with reservation <= now
  holder,      \* who has m_mutex and is in processPossible: "nobody", "io", "worker"
  emptied,     \* push's local: the heap was empty before
  wpc,         \* the worker: "top", "lock", "wait", "done"
  m_exit,      \* Heap::exit: "no", "set", "notified"
  accepted, handled   \* history: the requests pushRequest took, and those handled

thread == <<holder, emptied, wpc>>
vars == <<peer, requests, m_queue, due, thread, m_exit, accepted, handled>>

Clean == 0        \* TAG_CLEAN; data requests are numbered from 1
Init ==
  /\ peer = [c \in Connections |-> "open"]
  /\ requests = [c \in Connections |-> <<>>] /\ m_queue = [c \in Connections |-> 0]
  /\ due = {} /\ holder = "nobody" /\ emptied = FALSE /\ wpc = "top" /\ m_exit = "no"
  /\ accepted = [c \in Connections |-> <<>>] /\ handled = [c \in Connections |-> <<>>]

Queued == {c \in Connections : m_queue[c] > 0}
Weight(s) == Cardinality({i \in DOMAIN s : s[i] # Clean})
\* updateRLW gives c new tags: it is due at once or some time later.
Retag(c) == due' \in {due \cup {c}, due \ {c}}

-----------------------------------------------------------------------------
\* Mutant: the request is handled at once although others of the connection wait.
PushOvertakes(c, r) ==
  /\ holder = "nobody"
  /\ Weight(requests[c]) < MaxPending
  /\ accepted' = [accepted EXCEPT ![c] = Append(@, r)]
  /\ \/ /\ handled' = [handled EXCEPT ![c] = Append(@, r)]
        /\ UNCHANGED <<requests, m_queue, due, thread>>
     \/ /\ requests' = [requests EXCEPT ![c] = Append(@, r)]
        /\ m_queue' = [m_queue EXCEPT ![c] = 1]
        /\ holder' = "io" /\ emptied' = (Queued = {})
        /\ UNCHANGED <<due, wpc, handled>>

\* Mutant: the connection enters the heap with each of its requests.
PushAlwaysQueues(c, r) ==
  /\ holder = "nobody"
  /\ Weight(requests[c]) < MaxPending
  /\ accepted' = [accepted EXCEPT ![c] = Append(@, r)]
  /\ requests' = [requests EXCEPT ![c] = Append(@, r)]
  /\ m_queue' = [m_queue EXCEPT ![c] = @ + 1]
  /\ holder' = "io" /\ emptied' = (Queued = {})
  /\ UNCHANGED <<due, wpc, handled>>

\* Heap::push of an accepted request. The first request of a connection that is due is
\* handled on the spot; otherwise the connection is in the heap exactly once, and the IO
\* thread goes on to processPossible.
Accept(c, r) ==
  /\ holder = "nobody"
  /\ Weight(requests[c]) < MaxPending
  /\ accepted' = [accepted EXCEPT ![c] = Append(@, r)]
  /\ \/ /\ requests[c] = <<>> /\ Retag(c) /\ c \in due'
        /\ handled' = [handled EXCEPT ![c] = Append(@, r)]
        /\ UNCHANGED <<requests, m_queue, thread>>
     \/ /\ requests' = [requests EXCEPT ![c] = Append(@, r)]
        /\ IF requests[c] = <<>> THEN m_queue' = [m_queue EXCEPT ![c] = @ + 1] /\ Retag(c)
                                 ELSE UNCHANGED <<m_queue, due>>
        /\ holder' = "io" /\ emptied' = (Queued = {})
        /\ UNCHANGED <<wpc, handled>>

\* The data of an open connection. A request over the byte limit closes the connection.
Receive(c) ==
  LET n == Cardinality({i \in DOMAIN accepted[c] : accepted[c][i] # Clean}) IN
  /\ peer[c] # "reported" /\ n < MaxRequests
  /\ \/ Accept(c, n + 1) /\ UNCHANGED peer
     \/ /\ holder = "nobody" /\ Weight(requests[c]) >= MaxPending
        /\ peer' = [peer EXCEPT ![c] = "closing"]
        /\ UNCHANGED <<requests, m_queue, due, thread, accepted, handled>>
  /\ UNCHANGED m_exit

Close(c) ==
  /\ peer[c] = "open" /\ peer' = [peer EXCEPT ![c] = "closing"]
  /\ UNCHANGED <<requests, m_queue, due, thread, m_exit, accepted, handled>>

\* onDisconnected: the last call of the IO thread for the connection. whenDisconnected
\* ignores that push may refuse its CleanUserConnection.
Report(c) ==
  /\ peer[c] = "closing" /\ peer' = [peer EXCEPT ![c] = "reported"]
  /\ \/ Accept(c, Clean)
     \/ /\ holder = "nobody" /\ Weight(requests[c]) >= MaxPending
        /\ UNCHANGED <<requests, m_queue, due, thread, accepted, handled>>
  /\ UNCHANGED m_exit

-----------------------------------------------------------------------------
\* Mutant: a connection with more requests is not put back into the heap.
PullForgets(th) ==
  /\ holder = th
  /\ \E c \in Queued :
       /\ c \in due \/ Queued \cap due = {}
       /\ requests' = [requests EXCEPT ![c] = Tail(@)]
       /\ handled' = [handled EXCEPT ![c] = Append(@, Head(requests[c]))]
       /\ m_queue' = [m_queue EXCEPT ![c] = @ - 1]
       /\ Retag(c)
  /\ UNCHANGED <<peer, thread, m_exit, accepted>>

\* One turn of processPossible: pull takes a connection whose reservation has passed, or
\* if there is none perhaps one whose limit has; its first request is handled, and it
\* goes back into the heap if it has more.
Pull(th) ==
  /\ holder = th
  /\ \E c \in Queued :
       /\ c \in due \/ Queued \cap due = {}
       /\ requests' = [requests EXCEPT ![c] = Tail(@)]
       /\ handled' = [handled EXCEPT ![c] = Append(@, Head(requests[c]))]
       /\ m_queue' = [m_queue EXCEPT ![c] = IF Tail(requests[c]) = <<>> THEN @ - 1 ELSE @]
       /\ Retag(c)
  /\ UNCHANGED <<peer, thread, m_exit, accepted>>

\* The end of push: the worker is woken if the heap was empty and is not any more.
PushEnd ==
  /\ holder = "io" /\ Queued \cap due = {}
  /\ holder' = "nobody" /\ emptied' = FALSE
  /\ wpc' = IF emptied /\ Queued # {} /\ wpc = "wait" THEN "top" ELSE wpc
  /\ UNCHANGED <<peer, requests, m_queue, due, m_exit, accepted, handled>>

\* Mutant: m_exit is not looked at.
WorkerTopNoExit ==
  /\ wpc = "top" /\ wpc' = "lock"
  /\ UNCHANGED <<peer, requests, m_queue, due, holder, emptied, m_exit, accepted, handled>>

WorkerTop ==
  /\ wpc = "top" /\ wpc' = IF m_exit = "no" THEN "lock" ELSE "done"
  /\ UNCHANGED <<peer, requests, m_queue, due, holder, emptied, m_exit, accepted, handled>>

WorkerLock ==
  /\ wpc = "lock" /\ holder = "nobody" /\ holder' = "worker"
  /\ UNCHANGED <<peer, requests, m_queue, due, emptied, wpc, m_exit, accepted, handled>>

\* Mutant: the worker waits although connections are left in the heap.
WorkerEndWaits ==
  /\ holder = "worker" /\ Queued \cap due = {}
  /\ holder' = "nobody" /\ wpc' = "wait"
  /\ UNCHANGED <<peer, requests, m_queue, due, emptied, m_exit, accepted, handled>>

\* Nothing more can be pulled: wait if the heap is empty, else try again a little later.
WorkerEnd ==
  /\ holder = "worker" /\ Queued \cap due = {}
  /\ holder' = "nobody" /\ wpc' = IF Queued = {} THEN "wait" ELSE "top"
  /\ UNCHANGED <<peer, requests, m_queue, due, emptied, m_exit, accepted, handled>>

SpuriousWakeUp ==
  /\ wpc = "wait" /\ wpc' = "top"
  /\ UNCHANGED <<peer, requests, m_queue, due, holder, emptied, m_exit, accepted, handled>>

\* Time goes on (processPossible goes by the time at which it began).
BecomesDue(c) ==
  /\ holder = "nobody"
  /\ c \in Queued \ due /\ due' = due \cup {c}
  /\ UNCHANGED <<peer, requests, m_queue, thread, m_exit, accepted, handled>>

\* Heap::exit, without the mutex.
SetExit ==
  /\ m_exit = "no" /\ m_exit' = "set"
  /\ UNCHANGED <<peer, requests, m_queue, due, thread, accepted, handled>>

NotifyAll ==
  /\ m_exit = "set" /\ m_exit' = "notified"
  /\ wpc' = IF wpc = "wait" THEN "top" ELSE wpc
  /\ UNCHANGED <<peer, requests, m_queue, due, holder, emptied, accepted, handled>>

-----------------------------------------------------------------------------
WorkerStep == WorkerTop \/ WorkerLock \/ Pull("worker") \/ WorkerEnd
IOStep == Pull("io") \/ PushEnd

\* Nothing more to receive and nothing to handle.
Idle == /\ \A c \in Connections : peer[c] = "reported"
        /\ holder = "nobody" /\ wpc \in {"wait", "done"}
        /\ UNCHANGED vars

Next ==
  \/ \E c \in Connections : Receive(c) \/ Close(c) \/ Report(c) \/ BecomesDue(c)
  \/ IOStep \/ WorkerStep \/ SpuriousWakeUp \/ SetExit \/ NotifyAll \/ Idle

Spec == Init /\ [][Next]_vars

\* Both threads keep running (the worker gets the mutex, which the IO thread leaves
\* between two pushes, infinitely often), a tag passes in time whoever holds the mutex,
\* and exit() comes to its end. What the connections send is up to them.
Fairness ==
  /\ WF_vars(IOStep) /\ SF_vars(WorkerStep) /\ WF_vars(NotifyAll)
  /\ \A c \in Connections : SF_vars(BecomesDue(c))

FairSpec == Spec /\ Fairness

-----------------------------------------------------------------------------
TypeOK ==
  /\ peer \in [Connections -> {"open", "closing", "reported"}]
  /\ requests \in [Connections -> Seq(Nat)] /\ m_queue \in [Connections -> Nat]
  /\ due \subseteq Connections /\ holder \in {"nobody", "io", "worker"}
  /\ emptied \in BOOLEAN /\ wpc \in {"top", "lock", "wait", "done"}
  /\ m_exit \in {"no", "set", "notified"}
  /\ accepted \in [Connections -> Seq(Nat)] /\ handled \in [Connections -> Seq(Nat)]

\* A connection is in the heap once if it has requests and not at all otherwise: nothing
\* waits outside the heap, and pull's assert that there is a request to pop holds. (The
\* heap's order stays valid too: the tags of a connection change only outside the heap.)
QueueMatches ==
  \A c \in Connections : m_queue[c] = IF requests[c] = <<>> THEN 0 ELSE 1

\* The requests of a connection are handled in the order received, none is lost and none
\* is handled twice, whichever thread handles them and however the rates reorder the
\* connections; so a clean-up, pushed last, is handled last.
InOrder == \A c \in Connections : handled[c] \o requests[c] = accepted[c]

\* The worker does not sleep while a connection waits in the heap, although push wakes it
\* only when it finds the heap empty.
NoLostWakeUp == wpc = "wait" /\ holder = "nobody" => Queued = {}

\* Every request taken is handled, unless the server exits.
AllHandled ==
  \A c \in Connections : requests[c] # <<>> ~> requests[c] = <<>> \/ m_exit # "no"

\* exit() ends a worker that waits, or that has still to look at m_exit. (One between its
\* look and its wait may sleep on: exit() notifies without the mutex, the notification is
\* lost, and only another request would wake the worker.)
ExitEnds == m_exit = "set" /\ wpc \in {"top", "wait"} ~> wpc = "done"
=============================================================================
