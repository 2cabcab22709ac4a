------------------------------ MODULE TCPServer ------------------------------
(***************************************************************************)
(* The connections of EasyIO's TCP server and of the ServerBase above it:  *)
(* the acceptor thread that makes them, the event loop that reads, writes  *)
(* and ends them, the threads that send to them, and close().              *)
(*                                                                         *)
(* What the code does under a connection's m_lock is one step.  A loop     *)
(* thread that serves several connections only delays each of them, so     *)
(* every connection has a loop of its own here.  The kernel is modelled    *)
(* from its use: a socket takes `room` bytes until the peer reads, reports *)
(* an error once, and kills the process (SIGPIPE, which nothing ignores)   *)
(* that writes to it after shutdown.  A peer that closes in order changes  *)
(* nothing: recv returns 0, which recv0 takes for no error.                *)
(***************************************************************************)
EXTENDS Naturals, Sequences, SequencesExt

CONSTANTS Connections, Senders,
          Sizes,       \* the lengths of the buffers sent
          Room,        \* bytes a socket takes while its peer does not read
          MaxPending,  \* MAX_PENDING_BYTES
          MaxSends     \* bound: buffers sent to a connection

ASSUME BoundsNat ==
  /\ Sizes \subseteq Nat \ {0} /\ Room \in Nat \ {0} /\ MaxPending \in Nat \ {0}
  /\ MaxSends \in Nat

VARIABLES
  stage,        \* how far addConnection has come with each connection
  con,          \* the Connection: m_connected, m_disconnecting, m_context.events (pollIn,
                \* pollOut), m_tasksRecv (reading), m_tasksSend (tasks), m_numBytesPending
  sock,         \* the kernel: free space, data to read, shut down, SO_ERROR set
  loop,         \* where the event loop is in handleEvents, with which events, err != 0
  connections,  \* Server::m_connections
  users,        \* ServerBase::m_connections
  sender,       \* where each sender is in UserConnection::send, and to whom it sends
  server, todo, \* close(): "open", "joining", "disconnecting", "closed", and whom to disconnect
  crash,        \* what ended the process, or "no"
  submitted, wire, early   \* history: bytes given to send, bytes taken by the kernel,
                           \* connections lost before ServerBase had them in its table

table == <<connections, users>>
closing == <<server, todo>>
history == <<submitted, wire, early>>
vars == <<stage, con, sock, loop, table, sender, closing, crash, history>>

NoEvents == [in |-> FALSE, err |-> FALSE, out |-> FALSE]

Init ==
  /\ stage = [c \in Connections |-> "none"]
  /\ con = [c \in Connections |->
       [connected |-> FALSE, disconnecting |-> FALSE, pollIn |-> FALSE, pollOut |-> FALSE,
        reading |-> FALSE, tasks |-> <<>>, pending |-> 0]]
  /\ sock = [c \in Connections |->
       [room |-> Room, inbound |-> FALSE, shut |-> FALSE, error |-> FALSE]]
  /\ loop = [c \in Connections |-> [pc |-> "wait", events |-> NoEvents, failed |-> FALSE]]
  /\ connections = {} /\ users = {}
  /\ sender = [s \in Senders |-> [pc |-> "idle", to |-> {}]]
  /\ server = "open" /\ todo = {} /\ crash = "no"
  /\ submitted = [c \in Connections |-> <<>>] /\ wire = [c \in Connections |-> <<>>]
  /\ early = {}

-----------------------------------------------------------------------------
(* The connection. *)

\* Connection::disconnect only asks the event loop to disconnect.
Disconnect(c) ==
  IF con[c].connected /\ ~con[c].disconnecting
  THEN /\ con' = [con EXCEPT ![c].disconnecting = TRUE, ![c].pollIn = TRUE]
       /\ sock' = [sock EXCEPT ![c].shut = TRUE]
  ELSE UNCHANGED <<con, sock>>

\* The bytes of a buffer the kernel takes now.
Taken(c, buf) == SubSeq(buf, 1, IF Len(buf) < sock[c].room THEN Len(buf) ELSE sock[c].room)
Rest(c, buf) == SubSeq(buf, Len(Taken(c, buf)) + 1, Len(buf))

\* The transmitter of send0, with `tasks` in the queue and `pending` bytes counted: an
\* error, the death of the process, or as much as the kernel takes; if that is not all of
\* the first buffer, EPOLLOUT is asked for. `whole`: send() pops what is complete and clears
\* EPOLLOUT under the same lock; handleEvents does so in later steps.
Transmit(c, tasks, pending, whole) ==
  LET taken == Taken(c, Head(tasks))  rest == Rest(c, Head(tasks)) IN
  IF sock[c].error \/ sock[c].shut
  THEN /\ sock' = [sock EXCEPT ![c].error = FALSE]
       /\ crash' = IF sock[c].error THEN crash ELSE "SIGPIPE"
       /\ con' = [con EXCEPT ![c].tasks = tasks, ![c].pending = pending]
       /\ UNCHANGED wire
  ELSE /\ sock' = [sock EXCEPT ![c].room = @ - Len(taken)]
       /\ con' = [con EXCEPT ![c].tasks = IF whole /\ rest = <<>> THEN Tail(tasks)
                                            ELSE <<rest>> \o Tail(tasks),
                             ![c].pending = pending - Len(taken),
                             ![c].pollOut = rest # <<>> \/ (@ /\ ~whole)]
       /\ wire' = [wire EXCEPT ![c] = @ \o taken]
       /\ UNCHANGED crash

\* recv0 reads what has arrived; it fails if there is only an error to report.
RecvFails(c) == sock[c].error /\ ~sock[c].inbound
AfterRecv(c) == [sock EXCEPT ![c].inbound = FALSE, ![c].error = @ /\ sock[c].inbound]

-----------------------------------------------------------------------------
(* The acceptor thread. *)

\* One connection after another goes through addConnection.
AcceptorFree == \A c \in Connections : stage[c] \in {"none", "refused", "served"}

\* The constructor adds the socket to the event loop, with no events: errors are reported.
Accept(c) ==
  /\ server = "open" /\ AcceptorFree /\ stage[c] = "none"
  /\ stage' = [stage EXCEPT ![c] = "added"]
  /\ con' = [con EXCEPT ![c].connected = TRUE]
  /\ UNCHANGED <<sock, loop, table, sender, closing, crash, history>>

SetCallbacks(c) ==
  /\ stage[c] = "added" /\ stage' = [stage EXCEPT ![c] = "callbacks"]
  /\ UNCHANGED <<con, sock, loop, table, sender, closing, crash, history>>

Insert(c) ==
  /\ stage[c] = "callbacks" /\ stage' = [stage EXCEPT ![c] = "listed"]
  /\ connections' = connections \cup {c}
  /\ UNCHANGED <<con, users, sock, loop, sender, closing, crash, history>>

\* onConnected: makeUserConnection, which fails if the private key cannot be used.
MakeUserConnection(c) ==
  /\ stage[c] = "listed"
  /\ \/ stage' = [stage EXCEPT ![c] = "bound"] /\ UNCHANGED <<con, sock>>
     \/ stage' = [stage EXCEPT ![c] = "refused"] /\ Disconnect(c)
  /\ UNCHANGED <<table, loop, sender, closing, crash, history>>

\* ServerBase::addConnection.  exec() may be walking through the set without the lock (it
\* copies it and then walks through the original): undefined, it may end the process.
AddUser(c) ==
  /\ stage[c] = "bound" /\ stage' = [stage EXCEPT ![c] = "user"]
  /\ users' = users \cup {c} /\ crash' \in {crash, "race"}
  /\ UNCHANGED <<con, connections, sock, loop, sender, closing, history>>

\* Connection::recv for the first time, on the acceptor thread: it may already read data.
FirstRecv(c) ==
  /\ stage[c] = "user"
  /\ IF con[c].connected
     THEN /\ con' = [con EXCEPT ![c].reading = TRUE, ![c].pollIn = TRUE]
          /\ sock' = AfterRecv(c)
          /\ stage' = [stage EXCEPT ![c] = IF RecvFails(c) THEN "failed" ELSE "served"]
     ELSE /\ stage' = [stage EXCEPT ![c] = "served"] /\ UNCHANGED <<con, sock>>
  /\ UNCHANGED <<table, loop, sender, closing, crash, history>>

\* If it failed, it disconnects after the unlock.
FirstRecvFails(c) ==
  /\ stage[c] = "failed" /\ stage' = [stage EXCEPT ![c] = "served"]
  /\ Disconnect(c)
  /\ UNCHANGED <<table, loop, sender, closing, crash, history>>

-----------------------------------------------------------------------------
(* The event loop: handleEvents, which is called for level-triggered events. *)

Happens(c) ==
  [in |-> con[c].pollIn /\ (sock[c].inbound \/ sock[c].shut), err |-> sock[c].error,
   out |-> con[c].pollOut /\ (sock[c].room > 0 \/ sock[c].shut)]

AfterIn(e) == IF e.err THEN "err" ELSE IF e.out THEN "out" ELSE "end"

Wake(c) ==
  /\ loop[c].pc = "wait" /\ con[c].connected
  /\ Happens(c) # NoEvents \/ sock[c].shut
  /\ loop' = [loop EXCEPT ![c].events = Happens(c),
                          ![c].pc = IF Happens(c).in THEN "in" ELSE AfterIn(Happens(c))]
  /\ UNCHANGED <<stage, con, sock, table, sender, closing, crash, history>>

\* recv0, with the callback, which asks for the next data before the task is popped.
EventIn(c) ==
  /\ loop[c].pc = "in"
  /\ IF con[c].reading
     THEN /\ sock' = AfterRecv(c)
          /\ loop' = [loop EXCEPT ![c].failed = RecvFails(c),
                                  ![c].pc = IF RecvFails(c) THEN "end" ELSE "inEnd"]
     ELSE /\ loop' = [loop EXCEPT ![c].pc = "inEnd"] /\ UNCHANGED sock
  /\ UNCHANGED <<stage, con, table, sender, closing, crash, history>>

EventInEnd(c) ==
  /\ loop[c].pc = "inEnd"
  /\ loop' = [loop EXCEPT ![c].pc = AfterIn(loop[c].events)]
  /\ con' = [con EXCEPT ![c].pollIn = @ /\ con[c].reading]
  /\ UNCHANGED <<stage, sock, table, sender, closing, crash, history>>

EventErr(c) ==
  /\ loop[c].pc = "err"
  /\ loop' = [loop EXCEPT ![c].pc = "end", ![c].failed = sock[c].error]
  /\ sock' = [sock EXCEPT ![c].error = FALSE]
  /\ UNCHANGED <<stage, con, table, sender, closing, crash, history>>

\* send0: the transmission is under the lock, popping the buffer is a step of its own.
EventOut(c) ==
  /\ loop[c].pc = "out"
  /\ IF con[c].tasks = <<>>
     THEN loop' = [loop EXCEPT ![c].pc = "outEnd"] /\ UNCHANGED <<con, sock, crash, wire>>
     ELSE /\ Transmit(c, con[c].tasks, con[c].pending, FALSE)
          /\ loop' = [loop EXCEPT ![c].failed = sock[c].error,
                        ![c].pc = CASE Head(con'[c].tasks) = <<>> -> "pop"
                                    [] sock[c].error -> "end" [] OTHER -> "outEnd"]
  /\ UNCHANGED <<stage, table, sender, closing, submitted, early>>

EventPop(c) ==
  /\ loop[c].pc = "pop" /\ loop' = [loop EXCEPT ![c].pc = "outEnd"]
  /\ con' = [con EXCEPT ![c].tasks = Tail(@)]
  /\ UNCHANGED <<stage, sock, table, sender, closing, crash, history>>

\* Mutant: EPOLLOUT is cleared without another look at the buffers.
EventOutEndBlind(c) ==
  /\ loop[c].pc = "outEnd" /\ loop' = [loop EXCEPT ![c].pc = "end"]
  /\ con' = [con EXCEPT ![c].pollOut = FALSE]
  /\ UNCHANGED <<stage, sock, table, sender, closing, crash, history>>

EventOutEnd(c) ==
  /\ loop[c].pc = "outEnd" /\ loop' = [loop EXCEPT ![c].pc = "end"]
  /\ con' = [con EXCEPT ![c].pollOut = @ /\ con[c].tasks # <<>>]
  /\ UNCHANGED <<stage, sock, table, sender, closing, crash, history>>

\* The end of handleEvents: nothing, or the locked half of disconnect0.
EventEnd(c) ==
  /\ loop[c].pc = "end"
  /\ IF con[c].disconnecting \/ loop[c].failed
     THEN /\ loop' = [loop EXCEPT ![c] = [pc |-> "down", events |-> NoEvents, failed |-> FALSE]]
          /\ con' = [con EXCEPT ![c].connected = FALSE, ![c].reading = FALSE,
                                ![c].tasks = <<>>, ![c].pending = 0]
          /\ early' = IF c \in users THEN early ELSE early \cup {c}
     ELSE /\ loop' = [loop EXCEPT ![c] = [pc |-> "wait", events |-> NoEvents, failed |-> FALSE]]
          /\ UNCHANGED <<con, early>>
  /\ UNCHANGED <<stage, sock, table, sender, closing, crash, submitted, wire>>

\* onDisconnected: nothing if it is not set yet; else assert(ret.get()) and whenDisconnected.
Report(c) ==
  /\ loop[c].pc = "down"
  /\ loop' = [loop EXCEPT ![c].pc = IF stage[c] = "added" THEN "reported" ELSE "forget"]
  /\ crash' = IF stage[c] \in {"callbacks", "listed", "refused"} THEN "no user" ELSE crash
  /\ UNCHANGED <<stage, con, sock, table, sender, closing, history>>

\* ServerBase::removeConnection, with its assert(n); exec() as in AddUser.
RemoveUser(c) ==
  /\ loop[c].pc = "forget" /\ loop' = [loop EXCEPT ![c].pc = "erase"]
  /\ users' = users \ {c}
  /\ crash' \in IF c \in users THEN {crash, "race"} ELSE {"not a user"}
  /\ UNCHANGED <<stage, con, sock, connections, sender, closing, history>>

\* Mutant: the connection stays in the server's table.
EraseNot(c) ==
  /\ loop[c].pc = "erase" /\ loop' = [loop EXCEPT ![c].pc = "reported"]
  /\ UNCHANGED <<stage, con, sock, table, sender, closing, crash, history>>

\* The end of Server::removeConnection.
Erase(c) ==
  /\ loop[c].pc = "erase" /\ loop' = [loop EXCEPT ![c].pc = "reported"]
  /\ connections' = connections \ {c}
  /\ UNCHANGED <<stage, con, sock, users, sender, closing, crash, history>>

Reported(c) ==
  /\ loop[c].pc = "reported" /\ loop' = [loop EXCEPT ![c].pc = "wait"]
  /\ con' = [con EXCEPT ![c].disconnecting = FALSE]
  /\ UNCHANGED <<stage, sock, table, sender, closing, crash, history>>

-----------------------------------------------------------------------------
(* The threads that send: UserConnection::send. *)

\* A buffer's bytes all carry its number.
Count(c) == IF submitted[c] = <<>> THEN 0 ELSE Last(submitted[c])
Buffer(c, n) == [i \in 1..n |-> Count(c) + 1]

\* Mutant: a new buffer goes out at once although others wait.
SendBufferAtOnce(s, c, n) ==
  /\ sender[s].pc = "idle" /\ stage[c] = "served" /\ con[c].connected
  /\ sender' = [sender EXCEPT ![s] = [pc |-> IF sock[c].error THEN "failed" ELSE "check", to |-> {c}]]
  /\ submitted' = [submitted EXCEPT ![c] = @ \o Buffer(c, n)]
  /\ Transmit(c, <<Buffer(c, n)>> \o con[c].tasks, con[c].pending + n, TRUE)
  /\ UNCHANGED <<stage, table, loop, closing, early>>

\* Mutant: the bytes are counted only when they have to wait.
SendBufferUncounted(s, c, n) ==
  /\ sender[s].pc = "idle" /\ stage[c] = "served" /\ con[c].connected
  /\ sender' = [sender EXCEPT ![s] = [pc |-> IF sock[c].error THEN "failed" ELSE "check", to |-> {c}]]
  /\ submitted' = [submitted EXCEPT ![c] = @ \o Buffer(c, n)]
  /\ con[c].tasks = <<>> /\ Transmit(c, <<Buffer(c, n)>>, con[c].pending, TRUE)
  /\ UNCHANGED <<stage, table, loop, closing, early>>

\* Connection::send: the buffer waits behind the others, or is transmitted at once.
SendBuffer(s, c, n) ==
  /\ sender[s].pc = "idle" /\ stage[c] = "served" /\ con[c].connected
  /\ submitted' = [submitted EXCEPT ![c] = @ \o Buffer(c, n)]
  /\ IF con[c].tasks = <<>>
     THEN /\ Transmit(c, <<Buffer(c, n)>>, con[c].pending + n, TRUE)
          /\ sender' = [sender EXCEPT ![s] =
               [pc |-> IF sock[c].error THEN "failed" ELSE "check", to |-> {c}]]
     ELSE /\ con' = [con EXCEPT ![c].tasks = Append(@, Buffer(c, n)), ![c].pending = @ + n]
          /\ sender' = [sender EXCEPT ![s] = [pc |-> "check", to |-> {c}]]
          /\ UNCHANGED <<sock, crash, wire>>
  /\ UNCHANGED <<stage, table, loop, closing, early>>

\* The transmission failed: Connection::send disconnects after the unlock.
SendFails(s) ==
  /\ sender[s].pc = "failed" /\ sender' = [sender EXCEPT ![s].pc = "check"]
  /\ \E c \in sender[s].to : Disconnect(c)
  /\ UNCHANGED <<stage, table, loop, closing, crash, history>>

\* A connection with too many bytes pending is given up.
CheckPending(s) ==
  /\ sender[s].pc = "check"
  /\ \E c \in sender[s].to :
       sender' = [sender EXCEPT ![s] = IF con[c].pending >= MaxPending
                                       THEN [pc |-> "over", to |-> {c}]
                                       ELSE [pc |-> "idle", to |-> {}]]
  /\ UNCHANGED <<stage, con, sock, table, loop, closing, crash, history>>

GiveUp(s) ==
  /\ sender[s].pc = "over" /\ sender' = [sender EXCEPT ![s] = [pc |-> "idle", to |-> {}]]
  /\ \E c \in sender[s].to : Disconnect(c)
  /\ UNCHANGED <<stage, table, loop, closing, crash, history>>

-----------------------------------------------------------------------------
(* Disconnection by the server, the peer, and close(). *)

\* kickout, the login timeout, a frame that cannot be parsed, a handler that gives up.
HangUp(c) ==
  /\ c \in users /\ con[c].connected /\ ~con[c].disconnecting /\ Disconnect(c)
  /\ UNCHANGED <<stage, table, loop, sender, closing, crash, history>>

\* The peer reads a byte, sends data, or resets the connection.
Peer(c) ==
  /\ con[c].connected /\ ~sock[c].shut
  /\ \/ sock[c].room < Room /\ sock' = [sock EXCEPT ![c].room = @ + 1]
     \/ ~sock[c].inbound /\ sock' = [sock EXCEPT ![c].inbound = TRUE]
     \/ sock' = [sock EXCEPT ![c].shut = TRUE, ![c].error = TRUE]
  /\ UNCHANGED <<stage, con, table, loop, sender, closing, crash, history>>

\* Server::close: the acceptor first.
Close ==
  /\ server = "open" /\ server' = "joining"
  /\ UNCHANGED <<stage, con, sock, table, loop, sender, todo, crash, history>>

\* Mutant: the connections are copied while the acceptor may still add one.
CopyTooEarly ==
  /\ server = "joining"
  /\ server' = "disconnecting" /\ todo' = connections
  /\ UNCHANGED <<stage, con, sock, table, loop, sender, crash, history>>

\* Its thread was joined: the connections are copied, to disconnect each.
Copy ==
  /\ server = "joining" /\ AcceptorFree
  /\ server' = "disconnecting" /\ todo' = connections
  /\ UNCHANGED <<stage, con, sock, table, loop, sender, crash, history>>

CloseConnection(c) ==
  /\ c \in todo /\ todo' = todo \ {c} /\ Disconnect(c)
  /\ UNCHANGED <<stage, table, loop, sender, server, crash, history>>

\* close() looks every millisecond whether the last connection is gone.
Closed ==
  /\ server = "disconnecting" /\ todo = {} /\ connections = {}
  /\ server' = "closed"
  /\ UNCHANGED <<stage, con, sock, table, loop, sender, todo, crash, history>>

-----------------------------------------------------------------------------
AcceptorStep(c) ==
  SetCallbacks(c) \/ Insert(c) \/ MakeUserConnection(c) \/ AddUser(c) \/ FirstRecv(c)
  \/ FirstRecvFails(c)
LoopStep(c) ==
  Wake(c) \/ EventIn(c) \/ EventInEnd(c) \/ EventErr(c) \/ EventOut(c) \/ EventPop(c)
  \/ EventOutEnd(c) \/ EventEnd(c) \/ Report(c) \/ RemoveUser(c) \/ Erase(c) \/ Reported(c)
SenderStep(s) == SendFails(s) \/ CheckPending(s) \/ GiveUp(s)
CloseStep == Copy \/ Closed \/ \E c \in Connections : CloseConnection(c)
Send(s, c) == \E n \in Sizes :
  Count(c) < MaxSends /\ SendBuffer(s, c, n)

\* A process that has crashed does nothing any more.
Next ==
  /\ crash = "no"
  /\ \/ \E c \in Connections :
          Accept(c) \/ AcceptorStep(c) \/ LoopStep(c) \/ HangUp(c) \/ Peer(c)
     \/ \E s \in Senders : SenderStep(s) \/ \E c \in Connections : Send(s, c)
     \/ Close \/ CloseStep

Spec == Init /\ [][Next]_vars

\* Every thread goes on with what it has begun; nobody has to send, to read or to close.
FairSpec ==
  /\ Spec
  /\ \A c \in Connections : WF_vars(crash = "no" /\ AcceptorStep(c))
                            /\ WF_vars(crash = "no" /\ LoopStep(c))
  /\ \A s \in Senders : WF_vars(crash = "no" /\ SenderStep(s))
  /\ WF_vars(crash = "no" /\ CloseStep)

-----------------------------------------------------------------------------
\* Every variable has its type; the byte count, which send() and numBytesPending() assert
\* not to be negative, is a natural number (EasyIOTCPConnection_linux.cpp:141, 234).
TypeOK ==
  /\ stage \in [Connections -> {"none", "added", "callbacks", "listed", "bound", "refused",
                                "user", "failed", "served"}]
  /\ \A c \in Connections :
       /\ con[c] \in [connected : BOOLEAN, disconnecting : BOOLEAN, pollIn : BOOLEAN,
                      pollOut : BOOLEAN, reading : BOOLEAN, tasks : Seq(Seq(1..MaxSends)),
                      pending : Nat]
       /\ sock[c] \in [room : 0..Room, inbound : BOOLEAN, shut : BOOLEAN, error : BOOLEAN]
       /\ loop[c].pc \in {"wait", "in", "inEnd", "err", "out", "pop", "outEnd", "end", "down",
                          "forget", "erase", "reported"}
       /\ submitted[c] \in Seq(1..MaxSends) /\ wire[c] \in Seq(1..MaxSends)
  /\ connections \subseteq Connections /\ users \subseteq Connections
  /\ todo \subseteq Connections /\ early \subseteq Connections
  /\ server \in {"open", "joining", "disconnecting", "closed"}
  /\ crash \in {"no", "no user", "not a user", "SIGPIPE", "race"}

\* Whatever threads send while the event loop transmits, the peer gets the bytes in the
\* order of the calls, none twice; those it has not got are in the queue of a connection
\* that is still there, and m_numBytesPending is their number (so assert(v == 0) holds).
StreamIntact ==
  \A c \in Connections :
    /\ IsPrefix(wire[c], submitted[c])
    /\ con[c].connected => wire[c] \o FlattenSeq(con[c].tasks) = submitted[c]
    /\ con[c].pending = Len(FlattenSeq(con[c].tasks))

\* If the peer keeps reading, what waits is sent or the connection ends: EPOLLOUT is never
\* off while a buffer waits (send, send0 and the end of handleEvents switch it).
AllSent ==
  \A c \in Connections :
    []<>(sock[c].room > 0)
      => ((con[c].tasks # <<>>) ~> (con[c].tasks = <<>> \/ crash # "no"))

\* The asserts of ServerBase's onDisconnected and removeConnection fail, and a connection
\* that is gone stays in Server::m_connections, only if a connection ended before
\* onConnected had entered it in ServerBase's table.
OnlyEarlyLossHurts ==
  \/ early # {}
  \/ /\ crash \notin {"no user", "not a user"}
     /\ \A c \in connections : con[c].connected \/ loop[c].pc # "wait"

\* Server::close() comes back, unless such a connection was lost early.
CloseEnds ==
  (server = "joining") ~> (server = "closed" \/ crash # "no" \/ early # {})

\* ServerBase.cpp:35 asserts that a connection that ends has its UserConnection.
HasUserConnection == crash # "no user"
=============================================================================
