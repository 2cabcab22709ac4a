---------------------------- MODULE GuardSession ----------------------------
(***************************************************************************)
(* A guard's session with the server: the connection, the login, the timer *)
(* that connects and logs in again (Application::connectionCheck, once a   *)
(* second), the receive buffer, and what the server makes of the           *)
(* connection.                                                             *)
(*                                                                         *)
(* Two threads of the guard: the timer's, and the IO thread of the network *)
(* library, which runs every callback of the connection; `io` is the frame *)
(* it is still handling.  The abilities' modules add what it does with     *)
(* frames other than the login's answer, and what the server does with     *)
(* messages other than the login.                                          *)
(*                                                                         *)
(* Bounds: MaxFaults lost connections and failed attempts; no connection   *)
(* is made while the server has MaxGhosts sessions to clean up; nothing    *)
(* that comes in streams is sent while Cap messages are under way.         *)
(***************************************************************************)
EXTENDS Naturals, Sequences

CONSTANTS MaxFaults, MaxGhosts, Cap

ASSUME SessionBounds == {MaxFaults, MaxGhosts, Cap} \subseteq Nat /\ MaxGhosts > 0 /\ Cap > 0

VARIABLES
  con,       \* "down", "connecting" or "up": m_connected, m_connecting
  closing,   \* m_disconnecting: disconnect() has shut the socket down
  alive,     \* FALSE once the guard's process has ended
  gone,      \* the connection is lost, and whenDisconnected has not run yet
  loggedIn, loggingIn,
  timer,     \* "idle", or the call the timer's thread is about to make
  buffer,    \* m_buffer: "clean"; "half" of a frame whose rest is on its way;
             \* "off": half of a frame of a lost connection; "stuck" on an impossible length
  io,        \* the frame the IO thread is handling
  up, down,  \* the messages to and from the server
  server,    \* the server's connection: "none", "anonymous" or "in"
  room,      \* has the account a room at the server?
  ghosts,    \* sessions that are over and that the server has not cleaned up
  faults

session == <<con, closing, alive, gone, loggedIn, loggingIn, timer, buffer, io, up, down, server, room, ghosts, faults>>

Message(kind, id) == [kind |-> kind, id |-> id, key |-> 0]
Idle  == Message("idle", 0)
Fault == faults < MaxFaults /\ faults' = faults + 1

SessionInit(spent) ==
  /\ con = "down" /\ closing = FALSE /\ alive = TRUE /\ gone = FALSE
  /\ loggedIn = FALSE /\ loggingIn = FALSE /\ timer = "idle"
  /\ buffer = "clean" /\ io = Idle /\ up = <<>> /\ down = <<>>
  /\ server = "none" /\ room = FALSE /\ ghosts = 0 /\ faults = spent

\* What a send may change.
outgoing == <<up, closing, alive>>

\* Connection::send looks at m_connected only. On a connection that is over, but not yet taken
\* down by the IO thread, ::send fails and disconnect() follows, or it raises SIGPIPE, which ends
\* the process; or the message just waits behind another one.
Send(m) ==
  /\ up' = IF con = "up" /\ ~closing /\ server # "none" THEN Append(up, m) ELSE up
  /\ closing' \in IF con = "up" /\ server = "none" THEN {closing, TRUE} ELSE {closing}
  /\ alive' \in IF con = "up" /\ (closing \/ server = "none") THEN BOOLEAN ELSE {alive}

-----------------------------------------------------------------------------
\* The timer

TimerChecks ==
  /\ timer = "idle"
  /\ \/ con # "up" /\ timer' = "connect"
     \/ con = "up" /\ ~loggedIn /\ ~loggingIn /\ timer' = "login"
  /\ UNCHANGED <<con, gone, loggedIn, loggingIn, buffer, io, outgoing, down, server, room, ghosts, faults>>

\* Guard::connect, Client::connect. An attempt under way or a connection made in between
\* counts as a failure, and whenConnectFailed runs on the timer's thread.
TimerConnects ==
  /\ timer = "connect" /\ timer' = "idle"
  /\ \/ con = "down" /\ con' = "connecting" /\ UNCHANGED <<loggingIn, faults>>
     \/ con = "down" /\ Fault /\ loggingIn' = FALSE /\ con' = con
     \/ con = "connecting" /\ loggingIn' = FALSE /\ UNCHANGED <<con, faults>>
     \/ con = "up" /\ loggingIn' \in {loggingIn, FALSE} /\ UNCHANGED <<con, faults>>
  /\ UNCHANGED <<gone, loggedIn, buffer, io, outgoing, down, server, room, ghosts>>

\* Guard::login. The connection may be lost since the check, and before the request is sent.
TimerLogsIn ==
  /\ timer = "login" /\ timer' = "send" /\ loggingIn' = TRUE
  /\ UNCHANGED <<con, gone, loggedIn, buffer, io, outgoing, down, server, room, ghosts, faults>>

TimerSends ==
  /\ timer = "send" /\ timer' = "idle" /\ Send(Message("login", 0))
  /\ UNCHANGED <<con, gone, loggedIn, loggingIn, buffer, io, down, server, room, ghosts, faults>>

-----------------------------------------------------------------------------
\* The IO thread

Connected ==
  /\ con = "connecting" /\ ~gone /\ io = Idle /\ ghosts < MaxGhosts
  /\ con' = "up" /\ server' = "anonymous"
  /\ UNCHANGED <<gone, loggedIn, loggingIn, timer, buffer, io, outgoing, down, room, ghosts, faults>>

ConnectFailed ==
  /\ con = "connecting" /\ ~gone /\ io = Idle /\ Fault
  /\ con' = "down" /\ loggingIn' = FALSE
  /\ UNCHANGED <<gone, loggedIn, timer, buffer, io, outgoing, down, server, room, ghosts>>

\* What the login's request does to the account's room: a second room is refused, and the
\* first one is removed.
Admitted == ~room
LoginHandled == room' = Admitted

\* The end of the server's side. A login that was under way may still be handled.
ServerLoses ==
  /\ server' = "none"
  /\ \/ server # "in" /\ UNCHANGED <<room, ghosts>>
     \/ server = "in" /\ ghosts' = ghosts + 1 /\ UNCHANGED room
     \/ /\ server = "anonymous" /\ up # <<>> /\ Head(up).kind = "login" /\ LoginHandled
        /\ ghosts' = IF Admitted THEN ghosts + 1 ELSE ghosts

\* disconnect0, up to the callback
Lost ==
  /\ con = "up" /\ io = Idle
  /\ \/ (server = "none" \/ closing) /\ UNCHANGED faults
     \/ server # "none" /\ ~closing /\ Fault
  /\ con' = "down" /\ gone' = TRUE /\ closing' = FALSE /\ up' = <<>> /\ down' = <<>>
  /\ buffer' = IF buffer = "half" THEN "off" ELSE buffer
  /\ ServerLoses
  /\ UNCHANGED <<alive, loggedIn, loggingIn, timer, io>>

\* A mutant: only the login that was completed is forgotten.
WhenDisconnectedLoggingIn ==
  /\ gone /\ gone' = FALSE
  /\ loggedIn' = FALSE
  /\ UNCHANGED <<con, loggingIn, timer, buffer, io, outgoing, down, server, room, ghosts, faults>>

\* whenDisconnected, but for the abilities' part. The buffer keeps what it has.
WhenDisconnected ==
  /\ gone /\ gone' = FALSE
  /\ loggedIn' = FALSE /\ loggingIn' = FALSE
  /\ UNCHANGED <<con, timer, buffer, io, outgoing, down, server, room, ghosts, faults>>

\* A frame arrives in two parts.
ReceiveHalf ==
  /\ con = "up" /\ io = Idle /\ buffer = "clean" /\ down # <<>> /\ buffer' = "half"
  /\ UNCHANGED <<con, gone, loggedIn, loggingIn, timer, io, outgoing, down, server, room, ghosts, faults>>

\* whenReceivedData; handleResponseOfLogin, and onLoginFailed, which disconnects
Receive ==
  /\ con = "up" /\ io = Idle /\ buffer \in {"clean", "half"} /\ down # <<>>
  /\ buffer' = "clean" /\ down' = Tail(down)
  /\ \/ /\ Head(down).kind = "accepted"
        /\ loggedIn' = TRUE /\ loggingIn' = FALSE /\ UNCHANGED <<closing, io>>
     \/ /\ Head(down).kind = "refused"
        /\ loggingIn' = FALSE /\ closing' = TRUE /\ UNCHANGED <<loggedIn, io>>
     \/ /\ Head(down).kind \notin {"accepted", "refused"}
        /\ io' = Head(down) /\ UNCHANGED <<loggedIn, loggingIn, closing>>
  /\ UNCHANGED <<con, alive, gone, timer, up, server, room, ghosts, faults>>

\* A frame that follows half of another one: it completes the half, and what that makes can be
\* neither decrypted nor parsed, and what is left over is read as a header; or it does not
\* even complete it. A length above MAX_LEN stays where it is.
ReceiveGarbled ==
  /\ con = "up" /\ io = Idle /\ buffer \in {"off", "stuck"} /\ down # <<>> /\ down' = Tail(down)
  /\ \/ buffer = "off" /\ UNCHANGED <<buffer, closing>>
     \/ buffer = "off" /\ buffer' \in {"clean", "off", "stuck"} /\ closing' = TRUE
     \/ buffer = "stuck" /\ closing' = TRUE /\ UNCHANGED buffer
  /\ UNCHANGED <<con, alive, gone, loggedIn, loggingIn, timer, io, up, server, room, ghosts, faults>>

-----------------------------------------------------------------------------
\* The server

Hears(kind) == server = "in" /\ up # <<>> /\ Head(up).kind = kind

\* RequestLogin::handle
HandleLogin ==
  /\ server = "anonymous" /\ up # <<>> /\ Head(up).kind = "login" /\ up' = Tail(up)
  /\ LoginHandled
  /\ server' = IF Admitted THEN "in" ELSE "anonymous"
  /\ down' = Append(down, Message(IF Admitted THEN "accepted" ELSE "refused", 0))
  /\ UNCHANGED <<con, closing, alive, gone, loggedIn, loggingIn, timer, buffer, io, ghosts, faults>>

\* A message only a guard that has logged in may send.
Stray == server = "anonymous" /\ up # <<>> /\ Head(up).kind # "login"
ServerDrops ==
  /\ server' = "none" /\ up' = <<>>
  /\ UNCHANGED <<con, closing, alive, gone, loggedIn, loggingIn, timer, buffer, io, down, faults>>
RefuseStray == Stray /\ ServerDrops /\ UNCHANGED <<room, ghosts>>

\* An assertion fails: the server's process ends and is started again.
Aborts == ServerDrops /\ ghosts' = 0 /\ room' = FALSE

\* Messages of a guard whose room is no longer there: a kick-out has it disconnected, the others
\* assert that there is a room.
Roomless == server = "in" /\ ~room /\ up # <<>>
RefuseRoomless == Roomless /\ Head(up).kind = "kick" /\ ServerDrops /\ ghosts' = ghosts + 1 /\ room' = room
AbortRoomless == Roomless /\ Head(up).kind \in {"created", "output", "subscribed", "frame"} /\ Aborts

\* ServerBase::exec, 60 seconds after the connection: by then the guard, whose timer runs every
\* second, has nothing more to do.
RefuseSilent ==
  /\ server = "anonymous" /\ con = "up" /\ up = <<>> /\ down = <<>>
  /\ timer = "idle" /\ loggingIn /\ io = Idle /\ ~gone
  /\ ServerDrops /\ UNCHANGED <<room, ghosts>>

\* CleanUserConnection removes the room of the account, whoever's it is now, and asserts that
\* there is one.
Clean ==
  \/ /\ ghosts > 0 /\ room /\ ghosts' = ghosts - 1 /\ room' = FALSE
     /\ UNCHANGED <<con, gone, loggedIn, loggingIn, timer, buffer, io, outgoing, down, server, faults>>
  \/ ghosts > 0 /\ ~room /\ Aborts
=============================================================================
