-------------------------- MODULE TerminalManager --------------------------
(***************************************************************************)
(* A guard's terminals on Linux: TerminalManager with its thread (exec,    *)
(* here `watcher`), the IO thread that creates, writes to and closes       *)
(* terminals for the server, the programs in the terminals, and the        *)
(* server's viewers.                                                       *)
(*                                                                         *)
(* The manager's m_mutex is held while the IO thread writes to a terminal, *)
(* the ability's while it creates one and answers; other sections are one  *)
(* step.  Bounds: the terminals of Terminals, created once each, and       *)
(* MaxWrites commands.                                                     *)
(***************************************************************************)
EXTENDS GuardSession

CONSTANTS MaxTerminals, MaxWrites

ASSUME TerminalBounds == {MaxTerminals, MaxWrites} \subseteq Nat

Terminals == 1..MaxTerminals

VARIABLES
  item,     \* "none"; "polled": in the epoll set only; "listed": in m_items too; "claimed": taken
            \* out of m_items by closeTerminal; "freed"; "freed twice"
  program,  \* the child: "none", "running" or "ended"
  unread,   \* has it printed something exec has not read? It then may wait for that
  batch,    \* the items epoll_wait has returned and exec has not looked at
  watcher,  \* what exec does: "poll", "publish", "claim", "release", and its item
  viewer,   \* the server's viewer of the terminal: "none", "asked", "watching" or "left"
  writes

terminals == <<item, program, unread, batch, watcher, viewer, writes>>

At(do, t) == [do |-> do, id |-> t]

TerminalInit(n) ==
  /\ item = [t \in Terminals |-> "none"] /\ program = [t \in Terminals |-> "none"]
  /\ unread = [t \in Terminals |-> FALSE] /\ batch = {} /\ watcher = At("poll", 0)
  /\ viewer = [t \in Terminals |-> IF t <= n THEN "none" ELSE "left"] /\ writes = 0

IoAt(kind, t) == io.kind = kind /\ io.id = t
IoGoes(kind, t) == io' = Message(kind, t)
ManagerLocked == io.kind \in {"writing", "abandon"}
OnlyIo == UNCHANGED <<con, gone, loggedIn, loggingIn, timer, buffer, down, server, room, ghosts>>

-----------------------------------------------------------------------------
\* The IO thread

\* createTerminal, which makes a new id, up to epoll_ctl; or the terminal's password is wrong, or
\* forkpty or epoll_ctl fails
Create(t) ==
  /\ IoAt("create", t) /\ item[t] = "none"
  /\ \/ /\ item' = [item EXCEPT ![t] = "polled"] /\ program' = [program EXCEPT ![t] = "running"]
        /\ IoGoes("insert", t) /\ UNCHANGED outgoing
     \/ Send(Message("failed", t)) /\ io' = Idle /\ UNCHANGED <<item, program>>
  /\ OnlyIo /\ UNCHANGED <<faults, unread, batch, watcher, viewer, writes>>

Insert(t) ==
  /\ IoAt("insert", t) /\ item' = [item EXCEPT ![t] = "listed"] /\ IoGoes("answer", t)
  /\ OnlyIo /\ UNCHANGED <<outgoing, faults, program, unread, batch, watcher, viewer, writes>>

AnswerCreate(t) ==
  /\ IoAt("answer", t) /\ Send(Message("created", t)) /\ io' = Idle
  /\ OnlyIo /\ UNCHANGED <<faults, terminals>>

\* writeCommand takes m_mutex ...
Write(t) ==
  /\ IoAt("write", t)
  /\ IF item[t] = "listed" THEN IoGoes("writing", t) ELSE io' = Idle
  /\ OnlyIo /\ UNCHANGED <<outgoing, faults, terminals>>

\* ... ::write blocks until the program reads, which it does not while it waits for its output
\* to be taken ...
WriteReturns(t) ==
  /\ IoAt("writing", t) /\ (program[t] = "ended" \/ ~unread[t]) /\ io' = Idle
  /\ OnlyIo /\ UNCHANGED <<outgoing, faults, terminals>>

\* A mutant: the item stays in m_items.
ClaimedListed(t) == item' = item
\* closeTerminal takes the item out of m_items
Claimed(t) == item' = [item EXCEPT ![t] = "claimed"]
\* ... and then out of the epoll set, and destroys it: the program is killed.
Freed(t) ==
  /\ item' = [item EXCEPT ![t] = IF @ = "freed" THEN "freed twice" ELSE "freed"]
  /\ program' = [program EXCEPT ![t] = "ended"] /\ unread' = [unread EXCEPT ![t] = FALSE]
  /\ Send(Message("kick", t))

\* ... or it fails, and closeTerminal is called under the mutex writeCommand holds
WriteFails(t) ==
  /\ IoAt("writing", t) /\ program[t] = "ended" /\ Claimed(t) /\ IoGoes("abandon", t)
  /\ OnlyIo /\ UNCHANGED <<outgoing, faults, program, unread, batch, watcher, viewer, writes>>

Close(t) ==
  /\ IoAt("close", t)
  /\ IF item[t] = "listed" THEN Claimed(t) /\ IoGoes("release", t) ELSE io' = Idle /\ UNCHANGED item
  /\ OnlyIo /\ UNCHANGED <<outgoing, faults, program, unread, batch, watcher, viewer, writes>>

Release(t) ==
  /\ IoAt("release", t) \/ IoAt("abandon", t)
  /\ Freed(t) /\ io' = Idle
  /\ OnlyIo /\ UNCHANGED <<faults, batch, watcher, viewer, writes>>

TerminalIo ==
  \E t \in Terminals : Create(t) \/ Insert(t) \/ AnswerCreate(t) \/ Write(t) \/ WriteFails(t) \/ Close(t) \/ Release(t)

-----------------------------------------------------------------------------
\* exec

OnlyWatcher ==
  /\ OnlyIo /\ UNCHANGED <<io, faults, viewer, writes>>

\* epoll_wait, level-triggered
Poll ==
  /\ watcher.do = "poll" /\ batch = {}
  /\ batch' = {t \in Terminals : /\ item[t] \in {"polled", "listed", "claimed"}
                                 /\ unread[t] \/ program[t] = "ended"}
  /\ batch' # {}
  /\ OnlyWatcher /\ UNCHANGED <<outgoing, item, program, unread, watcher>>

\* A mutant: an item at its end is not closed.
EndedStays(t) == watcher' = At("poll", 0)
Ended(t) == watcher' = At("claim", t)

\* read, of output or of the end
Read(t) ==
  /\ watcher.do = "poll" /\ t \in batch /\ item[t] \notin {"freed", "freed twice"} /\ batch' = batch \ {t}
  /\ \/ unread[t] /\ unread' = [unread EXCEPT ![t] = FALSE] /\ watcher' = At("publish", t)
     \/ ~unread[t] /\ Ended(t) /\ UNCHANGED unread
  /\ OnlyWatcher /\ UNCHANGED <<outgoing, item, program>>

\* A mutant: exec holds m_mutex while it publishes.
PublishLocked(t) ==
  /\ watcher = At("publish", t) /\ io.kind \notin {"insert", "answer"} /\ ~ManagerLocked
  /\ item[t] \notin {"freed", "freed twice"}
  /\ Send(Message("output", t)) /\ watcher' = At("poll", 0)
  /\ OnlyWatcher /\ UNCHANGED <<item, program, unread, batch>>

\* publishTerminalOutput takes the mutex of the ability.
Publish(t) ==
  /\ watcher = At("publish", t) /\ io.kind \notin {"insert", "answer"} /\ item[t] \notin {"freed", "freed twice"}
  /\ Send(Message("output", t)) /\ watcher' = At("poll", 0)
  /\ OnlyWatcher /\ UNCHANGED <<item, program, unread, batch>>

\* closeTerminal. Before the item is inserted there is nothing to close: epoll_wait returns it again.
WatcherClaims(t) ==
  /\ watcher = At("claim", t) /\ ~ManagerLocked /\ item[t] \notin {"freed", "freed twice"}
  /\ IF item[t] = "listed" THEN Claimed(t) /\ watcher' = At("release", t)
                           ELSE watcher' = At("poll", 0) /\ UNCHANGED item
  /\ OnlyWatcher /\ UNCHANGED <<outgoing, program, unread, batch>>

WatcherReleases(t) ==
  /\ watcher = At("release", t) /\ Freed(t) /\ watcher' = At("poll", 0)
  /\ OnlyWatcher /\ UNCHANGED batch

\* exec looks at an item the IO thread has destroyed since epoll_wait returned it: undefined,
\* it may go on or end the process.
TouchFreed(t) ==
  /\ item[t] \in {"freed", "freed twice"}
  /\ \/ watcher.do = "poll" /\ t \in batch
     \/ watcher = At("publish", t)
     \/ watcher = At("claim", t) /\ ~ManagerLocked
  /\ batch' = batch \ {t} /\ watcher' = At("poll", 0) /\ alive' \in BOOLEAN
  /\ OnlyWatcher /\ UNCHANGED <<up, closing, item, program, unread>>

Watcher ==
  \/ Poll
  \/ \E t \in Terminals : Read(t) \/ Publish(t) \/ WatcherClaims(t) \/ WatcherReleases(t) \/ TouchFreed(t)

-----------------------------------------------------------------------------
\* The programs in the terminals

Prints(t) ==
  /\ program[t] = "running" /\ ~unread[t] /\ Len(up) < Cap
  /\ unread' = [unread EXCEPT ![t] = TRUE]
  /\ UNCHANGED <<session, item, program, batch, watcher, viewer, writes>>

Ends(t) ==
  /\ program[t] = "running" /\ program' = [program EXCEPT ![t] = "ended"]
  /\ UNCHANGED <<session, item, unread, batch, watcher, viewer, writes>>

Programs == \E t \in Terminals : Prints(t) \/ Ends(t)

-----------------------------------------------------------------------------
\* The server

ToGuard(m) == down' = IF server = "in" THEN Append(down, m) ELSE down
OnlyServer ==
  /\ UNCHANGED <<con, closing, alive, gone, loggedIn, loggingIn, timer, buffer, io, server, room, ghosts, faults>>
  /\ UNCHANGED <<item, program, unread, batch, watcher>>

\* Task::CreateTerminal::execute
AskTerminal(t) ==
  /\ server = "in" /\ room /\ viewer[t] = "none" /\ \A s \in Terminals : s < t => viewer[s] # "none"
  /\ viewer' = [viewer EXCEPT ![t] = "asked"] /\ ToGuard(Message("create", t))
  /\ OnlyServer /\ UNCHANGED <<up, writes>>

\* ResponseCreateTerminal2: the viewer is added, or it is too late and the terminal is closed.
HearCreated(t) ==
  /\ Hears("created") /\ room /\ Head(up).id = t /\ up' = Tail(up)
  /\ \/ viewer' = [viewer EXCEPT ![t] = "watching"] /\ UNCHANGED down
     \/ viewer' = [viewer EXCEPT ![t] = "left"] /\ ToGuard(Message("close", t))
  /\ OnlyServer /\ UNCHANGED writes

HearFailed(t) ==
  /\ Hears("failed") /\ Head(up).id = t /\ up' = Tail(up) /\ viewer' = [viewer EXCEPT ![t] = "left"]
  /\ OnlyServer /\ UNCHANGED <<down, writes>>

HearOutput ==
  /\ Hears("output") /\ room /\ up' = Tail(up)
  /\ OnlyServer /\ UNCHANGED <<down, viewer, writes>>

\* A viewer that leaves is cleaned up, and its terminal closed.
ViewerLeft(t) == viewer' = [viewer EXCEPT ![t] = "left"] /\ ToGuard(Message("close", t))

\* KickoutTerminalVisitor
HearKick(t) ==
  /\ Hears("kick") /\ room /\ Head(up).id = t /\ up' = Tail(up)
  /\ IF viewer[t] = "watching" THEN ViewerLeft(t) ELSE UNCHANGED <<viewer, down>>
  /\ OnlyServer /\ UNCHANGED writes

ViewerLeaves(t) ==
  /\ viewer[t] = "watching" /\ ViewerLeft(t)
  /\ OnlyServer /\ UNCHANGED <<up, writes>>

ViewerWrites(t) ==
  /\ viewer[t] = "watching" /\ writes < MaxWrites /\ writes' = writes + 1
  /\ ToGuard(Message("write", t))
  /\ OnlyServer /\ UNCHANGED <<up, viewer>>

TerminalServer == HearOutput \/ \E t \in Terminals : HearCreated(t) \/ HearFailed(t) \/ HearKick(t)
TerminalUsers == \E t \in Terminals : AskTerminal(t) \/ ViewerLeaves(t) \/ ViewerWrites(t)

\* The session is over: its viewers are disconnected, and the guard's terminals stay.
TerminalsOrphaned ==
  /\ viewer' = [t \in Terminals |-> IF viewer[t] = "none" THEN "none" ELSE "left"]
  /\ UNCHANGED <<item, program, unread, batch, watcher, writes>>
=============================================================================
