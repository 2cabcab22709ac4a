----------------------------- MODULE GuardClient -----------------------------
(***************************************************************************)
(* The guard: its session with the server and one of its abilities, the    *)
(* terminals or the shared screen.  The abilities share the connection,    *)
(* the IO thread and nothing else, so each is taken with the session       *)
(* alone.  Scopes bounds each run of the guard: its ability, the faults    *)
(* and the terminals it may meet.                                          *)
(***************************************************************************)
EXTENDS TerminalManager, ScreenGuard

CONSTANT Scopes

ASSUME ScopesOK ==
  Scopes \subseteq [ability : {"none", "terminal", "screen"}, faults : 0..MaxFaults, terminals : 0..MaxTerminals]

VARIABLE ability

vars == <<ability, session, terminals, screen>>

Init == \E s \in Scopes :
  /\ ability = s.ability /\ ScreenInit
  /\ SessionInit(MaxFaults - s.faults) /\ TerminalInit(s.terminals)

\* What ends with a session at the guard and at the server.
Others == /\ ability' = ability /\ ScreenSurvives
          /\ IF server = "in" /\ server' = "none" THEN TerminalsOrphaned ELSE UNCHANGED terminals

TerminalStep(A) == ability = "terminal" /\ A /\ UNCHANGED <<ability, screen>>
ScreenStep(A)   == ability = "screen" /\ A /\ UNCHANGED <<ability, terminals>>

Timer == (TimerChecks \/ TimerConnects \/ TimerLogsIn \/ TimerSends) /\ Others
Io ==
  \/ (Connected \/ WhenDisconnected \/ Receive \/ ReceiveGarbled) /\ Others
  \/ TerminalStep(TerminalIo) \/ ScreenStep(ScreenIo)
Returns  == TerminalStep(\E t \in Terminals : WriteReturns(t))
Breaks   == Lost /\ Others
Capturer == ScreenStep(Capture \/ PublishFrame)
Exec     == TerminalStep(Watcher)
Server ==
  \/ (HandleLogin \/ RefuseStray \/ RefuseSilent \/ RefuseRoomless \/ AbortRoomless) /\ Others
  \/ TerminalStep(TerminalServer) \/ ScreenStep(ScreenServer)
Cleaner == Clean /\ Others
Misfortune == (ConnectFailed \/ ReceiveHalf) /\ Others
Outside == TerminalStep(Programs \/ TerminalUsers) \/ ScreenStep(ScreenUsers)

\* Nothing is said of what follows the end of the guard's process.
Next == alive /\ (Timer \/ Io \/ Returns \/ Breaks \/ Capturer \/ Exec \/ Server \/ Cleaner \/ Misfortune \/ Outside)

\* Every thread of the guard and of the server goes on, a connection that was shut down or whose
\* other side is gone breaks, and a program that does not wait for its output to be read reads
\* its input again and again.
Fairness ==
  /\ WF_vars(alive /\ Timer) /\ WF_vars(alive /\ Io)
  /\ WF_vars(alive /\ (server = "none" \/ closing) /\ Breaks)
  /\ WF_vars(alive /\ Exec) /\ SF_vars(alive /\ Returns) /\ WF_vars(alive /\ Capturer)
  /\ WF_vars(alive /\ Server) /\ WF_vars(alive /\ Cleaner)

Spec == Init /\ [][Next]_vars /\ Fairness

-----------------------------------------------------------------------------

Writing == io.kind = "writing"

\* After a lost connection, a failed attempt, a refused login or a login request that went nowhere
\* (Guard::whenDisconnected, the timer, the server's check of 60 seconds) the guard is logged in
\* again and again. Four things keep it out, and no other: half a frame of a lost connection is
\* left in its buffer; the thread of the connection hangs in a write to a terminal; a terminal
\* that has survived its session speaks before the login does, and the server disconnects the
\* guard for it; or the guard's process has ended, of a send on a connection that is over and not
\* yet taken down (the timer's login after a refused one, say), or of exec's use of a freed item.
LogsInAgain ==
  (<>[](buffer = "clean") /\ []<>~Writing /\ []alive) => []<>(loggedIn \/ Stray)

\* While the guard's process lives, the terminal of a program that has ended is closed by exec,
\* whenever that happens: while the terminal is being inserted, while the server closes it, and
\* while there is no session.
EndedTerminalsGo ==
  ([]<>~Writing /\ []alive) =>
    \A t \in Terminals : []<>~(program[t] = "ended" /\ item[t] \in {"listed", "claimed"})

\* The IO thread hangs in a write to a terminal only together with exec: the program waits for
\* its output to be read by exec, exec for the mutex of the IO thread, to close another terminal.
HangsOnlyTogether ==
  []alive => (<>[]Writing => <>[](watcher.do = "claim" /\ watcher.id # io.id))

\* exec, which sees a program end, and the IO thread, which is told to close the terminal or
\* fails to write to it, destroy an item once between them.
FreedOnce == \A t \in Terminals : item[t] # "freed twice"

\* No viewer is sent a frame under a key it was not given, over any number of subscriptions,
\* departures and sessions.
FramesReadable == ~misread

\* While the guard's process lives, a viewer that stays in the room gets a keyframe: the one its
\* subscription forces is not made before the server has added the viewer, is not lost to the
\* frames of others, and a command to stop that was meant for the viewers before it does not last.
KeyframeComes == []alive => \A u \in Users : []<>(u \in sharp \/ watch[u] # "in")
=============================================================================
