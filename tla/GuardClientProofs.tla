--------------------------- MODULE GuardClientProofs ---------------------------
(***************************************************************************)
(* For any numbers of terminals, viewers, faults, commands and             *)
(* subscriptions: an item of the guard's TerminalManager is destroyed      *)
(* once, and no viewer is sent a frame it cannot decrypt.                  *)
(*                                                                         *)
(* FreedOnce alone is not inductive: it says nothing of the thread that    *)
(* has taken an item out of m_items and has yet to destroy it.  IInv adds  *)
(* that there is one such thread, and the item is then "claimed".          *)
(***************************************************************************)
EXTENDS GuardClient, SequenceTheorems, TLAPS

\* What the server sends, none of which is a point inside a handler of the IO thread.
Received == {"accepted", "refused", "create", "close", "write", "subscribe", "enable", "disable"}
Messages == [kind : Received, id : Nat, key : {0}]
Inside   == {"insert", "writing", "release", "abandon"}
Items    == {"none", "polled", "listed", "claimed", "freed"}

\* The IO thread and the item it is about to change
IoOwns(t) ==
  /\ IoAt("insert", t) => item[t] = "polled"
  /\ IoAt("writing", t) => item[t] = "listed"
  /\ (IoAt("release", t) \/ IoAt("abandon", t)) => item[t] = "claimed" /\ watcher # At("release", t)

WatcherOwns(t) == watcher = At("release", t) => item[t] = "claimed"

IInv ==
  /\ down \in Seq(Messages)
  /\ item \in [Terminals -> Items]
  /\ \A t \in Terminals : IoOwns(t) /\ WatcherOwns(t)

LEMMA Initially == Init => IInv
BY DEF Init, SessionInit, TerminalInit, IInv, IoOwns, WatcherOwns, IoAt, At, Idle, Message, Items, Inside, Received

\* A step that leaves the items and exec alone and takes the IO thread nowhere but to the
\* beginning of a handler or to rest.
LEMMA Elsewhere ==
  ASSUME IInv, down' \in Seq(Messages), item' = item,
         watcher' = watcher \/ watcher'.do # "release",
         io' = io \/ io'.kind \notin Inside
  PROVE  IInv'
BY DEF IInv, IoOwns, WatcherOwns, IoAt, At, Inside

LEMMA Sent ==
  ASSUME NEW k \in Received, NEW i \in Nat, NEW s \in Seq(Messages)
  PROVE  Message(k, i) \in Messages /\ Append(s, Message(k, i)) \in Seq(Messages)
<1>1. Message(k, i) \in Messages
  BY DEF Message, Messages
<1> QED BY <1>1

LEMMA TakenOff ==
  ASSUME NEW s \in Seq(Messages), s # <<>>
  PROVE  Tail(s) \in Seq(Messages) /\ Head(s) \in Messages
OBVIOUS

\* What the abilities do when another part takes its step
LEMMA OthersRest ==
  ASSUME Others PROVE item' = item /\ watcher' = watcher
BY DEF Others, TerminalsOrphaned, terminals

-----------------------------------------------------------------------------
\* The session

LEMMA Quiet ==
  ASSUME IInv, Others,
         TimerChecks \/ TimerConnects \/ TimerLogsIn \/ TimerSends \/ Connected \/ ConnectFailed
           \/ WhenDisconnected \/ ReceiveHalf \/ RefuseStray \/ RefuseSilent \/ RefuseRoomless
           \/ AbortRoomless \/ Clean
  PROVE  IInv'
<1>1. item' = item /\ watcher' = watcher
  BY OthersRest
<1>2. io' = io /\ down' = down
  BY DEF TimerChecks, TimerConnects, TimerLogsIn, TimerSends, Connected, ConnectFailed, WhenDisconnected,
         ReceiveHalf, RefuseStray, RefuseSilent, RefuseRoomless, AbortRoomless, Clean, Aborts, ServerDrops
<1> QED BY <1>1, <1>2, Elsewhere DEF IInv

LEMMA Frames ==
  ASSUME IInv, Others, Lost \/ Receive \/ ReceiveGarbled \/ HandleLogin
  PROVE  IInv'
<1>1. item' = item /\ watcher' = watcher
  BY OthersRest
<1>2. down \in Seq(Messages)
  BY DEF IInv
<1>3. CASE Lost
  <2>1. io' = io /\ down' = <<>>
    BY <1>3 DEF Lost
  <2> QED BY <1>1, <2>1, Elsewhere
<1>4. CASE Receive \/ ReceiveGarbled
  <2>1. down # <<>> /\ down' = Tail(down) /\ (io' = io \/ io' = Head(down))
    BY <1>4 DEF Receive, ReceiveGarbled
  <2>2. down' \in Seq(Messages) /\ Head(down) \in Messages
    BY <1>2, <2>1, TakenOff
  <2>3. Head(down).kind \notin Inside
    BY <2>2 DEF Messages, Received, Inside
  <2> QED BY <1>1, <2>1, <2>2, <2>3, Elsewhere
<1>5. CASE HandleLogin
  <2>1. io' = io /\ \E k \in Received : down' = Append(down, Message(k, 0))
    BY <1>5 DEF HandleLogin, Received
  <2>2. down' \in Seq(Messages)
    BY <1>2, <2>1, Sent
  <2> QED BY <1>1, <2>1, <2>2, Elsewhere
<1> QED BY <1>3, <1>4, <1>5

-----------------------------------------------------------------------------
\* The terminals

LEMMA TheIoThread ==
  ASSUME IInv, NEW t \in Terminals,
         Create(t) \/ Insert(t) \/ AnswerCreate(t) \/ Write(t) \/ WriteReturns(t)
           \/ WriteFails(t) \/ Close(t) \/ Release(t)
  PROVE  IInv'
<1>1. down' = down
  BY DEF Create, Insert, AnswerCreate, Write, WriteReturns, WriteFails, Close, Release, OnlyIo
<1>2. watcher' = watcher
  BY DEF Create, Insert, AnswerCreate, Write, WriteReturns, WriteFails, Close, Release, terminals
<1>3. CASE Create(t)
  BY <1>1, <1>2, <1>3 DEF Create, IInv, IoOwns, WatcherOwns, IoAt, IoGoes, Idle, Message, Items
<1>4. CASE Insert(t)
  BY <1>1, <1>2, <1>4 DEF Insert, IInv, IoOwns, WatcherOwns, IoAt, IoGoes, Message, Items
<1>5. CASE AnswerCreate(t) \/ Write(t) \/ WriteReturns(t)
  BY <1>1, <1>2, <1>5
  DEF AnswerCreate, Write, WriteReturns, terminals, IInv, IoOwns, WatcherOwns, IoAt, IoGoes, Idle, Message
<1>6. CASE WriteFails(t) \/ Close(t)
  BY <1>1, <1>2, <1>6
  DEF WriteFails, Close, Claimed, IInv, IoOwns, WatcherOwns, IoAt, IoGoes, Idle, Message, Items
<1>7. CASE Release(t)
  <2>1. item[t] = "claimed" /\ watcher # At("release", t)
    BY <1>7 DEF Release, IInv, IoOwns
  <2>2. item' = [item EXCEPT ![t] = "freed"] /\ io' = Idle
    BY <1>7, <2>1 DEF Release, Freed, IInv
  <2> QED BY <1>1, <1>2, <2>1, <2>2 DEF IInv, IoOwns, WatcherOwns, IoAt, At, Idle, Message, Items
<1> QED BY <1>3, <1>4, <1>5, <1>6, <1>7

LEMMA TheWatcher ==
  ASSUME IInv, Watcher
  PROVE  IInv'
<1>1. io' = io /\ down' = down
  BY DEF Watcher, Poll, Read, Publish, WatcherClaims, WatcherReleases, TouchFreed, OnlyWatcher, OnlyIo
<1>2. down' \in Seq(Messages)
  BY <1>1 DEF IInv
<1>3. CASE Poll
  BY <1>1, <1>2, <1>3, Elsewhere DEF Poll
<1>4. ASSUME NEW t \in Terminals, Read(t) \/ Publish(t) \/ TouchFreed(t)
      PROVE  IInv'
  <2>1. item' = item /\ (watcher' = watcher \/ watcher'.do # "release")
    <3>1. CASE Read(t)
      <4>1. item' = item /\ (watcher' = At("publish", t) \/ watcher' = At("claim", t))
        BY <3>1 DEF Read, Ended
      <4> QED BY <4>1 DEF At
    <3>2. CASE Publish(t)
      BY <3>2 DEF Publish, At
    <3>3. CASE TouchFreed(t)
      <4>1. item' = item /\ watcher' = At("poll", 0)
        BY <3>3 DEF TouchFreed
      <4> QED BY <4>1 DEF At
    <3> QED BY <1>4, <3>1, <3>2, <3>3
  <2> QED BY <1>1, <1>2, <2>1, Elsewhere
<1>5. ASSUME NEW t \in Terminals, WatcherClaims(t)
      PROVE  IInv'
  <2>1. CASE item[t] = "listed"
    <3>1. item' = [item EXCEPT ![t] = "claimed"] /\ watcher' = At("release", t)
      BY <1>5, <2>1 DEF WatcherClaims, Claimed
    <3>2. ~IoAt("writing", t)
      BY <1>5 DEF WatcherClaims, ManagerLocked, IoAt
    <3> QED BY <1>1, <2>1, <3>1, <3>2 DEF IInv, IoOwns, WatcherOwns, IoAt, At, Items
  <2>2. CASE item[t] # "listed"
    <3>1. item' = item /\ watcher' = At("poll", 0)
      BY <1>5, <2>2 DEF WatcherClaims
    <3>2. watcher'.do # "release"
      BY <3>1 DEF At
    <3> QED BY <1>1, <1>2, <3>1, <3>2, Elsewhere
  <2> QED BY <2>1, <2>2
<1>6. ASSUME NEW t \in Terminals, WatcherReleases(t)
      PROVE  IInv'
  <2>1. item[t] = "claimed" /\ ~IoAt("release", t) /\ ~IoAt("abandon", t)
    BY <1>6 DEF WatcherReleases, IInv, WatcherOwns, IoOwns
  <2>2. item' = [item EXCEPT ![t] = "freed"] /\ watcher' = At("poll", 0)
    BY <1>6, <2>1 DEF WatcherReleases, Freed, IInv
  <2> QED BY <1>1, <2>1, <2>2 DEF IInv, IoOwns, WatcherOwns, IoAt, At, Items
<1> QED BY <1>3, <1>4, <1>5, <1>6 DEF Watcher

LEMMA TheOutside ==
  ASSUME IInv, Programs \/ TerminalServer \/ TerminalUsers
  PROVE  IInv'
<1>1. io' = io /\ item' = item /\ watcher' = watcher
  BY DEF Programs, Prints, Ends, TerminalServer, HearOutput, HearCreated, HearFailed, HearKick, TerminalUsers,
         AskTerminal, ViewerLeaves, ViewerWrites, OnlyServer, session
<1>2. down' = down \/ \E k \in {"create", "close", "write"}, t \in Terminals : down' = Append(down, Message(k, t))
  BY DEF Programs, Prints, Ends, TerminalServer, HearOutput, HearCreated, HearFailed, HearKick, TerminalUsers,
         AskTerminal, ViewerLeaves, ViewerWrites, ViewerLeft, ToGuard, session
<1>3. down' \in Seq(Messages)
  BY <1>2, Sent DEF IInv, Received, Terminals
<1> QED BY <1>1, <1>3, Elsewhere

-----------------------------------------------------------------------------
\* The screen

LEMMA TheScreen ==
  ASSUME IInv, UNCHANGED terminals, ScreenIo \/ Capture \/ PublishFrame \/ ScreenServer \/ ScreenUsers
  PROVE  IInv'
<1>1. item' = item /\ watcher' = watcher
  BY DEF terminals
<1>2. down \in Seq(Messages)
  BY DEF IInv
<1>3. CASE ScreenIo
  <2>1. down' = down /\ io'.kind \notin Inside
    <3>1. CASE Start \/ Stop
      BY <3>1 DEF Start, Stop, ScreenIoRest, Idle, Message, Inside
    <3>2. ASSUME NEW u \in Users, Subscribe(u) PROVE down' = down /\ io'.kind \notin Inside
      BY <3>2 DEF Subscribe, ScreenIoRest, Idle, Message, Inside
    <3> QED BY <1>3, <3>1, <3>2 DEF ScreenIo
  <2> QED BY <1>1, <1>2, <2>1, Elsewhere
<1>4. CASE Capture \/ PublishFrame
  <2>1. down' = down /\ io' = io
    BY <1>4 DEF Capture, PublishFrame, session
  <2> QED BY <1>1, <1>2, <2>1, Elsewhere
<1>5. ASSUME NEW k \in {"subscribe", "enable", "disable"}, NEW u \in Nat,
             Tell(<<Message(k, u)>>) \/ Tell(<<>>) \/ down' = down
      PROVE  down' \in Seq(Messages)
  <2>1. <<Message(k, u)>> \in Seq(Messages) /\ <<>> \in Seq(Messages)
    <3>1. Message(k, u) \in Messages
      BY <1>2, Sent DEF Received
    <3> QED BY <3>1
  <2>2. ASSUME NEW ms \in Seq(Messages), Tell(ms) PROVE down' \in Seq(Messages)
    <3>1. down \o ms \in Seq(Messages)
      BY <1>2
    <3> QED BY <1>2, <2>2, <3>1 DEF Tell
  <2> QED BY <1>2, <1>5, <2>1, <2>2
<1>6. CASE ScreenServer
  <2>1. io' = io
    BY <1>6 DEF ScreenServer, HearFrame, HearSubscribed, HearDenied, ScreenServerRest
  <2>2. Tell(<<Message("enable", 0)>>) \/ Tell(<<>>) \/ down' = down
    BY <1>6 DEF ScreenServer, HearFrame, HearSubscribed, HearDenied
  <2> QED BY <1>1, <1>5, <2>1, <2>2, Elsewhere
<1>7. CASE ScreenUsers
  <2>1. io' = io
    BY <1>7 DEF ScreenUsers, AskScreen, ScreenViewerLeaves, ScreenServerRest
  <2>2. down' \in Seq(Messages)
    BY <1>5, <1>7 DEF ScreenUsers, AskScreen, ScreenViewerLeaves, Users
  <2> QED BY <1>1, <2>1, <2>2, Elsewhere
<1> QED BY <1>3, <1>4, <1>6, <1>7

-----------------------------------------------------------------------------

LEMMA Invariant == Spec => []IInv
<1>1. ASSUME IInv, Next PROVE IInv'
  <2>1. CASE Timer
    BY <1>1, <2>1, Quiet DEF Timer
  <2>2. CASE Io
    BY <1>1, <2>2, Quiet, Frames, TheIoThread, TheScreen DEF Io, TerminalStep, ScreenStep, TerminalIo
  <2>3. CASE Returns \/ Exec
    BY <1>1, <2>3, TheIoThread, TheWatcher DEF Returns, Exec, TerminalStep
  <2>4. CASE Breaks \/ Cleaner \/ Misfortune
    BY <1>1, <2>4, Quiet, Frames DEF Breaks, Cleaner, Misfortune
  <2>5. CASE Capturer
    BY <1>1, <2>5, TheScreen DEF Capturer, ScreenStep
  <2>6. CASE Server
    BY <1>1, <2>6, Quiet, Frames, TheOutside, TheScreen DEF Server, TerminalStep, ScreenStep
  <2>7. CASE Outside
    BY <1>1, <2>7, TheOutside, TheScreen DEF Outside, TerminalStep, ScreenStep
  <2> QED BY <1>1, <2>1, <2>2, <2>3, <2>4, <2>5, <2>6, <2>7 DEF Next
<1>2. ASSUME IInv, UNCHANGED vars PROVE IInv'
  BY <1>2 DEF vars, session, terminals, IInv, IoOwns, WatcherOwns, IoAt
<1> QED BY <1>1, <1>2, Initially, PTL DEF Spec

\* exec and the IO thread destroy an item once between them (TerminalManager::closeTerminal),
\* for any number of terminals.
THEOREM DestroyedOnce == Spec => []FreedOnce
<1>1. IInv => FreedOnce
  BY DEF IInv, FreedOnce, Items
<1> QED BY <1>1, Invariant, PTL

-----------------------------------------------------------------------------
(***************************************************************************)
(* No viewer is sent a frame under a key it was not given.  While the      *)
(* server has a viewer, or an answer that makes one is under way, the      *)
(* guard has a subscriber and hence keeps its key, and the frames behind   *)
(* that answer are under it.  The guard forgets its subscribers only when  *)
(* the connection is lost, and then the server has neither.                *)
(***************************************************************************)

Up == [kind : {"login", "created", "failed", "output", "kick", "subscribed", "denied", "frame"}, id : Nat, key : Nat]

KeyedFrom(n) == \A m \in DOMAIN up : m > n /\ up[m].kind = "frame" => up[m].key = directKey

\* The viewers the server has, and those it is going to hear of
Seen   == \A u \in Watching : server = "in" /\ subscribers # {} /\ viewerKey[u] = directKey /\ KeyedFrom(0)
Coming == \A n \in DOMAIN up : up[n].kind = "subscribed" =>
            subscribers # {} /\ up[n].key = directKey /\ KeyedFrom(n)

KTypes == up \in Seq(Up) /\ directKey \in Nat
            /\ watch \in [Users -> {"none", "asked", "in"}] /\ viewerKey \in [Users -> Nat]

\* A connection that is lost is lost at both ends.
Ends2 == (gone => con # "up") /\ (con # "up" => server = "none") /\ (server = "none" => up = <<>>)

KInv == KTypes /\ Ends2 /\ Seen /\ Coming /\ ~misread

LEMMA KInitially == Init => KInv
BY DEF Init, SessionInit, ScreenInit, KInv, KTypes, Ends2, Seen, Coming, Watching

\* What a step may do to the messages to the server.
Less == up' = up \/ up' = <<>> \/ (up # <<>> /\ up' = Tail(up))
More == \E m \in Up : up' = Append(up, m) /\ m.kind # "subscribed" /\ (m.kind = "frame" => m.key = directKey)

LEMMA KeysKept ==
  ASSUME KInv, Less \/ More, directKey' = directKey
  PROVE  /\ up' \in Seq(Up)
         /\ \A n \in DOMAIN up' : up'[n].kind = "subscribed" =>
              \E k \in DOMAIN up : up[k] = up'[n] /\ (KeyedFrom(k) => KeyedFrom(n)')
         /\ KeyedFrom(0) => KeyedFrom(0)'
<1>1. up \in Seq(Up) /\ Len(up) \in Nat
  BY DEF KInv, KTypes
<1>2. CASE up' = up
  BY <1>1, <1>2 DEF KeyedFrom
<1>3. CASE up' = <<>>
  BY <1>1, <1>3 DEF KeyedFrom
<1>4. CASE up # <<>> /\ up' = Tail(up)
  <2>1. /\ up' \in Seq(Up) /\ Len(up) > 0 /\ Len(up') = Len(up) - 1
        /\ \A n \in DOMAIN up' : n \in Nat \ {0} /\ n + 1 \in DOMAIN up /\ up'[n] = up[n + 1]
    BY <1>1, <1>4
  <2>2. ASSUME NEW n \in Nat, KeyedFrom(n + 1) PROVE KeyedFrom(n)'
    BY <1>4, <2>1, <2>2 DEF KeyedFrom
  <2>3. KeyedFrom(0) => KeyedFrom(0)'
    BY <1>4, <2>1 DEF KeyedFrom
  <2> QED BY <2>1, <2>2, <2>3
<1>5. CASE More
  <2>1. PICK m \in Up : up' = Append(up, m) /\ m.kind # "subscribed" /\ (m.kind = "frame" => m.key = directKey)
    BY <1>5 DEF More
  <2>2. /\ up' \in Seq(Up) /\ DOMAIN up' = DOMAIN up \cup {Len(up) + 1} /\ up'[Len(up) + 1] = m
        /\ \A n \in DOMAIN up : up'[n] = up[n]
    BY <1>1, <2>1
  <2>3. ASSUME NEW n \in Nat, KeyedFrom(n) PROVE KeyedFrom(n)'
    BY <2>1, <2>2, <2>3 DEF KeyedFrom
  <2>4. ASSUME NEW n \in DOMAIN up', up'[n].kind = "subscribed"
        PROVE  n \in DOMAIN up /\ n \in Nat /\ up[n] = up'[n]
    BY <1>1, <2>1, <2>2, <2>4
  <2> QED BY <2>2, <2>3, <2>4
<1> QED BY <1>2, <1>3, <1>4, <1>5 DEF Less

\* A step after which there are not more viewers, of whom nothing has changed.
LEMMA Calm ==
  ASSUME KInv, Less \/ More, Ends2', ~misread',
         directKey' = directKey, subscribers' = subscribers,
         watch' \in [Users -> {"none", "asked", "in"}], viewerKey' \in [Users -> Nat],
         \A u \in Watching' : u \in Watching /\ viewerKey'[u] = viewerKey[u] /\ server' = server
  PROVE  KInv'
<1>1. /\ up' \in Seq(Up)
      /\ \A n \in DOMAIN up' : up'[n].kind = "subscribed" =>
              \E k \in DOMAIN up : up[k] = up'[n] /\ (KeyedFrom(k) => KeyedFrom(n)')
      /\ KeyedFrom(0) => KeyedFrom(0)'
  BY KeysKept
<1>2. Seen'
  BY <1>1 DEF KInv, Seen
<1>3. Coming'
  BY <1>1 DEF KInv, Coming
<1> QED BY <1>1, <1>2, <1>3 DEF KInv, KTypes

LEMMA WithOthers ==
  ASSUME KInv, Others, Less \/ More, Ends2', ~(gone /\ ~gone'), server = "in" => server' \in {"in", "none"}
  PROVE  KInv'
<1>1. directKey' = directKey /\ subscribers' = subscribers /\ misread' = misread
  BY DEF Others, ScreenSurvives, ScreenLosesConnection
<1>2. watch' \in [Users -> {"none", "asked", "in"}] /\ viewerKey' \in [Users -> Nat]
  BY DEF Others, ScreenSurvives, ScreenLosesViewers, KInv, KTypes
<1>3. ASSUME NEW u \in Watching' PROVE u \in Watching /\ viewerKey'[u] = viewerKey[u] /\ server' = server
  <2>1. CASE server = "in" /\ server' = "none"
    BY <1>3, <2>1 DEF Others, ScreenSurvives, ScreenLosesViewers, Watching
  <2>2. CASE ~(server = "in" /\ server' = "none")
    <3>1. watch' = watch /\ viewerKey' = viewerKey
      BY <2>2 DEF Others, ScreenSurvives, ScreenLosesViewers
    <3>2. u \in Watching /\ server = "in"
      BY <1>3, <3>1 DEF Watching, KInv, Seen
    <3> QED BY <2>2, <3>1, <3>2
  <2> QED BY <2>1, <2>2
<1> QED BY <1>1, <1>2, <1>3, Calm DEF KInv

LEMMA TheSession ==
  ASSUME KInv, Others,
         TimerChecks \/ TimerConnects \/ TimerLogsIn \/ TimerSends \/ Connected \/ ConnectFailed
           \/ WhenDisconnected \/ ReceiveHalf \/ Receive \/ ReceiveGarbled \/ Lost \/ HandleLogin
           \/ RefuseStray \/ RefuseSilent \/ RefuseRoomless \/ AbortRoomless \/ Clean
  PROVE  KInv'
<1>1. CASE TimerChecks \/ TimerConnects \/ TimerLogsIn \/ ReceiveHalf \/ Receive \/ ReceiveGarbled
  <2>1. up' = up /\ server' = server /\ gone' = gone /\ (con' = con \/ (con # "up" /\ con' # "up"))
    BY <1>1 DEF outgoing, TimerChecks, TimerConnects, TimerLogsIn, ReceiveHalf, Receive, ReceiveGarbled
  <2>2. Ends2'
    BY <2>1 DEF KInv, Ends2
  <2> QED BY <2>1, <2>2, WithOthers DEF Less
<1>2. CASE TimerSends
  <2>1. /\ server' = server /\ gone' = gone /\ con' = con
        /\ up' = up \/ (server # "none" /\ up' = Append(up, Message("login", 0)))
    BY <1>2 DEF TimerSends, Send
  <2>2. Message("login", 0) \in Up
    BY DEF Message, Up
  <2>3. Less \/ More
    BY <2>1, <2>2 DEF Less, More, Message
  <2>4. Ends2'
    BY <2>1 DEF KInv, Ends2
  <2> QED BY <2>1, <2>3, <2>4, WithOthers
<1>3. CASE Connected \/ ConnectFailed
  <2>1. /\ up' = up /\ con = "connecting" /\ ~gone /\ gone' = gone
        /\ (con' = "up" /\ server' = "anonymous") \/ (con' = "down" /\ server' = server)
    BY <1>3 DEF outgoing, Connected, ConnectFailed
  <2>2. Ends2' /\ server = "none"
    BY <2>1 DEF KInv, Ends2
  <2> QED BY <2>1, <2>2, WithOthers DEF Less
<1>4. CASE Lost \/ RefuseStray \/ RefuseSilent \/ RefuseRoomless \/ AbortRoomless \/ (Clean /\ server' = "none" /\ up' = <<>>)
  <2>1. server' = "none" /\ up' = <<>> /\ ((con' = con /\ gone' = gone) \/ (con' = "down" /\ gone'))
    BY <1>4 DEF Lost, ServerLoses, RefuseStray, RefuseSilent, RefuseRoomless, AbortRoomless, Clean, Aborts, ServerDrops
  <2>2. Ends2' /\ ~(gone /\ ~gone')
    BY <2>1 DEF KInv, Ends2
  <2> QED BY <2>1, <2>2, WithOthers DEF Less
<1>5. CASE Clean
  <2>1. CASE server' = "none" /\ up' = <<>>
    BY <1>4, <1>5, <2>1
  <2>2. CASE ~(server' = "none" /\ up' = <<>>)
    <3>1. up' = up /\ server' = server /\ gone' = gone /\ con' = con
      BY <1>5, <2>2 DEF outgoing, Clean, Aborts, ServerDrops
    <3>2. Ends2'
      BY <3>1 DEF KInv, Ends2
    <3> QED BY <3>1, <3>2, WithOthers DEF Less
  <2> QED BY <2>1, <2>2
<1>6. CASE HandleLogin
  <2>1. /\ server = "anonymous" /\ server' \in {"in", "anonymous"} /\ gone' = gone /\ con' = con
        /\ up # <<>> /\ up' = Tail(up)
    BY <1>6 DEF HandleLogin
  <2>2. Ends2'
    BY <2>1 DEF KInv, Ends2
  <2> QED BY <2>1, <2>2, WithOthers DEF Less
<1>7. CASE WhenDisconnected
  <2>1. up' = up /\ con' = con /\ server' = server /\ gone /\ ~gone'
    BY <1>7 DEF outgoing, WhenDisconnected
  <2>2. server = "none" /\ up = <<>> /\ Watching = {} /\ Ends2'
    BY <2>1 DEF KInv, Ends2, Seen
  <2>3. directKey' = directKey /\ misread' = misread /\ watch' = watch /\ viewerKey' = viewerKey
    BY <2>1, <2>2 DEF Others, ScreenSurvives, ScreenLosesViewers
  <2>4. Watching' = {}
    BY <2>2, <2>3 DEF Watching
  <2> QED BY <2>1, <2>2, <2>3, <2>4 DEF KInv, KTypes, Seen, Coming
<1> QED BY <1>1, <1>2, <1>3, <1>4, <1>5, <1>6, <1>7

\* The terminals only send, and the server takes off what they sent.
LEMMA TheTerminals ==
  ASSUME KInv, UNCHANGED screen,
         TerminalIo \/ Watcher \/ Programs \/ TerminalServer \/ TerminalUsers
           \/ \E t \in Terminals : WriteReturns(t)
  PROVE  KInv'
<1>1. con' = con /\ gone' = gone /\ server' = server
  BY DEF TerminalIo, Create, Insert, AnswerCreate, Write, WriteFails, Close, Release, WriteReturns, OnlyIo,
         Watcher, Poll, Read, Publish, WatcherClaims, WatcherReleases, TouchFreed, OnlyWatcher,
         Programs, Prints, Ends, session, TerminalServer, HearOutput, HearCreated, HearFailed, HearKick,
         TerminalUsers, AskTerminal, ViewerLeaves, ViewerWrites, OnlyServer
<1>2. \/ up' = up
      \/ up # <<>> /\ server = "in" /\ up' = Tail(up)
      \/ \E k \in {"created", "failed", "kick", "output"}, t \in Terminals : Send(Message(k, t))
  BY DEF outgoing, TerminalIo, Create, Insert, AnswerCreate, Write, WriteFails, Close, Release, Freed, WriteReturns,
         Watcher, Poll, Read, Publish, WatcherClaims, WatcherReleases, TouchFreed,
         Programs, Prints, Ends, session, TerminalServer, HearOutput, HearCreated, HearFailed, HearKick, Hears,
         TerminalUsers, AskTerminal, ViewerLeaves, ViewerWrites
<1>3. ASSUME NEW k \in {"created", "failed", "kick", "output"}, NEW t \in Terminals, Send(Message(k, t))
      PROVE  (Less \/ More) /\ (server = "none" => up' = up)
  <2>1. Message(k, t) \in Up /\ Message(k, t).kind = k
    BY DEF Message, Up, Terminals
  <2>2. up' = up \/ (server # "none" /\ up' = Append(up, Message(k, t)))
    BY <1>3 DEF Send
  <2> QED BY <2>1, <2>2 DEF Less, More
<1>4. (Less \/ More) /\ (server = "none" => up' = up)
  BY <1>2, <1>3 DEF Less
<1>5. Ends2'
  BY <1>1, <1>4 DEF KInv, Ends2
<1>6. directKey' = directKey /\ subscribers' = subscribers /\ misread' = misread
        /\ watch' = watch /\ viewerKey' = viewerKey
  BY DEF screen
<1>7. Watching' = Watching
  BY <1>6 DEF Watching
<1> QED BY <1>1, <1>4, <1>5, <1>6, <1>7, Calm DEF KInv, KTypes

\* A new key is made when there is no subscriber, hence no viewer that could have the old one.
LEMMA Subscribes ==
  ASSUME KInv, NEW u \in Users, Subscribe(u)
  PROVE  KInv'
<1>1. /\ con' = con /\ gone' = gone /\ server' = server /\ misread' = misread
      /\ watch' = watch /\ viewerKey' = viewerKey /\ Watching' = Watching
  BY DEF Subscribe, ScreenIoRest, Watching
<1>2. up \in Seq(Up) /\ Len(up) \in Nat /\ directKey \in Nat
  BY DEF KInv, KTypes
<1>3. DirectKey \in Nat
  <2>1. \E k \in Keys : k # directKey
    <3>1. 1 \in Keys /\ 2 \in Keys /\ (1 # directKey \/ 2 # directKey)
      BY DEF Keys
    <3> QED BY <3>1
  <2>2. (CHOOSE k \in Keys : k # directKey) \in Keys
    BY <2>1
  <2> QED BY <1>2, <2>2 DEF DirectKey, Keys
<1>4. CASE /\ directKey' = DirectKey /\ subscribers' = subscribers \cup {u}
           /\ Send([kind |-> "subscribed", id |-> u, key |-> DirectKey])
  <2> DEFINE m == [kind |-> "subscribed", id |-> u, key |-> DirectKey]
  <2>1. m \in Up /\ m.kind = "subscribed" /\ m.key = directKey' /\ subscribers' # {}
    BY <1>3, <1>4 DEF Up, Users
  <2>2. up' = up \/ (server # "none" /\ up' = Append(up, m))
    BY <1>4 DEF Send
  <2> HIDE DEF m
  <2>3. /\ up' \in Seq(Up) /\ DOMAIN up \in SUBSET Nat
        /\ \A n \in DOMAIN up : n \in DOMAIN up' /\ up'[n] = up[n]
        /\ \A n \in DOMAIN up' : n \in DOMAIN up \/ (n = Len(up) + 1 /\ up'[n] = m /\ \A k \in DOMAIN up' : ~(k > n))
    BY <1>2, <2>1, <2>2
  <2>4. Ends2'
    BY <1>1, <2>2 DEF KInv, Ends2
  <2>5. CASE subscribers = {}
    <3>1. Watching' = {} /\ \A n \in DOMAIN up : up[n].kind # "subscribed"
      BY <1>1, <2>5 DEF KInv, Seen, Coming
    <3>2. Seen'
      BY <3>1 DEF Seen
    <3>3. Coming'
      BY <2>1, <2>3, <3>1 DEF Coming, KeyedFrom
    <3> QED BY <1>1, <1>3, <1>4, <2>3, <2>4, <3>2, <3>3 DEF KInv, KTypes
  <2>6. CASE subscribers # {}
    <3>1. directKey' = directKey
      BY <1>4, <2>6 DEF DirectKey
    <3>2. ASSUME NEW n \in Nat, KeyedFrom(n) PROVE KeyedFrom(n)'
      BY <2>1, <2>3, <3>1, <3>2 DEF KeyedFrom
    <3>3. Seen'
      BY <1>1, <2>1, <3>1, <3>2 DEF KInv, Seen
    <3>4. ASSUME NEW n \in DOMAIN up', up'[n].kind = "subscribed"
          PROVE  up'[n].key = directKey' /\ KeyedFrom(n)'
      <4>1. CASE n \in DOMAIN up
        BY <2>3, <3>1, <3>2, <3>4, <4>1 DEF KInv, Coming
      <4>2. CASE n \notin DOMAIN up
        BY <2>1, <2>3, <4>2 DEF KeyedFrom
      <4> QED BY <4>1, <4>2
    <3>5. Coming'
      BY <2>1, <3>4 DEF Coming
    <3> QED BY <1>1, <1>3, <1>4, <2>3, <2>4, <3>3, <3>5 DEF KInv, KTypes
  <2> QED BY <2>5, <2>6
<1>5. CASE Send(Message("denied", u)) /\ UNCHANGED <<directKey, subscribers>>
  <2>1. Message("denied", u) \in Up /\ Message("denied", u).kind = "denied"
    BY DEF Message, Up, Users
  <2>2. up' = up \/ (server # "none" /\ up' = Append(up, Message("denied", u)))
    BY <1>5 DEF Send
  <2>3. Less \/ More
    BY <2>1, <2>2 DEF Less, More
  <2>4. Ends2'
    BY <1>1, <2>2 DEF KInv, Ends2
  <2> QED BY <1>1, <1>5, <2>3, <2>4, Calm DEF KInv, KTypes
<1> QED BY <1>4, <1>5 DEF Subscribe

\* The capturer's frames are under the key of the day, whatever it is.
LEMMA Captures ==
  ASSUME KInv, Start \/ Stop \/ Capture \/ PublishFrame
  PROVE  KInv'
<1>1. /\ con' = con /\ gone' = gone /\ server' = server /\ misread' = misread
      /\ directKey' = directKey /\ subscribers' = subscribers
      /\ watch' = watch /\ viewerKey' = viewerKey /\ Watching' = Watching
  BY DEF Start, Stop, Capture, PublishFrame, ScreenIoRest, session, Watching
<1>2. \/ up' = up
      \/ \E i \in {0, 1} : server # "none" /\ up' = Append(up, [kind |-> "frame", id |-> i, key |-> directKey])
  BY DEF outgoing, Start, Stop, Capture, PublishFrame, session, Send
<1>3. \A i \in {0, 1} : [kind |-> "frame", id |-> i, key |-> directKey] \in Up
  BY DEF KInv, KTypes, Up
<1>4. Less \/ More
  BY <1>2, <1>3 DEF Less, More
<1>5. Ends2'
  BY <1>1, <1>2 DEF KInv, Ends2
<1> QED BY <1>1, <1>4, <1>5, Calm DEF KInv, KTypes

LEMMA TheServersScreen ==
  ASSUME KInv, ScreenServer \/ ScreenUsers
  PROVE  KInv'
<1>1. /\ con' = con /\ gone' = gone /\ server' = server
      /\ directKey' = directKey /\ subscribers' = subscribers
  BY DEF ScreenServer, HearFrame, HearSubscribed, HearDenied, ScreenUsers, AskScreen, ScreenViewerLeaves,
         ScreenServerRest
<1>2. up' = up \/ (server = "in" /\ up # <<>> /\ up' = Tail(up))
  BY DEF ScreenServer, HearFrame, HearSubscribed, HearDenied, Hears, ScreenUsers, AskScreen, ScreenViewerLeaves
<1>3. (Less \/ More) /\ Ends2'
  BY <1>1, <1>2 DEF Less, KInv, Ends2
<1>4. up \in Seq(Up) /\ watch \in [Users -> {"none", "asked", "in"}] /\ viewerKey \in [Users -> Nat]
  BY DEF KInv, KTypes
<1>5. up # <<>> => Head(up) = up[1] /\ 1 \in DOMAIN up /\ Head(up) \in Up
  BY <1>4
<1>6. CASE HearFrame
  <2>1. watch' = watch /\ viewerKey' = viewerKey /\ Watching' = Watching
    BY <1>6 DEF HearFrame, Watching
  <2>2. ~misread'
    <3>1. up # <<>> /\ Head(up).kind = "frame"
      BY <1>6 DEF HearFrame, Hears
    <3>2. ASSUME NEW u \in Watching PROVE viewerKey[u] = Head(up).key
      <4>1. viewerKey[u] = directKey /\ KeyedFrom(0)
        BY DEF KInv, Seen
      <4> QED BY <1>5, <3>1, <4>1 DEF KeyedFrom
    <3> QED BY <1>6, <3>2, Zenon DEF HearFrame, KInv
  <2> QED BY <1>1, <1>3, <1>4, <2>1, <2>2, Calm
<1>7. ASSUME NEW u \in Users, HearDenied(u) \/ AskScreen(u) \/ ScreenViewerLeaves(u)
      PROVE  KInv'
  <2>1. misread' = misread
    BY <1>7 DEF HearDenied, AskScreen, ScreenViewerLeaves
  <2>2. /\ \E w \in {"none", "asked"} : watch' = [watch EXCEPT ![u] = w]
        /\ viewerKey' = viewerKey \/ viewerKey' = [viewerKey EXCEPT ![u] = 0]
    BY <1>7 DEF HearDenied, AskScreen, ScreenViewerLeaves
  <2>3. /\ watch' \in [Users -> {"none", "asked", "in"}] /\ viewerKey' \in [Users -> Nat]
        /\ \A v \in Watching' : v \in Watching /\ viewerKey'[v] = viewerKey[v]
    BY <1>4, <2>2 DEF Watching
  <2> QED BY <1>1, <1>3, <2>1, <2>3, Calm DEF KInv
<1>8. ASSUME NEW u \in Users, HearSubscribed(u)
      PROVE  KInv'
  <2>1. server = "in" /\ up # <<>> /\ Head(up).kind = "subscribed" /\ up' = Tail(up) /\ misread' = misread
    BY <1>8 DEF HearSubscribed, Hears
  <2>2. subscribers # {} /\ Head(up).key = directKey /\ KeyedFrom(1)
    BY <1>5, <2>1 DEF KInv, Coming
  <2>3. CASE watch' = [watch EXCEPT ![u] = "none"] /\ viewerKey' = viewerKey
    <3>1. /\ watch' \in [Users -> {"none", "asked", "in"}] /\ viewerKey' \in [Users -> Nat]
          /\ \A v \in Watching' : v \in Watching /\ viewerKey'[v] = viewerKey[v]
      BY <1>4, <2>3 DEF Watching
    <3> QED BY <1>1, <1>3, <2>1, <3>1, Calm DEF KInv
  <2>4. CASE watch' = [watch EXCEPT ![u] = "in"] /\ viewerKey' = [viewerKey EXCEPT ![u] = Head(up).key]
    <3>1. /\ up' \in Seq(Up)
          /\ \A n \in DOMAIN up' : up'[n].kind = "subscribed" =>
               \E k \in DOMAIN up : up[k] = up'[n] /\ (KeyedFrom(k) => KeyedFrom(n)')
      BY <1>1, <1>3, KeysKept
    <3>2. KeyedFrom(0)'
      <4>1. ASSUME NEW n \in DOMAIN up' PROVE n + 1 \in DOMAIN up /\ n + 1 > 1 /\ up'[n] = up[n + 1]
        BY <1>4, <2>1
      <4> QED BY <1>1, <2>2, <4>1 DEF KeyedFrom
    <3>3. /\ watch' \in [Users -> {"none", "asked", "in"}] /\ viewerKey' \in [Users -> Nat]
          /\ viewerKey'[u] = directKey
          /\ \A v \in Watching' : v # u => v \in Watching /\ viewerKey'[v] = viewerKey[v]
      BY <1>4, <1>5, <2>1, <2>2, <2>4 DEF Watching, Up
    <3>4. Seen'
      BY <1>1, <2>1, <2>2, <3>2, <3>3 DEF KInv, Seen
    <3>5. Coming'
      BY <1>1, <3>1 DEF KInv, Coming
    <3> QED BY <1>1, <1>3, <2>1, <3>1, <3>3, <3>4, <3>5 DEF KInv, KTypes
  <2> QED BY <1>8, <2>3, <2>4 DEF HearSubscribed
<1> QED BY <1>6, <1>7, <1>8 DEF ScreenServer, ScreenUsers

-----------------------------------------------------------------------------

LEMMA KInvariant == Spec => []KInv
<1>1. ASSUME KInv, Next PROVE KInv'
  <2>1. CASE Timer \/ Breaks \/ Cleaner \/ Misfortune
    BY <1>1, <2>1, TheSession DEF Timer, Breaks, Cleaner, Misfortune
  <2>2. CASE Io
    BY <1>1, <2>2, TheSession, TheTerminals, Subscribes, Captures DEF Io, TerminalStep, ScreenStep, ScreenIo
  <2>3. CASE Returns \/ Exec
    BY <1>1, <2>3, TheTerminals DEF Returns, Exec, TerminalStep
  <2>4. CASE Capturer
    BY <1>1, <2>4, Captures DEF Capturer, ScreenStep
  <2>5. CASE Server
    BY <1>1, <2>5, TheSession, TheTerminals, TheServersScreen DEF Server, TerminalStep, ScreenStep
  <2>6. CASE Outside
    BY <1>1, <2>6, TheTerminals, TheServersScreen DEF Outside, TerminalStep, ScreenStep
  <2> QED BY <1>1, <2>1, <2>2, <2>3, <2>4, <2>5, <2>6 DEF Next
<1>2. ASSUME KInv, UNCHANGED vars PROVE KInv'
  <2>1. UNCHANGED <<up, con, gone, server, directKey, subscribers, misread, watch, viewerKey>>
    BY <1>2 DEF vars, session, screen
  <2>2. Ends2' /\ Watching' = Watching
    BY <1>2, <2>1 DEF KInv, Ends2, Watching
  <2> QED BY <1>2, <2>1, <2>2, Calm DEF KInv, KTypes, Less
<1> QED BY <1>1, <1>2, KInitially, PTL DEF Spec

\* No viewer is sent a frame it cannot decrypt (ScreenGuardAbility's m_aesDirect), for any
\* numbers of viewers, subscriptions, lost connections and clean-ups.
THEOREM NoFrameMisread == Spec => []FramesReadable
<1>1. KInv => FramesReadable
  BY DEF KInv, FramesReadable
<1> QED BY <1>1, KInvariant, PTL
=============================================================================
