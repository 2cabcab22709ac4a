----------------------------- MODULE ScreenGuard -----------------------------
(***************************************************************************)
(* A guard's shared screen: ScreenGuardAbility on the IO thread, the       *)
(* capturer with its thread, and the viewers in the server's room.         *)
(*                                                                         *)
(* A viewer gets the key of the frames with the answer to its subscription *)
(* and can show nothing before a keyframe, which the encoder makes only    *)
(* when it is forced to.  A subscription and the encryption of a frame are *)
(* sections of the ability's m_mutex, hence one step each.                 *)
(*                                                                         *)
(* Bounds: the viewers of Users, MaxJoins subscriptions, at most MaxForced *)
(* forced keyframes outstanding, two keys (the one in use and a new one).  *)
(***************************************************************************)
EXTENDS GuardSession, FiniteSets

CONSTANTS MaxUsers, MaxJoins, MaxForced

ASSUME ScreenBounds == {MaxUsers, MaxJoins, MaxForced} \subseteq Nat /\ MaxForced > 0

Users == 1..MaxUsers
Keys  == 1..2

VARIABLES
  subscribers, \* m_subscribers
  directKey,   \* m_aesDirect, or 0
  stopped,     \* m_stopped of the capturer
  forced,      \* m_forKeyFrame
  frame,       \* the frame the capturer's thread has encoded and not published: "none", "key", "delta"
  watch,       \* the server's viewers: "none", "asked" or "in"
  viewerKey,   \* the key a viewer was given, or 0
  sharp,       \* viewers that have got a keyframe
  misread,     \* has a viewer been sent a frame under another key than its own?
  joins

screen == <<subscribers, directKey, stopped, forced, frame, watch, viewerKey, sharp, misread, joins>>

ScreenInit ==
  /\ subscribers = {} /\ directKey = 0 /\ stopped = TRUE /\ forced = 0 /\ frame = "none"
  /\ watch = [u \in Users |-> "none"] /\ viewerKey = [u \in Users |-> 0]
  /\ sharp = {} /\ misread = FALSE /\ joins = 0

ScreenIoRest ==
  /\ UNCHANGED <<con, gone, loggedIn, loggingIn, timer, buffer, down, server, room, ghosts, faults>>
  /\ UNCHANGED <<frame, watch, viewerKey, sharp, misread, joins>>

-----------------------------------------------------------------------------
\* The IO thread

\* A mutant: every subscription makes a key.
DirectKeyAlways == CHOOSE k \in Keys : k # directKey
\* The first subscription of a session makes a new key.
DirectKey == IF subscribers = {} THEN CHOOSE k \in Keys : k # directKey ELSE directKey

\* handleRequestOfSubscribeScreen, up to the answer; or the password is wrong
Subscribe(u) ==
  /\ io.kind = "subscribe" /\ io.id = u
  /\ \/ /\ directKey' = DirectKey /\ subscribers' = subscribers \cup {u}
        /\ Send([kind |-> "subscribed", id |-> u, key |-> DirectKey])
        /\ io' = Message("start", 0)
     \/ Send(Message("denied", u)) /\ io' = Idle /\ UNCHANGED <<directKey, subscribers>>
  /\ ScreenIoRest /\ UNCHANGED <<stopped, forced>>

\* A mutant: the capturer goes on with the frames it would have made anyway.
StartedPlain == stopped' = FALSE /\ forced' = forced
\* ScreenCapturerBase::start
Started == stopped' = FALSE /\ forced' = IF forced < MaxForced THEN forced + 1 ELSE forced

\* ... and start(); handleCommandOfSetAutoPublishDesktop
Start ==
  /\ io.kind \in {"start", "enable"} /\ Started /\ io' = Idle
  /\ ScreenIoRest /\ UNCHANGED <<outgoing, subscribers, directKey>>

Stop ==
  /\ io.kind = "disable" /\ stopped' = TRUE /\ io' = Idle
  /\ ScreenIoRest /\ UNCHANGED <<outgoing, subscribers, directKey, forced>>

ScreenIo == Start \/ Stop \/ \E u \in Users : Subscribe(u)

-----------------------------------------------------------------------------
\* The capturer's thread

\* pushScreenFrame, and the test of isLoggedIn in publishScreenFrame
Capture ==
  /\ frame = "none" /\ ~stopped /\ Len(up) < Cap
  /\ forced' = IF forced > 0 THEN forced - 1 ELSE 0
  /\ frame' = IF ~loggedIn THEN "none" ELSE IF forced > 0 THEN "key" ELSE "delta"
  /\ UNCHANGED <<session, subscribers, directKey, stopped, watch, viewerKey, sharp, misread, joins>>

\* publishScreenFrame, under m_mutex
PublishFrame ==
  /\ frame # "none" /\ frame' = "none"
  /\ Send([kind |-> "frame", id |-> IF frame = "key" THEN 1 ELSE 0, key |-> directKey])
  /\ UNCHANGED <<con, gone, loggedIn, loggingIn, timer, buffer, io, down, server, room, ghosts, faults>>
  /\ UNCHANGED <<subscribers, directKey, stopped, forced, watch, viewerKey, sharp, misread, joins>>

-----------------------------------------------------------------------------
\* The server

ScreenServerRest ==
  /\ UNCHANGED <<con, closing, alive, gone, loggedIn, loggingIn, timer, buffer, io, server, room, ghosts, faults>>
  /\ UNCHANGED <<subscribers, directKey, stopped, forced, frame>>

Tell(ms) == down' = IF server = "in" THEN down \o ms ELSE down
Watching == {u \in Users : watch[u] = "in"}

\* Task::SubscribeScreen::execute
AskScreen(u) ==
  /\ server = "in" /\ room /\ watch[u] = "none" /\ joins < MaxJoins /\ joins' = joins + 1
  /\ watch' = [watch EXCEPT ![u] = "asked"] /\ Tell(<<Message("subscribe", u)>>)
  /\ ScreenServerRest /\ UNCHANGED <<up, viewerKey, sharp, misread>>

\* ResponseSubscribeScreen2: SharingRoom::addViewer and the answer to the viewer; or it is too late
HearSubscribed(u) ==
  /\ Hears("subscribed") /\ room /\ Head(up).id = u /\ up' = Tail(up)
  /\ \/ /\ watch' = [watch EXCEPT ![u] = "in"] /\ viewerKey' = [viewerKey EXCEPT ![u] = Head(up).key]
        /\ Tell(IF Watching = {} THEN <<Message("enable", 0)>> ELSE <<>>)
     \/ watch' = [watch EXCEPT ![u] = "none"] /\ UNCHANGED <<viewerKey, down>>
  /\ ScreenServerRest /\ UNCHANGED <<sharp, misread, joins>>

HearDenied(u) ==
  /\ Hears("denied") /\ Head(up).id = u /\ up' = Tail(up) /\ watch' = [watch EXCEPT ![u] = "none"]
  /\ ScreenServerRest /\ UNCHANGED <<down, viewerKey, sharp, misread, joins>>

\* PublishScreenFrame
HearFrame ==
  /\ Hears("frame") /\ room /\ up' = Tail(up)
  /\ misread' = (misread \/ \E u \in Watching : viewerKey[u] # Head(up).key)
  /\ sharp' = IF Head(up).id = 1 THEN sharp \cup Watching ELSE sharp
  /\ ScreenServerRest /\ UNCHANGED <<down, watch, viewerKey, joins>>

\* SharingRoom::removeViewer
ScreenViewerLeaves(u) ==
  /\ watch[u] = "in" /\ watch' = [watch EXCEPT ![u] = "none"] /\ sharp' = sharp \ {u}
  /\ viewerKey' = [viewerKey EXCEPT ![u] = 0]
  /\ Tell(IF Watching = {u} THEN <<Message("disable", 0)>> ELSE <<>>)
  /\ ScreenServerRest /\ UNCHANGED <<up, misread, joins>>

ScreenServer == HearFrame \/ \E u \in Users : HearSubscribed(u) \/ HearDenied(u)
ScreenUsers == \E u \in Users : AskScreen(u) \/ ScreenViewerLeaves(u)

\* The two ends of a session: handleConnectionLostEvent at the guard, and the server's viewers.
ScreenLosesConnection == subscribers' = IF gone /\ ~gone' THEN {} ELSE subscribers
ScreenLosesViewers ==
  IF server = "in" /\ server' = "none"
  THEN watch' = [u \in Users |-> "none"] /\ viewerKey' = [u \in Users |-> 0] /\ sharp' = {}
  ELSE UNCHANGED <<watch, viewerKey, sharp>>
ScreenSurvives == ScreenLosesConnection /\ ScreenLosesViewers
                    /\ UNCHANGED <<directKey, stopped, forced, frame, misread, joins>>
=============================================================================
