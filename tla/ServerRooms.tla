---------------------------- MODULE ServerRooms ----------------------------
(***************************************************************************)
(* The sharing rooms of the server: a guard's login opens a room for each  *)
(* kind it shares, a visitor's request is carried to the owner of the room *)
(* and on its consent the visitor becomes a viewer, and the clean-up of a  *)
(* connection closes its rooms or takes it out of the room it views.       *)
(*                                                                         *)
(* The requests of one connection run one after the other, in order, and   *)
(* its CleanUserConnection is the last of them (RequestProcessor); those   *)
(* of different connections, and the threads of Task::Manager, interleave  *)
(* between any two calls on the shared rooms.  The visits go through       *)
(* Task::Manager as AsyncTask, which TaskManager implements, says.  A      *)
(* failed assert or a null pointer ends the process: `fault` names it and  *)
(* nothing happens after.                                                  *)
(*                                                                         *)
(* Bounds: a connection logs in and visits at most once.                   *)
(***************************************************************************)
EXTENDS Naturals, Sequences

CONSTANTS
  Accounts,
  Guards, Visitors,   \* the connections, by the high role they log in with
  accountOf,          \* the account each connection logs in with
  kindsOf,            \* the kinds each guard shares (low role, several allowed)
  kindOf,             \* the kind each visitor wants (low role, only one allowed)
  None,               \* no connection, no account
  Overlap             \* may a guard log in while another of its account is not cleaned up?

Kinds == {"screen", "file", "terminal"}
Connections == Guards \cup Visitors

ASSUME Roles == /\ accountOf \in [Connections -> Accounts] /\ Guards \cap Visitors = {}
                /\ kindsOf \in [Guards -> SUBSET Kinds \ {{}}]
                /\ kindOf \in [Visitors -> Kinds]
                /\ None \notin Connections \cup Accounts /\ Overlap \in BOOLEAN

VARIABLES
  status,   \* "open"; "closing": disconnect() called or peer lost; "gone": cleaned up
  pc,       \* where in its handlers the request processor is with each connection
  bound,    \* the connections with m_pUser, m_role and m_aes set
  left,     \* the kinds a guard's login or clean-up has still to go through
  rooms,    \* m_rooms of the three managers: the owner of each account's room
  viewers,  \* m_viewers of each room; a room is named by its kind and its owner
  autoPub,  \* the last EnableAutoPublishDesktop the owner of a screen room was sent
  target,   \* m_targetUserId
  dispatched, asked, outcome,   \* the visitors' tasks, as in AsyncTask
  partner,  \* the guard the task's request was sent to
  serving, found,  \* handleResponse of each guard: the visitor, the room's owner
  terminal, \* what became of the terminal the guard opened for a terminal visitor
  late,     \* history: the visitors made viewers after their clean-up
  fault     \* what ended the process

login   == <<pc, bound, left>>
share   == <<rooms, viewers, autoPub>>
task    == <<dispatched, asked, outcome>>
visit   == <<target, task, partner>>
answer  == <<serving, found>>
vars == <<status, login, share, visit, answer, terminal, late, fault>>

Visit == INSTANCE AsyncTask WITH Tasks <- Visitors

Init ==
  /\ status = [c \in Connections |-> "open"] /\ pc = [c \in Connections |-> "new"]
  /\ bound = {} /\ left = [g \in Guards |-> {}]
  /\ rooms = [k \in Kinds |-> [a \in Accounts |-> None]]
  /\ viewers = [k \in Kinds |-> [g \in Guards |-> {}]] /\ autoPub = [g \in Guards |-> FALSE]
  /\ target = [v \in Visitors |-> None] /\ Visit!AInit
  /\ partner = [v \in Visitors |-> None]
  /\ serving = [g \in Guards |-> None] /\ found = [g \in Guards |-> None]
  /\ terminal = [v \in Visitors |-> "none"] /\ late = {} /\ fault = "none"

Goto(c, from, to) == pc[c] = from /\ pc' = [pc EXCEPT ![c] = to]
\* The request processor still has requests of c to handle, and is not inside one.
Served(c) == status[c] # "gone" /\ c \in bound /\ pc[c] = "idle"
Disconnected(C) == [c \in Connections |-> IF c \in C /\ status[c] = "open" THEN "closing" ELSE status[c]]
RoomOf(k, c) == rooms[k][accountOf[c]]
RoomFor(v) == IF target[v] = None THEN None ELSE rooms[kindOf[v]][target[v]]

-----------------------------------------------------------------------------
\* RequestLogin. A visitor (and a manager) is only bound; no room is involved.
LoginVisitor(v) ==
  /\ status[v] # "gone" /\ Goto(v, "new", "idle")
  /\ bound' = bound \cup {v}
  /\ UNCHANGED <<status, left, share, visit, answer, terminal, late, fault>>

LoginGuard(g) ==
  /\ status[g] # "gone" /\ Goto(g, "new", "create")
  /\ Overlap \/ \A h \in Guards \ {g} :
                  accountOf[h] = accountOf[g] => pc[h] = "new" \/ status[h] = "gone"
  /\ left' = [left EXCEPT ![g] = kindsOf[g]]
  /\ UNCHANGED <<status, bound, share, visit, answer, terminal, late, fault>>

\* The rooms are created in the order screen, file, terminal. The callbacks of a screen
\* room, set right after it is created, belong to its creation.
First(S) == IF "screen" \in S THEN "screen" ELSE IF "file" \in S THEN "file" ELSE "terminal"

\* Mutant: createRoom replaces the room the account has.
CreateRoomReplaces(g) ==
  LET k == First(left[g]) IN
  /\ pc[g] = "create" /\ left[g] # {}
  /\ rooms' = [rooms EXCEPT ![k][accountOf[g]] = g]
  /\ left' = [left EXCEPT ![g] = @ \ {k}]
  /\ UNCHANGED <<status, pc, bound, viewers, autoPub, visit, answer, terminal, late, fault>>

\* createRoom gives nothing if the account has a room of this kind, whoever owns it; the
\* login then fails and takes every room of the account back.
CreateRoom(g) ==
  LET k == First(left[g]) IN
  /\ pc[g] = "create" /\ left[g] # {}
  /\ \/ /\ RoomOf(k, g) = None
        /\ rooms' = [rooms EXCEPT ![k][accountOf[g]] = g]
        /\ left' = [left EXCEPT ![g] = @ \ {k}]
        /\ UNCHANGED pc
     \/ /\ RoomOf(k, g) # None
        /\ pc' = [pc EXCEPT ![g] = "rollback"]
        /\ left' = [left EXCEPT ![g] = Kinds]
        /\ UNCHANGED rooms
  /\ UNCHANGED <<status, bound, viewers, autoPub, visit, answer, terminal, late, fault>>

\* Mutant: the account's rooms of every kind go.
RemoveRoomAllKinds(k, g) ==
  /\ rooms' = [l \in Kinds |-> [rooms[l] EXCEPT ![accountOf[g]] = None]]
  /\ status' = Disconnected(IF RoomOf(k, g) = None THEN {} ELSE viewers[k][RoomOf(k, g)])
  /\ left' = [left EXCEPT ![g] = @ \ {k}]

\* removeRoom of the account's room of kind k, and its viewers disconnected.
RemoveRoom(k, g) ==
  /\ rooms' = [rooms EXCEPT ![k][accountOf[g]] = None]
  /\ status' = Disconnected(IF RoomOf(k, g) = None THEN {} ELSE viewers[k][RoomOf(k, g)])
  /\ left' = [left EXCEPT ![g] = @ \ {k}]

Rollback(g) ==
  /\ pc[g] = "rollback"
  /\ \/ /\ left[g] # {}
        /\ RemoveRoom(First(left[g]), g)
        /\ UNCHANGED pc
     \/ /\ left[g] = {}
        /\ Goto(g, "rollback", "failed")
        /\ UNCHANGED <<status, left, rooms>>
  /\ UNCHANGED <<bound, viewers, autoPub, visit, answer, terminal, late, fault>>

\* bindUser and setSecondCryptology. Until now the rooms had an owner without a cipher.
Bind(g) ==
  /\ left[g] = {} /\ Goto(g, "create", "idle")
  /\ bound' = bound \cup {g}
  /\ UNCHANGED <<status, left, share, visit, answer, terminal, late, fault>>

-----------------------------------------------------------------------------
\* A task that is not settled, nor claimed by a response that is being handled.
Waiting(v) == v \in dispatched /\ outcome[v] = <<>> /\ \A g \in Guards : serving[g] # v

\* RequestSubscribeScreen, RequestVisitFiles, RequestCreateTerminal: once per connection,
\* never one's own account; the task is dispatched.
RequestVisit(v) ==
  /\ Served(v) /\ target[v] = None
  /\ \E a \in Accounts \ {accountOf[v]} : target' = [target EXCEPT ![v] = a]
  /\ Visit!Begin(v)
  /\ UNCHANGED <<status, login, share, partner, answer, terminal, late, fault>>

\* execute, on a thread of Task::Manager: the request to the owner is encrypted with the
\* owner's cipher, which is a null pointer until the owner's login is through.
Execute(v) ==
  /\ Waiting(v) /\ v \notin asked
  /\ \/ /\ RoomFor(v) = None
        /\ Visit!Settle(v, "unreachable")
        /\ UNCHANGED <<partner, fault>>
     \/ /\ RoomFor(v) # None /\ RoomFor(v) \in bound
        /\ Visit!Ask(v)
        /\ partner' = [partner EXCEPT ![v] = RoomFor(v)]
        /\ UNCHANGED fault
     \/ /\ RoomFor(v) # None /\ RoomFor(v) \notin bound
        /\ fault' = "null_cipher"
        /\ UNCHANGED <<task, partner>>
  /\ UNCHANGED <<status, login, share, target, answer, terminal, late>>

Timeout(v) ==
  /\ Waiting(v)
  /\ Visit!Settle(v, "timeout")
  /\ UNCHANGED <<status, login, share, target, partner, answer, terminal, late, fault>>

-----------------------------------------------------------------------------
\* Mutant: a response nobody waits for is ignored, whatever its kind.
RespondLateIgnores(g, v) ==
  /\ Served(g) /\ partner[v] = g /\ outcome[v] # <<>>
  /\ kindOf[v] = "terminal" /\ terminal[v] = "none"
  /\ terminal' = [terminal EXCEPT ![v] = "open"]
  /\ UNCHANGED <<status, login, share, visit, answer, late, fault>>

\* The guard's responses. One that finds its task settled changes nothing, except that a
\* terminal opened for it is closed again.
RespondLate(g, v) ==
  /\ Served(g) /\ partner[v] = g /\ outcome[v] # <<>>
  /\ kindOf[v] = "terminal" /\ terminal[v] = "none"
  /\ terminal' = [terminal EXCEPT ![v] = "closed"]
  /\ UNCHANGED <<status, login, share, visit, answer, late, fault>>

\* An error from the guard, or a response of the wrong kind, settles the task.
Refuse(g, v) ==
  /\ Served(g) /\ partner[v] = g /\ Waiting(v)
  /\ Visit!Settle(v, "answered") \/ Visit!Settle(v, "dropped")
  /\ UNCHANGED <<status, login, share, target, partner, answer, terminal, late, fault>>

\* Consent: Manager::destroy claims the task (TaskManager) and handleResponse begins.
Consent(g, v) ==
  /\ Served(g) /\ partner[v] = g /\ Waiting(v)
  /\ serving' = [serving EXCEPT ![g] = v]
  /\ terminal' = IF kindOf[v] = "terminal" THEN [terminal EXCEPT ![v] = "open"] ELSE terminal
  /\ pc' = [pc EXCEPT ![g] = "answer"]
  /\ UNCHANGED <<status, bound, left, share, visit, found, late, fault>>

FindRoom(g) ==
  /\ pc[g] = "answer"
  /\ \/ /\ RoomFor(serving[g]) = None
        /\ fault' = "answer_assert" /\ UNCHANGED <<pc, found>>
     \/ /\ RoomFor(serving[g]) # None
        /\ Goto(g, "answer", "add")
        /\ found' = [found EXCEPT ![g] = RoomFor(serving[g])] /\ UNCHANGED fault
  /\ UNCHANGED <<status, bound, left, share, visit, serving, terminal, late>>

\* Screens and files admit one viewer per account; the owner of a screen room is told to
\* publish when the room stops being empty.
Admits(k, g, v) == k = "terminal" \/ \A u \in viewers[k][g] : accountOf[u] # accountOf[v]

\* Mutant: the account's uniqueness is not checked.
AddViewerTwice(g) ==
  LET v == serving[g]  k == kindOf[v] IN
  /\ Goto(g, "add", "idle")
  /\ viewers' = [viewers EXCEPT ![k][found[g]] = @ \cup {v}]
  /\ autoPub' = IF k = "screen" /\ viewers[k][found[g]] = {}
             THEN [autoPub EXCEPT ![found[g]] = TRUE] ELSE autoPub
  /\ late' = IF status[v] = "gone" THEN late \cup {v} ELSE late
  /\ serving' = [serving EXCEPT ![g] = None] /\ found' = [found EXCEPT ![g] = None]
  /\ Visit!Settle(v, "answered")
  /\ UNCHANGED <<status, bound, left, rooms, target, partner, terminal, fault>>

AddViewer(g) ==
  LET v == serving[g]  k == kindOf[v] IN
  /\ Goto(g, "add", "idle")
  /\ IF Admits(k, found[g], v)
     THEN /\ viewers' = [viewers EXCEPT ![k][found[g]] = @ \cup {v}]
          /\ autoPub' = IF k = "screen" /\ viewers[k][found[g]] = {}
                    THEN [autoPub EXCEPT ![found[g]] = TRUE] ELSE autoPub
          /\ late' = IF status[v] = "gone" THEN late \cup {v} ELSE late
     ELSE UNCHANGED <<viewers, autoPub, late>>
  /\ serving' = [serving EXCEPT ![g] = None] /\ found' = [found EXCEPT ![g] = None]
  /\ Visit!Settle(v, "answered")
  /\ UNCHANGED <<status, bound, left, rooms, target, partner, terminal, fault>>

-----------------------------------------------------------------------------
\* The guard's screen frames, cursor positions and terminal output go to the viewers of
\* its account's room, which must be there.
Publish(g, k) ==
  /\ Served(g) /\ k \in kindsOf[g] \cap {"screen", "terminal"}
  /\ RoomOf(k, g) = None
  /\ fault' = "publish_assert"
  /\ UNCHANGED <<status, login, share, visit, answer, terminal, late>>

\* A file request (UsualRequest) is passed on to the other side: the handler notes that
\* the room is missing, and uses it all the same. It asks for the sender's role and target, not
\* whether it is a viewer. A visitor's request is encrypted with the cipher of the room's owner,
\* who does not have one while it is logging in.
FileRequest(v) ==
  /\ Served(v) /\ kindOf[v] = "file" /\ target[v] # None
  /\ \/ RoomFor(v) = None /\ fault' = "null_room"
     \/ RoomFor(v) # None /\ RoomFor(v) \notin bound /\ fault' = "null_cipher"
  /\ UNCHANGED <<status, login, share, visit, answer, terminal, late>>

GuardFileRequest(g) ==
  /\ Served(g) /\ "file" \in kindsOf[g]
  /\ RoomOf("file", g) = None /\ fault' = "null_room"
  /\ UNCHANGED <<status, login, share, visit, answer, terminal, late>>

\* KickoutVisitor of a terminal's guard.
Kickout(g) ==
  /\ Served(g) /\ "terminal" \in kindsOf[g] /\ RoomOf("terminal", g) # None
  /\ \E v \in viewers["terminal"][RoomOf("terminal", g)] : status' = Disconnected({v})
  /\ UNCHANGED <<login, share, visit, answer, terminal, late, fault>>

\* The peer is lost, a handler rejects a request, or the manager kicks the user out.
Disconnect(c) ==
  /\ status[c] = "open" /\ status' = Disconnected({c})
  /\ UNCHANGED <<login, share, visit, answer, terminal, late, fault>>

-----------------------------------------------------------------------------
\* CleanUserConnection. A connection that is not bound leaves nothing behind.
CleanUnbound(c) ==
  /\ status[c] = "closing" /\ c \notin bound /\ pc[c] \in {"new", "failed"}
  /\ status' = [status EXCEPT ![c] = "gone"]
  /\ UNCHANGED <<login, share, visit, answer, terminal, late, fault>>

CleanGuard(g) ==
  /\ status[g] = "closing" /\ g \in bound /\ Goto(g, "idle", "clean")
  /\ left' = [left EXCEPT ![g] = kindsOf[g]]
  /\ UNCHANGED <<status, bound, share, visit, answer, terminal, late, fault>>

\* Mutant: the viewers of a closed room are not disconnected.
CleanRoomKeepsViewers(g) ==
  LET k == First(left[g]) IN
  /\ pc[g] = "clean" /\ left[g] # {}
  /\ rooms' = [rooms EXCEPT ![k][accountOf[g]] = None]
  /\ left' = [left EXCEPT ![g] = @ \ {k}]
  /\ UNCHANGED <<status, fault>>
  /\ UNCHANGED <<pc, bound, viewers, autoPub, visit, answer, terminal, late>>

\* Mutant: the viewers are disconnected but the room stays in the manager.
CleanRoomStays(g) ==
  LET k == First(left[g]) IN
  /\ pc[g] = "clean" /\ left[g] # {}
  /\ status' = Disconnected(viewers[k][g])
  /\ left' = [left EXCEPT ![g] = @ \ {k}]
  /\ UNCHANGED <<rooms, fault>>
  /\ UNCHANGED <<pc, bound, viewers, autoPub, visit, answer, terminal, late>>

CleanRoom(g) ==
  LET k == First(left[g]) IN
  /\ pc[g] = "clean" /\ left[g] # {}
  /\ \/ RoomOf(k, g) # None /\ RemoveRoom(k, g) /\ UNCHANGED fault
     \/ RoomOf(k, g) = None /\ fault' = "clean_assert" /\ UNCHANGED <<status, rooms, left>>
  /\ UNCHANGED <<pc, bound, viewers, autoPub, visit, answer, terminal, late>>

CleanGuardEnd(g) ==
  /\ pc[g] = "clean" /\ left[g] = {} /\ status[g] # "gone"
  /\ status' = [status EXCEPT ![g] = "gone"]
  /\ UNCHANGED <<login, share, visit, answer, terminal, late, fault>>

\* Mutant: only the terminal is closed, the viewer stays in the room.
CleanVisitorStays(v) ==
  LET k == kindOf[v]  g == RoomFor(v) IN
  /\ status[v] = "closing" /\ Served(v)
  /\ status' = [status EXCEPT ![v] = "gone"]
  /\ terminal' = IF g # None /\ k = "terminal" /\ v \in viewers[k][g]
                 THEN [terminal EXCEPT ![v] = "closed"] ELSE terminal
  /\ UNCHANGED <<login, share, fault, visit, answer, late>>

\* Mutant: removeViewer does not tell the owner of a screen room that it is empty.
CleanVisitorSilent(v) ==
  LET k == kindOf[v]  g == RoomFor(v) IN
  /\ status[v] = "closing" /\ Served(v)
  /\ status' = [status EXCEPT ![v] = "gone"]
  /\ viewers' = IF g = None THEN viewers ELSE [viewers EXCEPT ![k][g] = @ \ {v}]
  /\ UNCHANGED <<login, rooms, autoPub, terminal, fault, visit, answer, late>>

\* A visitor leaves the room its target has now; a screen room left empty tells its owner
\* so (with the owner's cipher), a terminal room has the viewer's terminal closed.
CleanVisitor(v) ==
  LET k == kindOf[v]  g == RoomFor(v) IN
  /\ status[v] = "closing" /\ Served(v)
  /\ \/ /\ g = None
        /\ status' = [status EXCEPT ![v] = "gone"]
        /\ UNCHANGED <<viewers, autoPub, terminal, fault>>
     \/ LET emptied == k = "screen" /\ viewers[k][g] \subseteq {v} IN
        /\ g # None
        /\ viewers' = [viewers EXCEPT ![k][g] = @ \ {v}]
        /\ \/ /\ emptied => g \in bound
              /\ status' = [status EXCEPT ![v] = "gone"]
              /\ autoPub' = IF emptied THEN [autoPub EXCEPT ![g] = FALSE] ELSE autoPub
              /\ terminal' = IF k = "terminal" /\ v \in viewers[k][g]
                             THEN [terminal EXCEPT ![v] = "closed"] ELSE terminal
              /\ UNCHANGED fault
           \/ /\ emptied /\ g \notin bound
              /\ fault' = "null_cipher" /\ UNCHANGED <<status, autoPub, terminal>>
  /\ UNCHANGED <<login, rooms, visit, answer, late>>

-----------------------------------------------------------------------------
\* What the server's threads do on their own once they have begun or have a request to end.
LoginStep(g) == CreateRoom(g) \/ Rollback(g) \/ Bind(g)
AnswerStep(g) == FindRoom(g) \/ AddViewer(g)
CleanStep(c) ==
  \/ CleanUnbound(c)
  \/ c \in Guards /\ (CleanGuard(c) \/ CleanRoom(c) \/ CleanGuardEnd(c))
  \/ c \in Visitors /\ CleanVisitor(c)

ServerStep ==
  \/ \E g \in Guards : LoginStep(g) \/ AnswerStep(g)
  \/ \E c \in Connections : CleanStep(c)
  \/ \E v \in Visitors : Execute(v) \/ Timeout(v)

ClientStep ==
  \/ \E c \in Connections : Disconnect(c)
  \/ \E v \in Visitors : LoginVisitor(v) \/ RequestVisit(v) \/ FileRequest(v)
  \/ \E g \in Guards : LoginGuard(g) \/ GuardFileRequest(g) \/ Kickout(g) \/ \E k \in Kinds : Publish(g, k)
  \/ \E g \in Guards, v \in Visitors : RespondLate(g, v) \/ Refuse(g, v) \/ Consent(g, v)

\* Everyone has left, or the process has ended.
Terminated == (fault # "none" \/ \A c \in Connections : status[c] = "gone") /\ UNCHANGED vars

Next == (fault = "none" /\ (ServerStep \/ ClientStep)) \/ Terminated

Spec == Init /\ [][Next]_vars

\* The request processor's threads keep running, and a connection that is closing is
\* noticed and cleaned up (as long as its CleanUserConnection is not refused by pushRequest,
\* see RequestProcessor in the README).
Fairness ==
  /\ \A g \in Guards : /\ WF_vars(fault = "none" /\ LoginStep(g))
                       /\ WF_vars(fault = "none" /\ AnswerStep(g))
  /\ \A c \in Connections : WF_vars(fault = "none" /\ CleanStep(c))

FairSpec == Spec /\ Fairness

-----------------------------------------------------------------------------
Points == {"new", "idle", "create", "rollback", "failed", "answer", "add", "clean"}
Faults == {"none", "null_cipher", "null_room", "answer_assert", "publish_assert", "clean_assert"}

TypeOK ==
  /\ status \in [Connections -> {"open", "closing", "gone"}]
  /\ pc \in [Connections -> Points]
  /\ bound \subseteq Connections /\ left \in [Guards -> SUBSET Kinds]
  /\ rooms \in [Kinds -> [Accounts -> Guards \cup {None}]]
  /\ viewers \in [Kinds -> [Guards -> SUBSET Visitors]] /\ autoPub \in [Guards -> BOOLEAN]
  /\ target \in [Visitors -> Accounts \cup {None}]
  /\ dispatched \subseteq Visitors /\ asked \subseteq Visitors
  /\ outcome \in [Visitors -> Seq(Visit!Outcomes)]
  /\ partner \in [Visitors -> Guards \cup {None}]
  /\ serving \in [Guards -> Visitors \cup {None}] /\ found \in [Guards -> Guards \cup {None}]
  /\ terminal \in [Visitors -> {"none", "open", "closed"}]
  /\ late \subseteq Visitors /\ fault \in Faults

\* A room never outlives the clean-up of the connection that owns it, whatever other
\* connections of the account do to it: no visitor is sent to an owner that has left.
RoomHasOwner ==
  \A k \in Kinds, a \in Accounts :
    LET g == rooms[k][a] IN
    g # None => accountOf[g] = a /\ k \in kindsOf[g] /\ status[g] # "gone"

\* An account views a screen or a guard's files at most once at a time, although two of
\* its connections may be answered by different threads.
OneViewerPerAccount ==
  \A k \in {"screen", "file"}, g \in Guards : \A u, v \in viewers[k][g] :
    accountOf[u] = accountOf[v] => u = v

\* The owner of a screen room has last been told to publish exactly if it has viewers.
AutoPublishMatches == \A g \in Guards : autoPub[g] = (viewers["screen"][g] # {})

\* Once a guard is cleaned up, none of its viewers is left connected to nobody.
\* (One guard connection per account at a time.)
NoViewerLeftBehind ==
  \A g \in Guards : status[g] = "gone" =>
    \A k \in Kinds : \A v \in viewers[k][g] : status[v] # "open"

\* A viewer that has been cleaned up stays in a room that still exists only if the guard's
\* consent was handled after the clean-up; such a viewer keeps its account out of the room
\* and the guard publishing. (One guard connection per account at a time.)
GhostsComeLate ==
  \A k \in Kinds, a \in Accounts : rooms[k][a] # None =>
    \A v \in viewers[k][rooms[k][a]] : status[v] = "gone" => v \in late

\* Every terminal a guard keeps open for a visitor has that visitor among its viewers, or is
\* about to, and a connected guard's is closed when the visitor is cleaned up: timeouts,
\* refusals and lost visitors leave no terminal nobody will close. The exception is the consent
\* handled after the visitor's clean-up: it leaves a terminal that lasts until its program ends.
\* (One guard connection per account at a time.)
TerminalHasViewer ==
  \A v \in Visitors : terminal[v] = "open" =>
    \/ serving[partner[v]] = v
    \/ /\ v \in viewers["terminal"][partner[v]]
       /\ status[v] = "gone" /\ status[partner[v]] = "open" => v \in late

\* assert(room.get()) in PublishScreenFrame, PublishCursorPosition, PublishTerminalOutput.
PublishFindsRoom == fault # "publish_assert"

\* assert(room.get()) in CleanUserConnection.
CleanFindsRoom == fault # "clean_assert"

\* assert(room.get()) in handleResponse of the three visit tasks.
AnswerFindsRoom == fault # "answer_assert"

\* As long as an account has one guard connection at a time, the room that publishing,
\* answering and cleaning up take for granted is there, however visitors come and go.
AssertsHold == PublishFindsRoom /\ CleanFindsRoom /\ AnswerFindsRoom

\* With several guard connections of an account, what takes a room away from under a guard
\* that is served is always a failed login.
AssertsNeedFailedLogin ==
  ~AssertsHold => \E g \in Guards : pc[g] \in {"rollback", "failed"}

\* When a guard's connection closes, its viewers are disconnected and cleaned up.
ViewersFollow ==
  \A g \in Guards, v \in Visitors :
    status[g] = "closing" /\ (\E k \in Kinds : v \in viewers[k][g])
      ~> status[v] = "gone" \/ fault # "none"
=============================================================================
