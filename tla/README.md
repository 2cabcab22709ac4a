# EasyViewer: verification project

EasyViewer shares a desktop, files and terminals of one computer (the *guard*) with others
(the *visitors*, or viewers) through a server. This directory holds TLA+ models of the
program, the TLC runs that check them and TLAPS proofs about them. Paths below are relative
to the repository root (`src/` here).

## 1. The system

### Inventory

| Part (source) | State it keeps | Operations | What makes it correct |
|---|---|---|---|
| Network library `Global/Component/EasyIO` | sockets, send queues, per-thread event loops, the server's connection table | connect, accept, send, recv, disconnect, callbacks | each connection reports `onConnected`, data, `onDisconnected` in this order and once; `close()` ends |
| `Server/ServerBase`, `ApplicationServer`, `ManagementServer` | `m_connections`; per connection the bound account, role, ciphers, request queue (`UserConnection`) | connected / disconnected / data callbacks, kick-out, drop connections not logged in after 60 s | a lost connection is cleaned up once and its rooms and viewers with it |
| `Server/RequestProcessor` | one heap of connections per IO thread | push, pull, the heap's thread | requests of a connection in order, none lost, none stuck |
| `Server/Task` | heap and map of tasks, worker threads | dispatch, exec, destroy, exit | a visit is answered exactly once; nothing leaks |
| `Server/*SharingRoom*` | three tables account → room; per room its owner and viewers | create, get, remove; add and remove viewers, with callbacks | a room has a living owner; viewers leave with it |
| `Global/Component/ReadWriteLock` | two atomic counters | read and write lock, with `try` | exclusion; the writer gets in |
| `Server/AccountManager`, `BlackList`, `ManagementServer` | account table, failure counts, blocks, files | add, delete, enable, passwords, block, expire | ids differ, failures block, blocked means out |
| `Server/NetworkDataHandler` | none | one handler per message | see the parts whose state they change |
| `ServerCtrl` | one connection | commands to the management server | a command does what it says |
| `Client/Guard`, `ViewerBase`, `AuthChecker` | session with the server: socket, buffer, login state | connect, log in, reconnect, dispatch messages | a new session starts from a clean state |
| `Client/File` | transmission tasks, open files | upload, download, error and retry | the copy equals the original, every task ends |
| `Client/Command` | terminals and their threads | create, write, resize, close | no terminal without owner, none closed twice |
| `Client/Desktop` | capturer, encoder, publishing flags | enable, disable, request frame | publishes exactly while somebody looks |
| `Client/Client-UI`, `Logger`, `Cryptology`, `SpeedCalculation`, vendored code | — | — | not modelled (see 6) |

### How the parts interact

```
 viewer ──TCP──► EasyIO event loop ─► ServerBase ─► RequestProcessor::Heap ─► NetworkDataHandler
                  (IO thread)          callbacks     (IO thread or heap thread)   │      │
 guard  ◄──TCP── EasyIO ◄── UserConnection::send ◄── SharingRoom(s) ◄─────────────┘      ▼
                                    ▲                 (ReadWriteLock)         Task::Manager (2 workers)
                                    └───────────────── execute / timeout / feedback ─────┘
```

A guard logs in with a high role (guard) and a set of low roles (screen, files, terminal);
`RequestLogin` creates one room per low role under the account's id. A visitor logs in with one
low role and asks to visit an account: the handler dispatches a *task*; a worker of
`Task::Manager` executes it, which sends the request to the owner of the room; the owner's
response carries the task's id, `Manager::destroy` claims the task and `handleResponse` adds the
visitor to the room's viewers and answers it. If nobody claims it in time, the worker calls
`timeout()`. When EasyIO reports a lost connection, `whenDisconnected` pushes a
`CleanUserConnection` request, which removes the guard's rooms and disconnects their viewers, or
takes the visitor out of its room.

Handlers of connections of different IO threads run at the same time; handlers of one
connection are serialized by its heap's mutex. The task workers are further threads.

### What is hard

Interleavings of the handlers (rooms are created, removed and used without a common lock), of
the workers with responses, of the two threads of a heap; late answers; the roll-back of a
login that failed half-way; queues at their limit; notification of threads that are about to
wait; exit. `PROJECT.json` lists each hazard with its line and the properties aimed at it.

## 2. Modules

| Module | Models | Composed with |
|---|---|---|
| `AbstractRWLock` | what a readers-writer lock promises: the sets of readers and writers | — |
| `ReadWriteLock` | `ReadWriteLock.cpp`, one step per atomic operation | refines `AbstractRWLock` |
| `ReadWriteLockProofs` | theorems about it | |
| `AsyncTask` | what a visit is promised: asked at most once, settled at most once, in order | — |
| `TaskManager` | `TaskManager.cpp`, `ITask.cpp`, the three tasks | refines `AsyncTask` |
| `TaskManagerProofs` | theorems about it | |
| `RequestProcessor` | one `RequestProcessor::Heap` and the request queues of `UserConnection` | — |
| `RequestProcessorProofs` | theorems about it | |
| `ServerRooms` | login, rooms, visits, publishing, clean-up of all three kinds | uses `AsyncTask` for the visits |
| `ServerRoomsProofs` | theorems about it | |
| `TCPServer` | one connection of the network library: acceptor, event loop, senders, `close()`, and the part of `ServerBase` that keeps it | — |
| `TCPServerProofs` | theorems about it | |
| `Accounts` | `AccountManager`, `BlackList`, the handlers of the management server, who is let in | — |
| `AccountsProofs` | theorems about it | |
| `FileCopy` | what a transfer promises: the copy grows block by block, and is finished only when complete | — |
| `FileTransmission` | the task schedulers of viewer and guard, and the messages between them | refines `FileCopy` |
| `FileTransmissionProofs` | theorems about it | |
| `GuardSession` | the guard's connection, login, timer and receive buffer; what the server makes of them | — |
| `TerminalManager` | the guard's terminals on Linux, their thread and programs, the server's viewers | EXTENDS `GuardSession` |
| `ScreenGuard` | the guard's shared screen, its capturer, the server's viewers | EXTENDS `GuardSession` |
| `GuardClient` | the session with its abilities: `Init`, `Next`, fairness, properties | composes the three |
| `GuardClientProofs` | theorems about it | |
| `MC…` | model values, functions and symmetry for TLC | |

`ServerRooms` uses `AsyncTask`, not `TaskManager`: that a visit behaves like an `AsyncTask` is
what `TaskManagerProofs!Refinement` proves, so the rooms are checked against the promise instead
of the heap, the clock and the workers.

### State and code

**ReadWriteLock.** `m_read`, `m_write` are the atomics; `pc` is where each thread is in its
operation. `readLock` is `r_spin` (load `m_write`), `r_inc` (`++m_read`), `r_check` (load again),
`r_dec` (back off); `writeLock` is `w_cas` and `w_drain`; the `try` operations are likewise.

**TaskManager.** A step is a critical section of `m_mutex`, one of a task's mutex, or a read of
`destroyed()` outside it. `wpc` names the place in `exec`: `top` (loop test and clock), `scan` (the
first critical section), `timeout_lock`/`timeout`/`timeout_destroy` (lines 172–178),
`execute_lock`/`execute`/`execute_destroy`/`unlock` (187–192), `check` (194), `erase`, `push`, `sleep`
(219–230), `wait`. A handler thread goes `idle`, `destroy` (task found), `respond` (task claimed).
`clock` is the wall clock in ticks. `dispatched`, `asked`, `outcome` record what the manager did
and are the state of `AsyncTask`. An invalid `QDateTime` (dispatch with a timeout only) compares
smaller than every time: `executeAt = 0`, and the clock starts at 1.

**RequestProcessor.** `requests` and `m_queue` are the connections' queues and the heap (how often
a connection is in it). The tags are abstracted to `due`: whose reservation has passed; a
connection that is not due may be pulled early, as the limit tag allows, or not. A data request
weighs one unit of the byte limit, a clean-up none. `holder` is the thread that is inside
`processPossible` with the heap's mutex.

**ServerRooms.** `rooms[kind][account]` is the owner in each manager's table; a room is named by
its kind and owner, because one connection creates at most one room of a kind. `viewers`,
`autoPub` (the last message about publishing sent to the owner), `target` (`m_targetUserId`). A
connection is `open`, `closing` (`disconnect()` called or the peer lost; its pending requests are
still handled) or `gone` (cleaned up). `pc` and `left` split the handlers that touch several
rooms (login, its roll-back, the clean-up of a guard) and `handleResponse` (find the room, add
the viewer) into their critical sections, so handlers of different connections interleave.
The asserts of the handlers and the null pointers they may meet end the process: `fault` says how.

**TCPServer.** A connection is followed from `accept` to its erasure. `stage` says how far
`Server::addConnection` has come with it, `loop` where its event loop is in `handleEvents` and with which
events, `sender` where each sending thread is in `UserConnection::send`, `server` and `todo` where `close()` is;
what the code does under `Connection::m_lock` or `Server::m_lock` is one step, a callback is another.
`con` holds the fields of `Connection`; `pollIn` and `pollOut` are the events it asks of epoll. `sock` is the
kernel: it takes `room` bytes until the peer reads. Bytes are the numbers in the order in which they
were handed to `send()` (`submitted`), so what the peer gets (`wire`) can be compared with them. User data and
callbacks are set on the acceptor thread, as in the code. `ServerBase::exec`, which once a minute disconnects who has not logged in, copies
the set of connections under the lock and then walks through the original without it (`ServerBase.cpp:91` to 99): when a
connection is added or removed meanwhile, that is undefined, and the process may end (`crash` = "race").

**Accounts.** `accounts` is the table `user`, `statuses` is `m_statuses` with both counts of an entry,
`lastTime` and `counter` are the static variables of `generateUserID`. A login is decided by `Login`
and ends with `Bind`; a manager's block enters the entry and leaves its target in `kicking` until
`KickOut`. An id is the pair of the time and the counter it is built from. `issued`, `failures`, `blocks`
and `raced` are history. `Window` is `fillForTime` for windows in ticks.

**FileTransmission.** One transfer, as up to `MaxTasks` tasks for the same file. `task`, `live`, `queue`, `exec` and `row` are
the viewer's `TaskPrivate` objects, `m_tasks`, `m_queuedLocalTasks`, the task its thread has popped, and the
rows of the data base; `obj`, `table`, `gqueue` and `gheld` the same at the guard, where each `OpenFile` makes an
object under the task's id, so that an old object and its successor are told apart. `io` is what the thread
that handled an answer has still to do (`writeRemoteFileBlock`, the next request). `file` is the copy, the
blocks written so far; the modes `wb`, `ab`, `rb` of `initIO` decide what opening and writing do to it. A block that
was lost on its way, a write the disk refused, a restart of the viewer whose row is older than the copy enter
`torn`: after these the code promises nothing and `FileCopy` neither.

**GuardSession.** `con`, `closing`, `gone` are the states of the connection between `Client::connect`, `disconnect`,
`disconnect0` and the callback; `timer` is where the thread of `connectionCheck` is between its look at the
flags and its call; `alive` says that the guard's process has not ended; `buffer` says whether `m_buffer` holds a frame boundary, half of a frame, half of a frame of
a connection that is no more, or a length no frame has. `Send` is `Connection::send`: it puts the message on the
connection or finds no connection; on one that `disconnect()` has shut down, or whose other side is gone, SIGPIPE may
end the guard, as it does the server in `TCPServer`. `server`, `room`, `ghosts` are the server's side: the connection
and whether it has logged in, the account's room, and sessions not cleaned up yet (`ServerRooms` has them in
detail). A failed assert of the server is a restart of the server.

**TerminalManager.** `item` follows a terminal from `epoll_ctl` to its destruction. The IO thread (`io`) and `exec`
(`watcher`) take turns at the points where the code gives up or waits for `m_mutex`: `ManagerLocked` is the time during
which `writeCommand` has it. `batch` are the items `epoll_wait` has returned and `exec` has not looked at; one that is
destroyed meanwhile is touched all the same (`TouchFreed`), which is undefined: the guard goes on or ends (`alive`).

**ScreenGuard.** `subscribers`, `directKey`, `stopped`, `forced` are `m_subscribers`, `m_aesDirect`, `m_stopped`, `m_forKeyFrame`;
`frame` is a frame between the encoder and the section that encrypts it. `viewerKey`, `sharp`, `misread` record what
the server's viewers can do with what they get.

## 3. Runs

| Run | Question | Bounds |
|---|---|---|
| `rwlock` | exact counts, refinement (so exclusion), does a writer get in | 3 threads, all four operations |
| `tasks` | double answers, lost or duplicated items, leaks, early timeouts, refinement | 2 tasks, 2 workers, 2 responders, 4 ticks |
| `tasks_live` | are all visits settled, does `exit` end | 2 tasks, 1 worker, 1 responder, start times before and after the deadline |
| `processor` | order, loss, duplication, sleep over work, is all handled, does `exit` end | 2 connections, 3 requests, limit 2 |
| `rooms` | publishing follows viewers, ghosts, orphan terminals, viewers of closed rooms | 2 accounts, 2 guard connections of one account (screen and terminals), 2 visitors |
| `rooms_overlap` | what can go wrong when guard connections of one account overlap; uniqueness of viewers | the same with files, both visitors of one account, `Overlap` |
| `rooms_clean_assert` | violated: see 5 | screen and files, `Overlap` |
| `net` | the bytes arrive in order and all of them, tables are left, `close()` ends | one connection, 2 senders, 3 buffers of 1 or 2 bytes, a limit of 3 pending bytes, a socket that takes 1 byte; resets, disconnects and `close()` at any step |
| `net_early_loss` | violated: see 5 | the same |
| `accounts` | repeated ids, lost failures, who stays logged in | one connection, account name and address; 3 ticks, windows of 1 and 2; 2 failures, 3 ids (two in a tick), one block at a time |
| `files` | does the copy grow as promised and is it complete when reported so; does every active task stay watched; who evicts a task of the guard | one file of 2 blocks, 2 tasks, 1 resumption, 1 mishap (lost connection, restart of either side, failed file operation); up- and download |
| `client` | does the guard log in again; are ended terminals closed, once; when does a write hang; do viewers get keyframes they can read | per run of the guard one of: no ability and 2 faults; screen, 2 viewers, 2 subscriptions, 1 fault; 1 terminal and 1 fault; 2 terminals, 1 command, no fault |

Why these bounds are enough. The hazards of the lock need a reader and a writer and one more of
either. Those of the task manager are between one worker, another worker and one response on
one task; the second task exists to be at the heap's front. Those of a heap are between its two
threads on one connection, and a second connection that comes first or keeps the heap
non-empty. Those of the rooms are between a guard, its successor, and two visitors of the same
room. Those of a connection are between its own threads; the two senders exist because the
second one finds a list that the first one left non-empty. Those of the accounts need a window to
end between two failures, the counter of a millisecond to be exhausted and used again, and a block
to meet a login; a second connection would share nothing with the first but the tables, on which a
connection that leaves and returns does the same. Those of a transfer need a stop, a resumption and a loss between
two blocks, and a second task that meets what the first one left; three tasks, which are too many for a run, bring up what 5 says of answers that
come late. `files` has a `VIEW` that takes states for one when
they differ in a removed task that nobody looks at any more, or in what tore the copy: no step and no property tells these apart. The
abilities of a guard share its connection and thread only, so each is
checked with the session alone (`Scopes`); two terminals are what a write and a close that wait for each other need. With a fault
and two terminals together (1.5 million states) the invariants hold too. State counts: `files` 1.9 million, `client` 207 thousand with
six properties, four of them liveness. The proofs (4) lift the bounds for every invariant a run checks and for
the refinements; the bounds remain for the liveness properties.

`Overlap = FALSE` restricts the environment, not the code: a guard's second connection logs in
only after the first one is cleaned up. It separates the properties the code ensures for one
guard connection per account from those it ensures always.

### Fairness

* `ReadWriteLock`: weak fairness of each thread's own steps. A spinning thread re-reads; a thread
  that holds the lock leaves it, because the critical sections of `SharingRoomManager` are finite
  map operations. Calling the lock is not fair.
* `TaskManager`: weak fairness of each worker, each handler that has begun, `notify_all` after
  `m_exit = true`, and time. Guards need not answer and visitors need not ask.
* `RequestProcessor`: weak fairness of the IO thread inside `push` and of `exit`; strong fairness of
  the worker, which competes for the mutex, and of a tag's passing. The assumption that the
  mutex is granted infinitely often is the usual one for `std::mutex` between pushes.
* `ServerRooms`: weak fairness of the handlers once begun and of the clean-up of a connection that
  is closing (`CleanUserConnection` was accepted by `pushRequest`). Clients are not fair.
* `TCPServer`: weak fairness of every thread's steps once it has begun (the loop goes on with what it
  handles and is told of what epoll level-triggers; the acceptor, `send()` and `close()` go on). Nobody must send, close or disconnect; that all bytes arrive is stated for a peer that
  keeps reading.
* `Accounts`, `FileTransmission`: no liveness is stated. That each transfer ends holds with one task; with two its
  check is too long for a run.
* `GuardClient`: weak fairness of the timer, the IO thread, the capturer, `exec` and the server's threads, and of the loss
  of a connection that was shut down or whose other side is gone: both sides set a linger time of 0
  (`Guard.cpp:142`, `ServerBase.cpp:16`), so that closing resets the connection and the other side's epoll reports the
  error. Strong fairness of a blocked `::write` to a terminal: a program that reads its input whenever nobody
  keeps it waiting with its output. Programs, users and faults are not fair.

## 4. Proofs

Each component has a module of theorems that hold for all values of the constants under the assumptions its module
states; every invariant of a passing run is one of them. The assumptions: finite threads and known operations; `NoTask` is
no task; bounds are naturals; in `TCPServer` buffers are not empty and the socket takes at least one byte; in `Accounts` an hour
is a whole number of minutes, somebody has a name, and more than one failure is allowed (the code's constants are 60
minutes and 5 failures or more); in `ServerRooms` guards and visitors are different connections. The four theorems of
`ServerRoomsProofs` whose names end in `Alone` have the hypothesis `~Overlap` (one guard connection per
account at a time): `rooms_clean_assert` shows that it is needed.

**Lock.** The inductive invariant is `TypeOK`, `CountsExact` and `Exclusion` together. `CountsExact` says
that each counter is the cardinality of a set of threads (those at certain program points), so a
counter read as 0 says that nobody is there; `Exclusion` alone is not inductive, because that a
reader may enter when it reads `m_write = 0` rests on what the counter counts. Refinement: every
atomic step is a step of `AbstractRWLock` or leaves readers and writers alone.

**Task manager.** `TypeOK` first. The inductive invariant then says who may have an item: heap,
one worker, or nobody, according to the program points (`OneOwner`); that what is in the map is
in one of these places (`NoMapLeak`); that `destroyed` and `outcome` agree except between the
settling and the destroying step, where the task's mutex is held; that a claimed task has
`destroyed` set and no outcome, and is claimed once. From it follow `NotForgotten` and the step
simulation of `AsyncTask`. `TimeoutNotEarly` is about a clock that was read before the locks were taken: `Late` says that a worker's `now` is
never ahead of `clock`, and that at `timeout_lock` and `timeout` the item's deadline has passed for good, because it never
moves.

**Request processor.** `QueueMatches` and `InOrder` carry themselves: a connection enters the heap with its
first request and leaves it with its last, and each step appends to one end of `handled \o requests`
or moves its middle. `NoLostWakeUp` is not inductive, because it says nothing of the time between
`push` entering a connection and notifying. `Awake` adds it: while the IO thread is inside `push`, a heap
that is not empty although the worker waits was found empty by this push (`emptied`), which is when
`push` notifies; and the worker holds the mutex only outside its wait.

**Rooms.** The properties relate a guard's view of its rooms, the tables, the viewers and what each task manager's
visit has reached, so the invariant is built in layers. `Types`. `Owning`: a room in a table belongs to a guard of that account
and kind that has logged in (or is inside its login) and is not cleaned up, which gives `RoomHasOwner`. `Answering`: a task asks the
guard whose room was found, and a consent being handled is for the room that was found under the lock, perhaps no longer in
the table. `Viewing`: a viewer of a room has this room's owner as its `target`, so one of an account's two visitors is refused, and a
viewer that is cleaned up was added afterwards (`late`). `Keeping`: as long as no login has failed (`Failed`), a guard that is served keeps
the rooms its handlers take for granted; `AssertsNeedFailedLogin` follows. None of these needs the guards of an account to keep apart. `Single` does: with `Lone` and
`ApartAt` at most one guard of an account is neither closed nor new, so that the removal of rooms by id hits the remover's
own. From it follow `AssertsHoldAlone`, `NoViewerLeftBehind` and `AutoPublishMatches`; `TerminalHasViewer` needs `Tended` in addition, that
an open terminal has its viewer or the handler that is about to add it, `Keeping`, and `Cleaning`: a visitor that is gone and still
counts as a viewer of a served guard came late (`GhostsComeLate`), since a clean-up leaves no terminal of its visitor open.

**Connections.** `StreamIntact` is about prefixes; its invariant is an equation. `Queue` says of every connection that is still connected that what the kernel took, followed by the
flattened list of tasks, is what was submitted, and that `pending` is the length of the second part; that a connection
which is not connected has no tasks; that the loop is about to pop a task only when its buffer is used up. `FlattenSeq` is a fold, and what it does
at either end of a list is proved without induction theorems: `FlattenSeq` is the last of a chain of concatenations, and two chains that
differed would differ at a least place (`LeastNumber`, from the well-foundedness of inclusion). `OnlyEarlyLossHurts` is not inductive, since an assert that fails depends on how far
the acceptor and the loop have come: `Tabled` says for each pair of their places what the two tables hold, as long as nobody was lost early.

**Accounts.** `IdsDiffer` rests on `Remembered`: until the counter of a millisecond wraps, no id was issued later than (`lastTime`,
`counter`). `BlockedStaysOut` rests on `BlockListed` (a block in the database is in `m_statuses` with the time it ends) and `KeptOut` (a
session that is in, and whom a block names, was decided before the kick-out). `FailuresBlock` rests on `Counting`: the counters are those of the
current windows, which nest because an hour is whole minutes, so the counter of the hour is never behind that of the minute, and a
counter at its limit has left a block that lasts as long.

**File transmission.** `ActiveIsQueued` carries itself once the handlers' tasks have their types: each place that makes a task
wait or prepare also queues it, and `exec` puts back what it took out unless the task has ended. `EvictedOnlyOvertaken` is
a property of each step, from the types alone: only a request, `Restart` and the guard's `exec` change `m_tasks`. `Shape` is the
part of `TypeOK` that both need; it leaves out the bounds of the blocks, which rest on the copying itself, and the guard's objects.

**The copy.** `ImplementsCopy` says that a transfer is a file copy, block by block and in order, in all orders of stopping, resuming,
overwriting and losing connections. Neither the file nor the tasks say why: answers and blocks name a task and a position, a task keeps its
name when it is resumed, and what is still on its way for its last conversation must not be taken for a part of the new one.
The inductive invariant `Sound` is, as long as nothing is torn, the conjunction of two parts.

* `Conversation` is about the messages. The answers on their way and the requests behind them are one channel, because the guard answers
  a request in its place. What belongs to a task's last conversation is ahead of the opening of the next one
  (`OpeningLast`); openings are in the order of the tasks (`OpeningsInOrder`), and while one is on its way no task from it on
  transmits (`NoneSends`) or, when it empties the copy, has a position (`EmptyFirst`); a task that waits is started before newer ones (`Line`), and
  exec has not come to those yet (`Idle` in `Starting`); the task in `m_tasks` is the newest, and its row agrees with it (`Current`).
* `Copying` is about the file. A download that has opened its copy has as many blocks as its progress says (`DownloadFits`), and asks
  for one block at a time, at that position (`OneRead`). An upload has at most one block on its way to the guard, and it is the
  next one (`OneBlock`); the progress counts the blocks of the copy and this one (`UploadFits`); its answer is the
  only one (`OneAnswer`); no older task has the thread of the answers once one that may write is known to the guard
  (`HandsOff`); an opening that may empty the copy is never ahead of a block that is still to be written (`SentFirst`).

Each half needs the other only in one direction: the conversation is kept by every step whatever the file holds (`ConversationStep`), and
the copy is kept given the conversation before and after the step, once for downloads and once for uploads (`DownloadStep`,
`UploadStep`). Most steps are `Routine`: they put nothing into the channel but a `Close` or an answer in the place of its request
(`Calm`), move no task except to its end, and let none get ahead of one that waits. One lemma per conjunct shows that such a step
keeps the conversation; adding, overwriting, resuming, starting and opening a task, asking for a block and sending one, and a restart of the viewer each
have a lemma of their own. With `Sound` the simulation is by cases (`CopyStep`): the opening of a file is `Create`, `Empty` or a stutter, a block
that arrives or is written is `Extend`, the end of the file `Finish`, everything else `Ask`; a step that tears is `Damage`, and after it
nothing is promised. `torn` names the ways in which the code does lose blocks (5): the theorem says that there is no other.
Two of them need more tasks than a run explores, and are in the model because the invariant failed without them.

**Guard.** `FreedOnce` says nothing of the thread that has taken an item out of `m_items` and has yet to destroy it.
`IInv` adds `IoOwns` and `WatcherOwns`: of the IO thread and `exec` at most one is about to destroy an item, which is
then "claimed", and an item is claimed only from "listed", under `m_mutex`. It also says of the server's messages
that none is a point inside a handler, so that a frame never starts the IO thread in the middle of one. `FramesReadable` rests
on `KInv`: while the server has a viewer (`Seen`), or the answer that makes one is under way (`Coming`), the guard has a subscriber and
hence keeps its key, and the frames behind that answer are under it; the guard forgets its
subscribers only when the connection is lost, and then the server has no viewer and nothing is under way (`Ends2`). `Calm`
covers the steps that add no viewer, `Subscribes` the one that makes a key.

Only model-checked: the liveness properties (`WriterGetsIn`, `EventuallySettled`, both `ExitEnds`, `AllHandled`,
`ViewersFollow`, `AllSent`, `CloseEnds`, `LogsInAgain`, `EndedTerminalsGo`, `HangsOnlyTogether`, `KeyframeComes`), which are outside
the prover's logic: they rest on fairness or say of an infinite behaviour what it comes to; of `FileTransmission`'s `TypeOK` what
`Shape` leaves out; and `TypeOK` of the guard. `TypeOK` is checked by a run only in `net`, where it says that the byte count, of which the
code asserts it, is never negative.

## 5. Findings

* **A failed login removes the rooms of the guard that is being served** (`rooms_clean_assert`). `RequestLogin` answers a second guard of the account with an error, but
  its roll-back removes the account's rooms by id. The first guard's handlers assert that their
  room exists (`ApplicationServer.cpp:71`, `PublishScreenFrameHandler.cpp:37`); no `.pro` file
  defines `NDEBUG`, so the server aborts. `rooms_overlap` shows that nothing else makes them fail.
* **A connection that is lost early fails an assert** (`net_early_loss`). The constructor of `Connection` puts the socket into the
  event loop; callbacks and user data are set afterwards on the acceptor thread. A reset in between is
  reported to nobody, or to an `onDisconnected` that asserts user data nobody has bound
  (`ServerBase.cpp:35`); a connection that `onConnected` itself refuses ends the same way. `net` shows
  that every connection not lost so early is reported, erased and waited for.

Properties that state a weakness exactly, instead of failing: `GhostsComeLate` (a consent handled after the visitor's clean-up leaves a viewer that
nobody removes), `TerminalHasViewer` (the same consent leaves a terminal that the server never closes; it ends with its
program), the premise of `ExitEnds` of the request processor (`Heap::exit` notifies without
the mutex, and a worker just before its wait sleeps on). `fault` also reaches `null_cipher` (a room is
visible before its owner has a cipher, `RequestLoginHandler.cpp:151`) and `null_room` (a file request
after the room was removed, `UsualRequestHandler.h:118`); nothing in the repository says otherwise,
so no property is stated about them. `IdsDiffer` allows the ids that repeat after the counter of a
millisecond was exhausted (`AccountManager.cpp:310` borrows the next millisecond and does not remember
it), and `BlockedStaysOut` the login that was decided before the kick-out and bound after it.

`LogsInAgain` names the four things that keep a guard out: half a frame of a lost connection in the buffer
(`Guard.cpp:158` does not clear it; the login's answer completes it and is swallowed, or a length above the limit stays at
its front for good, and every later connection is closed at the first byte); a terminal that has survived
its session and whose output overtakes the login, for which the server disconnects the guard, again and
again while the program prints; a write to a terminal that hangs; the end of the guard's process. The last comes of a send between
`disconnect()`, which shuts the socket down, and `disconnect0`, which clears `m_connected`: `Connection::send` looks at the flag
alone (`EasyIOTCPConnection_linux.cpp:137`), and the SIGPIPE is not ignored. A refused login is such a case: it clears `m_loggingIn`
(`Guard.cpp:240`), `onLoginFailed` disconnects, and the timer, which sees a connection that is neither logged in nor
logging in, logs in before the loop has run; output that `exec` publishes and frames of the capturer meet the same window. The other
way it ends is `exec`'s use of a freed item. The premises of `EndedTerminalsGo` and `KeyframeComes` say the same (`[]alive`). `HangsOnlyTogether` is exact about the last: the IO thread
holds `m_mutex` in `::write` to one terminal, whose program waits for its output to be read by `exec`, which waits for
`m_mutex` to close another one. Without the third thread that ends the first program, this is for good.
`ImplementsCopy` excuses a copy that was `torn`: an upload stopped, or cut off, while a block was on its way and resumed
with the user's consent appends behind the missing block and ends FINISHED (`FileTransmission.cpp:302`); a
refused `fwrite` is answered like a successful one (line 1034); a viewer that restarts resumes at its last row, and
appends what the file has already (line 972); a task that timed out and is resumed takes the late answer to its first opening for the answer to
the second (line 343 looks at the state only, and answers name the task only), or its new opening overtakes a block that the thread of the answers has in
hand, so that the blocks of two conversations mix; a removed task that was twice in the queue (`removeTask` takes out one entry) is started all
the same, finds the copy, and the user's consent adds a second task beside the one of now. The last two kinds need three tasks and more resumptions than
`files` explores; they were found on the way to a proof (4). `EvictedOnlyOvertaken` allows the guard's thread to remove, by id, a newer
object than the one it has given up (line 757).

Steps of the models that are as the code has them and surprise a reader:

* `TCPServer`, `GuardSession`: `send()` after `disconnect()` writes to a socket that is shut down, and SIGPIPE, which
  nothing ignores, ends the process, the server's or the guard's; a peer that closes in order is not noticed (`recv` returns 0).
* `Accounts`: the handler of the disable request enables the account, and no handler disables one.
  Blocking an account enters it under the type of an address (`BlackList.cpp:81`); listing the addresses
  then throws where nobody catches, and listing the accounts does not show it. Deleting an account
  kicks its users out only if the deletion failed, and then by an address that is the account's name.
  Adding an account does not ask whether the name is taken.
* `TaskManager`: the condition under which `dispatch` wakes a worker (`TaskManager.cpp:82`) compares the new item with the
  front of the heap it is in already, and is never true; a new visit waits for the worker's next look.
* `TerminalManager`: `exec` uses items that `closeTerminal` on the IO thread may have destroyed since `epoll_wait`
  returned them; a kick-out may reach the server before the answer that creates its viewer, and is then
  ignored, so that the viewer watches a terminal that is no more.
* `FileTransmission`: `removeTask` takes one entry out of the queue and tells the guard nothing, whose task ends by
  its time-out.

## 6. Not modelled, and abstractions

* Message contents, encryption, passwords, logging. A guard answers a request it was sent; a
  stranger that guesses task ids and certificates is not an environment considered here.
* One login and one visit per connection (`RequestLogin` rejects a second login; a connection
  that visits again only adds runs of the same handlers).
* The callbacks of a screen room are set right after its creation; the model does both at once.
* Each adding or removing of a viewer and its callback is one step: both run under the room's
  recursive mutex.
* `RequestProcessor` follows one heap and one IO thread. `recv` inside `onConnected` (`ServerBase.cpp:28`) may read a
  connection's first data on the acceptor's thread, which handles it on the spot or, since heaps go by thread, leaves it to a heap
  of its own, whose mutex is not the IO thread's. A new connection's reservation is half a second behind (`UserConnection.cpp:49`) and our
  clients send one login first, which is handled on the spot; a client that sends much at once is outside the model.
* `GuardClient` says nothing of what follows the end of the guard's process; in `TCPServer` a process that has crashed
  does nothing any more.
* `FileTransmission`: `resumeTask` sets the state under the task's mutex (`FileTransmission.cpp:326`) and appends to the queue under
  the scheduler's (332); the model has one step. Clicks come from one thread, so only `exec` and the thread of the answers can
  look in between; neither looks for an entry, and what they do to the task they do as well once it is appended. Between the two
  the task is not in the queue yet, so `ActiveIsQueued` speaks of it from the second section on.
* `TCPServer` follows one connection; connections of one loop thread only delay each other. `ByteBuffer` is a
  sequential container; frames are cut out of the stream in `GuardSession` (whole, in two parts, or garbled), not in the server's models.
* `FileTransmission`: browsing, creating, renaming and deleting of files and directories, the
  progress and speed shown. Two file windows at once: `FileTransmissionViewer.cpp:808` to 894 lack the check for the
  window's own partner that the other callbacks make, so each request goes to both; the model has one window.
* `GuardClient`: one server and one guard in the process (a change of server in the user interface leaves the shared
  capturer running, and its next frame finds no key, `ScreenGuardAbility.cpp:640`); resizing, input
  events, cursor and clipboard, which change no state of the guard; the Windows half, whose
  `exec` publishes output under `m_mutex` while `createTerminal` takes the two mutexes in the other order (the mutant of
  `HangsOnlyTogether` shows what that leads to); the viewers' windows, which connect once.
* The management console sends one request and waits for its answer: its commands are the inputs of `Accounts`.
* `Accounts` counts time from one clock that does not go back; that ids are built from local time,
  which does once a year, is outside it. Passwords are right or wrong. A time read just before the
  mutex is taken is taken as that of the critical section.
* User interface, start-up, logger, cryptology wrappers, vendored code, the Windows half and UDP
  of the network library: no concurrent state of their own, or not on the path of the server.

## 7. Plan

Done: the lock, the task manager, the request processor, the rooms, the server's connections, the
accounts, file transmission, the guard's session, terminals and screen; a theorem for each invariant, action property and refinement the runs
check. Left, in this order:

1. `TypeOK` of the guard and the rest of `TypeOK` of the file transmission as theorems.
2. Several guards in one process, with the capturer they share; two file windows.
3. `RecursiveReadWriteLock`, which nothing uses yet, as operations of `ReadWriteLock`.
