-------------------------- MODULE FileTransmission --------------------------
(***************************************************************************)
(* The transfer of one file between a viewer and a guard.  Both processes  *)
(* run a FileTransmission::TaskScheduler: the viewer's holds the tasks the *)
(* user added (starter SELF), the guard's those the viewer's OpenFile      *)
(* requests opened (starter PARTNER).  The viewer asks for one block after *)
(* the other (download, READ) or sends one after the other (upload,        *)
(* WRITE); the server passes the messages on in order (RequestProcessor).  *)
(*                                                                         *)
(* Viewer: the user's clicks, the thread that handles the answers (`io`    *)
(* is what it has still to do for the last one) and TaskScheduler::exec.   *)
(* Guard: the thread that handles the requests, and exec.  A step is a     *)
(* critical section of a task's mutex or of m_mutex; what two sections do  *)
(* to nothing another thread looks at is one step.                         *)
(*                                                                         *)
(* Bounds: N blocks of BLOCK_SIZE; MaxTasks tasks, added one at a time;    *)
(* MaxResumes resumptions; MaxMishaps lost connections, restarts of the    *)
(* viewer or of the guard, and failed file operations.                     *)
(***************************************************************************)
EXTENDS Naturals, Sequences, SequencesExt

CONSTANTS N, MaxTasks, MaxResumes, MaxMishaps

ASSUME Bounds == {N, MaxTasks, MaxResumes, MaxMishaps} \subseteq Nat /\ N > 0 /\ MaxTasks > 0

Ids  == 1..MaxTasks
\* Every start of a task opens the file at the guard once.
Objs == 1..(MaxTasks + MaxResumes)
Active == {"PREPARING", "TRANSMITTING"}
States == Active \cup {"WAITING_FOR_START", "STOPED", "FINISHED", "FAILED"}
Modes  == {"closed", "rb", "wb", "ab"}

VARIABLES
  action,   \* "READ" or "WRITE", Task::action of every task
  file,     \* the copy: <<>> if there is none, or <<its blocks>>; a hole is block 0
  \* the viewer's scheduler
  task,     \* the tasks; state "none" before the task is added
  live,     \* m_tasks
  queue,    \* m_queuedLocalTasks
  exec,     \* the task exec is starting, or 0
  io,       \* what is left to do for the last answer
  row,      \* the rows of the data base
  asked,    \* the tasks the user is asked to overwrite the copy for
  \* the connection
  online, up, down,
  \* the guard's scheduler
  obj,      \* the tasks; id 0 before the task is opened
  table,    \* m_tasks: the object of each id, or 0
  gqueue,   \* m_queuedLocalTasks
  gheld,    \* the object exec has taken, or 0
  \* bounds and history
  resumes, mishaps,
  torn      \* what has happened that the copy may not survive

viewer == <<task, live, queue, exec, io, row, asked>>
net    == <<online, up, down>>
guard  == <<obj, table, gqueue, gheld>>
bounds == <<resumes, mishaps>>
vars   == <<action, file, viewer, net, guard, bounds, torn>>

NoTask == [state |-> "none", progress |-> 0, fp |-> "closed", force |-> FALSE]
NoRow  == [state |-> "none", progress |-> 0]
NoObj  == [id |-> 0, state |-> "none", fp |-> "closed"]
NoIO   == [do |-> "none", id |-> 0, seek |-> 0]

Init ==
  /\ action \in {"READ", "WRITE"} /\ file = <<>>
  /\ task = [i \in Ids |-> NoTask] /\ live = {} /\ queue = <<>>
  /\ exec = 0 /\ io = NoIO
  /\ row = [i \in Ids |-> NoRow] /\ asked = {}
  /\ online = TRUE /\ up = <<>> /\ down = <<>>
  /\ obj = [o \in Objs |-> NoObj] /\ table = [i \in Ids |-> 0] /\ gqueue = <<>> /\ gheld = 0
  /\ resumes = 0 /\ mishaps = 0 /\ torn = {}

-----------------------------------------------------------------------------
\* Files.

Downloads == action = "READ"
\* Blocks are counted from 0 in the messages: block s + 1 is read and written at s.
Padded(content, s) ==
  [i \in 1..(IF Len(content) > s THEN Len(content) ELSE s + 1) |->
     IF i = s + 1 THEN s + 1 ELSE IF i <= Len(content) THEN content[i] ELSE 0]
\* fwrite after fsetpos: a file opened with "ab" is written at its end wherever the position is.
Put(mode, s) == <<IF mode = "ab" THEN Append(file[1], s + 1) ELSE Padded(file[1], s)>>
FileOk == mishaps' = mishaps
Mishap == mishaps < MaxMishaps /\ mishaps' = mishaps + 1

\* A mutant: a transfer that goes on truncates what there is of the copy.
InitIOTruncates(writes, fp, progress, force) ==
  IF fp # "closed" THEN [err |-> "none", fp |-> fp, file |-> file]
  ELSE IF ~writes THEN [err |-> "none", fp |-> "rb", file |-> file]
  ELSE IF ~force /\ file # <<>> THEN [err |-> "exists", fp |-> "closed", file |-> file]
  ELSE [err |-> "none", fp |-> "wb", file |-> <<<<>>>>]

\* TaskPrivate::initIO. writes: does this side write the copy?
InitIO(writes, fp, progress, force) ==
  IF fp # "closed" THEN [err |-> "none", fp |-> fp, file |-> file]
  ELSE IF ~writes THEN [err |-> "none", fp |-> "rb", file |-> file]
  ELSE IF ~force /\ file # <<>> THEN [err |-> "exists", fp |-> "closed", file |-> file]
  ELSE IF progress > 0 THEN [err |-> "none", fp |-> "ab", file |-> IF file = <<>> THEN <<<<>>>> ELSE file]
  ELSE [err |-> "none", fp |-> "wb", file |-> <<<<>>>>]
\* fopen fails.
InitIOFails(fp) == fp = "closed" /\ Mishap

-----------------------------------------------------------------------------
\* The viewer's scheduler.

\* The viewer's callbacks send; nobody is subscribed when its window is closed.
Send(m) == up' = IF online THEN Append(up, m) ELSE up
Open(i, seek, force) == [kind |-> "Open", id |-> i, seek |-> seek, force |-> force]
Request(k, i, seek)  == [kind |-> k, id |-> i, seek |-> seek]
Close(i)             == [kind |-> "Close", id |-> i]

\* flushTaskProgress: an update, of no effect when the row is gone.
Flushed(i, t) == [row EXCEPT ![i] = IF @ = NoRow THEN @ ELSE [state |-> t.state, progress |-> t.progress]]
\* notifyTaskStateChanged after the task became t
Become(i, t) == task' = [task EXCEPT ![i] = t] /\ row' = Flushed(i, t)
\* The error's dialog is shown by the viewer's window.
Asking(i, err) == asked' = IF err = "exists" /\ online THEN asked \cup {i} ELSE asked

WithoutFirst(q, T) ==
  LET hits == {n \in DOMAIN q : q[n] \in T}
  IN IF hits = {} THEN q ELSE RemoveAt(q, CHOOSE n \in hits : \A m \in hits : n <= m)

\* addTaskActively
Added(i, progress, force) ==
  LET t == [NoTask EXCEPT !.state = "WAITING_FOR_START", !.progress = progress, !.force = force]
  IN /\ task' = [task EXCEPT ![i] = t]
     /\ row' = [row EXCEPT ![i] = [state |-> t.state, progress |-> progress]]

Fresh == {i \in Ids : task[i] = NoTask /\ \A j \in Ids : j < i => task[j] # NoTask}

\* The user transmits the file: whenSelfTransmit, whenPartnerTransmit. The question of
\* overwriting is modal: a click that was under way may still stop or remove a task, but the
\* user adds none.
AddTask ==
  /\ online /\ live = {} /\ asked = {}
  /\ \E i \in Fresh : Added(i, 0, FALSE) /\ live' = {i} /\ queue' = Append(queue, i)
  /\ UNCHANGED <<action, file, exec, io, asked, net, guard, bounds, torn>>

\* removeTask, by the user; it tells the guard nothing.
RemoveTask(i) ==
  /\ i \in live
  /\ live' = live \ {i} /\ queue' = WithoutFirst(queue, {i})
  /\ row' = [row EXCEPT ![i] = NoRow]
  /\ UNCHANGED <<action, file, task, exec, io, asked, net, guard, bounds, torn>>

\* fileOverwriteConsent. A removed task asks too: exec may start it from a second entry of the
\* queue, and the consent then adds a task beside the one of now.
Overwrite(i) ==
  /\ i \in asked /\ asked' = asked \ {i}
  /\ \/ UNCHANGED <<task, live, queue, row, torn>>
     \/ \E j \in Fresh :
          /\ live' = (live \ {i}) \cup {j}
          /\ queue' = Append(WithoutFirst(queue, {i}), j)
          /\ task' = [task EXCEPT ![j] = [NoTask EXCEPT !.state = "WAITING_FOR_START",
                                            !.progress = task[i].progress, !.force = TRUE]]
          /\ row' = [row EXCEPT ![i] = NoRow,
                       ![j] = [state |-> "WAITING_FOR_START", progress |-> task[i].progress]]
          /\ torn' = IF i \in live THEN torn ELSE torn \cup {"removed"}
  /\ UNCHANGED <<action, file, exec, io, net, guard, bounds>>

\* stopTask
StopTask(i) ==
  /\ i \in live /\ task[i].state = "TRANSMITTING"
  /\ Become(i, [task[i] EXCEPT !.state = "STOPED"])
  /\ Send(Close(i))
  /\ UNCHANGED <<action, file, live, queue, exec, io, asked, online, down, guard, bounds, torn>>

\* resumeTask. The task is queued after its state has changed and without its mutex; only exec
\* may look at it in between, by an entry the queue has already, and entries are all alike.
ResumeTask(i) ==
  /\ i \in live /\ task[i].state = "STOPED"
  /\ resumes < MaxResumes /\ resumes' = resumes + 1
  /\ Become(i, [task[i] EXCEPT !.state = "WAITING_FOR_START"])
  /\ queue' = Append(queue, i)
  /\ UNCHANGED <<action, file, live, exec, io, asked, net, guard, mishaps, torn>>

-----------------------------------------------------------------------------
\* TaskScheduler::exec of the viewer

\* Popping a task, looking at it and pushing it back are one step: a task removed in between
\* stays in the queue as one removed before RemoteOpen does.
Popped(i) == exec = 0 /\ queue # <<>> /\ Head(queue) = i
\* A mutant: exec does not push a task back.
RequeuedNot == queue' = Tail(queue)
Requeued == queue' = Append(Tail(queue), Head(queue))

Start(i) ==
  /\ Popped(i) /\ task[i].state = "WAITING_FOR_START" /\ queue' = Tail(queue)
  /\ \/ LET r == InitIO(Downloads, task[i].fp, task[i].progress, task[i].force)
        IN /\ FileOk /\ file' = r.file
           /\ IF r.err = "none"
              THEN /\ Become(i, [task[i] EXCEPT !.state = "PREPARING", !.fp = r.fp])
                   /\ exec' = i /\ UNCHANGED asked
              ELSE /\ Become(i, [task[i] EXCEPT !.state = "FAILED"])
                   /\ exec' = exec /\ Asking(i, r.err)
     \/ /\ InitIOFails(task[i].fp) /\ Become(i, [task[i] EXCEPT !.state = "FAILED"])
        /\ UNCHANGED <<file, asked, exec>>
  /\ UNCHANGED <<action, live, io, net, guard, resumes, torn>>

\* notifyTaskRemoteOpenFile. It may overtake a request or a block that the thread of the answers
\* has in hand since before the task was stopped.
Overtakes(i) == online /\ io.id = i /\ io.do \in {"request", "write"}
RemoteOpen(i) ==
  /\ exec = i /\ exec' = 0
  /\ Send(Open(i, task[i].progress, task[i].force))
  /\ queue' = Append(queue, i)
  /\ torn' = IF Overtakes(i) THEN torn \cup {"twice"} ELSE torn
  /\ UNCHANGED <<action, file, task, live, io, row, asked, online, down, guard, bounds>>

Watch(i) ==
  /\ Popped(i) /\ task[i].state \in Active /\ Requeued
  /\ UNCHANGED <<action, file, task, live, exec, io, row, asked, net, guard, bounds, torn>>

\* ... and TIME_OUT seconds have passed without activity on the task
TimeOut(i) ==
  /\ Popped(i) /\ task[i].state \in Active /\ Requeued
  /\ Become(i, [task[i] EXCEPT !.state = "STOPED"])
  /\ UNCHANGED <<action, file, live, exec, io, asked, net, guard, bounds, torn>>

Drop(i) ==
  /\ Popped(i) /\ task[i].state \in {"STOPED", "FINISHED", "FAILED"} /\ queue' = Tail(queue)
  /\ UNCHANGED <<action, file, task, live, exec, io, row, asked, net, guard, bounds, torn>>

-----------------------------------------------------------------------------
\* The answers, on the thread of the viewer's connection.

Answer(kind, i) == io = NoIO /\ online /\ down # <<>> /\ Head(down).kind = kind /\ Head(down).id = i
Received == down' = Tail(down)
Later(do, i, seek) == io' = [do |-> do, id |-> i, seek |-> seek]

\* What the answer's task would be needed for, but it was removed or is in no state for it.
Unwanted ==
  /\ io = NoIO /\ online /\ down # <<>>
  /\ LET m == Head(down) IN
       \/ m.id \notin live
       \/ m.kind \in {"OpenOk", "OpenErr"} /\ task[m.id].state # "PREPARING"
       \/ m.kind \in {"ReadOk", "ReadErr", "WriteErr"} /\ task[m.id].state # "TRANSMITTING"
  /\ Received
  /\ UNCHANGED <<action, file, viewer, online, up, guard, bounds, torn>>

\* remoteSuccessOpenFile. A task that timed out and was resumed may take the answer to its last
\* opening for that to the new one, which is still to come.
Reopened(i) ==
  \/ exec = i
  \/ \E n \in DOMAIN up : up[n].kind = "Open" /\ up[n].id = i
  \/ \E n \in DOMAIN down \ {1} : down[n].kind \in {"OpenOk", "OpenErr"} /\ down[n].id = i
OpenSucceeded(i) ==
  /\ Answer("OpenOk", i) /\ i \in live /\ task[i].state = "PREPARING"
  /\ Become(i, [task[i] EXCEPT !.state = "TRANSMITTING"])
  /\ Later(IF Downloads THEN "request" ELSE "block", i, task[i].progress)
  /\ Received
  /\ torn' = IF Reopened(i) THEN torn \cup {"twice"} ELSE torn
  /\ UNCHANGED <<action, file, live, queue, exec, asked, online, up, guard, bounds>>

\* remoteFailureOpenFile. The viewer's own file stays open.
OpenFailed(i) ==
  /\ Answer("OpenErr", i) /\ i \in live /\ task[i].state = "PREPARING"
  /\ Become(i, [task[i] EXCEPT !.state = "FAILED"])
  /\ Asking(i, Head(down).err) /\ Received
  /\ UNCHANGED <<action, file, live, queue, exec, io, online, up, guard, bounds, torn>>

\* failureReadRemoteFileBlock, failureWriteRemoteFileBlock
TransferFailed(i) ==
  /\ Answer("ReadErr", i) \/ Answer("WriteErr", i)
  /\ i \in live /\ task[i].state = "TRANSMITTING"
  /\ Become(i, [task[i] EXCEPT !.fp = "closed",
                  !.state = IF Head(down).err = "eof" THEN "FINISHED" ELSE "FAILED"])
  /\ Send(Close(i)) /\ Received
  /\ UNCHANGED <<action, file, live, queue, exec, io, asked, online, guard, bounds, torn>>

\* notifyTaskProgressChanged writes the row once in PROGRESS_FLUSH_INTERVAL: RestartViewer
\* chooses which progress since the last change of the state it has.
Progressed(i, t) == task' = [task EXCEPT ![i] = t] /\ UNCHANGED row

\* successReadRemoteFileBlock: writeLocalFileBlock, and then the next request.
BlockArrived(i) ==
  /\ Answer("ReadOk", i) /\ i \in live /\ task[i].state = "TRANSMITTING"
  /\ LET t == task[i]
         s == Head(down).seek
     IN \/ /\ t.fp # "closed" /\ FileOk /\ file' = Put(t.fp, s)
           /\ Progressed(i, [t EXCEPT !.progress = s + 1])
           /\ Later("request", i, 0) /\ UNCHANGED up
        \/ \* fwrite fails: the file is closed, and no error is returned
           /\ t.fp # "closed" /\ Mishap /\ UNCHANGED file
           /\ Progressed(i, [t EXCEPT !.progress = s, !.fp = "closed"])
           /\ Later("request", i, 0) /\ UNCHANGED up
        \/ /\ t.fp = "closed" /\ UNCHANGED <<file, mishaps, io>>
           /\ Become(i, [t EXCEPT !.state = "FAILED"]) /\ Send(Close(i))
  /\ Received
  /\ UNCHANGED <<action, live, queue, exec, asked, online, guard, resumes, torn>>

\* notifyTaskRemoteReadFileBlock: it asks for the block at the progress of now.
RequestBlock ==
  /\ io.do = "request"
  /\ Send(Request("Read", io.id, task[io.id].progress)) /\ io' = NoIO
  /\ UNCHANGED <<action, file, task, live, queue, exec, row, asked, online, down, guard, bounds, torn>>

\* successWriteRemoteFileBlock
BlockTaken(i) ==
  /\ Answer("WriteOk", i) /\ i \in live
  /\ Progressed(i, task[i]) /\ Later("block", i, Head(down).seek) /\ Received
  /\ UNCHANGED <<action, file, live, queue, exec, asked, online, up, guard, bounds, torn>>

\* ... its readLocalFileBlock
ReadBlock ==
  /\ io.do = "block"
  /\ LET i == io.id
         t == task[i]
     IN \/ /\ t.state # "TRANSMITTING"
           /\ UNCHANGED <<task, row, up, mishaps>> /\ io' = NoIO
        \/ /\ t.state = "TRANSMITTING" /\ t.fp # "closed" /\ io.seek < N
           /\ task' = [task EXCEPT ![i] = [t EXCEPT !.progress = io.seek + 1]]
           /\ io' = [io EXCEPT !.do = "write"] /\ UNCHANGED <<row, up, mishaps>>
        \/ \* the end, a read error, or a file that was closed
           /\ t.state = "TRANSMITTING"
           /\ \/ t.fp # "closed" /\ io.seek >= N /\ FileOk
              \/ t.fp = "closed" /\ FileOk
              \/ t.fp # "closed" /\ io.seek < N /\ Mishap
           /\ Become(i, [t EXCEPT !.fp = "closed", !.progress = IF t.fp = "closed" THEN @ ELSE io.seek,
                           !.state = IF t.fp # "closed" /\ io.seek >= N THEN "FINISHED" ELSE "FAILED"])
           /\ Send(Close(i)) /\ io' = NoIO
  /\ UNCHANGED <<action, file, live, queue, exec, asked, online, down, guard, resumes, torn>>

\* ... and its notifyTaskRemoteWriteFileBlock
WriteBlock ==
  /\ io.do = "write"
  /\ Send(Request("Write", io.id, io.seek)) /\ io' = NoIO
  /\ torn' = IF online THEN torn ELSE torn \cup {"lost"}
  /\ UNCHANGED <<action, file, task, live, queue, exec, row, asked, online, down, guard, bounds>>

-----------------------------------------------------------------------------
\* The guard: FileTransmissionGuardAbility and its scheduler.

Asked(kind, i) == up # <<>> /\ Head(up).kind = kind /\ Head(up).id = i
Reply(m) == down' = Append(down, m)
Err(kind, i, err) == [kind |-> kind, id |-> i, err |-> err]
OfId(i) == {o \in Objs : obj[o].id = i}
\* ~TaskPrivate closes the file of an object that nothing refers to any more.
Kept(objs) == obj' = [o \in Objs |-> IF \/ \E i \in Ids : table'[i] = o
                                        \/ \E n \in DOMAIN gqueue' : gqueue'[n] = o
                                        \/ gheld' = o
                                     THEN objs[o] ELSE NoObj]
NewObj == CHOOSE o \in Objs : obj[o] = NoObj
\* removeTask of the guard: the first of that id in the list goes.
Forget(i) == table' = [table EXCEPT ![i] = 0] /\ gqueue' = WithoutFirst(gqueue, OfId(i))

\* handleCommandOfOpenFile: removeTask, addTaskPassively
HandleOpen(i) ==
  /\ Asked("Open", i) /\ up' = Tail(up)
  /\ LET m == Head(up)
         r == InitIO(~Downloads, "closed", m.seek, m.force)
         o == NewObj
     IN \/ /\ r.err = "none" /\ FileOk /\ file' = r.file
           /\ table' = [table EXCEPT ![i] = o]
           /\ gqueue' = Append(WithoutFirst(gqueue, OfId(i)), o)
           /\ gheld' = gheld
           /\ Kept([obj EXCEPT ![o] = [id |-> i, state |-> "TRANSMITTING", fp |-> r.fp]])
           /\ Reply(Request("OpenOk", i, m.seek))
        \/ /\ \/ r.err # "none" /\ FileOk /\ Reply(Err("OpenErr", i, r.err))
              \/ InitIOFails("closed") /\ Reply(Err("OpenErr", i, "failed"))
           /\ Forget(i) /\ gheld' = gheld /\ Kept(obj) /\ UNCHANGED file
  /\ UNCHANGED <<action, viewer, online, resumes, torn>>

\* handleCommandOfCloseFile
HandleClose(i) ==
  /\ Asked("Close", i) /\ up' = Tail(up) /\ Forget(i) /\ gheld' = gheld /\ Kept(obj)
  /\ UNCHANGED <<action, file, viewer, online, down, bounds, torn>>

Serves(i) == table[i] # 0 /\ obj[table[i]].state = "TRANSMITTING"

\* handleCommandOfReadFile, readLocalFileBlock. At the end the file is closed and the task stays.
HandleRead(i) ==
  /\ Asked("Read", i) /\ up' = Tail(up)
  /\ LET s == Head(up).seek
         o == table[i]
     IN \/ ~Serves(i) /\ Reply(Err("ReadErr", i, "failed")) /\ UNCHANGED <<obj, mishaps>>
        \/ /\ Serves(i) /\ obj[o].fp # "closed" /\ s < N /\ FileOk
           /\ Reply(Request("ReadOk", i, s)) /\ UNCHANGED obj
        \/ /\ Serves(i)
           /\ \/ obj[o].fp # "closed" /\ s >= N /\ FileOk /\ Reply(Err("ReadErr", i, "eof"))
              \/ obj[o].fp # "closed" /\ s < N /\ Mishap /\ Reply(Err("ReadErr", i, "failed"))
              \/ obj[o].fp = "closed" /\ FileOk /\ Reply(Err("ReadErr", i, "failed"))
           /\ obj' = [obj EXCEPT ![o].fp = "closed"]
  /\ UNCHANGED <<action, file, viewer, online, table, gqueue, gheld, resumes, torn>>

\* handleCommandOfWriteFile, writeLocalFileBlock
HandleWrite(i) ==
  /\ Asked("Write", i) /\ up' = Tail(up)
  /\ LET s == Head(up).seek
         o == table[i]
     IN \/ /\ ~Serves(i) /\ Reply(Err("WriteErr", i, "failed")) /\ torn' = torn \cup {"lost"}
           /\ UNCHANGED <<file, obj, mishaps>>
        \/ /\ Serves(i) /\ obj[o].fp # "closed" /\ FileOk /\ file' = Put(obj[o].fp, s)
           /\ Reply(Request("WriteOk", i, s + 1)) /\ UNCHANGED <<obj, torn>>
        \/ \* fwrite fails, and the viewer is told that the block is written
           /\ Serves(i) /\ obj[o].fp # "closed" /\ Mishap /\ UNCHANGED file
           /\ obj' = [obj EXCEPT ![o].fp = "closed"]
           /\ Reply(Request("WriteOk", i, s + 1)) /\ torn' = torn \cup {"disk"}
        \/ /\ Serves(i) /\ obj[o].fp = "closed" /\ UNCHANGED <<file, mishaps>>
           /\ obj' = [obj EXCEPT ![o].state = "FAILED"]
           /\ Reply(Err("WriteErr", i, "failed")) /\ torn' = torn \cup {"lost"}
  /\ UNCHANGED <<action, viewer, online, table, gqueue, gheld, resumes>>

\* TaskScheduler::exec of the guard
GuardTake ==
  /\ gheld = 0 /\ gqueue # <<>> /\ gheld' = Head(gqueue) /\ gqueue' = Tail(gqueue)
  /\ UNCHANGED <<action, file, viewer, net, obj, table, bounds, torn>>

GuardWatch ==
  /\ gheld # 0 /\ obj[gheld].state = "TRANSMITTING"
  /\ gqueue' = Append(gqueue, gheld) /\ gheld' = 0
  /\ UNCHANGED <<action, file, viewer, net, obj, table, bounds, torn>>

\* A mutant: the task that times out is dropped at once.
GuardTimeOutDrops ==
  /\ gheld # 0 /\ obj[gheld].state = "TRANSMITTING"
  /\ table' = [table EXCEPT ![obj[gheld].id] = 0] /\ gheld' = 0 /\ gqueue' = gqueue /\ Kept(obj)
  /\ UNCHANGED <<action, file, viewer, net, bounds, torn>>

GuardTimeOut ==
  /\ gheld # 0 /\ obj[gheld].state = "TRANSMITTING"
  /\ obj' = [obj EXCEPT ![gheld].state = "STOPED"]
  /\ gqueue' = Append(gqueue, gheld) /\ gheld' = 0
  /\ UNCHANGED <<action, file, viewer, net, table, bounds, torn>>

\* It drops what is at its end, and from m_tasks whatever has its id.
GuardDrop ==
  /\ gheld # 0 /\ obj[gheld].state # "TRANSMITTING"
  /\ table' = [table EXCEPT ![obj[gheld].id] = 0] /\ gheld' = 0 /\ gqueue' = gqueue /\ Kept(obj)
  /\ UNCHANGED <<action, file, viewer, net, bounds, torn>>

-----------------------------------------------------------------------------
\* What may happen to the connection and to the processes.

Writes(ms) == IF \E n \in DOMAIN ms : ms[n].kind = "Write" THEN {"lost"} ELSE {}

\* The viewer's connection is lost and its window closes. Requests that have reached the
\* server still reach the guard, answers that have not still find the next window.
Lost(causes) ==
  /\ online' = FALSE
  /\ \E n \in 0..Len(up) : /\ up' = SubSeq(up, 1, n)
                           /\ torn' = torn \cup causes \cup Writes(SubSeq(up, n + 1, Len(up)))
  /\ \E n \in 1..(Len(down) + 1) : down' = SubSeq(down, n, Len(down))

\* The user may close the window while the thread of the answers has one in hand.
LoseConnection ==
  /\ online /\ Mishap /\ Lost({})
  /\ UNCHANGED <<action, file, viewer, guard, resumes>>

\* The user opens the window again. ~FileTransmissionViewer has waited for that thread.
Reconnect ==
  /\ ~online /\ io = NoIO /\ online' = TRUE
  /\ UNCHANGED <<action, file, viewer, up, down, guard, bounds, torn>>

\* The server finds no viewer for an answer.
Unroutable ==
  /\ ~online /\ down # <<>> /\ down' = Tail(down)
  /\ UNCHANGED <<action, file, viewer, online, up, guard, bounds, torn>>

\* The viewer's process ends and starts again: loadTasks.
RestartViewer ==
  /\ Mishap /\ io' = NoIO
  /\ \E p \in [Ids -> 0..N] :
       LET rows == {i \in Ids : row[i] # NoRow}
       IN /\ \A i \in Ids : p[i] \in {row[i].progress} \cup
                              (IF i \in live THEN row[i].progress..task[i].progress ELSE {})
          /\ Lost({c \in {"lost"} : io.do = "write"} \cup {c \in {"stale"} : \E i \in live : p[i] # task[i].progress})
          /\ row' = [i \in Ids |-> [row[i] EXCEPT !.progress = p[i]]]
          /\ task' = [i \in Ids |->
               IF i \in rows
               THEN [NoTask EXCEPT !.progress = p[i],
                       !.state = IF row[i].state \in {"FINISHED", "FAILED"} THEN row[i].state ELSE "STOPED"]
               ELSE IF task[i] = NoTask THEN NoTask ELSE [NoTask EXCEPT !.state = "FAILED"]]
          /\ live' = rows
          /\ \E q \in [1..Cardinality(rows) -> rows] : \* in the order they were added
               /\ \A m, n \in DOMAIN q : m < n => q[m] < q[n]
               /\ queue' = q
  /\ exec' = 0 /\ asked' = {}
  /\ UNCHANGED <<action, file, guard, resumes>>

\* The guard's process ends and starts again; the server disconnects the viewers of its room.
\* What the thread of the answers has in hand reaches nobody, as if it were sent just before.
RestartGuard ==
  /\ Mishap /\ io = NoIO
  /\ online' = FALSE /\ up' = <<>> /\ down' = <<>> /\ torn' = torn \cup Writes(up)
  /\ obj' = [o \in Objs |-> NoObj] /\ table' = [i \in Ids |-> 0] /\ gqueue' = <<>> /\ gheld' = 0
  /\ UNCHANGED <<action, file, viewer, resumes>>

-----------------------------------------------------------------------------
User == AddTask \/ \E i \in Ids : RemoveTask(i) \/ Overwrite(i) \/ StopTask(i) \/ ResumeTask(i)
Exec == \E i \in Ids : Start(i) \/ RemoteOpen(i) \/ Watch(i) \/ TimeOut(i) \/ Drop(i)
Answers ==
  \/ Unwanted \/ RequestBlock \/ ReadBlock \/ WriteBlock
  \/ \E i \in Ids : \/ OpenSucceeded(i) \/ OpenFailed(i) \/ TransferFailed(i)
                   \/ BlockArrived(i) \/ BlockTaken(i)
Handlers == \E i \in Ids : HandleOpen(i) \/ HandleClose(i) \/ HandleRead(i) \/ HandleWrite(i)
GuardExec == GuardTake \/ GuardWatch \/ GuardTimeOut \/ GuardDrop
Environment == LoseConnection \/ Reconnect \/ Unroutable \/ RestartViewer \/ RestartGuard

Next == User \/ Exec \/ Answers \/ Handlers \/ GuardExec \/ Environment

Spec == Init /\ [][Next]_vars

-----------------------------------------------------------------------------

Names == 0..MaxTasks
Block == 0..N
Replies == [kind : {"OpenOk", "ReadOk", "WriteOk"}, id : Ids, seek : Block]
             \cup [kind : {"OpenErr", "ReadErr", "WriteErr"}, id : Ids, err : {"exists", "eof", "failed"}]
Requests == [kind : {"Open"}, id : Ids, seek : Block, force : BOOLEAN]
             \cup [kind : {"Read", "Write"}, id : Ids, seek : Block] \cup [kind : {"Close"}, id : Ids]

TypeOK ==
  /\ action \in {"READ", "WRITE"}
  /\ file = <<>> \/ (Len(file) = 1 /\ file[1] \in Seq(Block))
  /\ task \in [Ids -> [state : States \cup {"none"}, progress : Block, fp : Modes, force : BOOLEAN]]
  /\ live \subseteq Ids /\ queue \in Seq(Ids) /\ asked \subseteq Ids
  /\ exec \in Names
  /\ io \in [do : {"none", "request", "block", "write"}, id : Names, seek : Block]
  /\ row \in [Ids -> [state : States \cup {"none"}, progress : Block]]
  /\ online \in BOOLEAN /\ up \in Seq(Requests) /\ down \in Seq(Replies)
  /\ obj \in [Objs -> [id : Names, state : States \cup {"none"}, fp : Modes]]
  /\ table \in [Ids -> Objs \cup {0}] /\ gqueue \in Seq(Objs) /\ gheld \in Objs \cup {0}
  /\ resumes \in 0..MaxResumes /\ mishaps \in 0..MaxMishaps
  /\ torn \subseteq {"lost", "disk", "stale", "twice", "removed"}

\* The copy as the user sees it. A copy is damaged when a block on its way is lost, when the
\* guard's disk takes no block, or when the viewer restarts with an old progress in its data base.
Latest == {i \in Ids : task[i] # NoTask /\ \A j \in Ids : j > i => task[j] = NoTask}
Agreed == \/ \E i \in Ids : task[i].force
          \/ \E n \in DOMAIN up : up[n].kind = "Open" /\ up[n].force
Copy == INSTANCE FileCopy WITH
          copy <- file, agreed <- Agreed, damaged <- torn # {},
          finished <- \E i \in Latest : task[i].state = "FINISHED"

\* The transfer implements FileCopy, in all orders of stopping, resuming, removing, overwriting
\* and losing the connection: the blocks are counted by the side that reads and by the side that
\* writes, and asked for again from where either stood.
ImplementsCopy == Copy!CopySpec

\* A task that waits, prepares or transmits is in the queue of exec, or exec has it: otherwise
\* nobody would ever start it or notice that its partner is silent.
ActiveIsQueued ==
  \A i \in live : task[i].state \in Active \cup {"WAITING_FOR_START"} =>
    exec = i \/ \E n \in DOMAIN queue : queue[n] = i

\* While a task of the guard is served, it leaves m_tasks by a request of the viewer, or because
\* exec has kept an older task of the same id while OpenFile put the new one in its place.
EvictedOnlyOvertaken ==
  [][\A i \in Ids :
       Serves(i) /\ table'[i] # table[i] =>
         \/ Len(up') < Len(up) \/ \A o \in Objs : obj'[o] = NoObj
         \/ gheld \notin {0, table[i]} /\ obj[gheld].id = i]_vars
=============================================================================
