------------------------ MODULE MCFileTransmission -------------------------
(* FileTransmission for TLC. *)
EXTENDS FileTransmission

\* A removed task that nobody will look at again: of what it was, only the user's consent and
\* its end count, for FileCopy. Of what has torn the copy counts that something has.
Past(i) == task[i] # NoTask /\ i \notin live \cup asked \cup Range(queue) \cup {exec, io.id}
View ==
  <<action, file, [i \in Ids |-> IF Past(i) THEN <<task[i].state = "FINISHED", task[i].force>> ELSE task[i]],
    live, queue, exec, io, row, asked, net, guard, bounds, torn = {}>>
=============================================================================
