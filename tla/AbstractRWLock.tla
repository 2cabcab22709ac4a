--------------------------- MODULE AbstractRWLock ---------------------------
(***************************************************************************)
(* What a readers-writer lock promises its callers, with no word on how:   *)
(* a thread becomes a reader only while nobody writes, and the writer only *)
(* while nobody reads or writes.                                           *)
(***************************************************************************)
CONSTANT Threads

VARIABLES readers,   \* the threads between a successful (try)readLock and readUnlock
          writers    \* the threads between a successful (try)writeLock and writeUnlock

avars == <<readers, writers>>

AInit == readers = {} /\ writers = {}

BeginRead(t) ==
  /\ t \notin readers
  /\ writers = {}
  /\ readers' = readers \cup {t}
  /\ UNCHANGED writers

EndRead(t) ==
  /\ t \in readers
  /\ readers' = readers \ {t}
  /\ UNCHANGED writers

BeginWrite(t) ==
  /\ readers = {}
  /\ writers = {}
  /\ writers' = {t}
  /\ UNCHANGED readers

EndWrite(t) ==
  /\ t \in writers
  /\ writers' = writers \ {t}
  /\ UNCHANGED readers

ANext == \E t \in Threads : BeginRead(t) \/ EndRead(t) \/ BeginWrite(t) \/ EndWrite(t)

ASpec == AInit /\ [][ANext]_avars
=============================================================================
