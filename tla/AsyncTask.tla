----------------------------- MODULE AsyncTask -----------------------------
(***************************************************************************)
(* What the task manager promises a visitor whose request waits for a      *)
(* guard's answer: the guard is asked at most once, and never about a      *)
(* request that is settled already; a request is settled at most once; it  *)
(* is settled by an answer only if the guard was asked, and as unreachable *)
(* only if it was not.                                                     *)
(***************************************************************************)
EXTENDS Sequences

CONSTANT Tasks

VARIABLES dispatched,   \* the tasks handed to the manager
          asked,        \* the tasks whose request was sent to the guard
          outcome       \* what each task was settled with: <<>>, or one outcome

avars == <<dispatched, asked, outcome>>

Outcomes == {"answered", "dropped", "unreachable", "timeout"}

AInit == dispatched = {} /\ asked = {} /\ outcome = [t \in Tasks |-> <<>>]

Begin(t) ==
  /\ t \notin dispatched
  /\ dispatched' = dispatched \cup {t}
  /\ UNCHANGED <<asked, outcome>>

Ask(t) ==
  /\ t \in dispatched \ asked
  /\ outcome[t] = <<>>
  /\ asked' = asked \cup {t}
  /\ UNCHANGED <<dispatched, outcome>>

Settle(t, o) ==
  /\ t \in dispatched
  /\ outcome[t] = <<>>
  /\ o \in {"answered", "dropped"} => t \in asked
  /\ o = "unreachable" => t \notin asked
  /\ outcome' = [outcome EXCEPT ![t] = <<o>>]
  /\ UNCHANGED <<dispatched, asked>>

ANext == \E t \in Tasks : Begin(t) \/ Ask(t) \/ \E o \in Outcomes : Settle(t, o)

ASpec == AInit /\ [][ANext]_avars
=============================================================================
