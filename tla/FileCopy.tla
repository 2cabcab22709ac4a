------------------------------ MODULE FileCopy ------------------------------
(***************************************************************************)
(* What a transfer promises of the copy: a copy that was there is emptied  *)
(* only after the user has agreed to overwrite it, it grows by the next    *)
(* block of the original, and the transfer is reported as finished only    *)
(* when the copy is the original.  Nothing is promised once the copy has   *)
(* been damaged.                                                           *)
(***************************************************************************)
EXTENDS Naturals, Sequences

CONSTANT N   \* the blocks of the original

VARIABLES
  copy,      \* <<>> if there is none, or <<its blocks>>
  agreed,    \* may an existing copy be overwritten?
  finished,  \* has the last transfer been reported as finished?
  damaged

copyVars == <<copy, agreed, finished, damaged>>

Original == [n \in 1..N |-> n]

CopyInit == copy = <<>> /\ ~agreed /\ ~finished /\ ~damaged

\* A transfer begins, one is given up, or the user agrees.
Ask == finished' \in {finished, FALSE} /\ agreed' \in BOOLEAN /\ UNCHANGED <<copy, damaged>>

Create == copy = <<>> /\ copy' = <<<<>>>> /\ UNCHANGED <<agreed, finished, damaged>>

Empty == agreed /\ copy' = <<<<>>>> /\ agreed' \in BOOLEAN /\ UNCHANGED <<finished, damaged>>

Extend ==
  /\ copy # <<>> /\ Len(copy[1]) < N
  /\ copy' = <<Append(copy[1], Len(copy[1]) + 1)>>
  /\ UNCHANGED <<agreed, finished, damaged>>

Finish == copy = <<Original>> /\ finished' = TRUE /\ UNCHANGED <<copy, agreed, damaged>>

Damage == damaged' = TRUE /\ copy' = copy /\ agreed' \in BOOLEAN /\ finished' \in BOOLEAN

\* Nothing is promised any more.
Damaged == damaged /\ damaged'

CopyNext == Ask \/ Create \/ Empty \/ Extend \/ Finish \/ Damage \/ Damaged

CopySpec == CopyInit /\ [][CopyNext]_copyVars
=============================================================================
