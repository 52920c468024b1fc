------------------------------ MODULE FileCopy ------------------------------
(***************************************************************************)
(* What rcopy promises, without windows or packets: the local file grows   *)
(* block by block as a prefix of the remote one, and the copy is declared  *)
(* complete only when nothing is missing.  It may be given up at any time. *)
(***************************************************************************)
EXTENDS Integers, Sequences

CONSTANT NumBlocks

VARIABLES
  copy,     \* what the local file holds
  status    \* "copying", "complete" or "gaveup"

Block(i) == [data |-> i, len |-> i]

Init ==
  /\ copy = <<>>
  /\ status = "copying"

CopyBlock ==
  /\ status = "copying"
  /\ Len(copy) < NumBlocks
  /\ copy' = Append(copy, Block(Len(copy) + 1))
  /\ UNCHANGED status

Complete ==
  /\ status = "copying"
  /\ Len(copy) = NumBlocks
  /\ status' = "complete"
  /\ UNCHANGED copy

GiveUp ==
  /\ status = "copying"
  /\ status' = "gaveup"
  /\ UNCHANGED copy

Next == CopyBlock \/ Complete \/ GiveUp

Spec == Init /\ [][Next]_<<copy, status>>
=============================================================================
