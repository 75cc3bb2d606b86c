------------------------------- MODULE Ledger -------------------------------
(***************************************************************************)
(* What one cell's records.jsonl promises: "sample-level resume".  While   *)
(* the file is sound it holds the records of exactly the first `committed' *)
(* problems of the dataset, and the only thing that can happen to that is  *)
(* that the next problem is added, whoever runs and whatever fails.  A     *)
(* write cut short may leave a file that no longer parses: `sound' becomes *)
(* FALSE and stays so, because nothing in the program repairs it.          *)
(***************************************************************************)
EXTENDS Naturals

CONSTANT Size      (* the number of problems of the dataset *)

VARIABLES committed, sound

vars == <<committed, sound>>

Init ==
  /\ committed = 0
  /\ sound = TRUE

Commit ==
  /\ sound
  /\ committed < Size
  /\ committed' = committed + 1
  /\ UNCHANGED sound

Damage ==
  /\ sound
  /\ sound' = FALSE
  /\ committed' = 0

Next == Commit \/ Damage

Spec == Init /\ [][Next]_vars
=============================================================================
