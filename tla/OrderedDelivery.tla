-------------------------- MODULE OrderedDelivery --------------------------
(***************************************************************************)
(* What ordered_parallel_map promises its caller: "Run a bounded number of *)
(* calls concurrently and yield in input order."  Item i may be in         *)
(* evaluation only while fewer than `width' results separate it from the   *)
(* last one consumed; results come out as 1, 2, 3, ...; each item is       *)
(* evaluated at most once; once the caller is done with the generator, no  *)
(* result comes out, and when it has taken back what had not begun, no     *)
(* evaluation begins; "closed" is reached only when none runs.             *)
(***************************************************************************)
EXTENDS Naturals, Sequences

CONSTANTS MaxItems, Widths

VARIABLES
  width,     (* the bound on concurrent calls                      *)
  size,      (* the number of items                                *)
  running,   (* the items being evaluated                          *)
  ended,     (* the items whose evaluation has ended               *)
  out,       (* the results handed to the caller, in order         *)
  phase      (* "open", "leaving", "draining" or "closed"          *)

vars == <<width, size, running, ended, out, phase>>

Init ==
  /\ width \in Widths
  /\ size \in 0 .. MaxItems
  /\ running = {}
  /\ ended = {}
  /\ out = <<>>
  /\ phase = "open"

Begin(i) ==
  /\ phase \in {"open", "leaving"}
  /\ i \in 1 .. size
  /\ i \notin running \cup ended
  /\ i <= Len(out) + width
  /\ running' = running \cup {i}
  /\ UNCHANGED <<width, size, ended, out, phase>>

End(i) ==
  /\ i \in running
  /\ running' = running \ {i}
  /\ ended' = ended \cup {i}
  /\ UNCHANGED <<width, size, out, phase>>

Deliver ==
  /\ phase = "open"
  /\ Len(out) + 1 \in ended
  /\ out' = Append(out, Len(out) + 1)
  /\ UNCHANGED <<width, size, running, ended, phase>>

(* The caller is done, or the generator failed: what has not begun is      *)
(* taken back, and meanwhile some of it may still begin.                   *)
Leave ==
  /\ phase = "open"
  /\ width > 1
  /\ phase' = "leaving"
  /\ UNCHANGED <<width, size, running, ended, out>>

(* The same of a sequential call: it is dropped on the spot.               *)
Drop ==
  /\ phase = "open"
  /\ width = 1
  /\ running' = {}
  /\ phase' = "draining"
  /\ UNCHANGED <<width, size, ended, out>>

Drain ==
  /\ phase = "leaving"
  /\ phase' = "draining"
  /\ UNCHANGED <<width, size, running, ended, out>>

Close ==
  /\ phase = "draining"
  /\ running = {}
  /\ phase' = "closed"
  /\ UNCHANGED <<width, size, running, ended, out>>

Next ==
  \/ \E i \in 1 .. MaxItems : Begin(i) \/ End(i)
  \/ Deliver
  \/ Leave
  \/ Drop
  \/ Drain
  \/ Close

Spec == Init /\ [][Next]_vars
=============================================================================
