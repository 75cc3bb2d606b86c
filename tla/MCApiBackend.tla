---------------------------- MODULE MCApiBackend ----------------------------
(* Three threads share a backend and its successor.  An interval of two    *)
(* ticks lets a start be early, in time and late, and lets two threads     *)
(* queue behind the one that sleeps; one retry meets both of its ends.     *)
EXTENDS ApiBackend

MCBackoff == {1, 2}
=============================================================================
