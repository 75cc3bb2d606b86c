---------------------------- MODULE MCOrderedMap ----------------------------
(* Four items under concurrency 1, 2 and 3: fewer, as many and more items  *)
(* than workers, the sequential path, and a window that slides.            *)
EXTENDS OrderedMap

MCWidths == 1 .. 3
MCOutcome == {"value", "exception"}
=============================================================================
