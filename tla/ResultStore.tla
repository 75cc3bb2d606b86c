---------------------------- MODULE ResultStore ----------------------------
(***************************************************************************)
(* records.jsonl as JsonlResultStore (src/benchmark_core/store.py) writes  *)
(* and reads it.  A file is the sequence of its lines and whether the last *)
(* line lacks its newline; a missing file and an empty one are alike to    *)
(* both `append' and `completed_problem_ids'.                              *)
(*                                                                         *)
(* A line is the header of an experiment, the sample of a problem, or      *)
(* "invalid": a proper prefix of a line, or two lines run together.  Both  *)
(* kinds of line are JSON objects, so neither of these parses.             *)
(***************************************************************************)
EXTENDS Naturals, Sequences, FiniteSets

Header(e)    == [type |-> "experiment", of |-> e]
Sample(e, p) == [type |-> "sample", of |-> e, id |-> p]
Invalid      == [type |-> "invalid"]

Lines(Experiment, Problem) ==
  {Header(e) : e \in Experiment}
    \cup {Sample(e, p) : e \in Experiment, p \in Problem}
    \cup {Invalid}

Files(Experiment, Problem) ==
  [lines : Seq(Lines(Experiment, Problem)), end : {"newline", "bare"}]

NoFile == [lines |-> <<>>, end |-> "newline"]

(* The last line has no newline.                                           *)
Open(f) == f.end = "bare"

(* The lines of one append: the header goes first into an empty file.      *)
Chunk(f, e, p) ==
  IF f.lines = <<>> THEN <<Header(e), Sample(e, p)>> ELSE <<Sample(e, p)>>

(* The last line run together with what was written after it.              *)
Glued(f) == [f.lines EXCEPT ![Len(f.lines)] = Invalid]

(* The lines of f after `added' is written at its end.  If the last line   *)
(* has no newline, the first line added lands on it.                       *)
WriteAtEnd(f, added) ==
  IF Open(f) /\ added # <<>>
  THEN Glued(f) \o Tail(added)
  ELSE f.lines \o added

(* Defect: the file opened with "w" for "a".                               *)
Overwritten(f, e, p) == [lines |-> Chunk(f, e, p), end |-> "newline"]

(* append: one write of the joined lines, flushed and synced.              *)
Appended(f, e, p) ==
  [lines |-> WriteAtEnd(f, Chunk(f, e, p)), end |-> "newline"]

(* What of the chunk an append that does not finish has written: the       *)
(* header alone, a line without its newline, or a line cut short.          *)
Fragments(f, e, p) ==
  LET Cut(lines) == [lines |-> lines, end |-> "bare"]
  IN IF f.lines = <<>>
     THEN {Cut(<<Invalid>>), Cut(<<Header(e)>>),
           [lines |-> <<Header(e)>>, end |-> "newline"],
           Cut(<<Header(e), Invalid>>), Cut(<<Header(e), Sample(e, p)>>)}
     ELSE {Cut(<<Invalid>>), Cut(<<Sample(e, p)>>)}

(* The process is killed, the disk is full or the power fails: the file    *)
(* then ends in a fragment, or has not changed.                            *)
TornAppends(f, e, p) ==
  {f} \cup {[lines |-> WriteAtEnd(f, part.lines), end |-> part.end] :
               part \in Fragments(f, e, p)}

SampleAt(f, i) == f.lines[i].type = "sample"

(* Defect: the header is parsed and not compared.                          *)
AcceptsAnyHeader(f, e) ==
  \A i \in DOMAIN f.lines :
    /\ f.lines[i] # Invalid
    /\ SampleAt(f, i) =>
         \E j \in 1 .. (i - 1) : f.lines[j].type = "experiment"

(* completed_problem_ids returns a set of problem ids, or raises: a line   *)
(* that does not parse, another experiment's header, or a sample before    *)
(* any header.                                                             *)
Accepts(f, e) ==
  \A i \in DOMAIN f.lines :
    /\ f.lines[i] # Invalid
    /\ f.lines[i].type = "experiment" => f.lines[i].of = e
    /\ SampleAt(f, i) =>
         \E j \in 1 .. (i - 1) : f.lines[j].type = "experiment"

CompletedIds(f) ==
  {f.lines[i].id : i \in {j \in DOMAIN f.lines : SampleAt(f, j)}}

(* Every line parses.                                                      *)
Sound(f) == \A i \in DOMAIN f.lines : f.lines[i] # Invalid
=============================================================================
