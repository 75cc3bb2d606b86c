---------------------------- MODULE OrderedPool ----------------------------
(***************************************************************************)
(* The state of one call of ordered_parallel_map                           *)
(* (src/benchmark_core/concurrency.py) as a record, and the state after    *)
(* each of its steps.  OrderedMap runs one such pool on its own;           *)
(* EvaluationCell runs one per runner.                                     *)
(*                                                                         *)
(* Items are numbered 1..size in input order.  The thread that iterates    *)
(* the generator owns the deque `pending' and the popped future `current'; *)
(* worker threads move call[i] from "queued" to "running" to an outcome.   *)
(***************************************************************************)
EXTENDS Naturals, Sequences, FiniteSets

CONSTANTS
  MaxItems,     (* at most this many items in one call (bounds the model) *)
  Outcome       (* how a call of `function' may end                       *)

ASSUME MaxItemsAssumption == MaxItems \in Nat
ASSUME OutcomeAssumption ==
  Outcome \cap {"idle", "queued", "running", "cancelled"} = {}

Index == 1 .. MaxItems
Status == {"idle", "queued", "running", "cancelled"} \cup Outcome

Pool ==
  [width   : Nat \ {0},           (* concurrency                           *)
   size    : 0 .. MaxItems,       (* how many items the iterator holds     *)
   taken   : 0 .. MaxItems,       (* how many it has given out             *)
   pending : Seq(Index),          (* the deque of futures, oldest first    *)
   current : 0 .. MaxItems,       (* the future popped last, 0 for none    *)
   call    : [Index -> Status]]

NewPool(width, size) ==
  [width |-> width, size |-> size, taken |-> 0, pending |-> <<>>,
   current |-> 0, call |-> [i \in Index |-> "idle"]]

(* executor.submit for as many of the next n items as the iterator holds.  *)
Submit(p, n) ==
  LET last == IF p.taken + n < p.size THEN p.taken + n ELSE p.size
  IN [p EXCEPT !.taken   = last,
               !.pending = @ \o [k \in 1 .. (last - p.taken) |-> p.taken + k],
               !.call    = [i \in Index |->
                              IF i \in (p.taken + 1) .. last
                              THEN "queued" ELSE @[i]]]

(* Defect: the newest future first (pending.pop() for pending.popleft()).  *)
PopNewest(p) ==
  IF p.pending = <<>>
  THEN [p EXCEPT !.current = 0]
  ELSE [p EXCEPT !.current = p.pending[Len(p.pending)],
                 !.pending = SubSeq(@, 1, Len(@) - 1)]

(* `while pending: future = pending.popleft()'; 0 when the loop ends.      *)
PopLeft(p) ==
  IF p.pending = <<>>
  THEN [p EXCEPT !.current = 0]
  ELSE [p EXCEPT !.current = Head(p.pending), !.pending = Tail(p.pending)]

(* The first next(): prime `width' calls, then wait for the oldest.  With  *)
(* concurrency 1 the one call runs in the iterating thread itself.         *)
Prime(p) == PopLeft(Submit(p, p.width))

(* Defect: the window grows by one with every result consumed.             *)
RefillTwo(p) == PopLeft(Submit(p, 2))

(* Defect: `break' for `continue' once the iterator is exhausted, which    *)
(* forgets the futures still pending.                                      *)
RefillOrBreak(p) ==
  IF p.taken = p.size THEN [p EXCEPT !.current = 0] ELSE PopLeft(Submit(p, 1))

(* Every later next(): one new call replaces the one consumed.             *)
Refill(p) == PopLeft(Submit(p, 1))

Running(p) == {i \in Index : p.call[i] = "running"}
Queued(p)  == {i \in Index : p.call[i] = "queued"}
InFlight(p) == Running(p) \cup Queued(p)

(* A worker takes the oldest queued call; there are `width' workers.       *)
CanStart(p, i) ==
  /\ i \in Queued(p)
  /\ \A j \in Queued(p) : i <= j
  /\ Cardinality(Running(p)) < p.width

StartCall(p, i) == [p EXCEPT !.call[i] = "running"]
EndCall(p, i, o) == [p EXCEPT !.call[i] = o]

(* The iterating thread leaves the generator.  With concurrency 1 the one  *)
(* call has no worker of its own and dies with it.                         *)
Dropped(p) ==
  [p EXCEPT !.call = [i \in Index |->
     IF @[i] \in {"queued", "running"} /\ p.width = 1
     THEN "cancelled" ELSE @[i]]]

(* The `finally' clause takes back, one by one, what no worker has taken:  *)
(* first the deque from its oldest future on, then, in executor.shutdown,  *)
(* a popped future still in the executor's queue.                          *)
CanCancel(p, i) ==
  /\ i \in Queued(p)
  /\ \A j \in Queued(p) : j = p.current \/ (i # p.current /\ i <= j)

CancelCall(p, i) == [p EXCEPT !.call[i] = "cancelled"]

(***************************************************************************)
(* What every reachable pool looks like: the deque holds the items taken   *)
(* and not yet popped, consecutively and in input order; everything not    *)
(* taken is idle; and, while a future is waited for or its result handed   *)
(* out, the items taken stay within the window that begins at it.          *)
(***************************************************************************)
PopCount(p) == p.taken - Len(p.pending)

PoolShape(p) ==
  /\ p \in Pool
  /\ p.taken <= p.size
  /\ Len(p.pending) <= p.taken
  /\ \A k \in 1 .. Len(p.pending) : p.pending[k] = PopCount(p) + k
  /\ \A i \in Index : (p.call[i] = "idle") <=> (i > p.taken)

PoolOK(p) ==
  /\ PoolShape(p)
  /\ p.current \in {0, PopCount(p)}
  /\ p.current # 0 => p.taken < p.current + p.width
=============================================================================
