----------------------------- MODULE OrderedMap -----------------------------
(***************************************************************************)
(* One call of ordered_parallel_map (src/benchmark_core/concurrency.py):   *)
(* the generator, the thread that iterates it, and the worker threads of   *)
(* its executor.  EvaluationRunner and scripts/run_mu_math.py iterate it   *)
(* in a for loop: the loop body may raise, which abandons the generator    *)
(* at its yield, and Ctrl-C may arrive while the thread waits.             *)
(***************************************************************************)
EXTENDS OrderedPool

CONSTANT Widths     (* the values of --concurrency *)

ASSUME WidthsAssumption == Widths \subseteq Nat \ {0}
ASSUME MapOutcomeAssumption == Outcome = {"value", "exception"}

VARIABLES
  pool,   (* the state of the call, a record of OrderedPool              *)
  gen,    (* "created", "waiting" in future.result(), "yielded",         *)
          (* "cancelling" in the `finally' clause, "closing" in the wait *)
          (* of executor.shutdown, "closed", or "aborted": interrupted   *)
          (* in that wait                                                *)
  out     (* history: the items whose results the caller received        *)

vars == <<pool, gen, out>>

Gen == {"created", "waiting", "yielded", "cancelling", "closing", "closed",
        "aborted"}

Init ==
  /\ \E width \in Widths, size \in 0 .. MaxItems : pool = NewPool(width, size)
  /\ gen = "created"
  /\ out = <<>>

(* The way out, at the end or by an exception: into the `finally' clause.  *)
(* With concurrency 1 there is none, and nothing to cancel or to wait for. *)
Leave(p) ==
  /\ gen' = IF p.width = 1 THEN "closing" ELSE "cancelling"
  /\ pool' = Dropped(p)

(* The caller's next() reaches future.result(), or runs out of items.      *)
Await(p) ==
  \/ /\ p.current = 0
     /\ Leave(p)
  \/ /\ p.current # 0
     /\ gen' = "waiting"
     /\ pool' = p

FirstNext ==
  /\ gen = "created"
  /\ Await(Prime(pool))
  /\ UNCHANGED out

Yield ==
  /\ gen = "waiting"
  /\ pool.call[pool.current] = "value"
  /\ out' = Append(out, pool.current)
  /\ gen' = "yielded"
  /\ UNCHANGED pool

Resume ==
  /\ gen = "yielded"
  /\ Await(Refill(pool))
  /\ UNCHANGED out

(* Defect: a call that failed is submitted again, as often as it fails.    *)
RetryResult ==
  /\ gen = "waiting"
  /\ pool.call[pool.current] = "exception"
  /\ pool' = [pool EXCEPT !.call[pool.current] = "queued"]
  /\ UNCHANGED <<gen, out>>

(* future.result() re-raises what the call raised.                         *)
RaiseResult ==
  /\ gen = "waiting"
  /\ pool.call[pool.current] = "exception"
  /\ Leave(pool)
  /\ UNCHANGED out

(* GeneratorExit at the yield, once the failed loop body's frame is freed. *)
Abandon ==
  /\ gen = "yielded"
  /\ Leave(pool)
  /\ UNCHANGED out

(* KeyboardInterrupt while the iterating thread waits for the result.      *)
Interrupt ==
  /\ gen = "waiting"
  /\ Leave(pool)
  /\ UNCHANGED out

(* One future.cancel(): workers go on taking calls between two of them.    *)
Cancel ==
  /\ gen = "cancelling"
  /\ \E i \in Index : CanCancel(pool, i) /\ pool' = CancelCall(pool, i)
  /\ UNCHANGED <<gen, out>>

(* Defect: a `finally' that only waits, and cancels nothing.               *)
ShutdownAtOnce ==
  /\ gen = "cancelling"
  /\ gen' = "closing"
  /\ UNCHANGED <<pool, out>>

(* Nothing is left in the queue; executor.shutdown waits for its workers.  *)
Shutdown ==
  /\ gen = "cancelling"
  /\ Queued(pool) = {}
  /\ gen' = "closing"
  /\ UNCHANGED <<pool, out>>

(* executor.shutdown(wait=True) returns.                                   *)
Close ==
  /\ gen = "closing"
  /\ Running(pool) = {}
  /\ gen' = "closed"
  /\ UNCHANGED <<pool, out>>

(* A second KeyboardInterrupt ends the wait while workers still run.       *)
InterruptClose ==
  /\ gen = "closing"
  /\ Running(pool) # {}
  /\ gen' = "aborted"
  /\ UNCHANGED <<pool, out>>

WorkerStart(i) ==
  /\ CanStart(pool, i)
  /\ pool' = StartCall(pool, i)
  /\ UNCHANGED <<gen, out>>

WorkerEnd(i) ==
  /\ i \in Running(pool)
  /\ \E o \in Outcome : pool' = EndCall(pool, i, o)
  /\ UNCHANGED <<gen, out>>

Next ==
  \/ FirstNext \/ Yield \/ Resume \/ RaiseResult
  \/ Abandon \/ Interrupt \/ Cancel \/ Shutdown \/ Close \/ InterruptClose
  \/ \E i \in Index : WorkerStart(i) \/ WorkerEnd(i)

(* The iterating thread keeps going and every call returns: methods,       *)
(* scorers and the API client all bound their waits by timeouts.           *)
Fairness ==
  /\ WF_vars(FirstNext \/ Yield \/ Resume \/ RaiseResult
             \/ Cancel \/ Shutdown \/ Close)
  /\ \A i \in Index : WF_vars(WorkerStart(i)) /\ WF_vars(WorkerEnd(i))

Spec == Init /\ [][Next]_vars /\ Fairness

----------------------------------------------------------------------------
(* Type correctness: the pool is one that the steps can build, see PoolOK. *)
TypeOK ==
  /\ PoolOK(pool)
  /\ gen \in Gen
  /\ out \in Seq(Index)
  /\ gen = "created" => pool.taken = 0
  /\ gen \in {"waiting", "yielded"} => pool.current # 0

(* Results reach the caller in input order with none skipped or repeated,  *)
(* whatever the order in which the workers end: `pending' is a queue and   *)
(* popleft takes its oldest future.                                        *)
InputOrder == \A k \in DOMAIN out : out[k] = k

(* Look-ahead is bounded by what the caller consumed, not only by the      *)
(* number of threads: item i is not submitted before the caller has asked  *)
(* for more after result i - width.  So when a sample fails, at most       *)
(* width - 1 later ones have been paid for in vain.                        *)
BoundedLookahead ==
  \A i \in Index : pool.call[i] # "idle" => i <= Len(out) + pool.width

(* A generator that ran to its end has delivered every item.               *)
Exhaustive ==
  gen = "closed" /\ pool.current = 0 => Len(out) = pool.size

(* The generator's promise, with the record's fields as the abstract state. *)
Delivery == INSTANCE OrderedDelivery WITH
  width   <- pool.width,
  size    <- pool.size,
  running <- Running(pool),
  ended   <- {i \in Index : pool.call[i] \in Outcome},
  phase   <- CASE gen \in {"created", "waiting", "yielded"} -> "open"
               [] gen = "cancelling"                        -> "leaving"
               [] gen \in {"closing", "aborted"}            -> "draining"
               [] gen = "closed"                            -> "closed"

(* ordered_parallel_map implements OrderedDelivery: bounded, in order, each *)
(* item at most once, nothing begun once the cancelling is done.            *)
ImplementsDelivery == Delivery!Spec

(* Whoever iterates the generator is never left waiting for a result: the  *)
(* executor has a thread for every call the window lets through, and what  *)
(* a call raises is raised again instead of being tried again.             *)
ResultArrives == gen = "waiting" ~> gen # "waiting"
=============================================================================
