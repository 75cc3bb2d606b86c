--------------------------- MODULE EvaluationCell ---------------------------
(***************************************************************************)
(* One cell of the benchmark: a method on a dataset with one records.jsonl. *)
(* Several processes may be started on it; each runs EvaluationRunner.run  *)
(* (src/benchmark_core/runner.py) once: take the file lock, read which     *)
(* problems are completed, select the next batch, evaluate it through      *)
(* ordered_parallel_map, append each record in order, release the lock.    *)
(* A process may be interrupted, may fail to write, and may be killed.     *)
(*                                                                         *)
(* Problems are 1..MaxItems in the order plugin.iter_problems gives them.  *)
(***************************************************************************)
EXTENDS OrderedPool, ResultStore

CONSTANTS
  Runners,         (* the processes                                       *)
  Experiment,      (* definitions an invocation may carry                 *)
  Widths,          (* values of --concurrency                             *)
  BatchSizes,      (* values of --batch-size; MaxItems stands for "all"   *)
  MaxInvocations,  (* processes started in all (bounds the model)         *)
  None             (* no runner, no arguments                             *)

ASSUME CellAssumption ==
  /\ Widths \subseteq Nat \ {0}
  /\ BatchSizes \subseteq Nat \ {0}
  /\ MaxInvocations \in Nat
  /\ None \notin Runners \cup [experiment : Experiment, batch : BatchSizes,
                              width : Widths]
  /\ Outcome = {"evaluated", "error", "raised"}

Problem == Index

VARIABLES
  file,       (* records.jsonl                                            *)
  lock,       (* who holds flock on .records.jsonl.lock                   *)
  pc,         (* where each runner is, see Pc                             *)
  args,       (* its experiment, batch size and concurrency               *)
  selected,   (* the problems of its batch, in dataset order              *)
  pool,       (* its ordered_parallel_map                                 *)
  resumed,    (* the counter of its RunSummary                            *)
  recorded,   (* scored + method_failed of its RunSummary                 *)
  invoked     (* how many processes were started                          *)

vars ==
  <<file, lock, pc, args, selected, pool, resumed, recorded, invoked>>

(* "idle"       not running                                                *)
(* "locked"     inside exclusive_run, the file not yet read                *)
(* "running"    waiting for the next record                                *)
(* "recording"  a successful record in hand, about to append it            *)
(* "returning"  the loop is over, the RunSummary built                     *)
(* "draining"   the wait itself was cut short: the generator's `finally'   *)
(*              cancels what is queued, one future at a time, and waits    *)
(*              for its workers, inside exclusive_run                      *)
(* "unwinding"  the loop body raised: exclusive_run has been left, but the *)
(*              traceback still holds the suspended generator              *)
(* "joining"    the traceback is gone: the generator's `finally' does the  *)
(*              same, outside exclusive_run                                *)
Pc == {"idle", "locked", "running", "recording", "returning", "draining",
       "unwinding", "joining"}

Looping == {"running", "recording", "returning"}
Holding == Looping \cup {"locked", "draining"}

Args == [experiment : Experiment, batch : BatchSizes, width : Widths]
EmptyPool == NewPool(1, 0)

Init ==
  /\ file = NoFile
  /\ lock = None
  /\ pc = [r \in Runners |-> "idle"]
  /\ args = [r \in Runners |-> None]
  /\ selected = [r \in Runners |-> <<>>]
  /\ pool = [r \in Runners |-> EmptyPool]
  /\ resumed = [r \in Runners |-> 0]
  /\ recorded = [r \in Runners |-> 0]
  /\ invoked = 0

(* The process is gone, and with it all but the file.                      *)
Exit(r) ==
  /\ pc' = [pc EXCEPT ![r] = "idle"]
  /\ args' = [args EXCEPT ![r] = None]
  /\ selected' = [selected EXCEPT ![r] = <<>>]
  /\ pool' = [pool EXCEPT ![r] = EmptyPool]
  /\ resumed' = [resumed EXCEPT ![r] = 0]
  /\ recorded' = [recorded EXCEPT ![r] = 0]

GoTo(r, label) == pc' = [pc EXCEPT ![r] = label]

(* Defect: a lock given back only on some ways out.                        *)
KeepLock(r) == lock' = IF pc[r] \in {"running", "recording"} THEN lock ELSE None

(* flock is released by LOCK_UN and by the death of its holder.            *)
Release(r) == lock' = IF lock = r THEN None ELSE lock

(***************************************************************************)
(* Selection (runner.py, _run_exclusive)                                   *)
(***************************************************************************)
InOrder(S) ==
  [k \in 1 .. Cardinality(S) |->
     CHOOSE p \in S : Cardinality({q \in S : q <= p}) = k]

UnfinishedBefore(done, p) == {q \in Problem \ done : q < p}

(* Defect: the completed problems are not skipped.                         *)
SelectionFromStart(done, batch) ==
  InOrder({p \in Problem : Cardinality({q \in Problem : q < p}) < batch})

(* The first `batch' problems that are not completed.                      *)
Selection(done, batch) ==
  InOrder({p \in Problem \ done : Cardinality(UnfinishedBefore(done, p)) < batch})

(* The loop counts a completed problem unless it broke off before it.      *)
ResumedCount(done, batch) ==
  Cardinality({p \in done : Cardinality(UnfinishedBefore(done, p)) <= batch})

(* Defect: LOCK_SH for LOCK_EX.                                            *)
LockShared(r) ==
  /\ pc[r] = "idle"
  /\ invoked < MaxInvocations
  /\ lock' = r
  /\ GoTo(r, "locked")
  /\ args' \in {[args EXCEPT ![r] = a] : a \in Args}
  /\ invoked' = invoked + 1
  /\ UNCHANGED <<file, selected, pool, resumed, recorded>>

(* store.exclusive_run: LOCK_EX | LOCK_NB.                                 *)
Lock(r) ==
  /\ pc[r] = "idle"
  /\ invoked < MaxInvocations
  /\ lock = None
  /\ lock' = r
  /\ GoTo(r, "locked")
  /\ args' \in {[args EXCEPT ![r] = a] : a \in Args}
  /\ invoked' = invoked + 1
  /\ UNCHANGED <<file, selected, pool, resumed, recorded>>

(* Another process is already running this experiment.                     *)
LockConflict(r) ==
  /\ pc[r] = "idle"
  /\ invoked < MaxInvocations
  /\ lock # None
  /\ invoked' = invoked + 1
  /\ UNCHANGED <<file, lock, pc, args, selected, pool, resumed, recorded>>

(* The generator is advanced: either a future to wait for, or the end.     *)
Advance(r, p) ==
  /\ pool' = [pool EXCEPT ![r] = p]
  /\ GoTo(r, IF p.current = 0 THEN "returning" ELSE "running")

Select(r) ==
  /\ pc[r] = "locked"
  /\ Accepts(file, args[r].experiment)
  /\ LET done == CompletedIds(file)
         batch == Selection(done, args[r].batch)
     IN /\ selected' = [selected EXCEPT ![r] = batch]
        /\ resumed' =
             [resumed EXCEPT ![r] = ResumedCount(done, args[r].batch)]
        /\ Advance(r, Prime(NewPool(args[r].width, Len(batch))))
  /\ UNCHANGED <<file, lock, args, recorded, invoked>>

(* completed_problem_ids raised.                                           *)
Reject(r) ==
  /\ pc[r] = "locked"
  /\ ~Accepts(file, args[r].experiment)
  /\ Release(r)
  /\ Exit(r)
  /\ UNCHANGED <<file, invoked>>

(***************************************************************************)
(* Worker threads.  _evaluate_problem returns a record that was scored or  *)
(* whose method failed ("evaluated"), or one whose score is an error; what *)
(* is not an Exception, or is raised while it builds the record, escapes.  *)
(***************************************************************************)
WorkerStart(r, i) ==
  /\ CanStart(pool[r], i)
  /\ pool' = [pool EXCEPT ![r] = StartCall(@, i)]
  /\ UNCHANGED <<file, lock, pc, args, selected, resumed, recorded, invoked>>

WorkerEnd(r, i) ==
  /\ i \in Running(pool[r])
  /\ \E o \in Outcome : pool' = [pool EXCEPT ![r] = EndCall(@, i, o)]
  /\ UNCHANGED <<file, lock, pc, args, selected, resumed, recorded, invoked>>

(***************************************************************************)
(* The loop over the records, in the main thread                           *)
(***************************************************************************)
CurrentOutcome(r) == pool[r].call[pool[r].current]

(* Defect: the lock is not released while the exception propagates.        *)
RaiseLocked(r) ==
  /\ GoTo(r, "unwinding")
  /\ UNCHANGED lock

(* The loop body raised.  The `with' statement releases the lock while the *)
(* exception propagates; the generator stays suspended at its yield.       *)
Raise(r) ==
  /\ GoTo(r, "unwinding")
  /\ Release(r)

(* Defect: a failed sample is recorded like any other.                     *)
ReceiveAny(r) ==
  /\ pc[r] = "running"
  /\ CurrentOutcome(r) \in {"evaluated", "error"}
  /\ recorded' = [recorded EXCEPT ![r] = @ + 1]
  /\ GoTo(r, "recording")
  /\ UNCHANGED <<file, lock, args, selected, pool, resumed, invoked>>

Receive(r) ==
  /\ pc[r] = "running"
  /\ CurrentOutcome(r) = "evaluated"
  /\ recorded' = [recorded EXCEPT ![r] = @ + 1]
  /\ GoTo(r, "recording")
  /\ UNCHANGED <<file, lock, args, selected, pool, resumed, invoked>>

(* Defect: a failed sample is skipped and the loop goes on.                *)
SkipError(r) ==
  /\ pc[r] = "running"
  /\ CurrentOutcome(r) = "error"
  /\ Advance(r, Refill(pool[r]))
  /\ UNCHANGED <<file, lock, args, selected, resumed, recorded, invoked>>

(* raise SampleEvaluationError: nothing is appended.                       *)
StopAtError(r) ==
  /\ pc[r] = "running"
  /\ CurrentOutcome(r) = "error"
  /\ Raise(r)
  /\ UNCHANGED <<file, args, selected, pool, resumed, recorded, invoked>>

(* store.append, record_callback, and back to the generator.               *)
Record(r) ==
  /\ pc[r] = "recording"
  /\ file' = Appended(file, args[r].experiment, selected[r][pool[r].current])
  /\ Advance(r, Refill(pool[r]))
  /\ UNCHANGED <<lock, args, selected, resumed, recorded, invoked>>

(* store.append wrote the record, and then it or record_callback raised.   *)
RecordThenRaise(r) ==
  /\ pc[r] = "recording"
  /\ file' = Appended(file, args[r].experiment, selected[r][pool[r].current])
  /\ Raise(r)
  /\ UNCHANGED <<args, selected, pool, resumed, recorded, invoked>>

(* store.append raised part way: no space left on the device, or Ctrl-C.   *)
AppendFails(r) ==
  /\ pc[r] = "recording"
  /\ file' \in TornAppends(file, args[r].experiment, selected[r][pool[r].current])
  /\ Raise(r)
  /\ UNCHANGED <<args, selected, pool, resumed, recorded, invoked>>

(* The wait is cut short: the generator's own `finally' runs while the     *)
(* exception is still inside exclusive_run.                                *)
CutWait(r) ==
  /\ pool' = [pool EXCEPT ![r] = Dropped(@)]
  /\ GoTo(r, "draining")
  /\ UNCHANGED <<file, lock, args, selected, resumed, recorded, invoked>>

(* future.result() raises what escaped _evaluate_problem.                  *)
ResultRaises(r) ==
  /\ pc[r] = "running"
  /\ CurrentOutcome(r) = "raised"
  /\ CutWait(r)

(* Ctrl-C while the main thread waits for a record.                        *)
InterruptWait(r) ==
  /\ pc[r] = "running"
  /\ CutWait(r)

(* One future.cancel() in the generator's `finally'.                       *)
Cancel(r) ==
  /\ pc[r] \in {"draining", "joining"}
  /\ \E i \in Index :
       /\ CanCancel(pool[r], i)
       /\ pool' = [pool EXCEPT ![r] = CancelCall(@, i)]
  /\ UNCHANGED <<file, lock, pc, args, selected, resumed, recorded, invoked>>

(***************************************************************************)
(* The end of an invocation                                                *)
(***************************************************************************)
Return(r) ==
  /\ pc[r] = "returning"
  /\ Release(r)
  /\ Exit(r)
  /\ UNCHANGED <<file, invoked>>

Drained(r) ==
  /\ pc[r] = "draining"
  /\ InFlight(pool[r]) = {}
  /\ Release(r)
  /\ Exit(r)
  /\ UNCHANGED <<file, invoked>>

(* A second Ctrl-C ends the wait for the workers; the interpreter then     *)
(* waits for them at exit.                                                 *)
InterruptDrain(r) ==
  /\ pc[r] = "draining"
  /\ Queued(pool[r]) = {}
  /\ Running(pool[r]) # {}
  /\ Release(r)
  /\ GoTo(r, "joining")
  /\ UNCHANGED <<file, args, selected, pool, resumed, recorded, invoked>>

(* main's handler ends and the exception is freed: the generator is        *)
(* closed, and its `finally' begins.                                       *)
FreeGenerator(r) ==
  /\ pc[r] = "unwinding"
  /\ pool' = [pool EXCEPT ![r] = Dropped(@)]
  /\ GoTo(r, "joining")
  /\ UNCHANGED <<file, lock, args, selected, resumed, recorded, invoked>>

Joined(r) ==
  /\ pc[r] = "joining"
  /\ InFlight(pool[r]) = {}
  /\ Exit(r)
  /\ UNCHANGED <<file, lock, invoked>>

(* The process is killed, perhaps in the middle of an append.              *)
Crash(r) ==
  /\ pc[r] # "idle"
  /\ file' \in
       IF pc[r] = "recording"
       THEN LET e == args[r].experiment
                p == selected[r][pool[r].current]
            IN TornAppends(file, e, p) \cup {Appended(file, e, p)}
       ELSE {file}
  /\ Release(r)
  /\ Exit(r)
  /\ UNCHANGED invoked

Step(r) ==
  \/ Select(r) \/ Reject(r) \/ Receive(r) \/ StopAtError(r) \/ ResultRaises(r)
  \/ Record(r) \/ Return(r) \/ Cancel(r) \/ Drained(r) \/ FreeGenerator(r)
  \/ Joined(r)

Next ==
  \E r \in Runners :
    \/ Lock(r) \/ LockConflict(r) \/ Step(r)
    \/ RecordThenRaise(r) \/ AppendFails(r) \/ InterruptWait(r)
    \/ InterruptDrain(r) \/ Crash(r)
    \/ \E i \in Index : WorkerStart(r, i) \/ WorkerEnd(r, i)

(* The main thread of a live process keeps going, and so do its workers,   *)
(* whose calls are all bounded by timeouts.  Nothing obliges anybody to    *)
(* start a process, to interrupt one or to kill one.                       *)
Fairness ==
  \A r \in Runners :
    /\ WF_vars(Step(r))
    /\ \A i \in Index : WF_vars(WorkerStart(r, i)) /\ WF_vars(WorkerEnd(r, i))

Spec == Init /\ [][Next]_vars /\ Fairness
=============================================================================
