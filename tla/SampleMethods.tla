--------------------------- MODULE SampleMethods ---------------------------
(***************************************************************************)
(* The baselines (src/benchmark_methods/baselines.py), PAL                 *)
(* (src/adapters/pal.py) and Self-Refine (src/adapters/self_refine.py),    *)
(* one action per reply and per program run.  What a reply says is reduced *)
(* to what the method branches on, and chosen freely.                      *)
(***************************************************************************)
EXTENDS ControlledSample

(* How restricted_python answers: a value, or ProgramExecutionError, be it *)
(* for the program's fault or because the process could not be started.    *)
Runs == {"value", "program_error", "executor_failure"}

Ran(run) ==
  /\ run \in Runs
  /\ broken' = IF run = "executor_failure" THEN broken \cup {"executor"} ELSE broken

(***************************************************************************)
(* Direct and zero-shot chain-of-thought                                   *)
(***************************************************************************)
DirectReply ==
  /\ method.kind = "direct"
  /\ \E finish \in Finish :
       Receive(finish) /\ Return(Gen(finish, AsIs(finish)))
  /\ UNCHANGED progress

(***************************************************************************)
(* PAL: one program; a program that fails is an answer left empty          *)
(***************************************************************************)
PalReply ==
  /\ method.kind = "pal"
  /\ \E finish \in Finish : Receive(finish) /\ gen' = Gen(finish, AsIs(finish))
  /\ at' = "execute"
  /\ UNCHANGED progress

PalExecute ==
  /\ method.kind = "pal"
  /\ at = "execute"
  /\ \E run \in Runs :
       /\ Ran(run)
       /\ Return(IF run = "value" THEN Gen("stop", "full")
                 ELSE Gen(gen.finish, "empty"))
  /\ UNCHANGED <<method, scorer, calls, replies, progress, status, correct>>

(***************************************************************************)
(* Self-Refine on programs (_run_python)                                   *)
(***************************************************************************)
(* Round 1 is the initial program, whose finish reason is not looked at.   *)
PythonInitial ==
  /\ method.kind = "python"
  /\ round = 1
  /\ \E finish \in Finish : Receive(finish) /\ gen' = Gen(finish, AsIs(finish))
  /\ round' = 2
  /\ UNCHANGED <<at, node, complete>>

(* The feedback says whether the program is correct; `rewritten' is        *)
(* whether it also holds a new one.                                        *)
Rejected(finish, verdict, rewritten) ==
  \/ finish = "other"
  \/ finish = "length" /\ verdict = "incorrect"
  \/ finish = "stop" /\ verdict # "correct" /\ ~(verdict = "incorrect" /\ rewritten)

(* Cut feedback that does not say "incorrect" leaves the program alone.    *)
Accepted(finish, verdict) ==
  \/ finish = "length" /\ verdict # "incorrect"
  \/ finish = "stop" /\ verdict = "correct"

PythonFeedback ==
  /\ method.kind = "python"
  /\ round > 1
  /\ \E finish \in Finish, verdict \in {"correct", "incorrect", "none"},
        rewritten \in BOOLEAN :
       /\ Receive(finish)
       /\ gen' = Gen(finish, AsIs(finish))
       /\ IF Rejected(finish, verdict, rewritten)
          THEN at' = "failed" /\ round' = round
          ELSE IF Accepted(finish, verdict) \/ round > method.refinements
          THEN at' = "execute" /\ round' = round
          ELSE at' = "ask" /\ round' = round + 1
  /\ UNCHANGED <<node, complete>>

PythonExecute ==
  /\ method.kind = "python"
  /\ at = "execute"
  /\ \E run \in Runs :
       /\ Ran(run)
       /\ IF run = "value" THEN Return(Gen("stop", "full")) ELSE Fail(gen)
  /\ UNCHANGED <<method, scorer, calls, replies, progress, status, correct>>

(***************************************************************************)
(* Self-Refine on texts (_run_text)                                        *)
(***************************************************************************)
TextInitial ==
  /\ method.kind = "text"
  /\ round = 1
  /\ \E finish \in Finish :
       /\ Receive(finish)
       /\ gen' = Gen(finish, AsIs(finish))
       /\ at' = IF finish = "other" THEN "failed" ELSE "ask"
  /\ round' = 2
  /\ UNCHANGED <<node, complete>>

(* `status' is what the reply says of the candidate, "none" when it does   *)
(* not parse.  Every revision replaces the candidate.                      *)
TextRevision ==
  /\ method.kind = "text"
  /\ round > 1
  /\ \E finish \in Finish, verdict \in {"correct", "incorrect", "none"} :
       /\ Receive(finish)
       /\ gen' = Gen(finish, AsIs(finish))
       /\ IF finish # "stop" \/ verdict = "none"
          THEN at' = "failed" /\ round' = round
          ELSE IF verdict = "correct" \/ round > method.refinements
          THEN at' = "returned" /\ round' = round
          ELSE at' = "ask" /\ round' = round + 1
  /\ UNCHANGED <<node, complete>>

MethodStep ==
  \/ DirectReply \/ PalReply \/ PalExecute
  \/ PythonInitial \/ PythonFeedback \/ PythonExecute
  \/ TextInitial \/ TextRevision
=============================================================================
