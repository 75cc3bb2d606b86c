-------------------------- MODULE ControlledSample --------------------------
(***************************************************************************)
(* One sample inside a worker thread: _evaluate_problem                    *)
(* (src/benchmark_core/runner.py) around a method that talks to the model  *)
(* through a ControlledModelBackend (src/benchmark_core/fairness.py).      *)
(* The methods are in SampleMethods and WorkflowMethod.                    *)
(*                                                                         *)
(* Of a reply only its finish reason matters here, and of a Generation its *)
(* finish reason, the number of calls whose usage it reports, and whether  *)
(* its text is an answer in full, one cut short, or empty.                 *)
(***************************************************************************)
EXTENDS Integers, Sequences

CONSTANTS
  Methods,    (* the configured methods, see Method                       *)
  Scorers,    (* the datasets' scorers, a subset of ScorerKinds           *)
  None        (* no generation                                            *)

Finish == {"stop", "length", "other"}
ScorerKinds == {"numeric", "bridge", "strict", "judge"}
Operators == {"custom", "answer_generate", "ensemble", "programmer"}

(* A workflow's nodes name their inputs by position.                       *)
ValidWorkflow(w) ==
  /\ w.nodes \in Seq({w.nodes[n] : n \in DOMAIN w.nodes}) \ {<<>>}
  /\ w.output \in DOMAIN w.nodes
  /\ \A n \in DOMAIN w.nodes :
       LET node == w.nodes[n] IN
         /\ node.operator \in Operators
         /\ \A k \in DOMAIN node.inputs : node.inputs[k] \in 1 .. (n - 1)
         /\ node.operator = "ensemble" => Len(node.inputs) >= 2
         /\ node.operator \in {"custom", "answer_generate"} => node.inputs = <<>>
         /\ node.operator = "programmer" =>
              Len(node.inputs) <= 1 /\ node.attempts \in 1 .. 3

Kinds == {"direct", "pal", "python", "text", "workflow"}

ValidMethod(m) ==
  CASE m.kind \in {"direct", "pal"}  -> TRUE
    [] m.kind \in {"python", "text"} -> m.refinements \in Nat \ {0}
    [] m.kind = "workflow"           -> ValidWorkflow(m.workflow)

ASSUME SampleAssumption ==
  /\ \A m \in Methods : m.kind \in Kinds /\ ValidMethod(m)
  /\ Scorers \subseteq ScorerKinds

VARIABLES
  method,     (* the configured method                                    *)
  scorer,     (* the kind of scorer                                       *)
  at,         (* where the evaluation is, see At                          *)
  calls,      (* model_calls                                              *)
  replies,    (* the finish reasons of the generations received           *)
  round,      (* the refinement, or the programmer's attempt, it is at    *)
  node,       (* the workflow node it is at                               *)
  complete,   (* the workflow nodes whose output is complete              *)
  gen,        (* the Generation in hand                                   *)
  status,     (* the status of the score, "none" while evaluating         *)
  correct,    (* the score                                                *)
  broken      (* history: the infrastructure that failed the sample       *)

vars == <<method, scorer, at, calls, replies, round, node, complete, gen,
          status, correct, broken>>
progress == <<round, node, complete>>

(* "ask"       the method is about to call generate                        *)
(* "execute"   it is about to run a program the model wrote                *)
(* "returned"  it returned a Generation                                    *)
(* "failed"    it raised MethodOutcomeError                                *)
(* "scoring"   the Generation is finalized and goes to the scorer          *)
(* "done"      the EvaluationRecord is built                               *)
At == {"ask", "execute", "returned", "failed", "scoring", "done"}

Text == {"full", "cut", "empty"}

ASSUME NoneAssumption == None \notin [finish : Finish, text : Text, usage : Nat]

Gen(finish, text) == [finish |-> finish, text |-> text, usage |-> 1]

(* The text of a reply taken as it is.                                     *)
AsIs(finish) == IF finish = "stop" THEN "full" ELSE "cut"

(***************************************************************************)
(* The call bounds of FairnessPolicy                                       *)
(***************************************************************************)
NodeCalls(n) == IF n.operator = "programmer" THEN n.attempts ELSE 1

(* The calls of the first k nodes.                                         *)
CallsUpTo(w) ==
  LET upTo[k \in 0 .. Len(w.nodes)] ==
        IF k = 0 THEN 0 ELSE upTo[k - 1] + NodeCalls(w.nodes[k])
  IN upTo

WorkflowCalls(w) == CallsUpTo(w)[Len(w.nodes)]

(* Defect: a workflow is taken to make one call per node.                  *)
MaxCallsPerNode(m) ==
  CASE m.kind \in {"direct", "pal"}  -> 1
    [] m.kind \in {"python", "text"} -> 1 + m.refinements
    [] m.kind = "workflow"           -> Len(m.workflow.nodes)

MaxCalls(m) ==
  CASE m.kind \in {"direct", "pal"}  -> 1
    [] m.kind \in {"python", "text"} -> 1 + m.refinements
    [] m.kind = "workflow"           -> WorkflowCalls(m.workflow)

MinCalls(m) == IF m.kind \in {"python", "text"} THEN 2 ELSE 1

Init ==
  /\ method \in Methods
  /\ scorer \in Scorers
  /\ at = "ask"
  /\ calls = 0
  /\ replies = <<>>
  /\ round = 1
  /\ node = 1
  /\ complete = {}
  /\ gen = None
  /\ status = "none"
  /\ correct = FALSE
  /\ broken = {}

(***************************************************************************)
(* ControlledModelBackend.generate                                         *)
(***************************************************************************)
(* A reply, within the budget.                                             *)
Receive(finish) ==
  /\ at = "ask"
  /\ calls < MaxCalls(method)
  /\ calls' = calls + 1
  /\ replies' = Append(replies, finish)
  /\ UNCHANGED <<method, scorer, status, correct, broken>>

(* Score.failed: the record will stop the run and not be stored.           *)
Stop ==
  /\ status' = "error"
  /\ at' = "done"

(* generate raised: the budget is spent (FairnessViolation), or the        *)
(* request failed for good, which counts as a call but leaves no           *)
(* generation.  No method catches either.                                  *)
GenerateRaises ==
  LET refused == calls >= MaxCalls(method)
  IN /\ at = "ask"
     /\ calls' = IF refused THEN calls ELSE calls + 1
     /\ broken' = IF refused THEN broken ELSE broken \cup {"api"}
     /\ gen' = None
     /\ Stop
     /\ UNCHANGED <<method, scorer, replies, progress, correct>>

(* How a method ends: with a Generation, or with a MethodOutcomeError that *)
(* carries one.                                                            *)
Return(g) == at' = "returned" /\ gen' = g
Fail(g) == at' = "failed" /\ gen' = g

(***************************************************************************)
(* ControlledModelBackend.finalize and the scorer                          *)
(***************************************************************************)
(* The usage and latency of all the generations received.                  *)
Aggregated(g) == [g EXCEPT !.usage = Len(replies)]

(* FairnessViolation if the method made too few calls.                     *)
Finalize ==
  /\ at = "returned"
  /\ IF calls < MinCalls(method)
     THEN Stop /\ gen' = gen
     ELSE at' = "scoring" /\ gen' = Aggregated(gen) /\ status' = status
  /\ UNCHANGED <<method, scorer, calls, replies, progress, correct, broken>>

(* Defect: the minimum is enforced on a failed method, and what finalize   *)
(* then raises is reported as an error.                                    *)
RecordFailureStrict ==
  /\ at = "failed"
  /\ gen' = Aggregated(gen)
  /\ status' = IF calls < MinCalls(method) THEN "error" ELSE "method_failed"
  /\ at' = "done"
  /\ UNCHANGED <<method, scorer, calls, replies, progress, correct, broken>>

(* Defect: the failed method's generation is recorded as it was raised.    *)
RecordFailureAsRaised ==
  /\ at = "failed"
  /\ status' = "method_failed"
  /\ at' = "done"
  /\ UNCHANGED <<method, scorer, calls, replies, progress, gen, correct, broken>>

(* MethodOutcomeError: a finished sample, and an incorrect one.  The       *)
(* minimum of calls is not enforced.                                       *)
RecordFailure ==
  /\ at = "failed"
  /\ gen' = Aggregated(gen)
  /\ status' = "method_failed"
  /\ at' = "done"
  /\ UNCHANGED <<method, scorer, calls, replies, progress, correct, broken>>

(* Defect: a checker that credits a cut answer like any other.             *)
CreditsCut(g) ==
  IF scorer = "strict" /\ g.text = "empty" THEN {FALSE} ELSE BOOLEAN

(* What a scorer may say: HARP's checker finds no answer in an empty text, *)
(* and looks for none in a generation that did not stop of itself.         *)
Judgements(g) ==
  IF scorer = "strict" /\ (g.finish # "stop" \/ g.text = "empty")
  THEN {FALSE} ELSE BOOLEAN

Score ==
  /\ at = "scoring"
  /\ correct' \in Judgements(gen)
  /\ status' = "scored"
  /\ at' = "done"
  /\ UNCHANGED <<method, scorer, calls, replies, progress, gen, broken>>

(* Defect: a checker that fails counts as a wrong answer.                  *)
ScoreAnyway ==
  /\ at = "scoring"
  /\ scorer # "numeric"
  /\ broken' = broken \cup {"checker"}
  /\ status' = "scored"
  /\ at' = "done"
  /\ UNCHANGED <<method, scorer, calls, replies, progress, gen, correct>>

(* The checker's process, or the judge's API, failed.  The numeric scorer  *)
(* runs in place and has nothing that can.                                 *)
ScorerFails ==
  /\ at = "scoring"
  /\ scorer # "numeric"
  /\ broken' = broken \cup {"checker"}
  /\ Stop
  /\ UNCHANGED <<method, scorer, calls, replies, progress, gen, correct>>

ControlStep ==
  \/ GenerateRaises \/ Finalize \/ RecordFailure \/ Score \/ ScorerFails
=============================================================================
