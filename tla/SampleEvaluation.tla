-------------------------- MODULE SampleEvaluation --------------------------
(***************************************************************************)
(* The life of one sample, from the first call of its method to the record *)
(* it leaves: what EvaluationCell takes for the one step WorkerEnd.        *)
(***************************************************************************)
EXTENDS WorkflowMethod

Next == ControlStep \/ MethodStep \/ WorkflowStep

Spec == Init /\ [][Next]_vars

----------------------------------------------------------------------------
Recorded == status \in {"scored", "method_failed"}

(* Type correctness; every evaluated sample has a Generation to record.    *)
TypeOK ==
  /\ method \in Methods
  /\ scorer \in Scorers
  /\ at \in At
  /\ calls \in 0 .. MaxCalls(method)
  /\ replies \in Seq(Finish)
  /\ round \in 1 .. MaxCalls(method)
  /\ method.kind = "workflow" =>
       /\ node \in DOMAIN Nodes
       /\ complete \subseteq 1 .. node
       /\ round <= NodeCalls(Current)
  /\ gen \in [finish : Finish, text : Text, usage : 0 .. MaxCalls(method)]
             \cup {None}
  /\ status \in {"none", "scored", "method_failed", "error"}
  /\ correct \in BOOLEAN
  /\ broken \subseteq {"api", "executor", "checker"}
  /\ Recorded => gen # None
  /\ status = "none" <=> at # "done"

(* The call bounds computed from a method's configuration fit what the     *)
(* method does: no path through it is refused a call, and none that        *)
(* returns has made too few.                                               *)
PolicyFits ==
  /\ at = "ask" => calls < MaxCalls(method)
  /\ at = "returned" => calls >= MinCalls(method)

(* Whatever the model replies, it cannot stop a run: a sample ends in an   *)
(* error only when the API, or the checker, has failed it.                 *)
OnlyInfrastructureStops ==
  status = "error" => broken \cap {"api", "checker"} # {}

(* ... and when one of them has, the sample is not recorded as evaluated,  *)
(* so that a later run evaluates it again.                                 *)
FailureNotRecorded ==
  Recorded => broken \cap {"api", "checker"} = {}

(* A recorded sample reports the usage of every call it made, also when    *)
(* its method gave up half way.                                            *)
UsageComplete ==
  Recorded => gen.usage = calls /\ Len(replies) = calls

(* HARP's checker credits only an answer that was not cut short, whatever  *)
(* the method made of the reply, with one exception: when a workflow's     *)
(* answer comes from a reply that was cut, and a later one, for another    *)
(* node, was not, the finish reason reported is that of the later one.     *)
CutAnswerNotCredited ==
  status = "scored" /\ correct /\ scorer = "strict" =>
    \/ gen.text = "full"
    \/ /\ method.kind = "workflow"
       /\ replies[Len(replies)] = "stop"
       /\ \E k \in DOMAIN replies : replies[k] # "stop"

----------------------------------------------------------------------------
(* Stated by README.md, and not true of the code: "Failed API, environment,*)
(* or scoring operations do not create a completed sample record".         *)
EnvironmentFailureNotRecorded == Recorded => broken = {}
=============================================================================
