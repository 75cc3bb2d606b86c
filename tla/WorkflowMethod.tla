--------------------------- MODULE WorkflowMethod ---------------------------
(***************************************************************************)
(* AFlowAdapter.run (src/adapters/aflow.py): the nodes of a frozen         *)
(* workflow in order.  A node's value is not represented, only whether it  *)
(* is complete; the finish reason reported is "stop" when the output       *)
(* node's value is complete and otherwise that of the last reply.          *)
(***************************************************************************)
EXTENDS SampleMethods

Nodes == method.workflow.nodes
Current == Nodes[node]

(* Defect: one attempt more than the node allows.                          *)
AttemptLeftLax == round <= Current.attempts
AttemptLeft == round < Current.attempts

(* Defect: an answer counts as complete whenever the workflow has one.     *)
ReportedStop(finish, out) == "stop"

(* The finish reason of the last reply stands for an answer that is not    *)
(* complete, whichever reply it came from.                                 *)
Reported(finish, out) == IF out THEN "stop" ELSE finish

(* The node's value is stored and the next node begins, or the workflow    *)
(* returns the value of its output node.                                   *)
Store(finish, isComplete) ==
  LET done == IF isComplete THEN complete \cup {node} ELSE complete
      ends == node = Len(Nodes)
      out  == method.workflow.output \in done
  IN /\ complete' = done
     /\ node' = IF ends THEN node ELSE node + 1
     /\ round' = 1
     /\ at' = IF ends THEN "returned" ELSE "ask"
     /\ gen' = IF ends
               THEN Gen(Reported(finish, out), IF out THEN "full" ELSE "cut")
               ELSE Gen(finish, AsIs(finish))

AtNode(operator) == method.kind = "workflow" /\ Current.operator = operator

CustomReply ==
  /\ AtNode("custom")
  /\ \E finish \in Finish : Receive(finish) /\ Store(finish, finish = "stop")

(* An <answer> field counts as complete wherever the reply ends.           *)
AnswerReply ==
  /\ AtNode("answer_generate")
  /\ \E finish \in Finish, field \in BOOLEAN :
       Receive(finish) /\ Store(finish, field \/ finish = "stop")

(* The letter of one of the inputs, whose value becomes this node's.       *)
EnsembleReply ==
  /\ AtNode("ensemble")
  /\ \E finish \in Finish, k \in DOMAIN Current.inputs :
       Receive(finish) /\ Store(finish, Current.inputs[k] \in complete)

(* No such letter: the workflow ends here, with an empty answer.           *)
EnsembleInvalid ==
  /\ AtNode("ensemble")
  /\ \E finish \in Finish : Receive(finish) /\ Return(Gen(finish, "empty"))
  /\ UNCHANGED progress

ProgrammerReply ==
  /\ AtNode("programmer")
  /\ \E finish \in Finish : Receive(finish) /\ gen' = Gen(finish, AsIs(finish))
  /\ at' = "execute"
  /\ UNCHANGED progress

ProgrammerValue ==
  /\ AtNode("programmer")
  /\ at = "execute"
  /\ Store(gen.finish, TRUE)
  /\ UNCHANGED <<method, scorer, calls, replies, status, correct, broken>>

(* The program failed: another attempt, with the error in the prompt, or,  *)
(* when there is none left, the end of the workflow.                       *)
ProgrammerError ==
  /\ AtNode("programmer")
  /\ at = "execute"
  /\ \E run \in Runs \ {"value"} : Ran(run)
  /\ IF AttemptLeft
     THEN /\ round' = round + 1
          /\ at' = "ask"
          /\ gen' = gen
     ELSE /\ Return(Gen(gen.finish, "empty"))
          /\ round' = round
  /\ UNCHANGED <<method, scorer, calls, replies, node, complete, status, correct>>

WorkflowStep ==
  \/ CustomReply \/ AnswerReply \/ EnsembleReply \/ EnsembleInvalid
  \/ ProgrammerReply \/ ProgrammerValue \/ ProgrammerError
=============================================================================
