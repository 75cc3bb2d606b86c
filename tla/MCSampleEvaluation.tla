------------------------- MODULE MCSampleEvaluation -------------------------
(* Every method; Self-Refine with one refinement and with three; workflows *)
(* with every operator, an output that is not the last node, an ensemble   *)
(* over a program, and programmers with one attempt and with several.      *)
EXTENDS SampleEvaluation

Custom == [operator |-> "custom", inputs |-> <<>>]
Answer == [operator |-> "answer_generate", inputs |-> <<>>]
Ensemble(inputs) == [operator |-> "ensemble", inputs |-> inputs]
Programmer(inputs, attempts) ==
  [operator |-> "programmer", inputs |-> inputs, attempts |-> attempts]

MCWorkflows ==
  {[nodes |-> <<Custom>>, output |-> 1],
   [nodes |-> <<Custom, Answer, Ensemble(<<1, 2>>)>>, output |-> 3],
   [nodes |-> <<Custom, Programmer(<<1>>, 2), Ensemble(<<1, 2>>)>>, output |-> 3],
   [nodes |-> <<Programmer(<<>>, 3), Custom>>, output |-> 1],
   [nodes |-> <<Answer, Programmer(<<1>>, 1), Custom>>, output |-> 2]}

MCMethods ==
  {[kind |-> "direct"], [kind |-> "pal"]}
    \cup {[kind |-> k, refinements |-> n] : k \in {"python", "text"}, n \in {1, 3}}
    \cup {[kind |-> "workflow", workflow |-> w] : w \in MCWorkflows}
=============================================================================
