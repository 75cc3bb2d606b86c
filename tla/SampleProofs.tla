---------------------------- MODULE SampleProofs ----------------------------
(***************************************************************************)
(* Proofs about SampleEvaluation, for any methods: any workflow, any       *)
(* number of refinements and attempts.  The first part shows, by induction *)
(* over sets of natural numbers, that the recursive function that bounds   *)
(* the calls of a workflow is the sum it is meant to be; the second part   *)
(* follows the calls along each method.                                    *)
(***************************************************************************)
EXTENDS SampleEvaluation, WellFoundedInduction, SequenceTheorems, TLAPS

HasCut(rs) == \E k \in DOMAIN rs : rs[k] # "stop"

Generation == [finish : Finish, text : Text, usage : 0 .. MaxCalls(method)]

(* What a generation with finish reason "stop" holds.                      *)
Honest(g) ==
  g.finish = "stop" =>
    \/ g.text # "cut"
    \/ method.kind = "workflow" /\ replies[Len(replies)] = "stop" /\ HasCut(replies)

Typed ==
  /\ method \in Methods
  /\ scorer \in Scorers
  /\ at \in At
  /\ calls \in 0 .. MaxCalls(method)
  /\ replies \in Seq(Finish)
  /\ round \in 1 .. MaxCalls(method)
  /\ gen \in Generation \cup {None}
  /\ status \in {"none", "scored", "method_failed", "error"}
  /\ correct \in BOOLEAN
  /\ broken \subseteq {"api", "executor", "checker"}

(* Until the evaluation ends, only the executor may have failed, and every *)
(* call has a reply.                                                       *)
Going ==
  at # "done" =>
    /\ status = "none"
    /\ Len(replies) = calls
    /\ broken \subseteq {"executor"}
    /\ at # "ask" => gen # None /\ calls >= 1
    /\ at \in {"returned", "scoring"} => calls >= MinCalls(method) /\ Honest(gen)
    /\ at = "scoring" => gen.usage = calls

(* How it ends.                                                            *)
Ended ==
  at = "done" =>
    /\ status # "none"
    /\ status = "error" => broken \cap {"api", "checker"} # {}
    /\ status # "error" => /\ gen # None /\ gen.usage = calls /\ Len(replies) = calls
                           /\ broken \subseteq {"executor"}
    /\ status = "scored" /\ correct /\ scorer = "strict" =>
         Honest(gen) /\ gen.finish = "stop" /\ gen.text # "empty"

(* How many calls lie behind the point that a method has reached.          *)
SinglePath ==
  method.kind \in {"direct", "pal"} => (at = "ask" => calls = 0)

RefinePath ==
  method.kind \in {"python", "text"} =>
    /\ at = "ask" => calls = round - 1
    /\ at = "execute" => calls >= 2

(* Every stored value that is not complete comes from a reply that was cut,*)
(* directly or through an ensemble.                                        *)
WorkflowPath ==
  method.kind = "workflow" =>
    /\ node \in DOMAIN Nodes
    /\ complete \subseteq 1 .. node
    /\ round <= NodeCalls(Current)
    /\ at = "ask" => calls <= CallsUpTo(method.workflow)[node - 1] + round - 1
    /\ at = "execute" =>
         /\ calls <= CallsUpTo(method.workflow)[node - 1] + round
         /\ gen.finish = replies[Len(replies)]
    /\ at # "done" => \A n \in 1 .. node - 1 : n \in complete \/ HasCut(replies)

IInv == Typed /\ Going /\ Ended /\ SinglePath /\ RefinePath /\ WorkflowPath

----------------------------------------------------------------------------

(* Induction over the natural numbers, for the elements of a set.          *)
LEMMA SetInduction ==
  ASSUME NEW S, 0 \in S, \A n \in Nat : n \in S => n + 1 \in S
  PROVE  Nat \subseteq S
<1> SUFFICES ASSUME Nat \ S # {} PROVE FALSE
  OBVIOUS
<1> DEFINE T == Nat \ S
           R == OpToRel(<, Nat)
<1>1. IsWellFoundedOn(R, Nat)
  BY NatLessThanWellFounded
<1>2. \A a, b \in Nat : <<a, b>> \in R <=> a < b
  BY DEF OpToRel
<1> HIDE DEF R
<1>3. T \subseteq Nat /\ T # {}
  OBVIOUS
<1> HIDE DEF T
<1>4. PICK n \in T : \A m \in T : ~ (<<m, n>> \in R)
  BY <1>1, <1>3, WFMin
<1>5. n \in Nat /\ n \notin S
  BY DEF T
<1>6. n - 1 \in Nat /\ n - 1 < n
  BY <1>5
<1>7. n - 1 \in S
  BY <1>2, <1>4, <1>5, <1>6 DEF T
<1> QED
  BY <1>5, <1>6, <1>7

(* The sums of the first values of a function exist.                       *)
IsSum(g, n, c) ==
  /\ g \in [0 .. n -> Nat]
  /\ g[0] = 0
  /\ \A k \in 1 .. n : g[k] = g[k - 1] + c[k]

LEMMA SumsExist ==
  ASSUME NEW L \in Nat, NEW c \in [1 .. L -> Nat]
  PROVE  \E g : IsSum(g, L, c)
<1> DEFINE S == {n \in Nat : n <= L => \E g : IsSum(g, n, c)}
<1>1. 0 \in S
  <2> DEFINE g == [k \in 0 .. 0 |-> 0]
  <2>1. IsSum(g, 0, c)
    BY DEF IsSum
  <2> QED
    BY <2>1
<1>2. ASSUME NEW n \in Nat, n \in S
      PROVE  n + 1 \in S
  <2> SUFFICES ASSUME n + 1 <= L PROVE \E g : IsSum(g, n + 1, c)
    OBVIOUS
  <2>1. PICK g : IsSum(g, n, c)
    BY <1>2
  <2> DEFINE h == [k \in 0 .. n + 1 |-> IF k = n + 1 THEN g[n] + c[n + 1] ELSE g[k]]
  <2>2. c[n + 1] \in Nat /\ g \in [0 .. n -> Nat] /\ n \in 0 .. n
    BY <2>1 DEF IsSum
  <2>3. h \in [0 .. n + 1 -> Nat]
    BY <2>2
  <2>4. h[0] = 0
    BY <2>1 DEF IsSum
  <2>5. ASSUME NEW k \in 1 .. n + 1 PROVE h[k] = h[k - 1] + c[k]
    <3>1. CASE k = n + 1
      BY <3>1
    <3>2. CASE k # n + 1
      <4>1. k \in 1 .. n /\ k - 1 \in 0 .. n /\ k - 1 # n + 1
        BY <3>2
      <4> QED
        BY <2>1, <3>2, <4>1 DEF IsSum
    <3> QED
      BY <3>1, <3>2
  <2> HIDE DEF h
  <2>6. IsSum(h, n + 1, c)
    BY <2>3, <2>4, <2>5 DEF IsSum
  <2> QED
    BY <2>6
<1> HIDE DEF S
<1>3. Nat \subseteq S
  BY <1>1, <1>2, SetInduction
<1> QED
  BY <1>3 DEF S

(* They grow.                                                              *)
LEMMA SumsGrow ==
  ASSUME NEW L \in Nat, NEW c \in [1 .. L -> Nat], NEW g, IsSum(g, L, c),
         NEW m \in 0 .. L
  PROVE  g[m] <= g[L]
<1> DEFINE S == {d \in Nat : d <= L => g[L - d] <= g[L]}
<1>1. 0 \in S
  BY DEF IsSum
<1>2. ASSUME NEW d \in Nat, d \in S PROVE d + 1 \in S
  <2> SUFFICES ASSUME d + 1 <= L PROVE g[L - (d + 1)] <= g[L]
    OBVIOUS
  <2>1. L - d \in 1 .. L /\ L - (d + 1) = (L - d) - 1 /\ (L - d) - 1 \in 0 .. L
        /\ L - d \in 0 .. L /\ L \in 0 .. L
    OBVIOUS
  <2>2. g[L - d] = g[(L - d) - 1] + c[L - d]
    BY <2>1 DEF IsSum
  <2>3. c[L - d] \in Nat /\ g[(L - d) - 1] \in Nat /\ g[L - d] \in Nat /\ g[L] \in Nat
    BY <2>1 DEF IsSum
  <2>4. g[L - d] <= g[L]
    BY <1>2
  <2> QED
    BY <2>1, <2>2, <2>3, <2>4
<1> HIDE DEF S
<1>3. Nat \subseteq S
  BY <1>1, <1>2, SetInduction
<1>4. L - m \in S
  BY <1>3
<1>5. L - (L - m) = m
  OBVIOUS
<1> QED
  BY <1>4, <1>5 DEF S

(* A function that satisfies the equation is such a sum.                   *)
LEMMA SumsAreNatural ==
  ASSUME NEW L \in Nat, NEW c \in [1 .. L -> Nat], NEW h,
         h = [k \in 0 .. L |-> IF k = 0 THEN 0 ELSE h[k - 1] + c[k]]
  PROVE  IsSum(h, L, c)
<1>1. /\ h[0] = 0 /\ DOMAIN h = 0 .. L
      /\ \A k \in 1 .. L : h[k] = h[k - 1] + c[k]
  <2> DEFINE e == [k \in 0 .. L |-> IF k = 0 THEN 0 ELSE h[k - 1] + c[k]]
  <2>1. /\ e[0] = 0 /\ DOMAIN e = 0 .. L
        /\ \A k \in 1 .. L : e[k] = h[k - 1] + c[k]
    OBVIOUS
  <2>2. h = e
    OBVIOUS
  <2> HIDE DEF e
  <2> QED
    BY <2>1, <2>2
<1>2. h = [k \in 0 .. L |-> h[k]]
  <2> DEFINE e == [k \in 0 .. L |-> IF k = 0 THEN 0 ELSE h[k - 1] + c[k]]
  <2>1. e = [k \in 0 .. L |-> e[k]]
    OBVIOUS
  <2>2. h = e
    OBVIOUS
  <2> HIDE DEF e
  <2> QED
    BY <2>1, <2>2
<1> DEFINE S == {n \in Nat : n <= L => h[n] \in Nat}
<1>3. 0 \in S
  BY <1>1
<1>4. ASSUME NEW n \in Nat, n \in S PROVE n + 1 \in S
  <2> SUFFICES ASSUME n + 1 <= L PROVE h[n + 1] \in Nat
    OBVIOUS
  <2>1. n + 1 \in 1 .. L /\ (n + 1) - 1 = n /\ h[n] \in Nat
    BY <1>4
  <2>2. h[n + 1] = h[(n + 1) - 1] + c[n + 1] /\ c[n + 1] \in Nat
    BY <1>1, <2>1
  <2> QED
    BY <2>1, <2>2
<1> HIDE DEF S
<1>5. Nat \subseteq S
  BY <1>3, <1>4, SetInduction
<1>6. ASSUME NEW k \in 0 .. L PROVE h[k] \in Nat
  <2>1. k \in Nat /\ k <= L
    OBVIOUS
  <2>2. k \in S
    BY <1>5, <2>1
  <2> QED
    BY <2>1, <2>2, Zenon DEF S
<1>7. h \in [0 .. L -> Nat]
  BY <1>2, <1>6
<1> QED
  BY <1>1, <1>7 DEF IsSum

NodesCalls(w) == [k \in 1 .. Len(w.nodes) |-> NodeCalls(w.nodes[k])]

(* A workflow calls the model at least once in each of its nodes.          *)
LEMMA WorkflowFacts ==
  ASSUME NEW w, ValidWorkflow(w)
  PROVE  /\ Len(w.nodes) \in Nat \ {0} /\ DOMAIN w.nodes = 1 .. Len(w.nodes)
         /\ w.output \in 1 .. Len(w.nodes)
         /\ \A n \in 1 .. Len(w.nodes) : NodeCalls(w.nodes[n]) \in Nat \ {0}
<1>1. /\ w.nodes \in Seq({w.nodes[n] : n \in DOMAIN w.nodes}) /\ w.nodes # <<>>
      /\ w.output \in DOMAIN w.nodes
  BY DEF ValidWorkflow
<1>2. Len(w.nodes) \in Nat \ {0} /\ DOMAIN w.nodes = 1 .. Len(w.nodes)
  BY <1>1
<1>3. ASSUME NEW n \in DOMAIN w.nodes
      PROVE  NodeCalls(w.nodes[n]) \in Nat \ {0}
  <2>1. w.nodes[n].operator = "programmer" => w.nodes[n].attempts \in 1 .. 3
    BY DEF ValidWorkflow
  <2> QED
    BY <2>1 DEF NodeCalls
<1> QED
  BY <1>1, <1>2, <1>3

(* So the recursive function that bounds the calls of a workflow is what   *)
(* its equation says.                                                      *)
LEMMA CallsAreSums ==
  ASSUME NEW w, ValidWorkflow(w)
  PROVE  IsSum(CallsUpTo(w), Len(w.nodes), NodesCalls(w))
<1> DEFINE L == Len(w.nodes)
           c == NodesCalls(w)
           Defines(g) == g = [k \in 0 .. L |-> IF k = 0 THEN 0
                                               ELSE g[k - 1] + NodeCalls(w.nodes[k])]
<1>1. L \in Nat /\ c \in [1 .. L -> Nat] /\ \A k \in 1 .. L : c[k] = NodeCalls(w.nodes[k])
  BY WorkflowFacts DEF NodesCalls
<1>2. CallsUpTo(w) = CHOOSE h : Defines(h)
  BY DEF CallsUpTo
<1> HIDE DEF L, c
<1>3. PICK g : IsSum(g, L, c)
  BY <1>1, SumsExist
<1>4. Defines(g)
  <2>1. g = [k \in 0 .. L |-> g[k]]
    BY <1>3 DEF IsSum
  <2>2. ASSUME NEW k \in 0 .. L
        PROVE  g[k] = IF k = 0 THEN 0 ELSE g[k - 1] + NodeCalls(w.nodes[k])
    <3>1. CASE k = 0
      BY <1>3, <3>1 DEF IsSum
    <3>2. CASE k # 0
      <4>1. k \in 1 .. L
        BY <1>1, <3>2
      <4> QED
        BY <1>1, <1>3, <3>2, <4>1 DEF IsSum
    <3> QED
      BY <3>1, <3>2
  <2> QED
    BY <2>1, <2>2
<1>5. Defines(CallsUpTo(w))
  <2> HIDE DEF Defines
  <2> QED
    BY <1>2, <1>4
<1> DEFINE f == CallsUpTo(w)
<1> HIDE DEF f
<1>6. f = [k \in 0 .. L |-> IF k = 0 THEN 0 ELSE f[k - 1] + c[k]]
  <2>1. f = [k \in 0 .. L |-> IF k = 0 THEN 0 ELSE f[k - 1] + NodeCalls(w.nodes[k])]
    BY <1>5 DEF f
  <2>2. ASSUME NEW k \in 0 .. L
        PROVE  (IF k = 0 THEN 0 ELSE f[k - 1] + c[k])
                 = (IF k = 0 THEN 0 ELSE f[k - 1] + NodeCalls(w.nodes[k]))
    BY <1>1
  <2> QED
    BY <2>1, <2>2
<1>7. IsSum(f, L, c)
  BY <1>1, <1>6, SumsAreNatural
<1> QED
  BY <1>7 DEF f, L, c

LEMMA NodeFacts ==
  ASSUME NEW w, ValidWorkflow(w), NEW n \in 1 .. Len(w.nodes)
  PROVE  /\ CallsUpTo(w)[n - 1] \in Nat /\ CallsUpTo(w)[0] = 0
         /\ CallsUpTo(w)[n] = CallsUpTo(w)[n - 1] + NodeCalls(w.nodes[n])
         /\ CallsUpTo(w)[n] <= WorkflowCalls(w)
         /\ WorkflowCalls(w) \in Nat
         /\ NodeCalls(w.nodes[n]) \in Nat \ {0}
         /\ NodeCalls(w.nodes[n]) <= WorkflowCalls(w)
<1> DEFINE L == Len(w.nodes)
           c == NodesCalls(w)
           f == CallsUpTo(w)
<1>1. /\ L \in Nat /\ c \in [1 .. L -> Nat] /\ c[n] = NodeCalls(w.nodes[n])
      /\ NodeCalls(w.nodes[n]) \in Nat \ {0} /\ n \in 1 .. L
  BY WorkflowFacts DEF NodesCalls
<1>2. IsSum(f, L, c) /\ WorkflowCalls(w) = f[L]
  BY CallsAreSums DEF WorkflowCalls
<1> HIDE DEF L, c, f
<1>3. n \in 0 .. L /\ n - 1 \in 0 .. L /\ L \in 0 .. L
  BY <1>1
<1>4. f[n] <= f[L]
  BY <1>1, <1>2, <1>3, SumsGrow
<1>5. f[n] = f[n - 1] + c[n] /\ f[n - 1] \in Nat /\ f[n] \in Nat /\ f[L] \in Nat /\ f[0] = 0
  BY <1>1, <1>2, <1>3 DEF IsSum
<1> QED
  BY <1>1, <1>2, <1>4, <1>5 DEF f

(* The call bounds of a method.                                            *)
LEMMA MethodFacts ==
  ASSUME NEW m \in Methods
  PROVE  /\ m.kind \in Kinds
         /\ m.kind \in {"direct", "pal"} => MaxCalls(m) = 1 /\ MinCalls(m) = 1
         /\ m.kind \in {"python", "text"} =>
              /\ m.refinements \in Nat \ {0}
              /\ MaxCalls(m) = 1 + m.refinements
              /\ MinCalls(m) = 2
         /\ m.kind = "workflow" =>
              /\ ValidWorkflow(m.workflow)
              /\ MaxCalls(m) = WorkflowCalls(m.workflow)
              /\ MinCalls(m) = 1
         /\ MaxCalls(m) \in Nat \ {0}
<1>1. m.kind \in Kinds /\ ValidMethod(m)
  BY SampleAssumption
<1>2. CASE m.kind \in {"direct", "pal"}
  BY <1>2 DEF Kinds, MaxCalls, MinCalls
<1>3. CASE m.kind \in {"python", "text"}
  <2>1. m.refinements \in Nat \ {0}
    BY <1>1, <1>3 DEF ValidMethod
  <2> QED
    BY <1>3, <2>1 DEF Kinds, MaxCalls, MinCalls
<1>4. CASE m.kind = "workflow"
  <2>1. ValidWorkflow(m.workflow)
    BY <1>1, <1>4 DEF ValidMethod
  <2>2. MaxCalls(m) = WorkflowCalls(m.workflow) /\ MinCalls(m) = 1
    BY <1>4 DEF MaxCalls, MinCalls
  <2>3. 1 \in 1 .. Len(m.workflow.nodes)
    BY <2>1, WorkflowFacts
  <2>4. /\ WorkflowCalls(m.workflow) \in Nat
        /\ NodeCalls(m.workflow.nodes[1]) \in Nat \ {0}
        /\ NodeCalls(m.workflow.nodes[1]) <= WorkflowCalls(m.workflow)
    BY <2>1, <2>3, NodeFacts
  <2>5. WorkflowCalls(m.workflow) # 0
    BY <2>4
  <2> QED
    BY <1>4, <2>1, <2>2, <2>4, <2>5 DEF Kinds
<1> QED
  BY <1>1, <1>2, <1>3, <1>4 DEF Kinds

(* One more reply.                                                         *)
LEMMA ReceiveFacts ==
  ASSUME Typed, Going, NEW finish \in Finish, Receive(finish)
  PROVE  /\ at = "ask" /\ status = "none" /\ Len(replies) = calls
         /\ broken \subseteq {"executor"}
         /\ replies' \in Seq(Finish)
         /\ calls' = calls + 1 /\ calls' \in 1 .. MaxCalls(method)
         /\ Len(replies') = calls' /\ replies'[Len(replies')] = finish
         /\ HasCut(replies) => HasCut(replies')
         /\ finish # "stop" => HasCut(replies')
         /\ UNCHANGED <<method, scorer, status, correct, broken>>
<1>1. /\ at = "ask" /\ status = "none" /\ Len(replies) = calls
      /\ broken \subseteq {"executor"} /\ replies \in Seq(Finish) /\ method \in Methods
      /\ calls \in 0 .. MaxCalls(method) /\ MaxCalls(method) \in Nat
      /\ calls < MaxCalls(method) /\ calls' = calls + 1
      /\ replies' = Append(replies, finish)
      /\ UNCHANGED <<method, scorer, status, correct, broken>>
  BY MethodFacts DEF Typed, Going, Receive
<1>2. /\ replies' \in Seq(Finish) /\ Len(replies') = calls + 1
      /\ replies'[calls + 1] = finish /\ DOMAIN replies' = 1 .. calls + 1
      /\ DOMAIN replies = 1 .. calls
      /\ \A k \in 1 .. calls : replies'[k] = replies[k]
  BY <1>1
<1>3. HasCut(replies) => HasCut(replies')
  BY <1>1, <1>2 DEF HasCut
<1>4. finish # "stop" => HasCut(replies')
  BY <1>1, <1>2 DEF HasCut
<1> QED
  BY <1>1, <1>2, <1>3, <1>4

(* The generation of one reply.                                            *)
LEMMA GenFacts ==
  ASSUME method \in Methods, NEW finish \in Finish, NEW text \in Text
  PROVE  /\ Gen(finish, text) \in Generation
         /\ Gen(finish, text) # None
         /\ Gen(finish, text).finish = finish
         /\ Gen(finish, text).text = text
         /\ \A g \in Generation : g # None
<1>1. 1 \in 0 .. MaxCalls(method) /\ MaxCalls(method) \in Nat
  BY MethodFacts
<1>2. \A g \in Generation : g # None
  BY <1>1, NoneAssumption DEF Generation
<1> QED
  BY <1>1, <1>2 DEF Gen, Generation

(* The generation of a reply taken as it is.                               *)
LEMMA AsIsFacts ==
  ASSUME method \in Methods, NEW finish \in Finish
  PROVE  /\ Gen(finish, AsIs(finish)) \in Generation
         /\ Gen(finish, AsIs(finish)).finish = finish
         /\ finish = "stop" => Gen(finish, AsIs(finish)).text # "cut"
<1>1. AsIs(finish) \in Text /\ (finish = "stop" => AsIs(finish) # "cut")
  BY DEF AsIs, Text
<1> QED
  BY <1>1, GenFacts

----------------------------------------------------------------------------
(* A step after which the evaluation goes on.                              *)
LEMMA GoesOn ==
  ASSUME Typed, status = "none", UNCHANGED <<method, scorer, status, correct>>,
         at' \in At \ {"done"}, calls' \in 0 .. MaxCalls(method), calls' >= 1,
         replies' \in Seq(Finish), Len(replies') = calls',
         broken' \subseteq {"executor"}, round' \in 1 .. MaxCalls(method),
         gen' \in Generation,
         at' \in {"returned", "scoring"} => calls' >= MinCalls(method) /\ Honest(gen)',
         at' = "scoring" => gen'.usage = calls',
         SinglePath', RefinePath', WorkflowPath'
  PROVE  IInv'
<1>1. gen' # None /\ Generation' = Generation
  BY NoneAssumption, MethodFacts DEF Generation, Typed
<1>2. Typed'
  BY <1>1 DEF Typed, At
<1>3. Going'
  BY <1>1 DEF Going
<1>4. Ended'
  BY DEF Ended
<1> QED
  BY <1>2, <1>3, <1>4 DEF IInv

LEMMA DirectKeeps ==
  ASSUME IInv, DirectReply
  PROVE  IInv'
<1>1. PICK finish \in Finish : Receive(finish) /\ Return(Gen(finish, AsIs(finish)))
  BY DEF DirectReply
<1>2. Typed /\ Going /\ method \in Methods /\ method.kind = "direct" /\ UNCHANGED progress
  BY DEF IInv, Typed, DirectReply
<1>3. MinCalls(method) = 1 /\ MaxCalls(method) \in Nat
  BY <1>2, MethodFacts
<1>4. /\ status = "none" /\ UNCHANGED <<method, scorer, status, correct>>
      /\ replies' \in Seq(Finish) /\ calls' \in 1 .. MaxCalls(method)
      /\ Len(replies') = calls' /\ broken' \subseteq {"executor"}
  BY <1>1, <1>2, ReceiveFacts
<1>5. at' = "returned" /\ gen' = Gen(finish, AsIs(finish)) /\ round' = round
  BY <1>1, <1>2 DEF Return, progress
<1>6. gen' \in Generation /\ Honest(gen)'
  BY <1>1, <1>2, <1>5, AsIsFacts DEF Honest
<1>7. SinglePath' /\ RefinePath' /\ WorkflowPath'
  BY <1>2, <1>4, <1>5 DEF SinglePath, RefinePath, WorkflowPath
<1>8. round' \in 1 .. MaxCalls(method)
  BY <1>2, <1>5 DEF Typed
<1> QED
  BY <1>2, <1>3, <1>4, <1>5, <1>6, <1>7, <1>8, GoesOn DEF At

(* What restricted_python may do to the history.                           *)
LEMMA RanFacts ==
  ASSUME Typed, Going, at = "execute", NEW run, Ran(run)
  PROVE  /\ status = "none" /\ broken' \subseteq {"executor"} /\ Len(replies) = calls
         /\ calls \in 0 .. MaxCalls(method) /\ calls >= 1
         /\ replies \in Seq(Finish) /\ round \in 1 .. MaxCalls(method)
         /\ gen \in Generation /\ method \in Methods
         /\ gen.finish \in Finish /\ gen.text \in Text
BY DEF Typed, Going, Ran, Generation

LEMMA PalReplyKeeps ==
  ASSUME IInv, PalReply
  PROVE  IInv'
<1>1. PICK finish \in Finish : Receive(finish) /\ gen' = Gen(finish, AsIs(finish))
  BY DEF PalReply
<1>2. /\ Typed /\ Going /\ method \in Methods /\ method.kind = "pal"
      /\ round' = round /\ at' = "execute"
  BY DEF IInv, Typed, PalReply, progress
<1>3. /\ status = "none" /\ UNCHANGED <<method, scorer, status, correct>>
      /\ replies' \in Seq(Finish) /\ calls' \in 1 .. MaxCalls(method)
      /\ Len(replies') = calls' /\ broken' \subseteq {"executor"}
  BY <1>1, <1>2, ReceiveFacts
<1>4. gen' \in Generation
  BY <1>1, <1>2, AsIsFacts
<1>5. SinglePath' /\ RefinePath' /\ WorkflowPath'
  BY <1>2, <1>3 DEF SinglePath, RefinePath, WorkflowPath
<1>6. round' \in 1 .. MaxCalls(method) /\ calls' \in 0 .. MaxCalls(method) /\ calls' >= 1
  BY <1>2, <1>3, MethodFacts DEF Typed
<1> QED
  BY <1>2, <1>3, <1>4, <1>5, <1>6, GoesOn DEF At

LEMMA PalExecuteKeeps ==
  ASSUME IInv, PalExecute
  PROVE  IInv'
<1>1. PICK run \in Runs :
        /\ Ran(run)
        /\ Return(IF run = "value" THEN Gen("stop", "full")
                  ELSE Gen(gen.finish, "empty"))
  BY DEF PalExecute
<1>2. /\ Typed /\ Going /\ method.kind = "pal" /\ at = "execute"
      /\ UNCHANGED <<method, scorer, calls, replies, round, status, correct>>
  BY DEF IInv, PalExecute, progress
<1>3. /\ status = "none" /\ broken' \subseteq {"executor"} /\ Len(replies) = calls
      /\ calls \in 0 .. MaxCalls(method) /\ calls >= 1
      /\ replies \in Seq(Finish) /\ round \in 1 .. MaxCalls(method)
      /\ method \in Methods /\ gen.finish \in Finish
  BY <1>1, <1>2, RanFacts
<1>4. /\ at' = "returned"
      /\ gen' \in {Gen("stop", "full"), Gen(gen.finish, "empty")}
  BY <1>1 DEF Return
<1>5. gen' \in Generation /\ gen'.text # "cut"
  <2>1. "stop" \in Finish /\ "full" \in Text /\ "empty" \in Text
    BY DEF Finish, Text
  <2> QED
    BY <1>3, <1>4, <2>1, GenFacts
<1>6. SinglePath' /\ RefinePath' /\ WorkflowPath' /\ Honest(gen)'
  BY <1>2, <1>4, <1>5 DEF SinglePath, RefinePath, WorkflowPath, Honest
<1>7. MinCalls(method) = 1
  BY <1>2, <1>3, MethodFacts
<1> QED
  BY <1>2, <1>3, <1>4, <1>5, <1>6, <1>7, GoesOn DEF At

(* Self-Refine has made `round' calls once a reply has come.               *)
LEMMA RefineReply ==
  ASSUME IInv, method.kind \in {"python", "text"}, NEW finish \in Finish,
         Receive(finish), gen' = Gen(finish, AsIs(finish)),
         at' \in {"ask", "execute", "returned", "failed"},
         at' = "ask" => round' = round + 1 /\ round <= method.refinements,
         at' # "ask" => round' \in {round, round + 1} /\ round' <= method.refinements + 1,
         at' \in {"execute", "returned"} => round >= 2,
         at' = "returned" => finish = "stop"
  PROVE  IInv'
<1>1. Typed /\ Going /\ RefinePath /\ method \in Methods /\ round \in Nat \ {0}
  BY MethodFacts DEF IInv, Typed
<1>2. /\ at = "ask" /\ status = "none" /\ UNCHANGED <<method, scorer, status, correct>>
      /\ replies' \in Seq(Finish) /\ calls' \in 1 .. MaxCalls(method)
      /\ Len(replies') = calls' /\ broken' \subseteq {"executor"} /\ calls' = calls + 1
  BY <1>1, ReceiveFacts
<1>3. /\ method.refinements \in Nat \ {0} /\ MaxCalls(method) = 1 + method.refinements
      /\ MinCalls(method) = 2
  BY <1>1, MethodFacts
<1>4. calls' = round
  BY <1>1, <1>2 DEF RefinePath
<1>5. gen' \in Generation /\ (at' = "returned" => Honest(gen)')
  BY <1>1, AsIsFacts DEF Honest
<1>6. SinglePath' /\ RefinePath' /\ WorkflowPath'
  BY <1>1, <1>2, <1>4 DEF SinglePath, RefinePath, WorkflowPath
<1>7. round' \in 1 .. MaxCalls(method)
  BY <1>1, <1>3
<1>8. calls' \in 0 .. MaxCalls(method) /\ calls' >= 1
  BY <1>2, <1>3
<1> QED
  BY <1>1, <1>2, <1>3, <1>4, <1>5, <1>6, <1>7, <1>8, GoesOn DEF At

LEMMA RefineKeeps ==
  ASSUME IInv, \/ PythonInitial \/ PythonFeedback \/ TextInitial \/ TextRevision
  PROVE  IInv'
<1>1. /\ method \in Methods /\ method.kind \in {"python", "text"}
      /\ round \in Nat \ {0} /\ RefinePath /\ calls \in Nat
  BY MethodFacts DEF IInv, Typed, PythonInitial, PythonFeedback, TextInitial, TextRevision
<1>2. method.refinements \in Nat \ {0} /\ MaxCalls(method) = 1 + method.refinements
  BY <1>1, MethodFacts
<1>3. CASE PythonInitial
  <2>1. PICK finish \in Finish : Receive(finish) /\ gen' = Gen(finish, AsIs(finish))
    BY <1>3 DEF PythonInitial
  <2>2. at' = "ask" /\ round' = round + 1 /\ round <= method.refinements
    BY <1>2, <1>3, <2>1 DEF PythonInitial, Receive
  <2> QED
    BY <1>1, <2>1, <2>2, RefineReply
<1>4. CASE PythonFeedback
  <2>1. PICK finish \in Finish, verdict \in {"correct", "incorrect", "none"},
             rewritten \in BOOLEAN :
          /\ Receive(finish)
          /\ gen' = Gen(finish, AsIs(finish))
          /\ IF Rejected(finish, verdict, rewritten)
             THEN at' = "failed" /\ round' = round
             ELSE IF Accepted(finish, verdict) \/ round > method.refinements
             THEN at' = "execute" /\ round' = round
             ELSE at' = "ask" /\ round' = round + 1
    BY <1>4 DEF PythonFeedback
  <2>2. round >= 2 /\ round <= method.refinements + 1
    BY <1>1, <1>2, <1>4 DEF PythonFeedback, IInv, Typed
  <2>3. /\ at' \in {"ask", "execute", "failed"}
        /\ at' = "ask" => round' = round + 1 /\ round <= method.refinements
        /\ at' # "ask" => round' = round
    BY <1>1, <1>2, <2>1
  <2> QED
    BY <1>1, <1>2, <2>1, <2>2, <2>3, RefineReply
<1>5. CASE TextInitial
  <2>1. PICK finish \in Finish :
          /\ Receive(finish)
          /\ gen' = Gen(finish, AsIs(finish))
          /\ at' = IF finish = "other" THEN "failed" ELSE "ask"
    BY <1>5 DEF TextInitial
  <2>2. round' = round + 1 /\ round' <= method.refinements + 1 /\ round <= method.refinements
    BY <1>2, <1>5 DEF TextInitial
  <2>3. at' \in {"ask", "failed"}
    BY <2>1
  <2> QED
    BY <1>1, <2>1, <2>2, <2>3, RefineReply
<1>6. CASE TextRevision
  <2>1. PICK finish \in Finish, verdict \in {"correct", "incorrect", "none"} :
          /\ Receive(finish)
          /\ gen' = Gen(finish, AsIs(finish))
          /\ IF finish # "stop" \/ verdict = "none"
             THEN at' = "failed" /\ round' = round
             ELSE IF verdict = "correct" \/ round > method.refinements
             THEN at' = "returned" /\ round' = round
             ELSE at' = "ask" /\ round' = round + 1
    BY <1>6 DEF TextRevision
  <2>2. round >= 2 /\ round <= method.refinements + 1
    BY <1>1, <1>2, <1>6 DEF TextRevision, IInv, Typed
  <2>3. /\ at' \in {"ask", "returned", "failed"}
        /\ at' = "ask" => round' = round + 1 /\ round <= method.refinements
        /\ at' # "ask" => round' = round
        /\ at' = "returned" => finish = "stop"
    BY <1>1, <1>2, <2>1
  <2> QED
    BY <1>1, <1>2, <2>1, <2>2, <2>3, RefineReply
<1> QED
  BY <1>3, <1>4, <1>5, <1>6

LEMMA PythonExecuteKeeps ==
  ASSUME IInv, PythonExecute
  PROVE  IInv'
<1>1. PICK run \in Runs :
        /\ Ran(run)
        /\ IF run = "value" THEN Return(Gen("stop", "full")) ELSE Fail(gen)
  BY DEF PythonExecute
<1>2. /\ Typed /\ Going /\ RefinePath /\ method.kind = "python" /\ at = "execute"
      /\ UNCHANGED <<method, scorer, calls, replies, round, status, correct>>
  BY DEF IInv, PythonExecute, progress
<1>3. /\ status = "none" /\ broken' \subseteq {"executor"} /\ Len(replies) = calls
      /\ calls \in 0 .. MaxCalls(method) /\ calls >= 1
      /\ replies \in Seq(Finish) /\ round \in 1 .. MaxCalls(method)
      /\ method \in Methods /\ gen \in Generation
  BY <1>1, <1>2, RanFacts
<1>4. \/ at' = "returned" /\ gen' = Gen("stop", "full")
      \/ at' = "failed" /\ gen' = gen
  BY <1>1 DEF Return, Fail
<1>5. gen' \in Generation /\ (at' = "returned" => gen'.text # "cut")
  <2>1. "stop" \in Finish /\ "full" \in Text
    BY DEF Finish, Text
  <2> QED
    BY <1>3, <1>4, <2>1, GenFacts
<1>6. SinglePath' /\ RefinePath' /\ WorkflowPath' /\ (at' = "returned" => Honest(gen)')
  BY <1>2, <1>4, <1>5 DEF SinglePath, RefinePath, WorkflowPath, Honest
<1>7. MinCalls(method) = 2 /\ calls >= 2
  BY <1>2, <1>3, MethodFacts DEF RefinePath
<1> QED
  BY <1>2, <1>3, <1>4, <1>5, <1>6, <1>7, GoesOn DEF At

----------------------------------------------------------------------------
(* Where a workflow stands.                                                *)
LEMMA WorkflowNow ==
  ASSUME IInv, method.kind = "workflow"
  PROVE  /\ Typed /\ Going /\ WorkflowPath /\ method \in Methods
         /\ ValidWorkflow(method.workflow)
         /\ Len(Nodes) \in Nat \ {0} /\ DOMAIN Nodes = 1 .. Len(Nodes)
         /\ method.workflow.output \in 1 .. Len(Nodes)
         /\ node \in 1 .. Len(Nodes) /\ complete \subseteq 1 .. node
         /\ MinCalls(method) = 1 /\ MaxCalls(method) \in Nat \ {0}
         /\ NodeCalls(Current) \in Nat \ {0} /\ NodeCalls(Current) <= MaxCalls(method)
         /\ round \in Nat \ {0} /\ round <= NodeCalls(Current)
         /\ CallsUpTo(method.workflow)[node - 1] \in Nat
         /\ CallsUpTo(method.workflow)[node] =
              CallsUpTo(method.workflow)[node - 1] + NodeCalls(Current)
         /\ CallsUpTo(method.workflow)[node] <= MaxCalls(method)
<1>1. /\ Typed /\ Going /\ WorkflowPath /\ method \in Methods
      /\ ValidWorkflow(method.workflow) /\ MinCalls(method) = 1
      /\ MaxCalls(method) = WorkflowCalls(method.workflow)
      /\ MaxCalls(method) \in Nat \ {0}
  BY MethodFacts DEF IInv, Typed
<1>2. /\ Len(Nodes) \in Nat \ {0} /\ DOMAIN Nodes = 1 .. Len(Nodes)
      /\ method.workflow.output \in 1 .. Len(Nodes)
  BY <1>1, WorkflowFacts DEF Nodes
<1>3. /\ node \in 1 .. Len(Nodes) /\ complete \subseteq 1 .. node
      /\ round \in Nat \ {0} /\ round <= NodeCalls(Current)
  BY <1>1, <1>2 DEF WorkflowPath, Typed
<1>4. /\ NodeCalls(Current) \in Nat \ {0}
      /\ NodeCalls(Current) <= MaxCalls(method)
      /\ CallsUpTo(method.workflow)[node - 1] \in Nat
      /\ CallsUpTo(method.workflow)[node] =
           CallsUpTo(method.workflow)[node - 1] + NodeCalls(Current)
      /\ CallsUpTo(method.workflow)[node] <= MaxCalls(method)
  <2>1. node \in 1 .. Len(method.workflow.nodes)
    BY <1>3 DEF Nodes
  <2> QED
    BY <1>1, <2>1, NodeFacts DEF Current, Nodes
<1> QED
  BY <1>1, <1>2, <1>3, <1>4

(* A node's value is stored.                                               *)
LEMMA StoreKeeps ==
  ASSUME IInv, method.kind = "workflow", at # "done",
         NEW finish \in Finish, NEW b \in BOOLEAN, Store(finish, b),
         UNCHANGED <<method, scorer, status, correct>>,
         calls' \in 1 .. MaxCalls(method), replies' \in Seq(Finish),
         Len(replies') = calls', broken' \subseteq {"executor"},
         replies'[Len(replies')] = finish,
         HasCut(replies) => HasCut(replies'),
         ~b => HasCut(replies'),
         calls' <= CallsUpTo(method.workflow)[node]
  PROVE  IInv'
<1> DEFINE w == method.workflow
           L == Len(Nodes)
           done == IF b THEN complete \cup {node} ELSE complete
           out == w.output \in done
<1>1. /\ Typed /\ Going /\ WorkflowPath /\ method \in Methods /\ ValidWorkflow(w)
      /\ L \in Nat \ {0} /\ DOMAIN Nodes = 1 .. L /\ w.output \in 1 .. L
      /\ node \in 1 .. L /\ complete \subseteq 1 .. node
      /\ MinCalls(method) = 1 /\ MaxCalls(method) \in Nat \ {0}
  BY WorkflowNow
<1>2. status = "none" /\ \A n \in 1 .. node - 1 : n \in complete \/ HasCut(replies)
  BY <1>1 DEF Going, WorkflowPath
<1>3. \A n \in 1 .. node : n \in done \/ HasCut(replies')
  <2> SUFFICES ASSUME NEW n \in 1 .. node PROVE n \in done \/ HasCut(replies')
    OBVIOUS
  <2>1. CASE n = node
    BY <2>1
  <2>2. CASE n # node
    <3>1. n \in 1 .. node - 1
      BY <1>1, <2>2
    <3> QED
      BY <1>2, <3>1
  <2> QED
    BY <2>1, <2>2
<1>4. done \subseteq 1 .. node
  BY <1>1
<1>5. complete' = done /\ round' = 1
  BY DEF Store
<1>6. CASE node = L
  <2>1. /\ at' = "returned" /\ node' = node
        /\ gen' = Gen(Reported(finish, out), IF out THEN "full" ELSE "cut")
    BY <1>6 DEF Store
  <2> DEFINE text == IF out THEN "full" ELSE "cut"
  <2>2. Reported(finish, out) \in Finish /\ text \in Text
    BY DEF Reported, Finish, Text
  <2>3. /\ gen' \in Generation /\ gen'.finish = Reported(finish, out)
        /\ gen'.text = text
    BY <1>1, <2>1, <2>2, GenFacts
  <2>4. Honest(gen)'
    <3>1. out => gen'.text # "cut"
      BY <2>3
    <3>2. ~out => gen'.finish = finish /\ HasCut(replies')
      BY <1>1, <1>3, <1>6, <2>3 DEF Reported
    <3> QED
      BY <3>1, <3>2 DEF Honest
  <2>5. SinglePath' /\ RefinePath'
    BY DEF SinglePath, RefinePath
  <2>6. WorkflowPath'
    <3>1. /\ node' \in DOMAIN Nodes' /\ complete' \subseteq 1 .. node'
          /\ round' <= NodeCalls(Current)'
      BY <1>1, <1>4, <1>5, <2>1, WorkflowNow DEF Nodes, Current
    <3>2. \A n \in 1 .. node' - 1 : n \in complete' \/ HasCut(replies')
      BY <1>1, <1>3, <1>5, <2>1
    <3> QED
      BY <2>1, <3>1, <3>2 DEF WorkflowPath
  <2>7. calls' \in 0 .. MaxCalls(method) /\ calls' >= 1 /\ round' \in 1 .. MaxCalls(method)
    BY <1>1, <1>5
  <2> QED
    BY <1>1, <1>2, <2>1, <2>3, <2>4, <2>5, <2>6, <2>7, GoesOn DEF At
<1>7. CASE node # L
  <2>1. /\ at' = "ask" /\ node' = node + 1 /\ gen' = Gen(finish, AsIs(finish))
    BY <1>7 DEF Store
  <2>2. gen' \in Generation
    BY <1>1, <2>1, AsIsFacts
  <2>3. SinglePath' /\ RefinePath'
    BY DEF SinglePath, RefinePath
  <2>4. node' \in 1 .. L
    <3> HIDE DEF L
    <3> QED
      BY <1>1, <1>7, <2>1
  <2>5. WorkflowPath'
    <3>1. NodeCalls(Nodes[node']) \in Nat \ {0}
      BY <1>1, <2>4, WorkflowFacts DEF Nodes
    <3>2. /\ node' \in DOMAIN Nodes' /\ complete' \subseteq 1 .. node'
          /\ round' <= NodeCalls(Current)'
      BY <1>1, <1>4, <1>5, <2>1, <2>4, <3>1 DEF Nodes, Current
    <3>3. \A n \in 1 .. node' - 1 : n \in complete' \/ HasCut(replies')
      BY <1>1, <1>3, <1>5, <2>1
    <3>4. calls' <= CallsUpTo(method'.workflow)[node' - 1] + round' - 1
      <4>1. node' - 1 = node /\ CallsUpTo(w)[node] \in Nat
        BY <1>1, <2>1, WorkflowNow
      <4> QED
        BY <1>5, <4>1
    <3> QED
      BY <2>1, <3>2, <3>3, <3>4 DEF WorkflowPath
  <2>6. calls' \in 0 .. MaxCalls(method) /\ calls' >= 1 /\ round' \in 1 .. MaxCalls(method)
    BY <1>1, <1>5
  <2> QED
    BY <1>1, <1>2, <2>1, <2>2, <2>3, <2>5, <2>6, GoesOn DEF At
<1> QED
  BY <1>6, <1>7

(* One of the calls of the node at hand.                                   *)
LEMMA WorkflowReceive ==
  ASSUME IInv, method.kind = "workflow", NEW finish \in Finish, Receive(finish)
  PROVE  /\ at = "ask" /\ status = "none"
         /\ UNCHANGED <<method, scorer, status, correct, broken>>
         /\ calls' \in 1 .. MaxCalls(method) /\ replies' \in Seq(Finish)
         /\ Len(replies') = calls' /\ broken' \subseteq {"executor"}
         /\ replies'[Len(replies')] = finish
         /\ HasCut(replies) => HasCut(replies')
         /\ finish # "stop" => HasCut(replies')
         /\ calls' <= CallsUpTo(method.workflow)[node - 1] + round
         /\ calls' <= CallsUpTo(method.workflow)[node]
<1>1. /\ at = "ask" /\ status = "none"
      /\ UNCHANGED <<method, scorer, status, correct, broken>>
      /\ calls' \in 1 .. MaxCalls(method) /\ replies' \in Seq(Finish)
      /\ Len(replies') = calls' /\ broken' \subseteq {"executor"}
      /\ replies'[Len(replies')] = finish
      /\ HasCut(replies) => HasCut(replies')
      /\ finish # "stop" => HasCut(replies')
      /\ calls' = calls + 1 /\ calls \in Nat
  <2>1. Typed /\ Going /\ MaxCalls(method) \in Nat
    BY WorkflowNow
  <2>2. calls \in Nat
    BY <2>1 DEF Typed
  <2>3. broken' \subseteq {"executor"}
    BY <2>1, ReceiveFacts
  <2> QED
    BY <2>1, <2>2, <2>3, ReceiveFacts
<1>2. calls <= CallsUpTo(method.workflow)[node - 1] + round - 1
  BY <1>1, WorkflowNow DEF WorkflowPath
<1>3. /\ calls' <= CallsUpTo(method.workflow)[node - 1] + round
      /\ calls' <= CallsUpTo(method.workflow)[node]
  BY <1>1, <1>2, WorkflowNow
<1> QED
  BY <1>1, <1>3

LEMMA ReplyKeeps ==
  ASSUME IInv, CustomReply \/ AnswerReply \/ EnsembleReply
  PROVE  IInv'
<1>1. method.kind = "workflow"
  BY DEF CustomReply, AnswerReply, EnsembleReply, AtNode
<1>2. ASSUME NEW finish \in Finish, NEW b \in BOOLEAN, Receive(finish), Store(finish, b),
             ~b => finish # "stop" \/ HasCut(replies)
      PROVE  IInv'
  BY <1>1, <1>2, WorkflowReceive, StoreKeeps
<1>3. CASE CustomReply
  BY <1>2, <1>3 DEF CustomReply
<1>4. CASE AnswerReply
  BY <1>2, <1>4 DEF AnswerReply
<1>5. CASE EnsembleReply
  <2>1. PICK finish \in Finish, k \in DOMAIN Current.inputs :
          Receive(finish) /\ Store(finish, Current.inputs[k] \in complete)
    BY <1>5 DEF EnsembleReply
  <2>2. Current.inputs[k] \in 1 .. node - 1
    BY <1>1, WorkflowNow DEF ValidWorkflow, Current, Nodes
  <2>3. Current.inputs[k] \in complete \/ HasCut(replies)
    BY <1>1, <2>1, <2>2, WorkflowNow DEF WorkflowPath, Receive
  <2>4. CASE Current.inputs[k] \in complete
    <3>1. Store(finish, TRUE)
      BY <2>1, <2>4 DEF Store
    <3> QED
      BY <1>2, <2>1, <3>1
  <2>5. CASE Current.inputs[k] \notin complete
    <3>1. Store(finish, FALSE)
      BY <2>1, <2>5 DEF Store
    <3> QED
      BY <1>2, <2>1, <2>3, <2>5, <3>1
  <2> QED
    BY <2>4, <2>5
<1> QED
  BY <1>3, <1>4, <1>5

(* The other replies leave the node as it is.                              *)
LEMMA StaysAtNode ==
  ASSUME IInv, method.kind = "workflow", UNCHANGED <<node, complete>>,
         UNCHANGED <<method, scorer, status, correct>>, status = "none",
         at # "done", at' \in {"ask", "execute", "returned"},
         calls' \in 1 .. MaxCalls(method), replies' \in Seq(Finish),
         Len(replies') = calls', broken' \subseteq {"executor"},
         HasCut(replies) => HasCut(replies'),
         round' \in Nat \ {0}, round' <= NodeCalls(Current), gen' \in Generation,
         at' = "returned" => gen'.text # "cut",
         at' = "ask" => calls' <= CallsUpTo(method.workflow)[node - 1] + round' - 1,
         at' = "execute" =>
           /\ calls' <= CallsUpTo(method.workflow)[node - 1] + round'
           /\ gen'.finish = replies'[Len(replies')]
  PROVE  IInv'
<1>1. /\ Typed /\ WorkflowPath /\ MinCalls(method) = 1
      /\ MaxCalls(method) \in Nat \ {0} /\ NodeCalls(Current) \in Nat
      /\ NodeCalls(Current) <= MaxCalls(method)
  BY WorkflowNow
<1>2. WorkflowPath'
  BY <1>1 DEF WorkflowPath, Nodes, Current
<1>3. SinglePath' /\ RefinePath' /\ (at' = "returned" => Honest(gen)')
  BY DEF SinglePath, RefinePath, Honest
<1>4. calls' \in 0 .. MaxCalls(method) /\ calls' >= 1 /\ round' \in 1 .. MaxCalls(method)
  BY <1>1
<1> QED
  BY <1>1, <1>2, <1>3, <1>4, GoesOn DEF At

LEMMA EnsembleInvalidKeeps ==
  ASSUME IInv, EnsembleInvalid
  PROVE  IInv'
<1>1. PICK finish \in Finish : Receive(finish) /\ Return(Gen(finish, "empty"))
  BY DEF EnsembleInvalid
<1>2. /\ method.kind = "workflow" /\ UNCHANGED <<node, complete, round>>
      /\ at' = "returned" /\ gen' = Gen(finish, "empty")
  BY <1>1 DEF EnsembleInvalid, AtNode, Return, progress
<1>3. /\ round \in Nat \ {0} /\ round <= NodeCalls(Current) /\ method \in Methods
  BY <1>2, WorkflowNow
<1>4. gen' \in Generation /\ gen'.text # "cut"
  <2>1. "empty" \in Text
    BY DEF Text
  <2> QED
    BY <1>2, <1>3, <2>1, GenFacts
<1>5. /\ at = "ask" /\ status = "none"
      /\ UNCHANGED <<method, scorer, status, correct>>
      /\ calls' \in 1 .. MaxCalls(method) /\ replies' \in Seq(Finish)
      /\ Len(replies') = calls' /\ broken' \subseteq {"executor"}
      /\ HasCut(replies) => HasCut(replies')
  BY <1>1, <1>2, WorkflowReceive
<1> QED
  BY <1>2, <1>3, <1>4, <1>5, StaysAtNode

LEMMA ProgrammerReplyKeeps ==
  ASSUME IInv, ProgrammerReply
  PROVE  IInv'
<1>1. PICK finish \in Finish : Receive(finish) /\ gen' = Gen(finish, AsIs(finish))
  BY DEF ProgrammerReply
<1>2. /\ method.kind = "workflow" /\ UNCHANGED <<node, complete, round>>
      /\ at' = "execute"
  BY DEF ProgrammerReply, AtNode, progress
<1>3. /\ round \in Nat \ {0} /\ round <= NodeCalls(Current) /\ method \in Methods
  BY <1>2, WorkflowNow
<1>4. gen' \in Generation /\ gen'.finish = finish
  BY <1>1, <1>3, AsIsFacts
<1>5. /\ at = "ask" /\ status = "none"
      /\ UNCHANGED <<method, scorer, status, correct>>
      /\ calls' \in 1 .. MaxCalls(method) /\ replies' \in Seq(Finish)
      /\ Len(replies') = calls' /\ broken' \subseteq {"executor"}
      /\ HasCut(replies) => HasCut(replies')
      /\ replies'[Len(replies')] = finish
      /\ calls' <= CallsUpTo(method.workflow)[node - 1] + round
  BY <1>1, <1>2, WorkflowReceive
<1> QED
  BY <1>2, <1>3, <1>4, <1>5, StaysAtNode

(* After the reply, before the program is run.                             *)
LEMMA ExecuteFacts ==
  ASSUME IInv, method.kind = "workflow", at = "execute"
  PROVE  /\ status = "none" /\ calls \in 1 .. MaxCalls(method)
         /\ replies \in Seq(Finish) /\ Len(replies) = calls
         /\ broken \subseteq {"executor"} /\ gen \in Generation
         /\ gen.finish \in Finish /\ gen.finish = replies[Len(replies)]
         /\ calls <= CallsUpTo(method.workflow)[node - 1] + round
         /\ calls <= CallsUpTo(method.workflow)[node]
<1>1. Typed /\ Going /\ WorkflowPath /\ MaxCalls(method) \in Nat
  BY WorkflowNow
<1>2. /\ status = "none" /\ calls \in 1 .. MaxCalls(method)
      /\ replies \in Seq(Finish) /\ Len(replies) = calls
      /\ broken \subseteq {"executor"} /\ gen \in Generation
  BY <1>1 DEF Typed, Going
<1>3. gen.finish \in Finish
  BY <1>2 DEF Generation
<1>4. /\ gen.finish = replies[Len(replies)]
      /\ calls <= CallsUpTo(method.workflow)[node - 1] + round
  BY <1>1 DEF WorkflowPath
<1>5. calls <= CallsUpTo(method.workflow)[node]
  BY <1>2, <1>4, WorkflowNow
<1> QED
  BY <1>2, <1>3, <1>4, <1>5

LEMMA ProgrammerValueKeeps ==
  ASSUME IInv, ProgrammerValue
  PROVE  IInv'
<1>1. /\ method.kind = "workflow" /\ at = "execute" /\ Store(gen.finish, TRUE)
      /\ UNCHANGED <<method, scorer, calls, replies, status, correct, broken>>
  BY DEF ProgrammerValue, AtNode
<1>2. HasCut(replies) => HasCut(replies')
  BY <1>1
<1>3. /\ calls' \in 1 .. MaxCalls(method) /\ replies' \in Seq(Finish)
      /\ Len(replies') = calls' /\ broken' \subseteq {"executor"}
      /\ gen.finish \in Finish /\ replies'[Len(replies')] = gen.finish
      /\ calls' <= CallsUpTo(method.workflow)[node]
  BY <1>1, ExecuteFacts
<1> QED
  BY <1>1, <1>2, <1>3, StoreKeeps

LEMMA ProgrammerErrorKeeps ==
  ASSUME IInv, ProgrammerError
  PROVE  IInv'
<1>1. /\ method.kind = "workflow" /\ at = "execute"
      /\ Current.operator = "programmer"
      /\ UNCHANGED <<method, scorer, calls, replies, node, complete, status, correct>>
  BY DEF ProgrammerError, AtNode
<1>2. PICK run \in Runs \ {"value"} : Ran(run)
  BY DEF ProgrammerError
<1>3. /\ Typed /\ Going /\ method \in Methods /\ round \in Nat \ {0}
      /\ round <= NodeCalls(Current) /\ NodeCalls(Current) \in Nat
      /\ CallsUpTo(method.workflow)[node - 1] \in Nat
  BY <1>1, WorkflowNow
<1>4. /\ status = "none" /\ calls \in 1 .. MaxCalls(method)
      /\ replies \in Seq(Finish) /\ Len(replies) = calls
      /\ gen \in Generation /\ gen.finish \in Finish
      /\ calls <= CallsUpTo(method.workflow)[node - 1] + round
  BY <1>1, ExecuteFacts
<1>5. broken' \subseteq {"executor"}
  BY <1>1, <1>2, <1>3, RanFacts
<1>6. CASE AttemptLeft
  <2>1. round' = round + 1 /\ at' = "ask" /\ gen' = gen
    BY <1>6 DEF ProgrammerError
  <2>2. round' <= NodeCalls(Current)
    BY <1>1, <1>3, <1>6, <2>1 DEF AttemptLeft, NodeCalls
  <2>3. /\ round' \in Nat \ {0}
        /\ calls' <= CallsUpTo(method.workflow)[node - 1] + round' - 1
    BY <1>1, <1>3, <1>4, <2>1
  <2> QED
    BY <1>1, <1>4, <1>5, <2>1, <2>2, <2>3, StaysAtNode
<1>7. CASE ~AttemptLeft
  <2>1. round' = round /\ at' = "returned" /\ gen' = Gen(gen.finish, "empty")
    BY <1>7 DEF ProgrammerError, Return
  <2>2. gen' \in Generation /\ gen'.text # "cut"
    <3>1. "empty" \in Text
      BY DEF Text
    <3> QED
      BY <1>3, <1>4, <2>1, <3>1, GenFacts
  <2> QED
    BY <1>1, <1>3, <1>4, <1>5, <2>1, <2>2, StaysAtNode
<1> QED
  BY <1>6, <1>7

----------------------------------------------------------------------------
(* No method is refused a call, whatever path it takes.                    *)
LEMMA CallsLeft ==
  ASSUME IInv, at = "ask"
  PROVE  calls < MaxCalls(method)
<1>1. method \in Methods /\ calls \in Nat /\ MaxCalls(method) \in Nat \ {0}
  BY MethodFacts DEF IInv, Typed
<1>2. CASE method.kind \in {"direct", "pal"}
  BY <1>1, <1>2 DEF IInv, SinglePath
<1>3. CASE method.kind \in {"python", "text"}
  <2>1. calls = round - 1 /\ round \in 1 .. MaxCalls(method)
    BY <1>3 DEF IInv, RefinePath, Typed
  <2> QED
    BY <1>1, <2>1
<1>4. CASE method.kind = "workflow"
  <2>1. calls <= CallsUpTo(method.workflow)[node - 1] + round - 1
    BY <1>4 DEF IInv, WorkflowPath
  <2> QED
    BY <1>1, <1>4, <2>1, WorkflowNow
<1> QED
  BY <1>1, <1>2, <1>3, <1>4, MethodFacts DEF Kinds

(* The evaluation ends.                                                    *)
LEMMA Ends ==
  ASSUME IInv, UNCHANGED <<method, scorer, replies, progress>>, at' = "done",
         calls' \in 0 .. MaxCalls(method), gen' \in Generation \cup {None},
         correct' \in BOOLEAN, broken' \subseteq {"api", "executor", "checker"},
         status' \in {"scored", "method_failed", "error"}, Ended'
  PROVE  IInv'
<1>1. Typed /\ Generation' = Generation
  BY DEF IInv, Generation
<1>2. Typed'
  BY <1>1 DEF Typed, At, progress
<1>3. Going' /\ SinglePath' /\ RefinePath'
  BY DEF Going, SinglePath, RefinePath
<1>4. WorkflowPath'
  BY DEF IInv, WorkflowPath, Nodes, Current, progress
<1> QED
  BY <1>2, <1>3, <1>4 DEF IInv

(* The usage of all calls.                                                 *)
LEMMA AggregatedFacts ==
  ASSUME IInv, at \in {"returned", "failed"}
  PROVE  /\ Aggregated(gen) \in Generation /\ Aggregated(gen).usage = calls
         /\ Aggregated(gen).finish = gen.finish /\ Aggregated(gen).text = gen.text
         /\ Aggregated(gen) # None
<1>1. /\ gen \in Generation /\ Len(replies) = calls /\ calls \in 0 .. MaxCalls(method)
      /\ method \in Methods
  BY DEF IInv, Typed, Going
<1>2. /\ Aggregated(gen) \in Generation /\ Aggregated(gen).usage = calls
      /\ Aggregated(gen).finish = gen.finish /\ Aggregated(gen).text = gen.text
  BY <1>1 DEF Aggregated, Generation
<1>3. Aggregated(gen) # None
  BY <1>1, <1>2, NoneAssumption, MethodFacts DEF Generation
<1> QED
  BY <1>2, <1>3

LEMMA GenerateRaisesKeeps ==
  ASSUME IInv, GenerateRaises
  PROVE  IInv'
<1>1. /\ Typed /\ Going /\ at = "ask" /\ calls \in 0 .. MaxCalls(method)
      /\ MaxCalls(method) \in Nat /\ broken \subseteq {"executor"} /\ correct \in BOOLEAN
  BY MethodFacts DEF IInv, Typed, Going, GenerateRaises
<1>2. calls < MaxCalls(method)
  BY <1>1, CallsLeft
<1>3. ~(calls >= MaxCalls(method))
  BY <1>1, <1>2
<1>4. /\ calls' = calls + 1 /\ broken' = broken \cup {"api"}
      /\ gen' = None /\ at' = "done" /\ status' = "error"
      /\ UNCHANGED <<method, scorer, replies, progress, correct>>
  BY <1>3 DEF GenerateRaises, Stop
<1>5. Ended'
  BY <1>4 DEF Ended
<1>6. /\ calls' \in 0 .. MaxCalls(method) /\ correct' \in BOOLEAN
      /\ broken' \subseteq {"api", "executor", "checker"}
  BY <1>1, <1>2, <1>4
<1> QED
  BY <1>4, <1>5, <1>6, Ends

LEMMA FinalizeKeeps ==
  ASSUME IInv, Finalize
  PROVE  IInv'
<1>1. /\ Typed /\ Going /\ at = "returned" /\ method \in Methods
      /\ calls \in 0 .. MaxCalls(method) /\ calls >= 1
      /\ MaxCalls(method) \in Nat /\ calls >= MinCalls(method) /\ Honest(gen)
      /\ status = "none" /\ Len(replies) = calls /\ replies \in Seq(Finish)
      /\ broken \subseteq {"executor"} /\ round \in 1 .. MaxCalls(method)
  BY MethodFacts DEF IInv, Typed, Going, Finalize
<1>2. ~(calls < MinCalls(method))
  <2>1. MinCalls(method) \in Nat
    BY <1>1, MethodFacts DEF MinCalls
  <2> QED
    BY <1>1, <2>1
<1>3. /\ at' = "scoring" /\ gen' = Aggregated(gen) /\ status' = status
      /\ UNCHANGED <<method, scorer, calls, replies, progress, correct, broken>>
  BY <1>2 DEF Finalize
<1>4. /\ gen' \in Generation /\ gen'.usage = calls
      /\ gen'.finish = gen.finish /\ gen'.text = gen.text
  BY <1>1, <1>3, AggregatedFacts
<1>5. Honest(gen)'
  BY <1>1, <1>3, <1>4 DEF Honest
<1>6. SinglePath' /\ RefinePath' /\ WorkflowPath'
  <2>1. WorkflowPath
    BY DEF IInv
  <2> QED
    BY <1>1, <1>3, <2>1 DEF SinglePath, RefinePath, WorkflowPath, Nodes, Current, progress
<1>7. round' = round
  BY <1>3 DEF progress
<1> QED
  BY <1>1, <1>3, <1>4, <1>5, <1>6, <1>7, GoesOn DEF At

LEMMA RecordFailureKeeps ==
  ASSUME IInv, RecordFailure
  PROVE  IInv'
<1>1. /\ at = "failed" /\ Len(replies) = calls /\ calls \in 0 .. MaxCalls(method)
      /\ broken \subseteq {"executor"} /\ correct \in BOOLEAN
  BY DEF IInv, Typed, Going, RecordFailure
<1>2. /\ gen' = Aggregated(gen) /\ status' = "method_failed" /\ at' = "done"
      /\ UNCHANGED <<method, scorer, calls, replies, progress, correct, broken>>
  BY DEF RecordFailure
<1>3. gen' \in Generation /\ gen'.usage = calls /\ gen' # None
  BY <1>1, <1>2, AggregatedFacts
<1>4. Ended'
  BY <1>1, <1>2, <1>3 DEF Ended
<1> QED
  BY <1>1, <1>2, <1>3, <1>4, Ends

LEMMA ScoreKeeps ==
  ASSUME IInv, Score
  PROVE  IInv'
<1>1. /\ at = "scoring" /\ Len(replies) = calls /\ calls \in 0 .. MaxCalls(method)
      /\ broken \subseteq {"executor"} /\ gen \in Generation \cup {None} /\ gen # None
      /\ gen.usage = calls /\ Honest(gen)
  BY DEF IInv, Typed, Going, Score
<1>2. /\ correct' \in Judgements(gen) /\ status' = "scored" /\ at' = "done"
      /\ UNCHANGED <<method, scorer, calls, replies, progress, gen, broken>>
  BY DEF Score
<1>3. /\ correct' \in BOOLEAN
      /\ correct' /\ scorer = "strict" => gen.finish = "stop" /\ gen.text # "empty"
  <2>1. CASE scorer = "strict" /\ (gen.finish # "stop" \/ gen.text = "empty")
    BY <1>2, <2>1 DEF Judgements
  <2>2. CASE ~(scorer = "strict" /\ (gen.finish # "stop" \/ gen.text = "empty"))
    BY <1>2, <2>2 DEF Judgements
  <2> QED
    BY <2>1, <2>2
<1>4. Honest(gen)'
  BY <1>1, <1>2 DEF Honest
<1>5. Ended'
  BY <1>1, <1>2, <1>3, <1>4 DEF Ended
<1> QED
  BY <1>1, <1>2, <1>3, <1>5, Ends

LEMMA ScorerFailsKeeps ==
  ASSUME IInv, ScorerFails
  PROVE  IInv'
<1>1. /\ calls \in 0 .. MaxCalls(method) /\ broken \subseteq {"executor"}
      /\ gen \in Generation \cup {None} /\ correct \in BOOLEAN
  BY DEF IInv, Typed, Going, ScorerFails
<1>2. /\ status' = "error" /\ at' = "done" /\ broken' = broken \cup {"checker"}
      /\ UNCHANGED <<method, scorer, calls, replies, progress, gen, correct>>
  BY DEF ScorerFails, Stop
<1>3. Ended' /\ broken' \subseteq {"api", "executor", "checker"}
  BY <1>1, <1>2 DEF Ended
<1> QED
  BY <1>1, <1>2, <1>3, Ends
----------------------------------------------------------------------------
LEMMA InitHolds ==
  ASSUME Init
  PROVE  IInv
<1>1. /\ method \in Methods /\ MaxCalls(method) \in Nat \ {0}
      /\ replies \in Seq(Finish) /\ Len(replies) = 0
  <2>1. <<>> \in Seq(Finish) /\ Len(<<>>) = 0
    OBVIOUS
  <2>2. method \in Methods /\ replies = <<>>
    BY DEF Init
  <2>3. MaxCalls(method) \in Nat \ {0}
    BY <2>2, MethodFacts
  <2> QED
    BY <2>1, <2>2, <2>3
<1>2. Typed
  <2>1. /\ calls \in 0 .. MaxCalls(method) /\ round \in 1 .. MaxCalls(method)
        /\ scorer \in Scorers /\ at \in At
    BY <1>1 DEF Init, At
  <2>2. /\ gen \in Generation \cup {None} /\ correct \in BOOLEAN
        /\ status \in {"none", "scored", "method_failed", "error"}
        /\ broken \subseteq {"api", "executor", "checker"}
    BY DEF Init
  <2> QED
    BY <1>1, <2>1, <2>2 DEF Typed
<1>3. Going /\ Ended /\ SinglePath /\ RefinePath
  BY <1>1 DEF Init, Going, Ended, SinglePath, RefinePath
<1>4. WorkflowPath
  <2> SUFFICES ASSUME method.kind = "workflow" PROVE WorkflowPath
    BY DEF WorkflowPath
  <2>1. ValidWorkflow(method.workflow)
    BY <1>1, MethodFacts
  <2>2. node = 1 /\ 1 \in 1 .. Len(Nodes) /\ DOMAIN Nodes = 1 .. Len(Nodes)
    BY <2>1, WorkflowFacts DEF Nodes, Init
  <2>3. NodeCalls(Current) \in Nat \ {0} /\ CallsUpTo(method.workflow)[1 - 1] \in Nat
    BY <2>1, <2>2, NodeFacts DEF Nodes, Current
  <2> QED
    BY <2>2, <2>3 DEF Init, WorkflowPath
<1> QED
  BY <1>2, <1>3, <1>4 DEF IInv

LEMMA NextKeeps ==
  ASSUME IInv, [Next]_vars
  PROVE  IInv'
<1>1. CASE UNCHANGED vars
  BY <1>1 DEF vars, IInv, Typed, Generation, Going, Honest, Ended, SinglePath,
              RefinePath, WorkflowPath, Nodes, Current
<1>2. CASE ControlStep
  BY <1>2, GenerateRaisesKeeps, FinalizeKeeps, RecordFailureKeeps, ScoreKeeps,
     ScorerFailsKeeps DEF ControlStep
<1>3. CASE MethodStep
  BY <1>3, DirectKeeps, PalReplyKeeps, PalExecuteKeeps, RefineKeeps,
     PythonExecuteKeeps DEF MethodStep
<1>4. CASE WorkflowStep
  BY <1>4, ReplyKeeps, EnsembleInvalidKeeps, ProgrammerReplyKeeps,
     ProgrammerValueKeeps, ProgrammerErrorKeeps DEF WorkflowStep
<1> QED
  BY <1>1, <1>2, <1>3, <1>4 DEF Next

(* The invariant holds in the evaluation of any sample.                    *)
THEOREM Invariant == Spec => []IInv
BY InitHolds, NextKeeps, PTL DEF Spec

(* Types, for any methods; every evaluated sample has a Generation.        *)
THEOREM TypeCorrect == Spec => []TypeOK
<1>1. ASSUME IInv PROVE TypeOK
  <2>1. Typed /\ Going /\ Ended /\ WorkflowPath
    BY <1>1 DEF IInv
  <2>2. Recorded => gen # None
    BY <2>1 DEF Recorded, Going, Ended
  <2>3. status = "none" <=> at # "done"
    BY <2>1 DEF Going, Ended
  <2> QED
    BY <2>1, <2>2, <2>3 DEF TypeOK, Typed, Generation, WorkflowPath
<1> QED
  BY <1>1, Invariant, PTL

(* For every workflow, and any number of refinements and attempts, the     *)
(* call bounds of FairnessPolicy are right: the recursive count of the     *)
(* calls of a workflow is an upper bound of every path through it, and no  *)
(* method that returns has made too few calls.                             *)
THEOREM CallBoundsFit == Spec => []PolicyFits
<1>1. ASSUME IInv PROVE PolicyFits
  BY <1>1, CallsLeft DEF IInv, Going, PolicyFits
<1> QED
  BY <1>1, Invariant, PTL

(* Whatever a model replies, only the API or a checker ends a sample in an *)
(* error.                                                                  *)
THEOREM ModelCannotStopARun == Spec => []OnlyInfrastructureStops
<1>1. IInv => OnlyInfrastructureStops
  BY DEF IInv, Going, Ended, OnlyInfrastructureStops
<1> QED
  BY <1>1, Invariant, PTL

(* A sample that the API or the checker failed is never recorded.          *)
THEOREM FailuresAreNotRecorded == Spec => []FailureNotRecorded
<1>1. IInv => FailureNotRecorded
  BY DEF IInv, Going, Ended, FailureNotRecorded, Recorded
<1> QED
  BY <1>1, Invariant, PTL

(* A recorded sample reports the usage of all its calls.                   *)
THEOREM UsageIsComplete == Spec => []UsageComplete
<1>1. IInv => UsageComplete
  BY DEF IInv, Going, Ended, UsageComplete, Recorded
<1> QED
  BY <1>1, Invariant, PTL

(* The strict checker credits no cut answer, with the exception named in   *)
(* the property, whatever the workflow.                                    *)
THEOREM CutAnswersEarnNothing == Spec => []CutAnswerNotCredited
<1>1. ASSUME IInv PROVE CutAnswerNotCredited
  <2> SUFFICES ASSUME status = "scored" /\ correct /\ scorer = "strict"
               PROVE  \/ gen.text = "full"
                      \/ /\ method.kind = "workflow"
                         /\ replies[Len(replies)] = "stop"
                         /\ \E k \in DOMAIN replies : replies[k] # "stop"
    BY DEF CutAnswerNotCredited
  <2>1. /\ at = "done" /\ gen # None /\ Honest(gen) /\ gen.finish = "stop"
        /\ gen.text # "empty" /\ gen \in Generation \cup {None}
    BY <1>1 DEF IInv, Typed, Going, Ended
  <2>2. gen.text \in Text
    BY <2>1 DEF Generation
  <2> QED
    BY <2>1, <2>2 DEF Honest, HasCut, Text
<1> QED
  BY <1>1, Invariant, PTL

----------------------------------------------------------------------------
(* Progress, without fairness                                              *)

(* Only a method that lets the model write programs runs any.              *)
RunsPrograms ==
  at = "execute" => method.kind \in {"pal", "python"} \/ AtNode("programmer")

LEMMA RunsProgramsKept == Spec => []RunsPrograms
<1>1. Init => RunsPrograms
  BY DEF Init, RunsPrograms
<1>2. RunsPrograms /\ [Next]_vars => RunsPrograms'
  <2> SUFFICES ASSUME RunsPrograms, [Next]_vars PROVE RunsPrograms'
    OBVIOUS
  <2>1. CASE ControlStep
    BY <2>1 DEF ControlStep, GenerateRaises, Finalize, RecordFailure, Score, ScorerFails,
                Stop, RunsPrograms
  <2>2. CASE DirectReply \/ PalReply \/ PalExecute
    BY <2>2 DEF DirectReply, PalReply, PalExecute, Receive, Return, RunsPrograms
  <2>3. CASE PythonInitial \/ PythonFeedback \/ PythonExecute
    BY <2>3 DEF PythonInitial, PythonFeedback, PythonExecute, Receive, Return, Fail,
                RunsPrograms
  <2>4. CASE TextInitial \/ TextRevision
    BY <2>4 DEF TextInitial, TextRevision, Receive, RunsPrograms
  <2>5. CASE CustomReply \/ AnswerReply \/ EnsembleReply \/ ProgrammerValue
    BY <2>5 DEF CustomReply, AnswerReply, EnsembleReply, ProgrammerValue, Store, RunsPrograms
  <2>6. CASE EnsembleInvalid \/ ProgrammerError
    BY <2>6 DEF EnsembleInvalid, ProgrammerError, Return, RunsPrograms
  <2>7. CASE ProgrammerReply
    BY <2>7 DEF ProgrammerReply, AtNode, Current, Nodes, Receive, progress, RunsPrograms
  <2>8. CASE UNCHANGED vars
    BY <2>8 DEF vars, AtNode, Current, Nodes, RunsPrograms
  <2> QED
    BY <2>1, <2>2, <2>3, <2>4, <2>5, <2>6, <2>7, <2>8
       DEF Next, MethodStep, WorkflowStep
<1> QED
  BY <1>1, <1>2, PTL DEF Spec

(* The guards of the steps in which nothing fails: a reply within the      *)
(* budget, a program's run, the score of a Generation, and the record of a *)
(* method that gave up.                                                    *)
GoesOnUnfailed ==
  \/ /\ at = "ask" /\ calls < MaxCalls(method)
     /\ \/ method.kind \in {"direct", "pal", "python", "text"}
        \/ \E operator \in Operators : AtNode(operator)
  \/ at = "execute" /\ (method.kind \in {"pal", "python"} \/ AtNode("programmer"))
  \/ at = "returned" /\ calls >= MinCalls(method)
  \/ at \in {"scoring", "failed"}

(* As long as the infrastructure works, every path through every method    *)
(* goes on to a record: no reply and no program leaves the evaluation at a *)
(* point where the method does not know how to go on, or where the only    *)
(* way on is an error.                                                     *)
THEOREM NeverStuck == Spec => [](at # "done" => GoesOnUnfailed)
<1>1. ASSUME IInv, RunsPrograms, at # "done" PROVE GoesOnUnfailed
  <2>1. at \in At /\ method \in Methods /\ method.kind \in Kinds
    BY <1>1, MethodFacts DEF IInv, Typed
  <2>2. CASE at = "ask"
    <3>1. calls < MaxCalls(method)
      BY <1>1, <2>2, CallsLeft
    <3>2. ASSUME method.kind = "workflow"
          PROVE  \E operator \in Operators : AtNode(operator)
      <4>1. ValidWorkflow(method.workflow) /\ node \in DOMAIN method.workflow.nodes
        BY <1>1, <3>2, WorkflowNow DEF Nodes
      <4>2. Current.operator \in Operators
        BY <4>1 DEF ValidWorkflow, Current, Nodes
      <4> QED
        BY <3>2, <4>2 DEF AtNode
    <3> QED
      BY <2>1, <2>2, <3>1, <3>2 DEF GoesOnUnfailed, Kinds
  <2>3. CASE at = "returned"
    BY <1>1, <2>3 DEF IInv, Going, GoesOnUnfailed
  <2> QED
    BY <1>1, <2>1, <2>2, <2>3 DEF GoesOnUnfailed, RunsPrograms, At
<1>2. IInv /\ RunsPrograms => (at # "done" => GoesOnUnfailed)
  BY <1>1
<1> QED
  BY <1>2, Invariant, RunsProgramsKept, PTL

(* How much there is left to do: two steps for every call that the policy  *)
(* still allows, and what follows the last one.                            *)
After(where) ==
  CASE where = "execute"               -> 3
    [] where \in {"ask", "returned"}   -> 2
    [] where \in {"failed", "scoring"} -> 1
    [] OTHER                           -> 0

Remaining == 2 * (MaxCalls(method) - calls) + After(at)

LEMMA LessRemaining ==
  ASSUME Typed, Typed', method' = method,
         \/ calls' = calls + 1 /\ After(at') - 2 < After(at)
         \/ calls' = calls /\ After(at') < After(at)
  PROVE  Remaining' < Remaining
<1> DEFINE m == MaxCalls(method)
           a == After(at)
           b == After(at')
           c == calls
           d == calls'
<1>1. /\ m \in Nat /\ c \in Nat /\ d \in Nat /\ a \in 0 .. 3 /\ b \in 0 .. 3
      /\ Remaining = 2 * (m - c) + a /\ Remaining' = 2 * (m - d) + b
      /\ \/ d = c + 1 /\ b - 2 < a
         \/ d = c /\ b < a
  BY MethodFacts DEF Typed, After, Remaining
<1> HIDE DEF m, a, b, c, d
<1>2. 2 * (m - d) + b < 2 * (m - c) + a
  BY <1>1
<1> QED
  BY <1>1, <1>2

(* Every step, whatever the reply, the program or the failure, leaves less *)
(* to do: the evaluation of a sample ends, after at most two steps for     *)
(* every call that FairnessPolicy allows the method and two more.          *)
THEOREM NoCircles == Spec => [][Remaining' < Remaining]_vars
<1>1. ASSUME IInv, IInv', Next PROVE Remaining' < Remaining
  <2>1. Typed /\ Typed' /\ at \in At /\ at' \in At
    BY <1>1 DEF IInv, Typed
  <2>2. After(at) \in 0 .. 3 /\ After(at') \in 0 .. 3
    BY DEF After
  <2>3. ASSUME NEW finish \in Finish, Receive(finish) PROVE Remaining' < Remaining
    <3>1. calls' = calls + 1 /\ method' = method /\ After(at) = 2
      BY <2>3 DEF Receive, After
    <3>2. After(at') - 2 < After(at)
      BY <2>2, <3>1
    <3> QED
      BY <2>1, <3>1, <3>2, LessRemaining
  <2>4. CASE \/ DirectReply \/ PalReply \/ PythonInitial \/ PythonFeedback
             \/ TextInitial \/ TextRevision \/ CustomReply \/ AnswerReply
             \/ EnsembleReply \/ EnsembleInvalid \/ ProgrammerReply
    BY <2>3, <2>4 DEF DirectReply, PalReply, PythonInitial, PythonFeedback, TextInitial,
       TextRevision, CustomReply, AnswerReply, EnsembleReply, EnsembleInvalid, ProgrammerReply
  <2>5. CASE PalExecute \/ PythonExecute \/ ProgrammerValue \/ ProgrammerError
    <3>1. at = "execute" /\ method' = method /\ calls' = calls
      BY <2>5 DEF PalExecute, PythonExecute, ProgrammerValue, ProgrammerError
    <3>2. at' \in {"ask", "returned", "failed"}
      BY <2>5 DEF PalExecute, PythonExecute, ProgrammerValue, ProgrammerError, Store,
                  Return, Fail
    <3>3. After(at') < After(at)
      BY <3>1, <3>2 DEF After
    <3> QED
      BY <2>1, <3>1, <3>3, LessRemaining
  <2>6. CASE Finalize \/ RecordFailure \/ Score \/ ScorerFails
    <3>1. /\ \/ at = "returned" /\ at' \in {"scoring", "done"}
             \/ at \in {"failed", "scoring"} /\ at' = "done"
          /\ method' = method /\ calls' = calls
      BY <2>6 DEF Finalize, RecordFailure, Score, ScorerFails, Stop
    <3>2. After(at') < After(at)
      BY <3>1 DEF After
    <3> QED
      BY <2>1, <3>1, <3>2, LessRemaining
  <2>7. CASE GenerateRaises
    <3>1. /\ at = "ask" /\ at' = "done" /\ method' = method
          /\ calls' = calls \/ calls' = calls + 1
      BY <2>7 DEF GenerateRaises, Stop
    <3>2. After(at') < After(at) /\ After(at') - 2 < After(at)
      BY <3>1 DEF After
    <3> QED
      BY <2>1, <3>1, <3>2, LessRemaining
  <2> QED
    BY <1>1, <2>4, <2>5, <2>6, <2>7 DEF Next, ControlStep, MethodStep, WorkflowStep
<1>2. IInv /\ [Next]_vars => [Remaining' < Remaining]_vars
  BY <1>1, NextKeeps
<1> QED
  BY <1>2, Invariant, PTL DEF Spec

(* The bound on the steps that an evaluation still makes.                  *)
THEOREM StepsBounded == Spec => [](Remaining \in 0 .. (2 * MaxCalls(method) + 2))
<1>1. ASSUME IInv PROVE Remaining \in 0 .. (2 * MaxCalls(method) + 2)
  <2> DEFINE m == MaxCalls(method)
             a == After(at)
  <2>1. /\ m \in Nat /\ calls \in 0 .. m /\ a \in 0 .. 3
        /\ a = 3 => calls >= 1
        /\ Remaining = 2 * (m - calls) + a
    BY <1>1, MethodFacts DEF IInv, Typed, Going, At, After, Remaining
  <2> HIDE DEF m, a
  <2> QED
    BY <2>1 DEF m
<1> QED
  BY <1>1, Invariant, PTL
=============================================================================
