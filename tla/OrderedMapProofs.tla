-------------------------- MODULE OrderedMapProofs --------------------------
(***************************************************************************)
(* ordered_parallel_map delivers in input order, keeps its look-ahead      *)
(* bounded and implements OrderedDelivery, for any number of items, any    *)
(* concurrency and any interleaving of the iterating thread, its workers   *)
(* and interrupts.                                                         *)
(***************************************************************************)
EXTENDS OrderedMap, OrderedPoolProofs

Done == {"closing", "closed", "aborted"}
Over == Done \cup {"cancelling"}

(* The future waited for is the one after the results delivered, and the   *)
(* one just yielded is the last of them.                                   *)
Position ==
  /\ gen = "created" => out = <<>>
  /\ gen = "waiting" => pool.current = Len(out) + 1
  /\ gen = "yielded" => pool.current = Len(out)
  /\ gen \in Over /\ pool.current = 0 => Len(out) = pool.size

Window == pool.taken <= Len(out) + pool.width

(* Nothing starts once the `finally' clause has done its cancelling.       *)
NoLateStart == gen \in Done => Queued(pool) = {}

IInv == TypeOK /\ Position /\ Window /\ NoLateStart /\ InputOrder

(* Leaving the generator: what it has delivered and taken stays.           *)
LEMMA LeavePreserves ==
  ASSUME NEW p, PoolOK(p), Leave(p), UNCHANGED out, out \in Seq(Index),
         p.taken <= Len(out) + p.width,
         p.current = 0 => Len(out) = p.size,
         InputOrder
  PROVE  IInv'
<1>1. /\ gen' = IF p.width = 1 THEN "closing" ELSE "cancelling"
      /\ pool' = Dropped(p)
  BY DEF Leave
<1>2. /\ PoolOK(pool') /\ pool'.taken = p.taken /\ pool'.width = p.width
      /\ pool'.current = p.current /\ pool'.size = p.size
      /\ p.width = 1 => Queued(pool') = {}
  BY <1>1, DroppedOK
<1>3. TypeOK'
  BY <1>1, <1>2 DEF TypeOK, Gen
<1>4. gen' \in {"closing", "cancelling"} /\ (gen' = "closing" => Queued(pool') = {})
  BY <1>1, <1>2
<1>5. QED
  BY <1>2, <1>3, <1>4
     DEF IInv, Position, Window, NoLateStart, Done, Over, InputOrder

(* The generator reaches its next wait, or its end.  p is the pool after   *)
(* the calls were submitted.                                               *)
LEMMA AwaitPreserves ==
  ASSUME NEW p, PoolOK(p), Await(p), UNCHANGED out, out \in Seq(Index),
         p.taken <= Len(out) + p.width,
         \/ p.current = 0 /\ Len(out) = p.size
         \/ p.current = Len(out) + 1,
         InputOrder
  PROVE  IInv'
<1>1. CASE p.current = 0
  BY <1>1, LeavePreserves DEF Await
<1>2. CASE p.current # 0
  <2>1. gen' = "waiting" /\ pool' = p
    BY <1>2 DEF Await
  <2>2. TypeOK'
    BY <2>1, <1>2 DEF TypeOK, Gen
  <2>3. QED
    BY <2>1, <2>2, <1>2
       DEF IInv, Position, Window, NoLateStart, Done, Over, InputOrder
<1>3. QED BY <1>1, <1>2

(* Leaving by an exception or by GeneratorExit.                            *)
LEMMA ClosingPreserves ==
  ASSUME IInv, gen \in {"waiting", "yielded"}, Leave(pool), UNCHANGED out
  PROVE  IInv'
<1>1. /\ PoolOK(pool) /\ pool.current # 0 /\ out \in Seq(Index)
      /\ pool.taken <= Len(out) + pool.width /\ InputOrder
  BY DEF IInv, TypeOK, Window
<1>2. QED BY <1>1, LeavePreserves

(* A worker, or a cancellation, changes the status of one call and nothing *)
(* the invariant reads.                                                    *)
LEMMA WorkerPreserves ==
  ASSUME IInv, PoolOK(pool'), UNCHANGED <<gen, out>>,
         pool'.taken = pool.taken, pool'.width = pool.width,
         pool'.size = pool.size, pool'.current = pool.current,
         Queued(pool') \subseteq Queued(pool)
  PROVE  IInv'
<1>1. TypeOK'
  BY DEF IInv, TypeOK
<1>2. QED
  BY <1>1 DEF IInv, Position, Window, NoLateStart, InputOrder

(* Nothing has been taken from the input yet.                              *)
THEOREM InitIInv == Init => IInv
<1> SUFFICES ASSUME Init PROVE IInv
  OBVIOUS
<1>1. PICK width \in Widths, size \in 0 .. MaxItems : pool = NewPool(width, size)
  BY DEF Init
<1>2. width \in Nat \ {0}
  BY WidthsAssumption
<1>3. PoolOK(pool) /\ pool.taken = 0 /\ pool.width = width
  BY <1>1, <1>2, NewPoolOK
<1>4. gen = "created" /\ out = <<>> /\ Len(out) = 0 /\ out \in Seq(Index)
  BY DEF Init
<1>5. TypeOK
  BY <1>3, <1>4 DEF TypeOK, Gen
<1>6. QED
  BY <1>2, <1>3, <1>4, <1>5 DEF IInv, Position, Window, NoLateStart, Done, Over, InputOrder

(* The deque stays a window on the input under every step of the           *)
(* generator and of the workers, and while it is closed.                   *)
THEOREM StepIInv == IInv /\ [Next]_vars => IInv'
<1> SUFFICES ASSUME IInv, [Next]_vars PROVE IInv'
  OBVIOUS
<1>1. /\ PoolOK(pool) /\ gen \in Gen /\ out \in Seq(Index) /\ Len(out) \in Nat
      /\ pool.taken <= Len(out) + pool.width
  BY DEF IInv, TypeOK, Window
<1>2. /\ pool.width \in Nat \ {0} /\ pool.size \in 0 .. MaxItems
      /\ pool.taken \in Nat /\ pool.current \in 0 .. MaxItems
  BY <1>1, MaxItemsAssumption DEF PoolOK, PoolShape, Pool
<1>3. CASE FirstNext
  <2>1. gen = "created" /\ pool.taken = 0 /\ Len(out) = 0
    BY <1>3 DEF FirstNext, IInv, TypeOK, Position
  <2> DEFINE p == Prime(pool)
  <2>2. /\ PoolOK(p) /\ p.width = pool.width /\ p.size = pool.size
        /\ p.taken <= p.width
        /\ \/ p.current = 0 /\ p.size = 0
           \/ p.current = 1
    BY <2>1, <1>1, PrimeOK
  <2>3. Await(p) /\ UNCHANGED out
    BY <1>3 DEF FirstNext
  <2>4. InputOrder
    BY DEF IInv
  <2> HIDE DEF p
  <2>5. /\ p.taken <= Len(out) + p.width
        /\ \/ p.current = 0 /\ Len(out) = p.size
           \/ p.current = Len(out) + 1
    BY <2>1, <2>2, <1>2
  <2>6. QED BY <2>2, <2>3, <2>4, <2>5, <1>1, AwaitPreserves
<1>4. CASE Yield
  <2>1. /\ gen = "waiting" /\ pool.current = Len(out) + 1
        /\ out' = Append(out, pool.current) /\ gen' = "yielded"
        /\ UNCHANGED pool
    BY <1>4 DEF Yield, IInv, Position
  <2>2. pool.current \in Index
    BY <2>1, <1>1, <1>2, MaxItemsAssumption DEF Index
  <2>3. /\ out' \in Seq(Index) /\ Len(out') = Len(out) + 1
        /\ DOMAIN out = 1 .. Len(out) /\ DOMAIN out' = 1 .. Len(out')
        /\ \A k \in 1 .. Len(out) : out'[k] = out[k]
        /\ out'[Len(out) + 1] = pool.current
    BY <2>1, <2>2, <1>1
  <2>4. TypeOK'
    BY <2>1, <2>3, <1>1 DEF TypeOK, Gen
  <2>5. InputOrder'
    <3>1. \A k \in 1 .. Len(out) : out[k] = k
      BY <2>3 DEF IInv, InputOrder
    <3>2. SUFFICES ASSUME NEW k \in 1 .. Len(out) + 1 PROVE out'[k] = k
      BY <2>3 DEF InputOrder
    <3>3. CASE k = Len(out) + 1
      BY <3>3, <2>1, <2>3
    <3>4. CASE k # Len(out) + 1
      BY <3>1, <3>4, <2>3, <1>1
    <3>5. QED BY <3>3, <3>4
  <2>6. QED
    BY <2>1, <2>3, <2>4, <2>5, <1>1, <1>2
       DEF IInv, Position, Window, NoLateStart, Done, Over
<1>5. CASE Resume
  <2>1. /\ gen = "yielded" /\ pool.current = Len(out) /\ pool.current # 0
        /\ Await(Refill(pool)) /\ UNCHANGED out
    BY <1>5 DEF Resume, IInv, TypeOK, Position
  <2> DEFINE p == Refill(pool)
  <2>2. /\ PoolOK(p) /\ p.width = pool.width /\ p.size = pool.size
        /\ p.taken <= pool.current + pool.width
        /\ \/ p.current = 0 /\ pool.current = pool.size
           \/ p.current = pool.current + 1
    BY <2>1, <1>1, RefillOK
  <2>3. InputOrder
    BY DEF IInv
  <2>4. Await(p) /\ UNCHANGED out
    BY <2>1
  <2> HIDE DEF p
  <2>5. /\ p.taken <= Len(out) + p.width
        /\ \/ p.current = 0 /\ Len(out) = p.size
           \/ p.current = Len(out) + 1
    BY <2>1, <2>2
  <2>6. QED BY <2>2, <2>3, <2>4, <2>5, <1>1, AwaitPreserves
<1>6. CASE RaiseResult
  BY <1>6, ClosingPreserves DEF RaiseResult
<1>7. CASE Abandon
  BY <1>7, ClosingPreserves DEF Abandon
<1>8. CASE Interrupt
  BY <1>8, ClosingPreserves DEF Interrupt
<1>9. CASE Close
  <2>1. TypeOK'
    BY <1>9 DEF Close, IInv, TypeOK, Gen
  <2>2. QED
    BY <2>1, <1>9
       DEF Close, IInv, Position, Window, NoLateStart, Done, Over, InputOrder
<1>10. CASE InterruptClose
  <2>1. TypeOK'
    BY <1>10 DEF InterruptClose, IInv, TypeOK, Gen
  <2>2. QED
    BY <2>1, <1>10
       DEF InterruptClose, IInv, Position, Window, NoLateStart, Done, Over,
           InputOrder
<1>11. ASSUME NEW i \in Index, WorkerStart(i) PROVE IInv'
  <2>1. /\ i \in Queued(pool) /\ pool' = StartCall(pool, i)
        /\ UNCHANGED <<gen, out>>
    BY <1>11 DEF WorkerStart, CanStart
  <2>2. /\ PoolOK(pool') /\ pool'.taken = pool.taken
        /\ pool'.width = pool.width /\ pool'.size = pool.size
        /\ pool'.current = pool.current
        /\ Queued(pool') \subseteq Queued(pool)
    BY <2>1, <1>1, StartOK
  <2>3. QED BY <2>1, <2>2, WorkerPreserves
<1>12. ASSUME NEW i \in Index, WorkerEnd(i) PROVE IInv'
  <2>1. /\ i \in Running(pool) /\ UNCHANGED <<gen, out>>
        /\ \E o \in Outcome : pool' = EndCall(pool, i, o)
    BY <1>12 DEF WorkerEnd
  <2>2. /\ PoolOK(pool') /\ pool'.taken = pool.taken
        /\ pool'.width = pool.width /\ pool'.size = pool.size
        /\ pool'.current = pool.current
        /\ Queued(pool') \subseteq Queued(pool)
    BY <2>1, <1>1, EndOK
  <2>3. QED BY <2>1, <2>2, WorkerPreserves
<1>13. CASE UNCHANGED vars
  <2>1. TypeOK'
    BY <1>13 DEF vars, IInv, TypeOK
  <2>2. QED
    BY <2>1, <1>13 DEF vars, IInv, Position, Window, NoLateStart, InputOrder
<1>14. CASE Cancel
  <2>1. PICK i \in Index : CanCancel(pool, i) /\ pool' = CancelCall(pool, i)
    BY <1>14 DEF Cancel
  <2>2. i \in Queued(pool) /\ UNCHANGED <<gen, out>>
    BY <1>14, <2>1 DEF Cancel, CanCancel
  <2>3. /\ PoolOK(pool') /\ pool'.taken = pool.taken
        /\ pool'.width = pool.width /\ pool'.size = pool.size
        /\ pool'.current = pool.current
        /\ Queued(pool') \subseteq Queued(pool)
    BY <2>1, <2>2, <1>1, CancelOK
  <2>4. QED BY <2>2, <2>3, WorkerPreserves
<1>15. CASE Shutdown
  <2>1. TypeOK'
    BY <1>15 DEF Shutdown, IInv, TypeOK, Gen
  <2>2. QED
    BY <2>1, <1>15
       DEF Shutdown, IInv, Position, Window, NoLateStart, Done, Over, InputOrder
<1>16. QED
  BY <1>3, <1>4, <1>5, <1>6, <1>7, <1>8, <1>9, <1>10, <1>11, <1>12, <1>13, <1>14,
     <1>15
     DEF Next

LEMMA Invariant == Spec => []IInv
BY InitIInv, StepIInv, PTL DEF Spec

(* Every reachable generator is well formed.                               *)
THEOREM TypeCorrect == Spec => []TypeOK
<1>1. IInv => TypeOK
  BY DEF IInv
<1>2. QED BY <1>1, Invariant, PTL

(* Results come out in input order.                                        *)
THEOREM DeliveredInOrder == Spec => []InputOrder
<1>1. IInv => InputOrder
  BY DEF IInv
<1>2. QED BY <1>1, Invariant, PTL

(* Look-ahead is bounded by what was consumed: what was submitted is within *)
(* the window, and all else is idle.                                       *)
THEOREM LookaheadBounded == Spec => []BoundedLookahead
<1>1. IInv => BoundedLookahead
  <2> SUFFICES ASSUME IInv, NEW i \in Index, pool.call[i] # "idle"
               PROVE  i <= Len(out) + pool.width
    BY DEF BoundedLookahead
  <2>1. /\ i <= pool.taken /\ pool.taken \in Nat /\ pool.width \in Nat
        /\ pool.taken <= Len(out) + pool.width /\ Len(out) \in Nat
    BY MaxItemsAssumption
       DEF IInv, TypeOK, Window, PoolOK, PoolShape, Pool, Index
  <2>2. QED BY <2>1 DEF Index
<1>2. QED BY <1>1, Invariant, PTL

(* A generator that ran to its end has delivered everything.               *)
THEOREM DeliveredAll == Spec => []Exhaustive
<1>1. IInv => Exhaustive
  BY DEF IInv, Position, Done, Over, Exhaustive
<1>2. QED BY <1>1, Invariant, PTL

----------------------------------------------------------------------------
(* Leaving the generator lets what runs on threads of its own run on.      *)
LEMMA LeaveRefines ==
  ASSUME NEW p, PoolOK(p), Leave(p), UNCHANGED out,
         gen \in {"created", "waiting", "yielded"},
         p.width = pool.width, p.size = pool.size,
         Running(p) = Running(pool),
         \A i \in Index : p.call[i] \in Outcome <=> pool.call[i] \in Outcome
  PROVE  Delivery!Leave \/ Delivery!Drop
<1>1. /\ gen' = IF p.width = 1 THEN "closing" ELSE "cancelling"
      /\ pool' = Dropped(p)
  BY DEF Leave
<1>2. /\ pool'.width = pool.width /\ pool'.size = pool.size
      /\ Running(pool') = IF pool.width = 1 THEN {} ELSE Running(pool)
      /\ \A i \in Index : pool'.call[i] \in Outcome <=> pool.call[i] \in Outcome
  BY <1>1, DroppedOK
<1>3. CASE pool.width = 1
  BY <1>1, <1>2, <1>3 DEF Delivery!Drop
<1>4. CASE pool.width # 1
  <2>1. pool.width > 1
    BY <1>4 DEF PoolOK, PoolShape, Pool
  <2>2. QED BY <1>1, <1>2, <1>4, <2>1 DEF Delivery!Leave
<1>5. QED BY <1>3, <1>4

(* The generator's next() does not change what runs or has ended, and may  *)
(* leave.                                                                  *)
LEMMA AwaitRefines ==
  ASSUME NEW p, PoolOK(p), Await(p), UNCHANGED out,
         gen \in {"created", "yielded"},
         p.width = pool.width, p.size = pool.size,
         Running(p) = Running(pool),
         \A i \in Index : p.call[i] \in Outcome <=> pool.call[i] \in Outcome
  PROVE  Delivery!Leave \/ Delivery!Drop \/ UNCHANGED Delivery!vars
<1>1. CASE p.current = 0
  BY <1>1, LeaveRefines DEF Await
<1>2. CASE p.current # 0
  <2>1. gen' = "waiting" /\ pool' = p
    BY <1>2 DEF Await
  <2>2. QED BY <2>1 DEF Delivery!vars
<1>3. QED BY <1>1, <1>2

LEMMA InitRefines == Init => Delivery!Init
<1> SUFFICES ASSUME Init PROVE Delivery!Init
  OBVIOUS
<1>1. PICK width \in Widths, size \in 0 .. MaxItems : pool = NewPool(width, size)
  BY DEF Init
<1>2. /\ pool.width = width /\ pool.size = size
      /\ \A i \in Index : pool.call[i] = "idle"
  BY <1>1 DEF NewPool
<1>3. Running(pool) = {} /\ {i \in Index : pool.call[i] \in Outcome} = {}
  BY <1>2, OutcomeAssumption DEF Running
<1>4. QED
  BY <1>2, <1>3 DEF Init, Delivery!Init

LEMMA StepRefines == IInv /\ [Next]_vars => [Delivery!Next]_(Delivery!vars)
<1> SUFFICES ASSUME IInv, [Next]_vars PROVE [Delivery!Next]_(Delivery!vars)
  OBVIOUS
<1>1. /\ PoolOK(pool) /\ PoolShape(pool) /\ gen \in Gen
      /\ out \in Seq(Index) /\ Len(out) \in Nat
  BY DEF IInv, TypeOK, PoolOK
<1>2. /\ pool.width \in Nat \ {0} /\ pool.size \in 0 .. MaxItems
      /\ pool.taken \in Nat /\ pool.current \in 0 .. MaxItems
  BY <1>1, MaxItemsAssumption DEF PoolShape, Pool
<1>3. CASE FirstNext
  <2> DEFINE p == Prime(pool)
  <2>1. /\ gen = "created" /\ pool.taken = 0 /\ Await(p) /\ UNCHANGED out
    BY <1>3 DEF FirstNext, IInv, TypeOK
  <2>2. PoolOK(p) /\ p.width = pool.width /\ p.size = pool.size
    BY <2>1, <1>1, PrimeOK
  <2>3. p = PopLeft(Submit(pool, pool.width)) /\ pool.width \in Nat
    BY <1>2 DEF Prime
  <2> HIDE DEF p
  <2>4. /\ Running(p) = Running(pool)
        /\ \A i \in Index : p.call[i] \in Outcome <=> pool.call[i] \in Outcome
    BY <2>3, <1>1, SubmitCalls
  <2>5. QED BY <2>1, <2>2, <2>4, AwaitRefines DEF Delivery!Next
<1>4. CASE Yield
  <2>1. /\ gen = "waiting" /\ pool.current = Len(out) + 1
        /\ pool.call[pool.current] = "value"
        /\ out' = Append(out, pool.current) /\ gen' = "yielded"
        /\ UNCHANGED pool
    BY <1>4 DEF Yield, IInv, Position
  <2>2. pool.current \in {i \in Index : pool.call[i] \in Outcome}
    BY <2>1, <1>1, <1>2, MaxItemsAssumption, MapOutcomeAssumption DEF Index
  <2>3. Delivery!Deliver
    BY <2>1, <2>2 DEF Delivery!Deliver
  <2>4. QED BY <2>3 DEF Delivery!Next
<1>5. CASE Resume
  <2> DEFINE p == Refill(pool)
  <2>1. /\ gen = "yielded" /\ pool.current # 0 /\ Await(p) /\ UNCHANGED out
    BY <1>5 DEF Resume, IInv, TypeOK
  <2>2. PoolOK(p) /\ p.width = pool.width /\ p.size = pool.size
    BY <2>1, <1>1, RefillOK
  <2>3. p = PopLeft(Submit(pool, 1))
    BY DEF Refill
  <2> HIDE DEF p
  <2>4. /\ Running(p) = Running(pool)
        /\ \A i \in Index : p.call[i] \in Outcome <=> pool.call[i] \in Outcome
    BY <2>3, <1>1, SubmitCalls
  <2>5. QED BY <2>1, <2>2, <2>4, AwaitRefines DEF Delivery!Next
<1>6. CASE RaiseResult \/ Abandon \/ Interrupt
  <2>1. Leave(pool) /\ UNCHANGED out /\ gen \in {"waiting", "yielded"}
    BY <1>6 DEF RaiseResult, Abandon, Interrupt
  <2>2. Delivery!Leave \/ Delivery!Drop
    BY <1>1, <2>1, LeaveRefines
  <2>3. QED BY <2>2 DEF Delivery!Next
<1>12. CASE Cancel
  <2>1. PICK i \in Index : CanCancel(pool, i) /\ pool' = CancelCall(pool, i)
    BY <1>12 DEF Cancel
  <2>2. i \in Queued(pool) /\ UNCHANGED <<gen, out>>
    BY <1>12, <2>1 DEF Cancel, CanCancel
  <2>3. /\ pool'.width = pool.width /\ pool'.size = pool.size
        /\ Running(pool') = Running(pool)
        /\ \A j \in Index : pool.call[j] \in Outcome <=> pool'.call[j] \in Outcome
    BY <2>1, <2>2, <1>1, CancelOK
  <2>4. QED BY <2>2, <2>3 DEF Delivery!vars
<1>13. CASE Shutdown
  <2>1. Delivery!Drain
    BY <1>13 DEF Shutdown, Delivery!Drain
  <2>2. QED BY <2>1 DEF Delivery!Next
<1>7. CASE Close
  <2>1. Delivery!Close
    BY <1>7 DEF Close, Delivery!Close
  <2>2. QED BY <2>1 DEF Delivery!Next
<1>8. CASE InterruptClose
  <2>1. UNCHANGED Delivery!vars
    BY <1>8 DEF InterruptClose, Delivery!vars
  <2>2. QED BY <2>1
<1>9. ASSUME NEW i \in Index, WorkerStart(i) PROVE \E j \in Index : Delivery!Begin(j)
  <2>1. /\ i \in Queued(pool) /\ pool' = StartCall(pool, i)
        /\ UNCHANGED <<gen, out>>
    BY <1>9 DEF WorkerStart, CanStart
  <2>2. /\ pool'.width = pool.width /\ pool'.size = pool.size
        /\ Running(pool') = Running(pool) \cup {i}
        /\ \A j \in Index \ {i} : pool'.call[j] = pool.call[j]
    BY <2>1, <1>1, StartOK
  <2>3. pool.call[i] = "queued" /\ pool'.call[i] = "running"
    BY <2>1, <1>1 DEF Queued, StartCall, PoolShape, Pool
  <2>4. /\ {j \in Index : pool'.call[j] \in Outcome}
             = {j \in Index : pool.call[j] \in Outcome}
        /\ i \notin {j \in Index : pool.call[j] \in Outcome}
        /\ i \notin Running(pool)
    BY <2>2, <2>3, OutcomeAssumption DEF Running
  <2>5. gen \in {"created", "waiting", "yielded", "cancelling"}
    BY <2>1, <1>1 DEF IInv, NoLateStart, Done, Gen
  <2>6. i \in 1 .. pool.size /\ i <= Len(out) + pool.width
    <3>1. i <= pool.taken /\ pool.taken <= pool.size
      BY <2>3, <1>1, <1>2 DEF PoolShape, Index
    <3>2. pool.taken <= Len(out) + pool.width
      BY DEF IInv, Window
    <3>3. QED BY <3>1, <3>2, <1>1, <1>2, MaxItemsAssumption DEF Index
  <2>7. Delivery!Begin(i)
    BY <2>1, <2>2, <2>4, <2>5, <2>6 DEF Delivery!Begin
  <2>8. QED BY <2>7
<1>10. ASSUME NEW i \in Index, WorkerEnd(i) PROVE \E j \in Index : Delivery!End(j)
  <2>1. i \in Running(pool) /\ UNCHANGED <<gen, out>>
    BY <1>10 DEF WorkerEnd
  <2>2. PICK o \in Outcome : pool' = EndCall(pool, i, o)
    BY <1>10 DEF WorkerEnd
  <2>3. /\ pool'.width = pool.width /\ pool'.size = pool.size
        /\ Running(pool') = Running(pool) \ {i}
        /\ pool'.call[i] = o
        /\ \A j \in Index \ {i} : pool'.call[j] = pool.call[j]
    BY <2>1, <2>2, <1>1, EndOK
  <2>4. {j \in Index : pool'.call[j] \in Outcome}
          = {j \in Index : pool.call[j] \in Outcome} \cup {i}
    BY <2>1, <2>3 DEF Running
  <2>5. Delivery!End(i)
    BY <2>1, <2>3, <2>4 DEF Delivery!End
  <2>6. QED BY <2>5
<1>11. CASE UNCHANGED vars
  BY <1>11 DEF vars, Delivery!vars
<1>14. QED
  BY <1>3, <1>4, <1>5, <1>6, <1>7, <1>8, <1>9, <1>10, <1>11, <1>12, <1>13
     DEF Next, Delivery!Next, Index

(* ordered_parallel_map implements what its docstring promises.            *)
THEOREM Implementation == Spec => ImplementsDelivery
<1>1. Spec => Init /\ [][Next]_vars
  BY DEF Spec
<1>2. QED
  BY <1>1, InitRefines, StepRefines, Invariant, PTL DEF ImplementsDelivery, Delivery!Spec

----------------------------------------------------------------------------
(* Progress, without fairness                                              *)

(* Nothing the caller may still wait for was cancelled.                    *)
Clean == gen \notin Over => NoneCancelled(pool)

LEMMA CleanKept == Spec => []Clean
<1>1. Init => Clean
  BY NewNoneCancelled DEF Init, Clean
<1>2. IInv /\ Clean /\ [Next]_vars => Clean'
  <2> SUFFICES ASSUME IInv, Clean, [Next]_vars PROVE Clean'
    OBVIOUS
  <2>1. PoolOK(pool) /\ PoolShape(pool) /\ gen \in Gen
    BY DEF IInv, TypeOK, PoolOK
  <2>2. ASSUME NEW n \in Nat, Await(PopLeft(Submit(pool, n))), gen \notin Over
        PROVE  Clean'
    <3>1. NoneCancelled(PopLeft(Submit(pool, n)))
      BY <2>1, <2>2, SubmitNoneCancelled DEF Clean
    <3>2. QED BY <2>2, <3>1 DEF Await, Leave, Clean, Done, Over
  <2>3. CASE FirstNext
    <3>1. pool.width \in Nat
      BY <2>1 DEF PoolShape, Pool
    <3>2. QED BY <2>2, <2>3, <3>1 DEF FirstNext, Prime, Done, Over
  <2>4. CASE Resume
    BY <2>2, <2>4 DEF Resume, Refill, Done, Over
  <2>5. CASE Yield
    BY <2>5 DEF Yield, Clean, Done, Over
  <2>6. CASE \/ RaiseResult \/ Abandon \/ Interrupt \/ Cancel \/ Shutdown
             \/ Close \/ InterruptClose
    BY <2>6 DEF RaiseResult, Abandon, Interrupt, Leave, Cancel, Shutdown, Close,
                InterruptClose, Clean, Done, Over
  <2>7. ASSUME NEW i \in Index, WorkerStart(i) \/ WorkerEnd(i)
        PROVE  Clean'
    <3>1. \/ i \in Queued(pool) /\ pool' = StartCall(pool, i)
          \/ i \in Running(pool) /\ \E o \in Outcome : pool' = EndCall(pool, i, o)
      BY <2>7 DEF WorkerStart, WorkerEnd, CanStart
    <3>2. gen' = gen
      BY <2>7 DEF WorkerStart, WorkerEnd
    <3>3. NoneCancelled(pool) => NoneCancelled(pool')
      BY <2>1, <3>1, CallNoneCancelled
    <3>4. QED BY <3>2, <3>3 DEF Clean
  <2>8. CASE UNCHANGED vars
    BY <2>8 DEF vars, Clean
  <2>9. QED BY <2>3, <2>4, <2>5, <2>6, <2>7, <2>8 DEF Next
<1>3. QED BY <1>1, <1>2, Invariant, PTL DEF Spec

(* The guards of the generator's own steps, and of its workers'.           *)
HasStep ==
  \/ gen \in {"created", "yielded"}
  \/ gen = "waiting" /\ pool.call[pool.current] \in {"value", "exception"}
  \/ gen = "cancelling" /\ \E i \in Index : CanCancel(pool, i)
  \/ gen = "cancelling" /\ Queued(pool) = {}
  \/ gen = "closing" /\ Running(pool) = {}
  \/ PoolMoves(pool)

(* Whoever iterates the generator is never left waiting: in every state    *)
(* before its end the result is there, or a call runs, or a worker is free *)
(* for the oldest one queued.                                              *)
THEOREM NeverStuck == Spec => [](gen \notin {"closed", "aborted"} => HasStep)
<1>1. ASSUME IInv, Clean, gen \notin {"closed", "aborted"}
      PROVE  HasStep
  <2>1. PoolOK(pool) /\ gen \in Gen /\ (gen = "waiting" => pool.current # 0)
    BY <1>1 DEF IInv, TypeOK
  <2>2. CASE gen = "waiting"
    <3>1. pool.call[pool.current] \in Outcome \/ PoolMoves(pool)
      BY <1>1, <2>1, <2>2, ResultOnItsWay DEF Clean, Done, Over
    <3>2. QED BY <2>2, <3>1, MapOutcomeAssumption DEF HasStep
  <2>3. CASE gen = "closing"
    BY <2>3 DEF HasStep, PoolMoves, Running
  <2>4. CASE gen = "cancelling"
    BY <2>4, SomeCancel DEF HasStep
  <2>5. QED BY <1>1, <2>1, <2>2, <2>3, <2>4 DEF HasStep, Gen
<1>2. IInv /\ Clean => (gen \notin {"closed", "aborted"} => HasStep)
  BY <1>1
<1>3. QED BY <1>2, Invariant, CleanKept, PTL

(* How much there is left to do: the calls, and two steps of the caller    *)
(* for each result.                                                        *)
Ahead(where, p) ==
  CASE where = "created"    -> 2 * MaxItems + 4
    [] where = "waiting"    -> 2 * (MaxItems - p.current) + 4
    [] where = "yielded"    -> 2 * (MaxItems - p.current) + 3
    [] where = "cancelling" -> 2
    [] where = "closing"    -> 1
    [] OTHER                -> 0

Remaining == Work(pool) + Ahead(gen, pool)

LEMMA LessRemaining ==
  ASSUME Ahead(gen, pool) \in Nat, Ahead(gen', pool') \in Nat,
         \/ Work(pool') <= Work(pool) /\ Ahead(gen', pool') < Ahead(gen, pool)
         \/ Work(pool') < Work(pool) /\ Ahead(gen', pool') = Ahead(gen, pool)
  PROVE  Remaining' < Remaining
<1> DEFINE a == Ahead(gen, pool)
           b == Ahead(gen', pool')
           v == Work(pool)
           w == Work(pool')
<1>1. v \in Nat /\ w \in Nat /\ Remaining = v + a /\ Remaining' = w + b
  BY WorkLeft DEF Remaining
<1> HIDE DEF a, b, v, w
<1>2. QED BY <1>1 DEF a, b, v, w

LEMMA AheadRange ==
  ASSUME NEW where \in Gen, NEW p, p.current \in 0 .. MaxItems
  PROVE  Ahead(where, p) \in 0 .. (2 * MaxItems + 4)
<1> DEFINE c == p.current
           m == MaxItems
<1>1. c \in 0 .. m /\ m \in Nat
  BY MaxItemsAssumption
<1>2. Ahead(where, p) \in {2 * m + 4, 2 * (m - c) + 4, 2 * (m - c) + 3, 2, 1, 0}
  BY DEF Ahead
<1> HIDE DEF c, m
<1>3. Ahead(where, p) \in 0 .. (2 * m + 4)
  BY <1>1, <1>2
<1>4. QED BY <1>3 DEF m

(* On the way out at most the cancelling and the wait are left.            *)
LEMMA LeaveShrinks ==
  ASSUME NEW q, PoolOK(q), Leave(q)
  PROVE  Work(pool') <= Work(q) /\ Ahead(gen', pool') \in {1, 2}
<1>1. gen' \in {"closing", "cancelling"} /\ pool' = Dropped(q)
  BY DEF Leave
<1>2. QED BY <1>1, DroppedForward, ForwardWork DEF Ahead

(* Going on to the next wait, or to the end.                               *)
LEMMA AwaitShrinks ==
  ASSUME NEW n \in Nat, NEW q, q = PopLeft(Submit(pool, n)), PoolShape(pool), PoolOK(q),
         Await(q), \/ gen = "created" /\ q.current \in {0, 1}
                   \/ /\ gen = "yielded" /\ pool.current # 0
                      /\ q.current \in {0, pool.current + 1}
  PROVE  Remaining' < Remaining
<1> DEFINE m == MaxItems
           c == pool.current
<1>1. /\ c \in Nat /\ c <= m /\ m \in Nat /\ q.current \in Nat /\ q.current <= m
  BY MaxItemsAssumption DEF PoolOK, PoolShape, Pool
<1>2. Work(q) <= Work(pool)
  BY SubmitForward, ForwardWork
<1>3. Ahead(gen, pool) >= 3 /\ Ahead(gen, pool) \in Nat
  <2>1. Ahead(gen, pool) \in {2 * m + 4, 2 * (m - c) + 3}
    BY DEF Ahead
  <2> HIDE DEF m, c
  <2>2. QED BY <1>1, <2>1
<1>4. CASE q.current = 0
  <2>1. Leave(q)
    BY <1>4 DEF Await
  <2>2. Work(pool') <= Work(q) /\ Ahead(gen', pool') \in {1, 2}
    BY <2>1, LeaveShrinks
  <2>3. Work(pool') <= Work(pool)
    BY <1>2, <2>2, WorkLeft
  <2>4. Ahead(gen', pool') < Ahead(gen, pool) /\ Ahead(gen', pool') \in Nat
    BY <1>3, <2>2
  <2>5. QED BY <1>3, <2>3, <2>4, LessRemaining
<1>5. CASE q.current # 0
  <2>1. gen' = "waiting" /\ pool' = q
    BY <1>5 DEF Await
  <2>2. Ahead(gen', pool') = 2 * (m - q.current) + 4
    BY <2>1 DEF Ahead
  <2>3. /\ gen = "created" => Ahead(gen, pool) = 2 * m + 4
        /\ gen = "yielded" => Ahead(gen, pool) = 2 * (m - c) + 3
    BY DEF Ahead
  <2>4. Ahead(gen', pool') < Ahead(gen, pool) /\ Ahead(gen', pool') \in Nat
    <3>1. \/ gen = "created" /\ q.current = 1
          \/ gen = "yielded" /\ q.current = c + 1
      BY <1>5
    <3> HIDE DEF m, c
    <3>2. QED BY <1>1, <2>2, <2>3, <3>1
  <2>5. QED BY <1>2, <1>3, <2>1, <2>4, LessRemaining
<1>6. QED BY <1>4, <1>5

(* Every step, of the caller, of a worker or of Ctrl-C, leaves less to do: *)
(* a call of ordered_parallel_map makes at most 5 * MaxItems + 4 of them,  *)
(* and by NeverStuck it makes them until it is closed.                     *)
THEOREM NoCircles == Spec => [][Remaining' < Remaining]_vars
<1>1. ASSUME IInv, IInv', Next
      PROVE  Remaining' < Remaining
  <2> DEFINE m == MaxItems
             c == pool.current
             a == Ahead(gen, pool)
             b == Ahead(gen', pool')
  <2>1. /\ PoolOK(pool) /\ PoolShape(pool) /\ gen \in Gen /\ PoolOK(pool') /\ gen' \in Gen
        /\ gen \in {"waiting", "yielded"} => c # 0
        /\ gen = "created" => pool.taken = 0
    BY <1>1 DEF IInv, TypeOK, PoolOK
  <2>2. /\ c \in 0 .. m /\ pool'.current \in 0 .. m /\ m \in Nat
        /\ pool.width \in Nat
    BY <2>1, MaxItemsAssumption DEF PoolOK, PoolShape, Pool
  <2>3. a \in Nat /\ b \in Nat
    BY <2>1, <2>2, AheadRange, MaxItemsAssumption
  <2>4. CASE FirstNext
    <3> DEFINE q == Prime(pool)
    <3>1. q = PopLeft(Submit(pool, pool.width)) /\ Await(q) /\ gen = "created"
      BY <2>4 DEF FirstNext, Prime
    <3>2. PoolOK(q) /\ q.current \in {0, 1}
      BY <2>1, <2>4, PrimeOK DEF FirstNext
    <3> HIDE DEF q
    <3>3. QED BY <2>1, <2>2, <3>1, <3>2, AwaitShrinks
  <2>5. CASE Resume
    <3> DEFINE q == Refill(pool)
    <3>1. q = PopLeft(Submit(pool, 1)) /\ Await(q) /\ gen = "yielded"
      BY <2>5 DEF Resume, Refill
    <3>2. PoolOK(q) /\ q.current \in {0, pool.current + 1} /\ pool.current # 0
      BY <2>1, <3>1, RefillOK
    <3> HIDE DEF q
    <3>3. QED BY <2>1, <3>1, <3>2, AwaitShrinks
  <2>6. CASE Yield
    <3>1. a = 2 * (m - c) + 4 /\ b = 2 * (m - c) + 3 /\ pool' = pool
      BY <2>6 DEF Yield, Ahead
    <3>2. Work(pool') <= Work(pool)
      BY <3>1, WorkLeft
    <3>3. b < a
      <4> HIDE DEF m, c, a, b
      <4>1. QED BY <2>2, <3>1
    <3>4. QED BY <2>3, <3>2, <3>3, LessRemaining
  <2>7. CASE RaiseResult \/ Abandon \/ Interrupt
    <3>1. gen \in {"waiting", "yielded"} /\ Leave(pool)
      BY <2>7 DEF RaiseResult, Abandon, Interrupt
    <3>2. Work(pool') <= Work(pool) /\ b \in {1, 2}
      BY <2>1, <3>1, LeaveShrinks
    <3>3. a \in {2 * (m - c) + 4, 2 * (m - c) + 3}
      BY <3>1 DEF Ahead
    <3>4. b < a
      <4> HIDE DEF m, c, a, b
      <4>1. QED BY <2>2, <3>2, <3>3
    <3>5. QED BY <2>3, <3>2, <3>4, LessRemaining
  <2>8. CASE Close \/ InterruptClose
    <3>1. a = 1 /\ b = 0 /\ pool' = pool
      BY <2>8 DEF Close, InterruptClose, Ahead
    <3>2. Work(pool') <= Work(pool)
      BY <3>1, WorkLeft
    <3>3. QED BY <2>3, <3>1, <3>2, LessRemaining
  <2>9. ASSUME NEW i \in Index, WorkerStart(i) \/ WorkerEnd(i)
        PROVE  Remaining' < Remaining
    <3>1. \/ i \in Queued(pool) /\ pool' = StartCall(pool, i)
          \/ i \in Running(pool) /\ \E o \in Outcome : pool' = EndCall(pool, i, o)
      BY <2>9 DEF WorkerStart, WorkerEnd, CanStart
    <3>2. Work(pool') < Work(pool)
      BY <2>1, <3>1, CallWork
    <3>3. pool'.current = pool.current /\ gen' = gen
      BY <2>1, <2>9, <3>1, StartOK, EndOK DEF WorkerStart, WorkerEnd
    <3>4. a = b
      BY <3>3 DEF Ahead
    <3>5. QED BY <2>3, <3>2, <3>4, LessRemaining
  <2>10. CASE Cancel
    <3>1. PICK i \in Index : CanCancel(pool, i) /\ pool' = CancelCall(pool, i)
      BY <2>10 DEF Cancel
    <3>2. i \in Queued(pool) /\ gen' = gen
      BY <2>10, <3>1 DEF Cancel, CanCancel
    <3>3. Work(pool') < Work(pool) /\ pool'.current = pool.current
      BY <2>1, <3>1, <3>2, CancelWork, CancelOK
    <3>4. a = b
      BY <3>2, <3>3 DEF Ahead
    <3>5. QED BY <2>3, <3>3, <3>4, LessRemaining
  <2>11. CASE Shutdown
    <3>1. a = 2 /\ b = 1 /\ pool' = pool
      BY <2>11 DEF Shutdown, Ahead
    <3>2. Work(pool') <= Work(pool)
      BY <3>1, WorkLeft
    <3>3. QED BY <2>3, <3>1, <3>2, LessRemaining
  <2>12. QED
    BY <1>1, <2>4, <2>5, <2>6, <2>7, <2>8, <2>9, <2>10, <2>11 DEF Next
<1>2. IInv /\ [Next]_vars => [Remaining' < Remaining]_vars
  BY <1>1, StepIInv
<1>3. QED BY <1>2, Invariant, PTL DEF Spec

(* The bound on the steps that a call still makes.                         *)
THEOREM StepsBounded == Spec => [](Remaining \in 0 .. (5 * MaxItems + 4))
<1>1. ASSUME IInv PROVE Remaining \in 0 .. (5 * MaxItems + 4)
  <2> DEFINE a == Ahead(gen, pool)
             w == Work(pool)
  <2>1. gen \in Gen /\ pool.current \in 0 .. MaxItems
    BY <1>1 DEF IInv, TypeOK, PoolOK, PoolShape, Pool
  <2>2. a \in 0 .. (2 * MaxItems + 4) /\ w \in 0 .. (3 * MaxItems) /\ Remaining = w + a
    BY <2>1, AheadRange, WorkRange DEF Remaining
  <2> HIDE DEF a, w
  <2>3. QED BY <2>2, MaxItemsAssumption
<1>2. QED BY <1>1, Invariant, PTL
=============================================================================
