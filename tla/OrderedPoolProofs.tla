-------------------------- MODULE OrderedPoolProofs --------------------------
(***************************************************************************)
(* What the steps of one ordered_parallel_map preserve and compute, for    *)
(* any number of items and any concurrency.                                *)
(***************************************************************************)
EXTENDS OrderedPool, SequenceTheorems, FiniteSetTheorems, WellFoundedInduction, TLAPS

(* A generator that has not been advanced yet is well formed.              *)
LEMMA NewPoolOK ==
  ASSUME NEW width \in Nat \ {0}, NEW size \in 0 .. MaxItems
  PROVE  /\ PoolOK(NewPool(width, size))
         /\ NewPool(width, size).taken = 0
         /\ NewPool(width, size).current = 0
         /\ NewPool(width, size).width = width
         /\ NewPool(width, size).size = size
BY MaxItemsAssumption, OutcomeAssumption
   DEF NewPool, PoolOK, PoolShape, PopCount, Pool, Status, Index

(* Submitting extends the deque at its end and leaves its front alone.     *)
LEMMA SubmitShape ==
  ASSUME NEW p, PoolShape(p), NEW n \in Nat, NEW q, q = Submit(p, n)
  PROVE  /\ PoolShape(q)
         /\ PopCount(q) = PopCount(p)
         /\ q.taken = IF p.taken + n < p.size THEN p.taken + n ELSE p.size
         /\ q.width = p.width /\ q.size = p.size /\ q.current = p.current
<1> DEFINE last == IF p.taken + n < p.size THEN p.taken + n ELSE p.size
           added == [k \in 1 .. (last - p.taken) |-> p.taken + k]
           calls == [i \in Index |-> IF i \in (p.taken + 1) .. last
                                     THEN "queued" ELSE p.call[i]]
<1>1. /\ p \in Pool
      /\ p.taken \in Nat /\ p.size \in Nat /\ p.size <= MaxItems
      /\ p.taken <= p.size
      /\ p.pending \in Seq(Index) /\ Len(p.pending) \in Nat
      /\ Len(p.pending) <= p.taken
      /\ p.call \in [Index -> Status]
  BY MaxItemsAssumption DEF PoolShape, Pool
<1>2. last \in p.taken .. p.size
  BY <1>1
<1>3. added \in Seq(Index) /\ Len(added) = last - p.taken
  <2>1. last - p.taken \in Nat
    BY <1>1, <1>2
  <2>2. \A k \in 1 .. (last - p.taken) : p.taken + k \in Index
    BY <1>1, <1>2, MaxItemsAssumption DEF Index
  <2>3. QED BY <2>1, <2>2
<1>4. /\ p.pending \o added \in Seq(Index)
      /\ Len(p.pending \o added) = Len(p.pending) + Len(added)
      /\ \A k \in 1 .. Len(p.pending) + Len(added) :
           (p.pending \o added)[k] = IF k <= Len(p.pending)
                                     THEN p.pending[k]
                                     ELSE added[k - Len(p.pending)]
  <2> HIDE DEF added
  <2> QED BY <1>1, <1>3, ConcatProperties
<1>5. q = [p EXCEPT !.taken = last, !.pending = p.pending \o added, !.call = calls]
  BY <1>1 DEF Submit, Pool
<1>6. /\ q.width = p.width /\ q.size = p.size /\ q.current = p.current
      /\ q.taken = last /\ q.pending = p.pending \o added /\ q.call = calls
  <2> HIDE DEF last, added, calls
  <2> QED BY <1>1, <1>5 DEF Pool
<1>7. q \in Pool
  <2>1. calls \in [Index -> Status]
    BY <1>1 DEF Status
  <2>2. last \in 0 .. MaxItems
    BY <1>1, <1>2, MaxItemsAssumption
  <2> HIDE DEF last, added, calls
  <2>3. QED BY <2>1, <2>2, <1>1, <1>4, <1>5 DEF Pool
<1>8. PopCount(q) = PopCount(p)
  BY <1>1, <1>2, <1>3, <1>4, <1>6 DEF PopCount
<1>9. Len(q.pending) = Len(p.pending) + (last - p.taken)
  BY <1>3, <1>4, <1>6
<1>10. \A k \in 1 .. Len(q.pending) : q.pending[k] = PopCount(q) + k
  <2> SUFFICES ASSUME NEW k \in 1 .. Len(q.pending)
               PROVE  q.pending[k] = PopCount(q) + k
    OBVIOUS
  <2>0. k \in 1 .. Len(p.pending) + Len(added)
    BY <1>3, <1>9
  <2>1. CASE k <= Len(p.pending)
    <3>1. q.pending[k] = p.pending[k]
      BY <2>0, <2>1, <1>4, <1>6
    <3>2. k \in 1 .. Len(p.pending)
      BY <2>0, <2>1, <1>1
    <3>3. QED BY <3>1, <3>2, <1>8 DEF PoolShape
  <2>2. CASE ~ (k <= Len(p.pending))
    <3>1. k - Len(p.pending) \in 1 .. (last - p.taken)
      BY <2>2, <1>1, <1>2, <1>9
    <3>2. q.pending[k] = added[k - Len(p.pending)]
      BY <2>0, <2>2, <1>4, <1>6
    <3>3. q.pending[k] = p.taken + (k - Len(p.pending))
      BY <3>1, <3>2
    <3>4. QED BY <3>3, <1>1, <1>8 DEF PopCount
  <2>3. QED BY <2>1, <2>2
<1>11. \A i \in Index : (q.call[i] = "idle") <=> (i > q.taken)
  BY <1>1, <1>2, <1>6 DEF PoolShape, Index
<1>12. q.taken <= q.size /\ Len(q.pending) <= q.taken
  BY <1>1, <1>2, <1>6, <1>9
<1>13. QED
  BY <1>6, <1>7, <1>8, <1>10, <1>11, <1>12 DEF PoolShape

(* popleft yields the items in input order: the one popped is the next     *)
(* after those popped before.                                              *)
LEMMA PopLeftShape ==
  ASSUME NEW p, PoolShape(p), NEW q, q = PopLeft(p)
  PROVE  /\ PoolShape(q)
         /\ q.width = p.width /\ q.size = p.size /\ q.taken = p.taken
         /\ q.call = p.call
         /\ \/ /\ q.current = 0 /\ p.pending = <<>>
               /\ PopCount(p) = p.taken /\ PopCount(q) = p.taken
            \/ /\ q.current = PopCount(p) + 1
               /\ PopCount(q) = PopCount(p) + 1
               /\ q.current <= p.taken
<1>1. /\ p \in Pool /\ p.taken \in Nat
      /\ p.pending \in Seq(Index) /\ Len(p.pending) \in Nat
      /\ Len(p.pending) <= p.taken
  BY MaxItemsAssumption DEF PoolShape, Pool
<1>2. CASE p.pending = <<>>
  <2>1. q = [p EXCEPT !.current = 0]
    BY <1>2 DEF PopLeft
  <2>2. /\ q \in Pool /\ q.current = 0 /\ q.pending = p.pending
        /\ q.width = p.width /\ q.size = p.size /\ q.taken = p.taken
        /\ q.call = p.call
    BY <2>1, <1>1, MaxItemsAssumption DEF Pool
  <2>3. Len(p.pending) = 0
    BY <1>2
  <2>4. QED BY <2>2, <2>3, <1>1, <1>2 DEF PoolShape, PopCount
<1>3. CASE p.pending # <<>>
  <2>1. /\ Tail(p.pending) \in Seq(Index)
        /\ Len(Tail(p.pending)) = Len(p.pending) - 1
        /\ \A k \in 1 .. Len(Tail(p.pending)) :
             Tail(p.pending)[k] = p.pending[k + 1]
        /\ Head(p.pending) = p.pending[1]
        /\ Len(p.pending) >= 1
    BY <1>1, <1>3
  <2>2. p.pending[1] = PopCount(p) + 1 /\ p.pending[1] \in Index
    BY <2>1, <1>1 DEF PoolShape
  <2> DEFINE h == Head(p.pending)
             t == Tail(p.pending)
  <2>3. q = [p EXCEPT !.current = h, !.pending = t]
    BY <1>3 DEF PopLeft
  <2>4. h \in 0 .. MaxItems
    BY <2>1, <2>2, MaxItemsAssumption DEF Index
  <2>5. q \in Pool
    <3> HIDE DEF h
    <3>1. QED BY <2>1, <2>3, <2>4, <1>1 DEF Pool
  <2>6. /\ q.current = h /\ q.pending = t
        /\ q.width = p.width /\ q.size = p.size /\ q.taken = p.taken
        /\ q.call = p.call
    <3> HIDE DEF h, t
    <3>1. QED BY <2>3, <1>1 DEF Pool
  <2>7. PopCount(q) = PopCount(p) + 1
    BY <2>1, <2>6, <1>1 DEF PopCount
  <2>8. \A k \in 1 .. Len(q.pending) : q.pending[k] = PopCount(q) + k
    <3> SUFFICES ASSUME NEW k \in 1 .. Len(q.pending)
                 PROVE  q.pending[k] = PopCount(q) + k
      OBVIOUS
    <3>1. k + 1 \in 1 .. Len(p.pending)
      BY <2>1, <2>6, <1>1
    <3>2. q.pending[k] = p.pending[k + 1]
      BY <2>1, <2>6
    <3>3. q.pending[k] = PopCount(p) + (k + 1)
      BY <3>1, <3>2 DEF PoolShape
    <3>4. PopCount(p) \in Int /\ k \in Nat
      BY <2>1, <2>6, <1>1 DEF PopCount
    <3>5. QED BY <3>3, <3>4, <2>7
  <2>9. /\ q.current = PopCount(p) + 1
        /\ q.current <= p.taken /\ Len(q.pending) <= q.taken
    BY <2>1, <2>2, <2>6, <1>1 DEF PopCount
  <2>10. QED
    BY <2>5, <2>6, <2>7, <2>8, <2>9 DEF PoolShape
<1>4. QED BY <1>2, <1>3

(* The first next() waits for item 1, unless there is none.                *)
LEMMA PrimeOK ==
  ASSUME NEW p, PoolOK(p), p.taken = 0, NEW q, q = Prime(p)
  PROVE  /\ PoolOK(q)
         /\ q.width = p.width /\ q.size = p.size
         /\ q.taken <= q.width
         /\ \/ q.current = 0 /\ q.size = 0
            \/ q.current = 1
<1> DEFINE s == Submit(p, p.width)
<1>1. /\ p.width \in Nat \ {0} /\ p.size \in Nat
      /\ p.taken = 0 /\ Len(p.pending) = 0 /\ PopCount(p) = 0
  BY MaxItemsAssumption DEF PoolOK, PoolShape, Pool, PopCount
<1>2. /\ PoolShape(s) /\ PopCount(s) = 0
      /\ s.taken = IF p.width < p.size THEN p.width ELSE p.size
      /\ s.width = p.width /\ s.size = p.size
  <2>1. /\ PoolShape(s) /\ PopCount(s) = PopCount(p)
        /\ s.taken = IF p.taken + p.width < p.size
                     THEN p.taken + p.width ELSE p.size
        /\ s.width = p.width /\ s.size = p.size
    <3>1. PoolShape(p) /\ p.width \in Nat
      BY <1>1 DEF PoolOK
    <3> HIDE DEF s
    <3>2. s = Submit(p, p.width)
      BY DEF s
    <3>3. QED BY <3>1, <3>2, SubmitShape
  <2>2. QED BY <2>1, <1>1
<1>3. /\ PoolShape(q)
      /\ q.width = p.width /\ q.size = p.size /\ q.taken = s.taken
      /\ \/ q.current = 0 /\ PopCount(s) = s.taken
         \/ q.current = 1 /\ PopCount(q) = 1
  <2>1. q = PopLeft(s)
    BY DEF Prime
  <2> HIDE DEF s
  <2>2. QED BY <2>1, <1>1, <1>2, PopLeftShape
<1>4. QED
  BY <1>1, <1>2, <1>3 DEF PoolOK

(* Every later next() waits for the item after the one just consumed, and  *)
(* the window slides with it; it ends when all items have been consumed.   *)
LEMMA RefillOK ==
  ASSUME NEW p, PoolOK(p), p.current # 0, NEW q, q = Refill(p)
  PROVE  /\ PoolOK(q)
         /\ q.width = p.width /\ q.size = p.size
         /\ q.taken <= p.current + p.width
         /\ \/ q.current = 0 /\ p.current = p.size
            \/ q.current = p.current + 1
         /\ \A i \in Index : p.call[i] # "idle" => q.call[i] = p.call[i]
<1> DEFINE s == Submit(p, 1)
<1>1. /\ p \in Pool
      /\ p.width \in Nat \ {0} /\ p.size \in Nat /\ p.taken \in Nat
      /\ p.current \in Nat /\ p.current = PopCount(p)
      /\ p.taken <= p.size /\ p.taken < p.current + p.width
  BY MaxItemsAssumption DEF PoolOK, PoolShape, Pool
<1>2. /\ PoolShape(s) /\ PopCount(s) = p.current
      /\ s.taken = IF p.taken + 1 < p.size THEN p.taken + 1 ELSE p.size
      /\ s.width = p.width /\ s.size = p.size
  <2>1. PoolShape(p) /\ 1 \in Nat /\ p.current = PopCount(p)
    BY <1>1 DEF PoolOK
  <2>2. s = Submit(p, 1)
    BY DEF s
  <2> HIDE DEF s
  <2>3. QED BY <2>1, <2>2, SubmitShape
<1>3. /\ PoolShape(q) /\ q.call = s.call
      /\ q.width = p.width /\ q.size = p.size /\ q.taken = s.taken
      /\ \/ q.current = 0 /\ p.current = s.taken
         \/ q.current = p.current + 1 /\ PopCount(q) = p.current + 1
  <2>1. q = PopLeft(s)
    BY DEF Refill
  <2> HIDE DEF s
  <2>2. QED BY <2>1, <1>1, <1>2, PopLeftShape
<1>5. \A i \in Index : p.call[i] # "idle" => s.call[i] = p.call[i]
  BY <1>1 DEF PoolOK, PoolShape, Submit, Pool, Index
<1>6. p.current = s.taken => p.current = p.size
  BY <1>1, <1>2 DEF PopCount, PoolOK, PoolShape
<1>7. QED
  BY <1>1, <1>2, <1>3, <1>5, <1>6 DEF PoolOK

(* Submitting and popping start no call and end none.                      *)
LEMMA SubmitCalls ==
  ASSUME NEW p, PoolShape(p), NEW n \in Nat, NEW q, q = PopLeft(Submit(p, n))
  PROVE  /\ Running(q) = Running(p)
         /\ \A i \in Index : q.call[i] \in Outcome <=> p.call[i] \in Outcome
<1> DEFINE s == Submit(p, n)
           last == IF p.taken + n < p.size THEN p.taken + n ELSE p.size
           calls == [i \in Index |-> IF i \in (p.taken + 1) .. last
                                     THEN "queued" ELSE p.call[i]]
<1>1. /\ p \in Pool /\ p.taken \in Nat
      /\ \A i \in Index : (p.call[i] = "idle") <=> (i > p.taken)
  BY MaxItemsAssumption DEF PoolShape, Pool
<1>2. s.call = calls
  BY <1>1 DEF Submit, Pool
<1>3. q.call = calls
  <2>1. PoolShape(s)
    BY SubmitShape
  <2> HIDE DEF s
  <2>2. QED BY <2>1, <1>2, PopLeftShape DEF s
<1>4. \A i \in Index : i \in (p.taken + 1) .. last =>
         p.call[i] = "idle" /\ q.call[i] = "queued"
  BY <1>1, <1>3
<1>5. \A i \in Index : i \notin (p.taken + 1) .. last => q.call[i] = p.call[i]
  BY <1>3
<1>6. QED
  BY <1>4, <1>5, OutcomeAssumption DEF Running

(* Changing the status of calls that were taken keeps the pool well        *)
(* formed, and the rest of it as it was.                                   *)
LEMMA CallsOK ==
  ASSUME NEW p, PoolOK(p), NEW call \in [Index -> Status],
         \A j \in Index : (call[j] = "idle") <=> (p.call[j] = "idle"),
         NEW q, q = [p EXCEPT !.call = call]
  PROVE  /\ PoolOK(q) /\ q.call = call
         /\ q.width = p.width /\ q.size = p.size
         /\ q.taken = p.taken /\ q.current = p.current
<1>1. p \in Pool
  BY DEF PoolOK, PoolShape
<1>2. /\ q \in Pool /\ q.call = call /\ q.pending = p.pending
      /\ q.width = p.width /\ q.size = p.size
      /\ q.taken = p.taken /\ q.current = p.current
  BY <1>1 DEF Pool
<1>3. QED
  BY <1>2 DEF PoolOK, PoolShape, PopCount

(* A worker takes a queued call.                                           *)
LEMMA StartOK ==
  ASSUME NEW p, PoolOK(p), NEW i \in Queued(p), NEW q, q = StartCall(p, i)
  PROVE  /\ PoolOK(q)
         /\ q.width = p.width /\ q.size = p.size
         /\ q.taken = p.taken /\ q.current = p.current
         /\ Queued(q) = Queued(p) \ {i}
         /\ Running(q) = Running(p) \cup {i}
         /\ \A j \in Index \ {i} : q.call[j] = p.call[j]
<1> DEFINE call == [p.call EXCEPT ![i] = "running"]
<1>1. p \in Pool /\ p.call \in [Index -> Status] /\ i \in Index
      /\ p.call[i] = "queued"
  BY DEF PoolOK, PoolShape, Pool, Queued
<1>2. q = [p EXCEPT !.call = call]
  BY <1>1 DEF StartCall, Pool
<1>3. call \in [Index -> Status]
  BY <1>1 DEF Status
<1>4. \A j \in Index : (call[j] = "idle") <=> (p.call[j] = "idle")
  BY <1>1
<1>5. /\ PoolOK(q) /\ q.call = call
      /\ q.width = p.width /\ q.size = p.size
      /\ q.taken = p.taken /\ q.current = p.current
  <2> HIDE DEF call
  <2>1. QED BY <1>2, <1>3, <1>4, CallsOK
<1>6. QED BY <1>1, <1>5 DEF Queued, Running

(* The call ends, with a value or an exception.                            *)
LEMMA EndOK ==
  ASSUME NEW p, PoolOK(p), NEW i \in Running(p), NEW o \in Outcome,
         NEW q, q = EndCall(p, i, o)
  PROVE  /\ PoolOK(q)
         /\ q.width = p.width /\ q.size = p.size
         /\ q.taken = p.taken /\ q.current = p.current
         /\ Queued(q) = Queued(p)
         /\ Running(q) = Running(p) \ {i}
         /\ q.call[i] = o
         /\ \A j \in Index \ {i} : q.call[j] = p.call[j]
<1> DEFINE call == [p.call EXCEPT ![i] = o]
<1>1. p \in Pool /\ p.call \in [Index -> Status] /\ i \in Index
      /\ p.call[i] = "running"
  BY DEF PoolOK, PoolShape, Pool, Running
<1>2. q = [p EXCEPT !.call = call]
  BY <1>1 DEF EndCall, Pool
<1>3. call \in [Index -> Status]
  BY <1>1 DEF Status
<1>4. o \notin {"idle", "queued", "running", "cancelled"}
  BY OutcomeAssumption
<1>5. \A j \in Index : (call[j] = "idle") <=> (p.call[j] = "idle")
  BY <1>1, <1>4
<1>6. /\ PoolOK(q) /\ q.call = call
      /\ q.width = p.width /\ q.size = p.size
      /\ q.taken = p.taken /\ q.current = p.current
  <2> HIDE DEF call
  <2>1. QED BY <1>2, <1>3, <1>5, CallsOK
<1>7. QED BY <1>1, <1>4, <1>6 DEF Queued, Running

(* Leaving the generator drops the call of the iterating thread itself, and *)
(* leaves calls on threads of their own alone.                             *)
LEMMA DroppedOK ==
  ASSUME NEW p, PoolOK(p), NEW q, q = Dropped(p)
  PROVE  /\ PoolOK(q)
         /\ q.width = p.width /\ q.size = p.size
         /\ q.taken = p.taken /\ q.current = p.current
         /\ Queued(q) = IF p.width = 1 THEN {} ELSE Queued(p)
         /\ Running(q) = IF p.width = 1 THEN {} ELSE Running(p)
         /\ \A j \in Index : p.call[j] \in Outcome <=> q.call[j] \in Outcome
<1> DEFINE call == [j \in Index |->
                      IF p.call[j] \in {"queued", "running"} /\ p.width = 1
                      THEN "cancelled" ELSE p.call[j]]
<1>1. p \in Pool /\ p.call \in [Index -> Status]
  BY DEF PoolOK, PoolShape, Pool
<1>2. q = [p EXCEPT !.call = call]
  BY <1>1 DEF Dropped, Pool
<1>3. call \in [Index -> Status]
  BY <1>1 DEF Status
<1>4. \A j \in Index : (call[j] = "idle") <=> (p.call[j] = "idle")
  BY <1>1
<1>5. /\ PoolOK(q) /\ q.call = call
      /\ q.width = p.width /\ q.size = p.size
      /\ q.taken = p.taken /\ q.current = p.current
  <2> HIDE DEF call
  <2>1. QED BY <1>2, <1>3, <1>4, CallsOK
<1>6. /\ Queued(q) = IF p.width = 1 THEN {} ELSE Queued(p)
      /\ Running(q) = IF p.width = 1 THEN {} ELSE Running(p)
  BY <1>1, <1>5 DEF Queued, Running
<1>7. \A j \in Index : p.call[j] \in Outcome <=> q.call[j] \in Outcome
  BY <1>1, <1>5, OutcomeAssumption
<1>8. QED BY <1>5, <1>6, <1>7

(* One cancellation takes one call out of the queue and touches no other.  *)
LEMMA CancelOK ==
  ASSUME NEW p, PoolOK(p), NEW i \in Queued(p), NEW q, q = CancelCall(p, i)
  PROVE  /\ PoolOK(q)
         /\ q.width = p.width /\ q.size = p.size
         /\ q.taken = p.taken /\ q.current = p.current
         /\ Queued(q) = Queued(p) \ {i}
         /\ Running(q) = Running(p)
         /\ q.call[i] = "cancelled"
         /\ \A j \in Index \ {i} : q.call[j] = p.call[j]
         /\ \A j \in Index : p.call[j] \in Outcome <=> q.call[j] \in Outcome
<1> DEFINE call == [p.call EXCEPT ![i] = "cancelled"]
<1>1. p \in Pool /\ p.call \in [Index -> Status] /\ i \in Index
      /\ p.call[i] = "queued"
  BY DEF PoolOK, PoolShape, Pool, Queued
<1>2. q = [p EXCEPT !.call = call]
  BY <1>1 DEF CancelCall, Pool
<1>3. call \in [Index -> Status]
  BY <1>1 DEF Status
<1>4. \A j \in Index : (call[j] = "idle") <=> (p.call[j] = "idle")
  BY <1>1
<1>5. /\ PoolOK(q) /\ q.call = call
      /\ q.width = p.width /\ q.size = p.size
      /\ q.taken = p.taken /\ q.current = p.current
  <2> HIDE DEF call
  <2>1. QED BY <1>2, <1>3, <1>4, CallsOK
<1>6. \A j \in Index : p.call[j] \in Outcome <=> q.call[j] \in Outcome
  BY <1>1, <1>5, OutcomeAssumption
<1>7. QED BY <1>1, <1>5, <1>6 DEF Queued, Running

----------------------------------------------------------------------------
(* What keeps a pool moving                                                *)

(* A set of natural numbers has a least element.                           *)
LEMMA LeastOf ==
  ASSUME NEW S, S \subseteq Nat, S # {}
  PROVE  \E i \in S : \A j \in S : i <= j
<1>1. PICK i \in S : \A j \in S : <<j, i>> \notin OpToRel(<, Nat)
  BY NatLessThanWellFounded, WFMin
<1>2. \A j \in S : ~ (j < i)
  BY <1>1 DEF OpToRel
<1>3. QED BY <1>2

(* While anything is queued there is a next future to cancel.              *)
LEMMA SomeCancel ==
  ASSUME NEW p, Queued(p) # {}
  PROVE  \E i \in Index : CanCancel(p, i)
<1> DEFINE S == Queued(p) \ {p.current}
<1>1. Queued(p) \subseteq Index /\ S \subseteq Nat
  BY DEF Queued, Index
<1>2. CASE S = {}
  <2>1. CanCancel(p, p.current) /\ p.current \in Index
    BY <1>1, <1>2 DEF CanCancel
  <2>2. QED BY <2>1
<1>3. CASE S # {}
  <2>1. PICK i \in S : \A j \in S : i <= j
    <3> HIDE DEF S
    <3>1. QED BY <1>1, <1>3, LeastOf
  <2>2. CanCancel(p, i) /\ i \in Index
    BY <1>1, <2>1 DEF CanCancel
  <2>3. QED BY <2>2
<1>4. QED BY <1>2, <1>3

(* What moves a pool from within: a call ends, or a worker takes one.      *)
PoolMoves(p) == \E i \in Index : i \in Running(p) \/ CanStart(p, i)

NoneCancelled(p) == \A i \in Index : p.call[i] # "cancelled"

(* There is a worker for the oldest call queued, unless they are all busy. *)
LEMMA QueuedMoves ==
  ASSUME NEW p, p \in Pool, Queued(p) # {}
  PROVE  PoolMoves(p)
<1>1. Queued(p) \subseteq Nat /\ Queued(p) \subseteq Index
  BY DEF Queued, Index
<1>2. PICK i \in Queued(p) : \A j \in Queued(p) : i <= j
  BY <1>1, LeastOf
<1>3. CASE Running(p) = {}
  <2>1. Cardinality(Running(p)) = 0 /\ p.width \in Nat \ {0}
    BY <1>3, FS_EmptySet DEF Pool
  <2>2. CanStart(p, i)
    BY <1>2, <2>1 DEF CanStart
  <2>3. QED BY <1>1, <2>2 DEF PoolMoves
<1>4. CASE Running(p) # {}
  BY <1>4 DEF Running, PoolMoves
<1>5. QED BY <1>3, <1>4

(* Whoever waits for a result that nobody cancelled will be served: the    *)
(* result is there, or it runs, or it waits for a worker.                  *)
LEMMA ResultOnItsWay ==
  ASSUME NEW p, PoolOK(p), p.current # 0, NoneCancelled(p)
  PROVE  p.call[p.current] \in Outcome \/ PoolMoves(p)
<1> DEFINE i == p.current
<1>1. i \in Index /\ p \in Pool
  BY MaxItemsAssumption DEF PoolOK, PoolShape, PopCount, Pool, Index
<1>2. i <= p.taken /\ p.call[i] \in Status
  BY MaxItemsAssumption DEF PoolOK, PoolShape, PopCount, Pool, Index
<1>3. p.call[i] \in {"queued", "running"} \cup Outcome
  <2>1. p.call[i] # "idle"
    BY <1>1, <1>2, MaxItemsAssumption DEF PoolOK, PoolShape, Pool, Index
  <2>2. p.call[i] # "cancelled"
    BY <1>1 DEF NoneCancelled
  <2>3. QED BY <1>2, <2>1, <2>2 DEF Status
<1>4. CASE p.call[i] = "queued"
  BY <1>1, <1>4, QueuedMoves DEF Queued
<1>5. CASE p.call[i] = "running"
  BY <1>1, <1>5 DEF Running, PoolMoves
<1>6. QED BY <1>3, <1>4, <1>5

(* Only leaving the generator cancels calls.                               *)
LEMMA NewNoneCancelled ==
  ASSUME NEW width, NEW size PROVE NoneCancelled(NewPool(width, size))
BY DEF NoneCancelled, NewPool

LEMMA SubmitNoneCancelled ==
  ASSUME NEW p, PoolShape(p), NoneCancelled(p), NEW n \in Nat,
         NEW q, q = PopLeft(Submit(p, n))
  PROVE  NoneCancelled(q)
<1> DEFINE s == Submit(p, n)
<1>1. q.call = s.call
  <2>1. PoolShape(s) /\ q = PopLeft(s)
    BY SubmitShape
  <2> HIDE DEF s
  <2>2. QED BY <2>1, PopLeftShape
<1>2. p \in Pool
  BY DEF PoolShape
<1>3. NoneCancelled(s)
  BY <1>2 DEF NoneCancelled, Submit, Pool
<1>4. QED BY <1>1, <1>3 DEF NoneCancelled

LEMMA CallNoneCancelled ==
  ASSUME NEW p, PoolOK(p), NoneCancelled(p), NEW i \in Index,
         NEW q, \/ i \in Queued(p) /\ q = StartCall(p, i)
                \/ i \in Running(p) /\ \E o \in Outcome : q = EndCall(p, i, o)
  PROVE  NoneCancelled(q)
<1>1. CASE i \in Queued(p) /\ q = StartCall(p, i)
  <2>1. q.call[i] = "running"
    BY <1>1, StartOK DEF Running
  <2>2. QED BY <1>1, <2>1, StartOK DEF NoneCancelled
<1>2. ASSUME NEW o \in Outcome, i \in Running(p), q = EndCall(p, i, o)
      PROVE  NoneCancelled(q)
  BY <1>2, EndOK, OutcomeAssumption DEF NoneCancelled
<1>3. QED BY <1>1, <1>2

(***************************************************************************)
(* How much there is left to do in a pool: every call is still to be       *)
(* taken, started and ended.                                               *)
(***************************************************************************)
NotTaken(p)   == {i \in Index : p.call[i] = "idle"}
NotStarted(p) == {i \in Index : p.call[i] \in {"idle", "queued"}}
NotEnded(p)   == {i \in Index : p.call[i] \in {"idle", "queued", "running"}}

Work(p) ==
  Cardinality(NotTaken(p)) + Cardinality(NotStarted(p)) + Cardinality(NotEnded(p))

(* Every call of q is at least where it was in p.                          *)
Forward(p, q) ==
  /\ NotTaken(q) \subseteq NotTaken(p)
  /\ NotStarted(q) \subseteq NotStarted(p)
  /\ NotEnded(q) \subseteq NotEnded(p)

LEMMA SetsOfCalls ==
  ASSUME NEW p
  PROVE  /\ IsFiniteSet(NotTaken(p)) /\ IsFiniteSet(NotStarted(p))
         /\ IsFiniteSet(NotEnded(p))
         /\ Cardinality(NotTaken(p)) \in Nat /\ Cardinality(NotStarted(p)) \in Nat
         /\ Cardinality(NotEnded(p)) \in Nat
<1>1. IsFiniteSet(Index)
  BY MaxItemsAssumption, FS_Interval DEF Index
<1>2. /\ NotTaken(p) \in SUBSET Index /\ NotStarted(p) \in SUBSET Index
      /\ NotEnded(p) \in SUBSET Index
  BY DEF NotTaken, NotStarted, NotEnded
<1>3. QED BY <1>1, <1>2, FS_Subset, FS_CardinalityType

LEMMA WorkLeft == ASSUME NEW p PROVE Work(p) \in Nat
BY SetsOfCalls DEF Work

LEMMA WorkRange == ASSUME NEW p PROVE Work(p) \in 0 .. (3 * MaxItems)
<1> DEFINE a == Cardinality(NotTaken(p))
           b == Cardinality(NotStarted(p))
           c == Cardinality(NotEnded(p))
<1>1. IsFiniteSet(Index) /\ Cardinality(Index) = MaxItems
  BY MaxItemsAssumption, FS_Interval DEF Index
<1>2. /\ NotTaken(p) \in SUBSET Index /\ NotStarted(p) \in SUBSET Index
      /\ NotEnded(p) \in SUBSET Index
  BY DEF NotTaken, NotStarted, NotEnded
<1>3. a <= MaxItems /\ b <= MaxItems /\ c <= MaxItems
  BY <1>1, <1>2, FS_Subset
<1>4. a \in Nat /\ b \in Nat /\ c \in Nat /\ Work(p) = a + b + c
  BY SetsOfCalls DEF Work
<1> HIDE DEF a, b, c
<1>5. QED BY <1>3, <1>4, MaxItemsAssumption

(* Going forward leaves no more work ...                                   *)
LEMMA ForwardWork ==
  ASSUME NEW p, NEW q, Forward(p, q)
  PROVE  Work(q) <= Work(p)
<1>1. /\ Cardinality(NotTaken(q)) <= Cardinality(NotTaken(p))
      /\ Cardinality(NotStarted(q)) <= Cardinality(NotStarted(p))
      /\ Cardinality(NotEnded(q)) <= Cardinality(NotEnded(p))
  BY SetsOfCalls, FS_Subset DEF Forward
<1>2. QED BY <1>1, SetsOfCalls DEF Work

LEMMA FewerLeft ==
  ASSUME NEW S, NEW T, IsFiniteSet(S), T \subseteq S, NEW i \in S, i \notin T
  PROVE  Cardinality(T) < Cardinality(S)
<1>1. /\ IsFiniteSet(S \ {i}) /\ T \subseteq S \ {i}
      /\ Cardinality(S \ {i}) = Cardinality(S) - 1 /\ Cardinality(S) \in Nat
  BY FS_RemoveElement, FS_CardinalityType
<1>2. Cardinality(T) <= Cardinality(S \ {i}) /\ Cardinality(T) \in Nat
  BY <1>1, FS_Subset, FS_CardinalityType
<1>3. QED BY <1>1, <1>2

(* ... and a call that starts or ends leaves less.                         *)
LEMMA CallWork ==
  ASSUME NEW p, PoolOK(p), NEW i \in Index,
         NEW q, \/ i \in Queued(p) /\ q = StartCall(p, i)
                \/ i \in Running(p) /\ \E o \in Outcome : q = EndCall(p, i, o)
  PROVE  Work(q) < Work(p)
<1>1. CASE i \in Queued(p) /\ q = StartCall(p, i)
  <2>1. q.call[i] = "running" /\ p.call[i] = "queued"
    BY <1>1, StartOK DEF Running, Queued
  <2>2. Forward(p, q) /\ i \in NotStarted(p) /\ i \notin NotStarted(q)
    BY <1>1, <2>1, StartOK DEF Forward, NotTaken, NotStarted, NotEnded
  <2>3. Cardinality(NotStarted(q)) < Cardinality(NotStarted(p))
    BY <2>2, SetsOfCalls, FewerLeft DEF Forward
  <2>4. /\ Cardinality(NotTaken(q)) <= Cardinality(NotTaken(p))
        /\ Cardinality(NotEnded(q)) <= Cardinality(NotEnded(p))
    BY <2>2, SetsOfCalls, FS_Subset DEF Forward
  <2>5. QED BY <2>3, <2>4, SetsOfCalls DEF Work
<1>2. ASSUME NEW o \in Outcome, i \in Running(p), q = EndCall(p, i, o)
      PROVE  Work(q) < Work(p)
  <2>1. q.call[i] = o /\ o \notin {"idle", "queued", "running"} /\ p.call[i] = "running"
    BY <1>2, EndOK, OutcomeAssumption DEF Running
  <2>2. Forward(p, q) /\ i \in NotEnded(p) /\ i \notin NotEnded(q)
    BY <1>2, <2>1, EndOK DEF Forward, NotTaken, NotStarted, NotEnded
  <2>3. Cardinality(NotEnded(q)) < Cardinality(NotEnded(p))
    BY <2>2, SetsOfCalls, FewerLeft DEF Forward
  <2>4. /\ Cardinality(NotTaken(q)) <= Cardinality(NotTaken(p))
        /\ Cardinality(NotStarted(q)) <= Cardinality(NotStarted(p))
    BY <2>2, SetsOfCalls, FS_Subset DEF Forward
  <2>5. QED BY <2>3, <2>4, SetsOfCalls DEF Work
<1>3. QED BY <1>1, <1>2

(* Submitting and leaving the generator go forward.                        *)
LEMMA SubmitForward ==
  ASSUME NEW p, PoolShape(p), NEW n \in Nat, NEW q, q = PopLeft(Submit(p, n))
  PROVE  Forward(p, q)
<1> DEFINE s == Submit(p, n)
           last == IF p.taken + n < p.size THEN p.taken + n ELSE p.size
<1>1. q.call = s.call
  <2>1. PoolShape(s) /\ q = PopLeft(s)
    BY SubmitShape
  <2> HIDE DEF s
  <2>2. QED BY <2>1, PopLeftShape
<1>2. /\ p \in Pool /\ p.taken \in Nat
      /\ \A i \in Index : (p.call[i] = "idle") <=> (i > p.taken)
  BY MaxItemsAssumption DEF PoolShape, Pool
<1>3. \A i \in Index : \/ s.call[i] = p.call[i]
                       \/ s.call[i] = "queued" /\ p.call[i] = "idle"
  <2>1. s.call = [i \in Index |-> IF i \in (p.taken + 1) .. last
                                  THEN "queued" ELSE p.call[i]]
    BY <1>2 DEF Submit, Pool
  <2>2. \A i \in Index : i \in (p.taken + 1) .. last => i > p.taken
    BY <1>2
  <2> HIDE DEF s, last
  <2>3. QED BY <1>2, <2>1, <2>2
<1> HIDE DEF s
<1>4. QED BY <1>1, <1>3 DEF Forward, NotTaken, NotStarted, NotEnded

LEMMA DroppedForward ==
  ASSUME NEW p, PoolOK(p), NEW q, q = Dropped(p)
  PROVE  Forward(p, q)
<1>1. q.call = [i \in Index |-> IF p.call[i] \in {"queued", "running"} /\ p.width = 1
                                THEN "cancelled" ELSE p.call[i]]
  BY DEF Dropped, PoolOK, PoolShape, Pool
<1>2. QED BY <1>1 DEF Forward, NotTaken, NotStarted, NotEnded

(* A call cancelled is one less to start.                                  *)
LEMMA CancelWork ==
  ASSUME NEW p, PoolOK(p), NEW i \in Queued(p), NEW q, q = CancelCall(p, i)
  PROVE  Work(q) < Work(p)
<1>1. q.call[i] = "cancelled" /\ p.call[i] = "queued" /\ i \in Index
  BY CancelOK DEF Queued
<1>2. Forward(p, q) /\ i \in NotStarted(p) /\ i \notin NotStarted(q)
  BY <1>1, CancelOK DEF Forward, NotTaken, NotStarted, NotEnded
<1>3. Cardinality(NotStarted(q)) < Cardinality(NotStarted(p))
  BY <1>2, SetsOfCalls, FewerLeft DEF Forward
<1>4. /\ Cardinality(NotTaken(q)) <= Cardinality(NotTaken(p))
      /\ Cardinality(NotEnded(q)) <= Cardinality(NotEnded(p))
  BY <1>2, SetsOfCalls, FS_Subset DEF Forward
<1>5. QED BY <1>3, <1>4, SetsOfCalls DEF Work
=============================================================================
