-------------------------- MODULE ApiBackendProofs --------------------------
(* The pace lock of ApiBackend, for any number of threads, any interval    *)
(* and any number of retries.                                              *)
EXTENDS ApiBackend, TLAPS

(* The inductive invariant: TypeOK says that at most one thread sleeps in  *)
(* _pace, and without that a start noted by one would invalidate the wait  *)
(* of another.                                                             *)
IInv == TypeOK /\ WaitExact

USE BackendAssumption

LEMMA InitIInv == Init => IInv
  BY DEF Init, IInv, TypeOK, WaitExact, Pc

(* Every step of the backend keeps the types and the lock's ownership.     *)
LEMMA StepTypeOK == TypeOK /\ [Next]_vars => TypeOK'
<1> SUFFICES ASSUME TypeOK, [Next]_vars PROVE TypeOK'
  OBVIOUS
<1> USE DEF TypeOK, Pc, GoTo
<1>1. ASSUME NEW t \in Threads, Generate(t) PROVE TypeOK'
  BY <1>1 DEF Generate
<1>2. ASSUME NEW t \in Threads, Pace(t) PROVE TypeOK'
  BY <1>2 DEF Pace
<1>3. ASSUME NEW t \in Threads, Stamp(t) PROVE TypeOK'
  BY <1>3 DEF Stamp
<1>4. ASSUME NEW t \in Threads, Send(t) PROVE TypeOK'
  BY <1>4 DEF Send
<1>5. ASSUME NEW t \in Threads, Leave(t) PROVE TypeOK'
  BY <1>5 DEF Leave
<1>6. ASSUME NEW t \in Threads, Retry(t) PROVE TypeOK'
  BY <1>6 DEF Retry
<1>7. ASSUME NEW t \in Threads, NextAttempt(t) PROVE TypeOK'
  BY <1>7 DEF NextAttempt
<1>8. CASE NewBackend
  BY <1>8 DEF NewBackend
<1>9. CASE Tick
  BY <1>9 DEF Tick, Later
<1>10. CASE UNCHANGED vars
  BY <1>10 DEF vars
<1>11. QED
  BY <1>1, <1>2, <1>3, <1>4, <1>5, <1>6, <1>7, <1>8, <1>9, <1>10 DEF Next, Step

(* ... and the exactness of the wait in progress.                          *)
LEMMA StepWaitExact == IInv /\ [Next]_vars => WaitExact'
<1> SUFFICES ASSUME IInv, [Next]_vars, NEW s \in Threads, pc'[s] = "sleeping"
             PROVE  /\ since' + left'[s] >= Interval
                    /\ left'[s] > 0 => since' + left'[s] = Interval
  BY DEF WaitExact
<1> DEFINE Goal == /\ since' + left'[s] >= Interval
                   /\ left'[s] > 0 => since' + left'[s] = Interval
<1>1. TypeOK /\ left[s] \in Nat /\ since \in 0 .. Interval
  BY DEF IInv, TypeOK
<1>2. pc[s] = "sleeping" =>
        /\ since + left[s] >= Interval
        /\ left[s] > 0 => since + left[s] = Interval
  BY DEF IInv, WaitExact
<1> USE DEF GoTo
<1>3. ASSUME NEW t \in Threads, Generate(t) PROVE Goal
  BY <1>1, <1>2, <1>3 DEF Generate, TypeOK
<1>4. ASSUME NEW t \in Threads, Pace(t) PROVE Goal
  BY <1>1, <1>2, <1>4 DEF Pace, TypeOK
<1>5. ASSUME NEW t \in Threads, Stamp(t) PROVE Goal
  BY <1>1, <1>5 DEF Stamp, TypeOK
<1>6. ASSUME NEW t \in Threads, Send(t) \/ Leave(t) PROVE Goal
  BY <1>1, <1>2, <1>6 DEF Send, Leave, TypeOK
<1>7. ASSUME NEW t \in Threads, Retry(t) PROVE Goal
  BY <1>1, <1>2, <1>7 DEF Retry, TypeOK
<1>8. ASSUME NEW t \in Threads, NextAttempt(t) PROVE Goal
  BY <1>1, <1>2, <1>8 DEF NextAttempt, TypeOK
<1>9. CASE NewBackend
  BY <1>1, <1>9 DEF NewBackend
<1>10. CASE Tick
  BY <1>1, <1>2, <1>10 DEF Tick, Later
<1>11. CASE UNCHANGED vars
  BY <1>2, <1>11 DEF vars
<1>12. QED
  BY <1>3, <1>4, <1>5, <1>6, <1>7, <1>8, <1>9, <1>10, <1>11 DEF Next, Step

LEMMA Invariant == Spec => []IInv
<1>1. IInv /\ [Next]_vars => IInv'
  BY StepTypeOK, StepWaitExact DEF IInv
<1>2. QED BY InitIInv, <1>1, PTL DEF Spec

(* Types, and that the lock is held by the one thread that waits its turn. *)
THEOREM TypeCorrect == Spec => []TypeOK
<1>1. IInv => TypeOK
  BY DEF IInv
<1>2. QED BY Invariant, <1>1, PTL

(* The wait in _pace is never too short and never too long.                *)
THEOREM WaitIsExact == Spec => []WaitExact
<1>1. IInv => WaitExact
  BY DEF IInv
<1>2. QED BY Invariant, <1>1, PTL

(* The starts that a backend notes are spaced as RateLimiter demands.      *)
THEOREM Implementation == Spec => StartsSpaced
<1>1. Init => Limiter!Init
  BY DEF Init, Limiter!Init
<1>2. ASSUME IInv, [Next]_vars PROVE [Limiter!Next]_since
  <2> USE DEF Limiter!Next
  <2>1. ASSUME NEW t \in Threads, Stamp(t) PROVE Limiter!Start
    <3>1. since + left[t] >= Interval /\ left[t] = 0 /\ since' = 0
      BY <1>2, <2>1 DEF IInv, WaitExact, Stamp, GoTo
    <3>2. since \in 0 .. Interval
      BY <1>2 DEF IInv, TypeOK
    <3>3. QED BY <3>1, <3>2 DEF Limiter!Start
  <2>2. CASE Tick
    <3>1. since \in 0 .. Interval /\ since' = Later(since)
      BY <1>2, <2>2 DEF IInv, TypeOK, Tick
    <3>2. QED BY <3>1 DEF Later, Limiter!Tick
  <2>3. CASE NewBackend
    BY <2>3 DEF NewBackend, Limiter!Renew
  <2>4. ASSUME NEW t \in Threads,
               \/ Generate(t) \/ Pace(t) \/ Send(t) \/ Leave(t)
               \/ Retry(t) \/ NextAttempt(t)
        PROVE  UNCHANGED since
    BY <2>4 DEF Generate, Pace, Send, Leave, Retry, NextAttempt
  <2>5. CASE UNCHANGED vars
    BY <2>5 DEF vars
  <2>6. QED BY <1>2, <2>1, <2>2, <2>3, <2>4, <2>5 DEF Next, Step
<1>3. QED BY <1>1, <1>2, Invariant, PTL DEF Spec, StartsSpaced, Limiter!Spec

----------------------------------------------------------------------------
(* Progress, without fairness                                              *)

(* The guards of Step, and of Tick for a thread that sleeps.               *)
HasStep(t) ==
  \/ pc[t] = "pacing" /\ holder = None
  \/ pc[t] \in {"sleeping", "backoff"} /\ left[t] = 0
  \/ pc[t] \in {"paced", "sent"}

(* A call of generate is never stuck: its thread can go on, or time must   *)
(* pass for it, or it waits for the pace lock, whose holder can go on or   *)
(* waits for nothing but time.                                             *)
THEOREM NeverStuck ==
  Spec => [](\A t \in Threads : pc[t] # "idle" =>
               \E s \in {t, holder} \cap Threads : HasStep(s) \/ left[s] > 0)
<1>1. ASSUME IInv, NEW t \in Threads, pc[t] # "idle"
      PROVE  \E s \in {t, holder} \cap Threads : HasStep(s) \/ left[s] > 0
  <2>1. /\ pc[t] \in Pc /\ holder \in Threads \cup {None}
        /\ \A s \in Threads : left[s] \in Nat /\ (pc[s] = "sleeping" <=> holder = s)
    BY <1>1 DEF IInv, TypeOK
  <2>2. CASE pc[t] = "pacing" /\ holder # None
    <3>1. holder \in {t, holder} \cap Threads /\ pc[holder] = "sleeping"
      BY <2>1, <2>2
    <3>2. HasStep(holder) \/ left[holder] > 0
      BY <2>1, <3>1 DEF HasStep
    <3>3. QED BY <3>1, <3>2
  <2>3. CASE ~ (pc[t] = "pacing" /\ holder # None)
    <3>1. HasStep(t) \/ left[t] > 0
      BY <1>1, <2>1, <2>3 DEF HasStep, Pc
    <3>2. QED BY <3>1
  <2>4. QED BY <2>2, <2>3
<1>2. IInv => \A t \in Threads : pc[t] # "idle" =>
                \E s \in {t, holder} \cap Threads : HasStep(s) \/ left[s] > 0
  BY <1>1
<1>3. QED BY <1>2, Invariant, PTL

(* How many steps a call has still to make: five for every attempt left.   *)
Stage(where) ==
  CASE where = "pacing"   -> 5
    [] where = "sleeping" -> 4
    [] where = "paced"    -> 3
    [] where = "sent"     -> 2
    [] OTHER              -> 1

Remaining(t) ==
  IF pc[t] = "idle" THEN 0 ELSE 5 * (MaxRetries - attempt[t]) + Stage(pc[t])

LEMMA StageRange == \A where : Stage(where) \in 1 .. 5
BY DEF Stage

(* Every step of a call brings it nearer to its end, and no other thread,  *)
(* nor time, sends it back.                                                *)
THEOREM NoCircles ==
  Spec => [][\A t \in Threads :
               pc[t] # "idle" /\ <<pc[t], attempt[t]>>' # <<pc[t], attempt[t]>>
                 => Remaining(t)' < Remaining(t)]_vars
<1>1. ASSUME IInv, [Next]_vars, NEW t \in Threads, pc[t] # "idle",
             <<pc[t], attempt[t]>>' # <<pc[t], attempt[t]>>
      PROVE  Remaining(t)' < Remaining(t)
  <2> DEFINE m == MaxRetries
             a == attempt[t]
  <2>1. /\ pc \in [Threads -> Pc] /\ attempt \in [Threads -> 0 .. MaxRetries]
        /\ m \in Nat /\ a \in Nat /\ a <= m
        /\ pc[t] = "backoff" => a < m
    BY <1>1, BackendAssumption DEF IInv, TypeOK
  <2>2. Remaining(t) = 5 * (m - a) + Stage(pc[t])
    BY <1>1 DEF Remaining
  <2>3. \/ Step(t)
        \/ pc'[t] = pc[t] /\ attempt'[t] = attempt[t]
    BY <1>1, <2>1
       DEF Next, Generate, Step, Pace, Stamp, Send, Leave, Retry, NextAttempt,
           NewBackend, Tick, GoTo, vars
  <2>4. CASE Leave(t)
    <3>1. Remaining(t)' = 0
      BY <2>1, <2>4 DEF Leave, GoTo, Remaining
    <3>2. Stage(pc[t]) \in 1 .. 5
      BY StageRange
    <3> HIDE DEF m, a
    <3>3. QED BY <2>1, <2>2, <3>1, <3>2
  <2>5. CASE NextAttempt(t)
    <3>1. pc'[t] = "pacing" /\ attempt'[t] = a + 1 /\ pc[t] = "backoff"
      BY <2>1, <2>5 DEF NextAttempt, GoTo
    <3>2. Remaining(t)' = 5 * (m - (a + 1)) + 5 /\ Remaining(t) = 5 * (m - a) + 1
      BY <2>2, <3>1 DEF Remaining, Stage
    <3> HIDE DEF m, a
    <3>3. QED BY <2>1, <3>2
  <2>6. CASE Pace(t) \/ Stamp(t) \/ Send(t) \/ Retry(t)
    <3>1. attempt'[t] = a /\ pc'[t] # "idle" /\ Stage(pc'[t]) = Stage(pc[t]) - 1
      BY <2>1, <2>6 DEF Pace, Stamp, Send, Retry, GoTo, Stage
    <3>2. Remaining(t)' = 5 * (m - a) + Stage(pc[t]) - 1
      BY <2>1, <3>1, StageRange DEF Remaining
    <3>3. Stage(pc[t]) \in 1 .. 5
      BY StageRange
    <3> HIDE DEF m, a
    <3>4. QED BY <2>1, <2>2, <3>2, <3>3
  <2>7. QED BY <1>1, <2>3, <2>4, <2>5, <2>6 DEF Step
<1>2. IInv /\ [Next]_vars =>
        [\A t \in Threads :
           pc[t] # "idle" /\ <<pc[t], attempt[t]>>' # <<pc[t], attempt[t]>>
             => Remaining(t)' < Remaining(t)]_vars
  BY <1>1
<1>3. QED BY <1>2, Invariant, PTL DEF Spec
=============================================================================
