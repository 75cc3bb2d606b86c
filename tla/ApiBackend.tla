----------------------------- MODULE ApiBackend -----------------------------
(***************************************************************************)
(* OpenAICompatibleBackend (src/model_backends/openai_compatible.py) as    *)
(* the sample threads of a cell share it: `generate' spaces its requests   *)
(* through one pace lock, held while sleeping, and retries what may be     *)
(* retried after a growing wait.  The API service answers when and how it  *)
(* likes.  A cell, and the preflight before it, has a backend of its own.  *)
(*                                                                         *)
(* Time passes in ticks; a clock stops counting once its value no longer   *)
(* matters.  A sleep lasts at least as long as asked for.                  *)
(***************************************************************************)
EXTENDS Integers, FiniteSets

CONSTANTS
  Threads,      (* the threads that evaluate samples                      *)
  None,         (* no thread                                              *)
  Interval,     (* min_request_interval_seconds, in ticks                 *)
  MaxRetries,   (* max_retries, the number of attempts                    *)
  Backoff,      (* the waits between attempts: min(60, 2^n) + random()    *)
  MaxCalls,     (* calls of generate per thread and backend (bound)       *)
  MaxBackends   (* backends made one after the other (bound)              *)

ASSUME BackendAssumption ==
  /\ None \notin Threads
  /\ Interval \in Nat
  /\ MaxRetries \in Nat \ {0}
  /\ Backoff \subseteq Nat \ {0}
  /\ MaxCalls \in Nat
  /\ MaxBackends \in Nat \ {0}

VARIABLES
  pc,        (* where each thread is, see Pc                              *)
  left,      (* ticks left of its sleep                                   *)
  attempt,   (* the attempt it is at, 0 outside generate                  *)
  holder,    (* who holds _pace_lock                                      *)
  since,     (* ticks since _last_request_started, at most Interval       *)
  sent,      (* ticks since a request left for the service, likewise      *)
  calls,     (* calls of generate made by each thread                     *)
  backends   (* backends made so far                                      *)

vars == <<pc, left, attempt, holder, since, sent, calls, backends>>

(* "idle"      outside generate                                            *)
(* "pacing"    about to take the pace lock                                 *)
(* "sleeping"  holding it, until its turn has come                         *)
(* "paced"     out of _pace, the request not sent yet                      *)
(* "sent"      waiting for the service                                     *)
(* "backoff"   waiting before the next attempt                             *)
Pc == {"idle", "pacing", "sleeping", "paced", "sent", "backoff"}

Init ==
  /\ pc = [t \in Threads |-> "idle"]
  /\ left = [t \in Threads |-> 0]
  /\ attempt = [t \in Threads |-> 0]
  /\ holder = None
  /\ since = Interval
  /\ sent = Interval
  /\ calls = [t \in Threads |-> 0]
  /\ backends = 1

GoTo(t, from, to) ==
  /\ pc[t] = from
  /\ pc' = [pc EXCEPT ![t] = to]

Generate(t) ==
  /\ GoTo(t, "idle", "pacing")
  /\ calls[t] < MaxCalls
  /\ calls' = [calls EXCEPT ![t] = @ + 1]
  /\ attempt' = [attempt EXCEPT ![t] = 1]
  /\ UNCHANGED <<left, holder, since, sent, backends>>

(* Defect: the wait is computed and slept before the lock is taken.        *)
PaceUnlocked(t) ==
  /\ GoTo(t, "pacing", "sleeping")
  /\ holder' = t
  /\ left' = [left EXCEPT ![t] = Interval - since]
  /\ UNCHANGED <<attempt, since, sent, calls, backends>>

(* Defect: the interval is slept whatever has passed of it.                *)
PaceInFull(t) ==
  /\ GoTo(t, "pacing", "sleeping")
  /\ holder = None
  /\ holder' = t
  /\ left' = [left EXCEPT ![t] = Interval]
  /\ UNCHANGED <<attempt, since, sent, calls, backends>>

(* Take the lock, then sleep for what is missing of the interval.          *)
Pace(t) ==
  /\ GoTo(t, "pacing", "sleeping")
  /\ holder = None
  /\ holder' = t
  /\ left' = [left EXCEPT ![t] = Interval - since]
  /\ UNCHANGED <<attempt, since, sent, calls, backends>>

(* Defect: a path out of _pace that keeps the lock.                        *)
StampAndKeep(t) ==
  /\ GoTo(t, "sleeping", "paced")
  /\ left[t] = 0
  /\ since' = 0
  /\ UNCHANGED <<holder, left, attempt, sent, calls, backends>>

(* The sleep is over: the start is noted and the lock released.            *)
Stamp(t) ==
  /\ GoTo(t, "sleeping", "paced")
  /\ left[t] = 0
  /\ since' = 0
  /\ holder' = None
  /\ UNCHANGED <<left, attempt, sent, calls, backends>>

Send(t) ==
  /\ GoTo(t, "paced", "sent")
  /\ sent' = 0
  /\ UNCHANGED <<left, attempt, holder, since, calls, backends>>

(* generate returns or raises: a response, whether or not it has the       *)
(* expected shape, or an error not worth or no longer worth a retry.       *)
Leave(t) ==
  /\ GoTo(t, "sent", "idle")
  /\ attempt' = [attempt EXCEPT ![t] = 0]
  /\ UNCHANGED <<left, holder, since, sent, calls, backends>>

(* A retryable error with attempts left.                                   *)
Retry(t) ==
  /\ GoTo(t, "sent", "backoff")
  /\ attempt[t] < MaxRetries
  /\ \E wait \in Backoff : left' = [left EXCEPT ![t] = wait]
  /\ UNCHANGED <<attempt, holder, since, sent, calls, backends>>

(* Defect: `while True' for the `for' over the attempts.                   *)
NextAttemptUncounted(t) ==
  /\ GoTo(t, "backoff", "pacing")
  /\ left[t] = 0
  /\ UNCHANGED <<left, attempt, holder, since, sent, calls, backends>>

NextAttempt(t) ==
  /\ GoTo(t, "backoff", "pacing")
  /\ left[t] = 0
  /\ attempt' = [attempt EXCEPT ![t] = @ + 1]
  /\ UNCHANGED <<left, holder, since, sent, calls, backends>>

(* The next cell has a new backend, which has started no request.          *)
NewBackend ==
  /\ \A t \in Threads : pc[t] = "idle"
  /\ backends < MaxBackends
  /\ backends' = backends + 1
  /\ since' = Interval
  /\ calls' = [t \in Threads |-> 0]
  /\ UNCHANGED <<pc, left, attempt, holder, sent>>

Later(clock) == IF clock < Interval THEN clock + 1 ELSE clock

Tick ==
  /\ since < Interval \/ sent < Interval \/ \E t \in Threads : left[t] > 0
  /\ since' = Later(since)
  /\ sent' = Later(sent)
  /\ left' = [t \in Threads |-> IF left[t] > 0 THEN left[t] - 1 ELSE 0]
  /\ UNCHANGED <<pc, attempt, holder, calls, backends>>

Step(t) ==
  \/ Pace(t) \/ Stamp(t) \/ Send(t) \/ Leave(t) \/ Retry(t) \/ NextAttempt(t)

Next ==
  \/ \E t \in Threads : Generate(t) \/ Step(t)
  \/ NewBackend
  \/ Tick

(* Threads run, time passes, and the service answers or the client's       *)
(* request timeout ends the wait.  Which thread gets the lock is left to   *)
(* the system: it is not fair, but threads make finitely many calls.       *)
Fairness == WF_vars(Tick) /\ \A t \in Threads : WF_vars(Step(t))

Spec == Init /\ [][Next]_vars /\ Fairness

----------------------------------------------------------------------------
(* Type correctness; the lock is held by a thread that waits for its turn, *)
(* never across a request or a backoff, so neither delays another thread.  *)
TypeOK ==
  /\ pc \in [Threads -> Pc]
  /\ left \in [Threads -> Nat]
  /\ attempt \in [Threads -> 0 .. MaxRetries]
  /\ holder \in Threads \cup {None}
  /\ since \in 0 .. Interval
  /\ sent \in 0 .. Interval
  /\ calls \in [Threads -> 0 .. MaxCalls]
  /\ backends \in 1 .. MaxBackends
  /\ \A t \in Threads : pc[t] = "sleeping" <=> holder = t
  /\ \A t \in Threads : pc[t] = "idle" <=> attempt[t] = 0
  /\ \A t \in Threads : pc[t] = "backoff" => attempt[t] < MaxRetries

(* The wait in _pace ends when the interval since the last start does:     *)
(* not before, so that starts are spaced, and not after, so that pacing    *)
(* costs no more than it has to.                                           *)
WaitExact ==
  \A t \in Threads : pc[t] = "sleeping" =>
    /\ since + left[t] >= Interval
    /\ left[t] > 0 => since + left[t] = Interval

(* Any number of threads, calls and retries go through one limiter: starts *)
(* noted by one backend are at least the interval apart.                   *)
Limiter == INSTANCE RateLimiter
StartsSpaced == Limiter!Spec

(* Every call of generate ends, after at most MaxRetries requests.         *)
CallEnds == \A t \in Threads : pc[t] = "pacing" ~> pc[t] = "idle"

----------------------------------------------------------------------------
(* Stated by docs/running_experiments.md, and not true of the code: the    *)
(* profile's interval "spaces request starts by at least one second even   *)
(* when concurrency is higher".  What is spaced is the instants noted      *)
(* inside the lock, by one backend: the requests themselves leave later.   *)
RequestStartsSpaced ==
  [][\A t \in Threads : Send(t) => sent >= Interval]_vars
=============================================================================
