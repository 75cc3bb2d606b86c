---------------------------- MODULE RateLimiter ----------------------------
(***************************************************************************)
(* What min_request_interval_seconds promises of one backend: a request is *)
(* started only when `Interval' has passed since the one before it.  Time  *)
(* is counted in ticks and only as far as it matters.  A new backend knows *)
(* nothing of the requests of the one it replaces.                         *)
(***************************************************************************)
EXTENDS Naturals

CONSTANT Interval

VARIABLE since     (* ticks since the last start, at most Interval *)

Init == since = Interval

Start ==
  /\ since = Interval
  /\ since' = 0

Tick ==
  /\ since < Interval
  /\ since' = since + 1

Renew == since' = Interval

Next == Start \/ Tick \/ Renew

Spec == Init /\ [][Next]_since
=============================================================================
