---------------------------- MODULE FailFastGate ----------------------------
(***************************************************************************)
(* What the gate in front of the challenge resolver promises its callers,  *)
(* without the three-state breaker that implements it.  A failure streak   *)
(* below the threshold leaves the gate governed by the concurrency bound   *)
(* alone.  A streak at the threshold trips it: from then on one call at a  *)
(* time may enter, and only once the cooldown has passed since the last    *)
(* recorded failure, until a success resets the streak.                    *)
(***************************************************************************)
EXTENDS Integers, FiniteSets

CONSTANTS
  Callers,          \* the calls that may be in flight
  MaxConcurrency,   \* how many may be in flight at once
  FailureThreshold, \* recorded failures in a row that trip the gate
  Cooldown          \* time a tripped gate refuses everybody

VARIABLES
  inflight,   \* the callers that hold a slot
  streak,     \* failures recorded since the last recorded success
  trippedAt,  \* when the last failure of a tripping streak was recorded
  now         \* the clock

gateVars == <<inflight, streak, trippedAt, now>>

NotTripped == -1

GateInit ==
  /\ inflight = {}
  /\ streak = 0
  /\ trippedAt = NotTripped
  /\ now = 0

Tripped == streak >= FailureThreshold

Enter(c) ==
  /\ c \notin inflight
  /\ Cardinality(inflight) < MaxConcurrency
  /\ Tripped => inflight = {} /\ now - trippedAt >= Cooldown
  /\ inflight' = inflight \union {c}
  /\ UNCHANGED <<streak, trippedAt, now>>

Leave(c) ==
  /\ c \in inflight
  /\ inflight' = inflight \ {c}
  /\ UNCHANGED <<streak, trippedAt, now>>

\* Only a call that still holds its slot reports a success.
Success(c) ==
  /\ c \in inflight
  /\ streak' = 0
  /\ trippedAt' = NotTripped
  /\ UNCHANGED <<inflight, now>>

\* A failure is reported after its slot was given back.
Failure(c) ==
  /\ c \notin inflight
  /\ streak' = streak + 1
  /\ trippedAt' = IF streak' >= FailureThreshold THEN now ELSE trippedAt
  /\ UNCHANGED <<inflight, now>>

Pass ==
  /\ now' = now + 1
  /\ UNCHANGED <<inflight, streak, trippedAt>>

GateNext ==
  \/ Pass
  \/ \E c \in Callers : Enter(c) \/ Leave(c) \/ Success(c) \/ Failure(c)

GateSpec == GateInit /\ [][GateNext]_gateVars
=============================================================================
