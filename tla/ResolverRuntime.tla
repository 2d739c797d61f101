-------------------------- MODULE ResolverRuntime --------------------------
(***************************************************************************)
(* ProviderResolverRuntime (resolver.py), the process-local concurrency    *)
(* gate and circuit breaker that every challenge resolution of a provider  *)
(* goes through, together with its only client, resolve_after_challenge.   *)
(*                                                                         *)
(* Each `async with self._lock` block is one action.  The calls run as     *)
(* tasks of one event loop and may be cancelled, by the request deadline   *)
(* or by a client that goes away, wherever they wait.                      *)
(***************************************************************************)
EXTENDS Integers, FiniteSets

CONSTANTS
  Callers,          \* tasks that call resolve_after_challenge
  MaxConcurrency,   \* profile.max_concurrency
  FailureThreshold, \* failure_threshold
  Cooldown,         \* cooldown_seconds
  MaxClock,         \* bound: the clock stops here
  MaxCalls          \* bound: calls made in all

ASSUME RuntimeAssumption ==
  /\ IsFiniteSet(Callers)
  /\ MaxConcurrency \in 1..4
  /\ FailureThreshold \in Nat \ {0}
  /\ Cooldown \in Nat \ {0}
  /\ MaxClock \in Nat
  /\ MaxCalls \in Nat

VARIABLES
  active,    \* self._active
  failures,  \* self._failures
  state,     \* self._state
  openedAt,  \* self._opened_at
  clock,     \* self._clock()
  pc,        \* where each caller is in resolve_after_challenge
  probes,    \* history: callers admitted last by a circuit that was not closed
  calls      \* calls made so far

breaker == <<failures, state, openedAt>>
vars == <<active, failures, state, openedAt, clock, pc, probes, calls>>

None == -1

(***************************************************************************)
(* idle -> resolving -> validating -> solved -> leaving -> idle            *)
(* An error that counts goes from resolving through failing (the slot is   *)
(* still held) and charging (given back, not yet recorded) to idle; one    *)
(* that does not count, or a cancellation, goes straight to leaving.       *)
(***************************************************************************)
HoldsSlot == {"resolving", "validating", "solved", "failing", "leaving"}
Locations == {"idle", "charging"} \union HoldsSlot

InSlot == {c \in Callers : pc[c] \in HoldsSlot}

Init ==
  /\ active = 0
  /\ failures = 0
  /\ state = "closed"
  /\ openedAt = None
  /\ clock = 0
  /\ pc = [c \in Callers |-> "idle"]
  /\ probes = {}
  /\ calls = 0

Go(c, from, to) ==
  /\ pc[c] = from
  /\ pc' = [pc EXCEPT ![c] = to]

Tick ==
  /\ clock < MaxClock
  /\ clock' = clock + 1
  /\ UNCHANGED <<active, breaker, pc, probes, calls>>

-----------------------------------------------------------------------------
(* slot(), up to its yield: the three ways its critical section can end.   *)

\* Fault: the cooldown is not timed.
CoolingUntimed == state = "open" /\ openedAt = None

CircuitCooling ==
  state = "open" /\ (openedAt = None \/ clock - openedAt < Cooldown)

StateTried == IF state = "open" THEN "half_open" ELSE state

\* Fault: a probe shares the resolver with stragglers.
FullIgnoresHalfOpen == active >= MaxConcurrency

SlotFull ==
  \/ active >= MaxConcurrency
  \/ StateTried = "half_open" /\ active > 0

Call(c) ==
  /\ pc[c] = "idle"
  /\ calls < MaxCalls
  /\ calls' = calls + 1
  /\ UNCHANGED <<failures, openedAt, clock>>

RefuseOpen(c) ==
  /\ Call(c)
  /\ CircuitCooling
  /\ UNCHANGED <<active, state, pc, probes>>

\* The refused caller has already moved the circuit from open to half_open.
RefuseBusy(c) ==
  /\ Call(c)
  /\ ~CircuitCooling
  /\ SlotFull
  /\ state' = StateTried
  /\ UNCHANGED <<active, pc, probes>>

\* Fault: a call enters without being counted.
AdmitUncounted(c) ==
  /\ Call(c)
  /\ ~CircuitCooling
  /\ ~SlotFull
  /\ state' = StateTried
  /\ Go(c, "idle", "resolving")
  /\ UNCHANGED <<active, probes>>

Admit(c) ==
  /\ Call(c)
  /\ ~CircuitCooling
  /\ ~SlotFull
  /\ state' = StateTried
  /\ active' = active + 1
  /\ Go(c, "idle", "resolving")
  /\ probes' = IF StateTried = "closed" THEN probes \ {c} ELSE probes \union {c}

-----------------------------------------------------------------------------
(* _perform_resolution: the exchange with the resolver, under its timeout, *)
(* then the validation of the URL it returned, which looks a name up.      *)

Exchange(c, from, to) ==
  /\ Go(c, from, to)
  /\ UNCHANGED <<active, breaker, clock, probes, calls>>

Answer(c) == Exchange(c, "resolving", "validating")
\* The resolver is unreachable, refuses, or answers what cannot be used.
Fail(c) == Exchange(c, "resolving", "failing")
\* Fault: the exchange has no timeout of its own.
NoTimeout(c) == FALSE /\ Exchange(c, "resolving", "failing")
Timeout(c) == Exchange(c, "resolving", "failing")
Solve(c) == Exchange(c, "validating", "solved")
\* resolver_redirect_rejected: one of the four codes that are not charged.
Reject(c) == Exchange(c, "validating", "leaving")
\* Fault: a cancelled call skips the release.
CancelSkipsFinally(c) ==
  \E from \in {"resolving", "validating"} : Exchange(c, from, "idle")
Cancel(c) == Exchange(c, "resolving", "leaving") \/ Exchange(c, "validating", "leaving")

-----------------------------------------------------------------------------
(* record_success runs inside the slot, record_failure after its release.  *)

\* Fault: the streak survives a success.
SuccessKeepsFailures(c) ==
  /\ Go(c, "solved", "leaving")
  /\ openedAt' = None
  /\ state' = "closed"
  /\ UNCHANGED <<active, failures, clock, probes, calls>>

RecordSuccess(c) ==
  /\ Go(c, "solved", "leaving")
  /\ failures' = 0
  /\ openedAt' = None
  /\ state' = "closed"
  /\ UNCHANGED <<active, clock, probes, calls>>

Leave(c) ==
  /\ Go(c, "leaving", "idle") \/ Go(c, "failing", "charging")
  /\ active' = active - 1
  /\ UNCHANGED <<breaker, clock, probes, calls>>

\* Fault: the cooldown starts over, but a probe that fails does not reopen.
FailureTripsOnce(c) ==
  /\ Go(c, "charging", "idle")
  /\ failures' = failures + 1
  /\ openedAt' = IF failures' >= FailureThreshold THEN clock ELSE openedAt
  /\ state' = IF failures' = FailureThreshold THEN "open" ELSE state
  /\ UNCHANGED <<active, clock, probes, calls>>

RecordFailure(c) ==
  /\ Go(c, "charging", "idle")
  /\ failures' = failures + 1
  /\ IF failures' >= FailureThreshold
       THEN /\ openedAt' = clock
            /\ state' = "open"
       ELSE UNCHANGED <<openedAt, state>>
  /\ UNCHANGED <<active, clock, probes, calls>>

-----------------------------------------------------------------------------
Step(c) ==
  \/ RefuseOpen(c) \/ RefuseBusy(c) \/ Admit(c)
  \/ Answer(c) \/ Fail(c) \/ Timeout(c) \/ Solve(c) \/ Reject(c) \/ Cancel(c)
  \/ RecordSuccess(c) \/ Leave(c) \/ RecordFailure(c)

Next == Tick \/ \E c \in Callers : Step(c)

Spec == Init /\ [][Next]_vars

(***************************************************************************)
(* The event loop runs every task that can run.  What a task waits for     *)
(* need not come, except the exchange timeout and the name lookup, which   *)
(* the operating system ends.                                              *)
(***************************************************************************)
FairSpec ==
  /\ Spec
  /\ \A c \in Callers :
       /\ WF_vars(Timeout(c))
       /\ WF_vars(Solve(c) \/ Reject(c))
       /\ WF_vars(RecordSuccess(c))
       /\ WF_vars(Leave(c))
       /\ WF_vars(RecordFailure(c))

-----------------------------------------------------------------------------
(* Types of the state of ProviderResolverRuntime and of its callers.       *)
TypeOK ==
  /\ active \in Nat
  /\ failures \in Nat
  /\ state \in {"closed", "open", "half_open"}
  /\ openedAt \in Nat \union {None}
  /\ clock \in Nat
  /\ pc \in [Callers -> Locations]
  /\ probes \in SUBSET Callers
  /\ calls \in Nat

(* No call ends without giving its slot back, whichever way it ends, and   *)
(* no interleaving admits more calls than profile.max_concurrency: _active *)
(* always counts exactly the calls inside the slot.                        *)
SlotAccounting ==
  /\ active = Cardinality(InSlot)
  /\ active <= MaxConcurrency

(* The three fields of the breaker never drift apart, whatever the order   *)
(* in which late successes and failures of overlapping calls are recorded: *)
(* it is closed exactly below the threshold, and a tripped circuit always  *)
(* has the time stamp without which slot() would refuse forever.           *)
CircuitConsistent ==
  /\ state = "closed" <=> failures < FailureThreshold
  /\ state = "closed" <=> openedAt = None

(* While the call that probes a recovering circuit has not finished, no    *)
(* other call is at the resolver: neither a straggler admitted before the  *)
(* circuit opened nor a second probe.                                      *)
ProbeAlone ==
  \A c \in probes :
    pc[c] \in {"resolving", "validating", "solved"} => InSlot = {c}

(* A circuit is half open only after a whole cooldown, and stays so: a     *)
(* probe that ends without a verdict needs no second cooldown.             *)
HalfOpenHasCooled ==
  /\ openedAt <= clock
  /\ state = "half_open" => clock - openedAt >= Cooldown

(* Every admitted call gives its slot back in the end, even when the       *)
(* resolver never answers: a busy gate is busy for a while only.           *)
SlotReturned == \A c \in Callers : pc[c] = "resolving" ~> pc[c] \notin HoldsSlot

(* The runtime keeps the promise of FailFastGate: with half_open left out, *)
(* what is observed is a bound on concurrency, a streak and a cooldown.    *)
Gate == INSTANCE FailFastGate WITH
  inflight <- InSlot, streak <- failures, trippedAt <- openedAt, now <- clock

ImplementsGate == Gate!GateSpec

=============================================================================
