----------------------- MODULE ResolverRuntimeProofs -----------------------
(***************************************************************************)
(* Proofs about ResolverRuntime, for any finite set of callers and any     *)
(* concurrency, threshold and cooldown RuntimeAssumption allows.           *)
(*                                                                         *)
(* The invariant IInv below is inductive.  Beside the properties of        *)
(* ResolverRuntime it says that a circuit stays tripped while a probe is   *)
(* out: otherwise a late success could close it and let others in.         *)
(***************************************************************************)
EXTENDS ResolverRuntime, TLAPS, FiniteSetTheorems

AtResolver == {"resolving", "validating", "solved"}

ProbeKeepsTripped == \A c \in probes : pc[c] \in AtResolver => state # "closed"

IInv ==
  /\ TypeOK
  /\ SlotAccounting
  /\ CircuitConsistent
  /\ ProbeAlone
  /\ ProbeKeepsTripped
  /\ HalfOpenHasCooled

-----------------------------------------------------------------------------
(* The callers inside the slot are finitely many, so they can be counted.  *)
LEMMA InSlotFinite ==
  /\ IsFiniteSet(InSlot)
  /\ Cardinality(InSlot) \in Nat
  /\ Cardinality(InSlot) = 0 <=> InSlot = {}
<1>1. IsFiniteSet(InSlot)
  <2>1. InSlot \in SUBSET Callers
    BY DEF InSlot
  <2> QED
    BY <2>1, RuntimeAssumption, FS_Subset DEF RuntimeAssumption
<1>2. Cardinality(InSlot) \in Nat
  BY <1>1, FS_CardinalityType
<1>3. Cardinality(InSlot) = 0 <=> InSlot = {}
  BY <1>1, FS_EmptySet
<1> QED
  BY <1>1, <1>2, <1>3

(* A caller that moves is inside the slot afterwards exactly if the place  *)
(* it moves to holds the slot; nobody else enters or leaves.               *)
LEMMA GoMovesOne ==
  ASSUME TypeOK, NEW c \in Callers, NEW from, NEW to, Go(c, from, to)
  PROVE  /\ pc[c] = from
         /\ pc' = [pc EXCEPT ![c] = to]
         /\ pc'[c] = to
         /\ \A d \in Callers : d # c => pc'[d] = pc[d]
         /\ c \in InSlot <=> from \in HoldsSlot
         /\ to \in HoldsSlot => InSlot' = InSlot \union {c}
         /\ to \notin HoldsSlot => InSlot' = InSlot \ {c}
<1>1. /\ pc[c] = from
      /\ pc' = [pc EXCEPT ![c] = to]
  BY DEF Go
<1>2. /\ pc'[c] = to
      /\ \A d \in Callers : d # c => pc'[d] = pc[d]
  BY <1>1 DEF TypeOK
<1>3. c \in InSlot <=> from \in HoldsSlot
  BY <1>1 DEF InSlot
<1>4. InSlot' = {d \in Callers : pc'[d] \in HoldsSlot}
  BY DEF InSlot, HoldsSlot
<1>5. to \in HoldsSlot => InSlot' = InSlot \union {c}
  BY <1>2, <1>4 DEF InSlot
<1>6. to \notin HoldsSlot => InSlot' = InSlot \ {c}
  BY <1>2, <1>4 DEF InSlot
<1> QED
  BY <1>1, <1>2, <1>3, <1>5, <1>6

(* A caller that moves between two places that hold the slot changes       *)
(* neither the callers inside it nor their number.                         *)
LEMMA GoInside ==
  ASSUME TypeOK, NEW c \in Callers, NEW from \in HoldsSlot, NEW to \in HoldsSlot,
         Go(c, from, to)
  PROVE  /\ InSlot' = InSlot
         /\ c \in InSlot
BY GoMovesOne

(* A caller that gives its slot back makes the number of holders one less, *)
(* and one that takes a slot makes it one more.                            *)
LEMMA HoldersCounted ==
  ASSUME NEW c
  PROVE  /\ c \in InSlot => /\ Cardinality(InSlot \ {c}) = Cardinality(InSlot) - 1
                            /\ Cardinality(InSlot) >= 1
         /\ c \notin InSlot => Cardinality(InSlot \union {c}) = Cardinality(InSlot) + 1
<1>1. ASSUME c \in InSlot
      PROVE  /\ Cardinality(InSlot \ {c}) = Cardinality(InSlot) - 1
             /\ Cardinality(InSlot) >= 1
  <2>1. Cardinality(InSlot \ {c}) = Cardinality(InSlot) - 1
    BY <1>1, InSlotFinite, FS_RemoveElement
  <2>2. Cardinality(InSlot) # 0
    BY <1>1, InSlotFinite
  <2> QED
    BY <2>1, <2>2, InSlotFinite
<1>2. ASSUME c \notin InSlot
      PROVE  Cardinality(InSlot \union {c}) = Cardinality(InSlot) + 1
  BY <1>2, InSlotFinite, FS_AddElement
<1> QED
  BY <1>1, <1>2

-----------------------------------------------------------------------------
(* The initial state satisfies the inductive invariant.                    *)
LEMMA InitEstablishes == Init => IInv
<1> SUFFICES ASSUME Init PROVE IInv
  OBVIOUS
<1> USE RuntimeAssumption DEF RuntimeAssumption, Init
<1>1. TypeOK
  BY DEF TypeOK, Locations, None
<1>2. InSlot = {}
  BY DEF InSlot, HoldsSlot
<1>3. SlotAccounting
  BY <1>2, FS_EmptySet DEF SlotAccounting
<1>4. CircuitConsistent /\ HalfOpenHasCooled
  BY DEF CircuitConsistent, HalfOpenHasCooled, None
<1>5. ProbeAlone /\ ProbeKeepsTripped
  BY DEF ProbeAlone, ProbeKeepsTripped
<1> QED
  BY <1>1, <1>3, <1>4, <1>5 DEF IInv

(* A refused call leaves the invariant alone, also when it has moved the   *)
(* circuit to half open on its way to being refused.                       *)
LEMMA RefusalPreserves ==
  ASSUME IInv, NEW c \in Callers, RefuseOpen(c) \/ RefuseBusy(c)
  PROVE  IInv'
<1> USE RuntimeAssumption DEF RuntimeAssumption, IInv
<1>1. /\ UNCHANGED <<active, failures, openedAt, clock, pc, probes>>
      /\ calls' = calls + 1
  BY DEF RefuseOpen, RefuseBusy, Call
<1>2. InSlot' = InSlot
  BY <1>1 DEF InSlot, HoldsSlot
<1>3. \/ state' = state
      \/ state = "open" /\ state' = "half_open" /\ clock - openedAt >= Cooldown
  BY DEF RefuseOpen, RefuseBusy, StateTried, CircuitCooling, TypeOK, None
<1>4. TypeOK'
  BY <1>1, <1>3 DEF TypeOK
<1>5. SlotAccounting'
  BY <1>1, <1>2 DEF SlotAccounting
<1>6. CircuitConsistent'
  BY <1>1, <1>3 DEF CircuitConsistent
<1>7. ProbeAlone' /\ ProbeKeepsTripped'
  BY <1>1, <1>2, <1>3 DEF ProbeAlone, ProbeKeepsTripped, AtResolver
<1>8. HalfOpenHasCooled'
  BY <1>1, <1>3 DEF HalfOpenHasCooled
<1> QED
  BY <1>4, <1>5, <1>6, <1>7, <1>8

(* An admission preserves the invariant: a tripped circuit admits into an  *)
(* empty slot only, so the newcomer is alone.                              *)
LEMMA AdmitPreserves ==
  ASSUME IInv, NEW c \in Callers, Admit(c)
  PROVE  IInv'
<1> USE RuntimeAssumption DEF RuntimeAssumption, IInv
<1>1. /\ Go(c, "idle", "resolving")
      /\ UNCHANGED <<failures, openedAt, clock>>
      /\ active' = active + 1 /\ calls' = calls + 1
      /\ active < MaxConcurrency
      /\ state' = StateTried
      /\ StateTried = "half_open" => ~(active > 0)
      /\ probes' = IF StateTried = "closed" THEN probes \ {c} ELSE probes \union {c}
  BY DEF Admit, Call, SlotFull, TypeOK
<1>2. /\ pc'[c] = "resolving" /\ \A d \in Callers : d # c => pc'[d] = pc[d]
      /\ pc' = [pc EXCEPT ![c] = "resolving"]
      /\ c \notin InSlot /\ InSlot' = InSlot \union {c}
  BY <1>1, GoMovesOne DEF HoldsSlot
<1>3. \/ state' = state /\ state # "open"
      \/ state = "open" /\ state' = "half_open" /\ clock - openedAt >= Cooldown
  BY <1>1 DEF Admit, StateTried, CircuitCooling, TypeOK, None
<1>4. state' # "closed" => InSlot = {}
  <2>1. state' # "closed" => StateTried = "half_open"
    BY <1>1 DEF StateTried, TypeOK
  <2> QED
    BY <1>1, <2>1, InSlotFinite DEF SlotAccounting
<1>5. TypeOK'
  BY <1>1, <1>2, <1>3 DEF TypeOK, Locations, HoldsSlot
<1>6. SlotAccounting'
  <2>1. active' = Cardinality(InSlot')
    BY <1>1, <1>2, HoldersCounted DEF SlotAccounting
  <2> QED
    BY <1>1, <2>1 DEF SlotAccounting, TypeOK
<1>7. CircuitConsistent' /\ HalfOpenHasCooled'
  BY <1>1, <1>3 DEF CircuitConsistent, HalfOpenHasCooled
<1>8. ASSUME NEW d \in probes', pc'[d] \in AtResolver
      PROVE  InSlot' = {d} /\ state' # "closed"
  <2>0. d \in Callers
    BY <1>1, <1>8 DEF TypeOK
  <2>1. CASE d = c
    BY <1>1, <1>2, <1>4, <1>8, <2>1
  <2>2. CASE d # c
    <3>1. d \in probes /\ pc[d] \in AtResolver
      BY <1>1, <1>2, <1>8, <2>0, <2>2
    <3>2. InSlot = {d} /\ state # "closed"
      BY <3>1 DEF ProbeAlone, ProbeKeepsTripped, AtResolver
    <3> QED
      BY <1>3, <1>4, <3>2
  <2> QED
    BY <2>1, <2>2
<1>9. ProbeAlone' /\ ProbeKeepsTripped'
  BY <1>8 DEF ProbeAlone, ProbeKeepsTripped, AtResolver
<1> QED
  BY <1>5, <1>6, <1>7, <1>9

(* Moving on inside the slot preserves the invariant.                      *)
LEMMA ExchangePreserves ==
  ASSUME IInv, NEW c \in Callers,
         Answer(c) \/ Fail(c) \/ Timeout(c) \/ Solve(c) \/ Reject(c) \/ Cancel(c)
  PROVE  IInv'
<1> USE DEF IInv
<1>1. PICK from \in {"resolving", "validating"},
           to \in {"validating", "solved", "failing", "leaving"} :
             Exchange(c, from, to)
  BY DEF Answer, Fail, Timeout, Solve, Reject, Cancel
<1>2. /\ Go(c, from, to)
      /\ UNCHANGED <<active, failures, state, openedAt, clock, probes, calls>>
  BY <1>1 DEF Exchange, breaker
<1>3. /\ pc[c] = from
      /\ \A d \in Callers : d # c => pc'[d] = pc[d]
      /\ pc' = [pc EXCEPT ![c] = to]
  BY <1>2, GoMovesOne
<1>4. InSlot' = InSlot
  BY <1>2, GoInside DEF HoldsSlot
<1>5. TypeOK'
  BY <1>2, <1>3 DEF TypeOK, Locations, HoldsSlot
<1>6. SlotAccounting' /\ CircuitConsistent' /\ HalfOpenHasCooled'
  BY <1>2, <1>4 DEF SlotAccounting, CircuitConsistent, HalfOpenHasCooled
<1>7. ASSUME NEW d \in probes', pc'[d] \in AtResolver
      PROVE  InSlot' = {d} /\ state' # "closed"
  <2>1. d \in probes /\ d \in Callers
    BY <1>2, <1>7 DEF TypeOK
  <2>2. pc[d] \in AtResolver
    BY <1>3, <1>7, <2>1 DEF AtResolver
  <2> QED
    BY <1>2, <1>4, <2>1, <2>2 DEF ProbeAlone, ProbeKeepsTripped, AtResolver
<1>8. ProbeAlone' /\ ProbeKeepsTripped'
  BY <1>7 DEF ProbeAlone, ProbeKeepsTripped, AtResolver
<1> QED
  BY <1>5, <1>6, <1>8

(* A recorded success preserves the invariant: it is recorded inside the   *)
(* slot, so no probe but the caller itself can be out when it closes the   *)
(* circuit.                                                                *)
LEMMA SuccessPreserves ==
  ASSUME IInv, NEW c \in Callers, RecordSuccess(c)
  PROVE  IInv'
<1> USE RuntimeAssumption DEF RuntimeAssumption, IInv
<1>1. /\ Go(c, "solved", "leaving")
      /\ failures' = 0 /\ openedAt' = None /\ state' = "closed"
      /\ UNCHANGED <<active, clock, probes, calls>>
  BY DEF RecordSuccess
<1>2. /\ pc'[c] = "leaving" /\ \A d \in Callers : d # c => pc'[d] = pc[d]
      /\ pc' = [pc EXCEPT ![c] = "leaving"]
  BY <1>1, GoMovesOne
<1>3. InSlot' = InSlot /\ c \in InSlot
  BY <1>1, GoInside DEF HoldsSlot
<1>4. TypeOK'
  BY <1>1, <1>2 DEF TypeOK, Locations, HoldsSlot
<1>5. SlotAccounting'
  BY <1>1, <1>3 DEF SlotAccounting
<1>6. CircuitConsistent' /\ HalfOpenHasCooled'
  BY <1>1 DEF CircuitConsistent, HalfOpenHasCooled, None, TypeOK
<1>7. ASSUME NEW d \in probes', pc'[d] \in AtResolver
      PROVE  FALSE
  <2>1. d \in probes /\ d \in Callers /\ d # c
    BY <1>1, <1>2, <1>7 DEF TypeOK, AtResolver
  <2>2. InSlot = {d}
    BY <1>2, <1>7, <2>1 DEF ProbeAlone, AtResolver
  <2> QED
    BY <1>3, <2>1, <2>2
<1>8. ProbeAlone' /\ ProbeKeepsTripped'
  BY <1>7 DEF ProbeAlone, ProbeKeepsTripped, AtResolver
<1> QED
  BY <1>4, <1>5, <1>6, <1>8

(* Giving a slot back preserves the invariant.                             *)
LEMMA LeavePreserves ==
  ASSUME IInv, NEW c \in Callers, Leave(c)
  PROVE  IInv'
<1> USE DEF IInv
<1>1. PICK from \in {"leaving", "failing"}, to \in {"idle", "charging"} : Go(c, from, to)
  BY DEF Leave
<1>2. /\ active' = active - 1
      /\ UNCHANGED <<failures, state, openedAt, clock, probes, calls>>
  BY DEF Leave, breaker
<1>3. /\ pc[c] = from /\ pc'[c] = to
      /\ \A d \in Callers : d # c => pc'[d] = pc[d]
      /\ pc' = [pc EXCEPT ![c] = to]
      /\ c \in InSlot /\ InSlot' = InSlot \ {c}
  BY <1>1, GoMovesOne DEF HoldsSlot
<1>4. active' = Cardinality(InSlot') /\ active >= 1
  BY <1>2, <1>3, HoldersCounted DEF SlotAccounting
<1>5. TypeOK'
  BY <1>2, <1>3, <1>4 DEF TypeOK, Locations, HoldsSlot
<1>6. SlotAccounting'
  BY <1>2, <1>4, RuntimeAssumption DEF SlotAccounting, TypeOK, RuntimeAssumption
<1>7. CircuitConsistent' /\ HalfOpenHasCooled'
  BY <1>2 DEF CircuitConsistent, HalfOpenHasCooled
<1>8. ASSUME NEW d \in probes', pc'[d] \in AtResolver
      PROVE  FALSE
  <2>1. d \in probes /\ d \in Callers /\ d # c
    BY <1>2, <1>3, <1>8 DEF TypeOK, AtResolver
  <2>2. InSlot = {d}
    BY <1>3, <1>8, <2>1 DEF ProbeAlone, AtResolver
  <2> QED
    BY <1>3, <2>1, <2>2
<1>9. ProbeAlone' /\ ProbeKeepsTripped'
  BY <1>8 DEF ProbeAlone, ProbeKeepsTripped, AtResolver
<1> QED
  BY <1>5, <1>6, <1>7, <1>9

(* A failure recorded after its slot was given back preserves the          *)
(* invariant, however late it comes: it can trip the circuit again, but    *)
(* never close it under a probe.                                           *)
LEMMA FailurePreserves ==
  ASSUME IInv, NEW c \in Callers, RecordFailure(c)
  PROVE  IInv'
<1> USE RuntimeAssumption DEF RuntimeAssumption, IInv
<1>1. /\ Go(c, "charging", "idle")
      /\ failures' = failures + 1
      /\ UNCHANGED <<active, clock, probes, calls>>
  BY DEF RecordFailure
<1>2. /\ pc[c] = "charging" /\ pc'[c] = "idle"
      /\ \A d \in Callers : d # c => pc'[d] = pc[d]
      /\ pc' = [pc EXCEPT ![c] = "idle"]
      /\ InSlot' = InSlot
  BY <1>1, GoMovesOne DEF HoldsSlot
<1>3. \/ failures' >= FailureThreshold /\ openedAt' = clock /\ state' = "open"
      \/ ~(failures' >= FailureThreshold) /\ openedAt' = openedAt /\ state' = state
  BY DEF RecordFailure
<1>4. TypeOK'
  BY <1>1, <1>2, <1>3 DEF TypeOK, Locations, HoldsSlot
<1>5. SlotAccounting'
  BY <1>1, <1>2 DEF SlotAccounting
<1>6. CircuitConsistent' /\ HalfOpenHasCooled'
  BY <1>1, <1>3 DEF CircuitConsistent, HalfOpenHasCooled, None, TypeOK
<1>7. ASSUME NEW d \in probes', pc'[d] \in AtResolver
      PROVE  InSlot' = {d} /\ state' # "closed"
  <2>1. d \in probes /\ d \in Callers /\ d # c
    BY <1>1, <1>2, <1>7 DEF TypeOK, AtResolver
  <2>2. InSlot = {d} /\ state # "closed"
    BY <1>2, <1>7, <2>1 DEF ProbeAlone, ProbeKeepsTripped, AtResolver
  <2> QED
    BY <1>2, <1>3, <2>2
<1>8. ProbeAlone' /\ ProbeKeepsTripped'
  BY <1>7 DEF ProbeAlone, ProbeKeepsTripped, AtResolver
<1> QED
  BY <1>4, <1>5, <1>6, <1>8

(* Time and steps that change nothing preserve the invariant.              *)
LEMMA QuietPreserves ==
  ASSUME IInv, Tick \/ UNCHANGED vars
  PROVE  IInv'
<1> USE DEF IInv
<1>1. /\ UNCHANGED <<active, failures, state, openedAt, pc, probes, calls>>
      /\ clock' = clock \/ clock' = clock + 1
  BY DEF Tick, vars, breaker
<1>2. InSlot' = InSlot
  BY <1>1 DEF InSlot, HoldsSlot
<1>3. TypeOK'
  BY <1>1 DEF TypeOK
<1>4. SlotAccounting' /\ CircuitConsistent'
  BY <1>1, <1>2 DEF SlotAccounting, CircuitConsistent
<1>5. HalfOpenHasCooled'
  BY <1>1, RuntimeAssumption DEF HalfOpenHasCooled, TypeOK, None, RuntimeAssumption
<1>6. ProbeAlone' /\ ProbeKeepsTripped'
  BY <1>1, <1>2 DEF ProbeAlone, ProbeKeepsTripped, AtResolver
<1> QED
  BY <1>3, <1>4, <1>5, <1>6

(* Every step preserves the inductive invariant.                           *)
LEMMA StepPreserves == IInv /\ [Next]_vars => IInv'
<1> SUFFICES ASSUME IInv, [Next]_vars PROVE IInv'
  OBVIOUS
<1>1. CASE Tick \/ UNCHANGED vars
  BY <1>1, QuietPreserves
<1>2. ASSUME NEW c \in Callers, Step(c)
      PROVE  IInv'
  BY <1>2, RefusalPreserves, AdmitPreserves, ExchangePreserves,
     SuccessPreserves, LeavePreserves, FailurePreserves DEF Step
<1> QED
  BY <1>1, <1>2 DEF Next

(* The inductive invariant holds in every reachable state.                 *)
THEOREM Inductive == Spec => []IInv
BY InitEstablishes, StepPreserves, PTL DEF Spec

-----------------------------------------------------------------------------
(* The state of the runtime and of its callers keeps its types.            *)
THEOREM TypesKept == Spec => []TypeOK
<1>1. IInv => TypeOK
  BY DEF IInv
<1> QED
  BY <1>1, Inductive, PTL

(* _active counts the calls inside slot() exactly, whichever way they end, *)
(* and never exceeds profile.max_concurrency.                              *)
THEOREM SlotsAccounted == Spec => []SlotAccounting
<1>1. IInv => SlotAccounting
  BY DEF IInv
<1> QED
  BY <1>1, Inductive, PTL

(* _failures, _state and _opened_at agree after any order of records.      *)
THEOREM CircuitStaysConsistent == Spec => []CircuitConsistent
<1>1. IInv => CircuitConsistent
  BY DEF IInv
<1> QED
  BY <1>1, Inductive, PTL

(* The call that probes a recovering circuit is alone at the resolver.     *)
THEOREM ProbesAreAlone == Spec => []ProbeAlone
<1>1. IInv => ProbeAlone
  BY DEF IInv
<1> QED
  BY <1>1, Inductive, PTL

(* slot() makes the circuit half open only after a whole cooldown.         *)
THEOREM HalfOpenCooled == Spec => []HalfOpenHasCooled
<1>1. IInv => HalfOpenHasCooled
  BY DEF IInv
<1> QED
  BY <1>1, Inductive, PTL

-----------------------------------------------------------------------------
(* An admission by slot() is one the abstract gate allows: a circuit that  *)
(* is not closed has tripped and cooled, and its slot is empty.            *)
LEMMA AdmitEnters ==
  ASSUME IInv, NEW c \in Callers, Admit(c)
  PROVE  Gate!Enter(c)
<1> USE RuntimeAssumption DEF RuntimeAssumption, IInv
<1>1. /\ Go(c, "idle", "resolving")
      /\ UNCHANGED <<failures, openedAt, clock>>
      /\ active < MaxConcurrency
      /\ StateTried = "half_open" => active = 0
      /\ ~CircuitCooling
  BY DEF Admit, Call, SlotFull, TypeOK
<1>2. c \notin InSlot /\ InSlot' = InSlot \union {c}
  BY <1>1, GoMovesOne DEF HoldsSlot
<1>3. Cardinality(InSlot) < MaxConcurrency
  BY <1>1 DEF SlotAccounting
<1>4. ASSUME failures >= FailureThreshold
      PROVE  InSlot = {} /\ clock - openedAt >= Cooldown
  <2>1. state # "closed"
    BY <1>4 DEF CircuitConsistent, TypeOK
  <2>2. StateTried = "half_open"
    BY <2>1 DEF StateTried, TypeOK
  <2>3. InSlot = {}
    BY <1>1, <2>2, InSlotFinite DEF SlotAccounting
  <2>4. clock - openedAt >= Cooldown
    BY <1>1, <2>1 DEF CircuitCooling, HalfOpenHasCooled, TypeOK, None
  <2> QED
    BY <2>3, <2>4
\* The instance carries a copy of FiniteSets of its own.
<1>5. Gate!Cardinality(InSlot) = Cardinality(InSlot)
  BY DEF Gate!Cardinality, Cardinality
<1> QED
  BY <1>1, <1>2, <1>3, <1>4, <1>5 DEF Gate!Enter, Gate!Tripped

(* Every step of the runtime is a step of the abstract gate, or one that   *)
(* the gate's observer does not see.                                       *)
LEMMA StepIsGateStep ==
  ASSUME IInv, [Next]_vars
  PROVE  [Gate!GateNext]_(Gate!gateVars)
<1> USE DEF IInv
<1>1. CASE UNCHANGED vars
  BY <1>1 DEF vars, breaker, InSlot, HoldsSlot, Gate!gateVars
<1>2. CASE Tick
  <2>1. /\ clock' = clock + 1 /\ failures' = failures /\ openedAt' = openedAt
        /\ InSlot' = InSlot
    BY <1>2 DEF Tick, breaker, InSlot, HoldsSlot
  <2> QED
    BY <2>1 DEF Gate!GateNext, Gate!Pass
<1>3. ASSUME NEW c \in Callers, Step(c)
      PROVE  [Gate!GateNext]_(Gate!gateVars)
  <2>1. CASE RefuseOpen(c) \/ RefuseBusy(c)
    <3>1. UNCHANGED <<failures, openedAt, clock, pc>>
      BY <2>1 DEF RefuseOpen, RefuseBusy, Call
    <3> QED
      BY <3>1 DEF InSlot, HoldsSlot, Gate!gateVars
  <2>2. CASE Admit(c)
    BY <2>2, AdmitEnters DEF Gate!GateNext
  <2>3. CASE \/ Answer(c) \/ Fail(c) \/ Timeout(c)
             \/ Solve(c) \/ Reject(c) \/ Cancel(c)
    <3>1. PICK from \in {"resolving", "validating"},
               to \in {"validating", "solved", "failing", "leaving"} :
                 Exchange(c, from, to)
      BY <2>3 DEF Answer, Fail, Timeout, Solve, Reject, Cancel
    <3>2. Go(c, from, to) /\ UNCHANGED <<failures, openedAt, clock>>
      BY <3>1 DEF Exchange, breaker
    <3>3. InSlot' = InSlot
      BY <3>2, GoInside DEF HoldsSlot
    <3> QED
      BY <3>2, <3>3 DEF Gate!gateVars
  <2>4. CASE RecordSuccess(c)
    <3>1. /\ Go(c, "solved", "leaving")
          /\ failures' = 0 /\ openedAt' = None /\ clock' = clock
      BY <2>4 DEF RecordSuccess
    <3>2. InSlot' = InSlot /\ c \in InSlot
      BY <3>1, GoInside DEF HoldsSlot
    <3> QED
      BY <3>1, <3>2 DEF Gate!GateNext, Gate!Success, Gate!NotTripped, None
  <2>5. CASE Leave(c)
    <3>1. PICK from \in {"leaving", "failing"}, to \in {"idle", "charging"} :
            Go(c, from, to)
      BY <2>5 DEF Leave
    <3>2. c \in InSlot /\ InSlot' = InSlot \ {c}
      BY <3>1, GoMovesOne DEF HoldsSlot
    <3>3. UNCHANGED <<failures, openedAt, clock>>
      BY <2>5 DEF Leave, breaker
    <3> QED
      BY <3>2, <3>3 DEF Gate!GateNext, Gate!Leave
  <2>6. CASE RecordFailure(c)
    <3>1. /\ Go(c, "charging", "idle") /\ clock' = clock
          /\ failures' = failures + 1
          /\ openedAt' = IF failures' >= FailureThreshold THEN clock ELSE openedAt
      BY <2>6 DEF RecordFailure
    <3>2. c \notin InSlot /\ InSlot' = InSlot
      BY <3>1, GoMovesOne DEF HoldsSlot
    <3> QED
      BY <3>1, <3>2 DEF Gate!GateNext, Gate!Failure
  <2> QED
    BY <1>3, <2>1, <2>2, <2>3, <2>4, <2>5, <2>6 DEF Step
<1> QED
  BY <1>1, <1>2, <1>3 DEF Next

(* The runtime implements FailFastGate: what its callers can observe is a  *)
(* bound on concurrency, a failure streak and a cooldown.                  *)
THEOREM RuntimeImplementsGate == Spec => ImplementsGate
<1>1. Init => Gate!GateInit
  BY DEF Init, InSlot, HoldsSlot, Gate!GateInit, Gate!NotTripped, None
<1>2. IInv /\ [Next]_vars => [Gate!GateNext]_(Gate!gateVars)
  BY StepIsGateStep
<1> QED
  BY <1>1, <1>2, Inductive, PTL DEF Spec, ImplementsGate, Gate!GateSpec
=============================================================================
