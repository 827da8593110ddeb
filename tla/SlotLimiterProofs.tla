-------------------------- MODULE SlotLimiterProofs --------------------------
(***************************************************************************)
(* What the slot limiter guarantees for every cap, cooldown and number of  *)
(* pollers: its types, its exact count, the bound on the overshoot of the  *)
(* cap, and that it implements a semaphore of that bound.                  *)
(***************************************************************************)
EXTENDS SlotLimiter, FiniteSetTheorems, TLAPS

\* The SDK's own limit, which every request is checked against.
UnmarkedBound == Cardinality(Unmarked) <= MaxUnmarked

\* OvershootBound is not inductive alone: an admission keeps it because the
\* count it compares with the cap is exact and the other permits are few.
IInv == TypeOK /\ CountIsExact /\ UnmarkedBound /\ OvershootBound

USE DEF Become

-----------------------------------------------------------------------------
\* Sets of permits are finite, and smaller sets have smaller cardinalities.
LEMMA SubsetCardinality ==
  ASSUME NEW S \in SUBSET Permits, NEW T \in SUBSET S
  PROVE  /\ IsFiniteSet(S)
         /\ Cardinality(S) \in Nat
         /\ Cardinality(T) \in Nat
         /\ Cardinality(T) <= Cardinality(S)
<1>1. IsFiniteSet(S)
  BY FS_Subset, LimiterAssumption
<1>2. IsFiniteSet(T) /\ Cardinality(T) <= Cardinality(S)
  BY <1>1, FS_Subset
<1> QED
  BY <1>1, <1>2, FS_CardinalityType

\* What an action that changes one permit does to the three sets the
\* invariant counts.
LEMMA PermitSets ==
  ASSUME TypeOK, NEW p \in Permits, NEW st \in {"free", "waiting", "reserved", "used"},
         Become(p, st)
  PROVE  /\ Unmarked' = IF st \in {"waiting", "reserved"}
                          THEN Unmarked \cup {p} ELSE Unmarked \ {p}
         /\ Out' = IF st \in {"reserved", "used"} THEN Out \cup {p} ELSE Out \ {p}
         /\ {q \in Permits : slot'[q] = "used"}
              = IF st = "used" THEN {q \in Permits : slot[q] = "used"} \cup {p}
                               ELSE {q \in Permits : slot[q] = "used"} \ {p}
  BY DEF TypeOK, Unmarked, Out

\* The limiter starts without permits.
LEMMA InitIInv == Init => IInv
<1> SUFFICES ASSUME Init PROVE IInv
  OBVIOUS
<1>1. TypeOK
  <2>1. sinceAdmit \in 0..Cooldown /\ inFlight \in Nat
    BY LimiterAssumption DEF Init
  <2>2. slot \in [Permits -> {"free", "waiting", "reserved", "used"}] /\ marked \subseteq Permits
    BY DEF Init
  <2>3. fallback \in BOOLEAN /\ busy \in BOOLEAN /\ failed \in BOOLEAN
    BY Zenon DEF Init
  <2>4. closed \in BOOLEAN /\ stopping \in BOOLEAN
    BY DEF Init
  <2> QED
    BY <2>1, <2>2, <2>3, <2>4 DEF TypeOK
<1>2. Unmarked = {} /\ Out = {} /\ {p \in Permits : slot[p] = "used"} = {}
  BY DEF Init, Unmarked, Out
<1>3. Cardinality({}) = 0
  BY FS_EmptySet
<1>4. CountIsExact
  BY <1>2, <1>3 DEF Init, CountIsExact
<1>5. UnmarkedBound /\ OvershootBound
  BY <1>2, <1>3, LimiterAssumption DEF UnmarkedBound, OvershootBound, Limit
<1> QED
  BY <1>1, <1>4, <1>5 DEF IInv

\* An admitted permit fits under the limit: the cap still had room for one
\* more marked permit, and all the others are among the SDK's few.
LEMMA AdmissionFits ==
  ASSUME IInv, Admitted, NEW p \in Permits, Become(p, "reserved"),
         UnmarkedBound'
  PROVE  OvershootBound'
<1>1. Out' \subseteq marked \cup Unmarked'
  BY PermitSets DEF IInv, TypeOK, CountIsExact, Out, Unmarked
<1>2. /\ IsFiniteSet(marked) /\ Cardinality(marked) \in Nat
      /\ IsFiniteSet(Unmarked') /\ Cardinality(Unmarked') \in Nat
  <2>1. marked \in SUBSET Permits /\ Unmarked' \in SUBSET Permits
    BY DEF IInv, TypeOK, Unmarked
  <2> QED
    BY <2>1, SubsetCardinality
<1>3. Cardinality(marked \cup Unmarked') <= Cardinality(marked) + Cardinality(Unmarked')
  <2>1. Cardinality(marked \cap Unmarked') \in Nat
    BY <1>2, FS_Intersection, FS_CardinalityType
  <2>2. Cardinality(marked \cup Unmarked')
          = Cardinality(marked) + Cardinality(Unmarked') - Cardinality(marked \cap Unmarked')
    BY <1>2, FS_Union
  <2> QED
    BY <1>2, <2>1, <2>2
<1>4. /\ Cardinality(Out') <= Cardinality(marked \cup Unmarked')
      /\ Cardinality(Out') \in Nat /\ Cardinality(marked \cup Unmarked') \in Nat
  <2>1. marked \cup Unmarked' \in SUBSET Permits
    BY DEF IInv, TypeOK, Unmarked
  <2> QED
    BY <1>1, <2>1, SubsetCardinality
<1>5. Cardinality(marked) <= StaticCap - 1
  BY LimiterAssumption DEF Admitted, IInv, TypeOK, CountIsExact
<1>6. Cardinality(Unmarked') <= MaxUnmarked
  BY DEF UnmarkedBound
<1> QED
  BY <1>2, <1>3, <1>4, <1>5, <1>6, LimiterAssumption DEF OvershootBound, Limit

\* A step that only moves flags and the clock.
LEMMA ControlKeepsIInv ==
  ASSUME IInv, TypeOK', UNCHANGED <<slot, inFlight, marked>>
  PROVE  IInv'
  BY DEF IInv, CountIsExact, UnmarkedBound, OvershootBound, Unmarked, Out, Limit

\* A permit that goes back, or a request that ends, only shrinks the sets.
LEMMA FreeingFits ==
  ASSUME IInv, NEW p \in Permits, Become(p, "free")
  PROVE  UnmarkedBound' /\ OvershootBound'
<1>1. Unmarked' \subseteq Unmarked /\ Out' \subseteq Out
  BY DEF IInv, TypeOK, Unmarked, Out
<1>2. Unmarked \in SUBSET Permits /\ Out \in SUBSET Permits
  BY DEF Unmarked, Out
<1>3. /\ Cardinality(Unmarked') <= Cardinality(Unmarked)
      /\ Cardinality(Unmarked) \in Nat /\ Cardinality(Unmarked') \in Nat
      /\ Cardinality(Out') <= Cardinality(Out)
      /\ Cardinality(Out) \in Nat /\ Cardinality(Out') \in Nat
  BY <1>1, <1>2, SubsetCardinality
<1> QED
  BY <1>3, LimiterAssumption DEF IInv, UnmarkedBound, OvershootBound, Limit

\* A new request, or a new permit, is counted against the SDK's limit.
LEMMA RequestFits ==
  ASSUME IInv, NEW p \in Permits, slot[p] = "free",
         NEW st \in {"waiting", "reserved"}, Become(p, st),
         Cardinality(Unmarked) < MaxUnmarked
  PROVE  UnmarkedBound'
<1>1. Unmarked' = Unmarked \cup {p}
  BY PermitSets DEF IInv
<1>2. IsFiniteSet(Unmarked) /\ Cardinality(Unmarked) \in Nat
  BY SubsetCardinality DEF Unmarked
<1>3. Cardinality(Unmarked \cup {p}) \in {Cardinality(Unmarked), Cardinality(Unmarked) + 1}
  BY <1>2, FS_AddElement
<1>4. Cardinality(Unmarked \cup {p}) \in Nat
  BY <1>2, FS_AddElement, FS_CardinalityType
<1> QED
  BY <1>1, <1>2, <1>3, <1>4, LimiterAssumption DEF UnmarkedBound

-----------------------------------------------------------------------------
\* Every step keeps the invariant.
LEMMA NextIInv == IInv /\ [Next]_vars => IInv'
<1> SUFFICES ASSUME IInv, [Next]_vars PROVE IInv'
  OBVIOUS
<1> USE DEF IInv
<1>1. ASSUME NEW p \in Permits, Request(p) PROVE IInv'
  <2>1. TypeOK'
    BY <1>1 DEF Request, TypeOK, control
  <2>2. CountIsExact'
    BY <1>1, PermitSets DEF Request, CountIsExact, TypeOK
  <2>3. UnmarkedBound'
    BY <1>1, RequestFits DEF Request
  <2>4. Out' = Out
    BY <1>1, PermitSets DEF Request, Out
  <2> QED
    BY <2>1, <2>2, <2>3, <2>4 DEF OvershootBound, Limit
<1>2. ASSUME NEW p \in Permits, ReserveSlot(p) PROVE IInv'
  <2>1. TypeOK'
    BY <1>2 DEF ReserveSlot, TypeOK, control
  <2>2. CountIsExact'
    BY <1>2, PermitSets DEF ReserveSlot, CountIsExact, TypeOK
  <2>3. CASE Admitted /\ Become(p, "reserved")
    <3>1. Unmarked' = Unmarked
      BY <1>2, <2>3, PermitSets DEF ReserveSlot, Unmarked
    <3>2. UnmarkedBound'
      BY <3>1 DEF UnmarkedBound
    <3> QED
      BY <2>1, <2>2, <2>3, <3>2, AdmissionFits
  <2>4. CASE (closed \/ stopping) /\ Become(p, "free")
    BY <2>1, <2>2, <2>4, FreeingFits
  <2> QED
    BY <1>2, <2>3, <2>4 DEF ReserveSlot
<1>3. ASSUME NEW p \in Permits, TryReserveSlot(p) PROVE IInv'
  <2>1. TypeOK'
    BY <1>3 DEF TryReserveSlot, TypeOK, control
  <2>2. CountIsExact'
    BY <1>3, PermitSets DEF TryReserveSlot, CountIsExact, TypeOK
  <2>3. UnmarkedBound'
    BY <1>3, RequestFits DEF TryReserveSlot
  <2>4. OvershootBound'
    BY <1>3, <2>3, AdmissionFits DEF TryReserveSlot
  <2> QED
    BY <2>1, <2>2, <2>3, <2>4
<1>4. ASSUME NEW p \in Permits, MarkSlotUsed(p) PROVE IInv'
  <2>1. TypeOK'
    BY <1>4, LimiterAssumption DEF MarkSlotUsed, TypeOK, control
  <2>2. {q \in Permits : slot'[q] = "used"} = marked \cup {p} /\ marked' = marked \cup {p}
    BY <1>4, PermitSets DEF MarkSlotUsed, CountIsExact, TypeOK
  <2>3. IsFiniteSet(marked)
    BY SubsetCardinality DEF TypeOK
  <2>4. inFlight' = Cardinality(marked')
    BY <1>4, <2>2, <2>3, FS_AddElement DEF MarkSlotUsed, CountIsExact, TypeOK
  <2>5. CountIsExact'
    BY <2>2, <2>4 DEF CountIsExact
  <2>6. Unmarked' \subseteq Unmarked /\ Out' = Out
    BY <1>4, PermitSets DEF MarkSlotUsed, Out
  <2>7. /\ Cardinality(Unmarked') <= Cardinality(Unmarked)
        /\ Cardinality(Unmarked) \in Nat /\ Cardinality(Unmarked') \in Nat
    BY <2>6, SubsetCardinality DEF Unmarked
  <2>8. UnmarkedBound' /\ OvershootBound'
    BY <2>6, <2>7, LimiterAssumption DEF UnmarkedBound, OvershootBound, Limit
  <2> QED
    BY <2>1, <2>5, <2>8
<1>5. ASSUME NEW p \in Permits, ReleaseSlot(p) PROVE IInv'
  <2>1. TypeOK'
    BY <1>5 DEF ReleaseSlot, TypeOK, control
  <2>2. {q \in Permits : slot'[q] = "used"} = marked' /\ marked' = marked \ {p}
    BY <1>5, PermitSets DEF ReleaseSlot, CountIsExact, TypeOK
  <2>3. IsFiniteSet(marked) /\ Cardinality(marked) \in Nat
    BY SubsetCardinality DEF TypeOK
  <2>4. p \in marked => Cardinality(marked) # 0
    BY <2>3, FS_EmptySet
  <2>5. inFlight' = Cardinality(marked')
    <3>1. Cardinality(marked \ {p}) =
            IF p \in marked THEN Cardinality(marked) - 1 ELSE Cardinality(marked)
      BY <2>3, FS_RemoveElement
    <3> QED
      BY <1>5, <2>2, <2>3, <2>4, <3>1 DEF ReleaseSlot, CountIsExact
  <2>6. CountIsExact'
    BY <2>2, <2>5 DEF CountIsExact
  <2> QED
    BY <1>5, <2>1, <2>6, FreeingFits DEF ReleaseSlot
<1>6. ASSUME WatchFallback PROVE IInv'
  BY <1>6, ControlKeepsIInv DEF WatchFallback, TypeOK
<1>7. ASSUME Close PROVE IInv'
  BY <1>7, ControlKeepsIInv DEF Close, TypeOK
<1>8. ASSUME StopWorker PROVE IInv'
  BY <1>8, ControlKeepsIInv DEF StopWorker, TypeOK
<1>9. ASSUME Tick PROVE IInv'
  <2>1. sinceAdmit' \in 0..Cooldown
    BY <1>9, LimiterAssumption DEF Tick, TypeOK
  <2> QED
    BY <1>9, <2>1, ControlKeepsIInv DEF Tick, TypeOK, control
<1>10. ASSUME LoadChanges PROVE IInv'
  BY <1>10, ControlKeepsIInv DEF LoadChanges, TypeOK
<1>11. ASSUME SamplerFails PROVE IInv'
  BY <1>11, ControlKeepsIInv DEF SamplerFails, TypeOK
<1>12. ASSUME UNCHANGED vars PROVE IInv'
  BY <1>12, ControlKeepsIInv DEF vars, control, TypeOK
<1> QED
  BY <1>1, <1>2, <1>3, <1>4, <1>5, <1>6, <1>7, <1>8, <1>9, <1>10, <1>11, <1>12
  DEF Next, PermitStep

\* The invariant of the limiter holds in every reachable state (TryReserveSlot,
\* MarkSlotUsed, ReleaseSlot).
THEOREM Invariance == Spec => []IInv
  BY InitIInv, NextIInv, PTL DEF Spec

-----------------------------------------------------------------------------
\* The variables keep their types.
THEOREM TypeCorrect == Spec => []TypeOK
<1>1. IInv => TypeOK
  BY DEF IInv
<1> QED
  BY <1>1, Invariance, PTL

\* Limiter.inFlight is the number of permits in use, whatever calls the SDK
\* makes and in whatever order (markUsed, release).
THEOREM CountExact == Spec => []CountIsExact
<1>1. IInv => CountIsExact
  BY DEF IInv
<1> QED
  BY <1>1, Invariance, PTL

\* The cap is overshot by less than the number of unmarked permits the SDK
\* holds at a time.
THEOREM OvershootBounded == Spec => []OvershootBound
<1>1. IInv => OvershootBound
  BY DEF IInv
<1> QED
  BY <1>1, Invariance, PTL

\* With a single poller the documented cap holds (Config.StaticCap).
THEOREM SinglePollerKeepsCap ==
  ASSUME MaxUnmarked = 1
  PROVE  Spec => []StaticCapHolds
<1>1. ASSUME IInv PROVE StaticCapHolds
  <2>1. marked \subseteq Out
    BY <1>1 DEF IInv, CountIsExact, Out
  <2>2. Cardinality(marked) <= Cardinality(Out) /\ Cardinality(Out) \in Nat
    BY <2>1, SubsetCardinality DEF Out
  <2> QED
    BY <1>1, <2>2, LimiterAssumption
    DEF IInv, CountIsExact, OvershootBound, Limit, StaticCapHolds, TypeOK
<1> QED
  BY <1>1, Invariance, PTL

-----------------------------------------------------------------------------
\* The semaphore counts with the same Cardinality.
LEMMA SemCardinality == ASSUME NEW S PROVE Sem!Cardinality(S) = Cardinality(S)
  BY DEF Sem!Cardinality, Cardinality

\* A step that takes a permit out, or brings one back, is one of the
\* semaphore's; every other step leaves the semaphore alone.
LEMMA StepRefines ==
  ASSUME IInv, IInv', [Next]_vars
  PROVE  [Sem!Next]_Out
<1> USE DEF IInv
<1>1. ASSUME NEW p \in Permits, Become(p, "reserved"), slot[p] \in {"free", "waiting"}
      PROVE  Sem!Acquire(p)
  <2>1. Out' = Out \cup {p} /\ p \notin Out
    BY <1>1, PermitSets DEF Out
  <2>2. IsFiniteSet(Out) /\ Cardinality(Out) \in Nat
    BY SubsetCardinality DEF Out
  <2>3. Cardinality(Out') = Cardinality(Out) + 1
    BY <2>1, <2>2, FS_AddElement
  <2>4. Cardinality(Out) < Limit
    BY <2>2, <2>3, LimiterAssumption DEF OvershootBound, Limit
  <2> QED
    BY <2>1, <2>4, SemCardinality DEF Sem!Acquire
<1>2. ASSUME NEW p \in Permits, PermitStep(p) PROVE [Sem!Next]_Out
  <2>1. CASE Request(p)
    BY <2>1, PermitSets DEF Request, Out
  <2>2. CASE ReserveSlot(p)
    <3>1. CASE Become(p, "reserved")
      BY <1>1, <2>2, <3>1 DEF ReserveSlot, Sem!Next
    <3>2. CASE Become(p, "free")
      BY <2>2, <3>2, PermitSets DEF ReserveSlot, Out
    <3> QED
      BY <2>2, <3>1, <3>2 DEF ReserveSlot
  <2>3. CASE TryReserveSlot(p)
    BY <1>1, <2>3 DEF TryReserveSlot, Sem!Next
  <2>4. CASE MarkSlotUsed(p)
    BY <2>4, PermitSets DEF MarkSlotUsed, Out
  <2>5. CASE ReleaseSlot(p)
    <3>1. p \in Out /\ Out' = Out \ {p}
      BY <2>5, PermitSets DEF ReleaseSlot, Out
    <3> QED
      BY <3>1 DEF Sem!Next, Sem!Release
  <2> QED
    BY <1>2, <2>1, <2>2, <2>3, <2>4, <2>5 DEF PermitStep
<1>3. CASE UNCHANGED slot
  BY <1>3 DEF Out
<1> QED
  BY <1>2, <1>3
  DEF Next, vars, WatchFallback, Close, StopWorker, Tick, LoadChanges, SamplerFails

\* The limiter implements a semaphore of Limit slots.
THEOREM Refinement == Spec => Sem!Spec
<1>1. Init => Sem!Init
  BY DEF Init, Sem!Init, Out
<1>2. IInv /\ IInv' /\ [Next]_vars => [Sem!Next]_Out
  BY StepRefines
<1> QED
  BY <1>1, <1>2, Invariance, PTL DEF Spec, Sem!Spec
=============================================================================
