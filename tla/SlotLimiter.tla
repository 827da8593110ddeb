----------------------------- MODULE SlotLimiter -----------------------------
(***************************************************************************)
(* The Temporal slot supplier of the transcode worker                      *)
(* (pkg/transcodelimiter/limiter.go).  The SDK asks for a permit before it *)
(* polls (ReserveSlot), marks it used when a task came back (MarkSlotUsed) *)
(* and releases it in any case (ReleaseSlot).  Admission looks at what is  *)
(* marked, not at what is reserved: permits reserved but not yet marked    *)
(* escape the cap.                                                         *)
(*                                                                         *)
(* One element of Permits is one request of the SDK and the permit it may  *)
(* get.  Every action is one critical section of Limiter.mu.               *)
(***************************************************************************)
EXTENDS Naturals, FiniteSets

CONSTANTS
  Permits,      \* requests the SDK can have at a time
  StaticCap,    \* Config.StaticCap
  Cooldown,     \* Config.PostAdmissionCooldown, in clock ticks
  MaxUnmarked   \* requests and unmarked permits the SDK holds at a time

ASSUME LimiterAssumption ==
  /\ IsFiniteSet(Permits)
  /\ StaticCap \in Nat \ {0}
  /\ Cooldown \in Nat
  /\ MaxUnmarked \in Nat \ {0}

VARIABLES
  slot,        \* the SDK's side: "free", "waiting", "reserved" or "used"
  inFlight,    \* Limiter.inFlight
  marked,      \* Limiter.marked
  sinceAdmit,  \* ticks since Limiter.lastAdmit, no more than Cooldown
  fallback,    \* Limiter.fallback
  busy,        \* is Sampler.Value() at or above GPUThreshold?
  failed,      \* is Sampler.FailedC() closed?
  closed,      \* is Limiter.closeC closed?
  stopping     \* has the worker ended the contexts of its pollers?

control == <<fallback, busy, failed, closed, stopping>>
vars == <<slot, inFlight, marked, sinceAdmit, control>>

Unmarked == {p \in Permits : slot[p] \in {"waiting", "reserved"}}

Become(p, state) == slot' = [slot EXCEPT ![p] = state]

Admitted_NoCap == fallback \/ (~ busy /\ sinceAdmit = Cooldown)

\* admissionState
Admitted ==
  /\ inFlight < StaticCap
  /\ fallback \/ (~ busy /\ sinceAdmit = Cooldown)

-----------------------------------------------------------------------------
\* A poller calls ReserveSlot, with a context that has not ended.
Request(p) ==
  /\ slot[p] = "free"
  /\ ~ stopping
  /\ Cardinality(Unmarked) < MaxUnmarked
  /\ Become(p, "waiting")
  /\ UNCHANGED <<inFlight, marked, sinceAdmit, control>>

ReserveSlot_Deaf(p) ==
  /\ slot[p] = "waiting"
  /\ Admitted
  /\ Become(p, "reserved")
  /\ UNCHANGED <<inFlight, marked, sinceAdmit, control>>

\* One turn of ReserveSlot's loop: a permit if the limiter admits, an error
\* once it is closed or the context ended, or wait for the next turn.
ReserveSlot(p) ==
  /\ slot[p] = "waiting"
  /\ \/ Admitted /\ Become(p, "reserved")
     \/ (closed \/ stopping) /\ Become(p, "free")
  /\ UNCHANGED <<inFlight, marked, sinceAdmit, control>>

\* TryReserveSlot never waits.
TryReserveSlot(p) ==
  /\ slot[p] = "free"
  /\ Cardinality(Unmarked) < MaxUnmarked
  /\ Admitted
  /\ Become(p, "reserved")
  /\ UNCHANGED <<inFlight, marked, sinceAdmit, control>>

MarkSlotUsed_Twice(p) ==
  /\ slot[p] \in {"reserved", "used"}
  /\ Become(p, "used")
  /\ marked' = marked \cup {p}
  /\ inFlight' = inFlight + 1
  /\ sinceAdmit' = 0
  /\ UNCHANGED control

\* A permit is counted once, and every first use restarts the cooldown.
MarkSlotUsed(p) ==
  /\ slot[p] \in {"reserved", "used"}
  /\ Become(p, "used")
  /\ IF p \in marked
       THEN UNCHANGED <<inFlight, marked, sinceAdmit>>
       ELSE /\ marked' = marked \cup {p}
            /\ inFlight' = inFlight + 1
            /\ sinceAdmit' = 0
  /\ UNCHANGED control

ReleaseSlot_Unguarded(p) ==
  /\ slot[p] \in {"reserved", "used"}
  /\ Become(p, "free")
  /\ marked' = marked \ {p}
  /\ inFlight' = inFlight - 1
  /\ UNCHANGED <<sinceAdmit, control>>

\* Only a permit that was marked gives its count back.
ReleaseSlot(p) ==
  /\ slot[p] \in {"reserved", "used"}
  /\ Become(p, "free")
  /\ marked' = marked \ {p}
  /\ inFlight' = IF p \in marked /\ inFlight > 0 THEN inFlight - 1 ELSE inFlight
  /\ UNCHANGED <<sinceAdmit, control>>

\* watchFallback, until Close ends it.
WatchFallback ==
  /\ failed
  /\ ~ closed
  /\ ~ fallback
  /\ fallback' = TRUE
  /\ UNCHANGED <<slot, inFlight, marked, sinceAdmit, busy, failed, closed, stopping>>

Close ==
  /\ ~ closed
  /\ closed' = TRUE
  /\ UNCHANGED <<slot, inFlight, marked, sinceAdmit, fallback, busy, failed,
                 stopping>>

\* Worker.Stop ends the contexts of the pollers.
StopWorker ==
  /\ ~ stopping
  /\ stopping' = TRUE
  /\ UNCHANGED <<slot, inFlight, marked, sinceAdmit, fallback, busy, failed,
                 closed>>

-----------------------------------------------------------------------------
\* The clock, and the sampler: its value moves until it fails.
Tick ==
  /\ sinceAdmit < Cooldown
  /\ sinceAdmit' = sinceAdmit + 1
  /\ UNCHANGED <<slot, inFlight, marked, control>>

LoadChanges ==
  /\ ~ failed
  /\ busy' = ~ busy
  /\ UNCHANGED <<slot, inFlight, marked, sinceAdmit, fallback, failed, closed,
                 stopping>>

SamplerFails ==
  /\ ~ failed
  /\ failed' = TRUE
  /\ UNCHANGED <<slot, inFlight, marked, sinceAdmit, fallback, busy, closed,
                 stopping>>

-----------------------------------------------------------------------------
\* New: a sampler that already failed puts the limiter in fallback at once.
Init ==
  /\ slot = [p \in Permits |-> "free"]
  /\ inFlight = 0
  /\ marked = {}
  /\ sinceAdmit = Cooldown
  /\ failed \in BOOLEAN
  /\ fallback = failed
  /\ busy \in BOOLEAN
  /\ closed = FALSE
  /\ stopping = FALSE

PermitStep(p) ==
  \/ Request(p) \/ ReserveSlot(p) \/ TryReserveSlot(p)
  \/ MarkSlotUsed(p) \/ ReleaseSlot(p)

Next ==
  \/ \E p \in Permits : PermitStep(p)
  \/ WatchFallback \/ Close \/ StopWorker
  \/ Tick \/ LoadChanges \/ SamplerFails

Spec == Init /\ [][Next]_vars

\* The clock runs, ReserveSlot's loop turns, a worker that is not stopped
\* keeps polling, and watchFallback is a goroutine.  No task is bound to end
\* and no load to drop.
Fairness ==
  /\ WF_vars(Tick)
  /\ WF_vars(WatchFallback)
  /\ \A p \in Permits : WF_vars(Request(p)) /\ WF_vars(ReserveSlot(p))

-----------------------------------------------------------------------------
TypeOK ==
  /\ slot \in [Permits -> {"free", "waiting", "reserved", "used"}]
  /\ inFlight \in Nat
  /\ marked \subseteq Permits
  /\ sinceAdmit \in 0..Cooldown
  /\ fallback \in BOOLEAN
  /\ busy \in BOOLEAN
  /\ failed \in BOOLEAN
  /\ closed \in BOOLEAN
  /\ stopping \in BOOLEAN

\* The count is the number of permits in use: marking twice and releasing a
\* permit that was never used leave it right (markUsed, release).
CountIsExact ==
  /\ marked = {p \in Permits : slot[p] = "used"}
  /\ inFlight = Cardinality(marked)

Reserved == {p \in Permits : slot[p] = "reserved"}
Out == {p \in Permits : slot[p] \in {"reserved", "used"}}

\* How far the cap can be overshot: by the other permits that were reserved
\* when the last one below the cap was, and no further, however the SDK mixes
\* its calls (admissionState counts marked permits only; release).
Limit == StaticCap + MaxUnmarked - 1

OvershootBound == Cardinality(Out) <= Limit

\* The limiter is a semaphore of that many slots.
Sem == INSTANCE Semaphore WITH out <- Out

ImplementsSemaphore == Sem!Spec

\* Neither Close nor a worker that stops leaves a ReserveSlot waiting for
\* ever (the select of ReserveSlot's loop).
StopWakesWaiters ==
  \A p \in Permits :
    (closed \/ stopping) /\ slot[p] = "waiting" ~> slot[p] # "waiting"

\* "StaticCap is the maximum number of in-flight activities, regardless of
\* probe value" (Config).  It is with one poller; with more, only
\* OvershootBound is.
StaticCapHolds == inFlight <= StaticCap
=============================================================================
