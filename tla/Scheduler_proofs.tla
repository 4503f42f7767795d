-------------------------- MODULE Scheduler_proofs --------------------------
(***************************************************************************)
(* Proofs about the scheduler core, for every set of jobs, workers, GPUs,  *)
(* resources and offers, and about the three ways it is used: what         *)
(* StageCoordinator keeps for any jobs, workers, outputs and order of      *)
(* saves, failed writes and restarts; what SchedulerDrivers keeps for each *)
(* of the drivers, pools, observations and GPU selections; and what        *)
(* RemoteDispatch keeps for any dispatchers, deadlines and deliveries.     *)
(*                                                                         *)
(* The coordinator writes two files at different times, so its invariant   *)
(* says which may be ahead: memory is never behind the scheduler's file,   *)
(* and the handoff rows are those of memory for every job the scheduler    *)
(* has, but for the jobs whose write has raised.  A restart then finds     *)
(* rows that are ahead of the scheduler's file and never rows that are     *)
(* behind.                                                                 *)
(*                                                                         *)
(* A driver's step lets go of leases or adds one that fits, so its         *)
(* invariant rests on the lemmas about the core; the wrapper's map is right*)
(* because it changes at exactly the steps that change the leases.         *)
(*                                                                         *)
(* The invariant of RemoteDispatch follows a remote lease through its      *)
(* life.  It is outstanding, accepted or barred, never two of these; its   *)
(* id names it in all three; an answer in the network, a result and the    *)
(* call of a dispatcher go back to it.  On the scheduler's side a result's *)
(* job is completed, which is final, and a call that began alone on its    *)
(* job and worker stays alone until its deadline, since the job is leased. *)
(***************************************************************************)
EXTENDS StageCoordinator, SchedulerDrivers, RemoteDispatch, TLAPS

-----------------------------------------------------------------------------
(* Scheduler                                                               *)

\* The age of a job is read at a time that has passed.
LEMMA QueuedAtType ==
  ASSUME TypeOK, NEW j \in Job
  PROVE  QueuedAt(j) \in 0..now
BY DEF TypeOK, LeaseFields, QueuedAt, JobRecord

\* Stamping changes only the age of queued jobs.
LEMMA StampedType ==
  ASSUME TypeOK, NEW wanted
  PROVE  /\ Stamped(wanted) \in [Job -> JobRecord]
         /\ \A j \in Job :
              /\ \A f \in {"state", "owner", "until", "gpus"} :
                   Stamped(wanted)[j][f] = jobs[j][f]
              /\ Stamped(wanted)[j].queuedAt \in {jobs[j].queuedAt, QueuedAt(j)}
              /\ jobs[j].state # "queued" => Stamped(wanted)[j] = jobs[j]
<1>1. \A j \in Job : QueuedAt(j) \in Nat \cup {None}
  BY QueuedAtType DEF TypeOK
<1>2. \A j \in Job : jobs[j] \in JobRecord
  BY DEF TypeOK
<1> QED
  BY <1>1, <1>2 DEF Stamped, JobRecord, Queued, In

-----------------------------------------------------------------------------
(* Types, call by call; drivers of the scheduler make calls that Next does *)
(* not have, so each call has a lemma.                                     *)

LEMMA InitType == Init => TypeOK
BY TimeAssumption, IdsAssumption
DEF Init, TypeOK, LeaseFields, JobRecord, JobState, Fresh

LEMMA SubmitType ==
  ASSUME TypeOK, NEW j \in Job, Submit(j)
  PROVE  TypeOK'
BY TimeAssumption, IdsAssumption
DEF TypeOK, LeaseFields, JobRecord, JobState, Submit, Fresh

LEMMA RecoverType ==
  ASSUME TypeOK, RecoverExpired
  PROVE  TypeOK'
BY TimeAssumption, IdsAssumption
DEF TypeOK, LeaseFields, JobRecord, JobState, RecoverExpired, Fresh

LEMMA ReleaseType ==
  ASSUME TypeOK, NEW j \in Job, NEW w \in Worker,
         NEW state \in {"completed", "queued", "failed"}, Release(j, w, state)
  PROVE  TypeOK'
BY TimeAssumption, IdsAssumption
DEF TypeOK, LeaseFields, JobRecord, JobState, Release, Fresh, LeasedOn, Leased, In

LEMMA TickType ==
  ASSUME TypeOK, Tick
  PROVE  TypeOK'
BY TimeAssumption, IdsAssumption DEF TypeOK, LeaseFields, JobRecord, Tick

\* A call that leases nothing.
LEMMA StampType ==
  ASSUME TypeOK, NEW wanted, jobs' = Stamped(wanted), now' = now
  PROVE  TypeOK'
<1>1. jobs' \in [Job -> JobRecord]
  BY StampedType
<1>2. LeaseFields'
  BY StampedType, QueuedAtType, IdsAssumption DEF TypeOK, LeaseFields
<1> QED
  BY <1>1, <1>2 DEF TypeOK

\* A call that leases j to w after stamping.
LEMMA LeaseType ==
  ASSUME TypeOK, NEW wanted, NEW w \in Worker, NEW gpus \in SUBSET Gpu,
         NEW seconds \in LeaseSeconds, now + seconds <= MaxTime, now' = now, NEW j \in Job,
         jobs' = [Stamped(wanted) EXCEPT ![j] = Lease(j, w, seconds, gpus)]
  PROVE  TypeOK'
<1> USE TimeAssumption, IdsAssumption
<1>1. now + seconds \in 0..MaxTime
  <2>1. now \in Nat /\ seconds \in Nat /\ MaxTime \in Nat
    BY DEF TypeOK
  <2> QED
    BY <2>1
<1>2. Lease(j, w, seconds, gpus) \in JobRecord
  <2>1. QueuedAt(j) \in 0..now
    BY QueuedAtType
  <2>2. now + seconds \in Nat
    BY <1>1
  <2> QED
    BY <2>1, <2>2 DEF Lease, JobRecord, JobState
<1>3. jobs' \in [Job -> JobRecord]
  BY <1>2, StampedType
<1>4. LeaseFields'
  BY <1>1, StampedType, QueuedAtType DEF TypeOK, LeaseFields, Lease
<1> QED
  BY <1>3, <1>4 DEF TypeOK

LEMMA ChooseType ==
  ASSUME TypeOK, NEW w \in Worker, NEW offer, NEW pool, NEW wanted, NEW gpus \in SUBSET Gpu,
         NEW seconds \in LeaseSeconds, ChooseOnWorker(w, offer, pool, wanted, gpus, seconds)
  PROVE  TypeOK'
<1>1. now' = now /\ now + seconds <= MaxTime
  BY DEF ChooseOnWorker
<1>2. CASE jobs' = Stamped(wanted)
  BY <1>1, <1>2, StampType
<1>3. ASSUME NEW j \in Job, jobs' = [Stamped(wanted) EXCEPT ![j] = Lease(j, w, seconds, gpus)]
      PROVE  TypeOK'
  BY <1>1, <1>3, LeaseType
<1> QED
  BY <1>2, <1>3 DEF ChooseOnWorker, Candidates, Queued, In

\* The calls that lease nothing.
Unleasing ==
  \/ \E j \in Job : Submit(j)
  \/ RecoverExpired
  \/ \E j \in Job, w \in Worker, state \in {"completed", "queued", "failed"} : Release(j, w, state)
  \/ Tick
  \/ UNCHANGED vars

\* Next has those, and choose_on_worker.
LEMMA CallCases ==
  ASSUME [Next]_vars
  PROVE  \/ Unleasing
         \/ \E w \in Worker : \E offer \in Offer[w], pool \in PoolPower, wanted \in Wanted,
                gpus \in SUBSET Gpu, seconds \in LeaseSeconds :
              ChooseOnWorker(w, offer, pool, wanted, gpus, seconds)
BY DEF Unleasing, Next, Choosing, Releasing, Complete, Requeue, Fail

LEMMA UnleasingType ==
  ASSUME TypeOK, Unleasing
  PROVE  TypeOK'
<1>1. CASE UNCHANGED vars
  BY <1>1 DEF TypeOK, LeaseFields, vars
<1> QED
  BY <1>1, SubmitType, RecoverType, ReleaseType, TickType DEF Unleasing

\* Every record has its fields, and the lease fields are set exactly while the
\* job is leased, whatever sequence of calls the scheduler serves.
THEOREM TypeCorrect == Spec => []TypeOK
<1>1. TypeOK /\ [Next]_vars => TypeOK'
  BY CallCases, UnleasingType, ChooseType
<1> QED
  BY <1>1, InitType, PTL DEF Spec

-----------------------------------------------------------------------------
(* What a step does to the set of leases: it keeps some of them as they    *)
(* are, or adds one to all of them.                                        *)

OnlyKeepsLeases == \A k \in Leased' : k \in Leased /\ jobs'[k] = jobs[k]

AddsLease(j, w, offer, pool, gpus) ==
  /\ j \in Queued
  /\ GpusOn(w) \cap gpus = {}
  /\ Power[Leased] + Power[{j}] <= pool
  /\ Fits(j, offer, LeasedOn(w))
  /\ Leased' = Leased \cup {j}
  /\ jobs'[j].owner = w /\ jobs'[j].gpus = gpus
  /\ \A k \in Leased : jobs'[k] = jobs[k]

LEMMA UnleasingKeeps ==
  ASSUME TypeOK, Unleasing
  PROVE  OnlyKeepsLeases
<1> USE DEF Leased, In
<1>1. ASSUME NEW j \in Job, Submit(j) PROVE OnlyKeepsLeases
  BY <1>1 DEF OnlyKeepsLeases, Submit, Fresh, TypeOK
<1>2. CASE RecoverExpired
  BY <1>2 DEF OnlyKeepsLeases, RecoverExpired, Fresh, TypeOK
<1>3. ASSUME NEW j \in Job, NEW w \in Worker, NEW state \in {"completed", "queued", "failed"},
             Release(j, w, state)
      PROVE  OnlyKeepsLeases
  BY <1>3 DEF OnlyKeepsLeases, Release, Fresh, TypeOK
<1>4. CASE Tick
  BY <1>4 DEF OnlyKeepsLeases, Tick
<1>5. CASE UNCHANGED vars
  BY <1>5 DEF OnlyKeepsLeases, vars
<1> QED
  BY <1>1, <1>2, <1>3, <1>4, <1>5 DEF Unleasing

\* j is leased besides the others, which keep their records.
NewLease(j, record) ==
  /\ j \in Job /\ j \notin Leased
  /\ Leased' = Leased \cup {j}
  /\ jobs'[j] = record
  /\ \A k \in Leased : jobs'[k] = jobs[k]

\* A call that leases j after stamping leases it to w besides the others.
LEMMA LeaseAdds ==
  ASSUME TypeOK, NEW wanted, NEW w, NEW seconds, NEW gpus, NEW j \in Queued,
         jobs' = [Stamped(wanted) EXCEPT ![j] = Lease(j, w, seconds, gpus)]
  PROVE  NewLease(j, Lease(j, w, seconds, gpus))
<1> USE DEF Leased, In, NewLease
<1>1. j \in Job /\ j \notin Leased
  BY DEF Queued
<1>2. jobs'[j] = Lease(j, w, seconds, gpus)
  BY <1>1, StampedType
<1>3. \A k \in Job \ {j} : jobs'[k] = Stamped(wanted)[k]
  BY StampedType
<1>4. \A k \in Job : jobs[k].state = "leased" => jobs'[k] = jobs[k]
  BY <1>1, <1>3, StampedType
<1>5. \A k \in Job \ {j} : jobs'[k].state = jobs[k].state
  BY <1>3, StampedType
<1>6. Leased' = Leased \cup {j}
  BY <1>1, <1>2, <1>5 DEF Lease
<1> QED
  BY <1>1, <1>2, <1>4, <1>6

LEMMA StampKeeps ==
  ASSUME TypeOK, NEW wanted, jobs' = Stamped(wanted)
  PROVE  OnlyKeepsLeases
BY DEF OnlyKeepsLeases, Stamped, Queued, Leased, In, TypeOK, JobRecord

\* choose_on_worker leases nothing, or a job that fits among those of its worker.
LEMMA ChoiceAdds ==
  ASSUME TypeOK, NEW w \in Worker, NEW offer, NEW pool \in Nat, NEW wanted,
         NEW gpus \in SUBSET Gpu, NEW seconds \in LeaseSeconds,
         ChooseOnWorker(w, offer, pool, wanted, gpus, seconds)
  PROVE  OnlyKeepsLeases \/ \E j \in Job : AddsLease(j, w, offer, pool, gpus)
<1>1. CASE jobs' = Stamped(wanted)
  BY <1>1, StampKeeps
<1>2. ASSUME NEW j \in Candidates(w, offer, pool, wanted, gpus),
             jobs' = [Stamped(wanted) EXCEPT ![j] = Lease(j, w, seconds, gpus)]
      PROVE  j \in Job /\ AddsLease(j, w, offer, pool, gpus)
  <2>1. /\ j \in Queued
        /\ GpusOn(w) \cap gpus = {}
        /\ pool - Power[Leased] >= Power[{j}]
        /\ Fits(j, offer, LeasedOn(w))
    BY <1>2 DEF Candidates
  <2>2. /\ j \in Job
        /\ Leased' = Leased \cup {j}
        /\ jobs'[j] = Lease(j, w, seconds, gpus)
        /\ \A k \in Leased : jobs'[k] = jobs[k]
    <3>1. jobs' = [Stamped(wanted) EXCEPT ![j] = Lease(j, w, seconds, gpus)] /\ j \in Queued
      BY <1>2, <2>1
    <3>2. NewLease(j, Lease(j, w, seconds, gpus))
      BY <3>1, LeaseAdds
    <3> QED
      BY <3>2 DEF NewLease
  <2>3. Power[Leased] + Power[{j}] <= pool
    <3>1. pool \in Int /\ Power[Leased] \in Int /\ Power[{j}] \in Int
      BY <2>2, PowerAssumption DEF Leased, In
    <3> QED
      BY <2>1, <3>1
  <2>4. jobs'[j].owner = w /\ jobs'[j].gpus = gpus
    BY <2>2 DEF Lease
  <2> QED
    BY <2>1, <2>2, <2>3, <2>4 DEF AddsLease
<1> QED
  BY <1>1, <1>2 DEF ChooseOnWorker

\* A step lets go of leases, or grants one that fits among those of its worker.
LEMMA LeaseStep ==
  ASSUME TypeOK, [Next]_vars
  PROVE  \/ OnlyKeepsLeases
         \/ \E j \in Job, w \in Worker : \E offer \in Offer[w], pool \in PoolPower,
                gpus \in SUBSET Gpu : AddsLease(j, w, offer, pool, gpus)
<1>1. ASSUME NEW w \in Worker, NEW offer \in Offer[w], NEW pool \in PoolPower, NEW wanted \in Wanted,
             NEW gpus \in SUBSET Gpu, NEW seconds \in LeaseSeconds,
             ChooseOnWorker(w, offer, pool, wanted, gpus, seconds)
      PROVE  OnlyKeepsLeases \/ \E j \in Job : AddsLease(j, w, offer, pool, gpus)
  <2>1. pool \in Nat
    BY CallerAssumption
  <2> QED
    BY <1>1, <2>1, ChoiceAdds
<1> QED
  BY <1>1, CallCases, UnleasingKeeps

-----------------------------------------------------------------------------
\* A lease granted on GPUs that no lease of its worker has shares none.
LEMMA GpusStayExclusive ==
  ASSUME GpuExclusive,
         \/ OnlyKeepsLeases
         \/ \E j \in Job, w \in Worker : \E offer \in Offer[w], pool \in Nat,
              gpus \in SUBSET Gpu : AddsLease(j, w, offer, pool, gpus)
  PROVE  GpuExclusive'
<1>1. CASE OnlyKeepsLeases
  BY <1>1 DEF OnlyKeepsLeases, GpuExclusive
<1>2. ASSUME NEW j \in Job, NEW w \in Worker, NEW offer \in Offer[w], NEW pool \in Nat,
             NEW gpus \in SUBSET Gpu, AddsLease(j, w, offer, pool, gpus)
      PROVE  GpuExclusive'
  <2>1. \A k \in Leased : jobs[k].owner = w => jobs[k].gpus \cap gpus = {}
    BY <1>2 DEF AddsLease, GpusOn, LeasedOn
  <2> QED
    BY <1>2, <2>1 DEF AddsLease, GpuExclusive
<1> QED
  BY <1>1, <1>2

\* No two leased jobs of a worker share a GPU, for any interleaving of leases,
\* expiries, requeues and completions.
THEOREM GpusNeverShared == Spec => []GpuExclusive
<1>1. Init => GpuExclusive
  BY DEF Init, GpuExclusive, Leased, In, Fresh
<1>2. TypeOK /\ GpuExclusive /\ [Next]_vars => GpuExclusive'
  <2>1. PoolPower \subseteq Nat
    BY CallerAssumption
  <2> QED
    BY <2>1, LeaseStep, GpusStayExclusive
<1> QED
  BY <1>1, <1>2, TypeCorrect, PTL DEF Spec

\* What a set of jobs requires is what two parts of it require, together.
LEMMA DemandAdds ==
  ASSUME NEW S \in SUBSET Job, NEW T \in SUBSET (Job \ S), NEW r \in Resource
  PROVE  /\ Demand[S \cup T][r] = Demand[S][r] + Demand[T][r]
         /\ Demand[S][r] \in Nat /\ Demand[T][r] \in Nat
<1>1. Demand[S][r] \in Nat /\ Demand[T][r] \in Nat
  BY DemandAssumption
<1> QED
  BY <1>1, DemandAssumption

\* No jobs require nothing.
LEMMA NothingDemanded ==
  ASSUME NEW r \in Resource
  PROVE  Demand[{}][r] = 0
<1> DEFINE S == {}
           d == Demand[S][r]
<1>1. S \in SUBSET Job /\ S \in SUBSET (Job \ S) /\ S \cup S = S
  OBVIOUS
<1> HIDE DEF S
<1>2. \A T \in SUBSET (Job \ S) :
        Demand[S \cup T][r] = d + Demand[T][r] /\ d \in Nat
  BY <1>1, DemandAdds
<1>3. Demand[S \cup S][r] = d + d /\ d \in Nat
  BY <1>1, <1>2
<1>4. d = d + d /\ d \in Nat
  BY <1>1, <1>3
<1> HIDE DEF d
<1>5. d = 0
  BY <1>4
<1> QED
  BY <1>5 DEF d, S

\* A smaller set of jobs requires no more.
LEMMA DemandMonotone ==
  ASSUME NEW T \in SUBSET Job, NEW S \in SUBSET T, NEW r \in Resource
  PROVE  /\ Demand[S][r] \in Nat /\ Demand[T][r] \in Nat
         /\ Demand[S][r] <= Demand[T][r]
<1> DEFINE U == T \ S
<1>1. S \in SUBSET Job /\ U \in SUBSET (Job \ S) /\ S \cup U = T
  OBVIOUS
<1> HIDE DEF U
<1>2. /\ Demand[T][r] = Demand[S][r] + Demand[U][r]
      /\ Demand[S][r] \in Nat /\ Demand[U][r] \in Nat
  BY <1>1, DemandAdds
<1> QED
  BY <1>2

\* A smaller set of jobs draws no more power.
LEMMA PowerMonotone ==
  ASSUME NEW T \in SUBSET Job, NEW S \in SUBSET T
  PROVE  Power[S] \in Nat /\ Power[T] \in Nat /\ Power[S] <= Power[T]
<1>1. T \ S \in SUBSET (Job \ S) /\ S \cup (T \ S) = T
  OBVIOUS
<1>2. Power[T] = Power[S] + Power[T \ S]
  BY <1>1, PowerAssumption
<1>3. Power[S] \in Nat /\ Power[T \ S] \in Nat
  BY PowerAssumption
<1> QED
  BY <1>2, <1>3

\* What is leased besides the others of its worker was held to fit among them.
LEMMA CapacityStays ==
  ASSUME CapacityRespected,
         \/ OnlyKeepsLeases
         \/ \E j \in Job, w \in Worker : \E offer \in Offer[w], pool \in Nat,
              gpus \in SUBSET Gpu : AddsLease(j, w, offer, pool, gpus)
  PROVE  CapacityRespected'
<1> SUFFICES ASSUME NEW v \in Worker, LeasedOn(v)' # {}, NEW r \in Resource
             PROVE  \E offer \in Offer[v] : Demand[LeasedOn(v)'][r] <= offer[r]
  BY DEF CapacityRespected
<1>1. ASSUME LeasedOn(v)' \subseteq LeasedOn(v)
      PROVE  \E offer \in Offer[v] : Demand[LeasedOn(v)'][r] <= offer[r]
  <2>1. PICK offer \in Offer[v] : Demand[LeasedOn(v)][r] <= offer[r]
    BY <1>1 DEF CapacityRespected
  <2>2. LeasedOn(v) \in SUBSET Job
    BY DEF LeasedOn, Leased, In
  <2>3. offer[r] \in Nat
    BY CallerAssumption
  <2>4. /\ Demand[LeasedOn(v)'][r] \in Nat /\ Demand[LeasedOn(v)][r] \in Nat
        /\ Demand[LeasedOn(v)'][r] <= Demand[LeasedOn(v)][r]
    BY <1>1, <2>2, DemandMonotone
  <2> QED
    BY <2>1, <2>3, <2>4
<1>2. CASE OnlyKeepsLeases
  <2>1. LeasedOn(v)' \subseteq LeasedOn(v)
    BY <1>2 DEF OnlyKeepsLeases, LeasedOn
  <2> QED
    BY <1>1, <2>1
<1>3. ASSUME NEW j \in Job, NEW w \in Worker, NEW offer \in Offer[w], NEW pool \in Nat,
             NEW gpus \in SUBSET Gpu, AddsLease(j, w, offer, pool, gpus)
      PROVE  \E o \in Offer[v] : Demand[LeasedOn(v)'][r] <= o[r]
  <2>1. CASE v # w
    <3>1. LeasedOn(v)' \subseteq LeasedOn(v)
      BY <1>3, <2>1 DEF AddsLease, LeasedOn
    <3> QED
      BY <1>1, <3>1
  <2>2. CASE v = w
    <3>1. j \notin LeasedOn(v) /\ LeasedOn(v) \in SUBSET Job
      BY <1>3 DEF AddsLease, LeasedOn, Leased, Queued, In
    <3>2. LeasedOn(v)' = LeasedOn(v) \cup {j}
      BY <1>3, <2>2 DEF AddsLease, LeasedOn
    <3>3. Demand[LeasedOn(v)'][r] = Demand[LeasedOn(v)][r] + Demand[{j}][r]
      BY <3>1, <3>2, DemandAssumption
    <3>4. /\ Demand[LeasedOn(v)][r] \in Nat /\ Demand[{j}][r] \in Nat
          /\ \A o \in Offer[v] : o[r] \in Nat
      BY <3>1, DemandAssumption, CallerAssumption
    <3>5. CASE r = "slots" \/ Demand[{j}][r] > 0
      <4>1. offer[r] - Demand[LeasedOn(v)][r] >= Demand[{j}][r]
        BY <1>3, <2>2, <3>5 DEF AddsLease, Fits
      <4> QED
        BY <2>2, <3>3, <3>4, <4>1
    <3>6. CASE r # "slots" /\ Demand[{j}][r] = 0
      <4>1. Demand[LeasedOn(v)'][r] = Demand[LeasedOn(v)][r]
        BY <3>3, <3>4, <3>6
      <4>2. CASE LeasedOn(v) # {}
        BY <4>1, <4>2 DEF CapacityRespected
      <4>3. CASE LeasedOn(v) = {}
        <5>1. Demand[{}][r] = 0
          BY NothingDemanded
        <5> QED
          BY <2>2, <3>4, <4>1, <4>3, <5>1
      <4> QED
        BY <4>2, <4>3
    <3> QED
      BY <3>4, <3>5, <3>6
  <2> QED
    BY <2>1, <2>2
<1> QED
  BY <1>2, <1>3

\* What a worker's leased jobs require of a resource stays within what the
\* worker was observed to have of it, for every mix of requirements.
THEOREM WorkersNeverOversubscribed == Spec => []CapacityRespected
<1>1. Init => CapacityRespected
  BY DEF Init, CapacityRespected, LeasedOn, Leased, In, Fresh
<1>2. TypeOK /\ CapacityRespected /\ [Next]_vars => CapacityRespected'
  <2>1. PoolPower \subseteq Nat
    BY CallerAssumption
  <2> QED
    BY <2>1, LeaseStep, CapacityStays
<1> QED
  BY <1>1, <1>2, TypeCorrect, PTL DEF Spec

\* The leased jobs of all workers together stay within the largest power budget.
THEOREM PowerNeverOversubscribed == Spec => []PowerRespected
<1>1. Init => PowerRespected
  BY DEF Init, PowerRespected, Leased, In, Fresh
<1>2. TypeOK /\ PowerRespected /\ [Next]_vars => PowerRespected'
  <2> SUFFICES ASSUME TypeOK, PowerRespected, [Next]_vars, Leased' # {}
               PROVE  \E pool \in PoolPower : Power[Leased'] <= pool
    BY DEF PowerRespected
  <2>1. CASE OnlyKeepsLeases
    <3>1. Leased' \subseteq Leased /\ Leased \in SUBSET Job
      BY <2>1 DEF OnlyKeepsLeases, Leased, In
    <3>2. PICK pool \in PoolPower : Power[Leased] <= pool
      BY <3>1 DEF PowerRespected
    <3>3. /\ Power[Leased'] \in Nat /\ Power[Leased] \in Nat /\ pool \in Nat
          /\ Power[Leased'] <= Power[Leased]
      BY <3>1, PowerMonotone, CallerAssumption
    <3> QED
      BY <3>2, <3>3
  <2>2. ASSUME NEW j \in Job, NEW w \in Worker, NEW offer \in Offer[w], NEW pool \in PoolPower,
               NEW gpus \in SUBSET Gpu, AddsLease(j, w, offer, pool, gpus)
        PROVE  \E p \in PoolPower : Power[Leased'] <= p
    <3>1. j \notin Leased /\ Leased \in SUBSET Job
      BY <2>2 DEF AddsLease, Leased, Queued, In
    <3>2. Power[Leased'] = Power[Leased] + Power[{j}]
      BY <2>2, <3>1, PowerAssumption DEF AddsLease
    <3> QED
      BY <2>2, <3>2 DEF AddsLease
  <2> QED
    BY <2>1, <2>2, LeaseStep
<1> QED
  BY <1>1, <1>2, TypeCorrect, PTL DEF Spec

-----------------------------------------------------------------------------
(* What a step may do to the record of a job. *)

\* A finished job is final, an age once set stays, and time goes on by one.
LEMMA RecordStep ==
  ASSUME TypeOK, [Next]_vars, NEW j \in Job
  PROVE  /\ jobs[j].state \in {"completed", "failed"} => jobs'[j] = jobs[j]
         /\ jobs[j].queuedAt # None => jobs'[j].queuedAt = jobs[j].queuedAt
         /\ now' \in {now, now + 1}
<1> DEFINE Goal == /\ jobs[j].state \in {"completed", "failed"} => jobs'[j] = jobs[j]
                   /\ jobs[j].queuedAt # None => jobs'[j].queuedAt = jobs[j].queuedAt
                   /\ now' \in {now, now + 1}
<1> USE DEF Leased, In
<1>1. ASSUME NEW k \in Job, Submit(k) PROVE Goal
  BY <1>1 DEF Submit, Fresh, TypeOK, LeaseFields
<1>2. CASE RecoverExpired
  BY <1>2 DEF RecoverExpired, Fresh, TypeOK, Expired
<1>3. ASSUME NEW w \in Worker, NEW offer \in Offer[w], NEW pool \in PoolPower,
             NEW wanted \in Wanted, NEW gpus \in SUBSET Gpu,
             NEW seconds \in LeaseSeconds,
             ChooseOnWorker(w, offer, pool, wanted, gpus, seconds)
      PROVE  Goal
  <2>1. now' = now
    BY <1>3 DEF ChooseOnWorker
  <2>2. /\ j \notin Queued => Stamped(wanted)[j] = jobs[j]
        /\ jobs[j].queuedAt # None => Stamped(wanted)[j].queuedAt = jobs[j].queuedAt
    BY StampedType DEF Stamped, QueuedAt
  <2>3. CASE jobs' = Stamped(wanted)
    BY <2>1, <2>2, <2>3 DEF Queued
  <2>4. ASSUME NEW k \in Candidates(w, offer, pool, wanted, gpus),
               jobs' = [Stamped(wanted) EXCEPT ![k] = Lease(k, w, seconds, gpus)]
        PROVE  Goal
    <3>1. k \in Queued
      BY DEF Candidates
    <3>2. CASE k = j
      <4>1. jobs'[j] = Lease(j, w, seconds, gpus)
        BY <2>4, <3>2, StampedType
      <4> QED
        BY <2>1, <3>1, <3>2, <4>1 DEF Lease, QueuedAt, Queued
    <3>3. CASE k # j
      <4>1. jobs'[j] = Stamped(wanted)[j]
        BY <2>4, <3>3 DEF Stamped
      <4> QED
        BY <2>1, <2>2, <4>1 DEF Queued
    <3> QED
      BY <3>2, <3>3
  <2> QED
    BY <1>3, <2>3, <2>4 DEF ChooseOnWorker
<1>4. ASSUME NEW k \in Job, NEW w \in Worker, NEW state \in {"completed", "queued", "failed"},
             Release(k, w, state)
      PROVE  Goal
  BY <1>4 DEF Release, Fresh, TypeOK, LeasedOn
<1>5. CASE Tick
  BY <1>5 DEF Tick
<1>6. CASE UNCHANGED vars
  BY <1>6 DEF vars
<1> QED
  BY <1>1, <1>2, <1>3, <1>4, <1>5, <1>6 DEF Next, Choosing, Releasing, Complete, Requeue, Fail

\* The time from which a job's age is counted never moves, so that ageing is
\* not undone by a lease that expires or is given back.
THEOREM AgeIsKept == Spec => WaitingTimeKept
<1> DEFINE Act == \A j \in Job :
                    jobs[j].queuedAt # None => jobs'[j].queuedAt = jobs[j].queuedAt
<1>1. TypeOK /\ [Next]_vars => [Act]_vars
  BY RecordStep
<1> QED
  BY <1>1, TypeCorrect, PTL DEF Spec, WaitingTimeKept

-----------------------------------------------------------------------------
\* For callers that ask for any job, a longer waiting, no less important and no
\* harder job is never passed over, for every assignment of priorities and
\* requirements: a fitting younger job implies that the older one fits too, and
\* whole ageing intervals never favour the younger.
LEMMA OlderComesFirst ==
  ASSUME TypeOK, NEW j \in Job, NEW k \in Job,
         QueuedAt(j) < QueuedAt(k), Priority[j] >= Priority[k]
  PROVE  ~Before(k, j)
<1> DEFINE a == now - QueuedAt(j)
           b == now - QueuedAt(k)
<1>1. a \in Nat /\ b \in Nat /\ a > b
  <2>1. QueuedAt(j) \in 0..now /\ QueuedAt(k) \in 0..now /\ now \in Nat
    BY QueuedAtType, TimeAssumption DEF TypeOK
  <2> QED
    BY <2>1
<1>2. Priority[j] \in Int /\ Priority[k] \in Int /\ AgingInterval \in Nat \ {0}
  BY TimeAssumption
<1> HIDE DEF a, b
<1>3. /\ a \div AgingInterval \in Int /\ b \div AgingInterval \in Int
      /\ a \div AgingInterval >= b \div AgingInterval
  BY <1>1, <1>2
<1>4. Effective(j) = Priority[j] + a \div AgingInterval
  BY DEF Effective, a
<1>5. Effective(k) = Priority[k] + b \div AgingInterval
  BY DEF Effective, b
<1>6. /\ Effective(j) \in Int /\ Effective(k) \in Int
      /\ Effective(j) >= Effective(k)
  BY <1>2, <1>3, <1>4, <1>5
<1>7. QueuedAt(j) \in Int /\ QueuedAt(k) \in Int
  BY QueuedAtType DEF TypeOK
<1> QED
  BY <1>6, <1>7 DEF Before

\* What fits a job fits one that is no harder.
LEMMA NoHarderFits ==
  ASSUME NEW j \in Job, NEW k \in Job, NoHarderThan(j, k),
         NEW S \in SUBSET Job, NEW offer \in [Resource -> Nat], Fits(k, offer, S)
  PROVE  Fits(j, offer, S)
<1> SUFFICES ASSUME NEW r \in Resource, r = "slots" \/ Demand[{j}][r] > 0
             PROVE  offer[r] - Demand[S][r] >= Demand[{j}][r]
  BY DEF Fits
<1>1. /\ Demand[S][r] \in Nat /\ Demand[{j}][r] \in Nat
      /\ Demand[{k}][r] \in Nat /\ offer[r] \in Nat
  BY DemandAssumption
<1>2. Demand[{j}][r] <= Demand[{k}][r]
  BY DEF NoHarderThan
<1>3. r = "slots" \/ Demand[{k}][r] > 0
  BY <1>1, <1>2
<1>4. offer[r] - Demand[S][r] >= Demand[{k}][r]
  BY <1>3 DEF Fits
<1> QED
  BY <1>1, <1>2, <1>4

\* A call that leases the first of a set S never overtakes another job of S.
LEMMA FirstIsNotOvertaking ==
  ASSUME TypeOK, NEW wanted, NEW w, NEW seconds, NEW gpus, NEW S \in SUBSET Queued, NEW l \in S,
         First(l, S), jobs' = [Stamped(wanted) EXCEPT ![l] = Lease(l, w, seconds, gpus)],
         NEW j \in S, NEW k \in Queued, Overtaken(j, k)
  PROVE  FALSE
<1>1. j \in Job /\ k \in Job /\ l \in Job /\ jobs[k].state = "queued"
  BY DEF Queued, In
<1>2. jobs'[k].state = "leased" /\ jobs'[j].state = "queued"
  BY DEF Overtaken
<1>3. l = k
  BY <1>1, <1>2, StampedType
<1>4. Before(k, j)
  BY <1>2, <1>3 DEF First
<1> QED
  BY <1>1, <1>4, OlderComesFirst DEF Overtaken

\* A call that leases nothing overtakes nobody.
LEMMA UnleasingInOrder ==
  ASSUME OnlyKeepsLeases, NEW j \in Queued, NEW k \in Queued
  PROVE  ~Overtaken(j, k)
BY DEF OnlyKeepsLeases, Overtaken, Queued, Leased, In

\* choose_on_worker for any job: a fitting younger job implies that the older one fits.
LEMMA ChoiceInOrder ==
  ASSUME TypeOK, NEW w \in Worker, NEW offer \in Offer[w], NEW pool \in Nat, NEW gpus,
         NEW seconds, ChooseOnWorker(w, offer, pool, None, gpus, seconds)
  PROVE  InQueueOrder
<1> DEFINE S == Candidates(w, offer, pool, None, gpus)
<1> SUFFICES ASSUME NEW j \in Queued, NEW k \in Queued, Overtaken(j, k), NoHarderThan(j, k)
             PROVE  FALSE
  BY DEF InQueueOrder
<1>1. j \in Job /\ k \in Job
  BY DEF Queued, In
<1>2. CASE jobs' = Stamped(None)
  BY <1>2, StampKeeps, UnleasingInOrder
<1>3. ASSUME NEW l \in S, First(l, S),
             jobs' = [Stamped(None) EXCEPT ![l] = Lease(l, w, seconds, gpus)]
      PROVE  FALSE
  <2>1. l = k
    BY <1>1, <1>3, StampedType DEF Overtaken, Queued, In
  <2>2. /\ GpusOn(w) \cap gpus = {}
        /\ k \in Supports[w]
        /\ pool - Power[Leased] >= Power[{k}]
        /\ Fits(k, offer, LeasedOn(w))
    BY <2>1 DEF Candidates
  <2>3. pool - Power[Leased] >= Power[{j}]
    <3>1. Power[Leased] \in Nat /\ Power[{j}] \in Nat /\ Power[{k}] \in Nat
      BY <1>1, PowerAssumption DEF Leased, In
    <3>2. Power[{j}] <= Power[{k}]
      BY DEF NoHarderThan
    <3> QED
      BY <2>2, <3>1, <3>2
  <2>4. Fits(j, offer, LeasedOn(w))
    <3>1. LeasedOn(w) \in SUBSET Job /\ offer \in [Resource -> Nat]
      BY CallerAssumption DEF LeasedOn, Leased, In
    <3> QED
      BY <1>1, <2>2, <3>1, NoHarderFits
  <2>5. j \in S
    BY <2>2, <2>3, <2>4 DEF Candidates, Matches, NoHarderThan
  <2>6. S \in SUBSET Queued
    BY DEF Candidates
  <2> QED
    BY <1>3, <2>5, <2>6, FirstIsNotOvertaking
<1> QED
  BY <1>2, <1>3 DEF ChooseOnWorker

\* For callers that ask for any job (choose_on_worker with no wanted id), a job that
\* fits is never passed over for one that is younger, no more important and no
\* easier, whatever the ageing interval and the offers.
THEOREM NeverOvertaken ==
  ASSUME Wanted = {None}
  PROVE  Spec => NoOvertaking
<1>1. TypeOK /\ [Next]_vars => [InQueueOrder]_vars
  <2> SUFFICES ASSUME TypeOK, [Next]_vars PROVE InQueueOrder
    OBVIOUS
  <2>1. CASE Unleasing
    BY <2>1, UnleasingKeeps, UnleasingInOrder DEF InQueueOrder
  <2>2. ASSUME NEW w \in Worker, NEW offer \in Offer[w], NEW pool \in PoolPower, NEW wanted \in Wanted,
               NEW gpus \in SUBSET Gpu, NEW seconds \in LeaseSeconds,
               ChooseOnWorker(w, offer, pool, wanted, gpus, seconds)
        PROVE  InQueueOrder
    <3>1. pool \in Nat /\ wanted = None
      BY CallerAssumption
    <3> QED
      BY <2>2, <3>1, ChoiceInOrder
  <2> QED
    BY <2>1, <2>2, CallCases
<1> QED
  BY <1>1, TypeCorrect, PTL DEF Spec, NoOvertaking

-----------------------------------------------------------------------------
(* Refinement of JobLifecycle. *)

StateOf == [j \in Job |-> jobs[j].state]
HolderOf == [j \in Job |-> jobs[j].owner]

\* A submitted job is accepted.
LEMMA SubmitIsAccept ==
  ASSUME TypeOK, NEW j \in Job, Submit(j)
  PROVE  Lifecycle!Accept(j)
BY DEF TypeOK, LeaseFields, JobRecord, Submit, Fresh, Lifecycle!Accept

\* Recovering expired leases takes back what they hold.
LEMMA RecoverIsTakeBack ==
  ASSUME TypeOK, RecoverExpired, NEW S \in SUBSET Job, S = Expired
  PROVE  Lifecycle!TakeBack(S)
<1>1. \A j \in S : jobs[j].state = "leased"
  BY DEF Expired, Leased, In
<1>2. \A j \in Job :
        /\ jobs'[j].state = IF j \in S THEN "queued" ELSE jobs[j].state
        /\ jobs'[j].owner = IF j \in S THEN None ELSE jobs[j].owner
  BY DEF RecoverExpired, Fresh
<1> QED
  BY <1>1, <1>2 DEF Lifecycle!TakeBack

\* A lease is a grant to its owner.
LEMMA LeaseIsGrant ==
  ASSUME TypeOK, NEW wanted, NEW w \in Worker, NEW seconds, NEW gpus, NEW j \in Queued,
         jobs' = [Stamped(wanted) EXCEPT ![j] = Lease(j, w, seconds, gpus)]
  PROVE  Lifecycle!Grant(j, w)
<1>1. j \in Job /\ jobs[j].state = "queued"
  BY DEF Queued, In
<1>2. jobs'[j] = Lease(j, w, seconds, gpus)
  BY <1>1, StampedType
<1>3. jobs'[j].state = "leased" /\ jobs'[j].owner = w
  BY <1>2 DEF Lease
<1>4. \A k \in Job \ {j} : jobs'[k].state = jobs[k].state /\ jobs'[k].owner = jobs[k].owner
  BY StampedType
<1>5. [k \in Job |-> jobs'[k].state] = [StateOf EXCEPT ![j] = "leased"]
  BY <1>1, <1>3, <1>4 DEF StateOf
<1>6. [k \in Job |-> jobs'[k].owner] = [HolderOf EXCEPT ![j] = w]
  BY <1>1, <1>3, <1>4 DEF HolderOf
<1> QED
  BY <1>1, <1>5, <1>6 DEF Lifecycle!Grant, StateOf, HolderOf

\* Stamping the age of queued jobs is not seen through the mapping.
LEMMA StampIsInvisible ==
  ASSUME TypeOK, NEW wanted, jobs' = Stamped(wanted)
  PROVE  UNCHANGED Lifecycle!vars
<1>1. \A j \in Job : jobs'[j].state = jobs[j].state /\ jobs'[j].owner = jobs[j].owner
  BY StampedType
<1> QED
  BY <1>1 DEF Lifecycle!vars

\* complete, fail and requeue by the owner end its hold.
LEMMA ReleaseIsLetGo ==
  ASSUME TypeOK, NEW j \in Job, NEW w \in Worker,
         NEW state \in {"completed", "queued", "failed"}, Release(j, w, state)
  PROVE  IF state = "queued" THEN Lifecycle!TakeBack({j}) ELSE Lifecycle!Finish(j, w, state)
<1>1. jobs[j].state = "leased" /\ jobs[j].owner = w
  BY DEF Release, LeasedOn, Leased, In
<1>2. jobs' = [jobs EXCEPT ![j] = Fresh(state, jobs[j].queuedAt)]
  BY DEF Release
<1>3. \A k \in Job :
        /\ jobs'[k].state = IF k = j THEN state ELSE jobs[k].state
        /\ jobs'[k].owner = IF k = j THEN None ELSE jobs[k].owner
  BY <1>2 DEF TypeOK, Fresh
<1> QED
  BY <1>1, <1>3 DEF Lifecycle!TakeBack, Lifecycle!Finish

\* The calls that lease nothing are steps of the lifecycle or invisible in it.
LEMMA UnleasingIsLifecycle ==
  ASSUME TypeOK, Unleasing
  PROVE  Lifecycle!Next \/ UNCHANGED Lifecycle!vars
<1>1. ASSUME NEW j \in Job, Submit(j) PROVE Lifecycle!Next
  BY <1>1, SubmitIsAccept DEF Lifecycle!Next
<1>2. CASE RecoverExpired
  <2>1. PICK S \in SUBSET Job : S = Expired
    BY DEF Expired, Leased, In
  <2>2. Lifecycle!TakeBack(S)
    BY <1>2, <2>1, RecoverIsTakeBack
  <2> QED
    BY <2>2 DEF Lifecycle!Next
<1>3. ASSUME NEW j \in Job, NEW w \in Worker, NEW state \in {"completed", "queued", "failed"},
             Release(j, w, state)
      PROVE  Lifecycle!Next
  <2>1. CASE state = "queued"
    BY <1>3, <2>1, ReleaseIsLetGo DEF Lifecycle!Next
  <2>2. CASE state # "queued"
    BY <1>3, <2>2, ReleaseIsLetGo DEF Lifecycle!Next
  <2> QED
    BY <2>1, <2>2
<1>4. CASE Tick
  BY <1>4 DEF Tick, Lifecycle!vars
<1>5. CASE UNCHANGED vars
  BY <1>5 DEF vars, Lifecycle!vars
<1> QED
  BY <1>1, <1>2, <1>3, <1>4, <1>5 DEF Unleasing

LEMMA ChoiceIsLifecycle ==
  ASSUME TypeOK, NEW w \in Worker, NEW offer, NEW pool, NEW wanted, NEW gpus, NEW seconds,
         ChooseOnWorker(w, offer, pool, wanted, gpus, seconds)
  PROVE  Lifecycle!Next \/ UNCHANGED Lifecycle!vars
<1>1. CASE jobs' = Stamped(wanted)
  BY <1>1, StampIsInvisible
<1>2. ASSUME NEW j \in Candidates(w, offer, pool, wanted, gpus),
             jobs' = [Stamped(wanted) EXCEPT ![j] = Lease(j, w, seconds, gpus)]
      PROVE  Lifecycle!Next
  <2>1. j \in Queued /\ j \in Job
    BY DEF Candidates, Queued, In
  <2>2. Lifecycle!Grant(j, w)
    BY <1>2, <2>1, LeaseIsGrant
  <2> QED
    BY <2>1, <2>2 DEF Lifecycle!Next
<1> QED
  BY <1>1, <1>2 DEF ChooseOnWorker

\* The scheduler implements the lifecycle: nobody but its one holder finishes a
\* job, a finished job stays finished, and only queued jobs are leased.
THEOREM LifecycleImplemented == Spec => ImplementsLifecycle
<1>1. Init => Lifecycle!Init
  BY DEF Init, Lifecycle!Init, Fresh
<1>2. TypeOK /\ [Next]_vars => [Lifecycle!Next]_(Lifecycle!vars)
  BY CallCases, UnleasingIsLifecycle, ChoiceIsLifecycle
<1> QED
  BY <1>1, <1>2, TypeCorrect, PTL DEF Spec, ImplementsLifecycle, Lifecycle!Spec

-----------------------------------------------------------------------------
(* StageCoordinator                                                        *)

\* The scheduler's file has the fields of a scheduler, as old as it may be.
SavedFields ==
  \A j \in Job :
    IF dbJobs[j].state = "leased"
      THEN dbJobs[j].owner # None /\ dbJobs[j].until \in 0..MaxTime /\ dbJobs[j].queuedAt \in 0..now
      ELSE /\ dbJobs[j].owner = None /\ dbJobs[j].until = None /\ dbJobs[j].gpus = {}
           /\ dbJobs[j].queuedAt \in 0..now \cup {None}
           /\ dbJobs[j].state = "absent" => dbJobs[j].queuedAt = None
MemoryAhead ==
  \A j \in Job :
    /\ dbJobs[j].state # "absent" => jobs[j].state # "absent"
    /\ dbJobs[j].state = "completed" => jobs[j].state = "completed"
RowsCurrent ==
  \A j \in Job \ lost : jobs[j].state # "absent" =>
    /\ dbStages[j] # None /\ stages[j] = dbStages[j]
    /\ jobs[j].state = "completed" => dbStages[j].output # None

CoordinatorInv == CoordinatorTypeOK /\ SavedFields /\ MemoryAhead /\ RowsCurrent

-----------------------------------------------------------------------------
\* Calls after which the same jobs are known and the same are completed.
StatesKept ==
  \A k \in Job :
    /\ jobs'[k].state = "absent" <=> jobs[k].state = "absent"
    /\ jobs'[k].state = "completed" <=> jobs[k].state = "completed"

LEMMA QuietStep ==
  ASSUME CoordinatorInv, TypeOK', now <= now', now' \in Nat, StatesKept, UNCHANGED <<stages, stored>>
  PROVE  CoordinatorInv'
<1>1. CoordinatorTypeOK' BY DEF CoordinatorInv, CoordinatorTypeOK, StatesKept, stored
<1>2. SavedFields'
  <2>1. now \in Nat BY TimeAssumption DEF CoordinatorInv, CoordinatorTypeOK, TypeOK
  <2>2. 0..now \subseteq 0..now' BY <2>1
  <2> QED BY <2>2 DEF CoordinatorInv, SavedFields, stored
<1>3. MemoryAhead' /\ RowsCurrent'
  BY DEF CoordinatorInv, MemoryAhead, RowsCurrent, StatesKept, stored
<1> QED BY <1>1, <1>2, <1>3 DEF CoordinatorInv

LEMMA LeaseStageStep ==
  ASSUME CoordinatorInv, NEW w \in Worker, LeaseStage(w)
  PROVE  CoordinatorInv' /\ StatesKept /\ UNCHANGED stored
<1> USE DEF CoordinatorInv, CoordinatorTypeOK
<1>1. PICK offer \in Offer[w], pool \in PoolPower, seconds \in LeaseSeconds :
        ChooseOnWorker(w, offer, pool, None, {}, seconds)
  BY DEF LeaseStage
<1>2. TypeOK' /\ now' = now BY <1>1, ChooseType DEF ChooseOnWorker
<1>3. \/ jobs' = Stamped(None)
      \/ \E k \in Queued : jobs' = [Stamped(None) EXCEPT ![k] = Lease(k, w, seconds, {})]
  BY <1>1 DEF ChooseOnWorker, Candidates
<1>4. StatesKept
  <2>1. CASE jobs' = Stamped(None) BY <2>1, StampedType DEF StatesKept
  <2>2. ASSUME NEW k \in Queued, jobs' = [Stamped(None) EXCEPT ![k] = Lease(k, w, seconds, {})]
        PROVE  StatesKept
    <3>1. k \in Job /\ jobs[k].state = "queued" BY DEF Queued, In
    <3>2. jobs'[k].state = "leased" BY <2>2, <3>1, StampedType DEF Lease
    <3>3. \A i \in Job : i # k => jobs'[i].state = jobs[i].state BY <2>2, StampedType
    <3> QED BY <3>1, <3>2, <3>3 DEF StatesKept
  <2> QED BY <1>3, <2>1, <2>2
<1>5. now \in Nat BY TimeAssumption DEF TypeOK
<1> QED BY <1>2, <1>4, <1>5, QuietStep DEF LeaseStage

LEMMA UnwindStep ==
  ASSUME CoordinatorInv, Unwind
  PROVE  CoordinatorInv' /\ StatesKept /\ UNCHANGED stored
<1> USE DEF CoordinatorInv, CoordinatorTypeOK
<1>1. TypeOK' /\ now' = now
  <2>1. CASE RecoverExpired BY <2>1, RecoverType DEF RecoverExpired
  <2>2. ASSUME NEW j \in Job, NEW w \in Worker, Requeue(j, w) \/ Fail(j, w)
        PROVE  TypeOK' /\ now' = now
    BY <2>2, ReleaseType DEF Requeue, Fail, Release
  <2> QED BY <2>1, <2>2 DEF Unwind
<1>2. StatesKept
  BY DEF Unwind, RecoverExpired, Expired, Requeue, Fail, Release, Fresh, LeasedOn, Leased, In,
         TypeOK, StatesKept
<1>3. now \in Nat BY TimeAssumption DEF TypeOK
<1> QED BY <1>1, <1>2, <1>3, QuietStep DEF Unwind

LEMMA TickStep ==
  ASSUME CoordinatorInv, Tick, UNCHANGED <<stages, stored>>
  PROVE  CoordinatorInv' /\ StatesKept
<1> USE DEF CoordinatorInv, CoordinatorTypeOK
<1>1. TypeOK' /\ StatesKept BY TickType DEF Tick, StatesKept
<1>2. now \in Nat /\ now' = now + 1 BY TimeAssumption DEF TypeOK, Tick
<1>3. now <= now' /\ now' \in Nat BY <1>2
<1> QED BY <1>1, <1>3, QuietStep

\* What a call of the coordinator does to the handoff rows.
LEMMA SavedStage ==
  ASSUME CoordinatorTypeOK, NEW j \in Job, NEW row \in StageJob, SaveStage(j, row)
  PROVE  /\ dbStages' \in [Job -> StageJob \cup {None}] /\ lost' \subseteq Job
         /\ lost \subseteq lost' /\ (j \notin lost' => dbStages'[j] = row)
         /\ \A k \in Job : k # j => dbStages'[k] = dbStages[k] /\ (k \in lost' <=> k \in lost)
BY DEF CoordinatorTypeOK, SaveStage

LEMMA SubmitStageStep ==
  ASSUME CoordinatorInv, NEW j \in Job, NEW hash \in Hash \cup {None}, SubmitStage(j, hash)
  PROVE  CoordinatorInv'
<1> DEFINE row == Stage(hash, None)
<1> USE DEF CoordinatorInv
<1>1. row \in StageJob /\ row # None BY HandoffAssumption DEF Stage, StageJob
<1>2. /\ TypeOK' /\ now' = now /\ jobs[j].state = "absent"
      /\ jobs'[j].state = "queued" /\ \A k \in Job : k # j => jobs'[k] = jobs[k]
  BY SubmitType DEF SubmitStage, Submit, Fresh, CoordinatorTypeOK, TypeOK
<1>3. stages' = [stages EXCEPT ![j] = row] /\ dbJobs' = dbJobs BY DEF SubmitStage
<1>4. SaveStage(j, row) BY DEF SubmitStage
<1> HIDE DEF row
<1>5. /\ dbStages' \in [Job -> StageJob \cup {None}] /\ lost' \subseteq Job
      /\ lost \subseteq lost' /\ (j \notin lost' => dbStages'[j] = row)
      /\ \A k \in Job : k # j => dbStages'[k] = dbStages[k] /\ (k \in lost' <=> k \in lost)
  BY <1>1, <1>4, SavedStage
<1>6. /\ stages' \in [Job -> StageJob \cup {None}] /\ stages'[j] = row
      /\ \A k \in Job : k # j => stages'[k] = stages[k]
  BY <1>1, <1>3 DEF CoordinatorTypeOK
<1>7. CoordinatorTypeOK' BY <1>1, <1>2, <1>3, <1>5, <1>6 DEF CoordinatorTypeOK
<1>8. SavedFields' BY <1>2, <1>3 DEF SavedFields
<1>9. MemoryAhead' BY <1>2, <1>3 DEF MemoryAhead
<1>10. RowsCurrent' BY <1>1, <1>2, <1>5, <1>6 DEF RowsCurrent
<1> QED BY <1>7, <1>8, <1>9, <1>10

LEMMA CompleteStageStep ==
  ASSUME CoordinatorInv, NEW j \in Job, NEW w \in Worker, NEW output \in Output,
         CompleteStage(j, w, output)
  PROVE  CoordinatorInv'
<1> DEFINE row == [stages[j] EXCEPT !.output = output]
<1> USE DEF CoordinatorInv
<1>1. row \in StageJob /\ row # None /\ row.output # None
  BY HandoffAssumption DEF CompleteStage, CoordinatorTypeOK, StageJob
<1>2. /\ TypeOK' /\ now' = now /\ jobs[j].state = "leased"
      /\ jobs'[j].state = "completed" /\ \A k \in Job : k # j => jobs'[k] = jobs[k]
  BY ReleaseType DEF CompleteStage, Complete, Release, LeasedOn, Leased, In, Fresh,
                     CoordinatorTypeOK, TypeOK
<1>3. stages' = [stages EXCEPT ![j] = row] /\ dbJobs' = dbJobs
  BY DEF CompleteStage, CoordinatorTypeOK
<1>4. /\ stages' \in [Job -> StageJob \cup {None}] /\ stages'[j] = row
      /\ \A k \in Job : k # j => stages'[k] = stages[k]
  BY <1>1, <1>3 DEF CoordinatorTypeOK
<1>5. SaveStage(j, row) BY <1>4 DEF CompleteStage
<1> HIDE DEF row
<1>6. /\ dbStages' \in [Job -> StageJob \cup {None}] /\ lost' \subseteq Job
      /\ lost \subseteq lost' /\ (j \notin lost' => dbStages'[j] = row)
      /\ \A k \in Job : k # j => dbStages'[k] = dbStages[k] /\ (k \in lost' <=> k \in lost)
  BY <1>1, <1>5, SavedStage
<1>7. CoordinatorTypeOK' BY <1>1, <1>2, <1>3, <1>4, <1>6 DEF CoordinatorTypeOK
<1>8. SavedFields' BY <1>2, <1>3 DEF SavedFields
<1>9. MemoryAhead' BY <1>2, <1>3 DEF MemoryAhead
<1>10. RowsCurrent' BY <1>1, <1>2, <1>4, <1>6 DEF RowsCurrent
<1> QED BY <1>7, <1>8, <1>9, <1>10

LEMMA SaveSchedulerStep ==
  ASSUME CoordinatorInv, SaveScheduler
  PROVE  CoordinatorInv'
BY DEF CoordinatorInv, CoordinatorTypeOK, TypeOK, LeaseFields, SavedFields, MemoryAhead,
       RowsCurrent, SaveScheduler

LEMMA RestartStep ==
  ASSUME CoordinatorInv, Restart
  PROVE  CoordinatorInv'
<1> USE DEF CoordinatorInv
<1>1. jobs' = dbJobs /\ UNCHANGED <<now, dbJobs, dbStages, lost>> BY DEF Restart, stored
<1>2. TypeOK' BY <1>1 DEF CoordinatorTypeOK, TypeOK, LeaseFields, SavedFields
<1>3. Stage(None, None) \in StageJob /\ Stage(None, None) # None
  BY HandoffAssumption DEF Stage, StageJob
<1>4. /\ stages' \in [Job -> StageJob \cup {None}]
      /\ \A j \in Job : stages'[j] = Overlay(j)
  BY <1>3 DEF Restart, Overlay, CoordinatorTypeOK
<1>5. \A j \in Job : stages'[j] = None <=> jobs'[j].state = "absent"
  BY <1>1, <1>3, <1>4 DEF Overlay
<1>6. CoordinatorTypeOK' BY <1>1, <1>2, <1>4, <1>5 DEF CoordinatorTypeOK
<1>7. RowsCurrent'
  BY <1>1, <1>4 DEF RowsCurrent, MemoryAhead, Overlay
<1>8. SavedFields' /\ MemoryAhead' BY <1>1 DEF SavedFields, MemoryAhead
<1> QED BY <1>6, <1>7, <1>8

-----------------------------------------------------------------------------
(* The theorems                                                            *)

LEMMA CoordinatorInit_Inv == CoordinatorInit => CoordinatorInv
<1> SUFFICES ASSUME CoordinatorInit PROVE CoordinatorInv OBVIOUS
<1>1. TypeOK /\ \A j \in Job : jobs[j].state = "absent"
  BY InitType DEF CoordinatorInit, Init, Fresh
<1> QED
  BY <1>1 DEF CoordinatorInit, CoordinatorInv, CoordinatorTypeOK, SavedFields, MemoryAhead,
              RowsCurrent, TypeOK, LeaseFields

LEMMA CoordinatorStep_Inv == CoordinatorInv /\ [CoordinatorNext]_cvars => CoordinatorInv'
<1> SUFFICES ASSUME CoordinatorInv, [CoordinatorNext]_cvars PROVE CoordinatorInv' OBVIOUS
<1>1. CASE UNCHANGED cvars
  BY <1>1 DEF cvars, CoordinatorInv, CoordinatorTypeOK, TypeOK, LeaseFields, SavedFields,
              MemoryAhead, RowsCurrent
<1> QED
  BY <1>1, LeaseStageStep, UnwindStep, TickStep, SubmitStageStep, CompleteStageStep,
     SaveSchedulerStep, RestartStep DEF CoordinatorNext

LEMMA CoordinatorInvariant == CoordinatorSpec => []CoordinatorInv
BY CoordinatorInit_Inv, CoordinatorStep_Inv, PTL DEF CoordinatorSpec

\* Memory and both files are well formed after every failed write and restart.
THEOREM CoordinatorTypeCorrect == CoordinatorSpec => []CoordinatorTypeOK
BY CoordinatorInvariant, PTL DEF CoordinatorInv

\* A stage the durable scheduler has as completed has its durable output, however the
\* two files were saved, unless that write raised.
THEOREM OutputsAreDurable == CoordinatorSpec => []CompletedHasOutput
<1>1. CoordinatorInv => CompletedHasOutput
  BY DEF CoordinatorInv, MemoryAhead, RowsCurrent, CompletedHasOutput
<1> QED BY <1>1, CoordinatorInvariant, PTL

\* No call, save or restart changes the handoff of a durably completed stage or redoes
\* it, nor the source hash of a stage the durable scheduler knows.
THEOREM HandoffsAreKept == CoordinatorSpec => HandoffKept
<1> DEFINE Kept(j) ==
             /\ dbJobs[j].state = "completed" =>
                  /\ dbJobs'[j].state = "completed"
                  /\ jobs'[j].state \notin {"queued", "leased"}
                  /\ dbStages'[j] = dbStages[j]
             /\ Known(j) /\ j \notin lost' => dbStages'[j].hash = dbStages[j].hash
<1>1. CoordinatorInv /\ [CoordinatorNext]_cvars => [\A j \in Job : Kept(j)]_cvars
  <2> SUFFICES ASSUME CoordinatorInv, CoordinatorNext, NEW j \in Job PROVE Kept(j) OBVIOUS
  <2>1. /\ dbJobs[j].state = "completed" => jobs[j].state = "completed"
        /\ Known(j) => jobs[j].state # "absent"
    BY DEF CoordinatorInv, MemoryAhead, Known
  <2>2. ASSUME StatesKept, UNCHANGED stored PROVE Kept(j)
    BY <2>1, <2>2 DEF StatesKept, stored
  <2>3. ASSUME NEW k \in Job, NEW hash \in Hash \cup {None}, SubmitStage(k, hash) PROVE Kept(j)
    <3>1. /\ jobs[k].state = "absent" /\ dbJobs' = dbJobs
          /\ \A i \in Job : i # k => jobs'[i] = jobs[i] /\ dbStages'[i] = dbStages[i]
      BY <2>3 DEF SubmitStage, Submit, SaveStage, CoordinatorInv, CoordinatorTypeOK, TypeOK
    <3> QED BY <2>1, <3>1
  <2>4. ASSUME NEW k \in Job, NEW w \in Worker, NEW output \in Output, CompleteStage(k, w, output)
        PROVE  Kept(j)
    <3>1. /\ jobs[k].state = "leased" /\ dbJobs' = dbJobs
          /\ \A i \in Job : i # k => jobs'[i] = jobs[i] /\ dbStages'[i] = dbStages[i]
      BY <2>4 DEF CompleteStage, Complete, Release, LeasedOn, Leased, In, SaveStage,
                  CoordinatorInv, CoordinatorTypeOK, TypeOK
    <3>2. k \notin lost' => dbStages'[k].hash = dbStages[k].hash
      <4> SUFFICES ASSUME k \notin lost' PROVE dbStages'[k].hash = dbStages[k].hash OBVIOUS
      <4>1. k \notin lost /\ dbStages'[k] = stages'[k]
        BY <2>4 DEF CompleteStage, SaveStage, CoordinatorInv, CoordinatorTypeOK
      <4>2. stages[k] = dbStages[k] /\ stages[k] \in StageJob
        BY <2>4, <3>1, <4>1 DEF CoordinatorInv, RowsCurrent, CoordinatorTypeOK, CompleteStage
      <4>3. stages'[k] = [stages[k] EXCEPT !.output = output]
        BY <2>4 DEF CompleteStage, CoordinatorInv, CoordinatorTypeOK
      <4> QED BY <4>1, <4>2, <4>3 DEF StageJob
    <3> QED BY <2>1, <3>1, <3>2
  <2>5. CASE SaveScheduler BY <2>1, <2>5 DEF SaveScheduler
  <2>6. CASE Restart BY <2>6 DEF Restart, stored
  <2> QED BY <2>2, <2>3, <2>4, <2>5, <2>6, LeaseStageStep, UnwindStep, TickStep
          DEF CoordinatorNext
<1> QED BY <1>1, CoordinatorInvariant, PTL DEF CoordinatorSpec, HandoffKept

-----------------------------------------------------------------------------
(* SchedulerDrivers                                                        *)

DriversTypeOK ==
  /\ TypeOK
  /\ alloc \in [Job -> (SUBSET Gpu) \cup {None}]
  /\ driver \in Driver

\* Every driver leases by choose or by choose_on_worker, and only the broker asks
\* for a job by its id.
LEMMA DriverCases ==
  ASSUME [DriversNext]_dvars
  PROVE  /\ driver' = driver
         /\ \/ Unleasing
            \/ /\ driver = "pool"
               /\ \E w \in Worker, pool \in PoolOffer, seconds \in LeaseSeconds :
                    Choose(w, pool, seconds)
            \/ /\ driver # "pool"
               /\ \E w \in Worker : \E offer \in Offer[w], pool \in Nat, wanted \in Wanted \cup {None},
                      gpus \in SUBSET Gpu, seconds \in LeaseSeconds :
                    /\ ChooseOnWorker(w, offer, pool, wanted, gpus, seconds)
                    /\ driver # "broker" => wanted = None
<1> DEFINE OnWorker ==
             \E w \in Worker : \E offer \in Offer[w], pool \in Nat, wanted \in Wanted \cup {None},
                 gpus \in SUBSET Gpu, seconds \in LeaseSeconds :
               /\ ChooseOnWorker(w, offer, pool, wanted, gpus, seconds)
               /\ driver # "broker" => wanted = None
<1>1. driver' = driver
  BY DEF DriversNext, dvars
<1>2. CASE driver = "gpu_aware" /\ AwareNext
  <2>1. ASSUME NEW w \in Worker, NEW offer \in Offer[w], NEW seconds \in LeaseSeconds,
               AwareChoose(w, offer, seconds)
        PROVE  OnWorker
    <3>1. ChooseOnWorker(w, offer, 0, None, {}, seconds)
      BY <2>1 DEF AwareChoose
    <3>2. 0 \in Nat /\ None \in Wanted \cup {None} /\ {} \in SUBSET Gpu
      OBVIOUS
    <3> QED
      BY <3>1, <3>2
  <2> HIDE DEF OnWorker
  <2>2. Unleasing \/ OnWorker
    BY <1>2, <2>1 DEF AwareNext, AwareRelease, AwareRecover, Unleasing
  <2> QED
    BY <1>1, <1>2, <2>2 DEF OnWorker
<1>3. CASE driver = "broker" /\ Choosing
  <2>1. OnWorker
    BY <1>3, CallerAssumption DEF Choosing
  <2> QED
    BY <1>1, <1>3, <2>1
<1>4. CASE driver = "worker" /\ WorkerChoosing
  <2>1. ASSUME NEW w \in Worker, NEW offer \in Offer[w], NEW pool \in PoolPower,
               NEW seconds \in LeaseSeconds, ChooseOnWorker(w, offer, pool, None, {}, seconds)
        PROVE  OnWorker
    <3>1. pool \in Nat /\ None \in Wanted \cup {None} /\ {} \in SUBSET Gpu
      BY CallerAssumption
    <3> QED
      BY <2>1, <3>1
  <2>2. OnWorker
    BY <1>4, <2>1 DEF WorkerChoosing
  <2> QED
    BY <1>1, <1>4, <2>2
<1>5. CASE driver = "pool" /\ PoolChoosing
  BY <1>1, <1>5 DEF PoolChoosing
<1>6. CASE Unleasing
  BY <1>1, <1>6
<1> QED
  BY <1>2, <1>3, <1>4, <1>5, <1>6
  DEF DriversNext, Unleasing, Releasing, Complete, Requeue, Fail, dvars, vars

\* choose leases nothing, or a job that fits what the pool has left, on no GPU.
LEMMA PoolChoice ==
  ASSUME TypeOK, NEW w \in Worker, NEW pool \in PoolOffer, NEW seconds \in LeaseSeconds,
         Choose(w, pool, seconds)
  PROVE  /\ now' = now /\ now + seconds <= MaxTime
         /\ \/ jobs' = Stamped(None)
            \/ \E j \in {k \in Queued : PoolFits(k, pool)} :
                 /\ First(j, {k \in Queued : PoolFits(k, pool)})
                 /\ jobs' = [Stamped(None) EXCEPT ![j] = Lease(j, w, seconds, {})]
<1>1. \A j \in Queued : jobs[j].gpus = {}
  BY DEF TypeOK, LeaseFields, Queued, In
<1> QED
  BY <1>1 DEF Choose

LEMMA PoolChoiceType ==
  ASSUME TypeOK, NEW w \in Worker, NEW pool \in PoolOffer, NEW seconds \in LeaseSeconds,
         Choose(w, pool, seconds)
  PROVE  TypeOK'
<1>1. CASE jobs' = Stamped(None)
  BY <1>1, PoolChoice, StampType
<1>2. CASE \E j \in Queued : jobs' = [Stamped(None) EXCEPT ![j] = Lease(j, w, seconds, {})]
  <2>1. PICK j \in Queued : jobs' = [Stamped(None) EXCEPT ![j] = Lease(j, w, seconds, {})]
    BY <1>2
  <2>2. j \in Job /\ {} \in SUBSET Gpu
    BY DEF Queued, In
  <2> QED
    BY <2>1, <2>2, PoolChoice, LeaseType
<1> QED
  BY <1>1, <1>2, PoolChoice

LEMMA PoolChoiceAdds ==
  ASSUME TypeOK, NEW w \in Worker, NEW pool \in PoolOffer, NEW seconds \in LeaseSeconds,
         Choose(w, pool, seconds)
  PROVE  \/ OnlyKeepsLeases
         \/ \E j \in Queued : PoolFits(j, pool) /\ NewLease(j, Lease(j, w, seconds, {}))
<1>1. CASE jobs' = Stamped(None)
  BY <1>1, StampKeeps
<1>2. ASSUME NEW j \in Queued, PoolFits(j, pool),
             jobs' = [Stamped(None) EXCEPT ![j] = Lease(j, w, seconds, {})]
      PROVE  NewLease(j, Lease(j, w, seconds, {}))
  BY <1>2, LeaseAdds
<1> QED
  BY <1>1, <1>2, PoolChoice

\* What a driver's step does to the leases.
LEMMA DriverLeases ==
  ASSUME DriversTypeOK, [DriversNext]_dvars
  PROVE  \/ OnlyKeepsLeases
         \/ /\ driver = "pool"
            /\ \E j \in Queued, w \in Worker, pool \in PoolOffer, seconds \in LeaseSeconds :
                 PoolFits(j, pool) /\ NewLease(j, Lease(j, w, seconds, {}))
         \/ /\ driver # "pool"
            /\ \E j \in Job, w \in Worker : \E offer \in Offer[w], pool \in Nat,
                 gpus \in SUBSET Gpu : AddsLease(j, w, offer, pool, gpus)
<1>1. TypeOK
  BY DEF DriversTypeOK
<1>2. CASE Unleasing
  BY <1>1, <1>2, UnleasingKeeps
<1>3. ASSUME driver = "pool", NEW w \in Worker, NEW pool \in PoolOffer, NEW seconds \in LeaseSeconds,
             Choose(w, pool, seconds)
      PROVE  \/ OnlyKeepsLeases
             \/ \E j \in Queued : PoolFits(j, pool) /\ NewLease(j, Lease(j, w, seconds, {}))
  BY <1>1, <1>3, PoolChoiceAdds
<1>4. ASSUME driver # "pool", NEW w \in Worker, NEW offer \in Offer[w], NEW pool \in Nat, NEW wanted,
             NEW gpus \in SUBSET Gpu, NEW seconds \in LeaseSeconds,
             ChooseOnWorker(w, offer, pool, wanted, gpus, seconds)
      PROVE  OnlyKeepsLeases \/ \E j \in Job : AddsLease(j, w, offer, pool, gpus)
  BY <1>1, <1>4, ChoiceAdds
<1> QED
  BY <1>2, <1>3, <1>4, DriverCases

LEMMA DriverType ==
  ASSUME DriversTypeOK, [DriversNext]_dvars
  PROVE  TypeOK' /\ driver' \in Driver
<1>1. TypeOK /\ driver \in Driver
  BY DEF DriversTypeOK
<1>2. Unleasing => TypeOK'
  BY <1>1, UnleasingType
<1>3. ASSUME NEW w \in Worker, NEW pool \in PoolOffer, NEW seconds \in LeaseSeconds,
             Choose(w, pool, seconds)
      PROVE  TypeOK'
  BY <1>1, <1>3, PoolChoiceType
<1>4. ASSUME NEW w \in Worker, NEW offer \in Offer[w], NEW pool \in Nat, NEW wanted,
             NEW gpus \in SUBSET Gpu, NEW seconds \in LeaseSeconds,
             ChooseOnWorker(w, offer, pool, wanted, gpus, seconds)
      PROVE  TypeOK'
  BY <1>1, <1>4, ChooseType
<1>5. driver' = driver
  BY DriverCases
<1>6. TypeOK'
  BY <1>2, <1>3, <1>4, DriverCases
<1> QED
  BY <1>1, <1>5, <1>6

\* The wrapper's map after one of its calls: an entry made for the job that was
\* leased, on GPUs no leased job had, or removed with the lease.
LEMMA WrapperStep ==
  ASSUME DriversTypeOK, AllocationsFollow, AwareNext
  PROVE  AllocationsFollow'
<1> USE DEF DriversTypeOK
<1>6. Leased \subseteq Job /\ Expired \subseteq Leased
  BY DEF Expired, Leased, In
<1>0. \A S \in SUBSET Gpu : S # None
  BY NeedsAssumption
<1>1. ASSUME NEW w \in Worker, NEW offer \in Offer[w], NEW seconds \in LeaseSeconds,
             AwareChoose(w, offer, seconds)
      PROVE  AllocationsFollow'
  <2>0. PICK first \in Queued : \E gpus \in Selections(w, first) :
          /\ ChooseOnWorker(w, offer, 0, None, {}, seconds)
          /\ alloc' = [j \in Job |-> IF j \in Queued /\ jobs'[j].state = "leased" THEN gpus
                                                                               ELSE alloc[j]]
    BY <1>1 DEF AwareChoose
  <2>1. PICK gpus \in Selections(w, first) :
          /\ ChooseOnWorker(w, offer, 0, None, {}, seconds)
          /\ alloc' = [j \in Job |-> IF j \in Queued /\ jobs'[j].state = "leased" THEN gpus
                                                                               ELSE alloc[j]]
    BY <2>0
  <2>2. gpus \in SUBSET Gpu /\ gpus \cap Used = {}
    BY NeedsAssumption DEF Selections, Queued, In
  <2>4. CASE jobs' = Stamped(None)
    <3>1. \A j \in Job : jobs'[j].state = jobs[j].state
      BY <2>4, StampedType
    <3>2. alloc' = alloc /\ Leased' = Leased
      BY <2>1, <3>1 DEF Queued, Leased, In
    <3> QED
      BY <3>2 DEF AllocationsFollow, Allocated
  <2>5. ASSUME NEW j \in Queued, jobs' = [Stamped(None) EXCEPT ![j] = Lease(j, w, seconds, {})]
        PROVE  AllocationsFollow'
    <3>1. NewLease(j, Lease(j, w, seconds, {}))
      BY <2>5, LeaseAdds
    <3>2. j \in Job /\ Leased' = Leased \cup {j} /\ j \notin Leased
      BY <3>1 DEF NewLease
    <3>3. \A k \in Job : k \in Queued /\ jobs'[k].state = "leased" <=> k = j
      BY <2>5, <3>2 DEF Queued, Leased, In
    <3>4. alloc'[j] = gpus /\ \A k \in Job \ {j} : alloc'[k] = alloc[k]
      BY <2>1, <3>2, <3>3
    <3>5. \A k \in Leased : Allocated(k) \cap gpus = {}
      BY <2>2 DEF Used
    <3>6. Allocated(j)' = gpus /\ \A k \in Leased : Allocated(k)' = Allocated(k)
      BY <1>0, <2>2, <3>2, <3>4 DEF Allocated, Leased, In
    <3>7. \A k \in Job : alloc'[k] # None <=> k \in Leased'
      BY <1>0, <2>2, <3>2, <3>4 DEF AllocationsFollow
    <3> QED
      BY <3>2, <3>5, <3>6, <3>7 DEF AllocationsFollow
  <2> QED
    BY <2>1, <2>4, <2>5 DEF ChooseOnWorker, Candidates
<1>2. ASSUME NEW j \in Job, NEW w \in Worker, NEW state \in {"completed", "queued", "failed"},
             AwareRelease(j, w, state)
      PROVE  AllocationsFollow'
  <2>1. Leased' = Leased \ {j}
    BY <1>2 DEF AwareRelease, Release, Fresh, TypeOK, Leased, In
  <2>2. alloc' = [alloc EXCEPT ![j] = None]
    BY <1>2 DEF AwareRelease
  <2>3. \A k \in Job : alloc'[k] # None <=> k \in Leased'
    BY <1>6, <2>1, <2>2 DEF AllocationsFollow
  <2>4. \A k \in Leased' : Allocated(k)' = Allocated(k)
    BY <1>6, <2>1, <2>2 DEF Allocated
  <2> QED
    BY <1>6, <2>1, <2>2, <2>3, <2>4 DEF AllocationsFollow
<1>3. ASSUME AwareRecover
      PROVE  AllocationsFollow'
  <2>1. Leased' = Leased \ Expired
    BY <1>3 DEF AwareRecover, RecoverExpired, Fresh, TypeOK, Expired, Leased, In
  <2>2. alloc' = [j \in Job |-> IF j \in Expired THEN None ELSE alloc[j]]
    BY <1>3 DEF AwareRecover
  <2>3. \A k \in Job : alloc'[k] # None <=> k \in Leased'
    BY <1>6, <2>1, <2>2 DEF AllocationsFollow
  <2>4. \A k \in Leased' : Allocated(k)' = Allocated(k)
    BY <1>6, <2>1, <2>2 DEF Allocated
  <2> QED
    BY <1>6, <2>1, <2>2, <2>3, <2>4 DEF AllocationsFollow
<1>4. ASSUME NEW j \in Job, Submit(j), UNCHANGED alloc
      PROVE  AllocationsFollow'
  <2>1. Leased' = Leased
    BY <1>4 DEF Submit, Fresh, TypeOK, Leased, In
  <2> QED
    BY <1>4, <2>1 DEF AllocationsFollow, Allocated
<1>5. ASSUME Tick, UNCHANGED alloc
      PROVE  AllocationsFollow'
  BY <1>5 DEF Tick, AllocationsFollow, Allocated, Leased, In
<1> QED
  BY <1>1, <1>2, <1>3, <1>4, <1>5 DEF AwareNext

LEMMA DriversInit_Type == DriversInit => DriversTypeOK /\ Leased = {}
<1> SUFFICES ASSUME DriversInit PROVE DriversTypeOK /\ Leased = {} OBVIOUS
<1>1. TypeOK
  BY InitType DEF DriversInit, AwareInit
<1>2. Leased = {}
  BY DEF DriversInit, AwareInit, Init, Fresh, Leased, In
<1> QED
  BY <1>1, <1>2 DEF DriversInit, AwareInit, DriversTypeOK

\* The map keeps its entries when another driver leases, and follows the leases
\* when the wrapper does.
LEMMA WrapperStays ==
  ASSUME DriversTypeOK, WrapperAgrees, [DriversNext]_dvars
  PROVE  WrapperAgrees'
<1>1. driver' = driver
  BY DriverCases
<1>2. ASSUME driver = "gpu_aware", AwareNext
      PROVE  WrapperAgrees'
  BY <1>1, <1>2, WrapperStep DEF WrapperAgrees
<1>3. ASSUME driver # "gpu_aware", UNCHANGED alloc
      PROVE  WrapperAgrees'
  BY <1>1, <1>3 DEF WrapperAgrees
<1>4. ASSUME UNCHANGED dvars
      PROVE  WrapperAgrees'
  BY <1>4 DEF dvars, WrapperAgrees, AllocationsFollow, Allocated, Leased, In
<1> QED
  BY <1>1, <1>2, <1>3, <1>4 DEF DriversNext

\* Under every driver the records of all jobs are well formed, and the wrapper's
\* map holds sets of GPUs.
THEOREM DriversTypeCorrect == DriversSpec => []DriversTypeOK
<1>1. DriversInit => DriversTypeOK
  BY DriversInit_Type
<1>2. DriversTypeOK /\ [DriversNext]_dvars => DriversTypeOK'
  <2> SUFFICES ASSUME DriversTypeOK, [DriversNext]_dvars PROVE DriversTypeOK'
    OBVIOUS
  <2>1. TypeOK' /\ driver' \in Driver /\ driver' = driver
    BY DriverType, DriverCases
  <2>2. CASE UNCHANGED alloc
    BY <2>1, <2>2 DEF DriversTypeOK
  <2>3. ASSUME AwareNext PROVE alloc' \in [Job -> (SUBSET Gpu) \cup {None}]
    <3>1. ASSUME NEW w \in Worker, NEW offer \in Offer[w], NEW seconds \in LeaseSeconds,
                 AwareChoose(w, offer, seconds)
          PROVE  alloc' \in [Job -> (SUBSET Gpu) \cup {None}]
      BY <3>1, NeedsAssumption DEF AwareChoose, Selections, DriversTypeOK, Queued, In
    <3> QED
      BY <2>3, <3>1 DEF AwareNext, AwareRelease, AwareRecover, DriversTypeOK
  <2> QED
    BY <2>1, <2>2, <2>3 DEF DriversNext, dvars, DriversTypeOK
<1> QED
  BY <1>1, <1>2, PTL DEF DriversSpec

\* The wrapper's map has an entry for exactly the leased jobs, and no two of them
\* share a GPU, although the GPUs may be selected for one job and recorded for
\* another: for every sequence of calls of the wrapper.
THEOREM WrapperAlwaysAgrees == DriversSpec => []WrapperAgrees
<1>1. DriversInit => WrapperAgrees
  BY DriversInit_Type DEF DriversInit, AwareInit, WrapperAgrees, AllocationsFollow
<1>2. DriversTypeOK /\ WrapperAgrees /\ [DriversNext]_dvars => WrapperAgrees'
  BY WrapperStays
<1> QED
  BY <1>1, <1>2, DriversTypeCorrect, PTL DEF DriversSpec

\* No two leased jobs of a worker are bound to one GPU, whichever driver leases.
THEOREM DriversShareNoGpu == DriversSpec => []GpuExclusive
<1>1. DriversInit => GpuExclusive
  BY DriversInit_Type DEF GpuExclusive
<1>2. DriversTypeOK /\ GpuExclusive /\ [DriversNext]_dvars => GpuExclusive'
  <2> SUFFICES ASSUME DriversTypeOK, GpuExclusive, [DriversNext]_dvars PROVE GpuExclusive'
    OBVIOUS
  <2>1. ASSUME NEW j, NEW record, NewLease(j, record), record.gpus = {} PROVE GpuExclusive'
    <3>1. /\ Leased' = Leased \cup {j} /\ jobs'[j].gpus = {}
          /\ \A k \in Leased : jobs'[k] = jobs[k]
      BY <2>1 DEF NewLease
    <3> QED
      BY <3>1 DEF GpuExclusive
  <2>2. ASSUME NEW j, NEW w, NEW seconds PROVE Lease(j, w, seconds, {}).gpus = {}
    BY DEF Lease
  <2> QED
    BY <2>1, <2>2, DriverLeases, GpusStayExclusive
<1> QED
  BY <1>1, <1>2, DriversTypeCorrect, PTL DEF DriversSpec

\* What a set of leased jobs requires stays within a pool observed at some time:
\* choose has held the last of them to what the others left of one.
LEMMA PoolFitStays ==
  ASSUME NEW j \in Queued, NEW pool \in PoolOffer, PoolFits(j, pool), Leased' = Leased \cup {j},
         NEW r \in Resource,
         Leased # {} => \E p \in PoolOffer : Demand[Leased][r] <= p.total[r]
  PROVE  \E p \in PoolOffer : Demand[Leased'][r] <= p.total[r]
<1>1. j \in Job /\ j \notin Leased /\ Leased \in SUBSET Job
  BY DEF Queued, Leased, In
<1>2. {j} \in SUBSET (Job \ Leased)
  BY <1>1
<1>3. /\ Demand[Leased'][r] = Demand[Leased][r] + Demand[{j}][r]
      /\ Demand[Leased][r] \in Nat /\ Demand[{j}][r] \in Nat
  BY <1>1, <1>2, DemandAdds
<1>4. \A p \in PoolOffer : p.total[r] \in Nat
  BY PoolAssumption
<1>5. CASE r = "slots" \/ Demand[{j}][r] > 0
  <2>1. pool.total[r] - Demand[Leased][r] >= Demand[{j}][r]
    BY <1>5 DEF PoolFits
  <2>2. pool.total[r] \in Nat
    BY <1>4
  <2> QED
    BY <1>3, <2>1, <2>2
<1>6. CASE ~(r = "slots" \/ Demand[{j}][r] > 0)
  <2>1. Demand[Leased'][r] = Demand[Leased][r]
    BY <1>3, <1>6
  <2>2. CASE Leased = {}
    <3>1. Demand[Leased'][r] = 0
      BY <2>1, <2>2, NothingDemanded
    <3>2. pool.total[r] \in Nat
      BY <1>4
    <3> QED
      BY <3>1, <3>2
  <2> QED
    BY <2>1, <2>2
<1> QED
  BY <1>5, <1>6

LEMMA PoolPowerStays ==
  ASSUME NEW j \in Queued, NEW pool \in PoolOffer, PoolFits(j, pool), Leased' = Leased \cup {j},
         Power[Leased] > 0 => \E p \in PoolOffer : Power[Leased] <= p.watts
  PROVE  Power[Leased'] > 0 => \E p \in PoolOffer : Power[Leased'] <= p.watts
<1>1. j \in Job /\ j \notin Leased /\ Leased \in SUBSET Job
  BY DEF Queued, Leased, In
<1>2. {j} \in SUBSET (Job \ Leased)
  BY <1>1
<1>3. Power[Leased'] = Power[Leased] + Power[{j}]
  BY <1>1, <1>2, PowerAssumption
<1>4. Power[Leased] \in Nat /\ Power[{j}] \in Nat /\ pool.watts \in Nat
  BY <1>1, PowerAssumption, PoolAssumption
<1>5. CASE Power[{j}] > 0
  <2>1. pool.watts - Power[Leased] >= Power[{j}]
    BY <1>5 DEF PoolFits
  <2>2. Power[Leased'] <= pool.watts
    BY <1>3, <1>4, <2>1
  <2> QED
    BY <2>2
<1>6. CASE ~(Power[{j}] > 0)
  <2>1. Power[Leased'] = Power[Leased]
    BY <1>3, <1>4, <1>6
  <2> QED
    BY <2>1
<1> QED
  BY <1>5, <1>6

\* Fewer leased jobs still fit.
LEMMA FewerFit ==
  ASSUME driver = "pool", LeasesFit, OnlyKeepsLeases
  PROVE  /\ Leased' # {} =>
              \A r \in Resource : \E pool \in PoolOffer : Demand[Leased'][r] <= pool.total[r]
         /\ Power[Leased'] > 0 => \E pool \in PoolOffer : Power[Leased'] <= pool.watts
<1>1. Leased \in SUBSET Job /\ Leased' \in SUBSET Leased
  BY DEF OnlyKeepsLeases, Leased, In
<1>2. ASSUME NEW r \in Resource, Leased' # {}
      PROVE  \E pool \in PoolOffer : Demand[Leased'][r] <= pool.total[r]
  <2>1. PICK pool \in PoolOffer : Demand[Leased][r] <= pool.total[r]
    BY <1>1, <1>2 DEF LeasesFit
  <2>2. /\ Demand[Leased'][r] \in Nat /\ Demand[Leased][r] \in Nat
        /\ Demand[Leased'][r] <= Demand[Leased][r]
    BY <1>1, DemandMonotone
  <2>3. pool.total[r] \in Nat
    BY PoolAssumption
  <2>4. Demand[Leased'][r] <= pool.total[r]
    BY <2>1, <2>2, <2>3
  <2> QED
    BY <2>4
<1>3. ASSUME Power[Leased'] > 0
      PROVE  \E pool \in PoolOffer : Power[Leased'] <= pool.watts
  <2>1. /\ Power[Leased'] \in Nat /\ Power[Leased] \in Nat
        /\ Power[Leased'] <= Power[Leased]
    BY <1>1, PowerMonotone
  <2>2. Power[Leased] > 0
    BY <1>3, <2>1
  <2>3. PICK pool \in PoolOffer : Power[Leased] <= pool.watts
    BY <2>2 DEF LeasesFit
  <2>4. pool.watts \in Nat
    BY PoolAssumption
  <2>5. Power[Leased'] <= pool.watts
    BY <2>1, <2>3, <2>4
  <2> QED
    BY <2>5
<1> QED
  BY <1>2, <1>3

\* No jobs draw nothing.
LEMMA NoPower == ~(Power[{}] > 0)
<1> DEFINE S == {}
           d == Power[S]
<1>1. S \in SUBSET Job /\ S \in SUBSET (Job \ S) /\ S \cup S = S
  OBVIOUS
<1> HIDE DEF S
<1>2. Power[S \cup S] = d + d /\ d \in Nat
  BY <1>1, PowerAssumption
<1>3. d = d + d /\ d \in Nat
  BY <1>1, <1>2
<1> HIDE DEF d
<1>4. ~(d > 0)
  BY <1>3
<1> QED
  BY <1>4 DEF d, S

\* Leased jobs stay within what they were leased against, for every driver and
\* every sequence of observations of workers and pools.
THEOREM LeasesAlwaysFit == DriversSpec => []LeasesFit
<1>1. DriversInit => LeasesFit
  <2> SUFFICES ASSUME DriversInit PROVE LeasesFit OBVIOUS
  <2>1. Leased = {} /\ \A w \in Worker : LeasedOn(w) = {}
    BY DriversInit_Type DEF LeasedOn
  <2>3. ~(Power[Leased] > 0)
    BY <2>1, NoPower
  <2> QED
    BY <2>1, <2>3 DEF LeasesFit, CapacityRespected
<1>2. DriversTypeOK /\ LeasesFit /\ [DriversNext]_dvars => LeasesFit'
  <2> SUFFICES ASSUME DriversTypeOK, LeasesFit, [DriversNext]_dvars PROVE LeasesFit'
    OBVIOUS
  <2>1. driver' = driver
    BY DriverCases
  <2>2. CASE driver # "pool"
    <3>1. CapacityRespected'
      BY <2>2, DriverLeases, CapacityStays DEF LeasesFit
    <3> QED
      BY <2>1, <2>2, <3>1 DEF LeasesFit
  <2>3. CASE driver = "pool" /\ OnlyKeepsLeases
    BY <2>1, <2>3, FewerFit DEF LeasesFit
  <2>4. ASSUME driver = "pool", NEW j \in Queued, NEW w \in Worker, NEW pool \in PoolOffer,
               NEW seconds \in LeaseSeconds, PoolFits(j, pool),
               NewLease(j, Lease(j, w, seconds, {}))
        PROVE  LeasesFit'
    <3>1. Leased' = Leased \cup {j}
      BY <2>4 DEF NewLease
    <3>2. \A r \in Resource : \E p \in PoolOffer : Demand[Leased'][r] <= p.total[r]
      BY <2>4, <3>1, PoolFitStays DEF LeasesFit
    <3>3. Power[Leased'] > 0 => \E p \in PoolOffer : Power[Leased'] <= p.watts
      BY <2>4, <3>1, PoolPowerStays DEF LeasesFit
    <3> QED
      BY <2>1, <2>4, <3>2, <3>3 DEF LeasesFit
  <2> QED
    BY <2>2, <2>3, <2>4, DriverLeases
<1> QED
  BY <1>1, <1>2, DriversTypeCorrect, PTL DEF DriversSpec

\* What fits what the pool has left for one job fits for one that is no harder.
LEMMA NoHarderFitsPool ==
  ASSUME NEW j \in Job, NEW k \in Job, NoHarderThan(j, k), NoHarderInPool(j, k),
         NEW pool \in PoolOffer, PoolFits(k, pool)
  PROVE  PoolFits(j, pool)
<1>1. Leased \in SUBSET Job
  BY DEF Leased, In
<1>2. j \in pool.supports
  BY DEF PoolFits, NoHarderInPool
<1>3. Power[{j}] > 0 => pool.watts - Power[Leased] >= Power[{j}]
  <2>1. /\ Power[Leased] \in Nat /\ Power[{j}] \in Nat /\ Power[{k}] \in Nat
        /\ pool.watts \in Nat
    BY <1>1, PowerAssumption, PoolAssumption
  <2>2. Power[{j}] <= Power[{k}]
    BY DEF NoHarderThan
  <2>3. Power[{k}] > 0 => pool.watts - Power[Leased] >= Power[{k}]
    BY DEF PoolFits
  <2> QED
    BY <2>1, <2>2, <2>3
<1>4. ASSUME NEW r \in Resource
      PROVE  /\ (r = "slots" \/ Demand[{j}][r] > 0) =>
                  pool.total[r] - Demand[Leased][r] >= Demand[{j}][r]
             /\ r # "slots" => pool.largest[r] >= Demand[{j}][r]
  <2>1. /\ Demand[Leased][r] \in Nat /\ Demand[{j}][r] \in Nat /\ Demand[{k}][r] \in Nat
        /\ pool.total[r] \in Nat /\ pool.largest[r] \in Nat
    BY <1>1, DemandAssumption, PoolAssumption
  <2>2. Demand[{j}][r] <= Demand[{k}][r]
    BY DEF NoHarderThan
  <2>3. /\ (r = "slots" \/ Demand[{k}][r] > 0) =>
             pool.total[r] - Demand[Leased][r] >= Demand[{k}][r]
        /\ r # "slots" => pool.largest[r] >= Demand[{k}][r]
    BY DEF PoolFits
  <2> QED
    BY <2>1, <2>2, <2>3
<1> QED
  BY <1>2, <1>3, <1>4 DEF PoolFits

LEMMA PoolChoiceInOrder ==
  ASSUME TypeOK, NEW w \in Worker, NEW pool \in PoolOffer, NEW seconds \in LeaseSeconds,
         Choose(w, pool, seconds)
  PROVE  PoolInQueueOrder
<1> DEFINE S == {k \in Queued : PoolFits(k, pool)}
<1> SUFFICES ASSUME NEW j \in Queued, NEW k \in Queued, Overtaken(j, k), NoHarderThan(j, k),
                    NoHarderInPool(j, k)
             PROVE  FALSE
  BY DEF PoolInQueueOrder
<1>1. j \in Job /\ k \in Job
  BY DEF Queued, In
<1>2. CASE jobs' = Stamped(None)
  BY <1>2, StampKeeps, UnleasingInOrder
<1>3. ASSUME NEW l \in S, First(l, S),
             jobs' = [Stamped(None) EXCEPT ![l] = Lease(l, w, seconds, {})]
      PROVE  FALSE
  <2>1. l = k
    BY <1>1, <1>3, StampedType DEF Overtaken, Queued, In
  <2>2. PoolFits(j, pool)
    BY <1>1, <2>1, NoHarderFitsPool
  <2>3. j \in S /\ S \in SUBSET Queued
    BY <2>2
  <2> QED
    BY <1>3, <2>3, FirstIsNotOvertaking
<1> QED
  BY <1>2, <1>3, PoolChoice

\* A driver that asks for any job never leases a younger job past an older, no less
\* important and no harder one that waits, for every ageing interval, observation
\* and pool.
THEOREM DriversKeepOrder == DriversSpec => AnyJobInOrder
<1> DEFINE Act == /\ driver \in {"worker", "gpu_aware"} => InQueueOrder
                  /\ driver = "pool" => PoolInQueueOrder
<1>1. DriversTypeOK /\ [DriversNext]_dvars => [Act]_dvars
  <2> SUFFICES ASSUME DriversTypeOK, [DriversNext]_dvars PROVE Act
    OBVIOUS
  <2>1. TypeOK
    BY DEF DriversTypeOK
  <2>2. CASE Unleasing
    BY <2>1, <2>2, UnleasingKeeps, UnleasingInOrder DEF InQueueOrder, PoolInQueueOrder
  <2>3. ASSUME driver = "pool", NEW w \in Worker, NEW pool \in PoolOffer,
               NEW seconds \in LeaseSeconds, Choose(w, pool, seconds)
        PROVE  Act
    BY <2>1, <2>3, PoolChoiceInOrder
  <2>4. ASSUME driver # "pool", NEW w \in Worker, NEW offer \in Offer[w], NEW pool \in Nat,
               NEW wanted \in Wanted \cup {None}, NEW gpus \in SUBSET Gpu,
               NEW seconds \in LeaseSeconds,
               ChooseOnWorker(w, offer, pool, wanted, gpus, seconds),
               driver # "broker" => wanted = None
        PROVE  Act
    BY <2>1, <2>4, ChoiceInOrder
  <2> QED
    BY <2>2, <2>3, <2>4, DriverCases
<1> QED
  BY <1>1, DriversTypeCorrect, PTL DEF DriversSpec, AnyJobInOrder

LEMMA PoolChoiceIsLifecycle ==
  ASSUME TypeOK, NEW w \in Worker, NEW pool \in PoolOffer, NEW seconds \in LeaseSeconds,
         Choose(w, pool, seconds)
  PROVE  Lifecycle!Next \/ UNCHANGED Lifecycle!vars
<1>1. CASE jobs' = Stamped(None)
  BY <1>1, StampIsInvisible
<1>2. ASSUME NEW j \in Queued, jobs' = [Stamped(None) EXCEPT ![j] = Lease(j, w, seconds, {})]
      PROVE  Lifecycle!Next
  <2>1. j \in Job
    BY DEF Queued, In
  <2>2. Lifecycle!Grant(j, w)
    BY <1>2, LeaseIsGrant
  <2> QED
    BY <2>1, <2>2 DEF Lifecycle!Next
<1> QED
  BY <1>1, <1>2, PoolChoice

\* Each driver implements the safety of the lifecycle: its calls are steps of it or
\* invisible in it.  What ImplementsFairLifecycle adds to this is fairness.
THEOREM DriversImplementLifecycle == DriversSpec => ImplementsLifecycle
<1>1. DriversInit => Lifecycle!Init
  BY DEF DriversInit, AwareInit, Init, Lifecycle!Init, Fresh
<1>2. DriversTypeOK /\ [DriversNext]_dvars => [Lifecycle!Next]_(Lifecycle!vars)
  <2> SUFFICES ASSUME DriversTypeOK, [DriversNext]_dvars
               PROVE  Lifecycle!Next \/ UNCHANGED Lifecycle!vars
    OBVIOUS
  <2>1. TypeOK
    BY DEF DriversTypeOK
  <2> QED
    BY <2>1, DriverCases, UnleasingIsLifecycle, ChoiceIsLifecycle, PoolChoiceIsLifecycle
<1> QED
  BY <1>1, <1>2, DriversTypeCorrect, PTL DEF DriversSpec, ImplementsLifecycle, Lifecycle!Spec

-----------------------------------------------------------------------------
(* RemoteDispatch                                                          *)

Ever == leases \cup accepted \cup barred

\* An execution spends its nonce, and answers come from accepted completions.
NonceInv ==
  /\ \A i \in Id : runs[i] = IF i \in used THEN 1 ELSE 0
  /\ \A e \in running : e.lease.id \in used
  /\ \A l \in accepted : l.id \in used
  /\ \A r \in replies : \E l \in accepted : l.id = r.id
\* A lease has one id and one fate.
LeaseInv ==
  /\ \A l, m \in Ever : l.id = m.id => l = m
  /\ \A l \in Ever : l.id < nextLease
  /\ leases \cap (accepted \cup barred) = {}
  /\ RevokedNeverAccepted
CallInv ==
  \A d \in Dispatcher : dispatch[d] # None =>
    /\ dispatch[d].pc = "issued" => dispatch[d].id # None
    /\ dispatch[d].id # None => LeaseOf(dispatch[d], dispatch[d].id) \in Ever
ResultInv ==
  /\ \A r \in results : jobs[r.job].state = "completed"
  /\ \A r, s \in results : r.job = s.job => r = s
  /\ \A r \in results : r.id # None => LeaseOf(r, r.id) \in accepted

Counts(d) == dispatch[d] # None /\ ~dispatch[d].shadowed /\ dispatch[d].until > now
Alone ==
  \A d, e \in Dispatcher : Counts(d) /\ CallOn(e, dispatch[d].job, dispatch[d].worker) => d = e
Held(d) ==
  /\ dispatch[d].job \in LeasedOn(dispatch[d].worker)
  /\ jobs[dispatch[d].job].until = dispatch[d].until
HeldInv == Alone /\ AwaitedLeaseHeld

RemoteInv == RemoteTypeOK /\ NonceInv /\ LeaseInv /\ CallInv /\ ResultInv /\ HeldInv

-----------------------------------------------------------------------------
(* What dispatching does to the scheduler's jobs                           *)

\* A call of the scheduler that lets go of no lease before its deadline.
QuietCall ==
  \/ UNCHANGED <<jobs, now>>
  \/ Tick \/ RecoverExpired \/ \E j \in Job : Submit(j)
  \/ \E w \in Worker, j \in Job, seconds \in LeaseSeconds : \E offer, pool :
       ChooseOnWorker(w, offer, pool, j, {}, seconds)
  \/ \E j \in Job : jobs' = Stamped(j) /\ now' = now
\* A dispatcher settles its call, and with it the lease.
SettlesLease(d, state) ==
  /\ dispatch[d] # None /\ dispatch'[d] = None
  /\ Release(dispatch[d].job, dispatch[d].worker, state)
SchedulerStep ==
  \/ QuietCall
  \/ \E d \in Dispatcher, state \in {"completed", "queued", "failed"} : SettlesLease(d, state)

LEMMA SettleStep ==
  ASSUME RemoteTypeOK, NEW d \in Dispatcher, NEW state \in {"completed", "queued", "failed"},
         dispatch[d] # None, Settle(d, state)
  PROVE  SchedulerStep
<1>1. dispatch'[d] = None BY DEF Settle, RemoteTypeOK
<1> QED BY <1>1 DEF Settle, SchedulerStep, SettlesLease, QuietCall

LEMMA SettledType ==
  ASSUME NEW outcome
  PROVE  Settled(outcome) \in {"completed", "queued", "failed"}
BY DEF Settled

LEMMA AnySchedulerStep ==
  ASSUME RemoteTypeOK, [RemoteNext]_rvars
  PROVE  SchedulerStep
<1>1. ASSUME NEW d \in Dispatcher, NEW j \in Job, TakeJob(d, j) PROVE SchedulerStep
  BY <1>1 DEF TakeJob, SchedulerStep, QuietCall, RemoteTypeOK
<1>2. ASSUME NEW d \in Dispatcher, NEW j \in Job, NoWorker(d, j) PROVE SchedulerStep
  BY <1>2 DEF NoWorker, SchedulerStep, QuietCall
<1>3. ASSUME NEW d \in Dispatcher, CallFails(d) PROVE SchedulerStep
  BY <1>3, SettleStep DEF CallFails, Idle
<1>4. ASSUME NEW d \in Dispatcher, Answer(d) PROVE SchedulerStep
  <2>1. PICK outcome \in Outcome : Settle(d, Settled(outcome))
    BY <1>4 DEF Answer, Conclude
  <2> QED BY <1>4, <2>1, SettleStep, SettledType DEF Answer, In_
<1>5. CASE \E w \in Worker : Register(w) \/ Heartbeat(w) \/ Revoke(w)
  BY <1>5 DEF Register, Heartbeat, Revoke, SchedulerStep, QuietCall
<1>6. CASE \E d \in Dispatcher : FactoryRaises(d) \/ StartLocal(d) \/ Issue(d) \/ Post(d)
  BY <1>6 DEF FactoryRaises, StartLocal, Issue, Post, SchedulerStep, QuietCall
<1>7. CASE \/ \E r \in requests : Authorize(r)
           \/ \E e \in running : Die(e) \/ \E outcome \in Outcome : Finish(e, outcome)
  BY <1>7 DEF Authorize, Die, Finish, SchedulerStep, QuietCall
<1>8. CASE UNCHANGED rvars BY <1>8 DEF rvars, SchedulerStep, QuietCall
<1> QED
  BY <1>1, <1>2, <1>3, <1>4, <1>5, <1>6, <1>7, <1>8 DEF RemoteNext, Recover, SchedulerStep, QuietCall

\* Completed jobs stay so.
LEMMA SchedulerStepKeeps ==
  ASSUME RemoteTypeOK, SchedulerStep
  PROVE  /\ TypeOK' /\ now' \in {now, now + 1}
         /\ \A j \in Job : jobs[j].state = "completed" => jobs'[j].state = "completed"
<1> USE DEF RemoteTypeOK
<1> DEFINE Kept == \A j \in Job : jobs[j].state = "completed" => jobs'[j].state = "completed"
<1>1. CASE UNCHANGED <<jobs, now>> BY <1>1 DEF TypeOK, LeaseFields
<1>2. CASE Tick BY <1>2, TickType DEF Tick
<1>3. CASE RecoverExpired
  <2>1. Kept BY <1>3 DEF RecoverExpired, Expired, Leased, In
  <2> QED BY <1>3, <2>1, RecoverType DEF RecoverExpired
<1>4. ASSUME NEW j \in Job, Submit(j) PROVE TypeOK' /\ now' = now /\ Kept
  <2>1. Kept BY <1>4 DEF Submit, TypeOK
  <2> QED BY <1>4, <2>1, SubmitType DEF Submit
<1>5. ASSUME NEW d \in Dispatcher, NEW state \in {"completed", "queued", "failed"},
             SettlesLease(d, state)
      PROVE  TypeOK' /\ now' = now /\ Kept
  <2> DEFINE j == dispatch[d].job
             w == dispatch[d].worker
  <2>1. j \in Job /\ w \in Worker /\ Release(j, w, state) BY <1>5 DEF SettlesLease, Call
  <2> HIDE DEF j, w
  <2>2. Kept BY <2>1 DEF Release, LeasedOn, Leased, In, TypeOK
  <2> QED BY <2>1, <2>2, ReleaseType DEF Release
<1>6. ASSUME NEW w \in Worker, NEW offer, NEW pool, NEW j \in Job, NEW seconds \in LeaseSeconds,
             ChooseOnWorker(w, offer, pool, j, {}, seconds)
      PROVE  TypeOK' /\ now' = now /\ Kept
  <2>1. TypeOK' /\ now' = now BY <1>6, ChooseType DEF ChooseOnWorker
  <2>2. \/ jobs' = Stamped(j)
        \/ \E k \in Queued : jobs' = [Stamped(j) EXCEPT ![k] = Lease(k, w, seconds, {})]
    BY <1>6 DEF ChooseOnWorker, Candidates
  <2>3. Kept BY <2>2, StampedType DEF Queued, In
  <2> QED BY <2>1, <2>3
<1>7. ASSUME NEW j \in Job, jobs' = Stamped(j), now' = now
      PROVE  TypeOK' /\ now' = now /\ Kept
  BY <1>7, StampType, StampedType
<1> QED BY <1>1, <1>2, <1>3, <1>4, <1>5, <1>6, <1>7 DEF SchedulerStep, QuietCall

\* A lease stays until its deadline, unless a call on its job and worker is settled.
LEMMA LeaseStays ==
  ASSUME RemoteTypeOK, SchedulerStep, NEW k \in Leased, jobs[k].until > now,
         \A d \in Dispatcher : CallOn(d, k, jobs[k].owner) => dispatch'[d] # None
  PROVE  jobs'[k] = jobs[k]
<1> USE DEF RemoteTypeOK
<1>0. k \in Job /\ jobs[k].state = "leased" BY DEF Leased, In
<1>1. CASE UNCHANGED <<jobs, now>> \/ Tick BY <1>1 DEF Tick
<1>2. CASE RecoverExpired
  <2>1. k \notin Expired
    BY <1>0 DEF Expired, TypeOK, LeaseFields
  <2> QED BY <1>2, <1>0, <2>1 DEF RecoverExpired
<1>3. ASSUME NEW j \in Job, Submit(j) PROVE jobs'[k] = jobs[k]
  BY <1>0, <1>3 DEF Submit, TypeOK
<1>4. ASSUME NEW d \in Dispatcher, NEW state \in {"completed", "queued", "failed"},
             SettlesLease(d, state)
      PROVE  jobs'[k] = jobs[k]
  <2>1. dispatch[d].job # k
    BY <1>4 DEF SettlesLease, Release, LeasedOn, CallOn, Idle
  <2> QED BY <1>0, <1>4, <2>1 DEF SettlesLease, Release, TypeOK
<1>5. ASSUME NEW w \in Worker, NEW offer, NEW pool, NEW j \in Job, NEW seconds \in LeaseSeconds,
             ChooseOnWorker(w, offer, pool, j, {}, seconds)
      PROVE  jobs'[k] = jobs[k]
  <2>1. \/ jobs' = Stamped(j)
        \/ \E i \in Queued : jobs' = [Stamped(j) EXCEPT ![i] = Lease(i, w, seconds, {})]
    BY <1>5 DEF ChooseOnWorker, Candidates
  <2> QED BY <1>0, <2>1, StampedType DEF Queued, In
<1>6. ASSUME NEW j \in Job, jobs' = Stamped(j) PROVE jobs'[k] = jobs[k]
  BY <1>0, <1>6, StampedType
<1> QED BY <1>1, <1>2, <1>3, <1>4, <1>5, <1>6 DEF SchedulerStep, QuietCall

-----------------------------------------------------------------------------
(* Types                                                                   *)

LEMMA RemoteTypeStep ==
  ASSUME RemoteTypeOK, CallInv, [RemoteNext]_rvars
  PROVE  RemoteTypeOK'
<1> USE DispatchAssumption DEF RemoteTypeOK
<1>0. TypeOK' BY AnySchedulerStep, SchedulerStepKeeps
<1>1. ASSUME NEW w \in Worker, Register(w) \/ Heartbeat(w) \/ Revoke(w) PROVE RemoteTypeOK'
  <2>1. available' \subseteq Worker BY <1>1 DEF Register, Heartbeat, Revoke, Apply
  <2>2. CASE Register(w)
    BY <1>0, <2>1, <2>2 DEF Register, authority, network, history
  <2>3. CASE Heartbeat(w)
    BY <1>0, <2>1, <2>3 DEF Heartbeat, authority, network, history
  <2>4. CASE Revoke(w)
    BY <1>0, <2>1, <2>4 DEF Revoke, network
  <2> QED BY <1>1, <2>2, <2>3, <2>4
<1>2. ASSUME NEW d \in Dispatcher, NEW j \in Job, TakeJob(d, j) PROVE RemoteTypeOK'
  <2>1. dispatch' \in [Dispatcher -> Call \cup {None}]
    <3>1. CASE UNCHANGED dispatch BY <3>1
    <3>2. ASSUME NEW w \in available, NEW seconds \in LeaseSeconds,
                 NEW b \in BOOLEAN,
                 dispatch' = [dispatch EXCEPT ![d] =
                   [pc |-> "preparing", job |-> j, worker |-> w, until |-> now + seconds,
                    id |-> None, shadowed |-> b]]
          PROVE  dispatch' \in [Dispatcher -> Call \cup {None}]
      <4>1. now + seconds \in Nat BY TimeAssumption DEF TypeOK
      <4> QED BY <3>2, <4>1 DEF Call
    <3> QED BY <1>2, <3>1, <3>2 DEF TakeJob
  <2> QED BY <1>0, <1>2, <2>1 DEF TakeJob, identity, authority, network, history
<1>3. ASSUME NEW d \in Dispatcher, Issue(d) PROVE RemoteTypeOK'
  <2>1. dispatch[d] \in Call /\ nextLease \in Id BY <1>3 DEF Issue, In_, Id
  <2>2. LeaseOf(dispatch[d], nextLease) \in RemoteLease BY <2>1 DEF LeaseOf, RemoteLease, Call
  <2>3. dispatch' \in [Dispatcher -> Call \cup {None}] BY <1>3, <2>1 DEF Issue, Call
  <2>4. nextLease' \in 1..MaxLease + 1 BY <1>3 DEF Issue
  <2> QED BY <1>0, <1>3, <2>2, <2>3, <2>4 DEF Issue, identity, network, history
<1>4. ASSUME NEW d \in Dispatcher, Post(d) PROVE RemoteTypeOK'
  <2>1. dispatch[d] \in Call /\ dispatch[d].id \in Id
    BY <1>4 DEF Post, In_, Call, CallInv
  <2>2. LeaseOf(dispatch[d], dispatch[d].id) \in RemoteLease
    BY <2>1 DEF LeaseOf, RemoteLease, Call
  <2>3. 1..issued[dispatch[d].worker] \subseteq Token BY <2>1 DEF Call, Token
  <2>4. requests' \subseteq [lease : RemoteLease, token : Token] BY <1>4, <2>2, <2>3 DEF Post
  <2>5. dispatch' \in [Dispatcher -> Call \cup {None}] BY <1>4, <2>1 DEF Post, Call
  <2> QED BY <1>0, <1>4, <2>4, <2>5 DEF Post, identity, authority, history
<1>5. ASSUME NEW d \in Dispatcher, Answer(d) PROVE RemoteTypeOK'
  <2>1. dispatch[d] \in Call BY <1>5 DEF Answer, In_
  <2>2. Record(d) \in [dispatcher : Dispatcher, job : Job, worker : Worker,
                       id : Id \cup {None}, until : Nat]
    BY <2>1 DEF Record, Call
  <2> QED BY <1>0, <1>5, <2>2 DEF Answer, Conclude, Settle, authority, network
<1>6. ASSUME NEW d \in Dispatcher, \/ FactoryRaises(d) \/ StartLocal(d) \/ CallFails(d)
                                   \/ \E j \in Job : NoWorker(d, j)
      PROVE  RemoteTypeOK'
  <2>1. dispatch' \in [Dispatcher -> Call \cup {None}]
    BY <1>6 DEF FactoryRaises, StartLocal, CallFails, NoWorker, Settle, Call, In_
  <2> QED BY <1>0, <1>6, <2>1 DEF FactoryRaises, StartLocal, CallFails, NoWorker,
                                  identity, authority, network, history
<1>7. ASSUME NEW r \in requests, Authorize(r) PROVE RemoteTypeOK'
  <2>1. r.lease \in RemoteLease /\ r.token \in Token /\ r.lease.id \in Id
    BY DEF RemoteLease
  <2>2. now \in Nat BY TimeAssumption DEF TypeOK
  <2> QED BY <1>0, <1>7, <2>1, <2>2 DEF Authorize, identity
<1>8. ASSUME NEW e \in running, Die(e) PROVE RemoteTypeOK'
  BY <1>0, <1>8 DEF Die, identity, authority, history
<1>9. ASSUME NEW e \in running, NEW outcome \in Outcome, Finish(e, outcome) PROVE RemoteTypeOK'
  <2>1. e.lease \in RemoteLease /\ e.lease.id \in Id BY DEF RemoteLease
  <2> QED BY <1>0, <1>9, <2>1 DEF Finish, identity
<1>10. CASE UNCHANGED <<identity, authority, network, dispatch, nextLease, history>>
  BY <1>0, <1>10 DEF identity, authority, network, history
<1>11. CASE UNCHANGED rvars BY <1>11, <1>10 DEF rvars, identity, authority, network, history
<1> QED
  BY <1>1, <1>2, <1>3, <1>4, <1>5, <1>6, <1>7, <1>8, <1>9, <1>10, <1>11 DEF RemoteNext, Recover

-----------------------------------------------------------------------------
(* The life of a remote lease                                              *)

lifeVars == <<leases, used, running, replies, nextLease, runs, accepted, barred>>

LEMMA LifeStep ==
  ASSUME RemoteTypeOK, NonceInv, LeaseInv, [RemoteNext]_rvars
  PROVE  /\ NonceInv' /\ LeaseInv'
         /\ Ever \subseteq Ever' /\ accepted \subseteq accepted'
<1> DEFINE Goal == /\ NonceInv' /\ LeaseInv'
                   /\ Ever \subseteq Ever' /\ accepted \subseteq accepted'
<1>1. CASE UNCHANGED lifeVars
  BY <1>1 DEF lifeVars, NonceInv, LeaseInv, Ever, RevokedNeverAccepted
<1>2. ASSUME NEW w \in Worker, Revoke(w) PROVE Goal
  <2>1. leases' \subseteq leases /\ barred' = barred \cup (leases \ leases')
        /\ UNCHANGED <<used, running, replies, nextLease, runs, accepted>>
    BY <1>2 DEF Revoke, network
  <2>2. Ever' = Ever BY <2>1 DEF Ever
  <2>3. NonceInv' BY <2>1 DEF NonceInv
  <2> QED BY <2>1, <2>2, <2>3 DEF LeaseInv, RevokedNeverAccepted
<1>3. ASSUME NEW d \in Dispatcher, Issue(d) PROVE Goal
  <2> DEFINE l == LeaseOf(dispatch[d], nextLease)
  <2>1. /\ leases' = leases \cup {l} /\ l.id = nextLease /\ nextLease' = nextLease + 1
        /\ UNCHANGED <<used, running, replies, runs, accepted, barred>>
    BY <1>3 DEF Issue, LeaseOf, network, history
  <2> HIDE DEF l
  <2>2. Ever' = Ever \cup {l} BY <2>1 DEF Ever
  <2>3. \A m \in Ever : m.id \in Nat /\ m.id < nextLease
    BY DispatchAssumption DEF LeaseInv, Ever, RemoteTypeOK, RemoteLease, Id
  <2>4. nextLease \in Nat BY DispatchAssumption DEF RemoteTypeOK
  <2>5. l \notin Ever BY <2>1, <2>3, <2>4
  <2>6. \A m, n \in Ever' : m.id = n.id => m = n
    BY <2>1, <2>2, <2>3, <2>4 DEF LeaseInv
  <2>7. \A m \in Ever' : m.id < nextLease' BY <2>1, <2>2, <2>3, <2>4
  <2>8. leases' \cap (accepted' \cup barred') = {} BY <2>1, <2>5 DEF LeaseInv, Ever
  <2>9. NonceInv' BY <2>1 DEF NonceInv
  <2> QED BY <2>1, <2>2, <2>6, <2>7, <2>8, <2>9 DEF LeaseInv, RevokedNeverAccepted
<1>4. ASSUME NEW r \in requests, Authorize(r) PROVE Goal
  <2>1. r.lease.id \in Id /\ r.lease.id \notin used
    BY <1>4 DEF Authorize, MayExecute, RemoteTypeOK, RemoteLease
  <2>2. /\ used' = used \cup {r.lease.id}
        /\ runs' = [runs EXCEPT ![r.lease.id] = @ + 1]
        /\ \A e \in running' : e \in running \/ e.lease = r.lease
        /\ UNCHANGED <<leases, replies, nextLease, accepted, barred>>
    BY <1>4 DEF Authorize
  <2>3. \A i \in Id : runs'[i] = IF i \in used' THEN 1 ELSE 0
    BY <2>1, <2>2 DEF NonceInv, RemoteTypeOK
  <2>4. NonceInv' BY <2>2, <2>3 DEF NonceInv
  <2> QED BY <2>2, <2>4 DEF LeaseInv, Ever, RevokedNeverAccepted
<1>5. ASSUME NEW e \in running, NEW outcome \in Outcome, Finish(e, outcome) PROVE Goal
  <2>1. /\ e.lease \in leases /\ leases' = leases \ {e.lease}
        /\ accepted' = accepted \cup {e.lease} /\ running' = running \ {e}
        /\ replies' = replies \cup {[id |-> e.lease.id, outcome |-> outcome]}
        /\ UNCHANGED <<used, nextLease, runs, barred>>
    BY <1>5 DEF Finish, MayComplete
  <2>2. Ever' = Ever BY <2>1 DEF Ever
  <2>3. \A r \in replies' : \E l \in accepted' : l.id = r.id BY <2>1 DEF NonceInv
  <2>4. NonceInv' BY <2>1, <2>3 DEF NonceInv
  <2>5. leases' \cap (accepted' \cup barred') = {} /\ accepted' \cap barred' = {}
    BY <2>1 DEF LeaseInv, RevokedNeverAccepted
  <2> QED BY <2>1, <2>2, <2>4, <2>5 DEF LeaseInv, RevokedNeverAccepted
<1>6. ASSUME NEW e \in running, Die(e) PROVE Goal
  <2>1. running' \subseteq running
        /\ UNCHANGED <<leases, used, replies, nextLease, runs, accepted, barred>>
    BY <1>6 DEF Die, authority, history
  <2>2. NonceInv' BY <2>1 DEF NonceInv
  <2> QED BY <2>1, <2>2 DEF LeaseInv, Ever, RevokedNeverAccepted
<1>7. CASE \/ \E w \in Worker : Register(w) \/ Heartbeat(w)
           \/ \E d \in Dispatcher :
                \/ \E j \in Job : TakeJob(d, j) \/ NoWorker(d, j)
                \/ FactoryRaises(d) \/ StartLocal(d) \/ Post(d) \/ CallFails(d) \/ Answer(d)
  <2>1. UNCHANGED lifeVars
    BY <1>7 DEF lifeVars, Register, Heartbeat, TakeJob, NoWorker, FactoryRaises, StartLocal,
                Post, CallFails, Answer, authority, network, history
  <2> QED BY <1>1, <2>1
<1>8. CASE \/ UNCHANGED <<identity, authority, network, dispatch, nextLease, history>>
           \/ UNCHANGED rvars
  BY <1>1, <1>8 DEF lifeVars, rvars, authority, network, history
<1> QED
  BY <1>2, <1>3, <1>4, <1>5, <1>6, <1>7, <1>8 DEF RemoteNext, Recover

-----------------------------------------------------------------------------
(* Calls and results                                                       *)

\* A call goes on to one that has its job, worker and deadline, or ends.
CallGoesOn(d) ==
  \/ dispatch'[d] = None
  \/ /\ dispatch[d] # None
     /\ \A f \in {"job", "worker", "until", "shadowed"} : dispatch'[d][f] = dispatch[d][f]
     /\ \/ dispatch'[d].id = dispatch[d].id /\ (dispatch'[d].pc = "issued" => dispatch[d].pc = "issued")
        \/ LeaseOf(dispatch'[d], dispatch'[d].id) \in leases' /\ dispatch'[d].id # None
CallBegins(d) ==
  \E w \in Worker, j \in Job, seconds \in LeaseSeconds : \E offer, pool :
    /\ ChooseOnWorker(w, offer, pool, j, {}, seconds)
    /\ j \in Candidates(w, offer, pool, j, {})
    /\ dispatch' = [dispatch EXCEPT ![d] =
         [pc |-> "preparing", job |-> j, worker |-> w, until |-> now + seconds, id |-> None,
          shadowed |-> \E e \in Dispatcher : CallOn(e, j, w)]]

\* A step begins one call, or the calls go on.
LEMMA CallStep ==
  ASSUME RemoteTypeOK, [RemoteNext]_rvars
  PROVE  \/ \E d \in Dispatcher : CallBegins(d)
         \/ \A c \in Dispatcher : dispatch'[c] = dispatch[c] \/ CallGoesOn(c)
<1> DEFINE GoOn == \A c \in Dispatcher : dispatch'[c] = dispatch[c] \/ CallGoesOn(c)
<1> USE DEF RemoteTypeOK
<1>1. ASSUME NEW d \in Dispatcher, NEW j \in Job, TakeJob(d, j), dispatch' # dispatch
      PROVE  CallBegins(d)
  BY <1>1 DEF TakeJob, CallBegins
<1>2. ASSUME NEW d \in Dispatcher, Issue(d), NEW c \in Dispatcher
      PROVE  dispatch'[c] = dispatch[c] \/ CallGoesOn(c)
  <2>1. dispatch[d] \in Call /\ nextLease # None
    BY <1>2, DispatchAssumption, IdsAssumption DEF Issue, In_
  <2>2. /\ dispatch' = [dispatch EXCEPT ![d].pc = "issued", ![d].id = nextLease]
        /\ LeaseOf(dispatch[d], nextLease) \in leases'
    BY <1>2 DEF Issue
  <2>3. CASE c = d
    <3>1. /\ \A f \in {"job", "worker", "until", "shadowed"} : dispatch'[d][f] = dispatch[d][f]
          /\ dispatch'[d].id = nextLease
      BY <2>1, <2>2 DEF Call
    <3>2. LeaseOf(dispatch'[d], nextLease) = LeaseOf(dispatch[d], nextLease)
      BY <3>1 DEF LeaseOf
    <3> QED BY <1>2, <2>1, <2>2, <2>3, <3>1, <3>2 DEF CallGoesOn, Issue, In_
  <2> QED BY <2>2, <2>3
<1>3. ASSUME NEW d \in Dispatcher, StartLocal(d) \/ Post(d), NEW c \in Dispatcher
      PROVE  dispatch'[c] = dispatch[c] \/ CallGoesOn(c)
  <2>1. dispatch[d] \in Call /\ dispatch[d] # None
    BY <1>3 DEF StartLocal, Post, In_
  <2>2. dispatch' = [dispatch EXCEPT ![d].pc = "waiting"] BY <1>3 DEF StartLocal, Post
  <2> QED BY <2>1, <2>2 DEF CallGoesOn, Call
<1>4. ASSUME NEW d \in Dispatcher, FactoryRaises(d) \/ CallFails(d) \/ Answer(d),
             NEW c \in Dispatcher
      PROVE  dispatch'[c] = dispatch[c] \/ CallGoesOn(c)
  BY <1>4 DEF FactoryRaises, CallFails, Answer, Conclude, Settle, CallGoesOn
<1>5. CASE UNCHANGED dispatch BY <1>5
<1>6. CASE \/ \E w \in Worker : Register(w) \/ Heartbeat(w) \/ Revoke(w)
           \/ \E d \in Dispatcher, j \in Job : NoWorker(d, j)
           \/ \E r \in requests : Authorize(r)
           \/ \E e \in running : Die(e) \/ \E outcome \in Outcome : Finish(e, outcome)
  BY <1>6 DEF Register, Heartbeat, Revoke, NoWorker, Authorize, Die, Finish
<1>7. CASE UNCHANGED rvars BY <1>7 DEF rvars
<1>8. ASSUME NEW d \in Dispatcher, NEW j \in Job, TakeJob(d, j) PROVE CallBegins(d) \/ GoOn
  BY <1>1, <1>5, <1>8
<1> QED
  BY <1>8, <1>2, <1>3, <1>4, <1>5, <1>6, <1>7 DEF RemoteNext, Recover

LEMMA CallInvStep ==
  ASSUME RemoteTypeOK, NonceInv, LeaseInv, CallInv, [RemoteNext]_rvars
  PROVE  CallInv'
<1>1. Ever \subseteq Ever' /\ leases' \subseteq Ever' BY LifeStep DEF Ever
<1>2. ASSUME NEW d \in Dispatcher, dispatch'[d] = dispatch[d], dispatch'[d] # None
      PROVE  /\ dispatch'[d].pc = "issued" => dispatch'[d].id # None
             /\ dispatch'[d].id # None => LeaseOf(dispatch'[d], dispatch'[d].id) \in Ever'
  BY <1>1, <1>2 DEF CallInv
<1>3. ASSUME NEW d \in Dispatcher, CallGoesOn(d), dispatch'[d] # None
      PROVE  /\ dispatch'[d].pc = "issued" => dispatch'[d].id # None
             /\ dispatch'[d].id # None => LeaseOf(dispatch'[d], dispatch'[d].id) \in Ever'
  <2>1. ASSUME dispatch'[d].id = dispatch[d].id,
               dispatch'[d].pc = "issued" => dispatch[d].pc = "issued"
        PROVE  /\ dispatch'[d].pc = "issued" => dispatch'[d].id # None
               /\ dispatch'[d].id # None => LeaseOf(dispatch'[d], dispatch'[d].id) \in Ever'
    <3>1. LeaseOf(dispatch'[d], dispatch'[d].id) = LeaseOf(dispatch[d], dispatch[d].id)
      BY <1>3, <2>1 DEF CallGoesOn, LeaseOf
    <3> QED BY <1>1, <1>3, <2>1, <3>1 DEF CallInv, CallGoesOn
  <2> QED BY <1>1, <1>3, <2>1 DEF CallGoesOn
<1>4. ASSUME NEW d \in Dispatcher, CallBegins(d) PROVE CallInv'
  <2>1. dispatch'[d].pc = "preparing" /\ dispatch'[d].id = None
    BY <1>4 DEF CallBegins, RemoteTypeOK
  <2>2. \A e \in Dispatcher : e # d => dispatch'[e] = dispatch[e]
    BY <1>4 DEF CallBegins, RemoteTypeOK
  <2> QED BY <1>2, <2>1, <2>2 DEF CallInv
<1> QED BY <1>2, <1>3, <1>4, CallStep DEF CallInv

\* The record that a dispatch returns, if it returns one.
LEMMA ResultStep ==
  ASSUME RemoteTypeOK, [RemoteNext]_rvars, results' # results
  PROVE  \E d \in Dispatcher :
           /\ dispatch[d] \in Call /\ dispatch[d] # None
           /\ results' = results \cup {Record(d)}
           /\ jobs[dispatch[d].job].state = "leased"
           /\ jobs'[dispatch[d].job].state = "completed"
           /\ dispatch[d].id # None =>
                [id |-> dispatch[d].id, outcome |-> "completed"] \in replies
           /\ UNCHANGED <<leases, accepted>>
<1>1. ASSUME NEW d \in Dispatcher, Answer(d), results' # results
      PROVE  /\ dispatch[d] \in Call /\ dispatch[d] # None
             /\ results' = results \cup {Record(d)}
             /\ jobs[dispatch[d].job].state = "leased"
             /\ jobs'[dispatch[d].job].state = "completed"
             /\ dispatch[d].id # None =>
                  [id |-> dispatch[d].id, outcome |-> "completed"] \in replies
             /\ UNCHANGED <<leases, accepted>>
  <2>1. PICK outcome \in Outcome :
          /\ dispatch[d].id # None => [id |-> dispatch[d].id, outcome |-> outcome] \in replies
          /\ Conclude(d, outcome)
    BY <1>1 DEF Answer
  <2>2. /\ outcome = "completed" /\ results' = results \cup {Record(d)}
        /\ dispatch[d].job \in LeasedOn(dispatch[d].worker)
    BY <1>1, <2>1 DEF Conclude
  <2>3. dispatch[d] \in Call /\ dispatch[d] # None BY <1>1 DEF Answer, In_, RemoteTypeOK
  <2>4. Release(dispatch[d].job, dispatch[d].worker, "completed")
    BY <2>1, <2>2 DEF Conclude, Settle, Settled
  <2>5. dispatch[d].job \in Job /\ jobs[dispatch[d].job].state = "leased"
    BY <2>2 DEF LeasedOn, Leased, In
  <2>6. jobs'[dispatch[d].job].state = "completed"
    BY <2>4, <2>5 DEF Release, Fresh, RemoteTypeOK, TypeOK
  <2> QED BY <1>1, <2>1, <2>2, <2>3, <2>5, <2>6 DEF Answer, authority
<1>2. CASE \E d \in Dispatcher : Answer(d) BY <1>1, <1>2
<1>3. CASE \/ \E w \in Worker : Register(w) \/ Heartbeat(w) \/ Revoke(w)
           \/ \E d \in Dispatcher :
                \/ \E j \in Job : TakeJob(d, j) \/ NoWorker(d, j)
                \/ FactoryRaises(d) \/ StartLocal(d) \/ Issue(d) \/ Post(d) \/ CallFails(d)
           \/ \E r \in requests : Authorize(r)
           \/ \E e \in running : Die(e) \/ \E outcome \in Outcome : Finish(e, outcome)
           \/ UNCHANGED history \/ UNCHANGED rvars
  BY <1>3 DEF Register, Heartbeat, Revoke, TakeJob, NoWorker, FactoryRaises, StartLocal, Issue,
              Post, CallFails, Authorize, Die, Finish, history, rvars
<1> QED BY <1>2, <1>3 DEF RemoteNext, Recover

LEMMA ResultInvStep ==
  ASSUME RemoteTypeOK, NonceInv, LeaseInv, CallInv, ResultInv, [RemoteNext]_rvars
  PROVE  ResultInv'
<1>1. /\ \A j \in Job : jobs[j].state = "completed" => jobs'[j].state = "completed"
      /\ accepted \subseteq accepted'
  BY AnySchedulerStep, SchedulerStepKeeps, LifeStep
<1>2. \A r \in results : r.job \in Job BY DEF RemoteTypeOK
<1>3. CASE results' = results BY <1>1, <1>2, <1>3 DEF ResultInv
<1>4. CASE results' # results
  <2>1. PICK d \in Dispatcher :
           /\ dispatch[d] \in Call /\ dispatch[d] # None
           /\ results' = results \cup {Record(d)}
           /\ jobs[dispatch[d].job].state = "leased"
           /\ jobs'[dispatch[d].job].state = "completed"
           /\ dispatch[d].id # None =>
                [id |-> dispatch[d].id, outcome |-> "completed"] \in replies
           /\ UNCHANGED <<leases, accepted>>
    BY <1>4, ResultStep
  <2>2. /\ Record(d).job = dispatch[d].job /\ Record(d).id = dispatch[d].id
        /\ LeaseOf(Record(d), Record(d).id) = LeaseOf(dispatch[d], dispatch[d].id)
    BY DEF Record, LeaseOf
  <2>3. \A r \in results : r.job # dispatch[d].job BY <2>1 DEF ResultInv
  <2>4. ASSUME dispatch[d].id # None
        PROVE  LeaseOf(dispatch[d], dispatch[d].id) \in accepted
    <3> DEFINE l == LeaseOf(dispatch[d], dispatch[d].id)
    <3>1. l \in Ever BY <2>1, <2>4 DEF CallInv
    <3>2. PICK m \in accepted : m.id = dispatch[d].id
      <4>1. [id |-> dispatch[d].id, outcome |-> "completed"] \in replies BY <2>1, <2>4
      <4> QED BY <4>1 DEF NonceInv
    <3>3. l.id = m.id BY <3>2 DEF LeaseOf
    <3>4. m \in Ever BY DEF Ever
    <3> QED BY <3>1, <3>2, <3>3, <3>4 DEF LeaseInv
  <2>5. \A r \in results' : r \in results \/ r = Record(d) BY <2>1
  <2> HIDE DEF Record
  <2>6. \A r \in results' : jobs'[r.job].state = "completed"
    BY <1>1, <1>2, <2>1, <2>2, <2>5 DEF ResultInv
  <2>7. \A r, s \in results' : r.job = s.job => r = s
    BY <2>2, <2>3, <2>5 DEF ResultInv
  <2>8. \A r \in results' : r.id # None => LeaseOf(r, r.id) \in accepted'
    BY <1>1, <2>2, <2>4, <2>5 DEF ResultInv
  <2> QED BY <2>6, <2>7, <2>8 DEF ResultInv
<1> QED BY <1>3, <1>4

-----------------------------------------------------------------------------
(* The awaited lease                                                       *)

\* A call that begins has its job's lease, and no other call holds that lease.
LEMMA HeldAtStart ==
  ASSUME RemoteTypeOK, HeldInv, [RemoteNext]_rvars, NEW d \in Dispatcher, CallBegins(d)
  PROVE  HeldInv'
<1> USE DEF RemoteTypeOK
<1>1. PICK w \in Worker, j \in Job, seconds \in LeaseSeconds : \E offer, pool :
        /\ ChooseOnWorker(w, offer, pool, j, {}, seconds)
        /\ j \in Candidates(w, offer, pool, j, {})
        /\ dispatch' = [dispatch EXCEPT ![d] =
             [pc |-> "preparing", job |-> j, worker |-> w, until |-> now + seconds, id |-> None,
              shadowed |-> \E e \in Dispatcher : CallOn(e, j, w)]]
  BY DEF CallBegins
<1>2. PICK offer, pool :
        /\ ChooseOnWorker(w, offer, pool, j, {}, seconds)
        /\ j \in Candidates(w, offer, pool, j, {})
        /\ dispatch' = [dispatch EXCEPT ![d] =
             [pc |-> "preparing", job |-> j, worker |-> w, until |-> now + seconds, id |-> None,
              shadowed |-> \E e \in Dispatcher : CallOn(e, j, w)]]
  BY <1>1
<1> DEFINE c == dispatch'[d]
<1>3. /\ c.job = j /\ c.worker = w /\ c.until = now + seconds
      /\ c.shadowed = (\E e \in Dispatcher : CallOn(e, j, w))
      /\ \A e \in Dispatcher : e # d => dispatch'[e] = dispatch[e]
  BY <1>2
<1> HIDE DEF c
<1>4. j \in Queued /\ now' = now BY <1>2 DEF Candidates, ChooseOnWorker
<1>5. \A k \in Candidates(w, offer, pool, j, {}) : k = j
  BY IdsAssumption DEF Candidates, Matches
<1>6. jobs' = [Stamped(j) EXCEPT ![j] = Lease(j, w, seconds, {})]
  BY <1>2, <1>5 DEF ChooseOnWorker
<1>7. jobs'[j] = Lease(j, w, seconds, {}) /\ \A k \in Leased : jobs'[k] = jobs[k]
  BY <1>4, <1>6, StampedType DEF Leased, Queued, In
<1>8. j \in LeasedOn(w)' /\ jobs'[j].until = now + seconds
  BY <1>7 DEF Lease, LeasedOn, Leased, In
\* The job of another call that counts is leased, so it is not j.
<1>9. ASSUME NEW e \in Dispatcher, e # d, Counts(e)'
      PROVE  Counts(e) /\ dispatch[e].job # j /\ Held(e)'
  <2>1. Counts(e) BY <1>3, <1>4, <1>9 DEF Counts
  <2>2. Held(e) BY <2>1 DEF Counts, HeldInv, AwaitedLeaseHeld, Held
  <2>3. dispatch'[e] = dispatch[e] BY <1>3, <1>9
  <2> QED BY <1>4, <1>7, <2>1, <2>2, <2>3 DEF Held, LeasedOn, Leased, Queued, In
<1>10. AwaitedLeaseHeld'
  <2>1. Held(d)' BY <1>3, <1>8 DEF c, Held, LeasedOn
  <2>2. \A e \in Dispatcher : Counts(e)' => Held(e)' BY <1>9, <2>1
  <2> QED BY <2>2 DEF AwaitedLeaseHeld, Counts, Held
<1>11. Alone'
  <2> SUFFICES ASSUME NEW e \in Dispatcher, NEW f \in Dispatcher, e # f, Counts(e)'
               PROVE  ~CallOn(f, dispatch[e].job, dispatch[e].worker)'
    BY DEF Alone
  <2>1. CASE e = d
    <3>1. ~CallOn(f, j, w) BY <1>3, <2>1 DEF Counts, c
    <3> QED BY <1>3, <2>1, <3>1 DEF CallOn, Idle, c
  <2>2. CASE f = d BY <1>3, <1>9, <2>2 DEF CallOn, c
  <2>3. CASE e # d /\ f # d
    BY <1>3, <1>9, <2>3 DEF HeldInv, Alone, CallOn, Idle
  <2> QED BY <2>1, <2>2, <2>3
<1> QED BY <1>10, <1>11 DEF HeldInv

LEMMA HeldInvStep ==
  ASSUME RemoteTypeOK, HeldInv, [RemoteNext]_rvars
  PROVE  HeldInv'
<1>1. CASE \E d \in Dispatcher : CallBegins(d) BY <1>1, HeldAtStart
<1>2. CASE \A c \in Dispatcher : dispatch'[c] = dispatch[c] \/ CallGoesOn(c)
  <2>1. SchedulerStep BY AnySchedulerStep
  <2>2. now \in Nat /\ now' \in {now, now + 1}
    BY <2>1, SchedulerStepKeeps, TimeAssumption DEF RemoteTypeOK, TypeOK
  <2>3. ASSUME NEW d \in Dispatcher, dispatch'[d] # None
        PROVE  /\ dispatch[d] # None
               /\ dispatch'[d].job = dispatch[d].job /\ dispatch'[d].worker = dispatch[d].worker
               /\ dispatch'[d].until = dispatch[d].until
               /\ dispatch'[d].shadowed = dispatch[d].shadowed
    BY <1>2, <2>3 DEF CallGoesOn
  <2>4. ASSUME NEW d \in Dispatcher, Counts(d)'
        PROVE  Counts(d)
    <3>1. dispatch[d] \in Call BY <2>3, <2>4 DEF Counts, RemoteTypeOK
    <3> QED BY <2>2, <2>3, <2>4, <3>1 DEF Counts, Call
  <2>5. Alone'
    BY <2>3, <2>4 DEF HeldInv, Alone, CallOn, Idle, Counts
  <2>6. ASSUME NEW d \in Dispatcher, Counts(d)'
        PROVE  Held(d)'
    <3> DEFINE k == dispatch[d].job
    <3>0. Held(d) BY <2>4, <2>6 DEF HeldInv, AwaitedLeaseHeld, Counts, Held
    <3>1. /\ k \in LeasedOn(dispatch[d].worker) /\ jobs[k].until = dispatch[d].until
          /\ dispatch[d].until > now
      BY <2>4, <2>6, <3>0 DEF Held, Counts
    <3>2. k \in Leased /\ jobs[k].owner = dispatch[d].worker BY <3>1 DEF LeasedOn
    <3>3. \A e \in Dispatcher : CallOn(e, k, jobs[k].owner) => dispatch'[e] # None
      BY <2>4, <2>6, <3>2 DEF HeldInv, Alone, Counts
    <3>4. jobs'[k] = jobs[k] BY <2>1, <3>1, <3>2, <3>3, LeaseStays
    <3>5. dispatch'[d].job = k /\ dispatch'[d].worker = dispatch[d].worker
          /\ dispatch'[d].until = dispatch[d].until
      BY <2>3, <2>6 DEF Counts
    <3> QED BY <3>1, <3>2, <3>4, <3>5 DEF Held, LeasedOn, Leased, In
  <2>7. AwaitedLeaseHeld'
    BY <2>6 DEF AwaitedLeaseHeld, Counts, Held
  <2> QED BY <2>5, <2>7 DEF HeldInv
<1> QED BY <1>1, <1>2, CallStep

-----------------------------------------------------------------------------
(* The theorems                                                            *)

LEMMA RemoteInit_Inv == RemoteInit => RemoteInv
<1> SUFFICES ASSUME RemoteInit PROVE RemoteInv OBVIOUS
<1> USE DEF RemoteInit
<1>1. RemoteTypeOK
  BY InitType, DispatchAssumption DEF RemoteTypeOK, Id
<1>2. NonceInv /\ LeaseInv BY DEF NonceInv, LeaseInv, Ever, RevokedNeverAccepted
<1>3. CallInv /\ ResultInv /\ HeldInv
  BY DEF CallInv, ResultInv, HeldInv, Alone, AwaitedLeaseHeld, Counts
<1> QED BY <1>1, <1>2, <1>3 DEF RemoteInv

LEMMA RemoteStep_Inv == RemoteInv /\ [RemoteNext]_rvars => RemoteInv'
BY RemoteTypeStep, LifeStep, CallInvStep, ResultInvStep, HeldInvStep DEF RemoteInv

LEMMA RemoteInvariant == RemoteSpec => []RemoteInv
BY RemoteInit_Inv, RemoteStep_Inv, PTL DEF RemoteSpec

\* Jobs, tokens, leases, messages and calls are well formed under every loss,
\* repetition and delay.
THEOREM RemoteTypeCorrect == RemoteSpec => []RemoteTypeOK
BY RemoteInvariant, PTL DEF RemoteInv

\* A single-use nonce is enough: however often and late a request arrives, its
\* lease is executed at most once (authorize_execution).
THEOREM ExecutedOnce == RemoteSpec => []RunsOnce
<1>1. RemoteInv => RunsOnce BY DEF RemoteInv, NonceInv, RunsOnce
<1> QED BY <1>1, RemoteInvariant, PTL

\* What a revocation took away is never accepted (revoke, complete_lease).
THEOREM RevokedStaysRevoked == RemoteSpec => []RevokedNeverAccepted
BY RemoteInvariant, PTL DEF RemoteInv, LeaseInv

\* At most one COMPLETED record per task, and a remote one goes back to the one
\* execution whose completion was accepted (WorkerFabric.dispatch).
THEOREM CompletedOnce == RemoteSpec => []OneResult
<1>1. RemoteInv => OneResult
  <2> SUFFICES ASSUME RemoteInv, NEW r \in results, r.id # None PROVE runs[r.id] = 1
    BY DEF RemoteInv, ResultInv, OneResult
  <2>1. LeaseOf(r, r.id) \in accepted BY DEF RemoteInv, ResultInv
  <2>2. r.id \in used BY <2>1 DEF RemoteInv, NonceInv, LeaseOf
  <2> QED BY <2>2 DEF RemoteInv, RemoteTypeOK, NonceInv
<1> QED BY <1>1, RemoteInvariant, PTL

\* A dispatcher's lease is its own until the deadline, if no older call shared its
\* job and worker.
THEOREM LeaseHeldWhileAwaited == RemoteSpec => []AwaitedLeaseHeld
BY RemoteInvariant, PTL DEF RemoteInv, HeldInv
=============================================================================
