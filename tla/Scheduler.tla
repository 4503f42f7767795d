------------------------------ MODULE Scheduler ------------------------------
(***************************************************************************)
(* The deterministic scheduler core, src/studio/scheduler.py: jobs wait in *)
(* a queue, are leased to a worker until a deadline, and leave the lease   *)
(* by completion, failure, an explicit requeue or recovery after expiry.   *)
(*                                                                         *)
(* A job is a number (its id's place in the sort order of ids).  What a    *)
(* set of jobs requires in total is the constant Demand (watts: Power), an *)
(* additive measure: it is all of `sum(item.slots for item in ...)` that   *)
(* the scheduler's arithmetic relies on.  The memory, vram and scratch     *)
(* fields are guarded alike, so they are elements of one set Resource.     *)
(* Capability and engine subsets are the set of jobs a worker Supports.    *)
(***************************************************************************)
EXTENDS Integers, FiniteSets

CONSTANTS
  Job,            \* job ids, numbered in their sort order
  Worker,
  Gpu,            \* GPU uuids
  Resource,       \* "slots" and the optional byte quantities
  Demand,         \* Demand[S][r]: what the jobs of S require of r, together
  Power,          \* Power[S]: watts the jobs of S require, together
  Supports,       \* Supports[w]: jobs whose capabilities and engines w has
  Offer,          \* Offer[w]: capacities w may be observed with
  PoolPower,      \* power budgets a caller passes
  Wanted,         \* job_id arguments: None (any job) or a job
  Priority,
  AgingInterval,  \* AGING_INTERVAL_SECONDS
  LeaseSeconds,   \* lease durations a caller passes
  MaxTime,        \* the clock stops here
  None

ASSUME IdsAssumption == Job \subseteq Nat /\ None \notin Worker \cup Int
ASSUME TimeAssumption ==
  /\ MaxTime \in Nat
  /\ AgingInterval \in Nat \ {0}
  /\ LeaseSeconds \subseteq Nat \ {0}
  /\ Priority \in [Job -> Int]
ASSUME DemandAssumption ==
  /\ "slots" \in Resource
  /\ Demand \in [SUBSET Job -> [Resource -> Nat]]
  /\ \A S \in SUBSET Job : \A T \in SUBSET (Job \ S) : \A r \in Resource :
        Demand[S \cup T][r] = Demand[S][r] + Demand[T][r]
ASSUME PowerAssumption ==
  /\ Power \in [SUBSET Job -> Nat]
  /\ \A S \in SUBSET Job : \A T \in SUBSET (Job \ S) :
        Power[S \cup T] = Power[S] + Power[T]
ASSUME CallerAssumption ==
  /\ Supports \in [Worker -> SUBSET Job]
  /\ Offer \in [Worker -> SUBSET [Resource -> Nat]]
  /\ PoolPower \subseteq Nat
  /\ Wanted \subseteq Job \cup {None}

VARIABLES
  jobs,           \* Scheduler._jobs; a job not yet submitted is "absent"
  now             \* the seconds the callers pass in

vars == <<jobs, now>>

JobState == {"absent", "queued", "leased", "completed", "failed"}
JobRecord == [state    : JobState,
              owner    : Worker \cup {None},   \* lease_owner
              until    : Nat \cup {None},      \* lease_until
              gpus     : SUBSET Gpu,           \* allocated_gpu_uuids
              queuedAt : Nat \cup {None}]
\* The lease fields are set exactly while the job is leased.
LeaseFields ==
  \A j \in Job :
    IF jobs[j].state = "leased"
      THEN /\ jobs[j].owner # None
           /\ jobs[j].until \in 0..MaxTime
           /\ jobs[j].queuedAt \in 0..now
      ELSE /\ jobs[j].owner = None
           /\ jobs[j].until = None
           /\ jobs[j].gpus = {}
           /\ jobs[j].queuedAt \in 0..now \cup {None}
           /\ jobs[j].state = "absent" => jobs[j].queuedAt = None
TypeOK == jobs \in [Job -> JobRecord] /\ now \in 0..MaxTime /\ LeaseFields

In(state) == {j \in Job : jobs[j].state = state}
Queued == In("queued")
Leased == In("leased")
LeasedOn(w) == {j \in Leased : jobs[j].owner = w}
\* Mutant of GpusOn: a lease past its deadline no longer counts.
GpusOnUnexpired(w) == UNION {jobs[j].gpus : j \in {k \in LeasedOn(w) : jobs[k].until > now}}
GpusOn(w) == UNION {jobs[j].gpus : j \in LeasedOn(w)}

Fresh(state, queuedAt) ==
  [state |-> state, owner |-> None, until |-> None, gpus |-> {},
   queuedAt |-> queuedAt]

-----------------------------------------------------------------------------
(* Queue order: effective priority first, then age, then id.               *)

QueuedAt(j) == IF jobs[j].queuedAt = None THEN now ELSE jobs[j].queuedAt
Effective(j) == Priority[j] + (now - QueuedAt(j)) \div AgingInterval
\* Mutant of Before: the waiting time does not break ties.
BeforeIgnoringAge(j, k) ==
  \/ Effective(j) > Effective(k)
  \/ Effective(j) = Effective(k) /\ j < k
Before(j, k) ==
  \/ Effective(j) > Effective(k)
  \/ /\ Effective(j) = Effective(k)
     /\ \/ QueuedAt(j) < QueuedAt(k)
        \/ QueuedAt(j) = QueuedAt(k) /\ j < k

\* The first of the jobs S in queue order.
First(j, S) == j \in S /\ \A k \in S \ {j} : Before(j, k)

\* _fits over one worker: capacity observed as offer, jobs S already on it.
Fits(j, offer, S) ==
  \A r \in Resource :
    (r = "slots" \/ Demand[{j}][r] > 0) =>
      offer[r] - Demand[S][r] >= Demand[{j}][r]

\* A call for job `wanted` (None: any) stamps the jobs it considers.
Matches(j, wanted) == wanted \in {None, j}
Stamped(wanted) ==
  [j \in Job |->
     IF j \in Queued /\ Matches(j, wanted)
       THEN [jobs[j] EXCEPT !.queuedAt = QueuedAt(j)] ELSE jobs[j]]

Lease(j, w, seconds, gpus) ==
  [state |-> "leased", owner |-> w, until |-> now + seconds, gpus |-> gpus,
   queuedAt |-> QueuedAt(j)]

-----------------------------------------------------------------------------
Init == jobs = [j \in Job |-> Fresh("absent", None)] /\ now = 0

Submit(j) ==
  /\ jobs[j].state = "absent"
  /\ jobs' = [jobs EXCEPT ![j] = Fresh("queued", None)]
  /\ UNCHANGED now

\* Mutant of Expired: a lease is seen to have expired only at its very deadline.
ExpiredExactly == {j \in Leased : jobs[j].until = now}
Expired == {j \in Leased : jobs[j].until <= now}
RecoverExpired ==
  /\ jobs' = [j \in Job |-> IF j \in Expired
                              THEN Fresh("queued", jobs[j].queuedAt)
                              ELSE jobs[j]]
  /\ UNCHANGED now

\* Jobs choose_on_worker could lease to w, in whatever order.
Candidates(w, offer, pool, wanted, gpus) ==
  IF GpusOn(w) \cap gpus # {} THEN {}
  ELSE {j \in Queued \cap Supports[w] :
          /\ Matches(j, wanted)
          /\ pool - Power[Leased] >= Power[{j}]
          /\ Fits(j, offer, LeasedOn(w))}

\* choose_on_worker for a healthy worker; an unhealthy one changes nothing.
\* The jobs considered keep their stamp when no job is leased.
ChooseOnWorker(w, offer, pool, wanted, gpus, seconds) ==
  /\ now + seconds <= MaxTime
  /\ LET S == Candidates(w, offer, pool, wanted, gpus)
     IN \/ S = {} /\ jobs' = Stamped(wanted)
        \/ \E j \in S :
             /\ First(j, S)
             /\ jobs' = [Stamped(wanted) EXCEPT ![j] = Lease(j, w, seconds, gpus)]
  /\ UNCHANGED now

Release(j, w, state) ==
  /\ j \in LeasedOn(w)
  /\ jobs' = [jobs EXCEPT ![j] = Fresh(state, jobs[j].queuedAt)]
  /\ UNCHANGED now
Complete(j, w) == Release(j, w, "completed")
Requeue(j, w) == Release(j, w, "queued")
Fail(j, w) == Release(j, w, "failed")

Tick == now < MaxTime /\ now' = now + 1 /\ UNCHANGED jobs

Choosing ==
  \E w \in Worker : \E offer \in Offer[w], pool \in PoolPower, wanted \in Wanted,
                       gpus \in SUBSET Gpu, seconds \in LeaseSeconds :
    ChooseOnWorker(w, offer, pool, wanted, gpus, seconds)
Releasing ==
  \E j \in Job, w \in Worker : Complete(j, w) \/ Requeue(j, w) \/ Fail(j, w)

Next ==
  \/ \E j \in Job : Submit(j)
  \/ RecoverExpired
  \/ Choosing
  \/ Releasing
  \/ Tick

Spec == Init /\ [][Next]_vars

\* Time passes, and the driver polls recover_expired.
Fairness == WF_vars(Tick) /\ WF_vars(RecoverExpired)
FairSpec == Spec /\ Fairness

-----------------------------------------------------------------------------
(* Safety *)

\* A GPU of a worker is bound to at most one leased job, whichever jobs were
\* leased, recovered, requeued and leased again in between (choose_on_worker).
GpuExclusive ==
  \A j, k \in Leased :
    j # k /\ jobs[j].owner = jobs[k].owner => jobs[j].gpus \cap jobs[k].gpus = {}

\* However observations change between leases, the jobs leased to a worker
\* never require more of a resource than the worker was once observed to have.
CapacityRespected ==
  \A w \in Worker : LeasedOn(w) # {} =>
    \A r \in Resource : \E offer \in Offer[w] : Demand[LeasedOn(w)][r] <= offer[r]

\* Nor do all leased jobs together draw more power than the largest budget.
PowerRespected ==
  Leased # {} => \E pool \in PoolPower : Power[Leased] <= pool

\* The age of a job is counted from the first call that considered it: no
\* lease, recovery, requeue or later call moves that time.
WaitingTimeKept ==
  [][\A j \in Job : jobs[j].queuedAt # None => jobs'[j].queuedAt = jobs[j].queuedAt]_vars

\* j can be leased wherever and whenever k can.
NoHarderThan(j, k) ==
  /\ \A r \in Resource : Demand[{j}][r] <= Demand[{k}][r]
  /\ Power[{j}] <= Power[{k}]
  /\ \A w \in Worker : k \in Supports[w] => j \in Supports[w]

\* This step leases k past j, which has waited longer and is no less important.
Overtaken(j, k) ==
  /\ jobs'[k].state = "leased" /\ jobs'[j].state = "queued"
  /\ QueuedAt(j) < QueuedAt(k) /\ Priority[j] >= Priority[k]

\* No job is leased past one that has waited longer, is at least as important
\* and no harder to place.
InQueueOrder == \A j, k \in Queued : ~(Overtaken(j, k) /\ NoHarderThan(j, k))

\* Callers that ask for any job (the production coordinator) keep that order,
\* whatever requeues and recoveries came before.
NoOvertaking == [][InQueueOrder]_vars

(* Refinement *)

\* The scheduler as JobLifecycle's callers see it.
Lifecycle == INSTANCE JobLifecycle WITH
  Nobody <- None,
  state  <- [j \in Job |-> jobs[j].state],
  holder <- [j \in Job |-> jobs[j].owner]

\* Whatever the order, capacities, GPUs and expiries, each call is one step of
\* the lifecycle or is invisible in it: one holder, finished once, from its lease.
ImplementsLifecycle == Lifecycle!Spec

\* With a clock and a recovery poll, no job stays with a silent worker forever.
ImplementsFairLifecycle == Lifecycle!FairSpec
=============================================================================
