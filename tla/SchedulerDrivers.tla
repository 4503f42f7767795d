-------------------------- MODULE SchedulerDrivers --------------------------
(***************************************************************************)
(* The scheduler core under each of the drivers the source has for it:     *)
(*   broker     choose_on_worker for a named job on GPUs it has placed     *)
(*              (ComputeBroker.lease)                                      *)
(*   worker     choose_on_worker for any job (ProductionCoordinator.lease) *)
(*   pool       choose, which looks at the pool of all healthy workers     *)
(*              rather than at the worker that takes the job               *)
(*   gpu_aware  the wrapper GpuAwareScheduler                              *)
(* A driver keeps to one of them.  A snapshot of the pool is what `sum` and*)
(* `max` over its healthy workers give.                                    *)
(***************************************************************************)
EXTENDS GpuAwareScheduler

CONSTANT PoolOffer   \* [total, largest, supports, watts] of the pool

ASSUME PoolAssumption ==
  PoolOffer \subseteq [total : [Resource -> Nat], largest : [Resource -> Nat],
                       supports : SUBSET Job, watts : Nat]

VARIABLE driver

dvars == <<jobs, now, alloc, driver>>

Driver == {"broker", "worker", "pool", "gpu_aware"}

\* Mutant of PoolFits: leased jobs are not subtracted.
PoolFitsIgnoringLeases(j, pool) ==
  /\ j \in pool.supports
  /\ pool.watts >= Power[{j}]
  /\ \A r \in Resource : pool.total[r] >= Demand[{j}][r] /\ pool.largest[r] >= Demand[{j}][r]
PoolFits(j, pool) ==
  /\ j \in pool.supports
  /\ Power[{j}] > 0 => pool.watts - Power[Leased] >= Power[{j}]
  /\ \A r \in Resource :
       /\ (r = "slots" \/ Demand[{j}][r] > 0) =>
            pool.total[r] - Demand[Leased][r] >= Demand[{j}][r]
       /\ r # "slots" => pool.largest[r] >= Demand[{j}][r]

\* choose keeps the job's GPUs, and a queued job has none.
Choose(w, pool, seconds) ==
  /\ now + seconds <= MaxTime
  /\ LET S == {j \in Queued : PoolFits(j, pool)}
     IN \/ S = {} /\ jobs' = Stamped(None)
        \/ \E j \in S :
             /\ First(j, S)
             /\ jobs' = [Stamped(None) EXCEPT ![j] = Lease(j, w, seconds, jobs[j].gpus)]
  /\ UNCHANGED now

PoolChoosing ==
  \E w \in Worker, pool \in PoolOffer, seconds \in LeaseSeconds : Choose(w, pool, seconds)
WorkerChoosing ==
  \E w \in Worker : \E offer \in Offer[w], pool \in PoolPower, seconds \in LeaseSeconds :
    ChooseOnWorker(w, offer, pool, None, {}, seconds)

DriversInit == AwareInit /\ driver \in Driver
DriversNext ==
  /\ \/ driver = "gpu_aware" /\ AwareNext
     \/ /\ driver # "gpu_aware"
        /\ \/ \E j \in Job : Submit(j)
           \/ RecoverExpired
           \/ driver = "broker" /\ Choosing
           \/ driver = "worker" /\ WorkerChoosing
           \/ driver = "pool" /\ PoolChoosing
           \/ Releasing
           \/ Tick
        /\ UNCHANGED alloc
  /\ UNCHANGED driver

DriversSpec == DriversInit /\ [][DriversNext]_dvars /\ Fairness

-----------------------------------------------------------------------------
\* Leased jobs fit in what they were leased against, whatever was observed,
\* recovered and leased again since.  choose looks at the pool alone, never at
\* the worker that takes the job, and keeps all leases together within the pool;
\* the other drivers keep those of each worker within that worker.
LeasesFit ==
  /\ driver = "pool" =>
       /\ Leased # {} =>
            \A r \in Resource : \E pool \in PoolOffer : Demand[Leased][r] <= pool.total[r]
       /\ Power[Leased] > 0 => \E pool \in PoolOffer : Power[Leased] <= pool.watts
  /\ driver # "pool" => CapacityRespected

\* The wrapper and the core agree on what is held, for its own driver.
WrapperAgrees == driver = "gpu_aware" => AllocationsFollow

\* choose asks the pool what it supports, not each worker: j can be leased
\* whenever k can if the pool supports it whenever it supports k.
NoHarderInPool(j, k) ==
  \A pool \in PoolOffer : k \in pool.supports => j \in pool.supports
PoolInQueueOrder ==
  \A j, k \in Queued : ~(Overtaken(j, k) /\ NoHarderThan(j, k) /\ NoHarderInPool(j, k))

\* A driver that asks for any job never leases a younger one past an older, no
\* less important and no harder one, whatever requeues and recoveries came before.
AnyJobInOrder ==
  [][/\ driver \in {"worker", "gpu_aware"} => InQueueOrder
     /\ driver = "pool" => PoolInQueueOrder]_dvars
=============================================================================
