-------------------------- MODULE GpuAwareScheduler --------------------------
(***************************************************************************)
(* src/studio/gpu_aware_scheduler.py: a wrapper that selects physical GPUs *)
(* for a job and then leases whichever job the scheduler core prefers.     *)
(*                                                                         *)
(* select_gpus is abstracted to the GPU sets it could select on a worker   *)
(* for a job, Admissible; it raises when none of them is free.  The empty  *)
(* set of them stands for a worker without a hardware observation.         *)
(***************************************************************************)
EXTENDS Scheduler

CONSTANTS
  Needs,          \* Needs[j]: min_gpu_count, or 0 when hardware is None
  Admissible      \* Admissible[w][j]: GPU sets select_gpus accepts on w for j

ASSUME NeedsAssumption ==
  /\ Needs \in [Job -> Nat]
  /\ Admissible \in [Worker -> [Job -> SUBSET SUBSET Gpu]]
  /\ \A gpus \in SUBSET Gpu : gpus # None

VARIABLE alloc    \* GpuAwareScheduler._allocations; None: no entry

gvars == <<jobs, now, alloc>>

Allocated(j) == IF alloc[j] = None THEN {} ELSE alloc[j]
Used == UNION {Allocated(j) : j \in Leased}
\* What could be selected for j on w; nothing selected is still a choice for a
\* job without hardware requirements.
Selections(w, j) ==
  IF Needs[j] = 0 THEN {{}} ELSE {S \in Admissible[w][j] : S \cap Used = {}}

AwareInit == Init /\ alloc = [j \in Job |-> None]

\* choose_on_worker: the first queued job by id with a selection decides the
\* GPUs, the scheduler core decides the job, with no power to spend.  Later
\* jobs are tried only if the core leases nothing, and then it does so again.
AwareChoose(w, offer, seconds) ==
  LET S == {j \in Queued : Selections(w, j) # {}}
  IN /\ S # {}
     /\ \E first \in S :
          /\ \A j \in S : first <= j
          /\ ChooseOnWorker(w, offer, 0, None, {}, seconds)
          /\ \E gpus \in Selections(w, first) :
               alloc' = [j \in Job |->
                           IF j \in Queued /\ jobs'[j].state = "leased" THEN gpus
                                                                    ELSE alloc[j]]

\* Mutant of AwareRelease: the entry is not popped.
AwareReleaseKeepsEntry(j, w, state) == Release(j, w, state) /\ UNCHANGED alloc
AwareRelease(j, w, state) ==
  /\ Release(j, w, state)
  /\ alloc' = [alloc EXCEPT ![j] = None]

AwareRecover ==
  /\ RecoverExpired
  /\ alloc' = [j \in Job |-> IF j \in Expired THEN None ELSE alloc[j]]

AwareNext ==
  \/ \E j \in Job : Submit(j) /\ UNCHANGED alloc
  \/ \E w \in Worker : \E offer \in Offer[w], seconds \in LeaseSeconds :
       AwareChoose(w, offer, seconds)
  \/ \E j \in Job, w \in Worker, state \in {"completed", "queued", "failed"} :
       AwareRelease(j, w, state)
  \/ AwareRecover
  \/ Tick /\ UNCHANGED alloc

-----------------------------------------------------------------------------
\* The wrapper's map and the scheduler's leases agree through every release and
\* recovery, and no GPU is allocated to two leased jobs, although the job GPUs
\* are selected for and the job they are recorded for may differ.
AllocationsFollow ==
  /\ \A j \in Job : alloc[j] # None <=> j \in Leased
  /\ \A j, k \in Leased : j # k => Allocated(j) \cap Allocated(k) = {}
=============================================================================
