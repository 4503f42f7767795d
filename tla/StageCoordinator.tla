-------------------------- MODULE StageCoordinator --------------------------
(***************************************************************************)
(* src/studio/coordinator.py over the scheduler core: production stages    *)
(* are submitted, leased and completed through ProductionCoordinator, whose*)
(* handoff metadata (source hash, output reference) goes to one SQLite     *)
(* file at each call, while the driver saves the scheduler's snapshot to   *)
(* another whenever it sees fit (SQLiteSchedulerStore.save).               *)
(*                                                                         *)
(* One driver thread makes the calls.  A write to the handoff store may    *)
(* raise after the scheduler's memory has changed; the driver then carries *)
(* on.  A crash in the middle of a call, before its write, leaves the two  *)
(* files as a crash before the call does, so calls need no inner steps.    *)
(***************************************************************************)
EXTENDS Scheduler

CONSTANTS
  Hash,           \* canonical source hashes; None is the empty string
  Output          \* output references; None is the empty string

VARIABLES
  stages,         \* ProductionCoordinator._stage_jobs; None: unknown
  dbJobs,         \* scheduler_jobs rows
  dbStages,       \* coordinator_stage_jobs rows; None: no row
  lost            \* jobs whose handoff write has raised (history)

stored == <<dbJobs, dbStages, lost>>
cvars == <<jobs, now, stages, dbJobs, dbStages, lost>>

StageJob == [hash : Hash \cup {None}, output : Output \cup {None}]
Stage(hash, output) == [hash |-> hash, output |-> output]

ASSUME HandoffAssumption == None \notin StageJob /\ None \notin Output

CoordinatorTypeOK ==
  /\ TypeOK
  /\ stages \in [Job -> StageJob \cup {None}]
  /\ dbJobs \in [Job -> JobRecord]
  /\ dbStages \in [Job -> StageJob \cup {None}]
  /\ lost \subseteq Job
  /\ \A j \in Job : stages[j] = None <=> jobs[j].state = "absent"

-----------------------------------------------------------------------------
CoordinatorInit ==
  /\ Init
  /\ stages = [j \in Job |-> None]
  /\ dbJobs = jobs
  /\ dbStages = [j \in Job |-> None]
  /\ lost = {}

\* CoordinatorStore.save at the end of a call: an upsert, or an exception.
SaveStage(j, row) ==
  \/ dbStages' = [dbStages EXCEPT ![j] = row] /\ UNCHANGED lost
  \/ lost' = lost \cup {j} /\ UNCHANGED dbStages

SubmitStage(j, hash) ==
  /\ Submit(j)
  /\ stages' = [stages EXCEPT ![j] = Stage(hash, None)]
  /\ SaveStage(j, Stage(hash, None))
  /\ UNCHANGED dbJobs

\* lease: any job, against this worker's capacity and the pool's power.
LeaseStage(w) ==
  /\ \E offer \in Offer[w], pool \in PoolPower, seconds \in LeaseSeconds :
       ChooseOnWorker(w, offer, pool, None, {}, seconds)
  /\ UNCHANGED <<stages, stored>>

\* Mutant of CompleteStage: the row saved is the one from before.
CompleteStageSavesOld(j, w, output) ==
  /\ stages[j] # None
  /\ Complete(j, w)
  /\ stages' = [stages EXCEPT ![j].output = output]
  /\ SaveStage(j, stages[j])
  /\ UNCHANGED dbJobs
\* Mutant of CompleteStage: the row is written whoever holds the lease.
CompleteStageUnheld(j, w, output) ==
  /\ stages[j] # None
  /\ IF j \in LeasedOn(w) THEN Complete(j, w) ELSE UNCHANGED <<jobs, now>>
  /\ stages' = [stages EXCEPT ![j].output = output]
  /\ SaveStage(j, stages'[j])
  /\ UNCHANGED dbJobs
CompleteStage(j, w, output) ==
  /\ stages[j] # None
  /\ Complete(j, w)
  /\ stages' = [stages EXCEPT ![j].output = output]
  /\ SaveStage(j, stages'[j])
  /\ UNCHANGED dbJobs

\* The driver holds the scheduler too: it recovers, requeues and fails jobs.
Unwind ==
  /\ RecoverExpired \/ \E j \in Job, w \in Worker : Requeue(j, w) \/ Fail(j, w)
  /\ UNCHANGED <<stages, stored>>

SaveScheduler ==
  /\ dbJobs' = jobs
  /\ UNCHANGED <<jobs, now, stages, dbStages, lost>>

\* ProductionCoordinator.__init__: rows overlay the jobs the scheduler knows.
Overlay(j) ==
  IF dbJobs[j].state = "absent" THEN None
  ELSE IF dbStages[j] = None THEN Stage(None, None) ELSE dbStages[j]

\* The process dies between two calls and starts again from the two files.
Restart ==
  /\ jobs' = dbJobs
  /\ stages' = [j \in Job |-> Overlay(j)]
  /\ UNCHANGED <<now, stored>>

CoordinatorNext ==
  \/ \E j \in Job, hash \in Hash \cup {None} : SubmitStage(j, hash)
  \/ \E w \in Worker : LeaseStage(w)
  \/ \E j \in Job, w \in Worker, output \in Output : CompleteStage(j, w, output)
  \/ Unwind
  \/ SaveScheduler
  \/ Restart
  \/ Tick /\ UNCHANGED <<stages, stored>>

CoordinatorSpec == CoordinatorInit /\ [][CoordinatorNext]_cvars

-----------------------------------------------------------------------------
Known(j) == dbJobs[j].state # "absent"

\* However saves and crashes fall between the two files, a stage the durable
\* scheduler has as completed has its durable output, unless that very write
\* raised (coordinator.complete before the driver's save).
CompletedHasOutput ==
  \A j \in Job \ lost :
    dbJobs[j].state = "completed" => dbStages[j] # None /\ dbStages[j].output # None

\* A stage that is durably completed keeps its output and its source hash across
\* every later call, save and restart, and is never redone; the source hash stays
\* from the submission of a stage the durable scheduler knows, whoever completes
\* it and after however many restarts, unless one of its writes raised.
HandoffKept ==
  [][\A j \in Job :
       /\ dbJobs[j].state = "completed" =>
            /\ dbJobs'[j].state = "completed"
            /\ jobs'[j].state \notin {"queued", "leased"}
            /\ dbStages'[j] = dbStages[j]
       /\ Known(j) /\ j \notin lost' => dbStages'[j].hash = dbStages[j].hash]_cvars
=============================================================================
