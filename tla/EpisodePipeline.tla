--------------------------- MODULE EpisodePipeline ---------------------------
(***************************************************************************)
(* src/studio/pipeline.py, checkpoints.py and episode.py: the stages of an *)
(* episode, run in order, with the state of the run saved as a checkpoint  *)
(* after each of them and loaded when the episode is resumed.              *)
(*                                                                         *)
(* One process at a time works on an episode.  A handler may raise, and so *)
(* may the writing of a checkpoint; the process may die at any time.  A    *)
(* checkpoint is written to a temporary file and moved into place, so it   *)
(* is there in full or not at all, and a crash between a change of the     *)
(* state in memory and its checkpoint is as one before the change.         *)
(***************************************************************************)
EXTENDS Integers, Sequences, FiniteSets, Unset

CONSTANTS
  Stages,         \* len(STAGES); stages are known by their position
  Value           \* what a handler may return; None when it has not, or returns that

ASSUME PipelineAssumption == Stages \in Nat /\ None \notin Value

VARIABLES
  pc,             \* down (no process), idle (run not called), running, handling
  mem,            \* Pipeline.state
  disk,           \* the checkpoint file; Fresh if there is none
  \* history
  last            \* what a stage's handler last returned

evars == <<pc, mem, disk, last>>

Stage == 1..Stages
RunState == [completed : SUBSET Stage, outputs : [Stage -> Value \cup {None}],
             failures : SUBSET Stage]
Fresh == [completed |-> {}, outputs |-> [s \in Stage |-> None], failures |-> {}]

PipelineTypeOK ==
  /\ pc \in {"down", "idle", "running", "handling"}
  /\ mem \in RunState /\ disk \in RunState
  /\ last \in [Stage -> Value \cup {None}]

PipelineInit ==
  /\ pc = "down" /\ mem = Fresh /\ disk = Fresh
  /\ last = [s \in Stage |-> None]

-----------------------------------------------------------------------------
\* Mutant of Pending: a stage that has failed is passed over.
PendingUnfailed == Stage \ (mem.completed \cup mem.failures)
\* The stages the loop does not skip; it is at the first of them.
Pending == Stage \ mem.completed
CurrentStage == CHOOSE s \in Pending : \A t \in Pending : s <= t

\* Mutant of Loaded: the outputs are not read back.
LoadedWithoutOutputs == [disk EXCEPT !.outputs = Fresh.outputs]
Loaded == disk

\* run_episode: a new pipeline on what the checkpoint says.
Resume ==
  /\ pc \in {"down", "idle"}
  /\ mem' = Loaded /\ pc' = "running"
  /\ UNCHANGED <<disk, last>>

\* Pipeline.run called again on the state an earlier call left behind.
RunAgain ==
  /\ pc = "idle" /\ pc' = "running"
  /\ UNCHANGED <<mem, disk, last>>

\* The loop has passed every stage, or has no handler for the next.
Leave ==
  /\ pc = "running" /\ pc' = "idle"
  /\ UNCHANGED <<mem, disk, last>>

Handle ==
  /\ pc = "running" /\ Pending # {} /\ pc' = "handling"
  /\ UNCHANGED <<mem, disk, last>>

Failed(state) == [state EXCEPT !.failures = @ \cup {CurrentStage}]
Completed(result) ==
  [completed |-> mem.completed \cup {CurrentStage},
   outputs |-> IF result = None THEN mem.outputs ELSE [mem.outputs EXCEPT ![CurrentStage] = result],
   failures |-> mem.failures \ {CurrentStage}]

\* The except branch: the failure is recorded, saved unless that raises, and
\* the exception leaves run.
Except(state) ==
  /\ mem' = Failed(state)
  /\ disk' \in {disk, mem'}
  /\ pc' = "idle"

\* The handler returns; if the checkpoint cannot be saved the stage is completed
\* and failed at once.
Return(result) ==
  /\ pc = "handling"
  /\ last' = [last EXCEPT ![CurrentStage] = result]
  /\ \/ mem' = Completed(result) /\ disk' = mem' /\ pc' = "running"
     \/ Except(Completed(result))

\* Mutant of Raise: the loop goes on with the next stage.
RaiseAndGoOn ==
  /\ pc = "handling"
  /\ mem' = [Failed(mem) EXCEPT !.completed = @ \cup {CurrentStage}]
  /\ disk' = mem' /\ pc' = "running"
  /\ UNCHANGED last
Raise ==
  /\ pc = "handling"
  /\ Except(mem)
  /\ UNCHANGED last

Crash ==
  /\ pc # "down" /\ pc' = "down" /\ mem' = Fresh
  /\ UNCHANGED <<disk, last>>

PipelineNext ==
  \/ Resume \/ RunAgain \/ Leave \/ Handle
  \/ \E result \in Value \cup {None} : Return(result)
  \/ Raise
  \/ Crash

PipelineSpec == PipelineInit /\ [][PipelineNext]_evars

\* The episode is resumed again and again, run goes on by itself, and a stage that is tried
\* again and again in the end succeeds and is saved.
Saved == \E result \in Value \cup {None} : Return(result) /\ disk' = mem'
Fairness == WF_evars(Leave) /\ SF_evars(Resume) /\ SF_evars(Handle) /\ SF_evars(Saved)
FairPipelineSpec == PipelineSpec /\ Fairness

-----------------------------------------------------------------------------
\* A stage is handled only while no checkpoint has it as completed, and then all
\* stages before it are completed with what their handlers returned last,
\* however many crashes and failed saves came before.
HandledOnItsInputs ==
  pc = "handling" =>
    /\ CurrentStage \notin disk.completed
    /\ \A s \in Stage : s < CurrentStage => s \in mem.completed /\ mem.outputs[s] = last[s]

Journal == INSTANCE EpisodeJournal WITH
  Result  <- Value \cup {None},
  journal <- [s \in 1..Cardinality(disk.completed) |-> disk.outputs[s]]

\* Seen through its checkpoints an episode is a journal of results: stages become
\* durable in order and once, and no later failure, crash or resumption changes
\* the output of one that is (run, save, load).
IsJournal == Journal!Spec

\* With fairness every stage becomes durable in the end, whichever fail on the
\* way: "A failed stage remains retryable" (docs/ARCHITECTURE.md).
JournalGrows == Journal!FairSpec
=============================================================================
