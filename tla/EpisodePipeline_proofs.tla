----------------------- MODULE EpisodePipeline_proofs -----------------------
(***************************************************************************)
(* What EpisodePipeline keeps for any number of stages and any results,    *)
(* failures, failed saves and crashes: PipelineTypeOK, HandledOnItsInputs  *)
(* and IsJournal.                                                          *)
(*                                                                         *)
(* Neither is inductive: what a handler reads was checkpointed, or not, by *)
(* earlier runs.  The invariant says of memory and of the checkpoint alike *)
(* that the completed stages are the first ones, and that the outputs are  *)
(* what the handlers of just those stages returned last (an output that is *)
(* None is not stored, so there must be no older one); and that memory is  *)
(* never behind the checkpoint.                                            *)
(***************************************************************************)
EXTENDS EpisodePipeline, TLAPS, FiniteSetTheorems

IsPrefixOfStages(completed) == \E n \in 0..Stages : completed = 1..n
HasLast(outputs, completed) ==
  \A s \in Stage : outputs[s] = IF s \in completed THEN last[s] ELSE None

MemoryDurable == IsPrefixOfStages(mem.completed) /\ HasLast(mem.outputs, mem.completed)
DiskDurable == IsPrefixOfStages(disk.completed) /\ HasLast(disk.outputs, disk.completed)
Ahead == pc # "down" => disk.completed \subseteq mem.completed

PipelineInv ==
  /\ PipelineTypeOK /\ MemoryDurable /\ DiskDurable /\ Ahead
  /\ pc = "handling" => Pending # {}

\* What is durable stays so: the stages in the checkpoint, and what they returned.
DurableKept ==
  /\ disk.completed \subseteq disk'.completed
  /\ \A s \in disk.completed : last'[s] = last[s]

-----------------------------------------------------------------------------
\* The loop of run is at the stage after those that are completed.
LEMMA CurrentIsNext ==
  ASSUME NEW n \in 0..Stages, mem.completed = 1..n, Pending # {}
  PROVE  n + 1 \in Stage /\ CurrentStage = n + 1
<1>1. Stages \in Nat  BY PipelineAssumption
<1>2. Pending = (n + 1)..Stages  BY <1>1 DEF Pending, Stage
<1>3. n + 1 \in Pending /\ \A t \in Pending : n + 1 <= t  BY <1>1, <1>2
<1>4. \A s \in Pending : (\A t \in Pending : s <= t) => s = n + 1  BY <1>1, <1>2, <1>3
<1>5. CurrentStage = n + 1  BY <1>3, <1>4 DEF CurrentStage
<1> QED  BY <1>1, <1>2, <1>3, <1>5 DEF Stage

LEMMA PipelineInitHolds == PipelineInit => PipelineInv
<1> SUFFICES ASSUME PipelineInit PROVE PipelineInv  OBVIOUS
<1>1. Stages \in Nat  BY PipelineAssumption
<1>2. {} = 1..0 /\ 0 \in 0..Stages  BY <1>1
<1>3. PipelineTypeOK  BY DEF PipelineInit, PipelineTypeOK, Fresh, RunState
<1>4. MemoryDurable /\ DiskDurable
  BY <1>2 DEF PipelineInit, Fresh, MemoryDurable, DiskDurable, IsPrefixOfStages, HasLast
<1> QED  BY <1>3, <1>4 DEF PipelineInv, PipelineInit, Ahead, Fresh

\* The branch a handler or a save that raises takes, from the state that the call has
\* in memory by then.
LEMMA CompletedState ==
  ASSUME PipelineInv, pc = "handling", NEW result \in Value \cup {None},
         last' = [last EXCEPT ![CurrentStage] = result]
  PROVE  /\ CurrentStage \in Stage \ mem.completed
         /\ last' \in [Stage -> Value \cup {None}]
         /\ Completed(result) \in RunState /\ Failed(Completed(result)) \in RunState
         /\ IsPrefixOfStages(Completed(result).completed)
         /\ mem.completed \subseteq Completed(result).completed
         /\ \A s \in Stage : Completed(result).outputs[s] =
              IF s \in Completed(result).completed THEN last'[s] ELSE None
<1> DEFINE done == mem.completed \cup {CurrentStage}
           outs == IF result = None THEN mem.outputs ELSE [mem.outputs EXCEPT ![CurrentStage] = result]
           fails == mem.failures \ {CurrentStage}
<1>1. PICK n \in 0..Stages : mem.completed = 1..n
  BY DEF PipelineInv, MemoryDurable, IsPrefixOfStages
<1>2. n + 1 \in Stage /\ CurrentStage = n + 1  BY <1>1, CurrentIsNext DEF PipelineInv
<1>3. mem \in RunState /\ last \in [Stage -> Value \cup {None}]
  BY DEF PipelineInv, PipelineTypeOK
<1>4. CurrentStage \in Stage \ mem.completed  BY <1>1, <1>2, PipelineAssumption DEF Stage
<1>5. last' \in [Stage -> Value \cup {None}]  BY <1>3, <1>4
<1>6. done = 1..(n + 1) /\ n + 1 \in 0..Stages
  BY <1>1, <1>2, PipelineAssumption DEF Stage
<1>7. mem.completed \subseteq Stage /\ mem.failures \subseteq Stage
      /\ mem.outputs \in [Stage -> Value \cup {None}]
  BY <1>3 DEF RunState
<1>8. done \in SUBSET Stage /\ fails \in SUBSET Stage /\ outs \in [Stage -> Value \cup {None}]
  BY <1>4, <1>7
<1>9. \A s \in Stage : outs[s] = IF s \in done THEN last'[s] ELSE None
  <2> SUFFICES ASSUME NEW s \in Stage PROVE outs[s] = IF s \in done THEN last'[s] ELSE None
    OBVIOUS
  <2>1. mem.outputs[s] = IF s \in mem.completed THEN last[s] ELSE None
    BY DEF PipelineInv, MemoryDurable, HasLast
  <2>2. CASE s = CurrentStage  BY <1>3, <1>4, <1>7, <2>1, <2>2
  <2>3. CASE s # CurrentStage  BY <1>3, <1>4, <1>7, <2>1, <2>3
  <2> QED  BY <2>2, <2>3
<1>10. Completed(result) = [completed |-> done, outputs |-> outs, failures |-> fails]
  BY DEF Completed
<1> HIDE DEF done, outs, fails
<1>11. Failed(Completed(result)) =
         [completed |-> done, outputs |-> outs, failures |-> fails \cup {CurrentStage}]
  BY <1>10 DEF Failed
<1>12. Completed(result) \in RunState /\ Failed(Completed(result)) \in RunState
  BY <1>4, <1>8, <1>10, <1>11 DEF RunState
<1>13. IsPrefixOfStages(done) /\ mem.completed \subseteq done
  BY <1>6 DEF IsPrefixOfStages, done
<1> QED  BY <1>4, <1>5, <1>9, <1>10, <1>12, <1>13

LEMMA PipelineInvStep ==
  PipelineInv /\ [PipelineNext]_evars => PipelineInv' /\ DurableKept
<1> SUFFICES ASSUME PipelineInv, [PipelineNext]_evars PROVE PipelineInv' /\ DurableKept
  OBVIOUS
<1> USE DEF PipelineInv
<1>1. CASE Resume
  <2>1. mem' = disk /\ disk' = disk /\ last' = last /\ pc' = "running"
    BY <1>1 DEF Resume, Loaded
  <2> QED  BY <2>1 DEF PipelineTypeOK, MemoryDurable, DiskDurable, IsPrefixOfStages, HasLast,
                       Ahead, DurableKept
<1>2. CASE RunAgain \/ Leave \/ Handle
  <2>1. mem' = mem /\ disk' = disk /\ last' = last /\ pc # "down" /\ pc' # "down"
        /\ pc' \in {"running", "idle", "handling"} /\ (pc' = "handling" => Pending # {})
    BY <1>2 DEF RunAgain, Leave, Handle
  <2> QED  BY <2>1 DEF PipelineTypeOK, MemoryDurable, DiskDurable, IsPrefixOfStages, HasLast,
                       Ahead, DurableKept, Pending
<1>3. ASSUME NEW result \in Value \cup {None}, Return(result)
      PROVE  PipelineInv' /\ DurableKept
  <2>1. pc = "handling" /\ last' = [last EXCEPT ![CurrentStage] = result]  BY <1>3 DEF Return
  <2> DEFINE after == Completed(result)
  <2>2. /\ CurrentStage \in Stage \ mem.completed
        /\ last' \in [Stage -> Value \cup {None}]
        /\ after \in RunState /\ Failed(after) \in RunState
        /\ IsPrefixOfStages(after.completed)
        /\ mem.completed \subseteq after.completed
        /\ \A s \in Stage : after.outputs[s] = IF s \in after.completed THEN last'[s] ELSE None
    BY <2>1, CompletedState
  <2> HIDE DEF after
  <2>3. /\ mem' \in {after, Failed(after)} /\ disk' \in {disk, mem'} /\ pc' \in {"running", "idle"}
    BY <1>3 DEF Return, Except, after
  <2>4. Failed(after).completed = after.completed /\ Failed(after).outputs = after.outputs
    BY <2>2 DEF Failed, RunState
  <2>5. mem' \in RunState /\ mem'.completed = after.completed /\ mem'.outputs = after.outputs
    BY <2>2, <2>3, <2>4
  <2>6. MemoryDurable'  BY <2>2, <2>5 DEF MemoryDurable, IsPrefixOfStages, HasLast
  <2>7. disk.completed \subseteq mem.completed  BY <2>1 DEF Ahead
  <2>8. \A s \in disk.completed : last'[s] = last[s]
    BY <2>1, <2>2, <2>7 DEF PipelineTypeOK, RunState
  <2>9. DiskDurable'
    <3>1. CASE disk' = mem'  BY <3>1, <2>6 DEF MemoryDurable, DiskDurable, IsPrefixOfStages, HasLast
    <3>2. CASE disk' = disk
      BY <3>2, <2>8 DEF DiskDurable, IsPrefixOfStages, HasLast
    <3> QED  BY <2>3, <3>1, <3>2
  <2>10. Ahead' /\ DurableKept  BY <2>2, <2>3, <2>5, <2>7, <2>8 DEF Ahead, DurableKept
  <2>11. PipelineTypeOK'  BY <2>2, <2>3, <2>5 DEF PipelineTypeOK
  <2> QED  BY <2>3, <2>6, <2>9, <2>10, <2>11
<1>4. CASE Raise
  <2>1. pc = "handling" /\ last' = last /\ mem' = Failed(mem) /\ disk' \in {disk, mem'} /\ pc' = "idle"
    BY <1>4 DEF Raise, Except
  <2>2. PICK n \in 0..Stages : mem.completed = 1..n  BY DEF MemoryDurable, IsPrefixOfStages
  <2>3. CurrentStage \in Stage  BY <2>1, <2>2, CurrentIsNext
  <2>4. mem' \in RunState /\ mem'.completed = mem.completed /\ mem'.outputs = mem.outputs
    BY <2>1, <2>3 DEF Failed, RunState, PipelineTypeOK
  <2>5. PipelineTypeOK'  BY <2>1, <2>4 DEF PipelineTypeOK
  <2>6. MemoryDurable'  BY <2>1, <2>4 DEF MemoryDurable, IsPrefixOfStages, HasLast
  <2>7. DiskDurable'
    <3>1. CASE disk' = mem'  BY <3>1, <2>6 DEF MemoryDurable, DiskDurable, IsPrefixOfStages, HasLast
    <3>2. CASE disk' = disk  BY <3>2, <2>1 DEF DiskDurable, IsPrefixOfStages, HasLast
    <3> QED  BY <2>1, <3>1, <3>2
  <2>8. Ahead' /\ DurableKept  BY <2>1, <2>4 DEF Ahead, DurableKept
  <2> QED  BY <2>1, <2>5, <2>6, <2>7, <2>8
<1>5. CASE Crash
  <2>1. mem' = Fresh /\ disk' = disk /\ last' = last /\ pc' = "down"  BY <1>5 DEF Crash
  <2>2. Stages \in Nat  BY PipelineAssumption
  <2>3. {} = 1..0 /\ 0 \in 0..Stages  BY <2>2
  <2>4. MemoryDurable'  BY <2>1, <2>3 DEF Fresh, MemoryDurable, IsPrefixOfStages, HasLast
  <2>5. PipelineTypeOK'  BY <2>1 DEF PipelineTypeOK, Fresh, RunState
  <2> QED  BY <2>1, <2>4, <2>5 DEF DiskDurable, IsPrefixOfStages, HasLast, Ahead, DurableKept
<1>6. CASE UNCHANGED evars
  BY <1>6 DEF evars, PipelineTypeOK, MemoryDurable, DiskDurable, IsPrefixOfStages, HasLast,
              Ahead, DurableKept, Pending
<1> QED  BY <1>1, <1>2, <1>3, <1>4, <1>5, <1>6 DEF PipelineNext

LEMMA PipelineInvAlways == PipelineSpec => []PipelineInv
<1>1. PipelineInv /\ [PipelineNext]_evars => PipelineInv'  BY PipelineInvStep
<1> QED  BY PipelineInitHolds, <1>1, PTL DEF PipelineSpec

-----------------------------------------------------------------------------
\* The state of a run is well formed.
THEOREM PipelineTypeCorrect == PipelineSpec => []PipelineTypeOK
<1>1. PipelineInv => PipelineTypeOK  BY DEF PipelineInv
<1> QED  BY PipelineInvAlways, <1>1, PTL

\* No handler runs before the stages ahead of its own have their last results in memory,
\* nor for a stage a checkpoint has (Pipeline.run).
THEOREM AlwaysHandledOnItsInputs == PipelineSpec => []HandledOnItsInputs
<1>1. PipelineInv => HandledOnItsInputs
  <2> SUFFICES ASSUME PipelineInv, pc = "handling"
               PROVE  /\ CurrentStage \notin disk.completed
                      /\ \A s \in Stage : s < CurrentStage =>
                           s \in mem.completed /\ mem.outputs[s] = last[s]
    BY DEF HandledOnItsInputs
  <2>1. PICK n \in 0..Stages : mem.completed = 1..n
    BY DEF PipelineInv, MemoryDurable, IsPrefixOfStages
  <2>2. n + 1 \in Stage /\ CurrentStage = n + 1  BY <2>1, CurrentIsNext DEF PipelineInv
  <2>3. CurrentStage \notin mem.completed  BY <2>1, <2>2, PipelineAssumption DEF Stage
  <2>4. disk.completed \subseteq mem.completed  BY DEF PipelineInv, Ahead
  <2>5. \A s \in Stage : s < CurrentStage => s \in mem.completed
    BY <2>1, <2>2, PipelineAssumption DEF Stage
  <2> QED  BY <2>3, <2>4, <2>5 DEF PipelineInv, MemoryDurable, HasLast
<1> QED  BY PipelineInvAlways, <1>1, PTL

-----------------------------------------------------------------------------
\* The journal of a checkpoint, as the checkpoint has the first n stages.
LEMMA JournalOf ==
  ASSUME NEW n \in 0..Stages
  PROVE  Cardinality(1..n) = n
<1>1. n \in Int /\ 1 \in Int  OBVIOUS
<1>2. Cardinality(1..n) = IF 1 > n THEN 0 ELSE n - 1 + 1  BY <1>1, FS_Interval
<1> QED  BY <1>2

\* The checkpoints of an episode implement the journal of its results.
THEOREM JournalImplemented == PipelineSpec => IsJournal
<1> DEFINE journal == [s \in 1..Cardinality(disk.completed) |-> disk.outputs[s]]
<1>1. PipelineInit => Journal!Init
  <2> SUFFICES ASSUME PipelineInit PROVE journal = <<>>  BY DEF Journal!Init
  <2>1. disk.completed = {}  BY DEF PipelineInit, Fresh
  <2>2. Cardinality(disk.completed) = 0  BY <2>1, FS_EmptySet
  <2> QED  BY <2>2
<1>2. PipelineInv /\ PipelineInv' /\ DurableKept => [Journal!Extend]_journal
  <2> SUFFICES ASSUME PipelineInv, PipelineInv', DurableKept, journal' # journal
               PROVE  Journal!Extend
    OBVIOUS
  <2>1. PICK n \in 0..Stages : disk.completed = 1..n
    BY DEF PipelineInv, DiskDurable, IsPrefixOfStages
  <2>2. PICK m \in 0..Stages : disk'.completed = 1..m
    BY DEF PipelineInv, DiskDurable, IsPrefixOfStages
  <2>3. Stages \in Nat /\ n <= m /\ 1..n \subseteq Stage /\ 1..m \subseteq Stage
    <3>1. Stages \in Nat  BY PipelineAssumption
    <3>2. 1..n \subseteq 1..m  BY <2>1, <2>2 DEF DurableKept
    <3>3. n <= m
      <4>1. CASE n = 0  BY <4>1, <2>2
      <4>2. CASE n # 0
        <5>1. n \in 1..n  BY <4>2
        <5> QED  BY <5>1, <3>2
      <4> QED  BY <4>1, <4>2
    <3> QED  BY <3>1, <3>3 DEF Stage
  <2>4. journal = [s \in 1..n |-> disk.outputs[s]]  BY <2>1, JournalOf
  <2>5. journal' = [s \in 1..m |-> disk'.outputs[s]]  BY <2>2, JournalOf
  <2>6. \A s \in 1..n : disk'.outputs[s] = disk.outputs[s]
    <3> SUFFICES ASSUME NEW s \in 1..n PROVE disk'.outputs[s] = disk.outputs[s]  OBVIOUS
    <3>1. s \in Stage /\ s \in disk.completed /\ s \in disk'.completed
      BY <2>1, <2>2, <2>3
    <3>2. disk.outputs[s] = last[s]  BY <3>1 DEF PipelineInv, DiskDurable, HasLast
    <3>3. disk'.outputs[s] = last'[s]  BY <3>1 DEF PipelineInv, DiskDurable, HasLast
    <3> QED  BY <3>1, <3>2, <3>3 DEF DurableKept
  <2>7. disk'.outputs \in [Stage -> Value \cup {None}]
    BY DEF PipelineInv, PipelineTypeOK, RunState
  <2> HIDE DEF journal
  <2>8. n < m
    <3>1. CASE n = m  BY <3>1, <2>4, <2>5, <2>6
    <3> QED  BY <3>1, <2>3
  <2>9. journal \in Seq(Value \cup {None}) /\ Len(journal) = n
    <3>1. \A s \in 1..n : disk.outputs[s] \in Value \cup {None}  BY <2>3, <2>6, <2>7
    <3> QED  BY <3>1, <2>4
  <2>10. journal' \in [1..m -> Value \cup {None}]  BY <2>3, <2>5, <2>7
  <2>11. journal' \in Seq(Value \cup {None}) /\ Len(journal') = m  BY <2>5, <2>10
  <2>12. SubSeq(journal, 1, n) = SubSeq(journal', 1, n)
    <3>1. SubSeq(journal, 1, n) = [i \in 1..n |-> disk.outputs[i]]
      BY <2>4, <2>9
    <3>2. SubSeq(journal', 1, n) = [i \in 1..n |-> disk'.outputs[i]]
      BY <2>3, <2>5, <2>11
    <3> QED  BY <3>1, <3>2, <2>6
  <2>13. m \in (Len(journal) + 1)..Stages  BY <2>3, <2>8, <2>9
  <2> QED  BY <2>3, <2>9, <2>10, <2>11, <2>12, <2>13 DEF Journal!Extend, Journal!IsPrefix, journal
<1>3. PipelineInv /\ [PipelineNext]_evars => PipelineInv' /\ DurableKept  BY PipelineInvStep
<1> QED  BY PipelineInvAlways, <1>1, <1>2, <1>3, PTL DEF PipelineSpec, IsJournal, Journal!Spec
=============================================================================
