------------------------ MODULE ArtifactStore_proofs -------------------------
(***************************************************************************)
(* What ArtifactStore keeps for any receivers, producers, artifact and     *)
(* left-over files: its types, ObjectsNamed, PlannedDigest, and that it    *)
(* implements ContentStore.                                                *)
(*                                                                         *)
(* The inductive invariant adds where each actor is in its call.  What an  *)
(* actor has hashed is a file's content; what it has copied has that very  *)
(* content; and what it is about to record is stored.  The last is what a  *)
(* racing writer or a rewritten source could break, and what LinkObject's  *)
(* and PutFile's verification keep.                                        *)
(***************************************************************************)
EXTENDS ArtifactStore, TLAPS

Object(d) == [name |-> d, data |-> d]
Reading == {"put", "copying", "linking", "recording"}

\* A destination that was there is there when it is opened, and one that is being
\* filled has room for every chunk.
RoomForChunks ==
  \A t \in Actor :
    /\ task[t].pc = "opening" /\ ~task[t].fresh => files[Dest] \in File
    /\ task[t].pc = "chunks" => files[Dest] \in File /\ Len(files[Dest]) >= Len(Reference)
\* A producer is at one of its outputs.
AtOutput ==
  \A t \in Actor : t \notin Receiver /\ task[t].pc \in Reading =>
    task[t].at \in DOMAIN Outputs[t]
Digested ==
  \A t \in Actor : task[t].pc \in {"copying", "linking", "recording"} => task[t].digest \in File
Copied == \A t \in Actor : task[t].pc = "linking" => task[t].copy = task[t].digest
ReadyIsStored ==
  \A t \in Actor : task[t].pc = "recording" => Object(task[t].digest) \in objects
IndexStored ==
  /\ \A d \in DOMAIN lineage : Object(d) \in objects
  /\ issued \subseteq DOMAIN lineage

\* Where the actors are, and what they have.
TaskInv == AtOutput /\ Digested /\ Copied /\ ReadyIsStored /\ PlannedDigest
StoreInv ==
  StoreTypeOK /\ RoomForChunks /\ TaskInv /\ ObjectsNamed /\ IndexStored

-----------------------------------------------------------------------------
(* Types of what the actions compute                                       *)

\* A file that is opened has a block for every chunk.
LEMMA ExtendedType ==
  ASSUME NEW f \in File
  PROVE  Extended(f) \in File /\ Len(Extended(f)) >= Len(Reference)
BY StoreAssumption DEF Extended, File, Chunk

\* A block of a chunk may be written into a file that has room for it.
LEMMA WrittenType ==
  ASSUME NEW f \in File, Len(f) >= Len(Reference), NEW i \in Chunk,
         NEW b \in {Reference[i], Junk}
  PROVE  [f EXCEPT ![i] = b] \in File /\ Len([f EXCEPT ![i] = b]) = Len(f)
BY StoreAssumption DEF File, Chunk

\* What is put is one of the paths.
LEMMA SourceType ==
  ASSUME AtOutput, NEW t \in Actor, task[t].pc \in Reading
  PROVE  Source(t) \in Path
BY StoreAssumption DEF AtOutput, Source, Actor

-----------------------------------------------------------------------------
(* Steps that touch neither objects nor lineage                            *)

\* An actor that enters a call, goes on in a transfer, or leaves with an exception.
LEMMA FreshTask ==
  ASSUME StoreInv, NEW t \in Actor, NEW v \in Task,
         v.pc \in {"idle", "opening", "chunks", "put"}, v.pc = "put" => v.at = 1,
         task' = [task EXCEPT ![t] = v], UNCHANGED <<objects, issued>>
  PROVE  TaskInv' /\ task' \in [Actor -> Task]
<1>1. task' \in [Actor -> Task] BY DEF StoreInv, StoreTypeOK
<1>2. \A u \in Actor : task'[u] = IF u = t THEN v ELSE task[u]
  BY DEF StoreInv, StoreTypeOK
<1>3. AtOutput'
  BY <1>2, StoreAssumption DEF StoreInv, TaskInv, AtOutput, Actor, Reading
<1>4. Digested' /\ Copied' /\ ReadyIsStored'
  BY <1>2 DEF StoreInv, TaskInv, Digested, Copied, ReadyIsStored
<1>5. PlannedDigest'
  BY <1>2 DEF StoreInv, TaskInv, PlannedDigest, Actor
<1> QED BY <1>1, <1>3, <1>4, <1>5 DEF TaskInv

LEMMA IdleType == Idle \in Task
BY DEF Idle, Task, Pc

\* The call of an actor that has something to commit.
LEMMA PutType ==
  /\ [Idle EXCEPT !.pc = "put"] \in Task
  /\ [Idle EXCEPT !.pc = "put"].pc = "put" /\ [Idle EXCEPT !.pc = "put"].at = 1
<1>1. Idle.at = 1 BY DEF Idle
<1> QED BY <1>1, IdleType DEF Task, Pc

\* The rest of the invariant, when only tasks, files and the state file change.
LEMMA StoreKept ==
  ASSUME StoreInv, TaskInv', task' \in [Actor -> Task],
         files' \in [Path -> File \cup {None}], recorded' \subseteq Chunk,
         faults' \in 0..MaxFaults, RoomForChunks',
         UNCHANGED <<store, issued, team>>
  PROVE  StoreInv'
<1>1. StoreTypeOK' BY DEF StoreInv, StoreTypeOK, store
<1>2. ObjectsNamed' /\ IndexStored'
  BY DEF StoreInv, ObjectsNamed, IndexStored, store
<1> QED BY <1>1, <1>2 DEF StoreInv

\* A call that raises, with files as they were.
LEMMA RaiseStep ==
  ASSUME StoreInv, NEW t \in Actor, Raise(t), UNCHANGED <<files, store, issued, team>>,
         recorded' \subseteq Chunk, faults' \in 0..MaxFaults
  PROVE  StoreInv'
<1>1. Idle.pc = "idle" BY DEF Idle
<1>2. TaskInv' /\ task' \in [Actor -> Task]
  BY <1>1, IdleType, FreshTask DEF Raise, store
<1>3. RoomForChunks' /\ files' \in [Path -> File \cup {None}]
  BY <1>1 DEF StoreInv, StoreTypeOK, RoomForChunks, Raise
<1> QED BY <1>2, <1>3, StoreKept

LEMMA ReceiveStep ==
  ASSUME StoreInv, NEW t \in Actor, Receive(t)
  PROVE  StoreInv'
<1> DEFINE new == files[Dest] = None
           v == [Idle EXCEPT !.pc = "opening", !.fresh = new, !.completed = recorded]
<1>0. new \in BOOLEAN OBVIOUS
<1>1. v \in Task /\ v.pc = "opening" /\ v.fresh = new
  <2> HIDE DEF new
  <2>1. recorded \in SUBSET Chunk BY DEF StoreInv, StoreTypeOK
  <2> QED BY <1>0, <2>1, IdleType DEF Task, Pc
<1>2. task' = [task EXCEPT ![t] = v] /\ UNCHANGED <<files, recorded, store, issued, team, faults>>
  BY DEF Receive
<1> HIDE DEF v
<1>3. TaskInv' /\ task' \in [Actor -> Task] BY <1>1, <1>2, FreshTask DEF store
<1>4. RoomForChunks'
  BY <1>1, <1>2, StoreAssumption DEF StoreInv, StoreTypeOK, RoomForChunks
<1> QED BY <1>2, <1>3, <1>4, StoreKept DEF StoreInv, StoreTypeOK

LEMMA ProduceStep ==
  ASSUME StoreInv, NEW t \in Actor, Produce(t)
  PROVE  StoreInv'
<1> DEFINE v == [Idle EXCEPT !.pc = "put"]
<1>1. v \in Task /\ v.pc = "put" /\ v.at = 1 BY PutType
<1>2. task' = [task EXCEPT ![t] = v] /\ UNCHANGED <<files, recorded, store, issued, team, faults>>
  BY DEF Produce
<1> HIDE DEF v
<1>3. TaskInv' /\ task' \in [Actor -> Task] BY <1>1, <1>2, FreshTask DEF store
<1>4. RoomForChunks'
  BY <1>1, <1>2 DEF StoreInv, StoreTypeOK, RoomForChunks
<1> QED BY <1>2, <1>3, <1>4, StoreKept DEF StoreInv, StoreTypeOK

LEMMA OpenStep ==
  ASSUME StoreInv, NEW t \in Actor, Open(t)
  PROVE  StoreInv'
<1> DEFINE v == [task[t] EXCEPT !.pc = "chunks"]
           f == IF task[t].fresh THEN <<>> ELSE files[Dest]
<1>1. v \in Task /\ v.pc = "chunks" BY DEF Task, Pc, StoreInv, StoreTypeOK
<1>2. f \in File BY DEF StoreInv, RoomForChunks, Open, File
<1>3. /\ task' = [task EXCEPT ![t] = v]
      /\ files' = [files EXCEPT ![Dest] = Extended(f)]
      /\ UNCHANGED <<recorded, store, issued, team, faults>>
  BY DEF Open
<1> HIDE DEF v, f
<1>4. TaskInv' /\ task' \in [Actor -> Task] BY <1>1, <1>3, FreshTask DEF store
<1>5. Extended(f) \in File /\ Len(Extended(f)) >= Len(Reference) BY <1>2, ExtendedType
<1>6. files' \in [Path -> File \cup {None}] /\ files'[Dest] = Extended(f)
  BY <1>3, <1>5, StoreAssumption DEF StoreInv, StoreTypeOK
<1>7. RoomForChunks' BY <1>5, <1>6 DEF RoomForChunks
<1> QED BY <1>3, <1>4, <1>6, <1>7, StoreKept DEF StoreInv, StoreTypeOK

LEMMA SkipChunkStep ==
  ASSUME StoreInv, NEW t \in Actor, SkipChunk(t)
  PROVE  StoreInv'
<1> DEFINE v == [task[t] EXCEPT !.at = @ + 1]
<1>1. v \in Task /\ v.pc = "chunks" /\ task[t].pc = "chunks"
  BY DEF Task, Pc, StoreInv, StoreTypeOK, SkipChunk, InChunks
<1>2. task' = [task EXCEPT ![t] = v] /\ UNCHANGED <<files, recorded, store, issued, team, faults>>
  BY DEF SkipChunk
<1> HIDE DEF v
<1>3. TaskInv' /\ task' \in [Actor -> Task] BY <1>1, <1>2, FreshTask DEF store
<1>4. RoomForChunks'
  BY <1>1, <1>2 DEF StoreInv, StoreTypeOK, RoomForChunks
<1> QED BY <1>2, <1>3, <1>4, StoreKept DEF StoreInv, StoreTypeOK

\* Writing a block into the destination keeps its size.
LEMMA WrittenFiles ==
  ASSUME StoreInv, NEW t \in Actor, InChunks(t), NEW b \in {Reference[task[t].at], Junk},
         files' = [files EXCEPT ![Dest][task[t].at] = b]
  PROVE  /\ files' \in [Path -> File \cup {None}]
         /\ files'[Dest] \in File /\ Len(files'[Dest]) >= Len(Reference)
<1>1. files[Dest] \in File /\ Len(files[Dest]) >= Len(Reference)
  BY DEF StoreInv, RoomForChunks, InChunks
<1>2. [files[Dest] EXCEPT ![task[t].at] = b] \in File
      /\ Len([files[Dest] EXCEPT ![task[t].at] = b]) = Len(files[Dest])
  BY <1>1, WrittenType DEF InChunks
<1>3. files' = [files EXCEPT ![Dest] = [files[Dest] EXCEPT ![task[t].at] = b]]
  OBVIOUS
<1> QED BY <1>1, <1>2, <1>3, StoreAssumption DEF StoreInv, StoreTypeOK

LEMMA FetchChunkStep ==
  ASSUME StoreInv, NEW t \in Actor, FetchChunk(t)
  PROVE  StoreInv'
<1> DEFINE v == [task[t] EXCEPT !.at = @ + 1, !.completed = @ \cup {task[t].at}]
<1>0. task[t] \in Task /\ task[t].pc = "chunks" /\ task[t].at \in Chunk
  BY DEF StoreInv, StoreTypeOK, FetchChunk, InChunks
<1>1. v \in Task /\ v.pc = "chunks" /\ v.completed \subseteq Chunk
  <2>1. task[t].at + 1 \in Nat \ {0} BY <1>0 DEF Task
  <2>2. task[t].completed \cup {task[t].at} \in SUBSET Chunk BY <1>0 DEF Task
  <2> QED BY <1>0, <2>1, <2>2 DEF Task
<1>2. /\ task' = [task EXCEPT ![t] = v]
      /\ files' = [files EXCEPT ![Dest][task[t].at] = Reference[task[t].at]]
      /\ recorded' = task'[t].completed
      /\ UNCHANGED <<store, issued, team, faults>> /\ InChunks(t)
  BY DEF FetchChunk, Sent
<1> HIDE DEF v
<1>3. TaskInv' /\ task' \in [Actor -> Task] BY <1>1, <1>2, FreshTask DEF store
<1>4. /\ files' \in [Path -> File \cup {None}]
      /\ files'[Dest] \in File /\ Len(files'[Dest]) >= Len(Reference)
  BY <1>2, WrittenFiles
<1>5. RoomForChunks' BY <1>4 DEF RoomForChunks
<1>6. recorded' \subseteq Chunk BY <1>1, <1>2 DEF StoreInv, StoreTypeOK
<1> QED BY <1>2, <1>3, <1>4, <1>5, <1>6, StoreKept DEF StoreInv, StoreTypeOK

LEMMA VerifyAllStep ==
  ASSUME StoreInv, NEW t \in Actor, VerifyAll(t)
  PROVE  StoreInv'
<1>1. CASE Verified(t)
  <2> DEFINE v == [Idle EXCEPT !.pc = "put"]
  <2>1. v \in Task /\ v.pc = "put" /\ v.at = 1 BY PutType
  <2>2. /\ task' = [task EXCEPT ![t] = v] /\ recorded' = task[t].completed
        /\ UNCHANGED <<files, store, issued, team, faults>>
    BY <1>1 DEF VerifyAll
  <2> HIDE DEF v
  <2>3. TaskInv' /\ task' \in [Actor -> Task] BY <2>1, <2>2, FreshTask DEF store
  <2>4. RoomForChunks'
    BY <2>1, <2>2 DEF StoreInv, StoreTypeOK, RoomForChunks
  <2>5. recorded' \subseteq Chunk BY <2>2 DEF StoreInv, StoreTypeOK, Task
  <2> QED BY <2>2, <2>3, <2>4, <2>5, StoreKept DEF StoreInv, StoreTypeOK
<1>2. CASE ~Verified(t)
  BY <1>2, RaiseStep DEF VerifyAll, StoreInv, StoreTypeOK
<1> QED BY <1>1, <1>2

LEMMA InterruptStep ==
  ASSUME StoreInv, NEW t \in Actor, Interrupt(t)
  PROVE  StoreInv'
<1>1. faults' \in 0..MaxFaults
  BY StoreAssumption DEF Interrupt, Fault, StoreInv, StoreTypeOK
<1>2. CASE files' = files
  BY <1>1, <1>2, RaiseStep DEF Interrupt, StoreInv, StoreTypeOK
<1>3. ASSUME NEW b \in {Reference[task[t].at], Junk},
             files' = [files EXCEPT ![Dest][task[t].at] = b]
      PROVE  StoreInv'
  <2>1. Idle.pc = "idle" BY DEF Idle
  <2>2. TaskInv' /\ task' \in [Actor -> Task]
    BY <2>1, IdleType, FreshTask DEF Raise, store, Interrupt
  <2>3. /\ files' \in [Path -> File \cup {None}]
        /\ files'[Dest] \in File /\ Len(files'[Dest]) >= Len(Reference)
    BY <1>3, WrittenFiles DEF Interrupt
  <2>4. RoomForChunks' BY <2>3 DEF RoomForChunks
  <2> QED BY <1>1, <2>2, <2>3, <2>4, StoreKept DEF StoreInv, StoreTypeOK, Interrupt
<1> QED BY <1>2, <1>3 DEF Interrupt

LEMMA DieStep ==
  ASSUME StoreInv, NEW t \in Actor, Die(t)
  PROVE  StoreInv'
BY RaiseStep, StoreAssumption DEF Die, Fault, StoreInv, StoreTypeOK

LEMMA RewriteStep ==
  ASSUME StoreInv, NEW p \in Path, Rewrite(p)
  PROVE  StoreInv'
<1>1. files' \in [Path -> File \cup {None}] /\ files'[Dest] = files[Dest]
  BY StoreAssumption DEF Rewrite, StoreInv, StoreTypeOK
<1>2. faults' \in 0..MaxFaults
  BY StoreAssumption DEF Rewrite, Fault, StoreInv, StoreTypeOK
<1>3. UNCHANGED <<recorded, store, task, issued, team>> BY DEF Rewrite
<1>4. RoomForChunks' BY <1>1, <1>3 DEF RoomForChunks, StoreInv
<1>5. TaskInv'
  BY <1>3 DEF StoreInv, TaskInv, AtOutput, Digested, Copied, ReadyIsStored, PlannedDigest, store
<1> QED BY <1>1, <1>2, <1>3, <1>4, <1>5, StoreKept DEF StoreInv, StoreTypeOK

-----------------------------------------------------------------------------
(* The commit                                                              *)

\* RoomForChunks does not depend on an actor that commits.
LEMMA RoomKept ==
  ASSUME StoreInv, NEW t \in Actor, NEW v \in Task, v.pc \notin {"opening", "chunks"},
         task' = [task EXCEPT ![t] = v], UNCHANGED files
  PROVE  RoomForChunks'
BY DEF StoreInv, StoreTypeOK, RoomForChunks

LEMMA PutFileStep ==
  ASSUME StoreInv, NEW t \in Actor, PutFile(t)
  PROVE  StoreInv'
<1> DEFINE f == files[Source(t)]
           raises == f \in {None, <<>>} \/ \E o \in Named(f) : o.data # f
           v == [task[t] EXCEPT !.digest = f,
                   !.pc = IF Present(f) THEN "recording" ELSE "copying"]
<1>0. task[t].pc = "put" /\ UNCHANGED <<files, recorded, store, issued, team, faults>>
  BY DEF PutFile
<1>1. CASE raises
  BY <1>1, <1>0, RaiseStep DEF PutFile, StoreInv, StoreTypeOK
<1>2. CASE ~raises
  <2>1. Source(t) \in Path
    BY <1>0, SourceType DEF StoreInv, TaskInv, Reading
  <2>2. f \in File BY <1>2, <2>1 DEF StoreInv, StoreTypeOK
  <2>3. v.pc = "recording" => Object(f) \in objects
    <3> SUFFICES ASSUME Present(f) PROVE Object(f) \in objects
      BY DEF StoreInv, StoreTypeOK, Task
    <3>1. PICK o \in objects : o.name = f BY DEF Present, Named
    <3>2. o.data = f BY <3>1, <1>2 DEF Named
    <3> QED BY <3>1, <3>2 DEF Object, StoreInv, StoreTypeOK
  <2>4. v \in Task /\ v.digest = f /\ v.at = task[t].at /\ v.pc \in {"recording", "copying"}
    BY <2>2 DEF StoreInv, StoreTypeOK, Task, Pc
  <2>5. task' = [task EXCEPT ![t] = v] BY <1>2 DEF PutFile
  <2> HIDE DEF v, f
  <2>6. /\ task' \in [Actor -> Task]
        /\ \A u \in Actor : task'[u] = IF u = t THEN v ELSE task[u]
    BY <2>4, <2>5 DEF StoreInv, StoreTypeOK
  <2>7. AtOutput' BY <1>0, <2>4, <2>6 DEF StoreInv, TaskInv, AtOutput, Reading
  <2>8. Digested' /\ Copied'
    BY <2>2, <2>4, <2>6 DEF StoreInv, TaskInv, Digested, Copied
  <2>9. ReadyIsStored'
    BY <1>0, <2>3, <2>4, <2>6 DEF StoreInv, TaskInv, ReadyIsStored, store
  <2>10. PlannedDigest'
    BY <1>0, <2>4, <2>6 DEF StoreInv, TaskInv, PlannedDigest, Actor
  <2>11. RoomForChunks' BY <1>0, <2>4, <2>5, RoomKept
  <2> QED
    BY <1>0, <2>6, <2>7, <2>8, <2>9, <2>10, <2>11, StoreKept
    DEF StoreInv, StoreTypeOK, TaskInv
<1> QED BY <1>1, <1>2

LEMMA CopyFileStep ==
  ASSUME StoreInv, NEW t \in Actor, CopyFile(t)
  PROVE  StoreInv'
<1> DEFINE f == files[Source(t)]
           v == [task[t] EXCEPT !.copy = f, !.pc = "linking"]
<1>0. task[t].pc = "copying" /\ UNCHANGED <<files, recorded, store, issued, team, faults>>
  BY DEF CopyFile
<1>1. CASE ~Accepts(t, f)
  BY <1>1, <1>0, RaiseStep DEF CopyFile, StoreInv, StoreTypeOK
<1>2. CASE Accepts(t, f)
  <2>1. f = task[t].digest /\ f \in File
    BY <1>0, <1>2 DEF Accepts, StoreInv, TaskInv, Digested
  <2>2. v \in Task /\ v.digest = f /\ v.copy = f /\ v.at = task[t].at /\ v.pc = "linking"
    BY <2>1 DEF StoreInv, StoreTypeOK, Task, Pc
  <2>3. task' = [task EXCEPT ![t] = v] BY <1>2 DEF CopyFile
  <2> HIDE DEF v, f
  <2>4. /\ task' \in [Actor -> Task]
        /\ \A u \in Actor : task'[u] = IF u = t THEN v ELSE task[u]
    BY <2>2, <2>3 DEF StoreInv, StoreTypeOK
  <2>5. AtOutput' BY <1>0, <2>2, <2>4 DEF StoreInv, TaskInv, AtOutput, Reading
  <2>6. Digested' /\ Copied'
    BY <2>1, <2>2, <2>4 DEF StoreInv, TaskInv, Digested, Copied
  <2>7. ReadyIsStored'
    BY <1>0, <2>2, <2>4 DEF StoreInv, TaskInv, ReadyIsStored, store
  <2>8. PlannedDigest'
    BY <1>0, <2>2, <2>4 DEF StoreInv, TaskInv, PlannedDigest, Actor
  <2>9. RoomForChunks' BY <1>0, <2>2, <2>3, RoomKept
  <2> QED
    BY <1>0, <2>4, <2>5, <2>6, <2>7, <2>8, <2>9, StoreKept
    DEF StoreInv, StoreTypeOK, TaskInv
<1> QED BY <1>1, <1>2

\* The link makes the only object of its name, of the bytes it is named after.
LEMMA LinkedObjects ==
  ASSUME StoreInv, NEW t \in Actor, LinkObject(t)
  PROVE  /\ objects \subseteq objects' /\ objects' \subseteq [name : File, data : File]
         /\ ObjectsNamed' /\ Object(task[t].digest) \in objects'
<1> DEFINE d == task[t].digest
           new == [name |-> d, data |-> task[t].copy]
<1>1. d \in File /\ task[t].copy = d
  BY DEF LinkObject, StoreInv, TaskInv, Digested, Copied
<1>2. new = Object(d) BY <1>1 DEF Object
<1>3. objects' = IF Named(d) = {} THEN objects \cup {new} ELSE objects BY DEF LinkObject
<1> HIDE DEF new, d
<1>4. CASE Named(d) = {}
  <2>1. \A o \in objects : o.name # d BY <1>4 DEF Named
  <2>2. new.name = d /\ new.data = d /\ new \in [name : File, data : File]
    BY <1>1, <1>2 DEF Object
  <2>3. objects' = objects \cup {new} BY <1>3, <1>4
  <2> QED
    BY <1>2, <2>1, <2>2, <2>3 DEF ObjectsNamed, StoreInv, StoreTypeOK, d
<1>5. CASE Named(d) # {}
  <2>1. PICK o \in objects : o.name = d BY <1>5 DEF Named
  <2>2. o = Object(d)
    BY <2>1 DEF Object, StoreInv, StoreTypeOK, ObjectsNamed
  <2>3. objects' = objects BY <1>3, <1>5
  <2> QED BY <2>1, <2>2, <2>3 DEF ObjectsNamed, StoreInv, StoreTypeOK, d
<1> QED BY <1>4, <1>5

LEMMA LinkObjectStep ==
  ASSUME StoreInv, NEW t \in Actor, LinkObject(t)
  PROVE  StoreInv'
<1> DEFINE v == [task[t] EXCEPT !.pc = "recording"]
<1>0. /\ task[t].pc = "linking"
      /\ UNCHANGED <<files, recorded, lineage, issued, team, faults>>
  BY DEF LinkObject
<1>1. /\ objects \subseteq objects' /\ objects' \subseteq [name : File, data : File]
      /\ ObjectsNamed' /\ Object(task[t].digest) \in objects'
  BY LinkedObjects
<1>2. IndexStored' BY <1>0, <1>1 DEF StoreInv, IndexStored
<1>3. task' \in {[task EXCEPT ![t] = v], [task EXCEPT ![t] = Idle]}
  BY DEF LinkObject, Raise
<1>4. PICK x \in {v, Idle} : task' = [task EXCEPT ![t] = x] BY <1>3
<1>5. /\ v \in Task /\ v.digest = task[t].digest /\ v.at = task[t].at /\ v.pc = "recording"
      /\ Idle \in Task /\ Idle.pc = "idle"
  BY IdleType DEF StoreInv, StoreTypeOK, Task, Pc, Idle
<1> HIDE DEF v
<1>6. /\ task' \in [Actor -> Task]
      /\ \A u \in Actor : task'[u] = IF u = t THEN x ELSE task[u]
  BY <1>4, <1>5 DEF StoreInv, StoreTypeOK
<1>7. AtOutput' BY <1>0, <1>5, <1>6 DEF StoreInv, TaskInv, AtOutput, Reading
<1>8. Digested' /\ Copied'
  BY <1>0, <1>5, <1>6 DEF StoreInv, TaskInv, Digested, Copied
<1>9. ReadyIsStored'
  BY <1>1, <1>5, <1>6 DEF StoreInv, TaskInv, ReadyIsStored
<1>10. PlannedDigest'
  BY <1>0, <1>5, <1>6 DEF StoreInv, TaskInv, PlannedDigest, Actor
<1>11. RoomForChunks' BY <1>0, <1>4, <1>5, RoomKept
<1>12. StoreTypeOK' BY <1>0, <1>1, <1>6 DEF StoreInv, StoreTypeOK
<1> QED BY <1>1, <1>2, <1>7, <1>8, <1>9, <1>10, <1>11, <1>12 DEF StoreInv, TaskInv

\* A lineage record is of bytes that are stored.
LEMMA EnteredLineage ==
  ASSUME StoreInv, NEW t \in Actor, RecordLineage(t)
  PROVE  /\ DOMAIN lineage' = DOMAIN lineage \cup {task[t].digest}
         /\ task[t].digest \in File
         /\ \A d \in DOMAIN lineage' :
              d \in File /\ lineage'[d] \in Actor /\ Object(d) \in objects
         /\ issued \subseteq issued' /\ issued' \subseteq DOMAIN lineage'
<1>1. task[t].digest \in File /\ Object(task[t].digest) \in objects
  BY DEF RecordLineage, StoreInv, TaskInv, Digested, ReadyIsStored
<1>2. lineage' = [c \in DOMAIN lineage \cup {task[t].digest} |->
                    IF c = task[t].digest THEN t ELSE lineage[c]]
  BY DEF RecordLineage, Entered
<1>3. issued' \in {issued, issued \cup {task[t].digest}} BY DEF RecordLineage
<1> QED BY <1>1, <1>2, <1>3 DEF StoreInv, StoreTypeOK, IndexStored

LEMMA RecordLineageStep ==
  ASSUME StoreInv, NEW t \in Actor, RecordLineage(t)
  PROVE  StoreInv'
<1> DEFINE v == [task[t] EXCEPT !.pc = IF Last(t) THEN "done" ELSE "put",
                                !.at = IF Last(t) THEN @ ELSE @ + 1]
<1>0. task[t].pc = "recording" /\ UNCHANGED <<files, recorded, objects, team, faults>>
  BY DEF RecordLineage
<1>1. /\ task[t].digest \in File
      /\ \A d \in DOMAIN lineage' :
           d \in File /\ lineage'[d] \in Actor /\ Object(d) \in objects
      /\ issued \subseteq issued' /\ issued' \subseteq DOMAIN lineage'
  BY EnteredLineage
<1>2. IndexStored' /\ ObjectsNamed'
  BY <1>0, <1>1 DEF StoreInv, IndexStored, ObjectsNamed
<1>3. \/ task' = [task EXCEPT ![t] = Idle]
      \/ /\ task' = [task EXCEPT ![t] = v] /\ Delivered(t)
         /\ task[t].digest \in issued'
  BY DEF RecordLineage, Raise
<1>4. PICK x \in {v, Idle} : /\ task' = [task EXCEPT ![t] = x]
                             /\ x = Idle \/ (x = v /\ Delivered(t) /\ task[t].digest \in issued')
  BY <1>3
<1>5. /\ v \in Task /\ v.digest = task[t].digest
      /\ v.pc = (IF Last(t) THEN "done" ELSE "put")
      /\ v.at = (IF Last(t) THEN task[t].at ELSE task[t].at + 1)
      /\ Idle \in Task /\ Idle.pc = "idle"
  <2>1. task[t] \in Task BY DEF StoreInv, StoreTypeOK
  <2>2. CASE Last(t) BY <2>1, <2>2, IdleType DEF Task, Pc, Idle
  <2>3. CASE ~Last(t)
    <3>1. Idle.pc = "idle" BY DEF Idle
    <3>2. v = [task[t] EXCEPT !.pc = "put", !.at = @ + 1] BY <2>3
    <3>3. task[t].at + 1 \in Nat \ {0} BY <2>1 DEF Task
    <3> QED BY <2>1, <2>3, <3>1, <3>2, <3>3, IdleType DEF Task, Pc
  <2> QED BY <2>2, <2>3
<1> HIDE DEF v
<1>6. /\ task' \in [Actor -> Task]
      /\ \A u \in Actor : task'[u] = IF u = t THEN x ELSE task[u]
  BY <1>4, <1>5 DEF StoreInv, StoreTypeOK
<1>7. AtOutput'
  <2>1. t \notin Receiver => task[t].at \in DOMAIN Outputs[t]
    BY <1>0 DEF StoreInv, TaskInv, AtOutput, Reading
  <2>2. t \notin Receiver /\ x.pc = "put" => x.at \in DOMAIN Outputs[t]
    BY <1>4, <1>5, <2>1, StoreAssumption DEF Last, Actor
  <2> QED BY <1>4, <1>5, <1>6, <2>2 DEF StoreInv, TaskInv, AtOutput, Reading
<1>8. Digested' /\ Copied'
  BY <1>4, <1>5, <1>6 DEF StoreInv, TaskInv, Digested, Copied
<1>9. ReadyIsStored'
  BY <1>0, <1>4, <1>5, <1>6 DEF StoreInv, TaskInv, ReadyIsStored
<1>10. PlannedDigest'
  <2>1. t \in Receiver /\ x.pc = "done" => Reference \in issued' /\ x.digest = Reference
    BY <1>4, <1>5 DEF Delivered
  <2> QED BY <1>1, <1>6, <2>1 DEF StoreInv, TaskInv, PlannedDigest, Actor
<1>11. RoomForChunks' BY <1>0, <1>4, <1>5, RoomKept
<1>12. StoreTypeOK' BY <1>0, <1>1, <1>6 DEF StoreInv, StoreTypeOK
<1> QED BY <1>2, <1>7, <1>8, <1>9, <1>10, <1>11, <1>12 DEF StoreInv, TaskInv

-----------------------------------------------------------------------------
(* The theorems                                                            *)

LEMMA StoreInit_Inv == StoreInit => StoreInv
<1> SUFFICES ASSUME StoreInit PROVE StoreInv OBVIOUS
<1>1. \A t \in Actor : task[t] = Idle BY DEF StoreInit
<1>2. Idle.pc = "idle" BY DEF Idle
<1>3. StoreTypeOK BY IdleType, StoreAssumption DEF StoreInit, StoreTypeOK
<1>4. RoomForChunks /\ TaskInv
  BY <1>1, <1>2 DEF RoomForChunks, TaskInv, AtOutput, Digested, Copied, ReadyIsStored,
                    PlannedDigest, Reading, Actor
<1> QED BY <1>3, <1>4 DEF StoreInv, StoreInit, ObjectsNamed, IndexStored

LEMMA StoreStep_Inv == StoreInv /\ [StoreNext]_svars => StoreInv'
<1> SUFFICES ASSUME StoreInv, [StoreNext]_svars PROVE StoreInv' OBVIOUS
<1>1. team \subseteq Actor BY StoreAssumption DEF StoreInv, StoreTypeOK
<1>2. ASSUME NEW t \in team, Step(t) PROVE StoreInv'
  BY <1>1, <1>2, ReceiveStep, ProduceStep, OpenStep, SkipChunkStep, FetchChunkStep,
     VerifyAllStep, PutFileStep, CopyFileStep, LinkObjectStep, RecordLineageStep DEF Step
<1>3. ASSUME NEW t \in team, Interrupt(t) \/ Die(t) PROVE StoreInv'
  BY <1>1, <1>3, InterruptStep, DieStep
<1>4. ASSUME NEW p \in Path, Rewrite(p) PROVE StoreInv' BY <1>4, RewriteStep
<1>5. CASE UNCHANGED svars
  BY <1>5 DEF svars, store, StoreInv, StoreTypeOK, RoomForChunks, TaskInv, AtOutput, Digested,
              Copied, ReadyIsStored, PlannedDigest, ObjectsNamed, IndexStored
<1> QED BY <1>2, <1>3, <1>4, <1>5 DEF StoreNext

LEMMA StoreInvariant == StoreSpec => []StoreInv
BY StoreInit_Inv, StoreStep_Inv, PTL DEF StoreSpec

\* Files, objects, lineage rows and calls are well formed, through interruptions,
\* killed processes and changing sources.
THEOREM StoreTypeCorrect == StoreSpec => []StoreTypeOK
BY StoreInvariant, PTL DEF StoreInv

\* Whatever is read twice or written by two, an object has the bytes it is named
\* after and no name has two objects (put_file).
THEOREM ObjectsAlwaysNamed == StoreSpec => []ObjectsNamed
BY StoreInvariant, PTL DEF StoreInv

\* A receiver hands out the digest of its plan only (DistributedArtifactCommitter).
THEOREM PlannedDigestAlways == StoreSpec => []PlannedDigest
BY StoreInvariant, PTL DEF StoreInv, TaskInv

\* Every step of the store is a step of the abstract one or leaves it unchanged.
LEMMA StoreMaps ==
  ASSUME StoreInv, StoreInv', [StoreNext]_svars
  PROVE  [Content!Next]_(Content!svars)
<1> DEFINE S == {o.name : o \in {q \in objects : q.data = q.name}}
<1>1. S' = {o.name : o \in {q \in objects' : q.data = q.name}} OBVIOUS
<1>2. S' \subseteq File BY DEF StoreInv, StoreTypeOK
<1>3. \A d : Object(d) \in objects => d \in S BY DEF Object
<1>4. CASE UNCHANGED <<objects, lineage, issued>>
  BY <1>4, Zenon DEF Content!svars
<1>5. ASSUME NEW t \in Actor, LinkObject(t)
      PROVE  Content!Store
  <2>1. objects \subseteq objects' BY <1>5, LinkedObjects
  <2>2. UNCHANGED <<lineage, issued>> BY <1>5 DEF LinkObject
  <2> QED BY <1>2, <2>1, <2>2 DEF Content!Store
<1>6. ASSUME NEW t \in Actor, RecordLineage(t)
      PROVE  Content!Index
  <2>1. UNCHANGED objects BY <1>6 DEF RecordLineage
  <2>2. /\ DOMAIN lineage' = DOMAIN lineage \cup {task[t].digest}
        /\ \A d \in DOMAIN lineage' : Object(d) \in objects
        /\ issued \subseteq issued' /\ issued' \subseteq DOMAIN lineage'
    BY <1>6, EnteredLineage
  <2>3. DOMAIN lineage' \subseteq S' BY <1>1, <1>3, <2>1, <2>2
  <2> QED BY <2>1, <2>2, <2>3 DEF Content!Index
<1>7. team \subseteq Actor BY StoreAssumption DEF StoreInv, StoreTypeOK
<1>8. \/ UNCHANGED <<objects, lineage, issued>>
      \/ \E t \in team : LinkObject(t) \/ RecordLineage(t)
  BY DEF StoreNext, Step, Receive, Produce, Open, SkipChunk, FetchChunk, VerifyAll, PutFile,
         CopyFile, Interrupt, Die, Rewrite, store, svars
<1> QED BY <1>4, <1>5, <1>6, <1>7, <1>8 DEF Content!Next

\* The artifact store is a content store: what is stored stays, lineage never lacks
\* its bytes, and every address handed out resolves.
THEOREM StoreImplemented == StoreSpec => ImplementsStore
<1>1. StoreInit => Content!Init BY DEF StoreInit, Content!Init
<1>2. StoreInv /\ StoreInv' /\ [StoreNext]_svars => [Content!Next]_(Content!svars)
  BY StoreMaps
<1> QED BY <1>1, <1>2, StoreInvariant, PTL DEF StoreSpec, ImplementsStore, Content!Spec
=============================================================================
