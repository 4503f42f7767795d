--------------------------- MODULE ArtifactStore ----------------------------
(***************************************************************************)
(* Durable outputs: the content-addressed store (artifacts.py), the        *)
(* lineage index and the committers (artifact_bridge.py,                   *)
(* production_executor.py), and the resumable transfer of a worker's       *)
(* artifact that feeds them (data_plane.py, distributed_artifacts.py, the  *)
(* chunk endpoint of worker_control_server.py).                            *)
(*                                                                         *)
(* A file is a sequence of blocks, one per transfer chunk; the digest of a *)
(* file stands for its content.  Receivers transfer one artifact under one *)
(* transfer id to one destination and commit it; producers commit the      *)
(* files an adapter has left.  Each is a thread or process of its own,     *)
(* which may be started again after it failed.  A failing call, a torn     *)
(* write, a killed process or a file changed under a commit is a fault.    *)
(* Disks lose nothing that was written.                                    *)
(***************************************************************************)
EXTENDS Integers, Sequences

CONSTANTS
  Receiver, Producer,
  Outputs,        \* Outputs[p]: the files of producer p, in their order
  Dest,           \* the destination of the transfer
  Path,
  Reference,      \* the artifact: its blocks
  Junk,           \* any other block, zeros of a longer file included
  FileSystems,    \* the contents the files may have at the start
  Teams,          \* actors that run together
  MaxFaults,
  None

Actor == Receiver \cup Producer
Chunk == 1..Len(Reference)
File == Seq({Reference[i] : i \in Chunk} \cup {Junk})

ASSUME StoreAssumption ==
  /\ Receiver \cap Producer = {}
  /\ Dest \in Path /\ Outputs \in [Producer -> Seq(Path \ {Dest}) \ {<<>>}]
  /\ Reference \in File \ {<<>>} /\ FileSystems \subseteq [Path -> File \cup {None}]
  /\ Teams \subseteq SUBSET Actor
  /\ MaxFaults \in Nat /\ None \notin File

VARIABLES
  files,          \* None: no such file
  recorded,       \* the transfer's state file: completed chunks
  objects,        \* [name, data]: objects/<digest>
  lineage,        \* artifact_lineage: content -> the actor that recorded it last
  task,           \* per actor: the call it is in
  issued,         \* contents whose address commit has returned (history)
  team, faults

store == <<objects, lineage>>
svars == <<files, recorded, objects, lineage, task, issued, team, faults>>

Pc == {"idle", "opening", "chunks", "put", "copying", "linking", "recording", "done"}
Task == [pc : Pc, fresh : BOOLEAN, completed : SUBSET Chunk, at : Nat \ {0},
         digest : File \cup {None}, copy : File \cup {None}]
Idle == [pc |-> "idle", fresh |-> FALSE, completed |-> {}, at |-> 1,
         digest |-> None, copy |-> None]

StoreTypeOK ==
  /\ files \in [Path -> File \cup {None}]
  /\ recorded \subseteq Chunk
  /\ objects \subseteq [name : File, data : File]
  /\ \A d \in DOMAIN lineage : d \in File /\ lineage[d] \in Actor
  /\ task \in [Actor -> Task]
  /\ issued \subseteq File
  /\ team \in Teams /\ faults \in 0..MaxFaults

StoreInit ==
  /\ files \in FileSystems
  /\ recorded \in SUBSET Chunk        \* a transfer id may have been used before
  /\ objects = {} /\ lineage = [d \in {} |-> None]
  /\ task = [t \in Actor |-> Idle]
  /\ issued = {}
  /\ team \in Teams /\ faults = 0

Raise(t) == task' = [task EXCEPT ![t] = Idle]
Fault == faults < MaxFaults /\ faults' = faults + 1

-----------------------------------------------------------------------------
(* The transfer: DataPlane.receive_remote, and transfer, which is the same *)
(* loop over a local file whose chunks may fail their check                *)

Receive(t) ==
  /\ task[t].pc = "idle"
  /\ task' = [task EXCEPT ![t] = [Idle EXCEPT !.pc = "opening",
                !.fresh = files[Dest] = None, !.completed = recorded]]
  /\ UNCHANGED <<files, recorded, store, issued, team, faults>>

\* A file is extended to the artifact's size, never shortened.
Extended(f) ==
  [i \in 1..(IF Len(f) < Len(Reference) THEN Len(Reference) ELSE Len(f)) |->
     IF i <= Len(f) THEN f[i] ELSE Junk]
\* "w+b" empties a file that has appeared since it was looked for.
Open(t) ==
  /\ task[t].pc = "opening"
  /\ files' = [files EXCEPT ![Dest] = Extended(IF task[t].fresh THEN <<>> ELSE @)]
  /\ task' = [task EXCEPT ![t].pc = "chunks"]
  /\ UNCHANGED <<recorded, store, issued, team, faults>>

InChunks(t) == task[t].pc = "chunks" /\ task[t].at \in Chunk
\* Mutant of Skips: what the state file says is believed.
SkipsUnread(t, i) == i \in task[t].completed
Skips(t, i) == i \in task[t].completed /\ files[Dest][i] = Reference[i]
SkipChunk(t) ==
  /\ InChunks(t) /\ Skips(t, task[t].at)
  /\ task' = [task EXCEPT ![t].at = @ + 1]
  /\ UNCHANGED <<files, recorded, store, issued, team, faults>>
\* get_artifact_chunk: the server reads the chunk from its store's object and refuses
\* one that has not the digest asked for.
Sent(i) == Reference[i]
\* A chunk is fetched, found good, written, read back and recorded.
FetchChunk(t) ==
  /\ InChunks(t) /\ ~Skips(t, task[t].at)
  /\ files' = [files EXCEPT ![Dest][task[t].at] = Sent(task[t].at)]
  /\ task' = [task EXCEPT ![t].at = @ + 1, ![t].completed = @ \cup {task[t].at}]
  /\ recorded' = task'[t].completed
  /\ UNCHANGED <<store, issued, team, faults>>

Verified(t) == files[Dest] = Reference
VerifyAll(t) ==
  /\ task[t].pc = "chunks" /\ task[t].at = Len(Reference) + 1
  /\ IF Verified(t)
       THEN /\ recorded' = task[t].completed
            /\ task' = [task EXCEPT ![t] = [Idle EXCEPT !.pc = "put"]]
       ELSE Raise(t) /\ UNCHANGED recorded
  /\ UNCHANGED <<files, store, issued, team, faults>>

\* The fetch fails or brings other bytes, the caller interrupts, or the process
\* dies, perhaps while it writes.
Interrupt(t) ==
  /\ InChunks(t) /\ Fault
  /\ files' \in {files} \cup
       {[files EXCEPT ![Dest][task[t].at] = b] : b \in {Reference[task[t].at], Junk}}
  /\ Raise(t)
  /\ UNCHANGED <<recorded, store, issued, team>>

-----------------------------------------------------------------------------
(* The commit: ArtifactCommitter.commit_file, ContentAddressedStore.put_file *)

\* A producer's adapter has run.
Produce(t) ==
  /\ task[t].pc = "idle"
  /\ task' = [task EXCEPT ![t] = [Idle EXCEPT !.pc = "put"]]
  /\ UNCHANGED <<files, recorded, store, issued, team, faults>>

Source(t) == IF t \in Receiver THEN Dest ELSE Outputs[t][task[t].at]
Named(f) == {o \in objects : o.name = f}
\* Mutant of Present: a copy that another commit has begun counts.
PresentOrCopied(f) ==
  Named(f) # {} \/ \E u \in Actor : task[u].digest = f /\ task[u].pc \in {"copying", "linking"}
Present(f) == Named(f) # {}
\* The source is hashed; nothing is copied if the store has its digest.
PutFile(t) ==
  /\ task[t].pc = "put"
  /\ LET f == files[Source(t)]
     IN IF f \in {None, <<>>} \/ \E o \in Named(f) : o.data # f
          THEN Raise(t)
          ELSE task' = [task EXCEPT ![t].digest = f,
                          ![t].pc = IF Present(f) THEN "recording" ELSE "copying"]
  /\ UNCHANGED <<files, recorded, store, issued, team, faults>>

Accepts(t, f) == f = task[t].digest
\* The source is read again, into a temporary file.
CopyFile(t) ==
  /\ task[t].pc = "copying"
  /\ LET f == files[Source(t)]
     IN IF Accepts(t, f) THEN task' = [task EXCEPT ![t].copy = f, ![t].pc = "linking"]
                         ELSE Raise(t)
  /\ UNCHANGED <<files, recorded, store, issued, team, faults>>

\* os.link makes the object, unless somebody else has; then it is verified.
LinkObject(t) ==
  /\ task[t].pc = "linking"
  /\ LET named == Named(task[t].digest)
         new == [name |-> task[t].digest, data |-> task[t].copy]
     IN /\ objects' = IF named = {} THEN objects \cup {new} ELSE objects
        /\ IF \A o \in objects' : o.name = task[t].digest => o.data = o.name
             THEN task' = [task EXCEPT ![t].pc = "recording"]
             ELSE Raise(t)
  /\ UNCHANGED <<files, recorded, lineage, issued, team, faults>>

\* Mutant of Delivered: a receiver does not compare the address with the plan's.
DeliveredAny(t) == TRUE
Delivered(t) == t \in Receiver => task[t].digest = Reference
Last(t) == t \in Receiver \/ task[t].at = Len(Outputs[t])
\* ArtifactLineageStore.record inserts or replaces a row.
Entered(d, t) == [c \in DOMAIN lineage \cup {d} |-> IF c = d THEN t ELSE lineage[c]]
\* The lineage row is entered; a receiver then compares the address
\* with its plan, a producer goes on with its next file.
RecordLineage(t) ==
  /\ task[t].pc = "recording"
  /\ lineage' = Entered(task[t].digest, t)
  /\ IF Delivered(t)
       THEN /\ issued' = issued \cup {task[t].digest}
            /\ task' = [task EXCEPT ![t].pc = IF Last(t) THEN "done" ELSE "put",
                                    ![t].at = IF Last(t) THEN @ ELSE @ + 1]
       ELSE Raise(t) /\ UNCHANGED issued
  /\ UNCHANGED <<files, recorded, objects, team, faults>>

\* The process dies (a temporary file may stay behind).
Die(t) ==
  /\ task[t].pc \notin {"idle", "done"} /\ Fault
  /\ Raise(t)
  /\ UNCHANGED <<files, recorded, store, issued, team>>

\* A process left over from an earlier attempt changes a producer's file.
Rewrite(p) ==
  /\ p \in Path \ {Dest} /\ Fault
  /\ \E fs \in FileSystems : fs[p] # files[p] /\ files' = [files EXCEPT ![p] = fs[p]]
  /\ UNCHANGED <<recorded, store, task, issued, team>>

Step(t) ==
  \/ t \in Receiver /\ Receive(t)
  \/ t \in Producer /\ Produce(t)
  \/ Open(t) \/ SkipChunk(t) \/ FetchChunk(t) \/ VerifyAll(t)
  \/ PutFile(t) \/ CopyFile(t) \/ LinkObject(t) \/ RecordLineage(t)

StoreNext ==
  \/ \E t \in team : Step(t) \/ Interrupt(t) \/ Die(t)
  \/ \E p \in Path : Rewrite(p)

StoreSpec == StoreInit /\ [][StoreNext]_svars
\* Callers try again what failed, and running calls go on.
FairStoreSpec == StoreSpec /\ \A t \in Actor : WF_svars(t \in team /\ Step(t))

-----------------------------------------------------------------------------
\* An object's name is the digest of its bytes, and it is the only one of that
\* name, though sources change between the read that names them and the one that
\* copies them, and writers race for the same name.
ObjectsNamed ==
  \A o, p \in objects : o.data = o.name /\ (o.name = p.name => o = p)

\* The store as its users see it: nothing stored is lost or replaced, lineage is
\* never without its bytes, and an address returned is one of those, whatever is
\* interrupted or killed in between.
Content == INSTANCE ContentStore WITH
  Data <- File,
  stored <- {o.name : o \in {q \in objects : q.data = q.name}},
  indexed <- DOMAIN lineage
ImplementsStore == Content!Spec

\* A transferred artifact is handed out only under the digest the plan had.
PlannedDigest ==
  \A t \in Receiver : task[t].pc = "done" => Reference \in issued /\ task[t].digest = Reference

\* Each transfer gets its artifact into the store in the end, from whatever the
\* destination and the state file of the transfer id held before and whatever was
\* interrupted, as long as the destination was not longer than the artifact.
TransferEnds ==
  \A t \in Receiver :
    (t \in team /\ (files[Dest] # None => Len(files[Dest]) <= Len(Reference)))
      ~> task[t].pc = "done"
=============================================================================
