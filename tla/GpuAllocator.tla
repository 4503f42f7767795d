---------------------------- MODULE GpuAllocator ----------------------------
(***************************************************************************)
(* src/studio/distributed_gpu.py: gangs of GPUs on several workers,        *)
(* reserved all at once by DistributedGpuAllocator under a lease and a     *)
(* fencing epoch, and kept in SQLiteDistributedGpuAllocationStore, which   *)
(* several control processes share.  A process holds its own copy of the   *)
(* allocations, read from the store only when it starts.                   *)
(*                                                                         *)
(* Each transaction on the store is a step: expire, which plan calls first,*)
(* is one of its own before the reservation's.  An allocator's lock lets   *)
(* nothing else of its process come between.  GPUs are numbered in the     *)
(* order of the observation; the evidence bound to an allocation is left   *)
(* out.  A transaction may raise (a locked database) after the process has *)
(* already changed its memory.                                             *)
(***************************************************************************)
EXTENDS Integers, FiniteSets

CONSTANTS
  Process,        \* control processes over one store
  Worker,
  Gpu,            \* admissible GPUs of active, healthy workers
  Host,           \* Host[g]: the worker of g
  Size,           \* min_gpu_count values asked for
  LeaseSeconds,
  MaxTime,
  MaxAllocation,  \* allocations that can be recorded
  MaxEpoch,       \* fencing epochs a process can issue
  Deployments,    \* [processes, mayFail]: the processes that run, and whether a
                  \* store update may raise
  NowBound,       \* FALSE: `now` in _available_workers is an unbound name
  None

Id == 1..MaxAllocation
Final == {"completed", "released", "failed", "expired"}
Allocation == [gpus : SUBSET Gpu, epoch : Nat, until : Nat,
               state : {"reserved"} \cup Final]

ASSUME AllocatorAssumption ==
  /\ Gpu \subseteq Nat /\ IsFiniteSet(Gpu) /\ Host \in [Gpu -> Worker]
  /\ Size \subseteq Nat \ {0, 1}
  /\ LeaseSeconds \subseteq Nat \ {0}
  /\ MaxTime \in Nat /\ MaxAllocation \in Nat /\ MaxEpoch \in Nat
  /\ IsFiniteSet(Process)
  /\ Deployments \subseteq [processes : SUBSET Process, mayFail : BOOLEAN]
  /\ NowBound \in BOOLEAN
  /\ None \notin Int \cup Allocation

VARIABLES
  rows,           \* distributed_allocations; None: no row
  taken,          \* distributed_gpu_reservations: the allocation of a GPU
  mem,            \* per process: _allocations
  held,           \* per process: _reserved
  epoch,          \* per process: _next_fencing_epoch
  now,
  deployment,     \* the one of Deployments this behaviour is about
  misled          \* a reservation was refused although the store had room (history)

store == <<rows, taken>>
avars == <<rows, taken, mem, held, epoch, now, deployment, misled>>

Table == [Id -> Allocation \cup {None}]
Reservations == [Gpu -> Id \cup {None}]

AllocatorTypeOK ==
  /\ rows \in Table /\ taken \in Reservations
  /\ mem \in [Process -> Table] /\ held \in [Process -> Reservations]
  /\ epoch \in [Process -> Nat \ {0}]
  /\ now \in 0..MaxTime
  /\ deployment \in Deployments
  /\ misled \in BOOLEAN

ReservedIn(table) == {a \in Id : table[a] # None /\ table[a].state = "reserved"}
Close(table, S, state) ==
  [a \in Id |-> IF a \in S THEN [table[a] EXCEPT !.state = state] ELSE table[a]]
Free(reservations, S) ==
  [g \in Gpu |-> IF reservations[g] \in S THEN None ELSE reservations[g]]

AllocatorInit ==
  /\ rows = [a \in Id |-> None] /\ taken = [g \in Gpu |-> None]
  /\ mem = [p \in Process |-> rows] /\ held = [p \in Process |-> taken]
  /\ epoch = [p \in Process |-> 1]
  /\ now = 0
  /\ deployment \in Deployments
  /\ misled = FALSE

-----------------------------------------------------------------------------
\* Mutant of Closing: a row in its final state keeps its reservations.
ClosingKeepsRows(p, S, state) ==
  /\ mem' = [mem EXCEPT ![p] = Close(@, S, state)]
  /\ held' = [held EXCEPT ![p] = Free(@, S)]
  /\ rows' = Close(rows, S, state)
  /\ UNCHANGED taken
\* Mutant of Closing: the process keeps the GPUs as reserved.
ClosingKeepsHeld(p, S, state) ==
  /\ mem' = [mem EXCEPT ![p] = Close(@, S, state)]
  /\ rows' = Close(rows, S, state)
  /\ taken' = Free(taken, S)
  /\ UNCHANGED held
\* _transition of the allocations S, memory and store (store.update is keyed by
\* the allocation alone, whatever the row's state has become).
Closing(p, S, state) ==
  /\ mem' = [mem EXCEPT ![p] = Close(@, S, state)]
  /\ held' = [held EXCEPT ![p] = Free(@, S)]
  /\ rows' = Close(rows, S, state)
  /\ taken' = Free(taken, S)

\* store.update raises for `a` after S went through: only _allocations changed.
ClosingRaises(p, S, a, state) ==
  /\ deployment.mayFail
  /\ mem' = [mem EXCEPT ![p] = Close(@, S \cup {a}, state)]
  /\ held' = [held EXCEPT ![p] = Free(@, S)]
  /\ rows' = Close(rows, S, state)
  /\ taken' = Free(taken, S)

Overdue(p) == {a \in ReservedIn(mem[p]) : mem[p][a].until <= now}

Expire(p) ==
  /\ \/ Closing(p, Overdue(p), "expired")
     \/ \E a \in Overdue(p) : \E S \in SUBSET (Overdue(p) \ {a}) :
          ClosingRaises(p, S, a, "expired")
  /\ UNCHANGED <<epoch, now, deployment, misled>>

\* complete, release and fail by a caller that presents the allocation's epoch.
MayClose(p, a, fence) ==
  /\ a \in ReservedIn(mem[p])
  /\ mem[p][a].epoch = fence
  /\ now < mem[p][a].until
CloseOne(p, a, fence, state) ==
  /\ MayClose(p, a, fence)
  /\ Closing(p, {a}, state) \/ ClosingRaises(p, {}, a, state)
  /\ UNCHANGED <<epoch, now, deployment, misled>>

\* _candidate_gpus admits for one GPU at a time, so each worker offers the first
\* of its GPUs that the process does not have as reserved.
Offered(p) ==
  {g \in Gpu : held[p][g] = None /\
     \A h \in Gpu : Host[h] = Host[g] /\ held[p][h] = None => g <= h}

\* No reservation in the store holds n of the GPUs, and they are on two workers at
\* least.
Room(n) ==
  LET free == {g \in Gpu : taken[g] = None}
  IN Cardinality(free) >= n /\ Cardinality({Host[g] : g \in free}) >= 2

Group(p, gpus, n) == gpus \subseteq Offered(p) /\ Cardinality(gpus) = n

\* reserve, its plan made: the transaction takes all GPUs or none; the epoch is
\* used up in either case.
Reserve(p, n, seconds) ==
  /\ NowBound /\ Overdue(p) = {}
  /\ now + seconds <= MaxTime /\ epoch[p] <= MaxEpoch
  /\ \E gpus \in SUBSET Gpu, a \in Id :
       /\ Group(p, gpus, n)
       /\ rows[a] = None /\ \A b \in 1..a - 1 : rows[b] # None
       /\ IF \A g \in gpus : taken[g] = None
            THEN LET new == [gpus |-> gpus, epoch |-> epoch[p],
                             until |-> now + seconds, state |-> "reserved"]
                 IN /\ rows' = [rows EXCEPT ![a] = new]
                    /\ taken' = [g \in Gpu |-> IF g \in gpus THEN a ELSE taken[g]]
                    /\ mem' = [mem EXCEPT ![p][a] = new]
                    /\ held' = [held EXCEPT ![p] =
                                  [g \in Gpu |-> IF g \in gpus THEN a ELSE @[g]]]
                    /\ UNCHANGED misled
            ELSE misled' = (misled \/ Room(n)) /\ UNCHANGED <<store, mem, held>>
  /\ epoch' = [epoch EXCEPT ![p] = @ + 1]
  /\ UNCHANGED <<now, deployment>>
\* No n workers with an offer to be had, or the name `now` is not bound.
ReserveRaises(p, n) ==
  /\ Overdue(p) = {}
  /\ NowBound => \A gpus \in SUBSET Gpu : ~Group(p, gpus, n)
  /\ misled' = (misled \/ Room(n))
  /\ UNCHANGED <<store, mem, held, epoch, now, deployment>>

\* Mutant of NextEpoch: epochs start again with the process.
NextEpochAnew(e) == e = 1
\* The epoch after the largest in the store, 1 if there is none.
NextEpoch(e) ==
  /\ \A a \in Id : rows[a] # None => rows[a].epoch < e
  /\ e = 1 \/ \E a \in Id : rows[a] # None /\ rows[a].epoch = e - 1
Restarting(p) ==
  /\ mem' = [mem EXCEPT ![p] = rows]
  /\ \E e \in 0..MaxEpoch + 1 : NextEpoch(e) /\ epoch' = [epoch EXCEPT ![p] = e]
  /\ UNCHANGED <<store, now, deployment, misled>>

\* Mutant of Restart: the reservations are not built again.
RestartWithoutHeld(p) ==
  /\ held' = [held EXCEPT ![p] = [g \in Gpu |-> None]]
  /\ Restarting(p)
\* The process ends and a new one loads the store.
Restart(p) ==
  /\ held' = [held EXCEPT ![p] =
       [g \in Gpu |-> IF \E a \in ReservedIn(rows) : g \in rows[a].gpus
                        THEN CHOOSE a \in ReservedIn(rows) : g \in rows[a].gpus ELSE None]]
  /\ Restarting(p)

Pass == now < MaxTime /\ now' = now + 1 /\ UNCHANGED <<store, mem, held, epoch, deployment, misled>>

AllocatorNext ==
  \/ \E p \in deployment.processes :
       \/ Expire(p) \/ Restart(p)
       \/ \E n \in Size :
            \/ \E seconds \in LeaseSeconds : Reserve(p, n, seconds)
            \/ ReserveRaises(p, n)
       \/ \E a \in Id : \E fence \in 1..epoch[p], state \in Final \ {"expired"} :
            CloseOne(p, a, fence, state)
  \/ Pass

AllocatorSpec == AllocatorInit /\ [][AllocatorNext]_avars
\* Time passes, and each process polls expire (reserve does so first).
FairAllocatorSpec ==
  AllocatorSpec /\ WF_avars(Pass) /\ \A p \in Process : WF_avars(Expire(p))

-----------------------------------------------------------------------------
\* Whatever several processes reserve, close, expire and forget, the store has a
\* reservation exactly for each GPU of each reserved allocation: gangs are whole
\* and disjoint ("records the entire allocation and every GPU reservation").
GangsWhole ==
  \A g \in Gpu, a \in Id :
    taken[g] = a <=> a \in ReservedIn(rows) /\ g \in rows[a].gpus

\* A process never offers a GPU that a reserved allocation it knows holds.
HeldIsKnown ==
  \A p \in Process, g \in Gpu :
    (\E a \in ReservedIn(mem[p]) : g \in mem[p][a].gpus) => held[p][g] # None

\* Some promises are those of one process over its own store (two break them).
Alone == Cardinality(deployment.processes) = 1

\* One process: a later allocation of a GPU carries a higher fencing epoch,
\* across failed reservations, failed updates, expiry and restarts.
FencesIncrease ==
  Alone => \A a, b \in Id : a < b /\ rows[b] # None /\ rows[a].gpus \cap rows[b].gpus # {} =>
    rows[a].epoch < rows[b].epoch

\* One process: an allocation in a final state stays in it (_transition).
FinalIsFinal ==
  [][Alone => \A a \in Id : rows[a] # None /\ rows[a].state # "reserved" =>
       rows'[a] = rows[a]]_avars

\* One process: what it has as reserved, and so withholds from planning, is exactly
\* what is reserved in the store, across failed updates, expiry and restarts
\* (_transition, expire, __init__).
HeldIsTaken == \A p \in Process : deployment.processes = {p} => held[p] = taken

\* When updates succeed, no GPU stays reserved for ever (expire).
GpusComeBack ==
  \A g \in Gpu : taken[g] # None /\ ~deployment.mayFail ~> taken[g] = None

-----------------------------------------------------------------------------
\* What the tests say and the code does not keep: one process makes a reservation
\* that the store has room for, eight GPUs over two workers with four each (plan,
\* _available_workers, _candidate_gpus).
RoomIsFound == Alone => ~misled
=============================================================================
