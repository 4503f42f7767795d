----------------------- MODULE GangExecution_proofs ------------------------
(***************************************************************************)
(* Theorems about GpuAllocator and GangExecution, for any processes,       *)
(* workers, GPUs, gang sizes and deployments.                              *)
(*                                                                         *)
(* A step changes tables in one of four ways: allocations are closed, one  *)
(* is made, a process loads the store, or only an epoch is used up.  What  *)
(* is proved of TableStep holds of the allocator alone and under gangs.    *)
(***************************************************************************)
EXTENDS GangExecution, FiniteSetTheorems, TLAPS

\* p has closed D in its memory and, of these, S everywhere.
Closes(p, S, D, state) ==
  /\ mem' = [mem EXCEPT ![p] = Close(@, D, state)]
  /\ held' = [held EXCEPT ![p] = Free(@, S)]
  /\ rows' = Close(rows, S, state)
  /\ taken' = Free(taken, S)
  /\ UNCHANGED epoch

ClosesSome(p) ==
  \E D \in SUBSET ReservedIn(mem[p]), state \in Final :
    \E S \in SUBSET D : Closes(p, S, D, state)

\* p has reserved gpus as the allocation a.
Reserves(p, a, gpus, new) ==
  /\ rows[a] = None /\ \A b \in 1..a - 1 : rows[b] # None
  /\ gpus \subseteq Offered(p) /\ \A g \in gpus : taken[g] = None
  /\ new \in Allocation /\ new.gpus = gpus /\ new.epoch = epoch[p] /\ new.state = "reserved"
  /\ rows' = [rows EXCEPT ![a] = new]
  /\ taken' = [g \in Gpu |-> IF g \in gpus THEN a ELSE taken[g]]
  /\ mem' = [mem EXCEPT ![p][a] = new]
  /\ held' = [held EXCEPT ![p] = [g \in Gpu |-> IF g \in gpus THEN a ELSE @[g]]]
  /\ epoch' = [epoch EXCEPT ![p] = @ + 1]

\* Nothing but the epoch of some process has changed, and that has grown.
Idles ==
  /\ UNCHANGED <<store, mem, held>>
  /\ epoch' = epoch \/ \E p \in Process : epoch' = [epoch EXCEPT ![p] = @ + 1]

\* A step as the tables, the clock and the history variable see it.
TableStep ==
  /\ deployment' = deployment
  /\ now' = now \/ (now < MaxTime /\ now' = now + 1)
  /\ misled' \in BOOLEAN
  /\ \/ \E p \in deployment.processes : ClosesSome(p)
     \/ \E p \in deployment.processes, a \in Id, gpus \in SUBSET Gpu, new \in Allocation :
          Reserves(p, a, gpus, new)
     \/ \E p \in deployment.processes : Restart(p)
     \/ Idles

\* A closing, one that raises among them, closes some of what the process has reserved.
LEMMA ClosingCases ==
  ASSUME NEW p, NEW state \in Final, UNCHANGED epoch, NEW S \in SUBSET ReservedIn(mem[p]),
         \/ Closing(p, S, state)
         \/ \E a \in ReservedIn(mem[p]) : ClosingRaises(p, S, a, state)
  PROVE  /\ \E D \in SUBSET ReservedIn(mem[p]) : S \subseteq D /\ Closes(p, S, D, state)
         /\ ClosesSome(p)
<1>1. \E D \in SUBSET ReservedIn(mem[p]) : S \subseteq D /\ Closes(p, S, D, state)
  <2>1. CASE Closing(p, S, state)
    BY <2>1 DEF Closing, Closes
  <2>2. ASSUME NEW a \in ReservedIn(mem[p]), ClosingRaises(p, S, a, state)
        PROVE  Closes(p, S, S \cup {a}, state)
    BY <2>2 DEF ClosingRaises, Closes
  <2> QED
    BY <2>1, <2>2
<1> QED
  BY <1>1 DEF ClosesSome

\* expire closes overdue allocations only, all of them or those before one that raises.
LEMMA ExpireCases ==
  ASSUME NEW p, Expire(p)
  PROVE  /\ UNCHANGED <<epoch, now, deployment, misled>>
         /\ \E S \in SUBSET Overdue(p) :
              \/ Closing(p, S, "expired")
              \/ \E a \in Overdue(p) : ClosingRaises(p, S, a, "expired")
         /\ ClosesSome(p)
<1>1. UNCHANGED <<epoch, now, deployment, misled>>
  BY DEF Expire
<1>2. PICK S \in SUBSET Overdue(p) :
        \/ Closing(p, S, "expired")
        \/ \E a \in Overdue(p) : ClosingRaises(p, S, a, "expired")
  BY DEF Expire
<1>3. Overdue(p) \subseteq ReservedIn(mem[p]) /\ "expired" \in Final
  BY DEF Overdue, Final
<1> QED
  BY <1>1, <1>2, <1>3, ClosingCases

\* A reservation is made, or only uses up its epoch.
LEMMA ReserveCases ==
  ASSUME AllocatorTypeOK, NEW p \in deployment.processes, NEW n \in Size,
         NEW seconds \in LeaseSeconds, Reserve(p, n, seconds)
  PROVE  /\ UNCHANGED <<now, deployment>> /\ misled' \in BOOLEAN
         /\ \/ \E a \in Id, gpus \in SUBSET Gpu, new \in Allocation :
                 Group(p, gpus, n) /\ Reserves(p, a, gpus, new)
            \/ Idles
<1>0. p \in Process
  BY AllocatorAssumption DEF AllocatorTypeOK
<1>1. PICK gpus \in SUBSET Gpu, a \in Id :
        /\ Group(p, gpus, n)
        /\ rows[a] = None /\ \A b \in 1..a - 1 : rows[b] # None
        /\ IF \A g \in gpus : taken[g] = None
             THEN LET new == [gpus |-> gpus, epoch |-> epoch[p],
                              until |-> now + seconds, state |-> "reserved"]
                  IN /\ rows' = [rows EXCEPT ![a] = new]
                     /\ taken' = [g \in Gpu |-> IF g \in gpus THEN a ELSE taken[g]]
                     /\ mem' = [mem EXCEPT ![p][a] = new]
                     /\ held' = [held EXCEPT ![p] =
                                   [g \in Gpu |-> IF g \in gpus THEN a ELSE @[g]]]
                     /\ UNCHANGED misled
             ELSE misled' = (misled \/ Room(n)) /\ UNCHANGED <<store, mem, held>>
  BY DEF Reserve
<1>2. UNCHANGED <<now, deployment>> /\ epoch' = [epoch EXCEPT ![p] = @ + 1]
  BY DEF Reserve
<1>3. CASE \A g \in gpus : taken[g] = None
  <2> DEFINE new == [gpus |-> gpus, epoch |-> epoch[p],
                     until |-> now + seconds, state |-> "reserved"]
  <2>1. epoch[p] \in Nat /\ now + seconds \in Nat
    BY <1>0, AllocatorAssumption DEF AllocatorTypeOK
  <2>2. new \in Allocation
    BY <2>1 DEF Allocation
  <2>3. gpus \subseteq Offered(p)
    BY <1>1 DEF Group
  <2>4. new.gpus = gpus /\ new.epoch = epoch[p] /\ new.state = "reserved"
    OBVIOUS
  <2>5. /\ rows' = [rows EXCEPT ![a] = new]
        /\ taken' = [g \in Gpu |-> IF g \in gpus THEN a ELSE taken[g]]
        /\ mem' = [mem EXCEPT ![p][a] = new]
        /\ held' = [held EXCEPT ![p] = [g \in Gpu |-> IF g \in gpus THEN a ELSE @[g]]]
        /\ UNCHANGED misled
    BY <1>1, <1>3
  <2> HIDE DEF new
  <2>6. Reserves(p, a, gpus, new)
    BY <1>1, <1>2, <1>3, <2>2, <2>3, <2>4, <2>5 DEF Reserves
  <2>7. misled' \in BOOLEAN
    BY <2>5 DEF AllocatorTypeOK
  <2> QED
    BY <1>1, <1>2, <2>2, <2>6, <2>7
<1>4. CASE ~\A g \in gpus : taken[g] = None
  <2>1. Idles
    BY <1>0, <1>1, <1>2, <1>4 DEF Idles
  <2>2. misled' \in BOOLEAN
    BY <1>1, <1>4
  <2> QED
    BY <1>2, <2>1, <2>2
<1> QED
  BY <1>3, <1>4

\* Every action of the allocator is one of the four kinds.
LEMMA StepCases ==
  ASSUME AllocatorTypeOK, [AllocatorNext]_avars
  PROVE  TableStep
<1>1. ASSUME NEW p \in deployment.processes, Expire(p) PROVE TableStep
  BY <1>1, ExpireCases DEF TableStep, AllocatorTypeOK
<1>2. ASSUME NEW p \in deployment.processes, NEW a \in Id, NEW fence,
             NEW state \in Final, CloseOne(p, a, fence, state)
      PROVE  TableStep
  <2>1. /\ a \in ReservedIn(mem[p])
        /\ UNCHANGED <<epoch, now, deployment, misled>>
        /\ Closing(p, {a}, state) \/ ClosingRaises(p, {}, a, state)
    BY <1>2 DEF CloseOne, MayClose
  <2>2. {a} \in SUBSET ReservedIn(mem[p]) /\ {} \in SUBSET ReservedIn(mem[p])
    BY <2>1
  <2>3. ClosesSome(p)
    BY <2>1, <2>2, ClosingCases
  <2> QED
    BY <2>1, <2>3 DEF TableStep, AllocatorTypeOK
<1>3. ASSUME NEW p \in deployment.processes, NEW n \in Size, NEW seconds \in LeaseSeconds,
             Reserve(p, n, seconds)
      PROVE  TableStep
  BY <1>3, ReserveCases DEF TableStep
<1>4. ASSUME NEW p \in deployment.processes, NEW n \in Size, ReserveRaises(p, n)
      PROVE  TableStep
  <2>1. misled' \in BOOLEAN
    BY <1>4 DEF ReserveRaises
  <2> QED
    BY <1>4, <2>1 DEF ReserveRaises, Idles, TableStep
<1>5. CASE Pass
  BY <1>5 DEF Pass, Idles, TableStep, AllocatorTypeOK
<1>6. CASE UNCHANGED avars
  BY <1>6 DEF avars, store, Idles, TableStep, AllocatorTypeOK
<1>7. ASSUME NEW p \in deployment.processes, Restart(p) PROVE TableStep
  BY <1>7 DEF Restart, Restarting, TableStep, AllocatorTypeOK
<1> QED
  BY <1>1, <1>2, <1>3, <1>4, <1>5, <1>6, <1>7 DEF AllocatorNext

-----------------------------------------------------------------------------
(* Types                                                                   *)

\* Closing changes the state of the closed allocations and nothing else.
ClosedFrom(new, table, S) ==
  /\ new \in Table
  /\ \A a \in Id : new[a] = None <=> table[a] = None
  /\ \A a \in Id : table[a] # None =>
       new[a].gpus = table[a].gpus /\ new[a].epoch = table[a].epoch /\ new[a].until = table[a].until
  /\ \A a \in Id \ S : new[a] = table[a]
  /\ ReservedIn(new) = ReservedIn(table) \ S

\* What Close does to a table of which it closes allocations that are there.
LEMMA CloseFacts ==
  ASSUME NEW table \in Table, NEW S \in SUBSET Id, \A a \in S : table[a] # None,
         NEW state \in Final
  PROVE  ClosedFrom(Close(table, S, state), table, S)
<1>1. None \notin Allocation
  BY AllocatorAssumption
<1>2. \A a \in S : /\ table[a] \in Allocation
                   /\ [table[a] EXCEPT !.state = state] \in Allocation
                   /\ [table[a] EXCEPT !.state = state].state = state
                   /\ [table[a] EXCEPT !.state = state].gpus = table[a].gpus
                   /\ [table[a] EXCEPT !.state = state].epoch = table[a].epoch
                   /\ [table[a] EXCEPT !.state = state].until = table[a].until
  BY DEF Table, Allocation
<1>3. state # "reserved"
  BY DEF Final
<1>4. \A a \in Id : Close(table, S, state)[a] =
        IF a \in S THEN [table[a] EXCEPT !.state = state] ELSE table[a]
  BY DEF Close
<1>5. Close(table, S, state) \in Table
  BY <1>2 DEF Close, Table
<1> QED
  BY <1>1, <1>2, <1>3, <1>4, <1>5 DEF ReservedIn, ClosedFrom

\* Freeing gives up the GPUs of the given allocations and no other.
LEMMA FreeFacts ==
  ASSUME NEW reservations \in Reservations, NEW S
  PROVE  /\ Free(reservations, S) \in Reservations
         /\ \A g \in Gpu : Free(reservations, S)[g] =
              IF reservations[g] \in S THEN None ELSE reservations[g]
BY DEF Free, Reservations

\* The marks of an empty row and of a free GPU are neither a row nor an id.
LEMMA NoneIsNoId == None \notin Id /\ None \notin Allocation
BY AllocatorAssumption DEF Id

\* What a process knows of is in the store, on the same terms.
MemStored ==
  \A p \in Process, a \in Id : mem[p][a] # None =>
    rows[a] # None /\ mem[p][a].gpus = rows[a].gpus /\ mem[p][a].until = rows[a].until

TablesOK ==
  /\ rows \in Table /\ taken \in Reservations
  /\ mem \in [Process -> Table] /\ held \in [Process -> Reservations]

\* A step keeps the tables well formed, and what a process knows of stored.
LEMMA TablesStep ==
  ASSUME AllocatorTypeOK, MemStored, TableStep
  PROVE  TablesOK' /\ MemStored' /\ epoch' \in [Process -> Nat \ {0}]
<1>0. /\ deployment.processes \subseteq Process
      /\ TablesOK /\ epoch \in [Process -> Nat \ {0}]
  BY AllocatorAssumption DEF AllocatorTypeOK, TablesOK
<1>1. ASSUME NEW p \in deployment.processes, ClosesSome(p)
      PROVE  TablesOK' /\ MemStored' /\ epoch' \in [Process -> Nat \ {0}]
  <2>1. PICK D \in SUBSET ReservedIn(mem[p]), state \in Final :
          \E S \in SUBSET D : Closes(p, S, D, state)
    BY <1>1 DEF ClosesSome
  <2>2. PICK S \in SUBSET D : Closes(p, S, D, state)
    BY <2>1
  <2>3. /\ p \in Process /\ mem[p] \in Table /\ held[p] \in Reservations
        /\ D \in SUBSET Id /\ S \in SUBSET Id
        /\ \A a \in D : mem[p][a] # None
    BY <1>0 DEF TablesOK, ReservedIn
  <2>4. \A a \in S : rows[a] # None
    BY <2>3 DEF MemStored
  <2>5. ClosedFrom(Close(mem[p], D, state), mem[p], D)
    BY <2>3, CloseFacts
  <2>6. ClosedFrom(Close(rows, S, state), rows, S)
    BY <1>0, <2>3, <2>4, CloseFacts DEF TablesOK
  <2>7. Free(held[p], S) \in Reservations /\ Free(taken, S) \in Reservations
    BY <1>0, <2>3, FreeFacts DEF TablesOK
  <2>8. TablesOK'
    BY <1>0, <2>2, <2>5, <2>6, <2>7 DEF TablesOK, Closes, ClosedFrom
  <2>9. MemStored'
    <3> SUFFICES ASSUME NEW q \in Process, NEW a \in Id, mem'[q][a] # None
                 PROVE  /\ rows'[a] # None
                        /\ mem'[q][a].gpus = rows'[a].gpus /\ mem'[q][a].until = rows'[a].until
      BY DEF MemStored
    <3>1. /\ mem[q][a] # None
          /\ mem'[q][a].gpus = mem[q][a].gpus /\ mem'[q][a].until = mem[q][a].until
      BY <1>0, <2>2, <2>3, <2>5 DEF TablesOK, Closes, ClosedFrom
    <3> QED
      BY <3>1, <2>2, <2>6 DEF MemStored, Closes, ClosedFrom
  <2> QED
    BY <1>0, <2>2, <2>8, <2>9 DEF Closes
<1>2. ASSUME NEW p \in deployment.processes, NEW a \in Id, NEW gpus \in SUBSET Gpu,
             NEW new \in Allocation, Reserves(p, a, gpus, new)
      PROVE  TablesOK' /\ MemStored' /\ epoch' \in [Process -> Nat \ {0}]
  <2>1. TablesOK'
    BY <1>0, <1>2 DEF Reserves, TablesOK, Table, Reservations
  <2>2. MemStored'
    BY <1>0, <1>2, NoneIsNoId DEF Reserves, MemStored, TablesOK, Table
  <2> QED
    BY <1>0, <1>2, <2>1, <2>2 DEF Reserves
<1>3. ASSUME NEW p \in deployment.processes, Restart(p)
      PROVE  TablesOK' /\ MemStored' /\ epoch' \in [Process -> Nat \ {0}]
  <2>1. UNCHANGED <<rows, taken>> /\ mem' = [mem EXCEPT ![p] = rows]
    BY <1>3 DEF Restart, Restarting, store
  <2>2. PICK e \in 0..MaxEpoch + 1 : NextEpoch(e) /\ epoch' = [epoch EXCEPT ![p] = e]
    BY <1>3 DEF Restart, Restarting
  <2>3. e \in Nat \ {0}
    <3>1. e \in Nat
      BY AllocatorAssumption
    <3>2. \A a \in Id : rows[a] # None => rows[a].epoch \in Nat
      BY <1>0 DEF TablesOK, Table, Allocation
    <3> QED
      BY <2>2, <3>1, <3>2 DEF NextEpoch
  <2>4. [g \in Gpu |-> IF \E a \in ReservedIn(rows) : g \in rows[a].gpus
                         THEN CHOOSE a \in ReservedIn(rows) : g \in rows[a].gpus ELSE None]
          \in Reservations
    BY DEF ReservedIn, Reservations
  <2>5. held' \in [Process -> Reservations]
    BY <1>0, <1>3, <2>4 DEF Restart, TablesOK
  <2> QED
    BY <1>0, <2>1, <2>2, <2>3, <2>5 DEF TablesOK, MemStored
<1>4. CASE Idles
  <2>1. epoch' \in [Process -> Nat \ {0}]
    BY <1>0, <1>4 DEF Idles
  <2> QED
    BY <1>0, <1>4, <2>1 DEF Idles, store, TablesOK, MemStored
<1> QED
  BY <1>1, <1>2, <1>3, <1>4 DEF TableStep

\* ... and the clock, the deployment and the history variable.
LEMMA TypeStep ==
  ASSUME AllocatorTypeOK, MemStored, TableStep
  PROVE  AllocatorTypeOK' /\ MemStored'
<1>1. TablesOK' /\ MemStored' /\ epoch' \in [Process -> Nat \ {0}]
  BY TablesStep
<1>2. now' \in 0..MaxTime
  BY AllocatorAssumption DEF AllocatorTypeOK, TableStep
<1>3. deployment' \in Deployments /\ misled' \in BOOLEAN
  BY DEF AllocatorTypeOK, TableStep
<1> QED
  BY <1>1, <1>2, <1>3 DEF AllocatorTypeOK, TablesOK

\* The empty tables are well formed.
LEMMA InitialTables == AllocatorInit => AllocatorTypeOK /\ MemStored
<1> SUFFICES ASSUME AllocatorInit PROVE AllocatorTypeOK /\ MemStored
  OBVIOUS
<1>1. rows \in Table /\ taken \in Reservations
  BY DEF AllocatorInit, Table, Reservations
<1>2. mem \in [Process -> Table] /\ held \in [Process -> Reservations]
  BY <1>1 DEF AllocatorInit
<1>3. epoch \in [Process -> Nat \ {0}] /\ now \in 0..MaxTime /\ deployment \in Deployments
  BY AllocatorAssumption DEF AllocatorInit
<1>4. misled \in BOOLEAN
  BY DEF AllocatorInit
<1>5. MemStored
  BY DEF AllocatorInit, MemStored
<1> QED
  BY <1>1, <1>2, <1>3, <1>4, <1>5 DEF AllocatorTypeOK

\* The tables, in memory and in the store, are well formed; what a process
\* knows of is stored, so that what it closes is there to be closed.
THEOREM AllocatorTypeCorrect == AllocatorSpec => []AllocatorTypeOK
<1>1. AllocatorTypeOK /\ MemStored /\ [AllocatorNext]_avars => AllocatorTypeOK' /\ MemStored'
  BY StepCases, TypeStep
<1> QED
  BY <1>1, InitialTables, PTL DEF AllocatorSpec

-----------------------------------------------------------------------------
(* Gangs                                                                   *)

\* A step keeps gangs whole: only the GPUs of the closed, or of the new, allocation change.
LEMMA GangsStep ==
  ASSUME AllocatorTypeOK, MemStored, GangsWhole, TableStep
  PROVE  GangsWhole'
<1>0. /\ deployment.processes \subseteq Process
      /\ rows \in Table /\ taken \in Reservations
  BY AllocatorAssumption DEF AllocatorTypeOK
<1>1. ASSUME NEW p \in deployment.processes, ClosesSome(p) PROVE GangsWhole'
  <2>1. PICK D \in SUBSET ReservedIn(mem[p]), state \in Final :
          \E S \in SUBSET D : Closes(p, S, D, state)
    BY <1>1 DEF ClosesSome
  <2>2. PICK S \in SUBSET D : Closes(p, S, D, state)
    BY <2>1
  <2>3. S \in SUBSET Id /\ \A a \in S : rows[a] # None
    BY <1>0 DEF ReservedIn, MemStored
  <2>4. ClosedFrom(rows', rows, S)
    BY <1>0, <2>2, <2>3, CloseFacts DEF Closes
  <2>5. \A g \in Gpu : taken'[g] = IF taken[g] \in S THEN None ELSE taken[g]
    BY <1>0, <2>2, FreeFacts DEF Closes
  <2> SUFFICES ASSUME NEW g \in Gpu, NEW a \in Id
               PROVE  taken'[g] = a <=> a \in ReservedIn(rows') /\ g \in rows'[a].gpus
    BY DEF GangsWhole, ReservedIn
  <2>6. taken[g] = a <=> a \in ReservedIn(rows) /\ g \in rows[a].gpus
    BY DEF GangsWhole
  <2>7. taken'[g] = a <=> taken[g] = a /\ a \notin S
    BY <2>5, NoneIsNoId
  <2> QED
    BY <2>4, <2>6, <2>7 DEF ClosedFrom
<1>2. ASSUME NEW p \in deployment.processes, NEW a \in Id, NEW gpus \in SUBSET Gpu,
             NEW new \in Allocation, Reserves(p, a, gpus, new)
      PROVE  GangsWhole'
  <2> SUFFICES ASSUME NEW g \in Gpu, NEW b \in Id
               PROVE  taken'[g] = b <=> b \in ReservedIn(rows') /\ g \in rows'[b].gpus
    BY DEF GangsWhole, ReservedIn
  <2>1. taken[g] = b <=> b \in ReservedIn(rows) /\ g \in rows[b].gpus
    BY DEF GangsWhole
  <2>2. taken'[g] = IF g \in gpus THEN a ELSE taken[g]
    BY <1>2 DEF Reserves
  <2>3. /\ rows[a] = None /\ \A h \in gpus : taken[h] = None
        /\ new # None /\ new.gpus = gpus /\ new.state = "reserved"
        /\ rows'[b] = IF b = a THEN new ELSE rows[b]
    BY <1>0, <1>2, NoneIsNoId DEF Reserves, Table
  <2>4. CASE b = a
    BY <2>1, <2>2, <2>3, <2>4 DEF ReservedIn
  <2>5. CASE b # a
    BY <2>1, <2>2, <2>3, <2>5, NoneIsNoId DEF ReservedIn
  <2> QED
    BY <2>4, <2>5
<1>3. CASE UNCHANGED <<rows, taken>>
  BY <1>3 DEF GangsWhole, ReservedIn
<1> QED
  BY <1>1, <1>2, <1>3 DEF TableStep, Restart, Restarting, Idles, store

\* The store has a reservation exactly for each GPU of each reserved allocation,
\* whatever several processes with old copies do and whichever updates fail.
THEOREM GangsAlwaysWhole == AllocatorSpec => []GangsWhole
<1>1. AllocatorInit => GangsWhole
  BY NoneIsNoId DEF AllocatorInit, GangsWhole, ReservedIn
<1>2. AllocatorTypeOK /\ MemStored /\ GangsWhole /\ [AllocatorNext]_avars
        => AllocatorTypeOK' /\ MemStored' /\ GangsWhole'
  BY StepCases, TypeStep, GangsStep
<1> QED
  BY <1>1, <1>2, InitialTables, PTL DEF AllocatorSpec

\* A process has its GPUs as held by the very allocation that reserved them.
HeldByHolder ==
  \A p \in Process : \A a \in ReservedIn(mem[p]) : \A g \in mem[p][a].gpus : held[p][g] = a

\* A step keeps a process holding its GPUs; a restart does since gangs are disjoint.
LEMMA HeldStep ==
  ASSUME AllocatorTypeOK, MemStored, GangsWhole, HeldByHolder, TableStep
  PROVE  HeldByHolder'
<1>0. /\ deployment.processes \subseteq Process
      /\ rows \in Table /\ mem \in [Process -> Table] /\ held \in [Process -> Reservations]
      /\ \A q \in Process : \A b \in ReservedIn(mem[q]) : b \in Id /\ mem[q][b].gpus \subseteq Gpu
  BY AllocatorAssumption DEF AllocatorTypeOK, ReservedIn, Table, Allocation
<1>1. ASSUME NEW p \in deployment.processes, ClosesSome(p) PROVE HeldByHolder'
  <2>1. PICK D \in SUBSET ReservedIn(mem[p]), state \in Final :
          \E S \in SUBSET D : Closes(p, S, D, state)
    BY <1>1 DEF ClosesSome
  <2>2. PICK S \in SUBSET D : Closes(p, S, D, state)
    BY <2>1
  <2>3. /\ p \in Process /\ mem[p] \in Table /\ held[p] \in Reservations
        /\ D \in SUBSET Id /\ \A a \in D : mem[p][a] # None
    BY <1>0 DEF ReservedIn
  <2>4. ClosedFrom(mem'[p], mem[p], D)
    <3>1. mem'[p] = Close(mem[p], D, state)
      BY <1>0, <2>2 DEF Closes
    <3> QED
      BY <2>3, <3>1, CloseFacts
  <2>5. \A g \in Gpu : held'[p][g] = IF held[p][g] \in S THEN None ELSE held[p][g]
    BY <1>0, <2>2, <2>3, FreeFacts DEF Closes
  <2> SUFFICES ASSUME NEW q \in Process, NEW b \in ReservedIn(mem'[q]), NEW g \in mem'[q][b].gpus
               PROVE  held'[q][g] = b
    BY DEF HeldByHolder, ReservedIn
  <2>6. CASE q = p
    <3>1. b \in ReservedIn(mem[p]) \ D /\ mem'[p][b] = mem[p][b]
      BY <1>0, <2>4, <2>6 DEF ClosedFrom
    <3>2. g \in mem[p][b].gpus /\ g \in Gpu
      BY <1>0, <2>3, <2>6, <3>1
    <3>3. held[p][g] = b
      BY <2>3, <3>1, <3>2 DEF HeldByHolder
    <3> QED
      BY <2>5, <2>6, <3>1, <3>2, <3>3
  <2>7. CASE q # p
    BY <1>0, <2>2, <2>7 DEF Closes, HeldByHolder
  <2> QED
    BY <2>6, <2>7
<1>2. ASSUME NEW p \in deployment.processes, NEW a \in Id, NEW gpus \in SUBSET Gpu,
             NEW new \in Allocation, Reserves(p, a, gpus, new)
      PROVE  HeldByHolder'
  <2>1. /\ p \in Process /\ new # None /\ new.gpus = gpus
        /\ mem' = [mem EXCEPT ![p] = [mem[p] EXCEPT ![a] = new]]
        /\ held' = [held EXCEPT ![p] = [g \in Gpu |-> IF g \in gpus THEN a ELSE held[p][g]]]
        /\ \A g \in gpus : held[p][g] = None
    BY <1>0, <1>2, NoneIsNoId DEF Reserves, Offered
  <2> SUFFICES ASSUME NEW q \in Process, NEW b \in ReservedIn(mem'[q]), NEW g \in mem'[q][b].gpus
               PROVE  held'[q][g] = b
    BY DEF HeldByHolder, ReservedIn
  <2>2. CASE q = p /\ b = a
    BY <1>0, <2>1, <2>2 DEF Table
  <2>3. CASE q = p /\ b # a
    <3>1. mem'[p][b] = mem[p][b] /\ b \in ReservedIn(mem[p])
      BY <1>0, <2>1, <2>3 DEF ReservedIn, Table
    <3>2. held[p][g] = b /\ g \in Gpu /\ b \in Id
      BY <1>0, <2>1, <2>3, <3>1 DEF HeldByHolder
    <3>3. g \notin gpus
      BY <2>1, <3>2, NoneIsNoId
    <3> QED
      BY <1>0, <2>1, <2>3, <3>2, <3>3
  <2>4. CASE q # p
    BY <1>0, <2>1, <2>4 DEF HeldByHolder
  <2> QED
    BY <2>2, <2>3, <2>4
<1>3. ASSUME NEW p \in deployment.processes, Restart(p) PROVE HeldByHolder'
  <2>1. p \in Process /\ mem' = [mem EXCEPT ![p] = rows]
    BY <1>0, <1>3 DEF Restart, Restarting
  <2> SUFFICES ASSUME NEW q \in Process, NEW b \in ReservedIn(mem'[q]), NEW g \in mem'[q][b].gpus
               PROVE  held'[q][g] = b
    BY DEF HeldByHolder, ReservedIn
  <2>2. CASE q = p
    <3>1. b \in ReservedIn(rows) /\ g \in rows[b].gpus
      BY <1>0, <2>1, <2>2
    <3>2. b \in Id /\ g \in Gpu
      BY <1>0, <3>1 DEF ReservedIn, Table, Allocation
    <3>3. \A c \in ReservedIn(rows) : g \in rows[c].gpus => c = b
      <4>1. \A c \in ReservedIn(rows) : c \in Id
        BY DEF ReservedIn
      <4> QED
        BY <3>1, <3>2, <4>1 DEF GangsWhole
    <3>4. (CHOOSE c \in ReservedIn(rows) : g \in rows[c].gpus) = b
      BY <3>1, <3>3
    <3>5. held'[p][g] = IF \E c \in ReservedIn(rows) : g \in rows[c].gpus
                          THEN CHOOSE c \in ReservedIn(rows) : g \in rows[c].gpus ELSE None
      BY <1>0, <1>3, <2>1, <3>2 DEF Restart
    <3> QED
      BY <2>2, <3>1, <3>4, <3>5
  <2>3. CASE q # p
    BY <1>0, <1>3, <2>1, <2>3 DEF Restart, HeldByHolder
  <2> QED
    BY <2>2, <2>3
<1>4. CASE Idles
  BY <1>4 DEF Idles, HeldByHolder, ReservedIn
<1> QED
  BY <1>1, <1>2, <1>3, <1>4 DEF TableStep

\* No process offers a GPU that a reserved allocation it knows of holds, through
\* failed updates and restarts.
THEOREM HeldAlwaysKnown == AllocatorSpec => []HeldIsKnown
<1>1. AllocatorInit => GangsWhole /\ HeldByHolder
  BY NoneIsNoId DEF AllocatorInit, GangsWhole, HeldByHolder, ReservedIn
<1>2. AllocatorTypeOK /\ MemStored /\ GangsWhole /\ HeldByHolder /\ [AllocatorNext]_avars
        => AllocatorTypeOK' /\ MemStored' /\ GangsWhole' /\ HeldByHolder'
  BY StepCases, TypeStep, GangsStep, HeldStep
<1>3. HeldByHolder => HeldIsKnown
  BY NoneIsNoId DEF HeldByHolder, HeldIsKnown, ReservedIn
<1> QED
  BY <1>1, <1>2, <1>3, InitialTables, PTL DEF AllocatorSpec

-----------------------------------------------------------------------------
(* One process over its own store                                          *)

\* The allocations of the only process p: numbered in the order they are made,
\* with growing epochs that p is past; p has no closed one as reserved.
Numbered(p) ==
  /\ \A a, b \in Id : a < b /\ rows[b] # None =>
       rows[a] # None /\ rows[a].epoch < rows[b].epoch
  /\ \A a \in Id : rows[a] # None => rows[a].epoch < epoch[p]
FinalKnown(p) ==
  \A a \in Id : rows[a] # None /\ a \notin ReservedIn(rows) => a \notin ReservedIn(mem[p])

AloneOK == \A p \in Process : deployment.processes = {p} => Numbered(p) /\ FinalKnown(p)

\* A step of the only process keeps the order of epochs and leaves closed rows alone.
LEMMA AloneStep ==
  ASSUME AllocatorTypeOK, MemStored, AloneOK, TableStep
  PROVE  /\ AloneOK'
         /\ Alone => \A a \in Id : rows[a] # None /\ rows[a].state # "reserved" => rows'[a] = rows[a]
<1>0. /\ deployment.processes \subseteq Process
      /\ rows \in Table /\ mem \in [Process -> Table]
      /\ epoch \in [Process -> Nat \ {0}]
  BY AllocatorAssumption DEF AllocatorTypeOK
<1>1. deployment' = deployment
  BY DEF TableStep
<1> DEFINE Kept == \A a \in Id : rows[a] # None /\ rows[a].state # "reserved" => rows'[a] = rows[a]
<1>2. ASSUME NEW p \in Process, deployment.processes = {p}
      PROVE  Numbered(p)' /\ FinalKnown(p)' /\ Kept
  <2>0. Numbered(p) /\ FinalKnown(p)
    BY <1>2 DEF AloneOK
  <2>1. CASE ClosesSome(p)
    <3>1. PICK D \in SUBSET ReservedIn(mem[p]), state \in Final :
            \E S \in SUBSET D : Closes(p, S, D, state)
      BY <2>1 DEF ClosesSome
    <3>2. PICK S \in SUBSET D : Closes(p, S, D, state)
      BY <3>1
    <3>3. /\ mem[p] \in Table /\ D \in SUBSET Id /\ S \in SUBSET Id
          /\ \A a \in D : mem[p][a] # None /\ rows[a] # None
      BY <1>0 DEF ReservedIn, MemStored
    <3>4. ClosedFrom(mem'[p], mem[p], D)
      <4>1. mem'[p] = Close(mem[p], D, state)
        BY <1>0, <3>2 DEF Closes
      <4> QED
        BY <3>3, <4>1, CloseFacts
    <3>5. ClosedFrom(rows', rows, S)
      BY <1>0, <3>2, <3>3, CloseFacts DEF Closes
    <3>6. Numbered(p)'
      BY <2>0, <3>2, <3>5 DEF Numbered, Closes, ClosedFrom
    <3>7. FinalKnown(p)'
      BY <2>0, <3>4, <3>5 DEF FinalKnown, ClosedFrom
    <3>8. Kept
      BY <2>0, <3>5 DEF FinalKnown, ClosedFrom, ReservedIn
    <3> QED
      BY <3>6, <3>7, <3>8
  <2>2. ASSUME NEW a \in Id, NEW gpus \in SUBSET Gpu, NEW new \in Allocation,
               Reserves(p, a, gpus, new)
        PROVE  Numbered(p)' /\ FinalKnown(p)' /\ Kept
    <3>0. \A b \in Id : b < a => rows[b] # None
      BY <2>2, AllocatorAssumption DEF Reserves, Id
    <3>1. /\ rows[a] = None /\ new # None /\ new.epoch = epoch[p] /\ new.state = "reserved"
          /\ \A b \in Id : rows'[b] = IF b = a THEN new ELSE rows[b]
          /\ \A b \in Id : mem'[p][b] = IF b = a THEN new ELSE mem[p][b]
          /\ epoch'[p] = epoch[p] + 1
      BY <1>0, <2>2, NoneIsNoId DEF Reserves, Table
    <3>2. \A b \in Id : a < b => rows[b] = None
      BY <2>0, <3>1 DEF Numbered
    <3>3. \A b \in Id : b < a => rows[b] # None /\ rows[b].epoch < epoch[p]
      BY <2>0, <3>0 DEF Numbered
    <3>4. epoch[p] \in Nat /\ \A b \in Id : rows[b] # None => rows[b].epoch \in Nat
      BY <1>0 DEF Table, Allocation
    <3>5. \A b \in Id : b \in Nat
      BY AllocatorAssumption DEF Id
    <3>6. Numbered(p)'
      <4>1. ASSUME NEW b \in Id, NEW c \in Id, b < c, rows'[c] # None
            PROVE  rows'[b] # None /\ rows'[b].epoch < rows'[c].epoch
        BY <2>0, <3>1, <3>2, <3>3, <3>5, <4>1 DEF Numbered
      <4>2. ASSUME NEW b \in Id, rows'[b] # None
            PROVE  rows'[b].epoch < epoch'[p]
        BY <2>0, <3>1, <3>4, <4>2 DEF Numbered
      <4> QED
        BY <4>1, <4>2 DEF Numbered
    <3>7. FinalKnown(p)'
      BY <2>0, <3>1 DEF FinalKnown, ReservedIn
    <3> QED
      BY <3>1, <3>6, <3>7
  <2>3. CASE Restart(p)
    <3>1. UNCHANGED rows /\ mem'[p] = rows
      BY <1>0, <2>3 DEF Restart, Restarting, store
    <3>2. \A a \in Id : rows[a] # None => rows[a].epoch < epoch'[p]
      BY <1>0, <2>3 DEF Restart, Restarting, NextEpoch
    <3> QED
      BY <2>0, <3>1, <3>2 DEF Numbered, FinalKnown, ReservedIn
  <2>4. CASE Idles
    <3>1. UNCHANGED <<rows, mem>> /\ epoch'[p] >= epoch[p]
      BY <1>0, <2>4 DEF Idles, store
    <3>2. epoch[p] \in Nat /\ epoch'[p] \in Nat /\ \A b \in Id : rows[b] # None => rows[b].epoch \in Nat
      BY <1>0, <2>4 DEF Idles, Table, Allocation
    <3> QED
      BY <2>0, <3>1, <3>2 DEF Numbered, FinalKnown, ReservedIn
  <2> QED
    BY <1>2, <2>1, <2>2, <2>3, <2>4 DEF TableStep
<1>3. AloneOK'
  BY <1>1, <1>2 DEF AloneOK
<1>4. Alone => \E p \in Process : deployment.processes = {p}
  BY <1>0, AllocatorAssumption, FS_Subset, FS_Singleton DEF Alone
<1> QED
  BY <1>2, <1>3, <1>4

\* The inductive invariant of one process over its own store.
LEMMA AloneAlways == AllocatorSpec => [](AllocatorTypeOK /\ MemStored /\ AloneOK)
<1>1. AllocatorInit => AloneOK
  BY DEF AllocatorInit, AloneOK, Numbered, FinalKnown, ReservedIn
<1>2. AllocatorTypeOK /\ MemStored /\ AloneOK /\ [AllocatorNext]_avars
        => AllocatorTypeOK' /\ MemStored' /\ AloneOK'
  BY StepCases, TypeStep, AloneStep
<1> QED
  BY <1>1, <1>2, InitialTables, PTL DEF AllocatorSpec

\* With one control process, whoever holds a GPU now presents a higher epoch than
\* whoever held it before, across failed reservations, failed updates and restarts.
THEOREM FencesAlwaysIncrease == AllocatorSpec => []FencesIncrease
<1>1. AllocatorTypeOK /\ AloneOK => FencesIncrease
  <2> SUFFICES ASSUME AllocatorTypeOK, AloneOK, Alone PROVE FencesIncrease
    BY DEF FencesIncrease
  <2>1. PICK p \in Process : deployment.processes = {p}
    BY AllocatorAssumption, FS_Subset, FS_Singleton DEF Alone, AllocatorTypeOK
  <2> QED
    BY <2>1 DEF AloneOK, Numbered, FencesIncrease
<1> QED
  BY <1>1, AloneAlways, PTL

\* With one control process, a closed allocation is never opened or closed again.
THEOREM FinalStaysFinal == AllocatorSpec => FinalIsFinal
<1>1. AllocatorTypeOK /\ MemStored /\ AloneOK /\ [AllocatorNext]_avars =>
        [Alone => \A a \in Id : rows[a] # None /\ rows[a].state # "reserved" =>
           rows'[a] = rows[a]]_avars
  BY StepCases, AloneStep
<1> QED
  BY <1>1, AloneAlways, PTL DEF AllocatorSpec, FinalIsFinal

-----------------------------------------------------------------------------
(* What the only process has as held is what the store has as taken        *)

\* A step keeps the two alike; a restart builds the one from the gangs in the other.
LEMMA HeldTakenStep ==
  ASSUME AllocatorTypeOK, MemStored, GangsWhole, HeldIsTaken, TableStep
  PROVE  HeldIsTaken'
<1> SUFFICES ASSUME NEW p \in Process, deployment'.processes = {p} PROVE held'[p] = taken'
  BY DEF HeldIsTaken
<1>0. /\ deployment.processes = {p} /\ held[p] = taken
      /\ rows \in Table /\ taken \in Reservations /\ held \in [Process -> Reservations]
  BY DEF AllocatorTypeOK, TableStep, HeldIsTaken
<1>1. CASE ClosesSome(p)
  BY <1>0, <1>1 DEF ClosesSome, Closes
<1>2. ASSUME NEW a \in Id, NEW gpus \in SUBSET Gpu, NEW new \in Allocation,
             Reserves(p, a, gpus, new)
      PROVE  held'[p] = taken'
  BY <1>0, <1>2 DEF Reserves
<1>3. CASE Restart(p)
  <2>1. /\ taken' = taken
        /\ held'[p] = [g \in Gpu |-> IF \E a \in ReservedIn(rows) : g \in rows[a].gpus
                         THEN CHOOSE a \in ReservedIn(rows) : g \in rows[a].gpus ELSE None]
    BY <1>0, <1>3 DEF Restart, Restarting, store
  <2>2. ASSUME NEW g \in Gpu PROVE held'[p][g] = taken[g]
    <3>1. \A a \in ReservedIn(rows) : a \in Id /\ (g \in rows[a].gpus <=> taken[g] = a)
      BY DEF GangsWhole, ReservedIn
    <3>2. CASE taken[g] = None
      BY <2>1, <3>1, <3>2, NoneIsNoId
    <3>3. CASE taken[g] # None
      <4>1. taken[g] \in Id
        BY <1>0, <3>3 DEF Reservations
      <4>2. taken[g] \in ReservedIn(rows) /\ g \in rows[taken[g]].gpus
        BY <4>1 DEF GangsWhole
      <4>3. (CHOOSE a \in ReservedIn(rows) : g \in rows[a].gpus) = taken[g]
        BY <3>1, <4>2
      <4> QED
        BY <2>1, <4>2, <4>3
    <3> QED
      BY <3>2, <3>3
  <2>3. held'[p] = [g \in Gpu |-> held'[p][g]] /\ taken = [g \in Gpu |-> taken[g]]
    BY <1>0, <2>1 DEF Reservations
  <2> QED
    BY <2>1, <2>2, <2>3
<1>4. CASE Idles
  BY <1>0, <1>4 DEF Idles, store
<1> QED
  BY <1>0, <1>1, <1>2, <1>3, <1>4 DEF TableStep

\* With one control process, what it has as reserved is what the store has, through
\* failed updates, expiry and restarts.
THEOREM HeldAlwaysTaken == AllocatorSpec => []HeldIsTaken
<1> DEFINE Inv == AllocatorTypeOK /\ MemStored /\ GangsWhole /\ HeldIsTaken
<1>1. AllocatorInit => Inv
  BY InitialTables, NoneIsNoId DEF AllocatorInit, GangsWhole, ReservedIn, HeldIsTaken
<1>2. Inv /\ [AllocatorNext]_avars => Inv'
  BY StepCases, TypeStep, GangsStep, HeldTakenStep
<1>3. Inv => HeldIsTaken
  OBVIOUS
<1> QED
  BY <1>1, <1>2, <1>3, PTL DEF AllocatorSpec

-----------------------------------------------------------------------------
(* Gangs of workers                                                        *)

Lease == Id \X Worker

GangTypeOK ==
  /\ gang \in [Id -> Dispatch \cup {None}]
  /\ trusted \subseteq Worker
  /\ answers \in [Lease -> Answer \cup {None}]
  /\ posts \subseteq Lease /\ spent \subseteq posts
  /\ progress \in [Lease -> {"idle", "running", "succeeded", "failed"}]
  /\ starts \in [Lease -> Nat]

\* A dispatch runs in one of the processes, which knows its allocation; the time
\* it has read is past.  An allocation has GPUs.
Dispatched ==
  /\ \A a \in Id : gang[a] # None =>
       /\ gang[a].by \in deployment.processes /\ mem[gang[a].by][a] # None
       /\ gang[a].pc = "closing" => gang[a].finished \in Nat /\ gang[a].finished <= now
  /\ \A a \in Id : rows[a] # None => rows[a].gpus # {}

\* Requests are for members of gangs that have been launched.  Processes and
\* answers come of requests; once the wait is over each request has its answer.
Requested ==
  /\ \A l \in posts : gang[l[1]] # None /\ gang[l[1]].pc # "leasing" /\ l[2] \in Members(l[1])
  /\ \A l \in posts : answers[l] = None => gang[l[1]].pc \in {"waiting", "dead"}
  /\ \A l \in Lease : progress[l] # "idle" => l \in spent
  /\ \A l \in Lease : answers[l] = "completed" => progress[l] = "succeeded"

\* Before its allocation's time is up, what its own process has as reserved is
\* reserved in the store, and a dispatch that has not closed it has it so.
Open == {"leasing", "waiting", "closing"}
Fenced ==
  \A a \in Id : gang[a] # None /\ now < rows[a].until =>
    /\ a \in ReservedIn(mem[gang[a].by]) => a \in ReservedIn(rows)
    /\ gang[a].pc \in Open => a \in ReservedIn(mem[gang[a].by])

GangInv ==
  /\ AllocatorTypeOK /\ MemStored /\ GangsWhole
  /\ GangTypeOK /\ Dispatched /\ Requested /\ Fenced

\* The terms of an allocation never change, and no process forgets one.
LEMMA TermsStay ==
  ASSUME AllocatorTypeOK, MemStored, TableStep
  PROVE  \A a \in Id :
           /\ rows[a] # None =>
                /\ rows'[a] # None
                /\ rows'[a].gpus = rows[a].gpus /\ rows'[a].until = rows[a].until
           /\ \A p \in Process : mem[p][a] # None => mem'[p][a] # None
<1>0. /\ deployment.processes \subseteq Process
      /\ rows \in Table /\ mem \in [Process -> Table]
  BY AllocatorAssumption DEF AllocatorTypeOK
<1>1. ASSUME NEW p \in deployment.processes, NEW D \in SUBSET ReservedIn(mem[p]),
             NEW state \in Final, NEW S \in SUBSET D, Closes(p, S, D, state)
      PROVE  ClosedFrom(rows', rows, S) /\ ClosedFrom(mem'[p], mem[p], D)
  <2>1. /\ p \in Process /\ mem[p] \in Table /\ D \in SUBSET Id /\ S \in SUBSET Id
        /\ \A a \in D : mem[p][a] # None /\ rows[a] # None
    BY <1>0 DEF ReservedIn, MemStored
  <2>2. rows' = Close(rows, S, state) /\ mem'[p] = Close(mem[p], D, state)
    BY <1>0, <1>1 DEF Closes
  <2> QED
    BY <1>0, <2>1, <2>2, CloseFacts
<1>2. ASSUME NEW p \in deployment.processes, ClosesSome(p), NEW a \in Id
      PROVE  /\ rows[a] # None =>
                  /\ rows'[a] # None
                  /\ rows'[a].gpus = rows[a].gpus /\ rows'[a].until = rows[a].until
             /\ \A q \in Process : mem[q][a] # None => mem'[q][a] # None
  <2>1. PICK D \in SUBSET ReservedIn(mem[p]), state \in Final :
          \E S \in SUBSET D : Closes(p, S, D, state)
    BY <1>2 DEF ClosesSome
  <2>2. PICK S \in SUBSET D : Closes(p, S, D, state)
    BY <2>1
  <2>3. \A q \in Process \ {p} : mem'[q] = mem[q]
    BY <1>0, <2>2 DEF Closes
  <2> QED
    BY <1>1, <2>2, <2>3 DEF ClosedFrom
<1>3. ASSUME NEW p \in deployment.processes, NEW b \in Id, NEW gpus \in SUBSET Gpu,
             NEW new \in Allocation, Reserves(p, b, gpus, new), NEW a \in Id
      PROVE  /\ rows[a] # None => rows'[a] = rows[a]
             /\ \A q \in Process : mem[q][a] # None => mem'[q][a] # None
  BY <1>0, <1>3, NoneIsNoId DEF Reserves, Table
<1>4. ASSUME NEW p \in deployment.processes, Restart(p), NEW a \in Id
      PROVE  /\ rows'[a] = rows[a]
             /\ \A q \in Process : mem[q][a] # None => mem'[q][a] # None
  BY <1>0, <1>4 DEF Restart, Restarting, store, MemStored
<1>5. CASE Idles
  BY <1>5 DEF Idles, store
<1> QED
  BY <1>2, <1>3, <1>4, <1>5 DEF TableStep

\* The members of an allocation that is there stay the same.
LEMMA MembersStay ==
  ASSUME AllocatorTypeOK, MemStored, TableStep, NEW a \in Id, rows[a] # None
  PROVE  Members(a)' = Members(a)
BY TermsStay DEF Members

\* A dispatch that has moved on in its code.
Moved(a, place, time) == gang' = [gang EXCEPT ![a].pc = place, ![a].finished = time]

\* Moving changes the place of one dispatch, and the time it has read.
LEMMA MovedFacts ==
  ASSUME GangTypeOK, NEW a \in Id, gang[a] # None, NEW place \in Place,
         NEW time \in Nat \cup {None}, Moved(a, place, time)
  PROVE  /\ gang' \in [Id -> Dispatch \cup {None}]
         /\ gang'[a] # None /\ gang'[a].pc = place /\ gang'[a].finished = time
         /\ gang'[a].by = gang[a].by
         /\ \A b \in Id : b # a => gang'[b] = gang[b]
<1>1. gang[a] \in Dispatch /\ gang \in [Id -> Dispatch \cup {None}]
  BY DEF GangTypeOK
<1> DEFINE d == [gang[a] EXCEPT !.pc = place, !.finished = time]
<1>2. d \in Dispatch /\ d.pc = place /\ d.finished = time /\ d.by = gang[a].by
  BY <1>1 DEF Dispatch
<1>3. d # None
  BY <1>2, ExecutorsAssumption
<1>4. gang' = [gang EXCEPT ![a] = d]
  BY <1>1 DEF Moved
<1> HIDE DEF d
<1> QED
  BY <1>1, <1>2, <1>3, <1>4

\* What a step does to an allocation its dispatch may still hold: only time, or a
\* dispatch that moves on, closes one.
Closed(p) ==
  \E D \in SUBSET ReservedIn(mem[p]), state \in Final : \E S \in SUBSET D :
    /\ Closes(p, S, D, state)
    /\ \A b \in D : \/ rows[b].until <= now
                    \/ gang[b] # None /\ gang[b].by = p /\ gang'[b].pc \notin Open
NoneNew == \A a \in Id : gang[a] = None => gang'[a] = None
Tables ==
  /\ TableStep
  /\ \/ NoneNew /\ \E p \in deployment.processes : Closed(p)
     \/ \E p \in deployment.processes, a \in Id, gpus \in SUBSET Gpu, new \in Allocation :
          /\ Reserves(p, a, gpus, new) /\ gpus # {}
          /\ gang' = [gang EXCEPT ![a] = [pc |-> "leasing", by |-> p, finished |-> None]]
     \/ NoneNew /\ \E p \in deployment.processes : Restart(p)
     \/ NoneNew /\ Idles

\* A dispatch stays, in its process, and does not come back to its allocation.
Stays ==
  \A a \in Id : gang[a] # None =>
    /\ gang'[a] # None /\ gang'[a].by = gang[a].by
    /\ gang'[a].pc \in Open => gang[a].pc \in Open

\* A dispatch closes its own allocation as it moves on.
LEMMA CloseOwnCases ==
  ASSUME GangInv, NEW a \in Id, gang[a] # None, NEW state \in Final,
         CloseOwn(a, state) \/ CloseRaises(a, state),
         UNCHANGED <<epoch, now, deployment, misled>>,
         NEW place \in Place \ Open, Moved(a, place, None)
  PROVE  Tables
<1>1. /\ gang[a].by \in deployment.processes /\ misled \in BOOLEAN
      /\ gang'[a].pc \notin Open /\ NoneNew
  <2>1. GangTypeOK /\ gang[a].by \in deployment.processes /\ misled \in BOOLEAN
    BY DEF GangInv, Dispatched, AllocatorTypeOK
  <2>2. place \in Place /\ place \notin Open /\ None \in Nat \cup {None}
    OBVIOUS
  <2>3. gang'[a].pc = place /\ \A b \in Id : b # a => gang'[b] = gang[b]
    BY <2>1, <2>2, MovedFacts
  <2>4. NoneNew
    BY <2>3 DEF NoneNew
  <2> QED
    BY <2>1, <2>2, <2>3, <2>4
<1> DEFINE p == gang[a].by
<1>2. CASE UNCHANGED <<store, mem, held>>
  BY <1>1, <1>2 DEF Idles, TableStep, Tables
<1>3. CASE a \in ReservedIn(mem[p]) /\ (Closing(p, {a}, state) \/ ClosingRaises(p, {}, a, state))
  <2>1. {a} \in SUBSET ReservedIn(mem[p]) /\ {} \in SUBSET ReservedIn(mem[p])
    BY <1>3
  <2>2. ClosesSome(p)
    BY <1>3, <2>1, ClosingCases
  <2>3. \E S \in SUBSET {a} : Closes(p, S, {a}, state)
    <3>1. Closing(p, {a}, state) => Closes(p, {a}, {a}, state)
      BY DEF Closing, Closes
    <3>2. ClosingRaises(p, {}, a, state) => Closes(p, {}, {a}, state)
      <4>1. {} \cup {a} = {a}
        OBVIOUS
      <4> QED
        BY <4>1 DEF ClosingRaises, Closes
    <3> QED
      BY <1>3, <3>1, <3>2
  <2>4. Closed(p)
    BY <1>1, <2>1, <2>3 DEF Closed
  <2> QED
    BY <1>1, <2>2, <2>4 DEF Tables, TableStep
<1> QED
  BY <1>2, <1>3 DEF CloseOwn, CloseRaises

\* ... or, late, all that is overdue by a time that is past.
LEMMA LateCases ==
  ASSUME GangInv, NEW p \in deployment.processes, NEW S,
         S \subseteq {b \in ReservedIn(mem[p]) : mem[p][b].until <= now},
         \/ Closing(p, S, "expired")
         \/ \E b \in ReservedIn(mem[p]) : mem[p][b].until <= now /\ ClosingRaises(p, S, b, "expired"),
         UNCHANGED <<epoch, now, deployment, misled>>, NoneNew
  PROVE  Tables
<1>0. /\ p \in Process /\ "expired" \in Final /\ misled \in BOOLEAN
      /\ S \in SUBSET ReservedIn(mem[p])
  BY AllocatorAssumption DEF GangInv, AllocatorTypeOK, Final
<1>1. \A b \in ReservedIn(mem[p]) : mem[p][b].until = rows[b].until
  BY <1>0 DEF GangInv, MemStored, ReservedIn
<1>2. ClosesSome(p)
  BY <1>0, ClosingCases
<1>3. CASE Closing(p, S, "expired")
  <2>1. Closes(p, S, S, "expired")
    BY <1>3 DEF Closing, Closes
  <2>2. Closed(p)
    BY <1>0, <1>1, <2>1 DEF Closed
  <2> QED
    BY <1>0, <1>2, <2>2 DEF Tables, TableStep
<1>4. ASSUME NEW b \in ReservedIn(mem[p]), mem[p][b].until <= now, ClosingRaises(p, S, b, "expired")
      PROVE  Tables
  <2>1. Closes(p, S, S \cup {b}, "expired")
    BY <1>4 DEF ClosingRaises, Closes
  <2>2. S \cup {b} \in SUBSET ReservedIn(mem[p]) /\ S \in SUBSET (S \cup {b})
    BY <1>0
  <2>3. \A c \in S \cup {b} : rows[c].until <= now
    BY <1>0, <1>1, <1>4
  <2>4. Closed(p)
    BY <1>0, <2>1, <2>2, <2>3 DEF Closed
  <2> QED
    BY <1>0, <1>2, <2>4 DEF Tables, TableStep
<1> QED
  BY <1>3, <1>4

\* The step of Conclude, in the way it happens.
LEMMA ConcludeCases ==
  ASSUME GangInv, NEW a \in Id, Conclude(a)
  PROVE  /\ Tables
         /\ \E place \in {"raised"} \cup Record : Moved(a, place, None)
         /\ gang[a] # None /\ gang[a].pc = "closing"
<1> DEFINE p == gang[a].by
           overdue == {b \in ReservedIn(mem[p]) : mem[p][b].until <= gang[a].finished}
           state == IF Success(a) THEN "completed" ELSE "failed"
<1>1. /\ gang[a] # None /\ gang[a].pc = "closing"
      /\ p \in deployment.processes /\ p \in Process
      /\ gang[a].finished \in Nat /\ gang[a].finished <= now /\ now \in Nat
  BY AllocatorAssumption DEF Conclude, GangInv, Dispatched, AllocatorTypeOK
<1>2. UNCHANGED <<epoch, now, deployment, misled>>
  BY DEF Conclude
<1>3. \E place \in {"raised"} \cup Record : Moved(a, place, None)
  BY DEF Conclude, Return, Moved
<1>4. NoneNew
  BY <1>1, <1>3, MovedFacts DEF GangInv, NoneNew, Place
<1>5. overdue \subseteq {b \in ReservedIn(mem[p]) : mem[p][b].until <= now}
  <2>1. \A b \in ReservedIn(mem[p]) : mem[p][b].until \in Nat
    BY <1>1 DEF GangInv, AllocatorTypeOK, Table, Allocation, ReservedIn
  <2>2. \A t \in Nat : t <= gang[a].finished => t <= now
    BY <1>1
  <2> QED
    BY <2>1, <2>2
<1>6. CASE gang[a].finished >= rows[a].until
  <2>1. \/ Closing(p, overdue, "expired")
        \/ \E b \in overdue : \E S \in SUBSET (overdue \ {b}) : ClosingRaises(p, S, b, "expired")
    BY <1>6 DEF Conclude
  <2> HIDE DEF overdue
  <2>2. CASE Closing(p, overdue, "expired")
    BY <1>1, <1>2, <1>3, <1>5, <1>4, <2>2, LateCases
  <2>3. ASSUME NEW b \in overdue, NEW S \in SUBSET (overdue \ {b}), ClosingRaises(p, S, b, "expired")
        PROVE  Tables
    <3>1. b \in ReservedIn(mem[p]) /\ mem[p][b].until <= now
      BY <1>5
    <3>2. S \subseteq {c \in ReservedIn(mem[p]) : mem[p][c].until <= now}
      BY <1>5
    <3> QED
      BY <1>1, <1>2, <2>3, <3>1, <1>4, <3>2, LateCases
  <2> QED
    BY <1>1, <1>3, <2>1, <2>2, <2>3
<1>7. CASE ~(gang[a].finished >= rows[a].until)
  <2>1. CloseOwn(a, state) \/ CloseRaises(a, state)
    BY <1>7 DEF Conclude
  <2>2. state \in Final
    BY DEF Final
  <2>3. \A place \in {"raised"} \cup Record : place \in Place \ Open
    BY DEF Place, Record, Open
  <2> HIDE DEF state
  <2>4. PICK place \in {"raised"} \cup Record : Moved(a, place, None)
    BY <1>3
  <2>5. place \in Place \ Open
    BY <2>3
  <2>6. Tables
    BY <1>1, <1>2, <2>1, <2>2, <2>4, <2>5, CloseOwnCases
  <2> QED
    BY <1>1, <1>3, <2>6
<1> QED
  BY <1>6, <1>7

\* A reservation, with the dispatch that made it.
LEMMA BeginCases ==
  ASSUME GangInv, NEW p \in deployment.processes, NEW n \in Size, NEW seconds \in LeaseSeconds,
         Begin(p, n, seconds)
  PROVE  Tables /\ (gang' = gang \/ \E a \in Id :
           rows[a] = None /\ gang' = [gang EXCEPT ![a] = [pc |-> "leasing", by |-> p, finished |-> None]])
<1>1. AllocatorTypeOK /\ Reserve(p, n, seconds) /\ gang \in [Id -> Dispatch \cup {None}]
  BY DEF Begin, GangInv, GangTypeOK
<1>2. TableStep
  BY <1>1, ReserveCases DEF TableStep
<1>3. ASSUME NEW a \in Id, NEW gpus \in SUBSET Gpu, NEW new \in Allocation,
             Group(p, gpus, n), Reserves(p, a, gpus, new)
      PROVE  /\ gpus # {} /\ rows[a] = None
             /\ gang' = [gang EXCEPT ![a] = [pc |-> "leasing", by |-> p, finished |-> None]]
  <2>1. gpus # {}
    BY <1>3, FS_EmptySet, AllocatorAssumption DEF Group
  <2>2. rows \in Table /\ rows[a] = None /\ rows' = [rows EXCEPT ![a] = new]
    BY <1>1, <1>3 DEF Reserves, AllocatorTypeOK
  <2>3. \A b \in Id : rows[b] = None /\ rows'[b] # None <=> b = a
    BY <2>2, NoneIsNoId DEF Table
  <2> DEFINE d == [pc |-> "leasing", by |-> p, finished |-> None]
  <2>4. gang' = [b \in Id |-> IF rows[b] = None /\ rows'[b] # None THEN d ELSE gang[b]]
    BY DEF Begin
  <2> HIDE DEF d
  <2>5. gang' = [gang EXCEPT ![a] = d]
    BY <1>1, <2>3, <2>4
  <2> QED
    BY <2>1, <2>2, <2>5 DEF d
<1>4. CASE Idles
  <2>1. UNCHANGED rows
    BY <1>4 DEF Idles, store
  <2>2. gang' = [b \in Id |-> IF rows[b] = None /\ rows'[b] # None
                                THEN [pc |-> "leasing", by |-> p, finished |-> None] ELSE gang[b]]
    BY DEF Begin
  <2>3. gang' = [b \in Id |-> gang[b]]
    BY <2>1, <2>2
  <2>4. gang' = gang
    BY <1>1, <2>3
  <2> QED
    BY <1>2, <1>4, <2>4 DEF Tables, NoneNew
<1> QED
  BY <1>1, <1>2, <1>3, <1>4, ReserveCases DEF Tables

\* A death takes the unfinished dispatches of the process with it.
LEMMA DieCases ==
  ASSUME GangInv, NEW p \in deployment.processes, Die(p)
  PROVE  /\ Tables
         /\ gang' \in [Id -> Dispatch \cup {None}]
         /\ NoneNew
         /\ \A a \in Id : gang[a] # None =>
              /\ gang'[a] # None /\ gang'[a].by = gang[a].by
              /\ gang'[a] = gang[a] \/ gang'[a].pc = "dead"
              /\ gang[a].pc \in Record => gang'[a] = gang[a]
<1>1. /\ Restart(p) /\ gang \in [Id -> Dispatch \cup {None}]
      /\ misled \in BOOLEAN /\ UNCHANGED <<now, deployment, misled>>
  BY DEF Die, GangInv, GangTypeOK, Restart, Restarting, AllocatorTypeOK
<1>2. ASSUME NEW a \in Id, gang[a] # None
      PROVE  LET d == [gang[a] EXCEPT !.pc = "dead", !.finished = None]
             IN  d \in Dispatch /\ d # None /\ d.pc = "dead" /\ d.by = gang[a].by
  <2>1. gang[a] \in Dispatch
    BY <1>1, <1>2
  <2> QED
    BY <2>1, ExecutorsAssumption DEF Dispatch, Place
<1>3. \A a \in Id : gang'[a] =
        IF gang[a] # None /\ gang[a].by = p /\ gang[a].pc \notin Record
          THEN [gang[a] EXCEPT !.pc = "dead", !.finished = None] ELSE gang[a]
  BY DEF Die
<1>4. gang' \in [Id -> Dispatch \cup {None}]
  <2>1. gang' = [a \in Id |->
          IF gang[a] # None /\ gang[a].by = p /\ gang[a].pc \notin Record
            THEN [gang[a] EXCEPT !.pc = "dead", !.finished = None] ELSE gang[a]]
    BY DEF Die
  <2> QED
    BY <1>1, <1>2, <2>1
<1>5. NoneNew
  BY <1>3 DEF NoneNew
<1>6. Tables
  BY <1>1, <1>5 DEF Tables, TableStep
<1> QED
  BY <1>2, <1>3, <1>4, <1>5, <1>6

\* Poll, like the expiry that an allocator makes before it plans.
LEMMA PollCases ==
  ASSUME GangInv, NEW p \in deployment.processes, Poll(p)
  PROVE  Tables /\ gang' = gang
<1>1. /\ UNCHANGED <<epoch, now, deployment, misled>>
      /\ \E S \in SUBSET Overdue(p) :
           \/ Closing(p, S, "expired")
           \/ \E a \in Overdue(p) : ClosingRaises(p, S, a, "expired")
  BY ExpireCases DEF Poll
<1>2. PICK S \in SUBSET Overdue(p) :
        \/ Closing(p, S, "expired")
        \/ \E a \in Overdue(p) : ClosingRaises(p, S, a, "expired")
  BY <1>1
<1>3. Tables
  BY <1>1, <1>2, LateCases DEF Overdue, Poll, NoneNew
<1> QED
  BY <1>3 DEF Poll

\* An abort closes the allocation if it can, and returns in either case.
LEMMA AbortCases ==
  ASSUME GangInv, NEW a \in Id, Abort(a)
  PROVE  /\ Tables /\ Moved(a, "requeued", None)
         /\ gang[a] # None /\ gang[a].pc \in {"leasing", "raised"}
<1>1. /\ gang[a] # None /\ gang[a].pc \in {"leasing", "raised"}
      /\ CloseOwn(a, "failed") \/ CloseRaises(a, "failed")
      /\ UNCHANGED <<epoch, now, deployment, misled>>
      /\ Moved(a, "requeued", None)
  BY DEF Abort, Return, Moved
<1>2. "failed" \in Final /\ "requeued" \in Place \ Open
  BY DEF Final, Place, Record, Open
<1> QED
  BY <1>1, <1>2, CloseOwnCases

\* A dispatch that has left its allocation does not come back to it.
LEMMA FencedStep ==
  ASSUME GangInv, Tables, Stays
  PROVE  Fenced'
<1> SUFFICES ASSUME NEW a \in Id, gang'[a] # None, now' < rows'[a].until
             PROVE  /\ a \in ReservedIn(mem'[gang'[a].by]) => a \in ReservedIn(rows')
                    /\ gang'[a].pc \in Open => a \in ReservedIn(mem'[gang'[a].by])
  BY DEF Fenced, ReservedIn
<1>0. /\ deployment.processes \subseteq Process
      /\ rows \in Table /\ mem \in [Process -> Table] /\ now \in Nat
      /\ TableStep
  BY AllocatorAssumption DEF GangInv, AllocatorTypeOK, Tables
<1> DEFINE q == gang[a].by
<1>1. ASSUME gang[a] # None
      PROVE  /\ q \in Process /\ mem[q][a] # None /\ rows[a] # None /\ gang'[a].by = q
             /\ rows'[a] # None /\ rows'[a].until = rows[a].until /\ now < rows[a].until
             /\ gang'[a].pc \in Open => gang[a].pc \in Open
             /\ a \in ReservedIn(mem[q]) => a \in ReservedIn(rows)
             /\ gang[a].pc \in Open => a \in ReservedIn(mem[q])
  <2>1. q \in Process /\ mem[q][a] # None
    BY <1>0, <1>1 DEF GangInv, Dispatched
  <2>2. rows[a] # None
    BY <2>1 DEF GangInv, MemStored
  <2>3. rows'[a] # None /\ rows'[a].until = rows[a].until
    BY <1>0, <2>2, TermsStay DEF GangInv
  <2>4. rows[a].until \in Nat
    BY <1>0, <2>2 DEF Table, Allocation
  <2>5. now < rows[a].until
    BY <1>0, <2>3, <2>4 DEF TableStep
  <2> QED
    BY <1>1, <2>1, <2>2, <2>3, <2>5 DEF GangInv, Fenced, Stays
<1>2. ASSUME NEW p \in deployment.processes, Closed(p), gang[a] # None
      PROVE  /\ a \in ReservedIn(mem'[gang'[a].by]) => a \in ReservedIn(rows')
             /\ gang'[a].pc \in Open => a \in ReservedIn(mem'[gang'[a].by])
  <2>1. PICK D \in SUBSET ReservedIn(mem[p]), state \in Final : \E S \in SUBSET D :
          /\ Closes(p, S, D, state)
          /\ \A b \in D : \/ rows[b].until <= now
                          \/ gang[b] # None /\ gang[b].by = p /\ gang'[b].pc \notin Open
    BY <1>2 DEF Closed
  <2>2. PICK S \in SUBSET D :
          /\ Closes(p, S, D, state)
          /\ \A b \in D : \/ rows[b].until <= now
                          \/ gang[b] # None /\ gang[b].by = p /\ gang'[b].pc \notin Open
    BY <2>1
  <2>3. ClosedFrom(rows', rows, S) /\ ClosedFrom(mem'[p], mem[p], D)
    <3>1. /\ p \in Process /\ mem[p] \in Table /\ D \in SUBSET Id /\ S \in SUBSET Id
          /\ \A b \in D : mem[p][b] # None /\ rows[b] # None
      BY <1>0 DEF ReservedIn, GangInv, MemStored
    <3>2. rows' = Close(rows, S, state) /\ mem'[p] = Close(mem[p], D, state)
      BY <1>0, <2>2 DEF Closes
    <3> QED
      BY <1>0, <3>1, <3>2, CloseFacts
  <2>4. q # p => mem'[q] = mem[q]
    BY <1>0, <1>1, <1>2, <2>2 DEF Closes
  <2>5. CASE a \in D
    <3>1. rows[a].until \in Nat
      BY <1>0, <1>1, <1>2 DEF Table, Allocation
    <3>2. q = p /\ gang'[a].pc \notin Open
      BY <1>0, <1>1, <1>2, <2>2, <2>5, <3>1
    <3>3. a \notin ReservedIn(mem'[q])
      BY <2>3, <2>5, <3>2 DEF ClosedFrom
    <3> QED
      BY <1>1, <1>2, <3>2, <3>3
  <2>6. CASE a \notin D
    <3>1. a \in ReservedIn(rows') <=> a \in ReservedIn(rows)
      BY <2>3, <2>6 DEF ClosedFrom
    <3>2. a \in ReservedIn(mem'[q]) <=> a \in ReservedIn(mem[q])
      BY <2>3, <2>4, <2>6 DEF ClosedFrom
    <3> QED
      BY <1>1, <1>2, <3>1, <3>2
  <2> QED
    BY <2>5, <2>6
<1>3. ASSUME NEW p \in deployment.processes, NEW b \in Id, NEW gpus \in SUBSET Gpu,
             NEW new \in Allocation, Reserves(p, b, gpus, new),
             gang' = [gang EXCEPT ![b] = [pc |-> "leasing", by |-> p, finished |-> None]]
      PROVE  /\ a \in ReservedIn(mem'[gang'[a].by]) => a \in ReservedIn(rows')
             /\ gang'[a].pc \in Open => a \in ReservedIn(mem'[gang'[a].by])
  <2>1. /\ rows' = [rows EXCEPT ![b] = new] /\ rows[b] = None
        /\ mem' = [mem EXCEPT ![p][b] = new]
        /\ new # None /\ new.state = "reserved"
    BY <1>3, NoneIsNoId DEF Reserves
  <2>2. p \in Process
    BY <1>0
  <2>3. CASE a = b
    <3>1. gang'[a].by = p
      BY <1>3, <2>3 DEF GangInv, GangTypeOK
    <3>2. mem'[p][a] = new /\ rows'[a] = new
      BY <1>0, <2>1, <2>2, <2>3 DEF Table
    <3> QED
      BY <2>1, <3>1, <3>2 DEF ReservedIn
  <2>4. CASE a # b
    <3>1. gang[a] # None
      BY <1>3, <2>4 DEF GangInv, GangTypeOK
    <3>2. mem'[q][a] = mem[q][a] /\ rows'[a] = rows[a]
      BY <1>0, <1>1, <2>1, <2>2, <2>4, <3>1 DEF Table
    <3> QED
      BY <1>1, <3>1, <3>2 DEF ReservedIn
  <2> QED
    BY <2>3, <2>4
<1>4. ASSUME NEW p \in deployment.processes, Restart(p), gang[a] # None
      PROVE  /\ a \in ReservedIn(mem'[gang'[a].by]) => a \in ReservedIn(rows')
             /\ gang'[a].pc \in Open => a \in ReservedIn(mem'[gang'[a].by])
  <2>1. UNCHANGED rows /\ mem' = [mem EXCEPT ![p] = rows]
    BY <1>4 DEF Restart, Restarting, store
  <2>2. mem'[q] = IF q = p THEN rows ELSE mem[q]
    BY <1>0, <1>1, <1>4, <2>1
  <2> QED
    BY <1>1, <1>4, <2>1, <2>2 DEF ReservedIn
<1>5. CASE Idles /\ gang[a] # None
  BY <1>1, <1>5 DEF Idles, store, ReservedIn
<1>6. NoneNew => gang[a] # None
  BY DEF NoneNew
<1> QED
  BY <1>2, <1>3, <1>4, <1>5, <1>6 DEF Tables

\* What a step of each action does to the tables and to the dispatches.
LEMMA GangStepCases ==
  ASSUME GangInv, [GangNext]_gvars
  PROVE  Tables /\ Stays /\ gang' \in [Id -> Dispatch \cup {None}]
<1>0. /\ gang \in [Id -> Dispatch \cup {None}] /\ GangTypeOK
      /\ misled \in BOOLEAN /\ now \in Nat
  BY AllocatorAssumption DEF GangInv, GangTypeOK, AllocatorTypeOK
<1> DEFINE Goal == Tables /\ Stays /\ gang' \in [Id -> Dispatch \cup {None}]
<1>1. ASSUME NEW a \in Id, gang[a] # None, NEW place \in Place, NEW time \in Nat \cup {None},
             Moved(a, place, time), place \in Open => gang[a].pc \in Open
      PROVE  Stays /\ NoneNew /\ gang' \in [Id -> Dispatch \cup {None}]
  BY <1>0, <1>1, MovedFacts DEF Stays, NoneNew
<1>2. gang' = gang => Stays /\ NoneNew /\ gang' \in [Id -> Dispatch \cup {None}]
  BY <1>0 DEF Stays, NoneNew
<1>3. ASSUME UNCHANGED <<store, mem, held, epoch, deployment, misled>>,
             now' = now \/ (now < MaxTime /\ now' = now + 1), NoneNew
      PROVE  Tables
  BY <1>0, <1>3 DEF Tables, TableStep, Idles
<1>4. UNCHANGED avars => UNCHANGED <<store, mem, held, epoch, deployment, misled, now>>
  BY DEF avars, store
<1>5. ASSUME NEW p \in deployment.processes, Poll(p) PROVE Goal
  BY <1>2, <1>5, PollCases
<1>6. ASSUME NEW p \in deployment.processes, Die(p) PROVE Goal
  BY <1>6, DieCases DEF Stays, Open
<1>7. ASSUME NEW p \in deployment.processes, NEW n \in Size, NEW seconds \in LeaseSeconds,
             Begin(p, n, seconds)
      PROVE  Goal
  <2>1. Tables /\ (gang' = gang \/ \E a \in Id :
           rows[a] = None /\ gang' = [gang EXCEPT ![a] = [pc |-> "leasing", by |-> p, finished |-> None]])
    BY <1>7, BeginCases
  <2>2. ASSUME NEW a \in Id, rows[a] = None,
               gang' = [gang EXCEPT ![a] = [pc |-> "leasing", by |-> p, finished |-> None]]
        PROVE  Goal
    <3>1. p \in Process
      BY AllocatorAssumption DEF GangInv, AllocatorTypeOK
    <3>2. gang[a] = None
      BY <2>2, AllocatorAssumption DEF GangInv, Dispatched, MemStored, AllocatorTypeOK
    <3> DEFINE d == [pc |-> "leasing", by |-> p, finished |-> None]
    <3>3. d \in Dispatch
      BY <3>1 DEF Dispatch, Place
    <3> HIDE DEF d
    <3>4. gang' \in [Id -> Dispatch \cup {None}] /\ \A b \in Id : b # a => gang'[b] = gang[b]
      BY <1>0, <2>2, <3>3 DEF d
    <3> QED
      BY <2>1, <3>2, <3>4 DEF Stays
  <2> QED
    BY <1>2, <2>1, <2>2
<1>8. ASSUME NEW a \in Id, Abort(a) PROVE Goal
  <2>1. "requeued" \in Place \ Open
    BY DEF Place, Record, Open
  <2> QED
    BY <1>1, <1>8, <2>1, AbortCases
<1>9. ASSUME NEW a \in Id, Conclude(a) PROVE Goal
  <2>1. PICK place \in {"raised"} \cup Record : Moved(a, place, None)
    BY <1>9, ConcludeCases
  <2>2. place \in Place \ Open
    BY DEF Place, Record, Open
  <2> QED
    BY <1>1, <1>9, <2>1, <2>2, ConcludeCases
<1>10. ASSUME NEW a \in Id, Launch(a) PROVE Goal
  <2>1. gang[a] # None /\ gang[a].pc = "leasing" /\ gang' = [gang EXCEPT ![a].pc = "waiting"]
        /\ gang[a] \in Dispatch
    BY <1>0, <1>10 DEF Launch
  <2>2. Moved(a, "waiting", gang[a].finished) /\ gang[a].finished \in Nat \cup {None}
    BY <1>0, <2>1 DEF Moved, Dispatch
  <2>3. Stays /\ NoneNew /\ gang' \in [Id -> Dispatch \cup {None}]
    BY <1>1, <2>1, <2>2 DEF Place, Open
  <2> QED
    BY <1>3, <1>4, <1>10, <2>3 DEF Launch
<1>11. ASSUME NEW a \in Id, Collect(a) PROVE Goal
  <2>1. gang[a] # None /\ gang[a].pc = "waiting" /\ Moved(a, "closing", now)
    BY <1>11 DEF Collect, Waiting, Moved
  <2>2. Stays /\ NoneNew /\ gang' \in [Id -> Dispatch \cup {None}]
    BY <1>0, <1>1, <2>1 DEF Place, Open
  <2> QED
    BY <1>3, <1>4, <1>11, <2>2 DEF Collect
<1>12. CASE UNCHANGED <<avars, gang>>
  BY <1>2, <1>3, <1>4, <1>12
<1>13. CASE Pass /\ UNCHANGED gang
  BY <1>2, <1>3, <1>13 DEF Pass
<1> QED
  BY <1>5, <1>6, <1>7, <1>8, <1>9, <1>10, <1>11, <1>12, <1>13
  DEF GangNext, Proceed, Receive, Start, End, Revoke, gvars

\* A dispatch knows its allocation, and the time it has read is past.
LEMMA DispatchedStep ==
  ASSUME GangInv, [GangNext]_gvars
  PROVE  Dispatched'
<1>0. /\ Tables /\ Stays /\ TableStep /\ deployment' = deployment
      /\ deployment.processes \subseteq Process /\ now \in Nat /\ now' \in Nat /\ now <= now'
      /\ rows \in Table /\ mem \in [Process -> Table]
      /\ GangTypeOK /\ gang \in [Id -> Dispatch \cup {None}]
  BY GangStepCases, AllocatorAssumption DEF GangInv, AllocatorTypeOK, Tables, TableStep, GangTypeOK
<1>1. \A a \in Id : gang[a] # None =>
        gang'[a].by \in deployment'.processes /\ mem'[gang'[a].by][a] # None
  BY <1>0, TermsStay DEF GangInv, Dispatched, Stays
<1>2. ASSUME NEW p \in deployment.processes, NEW b \in Id, NEW gpus \in SUBSET Gpu,
             NEW new \in Allocation, Reserves(p, b, gpus, new), gpus # {},
             gang' = [gang EXCEPT ![b] = [pc |-> "leasing", by |-> p, finished |-> None]]
      PROVE  /\ \A a \in Id : gang'[a] # None =>
                  gang'[a].by \in deployment'.processes /\ mem'[gang'[a].by][a] # None
             /\ \A a \in Id : rows'[a] # None => rows'[a].gpus # {}
  <2>1. /\ rows' = [rows EXCEPT ![b] = new] /\ mem' = [mem EXCEPT ![p][b] = new]
        /\ new # None /\ new.gpus = gpus
    BY <1>2, NoneIsNoId DEF Reserves
  <2>2. gang'[b].by = p /\ \A a \in Id : a # b => gang'[a] = gang[a]
    BY <1>0, <1>2
  <2>3. mem'[p][b] = new
    BY <1>0, <2>1 DEF Table
  <2>4. \A a \in Id : rows'[a] # None => rows'[a].gpus # {}
    BY <1>0, <1>2, <2>1 DEF GangInv, Dispatched, Table
  <2> QED
    BY <1>0, <1>1, <2>1, <2>2, <2>3, <2>4
<1>3. \A a \in Id : gang'[a] # None =>
        gang'[a].by \in deployment'.processes /\ mem'[gang'[a].by][a] # None
  BY <1>0, <1>1, <1>2 DEF Tables, NoneNew
<1>4. \A a \in Id : rows'[a] # None => rows'[a].gpus # {}
  <2>1. ASSUME NEW p \in deployment.processes, Closed(p)
        PROVE  \A a \in Id : rows[a] = None => rows'[a] = None
    <3>1. PICK D \in SUBSET ReservedIn(mem[p]), state \in Final : \E S \in SUBSET D :
            Closes(p, S, D, state)
      BY <2>1 DEF Closed
    <3>2. PICK S \in SUBSET D : Closes(p, S, D, state)
      BY <3>1
    <3>3. /\ D \in SUBSET Id /\ S \in SUBSET Id /\ \A b \in S : rows[b] # None
      BY <1>0 DEF ReservedIn, GangInv, MemStored
    <3>4. ClosedFrom(rows', rows, S)
      BY <1>0, <3>2, <3>3, CloseFacts DEF Closes
    <3> QED
      BY <3>4 DEF ClosedFrom
  <2>2. ASSUME NEW p \in deployment.processes, Restart(p) PROVE rows' = rows
    BY <2>2 DEF Restart, Restarting, store
  <2>3. CASE \A a \in Id : rows[a] = None => rows'[a] = None
    BY <1>0, <2>3, TermsStay DEF GangInv, Dispatched
  <2> QED
    BY <1>0, <1>2, <2>1, <2>2, <2>3 DEF Tables, Idles, store
<1>5. \A a \in Id : gang'[a] # None /\ gang'[a].pc = "closing" =>
        gang'[a].finished \in Nat /\ gang'[a].finished <= now'
  <2>1. \A a \in Id : gang[a] # None /\ gang[a].pc = "closing" =>
          gang[a].finished \in Nat /\ gang[a].finished <= now'
    BY <1>0 DEF GangInv, Dispatched
  <2>2. ASSUME NEW b \in Id, gang[b] # None, NEW place \in Place, NEW time \in Nat \cup {None},
               Moved(b, place, time), place = "closing" => time = now
        PROVE  \A a \in Id : gang'[a] # None /\ gang'[a].pc = "closing" =>
                 gang'[a].finished \in Nat /\ gang'[a].finished <= now'
    BY <1>0, <2>1, <2>2, MovedFacts
  <2>3. ASSUME NEW b \in Id, Abort(b) \/ Conclude(b) \/ Collect(b) \/ Launch(b)
        PROVE  \E place \in Place, time \in Nat \cup {None} :
                 gang[b] # None /\ Moved(b, place, time) /\ (place = "closing" => time = now)
    <3>1. CASE Abort(b)
      BY <3>1, AbortCases DEF Place, Record
    <3>2. CASE Conclude(b)
      BY <3>2, ConcludeCases DEF Place, Record
    <3>3. CASE Collect(b)
      BY <1>0, <3>3 DEF Collect, Waiting, Moved, Place
    <3>4. CASE Launch(b)
      <4>1. gang[b] # None /\ gang[b] \in Dispatch /\ gang' = [gang EXCEPT ![b].pc = "waiting"]
        BY <1>0, <3>4 DEF Launch
      <4>2. Moved(b, "waiting", gang[b].finished) /\ gang[b].finished \in Nat \cup {None}
        BY <1>0, <4>1 DEF Moved, Dispatch
      <4> QED
        BY <4>1, <4>2 DEF Place
    <3> QED
      BY <2>3, <3>1, <3>2, <3>3, <3>4
  <2>4. ASSUME NEW p \in deployment.processes, Die(p)
        PROVE  \A a \in Id : gang'[a] # None /\ gang'[a].pc = "closing" => gang'[a] = gang[a]
    BY <2>4, DieCases DEF NoneNew
  <2>5. ASSUME NEW p \in deployment.processes, NEW n \in Size, NEW seconds \in LeaseSeconds,
               Begin(p, n, seconds)
        PROVE  \A a \in Id : gang'[a] # None /\ gang'[a].pc = "closing" => gang'[a] = gang[a]
    <3>1. ASSUME NEW a \in Id,
                 gang' = [gang EXCEPT ![a] = [pc |-> "leasing", by |-> p, finished |-> None]]
          PROVE  gang'[a].pc = "leasing" /\ \A b \in Id : b # a => gang'[b] = gang[b]
      BY <1>0, <3>1
    <3> QED
      BY <2>5, <3>1, BeginCases
  <2>6. CASE UNCHANGED gang
    BY <2>1, <2>6
  <2> QED
    BY <2>1, <2>2, <2>3, <2>4, <2>5, <2>6
    DEF GangNext, Proceed, Poll, Receive, Start, End, Revoke, gvars
<1> QED
  BY <1>3, <1>4, <1>5 DEF Dispatched

\* Requests, answers and processes stay well formed.
LEMMA GangTypeStep ==
  ASSUME GangInv, [GangNext]_gvars
  PROVE  GangTypeOK'
<1>0. /\ gang' \in [Id -> Dispatch \cup {None}] /\ GangTypeOK
  BY GangStepCases DEF GangInv
<1>1. CASE UNCHANGED <<answers, trusted, posts, spent, progress, starts>>
  BY <1>0, <1>1 DEF GangTypeOK
<1>2. ASSUME NEW a \in Id, Launch(a) PROVE GangTypeOK'
  <2>1. Members(a) \subseteq Worker
    BY <1>2, ExecutorsAssumption DEF Launch, Leasable
  <2> QED
    BY <1>0, <1>2, <2>1 DEF Launch, GangTypeOK, Lease
<1>3. ASSUME NEW a \in Id, NEW w \in Worker, NEW answer \in Answer, Receive(<<a, w>>, answer)
      PROVE  GangTypeOK'
  BY <1>0, <1>3 DEF Receive, GangTypeOK, remote
<1>4. ASSUME NEW l \in Lease, Start(l) PROVE GangTypeOK'
  BY <1>0, <1>4 DEF Start, MayStart, GangTypeOK
<1>5. ASSUME NEW l \in Lease, NEW result \in {"succeeded", "failed"}, End(l, result)
      PROVE  GangTypeOK'
  BY <1>0, <1>5 DEF End, GangTypeOK
<1>6. ASSUME NEW w \in Worker, Revoke(w) PROVE GangTypeOK'
  BY <1>0, <1>6 DEF Revoke, GangTypeOK
<1> QED
  BY <1>1, <1>2, <1>3, <1>4, <1>5, <1>6
  DEF GangNext, Proceed, Poll, Die, Begin, Abort, Collect, Conclude, gvars, remote, Lease

\* A dispatch waits for its answers; what has an answer or a process was asked.
LEMMA RequestedStep ==
  ASSUME GangInv, [GangNext]_gvars
  PROVE  Requested'
<1>0. /\ Tables /\ Stays /\ TableStep
      /\ GangTypeOK /\ gang \in [Id -> Dispatch \cup {None}]
      /\ deployment.processes \subseteq Process
      /\ Requested
  BY GangStepCases, AllocatorAssumption DEF GangInv, AllocatorTypeOK, Tables, GangTypeOK
<1>1. \A a \in Id : gang[a] # None => Members(a)' = Members(a)
  <2>1. \A a \in Id : gang[a] # None => rows[a] # None
    BY <1>0 DEF GangInv, Dispatched, MemStored
  <2> QED
    BY <1>0, <2>1, MembersStay DEF GangInv
<1>2. \A l \in posts : l[1] \in Id /\ l[2] \in Worker /\ l = <<l[1], l[2]>>
  BY <1>0 DEF GangTypeOK, Lease
\* A step that leaves the requests alone: only places may break what is said of them.
<1>3. ASSUME UNCHANGED <<answers, posts, spent, progress>>,
             \A l \in posts : /\ gang'[l[1]] # None /\ gang'[l[1]].pc # "leasing"
                              /\ answers[l] = None => gang'[l[1]].pc \in {"waiting", "dead"}
      PROVE  Requested'
  <2>1. \A l \in posts : l[2] \in Members(l[1])'
    BY <1>0, <1>1, <1>2 DEF Requested
  <2>2. \A l \in posts' : gang'[l[1]] # None /\ gang'[l[1]].pc # "leasing" /\ l[2] \in Members(l[1])'
    BY <1>3, <2>1
  <2> QED
    BY <1>0, <1>3, <2>2 DEF Requested
<1>4. ASSUME UNCHANGED <<answers, posts, spent, progress>>,
             NEW a \in Id, gang[a] # None, NEW place \in Place \ {"leasing"},
             NEW time \in Nat \cup {None}, Moved(a, place, time),
             place = "waiting" \/ \A l \in posts : l[1] = a => answers[l] # None
      PROVE  Requested'
  <2>1. /\ gang'[a] # None /\ gang'[a].pc = place
        /\ \A b \in Id : b # a => gang'[b] = gang[b]
    BY <1>0, <1>4, MovedFacts
  <2> QED
    BY <1>0, <1>2, <1>3, <1>4, <2>1 DEF Requested
<1>5. CASE UNCHANGED <<gang, answers, posts, spent, progress>>
  BY <1>0, <1>3, <1>5 DEF Requested
<1>6. ASSUME NEW p \in deployment.processes, Die(p) PROVE Requested'
  <2>1. \A l \in posts : gang'[l[1]] # None /\ (gang'[l[1]] = gang[l[1]] \/ gang'[l[1]].pc = "dead")
    BY <1>0, <1>2, <1>6, DieCases DEF Requested
  <2>2. UNCHANGED <<answers, posts, spent, progress>>
    BY <1>6 DEF Die, remote
  <2> QED
    BY <1>0, <1>3, <2>1, <2>2 DEF Requested
<1>7. ASSUME NEW p \in deployment.processes, NEW n \in Size, NEW seconds \in LeaseSeconds,
             Begin(p, n, seconds)
      PROVE  Requested'
  <2>1. \A a \in Id : gang[a] # None => rows[a] # None
    BY <1>0 DEF GangInv, Dispatched, MemStored
  <2>2. \A b \in Id : gang[b] # None => gang'[b] = gang[b]
    BY <1>0, <1>7, <2>1 DEF Begin
  <2>3. UNCHANGED <<answers, posts, spent, progress>>
    BY <1>7 DEF Begin, remote
  <2> QED
    BY <1>0, <1>2, <1>3, <2>2, <2>3 DEF Requested
<1>8. ASSUME NEW a \in Id, Abort(a) PROVE Requested'
  <2>1. UNCHANGED <<answers, posts, spent, progress>> /\ "requeued" \in Place \ {"leasing"}
    BY <1>8 DEF Abort, remote, Place, Record
  <2>2. \A l \in posts : l[1] = a => answers[l] # None
    BY <1>0, <1>8, AbortCases DEF Requested
  <2> QED
    BY <1>4, <1>8, <2>1, <2>2, AbortCases
<1>9. ASSUME NEW a \in Id, Conclude(a) PROVE Requested'
  <2>1. UNCHANGED <<answers, posts, spent, progress>>
    BY <1>9 DEF Conclude, remote
  <2>2. \A l \in posts : l[1] = a => answers[l] # None
    BY <1>0, <1>9, ConcludeCases DEF Requested
  <2>3. PICK place \in {"raised"} \cup Record : Moved(a, place, None)
    BY <1>9, ConcludeCases
  <2>4. place \in Place \ {"leasing"} /\ gang[a] # None
    BY <1>9, ConcludeCases DEF Place, Record
  <2> QED
    BY <1>4, <2>1, <2>2, <2>3, <2>4
<1>10. ASSUME NEW a \in Id, Collect(a) PROVE Requested'
  <2>1. /\ UNCHANGED <<answers, posts, spent, progress>>
        /\ gang[a] # None /\ Answered(a) /\ Moved(a, "closing", now)
    BY <1>10 DEF Collect, Waiting, Moved, remote
  <2>2. \A l \in posts : l[1] = a => answers[l] # None
    BY <1>0, <1>2, <2>1 DEF Requested, Answered
  <2>3. now \in Nat /\ "closing" \in Place \ {"leasing"}
    BY AllocatorAssumption DEF GangInv, AllocatorTypeOK, Place
  <2> QED
    BY <1>4, <2>1, <2>2, <2>3
<1>11. ASSUME NEW a \in Id, Launch(a) PROVE Requested'
  <2>1. /\ gang[a] # None /\ gang[a].pc = "leasing" /\ gang' = [gang EXCEPT ![a].pc = "waiting"]
        /\ posts' = posts \cup ({a} \X Members(a))
        /\ UNCHANGED <<answers, spent, progress>>
    BY <1>11 DEF Launch
  <2>2. Moved(a, "waiting", gang[a].finished) /\ gang[a].finished \in Nat \cup {None}
    BY <1>0, <2>1 DEF Moved, Dispatch
  <2>3. /\ gang'[a] # None /\ gang'[a].pc = "waiting"
        /\ \A b \in Id : b # a => gang'[b] = gang[b]
    BY <1>0, <2>1, <2>2, MovedFacts DEF Place
  <2>4. \A l \in posts' : l[1] # a => l \in posts
    BY <2>1
  <2>5. \A l \in posts' : l[1] = a => l[2] \in Members(a)
    BY <1>0, <2>1 DEF Requested
  <2>6. \A l \in posts' : gang'[l[1]] # None /\ gang'[l[1]].pc # "leasing" /\ l[2] \in Members(l[1])'
    BY <1>0, <1>1, <1>2, <2>1, <2>3, <2>4, <2>5 DEF Requested
  <2>7. \A l \in posts' : answers[l] = None => gang'[l[1]].pc \in {"waiting", "dead"}
    BY <1>0, <1>2, <2>3, <2>4 DEF Requested
  <2> QED
    BY <1>0, <2>1, <2>6, <2>7 DEF Requested
\* The requests and the places stay.
<1>12. UNCHANGED <<gang, posts>> =>
         \A l \in posts' : gang'[l[1]] # None /\ gang'[l[1]].pc # "leasing" /\ l[2] \in Members(l[1])'
  BY <1>0, <1>1, <1>2 DEF Requested
<1>13. ASSUME NEW a \in Id, NEW w \in Worker, NEW answer \in Answer, Receive(<<a, w>>, answer)
       PROVE  Requested'
  <2>1. /\ answers' = [answers EXCEPT ![<<a, w>>] = answer]
        /\ answer = "completed" => progress[<<a, w>>] = "succeeded"
        /\ UNCHANGED <<gang, posts, spent, progress>>
    BY <1>13 DEF Receive, remote
  <2>2. \A l \in Lease : answers'[l] = IF l = <<a, w>> THEN answer ELSE answers[l]
    BY <1>0, <2>1 DEF GangTypeOK
  <2>3. answer # None
    BY ExecutorsAssumption
  <2>4. \A l \in posts : l \in Lease
    BY <1>0 DEF GangTypeOK
  <2> QED
    BY <1>0, <1>12, <2>1, <2>2, <2>3, <2>4 DEF Requested
<1>14. ASSUME NEW l \in Lease, Start(l) PROVE Requested'
  <2>1. /\ l \notin spent /\ spent' = spent \cup {l}
        /\ progress' = [progress EXCEPT ![l] = "running"]
        /\ UNCHANGED <<gang, posts, answers>>
    BY <1>14 DEF Start, MayStart
  <2>2. answers[l] # "completed"
    BY <1>0, <2>1 DEF Requested
  <2>3. \A m \in Lease : progress'[m] = IF m = l THEN "running" ELSE progress[m]
    BY <1>0, <2>1 DEF GangTypeOK
  <2> QED
    BY <1>0, <1>12, <2>1, <2>2, <2>3 DEF Requested
<1>15. ASSUME NEW l \in Lease, NEW result \in {"succeeded", "failed"}, End(l, result)
       PROVE  Requested'
  <2>1. /\ progress[l] = "running" /\ progress' = [progress EXCEPT ![l] = result]
        /\ UNCHANGED <<gang, posts, answers, spent>>
    BY <1>15 DEF End
  <2>2. \A m \in Lease : progress'[m] = IF m = l THEN result ELSE progress[m]
    BY <1>0, <2>1 DEF GangTypeOK
  <2> QED
    BY <1>0, <1>12, <2>1, <2>2 DEF Requested
<1> QED
  BY <1>5, <1>6, <1>7, <1>8, <1>9, <1>10, <1>11, <1>13, <1>14, <1>15
  DEF GangNext, Proceed, Poll, Revoke, gvars, remote, Lease

\* Before the first dispatch nothing is reserved or asked.
LEMMA InitialGangs == GangInit => GangInv
<1> SUFFICES ASSUME GangInit PROVE GangInv
  OBVIOUS
<1>1. AllocatorInit /\ AllocatorTypeOK /\ MemStored
  BY InitialTables DEF GangInit
<1>2. GangsWhole
  BY <1>1, NoneIsNoId DEF AllocatorInit, GangsWhole, ReservedIn
<1>3. GangTypeOK
  BY DEF GangInit, GangTypeOK, Lease
<1>4. Dispatched /\ Fenced
  BY <1>1 DEF GangInit, AllocatorInit, Dispatched, Fenced
<1>5. Requested
  BY ExecutorsAssumption DEF GangInit, Requested, Lease, Answer
<1> QED
  BY <1>1, <1>2, <1>3, <1>4, <1>5 DEF GangInv

\* The inductive invariant of gangs, for any number of processes.
LEMMA GangInvAlways == GangSpec => []GangInv
<1>1. GangInv /\ [GangNext]_gvars => GangInv'
  <2> SUFFICES ASSUME GangInv, [GangNext]_gvars PROVE GangInv'
    OBVIOUS
  <2>1. Tables /\ Stays /\ TableStep
    BY GangStepCases DEF Tables
  <2>2. AllocatorTypeOK' /\ MemStored' /\ GangsWhole'
    BY <2>1, TypeStep, GangsStep DEF GangInv
  <2> QED
    BY <2>1, <2>2, FencedStep, DispatchedStep, RequestedStep, GangTypeStep DEF GangInv
<1> QED
  BY <1>1, InitialGangs, PTL DEF GangSpec

\* Whatever dispatches, workers and the network do, requests and processes are
\* well formed, and each nonce spent is one that was posted.
THEOREM GangsTypeCorrect == GangSpec => []GangTypeOK
<1>1. GangInv => GangTypeOK
  BY DEF GangInv
<1> QED
  BY <1>1, GangInvAlways, PTL

\* In a gang that is not beyond its coordinator's control, a process whose call is
\* not answered has its allocation reserved in the store.
LEMMA UnderControl ==
  ASSUME GangInv, NEW l \in Lease, progress[l] = "running", answers[l] = None,
         gang[l[1]].pc # "dead", ~(rows[l[1]].until <= now)
  PROVE  l[1] \in ReservedIn(rows)
<1>1. l \in posts /\ l[1] \in Id
  BY DEF GangInv, Requested, GangTypeOK, Lease
<1>2. gang[l[1]] # None /\ gang[l[1]].pc \in Open
  BY <1>1 DEF GangInv, Requested, Open
<1>3. rows[l[1]] # None
  BY <1>1, <1>2, AllocatorAssumption DEF GangInv, Dispatched, MemStored, AllocatorTypeOK
<1>4. now < rows[l[1]].until
  <2>1. now \in Nat /\ rows[l[1]].until \in Nat
    BY <1>1, <1>3, AllocatorAssumption DEF GangInv, AllocatorTypeOK, Table, Allocation
  <2> QED
    BY <2>1
<1> QED
  BY <1>1, <1>2, <1>4 DEF GangInv, Fenced

\* Two processes use one GPU only when one of them is beyond its coordinator's
\* control, for any number of control processes.
THEOREM GpusHaveOneUser == GangSpec => []GpusOneUser
<1>1. GangInv => GpusOneUser
  <2> SUFFICES ASSUME GangInv, NEW l \in Lease, NEW m \in Lease, l # m,
                      progress[l] = "running", progress[m] = "running",
                      NEW g \in GpusOf(l[1], l[2]) \cap GpusOf(m[1], m[2]),
                      \A k \in {l, m} : /\ answers[k] = None /\ gang[k[1]].pc # "dead"
                                        /\ ~(rows[k[1]].until <= now)
               PROVE  FALSE
    BY DEF GpusOneUser, Lease
  <2>1. l[1] \in ReservedIn(rows) /\ m[1] \in ReservedIn(rows)
    BY UnderControl
  <2>2. g \in rows[l[1]].gpus /\ g \in rows[m[1]].gpus /\ Host[g] = l[2] /\ Host[g] = m[2]
    BY DEF GpusOf
  <2>3. g \in Gpu /\ l[1] \in Id /\ m[1] \in Id
    BY <2>1, <2>2 DEF GangInv, AllocatorTypeOK, Table, Allocation, ReservedIn
  <2>4. l[1] = m[1]
    BY <2>1, <2>2, <2>3 DEF GangInv, GangsWhole
  <2>5. l = <<l[1], l[2]>> /\ m = <<m[1], m[2]>>
    BY DEF Lease
  <2> QED
    BY <2>2, <2>4, <2>5
<1> QED
  BY <1>1, GangInvAlways, PTL

\* A request, late or repeated, starts a process only while its allocation holds
\* all its GPUs in the store, for any number of control processes.
THEOREM StartsAlwaysFenced == GangSpec => StartsFenced
<1> DEFINE Safe == \A l \in Id \X Worker : starts'[l] # starts[l] =>
                     \A g \in GpusOf(l[1], l[2]) : taken[g] = l[1]
<1>1. GangInv /\ [GangNext]_gvars => [Safe]_gvars
  <2> SUFFICES ASSUME GangInv, [GangNext]_gvars, NEW l \in Lease, starts'[l] # starts[l],
                      NEW g \in GpusOf(l[1], l[2])
               PROVE  taken[g] = l[1]
    BY DEF Lease
  <2>1. Start(l)
    <3>1. ASSUME NEW m \in Lease, Start(m) PROVE m = l
      BY <3>1 DEF Start, GangInv, GangTypeOK
    <3> QED
      BY <3>1 DEF GangNext, Proceed, Poll, Die, Begin, Abort, Launch, Collect, Conclude, Receive,
         End, Revoke, gvars, remote, Lease
  <2>2. l \in posts /\ l[1] \in ReservedIn(mem[gang[l[1]].by]) /\ now < mem[gang[l[1]].by][l[1]].until
    BY <2>1 DEF Start, MayStart
  <2>3. gang[l[1]] # None /\ l[1] \in Id
    BY <2>2 DEF GangInv, Requested, Lease
  <2>4. gang[l[1]].by \in Process /\ mem[gang[l[1]].by][l[1]] # None
    BY <2>3, AllocatorAssumption DEF GangInv, Dispatched, AllocatorTypeOK
  <2>5. now < rows[l[1]].until
    BY <2>2, <2>3, <2>4 DEF GangInv, MemStored
  <2>6. l[1] \in ReservedIn(rows)
    BY <2>2, <2>3, <2>5 DEF GangInv, Fenced
  <2>7. g \in rows[l[1]].gpus /\ g \in Gpu
    BY <2>3, <2>6 DEF GpusOf, GangInv, AllocatorTypeOK, Table, Allocation, ReservedIn
  <2> QED
    BY <2>3, <2>6, <2>7 DEF GangInv, GangsWhole
<1> QED
  BY <1>1, GangInvAlways, PTL DEF GangSpec, StartsFenced

-----------------------------------------------------------------------------
(* The commit of a gang, with one control process                          *)

\* The state of the abstract gangs.
AbsMembers == [a \in Id |-> Members(a)]
AbsProgress == [a \in Id |-> [w \in Worker |-> progress[<<a, w>>]]]
AbsOutcome == [a \in Id |->
  IF rows[a] = None \/ rows[a].state = "reserved" THEN "open"
  ELSE IF rows[a].state = "completed" THEN "completed" ELSE "closed"]
AbsReported == {a \in Id : gang[a] # None /\ gang[a].pc = "completed"}

CommitInv == GangInv /\ AloneOK /\ Alone

\* With one process, what it has as reserved is reserved in the store.
LEMMA OwnIsOpen ==
  ASSUME CommitInv, NEW p \in deployment.processes
  PROVE  ReservedIn(mem[p]) \subseteq ReservedIn(rows)
<1>1. PICK q \in Process : deployment.processes = {q}
  BY AllocatorAssumption, FS_Subset, FS_Singleton DEF CommitInv, GangInv, Alone, AllocatorTypeOK
<1>2. p = q /\ FinalKnown(p)
  BY <1>1 DEF CommitInv, AloneOK
<1>3. \A a \in ReservedIn(mem[p]) : a \in Id /\ rows[a] # None
  BY <1>1, <1>2 DEF CommitInv, GangInv, MemStored, ReservedIn
<1> QED
  BY <1>2, <1>3 DEF FinalKnown

\* The invariant of gangs with one control process.
LEMMA CommitInvAlways == GangSpec /\ Alone => []CommitInv
<1>1. GangInit /\ Alone => CommitInv
  <2>1. GangInit => AloneOK
    BY DEF GangInit, AllocatorInit, AloneOK, Numbered, FinalKnown, ReservedIn
  <2> QED
    BY <2>1, InitialGangs DEF CommitInv
<1>2. CommitInv /\ [GangNext]_gvars => AloneOK' /\ Alone'
  <2> SUFFICES ASSUME CommitInv, [GangNext]_gvars PROVE AloneOK' /\ Alone'
    OBVIOUS
  <2>1. TableStep
    BY GangStepCases DEF CommitInv, Tables
  <2> QED
    BY <2>1, AloneStep DEF CommitInv, GangInv, TableStep, Alone
<1> QED
  BY <1>1, <1>2, GangInvAlways, PTL DEF GangSpec, CommitInv

\* A closing, whatever it closes, leaves the members as they are and is an end of
\* the gangs that it closes in the store.
LEMMA ClosedOutcome ==
  ASSUME CommitInv, NEW p \in deployment.processes, NEW D \in SUBSET ReservedIn(mem[p]),
         NEW S \in SUBSET D, NEW state \in Final, Closes(p, S, D, state)
  PROVE  /\ \A a \in S : a \in Id /\ AbsOutcome[a] = "open" /\ Members(a) # {}
         /\ AbsOutcome' = [a \in Id |-> IF a \in S
                             THEN (IF state = "completed" THEN "completed" ELSE "closed")
                             ELSE AbsOutcome[a]]
<1>1. S \subseteq ReservedIn(rows) /\ rows \in Table
  BY OwnIsOpen DEF CommitInv, GangInv, AllocatorTypeOK
<1>2. rows' = Close(rows, S, state)
  BY DEF Closes
<1>3. \A a \in S : /\ a \in Id /\ rows[a] \in Allocation /\ rows[a] # None
                   /\ rows[a].state = "reserved" /\ rows[a].gpus # {}
  BY <1>1, NoneIsNoId DEF ReservedIn, Table, CommitInv, GangInv, Dispatched
<1>4. \A a \in S : Members(a) # {}
  BY <1>3 DEF Members
<1>5. \A a \in Id : rows'[a] = IF a \in S THEN [rows[a] EXCEPT !.state = state] ELSE rows[a]
  BY <1>2 DEF Close
<1>6. \A a \in S : rows'[a] # None /\ rows'[a].state = state
  <2> SUFFICES ASSUME NEW a \in S PROVE rows'[a] # None /\ rows'[a].state = state
    OBVIOUS
  <2>1. [rows[a] EXCEPT !.state = state] \in Allocation /\ [rows[a] EXCEPT !.state = state].state = state
    BY <1>3 DEF Allocation
  <2> QED
    BY <1>3, <1>5, <2>1, NoneIsNoId
<1>7. state # "reserved"
  BY DEF Final
<1>8. \A a \in Id : AbsOutcome'[a] = IF a \in S THEN (IF state = "completed" THEN "completed" ELSE "closed")
                                     ELSE AbsOutcome[a]
  BY <1>5, <1>6, <1>7 DEF AbsOutcome
<1> QED
  BY <1>3, <1>4, <1>8 DEF AbsOutcome

\* All members of a gang of which every answer is good have succeeded.
LEMMA SuccessIsSuccess ==
  ASSUME CommitInv, NEW a \in Id, gang[a] # None, Success(a)
  PROVE  Commit!Succeeded(a)
<1>1. rows[a] # None
  BY AllocatorAssumption DEF CommitInv, GangInv, Dispatched, MemStored, AllocatorTypeOK
<1>2. Members(a) # {} /\ Members(a) \subseteq Worker
  BY <1>1, AllocatorAssumption DEF CommitInv, GangInv, Dispatched, Members, AllocatorTypeOK, Table, Allocation
<1>3. \A w \in Members(a) : progress[<<a, w>>] = "succeeded"
  BY <1>2 DEF Success, CommitInv, GangInv, Requested, Lease
<1> QED
  BY <1>2, <1>3 DEF Commit!Succeeded

\* A dispatch that moves on is reported completed if that is how it returns.
LEMMA MovedReported ==
  ASSUME GangTypeOK, NEW a \in Id, gang[a] # None, gang[a].pc # "completed",
         NEW place \in Place, NEW time \in Nat \cup {None}, Moved(a, place, time)
  PROVE  AbsReported' = IF place = "completed" THEN AbsReported \cup {a} ELSE AbsReported
<1>1. /\ gang'[a] # None /\ gang'[a].pc = place
      /\ \A b \in Id : b # a => gang'[b] = gang[b]
  BY MovedFacts
<1> QED
  BY <1>1 DEF AbsReported

\* Nothing that the abstract gangs see has changed.
LEMMA Unseen ==
  ASSUME UNCHANGED <<AbsMembers, AbsProgress, AbsOutcome, AbsReported>>
  PROVE  UNCHANGED Commit!gcvars
BY DEF Commit!gcvars, AbsMembers, AbsProgress, AbsOutcome, AbsReported

\* Members and outcomes are those of the rows.
LEMMA SameRows ==
  ASSUME UNCHANGED rows
  PROVE  UNCHANGED <<AbsMembers, AbsOutcome>>
BY DEF AbsMembers, AbsOutcome, Members

\* A closing is the abandonment of the gangs that it closes, or, of one gang of
\* which all have succeeded, its completion.
LEMMA ClosingStep ==
  ASSUME CommitInv, NEW p \in deployment.processes, NEW D \in SUBSET ReservedIn(mem[p]),
         NEW S \in SUBSET D, NEW state \in Final, Closes(p, S, D, state), TableStep,
         UNCHANGED progress,
         state = "completed" => \E a \in Id : S \in {{}, {a}} /\ Commit!Succeeded(a),
         \/ AbsReported' = AbsReported
         \/ \E a \in Id : Commit!Succeeded(a) /\ AbsReported' = AbsReported \cup {a}
  PROVE  Commit!Next
<1>1. /\ S \subseteq Id
      /\ \A a \in S : AbsOutcome[a] = "open" /\ Members(a) # {}
      /\ AbsOutcome' = [a \in Id |-> IF a \in S
                          THEN (IF state = "completed" THEN "completed" ELSE "closed")
                          ELSE AbsOutcome[a]]
  BY ClosedOutcome
<1>2. AbsProgress' = AbsProgress
  BY DEF AbsProgress
<1>3. AbsMembers' = AbsMembers
  <2>1. rows \in Table /\ S \subseteq ReservedIn(rows)
    BY OwnIsOpen DEF CommitInv, GangInv, AllocatorTypeOK
  <2>2. \A a \in Id : rows[a] = None => rows'[a] = None
    BY <2>1 DEF Closes, Close, ReservedIn
  <2>3. \A a \in Id : Members(a)' = Members(a)
    <3>1. ASSUME NEW a \in Id, rows[a] = None PROVE Members(a)' = Members(a)
      BY <2>2, <3>1 DEF Members
    <3> QED
      BY <3>1, MembersStay DEF CommitInv, GangInv
  <2> QED
    BY <2>3 DEF AbsMembers
<1>4. Commit!MayReport
  BY DEF Commit!MayReport, AbsReported
<1>5. CASE state # "completed" \/ S = {}
  <2>1. AbsOutcome' = [a \in Id |-> IF a \in S THEN "closed" ELSE AbsOutcome[a]]
    BY <1>1, <1>5
  <2>2. \A a \in S : AbsMembers[a] # {}
    BY <1>1 DEF AbsMembers
  <2>3. Commit!Abandon(S)
    BY <1>1, <1>2, <1>3, <1>4, <2>1, <2>2
    DEF Commit!Abandon, AbsMembers, AbsProgress, AbsOutcome
  <2> QED
    BY <1>1, <2>3 DEF Commit!Next
<1>6. CASE state = "completed" /\ S # {}
  <2>1. PICK a \in Id : S = {a} /\ Commit!Succeeded(a)
    BY <1>6
  <2>2. AbsOutcome' = [AbsOutcome EXCEPT ![a] = "completed"]
    BY <1>1, <1>6, <2>1 DEF AbsOutcome
  <2>3. Commit!Complete(a)
    BY <1>1, <1>2, <1>3, <1>4, <2>1, <2>2
    DEF Commit!Complete, AbsMembers, AbsProgress, AbsOutcome
  <2> QED
    BY <2>3 DEF Commit!Next
<1> QED
  BY <1>5, <1>6

\* expire abandons.
LEMMA PollStep ==
  ASSUME CommitInv, NEW p \in deployment.processes, Poll(p)
  PROVE  Commit!Next
<1>1. /\ TableStep /\ UNCHANGED <<gang, progress, epoch>>
      /\ Overdue(p) \subseteq ReservedIn(mem[p]) /\ "expired" \in Final
  BY PollCases DEF CommitInv, Tables, Poll, Overdue, Final, remote, Expire
<1>2. PICK S \in SUBSET Overdue(p) :
        \/ Closing(p, S, "expired")
        \/ \E a \in Overdue(p) : ClosingRaises(p, S, a, "expired")
  BY ExpireCases DEF Poll
<1>3. PICK D \in SUBSET ReservedIn(mem[p]) : S \subseteq D /\ Closes(p, S, D, "expired")
  BY <1>1, <1>2, ClosingCases
<1>4. AbsReported' = AbsReported
  BY <1>1 DEF AbsReported
<1> QED
  BY <1>1, <1>3, <1>4, ClosingStep

\* A dispatch that closes its own allocation, or tries to.
LEMMA CloseOwnStep ==
  ASSUME CommitInv, NEW a \in Id, gang[a] # None, NEW state \in Final, TableStep,
         CloseOwn(a, state) \/ CloseRaises(a, state), UNCHANGED <<epoch, progress>>,
         state = "completed" => Success(a),
         \/ AbsReported' = AbsReported
         \/ Success(a) /\ CloseOwn(a, state) /\ AbsReported' = AbsReported \cup {a}
  PROVE  [Commit!Next]_Commit!gcvars
<1> DEFINE p == gang[a].by
<1>1. p \in deployment.processes
  BY DEF CommitInv, GangInv, Dispatched
<1>2. Success(a) => Commit!Succeeded(a)
  BY SuccessIsSuccess
<1>3. CASE a \in ReservedIn(mem[p]) /\ Closing(p, {a}, state)
  <2>1. Closes(p, {a}, {a}, state)
    BY <1>3 DEF Closing, Closes
  <2>2. {a} \in SUBSET ReservedIn(mem[p])
    BY <1>3
  <2> QED
    BY <1>1, <1>2, <2>1, <2>2, ClosingStep
<1>4. CASE a \in ReservedIn(mem[p]) /\ ClosingRaises(p, {}, a, state)
  <2>1. Closes(p, {}, {a}, state)
    <3>1. {} \cup {a} = {a}
      OBVIOUS
    <3> QED
      BY <1>4, <3>1 DEF ClosingRaises, Closes
  <2>2. {a} \in SUBSET ReservedIn(mem[p]) /\ {} \in SUBSET {a}
    BY <1>4
  <2> QED
    BY <1>1, <1>2, <2>1, <2>2, ClosingStep
<1>5. CASE UNCHANGED <<store, mem, held>> /\ AbsReported' = AbsReported
  <2>1. UNCHANGED <<AbsMembers, AbsOutcome>>
    BY <1>5, SameRows DEF store
  <2>2. AbsProgress' = AbsProgress
    BY DEF AbsProgress
  <2> QED
    BY <1>5, <2>1, <2>2, Unseen
<1> QED
  BY <1>3, <1>4, <1>5 DEF CloseOwn, CloseRaises

\* An abort abandons its gang, and reports no completion.
LEMMA AbortStep ==
  ASSUME CommitInv, NEW a \in Id, Abort(a)
  PROVE  [Commit!Next]_Commit!gcvars
<1>1. /\ gang[a] # None /\ gang[a].pc # "completed"
      /\ Moved(a, "requeued", None) /\ TableStep /\ GangTypeOK
  BY AbortCases DEF CommitInv, GangInv, Tables
<1>2. AbsReported' = AbsReported
  <2>1. "requeued" \in Place /\ "requeued" # "completed" /\ None \in Nat \cup {None}
    BY DEF Place, Record
  <2> QED
    BY <1>1, <2>1, MovedReported
<1>3. CloseOwn(a, "failed") \/ CloseRaises(a, "failed")
  BY DEF Abort
<1>4. UNCHANGED <<epoch, progress>> /\ "failed" \in Final
  BY DEF Abort, remote, Final
<1> QED
  BY <1>1, <1>2, <1>3, <1>4, CloseOwnStep

\* A conclusion completes or abandons its gang; it reports only successes completed.
LEMMA ConcludeStep ==
  ASSUME CommitInv, NEW a \in Id, Conclude(a)
  PROVE  [Commit!Next]_Commit!gcvars
<1> DEFINE p == gang[a].by
           overdue == {b \in ReservedIn(mem[p]) : mem[p][b].until <= gang[a].finished}
           state == IF Success(a) THEN "completed" ELSE "failed"
<1>1. /\ gang[a] # None /\ gang[a].pc = "closing" /\ TableStep /\ GangTypeOK
      /\ p \in deployment.processes /\ UNCHANGED <<epoch, progress>>
      /\ "expired" \in Final /\ overdue \subseteq ReservedIn(mem[p])
  BY ConcludeCases DEF CommitInv, GangInv, Dispatched, Tables, Conclude, remote, Final
<1>2. Success(a) => Commit!Succeeded(a)
  BY <1>1, SuccessIsSuccess
<1>3. ASSUME \E record \in Record : Return(a, record) /\ (record # "requeued" <=> Success(a))
      PROVE  AbsReported' = AbsReported \/ (Success(a) /\ AbsReported' = AbsReported \cup {a})
  <2>1. PICK record \in Record : Moved(a, record, None) /\ (record # "requeued" <=> Success(a))
    BY <1>3 DEF Return, Moved
  <2>2. record \in Place /\ (record = "completed" => Success(a))
    BY <2>1 DEF Place
  <2> QED
    BY <1>1, <2>1, <2>2, MovedReported
<1>4. Return(a, "raised") => AbsReported' = AbsReported
  <2>1. Return(a, "raised") => Moved(a, "raised", None)
    BY DEF Return, Moved
  <2>2. "raised" \in Place /\ "raised" # "completed" /\ None \in Nat \cup {None}
    BY DEF Place
  <2> QED
    BY <1>1, <2>1, <2>2, MovedReported
<1>5. CASE gang[a].finished >= rows[a].until
  <2>1. \/ /\ Closing(p, overdue, "expired")
           /\ \E record \in Record : Return(a, record) /\ (record # "requeued" <=> Success(a))
        \/ /\ \E b \in overdue : \E S \in SUBSET (overdue \ {b}) : ClosingRaises(p, S, b, "expired")
           /\ Return(a, "raised")
    BY <1>5 DEF Conclude
  <2> HIDE DEF overdue
  <2>2. AbsReported' = AbsReported \/ (Success(a) /\ AbsReported' = AbsReported \cup {a})
    BY <1>3, <1>4, <2>1
  <2>3. PICK S \in SUBSET overdue : \/ Closing(p, S, "expired")
                                    \/ \E b \in overdue : ClosingRaises(p, S, b, "expired")
    BY <2>1
  <2>4. PICK D \in SUBSET ReservedIn(mem[p]) : S \subseteq D /\ Closes(p, S, D, "expired")
    <3>1. S \in SUBSET ReservedIn(mem[p])
      BY <1>1
    <3>2. \/ Closing(p, S, "expired")
          \/ \E b \in ReservedIn(mem[p]) : ClosingRaises(p, S, b, "expired")
      BY <1>1, <2>3
    <3> QED
      BY <1>1, <3>1, <3>2, ClosingCases
  <2>5. Commit!Next
    BY <1>1, <1>2, <2>2, <2>4, ClosingStep
  <2> QED
    BY <2>5
<1>6. CASE ~(gang[a].finished >= rows[a].until)
  <2>1. \/ /\ CloseOwn(a, state)
           /\ \E record \in Record : Return(a, record) /\ (record # "requeued" <=> Success(a))
        \/ CloseRaises(a, state) /\ Return(a, "raised")
    BY <1>6 DEF Conclude
  <2>2. state \in Final /\ (state = "completed" => Success(a))
    BY DEF Final
  <2> HIDE DEF state
  <2>3. \/ AbsReported' = AbsReported
        \/ Success(a) /\ CloseOwn(a, state) /\ AbsReported' = AbsReported \cup {a}
    BY <1>3, <1>4, <2>1
  <2> QED
    BY <1>1, <2>1, <2>2, <2>3, CloseOwnStep
<1> QED
  BY <1>5, <1>6

\* A reservation forms a gang.
LEMMA BeginStep ==
  ASSUME CommitInv, NEW p \in deployment.processes, NEW n \in Size, NEW seconds \in LeaseSeconds,
         Begin(p, n, seconds)
  PROVE  [Commit!Next]_Commit!gcvars
<1>0. /\ Reserve(p, n, seconds) /\ AllocatorTypeOK /\ rows \in Table /\ UNCHANGED progress
      /\ gang \in [Id -> Dispatch \cup {None}]
  BY DEF CommitInv, GangInv, GangTypeOK, AllocatorTypeOK, Begin, remote
<1>1. AbsProgress' = AbsProgress
  BY <1>0 DEF AbsProgress
<1>2. AbsReported' = AbsReported
  <2>1. \A a \in Id : rows[a] = None => gang[a] = None
    BY AllocatorAssumption DEF CommitInv, GangInv, Dispatched, MemStored, AllocatorTypeOK
  <2>2. ASSUME NEW a \in Id
        PROVE  gang'[a] # None /\ gang'[a].pc = "completed" <=> gang[a] # None /\ gang[a].pc = "completed"
    <3>1. gang'[a] = IF rows[a] = None /\ rows'[a] # None
                       THEN [pc |-> "leasing", by |-> p, finished |-> None] ELSE gang[a]
      BY DEF Begin
    <3> QED
      BY <2>1, <3>1
  <2> QED
    BY <2>2 DEF AbsReported
<1>3. CASE Idles
  <2>1. UNCHANGED <<AbsMembers, AbsOutcome>>
    BY <1>3, SameRows DEF Idles, store
  <2> QED
    BY <1>1, <1>2, <2>1, Unseen
<1>4. ASSUME NEW a \in Id, NEW gpus \in SUBSET Gpu, NEW new \in Allocation,
             Group(p, gpus, n), Reserves(p, a, gpus, new)
      PROVE  Commit!Next
  <2>1. /\ gpus # {} /\ rows[a] = None /\ rows' = [rows EXCEPT ![a] = new]
        /\ new # None /\ new.gpus = gpus /\ new.state = "reserved"
    BY <1>4, FS_EmptySet, AllocatorAssumption, NoneIsNoId DEF Group, Reserves
  <2>2. \A b \in Id : rows'[b] = IF b = a THEN new ELSE rows[b]
    BY <1>0, <2>1 DEF Table
  <2> DEFINE S == {Host[g] : g \in gpus}
  <2>3. S \in SUBSET Worker /\ S # {}
    BY <2>1, AllocatorAssumption
  <2>4. Members(a) = {} /\ Members(a)' = S /\ \A b \in Id : b # a => Members(b)' = Members(b)
    BY <2>1, <2>2 DEF Members
  <2>5. AbsOutcome' = AbsOutcome
    BY <2>1, <2>2 DEF AbsOutcome
  <2> HIDE DEF S
  <2>6. AbsMembers' = [AbsMembers EXCEPT ![a] = S] /\ AbsMembers[a] = {}
    BY <2>4 DEF AbsMembers
  <2>7. Commit!Form(a, S)
    BY <1>1, <1>2, <2>3, <2>5, <2>6
    DEF Commit!Form, AbsMembers, AbsProgress, AbsOutcome, AbsReported
  <2> QED
    BY <2>3, <2>7 DEF Commit!Next
<1> QED
  BY <1>0, <1>3, <1>4, ReserveCases

\* A table of tables of which one entry has changed.
LEMMA MatrixUpdate ==
  ASSUME NEW A, NEW B, NEW V, NEW f \in [A -> [B -> V]], NEW h \in [A -> [B -> V]],
         NEW x \in A, NEW y \in B, NEW v,
         \A a \in A, b \in B : h[a][b] = IF a = x /\ b = y THEN v ELSE f[a][b]
  PROVE  h = [f EXCEPT ![x][y] = v]
<1>1. h[x] = [f[x] EXCEPT ![y] = v]
  OBVIOUS
<1>2. \A a \in A : a # x => h[a] = f[a]
  OBVIOUS
<1> QED
  BY <1>1, <1>2

\* A process starts in an open gang, and once; it ends as it ends.
LEMMA ProcessStep ==
  ASSUME CommitInv, NEW l \in Lease,
         Start(l) \/ \E result \in {"succeeded", "failed"} : End(l, result)
  PROVE  Commit!Next
<1>0. /\ progress \in [Lease -> {"idle", "running", "succeeded", "failed"}]
      /\ l[1] \in Id /\ l[2] \in Worker /\ l = <<l[1], l[2]>>
      /\ UNCHANGED <<rows, gang>>
  BY DEF CommitInv, GangInv, GangTypeOK, Lease, Start, End, avars
<1>1. UNCHANGED <<AbsMembers, AbsOutcome, AbsReported>>
  BY <1>0, SameRows DEF AbsReported
<1> DEFINE State == {"idle", "running", "succeeded", "failed"}
<1>2. ASSUME NEW value \in State, progress' = [progress EXCEPT ![l] = value]
      PROVE  AbsProgress' = [AbsProgress EXCEPT ![l[1]][l[2]] = value]
  <2>1. /\ progress' \in [Lease -> State]
        /\ \A a \in Id, w \in Worker :
             progress'[<<a, w>>] = IF a = l[1] /\ w = l[2] THEN value ELSE progress[<<a, w>>]
    BY <1>0, <1>2 DEF Lease
  <2>2. \A a \in Id, w \in Worker : progress[<<a, w>>] \in State /\ progress'[<<a, w>>] \in State
    BY <1>0, <2>1 DEF Lease
  <2> HIDE DEF State
  <2>3. /\ AbsProgress \in [Id -> [Worker -> State]]
        /\ \A a \in Id, w \in Worker : AbsProgress[a][w] = progress[<<a, w>>]
    BY <2>2 DEF AbsProgress
  <2>4. /\ AbsProgress' \in [Id -> [Worker -> State]]
        /\ \A a \in Id, w \in Worker : AbsProgress'[a][w] = progress'[<<a, w>>]
    BY <2>2 DEF AbsProgress
  <2>5. \A a \in Id, w \in Worker :
          AbsProgress'[a][w] = IF a = l[1] /\ w = l[2] THEN value ELSE AbsProgress[a][w]
    <3> SUFFICES ASSUME NEW a \in Id, NEW w \in Worker
                 PROVE  AbsProgress'[a][w] = IF a = l[1] /\ w = l[2] THEN value ELSE AbsProgress[a][w]
      OBVIOUS
    <3>1. AbsProgress'[a][w] = progress'[<<a, w>>] /\ AbsProgress[a][w] = progress[<<a, w>>]
      BY <2>3, <2>4
    <3>2. progress'[<<a, w>>] = IF a = l[1] /\ w = l[2] THEN value ELSE progress[<<a, w>>]
      BY <2>1
    <3> QED
      BY <3>1, <3>2
  <2> QED
    BY <1>0, <2>3, <2>4, <2>5, MatrixUpdate
<1>3. AbsProgress[l[1]][l[2]] = progress[l]
  BY <1>0 DEF AbsProgress
<1>4. ASSUME Start(l) PROVE Commit!Next
  <2>1. l \in posts /\ l \notin spent /\ l[1] \in ReservedIn(mem[gang[l[1]].by])
    BY <1>4 DEF Start, MayStart
  <2>2. gang[l[1]] # None /\ l[2] \in Members(l[1]) /\ progress[l] = "idle"
    BY <2>1 DEF CommitInv, GangInv, Requested
  <2>3. l[1] \in ReservedIn(rows)
    BY <1>0, <2>1, <2>2, OwnIsOpen DEF CommitInv, GangInv, Dispatched
  <2>4. AbsOutcome[l[1]] = "open" /\ l[2] \in AbsMembers[l[1]]
    BY <1>0, <2>2, <2>3 DEF AbsOutcome, AbsMembers, ReservedIn
  <2>5. progress' = [progress EXCEPT ![l] = "running"]
    BY <1>4 DEF Start
  <2>6. Commit!Start(l[1], l[2])
    BY <1>1, <1>2, <1>3, <2>2, <2>4, <2>5
    DEF Commit!Start, AbsMembers, AbsProgress, AbsOutcome, AbsReported
  <2> QED
    BY <1>0, <2>6 DEF Commit!Next
<1>5. ASSUME NEW result \in {"succeeded", "failed"}, End(l, result) PROVE Commit!Next
  <2>1. progress[l] = "running" /\ progress' = [progress EXCEPT ![l] = result]
    BY <1>5 DEF End
  <2>2. Commit!End(l[1], l[2], result)
    BY <1>1, <1>2, <1>3, <2>1
    DEF Commit!End, AbsMembers, AbsProgress, AbsOutcome, AbsReported
  <2> QED
    BY <1>0, <2>2 DEF Commit!Next
<1> QED
  BY <1>4, <1>5

\* With one control process, gangs commit: members start once and while the gang
\* is open; it is completed, and reported so, only when all have succeeded.
THEOREM GangsCommit == GangSpec /\ Alone => ImplementsCommit
<1>1. GangInit => Commit!Init
  <2> SUFFICES ASSUME GangInit PROVE Commit!Init
    OBVIOUS
  <2>1. \A a \in Id : rows[a] = None /\ gang[a] = None
    BY DEF GangInit, AllocatorInit
  <2>2. AbsMembers = [a \in Id |-> {}] /\ AbsOutcome = [a \in Id |-> "open"] /\ AbsReported = {}
    BY <2>1 DEF AbsMembers, AbsOutcome, AbsReported, Members
  <2>3. AbsProgress = [a \in Id |-> [w \in Worker |-> "idle"]]
    BY DEF GangInit, AbsProgress
  <2> QED
    BY <2>2, <2>3 DEF Commit!Init, AbsMembers, AbsOutcome, AbsReported, AbsProgress
<1>2. CommitInv /\ [GangNext]_gvars => [Commit!Next]_Commit!gcvars
  <2> SUFFICES ASSUME CommitInv, [GangNext]_gvars PROVE [Commit!Next]_Commit!gcvars
    OBVIOUS
  <2>1. GangTypeOK
    BY DEF CommitInv, GangInv
  <2>2. ASSUME UNCHANGED <<rows, progress>>, AbsReported' = AbsReported
        PROVE  [Commit!Next]_Commit!gcvars
    BY <2>2, SameRows, Unseen DEF AbsProgress
  <2>3. UNCHANGED gang => AbsReported' = AbsReported
    BY DEF AbsReported
  <2>4. ASSUME NEW p \in deployment.processes, Die(p) PROVE [Commit!Next]_Commit!gcvars
    <3>1. UNCHANGED <<rows, progress>>
      BY <2>4 DEF Die, Restart, Restarting, store, remote
    <3>2. AbsReported' = AbsReported
      BY <2>4, DieCases DEF CommitInv, AbsReported, NoneNew, Record
    <3> QED
      BY <2>2, <3>1, <3>2
  <2>5. ASSUME NEW a \in Id, Launch(a) PROVE [Commit!Next]_Commit!gcvars
    <3>1. gang[a] # None /\ gang[a].pc = "leasing" /\ gang[a] \in Dispatch
          /\ gang' = [gang EXCEPT ![a].pc = "waiting"] /\ UNCHANGED <<rows, progress>>
      BY <2>1, <2>5 DEF Launch, GangTypeOK, avars
    <3>2. Moved(a, "waiting", gang[a].finished) /\ gang[a].finished \in Nat \cup {None}
      BY <2>1, <3>1 DEF Moved, Dispatch, GangTypeOK
    <3>3. "waiting" \in Place /\ gang[a].pc # "completed"
      BY <3>1 DEF Place
    <3>4. AbsReported' = AbsReported
      BY <2>1, <3>1, <3>2, <3>3, MovedReported
    <3> QED
      BY <2>2, <3>1, <3>4
  <2>6. ASSUME NEW a \in Id, Collect(a) PROVE [Commit!Next]_Commit!gcvars
    <3>1. gang[a] # None /\ gang[a].pc = "waiting" /\ Moved(a, "closing", now)
          /\ UNCHANGED <<rows, progress>>
      BY <2>6 DEF Collect, Waiting, Moved, avars, remote
    <3>2. now \in Nat
      BY AllocatorAssumption DEF CommitInv, GangInv, AllocatorTypeOK
    <3>3. AbsReported' = AbsReported
      BY <2>1, <3>1, <3>2, MovedReported DEF Place
    <3> QED
      BY <2>2, <3>1, <3>3
  <2>7. CASE UNCHANGED <<rows, progress, gang>>
    BY <2>2, <2>3, <2>7
  <2> QED
    BY <2>4, <2>5, <2>6, <2>7, PollStep, BeginStep, AbortStep, ConcludeStep, ProcessStep
    DEF GangNext, Proceed, Receive, Revoke, Pass, gvars, avars, remote, store, Lease
<1> QED
  BY <1>1, <1>2, CommitInvAlways, PTL DEF GangSpec, ImplementsCommit, Commit!Spec
=============================================================================
