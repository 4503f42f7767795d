--------------------------- MODULE GangExecution ----------------------------
(***************************************************************************)
(* A task on several workers at once: WorkerFabric.dispatch_distributed,   *)
(* DistributedExecutionCoordinator.execute and the execute-distributed     *)
(* handler of the workers, over the allocator of GpuAllocator.             *)
(*                                                                         *)
(* A dispatch reserves a gang, obtains a lease for each member, posts all  *)
(* requests, waits for all answers and closes the allocation.  A request   *)
(* may be lost, late or delivered again, its answer lost; the coordinator  *)
(* then sees an error, as it does when the worker refuses.  A process is   *)
(* not stopped when its allocation ends or its caller gives up.  Each      *)
(* lease has a nonce of its own, so a lease is the pair of its allocation  *)
(* and its worker.  Workers look allocations up in the coordinator's       *)
(* process; that look-up is deployment code.                               *)
(***************************************************************************)
EXTENDS GpuAllocator

CONSTANTS
  Executors,      \* workers the coordinator has executors and issuers for
  Revocable       \* workers an operator may revoke

Record == {"completed", "failed", "requeued"}    \* DispatchState of a return
Answer == {"completed", "failed"}
\* The place of a dispatch in its code: how it returned, or where it is.
Place == {"leasing", "waiting", "closing", "raised", "dead"} \cup Record
Dispatch == [pc : Place, by : Process, finished : Nat \cup {None}]

ASSUME ExecutorsAssumption ==
  /\ Executors \subseteq Worker /\ Revocable \subseteq Worker
  /\ None \notin Answer \cup Dispatch

VARIABLES
  gang,           \* per allocation: None or the dispatch that reserved it
  trusted,        \* workers whose access token is in force
  answers,        \* per lease: what the coordinator has got
  posts,          \* leases whose request has been sent
  spent,          \* WorkerLifecycleAuthority._used_nonces
  progress,       \* per lease: the worker's process
  starts          \* per lease: processes started (history)

remote == <<trusted, posts, spent, progress, starts>>
gvars == <<avars, gang, answers, remote>>

Members(a) == IF rows[a] = None THEN {} ELSE {Host[g] : g \in rows[a].gpus}
GpusOf(a, w) == {g \in rows[a].gpus : Host[g] = w}

GangInit ==
  /\ AllocatorInit
  /\ gang = [a \in Id |-> None]
  /\ trusted = Worker
  /\ answers = [l \in Id \X Worker |-> None]
  /\ posts = {} /\ spent = {}
  /\ progress = [l \in Id \X Worker |-> "idle"]
  /\ starts = [l \in Id \X Worker |-> 0]

-----------------------------------------------------------------------------
(* The coordinator                                                         *)

\* dispatch_distributed up to the reservation; one that fails raises.
Begin(p, n, seconds) ==
  /\ Reserve(p, n, seconds)
  /\ gang' = [a \in Id |->
       IF rows[a] = None /\ rows'[a] # None
         THEN [pc |-> "leasing", by |-> p, finished |-> None] ELSE gang[a]]
  /\ UNCHANGED <<answers, remote>>

\* A closing of `a` that goes through, and one that raises: the store fails, or
\* the process no longer has `a` as reserved.
CloseOwn(a, state) ==
  a \in ReservedIn(mem[gang[a].by]) /\ Closing(gang[a].by, {a}, state)
CloseRaises(a, state) ==
  IF a \in ReservedIn(mem[gang[a].by])
    THEN ClosingRaises(gang[a].by, {}, a, state) ELSE UNCHANGED <<store, mem, held>>
Return(a, record) == gang' = [gang EXCEPT ![a].pc = record, ![a].finished = None]

\* execute raises, and dispatch_distributed fails the allocation and swallows
\* what that raises: executors that do not cover the gang, GPUs no longer
\* verified, a worker whose token is revoked, or a closing that raised.
Abort(a) ==
  /\ gang[a] # None /\ gang[a].pc \in {"leasing", "raised"}
  /\ CloseOwn(a, "failed") \/ CloseRaises(a, "failed")
  /\ Return(a, "requeued")
  /\ UNCHANGED <<epoch, now, deployment, misled, answers, remote>>

\* issue_distributed_lease, which stores nothing, goes through for each member: each
\* has an issuer and a token in force; the time is still the one of the reservation.
Leasable(a) == Members(a) = Executors /\ Members(a) \subseteq trusted
\* The requests are posted, all at once.
Launch(a) ==
  /\ gang[a] # None /\ gang[a].pc = "leasing"
  /\ Leasable(a)
  /\ gang' = [gang EXCEPT ![a].pc = "waiting"]
  /\ posts' = posts \cup ({a} \X Members(a))
  /\ UNCHANGED <<avars, answers, trusted, spent, progress, starts>>

\* A future yields the worker's answer, or an exception of the transport.
Waiting(a) == gang[a] # None /\ gang[a].pc = "waiting"
Receive(l, answer) ==
  /\ Waiting(l[1]) /\ l \in posts /\ answers[l] = None
  /\ answer = "completed" => progress[l] = "succeeded"
  /\ answers' = [answers EXCEPT ![l] = answer]
  /\ UNCHANGED <<avars, gang, remote>>

\* Mutant of Answered: the first failure ends the wait.
AnsweredOrFailed(a) ==
  \/ \A w \in Members(a) : answers[<<a, w>>] # None
  \/ \E w \in Members(a) : answers[<<a, w>>] = "failed"
Answered(a) == \A w \in Members(a) : answers[<<a, w>>] # None
\* The clock is read once all have answered, and the allocation closed after.
Collect(a) ==
  /\ Waiting(a) /\ Answered(a)
  /\ gang' = [gang EXCEPT ![a].pc = "closing", ![a].finished = now]
  /\ UNCHANGED <<avars, answers, remote>>

Success(a) == \A w \in Members(a) : answers[<<a, w>>] = "completed"
\* By the time read before, the allocation is expired (with all others overdue),
\* or completed or failed.
Conclude(a) ==
  /\ gang[a] # None /\ gang[a].pc = "closing"
  /\ LET p == gang[a].by
         overdue == {b \in ReservedIn(mem[p]) : mem[p][b].until <= gang[a].finished}
         late == gang[a].finished >= rows[a].until
         state == IF Success(a) THEN "completed" ELSE "failed"
     IN \/ /\ IF late THEN Closing(p, overdue, "expired") ELSE CloseOwn(a, state)
           /\ \E record \in Record : Return(a, record) /\ (record # "requeued" <=> Success(a))
        \/ /\ IF late THEN \E b \in overdue : \E S \in SUBSET (overdue \ {b}) :
                               ClosingRaises(p, S, b, "expired")
                      ELSE CloseRaises(a, state)
           /\ Return(a, "raised")
  /\ UNCHANGED <<epoch, now, deployment, misled, answers, remote>>

-----------------------------------------------------------------------------
(* The workers                                                             *)

\* Mutants of MayStart: a nonce can be used again; the allocation's state, and
\* with it the fence, is not looked at.
MayStartAgain(l) ==
  /\ l \in posts /\ l[2] \in trusted /\ progress[l] # "running"
  /\ l[1] \in ReservedIn(mem[gang[l[1]].by])
  /\ now < mem[gang[l[1]].by][l[1]].until
MayStartUnfenced(l) ==
  /\ l \in posts \ spent /\ l[2] \in trusted
  /\ now < rows[l[1]].until
\* authorize_distributed_execution; allocation, epoch, ranks and expiry of the
\* lease are those of the allocation it was issued for.
MayStart(l) ==
  /\ l \in posts \ spent /\ l[2] \in trusted
  /\ l[1] \in ReservedIn(mem[gang[l[1]].by])
  /\ now < mem[gang[l[1]].by][l[1]].until

\* The handler: the nonce is spent, then the process started.
Start(l) ==
  /\ MayStart(l)
  /\ spent' = spent \cup {l}
  /\ progress' = [progress EXCEPT ![l] = "running"]
  /\ starts' = [starts EXCEPT ![l] = @ + 1]
  /\ UNCHANGED <<avars, gang, answers, trusted, posts>>

\* The process exits, with or without success, or its timeout kills it.
End(l, result) ==
  /\ progress[l] = "running"
  /\ progress' = [progress EXCEPT ![l] = result]
  /\ UNCHANGED <<avars, gang, answers, trusted, posts, spent, starts>>

Revoke(w) ==
  /\ w \in Revocable \cap trusted /\ trusted' = trusted \ {w}
  /\ UNCHANGED <<avars, gang, answers, posts, spent, progress, starts>>

-----------------------------------------------------------------------------
\* Other threads of the process poll expire; the process may die and start anew.
Poll(p) == Expire(p) /\ UNCHANGED <<gang, answers, remote>>
Die(p) ==
  /\ Restart(p)
  /\ gang' = [a \in Id |->
       IF gang[a] # None /\ gang[a].by = p /\ gang[a].pc \notin Record
         THEN [gang[a] EXCEPT !.pc = "dead", !.finished = None] ELSE gang[a]]
  /\ UNCHANGED <<answers, remote>>

Proceed(a) ==
  \/ Abort(a) \/ Launch(a) \/ Collect(a) \/ Conclude(a)
  \/ \E w \in Worker, answer \in Answer : Receive(<<a, w>>, answer)

GangNext ==
  \/ \E p \in deployment.processes :
       \/ Poll(p) \/ Die(p)
       \/ \E n \in Size, seconds \in LeaseSeconds : Begin(p, n, seconds)
  \/ \E a \in Id : Proceed(a)
  \/ \E l \in Id \X Worker :
       \/ Start(l)
       \/ \E result \in {"succeeded", "failed"} : End(l, result)
  \/ \E w \in Worker : Revoke(w)
  \/ Pass /\ UNCHANGED <<gang, answers, remote>>

GangSpec == GangInit /\ [][GangNext]_gvars

-----------------------------------------------------------------------------
\* A process is started only while its allocation holds all its GPUs in the
\* store, whatever late or repeated request starts it (fencing).
StartsFenced ==
  [][\A l \in Id \X Worker : starts'[l] # starts[l] =>
       \A g \in GpusOf(l[1], l[2]) : taken[g] = l[1]]_gvars

\* Two processes use one GPU only when one of them is beyond its coordinator's
\* control: the call to it failed, its coordinator died or its allocation ended
\* by time.  A gang that is closed otherwise has no process left.
GpusOneUser ==
  \A l, m \in Id \X Worker :
    /\ l # m /\ progress[l] = "running" /\ progress[m] = "running"
    /\ GpusOf(l[1], l[2]) \cap GpusOf(m[1], m[2]) # {}
    => \E k \in {l, m} :
         answers[k] # None \/ gang[k[1]].pc = "dead" \/ rows[k[1]].until <= now

\* Members start once and while the gang is open; it is completed, and its task
\* reported completed, only when all have succeeded, through failures, lost answers, expiry, revocation and death.
Commit == INSTANCE GangCommit WITH
  Gang <- Id,
  members <- [a \in Id |-> Members(a)],
  progress <- [a \in Id |-> [w \in Worker |-> progress[<<a, w>>]]],
  outcome <- [a \in Id |->
    IF rows[a] = None \/ rows[a].state = "reserved" THEN "open"
    ELSE IF rows[a].state = "completed" THEN "completed" ELSE "closed"],
  reported <- {a \in Id : gang[a] # None /\ gang[a].pc = "completed"}
ImplementsCommit == Commit!Spec
=============================================================================
