--------------------------- MODULE RemoteDispatch ---------------------------
(***************************************************************************)
(* Dispatch of tasks to remote workers, over the scheduler core:           *)
(* WorkerFabric.dispatch and ComputeBroker.lease on the control side, the  *)
(* WorkerLifecycleAuthority (tokens, remote leases, single-use nonces), and*)
(* the execute handler of the worker control API, with the network between.*)
(*                                                                         *)
(* Dispatcher threads block while the worker runs; registration, revocation*)
(* and recovery go on meanwhile.  Each call of the scheduler, the registry *)
(* and the authority is one step: nothing in the source locks them, so the *)
(* steps are those of a server that runs handlers one call at a time.      *)
(* A request may be lost or delivered again, a reply may be lost or too    *)
(* late; the dispatcher then sees a transport error.  An authorization that*)
(* is refused changes nothing and reaches the dispatcher as such an error. *)
(***************************************************************************)
EXTENDS Scheduler

CONSTANTS
  Dispatcher,
  Remote,         \* workers behind RemoteWorkerExecutor; others run locally
  Executors,      \* workers that have an executor
  CompletionClock,\* "now" (worker_control_api) or "start" (worker_control_server)
  MaxToken,       \* registrations of a worker
  MaxLease        \* remote leases issued

ASSUME DispatchAssumption ==
  /\ Remote \subseteq Worker /\ Executors \subseteq Worker
  /\ CompletionClock \in {"now", "start"}
  /\ MaxToken \in Nat /\ MaxLease \in Nat

VARIABLES
  issued, valid,  \* per worker: access tokens issued, the one in force (0: none)
  available,      \* workers the registry has as available
  leases,         \* WorkerLifecycleAuthority._leases
  used,           \* WorkerLifecycleAuthority._used_nonces, by lease id
  requests,       \* execute requests in the network
  running,        \* executions the handler has authorized
  replies,        \* answers on their way back
  dispatch,       \* per dispatcher: None or the call it is in; shadowed (history):
                  \* when it began, an older call had the same job and worker
  nextLease,
  \* history
  runs,           \* per lease: executions started
  accepted,       \* leases whose completion the authority accepted
  barred,         \* leases a revocation took away
  results         \* COMPLETED dispatch records

identity == <<issued, valid, available>>
authority == <<leases, used>>
network == <<requests, running, replies>>
history == <<runs, accepted, barred, results>>
rvars == <<jobs, now, issued, valid, available, leases, used, requests, running,
           replies, dispatch, nextLease, runs, accepted, barred, results>>

Id == 1..MaxLease
Token == 1..MaxToken
Outcome == {"completed", "failed", "unavailable", "rejected"}
RemoteLease == [id : Id, job : Job, worker : Worker, until : Nat]
Call == [pc : {"preparing", "issued", "waiting"}, job : Job, worker : Worker,
         until : Nat, id : Id \cup {None}, shadowed : BOOLEAN]

LeaseOf(call, id) ==
  [id |-> id, job |-> call.job, worker |-> call.worker, until |-> call.until]

RemoteTypeOK ==
  /\ TypeOK
  /\ issued \in [Worker -> 0..MaxToken]
  /\ valid \in [Worker -> 0..MaxToken]
  /\ \A w \in Worker : valid[w] \in {0, issued[w]}
  /\ available \subseteq Worker
  /\ leases \subseteq RemoteLease
  /\ used \subseteq Id
  /\ requests \subseteq [lease : RemoteLease, token : Token]
  /\ running \subseteq [lease : RemoteLease, token : Token, start : Nat]
  /\ replies \subseteq [id : Id, outcome : Outcome]
  /\ dispatch \in [Dispatcher -> Call \cup {None}]
  /\ nextLease \in 1..MaxLease + 1
  /\ runs \in [Id -> Nat]
  /\ accepted \subseteq RemoteLease /\ barred \subseteq RemoteLease
  /\ results \subseteq [dispatcher : Dispatcher, job : Job, worker : Worker,
                          id : Id \cup {None}, until : Nat]

RemoteInit ==
  /\ Init
  /\ issued = [w \in Worker |-> 0] /\ valid = issued
  /\ available = Worker \ Remote
  /\ leases = {} /\ used = {}
  /\ requests = {} /\ running = {} /\ replies = {}
  /\ dispatch = [d \in Dispatcher |-> None]
  /\ nextLease = 1
  /\ runs = [i \in Id |-> 0] /\ accepted = {} /\ barred = {}
  /\ results = {}

-----------------------------------------------------------------------------
(* Worker identity                                                         *)

\* _apply: the observation of its GPUs decides whether the worker is available.
Apply(w) == available' \in {available \cup {w}, available \ {w}}

Register(w) ==
  /\ w \in Remote /\ issued[w] < MaxToken
  /\ issued' = [issued EXCEPT ![w] = @ + 1]
  /\ valid' = [valid EXCEPT ![w] = issued'[w]]
  /\ Apply(w)
  /\ UNCHANGED <<jobs, now, authority, network, dispatch, nextLease, history>>

Heartbeat(w) ==
  /\ w \in Remote /\ valid[w] # 0
  /\ Apply(w)
  /\ UNCHANGED <<jobs, now, issued, valid, authority, network, dispatch, nextLease, history>>

\* Mutant of Revoke: the worker's leases stay.
RevokeTokenOnly(w) ==
  /\ valid[w] # 0
  /\ valid' = [valid EXCEPT ![w] = 0]
  /\ available' = available \ {w}
  /\ barred' = barred \cup {l \in leases : l.worker = w}
  /\ UNCHANGED <<jobs, now, issued, authority, network, dispatch, nextLease, runs,
                 accepted, results>>
Revoke(w) ==
  /\ valid[w] # 0
  /\ valid' = [valid EXCEPT ![w] = 0]
  /\ available' = available \ {w}
  /\ leases' = {l \in leases : l.worker # w}
  /\ barred' = barred \cup (leases \ leases')
  /\ UNCHANGED <<jobs, now, issued, used, network, dispatch, nextLease, runs,
                 accepted, results>>

-----------------------------------------------------------------------------
(* The control side                                                        *)

Idle(d) == dispatch[d] = None
CallOn(d, j, w) == ~Idle(d) /\ dispatch[d].job = j /\ dispatch[d].worker = w
In_(d, pc) == dispatch[d] # None /\ dispatch[d].pc = pc

\* broker.lease: the task's own job, on whichever available worker takes it;
\* a leased worker without an executor gives it back at once.
TakeJob(d, j) ==
  /\ Idle(d)
  /\ \E w \in available, pool \in PoolPower, seconds \in LeaseSeconds : \E offer \in Offer[w] :
       /\ j \in Candidates(w, offer, pool, j, {})
       /\ IF w \in Executors
            THEN /\ ChooseOnWorker(w, offer, pool, j, {}, seconds)
                 /\ dispatch' = [dispatch EXCEPT ![d] =
                      [pc |-> "preparing", job |-> j, worker |-> w,
                       until |-> now + seconds, id |-> None,
                       shadowed |-> \E e \in Dispatcher : CallOn(e, j, w)]]
            ELSE jobs' = Stamped(j) /\ UNCHANGED <<now, dispatch>>
  /\ UNCHANGED <<identity, authority, network, nextLease, history>>

\* No available worker takes the job; its age is stamped if any was asked.
NoWorker(d, j) ==
  /\ Idle(d) /\ j \in Queued
  /\ \A w \in available : \E offer \in Offer[w], pool \in PoolPower :
       Candidates(w, offer, pool, j, {}) = {}
  /\ jobs' \in {jobs} \cup IF available = {} THEN {} ELSE {Stamped(j)}
  /\ UNCHANGED <<now, identity, authority, network, dispatch, nextLease, history>>

\* Mutant of Settle: whoever holds the job's lease, it is settled.
SettleAnyones(d, state) ==
  LET c == dispatch[d]
  IN /\ IF c.job \in Leased THEN Release(c.job, jobs[c.job].owner, state)
                            ELSE UNCHANGED <<jobs, now>>
     /\ dispatch' = [dispatch EXCEPT ![d] = None]
\* The scheduler's owner check is all that ties a dispatch to its lease; when
\* it fails the call raises and nothing more is done.
Settle(d, state) ==
  LET c == dispatch[d]
  IN /\ IF c.job \in LeasedOn(c.worker) THEN Release(c.job, c.worker, state)
                                        ELSE UNCHANGED <<jobs, now>>
     /\ dispatch' = [dispatch EXCEPT ![d] = None]

\* The task factory runs outside the handler's try: the job stays leased.
FactoryRaises(d) ==
  /\ In_(d, "preparing")
  /\ dispatch' = [dispatch EXCEPT ![d] = None]
  /\ UNCHANGED <<jobs, now, identity, authority, network, nextLease, history>>

StartLocal(d) ==
  /\ In_(d, "preparing") /\ dispatch[d].worker \notin Remote
  /\ dispatch' = [dispatch EXCEPT ![d].pc = "waiting"]
  /\ UNCHANGED <<jobs, now, identity, authority, network, nextLease, history>>

\* lease_provider: issue_lease under the token in force; without one it raises, and
\* the call goes to CallFails.  The deadline is compared with the time the dispatch
\* began, which it is always after.
Issue(d) ==
  LET c == dispatch[d]
  IN /\ In_(d, "preparing")
     /\ c.worker \in Remote /\ valid[c.worker] # 0
     /\ nextLease <= MaxLease
     /\ leases' = leases \cup {LeaseOf(c, nextLease)}
     /\ nextLease' = nextLease + 1
     /\ dispatch' = [dispatch EXCEPT ![d].pc = "issued", ![d].id = nextLease]
     /\ UNCHANGED <<jobs, now, identity, used, network, history>>

\* execute_with_lease posts the request under the executor's own access, which
\* may be older or newer than the one the lease was issued under.
Post(d) ==
  LET c == dispatch[d]
  IN /\ In_(d, "issued")
     /\ \E token \in 1..issued[c.worker] :
          requests' = requests \cup {[lease |-> LeaseOf(c, c.id), token |-> token]}
     /\ dispatch' = [dispatch EXCEPT ![d].pc = "waiting"]
     /\ UNCHANGED <<jobs, now, identity, authority, running, replies, nextLease, history>>

\* Any exception of the provider or the executor: requeue.
CallFails(d) ==
  /\ ~Idle(d)
  /\ Settle(d, "queued")
  /\ UNCHANGED <<identity, authority, network, nextLease, history>>

Settled(outcome) ==
  CASE outcome = "completed" -> "completed"
    [] outcome = "failed" -> "failed"
    [] OTHER -> "queued"
Record(d) ==
  [dispatcher |-> d, job |-> dispatch[d].job, worker |-> dispatch[d].worker,
   id |-> dispatch[d].id, until |-> dispatch[d].until]
\* Mutant of Conclude: the scheduler's refusal is swallowed.
ConcludeUnrefused(d, outcome) ==
  /\ Settle(d, Settled(outcome))
  /\ available' = IF outcome = "unavailable" THEN available \ {dispatch[d].worker}
                                            ELSE available
  /\ results' = IF outcome = "completed" THEN results \cup {Record(d)} ELSE results
\* The worker's result as dispatch settles it; a record is returned only when
\* the scheduler lets it.
Conclude(d, outcome) ==
  /\ Settle(d, Settled(outcome))
  /\ available' = IF outcome = "unavailable" THEN available \ {dispatch[d].worker}
                                            ELSE available
  /\ results' = IF outcome = "completed" /\ dispatch[d].job \in LeasedOn(dispatch[d].worker)
                  THEN results \cup {Record(d)} ELSE results

Answer(d) ==
  /\ In_(d, "waiting")
  /\ \E outcome \in Outcome :
       /\ dispatch[d].id # None => [id |-> dispatch[d].id, outcome |-> outcome] \in replies
       /\ Conclude(d, outcome)
  /\ UNCHANGED <<issued, valid, authority, network, nextLease, runs, accepted, barred>>

Recover ==
  /\ RecoverExpired
  /\ UNCHANGED <<identity, authority, network, dispatch, nextLease, history>>

-----------------------------------------------------------------------------
(* The execute handler                                                     *)

\* Mutant of MayExecute: the nonce is not looked up.
MayExecuteAgain(r) ==
  /\ r.token = valid[r.lease.worker] /\ r.lease \in leases
  /\ r.lease.until > now
\* authorize_execution; the nonce is spent whatever becomes of the execution.
MayExecute(r) ==
  /\ r.token = valid[r.lease.worker] /\ r.lease \in leases
  /\ r.lease.until > now /\ r.lease.id \notin used
Authorize(r) ==
  /\ MayExecute(r)
  /\ used' = used \cup {r.lease.id}
  /\ running' = running \cup {[lease |-> r.lease, token |-> r.token, start |-> now]}
  /\ runs' = [runs EXCEPT ![r.lease.id] = @ + 1]
  /\ UNCHANGED <<jobs, now, identity, leases, requests, replies, dispatch, nextLease,
                 accepted, barred, results>>

MayComplete(e) ==
  /\ e.token = valid[e.lease.worker] /\ e.lease \in leases
  /\ e.lease.until > IF CompletionClock = "now" THEN now ELSE e.start

\* The execution ends with a result: complete_lease, then the answer.
Finish(e, outcome) ==
  /\ MayComplete(e)
  /\ running' = running \ {e}
  /\ leases' = leases \ {e.lease}
  /\ replies' = replies \cup {[id |-> e.lease.id, outcome |-> outcome]}
  /\ accepted' = accepted \cup {e.lease}
  /\ UNCHANGED <<jobs, now, identity, used, requests, dispatch, nextLease, runs,
                 barred, results>>
\* It raises, or its completion is refused.
Die(e) ==
  /\ running' = running \ {e}
  /\ UNCHANGED <<jobs, now, identity, authority, requests, replies, dispatch,
                 nextLease, history>>

-----------------------------------------------------------------------------
RemoteNext ==
  \/ \E w \in Worker : Register(w) \/ Heartbeat(w) \/ Revoke(w)
  \/ \E j \in Job :
       Submit(j) /\ UNCHANGED <<identity, authority, network, dispatch, nextLease, history>>
  \/ \E d \in Dispatcher :
       \/ \E j \in Job : TakeJob(d, j) \/ NoWorker(d, j)
       \/ FactoryRaises(d) \/ StartLocal(d) \/ Issue(d) \/ Post(d) \/ CallFails(d) \/ Answer(d)
  \/ \E r \in requests : Authorize(r)
  \/ \E e \in running : Die(e) \/ \E outcome \in Outcome : Finish(e, outcome)
  \/ Recover
  \/ Tick /\ UNCHANGED <<identity, authority, network, dispatch, nextLease, history>>

RemoteSpec == RemoteInit /\ [][RemoteNext]_rvars

-----------------------------------------------------------------------------
\* A duplicated or late request never starts a second execution of a lease.
RunsOnce == \A i \in Id : runs[i] <= 1

\* After a revocation no completion is accepted for a lease the worker had,
\* even when the worker registers again and the request comes under its new
\* token (revoke, authorize, complete_lease).
RevokedNeverAccepted == accepted \cap barred = {}

\* The authority accepts a completion only before the lease's deadline, "remote
\* lease completion arrived after expiry" (complete_lease).  The server that passes
\* on the time the request came in breaks this.
AcceptedInTime == [][\A l \in accepted' \ accepted : l.until > now]_rvars

\* A task is reported COMPLETED once, although lost answers, expiry and recovery
\* let several workers execute it and several dispatchers hear of it, and for a
\* remote task the record goes back to one execution, of this task by this worker
\* under this very lease, that the authority accepted.
OneResult ==
  /\ \A r, s \in results : r.job = s.job => r = s
  /\ \A r \in results : r.id # None => runs[r.id] = 1 /\ LeaseOf(r, r.id) \in accepted

\* Until its deadline, the lease a dispatch waits for is the scheduler's lease of
\* that job, whatever is recovered or revoked meanwhile, unless an older call for
\* the same job on the same worker was still under way when it was taken: the
\* scheduler cannot tell the two apart.
AwaitedLeaseHeld ==
  \A d \in Dispatcher :
    dispatch[d] # None /\ ~dispatch[d].shadowed /\ dispatch[d].until > now =>
      LET c == dispatch[d]
      IN c.job \in LeasedOn(c.worker) /\ jobs[c.job].until = c.until
=============================================================================
