--------------------------- MODULE WorkerControl ----------------------------
(***************************************************************************)
(* Identity and evidence of GPU workers: the agents that observe their     *)
(* host, register and send heartbeats (gpu_worker_agent.py), the control   *)
(* plane that authenticates them and keeps the registry current            *)
(* (worker_control_plane.py, worker_control_api.py, WorkerLifecycle-       *)
(* Authority), the registry and its saved copy (worker_registry.py), and   *)
(* the choice of a worker and its GPUs from it (compute_broker.py).        *)
(*                                                                         *)
(* The control plane runs one handler at a time; a handler is one step.    *)
(* The network may lose a request or its answer, and delays requests past  *)
(* the agent's patience, so that they may arrive in another order.  The    *)
(* registry is saved now and then; the authority is memory only.  Hosts    *)
(* change under their agents.  No placement looks at the time, so that     *)
(* observations are all of time 0.                                         *)
(***************************************************************************)
EXTENDS GpuCapabilities

CONSTANTS
  Worker,
  WorkerOrder,    \* the workers in the order of their ids
  Condition,      \* Condition[w]: what w's host may be like
  Stores,         \* what an earlier run may have left in the registry's store
  Requirements,   \* requirements that placements are checked for
  Fabrics,        \* networks the workers may share
  MaxToken, MaxMail

Active == {"available", "limited"}

\* What w's agent may have seen of its host.
ReportsOf(w) == {Probe(w, c, 0) : c \in Condition[w]} \ {None}

\* What the registry may hold for a worker: no record, or one whose evidence, if it has
\* any, was reported by that worker and shows no failure of a worker in service.
IsRecord(r) == r = [state |-> r.state, healthy |-> r.healthy, observation |-> r.observation]
IsRecordOf(w, r) ==
  r # None =>
    /\ IsRecord(r)
    /\ r.observation # None =>
         /\ r.observation \in ReportsOf(w)
         /\ r.state \in Active => HealthState(r.observation) # "failed"

ASSUME ControlAssumption ==
  /\ IsFiniteSet(Worker) /\ WorkerOrder \in SetToSeqs(Worker)
  /\ None \notin Worker /\ None # 0
  /\ \A w \in Worker : Condition[w] # {}
  /\ \A r \in Stores : r = [w \in Worker |-> r[w]] /\ \A w \in Worker : IsRecordOf(w, r[w])
  /\ MaxMail \in Nat /\ MaxToken \in [Worker -> Nat]

\* The GPUs of a host have different UUIDs; a requirement names a positive number.
ASSUME HostAssumption ==
  \A w \in Worker : \A c \in Condition[w] :
    /\ c.gpus \in Seq(ToSet(c.gpus))
    /\ \A i, j \in DOMAIN c.gpus : i # j => c.gpus[i].uuid # c.gpus[j].uuid
\* None is no allocation of their GPUs.
ASSUME AllocationAssumption ==
  LET all == UNION {Uuids(c.gpus) : c \in UNION {Condition[w] : w \in Worker}}
  IN \A W \in SUBSET Worker : None \notin [W -> SUBSET all]
ASSUME RequirementAssumption == \A req \in Requirements : req.count \in Nat \ {0}

VARIABLES
  agent,          \* the agent: its token (0: none) and the request it waits for
  mail,           \* requests on their way
  access,         \* authority: the token in force (0: none)
  identity,       \* authority: the hardware identity that token is bound to
  registry,       \* WorkerRegistry (None: no record)
  saved,          \* its copy in the store
  issued,         \* tokens issued (history)
  enrolled        \* identities the worker has registered with (history)

authority == <<access, identity>>
wvars == <<agent, mail, access, identity, registry, saved, issued, enrolled>>

Provisioned == [state |-> "unverified", healthy |-> TRUE, observation |-> None]

\* What identifies hardware: everything observed that health and time do not move.
Identity(o) == [gpus |-> o.gpus, topology |-> o.topology, dcgm |-> o.dcgm, nccl |-> o.nccl]

Observed == {w \in Worker : registry[w] # None /\ registry[w].observation # None}

ControlInit ==
  /\ agent = [w \in Worker |-> [token |-> 0, request |-> None]]
  /\ mail = {}
  /\ access = [w \in Worker |-> 0] /\ identity = [w \in Worker |-> None]
  /\ registry \in Stores /\ saved = registry
  /\ issued = [w \in Worker |-> 0]
  /\ enrolled = [w \in Worker |-> {Identity(registry[v].observation) : v \in Observed \cap {w}}]

-----------------------------------------------------------------------------
(* Agents                                                                  *)

\* The agent observes its host and posts the observation, with the enrolment token
\* (token 0) or its access token; a probe that raises sends nothing.  The host may be
\* in another condition each time.
Post(w, kind, condition) ==
  LET o == Probe(w, condition, 0)
      m == [kind |-> kind, worker |-> w, seen |-> o,
            token |-> IF kind = "register" THEN 0 ELSE agent[w].token]
  IN /\ agent[w].request = None /\ o # None
     /\ IF kind = "register" THEN issued[w] < MaxToken[w] ELSE agent[w].token # 0
     /\ Cardinality(mail) < MaxMail /\ m \notin mail
     /\ mail' = mail \cup {m}
     /\ agent' = [agent EXCEPT ![w].request = m]
     /\ UNCHANGED <<authority, registry, saved, issued, enrolled>>

\* No answer in time, or none at all.
GiveUp(w) ==
  /\ agent[w].request # None
  /\ agent' = [agent EXCEPT ![w].request = None]
  /\ UNCHANGED <<mail, authority, registry, saved, issued, enrolled>>
Lose(m) ==
  /\ m \in mail /\ mail' = mail \ {m}
  /\ UNCHANGED <<agent, authority, registry, saved, issued, enrolled>>

\* The answer to m, with a token or without; it may get lost, and an agent that
\* has given up does not see it.
Answer(m, token) ==
  /\ mail' = mail \ {m}
  /\ agent' \in {agent} \cup
       IF agent[m.worker].request = m
         THEN {[agent EXCEPT ![m.worker].request = None,
                             ![m.worker].token = IF token = 0 THEN @ ELSE token]}
         ELSE {}

-----------------------------------------------------------------------------
(* The control plane                                                       *)

\* _state: what an observation makes of its worker.
StateBy(o) ==
  LET bases == {BaseState(o.gpus[i]) : i \in DOMAIN o.gpus}
  IN IF "failed" \in bases THEN "unverified"
     ELSE IF HealthState(o) = "failed" THEN "temporary"
     ELSE IF HealthState(o) = "verified" THEN "available" ELSE "limited"
\* _apply; a worker without a record raises KeyError.
Apply(w, o) ==
  IF registry[w] = None THEN UNCHANGED registry
  ELSE registry' = [registry EXCEPT ![w] =
         [state |-> StateBy(o), healthy |-> StateBy(o) \in Active, observation |-> o]]

\* Registration: the authority first, then the registry.  When the registry does not
\* know the worker the new token is in force though the agent is told of an error.
HandleRegister(m) ==
  /\ m \in mail /\ m.kind = "register" /\ issued[m.worker] < MaxToken[m.worker]
  /\ issued' = [issued EXCEPT ![m.worker] = @ + 1]
  /\ access' = [access EXCEPT ![m.worker] = issued'[m.worker]]
  /\ identity' = [identity EXCEPT ![m.worker] = Identity(m.seen)]
  /\ enrolled' = [enrolled EXCEPT ![m.worker] = @ \cup {Identity(m.seen)}]
  /\ Apply(m.worker, m.seen)
  /\ Answer(m, IF registry[m.worker] = None THEN 0 ELSE issued'[m.worker])
  /\ UNCHANGED <<saved>>

\* Mutant of Authorizes: the hardware may have changed.
AuthorizesToken(m) == m.token # 0 /\ access[m.worker] = m.token
Authorizes(m) ==
  /\ m.token # 0 /\ access[m.worker] = m.token
  /\ identity[m.worker] = Identity(m.seen)
HandleHeartbeat(m) ==
  /\ m \in mail /\ m.kind = "heartbeat"
  /\ IF Authorizes(m) THEN Apply(m.worker, m.seen) ELSE UNCHANGED registry
  /\ Answer(m, 0)
  /\ UNCHANGED <<authority, saved, issued, enrolled>>

\* Mutant of Revoke: the registry is left as it is.
RevokeAccess(w) ==
  /\ access' = [access EXCEPT ![w] = 0] /\ identity' = [identity EXCEPT ![w] = None]
  /\ UNCHANGED <<agent, mail, registry, saved, issued, enrolled>>
Revoke(w) ==
  /\ access' = [access EXCEPT ![w] = 0] /\ identity' = [identity EXCEPT ![w] = None]
  /\ registry' = IF registry[w] = None THEN registry
                 ELSE [registry EXCEPT ![w].state = "offline"]
  /\ UNCHANGED <<agent, mail, saved, issued, enrolled>>

\* An operator provisions a worker; the fabric marks one that failed a dispatch.
Provision(w) ==
  /\ registry[w] = None
  /\ registry' = [registry EXCEPT ![w] = Provisioned]
  /\ UNCHANGED <<agent, mail, authority, saved, issued, enrolled>>
MarkUnavailable(w) ==
  /\ registry[w] # None
  /\ registry' = [registry EXCEPT ![w].state = "temporary"]
  /\ UNCHANGED <<agent, mail, authority, saved, issued, enrolled>>

\* The store is rewritten in one transaction.
Save ==
  /\ saved' = registry
  /\ UNCHANGED <<agent, mail, authority, registry, issued, enrolled>>
Restart ==
  /\ registry' = saved
  /\ access' = [w \in Worker |-> 0] /\ identity' = [w \in Worker |-> None]
  /\ UNCHANGED <<agent, mail, saved, issued, enrolled>>

ControlNext ==
  \/ \E w \in Worker :
       \/ GiveUp(w) \/ Revoke(w) \/ Provision(w)
       \/ MarkUnavailable(w)
       \/ \E kind \in {"register", "heartbeat"}, c \in Condition[w] : Post(w, kind, c)
  \/ \E m \in mail : Lose(m) \/ HandleRegister(m) \/ HandleHeartbeat(m)
  \/ Save \/ Restart

ControlSpec == ControlInit /\ [][ControlNext]_wvars

-----------------------------------------------------------------------------
(* Placement.  Observations are few, so that what follows from them is tabled. *)

Observations == UNION {ReportsOf(w) : w \in Worker}
Placement == [o \in Observations |-> [req \in Requirements |-> EvaluatePlacement(req, o)]]
Seen == {f \in UNION {[W -> Observations] : W \in SUBSET Worker} :
           \A w \in DOMAIN f : f[w].worker = w}
Gangs == [seen \in Seen |-> [req \in Requirements |-> [fabric \in Fabrics |->
            AllocateGang(req, seen, WorkerOrder, fabric)]]]

\* Mutant of InService: a worker is in service unless it has been revoked.
InServiceUnlessRevoked(w) == registry[w] # None /\ registry[w].state # "offline"
InService(w) == registry[w] # None /\ registry[w].state \in Active /\ registry[w].healthy
Serving == {w \in Observed : InService(w)}
Eligible(w, req) == w \in Serving /\ Placement[registry[w].observation][req] # {}
\* The workers that may be chosen.  Which of them is the best fit depends on slots,
\* memory and power that are not modelled: any may be the one.
Selectable(req) == {w \in Worker : Eligible(w, req)}

-----------------------------------------------------------------------------
\* The evidence a worker is placed by is of hardware the worker has registered with
\* its enrolment token, and while a token is in force of the hardware that token was
\* given for: a late heartbeat of older or of other hardware changes nothing, in
\* whatever order requests arrive and whatever the registry was reloaded from
\* (WorkerLifecycleAuthority.heartbeat).
EvidenceEnrolled ==
  \A w \in Observed :
    LET o == registry[w].observation
    IN /\ o.worker = w /\ Identity(o) \in enrolled[w]
       /\ access[w] # 0 => Identity(o) = identity[w]

\* A worker comes into service only by a report of its own that the authority
\* accepts, or by a reload of the registry; a revoked one is out until then.
ServiceFollowsReport ==
  [][\A w \in Worker :
       /\ access[w] # 0 /\ access'[w] = 0 => ~InService(w)' \/ registry' = saved
       /\ InService(w)' /\ ~InService(w) =>
            \/ registry' = saved
            \/ access'[w] # 0 /\ \E m \in mail \ mail' : m.worker = w]_wvars

\* What a table says of a requirement: GPUs that serve it when it names any, and
\* some whenever some would serve (when it is only about the GPUs one by one and
\* their links: no second group is tried for the sake of the others).
Servable == [o \in Observations |-> [req \in Requirements |->
  \E S \in SUBSET Uuids(o.gpus) : Serves(req, o, S)]]
Served == [o \in Observations |-> [req \in Requirements |->
  Serves(req, o, Placement[o][req])]]
\* Whichever worker is chosen has GPUs that serve the requirement, out of an observation
\* that shows no failure, and there is one to choose whenever one in service has such GPUs.
PlacementsServe ==
  \A req \in Requirements :
    LET easy == req.placement # "multi_node" /\ ~req.nccl /\ ~req.gpuDirect /\ req.total = 0
    IN /\ \A w \in Selectable(req) :
            /\ req.placement # "multi_node" /\ registry[w].observation.health # "failure"
            /\ Served[registry[w].observation][req]
       /\ Selectable(req) = {} /\ easy =>
            \A v \in Serving : ~Servable[registry[v].observation][req]

\* The GPUs of an observation that are fit for a requirement.
Fit == [o \in Observations |-> [req \in Requirements |->
  {o.gpus[i].uuid : i \in {k \in DOMAIN o.gpus : GpuServes(req, o.gpus[k])}}]]
\* A gang gets exactly the GPUs it asked for, each fit, over two workers at least,
\* and gets them whenever two workers have a fit GPU and all have enough (unless it asks
\* for one GPU, which is always refused, or for total memory or NCCL, for whose sake no
\* second choice is tried).
GangsServe ==
  \A req \in Requirements, fabric \in Fabrics : req.placement = "multi_node" =>
    LET seen == [w \in Serving |-> registry[w].observation]
        alloc == Gangs[seen][req][fabric]
        fit == [w \in Serving |-> Fit[seen[w]][req]]
        easy == req.count >= 2 /\ ~req.nccl /\ req.total = 0
    IN /\ alloc # None =>
            /\ GpusIn(alloc) = req.count /\ \A w \in Serving : alloc[w] \subseteq fit[w]
            /\ Cardinality({w \in Serving : alloc[w] # {}}) >= 2
       /\ alloc = None /\ easy /\ Serving \subseteq Connected(req, fabric) =>
            \/ Cardinality({w \in Serving : fit[w] # {}}) < 2
            \/ GpusIn(fit) < req.count
=============================================================================
