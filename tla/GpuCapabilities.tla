-------------------------- MODULE GpuCapabilities ---------------------------
(***************************************************************************)
(* What a worker's GPUs are good for: the observation a probe makes of a   *)
(* host (gpu_infrastructure.py, gpu_topology.py), the capabilities derived *)
(* from it and the admission of a workload (gpu_capabilities.py), and the  *)
(* selections built on it: on one worker (gpu_scheduler.py,                *)
(* gpu_placement.py) and over several (distributed_gpu_scheduler.py).      *)
(*                                                                         *)
(* Everything here is a pure function of its arguments.  A compute         *)
(* capability is its place in their order, 0 for one that cannot be parsed;*)
(* digests and telemetry that decides nothing are left out.                *)
(***************************************************************************)
EXTENDS Integers, Sequences, FiniteSets, FiniteSetsExt, SequencesExt

CONSTANT None

Uuids(gpus) == {gpus[i].uuid : i \in DOMAIN gpus}
Memory(gpus, S) ==
  MapThenSumSet(LAMBDA i : gpus[i].memory, {i \in DOMAIN gpus : gpus[i].uuid \in S})
\* No total asked for is always there.
HasMemory(req, gpus, S) == req.total = 0 \/ Memory(gpus, S) >= req.total

-----------------------------------------------------------------------------
(* Observation                                                             *)

\* NVML sees neither the topology nor DCGM.  Evidence of a collective test is added
\* by the observer a deployment gives its agent.
ProbeNvml(w, host, t) ==
  [worker |-> w, gpus |-> host.gpus, topology |-> None, dcgm |-> FALSE,
   health |-> "unknown", nccl |-> host.nccl, at |-> t]
\* A dcgmi that does not answer counts as absent, one whose check fails as silent.
ProbeSmi(w, host, t) ==
  [worker |-> w, gpus |-> host.gpus, topology |-> host.topology,
   dcgm |-> host.dcgm # "absent",
   health |-> IF host.dcgm \in {"healthy", "warning", "failure"} THEN host.dcgm ELSE "unknown",
   nccl |-> host.nccl, at |-> t]
\* NVML is preferred; nvidia-smi raises when there is no GPU or when its topology
\* cannot be read or names a GPU that the inventory lacks.
Probe(w, host, t) ==
  IF host.nvml /\ host.gpus # <<>> THEN ProbeNvml(w, host, t)
  ELSE IF host.smi /\ host.gpus # <<>> /\ host.topology # None
            /\ UNION host.topology \subseteq Uuids(host.gpus)
    THEN ProbeSmi(w, host, t)
    ELSE None

-----------------------------------------------------------------------------
(* Capabilities                                                            *)

HealthState(o) ==
  CASE o.health = "healthy" -> "verified" [] o.health = "warning" -> "degraded"
    [] o.health = "failure" -> "failed" [] OTHER -> "observed"
BaseState(g) == IF g.memory > 0 /\ g.cc > 0 THEN "verified" ELSE "failed"
NcclState(o, g) ==
  IF o.nccl = None \/ g.uuid \notin o.nccl.gpus THEN "observed"
  ELSE IF o.nccl.valid THEN "verified" ELSE "failed"

\* One record per GPU.  Evidence is dated by the observation; evidence of CUDA is
\* part of every observation.
Derive(o) ==
  [records |-> [i \in DOMAIN o.gpus |->
     [gpu |-> o.gpus[i], base |-> BaseState(o.gpus[i]), health |-> HealthState(o),
      nccl |-> NcclState(o, o.gpus[i])]],
   topology |-> o.topology,
   nccl |-> IF o.nccl = None THEN {} ELSE o.nccl.gpus,
   at |-> o.at]

\* limits[kind]: how old that evidence may be (None: the caller names no limit).
Admissible(state, at, now, limit) ==
  state = "verified" /\ (limit # None => now - at \in 0..limit)

\* The places of the records that the requirement's single-GPU conditions let through.
Candidates(req, caps, now, limits) ==
  {i \in DOMAIN caps.records :
     LET r == caps.records[i]
     IN /\ r.gpu.memory >= req.memory
        /\ req.cc # None => r.gpu.cc >= req.cc /\ r.gpu.cc # 0
        /\ req.models # {} => r.gpu.model \in req.models
        /\ Admissible(r.base, caps.at, now, limits.base)}

\* Every pair is joined by NVLink; topology is the set of such pairs.
SameNvlinkDomain(topology, S) ==
  S # {} /\ \A g, h \in S : g # h => {g, h} \in topology

\* The choices of k candidates out of C, as increasing sequences of their places.
Groups(C, k) == {f \in [1..k -> C] : \A i, j \in 1..k : i < j => f[i] < f[j]}
Precedes(f, g) == \E i \in DOMAIN f : f[i] < g[i] /\ \A j \in 1..i - 1 : f[j] = g[j]
FirstOf(S) == CHOOSE f \in S : \A g \in S \ {f} : Precedes(f, g)

\* The GPUs of the first group that may be used: the first candidates, or the
\* first group within one NVLink domain.
GroupGpus(caps, f) == {caps.records[f[i]].gpu.uuid : i \in DOMAIN f}
UsableGroups(req, caps, C) ==
  {f \in Groups(C, req.count) :
     req.placement = "same_nvlink_domain" =>
       caps.topology # None /\ SameNvlinkDomain(caps.topology, GroupGpus(caps, f))}
SelectedBy(req, caps, C) ==
  LET fit == UsableGroups(req, caps, C)
  IN IF fit = {} THEN {} ELSE GroupGpus(caps, FirstOf(fit))

\* What is asked of the selected GPUs together; no other group is tried.
GroupFits(req, caps, S, now, limits) ==
  LET chosen == {i \in DOMAIN caps.records : caps.records[i].gpu.uuid \in S}
  IN /\ HasMemory(req, [i \in DOMAIN caps.records |-> caps.records[i].gpu], S)
     /\ limits.health # None =>
          \A i \in chosen : Admissible(caps.records[i].health, caps.at, now, limits.health)
     /\ req.nccl =>
          /\ \A i \in chosen : Admissible(caps.records[i].nccl, caps.at, now, limits.nccl)
          /\ caps.nccl = S
     /\ ~req.gpuDirect     \* no caller derives capabilities with network evidence

\* The GPUs admitted; none when the workload is refused.
Admit(req, caps, now, limits) ==
  LET S == SelectedBy(req, caps, Candidates(req, caps, now, limits))
  IN IF S # {} /\ GroupFits(req, caps, S, now, limits) THEN S ELSE {}

-----------------------------------------------------------------------------
(* Selections                                                              *)

NoLimits == [base |-> None, health |-> None, nccl |-> None]

SelectGpus(o, req, used, now) ==
  LET caps == Derive(o)
      free == {i \in DOMAIN caps.records : caps.records[i].gpu.uuid \notin used}
  IN Admit(req, [caps EXCEPT !.records = Restrict(@, free)], now, NoLimits)

EvaluatePlacement(req, o) ==
  IF o = None \/ req.placement = "multi_node" THEN {} ELSE Admit(req, Derive(o), 0, NoLimits)

\* DistributedGpuScheduler.allocate over the observations of some workers, `order` being
\* that of all: each worker gives one GPU, then each that gave one another, until there
\* are enough.
LocalRequirement(req) ==
  [count |-> 1, memory |-> req.memory, total |-> 0, cc |-> req.cc, models |-> req.models,
   placement |-> "any", nccl |-> req.nccl, gpuDirect |-> FALSE]
Given(alloc) == UNION {{w} \X alloc[w] : w \in DOMAIN alloc}
GpusIn(alloc) == Cardinality(Given(alloc))
Extend(req, seen, alloc, w) ==
  IF GpusIn(alloc) >= req.count THEN alloc
  ELSE [alloc EXCEPT ![w] = @ \cup SelectGpus(seen[w], LocalRequirement(req), @, 0)]
\* A pass over the workers: each of `part` is asked for a GPU.
Round(req, seen, order, part, alloc) ==
  LET after[i \in 0..Len(order)] ==
        IF i = 0 THEN alloc
        ELSE IF order[i] \in part THEN Extend(req, seen, after[i - 1], order[i])
        ELSE after[i - 1]
  IN after[Len(order)]
FirstRound(req, seen, order) ==
  Round(req, seen, order, {w \in DOMAIN seen : req.nccl => seen[w].nccl # None},
        [w \in DOMAIN seen |-> {}])
NextRound(req, seen, order, alloc) ==
  Round(req, seen, order, {w \in DOMAIN seen : alloc[w] # {}}, alloc)
\* A round that adds nothing is the last; each other round adds a GPU.
Rounds(req, seen, order) ==
  LET round[k \in Nat] ==
        IF k = 0 THEN FirstRound(req, seen, order)
        ELSE NextRound(req, seen, order, round[k - 1])
  IN round[req.count]
Connected(req, fabric) ==
  IF req.gpuDirect THEN fabric.rdma \cap fabric.gpuDirect ELSE fabric.rdma
EnoughMemory(req, seen, alloc) ==
  \/ req.total = 0
  \/ MapThenSumSet(LAMBDA w : Memory(seen[w].gpus, alloc[w]), DOMAIN seen) >= req.total
\* Mutant of AllocateGang: one worker may hold the whole gang.
AllocateAnywhere(req, seen, order, fabric) ==
  LET alloc == Rounds(req, seen, order)
  IN IF /\ Cardinality(DOMAIN seen) >= 2 /\ DOMAIN seen \subseteq Connected(req, fabric)
        /\ GpusIn(alloc) >= req.count
        /\ EnoughMemory(req, seen, alloc)
       THEN alloc ELSE None
AllocateGang(req, seen, order, fabric) ==
  LET alloc == Rounds(req, seen, order)
  IN IF /\ Cardinality(DOMAIN seen) >= 2 /\ DOMAIN seen \subseteq Connected(req, fabric)
        /\ GpusIn(alloc) >= req.count
        /\ Cardinality({w \in DOMAIN alloc : alloc[w] # {}}) >= 2
        /\ EnoughMemory(req, seen, alloc)
       THEN alloc ELSE None

-----------------------------------------------------------------------------
(* What a set of GPUs must be to serve a requirement, said directly         *)

GpuServes(req, g) ==
  /\ g.memory >= req.memory /\ g.memory > 0 /\ g.cc > 0
  /\ req.cc # None => g.cc >= req.cc
  /\ req.models # {} => g.model \in req.models
Serves(req, o, S) ==
  /\ Cardinality(S) = req.count
  /\ S \subseteq {o.gpus[i].uuid : i \in {k \in DOMAIN o.gpus : GpuServes(req, o.gpus[k])}}
  /\ HasMemory(req, o.gpus, S)
  /\ req.placement = "same_nvlink_domain" => o.topology # None /\ SameNvlinkDomain(o.topology, S)
  /\ req.nccl => o.nccl # None /\ o.nccl.valid /\ o.nccl.gpus = S
=============================================================================
