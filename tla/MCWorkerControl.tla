-------------------------- MODULE MCWorkerControl ---------------------------
(***************************************************************************)
(* Small instance of WorkerControl: a worker of three unequal GPUs, two of *)
(* them joined by NVLink, whose host changes in every way a probe can tell *)
(* (or not tell), and a worker of two GPUs.                                *)
(***************************************************************************)
EXTENDS WorkerControl
CONSTANTS w1, w2

Gpu(uuid, memory, cc, model) == [uuid |-> uuid, memory |-> memory, cc |-> cc, model |-> model]
Three == <<Gpu("g1", 1, 2, "L4"), Gpu("g2", 2, 1, "A100"), Gpu("g3", 2, 2, "A100")>>
Two == <<Gpu("h1", 1, 2, "L4"), Gpu("h2", 2, 2, "H100")>>
Good == [nvml |-> FALSE, smi |-> TRUE, gpus |-> Three, topology |-> {{"g2", "g3"}},
         dcgm |-> "healthy", nccl |-> [gpus |-> {"g2", "g3"}, valid |-> TRUE]]
Small == [Good EXCEPT !.gpus = Two, !.topology = {}, !.dcgm = "warning", !.nccl = None]

\* In turn: well; failing; a GPU is taken out, and NVML has appeared.
MCCondition == [w \in {w1, w2} |->
  IF w = w1
    THEN {Good, [Good EXCEPT !.dcgm = "failure"],
          [Good EXCEPT !.gpus = SubSeq(Three, 1, 2), !.nvml = TRUE, !.nccl = None]}
    ELSE {Small}]
MCOrder == <<w1, w2>>

AnyGpu == [count |-> 1, memory |-> 0, total |-> 0, cc |-> None, models |-> {},
        placement |-> "any", nccl |-> FALSE, gpuDirect |-> FALSE]
MCRequirements ==
  {AnyGpu, [AnyGpu EXCEPT !.count = 2, !.cc = 2], [AnyGpu EXCEPT !.count = 2, !.total = 4],
   [AnyGpu EXCEPT !.models = {"A100", "H100"}, !.memory = 2],
   [AnyGpu EXCEPT !.count = 2, !.placement = "same_nvlink_domain"],
   [AnyGpu EXCEPT !.count = 2, !.memory = 2, !.nccl = TRUE],
   [AnyGpu EXCEPT !.gpuDirect = TRUE],
   [AnyGpu EXCEPT !.placement = "multi_node"],
   [AnyGpu EXCEPT !.count = 2, !.placement = "multi_node", !.models = {"A100"}],
   [AnyGpu EXCEPT !.count = 4, !.placement = "multi_node", !.cc = 1],
   [AnyGpu EXCEPT !.count = 3, !.placement = "multi_node", !.cc = 2, !.gpuDirect = TRUE]}
\* w2 is in service since an earlier run; w1 is provisioned or not known.
MCStores ==
  {[w \in {w1, w2} |->
     IF w = w2 THEN [state |-> "limited", healthy |-> TRUE, observation |-> Probe(w2, Small, 0)]
     ELSE r] : r \in {None, Provisioned}}
MCMaxToken == [w \in {w1, w2} |-> IF w = w1 THEN 2 ELSE 0]
MCFabrics == {[rdma |-> {w1, w2}, gpuDirect |-> {w1}], [rdma |-> {w1, w2}, gpuDirect |-> {w1, w2}]}
=============================================================================
