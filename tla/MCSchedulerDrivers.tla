------------------------- MODULE MCSchedulerDrivers -------------------------
(***************************************************************************)
(* Small instance of SchedulerDrivers.  Job 1 is wide, draws power and     *)
(* needs both GPUs; job 2 is the most important and needs the most memory; *)
(* job 3 needs no memory; 2 and 3 need one GPU each.  w1 has both GPUs.    *)
(***************************************************************************)
EXTENDS SchedulerDrivers, FiniteSetsExt

CONSTANTS w1, w2, g1, g2

SlotsOf == <<2, 1, 1>>
MemoryOf == <<1, 2, 0>>
PowerOf == <<1, 0, 0>>

MCResource == {"slots", "memory"}
Capacity(slots, memory) == [r \in MCResource |-> IF r = "slots" THEN slots ELSE memory]
MCDemand ==
  [S \in SUBSET Job |->
     [r \in MCResource |->
        MapThenSumSet(LAMBDA j : IF r = "slots" THEN SlotsOf[j] ELSE MemoryOf[j], S)]]
MCPower == [S \in SUBSET Job |-> MapThenSumSet(LAMBDA j : PowerOf[j], S)]
MCSupports == [w \in Worker |-> IF w = w1 THEN Job ELSE Job \ {2}]
MCPriority == [j \in Job |-> IF j = 2 THEN 1 ELSE 0]

\* w1 is observed now with more memory, now with more slots, and the pool of all
\* workers now with more slots, now with power but nobody who can do job 2.
MCOffer ==
  [w \in Worker |-> IF w = w1 THEN {Capacity(2, 2), Capacity(3, 1)} ELSE {Capacity(2, 1)}]
MCPoolOffer ==
  {[total |-> Capacity(3, 2), largest |-> Capacity(2, 2), supports |-> Job, watts |-> 0],
   [total |-> Capacity(2, 2), largest |-> Capacity(2, 2), supports |-> {1, 3}, watts |-> 1]}

\* gpu_aware has no power to spend: it leases jobs 2 and 3 only.
MCNeeds == <<2, 1, 1>>
MCAdmissible ==
  [w \in Worker |-> [j \in Job |->
     IF w = w1 THEN {S \in SUBSET Gpu : Cardinality(S) = MCNeeds[j]} ELSE {}]]
=============================================================================
