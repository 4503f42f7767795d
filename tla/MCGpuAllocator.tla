--------------------------- MODULE MCGpuAllocator ---------------------------
(***************************************************************************)
(* Small instances of GpuAllocator: two workers, one with two GPUs; one    *)
(* process or two over one store, with updates that may fail or do not.    *)
(***************************************************************************)
EXTENDS GpuAllocator
CONSTANTS w1, w2, p1, p2
MCHost == <<w1, w2, w2>>
OneAndTwo == {[processes |-> {p1, p2}, mayFail |-> TRUE],
              [processes |-> {p1}, mayFail |-> TRUE],
              [processes |-> {p1, p2}, mayFail |-> FALSE]}
JustOne == {[processes |-> {p1}, mayFail |-> FALSE]}
=============================================================================
