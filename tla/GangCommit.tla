----------------------------- MODULE GangCommit -----------------------------
(***************************************************************************)
(* What a caller relies on when a gang of workers runs one job: each member*)
(* starts at most once and only while the gang is open, and the gang is    *)
(* completed, or its task reported completed, only if every member has     *)
(* succeeded ("launch every allocation member ... and close the allocation *)
(* atomically", distributed_execution.py).  A gang may be reported although*)
(* its time ran out meanwhile.                                             *)
(***************************************************************************)
CONSTANTS Gang, Worker

VARIABLES
  members,        \* per gang: its workers; none before it is formed
  progress,       \* per gang and worker
  outcome,        \* per gang
  reported        \* gangs whose task was reported completed

gcvars == <<members, progress, outcome, reported>>

Init ==
  /\ members = [a \in Gang |-> {}]
  /\ progress = [a \in Gang |-> [w \in Worker |-> "idle"]]
  /\ outcome = [a \in Gang |-> "open"]
  /\ reported = {}

Form(a, S) ==
  /\ members[a] = {} /\ S # {}
  /\ members' = [members EXCEPT ![a] = S]
  /\ UNCHANGED <<progress, outcome, reported>>

Start(a, w) ==
  /\ outcome[a] = "open" /\ w \in members[a] /\ progress[a][w] = "idle"
  /\ progress' = [progress EXCEPT ![a][w] = "running"]
  /\ UNCHANGED <<members, outcome, reported>>

End(a, w, result) ==
  /\ progress[a][w] = "running"
  /\ progress' = [progress EXCEPT ![a][w] = result]
  /\ UNCHANGED <<members, outcome, reported>>

Succeeded(a) == members[a] # {} /\ \A w \in members[a] : progress[a][w] = "succeeded"
MayReport == reported' = reported \/ \E a \in Gang : Succeeded(a) /\ reported' = reported \cup {a}

Complete(a) ==
  /\ outcome[a] = "open" /\ Succeeded(a)
  /\ outcome' = [outcome EXCEPT ![a] = "completed"]
  /\ MayReport
  /\ UNCHANGED <<members, progress>>

\* Expiry closes several gangs at once, or none.
Abandon(S) ==
  /\ \A a \in S : outcome[a] = "open" /\ members[a] # {}
  /\ outcome' = [a \in Gang |-> IF a \in S THEN "closed" ELSE outcome[a]]
  /\ MayReport
  /\ UNCHANGED <<members, progress>>

Next ==
  \/ \E a \in Gang, S \in SUBSET Worker : Form(a, S)
  \/ \E a \in Gang, w \in Worker :
       \/ Start(a, w)
       \/ \E result \in {"succeeded", "failed"} : End(a, w, result)
  \/ \E a \in Gang : Complete(a)
  \/ \E S \in SUBSET Gang : Abandon(S)

Spec == Init /\ [][Next]_gcvars
=============================================================================
