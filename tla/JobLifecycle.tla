---------------------------- MODULE JobLifecycle ----------------------------
(***************************************************************************)
(* What the scheduler promises its callers, without queue order, capacity, *)
(* power, GPUs or time: a job has at most one holder, only its holder can  *)
(* finish it, a finished job stays finished, and no lease is held forever. *)
(***************************************************************************)
CONSTANTS Job, Worker, Nobody

VARIABLES state, holder

vars == <<state, holder>>

Init == state = [j \in Job |-> "absent"] /\ holder = [j \in Job |-> Nobody]

Accept(j) ==
  /\ state[j] = "absent"
  /\ state' = [state EXCEPT ![j] = "queued"]
  /\ UNCHANGED holder

Grant(j, w) ==
  /\ state[j] = "queued"
  /\ state' = [state EXCEPT ![j] = "leased"]
  /\ holder' = [holder EXCEPT ![j] = w]

\* Any leased jobs go back to the queue: a requeue, or a recovery of many.
TakeBack(S) ==
  /\ \A j \in S : state[j] = "leased"
  /\ state' = [j \in Job |-> IF j \in S THEN "queued" ELSE state[j]]
  /\ holder' = [j \in Job |-> IF j \in S THEN Nobody ELSE holder[j]]

Finish(j, w, outcome) ==
  /\ state[j] = "leased" /\ holder[j] = w
  /\ state' = [state EXCEPT ![j] = outcome]
  /\ holder' = [holder EXCEPT ![j] = Nobody]

Next ==
  \/ \E j \in Job : Accept(j)
  \/ \E j \in Job, w \in Worker : Grant(j, w)
  \/ \E S \in SUBSET Job : TakeBack(S)
  \/ \E j \in Job, w \in Worker, outcome \in {"completed", "failed"} : Finish(j, w, outcome)

Spec == Init /\ [][Next]_vars

\* A held job is in the end finished or taken back.
LetGo(j) ==
  \/ \E S \in SUBSET Job : j \in S /\ TakeBack(S)
  \/ \E w \in Worker, outcome \in {"completed", "failed"} : Finish(j, w, outcome)
FairSpec == Spec /\ \A j \in Job : WF_vars(LetGo(j))
=============================================================================
