------------------------ MODULE WorkerControl_proofs ------------------------
(***************************************************************************)
(* What WorkerControl keeps for any workers, hosts and order of requests:  *)
(* EvidenceEnrolled, ServiceFollowsReport, PlacementsServe,                *)
(* GangsServe.                                                             *)
(*                                                                         *)
(* The registry is reloaded from its store, and a request may be acted on  *)
(* long after it was sent.  The invariant therefore says of the stored     *)
(* copy what EvidenceEnrolled says of the registry, and of every request   *)
(* on its way that it reports the worker it comes from; it binds the token *)
(* in force to hardware that has been enrolled, which is all that a        *)
(* heartbeat is compared with; and it keeps of every record that its       *)
(* evidence is one of its worker's reports, and shows no failure while the *)
(* worker is in service.                                                   *)
(*                                                                         *)
(* What follows from a report is data: that some group of GPUs is first    *)
(* among those of its size, that a finite set of places can be listed in   *)
(* order and that some worker comes first are each shown by the least      *)
(* number for which they would fail.                                       *)
(*                                                                         *)
(* A gang is what rounds over the workers leave, so its proof is an        *)
(* induction in three places: SelectOne is one worker's turn, RoundDoes    *)
(* what a run of turns does to an allocation (it only grows, and stays as  *)
(* it is only when no worker asked has another fit GPU), and RoundsGive and*)
(* RoundsGiveAll what a run of rounds does: what is given is fit and never *)
(* too much, and each round adds a GPU until there are enough or all are   *)
(* given.                                                                  *)
(***************************************************************************)
EXTENDS WorkerControl, Recursion_proofs, TLAPS

EnrolledRecord(w, r) ==
  r # None /\ r.observation # None => Identity(r.observation) \in enrolled[w]

RegistryEnrolled ==
  /\ registry = [w \in Worker |-> registry[w]]
  /\ \A w \in Worker : IsRecordOf(w, registry[w]) /\ EnrolledRecord(w, registry[w])
SavedEnrolled ==
  /\ saved = [w \in Worker |-> saved[w]]
  /\ \A w \in Worker : IsRecordOf(w, saved[w]) /\ EnrolledRecord(w, saved[w])
TokensEnrolled ==
  /\ access = [w \in Worker |-> access[w]] /\ identity = [w \in Worker |-> identity[w]]
  /\ enrolled = [w \in Worker |-> enrolled[w]]
  /\ \A w \in Worker : access[w] # 0 => identity[w] \in enrolled[w]
\* While a token is in force, the evidence is of the hardware the token was given for.
TokensCurrent ==
  \A w \in Worker :
    registry[w] # None /\ registry[w].observation # None /\ access[w] # 0 =>
      Identity(registry[w].observation) = identity[w]
MailOwn == \A m \in mail : m.worker \in Worker /\ m.seen \in ReportsOf(m.worker)
IssuedCounts == issued \in [Worker -> Nat]

ControlInv ==
  RegistryEnrolled /\ SavedEnrolled /\ TokensEnrolled /\ TokensCurrent /\ MailOwn /\ IssuedCounts

-----------------------------------------------------------------------------
\* A probe that answers reports the worker it ran on.
LEMMA ProbeIsOwn ==
  ASSUME NEW w, NEW host, NEW t, Probe(w, host, t) # None
  PROVE  Probe(w, host, t).worker = w
BY DEF Probe, ProbeNvml, ProbeSmi

LEMMA ControlInitHolds == ControlInit => ControlInv
<1> SUFFICES ASSUME ControlInit PROVE ControlInv  OBVIOUS
<1>1. registry = [w \in Worker |-> registry[w]] /\ \A w \in Worker : IsRecordOf(w, registry[w])
  BY ControlAssumption DEF ControlInit
<1>2. saved = registry  BY DEF ControlInit
<1>3. ASSUME NEW w \in Worker, registry[w] # None, registry[w].observation # None
      PROVE  Identity(registry[w].observation) \in enrolled[w]
  <2>1. w \in Observed \cap {w}  BY <1>3 DEF Observed
  <2>2. enrolled[w] = {Identity(registry[v].observation) : v \in Observed \cap {w}}
    BY DEF ControlInit
  <2> QED  BY <2>1, <2>2
<1>4. \A w \in Worker : EnrolledRecord(w, registry[w])  BY <1>3 DEF EnrolledRecord
<1>5. TokensEnrolled /\ TokensCurrent  BY DEF ControlInit, TokensEnrolled, TokensCurrent
<1>6. MailOwn /\ IssuedCounts  BY DEF ControlInit, MailOwn, IssuedCounts
<1> QED  BY <1>1, <1>2, <1>4, <1>5, <1>6 DEF ControlInv, RegistryEnrolled, SavedEnrolled

\* What an observation makes of its worker.
LEMMA FailedIsOut ==
  ASSUME NEW o, StateBy(o) \in Active
  PROVE  HealthState(o) # "failed"
BY DEF StateBy, Active

\* An observation of enrolled hardware is applied to the record of its worker and to no other.
LEMMA ApplyStep ==
  ASSUME RegistryEnrolled, NEW v \in Worker, NEW o \in ReportsOf(v), Apply(v, o),
         enrolled' = [w \in Worker |-> enrolled'[w]],
         \A w \in Worker : enrolled[w] \subseteq enrolled'[w],
         Identity(o) \in enrolled'[v]
  PROVE  /\ RegistryEnrolled' /\ \A w \in Worker \ {v} : registry'[w] = registry[w]
         /\ IF registry[v] = None THEN registry'[v] = None ELSE registry'[v].observation = o
<1>1. CASE registry[v] = None
  BY <1>1 DEF Apply, RegistryEnrolled, EnrolledRecord
<1>2. CASE registry[v] # None
  <2> DEFINE s == StateBy(o)
             h == StateBy(o) \in Active
             r == [state |-> s, healthy |-> h, observation |-> o]
  <2>1. registry' = [registry EXCEPT ![v] = r]  BY <1>2 DEF Apply
  <2>7. s \in Active => HealthState(o) # "failed"  BY FailedIsOut
  <2> HIDE DEF s, h
  <2>2. r.observation = o /\ IsRecord(r) /\ r.state = s  BY DEF IsRecord
  <2>3. IsRecordOf(v, r)  BY <2>2, <2>7 DEF IsRecordOf
  <2> HIDE DEF r
  <2>4. registry'[v] = r /\ \A w \in Worker \ {v} : registry'[w] = registry[w]
    BY <2>1 DEF RegistryEnrolled
  <2>5. registry' = [w \in Worker |-> registry'[w]]  BY <2>1 DEF RegistryEnrolled
  <2>6. ASSUME NEW w \in Worker
        PROVE  IsRecordOf(w, registry'[w])
               /\ (registry'[w] # None /\ registry'[w].observation # None =>
                     Identity(registry'[w].observation) \in enrolled'[w])
    <3>1. CASE w = v  BY <3>1, <2>2, <2>3, <2>4
    <3>2. CASE w # v  BY <3>2, <2>4 DEF RegistryEnrolled, EnrolledRecord
    <3> QED  BY <3>1, <3>2
  <2> QED  BY <1>2, <2>2, <2>4, <2>5, <2>6 DEF RegistryEnrolled, EnrolledRecord
<1> QED  BY <1>1, <1>2

\* A change of a worker's state alone keeps its evidence.
LEMMA StateChange ==
  ASSUME RegistryEnrolled, NEW v \in Worker, registry[v] # None, NEW state, state \notin Active,
         registry' = [registry EXCEPT ![v].state = state], enrolled' = enrolled
  PROVE  /\ RegistryEnrolled'
         /\ registry'[v].state = state /\ registry'[v].observation = registry[v].observation
         /\ \A w \in Worker \ {v} : registry'[w] = registry[w]
<1> DEFINE r == [registry[v] EXCEPT !.state = state]
<1>1. registry' = [registry EXCEPT ![v] = r]  OBVIOUS
<1>2. IsRecord(registry[v])  BY DEF RegistryEnrolled, IsRecordOf
<1>3. r = [state |-> state, healthy |-> registry[v].healthy, observation |-> registry[v].observation]
  BY <1>2 DEF IsRecord
<1> HIDE DEF r
<1>4. r.state = state /\ r.observation = registry[v].observation /\ IsRecord(r)
  BY <1>3 DEF IsRecord
<1>5. registry'[v] = r /\ \A w \in Worker \ {v} : registry'[w] = registry[w]
  BY <1>1 DEF RegistryEnrolled
<1>6. registry' = [w \in Worker |-> registry'[w]]  BY <1>1 DEF RegistryEnrolled
<1>7. IsRecordOf(v, r) /\ EnrolledRecord(v, r)
  BY <1>4 DEF RegistryEnrolled, IsRecordOf, EnrolledRecord
<1>8. \A w \in Worker : IsRecordOf(w, registry'[w]) /\ EnrolledRecord(w, registry'[w])
  BY <1>5, <1>7 DEF RegistryEnrolled
<1>9. \A w \in Worker : registry'[w] # None /\ registry'[w].observation # None =>
                          Identity(registry'[w].observation) \in enrolled'[w]
  BY <1>8 DEF EnrolledRecord
<1> QED  BY <1>4, <1>5, <1>6, <1>8, <1>9 DEF RegistryEnrolled, EnrolledRecord

-----------------------------------------------------------------------------
\* The claim of ServiceFollowsReport for one step.
ServiceStep ==
  \A w \in Worker :
    /\ access[w] # 0 /\ access'[w] = 0 => ~InService(w)' \/ registry' = saved
    /\ InService(w)' /\ ~InService(w) =>
         \/ registry' = saved
         \/ access'[w] # 0 /\ \E m \in mail \ mail' : m.worker = w

LEMMA ControlInvStep == ControlInv /\ [ControlNext]_wvars => ControlInv' /\ ServiceStep
<1> SUFFICES ASSUME ControlInv, [ControlNext]_wvars PROVE ControlInv' /\ ServiceStep
  OBVIOUS
<1> USE DEF ControlInv
<1>1. ASSUME NEW w \in Worker, NEW kind \in {"register", "heartbeat"},
             NEW c \in Condition[w], Post(w, kind, c)
      PROVE  ControlInv' /\ ServiceStep
  <2>1. UNCHANGED <<access, identity, registry, saved, issued, enrolled>>
    BY <1>1 DEF Post, authority
  <2> DEFINE o == Probe(w, c, 0)
             m == [kind |-> kind, worker |-> w, seen |-> o,
                   token |-> IF kind = "register" THEN 0 ELSE agent[w].token]
  <2>2. o # None /\ mail' = mail \cup {m}  BY <1>1 DEF Post
  <2>3. o \in ReportsOf(w)  BY <2>2 DEF ReportsOf
  <2>4. m.worker = w /\ m.seen = o  OBVIOUS
  <2> HIDE DEF o, m
  <2>5. MailOwn'  BY <2>2, <2>3, <2>4 DEF MailOwn
  <2>6. RegistryEnrolled' /\ SavedEnrolled' /\ TokensEnrolled' /\ TokensCurrent' /\ IssuedCounts'
    BY <2>1 DEF RegistryEnrolled, SavedEnrolled, TokensEnrolled, TokensCurrent, IssuedCounts,
                EnrolledRecord
  <2> QED  BY <2>1, <2>5, <2>6 DEF ServiceStep, InService
<1>2. ASSUME UNCHANGED <<access, identity, registry, saved, issued, enrolled>>,
             mail' \subseteq mail
      PROVE  ControlInv' /\ ServiceStep
  <2>1. /\ RegistryEnrolled' /\ SavedEnrolled' /\ TokensEnrolled' /\ TokensCurrent'
        /\ IssuedCounts' /\ MailOwn'
    BY <1>2 DEF RegistryEnrolled, SavedEnrolled, TokensEnrolled, TokensCurrent, IssuedCounts,
                EnrolledRecord, MailOwn
  <2> QED  BY <1>2, <2>1 DEF ServiceStep, InService
<1>3. ASSUME NEW m \in mail, HandleRegister(m)
      PROVE  ControlInv' /\ ServiceStep
  <2> DEFINE v == m.worker
  <2>1. v \in Worker /\ m.seen \in ReportsOf(v)  BY DEF MailOwn
  <2>2. /\ issued' = [issued EXCEPT ![v] = @ + 1]
        /\ access' = [access EXCEPT ![v] = issued'[v]]
        /\ identity' = [identity EXCEPT ![v] = Identity(m.seen)]
        /\ enrolled' = [enrolled EXCEPT ![v] = @ \cup {Identity(m.seen)}]
        /\ Apply(v, m.seen) /\ mail' = mail \ {m} /\ saved' = saved
    BY <1>3 DEF HandleRegister, Answer
  <2> HIDE DEF v
  <2>3. IssuedCounts' /\ issued'[v] # 0  BY <2>1, <2>2 DEF IssuedCounts
  <2>4. /\ enrolled' = [w \in Worker |-> enrolled'[w]]
        /\ \A w \in Worker : enrolled[w] \subseteq enrolled'[w]
        /\ Identity(m.seen) \in enrolled'[v]
    BY <2>1, <2>2 DEF TokensEnrolled
  <2>5. /\ RegistryEnrolled' /\ \A w \in Worker \ {v} : registry'[w] = registry[w]
        /\ IF registry[v] = None THEN registry'[v] = None ELSE registry'[v].observation = m.seen
    BY <2>1, <2>2, <2>4, ApplyStep
  <2>6. SavedEnrolled'  BY <2>2, <2>4 DEF SavedEnrolled, EnrolledRecord
  <2>7. access' = [w \in Worker |-> access'[w]] /\ identity' = [w \in Worker |-> identity'[w]]
    <3> DEFINE token == issued'[v]
               hardware == Identity(m.seen)
    <3>1. access' = [access EXCEPT ![v] = token] /\ identity' = [identity EXCEPT ![v] = hardware]
      BY <2>2
    <3> HIDE DEF token, hardware
    <3>2. access = [w \in Worker |-> access[w]] /\ identity = [w \in Worker |-> identity[w]]
      BY DEF TokensEnrolled
    <3>3. access' = [w \in Worker |-> access'[w]]  BY <3>1, <3>2
    <3>4. identity' = [w \in Worker |-> identity'[w]]  BY <3>1, <3>2
    <3> QED  BY <3>3, <3>4
  <2>8. \A w \in Worker : access'[w] # 0 => identity'[w] \in enrolled'[w]
    <3> SUFFICES ASSUME NEW w \in Worker, access'[w] # 0 PROVE identity'[w] \in enrolled'[w]
      OBVIOUS
    <3>1. CASE w = v  BY <3>1, <2>1, <2>2, <2>4 DEF TokensEnrolled
    <3>2. CASE w # v  BY <3>2, <2>1, <2>2, <2>4 DEF TokensEnrolled
    <3> QED  BY <3>1, <3>2
  <2>9. MailOwn'  BY <2>2 DEF MailOwn
  <2>10. access'[v] # 0 /\ \A w \in Worker \ {v} : access'[w] = access[w]
    BY <2>1, <2>2, <2>3 DEF TokensEnrolled
  <2>11. m \in mail \ mail' /\ m.worker = v  BY <2>2 DEF v
  <2>12. ServiceStep
    <3> SUFFICES ASSUME NEW w \in Worker
                 PROVE  /\ access[w] # 0 /\ access'[w] = 0 => ~InService(w)' \/ registry' = saved
                        /\ InService(w)' /\ ~InService(w) =>
                             \/ registry' = saved
                             \/ access'[w] # 0 /\ \E k \in mail \ mail' : k.worker = w
      BY DEF ServiceStep
    <3>1. CASE w = v  BY <3>1, <2>10, <2>11
    <3>2. CASE w # v  BY <3>2, <2>5, <2>10 DEF InService
    <3> QED  BY <3>1, <3>2
  <2>13. identity'[v] = Identity(m.seen) /\ \A w \in Worker \ {v} : identity'[w] = identity[w]
    BY <2>1, <2>2 DEF TokensEnrolled
  <2>14. TokensCurrent'
    <3> SUFFICES ASSUME NEW w \in Worker, registry'[w] # None,
                        registry'[w].observation # None, access'[w] # 0
                 PROVE  Identity(registry'[w].observation) = identity'[w]
      BY DEF TokensCurrent
    <3>1. CASE w = v  BY <3>1, <2>5, <2>13
    <3>2. CASE w # v  BY <3>2, <2>5, <2>10, <2>13 DEF TokensCurrent
    <3> QED  BY <3>1, <3>2
  <2> QED  BY <2>3, <2>4, <2>5, <2>6, <2>7, <2>8, <2>9, <2>12, <2>14 DEF TokensEnrolled
<1>4. ASSUME NEW m \in mail, HandleHeartbeat(m)
      PROVE  ControlInv' /\ ServiceStep
  <2> DEFINE v == m.worker
  <2>1. v \in Worker /\ m.seen \in ReportsOf(v)  BY DEF MailOwn
  <2>2. /\ IF Authorizes(m) THEN Apply(v, m.seen) ELSE registry' = registry
        /\ mail' = mail \ {m}
        /\ UNCHANGED <<access, identity, saved, issued, enrolled>>
    BY <1>4 DEF HandleHeartbeat, Answer, authority
  <2>3. SavedEnrolled' /\ TokensEnrolled' /\ IssuedCounts' /\ MailOwn'
    BY <2>2 DEF SavedEnrolled, TokensEnrolled, IssuedCounts, EnrolledRecord, MailOwn
  <2>4. CASE ~Authorizes(m)
    BY <2>2, <2>3, <2>4 DEF RegistryEnrolled, EnrolledRecord, TokensCurrent, ServiceStep, InService
  <2>5. CASE Authorizes(m)
    <3>1. access[v] # 0 /\ identity[v] = Identity(m.seen)  BY <2>5 DEF Authorizes
    <3>2. Identity(m.seen) \in enrolled'[v]  BY <2>1, <2>2, <3>1 DEF TokensEnrolled
    <3>3. /\ enrolled' = [w \in Worker |-> enrolled'[w]]
          /\ \A w \in Worker : enrolled[w] \subseteq enrolled'[w]
      BY <2>2 DEF TokensEnrolled
    <3>4. Apply(v, m.seen)  BY <2>2, <2>5
    <3> HIDE DEF v
    <3>5. /\ RegistryEnrolled' /\ \A w \in Worker \ {v} : registry'[w] = registry[w]
          /\ IF registry[v] = None THEN registry'[v] = None ELSE registry'[v].observation = m.seen
      BY <2>1, <3>2, <3>3, <3>4, ApplyStep
    <3>6. m \in mail \ mail' /\ m.worker = v  BY <2>2 DEF v
    <3>7. ServiceStep
      <4> SUFFICES ASSUME NEW w \in Worker
                   PROVE  InService(w)' /\ ~InService(w) =>
                            access'[w] # 0 /\ \E k \in mail \ mail' : k.worker = w
        BY <2>2 DEF ServiceStep
      <4>1. CASE w = v  BY <4>1, <2>2, <3>1, <3>6
      <4>2. CASE w # v  BY <4>2, <3>5 DEF InService
      <4> QED  BY <4>1, <4>2
    <3>8. TokensCurrent'
      <4> SUFFICES ASSUME NEW w \in Worker, registry'[w] # None,
                          registry'[w].observation # None, access'[w] # 0
                   PROVE  Identity(registry'[w].observation) = identity'[w]
        BY DEF TokensCurrent
      <4>1. CASE w = v  BY <4>1, <2>2, <3>1, <3>5
      <4>2. CASE w # v  BY <4>2, <2>2, <3>5 DEF TokensCurrent
      <4> QED  BY <4>1, <4>2
    <3> QED  BY <2>3, <3>5, <3>7, <3>8
  <2> QED  BY <2>4, <2>5
<1>5. ASSUME NEW v \in Worker, Revoke(v)
      PROVE  ControlInv' /\ ServiceStep
  <2>1. /\ access' = [access EXCEPT ![v] = 0] /\ identity' = [identity EXCEPT ![v] = None]
        /\ registry' = IF registry[v] = None THEN registry
                       ELSE [registry EXCEPT ![v].state = "offline"]
        /\ UNCHANGED <<mail, saved, issued, enrolled>>
    BY <1>5 DEF Revoke
  <2>2. RegistryEnrolled' /\ ~InService(v)' /\ \A w \in Worker \ {v} : registry'[w] = registry[w]
    <3>1. CASE registry[v] = None
      BY <2>1, <3>1 DEF RegistryEnrolled, EnrolledRecord, InService
    <3>2. CASE registry[v] # None
      <4>1. registry' = [registry EXCEPT ![v].state = "offline"]  BY <2>1, <3>2
      <4>3. "offline" \notin Active  BY DEF Active
      <4>2. /\ RegistryEnrolled' /\ registry'[v].state = "offline"
            /\ \A w \in Worker \ {v} : registry'[w] = registry[w]
        BY <2>1, <3>2, <4>1, <4>3, StateChange
      <4> QED  BY <4>2 DEF InService, Active
    <3> QED  BY <3>1, <3>2
  <2>3. SavedEnrolled' /\ IssuedCounts' /\ MailOwn'
    BY <2>1 DEF SavedEnrolled, EnrolledRecord, IssuedCounts, MailOwn
  <2>4. access'[v] = 0 /\ \A w \in Worker \ {v} : access'[w] = access[w] /\ identity'[w] = identity[w]
    BY <2>1 DEF TokensEnrolled
  <2>5. TokensEnrolled'  BY <2>1, <2>4 DEF TokensEnrolled
  <2>6. ServiceStep  BY <2>2, <2>4 DEF ServiceStep, InService
  <2>7. TokensCurrent'  BY <2>2, <2>4 DEF TokensCurrent
  <2> QED  BY <2>2, <2>3, <2>5, <2>6, <2>7
<1>6. ASSUME NEW v \in Worker, Provision(v)
      PROVE  ControlInv' /\ ServiceStep
  <2>1. registry' = [registry EXCEPT ![v] = Provisioned]
        /\ UNCHANGED <<mail, access, identity, saved, issued, enrolled>>
    BY <1>6 DEF Provision, authority
  <2>2. Provisioned.observation = None /\ Provisioned.state = "unverified" /\ IsRecord(Provisioned)
    BY DEF Provisioned, IsRecord
  <2>3. registry'[v] = Provisioned /\ \A w \in Worker \ {v} : registry'[w] = registry[w]
    BY <2>1 DEF RegistryEnrolled
  <2>4. RegistryEnrolled'
    <3>1. registry' = [w \in Worker |-> registry'[w]]  BY <2>1 DEF RegistryEnrolled
    <3>2. \A w \in Worker : IsRecordOf(w, registry'[w])
      BY <2>2, <2>3 DEF RegistryEnrolled, IsRecordOf
    <3>3. \A w \in Worker : registry'[w] # None /\ registry'[w].observation # None =>
                              Identity(registry'[w].observation) \in enrolled'[w]
      BY <2>1, <2>2, <2>3 DEF RegistryEnrolled, EnrolledRecord
    <3> QED  BY <3>1, <3>2, <3>3 DEF RegistryEnrolled, EnrolledRecord
  <2>5. SavedEnrolled' /\ TokensEnrolled' /\ IssuedCounts' /\ MailOwn'
    BY <2>1 DEF SavedEnrolled, TokensEnrolled, EnrolledRecord, IssuedCounts, MailOwn
  <2>6. ~InService(v)'  BY <2>2, <2>3 DEF InService, Active
  <2>7. ServiceStep  BY <2>1, <2>3, <2>6 DEF ServiceStep, InService
  <2>8. TokensCurrent'  BY <2>1, <2>2, <2>3 DEF TokensCurrent
  <2> QED  BY <2>4, <2>5, <2>7, <2>8
<1>7. ASSUME NEW v \in Worker, MarkUnavailable(v)
      PROVE  ControlInv' /\ ServiceStep
  <2>1. /\ registry[v] # None /\ registry' = [registry EXCEPT ![v].state = "temporary"]
        /\ UNCHANGED <<mail, access, identity, saved, issued, enrolled>>
    BY <1>7 DEF MarkUnavailable, authority
  <2>2. /\ RegistryEnrolled' /\ registry'[v].state = "temporary"
        /\ registry'[v].observation = registry[v].observation
        /\ \A w \in Worker \ {v} : registry'[w] = registry[w]
    <3>1. "temporary" \notin Active  BY DEF Active
    <3> QED  BY <2>1, <3>1, StateChange
  <2>3. SavedEnrolled' /\ TokensEnrolled' /\ IssuedCounts' /\ MailOwn'
    BY <2>1 DEF SavedEnrolled, TokensEnrolled, EnrolledRecord, IssuedCounts, MailOwn
  <2>4. ~InService(v)'  BY <2>2 DEF InService, Active
  <2>5. ServiceStep  BY <2>1, <2>2, <2>4 DEF ServiceStep, InService
  <2>6. TokensCurrent'  BY <2>1, <2>2 DEF TokensCurrent
  <2> QED  BY <2>2, <2>3, <2>5, <2>6
<1>8. CASE Save
  <2>1. saved' = registry /\ UNCHANGED <<mail, access, identity, registry, issued, enrolled>>
    BY <1>8 DEF Save, authority
  <2> QED  BY <2>1 DEF RegistryEnrolled, SavedEnrolled, TokensEnrolled, TokensCurrent,
                      EnrolledRecord, IssuedCounts, MailOwn, ServiceStep, InService
<1>9. CASE Restart
  <2>1. /\ registry' = saved /\ UNCHANGED <<mail, saved, issued, enrolled>>
        /\ access' = [w \in Worker |-> 0] /\ identity' = [w \in Worker |-> None]
    BY <1>9 DEF Restart
  <2> QED  BY <2>1 DEF RegistryEnrolled, SavedEnrolled, TokensEnrolled, TokensCurrent,
                      EnrolledRecord, IssuedCounts, MailOwn, ServiceStep
<1>10. ASSUME NEW w \in Worker, GiveUp(w)
       PROVE  ControlInv' /\ ServiceStep
  <2>1. UNCHANGED <<access, identity, registry, saved, issued, enrolled>> /\ mail' = mail
    BY <1>10 DEF GiveUp, authority
  <2> QED  BY <2>1, <1>2
<1>11. ASSUME NEW m \in mail, Lose(m)
       PROVE  ControlInv' /\ ServiceStep
  <2>1. UNCHANGED <<access, identity, registry, saved, issued, enrolled>> /\ mail' \subseteq mail
    BY <1>11 DEF Lose, authority
  <2> QED  BY <2>1, <1>2
<1>12. CASE UNCHANGED wvars
  <2>1. UNCHANGED <<access, identity, registry, saved, issued, enrolled>> /\ mail' = mail
    BY <1>12 DEF wvars, authority
  <2> QED  BY <2>1, <1>2
<1> QED
  BY <1>1, <1>3, <1>4, <1>5, <1>6, <1>7, <1>8, <1>9, <1>10, <1>11, <1>12 DEF ControlNext

LEMMA ControlInvAlways == ControlSpec => []ControlInv
<1>1. ControlInv /\ [ControlNext]_wvars => ControlInv'  BY ControlInvStep
<1> QED  BY ControlInitHolds, <1>1, PTL DEF ControlSpec

-----------------------------------------------------------------------------
\* The registry's evidence is of hardware enrolled for its worker, and of the hardware of the
\* token in force if there is one, in whatever order requests are handled and whatever copy
\* is reloaded (WorkerLifecycleAuthority, WorkerRegistry).
THEOREM EvidenceAlwaysEnrolled == ControlSpec => []EvidenceEnrolled
<1>1. \A w \in Worker : \A o \in ReportsOf(w) : o.worker = w
  BY ProbeIsOwn DEF ReportsOf
<1>2. ControlInv => EvidenceEnrolled
  BY <1>1 DEF ControlInv, RegistryEnrolled, TokensCurrent, EnrolledRecord, IsRecordOf,
              EvidenceEnrolled, Observed
<1> QED  BY ControlInvAlways, <1>2, PTL

\* A worker comes into service by an accepted report of its own or a reload only, and a
\* revoked one leaves it (register, heartbeat, revoke).
THEOREM ServiceAlwaysFollowsReport == ControlSpec => ServiceFollowsReport
<1>1. ControlInv /\ [ControlNext]_wvars => [ServiceStep]_wvars  BY ControlInvStep
<1> QED  BY ControlInvAlways, <1>1, PTL DEF ControlSpec, ServiceFollowsReport, ServiceStep

-----------------------------------------------------------------------------
(* Groups of places                                                        *)

\* f is no later than g as far as their first i members tell.
NoLater(f, g, i) ==
  \/ \A j \in 1..i : f[j] = g[j]
  \/ \E m \in 1..i : f[m] < g[m] /\ \A j \in 1..m - 1 : f[j] = g[j]
FirstTo(S, i) == \E f \in S : \A g \in S : NoLater(f, g, i)

\* Among the groups of one size there is one that is first up to any place: by the least
\* place at which there is none.
LEMMA FirstToEach ==
  ASSUME NEW k \in Nat, NEW S, S \subseteq [1..k -> Nat], S # {}
  PROVE  FirstTo(S, k)
<1> DEFINE Bad == {i \in 0..k : ~FirstTo(S, i)}
<1> SUFFICES Bad = {}  OBVIOUS
<1> SUFFICES ASSUME Bad # {} PROVE FALSE  OBVIOUS
<1>1. PICK i \in Bad : \A j \in Bad : i <= j
  <2>1. Bad \subseteq Nat  OBVIOUS
  <2> HIDE DEF Bad
  <2> QED  BY <2>1, LeastNumber
<1>2. i # 0
  <2>1. \A f, g \in S : NoLater(f, g, 0)  BY DEF NoLater
  <2>2. FirstTo(S, 0)  BY <2>1 DEF FirstTo
  <2> QED  BY <2>2
<1>3. i - 1 \in 0..k /\ i \in 1..k /\ i \in Nat  BY <1>2
<1>4. FirstTo(S, i - 1)  BY <1>1, <1>3
<1>5. PICK f \in S : \A g \in S : NoLater(f, g, i - 1)  BY <1>4 DEF FirstTo
<1> DEFINE Alike == {g \in S : \A j \in 1..i - 1 : f[j] = g[j]}
           T == {g[i] : g \in Alike}
<1>6. T \subseteq Nat /\ T # {}
  <2>1. f \in Alike  OBVIOUS
  <2>2. \A g \in Alike : g \in [1..k -> Nat]  OBVIOUS
  <2> HIDE DEF Alike
  <2>3. \A g \in Alike : g[i] \in Nat  BY <1>3, <2>2
  <2> QED  BY <2>1, <2>3
<1>7. PICK x \in T : \A y \in T : x <= y
  <2> HIDE DEF T
  <2> QED  BY <1>6, LeastNumber
<1>8. PICK h \in Alike : h[i] = x  OBVIOUS
<1>9. ASSUME NEW g \in S PROVE NoLater(h, g, i)
  <2>1. h[i] \in Nat /\ g[i] \in Nat  BY <1>3
  <2>2. CASE g \in Alike
    <3>1. h[i] <= g[i]  BY <1>7, <1>8, <2>2
    <3>2. \A j \in 1..i - 1 : h[j] = g[j]  BY <1>8, <2>2
    <3>3. CASE h[i] = g[i]
      <4>1. \A j \in 1..i : j = i \/ j \in 1..i - 1  BY <1>3
      <4> QED  BY <3>2, <3>3, <4>1 DEF NoLater
    <3>4. CASE h[i] < g[i]
      <4>1. i \in 1..i  BY <1>3
      <4> QED  BY <3>2, <3>4, <4>1 DEF NoLater
    <3> QED  BY <2>1, <3>1, <3>3, <3>4
  <2>3. CASE g \notin Alike
    <3>1. PICK m \in 1..i - 1 : f[m] < g[m] /\ \A j \in 1..m - 1 : f[j] = g[j]
      BY <1>5, <2>3 DEF NoLater
    <3>2. m \in 1..i /\ \A j \in 1..m - 1 : j \in 1..i - 1  BY <1>3
    <3>3. h[m] < g[m] /\ \A j \in 1..m - 1 : h[j] = g[j]  BY <1>8, <3>1, <3>2
    <3> QED  BY <3>2, <3>3 DEF NoLater
  <2> QED  BY <2>2, <2>3
<1>10. FirstTo(S, i)  BY <1>8, <1>9 DEF FirstTo
<1> QED  BY <1>10

\* So FirstOf names one of the groups (admit_gpu_workload takes the first).
LEMMA FirstOfIsOne ==
  ASSUME NEW k \in Nat, NEW S, S \subseteq [1..k -> Nat], S # {}
  PROVE  FirstOf(S) \in S
<1>1. PICK f \in S : \A g \in S : NoLater(f, g, k)  BY FirstToEach DEF FirstTo
<1>2. ASSUME NEW g \in S \ {f} PROVE Precedes(f, g)
  <2>1. f \in [1..k -> Nat] /\ g \in [1..k -> Nat] /\ f # g  OBVIOUS
  <2>2. ~\A j \in 1..k : f[j] = g[j]  BY <2>1
  <2>3. DOMAIN f = 1..k  BY <2>1
  <2> QED  BY <1>1, <2>2, <2>3 DEF NoLater, Precedes
<1>3. \E e \in S : \A g \in S \ {e} : Precedes(e, g)  BY <1>2
<1> QED  BY <1>3 DEF FirstOf

-----------------------------------------------------------------------------
(* What is admitted                                                        *)

\* An observation has a GPU at each place up to some number, all different.
LEMMA ObservedHost ==
  ASSUME NEW o \in Observations
  PROVE  /\ Len(o.gpus) \in Nat /\ DOMAIN o.gpus = 1..Len(o.gpus)
         /\ o.gpus = [i \in 1..Len(o.gpus) |-> o.gpus[i]]
         /\ \A i, j \in DOMAIN o.gpus : i # j => o.gpus[i].uuid # o.gpus[j].uuid
         /\ o.at = 0 /\ o # None
<1>1. PICK w \in Worker : o \in ReportsOf(w)  BY DEF Observations
<1>2. PICK c \in Condition[w] : o = Probe(w, c, 0) /\ o # None  BY <1>1 DEF ReportsOf
<1>3. o.gpus = c.gpus /\ o.at = 0  BY <1>2 DEF Probe, ProbeNvml, ProbeSmi
<1> DEFINE s == c.gpus
<1>4. s \in Seq(ToSet(s)) /\ \A i, j \in DOMAIN s : i # j => s[i].uuid # s[j].uuid
  BY HostAssumption
<1>5. ASSUME NEW T, NEW q \in Seq(T)
      PROVE  Len(q) \in Nat /\ DOMAIN q = 1..Len(q) /\ q = [i \in 1..Len(q) |-> q[i]]
  BY <1>5
<1> HIDE DEF s
<1>6. Len(s) \in Nat /\ DOMAIN s = 1..Len(s) /\ s = [i \in 1..Len(s) |-> s[i]]
  BY <1>4, <1>5
<1>7. o.gpus = s  BY <1>3 DEF s
<1> QED  BY <1>2, <1>3, <1>4, <1>6, <1>7

\* One record is derived for each GPU.
LEMMA DerivedRecords ==
  ASSUME NEW o \in Observations
  PROVE  /\ DOMAIN Derive(o).records = DOMAIN o.gpus
         /\ DOMAIN o.gpus \subseteq Nat
         /\ \A i \in DOMAIN o.gpus : Derive(o).records[i].gpu = o.gpus[i]
         /\ \A i \in DOMAIN o.gpus : Derive(o).records[i].base = BaseState(o.gpus[i])
         /\ \A i \in DOMAIN o.gpus : Derive(o).records[i].health = HealthState(o)
         /\ \A i \in DOMAIN o.gpus : Derive(o).records[i].nccl = NcclState(o, o.gpus[i])
         /\ Derive(o).topology = o.topology /\ Derive(o).at = 0
         /\ [i \in DOMAIN Derive(o).records |-> Derive(o).records[i].gpu] = o.gpus
         /\ Derive(o).nccl = IF o.nccl = None THEN {} ELSE o.nccl.gpus
<1> DEFINE record(i) == [gpu |-> o.gpus[i], base |-> BaseState(o.gpus[i]),
                         health |-> HealthState(o), nccl |-> NcclState(o, o.gpus[i])]
<1>1. /\ DOMAIN o.gpus = 1..Len(o.gpus) /\ o.at = 0 /\ Len(o.gpus) \in Nat
      /\ o.gpus = [i \in 1..Len(o.gpus) |-> o.gpus[i]]
  BY ObservedHost
<1>2. /\ Derive(o).records = [i \in DOMAIN o.gpus |-> record(i)]
      /\ Derive(o).topology = o.topology /\ Derive(o).at = 0
      /\ Derive(o).nccl = IF o.nccl = None THEN {} ELSE o.nccl.gpus
  BY <1>1 DEF Derive
<1>3. DOMAIN Derive(o).records = DOMAIN o.gpus /\ DOMAIN o.gpus \subseteq Nat  BY <1>1, <1>2
<1>4. \A i \in DOMAIN o.gpus : Derive(o).records[i] = record(i)  BY <1>2
<1>5. \A i : /\ record(i).gpu = o.gpus[i] /\ record(i).base = BaseState(o.gpus[i])
             /\ record(i).health = HealthState(o) /\ record(i).nccl = NcclState(o, o.gpus[i])
  OBVIOUS
<1> HIDE DEF record
<1>6. [i \in DOMAIN Derive(o).records |-> Derive(o).records[i].gpu] = o.gpus
  BY <1>1, <1>3, <1>4, <1>5
<1> QED  BY <1>2, <1>3, <1>4, <1>5, <1>6

\* What is admitted is a group of candidates, usable and fit as a whole.
LEMMA AdmittedGroup ==
  ASSUME NEW req \in Requirements, NEW o \in Observations, NEW now, NEW limits,
         Admit(req, Derive(o), now, limits) # {}
  PROVE  \E f \in UsableGroups(req, Derive(o), Candidates(req, Derive(o), now, limits)) :
           /\ Admit(req, Derive(o), now, limits) = GroupGpus(Derive(o), f)
           /\ GroupFits(req, Derive(o), GroupGpus(Derive(o), f), now, limits)
<1> DEFINE caps == Derive(o)
           C == Candidates(req, caps, now, limits)
           fit == UsableGroups(req, caps, C)
<1>1. C \subseteq Nat
  <2>1. DOMAIN caps.records \subseteq Nat  BY DerivedRecords
  <2> QED  BY <2>1 DEF Candidates
<1>2. fit \subseteq [1..req.count -> Nat]
  <2> HIDE DEF C
  <2> QED  BY <1>1 DEF UsableGroups, Groups
<1>3. req.count \in Nat  BY RequirementAssumption
<1> HIDE DEF caps, C
<1>4. /\ fit # {} /\ Admit(req, caps, now, limits) = GroupGpus(caps, FirstOf(fit))
      /\ GroupFits(req, caps, GroupGpus(caps, FirstOf(fit)), now, limits)
  BY DEF Admit, SelectedBy, caps, C
<1> HIDE DEF fit
<1>5. FirstOf(fit) \in fit  BY <1>2, <1>3, <1>4, FirstOfIsOne
<1> QED  BY <1>4, <1>5 DEF caps, C, fit

\* Each admitted GPU has a record that a candidate of its place is derived from.
LEMMA AdmittedCandidate ==
  ASSUME NEW req \in Requirements, NEW o \in Observations, NEW now, NEW limits,
         NEW f \in UsableGroups(req, Derive(o), Candidates(req, Derive(o), now, limits))
  PROVE  /\ f \in [1..req.count -> DOMAIN o.gpus]
         /\ \A i, j \in 1..req.count : i < j => f[i] < f[j]
         /\ GroupGpus(Derive(o), f) = {o.gpus[f[i]].uuid : i \in 1..req.count}
         /\ \A i \in 1..req.count : f[i] \in Candidates(req, Derive(o), now, limits)
<1> DEFINE C == Candidates(req, Derive(o), now, limits)
<1>1. C \subseteq DOMAIN o.gpus
  BY DerivedRecords DEF Candidates
<1>2. f \in Groups(C, req.count)  BY DEF UsableGroups
<1> HIDE DEF C
<1>3. f \in [1..req.count -> C] /\ \A i, j \in 1..req.count : i < j => f[i] < f[j]
  BY <1>2 DEF Groups
<1>4. \A i \in 1..req.count : Derive(o).records[f[i]].gpu = o.gpus[f[i]]
  BY <1>1, <1>3, DerivedRecords
<1>5. GroupGpus(Derive(o), f) = {o.gpus[f[i]].uuid : i \in 1..req.count}
  BY <1>3, <1>4 DEF GroupGpus
<1> QED  BY <1>1, <1>3, <1>5 DEF C

\* The evidence the registry holds is of the model's observations.
LEMMA ObservedIsObservation ==
  ASSUME ControlInv, NEW w \in Observed
  PROVE  /\ w \in Worker /\ registry[w].observation \in ReportsOf(w)
         /\ registry[w].observation \in Observations
         /\ registry[w].state \in Active => HealthState(registry[w].observation) # "failed"
<1>1. w \in Worker /\ registry[w] # None /\ registry[w].observation # None  BY DEF Observed
<1>2. IsRecordOf(w, registry[w])  BY <1>1 DEF ControlInv, RegistryEnrolled, EnrolledRecord
<1> QED  BY <1>1, <1>2 DEF IsRecordOf, Observations

-----------------------------------------------------------------------------
(* Placements                                                              *)

\* A map that is one to one and onto keeps the number of elements.
LEMMA SameSize ==
  ASSUME NEW S, NEW T, NEW f \in [S -> T], IsFiniteSet(S),
         \A x, y \in S : f[x] = f[y] => x = y,
         \A z \in T : \E x \in S : f[x] = z
  PROVE  IsFiniteSet(T) /\ Cardinality(T) = Cardinality(S)
<1>1. f \in Surjection(S, T) /\ f \in Injection(S, T)
  BY DEF Surjection, Injection, IsInjective
<1> QED  BY <1>1, FS_Surjection

\* As many different GPUs are admitted as asked for, each fit, and fit together.
LEMMA AdmittedServes ==
  ASSUME NEW req \in Requirements, NEW o \in Observations,
         Admit(req, Derive(o), 0, NoLimits) # {}
  PROVE  Serves(req, o, Admit(req, Derive(o), 0, NoLimits))
<1> DEFINE caps == Derive(o)
           S == Admit(req, caps, 0, NoLimits)
           n == req.count
<1>1. PICK f \in UsableGroups(req, caps, Candidates(req, caps, 0, NoLimits)) :
        S = GroupGpus(caps, f) /\ GroupFits(req, caps, GroupGpus(caps, f), 0, NoLimits)
  BY AdmittedGroup
<1>2. /\ f \in [1..n -> DOMAIN o.gpus]
      /\ \A i, j \in 1..n : i < j => f[i] < f[j]
      /\ S = {o.gpus[f[i]].uuid : i \in 1..n}
      /\ \A i \in 1..n : f[i] \in Candidates(req, caps, 0, NoLimits)
  BY <1>1, AdmittedCandidate
<1> HIDE DEF S
<1>3. n \in Nat \ {0}  BY RequirementAssumption
<1>4. Cardinality(S) = n
  <2> DEFINE g == [i \in 1..n |-> o.gpus[f[i]].uuid]
  <2>1. DOMAIN o.gpus \subseteq Nat
        /\ \A i, j \in DOMAIN o.gpus : i # j => o.gpus[i].uuid # o.gpus[j].uuid
    BY ObservedHost, DerivedRecords
  <2>2. ASSUME NEW i \in 1..n, NEW j \in 1..n, g[i] = g[j] PROVE i = j
    <3>1. f[i] = f[j]  BY <1>2, <2>1, <2>2
    <3>2. f[i] \in Nat /\ f[j] \in Nat  BY <1>2, <2>1
    <3> QED  BY <1>2, <1>3, <3>1, <3>2
  <2>3. g \in [1..n -> S] /\ \A z \in S : \E i \in 1..n : g[i] = z  BY <1>2
  <2>4. IsFiniteSet(1..n) /\ Cardinality(1..n) = n  BY <1>3, FS_Interval
  <2> HIDE DEF g
  <2>5. \A x, y \in 1..n : g[x] = g[y] => x = y  BY <2>2
  <2>6. Cardinality(S) = Cardinality(1..n)  BY <2>3, <2>4, <2>5, SameSize
  <2> QED  BY <2>4, <2>6
<1>5. ASSUME NEW i \in 1..n PROVE GpuServes(req, o.gpus[f[i]])
  <2>1. f[i] \in DOMAIN o.gpus /\ f[i] \in Candidates(req, caps, 0, NoLimits)  BY <1>2
  <2>2. caps.records[f[i]].gpu = o.gpus[f[i]] /\ caps.records[f[i]].base = BaseState(o.gpus[f[i]])
    BY <2>1, DerivedRecords
  <2> DEFINE g == o.gpus[f[i]]
  <2>3. /\ g.memory >= req.memory
        /\ req.cc # None => g.cc >= req.cc /\ g.cc # 0
        /\ req.models # {} => g.model \in req.models
        /\ BaseState(g) = "verified"
    BY <2>1, <2>2 DEF Candidates, Admissible
  <2> QED  BY <2>3 DEF GpuServes, BaseState
<1>6. S \subseteq {o.gpus[i].uuid : i \in {k \in DOMAIN o.gpus : GpuServes(req, o.gpus[k])}}
  BY <1>2, <1>5
<1>7. HasMemory(req, o.gpus, S)
  <2>1. HasMemory(req, [i \in DOMAIN caps.records |-> caps.records[i].gpu], S)
    BY <1>1 DEF GroupFits
  <2> QED  BY <2>1, DerivedRecords
<1>8. req.placement = "same_nvlink_domain" =>
        o.topology # None /\ SameNvlinkDomain(o.topology, S)
  BY <1>1, DerivedRecords DEF UsableGroups
<1>9. ASSUME req.nccl PROVE o.nccl # None /\ o.nccl.valid /\ o.nccl.gpus = S
  <2>1. 1 \in 1..n  BY <1>3
  <2>2. f[1] \in DOMAIN o.gpus /\ o.gpus[f[1]].uuid \in S  BY <1>2, <2>1
  <2>3. /\ caps.records[f[1]].gpu = o.gpus[f[1]] /\ f[1] \in DOMAIN caps.records
        /\ caps.records[f[1]].nccl = NcclState(o, o.gpus[f[1]])
        /\ caps.nccl = IF o.nccl = None THEN {} ELSE o.nccl.gpus
    BY <2>2, DerivedRecords
  <2>4. caps.records[f[1]].gpu.uuid \in S  BY <2>2, <2>3
  <2>5. GroupFits(req, caps, S, 0, NoLimits)  BY <1>1
  <2> HIDE DEF caps
  <2>6. Admissible(caps.records[f[1]].nccl, caps.at, 0, NoLimits.nccl) /\ caps.nccl = S
    BY <1>9, <2>3, <2>4, <2>5 DEF GroupFits
  <2>7. caps.records[f[1]].nccl = "verified"  BY <2>6 DEF Admissible
  <2> QED  BY <2>3, <2>6, <2>7 DEF NcclState
<1> QED  BY <1>4, <1>6, <1>7, <1>8, <1>9 DEF Serves, S

\* Whatever some GPUs would serve is admitted, when it asks no more than that each GPU
\* is fit and that they are linked: those GPUs are a group that may be used.
LEMMA ServableAdmitted ==
  ASSUME NEW req \in Requirements, NEW o \in Observations,
         ~req.nccl, ~req.gpuDirect, req.total = 0,
         NEW S \in SUBSET Uuids(o.gpus), Serves(req, o, S)
  PROVE  Admit(req, Derive(o), 0, NoLimits) # {}
<1> DEFINE caps == Derive(o)
           n == req.count
           C == Candidates(req, caps, 0, NoLimits)
           T == {i \in DOMAIN o.gpus : o.gpus[i].uuid \in S}
<1>1. n \in Nat \ {0}  BY RequirementAssumption
<1>2. /\ DOMAIN o.gpus \subseteq Nat /\ DOMAIN o.gpus = 1..Len(o.gpus) /\ Len(o.gpus) \in Nat
      /\ \A i, j \in DOMAIN o.gpus : i # j => o.gpus[i].uuid # o.gpus[j].uuid
  BY ObservedHost, DerivedRecords
<1>3. T \subseteq Nat /\ IsFiniteSet(T)
  <2>1. IsFiniteSet(1..Len(o.gpus))  BY <1>2, FS_Interval
  <2>2. T \in SUBSET (1..Len(o.gpus))  BY <1>2
  <2> HIDE DEF T
  <2> QED  BY <1>2, <2>1, <2>2, FS_Subset
<1>4. Cardinality(T) = n
  <2> DEFINE g == [i \in T |-> o.gpus[i].uuid]
  <2>1. g \in [T -> S]  OBVIOUS
  <2>2. \A x, y \in T : g[x] = g[y] => x = y  BY <1>2
  <2>3. \A z \in S : \E x \in T : g[x] = z  BY DEF Uuids
  <2> HIDE DEF g, T
  <2>4. Cardinality(S) = Cardinality(T)  BY <1>3, <2>1, <2>2, <2>3, SameSize
  <2> QED  BY <2>4 DEF Serves
<1>5. ASSUME NEW i \in T PROVE i \in C
  <2>1. PICK k \in DOMAIN o.gpus : GpuServes(req, o.gpus[k]) /\ o.gpus[k].uuid = o.gpus[i].uuid
    BY DEF Serves
  <2>2. k = i  BY <1>2, <2>1
  <2>3. GpuServes(req, o.gpus[i])  BY <2>1, <2>2
  <2>4. /\ i \in DOMAIN caps.records /\ caps.records[i].gpu = o.gpus[i]
        /\ caps.records[i].base = BaseState(o.gpus[i])
    BY DerivedRecords
  <2> DEFINE g == o.gpus[i]
  <2>5. /\ g.memory >= req.memory /\ g.memory > 0 /\ g.cc > 0
        /\ req.cc # None => g.cc >= req.cc
        /\ req.models # {} => g.model \in req.models
    BY <2>3 DEF GpuServes
  <2>6. g.cc # 0  BY <2>5
  <2>7. BaseState(g) = "verified"  BY <2>5 DEF BaseState
  <2>8. Admissible(caps.records[i].base, caps.at, 0, NoLimits.base)
    BY <2>4, <2>7 DEF Admissible, NoLimits
  <2> HIDE DEF caps
  <2> QED  BY <2>4, <2>5, <2>6, <2>8 DEF Candidates
<1>6. PICK f \in [1..n -> T] : /\ \A i, j \in 1..n : i < j => f[i] < f[j]
                              /\ \A x \in T : \E i \in 1..n : f[i] = x
  <2> HIDE DEF T
  <2> QED  BY <1>1, <1>3, <1>4, ListedAll DEF Listed
<1>7. f \in Groups(C, n)
  <2>1. f \in [1..n -> C]  BY <1>5, <1>6
  <2> QED  BY <1>6, <2>1 DEF Groups
<1>8. GroupGpus(caps, f) = S
  <2>1. \A i \in T : caps.records[i].gpu = o.gpus[i]  BY DerivedRecords
  <2>2. GroupGpus(caps, f) = {o.gpus[f[i]].uuid : i \in 1..n}  BY <1>6, <2>1 DEF GroupGpus
  <2>3. \A z \in S : \E x \in T : o.gpus[x].uuid = z  BY DEF Uuids
  <2> QED  BY <1>6, <2>2, <2>3
<1>9. f \in UsableGroups(req, caps, C)
  <2>1. caps.topology = o.topology  BY DerivedRecords
  <2> QED  BY <1>7, <1>8, <2>1 DEF UsableGroups, Serves
<1> DEFINE fit == UsableGroups(req, caps, C)
           h == FirstOf(fit)
<1>10. h \in fit
  <2>1. C \subseteq Nat  BY <1>2, DerivedRecords DEF Candidates
  <2> HIDE DEF C
  <2>2. fit \subseteq [1..n -> Nat]  BY <2>1 DEF UsableGroups, Groups
  <2> HIDE DEF fit
  <2>3. n \in Nat /\ fit # {}  BY <1>1, <1>9 DEF fit
  <2> QED  BY <2>2, <2>3, FirstOfIsOne
<1>11. SelectedBy(req, caps, C) = GroupGpus(caps, h)  BY <1>9 DEF SelectedBy
<1>12. GroupGpus(caps, h) # {}
  <2>1. h \in Groups(C, n)  BY <1>10 DEF UsableGroups
  <2>2. 1 \in 1..n  BY <1>1
  <2> HIDE DEF C, h
  <2>3. 1 \in DOMAIN h  BY <2>1, <2>2 DEF Groups
  <2> QED  BY <2>3 DEF GroupGpus
<1>13. GroupFits(req, caps, GroupGpus(caps, h), 0, NoLimits)
  BY DEF GroupFits, HasMemory, NoLimits
<1> QED  BY <1>11, <1>12, <1>13 DEF Admit

\* Every worker has a place in the order of their ids.
LEMMA PlaceFound ==
  ASSUME NEW w \in Worker
  PROVE  \E i \in DOMAIN WorkerOrder : WorkerOrder[i] = w
<1> DEFINE D == 1..Cardinality(Worker)
<1>1. WorkerOrder \in [D -> Worker] /\ \A i, j \in D : i # j => WorkerOrder[i] # WorkerOrder[j]
  BY ControlAssumption DEF SetToSeqs
<1>2. WorkerOrder \in Injection(D, Worker)  BY <1>1 DEF Injection, IsInjective
<1>3. IsFiniteSet(Worker) /\ Cardinality(Worker) \in Nat
  BY ControlAssumption, FS_CardinalityType
<1>4. IsFiniteSet(D) /\ Cardinality(D) = Cardinality(Worker)  BY <1>3, FS_Interval
<1> HIDE DEF D
<1>5. WorkerOrder \in Surjection(D, Worker)  BY <1>2, <1>3, <1>4, FS_Injection
<1> QED  BY <1>5 DEF Surjection

\* A worker may be chosen only with GPUs that serve, out of evidence without a failure, and
\* one may be whenever one in service has them (ComputeBroker._fits, admit_gpu_workload).
THEOREM PlacementsAlwaysServe == ControlSpec => []PlacementsServe
<1>1. ASSUME ControlInv PROVE PlacementsServe
  <2> SUFFICES ASSUME NEW req \in Requirements
               PROVE  /\ \A w \in Selectable(req) :
                           /\ req.placement # "multi_node"
                           /\ registry[w].observation.health # "failure"
                           /\ Served[registry[w].observation][req]
                      /\ /\ Selectable(req) = {}
                         /\ req.placement # "multi_node" /\ ~req.nccl
                         /\ ~req.gpuDirect /\ req.total = 0
                         => \A v \in Serving : ~Servable[registry[v].observation][req]
    BY DEF PlacementsServe
  <2>1. ASSUME NEW w \in Selectable(req)
        PROVE  /\ req.placement # "multi_node" /\ registry[w].observation.health # "failure"
               /\ Served[registry[w].observation][req]
    <3> DEFINE o == registry[w].observation
    <3>3. w \in Observed /\ InService(w) /\ Placement[o][req] # {}
      BY DEF Selectable, Eligible, Serving
    <3>4. o \in Observations /\ HealthState(o) # "failed"
      BY <1>1, <3>3, ObservedIsObservation DEF InService
    <3>5. Placement[o][req] = EvaluatePlacement(req, o)  BY <3>4 DEF Placement
    <3>6. req.placement # "multi_node" /\ Placement[o][req] = Admit(req, Derive(o), 0, NoLimits)
      BY <3>3, <3>5 DEF EvaluatePlacement
    <3>7. Serves(req, o, Placement[o][req])  BY <3>3, <3>4, <3>6, AdmittedServes
    <3>8. Served[o][req]  BY <3>4, <3>7 DEF Served
    <3>9. o.health # "failure"  BY <3>4 DEF HealthState
    <3> QED  BY <3>6, <3>8, <3>9
  <2>2. ASSUME Selectable(req) = {}, req.placement # "multi_node", ~req.nccl, ~req.gpuDirect,
               req.total = 0, NEW v \in Serving, Servable[registry[v].observation][req]
        PROVE  FALSE
    <3> DEFINE q == registry[v].observation
    <3>1. v \in Observed /\ v \in Worker  BY DEF Serving, Observed
    <3>2. q \in Observations  BY <1>1, <3>1, ObservedIsObservation
    <3>3. PICK S \in SUBSET Uuids(q.gpus) : Serves(req, q, S)  BY <2>2, <3>2 DEF Servable
    <3>4. Admit(req, Derive(q), 0, NoLimits) # {}  BY <2>2, <3>2, <3>3, ServableAdmitted
    <3>5. Placement[q][req] # {}
      <4>1. q # None  BY <3>2, ObservedHost
      <4> QED  BY <2>2, <3>2, <3>4, <4>1 DEF Placement, EvaluatePlacement
    <3>6. Eligible(v, req)  BY <3>5 DEF Eligible
    <3> QED  BY <2>2, <3>1, <3>6 DEF Selectable
  <2> QED  BY <2>1, <2>2
<1> QED  BY ControlInvAlways, <1>1, PTL

-----------------------------------------------------------------------------
(* Gangs: one GPU of one worker                                            *)

FitIn(req, o) == {o.gpus[i].uuid : i \in {k \in DOMAIN o.gpus : GpuServes(req, o.gpus[k])}}

\* What select_gpus returns for the requirement of one GPU is one that is fit and not used,
\* and it returns one whenever there is (and NCCL is not asked for).
LEMMA SelectOne ==
  ASSUME NEW req \in Requirements, NEW o \in Observations, NEW used
  PROVE  /\ SelectGpus(o, LocalRequirement(req), used, 0) # {} =>
              \E x \in FitIn(req, o) \ used : SelectGpus(o, LocalRequirement(req), used, 0) = {x}
         /\ SelectGpus(o, LocalRequirement(req), used, 0) = {} /\ ~req.nccl =>
              FitIn(req, o) \subseteq used
<1> DEFINE all == Derive(o)
           free == {i \in DOMAIN all.records : all.records[i].gpu.uuid \notin used}
           caps == [all EXCEPT !.records = Restrict(@, free)]
           l == LocalRequirement(req)
           C == Candidates(l, caps, 0, NoLimits)
           fit == UsableGroups(l, caps, C)
           h == FirstOf(fit)
           S == Admit(l, caps, 0, NoLimits)
<1>1. SelectGpus(o, l, used, 0) = S  BY DEF SelectGpus
<1>2. /\ l.count = 1 /\ l.memory = req.memory /\ l.total = 0 /\ l.cc = req.cc
      /\ l.models = req.models /\ l.placement = "any" /\ l.nccl = req.nccl
      /\ l.gpuDirect = FALSE
  BY DEF LocalRequirement
<1>3. /\ DOMAIN all.records = DOMAIN o.gpus /\ DOMAIN o.gpus \subseteq Nat
      /\ \A i \in DOMAIN o.gpus : all.records[i].gpu = o.gpus[i]
      /\ \A i \in DOMAIN o.gpus : all.records[i].base = BaseState(o.gpus[i])
      /\ all = [records |-> all.records, topology |-> all.topology, nccl |-> all.nccl, at |-> 0]
  <2>1. all.at = 0  BY DerivedRecords
  <2>2. all = [records |-> all.records, topology |-> all.topology, nccl |-> all.nccl,
               at |-> all.at]
    BY DEF Derive
  <2> HIDE DEF all
  <2>3. all = [records |-> all.records, topology |-> all.topology, nccl |-> all.nccl, at |-> 0]
    BY <2>1, <2>2
  <2> QED  BY <2>3, DerivedRecords DEF all
<1> HIDE DEF all, l
<1>4. /\ caps.records = [i \in free |-> all.records[i]] /\ caps.at = 0
      /\ DOMAIN caps.records = free
  BY <1>3 DEF Restrict
<1>5. free = {i \in DOMAIN o.gpus : o.gpus[i].uuid \notin used}  BY <1>3
<1> HIDE DEF caps, free
<1>6. ASSUME NEW i \in DOMAIN o.gpus
      PROVE  i \in C <=> i \in free /\ GpuServes(req, o.gpus[i])
  <2> DEFINE g == o.gpus[i]
  <2>1. i \in free => caps.records[i].gpu = g /\ caps.records[i].base = BaseState(g)
    BY <1>3, <1>4
  <2>2. BaseState(g) = "verified" <=> g.memory > 0 /\ g.cc > 0  BY DEF BaseState
  <2>3. g.cc > 0 => g.cc # 0  OBVIOUS
  <2>4. i \in C <=> /\ i \in free
                    /\ g.memory >= req.memory
                    /\ req.cc # None => g.cc >= req.cc /\ g.cc # 0
                    /\ req.models # {} => g.model \in req.models
                    /\ BaseState(g) = "verified"
    BY <1>2, <1>4, <2>1 DEF Candidates, Admissible, NoLimits
  <2> QED  BY <2>2, <2>3, <2>4 DEF GpuServes
<1>7. C \subseteq free /\ free \subseteq DOMAIN o.gpus  BY <1>4, <1>5 DEF Candidates
<1> HIDE DEF C
<1>8. fit = [1..1 -> C]
  <2>1. \A f \in [1..1 -> C] : \A i, j \in 1..1 : i < j => f[i] < f[j]  OBVIOUS
  <2>2. Groups(C, 1) = [1..1 -> C]  BY <2>1 DEF Groups
  <2> QED  BY <1>2, <2>2 DEF UsableGroups
<1>9. CASE C = {}
  <2>1. fit = {}  BY <1>8, <1>9
  <2>2. S = {}  BY <2>1 DEF Admit, SelectedBy, C
  <2>3. FitIn(req, o) \subseteq used  BY <1>5, <1>6, <1>9 DEF FitIn
  <2> QED  BY <1>1, <2>2, <2>3 DEF l
<1>10. CASE C # {}
  <2>1. fit # {} /\ fit \subseteq [1..1 -> Nat]
    <3>1. PICK i \in C : TRUE  BY <1>10
    <3>2. [j \in 1..1 |-> i] \in [1..1 -> C]  OBVIOUS
    <3>3. C \subseteq Nat  BY <1>3, <1>7
    <3> QED  BY <1>8, <3>2, <3>3
  <2> HIDE DEF fit
  <2>2. h \in fit  BY <2>1, FirstOfIsOne
  <2> HIDE DEF h
  <2>3. h \in [1..1 -> C]  BY <1>8, <2>2
  <2>4. h[1] \in C /\ DOMAIN h = {1}  BY <2>3
  <2>5. h[1] \in DOMAIN o.gpus /\ h[1] \in free  BY <1>7, <2>4
  <2>6. caps.records[h[1]].gpu = o.gpus[h[1]]  BY <1>3, <1>4, <2>5
  <2> DEFINE x == o.gpus[h[1]].uuid
  <2>7. GroupGpus(caps, h) = {x}  BY <2>4, <2>6 DEF GroupGpus
  <2>8. SelectedBy(l, caps, C) = {x}  BY <2>1, <2>7 DEF SelectedBy, fit, h
  <2>9. x \in FitIn(req, o) \ used  BY <1>5, <1>6, <2>4, <2>5 DEF FitIn
  <2> HIDE DEF x
  <2>10. S = IF GroupFits(l, caps, {x}, 0, NoLimits) THEN {x} ELSE {}
    BY <2>8 DEF Admit, C
  <2>11. ~req.nccl => S = {x}
    <3>1. ~req.nccl => GroupFits(l, caps, {x}, 0, NoLimits)
      BY <1>2 DEF GroupFits, HasMemory, NoLimits
    <3> QED  BY <2>10, <3>1
  <2>12. S # {} => S = {x}  BY <2>10
  <2> QED  BY <1>1, <2>9, <2>11, <2>12 DEF l
<1> QED  BY <1>9, <1>10

\* Each observation has finitely many GPUs.
LEMMA FitFinite ==
  ASSUME NEW req, NEW o \in Observations
  PROVE  IsFiniteSet(FitIn(req, o))
<1> DEFINE T == {k \in DOMAIN o.gpus : GpuServes(req, o.gpus[k])}
           f == [i \in T |-> o.gpus[i].uuid]
<1>1. DOMAIN o.gpus = 1..Len(o.gpus) /\ Len(o.gpus) \in Nat  BY ObservedHost
<1>2. T \subseteq 1..Len(o.gpus)  BY <1>1
<1> HIDE DEF T
<1>3. IsFiniteSet(T)
  <2>1. 1 \in Int /\ Len(o.gpus) \in Int  BY <1>1
  <2>2. IsFiniteSet(1..Len(o.gpus))  BY <2>1, FS_Interval
  <2> QED  BY <1>2, <2>2, FS_Subset
<1>4. f \in Surjection(T, FitIn(req, o))  BY DEF FitIn, Surjection, T
<1> HIDE DEF f
<1> QED  BY <1>3, <1>4, FS_Surjection

LEMMA SeenAre ==
  ASSUME NEW seen \in Seen
  PROVE  /\ DOMAIN seen \subseteq Worker /\ IsFiniteSet(DOMAIN seen)
         /\ \A w \in DOMAIN seen : seen[w] \in Observations
<1>1. PICK W \in SUBSET Worker : seen \in [W -> Observations]  BY DEF Seen
<1> QED  BY <1>1, ControlAssumption, FS_Subset

\* What the passes over the workers may have given: GPUs that are fit, each worker its own.
Allocs(req, seen) ==
  {a \in [DOMAIN seen -> SUBSET UNION {FitIn(req, seen[w]) : w \in DOMAIN seen}] :
     \A w \in DOMAIN seen : a[w] \subseteq FitIn(req, seen[w])}
Enough(req, a) == GpusIn(a) >= req.count

LEMMA AllocsFinite ==
  ASSUME NEW req, NEW seen \in Seen, NEW a \in Allocs(req, seen)
  PROVE  /\ DOMAIN a = DOMAIN seen /\ a = [w \in DOMAIN seen |-> a[w]]
         /\ \A w \in DOMAIN seen : a[w] \subseteq FitIn(req, seen[w])
         /\ IsFiniteSet(Given(a)) /\ GpusIn(a) \in Nat
<1>1. /\ DOMAIN a = DOMAIN seen /\ a = [w \in DOMAIN seen |-> a[w]]
      /\ \A w \in DOMAIN seen : a[w] \subseteq FitIn(req, seen[w])
  BY DEF Allocs
<1> DEFINE F == {{w} \X FitIn(req, seen[w]) : w \in DOMAIN seen}
           f == [w \in DOMAIN seen |-> {w} \X FitIn(req, seen[w])]
<1>2. IsFiniteSet(F)
  <2>1. f \in Surjection(DOMAIN seen, F)  BY DEF Surjection
  <2> HIDE DEF f, F
  <2> QED  BY <2>1, SeenAre, FS_Surjection
<1>3. \A T \in F : IsFiniteSet(T)
  <2>1. ASSUME NEW w \in DOMAIN seen PROVE IsFiniteSet({w} \X FitIn(req, seen[w]))
    <3>1. IsFiniteSet({w})  BY FS_Singleton
    <3>2. IsFiniteSet(FitIn(req, seen[w]))  BY SeenAre, FitFinite
    <3> QED  BY <3>1, <3>2, FS_Product
  <2> QED  BY <2>1
<1>4. Given(a) \subseteq UNION F
  <2>1. ASSUME NEW w \in DOMAIN a PROVE {w} \X a[w] \subseteq UNION F
    <3>1. {w} \X a[w] \subseteq {w} \X FitIn(req, seen[w])  BY <1>1
    <3> QED  BY <1>1, <3>1
  <2> QED  BY <2>1 DEF Given
<1> HIDE DEF F
<1>5. IsFiniteSet(Given(a))  BY <1>2, <1>3, <1>4, FS_UNION, FS_Subset
<1> QED  BY <1>1, <1>5, FS_CardinalityType DEF GpusIn

\* In its turn a worker gives nothing, and then there are enough or it has no other that
\* is fit, or it gives one.
Gives(req, seen, w, a, b) ==
  /\ b \in Allocs(req, seen) /\ \A v \in DOMAIN seen \ {w} : b[v] = a[v]
  /\ \/ b = a /\ (Enough(req, a) \/ req.nccl \/ FitIn(req, seen[w]) \subseteq a[w])
     \/ /\ ~Enough(req, a) /\ GpusIn(b) = GpusIn(a) + 1
        /\ \E x : b[w] = a[w] \cup {x}

LEMMA ExtendStep ==
  ASSUME NEW req \in Requirements, NEW seen \in Seen, NEW a \in Allocs(req, seen),
         NEW w \in DOMAIN seen
  PROVE  Gives(req, seen, w, a, Extend(req, seen, a, w))
<1> DEFINE b == Extend(req, seen, a, w)
           S == SelectGpus(seen[w], LocalRequirement(req), a[w], 0)
<1>1. /\ DOMAIN a = DOMAIN seen /\ a = [v \in DOMAIN seen |-> a[v]]
      /\ \A v \in DOMAIN seen : a[v] \subseteq FitIn(req, seen[v])
      /\ IsFiniteSet(Given(a)) /\ GpusIn(a) \in Nat
  BY AllocsFinite
<1>2. seen[w] \in Observations  BY SeenAre
<1>3. /\ S # {} => \E x \in FitIn(req, seen[w]) \ a[w] : S = {x}
      /\ S = {} /\ ~req.nccl => FitIn(req, seen[w]) \subseteq a[w]
  BY <1>2, SelectOne
<1>4. b = IF Enough(req, a) THEN a ELSE [a EXCEPT ![w] = a[w] \cup S]  BY DEF Extend, Enough
<1> HIDE DEF b, S
<1> SUFFICES Gives(req, seen, w, a, b)  BY DEF b
<1>5. CASE Enough(req, a)  BY <1>4, <1>5 DEF Gives
<1>6. CASE ~Enough(req, a) /\ S = {}
  <2>1. [a EXCEPT ![w] = a[w] \cup {}] = a  BY <1>1
  <2>2. b = a  BY <1>4, <1>6, <2>1
  <2> QED  BY <1>3, <1>6, <2>2 DEF Gives
<1>7. CASE ~Enough(req, a) /\ S # {}
  <2>1. PICK x \in FitIn(req, seen[w]) \ a[w] : S = {x}  BY <1>3, <1>7
  <2>2. b = [a EXCEPT ![w] = a[w] \cup {x}]  BY <1>4, <1>7, <2>1
  <2>3. b = [v \in DOMAIN seen |-> IF v = w THEN a[w] \cup {x} ELSE a[v]]  BY <1>1, <2>2
  <2>4. b[w] = a[w] \cup {x} /\ \A v \in DOMAIN seen \ {w} : b[v] = a[v]  BY <2>3
  <2>5. b \in Allocs(req, seen)
    <3> DEFINE U == UNION {FitIn(req, seen[v]) : v \in DOMAIN seen}
    <3>1. \A v \in DOMAIN seen : b[v] \subseteq FitIn(req, seen[v])  BY <1>1, <2>1, <2>4
    <3>2. \A v \in DOMAIN seen : FitIn(req, seen[v]) \subseteq U  OBVIOUS
    <3> HIDE DEF U
    <3>3. b \in [DOMAIN seen -> SUBSET U]  BY <2>3, <3>1, <3>2
    <3> QED  BY <3>1, <3>3 DEF Allocs, U
  <2>6. DOMAIN b = DOMAIN seen  BY <2>3
  <2>7. Given(b) = Given(a) \cup {<<w, x>>}
    <3>1. ASSUME NEW z \in Given(b) PROVE z \in Given(a) \cup {<<w, x>>}
      <4>1. PICK v \in DOMAIN seen : z \in {v} \X b[v]  BY <2>6 DEF Given
      <4>2. PICK y \in b[v] : z = <<v, y>>  BY <4>1
      <4>3. CASE v = w /\ y = x  BY <4>2, <4>3
      <4>4. CASE ~(v = w /\ y = x)
        <5>1. y \in a[v]  BY <2>4, <4>2, <4>4
        <5>2. z \in {v} \X a[v]  BY <4>2, <5>1
        <5> QED  BY <1>1, <5>2 DEF Given
      <4> QED  BY <4>3, <4>4
    <3>2. ASSUME NEW z \in Given(a) PROVE z \in Given(b)
      <4>1. PICK v \in DOMAIN seen : z \in {v} \X a[v]  BY <1>1 DEF Given
      <4>2. a[v] \subseteq b[v]  BY <2>4
      <4>3. z \in {v} \X b[v]  BY <4>1, <4>2
      <4> QED  BY <2>6, <4>3 DEF Given
    <3>3. <<w, x>> \in Given(b)
      <4>1. <<w, x>> \in {w} \X b[w]  BY <2>4
      <4> QED  BY <2>6, <4>1 DEF Given
    <3> QED  BY <3>1, <3>2, <3>3
  <2>8. <<w, x>> \notin Given(a)
    <3>1. ASSUME NEW v \in DOMAIN a, <<w, x>> \in {v} \X a[v] PROVE FALSE
      <4>1. v = w /\ x \in a[v]  BY <3>1
      <4> QED  BY <2>1, <4>1
    <3> QED  BY <3>1 DEF Given
  <2>9. GpusIn(b) = GpusIn(a) + 1
    <3> DEFINE G == Given(a)
    <3>1. IsFiniteSet(G) /\ <<w, x>> \notin G  BY <1>1, <2>8
    <3> HIDE DEF G
    <3>2. Cardinality(G \cup {<<w, x>>}) = Cardinality(G) + 1  BY <3>1, FS_AddElement
    <3> QED  BY <2>7, <3>2 DEF GpusIn, G
  <2> QED  BY <1>7, <2>4, <2>5, <2>9 DEF Gives
<1> QED  BY <1>5, <1>6, <1>7

-----------------------------------------------------------------------------
(* Gangs: one pass over the workers                                        *)

Places == Len(WorkerOrder)

LEMMA OrderIs ==
  /\ Places \in Nat /\ \A i \in 1..Places : WorkerOrder[i] \in Worker
  /\ \A i, j \in 1..Places : WorkerOrder[i] = WorkerOrder[j] => i = j
  /\ \A w \in Worker : \E i \in 1..Places : WorkerOrder[i] = w
<1> DEFINE m == Cardinality(Worker)
<1>1. m \in Nat  BY ControlAssumption, FS_CardinalityType
<1>2. /\ WorkerOrder \in [1..m -> Worker]
      /\ \A i, j \in 1..m : i # j => WorkerOrder[i] # WorkerOrder[j]
  BY ControlAssumption DEF SetToSeqs
<1> HIDE DEF m
<1>3. Places = m /\ DOMAIN WorkerOrder = 1..m  BY <1>1, <1>2 DEF Places
<1> QED  BY <1>1, <1>2, <1>3, PlaceFound

\* The turn of the worker at place i.
TurnAt(req, seen, part, i, a) ==
  IF WorkerOrder[i] \in part THEN Extend(req, seen, a, WorkerOrder[i]) ELSE a
IsRound(req, seen, part, a, g) ==
  /\ g \in [0..Places -> Allocs(req, seen)] /\ g[0] = a
  /\ \A i \in 1..Places : g[i] = TurnAt(req, seen, part, i, g[i - 1])
  /\ Round(req, seen, WorkerOrder, part, a) = g[Places]

\* A round is a run of these turns.
LEMMA RoundRuns ==
  ASSUME NEW req \in Requirements, NEW seen \in Seen, NEW part \in SUBSET DOMAIN seen,
         NEW a \in Allocs(req, seen)
  PROVE  \E g : IsRound(req, seen, part, a, g)
<1> DEFINE n == Len(WorkerOrder)
           S == Allocs(req, seen)
           T(i, b) == TurnAt(req, seen, part, i, b)
           step == [z \in Nat \X S |-> IF z[1] + 1 \in 1..n THEN T(z[1] + 1, z[2]) ELSE z[2]]
           Turns(h) == h = [i \in 0..n |->
                              IF i = 0 THEN a
                              ELSE IF WorkerOrder[i] \in part
                                THEN Extend(req, seen, h[i - 1], WorkerOrder[i])
                              ELSE h[i - 1]]
           h == CHOOSE f : Turns(f)
<1>1. Round(req, seen, WorkerOrder, part, a) = h[n]  BY DEF Round
<1>2. n \in Nat  BY OrderIs DEF Places
<1> HIDE DEF n, S, T, Turns
<1>3. ASSUME NEW i \in 1..n, NEW b \in S PROVE T(i, b) \in S
  <2>1. CASE WorkerOrder[i] \in part
    <3> DEFINE w == WorkerOrder[i]
    <3>1. w \in DOMAIN seen /\ b \in Allocs(req, seen)  BY <2>1 DEF S
    <3> HIDE DEF w
    <3>2. Gives(req, seen, w, b, Extend(req, seen, b, w))  BY <3>1, ExtendStep
    <3>3. Extend(req, seen, b, w) \in S  BY <3>2 DEF Gives, S
    <3> QED  BY <2>1, <3>3 DEF TurnAt, T, w
  <2>2. CASE WorkerOrder[i] \notin part  BY <2>2 DEF TurnAt, T
  <2> QED  BY <2>1, <2>2
<1>4. step \in [Nat \X S -> S]  BY <1>3
<1> HIDE DEF step
<1>5. PICK g : GoesOnAt(S, a, step, g)
  <2>1. a \in S  BY DEF S
  <2> QED  BY <1>4, <2>1, RecursionAtExists
<1>6. g \in [Nat -> S] /\ g[0] = a /\ \A k \in Nat : g[k + 1] = step[<<k, g[k]>>]
  BY <1>5 DEF GoesOnAt
<1>7. ASSUME NEW i \in 1..n PROVE g[i] = T(i, g[i - 1])
  <2>1. i - 1 \in Nat /\ (i - 1) + 1 = i /\ g[i - 1] \in S  BY <1>2, <1>6
  <2>2. g[i] = step[<<i - 1, g[i - 1]>>]  BY <1>6, <2>1
  <2> QED  BY <2>1, <2>2 DEF step
<1> DEFINE f == [i \in 0..n |-> g[i]]
<1>8. Turns(f)
  <2>1. ASSUME NEW i \in 0..n
        PROVE  g[i] = IF i = 0 THEN a
                      ELSE IF WorkerOrder[i] \in part
                        THEN Extend(req, seen, f[i - 1], WorkerOrder[i])
                      ELSE f[i - 1]
    <3>1. CASE i = 0  BY <1>6, <3>1
    <3>2. CASE i # 0
      <4>1. i \in 1..n /\ i - 1 \in 0..n /\ f[i - 1] = g[i - 1]  BY <1>2, <3>2
      <4> HIDE DEF f
      <4> QED  BY <1>7, <3>2, <4>1 DEF T, TurnAt
    <3> QED  BY <3>1, <3>2
  <2>2. f = [i \in 0..n |-> IF i = 0 THEN a
                           ELSE IF WorkerOrder[i] \in part
                             THEN Extend(req, seen, f[i - 1], WorkerOrder[i])
                           ELSE f[i - 1]]
    <3> DEFINE e == [i \in 0..n |-> IF i = 0 THEN a
                                   ELSE IF WorkerOrder[i] \in part
                                     THEN Extend(req, seen, f[i - 1], WorkerOrder[i])
                                   ELSE f[i - 1]]
    <3>1. \A i \in 0..n : f[i] = e[i]  BY <2>1
    <3>2. f = [i \in 0..n |-> f[i]]  OBVIOUS
    <3>3. e = [i \in 0..n |-> e[i]]  OBVIOUS
    <3> HIDE DEF f, e
    <3>4. f = e  BY <3>1, <3>2, <3>3
    <3> QED  BY <3>4 DEF e
  <2> HIDE DEF f
  <2> QED  BY <2>2 DEF Turns
<1>9. Turns(h)
  <2> HIDE DEF f
  <2> QED  BY <1>8
<1> HIDE DEF h
<1>10. DOMAIN h = 0..n /\ h[0] = a  BY <1>2, <1>9 DEF Turns
<1>11. ASSUME NEW i \in 1..n PROVE h[i] = T(i, h[i - 1])
  <2>1. i \in 0..n /\ i # 0  BY <1>2
  <2> QED  BY <1>9, <2>1 DEF Turns, T, TurnAt
<1>12. \A i \in 0..n : h[i] \in S
  <2> DEFINE P == {k \in Nat : k <= n => h[k] \in S}
  <2>1. 0 \in P  BY <1>10 DEF S
  <2>2. ASSUME NEW k \in Nat, k \in P PROVE k + 1 \in P
    <3>1. SUFFICES ASSUME k + 1 <= n PROVE h[k + 1] \in S  OBVIOUS
    <3>2. k + 1 \in 1..n /\ (k + 1) - 1 = k /\ h[k] \in S  BY <1>2, <2>2, <3>1
    <3> QED  BY <1>3, <1>11, <3>2
  <2> HIDE DEF P
  <2>3. Nat \subseteq P  BY <2>1, <2>2, Induction
  <2>4. ASSUME NEW i \in 0..n PROVE h[i] \in S
    <3>1. i \in Nat /\ i <= n  BY <1>2
    <3> QED  BY <2>3, <3>1 DEF P
  <2> QED  BY <2>4
<1>13. h = [i \in 0..n |-> h[i]]  BY <1>9 DEF Turns
<1>14. h \in [0..n -> S]  BY <1>12, <1>13
<1>15. IsRound(req, seen, part, a, h)
  BY <1>1, <1>10, <1>11, <1>14 DEF IsRound, Places, n, S, T
<1> QED  BY <1>15

\* What a turn does: a worker of the part gives, another does not.
LEMMA TurnStep ==
  ASSUME NEW req \in Requirements, NEW seen \in Seen, NEW part \in SUBSET DOMAIN seen,
         NEW i \in 1..Places, NEW a \in Allocs(req, seen)
  PROVE  \/ WorkerOrder[i] \in part
              /\ Gives(req, seen, WorkerOrder[i], a, TurnAt(req, seen, part, i, a))
         \/ WorkerOrder[i] \notin part /\ TurnAt(req, seen, part, i, a) = a
<1> DEFINE w == WorkerOrder[i]
<1>1. CASE w \in part
  <2>1. TurnAt(req, seen, part, i, a) = Extend(req, seen, a, w)  BY <1>1 DEF TurnAt
  <2>2. w \in DOMAIN seen  BY <1>1
  <2> HIDE DEF w
  <2>3. Gives(req, seen, w, a, Extend(req, seen, a, w))  BY <2>2, ExtendStep
  <2> QED  BY <1>1, <2>1, <2>3 DEF w
<1>2. CASE w \notin part  BY <1>2 DEF TurnAt
<1> QED  BY <1>1, <1>2

\* Nothing is taken back, and no more is given than was asked for.
Grown(req, seen, a, b) ==
  /\ \A w \in DOMAIN seen : a[w] \subseteq b[w]
  /\ GpusIn(a) <= GpusIn(b)
  /\ GpusIn(a) <= req.count => GpusIn(b) <= req.count

\* After the turns of the first i places there are enough, or more than before, or none of
\* them had another that is fit.
Added(req, seen, part, a, i, b) ==
  \/ Enough(req, b)
  \/ GpusIn(b) >= GpusIn(a) + 1
  \/ /\ b = a
     /\ \A j \in 1..i : WorkerOrder[j] \in part =>
          req.nccl \/ FitIn(req, seen[WorkerOrder[j]]) \subseteq a[WorkerOrder[j]]

LEMMA GivesGrows ==
  ASSUME NEW req \in Requirements, NEW seen \in Seen, NEW w \in DOMAIN seen,
         NEW a \in Allocs(req, seen), NEW b, Gives(req, seen, w, a, b)
  PROVE  b \in Allocs(req, seen) /\ Grown(req, seen, a, b)
<1>1. b \in Allocs(req, seen)  BY DEF Gives
<1>2. GpusIn(a) \in Nat /\ req.count \in Nat  BY AllocsFinite, RequirementAssumption
<1>3. \A v \in DOMAIN seen : a[v] \subseteq b[v]  BY DEF Gives
<1>4. CASE b = a  BY <1>1, <1>2, <1>3, <1>4 DEF Grown
<1>5. CASE ~Enough(req, a) /\ GpusIn(b) = GpusIn(a) + 1
  <2>1. ~(GpusIn(a) >= req.count)  BY <1>5 DEF Enough
  <2>2. GpusIn(a) <= GpusIn(b) /\ GpusIn(b) <= req.count  BY <1>2, <1>5, <2>1
  <2> QED  BY <1>1, <1>3, <2>2 DEF Grown
<1> QED  BY <1>4, <1>5 DEF Gives

LEMMA GrownOn ==
  ASSUME NEW req \in Requirements, NEW seen \in Seen, NEW a \in Allocs(req, seen),
         NEW b \in Allocs(req, seen), NEW c \in Allocs(req, seen),
         Grown(req, seen, a, b), Grown(req, seen, b, c)
  PROVE  Grown(req, seen, a, c)
<1>1. GpusIn(a) \in Nat /\ GpusIn(b) \in Nat /\ GpusIn(c) \in Nat /\ req.count \in Nat
  BY AllocsFinite, RequirementAssumption
<1>2. \A w \in DOMAIN seen : a[w] \subseteq c[w]  BY DEF Grown
<1>3. /\ GpusIn(a) <= GpusIn(c)
      /\ GpusIn(a) <= req.count => GpusIn(c) <= req.count
  BY <1>1 DEF Grown
<1> QED  BY <1>2, <1>3 DEF Grown

LEMMA RoundGrows ==
  ASSUME NEW req \in Requirements, NEW seen \in Seen, NEW part \in SUBSET DOMAIN seen,
         NEW a \in Allocs(req, seen), NEW g, IsRound(req, seen, part, a, g)
  PROVE  \A i \in 0..Places : /\ g[i] \in Allocs(req, seen)
                              /\ Grown(req, seen, a, g[i])
                              /\ Added(req, seen, part, a, i, g[i])
<1>1. /\ g[0] = a /\ \A i \in 0..Places : g[i] \in Allocs(req, seen)
      /\ \A i \in 1..Places : g[i] = TurnAt(req, seen, part, i, g[i - 1])
  BY DEF IsRound
<1>2. Places \in Nat  BY OrderIs
<1>3. GpusIn(a) \in Nat /\ req.count \in Nat  BY AllocsFinite, RequirementAssumption
<1> DEFINE P == {k \in Nat : k <= Places =>
                   Grown(req, seen, a, g[k]) /\ Added(req, seen, part, a, k, g[k])}
<1>4. 0 \in P
  <2>1. Grown(req, seen, a, a)  BY <1>3 DEF Grown
  <2>2. Added(req, seen, part, a, 0, a)  BY DEF Added
  <2> QED  BY <1>1, <2>1, <2>2
<1>5. ASSUME NEW k \in Nat, k \in P PROVE k + 1 \in P
  <2> SUFFICES ASSUME k + 1 <= Places
               PROVE  /\ Grown(req, seen, a, g[k + 1])
                      /\ Added(req, seen, part, a, k + 1, g[k + 1])
    OBVIOUS
  <2> DEFINE i == k + 1
             b == g[k]
             c == g[i]
             w == WorkerOrder[i]
  <2>1. i \in 1..Places /\ i - 1 = k /\ k \in 0..Places /\ i \in 0..Places  BY <1>2
  <2>2. b \in Allocs(req, seen) /\ c \in Allocs(req, seen)  BY <1>1, <2>1
  <2>3. c = TurnAt(req, seen, part, i, b)
    <3>1. g[i] = TurnAt(req, seen, part, i, g[i - 1])  BY <1>1, <2>1
    <3> QED  BY <2>1, <3>1
  <2>4. Grown(req, seen, a, b) /\ Added(req, seen, part, a, k, b)  BY <1>2, <1>5, <2>1
  <2>5. \A j \in 1..i : j = i \/ j \in 1..k  BY <1>2
  <2>6. GpusIn(b) \in Nat /\ GpusIn(c) \in Nat /\ GpusIn(a) <= GpusIn(b)
    BY <2>2, <2>4, AllocsFinite DEF Grown
  <2> HIDE DEF i, b, c, w
  <2>7. \/ w \in part /\ Gives(req, seen, w, b, c)
        \/ w \notin part /\ c = b
    BY <2>1, <2>2, <2>3, TurnStep DEF w
  <2>8. Grown(req, seen, a, c)
    <3>1. CASE w \in part /\ Gives(req, seen, w, b, c)
      <4>1. w \in DOMAIN seen  BY <3>1
      <4>2. Grown(req, seen, b, c)  BY <2>2, <3>1, <4>1, GivesGrows
      <4> QED  BY <2>2, <2>4, <4>2, GrownOn
    <3>2. CASE w \notin part /\ c = b  BY <2>4, <3>2
    <3> QED  BY <2>7, <3>1, <3>2
  <2>9. Added(req, seen, part, a, i, c)
    <3>1. CASE w \in part /\ GpusIn(c) = GpusIn(b) + 1
      BY <1>3, <2>6, <3>1 DEF Added
    <3>2. CASE /\ w \in part /\ c = b
               /\ Enough(req, b) \/ req.nccl \/ FitIn(req, seen[w]) \subseteq b[w]
      BY <2>4, <2>5, <3>2 DEF Added, w
    <3>3. CASE w \notin part /\ c = b  BY <2>4, <2>5, <3>3 DEF Added, w
    <3> QED  BY <2>7, <3>1, <3>2, <3>3 DEF Gives
  <2> QED  BY <2>8, <2>9 DEF i, c
<1>6. Nat \subseteq P
  <2> HIDE DEF P
  <2> QED  BY <1>4, <1>5, Induction
<1>7. ASSUME NEW i \in 0..Places
      PROVE  Grown(req, seen, a, g[i]) /\ Added(req, seen, part, a, i, g[i])
  <2>1. i \in Nat /\ i <= Places  BY <1>2
  <2> QED  BY <1>6, <2>1
<1> QED  BY <1>1, <1>7

\* So a round keeps what was given, and then there are enough, or more than before, or none
\* of those who were asked had another that is fit.
RoundDoes(req, seen, part, a, b) ==
  /\ b \in Allocs(req, seen) /\ Grown(req, seen, a, b)
  /\ \/ Enough(req, b)
     \/ GpusIn(b) >= GpusIn(a) + 1
     \/ b = a /\ \A w \in part : req.nccl \/ FitIn(req, seen[w]) \subseteq a[w]

LEMMA RoundIs ==
  ASSUME NEW req \in Requirements, NEW seen \in Seen, NEW part \in SUBSET DOMAIN seen,
         NEW a \in Allocs(req, seen)
  PROVE  RoundDoes(req, seen, part, a, Round(req, seen, WorkerOrder, part, a))
<1> DEFINE b == Round(req, seen, WorkerOrder, part, a)
<1>1. PICK g : IsRound(req, seen, part, a, g)  BY RoundRuns
<1>2. b = g[Places]  BY <1>1 DEF IsRound
<1>3. Places \in Nat /\ Places \in 0..Places  BY OrderIs
<1>4. b \in Allocs(req, seen) /\ Grown(req, seen, a, b) /\ Added(req, seen, part, a, Places, b)
  BY <1>1, <1>2, <1>3, RoundGrows
<1>5. \A w \in part : \E j \in 1..Places : WorkerOrder[j] = w  BY SeenAre, OrderIs
<1> HIDE DEF b
<1>6. RoundDoes(req, seen, part, a, b)  BY <1>4, <1>5 DEF Added, RoundDoes
<1> QED  BY <1>6 DEF b

-----------------------------------------------------------------------------
(* Gangs: the first round                                                  *)

Nothing(seen) == [w \in DOMAIN seen |-> {}]
AtMostOne(S) == \A x, y \in S : x = y
TwoHold(seen, a) == \E v, w \in DOMAIN seen : v # w /\ a[v] # {} /\ a[w] # {}
\* Each worker that has a fit GPU has given one, unless there are enough.
AllAsked(req, seen, a) ==
  Enough(req, a) \/ \A w \in DOMAIN seen : FitIn(req, seen[w]) # {} => a[w] # {}

LEMMA NothingGiven ==
  ASSUME NEW req \in Requirements, NEW seen \in Seen
  PROVE  Nothing(seen) \in Allocs(req, seen) /\ GpusIn(Nothing(seen)) = 0
<1>1. Nothing(seen) \in Allocs(req, seen)  BY DEF Nothing, Allocs
<1>2. Given(Nothing(seen)) = {}  BY DEF Given, Nothing
<1> QED  BY <1>1, <1>2, FS_EmptySet DEF GpusIn

\* In the first round each worker gives one GPU at most, and each that has a fit one gives
\* it until there are enough.
LEMMA FirstRoundAsks ==
  ASSUME NEW req \in Requirements, ~req.nccl, NEW seen \in Seen,
         NEW g, IsRound(req, seen, DOMAIN seen, Nothing(seen), g)
  PROVE  /\ \A w \in DOMAIN seen : AtMostOne(g[Places][w])
         /\ AllAsked(req, seen, g[Places])
<1> DEFINE D == DOMAIN seen
           a == Nothing(seen)
           Ones(k) == \A w \in D : AtMostOne(g[k][w])
           Later(k) == \A j \in k + 1..Places : WorkerOrder[j] \in D => g[k][WorkerOrder[j]] = {}
           Asked(k) == \/ Enough(req, g[k])
                       \/ \A j \in 1..k : WorkerOrder[j] \in D =>
                            (FitIn(req, seen[WorkerOrder[j]]) # {} => g[k][WorkerOrder[j]] # {})
           P == {k \in Nat : k <= Places => Ones(k) /\ Later(k) /\ Asked(k)}
<1>1. /\ g[0] = a /\ \A i \in 0..Places : g[i] \in Allocs(req, seen)
      /\ \A i \in 1..Places : g[i] = TurnAt(req, seen, D, i, g[i - 1])
  BY DEF IsRound
<1>2. /\ Places \in Nat
      /\ \A i, j \in 1..Places : WorkerOrder[i] = WorkerOrder[j] => i = j
  BY OrderIs
<1>3. \A w \in D : a[w] = {}  BY DEF Nothing
<1> HIDE DEF a
<1>4. 0 \in P
  <2>1. Ones(0) /\ Later(0)  BY <1>1, <1>3 DEF AtMostOne
  <2>2. Asked(0)  OBVIOUS
  <2> QED  BY <2>1, <2>2
<1>5. ASSUME NEW k \in Nat, k \in P PROVE k + 1 \in P
  <2> SUFFICES ASSUME k + 1 <= Places PROVE Ones(k + 1) /\ Later(k + 1) /\ Asked(k + 1)
    OBVIOUS
  <2> DEFINE i == k + 1
             b == g[k]
             c == g[i]
             w == WorkerOrder[i]
  <2>1. i \in 1..Places /\ i - 1 = k /\ k \in 0..Places /\ i \in 0..Places /\ i \in k + 1..Places
    BY <1>2
  <2>2. b \in Allocs(req, seen) /\ c \in Allocs(req, seen)  BY <1>1, <2>1
  <2>3. c = TurnAt(req, seen, D, i, b)
    <3>1. g[i] = TurnAt(req, seen, D, i, g[i - 1])  BY <1>1, <2>1
    <3> QED  BY <2>1, <3>1
  <2>4. Ones(k) /\ Later(k) /\ Asked(k)  BY <1>2, <1>5, <2>1
  <2>5. \A j \in 1..i : j = i \/ j \in 1..k  BY <1>2
  <2>6. \A j \in i + 1..Places : j \in k + 1..Places /\ WorkerOrder[j] # w
    <3>1. ASSUME NEW j \in i + 1..Places PROVE j \in k + 1..Places /\ j \in 1..Places /\ j # i
      BY <1>2
    <3> QED  BY <1>2, <2>1, <3>1
  <2>7. \A j \in 1..k : WorkerOrder[j] # w
    <3>1. ASSUME NEW j \in 1..k PROVE j \in 1..Places /\ j # i  BY <1>2, <2>1
    <3> QED  BY <1>2, <2>1, <3>1
  <2>8. w \in D => b[w] = {}  BY <2>1, <2>4
  <2>9. Asked(i) <=> \/ Enough(req, c)
                     \/ \A j \in 1..i : WorkerOrder[j] \in D =>
                          (FitIn(req, seen[WorkerOrder[j]]) # {} => c[WorkerOrder[j]] # {})
    OBVIOUS
  <2>10. Asked(k) <=> \/ Enough(req, b)
                      \/ \A j \in 1..k : WorkerOrder[j] \in D =>
                           (FitIn(req, seen[WorkerOrder[j]]) # {} => b[WorkerOrder[j]] # {})
    OBVIOUS
  <2>11. /\ Ones(k) <=> \A v \in D : AtMostOne(b[v])
         /\ Ones(i) <=> \A v \in D : AtMostOne(c[v])
         /\ Later(k) <=> \A j \in k + 1..Places : WorkerOrder[j] \in D => b[WorkerOrder[j]] = {}
         /\ Later(i) <=> \A j \in i + 1..Places : WorkerOrder[j] \in D => c[WorkerOrder[j]] = {}
    OBVIOUS
  <2>12. WorkerOrder[i] = w  OBVIOUS
  <2> HIDE DEF b, c, w, Ones, Later, Asked
  <2>13. CASE w \notin D /\ c = b
    <3>1. Ones(i)  BY <2>4, <2>11, <2>13
    <3>2. Later(i)  BY <2>4, <2>6, <2>11, <2>13
    <3>3. Asked(i)  BY <2>4, <2>5, <2>9, <2>10, <2>12, <2>13
    <3> QED  BY <3>1, <3>2, <3>3
  <2>14. CASE w \in D /\ Gives(req, seen, w, b, c)
    <3>1. \A v \in D \ {w} : c[v] = b[v]  BY <2>14 DEF Gives
    <3>2. Later(i)  BY <2>4, <2>6, <2>11, <3>1
    <3>3. CASE c = b /\ (Enough(req, b) \/ FitIn(req, seen[w]) \subseteq b[w])
      <4>1. Ones(i)  BY <2>4, <2>11, <3>3
      <4>2. Asked(i)  BY <2>4, <2>5, <2>8, <2>9, <2>10, <2>12, <2>14, <3>3
      <4> QED  BY <3>2, <4>1, <4>2
    <3>4. CASE ~Enough(req, b) /\ \E x : c[w] = b[w] \cup {x}
      <4>1. PICK x : c[w] = {x}  BY <2>8, <2>14, <3>4
      <4>2. Ones(i)
        <5>1. AtMostOne(c[w])  BY <4>1 DEF AtMostOne
        <5> QED  BY <2>4, <2>11, <3>1, <5>1
      <4>3. Asked(i)
        <5>1. ASSUME NEW j \in 1..i, WorkerOrder[j] \in D, FitIn(req, seen[WorkerOrder[j]]) # {}
              PROVE  c[WorkerOrder[j]] # {}
          <6>1. CASE j = i  BY <2>12, <4>1, <6>1
          <6>2. CASE j \in 1..k
            <7>1. b[WorkerOrder[j]] # {}  BY <2>4, <2>10, <3>4, <5>1, <6>2
            <7>2. WorkerOrder[j] # w  BY <2>7, <6>2
            <7> QED  BY <3>1, <5>1, <7>1, <7>2
          <6> QED  BY <2>5, <6>1, <6>2
        <5> QED  BY <2>9, <5>1
      <4> QED  BY <3>2, <4>2, <4>3
    <3> QED  BY <2>14, <3>3, <3>4 DEF Gives
  <2>15. \/ w \in D /\ Gives(req, seen, w, b, c)
         \/ w \notin D /\ c = b
    <3> HIDE DEF i
    <3>1. \/ WorkerOrder[i] \in D /\ Gives(req, seen, WorkerOrder[i], b, TurnAt(req, seen, D, i, b))
          \/ WorkerOrder[i] \notin D /\ TurnAt(req, seen, D, i, b) = b
      BY <2>1, <2>2, TurnStep
    <3> QED  BY <2>3, <2>12, <3>1
  <2> QED  BY <2>13, <2>14, <2>15
<1>6. Nat \subseteq P
  <2> HIDE DEF P
  <2> QED  BY <1>4, <1>5, Induction
<1>7. Ones(Places) /\ Asked(Places)  BY <1>2, <1>6
<1>8. \A w \in D : \E j \in 1..Places : WorkerOrder[j] = w  BY SeenAre, OrderIs
<1> QED  BY <1>7, <1>8 DEF AllAsked

\* Where each worker gave one at most, two GPUs are of two workers.
LEMMA OnesNeedTwo ==
  ASSUME NEW req \in Requirements, NEW seen \in Seen, NEW a \in Allocs(req, seen),
         \A w \in DOMAIN seen : AtMostOne(a[w]), GpusIn(a) >= 2
  PROVE  TwoHold(seen, a)
<1> SUFFICES ASSUME ~TwoHold(seen, a) PROVE FALSE  OBVIOUS
<1> DEFINE G == Given(a)
<1>1. DOMAIN a = DOMAIN seen /\ IsFiniteSet(G)  BY AllocsFinite
<1>2. ASSUME NEW y \in G, NEW z \in G PROVE y = z
  <2>1. PICK v \in DOMAIN seen : y \in {v} \X a[v]  BY <1>1 DEF Given
  <2>2. PICK w \in DOMAIN seen : z \in {w} \X a[w]  BY <1>1 DEF Given
  <2>3. PICK p \in a[v] : y = <<v, p>>  BY <2>1
  <2>4. PICK q \in a[w] : z = <<w, q>>  BY <2>2
  <2>5. v = w  BY <2>3, <2>4 DEF TwoHold
  <2>6. p = q  BY <2>3, <2>4, <2>5 DEF AtMostOne
  <2> QED  BY <2>3, <2>4, <2>5, <2>6
<1> HIDE DEF G
<1>3. CASE G = {}
  <2>1. Cardinality(G) = 0  BY <1>3, FS_EmptySet
  <2> QED  BY <2>1 DEF GpusIn, G
<1>4. CASE G # {}
  <2>1. PICK y \in G : G = {y}  BY <1>2, <1>4
  <2>2. Cardinality(G) = 1  BY <2>1, FS_Singleton
  <2> QED  BY <2>2 DEF GpusIn, G
<1> QED  BY <1>3, <1>4

-----------------------------------------------------------------------------
(* Gangs: all rounds                                                       *)

Askable(req, seen) == {w \in DOMAIN seen : req.nccl => seen[w].nccl # None}
Holders(seen, a) == {w \in DOMAIN seen : a[w] # {}}
\* Every fit GPU has been given.
Full(req, seen, a) == \A w \in DOMAIN seen : FitIn(req, seen[w]) \subseteq a[w]

AreRounds(req, seen, g) ==
  /\ g \in [Nat -> Allocs(req, seen)]
  /\ g[0] = FirstRound(req, seen, WorkerOrder)
  /\ \A k \in Nat : g[k + 1] = NextRound(req, seen, WorkerOrder, g[k])
  /\ Rounds(req, seen, WorkerOrder) = g[req.count]

\* The first round and the next ones do what a round does.
LEMMA FirstRoundIs ==
  ASSUME NEW req \in Requirements, NEW seen \in Seen
  PROVE  RoundDoes(req, seen, Askable(req, seen), Nothing(seen), FirstRound(req, seen, WorkerOrder))
<1> DEFINE p == Askable(req, seen)
           a == Nothing(seen)
<1>1. p \in SUBSET DOMAIN seen  BY DEF Askable
<1>2. a \in Allocs(req, seen)  BY NothingGiven
<1>3. FirstRound(req, seen, WorkerOrder) = Round(req, seen, WorkerOrder, p, a)
  BY DEF FirstRound, Askable, Nothing
<1> HIDE DEF p, a
<1>4. RoundDoes(req, seen, p, a, Round(req, seen, WorkerOrder, p, a))  BY <1>1, <1>2, RoundIs
<1>5. RoundDoes(req, seen, p, a, FirstRound(req, seen, WorkerOrder))  BY <1>3, <1>4
<1> QED  BY <1>5 DEF p, a

LEMMA NextRoundIs ==
  ASSUME NEW req \in Requirements, NEW seen \in Seen, NEW a \in Allocs(req, seen)
  PROVE  RoundDoes(req, seen, Holders(seen, a), a, NextRound(req, seen, WorkerOrder, a))
<1> DEFINE p == Holders(seen, a)
<1>1. p \in SUBSET DOMAIN seen  BY DEF Holders
<1>2. NextRound(req, seen, WorkerOrder, a) = Round(req, seen, WorkerOrder, p, a)
  BY DEF NextRound, Holders
<1> HIDE DEF p
<1>3. RoundDoes(req, seen, p, a, Round(req, seen, WorkerOrder, p, a))  BY <1>1, RoundIs
<1>4. RoundDoes(req, seen, p, a, NextRound(req, seen, WorkerOrder, a))  BY <1>2, <1>3
<1> QED  BY <1>4 DEF p

\* The rounds are a run of these.
LEMMA RoundsRun ==
  ASSUME NEW req \in Requirements, NEW seen \in Seen
  PROVE  \E g : AreRounds(req, seen, g)
<1> DEFINE S == Allocs(req, seen)
           a == FirstRound(req, seen, WorkerOrder)
           T(b) == NextRound(req, seen, WorkerOrder, b)
           step == [b \in S |-> T(b)]
           Turns(h) == h = [k \in Nat |->
                              IF k = 0 THEN FirstRound(req, seen, WorkerOrder)
                              ELSE NextRound(req, seen, WorkerOrder, h[k - 1])]
           h == CHOOSE f : Turns(f)
<1>1. Rounds(req, seen, WorkerOrder) = h[req.count]  BY DEF Rounds
<1>2. a \in S  BY FirstRoundIs DEF RoundDoes
<1>3. \A b \in S : T(b) \in S  BY NextRoundIs DEF RoundDoes
<1> HIDE DEF S, a, T, Turns
<1>4. step \in [S -> S]  BY <1>3
<1> HIDE DEF step
<1>5. PICK g : GoesOn(S, a, step, g)  BY <1>2, <1>4, RecursionExists
<1>6. g \in [Nat -> S] /\ g[0] = a /\ \A k \in Nat : g[k + 1] = step[g[k]]  BY <1>5 DEF GoesOn
<1>7. \A k \in Nat : g[k + 1] = T(g[k])  BY <1>6 DEF step
<1>8. Turns(g)
  <2> DEFINE f == [k \in Nat |-> IF k = 0 THEN a ELSE T(g[k - 1])]
  <2>1. ASSUME NEW k \in Nat PROVE g[k] = f[k]
    <3>1. CASE k = 0  BY <1>6, <3>1
    <3>2. CASE k # 0
      <4>1. k - 1 \in Nat /\ (k - 1) + 1 = k  BY <3>2
      <4> QED  BY <1>7, <3>2, <4>1
    <3> QED  BY <3>1, <3>2
  <2>2. g = f
    <3>1. f = [k \in Nat |-> f[k]]  OBVIOUS
    <3>2. g = [k \in Nat |-> g[k]]  BY <1>6
    <3> HIDE DEF f
    <3> QED  BY <2>1, <3>1, <3>2
  <2> QED  BY <2>2 DEF Turns, a, T
<1>9. Turns(h)  BY <1>8
<1> HIDE DEF h
<1>10. h[0] = a  BY <1>9 DEF Turns, a
<1>11. ASSUME NEW k \in Nat PROVE h[k + 1] = T(h[k])
  <2>1. k + 1 \in Nat /\ k + 1 # 0 /\ (k + 1) - 1 = k  OBVIOUS
  <2> QED  BY <1>9, <2>1 DEF Turns, T
<1>12. \A k \in Nat : h[k] \in S
  <2> DEFINE P == {k \in Nat : h[k] \in S}
  <2>1. 0 \in P  BY <1>2, <1>10
  <2>2. \A k \in Nat : k \in P => k + 1 \in P  BY <1>3, <1>11
  <2> HIDE DEF P
  <2>3. Nat \subseteq P  BY <2>1, <2>2, Induction
  <2> QED  BY <2>3 DEF P
<1>13. h = [k \in Nat |-> h[k]]  BY <1>9 DEF Turns
<1>14. h \in [Nat -> S]  BY <1>12, <1>13
<1>15. AreRounds(req, seen, h)  BY <1>1, <1>10, <1>11, <1>14 DEF AreRounds, S, a, T
<1> QED  BY <1>15

\* What is given is fit, and no more than was asked for.
LEMMA RoundsGive ==
  ASSUME NEW req \in Requirements, NEW seen \in Seen
  PROVE  /\ Rounds(req, seen, WorkerOrder) \in Allocs(req, seen)
         /\ GpusIn(Rounds(req, seen, WorkerOrder)) <= req.count
<1>1. PICK g : AreRounds(req, seen, g)  BY RoundsRun
<1>2. /\ \A k \in Nat : g[k] \in Allocs(req, seen)
      /\ g[0] = FirstRound(req, seen, WorkerOrder)
      /\ \A k \in Nat : g[k + 1] = NextRound(req, seen, WorkerOrder, g[k])
      /\ Rounds(req, seen, WorkerOrder) = g[req.count]
  BY <1>1 DEF AreRounds
<1>3. req.count \in Nat  BY RequirementAssumption
<1> DEFINE P == {k \in Nat : GpusIn(g[k]) <= req.count}
<1>4. 0 \in P
  <2>1. Grown(req, seen, Nothing(seen), g[0])  BY <1>2, FirstRoundIs DEF RoundDoes
  <2> QED  BY <1>3, <2>1, NothingGiven DEF Grown
<1>5. ASSUME NEW k \in Nat, k \in P PROVE k + 1 \in P
  <2>1. Grown(req, seen, g[k], g[k + 1])  BY <1>2, NextRoundIs DEF RoundDoes
  <2> QED  BY <1>5, <2>1 DEF Grown
<1> HIDE DEF P
<1>6. Nat \subseteq P  BY <1>4, <1>5, Induction
<1>7. req.count \in P  BY <1>3, <1>6
<1> QED  BY <1>2, <1>3, <1>7 DEF P

\* When two workers have a fit GPU, two give one, and at the end there are enough or every
\* fit GPU has been given.
LEMMA RoundsGiveAll ==
  ASSUME NEW req \in Requirements, ~req.nccl, req.count >= 2, NEW seen \in Seen,
         NEW u \in DOMAIN seen, NEW v \in DOMAIN seen, u # v,
         FitIn(req, seen[u]) # {}, FitIn(req, seen[v]) # {}
  PROVE  LET alloc == Rounds(req, seen, WorkerOrder)
         IN TwoHold(seen, alloc) /\ (Enough(req, alloc) \/ Full(req, seen, alloc))
<1>1. PICK g : AreRounds(req, seen, g)  BY RoundsRun
<1>2. /\ \A k \in Nat : g[k] \in Allocs(req, seen)
      /\ g[0] = FirstRound(req, seen, WorkerOrder)
      /\ \A k \in Nat : g[k + 1] = NextRound(req, seen, WorkerOrder, g[k])
      /\ Rounds(req, seen, WorkerOrder) = g[req.count]
  BY <1>1 DEF AreRounds
<1>3. req.count \in Nat  BY RequirementAssumption
<1> DEFINE Good(k) == /\ TwoHold(seen, g[k]) /\ AllAsked(req, seen, g[k])
                      /\ Enough(req, g[k]) \/ Full(req, seen, g[k]) \/ GpusIn(g[k]) >= k
           P == {k \in Nat : Good(k)}
<1>4. 0 \in P
  <2> DEFINE b == g[0]
             a == Nothing(seen)
  <2>1. b = Round(req, seen, WorkerOrder, DOMAIN seen, a)
    <3>1. Askable(req, seen) = DOMAIN seen  BY DEF Askable
    <3> QED  BY <1>2, <3>1 DEF FirstRound, Nothing, Askable
  <2>2. PICK h : IsRound(req, seen, DOMAIN seen, a, h)
    <3>1. a \in Allocs(req, seen)  BY NothingGiven
    <3> HIDE DEF a
    <3> QED  BY <3>1, RoundRuns
  <2>3. b = h[Places]  BY <2>1, <2>2 DEF IsRound
  <2>4. (\A w \in DOMAIN seen : AtMostOne(b[w])) /\ AllAsked(req, seen, b)
    BY <2>2, <2>3, FirstRoundAsks
  <2>5. b \in Allocs(req, seen)  BY <1>2
  <2> HIDE DEF a, b
  <2>6. GpusIn(b) \in Nat  BY <2>5, AllocsFinite
  <2>7. TwoHold(seen, b)
    <3>1. CASE Enough(req, b)
      <4>1. GpusIn(b) >= 2  BY <1>3, <2>6, <3>1 DEF Enough
      <4> QED  BY <2>4, <2>5, <4>1, OnesNeedTwo
    <3>2. CASE ~Enough(req, b)  BY <2>4, <3>2 DEF AllAsked, TwoHold
    <3> QED  BY <3>1, <3>2
  <2>8. GpusIn(b) >= 0  BY <2>6
  <2> QED  BY <2>4, <2>7, <2>8 DEF b
<1>5. ASSUME NEW k \in Nat, k \in P PROVE k + 1 \in P
  <2> DEFINE a == g[k]
             b == g[k + 1]
  <2>1. a \in Allocs(req, seen) /\ b = NextRound(req, seen, WorkerOrder, a)  BY <1>2
  <2>2. TwoHold(seen, a) /\ AllAsked(req, seen, a)
        /\ (Enough(req, a) \/ Full(req, seen, a) \/ GpusIn(a) >= k)
    BY <1>5
  <2> HIDE DEF a, b
  <2>3. RoundDoes(req, seen, Holders(seen, a), a, b)  BY <2>1, NextRoundIs
  <2>4. b \in Allocs(req, seen) /\ Grown(req, seen, a, b)  BY <2>3 DEF RoundDoes
  <2>5. (\A w \in DOMAIN seen : a[w] \subseteq b[w]) /\ GpusIn(a) <= GpusIn(b)
    BY <2>4 DEF Grown
  <2>6. GpusIn(a) \in Nat /\ GpusIn(b) \in Nat  BY <2>1, <2>4, AllocsFinite
  <2>7. Enough(req, a) => Enough(req, b)  BY <1>3, <2>5, <2>6 DEF Enough
  <2>8. TwoHold(seen, b) /\ AllAsked(req, seen, b)
    BY <2>2, <2>5, <2>7 DEF TwoHold, AllAsked
  <2>9. Full(req, seen, a) => Full(req, seen, b)  BY <2>5 DEF Full
  <2>10. Enough(req, b) \/ Full(req, seen, b) \/ GpusIn(b) >= k + 1
    <3>1. CASE ~Enough(req, a) /\ GpusIn(a) >= k
      <4>1. CASE GpusIn(b) >= GpusIn(a) + 1  BY <2>6, <3>1, <4>1
      <4>2. CASE b = a /\ \A w \in Holders(seen, a) : FitIn(req, seen[w]) \subseteq a[w]
        <5>1. Full(req, seen, a)  BY <2>2, <3>1, <4>2 DEF Full, AllAsked, Holders
        <5> QED  BY <2>9, <5>1
      <4> QED  BY <2>3, <4>1, <4>2 DEF RoundDoes
    <3> QED  BY <2>2, <2>7, <2>9, <3>1
  <2> QED  BY <2>8, <2>10 DEF b
<1>6. Nat \subseteq P
  <2> HIDE DEF P
  <2> QED  BY <1>4, <1>5, Induction
<1>7. Good(req.count)  BY <1>3, <1>6
<1> QED  BY <1>2, <1>7 DEF Enough

-----------------------------------------------------------------------------
(* Gangs: what an allocation is                                            *)

\* Two different elements make a cardinality of two, and the other way round.
LEMMA TwoOf ==
  ASSUME NEW S, IsFiniteSet(S)
  PROVE  Cardinality(S) >= 2 <=> \E x, y \in S : x # y
<1>1. Cardinality(S) \in Nat  BY FS_CardinalityType
<1>2. Cardinality(S) = 0 <=> S = {}  BY FS_EmptySet
<1>3. Cardinality(S) = 1 <=> \E x : S = {x}  BY FS_Singleton
<1>4. Cardinality(S) >= 2 <=> Cardinality(S) # 0 /\ Cardinality(S) # 1  BY <1>1
<1>5. (\E x, y \in S : x # y) <=> S # {} /\ ~\E x : S = {x}  OBVIOUS
<1> QED  BY <1>2, <1>3, <1>4, <1>5

\* Workers hold a GPU as TwoHold says or as the code counts them.
LEMMA HoldersCounted ==
  ASSUME NEW seen \in Seen, NEW a
  PROVE  Cardinality(Holders(seen, a)) >= 2 <=> TwoHold(seen, a)
<1>1. IsFiniteSet(Holders(seen, a))  BY SeenAre, FS_Subset DEF Holders
<1>2. TwoHold(seen, a) <=> \E v, w \in Holders(seen, a) : v # w  BY DEF TwoHold, Holders
<1> QED  BY <1>1, <1>2, TwoOf

\* The rounds end in an allocation.
LEMMA RoundsAreSome ==
  ASSUME NEW req \in Requirements, NEW seen \in Seen
  PROVE  Rounds(req, seen, WorkerOrder) # None
<1> DEFINE all == UNION {Uuids(c.gpus) : c \in UNION {Condition[w] : w \in Worker}}
           a == Rounds(req, seen, WorkerOrder)
<1>1. ASSUME NEW o \in Observations PROVE FitIn(req, o) \subseteq all
  <2>1. PICK w \in Worker : o \in ReportsOf(w)  BY DEF Observations
  <2>2. PICK c \in Condition[w] : o = Probe(w, c, 0) /\ o # None  BY <2>1 DEF ReportsOf
  <2>3. o.gpus = c.gpus  BY <2>2 DEF Probe, ProbeNvml, ProbeSmi
  <2>4. FitIn(req, o) \subseteq Uuids(c.gpus)  BY <2>3 DEF FitIn, Uuids
  <2> QED  BY <2>1, <2>2, <2>4
<1>2. \A W \in SUBSET Worker : None \notin [W -> SUBSET all]  BY AllocationAssumption
<1> HIDE DEF all
<1>3. a \in Allocs(req, seen)  BY RoundsGive
<1> HIDE DEF a
<1>4. /\ a = [w \in DOMAIN seen |-> a[w]]
      /\ \A w \in DOMAIN seen : a[w] \subseteq FitIn(req, seen[w])
  BY <1>3, AllocsFinite
<1>5. \A w \in DOMAIN seen : a[w] \in SUBSET all  BY <1>1, <1>4, SeenAre
<1>6. a \in [DOMAIN seen -> SUBSET all]  BY <1>4, <1>5
<1> QED  BY <1>2, <1>6, SeenAre DEF a

\* A gang has the GPUs asked for, all fit and of two workers.
LEMMA GangIsFit ==
  ASSUME NEW req \in Requirements, NEW seen \in Seen, NEW fabric,
         AllocateGang(req, seen, WorkerOrder, fabric) # None
  PROVE  LET alloc == AllocateGang(req, seen, WorkerOrder, fabric)
         IN /\ GpusIn(alloc) = req.count
            /\ \A w \in DOMAIN seen : alloc[w] \subseteq FitIn(req, seen[w])
            /\ Cardinality(Holders(seen, alloc)) >= 2
<1> DEFINE a == Rounds(req, seen, WorkerOrder)
<1>1. /\ AllocateGang(req, seen, WorkerOrder, fabric) = a
      /\ GpusIn(a) >= req.count /\ Cardinality({w \in DOMAIN a : a[w] # {}}) >= 2
  BY DEF AllocateGang
<1>2. a \in Allocs(req, seen) /\ GpusIn(a) <= req.count  BY RoundsGive
<1> HIDE DEF a
<1>3. /\ DOMAIN a = DOMAIN seen /\ GpusIn(a) \in Nat
      /\ \A w \in DOMAIN seen : a[w] \subseteq FitIn(req, seen[w])
  BY <1>2, AllocsFinite
<1>4. req.count \in Nat  BY RequirementAssumption
<1>5. GpusIn(a) = req.count  BY <1>1, <1>2, <1>3, <1>4
<1>6. Cardinality(Holders(seen, a)) >= 2  BY <1>1, <1>3 DEF Holders
<1> QED  BY <1>1, <1>3, <1>5, <1>6

\* Two workers with a fit GPU, and enough of them, are a gang.
LEMMA GangIsFound ==
  ASSUME NEW req \in Requirements, NEW seen \in Seen, NEW fabric,
         ~req.nccl, req.count >= 2, req.total = 0,
         DOMAIN seen \subseteq Connected(req, fabric),
         NEW fit, fit = [w \in DOMAIN seen |-> FitIn(req, seen[w])],
         Cardinality(Holders(seen, fit)) >= 2, GpusIn(fit) >= req.count
  PROVE  AllocateGang(req, seen, WorkerOrder, fabric) # None
<1> DEFINE a == Rounds(req, seen, WorkerOrder)
<1>1. TwoHold(seen, fit)  BY HoldersCounted
<1>2. PICK u, v \in DOMAIN seen : u # v /\ fit[u] # {} /\ fit[v] # {}  BY <1>1 DEF TwoHold
<1>3. FitIn(req, seen[u]) # {} /\ FitIn(req, seen[v]) # {}  BY <1>2
<1>4. TwoHold(seen, a) /\ (Enough(req, a) \/ Full(req, seen, a))
  BY <1>2, <1>3, RoundsGiveAll
<1>5. a \in Allocs(req, seen) /\ a # None  BY RoundsGive, RoundsAreSome
<1>6. AllocateGang(req, seen, WorkerOrder, fabric) =
        IF /\ Cardinality(DOMAIN seen) >= 2 /\ DOMAIN seen \subseteq Connected(req, fabric)
           /\ GpusIn(a) >= req.count
           /\ Cardinality({w \in DOMAIN a : a[w] # {}}) >= 2
           /\ EnoughMemory(req, seen, a)
          THEN a ELSE None
  BY DEF AllocateGang
<1> HIDE DEF a
<1>7. /\ DOMAIN a = DOMAIN seen /\ GpusIn(a) \in Nat /\ IsFiniteSet(Given(a))
      /\ \A w \in DOMAIN seen : a[w] \subseteq FitIn(req, seen[w])
  BY <1>5, AllocsFinite
<1>8. Cardinality(DOMAIN seen) >= 2  BY <1>2, SeenAre, TwoOf
<1>9. Cardinality({w \in DOMAIN a : a[w] # {}}) >= 2
  <2>1. Cardinality(Holders(seen, a)) >= 2  BY <1>4, HoldersCounted
  <2> QED  BY <1>7, <2>1 DEF Holders
<1>10. GpusIn(a) >= req.count
  <2>1. CASE Enough(req, a)  BY <2>1 DEF Enough
  <2>2. CASE Full(req, seen, a)
    <3>1. \A w \in DOMAIN seen : fit[w] = a[w]  BY <1>7, <2>2 DEF Full
    <3>2. DOMAIN fit = DOMAIN seen  OBVIOUS
    <3>3. Given(fit) = Given(a)  BY <1>7, <3>1, <3>2 DEF Given
    <3> QED  BY <3>3 DEF GpusIn
  <2> QED  BY <1>4, <2>1, <2>2
<1>11. EnoughMemory(req, seen, a)  BY DEF EnoughMemory
<1> QED  BY <1>5, <1>6, <1>8, <1>9, <1>10, <1>11

\* What the registry holds of the workers in service is a set of observations to allocate
\* from.
LEMMA ServingSeen ==
  ASSUME ControlInv
  PROVE  [w \in Serving |-> registry[w].observation] \in Seen
<1> DEFINE seen == [w \in Serving |-> registry[w].observation]
<1>1. ASSUME NEW w \in Serving
      PROVE  w \in Worker /\ seen[w] \in Observations /\ seen[w].worker = w
  <2>1. w \in Observed  BY DEF Serving
  <2>2. /\ w \in Worker /\ registry[w].observation \in ReportsOf(w)
        /\ registry[w].observation \in Observations
    BY <2>1, ObservedIsObservation
  <2>3. PICK c \in Condition[w] :
          registry[w].observation = Probe(w, c, 0) /\ registry[w].observation # None
    BY <2>2 DEF ReportsOf
  <2>4. registry[w].observation.worker = w  BY <2>3, ProbeIsOwn
  <2> QED  BY <2>2, <2>4
<1>2. DOMAIN seen = Serving  OBVIOUS
<1>3. seen = [w \in Serving |-> seen[w]]  OBVIOUS
<1> HIDE DEF seen
<1>4. Serving \in SUBSET Worker /\ seen \in [Serving -> Observations]  BY <1>1, <1>3
<1>5. seen \in Seen  BY <1>1, <1>2, <1>4 DEF Seen
<1> QED  BY <1>5 DEF seen

\* A gang has exactly the GPUs asked for, each fit, over two workers at least, and is found
\* whenever two connected workers in service have a fit GPU and all have enough
\* (DistributedGpuScheduler.allocate).
THEOREM GangsAlwaysServe == ControlSpec => []GangsServe
<1>1. ASSUME ControlInv PROVE GangsServe
  <2> DEFINE seen == [w \in Serving |-> registry[w].observation]
  <2>1. seen \in Seen  BY <1>1, ServingSeen
  <2>2. DOMAIN seen = Serving  OBVIOUS
  <2> SUFFICES ASSUME NEW req \in Requirements, NEW fabric \in Fabrics
               PROVE  LET alloc == Gangs[seen][req][fabric]
                          fit == [w \in Serving |-> Fit[seen[w]][req]]
                          easy == req.count >= 2 /\ ~req.nccl /\ req.total = 0
                      IN /\ alloc # None =>
                              /\ GpusIn(alloc) = req.count
                              /\ \A w \in Serving : alloc[w] \subseteq fit[w]
                              /\ Cardinality({w \in Serving : alloc[w] # {}}) >= 2
                         /\ alloc = None /\ easy /\ Serving \subseteq Connected(req, fabric) =>
                              \/ Cardinality({w \in Serving : fit[w] # {}}) < 2
                              \/ GpusIn(fit) < req.count
    BY DEF GangsServe
  <2> HIDE DEF seen
  <2> DEFINE alloc == AllocateGang(req, seen, WorkerOrder, fabric)
             fit == [w \in Serving |-> FitIn(req, seen[w])]
             other == [w \in Serving |-> Fit[seen[w]][req]]
  <2>3. Gangs[seen][req][fabric] = alloc  BY <2>1 DEF Gangs
  <2>4. other = fit
    <3>1. \A w \in Serving : seen[w] \in Observations  BY <2>1, <2>2, SeenAre
    <3>2. \A w \in Serving : Fit[seen[w]][req] = FitIn(req, seen[w])
      BY <3>1 DEF Fit, FitIn
    <3> QED  BY <3>2
  <2>5. alloc # None => /\ GpusIn(alloc) = req.count
                        /\ \A w \in Serving : alloc[w] \subseteq fit[w]
                        /\ Cardinality({w \in Serving : alloc[w] # {}}) >= 2
    BY <2>1, <2>2, GangIsFit DEF Holders
  <2>6. ASSUME req.count >= 2, ~req.nccl, req.total = 0, Serving \subseteq Connected(req, fabric),
               Cardinality({w \in Serving : fit[w] # {}}) >= 2, GpusIn(fit) >= req.count
        PROVE  alloc # None
    <3>1. fit = [w \in DOMAIN seen |-> FitIn(req, seen[w])]  BY <2>2
    <3>2. Cardinality(Holders(seen, fit)) >= 2  BY <2>2, <2>6 DEF Holders
    <3> HIDE DEF fit
    <3> QED  BY <2>1, <2>2, <2>6, <3>1, <3>2, GangIsFound
  <2>7. /\ req.count \in Nat
        /\ Cardinality({w \in Serving : fit[w] # {}}) \in Nat /\ GpusIn(fit) \in Nat
    <3>1. {w \in Serving : fit[w] # {}} \in SUBSET Serving /\ IsFiniteSet(Serving)
      BY <2>1, <2>2, SeenAre
    <3>2. Cardinality({w \in Serving : fit[w] # {}}) \in Nat
      BY <3>1, FS_Subset, FS_CardinalityType
    <3>3. fit \in Allocs(req, seen)  BY <2>2 DEF Allocs
    <3> HIDE DEF fit
    <3>4. GpusIn(fit) \in Nat  BY <2>1, <3>3, AllocsFinite
    <3> QED  BY <3>2, <3>4, RequirementAssumption
  <2> HIDE DEF alloc, fit, other
  <2>8. ~(Cardinality({w \in Serving : fit[w] # {}}) < 2 \/ GpusIn(fit) < req.count) =>
          Cardinality({w \in Serving : fit[w] # {}}) >= 2 /\ GpusIn(fit) >= req.count
    BY <2>7
  <2>9. other = [w \in Serving |-> Fit[seen[w]][req]]  BY DEF other
  <2> QED  BY <2>3, <2>4, <2>5, <2>6, <2>8, <2>9
<1> QED  BY ControlInvAlways, <1>1, PTL

=============================================================================
