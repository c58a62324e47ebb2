---------------------------- MODULE PassAuditProofs ----------------------------
(***************************************************************************)
(* What a pass of UpdateProviderDnsRecords guarantees, for every set of     *)
(* names, addresses, TTLs and versions, with failing calls, crashes and     *)
(* operators editing the zone at any time.                                  *)
(***************************************************************************)
EXTENDS PassAudit, SyncLoopProofs

\* The invariant is kept by a step that leaves the pass or stays out of it.
LEMMA OutOfPass ==
    ASSUME ~InPass(pc'), pc' # "read", Audit
    PROVE  PassInv'
BY DEF PassInv, InPass, Audit

\* The invariant is kept by a step of the environment.
LEMMA EnvironmentKeeps ==
    ASSUME TypeOK, PassInv, Audit, UNCHANGED procVars,
           \A k \in Keys : zone'[k] # zone[k] => k \in Names
    PROVE  PassInv'
<1>1. /\ pc' = pc /\ recs' = recs /\ view' = view /\ todo' = todo
      /\ ~ByService
  BY DEF procVars, passVars, ByService
<1>2. CASE ~InPass(pc)
  BY <1>1, <1>2 DEF PassInv, InPass, Audit, StateListsWanted
<1>3. CASE InPass(pc)
  <2>1. touched' = touched \cup {n \in Names : zone'[n] # zone[n]}
    BY <1>1, <1>3 DEF Audit
  <2>2. ASSUME NEW k \in Keys \ touched'
        PROVE  k \notin touched /\ GetRecords(zone')[k] = GetRecords(zone)[k]
    <3>1. k \notin touched /\ zone'[k] = zone[k]
      BY <2>1
    <3> QED BY <3>1 DEF GetRecords
  <2> QED BY <1>1, <1>3, <2>1, <2>2 DEF PassInv, Progress, StateListsWanted
<1> QED BY <1>2, <1>3

\* The invariant is kept by a provider call that succeeds.
LEMMA ChangeKeeps ==
    ASSUME TypeOK, PassInv, Audit, NEW k \in Keys, Change(k)
    PROVE  PassInv'
<1>1. /\ pc = "apply" /\ k \in todo /\ todo' = todo \ {k}
      /\ recs' = recs /\ view' = view /\ InPass(pc')
      /\ pc' = "notify" => todo' = {}
      /\ zone' = ChangeRecord(zone, k, Op(k), Arg(k))
  BY DEF Change, Turn, Proceed, InPass
<1>2. GetRecords(zone') = [GetRecords(zone) EXCEPT ![k] = recs[k]]
  BY <1>1, ChangeZone
<1>3. touched' = touched
  BY <1>1 DEF Audit, InPass, ByService, procVars, passVars
<1>4. Progress /\ StateListsWanted /\ touched \subseteq Names
  BY <1>1 DEF PassInv, InPass
<1>5. \A j \in Keys : GetRecords(zone')[j] = IF j = k THEN recs[k] ELSE GetRecords(zone)[j]
  BY <1>2 DEF GetRecords
<1>6. Progress'
  BY <1>1, <1>3, <1>4, <1>5 DEF Progress
<1> QED BY <1>1, <1>3, <1>4, <1>6 DEF PassInv, StateListsWanted

\* One step of the service and its environment keeps the invariant.
LEMMA PassStep == TypeInv /\ PassInv /\ [AuditNext]_auditVars => PassInv'
<1> SUFFICES ASSUME TypeInv, PassInv, [AuditNext]_auditVars PROVE PassInv'
  OBVIOUS
<1>0. TypeOK
  BY DEF TypeInv
<1>1. CASE UNCHANGED auditVars
  BY <1>1 DEF auditVars, vars, procVars, passVars, PassInv, Progress, StateListsWanted, InPass
<1> SUFFICES ASSUME Next, Audit PROVE PassInv'
  BY <1>1 DEF AuditNext
<1>2. CASE Startup \/ StartupFails
  <2>1. ~InPass(pc') /\ pc' # "read"
    BY <1>2 DEF Startup, StartupFails, Restart, UpgradeCheck, Adopt, UpgradeCheckFails,
                AdoptFails, Die, InPass
  <2> QED BY <2>1, OutOfPass
<1>3. CASE NewVersion \/ ForceUpdate \/ FetchFails \/ ReadFails \/ Finish \/ Crash
  <2>1. ~InPass(pc') /\ pc' # "read"
    BY <1>3 DEF NewVersion, ForceUpdate, FetchFails, ReadFails, Finish, Crash, Abort, Die, InPass
  <2> QED BY <2>1, OutOfPass
<1>4. CASE Fetch \/ FetchPartial
  <2>1. PICK want \in Wants : FetchAnswer(want)
    BY <1>0, <1>4 DEF Fetch, FetchPartial, TypeOK
  <2>2. CASE pc' = "poll"
    BY <2>2, OutOfPass DEF InPass
  <2>3. CASE pc' # "poll"
    <3>1. pc' = "read" /\ recs' = MetadataRecs(want, ttl)
      BY <2>1, <2>3 DEF FetchAnswer
    <3>2. StateListsWanted'
      BY <1>0, <3>1, MetadataRecsLists DEF StateListsWanted, TypeOK
    <3> QED BY <3>1, <3>2 DEF PassInv, InPass, Audit
  <2> QED BY <2>2, <2>3
<1>5. CASE Read
  <2>1. /\ pc = "read" /\ recs' = recs /\ zone' = zone
        /\ view' = GetRecords(zone) /\ todo' = Plan(recs, view')
        /\ pc' = (IF todo' = {} THEN "notify" ELSE "apply")
    BY <1>5 DEF Read, Proceed
  <2>2. touched' = {} /\ StateListsWanted
    BY <2>1 DEF Audit, InPass, PassInv
  <2> QED BY <2>1, <2>2 DEF PassInv, Progress, StateListsWanted, InPass
<1>6. ASSUME NEW k \in Keys, Change(k) PROVE PassInv'
  BY <1>0, <1>6, ChangeKeeps
<1>7. ASSUME NEW k \in Keys, ChangeRefused(k) \/ ChangeFails(k) PROVE PassInv'
  <2>1. ~InPass(pc') /\ pc' # "read"
    BY <1>7 DEF ChangeRefused, ChangeFails, Abort, InPass
  <2> QED BY <2>1, OutOfPass
<1>8. ASSUME NEW n \in Names, Notify(n) PROVE PassInv'
  <2>1. /\ pc = "notify" /\ pc' = pc /\ recs' = recs /\ view' = view /\ todo' = todo
        /\ zone' = zone
    BY <1>8 DEF Notify
  <2>2. touched' = touched
    BY <2>1 DEF Audit, InPass, PassInv
  <2> QED BY <2>1, <2>2 DEF PassInv, Progress, StateListsWanted, InPass
<1>9. CASE TimePasses
  BY <1>9, OutOfPass DEF TimePasses, InPass
<1>10. CASE MetadataChange \/ BecomeCalm
  BY <1>0, <1>10, EnvironmentKeeps DEF MetadataChange, BecomeCalm
<1>11. ASSUME NEW n \in Names, OperatorEdit(n) PROVE PassInv'
  <2>1. UNCHANGED procVars /\ \E r : zone' = [zone EXCEPT ![n] = r]
    BY <1>11 DEF OperatorEdit
  <2>2. \A k \in Keys : zone'[k] # zone[k] => k \in Names
    BY <1>0, <2>1 DEF TypeOK, Zones
  <2> QED BY <1>0, <2>1, <2>2, EnvironmentKeeps
<1> QED
  BY <1>2, <1>3, <1>4, <1>5, <1>6, <1>7, <1>8, <1>9, <1>10, <1>11
  DEF Next, Loop, LoopFails, Environment

-------------------------------------------------------------------------------
\* The invariant of a pass holds throughout, next to the type invariant.
THEOREM PassInvariant == AuditSpec => [](TypeInv /\ PassInv)
<1>1. AuditInit => TypeInv /\ PassInv
  BY TypeInit DEF AuditInit, Init, PassInv, InPass
<1>2. TypeInv /\ [AuditNext]_auditVars => TypeInv'
  BY TypeStep DEF AuditNext, auditVars
<1> QED BY <1>1, <1>2, PassStep, PTL DEF AuditSpec

\* A pass that reports success has done what it planned and nothing else, on
\* every name that no operator edited after the pass listed the zone.
THEOREM SuccessApplied == AuditSpec => []SuccessMeansApplied
<1>1. ASSUME TypeInv, PassInv, pc = "notify", NEW k \in Keys \ touched
      PROVE  IF recs[k] # Absent THEN GetRecords(zone)[k].vals = recs[k].vals
             ELSE IF k \in OurRecords(view) THEN GetRecords(zone)[k] = Absent
             ELSE GetRecords(zone)[k] = view[k]
  <2>1. GetRecords(zone)[k] = IF k \in Plan(recs, view) THEN recs[k] ELSE view[k]
    BY <1>1 DEF PassInv, InPass, Progress
  <2>2. CASE recs[k] # Absent
    <3>1. k \notin Plan(recs, view) => view[k].vals = recs[k].vals
      BY <2>2 DEF Plan, ToAdd, ToUpdate, Present
    <3> QED BY <2>1, <2>2, <3>1
  <2>3. CASE recs[k] = Absent
    <3>1. k \in Plan(recs, view) <=> k \in OurRecords(view)
      BY <2>3 DEF Plan, ToRemove, ToAdd, ToUpdate, Present
    <3> QED BY <2>1, <2>3, <3>1
  <2> QED BY <2>2, <2>3
<1>2. TypeInv /\ PassInv => SuccessMeansApplied
  BY <1>1 DEF SuccessMeansApplied
<1> QED BY <1>2, PassInvariant, PTL

\* In a pass the list of the ownership state changes only by the pass's own
\* call for the state record, which writes the names metadata wants.
LEMMA StateChange ==
    ASSUME TypeInv, Next, pc = "apply", ListedNames(zone') # ListedNames(zone)
    PROVE  Turn(State) /\ ListedNames(zone') = recs[State].vals
<1>0. TypeOK /\ State \in Keys
  BY DEF TypeInv, Keys
<1>1. zone' # zone
  OBVIOUS
<1>2. CASE \E n \in Names : OperatorEdit(n)
  <2>1. PICK n \in Names : \E r : zone' = [zone EXCEPT ![n] = r]
    BY <1>2 DEF OperatorEdit
  <2>2. zone'[State] = zone[State]
    BY <1>0, <2>1, StateAssumption DEF TypeOK, Zones
  <2>3. ListedNames(zone') = ListedNames(zone)
    BY <1>0, <2>2 DEF ListedNames, GetRecords
  <2> QED BY <2>3
<1>3. CASE \E k \in Keys : Change(k) \/ ChangeFails(k)
  <2>1. PICK k \in Keys : Turn(k) /\ zone' = ChangeRecord(zone, k, Op(k), Arg(k))
    BY <1>1, <1>3 DEF Change, ChangeFails
  <2>2. GetRecords(zone') = [GetRecords(zone) EXCEPT ![k] = recs[k]]
    BY <1>0, <2>1, ChangeZone
  <2>3. GetRecords(zone')[State] = IF State = k THEN recs[k] ELSE GetRecords(zone)[State]
    BY <1>0, <2>2 DEF GetRecords
  <2> QED BY <2>1, <2>3 DEF ListedNames
<1>4. Next => (\E n \in Names : OperatorEdit(n)) \/ (\E k \in Keys : Change(k) \/ ChangeFails(k))
  BY <1>1
  DEF Next, Startup, StartupFails, Loop, LoopFails, Environment, Restart, UpgradeCheck, Adopt,
      UpgradeCheckFails, AdoptFails, NewVersion, ForceUpdate, Fetch, FetchPartial, FetchFails,
      Read, ReadFails, ChangeRefused, Notify, Finish, TimePasses, MetadataChange, Crash, BecomeCalm
<1> QED BY <1>2, <1>3, <1>4

\* When the call for the state record has its turn, the calls that come before
\* it have been made.
LEMMA BeforeState ==
    ASSUME TypeInv, PassInv, Turn(State), NEW n \in Names \ touched
    PROVE  /\ recs[n] # Absent => GetRecords(zone)[n] # Absent
           /\ (recs[n] = Absent /\ n \in ListedNames(zone)) => GetRecords(zone)[n] = Absent
<1>1. /\ pc = "apply" /\ State \in todo /\ State \in Keys /\ n \in Keys
      /\ Progress /\ touched \subseteq Names /\ State \notin touched /\ StateListsWanted
      /\ State # n
  BY StateAssumption DEF Turn, PassInv, InPass, Keys
<1>2. /\ GetRecords(zone)[State] = view[State]
      /\ GetRecords(zone)[n] = IF n \in Plan(recs, view) \ todo THEN recs[n] ELSE view[n]
  BY <1>1 DEF Progress
<1>3. n \in todo => ~Precedes(n, State, recs, view)
  BY DEF Turn
<1>4. ASSUME recs[n] # Absent PROVE GetRecords(zone)[n] # Absent
  <2>1. n \in recs[State].vals
    BY <1>1, <1>4 DEF StateListsWanted
  <2>2. recs[State] # Absent
    BY <2>1, AbsentFacts
  <2>3. view[n] = Absent => n \in Plan(recs, view) /\ Precedes(n, State, recs, view)
    BY <1>1, <1>4, <2>2 DEF Plan, ToAdd, Present, Precedes, Phase, OpFor
  <2> QED BY <1>2, <1>3, <1>4, <2>3
<1>5. ASSUME recs[n] = Absent, n \in ListedNames(zone) PROVE GetRecords(zone)[n] = Absent
  <2>1. n \in view[State].vals
    BY <1>2, <1>5 DEF ListedNames
  <2>2. view[State] # Absent
    BY <2>1, AbsentFacts
  <2>3. view[n] # Absent => n \in Plan(recs, view)
    BY <1>5, <2>1, <2>2 DEF Plan, ToRemove, OurRecords
  <2>4. Precedes(n, State, recs, view)
    BY <1>1, <1>5, <2>2 DEF Precedes, Phase, OpFor
  <2> QED BY <1>2, <1>3, <1>5, <2>3, <2>4
<1> QED BY <1>4, <1>5

\* A pass extends the ownership state only by names whose address is published.
THEOREM AddressesFirst == AuditSpec => AddressesBeforeState
<1>1. ASSUME TypeInv, PassInv, [AuditNext]_auditVars
      PROVE  [pc = "apply" =>
                \A n \in (ListedNames(zone') \ ListedNames(zone)) \ touched :
                    GetRecords(zone)[n] # Absent]_auditVars
  <2>1. SUFFICES ASSUME Next, pc = "apply",
                        NEW n \in (ListedNames(zone') \ ListedNames(zone)) \ touched
                 PROVE  GetRecords(zone)[n] # Absent
    BY <1>1 DEF AuditNext
  <2>2. Turn(State) /\ ListedNames(zone') = recs[State].vals
    BY <1>1, <2>1, StateChange
  <2>3. n \in recs[State].vals /\ StateListsWanted
    BY <1>1, <2>1, <2>2 DEF PassInv, InPass
  <2>4. n \in Names
    <3>1. recs[State] \in {Absent} \cup RRSets(Names)
      BY <1>1 DEF TypeInv, TypeOK, Tables
    <3> QED BY <2>3, <3>1, AbsentFacts
  <2>5. recs[n] # Absent
    BY <2>3, <2>4 DEF StateListsWanted
  <2> QED BY <1>1, <2>1, <2>2, <2>4, <2>5, BeforeState
<1> QED BY <1>1, PassInvariant, PTL DEF AuditSpec, AddressesBeforeState

\* A pass drops a name from the ownership state only after its address is gone.
THEOREM AddressesGoneFirst == AuditSpec => StateOutlivesAddresses
<1>1. ASSUME TypeInv, PassInv, [AuditNext]_auditVars
      PROVE  [pc = "apply" =>
                \A n \in (ListedNames(zone) \ ListedNames(zone')) \ touched :
                    GetRecords(zone)[n] = Absent]_auditVars
  <2>1. SUFFICES ASSUME Next, pc = "apply",
                        NEW n \in (ListedNames(zone) \ ListedNames(zone')) \ touched
                 PROVE  GetRecords(zone)[n] = Absent
    BY <1>1 DEF AuditNext
  <2>2. Turn(State) /\ ListedNames(zone') = recs[State].vals
    BY <1>1, <2>1, StateChange
  <2>3. n \notin recs[State].vals /\ StateListsWanted
    BY <1>1, <2>1, <2>2 DEF PassInv, InPass
  <2>4. n \in Names
    <3>1. GetRecords(zone)[State] \in {Absent} \cup RRSets(Names)
      BY <1>1, GetRecordsType DEF TypeInv, TypeOK, Tables
    <3> QED BY <2>1, <3>1, AbsentFacts DEF ListedNames
  <2>5. recs[n] = Absent
    BY <2>3, <2>4 DEF StateListsWanted
  <2> QED BY <1>1, <2>1, <2>2, <2>4, <2>5, BeforeState
<1> QED BY <1>1, PassInvariant, PTL DEF AuditSpec, StateOutlivesAddresses
===============================================================================
