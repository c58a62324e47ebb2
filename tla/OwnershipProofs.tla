---------------------------- MODULE OwnershipProofs ----------------------------
(***************************************************************************)
(* The ownership guarantees of the service, for every set of names,         *)
(* addresses, TTLs and versions.                                            *)
(***************************************************************************)
EXTENDS Ownership, SyncLoopProofs

\* Names that a table lists are names.
LEMMA ListedAreNames ==
    ASSUME NEW t \in Tables
    PROVE  t[State].vals \subseteq Names
<1>1. t[State] \in {Absent} \cup RRSets(Names)
  BY DEF Tables
<1> QED BY <1>1, AbsentFacts

\* How a step changes the zone: not at all, by an operator's edit, by the
\* upgrade's call, or by a call of the pass.
LEMMA ZoneSteps ==
    ASSUME TypeInv, Next
    PROVE  \/ zone' = zone
           \/ \E n \in Names : OperatorEdit(n)
           \/ /\ pc = "adopt" /\ (Adopt \/ AdoptFails)
              /\ GetRecords(zone') = [GetRecords(zone) EXCEPT ![State] = Adopted]
           \/ \E k \in Keys :
                 /\ Turn(k) /\ (Change(k) \/ ChangeFails(k))
                 /\ GetRecords(zone') = [GetRecords(zone) EXCEPT ![k] = recs[k]]
                 /\ zone' = [zone EXCEPT ![k] = zone'[k]]
<1>1. CASE Adopt \/ AdoptFails
  <2>1. pc = "adopt" /\ zone' \in {zone, ChangeRecord(zone, State, "Add", Adopted)}
    BY <1>1 DEF Adopt, AdoptFails
  <2> QED BY <1>1, <2>1, AdoptedFacts
<1>2. ASSUME NEW k \in Keys, Change(k) \/ ChangeFails(k), zone' # zone
      PROVE  /\ Turn(k)
             /\ GetRecords(zone') = [GetRecords(zone) EXCEPT ![k] = recs[k]]
             /\ zone' = [zone EXCEPT ![k] = zone'[k]]
  <2>1. Turn(k) /\ zone' = ChangeRecord(zone, k, Op(k), Arg(k))
    BY <1>2 DEF Change, ChangeFails
  <2>2. zone' = [zone EXCEPT ![k] = zone'[k]]
    BY <2>1 DEF ChangeRecord, TypeInv, TypeOK, Zones
  <2> QED BY <2>1, <2>2, ChangeZone DEF TypeInv
<1>3. \/ zone' = zone
      \/ \E n \in Names : OperatorEdit(n)
      \/ Adopt \/ AdoptFails
      \/ \E k \in Keys : Change(k) \/ ChangeFails(k)
  BY DEF Next, Startup, StartupFails, Loop, LoopFails, Environment, Restart, UpgradeCheck,
      UpgradeCheckFails, NewVersion, ForceUpdate, Fetch, FetchPartial, FetchFails,
      Read, ReadFails, ChangeRefused, Notify, Finish, TimePasses, MetadataChange, Crash, BecomeCalm
<1> QED BY <1>1, <1>2, <1>3

\* An operator's edit changes one A record and nothing of the process.
LEMMA EditFacts ==
    ASSUME TypeInv, NEW n \in Names, OperatorEdit(n)
    PROVE  /\ UNCHANGED procVars /\ desired' = desired
           /\ \A k \in Keys \ {n} : zone'[k] = zone[k] /\ GetRecords(zone')[k] = GetRecords(zone)[k]
           /\ State \in Keys \ {n}
<1>1. UNCHANGED procVars /\ desired' = desired /\ \E r : zone' = [zone EXCEPT ![n] = r]
  BY DEF OperatorEdit, envVars
<1>2. \A k \in Keys \ {n} : zone'[k] = zone[k]
  BY <1>1 DEF TypeInv, TypeOK, Zones
<1> QED BY <1>1, <1>2, StateAssumption DEF GetRecords, Keys

\* What a step may bring in: metadata's new names, the upgrade's names.
LEMMA ListedStep ==
    ASSUME TypeInv, OwnInv, Next, Observe
    PROVE  ListedNames(zone') \subseteq Claimed'
<1>0. Claimed \subseteq Claimed' /\ everWanted \subseteq Claimed'
  BY DEF Observe, Claimed
<1>1. CASE zone' = zone
  BY <1>0, <1>1 DEF OwnInv
<1>2. CASE \E n \in Names : OperatorEdit(n)
  BY <1>0, <1>2, EditFacts DEF OwnInv, ListedNames
<1>3. CASE /\ pc = "adopt" /\ zone' # zone
           /\ GetRecords(zone') = [GetRecords(zone) EXCEPT ![State] = Adopted]
  <2>1. GetRecords(zone')[State] = Adopted
    BY <1>3 DEF GetRecords, Keys
  <2>2. ListedNames(zone') = LegacyOwned(view, ttl)
    BY <1>3, <2>1, AdoptedFacts DEF ListedNames
  <2> QED BY <1>3, <2>2 DEF Observe, Claimed
<1>4. ASSUME NEW k \in Keys, GetRecords(zone') = [GetRecords(zone) EXCEPT ![k] = recs[k]]
      PROVE  ListedNames(zone') \subseteq Claimed'
  <2>1. GetRecords(zone')[State] = IF State = k THEN recs[k] ELSE GetRecords(zone)[State]
    BY <1>4 DEF GetRecords, Keys
  <2> QED BY <1>0, <2>1 DEF ListedNames, OwnInv
<1> QED BY <1>1, <1>2, <1>3, <1>4, ZoneSteps

\* What the running pass fetched was wanted.
LEMMA RecsStep ==
    ASSUME TypeInv, OwnInv, Next, Observe
    PROVE  /\ recs'[State].vals \subseteq everWanted'
           /\ \A n \in Names : recs'[n] # Absent => n \in everWanted'
<1>0. everWanted \subseteq everWanted'
  BY DEF Observe
<1>1. CASE recs' = recs
  BY <1>0, <1>1 DEF OwnInv
<1>2. CASE recs' = NoRecs
  BY <1>2, AbsentFacts DEF NoRecs, Keys
<1>3. CASE Fetch \/ FetchPartial
  <2>1. PICK want \in Wants : FetchAnswer(want) /\ \A n \in Names : want[n] \subseteq desired[n]
    BY <1>3 DEF Fetch, FetchPartial, TypeInv, TypeOK
  <2>2. CASE recs' = MetadataRecs(want, ttl)
    <3>1. \A n \in Names : recs'[n] # Absent => n \in Wanted(desired)
      BY <2>1, <2>2 DEF MetadataRecs, Keys, Wanted, Wants
    <3>2. recs'[State].vals \subseteq Names
      BY <2>2, MetadataRecsType, ListedAreNames DEF TypeInv, TypeOK
    <3>3. \A n \in Names : n \in recs'[State].vals <=> recs'[n] # Absent
      BY <2>2, MetadataRecsLists DEF TypeInv, TypeOK
    <3> QED BY <1>0, <3>1, <3>2, <3>3 DEF OwnInv
  <2> QED BY <1>1, <2>1, <2>2 DEF FetchAnswer
<1>4. recs' = recs \/ recs' = NoRecs \/ Fetch \/ FetchPartial
  BY DEF Next, Startup, StartupFails, Loop, LoopFails, Environment, Restart, UpgradeCheck, Adopt,
      UpgradeCheckFails, AdoptFails, NewVersion, ForceUpdate, FetchFails, Read, ReadFails,
      Change, ChangeRefused, ChangeFails, Notify, Finish, TimePasses, MetadataChange, Crash,
      BecomeCalm, OperatorEdit, Die, Abort, EndPass, procVars, passVars
<1> QED BY <1>1, <1>2, <1>3, <1>4

\* One step keeps the invariant of ownership.
LEMMA OwnStep == TypeInv /\ OwnInv /\ [OwnNext]_ownVars => OwnInv'
<1> SUFFICES ASSUME TypeInv, OwnInv, [OwnNext]_ownVars PROVE OwnInv'
  OBVIOUS
<1>1. CASE UNCHANGED ownVars
  BY <1>1 DEF ownVars, vars, histVars, envVars, procVars, passVars, OwnInv, Claimed
<1> SUFFICES ASSUME Next, Observe PROVE OwnInv'
  BY <1>1 DEF OwnNext
<1>2. Wanted(desired)' \subseteq everWanted'
  BY DEF Observe, Wanted
<1>3. Claimed \subseteq Claimed'
  BY DEF Observe, Claimed
<1>4. ASSUME pc' = "apply"
      PROVE  (todo \subseteq Plan(recs, view))' /\ (view[State].vals \subseteq Claimed)'
  <2>1. CASE Read
    BY <1>3, <2>1 DEF Read, OwnInv, ListedNames
  <2>2. CASE pc = "apply" /\ recs' = recs /\ view' = view /\ todo' \subseteq todo
    BY <1>3, <2>2 DEF OwnInv
  <2>3. Read \/ (pc = "apply" /\ recs' = recs /\ view' = view /\ todo' \subseteq todo)
    BY <1>4
    DEF Next, Startup, StartupFails, Loop, LoopFails, Environment, Restart, UpgradeCheck, Adopt,
      UpgradeCheckFails, AdoptFails, NewVersion, ForceUpdate, Fetch, FetchPartial, FetchAnswer,
      FetchFails, ReadFails, Change, Turn, ChangeRefused, ChangeFails, Notify, Finish, TimePasses,
      MetadataChange, Crash, BecomeCalm, OperatorEdit, Die, Abort, EndPass, procVars, passVars
  <2> QED BY <2>1, <2>2, <2>3
<1> QED BY <1>2, <1>4, ListedStep, RecsStep DEF OwnInv

\* The invariant of ownership holds throughout, next to the type invariant.
THEOREM OwnInvariant == OwnSpec => [](TypeInv /\ OwnInv)
<1>1. OwnInit => TypeInv /\ OwnInv
  <2>1. ASSUME OwnInit PROVE OwnInv
    BY <2>1, AbsentFacts DEF OwnInit, Init, OwnInv, Claimed, NoRecs, Keys
  <2> QED BY <2>1, TypeInit DEF OwnInit
<1>2. TypeInv /\ [OwnNext]_ownVars => TypeInv'
  BY TypeStep DEF OwnNext, ownVars
<1> QED BY <1>1, <1>2, OwnStep, PTL DEF OwnSpec

\* The service writes or deletes an A record only under a name that metadata
\* wanted at some time or that the upgrade took over.
THEOREM OnlyClaimed == OwnSpec => OnlyClaimedTouched
<1>1. ASSUME TypeInv, OwnInv, [OwnNext]_ownVars
      PROVE  [ByService =>
                \A n \in Names : zone'[n] # zone[n] => n \in everWanted \cup adopted]_ownVars
  <2>1. SUFFICES ASSUME Next, ByService, NEW n \in Names, zone'[n] # zone[n]
                 PROVE  n \in everWanted \cup adopted
    BY <1>1 DEF OwnNext
  <2>2. zone' # zone /\ n # State /\ n \in Keys
    BY <2>1, StateAssumption DEF Keys
  <2>3. ~\E m \in Names : OperatorEdit(m)
    BY <1>1, <2>1, EditFacts DEF ByService
  <2>4. ~(Adopt \/ AdoptFails)
    BY <1>1, <2>1, <2>2 DEF Adopt, AdoptFails, ChangeRecord, TypeInv, TypeOK, Zones
  <2>5. PICK k \in Keys : Turn(k) /\ zone' = [zone EXCEPT ![k] = zone'[k]]
    BY <1>1, <2>1, <2>2, <2>3, <2>4, ZoneSteps
  <2>6. k = n
    BY <1>1, <2>1, <2>2, <2>5 DEF TypeInv, TypeOK, Zones
  <2>7. n \in Plan(recs, view) /\ view[State].vals \subseteq Claimed
    BY <1>1, <2>5, <2>6 DEF Turn, OwnInv
  <2>8. CASE recs[n] # Absent
    BY <1>1, <2>1, <2>8 DEF OwnInv
  <2>9. CASE recs[n] = Absent
    <3>1. n \in view[State].vals
      BY <2>2, <2>7, <2>9 DEF Plan, ToRemove, ToAdd, ToUpdate, Present, OurRecords
    <3> QED BY <2>7, <3>1 DEF Claimed
  <2> QED BY <2>8, <2>9
<1> QED BY <1>1, OwnInvariant, PTL DEF OwnSpec, OnlyClaimedTouched

-------------------------------------------------------------------------------
\* Which names stay or become the service's in a step.
LEMMA CreatedStep ==
    ASSUME TypeInv, LeakInv, ~interrupted, Next, Observe, NEW n \in created'
    PROVE  /\ n \in Names
           /\ GetRecords(zone')[n] # Absent
           /\ \/ n \in created /\ zone'[n] = zone[n]
              \/ /\ Turn(n) /\ recs[n] # Absent
                 /\ GetRecords(zone') = [GetRecords(zone) EXCEPT ![n] = recs[n]]
<1>0. /\ n \in Names /\ n \in Keys /\ n # State
      /\ IF zone'[n] = zone[n] THEN n \in created ELSE ByService /\ zone'[n] # Absent
  BY StateAssumption DEF Observe, Keys
<1>1. CASE zone'[n] = zone[n]
  BY <1>0, <1>1 DEF LeakInv, GetRecords
<1>2. CASE zone'[n] # zone[n]
  <2>1. ~\E m \in Names : OperatorEdit(m)
    BY <1>0, <1>2, EditFacts DEF ByService
  <2>2. ~(Adopt \/ AdoptFails)
    BY <1>0, <1>2 DEF Adopt, AdoptFails, ChangeRecord, TypeInv, TypeOK, Zones
  <2>3. PICK k \in Keys :
           /\ Turn(k) /\ (Change(k) \/ ChangeFails(k))
           /\ GetRecords(zone') = [GetRecords(zone) EXCEPT ![k] = recs[k]]
           /\ zone' = [zone EXCEPT ![k] = zone'[k]]
    BY <1>2, <2>1, <2>2, ZoneSteps
  <2>4. k = n
    BY <1>0, <1>2, <2>3 DEF TypeInv, TypeOK, Zones
  <2>5. recs[n] # Absent
    <3>1. ASSUME recs[n] = Absent PROVE FALSE
      <4>1. Op(n) = "Remove"
        BY <3>1 DEF Op, OpFor
      <4>2. zone'[n] = Absent
        BY <1>0, <1>2, <2>3, <2>4, <4>1
        DEF Change, ChangeFails, ChangeRecord, TypeInv, TypeOK, Zones
      <4> QED BY <1>0, <1>2, <4>2
    <3> QED BY <3>1
  <2>6. GetRecords(zone')[n] = recs[n]
    BY <1>0, <2>3, <2>4 DEF GetRecords
  <2> QED BY <1>0, <2>3, <2>4, <2>5, <2>6
<1> QED BY <1>1, <1>2

\* Out of a pass, a step that leaves the listed names alone keeps the invariant.
LEMMA QuietStep ==
    ASSUME TypeInv, LeakInv, ~interrupted, Next, Observe, pc # "apply", pc' # "apply",
           ListedNames(zone') = ListedNames(zone),
           pc' \notin {"down", "start", "adopt"},
           pc' = "read" => StateListsWanted'
    PROVE  LeakInv'
<1>1. \A n \in created' : n \in Names /\ GetRecords(zone')[n] # Absent /\ n \in created
  BY CreatedStep DEF Turn
<1> QED BY <1>1 DEF LeakInv

\* A pass lists the zone: what the service owns is wanted or in the plan.
LEMMA ReadKeepsLeakInv ==
    ASSUME TypeInv, LeakInv, ~interrupted, Next, Observe, Read
    PROVE  LeakInv'
<1>1. /\ pc = "read" /\ recs' = recs /\ zone' = zone /\ StateListsWanted
      /\ view' = GetRecords(zone) /\ todo' = Plan(recs, view')
      /\ pc' = (IF todo' = {} THEN "notify" ELSE "apply")
      /\ created \subseteq ListedNames(zone)
  BY DEF Read, Proceed, LeakInv
<1>2. created' = created
  <2>1. \A n \in created : n \in Names
    BY DEF LeakInv
  <2> QED BY <1>1, <2>1 DEF Observe
<1>3. ASSUME NEW n \in created, recs[n] = Absent PROVE n \in todo'
  <2>1. n \in view'[State].vals /\ view'[n] # Absent
    BY <1>1 DEF ListedNames, LeakInv
  <2>2. view'[State] # Absent
    BY <2>1, AbsentFacts
  <2> QED BY <1>1, <1>3, <2>1, <2>2 DEF Plan, ToRemove, OurRecords
<1>4. LeakProgress'
  BY <1>1, <1>2, <1>3 DEF LeakProgress
<1> QED BY <1>1, <1>2, <1>4 DEF LeakInv, StateListsWanted

\* A provider call of the pass succeeds.
LEMMA ChangeKeepsLeakInv ==
    ASSUME TypeInv, LeakInv, ~interrupted, Next, Observe, NEW k \in Keys, Change(k)
    PROVE  LeakInv'
<1>1. /\ pc = "apply" /\ Turn(k) /\ k \in todo /\ todo' = todo \ {k}
      /\ recs' = recs /\ view' = view
      /\ pc' = (IF todo' = {} THEN "notify" ELSE "apply")
      /\ zone' = ChangeRecord(zone, k, Op(k), Arg(k))
      /\ State \in Keys
  BY DEF Change, Turn, Proceed, Keys
<1>2. LeakProgress /\ StateListsWanted
  BY <1>1 DEF LeakInv
<1>3. \A j \in Keys : GetRecords(zone')[j] = IF j = k THEN recs[k] ELSE GetRecords(zone)[j]
  <2>1. GetRecords(zone') = [GetRecords(zone) EXCEPT ![k] = recs[k]]
    BY <1>1, ChangeZone DEF TypeInv
  <2> QED BY <2>1 DEF GetRecords
<1>4. \A n \in created' : n \in Names /\ GetRecords(zone')[n] # Absent
  BY CreatedStep
<1>5. GetRecords(zone')[State] =
         IF State \in Plan(recs, view) \ todo' THEN recs[State] ELSE view[State]
  BY <1>1, <1>2, <1>3 DEF LeakProgress
<1>6. ASSUME NEW n \in created' PROVE recs[n] # Absent \/ n \in todo'
  <2>1. CASE recs[n] # Absent
    BY <2>1
  <2>2. CASE recs[n] = Absent
    <3>1. n \in created /\ n \in Keys
      BY <2>2, CreatedStep DEF Keys
    <3>2. n # k
      BY <1>3, <1>4, <2>2, <3>1
    <3> QED BY <1>1, <1>2, <2>2, <3>1, <3>2 DEF LeakProgress
  <2> QED BY <2>1, <2>2
<1>7. ASSUME NEW j \in todo', recs[j] = Absent PROVE created' \subseteq ListedNames(zone')
  <2>1. j \in todo /\ ~Precedes(j, k, recs, view)
    BY <1>1, <1>7 DEF Turn
  <2>2. recs[k] = Absent
    BY <1>7, <2>1 DEF Precedes, Phase, OpFor
  <2>3. k # State
    <3>1. ASSUME k = State PROVE FALSE
      <4>1. j # State
        BY <1>1, <1>7, <3>1
      <4> QED BY <1>7, <2>1, <2>2, <3>1, <4>1 DEF Precedes, Phase, OpFor
    <3> QED BY <3>1
  <2>4. ListedNames(zone') = ListedNames(zone)
    BY <1>1, <1>3, <2>3 DEF ListedNames
  <2>5. created \subseteq ListedNames(zone)
    BY <1>2, <1>7, <2>1 DEF LeakProgress
  <2>6. created' \subseteq created
    <3> SUFFICES ASSUME NEW n \in created', n \notin created PROVE FALSE
      OBVIOUS
    <3>1. n \in Keys /\ Turn(n) /\ recs[n] # Absent
      BY CreatedStep DEF Keys
    <3> QED BY <1>7, <2>1, <3>1 DEF Turn, Precedes, Phase, OpFor
  <2> QED BY <2>4, <2>5, <2>6
<1>8. LeakProgress'
  BY <1>1, <1>2, <1>5, <1>6, <1>7 DEF LeakProgress
<1>9. CASE pc' = "apply"
  BY <1>1, <1>2, <1>4, <1>8, <1>9 DEF LeakInv, StateListsWanted
<1>10. CASE pc' # "apply"
  <2>1. pc' = "notify" /\ todo' = {}
    BY <1>1, <1>10
  <2>2. ListedNames(zone') = recs[State].vals \/ created' = {}
    <3>1. CASE State \in Plan(recs, view)
      BY <1>5, <2>1, <3>1 DEF ListedNames
    <3>2. CASE State \notin Plan(recs, view)
      <4>1. CASE recs[State] = Absent
        <5>1. \A n \in Names : recs[n] = Absent
          BY <1>2, <4>1, AbsentFacts DEF StateListsWanted
        <5> QED BY <1>4, <1>6, <2>1, <5>1
      <4>2. CASE recs[State] # Absent
        <5>1. view[State].vals = recs[State].vals
          BY <1>1, <3>2, <4>2 DEF Plan, ToAdd, ToUpdate, Present
        <5> QED BY <1>5, <3>2, <5>1 DEF ListedNames
      <4> QED BY <4>1, <4>2
    <3> QED BY <3>1, <3>2
  <2>3. \A n \in created' : n \in recs[State].vals
    BY <1>2, <1>4, <1>6, <2>1 DEF StateListsWanted
  <2> QED BY <1>4, <2>1, <2>2, <2>3 DEF LeakInv
<1> QED BY <1>9, <1>10

\* A provider call is refused: it can only be a removal, made before any address
\* was published.
LEMMA RefusedKeepsLeakInv ==
    ASSUME TypeInv, LeakInv, ~interrupted, Next, Observe, NEW k \in Keys, ChangeRefused(k)
    PROVE  LeakInv'
<1>1. pc = "apply" /\ Turn(k) /\ k \in todo /\ zone' = zone /\ pc' = "poll"
  BY DEF ChangeRefused, Turn, Abort
<1>2. recs[k] = Absent
  <2>1. ASSUME recs[k] # Absent PROVE FALSE
    <3>1. Op(k) # "Remove"
      BY <2>1 DEF Op, OpFor
    <3>2. Fits(k, Arg(k))
      BY <3>1, ArgFits DEF TypeInv, TypeOK
    <3>3. Arg(k).vals # {}
      BY <3>2, AbsentFacts DEF Fits
    <3> QED BY <3>1, <3>3 DEF ChangeRefused, Accepts
  <2> QED BY <2>1
<1>3. created \subseteq ListedNames(zone)
  BY <1>1, <1>2 DEF LeakInv, LeakProgress
<1>4. created' = created
  BY <1>1 DEF Observe, LeakInv
<1> QED BY <1>1, <1>3, <1>4 DEF LeakInv

\* An operator edits the zone.
LEMMA EditKeepsLeakInv ==
    ASSUME TypeInv, LeakInv, ~interrupted, Next, Observe, NEW m \in Names, OperatorEdit(m)
    PROVE  LeakInv'
<1>1. /\ pc' = pc /\ recs' = recs /\ view' = view /\ todo' = todo /\ ~ByService
      /\ GetRecords(zone')[State] = GetRecords(zone)[State]
  BY EditFacts DEF procVars, passVars, ByService
<1>2. \A n \in created' : n \in created /\ n \in Names /\ zone'[n] = zone[n]
  BY <1>1 DEF Observe
<1>3. \A n \in created' : GetRecords(zone')[n] # Absent
  BY CreatedStep
<1>4. LeakProgress => LeakProgress'
  BY <1>1, <1>2 DEF LeakProgress, ListedNames
<1> QED BY <1>1, <1>2, <1>3, <1>4 DEF LeakInv, StateListsWanted, ListedNames

\* One step keeps the invariant.  A pass that is given up because a call failed
\* either counts as interrupted or looks like one that was refused.
LEMMA LeakStep == TypeInv /\ LeakInv /\ [OwnNext]_ownVars => LeakInv'
<1> SUFFICES ASSUME TypeInv, LeakInv, [OwnNext]_ownVars PROVE LeakInv'
  OBVIOUS
<1>1. CASE UNCHANGED ownVars
  BY <1>1 DEF ownVars, vars, histVars, procVars, passVars, LeakInv, LeakProgress, StateListsWanted
<1> SUFFICES ASSUME Next, Observe, ~interrupted' PROVE LeakInv'
  BY <1>1 DEF OwnNext, LeakInv
<1>0. /\ ~interrupted /\ pc' # "down"
      /\ (pc = "apply" /\ pc' = "poll") => \E k \in Keys : ChangeRefused(k)
  BY DEF Observe
<1>2. CASE Restart \/ UpgradeCheck
  <2>1. zone' = zone /\ pc \in {"down", "start"} /\ pc' \in {"start", "adopt", "poll"}
    BY <1>2 DEF Restart, UpgradeCheck
  <2>2. created' = created
    BY <1>0, <2>1 DEF Observe, LeakInv
  <2> QED BY <1>0, <2>1, <2>2 DEF LeakInv
<1>3. CASE Adopt
  <2>1. pc = "adopt" /\ pc' = "poll" /\ created = {}
    BY <1>0, <1>3 DEF Adopt, LeakInv
  <2>2. created' = {}
    BY <1>0, <2>1, CreatedStep DEF Turn
  <2> QED BY <2>1, <2>2 DEF LeakInv
<1>4. CASE NewVersion \/ ForceUpdate \/ Finish \/ TimePasses \/ FetchFails \/ ReadFails
  BY <1>0, <1>4, QuietStep
  DEF NewVersion, ForceUpdate, Finish, TimePasses, FetchFails, ReadFails, Abort
<1>5. CASE Fetch \/ FetchPartial
  <2>1. PICK want \in Wants : FetchAnswer(want)
    BY <1>5 DEF Fetch, FetchPartial, TypeInv, TypeOK
  <2>2. pc' = "poll" \/ (pc' = "read" /\ recs' = MetadataRecs(want, ttl))
    BY <2>1 DEF FetchAnswer
  <2>3. pc' = "read" => StateListsWanted'
    BY <2>2, MetadataRecsLists DEF StateListsWanted, TypeInv, TypeOK
  <2>4. pc = "fetch" /\ zone' = zone
    BY <1>5 DEF Fetch, FetchPartial
  <2> QED BY <1>0, <2>2, <2>3, <2>4, QuietStep
<1>6. CASE Read
  BY <1>0, <1>6, ReadKeepsLeakInv
<1>7. ASSUME NEW k \in Keys, Change(k) \/ ChangeRefused(k) \/ ChangeFails(k) PROVE LeakInv'
  <2>1. CASE ChangeFails(k)
    <3>1. \E j \in Keys : ChangeRefused(j)
      BY <1>0, <2>1 DEF ChangeFails, Turn, Abort
    <3> QED BY <1>0, <3>1, RefusedKeepsLeakInv
  <2> QED BY <1>0, <1>7, <2>1, ChangeKeepsLeakInv, RefusedKeepsLeakInv
<1>8. ASSUME NEW n \in Names, Notify(n) PROVE LeakInv'
  BY <1>0, <1>8, QuietStep DEF Notify
<1>9. CASE MetadataChange \/ BecomeCalm
  <2>1. UNCHANGED procVars /\ zone' = zone
    BY <1>9 DEF MetadataChange, BecomeCalm
  <2>2. created' = created
    BY <1>0, <2>1 DEF Observe, LeakInv
  <2> QED BY <1>0, <2>1, <2>2 DEF procVars, passVars, LeakInv, LeakProgress, StateListsWanted
<1>10. ASSUME NEW n \in Names, OperatorEdit(n) PROVE LeakInv'
  BY <1>0, <1>10, EditKeepsLeakInv
<1>11. ~UpgradeCheckFails /\ ~AdoptFails /\ ~Crash
  BY <1>0 DEF UpgradeCheckFails, AdoptFails, Crash, Die
<1> QED
  BY <1>2, <1>3, <1>4, <1>5, <1>6, <1>7, <1>8, <1>9, <1>10, <1>11
  DEF Next, Startup, StartupFails, Loop, LoopFails, Environment

\* Until the process ends or a provider call fails for the first time, every
\* address the service published is listed in the ownership state whenever no
\* pass is under way, whatever operators do to the A records in the meantime.
THEOREM NothingLeaks == OwnSpec => []NoLeak
<1>1. OwnInit => TypeInv /\ LeakInv
  <2>1. ASSUME OwnInit PROVE LeakInv
    BY <2>1 DEF OwnInit, Init, LeakInv
  <2> QED BY <2>1, TypeInit DEF OwnInit
<1>2. TypeInv /\ [OwnNext]_ownVars => TypeInv'
  BY TypeStep DEF OwnNext, ownVars
<1>3. TypeInv /\ LeakInv /\ [OwnNext]_ownVars => LeakInv'
  BY LeakStep
<1>4. LeakInv => NoLeak
  BY DEF LeakInv, NoLeak
<1> QED BY <1>1, <1>2, <1>3, <1>4, PTL DEF OwnSpec
===============================================================================
