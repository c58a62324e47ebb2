----------------------------- MODULE SyncLoopProofs -----------------------------
(***************************************************************************)
(* Facts about the operators of the model, type correctness of SyncLoop for *)
(* every set of names, addresses, TTLs and versions, and that no update of  *)
(* the metadata is lost while no request fails.                             *)
(***************************************************************************)
EXTENDS SyncLoop, TLAPS

\* Absent is not a record set with values, and neither is an alias.
LEMMA AbsentFacts ==
    /\ Absent.kind = "none" /\ Absent.vals = {} /\ Absent.ttl = 0
    /\ Alias.kind = "alias" /\ Alias.vals = {}
    /\ \A V : \A r \in RRSets(V) :
          /\ r # Absent /\ r # Alias
          /\ r.kind = "rrset" /\ r.vals # {} /\ r.vals \subseteq V /\ r.ttl \in TTLs
BY DEF Absent, Alias, RRSets

\* A record set built from values and a TTL.
LEMMA RRSetFacts ==
    ASSUME NEW V, NEW v \in SUBSET V, v # {}, NEW t \in TTLs
    PROVE  /\ RRSet(v, t) \in RRSets(V)
           /\ RRSet(v, t).vals = v
           /\ RRSet(v, t).ttl = t
           /\ RRSet(v, t).kind = "rrset"
BY DEF RRSet, RRSets

\* metadata.GetMetadataDnsRecords returns a well-formed map of records.
LEMMA MetadataRecsType ==
    ASSUME NEW want \in Wants, NEW t \in TTLs
    PROVE  MetadataRecs(want, t) \in Tables
<1> DEFINE table == MetadataRecs(want, t)
<1>1. \A n \in Names : table[n] \in {Absent} \cup RRSets(Addrs)
  <2> TAKE n \in Names
  <2>1. table[n] = IF want[n] = {} THEN Absent ELSE RRSet(want[n], t)
    BY DEF MetadataRecs, Keys
  <2>2. want[n] \in SUBSET Addrs
    BY DEF Wants
  <2> QED BY <2>1, <2>2, RRSetFacts
<1>2. table[State] \in {Absent} \cup RRSets(Names)
  <2>1. table[State] = IF Wanted(want) = {} THEN Absent ELSE RRSet(Wanted(want), t)
    BY StateAssumption DEF MetadataRecs, Keys, StateRecord
  <2>2. Wanted(want) \in SUBSET Names
    BY DEF Wanted
  <2> QED BY <2>1, <2>2, RRSetFacts
<1>3. table = [k \in Keys |-> table[k]]
  BY DEF MetadataRecs
<1>4. \A k \in Keys : table[k] \in {Absent} \cup RRSets(Addrs) \cup RRSets(Names)
  BY <1>1, <1>2 DEF Keys
<1>5. table \in [Keys -> {Absent} \cup RRSets(Addrs) \cup RRSets(Names)]
  BY <1>3, <1>4
<1> QED BY <1>1, <1>2, <1>5 DEF Tables

\* The state record of a map of wanted records lists the wanted names.
LEMMA MetadataRecsLists ==
    ASSUME NEW want \in Wants, NEW t \in TTLs, NEW n \in Names
    PROVE  n \in MetadataRecs(want, t)[State].vals <=> MetadataRecs(want, t)[n] # Absent
<1> DEFINE table == MetadataRecs(want, t)
<1>1. table[n] = IF want[n] = {} THEN Absent ELSE RRSet(want[n], t)
  BY DEF MetadataRecs, Keys
<1>2. table[State] = IF Wanted(want) = {} THEN Absent ELSE RRSet(Wanted(want), t)
  BY StateAssumption DEF MetadataRecs, Keys, StateRecord
<1>3. table[n] # Absent <=> n \in Wanted(want)
  BY <1>1 DEF Wanted, RRSet, Absent
<1>4. table[State].vals = Wanted(want)
  BY <1>2 DEF RRSet, Absent
<1> QED BY <1>3, <1>4

\* What Decode makes of a stored record, and Encode of one to be stored.
LEMMA CodecFacts ==
    /\ \A r \in RRSets(QuotedNames) : Decode(State, r) \in RRSets(Names)
    /\ \A r \in RRSets(Names) :
          /\ Encode(State, r) \in RRSets(QuotedNames)
          /\ Decode(State, Encode(State, r)) = r
    /\ Decode(State, Absent) = Absent
    /\ \A n \in Names : \A r : Decode(n, r) = r /\ Encode(n, r) = r
<1>1. \A n, m : Quoted(n) = Quoted(m) => n = m
  BY DEF Quoted
<1>2. ASSUME NEW r \in RRSets(QuotedNames)
      PROVE  Decode(State, r) \in RRSets(Names)
  <2>1. r # Absent /\ r.vals # {} /\ r.vals \subseteq QuotedNames /\ r.ttl \in TTLs
    BY AbsentFacts
  <2> DEFINE v == {n \in Names : Quoted(n) \in r.vals}
  <2>2. v # {} /\ v \in SUBSET Names
    BY <2>1 DEF QuotedNames
  <2>3. Decode(State, r) = RRSet(v, r.ttl)
    BY <2>1 DEF Decode
  <2> HIDE DEF v
  <2> QED BY <2>1, <2>2, <2>3, RRSetFacts
<1>3. ASSUME NEW r \in RRSets(Names)
      PROVE  /\ Encode(State, r) \in RRSets(QuotedNames)
             /\ Decode(State, Encode(State, r)) = r
  <2>1. r.vals # {} /\ r.vals \subseteq Names /\ r.ttl \in TTLs
    BY AbsentFacts
  <2> DEFINE q == {Quoted(n) : n \in r.vals}
             e == RRSet(q, r.ttl)
  <2>2. q # {} /\ q \in SUBSET QuotedNames
    BY <2>1 DEF QuotedNames
  <2>3. Encode(State, r) = e
    BY DEF Encode
  <2>4. {n \in Names : Quoted(n) \in q} = r.vals
    BY <1>1, <2>1
  <2> HIDE DEF q
  <2>5. e \in RRSets(QuotedNames) /\ e # Absent /\ e.vals = q /\ e.ttl = r.ttl
    <3>1. e \in RRSets(QuotedNames) /\ e.vals = q /\ e.ttl = r.ttl
      BY <2>1, <2>2 DEF RRSet, RRSets
    <3>2. e # Absent
      BY DEF RRSet, Absent
    <3> QED BY <3>1, <3>2
  <2> HIDE DEF e
  <2>6. Decode(State, e) = RRSet({n \in Names : Quoted(n) \in e.vals}, e.ttl)
    BY <2>5 DEF Decode
  <2>7. Decode(State, e) = RRSet(r.vals, r.ttl)
    BY <2>4, <2>5, <2>6
  <2>8. RRSet(r.vals, r.ttl) = r
    BY DEF RRSet, RRSets
  <2> QED BY <2>3, <2>5, <2>7, <2>8
<1>4. Decode(State, Absent) = Absent
  BY DEF Decode
<1>5. \A n \in Names : \A r : Decode(n, r) = r /\ Encode(n, r) = r
  BY StateAssumption DEF Decode, Encode
<1> QED BY <1>2, <1>3, <1>4, <1>5

\* GetRecords lists a well-formed table.
LEMMA GetRecordsType ==
    ASSUME NEW z \in Zones
    PROVE  GetRecords(z) \in Tables
<1> DEFINE t == GetRecords(z)
<1>1. \A n \in Names : t[n] \in {Absent} \cup RRSets(Addrs)
  <2> TAKE n \in Names
  <2>1. t[n] = IF IsProprietary(z[n]) THEN Absent ELSE z[n]
    BY CodecFacts DEF GetRecords, Keys
  <2>2. z[n] \in {Absent} \cup {Alias} \cup RRSets(Addrs)
    BY DEF Zones, ARecords, Proprietary
  <2> QED BY <2>1, <2>2, AbsentFacts DEF IsProprietary
<1>2. t[State] \in {Absent} \cup RRSets(Names)
  <2>1. z[State] \in {Absent} \cup RRSets(QuotedNames)
    BY DEF Zones, TXTRecords
  <2>2. t[State] = IF IsProprietary(z[State]) THEN Absent ELSE Decode(State, z[State])
    BY DEF GetRecords, Keys
  <2> QED BY <2>1, <2>2, CodecFacts
<1>3. \A k \in Keys : t[k] \in {Absent} \cup RRSets(Addrs) \cup RRSets(Names)
  BY <1>1, <1>2 DEF Keys
<1>4. t = [k \in Keys |-> t[k]]
  BY DEF GetRecords
<1>5. t \in [Keys -> {Absent} \cup RRSets(Addrs) \cup RRSets(Names)]
  BY <1>3, <1>4
<1> QED BY <1>1, <1>2, <1>5 DEF Tables

\* The record a call passes for a key fits that key.
Fits(k, r) == IF k = State THEN r \in RRSets(Names) ELSE r \in RRSets(Addrs)

\* A provider call leaves a well-formed zone, and the next listing shows its
\* effect on its key and on no other.
LEMMA ChangeRecordFacts ==
    ASSUME NEW z \in Zones, NEW k \in Keys, NEW op \in Ops, NEW r,
           op # "Remove" => Fits(k, r)
    PROVE  /\ ChangeRecord(z, k, op, r) \in Zones
           /\ GetRecords(ChangeRecord(z, k, op, r)) =
                 [GetRecords(z) EXCEPT ![k] = IF op = "Remove" THEN Absent ELSE r]
<1> DEFINE new == IF op = "Remove" THEN Absent ELSE Encode(k, r)
           zz == ChangeRecord(z, k, op, r)
<1>1. zz = [z EXCEPT ![k] = new]
  BY DEF ChangeRecord
<1>2. /\ k = State => new \in {Absent} \cup RRSets(QuotedNames)
      /\ k \in Names => new \in {Absent} \cup RRSets(Addrs)
  BY CodecFacts, StateAssumption DEF Fits
<1>3. z \in [Keys -> ARecords \cup TXTRecords]
  BY DEF Zones
<1>4. new \in ARecords \cup TXTRecords
  BY <1>2 DEF ARecords, TXTRecords, Keys
<1>5. Decode(k, new) = (IF op = "Remove" THEN Absent ELSE r) /\ ~IsProprietary(new)
  <2>1. CASE k = State
    BY <2>1, <1>2, CodecFacts, AbsentFacts DEF Fits, IsProprietary
  <2>2. CASE k \in Names
    BY <2>2, <1>2, CodecFacts, AbsentFacts DEF Fits, IsProprietary
  <2> QED BY <2>1, <2>2 DEF Keys
<1> HIDE DEF new
<1>6. zz \in Zones
  <2>1. zz \in [Keys -> ARecords \cup TXTRecords]
    BY <1>1, <1>3, <1>4
  <2>2. zz[State] \in TXTRecords
    BY <1>1, <1>2, <1>3, StateAssumption DEF Zones, TXTRecords, Keys
  <2>3. \A n \in Names : zz[n] \in ARecords
    BY <1>1, <1>2, <1>3, StateAssumption DEF Zones, ARecords, Keys
  <2> QED BY <2>1, <2>2, <2>3 DEF Zones
<1>7. \A j \in Keys : zz[j] = IF j = k THEN new ELSE z[j]
  BY <1>1, <1>3
<1>8. GetRecords(zz) = [GetRecords(z) EXCEPT ![k] = IF op = "Remove" THEN Absent ELSE r]
  <2>1. \A j \in Keys : GetRecords(zz)[j] =
           IF j = k THEN IF op = "Remove" THEN Absent ELSE r ELSE GetRecords(z)[j]
    BY <1>5, <1>7 DEF GetRecords
  <2> QED BY <2>1 DEF GetRecords
<1> QED BY <1>6, <1>8

-------------------------------------------------------------------------------
\* EnsureUpgradeToStateRRSet only gets to its AddRecord call with something to
\* list; without this the call could store an empty record set.
SomethingToAdopt == pc = "adopt" => LegacyOwned(view, ttl) # {}

TypeInv == TypeOK /\ SomethingToAdopt

\* A key of the plan that is wanted is passed the wanted record.
LEMMA ArgFits ==
    ASSUME recs \in Tables, NEW k \in Keys, Op(k) # "Remove"
    PROVE  Arg(k) = recs[k] /\ Fits(k, Arg(k)) /\ Op(k) \in Ops
<1>1. recs[k] # Absent
  BY DEF Op, OpFor
<1>2. Arg(k) = recs[k]
  BY <1>1 DEF Arg, RecordFor
<1>3. Op(k) \in Ops
  BY DEF Op, OpFor, Ops
<1>4. Fits(k, recs[k])
  <2>1. CASE k = State
    BY <2>1, <1>1 DEF Tables, Fits
  <2>2. CASE k \in Names
    BY <2>2, <1>1, StateAssumption DEF Tables, Fits
  <2> QED BY <2>1, <2>2 DEF Keys
<1> QED BY <1>2, <1>3, <1>4

\* What the AddRecord call of the upgrade stores.
LEMMA AdoptedFacts ==
    ASSUME TypeInv, pc = "adopt"
    PROVE  /\ Adopted \in RRSets(Names)
           /\ Adopted.vals = LegacyOwned(view, ttl)
           /\ ChangeRecord(zone, State, "Add", Adopted) \in Zones
           /\ GetRecords(ChangeRecord(zone, State, "Add", Adopted)) =
                 [GetRecords(zone) EXCEPT ![State] = Adopted]
<1>1. LegacyOwned(view, ttl) \in SUBSET Names /\ LegacyOwned(view, ttl) # {}
  BY LegacyAssumption DEF LegacyOwned, TypeInv, SomethingToAdopt
<1>2. Adopted \in RRSets(Names) /\ Adopted.vals = LegacyOwned(view, ttl)
  BY <1>1, RRSetFacts DEF Adopted, StateRecord, TypeInv, TypeOK
<1>3. Fits(State, Adopted) /\ State \in Keys /\ "Add" \in Ops /\ zone \in Zones
  BY <1>2 DEF Fits, Keys, Ops, TypeInv, TypeOK
<1> QED BY <1>2, <1>3, ChangeRecordFacts

\* What the provider call of a pass stores.
LEMMA ChangeZone ==
    ASSUME TypeOK, NEW k \in Keys
    PROVE  /\ ChangeRecord(zone, k, Op(k), Arg(k)) \in Zones
           /\ GetRecords(ChangeRecord(zone, k, Op(k), Arg(k))) =
                 [GetRecords(zone) EXCEPT ![k] = recs[k]]
<1>1. zone \in Zones /\ recs \in Tables /\ Op(k) \in Ops
  BY DEF TypeOK, Op, OpFor, Ops
<1>2. Op(k) = "Remove" => recs[k] = Absent
  BY DEF Op, OpFor
<1>3. Op(k) # "Remove" => Arg(k) = recs[k] /\ Fits(k, Arg(k))
  BY <1>1, ArgFits
<1> QED BY <1>1, <1>2, <1>3, ChangeRecordFacts

\* The empty table is a table.
LEMMA NoRecsType == NoRecs \in Tables
BY StateAssumption DEF NoRecs, Tables, Keys

\* The pass plans changes of keys only.
LEMMA PlanType ==
    ASSUME NEW v \in Tables, NEW t \in Tables
    PROVE  Plan(t, v) \subseteq Keys
<1>1. OurRecords(v) \subseteq Keys
  <2>1. CASE v[State] = Absent
    BY <2>1 DEF OurRecords
  <2>2. CASE v[State] # Absent
    <3>1. v[State] \in RRSets(Names)
      BY <2>2 DEF Tables
    <3>2. v[State].vals \subseteq Names
      BY <3>1, AbsentFacts
    <3> QED BY <2>2, <3>2 DEF OurRecords, Keys
  <2> QED BY <2>1, <2>2
<1> QED BY <1>1 DEF Plan, ToRemove, ToAdd, ToUpdate, Present

\* Every step keeps the types.
LEMMA TypeStep == TypeInv /\ [Next]_vars => TypeInv'
<1> SUFFICES ASSUME TypeInv, [Next]_vars PROVE TypeInv'
  OBVIOUS
<1> USE DEF TypeInv, TypeOK
<1>1. CASE Restart
  BY <1>1 DEF Restart, envVars, passVars, PCs, SomethingToAdopt
<1>2. CASE UpgradeCheck
  <2>1. GetRecords(zone) \in Tables
    BY GetRecordsType
  <2> QED BY <1>2, <2>1 DEF UpgradeCheck, envVars, loopVars, PCs, SomethingToAdopt
<1>3. CASE UpgradeCheckFails
  BY <1>3, NoRecsType DEF UpgradeCheckFails, Die, EndPass, envVars, PCs, SomethingToAdopt
<1>4. CASE Adopt
  BY <1>4, AdoptedFacts, NoRecsType DEF Adopt, envVars, loopVars, PCs, SomethingToAdopt
<1>5. CASE AdoptFails
  BY <1>5, AdoptedFacts, NoRecsType DEF AdoptFails, Die, EndPass, envVars, PCs, SomethingToAdopt
<1>6. CASE NewVersion
  BY <1>6 DEF NewVersion, envVars, passVars, PCs, SomethingToAdopt
<1>7. CASE ForceUpdate
  BY <1>7 DEF ForceUpdate, envVars, passVars, loopVars, PCs, SomethingToAdopt
<1>8. ASSUME NEW want \in Wants, FetchAnswer(want)
      PROVE  recs' \in Tables /\ pc' \in {"read", "poll"}
  BY <1>8, MetadataRecsType DEF FetchAnswer
<1>9. CASE Fetch
  <2>1. recs' \in Tables /\ pc' \in {"read", "poll"}
    BY <1>8, <1>9 DEF Fetch
  <2> QED BY <1>9, <2>1 DEF Fetch, envVars, loopVars, PCs, SomethingToAdopt
<1>10. CASE FetchPartial
  <2>1. recs' \in Tables /\ pc' \in {"read", "poll"}
    BY <1>8, <1>10 DEF FetchPartial
  <2> QED BY <1>10, <2>1 DEF FetchPartial, envVars, loopVars, PCs, SomethingToAdopt
<1>11. CASE FetchFails
  BY <1>11 DEF FetchFails, envVars, loopVars, passVars, PCs, SomethingToAdopt
<1>12. CASE Read
  <2>1. view' \in Tables
    BY <1>12, GetRecordsType DEF Read
  <2>2. todo' \subseteq Keys
    BY <1>12, <2>1, PlanType DEF Read
  <2> QED BY <1>12, <2>1, <2>2 DEF Read, Proceed, envVars, loopVars, PCs, SomethingToAdopt
<1>13. CASE ReadFails
  BY <1>13, NoRecsType DEF ReadFails, Abort, EndPass, envVars, loopVars, PCs, SomethingToAdopt
<1>14. ASSUME NEW k \in Keys, Change(k) PROVE TypeInv'
  BY <1>14, ChangeZone DEF Change, Proceed, envVars, loopVars, PCs, SomethingToAdopt
<1>15. ASSUME NEW k \in Keys, ChangeRefused(k) PROVE TypeInv'
  BY <1>15, NoRecsType DEF ChangeRefused, Abort, EndPass, envVars, loopVars, PCs, SomethingToAdopt
<1>16. ASSUME NEW k \in Keys, ChangeFails(k) PROVE TypeInv'
  BY <1>16, ChangeZone, NoRecsType
  DEF ChangeFails, Abort, EndPass, envVars, loopVars, PCs, SomethingToAdopt
<1>17. ASSUME NEW n \in Names, Notify(n) PROVE TypeInv'
  BY <1>17 DEF Notify, envVars, loopVars, PCs, SomethingToAdopt
<1>18. CASE Finish
  BY <1>18, NoRecsType DEF Finish, EndPass, envVars, PCs, SomethingToAdopt
<1>19. CASE TimePasses
  BY <1>19 DEF TimePasses, envVars, passVars, SomethingToAdopt
<1>20. CASE MetadataChange
  BY <1>20 DEF MetadataChange, procVars, loopVars, passVars, SomethingToAdopt
<1>21. ASSUME NEW n \in Names, OperatorEdit(n) PROVE TypeInv'
  <2>1. PICK r \in ARecords : zone' = [zone EXCEPT ![n] = r]
    BY <1>21 DEF OperatorEdit
  <2>2. zone' \in Zones
    BY <2>1, StateAssumption DEF Zones, Keys
  <2> QED BY <1>21, <2>2 DEF OperatorEdit, envVars, procVars, loopVars, passVars, SomethingToAdopt
<1>22. CASE Crash
  BY <1>22, NoRecsType DEF Crash, Die, EndPass, envVars, PCs, SomethingToAdopt
<1>23. CASE BecomeCalm
  BY <1>23 DEF BecomeCalm, procVars, loopVars, passVars, SomethingToAdopt
<1>24. CASE UNCHANGED vars
  BY <1>24 DEF vars, envVars, procVars, loopVars, passVars, SomethingToAdopt
<1> QED
  BY <1>1, <1>2, <1>3, <1>4, <1>5, <1>6, <1>7, <1>9, <1>10, <1>11, <1>12, <1>13, <1>14,
     <1>15, <1>16, <1>17, <1>18, <1>19, <1>20, <1>21, <1>22, <1>23, <1>24
  DEF Next, Startup, StartupFails, Loop, LoopFails, Environment

\* Init satisfies the strengthened type invariant.
LEMMA TypeInit == Init => TypeInv
BY NoRecsType DEF Init, TypeInv, TypeOK, SomethingToAdopt, PCs

\* The strengthened type invariant holds throughout.
THEOREM TypeInvariant == Spec => []TypeInv
BY TypeInit, TypeStep, PTL DEF Spec

\* Every variable of the service, the zone included, keeps a value of its kind.
THEOREM TypeCorrect == Spec => []TypeOK
<1>1. TypeInv => TypeOK
  BY DEF TypeInv
<1> QED BY <1>1, TypeInvariant, PTL
-------------------------------------------------------------------------------
(***************************************************************************)
(* NoLostUpdate, where calls succeed and nobody else writes to the zone.    *)
(* The process may be killed and metadata may change at any time.           *)
(***************************************************************************)
\* A zone lists what a table of wanted records asks for.
Publishes(z, table) ==
    /\ \A n \in Names : table[n] # Absent => GetRecords(z)[n].vals = table[n].vals
    /\ GetRecords(z)[State].vals = table[State].vals

Seen == currentVersion = metaVersion

\* What the running pass has done: the keys it has been through are as wanted,
\* the others as they were listed.
PassProgress ==
    /\ todo \subseteq Plan(recs, view)
    /\ \A k \in Keys : GetRecords(zone)[k] =
          IF k \in Plan(recs, view) \ todo THEN recs[k] ELSE view[k]

\* A version that main has taken note of belongs to the records it remembers or
\* is working on; what it remembers is published whenever no pass is under way.
SeenInv ==
    /\ pc \in {"down", "start", "adopt"} => currentVersion = Init0 /\ ~hasSynchronized
    /\ (pc \in {"poll", "fetch"} /\ hasSynchronized) => Publishes(zone, cached)
    /\ (pc = "poll" /\ Seen) => hasSynchronized /\ cached = MetadataRecs(desired, ttl)
    /\ (pc \in {"read", "apply", "notify"} /\ Seen) => recs = MetadataRecs(desired, ttl)
    /\ pc = "apply" => PassProgress
    /\ pc = "notify" => Publishes(zone, recs)

\* The values of a map of wanted records.
LEMMA MetadataRecsValues ==
    ASSUME NEW want \in Wants, NEW t \in TTLs
    PROVE  /\ \A n \in Wanted(want) : /\ MetadataRecs(want, t)[n] # Absent
                                      /\ MetadataRecs(want, t)[n].vals = want[n]
           /\ MetadataRecs(want, t)[State].vals = Wanted(want)
<1> DEFINE table == MetadataRecs(want, t)
<1>1. \A n \in Wanted(want) : table[n] = RRSet(want[n], t)
  BY DEF MetadataRecs, Keys, Wanted
<1>2. \A v : RRSet(v, t) # Absent /\ RRSet(v, t).vals = v
  BY DEF RRSet, Absent
<1>3. table[State] = IF Wanted(want) = {} THEN Absent ELSE RRSet(Wanted(want), t)
  BY StateAssumption DEF MetadataRecs, Keys, StateRecord
<1>4. table[State].vals = Wanted(want)
  BY <1>2, <1>3 DEF Absent
<1> QED BY <1>1, <1>2, <1>4

\* A plan that has been carried out leaves what was wanted.
LEMMA PlanDone ==
    ASSUME NEW z, NEW r, NEW v,
           \A k \in Keys : GetRecords(z)[k] = IF k \in Plan(r, v) THEN r[k] ELSE v[k]
    PROVE  Publishes(z, r)
<1>1. ASSUME NEW k \in Keys, r[k] # Absent
      PROVE  GetRecords(z)[k].vals = r[k].vals
  <2>1. k \notin Plan(r, v) => v[k].vals = r[k].vals
    BY <1>1 DEF Plan, ToAdd, ToUpdate, Present
  <2> QED BY <2>1
<1>2. ASSUME r[State] = Absent
      PROVE  GetRecords(z)[State] = Absent
  <2>1. State \notin Plan(r, v) => v[State] = Absent
    BY <1>2 DEF Plan, ToRemove, OurRecords
  <2> QED BY <1>2, <2>1 DEF Keys
<1> QED BY <1>1, <1>2 DEF Publishes, Keys

\* A record that is listed is stored as it would be sent, so that Route 53
\* accepts its removal.
LEMMA StoredAsListed ==
    ASSUME NEW z \in Zones, NEW k \in Keys, GetRecords(z)[k] # Absent
    PROVE  z[k] = Encode(k, GetRecords(z)[k]) /\ GetRecords(z)[k].vals # {}
<1>1. GetRecords(z)[k] = Decode(k, z[k])
  BY DEF GetRecords
<1>2. CASE k \in Names
  <2>1. z[k] \in RRSets(Addrs)
    BY <1>2, AbsentFacts, CodecFacts DEF GetRecords, Zones, ARecords, Proprietary, IsProprietary
  <2> QED BY <1>1, <1>2, <2>1, CodecFacts, AbsentFacts
<1>3. CASE k = State
  <2>1. z[k] \in RRSets(QuotedNames)
    BY <1>1, <1>3, CodecFacts DEF Zones, TXTRecords
  <2>2. z[k] # Absent /\ z[k].vals \subseteq QuotedNames /\ z[k].vals # {}
    BY <2>1, AbsentFacts
  <2> DEFINE v == {n \in Names : Quoted(n) \in z[k].vals}
  <2>3. {Quoted(n) : n \in v} = z[k].vals /\ v # {}
    BY <2>2 DEF QuotedNames
  <2>4. GetRecords(z)[k] = RRSet(v, z[k].ttl)
    BY <1>1, <1>3, <2>2 DEF Decode
  <2> HIDE DEF v
  <2>5. Encode(k, GetRecords(z)[k]) = RRSet(z[k].vals, z[k].ttl) /\ GetRecords(z)[k].vals = v
    BY <1>3, <2>3, <2>4 DEF Encode, RRSet
  <2>6. RRSet(z[k].vals, z[k].ttl) = z[k]
    BY <2>1 DEF RRSet, RRSets
  <2> QED BY <2>3, <2>5, <2>6
<1> QED BY <1>2, <1>3 DEF Keys

\* In a zone that nobody else writes, no call of a pass is refused.
LEMMA NothingRefused ==
    ASSUME TypeOK, pc = "apply" => PassProgress, NEW k \in Keys
    PROVE  ~ChangeRefused(k)
<1> SUFFICES ASSUME pc = "apply", k \in todo, PassProgress
             PROVE  Accepts(zone, k, Op(k), Arg(k))
  BY DEF ChangeRefused, Turn
<1>1. zone \in Zones /\ recs \in Tables
  BY DEF TypeOK
<1>2. CASE recs[k] = Absent
  <2>1. Arg(k) = view[k] /\ view[k] = GetRecords(zone)[k]
    BY <1>2 DEF Arg, RecordFor, PassProgress
  <2>2. view[k] # Absent
    BY <1>2 DEF PassProgress, Plan, ToRemove, ToAdd, ToUpdate, OurRecords, Present
  <2> QED BY <1>1, <2>1, <2>2, StoredAsListed DEF Accepts
<1>3. CASE recs[k] # Absent
  <2>1. Op(k) # "Remove"
    BY <1>3 DEF Op, OpFor
  <2>2. Arg(k).vals # {}
    BY <1>1, <2>1, ArgFits, AbsentFacts DEF Fits
  <2> QED BY <2>1, <2>2 DEF Accepts
<1> QED BY <1>2, <1>3

\* One step keeps SeenInv.
LEMMA SeenStep ==
    ASSUME ~Faults, ~Operators
    PROVE  TypeInv /\ SeenInv /\ [Next]_vars => SeenInv'
<1> SUFFICES ASSUME TypeInv, SeenInv, [Next]_vars PROVE SeenInv'
  OBVIOUS
<1>0. TypeOK
  BY DEF TypeInv
<1>1. CASE Restart
  BY <1>1 DEF Restart, SeenInv
<1>2. CASE UpgradeCheck \/ Adopt
  <2>1. /\ pc' \in {"poll", "adopt"} /\ currentVersion' = Init0 /\ metaVersion' \in Versions
        /\ ~hasSynchronized'
    BY <1>0, <1>2 DEF UpgradeCheck, Adopt, SeenInv, TypeOK, envVars, loopVars
  <2> QED BY <2>1, VersionAssumption DEF SeenInv, Seen
<1>3. CASE NewVersion
  BY <1>3 DEF NewVersion, SeenInv, Publishes
<1>4. CASE ForceUpdate
  BY <1>4 DEF ForceUpdate, SeenInv, loopVars, Publishes
<1>5. CASE Fetch
  <2>1. PICK sameOrder \in BOOLEAN :
           IF ShouldSynchronize(MetadataRecs(desired, ttl), sameOrder)
           THEN pc' = "read" /\ recs' = MetadataRecs(desired, ttl)
           ELSE pc' = "poll" /\ recs' = recs
    BY <1>5 DEF Fetch, FetchAnswer, SameOrders
  <2>2. /\ pc = "fetch" /\ UNCHANGED <<metaVersion, desired, zone, ttl, currentVersion,
                                        hasSynchronized, cached>>
    BY <1>5 DEF Fetch, envVars, loopVars
  <2>3. CASE pc' = "read"
    BY <2>1, <2>2, <2>3 DEF SeenInv
  <2>4. CASE pc' # "read"
    <3>1. pc' = "poll" /\ hasSynchronized /\ cached = MetadataRecs(desired, ttl)
      BY <2>1, <2>4 DEF ShouldSynchronize
    <3> QED BY <2>2, <3>1 DEF SeenInv, Publishes
  <2> QED BY <2>3, <2>4
<1>6. CASE Read
  <2>1. /\ pc = "read"
        /\ view' = GetRecords(zone)
        /\ todo' = Plan(recs, view')
        /\ pc' = (IF todo' = {} THEN "notify" ELSE "apply")
        /\ UNCHANGED <<metaVersion, desired, zone, ttl, currentVersion, recs>>
    BY <1>6 DEF Read, Proceed, envVars, loopVars
  <2>2. PassProgress'
    BY <2>1 DEF PassProgress
  <2>3. todo' = {} => Publishes(zone', recs')
    BY <2>2, PlanDone DEF PassProgress
  <2> QED BY <2>1, <2>2, <2>3 DEF SeenInv, Seen
<1>7. ASSUME NEW k \in Keys, Change(k) PROVE SeenInv'
  <2>1. /\ pc = "apply" /\ k \in todo /\ todo' = todo \ {k}
        /\ zone' = ChangeRecord(zone, k, Op(k), Arg(k))
        /\ pc' = (IF todo' = {} THEN "notify" ELSE "apply")
        /\ UNCHANGED <<metaVersion, desired, ttl, currentVersion, recs, view>>
    BY <1>7 DEF Change, Turn, Proceed, envVars, loopVars
  <2>2. GetRecords(zone') = [GetRecords(zone) EXCEPT ![k] = recs[k]]
    BY <1>0, <2>1, ChangeZone
  <2>3. \A j \in Keys : GetRecords(zone')[j] = IF j = k THEN recs[k] ELSE GetRecords(zone)[j]
    BY <2>2 DEF GetRecords
  <2>4. PassProgress
    BY <2>1 DEF SeenInv
  <2>5. PassProgress'
    BY <2>1, <2>3, <2>4 DEF PassProgress
  <2>6. todo' = {} => Publishes(zone', recs')
    BY <2>5, PlanDone DEF PassProgress
  <2> QED BY <2>1, <2>5, <2>6 DEF SeenInv, Seen
<1>8. ASSUME NEW k \in Keys, ChangeRefused(k) PROVE SeenInv'
  BY <1>0, <1>8, NothingRefused DEF SeenInv
<1>9. ASSUME NEW n \in Names, Notify(n) PROVE SeenInv'
  BY <1>9 DEF Notify, SeenInv, Seen, Publishes, envVars, loopVars
<1>10. CASE Finish
  BY <1>10 DEF Finish, SeenInv, Seen, Publishes, envVars
<1>11. CASE TimePasses
  BY <1>11 DEF TimePasses, SeenInv, Seen, Publishes, envVars
<1>12. CASE MetadataChange
  <2>1. ~Seen'
    BY <1>12 DEF MetadataChange, Seen, procVars, loopVars
  <2> QED BY <1>12, <2>1 DEF MetadataChange, SeenInv, PassProgress, Publishes, procVars, loopVars, passVars
<1>13. CASE Crash
  BY <1>13 DEF Crash, Die, SeenInv
<1>14. CASE BecomeCalm
  BY <1>14 DEF BecomeCalm, SeenInv, Seen, PassProgress, Publishes, procVars, loopVars, passVars
<1>15. CASE UNCHANGED vars
  BY <1>15 DEF vars, SeenInv, Seen, PassProgress, Publishes, envVars, procVars, loopVars, passVars
<1>16. ~StartupFails /\ ~LoopFails /\ \A n \in Names : ~OperatorEdit(n)
  BY DEF StartupFails, LoopFails, UpgradeCheckFails, AdoptFails, FetchPartial, FetchFails,
         ReadFails, ChangeFails, OperatorEdit
<1> QED
  BY <1>1, <1>2, <1>3, <1>4, <1>5, <1>6, <1>7, <1>8, <1>9, <1>10, <1>11, <1>12, <1>13,
     <1>14, <1>15, <1>16
  DEF Next, Startup, Loop, Environment

\* With calls that succeed and a zone that nobody else writes, no version of
\* metadata is taken note of and forgotten, although main notes the version
\* before it fetches the records, metadata changes at any time and the process
\* may be killed between any two calls.
THEOREM UpdatesNotLost ==
    ASSUME ~Faults, ~Operators
    PROVE  Spec => []NoLostUpdate
<1>1. Init => SeenInv
  BY DEF Init, SeenInv
<1>2. TypeInv /\ SeenInv => NoLostUpdate
  <2> SUFFICES ASSUME TypeInv, SeenInv, pc = "poll", Seen
               PROVE  InSync
    BY DEF NoLostUpdate, SeenInv, Seen
  <2>1. Publishes(zone, MetadataRecs(desired, ttl))
    BY DEF SeenInv
  <2>2. desired \in Wants /\ ttl \in TTLs
    BY DEF TypeInv, TypeOK
  <2>3. Wanted(desired) \subseteq Names
    BY DEF Wanted
  <2> QED BY <2>1, <2>2, <2>3, MetadataRecsValues DEF Publishes, InSync
<1> QED BY <1>1, <1>2, TypeInvariant, SeenStep, PTL DEF Spec
===============================================================================
