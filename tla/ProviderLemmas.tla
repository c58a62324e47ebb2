----------------------------- MODULE ProviderLemmas -----------------------------
(***************************************************************************)
(* What the proofs about the providers share: the steps of module           *)
(* ValueByValue keep the contract of module ProviderContract, for every way *)
(* of naming records.  A provider is given by the set R of the records its  *)
(* service may hold and the function K that tells the record set of each.   *)
(***************************************************************************)
EXTENDS Providers, FiniteSetTheorems, TLAPS

-------------------------------------------------------------------------------
(* Record sets                                                              *)

\* The values that the records of z have under each key.
Values(z, K) == [k \in Keys |-> {r.val : r \in {s \in z : K[s] = k}}]

ValsOf(A) == {r.val : r \in A}

\* No record set: what K tells of a record that the provider does not list.
Unlisted == <<>>

Keyed(R, K) == K \in [R -> Keys \cup {Unlisted}] /\ \A r \in R : r.val \in Vals

\* The calls that the pass makes.
Requests ==
    {c \in [op : {"Add", "Update", "Remove"}, key : Managed \X Types, vals : SUBSET Vals] :
        c.op = "Remove" <=> c.vals = {}}

\* Where a call stands.
CallInv ==
    /\ pc \in {"idle", "find", "delete", "create", "set"}
    /\ pc = "idle" => call = NoCall
    /\ pc # "idle" => call \in Requests /\ result # "ok"
    /\ pc \in {"find", "delete"} => call.op # "Add"
    /\ pc = "create" => call.op # "Remove" /\ missing \subseteq call.vals
    /\ disturbed \in BOOLEAN

\* How far a call has come: only records of its own record set are to be deleted,
\* and as long as nobody else writes these are all there are, and afterwards the
\* record set holds the values that were asked for but for those still missing.
ZoneInv(R, K) ==
    /\ zone \subseteq R
    /\ pc = "delete" => \A r \in doomed : r \in R /\ K[r] \in {call.key, Unlisted}
    /\ (~disturbed /\ pc = "delete") => \A r \in zone : K[r] = call.key => r \in doomed
    /\ (~disturbed /\ pc = "create") => Values(zone, K)[call.key] = call.vals \ missing

\* A step of the contract that is the provider's own.
Own ==
    \/ \E c \in Contract!Calls : Contract!Begin(c)
    \/ Contract!Work
    \/ Contract!Succeed
    \/ Contract!GiveUp
    \/ UNCHANGED Contract!vars

\* A step that keeps the contract and, if it is the provider's, touches no other
\* record set.
Kept ==
    \/ Own
    \/ /\ Contract!Disturb
       /\ ~ByProvider \/ UNCHANGED Stored \/ (provider = "gandi" /\ disturbed)

\* The zone itself is not a managed name, and a request is not mistaken for none.
LEMMA RequestFacts ==
    ASSUME NEW c \in Requests
    PROVE  /\ c.key \in Keys /\ c.vals \subseteq Vals /\ c \in Contract!Calls
           /\ c # NoCall /\ c # Contract!NoCall
           /\ c.op \in {"Add", "Update", "Remove"} /\ (c.op = "Remove" <=> c.vals = {})
<1>1. Managed \X Types \subseteq Keys
  BY DEF Keys, Fqdns
<1>2. /\ c \in [op : {"Add", "Update", "Remove"}, key : Managed \X Types, vals : SUBSET Vals]
      /\ c.op = "Remove" <=> c.vals = {}
  BY DEF Requests
<1>3. c \in [op : {"Add", "Update", "Remove"}, key : Keys, vals : SUBSET Vals]
  BY <1>1, <1>2
<1>4. c.op # "none"
  BY <1>2
<1>5. c # NoCall /\ c # Contract!NoCall
  BY <1>4 DEF NoCall, Contract!NoCall
<1> QED
  BY <1>2, <1>3, <1>5 DEF Contract!Calls, Contract!Ops

\* Unlisted is not a key.
LEMMA UnlistedIsNoKey == Unlisted \notin Keys
BY DEF Unlisted, Keys

\* The listing of any records has values under every key.
LEMMA ValuesType ==
    ASSUME NEW R, NEW K, Keyed(R, K), NEW z \in SUBSET R
    PROVE  Values(z, K) \in [Keys -> SUBSET Vals]
BY DEF Values, Keyed

\* Deleting a record of a record set, or one that is not listed, takes values from
\* that record set alone.
LEMMA ValuesWithout ==
    ASSUME NEW R, NEW K, Keyed(R, K), NEW z \in SUBSET R, NEW y \in SUBSET z, NEW key \in Keys,
           \A r \in z \ y : K[r] = key \/ K[r] = Unlisted
    PROVE  /\ Values(y, K)[key] \subseteq Values(z, K)[key]
           /\ \A k \in Keys : k # key => Values(y, K)[k] = Values(z, K)[k]
<1>1. Values(y, K)[key] \subseteq Values(z, K)[key]
  BY DEF Values
<1>2. ASSUME NEW k \in Keys, k # key
      PROVE  {s \in y : K[s] = k} = {s \in z : K[s] = k}
  BY <1>2, UnlistedIsNoKey
<1> QED
  BY <1>1, <1>2 DEF Values

\* Creating records of a record set adds their values to that record set alone.
LEMMA ValuesWith ==
    ASSUME NEW R, NEW K, Keyed(R, K), NEW z \in SUBSET R, NEW A \in SUBSET R, NEW key \in Keys,
           \A r \in A : K[r] = key
    PROVE  /\ Values(z \cup A, K)[key] = Values(z, K)[key] \cup ValsOf(A)
           /\ \A k \in Keys : k # key => Values(z \cup A, K)[k] = Values(z, K)[k]
<1>1. ASSUME NEW k \in Keys, k # key
      PROVE  {s \in z \cup A : K[s] = k} = {s \in z : K[s] = k}
  BY <1>1
<1>2. {s \in z \cup A : K[s] = key} = {s \in z : K[s] = key} \cup A
  OBVIOUS
<1>3. Values(z \cup A, K)[key] = Values(z, K)[key] \cup ValsOf(A)
  BY <1>2 DEF Values, ValsOf
<1> QED
  BY <1>1, <1>3 DEF Values

-------------------------------------------------------------------------------
(* The steps of a call                                                      *)

\* The call c begins.
Began(c) ==
    /\ pc = "idle"
    /\ call' = c
    /\ pc' = IF c.op = "Add" THEN "create" ELSE "find"
    /\ missing' = IF c.op = "Add" THEN c.vals ELSE {}
    /\ doomed' = {}
    /\ result' = "none"
    /\ disturbed' \in BOOLEAN
    /\ disturbed' \/ Contract!Asked(c, Stored)
    /\ UNCHANGED zone

\* A call begins as the contract says, if the listing it is based on is right
\* wherever the provider is not excused.
LEMMA BeginMeans ==
    ASSUME NEW STATE listing, NEW STATE excused, Begin(listing, excused),
           \A k \in Managed \X Types : k \notin excused => listing[k] = Stored[k]
    PROVE  \E c \in Requests : Began(c)
<1>1. PICK op \in {"Add", "Update", "Remove"}, k \in Managed \X Types, vs \in SUBSET Vals :
           /\ op = "Remove" <=> vs = {}
           /\ CASE op = "Add"    -> listing[k] = {}
                [] op = "Update" -> listing[k] \notin {{}, vs}
                [] op = "Remove" -> listing[k] # {}
           /\ call' = [op |-> op, key |-> k, vals |-> vs]
           /\ pc' = IF op = "Add" THEN "create" ELSE "find"
           /\ missing' = IF op = "Add" THEN vs ELSE {}
           /\ disturbed' = (k \in excused)
  BY DEF Begin
<1>2. pc = "idle" /\ doomed' = {} /\ result' = "none" /\ UNCHANGED zone
  BY DEF Begin
<1> DEFINE c == [op |-> op, key |-> k, vals |-> vs]
<1>3. c \in Requests /\ c.op = op /\ c.key = k /\ c.vals = vs
  BY <1>1 DEF Requests
<1>4. disturbed' \in BOOLEAN
  BY <1>1
<1>5. disturbed' \/ Contract!Asked(c, Stored)
  <2>1. CASE k \in excused
    BY <1>1, <2>1
  <2>2. CASE k \notin excused
    <3>1. listing[k] = Stored[k]
      BY <2>2
    <3>2. CASE op = "Add"
      BY <1>1, <1>3, <3>1, <3>2 DEF Contract!Asked
    <3>3. CASE op = "Update"
      BY <1>1, <1>3, <3>1, <3>3 DEF Contract!Asked
    <3>4. CASE op = "Remove"
      BY <1>1, <1>3, <3>1, <3>4 DEF Contract!Asked
    <3> QED
      BY <3>2, <3>3, <3>4
  <2> QED
    BY <2>1, <2>2
<1> HIDE DEF c
<1>6. Began(c)
  BY <1>1, <1>2, <1>3, <1>4, <1>5 DEF Began, c
<1> QED
  BY <1>3, <1>6

\* A call begins as the contract says.
LEMMA BeginOwn ==
    ASSUME CallInv, UNCHANGED Stored, NEW c \in Requests, Began(c)
    PROVE  CallInv' /\ Own
<1>1. /\ c \in Contract!Calls /\ c.key \in Keys /\ c.vals \subseteq Vals
      /\ c.op \in {"Add", "Update", "Remove"} /\ (c.op = "Remove" <=> c.vals = {})
  BY RequestFacts
<1>2. call = Contract!NoCall
  BY DEF Began, CallInv, NoCall, Contract!NoCall
<1>3. Contract!Begin(c)
  BY <1>2 DEF Began, Contract!Begin
<1>4. CallInv'
  BY <1>1 DEF Began, CallInv
<1> QED
  BY <1>1, <1>3, <1>4 DEF Own

\* The beginning of a call.
LEMMA BeginStep ==
    ASSUME NEW R, NEW K, CallInv, ZoneInv(R, K), Stored = Values(zone, K), UNCHANGED Stored,
           NEW c \in Requests, Began(c)
    PROVE  CallInv' /\ ZoneInv(R, K)' /\ Own
<1>1. ZoneInv(R, K)'
  <2>1. CASE c.op = "Add"
    <3>1. ~disturbed' => Values(zone, K)[c.key] = {}
      BY <2>1 DEF Began, Contract!Asked
    <3> QED
      BY <2>1, <3>1 DEF Began, ZoneInv, Values
  <2>2. CASE c.op # "Add"
    BY <2>2 DEF Began, ZoneInv
  <2> QED
    BY <2>1, <2>2
<1> QED
  BY <1>1, BeginOwn

\* A call ends as the contract says.
LEMMA ReturnOwn ==
    ASSUME CallInv, UNCHANGED Stored,
           pc # "idle", NEW res \in {"ok", "err", "none"}, Return(res),
           res = "ok" => disturbed \/ Stored[call.key] = call.vals
    PROVE  CallInv' /\ Own
<1>1. call # Contract!NoCall
  BY RequestFacts DEF CallInv
<1>2. CallInv'
  BY DEF Return, CallInv
<1>3. CASE res = "ok"
  BY <1>1, <1>2, <1>3 DEF Return, Own, Contract!Succeed, NoCall, Contract!NoCall
<1>4. CASE res # "ok"
  BY <1>1, <1>2, <1>4 DEF Return, Own, Contract!GiveUp, NoCall, Contract!NoCall
<1> QED
  BY <1>3, <1>4

\* A call ends: with an error, with the process, or when its work is done.
LEMMA ReturnStep ==
    ASSUME NEW R, NEW K, CallInv, ZoneInv(R, K), UNCHANGED Stored,
           pc # "idle", NEW res \in {"ok", "err", "none"}, Return(res),
           res = "ok" => disturbed \/ Stored[call.key] = call.vals
    PROVE  CallInv' /\ ZoneInv(R, K)' /\ Own
<1>1. ZoneInv(R, K)'
  BY DEF Return, ZoneInv
<1> QED
  BY <1>1, ReturnOwn

\* RemoveRecord has found the records to delete.
LEMMA FindStep ==
    ASSUME NEW R, NEW K, CallInv, ZoneInv(R, K), UNCHANGED Stored,
           NEW found \in SUBSET R, Finding(found),
           \A r \in found : K[r] \in {call.key, Unlisted},
           ~disturbed => \A r \in zone : K[r] = call.key => r \in found
    PROVE  CallInv' /\ ZoneInv(R, K)' /\ Own
BY DEF Finding, CallInv, ZoneInv, Own, Contract!vars

\* Work on the record set that the call names: what the contract makes of it.
LEMMA WorkOn ==
    ASSUME NEW R, NEW K, Keyed(R, K), zone \subseteq R, zone' \subseteq R,
           Stored = Values(zone, K), Stored' = Values(zone', K),
           CallInv, pc # "idle", UNCHANGED <<call, result, disturbed>>,
           Values(zone', K)[call.key] \subseteq Values(zone, K)[call.key] \cup call.vals,
           \A k \in Keys : k # call.key => Values(zone', K)[k] = Values(zone, K)[k]
    PROVE  Own
<1>1. call # Contract!NoCall /\ call.key \in Keys
  BY RequestFacts DEF CallInv
<1>2. Stored \in [Keys -> SUBSET Vals] /\ Stored' \in [Keys -> SUBSET Vals]
  BY ValuesType
<1>3. PICK vs : vs = Stored'[call.key]
  OBVIOUS
<1>4. Stored' = [Stored EXCEPT ![call.key] = vs]
  BY <1>1, <1>2, <1>3
<1>5. vs \in SUBSET (Stored[call.key] \cup call.vals)
  BY <1>3
<1> QED
  BY <1>1, <1>4, <1>5 DEF Own, Contract!Work

\* RemoveRecord deletes one record, or finds it gone.
LEMMA DeleteStep ==
    ASSUME NEW R, NEW K, Keyed(R, K), CallInv, ZoneInv(R, K),
           Stored = Values(zone, K), Stored' = Values(zone', K), Deleting
    PROVE  CallInv' /\ ZoneInv(R, K)' /\ Own
<1>1. PICK r \in doomed :
          \/ /\ r \in zone
             /\ zone' = zone \ {r}
             /\ doomed' = doomed \ {r}
             /\ UNCHANGED <<call, pc, missing, result, disturbed>>
          \/ r \notin zone /\ Return("err")
  BY DEF Deleting
<1>2. pc = "delete" /\ zone \in SUBSET R /\ call.key \in Keys
  BY RequestFacts DEF Deleting, ZoneInv, CallInv
<1>3. CASE Return("err")
  <2>1. UNCHANGED Stored
    BY <1>3 DEF Return
  <2> QED
    BY <1>2, <1>3, <2>1, ReturnStep
<1>4. CASE /\ r \in zone
           /\ zone' = zone \ {r}
           /\ doomed' = doomed \ {r}
           /\ UNCHANGED <<call, pc, missing, result, disturbed>>
  <2>1. /\ zone' \in SUBSET zone
        /\ \A s \in zone \ zone' : K[s] = call.key \/ K[s] = Unlisted
    BY <1>2, <1>4 DEF ZoneInv
  <2>2. /\ Values(zone', K)[call.key] \subseteq Values(zone, K)[call.key]
        /\ \A k \in Keys : k # call.key => Values(zone', K)[k] = Values(zone, K)[k]
    BY <1>2, <2>1, ValuesWithout
  <2>3. Own
    BY <1>2, <1>4, <2>2, WorkOn
  <2>4. CallInv'
    BY <1>2, <1>4 DEF CallInv
  <2>5. ZoneInv(R, K)'
    BY <1>2, <1>4 DEF ZoneInv
  <2> QED
    BY <2>3, <2>4, <2>5
<1> QED
  BY <1>1, <1>3, <1>4

\* If nothing is left to delete and nobody else wrote, the record set is empty.
LEMMA AllDeleted ==
    ASSUME NEW R, NEW K, CallInv, ZoneInv(R, K), pc = "delete", doomed = {}, ~disturbed
    PROVE  Values(zone, K)[call.key] = {}
<1>1. call.key \in Keys
  BY RequestFacts DEF CallInv
<1>2. {r \in zone : K[r] = call.key} = {}
  BY DEF ZoneInv
<1> QED
  BY <1>1, <1>2 DEF Values

\* RemoveRecord has deleted all it found.
LEMMA RemovedStep ==
    ASSUME NEW R, NEW K, CallInv, ZoneInv(R, K), Stored = Values(zone, K), UNCHANGED Stored,
           Removed
    PROVE  CallInv' /\ ZoneInv(R, K)' /\ Own
<1>1. pc = "delete" /\ doomed = {} /\ call.op = "Remove" /\ Return("ok")
  BY DEF Removed
<1>2. call.vals = {}
  BY <1>1, RequestFacts DEF CallInv
<1>3. disturbed \/ Stored[call.key] = call.vals
  BY <1>1, <1>2, AllDeleted DEF CallInv
<1> QED
  BY <1>1, <1>3, ReturnStep

\* UpdateRecord goes on from RemoveRecord to AddRecord.
LEMMA ThenAddStep ==
    ASSUME NEW R, NEW K, CallInv, ZoneInv(R, K), UNCHANGED Stored, ThenAdd
    PROVE  CallInv' /\ ZoneInv(R, K)' /\ Own
<1>1. /\ pc = "delete" /\ doomed = {} /\ call.op = "Update" /\ pc' = "create"
      /\ missing' = call.vals /\ UNCHANGED <<zone, call, doomed, result, disturbed>>
  BY DEF ThenAdd
<1>2. ~disturbed => Values(zone, K)[call.key] = {}
  BY <1>1, AllDeleted
<1>3. CallInv'
  BY <1>1 DEF CallInv
<1>4. ZoneInv(R, K)'
  BY <1>1, <1>2 DEF ZoneInv, Values
<1> QED
  BY <1>1, <1>3, <1>4 DEF Own, Contract!vars

\* AddRecord creates the records A with the values vs.
LEMMA CreateStep ==
    ASSUME NEW R, NEW K, Keyed(R, K), CallInv, ZoneInv(R, K), pc = "create",
           Stored = Values(zone, K), Stored' = Values(zone', K),
           NEW A \in SUBSET R, \A r \in A : K[r] = call.key,
           NEW vs \in SUBSET missing, ValsOf(A) = vs,
           zone' = zone \cup A, missing' = missing \ vs,
           UNCHANGED <<call, pc, doomed, result, disturbed>>
    PROVE  CallInv' /\ ZoneInv(R, K)' /\ Own
<1>1. call.key \in Keys /\ zone \in SUBSET R /\ missing \subseteq call.vals
  BY RequestFacts DEF CallInv, ZoneInv
<1>2. /\ Values(zone', K)[call.key] = Values(zone, K)[call.key] \cup vs
      /\ \A k \in Keys : k # call.key => Values(zone', K)[k] = Values(zone, K)[k]
  BY <1>1, ValuesWith
<1>3. Values(zone', K)[call.key] \subseteq Values(zone, K)[call.key] \cup call.vals
  BY <1>1, <1>2
<1>4. Own
  BY <1>1, <1>2, <1>3, WorkOn
<1>5. CallInv'
  BY <1>1 DEF CallInv
<1>6. zone' \subseteq R
  BY <1>1
<1>7. ~disturbed => Values(zone', K)[call.key] = call.vals \ missing'
  BY <1>1, <1>2 DEF ZoneInv
<1>8. ZoneInv(R, K)'
  BY <1>6, <1>7 DEF ZoneInv, Values
<1> QED
  BY <1>4, <1>5, <1>8

\* AddRecord has created all values.
LEMMA CreatedStep ==
    ASSUME NEW R, NEW K, CallInv, ZoneInv(R, K), Stored = Values(zone, K), UNCHANGED Stored,
           Created
    PROVE  CallInv' /\ ZoneInv(R, K)' /\ Own
<1>1. pc = "create" /\ missing = {} /\ Return("ok")
  BY DEF Created
<1>2. disturbed \/ Stored[call.key] = call.vals
  BY <1>1 DEF ZoneInv
<1> QED
  BY <1>1, <1>2, ReturnStep

\* A request fails, or the process ends.
LEMMA FailStep ==
    ASSUME NEW R, NEW K, CallInv, ZoneInv(R, K), UNCHANGED Stored, RequestFails \/ Crash
    PROVE  CallInv' /\ ZoneInv(R, K)' /\ Own
BY ReturnStep DEF RequestFails, Crash

\* Others write to the zone.
LEMMA DisturbStep ==
    ASSUME NEW R, NEW K, Keyed(R, K), CallInv, ZoneInv(R, K), Stored' = Values(zone', K),
           zone' \in SUBSET R, disturbed' = TRUE,
           UNCHANGED <<call, pc, doomed, missing, result, draft>>
    PROVE  CallInv' /\ ZoneInv(R, K)' /\ Kept
<1>1. Stored' \in [Keys -> SUBSET Vals]
  BY ValuesType
<1>2. Contract!Disturb
  BY <1>1 DEF Contract!Disturb
<1>3. ~ByProvider
  BY DEF ByProvider
<1> QED
  BY <1>2, <1>3 DEF Kept, CallInv, ZoneInv

-------------------------------------------------------------------------------
(* The steps of a provider that writes to the zone directly                 *)

\* RemoveRecord finds at least the records of its record set, if nobody else
\* wrote, and none that is listed under another name or type.
Finds(found, K) ==
    /\ Finding(found)
    /\ \A r \in found : K[r] \in {call.key, Unlisted}
    /\ ~disturbed => \A r \in zone : K[r] = call.key => r \in found

\* AddRecord creates records of its record set, with values still missing.
Creates(A, K) ==
    /\ pc = "create"
    /\ \A r \in A : K[r] = call.key
    /\ ValsOf(A) \subseteq missing
    /\ zone' = zone \cup A
    /\ missing' = missing \ ValsOf(A)
    /\ UNCHANGED <<call, pc, doomed, result, disturbed>>

Disturbed(R) ==
    /\ zone' \in SUBSET R
    /\ disturbed' = TRUE
    /\ UNCHANGED <<call, pc, doomed, missing, result>>

\* RemoveRecord misses the records of its record set, and is excused.
Misses ==
    /\ pc = "find"
    /\ pc' = "delete"
    /\ doomed' = {}
    /\ disturbed' = TRUE
    /\ UNCHANGED <<zone, call, missing, result>>

Steps(R, K) ==
    \/ \E c \in Requests : Began(c)
    \/ \E found \in SUBSET R : Finds(found, K)
    \/ Deleting
    \/ Removed
    \/ ThenAdd
    \/ \E A \in SUBSET R : Creates(A, K)
    \/ Created
    \/ RequestFails
    \/ Crash
    \/ Disturbed(R)
    \/ Misses

\* All these steps keep the invariant and the contract.
LEMMA StepsKeep ==
    ASSUME NEW R, NEW K, Keyed(R, K), CallInv, ZoneInv(R, K),
           Stored = Values(zone, K), zone' \in SUBSET R => Stored' = Values(zone', K),
           UNCHANGED draft, Steps(R, K)
    PROVE  CallInv' /\ ZoneInv(R, K)' /\ Kept
<1>1. zone \in SUBSET R
  BY DEF ZoneInv
<1>2. UNCHANGED zone => UNCHANGED Stored
  BY <1>1
<1>3. CASE \E c \in Requests : Began(c)
  <2>1. PICK c \in Requests : Began(c)
    BY <1>3
  <2> QED
    BY <1>2, <2>1, BeginStep DEF Began, Kept
<1>4. CASE \E found \in SUBSET R : Finds(found, K)
  <2>1. PICK found \in SUBSET R : Finds(found, K)
    BY <1>4
  <2> QED
    BY <1>2, <2>1, FindStep DEF Finds, Finding, Kept
<1>5. CASE Deleting
  <2>1. zone' \in SUBSET R
    BY <1>1, <1>5 DEF Deleting, Return
  <2> QED
    BY <1>5, <2>1, DeleteStep DEF Kept
<1>6. CASE Removed
  BY <1>2, <1>6, RemovedStep DEF Removed, Return, Kept
<1>7. CASE ThenAdd
  BY <1>2, <1>7, ThenAddStep DEF ThenAdd, Kept
<1>8. CASE \E A \in SUBSET R : Creates(A, K)
  <2>1. PICK A \in SUBSET R : Creates(A, K)
    BY <1>8
  <2>2. zone' \in SUBSET R
    BY <1>1, <2>1 DEF Creates
  <2> QED
    BY <2>1, <2>2, CreateStep DEF Creates, Kept
<1>9. CASE Created
  BY <1>2, <1>9, CreatedStep DEF Created, Return, Kept
<1>10. CASE RequestFails \/ Crash
  BY <1>2, <1>10, FailStep DEF RequestFails, Crash, Return, Kept
<1>11. CASE Disturbed(R)
  BY <1>11, DisturbStep DEF Disturbed
<1>12. CASE Misses
  <2>1. UNCHANGED Stored /\ Stored \in [Keys -> SUBSET Vals]
    BY <1>1, <1>2, <1>12, ValuesType DEF Misses
  <2>2. Contract!Disturb
    BY <1>12, <2>1 DEF Misses, Contract!Disturb
  <2> QED
    BY <1>12, <2>1, <2>2 DEF Misses, Kept, CallInv, ZoneInv
<1> QED
  BY <1>3, <1>4, <1>5, <1>6, <1>7, <1>8, <1>9, <1>10, <1>11, <1>12 DEF Steps

\* AddRecord creates one record.
LEMMA CreateOne ==
    ASSUME NEW R, NEW K, pc = "create", NEW v \in missing, NEW r \in R,
           K[r] = call.key, r.val = v,
           zone' = zone \cup {r}, missing' = missing \ {v},
           UNCHANGED <<call, pc, doomed, result, disturbed>>
    PROVE  Steps(R, K)
<1>1. PICK A \in SUBSET R : A = {r}
  OBVIOUS
<1>2. ValsOf(A) = {v} /\ \A s \in A : K[s] = call.key
  BY <1>1 DEF ValsOf
<1>3. Creates(A, K)
  BY <1>1, <1>2 DEF Creates
<1> QED
  BY <1>3 DEF Steps

\* RemoveRecord finds the records that match its record set, or some of them if
\* others wrote meanwhile.
LEMMA FindMatching ==
    ASSUME NEW R, NEW K, ZoneInv(R, K), NEW found, Finding(found),
           found \subseteq {r \in zone : K[r] = call.key},
           ~disturbed => found = {r \in zone : K[r] = call.key}
    PROVE  Steps(R, K)
<1>1. found \in SUBSET R
  BY DEF ZoneInv
<1>2. Finds(found, K)
  BY DEF Finds
<1> QED
  BY <1>1, <1>2 DEF Steps

-------------------------------------------------------------------------------
(* The steps of a provider that writes whole record sets                    *)

\* RemoveRecord deletes the whole record set.
LEMMA WipeStep ==
    ASSUME NEW R, NEW K, Keyed(R, K), CallInv, ZoneInv(R, K), pc \in {"find", "delete"},
           Stored = Values(zone, K), Stored' = Values(zone', K),
           zone' \in SUBSET zone, \A r \in zone : r \in zone' <=> K[r] # call.key,
           pc' = "delete", \A r \in doomed' : r \in R /\ K[r] \in {call.key, Unlisted},
           UNCHANGED <<call, missing, result, disturbed>>
    PROVE  CallInv' /\ ZoneInv(R, K)' /\ Own
<1>1. call.key \in Keys /\ zone \in SUBSET R /\ zone' \in SUBSET R /\ pc # "idle"
  BY RequestFacts DEF CallInv, ZoneInv
<1>2. /\ Values(zone', K)[call.key] \subseteq Values(zone, K)[call.key]
      /\ \A k \in Keys : k # call.key => Values(zone', K)[k] = Values(zone, K)[k]
  BY <1>1, ValuesWithout
<1>3. Own
  BY <1>1, <1>2, WorkOn
<1>4. CallInv'
  BY DEF CallInv
<1>5. ZoneInv(R, K)'
  BY <1>1 DEF ZoneInv
<1> QED
  BY <1>3, <1>4, <1>5

\* AddRecord replaces the whole record set by the records A.
LEMMA ReplaceStep ==
    ASSUME NEW R, NEW K, Keyed(R, K), CallInv, ZoneInv(R, K), pc = "create",
           Stored = Values(zone, K), Stored' = Values(zone', K),
           NEW y \in SUBSET zone, \A r \in zone : r \in y <=> K[r] # call.key,
           NEW A \in SUBSET R, \A r \in A : K[r] = call.key, ValsOf(A) = call.vals,
           zone' = y \cup A, missing' = {},
           UNCHANGED <<call, pc, doomed, result, disturbed>>
    PROVE  CallInv' /\ ZoneInv(R, K)' /\ Own
<1>1. call.key \in Keys /\ zone \in SUBSET R /\ y \in SUBSET R /\ zone' \in SUBSET R /\ pc # "idle"
  BY RequestFacts DEF CallInv, ZoneInv
<1>2. \A k \in Keys : k # call.key => Values(y, K)[k] = Values(zone, K)[k]
  BY <1>1, ValuesWithout
<1>3. Values(y, K)[call.key] = {}
  <2>1. {r \in y : K[r] = call.key} = {}
    OBVIOUS
  <2> QED
    BY <1>1, <2>1 DEF Values
<1>4. /\ Values(zone', K)[call.key] = Values(y, K)[call.key] \cup call.vals
      /\ \A k \in Keys : k # call.key => Values(zone', K)[k] = Values(y, K)[k]
  BY <1>1, ValuesWith
<1>5. /\ Values(zone', K)[call.key] = call.vals
      /\ \A k \in Keys : k # call.key => Values(zone', K)[k] = Values(zone, K)[k]
  BY <1>2, <1>3, <1>4
<1>6. Own
  BY <1>1, <1>5, WorkOn
<1>7. CallInv'
  BY DEF CallInv
<1>8. ZoneInv(R, K)'
  BY <1>1, <1>5 DEF ZoneInv, Values
<1> QED
  BY <1>6, <1>7, <1>8
===============================================================================
