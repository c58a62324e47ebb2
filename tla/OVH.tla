---------------------------------- MODULE OVH ----------------------------------
(***************************************************************************)
(* The OVH provider (providers/ovh/ovh.go).  Records are edited one by one  *)
(* in a zone that the API shows at once, but the name servers only after a  *)
(* refresh.  RemoveRecord and AddRecord end with one and ignore its error.  *)
(***************************************************************************)
EXTENDS ValueByValue

VARIABLE served
    \* The zone of the name servers: "current" if it is the one the API shows,
    \* "pending" if changes were made since the last refresh, "lost" if the
    \* last refresh failed.

ApiNames == {<<l>> : l \in Labels} \cup {<<>>}
ApiRecords == Records(ApiNames)

ListedName(name) == name \o Root \o Dot

\* prepareRecord: the name relative to the zone, as in parseName.
PrepareRecord(v) ==
    [name |-> Relative(CallKey.fqdn), type |-> CallKey.type, val |-> v, ttl |-> TTL]

\* FindRecords: the identifiers of all records are listed, and each record is
\* read.  One that is gone by then is an error, which RequestFails covers; one
\* that is created meanwhile is not seen.
FindRecords == {r \in zone : r.name = Relative(CallKey.fqdn) /\ r.type = CallKey.type}

\* refreshZone, its error ignored.
RefreshZone == served' = "current" \/ (Faults /\ served' = "lost")

Edited == served' = IF zone' = zone THEN served ELSE "pending"

AddRecord == (Creating(PrepareRecord) /\ Edited) \/ (Created /\ RefreshZone)

\* Mutant: a removal is not followed by a refresh.
RemoveRecordUnpublished == (Finding(FindRecords) \/ Deleting \/ Removed) /\ Edited

RemoveRecord == ((Finding(FindRecords) \/ Deleting) /\ Edited) \/ (Removed /\ RefreshZone)

\* UpdateRecord: the refresh of RemoveRecord comes before AddRecord.
UpdateRecord == ThenAdd /\ RefreshZone

GetRecords == Listing(zone, ListedName)

Init == InitZone(ApiRecords) /\ served = "current"

\* Others refresh the zone themselves, each time they write.
Next ==
    \/ AddRecord
    \/ UpdateRecord
    \/ RemoveRecord
    \/ (Begin(GetRecords, {}) \/ RequestFails \/ Crash \/ Disturb(ApiRecords)) /\ UNCHANGED served
===============================================================================
