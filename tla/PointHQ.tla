--------------------------------- MODULE PointHQ ---------------------------------
(***************************************************************************)
(* The PointHQ provider (providers/pointhq/pointhq.go).  The service takes  *)
(* names relative to the zone and lists them fully qualified, but for the   *)
(* zone itself, whose name it lists as empty.  The client for it            *)
(* (go-pointdns) takes an answer that it cannot decode for an empty one.    *)
(***************************************************************************)
EXTENDS ValueByValue

ApiNames == Managed \cup {<<>>}
ApiRecords == Records(ApiNames)

ParseName(fqdn) == Relative(fqdn)

\* The service's side of CreateRecord: a relative name is listed qualified.
StoredName(name) == name \o Root \o Dot

ListedName(name) == IF name = <<>> THEN Root \o Dot ELSE name

\* Mutant: the relative name is looked for among qualified ones.
FindRecordsRelative ==
    {r \in zone : r.name = ParseName(CallKey.fqdn) /\ r.type = CallKey.type}

FindRecords == {r \in zone : r.name = CallKey.fqdn /\ r.type = CallKey.type}

AddRecord ==
    \/ Creating(LAMBDA v : [name |-> StoredName(ParseName(CallKey.fqdn)),
                            type |-> CallKey.type, val |-> v, ttl |-> TTL])
    \/ Created

\* The listing that FindRecords asks for arrives damaged, and no record matches.
\* The provider is excused if there was one.
FindingLost ==
    /\ Faults /\ pc = "find" /\ FindRecords # {}
    /\ doomed' = {}
    /\ pc' = "delete"
    /\ disturbed' = TRUE
    /\ UNCHANGED <<zone, call, missing, result>>

RemoveRecord == Finding(FindRecords) \/ FindingLost \/ Deleting \/ Removed

UpdateRecord == ThenAdd

\* Records of go-pointdns: what can be read and decoded of a list is all of it, or
\* nothing.
Decoded == IF Faults THEN {zone, {}} ELSE {zone}

GetRecords(records) == Listing(records, ListedName)

Stored == GetRecords(zone)

Misread(listing) == {k \in Keys : listing[k] # Stored[k]}

Init == InitZone(ApiRecords)

Next ==
    \/ \E records \in Decoded : Begin(GetRecords(records), Misread(GetRecords(records)))
    \/ AddRecord
    \/ UpdateRecord
    \/ RemoveRecord
    \/ RequestFails
    \/ Crash
    \/ Disturb(ApiRecords)
===============================================================================
