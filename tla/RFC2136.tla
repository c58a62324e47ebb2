-------------------------------- MODULE RFC2136 --------------------------------
(***************************************************************************)
(* The RFC 2136 provider (providers/rfc2136/rfc2136.go): dynamic updates to *)
(* a name server, one message for a whole record set, and listing by zone   *)
(* transfer.                                                                *)
(***************************************************************************)
EXTENDS ValueByValue

ApiRecords == Records(Fqdns)

RRset == {r \in zone : r.name = CallKey.fqdn /\ r.type = CallKey.type}

\* AddRecord: one message inserts the records next to those there are.
AddRecord ==
    \/ /\ pc = "create" /\ missing # {}
       /\ zone' = zone \cup {[name |-> CallKey.fqdn, type |-> CallKey.type, val |-> v,
                              ttl |-> TTL] : v \in missing}
       /\ missing' = {}
       /\ UNCHANGED <<call, pc, doomed, result, disturbed>>
    \/ Created

\* Mutant: the message removes all records of the name.
RemoveRecordName ==
    \/ /\ pc = "find"
       /\ zone' = zone \ {r \in zone : r.name = CallKey.fqdn}
       /\ pc' = "delete"
       /\ UNCHANGED <<call, doomed, missing, result, disturbed>>
    \/ Removed

\* RemoveRecord: one message removes the record set, if there is one.
RemoveRecord ==
    \/ /\ pc = "find"
       /\ zone' = zone \ RRset
       /\ pc' = "delete"
       /\ UNCHANGED <<call, doomed, missing, result, disturbed>>
    \/ Removed

UpdateRecord == ThenAdd

\* list: an error in the middle of the transfer is logged, and what arrived
\* before it is taken for the zone.
Transfer == IF Faults THEN SUBSET zone ELSE {zone}

GetRecords(records) == Listing(records, Fqdn)

\* The record sets as they are, which is what the contract speaks about.  The
\* provider is excused where the transfer lacks records.
Stored == GetRecords(zone)

Misread(listing) == {k \in Keys : listing[k] # Stored[k]}

Init == InitZone(ApiRecords)

Next ==
    \/ \E records \in Transfer : Begin(GetRecords(records), Misread(GetRecords(records)))
    \/ AddRecord
    \/ UpdateRecord
    \/ RemoveRecord
    \/ RequestFails
    \/ Crash
    \/ Disturb(ApiRecords)
===============================================================================
