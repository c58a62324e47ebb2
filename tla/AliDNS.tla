--------------------------------- MODULE AliDNS ---------------------------------
(***************************************************************************)
(* The AliDNS provider (providers/alidns/alidns.go).  The service names     *)
(* records relative to the zone, "@" being the zone itself.  Records are    *)
(* listed page by page until TotalCount of them have arrived.               *)
(***************************************************************************)
EXTENDS ValueByValue

At == <<"@">>
ApiNames == {<<l>> : l \in Labels} \cup {At}
ApiRecords == Records(ApiNames)

\* parseName refuses names outside the zone; the pass uses none.
ParseName(fqdn) == IF fqdn = Root \o Dot THEN At ELSE Relative(fqdn)

ListedName(rr) == IF rr = At THEN Root \o Dot ELSE rr \o Root \o Dot

\* prepareRecord: a TTL that is not positive is refused (checkedTTL), but
\* config.TTL always is positive.
PrepareRecord(v) ==
    [name |-> ParseName(CallKey.fqdn), type |-> CallKey.type, val |-> v, ttl |-> TTL]

AddRecord == Creating(PrepareRecord) \/ Created

\* listRecords: the pages are complete, or records moved while others wrote.
\* A page without records before TotalCount was reached is an error, which
\* RequestFails covers.
ListRecords == Paged(zone)

FindRecords(records) ==
    {r \in records : r.name = ParseName(CallKey.fqdn) /\ r.type = CallKey.type}

\* A matching record without an ID is an error before its deletion, which
\* RequestFails covers too.
RemoveRecord ==
    \/ pc = "find" /\ \E records \in ListRecords : Finding(FindRecords(records))
    \/ Deleting
    \/ Removed

\* Mutant: the values are created although deletions are still to come.
UpdateRecordEarly ==
    /\ pc = "delete" /\ call.op = "Update"
    /\ pc' = "create"
    /\ missing' = call.vals
    /\ UNCHANGED <<zone, call, doomed, result, disturbed>>

UpdateRecord == ThenAdd

GetRecords == Listing(zone, ListedName)

Init == InitZone(ApiRecords)

Next ==
    \/ Begin(GetRecords, {})
    \/ AddRecord
    \/ UpdateRecord
    \/ RemoveRecord
    \/ RequestFails
    \/ Crash
    \/ Disturb(ApiRecords)
===============================================================================
