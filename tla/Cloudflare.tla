------------------------------- MODULE Cloudflare -------------------------------
(***************************************************************************)
(* The Cloudflare provider (providers/cloudflare/cloudflare.go).  The       *)
(* service names records by their full name without the trailing dot.       *)
(***************************************************************************)
EXTENDS ValueByValue

ApiNames == {UnFqdn(f) : f \in Fqdns}
ApiRecords == Records(ApiNames)

\* sanitizeTTL: TTLs between 120 and 86400 seconds.
SanitizeTTL(ttl) == IF ttl < 120 THEN 120 ELSE IF ttl > 86400 THEN 86400 ELSE ttl

PrepareRecord(v) ==
    [name |-> UnFqdn(CallKey.fqdn), type |-> CallKey.type, val |-> v, ttl |-> SanitizeTTL(TTL)]

\* Mutant: the type is not compared.
FindRecordsOfName == {r \in zone : r.name = UnFqdn(CallKey.fqdn)}

FindRecords == {r \in zone : r.name = UnFqdn(CallKey.fqdn) /\ r.type = CallKey.type}

AddRecord == Creating(PrepareRecord) \/ Created

RemoveRecord == (pc = "find" /\ \E found \in Paged(FindRecords) : Finding(found)) \/ Deleting \/ Removed

UpdateRecord == ThenAdd

\* GetRecords: the values by name and type.
GetRecords == Listing(zone, Fqdn)

Init == InitZone(ApiRecords)

Next ==
    \/ Begin(GetRecords, {})
    \/ AddRecord
    \/ UpdateRecord
    \/ RemoveRecord
    \/ RequestFails
    \/ Crash
    \/ Disturb(ApiRecords)
===============================================================================
