------------------------------ MODULE DigitalOcean ------------------------------
(***************************************************************************)
(* The DigitalOcean provider (providers/digitalocean/digitalocean.go).  The *)
(* service takes fully qualified names and lists names relative to the      *)
(* zone, "@" being the zone itself.  TTLs are per domain: Init overwrites   *)
(* config.TTL with the domain's, which is the TTL of this module.           *)
(***************************************************************************)
EXTENDS ValueByValue

At == <<"@">>
ApiNames == {<<l>> : l \in Labels} \cup {At}
ApiRecords == Records(ApiNames)

\* The service's side of CreateRecord: the name is stored relative to the zone.
StoredName(fqdn) == IF fqdn \in Managed THEN <<fqdn[1]>> ELSE At

NameToFqdn(name) == Fqdn(IF name = At THEN Root ELSE name \o Root)

\* Mutant: one page is fetched although there may be more.
FetchFirstPage == SUBSET zone

\* fetchDoRecords: all pages of the zone's records.
FetchDoRecords == Paged(zone)

Matching(records) ==
    {r \in records : NameToFqdn(r.name) = CallKey.fqdn /\ r.type = CallKey.type}

AddRecord ==
    \/ Creating(LAMBDA v : [name |-> StoredName(CallKey.fqdn), type |-> CallKey.type,
                            val |-> v, ttl |-> TTL])
    \/ Created

RemoveRecord ==
    \/ pc = "find" /\ \E records \in FetchDoRecords : Finding(Matching(records))
    \/ Deleting
    \/ Removed

UpdateRecord == ThenAdd

GetRecords == Listing(zone, NameToFqdn)

Init == InitZone(ApiRecords)

Next ==
    \/ Begin(GetRecords, {})
    \/ AddRecord
    \/ UpdateRecord
    \/ RemoveRecord
    \/ RequestFails
    \/ Crash
    \/ Disturb(ApiRecords)
===============================================================================
