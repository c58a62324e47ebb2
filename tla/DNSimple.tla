-------------------------------- MODULE DNSimple --------------------------------
(***************************************************************************)
(* The DNSimple provider (providers/dnsimple/dnsimple.go).  The service     *)
(* names records relative to the zone, the empty name being the zone        *)
(* itself.  ListRecords is called without paging options, so that only the  *)
(* first page is ever seen: PageSize is its size.                           *)
(***************************************************************************)
EXTENDS ValueByValue

ApiNames == {<<l>> : l \in Labels} \cup {<<>>}
ApiRecords == Records(ApiNames)

\* Mutant: the name is used as it is.
ParseNameFully(fqdn) == fqdn

ParseName(fqdn) == Relative(fqdn)

ListedName(name) == IF name = <<>> THEN Root \o Dot ELSE name \o Root \o Dot

\* The answer to ListRecords: the first page.
ListRecords == OnePage(zone)

FindRecords(answer) ==
    {r \in answer : r.name = ParseName(CallKey.fqdn) /\ r.type = CallKey.type}

AddRecord ==
    \/ Creating(LAMBDA v : [name |-> ParseName(CallKey.fqdn), type |-> CallKey.type,
                            val |-> v, ttl |-> TTL])
    \/ Created

RemoveRecord ==
    \/ pc = "find" /\ \E answer \in ListRecords : Finding(FindRecords(answer))
    \/ Deleting
    \/ Removed

UpdateRecord == ThenAdd

GetRecordsOf(answer) == Listing(answer, ListedName)

\* Records beyond the first page are not seen, whatever their name.
Excused == IF Cardinality(zone) > PageSize THEN Keys ELSE {}

Init == InitZone(ApiRecords)

Next ==
    \/ \E answer \in ListRecords : Begin(GetRecordsOf(answer), Excused)
    \/ AddRecord
    \/ UpdateRecord
    \/ RemoveRecord
    \/ RequestFails
    \/ Crash
    \/ Disturb(ApiRecords)
===============================================================================
