-------------------------------- MODULE PowerDNS --------------------------------
(***************************************************************************)
(* The PowerDNS provider (providers/powerdns/powerdns.go).  A request       *)
(* replaces or deletes a whole record set.  Names have no trailing dot.     *)
(* Operators may disable a record: it is found, but not listed.             *)
(***************************************************************************)
EXTENDS ValueByValue

ApiNames == {UnFqdn(f) : f \in Fqdns}

ApiRecords ==
    [name : ApiNames, type : Types, val : Vals, ttl : {TTL}, disabled : BOOLEAN]

\* Mutant: the type is left out of the request.
RRsetOfName == {r \in zone : r.name = UnFqdn(CallKey.fqdn)}

RRset == {r \in zone : r.name = UnFqdn(CallKey.fqdn) /\ r.type = CallKey.type}

PrepareRecord(v) ==
    [name |-> UnFqdn(CallKey.fqdn), type |-> CallKey.type, val |-> v, ttl |-> TTL,
     disabled |-> FALSE]

\* AddRecord: one request replaces the record set.
AddRecord ==
    \/ /\ pc = "create" /\ missing # {}
       /\ zone' = (zone \ RRset) \cup {PrepareRecord(v) : v \in missing}
       /\ missing' = {}
       /\ UNCHANGED <<call, pc, doomed, result, disturbed>>
    \/ Created

\* RemoveRecord: for each record found, disabled or not, a request that deletes
\* the whole record set, even if it is gone already.
RemoveRecord ==
    \/ Finding(RRset)
    \/ /\ pc = "delete"
       /\ \E r \in doomed : doomed' = doomed \ {r}
       /\ zone' = zone \ RRset
       /\ UNCHANGED <<call, pc, missing, result, disturbed>>
    \/ Removed

UpdateRecord == ThenAdd

\* GetRecords combines all records of a name that are not disabled, under the
\* type of the last one: last tells it for every name.
Enabled(fqdn) == {r \in zone : ~r.disabled /\ Fqdn(r.name) = fqdn}

Lasts == {last \in [Fqdns -> Types] : \A f \in Fqdns :
             Enabled(f) = {} \/ last[f] \in {r.type : r \in Enabled(f)}}

GetRecords(last) ==
    [k \in Keys |-> IF last[k[1]] = k[2] THEN {r.val : r \in Enabled(k[1])} ELSE {}]

\* The record sets as they are, which is what the contract speaks about.  The
\* provider is excused where it lists something else.
Stored == Listing(zone, Fqdn)

Misread(listing) == {k \in Keys : listing[k] # Stored[k]}

Twice(z) == \E r, s \in z : r # s /\ [r EXCEPT !.disabled = s.disabled] = s

Init == InitZone(ApiRecords) /\ ~Twice(zone)

Next ==
    \/ \E last \in Lasts : Begin(GetRecords(last), Misread(GetRecords(last)))
    \/ AddRecord
    \/ UpdateRecord
    \/ RemoveRecord
    \/ RequestFails
    \/ Crash
    \/ Disturb({r \in ApiRecords : ~Twice(zone \cup {r})})
===============================================================================
