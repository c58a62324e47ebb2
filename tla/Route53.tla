-------------------------------- MODULE Route53 --------------------------------
(***************************************************************************)
(* The Route 53 provider (providers/route53/route53.go) and the part of the *)
(* hosted zone it works on.  A zone is a function on Keys: for each name    *)
(* the record set stored there, Absent, or Alias for a record set the       *)
(* provider does not list (alias and traffic-policy records have no TTL and *)
(* no values).                                                              *)
(***************************************************************************)
EXTENDS DnsRecords

CONSTANT HasAliases     \* whether operators use alias records

ASSUME AliasAssumption == HasAliases \in BOOLEAN

Alias == [kind |-> "alias", vals |-> {}, ttl |-> 0]
Proprietary == IF HasAliases THEN {Alias} ELSE {}

\* Route 53 keeps TXT values between double quotes.
Quoted(n) == <<n>>
QuotedNames == {Quoted(n) : n \in Names}

\* What changeRecord sends, and what GetRecords makes of what it receives.
Encode(k, r) ==
    IF k = State THEN RRSet({Quoted(n) : n \in r.vals}, r.ttl) ELSE r

Decode(k, r) ==
    IF k = State /\ r # Absent
    THEN RRSet({n \in Names : Quoted(n) \in r.vals}, r.ttl) ELSE r

IsProprietary(r) == r.kind = "alias"

\* GetRecords: every record set of the zone but the proprietary ones.
GetRecords(z) ==
    [k \in Keys |-> IF IsProprietary(z[k]) THEN Absent ELSE Decode(k, z[k])]

(***************************************************************************)
(* One ChangeResourceRecordSets call.  AddRecord and UpdateRecord both send *)
(* UPSERT, RemoveRecord sends DELETE, which the service accepts only for a  *)
(* record set that matches the stored one in every value and in TTL.        *)
(***************************************************************************)
Ops == {"Add", "Remove", "Update"}

Accepts(z, k, op, r) ==
    /\ r.vals # {}
    /\ op = "Remove" => z[k] = Encode(k, r)

ChangeRecord(z, k, op, r) ==
    [z EXCEPT ![k] = IF op = "Remove" THEN Absent ELSE Encode(k, r)]

\* The zones: what may be stored under an A name and under State.
ARecords == {Absent} \cup Proprietary \cup RRSets(Addrs)
TXTRecords == {Absent} \cup RRSets(QuotedNames)

Zones ==
    {z \in [Keys -> ARecords \cup TXTRecords] :
        /\ z[State] \in TXTRecords
        /\ \A n \in Names : z[n] \in ARecords}
===============================================================================
