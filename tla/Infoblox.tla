-------------------------------- MODULE Infoblox --------------------------------
(***************************************************************************)
(* The Infoblox provider (providers/infoblox/infoblox.go).  The service     *)
(* names records by their full name without the trailing dot, the zone      *)
(* itself by the empty name.  Operators may disable a record: GetRecords    *)
(* does not list it, but it is found, deleted, and in the way of another    *)
(* with the same value.                                                     *)
(*                                                                          *)
(* SendRequest follows the page IDs of an answer and decodes every page     *)
(* into the same slice of pointers: encoding/json fills the elements that   *)
(* are there, so a page overwrites the records of the one before it, and of *)
(* all records as many different ones are left as fit on a page.            *)
(***************************************************************************)
EXTENDS ValueByValue

ApiNames == {UnFqdn(f) : f \in Managed} \cup {<<>>}

ApiRecords ==
    [name : ApiNames, type : Types, val : Vals, ttl : {TTL}, disable : BOOLEAN]

ListedName(name) == IF name = <<>> THEN Root \o Dot ELSE name \o Dot

PrepareRecord(v) ==
    [name |-> UnFqdn(CallKey.fqdn), type |-> CallKey.type, val |-> v, ttl |-> TTL,
     disable |-> FALSE]

Exists(r, z) == \E s \in z : [s EXCEPT !.disable = r.disable] = r

\* Mutant: AddRecord returns no error whatever the service refuses.
AddRecordSwallows ==
    \/ pc = "create" /\ \E v \in missing : Create(v, PrepareRecord(v)) \/ Return("ok")
    \/ Created

\* AddRecord: the service refuses a second record with the same name, type and
\* value; the function then returns at once, without error and without having
\* tried the values that are left.
AddRecord ==
    \/ /\ pc = "create"
       /\ \E v \in missing :
              IF Exists(PrepareRecord(v), zone) THEN Return("ok") ELSE Create(v, PrepareRecord(v))
    \/ Created

\* SendRequest of a GET.
SendRequest(matching) == OnePage(matching)

\* findRecords: the service filters by name and type, disabled or not.
FindRecords == {r \in zone : r.name = UnFqdn(CallKey.fqdn) /\ r.type = CallKey.type}

RemoveRecord ==
    \/ pc = "find" /\ \E found \in SendRequest(FindRecords) : Finding(found)
    \/ Deleting
    \/ Removed

UpdateRecord == ThenAdd

\* GetRecords: one request for each type, and no disabled records.
OfType(t) == {r \in zone : r.type = t}

Answers == {z \in SUBSET zone : \A t \in Types : z \cap OfType(t) \in SendRequest(OfType(t))}

GetRecordsOf(answer) == Listing({r \in answer : ~r.disable}, ListedName)

\* The record sets with a disabled record, and those of a type that takes more
\* than one page.
Excused ==
    {k \in Keys :
        \/ \E r \in zone : r.disable /\ <<ListedName(r.name), r.type>> = k
        \/ Cardinality(OfType(k[2])) > PageSize}

Init ==
    /\ InitZone(ApiRecords)
    /\ \A r \in zone : ~Exists(r, zone \ {r})

Next ==
    \/ \E answer \in Answers : Begin(GetRecordsOf(answer), Excused)
    \/ AddRecord
    \/ UpdateRecord
    \/ RemoveRecord
    \/ RequestFails
    \/ Crash
    \/ Disturb({r \in ApiRecords : ~Exists(r, zone)})
===============================================================================
