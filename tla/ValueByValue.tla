----------------------------- MODULE ValueByValue -----------------------------
(***************************************************************************)
(* What the providers other than Route 53 have in common, and most of all   *)
(* those whose service keeps one record per value: AddRecord creates the    *)
(* records one by one, RemoveRecord lists the records, keeps the matching   *)
(* ones and deletes them one by one, UpdateRecord is RemoveRecord followed  *)
(* by AddRecord.  Each step is one request to the service; any of them may  *)
(* fail, the process may end between two of them, and others write to the   *)
(* zone in between.                                                         *)
(*                                                                          *)
(* A name is the sequence of its parts: <<l, "root", ".">> is fully         *)
(* qualified, <<"root", ".">> the zone itself, <<l>> is relative to it.     *)
(***************************************************************************)
EXTENDS Naturals, Sequences, FiniteSets

CONSTANTS
    Labels,     \* the first labels of the names that are managed
    Types,      \* record types
    Vals,       \* record values
    TTL,        \* config.TTL
    MaxRecords, \* bound on the records in the zone at the start and after
                \* writes of others
    PageSize,   \* the size of a page of DNSimple and Infoblox
    Faults      \* whether a request may fail and the process end

\* "@" stands for the zone itself and is no label: sanitizeLabel leaves none in
\* the parts of a name, and host names have none.
ASSUME ValueAssumption ==
    /\ {TTL, PageSize} \subseteq Nat \ {0}
    /\ MaxRecords \in Nat
    /\ "@" \notin Labels
    /\ Faults \in BOOLEAN

VARIABLES
    zone,       \* the records of the service
    call,       \* the call in progress
    pc,         \* "idle", "find", "delete", "create", or "set" (Gandi)
    doomed,     \* the records RemoveRecord has yet to delete
    missing,    \* the values AddRecord has yet to create
    result,     \* what the last call reported
    disturbed   \* whether others wrote to the zone since the call began

vars == <<zone, call, pc, doomed, missing, result, disturbed>>

Root == <<"root">>
Dot == <<".">>

\* The names the pass uses, and all names of the zone.
Managed == {<<l>> \o Root \o Dot : l \in Labels}
Fqdns == Managed \cup {Root \o Dot}
Keys == Fqdns \X Types

\* utils.Fqdn and utils.UnFqdn: add and remove the trailing dot.
Fqdn(name) == IF name = <<>> \/ name[Len(name)] = "." THEN name ELSE name \o Dot

UnFqdn(name) ==
    IF name # <<>> /\ name[Len(name)] = "." THEN SubSeq(name, 1, Len(name) - 1) ELSE name

\* strings.TrimSuffix(fqdn, ".root."): the zone's own name has no such suffix.
Relative(fqdn) == IF fqdn \in Managed THEN <<fqdn[1]>> ELSE fqdn

NoCall == [op |-> "none"]
CallKey == [fqdn |-> call.key[1], type |-> call.key[2]]

Records(names) == [name : names, type : Types, val : Vals, ttl : {TTL}]

InitZone(records) ==
    /\ zone \in {z \in SUBSET records : IsFiniteSet(z) /\ Cardinality(z) <= MaxRecords}
    /\ call = NoCall
    /\ pc = "idle"
    /\ doomed = {}
    /\ missing = {}
    /\ result = "none"
    /\ disturbed = FALSE

-------------------------------------------------------------------------------
\* The pass calls the provider for a record set its listing asks a change for.
\* The provider does not answer for the record sets in excused.
Begin(listing, excused) ==
    /\ pc = "idle"
    /\ \E op \in {"Add", "Update", "Remove"}, k \in Managed \X Types, vs \in SUBSET Vals :
           /\ op = "Remove" <=> vs = {}
           /\ CASE op = "Add"    -> listing[k] = {}
                [] op = "Update" -> listing[k] \notin {{}, vs}
                [] op = "Remove" -> listing[k] # {}
           /\ call' = [op |-> op, key |-> k, vals |-> vs]
           /\ pc' = IF op = "Add" THEN "create" ELSE "find"
           /\ missing' = IF op = "Add" THEN vs ELSE {}
           /\ disturbed' = (k \in excused)
    /\ doomed' = {}
    /\ result' = "none"
    /\ UNCHANGED zone

Return(res) ==
    /\ pc' = "idle"
    /\ call' = NoCall
    /\ doomed' = {}
    /\ missing' = {}
    /\ result' = res
    /\ UNCHANGED <<zone, disturbed>>

\* RemoveRecord: the records found are deleted in turn.  A record that is gone
\* cannot be deleted.
Finding(found) ==
    /\ pc = "find"
    /\ doomed' = found
    /\ pc' = "delete"
    /\ UNCHANGED <<zone, call, missing, result, disturbed>>

Deleting ==
    /\ pc = "delete"
    /\ \E r \in doomed :
           \/ /\ r \in zone
              /\ zone' = zone \ {r}
              /\ doomed' = doomed \ {r}
              /\ UNCHANGED <<call, pc, missing, result, disturbed>>
           \/ /\ r \notin zone
              /\ Return("err")

Removed == pc = "delete" /\ doomed = {} /\ call.op = "Remove" /\ Return("ok")

\* UpdateRecord: RemoveRecord has returned no error, AddRecord begins.
ThenAdd ==
    /\ pc = "delete" /\ doomed = {} /\ call.op = "Update"
    /\ pc' = "create"
    /\ missing' = call.vals
    /\ UNCHANGED <<zone, call, doomed, result, disturbed>>

\* AddRecord: the values are created in turn.
Create(v, record) ==
    /\ zone' = zone \cup {record}
    /\ missing' = missing \ {v}
    /\ UNCHANGED <<call, pc, doomed, result, disturbed>>

Creating(Prepare(_)) == pc = "create" /\ \E v \in missing : Create(v, Prepare(v))

Created == pc = "create" /\ missing = {} /\ Return("ok")

-------------------------------------------------------------------------------
\* A request fails, whether the service has carried it out or not: the
\* function returns the error at once.
RequestFails == Faults /\ pc # "idle" /\ Return("err")

\* The process ends; the restarted one knows nothing of the call.
Crash == Faults /\ pc # "idle" /\ Return("none")

\* Someone else adds or deletes a record, after the pass has listed the zone.
\* What they did before is in the initial states.
Disturb(records) ==
    /\ pc # "idle"
    /\ \/ \E r \in zone : zone' = zone \ {r}
       \/ Cardinality(zone) < MaxRecords /\ \E r \in records \ zone : zone' = zone \cup {r}
    /\ disturbed' = TRUE
    /\ UNCHANGED <<call, pc, doomed, missing, result>>

\* A listing as the pass sees it: the values under each name and type.
Listing(records, FqdnOf(_)) ==
    [k \in Keys |-> {r.val : r \in {s \in records : <<FqdnOf(s.name), s.type>> = k}}]

\* PageSize records of a larger number are seen, in an order that is the
\* service's.
OnePage(records) ==
    IF Cardinality(records) <= PageSize THEN {records}
    ELSE {s \in SUBSET records : Cardinality(s) = PageSize}

\* A listing in several pages, numbered: while others write, records move
\* from one page to another and the listing may miss them.
Paged(records) == IF disturbed THEN SUBSET records ELSE {records}
===============================================================================
