------------------------------- MODULE Reconcile -------------------------------
(***************************************************************************)
(* The planning half of external-dns.go: which record sets a pass removes,  *)
(* adds and updates, given the records metadata wants (recs) and the ones   *)
(* the provider listed (view), and in which order it makes the calls.       *)
(***************************************************************************)
EXTENDS Route53

CONSTANT LegacyNames    \* the names that end in the suffix of earlier versions

ASSUME LegacyAssumption == LegacyNames \subseteq Names

\* Mutant: every listed record is taken for one of the service.
OurRecordsAll(view) == Present(view)

\* getProviderDnsRecords: the keys of ourRecords, the state record itself and
\* the listed A records that it names.
OurRecords(view) ==
    IF view[State] = Absent THEN {}
    ELSE {State} \cup {n \in view[State].vals : view[n] # Absent}

\* removeExtraRecords, addMissingRecords and updateExistingRecords.  Only the
\* values of a record decide whether it is updated, never its TTL.
ToRemove(recs, view) == {k \in OurRecords(view) : recs[k] = Absent}

ToAdd(recs, view) == {k \in Present(recs) : view[k] = Absent}

\* Mutant: values that are published but not wanted are not noticed.
ToUpdateMissing(recs, view) ==
    {k \in Present(recs) : view[k] # Absent /\ ~(recs[k].vals \subseteq view[k].vals)}

ToUpdate(recs, view) ==
    {k \in Present(recs) : view[k] # Absent /\ view[k].vals # recs[k].vals}

Plan(recs, view) ==
    ToRemove(recs, view) \cup ToAdd(recs, view) \cup ToUpdate(recs, view)

\* The call UpdateProviderDnsRecords makes for a key of the plan, and the
\* record it passes.
OpFor(k, recs, view) ==
    IF recs[k] = Absent THEN "Remove"
    ELSE IF view[k] = Absent THEN "Add" ELSE "Update"

RecordFor(k, recs, view) == IF recs[k] = Absent THEN view[k] ELSE recs[k]

\* Mutant: removals come last.
PhaseRemoveLast(op) == CASE op = "Remove" -> 3 [] op = "Add" -> 1 [] op = "Update" -> 2

\* The order of the calls: removals, additions, updates; within each the
\* state record last (sortedKeys, sortedDNSRecordKeys).  The alphabetical
\* order of the A records is left open.
Phase(op) == CASE op = "Remove" -> 0 [] op = "Add" -> 1 [] op = "Update" -> 2

\* Mutant: the state record is called like any other within a phase.
PrecedesByPhase(j, k, recs, view) ==
    Phase(OpFor(j, recs, view)) < Phase(OpFor(k, recs, view))

Precedes(j, k, recs, view) ==
    LET pj == Phase(OpFor(j, recs, view))
        pk == Phase(OpFor(k, recs, view))
    IN  pj < pk \/ (pj = pk /\ j # State /\ k = State)

\* EnsureUpgradeToStateRRSet: the listed A records taken over from earlier
\* versions, by suffix and TTL, when there is no state record.
LegacyOwned(view, ttl) ==
    IF view[State] # Absent THEN {}
    ELSE {n \in LegacyNames : view[n] # Absent /\ view[n].ttl = ttl}
===============================================================================
