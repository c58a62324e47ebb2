------------------------------- MODULE PassAudit -------------------------------
(***************************************************************************)
(* What one reconciliation pass does to the zone, observed next to SyncLoop *)
(* with one history variable: touched, the names that an operator edited    *)
(* after the running pass listed the zone.  About these the pass works from *)
(* stale knowledge, and promises nothing.                                   *)
(***************************************************************************)
EXTENDS SyncLoop

VARIABLE touched

auditVars == <<vars, touched>>

InPass(p) == p \in {"apply", "notify"}

AuditInit == Init /\ touched = {}

Audit ==
    touched' = IF ~InPass(pc) \/ ~InPass(pc')
               THEN {}
               ELSE touched \cup {n \in Names : ~ByService /\ zone'[n] # zone[n]}

AuditNext == Next /\ Audit

AuditSpec == AuditInit /\ [][AuditNext]_auditVars

-------------------------------------------------------------------------------
\* A pass that reports success has done what it planned and nothing else:
\* every wanted name holds the wanted values, every name that the service
\* owned and metadata no longer wants is gone, every other listed name is as
\* the pass found it (UpdateProviderDnsRecords returns nil as error).
SuccessMeansApplied ==
    pc = "notify" =>
        LET listing == GetRecords(zone) IN
        \A k \in Keys \ touched :
            IF recs[k] # Absent THEN listing[k].vals = recs[k].vals
            ELSE IF k \in OurRecords(view) THEN listing[k] = Absent
            ELSE listing[k] = view[k]

\* A pass extends the ownership state only by names whose address is published
\* (sortedKeys puts TXT last; a failing address call ends the pass before).
AddressesBeforeState ==
    [][pc = "apply" =>
        \A n \in (ListedNames(zone') \ ListedNames(zone)) \ touched :
            GetRecords(zone)[n] # Absent]_auditVars

\* A pass drops a name from the ownership state only after the address is gone:
\* an owned record never becomes one that nobody will remove
\* (sortedDNSRecordKeys, and removals before additions and updates).
StateOutlivesAddresses ==
    [][pc = "apply" =>
        \A n \in (ListedNames(zone) \ ListedNames(zone')) \ touched :
            GetRecords(zone)[n] = Absent]_auditVars

-------------------------------------------------------------------------------
(***************************************************************************)
(* The inductive invariant behind the three properties: key by key, what    *)
(* the zone would list now is what the pass wants if the call for the key   *)
(* has been made, and what the pass listed before if not.                   *)
(***************************************************************************)
Progress ==
    /\ todo \subseteq Plan(recs, view)
    /\ \A k \in Keys \ touched :
          GetRecords(zone)[k] = IF k \in Plan(recs, view) \ todo THEN recs[k] ELSE view[k]

\* In a pass every call made so far has had its effect, and only that.
PassInv ==
    /\ touched \subseteq Names
    /\ (pc = "read" \/ InPass(pc)) => StateListsWanted
    /\ InPass(pc) => Progress
    /\ pc = "notify" => todo = {}
===============================================================================
