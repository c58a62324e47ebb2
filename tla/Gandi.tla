--------------------------------- MODULE Gandi ---------------------------------
(***************************************************************************)
(* The Gandi provider (providers/gandi/gandi.go).  Zones have versions: a   *)
(* call clones the version that is set, edits the clone and then sets it,   *)
(* so that the zone is published in one step.  The service names records    *)
(* relative to the domain, the empty name being the domain itself.          *)
(*                                                                          *)
(* zone is the version that is set.  Others may set another one meanwhile:  *)
(* the call then replaces theirs.                                           *)
(***************************************************************************)
EXTENDS ValueByValue

VARIABLE draft      \* the version under construction, as <<records>>, or <<>>

ApiNames == {<<l>> : l \in Labels} \cup {<<>>}
ApiRecords == Records(ApiNames)

Draft == draft[1]

ListedName(name) == name \o Root \o Dot

\* parseName: zoneSuffix lacks the trailing dot, so no name ends in it.
ParseName(fqdn) == fqdn

\* newZoneVersion: the clone of the version that was set when Info was asked.
NewZoneVersion ==
    /\ pc \in {"find", "create"}
    /\ draft = <<>>
    /\ draft' = <<zone>>
    /\ UNCHANGED vars

FindRecords ==
    {r \in Draft : ListedName(r.name) = ParseName(CallKey.fqdn) /\ r.type = CallKey.type}

VersionRemoveRecord ==
    /\ draft # <<>>
    /\ \/ Finding(FindRecords) /\ UNCHANGED draft
       \/ /\ pc = "delete"
          /\ \E r \in doomed : draft' = <<Draft \ {r}>> /\ doomed' = doomed \ {r}
          /\ UNCHANGED <<zone, call, pc, missing, result, disturbed>>

VersionAddRecord ==
    /\ draft # <<>>
    /\ pc = "create"
    /\ \E v \in missing :
          /\ draft' = <<Draft \cup {[name |-> Relative(ParseName(CallKey.fqdn)),
                                      type |-> CallKey.type, val |-> v, ttl |-> TTL]}>>
          /\ missing' = missing \ {v}
    /\ UNCHANGED <<zone, call, pc, doomed, result, disturbed>>

\* Mutant: the version is set before the last values are in it.
SetZoneVersionEarly ==
    /\ draft # <<>>
    /\ \/ pc = "create"
       \/ pc = "delete" /\ doomed = {} /\ call.op = "Remove"
    /\ zone' = Draft
    /\ pc' = "set"
    /\ UNCHANGED <<call, doomed, missing, result, disturbed, draft>>

\* setZoneVersion: the last request of each of the three operations.
SetZoneVersion ==
    /\ draft # <<>>
    /\ \/ pc = "create" /\ missing = {}
       \/ pc = "delete" /\ doomed = {} /\ call.op = "Remove"
    /\ zone' = Draft
    /\ pc' = "set"
    /\ UNCHANGED <<call, doomed, missing, result, disturbed, draft>>

\* UpdateRecord: versionAddRecord follows versionRemoveRecord.
UpdateRecord == ThenAdd /\ UNCHANGED draft

\* The call returns, and the version it has not set is forgotten.
Answered == pc = "set" /\ Return("ok") /\ draft' = <<>>

GetRecords == Listing(zone, ListedName)

Init == InitZone(ApiRecords) /\ draft = <<>>

\* Others write at most once per call (a bound).
Next ==
    \/ Begin(GetRecords, {}) /\ UNCHANGED draft
    \/ NewZoneVersion
    \/ VersionRemoveRecord
    \/ VersionAddRecord
    \/ SetZoneVersion
    \/ UpdateRecord
    \/ Answered
    \/ (RequestFails \/ Crash) /\ draft' = <<>>
    \/ ~disturbed /\ Disturb(ApiRecords) /\ UNCHANGED draft
===============================================================================
