------------------------------- MODULE Ownership -------------------------------
(***************************************************************************)
(* Which records of the zone are the service's, observed next to SyncLoop   *)
(* with four history variables:                                             *)
(*   everWanted   names metadata ever wanted, and those an earlier run had  *)
(*                listed in the state record                                *)
(*   adopted      names that EnsureUpgradeToStateRRSet ever took over       *)
(*   created      names whose current A record the service wrote            *)
(*   interrupted  whether the process ever ended, or a pass was given up    *)
(*                that no refusal of the provider explains                  *)
(***************************************************************************)
EXTENDS SyncLoop

VARIABLES everWanted, adopted, created, interrupted

histVars == <<everWanted, adopted, created, interrupted>>
ownVars  == <<vars, histVars>>

OwnInit ==
    /\ Init
    /\ everWanted = Wanted(desired) \cup ListedNames(zone)
    /\ adopted = {}
    /\ created = {}
    /\ interrupted = FALSE

Observe ==
    /\ everWanted' = everWanted \cup Wanted(desired')
    /\ adopted' = IF pc = "adopt" /\ zone' # zone
                  THEN adopted \cup LegacyOwned(view, ttl)
                  ELSE adopted
    /\ created' = {n \in Names : IF zone'[n] = zone[n] THEN n \in created
                                 ELSE ByService /\ zone'[n] # Absent}
    /\ interrupted' = \/ interrupted
                      \/ pc' = "down"
                      \/ pc = "apply" /\ pc' = "poll" /\ ~\E k \in Keys : ChangeRefused(k)

OwnNext == Next /\ Observe

OwnSpec == OwnInit /\ [][OwnNext]_ownVars

OwnFairSpec == OwnSpec /\ Fairness

-------------------------------------------------------------------------------
\* The service writes or deletes an A record only under a name that metadata
\* wanted at some time or that it took over from an earlier version, whatever
\* else operators keep in the zone (the purpose of the state record).
OnlyClaimedTouched ==
    [][ByService =>
        \A n \in Names : zone'[n] # zone[n] => n \in everWanted \cup adopted]_ownVars

\* Until the process ends or a provider call fails for the first time, every
\* address the service published is listed in the ownership state whenever no
\* pass is under way, so that a later pass can remove it: whatever metadata
\* answers, whatever operators edit, and although their edits make the provider
\* refuse removals in the middle of a pass.
NoLeak == (~interrupted /\ pc # "apply") => created \subseteq ListedNames(zone)

\* The service deletes no address under a name that metadata never wanted.
OnlyOwnDeleted ==
    [][ByService =>
        \A n \in Names : (zone[n] # Absent /\ zone'[n] = Absent) => n \in everWanted]_ownVars

\* Once the environment is calm, every address the service published ends up
\* listed in the ownership state.
ManagedIdentified == <>[]calm => <>[](created \subseteq ListedNames(zone))

\* Once the environment is calm, the platform has been told of every wanted
\* name whose address the service published.
FqdnsReported == <>[]calm => <>[](created \cap Wanted(desired) \subseteq reported)

-------------------------------------------------------------------------------
(***************************************************************************)
(* The inductive invariants behind OnlyClaimedTouched and NoLeak.           *)
(***************************************************************************)
Claimed == everWanted \cup adopted

\* Whatever the service may act on is claimed: what metadata wants, what the
\* state record lists, what the running pass fetched and listed.
OwnInv ==
    /\ Wanted(desired) \subseteq everWanted
    /\ ListedNames(zone) \subseteq Claimed
    /\ recs[State].vals \subseteq everWanted
    /\ \A n \in Names : recs[n] # Absent => n \in everWanted
    /\ pc = "apply" => todo \subseteq Plan(recs, view) /\ view[State].vals \subseteq Claimed

\* In a pass, a record of the service is wanted or about to be removed, and as
\* long as there are removals left the state record lists all of them.
LeakProgress ==
    /\ todo \subseteq Plan(recs, view)
    /\ \A n \in created : recs[n] # Absent \/ n \in todo
    /\ GetRecords(zone)[State] =
          IF State \in Plan(recs, view) \ todo THEN recs[State] ELSE view[State]
    /\ (\E k \in todo : recs[k] = Absent) => created \subseteq ListedNames(zone)

LeakInv ==
    ~interrupted =>
        /\ \A n \in created : n \in Names /\ GetRecords(zone)[n] # Absent
        /\ pc \in {"down", "start", "adopt"} => created = {}
        /\ pc \in {"read", "apply"} => StateListsWanted
        /\ IF pc = "apply" THEN LeakProgress ELSE created \subseteq ListedNames(zone)
===============================================================================
