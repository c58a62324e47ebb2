-------------------------------- MODULE SyncLoop --------------------------------
(***************************************************************************)
(* The service: the loop of main.go with the pass of external-dns.go that   *)
(* it runs, together with the three systems it talks to.                    *)
(*                                                                          *)
(*   metadata service   metaVersion, desired   what should be published     *)
(*   hosted zone        zone                   what is published            *)
(*   platform API       reported               the names it was told about  *)
(*                                                                          *)
(* Every call to one of them is one step, so the others may change between  *)
(* any two calls.  A provider call either takes effect and succeeds, fails  *)
(* without effect, or takes effect and is nevertheless reported as failed   *)
(* (a lost answer, or an SDK retry of a DELETE that had already removed the *)
(* record).  The process may be killed between any two calls.               *)
(***************************************************************************)
EXTENDS Reconcile

CONSTANTS
    Versions,   \* metadata versions; a change picks one that is not in use
    Init0,      \* the value "init" of currentVersion, no metadata version
    Faults,     \* whether calls to the other systems may fail
    Crashes,    \* whether the process may be killed
    Operators   \* whether operators edit A records of the zone

ASSUME VersionAssumption == Init0 \notin Versions
ASSUME ToggleAssumption == {Faults, Crashes, Operators} \subseteq BOOLEAN

VARIABLES
    metaVersion, desired, zone, reported,
    calm,               \* TRUE once the environment leaves the service alone
    pc,                 \* where the process is in main
    ttl,                \* config.TTL
    currentVersion, forceDue, hasSynchronized, cached,
    forced,             \* updateForced
    recs,               \* metadataRecs
    view,               \* the listing the pass works from
    todo,               \* the keys of the plan whose calls are still to be made
    updated             \* updatedRecords

envVars   == <<metaVersion, desired, calm>>
loopVars  == <<ttl, currentVersion, forceDue, hasSynchronized, cached>>
passVars  == <<recs, view, todo, updated>>
procVars  == <<pc, loopVars, forced, passVars>>
vars      == <<envVars, zone, reported, procVars>>

PCs == {"down", "start", "adopt", "poll", "fetch", "read", "apply", "notify"}

\* Every variable holds a value of its kind.
TypeOK ==
    /\ metaVersion \in Versions
    /\ desired \in Wants
    /\ zone \in Zones
    /\ reported \subseteq Names
    /\ calm \in BOOLEAN
    /\ pc \in PCs
    /\ ttl \in TTLs
    /\ currentVersion \in Versions \cup {Init0}
    /\ forceDue \in BOOLEAN
    /\ hasSynchronized \in BOOLEAN
    /\ cached \in Tables
    /\ forced \in BOOLEAN
    /\ recs \in Tables
    /\ view \in Tables
    /\ todo \subseteq Keys
    /\ updated \subseteq Keys

-------------------------------------------------------------------------------
(***************************************************************************)
(* Init: the process is about to start, on a zone that operators and an     *)
(* earlier run of the service may have filled.                              *)
(***************************************************************************)
Init ==
    /\ metaVersion \in Versions
    /\ desired \in Wants
    /\ zone \in Zones
    /\ reported = {}
    /\ calm = FALSE
    /\ pc = "start"
    /\ ttl \in TTLs
    /\ currentVersion = Init0
    /\ forceDue = FALSE
    /\ hasSynchronized = FALSE
    /\ cached = NoRecs
    /\ forced = FALSE
    /\ recs = NoRecs
    /\ view = NoRecs
    /\ todo = {}
    /\ updated = {}

-------------------------------------------------------------------------------
(***************************************************************************)
(* The process.                                                             *)
(***************************************************************************)
\* setEnv: a new process reads its configuration and knows nothing else.
Restart ==
    /\ pc = "down"
    /\ pc' = "start"
    /\ ttl' \in TTLs
    /\ UNCHANGED <<envVars, zone, reported, currentVersion, forceDue,
                   hasSynchronized, cached, forced, passVars>>

\* The variables of a pass go out of scope.
EndPass ==
    /\ recs' = NoRecs
    /\ view' = NoRecs
    /\ todo' = {}
    /\ updated' = {}

\* The process is gone, and with it everything it kept in memory.
Die ==
    /\ pc' = "down"
    /\ ttl' = ttl
    /\ currentVersion' = Init0
    /\ forceDue' = FALSE
    /\ hasSynchronized' = FALSE
    /\ cached' = NoRecs
    /\ forced' = FALSE
    /\ EndPass

\* Mutant: the upgrade writes the state record even if it has nothing to list.
UpgradeCheckUnguarded ==
    /\ pc = "start"
    /\ LET listing == GetRecords(zone) IN
          IF listing[State] # Absent
          THEN pc' = "poll" /\ view' = view
          ELSE pc' = "adopt" /\ view' = listing
    /\ UNCHANGED <<envVars, zone, reported, loopVars, forced, recs, todo, updated>>

\* EnsureUpgradeToStateRRSet, up to its GetRecords call.
UpgradeCheck ==
    /\ pc = "start"
    /\ LET listing == GetRecords(zone) IN
          IF LegacyOwned(listing, ttl) = {}
          THEN pc' = "poll" /\ view' = view
          ELSE pc' = "adopt" /\ view' = listing
    /\ UNCHANGED <<envVars, zone, reported, loopVars, forced, recs, todo, updated>>

UpgradeCheckFails ==
    /\ pc = "start"
    /\ Faults /\ ~calm
    /\ Die
    /\ UNCHANGED <<envVars, zone, reported>>

\* EnsureUpgradeToStateRRSet, its AddRecord call.
Adopted == StateRecord(LegacyOwned(view, ttl), ttl)

Adopt ==
    /\ pc = "adopt"
    /\ zone' = ChangeRecord(zone, State, "Add", Adopted)
    /\ pc' = "poll"
    /\ view' = NoRecs
    /\ UNCHANGED <<envVars, reported, loopVars, forced, recs, todo, updated>>

AdoptFails ==
    /\ pc = "adopt"
    /\ Faults /\ ~calm
    /\ zone' \in {zone, ChangeRecord(zone, State, "Add", Adopted)}
    /\ Die
    /\ UNCHANGED <<envVars, reported>>

\* The top of the loop: GetVersion answers.  A failing GetVersion goes back to
\* the top and changes nothing.
NewVersion ==
    /\ pc = "poll"
    /\ currentVersion # metaVersion
    /\ currentVersion' = metaVersion
    /\ forced' = FALSE
    /\ pc' = "fetch"
    /\ UNCHANGED <<envVars, zone, reported, ttl, forceDue, hasSynchronized, cached, passVars>>

ForceUpdate ==
    /\ pc = "poll"
    /\ currentVersion = metaVersion
    /\ forceDue
    /\ forced' = TRUE
    /\ pc' = "fetch"
    /\ UNCHANGED <<envVars, zone, reported, loopVars, passVars>>

\* shouldSynchronize.  DeepEqual also compares the order of the addresses of a
\* record, which is that of the containers in the metadata answer.
SameOrders(table) ==
    IF \E n \in Names : \E a, b \in table[n].vals : a # b THEN BOOLEAN ELSE {TRUE}

\* Mutant: a forced update is skipped when the records did not change.
ShouldSynchronizeUnforced(table, sameOrder) ==
    ~hasSynchronized \/ table # cached \/ ~sameOrder

ShouldSynchronize(table, sameOrder) ==
    ~hasSynchronized \/ forced \/ table # cached \/ ~sameOrder

\* GetMetadataDnsRecords answers with the records of want.
FetchAnswer(want) ==
    LET table == MetadataRecs(want, ttl) IN
    \E sameOrder \in SameOrders(table) :
       IF ShouldSynchronize(table, sameOrder)
       THEN pc' = "read" /\ recs' = table
       ELSE pc' = "poll" /\ recs' = recs

Fetch ==
    /\ pc = "fetch"
    /\ FetchAnswer(desired)
    /\ UNCHANGED <<envVars, zone, reported, loopVars, forced, view, todo, updated>>

\* A container whose host cannot be looked up is left out, and the answer is
\* used all the same.
FetchPartial ==
    /\ pc = "fetch"
    /\ Faults /\ ~calm
    /\ \E want \in Wants :
          /\ want # desired
          /\ \A n \in Names : want[n] \subseteq desired[n]
          /\ FetchAnswer(want)
    /\ UNCHANGED <<envVars, zone, reported, loopVars, forced, view, todo, updated>>

FetchFails ==
    /\ pc = "fetch"
    /\ Faults /\ ~calm
    /\ pc' = "poll"
    /\ UNCHANGED <<envVars, zone, reported, loopVars, forced, passVars>>

\* UpdateProviderDnsRecords: getProviderDnsRecords and the plan it leads to.
Proceed == pc' = IF todo' = {} THEN "notify" ELSE "apply"

Read ==
    /\ pc = "read"
    /\ view' = GetRecords(zone)
    /\ todo' = Plan(recs, view')
    /\ Proceed
    /\ UNCHANGED <<envVars, zone, reported, loopVars, forced, recs, updated>>

Abort ==
    /\ pc' = "poll"
    /\ EndPass

ReadFails ==
    /\ pc = "read"
    /\ Faults /\ ~calm
    /\ Abort
    /\ UNCHANGED <<envVars, zone, reported, loopVars, forced>>

\* updateRecords: the next provider call of the pass, for key k.
Turn(k) ==
    /\ pc = "apply"
    /\ k \in todo
    /\ \A j \in todo : ~Precedes(j, k, recs, view)

Op(k)  == OpFor(k, recs, view)
Arg(k) == RecordFor(k, recs, view)

Change(k) ==
    /\ Turn(k)
    /\ Accepts(zone, k, Op(k), Arg(k))
    /\ zone' = ChangeRecord(zone, k, Op(k), Arg(k))
    /\ todo' = todo \ {k}
    /\ updated' = IF Op(k) = "Remove" THEN updated ELSE updated \cup {k}
    /\ Proceed
    /\ UNCHANGED <<envVars, reported, loopVars, forced, recs, view>>

ChangeRefused(k) ==
    /\ Turn(k)
    /\ ~Accepts(zone, k, Op(k), Arg(k))
    /\ Abort
    /\ UNCHANGED <<envVars, zone, reported, loopVars, forced>>

ChangeFails(k) ==
    /\ Turn(k)
    /\ Faults /\ ~calm
    /\ \/ zone' = zone
       \/ /\ Accepts(zone, k, Op(k), Arg(k))
          /\ zone' = ChangeRecord(zone, k, Op(k), Arg(k))
    /\ Abort
    /\ UNCHANGED <<envVars, reported, loopVars, forced>>

\* The FQDN of each updated A record goes to the platform (the state record
\* has no service name).  An event that fails is logged and not sent again.
Notify(n) ==
    /\ pc = "notify"
    /\ n \in updated \cap Names
    /\ \/ reported' = reported \cup {n}
       \/ Faults /\ ~calm /\ reported' = reported
    /\ updated' = updated \ {n}
    /\ UNCHANGED <<envVars, zone, pc, loopVars, forced, recs, view, todo>>

\* Mutant: the version is taken at the end of the pass.
FinishRereads ==
    /\ pc = "notify"
    /\ updated \cap Names = {}
    /\ cached' = recs
    /\ forceDue' = FALSE
    /\ hasSynchronized' = TRUE
    /\ currentVersion' = metaVersion
    /\ pc' = "poll"
    /\ EndPass
    /\ UNCHANGED <<envVars, zone, reported, ttl, forced>>

Finish ==
    /\ pc = "notify"
    /\ updated \cap Names = {}
    /\ cached' = recs
    /\ forceDue' = FALSE
    /\ hasSynchronized' = TRUE
    /\ pc' = "poll"
    /\ EndPass
    /\ UNCHANGED <<envVars, zone, reported, ttl, currentVersion, forced>>

-------------------------------------------------------------------------------
(***************************************************************************)
(* The environment.                                                         *)
(***************************************************************************)
\* A minute has gone by since lastUpdated.  Only the top of the loop looks.
TimePasses ==
    /\ pc = "poll"
    /\ ~forceDue
    /\ forceDue' = TRUE
    /\ UNCHANGED <<envVars, zone, reported, pc, ttl, currentVersion,
                   hasSynchronized, cached, forced, passVars>>

\* Containers start, stop or move.  The version changes, the records may not.
MetadataChange ==
    /\ ~calm
    /\ metaVersion' \in Versions \ {metaVersion, currentVersion}
    /\ desired' \in Wants
    /\ UNCHANGED <<zone, reported, calm, procVars>>

\* An operator writes or deletes an A record.
OperatorEdit(n) ==
    /\ Operators /\ ~calm
    /\ \E r \in ARecords \ {zone[n]} : zone' = [zone EXCEPT ![n] = r]
    /\ UNCHANGED <<envVars, reported, procVars>>

Crash ==
    /\ Crashes /\ ~calm
    /\ pc # "down"
    /\ Die
    /\ UNCHANGED <<envVars, zone, reported>>

\* From here on the environment changes nothing and every call succeeds.
BecomeCalm ==
    /\ ~calm
    /\ calm' = TRUE
    /\ UNCHANGED <<metaVersion, desired, zone, reported, procVars>>

-------------------------------------------------------------------------------
Startup == Restart \/ UpgradeCheck \/ Adopt

StartupFails == UpgradeCheckFails \/ AdoptFails

Loop ==
    \/ NewVersion \/ ForceUpdate \/ Fetch \/ Read \/ Finish
    \/ \E k \in Keys : Change(k) \/ ChangeRefused(k)
    \/ \E n \in Names : Notify(n)

LoopFails == FetchPartial \/ FetchFails \/ ReadFails \/ \E k \in Keys : ChangeFails(k)

Environment ==
    \/ TimePasses \/ MetadataChange \/ Crash \/ BecomeCalm
    \/ \E n \in Names : OperatorEdit(n)

Next == Startup \/ StartupFails \/ Loop \/ LoopFails \/ Environment

\* The loop never stops by itself, a minute always passes, and the container
\* is started again when it exits.
Fairness ==
    /\ WF_vars(Startup)
    /\ WF_vars(Loop)
    /\ WF_vars(TimePasses)

Spec == Init /\ [][Next]_vars

FairSpec == Spec /\ Fairness

-------------------------------------------------------------------------------
(***************************************************************************)
(* Properties.                                                              *)
(***************************************************************************)
\* The names that the ownership state of a zone lists.
ListedNames(z) == GetRecords(z)[State].vals

\* The state record that a pass wants lists the names that it wants.
StateListsWanted ==
    \A n \in Names : n \in recs[State].vals <=> recs[n] # Absent

\* The steps of the process and of its environment are told apart by what they
\* change: every step of the process moves one of its own variables.
ByService == procVars' # procVars

\* The zone publishes exactly what metadata wants under the wanted names, and
\* the state record lists exactly these names.
InSync ==
    LET listing == GetRecords(zone)
    IN  /\ \A n \in Wanted(desired) : listing[n].vals = desired[n]
        /\ listing[State].vals = Wanted(desired)

\* main consumes a version before it fetches the records, and the records may
\* change in between: with calls that succeed and a zone nobody else writes,
\* an idle service that has seen the current version has published its records
\* and remembers them.
NoLostUpdate ==
    (pc = "poll" /\ currentVersion = metaVersion) =>
        /\ hasSynchronized
        /\ cached = MetadataRecs(desired, ttl)
        /\ InSync

\* Whatever failed, crashed or was edited before: once the environment leaves
\* the service alone, the zone ends up in step with metadata and stays so (the
\* forced update of main is what makes up for a pass that failed).
Converges == <>[]calm => <>[]InSync

\* Once the environment is calm, the wanted names are published with the TTL the
\* service is configured with.
TTLApplied ==
    <>[]calm => <>[](\A n \in Wanted(desired) : GetRecords(zone)[n].ttl = ttl)
===============================================================================
