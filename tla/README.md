# A TLA+ model of External DNS Sync

External DNS Sync publishes the addresses of an environment's services in an
external DNS zone. This directory holds a model of it in TLA+: modules
translated from the Go source, configurations that check them with TLC on small
instances, and proofs checked by TLAPS that hold for every instance. Paths below
are relative to the repository.

## 1. The system

| Part | Source | State it keeps | Operations |
| --- | --- | --- | --- |
| Synchronization loop | `main.go` | `currentVersion`, `lastUpdated`, `hasSynchronized`, `metadataRecsCached` | poll the metadata version, force an update after a minute, fetch, compare with the cache, run a pass, report FQDNs |
| Reconciliation pass | `external-dns.go` | one listing of the zone, the records wanted, the records changed so far | list, remove, add, update |
| Ownership state | `external-dns.go`, `utils/utils.go` | a TXT record in the zone that names the A records of the service | read in every pass, written in every pass that changes it, created by the upgrade path at start |
| Metadata gathering | `metadata/metadata.go` | environment name; per scan: hosts looked up, entries | read environment (with retries), services, hosts; filter; collect addresses per name |
| Route 53 provider | `providers/route53/route53.go` | none besides the client; the hosted zone is external | UPSERT, DELETE, paged listing |
| Start | `main.go` (`setEnv`, `main`), `Init` of each provider | what the process settles on: the platform's origin, the hosted zone | read the configuration, wait for metadata, make the platform client, find the zone |
| Platform client | `platform_client.go`, `internal/platformapi` | the origin it keeps to | one `dns.update` event per updated name; a connection test; no redirects |
| Metadata client | `internal/metadata` | none | requests, the first one with retries; `OnChange` and `waitVersion` (unused by the service) |
| Health check | `healthcheck.go` | none | read-only probes of the three systems, on another goroutine |
| Configuration, registry | `config`, `providers/provider.go` | constants after start | |
| Other providers | `providers/*` | none between calls; the zone is external | `Init`, `AddRecord`, `UpdateRecord`, `RemoveRecord`, `GetRecords`, several requests each; not registered in the published runtime |

The loop calls metadata, the provider and the platform one request at a time.
The health check shares the clients with it but no state that either changes; all
it can do to the loop is end the process, when its server cannot listen.
What interleaves is the process with the three systems: metadata changes, and
operators write to the zone, between any two requests; every request can fail;
the process can be killed between any two of them and then remembers only what
is in the zone.

What makes the parts correct:

* loop: no version of metadata is consumed and forgotten; whatever failed, the
  zone ends up in step with metadata;
* pass: success means done, and nothing else was done, although the plan comes
  from a listing that may be out of date;
* ownership: an address is published before the state record names it and is
  gone before the state record drops it; the service touches no name that is
  not its own and loses track of none that is;
* gathering: the records are those the labels, states, ports and hosts call for,
  each host seen in one version; the scan ends;
* listing: what is in the zone all the time is listed once, whatever is written
  around it; the listing ends;
* start: it settles on the right zone, gives up in bounded time and is repeated
  until it succeeds; credentials go nowhere but to the configured origin;
* health check: `pong` is said only if everything answered since it was asked;
* other providers: a call of several requests touches one record set only,
  leaves old or new values there whenever it is interrupted, reports success
  only if the record set is what was asked for, and publishes what it wrote.

## 2. The modules

```
DnsRecords <- Route53 <- Reconcile <- SyncLoop <- PassAudit <- MCPassAudit
                                         |   ^
                                         |   +--- Ownership <- MCOwnership
                                         +--- MCSyncLoop
SyncLoop <- SyncLoopProofs <- PassAuditProofs (with PassAudit)
                           <- OwnershipProofs (with Ownership)
MetadataRecords <- MCMetadataRecords
                <- MetadataRecordsProofs
Route53Listing <- Listings <- ListingsProofs
ValueByValue <- Cloudflare, DigitalOcean, DNSimple, AliDNS, PointHQ, Infoblox
ValueByValue <- Gandi, OVH, PowerDNS, RFC2136
ValueByValue <- Providers <- MCProviders
                          <- ProviderLemmas <- ProvidersProofs
                Providers has instances of these ten and of ProviderContract
ZoneDiscovery, PlatformOrigin <- Startup <- MCStartup
                                         <- StartupProofs
```

(`A <- B`: B extends A.)

* **DnsRecords**: record sets, and `MetadataRecs`, the map of records that
  `GetMetadataDnsRecords` returns for given addresses per name. The service
  handles A records and one TXT record, so a name tells its type and a table of
  record sets is a function on names. How names are built from templates is
  abstracted.
* **Route53**: the zone as a function from names to record sets, absent or
  hidden (alias and traffic-policy records); the listing `GetRecords`, which
  hides these and removes the quotes of TXT values; the effect of a change.
  DELETE is accepted only if it repeats the stored values and TTL. This part is
  the AWS service as the code relies on it.
* **Reconcile**: the plan of a pass (`ToRemove`, `ToAdd`, `ToUpdate`,
  `OurRecords`), the order of its calls (`Phase`, `Precedes`: removals,
  additions, updates, TXT last in each; the alphabetical order of A records is
  left open), and the choice of the upgrade path (`LegacyOwned`).
* **SyncLoop**: the process, with one step per provider request, and its
  environment. A fetch from metadata is one step, although the code asks for the
  stack, the services and each host in turn (MetadataRecords takes these apart):
  an answer put together from two versions can be read as one more version that
  metadata had for a moment. "Wanted" in the properties therefore means "answered
  by metadata".
  `pc` is the place in `main`: `start` and `adopt` are the two provider calls of
  `EnsureUpgradeToStateRRSet`; `poll` the top of the loop; `fetch`, `read`,
  `apply`, `notify` the requests of an update; `down` a process that exited.
  `forceDue` stands for a minute having passed since `lastUpdated`; it is raised
  at `poll`, the only place that looks at it. `todo` is what is left of the plan;
  `updated` is `updatedRecords`. A provider change succeeds, fails without
  effect, takes effect and is reported as failed (a lost answer, or an SDK retry
  of a DELETE), or is refused. `FetchPartial` is an answer that lacks containers
  whose host lookup failed. Order and attribution of addresses within a record,
  which `reflect.DeepEqual` also compares, can only add a pass: `SameOrders`.
* **PassAudit** and **Ownership** add history variables to SyncLoop: `touched`,
  names edited since the running pass listed the zone; `everWanted`, `adopted`,
  `created`; `interrupted`, whether a process ever ended or a pass was given up
  over a call that the zone would have accepted. They observe and never restrict
  a step.
* **MetadataRecords**: the scan of `getContainersDnsRecords`, one request per
  step, with hosts changing in between and lookups failing. Services and
  containers come in one answer. Containers are taken in any order. It is the
  detail behind the fetch steps of SyncLoop.
* **Route53Listing**: the paging loop of `GetRecords` against a zone others
  write to. SyncLoop takes a listing as one step. The run justifies it name by
  name: whatever is not written during the listing is listed as it is, and a name
  written meanwhile is in one of the versions it had, as if the write had come
  before or after the step. Only operators write meanwhile, and never the TXT
  record.
* **Listings** runs it next to the two listings by page number, DigitalOcean's
  `fetchDoRecords` and AliDNS's `listRecords` (which counts what it has read
  against a total that changes). It justifies the operator `Paged` of
  ValueByValue: a record may be missed only if another was deleted meanwhile.
* **ZoneDiscovery**: the zone that `Init` of each provider chooses among the zones
  of the account, as a set of possible outcomes: Route 53's answer may be the next
  zone in order, or one of two zones of the same name.
* **PlatformOrigin**: what the service accepts as a URL, and what the platform
  client takes for the same origin.
* **Startup**: the start of a process, its restarts, and the health checks next to
  it, one step per request, while the three systems stop and begin to answer and
  zones come and go. `pc` is the place in `setEnv` and `main`; the synchronization
  loop is one place, `loop`. `check` is the request at which a health check is,
  `seen` what has been there since it began. A request to the platform, by the
  check or by the loop, which share the client, takes a step for each hop: `hop` is
  the URL it is at, `Request` the check when it is made, `RoundTrip` the check
  before each hop is sent, `CheckRedirect` the rule that a redirect is the last
  response, and `reached` the origins that requests were sent to. A platform that
  does not answer as it should may redirect to any of `Targets`, and what is there
  may answer anything. SyncLoop begins where this module's `upgrade` does, and takes the
  end of the process by the health server as a crash.
* **ProviderContract**: what `external-dns.go` relies on when it calls a
  provider, in terms of what `GetRecords` would list: the abstract specification
  of the `Provider` interface.
* **ValueByValue**: what the providers have in common, whose services keep one
  record per value: finding, deletions and creations one request at a time, a
  failure, a crash or a write of others between any two. `Begin` is the pass: it
  makes the call that its listing asks for. **Cloudflare**, **DigitalOcean**,
  **DNSimple**, **AliDNS**, **PointHQ** and **Infoblox** add what differs: how a
  service names records (relative, qualified, `@`), how they are matched and
  listed, and the odd cases: listings by page number that miss records while
  others write, DNSimple's single page, Infoblox's pages, each of which overwrites
  the one before, its disabled records and its "already exists".
* **Gandi** clones the zone's version, edits the clone and sets it (`draft`);
  **OVH** changes the zone record by record and asks for a refresh that publishes
  them (`served`); **PowerDNS** replaces and deletes whole record sets, once for
  each record found; **RFC2136** sends one update message per call, and lists by
  a zone transfer that may lose its end without an error.
* **Providers** is the registry: it chooses one of the ten and states that it
  implements the contract. Names are sequences of parts, so that the
  conversions between a service's names and fully qualified ones are real.
  Record IDs are left out: a record deleted and created again by others while a
  call runs counts as the same record.

Definitions named in a comment that starts with "Mutant" are deliberate
slips; the project checks that each breaks the property it is listed with. The
definitions the model uses do not refer to them.

## 3. What TLC checks

| Run | Instance | Shows |
| --- | --- | --- |
| `no_lost_update` | 2 names, 2 addresses; crashes, no failures, no operators | `TypeOK`; `NoLostUpdate`: an idle service that has seen the current version has published its records, although the version is consumed before the fetch and metadata changes at any time |
| `pass_presence` | 2 names, 1 address; failures, crashes, operators | `SuccessMeansApplied`, `AddressesBeforeState`, `StateOutlivesAddresses` |
| `ownership_claims` | 2 names; all faults | `OnlyClaimedTouched`; `NoLeak`: until a process ends or a call fails that the zone would accept, nothing published is unlisted between passes, although removals are refused when operators edit owned records |
| `convergence` | 1 name, 2 addresses, aliases; all faults | `Converges`: if the environment is calm from some time on, the zone is in step from some time on |
| `metadata_answer` | 2 services, 2 containers, 1 host in 4 versions | `AnswerIsReference` against a definition over sets; `ScanEnds`; `TypeOK` |
| `listings` | 3 providers; 5 positions, pages of 2, failing pages | `ListingsFaithful`: Route 53 misses and repeats nothing, numbered pages miss a record only if another was deleted; `ListingEnds`; `TypeOK` |
| `provider_contract` | ten providers; 1 managed name and the zone's own, 2 types, 2 values, up to 3 records; failures, crashes, writes of others | `HonoursContract`: each provider implements ProviderContract; `OthersUntouched`: no call changes another record set; `PublishedOnSuccess`: OVH reports success only after asking for publication, also of what an earlier failed call left |
| `startup` | 11 providers and wrong settings one at a time; 4 zones, two of them named like the root domain; redirects to the same origin, to the host without TLS and to another host | `ServesRootZone`; `CredentialsStay`: no hop of a platform request leaves the configured origin; `PongTruthful`, which a followed redirect to a page of the same origin would break; `StartEnds`; `Recovers`: once everything answers for good, a service that is rightly configured gets into its loop and answers `pong` |

What the contract excuses. A listing that lacks records of the record set leaves a
provider unable to do what it was asked, and its success then means nothing:
records beyond the page (DNSimple, Infoblox), disabled records (Infoblox,
PowerDNS), names with several types (PowerDNS), records lost with a transfer
(RFC 2136) or with an answer that cannot be decoded: go-pointdns drops the errors
of reading and decoding (`pointdns.go:44` and `:56`), so that a damaged list counts
as an empty one, a pass adds what is there already, and `RemoveRecord` reports
success without removing anything (`FindingLost`). `OthersUntouched` holds there too. Its one exception is Gandi, whose
set of a version undoes what others published since the clone.

Bounds. Two names are what the interesting cases need: one that stays and one
that goes, one call that succeeded and one that fails, a removal refused while
another record is still owned. Two addresses give replaced, added and dropped
values. Three versions suffice because a change only has to differ from the
current version and from the one the service holds. Five positions and pages of
two give three pages with a boundary before, at and after a written record. No
run bounds the number of failures, crashes, edits, changes or passes.

Two names, two types and two values let a
provider confuse any of them, and leave a call half done with an old and a new
value; three records exceed the page of two of DNSimple and Infoblox. With Gandi,
others write at most once per call: a second write adds nothing to a version that
is set as a whole. In `startup` each wrong or unusual setting is taken alone, for
each of them ends or changes the start by itself; the four zones lie before, at
and after the root domain in the order of names, and exceed the page of three.
The numbers of attempts are those of the code (5 each).

Symmetry on names, addresses, versions and a provider's values is used in safety
runs only.

What the runs would not notice. `AnswerIsReference` states which services,
containers and hosts count with the same predicates as the scan: it finds what is
lost, repeated or mixed up between requests, and not a filter that is wrong in
itself. `CredentialsStay` has two defences in the code, the transport's check and
the redirect rule; it fails only if both are gone.

Fairness. The loop has no exit, and every request is assumed to return: the
metadata and platform clients have timeouts, but the Route 53 SDK client and
go-pointdns set none of their own and rely on the connection. So the process
takes its steps: `WF(Loop)`, `WF(Startup)`. The latter
includes the restart of a process that exited, which is the platform's service
scheduler and not this code; only runs with crashes or failing starts depend on
it. `WF(TimePasses)`: clocks advance. In Startup, `WF(Start)` and `WF(Health)` say the
same of the start and of a platform that keeps asking for health; in Listings,
`WF(NextPage)` says that requests are answered. Nothing is assumed about metadata,
operators or failures: `Converges`, `Recovers` and the properties of their form
only speak of behaviours in which they stop, marked by the variable `calm` or the
formula `AllWell`.

### Disagreements found

Each of these runs ends with a counterexample.

* `adopted_deleted`: `EnsureUpgradeToStateRRSet` takes over A records by suffix
  and TTL whenever there is no state record, which is so on a first start and
  also after the last service was removed; the next pass deletes the ones that
  metadata does not want. COMPATIBILITY.md:53-55 says that the state record
  "prevents blind deletion of unrelated provider records".
* `managed_identified`: an address is published, the call for the state record
  fails (or the process dies), and metadata drops the name before the next pass.
  The record is neither wanted nor listed, and stays for good, although the
  state record "identifies A records managed by this service".
* `fqdns_reported`: a pass publishes a name and then fails, so the names it
  changed are discarded; the next pass finds the record in place. The platform
  never hears of it (README.md:14). A failed event is not sent again either.
* `ttl_applied`: only values are compared, so after a restart with another TTL
  (README.md:66) published records keep the old one.

## 4. What TLAPS proves

Every invariant, every action property and the refinement that a passing run
checks is also a theorem, for every value of the constants: any number of names,
addresses, versions, containers, hosts, zones, records and pages. Each theorem
follows from an inductive invariant, named below.

**The loop and its passes** (failures, crashes, operators and aliases on or off):

* `SyncLoopProofs!TypeCorrect`: `Spec => []TypeOK`. The type of a zone excludes
  empty record sets, so `TypeOK` is not inductive by itself: the upgrade must not
  reach its `AddRecord` call with nothing to list (`SomethingToAdopt`). The
  lemmas on `MetadataRecs`, the TXT codec, `GetRecords` and `ChangeRecord` live
  here; `ChangeRecordFacts` says that the next listing shows the effect of a call
  on its key and on no other.
* `SyncLoopProofs!UpdatesNotLost`: `NoLostUpdate`, if no request fails and nobody
  else writes to the zone; crashes and changes of metadata may come at any time.
  The two assumptions are those of the run: a failed pass may leave the zone
  behind until the next forced update, which is what `Converges` is about.
  `SeenInv` follows the version that the process holds: once it has consumed the
  current one, the records it fetched are those wanted now (a version consumed
  before a change is no longer the current one), the running pass brings the zone
  to them key by key (`PassProgress`), and the cache is what the zone publishes.
* `PassAuditProofs!SuccessApplied`, `AddressesFirst`, `AddressesGoneFirst`: the
  three properties of a pass. The inductive invariant `PassInv` says, key by
  key and for keys no operator touched, that the zone would now list the wanted
  record if the key's call was made, and what the pass had listed before if not;
  and that the state record wanted lists the names wanted. `BeforeState` derives
  from the order of the calls what has happened when the state record's call has
  its turn.
* `OwnershipProofs!OnlyClaimed`: `OwnInv` says that everything the service may
  act on is claimed: what metadata wants, what the state record lists, what the
  running pass fetched and listed.
* `OwnershipProofs!NothingLeaks`: `NoLeak`, for every setting. Failures and
  crashes are not assumed away: the property speaks of the time before the first
  interruption. `LeakInv`: during a pass every record of the service is wanted or
  still to be removed, and while removals are left, which are the only calls
  that can be refused, the state record still lists all of them.

**Metadata**: `MetadataRecordsProofs!ScanTypeCorrect` (`TypeOK`) and
`AnswerCorrect` (`AnswerIsReference`). `ScanInv` says that after each container
the entries are those the reference gives for the containers looked at so far
(`Gathered`), without repetitions. For this to survive a change of a host,
it must be known that the host of every container that was not left out has been
looked up (`HostsKnown`): its address then comes from the answer that was kept.

**Listings**: `ListingsProofs!ListingTypeCorrect` (`TypeOK`) and
`ListingsAreFaithful` (`ListingsFaithful`), for zones and pages of any size. The
marker of Route 53 divides the zone into what has been seen as it is and what is
to come (`MarkedPages`). Numbered pages need counting: the rank of a record, the
number of records up to it, numbers the records without gaps (`RankNumbers`), a
page holds the ranks of an interval (`RanksOnPage`), and as long as nothing is
deleted a rank only grows, so a record that lasts and lies on a page already
fetched has been seen (`NumberedPages`). AliDNS's total is the number of ranks.

**Start and health**: `StartupProofs!RightZone` (`ServesRootZone`),
`CredentialsKept` (`CredentialsStay`), `PongMeansAll` (`PongTruthful`).
`ZoneInv` keeps what `SelectedFacts` says of each provider's `Init` for as long as
the process runs; `CheckInv` says that a health check has seen all it asked for
so far and that only a process past its start is asked. `CredentialsStay` is proved
from `RoundTrip` alone, for a hop at any URL (`RoundTripStays`), and from
`PolicyInv`, that the origin a client compares with is that of its configuration in
the same spelling, through every restart. `PongTruthful` needs the redirect rule
too: `HopInv` says that no request is anywhere but where it was first sent, so
that the answer is the platform's.

**The ten providers**: `ProvidersProofs!ContractHonoured` (`HonoursContract`: the
initial states of Providers are initial states of ProviderContract and every
step is a step of it or a stutter), `OnlyTheNamedSet` (`OthersUntouched`) and
`SuccessPublished` (`PublishedOnSuccess`).

* Module ProviderLemmas proves, for any set `R` of records and any function `K`
  from records to record sets, that the steps of ValueByValue keep `CallInv`,
  `ZoneInv(R, K)` and the contract. `ZoneInv` says how far a call has come: only
  records of its own record set are to be deleted; as long as nobody else writes
  these are all there are, and later the record set holds the values asked for but
  for those still missing. Without it the success at the end would not follow.
* ProvidersProofs gives `R` and `K` for each provider and shows that its names
  stand for one name of the zone each (the lemmas `...Naming`), that its listing is
  the one `K` gives (`...Listing`), and that its steps are among those of
  ProviderLemmas (`...Steps`, `...Keeps`). DNSimple and Infoblox need to know that
  a zone that is not excused still fits on the page when the call looks for its
  records, and Infoblox that its record set has no disabled record, so that
  "already exists" can only mean that others wrote (`DSInv`, `IBInv`). PowerDNS
  has written all values or none (`PDInv`), RFC 2136 never has single records to
  delete (`RFInv`). For Gandi, `GAInv` speaks of the version that is
  prepared: it differs from the one that is set in the call's record set alone,
  until others write.

Assumptions, all of them evaluated by TLC in the runs: the state name is not a
service name; TTLs are natural numbers and there is one; legacy names are names;
"init" is no version; toggles are Boolean; what is known of a host is not
"no host", and the environment is asked for at least once; redirect targets are
URLs; values are none of the
markers "none" and "alias" of a listing, and pages hold at least one record;
one zone at least has the root domain's name, which has two labels or more; "@" is
no label; the zone is finite at the start.

Proving `ListingTypeCorrect` showed that the page counter of `fetchDoRecords` and
`listRecords` was modelled one too high after the last page; the loop in the
source increments it only when it goes on, and so does the model now. The proofs
found no disagreement between the code and its documentation beyond those of
section 3.

Only model-checked: the liveness properties `Converges`, `ScanEnds`,
`ListingEnds`, `StartEnds` and `Recovers`, because fairness is outside the
prover's reach; and the four violations of section 3, which are counterexamples.

## 5. What is not modelled

* How names are built from templates: a name per container stands for it, two
  containers may share one, and a template that cannot be executed ends the
  process.
* The TTLs that providers other than Route 53 list, DigitalOcean's change of the
  configured TTL, and the parsing of `TTL` and other settings beyond right or
  wrong. Cloudflare, dnsimple, gandi, ovh, pointhq and infoblox start a new map of
  TTLs for every record of a name, so of two types under one name one is listed
  with TTL 0, and the upgrade overlooks it.
* `OnChange`, `waitVersion` and the getters of the metadata client that nothing
  in the repository calls.
* Reading secrets, signing requests, rate limiting (a request may take any time),
  the mapping of the platform API's path, logging; vendored code but for what
  go-pointdns makes of damaged answers.
* Operators editing the TXT record, and weighted record sets under one name: the
  code takes the first TXT and the last A record listed under a name.

## 6. Plan

1. An abstract specification of ownership, and Ownership shown to implement it.
2. SyncLoop over ProviderContract instead of Route 53; TTLs.
