------------------------------- MODULE Providers -------------------------------
(***************************************************************************)
(* The provider registry (providers/provider.go): the provider chosen by    *)
(* name at the start serves all calls.  Each of the providers next to Route *)
(* 53 is to keep the contract of module ProviderContract.                   *)
(***************************************************************************)
EXTENDS ValueByValue

VARIABLES
    provider,       \* the name of the provider that GetProvider returned
    draft,          \* the version that Gandi prepares
    served          \* how the zone that OVH serves stands to the one it shows

CF == INSTANCE Cloudflare
DO == INSTANCE DigitalOcean
DS == INSTANCE DNSimple
AL == INSTANCE AliDNS
PH == INSTANCE PointHQ
IB == INSTANCE Infoblox
GA == INSTANCE Gandi
OV == INSTANCE OVH
PD == INSTANCE PowerDNS
RF == INSTANCE RFC2136

allVars == <<vars, provider, draft, served>>

Init ==
    /\ \/ provider = "cloudflare" /\ CF!Init
       \/ provider = "digitalocean" /\ DO!Init
       \/ provider = "dnsimple" /\ DS!Init
       \/ provider = "alidns" /\ AL!Init
       \/ provider = "pointhq" /\ PH!Init
       \/ provider = "infoblox" /\ IB!Init
       \/ provider = "gandi" /\ GA!Init
       \/ provider = "ovh" /\ OV!Init
       \/ provider = "powerdns" /\ PD!Init
       \/ provider = "rfc2136" /\ RF!Init
    /\ draft = <<>>
    /\ served = "current"

Next ==
    /\ \/ provider = "cloudflare" /\ CF!Next
       \/ provider = "digitalocean" /\ DO!Next
       \/ provider = "dnsimple" /\ DS!Next
       \/ provider = "alidns" /\ AL!Next
       \/ provider = "pointhq" /\ PH!Next
       \/ provider = "infoblox" /\ IB!Next
       \/ provider = "gandi" /\ GA!Next
       \/ provider = "ovh" /\ OV!Next
       \/ provider = "powerdns" /\ PD!Next
       \/ provider = "rfc2136" /\ RF!Next
    /\ UNCHANGED provider
    /\ provider # "gandi" => UNCHANGED draft
    /\ provider # "ovh" => UNCHANGED served

Spec == Init /\ [][Next]_allVars

-------------------------------------------------------------------------------
\* The record sets, as a provider that sees all of the zone would list them.
Stored ==
    CASE provider = "cloudflare"   -> CF!GetRecords
      [] provider = "digitalocean" -> DO!GetRecords
      [] provider = "dnsimple"     -> DS!GetRecordsOf(zone)
      [] provider = "alidns"       -> AL!GetRecords
      [] provider = "pointhq"      -> PH!Stored
      [] provider = "infoblox"     -> IB!GetRecordsOf(zone)
      [] provider = "gandi"        -> GA!GetRecords
      [] provider = "ovh"          -> OV!GetRecords
      [] provider = "powerdns"     -> PD!Stored
      [] provider = "rfc2136"      -> RF!Stored

Contract == INSTANCE ProviderContract WITH listed <- Stored

\* AddRecord, UpdateRecord and RemoveRecord of every provider keep the contract:
\* through failures, crashes and writes of others between any two requests they
\* leave only old and new values in the record set named, and report success
\* only for a record set that is as asked for, unless others wrote meanwhile or
\* the provider is excused, because its listing lacks records: those beyond a
\* page (DNSimple, Infoblox), disabled ones (Infoblox, PowerDNS), those of a name
\* with several types (PowerDNS), those lost with a transfer (RFC 2136) or with
\* an answer that cannot be decoded (PointHQ).
HonoursContract == Contract!Spec

\* The steps of the provider and those of others are told apart by what they
\* change: every step of a call moves it on.
ByProvider == <<call, pc, doomed, missing, result, draft>>' # <<call, pc, doomed, missing, result, draft>>

\* No step of a call changes another record set than the one it names, excused
\* or not and whatever others write meanwhile.  Gandi alone undoes what others
\* wrote since it cloned the zone, when it sets its own version.
OthersUntouched ==
    [][ByProvider =>
        \A k \in Keys : Stored'[k] # Stored[k] =>
            k = call.key \/ (provider = "gandi" /\ disturbed)]_allVars

\* A call of OVH that reports success has told the service to publish the
\* changes, including those that an earlier, failed call left behind; whether
\* that worked is not known.
PublishedOnSuccess == result = "ok" => served # "pending"
===============================================================================
