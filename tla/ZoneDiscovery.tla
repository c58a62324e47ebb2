----------------------------- MODULE ZoneDiscovery -----------------------------
(***************************************************************************)
(* Which zone each provider settles on when it is started: the part of Init *)
(* of every provider (providers/*/*.go) that asks the service.  Each        *)
(* operator is the set of possible outcomes: the zone that is chosen, or    *)
(* NoZone if Init returns an error.                                         *)
(*                                                                          *)
(* A zone is a number, in the order in which Route 53 lists zones by name;  *)
(* its name is a sequence of labels and never changes.                      *)
(***************************************************************************)
EXTENDS Naturals, Sequences, FiniteSets, FiniteSetsExt

CONSTANTS
    Root,       \* config.RootDomainName
    ZoneName,   \* the names of all zones there may be
    ZonePage    \* how many zones Infoblox lists on a page

ZoneIds == DOMAIN ZoneName

NoZone == 0

Named(name) == {z \in ZoneIds : ZoneName[z] = name}

ASSUME ZoneAssumption ==
    /\ ZoneName \in Seq(Seq(STRING))
    /\ Named(Root) # {} /\ Len(Root) >= 2
    /\ ZonePage \in Nat \ {0}

\* One of the zones that match, if there are any.
OneOf(matching) == IF matching = {} THEN {NoZone} ELSE matching

\* Route 53 (setHostedZone): one zone is asked for, the first one from the root
\* domain on in the order of names, which need not be the root domain's.
FromRoot(zones) == {z \in zones : z >= Min(Named(Root))}

ListHostedZonesByName(zones) ==
    {z \in FromRoot(zones) : \A y \in FromRoot(zones) : z <= y}

\* Mutant: the name of the answer is not compared.
SetHostedZoneUnchecked(zones) == OneOf(ListHostedZonesByName(zones))

SetHostedZone(zones) == OneOf(ListHostedZonesByName(zones) \cap Named(Root))

\* Mutant: the zone with the ID need only exist.
ValidateHostedZoneIdExists(id, zones) == OneOf({id} \cap zones)

\* Route 53 with ROUTE53_ZONE_ID.
ValidateHostedZoneId(id, zones) == OneOf({id} \cap zones \cap Named(Root))

\* Cloudflare, PointHQ and OVH list all zones and look for the root domain.
CloudflareZone(zones) == OneOf(zones \cap Named(Root))
PointHQZone(zones) == OneOf(zones \cap Named(Root))
OVHZone(zones) == OneOf(zones \cap Named(Root))

\* Infoblox does the same by SendRequest, which keeps a page's worth of zones.
InfobloxZone(zones) ==
    UNION {OneOf(page \cap Named(Root)) :
              page \in {s \in SUBSET zones : Cardinality(s) = Min({ZonePage, Cardinality(zones)})}}

\* These ask for the root domain by its name.
DigitalOceanZone(zones) == OneOf(zones \cap Named(Root))
DNSimpleZone(zones) == OneOf(zones \cap Named(Root))
AliDNSZone(zones) == OneOf(zones \cap Named(Root))
PowerDNSZone(zones) == OneOf(zones \cap Named(Root))

\* Gandi: the domain of the last two labels, and the zone attached to it.
GandiDomain == SubSeq(Root, Len(Root) - 1, Len(Root))

GandiZone(zones) == OneOf(zones \cap Named(GandiDomain))

\* RFC 2136 takes the root domain for the zone and asks nobody.
RFC2136Zone == Named(Root)

\* GetProvider: Init of the provider with this name.
Selected(provider, id, zones) ==
    CASE provider = "route53"      -> IF id = NoZone THEN SetHostedZone(zones)
                                      ELSE ValidateHostedZoneId(id, zones)
      [] provider = "cloudflare"   -> CloudflareZone(zones)
      [] provider = "pointhq"      -> PointHQZone(zones)
      [] provider = "ovh"          -> OVHZone(zones)
      [] provider = "infoblox"     -> InfobloxZone(zones)
      [] provider = "digitalocean" -> DigitalOceanZone(zones)
      [] provider = "dnsimple"     -> DNSimpleZone(zones)
      [] provider = "alidns"       -> AliDNSZone(zones)
      [] provider = "powerdns"     -> PowerDNSZone(zones)
      [] provider = "gandi"        -> GandiZone(zones)
      [] provider = "rfc2136"      -> RFC2136Zone
      [] OTHER                     -> {NoZone}

\* Whether HealthCheck asks for the zone itself, or only whether the account
\* answers.
ChecksZone(provider) ==
    provider \in {"cloudflare", "digitalocean", "alidns", "powerdns", "rfc2136"}
===============================================================================
