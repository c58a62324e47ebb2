----------------------------- MODULE StartupProofs -----------------------------
(***************************************************************************)
(* The start and the health checks, for every set of zones, every           *)
(* configuration and every way in which the other systems come and go.      *)
(***************************************************************************)
EXTENDS Startup, SequenceTheorems, TLAPS

\* Zone numbers, and the two zone names that providers look for: both hold the
\* root domain.
LEMMA ZoneFacts ==
    /\ NoZone \notin ZoneIds
    /\ \E k \in 1..Len(Root) : SubSeq(Root, k, Len(Root)) = Root
    /\ \E k \in 1..Len(Root) : SubSeq(Root, k, Len(Root)) = GandiDomain
<1>1. ZoneIds = 1..Len(ZoneName) /\ Len(ZoneName) \in Nat
  BY ZoneAssumption DEF ZoneIds
<1>2. Root \in Seq(STRING)
  <2>1. PICK z \in ZoneIds : ZoneName[z] = Root
    BY ZoneAssumption DEF Named
  <2> QED BY <1>1, <2>1, ZoneAssumption
<1>3. SubSeq(Root, 1, Len(Root)) = Root
  BY <1>2, ZoneAssumption
<1>4. 1 \in 1..Len(Root) /\ Len(Root) - 1 \in 1..Len(Root)
  BY <1>2, ZoneAssumption
<1>5. NoZone \notin ZoneIds
  BY <1>1 DEF NoZone
<1> QED BY <1>3, <1>4, <1>5 DEF GandiDomain

\* Whatever zones there are, Init of a provider returns an error or settles on a
\* zone of the root domain (Gandi: of its last two labels), and on the one it was
\* told to use.
LEMMA SelectedFacts ==
    ASSUME NEW provider, NEW id, NEW existing, NEW z \in Selected(provider, id, existing),
           z # NoZone
    PROVE  /\ z \in Named(IF provider = "gandi" THEN GandiDomain ELSE Root)
           /\ (provider = "route53" /\ id # NoZone) => z = id
<1>1. \A S : \A y \in OneOf(S) : y # NoZone => y \in S
  BY DEF OneOf
<1>2. CASE provider = "route53"
  BY <1>1, <1>2 DEF Selected, SetHostedZone, ValidateHostedZoneId
<1>3. CASE provider = "infoblox"
  BY <1>1, <1>3 DEF Selected, InfobloxZone
<1>4. CASE provider = "gandi"
  BY <1>1, <1>4 DEF Selected, GandiZone
<1>5. CASE provider = "rfc2136"
  BY <1>5 DEF Selected, RFC2136Zone
<1>6. CASE provider \in {"cloudflare", "pointhq", "ovh", "digitalocean", "dnsimple", "alidns",
                         "powerdns"}
  BY <1>1, <1>6 DEF Selected, CloudflareZone, PointHQZone, OVHZone, DigitalOceanZone,
                    DNSimpleZone, AliDNSZone, PowerDNSZone
<1>7. CASE provider \notin {"route53", "infoblox", "gandi", "rfc2136", "cloudflare", "pointhq",
                            "ovh", "digitalocean", "dnsimple", "alidns", "powerdns"}
  BY <1>7 DEF Selected
<1> QED BY <1>2, <1>3, <1>4, <1>5, <1>6, <1>7

-------------------------------------------------------------------------------
(***************************************************************************)
(* The inductive invariants.                                                *)
(***************************************************************************)
\* A process past its start has the zone that its Init settled on.
ZoneInv ==
    Serving =>
        /\ hostedZone \in Named(IF env.provider = "gandi" THEN GandiDomain ELSE Root)
        /\ (env.provider = "route53" /\ env.zoneId # NoZone) => hostedZone = env.zoneId

\* What a health check has asked for so far it has seen.  The zone stays the same
\* during a check, because checks are only answered by a process past its start.
Asked ==
    CASE check = "provider" -> {"metadata"}
      [] check = "platform" -> {"metadata", "provider"} \cup
                                   IF ChecksZone(env.provider) THEN {"zone"} ELSE {}
      [] OTHER -> {}

CheckInv ==
    /\ listening => Serving
    /\ check # "none" => listening /\ Asked \cup Facts(up, zones) \subseteq seen

\* A client keeps to the origin it was configured with, in the spelling in which
\* URLs are compared.
PolicyInv == policy \in {NoOrigin, CanonicalOrigin(env.platformURL)}

\* No request is anywhere but where it was first sent.
HopInv == hop \in [Callers -> {NoURL, env.platformURL}]

StartupInv == ZoneInv /\ CheckInv /\ PolicyInv /\ HopInv /\ CredentialsStay

\* Before main has begun nothing is claimed.
LEMMA InitInv == Init => StartupInv
BY DEF Init, StartupInv, ZoneInv, CheckInv, PolicyInv, HopInv, NoRequest, CredentialsStay, Serving

\* A fatal error ends the process, and nothing is claimed any more.
LEMMA FatalKeeps ==
    ASSUME Fatal, UNCHANGED env, CredentialsStay
    PROVE  StartupInv'
BY DEF Fatal, StartupInv, ZoneInv, CheckInv, PolicyInv, HopInv, NoRequest, CredentialsStay, Serving

\* A request that the transport lets pass goes to the configured origin, whatever
\* URL the hop is at: there is no origin before the client is made.
LEMMA RoundTripStays ==
    ASSUME PolicyInv, NEW u, RoundTrip(u)
    PROVE  CanonicalOrigin(u) = CanonicalOrigin(env.platformURL)
<1>1. CanonicalOrigin(u) # NoOrigin
  BY DEF CanonicalOrigin, NoOrigin
<1> QED BY <1>1 DEF PolicyInv, RoundTrip, IsValidRedirectURL

\* So a hop stays within the configured origin by the transport's check alone, and
\* a redirect, not being followed, ends the request.
LEMMA DoStep ==
    ASSUME PolicyInv, HopInv, CredentialsStay, NEW who \in Callers, Do(who)
    PROVE  /\ UNCHANGED <<env, up, zones, procVars, listening>>
           /\ HopInv' /\ CredentialsStay'
           /\ \/ UNCHANGED <<check, seen, answer>>
              \/ check' = "none"
<1>1. UNCHANGED <<env, up, zones, procVars, listening>>
  BY DEF Do, Hop
<1>2. CredentialsStay'
  BY <1>1, RoundTripStays DEF Do, Hop, CredentialsStay
<1>3. \E success \in BOOLEAN : Finish(who, success)
  <2>1. CASE RoundTrip(hop[who])
    <3>1. PICK resp \in Responses(hop[who]) : Finish(who, resp.status < 300)
      BY <2>1 DEF Do, Hop, CheckRedirect
    <3>2. (resp.status < 300) \in BOOLEAN
      OBVIOUS
    <3> QED BY <3>1, <3>2
  <2>2. CASE ~RoundTrip(hop[who])
    BY <2>2 DEF Do, Hop
  <2> QED BY <2>1, <2>2
<1>4. HopInv'
  BY <1>1, <1>3 DEF Finish, HopInv
<1>5. UNCHANGED <<check, seen, answer>> \/ check' = "none"
  BY <1>3 DEF Finish, Answer
<1> QED BY <1>1, <1>2, <1>4, <1>5

\* A request is made of the configured URL, or not at all.
LEMMA RequestStep ==
    ASSUME HopInv, UNCHANGED env, NEW who \in Callers, Request(who)
    PROVE  HopInv'
BY DEF HopInv, Request

\* The start keeps the invariants.  The zone is chosen while no check can be under
\* way.
LEMMA StartStep ==
    ASSUME StartupInv, Start
    PROVE  StartupInv'
<1> USE DEF StartupInv
<1>1. UNCHANGED <<env, up, zones>>
  BY DEF Start, SetFromEnvironment, TestConnection, GetEnvironment, GetProvider, EnsureUpgrade,
         Restart
<1>2. CASE Fatal
  BY <1>1, <1>2, FatalKeeps
<1>3. CASE ~Fatal
  <2>1. UNCHANGED <<checkVars, netVars>>
    BY <1>3 DEF Start, SetFromEnvironment, TestConnection, GetEnvironment, GetProvider,
                EnsureUpgrade, Restart, Retry
  <2>2. HopInv' /\ CredentialsStay'
    BY <1>1, <2>1 DEF CredentialsStay, HopInv, netVars
  <2>3. PolicyInv'
    <3>1. policy' = policy \/ policy' = CanonicalOrigin(env.platformURL)
      BY <1>3 DEF Start, SetFromEnvironment, TestConnection, GetEnvironment, GetProvider,
                  EnsureUpgrade, Restart, Retry, NewPlatformClient
    <3> QED BY <1>1, <3>1 DEF PolicyInv
  <2>4. CASE GetProvider
    <3>1. PICK z \in Outcomes : z # NoZone /\ hostedZone' = z /\ pc' = "upgrade"
      BY <1>3, <2>4 DEF GetProvider
    <3>2. z \in Selected(env.provider, env.zoneId, zones)
      BY <3>1 DEF Outcomes
    <3>3. ZoneInv'
      BY <1>1, <3>1, <3>2, SelectedFacts DEF ZoneInv
    <3>4. ~listening /\ check = "none"
      BY <2>4 DEF GetProvider, CheckInv, Serving
    <3> QED BY <2>1, <2>2, <2>3, <3>3, <3>4 DEF CheckInv, checkVars
  <2>5. CASE ~GetProvider
    <3>1. hostedZone' = hostedZone /\ (Serving' <=> Serving)
      BY <1>3, <2>5 DEF Start, SetFromEnvironment, TestConnection, GetEnvironment,
                        EnsureUpgrade, Restart, Retry, Serving
    <3>2. ZoneInv' /\ CheckInv'
      BY <1>1, <2>1, <3>1 DEF ZoneInv, CheckInv, Asked, Facts, checkVars
    <3> QED BY <2>2, <2>3, <3>2
  <2> QED BY <2>4, <2>5
<1> QED BY <1>2, <1>3

\* A step that leaves main alone keeps what is said of main.
LEMMA MainKeeps ==
    ASSUME ZoneInv, PolicyInv, UNCHANGED <<env, procVars>>
    PROVE  ZoneInv' /\ PolicyInv' /\ (Serving' <=> Serving) /\ hostedZone' = hostedZone
BY DEF ZoneInv, PolicyInv, Serving, procVars

\* A hop of either caller's request keeps the invariants: a check that goes on has
\* seen what it had seen.
LEMMA DoKeeps ==
    ASSUME StartupInv, NEW who \in Callers, Do(who)
    PROVE  StartupInv'
<1>1. /\ UNCHANGED <<env, up, zones, procVars, listening>>
      /\ HopInv' /\ CredentialsStay'
      /\ UNCHANGED <<check, seen, answer>> \/ check' = "none"
  BY DoStep DEF StartupInv
<1>2. ZoneInv' /\ PolicyInv' /\ (Serving' <=> Serving) /\ hostedZone' = hostedZone
  BY <1>1, MainKeeps DEF StartupInv
<1>3. CheckInv'
  BY <1>1, <1>2 DEF StartupInv, CheckInv, Asked, Facts
<1> QED BY <1>1, <1>2, <1>3 DEF StartupInv

\* Health checks keep the invariants.
LEMMA HealthStep ==
    ASSUME StartupInv, Health
    PROVE  StartupInv'
<1> USE DEF StartupInv
<1>1. CASE Do("check")
  BY <1>1, DoKeeps DEF Callers
<1>2. CASE StartHealthCheck /\ Fatal
  BY <1>2, FatalKeeps DEF StartHealthCheck
<1>3. CASE StartHealthCheck /\ ~Fatal
  <2>1. ZoneInv' /\ PolicyInv' /\ (Serving' <=> Serving) /\ hostedZone' = hostedZone
    BY <1>3, MainKeeps DEF StartHealthCheck
  <2> QED BY <1>3, <2>1 DEF StartHealthCheck, netVars, CheckInv, HopInv, CredentialsStay, Asked, Facts
<1>4. ASSUME Ask \/ CheckMetadata \/ CheckProvider \/ TestConnect
      PROVE  /\ UNCHANGED <<env, up, zones, procVars, listening, reached>> /\ listening
             /\ ZoneInv' /\ PolicyInv' /\ (Serving' <=> Serving) /\ hostedZone' = hostedZone
             /\ CredentialsStay'
  <2>1. UNCHANGED <<env, up, zones, procVars, listening, reached>> /\ listening
    BY <1>4 DEF Ask, CheckMetadata, CheckProvider, TestConnect, CheckInv, netVars
  <2> QED BY <2>1, MainKeeps DEF CredentialsStay
<1>5. ASSUME Ask \/ CheckMetadata \/ CheckProvider PROVE HopInv'
  BY <1>5 DEF Ask, CheckMetadata, CheckProvider, HopInv, netVars
<1>6. CASE Ask
  BY <1>4, <1>5, <1>6 DEF Ask, CheckInv, Asked, Facts
<1>7. CASE CheckMetadata
  BY <1>4, <1>5, <1>7
  DEF CheckMetadata, GetSelfStack, SendRequest, Answer, CheckInv, Asked, Facts
<1>8. CASE CheckProvider
  BY <1>4, <1>5, <1>8 DEF CheckProvider, HealthCheck, Answer, CheckInv, Asked, Facts
<1>9. CASE TestConnect
  <2>1. HopInv'
    BY <1>4, <1>9, RequestStep DEF TestConnect, Callers
  <2>2. UNCHANGED <<check, seen>> \/ check' = "none"
    BY <1>9 DEF TestConnect, Answer
  <2> QED BY <1>4, <1>9, <2>1, <2>2 DEF CheckInv, Asked, Facts
<1> QED BY <1>1, <1>2, <1>3, <1>6, <1>7, <1>8, <1>9 DEF Health

\* The loop and the environment keep the invariants: what changes during a check
\* is added to what it has seen.
LEMMA OtherStep ==
    ASSUME StartupInv, Report \/ SystemChanges \/ ZoneChanges \/ UNCHANGED vars
    PROVE  StartupInv'
<1> USE DEF StartupInv
<1>1. CASE Do("loop")
  BY <1>1, DoKeeps DEF Callers
<1>2. CASE UpdateServiceDomainName
  <2>1. HopInv'
    BY <1>2, RequestStep DEF UpdateServiceDomainName, Callers
  <2>2. ZoneInv' /\ PolicyInv' /\ (Serving' <=> Serving) /\ hostedZone' = hostedZone
    BY <1>2, MainKeeps DEF UpdateServiceDomainName
  <2> QED BY <1>2, <2>1, <2>2 DEF UpdateServiceDomainName, CheckInv, CredentialsStay, Asked, Facts,
                                  checkVars
<1>3. CASE SystemChanges \/ ZoneChanges
  <2>1. /\ UNCHANGED <<env, procVars, listening, check, netVars>>
        /\ seen' = IF check = "none" THEN seen ELSE seen \cup Facts(up', zones')
    BY <1>3 DEF SystemChanges, ZoneChanges, Watched
  <2>2. ZoneInv' /\ PolicyInv' /\ (Serving' <=> Serving) /\ hostedZone' = hostedZone
    BY <2>1, MainKeeps
  <2>3. Asked' = Asked /\ Facts(up, zones)' = Facts(up', zones')
    BY <2>1, <2>2 DEF Asked, Facts
  <2> QED BY <2>1, <2>2, <2>3 DEF CheckInv, HopInv, CredentialsStay, netVars
<1>4. CASE UNCHANGED vars
  <2>1. ZoneInv' /\ PolicyInv' /\ (Serving' <=> Serving) /\ hostedZone' = hostedZone
    BY <1>4, MainKeeps DEF vars
  <2> QED BY <1>4, <2>1 DEF vars, CheckInv, HopInv, CredentialsStay, Asked, Facts, checkVars, netVars
<1> QED BY <1>1, <1>2, <1>3, <1>4 DEF Report

\* The invariants hold throughout.
THEOREM StartupInvariant == Spec => []StartupInv
<1>1. StartupInv /\ [Next]_vars => StartupInv'
  BY StartStep, HealthStep, OtherStep DEF Next
<1> QED BY <1>1, InitInv, PTL DEF Spec

-------------------------------------------------------------------------------
\* A process past its start works on a zone that holds the root domain, and on
\* the one that ROUTE53_ZONE_ID names, whatever zones the account has and whenever
\* they were created or deleted.
THEOREM RightZone == Spec => []ServesRootZone
<1>1. StartupInv => ServesRootZone
  <2> SUFFICES ASSUME ZoneInv, Serving PROVE ServesRootZone
    BY DEF StartupInv, ServesRootZone
  <2>1. ZoneName[hostedZone] = IF env.provider = "gandi" THEN GandiDomain ELSE Root
    BY DEF ZoneInv, Named
  <2> QED BY <2>1, ZoneFacts DEF ZoneInv, ServesRootZone
<1> QED BY <1>1, StartupInvariant, PTL

\* Platform requests, and the credentials in them, go to the configured origin
\* only, at every hop and wherever the platform redirects: the check that RoundTrip
\* makes of each hop suffices, whatever URL the hop is at, because the origin a
\* client keeps to is that of its configuration.
THEOREM CredentialsKept == Spec => []CredentialsStay
<1>1. StartupInv => CredentialsStay
  BY DEF StartupInv
<1> QED BY <1>1, StartupInvariant, PTL

\* A health check says pong only after everything it asks for has been there since
\* it began, however the other systems and the process come and go, and wherever
\* the platform redirects.
THEOREM PongMeansAll == Spec => PongTruthful
<1>1. ASSUME StartupInv, [Next]_vars, check = "platform", check' = "none", pc' # "down",
             answer' = "pong"
      PROVE  Systems \cup (IF ChecksZone(env.provider) THEN {"zone"} ELSE {}) \subseteq seen
  <2>1. ~Fatal
    BY <1>1 DEF Fatal
  <2>2. ~Do("loop")
    BY <1>1 DEF Do, Hop, Finish
  <2>3. Do("check")
    BY <1>1, <2>1, <2>2
    DEF Next, Start, SetFromEnvironment, TestConnection, GetEnvironment, GetProvider,
        EnsureUpgrade, Restart, Retry, Health, StartHealthCheck, Ask, CheckMetadata, CheckProvider,
        TestConnect, Answer, Report, UpdateServiceDomainName, SystemChanges, ZoneChanges,
        checkVars, vars
  <2>4. PICK resp \in Responses(hop["check"]) : resp.status < 300
    BY <1>1, <2>3 DEF Do, Hop, Finish, Answer, CheckRedirect
  <2>5. hop["check"] = env.platformURL
    BY <1>1, <2>3 DEF StartupInv, HopInv, Callers, Do, Hop
  <2>6. "platform" \in up
    BY <2>4, <2>5 DEF Responses
  <2> QED BY <1>1, <2>6 DEF StartupInv, CheckInv, Asked, Facts, Systems
<1> QED BY <1>1, StartupInvariant, PTL DEF Spec, PongTruthful
===============================================================================
