--------------------------------- MODULE Startup ---------------------------------
(***************************************************************************)
(* How the service starts (setEnv and main of main.go) and how it answers   *)
(* health checks (healthcheck.go), next to the loop and without it.         *)
(*                                                                          *)
(* Start: the configuration is read; the metadata service is asked for its  *)
(* version and for the stack, each with a limited number of attempts; the   *)
(* platform client is made; the provider finds its zone.  Then the health   *)
(* server is started next to main, which checks for an upgrade and goes     *)
(* into its loop.  Whatever goes wrong before the loop ends the process,    *)
(* and the container is started again.                                      *)
(*                                                                          *)
(* A health check asks the three other systems in turn; each may stop or    *)
(* begin to answer at any time, and zones come and go.                      *)
(***************************************************************************)
EXTENDS ZoneDiscovery, PlatformOrigin

CONSTANTS
    Envs,       \* the configurations the service may be started with
    Targets     \* the URLs that a platform may redirect to

ASSUME EnvAssumption ==
    \A e \in Envs :
        /\ {e.complete, e.credentials, e.addressFree} \subseteq BOOLEAN
        /\ e.zoneId \in ZoneIds \cup {NoZone}
        /\ {e.metadataURL, e.platformURL, e.endpoint} \subseteq URLs

ASSUME TargetAssumption == Targets \subseteq URLs

Systems == {"metadata", "provider", "platform"}

\* The goroutines that share the platform client.
Callers == {"check", "loop"}

VARIABLES
    env,        \* the configuration: environment variables and flags
    up,         \* the systems that answer
    zones,      \* the zones of the account
    pc,         \* "config", "connect", "environment", "provider", "upgrade",
                \* "loop", or "down"
    attempt,    \* failed attempts of the request that is being repeated
    policy,     \* the origin the platform client keeps to
    hostedZone, \* the zone the provider works on
    listening,  \* whether the health server listens
    check,      \* the system a health check asks next, or "none"
    seen,       \* history: what was there at some time since the check began
    answer,     \* the answer to the last health check
    hop,        \* the URL at which each caller's platform request is, or NoURL
    reached     \* history: the origins that platform requests were sent to

procVars  == <<pc, attempt, policy, hostedZone>>
checkVars == <<listening, check, seen, answer>>
netVars   == <<hop, reached>>
vars      == <<env, up, zones, procVars, checkVars, netVars>>

NoOrigin == <<>>

NoURL == [scheme |-> "other", host |-> NoHost, port |-> NoPort, plain |-> FALSE]

NoRequest == [who \in Callers |-> NoURL]

\* What a health check is about: the systems that answer, and the zone if the
\* provider asks for it.
Facts(systems, existing) ==
    systems \cup IF ChecksZone(env.provider) /\ hostedZone \in existing THEN {"zone"} ELSE {}

Init ==
    /\ env \in Envs
    /\ up \in SUBSET Systems
    /\ zones \in SUBSET ZoneIds
    /\ pc = "config"
    /\ attempt = 0
    /\ policy = NoOrigin
    /\ hostedZone = NoZone
    /\ listening = FALSE
    /\ check = "none"
    /\ seen = {}
    /\ answer = "none"
    /\ hop = NoRequest
    /\ reached = {}

-------------------------------------------------------------------------------
(***************************************************************************)
(* The start.                                                               *)
(***************************************************************************)
\* logrus.Fatal: the process ends, and with it the checks and requests in
\* progress.
Fatal ==
    /\ pc' = "down"
    /\ attempt' = 0
    /\ policy' = NoOrigin
    /\ hostedZone' = NoZone
    /\ listening' = FALSE
    /\ check' = "none"
    /\ seen' = {}
    /\ answer' = IF check = "none" THEN answer ELSE "error"
    /\ hop' = NoRequest
    /\ UNCHANGED reached

\* SetFromEnvironment, and the validation in NewClientAndWait.
SetFromEnvironment ==
    /\ pc = "config"
    /\ IF env.complete /\ ValidateBaseURL(env.metadataURL)
       THEN /\ pc' = "connect"
            /\ UNCHANGED <<attempt, policy, hostedZone, checkVars, netVars>>
       ELSE Fatal
    /\ UNCHANGED <<env, up, zones>>

\* The waits after failed attempts are 1, 2, 4... seconds, each below the limit.
Attempts(limit) == Cardinality({k \in 0..(limit - 1) : 2^k < limit})

Retry(limit) ==
    IF attempt + 1 < Attempts(limit)
    THEN attempt' = attempt + 1 /\ UNCHANGED <<pc, policy, hostedZone, checkVars, netVars>>
    ELSE Fatal

\* The metadata service answers: the status is 200, redirects are not followed,
\* and the body can be read and decoded.
SendRequest == "metadata" \in up

GetVersion == SendRequest

GetSelfStack == SendRequest

\* testConnection: GetVersion, with waits below 20 seconds.
TestConnection ==
    /\ pc = "connect"
    /\ IF GetVersion
       THEN /\ pc' = "environment"
            /\ attempt' = 0
            /\ UNCHANGED <<policy, hostedZone, checkVars, netVars>>
       ELSE Retry(20)
    /\ UNCHANGED <<env, up, zones>>

\* Mutant: the origin is kept as configured, without the default port.
NewPlatformClientRaw == policy' = <<env.platformURL.scheme, env.platformURL.host, env.platformURL.port>>

\* NewPlatformClient, of a URL that is accepted.
NewPlatformClient == policy' = CanonicalOrigin(env.platformURL)

\* The checks of Init of the provider that need no request.
InitRefuses ==
    ~env.credentials \/ (env.provider = "route53" /\ ~ValidateEndpointURL(env.endpoint))

\* Mutant: the stack is asked for until the metadata service answers.
GetEnvironmentForever ==
    /\ pc = "environment"
    /\ IF GetSelfStack
       THEN IF ParsePlatformURL(env.platformURL) /\ ~InitRefuses
            THEN /\ pc' = "provider"
                 /\ attempt' = 0
                 /\ NewPlatformClient
                 /\ UNCHANGED <<hostedZone, checkVars, netVars>>
            ELSE Fatal
       ELSE UNCHANGED <<procVars, checkVars, netVars>>
    /\ UNCHANGED <<env, up, zones>>

\* getEnvironment: GetSelfStack, with waits below 30 seconds.  It is
\* followed by the platform client and the beginning of the provider's Init.
GetEnvironment ==
    /\ pc = "environment"
    /\ IF GetSelfStack
       THEN IF ParsePlatformURL(env.platformURL) /\ ~InitRefuses
            THEN /\ pc' = "provider"
                 /\ attempt' = 0
                 /\ NewPlatformClient
                 /\ UNCHANGED <<hostedZone, checkVars, netVars>>
            ELSE Fatal
       ELSE Retry(30)
    /\ UNCHANGED <<env, up, zones>>

\* Whether Init asks the service at all.
Asks == env.provider # "rfc2136"

Outcomes ==
    IF Asks /\ "provider" \notin up THEN {NoZone}
    ELSE Selected(env.provider, env.zoneId, zones)

\* GetProvider, and the request of Init that finds the zone.
GetProvider ==
    /\ pc = "provider"
    /\ \E z \in Outcomes :
          IF z # NoZone
          THEN /\ hostedZone' = z
               /\ pc' = "upgrade"
               /\ UNCHANGED <<attempt, policy, checkVars, netVars>>
          ELSE Fatal
    /\ UNCHANGED <<env, up, zones>>

\* EnsureUpgradeToStateRRSet, as far as it ends the process: the records of a
\* zone that is gone cannot be listed, but RFC 2136 takes a refused transfer
\* for an empty zone.
EnsureUpgrade ==
    /\ pc = "upgrade"
    /\ IF "provider" \in up /\ (hostedZone \in zones \/ ~Asks)
       THEN pc' = "loop" /\ UNCHANGED <<attempt, policy, hostedZone, checkVars, netVars>>
       ELSE Fatal
    /\ UNCHANGED <<env, up, zones>>

\* The container is started again.
Restart ==
    /\ pc = "down"
    /\ pc' = "config"
    /\ UNCHANGED <<env, up, zones, attempt, policy, hostedZone, checkVars, netVars>>

-------------------------------------------------------------------------------
(***************************************************************************)
(* Health checks.                                                           *)
(***************************************************************************)
Serving == pc \in {"upgrade", "loop"}

\* startHealthCheck: the server cannot listen, and ends the process whatever
\* main is doing.
StartHealthCheck ==
    /\ Serving /\ ~listening
    /\ IF env.addressFree
       THEN listening' = TRUE /\ UNCHANGED <<procVars, check, seen, answer, netVars>>
       ELSE Fatal
    /\ UNCHANGED <<env, up, zones>>

Ask ==
    /\ listening
    /\ check = "none"
    /\ check' = "metadata"
    /\ seen' = Facts(up, zones)
    /\ UNCHANGED <<env, up, zones, procVars, listening, answer, netVars>>

Answer(res) == check' = "none" /\ seen' = {} /\ answer' = res

CheckMetadata ==
    /\ check = "metadata"
    /\ IF GetSelfStack
       THEN check' = "provider" /\ UNCHANGED <<seen, answer>>
       ELSE Answer("error")
    /\ UNCHANGED <<env, up, zones, procVars, listening, netVars>>

\* provider.HealthCheck.
HealthCheck ==
    "provider" \in up /\ (ChecksZone(env.provider) => hostedZone \in zones)

CheckProvider ==
    /\ check = "provider"
    /\ IF HealthCheck
       THEN check' = "platform" /\ UNCHANGED <<seen, answer>>
       ELSE Answer("error")
    /\ UNCHANGED <<env, up, zones, procVars, listening, netVars>>

-------------------------------------------------------------------------------
(***************************************************************************)
(* Requests to the platform, by the health check and by the loop.           *)
(***************************************************************************)
\* request: the URL is made from the configured one, and refused if the client
\* may not use it.
Request(who) ==
    /\ hop[who] = NoURL
    /\ hop' = [hop EXCEPT ![who] =
                  IF IsValidRedirectURL(env.platformURL, policy) THEN env.platformURL ELSE NoURL]

\* TestConnect of a health check.
TestConnect ==
    /\ check = "platform"
    /\ Request("check")
    /\ IF hop'["check"] = NoURL THEN Answer("error") ELSE UNCHANGED <<check, seen, answer>>
    /\ UNCHANGED <<env, up, zones, procVars, listening, reached>>

\* UpdateServiceDomainName, from the loop.
UpdateServiceDomainName ==
    /\ pc = "loop"
    /\ Request("loop")
    /\ UNCHANGED <<env, up, zones, procVars, checkVars, reached>>

\* RoundTrip: every request that is about to be sent is checked again, whoever
\* made its URL.
RoundTrip(u) == IsValidRedirectURL(u, policy)

\* Mutant: redirects are followed.
CheckRedirectFollows(v) == TRUE

\* CheckRedirect: whether a redirect to v is followed.  It is the last response
\* instead.
CheckRedirect(v) == FALSE

\* What a request to u may be answered.  A platform that does not answer as it
\* should, or not in time, may redirect; what is found elsewhere may answer
\* anything, success included.
Responses(u) ==
    LET Response(status, location) == [status |-> status, location |-> location]
        ok == {Response(200, NoURL)}
        other == {Response(500, NoURL)} \cup {Response(302, v) : v \in Targets} IN
    IF u # env.platformURL THEN ok \cup other
    ELSE IF "platform" \in up THEN ok ELSE other

\* The end of request: a status from 300 on is an error.
Finish(who, success) ==
    /\ hop' = [hop EXCEPT ![who] = NoURL]
    /\ IF who = "check"
       THEN Answer(IF success THEN "pong" ELSE "error")
       ELSE UNCHANGED <<check, seen, answer>>

\* One hop of a request, which is sent or not: it leads to the next hop if the
\* response redirects to a URL that is followed, or to the end.
Hop(who, sent, followed) ==
    /\ hop[who] # NoURL
    /\ IF sent
       THEN /\ reached' = reached \cup {CanonicalOrigin(hop[who])}
            /\ \E resp \in Responses(hop[who]) :
                  IF resp.status = 302 /\ resp.location \in followed
                  THEN /\ hop' = [hop EXCEPT ![who] = resp.location]
                       /\ UNCHANGED <<check, seen, answer>>
                  ELSE Finish(who, resp.status < 300)
       ELSE Finish(who, FALSE) /\ UNCHANGED reached
    /\ UNCHANGED <<env, up, zones, procVars, listening>>

\* Mutant: http.DefaultClient, without the transport and the redirect rule.
DoDefault(who) == Hop(who, TRUE, Targets)

\* Do of the client that NewClient makes.
Do(who) == Hop(who, RoundTrip(hop[who]), {v \in Targets : CheckRedirect(v)})

-------------------------------------------------------------------------------
(***************************************************************************)
(* The environment.                                                         *)
(***************************************************************************)
Watched(systems, existing) ==
    seen' = IF check = "none" THEN seen ELSE seen \cup Facts(systems, existing)

SystemChanges ==
    /\ \E s \in Systems : up' = IF s \in up THEN up \ {s} ELSE up \cup {s}
    /\ Watched(up', zones)
    /\ UNCHANGED <<env, zones, procVars, listening, check, answer, netVars>>

ZoneChanges ==
    /\ \E z \in ZoneIds : zones' = IF z \in zones THEN zones \ {z} ELSE zones \cup {z}
    /\ Watched(up, zones')
    /\ UNCHANGED <<env, up, procVars, listening, check, answer, netVars>>

Start ==
    \/ SetFromEnvironment \/ TestConnection \/ GetEnvironment \/ GetProvider
    \/ EnsureUpgrade \/ Restart

Health ==
    \/ StartHealthCheck \/ Ask \/ CheckMetadata \/ CheckProvider
    \/ TestConnect \/ Do("check")

Report == UpdateServiceDomainName \/ Do("loop")

Next == Start \/ Health \/ Report \/ SystemChanges \/ ZoneChanges

Spec == Init /\ [][Next]_vars

\* Requests are answered or time out, the container is started again when it
\* exits, and the platform keeps asking for the service's health.
FairSpec == Spec /\ WF_vars(Start) /\ WF_vars(Health)

-------------------------------------------------------------------------------
(***************************************************************************)
(* Properties.                                                              *)
(***************************************************************************)
\* GET /ping returns pong only after the metadata service, the provider and the
\* platform have each answered since it was asked; where the provider asks for
\* its zone, the zone has been there.  Answers of earlier checks, or a process
\* started meanwhile, count for nothing.
PongTruthful ==
    [][(check = "platform" /\ check' = "none" /\ pc' # "down" /\ answer' = "pong") =>
        Systems \cup (IF ChecksZone(env.provider) THEN {"zone"} ELSE {}) \subseteq seen]_vars

\* The service works on a zone that holds the root domain, and on the one that
\* ROUTE53_ZONE_ID names, however many zones have similar names and whenever
\* they were created or deleted.
ServesRootZone ==
    Serving =>
        LET name == ZoneName[hostedZone] IN
        /\ \E k \in 1..Len(Root) : SubSeq(Root, k, Len(Root)) = name
        /\ env.provider # "gandi" => name = Root
        /\ (env.provider = "route53" /\ env.zoneId # NoZone) => hostedZone = env.zoneId

\* Platform requests, with the credentials and events in them, are sent to the
\* configured origin only: at every hop, wherever the platform redirects (to plain
\* HTTP on the same host, to another port, to another host), and by every process
\* that is started.
CredentialsStay == reached \subseteq {CanonicalOrigin(env.platformURL)}

\* A start ends, in the loop or with the process, however long the metadata
\* service is away.
StartEnds == (pc \in {"connect", "environment", "provider", "upgrade"}) ~> (pc \in {"loop", "down"})

\* A configuration that can be started with.
Usable ==
    /\ env.complete /\ env.addressFree
    /\ ValidateBaseURL(env.metadataURL) /\ ~InitRefuses
    /\ ParsePlatformURL(env.platformURL)

\* The zone that the provider needs is there, and all systems answer.
AllWell ==
    /\ up = Systems
    /\ NoZone \notin Selected(env.provider, env.zoneId, zones)
    /\ pc \in {"upgrade", "loop"} => hostedZone \in zones

\* After any outage, a service with a usable configuration ends up in its loop
\* and answers health checks with pong once the other systems stay up.
Recovers == (Usable /\ <>[]AllWell) => <>[](pc = "loop" /\ answer = "pong")
===============================================================================
