---------------------------- MODULE MetadataRecords ----------------------------
(***************************************************************************)
(* GetMetadataDnsRecords (metadata/metadata.go): how the wanted records are *)
(* gathered from the metadata service, one request at a time.  The services *)
(* with their containers come in one answer; the host of each container is  *)
(* looked up as it is needed and remembered for the rest of the scan, and   *)
(* hosts may change between two lookups.                                    *)
(*                                                                          *)
(* This is the detail behind the Fetch, FetchPartial and FetchFails steps   *)
(* of SyncLoop.                                                             *)
(***************************************************************************)
EXTENDS Naturals, Sequences, Functions

CONSTANTS
    Services, Containers, Hosts,
    Names,              \* fully qualified names
    Addrs,              \* strings that net.ParseIP accepts
    BadAddr,            \* one that it does not
    NoAddr,             \* no address given
    NoHost,             \* an empty host UUID, or a host that is not looked up yet
    ServiceInfos,       \* the service attributes that the answer may contain
    ContainerInfos,     \* the container attributes that the answer may contain
    HostInfos,          \* the host attributes
    MaxEnvAttempts      \* attempts of getEnvironment: waits of 1, 2, 4, 8, 16 s

\* The attributes a decision depends on.  policy is the value of the service
\* label, "auto" if there is none; template tells whether the name template can
\* be executed; ports is NoPorts, or the address that parsePortToIP finds in the
\* first port (NoAddr for 0.0.0.0 or a port without one); label is the host's
\* external address label, agent its agent address.
NoPorts == "no ports"

ServiceInfo ==
    [policy : {"auto", "always", "never"}, template : {"good", "bad"},
     kind : {"service", "loadBalancerService", "other"}]
ContainerInfo ==
    [service : Services, state : {"running", "stopped"},
     health : {"", "healthy", "updating-healthy", "unhealthy"},
     ports : {NoPorts, NoAddr, BadAddr} \cup Addrs, host : Hosts \cup {NoHost}, name : Names]
HostInfo ==
    [enabled : BOOLEAN, label : {NoAddr, BadAddr} \cup Addrs, agent : {BadAddr} \cup Addrs]

ASSUME InfoAssumption ==
    /\ ServiceInfos \subseteq ServiceInfo
    /\ ContainerInfos \subseteq ContainerInfo
    /\ HostInfos \subseteq HostInfo

ASSUME HostAssumption == NoHost \notin HostInfos
ASSUME AttemptsAssumption == MaxEnvAttempts \in Nat \ {0}

VARIABLES
    services, containers,   \* the answer to GetServices
    hosts,                  \* the hosts of the metadata service
    pc,
    attempts,               \* failed attempts to read the environment
    todo,                   \* the containers still to be looked at
    hostMeta,               \* the hosts looked up in this scan
    entries,                \* dnsEntries: the addresses of each name, in order
    ourFqdns,
    dropped                 \* history: containers whose host lookup failed

vars == <<services, containers, hosts, pc, attempts, todo, hostMeta, entries, ourFqdns, dropped>>
scanVars == <<todo, hostMeta, entries, ourFqdns, dropped>>

\* Every variable holds a value of its kind.
TypeOK ==
    /\ services \in [Services -> ServiceInfos]
    /\ containers \in [Containers -> ContainerInfos]
    /\ hosts \in [Hosts -> HostInfos]
    /\ pc \in {"environment", "services", "scan", "done", "failed", "dead"}
    /\ attempts \in 0..MaxEnvAttempts
    /\ todo \subseteq Containers
    /\ hostMeta \in [Hosts -> HostInfos \cup {NoHost}]
    /\ entries \in [Names -> Seq(Addrs)]
    /\ ourFqdns \subseteq Names
    /\ dropped \subseteq Containers

Init ==
    /\ services \in [Services -> ServiceInfos]
    /\ containers \in [Containers -> ContainerInfos]
    /\ hosts \in [Hosts -> HostInfos]
    /\ pc = "environment"
    /\ attempts = 0
    /\ todo = {}
    /\ hostMeta = [h \in Hosts |-> NoHost]
    /\ entries = [n \in Names |-> <<>>]
    /\ ourFqdns = {}
    /\ dropped = {}

-------------------------------------------------------------------------------
\* containerStateOK
ContainerStateOK(c) ==
    /\ containers[c].state = "running"
    /\ containers[c].health \in {"healthy", "updating-healthy", ""}

\* The service and container conditions of getContainersDnsRecords.
Considered(c) ==
    LET s == services[containers[c].service] IN
    /\ s.policy # "never"
    /\ s.kind \in {"service", "loadBalancerService"}
    /\ containers[c].ports # NoPorts \/ s.policy = "always"
    /\ ContainerStateOK(c)
    /\ containers[c].host # NoHost

\* The address of a container on a host: the host's label, the first port, the
\* agent address, in this order.
ExternalIP(c, host) ==
    IF host.label # NoAddr THEN host.label
    ELSE IF containers[c].ports \notin {NoPorts, NoAddr} THEN containers[c].ports
    ELSE host.agent

\* Mutant: the address is not parsed.
PublishedUnparsed(c, host) == host.enabled

\* The host conditions.
Published(c, host) == host.enabled /\ ExternalIP(c, host) \in Addrs

\* addToDnsEntries
AddToDnsEntries(fqdn, ip) ==
    entries' = [entries EXCEPT ![fqdn] = IF ip \in Range(@) THEN @ ELSE Append(@, ip)]

-------------------------------------------------------------------------------
\* updateEnvironmentName: getEnvironment tries a few times.
GetEnvironment ==
    /\ pc = "environment"
    /\ pc' = "services"
    /\ UNCHANGED <<services, containers, hosts, attempts, scanVars>>

\* Mutant: the attempts start over instead of ending.
GetEnvironmentFailsForever ==
    /\ pc = "environment"
    /\ attempts' = (attempts + 1) % MaxEnvAttempts
    /\ UNCHANGED <<services, containers, hosts, pc, scanVars>>

GetEnvironmentFails ==
    /\ pc = "environment"
    /\ attempts' = attempts + 1
    /\ pc' = IF attempts' = MaxEnvAttempts THEN "failed" ELSE pc
    /\ UNCHANGED <<services, containers, hosts, scanVars>>

GetServices ==
    /\ pc = "services"
    /\ pc' = "scan"
    /\ todo' = Containers
    /\ UNCHANGED <<services, containers, hosts, attempts, hostMeta, entries, ourFqdns, dropped>>

GetServicesFails ==
    /\ pc = "services"
    /\ pc' = "failed"
    /\ UNCHANGED <<services, containers, hosts, attempts, scanVars>>

\* A container that is left out before its host matters.
Skip(c) ==
    /\ pc = "scan"
    /\ c \in todo
    /\ ~Considered(c)
    /\ todo' = todo \ {c}
    /\ UNCHANGED <<services, containers, hosts, pc, attempts, hostMeta, entries, ourFqdns, dropped>>

\* The host lookup fails, or the host is not listed: the container is left out
\* and the scan goes on.
HostLookupFails(c) ==
    /\ pc = "scan"
    /\ c \in todo
    /\ Considered(c)
    /\ hostMeta[containers[c].host] = NoHost
    /\ todo' = todo \ {c}
    /\ dropped' = dropped \cup {c}
    /\ UNCHANGED <<services, containers, hosts, pc, attempts, hostMeta, entries, ourFqdns>>

\* GetHost: the hosts are listed anew, and the one with the UUID is taken.
GetHost(h) == hosts[h]

\* Mutant: every container gets the host as it is now.
HostNow(c) == hosts[containers[c].host]

\* The host is known, from this lookup or an earlier one.
Host(c) ==
    LET h == containers[c].host
    IN  IF hostMeta[h] = NoHost THEN GetHost(h) ELSE hostMeta[h]

Scan(c) ==
    /\ pc = "scan"
    /\ c \in todo
    /\ Considered(c)
    /\ todo' = todo \ {c}
    /\ hostMeta' = [hostMeta EXCEPT ![containers[c].host] = Host(c)]
    /\ IF ~Published(c, Host(c))
       THEN UNCHANGED <<pc, entries, ourFqdns>>
       ELSE IF services[containers[c].service].template = "bad"
       THEN pc' = "dead" /\ UNCHANGED <<entries, ourFqdns>>
       ELSE /\ AddToDnsEntries(containers[c].name, ExternalIP(c, Host(c)))
            /\ ourFqdns' = ourFqdns \cup {containers[c].name}
            /\ pc' = pc
    /\ UNCHANGED <<services, containers, hosts, attempts, dropped>>

Finish ==
    /\ pc = "scan"
    /\ todo = {}
    /\ pc' = "done"
    /\ UNCHANGED <<services, containers, hosts, attempts, scanVars>>

\* Hosts are relabelled or get another address while the scan runs.
HostChange(h) ==
    /\ pc = "scan"
    /\ \E info \in HostInfos \ {hosts[h]} : hosts' = [hosts EXCEPT ![h] = info]
    /\ UNCHANGED <<services, containers, pc, attempts, scanVars>>

Step ==
    \/ GetEnvironment \/ GetEnvironmentFails \/ GetServices \/ GetServicesFails \/ Finish
    \/ \E c \in Containers : Skip(c) \/ HostLookupFails(c) \/ Scan(c)

Next == Step \/ \E h \in Hosts : HostChange(h)

Spec == Init /\ [][Next]_vars

FairSpec == Spec /\ WF_vars(Step)

-------------------------------------------------------------------------------
(***************************************************************************)
(* What the answer should be: the addresses of the containers that have a   *)
(* name, when a container's host is as given by the function known.         *)
(***************************************************************************)
Backing(n, known, left) ==
    {c \in Containers \ left :
        /\ Considered(c) /\ containers[c].name = n
        /\ known[containers[c].host] # NoHost
        /\ Published(c, known[containers[c].host])}

Addresses(n, known, left) ==
    {ExternalIP(c, known[containers[c].host]) : c \in Backing(n, known, left)}

\* An answer holds, for every name and without repetition, the addresses of all
\* containers that back it but those whose host lookup failed, every host being
\* seen in one version throughout; and the state record lists the names that
\* have an address and no other.
AnswerIsReference ==
    pc = "done" =>
        /\ \A n \in Names :
              /\ Range(entries[n]) = Addresses(n, hostMeta, dropped)
              /\ \A i, j \in DOMAIN entries[n] : entries[n][i] = entries[n][j] => i = j
        /\ ourFqdns = {n \in Names : entries[n] # <<>>}

\* The scan ends, with an answer, an error or the end of the process, whatever
\* the hosts do meanwhile.
ScanEnds == <>(pc \in {"done", "failed", "dead"})
===============================================================================
