------------------------- MODULE MetadataRecordsProofs -------------------------
(***************************************************************************)
(* The records that GetMetadataDnsRecords gathers are those of the          *)
(* reference, for every set of services, containers, hosts, names and       *)
(* addresses, with lookups that fail and hosts that change during the scan. *)
(***************************************************************************)
EXTENDS MetadataRecords, TLAPS

\* A name's addresses without repetition.
Distinct(s) == \A i, j \in DOMAIN s : s[i] = s[j] => i = j

\* addToDnsEntries keeps the order of a name's addresses and adds one once.
LEMMA AppendOnce ==
    ASSUME NEW s \in Seq(Addrs), Distinct(s), NEW ip \in Addrs
    PROVE  LET t == IF ip \in Range(s) THEN s ELSE Append(s, ip)
           IN  /\ t \in Seq(Addrs)
               /\ Range(t) = Range(s) \cup {ip}
               /\ Distinct(t)
               /\ t # <<>>
<1>1. CASE ip \in Range(s)
  BY <1>1 DEF Range, Distinct
<1>2. CASE ip \notin Range(s)
  <2> DEFINE t == Append(s, ip)
  <2>1. t \in Seq(Addrs) /\ DOMAIN t = 1..(Len(s) + 1) /\ DOMAIN s = 1..Len(s) /\ Len(s) \in Nat
    OBVIOUS
  <2>2. \A i \in 1..Len(s) : t[i] = s[i]
    OBVIOUS
  <2>3. t[Len(s) + 1] = ip
    OBVIOUS
  <2>4. \A i \in DOMAIN t : i \in DOMAIN s \/ i = Len(s) + 1
    BY <2>1
  <2>5. \A i \in DOMAIN s : i \in DOMAIN t /\ t[i] = s[i] /\ s[i] # ip
    BY <1>2, <2>1, <2>2 DEF Range
  <2>6. Len(s) + 1 \in DOMAIN t
    BY <2>1
  <2> HIDE DEF t
  <2>7. Range(t) = Range(s) \cup {ip}
    BY <2>3, <2>4, <2>5, <2>6 DEF Range
  <2>8. Distinct(t)
    BY <2>3, <2>4, <2>5 DEF Distinct
  <2>9. t # <<>>
    BY <2>6
  <2> QED BY <1>2, <2>1, <2>7, <2>8, <2>9 DEF t
<1> QED BY <1>1, <1>2

\* A container that is considered has a host, and what is known of it is not
\* NoHost.
LEMMA HostFacts ==
    ASSUME TypeOK, NEW c \in Containers, Considered(c)
    PROVE  /\ containers[c].host \in Hosts
           /\ containers[c].name \in Names
           /\ Host(c) \in HostInfos
           /\ Host(c) # NoHost
           /\ hostMeta[containers[c].host] # NoHost => Host(c) = hostMeta[containers[c].host]
<1>1. containers[c] \in ContainerInfo
  BY InfoAssumption DEF TypeOK
<1>2. containers[c].host \in Hosts /\ containers[c].name \in Names
  BY <1>1 DEF ContainerInfo, Considered
<1>3. hosts[containers[c].host] \in HostInfos
  BY <1>2 DEF TypeOK
<1>4. hostMeta[containers[c].host] \in HostInfos \cup {NoHost}
  BY <1>2 DEF TypeOK
<1> QED BY <1>2, <1>3, <1>4, HostAssumption DEF Host, GetHost

-------------------------------------------------------------------------------
(***************************************************************************)
(* The inductive invariant: after each container, what has been gathered is *)
(* the reference for the containers looked at so far.                       *)
(***************************************************************************)
NothingYet ==
    /\ todo = {} /\ dropped = {} /\ ourFqdns = {}
    /\ hostMeta = [h \in Hosts |-> NoHost]
    /\ entries = [n \in Names |-> <<>>]

\* The hosts of the containers that were not left out are known, so that later
\* lookups change nothing for them.
HostsKnown ==
    \A c \in Containers \ (todo \cup dropped) :
        Considered(c) => hostMeta[containers[c].host] # NoHost

Gathered ==
    /\ \A n \in Names :
          /\ Range(entries[n]) = Addresses(n, hostMeta, todo \cup dropped)
          /\ Distinct(entries[n])
    /\ ourFqdns = {n \in Names : entries[n] # <<>>}

ScanInv ==
    /\ TypeOK
    /\ pc = "environment" => attempts < MaxEnvAttempts
    /\ pc \in {"environment", "services"} => NothingYet
    /\ pc \in {"scan", "done"} => todo \cap dropped = {} /\ HostsKnown /\ Gathered
    /\ pc = "done" => todo = {}

\* Steps that leave the containers, the known hosts and the entries alone keep what
\* has been gathered.
LEMMA GatheredKept ==
    ASSUME UNCHANGED <<services, containers, todo, hostMeta, entries, ourFqdns, dropped>>
    PROVE  (HostsKnown => HostsKnown') /\ (Gathered => Gathered')
<1>1. \A d : Considered(d)' <=> Considered(d)
  BY DEF Considered, ContainerStateOK
<1>2. \A d, g : (Published(d, g)' <=> Published(d, g)) /\ ExternalIP(d, g)' = ExternalIP(d, g)
  BY DEF Published, ExternalIP
<1>3. ASSUME NEW n \in Names
      PROVE  Addresses(n, hostMeta, todo \cup dropped)' = Addresses(n, hostMeta, todo \cup dropped)
  <2>1. Backing(n, hostMeta, todo \cup dropped)' = Backing(n, hostMeta, todo \cup dropped)
    BY <1>1, <1>2 DEF Backing
  <2> QED BY <1>2, <2>1 DEF Addresses
<1> QED BY <1>1, <1>3 DEF HostsKnown, Gathered

\* Before the scan no container has been looked at, and nothing is gathered.
LEMMA ScanBegins ==
    ASSUME ScanInv, GetServices
    PROVE  ScanInv'
<1>1. /\ NothingYet /\ todo' = Containers /\ pc' = "scan"
      /\ UNCHANGED <<services, containers, hosts, attempts, hostMeta, entries, ourFqdns, dropped>>
  BY DEF ScanInv, GetServices
<1>2. HostsKnown'
  BY <1>1 DEF HostsKnown
<1>3. \A n \in Names : Addresses(n, hostMeta, todo \cup dropped)' = {}
  BY <1>1 DEF Addresses, Backing
<1>4. \A n \in Names : entries'[n] = <<>>
  BY <1>1 DEF NothingYet
<1>5. Range(<<>>) = {} /\ Distinct(<<>>)
  BY DEF Range, Distinct
<1>6. Gathered'
  BY <1>1, <1>3, <1>4, <1>5 DEF Gathered, NothingYet
<1> QED BY <1>1, <1>2, <1>6 DEF ScanInv, TypeOK, NothingYet

\* A container that does not count leaves what was gathered as it is.
LEMMA LeftOut ==
    ASSUME ScanInv, NEW c \in Containers, Skip(c) \/ HostLookupFails(c)
    PROVE  ScanInv'
<1>1. /\ pc = "scan" /\ pc' = pc /\ c \in todo /\ todo' = todo \ {c}
      /\ (dropped' = dropped /\ ~Considered(c)) \/ dropped' = dropped \cup {c}
      /\ UNCHANGED <<services, containers, hosts, attempts, hostMeta, entries, ourFqdns>>
  BY DEF Skip, HostLookupFails
<1>2. todo \cap dropped = {} /\ HostsKnown /\ Gathered /\ TypeOK
  BY <1>1 DEF ScanInv
<1>3. \A d : Considered(d)' <=> Considered(d)
  BY <1>1 DEF Considered, ContainerStateOK
<1>4. \A d \in Containers : Considered(d) =>
         (d \in Containers \ (todo' \cup dropped') <=> d \in Containers \ (todo \cup dropped))
  BY <1>1, <1>2
<1>5. HostsKnown'
  BY <1>1, <1>2, <1>3, <1>4 DEF HostsKnown
<1>6. \A d, h : (Published(d, h)' <=> Published(d, h)) /\ ExternalIP(d, h)' = ExternalIP(d, h)
  BY <1>1 DEF Published, ExternalIP
<1>7. ASSUME NEW n \in Names
      PROVE  Addresses(n, hostMeta, todo \cup dropped)' = Addresses(n, hostMeta, todo \cup dropped)
  <2>1. Backing(n, hostMeta, todo \cup dropped)' = Backing(n, hostMeta, todo \cup dropped)
    BY <1>1, <1>3, <1>4, <1>6 DEF Backing
  <2> QED BY <1>1, <1>6, <2>1 DEF Addresses
<1>8. Gathered'
  BY <1>1, <1>2, <1>7 DEF Gathered
<1> QED BY <1>1, <1>2, <1>5, <1>8 DEF ScanInv, TypeOK

\* A container whose host is known adds its address, if it is to be published, to
\* those of its name and to no other.
LEMMA ScanAdds ==
    ASSUME ScanInv, NEW c \in Containers, Scan(c)
    PROVE  ScanInv'
<1> DEFINE h == containers[c].host
           host == Host(c)
           ip == ExternalIP(c, host)
           name == containers[c].name
<1>1. /\ pc = "scan" /\ c \in todo /\ Considered(c) /\ todo' = todo \ {c}
      /\ hostMeta' = [hostMeta EXCEPT ![h] = host]
      /\ UNCHANGED <<services, containers, hosts, attempts, dropped>>
  BY DEF Scan
<1>2. TypeOK /\ todo \cap dropped = {} /\ HostsKnown /\ Gathered
  BY <1>1 DEF ScanInv
<1>3. /\ h \in Hosts /\ name \in Names /\ host \in HostInfos /\ host # NoHost
      /\ hostMeta[h] # NoHost => host = hostMeta[h]
  BY <1>1, <1>2, HostFacts
<1>4. /\ hostMeta' \in [Hosts -> HostInfos \cup {NoHost}]
      /\ hostMeta'[h] = host
      /\ \A g \in Hosts : hostMeta[g] # NoHost => hostMeta'[g] = hostMeta[g]
  BY <1>1, <1>2, <1>3 DEF TypeOK
<1>5. \A d : Considered(d)' <=> Considered(d)
  BY <1>1 DEF Considered, ContainerStateOK
<1>6. \A d, g : (Published(d, g)' <=> Published(d, g)) /\ ExternalIP(d, g)' = ExternalIP(d, g)
  BY <1>1 DEF Published, ExternalIP
<1> DEFINE before == Containers \ (todo \cup dropped)
<1>7. Containers \ (todo' \cup dropped') = before \cup {c} /\ c \notin before
  BY <1>1, <1>2
<1>8. ASSUME NEW d \in before, Considered(d)
      PROVE  /\ hostMeta[containers[d].host] # NoHost
             /\ hostMeta'[containers[d].host] = hostMeta[containers[d].host]
  <2>1. hostMeta[containers[d].host] # NoHost
    BY <1>2, <1>8 DEF HostsKnown
  <2>2. containers[d].host \in Hosts
    BY <1>2, <1>8, HostFacts
  <2> QED BY <1>4, <2>1, <2>2
<1> HIDE DEF h, host, ip, name, before
<1>9. HostsKnown'
  BY <1>1, <1>3, <1>4, <1>5, <1>7, <1>8 DEF HostsKnown, h
<1>10. ASSUME NEW n \in Names
       PROVE  Addresses(n, hostMeta, todo \cup dropped)' =
                 Addresses(n, hostMeta, todo \cup dropped)
                 \cup IF n = name /\ Published(c, host) THEN {ip} ELSE {}
  <2> DEFINE old == Backing(n, hostMeta, todo \cup dropped)
             new == Backing(n, hostMeta, todo \cup dropped)'
  <2>1. old = {d \in before : /\ Considered(d) /\ containers[d].name = n
                              /\ hostMeta[containers[d].host] # NoHost
                              /\ Published(d, hostMeta[containers[d].host])}
    BY DEF Backing, before
  <2>2. new = {d \in before \cup {c} : /\ Considered(d) /\ containers[d].name = n
                                       /\ hostMeta'[containers[d].host] # NoHost
                                       /\ Published(d, hostMeta'[containers[d].host])}
    BY <1>1, <1>5, <1>6, <1>7 DEF Backing
  <2>3. new = old \cup IF n = name /\ Published(c, host) THEN {c} ELSE {}
    <3>1. c \in new <=> n = name /\ Published(c, host)
      BY <1>1, <1>3, <1>4, <2>2 DEF h, name
    <3>2. \A d \in before : d \in new <=> d \in old
      BY <1>8, <2>1, <2>2
    <3> QED BY <1>7, <2>1, <2>2, <3>1, <3>2
  <2>4. \A d \in old : Considered(d) /\ d \in before
    BY <2>1
  <2>5. Addresses(n, hostMeta, todo \cup dropped)' =
           {ExternalIP(d, hostMeta'[containers[d].host]) : d \in new}
    BY <1>1, <1>6 DEF Addresses
  <2>6. Addresses(n, hostMeta, todo \cup dropped) =
           {ExternalIP(d, hostMeta[containers[d].host]) : d \in old}
    BY DEF Addresses
  <2>7. \A d \in old : ExternalIP(d, hostMeta'[containers[d].host])
                          = ExternalIP(d, hostMeta[containers[d].host])
    BY <1>8, <2>4
  <2>8. ExternalIP(c, hostMeta'[containers[c].host]) = ip
    BY <1>4 DEF h, ip
  <2> HIDE DEF old, new
  <2> QED BY <2>3, <2>5, <2>6, <2>7, <2>8
<1>11. \A n \in Names : entries[n] \in Seq(Addrs) /\ Distinct(entries[n])
  BY <1>2 DEF TypeOK, Gathered
<1>12. CASE ~Published(c, host)
  <2>1. UNCHANGED <<pc, entries, ourFqdns>>
    BY <1>12 DEF Scan, host
  <2>2. Gathered'
    BY <1>2, <1>10, <1>12, <2>1 DEF Gathered
  <2> QED BY <1>1, <1>2, <1>4, <1>9, <2>1, <2>2 DEF ScanInv, TypeOK
<1>13. CASE Published(c, host) /\ services[containers[c].service].template = "bad"
  <2>1. pc' = "dead" /\ UNCHANGED <<entries, ourFqdns>>
    BY <1>13 DEF Scan, host
  <2> QED BY <1>1, <1>2, <1>4, <2>1 DEF ScanInv, TypeOK
<1>14. CASE Published(c, host) /\ services[containers[c].service].template # "bad"
  <2> DEFINE list == IF ip \in Range(entries[name]) THEN entries[name] ELSE Append(entries[name], ip)
  <2>1. /\ pc' = pc /\ ourFqdns' = ourFqdns \cup {name}
        /\ entries' = [entries EXCEPT ![name] = list]
    BY <1>14 DEF Scan, AddToDnsEntries, host, ip, name
  <2>2. ip \in Addrs
    BY <1>14 DEF Published, ip
  <2>3. /\ list \in Seq(Addrs) /\ Range(list) = Range(entries[name]) \cup {ip}
        /\ Distinct(list) /\ list # <<>>
    BY <1>3, <1>11, <2>2, AppendOnce
  <2> HIDE DEF list
  <2>4. entries \in [Names -> Seq(Addrs)]
    BY <1>2 DEF TypeOK
  <2>5. /\ entries' \in [Names -> Seq(Addrs)]
        /\ \A n \in Names : entries'[n] = IF n = name THEN list ELSE entries[n]
    BY <1>3, <2>1, <2>3, <2>4
  <2>6. \A n \in Names : /\ Range(entries'[n]) = Addresses(n, hostMeta, todo \cup dropped)'
                         /\ Distinct(entries'[n])
    <3> TAKE n \in Names
    <3>1. Range(entries[n]) = Addresses(n, hostMeta, todo \cup dropped)
      BY <1>2 DEF Gathered
    <3> QED BY <1>10, <1>11, <1>14, <2>3, <2>5, <3>1
  <2>7. ourFqdns' = {n \in Names : entries'[n] # <<>>}
    BY <1>2, <1>3, <2>1, <2>3, <2>5 DEF Gathered
  <2>8. Gathered'
    BY <2>6, <2>7 DEF Gathered
  <2> QED BY <1>1, <1>2, <1>3, <1>4, <1>9, <2>1, <2>5, <2>8 DEF ScanInv, TypeOK
<1> QED BY <1>12, <1>13, <1>14

\* A host that changes is not looked at again.
LEMMA HostChangeKeeps ==
    ASSUME ScanInv, NEW h \in Hosts, HostChange(h)
    PROVE  ScanInv'
<1>1. /\ hosts' \in [Hosts -> HostInfos]
      /\ UNCHANGED <<services, containers, pc, attempts, todo, hostMeta, entries, ourFqdns, dropped>>
  BY DEF HostChange, scanVars, ScanInv, TypeOK
<1> QED BY <1>1, GatheredKept DEF ScanInv, TypeOK, NothingYet

\* Every step of the scan, and every change of the metadata, keeps the invariant.
LEMMA ScanStep == ScanInv /\ [Next]_vars => ScanInv'
<1> SUFFICES ASSUME ScanInv, [Next]_vars PROVE ScanInv'
  OBVIOUS
<1>1. CASE GetEnvironment \/ GetServicesFails
  BY <1>1 DEF GetEnvironment, GetServicesFails, ScanInv, TypeOK, NothingYet, scanVars
<1>2. CASE GetEnvironmentFails
  BY <1>2, AttemptsAssumption DEF GetEnvironmentFails, ScanInv, TypeOK, NothingYet, scanVars
<1>3. CASE GetServices
  BY <1>3, ScanBegins
<1>4. CASE Finish
  BY <1>4, GatheredKept DEF Finish, ScanInv, TypeOK, scanVars
<1>5. ASSUME NEW c \in Containers, Skip(c) \/ HostLookupFails(c) \/ Scan(c) PROVE ScanInv'
  BY <1>5, LeftOut, ScanAdds
<1>6. ASSUME NEW h \in Hosts, HostChange(h) PROVE ScanInv'
  BY <1>6, HostChangeKeeps
<1>7. CASE UNCHANGED vars
  BY <1>7, GatheredKept DEF vars, ScanInv, TypeOK, NothingYet
<1> QED BY <1>1, <1>2, <1>3, <1>4, <1>5, <1>6, <1>7 DEF Next, Step

-------------------------------------------------------------------------------
\* The invariant of the scan holds throughout.
THEOREM ScanInvariant == Spec => []ScanInv
<1>1. Init => ScanInv
  BY AttemptsAssumption DEF Init, ScanInv, TypeOK, NothingYet
<1> QED BY <1>1, ScanStep, PTL DEF Spec

\* Every variable of the scan keeps a value of its kind: what is published is an
\* address, and the environment is asked for a bounded number of times.
THEOREM ScanTypeCorrect == Spec => []TypeOK
<1>1. ScanInv => TypeOK
  BY DEF ScanInv
<1> QED BY <1>1, ScanInvariant, PTL

\* A completed answer is that of the reference, with every host in one version
\* throughout, although hosts are looked up one by one while they change.
THEOREM AnswerCorrect == Spec => []AnswerIsReference
<1>1. ScanInv => AnswerIsReference
  <2> SUFFICES ASSUME ScanInv, pc = "done" PROVE AnswerIsReference
    BY DEF AnswerIsReference
  <2>1. Gathered /\ todo \cup dropped = dropped
    BY DEF ScanInv
  <2> QED BY <2>1 DEF Gathered, AnswerIsReference, Distinct
<1> QED BY <1>1, ScanInvariant, PTL
===============================================================================
