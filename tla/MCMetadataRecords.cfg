SPECIFICATION FairSpec
CONSTANTS
    s1 = s1
    s2 = s2
    h1 = h1
    n1 = n1
    n2 = n2
    a1 = a1
    a2 = a2
    Services = {s1, s2}
    Containers = {c1, c2}
    Hosts = {h1}
    Names = {n1, n2}
    Addrs = {a1, a2}
    BadAddr = bad
    NoAddr = none
    NoHost = nohost
    ServiceInfos <- MCServiceInfos
    ContainerInfos <- MCContainerInfos
    HostInfos <- MCHostInfos
    MaxEnvAttempts = 5
CHECK_DEADLOCK FALSE
INVARIANTS TypeOK AnswerIsReference
PROPERTIES ScanEnds
