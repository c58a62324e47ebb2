--------------------------- MODULE MCMetadataRecords ---------------------------
(* An instance of MetadataRecords for TLC: two containers, of one service or of  *)
(* two, that may share a host and a name.                                        *)
EXTENDS MetadataRecords

CONSTANTS s1, s2, h1, n1, n2, a1, a2

MCServiceInfos ==
    {[policy |-> p, kind |-> k, template |-> t] :
        <<p, k, t>> \in {<<"auto", "service", "good">>, <<"always", "loadBalancerService", "good">>,
                         <<"never", "service", "good">>, <<"auto", "other", "good">>,
                         <<"always", "service", "bad">>}}

MCContainerInfos ==
    {[service |-> s, state |-> st, health |-> he, ports |-> p, host |-> h, name |-> n] :
        <<st, he, p, h, n>> \in {<<"running", "healthy", NoPorts, h1, n1>>,
                                 <<"running", "", NoAddr, h1, n1>>,
                                 <<"running", "updating-healthy", a2, h1, n1>>,
                                 <<"running", "healthy", a2, h1, n2>>,
                                 <<"running", "healthy", BadAddr, h1, n1>>,
                                 <<"running", "unhealthy", NoAddr, h1, n1>>,
                                 <<"stopped", "", NoAddr, h1, n1>>,
                                 <<"running", "", NoAddr, NoHost, n1>>},
        s \in {s1, s2}}

MCHostInfos ==
    {[enabled |-> e, label |-> l, agent |-> a] :
        <<e, l, a>> \in {<<TRUE, NoAddr, a1>>, <<TRUE, a2, a1>>, <<TRUE, BadAddr, a1>>,
                         <<FALSE, NoAddr, a1>>}}
===============================================================================
