---- MODULE MCStartup ----
(* An instance of Startup for TLC. *)
EXTENDS Startup

CONSTANTS home, away

MCRoot == <<"sub", "example", "com">>

MCZoneName ==
    << <<"example", "com">>, MCRoot, MCRoot, <<"other", "com">> >>

URL(scheme, host, port, plain) == [scheme |-> scheme, host |-> host, port |-> port, plain |-> plain]

Good ==
    [complete |-> TRUE, credentials |-> TRUE, addressFree |-> TRUE, provider |-> "route53",
     zoneId |-> NoZone, endpoint |-> URL("https", home, NoPort, TRUE),
     metadataURL |-> URL("http", home, NoPort, TRUE),
     platformURL |-> URL("https", home, NoPort, TRUE)]

\* The same origin in another spelling, the host without TLS, and another host.
MCTargets ==
    {URL("https", home, 443, TRUE), URL("http", home, NoPort, TRUE), URL("https", away, NoPort, TRUE)}

\* Route 53 with settings that are wrong in one way each, or unusual; the other
\* providers, one of them with another URL.
MCEnvs ==
    {Good}
    \cup {[Good EXCEPT !.complete = FALSE], [Good EXCEPT !.credentials = FALSE],
          [Good EXCEPT !.addressFree = FALSE], [Good EXCEPT !.metadataURL.scheme = "other"],
          [Good EXCEPT !.endpoint.plain = FALSE]}
    \cup {[Good EXCEPT !.zoneId = z] : z \in {3, 4}}
    \cup {[Good EXCEPT !.platformURL = u] :
             u \in {URL("https", home, 0, TRUE), URL("https", NoHost, NoPort, TRUE)}}
    \cup {[Good EXCEPT !.provider = p] :
             p \in {"cloudflare", "pointhq", "ovh", "infoblox", "digitalocean", "dnsimple",
                    "powerdns", "gandi", "rfc2136", "unknown"}}
    \cup {[Good EXCEPT !.provider = "alidns", !.platformURL = URL("http", home, 8080, TRUE)]}
====
