----------------------------- MODULE PlatformOrigin -----------------------------
(***************************************************************************)
(* The URLs the service is configured with: what it accepts, and the origin *)
(* that the platform client keeps to (internal/platformapi/client.go).      *)
(*                                                                          *)
(* A URL is what is left of it after url.Parse: scheme, host and port, and  *)
(* whether it is plain (no user information, query or fragment).  Case and  *)
(* trailing dot of the host do not count, and the path is left out.         *)
(***************************************************************************)
EXTENDS Naturals

CONSTANTS
    Hosts,      \* host names
    NoHost,     \* a URL without host
    NoPort      \* a URL without port

URLs == [scheme : {"http", "https", "other"}, host : Hosts \cup {NoHost},
         port : Nat \cup {NoPort}, plain : BOOLEAN]

\* validateBaseURL of the metadata client, and validateEndpointURL of Route 53.
ValidateBaseURL(u) == u.scheme \in {"http", "https"} /\ u.host # NoHost /\ u.plain

ValidateEndpointURL(u) == u.scheme \in {"http", "https"} /\ u.host # NoHost /\ u.plain

EffectivePort(u) ==
    IF u.port # NoPort THEN u.port ELSE IF u.scheme = "https" THEN 443 ELSE 80

\* canonicalOrigin, where it gives no error.
CanonicalOrigin(u) == <<u.scheme, u.host, EffectivePort(u)>>

HasOrigin(u) ==
    u.scheme \in {"http", "https"} /\ u.host # NoHost /\ EffectivePort(u) \in 1..65535

ParsePlatformURL(u) == HasOrigin(u) /\ u.plain

\* isValidRedirectURL: asked in request and again in RoundTrip.
IsValidRedirectURL(u, policy) == u.plain /\ HasOrigin(u) /\ CanonicalOrigin(u) = policy
===============================================================================
