------------------------------ MODULE DnsRecords ------------------------------
(***************************************************************************)
(* The record sets the synchronizer handles (utils/utils.go) and the map    *)
(* of wanted records it derives from metadata (metadata/metadata.go).       *)
(*                                                                          *)
(* A key is a fully qualified name.  The service only ever handles A        *)
(* records, one per service name, and one TXT record, the ownership state,  *)
(* under StateFqdn(environment UUID, root domain): so the name tells the    *)
(* type, and a table of record sets is a function on Keys.                  *)
(***************************************************************************)
EXTENDS Naturals

CONSTANTS
    Names,      \* the names of A records, as FqdnFromTemplate builds them
    State,      \* the name of the ownership TXT record (utils.StateFqdn)
    Addrs,      \* IP addresses
    TTLs        \* time-to-live values, in seconds

ASSUME StateAssumption == State \notin Names
ASSUME TTLAssumption == TTLs \subseteq Nat /\ TTLs # {}

Keys == Names \cup {State}

\* A record set with values v and time to live t.
RRSet(v, t) == [kind |-> "rrset", vals |-> v, ttl |-> t]

RRSets(values) == [kind : {"rrset"}, vals : (SUBSET values) \ {{}}, ttl : TTLs]

\* No record set under this name and type.
Absent == [kind |-> "none", vals |-> {}, ttl |-> 0]

\* The tables of record sets that the program passes around.
Tables ==
    {t \in [Keys -> {Absent} \cup RRSets(Addrs) \cup RRSets(Names)] :
        /\ t[State] \in {Absent} \cup RRSets(Names)
        /\ \A n \in Names : t[n] \in {Absent} \cup RRSets(Addrs)}

\* The names that a table of record sets holds something for.
Present(table) == {k \in Keys : table[k] # Absent}

\* utils.StateRecord: the TXT record listing a set of names.
StateRecord(entries, ttl) == RRSet(entries, ttl)

(***************************************************************************)
(* What metadata wants: a set of addresses per name, empty when no running  *)
(* container backs the name.  MetadataRecs is the map that                  *)
(* GetMetadataDnsRecords returns for it: one A record per wanted name, and  *)
(* the state record listing exactly these names, or none if there is none.  *)
(***************************************************************************)
Wants == [Names -> SUBSET Addrs]

Wanted(want) == {n \in Names : want[n] # {}}

MetadataRecs(want, ttl) ==
    [k \in Keys |->
        IF k \in Names
        THEN IF want[k] = {} THEN Absent ELSE RRSet(want[k], ttl)
        ELSE IF Wanted(want) = {} THEN Absent
                                  ELSE StateRecord(Wanted(want), ttl)]

NoRecs == [k \in Keys |-> Absent]
===============================================================================
