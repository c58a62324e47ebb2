-------------------------------- MODULE Listings --------------------------------
(***************************************************************************)
(* The listings that take several requests: that of Route 53, whose pages   *)
(* start at a marker (module Route53Listing), and those of DigitalOcean     *)
(* (fetchDoRecords) and AliDNS (listRecords), whose pages are numbered, so  *)
(* that records move between pages while others write.                      *)
(*                                                                          *)
(* For the numbered ones marker is the number of the page and MaxItems its  *)
(* size.  This is the detail behind the operator Paged of ValueByValue.     *)
(***************************************************************************)
EXTENDS Route53Listing

VARIABLES
    lister,     \* the provider that lists
    count,      \* AliDNS: len(all), with records seen twice counted twice
    shrunk      \* history: whether a record was deleted since the listing began

listVars == <<vars, lister, count, shrunk>>

Stored == {p \in Positions : stored[p] # "none"}

\* Page n of the records, and their total number.
Numbered(n) ==
    {p \in Stored : Cardinality({q \in Stored : q <= p}) \in ((n - 1) * MaxItems + 1)..(n * MaxItems)}

TotalCount == Cardinality(Stored)

IsLastPage(n) == TotalCount <= n * MaxItems

Take(n) == rrSets' = rrSets \cup {<<p, stored[p]>> : p \in Numbered(n)}

-------------------------------------------------------------------------------
\* Mutant: only the first page is fetched.
FetchDoRecordsOnce ==
    /\ pc = "list"
    /\ Take(marker)
    /\ pc' = "done"
    /\ UNCHANGED <<stored, marker, stable, count>>

\* One turn of the loop of fetchDoRecords.
FetchDoRecords ==
    /\ pc = "list"
    /\ Take(marker)
    /\ IF IsLastPage(marker) \/ Numbered(marker) = {}
       THEN pc' = "done" /\ marker' = marker
       ELSE pc' = pc /\ marker' = marker + 1
    /\ UNCHANGED <<stored, stable, count>>

\* One turn of the loop of listRecords.  The answer may lack the total.
ListRecords ==
    /\ pc = "list"
    /\ Take(marker)
    /\ count' = count + Cardinality(Numbered(marker))
    /\ \E told \in BOOLEAN :
          pc' = CASE told /\ count' >= TotalCount                           -> "done"
                  [] told /\ count' < TotalCount /\ Numbered(marker) = {}   -> "failed"
                  [] told /\ count' < TotalCount /\ Numbered(marker) # {}   -> "list"
                  [] ~told /\ Cardinality(Numbered(marker)) < MaxItems      -> "done"
                  [] ~told /\ Cardinality(Numbered(marker)) = MaxItems      -> "list"
    /\ marker' = IF pc' = "list" THEN marker + 1 ELSE marker
    /\ UNCHANGED <<stored, stable>>

-------------------------------------------------------------------------------
ListInit ==
    /\ Init
    /\ lister \in {"route53", "digitalocean", "alidns"}
    /\ count = 0
    /\ shrunk = FALSE

\* The request for the next page is answered.
NextPage ==
    /\ \/ lister = "route53" /\ Page /\ UNCHANGED count
       \/ lister = "digitalocean" /\ FetchDoRecords
       \/ lister = "alidns" /\ ListRecords
    /\ UNCHANGED <<lister, shrunk>>

ListNext ==
    \/ NextPage
    \/ PageFails /\ UNCHANGED <<lister, count, shrunk>>
    \/ \E p \in Positions :
          /\ Write(p)
          /\ shrunk' = (shrunk \/ stored'[p] = "none")
          /\ UNCHANGED <<lister, count>>

\* A page that was asked for is answered.
ListSpec == ListInit /\ [][ListNext]_listVars /\ WF_listVars(NextPage)

-------------------------------------------------------------------------------
\* A completed listing of Route 53 is faithful whatever is written meanwhile.  A
\* numbered one shows every record that was there all the time unless one was
\* deleted meanwhile, and never a record that was absent all the time.
ListingsFaithful ==
    IF lister = "route53" THEN ListingFaithful
    ELSE pc = "done" => \A p \in stable :
            /\ ~shrunk => (p \in Stored => <<p, stored[p]>> \in rrSets)
            /\ p \notin Stored => \A rr \in rrSets : rr[1] # p

\* Every listing ends, although records keep being added behind the page.
ListingEnds == <>(pc \in {"done", "failed"})
===============================================================================
