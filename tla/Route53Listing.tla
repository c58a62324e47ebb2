----------------------------- MODULE Route53Listing -----------------------------
(***************************************************************************)
(* Route53Provider.GetRecords (providers/route53/route53.go): the zone is   *)
(* listed page by page while others write to it.  Record sets are numbered  *)
(* in the order in which the service lists them (name, type, identifier);   *)
(* a page starts at the marker the previous page returned.                  *)
(*                                                                          *)
(* This is the detail behind the GetRecords operator of module Route53.     *)
(***************************************************************************)
EXTENDS Naturals, FiniteSets, FiniteSetsExt

CONSTANTS
    Last,       \* the number of the last possible record set
    MaxItems,   \* the size of a page (100 in the code)
    Values,     \* the contents of plain record sets
    Faults      \* whether a call may fail or an answer lack its marker

ASSUME ListingAssumption ==
    /\ Last \in Nat
    /\ MaxItems \in Nat \ {0}
    /\ Values \cap {"none", "alias"} = {}
    /\ Faults \in BOOLEAN

Positions == 1..Last

\* What may be stored: nothing, a proprietary record set, a plain one.
Contents == {"none", "alias"} \cup Values

VARIABLES
    stored,     \* the zone
    pc,         \* "list", "done" or "failed"
    marker,     \* StartRecordName, StartRecordType and StartRecordIdentifier
    rrSets,     \* what the pages so far contained
    stable      \* history: positions not written since the listing began

vars == <<stored, pc, marker, rrSets, stable>>

\* Every variable holds a value of its kind.
TypeOK ==
    /\ stored \in [Positions -> Contents]
    /\ pc \in {"list", "done", "failed"}
    /\ marker \in 1..(Last + 1)
    /\ rrSets \subseteq Positions \X (Contents \ {"none"})
    /\ stable \subseteq Positions

Init ==
    /\ stored \in [Positions -> Contents]
    /\ pc = "list"
    /\ marker = 1
    /\ rrSets = {}
    /\ stable = Positions

-------------------------------------------------------------------------------
\* ListResourceRecordSets: the first MaxItems record sets from the marker on,
\* and the marker of the one that follows if there is one.
From(m) == {p \in Positions : p >= m /\ stored[p] # "none"}

OnPage(m) == {p \in From(m) : Cardinality({q \in From(m) : q < p}) < MaxItems}

PageOf(m) == {<<p, stored[p]>> : p \in OnPage(m)}

IsTruncated(m) == From(m) # OnPage(m)

NextRecord(m) == Min(From(m) \ OnPage(m))

\* Mutant: the marker is not passed on.
PageSameMarker ==
    /\ pc = "list"
    /\ rrSets' = rrSets \cup PageOf(marker)
    /\ pc' = IF IsTruncated(marker) THEN pc ELSE "done"
    /\ UNCHANGED <<stored, marker, stable>>

\* Mutant: a page replaces the ones before it.
PageReplaces ==
    /\ pc = "list"
    /\ rrSets' = PageOf(marker)
    /\ IF IsTruncated(marker)
       THEN marker' = NextRecord(marker) /\ pc' = pc
       ELSE marker' = marker /\ pc' = "done"
    /\ UNCHANGED <<stored, stable>>

\* Mutant: the marker is taken from the answer whether it has one or not.
PageNoMarker ==
    /\ pc = "list"
    /\ rrSets' = rrSets \cup PageOf(marker)
    /\ IF IsTruncated(marker)
       THEN marker' = NextRecord(marker) /\ pc' = pc
       ELSE marker' = 0 /\ pc' = "done"
    /\ UNCHANGED <<stored, stable>>

\* One turn of the paging loop.
Page ==
    /\ pc = "list"
    /\ rrSets' = rrSets \cup PageOf(marker)
    /\ IF IsTruncated(marker)
       THEN marker' = NextRecord(marker) /\ pc' = pc
       ELSE marker' = marker /\ pc' = "done"
    /\ UNCHANGED <<stored, stable>>

\* The call fails, or a truncated answer has no marker: GetRecords returns an
\* error, and the caller discards the records.
PageFails ==
    /\ Faults
    /\ pc = "list"
    /\ pc' = "failed"
    /\ UNCHANGED <<stored, marker, rrSets, stable>>

\* Someone adds, replaces or deletes a record set.
Write(p) ==
    /\ pc = "list"
    /\ \E c \in Contents \ {stored[p]} : stored' = [stored EXCEPT ![p] = c]
    /\ stable' = stable \ {p}
    /\ UNCHANGED <<pc, marker, rrSets>>

-------------------------------------------------------------------------------
\* The records that GetRecords returns: those that are not proprietary.
IsProprietary(rr) == rr[2] = "alias"

Returned == {rr \in rrSets : ~IsProprietary(rr)}

\* A completed listing shows every plain record set that was in the zone all the
\* time as it was, no matter what was written around it, shows none that was
\* absent or proprietary all the time, and shows none in two versions.
ListingFaithful ==
    pc = "done" =>
        /\ \A p \in stable, v \in Values : <<p, v>> \in Returned <=> stored[p] = v
        /\ \A r, q \in rrSets : r[1] = q[1] => r = q
===============================================================================
