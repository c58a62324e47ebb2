---------------------------- MODULE ProviderContract ----------------------------
(***************************************************************************)
(* What the reconciliation relies on when it calls a provider (the          *)
(* Provider interface of providers/provider.go, as external-dns.go uses     *)
(* it), in terms of the records stored, as GetRecords lists them unless the *)
(* provider is excused: a call changes nothing but the record set it names; *)
(* on the way it leaves old and new values there and no others; and if it   *)
(* reports success, and nobody else wrote to the zone meanwhile, the record *)
(* set is what was asked for.                                               *)
(***************************************************************************)
CONSTANTS
    Keys,       \* name and type of a record set
    Vals        \* values

VARIABLES
    listed,     \* the values stored under each key
    call,       \* the call in progress, NoCall if there is none
    result,     \* what the last call reported: "ok", "err", or "none"
    disturbed   \* whether others wrote to the zone since the call began

vars == <<listed, call, result, disturbed>>

NoCall == [op |-> "none"]

Ops == {"Add", "Update", "Remove"}

Calls ==
    {c \in [op : Ops, key : Keys, vals : SUBSET Vals] : c.op = "Remove" <=> c.vals = {}}

Init ==
    /\ listed \in [Keys -> SUBSET Vals]
    /\ call = NoCall
    /\ result = "none"
    /\ disturbed = FALSE

\* The pass makes the call its listing asks for: Add where nothing is listed,
\* Update where other values are listed, Remove where something is.
Asked(c, listing) ==
    CASE c.op = "Add"    -> listing[c.key] = {}
      [] c.op = "Update" -> listing[c.key] \notin {{}, c.vals}
      [] c.op = "Remove" -> listing[c.key] # {}

\* A provider may excuse itself from the start, where it cannot list all the
\* records there are (disabled by hand, beyond the first page, lost with a
\* transfer): its listing may then be wrong and its success mean little.  What a
\* call may touch even then is stated in module Providers.  An answer lost in the
\* middle of a call excuses it as a write of others does (Disturb).
Begin(c) ==
    /\ call = NoCall
    /\ disturbed' \in BOOLEAN
    /\ disturbed' \/ Asked(c, listed)
    /\ call' = c
    /\ result' = "none"
    /\ UNCHANGED listed

Work ==
    /\ call # NoCall
    /\ \E vs \in SUBSET (listed[call.key] \cup call.vals) :
           listed' = [listed EXCEPT ![call.key] = vs]
    /\ UNCHANGED <<call, result, disturbed>>

Succeed ==
    /\ call # NoCall
    /\ disturbed \/ listed[call.key] = call.vals
    /\ call' = NoCall
    /\ result' = "ok"
    /\ UNCHANGED <<listed, disturbed>>

\* The call reports an error, or the process ends in the middle of it.
GiveUp ==
    /\ call # NoCall
    /\ call' = NoCall
    /\ result' \in {"err", "none"}
    /\ UNCHANGED <<listed, disturbed>>

Disturb ==
    /\ listed' \in [Keys -> SUBSET Vals]
    /\ disturbed' = TRUE
    /\ UNCHANGED <<call, result>>

Next == (\E c \in Calls : Begin(c)) \/ Work \/ Succeed \/ GiveUp \/ Disturb

Spec == Init /\ [][Next]_vars
===============================================================================
