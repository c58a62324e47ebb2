----------------------------- MODULE ProvidersProofs -----------------------------
(***************************************************************************)
(* Proofs about module Providers: every provider keeps the contract of       *)
(* module ProviderContract, touches no record set but the one its call      *)
(* names, and OVH publishes what it reports as done.                        *)
(*                                                                          *)
(* For each provider the names that its service stores are shown to stand   *)
(* for one name of the zone each, its listing to be the function Values of  *)
(* module ProviderLemmas, and its steps to be among those shown there to    *)
(* keep the contract.  DNSimple and Infoblox see one page and need to know  *)
(* that the zone fits on it; PowerDNS and RFC 2136 write whole record sets; *)
(* Gandi works on a version of its own.                                     *)
(***************************************************************************)
EXTENDS ProviderLemmas, SequenceTheorems

-------------------------------------------------------------------------------
(* Names                                                                    *)

\* A sequence of two or three parts is known by its parts.
LEMMA ByParts ==
    ASSUME NEW S, NEW s \in Seq(S)
    PROVE  /\ Len(s) = 1 => s = <<s[1]>>
           /\ Len(s) = 2 => s = <<s[1], s[2]>>
           /\ Len(s) = 3 => s = <<s[1], s[2], s[3]>>
<1>1. ASSUME Len(s) = 1 PROVE s = <<s[1]>>
  <2>1. s[1] \in S
    BY <1>1, ElementOfSeq
  <2> DEFINE t == <<s[1]>>
  <2>2. t \in Seq(S) /\ Len(t) = 1 /\ t[1] = s[1]
    BY <2>1
  <2> HIDE DEF t
  <2>3. s = t
    BY <1>1, <2>2, SeqEqual
  <2> QED
    BY <2>3 DEF t
<1>2. ASSUME Len(s) = 2 PROVE s = <<s[1], s[2]>>
  <2>1. s[1] \in S /\ s[2] \in S
    BY <1>2, ElementOfSeq
  <2> DEFINE t == <<s[1], s[2]>>
  <2>2. t \in Seq(S) /\ Len(t) = 2 /\ t[1] = s[1] /\ t[2] = s[2]
    BY <2>1
  <2> HIDE DEF t
  <2>3. \A i \in 1..Len(s) : s[i] = t[i]
    BY <1>2, <2>2
  <2>4. s = t
    BY <1>2, <2>2, <2>3, SeqEqual
  <2> QED
    BY <2>4 DEF t
<1>3. ASSUME Len(s) = 3 PROVE s = <<s[1], s[2], s[3]>>
  <2>1. s[1] \in S /\ s[2] \in S /\ s[3] \in S
    <3>1. 1 \in 1..Len(s) /\ 2 \in 1..Len(s) /\ 3 \in 1..Len(s)
      BY <1>3
    <3> QED
      BY <3>1, ElementOfSeq
  <2> DEFINE t == <<s[1], s[2], s[3]>>
  <2>2. t \in Seq(S) /\ Len(t) = 3 /\ t[1] = s[1] /\ t[2] = s[2] /\ t[3] = s[3]
    BY <2>1
  <2> HIDE DEF t
  <2>3. \A i \in 1..Len(s) : s[i] = t[i]
    BY <1>3, <2>2
  <2>4. s = t
    BY <1>3, <2>2, <2>3, SeqEqual
  <2> QED
    BY <2>4 DEF t
<1> QED
  BY <1>1, <1>2, <1>3

\* Names put together from their parts, and without their last part.
LEMMA Parts ==
    ASSUME NEW l
    PROVE  /\ <<l>> \o Root = <<l, "root">>
           /\ <<l, "root">> \o Dot = <<l, "root", ".">>
           /\ Root \o Dot = <<"root", ".">>
           /\ SubSeq(<<l, "root", ".">>, 1, 2) = <<l, "root">>
           /\ SubSeq(<<"root", ".">>, 1, 1) = <<"root">>
<1> DEFINE S == {l, "root", "."}
<1>1. /\ <<l>> \in Seq(S) /\ <<"root">> \in Seq(S) /\ <<".">> \in Seq(S)
      /\ <<l, "root">> \in Seq(S)
  OBVIOUS
<1>2. ASSUME NEW a \in S, NEW b \in S PROVE <<a>> \o <<b>> = <<a, b>>
  <2> DEFINE s == <<a>>
             t == <<b>>
  <2>1. s \in Seq(S) /\ t \in Seq(S) /\ Len(s) = 1 /\ Len(t) = 1 /\ s[1] = a /\ t[1] = b
    OBVIOUS
  <2> HIDE DEF s, t, S
  <2>2. s \o t \in Seq(S) /\ Len(s \o t) = 2 /\ (s \o t)[1] = a /\ (s \o t)[2] = b
    BY <2>1, ConcatProperties
  <2>3. s \o t = <<a, b>>
    BY <2>2, ByParts
  <2> QED
    BY <2>3 DEF s, t
<1>3. <<l, "root">> \o <<".">> = <<l, "root", ".">>
  <2> DEFINE s == <<l, "root">>
             t == <<".">>
  <2>1. s \in Seq(S) /\ t \in Seq(S) /\ Len(s) = 2 /\ Len(t) = 1 /\ s[1] = l /\ s[2] = "root" /\ t[1] = "."
    OBVIOUS
  <2> HIDE DEF s, t, S
  <2>2. /\ s \o t \in Seq(S) /\ Len(s \o t) = 3
        /\ (s \o t)[1] = l /\ (s \o t)[2] = "root" /\ (s \o t)[3] = "."
    BY <2>1, ConcatProperties
  <2>3. s \o t = <<l, "root", ".">>
    BY <2>2, ByParts
  <2> QED
    BY <2>3 DEF s, t
<1>4. SubSeq(<<l, "root", ".">>, 1, 2) = <<l, "root">>
  <2> DEFINE s == <<l, "root", ".">>
  <2>1. s[1] = l /\ s[2] = "root" /\ \A i \in 1..2 : s[i] \in S
    OBVIOUS
  <2> HIDE DEF s, S
  <2>2. /\ SubSeq(s, 1, 2) \in Seq(S) /\ Len(SubSeq(s, 1, 2)) = 2
        /\ SubSeq(s, 1, 2)[1] = l /\ SubSeq(s, 1, 2)[2] = "root"
    BY <2>1, SubSeqProperties
  <2>3. SubSeq(s, 1, 2) = <<l, "root">>
    BY <2>2, ByParts
  <2> QED
    BY <2>3 DEF s
<1>5. SubSeq(<<"root", ".">>, 1, 1) = <<"root">>
  <2> DEFINE s == <<"root", ".">>
  <2>1. s[1] = "root" /\ \A i \in 1..1 : s[i] \in S
    OBVIOUS
  <2> HIDE DEF s, S
  <2>2. SubSeq(s, 1, 1) \in Seq(S) /\ Len(SubSeq(s, 1, 1)) = 1 /\ SubSeq(s, 1, 1)[1] = "root"
    BY <2>1, SubSeqProperties
  <2>3. SubSeq(s, 1, 1) = <<"root">>
    BY <2>2, ByParts
  <2> QED
    BY <2>3 DEF s
<1> QED
  BY <1>2, <1>3, <1>4, <1>5 DEF Root, Dot

\* Fqdn and UnFqdn on the names of the zone.
LEMMA Dots ==
    ASSUME NEW l
    PROVE  /\ <<l>> \o Root \o Dot = <<l, "root", ".">>
           /\ UnFqdn(<<l, "root", ".">>) = <<l, "root">>
           /\ UnFqdn(<<"root", ".">>) = <<"root">>
           /\ Fqdn(<<l, "root">>) = <<l, "root", ".">>
           /\ Fqdn(<<"root">>) = <<"root", ".">>
           /\ Fqdn(<<l, "root", ".">>) = <<l, "root", ".">>
           /\ Fqdn(<<"root", ".">>) = <<"root", ".">>
<1>1. /\ <<l, "root", ".">> # <<>> /\ Len(<<l, "root", ".">>) = 3 /\ <<l, "root", ".">>[3] = "."
      /\ <<l, "root">> # <<>> /\ Len(<<l, "root">>) = 2 /\ <<l, "root">>[2] # "."
      /\ <<"root">> # <<>> /\ Len(<<"root">>) = 1 /\ <<"root">>[1] # "."
      /\ <<"root", ".">> # <<>> /\ Len(<<"root", ".">>) = 2 /\ <<"root", ".">>[2] = "."
  OBVIOUS
<1>2. <<l>> \o Root \o Dot = <<l, "root", ".">>
  BY Parts
<1>3. UnFqdn(<<l, "root", ".">>) = <<l, "root">> /\ UnFqdn(<<"root", ".">>) = <<"root">>
  <2>1. UnFqdn(<<l, "root", ".">>) = SubSeq(<<l, "root", ".">>, 1, 2)
    BY <1>1 DEF UnFqdn
  <2>2. UnFqdn(<<"root", ".">>) = SubSeq(<<"root", ".">>, 1, 1)
    BY <1>1 DEF UnFqdn
  <2> QED
    BY <2>1, <2>2, Parts
<1>4. Fqdn(<<l, "root">>) = <<l, "root", ".">> /\ Fqdn(<<"root">>) = <<"root", ".">>
  BY <1>1, Parts DEF Fqdn, Root
<1>5. Fqdn(<<l, "root", ".">>) = <<l, "root", ".">> /\ Fqdn(<<"root", ".">>) = <<"root", ".">>
  BY <1>1 DEF Fqdn
<1> QED
  BY <1>2, <1>3, <1>4, <1>5

\* The names of the zone: those with a label, and the zone itself.
LEMMA Names ==
    /\ Managed = {<<l, "root", ".">> : l \in Labels}
    /\ Fqdns = Managed \cup {<<"root", ".">>}
    /\ <<"root", ".">> \notin Managed
<1>1. Managed = {<<l, "root", ".">> : l \in Labels}
  BY Dots DEF Managed
<1> QED
  BY <1>1, Parts DEF Fqdns

\* Managed names and their labels.
LEMMA Labelled ==
    /\ \A l \in Labels : <<l, "root", ".">> \in Managed
    /\ \A l \in Labels : Relative(<<l, "root", ".">>) = <<l>>
    /\ \A f \in Managed : \E l \in Labels : f = <<l, "root", ".">> /\ f[1] = l
    /\ \A l \in Labels : <<l>> # <<"@">> /\ <<l>> # <<>>
<1>1. \A l \in Labels : <<l, "root", ".">> \in Managed
  BY Names
<1>2. \A l \in Labels : Relative(<<l, "root", ".">>) = <<l>>
  BY <1>1 DEF Relative
<1>3. \A f \in Managed : \E l \in Labels : f = <<l, "root", ".">> /\ f[1] = l
  BY Names
<1>4. \A l \in Labels : <<l>> # <<"@">> /\ <<l>> # <<>>
  BY ValueAssumption
<1> QED
  BY <1>1, <1>2, <1>3, <1>4

-------------------------------------------------------------------------------
(* Cloudflare                                                               *)

CFRecords == [name : CF!ApiNames, type : Types, val : Vals, ttl : Nat]
CFKey == [r \in CFRecords |-> <<Fqdn(r.name), r.type>>]

\* The names that Cloudflare stores are those of the zone without the dot.
LEMMA CFNaming ==
    /\ Keyed(CFRecords, CFKey)
    /\ CF!ApiRecords \subseteq CFRecords
    /\ \A k \in Managed \X Types : \A r \in CFRecords :
           CFKey[r] = k <=> r.name = UnFqdn(k[1]) /\ r.type = k[2]
    /\ \A k \in Managed \X Types : UnFqdn(k[1]) \in CF!ApiNames
<1>1. CF!ApiNames = {UnFqdn(f) : f \in Fqdns}
  BY DEF CF!ApiNames, CF!Fqdns, Fqdns, CF!Managed, Managed, CF!UnFqdn, UnFqdn, CF!Root, Root, CF!Dot, Dot
<1>2. \A f \in Fqdns : Fqdn(UnFqdn(f)) = f
  BY Names, Dots
<1>3. \A f \in Fqdns : UnFqdn(f) \in CF!ApiNames
  BY <1>1
<1>4. \A n \in CF!ApiNames : Fqdn(n) \in Fqdns /\ UnFqdn(Fqdn(n)) = n
  BY <1>1, <1>2
<1>5. Managed \subseteq Fqdns
  BY Names
<1>6. Keyed(CFRecords, CFKey)
  BY <1>4 DEF Keyed, CFRecords, CFKey, Keys
<1>7. CF!ApiRecords \subseteq CFRecords
  BY ValueAssumption DEF CF!ApiRecords, CF!Records, CFRecords
<1>8. ASSUME NEW k \in Managed \X Types, NEW r \in CFRecords
      PROVE  CFKey[r] = k <=> r.name = UnFqdn(k[1]) /\ r.type = k[2]
  <2>1. CFKey[r] = <<Fqdn(r.name), r.type>> /\ r.name \in CF!ApiNames
    BY DEF CFKey, CFRecords
  <2>2. k = <<k[1], k[2]>> /\ k[1] \in Fqdns
    BY <1>5
  <2> QED
    BY <1>2, <1>4, <2>1, <2>2
<1> QED
  BY <1>3, <1>5, <1>6, <1>7, <1>8

\* What Cloudflare lists.
LEMMA CFListing ==
    ASSUME NEW z \in SUBSET CFRecords
    PROVE  CF!Listing(z, CF!Fqdn) = Values(z, CFKey)
<1>1. CF!Keys = Keys
  BY DEF CF!Keys, Keys, CF!Fqdns, Fqdns, CF!Managed, Managed, CF!Root, Root, CF!Dot, Dot
<1>2. ASSUME NEW k \in Keys
      PROVE  {s \in z : <<CF!Fqdn(s.name), s.type>> = k} = {s \in z : CFKey[s] = k}
  BY DEF CFKey, CF!Fqdn, Fqdn, CF!Dot, Dot
<1> QED
  BY <1>1, <1>2 DEF CF!Listing, Values

\* Every step of Cloudflare is one of those that keep the contract.
LEMMA CFSteps ==
    ASSUME provider = "cloudflare", UNCHANGED provider,
           CallInv, ZoneInv(CFRecords, CFKey), CF!Next
    PROVE  /\ Stored = Values(zone, CFKey)
           /\ zone' \in SUBSET CFRecords => Stored' = Values(zone', CFKey)
           /\ Steps(CFRecords, CFKey)
<1> USE CFNaming
<1>1. zone \in SUBSET CFRecords
  BY DEF ZoneInv
<1>2. Stored = CF!GetRecords /\ Stored = Values(zone, CFKey)
  BY <1>1, CFListing DEF Stored, CF!GetRecords
<1>3. zone' \in SUBSET CFRecords => Stored' = Values(zone', CFKey)
  <2>1. Stored' = CF!Listing(zone', CF!Fqdn)
    BY DEF Stored, CF!GetRecords
  <2> QED
    BY <2>1, CFListing
<1>4. ASSUME pc # "idle" PROVE call \in Requests /\ call.key \in Managed \X Types
  BY <1>4 DEF CallInv, Requests
<1>5. CASE CF!Begin(CF!GetRecords, {})
  <2>1. Begin(Stored, {})
    BY <1>2, <1>5 DEF CF!Begin, Begin, CF!Managed, Managed, CF!Root, Root, CF!Dot, Dot
  <2> QED
    BY <1>2, <1>3, <2>1, BeginMeans DEF Steps
<1>6. CASE CF!Creating(CF!PrepareRecord)
  <2>1. PICK v, r :
            /\ v \in missing
            /\ pc = "create"
            /\ r = CF!PrepareRecord(v)
            /\ zone' = zone \cup {r}
            /\ missing' = missing \ {v}
            /\ UNCHANGED <<call, pc, doomed, result, disturbed>>
    BY <1>6 DEF CF!Creating, CF!Create
  <2>2. v \in Vals /\ call.key \in Managed \X Types
    BY <1>4, <2>1, RequestFacts DEF CallInv
  <2>3. r = [name |-> UnFqdn(call.key[1]), type |-> call.key[2], val |-> v,
             ttl |-> CF!SanitizeTTL(TTL)]
    BY <2>1 DEF CF!PrepareRecord, CF!CallKey, CF!UnFqdn, UnFqdn
  <2>4. CF!SanitizeTTL(TTL) \in Nat
    BY ValueAssumption DEF CF!SanitizeTTL
  <2>5. r \in CFRecords /\ r.name = UnFqdn(call.key[1]) /\ r.type = call.key[2] /\ r.val = v
    BY <2>2, <2>3, <2>4 DEF CFRecords
  <2>6. CFKey[r] = call.key
    BY <2>2, <2>5
  <2> QED
    BY <1>2, <1>3, <2>1, <2>5, <2>6, CreateOne
<1>7. CASE CF!Created \/ CF!UpdateRecord \/ CF!Deleting \/ CF!Removed \/ CF!RequestFails \/ CF!Crash
  BY <1>2, <1>3, <1>7
     DEF Steps, CF!Created, Created, CF!UpdateRecord, CF!ThenAdd, ThenAdd, CF!Deleting, Deleting,
         CF!Removed, Removed, CF!RequestFails, RequestFails, CF!Crash, Crash, CF!Return, Return,
         CF!NoCall, NoCall
<1>8. CASE pc = "find" /\ \E found \in CF!Paged(CF!FindRecords) : CF!Finding(found)
  <2>1. PICK found \in CF!Paged(CF!FindRecords) : Finding(found)
    BY <1>8 DEF CF!Finding, Finding
  <2>2. CF!FindRecords = {r \in zone : r.name = UnFqdn(call.key[1]) /\ r.type = call.key[2]}
    BY DEF CF!FindRecords, CF!CallKey, CF!UnFqdn, UnFqdn
  <2>3. CF!FindRecords = {r \in zone : CFKey[r] = call.key}
    BY <1>1, <1>4, <1>8, <2>2
  <2>4. found \subseteq CF!FindRecords /\ (~disturbed => found = CF!FindRecords)
    BY <2>1 DEF CF!Paged
  <2> QED
    BY <1>2, <1>3, <2>1, <2>3, <2>4, FindMatching
<1>9. CASE CF!Disturb(CF!ApiRecords)
  BY <1>1, <1>2, <1>3, <1>9 DEF CF!Disturb, Disturbed, Steps
<1> QED
  BY <1>5, <1>6, <1>7, <1>8, <1>9 DEF CF!Next, CF!AddRecord, CF!RemoveRecord

-------------------------------------------------------------------------------
(* DigitalOcean                                                             *)

DORecords == [name : DO!ApiNames, type : Types, val : Vals, ttl : Nat]
DOKey == [r \in DORecords |-> <<DO!NameToFqdn(r.name), r.type>>]

\* DigitalOcean stores labels, and "@" for the zone itself.
LEMMA DONaming ==
    /\ Keyed(DORecords, DOKey)
    /\ DO!ApiRecords \subseteq DORecords
    /\ \A k \in Managed \X Types : \A r \in DORecords :
           DOKey[r] = k <=> r.name = <<k[1][1]>> /\ r.type = k[2]
    /\ \A k \in Managed \X Types : <<k[1][1]>> \in DO!ApiNames
<1>1. DO!ApiNames = {<<l>> : l \in Labels} \cup {<<"@">>}
  BY DEF DO!ApiNames, DO!At
<1>2. \A l \in Labels : DO!NameToFqdn(<<l>>) = <<l, "root", ".">>
  <2> TAKE l \in Labels
  <2>1. DO!NameToFqdn(<<l>>) = Fqdn(<<l>> \o Root)
    BY Labelled DEF DO!NameToFqdn, DO!At, DO!Fqdn, Fqdn, DO!Root, Root, DO!Dot, Dot
  <2> QED
    BY <2>1, Parts, Dots
<1>3. DO!NameToFqdn(<<"@">>) = <<"root", ".">>
  <2>1. DO!NameToFqdn(<<"@">>) = Fqdn(Root)
    BY DEF DO!NameToFqdn, DO!At, DO!Fqdn, Fqdn, DO!Root, Root, DO!Dot, Dot
  <2> QED
    BY <2>1, Dots DEF Root
<1>4. \A n \in DO!ApiNames : DO!NameToFqdn(n) \in Fqdns
  BY <1>1, <1>2, <1>3, Names, Labelled
<1>5. ASSUME NEW f \in Managed
      PROVE  <<f[1]>> \in DO!ApiNames /\ \A n \in DO!ApiNames : DO!NameToFqdn(n) = f <=> n = <<f[1]>>
  <2>1. PICK l \in Labels : f = <<l, "root", ".">> /\ f[1] = l
    BY Labelled
  <2> QED
    BY <1>1, <1>2, <1>3, <2>1, Labelled, Dots
<1>6. Keyed(DORecords, DOKey)
  BY <1>4 DEF Keyed, DORecords, DOKey, Keys
<1>7. DO!ApiRecords \subseteq DORecords
  BY ValueAssumption DEF DO!ApiRecords, DO!Records, DORecords
<1>8. ASSUME NEW k \in Managed \X Types, NEW r \in DORecords
      PROVE  DOKey[r] = k <=> r.name = <<k[1][1]>> /\ r.type = k[2]
  <2>1. DOKey[r] = <<DO!NameToFqdn(r.name), r.type>> /\ r.name \in DO!ApiNames
    BY DEF DOKey, DORecords
  <2>2. k = <<k[1], k[2]>> /\ k[1] \in Managed
    OBVIOUS
  <2>3. DO!NameToFqdn(r.name) = k[1] <=> r.name = <<k[1][1]>>
    BY <1>5, <2>1, <2>2
  <2> QED
    BY <2>1, <2>2, <2>3
<1> QED
  BY <1>5, <1>6, <1>7, <1>8

\* What the provider lists.
LEMMA DOListing ==
    ASSUME NEW z \in SUBSET DORecords
    PROVE  DO!Listing(z, DO!NameToFqdn) = Values(z, DOKey)
<1>1. DO!Keys = Keys
  BY DEF DO!Keys, Keys, DO!Fqdns, Fqdns, DO!Managed, Managed, DO!Root, Root, DO!Dot, Dot
<1>2. ASSUME NEW k \in Keys
      PROVE  {s \in z : <<DO!NameToFqdn(s.name), s.type>> = k} = {s \in z : DOKey[s] = k}
  BY DEF DOKey
<1> QED
  BY <1>1, <1>2 DEF DO!Listing, Values

\* Every step of the provider is one of those that keep the contract.
LEMMA DOSteps ==
    ASSUME provider = "digitalocean", UNCHANGED provider,
           CallInv, ZoneInv(DORecords, DOKey), DO!Next
    PROVE  /\ Stored = Values(zone, DOKey)
           /\ zone' \in SUBSET DORecords => Stored' = Values(zone', DOKey)
           /\ Steps(DORecords, DOKey)
<1> USE DONaming
<1>1. zone \in SUBSET DORecords
  BY DEF ZoneInv
<1>2. Stored = DO!GetRecords /\ Stored = Values(zone, DOKey)
  BY <1>1, DOListing DEF Stored, DO!GetRecords
<1>3. zone' \in SUBSET DORecords => Stored' = Values(zone', DOKey)
  <2>1. Stored' = DO!Listing(zone', DO!NameToFqdn)
    BY DEF Stored, DO!GetRecords
  <2> QED
    BY <2>1, DOListing
<1>4. ASSUME pc # "idle" PROVE call \in Requests /\ call.key \in Managed \X Types
  BY <1>4 DEF CallInv, Requests
<1>5. CASE DO!Begin(DO!GetRecords, {})
  <2>1. Begin(Stored, {})
    BY <1>2, <1>5 DEF DO!Begin, Begin, DO!Managed, Managed, DO!Root, Root, DO!Dot, Dot
  <2> QED
    BY <1>2, <1>3, <2>1, BeginMeans DEF Steps
<1>6. CASE DO!Creating(LAMBDA v : [name |-> DO!StoredName(DO!CallKey.fqdn), type |-> DO!CallKey.type,
                                   val |-> v, ttl |-> TTL])
  <2>1. PICK v, r :
            /\ v \in missing
            /\ pc = "create"
            /\ r = [name |-> <<call.key[1][1]>>, type |-> call.key[2], val |-> v, ttl |-> TTL]
            /\ zone' = zone \cup {r}
            /\ missing' = missing \ {v}
            /\ UNCHANGED <<call, pc, doomed, result, disturbed>>
    <3>1. PICK v \in missing :
              /\ pc = "create"
              /\ zone' = zone \cup {[name |-> DO!StoredName(call.key[1]), type |-> call.key[2],
                                      val |-> v, ttl |-> TTL]}
              /\ missing' = missing \ {v}
              /\ UNCHANGED <<call, pc, doomed, result, disturbed>>
      BY <1>6 DEF DO!Creating, DO!Create, DO!CallKey
    <3>2. DO!StoredName(call.key[1]) = <<call.key[1][1]>>
      BY <1>4, <3>1 DEF DO!StoredName, DO!Managed, Managed, DO!Root, Root, DO!Dot, Dot
    <3> QED
      BY <3>1, <3>2
  <2>2. v \in Vals /\ call.key \in Managed \X Types
    BY <1>4, <2>1, RequestFacts DEF CallInv
  <2>3. r \in DORecords /\ r.name = <<call.key[1][1]>> /\ r.type = call.key[2] /\ r.val = v
    BY <2>1, <2>2, ValueAssumption DEF DORecords
  <2>4. DOKey[r] = call.key
    BY <2>2, <2>3
  <2> QED
    BY <1>2, <1>3, <2>1, <2>3, <2>4, CreateOne
<1>7. CASE DO!Created \/ DO!ThenAdd \/ DO!Deleting \/ DO!Removed \/ DO!RequestFails \/ DO!Crash
  BY <1>2, <1>3, <1>7
     DEF Steps, DO!Created, Created, DO!ThenAdd, ThenAdd, DO!Deleting, Deleting,
         DO!Removed, Removed, DO!RequestFails, RequestFails, DO!Crash, Crash, DO!Return, Return,
         DO!NoCall, NoCall
<1>8. CASE pc = "find" /\ \E all \in DO!FetchDoRecords : DO!Finding(DO!Matching(all))
  <2>1. PICK all \in DO!FetchDoRecords : Finding(DO!Matching(all))
    BY <1>8 DEF DO!Finding, Finding
  <2>2. DO!Matching(all) = {r \in all : DOKey[r] = call.key}
    <3>1. all \subseteq zone
      BY <2>1 DEF DO!FetchDoRecords, DO!Matching, DO!Paged
    <3> QED
      BY <1>1, <1>4, <1>8, <3>1 DEF DO!FetchDoRecords, DO!Matching, DO!CallKey, DOKey, Relative
  <2>3. all \subseteq zone /\ (~disturbed => all = zone)
    BY <2>1 DEF DO!FetchDoRecords, DO!Matching, DO!Paged
  <2>4. PICK found : found = DO!Matching(all)
    OBVIOUS
  <2> QED
    BY <1>2, <1>3, <2>1, <2>2, <2>3, <2>4, FindMatching
<1>9. CASE DO!Disturb(DO!ApiRecords)
  BY <1>1, <1>2, <1>3, <1>9 DEF DO!Disturb, Disturbed, Steps
<1> QED
  BY <1>5, <1>6, <1>7, <1>8, <1>9 DEF DO!Next, DO!AddRecord, DO!UpdateRecord, DO!RemoveRecord

-------------------------------------------------------------------------------
(* AliDNS                                                                   *)

ALRecords == [name : AL!ApiNames, type : Types, val : Vals, ttl : Nat]
ALKey == [r \in ALRecords |-> <<AL!ListedName(r.name), r.type>>]

\* AliDNS stores labels, and "@" for the zone itself.
LEMMA ALNaming ==
    /\ Keyed(ALRecords, ALKey)
    /\ AL!ApiRecords \subseteq ALRecords
    /\ \A k \in Managed \X Types : \A r \in ALRecords :
           ALKey[r] = k <=> r.name = <<k[1][1]>> /\ r.type = k[2]
    /\ \A k \in Managed \X Types : <<k[1][1]>> \in AL!ApiNames
<1>1. AL!ApiNames = {<<l>> : l \in Labels} \cup {<<"@">>}
  BY DEF AL!ApiNames, AL!At
<1>2. \A l \in Labels : AL!ListedName(<<l>>) = <<l, "root", ".">>
  BY Labelled, Dots DEF AL!ListedName, AL!At, AL!Root, Root, AL!Dot, Dot
<1>3. AL!ListedName(<<"@">>) = <<"root", ".">>
  BY Parts DEF AL!ListedName, AL!At, AL!Root, Root, AL!Dot, Dot
<1>4. \A n \in AL!ApiNames : AL!ListedName(n) \in Fqdns
  BY <1>1, <1>2, <1>3, Names, Labelled
<1>5. ASSUME NEW f \in Managed
      PROVE  <<f[1]>> \in AL!ApiNames /\ \A n \in AL!ApiNames : AL!ListedName(n) = f <=> n = <<f[1]>>
  <2>1. PICK l \in Labels : f = <<l, "root", ".">> /\ f[1] = l
    BY Labelled
  <2> QED
    BY <1>1, <1>2, <1>3, <2>1, Labelled, Dots
<1>6. Keyed(ALRecords, ALKey)
  BY <1>4 DEF Keyed, ALRecords, ALKey, Keys
<1>7. AL!ApiRecords \subseteq ALRecords
  BY ValueAssumption DEF AL!ApiRecords, AL!Records, ALRecords
<1>8. ASSUME NEW k \in Managed \X Types, NEW r \in ALRecords
      PROVE  ALKey[r] = k <=> r.name = <<k[1][1]>> /\ r.type = k[2]
  <2>1. ALKey[r] = <<AL!ListedName(r.name), r.type>> /\ r.name \in AL!ApiNames
    BY DEF ALKey, ALRecords
  <2>2. k = <<k[1], k[2]>> /\ k[1] \in Managed
    OBVIOUS
  <2>3. AL!ListedName(r.name) = k[1] <=> r.name = <<k[1][1]>>
    BY <1>5, <2>1, <2>2
  <2> QED
    BY <2>1, <2>2, <2>3
<1> QED
  BY <1>5, <1>6, <1>7, <1>8

\* What the provider lists.
LEMMA ALListing ==
    ASSUME NEW z \in SUBSET ALRecords
    PROVE  AL!Listing(z, AL!ListedName) = Values(z, ALKey)
<1>1. AL!Keys = Keys
  BY DEF AL!Keys, Keys, AL!Fqdns, Fqdns, AL!Managed, Managed, AL!Root, Root, AL!Dot, Dot
<1>2. ASSUME NEW k \in Keys
      PROVE  {s \in z : <<AL!ListedName(s.name), s.type>> = k} = {s \in z : ALKey[s] = k}
  BY DEF ALKey
<1> QED
  BY <1>1, <1>2 DEF AL!Listing, Values

\* parseName of a managed name.
LEMMA ALParseName == \A f \in Managed : AL!ParseName(f) = <<f[1]>>
<1> SUFFICES ASSUME NEW f \in Managed PROVE AL!ParseName(f) = <<f[1]>>
  OBVIOUS
<1>1. f # Root \o Dot
  BY Names, Parts
<1> QED
  BY <1>1 DEF AL!ParseName, AL!Relative, AL!Managed, Managed, AL!Root, Root, AL!Dot, Dot

\* Every step of the provider is one of those that keep the contract.
LEMMA ALSteps ==
    ASSUME provider = "alidns", UNCHANGED provider,
           CallInv, ZoneInv(ALRecords, ALKey), AL!Next
    PROVE  /\ Stored = Values(zone, ALKey)
           /\ zone' \in SUBSET ALRecords => Stored' = Values(zone', ALKey)
           /\ Steps(ALRecords, ALKey)
<1> USE ALNaming
<1>1. zone \in SUBSET ALRecords
  BY DEF ZoneInv
<1>2. Stored = AL!GetRecords /\ Stored = Values(zone, ALKey)
  BY <1>1, ALListing DEF Stored, AL!GetRecords
<1>3. zone' \in SUBSET ALRecords => Stored' = Values(zone', ALKey)
  <2>1. Stored' = AL!Listing(zone', AL!ListedName)
    BY DEF Stored, AL!GetRecords
  <2> QED
    BY <2>1, ALListing
<1>4. ASSUME pc # "idle" PROVE call \in Requests /\ call.key \in Managed \X Types
  BY <1>4 DEF CallInv, Requests
<1>5. CASE AL!Begin(AL!GetRecords, {})
  <2>1. Begin(Stored, {})
    BY <1>2, <1>5 DEF AL!Begin, Begin, AL!Managed, Managed, AL!Root, Root, AL!Dot, Dot
  <2> QED
    BY <1>2, <1>3, <2>1, BeginMeans DEF Steps
<1>6. CASE AL!Creating(AL!PrepareRecord)
  <2>1. PICK v, r :
            /\ v \in missing
            /\ pc = "create"
            /\ r = [name |-> <<call.key[1][1]>>, type |-> call.key[2], val |-> v, ttl |-> TTL]
            /\ zone' = zone \cup {r}
            /\ missing' = missing \ {v}
            /\ UNCHANGED <<call, pc, doomed, result, disturbed>>
    <3>1. PICK v \in missing :
              /\ pc = "create"
              /\ zone' = zone \cup {[name |-> AL!ParseName(call.key[1]), type |-> call.key[2],
                                      val |-> v, ttl |-> TTL]}
              /\ missing' = missing \ {v}
              /\ UNCHANGED <<call, pc, doomed, result, disturbed>>
      BY <1>6 DEF AL!Creating, AL!Create, AL!CallKey, AL!PrepareRecord
    <3> QED
      BY <1>4, <3>1, ALParseName
  <2>2. v \in Vals /\ call.key \in Managed \X Types
    BY <1>4, <2>1, RequestFacts DEF CallInv
  <2>3. r \in ALRecords /\ r.name = <<call.key[1][1]>> /\ r.type = call.key[2] /\ r.val = v
    BY <2>1, <2>2, ValueAssumption DEF ALRecords
  <2>4. ALKey[r] = call.key
    BY <2>2, <2>3
  <2> QED
    BY <1>2, <1>3, <2>1, <2>3, <2>4, CreateOne
<1>7. CASE AL!Created \/ AL!ThenAdd \/ AL!Deleting \/ AL!Removed \/ AL!RequestFails \/ AL!Crash
  BY <1>2, <1>3, <1>7
     DEF Steps, AL!Created, Created, AL!ThenAdd, ThenAdd, AL!Deleting, Deleting,
         AL!Removed, Removed, AL!RequestFails, RequestFails, AL!Crash, Crash, AL!Return, Return,
         AL!NoCall, NoCall
<1>8. CASE pc = "find" /\ \E all \in AL!ListRecords : AL!Finding(AL!FindRecords(all))
  <2>1. PICK all \in AL!ListRecords : Finding(AL!FindRecords(all))
    BY <1>8 DEF AL!Finding, Finding
  <2>2. AL!FindRecords(all) = {r \in all : ALKey[r] = call.key}
    <3>1. all \subseteq zone
      BY <2>1 DEF AL!ListRecords, AL!Paged
    <3> QED
      BY <1>1, <1>4, <1>8, <3>1, ALParseName DEF AL!FindRecords, AL!CallKey
  <2>3. all \subseteq zone /\ (~disturbed => all = zone)
    BY <2>1 DEF AL!ListRecords, AL!Paged
  <2>4. PICK found : found = AL!FindRecords(all)
    OBVIOUS
  <2> QED
    BY <1>2, <1>3, <2>1, <2>2, <2>3, <2>4, FindMatching
<1>9. CASE AL!Disturb(AL!ApiRecords)
  BY <1>1, <1>2, <1>3, <1>9 DEF AL!Disturb, Disturbed, Steps
<1> QED
  BY <1>5, <1>6, <1>7, <1>8, <1>9 DEF AL!Next, AL!AddRecord, AL!UpdateRecord, AL!RemoveRecord

-------------------------------------------------------------------------------
(* OVH                                                                      *)

OVRecords == [name : OV!ApiNames, type : Types, val : Vals, ttl : Nat]
OVKey == [r \in OVRecords |-> <<OV!ListedName(r.name), r.type>>]

\* OVH stores labels, and the empty name for the zone itself.
LEMMA OVNaming ==
    /\ Keyed(OVRecords, OVKey)
    /\ OV!ApiRecords \subseteq OVRecords
    /\ \A k \in Managed \X Types : \A r \in OVRecords :
           OVKey[r] = k <=> r.name = <<k[1][1]>> /\ r.type = k[2]
    /\ \A k \in Managed \X Types : <<k[1][1]>> \in OV!ApiNames
<1>1. OV!ApiNames = {<<l>> : l \in Labels} \cup {<<>>}
  BY DEF OV!ApiNames
<1>2. \A l \in Labels : OV!ListedName(<<l>>) = <<l, "root", ".">>
  BY Labelled, Dots DEF OV!ListedName, OV!Root, Root, OV!Dot, Dot
<1>3. OV!ListedName(<<>>) = <<"root", ".">>
  <2>1. <<"root">> \in Seq({"root"})
    OBVIOUS
  <2>2. <<>> \o <<"root">> = <<"root">>
    BY <2>1, ConcatEmptySeq
  <2> QED
    BY <2>2, Parts DEF OV!ListedName, OV!Root, Root, OV!Dot, Dot
<1>4. \A n \in OV!ApiNames : OV!ListedName(n) \in Fqdns
  BY <1>1, <1>2, <1>3, Names, Labelled
<1>5. ASSUME NEW f \in Managed
      PROVE  <<f[1]>> \in OV!ApiNames /\ \A n \in OV!ApiNames : OV!ListedName(n) = f <=> n = <<f[1]>>
  <2>1. PICK l \in Labels : f = <<l, "root", ".">> /\ f[1] = l
    BY Labelled
  <2> QED
    BY <1>1, <1>2, <1>3, <2>1, Labelled, Dots
<1>6. Keyed(OVRecords, OVKey)
  BY <1>4 DEF Keyed, OVRecords, OVKey, Keys
<1>7. OV!ApiRecords \subseteq OVRecords
  BY ValueAssumption DEF OV!ApiRecords, OV!Records, OVRecords
<1>8. ASSUME NEW k \in Managed \X Types, NEW r \in OVRecords
      PROVE  OVKey[r] = k <=> r.name = <<k[1][1]>> /\ r.type = k[2]
  <2>1. OVKey[r] = <<OV!ListedName(r.name), r.type>> /\ r.name \in OV!ApiNames
    BY DEF OVKey, OVRecords
  <2>2. k = <<k[1], k[2]>> /\ k[1] \in Managed
    OBVIOUS
  <2>3. OV!ListedName(r.name) = k[1] <=> r.name = <<k[1][1]>>
    BY <1>5, <2>1, <2>2
  <2> QED
    BY <2>1, <2>2, <2>3
<1> QED
  BY <1>5, <1>6, <1>7, <1>8

\* What the provider lists.
LEMMA OVListing ==
    ASSUME NEW z \in SUBSET OVRecords
    PROVE  OV!Listing(z, OV!ListedName) = Values(z, OVKey)
<1>1. OV!Keys = Keys
  BY DEF OV!Keys, Keys, OV!Fqdns, Fqdns, OV!Managed, Managed, OV!Root, Root, OV!Dot, Dot
<1>2. ASSUME NEW k \in Keys
      PROVE  {s \in z : <<OV!ListedName(s.name), s.type>> = k} = {s \in z : OVKey[s] = k}
  BY DEF OVKey
<1> QED
  BY <1>1, <1>2 DEF OV!Listing, Values

\* parseName of a managed name.
LEMMA OVParseName == \A f \in Managed : OV!Relative(f) = <<f[1]>>
BY DEF OV!Relative, OV!Managed, Managed, OV!Root, Root, OV!Dot, Dot

\* Every step of the provider is one of those that keep the contract.
LEMMA OVSteps ==
    ASSUME provider = "ovh", UNCHANGED provider,
           CallInv, ZoneInv(OVRecords, OVKey), OV!Next
    PROVE  /\ Stored = Values(zone, OVKey)
           /\ zone' \in SUBSET OVRecords => Stored' = Values(zone', OVKey)
           /\ Steps(OVRecords, OVKey)
<1> USE OVNaming
<1>1. zone \in SUBSET OVRecords
  BY DEF ZoneInv
<1>2. Stored = OV!GetRecords /\ Stored = Values(zone, OVKey)
  BY <1>1, OVListing DEF Stored, OV!GetRecords
<1>3. zone' \in SUBSET OVRecords => Stored' = Values(zone', OVKey)
  <2>1. Stored' = OV!Listing(zone', OV!ListedName)
    BY DEF Stored, OV!GetRecords
  <2> QED
    BY <2>1, OVListing
<1>4. ASSUME pc # "idle" PROVE call \in Requests /\ call.key \in Managed \X Types
  BY <1>4 DEF CallInv, Requests
<1>5. CASE OV!Begin(OV!GetRecords, {})
  <2>1. Begin(Stored, {})
    BY <1>2, <1>5 DEF OV!Begin, Begin, OV!Managed, Managed, OV!Root, Root, OV!Dot, Dot
  <2> QED
    BY <1>2, <1>3, <2>1, BeginMeans DEF Steps
<1>6. CASE OV!Creating(OV!PrepareRecord)
  <2>1. PICK v, r :
            /\ v \in missing
            /\ pc = "create"
            /\ r = [name |-> <<call.key[1][1]>>, type |-> call.key[2], val |-> v, ttl |-> TTL]
            /\ zone' = zone \cup {r}
            /\ missing' = missing \ {v}
            /\ UNCHANGED <<call, pc, doomed, result, disturbed>>
    <3>1. PICK v \in missing :
              /\ pc = "create"
              /\ zone' = zone \cup {[name |-> OV!Relative(call.key[1]), type |-> call.key[2],
                                      val |-> v, ttl |-> TTL]}
              /\ missing' = missing \ {v}
              /\ UNCHANGED <<call, pc, doomed, result, disturbed>>
      BY <1>6 DEF OV!Creating, OV!Create, OV!CallKey, OV!PrepareRecord
    <3> QED
      BY <1>4, <3>1, OVParseName
  <2>2. v \in Vals /\ call.key \in Managed \X Types
    BY <1>4, <2>1, RequestFacts DEF CallInv
  <2>3. r \in OVRecords /\ r.name = <<call.key[1][1]>> /\ r.type = call.key[2] /\ r.val = v
    BY <2>1, <2>2, ValueAssumption DEF OVRecords
  <2>4. OVKey[r] = call.key
    BY <2>2, <2>3
  <2> QED
    BY <1>2, <1>3, <2>1, <2>3, <2>4, CreateOne
<1>7. CASE OV!Created \/ OV!ThenAdd \/ OV!Deleting \/ OV!Removed \/ OV!RequestFails \/ OV!Crash
  BY <1>2, <1>3, <1>7
     DEF Steps, OV!Created, Created, OV!ThenAdd, ThenAdd, OV!Deleting, Deleting,
         OV!Removed, Removed, OV!RequestFails, RequestFails, OV!Crash, Crash, OV!Return, Return,
         OV!NoCall, NoCall
<1>8. CASE OV!Finding(OV!FindRecords)
  <2>1. pc = "find" /\ Finding(OV!FindRecords)
    BY <1>8 DEF OV!Finding, Finding
  <2>2. OV!FindRecords = {r \in zone : OVKey[r] = call.key}
    BY <1>1, <1>4, <2>1, OVParseName DEF OV!FindRecords, OV!CallKey
  <2>3. PICK found : found = OV!FindRecords
    OBVIOUS
  <2> QED
    BY <1>2, <1>3, <2>1, <2>2, <2>3, FindMatching
<1>9. CASE OV!Disturb(OV!ApiRecords)
  BY <1>1, <1>2, <1>3, <1>9 DEF OV!Disturb, Disturbed, Steps
<1> QED
  BY <1>5, <1>6, <1>7, <1>8, <1>9 DEF OV!Next, OV!AddRecord, OV!UpdateRecord, OV!RemoveRecord

-------------------------------------------------------------------------------
(* PointHQ                                                                  *)

PHRecords == [name : PH!ApiNames, type : Types, val : Vals, ttl : Nat]
PHKey == [r \in PHRecords |-> <<PH!ListedName(r.name), r.type>>]

\* PointHQ lists full names, and the empty name for the zone itself.
LEMMA PHNaming ==
    /\ Keyed(PHRecords, PHKey)
    /\ PH!ApiRecords \subseteq PHRecords
    /\ \A k \in Managed \X Types : \A r \in PHRecords :
           PHKey[r] = k <=> r.name = k[1] /\ r.type = k[2]
    /\ \A k \in Managed \X Types : k[1] \in PH!ApiNames
<1>1. PH!ApiNames = Managed \cup {<<>>}
  BY DEF PH!ApiNames, PH!Managed, Managed, PH!Root, Root, PH!Dot, Dot
<1>2. \A l \in Labels : PH!ListedName(<<l, "root", ".">>) = <<l, "root", ".">>
  BY DEF PH!ListedName
<1>3. PH!ListedName(<<>>) = <<"root", ".">>
  BY Parts DEF PH!ListedName, PH!Root, Root, PH!Dot, Dot
<1>4. \A n \in PH!ApiNames : PH!ListedName(n) \in Fqdns
  BY <1>1, <1>2, <1>3, Names, Labelled
<1>5. ASSUME NEW f \in Managed
      PROVE  f \in PH!ApiNames /\ \A n \in PH!ApiNames : PH!ListedName(n) = f <=> n = f
  <2>1. PICK l \in Labels : f = <<l, "root", ".">> /\ f[1] = l
    BY Labelled
  <2> QED
    BY <1>1, <1>2, <1>3, <2>1, Labelled, Dots
<1>6. Keyed(PHRecords, PHKey)
  BY <1>4 DEF Keyed, PHRecords, PHKey, Keys
<1>7. PH!ApiRecords \subseteq PHRecords
  BY ValueAssumption DEF PH!ApiRecords, PH!Records, PHRecords
<1>8. ASSUME NEW k \in Managed \X Types, NEW r \in PHRecords
      PROVE  PHKey[r] = k <=> r.name = k[1] /\ r.type = k[2]
  <2>1. PHKey[r] = <<PH!ListedName(r.name), r.type>> /\ r.name \in PH!ApiNames
    BY DEF PHKey, PHRecords
  <2>2. k = <<k[1], k[2]>> /\ k[1] \in Managed
    OBVIOUS
  <2>3. PH!ListedName(r.name) = k[1] <=> r.name = k[1]
    BY <1>5, <2>1, <2>2
  <2> QED
    BY <2>1, <2>2, <2>3
<1> QED
  BY <1>5, <1>6, <1>7, <1>8

\* What the provider lists.
LEMMA PHListing ==
    ASSUME NEW z \in SUBSET PHRecords
    PROVE  PH!Listing(z, PH!ListedName) = Values(z, PHKey)
<1>1. PH!Keys = Keys
  BY DEF PH!Keys, Keys, PH!Fqdns, Fqdns, PH!Managed, Managed, PH!Root, Root, PH!Dot, Dot
<1>2. ASSUME NEW k \in Keys
      PROVE  {s \in z : <<PH!ListedName(s.name), s.type>> = k} = {s \in z : PHKey[s] = k}
  BY DEF PHKey
<1> QED
  BY <1>1, <1>2 DEF PH!Listing, Values

\* The name that the service stores for a managed name is the same.
LEMMA PHStoredName == \A f \in Managed : PH!StoredName(PH!ParseName(f)) = f
<1> SUFFICES ASSUME NEW f \in Managed PROVE PH!StoredName(PH!ParseName(f)) = f
  OBVIOUS
<1>1. PICK l \in Labels : f = <<l, "root", ".">> /\ f[1] = l
  BY Labelled
<1>2. PH!ParseName(f) = <<l>>
  BY <1>1 DEF PH!ParseName, PH!Relative, PH!Managed, Managed, PH!Root, Root, PH!Dot, Dot
<1> QED
  BY <1>1, <1>2, Dots DEF PH!StoredName, PH!Root, Root, PH!Dot, Dot

\* Every step of the provider is one of those that keep the contract.
LEMMA PHSteps ==
    ASSUME provider = "pointhq", UNCHANGED provider,
           CallInv, ZoneInv(PHRecords, PHKey), PH!Next
    PROVE  /\ Stored = Values(zone, PHKey)
           /\ zone' \in SUBSET PHRecords => Stored' = Values(zone', PHKey)
           /\ Steps(PHRecords, PHKey)
<1> USE PHNaming
<1>1. zone \in SUBSET PHRecords
  BY DEF ZoneInv
<1>2. Stored = PH!Stored /\ Stored = Values(zone, PHKey)
  BY <1>1, PHListing DEF Stored, PH!Stored, PH!GetRecords
<1>3. zone' \in SUBSET PHRecords => Stored' = Values(zone', PHKey)
  <2>1. Stored' = PH!Listing(zone', PH!ListedName)
    BY DEF Stored, PH!Stored, PH!GetRecords
  <2> QED
    BY <2>1, PHListing
<1>4. ASSUME pc # "idle" PROVE call \in Requests /\ call.key \in Managed \X Types
  BY <1>4 DEF CallInv, Requests
<1>5. CASE \E records \in PH!Decoded :
              PH!Begin(PH!GetRecords(records), PH!Misread(PH!GetRecords(records)))
  <2>1. PICK records \in PH!Decoded :
            Begin(PH!GetRecords(records), PH!Misread(PH!GetRecords(records)))
    BY <1>5 DEF PH!Begin, Begin, PH!Managed, Managed, PH!Root, Root, PH!Dot, Dot
  <2>2. Managed \X Types \subseteq PH!Keys
    BY Names DEF PH!Keys, PH!Fqdns, PH!Managed, Managed, PH!Root, Root, PH!Dot, Dot
  <2>3. ASSUME NEW k \in Managed \X Types, k \notin PH!Misread(PH!GetRecords(records))
        PROVE  PH!GetRecords(records)[k] = Stored[k]
    BY <1>2, <2>2, <2>3 DEF PH!Misread
  <2> QED
    BY <1>2, <1>3, <2>1, <2>3, BeginMeans DEF Steps
<1>6. CASE PH!Creating(LAMBDA v : [name |-> PH!StoredName(PH!ParseName(PH!CallKey.fqdn)),
                                   type |-> PH!CallKey.type, val |-> v, ttl |-> TTL])
  <2>1. PICK v, r :
            /\ v \in missing
            /\ pc = "create"
            /\ r = [name |-> call.key[1], type |-> call.key[2], val |-> v, ttl |-> TTL]
            /\ zone' = zone \cup {r}
            /\ missing' = missing \ {v}
            /\ UNCHANGED <<call, pc, doomed, result, disturbed>>
    <3>1. PICK v \in missing :
              /\ pc = "create"
              /\ zone' = zone \cup {[name |-> PH!StoredName(PH!ParseName(call.key[1])), type |-> call.key[2],
                                      val |-> v, ttl |-> TTL]}
              /\ missing' = missing \ {v}
              /\ UNCHANGED <<call, pc, doomed, result, disturbed>>
      BY <1>6 DEF PH!Creating, PH!Create, PH!CallKey
    <3> QED
      BY <1>4, <3>1, PHStoredName
  <2>2. v \in Vals /\ call.key \in Managed \X Types
    BY <1>4, <2>1, RequestFacts DEF CallInv
  <2>3. r \in PHRecords /\ r.name = call.key[1] /\ r.type = call.key[2] /\ r.val = v
    BY <2>1, <2>2, ValueAssumption DEF PHRecords
  <2>4. PHKey[r] = call.key
    BY <2>2, <2>3
  <2> QED
    BY <1>2, <1>3, <2>1, <2>3, <2>4, CreateOne
<1>7. CASE PH!Created \/ PH!ThenAdd \/ PH!Deleting \/ PH!Removed \/ PH!RequestFails \/ PH!Crash
  BY <1>2, <1>3, <1>7
     DEF Steps, PH!Created, Created, PH!ThenAdd, ThenAdd, PH!Deleting, Deleting,
         PH!Removed, Removed, PH!RequestFails, RequestFails, PH!Crash, Crash, PH!Return, Return,
         PH!NoCall, NoCall
<1>8. CASE PH!Finding(PH!FindRecords)
  <2>1. pc = "find" /\ Finding(PH!FindRecords)
    BY <1>8 DEF PH!Finding, Finding
  <2>2. PH!FindRecords = {r \in zone : PHKey[r] = call.key}
    BY <1>1, <1>4, <2>1 DEF PH!FindRecords, PH!CallKey
  <2>3. PICK found : found = PH!FindRecords
    OBVIOUS
  <2> QED
    BY <1>2, <1>3, <2>1, <2>2, <2>3, FindMatching
<1>9. CASE PH!FindingLost
  BY <1>2, <1>3, <1>9 DEF PH!FindingLost, Misses, Steps
<1>10. CASE PH!Disturb(PH!ApiRecords)
  BY <1>1, <1>2, <1>3, <1>10 DEF PH!Disturb, Disturbed, Steps
<1> QED
  BY <1>5, <1>6, <1>7, <1>8, <1>9, <1>10 DEF PH!Next, PH!AddRecord, PH!UpdateRecord, PH!RemoveRecord

-------------------------------------------------------------------------------
(* DNSimple                                                                 *)

DSRecords == [name : DS!ApiNames, type : Types, val : Vals, ttl : Nat]
DSKey == [r \in DSRecords |-> <<DS!ListedName(r.name), r.type>>]

\* DNSimple stores labels, and the empty name for the zone itself.
LEMMA DSNaming ==
    /\ Keyed(DSRecords, DSKey)
    /\ DS!ApiRecords \subseteq DSRecords
    /\ \A k \in Managed \X Types : \A r \in DSRecords :
           DSKey[r] = k <=> r.name = <<k[1][1]>> /\ r.type = k[2]
    /\ \A k \in Managed \X Types : <<k[1][1]>> \in DS!ApiNames
<1>1. DS!ApiNames = {<<l>> : l \in Labels} \cup {<<>>}
  BY DEF DS!ApiNames
<1>2. \A l \in Labels : DS!ListedName(<<l>>) = <<l, "root", ".">>
  BY Labelled, Dots DEF DS!ListedName, DS!Root, Root, DS!Dot, Dot
<1>3. DS!ListedName(<<>>) = <<"root", ".">>
  BY Parts DEF DS!ListedName, DS!Root, Root, DS!Dot, Dot
<1>4. \A n \in DS!ApiNames : DS!ListedName(n) \in Fqdns
  BY <1>1, <1>2, <1>3, Names, Labelled
<1>5. ASSUME NEW f \in Managed
      PROVE  <<f[1]>> \in DS!ApiNames /\ \A n \in DS!ApiNames : DS!ListedName(n) = f <=> n = <<f[1]>>
  <2>1. PICK l \in Labels : f = <<l, "root", ".">> /\ f[1] = l
    BY Labelled
  <2> QED
    BY <1>1, <1>2, <1>3, <2>1, Labelled, Dots
<1>6. Keyed(DSRecords, DSKey)
  BY <1>4 DEF Keyed, DSRecords, DSKey, Keys
<1>7. DS!ApiRecords \subseteq DSRecords
  BY ValueAssumption DEF DS!ApiRecords, DS!Records, DSRecords
<1>8. ASSUME NEW k \in Managed \X Types, NEW r \in DSRecords
      PROVE  DSKey[r] = k <=> r.name = <<k[1][1]>> /\ r.type = k[2]
  <2>1. DSKey[r] = <<DS!ListedName(r.name), r.type>> /\ r.name \in DS!ApiNames
    BY DEF DSKey, DSRecords
  <2>2. k = <<k[1], k[2]>> /\ k[1] \in Managed
    OBVIOUS
  <2>3. DS!ListedName(r.name) = k[1] <=> r.name = <<k[1][1]>>
    BY <1>5, <2>1, <2>2
  <2> QED
    BY <2>1, <2>2, <2>3
<1> QED
  BY <1>5, <1>6, <1>7, <1>8

\* What the provider lists.
LEMMA DSListing ==
    ASSUME NEW z \in SUBSET DSRecords
    PROVE  DS!Listing(z, DS!ListedName) = Values(z, DSKey)
<1>1. DS!Keys = Keys
  BY DEF DS!Keys, Keys, DS!Fqdns, Fqdns, DS!Managed, Managed, DS!Root, Root, DS!Dot, Dot
<1>2. ASSUME NEW k \in Keys
      PROVE  {s \in z : <<DS!ListedName(s.name), s.type>> = k} = {s \in z : DSKey[s] = k}
  BY DEF DSKey
<1> QED
  BY <1>1, <1>2 DEF DS!Listing, Values

\* parseName of a managed name.
LEMMA DSParseName == \A f \in Managed : DS!ParseName(f) = <<f[1]>>
BY DEF DS!ParseName, DS!Relative, DS!Managed, Managed, DS!Root, Root, DS!Dot, Dot

\* A zone that is listed for a call that is not excused fits on the first page,
\* and it still does when the call looks for its records, if nobody else wrote.
DSInv ==
    /\ IsFiniteSet(zone)
    /\ (~disturbed /\ pc = "find") => Cardinality(zone) <= PageSize

\* The first page holds records of the zone, and all of them if they fit.
LEMMA DSPage ==
    ASSUME NEW answer \in DS!ListRecords
    PROVE  answer \in SUBSET zone /\ (Cardinality(zone) <= PageSize => answer = zone)
<1>1. DS!Cardinality(zone) = Cardinality(zone)
  BY DEF DS!Cardinality, Cardinality, DS!IsFiniteSet, IsFiniteSet
<1> QED
  BY <1>1 DEF DS!ListRecords, DS!OnePage

\* Where DNSimple is not excused, the zone fits on a page.
LEMMA DSFits ==
    ASSUME DSInv, NEW k \in Managed \X Types, k \notin DS!Excused
    PROVE  Cardinality(zone) <= PageSize
<1>1. DS!Cardinality(zone) = Cardinality(zone)
  BY DEF DS!Cardinality, Cardinality, DS!IsFiniteSet, IsFiniteSet
<1>2. Cardinality(zone) \in Nat /\ PageSize \in Nat
  BY FS_CardinalityType, ValueAssumption DEF DSInv
<1>3. k \in DS!Keys
  BY Names DEF DS!Keys, DS!Fqdns, DS!Managed, Managed, DS!Root, Root, DS!Dot, Dot
<1>4. ~(DS!Cardinality(zone) > PageSize)
  BY <1>3 DEF DS!Excused
<1> QED
  BY <1>1, <1>2, <1>4

\* Every step of the provider is one of those that keep the contract.
LEMMA DSSteps ==
    ASSUME provider = "dnsimple", UNCHANGED provider,
           CallInv, ZoneInv(DSRecords, DSKey), DSInv, DS!Next
    PROVE  /\ Stored = Values(zone, DSKey)
           /\ zone' \in SUBSET DSRecords => Stored' = Values(zone', DSKey)
           /\ Steps(DSRecords, DSKey)
<1> USE DSNaming
<1>1. zone \in SUBSET DSRecords
  BY DEF ZoneInv
<1>2. Stored = DS!GetRecordsOf(zone) /\ Stored = Values(zone, DSKey)
  BY <1>1, DSListing DEF Stored, DS!GetRecordsOf
<1>3. zone' \in SUBSET DSRecords => Stored' = Values(zone', DSKey)
  <2>1. Stored' = DS!Listing(zone', DS!ListedName)
    BY DEF Stored, DS!GetRecordsOf
  <2> QED
    BY <2>1, DSListing
<1>4. ASSUME pc # "idle" PROVE call \in Requests /\ call.key \in Managed \X Types
  BY <1>4 DEF CallInv, Requests
<1>5. CASE \E answer \in DS!ListRecords : DS!Begin(DS!GetRecordsOf(answer), DS!Excused)
  <2>1. PICK answer \in DS!ListRecords : Begin(DS!GetRecordsOf(answer), DS!Excused)
    BY <1>5 DEF DS!Begin, Begin, DS!Managed, Managed, DS!Root, Root, DS!Dot, Dot
  <2>2. ASSUME NEW k \in Managed \X Types, k \notin DS!Excused
        PROVE  DS!GetRecordsOf(answer)[k] = Stored[k]
    BY <1>2, <2>2, DSFits, DSPage
  <2> QED
    BY <1>2, <1>3, <2>1, <2>2, BeginMeans DEF Steps
<1>6. CASE DS!Creating(LAMBDA v : [name |-> DS!ParseName(DS!CallKey.fqdn), type |-> DS!CallKey.type,
                             val |-> v, ttl |-> TTL])
  <2>1. PICK v, r :
            /\ v \in missing
            /\ pc = "create"
            /\ r = [name |-> <<call.key[1][1]>>, type |-> call.key[2], val |-> v, ttl |-> TTL]
            /\ zone' = zone \cup {r}
            /\ missing' = missing \ {v}
            /\ UNCHANGED <<call, pc, doomed, result, disturbed>>
    <3>1. PICK v \in missing :
              /\ pc = "create"
              /\ zone' = zone \cup {[name |-> DS!ParseName(call.key[1]), type |-> call.key[2],
                                      val |-> v, ttl |-> TTL]}
              /\ missing' = missing \ {v}
              /\ UNCHANGED <<call, pc, doomed, result, disturbed>>
      BY <1>6 DEF DS!Creating, DS!Create, DS!CallKey
    <3> QED
      BY <1>4, <3>1, DSParseName
  <2>2. v \in Vals /\ call.key \in Managed \X Types
    BY <1>4, <2>1, RequestFacts DEF CallInv
  <2>3. r \in DSRecords /\ r.name = <<call.key[1][1]>> /\ r.type = call.key[2] /\ r.val = v
    BY <2>1, <2>2, ValueAssumption DEF DSRecords
  <2>4. DSKey[r] = call.key
    BY <2>2, <2>3
  <2> QED
    BY <1>2, <1>3, <2>1, <2>3, <2>4, CreateOne
<1>7. CASE DS!Created \/ DS!ThenAdd \/ DS!Deleting \/ DS!Removed \/ DS!RequestFails \/ DS!Crash
  BY <1>2, <1>3, <1>7
     DEF Steps, DS!Created, Created, DS!ThenAdd, ThenAdd, DS!Deleting, Deleting,
         DS!Removed, Removed, DS!RequestFails, RequestFails, DS!Crash, Crash, DS!Return, Return,
         DS!NoCall, NoCall
<1>8. CASE pc = "find" /\ \E answer \in DS!ListRecords : DS!Finding(DS!FindRecords(answer))
  <2>1. PICK answer \in DS!ListRecords : Finding(DS!FindRecords(answer))
    BY <1>8 DEF DS!Finding, Finding
  <2>2. answer \subseteq zone /\ (~disturbed => answer = zone)
    BY <1>8, <2>1, DSPage DEF DSInv
  <2>3. DS!FindRecords(answer) = {r \in answer : DSKey[r] = call.key}
    BY <1>1, <1>4, <1>8, <2>2, DSParseName DEF DS!FindRecords, DS!CallKey
  <2>4. PICK found : found = DS!FindRecords(answer)
    OBVIOUS
  <2> QED
    BY <1>2, <1>3, <2>1, <2>2, <2>3, <2>4, FindMatching
<1>9. CASE DS!Disturb(DS!ApiRecords)
  BY <1>1, <1>2, <1>3, <1>9 DEF DS!Disturb, Disturbed, Steps
<1> QED
  BY <1>5, <1>6, <1>7, <1>8, <1>9 DEF DS!Next, DS!AddRecord, DS!UpdateRecord, DS!RemoveRecord

\* Every step of DNSimple keeps the zone finite, and on one page while a call
\* looks for its records.
LEMMA DSKeeps ==
    ASSUME DSInv, DS!Next
    PROVE  DSInv'
<1>1. IsFiniteSet(zone')
  <2>1. \/ UNCHANGED zone
        \/ \E r : zone' = zone \ {r}
        \/ \E r : zone' = zone \cup {r}
    BY DEF DS!Next, DS!Begin, DS!AddRecord, DS!Creating, DS!Create, DS!Created, DS!UpdateRecord,
           DS!ThenAdd, DS!RemoveRecord, DS!Finding, DS!Deleting, DS!Removed, DS!RequestFails,
           DS!Crash, DS!Return, DS!Disturb
  <2> QED
    BY <2>1, FS_AddElement, FS_RemoveElement DEF DSInv
<1>2. ASSUME ~disturbed', pc' = "find" PROVE Cardinality(zone') <= PageSize
  <2>1. \E answer \in DS!ListRecords : DS!Begin(DS!GetRecordsOf(answer), DS!Excused)
    BY <1>2 DEF DS!Next, DS!AddRecord, DS!Creating, DS!Create, DS!Created, DS!UpdateRecord,
           DS!ThenAdd, DS!RemoveRecord, DS!Finding, DS!Deleting, DS!Removed, DS!RequestFails,
           DS!Crash, DS!Return, DS!Disturb
  <2>2. UNCHANGED zone /\ \E k \in Managed \X Types : k \notin DS!Excused
    BY <1>2, <2>1 DEF DS!Begin, DS!Managed, Managed, DS!Root, Root, DS!Dot, Dot
  <2> QED
    BY <2>2, DSFits
<1> QED
  BY <1>1, <1>2 DEF DSInv

-------------------------------------------------------------------------------
(* Infoblox                                                                 *)

IBRecords == [name : IB!ApiNames, type : Types, val : Vals, ttl : Nat, disable : BOOLEAN]
IBKey == [r \in IBRecords |-> IF r.disable THEN Unlisted ELSE <<IB!ListedName(r.name), r.type>>]

\* Infoblox stores full names without the dot, and the empty name for the zone
\* itself; it lists no disabled record.
LEMMA IBNaming ==
    /\ Keyed(IBRecords, IBKey)
    /\ IB!ApiRecords \subseteq IBRecords
    /\ \A k \in Managed \X Types : \A r \in IBRecords :
           <<IB!ListedName(r.name), r.type>> = k <=> r.name = UnFqdn(k[1]) /\ r.type = k[2]
    /\ \A k \in Managed \X Types : UnFqdn(k[1]) \in IB!ApiNames
<1>1. IB!ApiNames = {UnFqdn(f) : f \in Managed} \cup {<<>>}
  BY DEF IB!ApiNames, IB!Managed, Managed, IB!UnFqdn, UnFqdn, IB!Root, Root, IB!Dot, Dot
<1>2. \A l \in Labels : IB!ListedName(<<l, "root">>) = <<l, "root", ".">>
  BY Parts DEF IB!ListedName, IB!Dot, Dot
<1>3. IB!ListedName(<<>>) = <<"root", ".">>
  BY Parts DEF IB!ListedName, IB!Root, Root, IB!Dot, Dot
<1>4. \A f \in Managed : IB!ListedName(UnFqdn(f)) = f
  <2> TAKE f \in Managed
  <2>1. PICK l \in Labels : f = <<l, "root", ".">>
    BY Labelled
  <2>2. UnFqdn(f) = <<l, "root">>
    BY <2>1, Dots
  <2> QED
    BY <1>2, <2>1, <2>2
<1>5. \A n \in IB!ApiNames : IB!ListedName(n) \in Fqdns
  BY <1>1, <1>3, <1>4, Names
<1>6. ASSUME NEW f \in Managed
      PROVE  UnFqdn(f) \in IB!ApiNames /\ \A n \in IB!ApiNames : IB!ListedName(n) = f <=> n = UnFqdn(f)
  BY <1>1, <1>3, <1>4, Names
<1>7. Keyed(IBRecords, IBKey)
  BY <1>5 DEF Keyed, IBRecords, IBKey, Keys
<1>8. IB!ApiRecords \subseteq IBRecords
  BY ValueAssumption DEF IB!ApiRecords, IBRecords
<1>9. ASSUME NEW k \in Managed \X Types, NEW r \in IBRecords
      PROVE  <<IB!ListedName(r.name), r.type>> = k <=> r.name = UnFqdn(k[1]) /\ r.type = k[2]
  <2>1. k = <<k[1], k[2]>> /\ k[1] \in Managed /\ r.name \in IB!ApiNames
    BY DEF IBRecords
  <2>2. IB!ListedName(r.name) = k[1] <=> r.name = UnFqdn(k[1])
    BY <1>6, <2>1
  <2> QED
    BY <2>1, <2>2
<1> QED
  BY <1>6, <1>7, <1>8, <1>9

\* What the provider lists of the records z.
LEMMA IBListing ==
    ASSUME NEW z \in SUBSET IBRecords
    PROVE  IB!GetRecordsOf(z) = Values(z, IBKey)
<1>1. IB!Keys = Keys
  BY DEF IB!Keys, Keys, IB!Fqdns, Fqdns, IB!Managed, Managed, IB!Root, Root, IB!Dot, Dot
<1>2. ASSUME NEW k \in Keys
      PROVE  {s \in {r \in z : ~r.disable} : <<IB!ListedName(s.name), s.type>> = k}
                 = {s \in z : IBKey[s] = k}
  BY UnlistedIsNoKey DEF IBKey, IBRecords
<1> QED
  BY <1>1, <1>2 DEF IB!GetRecordsOf, IB!Listing, Values

\* As long as nobody else writes, a call that is not excused meets no disabled
\* record in its record set, and the records of its type fit on a page when it
\* looks for its own.
IBInv ==
    /\ IsFiniteSet(zone)
    /\ (~disturbed /\ pc = "find") => Cardinality(IB!OfType(call.key[2])) <= PageSize
    /\ (~disturbed /\ pc # "idle") =>
           \A r \in zone : (r.name = UnFqdn(call.key[1]) /\ r.type = call.key[2]) => ~r.disable

\* A page holds records that match, and all of them if they fit.
LEMMA IBPage ==
    ASSUME NEW matching, NEW page \in IB!SendRequest(matching)
    PROVE  page \in SUBSET matching /\ (Cardinality(matching) <= PageSize => page = matching)
<1>1. IB!Cardinality(matching) = Cardinality(matching)
  BY DEF IB!Cardinality, Cardinality, IB!IsFiniteSet, IsFiniteSet
<1> QED
  BY <1>1 DEF IB!SendRequest, IB!OnePage

\* Where Infoblox is not excused, the records of the type fit on a page and none
\* of the record set is disabled.
LEMMA IBFits ==
    ASSUME ZoneInv(IBRecords, IBKey), IBInv, NEW k \in Managed \X Types, k \notin IB!Excused
    PROVE  /\ Cardinality(IB!OfType(k[2])) <= PageSize
           /\ \A r \in zone : (r.name = UnFqdn(k[1]) /\ r.type = k[2]) => ~r.disable
<1>1. IB!Cardinality(IB!OfType(k[2])) = Cardinality(IB!OfType(k[2]))
  BY DEF IB!Cardinality, Cardinality, IB!IsFiniteSet, IsFiniteSet
<1>2. IB!OfType(k[2]) \subseteq zone
  BY DEF IB!OfType
<1>3. Cardinality(IB!OfType(k[2])) \in Nat /\ PageSize \in Nat
  BY <1>2, FS_Subset, FS_CardinalityType, ValueAssumption DEF IBInv
<1>4. k \in IB!Keys
  BY Names DEF IB!Keys, IB!Fqdns, IB!Managed, Managed, IB!Root, Root, IB!Dot, Dot
<1>5. /\ ~(IB!Cardinality(IB!OfType(k[2])) > PageSize)
      /\ ~ \E r \in zone : r.disable /\ <<IB!ListedName(r.name), r.type>> = k
  BY <1>4 DEF IB!Excused
<1>6. zone \subseteq IBRecords
  BY DEF ZoneInv
<1> QED
  BY <1>1, <1>3, <1>5, <1>6, IBNaming

\* AddRecord meets a record with its value only if others wrote meanwhile.
LEMMA IBExists ==
    ASSUME CallInv, ZoneInv(IBRecords, IBKey), IBInv, pc = "create", NEW v \in missing,
           IB!Exists(IB!PrepareRecord(v), zone)
    PROVE  disturbed
<1> SUFFICES ASSUME ~disturbed PROVE FALSE
  BY DEF CallInv
<1>1. call \in Requests /\ call.key \in Managed \X Types /\ call.key \in Keys
  BY RequestFacts DEF CallInv, Requests
<1>2. PICK s \in zone : [s EXCEPT !.disable = FALSE] = IB!PrepareRecord(v)
  BY DEF IB!Exists, IB!PrepareRecord
<1>3. s \in IBRecords
  BY DEF ZoneInv
<1>4. s.name = UnFqdn(call.key[1]) /\ s.type = call.key[2] /\ s.val = v
  <2>1. IB!PrepareRecord(v) = [name |-> UnFqdn(call.key[1]), type |-> call.key[2], val |-> v,
                               ttl |-> TTL, disable |-> FALSE]
    BY DEF IB!PrepareRecord, IB!CallKey, IB!UnFqdn, UnFqdn
  <2>2. PICK t : t = [s EXCEPT !.disable = FALSE]
    OBVIOUS
  <2>3. t.name = s.name /\ t.type = s.type /\ t.val = s.val
    BY <1>3, <2>2 DEF IBRecords
  <2> QED
    BY <1>2, <2>1, <2>2, <2>3
<1>5. ~s.disable
  BY <1>4 DEF IBInv
<1>6. IBKey[s] = call.key
  BY <1>1, <1>3, <1>4, <1>5, IBNaming DEF IBKey
<1>7. v \in Values(zone, IBKey)[call.key]
  BY <1>1, <1>4, <1>6 DEF Values
<1> QED
  BY <1>7 DEF ZoneInv

\* Every step of the provider but the refusal of a value that exists is one of
\* those that keep the contract.
LEMMA IBSteps ==
    ASSUME provider = "infoblox", UNCHANGED provider,
           CallInv, ZoneInv(IBRecords, IBKey), IBInv, IB!Next
    PROVE  /\ Stored = Values(zone, IBKey)
           /\ zone' \in SUBSET IBRecords => Stored' = Values(zone', IBKey)
           /\ Steps(IBRecords, IBKey) \/ (pc = "create" /\ disturbed /\ Return("ok"))
<1> USE IBNaming
<1>1. zone \in SUBSET IBRecords
  BY DEF ZoneInv
<1>2. Stored = IB!GetRecordsOf(zone) /\ Stored = Values(zone, IBKey)
  BY <1>1, IBListing DEF Stored
<1>3. zone' \in SUBSET IBRecords => Stored' = Values(zone', IBKey)
  <2>1. Stored' = IB!GetRecordsOf(zone')
    BY DEF Stored, IB!GetRecordsOf
  <2> QED
    BY <2>1, IBListing
<1>4. ASSUME pc # "idle" PROVE call \in Requests /\ call.key \in Managed \X Types
  BY <1>4 DEF CallInv, Requests
<1>5. CASE \E answer \in IB!Answers : IB!Begin(IB!GetRecordsOf(answer), IB!Excused)
  <2>1. PICK answer \in IB!Answers : Begin(IB!GetRecordsOf(answer), IB!Excused)
    BY <1>5 DEF IB!Begin, Begin, IB!Managed, Managed, IB!Root, Root, IB!Dot, Dot
  <2>2. ASSUME NEW k \in Managed \X Types, k \notin IB!Excused
        PROVE  IB!GetRecordsOf(answer)[k] = Stored[k]
    <3>1. answer \in SUBSET zone /\ answer \cap IB!OfType(k[2]) \in IB!SendRequest(IB!OfType(k[2]))
      BY <2>1 DEF IB!Answers
    <3>2. answer \cap IB!OfType(k[2]) = IB!OfType(k[2])
      BY <2>2, <3>1, IBFits, IBPage
    <3>3. {s \in answer : IBKey[s] = k} = {s \in zone : IBKey[s] = k}
      <4>1. ASSUME NEW s \in zone, IBKey[s] = k PROVE s \in answer
        <5>1. s.type = k[2]
          BY <1>1, <4>1, Names, UnlistedIsNoKey DEF IBKey, Keys
        <5> QED
          BY <3>2, <5>1 DEF IB!OfType
      <4> QED
        BY <3>1, <4>1
    <3>4. IB!GetRecordsOf(answer) = Values(answer, IBKey)
      BY <1>1, <3>1, IBListing
    <3>5. k \in Keys
      BY Names DEF Keys
    <3> QED
      BY <1>2, <3>3, <3>4, <3>5 DEF Values
  <2> QED
    BY <1>2, <1>3, <2>1, <2>2, BeginMeans DEF Steps
<1>6. CASE /\ pc = "create"
           /\ \E v \in missing :
                  IF IB!Exists(IB!PrepareRecord(v), zone)
                  THEN IB!Return("ok") ELSE IB!Create(v, IB!PrepareRecord(v))
  <2>1. PICK v \in missing :
            IF IB!Exists(IB!PrepareRecord(v), zone)
            THEN IB!Return("ok") ELSE IB!Create(v, IB!PrepareRecord(v))
    BY <1>6
  <2>2. CASE IB!Exists(IB!PrepareRecord(v), zone)
    BY <1>2, <1>3, <1>6, <2>1, <2>2, IBExists DEF IB!Return, Return, IB!NoCall, NoCall
  <2>3. CASE IB!Create(v, IB!PrepareRecord(v))
    <3>1. PICK r : r = IB!PrepareRecord(v)
      OBVIOUS
    <3>2. /\ zone' = zone \cup {r} /\ missing' = missing \ {v}
          /\ UNCHANGED <<call, pc, doomed, result, disturbed>>
      BY <2>3, <3>1 DEF IB!Create
    <3>3. v \in Vals /\ call.key \in Managed \X Types
      BY <1>4, <1>6, RequestFacts DEF CallInv
    <3>4. r = [name |-> UnFqdn(call.key[1]), type |-> call.key[2], val |-> v, ttl |-> TTL, disable |-> FALSE]
      BY <3>1 DEF IB!PrepareRecord, IB!CallKey, IB!UnFqdn, UnFqdn
    <3>5. /\ r \in IBRecords /\ r.name = UnFqdn(call.key[1]) /\ r.type = call.key[2]
          /\ r.val = v /\ ~r.disable
      BY <3>3, <3>4, ValueAssumption DEF IBRecords
    <3>6. IBKey[r] = call.key
      BY <3>3, <3>5 DEF IBKey
    <3> QED
      BY <1>2, <1>3, <1>6, <3>2, <3>5, <3>6, CreateOne
  <2> QED
    BY <2>1, <2>2, <2>3
<1>7. CASE IB!Created \/ IB!ThenAdd \/ IB!Deleting \/ IB!Removed \/ IB!RequestFails \/ IB!Crash
  BY <1>2, <1>3, <1>7
     DEF Steps, IB!Created, Created, IB!ThenAdd, ThenAdd, IB!Deleting, Deleting,
         IB!Removed, Removed, IB!RequestFails, RequestFails, IB!Crash, Crash, IB!Return, Return,
         IB!NoCall, NoCall
<1>8. CASE pc = "find" /\ \E found \in IB!SendRequest(IB!FindRecords) : IB!Finding(found)
  <2>1. PICK found \in IB!SendRequest(IB!FindRecords) : Finding(found)
    BY <1>8 DEF IB!Finding, Finding
  <2>2. IB!FindRecords = {r \in zone : r.name = UnFqdn(call.key[1]) /\ r.type = call.key[2]}
    BY DEF IB!FindRecords, IB!CallKey, IB!UnFqdn, UnFqdn
  <2>3. found \in SUBSET IB!FindRecords /\ (~disturbed => found = IB!FindRecords)
    <3>1. ~disturbed => Cardinality(IB!FindRecords) <= PageSize
      <4>1. IB!FindRecords \subseteq IB!OfType(call.key[2]) /\ IB!OfType(call.key[2]) \subseteq zone
        BY <2>2 DEF IB!OfType
      <4>2. IsFiniteSet(IB!OfType(call.key[2]))
        BY <4>1, FS_Subset DEF IBInv
      <4>3. /\ Cardinality(IB!FindRecords) <= Cardinality(IB!OfType(call.key[2]))
            /\ Cardinality(IB!FindRecords) \in Nat /\ Cardinality(IB!OfType(call.key[2])) \in Nat
        BY <4>1, <4>2, FS_Subset, FS_CardinalityType
      <4> QED
        BY <1>8, <4>3, ValueAssumption DEF IBInv
    <3> QED
      BY <2>1, <3>1, IBPage
  <2>4. found \in SUBSET IBRecords
    BY <1>1, <2>2, <2>3
  <2>5. \A r \in found : IBKey[r] \in {call.key, Unlisted}
    BY <1>1, <1>4, <1>8, <2>2, <2>3 DEF IBKey
  <2>6. ASSUME ~disturbed, NEW r \in zone, IBKey[r] = call.key PROVE r \in found
    <3>1. call.key \in Managed \X Types /\ call.key # Unlisted
      BY <1>4, <1>8, UnlistedIsNoKey, RequestFacts
    <3>2. <<IB!ListedName(r.name), r.type>> = call.key
      BY <1>1, <2>6, <3>1 DEF IBKey
    <3> QED
      BY <1>1, <2>2, <2>3, <2>6, <3>1, <3>2
  <2>7. Finds(found, IBKey)
    BY <2>1, <2>5, <2>6 DEF Finds
  <2> QED
    BY <1>2, <1>3, <2>4, <2>7 DEF Steps
<1>9. CASE IB!Disturb({r \in IB!ApiRecords : ~IB!Exists(r, zone)})
  BY <1>1, <1>2, <1>3, <1>9 DEF IB!Disturb, Disturbed, Steps
<1> QED
  BY <1>5, <1>6, <1>7, <1>8, <1>9 DEF IB!Next, IB!AddRecord, IB!UpdateRecord, IB!RemoveRecord

\* Every step of Infoblox keeps its invariant.
LEMMA IBKeeps ==
    ASSUME CallInv, ZoneInv(IBRecords, IBKey), IBInv, IB!Next
    PROVE  IBInv'
<1>1. IsFiniteSet(zone')
  <2>1. \/ UNCHANGED zone
        \/ \E r : zone' = zone \ {r}
        \/ \E r : zone' = zone \cup {r}
    BY DEF IB!Next, IB!Begin, IB!AddRecord, IB!Create, IB!Created, IB!UpdateRecord,
           IB!ThenAdd, IB!RemoveRecord, IB!Finding, IB!Deleting, IB!Removed, IB!RequestFails,
           IB!Crash, IB!Return, IB!Disturb
  <2> QED
    BY <2>1, FS_AddElement, FS_RemoveElement DEF IBInv
<1>2. CASE \E answer \in IB!Answers : IB!Begin(IB!GetRecordsOf(answer), IB!Excused)
  <2>1. UNCHANGED zone
    BY <1>2 DEF IB!Begin
  <2>2. PICK k \in Managed \X Types : call'.key = k /\ disturbed' = (k \in IB!Excused)
    BY <1>2 DEF IB!Begin, IB!Managed, Managed, IB!Root, Root, IB!Dot, Dot
  <2>3. ~disturbed' => /\ Cardinality(IB!OfType(k[2])) <= PageSize
                       /\ \A r \in zone : (r.name = UnFqdn(k[1]) /\ r.type = k[2]) => ~r.disable
    BY <2>2, IBFits
  <2> QED
    BY <1>1, <2>1, <2>2, <2>3 DEF IBInv, IB!OfType
<1>3. CASE \E v \in missing : IB!Create(v, IB!PrepareRecord(v)) /\ pc = "create"
  <2>1. PICK v \in missing : IB!Create(v, IB!PrepareRecord(v)) /\ pc = "create"
    BY <1>3
  <2>2. ~IB!PrepareRecord(v).disable
    BY DEF IB!PrepareRecord
  <2> QED
    BY <1>1, <2>1, <2>2 DEF IBInv, IB!Create
<1>4. CASE \/ pc' = "idle"
           \/ disturbed'
           \/ /\ zone' \subseteq zone
              /\ pc # "idle" /\ pc' # "find"
              /\ UNCHANGED <<call, disturbed>>
  BY <1>1, <1>4 DEF IBInv
<1> QED
  BY <1>2, <1>3, <1>4
     DEF IB!Next, IB!AddRecord, IB!Created, IB!UpdateRecord, IB!ThenAdd, IB!RemoveRecord,
         IB!Finding, IB!Deleting, IB!Removed, IB!RequestFails, IB!Crash, IB!Return, IB!Disturb

-------------------------------------------------------------------------------
(* PowerDNS                                                                 *)

PDRecords == [name : PD!ApiNames, type : Types, val : Vals, ttl : Nat, disabled : BOOLEAN]
PDKey == [r \in PDRecords |-> <<Fqdn(r.name), r.type>>]

\* PowerDNS stores the names of the zone without the dot.
LEMMA PDNaming ==
    /\ Keyed(PDRecords, PDKey)
    /\ PD!ApiRecords \subseteq PDRecords
    /\ \A k \in Managed \X Types : \A r \in PDRecords :
           PDKey[r] = k <=> r.name = UnFqdn(k[1]) /\ r.type = k[2]
    /\ \A k \in Managed \X Types : UnFqdn(k[1]) \in PD!ApiNames
<1>1. PD!ApiNames = {UnFqdn(f) : f \in Fqdns}
  BY DEF PD!ApiNames, PD!Fqdns, Fqdns, PD!Managed, Managed, PD!UnFqdn, UnFqdn, PD!Root, Root, PD!Dot, Dot
<1>2. \A f \in Fqdns : Fqdn(UnFqdn(f)) = f
  BY Names, Dots
<1>3. \A f \in Fqdns : UnFqdn(f) \in PD!ApiNames
  BY <1>1
<1>4. \A n \in PD!ApiNames : Fqdn(n) \in Fqdns /\ UnFqdn(Fqdn(n)) = n
  BY <1>1, <1>2
<1>5. Managed \subseteq Fqdns
  BY Names
<1>6. Keyed(PDRecords, PDKey)
  BY <1>4 DEF Keyed, PDRecords, PDKey, Keys
<1>7. PD!ApiRecords \subseteq PDRecords
  BY ValueAssumption DEF PD!ApiRecords, PDRecords
<1>8. ASSUME NEW k \in Managed \X Types, NEW r \in PDRecords
      PROVE  PDKey[r] = k <=> r.name = UnFqdn(k[1]) /\ r.type = k[2]
  <2>1. PDKey[r] = <<Fqdn(r.name), r.type>> /\ r.name \in PD!ApiNames
    BY DEF PDKey, PDRecords
  <2>2. k = <<k[1], k[2]>> /\ k[1] \in Fqdns
    BY <1>5
  <2> QED
    BY <1>2, <1>4, <2>1, <2>2
<1> QED
  BY <1>3, <1>5, <1>6, <1>7, <1>8

\* The record sets of the zone.
LEMMA PDListing ==
    ASSUME NEW z \in SUBSET PDRecords
    PROVE  PD!Listing(z, PD!Fqdn) = Values(z, PDKey)
<1>1. PD!Keys = Keys
  BY DEF PD!Keys, Keys, PD!Fqdns, Fqdns, PD!Managed, Managed, PD!Root, Root, PD!Dot, Dot
<1>2. ASSUME NEW k \in Keys
      PROVE  {s \in z : <<PD!Fqdn(s.name), s.type>> = k} = {s \in z : PDKey[s] = k}
  BY DEF PDKey, PD!Fqdn, Fqdn, PD!Dot, Dot
<1> QED
  BY <1>1, <1>2 DEF PD!Listing, Values

\* AddRecord has written all values or none.
PDInv == pc = "create" => missing \in {{}, call.vals}

\* Every step of the provider keeps the contract.
LEMMA PDKeeps ==
    ASSUME provider = "powerdns", UNCHANGED <<provider, draft>>,
           CallInv, ZoneInv(PDRecords, PDKey), PDInv, PD!Next
    PROVE  CallInv' /\ ZoneInv(PDRecords, PDKey)' /\ PDInv' /\ Kept
<1> USE PDNaming
<1>1. zone \in SUBSET PDRecords
  BY DEF ZoneInv
<1>2. Stored = PD!Stored /\ Stored = Values(zone, PDKey)
  BY <1>1, PDListing DEF Stored, PD!Stored
<1>3. zone' \in SUBSET PDRecords => Stored' = Values(zone', PDKey)
  <2>1. Stored' = PD!Listing(zone', PD!Fqdn)
    BY DEF Stored, PD!Stored
  <2> QED
    BY <2>1, PDListing
<1>4. ASSUME pc # "idle" PROVE call \in Requests /\ call.key \in Managed \X Types
  BY <1>4 DEF CallInv, Requests
<1>5. ASSUME Steps(PDRecords, PDKey) PROVE CallInv' /\ ZoneInv(PDRecords, PDKey)' /\ Kept
  BY <1>2, <1>3, <1>5, StepsKeep
<1>6. pc # "idle" => PD!RRset = {r \in zone : PDKey[r] = call.key}
  <2>1. PD!RRset = {r \in zone : r.name = UnFqdn(call.key[1]) /\ r.type = call.key[2]}
    BY DEF PD!RRset, PD!CallKey, PD!UnFqdn, UnFqdn
  <2> QED
    BY <1>1, <1>4, <2>1
<1>7. CASE \E last \in PD!Lasts : PD!Begin(PD!GetRecords(last), PD!Misread(PD!GetRecords(last)))
  <2>1. PICK last \in PD!Lasts : Begin(PD!GetRecords(last), PD!Misread(PD!GetRecords(last)))
    BY <1>7 DEF PD!Begin, Begin, PD!Managed, Managed, PD!Root, Root, PD!Dot, Dot
  <2>2. PDInv'
    BY <2>1 DEF Begin, PDInv
  <2>3. Managed \X Types \subseteq PD!Keys
    BY Names DEF PD!Keys, PD!Fqdns, PD!Managed, Managed, PD!Root, Root, PD!Dot, Dot
  <2>4. ASSUME NEW k \in Managed \X Types, k \notin PD!Misread(PD!GetRecords(last))
        PROVE  PD!GetRecords(last)[k] = Stored[k]
    BY <1>2, <2>3, <2>4 DEF PD!Misread
  <2> QED
    BY <1>5, <2>1, <2>2, <2>4, BeginMeans DEF Steps
<1>8. CASE /\ pc = "create" /\ missing # {}
           /\ zone' = (zone \ PD!RRset) \cup {PD!PrepareRecord(v) : v \in missing}
           /\ missing' = {}
           /\ UNCHANGED <<call, pc, doomed, result, disturbed>>
  <2>1. missing \subseteq Vals /\ call.key \in Managed \X Types /\ missing = call.vals
    BY <1>4, <1>8, RequestFacts DEF CallInv, PDInv
  <2>2. PICK A : A = {PD!PrepareRecord(v) : v \in missing}
    OBVIOUS
  <2>3. \A v \in missing : PD!PrepareRecord(v) =
            [name |-> UnFqdn(call.key[1]), type |-> call.key[2], val |-> v, ttl |-> TTL, disabled |-> FALSE]
    BY DEF PD!PrepareRecord, PD!CallKey, PD!UnFqdn, UnFqdn
  <2>4. A \in SUBSET PDRecords /\ \A r \in A : r.name = UnFqdn(call.key[1]) /\ r.type = call.key[2]
    <3>1. UnFqdn(call.key[1]) \in PD!ApiNames /\ call.key[2] \in Types
      BY <2>1
    <3>2. TTL \in Nat
      BY ValueAssumption
    <3>3. ASSUME NEW r \in A
          PROVE  r \in PDRecords /\ r.name = UnFqdn(call.key[1]) /\ r.type = call.key[2]
      <4>1. PICK v \in missing : r = PD!PrepareRecord(v)
        BY <2>2
      <4>2. r = [name |-> UnFqdn(call.key[1]), type |-> call.key[2], val |-> v, ttl |-> TTL, disabled |-> FALSE]
        BY <2>3, <4>1
      <4> QED
        BY <2>1, <3>1, <3>2, <4>2 DEF PDRecords
    <3> QED
      BY <3>3
  <2>5. \A r \in A : PDKey[r] = call.key
    BY <2>1, <2>4
  <2>6. ValsOf(A) = call.vals
    <3>1. \A r \in A : r.val \in missing
      BY <2>2, <2>3
    <3>2. \A v \in missing : PD!PrepareRecord(v) \in A /\ PD!PrepareRecord(v).val = v
      BY <2>2, <2>3
    <3> QED
      BY <2>1, <3>1, <3>2 DEF ValsOf
  <2>7. PICK y : y = zone \ PD!RRset
    OBVIOUS
  <2>8. zone' = y \cup A /\ y \in SUBSET zone /\ \A r \in zone : r \in y <=> PDKey[r] # call.key
    BY <1>6, <1>8, <2>2, <2>7
  <2>9. Stored' = Values(zone', PDKey)
    BY <1>1, <1>3, <2>4, <2>8
  <2>10. CallInv' /\ ZoneInv(PDRecords, PDKey)' /\ Own
    BY <1>2, <1>8, <2>4, <2>5, <2>6, <2>8, <2>9, ReplaceStep
  <2> QED
    BY <1>8, <2>10 DEF Kept, PDInv
<1>9. CASE PD!Created \/ PD!ThenAdd \/ PD!Removed \/ PD!RequestFails \/ PD!Crash
  <2>1. Created \/ ThenAdd \/ Removed \/ RequestFails \/ Crash
    BY <1>9
       DEF PD!Created, Created, PD!ThenAdd, ThenAdd, PD!Removed, Removed, PD!RequestFails,
           RequestFails, PD!Crash, Crash, PD!Return, Return, PD!NoCall, NoCall
  <2>2. PDInv'
    BY <2>1 DEF Created, ThenAdd, Removed, RequestFails, Crash, Return, PDInv
  <2> QED
    BY <1>5, <2>1, <2>2 DEF Steps
<1>10. CASE PD!Finding(PD!RRset)
  <2>1. pc = "find" /\ pc' = "delete" /\ Finding(PD!RRset)
    BY <1>10 DEF PD!Finding, Finding
  <2>2. PICK found : found = PD!RRset
    OBVIOUS
  <2>3. found = {r \in zone : PDKey[r] = call.key} /\ Finding(found)
    BY <1>6, <2>1, <2>2
  <2> QED
    BY <1>5, <2>1, <2>3, FindMatching DEF PDInv
<1>11. CASE /\ pc = "delete"
            /\ \E r \in doomed : doomed' = doomed \ {r}
            /\ zone' = zone \ PD!RRset
            /\ UNCHANGED <<call, pc, missing, result, disturbed>>
  <2>1. zone' \in SUBSET zone /\ \A r \in zone : r \in zone' <=> PDKey[r] # call.key
    BY <1>6, <1>11
  <2>2. Stored' = Values(zone', PDKey)
    BY <1>1, <1>3, <2>1
  <2>3. \A r \in doomed' : r \in PDRecords /\ PDKey[r] \in {call.key, Unlisted}
    BY <1>11 DEF ZoneInv
  <2>4. CallInv' /\ ZoneInv(PDRecords, PDKey)' /\ Own
    BY <1>2, <1>11, <2>1, <2>2, <2>3, WipeStep
  <2> QED
    BY <1>11, <2>4 DEF PDInv, Kept
<1>12. CASE PD!Disturb({r \in PD!ApiRecords : ~PD!Twice(zone \cup {r})})
  <2>1. Disturbed(PDRecords)
    BY <1>1, <1>12 DEF PD!Disturb, Disturbed
  <2> QED
    BY <1>5, <2>1 DEF Disturbed, PDInv, Steps
<1> QED
  BY <1>7, <1>8, <1>9, <1>10, <1>11, <1>12 DEF PD!Next, PD!AddRecord, PD!UpdateRecord, PD!RemoveRecord

-------------------------------------------------------------------------------
(* RFC 2136                                                                 *)

RFRecords == [name : Fqdns, type : Types, val : Vals, ttl : Nat]
RFKey == [r \in RFRecords |-> <<Fqdn(r.name), r.type>>]

\* A name server stores full names.
LEMMA RFNaming ==
    /\ Keyed(RFRecords, RFKey)
    /\ RF!ApiRecords \subseteq RFRecords
    /\ \A k \in Managed \X Types : \A r \in RFRecords :
           RFKey[r] = k <=> r.name = k[1] /\ r.type = k[2]
    /\ \A k \in Managed \X Types : k[1] \in Fqdns
<1>1. \A f \in Fqdns : Fqdn(f) = f
  BY Names, Dots
<1>2. Managed \subseteq Fqdns
  BY Names
<1>3. Keyed(RFRecords, RFKey)
  BY <1>1 DEF Keyed, RFRecords, RFKey, Keys
<1>4. RF!ApiRecords \subseteq RFRecords
  BY ValueAssumption
     DEF RF!ApiRecords, RF!Records, RFRecords, RF!Fqdns, Fqdns, RF!Managed, Managed, RF!Root, Root,
         RF!Dot, Dot
<1>5. ASSUME NEW k \in Managed \X Types, NEW r \in RFRecords
      PROVE  RFKey[r] = k <=> r.name = k[1] /\ r.type = k[2]
  <2>1. RFKey[r] = <<r.name, r.type>>
    BY <1>1 DEF RFKey, RFRecords
  <2>2. k = <<k[1], k[2]>>
    OBVIOUS
  <2> QED
    BY <2>1, <2>2
<1> QED
  BY <1>2, <1>3, <1>4, <1>5

\* What a transfer of the records z lists.
LEMMA RFListing ==
    ASSUME NEW z \in SUBSET RFRecords
    PROVE  RF!Listing(z, RF!Fqdn) = Values(z, RFKey)
<1>1. RF!Keys = Keys
  BY DEF RF!Keys, Keys, RF!Fqdns, Fqdns, RF!Managed, Managed, RF!Root, Root, RF!Dot, Dot
<1>2. ASSUME NEW k \in Keys
      PROVE  {s \in z : <<RF!Fqdn(s.name), s.type>> = k} = {s \in z : RFKey[s] = k}
  BY DEF RFKey, RF!Fqdn, Fqdn, RF!Dot, Dot
<1> QED
  BY <1>1, <1>2 DEF RF!Listing, Values

\* A call finds nothing: it removes the record set with one message.
RFInv == doomed = {}

\* Every step of the provider keeps the contract.
LEMMA RFKeeps ==
    ASSUME provider = "rfc2136", UNCHANGED <<provider, draft>>,
           CallInv, ZoneInv(RFRecords, RFKey), RFInv, RF!Next
    PROVE  CallInv' /\ ZoneInv(RFRecords, RFKey)' /\ RFInv' /\ Kept
<1> USE RFNaming
<1>1. zone \in SUBSET RFRecords
  BY DEF ZoneInv
<1>2. Stored = RF!Stored /\ Stored = Values(zone, RFKey)
  BY <1>1, RFListing DEF Stored, RF!Stored, RF!GetRecords
<1>3. zone' \in SUBSET RFRecords => Stored' = Values(zone', RFKey)
  <2>1. Stored' = RF!Listing(zone', RF!Fqdn)
    BY DEF Stored, RF!Stored, RF!GetRecords
  <2> QED
    BY <2>1, RFListing
<1>4. ASSUME pc # "idle" PROVE call \in Requests /\ call.key \in Managed \X Types
  BY <1>4 DEF CallInv, Requests
<1>5. ASSUME Steps(RFRecords, RFKey) PROVE CallInv' /\ ZoneInv(RFRecords, RFKey)' /\ Kept
  BY <1>2, <1>3, <1>5, StepsKeep
<1>6. CASE \E records \in RF!Transfer :
              RF!Begin(RF!GetRecords(records), RF!Misread(RF!GetRecords(records)))
  <2>1. PICK records \in RF!Transfer :
            Begin(RF!GetRecords(records), RF!Misread(RF!GetRecords(records)))
    BY <1>6 DEF RF!Begin, Begin, RF!Managed, Managed, RF!Root, Root, RF!Dot, Dot
  <2>2. RFInv'
    BY <2>1 DEF Begin, RFInv
  <2>3. Managed \X Types \subseteq RF!Keys
    BY Names DEF RF!Keys, RF!Fqdns, RF!Managed, Managed, RF!Root, Root, RF!Dot, Dot
  <2>4. ASSUME NEW k \in Managed \X Types, k \notin RF!Misread(RF!GetRecords(records))
        PROVE  RF!GetRecords(records)[k] = Stored[k]
    BY <1>2, <2>3, <2>4 DEF RF!Misread
  <2> QED
    BY <1>5, <2>1, <2>2, <2>4, BeginMeans DEF Steps
<1>7. CASE /\ pc = "create" /\ missing # {}
           /\ zone' = zone \cup {[name |-> RF!CallKey.fqdn, type |-> RF!CallKey.type, val |-> v,
                                  ttl |-> TTL] : v \in missing}
           /\ missing' = {}
           /\ UNCHANGED <<call, pc, doomed, result, disturbed>>
  <2>1. missing \subseteq Vals /\ call.key \in Managed \X Types
    BY <1>4, <1>7, RequestFacts DEF CallInv
  <2>2. PICK A : A = {[name |-> call.key[1], type |-> call.key[2], val |-> v, ttl |-> TTL] : v \in missing}
    OBVIOUS
  <2>3. zone' = zone \cup A
    BY <1>7, <2>2 DEF RF!CallKey
  <2>4. A \in SUBSET RFRecords /\ \A r \in A : r.name = call.key[1] /\ r.type = call.key[2]
    BY <2>1, <2>2, ValueAssumption DEF RFRecords
  <2>5. \A r \in A : RFKey[r] = call.key
    BY <2>1, <2>4
  <2>6. ValsOf(A) = missing
    <3>1. \A r \in A : r.val \in missing
      BY <2>2
    <3>2. ASSUME NEW v \in missing PROVE \E r \in A : r.val = v
      <4>1. PICK r \in A : r = [name |-> call.key[1], type |-> call.key[2], val |-> v, ttl |-> TTL]
        BY <2>2
      <4> QED
        BY <4>1
    <3> QED
      BY <3>1, <3>2 DEF ValsOf
  <2>7. Creates(A, RFKey)
    BY <1>7, <2>3, <2>5, <2>6 DEF Creates
  <2> QED
    BY <1>5, <1>7, <2>4, <2>7 DEF Steps, RFInv
<1>8. CASE RF!Created \/ RF!ThenAdd \/ RF!Removed \/ RF!RequestFails \/ RF!Crash
  <2>1. Created \/ ThenAdd \/ Removed \/ RequestFails \/ Crash
    BY <1>8
       DEF RF!Created, Created, RF!ThenAdd, ThenAdd, RF!Removed, Removed, RF!RequestFails,
           RequestFails, RF!Crash, Crash, RF!Return, Return, RF!NoCall, NoCall
  <2>2. RFInv'
    BY <2>1 DEF Created, ThenAdd, Removed, RequestFails, Crash, Return, RFInv
  <2> QED
    BY <1>5, <2>1, <2>2 DEF Steps
<1>9. CASE /\ pc = "find"
           /\ zone' = zone \ RF!RRset
           /\ pc' = "delete"
           /\ UNCHANGED <<call, doomed, missing, result, disturbed>>
  <2>1. RF!RRset = {r \in zone : r.name = call.key[1] /\ r.type = call.key[2]}
    BY DEF RF!RRset, RF!CallKey
  <2>2. RF!RRset = {r \in zone : RFKey[r] = call.key}
    BY <1>1, <1>4, <1>9, <2>1
  <2>3. zone' \in SUBSET zone /\ \A r \in zone : r \in zone' <=> RFKey[r] # call.key
    BY <1>9, <2>2
  <2>4. Stored' = Values(zone', RFKey)
    BY <1>1, <1>3, <2>3
  <2>5. CallInv' /\ ZoneInv(RFRecords, RFKey)' /\ Own
    BY <1>2, <1>9, <2>3, <2>4, WipeStep DEF RFInv
  <2> QED
    BY <1>9, <2>5 DEF RFInv, Kept
<1>10. CASE RF!Disturb(RF!ApiRecords)
  <2>1. Disturbed(RFRecords)
    BY <1>1, <1>10 DEF RF!Disturb, Disturbed
  <2> QED
    BY <1>5, <2>1 DEF Disturbed, RFInv, Steps
<1> QED
  BY <1>6, <1>7, <1>8, <1>9, <1>10 DEF RF!Next, RF!AddRecord, RF!UpdateRecord, RF!RemoveRecord

-------------------------------------------------------------------------------
(* Gandi                                                                    *)

GARecords == [name : GA!ApiNames, type : Types, val : Vals, ttl : Nat]
GAKey == [r \in GARecords |-> <<GA!ListedName(r.name), r.type>>]

\* Gandi stores labels, and the empty name for the zone itself.
LEMMA GANaming ==
    /\ Keyed(GARecords, GAKey)
    /\ GA!ApiRecords \subseteq GARecords
    /\ \A k \in Managed \X Types : \A r \in GARecords :
           GAKey[r] = k <=> r.name = <<k[1][1]>> /\ r.type = k[2]
    /\ \A k \in Managed \X Types : <<k[1][1]>> \in GA!ApiNames
<1>1. GA!ApiNames = {<<l>> : l \in Labels} \cup {<<>>}
  BY DEF GA!ApiNames
<1>2. \A l \in Labels : GA!ListedName(<<l>>) = <<l, "root", ".">>
  BY Labelled, Dots DEF GA!ListedName, GA!Root, Root, GA!Dot, Dot
<1>3. GA!ListedName(<<>>) = <<"root", ".">>
  <2>1. <<"root">> \in Seq({"root"})
    OBVIOUS
  <2>2. <<>> \o <<"root">> = <<"root">>
    BY <2>1, ConcatEmptySeq
  <2> QED
    BY <2>2, Parts DEF GA!ListedName, GA!Root, Root, GA!Dot, Dot
<1>4. \A n \in GA!ApiNames : GA!ListedName(n) \in Fqdns
  BY <1>1, <1>2, <1>3, Names, Labelled
<1>5. ASSUME NEW f \in Managed
      PROVE  <<f[1]>> \in GA!ApiNames /\ \A n \in GA!ApiNames : GA!ListedName(n) = f <=> n = <<f[1]>>
  <2>1. PICK l \in Labels : f = <<l, "root", ".">> /\ f[1] = l
    BY Labelled
  <2> QED
    BY <1>1, <1>2, <1>3, <2>1, Labelled, Dots
<1>6. Keyed(GARecords, GAKey)
  BY <1>4 DEF Keyed, GARecords, GAKey, Keys
<1>7. GA!ApiRecords \subseteq GARecords
  BY ValueAssumption DEF GA!ApiRecords, GA!Records, GARecords
<1>8. ASSUME NEW k \in Managed \X Types, NEW r \in GARecords
      PROVE  GAKey[r] = k <=> r.name = <<k[1][1]>> /\ r.type = k[2]
  <2>1. GAKey[r] = <<GA!ListedName(r.name), r.type>> /\ r.name \in GA!ApiNames
    BY DEF GAKey, GARecords
  <2>2. k = <<k[1], k[2]>> /\ k[1] \in Managed
    OBVIOUS
  <2>3. GA!ListedName(r.name) = k[1] <=> r.name = <<k[1][1]>>
    BY <1>5, <2>1, <2>2
  <2> QED
    BY <2>1, <2>2, <2>3
<1> QED
  BY <1>5, <1>6, <1>7, <1>8

\* What the provider lists.
LEMMA GAListing ==
    ASSUME NEW z \in SUBSET GARecords
    PROVE  GA!Listing(z, GA!ListedName) = Values(z, GAKey)
<1>1. GA!Keys = Keys
  BY DEF GA!Keys, Keys, GA!Fqdns, Fqdns, GA!Managed, Managed, GA!Root, Root, GA!Dot, Dot
<1>2. ASSUME NEW k \in Keys
      PROVE  {s \in z : <<GA!ListedName(s.name), s.type>> = k} = {s \in z : GAKey[s] = k}
  BY DEF GAKey
<1> QED
  BY <1>1, <1>2 DEF GA!Listing, Values

\* The name and the values of a version that is prepared: parseName leaves a full
\* name as it is, so that only the suffix is cut off a new record's name.
LEMMA GAParseName == \A f \in Managed : GA!Relative(GA!ParseName(f)) = <<f[1]>>
BY DEF GA!ParseName, GA!Relative, GA!Managed, Managed, GA!Root, Root, GA!Dot, Dot

\* How far a call has come, if nobody else wrote: the version it prepares differs
\* from the one that is set in the call's record set alone.  There it holds what
\* is to be deleted, later the values asked for but for those still missing; and
\* this is what is set in the end.
GAProgress ==
    /\ (draft # <<>> /\ pc # "set") =>
           \A k \in Keys : k # call.key => Values(GA!Draft, GAKey)[k] = Values(zone, GAKey)[k]
    /\ pc = "delete" => \A r \in GA!Draft : GAKey[r] = call.key => r \in doomed
    /\ (pc = "create" /\ draft # <<>>) => Values(GA!Draft, GAKey)[call.key] = call.vals \ missing
    /\ (pc = "create" /\ draft = <<>>) => missing = call.vals /\ Values(zone, GAKey)[call.key] = {}
    /\ pc = "set" => Values(zone, GAKey)[call.key] = call.vals

GAInv ==
    /\ zone \subseteq GARecords
    /\ draft # <<>> => GA!Draft \subseteq GARecords
    /\ pc = "idle" => draft = <<>>
    /\ pc \in {"delete", "set"} => draft # <<>>
    /\ pc = "delete" => \A r \in doomed : GAKey[r] = call.key
    /\ ~disturbed => GAProgress

\* A step that leaves the zone alone is work of the provider or a stutter.
LEMMA GAStutter ==
    ASSUME UNCHANGED <<Stored, call, result, disturbed>>
    PROVE  Kept
BY DEF Kept, Own, Contract!vars

\* versionRemoveRecord finds the records of the version.
LEMMA GAFind ==
    ASSUME CallInv, GAInv, draft # <<>>, GA!Finding(GA!FindRecords), UNCHANGED draft
    PROVE  CallInv' /\ GAInv'
<1>1. PICK found : found = {r \in GA!Draft : GAKey[r] = call.key}
  OBVIOUS
<1>2. /\ pc = "find" /\ doomed' = GA!FindRecords /\ pc' = "delete"
      /\ UNCHANGED <<zone, call, missing, result, disturbed, draft>>
  BY DEF GA!Finding
<1>3. call.key \in Managed \X Types
  BY <1>2 DEF CallInv, Requests
<1>4. GA!FindRecords = found
  <2>1. GA!FindRecords = {r \in GA!Draft : GA!ListedName(r.name) = call.key[1] /\ r.type = call.key[2]}
    BY DEF GA!FindRecords, GA!ParseName, GA!CallKey
  <2>2. GA!Draft \subseteq GARecords /\ call.key = <<call.key[1], call.key[2]>>
    BY <1>3 DEF GAInv
  <2>3. \A r \in GARecords : GAKey[r] = <<GA!ListedName(r.name), r.type>>
    BY DEF GAKey
  <2> QED
    BY <1>1, <2>1, <2>2, <2>3
<1>5. CallInv'
  BY <1>2 DEF CallInv
<1>6. UNCHANGED GA!Draft
  BY <1>2 DEF GA!Draft
<1>7. ~disturbed' => GAProgress'
  BY <1>1, <1>2, <1>4, <1>6 DEF GAInv, GAProgress
<1> QED
  BY <1>1, <1>2, <1>4, <1>5, <1>6, <1>7 DEF GAInv

\* versionRemoveRecord deletes a record from the version.
LEMMA GADelete ==
    ASSUME CallInv, GAInv, draft # <<>>, pc = "delete", NEW r \in doomed,
           draft' = <<GA!Draft \ {r}>>, doomed' = doomed \ {r},
           UNCHANGED <<zone, call, pc, missing, result, disturbed>>
    PROVE  CallInv' /\ GAInv'
<1>1. PICK d, e : d = GA!Draft /\ e = GA!Draft \ {r}
  OBVIOUS
<1>2. GA!Draft' = e /\ draft' # <<>>
  BY <1>1 DEF GA!Draft
<1>3. d \in SUBSET GARecords /\ e \in SUBSET d /\ call.key \in Keys
  BY <1>1, RequestFacts DEF GAInv, CallInv
<1>4. \A k \in Keys : k # call.key => Values(e, GAKey)[k] = Values(d, GAKey)[k]
  <2>1. \A s \in d \ e : GAKey[s] = call.key
    BY <1>1 DEF GAInv
  <2> QED
    BY <1>3, <2>1, GANaming, ValuesWithout
<1>5. CallInv'
  BY DEF CallInv
<1>6. ASSUME ~disturbed PROVE GAProgress'
  <2>1. \A k \in Keys : k # call.key => Values(e, GAKey)[k] = Values(zone, GAKey)[k]
    BY <1>1, <1>4, <1>6 DEF GAInv, GAProgress
  <2>2. \A s \in e : GAKey[s] = call.key => s \in doomed \ {r}
    BY <1>1, <1>6 DEF GAInv, GAProgress
  <2> QED
    BY <1>2, <2>1, <2>2 DEF GAProgress, Values
<1> QED
  BY <1>2, <1>3, <1>5, <1>6 DEF GAInv

\* versionAddRecord adds a record to the version.
LEMMA GACreate ==
    ASSUME CallInv, GAInv, draft # <<>>, pc = "create", NEW v \in missing,
           NEW s \in GARecords, GAKey[s] = call.key, s.val = v,
           draft' = <<GA!Draft \cup {s}>>, missing' = missing \ {v},
           UNCHANGED <<zone, call, pc, doomed, result, disturbed>>
    PROVE  CallInv' /\ GAInv'
<1>1. PICK d, e : d = GA!Draft /\ e = d \cup {s}
  OBVIOUS
<1>2. GA!Draft' = e /\ draft' # <<>>
  BY <1>1 DEF GA!Draft
<1>3. d \in SUBSET GARecords /\ e \in SUBSET GARecords /\ call.key \in Keys
  BY <1>1, RequestFacts DEF GAInv, CallInv
<1>4. /\ Values(e, GAKey)[call.key] = Values(d, GAKey)[call.key] \cup {v}
      /\ \A k \in Keys : k # call.key => Values(e, GAKey)[k] = Values(d, GAKey)[k]
  <2>1. Keyed(GARecords, GAKey) /\ d \in SUBSET e /\ \A r \in e \ d : GAKey[r] = call.key
    BY <1>1, GANaming
  <2>2. \A k \in Keys : k # call.key => Values(d, GAKey)[k] = Values(e, GAKey)[k]
    BY <1>3, <2>1, ValuesWithout
  <2>3. {r \in e : GAKey[r] = call.key} = {r \in d : GAKey[r] = call.key} \cup {s}
    BY <1>1
  <2>4. Values(e, GAKey)[call.key] = Values(d, GAKey)[call.key] \cup {v}
    BY <1>3, <2>3 DEF Values
  <2> QED
    BY <2>2, <2>4
<1>5. CallInv'
  BY DEF CallInv
<1>6. ASSUME ~disturbed PROVE GAProgress'
  <2>1. \A k \in Keys : k # call.key => Values(e, GAKey)[k] = Values(zone, GAKey)[k]
    BY <1>1, <1>4, <1>6 DEF GAInv, GAProgress
  <2>2. Values(e, GAKey)[call.key] = call.vals \ (missing \ {v})
    BY <1>1, <1>4, <1>6 DEF GAInv, GAProgress, CallInv
  <2> QED
    BY <1>2, <2>1, <2>2 DEF GAProgress, Values
<1> QED
  BY <1>2, <1>3, <1>5, <1>6 DEF GAInv

\* setZoneVersion: the version that is set holds what was asked for and is the
\* old one elsewhere, or it undoes what others wrote.
LEMMA GASet ==
    ASSUME provider = "gandi", CallInv, GAInv, GA!SetZoneVersion,
           Stored = Values(zone, GAKey), Stored' = Values(zone', GAKey)
    PROVE  CallInv' /\ GAInv' /\ Kept
<1>1. /\ draft # <<>>
      /\ (pc = "create" /\ missing = {}) \/ (pc = "delete" /\ doomed = {} /\ call.op = "Remove")
      /\ zone' = GA!Draft /\ pc' = "set"
      /\ UNCHANGED <<call, doomed, missing, result, disturbed, draft>>
  BY DEF GA!SetZoneVersion
<1>2. PICK d : d = GA!Draft
  OBVIOUS
<1>3. zone' = d /\ d \in SUBSET GARecords /\ zone \in SUBSET GARecords /\ UNCHANGED GA!Draft
  BY <1>1, <1>2 DEF GAInv, GA!Draft
<1>4. call \in Requests /\ call.key \in Keys /\ (call.op = "Remove" => call.vals = {})
  BY <1>1, RequestFacts DEF CallInv
<1>5. CallInv'
  BY <1>1 DEF CallInv
<1>6. CASE ~disturbed
  <2>1. Values(d, GAKey)[call.key] = call.vals
    <3>1. CASE pc = "create"
      BY <1>1, <1>2, <1>6, <3>1 DEF GAInv, GAProgress
    <3>2. CASE pc = "delete"
      <4>1. {r \in d : GAKey[r] = call.key} = {}
        BY <1>1, <1>2, <1>6, <3>2 DEF GAInv, GAProgress
      <4> QED
        BY <1>1, <1>4, <3>2, <4>1 DEF Values
    <3> QED
      BY <1>1, <3>1, <3>2
  <2>2. \A k \in Keys : k # call.key => Values(d, GAKey)[k] = Values(zone, GAKey)[k]
    BY <1>1, <1>2, <1>6 DEF GAInv, GAProgress
  <2>3. /\ Values(zone', GAKey)[call.key] \subseteq Values(zone, GAKey)[call.key] \cup call.vals
        /\ \A k \in Keys : k # call.key => Values(zone', GAKey)[k] = Values(zone, GAKey)[k]
    BY <1>3, <2>1, <2>2
  <2>4. Own
    BY <1>1, <1>3, <2>3, GANaming, WorkOn
  <2>5. Values(zone, GAKey)'[call.key] = call.vals
    BY <1>3, <2>1 DEF Values
  <2>6. GAInv'
    BY <1>1, <1>2, <1>3, <2>5 DEF GAInv, GAProgress
  <2> QED
    BY <1>5, <2>4, <2>6 DEF Kept
<1>7. CASE disturbed
  <2>1. Stored' \in [Keys -> SUBSET Vals]
    BY <1>3, GANaming, ValuesType
  <2>2. disturbed' = TRUE
    BY <1>1, <1>7 DEF CallInv
  <2>3. Contract!Disturb
    BY <1>1, <2>1, <2>2 DEF Contract!Disturb
  <2>4. GAInv'
    BY <1>1, <1>2, <1>3, <1>7 DEF GAInv
  <2> QED
    BY <1>5, <1>7, <2>3, <2>4 DEF Kept
<1> QED
  BY <1>6, <1>7

\* Every step of the provider keeps the contract.
LEMMA GAKeeps ==
    ASSUME provider = "gandi", UNCHANGED provider, CallInv, GAInv, GA!Next
    PROVE  CallInv' /\ GAInv' /\ Kept
<1>1. zone \in SUBSET GARecords
  BY DEF GAInv
<1>2. Stored = GA!GetRecords /\ Stored = Values(zone, GAKey)
  BY <1>1, GAListing DEF Stored, GA!GetRecords
<1>3. zone' \in SUBSET GARecords => Stored' = Values(zone', GAKey)
  <2>1. Stored' = GA!Listing(zone', GA!ListedName)
    BY DEF Stored, GA!GetRecords
  <2> QED
    BY <2>1, GAListing
<1>4. UNCHANGED zone => UNCHANGED Stored
  BY <1>1, <1>2, <1>3
<1>5. ASSUME pc # "idle" PROVE call \in Requests /\ call.key \in Managed \X Types
  BY <1>5 DEF CallInv, Requests
<1>6. CASE GA!Begin(GA!GetRecords, {}) /\ UNCHANGED draft
  <2>1. Begin(Stored, {})
    BY <1>2, <1>6 DEF GA!Begin, Begin, GA!Managed, Managed, GA!Root, Root, GA!Dot, Dot
  <2>2. PICK c \in Requests : Began(c)
    BY <2>1, BeginMeans
  <2>3. UNCHANGED zone /\ draft = <<>> /\ draft' = <<>>
    BY <1>6, <2>2 DEF Began, GAInv
  <2>4. CallInv' /\ Own
    BY <1>4, <2>2, <2>3, BeginOwn
  <2>5. GAInv'
    <3>1. (pc' = "create" /\ ~disturbed') => missing' = c.vals /\ Values(zone, GAKey)[c.key] = {}
      BY <1>2, <2>2 DEF Began, Contract!Asked
    <3>2. call' = c /\ pc' \in {"create", "find"}
      BY <2>2 DEF Began
    <3>3. ~disturbed' => GAProgress'
      BY <2>3, <3>1, <3>2 DEF GAProgress, Values
    <3> QED
      BY <1>1, <2>3, <3>2, <3>3 DEF GAInv
  <2> QED
    BY <2>4, <2>5 DEF Kept
<1>7. CASE GA!NewZoneVersion
  <2>1. /\ pc \in {"find", "create"} /\ draft = <<>> /\ draft' = <<zone>>
        /\ UNCHANGED <<zone, call, pc, doomed, missing, result, disturbed>>
    BY <1>7 DEF GA!NewZoneVersion, GA!vars
  <2>2. GA!Draft' = zone /\ draft' # <<>>
    BY <2>1 DEF GA!Draft
  <2>3. CallInv'
    BY <2>1 DEF CallInv
  <2>4. ~disturbed' => GAProgress'
    BY <2>1, <2>2 DEF GAInv, GAProgress, Values
  <2>5. GAInv'
    BY <1>1, <2>1, <2>2, <2>4 DEF GAInv
  <2> QED
    BY <1>4, <2>1, <2>3, <2>5, GAStutter
<1>8. CASE GA!VersionRemoveRecord
  <2>1. UNCHANGED <<zone, call, result, disturbed>>
    BY <1>8 DEF GA!VersionRemoveRecord, GA!Finding
  <2>2. CallInv' /\ GAInv'
    BY <1>8, GAFind, GADelete DEF GA!VersionRemoveRecord
  <2> QED
    BY <1>4, <2>1, <2>2, GAStutter
<1>9. CASE GA!VersionAddRecord
  <2>1. PICK v, s :
            /\ v \in missing
            /\ draft # <<>> /\ pc = "create"
            /\ s = [name |-> <<call.key[1][1]>>, type |-> call.key[2], val |-> v, ttl |-> TTL]
            /\ draft' = <<GA!Draft \cup {s}>>
            /\ missing' = missing \ {v}
            /\ UNCHANGED <<zone, call, pc, doomed, result, disturbed>>
    BY <1>5, <1>9, GAParseName DEF GA!VersionAddRecord, GA!CallKey
  <2>2. v \in Vals /\ call.key \in Managed \X Types
    BY <1>5, <2>1, RequestFacts DEF CallInv
  <2>3. s \in GARecords /\ s.name = <<call.key[1][1]>> /\ s.type = call.key[2] /\ s.val = v
    BY <2>1, <2>2, GANaming, ValueAssumption DEF GARecords
  <2>4. GAKey[s] = call.key
    BY <2>2, <2>3, GANaming
  <2>5. CallInv' /\ GAInv'
    BY <2>1, <2>3, <2>4, GACreate
  <2> QED
    BY <1>4, <2>1, <2>5, GAStutter
<1>10. CASE GA!SetZoneVersion
  <2>1. zone' \in SUBSET GARecords
    BY <1>10 DEF GA!SetZoneVersion, GAInv
  <2> QED
    BY <1>2, <1>3, <1>10, <2>1, GASet
<1>11. CASE GA!UpdateRecord
  <2>1. /\ pc = "delete" /\ doomed = {} /\ call.op = "Update" /\ pc' = "create"
        /\ missing' = call.vals /\ UNCHANGED <<zone, call, doomed, result, disturbed, draft>>
    BY <1>11 DEF GA!UpdateRecord, GA!ThenAdd
  <2>2. CallInv' /\ call.key \in Keys /\ UNCHANGED GA!Draft
    BY <2>1, RequestFacts DEF CallInv, GA!Draft
  <2>3. ASSUME ~disturbed PROVE GAProgress'
    <3>1. {r \in GA!Draft : GAKey[r] = call.key} = {}
      BY <2>1, <2>3 DEF GAInv, GAProgress
    <3>2. Values(GA!Draft, GAKey)[call.key] = {}
      BY <2>2, <3>1 DEF Values
    <3>3. \A k \in Keys : k # call.key => Values(GA!Draft, GAKey)[k] = Values(zone, GAKey)[k]
      BY <2>1, <2>3 DEF GAInv, GAProgress
    <3> QED
      BY <2>1, <2>2, <3>2, <3>3 DEF GAInv, GAProgress, Values
  <2>4. GAInv'
    BY <2>1, <2>2, <2>3 DEF GAInv
  <2> QED
    BY <1>4, <2>1, <2>2, <2>4, GAStutter
<1>12. CASE GA!Answered
  <2>1. pc = "set" /\ Return("ok") /\ draft' = <<>>
    BY <1>12 DEF GA!Answered, GA!Return, Return, GA!NoCall, NoCall
  <2>2. disturbed \/ Stored[call.key] = call.vals
    BY <1>2, <2>1 DEF GAInv, GAProgress
  <2>3. CallInv' /\ Own
    BY <1>4, <2>1, <2>2, ReturnOwn DEF Return
  <2>4. GAInv'
    BY <1>1, <2>1 DEF Return, GAInv, GAProgress
  <2> QED
    BY <2>3, <2>4 DEF Kept
<1>13. CASE (GA!RequestFails \/ GA!Crash) /\ draft' = <<>>
  <2>1. PICK res \in {"err", "none"} : pc # "idle" /\ Return(res) /\ draft' = <<>>
    BY <1>13 DEF GA!RequestFails, GA!Crash, GA!Return, Return, GA!NoCall, NoCall
  <2>2. CallInv' /\ Own
    BY <1>4, <2>1, ReturnOwn DEF Return
  <2>3. GAInv'
    BY <1>1, <2>1 DEF Return, GAInv, GAProgress
  <2> QED
    BY <2>2, <2>3 DEF Kept
<1>14. CASE ~disturbed /\ GA!Disturb(GA!ApiRecords) /\ UNCHANGED draft
  <2>1. /\ zone' \in SUBSET GARecords /\ disturbed' = TRUE
        /\ UNCHANGED <<call, pc, doomed, missing, result, draft>>
    BY <1>1, <1>14, GANaming DEF GA!Disturb
  <2>2. Stored' \in [Keys -> SUBSET Vals]
    BY <1>3, <2>1, GANaming, ValuesType
  <2>3. Contract!Disturb /\ ~ByProvider
    BY <2>1, <2>2 DEF Contract!Disturb, ByProvider
  <2>4. CallInv' /\ UNCHANGED GA!Draft
    BY <2>1 DEF CallInv, GA!Draft
  <2>5. GAInv'
    BY <2>1, <2>4 DEF GAInv
  <2> QED
    BY <2>3, <2>4, <2>5 DEF Kept
<1> QED
  BY <1>6, <1>7, <1>8, <1>9, <1>10, <1>11, <1>12, <1>13, <1>14 DEF GA!Next

-------------------------------------------------------------------------------
(* All providers                                                            *)

\* The invariant of the provider that was chosen.
RecordsInv ==
    /\ provider \in {"cloudflare", "digitalocean", "dnsimple", "alidns", "pointhq", "infoblox",
                     "gandi", "ovh", "powerdns", "rfc2136"}
    /\ provider = "cloudflare" => ZoneInv(CFRecords, CFKey)
    /\ provider = "digitalocean" => ZoneInv(DORecords, DOKey)
    /\ provider = "dnsimple" => ZoneInv(DSRecords, DSKey) /\ DSInv
    /\ provider = "alidns" => ZoneInv(ALRecords, ALKey)
    /\ provider = "pointhq" => ZoneInv(PHRecords, PHKey)
    /\ provider = "infoblox" => ZoneInv(IBRecords, IBKey) /\ IBInv
    /\ provider = "gandi" => GAInv
    /\ provider = "ovh" => ZoneInv(OVRecords, OVKey)
    /\ provider = "powerdns" => ZoneInv(PDRecords, PDKey) /\ PDInv
    /\ provider = "rfc2136" => ZoneInv(RFRecords, RFKey) /\ RFInv

\* Only OVH leaves changes unpublished, and never with a success.
ServedInv ==
    /\ provider # "ovh" => served = "current"
    /\ PublishedOnSuccess

ProviderInv == CallInv /\ RecordsInv /\ ServedInv

\* What is stored depends on the zone and the provider.
LEMMA StoredStays ==
    ASSUME UNCHANGED <<zone, provider>>
    PROVE  UNCHANGED Stored
BY DEF Stored, CF!GetRecords, DO!GetRecords, DS!GetRecordsOf, AL!GetRecords, PH!Stored, PH!GetRecords, IB!GetRecordsOf, GA!GetRecords, OV!GetRecords, PD!Stored, RF!Stored, RF!GetRecords, CF!Listing, DO!Listing, DS!Listing, AL!Listing, PH!Listing, IB!Listing, GA!Listing, OV!Listing, PD!Listing, RF!Listing

\* What is stored has the form that the contract speaks about.
LEMMA StoredType ==
    ASSUME RecordsInv
    PROVE  Stored \in [Keys -> SUBSET Vals]
<1>1. CASE provider = "cloudflare"
  <2>1. zone \in SUBSET CFRecords
    BY <1>1 DEF RecordsInv, ZoneInv
  <2>2. Stored = Values(zone, CFKey)
    BY <1>1, <2>1, CFListing DEF Stored, CF!GetRecords
  <2> QED
    BY <2>1, <2>2, CFNaming, ValuesType
<1>2. CASE provider = "digitalocean"
  <2>1. zone \in SUBSET DORecords
    BY <1>2 DEF RecordsInv, ZoneInv
  <2>2. Stored = Values(zone, DOKey)
    BY <1>2, <2>1, DOListing DEF Stored, DO!GetRecords
  <2> QED
    BY <2>1, <2>2, DONaming, ValuesType
<1>3. CASE provider = "dnsimple"
  <2>1. zone \in SUBSET DSRecords
    BY <1>3 DEF RecordsInv, ZoneInv
  <2>2. Stored = Values(zone, DSKey)
    BY <1>3, <2>1, DSListing DEF Stored, DS!GetRecordsOf
  <2> QED
    BY <2>1, <2>2, DSNaming, ValuesType
<1>4. CASE provider = "alidns"
  <2>1. zone \in SUBSET ALRecords
    BY <1>4 DEF RecordsInv, ZoneInv
  <2>2. Stored = Values(zone, ALKey)
    BY <1>4, <2>1, ALListing DEF Stored, AL!GetRecords
  <2> QED
    BY <2>1, <2>2, ALNaming, ValuesType
<1>5. CASE provider = "pointhq"
  <2>1. zone \in SUBSET PHRecords
    BY <1>5 DEF RecordsInv, ZoneInv
  <2>2. Stored = Values(zone, PHKey)
    BY <1>5, <2>1, PHListing DEF Stored, PH!Stored, PH!GetRecords
  <2> QED
    BY <2>1, <2>2, PHNaming, ValuesType
<1>6. CASE provider = "infoblox"
  <2>1. zone \in SUBSET IBRecords
    BY <1>6 DEF RecordsInv, ZoneInv
  <2>2. Stored = Values(zone, IBKey)
    BY <1>6, <2>1, IBListing DEF Stored
  <2> QED
    BY <2>1, <2>2, IBNaming, ValuesType
<1>7. CASE provider = "gandi"
  <2>1. zone \in SUBSET GARecords
    BY <1>7 DEF RecordsInv, GAInv
  <2>2. Stored = Values(zone, GAKey)
    BY <1>7, <2>1, GAListing DEF Stored, GA!GetRecords
  <2> QED
    BY <2>1, <2>2, GANaming, ValuesType
<1>8. CASE provider = "ovh"
  <2>1. zone \in SUBSET OVRecords
    BY <1>8 DEF RecordsInv, ZoneInv
  <2>2. Stored = Values(zone, OVKey)
    BY <1>8, <2>1, OVListing DEF Stored, OV!GetRecords
  <2> QED
    BY <2>1, <2>2, OVNaming, ValuesType
<1>9. CASE provider = "powerdns"
  <2>1. zone \in SUBSET PDRecords
    BY <1>9 DEF RecordsInv, ZoneInv
  <2>2. Stored = Values(zone, PDKey)
    BY <1>9, <2>1, PDListing DEF Stored, PD!Stored
  <2> QED
    BY <2>1, <2>2, PDNaming, ValuesType
<1>10. CASE provider = "rfc2136"
  <2>1. zone \in SUBSET RFRecords
    BY <1>10 DEF RecordsInv, ZoneInv
  <2>2. Stored = Values(zone, RFKey)
    BY <1>10, <2>1, RFListing DEF Stored, RF!Stored, RF!GetRecords
  <2> QED
    BY <2>1, <2>2, RFNaming, ValuesType
<1> QED
  BY <1>1, <1>2, <1>3, <1>4, <1>5, <1>6, <1>7, <1>8, <1>9, <1>10 DEF RecordsInv

\* A provider begins with any records of its own form.
LEMMA InitHolds == Init => ProviderInv /\ Contract!Init
<1> SUFFICES ASSUME Init PROVE ProviderInv /\ Contract!Init
  OBVIOUS
<1>1. /\ pc = "idle" /\ call = NoCall /\ doomed = {} /\ missing = {} /\ result = "none"
      /\ disturbed = FALSE /\ draft = <<>> /\ served = "current"
  BY DEF Init, NoCall, CF!Init, CF!InitZone, CF!NoCall, DO!Init, DO!InitZone, DO!NoCall, DS!Init, DS!InitZone, DS!NoCall, AL!Init, AL!InitZone, AL!NoCall, PH!Init, PH!InitZone, PH!NoCall, IB!Init, IB!InitZone, IB!NoCall, GA!Init, GA!InitZone, GA!NoCall, OV!Init, OV!InitZone, OV!NoCall, PD!Init, PD!InitZone, PD!NoCall, RF!Init, RF!InitZone, RF!NoCall
<1>2. CallInv /\ ServedInv
  BY <1>1 DEF CallInv, ServedInv, PublishedOnSuccess
<1>3. ASSUME provider = "cloudflare", CF!Init PROVE RecordsInv
  <2>1. zone \subseteq CFRecords
    BY <1>3, CFNaming DEF CF!Init, CF!InitZone
  <2> QED
    BY <1>1, <1>3, <2>1 DEF RecordsInv, ZoneInv
<1>4. ASSUME provider = "digitalocean", DO!Init PROVE RecordsInv
  <2>1. zone \subseteq DORecords
    BY <1>4, DONaming DEF DO!Init, DO!InitZone
  <2> QED
    BY <1>1, <1>4, <2>1 DEF RecordsInv, ZoneInv
<1>5. ASSUME provider = "dnsimple", DS!Init PROVE RecordsInv
  <2>1. zone \subseteq DSRecords
    BY <1>5, DSNaming DEF DS!Init, DS!InitZone
  <2>2. IsFiniteSet(zone)
    BY <1>5 DEF DS!Init, DS!InitZone, DS!IsFiniteSet, IsFiniteSet
  <2> QED
    BY <1>1, <1>5, <2>1, <2>2 DEF RecordsInv, ZoneInv, DSInv
<1>6. ASSUME provider = "alidns", AL!Init PROVE RecordsInv
  <2>1. zone \subseteq ALRecords
    BY <1>6, ALNaming DEF AL!Init, AL!InitZone
  <2> QED
    BY <1>1, <1>6, <2>1 DEF RecordsInv, ZoneInv
<1>7. ASSUME provider = "pointhq", PH!Init PROVE RecordsInv
  <2>1. zone \subseteq PHRecords
    BY <1>7, PHNaming DEF PH!Init, PH!InitZone
  <2> QED
    BY <1>1, <1>7, <2>1 DEF RecordsInv, ZoneInv
<1>8. ASSUME provider = "infoblox", IB!Init PROVE RecordsInv
  <2>1. zone \subseteq IBRecords
    BY <1>8, IBNaming DEF IB!Init, IB!InitZone
  <2>2. IsFiniteSet(zone)
    BY <1>8 DEF IB!Init, IB!InitZone, IB!IsFiniteSet, IsFiniteSet
  <2> QED
    BY <1>1, <1>8, <2>1, <2>2 DEF RecordsInv, ZoneInv, IBInv
<1>9. ASSUME provider = "gandi", GA!Init PROVE RecordsInv
  <2>1. zone \subseteq GARecords
    BY <1>9, GANaming DEF GA!Init, GA!InitZone
  <2> QED
    BY <1>1, <1>9, <2>1 DEF RecordsInv, GAInv, GAProgress
<1>10. ASSUME provider = "ovh", OV!Init PROVE RecordsInv
  <2>1. zone \subseteq OVRecords
    BY <1>10, OVNaming DEF OV!Init, OV!InitZone
  <2> QED
    BY <1>1, <1>10, <2>1 DEF RecordsInv, ZoneInv
<1>11. ASSUME provider = "powerdns", PD!Init PROVE RecordsInv
  <2>1. zone \subseteq PDRecords
    BY <1>11, PDNaming DEF PD!Init, PD!InitZone
  <2> QED
    BY <1>1, <1>11, <2>1 DEF RecordsInv, ZoneInv, PDInv
<1>12. ASSUME provider = "rfc2136", RF!Init PROVE RecordsInv
  <2>1. zone \subseteq RFRecords
    BY <1>12, RFNaming DEF RF!Init, RF!InitZone
  <2> QED
    BY <1>1, <1>12, <2>1 DEF RecordsInv, ZoneInv, RFInv
<1>13. RecordsInv
  BY <1>3, <1>4, <1>5, <1>6, <1>7, <1>8, <1>9, <1>10, <1>11, <1>12 DEF Init
<1>14. Contract!Init
  BY <1>1, <1>13, StoredType DEF Contract!Init, NoCall, Contract!NoCall
<1> QED
  BY <1>2, <1>13, <1>14 DEF ProviderInv

\* Every step of every provider keeps its invariant and the contract.
LEMMA RecordsStep ==
    ASSUME CallInv, RecordsInv, Next
    PROVE  CallInv' /\ RecordsInv' /\ Kept
<1>1. UNCHANGED provider /\ (provider # "gandi" => UNCHANGED draft)
  BY DEF Next
<1>2. CASE provider = "cloudflare" /\ CF!Next
  <2>1. ZoneInv(CFRecords, CFKey) /\ UNCHANGED draft
    BY <1>1, <1>2 DEF RecordsInv
  <2>2. CallInv' /\ ZoneInv(CFRecords, CFKey)' /\ Kept
    BY <1>1, <1>2, <2>1, CFSteps, CFNaming, StepsKeep
  <2> QED
    BY <1>1, <1>2, <2>2 DEF RecordsInv
<1>3. CASE provider = "digitalocean" /\ DO!Next
  <2>1. ZoneInv(DORecords, DOKey) /\ UNCHANGED draft
    BY <1>1, <1>3 DEF RecordsInv
  <2>2. CallInv' /\ ZoneInv(DORecords, DOKey)' /\ Kept
    BY <1>1, <1>3, <2>1, DOSteps, DONaming, StepsKeep
  <2> QED
    BY <1>1, <1>3, <2>2 DEF RecordsInv
<1>4. CASE provider = "dnsimple" /\ DS!Next
  <2>1. ZoneInv(DSRecords, DSKey) /\ DSInv /\ UNCHANGED draft
    BY <1>1, <1>4 DEF RecordsInv
  <2>2. CallInv' /\ ZoneInv(DSRecords, DSKey)' /\ Kept
    BY <1>1, <1>4, <2>1, DSSteps, DSNaming, StepsKeep
  <2>3. DSInv'
    BY <1>4, <2>1, DSKeeps
  <2> QED
    BY <1>1, <1>4, <2>2, <2>3 DEF RecordsInv
<1>5. CASE provider = "alidns" /\ AL!Next
  <2>1. ZoneInv(ALRecords, ALKey) /\ UNCHANGED draft
    BY <1>1, <1>5 DEF RecordsInv
  <2>2. CallInv' /\ ZoneInv(ALRecords, ALKey)' /\ Kept
    BY <1>1, <1>5, <2>1, ALSteps, ALNaming, StepsKeep
  <2> QED
    BY <1>1, <1>5, <2>2 DEF RecordsInv
<1>6. CASE provider = "pointhq" /\ PH!Next
  <2>1. ZoneInv(PHRecords, PHKey) /\ UNCHANGED draft
    BY <1>1, <1>6 DEF RecordsInv
  <2>2. CallInv' /\ ZoneInv(PHRecords, PHKey)' /\ Kept
    BY <1>1, <1>6, <2>1, PHSteps, PHNaming, StepsKeep
  <2> QED
    BY <1>1, <1>6, <2>2 DEF RecordsInv
<1>7. CASE provider = "infoblox" /\ IB!Next
  <2>1. ZoneInv(IBRecords, IBKey) /\ IBInv /\ UNCHANGED draft
    BY <1>1, <1>7 DEF RecordsInv
  <2>2. /\ Stored = Values(zone, IBKey)
        /\ zone' \in SUBSET IBRecords => Stored' = Values(zone', IBKey)
        /\ Steps(IBRecords, IBKey) \/ (pc = "create" /\ disturbed /\ Return("ok"))
    BY <1>1, <1>7, <2>1, IBSteps
  <2>3. ASSUME Steps(IBRecords, IBKey) PROVE CallInv' /\ ZoneInv(IBRecords, IBKey)' /\ Kept
    BY <2>1, <2>2, <2>3, IBNaming, StepsKeep
  <2>4. ASSUME pc = "create", disturbed, Return("ok")
        PROVE  CallInv' /\ ZoneInv(IBRecords, IBKey)' /\ Kept
    <3>1. UNCHANGED Stored
      BY <1>1, <2>4, StoredStays DEF Return
    <3> QED
      BY <2>1, <2>4, <3>1, ReturnStep DEF Kept
  <2>5. IBInv'
    BY <1>7, <2>1, IBKeeps
  <2> QED
    BY <1>1, <1>7, <2>2, <2>3, <2>4, <2>5 DEF RecordsInv
<1>8. CASE provider = "gandi" /\ GA!Next
  <2>1. CallInv' /\ GAInv' /\ Kept
    BY <1>1, <1>8, GAKeeps DEF RecordsInv
  <2> QED
    BY <1>1, <1>8, <2>1 DEF RecordsInv
<1>9. CASE provider = "ovh" /\ OV!Next
  <2>1. ZoneInv(OVRecords, OVKey) /\ UNCHANGED draft
    BY <1>1, <1>9 DEF RecordsInv
  <2>2. CallInv' /\ ZoneInv(OVRecords, OVKey)' /\ Kept
    BY <1>1, <1>9, <2>1, OVSteps, OVNaming, StepsKeep
  <2> QED
    BY <1>1, <1>9, <2>2 DEF RecordsInv
<1>10. CASE provider = "powerdns" /\ PD!Next
  <2>1. CallInv' /\ ZoneInv(PDRecords, PDKey)' /\ PDInv' /\ Kept
    BY <1>1, <1>10, PDKeeps DEF RecordsInv
  <2> QED
    BY <1>1, <1>10, <2>1 DEF RecordsInv
<1>11. CASE provider = "rfc2136" /\ RF!Next
  <2>1. CallInv' /\ ZoneInv(RFRecords, RFKey)' /\ RFInv' /\ Kept
    BY <1>1, <1>11, RFKeeps DEF RecordsInv
  <2> QED
    BY <1>1, <1>11, <2>1 DEF RecordsInv
<1> QED
  BY <1>2, <1>3, <1>4, <1>5, <1>6, <1>7, <1>8, <1>9, <1>10, <1>11 DEF Next

\* A success of OVH comes with a refresh.
LEMMA ServedStep ==
    ASSUME CallInv, ServedInv, Next
    PROVE  ServedInv'
<1>1. UNCHANGED provider /\ (provider # "ovh" => UNCHANGED served)
  BY DEF Next
<1>2. CASE provider # "ovh"
  BY <1>1, <1>2 DEF ServedInv, PublishedOnSuccess
<1>3. CASE provider = "ovh"
  <2>1. OV!Next
    BY <1>3 DEF Next
  <2>2. pc = "idle" => result' # "ok" \/ UNCHANGED <<result, served>>
    BY <2>1 DEF OV!Next, OV!AddRecord, OV!Creating, OV!Created, OV!UpdateRecord, OV!ThenAdd,
                OV!RemoveRecord, OV!Finding, OV!Deleting, OV!Removed, OV!Begin, OV!RequestFails,
                OV!Crash, OV!Disturb
  <2>3. ASSUME pc # "idle", result' = "ok" PROVE served' # "pending"
    <3>1. result # "ok"
      BY <2>3 DEF CallInv
    <3>2. (OV!Created /\ OV!RefreshZone) \/ (OV!Removed /\ OV!RefreshZone)
      BY <2>1, <2>3, <3>1
         DEF OV!Next, OV!AddRecord, OV!Creating, OV!Create, OV!UpdateRecord, OV!ThenAdd,
             OV!RemoveRecord, OV!Finding, OV!Deleting, OV!Return, OV!Begin, OV!RequestFails,
             OV!Crash, OV!Disturb
    <3> QED
      BY <3>2 DEF OV!RefreshZone
  <2> QED
    BY <1>1, <1>3, <2>2, <2>3 DEF ServedInv, PublishedOnSuccess
<1> QED
  BY <1>2, <1>3

\* A step that changes nothing.
LEMMA StutterStep ==
    ASSUME ProviderInv, UNCHANGED allVars
    PROVE  ProviderInv' /\ Kept
<1>1. UNCHANGED <<zone, call, pc, doomed, missing, result, disturbed, provider, draft, served>>
  BY DEF allVars, vars
<1>2. CallInv' /\ ServedInv'
  BY <1>1 DEF ProviderInv, CallInv, ServedInv, PublishedOnSuccess
<1>3. RecordsInv'
  <2>1. ASSUME NEW R, NEW K, ZoneInv(R, K) PROVE ZoneInv(R, K)'
    BY <1>1, <2>1 DEF ZoneInv, Values
  <2>2. DSInv => DSInv'
    BY <1>1 DEF DSInv
  <2>3. IBInv => IBInv'
    BY <1>1 DEF IBInv, IB!OfType
  <2>4. (PDInv => PDInv') /\ (RFInv => RFInv')
    BY <1>1 DEF PDInv, RFInv
  <2>5. GAInv => GAInv'
    BY <1>1 DEF GAInv, GAProgress, GA!Draft, Values
  <2> QED
    BY <1>1, <2>1, <2>2, <2>3, <2>4, <2>5 DEF ProviderInv, RecordsInv
<1>4. Kept
  BY <1>1, StoredStays DEF Kept, Own, Contract!vars
<1> QED
  BY <1>2, <1>3, <1>4 DEF ProviderInv

\* All that is needed of a step.
LEMMA ProviderStep ==
    ASSUME ProviderInv, [Next]_allVars
    PROVE  ProviderInv' /\ Kept
<1>1. CASE Next
  BY <1>1, RecordsStep, ServedStep DEF ProviderInv
<1>2. CASE UNCHANGED allVars
  BY <1>2, StutterStep
<1> QED
  BY <1>1, <1>2

\* A step that keeps the contract is a step of it.
LEMMA KeptIsContract == Kept => [Contract!Next]_(Contract!vars)
BY DEF Kept, Own, Contract!Next

\* A step that keeps the contract touches only the record set that its call names.
LEMMA KeptIsNamed ==
    ASSUME ProviderInv, Kept, ByProvider, NEW k \in Keys, Stored'[k] # Stored[k]
    PROVE  k = call.key \/ (provider = "gandi" /\ disturbed)
<1>1. Stored \in [Keys -> SUBSET Vals]
  BY StoredType DEF ProviderInv
<1>2. CASE Contract!Work
  <2>1. PICK vs : Stored' = [Stored EXCEPT ![call.key] = vs]
    BY <1>2 DEF Contract!Work
  <2> QED
    BY <1>1, <2>1
<1>3. CASE Own /\ ~Contract!Work
  <2>1. UNCHANGED Stored
    BY <1>3 DEF Own, Contract!Begin, Contract!Succeed, Contract!GiveUp, Contract!vars
  <2> QED
    BY <2>1
<1>4. CASE UNCHANGED Stored
  BY <1>4
<1> QED
  BY <1>2, <1>3, <1>4 DEF Kept

\* The invariant: where a call stands, what it has done to its record set, and
\* what of it is published.
THEOREM ProvidersInvariant == Spec => []ProviderInv
<1>1. Init => ProviderInv
  BY InitHolds
<1>2. ProviderInv /\ [Next]_allVars => ProviderInv'
  BY ProviderStep
<1> QED
  BY <1>1, <1>2, PTL DEF Spec

\* Every provider keeps the contract that the reconciliation relies on: AddRecord,
\* UpdateRecord and RemoveRecord change only the record set they name, leave old and
\* new values there and no others, and report success only if the record set is
\* what was asked for, unless others wrote meanwhile or the provider is excused.
THEOREM ContractHonoured == Spec => HonoursContract
<1>1. Init => Contract!Init
  BY InitHolds
<1>2. ProviderInv /\ [Next]_allVars => [Contract!Next]_(Contract!vars)
  BY ProviderStep, KeptIsContract
<1> QED
  BY <1>1, <1>2, ProvidersInvariant, PTL DEF Spec, HonoursContract, Contract!Spec

\* No step of AddRecord, UpdateRecord or RemoveRecord of any provider changes a
\* record set other than the one the call names, excused or not; but Gandi may
\* undo what others wrote.
THEOREM OnlyTheNamedSet == Spec => OthersUntouched
<1>1. ProviderInv /\ [Next]_allVars =>
        [ByProvider =>
            \A k \in Keys : Stored'[k] # Stored[k] =>
                k = call.key \/ (provider = "gandi" /\ disturbed)]_allVars
  BY ProviderStep, KeptIsNamed
<1> QED
  BY <1>1, ProvidersInvariant, PTL DEF Spec, OthersUntouched

\* AddRecord, UpdateRecord and RemoveRecord of OVH report success only after a
\* refreshZone that came after their last change.
THEOREM SuccessPublished == Spec => []PublishedOnSuccess
<1>1. ProviderInv => PublishedOnSuccess
  BY DEF ProviderInv, ServedInv
<1> QED
  BY <1>1, ProvidersInvariant, PTL
===============================================================================
