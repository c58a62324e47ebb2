----------------------------- MODULE ListingsProofs -----------------------------
(***************************************************************************)
(* Proofs about module Listings: for zones and pages of any size, every     *)
(* listing of several requests keeps its types and, once complete, is       *)
(* faithful, whatever others write between the requests.                    *)
(*                                                                          *)
(* The argument rests on the rank of a record: the number of records up to  *)
(* it.  Ranks count the records without gaps, so a numbered page holds the  *)
(* ranks of an interval, and a record that is added can only push others    *)
(* to later pages; a deletion would pull one to a page already fetched.     *)
(***************************************************************************)
EXTENDS Listings, Integers, FunctionTheorems, FiniteSetTheorems, TLAPS

-------------------------------------------------------------------------------
(* Ranks                                                                    *)

UpTo(S, p) == {q \in S : q <= p}

RankOf(S) == [p \in S |-> Cardinality(UpTo(S, p))]

\* Of any set of positions: it is finite, ranks lie between 1 and its size, and a
\* later record has a higher rank.
LEMMA RankGrows ==
    ASSUME NEW S \in SUBSET Positions
    PROVE  /\ IsFiniteSet(S)
           /\ \A p \in S : RankOf(S)[p] \in 1..Cardinality(S)
           /\ \A p, q \in S : p < q => RankOf(S)[p] < RankOf(S)[q]
<1>1. IsFiniteSet(S) /\ Cardinality(S) \in Nat
  <2>1. IsFiniteSet(Positions)
    BY ListingAssumption, FS_Interval DEF Positions
  <2> QED
    BY <2>1, FS_Subset, FS_CardinalityType
<1>2. ASSUME NEW p \in S
      PROVE  /\ UpTo(S, p) \in SUBSET S /\ p \in UpTo(S, p)
             /\ RankOf(S)[p] = Cardinality(UpTo(S, p))
             /\ IsFiniteSet(UpTo(S, p))
             /\ Cardinality(UpTo(S, p)) \in 1..Cardinality(S)
  <2>1. UpTo(S, p) \in SUBSET S /\ p \in UpTo(S, p) /\ p \in Int
    BY DEF UpTo, Positions
  <2>2. /\ IsFiniteSet(UpTo(S, p)) /\ Cardinality(UpTo(S, p)) \in Nat
        /\ Cardinality(UpTo(S, p)) <= Cardinality(S)
    BY <1>1, <2>1, FS_Subset, FS_CardinalityType
  <2>3. Cardinality(UpTo(S, p)) # 0
    BY <2>1, <2>2, FS_EmptySet
  <2> QED
    BY <1>1, <2>1, <2>2, <2>3 DEF RankOf
<1>3. ASSUME NEW p \in S, NEW q \in S, p < q
      PROVE  RankOf(S)[p] < RankOf(S)[q]
  <2> S \subseteq Int
    BY DEF Positions
  <2>1. UpTo(S, p) \in SUBSET UpTo(S, q) /\ q \notin UpTo(S, p)
    <3>1. p < q
      BY <1>3
    <3>2. q \notin UpTo(S, p)
      BY <3>1 DEF UpTo
    <3>3. ASSUME NEW r \in UpTo(S, p) PROVE r \in UpTo(S, q)
      BY <3>1 DEF UpTo
    <3> QED
      BY <3>2, <3>3
  <2>2. Cardinality(UpTo(S, p)) <= Cardinality(UpTo(S, q))
    BY <1>2, <2>1, FS_Subset
  <2>3. Cardinality(UpTo(S, q)) # Cardinality(UpTo(S, p))
    BY <1>2, <2>1, FS_Subset
  <2> QED
    BY <1>1, <1>2, <2>2, <2>3
<1> QED
  BY <1>1, <1>2, <1>3

\* Ranks leave no gap: they number the records from 1 to the number of records.
LEMMA RankNumbers ==
    ASSUME NEW S \in SUBSET Positions
    PROVE  RankOf(S) \in Bijection(S, 1..Cardinality(S))
<1> DEFINE N == Cardinality(S)
<1>1. /\ IsFiniteSet(S) /\ N \in Nat
      /\ \A p \in S : RankOf(S)[p] \in 1..N
      /\ \A p, q \in S : p < q => RankOf(S)[p] < RankOf(S)[q]
  BY RankGrows, FS_CardinalityType
<1>2. RankOf(S) \in [S -> 1..N]
  BY <1>1 DEF RankOf
<1>3. \A p, q \in S : RankOf(S)[p] = RankOf(S)[q] => p = q
  <2> SUFFICES ASSUME NEW p \in S, NEW q \in S, p # q
               PROVE  RankOf(S)[p] # RankOf(S)[q]
    OBVIOUS
  <2>1. p < q \/ q < p
    BY DEF Positions
  <2> QED
    BY <1>1, <2>1
<1>4. RankOf(S) \in Injection(S, 1..N)
  BY <1>2, <1>3, Fun_IsInj
<1>5. IsFiniteSet(1..N) /\ Cardinality(1..N) = N
  BY <1>1, FS_Interval
<1>6. RankOf(S) \in Surjection(S, 1..N)
  BY <1>4, <1>5, FS_Injection
<1> QED
  BY <1>4, <1>6 DEF Bijection

\* A set of positions that is not empty has a least element: the one of rank 1.
LEMMA LeastExists ==
    ASSUME NEW S \in SUBSET Positions, S # {}
    PROVE  Min(S) \in S /\ \A q \in S : Min(S) <= q
<1>1. IsFiniteSet(S) /\ Cardinality(S) \in Nat \ {0}
  BY RankGrows, FS_CardinalityType, FS_EmptySet
<1>2. RankOf(S) \in Surjection(S, 1..Cardinality(S))
  BY RankNumbers DEF Bijection
<1>3. PICK p \in S : RankOf(S)[p] = 1
  BY <1>1, <1>2 DEF Surjection
<1>4. \A q \in S : p <= q
  <2> SUFFICES ASSUME NEW q \in S, q < p PROVE FALSE
    BY DEF Positions
  <2> QED
    BY <1>1, <1>3, RankGrows
<1> QED
  BY <1>3, <1>4 DEF Min

-------------------------------------------------------------------------------
(* Numbered pages                                                           *)

\* The ranks on page n, of N records in all.
RanksOn(n, N) == {k \in 1..N : k \in ((n - 1) * MaxItems + 1)..(n * MaxItems)}

\* Page n starts behind at least n - 1 records and ends MaxItems further on.
LEMMA PageBounds ==
    ASSUME NEW n \in Nat \ {0}
    PROVE  /\ (n - 1) * MaxItems \in Nat /\ n * MaxItems \in Nat
           /\ n * MaxItems = (n - 1) * MaxItems + MaxItems
           /\ (n - 1) * MaxItems >= n - 1
<1> DEFINE k == n - 1
<1>1. k \in Nat /\ n = k + 1 /\ MaxItems \in Nat /\ MaxItems >= 1
  BY ListingAssumption
<1> HIDE DEF k
<1>2. k * MaxItems \in Nat /\ (k + 1) * MaxItems = k * MaxItems + MaxItems
  BY <1>1
<1>3. k * MaxItems >= k
  BY <1>1
<1>4. n - 1 = k
  BY DEF k
<1> QED
  BY <1>1, <1>2, <1>3, <1>4

\* How many of N records page n holds.
LEMMA RanksOnPage ==
    ASSUME NEW n \in Nat \ {0}, NEW N \in Nat
    PROVE  /\ IsFiniteSet(RanksOn(n, N))
           /\ N <= (n - 1) * MaxItems => Cardinality(RanksOn(n, N)) = 0
           /\ ((n - 1) * MaxItems <= N /\ N <= n * MaxItems) =>
                   Cardinality(RanksOn(n, N)) = N - (n - 1) * MaxItems
           /\ N >= n * MaxItems => Cardinality(RanksOn(n, N)) = MaxItems
<1> DEFINE b == (n - 1) * MaxItems
<1>1. b \in Nat /\ MaxItems \in Nat \ {0} /\ n * MaxItems = b + MaxItems
  BY PageBounds, ListingAssumption
<1> HIDE DEF b
<1>2. RanksOn(n, N) = {k \in 1..N : k \in (b + 1)..(b + MaxItems)}
  BY <1>1 DEF RanksOn, b
<1>3. CASE N <= b
  <2>1. RanksOn(n, N) = {}
    BY <1>1, <1>2, <1>3
  <2> QED
    BY <1>1, <1>3, <2>1, FS_EmptySet DEF b
<1>4. CASE b < N /\ N <= b + MaxItems
  <2>1. RanksOn(n, N) = (b + 1)..N
    BY <1>1, <1>2, <1>4
  <2>2. IsFiniteSet((b + 1)..N) /\ Cardinality((b + 1)..N) = N - b
    BY <1>1, <1>4, FS_Interval
  <2> QED
    BY <1>1, <1>4, <2>1, <2>2 DEF b
<1>5. CASE N > b + MaxItems
  <2>1. RanksOn(n, N) = (b + 1)..(b + MaxItems)
    BY <1>1, <1>2, <1>5
  <2>2. IsFiniteSet((b + 1)..(b + MaxItems)) /\ Cardinality((b + 1)..(b + MaxItems)) = MaxItems
    BY <1>1, FS_Interval
  <2> QED
    BY <1>1, <1>5, <2>1, <2>2 DEF b
<1> QED
  BY <1>1, <1>3, <1>4, <1>5

\* Page n of the zone has as many records as there are ranks on it.
LEMMA NumberedSize ==
    ASSUME stored \in [Positions -> Contents], NEW n \in Nat \ {0}
    PROVE  /\ Stored \in SUBSET Positions
           /\ TotalCount \in Nat /\ TotalCount <= Last
           /\ Numbered(n) = {p \in Stored : RankOf(Stored)[p] \in ((n - 1) * MaxItems + 1)..(n * MaxItems)}
           /\ IsFiniteSet(Numbered(n))
           /\ Cardinality(Numbered(n)) = Cardinality(RanksOn(n, TotalCount))
<1>1. Stored \in SUBSET Positions
  BY DEF Stored
<1>2. TotalCount \in Nat /\ TotalCount <= Last
  <2>1. IsFiniteSet(Positions) /\ Cardinality(Positions) = Last
    BY ListingAssumption, FS_Interval DEF Positions
  <2> QED
    BY <1>1, <2>1, FS_Subset, FS_CardinalityType DEF TotalCount
<1>3. Numbered(n) = {p \in Stored : RankOf(Stored)[p] \in ((n - 1) * MaxItems + 1)..(n * MaxItems)}
  BY DEF Numbered, RankOf, UpTo
<1> DEFINE f == Restrict(RankOf(Stored), Numbered(n))
<1>4. RankOf(Stored) \in Bijection(Stored, 1..TotalCount)
  BY <1>1, RankNumbers DEF TotalCount
<1>5. Numbered(n) \subseteq Stored
  BY <1>3
<1>6. f \in Bijection(Numbered(n), Range(f))
  BY <1>4, <1>5, Fun_BijRestrict
<1>7. Range(f) = RanksOn(n, TotalCount)
  <2>1. Range(f) = {RankOf(Stored)[p] : p \in Numbered(n)}
    BY DEF Range, Restrict
  <2>2. RankOf(Stored) \in [Stored -> 1..TotalCount]
    BY <1>4 DEF Bijection, Injection
  <2>3. \A k \in 1..TotalCount : \E p \in Stored : RankOf(Stored)[p] = k
    BY <1>4 DEF Bijection, Surjection
  <2> QED
    BY <1>3, <2>1, <2>2, <2>3 DEF RanksOn
<1>8. IsFiniteSet(Numbered(n))
  BY <1>1, <1>5, RankGrows
<1>9. Cardinality(Range(f)) = Cardinality(Numbered(n))
  <2>1. ExistsBijection(Numbered(n), Range(f))
    BY <1>6, Fun_ExistsBij
  <2> QED
    BY <1>8, <2>1, FS_Bijection
<1> QED
  BY <1>1, <1>2, <1>3, <1>7, <1>8, <1>9

-------------------------------------------------------------------------------
(* The inductive invariant                                                  *)

\* What was seen of a record that nobody wrote is what is stored of it.
SeenAsStored == \A rr \in rrSets : rr[1] \in stable => rr[2] = stored[rr[1]]

\* The records in the zone all the time.
Lasting == stable \cap Stored

\* Route 53: what was seen lies before the marker, each record set once, and all
\* lasting records before the marker were seen.
MarkedPages ==
    lister = "route53" =>
        /\ \A r, q \in rrSets : r[1] = q[1] => r = q
        /\ pc = "list" =>
              /\ \A rr \in rrSets : rr[1] < marker
              /\ \A p \in Lasting : p < marker => <<p, stored[p]>> \in rrSets
        /\ pc = "done" => \A p \in Lasting : <<p, stored[p]>> \in rrSets

\* Numbered pages: unless a record was deleted, all lasting records of the pages
\* before this one were seen.  AliDNS goes on only behind a full page.
NumberedPages ==
    lister # "route53" =>
        /\ (pc = "list" /\ ~shrunk) => \A p \in Lasting :
              RankOf(Stored)[p] <= (marker - 1) * MaxItems => <<p, stored[p]>> \in rrSets
        /\ (pc = "list" /\ lister = "alidns") => count = (marker - 1) * MaxItems
        /\ (pc = "done" /\ ~shrunk) => \A p \in Lasting : <<p, stored[p]>> \in rrSets

ListInv ==
    /\ TypeOK
    /\ lister \in {"route53", "digitalocean", "alidns"}
    /\ count \in Nat
    /\ shrunk \in BOOLEAN
    /\ SeenAsStored
    /\ MarkedPages
    /\ NumberedPages

\* What a numbered page says of the ranks: it is empty only if no record lies
\* behind the pages before it, and not full only if none lies behind it.
LEMMA PageTells ==
    ASSUME TypeOK
    PROVE  LET page == Numbered(marker) IN
           /\ marker \in Nat \ {0} /\ (marker - 1) * MaxItems \in Nat
           /\ Stored \in SUBSET Positions /\ TotalCount \in Nat
           /\ \A p \in Stored : RankOf(Stored)[p] \in 1..TotalCount
           /\ Cardinality(page) \in 0..MaxItems
           /\ page = {} <=> Cardinality(page) = 0
           /\ page = {} <=> TotalCount <= (marker - 1) * MaxItems
           /\ page # {} => marker <= Last
           /\ Cardinality(page) < MaxItems => TotalCount <= marker * MaxItems
           /\ (Cardinality(page) < MaxItems /\ page # {}) =>
                  (marker - 1) * MaxItems + Cardinality(page) = TotalCount
           /\ (marker - 1) * MaxItems + Cardinality(page) >= TotalCount =>
                  TotalCount <= marker * MaxItems
<1> DEFINE page == Numbered(marker)
           b == (marker - 1) * MaxItems
           N == TotalCount
<1>1. marker \in Nat \ {0} /\ stored \in [Positions -> Contents]
  BY DEF TypeOK
<1>2. /\ b \in Nat /\ marker * MaxItems = b + MaxItems /\ b >= marker - 1
      /\ MaxItems \in Nat \ {0} /\ Last \in Nat
  BY <1>1, PageBounds, ListingAssumption
<1>3. /\ Stored \in SUBSET Positions /\ N \in Nat /\ N <= Last
      /\ IsFiniteSet(page)
      /\ Cardinality(page) = Cardinality(RanksOn(marker, N))
  BY <1>1, NumberedSize
<1>4. /\ N <= b => Cardinality(page) = 0
      /\ (b <= N /\ N <= b + MaxItems) => Cardinality(page) = N - b
      /\ N >= b + MaxItems => Cardinality(page) = MaxItems
  BY <1>1, <1>2, <1>3, RanksOnPage
<1>5. page = {} <=> Cardinality(page) = 0
  BY <1>3, FS_EmptySet
<1>6. \A p \in Stored : RankOf(Stored)[p] \in 1..N
  BY <1>3, RankGrows DEF TotalCount
<1> HIDE DEF page, b, N
<1>7. /\ Cardinality(page) \in 0..MaxItems
      /\ Cardinality(page) = 0 <=> N <= b
      /\ Cardinality(page) # 0 => marker <= Last
      /\ Cardinality(page) < MaxItems => N <= b + MaxItems
      /\ (Cardinality(page) < MaxItems /\ Cardinality(page) # 0) => b + Cardinality(page) = N
      /\ b + Cardinality(page) >= N => N <= b + MaxItems
  BY <1>1, <1>2, <1>3, <1>4
<1> QED
  BY <1>1, <1>2, <1>3, <1>5, <1>6, <1>7 DEF page, b, N

\* A numbered page adds the records of the next MaxItems ranks, as they are.
LEMMA TakeAdds ==
    ASSUME ListInv, lister # "route53", pc = "list", Take(marker),
           UNCHANGED <<stored, stable>>
    PROVE  /\ rrSets' \subseteq Positions \X (Contents \ {"none"})
           /\ SeenAsStored'
           /\ Stored' = Stored /\ Lasting' = Lasting
           /\ ~shrunk => \A p \in Lasting :
                  RankOf(Stored)[p] <= marker * MaxItems => <<p, stored[p]>> \in rrSets'
<1>1. rrSets' = rrSets \cup {<<p, stored[p]>> : p \in Numbered(marker)}
  BY DEF Take
<1>2. Stored' = Stored /\ Lasting' = Lasting
  BY DEF Stored, Lasting
<1>3. Numbered(marker) \subseteq Stored
  BY DEF Numbered
<1>4. \A p \in Stored : p \in Positions /\ stored[p] \in Contents \ {"none"}
  BY DEF Stored, ListInv, TypeOK
<1>5. rrSets' \subseteq Positions \X (Contents \ {"none"})
  BY <1>1, <1>3, <1>4 DEF ListInv, TypeOK
<1>6. SeenAsStored'
  BY <1>1 DEF SeenAsStored, ListInv
<1>7. ASSUME ~shrunk, NEW p \in Lasting, RankOf(Stored)[p] <= marker * MaxItems
      PROVE  <<p, stored[p]>> \in rrSets'
  <2>1. p \in Stored
    BY DEF Lasting
  <2>2. CASE RankOf(Stored)[p] <= (marker - 1) * MaxItems
    BY <1>1, <1>7, <2>2 DEF ListInv, NumberedPages
  <2>3. CASE ~(RankOf(Stored)[p] <= (marker - 1) * MaxItems)
    <3>1. marker \in Nat \ {0} /\ stored \in [Positions -> Contents]
      BY DEF ListInv, TypeOK
    <3>2. /\ (marker - 1) * MaxItems \in Nat /\ marker * MaxItems \in Nat
      BY <3>1, PageBounds
    <3>3. RankOf(Stored)[p] \in Nat
      BY <2>1, PageTells DEF ListInv
    <3>4. RankOf(Stored)[p] \in ((marker - 1) * MaxItems + 1)..(marker * MaxItems)
      BY <1>7, <2>3, <3>2, <3>3
    <3>5. p \in Numbered(marker)
      BY <2>1, <3>1, <3>4, NumberedSize
    <3> QED
      BY <1>1, <3>5
  <2> QED
    BY <2>2, <2>3
<1> QED
  BY <1>2, <1>5, <1>6, <1>7

-------------------------------------------------------------------------------
(* The steps                                                                *)

\* A turn of the loop of fetchDoRecords keeps the invariant.
LEMMA FetchDoRecordsStep ==
    ASSUME ListInv, lister = "digitalocean", FetchDoRecords, UNCHANGED <<lister, shrunk>>
    PROVE  ListInv'
<1>1. pc = "list" /\ Take(marker) /\ UNCHANGED <<stored, stable, count>>
  BY DEF FetchDoRecords
<1>2. /\ rrSets' \subseteq Positions \X (Contents \ {"none"})
      /\ SeenAsStored'
      /\ Stored' = Stored /\ Lasting' = Lasting /\ Lasting \subseteq Stored
      /\ ~shrunk => \A p \in Lasting :
             RankOf(Stored)[p] <= marker * MaxItems => <<p, stored[p]>> \in rrSets'
  BY <1>1, TakeAdds DEF Lasting
<1>3. /\ marker \in Nat \ {0} /\ TotalCount \in Nat
      /\ (marker - 1) * MaxItems \in Nat /\ marker * MaxItems \in Nat
      /\ marker * MaxItems = (marker - 1) * MaxItems + MaxItems
      /\ MaxItems \in Nat /\ Last \in Nat
      /\ \A p \in Stored : RankOf(Stored)[p] \in 1..TotalCount
      /\ Numbered(marker) = {} <=> TotalCount <= (marker - 1) * MaxItems
      /\ Numbered(marker) # {} => marker <= Last
  BY PageTells, PageBounds, ListingAssumption DEF ListInv
<1>4. CASE IsLastPage(marker) \/ Numbered(marker) = {}
  <2>1. pc' = "done" /\ marker' = marker
    BY <1>4 DEF FetchDoRecords
  <2>2. TypeOK'
    BY <1>1, <1>2, <2>1 DEF ListInv, TypeOK
  <2>3. \A p \in Stored : RankOf(Stored)[p] <= marker * MaxItems
    BY <1>3, <1>4 DEF IsLastPage
  <2>4. NumberedPages'
    BY <1>1, <1>2, <2>1, <2>3 DEF NumberedPages
  <2> QED
    BY <1>1, <1>2, <2>2, <2>4 DEF ListInv, MarkedPages
<1>5. CASE ~(IsLastPage(marker) \/ Numbered(marker) = {})
  <2>1. pc' = "list" /\ marker' = marker + 1
    BY <1>1, <1>5 DEF FetchDoRecords
  <2>2. marker' \in 1..(Last + 1) /\ marker' - 1 = marker
    BY <1>3, <1>5, <2>1
  <2>3. TypeOK'
    BY <1>1, <1>2, <2>1, <2>2 DEF ListInv, TypeOK
  <2>4. NumberedPages'
    BY <1>1, <1>2, <2>1, <2>2 DEF NumberedPages
  <2> QED
    BY <1>1, <1>2, <2>3, <2>4 DEF ListInv, MarkedPages
<1> QED
  BY <1>4, <1>5

\* A turn of the loop of listRecords keeps the invariant.
LEMMA ListRecordsStep ==
    ASSUME ListInv, lister = "alidns", ListRecords, UNCHANGED <<lister, shrunk>>
    PROVE  ListInv'
<1> DEFINE page == Numbered(marker)
           b == (marker - 1) * MaxItems
<1>1. /\ pc = "list" /\ Take(marker) /\ UNCHANGED <<stored, stable>>
      /\ count' = count + Cardinality(page)
      /\ marker' = IF pc' = "list" THEN marker + 1 ELSE marker
  BY DEF ListRecords
<1>2. /\ rrSets' \subseteq Positions \X (Contents \ {"none"})
      /\ SeenAsStored'
      /\ Stored' = Stored /\ Lasting' = Lasting /\ Lasting \subseteq Stored
      /\ ~shrunk => \A p \in Lasting :
             RankOf(Stored)[p] <= marker * MaxItems => <<p, stored[p]>> \in rrSets'
  BY <1>1, TakeAdds DEF Lasting
<1>3. /\ marker \in Nat \ {0} /\ TotalCount \in Nat
      /\ b \in Nat /\ marker * MaxItems = b + MaxItems
      /\ MaxItems \in Nat \ {0} /\ Last \in Nat
      /\ \A p \in Stored : RankOf(Stored)[p] \in 1..TotalCount
      /\ Cardinality(page) \in 0..MaxItems
      /\ page = {} <=> Cardinality(page) = 0
      /\ page # {} => marker <= Last
      /\ Cardinality(page) < MaxItems => TotalCount <= marker * MaxItems
      /\ (Cardinality(page) < MaxItems /\ page # {}) => b + Cardinality(page) = TotalCount
      /\ b + Cardinality(page) >= TotalCount => TotalCount <= marker * MaxItems
  BY PageTells, PageBounds, ListingAssumption DEF ListInv
<1>4. count = b /\ count' \in Nat /\ count' = b + Cardinality(page)
  BY <1>1, <1>3 DEF ListInv, NumberedPages
<1> HIDE DEF page, b
<1>5. PICK told \in BOOLEAN :
          pc' = CASE told /\ count' >= TotalCount                     -> "done"
                  [] told /\ count' < TotalCount /\ page = {}         -> "failed"
                  [] told /\ count' < TotalCount /\ page # {}         -> "list"
                  [] ~told /\ Cardinality(page) < MaxItems            -> "done"
                  [] ~told /\ Cardinality(page) = MaxItems            -> "list"
  BY DEF ListRecords, page
<1>6. \/ pc' = "done" /\ TotalCount <= marker * MaxItems
      \/ pc' = "failed"
      \/ pc' = "list" /\ page # {} /\ Cardinality(page) = MaxItems
  <2>1. CASE told /\ count' >= TotalCount
    BY <1>3, <1>4, <1>5, <2>1
  <2>2. CASE told /\ count' < TotalCount /\ page = {}
    BY <1>3, <1>4, <1>5, <2>2
  <2>3. CASE told /\ count' < TotalCount /\ page # {}
    <3>1. pc' = "list"
      BY <1>3, <1>4, <1>5, <2>3
    <3>2. Cardinality(page) = MaxItems
      BY <1>3, <1>4, <2>3
    <3> QED
      BY <2>3, <3>1, <3>2
  <2>4. CASE ~told /\ Cardinality(page) < MaxItems
    BY <1>3, <1>4, <1>5, <2>4
  <2>5. CASE ~told /\ Cardinality(page) = MaxItems
    BY <1>3, <1>4, <1>5, <2>5
  <2> QED
    BY <1>3, <1>4, <2>1, <2>2, <2>3, <2>4, <2>5
<1>7. CASE pc' = "done" /\ TotalCount <= marker * MaxItems
  <2>1. marker' = marker
    BY <1>1, <1>7
  <2>2. TypeOK'
    BY <1>1, <1>2, <1>7, <2>1 DEF ListInv, TypeOK
  <2>3. \A p \in Stored : RankOf(Stored)[p] <= marker * MaxItems
    BY <1>3, <1>7
  <2>4. NumberedPages'
    BY <1>1, <1>2, <1>7, <2>3 DEF NumberedPages
  <2> QED
    BY <1>1, <1>2, <1>4, <2>2, <2>4 DEF ListInv, MarkedPages
<1>8. CASE pc' = "failed"
  <2>1. TypeOK'
    BY <1>1, <1>2, <1>8 DEF ListInv, TypeOK
  <2> QED
    BY <1>1, <1>2, <1>4, <1>8, <2>1 DEF ListInv, MarkedPages, NumberedPages
<1>9. CASE pc' = "list" /\ page # {} /\ Cardinality(page) = MaxItems
  <2>1. marker' = marker + 1 /\ marker' \in 1..(Last + 1) /\ marker' - 1 = marker
    BY <1>1, <1>3, <1>9
  <2>2. TypeOK'
    BY <1>1, <1>2, <1>9, <2>1 DEF ListInv, TypeOK
  <2>3. count' = (marker' - 1) * MaxItems
    BY <1>3, <1>4, <1>9, <2>1
  <2>4. NumberedPages'
    BY <1>1, <1>2, <1>9, <2>1, <2>3 DEF NumberedPages
  <2> QED
    BY <1>1, <1>2, <1>4, <2>2, <2>4 DEF ListInv, MarkedPages
<1> QED
  BY <1>6, <1>7, <1>8, <1>9

\* A page of Route 53 holds all record sets from its marker on, or all up to the
\* marker of the next page.
LEMMA PageHolds ==
    ASSUME TypeOK
    PROVE  /\ From(marker) \in SUBSET Positions /\ OnPage(marker) \subseteq From(marker)
           /\ IsTruncated(marker) =>
                 /\ NextRecord(marker) \in Positions /\ NextRecord(marker) >= marker
                 /\ \A p \in From(marker) : p \in OnPage(marker) <=> p < NextRecord(marker)
<1> DEFINE F == From(marker)
           rest == F \ OnPage(marker)
           Before(p) == {q \in F : q < p}
<1>1. F \in SUBSET Positions /\ rest \in SUBSET Positions /\ F \subseteq Int /\ OnPage(marker) \subseteq F
  BY DEF From, OnPage, Positions
<1>2. \A p \in F : p >= marker
  BY DEF From
<1>3. \A p \in F : p \in OnPage(marker) <=> Cardinality(Before(p)) < MaxItems
  BY DEF OnPage
<1>4. ASSUME NEW p \in F, NEW q \in F, q < p, p \in OnPage(marker)
      PROVE  q \in OnPage(marker)
  <2>1. Before(p) \in SUBSET F /\ Before(q) \in SUBSET F
    OBVIOUS
  <2>2. IsFiniteSet(F)
    BY <1>1, RankGrows
  <2>3. /\ IsFiniteSet(Before(p)) /\ Cardinality(Before(p)) \in Nat
        /\ IsFiniteSet(Before(q)) /\ Cardinality(Before(q)) \in Nat
    BY <2>1, <2>2, FS_Subset, FS_CardinalityType
  <2>4. Before(q) \in SUBSET Before(p)
    <3> SUFFICES ASSUME NEW r \in F, r < q PROVE r < p
      OBVIOUS
    <3>1. r \in Int /\ q \in Int /\ p \in Int /\ q < p
      BY <1>1, <1>4
    <3> QED
      BY <3>1
  <2>5. Cardinality(Before(q)) <= Cardinality(Before(p))
    BY <2>3, <2>4, FS_Subset
  <2>6. Cardinality(Before(p)) < MaxItems
    BY <1>3, <1>4
  <2>7. Cardinality(Before(q)) < MaxItems
    BY <2>3, <2>5, <2>6, ListingAssumption
  <2> QED
    BY <1>3, <2>7
<1>5. ASSUME IsTruncated(marker)
      PROVE  /\ NextRecord(marker) \in rest
             /\ \A q \in rest : NextRecord(marker) <= q
  <2>1. rest # {}
    BY <1>1, <1>5 DEF IsTruncated
  <2> QED
    BY <1>1, <2>1, LeastExists DEF NextRecord
<1>6. ASSUME IsTruncated(marker), NEW p \in F
      PROVE  p \in OnPage(marker) <=> p < NextRecord(marker)
  <2>1. /\ NextRecord(marker) \in F /\ NextRecord(marker) \notin OnPage(marker)
        /\ \A q \in rest : NextRecord(marker) <= q
    BY <1>5, <1>6
  <2>2. p \in Int /\ NextRecord(marker) \in Int
    BY <1>1, <2>1
  <2>3. CASE p \in OnPage(marker)
    <3>1. p # NextRecord(marker)
      BY <2>1, <2>3
    <3>2. ~(NextRecord(marker) < p)
      BY <1>4, <2>1, <2>3
    <3> QED
      BY <2>2, <2>3, <3>1, <3>2
  <2>4. CASE p \notin OnPage(marker)
    BY <2>1, <2>2, <2>4
  <2> QED
    BY <2>3, <2>4
<1> QED
  BY <1>1, <1>2, <1>5, <1>6

\* A turn of the loop of Route53Provider.GetRecords keeps the invariant.
LEMMA PageStep ==
    ASSUME ListInv, lister = "route53", Page, UNCHANGED <<lister, count, shrunk>>
    PROVE  ListInv'
<1>1. /\ pc = "list" /\ UNCHANGED <<stored, stable>>
      /\ rrSets' = rrSets \cup {<<p, stored[p]>> : p \in OnPage(marker)}
  BY DEF Page, PageOf
<1>2. /\ From(marker) \in SUBSET Positions /\ OnPage(marker) \subseteq From(marker)
      /\ IsTruncated(marker) =>
            /\ NextRecord(marker) \in Positions /\ NextRecord(marker) >= marker
            /\ \A p \in From(marker) : p \in OnPage(marker) <=> p < NextRecord(marker)
  BY PageHolds DEF ListInv
<1>3. \A p \in Positions : p \in From(marker) <=> p >= marker /\ p \in Stored
  BY DEF From, Stored
<1>4. \A p \in Stored : p \in Positions /\ stored[p] \in Contents \ {"none"}
  BY DEF Stored, ListInv, TypeOK
<1>5. Stored' = Stored /\ Lasting' = Lasting /\ Lasting \subseteq Stored
  BY <1>1 DEF Stored, Lasting
<1>6. rrSets' \subseteq Positions \X (Contents \ {"none"})
  BY <1>1, <1>2, <1>3, <1>4 DEF ListInv, TypeOK
<1>7. SeenAsStored'
  BY <1>1 DEF SeenAsStored, ListInv
<1>8. Positions \subseteq Int /\ marker \in Int /\ Positions = 1..Last /\ Last \in Nat
  BY ListingAssumption DEF Positions, ListInv, TypeOK
<1>9. \A r, q \in rrSets' : r[1] = q[1] => r = q
  <2> DEFINE new == {<<p, stored[p]>> : p \in OnPage(marker)}
  <2>1. \A r, q \in rrSets : r[1] = q[1] => r = q
    BY DEF ListInv, MarkedPages
  <2>2. \A r, q \in new : r[1] = q[1] => r = q
    OBVIOUS
  <2>3. \A r \in rrSets : r[1] \in Int /\ r[1] < marker
    BY <1>1, <1>8 DEF ListInv, MarkedPages, TypeOK
  <2>4. \A q \in new : q[1] \in Int /\ q[1] >= marker
    BY <1>2, <1>3, <1>8
  <2>5. rrSets' = rrSets \cup new
    BY <1>1
  <2> HIDE DEF new
  <2> QED
    BY <1>8, <2>1, <2>2, <2>3, <2>4, <2>5
<1>10. \A p \in Lasting : (p < marker \/ p \in OnPage(marker)) => <<p, stored[p]>> \in rrSets'
  BY <1>1 DEF ListInv, MarkedPages
<1>11. CASE IsTruncated(marker)
  <2>1. marker' = NextRecord(marker) /\ pc' = "list"
    BY <1>1, <1>11 DEF Page
  <2>2. TypeOK'
    BY <1>1, <1>2, <1>6, <1>8, <1>11, <2>1 DEF ListInv, TypeOK
  <2>3. \A rr \in rrSets' : rr[1] < marker'
    <3>1. \A rr \in rrSets : rr[1] \in Int /\ rr[1] < marker
      BY <1>1, <1>8 DEF ListInv, MarkedPages, TypeOK
    <3>2. \A p \in OnPage(marker) : p < marker'
      BY <1>2, <1>11, <2>1
    <3>3. marker' \in Int /\ marker' >= marker
      BY <1>2, <1>8, <1>11, <2>1
    <3> QED
      BY <1>1, <1>8, <3>1, <3>2, <3>3
  <2>4. \A p \in Lasting : p < marker' => <<p, stored[p]>> \in rrSets'
    BY <1>2, <1>3, <1>4, <1>5, <1>8, <1>10, <1>11, <2>1
  <2>5. MarkedPages'
    BY <1>1, <1>5, <1>9, <2>1, <2>3, <2>4 DEF MarkedPages
  <2> QED
    BY <1>5, <1>7, <2>2, <2>5 DEF ListInv, NumberedPages
<1>12. CASE ~IsTruncated(marker)
  <2>1. marker' = marker /\ pc' = "done"
    BY <1>12 DEF Page
  <2>2. TypeOK'
    BY <1>1, <1>6, <2>1 DEF ListInv, TypeOK
  <2>3. \A p \in Lasting : <<p, stored[p]>> \in rrSets'
    BY <1>3, <1>4, <1>5, <1>8, <1>10, <1>12 DEF IsTruncated
  <2>4. MarkedPages'
    BY <1>1, <1>5, <1>9, <2>1, <2>3 DEF MarkedPages
  <2> QED
    BY <1>5, <1>7, <2>2, <2>4 DEF ListInv, NumberedPages
<1> QED
  BY <1>11, <1>12

\* A write of others between two requests keeps the invariant: what was written is
\* no longer lasting, and unless it was a deletion no rank became smaller.
LEMMA WriteStep ==
    ASSUME ListInv, NEW p \in Positions, Write(p),
           shrunk' = (shrunk \/ stored'[p] = "none"), UNCHANGED <<lister, count>>
    PROVE  ListInv'
<1>1. PICK c \in Contents : stored' = [stored EXCEPT ![p] = c]
  BY DEF Write
<1>2. pc = "list" /\ stable' = stable \ {p} /\ UNCHANGED <<pc, marker, rrSets>>
  BY DEF Write
<1>3. /\ stored \in [Positions -> Contents] /\ stored' \in [Positions -> Contents]
      /\ \A q \in Positions \ {p} : stored'[q] = stored[q]
      /\ stored'[p] = c
  BY <1>1 DEF ListInv, TypeOK
<1>4. TypeOK' /\ shrunk' \in BOOLEAN
  BY <1>2, <1>3 DEF ListInv, TypeOK
<1>5. SeenAsStored'
  BY <1>2, <1>3 DEF SeenAsStored, ListInv, TypeOK
<1>6. /\ Lasting' \subseteq Lasting /\ p \notin Lasting'
      /\ \A q \in Lasting' : stored'[q] = stored[q] /\ q \in Stored /\ q \in Stored'
  BY <1>2, <1>3 DEF Lasting, Stored, ListInv, TypeOK
<1>7. MarkedPages'
  BY <1>2, <1>6 DEF MarkedPages, ListInv
<1>8. NumberedPages'
  <2>1. ASSUME ~shrunk', NEW q \in Lasting', lister # "route53",
               RankOf(Stored')[q] <= (marker - 1) * MaxItems
        PROVE  <<q, stored[q]>> \in rrSets
    <3>1. Stored \in SUBSET Stored' /\ Stored \in SUBSET Positions /\ Stored' \in SUBSET Positions
      BY <1>3, <2>1 DEF Stored
    <3>2. q \in Stored /\ q \in Stored'
      BY <1>6
    <3>3. /\ RankOf(Stored)[q] \in Nat /\ RankOf(Stored')[q] \in Nat
          /\ IsFiniteSet(Stored')
      BY <3>1, <3>2, RankGrows
    <3>4. UpTo(Stored, q) \in SUBSET UpTo(Stored', q) /\ UpTo(Stored', q) \in SUBSET Stored'
      BY <3>1 DEF UpTo
    <3>5. Cardinality(UpTo(Stored, q)) <= Cardinality(UpTo(Stored', q))
      <4>1. IsFiniteSet(UpTo(Stored', q))
        BY <3>3, <3>4, FS_Subset
      <4> QED
        BY <3>4, <4>1, FS_Subset
    <3>6. RankOf(Stored)[q] <= RankOf(Stored')[q]
      BY <3>2, <3>5 DEF RankOf
    <3>7. (marker - 1) * MaxItems \in Nat
      BY PageTells DEF ListInv
    <3>8. RankOf(Stored)[q] <= (marker - 1) * MaxItems
      BY <2>1, <3>3, <3>6, <3>7
    <3> QED
      BY <1>2, <1>6, <2>1, <3>8 DEF ListInv, NumberedPages
  <2>2. RankOf(Stored)' = RankOf(Stored')
    BY DEF RankOf, UpTo
  <2> QED
    BY <1>2, <1>6, <2>1, <2>2 DEF ListInv, NumberedPages
<1> QED
  BY <1>4, <1>5, <1>7, <1>8 DEF ListInv

-------------------------------------------------------------------------------
(* The theorems                                                             *)

\* The invariant holds of every state of every listing.
THEOREM ListingInvariant == ListSpec => []ListInv
<1>1. ListInit => ListInv
  <2> SUFFICES ASSUME ListInit PROVE ListInv
    OBVIOUS
  <2>1. /\ stored \in [Positions -> Contents] /\ pc = "list" /\ marker = 1 /\ rrSets = {}
        /\ stable = Positions /\ count = 0 /\ shrunk = FALSE
        /\ lister \in {"route53", "digitalocean", "alidns"}
    BY DEF ListInit, Init
  <2>2. TypeOK
    BY <2>1, ListingAssumption DEF TypeOK
  <2>3. SeenAsStored
    BY <2>1 DEF SeenAsStored
  <2>4. Lasting \subseteq Stored /\ Stored \in SUBSET Positions /\ Positions = 1..Last
    BY DEF Lasting, Stored, Positions
  <2>5. MarkedPages
    BY <2>1, <2>4 DEF MarkedPages
  <2>6. (marker - 1) * MaxItems = 0
    BY <2>1, ListingAssumption
  <2>7. \A p \in Lasting : ~(RankOf(Stored)[p] <= 0)
    BY <2>4, RankGrows, FS_CardinalityType
  <2>8. NumberedPages
    BY <2>1, <2>6, <2>7 DEF NumberedPages
  <2> QED
    BY <2>1, <2>2, <2>3, <2>5, <2>8 DEF ListInv
<1>2. ListInv /\ [ListNext]_listVars => ListInv'
  <2> SUFFICES ASSUME ListInv, [ListNext]_listVars PROVE ListInv'
    OBVIOUS
  <2>1. CASE lister = "route53" /\ Page /\ UNCHANGED <<lister, count, shrunk>>
    BY <2>1, PageStep
  <2>2. CASE lister = "digitalocean" /\ FetchDoRecords /\ UNCHANGED <<lister, shrunk>>
    BY <2>2, FetchDoRecordsStep
  <2>3. CASE lister = "alidns" /\ ListRecords /\ UNCHANGED <<lister, shrunk>>
    BY <2>3, ListRecordsStep
  <2>4. CASE PageFails /\ UNCHANGED <<lister, count, shrunk>>
    <3>1. /\ pc' = "failed"
          /\ UNCHANGED <<stored, marker, rrSets, stable, lister, count, shrunk>>
      BY <2>4 DEF PageFails
    <3> QED
      BY <3>1 DEF ListInv, TypeOK, SeenAsStored, MarkedPages, NumberedPages
  <2>5. CASE \E p \in Positions :
                /\ Write(p)
                /\ shrunk' = (shrunk \/ stored'[p] = "none")
                /\ UNCHANGED <<lister, count>>
    BY <2>5, WriteStep
  <2>6. CASE UNCHANGED listVars
    <3>1. UNCHANGED <<stored, pc, marker, rrSets, stable, lister, count, shrunk>>
      BY <2>6 DEF listVars, vars
    <3>2. UNCHANGED <<Stored, Lasting>>
      BY <3>1 DEF Stored, Lasting
    <3>3. UNCHANGED RankOf(Stored)
      BY <3>2 DEF RankOf, UpTo
    <3> QED
      BY <3>1, <3>2, <3>3 DEF ListInv, TypeOK, SeenAsStored, MarkedPages, NumberedPages
  <2> QED
    BY <2>1, <2>2, <2>3, <2>4, <2>5, <2>6 DEF ListNext, NextPage
<1> QED
  BY <1>1, <1>2, PTL DEF ListSpec

\* The variables of every listing keep their types; in particular no provider asks
\* for a page further than one behind the last possible record.
THEOREM ListingTypeCorrect == ListSpec => []TypeOK
<1>1. ListInv => TypeOK
  BY DEF ListInv
<1> QED
  BY <1>1, ListingInvariant, PTL

\* Route53Provider.GetRecords, once it has all its pages, shows the record sets
\* that nobody wrote meanwhile as they are, each once.  fetchDoRecords and
\* listRecords miss such a record only if one was deleted meanwhile, and never
\* show one that was absent all the time.
THEOREM ListingsAreFaithful == ListSpec => []ListingsFaithful
<1>1. ListInv => ListingsFaithful
  <2> SUFFICES ASSUME ListInv, pc = "done" PROVE ListingsFaithful
    BY DEF ListingsFaithful, ListingFaithful
  <2>1. stable \subseteq Positions /\ Lasting = stable \cap Stored
    BY DEF ListInv, TypeOK, Lasting
  <2>2. CASE lister = "route53"
    <3>1. \A p \in Lasting : <<p, stored[p]>> \in rrSets
      BY <2>2 DEF ListInv, MarkedPages
    <3>2. \A r, q \in rrSets : r[1] = q[1] => r = q
      BY <2>2 DEF ListInv, MarkedPages
    <3>3. ASSUME NEW p \in stable, NEW v \in Values
          PROVE  <<p, v>> \in Returned <=> stored[p] = v
      <4>1. v # "none" /\ v # "alias"
        BY ListingAssumption
      <4>2. <<p, v>> \in Returned <=> <<p, v>> \in rrSets
        BY <4>1 DEF Returned, IsProprietary
      <4>3. <<p, v>> \in rrSets => stored[p] = v
        <5> SUFFICES ASSUME <<p, v>> \in rrSets PROVE stored[p] = v
          OBVIOUS
        <5> DEFINE rr == <<p, v>>
        <5>1. rr[1] \in stable => rr[2] = stored[rr[1]]
          BY DEF ListInv, SeenAsStored
        <5> QED
          BY <5>1
      <4>4. stored[p] = v => <<p, v>> \in rrSets
        BY <2>1, <3>1, <4>1 DEF Stored
      <4> QED
        BY <4>2, <4>3, <4>4
    <3> QED
      BY <2>2, <3>2, <3>3 DEF ListingsFaithful, ListingFaithful
  <2>3. CASE lister # "route53"
    <3>1. ~shrunk => \A p \in Lasting : <<p, stored[p]>> \in rrSets
      BY <2>3 DEF ListInv, NumberedPages
    <3>2. \A p \in stable : p \notin Stored => \A rr \in rrSets : rr[1] # p
      <4> SUFFICES ASSUME NEW rr \in rrSets, rr[1] \in stable PROVE rr[1] \in Stored
        OBVIOUS
      <4>1. rr[2] # "none" /\ rr[2] = stored[rr[1]] /\ rr[1] \in Positions
        BY <2>1 DEF ListInv, TypeOK, SeenAsStored
      <4> QED
        BY <4>1 DEF Stored
    <3> QED
      BY <2>1, <2>3, <3>1, <3>2 DEF ListingsFaithful
  <2> QED
    BY <2>2, <2>3
<1> QED
  BY <1>1, ListingInvariant, PTL
===============================================================================
