------------------------ MODULE PagingAndHealthProofs ------------------------
(***************************************************************************)
(* Proofs about two components that only read: Paging, for any table and   *)
(* any size of the page, and HealthProbe, for any number of checks that    *)
(* overlap.  They share no state, and each part is about its own           *)
(* specification: Spec is that of Paging, HealthSpec that of HealthProbe.  *)
(***************************************************************************)
EXTENDS Paging, HealthProbe, FiniteSetTheorems, SequenceTheorems, TLAPS

(* The page after this one is announced exactly when there is room for it. *)
LEMMA RoundedUp ==
    ASSUME NEW n \in Nat, NEW take \in Nat \ {0}, NEW page \in Nat \ {0}
    PROVE  page < (n + take - 1) \div take <=> page * take < n
<1> DEFINE q == (n + take - 1) \div take
           m == (n + take - 1) % take
<1>1. q \in Int /\ m \in 0..(take - 1) /\ n + take - 1 = take * q + m
  OBVIOUS
<1>2. take * q < n + take /\ n <= take * q
  BY <1>1
<1>3. ASSUME page < q PROVE page * take < n
  <2>1. (page + 1) * take <= take * q
    BY <1>1, <1>3
  <2> QED
    BY <1>2, <2>1
<1>4. ASSUME page * take < n PROVE page < q
  <2>1. page * take < q * take
    BY <1>1, <1>2, <1>4
  <2> QED
    BY <1>1, <2>1
<1> QED
  BY <1>3, <1>4

(* A table is finite, and not all of it comes before a row.                *)
LEMMA TableIsFinite ==
    ASSUME NEW T \in SUBSET Ids
    PROVE  IsFiniteSet(T) /\ Cardinality(T) \in Nat
BY IdsAreFinite, FS_Subset, FS_CardinalityType

LEMMA PartIsSmaller ==
    ASSUME NEW T \in SUBSET Ids, NEW A \in SUBSET T
    PROVE  Cardinality(A) \in Nat /\ (A # T => Cardinality(A) < Cardinality(T))
BY TableIsFinite, FS_Subset, FS_CardinalityType

(* A listing has every row ...                                             *)
LEMMA ListingIsOnto ==
    ASSUME TypeOK, NEW s \in Listings
    PROVE  /\ s \in [1..Cardinality(DOMAIN rows) -> DOMAIN rows]
           /\ \A i \in DOMAIN rows : \E k \in 1..Cardinality(DOMAIN rows) : s[k] = i
<1> DEFINE n == Cardinality(DOMAIN rows)
<1>1. n \in Nat /\ IsFiniteSet(DOMAIN rows)
  BY TableIsFinite DEF TypeOK
<1>2. s \in [1..n -> DOMAIN rows] /\ \A i, j \in 1..n : i < j => s[i] # s[j]
  BY DEF Listings
<1>3. \A i, j \in 1..n : s[i] = s[j] => i = j
  BY <1>1, <1>2
<1>4. s \in Injection(1..n, DOMAIN rows)
  BY <1>2, <1>3 DEF Injection, IsInjective
<1>5. Cardinality(1..n) = n
  BY <1>1, FS_Interval
<1>6. s \in Surjection(1..n, DOMAIN rows)
  BY <1>1, <1>4, <1>5, FS_Injection
<1> QED
  BY <1>2, <1>6 DEF Surjection

(* ... and has those without a tie at their rank.                          *)
LEMMA ListedAtRank ==
    ASSUME TypeOK, NEW s \in Listings, NEW k \in 1..Cardinality(DOMAIN rows),
           ~Tied(s[k])
    PROVE  Rank(s[k]) = k - 1
<1> DEFINE n == Cardinality(DOMAIN rows)
           f == [m \in 1..(k - 1) |-> s[m]]
<1>1. n \in Nat /\ k \in Nat /\ k <= n
  BY TableIsFinite DEF TypeOK
<1>2. /\ s \in [1..n -> DOMAIN rows]
      /\ \A i \in DOMAIN rows : \E m \in 1..n : s[m] = i
  BY ListingIsOnto
<1>3. \A i, j \in 1..n : i < j => s[i] # s[j] /\ Before(s[i], s[j])
  BY <1>2 DEF Listings
<1>4. \A i, j \in DOMAIN rows : Before(i, j) /\ Before(j, i) => rows[i] = rows[j]
  BY DEF TypeOK, Before
<1>5. \A m \in 1..(k - 1) : f[m] \in Ahead(s[k])
  BY <1>1, <1>2, <1>3 DEF Ahead
<1>6. ASSUME NEW j \in Ahead(s[k]) PROVE \E m \in 1..(k - 1) : f[m] = j
  <2>1. PICK m \in 1..n : s[m] = j
    BY <1>2, <1>6 DEF Ahead
  <2>2. m # k
    BY <2>1, <1>6 DEF Ahead
  <2>3. ~(k < m)
    BY <1>1, <1>2, <1>3, <1>4, <1>6, <2>1 DEF Ahead, Tied
  <2>4. m \in 1..(k - 1)
    BY <1>1, <2>2, <2>3
  <2> QED
    BY <2>1, <2>4
<1>7. \A i, j \in 1..(k - 1) : f[i] = f[j] => i = j
  BY <1>1, <1>3
<1>8. f \in Bijection(1..(k - 1), Ahead(s[k]))
  BY <1>5, <1>6, <1>7 DEF Bijection, Injection, Surjection, IsInjective
<1>9. ExistsBijection(1..(k - 1), Ahead(s[k]))
  BY <1>8 DEF ExistsBijection
<1>10. IsFiniteSet(1..(k - 1)) /\ Cardinality(1..(k - 1)) = k - 1
  <2>1. 1 \in Int /\ k - 1 \in Int /\ k - 1 >= 0
    BY <1>1
  <2> HIDE DEF f
  <2> QED
    BY <2>1, FS_Interval
<1> QED
  BY <1>9, <1>10, FS_Bijection DEF Rank

(* Without any tie there is one listing.                                   *)
LEMMA OneListing ==
    ASSUME TypeOK, \A i \in DOMAIN rows : ~Tied(i),
           NEW s \in Listings, NEW t \in Listings
    PROVE  s = t
<1> DEFINE n == Cardinality(DOMAIN rows)
<1>1. n \in Nat /\ s \in [1..n -> DOMAIN rows] /\ t \in [1..n -> DOMAIN rows]
  BY TableIsFinite, ListingIsOnto DEF TypeOK
<1>2. ASSUME NEW k \in 1..n PROVE s[k] = t[k]
  <2>1. PICK m \in 1..n : t[m] = s[k]
    BY <1>1, ListingIsOnto
  <2>2. Rank(s[k]) = k - 1 /\ Rank(t[m]) = m - 1
    BY <1>1, ListedAtRank
  <2>3. k = m
    BY <2>1, <2>2, <1>1
  <2> QED
    BY <2>1, <2>3
<1> QED
  BY <1>1, <1>2

(* What a page has of a listing.                                           *)
LEMMA PageOfListing ==
    ASSUME TypeOK, NEW s \in Listings
    PROVE  LET n == Cardinality(DOMAIN rows)
               last == IF Skip + reader.take < n THEN Skip + reader.take ELSE n
           IN /\ Page(s) \in Seq(Ids)
              /\ Len(Page(s)) = IF Skip <= last THEN last - Skip ELSE 0
              /\ \A k \in 1..(last - Skip) : Page(s)[k] = s[Skip + k]
<1> DEFINE n == Cardinality(DOMAIN rows)
           last == IF Skip + reader.take < n THEN Skip + reader.take ELSE n
<1>1. /\ n \in Nat /\ s \in [1..n -> DOMAIN rows] /\ DOMAIN rows \subseteq Ids
  BY TableIsFinite, ListingIsOnto DEF TypeOK
<1>2. Skip \in Nat /\ reader.take \in Nat \ {0}
  BY BoundsAreNat DEF Skip, TypeOK
<1>3. Len(s) = n /\ Page(s) = SubSeq(s, Skip + 1, last)
  <2>1. s \in Seq(DOMAIN rows) /\ DOMAIN s = 1..n
    BY <1>1
  <2>2. Len(s) = n
    BY <1>1, <2>1, LenProperties
  <2> QED
    BY <2>2 DEF Page
<1>4. last \in Nat /\ Skip + 1 \in Int /\ last <= n
  BY <1>1, <1>2
<1>5. \A k \in (Skip + 1)..last : s[k] \in Ids
  BY <1>1, <1>2, <1>4
<1>6. /\ SubSeq(s, Skip + 1, last) \in Seq(Ids)
      /\ Len(SubSeq(s, Skip + 1, last)) = IF Skip + 1 <= last THEN last - (Skip + 1) + 1 ELSE 0
      /\ \A k \in 1..(last - (Skip + 1) + 1) :
           SubSeq(s, Skip + 1, last)[k] = s[(Skip + 1) + k - 1]
  BY <1>4, <1>5, SubSeqProperties
<1> QED
  BY <1>2, <1>3, <1>4, <1>6

-----------------------------------------------------------------------------
(* The parts of Inv but for the type.                                      *)
LEMMA InitInv == Init => Inv
<1> SUFFICES ASSUME Init PROVE Inv
  OBVIOUS
<1>1. TypeOK
  BY BoundsAreNat, EmptySeq DEF Init, TypeOK, NoPage, Order
<1>2. reader.at = "idle" /\ seen = <<>> /\ reader.got = NoPage
  BY DEF Init
<1> QED
  BY <1>1, <1>2 DEF Inv, OldAreToCome, MissedOnlyAfterDeletion, QuietWalkIsPrefix,
                    QuietWalkIsExact

(* The walk begins with nothing read, before all rows.                     *)
LEMMA StartWalkInv ==
    ASSUME Inv, NEW order \in Order, NEW take \in 1..MaxTake, StartWalk(order, take)
    PROVE  Inv'
<1>1. TypeOK'
  BY EmptySeq DEF Inv, TypeOK, StartWalk, NoPage
<1>2. /\ reader'.at = "items" /\ reader'.page = 1 /\ reader'.take = take /\ take \in Nat
      /\ reader'.got = NoPage /\ seen' = <<>> /\ old' = DOMAIN rows' /\ Len(seen') = 0
  BY BoundsAreNat, EmptySeq DEF Inv, StartWalk
<1>3. Reached' = 0
  BY <1>2 DEF Reached
<1>4. OldAreToCome'
  <2>1. \A i \in DOMAIN rows' : Rank(i)' \in Nat
    BY <1>1, PartIsSmaller DEF TypeOK, Rank, Ahead
  <2> QED
    BY <1>1, <1>2, <1>3, <2>1 DEF OldAreToCome
<1>5. QuietWalkIsPrefix'
  <2>1. Cardinality(DOMAIN rows') \in Nat
    BY <1>1, TableIsFinite DEF TypeOK
  <2>2. Reached' <= Cardinality(DOMAIN rows')
    BY <1>1, <1>3, <2>1
  <2>3. \A s : IsPrefix(seen', s)
    BY <1>2 DEF IsPrefix
  <2> QED
    BY <1>2, <1>3, <2>2, <2>3 DEF QuietWalkIsPrefix
<1> QED
  BY <1>1, <1>2, <1>4, <1>5 DEF Inv, MissedOnlyAfterDeletion, QuietWalkIsExact

(* A page has every old row whose rank falls into it.                      *)
LEMMA GetManyInv ==
    ASSUME Inv, GetMany
    PROVE  Inv'
<1> DEFINE n == Cardinality(DOMAIN rows)
<1> USE DEF Inv
<1>1. PICK s \in Listings : reader' = [reader EXCEPT !.at = "count", !.got.items = Page(s)]
  BY DEF GetMany
<1>2. /\ reader.at = "items" /\ reader.got = NoPage
      /\ UNCHANGED <<rows, unused, clock, seen, old, changed>>
  BY DEF GetMany
<1>3. /\ Page(s) \in Seq(Ids)
      /\ reader'.at = "count" /\ reader'.order = reader.order /\ reader'.take = reader.take
      /\ reader'.page = reader.page /\ reader'.got.items = Page(s)
  BY <1>1, <1>2, PageOfListing DEF TypeOK, NoPage
<1>4. TypeOK'
  BY <1>1, <1>2, <1>3 DEF TypeOK
<1>5. /\ n \in Nat /\ reader.page \in Nat \ {0} /\ reader.take \in Nat \ {0}
      /\ Skip \in Nat /\ Reached = Skip /\ Skip' = Skip /\ Reached' = Skip + reader.take
  BY <1>2, <1>3, TableIsFinite, BoundsAreNat DEF TypeOK, Skip, Reached
<1>6. Received = Elements(seen) /\ Received' = Elements(seen) \cup Elements(Page(s))
  BY <1>2, <1>3 DEF Received, NoPage, Elements
<1>7. OldAreToCome'
  <2> SUFFICES ASSUME "delete" \notin changed, NEW i \in old, i \in DOMAIN rows,
                      ~Tied(i), i \notin Elements(seen), Rank(i) >= Skip,
                      Rank(i) < Skip + reader.take
               PROVE  i \in Elements(Page(s))
    <3>1. \A i : Tied(i)' = Tied(i) /\ Rank(i)' = Rank(i)
      BY <1>2, <1>3 DEF Tied, Rank, Ahead, Before
    <3>2. \A i \in DOMAIN rows : Rank(i) \in Nat
      BY PartIsSmaller DEF TypeOK, Rank, Ahead
    <3> QED
      BY <1>2, <1>3, <1>5, <1>6, <3>1, <3>2 DEF OldAreToCome
  <2>1. PICK k \in 1..n : s[k] = i
    BY ListingIsOnto
  <2>2. Rank(i) = k - 1
    BY <2>1, ListedAtRank
  <2>3. k \in Nat /\ Skip < k /\ k <= Skip + reader.take /\ k <= n
    BY <1>5, <2>1, <2>2
  <2>4. k - Skip \in 1..Len(Page(s)) /\ Page(s)[k - Skip] = s[Skip + (k - Skip)]
    BY <1>5, <2>3, PageOfListing
  <2>5. k - Skip \in DOMAIN Page(s) /\ Page(s)[k - Skip] = i
    BY <1>3, <1>5, <2>1, <2>3, <2>4, LenProperties
  <2> QED
    BY <2>5 DEF Elements
<1>8. QuietWalkIsPrefix'
  <2> SUFFICES ASSUME changed = {}, \A i \in DOMAIN rows : ~Tied(i)
               PROVE  /\ Len(seen) = Skip /\ Skip <= n
                      /\ \E t \in Listings : Page(s) = Page(t) /\ IsPrefix(seen, t)
    <3>1. Listings' = Listings /\ (\A i : Tied(i)' = Tied(i)) /\ \A t : Page(t)' = Page(t)
      BY <1>2, <1>3, <1>5 DEF Listings, Before, Tied, Page
    <3> QED
      BY <1>2, <1>3, <1>5, <3>1 DEF QuietWalkIsPrefix, IsPrefix
  <2> QED
    BY <1>2, <1>5 DEF QuietWalkIsPrefix
<1> QED
  BY <1>2, <1>3, <1>4, <1>7, <1>8 DEF MissedOnlyAfterDeletion, QuietWalkIsExact

(* When no page is announced there was room for every row.                 *)
LEMMA GetCountInv ==
    ASSUME Inv, GetCount
    PROVE  Inv'
<1> DEFINE n == Cardinality(DOMAIN rows)
           items == reader.got.items
           last == IF Skip + reader.take < n THEN Skip + reader.take ELSE n
<1> USE DEF Inv
<1>1. /\ reader.at = "count" /\ seen' = seen \o items
      /\ UNCHANGED <<rows, unused, clock, old, changed>>
  BY DEF GetCount
<1>2. /\ n \in Nat /\ reader.page \in Nat \ {0} /\ reader.take \in Nat \ {0}
      /\ Skip \in Nat /\ Skip + reader.take = reader.page * reader.take
  <2>1. n \in Nat /\ reader.page \in Nat \ {0} /\ reader.take \in Nat \ {0}
    BY TableIsFinite, BoundsAreNat DEF TypeOK
  <2>2. \A p, t \in Nat \ {0} : (p - 1) * t \in Nat /\ (p - 1) * t + t = p * t
    OBVIOUS
  <2> QED
    BY <2>1, <2>2 DEF Skip
<1>3. HasNextPage(n) <=> reader.page * reader.take < n
  BY <1>2, RoundedUp DEF HasNextPage, PageCount
<1>4. HasNextPage(n) \in BOOLEAN
  BY DEF HasNextPage
<1>5. /\ reader'.at = IF HasNextPage(n) THEN "next" ELSE "end"
      /\ reader'.order = reader.order /\ reader'.take = reader.take
      /\ reader'.page = reader.page /\ reader'.got.items = items
  BY DEF GetCount, TypeOK
<1>6. /\ seen \in Seq(Ids) /\ items \in Seq(Ids) /\ seen' \in Seq(Ids)
      /\ Len(seen) \in Nat /\ Len(items) \in Nat /\ Len(seen') = Len(seen) + Len(items)
      /\ \A k \in 1..Len(seen') :
           seen'[k] = IF k <= Len(seen) THEN seen[k] ELSE items[k - Len(seen)]
  BY <1>1, ConcatProperties, LenProperties DEF TypeOK
<1>7. TypeOK'
  BY <1>1, <1>2, <1>4, <1>6 DEF TypeOK, GetCount
<1>8. Elements(seen') = Elements(seen) \cup Elements(items)
  <2>1. DOMAIN seen' = 1..Len(seen') /\ DOMAIN seen = 1..Len(seen) /\ DOMAIN items = 1..Len(items)
    BY <1>6, LenProperties
  <2>2. \A k \in DOMAIN seen : k \in DOMAIN seen' /\ seen'[k] = seen[k]
    BY <1>6, <2>1
  <2>3. \A k \in DOMAIN items :
          Len(seen) + k \in DOMAIN seen' /\ seen'[Len(seen) + k] = items[k]
    <3> SUFFICES ASSUME NEW k \in 1..Len(items)
                 PROVE  /\ Len(seen) + k \in 1..Len(seen')
                        /\ seen'[Len(seen) + k] = items[k]
      BY <2>1
    <3>1. Len(seen) + k \in 1..Len(seen') /\ ~(Len(seen) + k <= Len(seen))
          /\ (Len(seen) + k) - Len(seen) = k
      BY <1>6
    <3> QED
      BY <1>6, <3>1
  <2>4. \A k \in DOMAIN seen' : \/ k \in DOMAIN seen /\ seen'[k] = seen[k]
                                \/ k - Len(seen) \in DOMAIN items /\ seen'[k] = items[k - Len(seen)]
    BY <1>6, <2>1
  <2> QED
    BY <2>2, <2>3, <2>4 DEF Elements
<1>9. Received' = Received /\ Received = Elements(seen') /\ Reached' = Reached
      /\ Reached = Skip + reader.take
  BY <1>1, <1>2, <1>5, <1>8 DEF Received, Reached
<1>10. \A i : Tied(i)' = Tied(i) /\ Rank(i)' = Rank(i)
  BY <1>1, <1>5 DEF Tied, Rank, Ahead, Before
<1>11. OldAreToCome'
  BY <1>1, <1>5, <1>9, <1>10 DEF OldAreToCome
<1>12. MissedOnlyAfterDeletion'
  <2> SUFFICES ASSUME ~HasNextPage(n), "delete" \notin changed, NEW i \in old
               PROVE  i \in Elements(seen') \/ Tied(i)
    BY <1>1, <1>5, <1>10 DEF MissedOnlyAfterDeletion
  <2>1. i \in DOMAIN rows /\ (Tied(i) \/ i \in Received \/ Rank(i) >= Reached)
    BY <1>1 DEF OldAreToCome
  <2>2. Rank(i) \in Nat /\ Rank(i) < n
    BY <2>1, PartIsSmaller DEF TypeOK, Rank, Ahead
  <2> QED
    BY <1>2, <1>3, <1>9, <2>1, <2>2
<1>13. QuietWalkIsPrefix' /\ QuietWalkIsExact'
  <2> SUFFICES ASSUME changed = {}, \A i \in DOMAIN rows : ~Tied(i)
               PROVE  /\ HasNextPage(n) => /\ Len(seen') = Reached /\ Reached <= n
                                           /\ \A s \in Listings : IsPrefix(seen', s)
                      /\ ~HasNextPage(n) => seen' \in Listings
    <3>1. Listings' = Listings
      BY <1>1, <1>5 DEF Listings, Before
    <3> QED
      BY <1>1, <1>5, <1>9, <1>10, <3>1 DEF QuietWalkIsPrefix, QuietWalkIsExact, IsPrefix
  <2>1. Len(seen) = Skip /\ Skip <= n
    BY <1>1 DEF QuietWalkIsPrefix
  <2>2. PICK s \in Listings : items = Page(s) /\ IsPrefix(seen, s)
    BY <1>1 DEF QuietWalkIsPrefix
  <2>3. Len(items) = last - Skip /\ \A k \in 1..(last - Skip) : items[k] = s[Skip + k]
    BY <1>2, <2>1, <2>2, PageOfListing
  <2>4. Len(seen') = last /\ \A k \in 1..last : seen'[k] = s[k]
    <3>1. Len(seen') = last
      BY <1>2, <1>6, <2>1, <2>3
    <3>2. ASSUME NEW k \in 1..last, k <= Skip PROVE seen'[k] = s[k]
      BY <1>2, <1>6, <2>1, <2>2, <3>1, <3>2 DEF IsPrefix
    <3>3. ASSUME NEW k \in 1..last, ~(k <= Skip) PROVE seen'[k] = s[k]
      <4>1. k - Skip \in 1..(last - Skip) /\ Skip + (k - Skip) = k
        BY <1>2, <3>3
      <4> QED
        BY <1>6, <2>1, <2>3, <3>1, <3>3, <4>1
    <3> QED
      BY <3>1, <3>2, <3>3
  <2>5. ASSUME HasNextPage(n)
        PROVE  Len(seen') = Reached /\ Reached <= n /\ \A t \in Listings : IsPrefix(seen', t)
    <3>1. last = Reached /\ Reached <= n
      BY <1>2, <1>3, <1>9, <2>5
    <3>2. IsPrefix(seen', s)
      BY <2>4 DEF IsPrefix
    <3> QED
      BY <2>4, <3>1, <3>2, OneListing
  <2>6. ASSUME ~HasNextPage(n) PROVE seen' = s
    <3>1. last = n
      BY <1>2, <1>3, <2>6
    <3>2. s \in [1..n -> DOMAIN rows] /\ seen' \in [1..n -> Ids]
      BY <1>6, <2>4, <3>1, ListingIsOnto, LenProperties
    <3> QED
      BY <2>4, <3>1, <3>2
  <2> QED
    BY <2>5, <2>6
<1> QED
  BY <1>5, <1>7, <1>8, <1>11, <1>12, <1>13

(* The next page begins where this one has ended.                          *)
LEMMA NextPageInv ==
    ASSUME Inv, NextPage
    PROVE  Inv'
<1> USE DEF Inv
<1>1. /\ reader.at = "next" /\ UNCHANGED <<rows, unused, clock, seen, old, changed>>
      /\ reader' = [reader EXCEPT !.at = "items", !.page = @ + 1, !.got = NoPage]
  BY DEF NextPage
<1>2. /\ reader'.at = "items" /\ reader'.order = reader.order /\ reader'.take = reader.take
      /\ reader'.page = reader.page + 1 /\ reader'.got = NoPage
      /\ reader.page \in Nat \ {0} /\ reader.take \in Nat
  BY <1>1, BoundsAreNat DEF TypeOK
<1>3. TypeOK'
  <2>1. NoPage \in [items : Seq(Ids), itemCount : Nat, hasNextPage : BOOLEAN]
    BY EmptySeq DEF NoPage
  <2>2. reader' \in [at : {"idle", "items", "count", "next", "end"}, order : Order,
                     take : 1..MaxTake, page : Nat \ {0},
                     got : [items : Seq(Ids), itemCount : Nat, hasNextPage : BOOLEAN]]
    <3>1. reader.page + 1 \in Nat \ {0}
      BY <1>2
    <3> QED
      BY <1>1, <2>1, <3>1 DEF TypeOK
  <2> QED
    BY <1>1, <2>2 DEF TypeOK
<1>4. Reached' = Reached /\ Received' = Elements(seen) /\ Received' = Received
  <2>1. Reached' = Reached
    BY <1>1, <1>2 DEF Reached
  <2>2. Elements(reader'.got.items) = {}
    BY <1>2 DEF NoPage, Elements
  <2>3. Elements(reader.got.items) \subseteq Elements(seen)
    BY <1>1
  <2>4. Received = Elements(seen)
    BY <2>3 DEF Received
  <2>5. Received' = Elements(seen') \cup Elements(reader'.got.items)
    BY DEF Received, Elements
  <2>6. Elements(seen') = Elements(seen)
    BY <1>1 DEF Elements
  <2> QED
    BY <2>1, <2>2, <2>4, <2>5, <2>6
<1>5. \A i : Tied(i)' = Tied(i) /\ Rank(i)' = Rank(i)
  BY <1>1, <1>2 DEF Tied, Rank, Ahead, Before
<1>6. OldAreToCome'
  BY <1>1, <1>2, <1>4, <1>5 DEF OldAreToCome
<1>7. Listings' = Listings
  BY <1>1, <1>2 DEF Listings, Before
<1>8. QuietWalkIsPrefix'
  BY <1>1, <1>2, <1>4, <1>5, <1>7 DEF QuietWalkIsPrefix, IsPrefix
<1> QED
  BY <1>2, <1>3, <1>6, <1>8 DEF MissedOnlyAfterDeletion, QuietWalkIsExact

(* A new row moves others back, at most.                                   *)
LEMMA CreateUserInv ==
    ASSUME Inv, NEW x \in Ids, CreateUser(x)
    PROVE  Inv'
<1> USE DEF Inv
<1>1. /\ x \in unused /\ x \notin DOMAIN rows /\ DOMAIN rows' = DOMAIN rows \cup {x}
      /\ rows' \in [DOMAIN rows' -> Nat] /\ \A i \in DOMAIN rows : rows'[i] = rows[i]
      /\ changed' # {} /\ ("delete" \in changed' <=> "delete" \in changed)
      /\ UNCHANGED <<reader, seen, old>>
  BY BoundsAreNat DEF CreateUser, TypeOK
<1>2. TypeOK'
  BY <1>1 DEF CreateUser, TypeOK
<1>3. \A i \in DOMAIN rows : Tied(i) => Tied(i)'
  BY <1>1 DEF Tied
<1>4. ASSUME NEW i \in DOMAIN rows
      PROVE  Rank(i) \in Nat /\ Rank(i)' \in Nat /\ Rank(i) <= Rank(i)'
  <2>1. /\ Ahead(i) \in SUBSET Ahead(i)' /\ Ahead(i)' \in SUBSET Ids /\ Ahead(i) \in SUBSET Ids
    BY <1>1, <1>2, <1>4 DEF Ahead, Before, TypeOK
  <2> QED
    BY <2>1, TableIsFinite, PartIsSmaller DEF Rank
<1>5. Reached' = Reached /\ Received' = Received /\ Reached \in Int
  BY <1>1, BoundsAreNat DEF Reached, Received, TypeOK
<1>6. OldAreToCome'
  BY <1>1, <1>3, <1>4, <1>5 DEF OldAreToCome
<1>7. MissedOnlyAfterDeletion'
  BY <1>1, <1>3 DEF MissedOnlyAfterDeletion, OldAreToCome
<1> QED
  BY <1>1, <1>2, <1>6, <1>7 DEF QuietWalkIsPrefix, QuietWalkIsExact

LEMMA DeleteUserInv ==
    ASSUME Inv, NEW x \in Ids, DeleteUser(x)
    PROVE  Inv'
<1> USE DEF Inv
<1>1. /\ DOMAIN rows' = DOMAIN rows \ {x} /\ "delete" \in changed' /\ changed' # {}
      /\ rows' \in [DOMAIN rows' -> Nat]
      /\ UNCHANGED <<reader, seen, old, unused, clock>>
  BY DEF DeleteUser, TypeOK
<1>2. TypeOK'
  BY <1>1 DEF DeleteUser, TypeOK
<1> QED
  BY <1>1, <1>2 DEF OldAreToCome, MissedOnlyAfterDeletion, QuietWalkIsPrefix, QuietWalkIsExact

(* Nothing depends on the clock.                                           *)
LEMMA TickInv ==
    ASSUME Inv, Tick \/ UNCHANGED vars
    PROVE  Inv'
<1>1. UNCHANGED <<rows, unused, reader, seen, old, changed>> /\ clock' \in MaxTime..MaxTime + 1
  BY BoundsAreNat DEF Inv, TypeOK, Tick, vars
<1>2. TypeOK'
  BY <1>1 DEF Inv, TypeOK
<1>3. /\ Reached' = Reached /\ Received' = Received /\ Listings' = Listings /\ Skip' = Skip
      /\ Elements(seen') = Elements(seen)
      /\ \A i : Tied(i)' = Tied(i) /\ Rank(i)' = Rank(i)
      /\ \A s : Page(s)' = Page(s) /\ IsPrefix(seen, s)' = IsPrefix(seen, s)
  BY <1>1 DEF Reached, Received, Elements, Listings, Before, Skip, Tied, Rank, Ahead, Page,
              IsPrefix
<1>4. OldAreToCome' /\ MissedOnlyAfterDeletion'
  BY <1>1, <1>3 DEF Inv, OldAreToCome, MissedOnlyAfterDeletion
<1>5. QuietWalkIsPrefix' /\ QuietWalkIsExact'
  BY <1>1, <1>3 DEF Inv, QuietWalkIsPrefix, QuietWalkIsExact
<1> QED
  BY <1>1, <1>2, <1>3, <1>4, <1>5 DEF Inv, Elements

-----------------------------------------------------------------------------
(* What has been read and what is to come add up in every state.           *)
THEOREM Invariance == Spec => []Inv
<1>1. Init => Inv
  BY InitInv
<1>2. Inv /\ [Next]_vars => Inv'
  <2> SUFFICES ASSUME Inv, [Next]_vars PROVE Inv'
    OBVIOUS
  <2> QED
    BY StartWalkInv, GetManyInv, GetCountInv, NextPageInv, CreateUserInv, DeleteUserInv,
       TickInv DEF Next, Read
<1> QED
  BY <1>1, <1>2, PTL DEF Spec

(* Insertions alone never make a walk to the end skip an account that was  *)
(* there all the time, whatever the size of table and page.                *)
THEOREM InsertionsSkipNone == Spec => []MissedOnlyAfterDeletion
BY Invariance, PTL DEF Inv

(* On a quiet table without ties the pages are the table.                  *)
THEOREM PagesAreTheTable == Spec => []QuietWalkIsExact
BY Invariance, PTL DEF Inv

(***************************************************************************)
(* The health checks.                                                      *)
(***************************************************************************)

LEMMA AtMostOne ==
    ASSUME NEW S, \A x, y \in S : x = y
    PROVE  Cardinality(S) <= 1
<1>1. CASE S = {}
  BY <1>1, FS_EmptySet
<1>2. CASE S # {}
  <2>1. PICK x \in S : TRUE
    BY <1>2
  <2>2. S = {x}
    BY <2>1
  <2> QED
    BY <2>2, FS_Singleton
<1> QED
  BY <1>1, <1>2

LEMMA HealthInitInv == HealthInit => HealthInv
BY DEF HealthInit, HealthInv, HealthTypeOK, ClientsFit, FalseDownOnlyByClash, Probes, Waiting, WaitingOn

LEMMA PairsOfProbes == \A p \in Probes : p[1] \in Checks /\ p[2] \in Indicators
BY DEF Probes

-----------------------------------------------------------------------------
(* A step of one probe.  It changes the probe itself and its client; of    *)
(* the others it says at most that they have met another.                  *)
LEMMA ProbeInv ==
    ASSUME HealthInv, NEW p \in Probes, NEW state, NEW result,
           result \in {"up", "down"} \cup Waiting,
           state \in {"closed", "connecting", "ready", "closing"},
           kind[p[1]] # None,
           UNCHANGED kind,
           probe' = [probe EXCEPT ![p] = result],
           client' = [client EXCEPT ![p[2]] = state],
           clash \subseteq clash', missed \subseteq missed',
           clash' \subseteq Probes, missed' \subseteq Probes,
           result = "down" => p \in missed' \cup clash',
           \* the probe is in the state that it takes the client to be in
           result = "connect" => state = "connecting",
           result = "ping" => state = "ready",
           \* other probes that use the client have been cut off
           \A q \in Probes \ {p} : q[2] = p[2] /\ probe[q] \in Waiting =>
              /\ result \notin Waiting
              /\ \/ state = "closing" /\ q \in clash'
                 \/ state = client[p[2]],
           result \notin Waiting /\ state \in {"connecting", "ready"} =>
              \E q \in Probes \ {p} : q[2] = p[2] /\ probe[q] \in Waiting
    PROVE  HealthInv'
<1> USE PairsOfProbes DEF HealthInv
<1>1. HealthTypeOK'
  BY DEF HealthTypeOK
<1>2. \A q \in Probes : probe'[q] = IF q = p THEN result ELSE probe[q]
  BY DEF HealthTypeOK
<1>3. \A i \in Indicators : client'[i] = IF i = p[2] THEN state ELSE client[i]
  BY DEF HealthTypeOK
<1>4. ASSUME NEW q \in Probes
      PROVE  /\ kind'[q[1]] = None => probe'[q] = "none"
             /\ probe'[q] = "connect" => client'[q[2]] \in {"connecting", "closing"}
             /\ probe'[q] = "ping" => client'[q[2]] \in {"ready", "closing"}
             /\ probe'[q] \in Waiting /\ client'[q[2]] = "closing" => q \in clash'
             /\ probe'[q] = "down" => q \in missed' \cup clash'
  <2>1. CASE q = p
    BY <1>2, <1>3, <2>1 DEF Waiting
  <2>2. CASE q # p
    BY <1>2, <1>3, <2>2 DEF ClientsFit, FalseDownOnlyByClash, Waiting
  <2> QED
    BY <2>1, <2>2
<1>5. ASSUME NEW q \in Probes, NEW u \in Probes,
             probe'[q] \in Waiting, probe'[u] \in Waiting, q[2] = u[2]
      PROVE  q = u
  BY <1>2, <1>5 DEF ClientsFit
<1>6. ASSUME NEW i \in Indicators, client'[i] \in {"connecting", "ready"}
      PROVE  \E q \in Probes : q[2] = i /\ probe'[q] \in Waiting
  <2>1. CASE i = p[2]
    BY <1>2, <1>3, <1>6, <2>1
  <2>2. CASE i # p[2]
    BY <1>2, <1>3, <1>6, <2>2 DEF ClientsFit, WaitingOn
  <2> QED
    BY <2>1, <2>2
<1>7. ClientsFit'
  BY <1>4, <1>5, <1>6 DEF ClientsFit, WaitingOn
<1>8. FalseDownOnlyByClash'
  BY <1>4 DEF FalseDownOnlyByClash
<1> QED
  BY <1>1, <1>7, <1>8

LEMMA StepInv ==
    ASSUME HealthInv, NEW p \in Probes, Step(p)
    PROVE  HealthInv'
<1> USE PairsOfProbes DEF HealthInv
<1>1. kind[p[1]] # None
  BY DEF Step, Connect, Connected, ConnectFails, Pong, PingFails, ClientsFit
<1>2. ASSUME probe[p] \in Waiting
      PROVE  \A q \in Probes \ {p} : q[2] = p[2] => probe[q] \notin Waiting
  BY <1>2 DEF ClientsFit
<1>3. CASE Connect(p)
  <2> DEFINE i == p[2]
             met == WaitingOn(i) # {} \/ client[i] = "closing"
  <2>1. /\ UNCHANGED <<kind, missed>> /\ clash \subseteq clash' /\ clash' \subseteq Probes
        /\ missed \subseteq missed' /\ missed' \subseteq Probes
        /\ met => p \in clash' /\ WaitingOn(i) \subseteq clash'
    BY <1>3 DEF Connect, HealthTypeOK, WaitingOn
  <2>2. CASE client[i] = "closed"
    <3>1. probe' = [probe EXCEPT ![p] = "connect"] /\ client' = [client EXCEPT ![i] = "connecting"]
      BY <1>3, <2>2 DEF Connect
    <3>2. \A q \in Probes : q[2] = i => probe[q] \notin Waiting
      BY <2>2 DEF ClientsFit, Waiting
    <3> QED
      BY <1>1, <2>1, <3>1, <3>2, ProbeInv DEF Waiting
  <2>3. CASE client[i] # "closed"
    <3>1. probe' = [probe EXCEPT ![p] = "down"] /\ client' = [client EXCEPT ![p[2]] = "closing"]
      BY <1>3, <2>3 DEF Connect, Down, Disconnected
    <3>2. met
      BY <2>3 DEF ClientsFit, HealthTypeOK
    <3>3. p \in clash' /\ \A q \in Probes : q[2] = p[2] /\ probe[q] \in Waiting => q \in clash'
      BY <2>1, <3>2 DEF WaitingOn
    <3>4. "down" \notin Waiting
      BY DEF Waiting
    <3>5. /\ UNCHANGED kind /\ clash \subseteq clash' /\ clash' \subseteq Probes
          /\ missed \subseteq missed' /\ missed' \subseteq Probes
      BY <2>1
    <3> HIDE DEF met
    <3> QED
      BY <1>1, <3>1, <3>3, <3>4, <3>5, ProbeInv
  <2> QED
    BY <2>2, <2>3
<1>4. CASE Connected(p)
  BY <1>1, <1>2, <1>4, ProbeInv DEF Connected, Waiting, HealthTypeOK
<1>5. CASE ConnectFails(p)
  BY <1>1, <1>2, <1>5, ProbeInv DEF ConnectFails, Down, Disconnected, Waiting, HealthTypeOK
<1>6. CASE Pong(p)
  BY <1>1, <1>2, <1>6, ProbeInv DEF Pong, Up, Disconnected, Waiting, HealthTypeOK
<1>7. CASE PingFails(p)
  BY <1>1, <1>2, <1>7, ProbeInv DEF PingFails, Down, Disconnected, Waiting, HealthTypeOK
<1> QED
  BY <1>3, <1>4, <1>5, <1>6, <1>7 DEF Step

LEMMA RequestInv ==
    ASSUME HealthInv, NEW c \in Checks, NEW k \in DOMAIN Needs, Request(c, k)
    PROVE  HealthInv'
<1> USE PairsOfProbes DEF HealthInv
<1>1. \A p \in Probes : /\ p[1] = c => probe[p] = "none" /\ probe'[p] \in {"none", "start"}
                        /\ p[1] # c => probe'[p] = probe[p] /\ kind'[p[1]] = kind[p[1]]
  BY DEF Request, ClientsFit, HealthTypeOK
<1>2. kind'[c] = k /\ k # None
  BY NoneIsNoKind DEF Request, HealthTypeOK
<1>3. HealthTypeOK'
  BY DEF Request, HealthTypeOK
<1>4. \A p \in Probes : \/ probe'[p] = probe[p]
                        \/ probe[p] \notin Waiting /\ probe'[p] \notin Waiting \cup {"down"}
  BY <1>1 DEF Waiting
<1>5. UNCHANGED <<client, clash, missed>>
  BY DEF Request
<1>6. \A p \in Probes : probe'[p] \in Waiting <=> probe[p] \in Waiting
  BY <1>4
<1>7. \A i \in Indicators : WaitingOn(i)' = WaitingOn(i)
  BY <1>6 DEF WaitingOn
<1>8. \A p \in Probes : kind'[p[1]] = None => probe'[p] = "none"
  BY <1>1, <1>2 DEF ClientsFit
<1>9. ClientsFit'
  BY <1>4, <1>5, <1>6, <1>7, <1>8 DEF ClientsFit, Waiting
<1>10. FalseDownOnlyByClash'
  BY <1>4, <1>5 DEF FalseDownOnlyByClash
<1> QED
  BY <1>3, <1>9, <1>10

LEMMA ClosedInv ==
    ASSUME HealthInv, NEW i \in Indicators, Closed(i)
    PROVE  HealthInv'
<1> USE PairsOfProbes DEF HealthInv
<1>1. /\ client[i] = "closing" /\ client'[i] = "closed"
      /\ \A j \in Indicators \ {i} : client'[j] = client[j]
      /\ UNCHANGED <<kind, clash, missed>>
  BY DEF Closed, HealthTypeOK
<1>2. \A p \in Probes : probe'[p] = IF p[2] = i /\ probe[p] \in Waiting
                                    THEN "down" ELSE probe[p]
  BY DEF Closed, WaitingOn
<1>3. HealthTypeOK'
  BY DEF Closed, HealthTypeOK
<1>4. FalseDownOnlyByClash'
  BY <1>1, <1>2 DEF FalseDownOnlyByClash, ClientsFit
<1>5. ASSUME NEW p \in Probes
      PROVE  /\ kind'[p[1]] = None => probe'[p] = "none"
             /\ probe'[p] = "connect" => client'[p[2]] \in {"connecting", "closing"}
             /\ probe'[p] = "ping" => client'[p[2]] \in {"ready", "closing"}
             /\ probe'[p] \in Waiting /\ client'[p[2]] = "closing" => p \in clash'
             /\ probe'[p] \in Waiting => probe[p] \in Waiting
  BY <1>1, <1>2 DEF ClientsFit, Waiting
<1>6. ASSUME NEW j \in Indicators, client'[j] \in {"connecting", "ready"}
      PROVE  WaitingOn(j)' # {}
  BY <1>1, <1>2, <1>6 DEF ClientsFit, WaitingOn
<1> QED
  BY <1>3, <1>4, <1>5, <1>6 DEF ClientsFit

-----------------------------------------------------------------------------
(* Whatever checks overlap: clients, probes and what they have met agree.  *)
THEOREM HealthInvariance == HealthSpec => []HealthInv
<1>1. HealthInit => HealthInv
  BY HealthInitInv
<1>2. HealthInv /\ [HealthNext]_healthVars => HealthInv'
  <2> SUFFICES ASSUME HealthInv, [HealthNext]_healthVars PROVE HealthInv'
    OBVIOUS
  <2>1. CASE UNCHANGED healthVars
    BY <2>1 DEF healthVars, HealthInv, HealthTypeOK, ClientsFit, FalseDownOnlyByClash, WaitingOn
  <2> QED
    BY <2>1, StepInv, RequestInv, ClosedInv DEF HealthNext
<1> QED
  BY <1>1, <1>2, PTL DEF HealthSpec

(* The connection of an indicator serves one probe at a time and nobody    *)
(* leaves it open, however many checks meet.                               *)
THEOREM OneUser == HealthSpec => []ConnectionHasOneUser
<1>1. HealthInv => ConnectionHasOneUser
  <2> SUFFICES ASSUME HealthInv, NEW i \in Indicators
               PROVE  /\ Cardinality(WaitingOn(i)) <= 1
                      /\ \A p \in WaitingOn(i) :
                           client[i] \in (IF probe[p] = "connect"
                                          THEN {"connecting", "closing"}
                                          ELSE {"ready", "closing"})
                      /\ WaitingOn(i) = {} => client[i] \in {"closed", "closing"}
    BY DEF ConnectionHasOneUser
  <2>1. \A p, q \in WaitingOn(i) : p = q
    BY DEF HealthInv, ClientsFit, WaitingOn
  <2>2. Cardinality(WaitingOn(i)) <= 1
    BY <2>1, AtMostOne
  <2> QED
    BY <2>2 DEF HealthInv, HealthTypeOK, ClientsFit, WaitingOn, Waiting
<1> QED
  BY <1>1, HealthInvariance, PTL

(* Redis is reported down although it has answered only to a check that    *)
(* met another one.                                                        *)
THEOREM DownIsTrueOrClash == HealthSpec => []FalseDownOnlyByClash
BY HealthInvariance, PTL DEF HealthInv
=============================================================================
