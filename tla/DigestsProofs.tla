--------------------------- MODULE DigestsProofs ---------------------------
(***************************************************************************)
(* The digests of src/locusmesh/policy.py tell what a file says and hide   *)
(* the order it says it in, for lists of every length: what sorted()       *)
(* returns depends only on which entries are in the list, and they are all *)
(* in it again.                                                            *)
(***************************************************************************)
EXTENDS Digests, FiniteSetTheorems, FunctionTheorems, TLAPS

-----------------------------------------------------------------------------
(* What sorted() returns *)

\* A strict total order on the entries.
Orders(before, entries) ==
    /\ \A x \in entries : <<x, x>> \notin before
    /\ \A x, y, z \in entries :
          <<x, y>> \in before /\ <<y, z>> \in before => <<x, z>> \in before
    /\ \A x, y \in entries : x # y => <<x, y>> \in before \/ <<y, x>> \in before

\* The entries before x; their number is the place of x.
Below(before, entries, x) == {y \in entries : <<y, x>> \in before}

Place(before, entries, x) == Cardinality(Below(before, entries, x))

\* A list that repeats nothing, as it is written in a file.
IsListing(list) == list \in Seq(Range(list)) /\ IsInjective(list)

\* A listing is as long as its entries are many.
LEMMA ListingCounts ==
    ASSUME NEW list, IsListing(list)
    PROVE  /\ DOMAIN list = 1..Len(list) /\ Len(list) \in Nat
           /\ IsFiniteSet(Range(list))
           /\ Cardinality(Range(list)) = Len(list)
<1>1. DOMAIN list = 1..Len(list) /\ Len(list) \in Nat
      BY DEF IsListing
<1>2. list \in Bijection(1..Len(list), Range(list))
  <2>1. list \in [1..Len(list) -> Range(list)]
        BY DEF IsListing
  <2>2. \A a, b \in 1..Len(list) : list[a] = list[b] => a = b
        BY <1>1 DEF IsListing, IsInjective
  <2>3. \A x \in Range(list) : \E a \in 1..Len(list) : list[a] = x
        BY <1>1 DEF Range
  <2>. QED BY <2>1, <2>2, <2>3, Fun_IsBij
<1>3. IsFiniteSet(1..Len(list)) /\ Cardinality(1..Len(list)) = Len(list)
  <2>1. 1 \in Int /\ Len(list) \in Int
        BY <1>1
  <2>2. /\ IsFiniteSet(1..Len(list))
        /\ Cardinality(1..Len(list)) = IF 1 > Len(list) THEN 0 ELSE Len(list) - 1 + 1
        BY <2>1, FS_Interval
  <2>. QED BY <1>1, <2>2
<1>4. ExistsBijection(1..Len(list), Range(list))
      BY <1>2 DEF ExistsBijection
<1>. QED BY <1>1, <1>3, <1>4, FS_Bijection

\* With no two keys alike, sorted() counts the entries before an entry.
LEMMA EarlierCounts ==
    ASSUME NEW list, IsListing(list), NEW before, Orders(before, Range(list)),
           NEW i \in DOMAIN list
    PROVE  Cardinality(Earlier(list, before, i)) = Place(before, Range(list), list[i])
<1>. DEFINE first == Earlier(list, before, i)
            below == Below(before, Range(list), list[i])
            entry == [j \in first |-> list[j]]
<1>1. \A j \in DOMAIN list : list[j] \in Range(list)
      BY DEF Range
<1>2. \A j \in DOMAIN list : j \in first <=> <<list[j], list[i]>> \in before
  <2>. TAKE j \in DOMAIN list
  <2>1. CASE j = i
    <3>1. <<list[i], list[i]>> \notin before
          BY <1>1 DEF Orders
    <3>2. ~(i < i)
      <4>1. i \in Nat
            BY ListingCounts
      <4>. QED BY <4>1
    <3>. QED BY <2>1, <3>1, <3>2 DEF Earlier
  <2>2. CASE j # i
    <3>1. list[j] # list[i]
          BY <2>2 DEF IsListing, IsInjective
    <3>2. <<list[j], list[i]>> \in before \/ <<list[i], list[j]>> \in before
          BY <1>1, <3>1 DEF Orders
    <3>. QED BY <3>2 DEF Earlier
  <2>. QED BY <2>1, <2>2
<1>3. first \subseteq DOMAIN list
      BY DEF Earlier
<1>4. entry \in Bijection(first, below)
  <2>1. entry \in [first -> below]
        BY <1>1, <1>2, <1>3 DEF Below
  <2>2. \A a, b \in first : entry[a] = entry[b] => a = b
        BY <1>3 DEF IsListing, IsInjective
  <2>3. \A x \in below : \E a \in first : entry[a] = x
    <3>. TAKE x \in below
    <3>1. PICK a \in DOMAIN list : list[a] = x
          BY DEF Below, Range
    <3>2. a \in first
          BY <1>2, <3>1 DEF Below
    <3>. QED BY <3>1, <3>2
  <2>. QED BY <2>1, <2>2, <2>3, Fun_IsBij
<1>5. IsFiniteSet(first)
  <2>1. IsFiniteSet(DOMAIN list)
        BY ListingCounts, FS_Interval
  <2>. QED BY <1>3, <2>1, FS_Subset
<1>6. ExistsBijection(first, below)
      BY <1>4 DEF ExistsBijection
<1>. QED BY <1>5, <1>6, FS_Bijection DEF Place

\* The entries before x are fewer than all, and fewer than those before y when x
\* is before y: no two entries have the same place.
LEMMA OwnPlace ==
    ASSUME NEW entries, IsFiniteSet(entries), NEW before, Orders(before, entries),
           NEW x \in entries
    PROVE  /\ Place(before, entries, x) \in 0..(Cardinality(entries) - 1)
           /\ \A y \in entries : Place(before, entries, x) = Place(before, entries, y) => x = y
<1>1. \A u \in entries : IsFiniteSet(Below(before, entries, u))
  <2>. TAKE u \in entries
  <2>1. Below(before, entries, u) \in SUBSET entries
        BY DEF Below
  <2>. QED BY <2>1, FS_Subset
<1>2. \A u \in entries : Place(before, entries, u) \in Nat
      BY <1>1, FS_CardinalityType DEF Place
<1>3. Place(before, entries, x) \in 0..(Cardinality(entries) - 1)
  <2>1. Below(before, entries, x) \in SUBSET entries
        BY DEF Below
  <2>2. Below(before, entries, x) # entries
        BY DEF Below, Orders
  <2>3. /\ Place(before, entries, x) <= Cardinality(entries)
        /\ Place(before, entries, x) # Cardinality(entries)
        BY <2>1, <2>2, FS_Subset DEF Place
  <2>4. Cardinality(entries) \in Nat
        BY FS_CardinalityType
  <2>. QED BY <1>2, <2>3, <2>4
<1>4. \A u, y \in entries :
         <<u, y>> \in before => Place(before, entries, u) # Place(before, entries, y)
  <2>. SUFFICES ASSUME NEW u \in entries, NEW y \in entries, <<u, y>> \in before
                PROVE  Place(before, entries, u) # Place(before, entries, y)
       OBVIOUS
  <2>1. Below(before, entries, u) \in SUBSET Below(before, entries, y)
        BY DEF Below, Orders
  <2>2. u \in Below(before, entries, y) /\ u \notin Below(before, entries, u)
        BY DEF Below, Orders
  <2>3. Below(before, entries, y) # Below(before, entries, u)
        BY <2>2
  <2>. QED BY <1>1, <2>1, <2>3, FS_Subset DEF Place
<1>5. \A y \in entries : Place(before, entries, x) = Place(before, entries, y) => x = y
  <2>. SUFFICES ASSUME NEW y \in entries, x # y
                PROVE  Place(before, entries, x) # Place(before, entries, y)
       OBVIOUS
  <2>1. <<x, y>> \in before \/ <<y, x>> \in before
        BY DEF Orders
  <2>. QED BY <1>4, <2>1
<1>. QED BY <1>3, <1>5

\* As many places as entries: every place is taken.
LEMMA EveryPlace ==
    ASSUME NEW entries, IsFiniteSet(entries), NEW before, Orders(before, entries)
    PROVE  \A n \in 1..Cardinality(entries) :
              \E x \in entries : Place(before, entries, x) = n - 1
<1>. DEFINE places == 0..(Cardinality(entries) - 1)
            place == [x \in entries |-> Place(before, entries, x)]
<1>1. Cardinality(entries) \in Nat
      BY FS_CardinalityType
<1>2. IsFiniteSet(places) /\ Cardinality(places) = Cardinality(entries)
  <2>1. 0 \in Int /\ Cardinality(entries) - 1 \in Int
        BY <1>1
  <2>2. /\ IsFiniteSet(places)
        /\ Cardinality(places) = IF 0 > Cardinality(entries) - 1 THEN 0
                                 ELSE Cardinality(entries) - 1 - 0 + 1
        BY <2>1, FS_Interval
  <2>. HIDE DEF places
  <2>. QED BY <1>1, <2>2
<1>3. place \in Injection(entries, places)
  <2>1. place \in [entries -> places]
        BY OwnPlace
  <2>2. \A x, y \in entries : place[x] = place[y] => x = y
        BY OwnPlace
  <2>. HIDE DEF place, places
  <2>. QED BY <2>1, <2>2, Fun_IsInj
<1>4. place \in Surjection(entries, places)
  <2>. HIDE DEF place, places
  <2>. QED BY <1>2, <1>3, FS_Injection
<1>5. \A m \in places : \E x \in entries : place[x] = m
  <2>. HIDE DEF place, places
  <2>. QED BY <1>4, Fun_SurjectionProperties
<1>. SUFFICES ASSUME NEW n \in 1..Cardinality(entries)
              PROVE  \E x \in entries : Place(before, entries, x) = n - 1
     OBVIOUS
<1>6. n - 1 \in places
      BY <1>1
<1>. QED BY <1>5, <1>6

\* The sorted list of the entries, whatever list they came in.
InOrder(before, entries) ==
    [n \in 1..Cardinality(entries) |-> CHOOSE x \in entries : Place(before, entries, x) = n - 1]

LEMMA SortedInOrder ==
    ASSUME NEW list, IsListing(list), NEW before, Orders(before, Range(list))
    PROVE  /\ Sorted(list, before) = InOrder(before, Range(list))
           /\ Range(Sorted(list, before)) = Range(list)
<1>. DEFINE entries == Range(list)
<1>1. /\ DOMAIN list = 1..Len(list) /\ Len(list) \in Nat
      /\ IsFiniteSet(entries) /\ Cardinality(entries) = Len(list)
      BY ListingCounts
<1>2. \A i \in DOMAIN list : list[i] \in entries
      BY DEF Range
<1>3. \A x \in entries : \E i \in DOMAIN list : list[i] = x
      BY DEF Range
<1>4. \A i \in DOMAIN list :
         Cardinality(Earlier(list, before, i)) = Place(before, entries, list[i])
      BY EarlierCounts
<1>. HIDE DEF entries
<1>5. \A x, y \in entries : Place(before, entries, x) = Place(before, entries, y) => x = y
      BY <1>1, OwnPlace DEF entries
<1>6. ASSUME NEW n \in DOMAIN list
      PROVE  /\ Sorted(list, before)[n] = InOrder(before, entries)[n]
             /\ Sorted(list, before)[n] \in entries
             /\ Place(before, entries, Sorted(list, before)[n]) = n - 1
  <2>1. PICK x \in entries : Place(before, entries, x) = n - 1
        BY <1>1, EveryPlace DEF entries
  <2>2. PICK i \in DOMAIN list : list[i] = x
        BY <1>3
  <2>. DEFINE index == CHOOSE j \in DOMAIN list : Cardinality(Earlier(list, before, j)) = n - 1
  <2>3. index \in DOMAIN list /\ Cardinality(Earlier(list, before, index)) = n - 1
        BY <1>4, <2>1, <2>2
  <2>4. Sorted(list, before)[n] = list[index]
        BY DEF Sorted
  <2>. HIDE DEF index
  <2>5. list[index] \in entries /\ Place(before, entries, list[index]) = n - 1
        BY <1>2, <1>4, <2>3
  <2>. DEFINE chosen == CHOOSE y \in entries : Place(before, entries, y) = n - 1
  <2>6. chosen \in entries /\ Place(before, entries, chosen) = n - 1
        BY <2>1
  <2>7. InOrder(before, entries)[n] = chosen
        BY <1>1 DEF InOrder
  <2>. HIDE DEF chosen
  <2>8. list[index] = chosen
        BY <1>5, <2>5, <2>6
  <2>. QED BY <2>4, <2>5, <2>7, <2>8
<1>7. Sorted(list, before) = InOrder(before, entries)
  <2>1. Sorted(list, before) = [n \in DOMAIN list |-> Sorted(list, before)[n]]
        BY DEF Sorted
  <2>2. InOrder(before, entries) = [n \in DOMAIN list |-> InOrder(before, entries)[n]]
        BY <1>1 DEF InOrder
  <2>. QED BY <1>6, <2>1, <2>2
<1>8. DOMAIN Sorted(list, before) = DOMAIN list
      BY DEF Sorted
<1>9. \A x \in entries : \E n \in DOMAIN list : Sorted(list, before)[n] = x
  <2>. TAKE x \in entries
  <2>1. Place(before, entries, x) \in 0..(Cardinality(entries) - 1)
        BY <1>1, OwnPlace DEF entries
  <2>. DEFINE n == Place(before, entries, x) + 1
  <2>2. n \in DOMAIN list /\ Place(before, entries, x) = n - 1
        BY <1>1, <2>1
  <2>. HIDE DEF n
  <2>3. Sorted(list, before)[n] = x
        BY <1>5, <1>6, <2>2
  <2>. QED BY <2>2, <2>3
<1>10. Range(Sorted(list, before)) = entries
       BY <1>6, <1>8, <1>9 DEF Range
<1>. QED BY <1>7, <1>10 DEF entries

\* Two listings sort to the same list exactly when they list the same entries.
LEMMA SameSorted ==
    ASSUME NEW s, IsListing(s), NEW before, Orders(before, Range(s)),
           NEW t, IsListing(t), NEW other, Orders(other, Range(t)),
           Range(s) = Range(t) => before = other
    PROVE  Sorted(s, before) = Sorted(t, other) <=> Range(s) = Range(t)
<1>1. /\ Sorted(s, before) = InOrder(before, Range(s))
      /\ Range(Sorted(s, before)) = Range(s)
      BY SortedInOrder
<1>2. /\ Sorted(t, other) = InOrder(other, Range(t))
      /\ Range(Sorted(t, other)) = Range(t)
      BY SortedInOrder
<1>. QED BY <1>1, <1>2

-----------------------------------------------------------------------------
(* The three lists that are sorted *)

\* No two peers of a topology that loads have one id.
LEMMA PeersOrdered ==
    ASSUME NEW t, TopologyLoads(t)
    PROVE  IsListing(t.peers) /\ Orders(PeerOrder(t.peers), Range(t.peers))
<1>. DEFINE peers == t.peers
<1>1. IsListing(peers)
      BY DEF IsListing, TopologyLoads, UniqueEntries, IsInjective
<1>2. \A x \in Range(peers) : x.peer_id \in Int
      BY DEF TopologyLoads, PeerIds, Range
<1>3. \A x, y \in Range(peers) : x # y => x.peer_id # y.peer_id
      BY DEF TopologyLoads, UniqueEntries, Range
<1>. HIDE DEF peers
<1>4. \A x, y \in Range(peers) : <<x, y>> \in PeerOrder(peers) <=> x.peer_id < y.peer_id
      BY DEF PeerOrder
<1>5. \A x, y, z : <<x, y>> \in PeerOrder(peers) => x \in Range(peers) /\ y \in Range(peers)
      BY DEF PeerOrder
<1>6. \A x \in Range(peers) : <<x, x>> \notin PeerOrder(peers)
      BY <1>2, <1>4
<1>7. \A x, y, z \in Range(peers) :
         <<x, y>> \in PeerOrder(peers) /\ <<y, z>> \in PeerOrder(peers)
            => <<x, z>> \in PeerOrder(peers)
      BY <1>2, <1>4
<1>8. \A x, y \in Range(peers) :
         x # y => <<x, y>> \in PeerOrder(peers) \/ <<y, x>> \in PeerOrder(peers)
      BY <1>2, <1>3, <1>4
<1>9. Orders(PeerOrder(peers), Range(peers))
      BY <1>6, <1>7, <1>8 DEF Orders
<1>. QED BY <1>1, <1>9 DEF peers

\* Edges run between peers of the topology, whose ids are ordered.
LEMMA EdgesOrdered ==
    ASSUME NEW t, TopologyLoads(t)
    PROVE  IsListing(t.edges) /\ Orders(EdgeOrder(t.edges), Range(t.edges))
<1>. DEFINE edges == t.edges
<1>1. IsListing(edges)
      BY DEF IsListing, TopologyLoads, UniqueEntries
<1>2. Range(edges) \subseteq Int \X Int
  <2>1. Snapshot(t).edges = Range(edges) /\ DOMAIN Snapshot(t).peers = PeerIds(t)
        BY DEF Snapshot, PeerIds
  <2>2. Range(edges) \subseteq PeerIds(t) \X PeerIds(t)
        BY <2>1 DEF TopologyLoads, ValidTopology
  <2>. QED BY <2>2 DEF TopologyLoads
<1>3. \A x, y \in Range(edges) : x # y => x[1] # y[1] \/ x[2] # y[2]
      BY <1>2
<1>4. \A x \in Range(edges) : x[1] \in Int /\ x[2] \in Int
      BY <1>2
<1>. HIDE DEF edges
<1>5. \A x, y \in Range(edges) :
         <<x, y>> \in EdgeOrder(edges)
            <=> \/ x[1] < y[1]
                \/ x[1] = y[1] /\ x[2] < y[2]
      BY DEF EdgeOrder
<1>6. \A x \in Range(edges) : <<x, x>> \notin EdgeOrder(edges)
      BY <1>4, <1>5
<1>7. \A x, y, z \in Range(edges) :
         <<x, y>> \in EdgeOrder(edges) /\ <<y, z>> \in EdgeOrder(edges)
            => <<x, z>> \in EdgeOrder(edges)
      BY <1>4, <1>5
<1>8. \A x, y \in Range(edges) :
         x # y => <<x, y>> \in EdgeOrder(edges) \/ <<y, x>> \in EdgeOrder(edges)
      BY <1>3, <1>4, <1>5
<1>9. Orders(EdgeOrder(edges), Range(edges))
      BY <1>6, <1>7, <1>8 DEF Orders
<1>. QED BY <1>1, <1>9 DEF edges

LEMMA ScopeRanks ==
    /\ \A x \in Intents : ScopeRank(x) \in Int
    /\ \A x, y \in Intents : x # y => ScopeRank(x) # ScopeRank(y)
<1>1. ScopeRank("device_only") = 0
      BY DEF ScopeRank
<1>2. ScopeRank("private_mesh") = 1
      BY DEF ScopeRank
<1>3. ScopeRank("public_mesh") = 2
      BY DEF ScopeRank
<1>. QED BY <1>1, <1>2, <1>3 DEF Intents

\* An intent is listed once.
LEMMA IntentsOrdered ==
    ASSUME NEW file, Loads(file)
    PROVE  /\ IsListing(file.allowed_intents)
           /\ Orders(IntentOrder(file.allowed_intents), Range(file.allowed_intents))
<1>. DEFINE intents == file.allowed_intents
<1>1. intents \in Seq(Intents) /\ IsInjective(intents)
      BY DEF Loads
<1>. HIDE DEF intents
<1>2. Range(intents) \subseteq Intents
      BY <1>1 DEF Range
<1>3. IsListing(intents)
  <2>1. intents \in [1..Len(intents) -> Range(intents)] /\ Len(intents) \in Nat
        BY <1>1 DEF Range
  <2>2. intents \in Seq(Range(intents))
        BY <2>1
  <2>. QED BY <1>1, <2>2 DEF IsListing
<1>4. \A x, y \in Range(intents) :
         <<x, y>> \in IntentOrder(intents) <=> ScopeRank(x) < ScopeRank(y)
      BY DEF IntentOrder
<1>5. \A x \in Range(intents) : <<x, x>> \notin IntentOrder(intents)
      BY <1>2, <1>4, ScopeRanks
<1>6. \A x, y, z \in Range(intents) :
         <<x, y>> \in IntentOrder(intents) /\ <<y, z>> \in IntentOrder(intents)
            => <<x, z>> \in IntentOrder(intents)
      BY <1>2, <1>4, ScopeRanks
<1>7. \A x, y \in Range(intents) :
         x # y => <<x, y>> \in IntentOrder(intents) \/ <<y, x>> \in IntentOrder(intents)
      BY <1>2, <1>4, ScopeRanks
<1>8. Orders(IntentOrder(intents), Range(intents))
      BY <1>5, <1>6, <1>7 DEF Orders
<1>. QED BY <1>3, <1>8 DEF intents

-----------------------------------------------------------------------------
(* What a digest tells *)

\* topology_digest: equal exactly for topologies that say the same.
LEMMA TopologyDigestTells ==
    ASSUME NEW t, TopologyLoads(t), NEW u, TopologyLoads(u)
    PROVE  TopologyFileDigest(t) = TopologyFileDigest(u) <=> SameTopology(t, u)
<1>1. Sorted(t.peers, PeerOrder(t.peers)) = Sorted(u.peers, PeerOrder(u.peers))
         <=> Range(t.peers) = Range(u.peers)
  <2>1. Range(t.peers) = Range(u.peers) => PeerOrder(t.peers) = PeerOrder(u.peers)
        BY DEF PeerOrder
  <2>. QED BY <2>1, PeersOrdered, SameSorted
<1>2. Sorted(t.edges, EdgeOrder(t.edges)) = Sorted(u.edges, EdgeOrder(u.edges))
         <=> Range(t.edges) = Range(u.edges)
  <2>1. Range(t.edges) = Range(u.edges) => EdgeOrder(t.edges) = EdgeOrder(u.edges)
        BY DEF EdgeOrder
  <2>. QED BY <2>1, EdgesOrdered, SameSorted
<1>3. TopologyFileDigest(t) = TopologyFileDigest(u) <=>
         /\ t.snapshot_id = u.snapshot_id /\ t.local_peer_id = u.local_peer_id
         /\ t.captured_at = u.captured_at /\ t.expires_at = u.expires_at
         /\ Sorted(t.peers, PeerOrder(t.peers)) = Sorted(u.peers, PeerOrder(u.peers))
         /\ Sorted(t.edges, EdgeOrder(t.edges)) = Sorted(u.edges, EdgeOrder(u.edges))
      BY DEF TopologyFileDigest, Sha256Digest
<1>. QED BY <1>1, <1>2, <1>3 DEF SameTopology

\* policy_digest: equal exactly for policies that say the same.
LEMMA PolicyDigestTells ==
    ASSUME NEW p, Loads(p), NEW q, Loads(q)
    PROVE  PolicyFileDigest(p) = PolicyFileDigest(q) <=> SamePolicy(p, q)
<1>1. Sorted(p.allowed_intents, IntentOrder(p.allowed_intents))
         = Sorted(q.allowed_intents, IntentOrder(q.allowed_intents))
         <=> Range(p.allowed_intents) = Range(q.allowed_intents)
  <2>1. Range(p.allowed_intents) = Range(q.allowed_intents)
           => IntentOrder(p.allowed_intents) = IntentOrder(q.allowed_intents)
        BY DEF IntentOrder
  <2>. QED BY <2>1, IntentsOrdered, SameSorted
<1>2. TopologyFileDigest(p.topology) = TopologyFileDigest(q.topology)
         <=> SameTopology(p.topology, q.topology)
  <2>1. TopologyLoads(p.topology) /\ TopologyLoads(q.topology)
        BY DEF Loads
  <2>. QED BY <2>1, TopologyDigestTells
<1>3. PolicyFileDigest(p) = PolicyFileDigest(q) <=>
         /\ Sorted(p.allowed_intents, IntentOrder(p.allowed_intents))
               = Sorted(q.allowed_intents, IntentOrder(q.allowed_intents))
         /\ p.max_hops = q.max_hops /\ p.minimum_evidence = q.minimum_evidence
         /\ TopologyFileDigest(p.topology) = TopologyFileDigest(q.topology)
      BY DEF PolicyFileDigest, Sha256Digest
<1>. QED BY <1>1, <1>2, <1>3 DEF SamePolicy

-----------------------------------------------------------------------------
(* After any number of edits *)

\* What the properties rest on: the files in play are files that load.
FilesLoad ==
    /\ Loads(pinned)
    /\ Loads(original)
    /\ TopologyLoads(fixture)

LEMMA FilesLoadInit == Init => FilesLoad
<1>. SUFFICES ASSUME Init PROVE FilesLoad
     OBVIOUS
<1>1. Loads(pinned)
      BY DigestsAssumption DEF Init
<1>2. TopologyLoads(pinned.topology)
      BY <1>1 DEF Loads
<1>. QED BY <1>1, <1>2 DEF Init, FilesLoad

LEMMA FilesLoadStep == FilesLoad /\ [Next]_vars => FilesLoad'
<1>. SUFFICES ASSUME FilesLoad, [Next]_vars PROVE FilesLoad'
     OBVIOUS
<1>1. CASE EditPinnedTopology
  <2>1. Loads(pinned') /\ UNCHANGED <<original, fixture>>
        BY <1>1 DEF EditPinnedTopology, Edited
  <2>. QED BY <2>1 DEF FilesLoad
<1>2. CASE EditPolicy
  <2>1. Loads(pinned') /\ UNCHANGED <<original, fixture>>
        BY <1>2 DEF EditPolicy, Edited
  <2>. QED BY <2>1 DEF FilesLoad
<1>3. CASE EditFixture
  <2>1. TopologyLoads(fixture') /\ UNCHANGED <<original, pinned>>
        BY <1>3 DEF EditFixture, Edited
  <2>. QED BY <2>1 DEF FilesLoad
<1>4. CASE UNCHANGED vars
      BY <1>4 DEF FilesLoad, vars
<1>. QED BY <1>1, <1>2, <1>3, <1>4 DEF Next

THEOREM FilesKeepLoading == Spec => []FilesLoad
<1>. QED BY FilesLoadInit, FilesLoadStep, PTL DEF Spec

\* policy_digest (policy.py:82-96) after any number of edits, for lists of any
\* length: the digest is the one the policy began with exactly when the policy
\* says what it said then.
THEOREM DigestMeans == Spec => []DigestTellsContent
<1>1. FilesLoad => DigestTellsContent
      BY PolicyDigestTells DEF FilesLoad, DigestTellsContent
<1>. QED BY <1>1, FilesKeepLoading, PTL

\* The only reasons about the topology's window are those of its two checks.
LEMMA WindowReasons ==
    ASSUME NEW plan, NEW p, NEW now
    PROVE  {<<"TOPOLOGY_NOT_YET_VALID">>, <<"TOPOLOGY_EXPIRED">>}
              \cap AdmitReasons(plan, p, now) = {}
           <=> ~(now < p.topology.captured_at) /\ ~(now >= p.topology.expires_at)
<1>1. <<"TOPOLOGY_NOT_YET_VALID">> \in AdmitReasons(plan, p, now)
         <=> now < p.topology.captured_at
  <2>1. <<"TOPOLOGY_NOT_YET_VALID">> \in RouteReasons(plan, p, now)
           <=> now < p.topology.captured_at
        BY DEF RouteReasons, Flag
  <2>2. <<"TOPOLOGY_NOT_YET_VALID">>
           \notin {<<"PEER_UNKNOWN", id>> : id \in Hops(plan) \ DOMAIN p.topology.peers}
        OBVIOUS
  <2>3. \A id, peer, required :
           <<"TOPOLOGY_NOT_YET_VALID">> \notin PeerReasons(id, peer, plan, required, now)
        BY DEF PeerReasons, Flag
  <2>. QED BY <2>1, <2>2, <2>3 DEF AdmitReasons
<1>2. <<"TOPOLOGY_EXPIRED">> \in AdmitReasons(plan, p, now)
         <=> now >= p.topology.expires_at
  <2>1. <<"TOPOLOGY_EXPIRED">> \in RouteReasons(plan, p, now)
           <=> now >= p.topology.expires_at
        BY DEF RouteReasons, Flag, Ended
  <2>2. <<"TOPOLOGY_EXPIRED">>
           \notin {<<"PEER_UNKNOWN", id>> : id \in Hops(plan) \ DOMAIN p.topology.peers}
        OBVIOUS
  <2>3. \A id, peer, required :
           <<"TOPOLOGY_EXPIRED">> \notin PeerReasons(id, peer, plan, required, now)
        BY DEF PeerReasons, Flag
  <2>. QED BY <2>1, <2>2, <2>3 DEF AdmitReasons
<1>. QED BY <1>1, <1>2

\* Topologies that say the same have as many peers and edges, whatever the order.
LEMMA SameCounts ==
    ASSUME NEW t, TopologyLoads(t), NEW u, TopologyLoads(u), SameTopology(t, u)
    PROVE  /\ Len(t.peers) = Cardinality(DOMAIN Snapshot(u).peers)
           /\ Len(t.edges) = Cardinality(Snapshot(u).edges)
<1>1. /\ Cardinality(Range(t.peers)) = Len(t.peers)
      /\ Cardinality(Range(t.edges)) = Len(t.edges)
      /\ IsFiniteSet(Range(u.peers))
      BY PeersOrdered, EdgesOrdered, ListingCounts
<1>2. Range(t.peers) = Range(u.peers) /\ Range(t.edges) = Range(u.edges)
      BY DEF SameTopology
<1>3. DOMAIN Snapshot(u).peers = PeerIds(u) /\ Snapshot(u).edges = Range(u.edges)
      BY DEF Snapshot, PeerIds
<1>. DEFINE id == [x \in Range(u.peers) |-> x.peer_id]
<1>4. id \in Bijection(Range(u.peers), PeerIds(u))
  <2>1. id \in [Range(u.peers) -> PeerIds(u)]
        BY DEF Range, PeerIds
  <2>2. \A x, y \in Range(u.peers) : id[x] = id[y] => x = y
        BY DEF TopologyLoads, UniqueEntries, Range
  <2>3. \A n \in PeerIds(u) : \E x \in Range(u.peers) : id[x] = n
        BY DEF Range, PeerIds
  <2>. HIDE DEF id
  <2>. QED BY <2>1, <2>2, <2>3, Fun_IsBij
<1>5. ExistsBijection(Range(u.peers), PeerIds(u))
      BY <1>4 DEF ExistsBijection
<1>6. Cardinality(PeerIds(u)) = Cardinality(Range(u.peers))
      BY <1>1, <1>5, FS_Bijection
<1>. QED BY <1>1, <1>2, <1>3, <1>6

\* `locusmesh probe` (cli.py:118-140) after any number of edits of either file:
\* it names the digest of the policy's topology exactly when it read a topology
\* that says the same, and then counts and judges that topology.
THEOREM ProbeMeans == Spec => []ProbeSpeaksOfThePolicy
<1>1. ASSUME FilesLoad, NEW now \in 0..Horizon
      PROVE  LET probe    == Probe(fixture, now)
                 topology == Policy(pinned).topology
             IN  /\ (probe.topology_digest = TopologyFileDigest(pinned.topology))
                        <=> SameTopology(fixture, pinned.topology)
                 /\ probe.topology_digest = TopologyFileDigest(pinned.topology) =>
                       /\ probe.peer_count = Cardinality(DOMAIN topology.peers)
                       /\ probe.edge_count = Cardinality(topology.edges)
                       /\ probe.valid_now <=>
                             \A plan \in Plans :
                                 {<<"TOPOLOGY_NOT_YET_VALID">>, <<"TOPOLOGY_EXPIRED">>}
                                     \cap AdmitReasons(plan, Policy(pinned), now) = {}
  <2>. DEFINE t == fixture
              u == pinned.topology
              probe == Probe(t, now)
  <2>1. TopologyLoads(t) /\ TopologyLoads(u)
        BY <1>1 DEF FilesLoad, Loads
  <2>2. Policy(pinned).topology = Snapshot(u)
        BY DEF Policy
  <2>3. /\ Snapshot(u).captured_at = u.captured_at[1]
        /\ Snapshot(u).expires_at = u.expires_at[1]
        BY DEF Snapshot
  <2>4. /\ probe.topology_digest = TopologyFileDigest(t)
        /\ probe.peer_count = Len(t.peers) /\ probe.edge_count = Len(t.edges)
        /\ probe.valid_now <=> t.captured_at[1] <= now /\ now < t.expires_at[1]
        BY DEF Probe, Within
  <2>5. /\ u.captured_at[1] \in Int /\ u.expires_at[1] \in Int
        BY <2>1, <2>3 DEF TopologyLoads, ValidTopology
  <2>6. now \in Int
        BY DigestsAssumption, <1>1
  <2>. HIDE DEF t, u, probe
  <2>7. TopologyFileDigest(t) = TopologyFileDigest(u) <=> SameTopology(t, u)
        BY <2>1, TopologyDigestTells
  <2>8. ASSUME SameTopology(t, u)
        PROVE  /\ probe.peer_count = Cardinality(DOMAIN Snapshot(u).peers)
               /\ probe.edge_count = Cardinality(Snapshot(u).edges)
               /\ probe.valid_now <=>
                     \A plan \in Plans :
                         {<<"TOPOLOGY_NOT_YET_VALID">>, <<"TOPOLOGY_EXPIRED">>}
                             \cap AdmitReasons(plan, Policy(pinned), now) = {}
    <3>1. /\ Len(t.peers) = Cardinality(DOMAIN Snapshot(u).peers)
          /\ Len(t.edges) = Cardinality(Snapshot(u).edges)
          BY <2>1, <2>8, SameCounts
    <3>2. t.captured_at = u.captured_at /\ t.expires_at = u.expires_at
          BY <2>8 DEF SameTopology
    <3>3. probe.valid_now <=> ~(now < u.captured_at[1]) /\ ~(now >= u.expires_at[1])
          BY <2>4, <2>5, <2>6, <3>2
    <3>4. \A plan \in Plans :
             {<<"TOPOLOGY_NOT_YET_VALID">>, <<"TOPOLOGY_EXPIRED">>}
                \cap AdmitReasons(plan, Policy(pinned), now) = {}
             <=> ~(now < u.captured_at[1]) /\ ~(now >= u.expires_at[1])
          BY <2>2, <2>3, WindowReasons
    <3>. QED BY <2>4, <3>1, <3>3, <3>4, DigestsAssumption
  <2>. QED BY <2>2, <2>4, <2>7, <2>8 DEF t, u, probe
<1>2. FilesLoad => ProbeSpeaksOfThePolicy
      BY <1>1 DEF ProbeSpeaksOfThePolicy
<1>. QED BY <1>2, FilesKeepLoading, PTL
=============================================================================
