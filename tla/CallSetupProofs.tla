---------------------------- MODULE CallSetupProofs ----------------------------
(***************************************************************************)
(* Proofs about CallSetup and the algorithms it runs, for any documents,   *)
(* regions, overlays, calls and replicas.                                  *)
(***************************************************************************)
EXTENDS CallSetup, FiniteSetTheorems, WellFoundedInduction, TLAPS

(***************************************************************************)
(* Sorting.  The principle of the least number stands for induction.       *)
(***************************************************************************)
LEMMA LeastNumber ==
  ASSUME NEW T, T \subseteq Nat, T # {}
  PROVE  \E x \in T : \A y \in T : x <= y
<1> DEFINE Less == {ss \in Nat \X Nat : ss[1] < ss[2]}
<1>1. OpToRel(<, Nat) = Less
  BY Zenon DEF OpToRel
<1>2. IsWellFoundedOn(Less, Nat)
  BY <1>1, NatLessThanWellFounded, Zenon
<1>3. \E x \in T : \A y \in T : <<y, x>> \notin Less
  <2> HIDE DEF Less
  <2> QED BY <1>2, WFMin, Zenon
<1>4. PICK x \in T : \A y \in T : <<y, x>> \notin Less
  BY <1>3
<1>5. ASSUME NEW y \in T PROVE x <= y
  <2>1. <<y, x>> \in Nat \X Nat /\ <<y, x>>[1] = y /\ <<y, x>>[2] = x
    OBVIOUS
  <2>2. ~(y < x)
    BY <1>4, <2>1
  <2>3. QED BY <2>2
<1>6. QED BY <1>5

LEMMA MinIsLeast ==
  ASSUME NEW S, S \subseteq Nat, S # {}
  PROVE  Min(S) \in S /\ \A y \in S : Min(S) <= y
<1>1. \E x \in S : \A y \in S : x <= y
  BY LeastNumber
<1>2. QED BY <1>1, Zenon DEF Min

\* Positions are ranked as their keys say, one position for every rank.
LEMMA RankOrders ==
  ASSUME NEW n \in Nat, NEW I, I \subseteq 1..n, NEW key, \A i \in I : key[i] \in Int
  PROVE  /\ IsFiniteSet(I)
         /\ \A i \in I : Rank(I, key, i) \in 1..Cardinality(I)
         /\ \A i, j \in I : Rank(I, key, i) <= Rank(I, key, j) => Precedes(key, i, j)
         /\ \A m \in 1..Cardinality(I) : \E i \in I : Rank(I, key, i) = m
<1> DEFINE Before(i) == {j \in I : Precedes(key, j, i)}
<1>1. IsFiniteSet(I)
  <2>1. IsFiniteSet(1..n)
    BY FS_Interval
  <2>2. QED BY <2>1, FS_Subset
<1>2. ASSUME NEW i \in I PROVE Before(i) \subseteq I /\ i \in Before(i) /\ IsFiniteSet(Before(i))
  <2>1. Before(i) \subseteq I /\ i \in Before(i)
    BY DEF Precedes
  <2>2. QED BY <1>1, <2>1, FS_Subset
<1>3. ASSUME NEW i \in I PROVE Cardinality(Before(i)) \in 1..Cardinality(I)
  <2>1. Cardinality(Before(i)) \in Nat /\ Cardinality(Before(i)) <= Cardinality(I) /\ Cardinality(I) \in Nat
    BY <1>1, <1>2, FS_Subset, FS_CardinalityType
  <2>2. Cardinality(Before(i)) # 0
    BY <1>2, FS_EmptySet
  <2>3. QED BY <2>1, <2>2
<1>4. ASSUME NEW i \in I, NEW j \in I, ~Precedes(key, i, j)
      PROVE  Cardinality(Before(j)) < Cardinality(Before(i))
  <2>1. Before(j) \subseteq Before(i)
    <3> SUFFICES ASSUME NEW k \in I, Precedes(key, k, j) PROVE Precedes(key, k, i)
      OBVIOUS
    <3>1. key[i] \in Int /\ key[j] \in Int /\ key[k] \in Int /\ i \in Int /\ j \in Int /\ k \in Int
      OBVIOUS
    <3>2. QED BY <1>4, <3>1 DEF Precedes
  <2>2. i \notin Before(j) /\ i \in Before(i)
    BY <1>2, <1>4
  <2>3. Cardinality(Before(j)) <= Cardinality(Before(i)) /\ Cardinality(Before(j)) # Cardinality(Before(i))
    BY <1>2, <2>1, <2>2, FS_Subset
  <2>4. Cardinality(Before(j)) \in Nat /\ Cardinality(Before(i)) \in Nat
    BY <1>2, FS_CardinalityType
  <2>5. QED BY <2>3, <2>4
<1>5. \A i \in I : Rank(I, key, i) = Cardinality(Before(i))
  BY DEF Rank
<1> HIDE DEF Before
<1>6. ASSUME NEW i \in I, NEW j \in I, Rank(I, key, i) <= Rank(I, key, j) PROVE Precedes(key, i, j)
  <2>1. Cardinality(Before(j)) \in Nat /\ Cardinality(Before(i)) \in Nat
    BY <1>2, FS_CardinalityType
  <2>2. QED BY <1>4, <1>5, <1>6, <2>1
<1>7. ASSUME NEW m \in 1..Cardinality(I) PROVE \E i \in I : Rank(I, key, i) = m
  <2> DEFINE rank == [i \in I |-> Rank(I, key, i)]
             Ranks == 1..Cardinality(I)
  <2>1. Cardinality(I) \in Nat
    BY <1>1, FS_CardinalityType
  <2>2. rank \in [I -> Ranks]
    BY <1>3, <1>5
  <2>3. \A i, j \in I : Rank(I, key, i) = Rank(I, key, j) => i = j
    <3> SUFFICES ASSUME NEW i \in I, NEW j \in I, Rank(I, key, i) = Rank(I, key, j) PROVE i = j
      OBVIOUS
    <3>1. Rank(I, key, i) \in Nat /\ Rank(I, key, j) \in Nat
      BY <1>3, <1>5
    <3>2. Precedes(key, i, j) /\ Precedes(key, j, i)
      BY <1>6, <3>1
    <3>3. QED BY <3>2 DEF Precedes
  <2>4. rank \in Injection(I, Ranks)
    BY <2>2, <2>3 DEF Injection, IsInjective
  <2>5. IsFiniteSet(Ranks) /\ Cardinality(Ranks) = Cardinality(I)
    BY <2>1, FS_Interval
  <2>6. rank \in Surjection(I, Ranks)
    <3> HIDE DEF rank, Ranks
    <3> QED BY <2>4, <2>5, FS_Injection
  <2>7. \A k \in Ranks : \E i \in I : rank[i] = k
    BY <2>6 DEF Surjection
  <2>8. QED BY <2>7
<1>8. QED BY <1>1, <1>3, <1>5, <1>6, <1>7

\* Sorting lists every position, and the keys of what it lists never fall.
Sorted(I, key) ==
  /\ Cardinality(I) \in Nat
  /\ \A m \in 1..Cardinality(I) : InOrder(I, key)[m] \in I
  /\ \A i \in I : \E m \in 1..Cardinality(I) : InOrder(I, key)[m] = i
  /\ \A l, m \in 1..Cardinality(I) :
       l <= m => key[InOrder(I, key)[l]] <= key[InOrder(I, key)[m]]

LEMMA InOrderIsSorted ==
  ASSUME NEW n \in Nat, NEW I, I \subseteq 1..n, NEW key, \A i \in I : key[i] \in Int
  PROVE  Sorted(I, key)
<1> DEFINE pos == InOrder(I, key)
<1>1. Cardinality(I) \in Nat
  BY RankOrders, FS_CardinalityType
<1>2. ASSUME NEW m \in 1..Cardinality(I) PROVE pos[m] \in I /\ Rank(I, key, pos[m]) = m
  <2>1. \E i \in I : Rank(I, key, i) = m
    BY RankOrders
  <2>2. pos[m] = CHOOSE i \in I : Rank(I, key, i) = m
    BY DEF InOrder
  <2>3. QED BY <2>1, <2>2
<1>3. ASSUME NEW i \in I PROVE \E m \in 1..Cardinality(I) : pos[m] = i
  <2>1. Rank(I, key, i) \in 1..Cardinality(I)
    BY RankOrders
  <2>2. pos[Rank(I, key, i)] \in I /\ Rank(I, key, pos[Rank(I, key, i)]) = Rank(I, key, i)
    BY <1>2, <2>1
  <2> DEFINE j == pos[Rank(I, key, i)]
  <2>3. j \in I /\ Rank(I, key, j) <= Rank(I, key, i) /\ Rank(I, key, i) <= Rank(I, key, j)
    BY <2>1, <2>2
  <2> HIDE DEF j
  <2>4. Precedes(key, i, j) /\ Precedes(key, j, i)
    BY <2>3, RankOrders
  <2>5. j = i
    BY <2>3, <2>4 DEF Precedes
  <2>6. QED BY <2>1, <2>5 DEF j
<1>4. ASSUME NEW l \in 1..Cardinality(I), NEW m \in 1..Cardinality(I), l <= m
      PROVE  key[pos[l]] <= key[pos[m]]
  <2>1. pos[l] \in I /\ pos[m] \in I /\ Rank(I, key, pos[l]) <= Rank(I, key, pos[m])
    BY <1>2, <1>4
  <2> HIDE DEF pos
  <2>2. Precedes(key, pos[l], pos[m])
    BY <2>1, RankOrders
  <2>3. key[pos[l]] \in Int /\ key[pos[m]] \in Int
    BY <2>1
  <2>4. QED BY <2>2, <2>3 DEF Precedes
<1>5. QED BY <1>1, <1>2, <1>3, <1>4 DEF Sorted

\* Of the positions G, the one that is listed first has the least key.
Listed(I, key, G) == {m \in 1..Cardinality(I) : InOrder(I, key)[m] \in G}

LEMMA FirstListed ==
  ASSUME NEW n \in Nat, NEW I, I \subseteq 1..n, NEW key, \A i \in I : key[i] \in Int,
         NEW G, G \subseteq I
  PROVE  /\ G = {} <=> Listed(I, key, G) = {}
         /\ G # {} => \E m \in 1..Cardinality(I) :
              /\ m = Min(Listed(I, key, G))
              /\ InOrder(I, key)[m] \in G
              /\ \A i \in G : key[InOrder(I, key)[m]] <= key[i]
<1> DEFINE pos == InOrder(I, key)
           N == Cardinality(I)
           found == Listed(I, key, G)
<1>1. Sorted(I, key)
  BY InOrderIsSorted
<1>2. /\ N \in Nat
      /\ \A i \in I : \E m \in 1..N : pos[m] = i
      /\ \A l, m \in 1..N : l <= m => key[pos[l]] <= key[pos[m]]
  BY <1>1 DEF Sorted
<1>3. found = {m \in 1..N : pos[m] \in G}
  BY DEF Listed
<1> HIDE DEF pos, N, found
<1>4. CASE G = {}
  BY <1>3, <1>4 DEF found
<1>5. CASE G # {}
  <2>1. found # {} /\ found \subseteq Nat
    <3>1. PICK i \in G : TRUE
      BY <1>5
    <3>2. PICK m \in 1..N : pos[m] = i
      BY <1>2
    <3>3. m \in found
      BY <1>3, <3>2
    <3>4. found \subseteq 1..N /\ 1..N \subseteq Nat
      BY <1>2, <1>3
    <3>5. QED BY <3>3, <3>4
  <2>2. Min(found) \in found /\ \A m \in found : Min(found) <= m
    BY <2>1, MinIsLeast
  <2>3. Min(found) \in 1..N /\ pos[Min(found)] \in G
    BY <1>3, <2>2
  <2>4. ASSUME NEW i \in G PROVE key[pos[Min(found)]] <= key[i]
    <3>1. PICK m \in 1..N : pos[m] = i
      BY <1>2
    <3>2. Min(found) <= m
      BY <1>3, <2>2, <3>1
    <3>3. QED BY <1>2, <2>3, <3>1, <3>2
  <2>5. QED BY <1>5, <2>1, <2>3, <2>4 DEF pos, N, found
<1>6. QED BY <1>4, <1>5

(***************************************************************************)
(* RegionRouter: the first of the sorted prefixes that fits is the longest.*)
(***************************************************************************)
LEMMA RegionOfIsNearest ==
  ASSUME NEW number
  PROVE  RegionOf(number) \in Region /\ IsNearest(RegionOf(number), number)
<1> DEFINE Entry == [prefix : Seq(Nat), region : Region]
<1>1. PICK n \in Nat : DOMAIN DialPrefixes = 1..n
  <2>1. DialPrefixes \in Seq(Entry)
    BY RegionAssumption
  <2> HIDE DEF Entry
  <2>2. QED BY <2>1
<1>2. \A i \in 1..n : DialPrefixes[i] \in Entry
  <2>1. DialPrefixes \in Seq(Entry)
    BY RegionAssumption
  <2> HIDE DEF Entry
  <2>2. QED BY <1>1, <2>1
<1>3. \A i \in 1..n : Len(DialPrefixes[i].prefix) \in Nat /\ DialPrefixes[i].region \in Region
  BY <1>2
<1> DEFINE I == 1..n
           key == [i \in I |-> -Len(DialPrefixes[i].prefix)]
           pos == InOrder(I, key)
           G == Serving(number)
           found == Listed(I, key, G)
<1>4. I \subseteq 1..n /\ \A i \in I : key[i] = -Len(DialPrefixes[i].prefix) /\ key[i] \in Int
  BY <1>3
<1>5. SortedPrefixes = [m \in 1..Cardinality(I) |-> DialPrefixes[pos[m]]]
  BY <1>1 DEF SortedPrefixes, SortedBy
<1> HIDE DEF key
<1>6. G \subseteq I
  BY <1>1 DEF Serving
<1> HIDE DEF I, G
<1>7. Sorted(I, key)
  BY <1>4, InOrderIsSorted
<1>8. /\ G = {} <=> found = {}
      /\ G # {} => \E m \in 1..Cardinality(I) :
           /\ m = Min(found)
           /\ pos[m] \in G
           /\ \A i \in G : key[pos[m]] <= key[i]
  BY <1>4, <1>6, FirstListed
<1>9. Cardinality(I) \in Nat /\ \A m \in 1..Cardinality(I) : pos[m] \in I
  BY <1>7 DEF Sorted
<1>10. found = {m \in 1..Cardinality(I) : pos[m] \in G}
  BY DEF Listed
<1> HIDE DEF pos, found
<1>11. Len(SortedPrefixes) = Cardinality(I)
       /\ \A m \in 1..Cardinality(I) : SortedPrefixes[m] = DialPrefixes[pos[m]]
  BY <1>5, <1>9
<1>12. {m \in 1..Len(SortedPrefixes) : IsPrefix(SortedPrefixes[m].prefix, number)} = found
  BY <1>1, <1>9, <1>10, <1>11 DEF Serving, I, G
<1>13. RegionOf(number) = IF found # {} /\ Min(found) # 0 THEN SortedPrefixes[Min(found)].region
                          ELSE DefaultRegion
  <2> DEFINE fits == {m \in 1..Len(SortedPrefixes) : IsPrefix(SortedPrefixes[m].prefix, number)}
             first == IF fits # {} THEN Min(fits) ELSE 0
  <2>1. RegionOf(number) = IF first = 0 THEN DefaultRegion ELSE SortedPrefixes[first].region
    BY Zenon DEF RegionOf, SelectInSeq
  <2>2. first = IF found # {} THEN Min(found) ELSE 0
    BY <1>12
  <2> HIDE DEF first
  <2>3. QED BY <2>1, <2>2
<1>14. CASE G = {}
  <2>1. RegionOf(number) = DefaultRegion
    BY <1>8, <1>13, <1>14
  <2>2. QED BY <1>14, <2>1, RegionAssumption DEF IsNearest, G
<1>15. CASE G # {}
  <2>1. PICK m \in 1..Cardinality(I) :
          m = Min(found) /\ pos[m] \in G /\ \A i \in G : key[pos[m]] <= key[i]
    BY <1>8, <1>15
  <2> DEFINE i == pos[m]
  <2>2. m # 0 /\ found # {}
    BY <1>8, <1>9, <1>15
  <2>3. i \in G /\ i \in I /\ RegionOf(number) = DialPrefixes[i].region
    BY <1>6, <1>11, <1>13, <2>1, <2>2
  <2> HIDE DEF i
  <2>4. \A j \in G : Len(DialPrefixes[j].prefix) <= Len(DialPrefixes[i].prefix)
    <3>1. \A j \in G : key[i] <= key[j]
      BY <2>1 DEF i
    <3>2. \A j \in I : Len(DialPrefixes[j].prefix) \in Nat
      BY <1>3 DEF I
    <3>3. QED BY <1>4, <1>6, <2>3, <3>1, <3>2
  <2>5. RegionOf(number) \in Region
    BY <1>3, <2>3 DEF I
  <2>6. QED BY <1>15, <2>3, <2>4, <2>5 DEF IsNearest, G
<1>16. QED BY <1>14, <1>15

(***************************************************************************)
(* TenantRegistry: the group that is read is the first readable one, and   *)
(* the first of its sorted contacts who may be called has the least        *)
(* priority.                                                               *)
(***************************************************************************)
Readable(customer, failing) ==
  {i \in DOMAIN Candidates(customer) : Candidates(customer)[i] \in DOMAIN Groups \ failing}

LEMMA GroupIsMostSpecific ==
  ASSUME NEW customer \in Customer \cup {None}, NEW failing
  PROVE  \/ GroupOf(customer, failing) = << >>
         \/ \E i \in Readable(customer, failing) :
              /\ \A j \in Readable(customer, failing) : i <= j
              /\ GroupOf(customer, failing) = Groups[Candidates(customer)[i]]
<1> DEFINE keys == Candidates(customer)
           readable == Readable(customer, failing)
           fits == {i \in 1..Len(keys) : keys[i] \in DOMAIN Groups \ failing}
           first == IF fits # {} THEN Min(fits) ELSE 0
           Own == IF customer = None THEN << >>
                  ELSE << <<customer, "customer:sop">>, <<customer, "customer">> >>
           Shared == << <<None, "sop">>, <<None, "default">> >>
           Key == (Customer \cup {None}) \X {"customer:sop", "customer", "sop", "default"}
<1>1. keys \in Seq(Key)
  <2>1. Own \in Seq(Key) /\ Shared \in Seq(Key)
    <3>1. /\ <<customer, "customer:sop">> \in Key /\ <<customer, "customer">> \in Key
          /\ <<None, "sop">> \in Key /\ <<None, "default">> \in Key
      OBVIOUS
    <3> HIDE DEF Key
    <3>2. QED BY <3>1
  <2>2. keys = Own \o Shared
    BY DEF Candidates
  <2> HIDE DEF Own, Shared, Key, keys
  <2>3. QED BY <2>1, <2>2
<1>2. GroupOf(customer, failing) = IF first = 0 THEN << >> ELSE Groups[keys[first]]
  BY Zenon DEF GroupOf, SelectInSeq
<1>3. fits = readable /\ fits \subseteq Nat
  <2>1. Len(keys) \in Nat /\ DOMAIN keys = 1..Len(keys)
    <3> HIDE DEF keys, Key
    <3> QED BY <1>1
  <2>2. readable = {i \in DOMAIN keys : keys[i] \in DOMAIN Groups \ failing}
    BY DEF Readable
  <2> HIDE DEF keys, readable
  <2>3. QED BY <2>1, <2>2
<1> HIDE DEF fits, keys, readable
<1>4. CASE fits = {}
  BY <1>2, <1>4
<1>5. CASE fits # {}
  <2>1. Min(fits) \in fits /\ \A j \in fits : Min(fits) <= j
    BY <1>3, <1>5, MinIsLeast
  <2>2. first = Min(fits)
    BY <1>5
  <2> HIDE DEF first
  <2>3. CASE first = 0
    BY <1>2, <2>3
  <2>4. CASE first # 0
    BY <1>2, <1>3, <2>1, <2>2, <2>4 DEF readable, keys
  <2>5. QED BY <2>3, <2>4
<1>6. QED BY <1>4, <1>5

LEMMA PrimaryNumberIsPrimary ==
  ASSUME NEW customer \in Customer \cup {None}, NEW store, NEW now, NEW failing,
         PrimaryNumber(customer, store, now, failing) # << >>
  PROVE  /\ PrimaryNumber(customer, store, now, failing) \in Number
         /\ IsPrimary(PrimaryNumber(customer, store, now, failing), customer, store, now, failing)
<1> DEFINE contacts == GroupOf(customer, failing)
           number == PrimaryNumber(customer, store, now, failing)
           oncall == OnCall(customer, store, failing)
           I == {i \in DOMAIN contacts : MatchesStore(contacts[i], store)}
           key == [i \in DOMAIN contacts |-> contacts[i].priority]
           pos == InOrder(I, key)
           G == {i \in I : InCallWindow(contacts[i], now)}
           fits == {m \in 1..Len(oncall) : InCallWindow(oncall[m], now)}
           first == IF fits # {} THEN Min(fits) ELSE 0
<1>1. number = IF first = 0 THEN << >> ELSE oncall[first].phone
  BY Zenon DEF PrimaryNumber, SelectInSeq
<1>2. oncall = [m \in 1..Cardinality(I) |-> contacts[pos[m]]]
  BY DEF OnCall, SortedBy
<1> HIDE DEF contacts, oncall
<1>3. contacts = << >> \/ \E i \in Readable(customer, failing) :
        /\ \A j \in Readable(customer, failing) : i <= j
        /\ contacts = Groups[Candidates(customer)[i]]
  BY GroupIsMostSpecific DEF contacts
<1>4. contacts # << >>
  <2> SUFFICES ASSUME contacts = << >> PROVE FALSE
    OBVIOUS
  <2>1. I = {}
    OBVIOUS
  <2> HIDE DEF I
  <2>2. Cardinality(I) = 0
    BY <2>1, FS_EmptySet
  <2>3. oncall = << >>
    BY <1>2, <2>2
  <2>4. fits = {}
    BY <2>3
  <2>5. QED BY <1>1, <2>4
<1>5. PICK i \in Readable(customer, failing) :
        /\ \A j \in Readable(customer, failing) : i <= j
        /\ contacts = Groups[Candidates(customer)[i]]
  BY <1>3, <1>4
<1> DEFINE k == Candidates(customer)[i]
<1>6. k \in DOMAIN Groups /\ contacts = Groups[k]
  BY <1>5 DEF Readable
<1>7. contacts \in Seq(Contact) /\ \A j \in DOMAIN contacts : contacts[j].phone \in Number
  BY <1>6, RegistryAssumption, SetupAssumption
<1>8. PICK n \in Nat : DOMAIN contacts = 1..n
  BY <1>7
<1>9. \A j \in DOMAIN contacts : contacts[j] \in Contact /\ key[j] = contacts[j].priority /\ key[j] \in Int
  BY <1>7, RegistryAssumption
<1>10. I \subseteq 1..n /\ I \subseteq DOMAIN contacts /\ G \subseteq I
  BY <1>8
<1> HIDE DEF key, k
<1>11. \A j \in I : key[j] \in Int
  BY <1>9
<1>12. G = {j \in DOMAIN contacts : MatchesStore(contacts[j], store) /\ InCallWindow(contacts[j], now)}
  OBVIOUS
<1>13. \A j \in I : j \in G <=> InCallWindow(contacts[j], now)
  OBVIOUS
<1> HIDE DEF I, G
<1>14. Sorted(I, key)
  BY <1>10, <1>11, InOrderIsSorted
<1>15. Cardinality(I) \in Nat /\ \A m \in 1..Cardinality(I) : pos[m] \in I
  BY <1>14 DEF Sorted
<1>16. /\ G = {} <=> Listed(I, key, G) = {}
       /\ G # {} => \E m \in 1..Cardinality(I) :
            /\ m = Min(Listed(I, key, G))
            /\ pos[m] \in G
            /\ \A j \in G : key[pos[m]] <= key[j]
  BY <1>10, <1>11, FirstListed
<1>17. Listed(I, key, G) = {m \in 1..Cardinality(I) : pos[m] \in G}
  BY DEF Listed
<1> HIDE DEF pos
<1>18. Len(oncall) = Cardinality(I) /\ \A m \in 1..Cardinality(I) : oncall[m] = contacts[pos[m]]
  BY <1>2, <1>15
<1>19. fits = Listed(I, key, G)
  BY <1>13, <1>15, <1>17, <1>18
<1> HIDE DEF fits
<1>20. G # {} /\ first # 0 /\ first = Min(Listed(I, key, G))
  BY <1>1, <1>16, <1>19
<1> HIDE DEF first
<1>21. PICK m \in 1..Cardinality(I) :
         m = first /\ pos[m] \in G /\ \A j \in G : key[pos[m]] <= key[j]
  BY <1>16, <1>20
<1> DEFINE c == contacts[pos[m]]
<1>22. number = c.phone /\ pos[m] \in DOMAIN contacts
  BY <1>1, <1>10, <1>18, <1>20, <1>21
<1>23. number \in Number
  BY <1>7, <1>22
<1>24. IsPrimary(number, customer, store, now, failing)
  <2> DEFINE available == {d \in ToSet(Groups[k]) : MatchesStore(d, store) /\ InCallWindow(d, now)}
  <2>1. ToSet(Groups[k]) = {contacts[j] : j \in DOMAIN contacts}
    BY <1>6, Zenon DEF ToSet
  <2>2. c \in available
    BY <1>10, <1>12, <1>21, <1>22, <2>1
  <2>3. ASSUME NEW d \in available PROVE c.priority <= d.priority
    <3>1. PICK j \in DOMAIN contacts : d = contacts[j]
      BY <2>1
    <3>2. j \in G
      BY <1>12, <3>1
    <3>3. key[pos[m]] <= key[j]
      BY <1>21, <3>2
    <3>4. QED BY <1>9, <1>22, <3>1, <3>3
  <2>4. \E d \in available : d.phone = number /\ \A e \in available : d.priority <= e.priority
    BY <1>22, <2>2, <2>3
  <2>5. \A j \in Readable(customer, failing) : i <= j
    BY <1>5
  <2> HIDE DEF available
  <2>6. QED BY <2>4, <2>5 DEF IsPrimary, Readable, available, k
<1>25. QED BY <1>23, <1>24

(***************************************************************************)
(* CallSetup: what every step leaves of the state's shape.                 *)
(***************************************************************************)
CallRecord ==
  {NoCall} \cup [stage : {"live", "over"}, region : Region, stored_region : Region \cup {None},
                 request : Request]

Shape ==
  /\ call \in [Call -> CallRecord]
  /\ bound \in [Replica -> [Call -> Region \cup {None}]]
  /\ DOMAIN cache = Replica
  /\ \A r \in Replica : \A cu \in DOMAIN cache[r] : ~cache[r][cu].raised
  /\ DOMAIN overlay = Customer
  /\ \A cu \in Customer : overlay[cu] \in Overlays[cu] \cup {<< >>}
  /\ recording \subseteq Call
  /\ sent \in [Call -> SUBSET Region]
  /\ recorded \in [Call -> SUBSET Region]
  /\ DOMAIN used = Call

LEMMA ShapeType == Shape => TypeOK
<1> SUFFICES ASSUME Shape PROVE TypeOK
  OBVIOUS
<1>1. ASSUME NEW c \in Call
      PROVE  /\ call[c].stage \in Stage
             /\ call[c].region \in Region \cup {None}
             /\ call[c].stored_region \in Region \cup {None}
             /\ call[c].stage # "new" => call[c].request \in Request /\ call[c].region \in Region
  <2>1. call[c] \in CallRecord
    BY DEF Shape
  <2>2. CASE call[c] = NoCall
    BY <2>2 DEF NoCall, Stage
  <2>3. CASE call[c] # NoCall
    <3> HIDE DEF NoCall
    <3>1. call[c] \in [stage : {"live", "over"}, region : Region, stored_region : Region \cup {None},
                       request : Request]
      BY <2>1, <2>3 DEF CallRecord
    <3> DEFINE Requests == Request
    <3> HIDE DEF Requests
    <3>2. QED BY <3>1 DEF Stage
  <2>4. QED BY <2>2, <2>3
<1>2. QED BY <1>1 DEF Shape, TypeOK

\* What a call is placed with.
LEMMA RequestType ==
  ASSUME NEW cu \in Customer \cup {None}, NEW request \in Resolutions(cu) \cup Givens(cu),
         Callee(request) # << >>
  PROVE  LET placed == [request EXCEPT !.number = Callee(request)] IN
         /\ placed \in Request
         /\ placed.resolved =>
              IsPrimary(placed.number, placed.customer, placed.store, placed.now, placed.failing)
<1> DEFINE placed == [request EXCEPT !.number = Callee(request)]
<1>1. CASE request \in Resolutions(cu)
  <2>1. /\ request.customer = cu /\ request.store \in Store /\ request.now \in Hour
        /\ request.resolved /\ request.failing \in SUBSET DOMAIN Groups
        /\ request = [customer |-> request.customer, store |-> request.store, now |-> request.now,
                      resolved |-> request.resolved, number |-> request.number,
                      failing |-> request.failing]
    BY <1>1 DEF Resolutions
  <2>2. request.failing \in SUBSET GroupKey
    BY <2>1, RegistryAssumption
  <2>3. Callee(request) = PrimaryNumber(request.customer, request.store, request.now, request.failing)
    BY <2>1 DEF Callee
  <2>4. /\ Callee(request) \in Number
        /\ IsPrimary(Callee(request), request.customer, request.store, request.now, request.failing)
    BY <2>1, <2>3, PrimaryNumberIsPrimary
  <2>5. placed = [customer |-> request.customer, store |-> request.store, now |-> request.now,
                  resolved |-> request.resolved, number |-> Callee(request),
                  failing |-> request.failing]
    <3> DEFINE N == Callee(request)
               Fail == SUBSET (ToSet(Candidates(cu)) \cap DOMAIN Groups)
    <3>1. request \in [customer : {cu}, store : Store, now : Hour, resolved : {TRUE},
                       number : {<< >>}, failing : Fail]
      BY <1>1 DEF Resolutions
    <3> HIDE DEF N, Fail
    <3>2. [request EXCEPT !.number = N] =
            [customer |-> request.customer, store |-> request.store, now |-> request.now,
             resolved |-> request.resolved, number |-> N, failing |-> request.failing]
      BY <3>1
    <3>3. QED BY <3>2 DEF N
  <2> HIDE DEF placed
  <2>6. placed \in Request
    BY <1>1, <2>1, <2>2, <2>4, <2>5 DEF Request, Resolutions
  <2>7. QED BY <2>4, <2>5, <2>6 DEF placed
<1>2. CASE request \in Givens(cu)
  <2>1. request \in [customer : {cu}, store : {None}, now : {0}, resolved : {FALSE},
                     number : Number, failing : {{}}]
    BY <1>2 DEF Givens
  <2>2. ~request.resolved /\ Callee(request) = request.number
    BY <2>1 DEF Callee
  <2>3. placed = request
    BY <2>1, <2>2
  <2>4. request \in Request
    BY <2>1 DEF Request
  <2>5. QED BY <2>2, <2>3, <2>4
<1>3. QED BY <1>1, <1>2

LEMMA PlaceShape ==
  ASSUME Shape, NEW r \in Replica, NEW c \in Call, PlaceCall(r, c)
  PROVE  /\ Shape'
         /\ \E request \in Request :
              LET region == RegionOf(request.number) IN
              /\ region \in Region /\ IsNearest(region, request.number)
              /\ request.resolved =>
                   IsPrimary(request.number, request.customer, request.store, request.now,
                             request.failing)
              /\ call' = [call EXCEPT ![c] = [stage |-> "live", region |-> region,
                                        stored_region |-> StoredRegion(region), request |-> request]]
<1>1. PICK cu \in Customer \cup {None} : \E request \in Resolutions(cu) \cup Givens(cu) :
        /\ Callee(request) # << >>
        /\ Place(r, c, [request EXCEPT !.number = Callee(request)])
  BY DEF PlaceCall
<1>2. PICK request \in Resolutions(cu) \cup Givens(cu) :
        /\ Callee(request) # << >>
        /\ Place(r, c, [request EXCEPT !.number = Callee(request)])
  BY <1>1
<1> DEFINE placed == [request EXCEPT !.number = Callee(request)]
           region == RegionOf(placed.number)
           Placed == [stage |-> "live", region |-> region,
                      stored_region |-> StoredRegion(region), request |-> placed]
<1>3. /\ placed \in Request
      /\ placed.resolved =>
           IsPrimary(placed.number, placed.customer, placed.store, placed.now, placed.failing)
  BY <1>2, RequestType
<1>4. /\ call' = [call EXCEPT ![c] = Placed]
      /\ bound' = [bound EXCEPT ![r][c] = region]
      /\ UNCHANGED <<cache, overlay, recording, sent, recorded, used>>
  BY <1>2 DEF Place, PlaceCall
<1> HIDE DEF placed
<1>5. region \in Region /\ IsNearest(region, placed.number)
  BY RegionOfIsNearest
<1> HIDE DEF region
<1>6. Placed \in CallRecord
  <2>1. StoredRegion(region) \in Region \cup {None}
    BY <1>5 DEF StoredRegion
  <2>2. QED BY <1>3, <1>5, <2>1 DEF CallRecord
<1>7. Shape'
  <2> HIDE DEF Placed
  <2>1. call' \in [Call -> CallRecord]
    BY <1>4, <1>6 DEF Shape
  <2>2. bound' \in [Replica -> [Call -> Region \cup {None}]]
    BY <1>4, <1>5 DEF Shape
  <2>3. QED BY <1>4, <2>1, <2>2 DEF Shape
<1>8. QED BY <1>3, <1>4, <1>5, <1>7 DEF region

LEMMA RegionForType ==
  ASSUME Shape, NEW r \in Replica, NEW c \in Call, call[c].stage = "live", NEW command
  PROVE  /\ BoundAfterLoad(r, c) \in Region \cup {None}
         /\ RegionFor(r, c, command) \in Region
<1>1. BoundAfterLoad(r, c) \in Region \cup {None}
  <2>1. call[c].stored_region \in Region \cup {None}
    BY ShapeType DEF TypeOK
  <2>2. bound[r][c] \in Region \cup {None}
    BY DEF Shape
  <2>3. QED BY <2>1, <2>2 DEF BoundAfterLoad
<1>2. RegionOf(call[c].request.number) \in Region /\ DefaultRegion \in Region
  BY RegionOfIsNearest, RegionAssumption
<1>3. QED BY <1>1, <1>2 DEF RegionFor

LEMMA SendShape ==
  ASSUME Shape, NEW r \in Replica, NEW c \in Call, call[c].stage = "live", NEW command,
         SendThrough(r, c, command)
  PROVE  /\ sent' \in [Call -> SUBSET Region]
         /\ bound' \in [Replica -> [Call -> Region \cup {None}]]
<1>1. RegionFor(r, c, command) \in Region /\ BoundAfterLoad(r, c) \in Region \cup {None}
  BY RegionForType
<1>2. sent[c] \cup {RegionFor(r, c, command)} \in SUBSET Region
  BY <1>1 DEF Shape
<1>3. sent' \in [Call -> SUBSET Region]
  BY <1>2 DEF SendThrough, Shape
<1>4. bound' \in [Replica -> [Call -> Region \cup {None}]]
  <2> DEFINE to == IF command = "hang_up" THEN BoundAfterLoad(r, c) ELSE RegionFor(r, c, command)
  <2>1. to \in Region \cup {None}
    BY <1>1
  <2>2. bound' = [bound EXCEPT ![r][c] = to]
    BY DEF SendThrough
  <2> HIDE DEF to
  <2>3. QED BY <2>1, <2>2 DEF Shape
<1>5. QED BY <1>3, <1>4

LEMMA RecordShape ==
  ASSUME Shape, NEW c \in Call, RecordThrough(c)
  PROVE  recorded' \in [Call -> SUBSET Region]
<1>1. recorded[c] \cup {DefaultRegion} \in SUBSET Region
  BY RegionAssumption DEF Shape
<1>2. QED BY <1>1 DEF RecordThrough, Shape

\* A definition that is served is one of the customer's, or what is cached.
LEMMA PromptStep ==
  ASSUME Shape, NEW r \in Replica, NEW c \in Call, NEW command, Prompt(r, c, command)
  PROVE  \/ /\ bound' = [bound EXCEPT ![r][c] = BoundAfterLoad(r, c)]
            /\ UNCHANGED <<call, cache, overlay, recording, sent, recorded, used>>
         \/ \E readable \in BOOLEAN :
              LET cu == call[c].request.customer
                  definition == Resolved(r, cu, readable) IN
              /\ ~definition.raised
              /\ cache' = [cache EXCEPT ![r] = SetInMap(cache[r], cu, definition)]
              /\ used' = [used EXCEPT ![c] = used[c] \cup {definition}]
              /\ \/ SendThrough(r, c, command)
                 \/ /\ bound' = [bound EXCEPT ![r][c] = BoundAfterLoad(r, c)]
                    /\ UNCHANGED sent
              /\ UNCHANGED <<call, overlay, recording, recorded>>
BY Zenon DEF Prompt, CacheKey

LEMMA NextShape == Shape /\ [Next]_vars => Shape'
<1> SUFFICES ASSUME Shape, [Next]_vars PROVE Shape'
  OBVIOUS
<1>1. ASSUME NEW r \in Replica, NEW c \in Call, PlaceCall(r, c) PROVE Shape'
  BY <1>1, PlaceShape
<1>2. ASSUME NEW r \in Replica, NEW c \in Call, NEW command, Prompt(r, c, command) PROVE Shape'
  <2>1. call[c].stage = "live"
    BY <1>2 DEF Prompt
  <2>2. CASE /\ bound' = [bound EXCEPT ![r][c] = BoundAfterLoad(r, c)]
             /\ UNCHANGED <<call, cache, overlay, recording, sent, recorded, used>>
    <3>1. BoundAfterLoad(r, c) \in Region \cup {None}
      BY <2>1, RegionForType
    <3>2. bound' \in [Replica -> [Call -> Region \cup {None}]]
      BY <2>2, <3>1 DEF Shape
    <3>3. QED BY <2>2, <3>2 DEF Shape
  <2>3. ASSUME NEW cu, NEW definition, ~definition.raised,
               cache' = [cache EXCEPT ![r] = SetInMap(cache[r], cu, definition)],
               used' = [used EXCEPT ![c] = used[c] \cup {definition}],
               \/ SendThrough(r, c, command)
               \/ /\ bound' = [bound EXCEPT ![r][c] = BoundAfterLoad(r, c)]
                  /\ UNCHANGED sent,
               UNCHANGED <<call, overlay, recording, recorded>>
        PROVE  Shape'
    <3>1. /\ sent' \in [Call -> SUBSET Region]
          /\ bound' \in [Replica -> [Call -> Region \cup {None}]]
      <4>1. CASE SendThrough(r, c, command)
        BY <2>1, <4>1, SendShape
      <4>2. CASE bound' = [bound EXCEPT ![r][c] = BoundAfterLoad(r, c)] /\ UNCHANGED sent
        <5>1. BoundAfterLoad(r, c) \in Region \cup {None}
          BY <2>1, RegionForType
        <5>2. QED BY <4>2, <5>1 DEF Shape
      <4>3. QED BY <2>3, <4>1, <4>2
    <3>2. DOMAIN cache' = Replica
      BY <2>3 DEF Shape
    <3>3. ASSUME NEW q \in Replica, NEW k \in DOMAIN cache'[q] PROVE ~cache'[q][k].raised
      <4>1. CASE q = r
        BY <2>3, <3>3, <4>1 DEF Shape, SetInMap
      <4>2. CASE q # r
        BY <2>3, <3>3, <4>2 DEF Shape
      <4>3. QED BY <4>1, <4>2
    <3>4. QED BY <2>3, <3>1, <3>2, <3>3 DEF Shape
  <2>4. QED BY <1>2, <2>2, <2>3, PromptStep
<1>3. ASSUME NEW r \in Replica, NEW c \in Call, HangUp(r, c) PROVE Shape'
  <2>1. /\ call[c].stage = "live"
        /\ RecordThrough(c) \/ UNCHANGED recorded
        /\ SendThrough(r, c, "hang_up")
        /\ UNCHANGED <<call, cache, overlay, recording, used>>
    BY <1>3 DEF HangUp
  <2>2. /\ sent' \in [Call -> SUBSET Region]
        /\ bound' \in [Replica -> [Call -> Region \cup {None}]]
    BY <2>1, SendShape
  <2>3. recorded' \in [Call -> SUBSET Region]
    <3>1. CASE RecordThrough(c)
      BY <3>1, RecordShape
    <3>2. CASE UNCHANGED recorded
      BY <3>2 DEF Shape
    <3>3. QED BY <2>1, <3>1, <3>2
  <2>4. QED BY <2>1, <2>2, <2>3 DEF Shape
<1>4. ASSUME NEW c \in Call, call[c].stage = "live"
      PROVE  [call[c] EXCEPT !.stage = "over"] \in CallRecord
  <2>1. call[c] \in [stage : {"live", "over"}, region : Region, stored_region : Region \cup {None},
                     request : Request]
    BY <1>4 DEF Shape, CallRecord, NoCall
  <2> DEFINE Requests == Request
             over == [call[c] EXCEPT !.stage = "over"]
  <2> HIDE DEF Requests
  <2>2. over \in [stage : {"live", "over"}, region : Region, stored_region : Region \cup {None},
                  request : Request]
    BY <2>1
  <2> HIDE DEF over
  <2>3. QED BY <2>2 DEF CallRecord, over
<1>5. ASSUME NEW c \in Call, Ends(c) PROVE Shape'
  <2>1. call' \in [Call -> CallRecord]
    BY <1>4, <1>5 DEF Ends, Shape
  <2>2. QED BY <1>5, <2>1 DEF Ends, Shape
<1>6. ASSUME NEW cu \in Customer, OverlayChanges(cu) PROVE Shape'
  BY <1>6 DEF OverlayChanges, Shape
<1>7. ASSUME NEW r \in Replica, Restart(r) PROVE Shape'
  <2> DEFINE after(c) == IF SharedStore \/ call[c].stage = "new" THEN call[c]
                         ELSE [call[c] EXCEPT !.stage = "over"]
  <2>1. ASSUME NEW c \in Call PROVE after(c) \in CallRecord
    <3>1. call[c] \in CallRecord
      BY DEF Shape
    <3>2. CASE call[c] = NoCall
      BY <3>1, <3>2 DEF NoCall
    <3>3. CASE call[c] # NoCall
      <4> DEFINE Requests == Request
                 over == [call[c] EXCEPT !.stage = "over"]
      <4>1. call[c] \in [stage : {"live", "over"}, region : Region,
                         stored_region : Region \cup {None}, request : Request]
        BY <3>1, <3>3 DEF CallRecord
      <4> HIDE DEF Requests
      <4>2. over \in [stage : {"live", "over"}, region : Region, stored_region : Region \cup {None},
                      request : Request]
        BY <4>1
      <4> HIDE DEF over
      <4>3. over \in CallRecord
        BY <4>2 DEF CallRecord
      <4>4. QED BY <3>1, <4>3 DEF over
    <3>4. QED BY <3>2, <3>3
  <2>2. call' = [c \in Call |-> after(c)]
    BY <1>7 DEF Restart
  <2> HIDE DEF after
  <2>3. call' \in [Call -> CallRecord]
    BY <2>1, <2>2
  <2>4. bound' \in [Replica -> [Call -> Region \cup {None}]]
    BY <1>7 DEF Restart, Shape
  <2>5. DOMAIN cache' = Replica /\ \A q \in Replica : \A k \in DOMAIN cache'[q] : ~cache'[q][k].raised
    BY <1>7 DEF Restart, Shape
  <2>6. QED BY <1>7, <2>3, <2>4, <2>5 DEF Restart, Shape
<1>8. ASSUME UNCHANGED vars PROVE Shape'
  BY <1>8 DEF vars, Shape
<1>9. ASSUME NEW c \in Call, StartRecording(c) PROVE Shape'
  <2>1. recorded' \in [Call -> SUBSET Region]
    BY <1>9, RecordShape DEF StartRecording
  <2>2. QED BY <1>9, <2>1 DEF StartRecording, Shape
<1>10. QED BY <1>1, <1>2, <1>3, <1>5, <1>6, <1>7, <1>8, <1>9 DEF Next

LEMMA ShapeInvariance == Spec => []Shape
<1>1. Init => Shape
  BY DEF Init, Shape, CallRecord
<1>2. QED BY <1>1, NextShape, PTL DEF Spec

\* Every call is some request's, in some region, and the history of its
\* commands and definitions is about it: the type invariant of CallSetup.
THEOREM SetupTypes == Spec => []TypeOK
BY ShapeInvariance, ShapeType, PTL

(***************************************************************************)
(* Who is called, and from where.                                          *)
(***************************************************************************)
\* The calls that a step other than PlaceCall leaves: they may only end.
LEMMA CallsOnlyEnd ==
  ASSUME Shape, [Next]_vars, ~(\E r \in Replica, c \in Call : PlaceCall(r, c)), NEW c \in Call
  PROVE  \/ call'[c] = call[c]
         \/ /\ call[c].stage = "live"
            /\ call'[c] = [call[c] EXCEPT !.stage = "over"]
<1> DEFINE Kept == \/ call'[c] = call[c]
                   \/ /\ call[c].stage = "live"
                      /\ call'[c] = [call[c] EXCEPT !.stage = "over"]
<1>1. ASSUME NEW r \in Replica, NEW d \in Call, NEW command, Prompt(r, d, command) PROVE Kept
  BY <1>1 DEF Prompt
<1>2. ASSUME NEW r \in Replica, NEW d \in Call, HangUp(r, d) PROVE Kept
  BY <1>2 DEF HangUp
<1>3. ASSUME NEW d \in Call, Ends(d) PROVE Kept
  BY <1>3 DEF Ends, Shape
<1>4. ASSUME NEW cu \in Customer, OverlayChanges(cu) PROVE Kept
  BY <1>4 DEF OverlayChanges
<1>5. ASSUME NEW r \in Replica, Restart(r) PROVE Kept
  <2>1. call'[c] = IF SharedStore \/ call[c].stage = "new" THEN call[c]
                   ELSE [call[c] EXCEPT !.stage = "over"]
    BY <1>5 DEF Restart
  <2>2. CASE call[c].stage = "over"
    <3>1. call[c] \in [stage : {"live", "over"}, region : Region, stored_region : Region \cup {None},
                       request : Request]
      BY <2>2 DEF Shape, CallRecord, NoCall
    <3> DEFINE Requests == Request
    <3> HIDE DEF Requests
    <3>2. [call[c] EXCEPT !.stage = "over"] = call[c]
      BY <2>2, <3>1
    <3>3. QED BY <2>1, <3>2
  <2>3. CASE call[c].stage # "over"
    <3>1. call[c].stage \in {"new", "live", "over"}
      BY ShapeType DEF TypeOK, Stage
    <3>2. QED BY <2>1, <2>3, <3>1
  <2>4. QED BY <2>2, <2>3
<1>6. ASSUME UNCHANGED vars PROVE Kept
  BY <1>6 DEF vars
<1>7. ASSUME NEW d \in Call, StartRecording(d) PROVE Kept
  BY <1>7 DEF StartRecording
<1> HIDE DEF Kept
<1>8. Kept
  BY <1>1, <1>2, <1>3, <1>4, <1>5, <1>6, <1>7 DEF Next
<1>9. QED BY <1>8 DEF Kept

\* A call that may only end keeps its request and its regions.
LEMMA KeptCall ==
  ASSUME Shape, NEW c \in Call,
         \/ call'[c] = call[c]
         \/ /\ call[c].stage = "live"
            /\ call'[c] = [call[c] EXCEPT !.stage = "over"]
  PROVE  /\ call'[c].stage = "new" <=> call[c].stage = "new"
         /\ call'[c].stage = "live" => call[c].stage = "live"
         /\ call'[c].region = call[c].region
         /\ call'[c].stored_region = call[c].stored_region
         /\ call'[c].stage # "new" => call'[c].request = call[c].request
<1>1. CASE call'[c] = call[c]
  BY <1>1
<1>2. CASE call[c].stage = "live" /\ call'[c] = [call[c] EXCEPT !.stage = "over"]
  <2>1. call[c] \in [stage : {"live", "over"}, region : Region, stored_region : Region \cup {None},
                     request : Request]
    BY <1>2 DEF Shape, CallRecord, NoCall
  <2> DEFINE Requests == Request
  <2> HIDE DEF Requests
  <2>2. QED BY <1>2, <2>1
<1>3. QED BY <1>1, <1>2

\* A call is placed to the first contact of the most specific readable group
\* who may be called now, from the region with the longest fitting prefix,
\* whatever the registry's documents and the regions' prefixes are.
THEOREM CallsArePlacedWell == Spec => []PlacedWell
<1> DEFINE Well(q, region) ==
             /\ IsNearest(region, q.number)
             /\ q.resolved => IsPrimary(q.number, q.customer, q.store, q.now, q.failing)
<1>1. Init => PlacedWell
  BY DEF Init, PlacedWell, NoCall
<1>2. Shape /\ PlacedWell /\ [Next]_vars => PlacedWell'
  <2> SUFFICES ASSUME Shape, PlacedWell, [Next]_vars PROVE PlacedWell'
    OBVIOUS
  <2>1. \A c \in Call : call[c].stage # "new" => Well(call[c].request, call[c].region)
    BY Zenon DEF PlacedWell
  <2>2. ASSUME NEW c \in Call, call'[c].stage # "new" PROVE Well(call'[c].request, call'[c].region)
    <3> HIDE DEF Well
    <3>1. ASSUME NEW r \in Replica, NEW d \in Call, PlaceCall(r, d)
          PROVE  Well(call'[c].request, call'[c].region)
      <4>1. PICK request \in Request :
              LET region == RegionOf(request.number) IN
              /\ region \in Region /\ IsNearest(region, request.number)
              /\ request.resolved =>
                   IsPrimary(request.number, request.customer, request.store, request.now,
                             request.failing)
              /\ call' = [call EXCEPT ![d] = [stage |-> "live", region |-> region,
                                        stored_region |-> StoredRegion(region), request |-> request]]
        BY <3>1, PlaceShape
      <4>2. CASE c = d
        <5>1. call'[c].region = RegionOf(request.number) /\ call'[c].request = request
          BY <4>1, <4>2 DEF Shape
        <5>2. Well(request, RegionOf(request.number))
          BY <4>1 DEF Well
        <5>3. QED BY <5>1, <5>2
      <4>3. CASE c # d
        BY <2>1, <2>2, <4>1, <4>3 DEF Shape
      <4>4. QED BY <4>2, <4>3
    <3>2. CASE ~(\E r \in Replica, d \in Call : PlaceCall(r, d))
      BY <2>1, <2>2, <3>2, CallsOnlyEnd, KeptCall
    <3>3. QED BY <3>1, <3>2
  <2>3. QED BY <2>2, Zenon DEF PlacedWell
<1>3. QED BY <1>1, <1>2, ShapeInvariance, PTL DEF Spec

(***************************************************************************)
(* Where the conversation's commands go, when sessions are kept in memory. *)
(***************************************************************************)
\* The session knows the region of its call, and the conversation never left it.
Bound ==
  \A c \in Call :
    /\ call[c].stage = "new" => sent[c] = {}
    /\ call[c].stage # "new" => call[c].stored_region = call[c].region /\ call[c].region # None
    /\ sent[c] \subseteq {call[c].region}

\* With the sessions in the orchestrator's memory, whatever plays, listens or
\* hangs up goes to the region that placed the call, through restarts too: the
\* session carries the region and every event binds the connection to it anew.
\* The recording commands are not of the conversation, and go elsewhere.
THEOREM MemoryBindsCommands ==
  ASSUME ~SharedStore
  PROVE  Spec => []ConversationReachesTheCall
<1>1. Init => Bound
  BY DEF Init, Bound, NoCall
<1>2. Shape /\ Bound /\ [Next]_vars => Bound'
  <2> SUFFICES ASSUME Shape, Bound, [Next]_vars, NEW c \in Call
               PROVE  /\ call'[c].stage = "new" => sent'[c] = {}
                      /\ call'[c].stage # "new" =>
                           call'[c].stored_region = call'[c].region /\ call'[c].region # None
                      /\ sent'[c] \subseteq {call'[c].region}
    BY DEF Bound
  <2> DEFINE Goal == /\ call'[c].stage = "new" => sent'[c] = {}
                     /\ call'[c].stage # "new" =>
                          call'[c].stored_region = call'[c].region /\ call'[c].region # None
                     /\ sent'[c] \subseteq {call'[c].region}
  <2>1. ASSUME NEW r \in Replica, NEW d \in Call, PlaceCall(r, d) PROVE Goal
    <3>1. PICK request \in Request :
            /\ RegionOf(request.number) \in Region
            /\ call' = [call EXCEPT ![d] =
                 [stage |-> "live", region |-> RegionOf(request.number),
                  stored_region |-> StoredRegion(RegionOf(request.number)), request |-> request]]
      BY <2>1, PlaceShape
    <3>2. call[d].stage = "new" /\ sent' = sent
      BY <2>1 DEF PlaceCall
    <3>3. CASE c = d
      <4>1. sent'[c] = {}
        BY <3>2, <3>3 DEF Bound
      <4>2. /\ call'[c].stage = "live" /\ call'[c].region = RegionOf(request.number)
            /\ call'[c].stored_region = StoredRegion(RegionOf(request.number))
        BY <3>1, <3>3 DEF Shape
      <4>3. QED BY <3>1, <4>1, <4>2, SetupAssumption DEF StoredRegion
    <3>4. CASE c # d
      BY <3>1, <3>2, <3>4 DEF Bound, Shape
    <3>5. QED BY <3>3, <3>4
  <2>2. ASSUME ~(\E r \in Replica, d \in Call : PlaceCall(r, d)) PROVE Goal
    <3>1. /\ call'[c].stage = "new" <=> call[c].stage = "new"
          /\ call'[c].region = call[c].region
          /\ call'[c].stored_region = call[c].stored_region
      BY <2>2, CallsOnlyEnd, KeptCall
    <3>2. sent'[c] = sent[c] \/ (call[c].stage = "live" /\ sent'[c] \subseteq {call[c].region})
      <4>1. ASSUME NEW r \in Replica, NEW d \in Call, NEW command, call[d].stage = "live",
                   SendThrough(r, d, command)
            PROVE  sent'[c] = sent[c] \/ (call[c].stage = "live" /\ sent'[c] \subseteq {call[c].region})
        <5>1. RegionFor(r, d, command) = call[d].region
          BY <4>1 DEF RegionFor, BoundAfterLoad, Bound
        <5>2. QED BY <4>1, <5>1 DEF SendThrough, Shape, Bound
      <4>2. ASSUME NEW r \in Replica, NEW d \in Call, NEW command, Prompt(r, d, command)
            PROVE  sent'[c] = sent[c] \/ (call[c].stage = "live" /\ sent'[c] \subseteq {call[c].region})
        <5>1. call[d].stage = "live"
          BY <4>2 DEF Prompt
        <5>2. sent' = sent \/ SendThrough(r, d, command)
          BY <4>2, PromptStep, Zenon
        <5>3. QED BY <4>1, <5>1, <5>2
      <4>3. ASSUME NEW r \in Replica, NEW d \in Call, HangUp(r, d)
            PROVE  sent'[c] = sent[c] \/ (call[c].stage = "live" /\ sent'[c] \subseteq {call[c].region})
        BY <4>1, <4>3 DEF HangUp
      <4>4. CASE \/ \E d \in Call : Ends(d)
                 \/ \E cu \in Customer : OverlayChanges(cu)
                 \/ \E r \in Replica : Restart(r)
                 \/ \E d \in Call : StartRecording(d)
                 \/ UNCHANGED vars
        BY <4>4 DEF Ends, OverlayChanges, Restart, StartRecording, vars
      <4>5. QED BY <2>2, <4>2, <4>3, <4>4 DEF Next
    <3>3. QED BY <3>1, <3>2 DEF Bound
  <2> HIDE DEF Goal
  <2>3. Goal
    BY <2>1, <2>2
  <2>4. QED BY <2>3 DEF Goal
<1>3. Bound => ConversationReachesTheCall
  BY DEF Bound, ConversationReachesTheCall
<1>4. QED BY <1>1, <1>2, <1>3, ShapeInvariance, PTL DEF Spec

(***************************************************************************)
(* What the events are handled with, when sessions are kept in memory.     *)
(***************************************************************************)
\* A live call that used a definition used the one its replica has cached.
Cached ==
  /\ \A r \in Replica : \A k \in DOMAIN cache[r] :
       k \in Customer \cup {None} /\ cache[r][k] \in Definitions(k)
  /\ \A c \in Call :
       /\ call[c].stage = "new" => used[c] = {}
       /\ used[c] # {} => \E d \in Definitions(call[c].request.customer) : used[c] = {d}
       /\ call[c].stage = "live" /\ used[c] # {} =>
            \A r \in Replica : /\ call[c].request.customer \in DOMAIN cache[r]
                               /\ used[c] = {cache[r][call[c].request.customer]}

LEMMA ResolvedIsDefined ==
  ASSUME Shape, Cached, NEW r \in Replica, NEW cu \in Customer \cup {None}, NEW readable \in BOOLEAN
  PROVE  Resolved(r, cu, readable) \in Definitions(cu)
<1>1. CASE cu \in DOMAIN cache[r]
  BY <1>1 DEF Resolved, CacheKey, Cached
<1>2. CASE cu \notin DOMAIN cache[r] /\ (cu = None \/ ~readable \/ overlay[cu] = << >>)
  BY <1>2 DEF Resolved, CacheKey, Definitions
<1>3. CASE cu \notin DOMAIN cache[r] /\ ~(cu = None \/ ~readable \/ overlay[cu] = << >>)
  <2>1. cu \in Customer /\ overlay[cu] \in Overlays[cu]
    BY <1>3 DEF Shape
  <2>2. Resolved(r, cu, readable) = ApplyPatches(overlay[cu])
    BY <1>3 DEF Resolved, CacheKey
  <2>3. QED BY <1>3, <2>1, <2>2 DEF Definitions
<1>4. QED BY <1>1, <1>2, <1>3

LEMMA PromptCaches ==
  ASSUME ~SharedStore, Shape, Cached, NEW r \in Replica, NEW c \in Call, NEW command,
         Prompt(r, c, command)
  PROVE  Cached'
<1> DEFINE cu == call[c].request.customer
<1>1. call[c].stage = "live" /\ cu \in Customer \cup {None}
  <2>1. call[c].stage = "live"
    BY DEF Prompt
  <2>2. call[c].request \in Request
    BY <2>1, ShapeType DEF TypeOK
  <2>3. QED BY <2>1, <2>2 DEF Request
<1>2. CASE call' = call /\ cache' = cache /\ used' = used
  BY <1>2 DEF Cached
<1>3. ASSUME NEW definition, definition \in Definitions(cu),
             cu \in DOMAIN cache[r] => definition = cache[r][cu],
             cache' = [cache EXCEPT ![r] = SetInMap(cache[r], cu, definition)],
             used' = [used EXCEPT ![c] = used[c] \cup {definition}],
             call' = call
      PROVE  Cached'
  <2> HIDE DEF cu
  <2>1. \A q \in Replica : q = r
    BY SetupAssumption
  <2>2. DOMAIN cache' = Replica /\ cache'[r] = SetInMap(cache[r], cu, definition)
    BY <1>3 DEF Shape
  <2>3. DOMAIN cache'[r] = DOMAIN cache[r] \cup {cu}
    BY <2>2 DEF SetInMap
  <2>4. \A k \in DOMAIN cache'[r] : cache'[r][k] = IF k = cu THEN definition ELSE cache[r][k]
    BY <2>2 DEF SetInMap
  <2>5. \A k \in DOMAIN cache[r] : cache'[r][k] = cache[r][k]
    BY <1>3, <2>3, <2>4
  <2>6. \A q \in Replica : \A k \in DOMAIN cache'[q] :
          k \in Customer \cup {None} /\ cache'[q][k] \in Definitions(k)
    <3>1. \A k \in DOMAIN cache[r] : k \in Customer \cup {None} /\ cache[r][k] \in Definitions(k)
      BY DEF Cached
    <3>2. QED BY <1>1, <1>3, <2>1, <2>3, <2>4, <3>1 DEF cu
  <2>7. used[c] \subseteq {definition}
    <3>1. CASE used[c] = {}
      BY <3>1
    <3>2. CASE used[c] # {}
      BY <1>1, <1>3, <3>2 DEF Cached, cu
    <3>3. QED BY <3>1, <3>2
  <2>8. used'[c] = {definition} /\ \A d \in Call \ {c} : used'[d] = used[d]
    BY <1>3, <2>7 DEF Shape
  <2>9. ASSUME NEW d \in Call
        PROVE  /\ call'[d].stage = "new" => used'[d] = {}
               /\ used'[d] # {} =>
                    \E e \in Definitions(call'[d].request.customer) : used'[d] = {e}
               /\ call'[d].stage = "live" /\ used'[d] # {} =>
                    \A q \in Replica : /\ call'[d].request.customer \in DOMAIN cache'[q]
                                       /\ used'[d] = {cache'[q][call'[d].request.customer]}
    <3>1. CASE d = c
      <4>1. call[d].stage = "live" /\ call[d].request.customer = cu /\ used'[d] = {definition}
        BY <1>1, <2>8, <3>1 DEF cu
      <4>2. cu \in DOMAIN cache'[r] /\ cache'[r][cu] = definition
        BY <2>3, <2>4
      <4>3. QED BY <1>3, <2>1, <4>1, <4>2
    <3>2. CASE d # c
      <4>1. used'[d] = used[d]
        BY <2>8, <3>2
      <4>2. call[d].stage = "live" /\ used[d] # {} =>
              /\ call[d].request.customer \in DOMAIN cache[r]
              /\ used[d] = {cache[r][call[d].request.customer]}
        BY DEF Cached
      <4>3. call[d].stage = "live" /\ used[d] # {} =>
              /\ call[d].request.customer \in DOMAIN cache'[r]
              /\ used[d] = {cache'[r][call[d].request.customer]}
        BY <2>3, <2>5, <4>2
      <4>4. /\ call[d].stage = "new" => used[d] = {}
            /\ used[d] # {} => \E e \in Definitions(call[d].request.customer) : used[d] = {e}
        BY DEF Cached
      <4>5. QED BY <1>3, <2>1, <4>1, <4>3, <4>4
    <3>3. QED BY <3>1, <3>2
  <2>10. QED BY <2>6, <2>9, Zenon DEF Cached
<1>4. ASSUME NEW readable \in BOOLEAN,
             LET definition == Resolved(r, cu, readable) IN
             /\ ~definition.raised
             /\ cache' = [cache EXCEPT ![r] = SetInMap(cache[r], cu, definition)]
             /\ used' = [used EXCEPT ![c] = used[c] \cup {definition}]
             /\ call' = call
      PROVE  Cached'
  <2> DEFINE definition == Resolved(r, cu, readable)
  <2>1. definition \in Definitions(cu)
    BY <1>1, ResolvedIsDefined
  <2>2. cu \in DOMAIN cache[r] => definition = cache[r][cu]
    BY DEF Resolved, CacheKey
  <2>3. /\ cache' = [cache EXCEPT ![r] = SetInMap(cache[r], cu, definition)]
        /\ used' = [used EXCEPT ![c] = used[c] \cup {definition}]
        /\ call' = call
    BY <1>4
  <2> HIDE DEF definition, cu
  <2>4. QED BY <1>3, <2>1, <2>2, <2>3
<1>5. CASE \E readable \in BOOLEAN :
             LET definition == Resolved(r, cu, readable) IN
             /\ ~definition.raised
             /\ cache' = [cache EXCEPT ![r] = SetInMap(cache[r], cu, definition)]
             /\ used' = [used EXCEPT ![c] = used[c] \cup {definition}]
             /\ call' = call
  BY <1>4, <1>5, Zenon
<1>6. call' = call
  BY DEF Prompt
<1>7. CASE UNCHANGED <<call, cache, overlay, recording, sent, recorded, used>>
  BY <1>2, <1>7
<1>8. CASE \E readable \in BOOLEAN :
              LET definition == Resolved(r, cu, readable) IN
              /\ ~definition.raised
              /\ cache' = [cache EXCEPT ![r] = SetInMap(cache[r], cu, definition)]
              /\ used' = [used EXCEPT ![c] = used[c] \cup {definition}]
              /\ \/ SendThrough(r, c, command)
                 \/ /\ bound' = [bound EXCEPT ![r][c] = BoundAfterLoad(r, c)]
                    /\ UNCHANGED sent
              /\ UNCHANGED <<call, overlay, recording, recorded>>
  <2>1. \E readable \in BOOLEAN :
             LET definition == Resolved(r, cu, readable) IN
             /\ ~definition.raised
             /\ cache' = [cache EXCEPT ![r] = SetInMap(cache[r], cu, definition)]
             /\ used' = [used EXCEPT ![c] = used[c] \cup {definition}]
    BY <1>8
  <2>2. QED BY <1>5, <1>6, <2>1
<1>9. QED BY <1>7, <1>8, PromptStep

\* With the sessions in the orchestrator's memory, what the catalog resolves for
\* a call stays one and the same definition, though patches change, reads fail
\* and the cache fills during the call: what could replace the cached
\* definition, a restart, ends the call.  The engine's own file, read for the
\* step an answer leads to, is not resolved and not part of it.
THEOREM MemoryKeepsOneDefinition ==
  ASSUME ~SharedStore
  PROVE  Spec => []OneDefinition
<1>1. Init => Cached
  BY DEF Init, Cached, NoCall
<1>2. Shape /\ Cached /\ [Next]_vars => Cached'
  <2> SUFFICES ASSUME Shape, Cached, [Next]_vars PROVE Cached'
    OBVIOUS
  <2>1. ASSUME NEW r \in Replica, NEW c \in Call, PlaceCall(r, c) PROVE Cached'
    <3>1. call[c].stage = "new" /\ UNCHANGED <<cache, used>>
      BY <2>1 DEF PlaceCall
    <3>2. \A d \in Call \ {c} : call'[d] = call[d]
      <4>1. PICK placed : call' = [call EXCEPT ![c] = placed]
        BY <2>1, PlaceShape
      <4>2. QED BY <4>1 DEF Shape
    <3>3. used[c] = {}
      BY <3>1 DEF Cached
    <3>4. QED BY <3>1, <3>2, <3>3 DEF Cached
  <2>2. ASSUME NEW r \in Replica, NEW c \in Call, NEW command, Prompt(r, c, command) PROVE Cached'
    BY <2>2, PromptCaches
  <2>3. ASSUME ~(\E r \in Replica, c \in Call : PlaceCall(r, c)), UNCHANGED <<cache, used>>
        PROVE  Cached'
    <3>1. \A c \in Call :
            /\ call'[c].stage = "new" <=> call[c].stage = "new"
            /\ call'[c].stage = "live" => call[c].stage = "live"
            /\ call'[c].stage # "new" => call'[c].request = call[c].request
      BY <2>3, CallsOnlyEnd, KeptCall
    <3>2. \A c \in Call : call'[c].stage = "new" => used[c] = {}
      BY <3>1 DEF Cached
    <3>3. QED BY <2>3, <3>1, <3>2 DEF Cached
  <2>4. ASSUME NEW r \in Replica, Restart(r) PROVE Cached'
    <3>1. \A q \in Replica : q = r
      BY SetupAssumption
    <3>2. DOMAIN cache'[r] = {}
      BY <2>4 DEF Restart, Shape
    <3>3. \A c \in Call :
            /\ call'[c].stage # "live"
            /\ call'[c].stage = "new" => call[c].stage = "new"
            /\ used'[c] = used[c]
            /\ call'[c].stage # "new" => call'[c].request = call[c].request
      <4> SUFFICES ASSUME NEW c \in Call
                   PROVE  /\ call'[c].stage # "live"
                          /\ call'[c].stage = "new" => call[c].stage = "new"
                          /\ used'[c] = used[c]
                          /\ call'[c].stage # "new" => call'[c].request = call[c].request
        OBVIOUS
      <4>1. call'[c] = IF call[c].stage = "new" THEN call[c] ELSE [call[c] EXCEPT !.stage = "over"]
        BY <2>4 DEF Restart
      <4>2. CASE call[c].stage = "new"
        BY <2>4, <4>1, <4>2 DEF Restart
      <4>3. CASE call[c].stage # "new"
        <5>1. call[c] \in [stage : {"live", "over"}, region : Region,
                           stored_region : Region \cup {None}, request : Request]
          BY <4>3 DEF Shape, CallRecord, NoCall
        <5> DEFINE Requests == Request
        <5> HIDE DEF Requests
        <5>2. call'[c].stage = "over" /\ call'[c].request = call[c].request
          BY <4>1, <4>3, <5>1
        <5>3. QED BY <2>4, <4>3, <5>2 DEF Restart
      <4>4. QED BY <4>2, <4>3
    <3>4. \A c \in Call : call'[c].stage = "new" => used'[c] = {}
      BY <3>3 DEF Cached
    <3>5. QED BY <3>1, <3>2, <3>3, <3>4 DEF Cached
  <2>5. CASE /\ ~(\E r \in Replica, c \in Call : PlaceCall(r, c))
             /\ \/ \E r \in Replica, c \in Call : HangUp(r, c)
                \/ \E c \in Call : StartRecording(c) \/ Ends(c)
                \/ \E cu \in Customer : OverlayChanges(cu)
                \/ UNCHANGED vars
    <3>1. UNCHANGED <<cache, used>>
      BY <2>5 DEF HangUp, StartRecording, Ends, OverlayChanges, vars
    <3>2. QED BY <2>3, <2>5, <3>1
  <2>6. QED BY <2>1, <2>2, <2>4, <2>5 DEF Next
<1>3. Cached => OneDefinition
  BY DEF Cached, OneDefinition
<1>4. QED BY <1>1, <1>2, <1>3, ShapeInvariance, PTL DEF Spec
=============================================================================
