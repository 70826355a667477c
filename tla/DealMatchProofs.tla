--------------------------- MODULE DealMatchProofs ---------------------------
(* What getBestDealPair returns, for every order book: the lemmas that the      *)
(* proofs about Actions need.                                                   *)
EXTENDS DealMatch, FiniteSetTheorems, NaturalsInduction, WellFoundedInduction, SequenceTheorems, TLAPS

(* A set of natural numbers has a smallest element. *)
LEMMA Smallest ==
  ASSUME NEW I \in SUBSET Nat, I # {}
  PROVE  Min(I) \in I /\ \A j \in I : Min(I) <= j
<1>1. PICK x \in I : \A y \in I : <<y, x>> \notin OpToRel(<, Nat)
  BY WFMin, NatLessThanWellFounded, Zenon
<1>2. \A y \in I : ~(y < x)
  BY <1>1, Zenon DEF OpToRel
<1>3. x \in I /\ \A y \in I : x <= y
  BY <1>2
<1>4. QED
  BY <1>3, Zenon DEF Min

(* A sequence that holds the elements of a finite set once each holds them all. *)
LEMMA HoldsAll ==
  ASSUME NEW S, IsFiniteSet(S), NEW s \in SetToSeqs(S)
  PROVE  /\ Len(s) \in Nat /\ DOMAIN s = 1 .. Len(s)
         /\ \A i \in 1 .. Len(s) : s[i] \in S
         /\ \A x \in S : \E i \in 1 .. Len(s) : s[i] = x
<1> DEFINE D == 1 .. Cardinality(S)
<1>1. Cardinality(S) \in Nat
  BY FS_CardinalityType
<1>2. IsFiniteSet(D) /\ Cardinality(D) = Cardinality(S)
  BY <1>1, FS_Interval
<1>3. s \in [D -> S] /\ \A i, j \in D : i # j => s[i] # s[j]
  BY DEF SetToSeqs
<1>4. s \in Injection(D, S)
  BY <1>3 DEF Injection, IsInjective
<1>5. s \in Surjection(D, S)
  BY <1>2, <1>4, FS_Injection
<1>6. \A x \in S : \E i \in D : s[i] = x
  BY <1>5 DEF Surjection
<1>7. Len(s) = Cardinality(S)
  BY <1>1, <1>3
<1>8. QED
  BY <1>1, <1>3, <1>6, <1>7

(* What the nested loops return, for two sequences of entries. *)
LEMMA FirstFitIsFirst ==
  ASSUME NEW asks, Len(asks) \in Nat, DOMAIN asks = 1 .. Len(asks),
         NEW bids, Len(bids) \in Nat,
         NEW pair \in FirstFit(asks, bids)
  PROVE  \E p \in 1 .. Len(bids), q \in 1 .. Len(asks) :
           /\ pair = [ask |-> asks[q], bid |-> bids[p]]
           /\ Fits(asks[q], bids[p])
           /\ \A i \in 1 .. Len(bids), j \in 1 .. Len(asks) :
                Fits(asks[j], bids[i]) => p <= i
           /\ \A j \in 1 .. Len(asks) : Fits(asks[j], bids[p]) => q <= j
<1> DEFINE I == {i \in 1 .. Len(bids) : \E a \in ToSet(asks) : Fits(a, bids[i])}
           p == Min(I)
           J == {j \in 1 .. Len(asks) : Fits(asks[j], bids[p])}
           q == Min(J)
<1>1. \A b : (\E a \in ToSet(asks) : Fits(a, b)) <=>
             (\E j \in 1 .. Len(asks) : Fits(asks[j], b))
  BY DEF ToSet
<1>2. I # {}
  BY DEF FirstFit, SelectInSeq
<1>3. p \in I /\ \A i \in I : p <= i
  <2>1. I \in SUBSET Nat
    OBVIOUS
  <2>2. QED
    BY <1>2, <2>1, Smallest
<1>4. J # {}
  BY <1>1, <1>3
<1>5. q \in J /\ \A j \in J : q <= j
  <2>1. J \in SUBSET Nat
    OBVIOUS
  <2>2. QED
    BY <1>4, <2>1, Smallest
<1>6. pair = [ask |-> asks[q], bid |-> bids[p]]
  BY <1>2, <1>4 DEF FirstFit, SelectInSeq
<1> HIDE DEF p, q
<1>7. \A i \in 1 .. Len(bids), j \in 1 .. Len(asks) : Fits(asks[j], bids[i]) => p <= i
  BY <1>1, <1>3
<1>8. QED
  BY <1>3, <1>5, <1>6, <1>7

(* The pair of getBestDealPair is the oldest bid of the wallet that fits an ask, *)
(* and the cheapest ask that it fits.                                            *)
THEOREM BestPair ==
  ASSUME NEW asks, IsFiniteSet(asks), \A a \in asks : a.terms.price \in Nat,
         NEW bids, IsFiniteSet(bids), \A b \in bids : b.id \in Nat,
         NEW wallet, NEW pair \in GetBestDealPair(asks, bids, wallet)
  PROVE  /\ pair.ask \in asks /\ pair.bid \in bids
         /\ pair.bid.terms.owner = wallet
         /\ Fits(pair.ask, pair.bid)
         /\ \A b \in bids :
              b.terms.owner = wallet /\ (\E a \in asks : Fits(a, b)) => pair.bid.id <= b.id
         /\ \A a \in asks :
              Fits(a, pair.bid) => pair.ask.terms.price <= a.terms.price
<1> DEFINE own == {b \in bids : b.terms.owner = wallet}
<1>1. PICK sa \in SortedAsks(asks), sb \in SortedBids(own) : pair \in FirstFit(sa, sb)
  BY DEF GetBestDealPair
<1>2. IsFiniteSet(own)
  BY FS_Subset
<1>3. /\ sa \in SetToSeqs(asks)
      /\ \A i, j \in DOMAIN sa : i < j => sa[i].terms.price <= sa[j].terms.price
  BY DEF SortedAsks, SortSlice
<1>4. /\ sb \in SetToSeqs(own)
      /\ \A i, j \in DOMAIN sb : i < j => sb[i].id <= sb[j].id
  BY DEF SortedBids, SortSlice
<1>5. /\ Len(sa) \in Nat /\ DOMAIN sa = 1 .. Len(sa)
      /\ \A i \in 1 .. Len(sa) : sa[i] \in asks
      /\ \A a \in asks : \E i \in 1 .. Len(sa) : sa[i] = a
  BY <1>3, HoldsAll
<1>6. /\ Len(sb) \in Nat /\ DOMAIN sb = 1 .. Len(sb)
      /\ \A i \in 1 .. Len(sb) : sb[i] \in own
      /\ \A b \in own : \E i \in 1 .. Len(sb) : sb[i] = b
  BY <1>2, <1>4, HoldsAll
<1>7. PICK p \in 1 .. Len(sb), q \in 1 .. Len(sa) :
        /\ pair = [ask |-> sa[q], bid |-> sb[p]]
        /\ Fits(sa[q], sb[p])
        /\ \A i \in 1 .. Len(sb), j \in 1 .. Len(sa) : Fits(sa[j], sb[i]) => p <= i
        /\ \A j \in 1 .. Len(sa) : Fits(sa[j], sb[p]) => q <= j
  <2>1. /\ Len(sa) \in Nat /\ DOMAIN sa = 1 .. Len(sa) /\ Len(sb) \in Nat
        /\ pair \in FirstFit(sa, sb)
    BY <1>1, <1>5, <1>6
  <2>2. QED
    BY <2>1, FirstFitIsFirst
<1>8. /\ pair.ask = sa[q] /\ pair.bid = sb[p]
      /\ pair.ask \in asks /\ pair.bid \in own /\ Fits(pair.ask, pair.bid)
  BY <1>5, <1>6, <1>7
<1>9. ASSUME NEW b \in own, NEW a \in asks, Fits(a, b)
      PROVE  pair.bid.id <= b.id
  <2>1. PICK i \in 1 .. Len(sb), j \in 1 .. Len(sa) : sb[i] = b /\ sa[j] = a
    BY <1>5, <1>6
  <2>2. Fits(sa[j], sb[i])
    BY <1>9, <2>1
  <2>3. p <= i
    BY <1>7, <2>2
  <2>4. QED
    BY <1>4, <1>6, <1>8, <2>1, <2>3
<1>10. ASSUME NEW a \in asks, Fits(a, pair.bid)
       PROVE  pair.ask.terms.price <= a.terms.price
  <2>1. PICK j \in 1 .. Len(sa) : sa[j] = a
    BY <1>5
  <2>2. Fits(sa[j], sb[p])
    BY <1>8, <1>10, <2>1
  <2>3. q <= j
    BY <1>7, <2>2
  <2>4. CASE q = j
    <3>1. pair.ask = a /\ a.terms.price \in Nat
      BY <1>8, <2>1, <2>4
    <3>2. QED
      BY <3>1
  <2>5. CASE q < j
    <3>1. sa[q].terms.price <= sa[j].terms.price
      BY <1>3, <1>5, <2>5
    <3>2. QED
      BY <1>8, <2>1, <3>1
  <2>6. QED
    BY <1>5, <2>3, <2>4, <2>5
<1>11. QED
  BY <1>8, <1>9, <1>10

(* A finite set can be sorted, whatever the keys of its elements. *)
LEMMA Sortable ==
  ASSUME NEW S, IsFiniteSet(S), NEW key \in [S -> Nat]
  PROVE  \E s \in SetToSeqs(S) : \A i, j \in DOMAIN s : i < j => key[s[i]] <= key[s[j]]
<1> DEFINE Sorts(s, T) ==
             /\ s \in SetToSeqs(T)
             /\ \A i, j \in DOMAIN s : i < j => key[s[i]] <= key[s[j]]
           Bad == {n \in Nat : \E T \in SUBSET S :
                                Cardinality(T) = n /\ \A s : ~Sorts(s, T)}
<1>1. SUFFICES ASSUME Bad # {} PROVE FALSE
  <2>1. Cardinality(S) \in Nat
    BY FS_CardinalityType
  <2>2. Cardinality(S) \notin Bad
    BY <1>1
  <2>3. QED
    BY <2>1, <2>2
<1> DEFINE n == Min(Bad)
<1>2. n \in Bad /\ \A m \in Bad : n <= m
  <2>1. Bad \in SUBSET Nat
    OBVIOUS
  <2> HIDE DEF Bad
  <2>2. QED
    BY <1>1, <2>1, Smallest
<1> HIDE DEF n
<1>3. PICK T \in SUBSET S : Cardinality(T) = n /\ \A s : ~Sorts(s, T)
  BY <1>2
<1>4. IsFiniteSet(T) /\ n \in Nat
  BY <1>2, FS_Subset
<1>5. T # {}
  <2>1. ASSUME T = {} PROVE Sorts(<<>>, T)
    BY <2>1, FS_EmptySet DEF SetToSeqs
  <2>2. QED
    BY <1>3, <2>1
<1>6. PICK x \in T : \A y \in T : key[x] <= key[y]
  <2> DEFINE K == {key[y] : y \in T}
  <2>1. K \in SUBSET Nat /\ K # {}
    BY <1>5
  <2>2. Min(K) \in K /\ \A m \in K : Min(K) <= m
    BY <2>1, Smallest
  <2>3. QED
    BY <2>2
<1> DEFINE R == T \ {x}
<1>7. IsFiniteSet(R) /\ Cardinality(R) = n - 1 /\ n - 1 \in Nat
  <2>1. IsFiniteSet(R) /\ Cardinality(R) = n - 1
    BY <1>3, <1>4, FS_RemoveElement
  <2>2. QED
    BY <2>1, FS_CardinalityType
<1>8. PICK u : Sorts(u, R)
  <2>1. n - 1 \notin Bad
    BY <1>2, <1>7
  <2>2. QED
    BY <1>7, <2>1
<1> DEFINE s == [i \in 1 .. n |-> IF i = 1 THEN x ELSE u[i - 1]]
<1>9. u \in [1 .. n - 1 -> R] /\ \A i, j \in 1 .. n - 1 : i # j => u[i] # u[j]
  BY <1>7, <1>8 DEF SetToSeqs
<1>10. \A i \in 1 .. n : i = 1 \/ (i - 1 \in 1 .. n - 1 /\ u[i - 1] \in R)
  BY <1>4, <1>9
<1>11. s \in SetToSeqs(T)
  <2>1. s \in [1 .. n -> T]
    BY <1>10
  <2>2. ASSUME NEW i \in 1 .. n, NEW j \in 1 .. n, i # j PROVE s[i] # s[j]
    BY <1>4, <1>9, <1>10, <2>2
  <2>3. QED
    BY <1>3, <2>1, <2>2 DEF SetToSeqs
<1>12. ASSUME NEW i \in 1 .. n, NEW j \in 1 .. n, i < j PROVE key[s[i]] <= key[s[j]]
  <2>1. j # 1 /\ s[j] = u[j - 1] /\ s[j] \in T
    BY <1>4, <1>10, <1>12
  <2>2. CASE i = 1
    BY <1>6, <2>1, <2>2
  <2>3. CASE i # 1
    BY <1>4, <1>8, <1>9, <1>10, <1>12, <2>1, <2>3
  <2>4. QED
    BY <2>2, <2>3
<1>13. Sorts(s, T)
  BY <1>11, <1>12
<1>14. QED
  BY <1>3, <1>13

(* getBestDealPair finds a pair whenever a bid of the wallet fits an ask. *)
THEOREM PairFound ==
  ASSUME NEW asks, IsFiniteSet(asks), \A a \in asks : a.terms.price \in Nat,
         NEW bids, IsFiniteSet(bids), \A b \in bids : b.id \in Nat,
         NEW wallet
  PROVE  (\E a \in asks, b \in bids : b.terms.owner = wallet /\ Fits(a, b))
           => GetBestDealPair(asks, bids, wallet) # {}
<1> DEFINE own == {b \in bids : b.terms.owner = wallet}
<1>1. PICK sa \in SetToSeqs(asks) : sa \in SortedAsks(asks)
  <2> DEFINE key == [a \in asks |-> a.terms.price]
  <2>1. key \in [asks -> Nat]
    OBVIOUS
  <2>2. PICK sa \in SetToSeqs(asks) :
          \A i, j \in DOMAIN sa : i < j => key[sa[i]] <= key[sa[j]]
    BY <2>1, Sortable
  <2>3. \A i \in DOMAIN sa : sa[i] \in asks
    BY HoldsAll
  <2>4. QED
    BY <2>2, <2>3 DEF SortedAsks, SortSlice
<1>2. IsFiniteSet(own)
  BY FS_Subset
<1>3. PICK sb \in SetToSeqs(own) : sb \in SortedBids(own)
  <2> DEFINE key == [b \in own |-> b.id]
  <2>1. key \in [own -> Nat]
    OBVIOUS
  <2>2. PICK sb \in SetToSeqs(own) :
          \A i, j \in DOMAIN sb : i < j => key[sb[i]] <= key[sb[j]]
    BY <1>2, <2>1, Sortable
  <2>3. \A i \in DOMAIN sb : sb[i] \in own
    BY <1>2, HoldsAll
  <2>4. QED
    BY <2>2, <2>3 DEF SortedBids, SortSlice
<1>4. FirstFit(sa, sb) \subseteq GetBestDealPair(asks, bids, wallet)
  <2> DEFINE FoundBy(x) == UNION {FirstFit(x, y) : y \in SortedBids(own)}
  <2>1. FirstFit(sa, sb) \subseteq FoundBy(sa)
    BY <1>3, Zenon
  <2>2. FoundBy(sa) \subseteq UNION {FoundBy(x) : x \in SortedAsks(asks)}
    BY <1>1, Zenon
  <2>3. QED
    BY <2>1, <2>2, Zenon DEF GetBestDealPair
<1> DEFINE I == {k \in 1 .. Len(sb) : \E a \in ToSet(sa) : Fits(a, sb[k])}
<1>5. ASSUME NEW a \in asks, NEW b \in own, Fits(a, b) PROVE I # {}
  <2>1. PICK i \in 1 .. Len(sb) : sb[i] = b
    BY <1>2, HoldsAll
  <2>2. a \in ToSet(sa)
    BY HoldsAll DEF ToSet
  <2>3. QED
    BY <1>5, <2>1, <2>2
<1>6. I # {} => FirstFit(sa, sb) # {}
  <2>1. I \in SUBSET Nat
    BY <1>2, HoldsAll
  <2>2. I # {} => Min(I) \in I
    BY <2>1, Smallest
  <2>3. I # {} => Min(I) # 0
    BY <2>2
  <2>4. QED
    BY <2>3 DEF FirstFit, SelectInSeq
<1>7. QED
  BY <1>4, <1>5, <1>6

(* A daemon lists every entry of its order book once, with its ID. *)
LEMMA ListedEntries ==
  ASSUME NEW E, NEW book \in Seq(E)
  PROVE  /\ IsFiniteSet(Listed(book))
         /\ \A e \in Listed(book) :
              e.id \in 1 .. Len(book) /\ e.terms = book[e.id] /\ e.terms \in E
         /\ \A i \in 1 .. Len(book) :
              \E e \in Listed(book) : e.id = i /\ e.terms = book[i]
<1>1. Len(book) \in Nat /\ DOMAIN book = 1 .. Len(book)
  BY LenProperties
<1>2. \A i \in 1 .. Len(book) : book[i] \in E
  BY ElementOfSeq
<1> DEFINE D == 1 .. Len(book)
           list == [i \in D |-> [id |-> i, terms |-> book[i]]]
<1>3. IsFiniteSet(D)
  BY <1>1, FS_Interval
<1>4. list \in Surjection(D, Listed(book))
  BY <1>1 DEF Surjection, Listed
<1>5. IsFiniteSet(Listed(book))
  BY <1>3, <1>4, FS_Surjection
<1>6. ASSUME NEW e \in Listed(book)
      PROVE  e.id \in 1 .. Len(book) /\ e.terms = book[e.id] /\ e.terms \in E
  <2>1. PICK i \in 1 .. Len(book) : e = [id |-> i, terms |-> book[i]]
    BY <1>1 DEF Listed
  <2>2. QED
    BY <1>2, <2>1
<1>7. ASSUME NEW i \in 1 .. Len(book)
      PROVE  \E e \in Listed(book) : e.id = i /\ e.terms = book[i]
  <2>1. [id |-> i, terms |-> book[i]] \in Listed(book)
    BY <1>1 DEF Listed
  <2>2. QED
    BY <2>1
<1>8. QED
  BY <1>5, <1>6, <1>7

(* The same as BestPair, told of the order books that the daemon lists and of    *)
(* the bids that are used: what a deal action proposes, for every order book.    *)
THEOREM BestOfBooks ==
  ASSUME NEW E, \A e \in E : e.price \in Nat,
         NEW asks \in Seq(E), NEW bids \in Seq(E), NEW used, NEW wallet,
         NEW pair \in GetBestDealPair(ExtractAsks(asks), ExtractUnusedBids(bids, used), wallet)
  PROVE  LET M(a, b) == bids[b].size <= asks[a].size /\ bids[b].price >= asks[a].price
         IN  /\ pair.ask.id \in 1 .. Len(asks) /\ pair.bid.id \in 1 .. Len(bids)
             /\ bids[pair.bid.id].owner = wallet /\ pair.bid.id \notin used
             /\ M(pair.ask.id, pair.bid.id)
             /\ \A a \in 1 .. Len(asks), b \in 1 .. Len(bids) :
                  bids[b].owner = wallet /\ b \notin used /\ M(a, b) => pair.bid.id <= b
             /\ \A a \in 1 .. Len(asks) :
                  M(a, pair.bid.id) => asks[pair.ask.id].price <= asks[a].price
<1> DEFINE A == ExtractAsks(asks)
           B == ExtractUnusedBids(bids, used)
<1>1. A \subseteq Listed(asks) /\ B \subseteq Listed(bids)
  BY DEF ExtractAsks, ExtractUnusedBids, Extract
<1>2. IsFiniteSet(A) /\ IsFiniteSet(B)
  BY <1>1, ListedEntries, FS_Subset
<1>3. /\ \A a \in A : a.terms.price \in Nat
      /\ \A b \in B : b.id \in Nat
  <2>1. Len(bids) \in Nat
    BY LenProperties
  <2>2. QED
    BY <1>1, <2>1, ListedEntries
<1> HIDE DEF A, B
<1>4. /\ pair.ask \in A /\ pair.bid \in B
      /\ pair.bid.terms.owner = wallet
      /\ Fits(pair.ask, pair.bid)
      /\ \A b \in B :
           b.terms.owner = wallet /\ (\E a \in A : Fits(a, b)) => pair.bid.id <= b.id
      /\ \A a \in A : Fits(a, pair.bid) => pair.ask.terms.price <= a.terms.price
  <2>1. pair \in GetBestDealPair(A, B, wallet)
    BY DEF A, B
  <2>2. QED
    BY <1>2, <1>3, <2>1, BestPair
<1>5. A = Listed(asks)
  BY <1>4 DEF A, ExtractAsks, Extract
<1>6. B = {b \in Listed(bids) : b.id \notin used}
  BY <1>4 DEF B, ExtractUnusedBids, Extract
<1>7. /\ pair.ask.id \in 1 .. Len(asks) /\ pair.ask.terms = asks[pair.ask.id]
      /\ pair.bid.id \in 1 .. Len(bids) /\ pair.bid.terms = bids[pair.bid.id]
      /\ pair.bid.id \notin used
  BY <1>4, <1>5, <1>6, ListedEntries
<1>8. ASSUME NEW a \in 1 .. Len(asks), NEW b \in 1 .. Len(bids),
             bids[b].owner = wallet, b \notin used,
             bids[b].size <= asks[a].size, bids[b].price >= asks[a].price
      PROVE  pair.bid.id <= b
  <2>1. PICK x \in A : x.id = a /\ x.terms = asks[a]
    BY <1>5, ListedEntries
  <2>2. PICK y \in B : y.id = b /\ y.terms = bids[b]
    BY <1>6, <1>8, ListedEntries
  <2>3. Fits(x, y)
    BY <1>8, <2>1, <2>2 DEF Fits
  <2>4. QED
    BY <1>4, <1>8, <2>2, <2>3
<1>9. ASSUME NEW a \in 1 .. Len(asks),
             bids[pair.bid.id].size <= asks[a].size, bids[pair.bid.id].price >= asks[a].price
      PROVE  asks[pair.ask.id].price <= asks[a].price
  <2>1. PICK x \in A : x.id = a /\ x.terms = asks[a]
    BY <1>5, ListedEntries
  <2>2. Fits(x, pair.bid)
    BY <1>7, <1>9, <2>1 DEF Fits
  <2>3. QED
    BY <1>4, <1>7, <2>1, <2>2
<1>10. bids[pair.bid.id].size <= asks[pair.ask.id].size
         /\ bids[pair.bid.id].price >= asks[pair.ask.id].price
  BY <1>4, <1>7 DEF Fits
<1>11. QED
  BY <1>4, <1>7, <1>8, <1>9, <1>10
=============================================================================
