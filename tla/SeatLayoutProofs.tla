--------------------------- MODULE SeatLayoutProofs ---------------------------
(***************************************************************************)
(* What the sorts of parseSeatMapLayout achieve, for every body: the       *)
(* layout does not depend on the order the provider lists things in.       *)
(***************************************************************************)
EXTENDS SeatLayout, FiniteSetTheorems, TLAPS

\* What can be sorted: finitely many zones or blocks at the places of a body.
Sortable(f) ==
  /\ IsFiniteSet(DOMAIN f) /\ DOMAIN f \subseteq Nat \X Nat
  /\ \A p \in DOMAIN f : f[p].code \in Int /\ f[p].name \in Int

Predecessors(f, p) == {q \in DOMAIN f : ComesBefore(f, q, p)}

\* What is less than a value, and what is not more.
Less(f, v) == {q \in DOMAIN f : InOrder(f[q], v)}
NotMore(f, v) == {q \in DOMAIN f : ~InOrder(v, f[q])}

-----------------------------------------------------------------------------
\* ComesBefore is a strict total order on the places.
LEMMA TotalOrder ==
  ASSUME NEW f, Sortable(f), NEW p \in DOMAIN f, NEW q \in DOMAIN f, NEW r \in DOMAIN f
  PROVE  /\ ~ComesBefore(f, p, p)
         /\ ComesBefore(f, p, q) /\ ComesBefore(f, q, r) => ComesBefore(f, p, r)
         /\ p # q => ComesBefore(f, p, q) \/ ComesBefore(f, q, p)
<1>1. \A u \in {p, q, r} : f[u].code \in Int /\ f[u].name \in Int
  BY DEF Sortable
<1>2. \A u \in {p, q, r} : u \in Nat \X Nat
  BY DEF Sortable
<1>3. \A u \in {p, q, r} : u[1] \in Nat /\ u[2] \in Nat /\ u = <<u[1], u[2]>>
  BY <1>2
<1> QED
  BY <1>1, <1>3 DEF ComesBefore, InOrder, Earlier

\* There is a place with any given number of predecessors.
LEMMA EveryRank ==
  ASSUME NEW f, Sortable(f), NEW k \in 1..Cardinality(DOMAIN f)
  PROVE  \E p \in DOMAIN f : Cardinality(Predecessors(f, p)) = k - 1
<1> DEFINE D == DOMAIN f
           n == Cardinality(D)
           rank == [p \in D |-> Cardinality(Predecessors(f, p)) + 1]
<1>1. IsFiniteSet(D) /\ n \in Nat
  BY FS_CardinalityType DEF Sortable
<1>2. ASSUME NEW p \in D
      PROVE  /\ IsFiniteSet(Predecessors(f, p)) /\ Cardinality(Predecessors(f, p)) \in Nat
             /\ Cardinality(Predecessors(f, p)) < n
  <2>1. Predecessors(f, p) \in SUBSET D /\ p \notin Predecessors(f, p)
    BY TotalOrder DEF Predecessors
  <2>2. /\ IsFiniteSet(Predecessors(f, p)) /\ Cardinality(Predecessors(f, p)) <= n
        /\ n = Cardinality(Predecessors(f, p)) => D = Predecessors(f, p)
    BY <1>1, <2>1, FS_Subset
  <2>3. Cardinality(Predecessors(f, p)) \in Nat
    BY <2>2, FS_CardinalityType
  <2> QED  BY <1>1, <2>1, <2>2, <2>3
<1>3. ASSUME NEW p \in D, NEW q \in D, ComesBefore(f, p, q)
      PROVE  Cardinality(Predecessors(f, p)) < Cardinality(Predecessors(f, q))
  <2>1. Predecessors(f, p) \in SUBSET Predecessors(f, q)
    BY <1>3, TotalOrder DEF Predecessors
  <2>2. p \in Predecessors(f, q) /\ p \notin Predecessors(f, p)
    BY <1>3, TotalOrder DEF Predecessors
  <2>3. /\ Cardinality(Predecessors(f, p)) <= Cardinality(Predecessors(f, q))
        /\ Cardinality(Predecessors(f, q)) = Cardinality(Predecessors(f, p))
             => Predecessors(f, q) = Predecessors(f, p)
    BY <1>2, <2>1, FS_Subset
  <2> QED  BY <1>2, <2>2, <2>3
<1>4. rank \in [D -> 1..n]
  BY <1>1, <1>2
<1>5. \A p, q \in D : rank[p] = rank[q] => p = q
  <2> SUFFICES ASSUME NEW p \in D, NEW q \in D, rank[p] = rank[q], p # q PROVE FALSE
    OBVIOUS
  <2>1. ComesBefore(f, p, q) \/ ComesBefore(f, q, p)
    BY TotalOrder
  <2>2. Cardinality(Predecessors(f, p)) = Cardinality(Predecessors(f, q))
    BY <1>2
  <2> QED  BY <1>2, <1>3, <2>1, <2>2
<1>6. IsFiniteSet(1..n) /\ Cardinality(1..n) = n
  BY <1>1, FS_Interval
<1> HIDE DEF rank, D
<1>7. rank \in Injection(D, 1..n)
  BY <1>4, <1>5 DEF Injection, IsInjective
<1>8. rank \in Surjection(D, 1..n)
  BY <1>6, <1>7, FS_Injection
<1>9. PICK p \in D : rank[p] = k
  BY <1>8 DEF Surjection, D
<1>10. Cardinality(Predecessors(f, p)) \in Nat /\ rank[p] = Cardinality(Predecessors(f, p)) + 1
  BY <1>2 DEF rank
<1> QED
  BY <1>9, <1>10 DEF D

\* The k-th of the sorted list: fewer than k are less, at least k are not more.
LEMMA KthCounts ==
  ASSUME NEW f, Sortable(f), NEW k \in 1..Cardinality(DOMAIN f)
  PROVE  \E p \in DOMAIN f :
           /\ Sorted(f)[k] = f[p]
           /\ Cardinality(Less(f, f[p])) < k /\ k <= Cardinality(NotMore(f, f[p]))
<1> DEFINE p == CHOOSE p \in DOMAIN f :
                  Cardinality({q \in DOMAIN f : ComesBefore(f, q, p)}) = k - 1
<1>1. p \in DOMAIN f /\ Cardinality(Predecessors(f, p)) = k - 1
  BY EveryRank DEF Predecessors
<1>2. Sorted(f)[k] = f[p]
  BY DEF Sorted
<1> HIDE DEF p
<1>3. IsFiniteSet(DOMAIN f)
  BY DEF Sortable
<1>4. Less(f, f[p]) \in SUBSET Predecessors(f, p)
  BY DEF Less, Predecessors, ComesBefore
<1>5. Predecessors(f, p) \in SUBSET DOMAIN f /\ NotMore(f, f[p]) \in SUBSET DOMAIN f
  BY DEF Predecessors, NotMore
<1>6. IsFiniteSet(Predecessors(f, p)) /\ IsFiniteSet(NotMore(f, f[p]))
  BY <1>3, <1>5, FS_Subset
<1>7. Cardinality(Less(f, f[p])) <= Cardinality(Predecessors(f, p))
  BY <1>4, <1>6, FS_Subset
<1>8. Predecessors(f, p) \cup {p} \in SUBSET NotMore(f, f[p]) /\ p \notin Predecessors(f, p)
  <2>1. p \notin Predecessors(f, p)
    BY <1>1, TotalOrder DEF Predecessors
  <2>2. f[p].code \in Int /\ f[p].name \in Int
    BY <1>1 DEF Sortable
  <2>3. p \in NotMore(f, f[p])
    BY <1>1, <2>2 DEF NotMore, InOrder
  <2>4. ASSUME NEW q \in Predecessors(f, p) PROVE q \in NotMore(f, f[p])
    <3>1. q \in DOMAIN f /\ ComesBefore(f, q, p)
      BY DEF Predecessors
    <3>2. f[q].code \in Int /\ f[q].name \in Int
      BY <3>1 DEF Sortable
    <3> QED  BY <2>2, <3>1, <3>2 DEF ComesBefore, NotMore, InOrder
  <2> QED  BY <2>1, <2>3, <2>4
<1>9. /\ IsFiniteSet(Predecessors(f, p) \cup {p})
      /\ Cardinality(Predecessors(f, p) \cup {p}) = Cardinality(Predecessors(f, p)) + 1
  BY <1>6, <1>8, FS_AddElement
<1>10. Cardinality(Predecessors(f, p) \cup {p}) <= Cardinality(NotMore(f, f[p]))
  BY <1>6, <1>8, FS_Subset
<1>11. Less(f, f[p]) \in SUBSET DOMAIN f
  BY DEF Less
<1>12. Cardinality(Less(f, f[p])) \in Nat /\ Cardinality(NotMore(f, f[p])) \in Nat
  BY <1>3, <1>6, <1>11, FS_Subset, FS_CardinalityType
<1> QED
  BY <1>1, <1>2, <1>7, <1>9, <1>10, <1>12

\* g has what f has, at other places.
Rearranges(s, f, g) == s \in Bijection(DOMAIN f, DOMAIN g) /\ \A p \in DOMAIN f : g[s[p]] = f[p]

\* A rearrangement counts as many that are less, and as many that are not more.
LEMMA SameCounts ==
  ASSUME NEW f, IsFiniteSet(DOMAIN f), NEW g, NEW s, Rearranges(s, f, g), NEW v
  PROVE  /\ Cardinality(Less(f, v)) = Cardinality(Less(g, v))
         /\ Cardinality(NotMore(f, v)) = Cardinality(NotMore(g, v))
<1>1. /\ s \in [DOMAIN f -> DOMAIN g]
      /\ \A p, q \in DOMAIN f : s[p] = s[q] => p = q
      /\ \A t \in DOMAIN g : \E p \in DOMAIN f : s[p] = t
      /\ \A p \in DOMAIN f : g[s[p]] = f[p]
  BY DEF Rearranges, Bijection, Injection, Surjection, IsInjective
<1>2. ASSUME NEW A \in SUBSET DOMAIN f, NEW B \in SUBSET DOMAIN g,
             \A p \in DOMAIN f : p \in A <=> s[p] \in B
      PROVE  Cardinality(A) = Cardinality(B)
  <2> DEFINE h == [p \in A |-> s[p]]
  <2>1. /\ h \in [A -> B] /\ (\A p, q \in A : h[p] = h[q] => p = q)
        /\ \A t \in B : \E p \in A : h[p] = t
    BY <1>1, <1>2
  <2> HIDE DEF h
  <2>2. h \in Bijection(A, B)
    BY <2>1 DEF Bijection, Injection, Surjection, IsInjective
  <2>3. IsFiniteSet(A)
    BY FS_Subset
  <2>4. ExistsBijection(A, B)
    BY <2>2 DEF ExistsBijection
  <2> QED  BY <2>3, <2>4, FS_Bijection
<1>3. Cardinality(Less(f, v)) = Cardinality(Less(g, v))
  <2>1. Less(f, v) \in SUBSET DOMAIN f /\ Less(g, v) \in SUBSET DOMAIN g
    BY DEF Less
  <2>2. \A p \in DOMAIN f : p \in Less(f, v) <=> s[p] \in Less(g, v)
    BY <1>1 DEF Less
  <2> QED  BY <1>2, <2>1, <2>2
<1>4. Cardinality(NotMore(f, v)) = Cardinality(NotMore(g, v))
  <2>1. NotMore(f, v) \in SUBSET DOMAIN f /\ NotMore(g, v) \in SUBSET DOMAIN g
    BY DEF NotMore
  <2>2. \A p \in DOMAIN f : p \in NotMore(f, v) <=> s[p] \in NotMore(g, v)
    BY <1>1 DEF NotMore
  <2> QED  BY <1>2, <2>1, <2>2
<1> QED
  BY <1>3, <1>4

(***************************************************************************)
(* The sort forgets the order its input was in: whatever the places, the   *)
(* sorted lists are the same, if equal codes and names mean the same.      *)
(***************************************************************************)
THEOREM SortForgetsOrder ==
  ASSUME NEW f, Sortable(f), ToldApart(f), NEW g, Sortable(g), NEW s, Rearranges(s, f, g)
  PROVE  Sorted(g) = Sorted(f)
<1>1. Cardinality(DOMAIN f) = Cardinality(DOMAIN g)
  <2>1. IsFiniteSet(DOMAIN f) /\ ExistsBijection(DOMAIN f, DOMAIN g)
    BY DEF Rearranges, Sortable, ExistsBijection
  <2> QED  BY <2>1, FS_Bijection
<1>2. ASSUME NEW k \in 1..Cardinality(DOMAIN f) PROVE Sorted(g)[k] = Sorted(f)[k]
  <2>1. PICK p \in DOMAIN f :
          /\ Sorted(f)[k] = f[p]
          /\ Cardinality(Less(f, f[p])) < k /\ k <= Cardinality(NotMore(f, f[p]))
    BY KthCounts
  <2>2. PICK t \in DOMAIN g :
          /\ Sorted(g)[k] = g[t]
          /\ Cardinality(Less(g, g[t])) < k /\ k <= Cardinality(NotMore(g, g[t]))
    BY <1>1, KthCounts
  <2>3. PICK q \in DOMAIN f : g[t] = f[q]
    BY DEF Rearranges, Bijection, Surjection
  <2>4. Cardinality(Less(f, f[q])) < k /\ k <= Cardinality(NotMore(f, f[q]))
    BY <2>2, <2>3, SameCounts DEF Sortable
  <2>5. ASSUME NEW u \in DOMAIN f, NEW w \in DOMAIN f, InOrder(f[u], f[w])
        PROVE  /\ Cardinality(NotMore(f, f[u])) <= Cardinality(Less(f, f[w]))
               /\ Cardinality(NotMore(f, f[u])) \in Nat /\ Cardinality(Less(f, f[w])) \in Nat
    <3>1. NotMore(f, f[u]) \in SUBSET Less(f, f[w])
      <4> SUFFICES ASSUME NEW r \in DOMAIN f, ~InOrder(f[u], f[r]) PROVE InOrder(f[r], f[w])
        BY DEF NotMore, Less
      <4>1. \A x \in {u, w, r} : f[x].code \in Int /\ f[x].name \in Int
        BY DEF Sortable
      <4> QED  BY <2>5, <4>1 DEF InOrder
    <3>2. Less(f, f[w]) \in SUBSET DOMAIN f /\ IsFiniteSet(DOMAIN f)
      BY DEF Less, Sortable
    <3>3. IsFiniteSet(Less(f, f[w]))
      BY <3>2, FS_Subset
    <3>4. /\ Cardinality(NotMore(f, f[u])) <= Cardinality(Less(f, f[w]))
          /\ IsFiniteSet(NotMore(f, f[u]))
      BY <3>1, <3>3, FS_Subset
    <3> QED  BY <3>3, <3>4, FS_CardinalityType
  <2>6. ~InOrder(f[p], f[q]) /\ ~InOrder(f[q], f[p])
    BY <2>1, <2>4, <2>5
  <2>7. f[p].code = f[q].code /\ f[p].name = f[q].name
    <3>1. \A x \in {p, q} : f[x].code \in Int /\ f[x].name \in Int
      BY DEF Sortable
    <3> QED  BY <2>6, <3>1 DEF InOrder
  <2>8. f[p] = f[q]
    BY <2>7 DEF ToldApart
  <2> QED  BY <2>1, <2>2, <2>3, <2>8
<1> QED
  BY <1>1, <1>2 DEF Sorted

-----------------------------------------------------------------------------
(***************************************************************************)
(* Lists of lists, as the items of a body have seats, zones and blocks.    *)
(***************************************************************************)
Lists(n, lists) == n \in Nat /\ DOMAIN lists = 1..n /\ \A i \in 1..n : IsList(lists[i])

PlacesOf(lists) == UNION {{<<i, j>> : j \in DOMAIN lists[i]} : i \in DOMAIN lists}

\* The same lists, both ways round.
TurnedRound(n, lists, others) ==
  DOMAIN others = 1..n /\ \A i \in 1..n : others[i] = Reverse(lists[(n - i) + 1])

\* Where an element is after that.
Turn(n, lists) == [p \in PlacesOf(lists) |-> <<(n - p[1]) + 1, (Len(lists[p[1]]) - p[2]) + 1>>]

LEMMA PlacesFinite ==
  ASSUME NEW n, NEW lists, Lists(n, lists)
  PROVE  IsFiniteSet(PlacesOf(lists)) /\ PlacesOf(lists) \in SUBSET (Nat \X Nat)
<1> DEFINE Of(i) == {<<i, j>> : j \in DOMAIN lists[i]}
           All == {Of(i) : i \in 1..n}
           list == [i \in 1..n |-> Of(i)]
<1>1. n \in Nat /\ \A i \in 1..n : Len(lists[i]) \in Nat /\ DOMAIN lists[i] = 1..Len(lists[i])
  BY DEF Lists, IsList
<1>2. ASSUME NEW i \in 1..n PROVE IsFiniteSet(Of(i))
  <2> DEFINE place == [j \in 1..Len(lists[i]) |-> <<i, j>>]
  <2>1. IsFiniteSet(1..Len(lists[i]))
    <3>1. 1 \in Int /\ Len(lists[i]) \in Int
      BY <1>1
    <3> QED  BY <3>1, FS_Interval
  <2>2. /\ place \in [1..Len(lists[i]) -> Of(i)]
        /\ \A t \in Of(i) : \E j \in 1..Len(lists[i]) : place[j] = t
    BY <1>1
  <2> HIDE DEF place, Of
  <2>3. place \in Surjection(1..Len(lists[i]), Of(i))
    BY <2>2 DEF Surjection
  <2> QED  BY <2>1, <2>3, FS_Surjection
<1>3. IsFiniteSet(All)
  <2>1. IsFiniteSet(1..n)
    BY <1>1, FS_Interval
  <2>2. list \in [1..n -> All] /\ \A t \in All : \E i \in 1..n : list[i] = t
    OBVIOUS
  <2> HIDE DEF list, All
  <2>3. list \in Surjection(1..n, All)
    BY <2>2 DEF Surjection
  <2> QED  BY <2>1, <2>3, FS_Surjection
<1>4. \A A \in All : IsFiniteSet(A)
  BY <1>2
<1>5. PlacesOf(lists) = UNION All
  BY DEF PlacesOf, Lists
<1>6. PlacesOf(lists) \in SUBSET (Nat \X Nat)
  BY <1>1 DEF PlacesOf, Lists
<1> HIDE DEF All
<1> QED
  BY <1>3, <1>4, <1>5, <1>6, FS_UNION

\* A body has finitely many seats.
LEMMA SeatsFinite ==
  ASSUME NEW body, IsBody(body)
  PROVE  IsFiniteSet(Places(body))
<1> DEFINE n == Len(body.items)
           seats == [i \in 1..n |-> body.items[i].seats]
<1>1. n \in Nat /\ DOMAIN body.items = 1..n
  BY DEF IsBody, IsList
<1> HIDE DEF n
<1>2. Lists(n, seats)
  BY <1>1 DEF Lists, IsBody
<1>3. Places(body) = PlacesOf(seats)
  BY <1>1 DEF Places, PlacesOf
<1> HIDE DEF seats
<1> QED
  BY <1>2, <1>3, PlacesFinite

\* Every element has one place after the turn, and every place has an element.
LEMMA TurnMoves ==
  ASSUME NEW n, NEW lists, Lists(n, lists), NEW others, TurnedRound(n, lists, others)
  PROVE  /\ Turn(n, lists) \in Bijection(PlacesOf(lists), PlacesOf(others))
         /\ \A p \in PlacesOf(lists) :
              LET t == Turn(n, lists)[p] IN
                /\ p[1] \in 1..n /\ t[1] = (n - p[1]) + 1
                /\ others[t[1]][t[2]] = lists[p[1]][p[2]]
<1> DEFINE P == PlacesOf(lists)
           Q == PlacesOf(others)
           s == Turn(n, lists)
<1>1. n \in Nat /\ \A i \in 1..n : Len(lists[i]) \in Nat /\ DOMAIN lists[i] = 1..Len(lists[i])
  BY DEF Lists, IsList
<1>2. ASSUME NEW i \in 1..n
      PROVE  /\ (n - i) + 1 \in 1..n /\ (n - ((n - i) + 1)) + 1 = i
             /\ DOMAIN others[(n - i) + 1] = 1..Len(lists[i])
             /\ \A j \in 1..Len(lists[i]) : others[(n - i) + 1][j] = lists[i][(Len(lists[i]) - j) + 1]
  <2>1. (n - i) + 1 \in 1..n /\ (n - ((n - i) + 1)) + 1 = i
    BY <1>1
  <2>2. others[(n - i) + 1] = Reverse(lists[i])
    BY <2>1 DEF TurnedRound
  <2> QED  BY <2>1, <2>2 DEF Reverse
<1>3. \A p \in P : /\ p[1] \in 1..n /\ p[2] \in 1..Len(lists[p[1]]) /\ p = <<p[1], p[2]>>
                   /\ s[p] = <<(n - p[1]) + 1, (Len(lists[p[1]]) - p[2]) + 1>>
  BY <1>1 DEF PlacesOf, Lists, Turn
<1>4. \A i \in 1..n : \A j \in 1..Len(lists[i]) : <<i, j>> \in P
  BY <1>1 DEF PlacesOf, Lists
<1>5. ASSUME NEW t \in Q
      PROVE  \E i \in 1..n : \E j \in 1..Len(lists[i]) : t = <<(n - i) + 1, (Len(lists[i]) - j) + 1>>
  <2>1. PICK k \in 1..n : \E j \in DOMAIN others[k] : t = <<k, j>>
    BY DEF PlacesOf, TurnedRound
  <2>2. PICK j \in DOMAIN others[k] : t = <<k, j>>
    BY <2>1
  <2> DEFINE i == (n - k) + 1
  <2>3. i \in 1..n /\ (n - i) + 1 = k
    BY <1>1
  <2> HIDE DEF i
  <2>4. j \in 1..Len(lists[i]) /\ Len(lists[i]) \in Nat
    BY <1>1, <1>2, <2>2, <2>3
  <2>5. /\ (Len(lists[i]) - j) + 1 \in 1..Len(lists[i])
        /\ (Len(lists[i]) - ((Len(lists[i]) - j) + 1)) + 1 = j
    BY <2>4
  <2> QED  BY <2>2, <2>3, <2>5
<1>6. ASSUME NEW i \in 1..n, NEW j \in 1..Len(lists[i])
      PROVE  <<(n - i) + 1, (Len(lists[i]) - j) + 1>> \in Q
  <2>1. (n - i) + 1 \in DOMAIN others
    BY <1>2 DEF TurnedRound
  <2>2. (Len(lists[i]) - j) + 1 \in DOMAIN others[(n - i) + 1]
    BY <1>1, <1>2
  <2> QED  BY <2>1, <2>2 DEF PlacesOf
<1> HIDE DEF P, Q, s
<1>7. s \in [P -> Q]
  <2>1. \A p \in P : s[p] \in Q
    BY <1>3, <1>6
  <2> QED  BY <2>1 DEF s, P, Turn
<1>8. \A p, q \in P : s[p] = s[q] => p = q
  <2> SUFFICES ASSUME NEW p \in P, NEW q \in P, s[p] = s[q] PROVE p = q
    OBVIOUS
  <2>1. /\ (n - p[1]) + 1 = (n - q[1]) + 1
        /\ (Len(lists[p[1]]) - p[2]) + 1 = (Len(lists[q[1]]) - q[2]) + 1
    BY <1>3
  <2>2. p[1] = q[1]
    BY <1>1, <1>3, <2>1
  <2>3. p[2] = q[2]
    BY <1>1, <1>3, <2>1, <2>2
  <2> QED  BY <1>3, <2>2, <2>3
<1>9. \A t \in Q : \E p \in P : s[p] = t
  <2> SUFFICES ASSUME NEW t \in Q PROVE \E p \in P : s[p] = t
    OBVIOUS
  <2>1. PICK i \in 1..n : \E j \in 1..Len(lists[i]) : t = <<(n - i) + 1, (Len(lists[i]) - j) + 1>>
    BY <1>5
  <2>2. PICK j \in 1..Len(lists[i]) : t = <<(n - i) + 1, (Len(lists[i]) - j) + 1>>
    BY <2>1
  <2>3. <<i, j>> \in P
    BY <1>4
  <2>4. s[<<i, j>>] = t
    BY <1>3, <2>2, <2>3
  <2> QED  BY <2>3, <2>4
<1>10. s \in Bijection(P, Q)
  BY <1>7, <1>8, <1>9 DEF Bijection, Injection, Surjection, IsInjective
<1>11. ASSUME NEW p \in P
       PROVE  /\ p[1] \in 1..n /\ s[p][1] = (n - p[1]) + 1
              /\ others[s[p][1]][s[p][2]] = lists[p[1]][p[2]]
  <2>1. /\ p[1] \in 1..n /\ p[2] \in 1..Len(lists[p[1]])
        /\ s[p][1] = (n - p[1]) + 1 /\ s[p][2] = (Len(lists[p[1]]) - p[2]) + 1
    BY <1>3
  <2>2. Len(lists[p[1]]) \in Nat
    BY <1>1, <2>1
  <2>3. /\ (Len(lists[p[1]]) - p[2]) + 1 \in 1..Len(lists[p[1]])
        /\ (Len(lists[p[1]]) - ((Len(lists[p[1]]) - p[2]) + 1)) + 1 = p[2]
    BY <2>1, <2>2
  <2>4. others[(n - p[1]) + 1][(Len(lists[p[1]]) - p[2]) + 1] = lists[p[1]][p[2]]
    BY <1>2, <2>1, <2>3
  <2> QED  BY <2>1, <2>4
<1> QED
  BY <1>10, <1>11 DEF P, Q, s

\* What was a list is one the other way round.
LEMMA ReverseIsList ==
  ASSUME NEW list, IsList(list)
  PROVE  /\ IsList(Reverse(list)) /\ DOMAIN Reverse(list) = DOMAIN list
         /\ \A k \in DOMAIN list : \E j \in DOMAIN list : Reverse(list)[k] = list[j]
<1> DEFINE m == Len(list)
           back == Reverse(list)
<1>1. m \in Nat /\ DOMAIN list = 1..m
  BY DEF IsList
<1>2. back = [k \in 1..m |-> list[(m - k) + 1]]
  BY DEF Reverse
<1> HIDE DEF m, back
<1>3. \A k \in 1..m : (m - k) + 1 \in 1..m
  BY <1>1
<1>4. DOMAIN back = 1..m /\ back = [k \in 1..m |-> back[k]]
  BY <1>2
<1> DEFINE elements == {back[k] : k \in DOMAIN back}
<1>5. back \in [1..m -> elements]
  BY <1>4
<1> HIDE DEF elements
<1>6. IsList(back)
  <2>1. back \in Seq(elements)
    BY <1>1, <1>5
  <2> QED  BY <2>1 DEF IsList, elements
<1> QED
  BY <1>1, <1>2, <1>3, <1>4, <1>6 DEF back

\* The zones, or the blocks, of a body can be sorted.
LEMMA AreasSortable ==
  ASSUME NEW n, NEW lists, Lists(n, lists), \A i \in 1..n : IsAreaList(lists[i]), NEW items
  PROVE  Sortable(AreasAt(items, lists))
<1> DEFINE f == AreasAt(items, lists)
<1>1. /\ DOMAIN f = PlacesOf(lists)
      /\ \A p \in PlacesOf(lists) : /\ f[p].code = lists[p[1]][p[2]].code
                                    /\ f[p].name = lists[p[1]][p[2]].name
  BY DEF AreasAt, PlacesOf
<1> HIDE DEF f
<1>2. IsFiniteSet(PlacesOf(lists)) /\ PlacesOf(lists) \in SUBSET (Nat \X Nat)
  BY PlacesFinite
<1>3. ASSUME NEW p \in PlacesOf(lists) PROVE f[p].code \in Int /\ f[p].name \in Int
  <2>1. p[1] \in 1..n /\ p[2] \in DOMAIN lists[p[1]]
    BY DEF PlacesOf, Lists
  <2>2. lists[p[1]][p[2]].code \in Int /\ lists[p[1]][p[2]].name \in Int
    BY <2>1 DEF IsAreaList
  <2> QED  BY <1>1, <2>2
<1> QED
  BY <1>1, <1>2, <1>3 DEF Sortable, f

LEMMA BodySortable ==
  ASSUME NEW body, IsBody(body)
  PROVE  Sortable(Zones(body)) /\ Sortable(Blocks(body))
<1> DEFINE n == Len(body.items)
           zones == [i \in DOMAIN body.items |-> body.items[i].zones]
           blocks == [i \in DOMAIN body.items |-> body.items[i].blocks]
<1>1. IsList(body.items)
  BY DEF IsBody
<1>2. n \in Nat /\ DOMAIN body.items = 1..n
  BY <1>1 DEF IsList
<1> HIDE DEF n
<1>3. \A i \in 1..n : IsAreaList(body.items[i].zones) /\ IsAreaList(body.items[i].blocks)
  BY <1>2 DEF IsBody
<1>4. /\ Lists(n, zones) /\ \A i \in 1..n : IsAreaList(zones[i])
      /\ Lists(n, blocks) /\ \A i \in 1..n : IsAreaList(blocks[i])
  BY <1>2, <1>3 DEF Lists, IsAreaList
<1> HIDE DEF zones, blocks
<1>5. Sortable(AreasAt(body.items, zones)) /\ Sortable(AreasAt(body.items, blocks))
  BY <1>4, AreasSortable
<1> QED
  BY <1>5 DEF Zones, Blocks, zones, blocks

-----------------------------------------------------------------------------
\* Another body has the same seats, of items with the same board and sale forms.
SeatsRearranged(s, body, other) ==
  /\ s \in Bijection(Places(body), Places(other))
  /\ \A p \in Places(body) :
       /\ SeatAt(other, s[p]) = SeatAt(body, p)
       /\ other.items[s[p][1]].board = body.items[p[1]].board
       /\ other.items[s[p][1]].forms = body.items[p[1]].forms

(***************************************************************************)
(* parseSeatMapLayout makes the same layout of any two bodies that have    *)
(* the same seats, zones and blocks, whichever items bring them and        *)
(* whatever the order they are listed in, if zones and blocks that share a *)
(* code and a name are the same.                                           *)
(***************************************************************************)
THEOREM LayoutForgetsOrder ==
  ASSUME NEW body, IsBody(body), ToldApart(Zones(body)), ToldApart(Blocks(body)),
         NEW other, IsBody(other), NEW auditorium,
         NEW s, SeatsRearranged(s, body, other),
         NEW z, Rearranges(z, Zones(body), Zones(other)),
         NEW b, Rearranges(b, Blocks(body), Blocks(other))
  PROVE  parseSeatMapLayout(other, auditorium) = parseSeatMapLayout(body, auditorium)
<1>1. Sorted(Zones(other)) = Sorted(Zones(body)) /\ Sorted(Blocks(other)) = Sorted(Blocks(body))
  BY BodySortable, SortForgetsOrder
<1> DEFINE here(p) == Seat(body.items[p[1]], SeatAt(body, p), auditorium)
           there(p) == Seat(other.items[p[1]], SeatAt(other, p), auditorium)
<1>2. /\ s \in [Places(body) -> Places(other)]
      /\ \A t \in Places(other) : \E p \in Places(body) : s[p] = t
  BY DEF SeatsRearranged, Bijection, Surjection
<1>3. ASSUME NEW p \in Places(body) PROVE there(s[p]) = here(p)
  BY DEF SeatsRearranged, Seat, SaleFormName
<1> HIDE DEF here, there
<1>4. {there(p) : p \in Places(other)} = {here(p) : p \in Places(body)}
  BY <1>2, <1>3
<1> QED
  BY <1>1, <1>4 DEF parseSeatMapLayout, here, there

-----------------------------------------------------------------------------
\* Turning the lists round moves the zones, or the blocks, and changes none.
LEMMA AreasTurn ==
  ASSUME NEW n, NEW lists, Lists(n, lists), NEW others, TurnedRound(n, lists, others),
         NEW items, NEW turned, \A i \in 1..n : turned[(n - i) + 1].board = items[i].board
  PROVE  Rearranges(Turn(n, lists), AreasAt(items, lists), AreasAt(turned, others))
<1> DEFINE f == AreasAt(items, lists)
           g == AreasAt(turned, others)
           s == Turn(n, lists)
           Area(its, ls, p) ==
             [code |-> ls[p[1]][p[2]].code, name |-> ls[p[1]][p[2]].name,
              bounds |-> Bounds(ls[p[1]][p[2]], its[p[1]].board)]
<1>1. /\ DOMAIN f = PlacesOf(lists) /\ \A p \in PlacesOf(lists) : f[p] = Area(items, lists, p)
      /\ DOMAIN g = PlacesOf(others) /\ \A p \in PlacesOf(others) : g[p] = Area(turned, others, p)
  BY DEF AreasAt, PlacesOf
<1>2. /\ s \in Bijection(PlacesOf(lists), PlacesOf(others))
      /\ \A p \in PlacesOf(lists) :
           /\ p[1] \in 1..n /\ s[p][1] = (n - p[1]) + 1
           /\ others[s[p][1]][s[p][2]] = lists[p[1]][p[2]]
  BY TurnMoves
<1> HIDE DEF s, f, g
<1>3. s \in [PlacesOf(lists) -> PlacesOf(others)]
  BY <1>2 DEF Bijection, Surjection
<1>4. \A p \in PlacesOf(lists) : g[s[p]] = f[p]
  <2> SUFFICES ASSUME NEW p \in PlacesOf(lists) PROVE g[s[p]] = f[p]
    OBVIOUS
  <2>1. g[s[p]] = Area(turned, others, s[p]) /\ f[p] = Area(items, lists, p)
    BY <1>1, <1>3
  <2>2. turned[s[p][1]].board = items[p[1]].board
    BY <1>2
  <2> QED  BY <1>2, <2>1, <2>2
<1> QED
  BY <1>1, <1>2, <1>4 DEF Rearranges, s, f, g

\* In particular a body the other way round has the same layout.
LEMMA LayoutBackwards ==
  ASSUME NEW body, IsBody(body), NEW auditorium,
         ToldApart(Zones(body)), ToldApart(Blocks(body))
  PROVE  parseSeatMapLayout(Backwards(body), auditorium) = parseSeatMapLayout(body, auditorium)
<1> DEFINE n == Len(body.items)
           other == Backwards(body)
           seats == [i \in 1..n |-> body.items[i].seats]
           zones == [i \in 1..n |-> body.items[i].zones]
           blocks == [i \in 1..n |-> body.items[i].blocks]
           theseats == [i \in 1..n |-> other.items[i].seats]
           thezones == [i \in 1..n |-> other.items[i].zones]
           theblocks == [i \in 1..n |-> other.items[i].blocks]
<1>1. /\ n \in Nat /\ DOMAIN body.items = 1..n
      /\ \A i \in 1..n : /\ IsList(body.items[i].seats)
                         /\ IsAreaList(body.items[i].zones) /\ IsAreaList(body.items[i].blocks)
  <2>1. IsList(body.items)
    BY DEF IsBody
  <2>2. n \in Nat /\ DOMAIN body.items = 1..n
    BY <2>1 DEF IsList
  <2> HIDE DEF n
  <2> QED  BY <2>2 DEF IsBody
<1>2. /\ DOMAIN Reverse(body.items) = 1..n
      /\ \A i \in 1..n : Reverse(body.items)[i] = body.items[(n - i) + 1]
  BY DEF Reverse
<1>3. /\ DOMAIN other.items = 1..n /\ other.items = [i \in 1..n |-> other.items[i]]
      /\ \A i \in 1..n :
           LET item == body.items[(n - i) + 1] IN
             /\ other.items[i].board = item.board /\ other.items[i].forms = item.forms
             /\ other.items[i].seats = Reverse(item.seats)
             /\ other.items[i].zones = Reverse(item.zones)
             /\ other.items[i].blocks = Reverse(item.blocks)
  BY <1>2 DEF Backwards
<1> HIDE DEF n, other
<1>4. \A i \in 1..n : (n - i) + 1 \in 1..n /\ (n - ((n - i) + 1)) + 1 = i
  BY <1>1
<1>5. IsBody(other)
  <2>1. other.items \in [1..n -> {other.items[i] : i \in DOMAIN other.items}]
    BY <1>3
  <2>2. IsList(other.items)
    BY <1>1, <2>1 DEF IsList
  <2>3. ASSUME NEW list, IsAreaList(list) PROVE IsAreaList(Reverse(list))
    BY <2>3, ReverseIsList DEF IsAreaList
  <2>4. ASSUME NEW i \in 1..n
        PROVE  /\ IsList(other.items[i].seats)
               /\ IsAreaList(other.items[i].zones) /\ IsAreaList(other.items[i].blocks)
    BY <1>1, <1>3, <1>4, <2>3, ReverseIsList
  <2> QED  BY <1>3, <2>2, <2>4 DEF IsBody
<1>6. Lists(n, seats) /\ Lists(n, zones) /\ Lists(n, blocks)
  BY <1>1 DEF Lists, IsAreaList
<1>7. /\ TurnedRound(n, seats, theseats) /\ TurnedRound(n, zones, thezones)
      /\ TurnedRound(n, blocks, theblocks)
  BY <1>3, <1>4 DEF TurnedRound
<1>8. \A i \in 1..n : /\ other.items[(n - i) + 1].board = body.items[i].board
                      /\ other.items[(n - i) + 1].forms = body.items[i].forms
  BY <1>3, <1>4
<1>9. /\ Zones(body) = AreasAt(body.items, zones) /\ Blocks(body) = AreasAt(body.items, blocks)
      /\ Zones(other) = AreasAt(other.items, thezones)
      /\ Blocks(other) = AreasAt(other.items, theblocks)
  BY <1>1, <1>3 DEF Zones, Blocks
<1>10. /\ Places(body) = PlacesOf(seats) /\ Places(other) = PlacesOf(theseats)
       /\ \A i \in 1..n : seats[i] = body.items[i].seats /\ theseats[i] = other.items[i].seats
  BY <1>1, <1>3 DEF Places, PlacesOf
<1> HIDE DEF seats, zones, blocks, theseats, thezones, theblocks
<1>11. /\ Rearranges(Turn(n, zones), Zones(body), Zones(other))
       /\ Rearranges(Turn(n, blocks), Blocks(body), Blocks(other))
  BY <1>6, <1>7, <1>8, <1>9, AreasTurn
<1> DEFINE s == Turn(n, seats)
<1>12. /\ s \in Bijection(Places(body), Places(other))
       /\ \A p \in Places(body) :
            /\ p[1] \in 1..n /\ s[p][1] = (n - p[1]) + 1
            /\ theseats[s[p][1]][s[p][2]] = seats[p[1]][p[2]]
  BY <1>6, <1>7, <1>10, TurnMoves
<1> HIDE DEF s
<1>13. SeatsRearranged(s, body, other)
  <2> SUFFICES ASSUME NEW p \in Places(body)
               PROVE  /\ SeatAt(other, s[p]) = SeatAt(body, p)
                      /\ other.items[s[p][1]].board = body.items[p[1]].board
                      /\ other.items[s[p][1]].forms = body.items[p[1]].forms
    BY <1>12 DEF SeatsRearranged
  <2>1. s[p][1] \in 1..n /\ p[1] \in 1..n
    BY <1>4, <1>12
  <2>2. SeatAt(other, s[p]) = SeatAt(body, p)
    BY <1>10, <1>12, <2>1 DEF SeatAt
  <2> QED  BY <1>8, <1>12, <2>2
<1>14. parseSeatMapLayout(other, auditorium) = parseSeatMapLayout(body, auditorium)
  BY <1>5, <1>11, <1>13, LayoutForgetsOrder
<1> QED
  BY <1>14 DEF other
=============================================================================
