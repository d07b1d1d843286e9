---------------------------- MODULE Listing_proofs -----------------------------
(***************************************************************************)
(* Listed and Ascending list a finite set: every member once, in order,    *)
(* for any set. The two inductions on naturals here are stated for a set,  *)
(* not for a predicate.                                                    *)
(***************************************************************************)
EXTENDS Listing, FunctionTheorems, FiniteSetTheorems, WellFoundedInduction, TLAPS

-----------------------------------------------------------------------------
(* Induction on a set of naturals *)

\* A set of naturals has a least element.
LEMMA LeastNatural ==
  ASSUME NEW S, S \subseteq Nat, S # {}
  PROVE  \E x \in S : \A y \in S : x <= y
<1>. DEFINE R == OpToRel(<, Nat)
<1>1. IsWellFoundedOn(R, Nat)
  BY NatLessThanWellFounded
<1>2. \A x, y \in Nat : <<y, x>> \in R <=> y < x
  BY DEF OpToRel
<1>. HIDE DEF R
<1>3. PICK x \in S : \A y \in S : ~(<<y, x>> \in R)
  BY <1>1, WFMin
<1>4. \A y \in S : x \in Nat /\ y \in Nat /\ ~(y < x)
  BY <1>2, <1>3
<1>5. QED
  BY <1>4

\* One that has 0 and the successor of each of its members has them all.
LEMMA AllNaturals ==
  ASSUME NEW S, 0 \in S, \A n \in Nat : n \in S => n + 1 \in S
  PROVE  \A n \in Nat : n \in S
<1>. DEFINE T == {n \in Nat : n \notin S}
<1>1. SUFFICES ASSUME T # {} PROVE FALSE
  OBVIOUS
<1>2. PICK x \in T : \A y \in T : x <= y
  <2>1. T \subseteq Nat
    OBVIOUS
  <2>. HIDE DEF T
  <2>2. QED
    BY <1>1, <2>1, LeastNatural
<1>3. x \in Nat /\ x # 0 /\ x - 1 \in Nat /\ x - 1 + 1 = x /\ ~(x <= x - 1)
  OBVIOUS
<1>4. QED
  BY <1>2, <1>3

-----------------------------------------------------------------------------
(* The members of a set in an order *)

\* A strict total order on S.
Orders(R, S) ==
  /\ \A x \in S : <<x, x>> \notin R
  /\ \A x, y \in S : x # y => <<x, y>> \in R \/ <<y, x>> \in R
  /\ \A x, y, z \in S : <<x, y>> \in R /\ <<y, z>> \in R => <<x, z>> \in R

Place(x, S, R) == Cardinality({y \in S : <<y, x>> \in R})

\* A member's place is below the number of members, and grows with the order.
LEMMA PlacesOfMembers ==
  ASSUME NEW S, IsFiniteSet(S), NEW R, Orders(R, S)
  PROVE  /\ \A x \in S : Place(x, S, R) \in 0..(Cardinality(S) - 1)
         /\ \A x, y \in S : <<x, y>> \in R => Place(x, S, R) < Place(y, S, R)
<1>. DEFINE Before(x) == {y \in S : <<y, x>> \in R}
<1>1. \A x \in S : IsFiniteSet(Before(x)) /\ Cardinality(Before(x)) \in Nat
  <2>. TAKE x \in S
  <2>1. Before(x) \subseteq S
    OBVIOUS
  <2>. HIDE DEF Before
  <2>2. QED
    BY <2>1, FS_Subset, FS_CardinalityType
<1>2. Cardinality(S) \in Nat
  BY FS_CardinalityType
<1>3. ASSUME NEW x \in S PROVE Cardinality(Before(x)) < Cardinality(S)
  <2>1. Before(x) \subseteq S /\ x \notin Before(x)
    BY DEF Orders
  <2>. HIDE DEF Before
  <2>2. Before(x) # S
    BY <2>1
  <2>3. QED
    BY <2>1, <2>2, FS_Subset, <1>1, <1>2
<1>4. ASSUME NEW x \in S, NEW y \in S, <<x, y>> \in R
      PROVE  Cardinality(Before(x)) < Cardinality(Before(y))
  <2>1. Before(x) \subseteq Before(y) /\ x \in Before(y) /\ x \notin Before(x)
    BY <1>4 DEF Orders
  <2>. HIDE DEF Before
  <2>2. Before(x) # Before(y)
    BY <2>1
  <2>3. QED
    BY <2>1, <2>2, FS_Subset, <1>1
<1>5. \A x \in S : Place(x, S, R) = Cardinality(Before(x))
  BY DEF Place
<1>. HIDE DEF Before
<1>6. QED
  BY <1>1, <1>2, <1>3, <1>4, <1>5

\* Listed gives every member a place of its own, in the order.
LEMMA ListedLists ==
  ASSUME NEW S, IsFiniteSet(S), NEW R, Orders(R, S)
  PROVE  /\ Cardinality(S) \in Nat
         /\ Listed(S, R) \in [1..Cardinality(S) -> S]
         /\ \A x \in S : \E i \in 1..Cardinality(S) : Listed(S, R)[i] = x
         /\ \A i, j \in 1..Cardinality(S) :
              i < j => <<Listed(S, R)[i], Listed(S, R)[j]>> \in R
         /\ \A i, j \in 1..Cardinality(S) : Listed(S, R)[i] = Listed(S, R)[j] => i = j
<1>. DEFINE n == Cardinality(S)
            f == [x \in S |-> Place(x, S, R) + 1]
            L == Listed(S, R)
<1>1. n \in Nat
  BY FS_CardinalityType
<1>2. f \in [S -> 1..n]
  BY <1>1, PlacesOfMembers
<1>3. \A x, y \in S : f[x] = f[y] => x = y
  <2>1. \A x, y \in S : /\ Place(x, S, R) \in Int
                        /\ x # y => Place(x, S, R) # Place(y, S, R)
    <3>1. \A x \in S : Place(x, S, R) \in Int
      BY <1>1, PlacesOfMembers
    <3>. TAKE x \in S, y \in S
    <3>2. CASE x = y
      BY <3>1, <3>2
    <3>3. CASE <<x, y>> \in R
      BY <3>1, <3>3, PlacesOfMembers
    <3>4. CASE <<y, x>> \in R
      BY <3>1, <3>4, PlacesOfMembers
    <3>5. QED
      BY <3>2, <3>3, <3>4 DEF Orders
  <2>2. QED
    BY <2>1
<1>4. f \in Surjection(S, 1..n)
  <2>1. f \in Injection(S, 1..n)
    <3>. HIDE DEF f
    <3>1. QED
      BY <1>2, <1>3, Fun_IsInj
  <2>2. IsFiniteSet(1..n) /\ Cardinality(1..n) = n
    BY <1>1, FS_Interval
  <2>. HIDE DEF f
  <2>3. QED
    BY <2>1, <2>2, FS_Injection
<1>5. \A i \in 1..n : \E x \in S : f[x] = i
  <2>. HIDE DEF f
  <2>1. QED
    BY <1>4 DEF Surjection
<1>6. \A i \in 1..n : L[i] \in S /\ f[L[i]] = i
  <2>. TAKE i \in 1..n
  <2>1. L[i] = CHOOSE x \in S : Place(x, S, R) = i - 1
    BY DEF Listed, Place
  <2>2. \E x \in S : Place(x, S, R) = i - 1
    <3>1. PICK x \in S : f[x] = i
      BY <1>5
    <3>2. Place(x, S, R) \in Int
      BY <1>1, PlacesOfMembers
    <3>3. Place(x, S, R) = i - 1
      BY <3>1, <3>2
    <3>4. QED
      BY <3>3
  <2>3. L[i] \in S /\ Place(L[i], S, R) = i - 1
    <3>. HIDE DEF L
    <3>1. QED
      BY <2>1, <2>2
  <2>. HIDE DEF L
  <2>4. QED
    BY <2>3, <1>1
<1>7. L \in [1..n -> S]
  <2>. DEFINE g(i) == CHOOSE x \in S : Place(x, S, R) = i - 1
  <2>1. L = [i \in 1..n |-> g(i)]
    BY DEF Listed, Place
  <2>2. \A i \in 1..n : L[i] = g(i)
    BY DEF Listed, Place
  <2>. HIDE DEF L, n, g
  <2>3. QED
    BY <2>1, <2>2, <1>6
<1>8. \A x \in S : \E i \in 1..n : L[i] = x
  <2>. TAKE x \in S
  <2>1. f[x] \in 1..n
    BY <1>2
  <2>. HIDE DEF f, L
  <2>2. L[f[x]] = x
    BY <2>1, <1>3, <1>6
  <2>3. QED
    BY <2>1, <2>2
<1>9. \A i, j \in 1..n : L[i] = L[j] => i = j
  <2>. HIDE DEF f, L
  <2>1. QED
    BY <1>6
<1>10. ASSUME NEW i \in 1..n, NEW j \in 1..n, i < j
       PROVE  <<L[i], L[j]>> \in R
  <2>. DEFINE x == L[i]
              y == L[j]
  <2>1. x \in S /\ y \in S /\ f[x] = i /\ f[y] = j
    BY <1>6
  <2>2. Place(x, S, R) \in Int /\ Place(y, S, R) \in Int
    BY <2>1, <1>1, PlacesOfMembers
  <2>. HIDE DEF x, y, L
  <2>3. Place(x, S, R) < Place(y, S, R)
    BY <2>1, <2>2, <1>10
  <2>4. ~(<<y, x>> \in R)
    BY <2>1, <2>2, <2>3, PlacesOfMembers
  <2>5. x # y
    BY <2>2, <2>3
  <2>6. <<x, y>> \in R
    BY <2>1, <2>4, <2>5 DEF Orders
  <2>7. QED
    BY <2>6 DEF x, y
<1>11. QED
  BY <1>1, <1>7, <1>8, <1>9, <1>10

\* Ascending lists a finite set of numbers from the smallest up.
LEMMA AscendingLists ==
  ASSUME NEW S, S \subseteq Int, IsFiniteSet(S)
  PROVE  /\ Cardinality(S) \in Nat
         /\ Ascending(S) \in [1..Cardinality(S) -> S]
         /\ \A x \in S : \E i \in 1..Cardinality(S) : Ascending(S)[i] = x
         /\ \A i, j \in 1..Cardinality(S) : i < j => Ascending(S)[i] < Ascending(S)[j]
         /\ \A i, j \in 1..Cardinality(S) : Ascending(S)[i] = Ascending(S)[j] => i = j
<1>. DEFINE R == {e \in S \X S : e[1] < e[2]}
<1>1. \A x, y \in S : <<x, y>> \in R <=> x < y
  OBVIOUS
<1>2. Ascending(S) = Listed(S, R)
  BY DEF Ascending
<1>. HIDE DEF R
<1>3. Orders(R, S)
  BY <1>1 DEF Orders
<1>. DEFINE A == Ascending(S)
            n == Cardinality(S)
<1>4. /\ n \in Nat
      /\ A \in [1..n -> S]
      /\ \A x \in S : \E i \in 1..n : A[i] = x
      /\ \A i, j \in 1..n : i < j => <<A[i], A[j]>> \in R
      /\ \A i, j \in 1..n : A[i] = A[j] => i = j
  BY <1>2, <1>3, ListedLists
<1>. HIDE DEF A, n
<1>5. \A i, j \in 1..n : i < j => A[i] < A[j]
  BY <1>1, <1>4
<1>6. QED
  BY <1>4, <1>5 DEF A, n
=============================================================================
