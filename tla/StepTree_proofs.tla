---------------------------- MODULE StepTree_proofs ----------------------------
(***************************************************************************)
(* What the files of a step promise, for any include list, any tree, any   *)
(* number of names and remotes and however these change meanwhile.         *)
(*                                                                         *)
(* Of the walk the invariant says what each include it has passed gave and *)
(* that the list has every path of it, once and from the first include     *)
(* that gave it (ListOK), and that what a remote gave is of the snapshot   *)
(* the cache holds, the only one this command ever took (CacheOK,          *)
(* RemoteOK). Of the sort: the comparator is an order where *)
(* names parse, an insertion keeps a list in order and loses nothing, and  *)
(* the folds of a list are a chain of insertions.                          *)
(***************************************************************************)
EXTENDS StepTree, Listing_proofs, SequenceTheorems, TLAPS

-----------------------------------------------------------------------------
(* The greatest and the least of a set of naturals *)

\* A bounded one that is not empty has a greatest element, and Max picks it.
LEMMA MaxIsGreatest ==
  ASSUME NEW n \in Nat, NEW S, S \subseteq 0..n, S # {}
  PROVE  Max(S) \in S /\ \A y \in S : y <= Max(S)
<1>. DEFINE U == {u \in Nat : \A y \in S : y <= u}
<1>1. n \in U
  OBVIOUS
<1>2. PICK u \in U : \A v \in U : u <= v
  <2>1. U \subseteq Nat
    OBVIOUS
  <2>. HIDE DEF U
  <2>2. QED
    BY <1>1, <2>1, LeastNatural
<1>3. u \in S
  <2>1. SUFFICES ASSUME u \notin S PROVE FALSE
    OBVIOUS
  <2>2. \A y \in S : y \in Nat /\ y <= u - 1
    BY <2>1
  <2>3. u - 1 \in Nat
    <3>1. PICK y \in S : TRUE
      OBVIOUS
    <3>2. y \in Nat /\ y <= u - 1 /\ u \in Nat
      BY <2>2
    <3>3. QED
      BY <3>2
  <2>4. u - 1 \in U
    BY <2>2, <2>3
  <2>5. QED
    BY <1>2, <2>3, <2>4
<1>4. \A y \in S : y <= u
  OBVIOUS
<1>5. \E x \in S : \A y \in S : x >= y
  BY <1>3, <1>4
<1>6. QED
  BY <1>5 DEF Max

\* Min picks the least.
LEMMA MinIsLeast ==
  ASSUME NEW S, S \subseteq Nat, S # {}
  PROVE  Min(S) \in S /\ \A y \in S : Min(S) <= y
BY LeastNatural DEF Min

-----------------------------------------------------------------------------
(* The order of versions *)

\* The first component that differs is smaller in a.
Precedes(a, b) ==
  \E k \in Nat \ {0} : /\ Component(a, k) < Component(b, k)
                       /\ \A j \in 1..(k - 1) : Component(a, j) = Component(b, j)

LEMMA ComponentType ==
  ASSUME NEW v \in Seq(Nat), NEW k \in Nat \ {0}
  PROVE  /\ Component(v, k) \in Int
         /\ Component(v, k) >= -1
         /\ Component(v, k) = -1 <=> k > Len(v)
BY DEF Component

\* Versions that agree in every component are the same.
LEMMA SameComponents ==
  ASSUME NEW a \in Seq(Nat), NEW b \in Seq(Nat),
         \A k \in Nat \ {0} : Component(a, k) = Component(b, k)
  PROVE  a = b
<1>1. Len(a) \in Nat /\ Len(b) \in Nat
  OBVIOUS
<1>2. Len(a) = Len(b)
  <2>1. CASE Len(a) < Len(b)
    <3>1. Component(a, Len(b)) = -1 /\ Component(b, Len(b)) # -1
      BY <1>1, <2>1, ComponentType
    <3>2. QED
      BY <1>1, <2>1, <3>1
  <2>2. CASE Len(b) < Len(a)
    <3>1. Component(b, Len(a)) = -1 /\ Component(a, Len(a)) # -1
      BY <1>1, <2>2, ComponentType
    <3>2. QED
      BY <1>1, <2>2, <3>1
  <2>3. QED
    BY <1>1, <2>1, <2>2
<1>3. \A k \in 1..Len(a) : a[k] = b[k]
  BY <1>1, <1>2 DEF Component
<1>4. QED
  BY <1>2, <1>3, SeqEqual

\* Of two versions one precedes the other, unless they are the same.
LEMMA PrecedesIsTotal ==
  ASSUME NEW a \in Seq(Nat), NEW b \in Seq(Nat), a # b
  PROVE  Precedes(a, b) \/ Precedes(b, a)
<1>. DEFINE D == {k \in Nat \ {0} : Component(a, k) # Component(b, k)}
<1>1. D # {}
  BY SameComponents
<1>2. PICK k \in D : \A j \in D : k <= j
  <2>1. D \subseteq Nat
    OBVIOUS
  <2>. HIDE DEF D
  <2>2. QED
    BY <1>1, <2>1, LeastNatural
<1>3. k \in Nat \ {0} /\ \A j \in 1..(k - 1) : Component(a, j) = Component(b, j)
  BY <1>2
<1>4. Component(a, k) < Component(b, k) \/ Component(b, k) < Component(a, k)
  BY ComponentType
<1>5. QED
  BY <1>3, <1>4 DEF Precedes

LEMMA PrecedesIsAsymmetric ==
  ASSUME NEW a \in Seq(Nat), NEW b \in Seq(Nat), Precedes(a, b), Precedes(b, a)
  PROVE  FALSE
<1>1. PICK k \in Nat \ {0} : /\ Component(a, k) < Component(b, k)
                            /\ \A j \in 1..(k - 1) : Component(a, j) = Component(b, j)
  BY DEF Precedes
<1>2. PICK l \in Nat \ {0} : /\ Component(b, l) < Component(a, l)
                            /\ \A j \in 1..(l - 1) : Component(b, j) = Component(a, j)
  BY DEF Precedes
<1>3. /\ Component(a, k) \in Int /\ Component(b, k) \in Int
      /\ Component(a, l) \in Int /\ Component(b, l) \in Int
  BY ComponentType
<1>4. CASE k < l
  BY <1>1, <1>2, <1>3, <1>4
<1>5. CASE l < k
  BY <1>1, <1>2, <1>3, <1>5
<1>6. CASE k = l
  BY <1>1, <1>2, <1>3, <1>6
<1>7. QED
  BY <1>4, <1>5, <1>6

LEMMA PrecedesIsTransitive ==
  ASSUME NEW a \in Seq(Nat), NEW b \in Seq(Nat), NEW c \in Seq(Nat),
         Precedes(a, b), Precedes(b, c)
  PROVE  Precedes(a, c)
<1>1. PICK k \in Nat \ {0} : /\ Component(a, k) < Component(b, k)
                            /\ \A j \in 1..(k - 1) : Component(a, j) = Component(b, j)
  BY DEF Precedes
<1>2. PICK l \in Nat \ {0} : /\ Component(b, l) < Component(c, l)
                            /\ \A j \in 1..(l - 1) : Component(b, j) = Component(c, j)
  BY DEF Precedes
<1>3. \A j \in Nat \ {0} : /\ Component(a, j) \in Int /\ Component(b, j) \in Int
                           /\ Component(c, j) \in Int
  BY ComponentType
<1>4. CASE k <= l
  <2>1. Component(a, k) < Component(c, k)
    <3>1. k = l \/ k \in 1..(l - 1)
      BY <1>4
    <3>2. Component(b, k) <= Component(c, k)
      BY <1>2, <1>3, <3>1
    <3>3. QED
      BY <1>1, <1>3, <3>2
  <2>2. \A j \in 1..(k - 1) : Component(a, j) = Component(c, j)
    BY <1>1, <1>2, <1>3, <1>4
  <2>3. QED
    BY <2>1, <2>2 DEF Precedes
<1>5. CASE l < k
  <2>1. Component(a, l) < Component(c, l)
    BY <1>1, <1>2, <1>3, <1>5
  <2>2. \A j \in 1..(l - 1) : Component(a, j) = Component(c, j)
    BY <1>1, <1>2, <1>3, <1>5
  <2>3. QED
    BY <2>1, <2>2 DEF Precedes
<1>6. QED
  BY <1>4, <1>5

\* CompareVersion decides it.
LEMMA CompareDecides ==
  ASSUME NEW a \in Seq(Nat), NEW b \in Seq(Nat)
  PROVE  /\ CompareVersion(a, b) \in {-1, 0, 1}
         /\ CompareVersion(a, b) < 0 <=> Precedes(a, b)
         /\ CompareVersion(a, b) = 0 <=> a = b
<1>. DEFINE D == {k \in 1..Len(a) \cup 1..Len(b) : Component(a, k) # Component(b, k)}
<1>1. Len(a) \in Nat /\ Len(b) \in Nat /\ D \subseteq Nat \ {0}
  OBVIOUS
<1>2. \A k \in Nat \ {0} : Component(a, k) # Component(b, k) => k \in D
  BY <1>1 DEF Component
<1>3. CompareVersion(a, b) = IF D = {} THEN 0
        ELSE IF Component(a, Min(D)) < Component(b, Min(D)) THEN -1 ELSE 1
  BY DEF CompareVersion
<1>. HIDE DEF D
<1>4. CASE D = {}
  <2>1. a = b
    BY <1>2, <1>4, SameComponents
  <2>2. ~Precedes(a, b)
    BY <2>1, PrecedesIsAsymmetric
  <2>3. QED
    BY <1>3, <1>4, <2>1, <2>2
<1>5. CASE D # {}
  <2>. DEFINE m == Min(D)
  <2>1. m \in D /\ \A j \in D : m <= j
    BY <1>1, <1>5, MinIsLeast
  <2>2. m \in Nat \ {0} /\ \A j \in 1..(m - 1) : Component(a, j) = Component(b, j)
    <3>1. m \in Nat \ {0}
      BY <1>1, <2>1
    <3>. HIDE DEF m
    <3>2. \A j \in 1..(m - 1) : j \in Nat \ {0} /\ j \notin D
      BY <2>1, <3>1
    <3>3. QED
      BY <1>2, <3>1, <3>2
  <2>3. Component(a, m) # Component(b, m)
    BY <2>1 DEF D
  <2>4. Component(a, m) \in Int /\ Component(b, m) \in Int
    BY <2>2, ComponentType
  <2>5. a # b
    BY <2>3
  <2>. HIDE DEF m
  <2>6. CASE Component(a, m) < Component(b, m)
    <3>1. Precedes(a, b)
      BY <2>2, <2>6 DEF Precedes
    <3>2. QED
      BY <1>3, <1>5, <2>5, <2>6, <3>1 DEF m
  <2>7. CASE Component(b, m) < Component(a, m)
    <3>1. Precedes(b, a)
      BY <2>2, <2>7 DEF Precedes
    <3>2. ~Precedes(a, b)
      BY <3>1, PrecedesIsAsymmetric
    <3>3. ~(Component(a, m) < Component(b, m))
      BY <2>4, <2>7
    <3>4. QED
      BY <1>3, <1>5, <2>5, <3>2, <3>3 DEF m
  <2>8. QED
    BY <2>3, <2>4, <2>6, <2>7
<1>6. QED
  BY <1>4, <1>5

\* It is the order of versions that SortedByVersion speaks of.
LEMMA PrecedesIsLess ==
  ASSUME NEW a \in Seq(Nat), NEW b \in Seq(Nat), Precedes(a, b)
  PROVE  Less(a, b)
<1>1. PICK k \in Nat \ {0} : /\ Component(a, k) < Component(b, k)
                            /\ \A j \in 1..(k - 1) : Component(a, j) = Component(b, j)
  BY DEF Precedes
<1>2. Len(a) \in Nat /\ Len(b) \in Nat
  OBVIOUS
<1>3. k <= Len(b)
  BY <1>1, <1>2, ComponentType
<1>4. CASE k <= Len(a)
  <2>1. a[k] < b[k] /\ \A j \in 1..(k - 1) : a[j] = b[j]
    BY <1>1, <1>2, <1>3, <1>4 DEF Component
  <2>2. QED
    BY <1>2, <1>3, <1>4, <2>1 DEF Less
<1>5. CASE k > Len(a)
  <2>1. \A j \in 1..Len(a) : a[j] = b[j]
    BY <1>1, <1>2, <1>3, <1>5 DEF Component
  <2>2. QED
    BY <1>2, <1>3, <1>5, <2>1 DEF Less
<1>6. QED
  BY <1>2, <1>4, <1>5

LEMMA LessIsIrreflexive ==
  ASSUME NEW a \in Seq(Nat)
  PROVE  ~Less(a, a)
BY DEF Less

-----------------------------------------------------------------------------
(* The order of files *)

Rels == [dir : Folders \cup STRING \cup {"."}, name : Names \cup {0}]
Entries == [rel : Rels, name : Names, from : Nat]
Parsed(f) == Version[f.name] # <<>>

LEMMA EntryNames == \A f \in Entries : f.name \in Names /\ f.name \in Int
<1>1. \A f \in Entries : f.name \in Names
  BY DEF Entries
<1>2. \A x \in Names : x \in Int
  BY StepTreeAssumption
<1>3. QED
  BY <1>1, <1>2, Zenon

LEMMA FileLessDecides ==
  ASSUME NEW f \in Entries, NEW g \in Entries, Parsed(f), Parsed(g)
  PROVE  LET v == Version[f.name]
             w == Version[g.name]
         IN  /\ v \in Seq(Nat) /\ w \in Seq(Nat)
             /\ v # w => (FileLess(f, g) <=> Precedes(v, w))
             /\ v = w => (FileLess(f, g) <=> f.name < g.name)
<1>. DEFINE v == Version[f.name]
            w == Version[g.name]
<1>1. v \in Seq(Nat) /\ w \in Seq(Nat)
  BY StepTreeAssumption DEF Entries
<1>2. FileLess(f, g) <=> IF CompareVersion(v, w) # 0 THEN CompareVersion(v, w) < 0
                                                     ELSE f.name < g.name
  BY DEF FileLess, Parsed
<1>. HIDE DEF v, w
<1>3. /\ v # w => (FileLess(f, g) <=> Precedes(v, w))
      /\ v = w => (FileLess(f, g) <=> f.name < g.name)
  BY <1>1, <1>2, CompareDecides
<1>4. QED
  BY <1>1, <1>3 DEF v, w

\* Names that parse are in a strict order, and what is not greater can be chained.
LEMMA FileLessIsAsymmetric ==
  ASSUME NEW f \in Entries, NEW g \in Entries, Parsed(f), Parsed(g), FileLess(f, g)
  PROVE  ~FileLess(g, f)
<1>. DEFINE v == Version[f.name]
            w == Version[g.name]
<1>1. f.name \in Int /\ g.name \in Int
  BY EntryNames
<1>2. /\ v \in Seq(Nat) /\ w \in Seq(Nat)
      /\ v # w => Precedes(v, w) /\ (FileLess(g, f) <=> Precedes(w, v))
      /\ v = w => f.name < g.name /\ (FileLess(g, f) <=> g.name < f.name)
  BY FileLessDecides
<1>. HIDE DEF v, w
<1>3. CASE v = w
  BY <1>1, <1>2, <1>3
<1>4. CASE v # w
  BY <1>2, <1>4, PrecedesIsAsymmetric
<1>5. QED
  BY <1>3, <1>4

LEMMA NotGreaterIsTransitive ==
  ASSUME NEW f \in Entries, NEW g \in Entries, NEW h \in Entries,
         Parsed(f), Parsed(g), Parsed(h), ~FileLess(g, f), ~FileLess(h, g)
  PROVE  ~FileLess(h, f)
<1>. DEFINE u == Version[f.name]
            v == Version[g.name]
            w == Version[h.name]
<1>1. f.name \in Int /\ g.name \in Int /\ h.name \in Int
  BY EntryNames
<1>2. /\ u \in Seq(Nat) /\ v \in Seq(Nat) /\ w \in Seq(Nat)
      /\ u # v => ~Precedes(v, u)
      /\ u = v => ~(g.name < f.name)
      /\ v # w => ~Precedes(w, v)
      /\ v = w => ~(h.name < g.name)
      /\ u # w => (FileLess(h, f) <=> Precedes(w, u))
      /\ u = w => (FileLess(h, f) <=> h.name < f.name)
  BY FileLessDecides
<1>. HIDE DEF u, v, w
<1>3. CASE u = v /\ v = w
  BY <1>1, <1>2, <1>3
<1>4. CASE u = v /\ v # w
  BY <1>2, <1>4
<1>5. CASE u # v /\ v = w
  BY <1>2, <1>5
<1>6. CASE u # v /\ v # w
  <2>1. Precedes(u, v) /\ Precedes(v, w)
    BY <1>2, <1>6, PrecedesIsTotal
  <2>2. Precedes(u, w)
    BY <1>2, <2>1, PrecedesIsTransitive
  <2>3. ~Precedes(w, u) /\ u # w
    BY <1>2, <2>2, PrecedesIsAsymmetric
  <2>4. QED
    BY <1>2, <2>3
<1>7. QED
  BY <1>3, <1>4, <1>5, <1>6

\* What the sort needs of its comparator holds among files whose names parse: it is a
\* strict order, and files it does not tell apart are alike to every other.
THEOREM FilesAreOrdered ==
  ASSUME NEW f \in Entries, NEW g \in Entries, NEW h \in Entries,
         Parsed(f), Parsed(g), Parsed(h)
  PROVE  /\ FileLess(f, g) => ~FileLess(g, f)
         /\ FileLess(f, g) /\ FileLess(g, h) => FileLess(f, h)
         /\ ~FileLess(f, g) /\ ~FileLess(g, f) => (FileLess(f, h) <=> FileLess(g, h))
<1>1. FileLess(f, g) => ~FileLess(g, f)
  BY FileLessIsAsymmetric
<1>2. ASSUME FileLess(f, g), FileLess(g, h) PROVE FileLess(f, h)
  <2>1. ~FileLess(h, g)
    BY <1>2, FileLessIsAsymmetric
  <2>2. ~FileLess(f, h) => ~FileLess(f, g)
    BY <2>1, NotGreaterIsTransitive
  <2>3. QED
    BY <1>2, <2>2
<1>3. ASSUME ~FileLess(f, g), ~FileLess(g, f) PROVE FileLess(f, h) <=> FileLess(g, h)
  <2>1. ~FileLess(f, h) => ~FileLess(g, h)
    BY <1>3, NotGreaterIsTransitive
  <2>2. ~FileLess(g, h) => ~FileLess(f, h)
    BY <1>3, NotGreaterIsTransitive
  <2>3. QED
    BY <2>1, <2>2
<1>4. QED
  BY <1>1, <1>2, <1>3

-----------------------------------------------------------------------------
(* Sorting *)

\* SortIn puts f behind a first part of s whose last is not greater.
LEMMA SortInInserts ==
  ASSUME NEW X, NEW s \in Seq(X), NEW f \in X
  PROVE  \E k \in 0..Len(s) :
           /\ SortIn(s, f) = [i \in 1..(Len(s) + 1) |->
                               IF i <= k THEN s[i] ELSE IF i = k + 1 THEN f ELSE s[i - 1]]
           /\ k # 0 => ~FileLess(f, s[k])
           /\ \A i \in (k + 1)..Len(s) : FileLess(f, s[i])
<1>. DEFINE n == Len(s)
            B == {0} \cup {i \in 1..n : ~FileLess(f, s[i])}
            k == Max(B)
            t == [i \in 1..(n + 1) |->
                    IF i <= k THEN s[i] ELSE IF i = k + 1 THEN f ELSE s[i - 1]]
<1>1. n \in Nat /\ B \subseteq 0..n /\ B # {}
  OBVIOUS
<1>2. k \in B /\ \A i \in B : i <= k
  <2>. HIDE DEF B, n
  <2>1. QED
    BY <1>1, MaxIsGreatest
<1>3. k \in 0..n
  BY <1>1, <1>2
<1>4. SortIn(s, f) = SubSeq(s, 1, k) \o <<f>> \o SubSeq(s, k + 1, n)
  <2>1. SortIn(s, f) = InsertAt(s, k + 1, f)
    BY DEF SortIn
  <2>2. k = (k + 1) - 1
    BY <1>3
  <2>. HIDE DEF k
  <2>3. \A j, l : l = j - 1 => InsertAt(s, j, f) = SubSeq(s, 1, l) \o <<f>> \o SubSeq(s, j, n)
    BY DEF InsertAt
  <2>4. InsertAt(s, k + 1, f) = SubSeq(s, 1, k) \o <<f>> \o SubSeq(s, k + 1, n)
    BY <2>2, <2>3
  <2>5. QED
    BY <2>1, <2>4
<1>5. k # 0 => ~FileLess(f, s[k])
  <2>. HIDE DEF k
  <2>1. QED
    BY <1>2
<1>6. \A i \in (k + 1)..n : FileLess(f, s[i])
  <2>. HIDE DEF k
  <2>1. QED
    BY <1>1, <1>2, <1>3
<1>. HIDE DEF k, B
<1>7. SubSeq(s, 1, k) \o <<f>> \o SubSeq(s, k + 1, n) = t
  <2>. DEFINE a == SubSeq(s, 1, k)
              b == SubSeq(s, k + 1, n)
  <2>1. /\ a \in Seq(X) /\ Len(a) = k /\ \A i \in 1..k : a[i] = s[i]
    BY <1>3
  <2>2. /\ b \in Seq(X) /\ Len(b) = n - k /\ \A i \in 1..(n - k) : b[i] = s[k + i]
    BY <1>3
  <2>3. <<f>> \in Seq(X) /\ Len(<<f>>) = 1 /\ <<f>>[1] = f
    OBVIOUS
  <2>. HIDE DEF a, b
  <2>. DEFINE c == a \o <<f>>
              u == c \o b
  <2>4. /\ c \in Seq(X) /\ Len(c) = k + 1
        /\ \A i \in 1..(k + 1) : c[i] = IF i <= k THEN s[i] ELSE f
    BY <1>3, <2>1, <2>3, ConcatProperties
  <2>. HIDE DEF c
  <2>5. /\ u \in Seq(X) /\ Len(u) = n + 1
        /\ \A i \in 1..(n + 1) : u[i] = IF i <= k + 1 THEN c[i] ELSE b[i - (k + 1)]
    <3>1. /\ u \in Seq(X) /\ Len(u) = Len(c) + Len(b)
          /\ \A i \in 1..(Len(c) + Len(b)) :
               u[i] = IF i <= Len(c) THEN c[i] ELSE b[i - Len(c)]
      BY <2>2, <2>4, ConcatProperties
    <3>2. Len(c) + Len(b) = n + 1
      BY <1>1, <1>3, <2>2, <2>4
    <3>. HIDE DEF u
    <3>3. QED
      BY <2>4, <3>1, <3>2
  <2>. HIDE DEF u
  <2>6. \A i \in 1..(n + 1) :
          u[i] = IF i <= k THEN s[i] ELSE IF i = k + 1 THEN f ELSE s[i - 1]
    <3>. TAKE i \in 1..(n + 1)
    <3>1. CASE i <= k
      BY <1>1, <1>3, <2>4, <2>5, <3>1
    <3>2. CASE i = k + 1
      BY <1>1, <1>3, <2>4, <2>5, <3>2
    <3>3. CASE i > k + 1
      <4>1. i - (k + 1) \in 1..(n - k) /\ k + (i - (k + 1)) = i - 1
        BY <1>1, <1>3, <3>3
      <4>2. u[i] = b[i - (k + 1)]
        BY <1>1, <1>3, <2>5, <3>3
      <4>3. b[i - (k + 1)] = s[i - 1]
        BY <2>2, <4>1
      <4>4. ~(i <= k) /\ i # k + 1
        BY <1>3, <3>3
      <4>5. QED
        BY <4>2, <4>3, <4>4
    <3>4. QED
      BY <1>3, <3>1, <3>2, <3>3
  <2>7. u = [i \in 1..(n + 1) |-> u[i]]
    BY <1>1, <2>5
  <2>8. u = t
    BY <2>6, <2>7
  <2>9. QED
    BY <2>8 DEF u, c, a, b
<1>8. QED
  BY <1>3, <1>4, <1>5, <1>6, <1>7

\* Nothing is lost, nothing is added, and what was listed once is listed once.
LEMMA SortInKeeps ==
  ASSUME NEW X, NEW s \in Seq(X), NEW f \in X
  PROVE  LET t == SortIn(s, f) IN
           /\ t \in Seq(X) /\ Len(t) = Len(s) + 1
           /\ \A i \in 1..Len(s) : \E j \in 1..Len(t) : t[j] = s[i]
           /\ \E j \in 1..Len(t) : t[j] = f
           /\ \A j \in 1..Len(t) : t[j] = f \/ \E i \in 1..Len(s) : t[j] = s[i]
           /\ (\A i, j \in 1..Len(s) : s[i] = s[j] => i = j) /\ (\A i \in 1..Len(s) : s[i] # f)
                => \A i, j \in 1..Len(t) : t[i] = t[j] => i = j
<1>. DEFINE n == Len(s)
            t == SortIn(s, f)
<1>1. PICK k \in 0..n :
        t = [i \in 1..(n + 1) |-> IF i <= k THEN s[i] ELSE IF i = k + 1 THEN f ELSE s[i - 1]]
  BY SortInInserts
<1>2. n \in Nat /\ \A i \in 1..n : s[i] \in X
  OBVIOUS
<1>. HIDE DEF t, n
<1>3. \A i \in 1..(n + 1) : /\ i <= k => t[i] = s[i]
                            /\ i = k + 1 => t[i] = f
                            /\ i > k + 1 => t[i] = s[i - 1] /\ i - 1 \in 1..n
  BY <1>1, <1>2
<1>4. t \in [1..(n + 1) -> X]
  BY <1>1, <1>2
<1>5. t \in Seq(X) /\ Len(t) = n + 1
  BY <1>2, <1>4
<1>6. \A i \in 1..n : \E j \in 1..(n + 1) : t[j] = s[i]
  <2>. TAKE i \in 1..n
  <2>1. CASE i <= k
    <3>1. i \in 1..(n + 1) /\ t[i] = s[i]
      BY <1>2, <1>3, <2>1
    <3>2. QED
      BY <3>1
  <2>2. CASE i > k
    <3>1. i + 1 \in 1..(n + 1) /\ i + 1 > k + 1 /\ (i + 1) - 1 = i
      BY <1>2, <2>2
    <3>2. t[i + 1] = s[i]
      BY <1>3, <3>1
    <3>3. QED
      BY <3>1, <3>2
  <2>3. QED
    BY <2>1, <2>2
<1>7. k + 1 \in 1..(n + 1) /\ t[k + 1] = f
  BY <1>2, <1>3
<1>8. \A j \in 1..(n + 1) : t[j] = f \/ \E i \in 1..n : t[j] = s[i]
  <2>. TAKE j \in 1..(n + 1)
  <2>1. CASE j <= k
    <3>1. j \in 1..n /\ t[j] = s[j]
      BY <1>2, <1>3, <2>1
    <3>2. QED
      BY <3>1
  <2>2. CASE j = k + 1
    BY <1>3, <2>2
  <2>3. CASE j > k + 1
    <3>1. j - 1 \in 1..n /\ t[j] = s[j - 1]
      BY <1>3, <2>3
    <3>2. QED
      BY <3>1
  <2>4. QED
    BY <1>2, <2>1, <2>2, <2>3
<1>9. ASSUME \A i, j \in 1..n : s[i] = s[j] => i = j, \A i \in 1..n : s[i] # f,
             NEW i \in 1..(n + 1), NEW j \in 1..(n + 1), t[i] = t[j]
      PROVE  i = j
  <2>. DEFINE Old(x) == IF x <= k THEN x ELSE x - 1
  <2>1. \A x \in 1..(n + 1) : x # k + 1 => Old(x) \in 1..n /\ t[x] = s[Old(x)]
    BY <1>2, <1>3
  <2>2. CASE i # k + 1 /\ j # k + 1
    <3>1. Old(i) = Old(j)
      <4>. HIDE DEF Old
      <4>1. QED
        BY <1>9, <2>1, <2>2
    <3>2. QED
      BY <2>2, <3>1
  <2>3. CASE i = k + 1 /\ j # k + 1
    <3>. HIDE DEF Old
    <3>1. QED
      BY <1>9, <1>7, <2>1, <2>3
  <2>4. CASE i # k + 1 /\ j = k + 1
    <3>. HIDE DEF Old
    <3>1. QED
      BY <1>9, <1>7, <2>1, <2>4
  <2>5. QED
    BY <2>2, <2>3, <2>4
<1>10. QED
  BY <1>5, <1>6, <1>7, <1>8, <1>9 DEF t, n

\* s is in the order of FileLess.
InFileOrder(s) == \A i, j \in 1..Len(s) : i < j => ~FileLess(s[j], s[i])

\* A file that parses goes into a sorted list of such files at its place.
LEMMA SortInOrders ==
  ASSUME NEW s \in Seq(Entries), NEW f \in Entries, Parsed(f),
         \A i \in 1..Len(s) : Parsed(s[i]), InFileOrder(s)
  PROVE  InFileOrder(SortIn(s, f))
<1>. DEFINE n == Len(s)
            t == SortIn(s, f)
<1>1. PICK k \in 0..n :
        /\ t = [i \in 1..(n + 1) |-> IF i <= k THEN s[i] ELSE IF i = k + 1 THEN f ELSE s[i - 1]]
        /\ k # 0 => ~FileLess(f, s[k])
        /\ \A i \in (k + 1)..n : FileLess(f, s[i])
  BY SortInInserts
<1>2. /\ n \in Nat /\ Len(t) = n + 1
      /\ \A i \in 1..n : s[i] \in Entries /\ Parsed(s[i])
      /\ \A i, j \in 1..n : i < j => ~FileLess(s[j], s[i])
  <2>1. Len(t) = n + 1
    BY SortInKeeps
  <2>2. n \in Nat /\ \A i \in 1..n : s[i] \in Entries /\ Parsed(s[i])
    OBVIOUS
  <2>3. QED
    BY <2>1, <2>2 DEF InFileOrder
<1>. HIDE DEF t, n
<1>3. \A i \in 1..k : i \in 1..n /\ ~FileLess(f, s[i])
  <2>. TAKE i \in 1..k
  <2>1. i \in 1..n /\ k \in 1..n /\ ~FileLess(f, s[k])
    BY <1>1, <1>2
  <2>2. CASE i = k
    BY <2>1, <2>2
  <2>3. CASE i < k
    <3>1. ~FileLess(s[k], s[i])
      BY <1>2, <2>1, <2>3
    <3>2. QED
      BY <1>2, <2>1, <3>1, NotGreaterIsTransitive
  <2>4. QED
    BY <2>1, <2>2, <2>3
<1>4. \A i \in (k + 1)..n : i \in 1..n /\ ~FileLess(s[i], f)
  <2>. TAKE i \in (k + 1)..n
  <2>1. i \in 1..n /\ FileLess(f, s[i])
    BY <1>1, <1>2
  <2>2. QED
    BY <1>2, <2>1, FileLessIsAsymmetric
<1>5. ASSUME NEW i \in 1..(n + 1), NEW j \in 1..(n + 1), i < j
      PROVE  ~FileLess(t[j], t[i])
  <2>1. \A x \in 1..(n + 1) : /\ x <= k => t[x] = s[x] /\ x \in 1..k
                              /\ x = k + 1 => t[x] = f
                              /\ x > k + 1 => t[x] = s[x - 1] /\ x - 1 \in (k + 1)..n
    BY <1>1, <1>2
  <2>2. CASE j <= k
    <3>1. i \in 1..n /\ j \in 1..n /\ t[i] = s[i] /\ t[j] = s[j]
      BY <1>2, <1>5, <2>1, <2>2
    <3>2. QED
      BY <1>2, <1>5, <3>1
  <2>3. CASE j = k + 1
    <3>1. t[j] = f /\ t[i] = s[i] /\ i \in 1..k
      BY <1>5, <2>1, <2>3
    <3>2. QED
      BY <1>3, <3>1
  <2>4. CASE j > k + 1 /\ i = k + 1
    <3>1. t[j] = s[j - 1] /\ j - 1 \in (k + 1)..n /\ t[i] = f
      BY <2>1, <2>4
    <3>2. QED
      BY <1>4, <3>1
  <2>5. CASE j > k + 1 /\ i <= k
    <3>1. t[j] = s[j - 1] /\ j - 1 \in 1..n /\ t[i] = s[i] /\ i \in 1..n /\ i < j - 1
      BY <1>2, <2>1, <2>5
    <3>2. QED
      BY <1>2, <3>1
  <2>6. CASE j > k + 1 /\ i > k + 1
    <3>1. /\ t[j] = s[j - 1] /\ j - 1 \in 1..n
          /\ t[i] = s[i - 1] /\ i - 1 \in 1..n /\ i - 1 < j - 1
      BY <1>2, <1>5, <2>1, <2>6
    <3>2. QED
      BY <1>2, <3>1
  <2>7. QED
    BY <1>2, <2>2, <2>3, <2>4, <2>5, <2>6
<1>6. QED
  BY <1>2, <1>5 DEF InFileOrder, t

\* The function SortFiles is defined by exists.
LEMMA SortedExists ==
  ASSUME NEW s, NEW m \in Nat
  PROVE  \E g : g = [n \in 0..m |-> IF n = 0 THEN <<>> ELSE SortIn(g[n - 1], s[n])]
<1>. DEFINE Def(g, l) == g = [n \in 0..l |-> IF n = 0 THEN <<>> ELSE SortIn(g[n - 1], s[n])]
            S == {l \in Nat : \E g : Def(g, l)}
<1>1. 0 \in S
  <2>. DEFINE g == [n \in 0..0 |-> <<>>]
  <2>1. g = [n \in 0..0 |-> IF n = 0 THEN <<>> ELSE SortIn(g[n - 1], s[n])]
    OBVIOUS
  <2>. HIDE DEF g
  <2>2. QED
    BY <2>1
<1>2. ASSUME NEW l \in Nat, l \in S PROVE l + 1 \in S
  <2>1. PICK g : Def(g, l)
    BY <1>2
  <2>. DEFINE h == [n \in 0..(l + 1) |-> IF n = l + 1 THEN SortIn(g[l], s[l + 1]) ELSE g[n]]
              e(n) == IF n = 0 THEN <<>> ELSE SortIn(h[n - 1], s[n])
  <2>2. /\ \A n \in 0..l : h[n] = g[n]
        /\ h[l + 1] = SortIn(g[l], s[l + 1])
    OBVIOUS
  <2>3. \A n \in 0..l : g[n] = IF n = 0 THEN <<>> ELSE SortIn(g[n - 1], s[n])
    BY <2>1, Zenon
  <2>4. h = [n \in 0..(l + 1) |-> h[n]]
    OBVIOUS
  <2>. HIDE DEF h
  <2>5. \A n \in 0..(l + 1) : h[n] = e(n)
    <3>. TAKE n \in 0..(l + 1)
    <3>1. CASE n = 0
      BY <2>2, <2>3, <3>1
    <3>2. CASE n \in 1..l
      <4>1. h[n] = g[n] /\ h[n - 1] = g[n - 1] /\ n # 0 /\ n \in 0..l
        BY <2>2, <3>2
      <4>2. QED
        BY <2>3, <4>1
    <3>3. CASE n = l + 1
      <4>1. h[l] = g[l] /\ n # 0 /\ n - 1 = l
        BY <2>2, <3>3
      <4>2. QED
        BY <2>2, <3>3, <4>1
    <3>4. QED
      BY <3>1, <3>2, <3>3
  <2>6. h = [n \in 0..(l + 1) |-> e(n)]
    <3>. HIDE DEF e
    <3>1. QED
      BY <2>4, <2>5, Zenon
  <2>7. Def(h, l + 1)
    BY <2>6
  <2>. HIDE DEF Def
  <2>8. QED
    BY <2>7
<1>3. m \in S
  <2>. HIDE DEF S
  <2>1. QED
    BY <1>1, <1>2, AllNaturals
<1>4. QED
  BY <1>3

\* SortFiles takes the files of s one after the other.
LEMMA SortFilesFolds ==
  ASSUME NEW X, NEW s \in Seq(X)
  PROVE  \E g : /\ g[0] = <<>>
                /\ \A n \in 1..Len(s) : g[n] = SortIn(g[n - 1], s[n])
                /\ SortFiles(s) = g[Len(s)]
<1>. DEFINE Def(g) == g = [n \in 0..Len(s) |-> IF n = 0 THEN <<>> ELSE SortIn(g[n - 1], s[n])]
            g == CHOOSE g : Def(g)
<1>1. Len(s) \in Nat
  OBVIOUS
<1>2. Def(g)
  <2>1. \E h : Def(h)
    BY <1>1, SortedExists
  <2>. HIDE DEF Def
  <2>2. QED
    BY <2>1
<1>3. SortFiles(s) = g[Len(s)]
  BY DEF SortFiles
<1>. HIDE DEF g
<1>4. \A n \in 0..Len(s) : g[n] = IF n = 0 THEN <<>> ELSE SortIn(g[n - 1], s[n])
  BY <1>2, Zenon
<1>5. g[0] = <<>> /\ \A n \in 1..Len(s) : g[n] = SortIn(g[n - 1], s[n])
  BY <1>1, <1>4
<1>6. QED
  BY <1>3, <1>5

\* The sorted list has the files of s, each as often, in the order of FileLess when
\* they all parse.
LEMMA SortFilesSorts ==
  ASSUME NEW s \in Seq(Entries)
  PROVE  LET t == SortFiles(s) IN
           /\ t \in Seq(Entries) /\ Len(t) = Len(s)
           /\ \A i \in 1..Len(s) : \E j \in 1..Len(t) : t[j] = s[i]
           /\ \A j \in 1..Len(t) : \E i \in 1..Len(s) : t[j] = s[i]
           /\ (\A i, j \in 1..Len(s) : s[i] = s[j] => i = j)
                => \A i, j \in 1..Len(t) : t[i] = t[j] => i = j
           /\ (\A i \in 1..Len(s) : Parsed(s[i])) => InFileOrder(t)
<1>. DEFINE m == Len(s)
<1>1. m \in Nat /\ \A i \in 1..m : s[i] \in Entries
  OBVIOUS
<1>2. PICK g : /\ g[0] = <<>>
               /\ \A n \in 1..m : g[n] = SortIn(g[n - 1], s[n])
               /\ SortFiles(s) = g[m]
  BY SortFilesFolds
<1>. DEFINE Typed(t, n) == t \in Seq(Entries) /\ Len(t) = n
            Has(t, n) == \A i \in 1..n : \E j \in 1..n : t[j] = s[i]
            Only(t, n) == \A j \in 1..n : \E i \in 1..n : t[j] = s[i]
            Once(t, n) == (\A i, j \in 1..n : s[i] = s[j] => i = j)
                            => \A i, j \in 1..n : t[i] = t[j] => i = j
            Sorted(t, n) == (\A i \in 1..n : Parsed(s[i])) => InFileOrder(t)
            Good(t, n) == Typed(t, n) /\ Has(t, n) /\ Only(t, n) /\ Once(t, n) /\ Sorted(t, n)
            S == {n \in Nat : n <= m => Good(g[n], n)}
<1>. HIDE DEF m, Good
<1>3. 0 \in S
  <2>1. <<>> \in Seq(Entries) /\ Len(<<>>) = 0 /\ InFileOrder(<<>>)
    BY DEF InFileOrder
  <2>2. Good(<<>>, 0)
    BY <2>1 DEF Good
  <2>3. QED
    BY <1>2, <2>2
<1>4. ASSUME NEW n \in Nat, n \in S PROVE n + 1 \in S
  <2>. SUFFICES ASSUME n + 1 <= m PROVE Good(g[n + 1], n + 1)
    OBVIOUS
  <2>. DEFINE t == g[n]
              f == s[n + 1]
              u == SortIn(t, f)
  <2>1. g[n + 1] = u
    <3>1. n + 1 \in 1..m /\ (n + 1) - 1 = n
      BY <1>1
    <3>2. QED
      BY <1>2, <3>1
  <2>2. Good(t, n)
    <3>1. n <= m
      BY <1>1
    <3>2. QED
      BY <1>4, <3>1
  <2>0. f \in Entries
    BY <1>1
  <2>. HIDE DEF t, f
  <2>. USE DEF Good
  <2>3. t \in Seq(Entries) /\ Len(t) = n
    BY <2>2
  <2>4. /\ u \in Seq(Entries) /\ Len(u) = n + 1
        /\ \A i \in 1..n : \E j \in 1..(n + 1) : u[j] = t[i]
        /\ \E j \in 1..(n + 1) : u[j] = f
        /\ \A j \in 1..(n + 1) : u[j] = f \/ \E i \in 1..n : u[j] = t[i]
        /\ (\A i, j \in 1..n : t[i] = t[j] => i = j) /\ (\A i \in 1..n : t[i] # f)
             => \A i, j \in 1..(n + 1) : u[i] = u[j] => i = j
    <3>1. LET v == SortIn(t, f) IN
             /\ v \in Seq(Entries) /\ Len(v) = Len(t) + 1
             /\ \A i \in 1..Len(t) : \E j \in 1..Len(v) : v[j] = t[i]
             /\ \E j \in 1..Len(v) : v[j] = f
             /\ \A j \in 1..Len(v) : v[j] = f \/ \E i \in 1..Len(t) : v[j] = t[i]
             /\ (\A i, j \in 1..Len(t) : t[i] = t[j] => i = j) /\ (\A i \in 1..Len(t) : t[i] # f)
                  => \A i, j \in 1..Len(v) : v[i] = v[j] => i = j
      BY <2>3, <2>0, SortInKeeps
    <3>2. Len(u) = n + 1
      BY <2>3, <3>1
    <3>. HIDE DEF u
    <3>3. QED
      BY <2>3, <3>1, <3>2, Zenon DEF u
  <2>5. Typed(u, n + 1)
    BY <2>4
  <2>6. Has(u, n + 1)
    <3>. TAKE i \in 1..(n + 1)
    <3>1. CASE i = n + 1
      BY <2>4, <3>1 DEF f
    <3>2. CASE i \in 1..n
      <4>1. PICK j \in 1..n : t[j] = s[i]
        BY <2>2, <3>2
      <4>2. QED
        BY <2>4, <4>1
    <3>3. QED
      BY <3>1, <3>2
  <2>7. Only(u, n + 1)
    <3>. TAKE j \in 1..(n + 1)
    <3>1. CASE u[j] = f
      <4>1. n + 1 \in 1..(n + 1)
        OBVIOUS
      <4>2. QED
        BY <3>1, <4>1 DEF f
    <3>2. CASE \E i \in 1..n : u[j] = t[i]
      <4>1. PICK i \in 1..n : u[j] = t[i]
        BY <3>2
      <4>2. PICK l \in 1..n : t[i] = s[l]
        BY <2>2
      <4>3. l \in 1..(n + 1) /\ u[j] = s[l]
        BY <4>1, <4>2
      <4>4. QED
        BY <4>3
    <3>3. QED
      BY <2>4, <3>1, <3>2
  <2>8. Once(u, n + 1)
    <3>. SUFFICES ASSUME \A i, j \in 1..(n + 1) : s[i] = s[j] => i = j
                  PROVE  \A i, j \in 1..(n + 1) : u[i] = u[j] => i = j
      OBVIOUS
    <3>1. \A i, j \in 1..n : s[i] = s[j] => i = j
      OBVIOUS
    <3>2. \A i, j \in 1..n : t[i] = t[j] => i = j
      BY <2>2, <3>1
    <3>3. \A i \in 1..n : t[i] # f
      <4>. TAKE i \in 1..n
      <4>1. PICK l \in 1..n : t[i] = s[l]
        BY <2>2
      <4>2. s[l] # s[n + 1]
        <5>1. l \in 1..(n + 1) /\ n + 1 \in 1..(n + 1) /\ l # n + 1
          OBVIOUS
        <5>2. QED
          BY <5>1
      <4>3. QED
        BY <4>1, <4>2 DEF f
    <3>4. QED
      BY <2>4, <3>2, <3>3
  <2>9. Sorted(u, n + 1)
    <3>. SUFFICES ASSUME \A i \in 1..(n + 1) : Parsed(s[i]) PROVE InFileOrder(u)
      OBVIOUS
    <3>1. \A i \in 1..n : Parsed(s[i])
      OBVIOUS
    <3>2. InFileOrder(t)
      BY <2>2, <3>1
    <3>3. \A i \in 1..n : Parsed(t[i])
      <4>. TAKE i \in 1..n
      <4>1. PICK l \in 1..n : t[i] = s[l]
        BY <2>2
      <4>2. QED
        BY <3>1, <4>1
    <3>4. Parsed(f)
      <4>1. n + 1 \in 1..(n + 1)
        OBVIOUS
      <4>2. QED
        BY <4>1 DEF f
    <3>. HIDE DEF u
    <3>5. QED
      BY <2>3, <2>0, <3>2, <3>3, <3>4, SortInOrders DEF u
  <2>. HIDE DEF Typed, Has, Only, Once, Sorted
  <2>10. QED
    BY <2>1, <2>5, <2>6, <2>7, <2>8, <2>9
<1>5. m \in S
  <2>. HIDE DEF S
  <2>1. QED
    BY <1>1, <1>3, <1>4, AllNaturals
<1>6. Good(SortFiles(s), m)
  BY <1>1, <1>2, <1>5
<1>7. QED
  BY <1>6 DEF m, Good

-----------------------------------------------------------------------------
(* Types *)

Keys == {Key(inc) : inc \in RemoteIncludes}

TreeTypeOK ==
  /\ tree \in [Folders -> SUBSET Names]
  /\ offer \in [Places -> Offer]
  /\ includes \in IncludeLists
  /\ cache \in [Keys -> Roots]
  /\ phase \in {"between", "walking", "full", "cut", "failed"}
  /\ nth \in Nat
  /\ files \in Seq(Entries)
  /\ lists \in Nat /\ moves \in Nat
  /\ taken \subseteq Keys \X Snapshots
  /\ took \in Seq(SUBSET Entries)

-----------------------------------------------------------------------------
(* What a walk knows of the includes behind it *)

\* A snapshot files were taken from is the one that is kept.
CacheOK == \A u \in taken : cache[u[1]] = u[2]

\* took has an entry for every include that was passed.
PlaceOK ==
  phase \in {"walking", "full"} =>
    /\ Len(took) = nth - 1 /\ nth - 1 <= Len(includes)
    /\ phase = "full" => nth - 1 = Len(includes)

\* The list has files these gave and no others, no two of one path, and every path
\* from the first include that gave it.
ListOK ==
  phase \in {"walking", "full"} =>
    /\ \A j \in 1..Len(files) : files[j].from \in 1..Len(took) /\ files[j] \in took[files[j].from]
    /\ \A i, j \in 1..Len(files) : files[i].rel = files[j].rel => i = j
    /\ \A i \in 1..Len(took) : \A e \in took[i] :
         \E j \in 1..Len(files) : files[j].rel = e.rel /\ files[j].from <= i

\* What a remote gave is what the snapshot has that is kept of it.
RemoteOK ==
  phase \in {"walking", "full"} =>
    \A i \in 1..Len(took) :
      includes[i].kind # "local" =>
        /\ \E u \in taken : u[1] = Key(includes[i])
        /\ {e.name : e \in took[i]} = Given(includes[i], SnapshotNames[cache[Key(includes[i])]])

OrderOK ==
  phase = "full" /\ (\A i \in 1..Len(files) : Parsed(files[i])) => InFileOrder(files)

TreeInv == TreeTypeOK /\ CacheOK /\ PlaceOK /\ ListOK /\ RemoteOK /\ OrderOK

-----------------------------------------------------------------------------
(* The include that is next *)

LEMMA NextIncludeType ==
  ASSUME TreeTypeOK, NEW i \in 1..Len(includes)
  PROVE  /\ Len(includes) \in Nat
         /\ includes[i] \in Include
         /\ includes[i].kind # "local" => /\ Key(includes[i]) \in Keys
                                         /\ <<includes[i].at, includes[i].target>> \in Places
<1>1. includes \in IncludeLists /\ includes \in Seq(Include)
  BY StepTreeAssumption DEF TreeTypeOK
<1>2. Len(includes) \in Nat /\ includes[i] \in Include /\ DOMAIN includes = 1..Len(includes)
  BY <1>1
<1>3. includes[i] \in Range(includes)
  BY <1>2 DEF Range
<1>4. includes[i].kind # "local" => includes[i] \in RemoteIncludes
  BY <1>1, <1>3 DEF RemoteIncludes
<1>5. QED
  BY <1>2, <1>4 DEF Keys, Places

LEMMA GivenNames ==
  ASSUME NEW inc, NEW names \in SUBSET Names
  PROVE  Given(inc, names) \in SUBSET Names
BY DEF Given

\* What an include gives of some names.
Gave(inc, dir, names) == {Entry(inc, dir, x) : x \in names}

LEMMA EntryTypes ==
  ASSUME NEW inc, NEW dir \in Folders \cup STRING, NEW x \in Names, nth \in Nat
  PROVE  /\ Entry(inc, dir, x) \in Entries
         /\ Entry(inc, dir, x).name = x /\ Entry(inc, dir, x).from = nth
         /\ Entry(inc, dir, x).rel = Rel(inc, dir, x)
<1>1. Rel(inc, dir, x) \in Rels
  BY DEF Rel, Rels
<1>2. QED
  BY <1>1 DEF Entry, Entries

\* Names have paths of their own, but for a single file of an archive.
LEMMA RelsDiffer ==
  ASSUME NEW inc, NEW dir, NEW x, NEW y, Rel(inc, dir, x) = Rel(inc, dir, y),
         ~(inc.kind = "url" /\ inc.one # 0)
  PROVE  x = y
BY DEF Rel

\* The files new are of G, each path once, none that was listed before, and with these
\* they have every path of G.
Lists(new, G) ==
  /\ new \in Seq(Entries)
  /\ \A i \in 1..Len(new) : new[i] \in G /\ new[i].from = nth
  /\ \A i, j \in 1..Len(new) : new[i].rel = new[j].rel => i = j
  /\ \A i \in 1..Len(files), j \in 1..Len(new) : files[i].rel # new[j].rel
  /\ \A e \in G : \/ \E i \in 1..Len(files) : files[i].rel = e.rel
                  \/ \E i \in 1..Len(new) : new[i].rel = e.rel
Apart(inc, dir, names) == \A x, y \in names : Rel(inc, dir, x) = Rel(inc, dir, y) => x = y

LEMMA FreshLists ==
  ASSUME files \in Seq(Entries), nth \in Nat,
         NEW inc, NEW dir \in Folders \cup STRING, NEW names \in SUBSET Names,
         Apart(inc, dir, names)
  PROVE  Lists(Fresh(inc, dir, names), Gave(inc, dir, names))
<1>. DEFINE E(x) == Entry(inc, dir, x)
            R(x) == Rel(inc, dir, x)
            N == {x \in names : \A i \in 1..Len(files) : files[i].rel # R(x)}
            A == Ascending(N)
            n == Cardinality(N)
            F == Fresh(inc, dir, names)
            G == Gave(inc, dir, names)
<1>1. N \subseteq Names /\ N \subseteq names
  OBVIOUS
<1>2. N \subseteq Int /\ IsFiniteSet(N)
  <2>1. \A x \in Names : x \in Int
    BY StepTreeAssumption
  <2>2. IsFiniteSet(Names)
    BY StepTreeAssumption
  <2>. HIDE DEF N
  <2>3. QED
    BY <1>1, <2>1, <2>2, FS_Subset
<1>3. F = [i \in 1..n |-> E(A[i])]
  BY DEF Fresh
<1>4. \A x \in Names : E(x) \in Entries /\ E(x).name = x /\ E(x).from = nth /\ E(x).rel = R(x)
  BY EntryTypes
<1>5. \A x \in N : \A i \in 1..Len(files) : files[i].rel # R(x)
  OBVIOUS
<1>6. \A x \in names : x \notin N => \E i \in 1..Len(files) : files[i].rel = R(x)
  OBVIOUS
<1>7. /\ n \in Nat /\ A \in [1..n -> N]
      /\ \A x \in N : \E i \in 1..n : A[i] = x
      /\ \A i, j \in 1..n : A[i] = A[j] => i = j
  <2>. HIDE DEF N
  <2>1. QED
    BY <1>2, AscendingLists
<1>8. \A x, y \in names : R(x) = R(y) => x = y
  BY DEF Apart
<1>9. \A x \in names : E(x) \in G
  BY DEF Gave
<1>10. \A e \in G : \E x \in names : e = E(x)
  BY DEF Gave
<1>. HIDE DEF E, R, N, A, n, F, G
<1>11. F \in [1..n -> Entries] /\ \A i \in 1..n : F[i] = E(A[i]) /\ A[i] \in N /\ A[i] \in Names
  BY <1>1, <1>3, <1>4, <1>7
<1>12. F \in Seq(Entries) /\ Len(F) = n
  BY <1>7, <1>11
<1>13. \A i \in 1..n : F[i] \in G /\ F[i].from = nth /\ F[i].rel = R(A[i])
  BY <1>1, <1>4, <1>9, <1>11
<1>14. \A i, j \in 1..n : F[i].rel = F[j].rel => i = j
  BY <1>1, <1>7, <1>8, <1>11, <1>13
<1>15. \A i \in 1..Len(files), j \in 1..n : files[i].rel # F[j].rel
  BY <1>5, <1>11, <1>13
<1>16. ASSUME NEW e \in G
       PROVE  \/ \E i \in 1..Len(files) : files[i].rel = e.rel
              \/ \E i \in 1..n : F[i].rel = e.rel
  <2>1. PICK x \in names : e = E(x)
    BY <1>10
  <2>2. x \in Names /\ e.rel = R(x)
    BY <1>4, <2>1
  <2>3. CASE x \in N
    <3>1. PICK i \in 1..n : A[i] = x
      BY <1>7, <2>3
    <3>2. F[i].rel = e.rel
      BY <1>13, <2>2, <3>1
    <3>3. QED
      BY <3>2
  <2>4. CASE x \notin N
    BY <1>6, <2>2, <2>4
  <2>5. QED
    BY <2>3, <2>4
<1>17. QED
  BY <1>12, <1>13, <1>14, <1>15, <1>16 DEF F, G, Lists

\* One more include: the walk is cut, or the list has its files too.
LEMMA AddKeeps ==
  ASSUME TreeTypeOK, PlaceOK, ListOK, phase = "walking", UNCHANGED includes,
         nth <= Len(includes),
         NEW inc, NEW dir \in Folders \cup STRING, NEW names \in SUBSET Names,
         Add(inc, dir, names)
  PROVE  /\ phase' \in {"walking", "cut"} /\ nth' \in Nat
         /\ files' \in Seq(Entries) /\ took' \in Seq(SUBSET Entries)
         /\ PlaceOK' /\ ListOK'
         /\ phase' = "walking" =>
              /\ Len(took') = nth /\ {e.name : e \in took'[nth]} = Given(inc, names)
              /\ \A i \in 1..Len(took) : took'[i] = took[i]
<1>. DEFINE given == Given(inc, names)
            F == Fresh(inc, dir, given)
            G == Gave(inc, dir, given)
<1>1. given \in SUBSET Names
  BY GivenNames
<1>2. /\ files \in Seq(Entries) /\ took \in Seq(SUBSET Entries) /\ nth \in Nat
      /\ Len(took) = nth - 1
  BY DEF TreeTypeOK, PlaceOK
<1>3. Apart(inc, dir, given)
  <2>1. inc.one # 0 => \A x, y \in given : x = y
    BY DEF Given
  <2>. HIDE DEF given
  <2>2. QED
    BY <2>1, RelsDiffer DEF Apart
<1>4. Lists(F, G)
  <2>. HIDE DEF given
  <2>1. QED
    BY <1>1, <1>2, <1>3, FreshLists
<1>5. G \in SUBSET Entries /\ {e.name : e \in G} = given
  <2>. HIDE DEF given
  <2>1. \A x \in given : Entry(inc, dir, x) \in Entries /\ Entry(inc, dir, x).name = x
    BY <1>1, <1>2, EntryTypes
  <2>2. QED
    BY <2>1 DEF Gave
<1>6. \/ phase' = "cut" /\ UNCHANGED <<nth, files, took>>
      \/ /\ files' = files \o F
         /\ nth' = nth + 1 /\ took' = Append(took, G) /\ phase' = "walking"
  BY DEF Add, NextInclude, Gave
<1>. HIDE DEF given, F, G
<1>. USE DEF Lists
<1>7. CASE phase' = "cut" /\ UNCHANGED <<nth, files, took>>
  BY <1>2, <1>7 DEF PlaceOK, ListOK
<1>8. CASE /\ files' = files \o F
           /\ nth' = nth + 1 /\ took' = Append(took, G) /\ phase' = "walking"
  <2>1. /\ took' \in Seq(SUBSET Entries) /\ Len(took') = nth /\ took'[nth] = G
        /\ \A i \in 1..Len(took) : took'[i] = took[i]
    BY <1>2, <1>5, <1>8
  <2>2. /\ files' \in Seq(Entries) /\ Len(files') = Len(files) + Len(F)
        /\ \A i \in 1..(Len(files) + Len(F)) :
             files'[i] = IF i <= Len(files) THEN files[i] ELSE F[i - Len(files)]
    BY <1>2, <1>4, <1>8, ConcatProperties
  <2>3. Len(files) \in Nat /\ Len(F) \in Nat
    BY <1>2, <1>4
  <2>4. /\ \A i \in 1..Len(files) : i \in 1..Len(files') /\ files'[i] = files[i]
        /\ \A i \in 1..Len(F) : /\ Len(files) + i \in 1..Len(files')
                                /\ files'[Len(files) + i] = F[i]
        /\ \A i \in 1..Len(files') :
             i > Len(files) => i - Len(files) \in 1..Len(F) /\ files'[i] = F[i - Len(files)]
    BY <2>2, <2>3
  <2>5. PlaceOK'
    BY <1>2, <1>8, <2>1 DEF PlaceOK
  <2>6. ASSUME NEW i \in 1..Len(files'), NEW j \in 1..Len(files'), files'[i].rel = files'[j].rel
        PROVE  i = j
    <3>1. CASE i <= Len(files) /\ j <= Len(files)
      <4>1. i \in 1..Len(files) /\ j \in 1..Len(files) /\ files[i].rel = files[j].rel
        BY <2>3, <2>4, <2>6, <3>1
      <4>2. QED
        BY <4>1 DEF ListOK
    <3>2. CASE i > Len(files) /\ j > Len(files)
      <4>1. /\ i - Len(files) \in 1..Len(F) /\ files'[i] = F[i - Len(files)]
            /\ j - Len(files) \in 1..Len(F) /\ files'[j] = F[j - Len(files)]
        BY <2>4, <3>2
      <4>2. F[i - Len(files)].rel = F[j - Len(files)].rel
        BY <2>6, <4>1
      <4>3. i - Len(files) = j - Len(files)
        BY <1>4, <4>1, <4>2
      <4>4. QED
        BY <2>3, <4>3
    <3>3. CASE i <= Len(files) /\ j > Len(files)
      <4>1. /\ i \in 1..Len(files) /\ j - Len(files) \in 1..Len(F)
            /\ files[i].rel = F[j - Len(files)].rel
        BY <2>3, <2>4, <2>6, <3>3
      <4>2. QED
        BY <1>4, <4>1
    <3>4. CASE i > Len(files) /\ j <= Len(files)
      <4>1. /\ j \in 1..Len(files) /\ i - Len(files) \in 1..Len(F)
            /\ files[j].rel = F[i - Len(files)].rel
        BY <2>3, <2>4, <2>6, <3>4
      <4>2. QED
        BY <1>4, <4>1
    <3>5. QED
      BY <2>2, <2>3, <3>1, <3>2, <3>3, <3>4
  <2>7. ASSUME NEW j \in 1..Len(files')
        PROVE  files'[j].from \in 1..Len(took') /\ files'[j] \in took'[files'[j].from]
    <3>1. CASE j <= Len(files)
      <4>1. j \in 1..Len(files) /\ files'[j] = files[j]
        BY <2>3, <2>4, <3>1
      <4>2. files[j].from \in 1..Len(took) /\ files[j] \in took[files[j].from]
        BY <4>1 DEF ListOK
      <4>3. 1..Len(took) \subseteq 1..Len(took')
        BY <1>2, <2>1
      <4>4. QED
        BY <2>1, <4>1, <4>2, <4>3
    <3>2. CASE j > Len(files)
      <4>1. j - Len(files) \in 1..Len(F) /\ files'[j] = F[j - Len(files)]
        BY <2>4, <3>2
      <4>2. files'[j] \in G /\ files'[j].from = nth
        BY <1>4, <4>1
      <4>3. nth \in 1..Len(took')
        <5>1. nth >= 1
          BY <1>2
        <5>2. QED
          BY <1>2, <2>1, <5>1
      <4>4. QED
        BY <2>1, <4>2, <4>3
    <3>3. QED
      BY <2>2, <2>3, <3>1, <3>2
  <2>8. ASSUME NEW i \in 1..Len(took'), NEW e \in took'[i]
        PROVE  \E j \in 1..Len(files') : files'[j].rel = e.rel /\ files'[j].from <= i
    <3>1. CASE i = nth
      <4>1. e \in G
        BY <2>1, <2>8, <3>1
      <4>2. ASSUME NEW j \in 1..Len(files), files[j].rel = e.rel
            PROVE  files[j].from <= i
        <5>1. files[j].from \in 1..Len(took)
          BY DEF ListOK
        <5>2. QED
          BY <1>2, <3>1, <5>1
      <4>3. CASE \E j \in 1..Len(files) : files[j].rel = e.rel
        BY <2>4, <4>2, <4>3
      <4>4. CASE \E j \in 1..Len(F) : F[j].rel = e.rel
        <5>1. PICK j \in 1..Len(F) : F[j].rel = e.rel
          BY <4>4
        <5>2. F[j].from <= i
          BY <1>2, <1>4, <3>1
        <5>3. QED
          BY <2>4, <5>1, <5>2
      <4>5. QED
        BY <1>4, <4>1, <4>3, <4>4
    <3>2. CASE i # nth
      <4>1. i \in 1..Len(took) /\ e \in took[i]
        BY <1>2, <2>1, <2>8, <3>2
      <4>2. PICK j \in 1..Len(files) : files[j].rel = e.rel /\ files[j].from <= i
        BY <4>1 DEF ListOK
      <4>3. QED
        BY <2>4, <4>2
    <3>3. QED
      BY <3>1, <3>2
  <2>9. ListOK'
    BY <2>6, <2>7, <2>8 DEF ListOK
  <2>10. QED
    BY <1>2, <1>5, <1>8, <2>1, <2>2, <2>5, <2>9 DEF given
<1>9. QED
  BY <1>6, <1>7, <1>8

-----------------------------------------------------------------------------
(* The invariant *)

LEMMA TreeInvInit == TreeInit => TreeInv
<1>. SUFFICES ASSUME TreeInit PROVE TreeInv
  OBVIOUS
<1>1. TreeTypeOK
  <2>1. tree \in [Folders -> SUBSET Names] /\ offer \in [Places -> Offer]
    BY StepTreeAssumption DEF TreeInit
  <2>2. cache \in [Keys -> Roots]
    BY DEF TreeInit, Keys, Roots
  <2>3. <<>> \in Seq(Entries) /\ <<>> \in Seq(SUBSET Entries)
    OBVIOUS
  <2>4. QED
    BY <2>1, <2>2, <2>3 DEF TreeInit, TreeTypeOK
<1>2. QED
  BY <1>1 DEF TreeInit, TreeInv, CacheOK, PlaceOK, ListOK, RemoteOK, OrderOK

\* A step that leaves the walk alone.
LEMMA ElsewhereKeeps ==
  ASSUME TreeInv, UNCHANGED <<includes, cache, nth, files, taken, took>>,
         phase' = phase \/ phase' = "failed",
         tree' \in [Folders -> SUBSET Names], offer' \in [Places -> Offer],
         lists' \in Nat, moves' \in Nat
  PROVE  TreeInv'
<1>1. TreeTypeOK'
  BY DEF TreeInv, TreeTypeOK
<1>2. CacheOK' /\ PlaceOK' /\ ListOK'
  BY DEF TreeInv, CacheOK, PlaceOK, ListOK
<1>3. RemoteOK'
  BY DEF TreeInv, RemoteOK
<1>4. OrderOK'
  BY DEF TreeInv, OrderOK, Parsed, InFileOrder
<1>5. QED
  BY <1>1, <1>2, <1>3, <1>4 DEF TreeInv

LEMMA WalkKeeps == TreeInv /\ Walk => TreeInv'
<1>. SUFFICES ASSUME TreeInv, Walk PROVE TreeInv'
  OBVIOUS
<1>1. <<>> \in Seq(Entries) /\ <<>> \in Seq(SUBSET Entries) /\ Len(<<>>) = 0
  OBVIOUS
<1>2. TreeTypeOK' /\ CacheOK'
  BY <1>1 DEF TreeInv, TreeTypeOK, CacheOK, Walk
<1>3. Len(includes) \in Nat
  BY StepTreeAssumption DEF TreeInv, TreeTypeOK
<1>4. PlaceOK' /\ ListOK' /\ RemoteOK' /\ OrderOK'
  BY <1>1, <1>3 DEF Walk, PlaceOK, ListOK, RemoteOK, OrderOK
<1>5. QED
  BY <1>2, <1>4 DEF TreeInv

LEMMA LocalKeeps == TreeInv /\ TakeLocal => TreeInv'
<1>. SUFFICES ASSUME TreeInv, TakeLocal PROVE TreeInv'
  OBVIOUS
<1>. DEFINE inc == includes[nth]
            d == LocalFolder(inc)
<1>1. /\ TreeTypeOK /\ PlaceOK /\ ListOK /\ phase = "walking" /\ nth <= Len(includes)
      /\ inc.kind = "local"
      /\ UNCHANGED <<tree, offer, includes, cache, lists, moves, taken>>
  BY DEF TreeInv, TakeLocal, Here
<1>2. /\ took \in Seq(SUBSET Entries) /\ files \in Seq(Entries) /\ nth \in Nat
      /\ Len(took) = nth - 1
  BY <1>1 DEF TreeTypeOK, PlaceOK
<1>3. IF d \in Folders THEN Add(inc, d, tree[d])
      ELSE NextInclude({}) /\ UNCHANGED <<phase, files>>
  BY DEF TakeLocal
<1>. HIDE DEF inc, d
<1>4. /\ phase' \in {"walking", "cut"} /\ nth' \in Nat
      /\ files' \in Seq(Entries) /\ took' \in Seq(SUBSET Entries)
      /\ PlaceOK' /\ ListOK'
      /\ phase' = "walking" =>
           Len(took') = nth /\ \A i \in 1..Len(took) : took'[i] = took[i]
  <2>1. CASE d \in Folders
    <3>1. tree[d] \in SUBSET Names
      BY <1>1, <2>1 DEF TreeTypeOK
    <3>2. QED
      BY <1>1, <1>3, <2>1, <3>1, AddKeeps
  <2>2. CASE d \notin Folders
    <3>1. took' = Append(took, {}) /\ nth' = nth + 1 /\ UNCHANGED <<phase, files>>
      BY <1>3, <2>2 DEF NextInclude
    <3>2. /\ took' \in Seq(SUBSET Entries) /\ Len(took') = nth /\ took'[nth] = {}
          /\ \A i \in 1..Len(took) : took'[i] = took[i]
      BY <1>2, <3>1
    <3>3. PlaceOK'
      BY <1>1, <1>2, <3>1, <3>2 DEF PlaceOK
    <3>4. ListOK'
      <4>1. \A i \in 1..Len(took') : i \in 1..Len(took) \/ took'[i] = {}
        BY <1>2, <3>2
      <4>2. 1..Len(took) \subseteq 1..Len(took')
        BY <1>2, <3>2
      <4>3. /\ \A i, j \in 1..Len(files) : files[i].rel = files[j].rel => i = j
            /\ \A j \in 1..Len(files) :
                 files[j].from \in 1..Len(took) /\ files[j] \in took[files[j].from]
            /\ \A i \in 1..Len(took) : \A e \in took[i] :
                 \E j \in 1..Len(files) : files[j].rel = e.rel /\ files[j].from <= i
        BY <1>1 DEF ListOK
      <4>4. \A j \in 1..Len(files') :
              files'[j].from \in 1..Len(took') /\ files'[j] \in took'[files'[j].from]
        BY <3>1, <3>2, <4>2, <4>3
      <4>5. \A i \in 1..Len(took') : \A e \in took'[i] :
              \E j \in 1..Len(files') : files'[j].rel = e.rel /\ files'[j].from <= i
        BY <3>1, <3>2, <4>1, <4>3
      <4>6. QED
        BY <3>1, <4>3, <4>4, <4>5 DEF ListOK
    <3>5. QED
      BY <1>1, <1>2, <3>1, <3>2, <3>3, <3>4
  <2>3. QED
    BY <2>1, <2>2
<1>5. TreeTypeOK'
  BY <1>1, <1>4 DEF TreeTypeOK
<1>6. CacheOK' /\ OrderOK'
  BY <1>1, <1>4 DEF TreeInv, CacheOK, OrderOK
<1>7. RemoteOK'
  <2>. SUFFICES ASSUME phase' = "walking", NEW i \in 1..Len(took'), includes[i].kind # "local"
                PROVE  /\ \E u \in taken : u[1] = Key(includes[i])
                       /\ {e.name : e \in took'[i]} = Given(includes[i], SnapshotNames[cache[Key(includes[i])]])
    BY <1>1, <1>4 DEF RemoteOK
  <2>1. i # nth
    BY <1>1 DEF inc
  <2>2. i \in 1..Len(took) /\ took'[i] = took[i]
    BY <1>2, <1>4, <2>1
  <2>3. QED
    BY <1>1, <2>2 DEF TreeInv, RemoteOK
<1>8. QED
  BY <1>4, <1>5, <1>6, <1>7 DEF TreeInv

LEMMA RemoteKeeps == TreeInv /\ TakeRemote => TreeInv'
<1>. SUFFICES ASSUME TreeInv, TakeRemote PROVE TreeInv'
  OBVIOUS
<1>. DEFINE inc == includes[nth]
            key == Key(inc)
            Found(r) == r # NoRoot /\ SnapshotNames[r] # {}
                        /\ (inc.one # 0 => inc.one \in SnapshotNames[r])
<1>1. /\ TreeTypeOK /\ PlaceOK /\ ListOK /\ phase = "walking" /\ nth <= Len(includes)
      /\ inc.kind # "local"
      /\ UNCHANGED <<tree, offer, includes, lists, moves>>
  BY DEF TreeInv, TakeRemote, Here
<1>2. /\ took \in Seq(SUBSET Entries) /\ files \in Seq(Entries) /\ nth \in Nat
      /\ Len(took) = nth - 1
  BY <1>1 DEF TreeTypeOK, PlaceOK
<1>3. nth \in 1..Len(includes) /\ Len(includes) \in Nat
  <2>1. includes \in Seq(Include)
    BY StepTreeAssumption, <1>1 DEF TreeTypeOK
  <2>2. Len(took) \in Nat /\ Len(includes) \in Nat
    BY <1>2, <2>1
  <2>3. QED
    BY <1>1, <1>2, <2>2
<1>4. inc \in Include /\ key \in Keys /\ <<inc.at, inc.target>> \in Places
  BY <1>1, <1>3, NextIncludeType
<1>. PICK root \in (IF cache[key] # NoRoot THEN {cache[key]} ELSE Offered(inc)) :
            /\ IF root = NoRoot THEN UNCHANGED cache ELSE Kept(key, root)
            /\ IF Found(root)
               THEN /\ Add(inc, inc.dir, SnapshotNames[root])
                    /\ taken' = taken \cup {<<key, root>>}
               ELSE phase' = "failed" /\ UNCHANGED <<nth, files, taken, took>>
  BY DEF TakeRemote
<1>. DEFINE found == Found(root)
<1>5. root \in Roots
  <2>1. cache[key] \in Roots
    BY <1>1, <1>4 DEF TreeTypeOK
  <2>2. offer[<<inc.at, inc.target>>] \in Offer
    BY <1>1, <1>4 DEF TreeTypeOK
  <2>3. Offered(inc) \subseteq Roots
    BY <2>2 DEF Offered, Offer
  <2>. HIDE DEF inc, key
  <2>4. QED
    BY <2>1, <2>3
<1>6. IF root = NoRoot THEN UNCHANGED cache ELSE cache' = [cache EXCEPT ![key] = root]
  BY DEF Kept
<1>7. IF found THEN /\ Add(inc, inc.dir, SnapshotNames[root])
                    /\ taken' = taken \cup {<<key, root>>}
               ELSE phase' = "failed" /\ UNCHANGED <<nth, files, taken, took>>
  OBVIOUS
<1>8. cache[key] # NoRoot => root = cache[key]
  OBVIOUS
<1>9. inc.dir \in Folders \cup STRING
  BY <1>4 DEF Include
<1>10. found => root # NoRoot
  OBVIOUS
<1>. HIDE DEF inc, key, found
<1>11. /\ cache' \in [Keys -> Roots]
       /\ \A k \in Keys : cache[k] # NoRoot => cache'[k] = cache[k]
       /\ root # NoRoot => cache'[key] = root
  BY <1>1, <1>4, <1>5, <1>6, <1>8 DEF TreeTypeOK
<1>12. \A u \in taken : u[1] \in Keys /\ u[2] \in Snapshots /\ u[2] # NoRoot /\ cache'[u[1]] = u[2]
  <2>. TAKE u \in taken
  <2>1. u[1] \in Keys /\ u[2] \in Snapshots
    BY <1>1 DEF TreeTypeOK
  <2>2. u[2] # NoRoot
    BY <2>1, StepTreeAssumption
  <2>3. cache[u[1]] = u[2]
    BY DEF TreeInv, CacheOK
  <2>4. QED
    BY <1>11, <2>1, <2>2, <2>3
<1>13. CASE ~found
  <2>1. phase' = "failed" /\ UNCHANGED <<nth, files, taken, took>>
    BY <1>7, <1>13
  <2>2. TreeTypeOK'
    BY <1>1, <1>11, <2>1 DEF TreeTypeOK
  <2>3. CacheOK'
    BY <1>12, <2>1 DEF CacheOK
  <2>4. PlaceOK' /\ ListOK' /\ RemoteOK' /\ OrderOK'
    BY <2>1 DEF PlaceOK, ListOK, RemoteOK, OrderOK
  <2>5. QED
    BY <2>2, <2>3, <2>4 DEF TreeInv
<1>14. CASE found
  <2>1. /\ Add(inc, inc.dir, SnapshotNames[root])
        /\ taken' = taken \cup {<<key, root>>}
    BY <1>7, <1>14
  <2>2. root \in Snapshots /\ SnapshotNames[root] \in SUBSET Names /\ root # NoRoot
    BY <1>5, <1>10, <1>14, StepTreeAssumption DEF Roots
  <2>3. /\ phase' \in {"walking", "cut"} /\ nth' \in Nat
        /\ files' \in Seq(Entries) /\ took' \in Seq(SUBSET Entries)
        /\ PlaceOK' /\ ListOK'
        /\ phase' = "walking" =>
             /\ Len(took') = nth /\ {e.name : e \in took'[nth]} = Given(inc, SnapshotNames[root])
             /\ \A i \in 1..Len(took) : took'[i] = took[i]
    BY <1>1, <1>9, <2>1, <2>2, AddKeeps
  <2>4. taken' \subseteq Keys \X Snapshots
    BY <1>1, <1>4, <2>1, <2>2 DEF TreeTypeOK
  <2>5. TreeTypeOK'
    BY <1>1, <1>11, <2>3, <2>4 DEF TreeTypeOK
  <2>6. CacheOK'
    <3>. SUFFICES ASSUME NEW u \in taken' PROVE cache'[u[1]] = u[2]
      BY DEF CacheOK
    <3>1. CASE u \in taken
      BY <1>12, <3>1
    <3>2. CASE u = <<key, root>>
      BY <1>11, <2>2, <3>2
    <3>3. QED
      BY <2>1, <3>1, <3>2
  <2>7. OrderOK'
    BY <2>3 DEF OrderOK
  <2>8. RemoteOK'
    <3>. SUFFICES ASSUME phase' = "walking", NEW i \in 1..Len(took'), includes[i].kind # "local"
                  PROVE  /\ \E u \in taken' : u[1] = Key(includes[i])
                         /\ {e.name : e \in took'[i]} = Given(includes[i], SnapshotNames[cache'[Key(includes[i])]])
      BY <1>1, <2>3 DEF RemoteOK
    <3>1. CASE i = nth
      <4>1. includes[i] = inc /\ Key(includes[i]) = key
        BY <3>1 DEF inc, key
      <4>2. <<key, root>> \in taken' /\ <<key, root>>[1] = key /\ cache'[key] = root
        BY <1>11, <2>1, <2>2
      <4>3. QED
        BY <2>3, <3>1, <4>1, <4>2
    <3>2. CASE i # nth
      <4>1. i \in 1..Len(took) /\ took'[i] = took[i]
        BY <1>2, <2>3, <3>2
      <4>2. /\ \E u \in taken : u[1] = Key(includes[i])
            /\ {e.name : e \in took[i]} = Given(includes[i], SnapshotNames[cache[Key(includes[i])]])
        BY <1>1, <4>1 DEF TreeInv, RemoteOK
      <4>3. PICK u \in taken : u[1] = Key(includes[i])
        BY <4>2
      <4>4. cache'[Key(includes[i])] = cache[Key(includes[i])]
        BY <1>12, <4>3 DEF TreeInv, CacheOK
      <4>5. u \in taken'
        BY <2>1
      <4>6. QED
        BY <4>1, <4>2, <4>3, <4>4, <4>5
    <3>3. QED
      BY <3>1, <3>2
  <2>9. QED
    BY <2>3, <2>5, <2>6, <2>7, <2>8 DEF TreeInv
<1>15. QED
  BY <1>13, <1>14

LEMMA SortKeeps == TreeInv /\ SortList => TreeInv'
<1>. SUFFICES ASSUME TreeInv, SortList PROVE TreeInv'
  OBVIOUS
<1>1. /\ TreeTypeOK /\ phase = "walking" /\ nth > Len(includes) /\ phase' = "full"
      /\ files' = SortFiles(files)
      /\ UNCHANGED <<tree, offer, includes, cache, nth, lists, moves, taken, took>>
  BY DEF TreeInv, SortList
<1>2. files \in Seq(Entries) /\ nth \in Nat /\ Len(took) = nth - 1 /\ nth - 1 <= Len(includes)
  BY <1>1 DEF TreeInv, TreeTypeOK, PlaceOK
<1>3. Len(includes) \in Nat
  BY <1>1, StepTreeAssumption DEF TreeTypeOK
<1>4. /\ files' \in Seq(Entries) /\ Len(files') = Len(files)
      /\ \A i \in 1..Len(files) : \E j \in 1..Len(files') : files'[j] = files[i]
      /\ \A j \in 1..Len(files') : \E i \in 1..Len(files) : files'[j] = files[i]
      /\ (\A i, j \in 1..Len(files) : files[i] = files[j] => i = j)
           => \A i, j \in 1..Len(files') : files'[i] = files'[j] => i = j
      /\ (\A i \in 1..Len(files) : Parsed(files[i])) => InFileOrder(files')
  BY <1>1, <1>2, SortFilesSorts, Zenon
<1>5. TreeTypeOK' /\ CacheOK'
  BY <1>1, <1>4 DEF TreeInv, TreeTypeOK, CacheOK
<1>6. PlaceOK'
  BY <1>1, <1>2, <1>3 DEF PlaceOK
<1>7. ListOK'
  <2>1. \A i, j \in 1..Len(files) : files[i].rel = files[j].rel => i = j
    BY <1>1 DEF TreeInv, ListOK
  <2>2. \A i, j \in 1..Len(files') : files'[i] = files'[j] => i = j
    BY <1>4, <2>1
  <2>3. ASSUME NEW i \in 1..Len(files'), NEW j \in 1..Len(files'), files'[i].rel = files'[j].rel
        PROVE  i = j
    <3>1. PICK k \in 1..Len(files) : files'[i] = files[k]
      BY <1>4
    <3>2. PICK l \in 1..Len(files) : files'[j] = files[l]
      BY <1>4
    <3>3. k = l
      BY <2>1, <2>3, <3>1, <3>2
    <3>4. QED
      BY <2>2, <3>1, <3>2, <3>3
  <2>4. ASSUME NEW j \in 1..Len(files')
        PROVE  files'[j].from \in 1..Len(took) /\ files'[j] \in took[files'[j].from]
    <3>1. PICK l \in 1..Len(files) : files'[j] = files[l]
      BY <1>4
    <3>2. files[l].from \in 1..Len(took) /\ files[l] \in took[files[l].from]
      BY <1>1 DEF TreeInv, ListOK
    <3>3. QED
      BY <3>1, <3>2
  <2>5. ASSUME NEW i \in 1..Len(took), NEW e \in took[i]
        PROVE  \E j \in 1..Len(files') : files'[j].rel = e.rel /\ files'[j].from <= i
    <3>1. PICK l \in 1..Len(files) : files[l].rel = e.rel /\ files[l].from <= i
      BY <1>1 DEF TreeInv, ListOK
    <3>2. PICK j \in 1..Len(files') : files'[j] = files[l]
      BY <1>4
    <3>3. QED
      BY <3>1, <3>2
  <2>6. QED
    BY <1>1, <2>3, <2>4, <2>5 DEF ListOK
<1>8. RemoteOK'
  BY <1>1 DEF TreeInv, RemoteOK
<1>9. OrderOK'
  <2>. SUFFICES ASSUME \A j \in 1..Len(files') : Parsed(files'[j])
                PROVE  InFileOrder(files')
    BY DEF OrderOK, InFileOrder, Parsed
  <2>1. ASSUME NEW i \in 1..Len(files) PROVE Parsed(files[i])
    <3>1. PICK j \in 1..Len(files') : files'[j] = files[i]
      BY <1>4
    <3>2. QED
      BY <3>1
  <2>2. QED
    BY <1>4, <2>1
<1>10. QED
  BY <1>5, <1>6, <1>7, <1>8, <1>9 DEF TreeInv

LEMMA TreeInvNext == TreeInv /\ [TreeNext]_treeVars => TreeInv'
<1>. SUFFICES ASSUME TreeInv, [TreeNext]_treeVars PROVE TreeInv'
  OBVIOUS
<1>1. /\ tree \in [Folders -> SUBSET Names] /\ offer \in [Places -> Offer]
      /\ lists \in Nat /\ moves \in Nat
  BY DEF TreeInv, TreeTypeOK
<1>2. CASE Walk
  BY <1>2, WalkKeeps
<1>3. CASE TakeLocal
  BY <1>3, LocalKeeps
<1>4. CASE TakeRemote
  BY <1>4, RemoteKeeps
<1>5. CASE FetchFails
  <2>1. /\ UNCHANGED <<tree, offer, includes, cache, nth, files, lists, moves, taken, took>>
        /\ phase' = "failed"
    BY <1>5 DEF FetchFails
  <2>2. QED
    BY <1>1, <2>1, ElsewhereKeeps
<1>6. CASE SortList
  BY <1>6, SortKeeps
<1>7. ASSUME NEW d \in Folders, NEW x \in Names, TreeChanges(d, x)
      PROVE  TreeInv'
  <2>1. /\ UNCHANGED <<offer, includes, cache, phase, nth, files, lists, taken, took>>
        /\ tree' = [tree EXCEPT ![d] = IF x \in @ THEN @ \ {x} ELSE @ \cup {x}]
        /\ moves' = moves + 1
    BY <1>7 DEF TreeChanges
  <2>2. tree' \in [Folders -> SUBSET Names]
    BY <1>1, <2>1
  <2>3. QED
    BY <1>1, <2>1, <2>2, ElsewhereKeeps
<1>8. ASSUME NEW k \in DOMAIN offer, NEW s \in Snapshots \cup {NoRoot}, NEW as \in {"tag", "branch"},
             RemoteMoves(k, s, as)
      PROVE  TreeInv'
  <2>1. /\ UNCHANGED <<tree, includes, cache, phase, nth, files, lists, taken, took>>
        /\ offer' = [offer EXCEPT ![k] = IF as = "tag" THEN [@ EXCEPT !.tag = s]
                                                       ELSE [@ EXCEPT !.branch = s]]
        /\ moves' = moves + 1
    BY <1>8 DEF RemoteMoves
  <2>2. k \in Places /\ offer[k] \in Offer /\ s \in Roots
    BY <1>1 DEF Roots
  <2>3. [offer[k] EXCEPT !.tag = s] \in Offer /\ [offer[k] EXCEPT !.branch = s] \in Offer
    BY <2>2 DEF Offer
  <2>4. offer' \in [Places -> Offer]
    BY <1>1, <2>1, <2>2, <2>3
  <2>5. moves' \in Nat
    BY <1>1, <2>1
  <2>6. /\ UNCHANGED <<tree, includes, cache, phase, nth, files, lists, taken, took>>
        /\ tree' \in [Folders -> SUBSET Names] /\ lists' \in Nat
    BY <1>1, <2>1
  <2>7. QED
    BY <2>4, <2>5, <2>6, ElsewhereKeeps
<1>9. CASE UNCHANGED treeVars
  <2>1. UNCHANGED <<tree, offer, includes, cache, phase, nth, files, lists, moves, taken, took>>
    BY <1>9 DEF treeVars
  <2>2. QED
    BY <1>1, <2>1, ElsewhereKeeps
<1>10. QED
  BY <1>2, <1>3, <1>4, <1>5, <1>6, <1>7, <1>8, <1>9 DEF TreeNext

LEMMA TreeInvHolds == TreeSpec => []TreeInv
BY TreeInvInit, TreeInvNext, PTL DEF TreeSpec

-----------------------------------------------------------------------------
(* What comes back *)

\* A listing that comes back has the path of every file an include gave, once and
\* from the first include that gave it, and what a remote gave is what the one snapshot
\* has that this command saw of it.
THEOREM ListedInFull == TreeSpec => []ListsTheSources
<1>1. TreeInv => ListsTheSources
  <2>. SUFFICES ASSUME TreeInv, phase = "full" PROVE ListsTheSources
    BY DEF ListsTheSources
  <2>1. Len(took) = Len(includes)
    BY DEF TreeInv, PlaceOK
  <2>2. /\ \A j \in 1..Len(files) :
             files[j].from \in 1..Len(includes) /\ files[j] \in took[files[j].from]
        /\ \A i, j \in 1..Len(files) : files[i].rel = files[j].rel => i = j
        /\ \A i \in 1..Len(includes) : \A e \in took[i] :
             \E j \in 1..Len(files) : files[j].rel = e.rel /\ files[j].from <= i
    BY <2>1 DEF TreeInv, ListOK
  <2>3. \A i \in 1..Len(includes) :
          includes[i].kind # "local" =>
            /\ \E u \in taken : u[1] = Key(includes[i])
            /\ {e.name : e \in took[i]} = Given(includes[i], SnapshotNames[cache[Key(includes[i])]])
    BY <2>1 DEF TreeInv, RemoteOK
  <2>4. \A u \in taken : cache[u[1]] = u[2]
    BY DEF TreeInv, CacheOK
  <2>5. ASSUME NEW i \in 1..Len(includes), includes[i].kind # "local"
        PROVE  /\ \E u \in taken : u[1] = Key(includes[i])
               /\ \A u \in taken : u[1] = Key(includes[i]) =>
                    {e.name : e \in took[i]} = Given(includes[i], SnapshotNames[u[2]])
    BY <2>3, <2>4, <2>5
  <2>6. QED
    BY <2>2, <2>5 DEF ListsTheSources
<1>2. QED
  BY <1>1, TreeInvHolds, PTL

\* When all names parse, the files come back in the order of their versions, as
\* numbers, then of their names.
THEOREM SortedInFull == TreeSpec => []SortedByVersion
<1>1. TreeInv => SortedByVersion
  <2>. SUFFICES ASSUME TreeInv, phase = "full",
                       \A i \in 1..Len(files) : Version[files[i].name] # <<>>,
                       NEW i \in 1..Len(files), NEW j \in 1..Len(files), i < j
                PROVE  LET v == Version[files[i].name]
                           w == Version[files[j].name]
                       IN  Less(v, w) \/ (~Less(w, v) /\ files[i].name <= files[j].name)
    BY DEF SortedByVersion
  <2>. DEFINE f == files[i]
              g == files[j]
              v == Version[f.name]
              w == Version[g.name]
  <2>1. f \in Entries /\ g \in Entries
    BY DEF TreeInv, TreeTypeOK
  <2>2. \A l \in 1..Len(files) : Parsed(files[l])
    BY DEF Parsed
  <2>3. Parsed(f) /\ Parsed(g) /\ ~FileLess(g, f)
    BY <2>2 DEF TreeInv, OrderOK, InFileOrder
  <2>4. /\ v \in Seq(Nat) /\ w \in Seq(Nat)
        /\ v # w => ~Precedes(w, v)
        /\ v = w => ~(g.name < f.name)
    BY <2>1, <2>3, FileLessDecides
  <2>5. f.name \in Int /\ g.name \in Int
    BY <2>1, EntryNames
  <2>. HIDE DEF f, g, v, w
  <2>6. CASE v # w
    <3>1. Precedes(v, w)
      BY <2>4, <2>6, PrecedesIsTotal
    <3>2. Less(v, w)
      BY <2>4, <3>1, PrecedesIsLess
    <3>3. QED
      BY <3>2 DEF f, g, v, w
  <2>7. CASE v = w
    <3>1. ~Less(w, v)
      BY <2>4, <2>7, LessIsIrreflexive
    <3>2. f.name <= g.name
      BY <2>4, <2>5, <2>7
    <3>3. QED
      BY <3>1, <3>2 DEF f, g, v, w
  <2>8. QED
    BY <2>6, <2>7
<1>2. QED
  BY <1>1, TreeInvHolds, PTL
=============================================================================
