----------------------------- MODULE Rcc_proofs -----------------------------
(***************************************************************************)
(* Proofs about rbrcc (Rcc.tla): that it keeps to its types, and that what *)
(* it writes is laid out as the search of QResource reads it.              *)
(*                                                                         *)
(* First facts about numbers, sequences and folds, then the tree that      *)
(* addFile builds (Trees: every child is newer than its parent and has one *)
(* parent), the order of children, and the traversals of a tree, told by   *)
(* what was visited (WalkOK).  On these rest the types (RccTypeOK), and    *)
(* the invariant of the traversals (WalkInv): what stands of the image     *)
(* when a set V of nodes has been visited.  The two traversals that have   *)
(* to agree, one that counts the children and one that writes them, are    *)
(* told by one trace, a function of the tree alone.                        *)
(***************************************************************************)
EXTENDS Rcc, FiniteSetTheorems, WellFoundedInduction, TLAPS

LEMMA NatMin ==
    ASSUME NEW T \in SUBSET Nat, T # {}
    PROVE  \E x \in T : \A y \in T : x <= y
<1> DEFINE R == {ss \in Nat \X Nat : ss[1] < ss[2]}
<1>1. IsWellFoundedOn(R, Nat)
  BY NatLessThanWellFounded DEF OpToRel
<1> HIDE DEF R
<1>2. PICK x \in T : \A y \in T : ~(<<y, x>> \in R)
  BY <1>1, WFMin
<1>3. \A y \in T : ~(y < x)
  BY <1>2 DEF R
<1> QED
  BY <1>3

LEMMA MaxIs ==
    ASSUME NEW n \in Nat, NEW T \in SUBSET (1 .. n), T # {}
    PROVE  Max(T) \in T /\ \A y \in T : y <= Max(T)
<1> DEFINE U == {k \in Nat : n - k \in T}
<1>1. PICK y \in T : TRUE
  OBVIOUS
<1>2. n - y \in Nat /\ n - (n - y) = y
  OBVIOUS
<1>3. U # {} /\ U \in SUBSET Nat
  BY <1>2
<1> HIDE DEF U
<1>4. PICK x \in U : \A z \in U : x <= z
  BY <1>3, NatMin
<1>5. x \in Nat /\ n - x \in T
  BY <1>4 DEF U
<1>6. \A z \in T : n - z \in U
  BY DEF U
<1>7. \A z \in T : n - x >= z
  BY <1>4, <1>5, <1>6
<1> QED
  BY <1>5, <1>7 DEF Max

LEMMA InSeq ==
    ASSUME NEW T, NEW s \in Seq(T)
    PROVE  Len(s) \in Nat /\ DOMAIN s = 1 .. Len(s) /\ \A i \in DOMAIN s : s[i] \in T
OBVIOUS

LEMMA Appended ==
    ASSUME NEW S, NEW s \in Seq(S), NEW e \in S
    PROVE  /\ Append(s, e) \in Seq(S) /\ Len(Append(s, e)) = Len(s) + 1
           /\ Append(s, e)[Len(s) + 1] = e
           /\ \A i \in DOMAIN s : i \in DOMAIN Append(s, e) /\ Append(s, e)[i] = s[i]
           /\ \A i \in DOMAIN Append(s, e) :
                 \/ i = Len(s) + 1 /\ Append(s, e)[i] = e
                 \/ i \in DOMAIN s /\ Append(s, e)[i] = s[i]
<1> DEFINE l == Len(s)
    u == Append(s, e)
<1>1. l \in Nat /\ DOMAIN s = 1 .. l
  OBVIOUS
<1>2. u \in Seq(S) /\ Len(u) = l + 1 /\ DOMAIN u = 1 .. l + 1
      /\ u[l + 1] = e /\ \A i \in 1 .. l : u[i] = s[i]
  OBVIOUS
<1> HIDE DEF l, u
<1>3. \A i \in 1 .. l + 1 : i = l + 1 \/ i \in 1 .. l
  BY <1>1
<1>4. \A i \in 1 .. l : i \in 1 .. l + 1
  BY <1>1
<1> QED
  BY <1>1, <1>2, <1>3, <1>4 DEF l, u

LEMMA FirstPart ==
    ASSUME NEW S, NEW s \in Seq(S), NEW k \in 0 .. Len(s)
    PROVE  /\ SubSeq(s, 1, k) \in Seq(S) /\ Len(SubSeq(s, 1, k)) = k
           /\ \A i \in 1 .. k : SubSeq(s, 1, k)[i] = s[i]
<1>1. k \in Nat /\ k <= Len(s) /\ Len(s) \in Nat
  OBVIOUS
<1> QED
  BY <1>1

(* A fold exists, and stays in a set that every one of its steps stays in. *)
Folds(g, base, n, F) ==
    \A s \in SUBSET (1 .. n) :
       g[s] = IF s = {} THEN base ELSE F[<<g[s \ {Max(s)}], Max(s)>>]
LEMMA FoldExists ==
    ASSUME NEW X, NEW base \in X, NEW n \in Nat, NEW F \in [X \X (1 .. n) -> X]
    PROVE  \E g \in [SUBSET (1 .. n) -> X] : Folds(g, base, n, F)
<1> DEFINE Good(k, g) ==
        \A s \in SUBSET (1 .. k) : g[s] = IF s = {} THEN base ELSE F[<<g[s \ {Max(s)}], Max(s)>>]
    Bad == {k \in 0 .. n : ~ \E g \in [SUBSET (1 .. k) -> X] : Good(k, g)}
<1> HIDE DEF Good
<1>1. SUFFICES ASSUME Bad # {} PROVE FALSE
  <2>1. n \in 0 .. n
    OBVIOUS
  <2>2. \E g \in [SUBSET (1 .. n) -> X] : Good(n, g)
    BY <1>1, <2>1
  <2> QED
    BY <2>2 DEF Good, Folds
<1>2. PICK k \in Bad : \A l \in Bad : k <= l
  <2>1. Bad \in SUBSET Nat
    OBVIOUS
  <2> HIDE DEF Bad
  <2> QED
    BY <1>1, <2>1, NatMin
<1>3. k # 0
  <2> SUFFICES ASSUME k = 0 PROVE FALSE
    OBVIOUS
  <2> DEFINE g == [s \in SUBSET (1 .. 0) |-> base]
  <2>1. g \in [SUBSET (1 .. k) -> X] /\ \A s \in SUBSET (1 .. k) : s = {}
    OBVIOUS
  <2>2. Good(k, g)
    BY <2>1 DEF Good
  <2>3. ~ \E f \in [SUBSET (1 .. k) -> X] : Good(k, f)
    BY <1>2
  <2> HIDE DEF g
  <2> QED
    BY <2>1, <2>2, <2>3
<1>4. k \in 1 .. n /\ k - 1 \in 0 .. n /\ k - 1 \notin Bad
  <2>1. k \in 0 .. n
    BY <1>2
  <2>2. ~ (k <= k - 1)
    BY <2>1
  <2> HIDE DEF Bad
  <2> QED
    BY <1>2, <1>3, <2>1, <2>2
<1>5. PICK h \in [SUBSET (1 .. k - 1) -> X] : Good(k - 1, h)
  BY <1>4
<1> DEFINE g == [s \in SUBSET (1 .. k) |->
                    IF s \in SUBSET (1 .. k - 1) THEN h[s] ELSE F[<<h[s \ {Max(s)}], Max(s)>>]]
<1>6. ASSUME NEW s \in SUBSET (1 .. k), s # {}
      PROVE  Max(s) \in s /\ s \ {Max(s)} \in SUBSET (1 .. k - 1)
  <2> HIDE DEF Bad, g
  <2>0. k \in Nat
    BY <1>4
  <2>1. Max(s) \in s /\ \A y \in s : y <= Max(s)
    BY <2>0, <1>6, MaxIs
  <2>2. ASSUME NEW y \in s \ {Max(s)} PROVE y \in 1 .. k - 1
    <3> DEFINE m == Max(s)
    <3>1. y \in 1 .. k /\ m \in 1 .. k /\ y <= m /\ y # m
      BY <2>1
    <3> HIDE DEF m
    <3> QED
      BY <2>0, <3>1
  <2> QED
    BY <2>1, <2>2
<1>7. g \in [SUBSET (1 .. k) -> X]
  <2> SUFFICES ASSUME NEW s \in SUBSET (1 .. k), s \notin SUBSET (1 .. k - 1)
               PROVE  F[<<h[s \ {Max(s)}], Max(s)>>] \in X
    OBVIOUS
  <2>1. s # {}
    OBVIOUS
  <2>2. h[s \ {Max(s)}] \in X /\ Max(s) \in 1 .. n
    BY <1>4, <1>6, <2>1
  <2> QED
    BY <2>2
<1>8. Good(k, g)
  <2> SUFFICES ASSUME NEW s \in SUBSET (1 .. k)
               PROVE  g[s] = IF s = {} THEN base ELSE F[<<g[s \ {Max(s)}], Max(s)>>]
    BY DEF Good
  <2>1. CASE s = {}
    <3>1. s \in SUBSET (1 .. k - 1)
      BY <2>1
    <3> QED
      BY <1>5, <2>1, <3>1 DEF Good
  <2>2. CASE s # {}
    <3>1. s \ {Max(s)} \in SUBSET (1 .. k - 1) /\ s \ {Max(s)} \in SUBSET (1 .. k)
      BY <1>4, <1>6, <2>2
    <3>2. g[s \ {Max(s)}] = h[s \ {Max(s)}]
      BY <3>1
    <3>3. g[s] = F[<<h[s \ {Max(s)}], Max(s)>>]
      BY <1>5, <2>2 DEF Good
    <3> QED
      BY <2>2, <3>2, <3>3
  <2> QED
    BY <2>1, <2>2
<1>9. ~ \E f \in [SUBSET (1 .. k) -> X] : Good(k, f)
  BY <1>2
<1> HIDE DEF g, Bad
<1> QED
  BY <1>7, <1>8, <1>9

LEMMA FoldStays ==
    ASSUME NEW X, NEW n \in Nat, NEW f, f[{}] \in X,
           \A s \in SUBSET (1 .. n) : s # {} /\ f[s \ {Max(s)}] \in X => f[s] \in X
    PROVE  f[1 .. n] \in X
<1> DEFINE Bad == {k \in 0 .. n : \E s \in SUBSET (1 .. k) : f[s] \notin X}
<1>1. SUFFICES ASSUME Bad # {} PROVE FALSE
  BY n \in 0 .. n
<1>2. PICK k \in Bad : \A l \in Bad : k <= l
  <2>1. Bad \in SUBSET Nat
    OBVIOUS
  <2> HIDE DEF Bad
  <2> QED
    BY <1>1, <2>1, NatMin
<1>3. PICK s \in SUBSET (1 .. k) : f[s] \notin X
  BY <1>2
<1>4. s # {}
  BY <1>3
<1>5. k \in 1 .. n /\ k - 1 \in 0 .. n /\ k - 1 \notin Bad
  <2>1. k \in 0 .. n /\ k # 0
    <3>1. k \in 0 .. n
      BY <1>2
    <3>2. k # 0
      <4> HIDE DEF Bad
      <4>1. PICK y \in 1 .. k : TRUE
        BY <1>4
      <4> QED
        BY <3>1, <4>1
    <3> HIDE DEF Bad
    <3> QED
      BY <3>1, <3>2
  <2>2. ~ (k <= k - 1)
    BY <2>1
  <2> HIDE DEF Bad
  <2> QED
    BY <1>2, <2>1, <2>2
<1>6. s \ {Max(s)} \in SUBSET (1 .. k - 1)
  <2> HIDE DEF Bad
  <2>1. k \in Nat
    BY <1>5
  <2>2. Max(s) \in s /\ \A y \in s : y <= Max(s)
    BY <1>4, <2>1, MaxIs
  <2>3. ASSUME NEW y \in s \ {Max(s)} PROVE y \in 1 .. k - 1
    <3> DEFINE m == Max(s)
    <3>1. y \in 1 .. k /\ m \in 1 .. k /\ y <= m /\ y # m
      BY <2>2
    <3> HIDE DEF m
    <3> QED
      BY <2>1, <3>1
  <2> QED
    BY <2>3
<1>7. f[s \ {Max(s)}] \in X
  BY <1>5, <1>6
<1>8. s \in SUBSET (1 .. n)
  BY <1>5
<1> HIDE DEF Bad
<1> QED
  BY <1>3, <1>4, <1>7, <1>8

----------------------------------------------------------------------------
(* InOrderOf puts every element in its place.                              *)
Orders(R, S) ==
    /\ R \subseteq S \X S
    /\ \A m \in S : <<m, m>> \notin R
    /\ \A m, n \in S : m = n \/ <<m, n>> \in R \/ <<n, m>> \in R
    /\ \A l, m, n \in S : <<l, m>> \in R /\ <<m, n>> \in R => <<l, n>> \in R
Rank(R, S) == [n \in S |-> Cardinality({m \in S : <<m, n>> \in R})]

LEMMA Ranked ==
    ASSUME NEW S, IsFiniteSet(S), NEW R, Orders(R, S)
    PROVE  /\ Rank(R, S) \in Bijection(S, 0 .. Cardinality(S) - 1)
           /\ \A m, n \in S : <<m, n>> \in R => Rank(R, S)[m] < Rank(R, S)[n]
<1> DEFINE below(n) == {m \in S : <<m, n>> \in R}
    rank == Rank(R, S)
    places == 0 .. Cardinality(S) - 1
<1>0. Cardinality(S) \in Nat
  BY FS_CardinalityType
<1>1. ASSUME NEW n \in S
      PROVE  /\ IsFiniteSet(below(n)) /\ Cardinality(below(n)) \in Nat
             /\ rank[n] = Cardinality(below(n)) /\ Cardinality(below(n)) < Cardinality(S)
  <2>1. below(n) \in SUBSET S /\ n \notin below(n)
    BY DEF Orders
  <2>2. IsFiniteSet(below(n)) /\ Cardinality(below(n)) <= Cardinality(S)
        /\ Cardinality(below(n)) # Cardinality(S)
    <3> HIDE DEF below
    <3> QED
      BY <2>1, FS_Subset
  <2>3. Cardinality(below(n)) \in Nat
    <3> HIDE DEF below
    <3> QED
      BY <2>2, FS_CardinalityType
  <2>4. rank[n] = Cardinality(below(n))
    BY DEF Rank
  <2> HIDE DEF below
  <2> QED
    BY <1>0, <2>2, <2>3, <2>4
<1>2. ASSUME NEW m \in S, NEW n \in S, <<m, n>> \in R
      PROVE  rank[m] < rank[n]
  <2>1. below(m) \cup {m} \in SUBSET below(n) /\ m \notin below(m)
    BY <1>2 DEF Orders
  <2>2. Cardinality(below(m) \cup {m}) = Cardinality(below(m)) + 1
    <3>1. IsFiniteSet(below(m))
      BY <1>1
    <3> HIDE DEF below
    <3> QED
      BY <2>1, <3>1, FS_AddElement
  <2>3. Cardinality(below(m) \cup {m}) <= Cardinality(below(n))
    <3>1. IsFiniteSet(below(n))
      BY <1>1
    <3> HIDE DEF below
    <3> QED
      BY <2>1, <3>1, FS_Subset
  <2>4. rank[m] = Cardinality(below(m)) /\ rank[n] = Cardinality(below(n))
        /\ Cardinality(below(m)) \in Nat /\ Cardinality(below(n)) \in Nat
    BY <1>1
  <2> HIDE DEF below, rank
  <2> QED
    BY <2>2, <2>3, <2>4
<1>3. rank \in [S -> places]
  <2>1. \A n \in S : rank[n] \in places
    <3> SUFFICES ASSUME NEW n \in S PROVE rank[n] \in places
      OBVIOUS
    <3>1. Cardinality(below(n)) \in Nat /\ rank[n] = Cardinality(below(n))
          /\ Cardinality(below(n)) < Cardinality(S)
      BY <1>1
    <3> HIDE DEF below, rank
    <3> QED
      BY <1>0, <3>1
  <2>2. rank = [n \in S |-> rank[n]]
    BY DEF Rank
  <2> HIDE DEF rank, places
  <2> QED
    BY <2>1, <2>2
<1>4. IsInjective(rank)
  <2> SUFFICES ASSUME NEW m \in S, NEW n \in S, rank[m] = rank[n] PROVE m = n
    BY <1>3 DEF IsInjective
  <2>1. m = n \/ <<m, n>> \in R \/ <<n, m>> \in R
    BY DEF Orders
  <2>2. rank[m] \in Nat /\ rank[n] \in Nat
    BY <1>1
  <2> HIDE DEF rank
  <2> QED
    BY <1>2, <2>1, <2>2
<1>5. rank \in Injection(S, places)
  BY <1>3, <1>4 DEF Injection
<1>6. IsFiniteSet(places) /\ Cardinality(places) = Cardinality(S)
  BY <1>0, FS_Interval
<1>7. rank \in Surjection(S, places)
  <2> HIDE DEF rank, places
  <2> QED
    BY <1>5, <1>6, FS_Injection
<1> HIDE DEF rank, places
<1>8. rank \in Bijection(S, places)
  BY <1>5, <1>7 DEF Bijection
<1> QED
  BY <1>2, <1>8 DEF rank, places

Arrangement(R, ns) ==
    [i \in DOMAIN ns |-> CHOOSE n \in Range(ns) : Rank(R, Range(ns))[n] = i - 1]

LEMMA Arranged ==
    ASSUME NEW S, NEW ns \in Seq(S), IsInjective(ns), NEW R, Orders(R, Range(ns)),
           NEW out, out = Arrangement(R, ns)
    PROVE  /\ out \in Seq(S) /\ Len(out) = Len(ns) /\ Range(out) = Range(ns) /\ IsInjective(out)
           /\ \A i, j \in DOMAIN out : i < j => <<out[i], out[j]>> \in R
<1> DEFINE T == Range(ns)
    rank == Rank(R, T)
<1>0. out = [i \in DOMAIN ns |-> CHOOSE n \in T : rank[n] = i - 1]
  BY DEF Arrangement
<1>1. Len(ns) \in Nat /\ DOMAIN ns = 1 .. Len(ns)
  OBVIOUS
<1>2. IsFiniteSet(T) /\ Cardinality(T) = Len(ns)
  <2>1. ns \in Bijection(1 .. Len(ns), T)
    <3>1. ns \in [1 .. Len(ns) -> T]
      BY DEF Range
    <3>2. \A t \in T : \E i \in 1 .. Len(ns) : ns[i] = t
      BY <1>1 DEF Range
    <3> QED
      BY <3>1, <3>2 DEF Bijection, Injection, Surjection
  <2>2. IsFiniteSet(1 .. Len(ns)) /\ Cardinality(1 .. Len(ns)) = Len(ns)
    <3>1. 1 \in Int /\ Len(ns) \in Int /\ Len(ns) - 1 + 1 = Len(ns) /\ (1 > Len(ns) => Len(ns) = 0)
      BY <1>1
    <3>2. IsFiniteSet(1 .. Len(ns))
          /\ Cardinality(1 .. Len(ns)) = IF 1 > Len(ns) THEN 0 ELSE Len(ns) - 1 + 1
      BY ONLY <3>1, FS_Interval
    <3> QED
      BY ONLY <3>1, <3>2
  <2>3. ExistsBijection(1 .. Len(ns), T)
    BY <2>1 DEF ExistsBijection
  <2> HIDE DEF T
  <2> QED
    BY <2>2, <2>3, FS_Bijection
<1>3. rank \in Bijection(T, 0 .. Len(ns) - 1)
      /\ \A m, n \in T : <<m, n>> \in R => rank[m] < rank[n]
  BY <1>2, Ranked
<1>4. ASSUME NEW i \in 1 .. Len(ns) PROVE out[i] \in T /\ rank[out[i]] = i - 1
  <2>1. i - 1 \in 0 .. Len(ns) - 1
    BY <1>1
  <2>2. \E n \in T : rank[n] = i - 1
    <3> HIDE DEF rank
    <3> QED
      BY <1>3, <2>1 DEF Bijection, Surjection
  <2>3. out[i] = CHOOSE n \in T : rank[n] = i - 1
    BY <1>0, <1>1
  <2> HIDE DEF rank, T
  <2> QED
    BY <2>2, <2>3
<1>5. DOMAIN out = 1 .. Len(ns)
  BY <1>0, <1>1
<1>6. out \in Seq(S) /\ Len(out) = Len(ns)
  <2>1. T \subseteq S
    BY DEF Range
  <2>2. out = [i \in 1 .. Len(ns) |-> out[i]]
    BY <1>0, <1>1
  <2>3. \A i \in 1 .. Len(ns) : out[i] \in S
    BY <1>4, <2>1
  <2> HIDE DEF T
  <2> QED
    BY <1>1, <2>2, <2>3, <1>5
<1>7. rank \in [T -> 0 .. Len(ns) - 1] /\ \A m, n \in T : rank[m] = rank[n] => m = n
  <2> HIDE DEF rank, T
  <2> QED
    BY <1>3 DEF Bijection, Injection, IsInjective
<1>8. Range(out) = T
  <2>1. ASSUME NEW n \in T PROVE n \in Range(out)
    <3> HIDE DEF rank, T
    <3>1. rank[n] \in 0 .. Len(ns) - 1
      BY <1>7
    <3>2. PICK i \in 1 .. Len(ns) : i - 1 = rank[n]
      <4>1. rank[n] + 1 \in 1 .. Len(ns) /\ (rank[n] + 1) - 1 = rank[n]
        BY <1>1, <3>1
      <4> QED
        BY <4>1
    <3>3. out[i] \in T /\ rank[out[i]] = rank[n]
      BY <1>4, <3>2
    <3>4. out[i] = n
      BY <1>7, <3>3
    <3> QED
      BY <1>5, <3>4 DEF Range
  <2>2. ASSUME NEW n \in Range(out) PROVE n \in T
    <3> HIDE DEF T
    <3> QED
      BY <1>4, <1>5 DEF Range
  <2> QED
    BY <2>1, <2>2
<1>9. IsInjective(out)
  <2> HIDE DEF rank, T
  <2> SUFFICES ASSUME NEW i \in 1 .. Len(ns), NEW j \in 1 .. Len(ns), out[i] = out[j] PROVE i = j
    BY <1>5 DEF IsInjective
  <2>1. i - 1 = j - 1
    BY <1>4
  <2> QED
    BY <1>1, <2>1
<1>10. ASSUME NEW i \in DOMAIN out, NEW j \in DOMAIN out, i < j PROVE <<out[i], out[j]>> \in R
  <2>1. i \in Nat /\ j \in Nat
    BY <1>5
  <2>2. out[i] \in T /\ out[j] \in T /\ rank[out[i]] = i - 1 /\ rank[out[j]] = j - 1
    BY <1>4, <1>5
  <2>3. \/ out[i] = out[j] \/ <<out[i], out[j]>> \in R \/ <<out[j], out[i]>> \in R
    BY <2>2 DEF Orders
  <2> HIDE DEF rank, T
  <2>4. ~ (j - 1 < i - 1) /\ i - 1 # j - 1
    BY <1>10, <2>1
  <2> QED
    BY <1>3, <2>2, <2>3, <2>4
<1> QED
  BY <1>6, <1>8, <1>9, <1>10
----------------------------------------------------------------------------
(* Paths.                                                                  *)
Paths == Seq(FileNames)

LEMMA PathParts ==
    ASSUME NEW p \in Paths, p # <<>>
    PROVE  Last(p) \in FileNames /\ Front(p) \in Paths
<1>1. Len(p) \in Nat \ {0}
  BY DEF Paths
<1>2. Len(p) \in 1 .. Len(p) /\ Len(p) - 1 \in Nat
  BY <1>1
<1> QED
  BY <1>2 DEF Paths, Last, Front

LEMMA WithoutParentsIs ==
    ASSUME NEW path \in Paths
    PROVE  WithoutParents(path) \in Paths \ {<<>>}
<1> DEFINE n == Len(path)
    next(r, s) == IF s = ".." THEN r ELSE Append(r, s)
    F == [x \in Paths \X (1 .. n) |-> next(x[1], path[x[2]])]
    Is(f) == f = [s \in SUBSET DOMAIN path |->
                    IF s = {} THEN <<>> ELSE next(f[s \ {Max(s)}], path[Max(s)])]
<1>1. n \in Nat /\ DOMAIN path = 1 .. n /\ \A i \in 1 .. n : path[i] \in FileNames
  BY DEF Paths
<1>2. F \in [Paths \X (1 .. n) -> Paths] /\ <<>> \in Paths
  <2>1. ASSUME NEW r \in Paths, NEW i \in 1 .. n PROVE next(r, path[i]) \in Paths
    BY <1>1 DEF Paths
  <2> HIDE DEF next, n
  <2> QED
    BY <2>1 DEF Paths
<1>3. \E f : Is(f)
  <2> HIDE DEF F, n
  <2>1. PICK g \in [SUBSET (1 .. n) -> Paths] : Folds(g, <<>>, n, F)
    BY <1>1, <1>2, FoldExists
  <2>2. ASSUME NEW s \in SUBSET (1 .. n), s # {}
        PROVE  F[<<g[s \ {Max(s)}], Max(s)>>] = next(g[s \ {Max(s)}], path[Max(s)])
    <3>1. Max(s) \in 1 .. n
      BY <1>1, <2>2, MaxIs
    <3>2. g[s \ {Max(s)}] \in Paths
      BY <2>1
    <3> QED
      BY <3>1, <3>2 DEF F
  <2>3. Is(g)
    BY <1>1, <2>1, <2>2 DEF Folds
  <2> QED
    BY <2>3
<1> DEFINE fold == CHOOSE f : Is(f)
<1>4. Is(fold)
  <2> HIDE DEF Is
  <2> QED
    BY <1>3
<1>5. FoldLeft(next, <<>>, path) = fold[DOMAIN path]
  BY DEF FoldLeft, MapThenFoldSet
<1> HIDE DEF fold
<1>6. fold[1 .. n] \in Paths
  <2>1. fold[{}] \in Paths
    BY <1>4, <1>2
  <2>2. ASSUME NEW s \in SUBSET (1 .. n), s # {}, fold[s \ {Max(s)}] \in Paths
        PROVE  fold[s] \in Paths
    <3>1. Max(s) \in 1 .. n
      BY <1>1, <2>2, MaxIs
    <3>2. fold[s] = next(fold[s \ {Max(s)}], path[Max(s)])
      BY <1>1, <1>4, <2>2
    <3>3. next(fold[s \ {Max(s)}], path[Max(s)]) \in Paths
      BY <1>1, <2>2, <3>1 DEF Paths
    <3> QED
      BY <3>2, <3>3
  <2> HIDE DEF n, Is, next, F
  <2> QED
    BY <1>1, <2>1, <2>2, FoldStays
<1>7. FoldLeft(next, <<>>, path) \in Paths
  BY <1>1, <1>5, <1>6
<1>8. <<"..">> \in Paths \ {<<>>}
  <2>1. ".." \in FileNames
    BY NameAssumption
  <2>2. <<"..">> \in Seq(FileNames) /\ Len(<<"..">>) # Len(<<>>)
    BY <2>1
  <2> QED
    BY <2>2 DEF Paths
<1> QED
  BY <1>7, <1>8 DEF WithoutParents

LEMMA CleanPathIs ==
    ASSUME NEW path \in Paths
    PROVE  CleanPath(path) \in Paths \ {<<>>}
<1> DEFINE n == Len(path)
    next(r, s) == CASE s = "." -> r
                    [] s = ".." /\ r # <<>> /\ Last(r) # ".." -> Front(r)
                    [] OTHER -> Append(r, s)
    F == [x \in Paths \X (1 .. n) |-> next(x[1], path[x[2]])]
    Is(f) == f = [s \in SUBSET DOMAIN path |->
                    IF s = {} THEN <<>> ELSE next(f[s \ {Max(s)}], path[Max(s)])]
<1>1. n \in Nat /\ DOMAIN path = 1 .. n /\ \A i \in 1 .. n : path[i] \in FileNames
  BY DEF Paths
<1>2. F \in [Paths \X (1 .. n) -> Paths] /\ <<>> \in Paths
  <2>1. ASSUME NEW r \in Paths, NEW i \in 1 .. n PROVE next(r, path[i]) \in Paths
    <3>1. r # <<>> => Front(r) \in Paths
      BY PathParts
    <3>2. Append(r, path[i]) \in Paths
      BY <1>1 DEF Paths
    <3> QED
      BY <3>1, <3>2
  <2> HIDE DEF next, n
  <2> QED
    BY <2>1 DEF Paths
<1>3. \E f : Is(f)
  <2> HIDE DEF F, n
  <2>1. PICK g \in [SUBSET (1 .. n) -> Paths] : Folds(g, <<>>, n, F)
    BY <1>1, <1>2, FoldExists
  <2>2. ASSUME NEW s \in SUBSET (1 .. n), s # {}
        PROVE  F[<<g[s \ {Max(s)}], Max(s)>>] = next(g[s \ {Max(s)}], path[Max(s)])
    <3>1. Max(s) \in 1 .. n
      BY <1>1, <2>2, MaxIs
    <3>2. g[s \ {Max(s)}] \in Paths
      BY <2>1
    <3> QED
      BY <3>1, <3>2 DEF F
  <2>3. Is(g)
    BY <1>1, <2>1, <2>2 DEF Folds
  <2> QED
    BY <2>3
<1> DEFINE fold == CHOOSE f : Is(f)
<1>4. Is(fold)
  <2> HIDE DEF Is
  <2> QED
    BY <1>3
<1>5. FoldLeft(next, <<>>, path) = fold[DOMAIN path]
  BY DEF FoldLeft, MapThenFoldSet
<1> HIDE DEF fold
<1>6. fold[1 .. n] \in Paths
  <2>1. fold[{}] \in Paths
    BY <1>4, <1>2
  <2>2. ASSUME NEW s \in SUBSET (1 .. n), s # {}, fold[s \ {Max(s)}] \in Paths
        PROVE  fold[s] \in Paths
    <3>1. Max(s) \in 1 .. n
      BY <1>1, <2>2, MaxIs
    <3>2. fold[s] = next(fold[s \ {Max(s)}], path[Max(s)])
      BY <1>1, <1>4, <2>2
    <3>3. next(fold[s \ {Max(s)}], path[Max(s)]) \in Paths
      <4> DEFINE r == fold[s \ {Max(s)}]
      <4>1. r # <<>> => Front(r) \in Paths
        BY <2>2, PathParts
      <4>2. Append(r, path[Max(s)]) \in Paths
        BY <1>1, <2>2, <3>1 DEF Paths
      <4> HIDE DEF r
      <4> QED
        BY <2>2, <4>1, <4>2 DEF r
    <3> QED
      BY <3>2, <3>3
  <2> HIDE DEF n, Is, next, F
  <2> QED
    BY <1>1, <2>1, <2>2, FoldStays
<1>7. FoldLeft(next, <<>>, path) \in Paths
  BY <1>1, <1>5, <1>6
<1>8. <<".">> \in Paths \ {<<>>}
  <2>1. "." \in FileNames
    BY NameAssumption
  <2>2. <<".">> \in Seq(FileNames) /\ Len(<<".">>) # Len(<<>>)
    BY <2>1
  <2> QED
    BY <2>2 DEF Paths
<1> QED
  BY <1>7, <1>8 DEF CleanPath

Locale == Range(Locales) \cup {CLocale}
FileInfo ==
    [name : FileNames, file : DOMAIN Disk \cup {<<>>}, directory : BOOLEAN,
     compressed : BOOLEAN, locale : Locale, level : Int, threshold : Int,
     children : Seq(Nat), nameOffset : Nat, dataOffset : Nat, childOffset : Nat]
Trees ==
    {t \in Seq(FileInfo) :
        /\ t # <<>> => t[1].directory
        /\ \A p \in DOMAIN t :
              /\ ~t[p].directory => t[p].file \in DOMAIN Disk
              /\ \A i \in DOMAIN t[p].children : t[p].children[i] \in p + 1 .. Len(t)
        /\ \A p, q \in DOMAIN t : \A i \in DOMAIN t[p].children, j \in DOMAIN t[q].children :
              t[p].children[i] = t[q].children[j] => p = q /\ i = j}

LEMMA TreeIs ==
    ASSUME NEW t \in Trees
    PROVE  /\ t \in Seq(FileInfo) /\ Len(t) \in Nat /\ DOMAIN t = 1 .. Len(t)
           /\ \A p \in DOMAIN t : /\ t[p] \in FileInfo
                                  /\ t[p].children \in Seq(DOMAIN t)
                                  /\ IsInjective(t[p].children)
<1>1. t \in Seq(FileInfo) /\ Len(t) \in Nat /\ DOMAIN t = 1 .. Len(t)
  BY DEF Trees
<1>2. ASSUME NEW p \in DOMAIN t
      PROVE  t[p] \in FileInfo /\ t[p].children \in Seq(DOMAIN t) /\ IsInjective(t[p].children)
  <2>1. t[p] \in FileInfo
    BY <1>1, <1>2
  <2> DEFINE c == t[p].children
  <2>2. c \in Seq(Nat) /\ \A i \in DOMAIN c : c[i] \in p + 1 .. Len(t)
    BY <1>2, <2>1 DEF Trees, FileInfo
  <2>3. \A i, j \in DOMAIN c : c[i] = c[j] => i = j
    BY <1>2 DEF Trees
  <2> HIDE DEF c
  <2>4. \A i \in DOMAIN c : c[i] \in DOMAIN t
    BY <1>1, <1>2, <2>2
  <2>5. c \in Seq(DOMAIN t)
    BY <2>2, <2>4
  <2> QED
    BY <2>1, <2>3, <2>5 DEF c, IsInjective
<1> QED
  BY <1>1, <1>2

New(info) ==
    /\ info \in FileInfo /\ info.children = <<>>
    /\ ~info.directory => info.file \in DOMAIN Disk
LEMMA InsertIs ==
    ASSUME NEW t \in Trees, NEW parent \in DOMAIN t, NEW info, New(info)
    PROVE  Insert(t, parent, info) \in Trees /\ Len(Insert(t, parent, info)) = Len(t) + 1
<1> DEFINE n == Len(t)
    grown == Append(t[parent].children, n + 1)
    one == [t EXCEPT ![parent].children = grown]
    all == Append(one, info)
<1>1. t \in Seq(FileInfo) /\ n \in Nat /\ DOMAIN t = 1 .. n /\ \A p \in DOMAIN t : t[p] \in FileInfo
  BY TreeIs
<1>2. grown \in Seq(Nat) /\ t[parent].children \in Seq(Nat)
  <2> HIDE DEF n
  <2>1. t[parent] \in FileInfo /\ n + 1 \in Nat
    BY <1>1
  <2>2. t[parent].children \in Seq(Nat)
    BY <2>1 DEF FileInfo
  <2> QED
    BY <2>1, <2>2
<1>3. one \in Seq(FileInfo) /\ Len(one) = n
  <2>1. [t[parent] EXCEPT !.children = grown] \in FileInfo
    BY <1>1, <1>2 DEF FileInfo
  <2> HIDE DEF grown
  <2>2. one = [t EXCEPT ![parent] = [t[parent] EXCEPT !.children = grown]]
    OBVIOUS
  <2> QED
    BY <1>1, <2>1, <2>2
<1>4. all \in Seq(FileInfo) /\ Len(all) = n + 1 /\ DOMAIN all = 1 .. n + 1
  <2> HIDE DEF one
  <2> QED
    BY <1>1, <1>3 DEF New
<1>5. /\ \A p \in 1 .. n : all[p] = IF p = parent THEN [t[p] EXCEPT !.children = grown] ELSE t[p]
      /\ all[n + 1] = info
  <2>1. \A p \in 1 .. n : one[p] = IF p = parent THEN [t[p] EXCEPT !.children = grown] ELSE t[p]
    <3> HIDE DEF grown
    <3> QED
      BY <1>1
  <2> HIDE DEF one, grown
  <2> QED
    BY <1>1, <1>3, <2>1
<1>6. \A p \in 1 .. n : /\ all[p].directory = t[p].directory /\ all[p].file = t[p].file
                         /\ all[p].children = IF p = parent THEN grown ELSE t[p].children
  <2> SUFFICES ASSUME NEW p \in 1 .. n
               PROVE  /\ all[p].directory = t[p].directory /\ all[p].file = t[p].file
                      /\ all[p].children = IF p = parent THEN grown ELSE t[p].children
    OBVIOUS
  <2>1. t[p] \in FileInfo
    BY <1>1
  <2> HIDE DEF all, grown
  <2> QED
    BY <1>5, <2>1 DEF FileInfo
<1> HIDE DEF all
<1>7. all # <<>> /\ all[1].directory
  <2>1. t # <<>> /\ 1 \in 1 .. n
    BY <1>1
  <2>2. t[1].directory
    BY <2>1 DEF Trees
  <2> QED
    BY <1>4, <1>6, <2>1, <2>2
<1>8. ASSUME NEW p \in DOMAIN all
      PROVE  /\ ~all[p].directory => all[p].file \in DOMAIN Disk
             /\ \A i \in DOMAIN all[p].children : all[p].children[i] \in p + 1 .. n + 1
  <2>1. CASE p = n + 1
    BY <1>5, <2>1 DEF New
  <2>2. CASE p \in 1 .. n
    <3>1. /\ ~t[p].directory => t[p].file \in DOMAIN Disk
          /\ t[p].children \in Seq(Nat)
          /\ \A i \in DOMAIN t[p].children : t[p].children[i] \in p + 1 .. n
      BY <1>1, <2>2 DEF Trees, FileInfo
    <3>2. ASSUME NEW i \in DOMAIN all[p].children
          PROVE  all[p].children[i] \in p + 1 .. n + 1
      <4>1. CASE p # parent
        BY <1>1, <1>6, <2>2, <3>1, <4>1
      <4>2. CASE p = parent
        <5>1. all[p].children = Append(t[p].children, n + 1)
          BY <1>6, <2>2, <4>2
        <5>2. all[p].children[i] = n + 1 \/ all[p].children[i] \in p + 1 .. n
          BY <3>1, <5>1
        <5> QED
          BY <1>1, <2>2, <5>2
      <4> QED
        BY <4>1, <4>2
    <3> QED
      BY <1>6, <2>2, <3>1, <3>2
  <2> QED
    BY <1>1, <1>4, <2>1, <2>2
<1>9. ASSUME NEW p \in DOMAIN all, NEW q \in DOMAIN all,
             NEW i \in DOMAIN all[p].children, NEW j \in DOMAIN all[q].children,
             all[p].children[i] = all[q].children[j]
      PROVE  p = q /\ i = j
  <2>1. p \in 1 .. n /\ q \in 1 .. n
    BY <1>1, <1>4, <1>5 DEF New
  <2>2. ASSUME NEW r \in 1 .. n
        PROVE  /\ t[r].children \in Seq(Nat)
               /\ \A k \in DOMAIN t[r].children : t[r].children[k] \in 1 .. n
    <3>1. t[r] \in FileInfo /\ \A k \in DOMAIN t[r].children : t[r].children[k] \in r + 1 .. n
      BY <1>1 DEF Trees
    <3> QED
      BY <1>1, <3>1 DEF FileInfo
  <2>3. ASSUME NEW r \in 1 .. n, NEW k \in DOMAIN all[r].children
        PROVE  \/ /\ k \in DOMAIN t[r].children /\ all[r].children[k] = t[r].children[k]
                  /\ all[r].children[k] \in 1 .. n
               \/ r = parent /\ k = Len(t[r].children) + 1 /\ all[r].children[k] = n + 1
    <3>1. CASE r # parent
      BY <1>6, <2>2, <2>3, <3>1
    <3>2. CASE r = parent
      <4>1. all[r].children = grown /\ t[r].children \in Seq(Nat)
        BY <1>6, <2>2, <3>2
      <4>2. k \in 1 .. Len(t[r].children) + 1
        BY <2>3, <3>2, <4>1
      <4>3. CASE k = Len(t[r].children) + 1
        BY <3>2, <4>1, <4>3
      <4>4. CASE k \in 1 .. Len(t[r].children)
        <5>1. k \in DOMAIN t[r].children /\ all[r].children[k] = t[r].children[k]
          BY <3>2, <4>1, <4>4
        <5> QED
          BY <2>2, <5>1
      <4> QED
        BY <4>1, <4>2, <4>3, <4>4
    <3> QED
      BY <3>1, <3>2
  <2>4. \A a, b \in DOMAIN t : \A k \in DOMAIN t[a].children, l \in DOMAIN t[b].children :
           t[a].children[k] = t[b].children[l] => a = b /\ k = l
    BY DEF Trees
  <2> HIDE DEF grown
  <2>5. ~ (n + 1 \in 1 .. n)
    BY <1>1
  <2> HIDE DEF n
  <2> QED
    BY <1>1, <1>9, <2>1, <2>3, <2>4, <2>5
<1> QED
  BY <1>4, <1>7, <1>8, <1>9 DEF Insert, Trees, all

(* addFile: the loop that looks for the directory of a file.               *)
Places == {r \in [tree : Trees, parent : Nat] : r.parent \in DOMAIN r.tree}
Enter(r, name) ==
    IF ChildrenCalled(r.tree, r.parent, name) # {}
    THEN [r EXCEPT !.parent = Max(ChildrenCalled(r.tree, r.parent, name))]
    ELSE [tree |-> Insert(r.tree, r.parent, ImpliedDirectory(name)), parent |-> Len(r.tree) + 1]

LEMMA ImpliedIsNew ==
    ASSUME NEW name \in FileNames
    PROVE  New(ImpliedDirectory(name)) /\ ImpliedDirectory(name).directory
<1>1. CLocale \in Locale
  BY DEF Locale
<1>2. <<>> \in Seq(Nat) /\ -1 \in Int /\ 70 \in Int
  OBVIOUS
<1> QED
  BY <1>1, <1>2 DEF New, FileInfo, ImpliedDirectory, RCCFileInfo

LEMMA EnterIs ==
    ASSUME NEW r \in Places, NEW name \in FileNames
    PROVE  Enter(r, name) \in Places
<1> DEFINE t == r.tree
    p == r.parent
<1>1. t \in Trees /\ p \in DOMAIN t /\ p \in Nat
  BY DEF Places
<1>2. Len(t) \in Nat /\ DOMAIN t = 1 .. Len(t) /\ t[p].children \in Seq(DOMAIN t)
  BY <1>1, TreeIs
<1>3. CASE ChildrenCalled(t, p, name) # {}
  <2>1. ChildrenCalled(t, p, name) \in SUBSET (1 .. Len(t))
    BY <1>2 DEF ChildrenCalled, Range
  <2>2. Max(ChildrenCalled(t, p, name)) \in 1 .. Len(t)
    <3> HIDE DEF t, p
    <3> QED
      BY <1>2, <1>3, <2>1, MaxIs
  <2>3. Enter(r, name) = [r EXCEPT !.parent = Max(ChildrenCalled(t, p, name))]
    BY <1>3 DEF Enter
  <2> DEFINE m == Max(ChildrenCalled(t, p, name))
  <2> HIDE DEF m
  <2>4. Enter(r, name) = [tree |-> t, parent |-> m]
    BY <2>3 DEF Places, m
  <2>5. m \in DOMAIN t /\ m \in Nat
    BY <1>2, <2>2 DEF m
  <2> QED
    BY <1>1, <2>4, <2>5 DEF Places
<1>4. CASE ChildrenCalled(t, p, name) = {}
  <2>1. Enter(r, name) = [tree |-> Insert(t, p, ImpliedDirectory(name)), parent |-> Len(t) + 1]
    BY <1>4 DEF Enter
  <2>2. Insert(t, p, ImpliedDirectory(name)) \in Trees
        /\ Len(Insert(t, p, ImpliedDirectory(name))) = Len(t) + 1
    BY <1>1, ImpliedIsNew, InsertIs
  <2> DEFINE u == Insert(t, p, ImpliedDirectory(name))
  <2> HIDE DEF u, t
  <2>3. u \in Trees /\ DOMAIN u = 1 .. Len(t) + 1
    BY <2>2, TreeIs DEF u
  <2>4. Len(t) + 1 \in DOMAIN u /\ Len(t) + 1 \in Nat
    BY <1>2, <2>3
  <2> QED
    BY <2>1, <2>3, <2>4 DEF Places, u
<1> QED
  BY <1>3, <1>4

FirstPlace(tree) == [tree |-> IF tree = <<>> THEN <<ImpliedDirectory("")>> ELSE tree, parent |-> 1]
LEMMA FirstPlaceIs ==
    ASSUME NEW tree \in Trees
    PROVE  FirstPlace(tree) \in Places
<1> DEFINE first == <<ImpliedDirectory("")>>
<1>1. first \in Trees
  <2>1. New(ImpliedDirectory("")) /\ ImpliedDirectory("").directory
    BY ImpliedIsNew, NameAssumption
  <2> DEFINE d == ImpliedDirectory("")
  <2> HIDE DEF d
  <2>2. d \in FileInfo /\ d.directory /\ d.children = <<>>
    BY <2>1 DEF New, d
  <2>3. <<d>> \in Seq(FileInfo) /\ Len(<<d>>) = 1 /\ DOMAIN <<d>> = {1} /\ <<d>>[1] = d
    BY <2>2
  <2>4. <<d>> \in Trees
    BY <2>2, <2>3 DEF Trees
  <2> QED
    BY <2>4 DEF d
<1>2. 1 \in DOMAIN first
  OBVIOUS
<1>3. tree # <<>> => 1 \in DOMAIN tree
  BY DEF Trees
<1> HIDE DEF first
<1> QED
  BY <1>1, <1>2, <1>3 DEF Places, FirstPlace, first

LEMMA FirstNumbers ==
    ASSUME NEW i \in Nat \ {0}
    PROVE  (1 .. i) \ {Max(1 .. i)} = 1 .. i - 1 /\ Max(1 .. i) = i
<1>1. Max(1 .. i) \in 1 .. i /\ i <= Max(1 .. i)
  <2>1. (1 .. i) \in SUBSET (1 .. i) /\ i \in 1 .. i
    OBVIOUS
  <2> QED
    BY <2>1, MaxIs
<1>2. Max(1 .. i) = i
  BY <1>1
<1> QED
  BY <1>2

(* The directories gone through, one for each name on the way.             *)
LEMMA Entered ==
    ASSUME NEW tree \in Trees, NEW alias \in Paths \ {<<>>}
    PROVE  \E g : /\ g[0] = FirstPlace(tree)
                  /\ \A i \in 0 .. Len(alias) - 1 : g[i] \in Places
                  /\ \A i \in 1 .. Len(alias) - 1 : g[i] = Enter(g[i - 1], alias[i])
                  /\ \A info : AddFile(tree, alias, info)
                                 = Insert(g[Len(alias) - 1].tree, g[Len(alias) - 1].parent, info)
<1> DEFINE way == Front(alias)
    n == Len(way)
    start == FirstPlace(tree)
    F == [x \in Places \X (1 .. n) |-> Enter(x[1], way[x[2]])]
    Is(f) == f = [s \in SUBSET DOMAIN way |->
                    IF s = {} THEN start ELSE Enter(f[s \ {Max(s)}], way[Max(s)])]
<1>1. /\ n \in Nat /\ DOMAIN way = 1 .. n /\ \A i \in 1 .. n : way[i] \in FileNames
      /\ n = Len(alias) - 1 /\ \A i \in 1 .. n : way[i] = alias[i]
  <2>1. way \in Paths
    BY PathParts
  <2>2. Len(way) = Len(alias) - 1 /\ \A i \in 1 .. Len(alias) - 1 : way[i] = alias[i]
    <3>1. Len(alias) \in Nat \ {0}
      BY DEF Paths
    <3>2. Len(alias) - 1 \in 0 .. Len(alias) /\ alias \in Seq(FileNames)
      BY <3>1 DEF Paths
    <3>3. way = SubSeq(alias, 1, Len(alias) - 1)
      BY DEF Front
    <3>4. Len(SubSeq(alias, 1, Len(alias) - 1)) = Len(alias) - 1
          /\ \A i \in 1 .. Len(alias) - 1 : SubSeq(alias, 1, Len(alias) - 1)[i] = alias[i]
      BY <3>2, FirstPart
    <3> QED
      BY <3>3, <3>4
  <2> HIDE DEF way
  <2> QED
    BY <2>1, <2>2 DEF Paths
<1>2. start \in Places
  BY FirstPlaceIs
<1>3. F \in [Places \X (1 .. n) -> Places]
  <2>1. ASSUME NEW r \in Places, NEW i \in 1 .. n PROVE Enter(r, way[i]) \in Places
    BY <1>1, EnterIs
  <2> HIDE DEF way, n
  <2> QED
    BY <2>1
<1> HIDE DEF start
<1>4. \E f : Is(f)
  <2> HIDE DEF F, n, way
  <2>1. PICK g \in [SUBSET (1 .. n) -> Places] : Folds(g, start, n, F)
    BY <1>1, <1>2, <1>3, FoldExists
  <2>2. ASSUME NEW s \in SUBSET (1 .. n), s # {}
        PROVE  F[<<g[s \ {Max(s)}], Max(s)>>] = Enter(g[s \ {Max(s)}], way[Max(s)])
    <3>1. Max(s) \in 1 .. n
      BY <1>1, <2>2, MaxIs
    <3>2. g[s \ {Max(s)}] \in Places
      BY <2>1
    <3> QED
      BY <3>1, <3>2 DEF F
  <2>3. Is(g)
    BY <1>1, <2>1, <2>2 DEF Folds
  <2> QED
    BY <2>3
<1> DEFINE fold == CHOOSE f : Is(f)
<1>5. Is(fold)
  <2> HIDE DEF Is
  <2> QED
    BY <1>4
<1>6. FoldLeft(Enter, start, way) = fold[DOMAIN way]
  BY DEF FoldLeft, MapThenFoldSet
<1> HIDE DEF fold
<1> DEFINE g == [i \in 0 .. n |-> fold[1 .. i]]
<1>7. g[0] = start
  <2>1. 1 .. 0 = {} /\ 0 \in 0 .. n
    BY <1>1
  <2>2. fold[{}] = start
    BY <1>5
  <2> QED
    BY <2>1, <2>2
<1>8. ASSUME NEW i \in 1 .. n PROVE g[i] = Enter(g[i - 1], way[i])
  <2>1. (1 .. i) \in SUBSET DOMAIN way /\ 1 .. i # {} /\ i \in 0 .. n /\ i - 1 \in 0 .. n
    <3>1. DOMAIN way = 1 .. n /\ n \in Nat
      BY <1>1
    <3> HIDE DEF n, way
    <3>2. i \in 1 .. i /\ (1 .. i) \in SUBSET (1 .. n) /\ i \in 0 .. n /\ i - 1 \in 0 .. n
      BY <3>1
    <3> QED
      BY <3>1, <3>2
  <2>2. Max(1 .. i) = i /\ (1 .. i) \ {Max(1 .. i)} = 1 .. i - 1
    BY FirstNumbers
  <2>3. fold[1 .. i] = Enter(fold[(1 .. i) \ {Max(1 .. i)}], way[Max(1 .. i)])
    BY <1>5, <2>1
  <2>4. fold[1 .. i] = Enter(fold[1 .. i - 1], way[i])
    BY <2>2, <2>3
  <2> QED
    BY <2>1, <2>4
<1>9. FoldLeft(Enter, start, way) = g[n]
  <2>1. n \in 0 .. n
    BY <1>1
  <2> QED
    BY <1>1, <1>6, <2>1
<1>10. ASSUME NEW info PROVE AddFile(tree, alias, info) = Insert(g[n].tree, g[n].parent, info)
  <2> DEFINE end == FoldLeft(Enter, start, way)
  <2>1. AddFile(tree, alias, info) = Insert(end.tree, end.parent, info)
    BY DEF AddFile, Enter, start, FirstPlace
  <2>2. end = g[n]
    BY <1>9
  <2> HIDE DEF end, g
  <2> QED
    BY <2>1, <2>2
<1> HIDE DEF g, n, Is, F
<1>11. ASSUME NEW i \in 0 .. n PROVE g[i] \in Places
  <2> DEFINE Bad == {j \in 0 .. n : g[j] \notin Places}
  <2>1. SUFFICES ASSUME Bad # {} PROVE FALSE
    OBVIOUS
  <2>2. PICK j \in Bad : \A l \in Bad : j <= l
    <3>1. Bad \in SUBSET Nat
      OBVIOUS
    <3> HIDE DEF Bad
    <3> QED
      BY <2>1, <3>1, NatMin
  <2>3. j # 0
    BY <1>2, <1>7, <2>2
  <2>4. j \in 1 .. n /\ j - 1 \in 0 .. n /\ ~(j <= j - 1)
    BY <1>1, <2>2, <2>3
  <2>5. g[j - 1] \in Places
    BY <2>2, <2>4
  <2> QED
    BY <1>1, <1>8, <2>2, <2>4, <2>5, EnterIs
<1>12. Len(alias) - 1 = n /\ \A i \in 1 .. n : way[i] = alias[i]
  BY <1>1
<1> QED
  BY <1>7, <1>8, <1>10, <1>11, <1>12 DEF start

LEMMA AddFileIs ==
    ASSUME NEW tree \in Trees, NEW alias \in Paths \ {<<>>}, NEW info, New(info)
    PROVE  AddFile(tree, alias, info) \in Trees
<1> DEFINE n == Len(alias) - 1
<1>1. n \in 0 .. n
  BY DEF Paths
<1>2. PICK g : /\ \A i \in 0 .. n : g[i] \in Places
               /\ AddFile(tree, alias, info) = Insert(g[n].tree, g[n].parent, info)
  BY Entered
<1> HIDE DEF n
<1>3. g[n].tree \in Trees /\ g[n].parent \in DOMAIN g[n].tree
  BY <1>1, <1>2 DEF Places
<1> QED
  BY <1>2, <1>3, InsertIs

(* The order of a QHash and the order of hashes are total on the nodes.    *)
LEMMA InOrder ==
    ASSUME nodes \in Trees, Order \in Seeds, NEW ns \in Seq(DOMAIN nodes), IsInjective(ns)
    PROVE  /\ Iterated(ns) \in Seq(DOMAIN nodes) /\ Len(Iterated(ns)) = Len(ns)
           /\ Range(Iterated(ns)) = Range(ns) /\ IsInjective(Iterated(ns))
           /\ SortedByHash(ns) \in Seq(DOMAIN nodes) /\ Len(SortedByHash(ns)) = Len(ns)
           /\ Range(SortedByHash(ns)) = Range(ns) /\ IsInjective(SortedByHash(ns))
           /\ \A i, j \in DOMAIN SortedByHash(ns) :
                 i < j => qt_rcc_compare_hash(SortedByHash(ns)[i], SortedByHash(ns)[j])
<1> DEFINE T == Range(ns)
    B == {x \in T \X T : Before(x[1], x[2])}
    Q == {x \in T \X T : qt_rcc_compare_hash(x[1], x[2])}
<1>1. \A a \in T : /\ a \in Nat /\ nodes[a].name \in FileNames
                   /\ Order[nodes[a].name] \in Int /\ Hash[nodes[a].name] \in Int
  <2>1. DOMAIN nodes = 1 .. Len(nodes) /\ Len(nodes) \in Nat
        /\ \A p \in DOMAIN nodes : nodes[p] \in FileInfo
    BY TreeIs
  <2>2. \A a \in T : a \in DOMAIN nodes
    BY DEF Range
  <2>3. \A p \in DOMAIN nodes : nodes[p].name \in FileNames
    BY <2>1 DEF FileInfo
  <2>4. \A n \in FileNames : Order[n] \in Int /\ Hash[n] \in Int
    BY NameAssumption
  <2> HIDE DEF T
  <2>5. \A a \in T : a \in Nat /\ nodes[a].name \in FileNames
    BY <2>1, <2>2, <2>3
  <2> QED
    BY <2>4, <2>5
<1>2. \A a, b \in T : Order[nodes[a].name] = Order[nodes[b].name] => nodes[a].name = nodes[b].name
  <2> HIDE DEF T
  <2> QED
    BY <1>1, NameAssumption
<1> DEFINE o == [a \in T |-> Order[nodes[a].name]]
    h == [a \in T |-> Hash[nodes[a].name]]
<1>3. /\ \A a \in T : o[a] \in Int /\ h[a] \in Int /\ a \in Nat
      /\ \A a, b \in T : Before(a, b) <=> o[a] < o[b] \/ (o[a] = o[b] /\ a > b)
      /\ \A a, b \in T : qt_rcc_compare_hash(a, b)
                            <=> h[a] < h[b] \/ (h[a] = h[b] /\ Before(a, b))
  <2> HIDE DEF T
  <2>1. \A a, b \in T : Before(a, b) <=> o[a] < o[b] \/ (o[a] = o[b] /\ a > b)
    BY <1>2 DEF Before
  <2>2. \A a, b \in T : qt_rcc_compare_hash(a, b)
                            <=> h[a] < h[b] \/ (h[a] = h[b] /\ Before(a, b))
    BY DEF qt_rcc_compare_hash
  <2> QED
    BY <1>1, <2>1, <2>2
<1>4. Orders(B, T)
  <2> HIDE DEF T, o, h
  <2>1. \A a, b \in T : <<a, b>> \in B <=> o[a] < o[b] \/ (o[a] = o[b] /\ a > b)
    BY <1>3
  <2>2. B \subseteq T \X T
    OBVIOUS
  <2> HIDE DEF B
  <2> QED
    BY <1>3, <2>1, <2>2 DEF Orders
<1>5. Orders(Q, T)
  <2> HIDE DEF T, o, h
  <2>1. \A a, b \in T : <<a, b>> \in Q
                          <=> h[a] < h[b] \/ (h[a] = h[b] /\ <<a, b>> \in B)
    BY <1>3
  <2>2. Q \subseteq T \X T
    OBVIOUS
  <2>3. \A a \in T : h[a] \in Int
    BY <1>3
  <2> HIDE DEF Q, B
  <2>4. \A l, m, n \in T : <<l, m>> \in Q /\ <<m, n>> \in Q => <<l, n>> \in Q
    <3> SUFFICES ASSUME NEW l \in T, NEW m \in T, NEW n \in T, <<l, m>> \in Q, <<m, n>> \in Q
                 PROVE  <<l, n>> \in Q
      OBVIOUS
    <3>1. h[l] < h[m] \/ (h[l] = h[m] /\ <<l, m>> \in B)
      BY <2>1
    <3>2. h[m] < h[n] \/ (h[m] = h[n] /\ <<m, n>> \in B)
      BY <2>1
    <3>3. <<l, m>> \in B /\ <<m, n>> \in B => <<l, n>> \in B
      BY <1>4 DEF Orders
    <3>4. h[l] \in Int /\ h[m] \in Int /\ h[n] \in Int
      BY <2>3
    <3>5. h[l] < h[n] \/ (h[l] = h[n] /\ <<l, n>> \in B)
      BY ONLY <3>1, <3>2, <3>3, <3>4
    <3> QED
      BY <2>1, <3>5
  <2>5. ASSUME NEW m \in T, NEW n \in T PROVE m = n \/ <<m, n>> \in Q \/ <<n, m>> \in Q
    <3>1. m = n \/ <<m, n>> \in B \/ <<n, m>> \in B
      BY <1>4 DEF Orders
    <3>2. h[m] \in Int /\ h[n] \in Int
      BY <2>3
    <3>3. h[m] < h[n] \/ h[m] = h[n] \/ h[n] < h[m]
      BY ONLY <3>2
    <3> QED
      BY <2>1, <3>1, <3>3
  <2>6. ASSUME NEW m \in T PROVE <<m, m>> \notin Q
    <3>1. <<m, m>> \notin B
      BY <1>4 DEF Orders
    <3>2. h[m] \in Int
      BY <2>3
    <3>3. ~ (h[m] < h[m])
      BY ONLY <3>2
    <3> QED
      BY <2>1, <3>1, <3>3
  <2> QED
    BY <2>2, <2>4, <2>5, <2>6 DEF Orders
<1>6. Iterated(ns) = [i \in DOMAIN ns |-> CHOOSE n \in T : Rank(B, T)[n] = i - 1]
  <2>1. \A n \in T : Rank(B, T)[n] = Cardinality({m \in T : Before(m, n)})
    <3> SUFFICES ASSUME NEW n \in T
                 PROVE  Rank(B, T)[n] = Cardinality({m \in T : Before(m, n)})
      OBVIOUS
    <3>1. {m \in T : Before(m, n)} = {m \in T : <<m, n>> \in B}
      <4> HIDE DEF T
      <4> QED
        OBVIOUS
    <3> HIDE DEF T, B
    <3> QED
      BY <3>1 DEF Rank
  <2>2. Iterated(ns) = [i \in DOMAIN ns |->
                           CHOOSE n \in T : Cardinality({m \in T : Before(m, n)}) = i - 1]
    BY DEF Iterated, InOrderOf
  <2> HIDE DEF T, B
  <2>3. \A i \in DOMAIN ns : (CHOOSE n \in T : Cardinality({m \in T : Before(m, n)}) = i - 1)
                           = (CHOOSE n \in T : Rank(B, T)[n] = i - 1)
    BY <2>1
  <2> QED
    BY <2>2, <2>3
<1>7. SortedByHash(ns) = [i \in DOMAIN ns |-> CHOOSE n \in T : Rank(Q, T)[n] = i - 1]
  <2>1. \A n \in T : Rank(Q, T)[n] = Cardinality({m \in T : qt_rcc_compare_hash(m, n)})
    <3> SUFFICES ASSUME NEW n \in T
                 PROVE  Rank(Q, T)[n] = Cardinality({m \in T : qt_rcc_compare_hash(m, n)})
      OBVIOUS
    <3>1. {m \in T : qt_rcc_compare_hash(m, n)} = {m \in T : <<m, n>> \in Q}
      <4> HIDE DEF T
      <4> QED
        OBVIOUS
    <3> HIDE DEF T, Q
    <3> QED
      BY <3>1 DEF Rank
  <2>2. SortedByHash(ns) = [i \in DOMAIN ns |->
                           CHOOSE n \in T : Cardinality({m \in T : qt_rcc_compare_hash(m, n)}) = i - 1]
    BY DEF SortedByHash, InOrderOf
  <2> HIDE DEF T, Q
  <2>3. \A i \in DOMAIN ns :
              (CHOOSE n \in T : Cardinality({m \in T : qt_rcc_compare_hash(m, n)}) = i - 1)
            = (CHOOSE n \in T : Rank(Q, T)[n] = i - 1)
    BY <2>1
  <2> QED
    BY <2>2, <2>3
<1> DEFINE S == DOMAIN nodes
    I == Iterated(ns)
    J == SortedByHash(ns)
<1> HIDE DEF B, Q
<1>8. I = Arrangement(B, ns) /\ J = Arrangement(Q, ns) /\ ns \in Seq(S)
  BY <1>6, <1>7 DEF Arrangement
<1>9. Orders(B, Range(ns)) /\ Orders(Q, Range(ns)) /\ IsInjective(ns)
  BY <1>4, <1>5
<1> HIDE DEF T, S, I, J
<1>10. I \in Seq(S) /\ Len(I) = Len(ns) /\ Range(I) = Range(ns) /\ IsInjective(I)
  BY ONLY <1>8, <1>9, Arranged
<1>11. /\ J \in Seq(S) /\ Len(J) = Len(ns) /\ Range(J) = Range(ns) /\ IsInjective(J)
       /\ \A i, j \in DOMAIN J : i < j => <<J[i], J[j]>> \in Q
  BY ONLY <1>8, <1>9, Arranged
<1>12. \A a, b : <<a, b>> \in Q => qt_rcc_compare_hash(a, b)
  BY DEF Q
<1> QED
  BY <1>10, <1>11, <1>12 DEF S, I, J

----------------------------------------------------------------------------
(* The traversals of a tree, told by the children of its directories.      *)
Shape(t) == [n \in DOMAIN t |-> IF t[n].directory THEN t[n].children ELSE <<>>]
IsShape(K) ==
    /\ \A p \in DOMAIN K : K[p] \in Seq(DOMAIN K) /\ IsInjective(K[p])
    /\ \A p, q \in DOMAIN K : Range(K[p]) \cap Range(K[q]) # {} => p = q
    /\ \A p \in DOMAIN K : 1 \notin Range(K[p])
Closed(K, S) == 1 \in S /\ \A d \in S : Range(K[d]) \subseteq S
Reached(K) == {n \in DOMAIN K : \A S \in SUBSET DOMAIN K : Closed(K, S) => n \in S}
(* V is what was visited: P the directories of it still to go through, T   *)
(* the children still to visit of the one that was taken last.             *)
WalkOK(K, P, T, V) ==
    /\ P \in Seq(V) /\ IsInjective(P) /\ T \in Seq(DOMAIN K) /\ IsInjective(T)
    /\ 1 \in V /\ V \subseteq Reached(K)
    /\ Range(T) \subseteq Reached(K) /\ Range(T) \cap V = {}
    /\ \A d \in V \ Range(P) : Range(K[d]) \subseteq V \cup Range(T)
    /\ \A n \in (V \cup Range(T)) \ {1} : \E d \in V \ Range(P) : n \in Range(K[d])

LEMMA ShapeIs ==
    ASSUME NEW t \in Trees
    PROVE  IsShape(Shape(t))
<1> DEFINE K == Shape(t)
<1>1. t \in Seq(FileInfo) /\ Len(t) \in Nat /\ DOMAIN t = 1 .. Len(t) /\ DOMAIN K = DOMAIN t
  BY TreeIs DEF Shape
<1>2. ASSUME NEW p \in DOMAIN t
      PROVE  /\ K[p] \in Seq(DOMAIN t) /\ IsInjective(K[p])
             /\ \A i \in DOMAIN K[p] : i \in DOMAIN t[p].children /\ K[p][i] = t[p].children[i]
             /\ \A i \in DOMAIN K[p] : K[p][i] \in p + 1 .. Len(t)
  <2>1. K[p] = IF t[p].directory THEN t[p].children ELSE <<>>
    BY <1>1 DEF Shape
  <2> HIDE DEF K
  <2>2. CASE ~t[p].directory
    BY <2>1, <2>2 DEF IsInjective
  <2>3. CASE t[p].directory
    BY <2>1, <2>3, TreeIs DEF Trees
  <2> QED
    BY <2>2, <2>3
<1> HIDE DEF K
<1>3. ASSUME NEW p \in DOMAIN K, NEW q \in DOMAIN K, Range(K[p]) \cap Range(K[q]) # {}
      PROVE  p = q
  <2>1. PICK i \in DOMAIN K[p], j \in DOMAIN K[q] : K[p][i] = K[q][j]
    BY <1>3 DEF Range
  <2>2. i \in DOMAIN t[p].children /\ j \in DOMAIN t[q].children
        /\ t[p].children[i] = t[q].children[j]
    BY <1>1, <1>2, <2>1
  <2> QED
    BY <1>1, <2>2 DEF Trees
<1>4. ASSUME NEW p \in DOMAIN K PROVE 1 \notin Range(K[p])
  BY <1>1, <1>2 DEF Range
<1> QED
  BY <1>1, <1>2, <1>3, <1>4 DEF IsShape, K

LEMMA ReachedClosed ==
    ASSUME NEW K, IsShape(K), 1 \in DOMAIN K
    PROVE  Closed(K, Reached(K)) /\ Reached(K) \subseteq DOMAIN K
<1>1. Reached(K) \subseteq DOMAIN K /\ 1 \in Reached(K)
  BY DEF Reached, Closed
<1>2. ASSUME NEW d \in Reached(K), NEW n \in Range(K[d]) PROVE n \in Reached(K)
  <2>1. n \in DOMAIN K
    BY <1>1 DEF IsShape, Range
  <2>2. ASSUME NEW S \in SUBSET DOMAIN K, Closed(K, S) PROVE n \in S
    <3>1. d \in S
      BY <2>2 DEF Reached
    <3> QED
      BY <2>2, <3>1 DEF Closed
  <2> QED
    BY <2>1, <2>2 DEF Reached
<1> QED
  BY <1>1, <1>2 DEF Closed

LEMMA WalkStart ==
    ASSUME NEW K, IsShape(K), 1 \in DOMAIN K
    PROVE  WalkOK(K, <<1>>, <<>>, {1})
<1>1. 1 \in Reached(K)
  BY ReachedClosed DEF Closed
<1>2. Range(<<1>>) = {1} /\ Range(<<>>) = {} /\ IsInjective(<<1>>) /\ IsInjective(<<>>)
  BY DEF Range, IsInjective
<1>3. <<1>> \in Seq({1}) /\ <<>> \in Seq(DOMAIN K)
  OBVIOUS
<1> QED
  BY <1>1, <1>2, <1>3 DEF WalkOK

LEMMA WalkDescend ==
    ASSUME NEW K, IsShape(K), 1 \in DOMAIN K, NEW P, P # <<>>, NEW V, WalkOK(K, P, <<>>, V),
           NEW T \in Seq(DOMAIN K), IsInjective(T), Range(T) = Range(K[Last(P)])
    PROVE  WalkOK(K, Front(P), T, V)
<1> DEFINE d == Last(P)
    Q == Front(P)
<1>1. Range(<<>>) = {}
  BY DEF Range
<1>2. /\ P \in Seq(V) /\ IsInjective(P) /\ 1 \in V /\ V \subseteq Reached(K)
      /\ \A e \in V \ Range(P) : Range(K[e]) \subseteq V
      /\ \A n \in V \ {1} : \E e \in V \ Range(P) : n \in Range(K[e])
  BY <1>1 DEF WalkOK
<1>3. Len(P) \in Nat \ {0} /\ DOMAIN P = 1 .. Len(P)
  BY <1>2
<1>0. /\ Len(P) \in 1 .. Len(P)
      /\ \A i : i \in 1 .. Len(P) - 1 <=> i \in 1 .. Len(P) /\ i # Len(P)
  <2> DEFINE l == Len(P)
  <2>1. l \in Nat \ {0}
    BY <1>3
  <2> HIDE DEF l
  <2>2. l \in 1 .. l /\ \A i : i \in 1 .. l - 1 <=> i \in 1 .. l /\ i # l
    BY <2>1
  <2> QED
    BY <2>2 DEF l
<1>4. d \in V /\ Q \in Seq(V) /\ Len(Q) = Len(P) - 1 /\ \A i \in 1 .. Len(P) - 1 : Q[i] = P[i]
  BY <1>2, <1>3 DEF Last, Front
<1>5. DOMAIN Q = 1 .. Len(P) - 1
  BY <1>3, <1>4
<1>6. IsInjective(Q) /\ Range(Q) = Range(P) \ {d}
  <2>1. IsInjective(Q)
    BY <1>2, <1>3, <1>4, <1>5 DEF IsInjective
  <2>2. ASSUME NEW n \in Range(Q) PROVE n \in Range(P) \ {d}
    <3>1. PICK i \in 1 .. Len(P) - 1 : n = Q[i]
      BY <1>5 DEF Range
    <3>2. n = P[i] /\ i \in DOMAIN P /\ Len(P) \in DOMAIN P /\ i # Len(P)
      BY <1>0, <1>3, <1>4, <3>1
    <3> QED
      BY <1>2, <3>2 DEF Range, IsInjective, Last
  <2>3. ASSUME NEW n \in Range(P) \ {d} PROVE n \in Range(Q)
    <3>1. PICK i \in 1 .. Len(P) : n = P[i]
      BY <1>3 DEF Range
    <3>2. i # Len(P)
      BY <3>1 DEF Last
    <3>3. i \in 1 .. Len(P) - 1
      BY <1>0, <3>1, <3>2
    <3>4. n = Q[i] /\ i \in DOMAIN Q
      BY <1>4, <1>5, <3>1, <3>3
    <3> HIDE DEF Q
    <3> QED
      BY <3>4 DEF Range
  <2> HIDE DEF Q, d
  <2> QED
    BY <2>1, <2>2, <2>3
<1>7. d \in DOMAIN K /\ d \in Reached(K)
  BY <1>2, <1>4, ReachedClosed
<1>8. Range(T) \subseteq Reached(K)
  BY <1>7, ReachedClosed DEF Closed
<1> HIDE DEF d, Q
<1>9. ASSUME NEW n \in Range(K[d]) PROVE n \notin V
  <2> SUFFICES ASSUME n \in V PROVE FALSE
    OBVIOUS
  <2>1. n # 1
    BY <1>7, <1>9 DEF IsShape
  <2>2. PICK e \in V \ Range(P) : n \in Range(K[e])
    BY <1>2, <2>1
  <2>3. e = d
    BY <1>2, <1>7, <1>9, <2>2, ReachedClosed DEF IsShape
  <2>4. d \in Range(P)
    BY <1>3 DEF d, Last, Range
  <2> QED
    BY <2>2, <2>3, <2>4
<1>10. Range(T) = Range(K[d])
  BY DEF d
<1>11. \A e \in V \ Range(Q) : Range(K[e]) \subseteq V \cup Range(T)
  BY <1>2, <1>6, <1>10
<1>12. \A n \in (V \cup Range(T)) \ {1} : \E e \in V \ Range(Q) : n \in Range(K[e])
  <2>1. d \in V \ Range(Q)
    BY <1>4, <1>6
  <2> QED
    BY <1>2, <1>6, <1>10, <2>1
<1>13. Range(T) \cap V = {}
  BY <1>9, <1>10
<1> QED
  BY <1>2, <1>4, <1>6, <1>8, <1>11, <1>12, <1>13 DEF WalkOK, Q

LEMMA WalkVisit ==
    ASSUME NEW K, IsShape(K), 1 \in DOMAIN K, NEW P, NEW T, T # <<>>, NEW V, WalkOK(K, P, T, V),
           NEW pushed \in BOOLEAN, ~pushed => K[Head(T)] = <<>>
    PROVE  /\ WalkOK(K, IF pushed THEN Append(P, Head(T)) ELSE P, Tail(T), V \cup {Head(T)})
           /\ Head(T) \in Reached(K) /\ Head(T) \notin V
<1> DEFINE n == Head(T)
    Q == IF pushed THEN Append(P, n) ELSE P
    W == V \cup {n}
    U == Tail(T)
<1>1. /\ P \in Seq(V) /\ IsInjective(P) /\ T \in Seq(DOMAIN K) /\ IsInjective(T)
      /\ 1 \in V /\ V \subseteq Reached(K)
      /\ Range(T) \subseteq Reached(K) /\ Range(T) \cap V = {}
      /\ \A d \in V \ Range(P) : Range(K[d]) \subseteq V \cup Range(T)
      /\ \A m \in (V \cup Range(T)) \ {1} : \E d \in V \ Range(P) : m \in Range(K[d])
  BY DEF WalkOK
<1>2. /\ Len(T) \in Nat \ {0} /\ DOMAIN T = 1 .. Len(T) /\ n = T[1]
      /\ U \in Seq(DOMAIN K) /\ DOMAIN U = 1 .. Len(T) - 1 /\ \A i \in 1 .. Len(T) - 1 : U[i] = T[i + 1]
  BY <1>1
<1>3. n \in Range(T) /\ n \notin V /\ n \in Reached(K)
  BY <1>1, <1>2 DEF Range
<1> HIDE DEF n, U
<1>4. IsInjective(U)
  <2> SUFFICES ASSUME NEW i \in 1 .. Len(T) - 1, NEW j \in 1 .. Len(T) - 1, U[i] = U[j] PROVE i = j
    BY <1>2 DEF IsInjective
  <2>1. i + 1 \in 1 .. Len(T) /\ j + 1 \in 1 .. Len(T) /\ T[i + 1] = T[j + 1]
    BY <1>2
  <2>2. i + 1 = j + 1
    BY <1>1, <1>2, <2>1 DEF IsInjective
  <2> QED
    BY <1>2, <2>2
<1>5. Range(U) = Range(T) \ {n}
  <2>1. ASSUME NEW m \in Range(U) PROVE m \in Range(T) \ {n}
    <3>1. PICK i \in 1 .. Len(T) - 1 : m = U[i]
      BY <1>2 DEF Range
    <3>2. i + 1 \in 1 .. Len(T) /\ m = T[i + 1] /\ 1 \in 1 .. Len(T) /\ i + 1 # 1
      BY <1>2, <3>1
    <3>3. m # T[1]
      BY <1>1, <1>2, <3>2 DEF IsInjective
    <3> QED
      BY <1>2, <3>2, <3>3 DEF Range
  <2>2. ASSUME NEW m \in Range(T) \ {n} PROVE m \in Range(U)
    <3>1. PICK i \in 1 .. Len(T) : m = T[i]
      BY <1>2 DEF Range
    <3>2. i # 1
      BY <1>2, <3>1
    <3>3. PICK k \in 1 .. Len(T) - 1 : k + 1 = i
      <4>1. i - 1 \in 1 .. Len(T) - 1 /\ (i - 1) + 1 = i
        BY <1>2, <3>2
      <4> QED
        BY <4>1
    <3>4. m = U[k]
      BY <1>2, <3>1, <3>3
    <3> QED
      BY <1>2, <3>4 DEF Range
  <2> QED
    BY <2>1, <2>2
<1>6. P \in Seq(W) /\ DOMAIN P = 1 .. Len(P) /\ Len(P) \in Nat
  BY <1>1
<1>7. Range(P) \subseteq V
  BY <1>1 DEF Range
<1>8. Q \in Seq(W) /\ IsInjective(Q) /\ Range(Q) = IF pushed THEN Range(P) \cup {n} ELSE Range(P)
  <2>1. CASE ~pushed
    BY <1>1, <1>6, <2>1
  <2>2. CASE pushed
    <3>1. Q = Append(P, n)
      BY <2>2
    <3> HIDE DEF Q
    <3>2. Q \in Seq(W) /\ DOMAIN Q = 1 .. Len(P) + 1 /\ Q[Len(P) + 1] = n
          /\ \A i \in 1 .. Len(P) : Q[i] = P[i]
      BY <1>6, <3>1
    <3>3. \A i \in 1 .. Len(P) : P[i] # n
      BY <1>3, <1>6, <1>7 DEF Range
    <3>4. IsInjective(Q)
      <4> SUFFICES ASSUME NEW i \in DOMAIN Q, NEW j \in DOMAIN Q, Q[i] = Q[j] PROVE i = j
        BY DEF IsInjective
      <4>1. CASE i = Len(P) + 1 \/ j = Len(P) + 1
        BY <1>6, <3>2, <3>3, <4>1
      <4>2. CASE i \in 1 .. Len(P) /\ j \in 1 .. Len(P)
        BY <1>1, <1>6, <3>2, <4>2 DEF IsInjective
      <4> QED
        BY <1>6, <3>2, <4>1, <4>2
    <3>5. ASSUME NEW m \in Range(Q) PROVE m \in Range(P) \cup {n}
      <4>1. PICK i \in 1 .. Len(P) + 1 : m = Q[i]
        BY <3>2 DEF Range
      <4>2. i \in 1 .. Len(P) \/ i = Len(P) + 1
        BY <1>6
      <4> QED
        BY <1>6, <3>2, <4>1, <4>2 DEF Range
    <3>6. ASSUME NEW m \in Range(P) \cup {n} PROVE m \in Range(Q)
      <4>1. CASE m = n
        <5>1. Len(P) + 1 \in DOMAIN Q
          BY <1>6, <3>2
        <5> QED
          BY <3>2, <4>1, <5>1 DEF Range
      <4>2. CASE m \in Range(P)
        <5>1. PICK i \in 1 .. Len(P) : m = P[i]
          BY <1>6, <4>2 DEF Range
        <5>2. i \in DOMAIN Q /\ m = Q[i]
          BY <1>6, <3>2, <5>1
        <5> QED
          BY <5>2 DEF Range
      <4> QED
        BY <4>1, <4>2
    <3> QED
      BY <2>2, <3>2, <3>4, <3>5, <3>6
  <2> QED
    BY <2>1, <2>2
<1> HIDE DEF Q
<1>9. W \subseteq Reached(K) /\ 1 \in W /\ Range(U) \subseteq Reached(K) /\ Range(U) \cap W = {}
      /\ W \cup Range(U) = V \cup Range(T)
  BY <1>1, <1>3, <1>5
<1>10. V \ Range(P) \subseteq W \ Range(Q)
  BY <1>3, <1>8
<1>11. ASSUME NEW d \in W \ Range(Q) PROVE Range(K[d]) \subseteq W \cup Range(U)
  <2>1. CASE d = n
    <3>1. ~pushed
      BY <1>8, <1>11, <2>1
    <3>2. K[d] = <<>>
      BY <2>1, <3>1 DEF n
    <3> QED
      BY <3>2 DEF Range
  <2>2. CASE d # n
    <3>1. d \in V \ Range(P)
      BY <1>8, <1>11, <2>2
    <3> QED
      BY <1>1, <1>9, <3>1
  <2> QED
    BY <2>1, <2>2
<1>12. \A m \in (W \cup Range(U)) \ {1} : \E d \in W \ Range(Q) : m \in Range(K[d])
  <2> HIDE DEF W
  <2> QED
    BY <1>1, <1>9, <1>10
<1> HIDE DEF W
<1>13. WalkOK(K, Q, U, W)
  BY <1>2, <1>4, <1>8, <1>9, <1>11, <1>12 DEF WalkOK
<1> QED
  BY <1>3, <1>13 DEF W, Q, U, n

LEMMA WalkEnd ==
    ASSUME NEW K, IsShape(K), 1 \in DOMAIN K, NEW V, WalkOK(K, <<>>, <<>>, V)
    PROVE  V = Reached(K)
<1>1. Range(<<>>) = {}
  BY DEF Range
<1>2. 1 \in V /\ V \subseteq Reached(K) /\ \A d \in V : Range(K[d]) \subseteq V
  BY <1>1 DEF WalkOK
<1>3. V \in SUBSET DOMAIN K /\ Closed(K, V)
  BY <1>2, ReachedClosed DEF Closed
<1> QED
  BY <1>2, <1>3 DEF Reached

----------------------------------------------------------------------------
(* Types of what a process holds.                                          *)
Processes == Commands \cup {[c EXCEPT !.format = "Pass2"] : c \in Commands}
Stages == {"interpretResourceFile", "scan", "written", "failed"} \cup Range(Walks)
Bytes == (DOMAIN Disk) \X BOOLEAN \X Nat
Infos ==
    [nameOffset : Nat, directory : BOOLEAN, count : Nat, first : Nat, locale : Locale,
     compressed : BOOLEAN, data : Nat]
Image ==
    [data : Seq(Bytes), size : Nat, names : Seq([name : FileNames, offset : Nat]),
     structure : Seq(Infos), list : SUBSET (DOMAIN Disk \cup {<<>>})]
ProcessOK ==
    command \in Processes /\ seed \in Seeds \X Seeds /\ stage \in Stages
ReadOK ==
    /\ input \in Nat \ {0} /\ at \in Nat
    /\ resource \in [prefix : Paths, locale : Locale]
    /\ entry \in [alias : Paths, level : Int, threshold : Int]
    /\ iterator \in Seq(DOMAIN Disk)
TreeOK ==
    /\ nodes \in Trees
    /\ pending \in Seq(DOMAIN nodes) /\ todo \in Seq(DOMAIN nodes)
    /\ \A i \in DOMAIN pending : nodes[pending[i]].directory
    /\ offset \in Nat /\ image \in Image
(* What is known of a stage: the tree is complete before it is gone        *)
(* through, and only the second pass scans.                                *)
StageOK ==
    /\ stage = "interpretResourceFile" => pending = <<>> /\ todo = <<>>
    /\ stage \in Range(Walks) \cup {"scan"} => ~command.list
    /\ stage = "scan" => command.format = "Pass2"
    /\ stage \in Range(Walks) \ {"writeDataBlobs"} => command.format # "Pass2"
    /\ stage \in Range(Walks) /\ command.format # "Pass2" => nodes # <<>>
RccTypeOK == ProcessOK /\ ReadOK /\ TreeOK /\ StageOK

LEMMA WalksAre ==
    /\ Range(Walks) = {"writeDataBlobs", "writeDataNames", "childOffsets", "writeDataInfo"}
    /\ Last(Walks) = "writeDataInfo"
    /\ Walks[1 + CHOOSE i \in DOMAIN Walks : Walks[i] = "writeDataBlobs"] = "writeDataNames"
    /\ Walks[1 + CHOOSE i \in DOMAIN Walks : Walks[i] = "writeDataNames"] = "childOffsets"
    /\ Walks[1 + CHOOSE i \in DOMAIN Walks : Walks[i] = "childOffsets"] = "writeDataInfo"
<1>1. /\ DOMAIN Walks = {1, 2, 3, 4} /\ Walks[1] = "writeDataBlobs" /\ Walks[2] = "writeDataNames"
      /\ Walks[3] = "childOffsets" /\ Walks[4] = "writeDataInfo" /\ Len(Walks) = 4
  BY DEF Walks
<1>2. Range(Walks) = {"writeDataBlobs", "writeDataNames", "childOffsets", "writeDataInfo"}
  BY <1>1 DEF Range
<1>3. /\ (CHOOSE i \in DOMAIN Walks : Walks[i] = "writeDataBlobs") = 1
      /\ (CHOOSE i \in DOMAIN Walks : Walks[i] = "writeDataNames") = 2
      /\ (CHOOSE i \in DOMAIN Walks : Walks[i] = "childOffsets") = 3
  BY <1>1
<1> QED
  BY <1>1, <1>2, <1>3 DEF Last

LEMMA ProcessIs ==
    ASSUME command \in Processes
    PROVE  /\ command.format \in {"C_Code", "Binary", "Pass1", "Pass2"} /\ command.list \in BOOLEAN
           /\ command.root \in Paths /\ command.level \in Int /\ command.threshold \in Int
           /\ [command EXCEPT !.format = "Pass2"] \in Processes
           /\ command.inputs \in Seq(Range(command.inputs))
           /\ \A doc \in Range(command.inputs) :
                 doc \in Seq(Range(doc)) /\ \A t \in Range(doc) : IsToken(t)
<1>1. PICK c \in Commands : command = c \/ command = [c EXCEPT !.format = "Pass2"]
  BY DEF Processes
<1>2. /\ DOMAIN c = {"inputs", "format", "list", "root", "level", "threshold"}
      /\ c.format \in {"C_Code", "Binary", "Pass1"} /\ c.list \in BOOLEAN
      /\ c.root \in Seq(FileNames) /\ c.level \in Int /\ c.threshold \in Int
      /\ c.inputs \in Seq(Range(c.inputs))
      /\ \A doc \in Range(c.inputs) :
            doc \in Seq(Range(doc)) /\ \A t \in Range(doc) : IsToken(t)
  BY CommandAssumption
<1>3. /\ command.inputs = c.inputs /\ command.list = c.list /\ command.root = c.root
      /\ command.level = c.level /\ command.threshold = c.threshold
      /\ command.format = c.format \/ command.format = "Pass2"
  BY <1>1, <1>2
<1>4. [command EXCEPT !.format = "Pass2"] = [c EXCEPT !.format = "Pass2"]
  <2>1. CASE command = c
    BY <2>1
  <2>2. CASE command = [c EXCEPT !.format = "Pass2"]
    BY <1>2, <2>2
  <2> QED
    BY <1>1, <2>1, <2>2
<1>5. [command EXCEPT !.format = "Pass2"] \in Processes
  BY <1>4 DEF Processes
<1> QED
  BY <1>2, <1>3, <1>5 DEF Paths

LEMMA OrderIs ==
    ASSUME ProcessOK
    PROVE  Order \in Seeds
BY DEF Order, ProcessOK

(* A tree of which only offsets change.                                    *)
LEMMA SameTree ==
    ASSUME NEW t \in Trees, NEW u \in Seq(FileInfo), Len(u) = Len(t),
           \A p \in DOMAIN t : /\ u[p].directory = t[p].directory /\ u[p].file = t[p].file
                               /\ u[p].children = t[p].children
    PROVE  u \in Trees /\ DOMAIN u = DOMAIN t /\ Shape(u) = Shape(t) /\ (u = <<>> <=> t = <<>>)
<1>1. t \in Seq(FileInfo) /\ Len(t) \in Nat /\ DOMAIN t = 1 .. Len(t) /\ DOMAIN u = DOMAIN t
      /\ (u = <<>> <=> t = <<>>)
  BY TreeIs
<1>2. t # <<>> => 1 \in DOMAIN t
  BY <1>1
<1>3. u \in Trees
  <2>1. u # <<>> => u[1].directory
    BY <1>1, <1>2 DEF Trees
  <2>2. \A p \in DOMAIN u :
           /\ ~u[p].directory => u[p].file \in DOMAIN Disk
           /\ \A i \in DOMAIN u[p].children : u[p].children[i] \in p + 1 .. Len(u)
    BY <1>1 DEF Trees
  <2>3. ASSUME NEW p \in DOMAIN u, NEW q \in DOMAIN u, NEW i \in DOMAIN u[p].children,
               NEW k \in DOMAIN u[q].children, u[p].children[i] = u[q].children[k]
        PROVE  p = q /\ i = k
    BY <1>1, <2>3 DEF Trees
  <2> QED
    BY <2>1, <2>2, <2>3 DEF Trees
<1>4. Shape(u) = Shape(t)
  BY <1>1 DEF Shape
<1> QED
  BY <1>1, <1>3, <1>4

LEMMA InitTyped == RccInit => RccTypeOK
<1> SUFFICES ASSUME RccInit PROVE RccTypeOK
  OBVIOUS
<1>1. command \in Processes /\ command.level \in Int /\ command.threshold \in Int
  <2>1. command \in Processes
    BY DEF RccInit, Processes
  <2> QED
    BY <2>1, ProcessIs
<1>2. PICK s \in Seeds : seed = <<s, s>>
  BY DEF RccInit
<1>3. /\ stage = "interpretResourceFile" /\ input = 1 /\ at = 0 /\ iterator = <<>>
      /\ resource = [prefix |-> <<>>, locale |-> CLocale] /\ entry = NoEntry
      /\ nodes = <<>> /\ pending = <<>> /\ todo = <<>> /\ offset = 0
      /\ image = [data |-> <<>>, size |-> 0, names |-> <<>>, structure |-> <<>>, list |-> {}]
  BY DEF RccInit
<1>4. ProcessOK
  BY <1>1, <1>2, <1>3 DEF ProcessOK, Stages
<1>5. entry \in [alias : Paths, level : Int, threshold : Int]
  BY <1>1, <1>3 DEF NoEntry, NoAlias, Paths
<1>6. CLocale \in Locale
  BY DEF Locale
<1>7. resource \in [prefix : Paths, locale : Locale]
  BY <1>3, <1>6 DEF Paths
<1>8. ReadOK
  BY <1>3, <1>5, <1>7 DEF ReadOK
<1>9. image \in Image
  BY <1>3 DEF Image
<1>10. <<>> \in Trees
  BY DEF Trees
<1>11. TreeOK
  BY <1>3, <1>9, <1>10 DEF TreeOK
<1>12. StageOK
  BY <1>3, WalksAre DEF StageOK
<1> QED
  BY <1>4, <1>8, <1>11, <1>12 DEF RccTypeOK

LEMMA TokenIs ==
    ASSUME RccTypeOK, NEW kind, Gets(kind)
    PROVE  IsToken(RccToken) /\ RccToken.kind = kind /\ stage = "interpretResourceFile"
<1>1. input \in 1 .. Len(command.inputs) /\ at \in Nat
  <2>1. command.inputs \in Seq(Range(command.inputs)) /\ input \in Nat \ {0} /\ at \in Nat
    BY ProcessIs DEF RccTypeOK, ProcessOK, ReadOK
  <2> QED
    BY <2>1 DEF Gets, Interpreting
<1>2. Document \in Range(command.inputs)
  BY <1>1, ProcessIs DEF RccTypeOK, ProcessOK, Document, Range
<1>3. Document \in Seq(Range(Document)) /\ \A t \in Range(Document) : IsToken(t)
  BY <1>2, ProcessIs DEF RccTypeOK, ProcessOK
<1>4. at + 1 \in DOMAIN Document
  BY <1>1, <1>3 DEF Gets
<1> QED
  BY <1>3, <1>4 DEF Gets, Interpreting, RccToken, Range

(* The actions of the reader that leave the tree alone.                    *)
LEMMA TagsTyped ==
    ASSUME RccTypeOK, StartRcc \/ StartResource \/ StartFile \/ EndTag \/ Blanks
    PROVE  RccTypeOK' /\ UNCHANGED <<command, stage, nodes, pending, todo, offset, image>>
<1>1. PICK kind : Gets(kind)
  BY DEF StartRcc, StartResource, StartFile, EndTag, Blanks
<1>2. Took
  BY DEF StartRcc, StartResource, StartFile, EndTag, Blanks
<1>3. /\ at' = at + 1 /\ UNCHANGED <<command, seed, input, iterator, stage, pending, todo, offset, image>>
  BY <1>2 DEF Took, processVars
<1>4. UNCHANGED nodes
  BY DEF StartRcc, StartResource, StartFile, EndTag, Blanks
<1>5. resource' \in [prefix : Paths, locale : Locale]
  <2>1. CASE StartResource
    <3>1. Gets("start")
      BY <2>1 DEF StartResource
    <3>2. \A a \in DOMAIN RccToken.attributes : IsAttribute(a, RccToken.attributes[a])
      BY <3>1, TokenIs DEF IsToken
    <3>3. HasAttribute("prefix") => RccToken.attributes.prefix \in Paths
      BY <3>2 DEF HasAttribute, IsAttribute, Paths
    <3>4. HasAttribute("lang") => Locales[RccToken.attributes.lang] \in Locale
      BY <3>2 DEF HasAttribute, IsAttribute, Locale, Range
    <3>5. CLocale \in Locale /\ <<>> \in Paths
      BY DEF Locale, Paths
    <3> QED
      BY <2>1, <3>3, <3>4, <3>5 DEF StartResource
  <2>2. CASE ~StartResource
    BY <2>2 DEF StartRcc, StartFile, EndTag, Blanks, RccTypeOK, ReadOK
  <2> QED
    BY <2>1, <2>2
<1>6. entry' \in [alias : Paths, level : Int, threshold : Int]
  <2>1. CASE StartFile
    <3>1. Gets("start")
      BY <2>1 DEF StartFile
    <3>2. \A a \in DOMAIN RccToken.attributes : IsAttribute(a, RccToken.attributes[a])
      BY <3>1, TokenIs DEF IsToken
    <3>3. command.level \in Int /\ command.threshold \in Int /\ NoAlias \in Paths
      BY ProcessIs DEF RccTypeOK, ProcessOK, NoAlias, Paths
    <3> DEFINE value(a, default) == IF HasAttribute(a) THEN RccToken.attributes[a] ELSE default
    <3>4. /\ value("alias", NoAlias) \in Paths
          /\ value("compress", command.level) \in Int
          /\ value("threshold", command.threshold) \in Int
      BY <3>2, <3>3 DEF HasAttribute, IsAttribute, Paths
    <3>5. entry' = [alias |-> value("alias", NoAlias),
                    level |-> IF command.level = -2 THEN 0 ELSE value("compress", command.level),
                    threshold |-> value("threshold", command.threshold)]
      BY <2>1 DEF StartFile
    <3> HIDE DEF value
    <3> QED
      BY <3>4, <3>5
  <2>2. CASE ~StartFile
    BY <2>2 DEF StartRcc, StartResource, EndTag, Blanks, RccTypeOK, ReadOK
  <2> QED
    BY <2>1, <2>2
<1>7. ProcessOK' /\ TreeOK' /\ StageOK'
  BY <1>3, <1>4 DEF RccTypeOK, ProcessOK, TreeOK, StageOK
<1>8. ReadOK'
  BY <1>3, <1>5, <1>6 DEF RccTypeOK, ReadOK
<1> QED
  BY <1>3, <1>4, <1>7, <1>8 DEF RccTypeOK

LEMMA AliasIs ==
    ASSUME RccTypeOK, NEW path \in Paths
    PROVE  Alias(path) \in Paths \ {<<>>}
<1>1. CleanPath(path) \in Paths
  BY CleanPathIs
<1>2. WithoutParents(CleanPath(path)) \in Paths \ {<<>>}
  BY <1>1, WithoutParentsIs
<1>3. command.root \in Paths /\ resource.prefix \in Paths
  BY ProcessIs DEF RccTypeOK, ProcessOK, ReadOK
<1> DEFINE p == command.root \o resource.prefix
    w == WithoutParents(CleanPath(path))
<1>4. p \in Seq(FileNames) /\ w \in Seq(FileNames) /\ w # <<>>
  BY <1>2, <1>3 DEF Paths
<1> HIDE DEF p, w
<1>5. Len(p) \in Nat /\ Len(w) \in Nat \ {0} /\ p \o w \in Seq(FileNames) /\ Len(p \o w) = Len(p) + Len(w)
  BY <1>4
<1>6. p \o w # <<>>
  BY <1>5
<1> QED
  BY <1>5, <1>6 DEF Alias, Paths, p, w

LEMMA NewFile ==
    ASSUME ReadOK, NEW name \in FileNames, NEW file \in DOMAIN Disk, NEW d \in BOOLEAN
    PROVE  New(RCCFileInfo(name, file, d, resource.locale, entry.level, entry.threshold))
<1>1. resource.locale \in Locale /\ entry.level \in Int /\ entry.threshold \in Int
  BY DEF ReadOK
<1>2. <<>> \in Seq(Nat) /\ FALSE \in BOOLEAN /\ 0 \in Nat
  OBVIOUS
<1> QED
  BY <1>1, <1>2 DEF New, FileInfo, RCCFileInfo

(* The disk, and what an iterator over it goes by.                         *)
LEMMA DiskIs ==
    ASSUME NEW f \in DOMAIN Disk
    PROVE  /\ f \in Paths /\ f # <<>>
           /\ Disk[f].kind \in {"file", "huge", "directory", "special"}
           /\ Disk[f].below \in Seq(DOMAIN Disk)
           /\ \A c \in Range(Disk[f].below) : c \in DOMAIN Disk /\ Disk[c].kind # "special"
<1> DEFINE S == {q \in DOMAIN Disk : Disk[q].kind # "special"}
    s == Disk[f].below
<1>1. /\ f \in Seq(FileNames) /\ f # <<>>
      /\ Disk[f].kind \in {"file", "huge", "directory", "special"} /\ s \in Seq(S)
  BY DiskAssumption
<1> HIDE DEF s
<1>2. \A i \in DOMAIN s : s[i] \in S
  BY <1>1
<1>3. s \in Seq(DOMAIN Disk)
  <2> DEFINE T == DOMAIN Disk
  <2>1. S \subseteq T
    OBVIOUS
  <2> HIDE DEF S, T
  <2>2. s \in Seq(T)
    BY <1>1, <2>1
  <2> QED
    BY <2>2 DEF T
<1> QED
  BY <1>1, <1>2, <1>3 DEF Paths, Range, s

LEMMA StemIs ==
    ASSUME NEW alias \in Paths \ {<<>>}, NEW file
    PROVE  Stem(alias, file) \in Paths
  BY PathParts DEF Stem

(* What the reader adds to the tree.                                       *)
LEMMA TextTyped ==
    ASSUME RccTypeOK, AddText
    PROVE  RccTypeOK' /\ stage' \in {"interpretResourceFile", "failed"}
           /\ UNCHANGED <<command, image>>
<1>1. Gets("characters")
  BY DEF AddText
<1>2. RccToken.text \in Paths /\ stage = "interpretResourceFile"
  BY <1>1, TokenIs DEF IsToken, Paths
<1> DEFINE file == RccToken.text
    alias == Alias(IF entry.alias = NoAlias THEN file ELSE entry.alias)
<1>3. alias \in Paths \ {<<>>}
  <2>1. entry.alias \in Paths
    BY DEF RccTypeOK, ReadOK
  <2> QED
    BY <1>2, <2>1, AliasIs
<1>4. /\ at' = at + 1 /\ entry' = [entry EXCEPT !.alias = Stem(alias, file)]
      /\ UNCHANGED <<input, resource, command, seed, pending, todo, offset, image>>
      /\ iterator' = IF Iterable(file) THEN Disk[file].below ELSE <<>>
      /\ stage' = IF file \notin DOMAIN Disk /\ ~command.list THEN "failed" ELSE stage
  BY DEF AddText, processVars
<1>5. \/ UNCHANGED nodes
      \/ file \in DOMAIN Disk
         /\ nodes' = AddFile(nodes, alias, RCCFileInfo(Last(alias), file, FALSE,
                                 resource.locale, entry.level, entry.threshold))
  <2>1. file \in DOMAIN Disk => Disk[file].kind \in {"file", "huge", "directory", "special"}
    BY DiskIs
  <2> QED
    BY <2>1 DEF AddText, Iterable
<1> HIDE DEF alias, file
<1>6. nodes' \in Trees
  <2>1. Last(alias) \in FileNames
    BY <1>3, PathParts
  <2>2. file \in DOMAIN Disk => New(RCCFileInfo(Last(alias), file, FALSE,
                                    resource.locale, entry.level, entry.threshold))
    BY <2>1, NewFile DEF RccTypeOK
  <2>3. nodes \in Trees
    BY DEF RccTypeOK, TreeOK
  <2> QED
    BY <1>3, <1>5, <2>2, <2>3, AddFileIs
<1>7. pending' = <<>> /\ todo' = <<>> /\ offset' \in Nat /\ image' \in Image
  BY <1>2, <1>4 DEF RccTypeOK, TreeOK, StageOK
<1>8. TreeOK'
  BY <1>6, <1>7 DEF TreeOK
<1>9. stage' \in {"interpretResourceFile", "failed"}
  BY <1>2, <1>4
<1>10. ProcessOK' /\ StageOK'
  <2>1. stage' \notin Range(Walks) \cup {"scan"}
    BY <1>9, WalksAre
  <2> QED
    BY <1>4, <1>7, <1>9, <2>1 DEF RccTypeOK, ProcessOK, StageOK, Stages
<1>11. iterator' \in Seq(DOMAIN Disk)
  <2>1. <<>> \in Seq(DOMAIN Disk)
    OBVIOUS
  <2>2. Iterable(file) => Disk[file].below \in Seq(DOMAIN Disk)
    BY DiskIs DEF Iterable
  <2> QED
    BY <1>4, <2>1, <2>2
<1>12. entry' \in [alias : Paths, level : Int, threshold : Int]
  <2>1. Stem(alias, file) \in Paths
    BY <1>3, StemIs
  <2>2. entry \in [alias : Paths, level : Int, threshold : Int]
    BY DEF RccTypeOK, ReadOK
  <2> QED
    BY <1>4, <2>1, <2>2
<1>13. ReadOK'
  BY <1>4, <1>11, <1>12 DEF RccTypeOK, ReadOK
<1> QED
  BY <1>4, <1>8, <1>9, <1>10, <1>13 DEF RccTypeOK

LEMMA FoundTyped ==
    ASSUME RccTypeOK, AddFound
    PROVE  RccTypeOK' /\ stage' = "interpretResourceFile" /\ UNCHANGED <<command, image>>
<1> DEFINE child == Head(iterator)
    info == RCCFileInfo(Last(child), child, Disk[child].kind = "directory",
                        resource.locale, entry.level, entry.threshold)
<1>1. /\ stage = "interpretResourceFile" /\ iterator # <<>> /\ iterator' = Tail(iterator)
      /\ UNCHANGED <<input, at, resource, entry, command, seed, stage, pending, todo, offset, image>>
      /\ nodes' = nodes \/ nodes' = AddFile(nodes, Append(entry.alias, Last(child)), info)
  BY DEF AddFound, Interpreting, processVars
<1>2. iterator \in Seq(DOMAIN Disk)
  BY DEF RccTypeOK, ReadOK
<1>3. child \in DOMAIN Disk /\ iterator' \in Seq(DOMAIN Disk)
  BY <1>1, <1>2
<1> HIDE DEF child, info
<1>4. child \in Paths /\ child # <<>>
  BY <1>3, DiskAssumption DEF Paths
<1>5. Last(child) \in FileNames
  BY <1>4, PathParts
<1>6. New(info)
  <2>1. (Disk[child].kind = "directory") \in BOOLEAN
    OBVIOUS
  <2> QED
    BY <1>3, <1>5, <2>1, NewFile DEF RccTypeOK, info
<1>7. Append(entry.alias, Last(child)) \in Paths \ {<<>>}
  <2>1. entry.alias \in Seq(FileNames)
    BY DEF RccTypeOK, ReadOK, Paths
  <2> QED
    BY <1>5, <2>1 DEF Paths
<1>8. nodes' \in Trees
  <2>1. nodes \in Trees
    BY DEF RccTypeOK, TreeOK
  <2> QED
    BY <1>1, <1>6, <1>7, <2>1, AddFileIs
<1>9. pending' = <<>> /\ todo' = <<>> /\ offset' \in Nat /\ image' \in Image
  BY <1>1 DEF RccTypeOK, TreeOK, StageOK
<1>10. TreeOK'
  BY <1>8, <1>9 DEF TreeOK
<1>11. ProcessOK' /\ StageOK'
  <2>1. stage \notin Range(Walks) \cup {"scan"}
    BY <1>1, WalksAre
  <2> QED
    BY <1>1, <1>9, <2>1 DEF RccTypeOK, ProcessOK, StageOK
<1>12. ReadOK'
  BY <1>1, <1>3 DEF RccTypeOK, ReadOK
<1> QED
  BY <1>1, <1>10, <1>11, <1>12 DEF RccTypeOK

LEMMA DocumentTyped ==
    ASSUME RccTypeOK, ParseError \/ EndDocument
    PROVE  RccTypeOK' /\ stage' \in {"interpretResourceFile", "failed"}
           /\ UNCHANGED <<command, image>>
<1>1. /\ stage = "interpretResourceFile"
      /\ UNCHANGED <<command, seed, pending, todo, offset, image>>
      /\ stage' = stage \/ stage' = "failed"
  BY DEF ParseError, EndDocument, Interpreting, processVars
<1>2. nodes' = nodes \/ nodes' = <<ImpliedDirectory("")>>
  BY DEF ParseError, EndDocument, NextInput, readVars
<1>3. NextInput \/ UNCHANGED <<input, at, resource, entry, iterator>>
  BY DEF ParseError, EndDocument, readVars
<1>4. nodes' \in Trees
  <2>1. New(ImpliedDirectory("")) /\ ImpliedDirectory("").directory
    BY ImpliedIsNew, NameAssumption
  <2> DEFINE d == ImpliedDirectory("")
  <2> HIDE DEF d
  <2>2. d \in FileInfo /\ d.directory /\ d.children = <<>>
    BY <2>1 DEF New, d
  <2>3. <<d>> \in Seq(FileInfo) /\ Len(<<d>>) = 1 /\ DOMAIN <<d>> = {1} /\ <<d>>[1] = d
    BY <2>2
  <2>4. <<d>> \in Trees
    BY <2>2, <2>3 DEF Trees
  <2>5. nodes \in Trees
    BY DEF RccTypeOK, TreeOK
  <2> QED
    BY <1>2, <2>4, <2>5 DEF d
<1>5. pending' = <<>> /\ todo' = <<>> /\ offset' \in Nat /\ image' \in Image
  BY <1>1 DEF RccTypeOK, TreeOK, StageOK
<1>6. TreeOK'
  BY <1>4, <1>5 DEF TreeOK
<1>7. ProcessOK' /\ StageOK'
  <2>1. stage' \notin Range(Walks) \cup {"scan"}
    BY <1>1, WalksAre
  <2> QED
    BY <1>1, <1>5, <2>1 DEF RccTypeOK, ProcessOK, StageOK, Stages
<1>8. ReadOK'
  <2>1. CASE NextInput
    <3>1. NoEntry \in [alias : Paths, level : Int, threshold : Int]
      BY ProcessIs DEF RccTypeOK, ProcessOK, NoEntry, NoAlias, Paths
    <3>2. [prefix |-> <<>>, locale |-> CLocale] \in [prefix : Paths, locale : Locale]
      BY DEF Paths, Locale
    <3>3. input \in Nat \ {0} /\ iterator \in Seq(DOMAIN Disk)
      BY DEF RccTypeOK, ReadOK
    <3> QED
      BY <2>1, <3>1, <3>2, <3>3 DEF NextInput, ReadOK
  <2>2. CASE UNCHANGED <<input, at, resource, entry, iterator>>
    BY <2>2 DEF RccTypeOK, ReadOK
  <2> QED
    BY <1>3, <2>1, <2>2
<1> QED
  BY <1>1, <1>6, <1>7, <1>8 DEF RccTypeOK

(* The steps of the traversals.                                            *)
LEMMA RootIs ==
    ASSUME nodes \in Trees
    PROVE  /\ Root \in Seq(DOMAIN nodes) /\ \A i \in DOMAIN Root : nodes[Root[i]].directory
           /\ nodes # <<>> => Root = <<1>> /\ 1 \in DOMAIN nodes
<1>1. nodes # <<>> => 1 \in DOMAIN nodes /\ nodes[1].directory
  <2>1. nodes \in Seq(FileInfo) /\ Len(nodes) \in Nat /\ DOMAIN nodes = 1 .. Len(nodes)
    BY TreeIs
  <2> QED
    BY <2>1 DEF Trees
<1>2. CASE nodes # <<>>
  <2>1. Root = <<1>>
    BY <1>2 DEF Root
  <2>2. <<1>> \in Seq(DOMAIN nodes) /\ DOMAIN <<1>> = {1} /\ <<1>>[1] = 1
    BY <1>1, <1>2
  <2> QED
    BY <1>1, <1>2, <2>1, <2>2
<1>3. CASE nodes = <<>>
  <2>1. Root = <<>>
    BY <1>3 DEF Root
  <2>2. <<>> \in Seq(DOMAIN nodes) /\ DOMAIN <<>> = {}
    OBVIOUS
  <2> QED
    BY <1>3, <2>1, <2>2
<1> QED
  BY <1>2, <1>3

LEMMA OutputTyped ==
    ASSUME RccTypeOK, Output
    PROVE  /\ RccTypeOK'
           /\ stage' \in {"written", "scan", "writeDataBlobs"}
           /\ stage' = "writeDataBlobs" =>
                 /\ ~command.list /\ command.format # "Pass2" /\ nodes # <<>>
                 /\ pending' = Root /\ offset' = 0 /\ image' = image
           /\ stage' = "written" => command.list \/ nodes = <<>>
           /\ stage' = "scan" => command.format = "Pass2"
           /\ todo' = <<>> /\ UNCHANGED <<command, seed, nodes>>
<1>1. /\ stage = "interpretResourceFile" /\ offset' = 0
      /\ UNCHANGED <<command, seed, input, at, resource, entry, iterator, nodes, todo>>
      /\ pending' = IF stage' = "writeDataBlobs" THEN Root ELSE <<>>
      /\ image' = IF command.list THEN [image EXCEPT !.list = DataFiles] ELSE image
  BY DEF Output, processVars, readVars
<1>2. command.list \in BOOLEAN
  BY ProcessIs DEF RccTypeOK, ProcessOK
<1>3. \/ stage' = "written" /\ (command.list \/ nodes = <<>>)
      \/ stage' = "scan" /\ ~command.list /\ command.format = "Pass2"
      \/ stage' = "writeDataBlobs" /\ ~command.list /\ command.format # "Pass2" /\ nodes # <<>>
  <2>1. stage' = CASE command.list -> "written"
                   [] ~command.list /\ command.format = "Pass2" -> "scan"
                   [] ~command.list /\ command.format # "Pass2" /\ nodes = <<>> -> "written"
                   [] OTHER -> "writeDataBlobs"
    BY DEF Output
  <2> QED
    BY <1>2, <2>1
<1>4. nodes \in Trees /\ todo = <<>> /\ image \in Image
  BY <1>1 DEF RccTypeOK, TreeOK, StageOK
<1>5. image' \in Image
  <2>1. DataFiles \in SUBSET (DOMAIN Disk \cup {<<>>})
    <3>1. \A n \in DOMAIN nodes : nodes[n].file \in DOMAIN Disk \cup {<<>>}
      <4>1. \A n \in DOMAIN nodes : nodes[n] \in FileInfo
        BY <1>4, TreeIs
      <4> QED
        BY <4>1 DEF FileInfo
    <3>2. ASSUME NEW f \in DataFiles PROVE f \in DOMAIN Disk \cup {<<>>}
      <4>1. PICK n \in DOMAIN nodes : f = nodes[n].file
        BY <3>2 DEF DataFiles
      <4> QED
        BY <3>1, <4>1
    <3> QED
      BY <3>2
  <2> QED
    BY <1>1, <1>4, <2>1 DEF Image
<1>6. TreeOK'
  <2>1. pending' \in Seq(DOMAIN nodes) /\ \A i \in DOMAIN pending' : nodes[pending'[i]].directory
    <3>1. CASE pending' = Root
      BY <1>4, <3>1, RootIs
    <3>2. CASE pending' = <<>>
      <4>1. <<>> \in Seq(DOMAIN nodes) /\ DOMAIN <<>> = {}
        OBVIOUS
      <4> QED
        BY <3>2, <4>1
    <3> QED
      BY <1>1, <3>1, <3>2
  <2>2. todo' \in Seq(DOMAIN nodes)
    BY <1>1 DEF RccTypeOK, TreeOK
  <2> QED
    BY <1>1, <1>4, <1>5, <2>1, <2>2 DEF TreeOK
<1>7. ProcessOK' /\ StageOK'
  BY <1>1, <1>3, <1>4, WalksAre DEF RccTypeOK, ProcessOK, StageOK, Stages
<1>8. ReadOK'
  BY <1>1 DEF RccTypeOK, ReadOK
<1> QED
  BY <1>1, <1>3, <1>4, <1>6, <1>7, <1>8 DEF RccTypeOK

LEMMA DescendTyped ==
    ASSUME RccTypeOK, Descend
    PROVE  /\ RccTypeOK' /\ UNCHANGED <<command, seed, stage, offset, image>>
           /\ stage \in Range(Walks) /\ todo = <<>> /\ pending # <<>>
           /\ pending' = Front(pending) /\ Last(pending) \in DOMAIN nodes
           /\ nodes[Last(pending)].directory
           /\ LET children == nodes[Last(pending)].children
              IN  /\ todo' \in {Iterated(children), SortedByHash(children)}
                  /\ stage \in {"childOffsets", "writeDataInfo"} => todo' = SortedByHash(children)
                  /\ todo' \in Seq(DOMAIN nodes) /\ IsInjective(todo')
                  /\ Range(todo') = Range(children)
           /\ Shape(nodes') = Shape(nodes) /\ DOMAIN nodes' = DOMAIN nodes
           /\ (nodes' = <<>> <=> nodes = <<>>)
           /\ nodes' = IF stage = "childOffsets"
                       THEN [nodes EXCEPT ![Last(pending)].childOffset = offset] ELSE nodes
<1>1. /\ UNCHANGED <<command, seed, stage, input, at, resource, entry, iterator, offset, image>>
      /\ stage \in Range(Walks) /\ todo = <<>> /\ pending # <<>> /\ pending' = Front(pending)
      /\ todo' = IF stage \in {"writeDataBlobs", "writeDataNames"}
                 THEN Iterated(nodes[Last(pending)].children)
                 ELSE SortedByHash(nodes[Last(pending)].children)
      /\ nodes' = IF stage = "childOffsets"
                  THEN [nodes EXCEPT ![Last(pending)].childOffset = offset] ELSE nodes
  BY DEF Descend, processVars
<1>2. /\ nodes \in Trees /\ pending \in Seq(DOMAIN nodes) /\ offset \in Nat /\ image \in Image
      /\ \A i \in DOMAIN pending : nodes[pending[i]].directory
  BY DEF RccTypeOK, TreeOK
<1>3. /\ Len(pending) \in DOMAIN pending /\ Front(pending) \in Seq(DOMAIN nodes)
      /\ DOMAIN Front(pending) = 1 .. Len(pending) - 1
      /\ \A i \in DOMAIN Front(pending) : i \in DOMAIN pending /\ Front(pending)[i] = pending[i]
  <2>1. Len(pending) \in Nat \ {0} /\ DOMAIN pending = 1 .. Len(pending)
    BY <1>1, <1>2
  <2> QED
    BY <1>2, <2>1 DEF Front
<1> DEFINE d == Last(pending)
    c == nodes[d].children
<1>4. d \in DOMAIN nodes /\ nodes[d].directory
  BY <1>2, <1>3 DEF Last
<1> HIDE DEF d
<1>5. c \in Seq(DOMAIN nodes) /\ IsInjective(c) /\ nodes \in Seq(FileInfo) /\ nodes[d] \in FileInfo
  BY <1>2, <1>4, TreeIs
<1>6. /\ Iterated(c) \in Seq(DOMAIN nodes) /\ Range(Iterated(c)) = Range(c)
      /\ IsInjective(Iterated(c))
      /\ SortedByHash(c) \in Seq(DOMAIN nodes) /\ Range(SortedByHash(c)) = Range(c)
      /\ IsInjective(SortedByHash(c))
  BY <1>2, <1>5, OrderIs, InOrder DEF RccTypeOK
<1>7. /\ nodes' \in Trees /\ DOMAIN nodes' = DOMAIN nodes /\ Shape(nodes') = Shape(nodes)
      /\ (nodes' = <<>> <=> nodes = <<>>)
      /\ \A p \in DOMAIN nodes : nodes'[p].directory = nodes[p].directory
  <2>1. CASE stage # "childOffsets"
    BY <1>1, <1>2, <2>1
  <2>2. CASE stage = "childOffsets"
    <3> DEFINE info == [nodes[d] EXCEPT !.childOffset = offset]
    <3>1. /\ info \in FileInfo /\ info.directory = nodes[d].directory
          /\ info.file = nodes[d].file /\ info.children = c
      BY <1>2, <1>5 DEF FileInfo
    <3>2. nodes' = [nodes EXCEPT ![d] = info]
      BY <1>1, <2>2 DEF d
    <3> HIDE DEF info
    <3>3. nodes' \in Seq(FileInfo) /\ Len(nodes') = Len(nodes)
      BY <1>4, <1>5, <3>1, <3>2
    <3>4. \A p \in DOMAIN nodes : /\ nodes'[p].directory = nodes[p].directory
                                  /\ nodes'[p].file = nodes[p].file
                                  /\ nodes'[p].children = nodes[p].children
      BY <1>4, <1>5, <3>1, <3>2
    <3> QED
      BY <1>2, <3>3, <3>4, SameTree
  <2> QED
    BY <2>1, <2>2
<1>8. TreeOK'
  <2>1. todo' \in Seq(DOMAIN nodes')
    BY <1>1, <1>6, <1>7 DEF d
  <2>2. \A i \in DOMAIN pending' : nodes'[pending'[i]].directory
    <3> SUFFICES ASSUME NEW i \in DOMAIN pending' PROVE nodes'[pending'[i]].directory
      OBVIOUS
    <3>1. i \in DOMAIN pending /\ pending'[i] = pending[i]
      BY <1>1, <1>3
    <3>2. pending[i] \in DOMAIN nodes /\ nodes[pending[i]].directory
      BY <1>2, <3>1
    <3> QED
      BY <1>7, <3>1, <3>2
  <2> QED
    BY <1>1, <1>2, <1>3, <1>7, <2>1, <2>2 DEF TreeOK
<1>9. ProcessOK' /\ ReadOK'
  BY <1>1 DEF RccTypeOK, ProcessOK, ReadOK
<1>10. StageOK'
  <2>1. stage # "interpretResourceFile"
    BY <1>1, WalksAre
  <2> QED
    BY <1>1, <1>7, <2>1 DEF RccTypeOK, StageOK
<1> QED
  BY <1>1, <1>4, <1>6, <1>7, <1>8, <1>9, <1>10 DEF RccTypeOK, d

(* One child is visited: nothing of the tree's shape changes.              *)
LEMMA VisitedTyped ==
    ASSUME RccTypeOK, NEW walk \in Range(Walks), Walking(walk), Visited, stage' = stage,
           nodes' \in Seq(FileInfo), Len(nodes') = Len(nodes),
           \A p \in DOMAIN nodes : /\ nodes'[p].directory = nodes[p].directory
                                   /\ nodes'[p].file = nodes[p].file
                                   /\ nodes'[p].children = nodes[p].children,
           offset' \in Nat, image' \in Image
    PROVE  /\ RccTypeOK' /\ Shape(nodes') = Shape(nodes) /\ DOMAIN nodes' = DOMAIN nodes
           /\ (nodes' = <<>> <=> nodes = <<>>)
<1>1. /\ UNCHANGED <<command, seed, input, at, resource, entry, iterator>>
      /\ stage = walk /\ todo # <<>> /\ todo' = Tail(todo)
      /\ pending' = IF Visiting.directory THEN Append(pending, Head(todo)) ELSE pending
  BY DEF Visited, Walking, processVars
<1>2. /\ nodes \in Trees /\ pending \in Seq(DOMAIN nodes) /\ todo \in Seq(DOMAIN nodes)
      /\ \A i \in DOMAIN pending : nodes[pending[i]].directory
  BY DEF RccTypeOK, TreeOK
<1>3. /\ nodes' \in Trees /\ DOMAIN nodes' = DOMAIN nodes /\ Shape(nodes') = Shape(nodes)
      /\ (nodes' = <<>> <=> nodes = <<>>)
  BY <1>2, SameTree
<1>4. Head(todo) \in DOMAIN nodes /\ todo' \in Seq(DOMAIN nodes)
  BY <1>1, <1>2
<1>5. pending' \in Seq(DOMAIN nodes) /\ \A i \in DOMAIN pending' : nodes[pending'[i]].directory
  <2>1. CASE Visiting.directory
    <3>1. nodes[Head(todo)].directory
      BY <2>1 DEF Visiting
    <3>2. pending' = Append(pending, Head(todo))
      BY <1>1, <2>1
    <3>3. /\ pending' \in Seq(DOMAIN nodes)
          /\ \A i \in DOMAIN pending' :
                \/ pending'[i] = Head(todo)
                \/ i \in DOMAIN pending /\ pending'[i] = pending[i]
      BY <1>2, <1>4, <3>2, Appended
    <3> QED
      BY <1>2, <3>1, <3>3
  <2>2. CASE ~Visiting.directory
    BY <1>1, <1>2, <2>2
  <2> QED
    BY <2>1, <2>2
<1>6. \A i \in DOMAIN pending' : nodes'[pending'[i]].directory
  BY <1>5
<1>7. TreeOK'
  BY <1>3, <1>4, <1>5, <1>6 DEF TreeOK
<1>8. ProcessOK' /\ ReadOK'
  BY <1>1 DEF RccTypeOK, ProcessOK, ReadOK
<1>9. StageOK'
  <2>1. stage # "interpretResourceFile"
    BY <1>1, WalksAre
  <2> QED
    BY <1>1, <1>3, <2>1 DEF RccTypeOK, StageOK
<1> QED
  BY <1>3, <1>7, <1>8, <1>9 DEF RccTypeOK

LEMMA BlobIs ==
    ASSUME NEW file \in DOMAIN Disk, NEW c \in BOOLEAN
    PROVE  /\ Blob(file, c) \in Seq(Bytes) /\ Len(Blob(file, c)) \in Nat
           /\ DOMAIN Blob(file, c) = 1 .. Len(Blob(file, c))
<1>1. 4 + Size(file, c) \in Nat
  <2>1. Disk[file].size \in Nat /\ Disk[file].packed \in Nat
    BY DiskAssumption
  <2> QED
    BY <2>1 DEF Size
<1> DEFINE n == 4 + Size(file, c)
<1> HIDE DEF n
<1>2. Blob(file, c) = [i \in 1 .. n |-> <<file, c, i>>]
  BY DEF Blob, n
<1>3. \A i \in 1 .. n : <<file, c, i>> \in Bytes
  BY DEF Bytes
<1>4. n \in Nat
  BY <1>1 DEF n
<1> QED
  BY <1>2, <1>3, <1>4

LEMMA NodeIs ==
    ASSUME TreeOK, NEW n \in DOMAIN nodes
    PROVE  /\ nodes[n] \in FileInfo /\ nodes[n].name \in FileNames
           /\ nodes[n].directory \in BOOLEAN /\ nodes[n].compressed \in BOOLEAN
           /\ ~nodes[n].directory => nodes[n].file \in DOMAIN Disk
           /\ nodes[n].nameOffset \in Nat /\ nodes[n].dataOffset \in Nat
           /\ nodes[n].childOffset \in Nat
<1>1. nodes \in Trees /\ nodes[n] \in FileInfo
  BY TreeIs DEF TreeOK
<1> QED
  BY <1>1 DEF Trees, FileInfo

(* A node gets an offset or is told compressed.                            *)
LEMMA Settled ==
    ASSUME TreeOK, NEW n \in DOMAIN nodes, NEW info \in FileInfo,
           info.directory = nodes[n].directory, info.file = nodes[n].file,
           info.children = nodes[n].children, nodes' = [nodes EXCEPT ![n] = info]
    PROVE  /\ nodes' \in Seq(FileInfo) /\ Len(nodes') = Len(nodes)
           /\ \A p \in DOMAIN nodes : /\ nodes'[p].directory = nodes[p].directory
                                      /\ nodes'[p].file = nodes[p].file
                                      /\ nodes'[p].children = nodes[p].children
<1>1. nodes \in Seq(FileInfo) /\ \A p \in DOMAIN nodes : nodes[p] \in FileInfo
  BY TreeIs DEF TreeOK
<1> QED
  BY <1>1

LEMMA BlobTyped ==
    ASSUME RccTypeOK, WriteDataBlob
    PROVE  /\ RccTypeOK' /\ Shape(nodes') = Shape(nodes) /\ DOMAIN nodes' = DOMAIN nodes
           /\ (nodes' = <<>> <=> nodes = <<>>)
           /\ stage = "writeDataBlobs" /\ todo # <<>> /\ Visited
           /\ UNCHANGED <<command, seed, stage>>
           /\ Head(todo) \in DOMAIN nodes /\ ~Visiting.directory
           /\ nodes' = [nodes EXCEPT ![Head(todo)] =
                           [Visiting EXCEPT !.dataOffset = offset, !.compressed = Compresses(Visiting)]]
           /\ LET blob == Blob(Visiting.file, Compresses(Visiting))
              IN  /\ offset' = offset + Len(blob)
                  /\ image' = IF command.format \in {"C_Code", "Binary"}
                              THEN [image EXCEPT !.data = @ \o blob] ELSE image
                  /\ blob \in Seq(Bytes) /\ Len(blob) \in Nat /\ DOMAIN blob = 1 .. Len(blob)
<1> DEFINE n == Head(todo)
    c == Compresses(Visiting)
    blob == Blob(Visiting.file, c)
    info == [Visiting EXCEPT !.dataOffset = offset, !.compressed = c]
<1>1. /\ Walking("writeDataBlobs") /\ ~Visiting.directory /\ Visited
      /\ UNCHANGED <<command, seed, stage>>
      /\ nodes' = [nodes EXCEPT ![n].dataOffset = offset, ![n].compressed = c]
      /\ offset' = offset + Len(blob)
      /\ image' = IF command.format \in {"C_Code", "Binary"}
                  THEN [image EXCEPT !.data = @ \o blob] ELSE image
  BY DEF WriteDataBlob, Visited, processVars
<1>2. stage = "writeDataBlobs" /\ todo # <<>> /\ "writeDataBlobs" \in Range(Walks)
  BY <1>1, WalksAre DEF Walking
<1>3. TreeOK /\ todo \in Seq(DOMAIN nodes) /\ offset \in Nat /\ image \in Image
  BY DEF RccTypeOK, TreeOK
<1>4. n \in DOMAIN nodes
  BY <1>2, <1>3
<1>5. Visiting = nodes[n] /\ c \in BOOLEAN
  BY DEF Visiting, Compresses
<1> HIDE DEF n, c
<1>6. Visiting \in FileInfo /\ Visiting.file \in DOMAIN Disk
  BY <1>1, <1>3, <1>4, <1>5, NodeIs
<1>7. blob \in Seq(Bytes) /\ Len(blob) \in Nat /\ DOMAIN blob = 1 .. Len(blob)
  BY <1>5, <1>6, BlobIs
<1> HIDE DEF blob
<1>8. offset' \in Nat /\ image' \in Image
  <2>1. offset' \in Nat
    BY <1>1, <1>3, <1>7
  <2>2. image.data \o blob \in Seq(Bytes)
    BY <1>3, <1>7 DEF Image
  <2> QED
    BY <1>1, <1>3, <2>1, <2>2 DEF Image
<1>9. info \in FileInfo /\ info.directory = nodes[n].directory /\ info.file = nodes[n].file
      /\ info.children = nodes[n].children
  BY <1>3, <1>5, <1>6 DEF FileInfo
<1>10. nodes' = [nodes EXCEPT ![n] = info]
  <2>1. nodes \in Seq(FileInfo)
    BY <1>3, TreeIs DEF TreeOK
  <2> QED
    BY <1>1, <1>4, <1>5, <2>1
<1> HIDE DEF info
<1>11. /\ nodes' \in Seq(FileInfo) /\ Len(nodes') = Len(nodes)
       /\ \A p \in DOMAIN nodes : /\ nodes'[p].directory = nodes[p].directory
                                  /\ nodes'[p].file = nodes[p].file
                                  /\ nodes'[p].children = nodes[p].children
  BY <1>3, <1>4, <1>9, <1>10, Settled
<1>12. /\ RccTypeOK' /\ Shape(nodes') = Shape(nodes) /\ DOMAIN nodes' = DOMAIN nodes
       /\ (nodes' = <<>> <=> nodes = <<>>)
  BY <1>1, <1>2, <1>8, <1>11, VisitedTyped
<1> QED
  BY <1>1, <1>2, <1>4, <1>7, <1>10, <1>12 DEF n, c, blob, info

LEMMA UntouchedTyped ==
    ASSUME RccTypeOK, BlobOfDirectory \/ CountChild
    PROVE  /\ RccTypeOK' /\ todo # <<>> /\ Visited /\ UNCHANGED <<command, seed, stage, nodes, image>>
           /\ Head(todo) \in DOMAIN nodes /\ stage \in Range(Walks)
<1>1. PICK walk \in Range(Walks) : Walking(walk)
  BY WalksAre DEF BlobOfDirectory, CountChild
<1>2. Visited /\ UNCHANGED <<command, seed, stage, nodes, image>> /\ offset' \in {offset, offset + 1}
  BY DEF BlobOfDirectory, CountChild, Visited, processVars
<1>3. nodes \in Trees /\ todo \in Seq(DOMAIN nodes) /\ offset \in Nat /\ image \in Image
  BY DEF RccTypeOK, TreeOK
<1>4. nodes \in Seq(FileInfo)
  BY <1>3, TreeIs
<1>5. nodes' \in Seq(FileInfo) /\ Len(nodes') = Len(nodes) /\ offset' \in Nat /\ image' \in Image
  BY <1>2, <1>3, <1>4
<1>6. \A p \in DOMAIN nodes : /\ nodes'[p].directory = nodes[p].directory
                              /\ nodes'[p].file = nodes[p].file
                              /\ nodes'[p].children = nodes[p].children
  BY <1>2
<1>7. RccTypeOK'
  BY <1>1, <1>2, <1>5, <1>6, VisitedTyped
<1>8. todo # <<>> /\ stage = walk
  BY <1>1 DEF Walking
<1> QED
  BY <1>2, <1>3, <1>7, <1>8

LEMMA NameTyped ==
    ASSUME RccTypeOK, WriteDataName
    PROVE  /\ RccTypeOK' /\ Shape(nodes') = Shape(nodes) /\ DOMAIN nodes' = DOMAIN nodes
           /\ (nodes' = <<>> <=> nodes = <<>>)
           /\ stage = "writeDataNames" /\ todo # <<>> /\ Visited
           /\ UNCHANGED <<command, seed, stage>>
           /\ Head(todo) \in DOMAIN nodes /\ offset' \in Nat /\ offset' >= offset
           /\ \E place \in Nat :
                 /\ nodes' = [nodes EXCEPT ![Head(todo)] = [Visiting EXCEPT !.nameOffset = place]]
                 /\ \/ /\ image' = image /\ offset' = offset
                       /\ \E x \in DOMAIN image.names : /\ image.names[x].name = Visiting.name
                                                        /\ image.names[x].offset = place
                    \/ /\ image' = [image EXCEPT !.names =
                                       Append(@, [name |-> Visiting.name, offset |-> offset])]
                       /\ place = offset /\ offset' > offset
                       /\ \A x \in DOMAIN image.names : image.names[x].name # Visiting.name
<1> DEFINE n == Head(todo)
    written == {x \in Range(image.names) : x.name = Visiting.name}
    place == IF written = {} THEN offset ELSE (CHOOSE x \in written : TRUE).offset
    info == [Visiting EXCEPT !.nameOffset = place]
<1>1. /\ Walking("writeDataNames") /\ Visited /\ UNCHANGED <<command, seed, stage>>
      /\ nodes' = [nodes EXCEPT ![n].nameOffset = place]
      /\ image' = IF written # {} THEN image
                  ELSE [image EXCEPT !.names = Append(@, [name |-> Visiting.name, offset |-> offset])]
      /\ offset' = IF written # {} THEN offset ELSE offset + 6 + 2 * Len(Visiting.name)
  BY DEF WriteDataName, Visited, processVars
<1>2. stage = "writeDataNames" /\ todo # <<>> /\ "writeDataNames" \in Range(Walks)
  BY <1>1, WalksAre DEF Walking
<1>3. TreeOK /\ todo \in Seq(DOMAIN nodes) /\ offset \in Nat /\ image \in Image
  BY DEF RccTypeOK, TreeOK
<1>4. n \in DOMAIN nodes
  BY <1>2, <1>3
<1>5. Visiting = nodes[n]
  BY DEF Visiting
<1> HIDE DEF n
<1>6. Visiting \in FileInfo /\ Visiting.name \in FileNames /\ Len(Visiting.name) \in Nat
  BY <1>3, <1>4, <1>5, NodeIs, NameAssumption
<1>7. image.names \in Seq([name : FileNames, offset : Nat])
  BY <1>3 DEF Image
<1>8. \A x \in DOMAIN image.names : image.names[x] \in [name : FileNames, offset : Nat]
  <2> DEFINE names == image.names
          Names == [name : FileNames, offset : Nat]
  <2>1. names \in Seq(Names)
    BY <1>7
  <2> HIDE DEF names, Names
  <2>2. \A x \in DOMAIN names : names[x] \in Names
    BY ONLY <2>1, InSeq
  <2> QED
    BY <2>2 DEF names, Names
<1>9. CASE written # {}
  <2>1. PICK x \in DOMAIN image.names : image.names[x] = CHOOSE y \in written : TRUE
    <3>1. (CHOOSE y \in written : TRUE) \in written
      BY <1>9
    <3> QED
      BY <3>1 DEF Range
  <2>2. image.names[x] \in written
    BY <1>9, <2>1
  <2>3. /\ image.names[x].name = Visiting.name /\ place = image.names[x].offset
        /\ image.names[x] \in [name : FileNames, offset : Nat]
    BY <1>8, <1>9, <2>1, <2>2
  <2>4. place \in Nat
    BY <2>3
  <2>5. /\ \E y \in DOMAIN image.names : /\ image.names[y].name = Visiting.name
                                        /\ image.names[y].offset = place
        /\ image' = image /\ offset' = offset
    BY <1>1, <1>9, <2>3
  <2> HIDE DEF place, written
  <2>6. info \in FileInfo /\ info.directory = nodes[n].directory /\ info.file = nodes[n].file
        /\ info.children = nodes[n].children
    BY <1>5, <1>6, <2>4 DEF FileInfo
  <2>7. nodes' = [nodes EXCEPT ![n] = info]
    BY <1>1, <1>5
  <2> HIDE DEF info
  <2>8. /\ nodes' \in Seq(FileInfo) /\ Len(nodes') = Len(nodes)
        /\ \A p \in DOMAIN nodes : /\ nodes'[p].directory = nodes[p].directory
                                   /\ nodes'[p].file = nodes[p].file
                                   /\ nodes'[p].children = nodes[p].children
    BY <1>3, <1>4, <2>6, <2>7, Settled
  <2>9. /\ RccTypeOK' /\ Shape(nodes') = Shape(nodes) /\ DOMAIN nodes' = DOMAIN nodes
        /\ (nodes' = <<>> <=> nodes = <<>>)
    BY <1>1, <1>2, <1>3, <2>5, <2>8, VisitedTyped
  <2>10. offset' \in Nat /\ offset' >= offset
    BY <1>3, <2>5
  <2>11. nodes' = [nodes EXCEPT ![n] = [Visiting EXCEPT !.nameOffset = place]]
    BY <2>7 DEF info
  <2> QED
    BY <1>1, <1>2, <1>4, <2>4, <2>5, <2>9, <2>10, <2>11 DEF n
<1>10. CASE written = {}
  <2>1. /\ offset' = offset + 6 + 2 * Len(Visiting.name) /\ place = offset
        /\ image' = [image EXCEPT !.names = Append(@, [name |-> Visiting.name, offset |-> offset])]
    BY <1>1, <1>10
  <2>2. \A x \in DOMAIN image.names : image.names[x].name # Visiting.name
    BY <1>10 DEF Range
  <2> HIDE DEF place, written
  <2>3. offset' \in Nat /\ offset' > offset /\ offset' >= offset
    <3> DEFINE l == Len(Visiting.name)
    <3>1. l \in Nat /\ offset \in Nat /\ offset' = offset + 6 + 2 * l
      BY <1>3, <1>6, <2>1
    <3> HIDE DEF l
    <3> QED
      BY ONLY <3>1
  <2>4. image' \in Image
    <3>1. [name |-> Visiting.name, offset |-> offset] \in [name : FileNames, offset : Nat]
      BY <1>3, <1>6
    <3>2. Append(image.names, [name |-> Visiting.name, offset |-> offset])
             \in Seq([name : FileNames, offset : Nat])
      BY <1>7, <3>1, Appended
    <3> QED
      BY <1>3, <2>1, <3>2 DEF Image
  <2>5. place \in Nat
    BY <1>3, <2>1
  <2>6. info \in FileInfo /\ info.directory = nodes[n].directory /\ info.file = nodes[n].file
        /\ info.children = nodes[n].children
    BY <1>5, <1>6, <2>5 DEF FileInfo
  <2>7. nodes' = [nodes EXCEPT ![n] = info]
    BY <1>1, <1>5
  <2> HIDE DEF info
  <2>8. /\ nodes' \in Seq(FileInfo) /\ Len(nodes') = Len(nodes)
        /\ \A p \in DOMAIN nodes : /\ nodes'[p].directory = nodes[p].directory
                                   /\ nodes'[p].file = nodes[p].file
                                   /\ nodes'[p].children = nodes[p].children
    BY <1>3, <1>4, <2>6, <2>7, Settled
  <2>9. /\ RccTypeOK' /\ Shape(nodes') = Shape(nodes) /\ DOMAIN nodes' = DOMAIN nodes
        /\ (nodes' = <<>> <=> nodes = <<>>)
    BY <1>1, <1>2, <2>3, <2>4, <2>8, VisitedTyped
  <2> QED
    BY <1>1, <1>2, <1>4, <2>1, <2>2, <2>3, <2>5, <2>7, <2>9 DEF n, info
<1> QED
  BY <1>9, <1>10

LEMMA InfoTyped ==
    ASSUME TreeOK, NEW n \in DOMAIN nodes
    PROVE  Info(n) \in Infos
<1>1. nodes[n] \in FileInfo
  BY NodeIs
<1>2. Len(nodes[n].children) \in Nat /\ CLocale \in Locale
  BY <1>1 DEF FileInfo, Locale
<1> QED
  BY <1>1, <1>2 DEF Info, Infos, FileInfo

LEMMA EntryTyped ==
    ASSUME RccTypeOK, WriteDataInfo
    PROVE  /\ RccTypeOK' /\ stage = "writeDataInfo" /\ todo # <<>> /\ Visited
           /\ UNCHANGED <<command, seed, stage, nodes>> /\ Head(todo) \in DOMAIN nodes
           /\ image' = [image EXCEPT !.structure = Append(@, Info(Head(todo)))]
           /\ image.structure \in Seq(Infos) /\ Info(Head(todo)) \in Infos
           /\ image'.structure = Append(image.structure, Info(Head(todo)))
           /\ image'.data = image.data /\ image'.names = image.names
<1>1. /\ Walking("writeDataInfo") /\ Visited /\ UNCHANGED <<command, seed, stage, nodes, offset>>
      /\ image' = [image EXCEPT !.structure = Append(@, Info(Head(todo)))]
  BY DEF WriteDataInfo, Visited, processVars
<1>2. stage = "writeDataInfo" /\ todo # <<>> /\ "writeDataInfo" \in Range(Walks)
  BY <1>1, WalksAre DEF Walking
<1>3. TreeOK /\ nodes \in Trees /\ todo \in Seq(DOMAIN nodes) /\ offset \in Nat /\ image \in Image
  BY DEF RccTypeOK, TreeOK
<1>4. Head(todo) \in DOMAIN nodes
  BY <1>2, <1>3
<1>5. Info(Head(todo)) \in Infos /\ image.structure \in Seq(Infos)
  BY <1>3, <1>4, InfoTyped DEF Image
<1>6. Append(image.structure, Info(Head(todo))) \in Seq(Infos)
  BY <1>5, Appended
<1>7. /\ image' \in Image /\ image'.structure = Append(image.structure, Info(Head(todo)))
      /\ image'.data = image.data /\ image'.names = image.names
  BY <1>1, <1>3, <1>6 DEF Image
<1>8. nodes \in Seq(FileInfo)
  BY <1>3, TreeIs
<1>9. nodes' \in Seq(FileInfo) /\ Len(nodes') = Len(nodes) /\ offset' \in Nat
  BY <1>1, <1>3, <1>8
<1>10. \A p \in DOMAIN nodes : /\ nodes'[p].directory = nodes[p].directory
                               /\ nodes'[p].file = nodes[p].file
                               /\ nodes'[p].children = nodes[p].children
  BY <1>1
<1>11. RccTypeOK'
  BY <1>1, <1>2, <1>7, <1>9, <1>10, VisitedTyped
<1> QED
  BY <1>1, <1>2, <1>4, <1>5, <1>7, <1>11
LEMMA FailedTyped ==
    ASSUME RccTypeOK, OpenReadFailed \/ EndSecondData
    PROVE  RccTypeOK' /\ UNCHANGED <<command, image>>
           /\ \/ stage' = "scan" /\ command.format = "Pass2"
              \/ stage' = "failed"
<1>1. /\ stage = "writeDataBlobs" /\ stage \in Range(Walks)
      /\ UNCHANGED <<command, seed, input, at, resource, entry, iterator, offset, image>>
  BY WalksAre DEF OpenReadFailed, EndSecondData, SecondData, Walking, WalkOver, processVars, readVars
<1>2. /\ \/ stage' = "scan" /\ pending' = <<>> /\ todo' = <<>> /\ command.format = "Pass2"
         \/ stage' = "failed" /\ UNCHANGED <<pending, todo>>
  BY DEF OpenReadFailed, EndSecondData, SecondData, SeekBehindData
<1>3. nodes \in Trees /\ pending \in Seq(DOMAIN nodes) /\ todo \in Seq(DOMAIN nodes)
      /\ (\A i \in DOMAIN pending : nodes[pending[i]].directory) /\ offset \in Nat /\ image \in Image
  BY DEF RccTypeOK, TreeOK
<1>4. /\ nodes' \in Trees /\ DOMAIN nodes' = DOMAIN nodes
      /\ \A p \in DOMAIN nodes : nodes'[p].directory = nodes[p].directory
  <2>1. CASE OpenReadFailed
    <3> DEFINE n == Head(todo)
        info == [nodes[n] EXCEPT !.dataOffset = offset]
    <3>1. nodes' = [nodes EXCEPT ![n].dataOffset = offset] /\ todo # <<>>
      BY <2>1 DEF OpenReadFailed, Walking
    <3>2. n \in DOMAIN nodes
      BY <1>3, <3>1
    <3> HIDE DEF n
    <3>3. TreeOK /\ nodes[n] \in FileInfo
      BY <3>2, NodeIs DEF RccTypeOK
    <3>4. info \in FileInfo /\ info.directory = nodes[n].directory /\ info.file = nodes[n].file
          /\ info.children = nodes[n].children
      BY <1>3, <3>3 DEF FileInfo
    <3>5. nodes' = [nodes EXCEPT ![n] = info]
      BY <3>1
    <3> HIDE DEF info
    <3>6. /\ nodes' \in Seq(FileInfo) /\ Len(nodes') = Len(nodes)
          /\ \A p \in DOMAIN nodes : /\ nodes'[p].directory = nodes[p].directory
                                     /\ nodes'[p].file = nodes[p].file
                                     /\ nodes'[p].children = nodes[p].children
      BY <3>2, <3>3, <3>4, <3>5, Settled
    <3> QED
      BY <1>3, <3>6, SameTree
  <2>2. CASE EndSecondData
    BY <1>3, <2>2 DEF EndSecondData, readVars
  <2> QED
    BY <2>1, <2>2
<1>5. TreeOK'
  <2>1. CASE pending' = <<>> /\ todo' = <<>>
    <3>1. <<>> \in Seq(DOMAIN nodes) /\ DOMAIN <<>> = {}
      OBVIOUS
    <3> QED
      BY <1>1, <1>3, <1>4, <2>1, <3>1 DEF TreeOK
  <2>2. CASE UNCHANGED <<pending, todo>>
    <3>1. \A i \in DOMAIN pending : pending[i] \in DOMAIN nodes
      BY <1>3
    <3> QED
      BY <1>1, <1>3, <1>4, <2>2, <3>1 DEF TreeOK
  <2> QED
    BY <1>2, <2>1, <2>2
<1>6. ProcessOK' /\ ReadOK'
  BY <1>1, <1>2 DEF RccTypeOK, ProcessOK, Stages, ReadOK
<1>7. StageOK'
  BY <1>1, <1>2, WalksAre DEF RccTypeOK, StageOK
<1> QED
  BY <1>1, <1>2, <1>5, <1>6, <1>7 DEF RccTypeOK

LEMMA EndTyped ==
    ASSUME RccTypeOK, EndWalk
    PROVE  /\ RccTypeOK' /\ UNCHANGED <<command, seed, nodes>>
           /\ ~command.list /\ command.format # "Pass2" /\ nodes # <<>> /\ 1 \in DOMAIN nodes
           /\ todo = <<>> /\ pending = <<>> /\ todo' = <<>>
           /\ \/ /\ stage = "writeDataBlobs" /\ stage' = "writeDataNames"
                 /\ pending' = <<1>> /\ offset' = 0
                 /\ image'.data = image.data /\ image'.names = image.names
              \/ /\ stage = "writeDataNames" /\ stage' = "childOffsets"
                 /\ pending' = <<1>> /\ offset' = 1 /\ image' = image
              \/ /\ stage = "childOffsets" /\ stage' = "writeDataInfo" /\ pending' = <<1>>
                 /\ image'.data = image.data /\ image'.names = image.names
                 /\ image'.structure = <<Info(1)>>
              \/ stage = "writeDataInfo" /\ stage' = "written" /\ image' = image
<1>1. /\ stage \in Range(Walks) /\ todo = <<>> /\ pending = <<>> /\ ~SecondData
      /\ stage' = IF stage = Last(Walks) THEN "written"
                  ELSE Walks[1 + CHOOSE i \in DOMAIN Walks : Walks[i] = stage]
      /\ pending' = IF stage' = "written" THEN <<>> ELSE Root
      /\ offset' = IF stage' = "childOffsets" THEN 1 ELSE 0
      /\ UNCHANGED <<command, seed, input, at, resource, entry, iterator, nodes, todo>>
  BY DEF EndWalk, WalkOver, processVars, readVars
<1>2. ~command.list /\ command.format # "Pass2" /\ nodes # <<>>
  BY <1>1, WalksAre DEF RccTypeOK, StageOK, SecondData
<1>3. nodes \in Trees /\ image \in Image /\ offset \in Nat
  BY DEF RccTypeOK, TreeOK
<1>4. Root = <<1>> /\ 1 \in DOMAIN nodes /\ nodes[1].directory
  <2>1. Root = <<1>> /\ 1 \in DOMAIN nodes
    BY <1>2, <1>3, RootIs
  <2> QED
    BY <1>2, <1>3, <2>1 DEF Trees
<1>5. \/ /\ stage = "writeDataBlobs" /\ stage' = "writeDataNames"
         /\ pending' = <<1>> /\ offset' = 0
         /\ image'.data = image.data /\ image'.names = image.names
      \/ /\ stage = "writeDataNames" /\ stage' = "childOffsets"
         /\ pending' = <<1>> /\ offset' = 1 /\ image' = image
      \/ /\ stage = "childOffsets" /\ stage' = "writeDataInfo" /\ pending' = <<1>>
         /\ image'.data = image.data /\ image'.names = image.names
         /\ image'.structure = <<Info(1)>>
      \/ /\ stage = "writeDataInfo" /\ stage' = "written" /\ image' = image /\ pending' = <<>>
  <2>1. image' = CASE stage = "writeDataBlobs" /\ command.format = "Pass1" ->
                         [image EXCEPT !.size = Max({8, offset})]
                   [] stage = "childOffsets" -> [image EXCEPT !.structure = <<Info(1)>>]
                   [] OTHER -> image
    BY DEF EndWalk
  <2>2. stage \in {"writeDataBlobs", "writeDataNames", "childOffsets", "writeDataInfo"}
    BY <1>1, WalksAre
  <2>3. CASE stage = "writeDataBlobs"
    BY <1>1, <1>3, <1>4, <2>1, <2>3, WalksAre DEF Image
  <2>4. CASE stage = "writeDataNames"
    BY <1>1, <1>4, <2>1, <2>4, WalksAre
  <2>5. CASE stage = "childOffsets"
    BY <1>1, <1>3, <1>4, <2>1, <2>5, WalksAre DEF Image
  <2>6. CASE stage = "writeDataInfo"
    BY <1>1, <2>1, <2>6, WalksAre
  <2> QED
    BY <2>2, <2>3, <2>4, <2>5, <2>6
<1>6. image' \in Image
  <2>1. Info(1) \in Infos
    BY <1>4, InfoTyped DEF RccTypeOK
  <2>2. <<Info(1)>> \in Seq(Infos)
    BY <2>1
  <2>3. Max({8, offset}) \in Nat
    <3>1. PICK m \in {8, offset} : \A y \in {8, offset} : y <= m
      BY <1>3
    <3> QED
      BY <1>3, <3>1 DEF Max
  <2> DEFINE m == Max({8, offset})
      i == Info(1)
  <2>4. image' \in {image, [image EXCEPT !.size = m], [image EXCEPT !.structure = <<i>>]}
    BY DEF EndWalk
  <2> HIDE DEF m, i
  <2> QED
    BY <1>3, <2>2, <2>3, <2>4 DEF Image, m, i
<1>7. TreeOK'
  <2>1. pending' \in {<<>>, <<1>>} /\ todo' = <<>> /\ offset' \in Nat
    BY <1>1, <1>4
  <2>2. /\ <<>> \in Seq(DOMAIN nodes) /\ DOMAIN <<>> = {}
        /\ <<1>> \in Seq(DOMAIN nodes) /\ DOMAIN <<1>> = {1} /\ <<1>>[1] = 1
    BY <1>4
  <2>3. pending' \in Seq(DOMAIN nodes) /\ \A i \in DOMAIN pending' : nodes[pending'[i]].directory
    BY <1>4, <2>1, <2>2
  <2> QED
    BY <1>1, <1>3, <1>6, <2>1, <2>2, <2>3 DEF TreeOK
<1>8. ProcessOK' /\ ReadOK' /\ StageOK'
  BY <1>1, <1>2, <1>5, WalksAre DEF RccTypeOK, ProcessOK, Stages, ReadOK, StageOK
<1> QED
  BY <1>1, <1>2, <1>4, <1>5, <1>7, <1>8 DEF RccTypeOK

LEMMA ScanTyped ==
    ASSUME RccTypeOK, ScanByte \/ EndOfTemp
    PROVE  RccTypeOK' /\ command.format = "Pass2" /\ UNCHANGED <<command, image>>
           /\ stage' \in {"scan", "written", "failed", "writeDataBlobs"}
<1>1. /\ stage = "scan" /\ stage' \in {"scan", "written", "failed", "writeDataBlobs"}
      /\ pending' \in {pending, Root} /\ offset' \in {0, offset}
      /\ UNCHANGED <<command, seed, input, at, resource, entry, iterator, nodes, todo, image>>
  BY DEF ScanByte, EndOfTemp, processVars, readVars
<1>2. command.format = "Pass2" /\ ~command.list
  BY <1>1 DEF RccTypeOK, StageOK
<1>3. ProcessOK' /\ ReadOK'
  BY <1>1, WalksAre DEF RccTypeOK, ProcessOK, Stages, ReadOK
<1>4. TreeOK'
  BY <1>1, RootIs DEF RccTypeOK, TreeOK
<1>5. StageOK'
  BY <1>1, <1>2, WalksAre DEF StageOK
<1> QED
  BY <1>1, <1>2, <1>3, <1>4, <1>5 DEF RccTypeOK

LEMMA SecondTyped ==
    ASSUME RccTypeOK, SecondPass
    PROVE  RccTypeOK' /\ stage' = "interpretResourceFile" /\ command'.format = "Pass2"
<1>1. /\ command' = [command EXCEPT !.format = "Pass2"] /\ command' \in Processes
      /\ stage' = "interpretResourceFile" /\ input' = 1 /\ at' = 0 /\ iterator' = <<>>
      /\ resource' = [prefix |-> <<>>, locale |-> CLocale] /\ entry' = NoEntry'
      /\ nodes' = <<>> /\ pending' = <<>> /\ todo' = <<>> /\ offset' = 0 /\ image' = image
  BY ProcessIs DEF SecondPass, RccTypeOK, ProcessOK
<1>2. PICK s \in Seeds : seed' = [seed EXCEPT ![2] = s]
  BY DEF SecondPass
<1>3. seed' \in Seeds \X Seeds
  BY <1>2 DEF RccTypeOK, ProcessOK
<1>4. ProcessOK'
  BY <1>1, <1>3 DEF ProcessOK, Stages
<1>5. command'.level \in Int /\ command'.threshold \in Int /\ command'.format = "Pass2"
  <2>1. command \in Processes /\ command.level \in Int /\ command.threshold \in Int
    BY ProcessIs DEF RccTypeOK, ProcessOK
  <2>2. PICK c \in Commands : command = c \/ command = [c EXCEPT !.format = "Pass2"]
    BY <2>1 DEF Processes
  <2>3. DOMAIN command = {"inputs", "format", "list", "root", "level", "threshold"}
    BY <2>2, CommandAssumption
  <2> QED
    BY <1>1, <2>1, <2>3
<1>6. entry' \in [alias : Paths, level : Int, threshold : Int]
  BY <1>1, <1>5 DEF NoEntry, NoAlias, Paths
<1>7. CLocale \in Locale
  BY DEF Locale
<1>8. resource' \in [prefix : Paths, locale : Locale]
  BY <1>1, <1>7 DEF Paths
<1>9. ReadOK'
  BY <1>1, <1>6, <1>8 DEF ReadOK
<1>10. <<>> \in Trees
  BY DEF Trees
<1>11. TreeOK'
  BY <1>1, <1>10 DEF RccTypeOK, TreeOK
<1>12. StageOK'
  BY <1>1, WalksAre DEF StageOK
<1> QED
  BY <1>1, <1>4, <1>5, <1>9, <1>11, <1>12 DEF RccTypeOK
LEMMA RccTypeStep ==
    ASSUME RccTypeOK, [RccNext]_rccVars
    PROVE  RccTypeOK'
<1>1. CASE StartRcc \/ StartResource \/ StartFile \/ EndTag \/ Blanks
  BY <1>1, TagsTyped
<1>2. CASE AddText
  BY <1>2, TextTyped
<1>3. CASE AddFound
  BY <1>3, FoundTyped
<1>4. CASE ParseError \/ EndDocument
  BY <1>4, DocumentTyped
<1>5. CASE Output
  BY <1>5, OutputTyped
<1>6. CASE Descend
  BY <1>6, DescendTyped
<1>7. CASE WriteDataBlob
  BY <1>7, BlobTyped
<1>8. CASE BlobOfDirectory \/ CountChild
  BY <1>8, UntouchedTyped
<1>9. CASE OpenReadFailed \/ EndSecondData
  BY <1>9, FailedTyped
<1>10. CASE WriteDataName
  BY <1>10, NameTyped
<1>11. CASE WriteDataInfo
  BY <1>11, EntryTyped
<1>12. CASE EndWalk
  BY <1>12, EndTyped
<1>13. CASE ScanByte \/ EndOfTemp
  BY <1>13, ScanTyped
<1>14. CASE SecondPass
  BY <1>14, SecondTyped
<1>15. CASE UNCHANGED rccVars
  <2>1. UNCHANGED <<command, seed, stage, input, at, resource, entry, iterator, nodes, pending, todo,
                    offset, image>>
    BY <1>15 DEF rccVars, processVars, readVars
  <2>2. ProcessOK' /\ ReadOK'
    BY <2>1 DEF RccTypeOK, ProcessOK, ReadOK
  <2>3. TreeOK' /\ StageOK'
    BY <2>1 DEF RccTypeOK, TreeOK, StageOK
  <2> QED
    BY <2>2, <2>3 DEF RccTypeOK
<1> QED
  BY <1>1, <1>2, <1>3, <1>4, <1>5, <1>6, <1>7, <1>8, <1>9, <1>10, <1>11, <1>12, <1>13, <1>14, <1>15
     DEF RccNext, RccSteps

(***************************************************************************)
(* Both processes of rbrcc keep to their types: a child of a node is a     *)
(* newer node and has one parent only, only directories are gone into,     *)
(* and the tree is complete before anything of it is written.              *)
(***************************************************************************)
THEOREM RccTypeOKHolds == RccSpec => []RccTypeOK
<1>1. RccInit => RccTypeOK
  BY InitTyped
<1>2. RccTypeOK /\ [RccNext]_rccVars => RccTypeOK'
  BY RccTypeStep
<1> QED
  BY <1>1, <1>2, PTL DEF RccSpec
----------------------------------------------------------------------------
(* What the traversals write.  A blob lies in the data where its node      *)
(* says, and what was written stays there.                                 *)
HoldsAt(data, from, blob) ==
    from + Len(blob) <= Len(data) /\ \A i \in DOMAIN blob : data[from + i] = blob[i]

LEMMA HoldsKept ==
    ASSUME NEW S, NEW data \in Seq(S), NEW more \in Seq(S), NEW from \in Nat,
           NEW blob \in Seq(S), HoldsAt(data, from, blob)
    PROVE  HoldsAt(data \o more, from, blob)
<1> DEFINE l == Len(blob)
    m == Len(data)
    d == data \o more
<1>1. /\ l \in Nat /\ m \in Nat /\ DOMAIN blob = 1 .. l /\ from + l <= m
      /\ \A i \in 1 .. l : data[from + i] = blob[i]
  BY DEF HoldsAt
<1>2. Len(d) \in Nat /\ Len(d) >= m /\ \A i \in 1 .. m : d[i] = data[i]
  OBVIOUS
<1> HIDE DEF l, m, d
<1>3. from + l <= Len(d)
  BY ONLY <1>1, <1>2, from \in Nat
<1>4. ASSUME NEW i \in 1 .. l PROVE d[from + i] = blob[i]
  <2>1. from + i \in 1 .. m
    BY ONLY <1>1, from \in Nat, i \in 1 .. l
  <2> QED
    BY <1>1, <1>2, <2>1
<1> QED
  BY <1>1, <1>3, <1>4 DEF HoldsAt, d, l

LEMMA HoldsNew ==
    ASSUME NEW S, NEW data \in Seq(S), NEW blob \in Seq(S)
    PROVE  HoldsAt(data \o blob, Len(data), blob)
<1> DEFINE l == Len(blob)
    m == Len(data)
    d == data \o blob
<1>1. l \in Nat /\ m \in Nat /\ DOMAIN blob = 1 .. l
  OBVIOUS
<1>2. Len(d) = m + l /\ \A i \in m + 1 .. m + l : d[i] = blob[i - m]
  OBVIOUS
<1> HIDE DEF l, m, d
<1>3. m + l <= Len(d)
  BY ONLY <1>1, <1>2
<1>4. ASSUME NEW i \in 1 .. l PROVE d[m + i] = blob[i]
  <2>1. m + i \in m + 1 .. m + l /\ (m + i) - m = i
    BY ONLY <1>1, i \in 1 .. l
  <2>2. d[m + i] = blob[(m + i) - m]
    BY <1>2, <2>1
  <2> QED
    BY <2>1, <2>2
<1> QED
  BY <1>1, <1>3, <1>4 DEF HoldsAt, d, l, m

(* The steps of a traversal in the order of hashes are told by the tree:   *)
(* D, which of its nodes are directories, and L, their children in order.  *)
(* The count goes on with every child.                                     *)
Starts == [pending |-> <<1>>, todo |-> <<>>, count |-> 1]
Follows(D, L, s) ==
    IF s.todo = <<>>
    THEN [pending |-> Front(s.pending), todo |-> L[Last(s.pending)], count |-> s.count]
    ELSE [pending |-> IF D[Head(s.todo)] THEN Append(s.pending, Head(s.todo)) ELSE s.pending,
          todo |-> Tail(s.todo), count |-> s.count + 1]
Over(s) == s.pending = <<>> /\ s.todo = <<>>
IsTrace(D, L, t, m) ==
    /\ m \in Nat \ {0} /\ t = [i \in 1 .. m |-> t[i]]
    /\ t[1] = Starts /\ \A i \in 1 .. m - 1 : t[i + 1] = Follows(D, L, t[i])

Grown(D, L, t, m) == [i \in 1 .. m + 1 |-> IF i = m + 1 THEN Follows(D, L, t[m]) ELSE t[i]]

LEMMA TraceStarts ==
    ASSUME NEW D, NEW L
    PROVE  IsTrace(D, L, [i \in 1 .. 1 |-> Starts], 1)
<1> DEFINE t == [i \in 1 .. 1 |-> Starts]
<1>1. 1 \in 1 .. 1 /\ 1 \in Nat \ {0} /\ ~ \E i \in 1 .. 1 - 1 : TRUE
  OBVIOUS
<1>2. t[1] = Starts /\ t = [i \in 1 .. 1 |-> t[i]]
  BY <1>1
<1> HIDE DEF t
<1> QED
  BY <1>1, <1>2 DEF IsTrace, t

LEMMA TraceGrows ==
    ASSUME NEW D, NEW L, NEW t, NEW m, IsTrace(D, L, t, m),
           NEW u, u = Grown(D, L, t, m)
    PROVE  IsTrace(D, L, u, m + 1) /\ \A i \in 1 .. m : u[i] = t[i]
<1> DEFINE s == Follows(D, L, t[m])
<1>0. u = [i \in 1 .. m + 1 |-> IF i = m + 1 THEN s ELSE t[i]]
  BY DEF Grown
<1>1. m \in Nat \ {0} /\ t[1] = Starts /\ \A i \in 1 .. m - 1 : t[i + 1] = Follows(D, L, t[i])
  BY DEF IsTrace
<1> HIDE DEF s
<1>2. m + 1 \in Nat \ {0} /\ m + 1 \in 1 .. m + 1 /\ 1 \in 1 .. m
      /\ \A i \in 1 .. m : i \in 1 .. m + 1 /\ i # m + 1 /\ i + 1 \in 1 .. m + 1
  BY ONLY <1>1
<1>3. u[m + 1] = s /\ \A i \in 1 .. m : u[i] = t[i]
  BY <1>0, <1>2
<1>4. u[1] = Starts
  BY <1>1, <1>2, <1>3
<1>5. u = [i \in 1 .. m + 1 |-> u[i]]
  BY <1>0
<1>6. ASSUME NEW i \in 1 .. m PROVE u[i + 1] = Follows(D, L, u[i])
  <2>1. CASE i = m
    BY <1>3, <2>1 DEF s
  <2>2. CASE i # m
    <3>1. i \in 1 .. m - 1 /\ i + 1 \in 1 .. m
      BY ONLY <1>1, <2>2, i \in 1 .. m
    <3> QED
      BY <1>1, <1>3, <3>1
  <2> QED
    BY <2>1, <2>2
<1>7. (m + 1) - 1 = m
  BY ONLY <1>1
<1> QED
  BY <1>2, <1>3, <1>4, <1>5, <1>6, <1>7 DEF IsTrace

(* Only the offsets of the nodes change: the children keep their order.    *)
Dirs == [p \in DOMAIN nodes |-> nodes[p].directory]
Sorted == [p \in DOMAIN nodes |-> SortedByHash(nodes[p].children)]

LEMMA SortedSame ==
    ASSUME nodes \in Trees, DOMAIN nodes' = DOMAIN nodes, Order' = Order,
           \A p \in DOMAIN nodes : /\ nodes'[p].name = nodes[p].name
                                   /\ nodes'[p].children = nodes[p].children
                                   /\ nodes'[p].directory = nodes[p].directory
    PROVE  Sorted' = Sorted /\ Dirs' = Dirs
<1>1. ASSUME NEW a \in DOMAIN nodes, NEW b \in DOMAIN nodes
      PROVE  qt_rcc_compare_hash(a, b)' <=> qt_rcc_compare_hash(a, b)
  BY <1>1 DEF qt_rcc_compare_hash, Before
<1>2. ASSUME NEW p \in DOMAIN nodes
      PROVE  SortedByHash(nodes[p].children)' = SortedByHash(nodes[p].children)
  <2> DEFINE c == nodes[p].children
      T == Range(c)
  <2>1. \A n \in T : n \in DOMAIN nodes
    BY TreeIs DEF Range
  <2>2. SortedByHash(c) = [i \in DOMAIN c |->
            CHOOSE n \in T : Cardinality({m \in T : qt_rcc_compare_hash(m, n)}) = i - 1]
    BY DEF SortedByHash, InOrderOf
  <2>3. SortedByHash(nodes[p].children)' = [i \in DOMAIN c |->
            CHOOSE n \in T : Cardinality({m \in T : qt_rcc_compare_hash(m, n)'}) = i - 1]
    <3>1. nodes'[p].children = c
      OBVIOUS
    <3> QED
      BY <3>1 DEF SortedByHash, InOrderOf
  <2> HIDE DEF T
  <2>4. \A n \in T : {m \in T : qt_rcc_compare_hash(m, n)'} = {m \in T : qt_rcc_compare_hash(m, n)}
    BY <1>1, <2>1
  <2> HIDE DEF c
  <2>5. \A i \in DOMAIN c :
           (CHOOSE n \in T : Cardinality({m \in T : qt_rcc_compare_hash(m, n)'}) = i - 1)
         = (CHOOSE n \in T : Cardinality({m \in T : qt_rcc_compare_hash(m, n)}) = i - 1)
    BY <2>4
  <2>6. SortedByHash(nodes[p].children)' = SortedByHash(c)
    BY <2>2, <2>3, <2>5
  <2> QED
    BY <2>6 DEF c
<1>3. Sorted' = Sorted
  BY <1>2 DEF Sorted
<1>4. Dirs' = Dirs
  BY DEF Dirs
<1> QED
  BY <1>3, <1>4
(* What stands of the image when the nodes of V have been visited: their   *)
(* data, their names, the entries of their children.                       *)
OneGo == command.format \in {"C_Code", "Binary"}
BlobAt(n) == HoldsAt(image.data, nodes[n].dataOffset, Blob(nodes[n].file, nodes[n].compressed))
BlobsOf(V) == OneGo => \A n \in V : ~nodes[n].directory => BlobAt(n)
NameAt(n) ==
    \E x \in DOMAIN image.names : /\ image.names[x].name = nodes[n].name
                                  /\ image.names[x].offset = nodes[n].nameOffset
NamesOf(V) == \A n \in V \ {1} : NameAt(n)
NamesOnce ==
    \A x, y \in DOMAIN image.names :
        x < y => /\ image.names[x].name # image.names[y].name
                 /\ image.names[x].offset < image.names[y].offset
EntriesOf(V) ==
    \A d \in V \ Range(pending) : nodes[d].directory =>
        \A k \in DOMAIN Sorted[d] :
            \/ image.structure[nodes[d].childOffset + k] = Info(Sorted[d][k])
               /\ nodes[d].childOffset + k \in DOMAIN image.structure
            \/ \E j \in DOMAIN todo : /\ todo[j] = Sorted[d][k]
                                      /\ nodes[d].childOffset + k = Len(image.structure) + j
EntriesKnown ==
    /\ image.structure # <<>> /\ image.structure[1] = Info(1)
    /\ \A i \in DOMAIN image.structure : \E n \in Reached(Shape(nodes)) : image.structure[i] = Info(n)
\* The child offsets of the directories taken so far are the counts of the trace.
Counted(t, m) ==
    \A i \in 1 .. m - 1 :
        t[i].todo = <<>> => nodes[Last(t[i].pending)].childOffset = t[i].count
Taken(t, m, V) == \A i \in 1 .. m - 1 : t[i].todo = <<>> => Last(t[i].pending) \in V \ Range(pending)

WalkedTo(V) == WalkOK(Shape(nodes), pending, todo, V)
BlobsSoFar(V) ==
    /\ WalkedTo(V) /\ BlobsOf(V)
    /\ image.names = <<>> /\ (OneGo => offset = Len(image.data))
NamesSoFar(V) ==
    /\ WalkedTo(V) /\ NamesOf(V)
    /\ BlobsOf(Reached(Shape(nodes))) /\ NamesOnce
    /\ \A x \in DOMAIN image.names : image.names[x].offset < offset
Placed ==
    BlobsOf(Reached(Shape(nodes))) /\ NamesOnce /\ NamesOf(Reached(Shape(nodes)))
OffsetsSoFar(V, t, m) ==
    /\ Placed /\ WalkedTo(V) /\ IsTrace(Dirs, Sorted, t, m)
    /\ t[m] = [pending |-> pending, todo |-> todo, count |-> offset]
    /\ Counted(t, m) /\ Taken(t, m, V)
EntriesSoFar(V, t, m) ==
    /\ Placed /\ WalkedTo(V) /\ EntriesOf(V) /\ EntriesKnown
    /\ IsTrace(Dirs, Sorted, t, m) /\ Over(t[m]) /\ Counted(t, m)
    /\ \E i \in 1 .. m :
          t[i] = [pending |-> pending, todo |-> todo, count |-> Len(image.structure)]
LaidDown ==
    Placed /\ EntriesKnown
    /\ \A d \in Reached(Shape(nodes)) : nodes[d].directory =>
          \A k \in DOMAIN Sorted[d] :
              /\ nodes[d].childOffset + k \in DOMAIN image.structure
              /\ image.structure[nodes[d].childOffset + k] = Info(Sorted[d][k])

WalkInv ==
    command.format # "Pass2" =>
        /\ stage = "interpretResourceFile" => image.data = <<>> /\ image.names = <<>>
        /\ stage = "writeDataBlobs" => \E V : BlobsSoFar(V)
        /\ stage = "writeDataNames" => \E V : NamesSoFar(V)
        /\ stage = "childOffsets" => \E V, t, m : OffsetsSoFar(V, t, m)
        /\ stage = "writeDataInfo" => \E V, t, m : EntriesSoFar(V, t, m)
        /\ stage = "written" /\ ~command.list /\ nodes # <<>> => LaidDown

(* A step of a traversal, whatever it writes.                              *)
LEMMA TreeShape ==
    ASSUME TreeOK, nodes # <<>>
    PROVE  /\ IsShape(Shape(nodes)) /\ DOMAIN Shape(nodes) = DOMAIN nodes /\ 1 \in DOMAIN nodes
           /\ 1 \in Reached(Shape(nodes)) /\ Reached(Shape(nodes)) \subseteq DOMAIN nodes
           /\ nodes[1].directory
<1>1. nodes \in Trees
  BY DEF TreeOK
<1>2. IsShape(Shape(nodes)) /\ DOMAIN Shape(nodes) = DOMAIN nodes /\ 1 \in DOMAIN nodes
  BY <1>1, ShapeIs, RootIs DEF Shape
<1> DEFINE K == Shape(nodes)
<1> HIDE DEF K
<1>3. IsShape(K) /\ 1 \in DOMAIN K
  BY <1>2 DEF K
<1>4. Closed(K, Reached(K)) /\ Reached(K) \subseteq DOMAIN K
  BY <1>3, ReachedClosed
<1>5. 1 \in Reached(K)
  BY <1>4 DEF Closed
<1>6. nodes[1].directory
  BY <1>1 DEF Trees
<1> QED
  BY <1>2, <1>4, <1>5, <1>6 DEF K

LEMMA VisitWalk ==
    ASSUME RccTypeOK, todo # <<>>, Visited, nodes # <<>>, NEW V, WalkedTo(V),
           Shape(nodes') = Shape(nodes), NEW n, n = Head(todo), NEW W, W = V \cup {n}
    PROVE  /\ WalkedTo(W)' /\ n \notin V /\ n \in Reached(Shape(nodes)) /\ n \in DOMAIN nodes /\ n # 1
           /\ V \subseteq DOMAIN nodes
<1> DEFINE K == Shape(nodes)
<1>1. TreeOK /\ todo' = Tail(todo)
      /\ pending' = IF nodes[n].directory THEN Append(pending, n) ELSE pending
  BY DEF RccTypeOK, Visited, Visiting
<1>2. IsShape(K) /\ DOMAIN K = DOMAIN nodes /\ 1 \in DOMAIN K /\ Reached(K) \subseteq DOMAIN nodes
  BY <1>1, TreeShape
<1>3. n \in DOMAIN nodes
  BY <1>1 DEF TreeOK
<1>4. nodes[n].directory \in BOOLEAN /\ (~nodes[n].directory => K[n] = <<>>)
  BY <1>1, <1>3, NodeIs DEF Shape
<1>5. WalkOK(K, pending, todo, V)
  BY DEF WalkedTo
<1> HIDE DEF K
<1> DEFINE pushed == nodes[n].directory
<1>6. pushed \in BOOLEAN /\ (~pushed => K[Head(todo)] = <<>>)
  BY <1>4
<1> HIDE DEF pushed
<1>7. /\ WalkOK(K, IF pushed THEN Append(pending, Head(todo)) ELSE pending, Tail(todo),
                V \cup {Head(todo)})
      /\ Head(todo) \in Reached(K) /\ Head(todo) \notin V
  BY <1>2, <1>5, <1>6, WalkVisit
<1>8. WalkOK(K, pending', todo', V \cup {n})
  BY <1>1, <1>7 DEF pushed
<1>9. 1 \in V /\ V \subseteq DOMAIN nodes
  BY <1>2, <1>5 DEF WalkOK
<1>10. Shape(nodes)' = K
  BY DEF K, Shape
<1>11. WalkedTo(W)'
  BY <1>8, <1>10 DEF WalkedTo
<1> QED
  BY <1>3, <1>7, <1>9, <1>11 DEF K

LEMMA DescendWalk ==
    ASSUME RccTypeOK, Descend, nodes # <<>>, NEW V, WalkedTo(V)
    PROVE  /\ WalkedTo(V)' /\ Last(pending) \in V \ Range(Front(pending)) /\ V \subseteq DOMAIN nodes
           /\ Range(pending) = Range(Front(pending)) \cup {Last(pending)}
<1> DEFINE K == Shape(nodes)
    d == Last(pending)
<1>1. /\ todo = <<>> /\ pending # <<>> /\ pending' = Front(pending) /\ d \in DOMAIN nodes
      /\ nodes[d].directory /\ Shape(nodes') = Shape(nodes) /\ TreeOK
      /\ todo' \in Seq(DOMAIN nodes) /\ IsInjective(todo') /\ Range(todo') = Range(nodes[d].children)
  BY DescendTyped DEF RccTypeOK
<1>2. IsShape(K) /\ DOMAIN K = DOMAIN nodes /\ 1 \in DOMAIN K /\ Reached(K) \subseteq DOMAIN nodes
  BY <1>1, TreeShape
<1>3. K[d] = nodes[d].children
  BY <1>1 DEF Shape
<1>4. WalkOK(K, pending, <<>>, V)
  BY <1>1 DEF WalkedTo
<1> HIDE DEF K
<1>5. WalkOK(K, Front(pending), todo', V)
  <2> DEFINE T == todo'
  <2>1. T \in Seq(DOMAIN K) /\ IsInjective(T) /\ Range(T) = Range(K[Last(pending)])
    BY <1>1, <1>2, <1>3
  <2> HIDE DEF T
  <2>2. WalkOK(K, Front(pending), T, V)
    BY <1>1, <1>2, <1>4, <2>1, WalkDescend
  <2> QED
    BY <2>2 DEF T
<1>6. Shape(nodes)' = K
  BY <1>1 DEF K, Shape
<1>7. WalkedTo(V)'
  BY <1>1, <1>5, <1>6 DEF WalkedTo
<1>8. pending \in Seq(V) /\ IsInjective(pending) /\ V \subseteq DOMAIN nodes
  BY <1>2, <1>4 DEF WalkOK
<1>9. d \in V \ Range(Front(pending)) /\ Range(pending) = Range(Front(pending)) \cup {d}
  <2> DEFINE l == Len(pending)
      f == Front(pending)
  <2>1. l \in Nat \ {0} /\ DOMAIN pending = 1 .. l /\ d = pending[l]
    BY <1>1, <1>8 DEF Last
  <2>2. f = [i \in 1 .. l - 1 |-> pending[i]]
    BY <1>8, <2>1 DEF Front
  <2> HIDE DEF l, f, d
  <2>3. \A i \in 1 .. l - 1 : i \in 1 .. l /\ i # l
    BY ONLY <2>1
  <2>4. l \in 1 .. l /\ \A i \in 1 .. l : i = l \/ i \in 1 .. l - 1
    BY ONLY <2>1
  <2>5. d \in V
    BY <1>8, <2>1, <2>4
  <2>6. DOMAIN f = 1 .. l - 1 /\ \A i \in 1 .. l - 1 : f[i] = pending[i]
    BY <2>2
  <2>7. d \notin Range(f)
    BY <1>8, <2>1, <2>3, <2>4, <2>6 DEF Range, IsInjective
  <2>8. \A x \in Range(f) : x \in Range(pending)
    BY <2>1, <2>3, <2>6 DEF Range
  <2>9. \A x \in Range(pending) : x = d \/ x \in Range(f)
    BY <2>1, <2>4, <2>6 DEF Range
  <2>10. d \in Range(pending)
    BY <2>1, <2>4 DEF Range
  <2> QED
    BY <2>5, <2>7, <2>8, <2>9, <2>10 DEF f
<1> QED
  BY <1>7, <1>8, <1>9

LEMMA WalkBegins ==
    ASSUME TreeOK, nodes # <<>>, pending' = << 1 >>, todo' = <<>>, nodes' = nodes
    PROVE  WalkedTo({1})' /\ {1} \ Range(<<1>>) = {}
<1> DEFINE K == Shape(nodes)
<1>1. IsShape(K) /\ 1 \in DOMAIN K
  BY TreeShape
<1>2. Shape(nodes)' = K
  BY DEF Shape
<1> HIDE DEF K
<1>3. WalkOK(K, <<1>>, <<>>, {1})
  BY <1>1, WalkStart
<1>4. WalkedTo({1})'
  BY <1>2, <1>3 DEF WalkedTo
<1>5. 1 \in Range(<<1>>)
  BY DEF Range
<1> QED
  BY <1>4, <1>5

LEMMA WalkEnds ==
    ASSUME TreeOK, nodes # <<>>, pending = <<>>, todo = <<>>, NEW V, WalkedTo(V)
    PROVE  V = Reached(Shape(nodes)) /\ V \ Range(pending) = V
<1> DEFINE K == Shape(nodes)
<1>1. IsShape(K) /\ 1 \in DOMAIN K /\ WalkOK(K, <<>>, <<>>, V)
  BY TreeShape DEF WalkedTo
<1> HIDE DEF K
<1>2. V = Reached(K)
  BY <1>1, WalkEnd
<1>3. Range(<<>>) = {}
  BY DEF Range
<1> QED
  BY <1>2, <1>3 DEF K
(* What was written is kept by a step that leaves its part of the image    *)
(* and of the nodes alone.                                                 *)
LEMMA BlobsKept ==
    ASSUME NEW V, BlobsOf(V), command' = command, image'.data = image.data,
           \A n \in V : /\ nodes'[n].directory = nodes[n].directory
                        /\ nodes'[n].file = nodes[n].file
                        /\ nodes'[n].compressed = nodes[n].compressed
                        /\ nodes'[n].dataOffset = nodes[n].dataOffset
    PROVE  BlobsOf(V)'
<1>1. OneGo' <=> OneGo
  BY DEF OneGo
<1>2. ASSUME NEW n \in V, ~nodes[n].directory, OneGo PROVE BlobAt(n)'
  <2>1. BlobAt(n)
    BY <1>2 DEF BlobsOf
  <2>2. HoldsAt(image.data, nodes[n].dataOffset, Blob(nodes[n].file, nodes[n].compressed))
    BY <2>1 DEF BlobAt
  <2> DEFINE blob == Blob(nodes[n].file, nodes[n].compressed)
  <2>3. Blob(nodes[n].file, nodes[n].compressed)' = blob
    BY DEF Blob, Size
  <2> HIDE DEF blob
  <2>4. HoldsAt(image'.data, nodes'[n].dataOffset, blob)
    BY <2>2 DEF blob
  <2>5. BlobAt(n)' <=> HoldsAt(image'.data, nodes'[n].dataOffset, blob)
    BY <2>3 DEF BlobAt, HoldsAt
  <2> QED
    BY <2>4, <2>5
<1> QED
  BY <1>1, <1>2 DEF BlobsOf

LEMMA NamesKept ==
    ASSUME NEW V, NamesOf(V), NamesOnce, image'.names = image.names,
           \A n \in V : nodes'[n].name = nodes[n].name /\ nodes'[n].nameOffset = nodes[n].nameOffset
    PROVE  NamesOf(V)' /\ NamesOnce'
<1>1. NamesOnce'
  BY DEF NamesOnce
<1>2. NamesOf(V)'
  BY DEF NamesOf, NameAt
<1> QED
  BY <1>1, <1>2

LEMMA BlobStep ==
    ASSUME RccTypeOK, command.format # "Pass2", NEW V, BlobsSoFar(V), WriteDataBlob,
           NEW n, n = Head(todo), NEW W, W = V \cup {n}
    PROVE  BlobsSoFar(W)'
<1> DEFINE c == Compresses(Visiting)
    blob == Blob(Visiting.file, c)
<1>1. /\ Shape(nodes') = Shape(nodes) /\ stage = "writeDataBlobs" /\ todo # <<>> /\ Visited
      /\ command' = command /\ n \in DOMAIN nodes /\ ~Visiting.directory
      /\ nodes' = [nodes EXCEPT ![n] = [Visiting EXCEPT !.dataOffset = offset, !.compressed = c]]
      /\ offset' = offset + Len(blob)
      /\ image' = IF command.format \in {"C_Code", "Binary"}
                  THEN [image EXCEPT !.data = @ \o blob] ELSE image
      /\ blob \in Seq(Bytes) /\ Len(blob) \in Nat
  BY BlobTyped
<1>2. TreeOK /\ nodes # <<>> /\ image \in Image /\ nodes \in Seq(FileInfo)
  BY <1>1, WalksAre, TreeIs DEF RccTypeOK, StageOK, TreeOK
<1>3. WalkedTo(V) /\ BlobsOf(V) /\ image.names = <<>> /\ (OneGo => offset = Len(image.data))
  BY DEF BlobsSoFar
<1>4. WalkedTo(W)' /\ n \notin V /\ V \subseteq DOMAIN nodes
  BY <1>1, <1>2, <1>3, VisitWalk
<1>5. Visiting = nodes[n] /\ Visiting \in FileInfo /\ Visiting.file \in DOMAIN Disk
  BY <1>1, <1>2, NodeIs DEF Visiting
<1>6. nodes'[n].dataOffset = offset /\ nodes'[n].compressed = c /\ nodes'[n].file = Visiting.file
  BY <1>1, <1>2, <1>5 DEF FileInfo
<1>7. \A m \in V : nodes'[m] = nodes[m]
  BY <1>1, <1>2, <1>4
<1>8. image'.names = image.names /\ image'.data = IF OneGo THEN image.data \o blob ELSE image.data
  BY <1>1, <1>2 DEF OneGo, Image
<1>9. OneGo' <=> OneGo
  BY <1>1 DEF OneGo
<1>10. image.data \in Seq(Bytes) /\ Len(image.data) \in Nat
  BY <1>2 DEF Image
<1>11. Blob(nodes[n].file, nodes[n].compressed)' = blob
  BY <1>6 DEF Blob, Size
<1> HIDE DEF blob, c
<1>12. ASSUME OneGo PROVE BlobAt(n)'
  <2>1. HoldsAt(image.data \o blob, Len(image.data), blob)
    BY <1>1, <1>10, HoldsNew
  <2>2. image'.data = image.data \o blob /\ nodes'[n].dataOffset = Len(image.data)
    BY <1>3, <1>6, <1>8, <1>12
  <2>3. BlobAt(n)' <=> HoldsAt(image'.data, nodes'[n].dataOffset, blob)
    BY <1>11 DEF BlobAt, HoldsAt
  <2> QED
    BY <2>1, <2>2, <2>3
<1>13. ASSUME OneGo, NEW m \in V, ~nodes[m].directory PROVE BlobAt(m)'
  <2> DEFINE b == Blob(nodes[m].file, nodes[m].compressed)
  <2>1. nodes[m].file \in DOMAIN Disk /\ nodes[m].compressed \in BOOLEAN
        /\ nodes[m].dataOffset \in Nat
    BY <1>2, <1>4, <1>13, NodeIs
  <2>2. b \in Seq(Bytes)
    BY <2>1, BlobIs
  <2>3. Blob(nodes[m].file, nodes[m].compressed)' = b
    BY <1>7 DEF Blob, Size
  <2>4. HoldsAt(image.data, nodes[m].dataOffset, b)
    BY <1>3, <1>13 DEF BlobsOf, BlobAt
  <2> HIDE DEF b
  <2>5. HoldsAt(image.data \o blob, nodes[m].dataOffset, b)
    BY <1>1, <1>10, <2>1, <2>2, <2>4, HoldsKept
  <2>6. image'.data = image.data \o blob /\ nodes'[m].dataOffset = nodes[m].dataOffset
    BY <1>7, <1>8, <1>13
  <2>7. BlobAt(m)' <=> HoldsAt(image'.data, nodes'[m].dataOffset, b)
    BY <2>3 DEF BlobAt, HoldsAt
  <2> QED
    BY <2>5, <2>6, <2>7
<1>14. BlobsOf(W)'
  BY <1>7, <1>9, <1>12, <1>13 DEF BlobsOf
<1>15. OneGo => offset' = Len(image'.data)
  <2> SUFFICES ASSUME OneGo PROVE offset' = Len(image'.data)
    OBVIOUS
  <2>1. image'.data = image.data \o blob /\ offset = Len(image.data)
    BY <1>3, <1>8
  <2>2. Len(image.data \o blob) = Len(image.data) + Len(blob)
    BY <1>1, <1>10
  <2> QED
    BY <1>1, <2>1, <2>2
<1> QED
  BY <1>3, <1>4, <1>8, <1>9, <1>14, <1>15 DEF BlobsSoFar

LEMMA DirectoryStep ==
    ASSUME RccTypeOK, command.format # "Pass2", NEW V, BlobsSoFar(V), BlobOfDirectory,
           NEW n, n = Head(todo), NEW W, W = V \cup {n}
    PROVE  BlobsSoFar(W)'
<1>1. /\ todo # <<>> /\ Visited /\ UNCHANGED <<command, stage, nodes, image>>
      /\ stage \in Range(Walks) /\ n \in DOMAIN nodes
  BY UntouchedTyped
<1>2. nodes[n].directory /\ offset' = offset
  BY DEF BlobOfDirectory, Visiting
<1>3. WalkedTo(V) /\ BlobsOf(V) /\ image.names = <<>> /\ (OneGo => offset = Len(image.data))
  BY DEF BlobsSoFar
<1>4. nodes # <<>>
  BY <1>1 DEF RccTypeOK, StageOK
<1>5. WalkedTo(W)'
  BY <1>1, <1>3, <1>4, VisitWalk
<1>6. BlobsOf(V)'
  BY <1>1, <1>3, BlobsKept
<1>7. OneGo' <=> OneGo
  BY <1>1 DEF OneGo
<1>8. nodes'[n].directory
  BY <1>1, <1>2
<1>9. BlobsOf(W)'
  BY <1>6, <1>8 DEF BlobsOf
<1> QED
  BY <1>1, <1>2, <1>3, <1>5, <1>7, <1>9 DEF BlobsSoFar

LEMMA NameStep ==
    ASSUME RccTypeOK, command.format # "Pass2", NEW V, NamesSoFar(V), WriteDataName,
           NEW n, n = Head(todo), NEW W, W = V \cup {n}
    PROVE  NamesSoFar(W)'
<1>0. PICK R : R = Reached(Shape(nodes))
  OBVIOUS
<1>1. /\ Shape(nodes') = Shape(nodes) /\ stage = "writeDataNames" /\ todo # <<>> /\ Visited
      /\ command' = command /\ n \in DOMAIN nodes /\ offset' \in Nat /\ offset' >= offset
  BY NameTyped
<1>2. PICK place \in Nat :
         /\ nodes' = [nodes EXCEPT ![n] = [Visiting EXCEPT !.nameOffset = place]]
         /\ \/ /\ image' = image /\ offset' = offset
               /\ \E x \in DOMAIN image.names : /\ image.names[x].name = Visiting.name
                                                /\ image.names[x].offset = place
            \/ /\ image' = [image EXCEPT !.names =
                               Append(@, [name |-> Visiting.name, offset |-> offset])]
               /\ place = offset /\ offset' > offset
               /\ \A x \in DOMAIN image.names : image.names[x].name # Visiting.name
  BY NameTyped
<1>3. TreeOK /\ nodes # <<>> /\ image \in Image /\ nodes \in Seq(FileInfo) /\ offset \in Nat
  BY <1>1, WalksAre, TreeIs DEF RccTypeOK, StageOK, TreeOK
<1>4. /\ WalkedTo(V) /\ NamesOf(V) /\ BlobsOf(R) /\ NamesOnce
      /\ \A x \in DOMAIN image.names : image.names[x].offset < offset
  BY <1>0 DEF NamesSoFar
<1>5. WalkedTo(W)' /\ n \notin V /\ V \subseteq DOMAIN nodes /\ n # 1
  BY <1>1, <1>3, <1>4, VisitWalk
<1>6. Visiting = nodes[n] /\ Visiting \in FileInfo
  BY <1>1, <1>3, NodeIs DEF Visiting
<1>7. /\ nodes'[n].nameOffset = place /\ nodes'[n].name = Visiting.name
      /\ nodes'[n].directory = Visiting.directory /\ nodes'[n].file = Visiting.file
      /\ nodes'[n].compressed = Visiting.compressed /\ nodes'[n].dataOffset = Visiting.dataOffset
  BY <1>1, <1>2, <1>3, <1>6 DEF FileInfo
<1>8. \A m \in DOMAIN nodes : m # n => nodes'[m] = nodes[m]
  BY <1>1, <1>2, <1>3
<1>9. R \subseteq DOMAIN nodes
  BY <1>0, <1>3, TreeShape
<1>10. image'.data = image.data
  BY <1>2, <1>3 DEF Image
<1>11. Reached(Shape(nodes))' = R
  <2>1. Shape(nodes)' = Shape(nodes)
    BY <1>1 DEF Shape
  <2> QED
    BY <1>0, <2>1 DEF Reached, Closed
<1>12. BlobsOf(R)'
  <2>1. \A m \in R : /\ nodes'[m].directory = nodes[m].directory
                     /\ nodes'[m].file = nodes[m].file
                     /\ nodes'[m].compressed = nodes[m].compressed
                     /\ nodes'[m].dataOffset = nodes[m].dataOffset
    BY <1>6, <1>7, <1>8, <1>9
  <2> QED
    BY <1>1, <1>4, <1>10, <2>1, BlobsKept
<1>13. /\ NamesOf(W)' /\ NamesOnce'
       /\ \A x \in DOMAIN image'.names : image'.names[x].offset < offset'
  <2>1. CASE /\ image' = image /\ offset' = offset
             /\ \E x \in DOMAIN image.names : /\ image.names[x].name = Visiting.name
                                              /\ image.names[x].offset = place
    <3>1. NameAt(n)'
      BY <1>7, <2>1 DEF NameAt
    <3>2. ASSUME NEW m \in V \ {1} PROVE NameAt(m)'
      BY <1>4, <1>5, <1>8, <2>1, <3>2 DEF NamesOf, NameAt
    <3>3. NamesOf(W)'
      BY <3>1, <3>2 DEF NamesOf
    <3>4. NamesOnce'
      BY <1>4, <2>1 DEF NamesOnce
    <3> QED
      BY <1>4, <2>1, <3>3, <3>4
  <2>2. CASE /\ image' = [image EXCEPT !.names =
                             Append(@, [name |-> Visiting.name, offset |-> offset])]
             /\ place = offset /\ offset' > offset
             /\ \A x \in DOMAIN image.names : image.names[x].name # Visiting.name
    <3> DEFINE names == image.names
        more == Append(names, [name |-> Visiting.name, offset |-> offset])
        l == Len(names)
    <3>1. image'.names = more /\ names \in Seq([name : FileNames, offset : Nat])
      BY <1>3, <2>2 DEF Image
    <3>2. l \in Nat /\ DOMAIN names = 1 .. l
      BY <3>1
    <3>3. DOMAIN more = 1 .. l + 1 /\ more[l + 1] = [name |-> Visiting.name, offset |-> offset]
          /\ \A x \in 1 .. l : more[x] = names[x]
      BY <3>1
    <3>4. \A x \in 1 .. l : names[x].offset \in Nat /\ names[x].offset < offset
      <4> DEFINE Names == [name : FileNames, offset : Nat]
      <4>1. \A x \in 1 .. l : names[x].offset < offset
        BY <1>4, <3>2
      <4>2. names \in Seq(Names)
        BY <3>1
      <4> HIDE DEF names, Names, l, more
      <4>3. \A x \in DOMAIN names : names[x] \in Names
        BY ONLY <4>2, InSeq
      <4>4. \A x \in 1 .. l : names[x] \in Names
        BY <3>2, <4>3
      <4> QED
        BY <4>1, <4>4 DEF Names
    <3>5. \A x \in 1 .. l : names[x].name # Visiting.name
      BY <2>2, <3>2
    <3>6. \A x, y \in 1 .. l : x < y => /\ names[x].name # names[y].name
                                        /\ names[x].offset < names[y].offset
      BY <1>4, <3>2 DEF NamesOnce
    <3> HIDE DEF names, more, l
    <3>7. l + 1 \in 1 .. l + 1 /\ \A x \in 1 .. l + 1 : x = l + 1 \/ x \in 1 .. l
      BY ONLY <3>2
    <3>8. \A x \in 1 .. l : x \in 1 .. l + 1 /\ x < l + 1 /\ ~(l + 1 < x)
      BY ONLY <3>2
    <3>9. more[l + 1].name = Visiting.name /\ more[l + 1].offset = offset
      BY <3>3
    <3>10. ASSUME NEW x \in 1 .. l + 1, NEW y \in 1 .. l + 1, x < y
           PROVE  more[x].name # more[y].name /\ more[x].offset < more[y].offset
      <4>1. x \in 1 .. l
        BY ONLY <3>2, <3>10
      <4>2. CASE y = l + 1
        BY <3>3, <3>4, <3>5, <3>9, <4>1, <4>2
      <4>3. CASE y \in 1 .. l
        BY <3>3, <3>6, <3>10, <4>1, <4>3
      <4> QED
        BY <3>7, <4>2, <4>3
    <3>11. NamesOnce'
      BY <3>1, <3>3, <3>10 DEF NamesOnce
    <3>12. NameAt(n)'
      BY <1>7, <2>2, <3>1, <3>3, <3>7, <3>9 DEF NameAt
    <3>13. ASSUME NEW m \in V \ {1} PROVE NameAt(m)'
      <4>1. PICK x \in 1 .. l : names[x].name = nodes[m].name /\ names[x].offset = nodes[m].nameOffset
        BY <1>4, <3>2, <3>13 DEF NamesOf, NameAt, names
      <4>2. nodes'[m] = nodes[m]
        BY <1>5, <1>8, <3>13
      <4>3. x \in DOMAIN more /\ more[x] = names[x]
        BY <3>3, <3>8
      <4> QED
        BY <3>1, <4>1, <4>2, <4>3 DEF NameAt
    <3>14. NamesOf(W)'
      BY <3>12, <3>13 DEF NamesOf
    <3>15. \A x \in 1 .. l + 1 : more[x].offset < offset'
      <4> SUFFICES ASSUME NEW x \in 1 .. l + 1 PROVE more[x].offset < offset'
        OBVIOUS
      <4>1. CASE x = l + 1
        BY <2>2, <3>9, <4>1
      <4>2. CASE x \in 1 .. l
        <5>1. more[x].offset \in Nat /\ more[x].offset < offset
          BY <3>3, <3>4, <4>2
        <5> QED
          BY <1>1, <1>3, <2>2, <5>1
      <4> QED
        BY <3>7, <4>1, <4>2
    <3> QED
      BY <3>1, <3>3, <3>11, <3>14, <3>15
  <2> QED
    BY <1>2, <2>1, <2>2
<1> QED
  BY <1>5, <1>11, <1>12, <1>13 DEF NamesSoFar
LEMMA PlacedKept ==
    ASSUME TreeOK, nodes # <<>>, Placed, UNCHANGED command, Shape(nodes') = Shape(nodes),
           image'.data = image.data, image'.names = image.names,
           \A n \in DOMAIN nodes : /\ nodes'[n].directory = nodes[n].directory
                                   /\ nodes'[n].file = nodes[n].file
                                   /\ nodes'[n].compressed = nodes[n].compressed
                                   /\ nodes'[n].dataOffset = nodes[n].dataOffset
                                   /\ nodes'[n].name = nodes[n].name
                                   /\ nodes'[n].nameOffset = nodes[n].nameOffset
    PROVE  Placed' /\ Reached(Shape(nodes))' = Reached(Shape(nodes))
<1>1. PICK R : R = Reached(Shape(nodes))
  OBVIOUS
<1>2. R \subseteq DOMAIN nodes
  BY <1>1, TreeShape
<1>3. Reached(Shape(nodes))' = R
  <2>1. Shape(nodes)' = Shape(nodes)
    BY DEF Shape
  <2> QED
    BY <1>1, <2>1 DEF Reached, Closed
<1>4. BlobsOf(R) /\ NamesOnce /\ NamesOf(R)
  BY <1>1 DEF Placed
<1>5. BlobsOf(R)'
  BY <1>2, <1>4, BlobsKept
<1>6. NamesOf(R)' /\ NamesOnce'
  BY <1>2, <1>4, NamesKept
<1> QED
  BY <1>1, <1>3, <1>5, <1>6 DEF Placed

LEMMA OrderKept == UNCHANGED <<command, seed>> => Order' = Order
BY DEF Order

LEMMA OffsetDescend ==
    ASSUME RccTypeOK, Descend, stage = "childOffsets", nodes # <<>>,
           NEW V, NEW t, NEW m, OffsetsSoFar(V, t, m),
           NEW u, u = Grown(Dirs, Sorted, t, m)
    PROVE  OffsetsSoFar(V, u, m + 1)'
<1>1. PICK d : d = Last(pending)
  OBVIOUS
<1>2. /\ UNCHANGED <<command, seed, offset, image>> /\ todo = <<>> /\ pending' = Front(pending)
      /\ d \in DOMAIN nodes /\ todo' = SortedByHash(nodes[d].children)
      /\ Shape(nodes') = Shape(nodes) /\ DOMAIN nodes' = DOMAIN nodes
      /\ nodes' = [nodes EXCEPT ![d].childOffset = offset]
  BY <1>1, DescendTyped
<1>3. TreeOK /\ nodes \in Trees /\ nodes \in Seq(FileInfo) /\ offset \in Nat
  BY TreeIs DEF RccTypeOK, TreeOK
<1>4. /\ Placed /\ WalkedTo(V) /\ IsTrace(Dirs, Sorted, t, m) /\ Counted(t, m) /\ Taken(t, m, V)
      /\ t[m] = [pending |-> pending, todo |-> todo, count |-> offset]
  BY DEF OffsetsSoFar
<1>5. /\ WalkedTo(V)' /\ d \in V \ Range(Front(pending)) /\ V \subseteq DOMAIN nodes
      /\ Range(pending) = Range(Front(pending)) \cup {d}
  BY <1>1, <1>4, DescendWalk
<1>6. \A p \in DOMAIN nodes : /\ nodes'[p].directory = nodes[p].directory
                              /\ nodes'[p].file = nodes[p].file
                              /\ nodes'[p].children = nodes[p].children
                              /\ nodes'[p].compressed = nodes[p].compressed
                              /\ nodes'[p].dataOffset = nodes[p].dataOffset
                              /\ nodes'[p].name = nodes[p].name
                              /\ nodes'[p].nameOffset = nodes[p].nameOffset
                              /\ p # d => nodes'[p].childOffset = nodes[p].childOffset
  <2> SUFFICES ASSUME NEW p \in DOMAIN nodes
               PROVE  /\ nodes'[p].directory = nodes[p].directory
                      /\ nodes'[p].file = nodes[p].file
                      /\ nodes'[p].children = nodes[p].children
                      /\ nodes'[p].compressed = nodes[p].compressed
                      /\ nodes'[p].dataOffset = nodes[p].dataOffset
                      /\ nodes'[p].name = nodes[p].name
                      /\ nodes'[p].nameOffset = nodes[p].nameOffset
                      /\ p # d => nodes'[p].childOffset = nodes[p].childOffset
    OBVIOUS
  <2>1. nodes[p] \in FileInfo
    BY <1>3, NodeIs
  <2>2. nodes'[p] = IF p = d THEN [nodes[p] EXCEPT !.childOffset = offset] ELSE nodes[p]
    BY <1>2, <1>3
  <2> QED
    BY <2>1, <2>2 DEF FileInfo
<1>7. nodes'[d].childOffset = offset
  <2>1. nodes[d] \in FileInfo
    BY <1>2, <1>3, NodeIs
  <2>2. nodes'[d] = [nodes[d] EXCEPT !.childOffset = offset]
    BY <1>2, <1>3
  <2> QED
    BY <2>1, <2>2 DEF FileInfo
<1>8. PICK D, L : D = Dirs /\ L = Sorted
  OBVIOUS
<1>9. Sorted' = L /\ Dirs' = D
  BY <1>2, <1>3, <1>6, <1>8, OrderKept, SortedSame
<1>10. Placed'
  BY <1>2, <1>3, <1>4, <1>6, PlacedKept
<1>11. IsTrace(D, L, u, m + 1) /\ \A i \in 1 .. m : u[i] = t[i]
  <2>1. u = Grown(D, L, t, m)
    BY <1>8
  <2>2. IsTrace(D, L, t, m)
    BY <1>4, <1>8
  <2> QED
    BY ONLY <2>1, <2>2, TraceGrows
<1>12. /\ m \in Nat \ {0} /\ m \in 1 .. m /\ (m + 1) - 1 = m /\ m + 1 \in 1 .. m + 1
       /\ \A i \in 1 .. m : i = m \/ i \in 1 .. m - 1
  <2>1. m \in Nat \ {0}
    BY <1>4 DEF IsTrace
  <2> QED
    BY ONLY <2>1
<1>13. u[m + 1] = [pending |-> pending', todo |-> todo', count |-> offset']
  <2>1. u[m + 1] = Follows(D, L, t[m])
    BY <1>8, <1>12 DEF Grown
  <2>2. L[d] = SortedByHash(nodes[d].children)
    BY <1>2, <1>8 DEF Sorted
  <2> QED
    BY <1>1, <1>2, <1>4, <2>1, <2>2 DEF Follows
<1>14. \A i \in 1 .. m - 1 : t[i].todo = <<>> =>
          /\ Last(t[i].pending) \in V \ Range(pending)
          /\ nodes[Last(t[i].pending)].childOffset = t[i].count
  BY <1>4 DEF Counted, Taken
<1>15. ASSUME NEW i \in 1 .. m, u[i].todo = <<>>
       PROVE  /\ Last(u[i].pending) \in V \ Range(pending')
              /\ nodes'[Last(u[i].pending)].childOffset = u[i].count
  <2>1. CASE i = m
    <3>1. Last(u[i].pending) = d /\ u[i].count = offset
      BY <1>1, <1>4, <1>11, <2>1
    <3> QED
      BY <1>2, <1>5, <1>7, <3>1
  <2>2. CASE i \in 1 .. m - 1
    <3>1. u[i] = t[i]
      BY <1>11
    <3>2. PICK e : e = Last(t[i].pending)
      OBVIOUS
    <3>3. e \in V \ Range(pending) /\ nodes[e].childOffset = t[i].count
      BY <1>14, <1>15, <2>2, <3>1, <3>2
    <3>4. e # d /\ e \in DOMAIN nodes
      BY <1>5, <3>3
    <3> QED
      BY <1>2, <1>5, <1>6, <3>1, <3>2, <3>3, <3>4
  <2> QED
    BY <1>12, <2>1, <2>2
<1>16. Counted(u, m + 1)' /\ Taken(u, m + 1, V)'
  BY <1>12, <1>15 DEF Counted, Taken
<1> QED
  BY <1>5, <1>9, <1>10, <1>11, <1>13, <1>16 DEF OffsetsSoFar

LEMMA OffsetCount ==
    ASSUME RccTypeOK, CountChild, nodes # <<>>,
           NEW V, NEW t, NEW m, OffsetsSoFar(V, t, m),
           NEW u, u = Grown(Dirs, Sorted, t, m),
           NEW n, n = Head(todo), NEW W, W = V \cup {n}
    PROVE  OffsetsSoFar(W, u, m + 1)'
<1>1. /\ todo # <<>> /\ Visited /\ UNCHANGED <<command, seed, nodes, image>>
      /\ n \in DOMAIN nodes /\ offset' = offset + 1
      /\ todo' = Tail(todo)
      /\ pending' = IF nodes[n].directory THEN Append(pending, n) ELSE pending
  BY UntouchedTyped DEF CountChild, Visited, Visiting
<1>2. TreeOK /\ nodes \in Trees /\ pending \in Seq(DOMAIN nodes)
  BY DEF RccTypeOK, TreeOK
<1>3. /\ Placed /\ WalkedTo(V) /\ IsTrace(Dirs, Sorted, t, m) /\ Counted(t, m) /\ Taken(t, m, V)
      /\ t[m] = [pending |-> pending, todo |-> todo, count |-> offset]
  BY DEF OffsetsSoFar
<1>4. WalkedTo(W)' /\ n \notin V /\ V \subseteq DOMAIN nodes
  BY <1>1, <1>3, VisitWalk
<1>5. PICK D, L : D = Dirs /\ L = Sorted
  OBVIOUS
<1>6. Sorted' = L /\ Dirs' = D
  BY <1>1, <1>2, <1>5, OrderKept, SortedSame
<1>7. Placed'
  BY <1>1, <1>2, <1>3, PlacedKept
<1>8. IsTrace(D, L, u, m + 1) /\ \A i \in 1 .. m : u[i] = t[i]
  <2>1. u = Grown(D, L, t, m)
    BY <1>5
  <2>2. IsTrace(D, L, t, m)
    BY <1>3, <1>5
  <2> QED
    BY ONLY <2>1, <2>2, TraceGrows
<1>9. /\ m \in Nat \ {0} /\ m \in 1 .. m /\ (m + 1) - 1 = m /\ m + 1 \in 1 .. m + 1
      /\ \A i \in 1 .. m : i = m \/ i \in 1 .. m - 1
  <2>1. m \in Nat \ {0}
    BY <1>3 DEF IsTrace
  <2> QED
    BY ONLY <2>1
<1>10. u[m + 1] = [pending |-> pending', todo |-> todo', count |-> offset']
  <2>1. u[m + 1] = Follows(D, L, t[m])
    BY <1>5, <1>9 DEF Grown
  <2>2. D[n] = nodes[n].directory
    BY <1>1, <1>5 DEF Dirs
  <2>3. /\ t[m].todo = todo /\ t[m].pending = pending /\ t[m].count = offset
        /\ t[m].todo # <<>> /\ Head(t[m].todo) = n
    BY <1>1, <1>3
  <2>4. u[m + 1] = [pending |-> IF D[n] THEN Append(pending, n) ELSE pending,
                    todo |-> Tail(todo), count |-> offset + 1]
    BY <2>1, <2>3 DEF Follows
  <2> QED
    BY <1>1, <2>2, <2>4
<1>11. \A e \in V \ Range(pending) : e \in W \ Range(pending')
  <2>1. CASE nodes[n].directory
    <3>1. pending' = Append(pending, n)
      BY <1>1, <2>1
    <3>2. \A i \in DOMAIN pending' : pending'[i] = n \/ (i \in DOMAIN pending /\ pending'[i] = pending[i])
      <4> DEFINE S == DOMAIN nodes
      <4>1. pending \in Seq(S) /\ n \in S
        BY <1>1, <1>2
      <4> HIDE DEF S
      <4>2. \A i \in DOMAIN Append(pending, n) :
               \/ i = Len(pending) + 1 /\ Append(pending, n)[i] = n
               \/ i \in DOMAIN pending /\ Append(pending, n)[i] = pending[i]
        BY ONLY <4>1, Appended
      <4> QED
        BY <3>1, <4>2
    <3>3. \A e \in Range(pending') : e = n \/ e \in Range(pending)
      BY <3>2 DEF Range
    <3> QED
      BY <1>4, <3>3
  <2>2. CASE ~nodes[n].directory
    BY <1>1, <2>2
  <2> QED
    BY <2>1, <2>2
<1>12. \A i \in 1 .. m - 1 : t[i].todo = <<>> =>
          /\ Last(t[i].pending) \in V \ Range(pending)
          /\ nodes[Last(t[i].pending)].childOffset = t[i].count
  BY <1>3 DEF Counted, Taken
<1>13. ASSUME NEW i \in 1 .. m, u[i].todo = <<>>
       PROVE  /\ Last(u[i].pending) \in W \ Range(pending')
              /\ nodes'[Last(u[i].pending)].childOffset = u[i].count
  <2>1. u[i] = t[i]
    BY <1>8
  <2>2. i # m
    BY <1>1, <1>3, <1>13, <2>1
  <2>3. i \in 1 .. m - 1
    BY <1>9, <2>2
  <2> QED
    BY <1>1, <1>11, <1>12, <1>13, <2>1, <2>3
<1>14. Counted(u, m + 1)' /\ Taken(u, m + 1, W)'
  BY <1>9, <1>13 DEF Counted, Taken
<1> QED
  BY <1>4, <1>6, <1>7, <1>8, <1>10, <1>14 DEF OffsetsSoFar
LEMMA EntryDescend ==
    ASSUME RccTypeOK, Descend, stage = "writeDataInfo", nodes # <<>>,
           NEW V, NEW t, NEW m, EntriesSoFar(V, t, m)
    PROVE  EntriesSoFar(V, t, m)'
<1>1. PICK d : d = Last(pending)
  OBVIOUS
<1>2. /\ UNCHANGED <<command, seed, offset, image, nodes>> /\ todo = <<>> /\ pending # <<>>
      /\ pending' = Front(pending) /\ d \in DOMAIN nodes /\ todo' = SortedByHash(nodes[d].children)
      /\ todo' \in Seq(DOMAIN nodes)
  BY <1>1, DescendTyped
<1>3. TreeOK /\ nodes \in Trees
  BY DEF RccTypeOK, TreeOK
<1>4. /\ Placed /\ WalkedTo(V) /\ EntriesOf(V) /\ EntriesKnown
      /\ IsTrace(Dirs, Sorted, t, m) /\ Over(t[m]) /\ Counted(t, m)
  BY DEF EntriesSoFar
<1>5. PICK i \in 1 .. m :
         t[i] = [pending |-> pending, todo |-> todo, count |-> Len(image.structure)]
  BY DEF EntriesSoFar
<1>6. /\ WalkedTo(V)' /\ d \in V \ Range(Front(pending))
      /\ Range(pending) = Range(Front(pending)) \cup {d}
  BY <1>1, <1>4, DescendWalk
<1>7. PICK D, L : D = Dirs /\ L = Sorted
  OBVIOUS
<1>8. Sorted' = L /\ Dirs' = D
  BY <1>2, <1>3, <1>7, OrderKept, SortedSame
<1>9. Placed' /\ Reached(Shape(nodes))' = Reached(Shape(nodes))
  <2>1. Shape(nodes') = Shape(nodes)
    BY <1>2
  <2> QED
    BY <1>2, <1>3, <1>4, <2>1, PlacedKept
<1>10. i \in 1 .. m - 1 /\ i + 1 \in 1 .. m
  <2>1. i # m
    BY <1>2, <1>4, <1>5 DEF Over
  <2>2. m \in Nat \ {0}
    BY <1>4 DEF IsTrace
  <2> QED
    BY ONLY <2>1, <2>2, i \in 1 .. m
<1>11. nodes[d].childOffset = Len(image.structure)
  BY <1>1, <1>2, <1>4, <1>5, <1>10 DEF Counted
<1>12. L[d] = todo'
  BY <1>2, <1>7 DEF Sorted
<1>13. t[i + 1] = [pending |-> pending', todo |-> todo', count |-> Len(image'.structure)]
  <2>1. t[i + 1] = Follows(D, L, t[i])
    BY <1>4, <1>7, <1>10 DEF IsTrace
  <2> QED
    BY <1>1, <1>2, <1>5, <1>12, <2>1 DEF Follows
<1>14. \A n : Info(n)' = Info(n)
  BY <1>2 DEF Info
<1>15. EntriesKnown'
  BY <1>2, <1>4, <1>9, <1>14 DEF EntriesKnown
<1>16. EntriesOf(V)'
  <2>1. ASSUME NEW e \in V \ Range(pending'), nodes[e].directory, NEW k \in DOMAIN L[e]
        PROVE  \/ image'.structure[nodes'[e].childOffset + k] = Info(L[e][k])
                  /\ nodes'[e].childOffset + k \in DOMAIN image'.structure
               \/ \E j \in DOMAIN todo' : /\ todo'[j] = L[e][k]
                                          /\ nodes'[e].childOffset + k = Len(image'.structure) + j
    <3>1. CASE e = d
      BY <1>2, <1>11, <1>12, <2>1, <3>1
    <3>2. CASE e # d
      <4>1. e \in V \ Range(pending)
        BY <1>2, <1>6, <2>1, <3>2
      <4>2. ~ \E j \in DOMAIN todo : TRUE
        BY <1>2
      <4>3. image.structure[nodes[e].childOffset + k] = Info(L[e][k])
            /\ nodes[e].childOffset + k \in DOMAIN image.structure
        BY <1>4, <1>7, <2>1, <4>1, <4>2 DEF EntriesOf
      <4> QED
        BY <1>2, <4>3
    <3> QED
      BY <3>1, <3>2
  <2> QED
    BY <1>2, <1>8, <1>14, <2>1 DEF EntriesOf
<1>17. Counted(t, m)'
  BY <1>2, <1>4 DEF Counted
<1> QED
  BY <1>4, <1>6, <1>7, <1>8, <1>9, <1>10, <1>13, <1>15, <1>16, <1>17 DEF EntriesSoFar

LEMMA EntryStep ==
    ASSUME RccTypeOK, WriteDataInfo, nodes # <<>>,
           NEW V, NEW t, NEW m, EntriesSoFar(V, t, m), NEW n, n = Head(todo), NEW W, W = V \cup {n}
    PROVE  EntriesSoFar(W, t, m)'
<1>1. /\ todo # <<>> /\ Visited /\ UNCHANGED <<command, seed, nodes>>
      /\ n \in DOMAIN nodes /\ todo' = Tail(todo)
      /\ pending' = IF nodes[n].directory THEN Append(pending, n) ELSE pending
      /\ image.structure \in Seq(Infos) /\ Info(n) \in Infos
      /\ image'.structure = Append(image.structure, Info(n))
      /\ image'.data = image.data /\ image'.names = image.names
  BY EntryTyped DEF Visited, Visiting
<1>2. TreeOK /\ nodes \in Trees /\ pending \in Seq(DOMAIN nodes) /\ todo \in Seq(DOMAIN nodes)
  BY DEF RccTypeOK, TreeOK
<1>3. /\ Placed /\ WalkedTo(V) /\ EntriesOf(V) /\ EntriesKnown
      /\ IsTrace(Dirs, Sorted, t, m) /\ Over(t[m]) /\ Counted(t, m)
  BY DEF EntriesSoFar
<1>4. PICK i \in 1 .. m :
         t[i] = [pending |-> pending, todo |-> todo, count |-> Len(image.structure)]
  BY DEF EntriesSoFar
<1>5. Shape(nodes') = Shape(nodes)
  BY <1>1
<1>6. WalkedTo(W)' /\ n \notin V /\ V \subseteq DOMAIN nodes /\ n \in Reached(Shape(nodes))
  BY <1>1, <1>3, <1>5, VisitWalk
<1>7. PICK D, L : D = Dirs /\ L = Sorted
  OBVIOUS
<1>8. Sorted' = L /\ Dirs' = D
  BY <1>1, <1>2, <1>7, OrderKept, SortedSame
<1>9. Placed' /\ Reached(Shape(nodes))' = Reached(Shape(nodes))
  BY <1>1, <1>2, <1>3, <1>5, PlacedKept
<1> DEFINE S == image.structure
    l == Len(S)
<1>10. /\ l \in Nat /\ DOMAIN S = 1 .. l
       /\ Len(image'.structure) = l + 1 /\ DOMAIN image'.structure = 1 .. l + 1
       /\ image'.structure[l + 1] = Info(n) /\ \A j \in 1 .. l : image'.structure[j] = S[j]
  <2> DEFINE e == Info(n)
      U == image'.structure
  <2>1. S \in Seq(Infos) /\ e \in Infos /\ U = Append(S, e)
    BY <1>1
  <2> HIDE DEF S, e, U
  <2>2. /\ Len(S) \in Nat /\ DOMAIN S = 1 .. Len(S)
        /\ Len(U) = Len(S) + 1 /\ DOMAIN U = 1 .. Len(S) + 1
        /\ U[Len(S) + 1] = e /\ \A j \in 1 .. Len(S) : U[j] = S[j]
    BY <2>1
  <2> QED
    BY <2>2 DEF e, U
<1>11. i \in 1 .. m - 1 /\ i + 1 \in 1 .. m
  <2>1. i # m
    BY <1>1, <1>3, <1>4 DEF Over
  <2>2. m \in Nat \ {0}
    BY <1>3 DEF IsTrace
  <2> QED
    BY ONLY <2>1, <2>2, i \in 1 .. m
<1>12. t[i + 1] = [pending |-> pending', todo |-> todo', count |-> Len(image'.structure)]
  <2>1. t[i + 1] = Follows(D, L, t[i])
    BY <1>3, <1>7, <1>11 DEF IsTrace
  <2>2. D[n] = nodes[n].directory
    BY <1>1, <1>7 DEF Dirs
  <2>3. /\ t[i].todo = todo /\ t[i].pending = pending /\ t[i].count = l
        /\ t[i].todo # <<>> /\ Head(t[i].todo) = n
    BY <1>1, <1>4
  <2>4. t[i + 1] = [pending |-> IF D[n] THEN Append(pending, n) ELSE pending,
                    todo |-> Tail(todo), count |-> l + 1]
    BY <2>1, <2>3 DEF Follows
  <2> QED
    BY <1>1, <1>10, <2>2, <2>4
<1>13. \A x : Info(x)' = Info(x)
  BY <1>1 DEF Info
<1> HIDE DEF l, S
<1>14. EntriesKnown'
  <2>1. l # 0 /\ S[1] = Info(1) /\ \A j \in 1 .. l : \E x \in Reached(Shape(nodes)) : S[j] = Info(x)
    BY <1>3, <1>10 DEF EntriesKnown, S, l
  <2>2. 1 \in 1 .. l /\ 1 \in 1 .. l + 1 /\ \A j \in 1 .. l + 1 : j = l + 1 \/ j \in 1 .. l
    BY ONLY <1>10, <2>1
  <2>3. image'.structure # <<>> /\ image'.structure[1] = Info(1)
    BY <1>10, <2>1, <2>2
  <2>4. \A j \in 1 .. l + 1 : \E x \in Reached(Shape(nodes)) : image'.structure[j] = Info(x)
    BY <1>6, <1>10, <2>1, <2>2
  <2> QED
    BY <1>9, <1>10, <1>13, <2>3, <2>4 DEF EntriesKnown
<1>15. \A e \in W \ Range(pending') : nodes[e].directory => e \in V \ Range(pending)
  <2> SUFFICES ASSUME NEW e \in W \ Range(pending'), nodes[e].directory
               PROVE  e \in V \ Range(pending)
    OBVIOUS
  <2>1. CASE nodes[n].directory
    <3> DEFINE Q == DOMAIN nodes
    <3>1. pending \in Seq(Q) /\ n \in Q /\ pending' = Append(pending, n)
      BY <1>1, <1>2, <2>1
    <3> HIDE DEF Q
    <3>2. /\ Len(pending) + 1 \in DOMAIN Append(pending, n) /\ Append(pending, n)[Len(pending) + 1] = n
          /\ \A j \in DOMAIN pending : /\ j \in DOMAIN Append(pending, n)
                                       /\ Append(pending, n)[j] = pending[j]
      BY ONLY <3>1
    <3>3. n \in Range(pending') /\ Range(pending) \subseteq Range(pending')
      BY <3>1, <3>2 DEF Range
    <3> QED
      BY <3>3
  <2>2. CASE ~nodes[n].directory
    BY <1>1, <2>2
  <2> QED
    BY <2>1, <2>2
<1>16. EntriesOf(W)'
  <2>1. ASSUME NEW e \in W \ Range(pending'), nodes[e].directory, NEW k \in DOMAIN L[e]
        PROVE  \/ image'.structure[nodes[e].childOffset + k] = Info(L[e][k])
                  /\ nodes[e].childOffset + k \in DOMAIN image'.structure
               \/ \E j \in DOMAIN todo' : /\ todo'[j] = L[e][k]
                                          /\ nodes[e].childOffset + k = Len(image'.structure) + j
    <3>1. e \in V \ Range(pending)
      BY <1>15, <2>1
    <3>2. PICK p : p = nodes[e].childOffset + k
      OBVIOUS
    <3>3. \/ S[p] = Info(L[e][k]) /\ p \in 1 .. l
          \/ \E j \in DOMAIN todo : todo[j] = L[e][k] /\ p = l + j
      BY <1>3, <1>7, <1>10, <2>1, <3>1, <3>2 DEF EntriesOf, S, l
    <3>4. CASE S[p] = Info(L[e][k]) /\ p \in 1 .. l
      <4>1. p \in 1 .. l + 1
        BY ONLY <1>10, <3>4
      <4> QED
        BY <1>10, <3>2, <3>4, <4>1
    <3>5. CASE \E j \in DOMAIN todo : todo[j] = L[e][k] /\ p = l + j
      <4>1. PICK j \in DOMAIN todo : todo[j] = L[e][k] /\ p = l + j
        BY <3>5
      <4>2. /\ Len(todo) \in Nat /\ DOMAIN todo = 1 .. Len(todo) /\ n = todo[1]
            /\ DOMAIN Tail(todo) = 1 .. Len(todo) - 1
            /\ \A x \in 1 .. Len(todo) - 1 : Tail(todo)[x] = todo[x + 1]
        BY <1>1, <1>2
      <4>3. CASE j = 1
        <5>1. p = l + 1 /\ p \in 1 .. l + 1
          BY ONLY <1>10, <4>1, <4>3
        <5> QED
          BY <1>10, <3>2, <4>1, <4>2, <4>3, <5>1
      <4>4. CASE j # 1
        <5>1. j - 1 \in 1 .. Len(todo) - 1 /\ (j - 1) + 1 = j /\ p = (l + 1) + (j - 1)
          BY ONLY <1>10, <4>1, <4>2, <4>4
        <5>2. j - 1 \in DOMAIN todo' /\ todo'[j - 1] = L[e][k]
          BY <1>1, <4>1, <4>2, <5>1
        <5> QED
          BY <1>10, <3>2, <5>1, <5>2
      <4> QED
        BY <4>3, <4>4
    <3> QED
      BY <3>3, <3>4, <3>5
  <2> QED
    BY <1>1, <1>8, <1>13, <2>1 DEF EntriesOf
<1>17. Counted(t, m)'
  BY <1>1, <1>3 DEF Counted
<1> QED
  BY <1>3, <1>6, <1>7, <1>8, <1>9, <1>11, <1>12, <1>14, <1>16, <1>17 DEF EntriesSoFar
LEMMA OutputStep ==
    ASSUME RccTypeOK, WalkInv, Output
    PROVE  WalkInv'
<1>1. /\ stage = "interpretResourceFile" /\ stage' \in {"written", "scan", "writeDataBlobs"}
      /\ stage' = "writeDataBlobs" =>
            /\ ~command.list /\ command.format # "Pass2" /\ nodes # <<>>
            /\ pending' = Root /\ offset' = 0 /\ image' = image
      /\ stage' = "written" => command.list \/ nodes = <<>>
      /\ stage' = "scan" => command.format = "Pass2"
      /\ todo' = <<>> /\ UNCHANGED <<command, seed, nodes>>
  BY OutputTyped DEF Output
<1>2. CASE stage' = "writeDataBlobs"
  <2>1. image.data = <<>> /\ image.names = <<>>
    BY <1>1, <1>2 DEF WalkInv
  <2>2. TreeOK /\ nodes \in Trees /\ nodes # <<>>
    BY <1>1, <1>2 DEF RccTypeOK, TreeOK
  <2>3. pending' = <<1>>
    BY <1>1, <1>2, <2>2 DEF Root
  <2>4. WalkedTo({1})'
    BY <1>1, <2>2, <2>3, WalkBegins
  <2>5. nodes[1].directory
    BY <2>2, TreeShape
  <2>6. BlobsOf({1})'
    BY <1>1, <2>5 DEF BlobsOf
  <2>7. BlobsSoFar({1})'
    BY <1>1, <1>2, <2>1, <2>4, <2>6 DEF BlobsSoFar
  <2> QED
    BY <1>2, <2>7 DEF WalkInv
<1>3. CASE stage' # "writeDataBlobs"
  BY <1>1, <1>3 DEF WalkInv
<1> QED
  BY <1>2, <1>3

LEMMA EndStep ==
    ASSUME RccTypeOK, WalkInv, EndWalk
    PROVE  WalkInv'
<1>1. /\ UNCHANGED <<command, seed, nodes>>
      /\ ~command.list /\ command.format # "Pass2" /\ nodes # <<>> /\ 1 \in DOMAIN nodes
      /\ todo = <<>> /\ pending = <<>> /\ todo' = <<>>
      /\ \/ /\ stage = "writeDataBlobs" /\ stage' = "writeDataNames"
            /\ pending' = <<1>> /\ offset' = 0
            /\ image'.data = image.data /\ image'.names = image.names
         \/ /\ stage = "writeDataNames" /\ stage' = "childOffsets"
            /\ pending' = <<1>> /\ offset' = 1 /\ image' = image
         \/ /\ stage = "childOffsets" /\ stage' = "writeDataInfo" /\ pending' = <<1>>
            /\ image'.data = image.data /\ image'.names = image.names
            /\ image'.structure = <<Info(1)>>
         \/ stage = "writeDataInfo" /\ stage' = "written" /\ image' = image
  BY EndTyped
<1>2. TreeOK /\ nodes \in Trees
  BY DEF RccTypeOK, TreeOK
<1>3. PICK R : R = Reached(Shape(nodes))
  OBVIOUS
<1>4. Reached(Shape(nodes))' = R
  BY <1>1, <1>3 DEF Reached, Closed, Shape
<1>5. PICK D, L : D = Dirs /\ L = Sorted
  OBVIOUS
<1>6. Sorted' = L /\ Dirs' = D
  BY <1>1, <1>2, <1>5, OrderKept, SortedSame
<1>7. \A n : Info(n)' = Info(n)
  BY <1>1 DEF Info
<1>8. pending' = <<1>> => WalkedTo({1})' /\ {1} \ Range(<<1>>) = {}
  BY <1>1, <1>2, WalkBegins
<1>9. CASE stage = "writeDataBlobs" /\ stage' = "writeDataNames"
  <2>1. PICK V : BlobsSoFar(V)
    BY <1>1, <1>9 DEF WalkInv
  <2>2. WalkedTo(V) /\ BlobsOf(V) /\ image.names = <<>>
    BY <2>1 DEF BlobsSoFar
  <2>3. V = R
    BY <1>1, <1>2, <1>3, <2>2, WalkEnds
  <2>4. BlobsOf(R)'
    BY <1>1, <1>9, <2>2, <2>3, BlobsKept
  <2>5. image'.names = <<>> /\ DOMAIN <<>> = {}
    BY <1>1, <1>9, <2>2
  <2>6. NamesOnce' /\ \A x \in DOMAIN image'.names : image'.names[x].offset < offset'
    BY <2>5 DEF NamesOnce
  <2>7. NamesOf({1})'
    BY DEF NamesOf
  <2>8. NamesSoFar({1})'
    BY <1>1, <1>4, <1>8, <1>9, <2>4, <2>6, <2>7 DEF NamesSoFar
  <2> QED
    BY <1>9, <2>8 DEF WalkInv
<1>10. CASE stage = "writeDataNames" /\ stage' = "childOffsets"
  <2>1. PICK V : NamesSoFar(V)
    BY <1>1, <1>10 DEF WalkInv
  <2>2. WalkedTo(V) /\ NamesOf(V) /\ BlobsOf(R) /\ NamesOnce
    BY <1>3, <2>1 DEF NamesSoFar
  <2>3. V = R
    BY <1>1, <1>2, <1>3, <2>2, WalkEnds
  <2>4. Placed
    BY <1>3, <2>2, <2>3 DEF Placed
  <2>5. Shape(nodes') = Shape(nodes) /\ image' = image
    BY <1>1, <1>10
  <2>6. Placed'
    BY <1>1, <1>2, <2>4, <2>5, PlacedKept
  <2>7. PICK t : t = [i \in 1 .. 1 |-> Starts]
    OBVIOUS
  <2>8. IsTrace(D, L, t, 1)
    BY <2>7, TraceStarts
  <2>9. t[1] = [pending |-> pending', todo |-> todo', count |-> offset']
    BY <1>1, <1>10, <2>7 DEF Starts
  <2>10. ~ \E i \in 1 .. 1 - 1 : TRUE
    OBVIOUS
  <2>11. Counted(t, 1)' /\ Taken(t, 1, {1})'
    BY <2>10 DEF Counted, Taken
  <2>12. OffsetsSoFar({1}, t, 1)'
    BY <1>1, <1>6, <1>8, <1>10, <2>6, <2>8, <2>9, <2>11 DEF OffsetsSoFar
  <2> QED
    BY <1>10, <2>12 DEF WalkInv
<1>11. CASE stage = "childOffsets" /\ stage' = "writeDataInfo"
  <2>1. PICK V, t, m : OffsetsSoFar(V, t, m)
    BY <1>1, <1>11 DEF WalkInv
  <2>2. /\ Placed /\ IsTrace(Dirs, Sorted, t, m) /\ Counted(t, m)
        /\ t[m] = [pending |-> pending, todo |-> todo, count |-> offset]
    BY <2>1 DEF OffsetsSoFar
  <2>3. image'.structure = <<Info(1)>> /\ image'.data = image.data /\ image'.names = image.names
        /\ Shape(nodes') = Shape(nodes)
    BY <1>1, <1>11
  <2>4. Placed'
    BY <1>1, <1>2, <2>2, <2>3, PlacedKept
  <2>5. Over(t[m]) /\ Counted(t, m)'
    BY <1>1, <2>2 DEF Over, Counted
  <2>6. 1 \in R
    BY <1>1, <1>2, <1>3, TreeShape
  <2>7. EntriesKnown'
    BY <1>4, <1>7, <2>3, <2>6 DEF EntriesKnown
  <2>8. pending' = <<1>>
    BY <1>1, <1>11
  <2>9. EntriesOf({1})'
    BY <1>8, <2>8 DEF EntriesOf
  <2>10. m \in Nat \ {0} /\ t[1] = Starts
    BY <2>2 DEF IsTrace
  <2>11. 1 \in 1 .. m /\ t[1] = [pending |-> pending', todo |-> todo', count |-> Len(image'.structure)]
    BY <1>1, <2>3, <2>8, <2>10 DEF Starts
  <2>12. EntriesSoFar({1}, t, m)'
    BY <1>5, <1>6, <1>8, <2>2, <2>4, <2>5, <2>7, <2>8, <2>9, <2>11 DEF EntriesSoFar
  <2> QED
    BY <1>11, <2>12 DEF WalkInv
<1>12. CASE stage = "writeDataInfo" /\ stage' = "written"
  <2>1. PICK V, t, m : EntriesSoFar(V, t, m)
    BY <1>1, <1>12 DEF WalkInv
  <2>2. Placed /\ WalkedTo(V) /\ EntriesOf(V) /\ EntriesKnown
    BY <2>1 DEF EntriesSoFar
  <2>3. V = R /\ V \ Range(pending) = V
    BY <1>1, <1>2, <1>3, <2>2, WalkEnds
  <2>4. Shape(nodes') = Shape(nodes) /\ image' = image
    BY <1>1, <1>12
  <2>5. Placed'
    BY <1>1, <1>2, <2>2, <2>4, PlacedKept
  <2>6. EntriesKnown'
    BY <1>3, <1>4, <1>7, <2>2, <2>4 DEF EntriesKnown
  <2>7. ASSUME NEW d \in R, nodes[d].directory, NEW k \in DOMAIN L[d]
        PROVE  /\ image.structure[nodes[d].childOffset + k] = Info(L[d][k])
               /\ nodes[d].childOffset + k \in DOMAIN image.structure
    <3>1. ~ \E j \in DOMAIN todo : TRUE
      BY <1>1
    <3> QED
      BY <1>5, <2>2, <2>3, <2>7, <3>1 DEF EntriesOf
  <2>8. LaidDown'
    BY <1>1, <1>4, <1>6, <1>7, <2>4, <2>5, <2>6, <2>7 DEF LaidDown
  <2> QED
    BY <1>12, <2>8 DEF WalkInv
<1> QED
  BY <1>1, <1>9, <1>10, <1>11, <1>12

LEMMA DescendStep ==
    ASSUME RccTypeOK, WalkInv, Descend
    PROVE  WalkInv'
<1>1. /\ UNCHANGED <<command, seed, stage, offset, image>> /\ stage \in Range(Walks)
      /\ Shape(nodes') = Shape(nodes) /\ DOMAIN nodes' = DOMAIN nodes
      /\ stage # "childOffsets" => nodes' = nodes
  BY DescendTyped
<1>2. CASE command.format = "Pass2"
  BY <1>1, <1>2 DEF WalkInv
<1>3. CASE command.format # "Pass2"
  <2>1. nodes # <<>> /\ TreeOK
    BY <1>1, <1>3 DEF RccTypeOK, StageOK
  <2>2. PICK R : R = Reached(Shape(nodes))
    OBVIOUS
  <2>3. CASE stage = "writeDataBlobs"
    <3>1. PICK V : BlobsSoFar(V)
      BY <1>3, <2>3 DEF WalkInv
    <3>2. WalkedTo(V)'
      BY <2>1, <3>1, DescendWalk DEF BlobsSoFar
    <3>3. BlobsOf(V)'
      BY <1>1, <2>3, <3>1, BlobsKept DEF BlobsSoFar
    <3>4. BlobsSoFar(V)'
      BY <1>1, <3>1, <3>2, <3>3 DEF BlobsSoFar, OneGo
    <3> QED
      BY <1>1, <2>3, <3>4 DEF WalkInv
  <2>4. CASE stage = "writeDataNames"
    <3>1. PICK V : NamesSoFar(V)
      BY <1>3, <2>4 DEF WalkInv
    <3>2. WalkedTo(V)'
      BY <2>1, <3>1, DescendWalk DEF NamesSoFar
    <3>3. BlobsOf(R)'
      BY <1>1, <2>2, <2>4, <3>1, BlobsKept DEF NamesSoFar
    <3>4. NamesOf(V)' /\ NamesOnce'
      BY <1>1, <2>4, <3>1, NamesKept DEF NamesSoFar
    <3>5. Reached(Shape(nodes))' = R
      BY <1>1, <2>2, <2>4 DEF Reached, Closed, Shape
    <3>6. NamesSoFar(V)'
      BY <1>1, <3>1, <3>2, <3>3, <3>4, <3>5 DEF NamesSoFar
    <3> QED
      BY <1>1, <2>4, <3>6 DEF WalkInv
  <2>5. CASE stage = "childOffsets"
    <3>1. PICK V, t, m : OffsetsSoFar(V, t, m)
      BY <1>3, <2>5 DEF WalkInv
    <3>2. PICK u : u = Grown(Dirs, Sorted, t, m)
      OBVIOUS
    <3>3. OffsetsSoFar(V, u, m + 1)'
      BY <2>1, <2>5, <3>1, <3>2, OffsetDescend
    <3> QED
      BY <1>1, <2>5, <3>3 DEF WalkInv
  <2>6. CASE stage = "writeDataInfo"
    <3>1. PICK V, t, m : EntriesSoFar(V, t, m)
      BY <1>3, <2>6 DEF WalkInv
    <3>2. EntriesSoFar(V, t, m)'
      BY <2>1, <2>6, <3>1, EntryDescend
    <3> QED
      BY <1>1, <2>6, <3>2 DEF WalkInv
  <2> QED
    BY <1>1, <2>3, <2>4, <2>5, <2>6, WalksAre
<1> QED
  BY <1>2, <1>3

LEMMA VisitStep ==
    ASSUME RccTypeOK, WalkInv,
           WriteDataBlob \/ BlobOfDirectory \/ WriteDataName \/ CountChild \/ WriteDataInfo
    PROVE  WalkInv'
<1>1. PICK n : n = Head(todo)
  OBVIOUS
<1>2. UNCHANGED <<command, stage>> /\ stage \in Range(Walks)
  BY BlobTyped, UntouchedTyped, NameTyped, EntryTyped, WalksAre
<1>3. CASE command.format = "Pass2"
  BY <1>2, <1>3 DEF WalkInv
<1>4. CASE command.format # "Pass2"
  <2>1. nodes # <<>>
    BY <1>2, <1>4 DEF RccTypeOK, StageOK
  <2>2. CASE WriteDataBlob \/ BlobOfDirectory
    <3>1. stage = "writeDataBlobs"
      BY <2>2 DEF WriteDataBlob, BlobOfDirectory, Walking
    <3>2. PICK V : BlobsSoFar(V)
      BY <1>4, <3>1 DEF WalkInv
    <3>3. PICK W : W = V \cup {n}
      OBVIOUS
    <3>4. BlobsSoFar(W)'
      BY <1>1, <1>4, <2>2, <3>2, <3>3, BlobStep, DirectoryStep
    <3> QED
      BY <1>2, <3>1, <3>4 DEF WalkInv
  <2>3. CASE WriteDataName
    <3>1. stage = "writeDataNames"
      BY <2>3 DEF WriteDataName, Walking
    <3>2. PICK V : NamesSoFar(V)
      BY <1>4, <3>1 DEF WalkInv
    <3>3. PICK W : W = V \cup {n}
      OBVIOUS
    <3>4. NamesSoFar(W)'
      BY <1>1, <1>4, <2>3, <3>2, <3>3, NameStep
    <3> QED
      BY <1>2, <3>1, <3>4 DEF WalkInv
  <2>4. CASE CountChild
    <3>1. stage = "childOffsets"
      BY <2>4 DEF CountChild, Walking
    <3>2. PICK V, t, m : OffsetsSoFar(V, t, m)
      BY <1>4, <3>1 DEF WalkInv
    <3>3. PICK W, u : W = V \cup {n} /\ u = Grown(Dirs, Sorted, t, m)
      OBVIOUS
    <3>4. OffsetsSoFar(W, u, m + 1)'
      BY <1>1, <2>1, <2>4, <3>2, <3>3, OffsetCount
    <3> QED
      BY <1>2, <3>1, <3>4 DEF WalkInv
  <2>5. CASE WriteDataInfo
    <3>1. stage = "writeDataInfo"
      BY <2>5 DEF WriteDataInfo, Walking
    <3>2. PICK V, t, m : EntriesSoFar(V, t, m)
      BY <1>4, <3>1 DEF WalkInv
    <3>3. PICK W : W = V \cup {n}
      OBVIOUS
    <3>4. EntriesSoFar(W, t, m)'
      BY <1>1, <2>1, <2>5, <3>2, <3>3, EntryStep
    <3> QED
      BY <1>2, <3>1, <3>4 DEF WalkInv
  <2> QED
    BY <2>2, <2>3, <2>4, <2>5
<1> QED
  BY <1>3, <1>4
LEMMA WalkStep ==
    ASSUME RccTypeOK, WalkInv, [RccNext]_rccVars
    PROVE  WalkInv'
<1>1. CASE StartRcc \/ StartResource \/ StartFile \/ EndTag \/ Blanks
  <2>1. UNCHANGED <<command, stage, nodes, image>>
    BY <1>1, TagsTyped
  <2>2. stage = "interpretResourceFile"
    BY <1>1 DEF StartRcc, StartResource, StartFile, EndTag, Blanks, Gets, Interpreting
  <2> QED
    BY <2>1, <2>2 DEF WalkInv
<1>2. CASE AddText \/ AddFound \/ ParseError \/ EndDocument
  <2>1. stage' \in {"interpretResourceFile", "failed"} /\ UNCHANGED <<command, image>>
    BY <1>2, TextTyped, FoundTyped, DocumentTyped
  <2>2. stage = "interpretResourceFile"
    BY <1>2 DEF AddText, AddFound, ParseError, EndDocument, Gets, Interpreting
  <2> QED
    BY <2>1, <2>2 DEF WalkInv
<1>3. CASE Output
  BY <1>3, OutputStep
<1>4. CASE Descend
  BY <1>4, DescendStep
<1>5. CASE WriteDataBlob \/ BlobOfDirectory \/ WriteDataName \/ CountChild \/ WriteDataInfo
  BY <1>5, VisitStep
<1>6. CASE OpenReadFailed \/ EndSecondData
  BY <1>6, FailedTyped DEF WalkInv
<1>7. CASE EndWalk
  BY <1>7, EndStep
<1>8. CASE ScanByte \/ EndOfTemp
  BY <1>8, ScanTyped DEF WalkInv
<1>9. CASE SecondPass
  BY <1>9, SecondTyped DEF WalkInv
<1>10. CASE UNCHANGED rccVars
  <2>1. UNCHANGED <<command, seed, stage, nodes, pending, todo, offset, image>>
    BY <1>10 DEF rccVars, processVars, readVars
  <2>2. PICK R, D, L : R = Reached(Shape(nodes)) /\ D = Dirs /\ L = Sorted
    OBVIOUS
  <2>3. Reached(Shape(nodes))' = R /\ (NamesOnce' <=> NamesOnce)
    BY <2>1, <2>2 DEF Reached, Closed, Shape, NamesOnce
  <2>4. Sorted' = L /\ Dirs' = D
    BY <2>1, <2>2, OrderKept, SortedSame DEF RccTypeOK, TreeOK
  <2>5. \A n : (BlobAt(n)' <=> BlobAt(n)) /\ (NameAt(n)' <=> NameAt(n)) /\ Info(n)' = Info(n)
    BY <2>1 DEF BlobAt, HoldsAt, Blob, Size, NameAt, Info
  <2>6. \A V : /\ BlobsOf(V)' <=> BlobsOf(V)
               /\ NamesOf(V)' <=> NamesOf(V)
               /\ WalkedTo(V)' <=> WalkedTo(V)
    BY <2>1, <2>5 DEF BlobsOf, NamesOf, OneGo, WalkedTo, Shape
  <2>7. (OneGo' <=> OneGo) /\ (Placed' <=> Placed) /\ (EntriesKnown' <=> EntriesKnown)
    <3>1. Placed' <=> Placed
      BY <2>2, <2>3, <2>6 DEF Placed
    <3>2. EntriesKnown' <=> EntriesKnown
      BY <2>1, <2>2, <2>3, <2>5 DEF EntriesKnown
    <3> QED
      BY <2>1, <3>1, <3>2 DEF OneGo
  <2>8. \A V : EntriesOf(V)' <=> EntriesOf(V)
    BY <2>1, <2>2, <2>4, <2>5 DEF EntriesOf
  <2>9. \A V : (BlobsSoFar(V) => BlobsSoFar(V)') /\ (NamesSoFar(V) => NamesSoFar(V)')
    BY <2>1, <2>2, <2>3, <2>6, <2>7 DEF BlobsSoFar, NamesSoFar
  <2>10. \A V, t, m : OffsetsSoFar(V, t, m) => OffsetsSoFar(V, t, m)'
    BY <2>1, <2>2, <2>4, <2>6, <2>7 DEF OffsetsSoFar, Counted, Taken
  <2>11. \A V, t, m : EntriesSoFar(V, t, m) => EntriesSoFar(V, t, m)'
    BY <2>1, <2>2, <2>4, <2>6, <2>7, <2>8 DEF EntriesSoFar, Counted
  <2>12. LaidDown => LaidDown'
    BY <2>1, <2>2, <2>3, <2>4, <2>5, <2>7 DEF LaidDown
  <2> QED
    BY <2>1, <2>9, <2>10, <2>11, <2>12 DEF WalkInv
<1> QED
  BY <1>1, <1>2, <1>3, <1>4, <1>5, <1>6, <1>7, <1>8, <1>9, <1>10 DEF RccNext, RccSteps
(***************************************************************************)
(* What rbrcc has written when it ends without -list: for every node that  *)
(* the traversals reach from the root, its entry says where its name is,   *)
(* no name is there twice, the children of a directory have consecutive    *)
(* entries from its child offset on, in the order of their hashes, so that *)
(* a program can search them by halves; and in one go every file's bytes   *)
(* lie whole at its data offset.  Two traversals in an order of their own, *)
(* one that counts and one that writes, have to agree on every place.      *)
(***************************************************************************)
LaidOut ==
    stage = "written" /\ ~command.list /\ command.format # "Pass2" /\ nodes # <<>> =>
        LET reached == Reached(Shape(nodes))
        IN  /\ image.structure # <<>> /\ image.structure[1] = Info(1)
            /\ \A i \in DOMAIN image.structure : \E n \in reached : image.structure[i] = Info(n)
            /\ \A d \in reached : nodes[d].directory =>
                  LET children == nodes[d].children
                      s == SortedByHash(children)
                  IN  /\ Len(s) = Len(children) /\ Range(s) = Range(children)
                      /\ \A i, j \in DOMAIN s : i < j => Hash[nodes[s[i]].name] <= Hash[nodes[s[j]].name]
                      /\ \A k \in DOMAIN s :
                            /\ nodes[d].childOffset + k \in DOMAIN image.structure
                            /\ image.structure[nodes[d].childOffset + k] = Info(s[k])
            /\ \A n \in reached \ {1} : NameAt(n)
            /\ NamesOnce
            /\ OneGo => \A n \in reached : ~nodes[n].directory => BlobAt(n)

(* Whatever documents, disk, hashes and order of keys: what is written is  *)
(* laid out so.                                                            *)
THEOREM LaidOutHolds == RccSpec => []LaidOut
<1>1. RccInit => RccTypeOK /\ WalkInv
  BY InitTyped DEF RccInit, WalkInv
<1>2. RccTypeOK /\ WalkInv /\ [RccNext]_rccVars => RccTypeOK' /\ WalkInv'
  BY RccTypeStep, WalkStep
<1>3. RccTypeOK /\ WalkInv => LaidOut
  <2> SUFFICES ASSUME RccTypeOK, WalkInv, stage = "written", ~command.list,
                      command.format # "Pass2", nodes # <<>>
               PROVE  LaidOut
    BY DEF LaidOut
  <2>1. LaidDown /\ TreeOK /\ nodes \in Trees /\ Order \in Seeds
    BY OrderIs DEF WalkInv, RccTypeOK, TreeOK
  <2>2. PICK R : R = Reached(Shape(nodes))
    OBVIOUS
  <2>3. R \subseteq DOMAIN nodes
    BY <2>1, <2>2, TreeShape
  <2>4. BlobsOf(R) /\ NamesOnce /\ NamesOf(R) /\ EntriesKnown
    BY <2>1, <2>2 DEF LaidDown, Placed
  <2>5. ASSUME NEW d \in R, nodes[d].directory
        PROVE  LET children == nodes[d].children
                   s == SortedByHash(children)
               IN  /\ Len(s) = Len(children) /\ Range(s) = Range(children)
                   /\ \A i, j \in DOMAIN s : i < j => Hash[nodes[s[i]].name] <= Hash[nodes[s[j]].name]
                   /\ \A k \in DOMAIN s :
                         /\ nodes[d].childOffset + k \in DOMAIN image.structure
                         /\ image.structure[nodes[d].childOffset + k] = Info(s[k])
    <3> DEFINE c == nodes[d].children
        s == SortedByHash(c)
    <3>1. c \in Seq(DOMAIN nodes) /\ IsInjective(c) /\ d \in DOMAIN nodes
      BY <2>1, <2>3, TreeIs
    <3>2. Sorted[d] = s
      BY <3>1 DEF Sorted
    <3> HIDE DEF c
    <3>3. /\ s \in Seq(DOMAIN nodes) /\ Len(s) = Len(c) /\ Range(s) = Range(c)
          /\ \A i, j \in DOMAIN s : i < j => qt_rcc_compare_hash(s[i], s[j])
      BY <2>1, <3>1, InOrder
    <3> HIDE DEF s
    <3>4. \A i \in DOMAIN s : Hash[nodes[s[i]].name] \in Int
      <4> SUFFICES ASSUME NEW i \in DOMAIN s PROVE Hash[nodes[s[i]].name] \in Int
        OBVIOUS
      <4>1. s[i] \in DOMAIN nodes
        BY <3>3
      <4>2. nodes[s[i]].name \in FileNames
        BY <2>1, <4>1, NodeIs
      <4> QED
        BY <4>2, NameAssumption
    <3>5. ASSUME NEW i \in DOMAIN s, NEW j \in DOMAIN s, i < j
          PROVE  Hash[nodes[s[i]].name] <= Hash[nodes[s[j]].name]
      <4>1. Hash[nodes[s[i]].name] < Hash[nodes[s[j]].name] \/ Hash[nodes[s[i]].name] = Hash[nodes[s[j]].name]
        BY <3>3, <3>5 DEF qt_rcc_compare_hash
      <4> QED
        BY <3>4, <4>1
    <3>6. \A k \in DOMAIN s :
             /\ nodes[d].childOffset + k \in DOMAIN image.structure
             /\ image.structure[nodes[d].childOffset + k] = Info(s[k])
      BY <2>1, <2>2, <2>5, <3>2 DEF LaidDown
    <3> QED
      BY <3>3, <3>5, <3>6 DEF s, c
  <2>6. image.structure # <<>> /\ image.structure[1] = Info(1)
        /\ \A i \in DOMAIN image.structure : \E n \in R : image.structure[i] = Info(n)
    BY <2>2, <2>4 DEF EntriesKnown
  <2>7. (\A n \in R \ {1} : NameAt(n)) /\ (OneGo => \A n \in R : ~nodes[n].directory => BlobAt(n))
    BY <2>4 DEF NamesOf, BlobsOf
  <2> QED
    BY <2>2, <2>4, <2>5, <2>6, <2>7 DEF LaidOut
<1> QED
  BY <1>1, <1>2, <1>3, PTL DEF RccSpec
=============================================================================
