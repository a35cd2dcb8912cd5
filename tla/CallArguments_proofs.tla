------------------------ MODULE CallArguments_proofs ------------------------
(***************************************************************************)
(* Proofs about the call's way to its arguments, for any classes whose     *)
(* bases are complete before them, any declarations and any Ruby values.   *)
(* The recursive functions of the search are shown to exist here: what     *)
(* they give is known by induction on the classes above, as the absence of *)
(* a first counterexample.                                                 *)
(***************************************************************************)
EXTENDS CallArguments, FiniteSetTheorems, WellFoundedInduction, TLAPS

LEMMA NatMin ==
    ASSUME NEW T \in SUBSET Nat, T # {}
    PROVE  \E x \in T : \A y \in T : x <= y
<1> DEFINE R == {ss \in Nat \X Nat : ss[1] < ss[2]}
<1>1. IsWellFoundedOn(R, Nat)
  BY NatLessThanWellFounded DEF OpToRel
<1> HIDE DEF R
<1>2. PICK x \in T : \A y \in T : ~(<<y, x>> \in R)
  BY <1>1, WFMin
<1>3. \A y \in T : ~(y < x)
  BY <1>2 DEF R
<1> QED
  BY <1>3

LEMMA MinIs ==
    ASSUME NEW T \in SUBSET Nat, T # {}
    PROVE  Min(T) \in T /\ \A y \in T : Min(T) <= y
BY NatMin DEF Min

LEMMA InSeq ==
    ASSUME NEW T, NEW s \in Seq(T)
    PROVE  Len(s) \in Nat /\ DOMAIN s = 1 .. Len(s) /\ \A i \in DOMAIN s : s[i] \in T
OBVIOUS

LEMMA SeqIs ==
    ASSUME NEW s, IsSeq(s)
    PROVE  Len(s) \in Nat /\ DOMAIN s = 1 .. Len(s) /\ DOMAIN s \subseteq Nat
BY DEF IsSeq
----------------------------------------------------------------------------
(* The classes that a class names as its bases.                            *)
BasesOf(c) == IF c \in Records THEN Bases[c] ELSE <<>>

LEMMA BasesAre ==
    ASSUME NEW c \in Names
    PROVE  /\ IsSeq(BasesOf(c))
           /\ \A i \in DOMAIN BasesOf(c) : BasesOf(c)[i] \in Names
<1>1. CASE c \in Records
  <2>1. IsSeq(Bases[c])
    BY <1>1, DeclAssumption
  <2>2. Range(Bases[c]) \subseteq Names
    BY <1>1 DEF Names
  <2> QED
    BY <1>1, <2>1, <2>2 DEF BasesOf, Range
<1>2. CASE c \notin Records
  BY <1>2 DEF BasesOf, IsSeq, Range
<1> QED
  BY <1>1, <1>2

(* The first class of a set: no base of it is in the set.                  *)
LEMMA FirstClass ==
    ASSUME NEW S \in SUBSET Names, S # {}
    PROVE  \E c \in S : \A i \in DOMAIN BasesOf(c) : BasesOf(c)[i] \notin S
<1>1. CASE \E c \in S : c \notin Records
  BY <1>1 DEF BasesOf
<1>2. CASE S \subseteq Records
  <2>1. PICK c \in S : Range(Bases[c]) \cap S = {}
    BY <1>2, HierarchyAssumption
  <2>2. \A i \in DOMAIN Bases[c] : Bases[c][i] \in Range(Bases[c])
    BY DEF Range
  <2> QED
    BY <1>2, <2>1, <2>2 DEF BasesOf
<1> QED
  BY <1>1, <1>2

(* A value for each class made from those of its bases exists: the least   *)
(* relation closed under the rule is a function.                           *)
Steps(V) == [Names -> [Seq(V) -> V]]
Computes(f, step) ==
    \A c \in Names : f[c] = step[c][[i \in DOMAIN BasesOf(c) |-> f[BasesOf(c)[i]]]]

LEMMA Recursion ==
    ASSUME NEW V, NEW step \in Steps(V)
    PROVE  \E f \in [Names -> V] : Computes(f, step)
<1> USE DEF Steps
<1> DEFINE Fits(G, c, w) ==
               /\ DOMAIN w = DOMAIN BasesOf(c)
               /\ \A i \in DOMAIN w : <<BasesOf(c)[i], w[i]>> \in G
           Closed(G) == \A c \in Names : \A w \in Seq(V) : Fits(G, c, w) => <<c, step[c][w]>> \in G
           L == {p \in Names \X V : \A G \in SUBSET (Names \X V) : Closed(G) => p \in G}
<1>1. Closed(L)
  <2> SUFFICES ASSUME NEW c \in Names, NEW w \in Seq(V), Fits(L, c, w)
               PROVE  <<c, step[c][w]>> \in L
    OBVIOUS
  <2>1. <<c, step[c][w]>> \in Names \X V
    OBVIOUS
  <2>2. ASSUME NEW G \in SUBSET (Names \X V), Closed(G) PROVE <<c, step[c][w]>> \in G
    <3>1. Fits(G, c, w)
      BY <2>2
    <3> QED
      BY <2>2, <3>1
  <2> HIDE DEF Closed, Fits
  <2> QED
    BY <2>1, <2>2
<1>2. \A G \in SUBSET (Names \X V) : Closed(G) => L \subseteq G
  <2> HIDE DEF Closed
  <2> QED
    OBVIOUS
<1>3. L \in SUBSET (Names \X V)
  OBVIOUS
<1> DEFINE Known(c) == \E v \in V : <<c, v>> \in L /\ \A u \in V : <<c, u>> \in L => u = v
           bad == {c \in Names : ~Known(c)}
<1> HIDE DEF L, Closed, Fits
<1>4. ASSUME NEW c \in Names, \A i \in DOMAIN BasesOf(c) : Known(BasesOf(c)[i])
      PROVE  \E w \in Seq(V) : /\ Fits(L, c, w)
                               /\ <<c, step[c][w]>> \in L
                               /\ \A u \in V : <<c, u>> \in L => u = step[c][w]
  <2> DEFINE w == [i \in DOMAIN BasesOf(c) |-> CHOOSE v \in V : <<BasesOf(c)[i], v>> \in L]
  <2>1. \A i \in DOMAIN BasesOf(c) : w[i] \in V /\ <<BasesOf(c)[i], w[i]>> \in L
    BY <1>4
  <2>2. \A i \in DOMAIN BasesOf(c) : \A v \in V : <<BasesOf(c)[i], v>> \in L => v = w[i]
    BY <1>4, <2>1
  <2>3. w \in [DOMAIN BasesOf(c) -> V]
    BY <2>1
  <2> HIDE DEF w
  <2>4. w \in Seq(V)
    <3>1. Len(BasesOf(c)) \in Nat /\ DOMAIN BasesOf(c) = 1 .. Len(BasesOf(c))
      BY BasesAre, SeqIs
    <3>2. w \in [1 .. Len(BasesOf(c)) -> V]
      BY <2>1, <2>3, <3>1
    <3> QED
      BY <3>1, <3>2
  <2>5. Fits(L, c, w)
    BY <2>1, <2>3 DEF Fits
  <2>6. <<c, step[c][w]>> \in L
    BY <1>1, <2>4, <2>5 DEF Closed
  <2>7. ASSUME NEW u \in V, <<c, u>> \in L, u # step[c][w] PROVE FALSE
    <3> DEFINE G == L \ {<<c, u>>}
    <3>1. ASSUME NEW d \in Names, NEW x \in Seq(V), Fits(G, d, x) PROVE <<d, step[d][x]>> \in G
      <4>1. Fits(L, d, x)
        BY <3>1 DEF Fits
      <4>2. <<d, step[d][x]>> \in L
        BY <1>1, <4>1 DEF Closed
      <4>3. CASE d = c
        <5>1. DOMAIN x = DOMAIN w /\ \A i \in DOMAIN x : x[i] = w[i]
          <6>1. DOMAIN x = DOMAIN w
            BY <4>1, <4>3, <2>3 DEF Fits
          <6>2. \A i \in DOMAIN x : x[i] \in V
            BY InSeq
          <6> QED
            BY <4>1, <4>3, <2>2, <2>3, <6>1, <6>2 DEF Fits
        <5>2. x = w
          BY <2>4, <5>1
        <5> QED
          BY <2>7, <4>2, <4>3, <5>2
      <4>4. CASE d # c
        BY <4>2, <4>4
      <4> QED
        BY <4>3, <4>4
    <3>2. Closed(G)
      BY <3>1 DEF Closed
    <3>3. L \subseteq G
      BY <1>2, <1>3, <3>2
    <3> QED
      BY <2>7, <3>3
  <2> QED
    BY <2>4, <2>5, <2>6, <2>7
<1>5. bad = {}
  <2> SUFFICES ASSUME bad # {} PROVE FALSE
    OBVIOUS
  <2>1. PICK c \in bad : \A i \in DOMAIN BasesOf(c) : BasesOf(c)[i] \notin bad
    <3> HIDE DEF Known
    <3> QED
      BY FirstClass
  <2>2. c \in Names
    OBVIOUS
  <2>3. \A i \in DOMAIN BasesOf(c) : Known(BasesOf(c)[i])
    <3> HIDE DEF Known
    <3> QED
      BY <2>1, <2>2, BasesAre
  <2>4. PICK w \in Seq(V) : /\ <<c, step[c][w]>> \in L
                            /\ \A u \in V : <<c, u>> \in L => u = step[c][w]
    <3> HIDE DEF Known
    <3> QED
      BY <1>4, <2>2, <2>3
  <2>5. step[c][w] \in V
    BY <2>2
  <2>6. Known(c)
    BY <2>4, <2>5
  <2> QED
    BY <2>6
<1> DEFINE f == [c \in Names |-> CHOOSE v \in V : <<c, v>> \in L]
<1>6. \A c \in Names : Known(c)
  <2> HIDE DEF Known
  <2> QED
    BY <1>5
<1>7. \A c \in Names : f[c] \in V /\ <<c, f[c]>> \in L
  BY <1>6
<1>8. f \in [Names -> V]
  BY <1>7
<1> HIDE DEF f
<1>9. ASSUME NEW c \in Names
      PROVE  f[c] = step[c][[i \in DOMAIN BasesOf(c) |-> f[BasesOf(c)[i]]]]
  <2> DEFINE x == [i \in DOMAIN BasesOf(c) |-> f[BasesOf(c)[i]]]
  <2>1. PICK w \in Seq(V) : /\ Fits(L, c, w)
                            /\ \A u \in V : <<c, u>> \in L => u = step[c][w]
    <3>1. \A i \in DOMAIN BasesOf(c) : Known(BasesOf(c)[i])
      <4> HIDE DEF Known
      <4> QED
        BY <1>6, BasesAre
    <3> HIDE DEF Known
    <3> QED
      BY <1>4, <3>1
  <2>2. f[c] = step[c][w]
    BY <1>7, <2>1
  <2>3. DOMAIN w = DOMAIN BasesOf(c)
    BY <2>1 DEF Fits
  <2>4. \A i \in DOMAIN w : w[i] = f[BasesOf(c)[i]]
    <3> SUFFICES ASSUME NEW i \in DOMAIN w PROVE w[i] = f[BasesOf(c)[i]]
      OBVIOUS
    <3>1. BasesOf(c)[i] \in Names /\ w[i] \in V /\ <<BasesOf(c)[i], w[i]>> \in L
      BY <2>1, <2>3, BasesAre DEF Fits
    <3> DEFINE b == BasesOf(c)[i]
    <3>2. f[b] \in V /\ <<b, f[b]>> \in L
      BY <1>7, <3>1
    <3>3. \E v \in V : <<b, v>> \in L /\ \A u \in V : <<b, u>> \in L => u = v
      BY <1>6, <3>1
    <3> QED
      BY ONLY <3>1, <3>2, <3>3
  <2>5. w = x
    BY <2>3, <2>4
  <2> QED
    BY <2>2, <2>5
<1> QED
  BY <1>8, <1>9 DEF Computes
----------------------------------------------------------------------------
LEMMA AboveIs ==
    \A c \in Names :
        /\ c \in Above[c]
        /\ \A i \in DOMAIN BasesOf(c) : Above[BasesOf(c)[i]] \subseteq Above[c]
        /\ \A d \in Above[c] :
              d = c \/ \E i \in DOMAIN BasesOf(c) : d \in Above[BasesOf(c)[i]]
<1> DEFINE V == SUBSET Names
           step == [c \in Names |-> [w \in Seq(V) |-> {c} \cup UNION Range(w)]]
<1>1. step \in Steps(V)
  <2>1. \A c \in Names : \A w \in Seq(V) : {c} \cup UNION Range(w) \in V
    <3> SUFFICES ASSUME NEW c \in Names, NEW w \in Seq(V) PROVE UNION Range(w) \subseteq Names
      OBVIOUS
    <3>1. \A i \in DOMAIN w : w[i] \in V
      BY InSeq
    <3> QED
      BY <3>1 DEF Range
  <2> HIDE DEF V
  <2> QED
    BY <2>1 DEF Steps
<1> HIDE DEF V
<1>2. PICK f \in [Names -> V] : Computes(f, step)
  <2> HIDE DEF step
  <2> QED
    BY <1>1, Recursion
<1>3. ASSUME NEW c \in Names
      PROVE  f[c] = {c} \cup IF c \in Records THEN UNION {f[b] : b \in Range(Bases[c])} ELSE {}
  <2> DEFINE w == [i \in DOMAIN BasesOf(c) |-> f[BasesOf(c)[i]]]
  <2>1. w \in Seq(V)
    <3>1. Len(BasesOf(c)) \in Nat /\ DOMAIN BasesOf(c) = 1 .. Len(BasesOf(c))
      BY BasesAre, SeqIs
    <3>2. w \in [1 .. Len(BasesOf(c)) -> V]
      BY <3>1, BasesAre
    <3> HIDE DEF w
    <3> QED
      BY <3>1, <3>2
  <2>2. f[c] = {c} \cup UNION Range(w)
    <3>1. f[c] = step[c][w]
      BY <1>2 DEF Computes
    <3> HIDE DEF w
    <3> QED
      BY <2>1, <3>1
  <2>3. UNION Range(w) = IF c \in Records THEN UNION {f[b] : b \in Range(Bases[c])} ELSE {}
    <3>1. CASE c \in Records
      <4>1. BasesOf(c) = Bases[c]
        BY <3>1 DEF BasesOf
      <4>2. \A x : x \in Range(w) <=> \E i \in DOMAIN Bases[c] : x = f[Bases[c][i]]
        BY <4>1 DEF Range
      <4>3. \A x : x \in {f[b] : b \in Range(Bases[c])} <=>
                     \E i \in DOMAIN Bases[c] : x = f[Bases[c][i]]
        BY DEF Range
      <4> HIDE DEF w
      <4>4. Range(w) = {f[b] : b \in Range(Bases[c])}
        BY <4>2, <4>3
      <4> QED
        BY <3>1, <4>4
    <3>2. CASE c \notin Records
      BY <3>2 DEF BasesOf, Range
    <3> QED
      BY <3>1, <3>2
  <2> HIDE DEF w
  <2> QED
    BY <2>2, <2>3
<1>4. f = [c \in Names |->
             {c} \cup IF c \in Records THEN UNION {f[b] : b \in Range(Bases[c])} ELSE {}]
  BY <1>3
<1>5. Above = [c \in Names |->
             {c} \cup IF c \in Records THEN UNION {Above[b] : b \in Range(Bases[c])} ELSE {}]
  BY <1>4, Zenon DEF Above
<1>6. \A c \in Names :
         Above[c] = {c} \cup IF c \in Records THEN UNION {Above[b] : b \in Range(Bases[c])} ELSE {}
  <2> DEFINE E(c) == {c} \cup IF c \in Records THEN UNION {Above[b] : b \in Range(Bases[c])} ELSE {}
  <2>1. Above = [c \in Names |-> E(c)]
    BY <1>5
  <2> HIDE DEF E
  <2>2. \A c \in Names : Above[c] = E(c)
    BY <2>1
  <2> QED
    BY <2>2 DEF E
<1>7. ASSUME NEW c \in Names, c \in Records
      PROVE  /\ \A i \in DOMAIN Bases[c] : Above[Bases[c][i]] \subseteq Above[c]
             /\ \A d \in Above[c] : d = c \/ \E i \in DOMAIN Bases[c] : d \in Above[Bases[c][i]]
  <2>1. \A d : d \in Above[c] <=> d = c \/ \E b \in Range(Bases[c]) : d \in Above[b]
    BY <1>6, <1>7
  <2>2. \A b : b \in Range(Bases[c]) <=> \E i \in DOMAIN Bases[c] : b = Bases[c][i]
    BY DEF Range
  <2> QED
    BY <2>1, <2>2
<1> QED
  BY <1>6, <1>7 DEF BasesOf

LEMMA AboveNames == \A c \in Names : Above[c] \subseteq Names
<1> DEFINE bad == {c \in Names : ~(Above[c] \subseteq Names)}
<1> SUFFICES ASSUME bad # {} PROVE FALSE
  OBVIOUS
<1>1. PICK c \in bad : \A i \in DOMAIN BasesOf(c) : BasesOf(c)[i] \notin bad
  BY FirstClass
<1>2. \A i \in DOMAIN BasesOf(c) : Above[BasesOf(c)[i]] \subseteq Names
  BY <1>1, BasesAre
<1> QED
  BY <1>1, <1>2, AboveIs

LEMMA AboveTransitive ==
    \A c \in Names : \A d \in Above[c] : Above[d] \subseteq Above[c]
<1> DEFINE bad == {c \in Names : \E d \in Above[c] : ~(Above[d] \subseteq Above[c])}
<1> SUFFICES ASSUME bad # {} PROVE FALSE
  OBVIOUS
<1>1. PICK c \in bad : \A i \in DOMAIN BasesOf(c) : BasesOf(c)[i] \notin bad
  BY FirstClass
<1>2. PICK d \in Above[c] : ~(Above[d] \subseteq Above[c])
  OBVIOUS
<1>3. PICK i \in DOMAIN BasesOf(c) : d \in Above[BasesOf(c)[i]]
  BY <1>2, AboveIs
<1>4. Above[d] \subseteq Above[BasesOf(c)[i]]
  BY <1>1, <1>3, BasesAre
<1> QED
  BY <1>2, <1>4, AboveIs

(* No class is above a class above it.                                     *)
LEMMA AboveAcyclic ==
    \A c \in Names : \A d \in Above[c] : c \in Above[d] => c = d
<1> DEFINE bad == {c \in Names : \E d \in Above[c] : c \in Above[d] /\ c # d}
<1> SUFFICES ASSUME bad # {} PROVE FALSE
  OBVIOUS
<1>1. PICK c \in bad : \A i \in DOMAIN BasesOf(c) : BasesOf(c)[i] \notin bad
  BY FirstClass
<1>2. PICK d \in Above[c] : c \in Above[d] /\ c # d
  OBVIOUS
<1>3. PICK i \in DOMAIN BasesOf(c) : d \in Above[BasesOf(c)[i]]
  BY <1>2, AboveIs
<1> DEFINE b == BasesOf(c)[i]
<1>4. b \in Names /\ b \in Above[b] /\ b \in Above[c] /\ b # c /\ d \in Names
  <2>1. b \in Names /\ d \in Names
    BY <1>2, BasesAre, AboveNames
  <2>2. b \in Above[b] /\ b \in Above[c]
    BY <2>1, AboveIs
  <2>3. b # c
    BY <1>1
  <2> QED
    BY <2>1, <2>2, <2>3
<1>5. c \in Above[b] /\ b \in Above[d]
  <2>1. Above[d] \subseteq Above[b] /\ Above[c] \subseteq Above[d]
    BY <1>2, <1>3, <1>4, AboveTransitive
  <2> QED
    BY <1>2, <1>4, <2>1
<1>6. b \in bad
  BY <1>4, <1>5
<1> QED
  BY <1>1, <1>6
----------------------------------------------------------------------------
(* The search, one class at a time.                                        *)
LEMMA MatchesNat ==
    ASSUME NEW c \in Records, NEW name, NEW static, NEW ua
    PROVE  Matches(c, name, static, ua) \in SUBSET Nat
<1>1. DOMAIN Decls[c] \subseteq Nat
  BY DeclAssumption, SeqIs
<1> QED
  BY <1>1 DEF Matches

LEMMA FindStep ==
    ASSUME NEW name, NEW static, NEW ua, NEW c \in Names
    PROVE  LET F(k) == find_method_decl(k, name, static, ua)
               mats == Matches(c, name, static, ua)
           IN  /\ c \notin Records => F(c) = CRASH
               /\ c \in Records /\ mats # {} => F(c) = <<c, Min(mats)>>
               /\ c \in Records /\ mats = {} =>
                     \/ \E i \in DOMAIN Bases[c] : F(c) = F(Bases[c][i]) /\ F(c) # NULL
                     \/ F(c) = NULL /\ \A i \in DOMAIN Bases[c] : F(Bases[c][i]) = NULL
<1> DEFINE V == {NULL, CRASH} \cup (Records \X Nat)
           M(k) == Matches(k, name, static, ua)
           Some(w) == {i \in DOMAIN w : w[i] # NULL}
           rule(k, w) == IF k \notin Records THEN CRASH
                         ELSE IF M(k) # {} THEN <<k, Min(M(k))>>
                         ELSE IF Some(w) # {} THEN w[Min(Some(w))] ELSE NULL
           step == [k \in Names |-> [w \in Seq(V) |-> rule(k, w)]]
<1>1. step \in Steps(V)
  <2>1. ASSUME NEW k \in Names, NEW w \in Seq(V) PROVE rule(k, w) \in V
    <3>1. k \in Records /\ M(k) # {} => <<k, Min(M(k))>> \in V
      <4> SUFFICES ASSUME k \in Records, M(k) # {} PROVE <<k, Min(M(k))>> \in V
        OBVIOUS
      <4>1. M(k) \in SUBSET Nat
        BY MatchesNat
      <4>2. Min(M(k)) \in Nat
        <5> HIDE DEF M
        <5> QED
          BY <4>1, MinIs
      <4> HIDE DEF M
      <4> QED
        BY <4>2
    <3>2. Some(w) # {} => w[Min(Some(w))] \in V
      <4> SUFFICES ASSUME Some(w) # {} PROVE w[Min(Some(w))] \in V
        OBVIOUS
      <4>1. Some(w) \in SUBSET Nat /\ Some(w) \subseteq DOMAIN w
        BY InSeq
      <4>2. Min(Some(w)) \in DOMAIN w
        <5> HIDE DEF Some
        <5> QED
          BY <4>1, MinIs
      <4> HIDE DEF Some, V
      <4> QED
        BY <4>2, InSeq
    <3>3. NULL \in V /\ CRASH \in V
      OBVIOUS
    <3> HIDE DEF M, Some, V
    <3> QED
      BY <3>1, <3>2, <3>3
  <2> HIDE DEF rule, V
  <2> QED
    BY <2>1 DEF Steps
<1>2. PICK f \in [Names -> V] : Computes(f, step)
  <2> HIDE DEF step, V
  <2> QED
    BY <1>1, Recursion
<1> DEFINE E(g, k) == IF k \notin Records THEN CRASH
                      ELSE LET mats == Matches(k, name, static, ua)
                               inBases == [i \in DOMAIN Bases[k] |-> g[Bases[k][i]]]
                               found == {i \in DOMAIN Bases[k] : inBases[i] # NULL}
                           IN IF mats # {} THEN <<k, Min(mats)>>
                              ELSE IF found # {} THEN inBases[Min(found)] ELSE NULL
<1>3. ASSUME NEW k \in Names PROVE f[k] = E(f, k)
  <2> DEFINE w == [i \in DOMAIN BasesOf(k) |-> f[BasesOf(k)[i]]]
  <2>1. w \in Seq(V)
    <3>1. Len(BasesOf(k)) \in Nat /\ DOMAIN BasesOf(k) = 1 .. Len(BasesOf(k))
      BY BasesAre, SeqIs
    <3> HIDE DEF V
    <3>2. w \in [1 .. Len(BasesOf(k)) -> V]
      BY <3>1, BasesAre
    <3> HIDE DEF w
    <3> QED
      BY <3>1, <3>2
  <2>2. f[k] = rule(k, w)
    <3>1. f[k] = step[k][w]
      BY <1>2 DEF Computes
    <3> HIDE DEF w, rule, V
    <3> QED
      BY <2>1, <3>1
  <2>3. CASE k \in Records
    <3> DEFINE inBases == [i \in DOMAIN Bases[k] |-> f[Bases[k][i]]]
               found == {i \in DOMAIN Bases[k] : inBases[i] # NULL}
    <3>1. w = inBases
      BY <2>3 DEF BasesOf
    <3>2. Some(w) = found
      <4>1. Some(inBases) = found
        OBVIOUS
      <4> QED
        BY <3>1, <4>1
    <3>3. E(f, k) = IF M(k) # {} THEN <<k, Min(M(k))>>
                    ELSE IF found # {} THEN inBases[Min(found)] ELSE NULL
      BY <2>3
    <3>4. rule(k, w) = IF M(k) # {} THEN <<k, Min(M(k))>>
                       ELSE IF Some(w) # {} THEN w[Min(Some(w))] ELSE NULL
      BY <2>3
    <3> HIDE DEF w, inBases, found, Some, M, rule, E
    <3> QED
      BY <2>2, <3>1, <3>2, <3>3, <3>4
  <2>4. CASE k \notin Records
    BY <2>2, <2>4
  <2> QED
    BY <2>3, <2>4
<1> DEFINE find[k \in Names] == E(find, k)
<1>4. find = [k \in Names |-> E(find, k)]
  <2>1. f = [k \in Names |-> E(f, k)]
    <3> HIDE DEF E
    <3> QED
      BY <1>3
  <2> HIDE DEF E
  <2> QED
    BY <2>1, Zenon DEF find
<1>5. \A k : find_method_decl(k, name, static, ua) = find[k]
  BY DEF find_method_decl
<1>6. find[c] = E(find, c)
  <2> HIDE DEF find, E
  <2> QED
    BY <1>4
<1> HIDE DEF find
<1>7. ASSUME c \in Records, M(c) = {}
      PROVE  \/ \E i \in DOMAIN Bases[c] : find[c] = find[Bases[c][i]] /\ find[c] # NULL
             \/ find[c] = NULL /\ \A i \in DOMAIN Bases[c] : find[Bases[c][i]] = NULL
  <2> DEFINE found == {i \in DOMAIN Bases[c] : find[Bases[c][i]] # NULL}
  <2>1. find[c] = IF found # {} THEN find[Bases[c][Min(found)]] ELSE NULL
    <3> DEFINE inBases == [i \in DOMAIN Bases[c] |-> find[Bases[c][i]]]
    <3>1. found = {i \in DOMAIN Bases[c] : inBases[i] # NULL}
      OBVIOUS
    <3>2. found # {} => Min(found) \in DOMAIN Bases[c]
      <4>1. found \in SUBSET Nat
        BY <1>7, DeclAssumption, SeqIs
      <4>2. found # {} => Min(found) \in found
        <5> HIDE DEF found
        <5> QED
          BY <4>1, MinIs
      <4> QED
        BY <4>2
    <3>3. find[c] = IF found # {} THEN inBases[Min(found)] ELSE NULL
      BY <1>6, <1>7, <3>1
    <3> QED
      BY <3>2, <3>3
  <2>2. CASE found = {}
    BY <2>1, <2>2
  <2>3. CASE found # {}
    <3>1. found \in SUBSET Nat
      BY <1>7, DeclAssumption, SeqIs
    <3>2. Min(found) \in found
      <4> HIDE DEF found
      <4> QED
        BY <2>3, <3>1, MinIs
    <3>3. find[c] = find[Bases[c][Min(found)]]
      BY <2>1, <2>3
    <3> QED
      BY <3>2, <3>3
  <2> QED
    BY <2>2, <2>3
<1>8. /\ c \notin Records => find[c] = CRASH
      /\ c \in Records /\ M(c) # {} => find[c] = <<c, Min(M(c))>>
  BY <1>6
<1> QED
  BY <1>5, <1>7, <1>8
LEMMA MatchesFirst ==
    ASSUME NEW c \in Records, NEW name, NEW static, NEW ua, Matches(c, name, static, ua) # {}
    PROVE  /\ Min(Matches(c, name, static, ua)) \in Matches(c, name, static, ua)
           /\ Matches(c, name, static, ua) \subseteq DOMAIN Decls[c]
<1> DEFINE M == Matches(c, name, static, ua)
<1>1. M \in SUBSET Nat
  BY MatchesNat
<1>2. Min(M) \in M
  <2> HIDE DEF M
  <2>1. M # {}
    BY DEF M
  <2> QED
    BY <1>1, <2>1, MinIs
<1> QED
  BY <1>2 DEF Matches

LEMMA PairIs ==
    ASSUME NEW c \in Records, NEW i \in DOMAIN Decls[c]
    PROVE  <<c, i>> # NULL /\ <<c, i>> # CRASH
BY DeclAssumption

(* What is found is a match, in a class above.                             *)
LEMMA FindFound ==
    ASSUME NEW name, NEW static, NEW ua, NEW k \in Names
    PROVE  LET r == find_method_decl(k, name, static, ua)
           IN  \/ r \in {NULL, CRASH}
               \/ \E d \in Records \cap Above[k] : \E i \in Matches(d, name, static, ua) : r = <<d, i>>
<1> DEFINE F(c) == find_method_decl(c, name, static, ua)
           M(c) == Matches(c, name, static, ua)
           Right(c) == \/ F(c) \in {NULL, CRASH}
                       \/ \E d \in Records \cap Above[c] : \E i \in M(d) : F(c) = <<d, i>>
           bad == {c \in Names : ~Right(c)}
<1> SUFFICES ASSUME bad # {} PROVE FALSE
  OBVIOUS
<1>1. PICK c \in bad : \A i \in DOMAIN BasesOf(c) : BasesOf(c)[i] \notin bad
  <2> HIDE DEF Right
  <2> QED
    BY FirstClass
<1>2. c \in Names /\ ~Right(c)
  <2> HIDE DEF Right
  <2> QED
    OBVIOUS
<1>3. c \in Records
  BY <1>2, FindStep
<1>4. M(c) # {} => Right(c)
  <2> SUFFICES ASSUME M(c) # {} PROVE Right(c)
    OBVIOUS
  <2>1. F(c) = <<c, Min(M(c))>>
    BY <1>2, <1>3, FindStep
  <2>2. Min(M(c)) \in M(c)
    BY <1>3, MatchesFirst
  <2>3. c \in Above[c]
    BY <1>2, AboveIs
  <2> HIDE DEF F, M
  <2> QED
    BY <1>3, <2>1, <2>2, <2>3
<1>5. ASSUME NEW i \in DOMAIN Bases[c], F(c) = F(Bases[c][i]) PROVE Right(c)
  <2>1. i \in DOMAIN BasesOf(c) /\ BasesOf(c)[i] = Bases[c][i]
    BY <1>3 DEF BasesOf
  <2>2. Bases[c][i] \in Names /\ Above[Bases[c][i]] \subseteq Above[c]
    BY <1>2, <2>1, BasesAre, AboveIs
  <2>3. Right(Bases[c][i])
    <3> HIDE DEF Right
    <3> QED
      BY <1>1, <2>1, <2>2
  <2> HIDE DEF F, M
  <2> QED
    BY <1>5, <2>2, <2>3
<1>6. M(c) = {} => F(c) = NULL \/ \E i \in DOMAIN Bases[c] : F(c) = F(Bases[c][i])
  BY <1>2, <1>3, FindStep
<1> HIDE DEF M, F
<1> QED
  BY <1>2, <1>4, <1>5, <1>6

(* NULL says that no class above has a match, and that all are defined.    *)
LEMMA FindNull ==
    ASSUME NEW name, NEW static, NEW ua, NEW k \in Names,
           find_method_decl(k, name, static, ua) = NULL
    PROVE  \A d \in Above[k] : d \in Records /\ Matches(d, name, static, ua) = {}
<1> DEFINE F(c) == find_method_decl(c, name, static, ua)
           M(c) == Matches(c, name, static, ua)
           Right(c) == F(c) = NULL => \A d \in Above[c] : d \in Records /\ M(d) = {}
           bad == {c \in Names : ~Right(c)}
<1>1. bad = {}
  <2> SUFFICES ASSUME bad # {} PROVE FALSE
    OBVIOUS
  <2>1. PICK c \in bad : \A i \in DOMAIN BasesOf(c) : BasesOf(c)[i] \notin bad
    <3> HIDE DEF Right
    <3> QED
      BY FirstClass
  <2>2. c \in Names /\ F(c) = NULL
    <3> HIDE DEF F, M
    <3> QED
      OBVIOUS
  <2>3. c \in Records
    BY <2>2, FindStep, DeclAssumption
  <2>4. M(c) = {}
    <3> SUFFICES ASSUME M(c) # {} PROVE FALSE
      OBVIOUS
    <3>1. F(c) = <<c, Min(M(c))>>
      BY <2>2, <2>3, FindStep
    <3>2. Min(M(c)) \in DOMAIN Decls[c]
      BY <2>3, MatchesFirst
    <3> HIDE DEF F, M
    <3> QED
      BY <2>2, <2>3, <3>1, <3>2, PairIs
  <2>5. \A i \in DOMAIN Bases[c] : F(Bases[c][i]) = NULL
    BY <2>2, <2>3, <2>4, FindStep
  <2>6. ASSUME NEW i \in DOMAIN BasesOf(c)
        PROVE  \A d \in Above[BasesOf(c)[i]] : d \in Records /\ M(d) = {}
    <3>1. BasesOf(c)[i] \in Names /\ Right(BasesOf(c)[i])
      <4> HIDE DEF Right
      <4> QED
        BY <2>1, <2>2, BasesAre
    <3>2. F(BasesOf(c)[i]) = NULL
      BY <2>3, <2>5 DEF BasesOf
    <3> HIDE DEF F, M
    <3> QED
      BY <3>1, <3>2
  <2> HIDE DEF F, M
  <2> QED
    BY <2>1, <2>2, <2>3, <2>4, <2>6, AboveIs
<1>2. Right(k)
  <2> HIDE DEF Right
  <2> QED
    BY <1>1
<1> QED
  BY <1>2

(* The search ends the process at a class without a definition.            *)
LEMMA FindCrash ==
    ASSUME NEW name, NEW static, NEW ua, NEW k \in Names,
           find_method_decl(k, name, static, ua) = CRASH
    PROVE  ~(Above[k] \subseteq Records)
<1> DEFINE F(c) == find_method_decl(c, name, static, ua)
           Right(c) == F(c) = CRASH => ~(Above[c] \subseteq Records)
           bad == {c \in Names : ~Right(c)}
<1>1. bad = {}
  <2> SUFFICES ASSUME bad # {} PROVE FALSE
    OBVIOUS
  <2>1. PICK c \in bad : \A i \in DOMAIN BasesOf(c) : BasesOf(c)[i] \notin bad
    <3> HIDE DEF Right
    <3> QED
      BY FirstClass
  <2>2. c \in Names /\ F(c) = CRASH /\ Above[c] \subseteq Records
    <3> HIDE DEF F
    <3> QED
      OBVIOUS
  <2>3. c \in Records
    BY <2>2, AboveIs
  <2>4. Matches(c, name, static, ua) = {}
    <3> SUFFICES ASSUME Matches(c, name, static, ua) # {} PROVE FALSE
      OBVIOUS
    <3> DEFINE m == Min(Matches(c, name, static, ua))
    <3>1. F(c) = <<c, m>>
      BY <2>2, <2>3, FindStep
    <3>2. m \in DOMAIN Decls[c]
      BY <2>3, MatchesFirst
    <3> HIDE DEF F, m
    <3> QED
      BY <2>2, <2>3, <3>1, <3>2, PairIs
  <2>5. PICK i \in DOMAIN Bases[c] : F(Bases[c][i]) = CRASH
    BY <2>2, <2>3, <2>4, FindStep, DeclAssumption
  <2>6. i \in DOMAIN BasesOf(c) /\ BasesOf(c)[i] = Bases[c][i]
    BY <2>3 DEF BasesOf
  <2>7. Bases[c][i] \in Names /\ Above[Bases[c][i]] \subseteq Above[c]
    BY <2>2, <2>6, BasesAre, AboveIs
  <2>8. Right(Bases[c][i])
    <3> HIDE DEF Right
    <3> QED
      BY <2>1, <2>6, <2>7
  <2> HIDE DEF F
  <2> QED
    BY <2>2, <2>5, <2>7, <2>8
<1>2. Right(k)
  <2> HIDE DEF Right
  <2> QED
    BY <1>1
<1> QED
  BY <1>2
(* A match found in a base is hidden by no class on the way to it.         *)
LEMMA FindHides ==
    ASSUME OnePath, NEW name, NEW static, NEW ua, NEW k \in Names
    PROVE  \A d \in Records : \A i \in Matches(d, name, static, ua) :
              find_method_decl(k, name, static, ua) = <<d, i>> =>
                 \A e \in Above[k] \ {d} :
                    d \in Above[e] /\ e \in Records => Matches(e, name, static, ua) = {}
<1> DEFINE F(c) == find_method_decl(c, name, static, ua)
           M(c) == Matches(c, name, static, ua)
           Right(c) == \A d \in Records : \A i \in M(d) : F(c) = <<d, i>> =>
                          \A e \in Above[c] \ {d} : d \in Above[e] /\ e \in Records => M(e) = {}
           bad == {c \in Names : ~Right(c)}
<1>1. bad = {}
  <2> SUFFICES ASSUME bad # {} PROVE FALSE
    OBVIOUS
  <2>1. PICK c \in bad : \A j \in DOMAIN BasesOf(c) : BasesOf(c)[j] \notin bad
    <3> HIDE DEF Right
    <3> QED
      BY FirstClass
  <2>2. c \in Names /\ ~Right(c)
    <3> HIDE DEF Right
    <3> QED
      OBVIOUS
  <2>3. PICK d \in Records : \E i \in M(d) : F(c) = <<d, i>> /\
           \E e \in Above[c] \ {d} : d \in Above[e] /\ e \in Records /\ M(e) # {}
    <3> HIDE DEF F, M
    <3> QED
      BY <2>2
  <2>4. PICK i \in M(d) : F(c) = <<d, i>> /\
           \E e \in Above[c] \ {d} : d \in Above[e] /\ e \in Records /\ M(e) # {}
    <3> HIDE DEF F, M
    <3> QED
      BY <2>3
  <2>5. PICK e \in Above[c] \ {d} : d \in Above[e] /\ e \in Records /\ M(e) # {}
    <3> HIDE DEF F, M
    <3> QED
      BY <2>4
  <2>6. F(c) # NULL /\ F(c) # CRASH
    <3>1. i \in DOMAIN Decls[d]
      BY DEF Matches
    <3> HIDE DEF F, M
    <3> QED
      BY <2>4, <3>1, PairIs
  <2>7. c \in Records
    BY <2>2, <2>6, FindStep
  <2>8. M(c) = {}
    <3> SUFFICES ASSUME M(c) # {} PROVE FALSE
      OBVIOUS
    <3>1. F(c) = <<c, Min(M(c))>>
      BY <2>2, <2>7, FindStep
    <3>2. c = d
      <4> HIDE DEF F, M
      <4> QED
        BY <2>4, <3>1
    <3>3. c \in Above[e] /\ e \in Above[c] /\ e # c
      BY <2>5, <3>2
    <3> QED
      BY <2>2, <3>3, AboveAcyclic
  <2>9. PICK j \in DOMAIN Bases[c] : F(c) = F(Bases[c][j])
    BY <2>2, <2>6, <2>7, <2>8, FindStep
  <2>10. BasesOf(c) = Bases[c]
    BY <2>7 DEF BasesOf
  <2>11. e # c
    <3> HIDE DEF M
    <3> QED
      BY <2>5, <2>8
  <2>12. PICK l \in DOMAIN Bases[c] : e \in Above[Bases[c][l]]
    BY <2>2, <2>5, <2>10, <2>11, AboveIs
  <2>13. Bases[c][j] \in Names /\ Bases[c][l] \in Names
    BY <2>2, <2>10, BasesAre
  <2>14. d \in Above[Bases[c][j]]
    <3>1. F(Bases[c][j]) = <<d, i>>
      <4> HIDE DEF F
      <4> QED
        BY <2>4, <2>9
    <3>2. PICK dd \in Records \cap Above[Bases[c][j]] : \E ii \in M(dd) : F(Bases[c][j]) = <<dd, ii>>
      <4>1. F(Bases[c][j]) \notin {NULL, CRASH}
        <5> HIDE DEF F
        <5> QED
          BY <2>6, <2>9
      <4> QED
        BY <2>13, <4>1, FindFound
    <3>3. dd = d
      <4> HIDE DEF F, M
      <4> QED
        BY <3>1, <3>2
    <3> QED
      BY <3>2, <3>3
  <2>15. d \in Above[Bases[c][l]]
    BY <2>5, <2>12, <2>13, AboveTransitive
  <2>16. j = l
    BY <2>7, <2>14, <2>15 DEF OnePath
  <2>17. Right(Bases[c][j])
    <3> HIDE DEF Right
    <3> QED
      BY <2>1, <2>10, <2>13
  <2> HIDE DEF F, M
  <2> QED
    BY <2>4, <2>5, <2>9, <2>12, <2>16, <2>17
<1>2. Right(k)
  <2> HIDE DEF Right
  <2> QED
    BY <1>1
<1> QED
  BY <1>2
----------------------------------------------------------------------------
(* What FlattenSeq gives.                                                  *)
LEMMA Concatenated ==
    ASSUME NEW T, NEW s \in Seq(T), NEW t \in Seq(T)
    PROVE  /\ s \o t \in Seq(T) /\ Len(s \o t) = Len(s) + Len(t)
           /\ \A i \in 1 .. Len(s) : (s \o t)[i] = s[i]
           /\ Len(t) = 1 => (s \o t)[Len(s) + 1] = t[1]
<1>1. s \o t \in Seq(T) /\ Len(s \o t) = Len(s) + Len(t)
  OBVIOUS
<1>2. \A i \in 1 .. Len(s) : (s \o t)[i] = s[i]
  OBVIOUS
<1>3. Len(t) = 1 => (s \o t)[Len(s) + 1] = t[1]
  OBVIOUS
<1> QED
  BY <1>1, <1>2, <1>3

LEMMA Flattened ==
    ASSUME NEW T, NEW s \in Seq(Seq(T))
    PROVE  /\ FlattenSeq(s) \in Seq(T)
           /\ (\A i \in DOMAIN s : Len(s[i]) = 1) =>
                 /\ Len(FlattenSeq(s)) = Len(s)
                 /\ \A i \in DOMAIN s : FlattenSeq(s)[i] = s[i][1]
<1>0. Len(s) \in Nat /\ DOMAIN s = 1 .. Len(s) /\ \A i \in DOMAIN s : s[i] \in Seq(T)
  BY InSeq
<1>1. CASE Len(s) = 0
  <2>1. FlattenSeq(s) = s
    BY <1>1 DEF FlattenSeq
  <2>2. s = <<>> /\ DOMAIN s = {}
    BY <1>0, <1>1
  <2> QED
    BY <2>1, <2>2
<1>2. CASE Len(s) # 0
  <2> DEFINE n == Len(s)
             E(g, i) == IF i = 1 THEN s[i] ELSE g[i - 1] \o s[i]
             P(k) == \E g \in [1 .. k -> Seq(T)] : \A i \in 1 .. k : g[i] = E(g, i)
             bad == {k \in 1 .. n : ~P(k)}
  <2>1. bad = {}
    <3> SUFFICES ASSUME bad # {} PROVE FALSE
      OBVIOUS
    <3>1. PICK k \in bad : \A l \in bad : k <= l
      <4>1. bad \in SUBSET Nat
        BY <1>0
      <4> HIDE DEF bad
      <4> QED
        BY <4>1, NatMin
    <3>2. k \in 1 .. n /\ ~P(k) /\ n \in Nat
      BY <1>0
    <3>3. s[k] \in Seq(T)
      BY <1>0, <3>2
    <3>4. CASE k = 1
      <4> DEFINE g == [i \in 1 .. 1 |-> s[1]]
      <4>1. g \in [1 .. 1 -> Seq(T)] /\ \A i \in 1 .. 1 : g[i] = E(g, i)
        BY <3>3, <3>4
      <4> QED
        BY <3>2, <3>4, <4>1
    <3>5. CASE k # 1
      <4>1. k - 1 \in 1 .. n /\ k - 1 < k /\ k \in Nat
        BY <3>2, <3>5
      <4>2. P(k - 1)
        <5> HIDE DEF P
        <5>1. k - 1 \notin bad
          BY <3>1, <4>1
        <5> QED
          BY <4>1, <5>1
      <4>3. PICK g \in [1 .. k - 1 -> Seq(T)] : \A i \in 1 .. k - 1 : g[i] = E(g, i)
        BY <4>2
      <4> DEFINE h == [i \in 1 .. k |-> IF i = k THEN g[k - 1] \o s[k] ELSE g[i]]
      <4>4. g[k - 1] \in Seq(T)
        BY <4>1, <4>3
      <4>5. g[k - 1] \o s[k] \in Seq(T)
        BY <3>3, <4>4, Concatenated
      <4>6. h \in [1 .. k -> Seq(T)]
        BY <4>1, <4>5
      <4>7. ASSUME NEW i \in 1 .. k PROVE h[i] = E(h, i)
        <5>1. CASE i = k
          <6>0. k \in 1 .. k /\ k - 1 \in 1 .. k /\ k - 1 # k
            BY <4>1
          <6>1. h[k] = g[k - 1] \o s[k] /\ h[k - 1] = g[k - 1]
            BY <6>0
          <6> HIDE DEF h
          <6> QED
            BY <3>5, <5>1, <6>1
        <5>2. CASE i # k
          <6>1. i \in 1 .. k - 1 /\ (i # 1 => i - 1 \in 1 .. k - 1 /\ i - 1 \in 1 .. k /\ i - 1 # k)
            BY <4>1, <5>2
          <6>2. h[i] = g[i] /\ (i # 1 => h[i - 1] = g[i - 1])
            BY <5>2, <6>1
          <6>3. g[i] = E(g, i)
            BY <4>3, <6>1
          <6> HIDE DEF h
          <6> QED
            BY <6>2, <6>3
        <5> QED
          BY <5>1, <5>2
      <4>8. P(k)
        <5> HIDE DEF h
        <5> QED
          BY <4>6, <4>7
      <4> QED
        BY <3>2, <4>8
    <3> QED
      BY <3>4, <3>5
  <2>2. n \in 1 .. n
    BY <1>0, <1>2
  <2>3. PICK g \in [1 .. n -> Seq(T)] : \A i \in 1 .. n : g[i] = E(g, i)
    <3>1. P(n)
      <4> HIDE DEF P
      <4> QED
        BY <2>1, <2>2
    <3> QED
      BY <3>1
  <2> DEFINE flatten[i \in 1 .. Len(s)] == E(flatten, i)
  <2>4. flatten = [i \in 1 .. Len(s) |-> E(flatten, i)]
    <3>1. g = [i \in 1 .. Len(s) |-> E(g, i)]
      <4> HIDE DEF E
      <4> QED
        BY <2>3
    <3> HIDE DEF E
    <3> QED
      BY <3>1, Zenon DEF flatten
  <2>5. FlattenSeq(s) = flatten[n]
    BY <1>2 DEF FlattenSeq
  <2>6. \A i \in 1 .. n : flatten[i] = E(flatten, i)
    <3> HIDE DEF flatten, E
    <3> QED
      BY <2>4
  <2> HIDE DEF flatten
  <2> DEFINE Right(i) == /\ flatten[i] \in Seq(T)
                         /\ (\A j \in 1 .. n : Len(s[j]) = 1) =>
                               /\ Len(flatten[i]) = i
                               /\ \A j \in 1 .. i : flatten[i][j] = s[j][1]
             wrong == {i \in 1 .. n : ~Right(i)}
  <2>7. wrong = {}
    <3> SUFFICES ASSUME wrong # {} PROVE FALSE
      OBVIOUS
    <3>1. PICK i \in wrong : \A j \in wrong : i <= j
      <4>1. wrong \in SUBSET Nat
        BY <1>0
      <4> HIDE DEF wrong
      <4> QED
        BY <4>1, NatMin
    <3>2. i \in 1 .. n /\ ~Right(i) /\ n \in Nat
      <4> HIDE DEF Right
      <4> QED
        BY <1>0
    <3>3. s[i] \in Seq(T)
      BY <1>0, <3>2
    <3>4. CASE i = 1
      <4>1. flatten[1] = s[1]
        BY <2>6, <3>2, <3>4
      <4> QED
        BY <3>2, <3>3, <3>4, <4>1
    <3>5. CASE i # 1
      <4>1. i - 1 \in 1 .. n /\ i - 1 < i /\ i \in Nat
        BY <3>2, <3>5
      <4>2. Right(i - 1)
        <5> HIDE DEF Right
        <5>1. i - 1 \notin wrong
          BY <3>1, <4>1
        <5> QED
          BY <4>1, <5>1
      <4> DEFINE a == flatten[i - 1]
      <4>3. flatten[i] = a \o s[i] /\ a \in Seq(T)
        BY <2>6, <3>2, <3>5, <4>2
      <4>4. flatten[i] \in Seq(T)
        BY <3>3, <4>3, Concatenated
      <4>5. ASSUME \A j \in 1 .. n : Len(s[j]) = 1
            PROVE  Len(flatten[i]) = i /\ \A j \in 1 .. i : flatten[i][j] = s[j][1]
        <5>1. Len(a) = i - 1 /\ \A j \in 1 .. i - 1 : a[j] = s[j][1]
          BY <4>2, <4>5
        <5>2. Len(s[i]) = 1
          BY <3>2, <4>5
        <5> HIDE DEF a
        <5>3. /\ Len(a \o s[i]) = Len(a) + Len(s[i])
              /\ \A j \in 1 .. Len(a) : (a \o s[i])[j] = a[j]
              /\ (a \o s[i])[Len(a) + 1] = s[i][1]
          <6>1. a \in Seq(T)
            BY <4>3
          <6> DEFINE b == s[i]
          <6>2. b \in Seq(T) /\ Len(b) = 1
            BY <3>3, <5>2
          <6> HIDE DEF b
          <6>3. Len(a \o b) = Len(a) + Len(b)
            <7>1. \A x, y \in Seq(T) : Len(x \o y) = Len(x) + Len(y)
              BY Concatenated
            <7> QED
              BY <6>1, <6>2, <7>1, Zenon
          <6>4. \A j \in 1 .. Len(a) : (a \o b)[j] = a[j]
            BY <6>1, <6>2, Concatenated
          <6>5. (a \o b)[Len(a) + 1] = b[1]
            BY <6>1, <6>2, Concatenated
          <6> QED
            BY <6>3, <6>4, <6>5 DEF b
        <5>4. Len(a) + 1 = i
          BY <4>1, <5>1
        <5>5. Len(flatten[i]) = i
          BY <4>1, <4>3, <5>1, <5>2, <5>3
        <5>6. ASSUME NEW j \in 1 .. i PROVE flatten[i][j] = s[j][1]
          <6>1. CASE j = i
            BY <4>3, <5>3, <5>4, <6>1
          <6>2. CASE j # i
            <7>1. j \in 1 .. i - 1
              BY <4>1, <6>2
            <7> QED
              BY <4>3, <5>1, <5>3, <7>1
          <6> QED
            BY <6>1, <6>2
        <5> QED
          BY <5>5, <5>6
      <4> QED
        BY <3>2, <4>4, <4>5
    <3> QED
      BY <3>4, <3>5
  <2>8. Right(n)
    <3> HIDE DEF Right
    <3> QED
      BY <2>2, <2>7
  <2> QED
    BY <1>0, <2>5, <2>8
<1> QED
  BY <1>1, <1>2
----------------------------------------------------------------------------
(* Values and their types.                                                 *)
Variant == [type : Variants, val : Nat]
GivenTypes == {"Int", "QString", "Double", "Bool", "VoidStar", "QStringList", "Invalid"}
FromRuby == {v \in [type : GivenTypes, val : Nat] : v.type = "VoidStar" => Word[v.val] \in Nat}
MetaTypes == {"Unknown", "LongLong", "VoidStar", "QVariant", "QChar", "Int", "QString"}

LEMMA FromRubyVariant == FromRuby \subseteq Variant
BY DEF FromRuby, Variant, GivenTypes, Variants

LEMMA MapSeq ==
    ASSUME NEW n \in Nat, NEW T, NEW f, f \in [1 .. n -> T]
    PROVE  f \in Seq(T) /\ Len(f) = n
OBVIOUS

LEMMA SeqSubset ==
    ASSUME NEW T, NEW U, T \subseteq U, NEW s \in Seq(T)
    PROVE  s \in Seq(U)
<1>1. Len(s) \in Nat /\ DOMAIN s = 1 .. Len(s) /\ \A i \in DOMAIN s : s[i] \in T
  BY InSeq
<1>2. s \in [1 .. Len(s) -> U]
  BY <1>1
<1> QED
  BY <1>1, <1>2, MapSeq

(* Marshalling.                                                            *)
LEMMA ValueOfRuby ==
    ASSUME NEW argv \in Argvs, NEW i \in DOMAIN argv
    PROVE  /\ VALUE2Variant(argv[i]) \in FromRuby
           /\ VALUE2Variant2(argv[i]) \in Seq(FromRuby)
<1> DEFINE v == argv[i]
<1>1. /\ v.val \in Nat /\ (v.t = "Range" => v.last \in Nat)
      /\ v.t = "T_OBJECT" => Word[v.val] \in Nat
  BY CallAssumption DEF Range
<1> HIDE DEF v
<1>2. VALUE2Variant(v) \in FromRuby
  <2>1. CASE v.t \in DOMAIN VariantOf
    <3>1. /\ VariantOf[v.t] \in GivenTypes
          /\ VariantOf[v.t] = "VoidStar" => v.t = "T_OBJECT"
      BY <2>1 DEF VariantOf, GivenTypes
    <3>2. VALUE2Variant(v) = [type |-> VariantOf[v.t], val |-> v.val]
      BY <2>1 DEF VALUE2Variant
    <3> QED
      BY <1>1, <3>1, <3>2 DEF FromRuby
  <2>2. CASE v.t \notin DOMAIN VariantOf
    BY <2>2 DEF VALUE2Variant, Invalid, FromRuby, GivenTypes
  <2> QED
    BY <2>1, <2>2
<1>3. VALUE2Variant2(v) \in Seq(FromRuby)
  <2>1. CASE v.t = "Range"
    <3> DEFINE a == [type |-> "Int", val |-> v.val]
               b == [type |-> "Int", val |-> v.last]
    <3>1. a \in FromRuby /\ b \in FromRuby
      BY <1>1, <2>1 DEF FromRuby, GivenTypes
    <3>2. VALUE2Variant2(v) = <<a, b>>
      BY <2>1 DEF VALUE2Variant2
    <3> HIDE DEF a, b
    <3> QED
      BY <3>1, <3>2
  <2>2. CASE v.t # "Range"
    BY <1>2, <2>2 DEF VALUE2Variant2
  <2> QED
    BY <2>1, <2>2
<1> QED
  BY <1>2, <1>3 DEF v

LEMMA UserArgsType ==
    ASSUME NEW r, r.argv \in Argvs
    PROVE  UserArgs(r) \in Seq(FromRuby)
<1>1. Len(r.argv) \in Nat /\ DOMAIN r.argv = 1 .. Len(r.argv)
  BY CallAssumption, SeqIs
<1>2. CASE r.op = "new"
  <2> DEFINE f == [i \in DOMAIN r.argv |-> VALUE2Variant(r.argv[i])]
  <2>1. f \in [1 .. Len(r.argv) -> FromRuby]
    BY <1>1, ValueOfRuby
  <2>2. UserArgs(r) = f
    BY <1>2 DEF UserArgs
  <2> HIDE DEF f
  <2> QED
    BY <1>1, <2>1, <2>2, MapSeq
<1>3. CASE r.op # "new"
  <2> DEFINE f == [i \in DOMAIN r.argv |-> VALUE2Variant2(r.argv[i])]
  <2>1. f \in [1 .. Len(r.argv) -> Seq(FromRuby)]
    BY <1>1, ValueOfRuby
  <2>2. UserArgs(r) = FlattenSeq(f)
    BY <1>3 DEF UserArgs
  <2> HIDE DEF f
  <2>3. f \in Seq(Seq(FromRuby))
    BY <1>1, <2>1, MapSeq
  <2> QED
    BY <2>2, <2>3, Flattened
<1> QED
  BY <1>2, <1>3

(* The choice among a class's constructors.                                *)
LEMMA AtMostOne ==
    ASSUME NEW S, IsFiniteSet(S), Cardinality(S) <= 1, NEW i \in S, NEW j \in S
    PROVE  i = j
<1>1. /\ IsFiniteSet(S \ {i}) /\ Cardinality(S \ {i}) = Cardinality(S) - 1
      /\ Cardinality(S) \in Nat /\ Cardinality(S \ {i}) \in Nat
  BY FS_RemoveElement, FS_CardinalityType
<1>2. Cardinality(S \ {i}) = 0
  BY <1>1
<1>3. S \ {i} = {}
  BY <1>1, <1>2, FS_EmptySet
<1> QED
  BY <1>3

LEMMA CtorFound ==
    ASSUME NEW c \in Records, NEW ua, Len(ua) \in Nat
    PROVE  LET r == find_ctor_decl(c, ua)
               M == Matches(c, c, FALSE, ua)
               Short(i) == Decls[c][i].defaulted \/ Len(Decls[c][i].params) < Len(ua)
           IN  /\ r = NULL => M = {}
               /\ r = CRASH => (ua = <<>> /\ Cardinality(M) > 1) \/ \A i \in M : Short(i)
               /\ r \notin {NULL, CRASH} =>
                     \E i \in M : /\ r = <<c, i>>
                                  /\ Len(Decls[c][i].params) < Len(ua) => \A j \in M : Short(j)
<1> DEFINE r == find_ctor_decl(c, ua)
           M == Matches(c, c, FALSE, ua)
           Short(i) == Decls[c][i].defaulted \/ Len(Decls[c][i].params) < Len(ua)
           Own == {i \in M : ~Decls[c][i].defaulted}
           left == IF Cardinality(M) > 1 THEN resolve_callee_decl(c, M, ua) ELSE M
<1>1. r = IF M = {} THEN NULL ELSE IF left = {} THEN CRASH ELSE <<c, Min(left)>>
  BY DEF find_ctor_decl
<1>2. /\ M \in SUBSET Nat /\ IsFiniteSet(M) /\ M \subseteq DOMAIN Decls[c]
      /\ \A i \in M : Len(Decls[c][i].params) \in Nat
  <2>1. Len(Decls[c]) \in Nat /\ DOMAIN Decls[c] = 1 .. Len(Decls[c])
    BY DeclAssumption, SeqIs
  <2>2. IsFiniteSet(1 .. Len(Decls[c]))
    BY <2>1, FS_Interval
  <2>3. M \subseteq DOMAIN Decls[c]
    BY DEF Matches
  <2>4. IsFiniteSet(M)
    BY <2>1, <2>2, <2>3, FS_Subset
  <2>5. \A i \in DOMAIN Decls[c] : Len(Decls[c][i].params) \in Nat
    BY DeclAssumption, SeqIs
  <2> HIDE DEF M
  <2>6. M \in SUBSET Nat
    BY <2>1, <2>3
  <2> QED
    BY <2>3, <2>4, <2>5, <2>6
<1>3. left \subseteq M
  BY DEF resolve_callee_decl
<1>4. left # {} => Min(left) \in left
  <2>1. left \in SUBSET Nat
    BY <1>2, <1>3
  <2> HIDE DEF left
  <2> QED
    BY <2>1, MinIs
<1>5. ASSUME left = {}, M # {}
      PROVE  (ua = <<>> /\ Cardinality(M) > 1) \/ \A i \in M : Short(i)
  <2>1. Cardinality(M) > 1
    BY <1>5
  <2> HIDE DEF M
  <2>2. CASE ua = <<>>
    BY <2>1, <2>2
  <2>3. CASE ua # <<>>
    <3>1. CASE Cardinality(Own) <= 1
      <4>1. left = Own
        BY <2>1, <2>3, <3>1 DEF resolve_callee_decl
      <4> QED
        BY <1>5, <4>1
    <3>2. CASE ~(Cardinality(Own) <= 1)
      <4>1. left = {i \in Own : Len(Decls[c][i].params) >= Len(ua)}
        BY <2>1, <2>3, <3>2 DEF resolve_callee_decl
      <4> QED
        BY <1>2, <1>5, <4>1
    <3> QED
      BY <3>1, <3>2
  <2> QED
    BY <2>2, <2>3
<1>6. ASSUME NEW i \in left, Len(Decls[c][i].params) < Len(ua), NEW j \in M
      PROVE  Short(j)
  <2>1. CASE ~(Cardinality(M) > 1)
    <3>1. Cardinality(M) <= 1
      <4>1. Cardinality(M) \in Nat
        BY <1>2, FS_CardinalityType
      <4> HIDE DEF M
      <4> QED
        BY <2>1, <4>1
    <3>2. i = j
      BY <1>2, <1>3, <3>1, AtMostOne
    <3> QED
      BY <1>6, <3>2
  <2>2. CASE Cardinality(M) > 1
    <3> HIDE DEF M
    <3>1. CASE ua = <<>>
      <4>1. Cardinality({}) = 0
        BY FS_EmptySet
      <4>2. left = {}
        BY <2>2, <3>1, <4>1 DEF resolve_callee_decl
      <4> QED
        BY <4>2
    <3>2. CASE ua # <<>> /\ Cardinality(Own) <= 1
      <4>1. left = Own
        BY <2>2, <3>2 DEF resolve_callee_decl
      <4>2. IsFiniteSet(Own)
        BY <1>2, FS_Subset
      <4>3. j \in Own => i = j
        <5> HIDE DEF Own, left
        <5> QED
          BY <3>2, <4>1, <4>2, AtMostOne
      <4> QED
        BY <1>6, <4>3
    <3>3. CASE ua # <<>> /\ ~(Cardinality(Own) <= 1)
      <4>1. left = {l \in Own : Len(Decls[c][l].params) >= Len(ua)}
        BY <2>2, <3>3 DEF resolve_callee_decl
      <4>2. i \in Own /\ Len(Decls[c][i].params) >= Len(ua)
        BY <4>1
      <4> QED
        BY <1>2, <1>6, <4>2
    <3> QED
      BY <3>1, <3>2, <3>3
  <2> QED
    BY <2>1, <2>2
<1>7. left # {} => <<c, Min(left)>> \notin {NULL, CRASH}
  <2> HIDE DEF left, M
  <2> QED
    BY <1>2, <1>3, <1>4, PairIs
<1> HIDE DEF left, M, Short
<1>8. r = NULL => M = {}
  BY <1>1, <1>7, DeclAssumption
<1>9. r = CRASH => (ua = <<>> /\ Cardinality(M) > 1) \/ \A i \in M : Short(i)
  BY <1>1, <1>5, <1>7, DeclAssumption
<1>10. r \notin {NULL, CRASH} =>
          \E i \in M : r = <<c, i>> /\ (Len(Decls[c][i].params) < Len(ua) => \A j \in M : Short(j))
  BY <1>1, <1>3, <1>4, <1>6
<1> QED
  BY <1>8, <1>9, <1>10 DEF M, Short
----------------------------------------------------------------------------
(* The inductive invariant: what each step left, from the request on.      *)
Answer ==
    IF req.op = "new"
    THEN IF req.klass \in Records THEN find_ctor_decl(req.klass, Given) ELSE CRASH
    ELSE find_method_decl(req.klass, req.method, req.op = "static", Given)
Passed ==
    [i \in DOMAIN Given |->
        IF req.op = "call" /\ i \in DOMAIN Params /\ ByValue(Params[i], Given[i])
        THEN [type |-> "Int", val |-> Word[Given[i].val]] ELSE Given[i]]
Defaults == FlattenSeq([i \in DOMAIN Params |-> DpsOf(Params[i])])
DefaultTypes == FlattenSeq([i \in DOMAIN Params |-> MtdOf(Params[i])])
Converted == FlattenSeq([i \in 1 .. LastArg |-> IRValue(i, Merged[i])])

Asked == (\E c \in Called : req = Request(c, req.argv)) /\ req.argv \in Argvs
Typed ==
    /\ pc \in {"marshal", "find", "defaults", "replace", "convert", "call", "crash"}
    /\ uargs \in Seq(Variant) /\ dps \in Seq(Variant) /\ cargs \in Seq(Variant)
    /\ mtdargs \in Seq(MetaTypes)
Answered ==
    /\ Searched => decl = Answer
    /\ ~Searched => decl = NULL
    /\ pc \in {"defaults", "replace", "convert", "call"} => Found
Carried ==
    /\ pc \in {"find", "defaults", "replace"} => uargs = Given
    /\ pc \in {"convert", "call"} => uargs = Passed
    /\ pc \in {"replace", "convert", "call"} => dps = Defaults /\ mtdargs = DefaultTypes
    /\ pc = "replace" => req.op = "call"
    /\ pc = "call" => cargs = Converted
ArgsInv == Asked /\ Typed /\ Answered /\ Carried

LEMMA AskedIs ==
    ASSUME Asked
    PROVE  /\ req.op \in {"new", "call", "static"} /\ req.klass \in Names
           /\ req.op = "new" => req.method = req.klass
           /\ Given \in Seq(FromRuby)
<1>1. PICK c \in Called : req = Request(c, req.argv)
  BY DEF Asked
<1>2. req.op = c.op /\ req.klass = c.klass /\ req.method = c.method
  BY <1>1 DEF Request
<1>3. /\ c.op \in {"new", "call", "static"} /\ c.klass \in Names
      /\ c.op = "new" => c.method = c.klass
  BY CallAssumption
<1>4. Given \in Seq(FromRuby)
  BY UserArgsType DEF Given, Asked
<1> QED
  BY <1>2, <1>3, <1>4

LEMMA NewMatches ==
    ASSUME NEW c, NEW name, NEW ua, req.op = "new"
    PROVE  Matches(c, name, req.op = "static", ua) = Matches(c, name, FALSE, ua)
BY DEF Matches

(* A declaration that was found takes the arguments.                       *)
LEMMA AnswerIs ==
    ASSUME Asked, Answer \notin {NULL, CRASH}
    PROVE  \E c \in Records \cap Above[req.klass] :
              \E i \in Matches(c, req.method, req.op = "static", Given) : Answer = <<c, i>>
<1>0. Len(Given) \in Nat
  BY AskedIs, InSeq
<1>1. CASE req.op = "new"
  <2>1. req.klass \in Records /\ Answer = find_ctor_decl(req.klass, Given)
    BY <1>1 DEF Answer
  <2>2. PICK i \in Matches(req.klass, req.klass, FALSE, Given) : Answer = <<req.klass, i>>
    BY <1>0, <2>1, CtorFound
  <2>3. req.klass \in Names /\ req.method = req.klass
    BY <1>1, AskedIs
  <2>4. i \in Matches(req.klass, req.method, req.op = "static", Given)
    BY <1>1, <2>3, NewMatches
  <2>5. req.klass \in Above[req.klass]
    BY <2>3, AboveIs
  <2> QED
    BY <2>1, <2>2, <2>4, <2>5
<1>2. CASE req.op # "new"
  <2>1. Answer = find_method_decl(req.klass, req.method, req.op = "static", Given)
    BY <1>2 DEF Answer
  <2>2. req.klass \in Names
    BY AskedIs
  <2> QED
    BY <2>1, <2>2, FindFound
<1> QED
  BY <1>1, <1>2

LEMMA FoundIs ==
    ASSUME Asked, Answered, Found
    PROVE  \E c \in Records : \E i \in DOMAIN Decls[c] :
              /\ decl = <<c, i>> /\ Params = Decls[c][i].params
              /\ Viable(Decls[c][i], Given)
              /\ Params \in Seq(Range(Params))
              /\ \A p \in Range(Params) :
                    /\ p.cat \in Categories /\ p.default \in DefaultForms /\ p.value \in Nat
                    /\ p.default \in {"null", "QVariant()"} => p.value = 0
<1>1. decl = Answer /\ Answer \notin {NULL, CRASH}
  BY DEF Answered, Found
<1>2. PICK c \in Records :
         \E i \in Matches(c, req.method, req.op = "static", Given) : Answer = <<c, i>>
  BY <1>1, AnswerIs
<1>3. PICK i \in Matches(c, req.method, req.op = "static", Given) : Answer = <<c, i>>
  BY <1>2
<1>4. i \in DOMAIN Decls[c] /\ Viable(Decls[c][i], Given)
  BY <1>3 DEF Matches
<1>5. Params = Decls[c][i].params
  BY <1>1, <1>3 DEF Params
<1>6. /\ IsSeq(Decls[c][i].params)
      /\ \A p \in Range(Decls[c][i].params) :
            /\ p.cat \in Categories /\ p.default \in DefaultForms /\ p.value \in Nat
            /\ p.default \in {"null", "QVariant()"} => p.value = 0
  BY <1>4, DeclAssumption
<1> QED
  BY <1>1, <1>3, <1>4, <1>5, <1>6 DEF IsSeq

(* The defaults.                                                           *)
LEMMA EvalCleanupIs ==
    \A form \in Temporaries :
        /\ EvalCleanup(form) \in Variant
        /\ EvalCleanup(form).type \in {"QChar", "VoidStar", "Int", "QString"}
<1> TAKE form \in Temporaries
<1> DEFINE m == Mark
<1>1. m \in Nat /\ 32 \in Nat
  BY SMT DEF Mark
<1> HIDE DEF m
<1>2. CASE form = "QChar()"
  <2>1. EvalCleanup(form) = [type |-> "QChar", val |-> 32]
    BY <1>2 DEF EvalCleanup
  <2> QED
    BY <1>1, <2>1 DEF Variant, Variants
<1>3. CASE form = "QFlags()"
  <2>1. EvalCleanup(form) = [type |-> "VoidStar", val |-> m]
    BY <1>3 DEF EvalCleanup, m
  <2> QED
    BY <1>1, <2>1 DEF Variant, Variants
<1>4. CASE form = "temporary"
  <2>1. EvalCleanup(form) = [type |-> "Int", val |-> m]
    BY <1>4 DEF EvalCleanup, m
  <2> QED
    BY <1>1, <2>1 DEF Variant, Variants
<1>5. CASE form = "invalid eval"
  <2>1. EvalCleanup(form) = [type |-> "QString", val |-> m]
    BY <1>5 DEF EvalCleanup, m
  <2> QED
    BY <1>1, <2>1 DEF Variant, Variants
<1> QED
  BY <1>2, <1>3, <1>4, <1>5 DEF Temporaries

LEMMA MtdOfIs ==
    ASSUME NEW p, p.default \in DefaultForms
    PROVE  IF p.default \in {"construct", "constant"} THEN MtdOf(p) = <<>>
           ELSE \E v \in MetaTypes : MtdOf(p) = <<v>> /\ (v = "QVariant" <=> p.default = "QVariant()")
<1>1. CASE p.default \in Temporaries
  <2>1. MtdOf(p) = <<EvalCleanup(p.default).type>>
    BY <1>1 DEF MtdOf, Temporaries
  <2>2. EvalCleanup(p.default).type \in {"QChar", "VoidStar", "Int", "QString"}
    BY <1>1, EvalCleanupIs
  <2> QED
    BY <1>1, <2>1, <2>2 DEF MetaTypes, Temporaries
<1>2. CASE p.default \notin Temporaries
  BY <1>2 DEF MtdOf, DefaultForms, MetaTypes
<1> QED
  BY <1>1, <1>2

LEMMA DefaultsType ==
    ASSUME Asked, Answered, Found
    PROVE  Defaults \in Seq(Variant) /\ DefaultTypes \in Seq(MetaTypes)
<1> DEFINE n == Len(Params)
           f == [i \in DOMAIN Params |-> DpsOf(Params[i])]
           g == [i \in DOMAIN Params |-> MtdOf(Params[i])]
<1>1. Params \in Seq(Range(Params))
  BY FoundIs
<1>2. n \in Nat /\ DOMAIN Params = 1 .. n
  BY <1>1, InSeq
<1>3. ASSUME NEW i \in 1 .. n
      PROVE  DpsOf(Params[i]) \in Seq(Variant) /\ MtdOf(Params[i]) \in Seq(MetaTypes)
  <2> DEFINE p == Params[i]
  <2>1. p \in Range(Params)
    BY <1>2 DEF Range
  <2>2. p.default \in DefaultForms /\ p.value \in Nat
    BY <2>1, FoundIs
  <2> HIDE DEF p
  <2>3. \A v \in Nat : /\ [type |-> "LongLong", val |-> v] \in Variant
                       /\ [type |-> "EvalType", val |-> v] \in Variant
                       /\ [type |-> "VoidStar", val |-> v] \in Variant
                       /\ [type |-> "Int", val |-> v] \in Variant
                       /\ [type |-> "Invalid", val |-> v] \in Variant
    BY DEF Variant, Variants
  <2>4. DpsOf(p) \in Seq(Variant)
    <3>1. \A v \in Variant : <<v>> \in Seq(Variant)
      OBVIOUS
    <3>2. <<>> \in Seq(Variant)
      OBVIOUS
    <3>3. CASE p.default = "integer"
      BY <2>2, <2>3, <3>1, <3>3 DEF DpsOf, Temporaries
    <3>4. CASE p.default = "construct"
      BY <2>2, <2>3, <3>1, <3>4 DEF DpsOf, Temporaries
    <3>5. CASE p.default \in {"null", "none", "QVariant()"}
      BY <2>2, <2>3, <3>1, <3>5 DEF DpsOf, Temporaries, Invalid
    <3>7. CASE p.default \in Temporaries
      <4>1. DpsOf(p) = <<EvalCleanup(p.default)>>
        BY <3>7 DEF DpsOf, Temporaries
      <4> QED
        BY <3>1, <3>7, <4>1, EvalCleanupIs
    <3>6. CASE p.default = "constant"
      BY <3>2, <3>6 DEF DpsOf, Temporaries
    <3> QED
      BY <2>2, <3>3, <3>4, <3>5, <3>6, <3>7 DEF DefaultForms
  <2>5. MtdOf(p) \in Seq(MetaTypes)
    <3>1. \A v \in MetaTypes : <<v>> \in Seq(MetaTypes)
      OBVIOUS
    <3>2. <<>> \in Seq(MetaTypes)
      OBVIOUS
    <3>3. \/ MtdOf(p) = <<>>
          \/ \E v \in MetaTypes : MtdOf(p) = <<v>>
      BY <2>2, MtdOfIs
    <3> QED
      BY <3>1, <3>2, <3>3
  <2> QED
    BY <2>4, <2>5 DEF p
<1>4. f \in [1 .. n -> Seq(Variant)] /\ g \in [1 .. n -> Seq(MetaTypes)]
  BY <1>2, <1>3
<1> HIDE DEF f, g
<1>5. f \in Seq(Seq(Variant)) /\ g \in Seq(Seq(MetaTypes))
  BY <1>2, <1>4, MapSeq
<1>6. FlattenSeq(f) \in Seq(Variant) /\ FlattenSeq(g) \in Seq(MetaTypes)
  BY <1>5, Flattened
<1> QED
  BY <1>6 DEF f, g, Defaults, DefaultTypes

(* The arguments as replaced, merged and converted.                        *)
LEMMA PassedType ==
    ASSUME Asked
    PROVE  Passed \in Seq(Variant) /\ Len(Passed) = Len(Given) /\ DOMAIN Passed = DOMAIN Given
<1>1. Given \in Seq(FromRuby)
  BY AskedIs
<1>2. Len(Given) \in Nat /\ DOMAIN Given = 1 .. Len(Given) /\ \A i \in DOMAIN Given : Given[i] \in FromRuby
  BY <1>1, InSeq
<1>3. ASSUME NEW i \in DOMAIN Given PROVE Passed[i] \in Variant
  <2> DEFINE v == Given[i]
  <2>1. v \in FromRuby /\ v \in Variant
    BY <1>2, FromRubyVariant
  <2>2. CASE req.op = "call" /\ i \in DOMAIN Params /\ ByValue(Params[i], v)
    <3>1. Word[v.val] \in Nat
      BY <2>1, <2>2 DEF ByValue, FromRuby
    <3>2. Passed[i] = [type |-> "Int", val |-> Word[v.val]]
      BY <2>2 DEF Passed
    <3> QED
      BY <3>1, <3>2 DEF Variant, Variants
  <2>3. CASE ~(req.op = "call" /\ i \in DOMAIN Params /\ ByValue(Params[i], v))
    BY <2>1, <2>3 DEF Passed
  <2> QED
    BY <2>2, <2>3
<1>4. Passed \in [1 .. Len(Given) -> Variant]
  BY <1>2, <1>3 DEF Passed
<1>5. DOMAIN Passed = DOMAIN Given
  BY DEF Passed
<1> QED
  BY <1>2, <1>4, <1>5, MapSeq

LEMMA MergedType ==
    ASSUME uargs \in Seq(Variant), dps \in Seq(Variant)
    PROVE  /\ DOMAIN Merged = 1 .. Len(dps) /\ Len(dps) \in Nat
           /\ \A i \in 1 .. Len(dps) : Merged[i] \in Variant
           /\ LastArg \in Nat /\ LastArg <= Len(dps)
<1>1. /\ Len(uargs) \in Nat /\ DOMAIN uargs = 1 .. Len(uargs)
      /\ Len(dps) \in Nat /\ DOMAIN dps = 1 .. Len(dps)
  BY InSeq
<1>2. \A i \in 1 .. Len(uargs) : uargs[i] \in Variant
  BY InSeq
<1>3. \A i \in 1 .. Len(dps) : dps[i] \in Variant
  BY InSeq
<1>4. \A i \in 1 .. Len(dps) : Merged[i] \in Variant
  BY <1>1, <1>2, <1>3 DEF Merged
<1>5. LastArg \in Nat /\ LastArg <= Len(dps)
  <2> DEFINE qv == {i \in DOMAIN dps \cap DOMAIN mtdargs : mtdargs[i] = "QVariant"}
  <2>1. qv \in SUBSET Nat /\ qv \subseteq 1 .. Len(dps)
    BY <1>1
  <2>2. LastArg = IF qv = {} THEN Len(dps) ELSE Min(qv)
    BY DEF LastArg
  <2> HIDE DEF qv
  <2>3. qv # {} => Min(qv) \in 1 .. Len(dps)
    BY <2>1, MinIs
  <2> QED
    BY <1>1, <2>2, <2>3
<1>6. DOMAIN Merged = DOMAIN dps
  BY DEF Merged
<1> QED
  BY <1>1, <1>4, <1>5, <1>6

LEMMA IRValueType ==
    ASSUME NEW i, NEW v \in Variant
    PROVE  IRValue(i, v) \in Seq(Variant)
<1>1. v.type \in Variants /\ v.val \in Nat
  BY DEF Variant
<1>2. [type |-> "QVariant", val |-> v.val] \in Variant /\ [type |-> "Int", val |-> 0] \in Variant
  BY <1>1 DEF Variant, Variants
<1>3. \A x \in Variant : <<x>> \in Seq(Variant)
  OBVIOUS
<1>4. <<>> \in Seq(Variant)
  OBVIOUS
<1>5. \/ IRValue(i, v) = <<>> \/ IRValue(i, v) = <<v>>
      \/ IRValue(i, v) = <<[type |-> "QVariant", val |-> v.val]>>
      \/ IRValue(i, v) = <<[type |-> "Int", val |-> 0]>>
  BY DEF IRValue
<1> QED
  BY <1>2, <1>3, <1>4, <1>5

LEMMA ConvertedType ==
    ASSUME uargs \in Seq(Variant), dps \in Seq(Variant)
    PROVE  Converted \in Seq(Variant)
<1> DEFINE f == [i \in 1 .. LastArg |-> IRValue(i, Merged[i])]
<1>1. LastArg \in Nat /\ \A i \in 1 .. LastArg : Merged[i] \in Variant
  BY MergedType
<1>2. f \in [1 .. LastArg -> Seq(Variant)]
  BY <1>1, IRValueType
<1> HIDE DEF f
<1>3. f \in Seq(Seq(Variant))
  BY <1>1, <1>2, MapSeq
<1>4. FlattenSeq(f) \in Seq(Variant)
  BY <1>3, Flattened
<1> QED
  BY <1>4 DEF f, Converted
----------------------------------------------------------------------------
(* Each step keeps the invariant.                                          *)
LEMMA SameRequest ==
    ASSUME req' = req
    PROVE  /\ Given' = Given /\ Answer' = Answer /\ (Asked => Asked')
           /\ decl' = decl => Params' = Params /\ Passed' = Passed
                              /\ Defaults' = Defaults /\ DefaultTypes' = DefaultTypes
<1>1. Given' = Given
  BY DEF Given
<1>2. Answer' = Answer
  BY <1>1 DEF Answer
<1>3. Asked => Asked'
  BY DEF Asked
<1>4. ASSUME decl' = decl
      PROVE  /\ Params' = Params /\ Passed' = Passed
             /\ Defaults' = Defaults /\ DefaultTypes' = DefaultTypes
  <2>1. Params' = Params
    BY <1>4 DEF Params
  <2> QED
    BY <1>1, <2>1 DEF Passed, Defaults, DefaultTypes
<1> QED
  BY <1>1, <1>2, <1>3, <1>4

LEMMA InitArgs == Init => ArgsInv
<1> SUFFICES ASSUME Init PROVE ArgsInv
  OBVIOUS
<1>1. PICK c \in Called, argv \in Argvs : req = Request(c, argv)
  BY DEF Init
<1>2. Asked
  BY <1>1 DEF Asked, Request
<1>3. Typed
  <2>1. pc = "marshal" /\ uargs = <<>> /\ dps = <<>> /\ mtdargs = <<>> /\ cargs = <<>>
    BY DEF Init
  <2>2. <<>> \in Seq(Variant) /\ <<>> \in Seq(MetaTypes)
    OBVIOUS
  <2> QED
    BY <2>1, <2>2 DEF Typed
<1>4. Answered /\ Carried
  BY DEF Init, Answered, Carried, Searched
<1> QED
  BY <1>2, <1>3, <1>4 DEF ArgsInv

LEMMA MarshalKeeps == ASSUME ArgsInv, Marshal PROVE ArgsInv'
<1>1. /\ pc = "marshal" /\ pc' = "find" /\ uargs' = Given
      /\ UNCHANGED <<req, decl, dps, mtdargs, cargs>>
  BY DEF Marshal, Given
<1>2. Asked' /\ Given' = Given
  BY <1>1, SameRequest DEF ArgsInv
<1>3. Given \in Seq(Variant)
  BY AskedIs, FromRubyVariant, SeqSubset DEF ArgsInv
<1>4. Typed'
  BY <1>1, <1>3 DEF ArgsInv, Typed
<1>5. Answered' /\ Carried'
  BY <1>1, <1>2 DEF ArgsInv, Answered, Carried, Searched
<1> QED
  BY <1>2, <1>4, <1>5 DEF ArgsInv

LEMMA FindKeeps == ASSUME ArgsInv, Find PROVE ArgsInv'
<1>1. /\ pc = "find" /\ UNCHANGED <<req, uargs, dps, mtdargs, cargs>>
      /\ pc' = IF decl' \in {NULL, CRASH} THEN "crash" ELSE "defaults"
  BY DEF Find
<1>2. uargs = Given
  BY <1>1 DEF ArgsInv, Carried
<1>3. decl' = Answer
  BY <1>2 DEF Find, Answer
<1>4. Asked' /\ Given' = Given /\ Answer' = Answer
  BY <1>1, SameRequest DEF ArgsInv
<1>5. Typed'
  BY <1>1 DEF ArgsInv, Typed
<1>6. Answered' /\ Carried'
  BY <1>1, <1>2, <1>3, <1>4 DEF Answered, Carried, Searched, Found
<1> QED
  BY <1>4, <1>5, <1>6 DEF ArgsInv

LEMMA DefaultsKeep == ASSUME ArgsInv, get_method_default_params PROVE ArgsInv'
<1>1. /\ pc = "defaults" /\ UNCHANGED <<req, uargs, decl, cargs>>
      /\ dps' = Defaults /\ mtdargs' = DefaultTypes
      /\ pc' = IF req.op = "call" THEN "replace" ELSE "convert"
  BY DEF get_method_default_params, Defaults, DefaultTypes
<1>2. Found /\ uargs = Given /\ decl = Answer
  BY <1>1 DEF ArgsInv, Answered, Carried, Found
<1>3. /\ Asked' /\ Given' = Given /\ Answer' = Answer
      /\ Passed' = Passed /\ Defaults' = Defaults /\ DefaultTypes' = DefaultTypes
  BY <1>1, SameRequest DEF ArgsInv
<1>4. Typed'
  <2>1. Defaults \in Seq(Variant) /\ DefaultTypes \in Seq(MetaTypes)
    BY <1>2, DefaultsType DEF ArgsInv
  <2> QED
    BY <1>1, <2>1 DEF ArgsInv, Typed
<1>5. Answered'
  BY <1>1, <1>2, <1>3 DEF Answered, Searched, Found
<1>6. req.op # "call" => Passed = Given
  <2> SUFFICES ASSUME req.op # "call" PROVE Passed = Given
    OBVIOUS
  <2>1. Given \in Seq(FromRuby)
    BY AskedIs DEF ArgsInv
  <2>2. Passed = [i \in DOMAIN Given |-> Given[i]]
    BY DEF Passed
  <2>3. Given = [i \in DOMAIN Given |-> Given[i]]
    BY <2>1
  <2> QED
    BY <2>2, <2>3
<1>7. Carried'
  BY <1>1, <1>2, <1>3, <1>6 DEF Carried
<1> QED
  BY <1>3, <1>4, <1>5, <1>7 DEF ArgsInv

LEMMA ReplaceKeeps == ASSUME ArgsInv, replace_trivial_copy_params PROVE ArgsInv'
<1>1. /\ pc = "replace" /\ UNCHANGED <<req, decl, dps, mtdargs, cargs>>
      /\ pc' \in {"crash", "convert"}
  BY DEF replace_trivial_copy_params
<1>2. /\ Found /\ uargs = Given /\ decl = Answer /\ req.op = "call"
      /\ dps = Defaults /\ mtdargs = DefaultTypes
  BY <1>1 DEF ArgsInv, Answered, Carried, Found
<1>3. uargs' = Passed
  <2> DEFINE replaced == {i \in DOMAIN Params \cap DOMAIN uargs : ByValue(Params[i], uargs[i])}
  <2>1. uargs' = [i \in DOMAIN uargs |->
                     IF i \in replaced THEN [type |-> "Int", val |-> Word[uargs[i].val]]
                     ELSE uargs[i]]
    BY DEF replace_trivial_copy_params
  <2>2. \A i \in DOMAIN Given :
           i \in replaced <=> req.op = "call" /\ i \in DOMAIN Params /\ ByValue(Params[i], Given[i])
    BY <1>2
  <2> HIDE DEF replaced
  <2> QED
    BY <1>2, <2>1, <2>2 DEF Passed
<1>4. /\ Asked' /\ Given' = Given /\ Answer' = Answer
      /\ Passed' = Passed /\ Defaults' = Defaults /\ DefaultTypes' = DefaultTypes
  BY <1>1, SameRequest DEF ArgsInv
<1>5. Typed'
  BY <1>1, <1>3, PassedType DEF ArgsInv, Typed
<1>6. Answered'
  BY <1>1, <1>2, <1>4 DEF Answered, Searched, Found
<1>7. Carried'
  BY <1>1, <1>2, <1>3, <1>4 DEF Carried
<1> QED
  BY <1>4, <1>5, <1>6, <1>7 DEF ArgsInv

LEMMA ConvertKeeps == ASSUME ArgsInv, ConvertToCallArgs PROVE ArgsInv'
<1>1. /\ pc = "convert" /\ pc' = "call" /\ UNCHANGED <<req, uargs, decl, dps, mtdargs>>
      /\ cargs' = Converted
  BY DEF ConvertToCallArgs, Converted
<1>2. /\ Found /\ uargs = Passed /\ decl = Answer
      /\ dps = Defaults /\ mtdargs = DefaultTypes
  BY <1>1 DEF ArgsInv, Answered, Carried, Found
<1>3. /\ Asked' /\ Given' = Given /\ Answer' = Answer
      /\ Passed' = Passed /\ Defaults' = Defaults /\ DefaultTypes' = DefaultTypes
  BY <1>1, SameRequest DEF ArgsInv
<1>4. Converted' = Converted
  BY <1>1 DEF Converted, LastArg, Merged, IRValue
<1>5. Typed'
  BY <1>1, ConvertedType DEF ArgsInv, Typed
<1>6. Answered'
  BY <1>1, <1>2, <1>3 DEF Answered, Searched, Found
<1>7. Carried'
  BY <1>1, <1>2, <1>3, <1>4 DEF Carried
<1> QED
  BY <1>3, <1>5, <1>6, <1>7 DEF ArgsInv

LEMMA NextArgs == ArgsInv /\ [Next]_vars => ArgsInv'
<1> SUFFICES ASSUME ArgsInv, [Next]_vars PROVE ArgsInv'
  OBVIOUS
<1>1. CASE UNCHANGED vars
  <2>1. UNCHANGED <<req, pc, uargs, decl, dps, mtdargs, cargs>>
    BY <1>1 DEF vars
  <2>2. /\ Asked' /\ Given' = Given /\ Answer' = Answer
        /\ Passed' = Passed /\ Defaults' = Defaults /\ DefaultTypes' = DefaultTypes
    BY <2>1, SameRequest DEF ArgsInv
  <2>3. Converted' = Converted
    BY <2>1 DEF Converted, LastArg, Merged, IRValue
  <2>4. Typed' /\ Answered' /\ Carried'
    BY <2>1, <2>2, <2>3 DEF ArgsInv, Typed, Answered, Carried, Searched, Found
  <2> QED
    BY <2>2, <2>4 DEF ArgsInv
<1> QED
  BY <1>1, MarshalKeeps, FindKeeps, DefaultsKeep, ReplaceKeeps, ConvertKeeps DEF Next

(* The inductive invariant of a call.                                      *)
THEOREM CallInvariant == Spec => []ArgsInv
BY InitArgs, NextArgs, PTL DEF Spec
----------------------------------------------------------------------------
LEMMA InvTypeOK == ArgsInv => TypeOK
<1> SUFFICES ASSUME ArgsInv PROVE TypeOK
  OBVIOUS
<1>1. \A s \in Seq(Variant) : IsVariants(s)
  <2> SUFFICES ASSUME NEW s \in Seq(Variant), NEW i \in DOMAIN s
               PROVE  s[i].type \in Variants /\ s[i].val \in Nat
    BY DEF IsVariants
  <2>1. s[i] \in Variant
    BY InSeq
  <2> QED
    BY <2>1 DEF Variant
<1>2. IsVariants(uargs) /\ IsVariants(dps) /\ IsVariants(cargs)
  BY <1>1 DEF ArgsInv, Typed
<1>3. decl \notin {NULL, CRASH} =>
         \E c \in Records : \E i \in DOMAIN Decls[c] : decl = <<c, i>>
  <2> SUFFICES ASSUME decl \notin {NULL, CRASH}
               PROVE  \E c \in Records : \E i \in DOMAIN Decls[c] : decl = <<c, i>>
    OBVIOUS
  <2>1. Found
    BY DEF ArgsInv, Answered, Found
  <2> QED
    BY <2>1, FoundIs DEF ArgsInv
<1> QED
  BY <1>2, <1>3 DEF TypeOK, ArgsInv, Asked, Typed, MetaTypes

(* For any classes, declarations, calls and values: the types of the       *)
(* arguments, at every step from the Ruby values to the IR.                *)
THEOREM TypesHold == Spec => []TypeOK
BY CallInvariant, InvTypeOK, PTL

LEMMA InvNotHidden == OnePath /\ ArgsInv => NotHidden
<1> SUFFICES ASSUME OnePath, ArgsInv, Found, req.op # "new",
                    NEW e \in Above[req.klass] \ {decl[1]}, decl[1] \in Above[e]
             PROVE  MatchesIn(e) = {}
  BY DEF NotHidden
<1>1. decl = Answer /\ Answer \notin {NULL, CRASH} /\ Asked
  BY DEF ArgsInv, Answered, Found
<1>2. PICK d \in Records \cap Above[req.klass] :
         \E i \in Matches(d, req.method, req.op = "static", Given) : Answer = <<d, i>>
  BY <1>1, AnswerIs
<1>3. PICK i \in Matches(d, req.method, req.op = "static", Given) : Answer = <<d, i>>
  BY <1>2
<1>4. find_method_decl(req.klass, req.method, req.op = "static", Given) = <<d, i>>
  BY <1>3 DEF Answer
<1>5. decl[1] = d
  BY <1>1, <1>3
<1>6. req.klass \in Names
  BY <1>1, AskedIs
<1>7. e \in Records => Matches(e, req.method, req.op = "static", Given) = {}
  BY <1>2, <1>3, <1>4, <1>5, <1>6, FindHides
<1> QED
  BY <1>7 DEF MatchesIn

(* For any classes that inherit none along two paths: a method is called   *)
(* in a base class only when no class on the way to it has a match.        *)
THEOREM NotHiddenHolds == OnePath => (Spec => []NotHidden)
<1> SUFFICES ASSUME OnePath PROVE Spec => []NotHidden
  OBVIOUS
<1>1. ArgsInv => NotHidden
  BY InvNotHidden
<1> QED
  BY <1>1, CallInvariant, PTL

LEMMA InvGivesUpRightly == ArgsInv => GivesUpRightly
<1> SUFFICES ASSUME ArgsInv PROVE GivesUpRightly
  OBVIOUS
<1>1. Asked /\ (Searched => decl = Answer)
  BY DEF ArgsInv, Answered
<1>2. req.klass \in Names /\ (req.op = "new" => req.method = req.klass) /\ Len(Given) \in Nat
  BY <1>1, AskedIs, InSeq
<1>3. ASSUME req.op = "new", req.klass \in Records
      PROVE  /\ Answer = find_ctor_decl(req.klass, Given)
             /\ MatchesIn(req.klass) = Matches(req.klass, req.klass, FALSE, Given)
  BY <1>2, <1>3, NewMatches DEF Answer, MatchesIn
<1>4. ASSUME Searched, decl = NULL,
             NEW c \in IF req.op = "new" THEN {req.klass} ELSE Above[req.klass]
      PROVE  MatchesIn(c) = {}
  <2>1. CASE req.op = "new"
    <3>1. c = req.klass
      BY <2>1
    <3>2. CASE req.klass \in Records
      <4>1. find_ctor_decl(req.klass, Given) = NULL
        BY <1>1, <1>3, <1>4, <2>1, <3>2
      <4> QED
        BY <1>2, <1>3, <2>1, <3>1, <3>2, <4>1, CtorFound
    <3>3. CASE req.klass \notin Records
      BY <3>1, <3>3 DEF MatchesIn
    <3> QED
      BY <3>2, <3>3
  <2>2. CASE req.op # "new"
    <3>1. find_method_decl(req.klass, req.method, req.op = "static", Given) = NULL
      BY <1>1, <1>4, <2>2 DEF Answer
    <3>2. c \in Above[req.klass]
      BY <2>2
    <3>3. Matches(c, req.method, req.op = "static", Given) = {}
      BY <1>2, <3>1, <3>2, FindNull
    <3> QED
      BY <3>3 DEF MatchesIn
  <2> QED
    BY <2>1, <2>2
<1>5. ASSUME Searched, decl = CRASH, Above[req.klass] \subseteq Records
      PROVE  /\ req.op = "new"
             /\ \/ Given = <<>> /\ Cardinality(MatchesIn(req.klass)) > 1
                \/ \A i \in MatchesIn(req.klass) :
                      \/ Decls[req.klass][i].defaulted
                      \/ Len(Decls[req.klass][i].params) < Len(Given)
  <2>1. req.klass \in Records
    BY <1>2, <1>5, AboveIs
  <2>2. req.op = "new"
    <3> SUFFICES ASSUME req.op # "new" PROVE FALSE
      OBVIOUS
    <3>1. find_method_decl(req.klass, req.method, req.op = "static", Given) = CRASH
      BY <1>1, <1>5 DEF Answer
    <3> QED
      BY <1>2, <1>5, <3>1, FindCrash
  <2>3. find_ctor_decl(req.klass, Given) = CRASH
    BY <1>1, <1>3, <1>5, <2>1, <2>2
  <2> DEFINE M == Matches(req.klass, req.klass, FALSE, Given)
  <2>4. \/ Given = <<>> /\ Cardinality(M) > 1
        \/ \A i \in M : \/ Decls[req.klass][i].defaulted
                        \/ Len(Decls[req.klass][i].params) < Len(Given)
    BY <1>2, <2>1, <2>3, CtorFound
  <2>5. MatchesIn(req.klass) = M
    BY <1>3, <2>1, <2>2
  <2> HIDE DEF M
  <2> QED
    BY <2>2, <2>4, <2>5
<1> QED
  BY <1>4, <1>5 DEF GivesUpRightly

(* For any classes: no declaration is found only where none matches, and   *)
(* the process ends in the search only where it is said to.                *)
THEOREM GivesUpRightlyHolds == Spec => []GivesUpRightly
BY CallInvariant, InvGivesUpRightly, PTL

LEMMA InvCtorTakesAll == ArgsInv => CtorTakesAll
<1> SUFFICES ASSUME ArgsInv, Found, req.op = "new", Len(Params) < Len(Given),
                    NEW j \in MatchesIn(req.klass)
             PROVE  \/ Decls[req.klass][j].defaulted
                    \/ Len(Decls[req.klass][j].params) < Len(Given)
  BY DEF CtorTakesAll
<1>1. decl = Answer /\ Answer \notin {NULL, CRASH} /\ Asked
  BY DEF ArgsInv, Answered, Found
<1>2. req.klass \in Records /\ Answer = find_ctor_decl(req.klass, Given)
  BY <1>1 DEF Answer
<1>3. req.method = req.klass /\ Len(Given) \in Nat
  BY <1>1, AskedIs, InSeq
<1>4. MatchesIn(req.klass) = Matches(req.klass, req.klass, FALSE, Given)
  BY <1>2, <1>3, NewMatches DEF MatchesIn
<1> DEFINE M == Matches(req.klass, req.klass, FALSE, Given)
<1>5. PICK i \in M :
         /\ Answer = <<req.klass, i>>
         /\ Len(Decls[req.klass][i].params) < Len(Given) =>
               \A l \in M : \/ Decls[req.klass][l].defaulted
                            \/ Len(Decls[req.klass][l].params) < Len(Given)
  BY <1>1, <1>2, <1>3, CtorFound
<1> HIDE DEF M
<1>6. Params = Decls[req.klass][i].params
  BY <1>1, <1>5 DEF Params
<1> QED
  BY <1>4, <1>5, <1>6 DEF M

(* For any class and any arguments: none is dropped for a constructor that *)
(* is too short while a longer one of the class's own matches.             *)
THEOREM CtorTakesAllHolds == Spec => []CtorTakesAll
BY CallInvariant, InvCtorTakesAll, PTL
----------------------------------------------------------------------------
(* A call the code supports: each default is one entry of dps, and a       *)
(* QVariant's, if there is one, is the last in mtdargs too.                *)
LEMMA OneEach ==
    ASSUME Asked, Answered, Found, Supported, dps = Defaults, mtdargs = DefaultTypes
    PROVE  /\ Len(dps) = Len(Params)
           /\ \A i \in DOMAIN Params : dps[i] = DpsOf(Params[i])[1]
           /\ LastArg = Len(Params)
           /\ \A i \in DOMAIN Params :
                 i \in DOMAIN mtdargs /\ mtdargs[i] = "QVariant" <=> Params[i].default = "QVariant()"
<1> DEFINE n == Len(Params)
           f == [i \in DOMAIN Params |-> DpsOf(Params[i])]
           g == [i \in DOMAIN Params |-> MtdOf(Params[i])]
<1>1. Params \in Seq(Range(Params))
  BY FoundIs
<1>2. n \in Nat /\ DOMAIN Params = 1 .. n
  BY <1>1, InSeq
<1>3. \A i \in 1 .. n : Params[i].default \in DefaultForms /\ Params[i].value \in Nat
  <2>1. \A i \in 1 .. n : Params[i] \in Range(Params)
    BY <1>2 DEF Range
  <2> QED
    BY <2>1, FoundIs
<1>4. \A i \in 1 .. n : /\ Params[i].default # "constant"
                        /\ Params[i].default = "QVariant()" =>
                              i = n /\ \A j \in 1 .. n : Params[j].default # "construct"
  BY <1>2 DEF Supported
<1> DEFINE T == {DpsOf(Params[i])[1] : i \in 1 .. n}
<1>5. ASSUME NEW i \in 1 .. n PROVE Len(f[i]) = 1 /\ f[i] = <<DpsOf(Params[i])[1]>>
  <2> DEFINE p == Params[i]
  <2>1. p.default \in DefaultForms \ {"constant"}
    BY <1>3, <1>4
  <2>2. f[i] = DpsOf(p)
    BY <1>2
  <2> HIDE DEF p, f
  <2>3. \E v : DpsOf(p) = <<v>>
    <3>1. CASE p.default \in {"none", "QVariant()"}
      BY <3>1 DEF DpsOf, Temporaries
    <3>2. CASE p.default = "integer"
      BY <3>2 DEF DpsOf, Temporaries
    <3>3. CASE p.default = "construct"
      BY <3>3 DEF DpsOf, Temporaries
    <3>4. CASE p.default = "null"
      BY <3>4 DEF DpsOf, Temporaries
    <3>5. CASE p.default \in Temporaries
      BY <3>5 DEF DpsOf, Temporaries
    <3> QED
      BY <2>1, <3>1, <3>2, <3>3, <3>4, <3>5 DEF DefaultForms
  <2>4. PICK v : DpsOf(p) = <<v>>
    BY <2>3
  <2> QED
    BY <2>2, <2>4 DEF p
<1>6. f \in Seq(Seq(T)) /\ Len(f) = n /\ DOMAIN f = 1 .. n
  <2>1. \A i \in 1 .. n : f[i] \in Seq(T)
    <3> SUFFICES ASSUME NEW i \in 1 .. n PROVE f[i] \in Seq(T)
      OBVIOUS
    <3> DEFINE v == DpsOf(Params[i])[1]
    <3>1. v \in T /\ f[i] = <<v>>
      BY <1>5
    <3> HIDE DEF v, T, f
    <3> QED
      BY <3>1
  <2>2. f \in [1 .. n -> Seq(T)]
    <3>1. DOMAIN f = 1 .. n /\ f = [i \in 1 .. n |-> DpsOf(Params[i])]
      BY <1>2
    <3> HIDE DEF T
    <3> QED
      BY <2>1, <3>1
  <2> HIDE DEF f, T
  <2> QED
    BY <1>2, <2>2, MapSeq
<1>7. Len(dps) = n /\ \A i \in 1 .. n : dps[i] = DpsOf(Params[i])[1]
  <2>1. \A i \in DOMAIN f : Len(f[i]) = 1
    BY <1>5, <1>6
  <2>2. \A i \in DOMAIN f : f[i][1] = DpsOf(Params[i])[1]
    BY <1>6
  <2>3. dps = FlattenSeq(f)
    BY DEF Defaults
  <2> HIDE DEF f, T
  <2>4. Len(FlattenSeq(f)) = Len(f) /\ \A i \in DOMAIN f : FlattenSeq(f)[i] = f[i][1]
    BY <1>6, <2>1, Flattened
  <2> QED
    BY <1>6, <2>2, <2>3, <2>4
<1>8. mtdargs = FlattenSeq(g)
  BY DEF DefaultTypes
<1>9. \A i \in 1 .. n : g[i] = MtdOf(Params[i])
  BY <1>2
<1>10. CASE \E q \in 1 .. n : Params[q].default = "QVariant()"
  <2>1. /\ n >= 1 /\ Params[n].default = "QVariant()"
        /\ \A i \in 1 .. n : Params[i].default \notin {"construct", "constant"}
        /\ \A i \in 1 .. n : Params[i].default = "QVariant()" => i = n
    <3>1. PICK q \in 1 .. n : Params[q].default = "QVariant()"
      BY <1>10
    <3>2. q = n /\ \A j \in 1 .. n : Params[j].default # "construct"
      BY <1>4, <3>1
    <3>3. n >= 1
      BY <1>2, <3>1
    <3> HIDE DEF f, g
    <3> QED
      BY <1>4, <3>1, <3>2, <3>3
  <2>2. ASSUME NEW i \in 1 .. n
        PROVE  /\ \E v \in MetaTypes : g[i] = <<v>>
               /\ g[i][1] = "QVariant" <=> i = n
    <3> DEFINE p == Params[i]
    <3>1. p.default \in DefaultForms \ {"construct", "constant"} /\ (p.default = "QVariant()" <=> i = n)
      BY <1>3, <2>1
    <3>2. g[i] = MtdOf(p)
      BY <1>9
    <3> HIDE DEF p, g
    <3>3. \E v \in MetaTypes : MtdOf(p) = <<v>> /\ (v = "QVariant" <=> p.default = "QVariant()")
      BY <3>1, MtdOfIs
    <3> QED
      BY <3>1, <3>2, <3>3
  <2>3. g \in Seq(Seq(MetaTypes)) /\ Len(g) = n /\ DOMAIN g = 1 .. n
    <3>1. \A i \in 1 .. n : g[i] \in Seq(MetaTypes)
      <4> SUFFICES ASSUME NEW i \in 1 .. n PROVE g[i] \in Seq(MetaTypes)
        OBVIOUS
      <4>1. PICK v \in MetaTypes : g[i] = <<v>>
        BY <2>2
      <4> HIDE DEF g
      <4> QED
        BY <4>1
    <3>2. g \in [1 .. n -> Seq(MetaTypes)]
      BY <1>2, <3>1
    <3> HIDE DEF g
    <3> QED
      BY <1>2, <3>2, MapSeq
  <2>4. Len(mtdargs) = n /\ \A i \in 1 .. n : mtdargs[i] = g[i][1]
    <3> HIDE DEF g
    <3>1. \A i \in DOMAIN g : Len(g[i]) = 1
      <4> SUFFICES ASSUME NEW i \in 1 .. n PROVE Len(g[i]) = 1
        BY <2>3
      <4>1. PICK v \in MetaTypes : g[i] = <<v>>
        BY <2>2
      <4> QED
        BY <4>1
    <3>2. Len(FlattenSeq(g)) = Len(g) /\ \A i \in DOMAIN g : FlattenSeq(g)[i] = g[i][1]
      BY <2>3, <3>1, Flattened
    <3> QED
      BY <1>8, <2>3, <3>2
  <2>5. DOMAIN mtdargs = 1 .. n
    <3>1. FlattenSeq(g) \in Seq(MetaTypes)
      <4> HIDE DEF g
      <4> QED
        BY <2>3, Flattened
    <3>2. mtdargs \in Seq(MetaTypes)
      BY <1>8, <3>1
    <3>3. DOMAIN mtdargs = 1 .. Len(mtdargs)
      BY <3>2, InSeq
    <3> QED
      BY <2>4, <3>3
  <2>6. \A i \in 1 .. n : mtdargs[i] = "QVariant" <=> i = n
    BY <2>2, <2>4
  <2>7. DOMAIN dps = 1 .. n
    <3>1. dps \in Seq(T)
      <4>1. dps = FlattenSeq(f)
        BY DEF Defaults
      <4> HIDE DEF f, T
      <4> QED
        BY <1>6, <4>1, Flattened
    <3>2. DOMAIN dps = 1 .. Len(dps)
      <4> HIDE DEF T
      <4> QED
        BY <3>1, InSeq
    <3> QED
      BY <1>7, <3>2
  <2>8. LastArg = n
    <3> DEFINE qv == {i \in DOMAIN dps \cap DOMAIN mtdargs : mtdargs[i] = "QVariant"}
    <3>1. qv = {n}
      <4>1. \A i : i \in qv <=> i \in 1 .. n /\ mtdargs[i] = "QVariant"
        BY <2>5, <2>7
      <4>2. n \in 1 .. n
        <5>1. n \in Nat /\ n >= 1
          BY <1>2, <2>1
        <5> HIDE DEF n
        <5> QED
          BY ONLY <5>1
      <4> HIDE DEF qv
      <4>3. \A i : i \in qv <=> i = n
        BY <2>6, <4>1, <4>2
      <4> QED
        BY <4>3
    <3>2. Min({n}) = n
      BY <1>2, MinIs
    <3> QED
      BY <3>1, <3>2 DEF LastArg
  <2> QED
    BY <1>2, <1>7, <2>1, <2>5, <2>6, <2>8
<1>11. CASE \A q \in 1 .. n : Params[q].default # "QVariant()"
  <2> DEFINE U == MetaTypes \ {"QVariant"}
  <2>1. \A i \in 1 .. n : g[i] \in Seq(U)
    <3> SUFFICES ASSUME NEW i \in 1 .. n PROVE g[i] \in Seq(U)
      OBVIOUS
    <3> DEFINE p == Params[i]
    <3>1. p.default \in DefaultForms \ {"QVariant()"}
      BY <1>3, <1>11
    <3>2. g[i] = MtdOf(p)
      BY <1>9
    <3> HIDE DEF p, g
    <3>3. MtdOf(p) = <<>> \/ \E v \in U : MtdOf(p) = <<v>>
      BY <3>1, MtdOfIs
    <3> HIDE DEF U
    <3>4. <<>> \in Seq(U) /\ \A v \in U : <<v>> \in Seq(U)
      OBVIOUS
    <3> QED
      BY <3>2, <3>3, <3>4
  <2>2. g \in [1 .. n -> Seq(U)]
    <3> HIDE DEF U
    <3> QED
      BY <1>2, <2>1
  <2>3. mtdargs \in Seq(U)
    <3> HIDE DEF g, U
    <3>1. g \in Seq(Seq(U))
      BY <1>2, <2>2, MapSeq
    <3> QED
      BY <1>8, <3>1, Flattened
  <2>4. \A i \in DOMAIN mtdargs : mtdargs[i] # "QVariant"
    <3>1. \A i \in DOMAIN mtdargs : mtdargs[i] \in U
      <4> HIDE DEF U
      <4> QED
        BY <2>3, InSeq
    <3> QED
      BY <3>1
  <2>5. LastArg = Len(dps)
    BY <2>4 DEF LastArg
  <2> QED
    BY <1>2, <1>7, <1>11, <2>4, <2>5
<1> QED
  BY <1>10, <1>11

(* What becomes of the argument for a parameter.                           *)
LEMMA OneArgument ==
    ASSUME ArgsInv, Found, Supported, uargs = Passed, dps = Defaults, mtdargs = DefaultTypes,
           NEW i \in DOMAIN Params
    PROVE  \E v \in Variant : IRValue(i, Merged[i]) = <<v>> /\ v.val = Expected(i)
<1> DEFINE p == Params[i]
           quoted == i \in DOMAIN mtdargs /\ mtdargs[i] = "QVariant"
<1>1. Asked /\ Answered
  BY DEF ArgsInv
<1>2. /\ p.default \in DefaultForms /\ p.value \in Nat
      /\ p.default \in {"null", "QVariant()"} => p.value = 0
  <2>1. p \in Range(Params)
    BY DEF Range
  <2> QED
    BY <1>1, <2>1, FoundIs
<1>3. Len(Params) \in Nat /\ DOMAIN Params = 1 .. Len(Params) /\ i \in Nat
  <2>1. Params \in Seq(Range(Params))
    BY <1>1, FoundIs
  <2> QED
    BY <2>1, InSeq
<1>4. Len(dps) = Len(Params) /\ dps[i] = DpsOf(p)[1] /\ (quoted <=> p.default = "QVariant()")
  BY <1>1, OneEach
<1>5. i \in DOMAIN dps
  <2>1. dps \in Seq(Variant)
    BY DEF ArgsInv, Typed
  <2>2. DOMAIN dps = 1 .. Len(dps)
    BY <2>1, InSeq
  <2> QED
    BY <1>3, <1>4, <2>2
<1>6. /\ Given \in Seq(FromRuby) /\ Len(Given) \in Nat /\ DOMAIN Given = 1 .. Len(Given)
      /\ Len(uargs) = Len(Given)
  <2>1. Given \in Seq(FromRuby)
    BY <1>1, AskedIs
  <2> QED
    BY <1>1, <2>1, InSeq, PassedType
<1>7. IF i <= Len(Given) THEN Accepts(p, Given[i]) ELSE p.default # "none"
  BY <1>1, FoundIs DEF Viable
<1>8. /\ p.default # "constant"
      /\ i > Len(Given) =>
            /\ p.default \in Temporaries => p.default = "QChar()"
            /\ p.default = "QChar()" => p.value = 32
      /\ i > Len(Given) /\ p.default = "construct" => p.value = 0
  BY DEF Supported
<1> HIDE DEF quoted
<1>9. CASE i <= Len(Given)
  <2> DEFINE v == Given[i]
             u == uargs[i]
  <2>1. i \in DOMAIN Given
    BY <1>3, <1>6, <1>9
  <2>2. v \in FromRuby /\ Accepts(p, v)
    BY <1>6, <1>7, <1>9, <2>1, InSeq
  <2>3. /\ v.type = "Double" => p.default = "QVariant()"
        /\ ByValue(p, v) => req.op = "call"
    BY <2>1 DEF Supported
  <2>4. u = IF ByValue(p, v) THEN [type |-> "Int", val |-> Word[v.val]] ELSE v
    BY <2>1, <2>3 DEF Passed
  <2>5. Expected(i) = IF ByValue(p, v) THEN Word[v.val] ELSE v.val
    BY <1>3, <1>6, <1>9 DEF Expected
  <2> HIDE DEF p, v
  <2>6. v.type \in GivenTypes /\ v.val \in Nat /\ (v.type = "VoidStar" => Word[v.val] \in Nat)
    BY <2>2 DEF FromRuby
  <2>7. v.type # "Invalid"
    BY <2>2 DEF Accepts
  <2>8. u.val = Expected(i) /\ u.val \in Nat
    BY <2>4, <2>5, <2>6 DEF ByValue
  <2>9. u.type \in GivenTypes \ {"Invalid"} /\ (u.type = "Double" => quoted)
    BY <1>4, <2>3, <2>4, <2>6, <2>7 DEF GivenTypes
  <2>10. u \in Variant
    <3>1. v \in Variant
      BY <2>2, FromRubyVariant
    <3>2. ByValue(p, v) => Word[v.val] \in Nat
      BY <2>6 DEF ByValue
    <3> QED
      BY <2>4, <3>1, <3>2 DEF Variant, Variants
  <2>11. Merged[i] = u
    BY <1>5, <1>6, <1>9, <2>9 DEF Merged
  <2> HIDE DEF u
  <2>12. IRValue(i, u) = IF quoted THEN <<[type |-> "QVariant", val |-> u.val]>> ELSE <<u>>
    BY <2>9 DEF IRValue, GivenTypes, quoted
  <2>13. [type |-> "QVariant", val |-> u.val] \in Variant
    BY <2>8 DEF Variant, Variants
  <2> QED
    BY <2>8, <2>10, <2>11, <2>12, <2>13
<1>10. CASE i > Len(Given)
  <2>1. Merged[i] = DpsOf(p)[1] /\ Expected(i) = p.value
    BY <1>3, <1>4, <1>5, <1>6, <1>10 DEF Merged, Expected
  <2>2. p.default \in {"integer", "construct", "null", "QVariant()", "QChar()"}
    BY <1>2, <1>3, <1>6, <1>7, <1>8, <1>10 DEF DefaultForms
  <2>3. (p.default = "construct" => p.value = 0) /\ (p.default = "QChar()" => p.value = 32)
    BY <1>8, <1>10
  <2> HIDE DEF p
  <2>4. CASE p.default = "integer"
    <3> DEFINE v == [type |-> "LongLong", val |-> p.value]
    <3>1. Merged[i] = v /\ ~quoted
      BY <1>4, <2>1, <2>4 DEF DpsOf, Temporaries
    <3>2. IRValue(i, v) = <<v>>
      BY <3>1 DEF IRValue, quoted
    <3> QED
      BY <1>2, <2>1, <3>1, <3>2 DEF Variant, Variants
  <2>5. CASE p.default = "construct"
    <3> DEFINE v == [type |-> "Int", val |-> 0]
    <3>1. Merged[i] = [type |-> "EvalType", val |-> p.value] /\ ~quoted
      BY <1>4, <2>1, <2>5 DEF DpsOf, Temporaries
    <3>2. IRValue(i, Merged[i]) = <<v>>
      BY <3>1 DEF IRValue, quoted
    <3> QED
      BY <2>1, <2>3, <2>5, <3>2 DEF Variant, Variants
  <2>6. CASE p.default = "null"
    <3> DEFINE v == [type |-> "VoidStar", val |-> 0]
    <3>1. Merged[i] = v /\ ~quoted
      BY <1>4, <2>1, <2>6 DEF DpsOf, Temporaries
    <3>2. IRValue(i, v) = <<v>>
      BY <3>1 DEF IRValue, quoted
    <3> QED
      BY <1>2, <2>1, <2>6, <3>1, <3>2 DEF Variant, Variants
  <2>8. CASE p.default = "QChar()"
    <3> DEFINE v == [type |-> "QChar", val |-> 32]
    <3>1. Merged[i] = v /\ ~quoted
      BY <1>4, <2>1, <2>8 DEF DpsOf, Temporaries, EvalCleanup
    <3>2. IRValue(i, v) = <<v>>
      BY <3>1 DEF IRValue, quoted
    <3> QED
      BY <2>1, <2>3, <2>8, <3>1, <3>2 DEF Variant, Variants
  <2>7. CASE p.default = "QVariant()"
    <3> DEFINE v == [type |-> "QVariant", val |-> 0]
    <3>1. Merged[i] = [type |-> "Invalid", val |-> 0] /\ quoted
      BY <1>4, <2>1, <2>7 DEF DpsOf, Temporaries, Invalid
    <3>2. IRValue(i, Merged[i]) = <<v>>
      BY <3>1 DEF IRValue, quoted
    <3> QED
      BY <1>2, <2>1, <2>7, <3>2 DEF Variant, Variants
  <2> QED
    BY <2>2, <2>4, <2>5, <2>6, <2>7, <2>8
<1> QED
  BY <1>3, <1>6, <1>9, <1>10

LEMMA InvArgumentsPassed == ArgsInv => ArgumentsPassed
<1> SUFFICES ASSUME ArgsInv, pc = "call", Supported
             PROVE  /\ Len(cargs) = Len(Params)
                    /\ \A i \in DOMAIN Params : cargs[i].val = Expected(i)
  BY DEF ArgumentsPassed
<1>1. /\ Asked /\ Answered /\ Found /\ uargs = Passed /\ dps = Defaults
      /\ mtdargs = DefaultTypes /\ cargs = Converted
  BY DEF ArgsInv, Answered, Carried, Found
<1> DEFINE n == Len(Params)
           h == [i \in 1 .. LastArg |-> IRValue(i, Merged[i])]
<1>2. n \in Nat /\ DOMAIN Params = 1 .. n
  <2>1. Params \in Seq(Range(Params))
    BY <1>1, FoundIs
  <2> QED
    BY <2>1, InSeq
<1>3. LastArg = n
  BY <1>1, OneEach
<1>4. DOMAIN h = 1 .. n /\ \A i \in 1 .. n : h[i] = IRValue(i, Merged[i])
  BY <1>3
<1>5. \A i \in 1 .. n : \E v \in Variant : h[i] = <<v>> /\ v.val = Expected(i)
  <2> HIDE DEF h
  <2> SUFFICES ASSUME NEW i \in 1 .. n
               PROVE  \E v \in Variant : h[i] = <<v>> /\ v.val = Expected(i)
    OBVIOUS
  <2>1. \E v \in Variant : IRValue(i, Merged[i]) = <<v>> /\ v.val = Expected(i)
    BY <1>1, <1>2, OneArgument
  <2> QED
    BY <1>4, <2>1
<1>6. h \in Seq(Seq(Variant)) /\ Len(h) = n
  <2>1. \A i \in 1 .. n : h[i] \in Seq(Variant)
    <3> HIDE DEF h
    <3> SUFFICES ASSUME NEW i \in 1 .. n PROVE h[i] \in Seq(Variant)
      OBVIOUS
    <3>1. PICK v \in Variant : h[i] = <<v>>
      BY <1>5
    <3> QED
      BY <3>1
  <2>2. h \in [1 .. n -> Seq(Variant)]
    BY <1>3, <2>1
  <2> HIDE DEF h
  <2> QED
    BY <1>2, <2>2, MapSeq
<1>7. cargs = FlattenSeq(h)
  BY <1>1 DEF Converted
<1> HIDE DEF h
<1>8. \A i \in 1 .. n : Len(h[i]) = 1 /\ h[i][1].val = Expected(i)
  <2> SUFFICES ASSUME NEW i \in 1 .. n PROVE Len(h[i]) = 1 /\ h[i][1].val = Expected(i)
    OBVIOUS
  <2>1. PICK v \in Variant : h[i] = <<v>> /\ v.val = Expected(i)
    BY <1>5
  <2> QED
    BY <2>1
<1>9. Len(FlattenSeq(h)) = Len(h) /\ \A i \in DOMAIN h : FlattenSeq(h)[i] = h[i][1]
  BY <1>4, <1>6, <1>8, Flattened
<1> QED
  BY <1>2, <1>4, <1>6, <1>7, <1>8, <1>9

(* For any declaration and any arguments the code knows how to pass: the   *)
(* function called gets the user's arguments and the defaults, each at its *)
(* parameter's place.                                                      *)
THEOREM ArgumentsPassedHolds == Spec => []ArgumentsPassed
BY CallInvariant, InvArgumentsPassed, PTL
=============================================================================
