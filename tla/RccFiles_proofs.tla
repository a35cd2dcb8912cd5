-------------------------- MODULE RccFiles_proofs --------------------------
(***************************************************************************)
(* That a program finds what the documents of rbrcc ask for, written in    *)
(* one go (FilesFound) or by two processes (SecondPassFits).               *)
(*                                                                         *)
(* Three things have to agree.  What the documents ask for, and what the   *)
(* reader adds to the tree token by token (Reading).  The node that a file *)
(* is added at, and the one that a search for its path ends at, both by    *)
(* the newest child of each name (Way): Holds says it of a tree and of the *)
(* files that were added, and addFile keeps it.  And the search by names   *)
(* of the tree and the one by the entries that were written, which goes    *)
(* through children in the order of their hashes (Leading).                *)
(*                                                                         *)
(* With two passes, two processes have to agree.  Up to the data, what one *)
(* does is told by its options and the order of keys: a run (IsRun) of     *)
(* steps Next.  FirstInv says that what the first reserved and wrote is    *)
(* the end of a run, PassInv that the second goes along the same one, and  *)
(* what its search and its copying have left in the output.                *)
(***************************************************************************)
EXTENDS Rcc_proofs

----------------------------------------------------------------------------
(* Paths.                                                                  *)
LEMMA PathIs ==
    ASSUME NEW p \in Paths
    PROVE  Len(p) \in Nat /\ DOMAIN p = 1 .. Len(p) /\ \A i \in 1 .. Len(p) : p[i] \in FileNames
BY DEF Paths

LEMMA SamePath ==
    ASSUME NEW p \in Paths, NEW q \in Paths, Len(p) = Len(q),
           \A i \in 1 .. Len(p) : p[i] = q[i]
    PROVE  p = q
BY DEF Paths

LEMMA PathAppend ==
    ASSUME NEW p \in Paths, NEW x \in FileNames
    PROVE  /\ Append(p, x) \in Paths /\ Len(Append(p, x)) = Len(p) + 1
           /\ Append(p, x)[Len(p) + 1] = x
           /\ \A i \in 1 .. Len(p) : Append(p, x)[i] = p[i]
           /\ Append(p, x) # <<>> /\ Front(Append(p, x)) = p /\ Last(Append(p, x)) = x
BY DEF Paths, Front, Last

LEMMA PathEnds ==
    ASSUME NEW p \in Paths, p # <<>>
    PROVE  /\ Front(p) \in Paths /\ Last(p) \in FileNames
           /\ Len(p) >= 1 /\ Len(Front(p)) = Len(p) - 1 /\ Last(p) = p[Len(p)]
           /\ \A i \in 1 .. Len(p) - 1 : Front(p)[i] = p[i]
           /\ p = Append(Front(p), Last(p))
<1>1. Len(p) \in Nat \ {0}
  BY DEF Paths
<1>2. /\ Front(p) \in Paths /\ Last(p) \in FileNames
      /\ Len(p) >= 1 /\ Len(Front(p)) = Len(p) - 1 /\ Last(p) = p[Len(p)]
      /\ \A i \in 1 .. Len(p) - 1 : Front(p)[i] = p[i]
  <2>1. p \in Seq(FileNames) /\ Len(p) - 1 \in 0 .. Len(p) /\ Len(p) \in DOMAIN p
    BY <1>1 DEF Paths
  <2>2. SubSeq(p, 1, Len(p) - 1) \in Seq(FileNames) /\ Len(SubSeq(p, 1, Len(p) - 1)) = Len(p) - 1
        /\ \A i \in 1 .. Len(p) - 1 : SubSeq(p, 1, Len(p) - 1)[i] = p[i]
    BY <2>1, FirstPart
  <2>3. p[Len(p)] \in FileNames
    BY <2>1
  <2> QED
    BY <1>1, <2>2, <2>3 DEF Paths, Front, Last
<1>3. p = Append(Front(p), Last(p))
  <2>1. /\ Append(Front(p), Last(p)) \in Paths
        /\ Len(Append(Front(p), Last(p))) = Len(Front(p)) + 1
        /\ Append(Front(p), Last(p))[Len(Front(p)) + 1] = Last(p)
        /\ \A i \in 1 .. Len(Front(p)) : Append(Front(p), Last(p))[i] = Front(p)[i]
    BY <1>2, PathAppend
  <2> DEFINE a == Append(Front(p), Last(p))
  <2> HIDE DEF a
  <2>2. Len(a) = Len(p) /\ \A i \in 1 .. Len(a) : a[i] = p[i]
    <3>1. Len(a) = Len(p)
      BY <1>1, <1>2, <2>1 DEF a
    <3>2. ASSUME NEW i \in 1 .. Len(p) PROVE a[i] = p[i]
      <4>1. CASE i = Len(p)
        BY <1>1, <1>2, <2>1, <4>1 DEF a
      <4>2. CASE i # Len(p)
        <5>1. i \in 1 .. Len(p) - 1 /\ i \in 1 .. Len(Front(p))
          BY <1>1, <1>2, <4>2
        <5> QED
          BY <1>2, <2>1, <5>1 DEF a
      <4> QED
        BY <4>1, <4>2
    <3> QED
      BY <3>1, <3>2
  <2>3. a \in Paths
    BY <2>1 DEF a
  <2>4. a = p
    BY <2>2, <2>3, SamePath
  <2> QED
    BY <2>4 DEF a
<1> QED
  BY <1>2, <1>3

LEMMA AppendsEqual ==
    ASSUME NEW p \in Paths, NEW q \in Paths, NEW x \in FileNames, NEW y \in FileNames,
           Append(p, x) = Append(q, y)
    PROVE  p = q /\ x = y
<1>1. Front(Append(p, x)) = p /\ Last(Append(p, x)) = x
  BY PathAppend
<1>2. Front(Append(q, y)) = q /\ Last(Append(q, y)) = y
  BY PathAppend
<1> QED
  BY <1>1, <1>2

LEMMA PrefixIs ==
    ASSUME NEW p \in Paths, NEW q \in Paths
    PROVE  /\ IsPrefix(p, q) <=> Len(p) <= Len(q) /\ \A i \in 1 .. Len(p) : p[i] = q[i]
           /\ IsPrefix(p, q) /\ Len(p) = Len(q) => p = q
<1>1. IsPrefix(p, q) <=> Len(p) <= Len(q) /\ \A i \in 1 .. Len(p) : p[i] = q[i]
  <2>1. ASSUME Len(p) <= Len(q)
        PROVE  /\ SubSeq(p, 1, Len(p)) \in Paths /\ SubSeq(q, 1, Len(p)) \in Paths
               /\ Len(SubSeq(p, 1, Len(p))) = Len(p) /\ Len(SubSeq(q, 1, Len(p))) = Len(p)
               /\ \A i \in 1 .. Len(p) : SubSeq(p, 1, Len(p))[i] = p[i] /\ SubSeq(q, 1, Len(p))[i] = q[i]
    BY <2>1 DEF Paths
  <2>2. ASSUME Len(p) <= Len(q), \A i \in 1 .. Len(p) : p[i] = q[i]
        PROVE  SubSeq(p, 1, Len(p)) = SubSeq(q, 1, Len(p))
    <3> DEFINE a == SubSeq(p, 1, Len(p))
               b == SubSeq(q, 1, Len(p))
    <3>1. a \in Paths /\ b \in Paths /\ Len(a) = Len(p) /\ Len(b) = Len(p)
          /\ \A i \in 1 .. Len(p) : a[i] = p[i] /\ b[i] = q[i]
      BY <2>1, <2>2
    <3> HIDE DEF a, b
    <3>2. a = b
      BY <2>2, <3>1, SamePath
    <3> QED
      BY <3>2 DEF a, b
  <2> QED
    BY <2>1, <2>2 DEF IsPrefix
<1>2. ASSUME IsPrefix(p, q), Len(p) = Len(q) PROVE p = q
  BY <1>1, <1>2, SamePath
<1> QED
  BY <1>1, <1>2

LEMMA PrefixOfAppend ==
    ASSUME NEW p \in Paths, NEW q \in Paths, NEW x \in FileNames
    PROVE  /\ IsPrefix(p, Append(q, x)) <=> p = Append(q, x) \/ IsPrefix(p, q)
           /\ p # <<>> => (IsStrictPrefix(p, Append(q, x)) <=> IsPrefix(p, q))
<1> DEFINE a == Append(q, x)
<1>1. /\ a \in Paths /\ Len(a) = Len(q) + 1 /\ a[Len(q) + 1] = x
      /\ \A i \in 1 .. Len(q) : a[i] = q[i]
  BY PathAppend
<1>2. Len(p) \in Nat /\ Len(q) \in Nat
  BY PathIs
<1> HIDE DEF a
<1>3. IsPrefix(p, a) <=> Len(p) <= Len(a) /\ \A i \in 1 .. Len(p) : p[i] = a[i]
  BY <1>1, PrefixIs
<1>4. IsPrefix(p, q) <=> Len(p) <= Len(q) /\ \A i \in 1 .. Len(p) : p[i] = q[i]
  BY PrefixIs
<1>5. ASSUME IsPrefix(p, a) PROVE p = a \/ IsPrefix(p, q)
  <2>1. CASE Len(p) = Len(a)
    BY <1>1, <1>5, <2>1, PrefixIs
  <2>2. CASE Len(p) # Len(a)
    <3>1. Len(p) <= Len(q)
      BY <1>1, <1>2, <1>3, <1>5, <2>2
    <3>2. \A i \in 1 .. Len(p) : i \in 1 .. Len(q)
      BY <1>2, <3>1
    <3> QED
      BY <1>1, <1>3, <1>4, <1>5, <3>1, <3>2
  <2> QED
    BY <2>1, <2>2
<1>6. ASSUME IsPrefix(p, q) PROVE IsPrefix(p, a) /\ p # a
  <2>1. \A i \in 1 .. Len(p) : i \in 1 .. Len(q)
    BY <1>2, <1>4, <1>6
  <2>2. Len(p) <= Len(a) /\ Len(p) # Len(a)
    BY <1>1, <1>2, <1>4, <1>6
  <2> QED
    BY <1>1, <1>3, <1>4, <1>6, <2>1, <2>2
<1>7. p = a => IsPrefix(p, a)
  BY <1>2, <1>3, <1>1
<1> QED
  BY <1>5, <1>6, <1>7 DEF IsStrictPrefix, a

----------------------------------------------------------------------------
(* A tree, and what one insertion changes of it.                           *)
Kids(t, p) == Range(t[p].children)
LEMMA KidsAre ==
    ASSUME NEW t \in Trees
    PROVE  /\ Len(t) \in Nat /\ DOMAIN t = 1 .. Len(t) /\ Len(t) + 1 \notin DOMAIN t
           /\ \A p \in DOMAIN t : /\ Kids(t, p) \subseteq DOMAIN t
                                  /\ \A c \in Kids(t, p) : c > p /\ c # 1
           /\ \A p, q \in DOMAIN t : \A c \in Kids(t, p) : c \in Kids(t, q) => p = q
           /\ \A p \in DOMAIN t : /\ t[p].name \in FileNames /\ t[p].directory \in BOOLEAN
                                  /\ t[p].children \in Seq(DOMAIN t) /\ IsInjective(t[p].children)
           /\ t # <<>> => 1 \in DOMAIN t /\ t[1].directory
<1>1. /\ Len(t) \in Nat /\ DOMAIN t = 1 .. Len(t)
      /\ \A p \in DOMAIN t : /\ t[p] \in FileInfo
                             /\ t[p].children \in Seq(DOMAIN t)
                             /\ IsInjective(t[p].children)
  BY TreeIs
<1>2. ASSUME NEW p \in DOMAIN t, NEW c \in Kids(t, p)
      PROVE  c \in p + 1 .. Len(t)
  <2>1. PICK i \in DOMAIN t[p].children : c = t[p].children[i]
    BY DEF Kids, Range
  <2> QED
    BY <2>1 DEF Trees
<1>3. ASSUME NEW p \in DOMAIN t PROVE Kids(t, p) \subseteq DOMAIN t /\ \A c \in Kids(t, p) : c > p /\ c # 1
  <2>1. p \in Nat /\ p >= 1
    BY <1>1
  <2> QED
    BY <1>1, <1>2, <2>1
<1>4. ASSUME NEW p \in DOMAIN t, NEW q \in DOMAIN t, NEW c \in Kids(t, p), c \in Kids(t, q)
      PROVE  p = q
  <2>1. PICK i \in DOMAIN t[p].children : c = t[p].children[i]
    BY DEF Kids, Range
  <2>2. PICK j \in DOMAIN t[q].children : c = t[q].children[j]
    BY <1>4 DEF Kids, Range
  <2> QED
    BY <2>1, <2>2 DEF Trees
<1>5. t # <<>> => 1 \in DOMAIN t /\ t[1].directory
  <2>1. t \in Seq(FileInfo)
    BY TreeIs
  <2>2. t # <<>> => Len(t) # 0
    BY <2>1
  <2> QED
    BY <1>1, <2>2 DEF Trees
<1>6. \A p \in DOMAIN t : t[p].name \in FileNames /\ t[p].directory \in BOOLEAN
  BY <1>1 DEF FileInfo
<1>7. Len(t) + 1 \notin DOMAIN t
  BY <1>1
<1> QED
  BY <1>1, <1>3, <1>4, <1>5, <1>6, <1>7

Grows(t, p, info, u, new) ==
    /\ t \in Trees /\ p \in DOMAIN t /\ New(info)
    /\ u = Insert(t, p, info) /\ new = Len(t) + 1
IsGrown(t, p, info, u, new) ==
    /\ t \in Trees /\ p \in DOMAIN t /\ new = Len(t) + 1 /\ New(info)
    /\ u \in Trees /\ DOMAIN u = DOMAIN t \cup {new} /\ new \notin DOMAIN t
    /\ u[new] = info /\ Kids(u, new) = {}
    /\ \A n \in DOMAIN t : /\ u[n].name = t[n].name /\ u[n].file = t[n].file
                           /\ u[n].directory = t[n].directory /\ u[n].locale = t[n].locale
    /\ Kids(u, p) = Kids(t, p) \cup {new}
    /\ \A n \in DOMAIN t \ {p} : Kids(u, n) = Kids(t, n)
LEMMA Inserted ==
    ASSUME NEW t, NEW p, NEW info, NEW u, NEW new, Grows(t, p, info, u, new)
    PROVE  IsGrown(t, p, info, u, new)
<1> t \in Trees /\ p \in DOMAIN t /\ New(info) /\ u = Insert(t, p, info) /\ new = Len(t) + 1
  BY DEF Grows
<1>1. t \in Seq(FileInfo) /\ Len(t) \in Nat /\ DOMAIN t = 1 .. Len(t)
      /\ \A n \in DOMAIN t : t[n] \in FileInfo
  BY TreeIs
<1>2. u \in Trees /\ Len(u) = new
  BY InsertIs
<1>3. DOMAIN u = 1 .. new
  BY <1>2, TreeIs
<1> DEFINE grown == Append(t[p].children, new)
           one == [t EXCEPT ![p].children = grown]
<1>4. u = Append(one, info)
  BY DEF Insert
<1>5. t[p].children \in Seq(Nat) /\ new \in Nat
  <2>1. t[p] \in FileInfo /\ new \in Nat
    BY <1>1
  <2> QED
    BY <2>1 DEF FileInfo
<1>6. grown \in Seq(Nat) /\ Range(grown) = Kids(t, p) \cup {new}
  <2>1. /\ grown \in Seq(Nat) /\ Len(grown) = Len(t[p].children) + 1
        /\ grown[Len(t[p].children) + 1] = new
        /\ \A i \in DOMAIN t[p].children : i \in DOMAIN grown /\ grown[i] = t[p].children[i]
        /\ \A i \in DOMAIN grown :
              \/ i = Len(t[p].children) + 1 /\ grown[i] = new
              \/ i \in DOMAIN t[p].children /\ grown[i] = t[p].children[i]
    BY <1>5, Appended
  <2>2. Len(t[p].children) + 1 \in DOMAIN grown
    BY <1>5, <2>1
  <2> HIDE DEF grown
  <2>3. ASSUME NEW c \in Range(grown) PROVE c \in Kids(t, p) \cup {new}
    BY <2>1 DEF Range, Kids
  <2>4. ASSUME NEW c \in Kids(t, p) \cup {new} PROVE c \in Range(grown)
    BY <2>1, <2>2 DEF Range, Kids
  <2> QED
    BY <2>1, <2>3, <2>4
<1>7. one \in Seq(FileInfo) /\ Len(one) = Len(t) /\ one = [t EXCEPT ![p] = [t[p] EXCEPT !.children = grown]]
  <2>1. t[p] \in FileInfo
    BY <1>1
  <2>2. [t[p] EXCEPT !.children = grown] \in FileInfo
    BY <1>6, <2>1 DEF FileInfo
  <2> HIDE DEF grown
  <2>3. one = [t EXCEPT ![p] = [t[p] EXCEPT !.children = grown]]
    OBVIOUS
  <2> QED
    BY <1>1, <2>2, <2>3
<1>8. /\ u[new] = info
      /\ \A n \in DOMAIN t : u[n] = IF n = p THEN [t[n] EXCEPT !.children = grown] ELSE t[n]
  <2>1. \A n \in DOMAIN t : one[n] = IF n = p THEN [t[n] EXCEPT !.children = grown] ELSE t[n]
    <3> HIDE DEF grown, one
    <3> QED
      BY <1>1, <1>7
  <2> HIDE DEF grown, one
  <2> QED
    BY <1>1, <1>4, <1>7, <2>1 DEF New
<1>9. Kids(u, new) = {}
  BY <1>8 DEF New, Kids, Range
<1>10. ASSUME NEW n \in DOMAIN t
       PROVE  /\ u[n].name = t[n].name /\ u[n].file = t[n].file
              /\ u[n].directory = t[n].directory /\ u[n].locale = t[n].locale
              /\ n = p => Kids(u, n) = Kids(t, n) \cup {new}
              /\ n # p => Kids(u, n) = Kids(t, n)
  <2>1. t[n] \in FileInfo
    BY <1>1
  <2>2. /\ u[n].name = t[n].name /\ u[n].file = t[n].file
        /\ u[n].directory = t[n].directory /\ u[n].locale = t[n].locale
        /\ u[n].children = IF n = p THEN grown ELSE t[n].children
    <3> HIDE DEF grown, one
    <3> QED
      BY <1>8, <2>1 DEF FileInfo
  <2> QED
    BY <1>6, <2>2 DEF Kids
<1>11. DOMAIN u = DOMAIN t \cup {new} /\ new \notin DOMAIN t
  BY <1>1, <1>3
<1>12. \A n \in DOMAIN t : /\ u[n].name = t[n].name /\ u[n].file = t[n].file
                            /\ u[n].directory = t[n].directory /\ u[n].locale = t[n].locale
  BY <1>10
<1>13. Kids(u, p) = Kids(t, p) \cup {new} /\ \A n \in DOMAIN t \ {p} : Kids(u, n) = Kids(t, n)
  BY <1>10
<1> QED
  BY <1>2, <1>8, <1>9, <1>11, <1>12, <1>13 DEF IsGrown
----------------------------------------------------------------------------
(* Ways: from the root into the newest child of each name, as addFile goes *)
(* and as the search of QResource goes after it.  Lies: the node is one of *)
(* those that a search for the path ends at.                               *)
Way(t, p, k, s) ==
    /\ s[0] = 1 /\ \A i \in 0 .. k : s[i] \in DOMAIN t
    /\ \A i \in 1 .. k : /\ ChildrenCalled(t, s[i - 1], p[i]) # {}
                         /\ s[i] = Max(ChildrenCalled(t, s[i - 1], p[i]))
Lies(t, p, c) ==
    \E s : Way(t, p, Len(p) - 1, s) /\ c \in ChildrenCalled(t, s[Len(p) - 1], p[Len(p)])

LEMMA CalledIs ==
    ASSUME NEW t \in Trees, NEW n \in DOMAIN t, NEW x
    PROVE  /\ ChildrenCalled(t, n, x) \subseteq Kids(t, n)
           /\ ChildrenCalled(t, n, x) # {} =>
                 /\ Max(ChildrenCalled(t, n, x)) \in ChildrenCalled(t, n, x)
                 /\ \A y \in ChildrenCalled(t, n, x) : y <= Max(ChildrenCalled(t, n, x))
<1> DEFINE C == ChildrenCalled(t, n, x)
<1>1. C \subseteq Kids(t, n)
  BY DEF ChildrenCalled, Kids
<1>2. Kids(t, n) \subseteq 1 .. Len(t) /\ Len(t) \in Nat
  BY KidsAre
<1>3. C \in SUBSET (1 .. Len(t))
  BY <1>1, <1>2
<1>4. C # {} => Max(C) \in C /\ \A y \in C : y <= Max(C)
  <2> HIDE DEF C
  <2> QED
    BY <1>2, <1>3, MaxIs
<1> QED
  BY <1>1, <1>4

LEMMA WayStep ==
    ASSUME NEW t \in Trees, NEW p, NEW k \in Nat, NEW s, Way(t, p, k, s), NEW i \in 1 .. k
    PROVE  /\ s[i - 1] \in DOMAIN t /\ s[i] \in Kids(t, s[i - 1]) /\ s[i] # 1
           /\ t[s[i]].name = p[i]
<1>1. i - 1 \in 0 .. k
  OBVIOUS
<1>2. s[i - 1] \in DOMAIN t
  BY <1>1 DEF Way
<1>3. s[i] \in ChildrenCalled(t, s[i - 1], p[i])
  BY <1>2, CalledIs DEF Way
<1>4. s[i] \in Kids(t, s[i - 1]) /\ t[s[i]].name = p[i]
  BY <1>3 DEF ChildrenCalled, Kids
<1> QED
  BY <1>2, <1>4, KidsAre

(* Ways that end at one node are one way: a node has one parent.           *)
LEMMA WaysMeet ==
    ASSUME NEW t \in Trees, NEW p, NEW k \in Nat, NEW s, Way(t, p, k, s),
           NEW q, NEW m \in Nat, NEW r, Way(t, q, m, r), s[k] = r[m]
    PROVE  k = m /\ \A i \in 1 .. k : p[i] = q[i]
<1> DEFINE Meets(j, l) == j = l /\ \A i \in 1 .. j : p[i] = q[i]
           Bad == {j \in 0 .. k : \E l \in 0 .. m : s[j] = r[l] /\ ~Meets(j, l)}
<1>1. SUFFICES ASSUME Bad # {} PROVE FALSE
  <2>1. k \in 0 .. k /\ m \in 0 .. m
    OBVIOUS
  <2>2. Meets(k, m)
    BY <1>1, <2>1
  <2> QED
    BY <2>2
<1>2. PICK j \in Bad : \A i \in Bad : j <= i
  <2>1. Bad \in SUBSET Nat
    OBVIOUS
  <2> HIDE DEF Bad
  <2> QED
    BY <1>1, <2>1, NatMin
<1>3. PICK l \in 0 .. m : s[j] = r[l] /\ ~Meets(j, l)
  BY <1>2
<1>4. j \in 0 .. k
  BY <1>2
<1>5. s[0] = 1 /\ r[0] = 1
  BY DEF Way
<1>6. CASE j = 0
  <2>1. l # 0
    BY <1>3, <1>6
  <2>2. l \in 1 .. m
    BY <2>1
  <2>3. r[l] # 1
    BY <2>2, WayStep
  <2> QED
    BY <1>3, <1>5, <1>6, <2>3
<1>7. CASE j # 0
  <2>1. j \in 1 .. k
    BY <1>4, <1>7
  <2>2. /\ s[j - 1] \in DOMAIN t /\ s[j] \in Kids(t, s[j - 1]) /\ s[j] # 1 /\ t[s[j]].name = p[j]
    BY <2>1, WayStep
  <2>3. l # 0
    BY <1>3, <1>5, <2>2
  <2>4. l \in 1 .. m
    BY <2>3
  <2>5. /\ r[l - 1] \in DOMAIN t /\ r[l] \in Kids(t, r[l - 1]) /\ t[r[l]].name = q[l]
    BY <2>4, WayStep
  <2>6. s[j - 1] = r[l - 1] /\ p[j] = q[l]
    BY <1>3, <2>2, <2>5, KidsAre
  <2>7. j - 1 \in 0 .. k /\ l - 1 \in 0 .. m /\ ~(j <= j - 1)
    BY <2>1, <2>4
  <2>8. j - 1 \notin Bad
    BY <1>2, <2>7
  <2>9. Meets(j - 1, l - 1)
    BY <2>6, <2>7, <2>8
  <2>10. j = l
    BY <2>1, <2>4, <2>9
  <2>11. ASSUME NEW i \in 1 .. j PROVE p[i] = q[i]
    <3>1. i = j \/ i \in 1 .. j - 1
      BY <2>1
    <3> QED
      BY <2>6, <2>9, <2>10, <3>1
  <2> QED
    BY <1>3, <2>10, <2>11
<1> QED
  BY <1>6, <1>7

(* One insertion, and the ways and children of before and after.           *)
LEMMA InsertedCalls ==
    ASSUME NEW t, NEW p, NEW info, NEW u, NEW new, Grows(t, p, info, u, new), NEW x
    PROVE  /\ ChildrenCalled(u, new, x) = {}
           /\ x = info.name => ChildrenCalled(u, p, x) = ChildrenCalled(t, p, x) \cup {new}
           /\ \A n \in DOMAIN t :
                 ~(n = p /\ x = info.name) => ChildrenCalled(u, n, x) = ChildrenCalled(t, n, x)
<1>1. /\ t \in Trees /\ p \in DOMAIN t /\ u \in Trees
      /\ new \notin DOMAIN t /\ u[new] = info /\ Kids(u, new) = {}
      /\ \A n \in DOMAIN t : u[n].name = t[n].name
      /\ Kids(u, p) = Kids(t, p) \cup {new}
      /\ \A n \in DOMAIN t \ {p} : Kids(u, n) = Kids(t, n)
  <2>1. IsGrown(t, p, info, u, new)
    BY Inserted
  <2> QED
    BY <2>1 DEF IsGrown
<1>2. ASSUME NEW n \in DOMAIN t
      PROVE  /\ n = p /\ x = info.name
                  => ChildrenCalled(u, n, x) = ChildrenCalled(t, n, x) \cup {new}
             /\ ~(n = p /\ x = info.name) => ChildrenCalled(u, n, x) = ChildrenCalled(t, n, x)
  <2>1. Kids(t, n) \subseteq DOMAIN t
    BY <1>1, KidsAre
  <2>2. /\ ChildrenCalled(u, n, x) = {c \in Kids(u, n) : u[c].name = x}
        /\ ChildrenCalled(t, n, x) = {c \in Kids(t, n) : t[c].name = x}
    BY DEF ChildrenCalled, Kids
  <2>3. CASE n = p
    BY <1>1, <2>1, <2>2, <2>3
  <2>4. CASE n # p
    BY <1>1, <2>1, <2>2, <2>4
  <2> QED
    BY <2>3, <2>4
<1>3. ChildrenCalled(u, new, x) = {}
  BY <1>1 DEF ChildrenCalled, Kids
<1> QED
  BY <1>1, <1>2, <1>3

LEMMA WayKept ==
    ASSUME NEW t, NEW p, NEW info, NEW u, NEW new, Grows(t, p, info, u, new),
           NEW q, NEW k \in Nat, NEW s, Way(t, q, k, s),
           \A i \in 1 .. k : ~(s[i - 1] = p /\ q[i] = info.name)
    PROVE  Way(u, q, k, s)
<1>1. t \in Trees /\ DOMAIN t \subseteq DOMAIN u
  <2>1. IsGrown(t, p, info, u, new)
    BY Inserted
  <2> QED
    BY <2>1 DEF IsGrown
<1>2. ASSUME NEW i \in 1 .. k
      PROVE  ChildrenCalled(u, s[i - 1], q[i]) = ChildrenCalled(t, s[i - 1], q[i])
  <2>1. s[i - 1] \in DOMAIN t /\ ~(s[i - 1] = p /\ q[i] = info.name)
    BY <1>1, WayStep
  <2> QED
    BY <2>1, InsertedCalls
<1> QED
  BY <1>1, <1>2 DEF Way

LEMMA WayBack ==
    ASSUME NEW t, NEW p, NEW info, NEW u, NEW new, Grows(t, p, info, u, new),
           NEW q, NEW k \in Nat, NEW s, Way(u, q, k, s), s[k] # new
    PROVE  Way(t, q, k, s)
<1>1. t \in Trees /\ u \in Trees /\ DOMAIN u = DOMAIN t \cup {new} /\ new \notin DOMAIN t
      /\ new = Len(t) + 1
  <2>1. IsGrown(t, p, info, u, new)
    BY Inserted
  <2> QED
    BY <2>1 DEF IsGrown
<1>2. \A i \in 0 .. k : s[i] \in DOMAIN u
  BY DEF Way
<1>3. ASSUME NEW i \in 0 .. k PROVE s[i] # new
  <2>1. CASE i = k
    BY <2>1
  <2>2. CASE i # k
    <3>1. i + 1 \in 1 .. k /\ (i + 1) - 1 = i
      BY <2>2
    <3>2. ChildrenCalled(u, s[i], q[i + 1]) # {}
      BY <3>1 DEF Way
    <3>3. ChildrenCalled(u, new, q[i + 1]) = {}
      BY InsertedCalls
    <3> QED
      BY <3>2, <3>3
  <2> QED
    BY <2>1, <2>2
<1>4. \A i \in 0 .. k : s[i] \in DOMAIN t
  BY <1>1, <1>2, <1>3
<1>5. ASSUME NEW i \in 1 .. k
      PROVE  /\ ChildrenCalled(t, s[i - 1], q[i]) # {}
             /\ s[i] = Max(ChildrenCalled(t, s[i - 1], q[i]))
  <2>1. i \in 0 .. k /\ i - 1 \in 0 .. k
    OBVIOUS
  <2>2. s[i - 1] \in DOMAIN t /\ s[i] # new
    BY <1>3, <1>4, <2>1
  <2>3. /\ ChildrenCalled(u, s[i - 1], q[i]) # {}
        /\ s[i] = Max(ChildrenCalled(u, s[i - 1], q[i]))
    BY DEF Way
  <2>4. new \notin ChildrenCalled(u, s[i - 1], q[i])
    <3>1. s[i - 1] \in DOMAIN u
      BY <1>1, <2>2
    <3> DEFINE C == ChildrenCalled(u, s[i - 1], q[i])
    <3>2. C # {} => Max(C) \in C /\ \A y \in C : y <= Max(C)
      BY <1>1, <3>1, CalledIs
    <3>5. \A y \in C : y <= s[i]
      BY <2>3, <3>2
    <3>3. s[i] \in 1 .. Len(t) /\ Len(t) \in Nat
      <4>1. DOMAIN t = 1 .. Len(t) /\ Len(t) \in Nat
        BY <1>1, KidsAre
      <4> QED
        BY <1>4, <2>1, <4>1
    <3>4. ~(new <= s[i])
      BY <1>1, <3>3
    <3> HIDE DEF C
    <3> QED
      BY <3>4, <3>5 DEF C
  <2>5. ChildrenCalled(u, s[i - 1], q[i]) = ChildrenCalled(t, s[i - 1], q[i])
    BY <2>2, <2>4, InsertedCalls
  <2> QED
    BY <2>3, <2>5
<1> QED
  BY <1>4, <1>5 DEF Way

----------------------------------------------------------------------------
(* What a tree holds of the files A that were added: a file that a search  *)
(* ends at was added under that path, and one that nothing was added above *)
(* lies where it was added.  Every node but the root has a parent.         *)
Kinds == {"file", "huge", "directory", "special"}
Items == [path : Paths \ {<<>>}, file : DOMAIN Disk, kind : Kinds, locale : Locale]
OnlyThese(t, A) ==
    \A p \in Paths \ {<<>>} : \A c : Lies(t, p, c) /\ ~t[c].directory =>
        \E b \in A : b.kind = "file" /\ b.path = p /\ b.file = t[c].file /\ b.locale = t[c].locale
Above(b, a) == Len(b.path) < Len(a.path) /\ \A i \in 1 .. Len(b.path) : b.path[i] = a.path[i]
AllThese(t, A) ==
    \A a \in A : a.kind = "file" /\ (\A b \in A : ~Above(b, a)) =>
        \E c : /\ Lies(t, a.path, c) /\ ~t[c].directory
               /\ t[c].locale = a.locale /\ t[c].file = a.file
Rooted(t) == \A n \in DOMAIN t \ {1} : \E p \in DOMAIN t : n \in Kids(t, p)
Holds(t, A) == OnlyThese(t, A) /\ AllThese(t, A) /\ Rooted(t) /\ (t = <<>> => A = {})

LEMMA RootedKept ==
    ASSUME NEW t, NEW p, NEW info, NEW u, NEW new, Grows(t, p, info, u, new), Rooted(t)
    PROVE  Rooted(u)
<1>1. IsGrown(t, p, info, u, new)
  BY Inserted
<1>2. ASSUME NEW n \in DOMAIN u \ {1} PROVE \E q \in DOMAIN u : n \in Kids(u, q)
  <2>1. CASE n = new
    BY <1>1, <2>1 DEF IsGrown
  <2>2. CASE n # new
    <3>1. n \in DOMAIN t \ {1}
      BY <1>1, <2>2 DEF IsGrown
    <3>2. PICK q \in DOMAIN t : n \in Kids(t, q)
      BY <3>1 DEF Rooted
    <3>3. q \in DOMAIN u /\ n \in Kids(u, q)
      BY <1>1, <3>2 DEF IsGrown
    <3> QED
      BY <3>3
  <2> QED
    BY <2>1, <2>2
<1> QED
  BY <1>2 DEF Rooted

(* A search in the grown tree ends at a node it ended at before, or at the *)
(* new one, under a path that leads into its parent.                       *)
LEMMA LiesBack ==
    ASSUME NEW t, NEW p, NEW info, NEW u, NEW new, Grows(t, p, info, u, new),
           NEW q \in Paths \ {<<>>}, NEW c, Lies(u, q, c)
    PROVE  \/ c \in DOMAIN t /\ Lies(t, q, c)
           \/ /\ c = new /\ q[Len(q)] = info.name
              /\ \E s : Way(t, q, Len(q) - 1, s) /\ s[Len(q) - 1] = p
<1>1. IsGrown(t, p, info, u, new)
  BY Inserted
<1>2. t \in Trees /\ u \in Trees /\ new \notin DOMAIN t /\ DOMAIN u = DOMAIN t \cup {new} /\ p \in DOMAIN t
  BY <1>1 DEF IsGrown
<1> DEFINE k == Len(q) - 1
<1>3. k \in Nat /\ Len(q) = k + 1
  <2>1. Len(q) \in Nat \ {0}
    BY DEF Paths
  <2> QED
    BY <2>1
<1>4. PICK s : Way(u, q, k, s) /\ c \in ChildrenCalled(u, s[k], q[Len(q)])
  BY DEF Lies
<1> HIDE DEF k
<1>5. s[k] # new
  BY <1>4, InsertedCalls
<1>6. Way(t, q, k, s)
  BY <1>3, <1>4, <1>5, WayBack
<1>7. s[k] \in DOMAIN t
  <2>1. k \in 0 .. k
    BY <1>3
  <2> QED
    BY <1>6, <2>1 DEF Way
<1>8. CASE c \in ChildrenCalled(t, s[k], q[Len(q)])
  <2>1. c \in DOMAIN t
    <3>1. c \in Kids(t, s[k])
      BY <1>2, <1>7, <1>8, CalledIs
    <3> QED
      BY <1>2, <1>7, <3>1, KidsAre
  <2>2. Lies(t, q, c)
    BY <1>6, <1>8 DEF Lies, k
  <2> QED
    BY <2>1, <2>2
<1>9. CASE c \notin ChildrenCalled(t, s[k], q[Len(q)])
  <2> DEFINE x == q[Len(q)]
  <2>0. \A n \in DOMAIN t :
           ~(n = p /\ x = info.name) => ChildrenCalled(u, n, x) = ChildrenCalled(t, n, x)
    <3> HIDE DEF x
    <3> QED
      BY ONLY InsertedCalls, Grows(t, p, info, u, new)
  <2>1. s[k] = p /\ q[Len(q)] = info.name
    BY <1>4, <1>7, <1>9, <2>0
  <2>2. ChildrenCalled(u, s[k], q[Len(q)]) = ChildrenCalled(t, s[k], q[Len(q)]) \cup {new}
    BY <2>1, InsertedCalls
  <2>3. c = new
    BY <1>4, <1>9, <2>2
  <2> QED
    BY <1>6, <2>1, <2>3 DEF k
<1> QED
  BY <1>8, <1>9

LEMMA OnePath ==
    ASSUME NEW t \in Trees, NEW p \in Paths \ {<<>>}, NEW r, Way(t, p, Len(p) - 1, r),
           NEW q \in Paths \ {<<>>}, NEW s, Way(t, q, Len(q) - 1, s),
           r[Len(p) - 1] = s[Len(q) - 1], p[Len(p)] = q[Len(q)]
    PROVE  p = q
<1>1. Len(p) \in Nat \ {0} /\ Len(q) \in Nat \ {0}
  BY DEF Paths
<1>2. Len(p) - 1 \in Nat /\ Len(q) - 1 \in Nat
  BY <1>1
<1>3. Len(p) - 1 = Len(q) - 1 /\ \A i \in 1 .. Len(p) - 1 : p[i] = q[i]
  BY <1>2, WaysMeet
<1>4. Len(p) = Len(q)
  BY <1>1, <1>3
<1>5. ASSUME NEW i \in 1 .. Len(p) PROVE p[i] = q[i]
  <2>1. i \in 1 .. Len(p) - 1 \/ i = Len(p)
    BY <1>1
  <2> QED
    BY <1>3, <1>4, <2>1
<1> QED
  BY <1>4, <1>5, SamePath

(* Inserting at the end of a way: what lies under a path stays there       *)
(* unless that way goes above it.                                          *)
LEMMA LiesKept ==
    ASSUME NEW t, NEW p, NEW info, NEW u, NEW new, Grows(t, p, info, u, new),
           NEW path \in Paths \ {<<>>}, NEW r, Way(t, path, Len(path) - 1, r),
           r[Len(path) - 1] = p, info.name = path[Len(path)],
           NEW q \in Paths \ {<<>>}, NEW c, Lies(t, q, c),
           ~(Len(path) < Len(q) /\ \A i \in 1 .. Len(path) : path[i] = q[i])
    PROVE  c \in DOMAIN t /\ Lies(u, q, c)
<1>1. IsGrown(t, p, info, u, new)
  BY Inserted
<1>2. t \in Trees /\ u \in Trees /\ new \notin DOMAIN t /\ DOMAIN u = DOMAIN t \cup {new} /\ p \in DOMAIN t
  BY <1>1 DEF IsGrown
<1> DEFINE k == Len(q) - 1
           m == Len(path) - 1
<1>3. k \in Nat /\ m \in Nat /\ Len(q) = k + 1 /\ Len(path) = m + 1
  <2>1. Len(q) \in Nat \ {0} /\ Len(path) \in Nat \ {0}
    BY DEF Paths
  <2> QED
    BY <2>1
<1>4. PICK s : Way(t, q, k, s) /\ c \in ChildrenCalled(t, s[k], q[Len(q)])
  BY DEF Lies
<1>5. Way(t, path, m, r) /\ r[m] = p
  OBVIOUS
<1> HIDE DEF k, m
<1>6. ASSUME NEW i \in 1 .. k, s[i - 1] = p, q[i] = info.name PROVE FALSE
  <2>1. i - 1 \in Nat /\ \A j \in 0 .. i - 1 : j \in 0 .. k
    BY <1>3
  <2>2. \A j \in 1 .. i - 1 : j \in 1 .. k
    BY <1>3
  <2>3. Way(t, q, i - 1, s)
    BY <1>4, <2>1, <2>2 DEF Way
  <2>4. i - 1 = m /\ \A j \in 1 .. i - 1 : q[j] = path[j]
    BY <1>2, <1>3, <1>5, <1>6, <2>1, <2>3, WaysMeet
  <2>5. Len(path) = i /\ Len(path) < Len(q)
    BY <1>3, <2>4
  <2>6. ASSUME NEW j \in 1 .. Len(path) PROVE path[j] = q[j]
    <3>1. j \in 1 .. i - 1 \/ j = i
      BY <2>5
    <3> QED
      BY <1>6, <2>4, <2>5, <3>1
  <2> QED
    BY <2>5, <2>6
<1>7. Way(u, q, k, s)
  BY <1>3, <1>4, <1>6, WayKept
<1>8. s[k] \in DOMAIN t
  <2>1. k \in 0 .. k
    BY <1>3
  <2> QED
    BY <1>4, <2>1 DEF Way
<1>9. c \in DOMAIN t
  <2>1. c \in Kids(t, s[k])
    BY <1>2, <1>4, <1>8, CalledIs
  <2> QED
    BY <1>2, <1>8, <2>1, KidsAre
<1>10. c \in ChildrenCalled(u, s[k], q[Len(q)])
  <2> DEFINE x == q[Len(q)]
  <2>1. /\ x = info.name => ChildrenCalled(u, p, x) = ChildrenCalled(t, p, x) \cup {new}
        /\ \A n \in DOMAIN t :
              ~(n = p /\ x = info.name) => ChildrenCalled(u, n, x) = ChildrenCalled(t, n, x)
    <3> HIDE DEF x
    <3> QED
      BY ONLY InsertedCalls, Grows(t, p, info, u, new)
  <2> QED
    BY <1>4, <1>8, <2>1
<1>11. Lies(u, q, c)
  BY <1>7, <1>10 DEF Lies, k
<1> QED
  BY <1>9, <1>11

(* The directories that addFile makes hold nothing, and hide nothing.      *)
LEMMA ImpliedHolds ==
    ASSUME NEW t, NEW p, NEW name \in FileNames, NEW u, NEW new,
           Grows(t, p, ImpliedDirectory(name), u, new), ChildrenCalled(t, p, name) = {},
           NEW A, A \subseteq Items, OnlyThese(t, A), AllThese(t, A), Rooted(t)
    PROVE  /\ OnlyThese(u, A) /\ AllThese(u, A) /\ Rooted(u)
           /\ \A q, s : \A k \in Nat : Way(t, q, k, s) => Way(u, q, k, s)
<1> DEFINE info == ImpliedDirectory(name)
<1>1. info.name = name /\ info.directory
  BY DEF ImpliedDirectory, RCCFileInfo
<1>2. Grows(t, p, info, u, new)
  OBVIOUS
<1> HIDE DEF info
<1>3. IsGrown(t, p, info, u, new)
  BY <1>2, Inserted
<1>4. ASSUME NEW q, NEW s, NEW k \in Nat, Way(t, q, k, s) PROVE Way(u, q, k, s)
  <2>1. \A i \in 1 .. k : ~(s[i - 1] = p /\ q[i] = info.name)
    BY <1>1, <1>4 DEF Way
  <2> QED
    BY <1>2, <1>4, <2>1, WayKept
<1>5. ASSUME NEW q \in Paths \ {<<>>}, NEW c, Lies(u, q, c), ~u[c].directory
      PROVE  Lies(t, q, c) /\ c \in DOMAIN t
  <2>1. u[new].directory
    BY <1>1, <1>3 DEF IsGrown
  <2> QED
    BY <1>2, <1>5, <2>1, LiesBack
<1>6. ASSUME NEW q \in Paths \ {<<>>}, NEW c, Lies(t, q, c)
      PROVE  Lies(u, q, c) /\ c \in DOMAIN t
  <2> DEFINE k == Len(q) - 1
  <2>1. k \in Nat
    BY DEF Paths
  <2>2. PICK s : Way(t, q, k, s) /\ c \in ChildrenCalled(t, s[k], q[Len(q)])
    BY <1>6 DEF Lies
  <2> HIDE DEF k
  <2>3. Way(u, q, k, s)
    BY <1>4, <2>1, <2>2
  <2>4. s[k] \in DOMAIN t /\ t \in Trees
    <3>1. k \in 0 .. k
      BY <2>1
    <3> QED
      BY <1>3, <2>2, <3>1 DEF Way, IsGrown
  <2>5. c \in DOMAIN t
    <3>1. c \in Kids(t, s[k])
      BY <2>2, <2>4, CalledIs
    <3> QED
      BY <2>4, <3>1, KidsAre
  <2>6. c \in ChildrenCalled(u, s[k], q[Len(q)])
    <3> DEFINE x == q[Len(q)]
    <3>1. ~(s[k] = p /\ x = info.name)
      BY <1>1, <2>2
    <3>2. /\ x = info.name => ChildrenCalled(u, p, x) = ChildrenCalled(t, p, x) \cup {new}
          /\ \A n \in DOMAIN t :
                ~(n = p /\ x = info.name) => ChildrenCalled(u, n, x) = ChildrenCalled(t, n, x)
      BY <1>2, InsertedCalls
    <3> QED
      BY <2>2, <2>4, <3>1, <3>2
  <2> QED
    BY <2>3, <2>5, <2>6 DEF Lies, k
<1>7. \A c \in DOMAIN t : /\ u[c].file = t[c].file /\ u[c].directory = t[c].directory
                          /\ u[c].locale = t[c].locale
  BY <1>3 DEF IsGrown
<1>8. OnlyThese(u, A)
  <2> SUFFICES ASSUME NEW q \in Paths \ {<<>>}, NEW c, Lies(u, q, c), ~u[c].directory
               PROVE  \E b \in A : b.kind = "file" /\ b.path = q /\ b.file = u[c].file
                                   /\ b.locale = u[c].locale
    BY DEF OnlyThese
  <2>1. Lies(t, q, c) /\ c \in DOMAIN t
    BY <1>5
  <2>2. ~t[c].directory
    BY <1>7, <2>1
  <2>3. PICK b \in A : b.kind = "file" /\ b.path = q /\ b.file = t[c].file /\ b.locale = t[c].locale
    BY <2>1, <2>2 DEF OnlyThese
  <2> QED
    BY <1>7, <2>1, <2>3
<1>9. AllThese(u, A)
  <2> SUFFICES ASSUME NEW a \in A, a.kind = "file", \A b \in A : ~Above(b, a)
               PROVE  \E c : /\ Lies(u, a.path, c) /\ ~u[c].directory
                             /\ u[c].locale = a.locale /\ u[c].file = a.file
    BY DEF AllThese
  <2>1. PICK c : /\ Lies(t, a.path, c) /\ ~t[c].directory
                 /\ t[c].locale = a.locale /\ t[c].file = a.file
    BY DEF AllThese
  <2>2. a.path \in Paths \ {<<>>}
    BY DEF Items
  <2>3. Lies(u, a.path, c) /\ c \in DOMAIN t
    BY <1>6, <2>1, <2>2
  <2> QED
    BY <1>7, <2>1, <2>3
<1>10. Rooted(u)
  BY <1>2, RootedKept
<1> QED
  BY <1>4, <1>8, <1>9, <1>10

(* What is added at the end of its way lies under its path, and hides what *)
(* lies below that only.                                                   *)
LEMMA AddedHolds ==
    ASSUME NEW t, NEW p, NEW info, NEW u, NEW new, Grows(t, p, info, u, new),
           NEW b \in Items, NEW r, Way(t, b.path, Len(b.path) - 1, r), r[Len(b.path) - 1] = p,
           info.name = b.path[Len(b.path)], b.kind = "file" <=> ~info.directory,
           b.kind = "file" => b.file = info.file /\ b.locale = info.locale,
           NEW A, A \subseteq Items, OnlyThese(t, A), AllThese(t, A), Rooted(t)
    PROVE  Holds(u, A \cup {b})
<1>1. IsGrown(t, p, info, u, new)
  BY Inserted
<1>2. t \in Trees /\ u \in Trees /\ new \notin DOMAIN t /\ DOMAIN u = DOMAIN t \cup {new} /\ p \in DOMAIN t
      /\ u[new] = info
  BY <1>1 DEF IsGrown
<1>3. \A c \in DOMAIN t : /\ u[c].file = t[c].file /\ u[c].directory = t[c].directory
                          /\ u[c].locale = t[c].locale
  BY <1>1 DEF IsGrown
<1> DEFINE path == b.path
<1>4. path \in Paths \ {<<>>} /\ \A a \in A : a.path \in Paths \ {<<>>}
  BY DEF Items
<1>5. OnlyThese(u, A \cup {b})
  <2> SUFFICES ASSUME NEW q \in Paths \ {<<>>}, NEW c, Lies(u, q, c), ~u[c].directory
               PROVE  \E d \in A \cup {b} : d.kind = "file" /\ d.path = q /\ d.file = u[c].file
                                            /\ d.locale = u[c].locale
    BY DEF OnlyThese
  <2>1. CASE c \in DOMAIN t /\ Lies(t, q, c)
    <3>1. ~t[c].directory
      BY <1>3, <2>1
    <3>2. PICK d \in A : d.kind = "file" /\ d.path = q /\ d.file = t[c].file /\ d.locale = t[c].locale
      BY <2>1, <3>1 DEF OnlyThese
    <3> QED
      BY <1>3, <2>1, <3>2
  <2>2. CASE /\ c = new /\ q[Len(q)] = info.name
             /\ \E s : Way(t, q, Len(q) - 1, s) /\ s[Len(q) - 1] = p
    <3>1. PICK s : Way(t, q, Len(q) - 1, s) /\ s[Len(q) - 1] = p
      BY <2>2
    <3>2. q = path
      BY <1>2, <1>4, <2>2, <3>1, OnePath
    <3> QED
      BY <1>2, <2>2, <3>2
  <2> QED
    BY <2>1, <2>2, LiesBack
<1>6. AllThese(u, A \cup {b})
  <2> SUFFICES ASSUME NEW a \in A \cup {b}, a.kind = "file", \A d \in A \cup {b} : ~Above(d, a)
               PROVE  \E c : /\ Lies(u, a.path, c) /\ ~u[c].directory
                             /\ u[c].locale = a.locale /\ u[c].file = a.file
    BY DEF AllThese
  <2>1. CASE a = b
    <3> DEFINE m == Len(path) - 1
    <3>1. m \in Nat
      BY <1>4 DEF Paths
    <3>2. Way(t, path, m, r) /\ r[m] = p
      OBVIOUS
    <3> HIDE DEF m
    <3>3. ASSUME NEW i \in 1 .. m, r[i - 1] = p PROVE FALSE
      <4>1. i - 1 \in Nat /\ (\A j \in 0 .. i - 1 : j \in 0 .. m) /\ \A j \in 1 .. i - 1 : j \in 1 .. m
        BY <3>1
      <4>2. Way(t, path, i - 1, r)
        BY <3>2, <4>1 DEF Way
      <4>3. i - 1 = m
        BY <1>2, <3>1, <3>2, <3>3, <4>1, <4>2, WaysMeet
      <4> QED
        BY <3>1, <4>3
    <3>4. Way(u, path, m, r)
      <4>1. \A i \in 1 .. m : ~(r[i - 1] = p /\ path[i] = info.name)
        BY <3>3
      <4> QED
        BY ONLY <3>1, <3>2, <4>1, WayKept, Grows(t, p, info, u, new)
    <3>5. new \in ChildrenCalled(u, p, info.name)
      BY InsertedCalls
    <3>6. Lies(u, path, new)
      BY <3>2, <3>4, <3>5 DEF Lies, m
    <3> QED
      BY <1>2, <2>1, <3>6
  <2>2. CASE a \in A
    <3>1. PICK c : /\ Lies(t, a.path, c) /\ ~t[c].directory
                   /\ t[c].locale = a.locale /\ t[c].file = a.file
      BY <2>2 DEF AllThese
    <3>2. ~(Len(path) < Len(a.path) /\ \A i \in 1 .. Len(path) : path[i] = a.path[i])
      BY DEF Above
    <3>3. a.path \in Paths \ {<<>>}
      BY <1>4, <2>2
    <3>4. c \in DOMAIN t /\ Lies(u, a.path, c)
      <4>1. Way(t, path, Len(path) - 1, r) /\ r[Len(path) - 1] = p /\ info.name = path[Len(path)]
        OBVIOUS
      <4> HIDE DEF path
      <4> QED
        BY <1>4, <3>1, <3>2, <3>3, <4>1, LiesKept
    <3> QED
      BY <1>3, <3>1, <3>4
  <2> QED
    BY <2>1, <2>2
<1>7. Rooted(u)
  BY RootedKept
<1>8. u # <<>>
  BY <1>2
<1> QED
  BY <1>5, <1>6, <1>7, <1>8 DEF Holds

(* A way that goes one step on.                                            *)
Leads(t, p, k, n) == \E s : Way(t, p, k, s) /\ s[k] = n
LEMMA WayGrows ==
    ASSUME NEW t, NEW p, NEW k \in Nat, NEW m, Leads(t, p, k, m), NEW n \in DOMAIN t,
           NEW C, C = ChildrenCalled(t, m, p[k + 1]), C # {}, n = Max(C)
    PROVE  Leads(t, p, k + 1, n)
<1> PICK s : Way(t, p, k, s) /\ s[k] = m
  BY DEF Leads
<1> DEFINE r == [i \in 0 .. k + 1 |-> IF i = k + 1 THEN n ELSE s[i]]
<1>1. /\ r[k + 1] = n /\ \A i \in 0 .. k : r[i] = s[i]
      /\ k + 1 \in 0 .. k + 1 /\ 0 \in 0 .. k
  OBVIOUS
<1>2. ASSUME NEW i \in 0 .. k + 1 PROVE r[i] \in DOMAIN t
  <2>1. i = k + 1 \/ i \in 0 .. k
    OBVIOUS
  <2> HIDE DEF r
  <2> QED
    BY <1>1, <2>1 DEF Way
<1> HIDE DEF r
<1>3. ASSUME NEW i \in 1 .. k + 1
      PROVE  /\ ChildrenCalled(t, r[i - 1], p[i]) # {}
             /\ r[i] = Max(ChildrenCalled(t, r[i - 1], p[i]))
  <2>1. CASE i = k + 1
    <3>1. i - 1 = k /\ r[k] = s[k]
      BY <1>1, <2>1
    <3> QED
      BY <1>1, <2>1, <3>1
  <2>2. CASE i # k + 1
    <3>1. i \in 1 .. k /\ r[i] = s[i] /\ r[i - 1] = s[i - 1]
      BY <1>1, <2>2
    <3> QED
      BY <3>1 DEF Way
  <2> QED
    BY <2>1, <2>2
<1>4. r[0] = 1
  BY <1>1 DEF Way
<1>5. Way(t, p, k + 1, r)
  BY <1>2, <1>3, <1>4 DEF Way
<1> QED
  BY <1>1, <1>5 DEF Leads

LEMMA FirstHolds ==
    ASSUME NEW t \in Trees, NEW A, Holds(t, A), NEW u, u = FirstPlace(t).tree
    PROVE  OnlyThese(u, A) /\ AllThese(u, A) /\ Rooted(u) /\ 1 \in DOMAIN u
<1>1. CASE t # <<>>
  <2>1. u = t
    BY <1>1 DEF FirstPlace
  <2> QED
    BY <1>1, <2>1, KidsAre DEF Holds
<1>2. CASE t = <<>>
  <2> DEFINE d == ImpliedDirectory("")
  <2>1. u = <<d>> /\ A = {}
    BY <1>2 DEF FirstPlace, Holds
  <2>2. d.children = <<>>
    BY DEF ImpliedDirectory, RCCFileInfo
  <2> HIDE DEF d
  <2>3. DOMAIN u = {1} /\ u[1] = d
    BY <2>1
  <2>4. ASSUME NEW n \in DOMAIN u, NEW x PROVE ChildrenCalled(u, n, x) = {}
    BY <2>2, <2>3 DEF ChildrenCalled, Range
  <2>5. ASSUME NEW p \in Paths \ {<<>>}, NEW c PROVE ~Lies(u, p, c)
    <3> DEFINE k == Len(p) - 1
    <3>1. k \in 0 .. k
      BY DEF Paths
    <3>2. ASSUME NEW s, Way(u, p, k, s) PROVE c \notin ChildrenCalled(u, s[k], p[Len(p)])
      BY <2>4, <3>1, <3>2 DEF Way
    <3> QED
      BY <3>2 DEF Lies
  <2>6. OnlyThese(u, A)
    BY <2>5 DEF OnlyThese
  <2> QED
    BY <2>1, <2>3, <2>6 DEF AllThese, Rooted
<1> QED
  BY <1>1, <1>2

GoodPlace(r, p, k, A) ==
    /\ OnlyThese(r.tree, A) /\ AllThese(r.tree, A) /\ Rooted(r.tree)
    /\ Leads(r.tree, p, k, r.parent)
LEMMA EnterHolds ==
    ASSUME NEW r \in Places, NEW p, NEW k \in Nat, NEW A, A \subseteq Items,
           GoodPlace(r, p, k, A), p[k + 1] \in FileNames, NEW e, e = Enter(r, p[k + 1])
    PROVE  GoodPlace(e, p, k + 1, A)
<1> DEFINE t == r.tree
           n == r.parent
           name == p[k + 1]
           C == ChildrenCalled(t, n, name)
<1>1. t \in Trees /\ n \in DOMAIN t
  BY DEF Places
<1> OnlyThese(t, A) /\ AllThese(t, A) /\ Rooted(t) /\ Leads(t, p, k, n)
  BY DEF GoodPlace
<1>2. CASE C # {}
  <2>1. e = [r EXCEPT !.parent = Max(C)]
    BY <1>2 DEF Enter
  <2>2. e.tree = t /\ e.parent = Max(C)
    BY <2>1 DEF Places
  <2>3. Max(C) \in DOMAIN t
    <3>1. C \subseteq Kids(t, n) /\ Max(C) \in C
      BY <1>1, <1>2, CalledIs
    <3>2. Kids(t, n) \subseteq DOMAIN t
      BY <1>1, KidsAre
    <3> QED
      BY <3>1, <3>2
  <2> DEFINE m == Max(C)
  <2> HIDE DEF m
  <2>4. Leads(t, p, k + 1, m)
    <3>1. m = Max(C) /\ m \in DOMAIN t /\ C = ChildrenCalled(t, n, p[k + 1])
      BY <2>3 DEF m
    <3> HIDE DEF C, t, n
    <3> QED
      BY <1>2, <3>1, WayGrows
  <2> QED
    BY <2>2, <2>4 DEF GoodPlace, m
<1>3. CASE C = {}
  <2> DEFINE info == ImpliedDirectory(name)
             u == Insert(t, n, info)
             new == Len(t) + 1
  <2>1. e = [tree |-> u, parent |-> new]
    BY <1>3 DEF Enter
  <2>2. e.tree = u /\ e.parent = new
    BY <2>1
  <2>3. Grows(t, n, ImpliedDirectory(name), u, new)
    BY <1>1, ImpliedIsNew DEF Grows
  <2> HIDE DEF u, new, t, n, name, info
  <2>4. /\ OnlyThese(u, A) /\ AllThese(u, A) /\ Rooted(u)
        /\ \A q, w : \A j \in Nat : Way(t, q, j, w) => Way(u, q, j, w)
    <3>1. OnlyThese(t, A) /\ AllThese(t, A) /\ Rooted(t) /\ ChildrenCalled(t, n, name) = {} /\ name \in FileNames
      BY <1>3 DEF t, n, name
    <3> HIDE DEF C
    <3> QED
      BY <2>3, <3>1, ImpliedHolds
  <2>5. Leads(u, p, k, n)
    <3>1. Leads(t, p, k, n)
      BY DEF t, n
    <3> QED
      BY <2>4, <3>1 DEF Leads
  <2>6. ChildrenCalled(u, n, name) = {new}
    <3>1. ImpliedDirectory(name).name = name
      BY DEF ImpliedDirectory, RCCFileInfo
    <3>2. ChildrenCalled(u, n, name) = ChildrenCalled(t, n, name) \cup {new}
      BY <2>3, <3>1, InsertedCalls
    <3> QED
      BY <1>3, <3>2
  <2>7. IsGrown(t, n, ImpliedDirectory(name), u, new)
    BY <2>3, Inserted
  <2>8. new \in DOMAIN u /\ n \in DOMAIN u /\ u \in Trees
    BY <2>7 DEF IsGrown
  <2>9. Max({new}) = new
    <3>1. Max(ChildrenCalled(u, n, name)) \in ChildrenCalled(u, n, name)
      BY <2>6, <2>8, CalledIs
    <3> QED
      BY <2>6, <3>1
  <2>10. Leads(u, p, k + 1, new)
    <3> DEFINE D == ChildrenCalled(u, n, p[k + 1])
    <3>1. D = {new}
      BY <2>6 DEF name
    <3> HIDE DEF D
    <3>2. D # {} /\ new = Max(D)
      BY <2>9, <3>1
    <3>3. D = ChildrenCalled(u, n, p[k + 1])
      BY DEF D
    <3> HIDE DEF C
    <3> QED
      BY <2>5, <2>8, <3>2, <3>3, WayGrows
  <2> QED
    BY <2>2, <2>4, <2>10 DEF GoodPlace
<1> QED
  BY <1>2, <1>3

(* addFile adds one more to what the tree holds.                           *)
LEMMA AddFileHolds ==
    ASSUME NEW t \in Trees, NEW A, A \subseteq Items, Holds(t, A), NEW b \in Items,
           NEW info, New(info), info.name = b.path[Len(b.path)], b.kind = "file" <=> ~info.directory,
           b.kind = "file" => b.file = info.file /\ b.locale = info.locale
    PROVE  Holds(AddFile(t, b.path, info), A \cup {b})
<1> DEFINE path == b.path
           n == Len(path) - 1
<1>1. path \in Paths \ {<<>>}
  BY DEF Items
<1>2. n \in Nat /\ \A i \in 1 .. n : path[i] \in FileNames
  BY <1>1 DEF Paths
<1>3. PICK g : /\ g[0] = FirstPlace(t) /\ \A i \in 0 .. n : g[i] \in Places
               /\ \A i \in 1 .. n : g[i] = Enter(g[i - 1], path[i])
               /\ AddFile(t, path, info) = Insert(g[n].tree, g[n].parent, info)
  BY <1>1, Entered
<1> HIDE DEF n, path
<1> DEFINE Good(i) == GoodPlace(g[i], path, i, A)
           Bad == {i \in 0 .. n : ~Good(i)}
<1>4. Good(0)
  <2> DEFINE u == FirstPlace(t).tree
  <2>1. OnlyThese(u, A) /\ AllThese(u, A) /\ Rooted(u) /\ 1 \in DOMAIN u
    BY FirstHolds
  <2>2. FirstPlace(t).parent = 1
    BY DEF FirstPlace
  <2> HIDE DEF u
  <2> DEFINE s == [i \in {0} |-> 1]
  <2>3. Way(u, path, 0, s) /\ s[0] = 1
    <3>1. \A i \in 0 .. 0 : i = 0
      OBVIOUS
    <3>2. 1 .. 0 = {}
      OBVIOUS
    <3>3. s[0] = 1
      OBVIOUS
    <3> HIDE DEF s
    <3> QED
      BY <2>1, <3>1, <3>2, <3>3 DEF Way
  <2> HIDE DEF s
  <2>4. g[0].tree = u /\ g[0].parent = 1
    BY <1>3, <2>2 DEF u
  <2>5. Leads(u, path, 0, 1)
    BY <2>3 DEF Leads
  <2> QED
    BY <2>1, <2>4, <2>5 DEF GoodPlace
<1>5. ASSUME NEW i \in 1 .. n, Good(i - 1) PROVE Good(i)
  <2>1. i - 1 \in Nat /\ i - 1 \in 0 .. n /\ (i - 1) + 1 = i
    BY <1>2
  <2> DEFINE q == g[i - 1]
             k == i - 1
  <2>2. q \in Places /\ g[i] = Enter(q, path[k + 1]) /\ path[k + 1] \in FileNames /\ k \in Nat
        /\ GoodPlace(q, path, k, A) /\ k + 1 = i
    BY <1>2, <1>3, <1>5, <2>1
  <2> HIDE DEF q, k
  <2>3. GoodPlace(g[i], path, k + 1, A)
    BY <2>2, EnterHolds
  <2> QED
    BY <2>2, <2>3
<1> HIDE DEF Good
<1>6. Bad = {}
  <2> SUFFICES ASSUME Bad # {} PROVE FALSE
    OBVIOUS
  <2>1. PICK i \in Bad : \A j \in Bad : i <= j
    <3>1. Bad \in SUBSET Nat
      OBVIOUS
    <3> HIDE DEF Bad
    <3> QED
      BY <3>1, NatMin
  <2>2. i \in 1 .. n /\ i - 1 \in 0 .. n /\ ~(i <= i - 1)
    BY <1>2, <1>4, <2>1
  <2>3. Good(i - 1)
    BY <2>1, <2>2
  <2> QED
    BY <1>5, <2>1, <2>2, <2>3
<1>7. Good(n)
  BY <1>2, <1>6
<1>8. PICK s : Way(g[n].tree, path, n, s) /\ s[n] = g[n].parent
  BY <1>7 DEF Good, GoodPlace, Leads
<1> DEFINE last == g[n].tree
           new == Len(last) + 1
           p == g[n].parent
           u == AddFile(t, path, info)
<1>9. Grows(last, p, info, u, new)
  <2>1. g[n] \in Places
    BY <1>2, <1>3
  <2>2. last \in Trees /\ p \in DOMAIN last
    BY <2>1 DEF Places
  <2> QED
    BY <1>3, <2>2 DEF Grows
<1>10. OnlyThese(last, A) /\ AllThese(last, A) /\ Rooted(last)
  BY <1>7 DEF Good, GoodPlace
<1> HIDE DEF last, new, p, u
<1>11. Way(last, b.path, Len(b.path) - 1, s) /\ s[Len(b.path) - 1] = p
  BY <1>8 DEF last, p, n, path
<1>12. Holds(u, A \cup {b})
  BY <1>9, <1>10, <1>11, AddedHolds
<1> QED
  BY <1>12 DEF u, path

(* What the traversals change of a node makes no difference.               *)
LEMMA HoldsSame ==
    ASSUME NEW t \in Trees, NEW u, DOMAIN u = DOMAIN t, u = <<>> => t = <<>>,
           \A n \in DOMAIN t : /\ u[n].name = t[n].name /\ u[n].file = t[n].file
                               /\ u[n].directory = t[n].directory /\ u[n].locale = t[n].locale
                               /\ u[n].children = t[n].children,
           NEW A, A \subseteq Items, Holds(t, A)
    PROVE  Holds(u, A)
<1>1. ASSUME NEW n \in DOMAIN t PROVE Kids(u, n) = Kids(t, n) /\ Kids(t, n) \subseteq DOMAIN t
  BY KidsAre DEF Kids
<1>2. ASSUME NEW n \in DOMAIN t, NEW x PROVE ChildrenCalled(u, n, x) = ChildrenCalled(t, n, x)
  <2>1. /\ ChildrenCalled(u, n, x) = {c \in Kids(u, n) : u[c].name = x}
        /\ ChildrenCalled(t, n, x) = {c \in Kids(t, n) : t[c].name = x}
    BY DEF ChildrenCalled, Kids
  <2> QED
    BY <1>1, <2>1
<1>3. ASSUME NEW q, NEW s, NEW k \in Nat PROVE Way(u, q, k, s) <=> Way(t, q, k, s)
  <2>1. \A i \in 1 .. k : i - 1 \in 0 .. k
    OBVIOUS
  <2> QED
    BY <1>2, <2>1 DEF Way
<1>4. ASSUME NEW q \in Paths \ {<<>>}, NEW c
      PROVE  /\ Lies(u, q, c) <=> Lies(t, q, c)
             /\ Lies(t, q, c) => c \in DOMAIN t
  <2> DEFINE k == Len(q) - 1
  <2>1. k \in Nat /\ k \in 0 .. k
    BY DEF Paths
  <2> HIDE DEF k
  <2>2. ASSUME NEW s, Way(t, q, k, s)
        PROVE  /\ s[k] \in DOMAIN t
               /\ ChildrenCalled(u, s[k], q[Len(q)]) = ChildrenCalled(t, s[k], q[Len(q)])
               /\ ChildrenCalled(t, s[k], q[Len(q)]) \subseteq DOMAIN t
    <3>1. s[k] \in DOMAIN t
      BY <2>1, <2>2 DEF Way
    <3> QED
      BY <1>1, <1>2, <3>1, CalledIs
  <2> QED
    BY <1>3, <2>1, <2>2 DEF Lies, k
<1>5. OnlyThese(u, A)
  <2> SUFFICES ASSUME NEW p \in Paths \ {<<>>}, NEW c, Lies(u, p, c), ~u[c].directory
               PROVE  \E b \in A : b.kind = "file" /\ b.path = p /\ b.file = u[c].file
                                   /\ b.locale = u[c].locale
    BY DEF OnlyThese
  <2>1. Lies(t, p, c) /\ c \in DOMAIN t
    BY <1>4
  <2>2. PICK b \in A : b.kind = "file" /\ b.path = p /\ b.file = t[c].file /\ b.locale = t[c].locale
    BY <2>1 DEF Holds, OnlyThese
  <2> QED
    BY <2>1, <2>2
<1>6. AllThese(u, A)
  <2> SUFFICES ASSUME NEW a \in A, a.kind = "file", \A b \in A : ~Above(b, a)
               PROVE  \E c : /\ Lies(u, a.path, c) /\ ~u[c].directory
                             /\ u[c].locale = a.locale /\ u[c].file = a.file
    BY DEF AllThese
  <2>1. PICK c : /\ Lies(t, a.path, c) /\ ~t[c].directory
                 /\ t[c].locale = a.locale /\ t[c].file = a.file
    BY DEF Holds, AllThese
  <2>2. a.path \in Paths \ {<<>>}
    BY DEF Items
  <2> QED
    BY <1>4, <2>1, <2>2
<1>7. Rooted(u)
  BY <1>1 DEF Holds, Rooted
<1> QED
  BY <1>5, <1>6, <1>7 DEF Holds

----------------------------------------------------------------------------
(* What a document asks for, in parts.                                     *)
Elements == <<"RCC", "qresource", "file">>
Tags == {"RCC", "qresource", "file"}
Resources(doc, i) == {j \in 1 .. i : doc[j].kind = "start" /\ doc[j].tag = "qresource"}
PrefixOf(doc, i) == AttributeOr(doc[Max(Resources(doc, i))].attributes, "prefix", <<>>)
LocaleOf(doc, i) ==
    LET of == doc[Max(Resources(doc, i))].attributes
    IN  IF "lang" \in DOMAIN of THEN Locales[of.lang] ELSE CLocale
PathOf(doc, i) ==
    command.root \o PrefixOf(doc, i)
        \o WithoutParents(CleanPath(AttributeOr(doc[i].attributes, "alias", doc[i + 1].text)))
Item(doc, i, p, f) == [path |-> p, file |-> f, kind |-> Disk[f].kind, locale |-> LocaleOf(doc, i)]

LEMMA AskedByIs ==
    ASSUME NEW doc, NEW i
    PROVE  AskedBy(doc, i) =
              LET file == doc[i + 1].text
              IN  IF file \notin DOMAIN Disk THEN {}
                  ELSE IF Iterable(file)
                  THEN {Item(doc, i, Append(Stem(PathOf(doc, i), file), Last(f)), f) :
                           f \in Range(Disk[file].below)}
                  ELSE {Item(doc, i, PathOf(doc, i), file)}
BY DEF AskedBy, Item, PathOf, PrefixOf, LocaleOf, Resources

(* The reader's state by what it has taken of the document.                *)
Open(s) ==
    /\ s \in Seq(Tags) /\ Len(s) <= 3
    /\ \A i \in 1 .. Len(s) : s[i] = Elements[i]
Orderly ==
    /\ \A doc \in Range(command.inputs) : InOnePiece(doc)
    /\ command.list => \A doc \in Range(command.inputs) : Valid(doc)
TagsRead(doc) ==
    /\ at <= Len(doc) /\ Open(tags)
    /\ Len(tags) >= 2 => Resources(doc, at) # {}
    /\ command.list => Len(tags) = Nesting(doc, at + 1)
ResourceRead(doc) ==
    Resources(doc, at) # {} => resource.prefix = PrefixOf(doc, at) /\ resource.locale = LocaleOf(doc, at)
EntryRead(doc) ==
    at >= 1 /\ doc[at].kind = "start" /\ doc[at].tag = "file"
        => entry.alias = AttributeOr(doc[at].attributes, "alias", NoAlias)
FoundRead(doc) ==
    iterator # <<>> =>
        /\ at - 1 \in FileElements(doc) /\ entry.alias = Stem(PathOf(doc, at - 1), doc[at].text)
        /\ Resources(doc, at - 1) # {}
        /\ Iterable(doc[at].text)
        /\ Range(iterator) \subseteq Range(Disk[doc[at].text].below)
DocumentRead(doc) == TagsRead(doc) /\ ResourceRead(doc) /\ EntryRead(doc) /\ FoundRead(doc)
(* Everything that was asked for so far was added, except what the         *)
(* iterator has still to return.                                           *)
Added(A) ==
    \A j \in DOMAIN command.inputs : \A i \in FileElements(command.inputs[j]) :
        \A a \in AskedBy(command.inputs[j], i) :
            a.kind # "huge" /\ (j < input \/ (j = input /\ i + 1 <= at)) =>
                a \in A \/ (j = input /\ i + 1 = at /\ a.file \in Range(iterator))
Reading ==
    /\ input <= Len(command.inputs) => DocumentRead(Document)
    /\ input > Len(command.inputs) => iterator = <<>>
    /\ \E A : A \subseteq Asked /\ A \subseteq Items /\ Added(A) /\ Holds(nodes, A)
Filled == Holds(nodes, Asked) /\ Asked \subseteq Items
FilesInv ==
    Orderly => /\ stage = "interpretResourceFile" => Reading
               /\ stage \notin {"interpretResourceFile", "failed"} => Filled

LEMMA OpenIs ==
    ASSUME NEW s, Open(s)
    PROVE  /\ Len(s) \in 0 .. 3 /\ (s = <<>> <=> Len(s) = 0)
           /\ s # <<>> => Last(s) = Elements[Len(s)]
           /\ Open(Front(s)) /\ Len(Front(s)) = IF s = <<>> THEN 0 ELSE Len(s) - 1
           /\ Len(s) < 3 => /\ Open(Append(s, Elements[Len(s) + 1]))
                            /\ Len(Append(s, Elements[Len(s) + 1])) = Len(s) + 1
<1>1. s \in Seq(Tags) /\ Len(s) \in 0 .. 3 /\ \A i \in 1 .. Len(s) : s[i] = Elements[i]
  <2>1. s \in Seq(Tags) /\ Len(s) <= 3 /\ \A i \in 1 .. Len(s) : s[i] = Elements[i]
    BY DEF Open
  <2>2. Len(s) \in Nat
    BY <2>1
  <2> DEFINE k == Len(s)
  <2>3. k \in Nat /\ k <= 3
    BY <2>1, <2>2
  <2> HIDE DEF k
  <2>4. k \in 0 .. 3
    BY <2>3
  <2> QED
    BY <2>1, <2>4 DEF k
<1>2. s = <<>> <=> Len(s) = 0
  BY <1>1
<1>3. s # <<>> => Last(s) = Elements[Len(s)]
  BY <1>1, <1>2 DEF Last
<1>4. Open(Front(s)) /\ Len(Front(s)) = IF s = <<>> THEN 0 ELSE Len(s) - 1
  <2>1. CASE s = <<>>
    <3>1. Front(<<>>) = <<>>
      BY DEF Front
    <3>2. Front(s) = s
      BY <2>1, <3>1
    <3> QED
      BY <1>2, <2>1, <3>2
  <2>2. CASE s # <<>>
    <3>1. Len(s) - 1 \in 0 .. Len(s)
      BY <1>1, <1>2, <2>2
    <3>2. /\ SubSeq(s, 1, Len(s) - 1) \in Seq(Tags) /\ Len(SubSeq(s, 1, Len(s) - 1)) = Len(s) - 1
          /\ \A i \in 1 .. Len(s) - 1 : SubSeq(s, 1, Len(s) - 1)[i] = s[i]
      BY <1>1, <3>1, FirstPart
    <3>3. /\ Front(s) \in Seq(Tags) /\ Len(Front(s)) = Len(s) - 1
          /\ \A i \in 1 .. Len(s) - 1 : Front(s)[i] = s[i]
      BY <3>2 DEF Front
    <3>4. \A i \in 1 .. Len(s) - 1 : i \in 1 .. Len(s)
      BY <1>1
    <3> QED
      BY <1>1, <2>2, <3>3, <3>4 DEF Open
  <2> QED
    BY <2>1, <2>2
<1>5. ASSUME Len(s) < 3
      PROVE  /\ Open(Append(s, Elements[Len(s) + 1]))
             /\ Len(Append(s, Elements[Len(s) + 1])) = Len(s) + 1
  <2> DEFINE e == Elements[Len(s) + 1]
  <2>1. e \in Tags
    <3>1. Len(s) + 1 = 1 \/ Len(s) + 1 = 2 \/ Len(s) + 1 = 3
      BY <1>1, <1>5
    <3>2. Elements[1] = "RCC" /\ Elements[2] = "qresource" /\ Elements[3] = "file"
      BY DEF Elements
    <3> QED
      BY <3>1, <3>2 DEF Tags
  <2>2. e = Elements[Len(s) + 1]
    OBVIOUS
  <2> HIDE DEF e
  <2>3. /\ Append(s, e) \in Seq(Tags) /\ Len(Append(s, e)) = Len(s) + 1
        /\ Append(s, e)[Len(s) + 1] = e
        /\ \A i \in DOMAIN s : i \in DOMAIN Append(s, e) /\ Append(s, e)[i] = s[i]
    BY <1>1, <2>1, Appended
  <2>4. ASSUME NEW i \in 1 .. Len(s) + 1 PROVE Append(s, e)[i] = Elements[i]
    <3>1. i = Len(s) + 1 \/ i \in 1 .. Len(s)
      BY <1>1
    <3>2. DOMAIN s = 1 .. Len(s)
      BY <1>1
    <3> QED
      BY <1>1, <2>2, <2>3, <3>1, <3>2
  <2>5. Len(s) + 1 <= 3
    BY <1>1, <1>5
  <2>6. Open(Append(s, e))
    BY <2>3, <2>4, <2>5 DEF Open
  <2> QED
    BY <2>3, <2>6 DEF e
<1> QED
  BY <1>1, <1>2, <1>3, <1>4, <1>5

LEMMA NestingIs ==
    ASSUME NEW S, NEW doc \in Seq(S), NEW i \in 1 .. Len(doc)
    PROVE  Nesting(doc, i + 1) = Nesting(doc, i) + (IF doc[i].kind = "start" THEN 1
                                                    ELSE IF doc[i].kind = "end" THEN -1 ELSE 0)
<1> DEFINE T(k, kind) == {j \in 1 .. k - 1 : doc[j].kind = kind}
<1>1. i \in Nat /\ i >= 1 /\ (i + 1) - 1 = i
  OBVIOUS
<1>2. ASSUME NEW kind
      PROVE  /\ Cardinality(T(i, kind)) \in Int
             /\ Cardinality(T(i + 1, kind)) = Cardinality(T(i, kind)) + IF doc[i].kind = kind THEN 1 ELSE 0
  <2>1. IsFiniteSet(T(i, kind))
    <3>1. IsFiniteSet(1 .. i - 1)
      BY <1>1, FS_Interval
    <3>2. T(i, kind) \subseteq 1 .. i - 1
      OBVIOUS
    <3> HIDE DEF T
    <3> QED
      BY <3>1, <3>2, FS_Subset
  <2>2. i \notin T(i, kind)
    BY <1>1
  <2>3. T(i + 1, kind) = T(i, kind) \cup IF doc[i].kind = kind THEN {i} ELSE {}
    <3>1. \A j : j \in 1 .. (i + 1) - 1 <=> j \in 1 .. i - 1 \/ j = i
      BY <1>1
    <3> QED
      BY <3>1
  <2> HIDE DEF T
  <2>4. Cardinality(T(i, kind)) \in Nat
    BY <2>1, FS_CardinalityType
  <2>5. Cardinality(T(i, kind) \cup {i}) = Cardinality(T(i, kind)) + 1
    BY <2>1, <2>2, FS_AddElement
  <2>6. T(i, kind) \cup {} = T(i, kind)
    OBVIOUS
  <2>7. CASE doc[i].kind = kind
    <3>1. T(i + 1, kind) = T(i, kind) \cup {i}
      BY <2>3, <2>7
    <3>2. Cardinality(T(i + 1, kind)) = Cardinality(T(i, kind)) + 1
      BY <2>5, <3>1
    <3> QED
      BY <2>4, <2>7, <3>2
  <2>8. CASE doc[i].kind # kind
    <3>1. T(i + 1, kind) = T(i, kind)
      BY <2>3, <2>6, <2>8
    <3>2. Cardinality(T(i + 1, kind)) = Cardinality(T(i, kind))
      BY <3>1
    <3> DEFINE m == Cardinality(T(i, kind))
    <3>3. m \in Nat
      BY <2>4
    <3> HIDE DEF m
    <3>4. m = m + 0
      BY <3>3
    <3> QED
      BY <2>4, <2>8, <3>2, <3>4 DEF m
  <2> QED
    BY <2>7, <2>8
<1>3. \A k : Nesting(doc, k) = Cardinality(T(k, "start")) - Cardinality(T(k, "end"))
  BY DEF Nesting
<1> HIDE DEF T
<1>4. /\ Cardinality(T(i, "start")) \in Int /\ Cardinality(T(i, "end")) \in Int
      /\ Cardinality(T(i + 1, "start")) = Cardinality(T(i, "start")) + IF doc[i].kind = "start" THEN 1 ELSE 0
      /\ Cardinality(T(i + 1, "end")) = Cardinality(T(i, "end")) + IF doc[i].kind = "end" THEN 1 ELSE 0
  BY <1>2
<1>5. "start" # "end"
  OBVIOUS
<1> QED
  BY <1>3, <1>4, <1>5

LEMMA ResourcesIs ==
    ASSUME NEW doc, NEW i \in Nat
    PROVE  /\ doc[i + 1].kind = "start" /\ doc[i + 1].tag = "qresource" =>
                  Resources(doc, i + 1) # {} /\ Max(Resources(doc, i + 1)) = i + 1
           /\ ~(doc[i + 1].kind = "start" /\ doc[i + 1].tag = "qresource") =>
                  Resources(doc, i + 1) = Resources(doc, i)
           /\ Resources(doc, i) # {} => /\ Max(Resources(doc, i)) \in 1 .. i
                                        /\ doc[Max(Resources(doc, i))].kind = "start"
<1>1. ASSUME NEW j \in Nat, NEW R, R = Resources(doc, j), R # {}
      PROVE  Max(R) \in R /\ \A k \in R : k <= Max(R)
  <2>1. R \in SUBSET (1 .. j)
    BY <1>1 DEF Resources
  <2> QED
    BY <1>1, <2>1, MaxIs
<1>2. ASSUME doc[i + 1].kind = "start" /\ doc[i + 1].tag = "qresource"
      PROVE  Resources(doc, i + 1) # {} /\ Max(Resources(doc, i + 1)) = i + 1
  <2> DEFINE R == Resources(doc, i + 1)
  <2>1. i + 1 \in R /\ R \subseteq 1 .. i + 1
    BY <1>2 DEF Resources
  <2>2. i + 1 \in Nat
    OBVIOUS
  <2> HIDE DEF R
  <2>3. Max(R) \in R /\ \A k \in R : k <= Max(R)
    BY <1>1, <2>1, <2>2 DEF R
  <2>4. Max(R) \in 1 .. i + 1 /\ i + 1 <= Max(R)
    BY <2>1, <2>3
  <2>5. Max(R) = i + 1
    BY <2>4
  <2> QED
    BY <2>1, <2>5 DEF R
<1>3. ASSUME ~(doc[i + 1].kind = "start" /\ doc[i + 1].tag = "qresource")
      PROVE  Resources(doc, i + 1) = Resources(doc, i)
  <2>1. \A j : j \in 1 .. i + 1 <=> j \in 1 .. i \/ j = i + 1
    OBVIOUS
  <2> QED
    BY <1>3, <2>1 DEF Resources
<1>4. ASSUME Resources(doc, i) # {}
      PROVE  /\ Max(Resources(doc, i)) \in 1 .. i
             /\ doc[Max(Resources(doc, i))].kind = "start"
  <2> DEFINE R == Resources(doc, i)
             m == Max(R)
  <2>1. m \in R
    BY <1>1, <1>4
  <2> QED
    BY <2>1 DEF Resources
<1> QED
  BY <1>2, <1>3, <1>4

LEMMA DocumentIs ==
    ASSUME RccTypeOK, NEW doc \in Range(command.inputs)
    PROVE  /\ doc \in Seq(Range(doc)) /\ Len(doc) \in Nat /\ DOMAIN doc = 1 .. Len(doc)
           /\ \A i \in 1 .. Len(doc) : IsToken(doc[i])
<1>1. doc \in Seq(Range(doc)) /\ \A t \in Range(doc) : IsToken(t)
  BY ProcessIs DEF RccTypeOK, ProcessOK
<1>2. Len(doc) \in Nat /\ DOMAIN doc = 1 .. Len(doc)
  BY <1>1
<1> QED
  BY <1>1, <1>2 DEF Range

LEMMA CurrentIs ==
    ASSUME RccTypeOK, Interpreting
    PROVE  input \in DOMAIN command.inputs /\ Document \in Range(command.inputs) /\ at \in Nat
           /\ input <= Len(command.inputs) /\ stage = "interpretResourceFile" /\ input \in Nat
<1>1. command.inputs \in Seq(Range(command.inputs)) /\ input \in Nat \ {0} /\ at \in Nat
  BY ProcessIs DEF RccTypeOK, ProcessOK, ReadOK
<1>2. input \in DOMAIN command.inputs
  BY <1>1 DEF Interpreting
<1> QED
  BY <1>1, <1>2 DEF Interpreting, Document, Range

LEMMA PartsTyped ==
    ASSUME RccTypeOK, NEW doc \in Range(command.inputs), NEW i \in FileElements(doc),
           Resources(doc, i) # {}
    PROVE  /\ PrefixOf(doc, i) \in Paths /\ LocaleOf(doc, i) \in Locale
           /\ PathOf(doc, i) \in Paths \ {<<>>} /\ doc[i + 1].text \in Paths
           /\ "alias" \in DOMAIN doc[i].attributes => doc[i].attributes["alias"] # <<>>
<1>1. /\ i \in Nat /\ i \in 1 .. Len(doc) /\ i + 1 \in 1 .. Len(doc)
      /\ doc[i].kind = "start" /\ doc[i + 1].kind = "characters"
  <2>1. i \in 1 .. Len(doc) - 2 /\ doc[i].kind = "start" /\ doc[i + 1].kind = "characters"
    BY DEF FileElements
  <2>2. Len(doc) \in Nat
    BY DocumentIs
  <2> QED
    BY <2>1, <2>2
<1> DEFINE m == Max(Resources(doc, i))
<1>2. m \in 1 .. i /\ doc[m].kind = "start"
  BY <1>1, ResourcesIs
<1>3. m \in 1 .. Len(doc)
  <2>1. Len(doc) \in Nat
    BY DocumentIs
  <2> HIDE DEF m
  <2> QED
    BY <1>1, <1>2, <2>1
<1>4. IsToken(doc[m]) /\ IsToken(doc[i]) /\ IsToken(doc[i + 1])
  BY <1>1, <1>3, DocumentIs
<1>5. doc[i + 1].text \in Paths
  BY <1>1, <1>4 DEF IsToken, Paths
<1>6. \A a \in DOMAIN doc[m].attributes : IsAttribute(a, doc[m].attributes[a])
  BY <1>2, <1>4 DEF IsToken
<1>7. \A a \in DOMAIN doc[i].attributes : IsAttribute(a, doc[i].attributes[a])
  BY <1>1, <1>4 DEF IsToken
<1> HIDE DEF m
<1>8. AttributeOr(doc[m].attributes, "prefix", <<>>) \in Paths
  <2>1. <<>> \in Paths
    BY DEF Paths
  <2> QED
    BY <1>6, <2>1 DEF IsAttribute, AttributeOr, Paths
<1>9. "lang" \in DOMAIN doc[m].attributes => Locales[doc[m].attributes.lang] \in Locale
  BY <1>6 DEF IsAttribute, Locale, Range
<1>10. CLocale \in Locale
  BY DEF Locale
<1>11. LocaleOf(doc, i) \in Locale
  BY <1>9, <1>10 DEF LocaleOf, m
<1>12. "alias" \in DOMAIN doc[i].attributes =>
          doc[i].attributes["alias"] \in Paths /\ doc[i].attributes["alias"] # <<>>
  BY <1>7 DEF IsAttribute, Paths
<1> DEFINE asked == AttributeOr(doc[i].attributes, "alias", doc[i + 1].text)
<1>13. asked \in Paths
  BY <1>5, <1>12 DEF AttributeOr
<1> HIDE DEF asked
<1> DEFINE w == WithoutParents(CleanPath(asked))
<1>14. w \in Paths \ {<<>>}
  BY <1>13, CleanPathIs, WithoutParentsIs
<1>15. command.root \in Paths /\ PrefixOf(doc, i) \in Paths
  BY <1>8, ProcessIs DEF RccTypeOK, ProcessOK, PrefixOf, m
<1> DEFINE p == command.root \o PrefixOf(doc, i)
<1>16. p \in Seq(FileNames) /\ w \in Seq(FileNames) /\ w # <<>>
  BY <1>14, <1>15 DEF Paths
<1> HIDE DEF p, w
<1>17. Len(p) \in Nat /\ Len(w) \in Nat \ {0} /\ p \o w \in Seq(FileNames) /\ Len(p \o w) = Len(p) + Len(w)
  BY <1>16
<1>18. p \o w # <<>>
  BY <1>17
<1>19. PathOf(doc, i) = p \o w
  BY DEF PathOf, p, w, asked
<1>20. PathOf(doc, i) \in Paths \ {<<>>}
  BY <1>17, <1>18, <1>19 DEF Paths
<1> QED
  BY <1>5, <1>11, <1>12, <1>15, <1>20

LEMMA ItemIs ==
    ASSUME RccTypeOK, NEW doc \in Range(command.inputs), NEW i \in FileElements(doc),
           Resources(doc, i) # {}, NEW p \in Paths \ {<<>>}, NEW f \in DOMAIN Disk
    PROVE  Item(doc, i, p, f) \in Items
<1>1. LocaleOf(doc, i) \in Locale
  BY PartsTyped
<1>2. Disk[f].kind \in Kinds
  BY DiskIs DEF Kinds
<1> QED
  BY <1>1, <1>2 DEF Item, Items

LEMMA AskedKept ==
    ASSUME command'.inputs = command.inputs, command'.root = command.root
    PROVE  Asked' = Asked /\ \A doc, i : AskedBy(doc, i)' = AskedBy(doc, i)
<1>1. ASSUME NEW doc, NEW i PROVE AskedBy(doc, i)' = AskedBy(doc, i)
  BY DEF AskedBy
<1>2. Asked' = Asked
  BY <1>1 DEF Asked
<1> QED
  BY <1>1, <1>2

(* A token taken: what it asks for is all that has to be added.            *)
LEMMA AddedGrows ==
    ASSUME input \in Nat, at \in Nat, UNCHANGED <<command, input>>, iterator = <<>>, at' = at + 1,
           NEW doc, doc = Document, NEW A, Added(A), NEW B, A \subseteq B,
           at \in FileElements(doc) =>
              \A a \in AskedBy(doc, at) : a.kind # "huge" => a \in B \/ a.file \in Range(iterator')
    PROVE  Added(B)'
<1>1. SUFFICES ASSUME NEW j \in DOMAIN command.inputs, NEW i \in FileElements(command.inputs[j]),
                      NEW a \in AskedBy(command.inputs[j], i), a.kind # "huge",
                      j < input \/ (j = input /\ i + 1 <= at + 1)
               PROVE  a \in B \/ (j = input /\ i + 1 = at + 1 /\ a.file \in Range(iterator'))
  <2>1. \A d, i : AskedBy(d, i)' = AskedBy(d, i)
    BY AskedKept
  <2>2. command' = command /\ input' = input /\ at' = at + 1
    OBVIOUS
  <2>3. Added(B)' <=>
          \A j \in DOMAIN command.inputs : \A i \in FileElements(command.inputs[j]) :
            \A a \in AskedBy(command.inputs[j], i) :
              a.kind # "huge" /\ (j < input \/ (j = input /\ i + 1 <= at + 1))
                => a \in B \/ (j = input /\ i + 1 = at + 1 /\ a.file \in Range(iterator'))
    BY ONLY <2>1, <2>2 DEF Added
  <2> QED
    BY <2>3
<1>2. i \in Int
  BY DEF FileElements
<1>3. CASE j < input \/ (j = input /\ i + 1 <= at)
  <2>1. a \in A \/ (j = input /\ i + 1 = at /\ a.file \in Range(iterator))
    BY <1>1, <1>3 DEF Added
  <2>2. Range(iterator) = {}
    BY DEF Range
  <2> QED
    BY <2>1, <2>2
<1>4. CASE ~(j < input \/ (j = input /\ i + 1 <= at))
  <2>1. j = input /\ i = at
    BY <1>1, <1>2, <1>4
  <2>2. command.inputs[j] = doc
    BY <2>1 DEF Document
  <2> QED
    BY <1>1, <2>1, <2>2
<1> QED
  BY <1>3, <1>4

LEMMA GetsIs ==
    ASSUME RccTypeOK, NEW kind, Gets(kind), NEW doc, doc = Document
    PROVE  /\ input \in DOMAIN command.inputs /\ doc \in Range(command.inputs) /\ at \in Nat
           /\ input <= Len(command.inputs) /\ stage = "interpretResourceFile" /\ input \in Nat
           /\ at < Len(doc) /\ at + 1 \in DOMAIN doc /\ at + 1 \in 1 .. Len(doc) /\ RccToken = doc[at + 1]
           /\ doc[at + 1].kind = kind /\ IsToken(doc[at + 1]) /\ iterator = <<>>
<1>1. Interpreting /\ at < Len(doc) /\ RccToken = doc[at + 1] /\ doc[at + 1].kind = kind /\ iterator = <<>>
  BY DEF Gets, RccToken
<1>2. doc \in Range(command.inputs) /\ at \in Nat
  BY <1>1, CurrentIs
<1>3. Len(doc) \in Nat /\ DOMAIN doc = 1 .. Len(doc)
  BY <1>2, DocumentIs
<1>4. at + 1 \in 1 .. Len(doc)
  BY <1>1, <1>2, <1>3
<1> QED
  BY <1>1, <1>2, <1>3, <1>4, CurrentIs, DocumentIs

(* How far the open elements go, and with -list that they are those that   *)
(* the document nests.                                                     *)
LEMMA TagsStep ==
    ASSUME RccTypeOK, Orderly, NEW doc, doc = Document, TagsRead(doc),
           StartRcc \/ StartResource \/ StartFile \/ EndTag \/ Blanks \/ AddText
    PROVE  TagsRead(doc)'
<1>1. PICK kind : Gets(kind) /\ kind \in {"start", "end", "blank", "characters"}
                  /\ (kind = "start" <=> StartRcc \/ StartResource \/ StartFile)
                  /\ (kind = "end" <=> EndTag)
  <2>1. CASE Gets("start")
    BY <2>1 DEF EndTag, Blanks, AddText, StartRcc, StartResource, StartFile, Gets
  <2>2. CASE Gets("end")
    BY <2>2 DEF EndTag, Blanks, AddText, StartRcc, StartResource, StartFile, Gets
  <2>3. CASE Gets("blank")
    BY <2>3 DEF EndTag, Blanks, AddText, StartRcc, StartResource, StartFile, Gets
  <2>4. CASE Gets("characters")
    BY <2>4 DEF EndTag, Blanks, AddText, StartRcc, StartResource, StartFile, Gets
  <2> QED
    BY <2>1, <2>2, <2>3, <2>4 DEF EndTag, Blanks, AddText, StartRcc, StartResource, StartFile
<1>2. /\ doc \in Range(command.inputs) /\ at \in Nat /\ at < Len(doc) /\ at + 1 \in 1 .. Len(doc)
      /\ at + 1 \in DOMAIN doc /\ RccToken = doc[at + 1] /\ doc[at + 1].kind = kind
  BY <1>1, GetsIs
<1>3. doc \in Seq(Range(doc)) /\ Len(doc) \in Nat
  BY <1>2, DocumentIs
<1>4. at' = at + 1 /\ UNCHANGED command
  BY DEF EndTag, Blanks, AddText, StartRcc, StartResource, StartFile, Took, processVars
<1>5. /\ Open(tags) /\ (Len(tags) >= 2 => Resources(doc, at) # {})
      /\ (command.list => Len(tags) = Nesting(doc, at + 1))
  BY DEF TagsRead
<1>6. /\ Len(tags) \in 0 .. 3 /\ (tags = <<>> <=> Len(tags) = 0)
      /\ tags # <<>> => Last(tags) = Elements[Len(tags)]
      /\ Open(Front(tags)) /\ Len(Front(tags)) = IF tags = <<>> THEN 0 ELSE Len(tags) - 1
      /\ Len(tags) < 3 => /\ Open(Append(tags, Elements[Len(tags) + 1]))
                          /\ Len(Append(tags, Elements[Len(tags) + 1])) = Len(tags) + 1
  BY <1>5, OpenIs
<1>7. Elements[1] = "RCC" /\ Elements[2] = "qresource" /\ Elements[3] = "file"
  BY DEF Elements
<1>8. TopTag = IF Len(tags) = 0 THEN "" ELSE Elements[Len(tags)]
  BY <1>6 DEF TopTag
<1>9. Nesting(doc, (at + 1) + 1) = Nesting(doc, at + 1) + (IF kind = "start" THEN 1
                                                          ELSE IF kind = "end" THEN -1 ELSE 0)
  BY <1>2, <1>3, NestingIs
<1>10. command.list => (kind = "end" => Nesting(doc, at + 1) > 0)
  BY <1>2 DEF Orderly, Valid
<1>11. at + 1 <= Len(doc)
  BY <1>2, <1>3
<1>12. SUFFICES /\ Open(tags')
                /\ Len(tags') >= 2 => Resources(doc, at + 1) # {}
                /\ command.list => Len(tags') = Nesting(doc, (at + 1) + 1)
  BY <1>4, <1>11 DEF TagsRead
<1> DEFINE more == doc[at + 1].kind = "start" /\ doc[at + 1].tag = "qresource"
<1>13. /\ more => Resources(doc, at + 1) # {}
       /\ ~more => Resources(doc, at + 1) = Resources(doc, at)
  BY <1>2, ResourcesIs
<1>14. CASE kind = "start"
  <2>1. Len(tags) < 3 /\ RccToken.tag = Elements[Len(tags) + 1]
        /\ tags' = Append(tags, Elements[Len(tags) + 1])
    <3>1. Len(tags) = 0 \/ Len(tags) = 1 \/ Len(tags) = 2 \/ Len(tags) = 3
      BY <1>6
    <3>2. CASE StartRcc
      BY <1>6, <1>7, <3>2 DEF StartRcc, Expected
    <3>3. CASE StartResource
      <4>1. TopTag = "RCC" /\ RccToken.tag = "qresource" /\ tags' = Append(tags, "qresource")
        BY <3>3 DEF StartResource, Expected
      <4>2. Len(tags) = 1
        BY <1>7, <1>8, <3>1, <4>1
      <4> QED
        BY <1>7, <4>1, <4>2
    <3>4. CASE StartFile
      <4>1. TopTag = "qresource" /\ RccToken.tag = "file" /\ tags' = Append(tags, "file")
        BY <3>4 DEF StartFile, Expected
      <4>2. Len(tags) = 2
        BY <1>7, <1>8, <3>1, <4>1
      <4> QED
        BY <1>7, <4>1, <4>2
    <3> QED
      BY <1>1, <1>14, <3>2, <3>3, <3>4
  <2>2. Open(tags') /\ Len(tags') = Len(tags) + 1
    BY <1>6, <2>1
  <2>3. Len(tags') >= 2 => Resources(doc, at + 1) # {}
    <3>1. Len(tags) = 1 => more
      BY <1>2, <1>7, <1>14, <2>1
    <3>2. Len(tags') >= 2 => Len(tags) = 1 \/ Len(tags) >= 2
      BY <1>6, <2>2
    <3> QED
      BY <1>5, <1>13, <3>1, <3>2
  <2>4. command.list => Len(tags') = Nesting(doc, (at + 1) + 1)
    BY <1>5, <1>9, <1>14, <2>2
  <2> QED
    BY <2>2, <2>3, <2>4
<1>15. CASE kind = "end"
  <2>1. tags' = Front(tags)
    BY <1>1, <1>15 DEF EndTag
  <2>2. ~more
    BY <1>2, <1>15
  <2>3. Len(tags') >= 2 => Len(tags) >= 2
    BY <1>6, <2>1
  <2>4. command.list => Len(tags') = Nesting(doc, (at + 1) + 1)
    <3>1. SUFFICES ASSUME command.list PROVE Len(tags') = Nesting(doc, (at + 1) + 1)
      OBVIOUS
    <3>2. Len(tags) > 0
      BY <1>5, <1>10, <1>15, <3>1
    <3>3. Len(tags') = Len(tags) - 1
      BY <1>6, <2>1, <3>2
    <3>4. Nesting(doc, (at + 1) + 1) = Nesting(doc, at + 1) + (-1)
      BY <1>9, <1>15
    <3>5. Nesting(doc, at + 1) = Len(tags)
      BY <1>5, <3>1
    <3> QED
      BY <1>6, <3>3, <3>4, <3>5
  <2> QED
    BY <1>5, <1>6, <1>13, <2>1, <2>2, <2>3, <2>4
<1>16. CASE kind \notin {"start", "end"}
  <2>1. tags' = tags
    BY <1>1, <1>16 DEF Blanks, AddText
  <2>2. ~more
    BY <1>2, <1>16
  <2>3. command.list => Nesting(doc, (at + 1) + 1) = Len(tags)
    BY <1>5, <1>6, <1>9, <1>16
  <2> QED
    BY <1>5, <1>13, <2>1, <2>2, <2>3
<1> QED
  BY <1>14, <1>15, <1>16

LEMMA ResourceStep ==
    ASSUME RccTypeOK, NEW doc, doc = Document, ResourceRead(doc),
           StartRcc \/ StartResource \/ StartFile \/ EndTag \/ Blanks \/ AddText
    PROVE  ResourceRead(doc)'
<1>1. PICK kind : Gets(kind)
  BY DEF EndTag, Blanks, AddText, StartRcc, StartResource, StartFile
<1>2. /\ doc \in Range(command.inputs) /\ at \in Nat
      /\ RccToken = doc[at + 1] /\ doc[at + 1].kind = kind
  BY <1>1, GetsIs
<1>3. at' = at + 1
  BY DEF EndTag, Blanks, AddText, StartRcc, StartResource, StartFile, Took
<1> DEFINE more == doc[at + 1].kind = "start" /\ doc[at + 1].tag = "qresource"
<1>4. /\ more => Resources(doc, at + 1) # {} /\ Max(Resources(doc, at + 1)) = at + 1
      /\ ~more => Resources(doc, at + 1) = Resources(doc, at)
  BY <1>2, ResourcesIs
<1>5. CASE StartResource
  <2>1. more
    BY <1>2, <1>5 DEF StartResource, Gets
  <2>2. /\ resource'.prefix = IF HasAttribute("prefix") THEN RccToken.attributes.prefix ELSE <<>>
        /\ resource'.locale = IF HasAttribute("lang") THEN Locales[RccToken.attributes.lang] ELSE CLocale
    BY <1>5 DEF StartResource
  <2>3. Max(Resources(doc, at + 1)) = at + 1
    BY <1>4, <2>1
  <2>4. resource'.prefix = PrefixOf(doc, at + 1) /\ resource'.locale = LocaleOf(doc, at + 1)
    BY <1>2, <2>2, <2>3 DEF HasAttribute, PrefixOf, LocaleOf, AttributeOr
  <2> QED
    BY <1>3, <2>4 DEF ResourceRead
<1>6. CASE ~StartResource
  <2>1. resource' = resource
    BY <1>6 DEF EndTag, Blanks, AddText, StartRcc, StartFile
  <2>2. ~more
    <3>1. CASE StartRcc
      BY <1>2, <3>1 DEF StartRcc
    <3>2. CASE StartFile
      BY <1>2, <3>2 DEF StartFile
    <3>3. CASE EndTag
      BY <1>2, <3>3 DEF EndTag, Gets
    <3>4. CASE Blanks
      BY <1>2, <3>4 DEF Blanks, Gets
    <3>5. CASE AddText
      BY <1>2, <3>5 DEF AddText, Gets
    <3> QED
      BY <1>6, <3>1, <3>2, <3>3, <3>4, <3>5
  <2>3. Resources(doc, at + 1) = Resources(doc, at)
    BY <1>4, <2>2
  <2>4. PrefixOf(doc, at + 1) = PrefixOf(doc, at) /\ LocaleOf(doc, at + 1) = LocaleOf(doc, at)
    BY <2>3 DEF PrefixOf, LocaleOf
  <2> QED
    BY <1>3, <2>1, <2>3, <2>4 DEF ResourceRead
<1> QED
  BY <1>5, <1>6

LEMMA EntryRuns ==
    ASSUME RccTypeOK, NEW doc, doc = Document,
           StartRcc \/ StartResource \/ StartFile \/ EndTag \/ Blanks \/ AddText
    PROVE  EntryRead(doc)'
<1>1. PICK kind : Gets(kind)
  BY DEF EndTag, Blanks, AddText, StartRcc, StartResource, StartFile
<1>2. RccToken = doc[at + 1] /\ doc[at + 1].kind = kind /\ at \in Nat
  BY <1>1, GetsIs
<1>3. at' = at + 1
  BY DEF EndTag, Blanks, AddText, StartRcc, StartResource, StartFile, Took
<1>4. CASE StartFile
  <2>1. entry'.alias = IF HasAttribute("alias") THEN RccToken.attributes["alias"] ELSE NoAlias
    BY <1>4 DEF StartFile
  <2>2. entry'.alias = AttributeOr(doc[at + 1].attributes, "alias", NoAlias)
    BY <1>2, <2>1 DEF HasAttribute, AttributeOr
  <2> QED
    BY <1>3, <2>2 DEF EntryRead
<1>5. CASE ~StartFile
  <2>1. ~(doc[at + 1].kind = "start" /\ doc[at + 1].tag = "file")
    <3>1. CASE StartRcc
      BY <1>2, <3>1 DEF StartRcc
    <3>2. CASE StartResource
      BY <1>2, <3>2 DEF StartResource
    <3>3. CASE EndTag
      BY <1>2, <3>3 DEF EndTag, Gets
    <3>4. CASE Blanks
      BY <1>2, <3>4 DEF Blanks, Gets
    <3>5. CASE AddText
      BY <1>2, <3>5 DEF AddText, Gets
    <3> QED
      BY <1>5, <3>1, <3>2, <3>3, <3>4, <3>5
  <2> QED
    BY <1>3, <2>1 DEF EntryRead
<1> QED
  BY <1>4, <1>5

(* A token that is no text.                                                *)
LEMMA TokenReading ==
    ASSUME RccTypeOK, Orderly, Reading, StartRcc \/ StartResource \/ StartFile \/ EndTag \/ Blanks
    PROVE  Reading'
<1>1. PICK doc : doc = Document
  OBVIOUS
<1>2. PICK kind : Gets(kind) /\ kind \in {"start", "end", "blank"}
  BY DEF EndTag, Blanks, StartRcc, StartResource, StartFile
<1>3. /\ input \in DOMAIN command.inputs /\ input <= Len(command.inputs) /\ input \in Nat
      /\ doc \in Range(command.inputs) /\ at \in Nat /\ doc[at + 1].kind = kind /\ iterator = <<>>
  BY <1>1, <1>2, GetsIs
<1>4. at' = at + 1 /\ UNCHANGED <<command, input, iterator, nodes>>
  BY DEF EndTag, Blanks, StartRcc, StartResource, StartFile, Took, processVars
<1>5. DocumentRead(doc)
  BY <1>1, <1>3 DEF Reading
<1>6. DocumentRead(doc)'
  <2>1. TagsRead(doc)'
    BY <1>1, <1>5, TagsStep DEF DocumentRead
  <2>2. ResourceRead(doc)'
    BY <1>1, <1>5, ResourceStep DEF DocumentRead
  <2>3. EntryRead(doc)'
    BY <1>1, EntryRuns
  <2>4. FoundRead(doc)'
    BY <1>3, <1>4 DEF FoundRead
  <2> QED
    BY <2>1, <2>2, <2>3, <2>4 DEF DocumentRead
<1>7. Document' = doc
  BY <1>1, <1>4 DEF Document
<1>8. PICK A : A \subseteq Asked /\ A \subseteq Items /\ Added(A) /\ Holds(nodes, A)
  BY DEF Reading
<1>9. at \notin FileElements(doc)
  BY <1>2, <1>3 DEF FileElements
<1>10. Added(A)'
  BY <1>1, <1>3, <1>4, <1>8, <1>9, AddedGrows
<1>11. Asked' = Asked
  BY <1>4, AskedKept
<1>12. \E B : (B \subseteq Asked)' /\ B \subseteq Items /\ Added(B)' /\ Holds(nodes', B)
  BY <1>4, <1>8, <1>10, <1>11
<1>13. input' <= Len(command'.inputs) /\ ~(input' > Len(command'.inputs))
  <2>1. Len(command.inputs) \in Nat
    BY ProcessIs DEF RccTypeOK, ProcessOK
  <2> QED
    BY <1>3, <1>4, <2>1
<1> QED
  BY <1>6, <1>7, <1>12, <1>13 DEF Reading

LEMMA TextParts ==
    ASSUME RccTypeOK, Orderly, Reading, AddText, NEW doc, doc = Document
    PROVE  /\ at \in FileElements(doc) /\ Resources(doc, at) # {} /\ RccToken.text = doc[at + 1].text
           /\ Alias(IF entry.alias = NoAlias THEN RccToken.text ELSE entry.alias) = PathOf(doc, at)
           /\ resource.locale = LocaleOf(doc, at)
<1>1. Gets("characters") /\ TopTag = "file"
  BY DEF AddText
<1>2. /\ input <= Len(command.inputs) /\ doc \in Range(command.inputs) /\ at \in Nat
      /\ at + 1 \in DOMAIN doc /\ RccToken = doc[at + 1] /\ doc[at + 1].kind = "characters"
  BY <1>1, GetsIs
<1>3. at \in FileElements(doc)
  <2>1. (at + 1) - 1 \in FileElements(doc)
    BY <1>2 DEF Orderly, InOnePiece
  <2> QED
    BY <1>2, <2>1
<1>4. DocumentRead(doc)
  BY <1>2 DEF Reading
<1>5. Resources(doc, at) # {}
  <2>1. /\ Len(tags) \in 0 .. 3 /\ (tags = <<>> <=> Len(tags) = 0)
        /\ tags # <<>> => Last(tags) = Elements[Len(tags)]
    BY <1>4, OpenIs DEF DocumentRead, TagsRead
  <2>2. Elements[1] = "RCC"
    BY DEF Elements
  <2>3. Len(tags) >= 2
    BY <1>1, <2>1, <2>2 DEF TopTag
  <2> QED
    BY <1>4, <2>3 DEF DocumentRead, TagsRead
<1>6. resource.prefix = PrefixOf(doc, at) /\ resource.locale = LocaleOf(doc, at)
  BY <1>4, <1>5 DEF DocumentRead, ResourceRead
<1>7. entry.alias = AttributeOr(doc[at].attributes, "alias", NoAlias)
  BY <1>3, <1>4 DEF DocumentRead, EntryRead, FileElements
<1>8. "alias" \in DOMAIN doc[at].attributes => doc[at].attributes["alias"] # <<>>
  BY <1>2, <1>3, <1>5, PartsTyped
<1>9. (IF entry.alias = NoAlias THEN RccToken.text ELSE entry.alias)
         = AttributeOr(doc[at].attributes, "alias", doc[at + 1].text)
  BY <1>2, <1>7, <1>8 DEF AttributeOr, NoAlias
<1>10. Alias(IF entry.alias = NoAlias THEN RccToken.text ELSE entry.alias) = PathOf(doc, at)
  BY <1>6, <1>9 DEF Alias, PathOf
<1> QED
  BY <1>2, <1>3, <1>5, <1>6, <1>10

LEMMA TextReading ==
    ASSUME RccTypeOK, Orderly, Reading, AddText
    PROVE  Reading'
<1>1. PICK doc : doc = Document
  OBVIOUS
<1> DEFINE file == RccToken.text
           path == Alias(IF entry.alias = NoAlias THEN file ELSE entry.alias)
           info == RCCFileInfo(Last(path), file, FALSE, resource.locale, entry.level, entry.threshold)
           i == at
<1>2. /\ input \in DOMAIN command.inputs /\ input <= Len(command.inputs) /\ input \in Nat
      /\ doc \in Range(command.inputs) /\ at \in Nat /\ doc[at + 1].kind = "characters" /\ iterator = <<>>
  BY <1>1, GetsIs DEF AddText
<1>3. /\ at \in FileElements(doc) /\ Resources(doc, at) # {} /\ file = doc[at + 1].text
      /\ path = PathOf(doc, at) /\ resource.locale = LocaleOf(doc, at)
  BY <1>1, TextParts
<1>4. /\ at' = at + 1 /\ UNCHANGED <<command, input>> /\ entry'.alias = Stem(path, file)
      /\ iterator' = IF Iterable(file) THEN Disk[file].below ELSE <<>>
  <2>1. entry \in [alias : Paths, level : Int, threshold : Int]
    BY DEF RccTypeOK, ReadOK
  <2>2. entry' = [entry EXCEPT !.alias = Stem(path, file)]
    BY DEF AddText
  <2>3. entry'.alias = Stem(path, file)
    BY <2>1, <2>2
  <2> QED
    BY <2>3 DEF AddText, processVars
<1>5. PICK A : A \subseteq Asked /\ A \subseteq Items /\ Added(A) /\ Holds(nodes, A)
  BY DEF Reading
<1>6. AskedBy(doc, at) =
          IF file \notin DOMAIN Disk THEN {}
          ELSE IF Iterable(file)
          THEN {Item(doc, at, Append(Stem(path, file), Last(f)), f) : f \in Range(Disk[file].below)}
          ELSE {Item(doc, at, path, file)}
  BY <1>3, AskedByIs
<1>7. path \in Paths \ {<<>>} /\ file \in Paths
  BY <1>2, <1>3, PartsTyped
<1>8. \/ file \notin DOMAIN Disk /\ UNCHANGED nodes
      \/ file \in DOMAIN Disk /\ Disk[file].kind = "huge" /\ UNCHANGED nodes
      \/ file \in DOMAIN Disk /\ Disk[file].kind = "file" /\ nodes' = AddFile(nodes, path, info)
      \/ Iterable(file) /\ UNCHANGED nodes
  <2>1. file \in DOMAIN Disk => Disk[file].kind \in {"file", "huge", "directory", "special"}
    BY DiskIs
  <2> QED
    BY <2>1 DEF AddText, Iterable
<1> DEFINE Enough(B) == \A a \in AskedBy(doc, at) : a.kind # "huge" => a \in B \/ a.file \in Range(iterator')
<1>9. \E B : B \subseteq Asked /\ B \subseteq Items /\ A \subseteq B /\ Holds(nodes', B) /\ Enough(B)
  <2>1. CASE file \notin DOMAIN Disk /\ UNCHANGED nodes
    <3>1. Enough(A)
      BY <1>6, <2>1
    <3> QED
      BY <1>5, <2>1, <3>1
  <2>2. CASE file \in DOMAIN Disk /\ Disk[file].kind = "huge" /\ UNCHANGED nodes
    <3>1. AskedBy(doc, at) = {Item(doc, at, path, file)}
      BY <1>6, <2>2 DEF Iterable
    <3>2. Enough(A)
      BY <2>2, <3>1 DEF Item
    <3> QED
      BY <1>5, <2>2, <3>2
  <2>3. CASE file \in DOMAIN Disk /\ Disk[file].kind = "file" /\ nodes' = AddFile(nodes, path, info)
    <3> DEFINE b == Item(doc, at, path, file)
    <3>1. b \in AskedBy(doc, at) /\ AskedBy(doc, at) = {b}
      BY <1>6, <2>3 DEF Iterable
    <3>2. /\ b.path = path /\ b.file = file /\ b.kind = "file" /\ b.locale = resource.locale
      BY <1>3, <2>3 DEF Item
    <3>3. b \in Items
      BY <1>2, <1>3, <1>7, <2>3, ItemIs
    <3>4. Last(path) = path[Len(path)] /\ Last(path) \in FileNames
      BY <1>7, PathEnds
    <3>5. New(info)
      BY <2>3, <3>4, NewFile DEF RccTypeOK
    <3>6. info.name = Last(path) /\ info.file = file /\ info.directory = FALSE
          /\ info.locale = resource.locale
      BY DEF RCCFileInfo
    <3>7. nodes \in Trees
      BY DEF RccTypeOK, TreeOK
    <3> HIDE DEF b, info, path, file
    <3>8. Holds(AddFile(nodes, b.path, info), A \cup {b})
      BY <1>5, <3>2, <3>3, <3>4, <3>5, <3>6, <3>7, AddFileHolds
    <3>9. b \in Asked
      BY <1>2, <1>3, <3>1, <3>2 DEF Asked
    <3>10. Enough(A \cup {b})
      BY <3>1
    <3> QED
      BY <1>5, <2>3, <3>2, <3>3, <3>8, <3>9, <3>10
  <2>4. CASE Iterable(file) /\ UNCHANGED nodes
    <3> DEFINE stem == Stem(path, file)
    <3>1. iterator' = Disk[file].below
      BY <1>4, <2>4
    <3>2. AskedBy(doc, at) = {Item(doc, at, Append(stem, Last(f)), f) : f \in Range(Disk[file].below)}
      BY <1>6, <2>4 DEF Iterable
    <3>3. ASSUME NEW a \in AskedBy(doc, at) PROVE a.file \in Range(iterator')
      <4> HIDE DEF stem
      <4>1. PICK f \in Range(Disk[file].below) : a = Item(doc, at, Append(stem, Last(f)), f)
        BY <3>2
      <4> QED
        BY <3>1, <4>1 DEF Item
    <3> QED
      BY <1>5, <2>4, <3>3
  <2> HIDE DEF file, path, info
  <2> QED
    BY <1>8, <2>1, <2>2, <2>3, <2>4
<1>10. PICK B : B \subseteq Asked /\ B \subseteq Items /\ A \subseteq B /\ Holds(nodes', B) /\ Enough(B)
  BY <1>9
<1>11. Added(B)'
  BY <1>1, <1>2, <1>4, <1>5, <1>10, AddedGrows
<1>12. DocumentRead(doc)
  BY <1>1, <1>2 DEF Reading
<1>13. DocumentRead(doc)'
  <2>1. TagsRead(doc)'
    BY <1>1, <1>12, TagsStep DEF DocumentRead
  <2>2. ResourceRead(doc)'
    BY <1>1, <1>12, ResourceStep DEF DocumentRead
  <2>3. EntryRead(doc)'
    BY <1>1, EntryRuns
  <2>4. FoundRead(doc)'
    <3>1. SUFFICES ASSUME iterator' # <<>>
                   PROVE  /\ at' - 1 \in FileElements(doc)
                          /\ entry'.alias = Stem(PathOf(doc, at - 1)', doc[at'].text)
                          /\ Resources(doc, at' - 1) # {}
                          /\ Iterable(doc[at'].text)
                          /\ Range(iterator') \subseteq Range(Disk[doc[at'].text].below)
      BY DEF FoundRead
    <3>2. at' - 1 = at /\ at' = at + 1
      BY <1>2, <1>4
    <3>3. PathOf(doc, at - 1)' = PathOf(doc, at)
      BY <1>4, <3>2 DEF PathOf
    <3>4. Iterable(file) /\ iterator' = Disk[file].below
      BY <1>4, <3>1
    <3> QED
      BY <1>3, <1>4, <3>2, <3>3, <3>4
  <2> QED
    BY <2>1, <2>2, <2>3, <2>4 DEF DocumentRead
<1>14. Document' = doc
  BY <1>1, <1>4 DEF Document
<1>15. Asked' = Asked
  BY <1>4, AskedKept
<1>16. input' <= Len(command'.inputs) /\ ~(input' > Len(command'.inputs))
  <2>1. Len(command.inputs) \in Nat
    BY ProcessIs DEF RccTypeOK, ProcessOK
  <2> QED
    BY <1>2, <1>4, <2>1
<1> HIDE DEF file, path, info, Enough
<1>17. \E C : (C \subseteq Asked)' /\ C \subseteq Items /\ Added(C)' /\ Holds(nodes', C)
  BY <1>10, <1>11, <1>15
<1> QED
  BY <1>13, <1>14, <1>16, <1>17 DEF Reading

(* A file or directory below a directory.                                  *)
LEMMA FoundReading ==
    ASSUME RccTypeOK, Orderly, Reading, AddFound
    PROVE  Reading'
<1>1. PICK doc : doc = Document
  OBVIOUS
<1> DEFINE child == Head(iterator)
           i == at - 1
           path == Append(entry.alias, Last(child))
           info == RCCFileInfo(Last(child), child, Disk[child].kind = "directory",
                               resource.locale, entry.level, entry.threshold)
           b == Item(doc, i, path, child)
           below == Disk[doc[at].text].below
<1>2. /\ input \in DOMAIN command.inputs /\ input <= Len(command.inputs) /\ input \in Nat
      /\ doc \in Range(command.inputs) /\ at \in Nat
  BY <1>1, CurrentIs DEF AddFound
<1>3. /\ iterator # <<>> /\ iterator' = Tail(iterator)
      /\ UNCHANGED <<command, input, at, tags, resource, entry>>
  BY DEF AddFound, processVars
<1>4. DocumentRead(doc)
  BY <1>1, <1>2 DEF Reading
<1>5. /\ i \in FileElements(doc) /\ entry.alias = Stem(PathOf(doc, i), doc[at].text)
      /\ Resources(doc, i) # {} /\ Iterable(doc[at].text) /\ doc[at].text \in DOMAIN Disk
      /\ Range(iterator) \subseteq Range(below)
  BY <1>3, <1>4 DEF DocumentRead, FoundRead, Iterable
<1>6. i \in Nat /\ i + 1 = at /\ doc[at].kind = "characters"
  <2>1. i \in 1 .. Len(doc) - 2 /\ doc[i + 1].kind = "characters"
    BY <1>5 DEF FileElements
  <2> QED
    BY <1>2, <2>1
<1>7. child \in Range(iterator) /\ Range(iterator') \subseteq Range(iterator)
      /\ \A x \in Range(iterator) : x = child \/ x \in Range(iterator')
  <2>1. iterator \in Seq(DOMAIN Disk)
    BY DEF RccTypeOK, ReadOK
  <2>2. Len(iterator) \in Nat \ {0} /\ 1 \in DOMAIN iterator /\ DOMAIN iterator = 1 .. Len(iterator)
    BY <1>3, <2>1
  <2>3. DOMAIN Tail(iterator) = 1 .. Len(iterator) - 1
        /\ \A j \in 1 .. Len(iterator) - 1 : Tail(iterator)[j] = iterator[j + 1]
    BY <1>3, <2>1
  <2>4. child = iterator[1]
    BY <1>3, <2>1
  <2>5. ASSUME NEW x \in Range(iterator) PROVE x = child \/ x \in Range(iterator')
    <3>1. PICK j \in DOMAIN iterator : x = iterator[j]
      BY DEF Range
    <3>2. j = 1 \/ (j - 1 \in 1 .. Len(iterator) - 1 /\ (j - 1) + 1 = j)
      BY <2>2
    <3> QED
      BY <1>3, <2>3, <2>4, <3>1, <3>2 DEF Range
  <2>6. ASSUME NEW x \in Range(iterator') PROVE x \in Range(iterator)
    <3>1. PICK j \in 1 .. Len(iterator) - 1 : x = iterator[j + 1]
      BY <1>3, <2>3 DEF Range
    <3>2. j + 1 \in DOMAIN iterator
      BY <2>2
    <3> QED
      BY <3>1, <3>2 DEF Range
  <2> QED
    BY <2>2, <2>4, <2>5, <2>6 DEF Range
<1>8. /\ child \in DOMAIN Disk /\ child \in Range(below) /\ child \in Paths \ {<<>>}
      /\ Disk[child].kind \in {"file", "huge", "directory"}
  <2>1. child \in Range(below)
    BY <1>5, <1>7
  <2>2. \A c \in Range(below) : c \in DOMAIN Disk /\ Disk[c].kind # "special"
    BY <1>5, DiskIs
  <2> HIDE DEF child, below
  <2>3. child \in DOMAIN Disk /\ Disk[child].kind # "special"
    BY <2>1, <2>2
  <2> QED
    BY <2>1, <2>3, DiskIs
<1>9. Last(child) \in FileNames
  BY <1>8, PathEnds
<1>10. entry.alias \in Paths /\ path \in Paths \ {<<>>} /\ path[Len(path)] = Last(child)
  <2>1. entry.alias \in Paths
    <3>1. PathOf(doc, i) \in Paths \ {<<>>}
      BY <1>2, <1>5, PartsTyped
    <3> QED
      BY <1>5, <3>1, StemIs
  <2>2. /\ Append(entry.alias, Last(child)) \in Paths
        /\ Len(Append(entry.alias, Last(child))) = Len(entry.alias) + 1
        /\ Append(entry.alias, Last(child))[Len(entry.alias) + 1] = Last(child)
        /\ Append(entry.alias, Last(child)) # <<>>
    BY <1>9, <2>1, PathAppend
  <2> QED
    BY <2>1, <2>2
<1>11. PICK A : A \subseteq Asked /\ A \subseteq Items /\ Added(A) /\ Holds(nodes, A)
  BY DEF Reading
<1>12. AskedBy(doc, i) = {Item(doc, i, Append(entry.alias, Last(f)), f) : f \in Range(below)}
  <2>1. doc[i + 1].text = doc[at].text
    BY <1>6
  <2> HIDE DEF i
  <2> QED
    BY <1>5, <2>1, AskedByIs DEF Iterable
<1>13. resource.locale = LocaleOf(doc, i)
  <2>1. Resources(doc, i + 1) = Resources(doc, i)
    BY <1>6, ResourcesIs
  <2> HIDE DEF i
  <2>2. Resources(doc, at) = Resources(doc, i)
    BY <1>6, <2>1
  <2> QED
    BY <1>4, <1>5, <2>2 DEF DocumentRead, ResourceRead, LocaleOf
<1>14. b \in Items /\ b \in AskedBy(doc, i)
  <2>1. b \in Items
    <3> HIDE DEF i, path, child
    <3> QED
      BY <1>2, <1>5, <1>8, <1>10, ItemIs
  <2> QED
    BY <1>8, <1>12, <2>1
<1>15. b.path = path /\ b.file = child /\ b.kind = Disk[child].kind /\ b.locale = resource.locale
  BY <1>13 DEF Item
<1>16. \E B : B \subseteq Asked /\ B \subseteq Items /\ A \subseteq B /\ Holds(nodes', B)
              /\ (b.kind # "huge" => b \in B)
  <2>1. CASE Disk[child].kind = "huge"
    <3>1. UNCHANGED nodes
      BY <2>1 DEF AddFound
    <3>2. b.kind = "huge"
      BY <1>15, <2>1
    <3> HIDE DEF b
    <3> QED
      BY <1>11, <3>1, <3>2
  <2>2. CASE Disk[child].kind # "huge"
    <3>1. nodes' = AddFile(nodes, path, info)
      BY <2>2 DEF AddFound
    <3>2. info.name = Last(child) /\ info.file = child /\ info.locale = resource.locale
          /\ info.directory = (Disk[child].kind = "directory")
      BY DEF RCCFileInfo
    <3>3. New(info)
      <4>1. (Disk[child].kind = "directory") \in BOOLEAN
        OBVIOUS
      <4> HIDE DEF child
      <4> QED
        BY <1>8, <1>9, <4>1, NewFile DEF RccTypeOK
    <3>4. nodes \in Trees
      BY DEF RccTypeOK, TreeOK
    <3>5. Disk[child].kind \in {"file", "huge", "directory"}
      BY <1>8
    <3>6. b.kind = "file" <=> ~info.directory
      BY <1>15, <2>2, <3>2, <3>5
    <3>7. b.kind # "huge" /\ b.path = path /\ info.name = b.path[Len(b.path)]
      BY <1>10, <1>15, <2>2, <3>2
    <3>8. b.kind = "file" => b.file = info.file /\ b.locale = info.locale
      BY <1>15, <3>2
    <3>9. b \in Asked
      BY <1>2, <1>5, <1>14, <3>7 DEF Asked
    <3> HIDE DEF b, info, path, child
    <3>10. Holds(AddFile(nodes, b.path, info), A \cup {b})
      BY <1>11, <1>14, <3>3, <3>4, <3>6, <3>7, <3>8, AddFileHolds
    <3> QED
      BY <1>11, <1>14, <3>1, <3>7, <3>9, <3>10
  <2> HIDE DEF child
  <2> QED
    BY <2>1, <2>2
<1>17. PICK B : B \subseteq Asked /\ B \subseteq Items /\ A \subseteq B /\ Holds(nodes', B)
                /\ (b.kind # "huge" => b \in B)
  BY <1>16
<1>18. Added(B)'
  <2>1. SUFFICES ASSUME NEW j \in DOMAIN command.inputs, NEW k \in FileElements(command.inputs[j]),
                        NEW a \in AskedBy(command.inputs[j], k), a.kind # "huge",
                        j < input \/ (j = input /\ k + 1 <= at)
                 PROVE  a \in B \/ (j = input /\ k + 1 = at /\ a.file \in Range(iterator'))
    <3>1. \A d, k : AskedBy(d, k)' = AskedBy(d, k)
      BY <1>3, AskedKept
    <3> QED
      BY <1>3, <3>1 DEF Added
  <2>2. a \in A \/ (j = input /\ k + 1 = at /\ a.file \in Range(iterator))
    BY <2>1, <1>11 DEF Added
  <2>3. CASE j = input /\ k + 1 = at /\ a.file \in Range(iterator)
    <3>1. k = i
      <4>1. k \in Int
        BY DEF FileElements
      <4> QED
        BY <1>2, <2>3, <4>1
    <3>2. command.inputs[j] = doc
      BY <1>1, <2>3 DEF Document
    <3>3. PICK f \in Range(below) : a = Item(doc, i, Append(entry.alias, Last(f)), f)
      BY <1>12, <2>1, <3>1, <3>2
    <3>4. a.file = f
      BY <3>3 DEF Item
    <3>5. CASE f = child
      <4>1. a = b
        BY <3>3, <3>5
      <4> QED
        BY <1>17, <2>1, <4>1
    <3>6. CASE f # child
      BY <1>7, <2>3, <3>4, <3>6
    <3> QED
      BY <3>5, <3>6
  <2> QED
    BY <1>17, <2>2, <2>3
<1>19. DocumentRead(doc)'
  <2>1. TagsRead(doc)' /\ ResourceRead(doc)' /\ EntryRead(doc)'
    BY <1>3, <1>4 DEF DocumentRead, TagsRead, ResourceRead, EntryRead
  <2>2. FoundRead(doc)'
    <3>1. PathOf(doc, at - 1)' = PathOf(doc, at - 1)
      BY <1>3 DEF PathOf
    <3> QED
      BY <1>3, <1>5, <1>7, <3>1 DEF FoundRead
  <2> QED
    BY <2>1, <2>2 DEF DocumentRead
<1>20. Document' = doc
  BY <1>1, <1>3 DEF Document
<1>21. Asked' = Asked
  BY <1>3, AskedKept
<1>22. input' <= Len(command'.inputs) /\ ~(input' > Len(command'.inputs))
  <2>1. Len(command.inputs) \in Nat
    BY ProcessIs DEF RccTypeOK, ProcessOK
  <2> QED
    BY <1>2, <1>3, <2>1
<1> HIDE DEF child, path, info, b, below, i
<1>23. \E C : (C \subseteq Asked)' /\ C \subseteq Items /\ Added(C)' /\ Holds(nodes', C)
  BY <1>17, <1>18, <1>21
<1> QED
  BY <1>19, <1>20, <1>22, <1>23 DEF Reading

(* A process begins, and a document ends: nothing of a document is read.   *)
LEMMA Fresh ==
    ASSUME NEW doc
    PROVE  Resources(doc, 0) = {} /\ Nesting(doc, 0 + 1) = 0 /\ Open(<<>>) /\ Len(<<>>) = 0
<1>1. 1 .. 0 = {} /\ 1 .. (0 + 1) - 1 = {}
  OBVIOUS
<1>2. Resources(doc, 0) = {}
  BY <1>1 DEF Resources
<1>3. \A kind : {j \in 1 .. (0 + 1) - 1 : doc[j].kind = kind} = {}
  BY <1>1
<1>4. Cardinality({}) = 0
  BY FS_EmptySet
<1>5. Nesting(doc, 0 + 1) = 0
  BY <1>3, <1>4 DEF Nesting
<1>6. Open(<<>>) /\ Len(<<>>) = 0
  BY DEF Open
<1> QED
  BY <1>2, <1>5, <1>6

LEMMA FirstReading ==
    RccTypeOK /\ input = 1 /\ at = 0 /\ tags = <<>> /\ iterator = <<>> /\ nodes = <<>> => Reading
<1> SUFFICES ASSUME RccTypeOK, input = 1, at = 0, tags = <<>>, iterator = <<>>, nodes = <<>>
             PROVE  Reading
  OBVIOUS
<1>1. ASSUME input <= Len(command.inputs) PROVE DocumentRead(Document)
  <2>1. PICK doc : doc = Document
    OBVIOUS
  <2>2. doc \in Range(command.inputs)
    <3>1. command.inputs \in Seq(Range(command.inputs))
      BY ProcessIs DEF RccTypeOK, ProcessOK
    <3>2. input \in DOMAIN command.inputs
      BY <1>1, <3>1
    <3> QED
      BY <2>1, <3>2 DEF Document, Range
  <2>3. Len(doc) \in Nat
    BY <2>2, DocumentIs
  <2>4. Resources(doc, at) = {} /\ Nesting(doc, at + 1) = 0 /\ Open(tags) /\ Len(tags) = 0
    BY Fresh
  <2>5. TagsRead(doc) /\ ResourceRead(doc) /\ EntryRead(doc) /\ FoundRead(doc)
    BY <2>3, <2>4 DEF TagsRead, ResourceRead, EntryRead, FoundRead
  <2> QED
    BY <2>1, <2>5 DEF DocumentRead
<1>2. Added({})
  <2> SUFFICES ASSUME NEW j \in DOMAIN command.inputs, NEW i \in FileElements(command.inputs[j]),
                      j < input \/ (j = input /\ i + 1 <= at)
               PROVE  FALSE
    BY DEF Added
  <2>1. command.inputs \in Seq(Range(command.inputs))
    BY ProcessIs DEF RccTypeOK, ProcessOK
  <2>2. j \in Nat \ {0}
    BY <2>1
  <2>3. i \in Int /\ i >= 1
    <3>1. i \in 1 .. Len(command.inputs[j]) - 2
      BY DEF FileElements
    <3>2. Len(command.inputs[j]) \in Nat
      <4>1. command.inputs[j] \in Range(command.inputs)
        BY DEF Range
      <4> QED
        BY <4>1, DocumentIs
    <3> QED
      BY <3>1, <3>2
  <2> QED
    BY <2>2, <2>3
<1>3. Holds(<<>>, {})
  <2>1. ASSUME NEW p \in Paths \ {<<>>}, NEW c PROVE ~Lies(<<>>, p, c)
    <3>1. Len(p) - 1 \in Nat /\ 0 \in 0 .. Len(p) - 1
      BY DEF Paths
    <3>2. DOMAIN <<>> = {}
      OBVIOUS
    <3> QED
      BY <3>1, <3>2 DEF Lies, Way
  <2>2. OnlyThese(<<>>, {}) /\ AllThese(<<>>, {})
    BY <2>1 DEF OnlyThese, AllThese
  <2>3. Rooted(<<>>)
    BY DEF Rooted
  <2> QED
    BY <2>2, <2>3 DEF Holds
<1> QED
  BY <1>1, <1>2, <1>3 DEF Reading

LEMMA InitReading == RccInit => Reading
BY InitTyped, FirstReading DEF RccInit

LEMMA SecondReading ==
    ASSUME RccTypeOK, SecondPass
    PROVE  Reading' /\ (Orderly' => Orderly)
<1>1. RccTypeOK'
  BY SecondTyped
<1>2. input' = 1 /\ at' = 0 /\ tags' = <<>> /\ iterator' = <<>> /\ nodes' = <<>>
  BY DEF SecondPass
<1>3. (RccTypeOK /\ input = 1 /\ at = 0 /\ tags = <<>> /\ iterator = <<>> /\ nodes = <<>>)' => Reading'
  BY FirstReading, PTL
<1> QED
  BY <1>1, <1>2, <1>3, ProcessIs DEF SecondPass, Orderly, RccTypeOK, ProcessOK

LEMMA NextReading ==
    ASSUME RccTypeOK, Reading, Interpreting, iterator = <<>>, at = Len(Document), NextInput,
           command' = command, RccTypeOK',
           nodes' = nodes \/ nodes' = FirstPlace(nodes).tree
    PROVE  Reading'
<1>1. /\ input' = input + 1 /\ at' = 0 /\ tags' = <<>> /\ iterator' = <<>>
  BY DEF NextInput
<1>2. /\ input \in DOMAIN command.inputs /\ input \in Nat /\ command.inputs \in Seq(Range(command.inputs))
      /\ Len(command.inputs) \in Nat /\ DOMAIN command.inputs = 1 .. Len(command.inputs)
  <2>1. command.inputs \in Seq(Range(command.inputs))
    BY ProcessIs DEF RccTypeOK, ProcessOK
  <2> QED
    BY <2>1, CurrentIs
<1>3. ASSUME input' <= Len(command'.inputs) PROVE DocumentRead(Document)'
  <2>1. PICK doc : doc = Document'
    OBVIOUS
  <2>2. doc \in Range(command.inputs)
    <3>1. input + 1 \in DOMAIN command.inputs
      BY <1>1, <1>2, <1>3
    <3> QED
      BY <1>1, <2>1, <3>1 DEF Document, Range
  <2>3. Len(doc) \in Nat
    BY <2>2, DocumentIs
  <2>4. Resources(doc, 0) = {} /\ Nesting(doc, 0 + 1) = 0 /\ Open(<<>>) /\ Len(<<>>) = 0
    BY Fresh
  <2>5. TagsRead(doc)' /\ ResourceRead(doc)' /\ EntryRead(doc)' /\ FoundRead(doc)'
    <3>1. TagsRead(doc)'
      BY <1>1, <2>3, <2>4 DEF TagsRead
    <3>2. ResourceRead(doc)'
      BY <1>1, <2>4 DEF ResourceRead
    <3> QED
      BY <1>1, <3>1, <3>2 DEF EntryRead, FoundRead
  <2> QED
    BY <2>1, <2>5 DEF DocumentRead
<1>4. PICK A : A \subseteq Asked /\ A \subseteq Items /\ Added(A) /\ Holds(nodes, A)
  BY DEF Reading
<1>5. \A d, i : AskedBy(d, i)' = AskedBy(d, i)
  BY AskedKept
<1>6. Added(A)'
  <2> SUFFICES ASSUME NEW j \in DOMAIN command.inputs, NEW i \in FileElements(command.inputs[j]),
                      NEW a \in AskedBy(command.inputs[j], i), a.kind # "huge",
                      j < input + 1 \/ (j = input + 1 /\ i + 1 <= 0)
               PROVE  a \in A
    BY <1>1, <1>5 DEF Added
  <2>1. j \in Nat
    BY <1>2
  <2>2. Len(command.inputs[j]) \in Nat /\ i \in 1 .. Len(command.inputs[j]) - 2
    <3>1. command.inputs[j] \in Range(command.inputs)
      BY DEF Range
    <3> QED
      BY <3>1, DocumentIs DEF FileElements
  <2>3. i \in Nat /\ i >= 1 /\ i + 1 <= Len(command.inputs[j])
    <3> DEFINE n == Len(command.inputs[j])
    <3> HIDE DEF n
    <3>1. n \in Nat /\ i \in 1 .. n - 2
      BY <2>2 DEF n
    <3>2. i \in Nat /\ i >= 1 /\ i + 1 <= n
      BY <3>1
    <3> QED
      BY <3>2 DEF n
  <2>4. j < input \/ j = input
    BY <1>2, <2>1, <2>3
  <2>7. j = input => i + 1 <= at
    BY <2>3 DEF Document
  <2>5. a \in A \/ (j = input /\ i + 1 = at /\ a.file \in Range(iterator))
    BY <1>4, <2>4, <2>7 DEF Added
  <2>6. Range(iterator) = {}
    BY DEF Range
  <2> QED
    BY <2>5, <2>6
<1>7. Holds(nodes', A)
  <2>1. CASE nodes' = nodes
    BY <1>4, <2>1
  <2>2. CASE nodes' = FirstPlace(nodes).tree
    <3>2. nodes \in Trees
      BY DEF RccTypeOK, TreeOK
    <3>3. OnlyThese(nodes', A) /\ AllThese(nodes', A) /\ Rooted(nodes') /\ 1 \in DOMAIN nodes'
      BY <1>4, <2>2, <3>2, FirstHolds
    <3>4. nodes' # <<>>
      BY <3>3
    <3> QED
      BY <3>3, <3>4 DEF Holds
  <2> QED
    BY <2>1, <2>2
<1>8. Asked' = Asked
  BY AskedKept
<1> QED
  BY <1>1, <1>3, <1>4, <1>6, <1>7, <1>8 DEF Reading

(* With -list an error would be as good as the end of a document: a valid  *)
(* one has none.                                                           *)
LEMMA NoError ==
    ASSUME RccTypeOK, Orderly, Reading, ParseError
    PROVE  ~command.list
<1> SUFFICES ASSUME command.list PROVE FALSE
  OBVIOUS
<1>1. PICK doc : doc = Document
  OBVIOUS
<1>2. /\ input <= Len(command.inputs) /\ doc \in Range(command.inputs) /\ at \in Nat
  BY <1>1, CurrentIs DEF ParseError
<1>3. Valid(doc) /\ DocumentRead(doc) /\ Len(doc) \in Nat /\ DOMAIN doc = 1 .. Len(doc)
  BY <1>1, <1>2, DocumentIs DEF Orderly, Reading
<1>4. Open(tags) /\ Len(tags) = Nesting(doc, at + 1)
  BY <1>3 DEF DocumentRead, TagsRead
<1>5. /\ Len(tags) \in 0 .. 3 /\ (tags = <<>> <=> Len(tags) = 0)
      /\ tags # <<>> => Last(tags) = Elements[Len(tags)]
  BY <1>4, OpenIs
<1>6. Elements[1] = "RCC" /\ Elements[2] = "qresource" /\ Elements[3] = "file"
  BY DEF Elements
<1>7. CASE at = Len(doc) /\ (tags # <<>> \/ at = 0)
  <2>1. Nesting(doc, Len(doc) + 1) = 0 /\ doc # <<>>
    BY <1>3 DEF Valid
  <2>2. doc \in Seq(Range(doc))
    BY <1>2, DocumentIs
  <2>3. at # 0
    BY <1>7, <2>1, <2>2
  <2> QED
    BY <1>4, <1>5, <1>7, <2>1, <2>3
<1>8. CASE Gets("start") /\ ~Expected(RccToken.tag)
  <2>1. at + 1 \in DOMAIN doc /\ RccToken = doc[at + 1] /\ doc[at + 1].kind = "start"
    BY <1>1, <1>8, GetsIs
  <2>2. Nesting(doc, at + 1) \in 0 .. 2 /\ doc[at + 1].tag = Elements[Nesting(doc, at + 1) + 1]
    BY <1>3, <2>1 DEF Valid, Elements
  <2> DEFINE n == Len(tags)
  <2>3. n \in 0 .. 2 /\ RccToken.tag = Elements[n + 1]
    BY <1>4, <2>1, <2>2
  <2>4. TopTag = IF n = 0 THEN "" ELSE Elements[n]
    BY <1>5 DEF TopTag
  <2>5. n = 0 <=> tags = <<>>
    BY <1>5
  <2> HIDE DEF n
  <2>6. CASE n = 0
    BY <1>6, <1>8, <2>3, <2>5, <2>6 DEF Expected
  <2>7. CASE n = 1
    BY <1>6, <1>8, <2>3, <2>4, <2>7 DEF Expected
  <2>8. CASE n = 2
    BY <1>6, <1>8, <2>3, <2>4, <2>8 DEF Expected
  <2> QED
    BY <2>3, <2>6, <2>7, <2>8
<1>9. CASE Gets("characters") /\ TopTag # "file"
  <2>1. at + 1 \in DOMAIN doc /\ doc[at + 1].kind = "characters"
    BY <1>1, <1>9, GetsIs
  <2>2. Nesting(doc, at + 1) = 3
    BY <1>3, <2>1 DEF Valid
  <2> QED
    BY <1>4, <1>5, <1>6, <1>9, <2>2 DEF TopTag
<1> QED
  BY <1>1, <1>7, <1>8, <1>9 DEF ParseError

LEMMA OutputFilled ==
    ASSUME RccTypeOK, Reading, Output
    PROVE  Filled'
<1>1. input > Len(command.inputs) /\ UNCHANGED <<command, nodes>>
  BY DEF Output, processVars, readVars
<1>2. PICK A : A \subseteq Asked /\ A \subseteq Items /\ Added(A) /\ Holds(nodes, A)
  BY DEF Reading
<1>3. iterator = <<>> /\ Range(iterator) = {}
  BY <1>1 DEF Reading, Range
<1>4. command.inputs \in Seq(Range(command.inputs)) /\ input \in Nat
  BY ProcessIs DEF RccTypeOK, ProcessOK, ReadOK
<1>5. ASSUME NEW a \in Asked PROVE a \in A
  <2>1. PICK doc \in Range(command.inputs) : \E i \in FileElements(doc) : a \in AskedBy(doc, i)
    BY DEF Asked
  <2>2. PICK i \in FileElements(doc) : a \in AskedBy(doc, i)
    BY <2>1
  <2>3. PICK j \in DOMAIN command.inputs : doc = command.inputs[j]
    BY DEF Range
  <2>4. j < input
    BY <1>1, <1>4
  <2>5. a.kind # "huge"
    BY DEF Asked
  <2> QED
    BY <1>2, <1>3, <2>2, <2>3, <2>4, <2>5 DEF Added
<1>6. A = Asked
  BY <1>2, <1>5
<1>7. Asked' = Asked
  BY <1>1, AskedKept
<1> QED
  BY <1>1, <1>2, <1>6, <1>7 DEF Filled

(* The traversals and the second pass leave the tree what it is.           *)
LEMMA FilledKept ==
    ASSUME nodes \in Trees, Filled, command' = command, DOMAIN nodes' = DOMAIN nodes,
           nodes' = <<>> => nodes = <<>>,
           \A n \in DOMAIN nodes :
               /\ nodes'[n].name = nodes[n].name /\ nodes'[n].file = nodes[n].file
               /\ nodes'[n].directory = nodes[n].directory /\ nodes'[n].locale = nodes[n].locale
               /\ nodes'[n].children = nodes[n].children
    PROVE  Filled'
<1>1. PICK u, A : u = nodes' /\ A = Asked
  OBVIOUS
<1>2. A \subseteq Items /\ Holds(nodes, A)
  BY <1>1 DEF Filled
<1>3. DOMAIN u = DOMAIN nodes /\ (u = <<>> => nodes = <<>>)
      /\ \A n \in DOMAIN nodes :
             /\ u[n].name = nodes[n].name /\ u[n].file = nodes[n].file
             /\ u[n].directory = nodes[n].directory /\ u[n].locale = nodes[n].locale
             /\ u[n].children = nodes[n].children
  BY <1>1
<1>4. Holds(u, A)
  BY <1>2, <1>3, HoldsSame
<1>5. Asked' = A
  BY <1>1, AskedKept
<1> QED
  BY <1>1, <1>2, <1>4, <1>5 DEF Filled

LEMMA FilesStep ==
    ASSUME RccTypeOK, FilesInv, [RccNext]_rccVars
    PROVE  FilesInv'
<1>1. nodes \in Trees /\ \A n \in DOMAIN nodes : nodes[n] \in FileInfo
  BY TreeIs DEF RccTypeOK, TreeOK
<1>2. command' = command => (Orderly' <=> Orderly)
  BY DEF Orderly
<1>3. CASE StartRcc \/ StartResource \/ StartFile \/ EndTag \/ Blanks
  <2>1. UNCHANGED <<command, stage>>
    BY <1>3, TagsTyped
  <2>2. stage = "interpretResourceFile"
    BY <1>3 DEF StartRcc, StartResource, StartFile, EndTag, Blanks, Gets, Interpreting
  <2>3. Orderly => Reading'
    BY <1>3, <2>2, TokenReading DEF FilesInv
  <2> QED
    BY <1>2, <2>1, <2>2, <2>3 DEF FilesInv
<1>4. CASE AddText \/ AddFound
  <2>1. command' = command /\ stage' \in {"interpretResourceFile", "failed"}
    BY <1>4, TextTyped, FoundTyped
  <2>2. stage = "interpretResourceFile"
    BY <1>4 DEF AddText, AddFound, Gets, Interpreting
  <2>3. Orderly => Reading'
    BY <1>4, <2>2, TextReading, FoundReading DEF FilesInv
  <2> QED
    BY <1>2, <2>1, <2>2, <2>3 DEF FilesInv
<1>5. CASE ParseError \/ EndDocument
  <2>1. command' = command /\ stage' \in {"interpretResourceFile", "failed"} /\ RccTypeOK'
    BY <1>5, DocumentTyped
  <2>2. Interpreting /\ iterator = <<>> /\ stage = "interpretResourceFile"
    BY <1>5 DEF ParseError, EndDocument, Interpreting
  <2>3. CASE ParseError
    <3>1. Orderly => stage' = "failed"
      BY <2>2, <2>3, NoError DEF FilesInv, ParseError
    <3> QED
      BY <1>2, <2>1, <3>1 DEF FilesInv
  <2>4. CASE EndDocument
    <3>1. at = Len(Document) /\ NextInput
      BY <2>4 DEF EndDocument
    <3>2. nodes' = nodes \/ nodes' = FirstPlace(nodes).tree
      BY <2>4 DEF EndDocument, FirstPlace
    <3>3. Orderly => Reading'
      BY <2>1, <2>2, <3>1, <3>2, NextReading DEF FilesInv
    <3> QED
      BY <1>2, <2>1, <3>3 DEF FilesInv
  <2> QED
    BY <1>5, <2>3, <2>4
<1>6. CASE Output
  <2>1. command' = command /\ stage' \in {"written", "scan", "writeDataBlobs"}
    BY <1>6, OutputTyped
  <2>2. stage = "interpretResourceFile"
    BY <1>6 DEF Output
  <2>3. Orderly => Filled'
    BY <1>6, <2>2, OutputFilled DEF FilesInv
  <2> QED
    BY <1>2, <2>1, <2>3 DEF FilesInv
<1>7. ASSUME command' = command, stage \notin {"interpretResourceFile", "failed"},
             stage' # "interpretResourceFile", DOMAIN nodes' = DOMAIN nodes,
             nodes' = <<>> => nodes = <<>>,
             \A n \in DOMAIN nodes :
                 /\ nodes'[n].name = nodes[n].name /\ nodes'[n].file = nodes[n].file
                 /\ nodes'[n].directory = nodes[n].directory /\ nodes'[n].locale = nodes[n].locale
                 /\ nodes'[n].children = nodes[n].children
      PROVE  FilesInv'
  <2>1. Orderly => Filled'
    BY <1>1, <1>7, FilledKept DEF FilesInv
  <2> QED
    BY <1>2, <1>7, <2>1 DEF FilesInv
<1>8. stage \in Range(Walks) \cup {"scan"} => stage \notin {"interpretResourceFile", "failed"}
  BY WalksAre
<1>9. CASE Descend
  <2>1. /\ UNCHANGED <<command, stage>> /\ stage \in Range(Walks) /\ Last(pending) \in DOMAIN nodes
        /\ DOMAIN nodes' = DOMAIN nodes /\ (nodes' = <<>> <=> nodes = <<>>)
        /\ nodes' = IF stage = "childOffsets"
                    THEN [nodes EXCEPT ![Last(pending)].childOffset = offset] ELSE nodes
    BY <1>9, DescendTyped
  <2>2. \A n \in DOMAIN nodes :
             /\ nodes'[n].name = nodes[n].name /\ nodes'[n].file = nodes[n].file
             /\ nodes'[n].directory = nodes[n].directory /\ nodes'[n].locale = nodes[n].locale
             /\ nodes'[n].children = nodes[n].children
    BY <1>1, <2>1 DEF FileInfo
  <2> QED
    BY <1>7, <1>8, <2>1, <2>2
<1>10. CASE WriteDataBlob
  <2>1. /\ UNCHANGED <<command, stage>> /\ stage = "writeDataBlobs" /\ Head(todo) \in DOMAIN nodes
        /\ DOMAIN nodes' = DOMAIN nodes /\ (nodes' = <<>> <=> nodes = <<>>)
        /\ nodes' = [nodes EXCEPT ![Head(todo)] =
                        [Visiting EXCEPT !.dataOffset = offset, !.compressed = Compresses(Visiting)]]
    BY <1>10, BlobTyped
  <2>2. \A n \in DOMAIN nodes :
             /\ nodes'[n].name = nodes[n].name /\ nodes'[n].file = nodes[n].file
             /\ nodes'[n].directory = nodes[n].directory /\ nodes'[n].locale = nodes[n].locale
             /\ nodes'[n].children = nodes[n].children
    BY <1>1, <2>1 DEF FileInfo, Visiting
  <2> QED
    BY <1>7, <2>1, <2>2
<1>11. CASE WriteDataName
  <2>1. /\ UNCHANGED <<command, stage>> /\ stage = "writeDataNames" /\ Head(todo) \in DOMAIN nodes
        /\ DOMAIN nodes' = DOMAIN nodes /\ (nodes' = <<>> <=> nodes = <<>>)
        /\ \E place \in Nat :
              nodes' = [nodes EXCEPT ![Head(todo)] = [Visiting EXCEPT !.nameOffset = place]]
    BY <1>11, NameTyped
  <2>3. PICK place \in Nat :
             nodes' = [nodes EXCEPT ![Head(todo)] = [Visiting EXCEPT !.nameOffset = place]]
    BY <2>1
  <2>2. \A n \in DOMAIN nodes :
             /\ nodes'[n].name = nodes[n].name /\ nodes'[n].file = nodes[n].file
             /\ nodes'[n].directory = nodes[n].directory /\ nodes'[n].locale = nodes[n].locale
             /\ nodes'[n].children = nodes[n].children
    BY <1>1, <2>1, <2>3 DEF FileInfo, Visiting
  <2> QED
    BY <1>7, <2>1, <2>2
<1>12. CASE BlobOfDirectory \/ CountChild \/ WriteDataInfo
  <2>1. UNCHANGED <<command, stage, nodes>> /\ stage \in Range(Walks)
    BY <1>12, UntouchedTyped, EntryTyped, WalksAre
  <2> QED
    BY <1>7, <1>8, <2>1
<1>13. CASE EndWalk
  <2>1. /\ UNCHANGED <<command, nodes>>
        /\ stage \in {"writeDataBlobs", "writeDataNames", "childOffsets", "writeDataInfo"}
        /\ stage' \in {"writeDataNames", "childOffsets", "writeDataInfo", "written"}
    BY <1>13, EndTyped
  <2> QED
    BY <1>7, <2>1
<1>14. CASE OpenReadFailed \/ EndSecondData
  <2>1. command' = command /\ stage' \in {"scan", "failed"}
    BY <1>14, FailedTyped
  <2>2. CASE OpenReadFailed
    <3>1. stage = "writeDataBlobs" /\ nodes' = [nodes EXCEPT ![Head(todo)].dataOffset = offset]
      BY <2>2 DEF OpenReadFailed, Walking
    <3>2. Len(todo) \in Nat /\ todo # <<>> /\ todo \in Seq(DOMAIN nodes)
      BY <2>2 DEF OpenReadFailed, Walking, RccTypeOK, TreeOK
    <3>3. Head(todo) \in DOMAIN nodes /\ DOMAIN nodes' = DOMAIN nodes
      BY <3>1, <3>2
    <3>4. nodes' = <<>> => nodes = <<>>
      BY <3>3
    <3>5. \A n \in DOMAIN nodes :
             /\ nodes'[n].name = nodes[n].name /\ nodes'[n].file = nodes[n].file
             /\ nodes'[n].directory = nodes[n].directory /\ nodes'[n].locale = nodes[n].locale
             /\ nodes'[n].children = nodes[n].children
      BY <1>1, <3>1, <3>3 DEF FileInfo
    <3> QED
      BY <1>7, <2>1, <3>1, <3>3, <3>4, <3>5
  <2>3. CASE EndSecondData
    <3>1. nodes' = nodes /\ stage = "writeDataBlobs"
      BY <2>3 DEF EndSecondData, SecondData, readVars
    <3> QED
      BY <1>7, <2>1, <3>1
  <2> QED
    BY <1>14, <2>2, <2>3
<1>15. CASE ScanByte \/ EndOfTemp
  <2>1. command' = command /\ stage' \in {"scan", "written", "failed", "writeDataBlobs"}
    BY <1>15, ScanTyped
  <2>2. nodes' = nodes /\ stage = "scan"
    BY <1>15 DEF ScanByte, EndOfTemp, readVars
  <2> QED
    BY <1>7, <2>1, <2>2
<1>16. CASE SecondPass
  <2>1. stage' = "interpretResourceFile"
    BY <1>16, SecondTyped
  <2>2. Reading'
    BY <1>16, SecondReading
  <2> QED
    BY <2>1, <2>2 DEF FilesInv
<1>17. CASE UNCHANGED rccVars
  <2>1. UNCHANGED <<command, stage, input, at, tags, resource, entry, iterator, nodes>>
    BY <1>17 DEF rccVars, processVars, readVars
  <2>2. Asked' = Asked /\ \A d, i : AskedBy(d, i)' = AskedBy(d, i)
    BY <2>1, AskedKept
  <2>3. \A d, i : PathOf(d, i)' = PathOf(d, i)
    BY <2>1 DEF PathOf
  <2>4. Document' = Document
    BY <2>1 DEF Document
  <2>5. \A d : DocumentRead(d)' <=> DocumentRead(d)
    <3> SUFFICES ASSUME NEW d PROVE DocumentRead(d)' <=> DocumentRead(d)
      OBVIOUS
    <3>1. PathOf(d, at - 1)' = PathOf(d, at - 1)
      BY <2>1 DEF PathOf
    <3>2. FoundRead(d)' <=> FoundRead(d)
      BY <2>1, <3>1 DEF FoundRead
    <3> QED
      BY <2>1, <3>2 DEF DocumentRead, TagsRead, ResourceRead, EntryRead
  <2>6. \A A : Added(A)' <=> Added(A)
    BY <2>1, <2>2 DEF Added
  <2>7. Reading => Reading'
    BY <2>1, <2>2, <2>4, <2>5, <2>6 DEF Reading
  <2>8. Filled => Filled'
    BY <2>1, <2>2 DEF Filled
  <2> QED
    BY <1>2, <2>1, <2>7, <2>8 DEF FilesInv
<1> QED
  BY <1>3, <1>4, <1>5, <1>6, <1>9, <1>10, <1>11, <1>12, <1>13, <1>14, <1>15, <1>16, <1>17
     DEF RccNext, RccSteps

----------------------------------------------------------------------------
(* A file that is wanted lies where a search for its path ends, below      *)
(* directories only, and no file of another path or locale is found in its *)
(* place.                                                                  *)
Ends(a, s) == ChildrenCalled(nodes, s[Len(a.path) - 1], a.path[Len(a.path)])
LiesFor(a, s) ==
    /\ Way(nodes, a.path, Len(a.path) - 1, s)
    /\ \A i \in 0 .. Len(a.path) - 1 : nodes[s[i]].directory
    /\ \E c \in Ends(a, s) :
          ~nodes[c].directory /\ nodes[c].locale = a.locale /\ nodes[c].file = a.file
    /\ \A c \in Ends(a, s) : ~nodes[c].directory /\ nodes[c].locale = a.locale =>
          \E b \in Twins(a) : nodes[c].file = b.file

LEMMA WantedLies ==
    ASSUME nodes \in Trees, Filled, NEW a \in Wanted
    PROVE  /\ a \in Items /\ a.kind = "file" /\ Len(a.path) - 1 \in Nat
           /\ nodes # <<>> /\ \E s : LiesFor(a, s)
<1>1. a \in Asked /\ a.kind = "file" /\ ~Hidden(a) /\ Asked \subseteq Items /\ a \in Items
  BY DEF Wanted, Filled
<1> DEFINE p == a.path
           k == Len(p) - 1
<1>2. p \in Paths \ {<<>>} /\ k \in Nat /\ Len(p) = k + 1 /\ Len(p) \in Nat
  <2>1. p \in Paths \ {<<>>}
    BY <1>1 DEF Items
  <2>2. Len(p) \in Nat \ {0}
    BY <2>1 DEF Paths
  <2> QED
    BY <2>1, <2>2
<1>3. OnlyThese(nodes, Asked) /\ AllThese(nodes, Asked) /\ nodes # <<>>
  BY <1>1 DEF Filled, Holds
<1>4. ASSUME NEW b \in Asked, Len(b.path) < Len(p), \A i \in 1 .. Len(b.path) : b.path[i] = p[i]
      PROVE  FALSE
  <2>1. b.path \in Paths /\ b.path # p
    BY <1>1, <1>2, <1>4 DEF Items
  <2>2. Len(b.path) \in Nat
    BY <2>1, PathIs
  <2>3. IsPrefix(b.path, p)
    BY <1>2, <1>4, <2>1, <2>2, PrefixIs
  <2>4. b \in Asked \ {a} /\ IsStrictPrefix(b.path, a.path)
    BY <2>1, <2>3 DEF IsStrictPrefix
  <2> QED
    BY <1>1, <2>4 DEF Hidden
<1>5. \A b \in Asked : ~Above(b, a)
  BY <1>4 DEF Above
<1>6. PICK c : /\ Lies(nodes, p, c) /\ ~nodes[c].directory
               /\ nodes[c].locale = a.locale /\ nodes[c].file = a.file
  BY <1>1, <1>3, <1>5 DEF AllThese
<1>7. PICK s : Way(nodes, p, k, s) /\ c \in ChildrenCalled(nodes, s[k], p[Len(p)])
  BY <1>6 DEF Lies
<1>8. ASSUME NEW d \in Ends(a, s), ~nodes[d].directory, nodes[d].locale = a.locale
      PROVE  \E b \in Twins(a) : nodes[d].file = b.file
  <2>1. Lies(nodes, p, d)
    BY <1>7 DEF Ends, Lies
  <2>2. PICK b \in Asked : b.kind = "file" /\ b.path = p /\ b.file = nodes[d].file
                           /\ b.locale = nodes[d].locale
    BY <1>2, <1>3, <1>8, <2>1 DEF OnlyThese
  <2>3. b \in Twins(a)
    BY <1>8, <2>2 DEF Twins
  <2> QED
    BY <2>2, <2>3
<1>9. ASSUME NEW i \in 0 .. k PROVE nodes[s[i]].directory
  <2>1. CASE i = 0
    BY <1>3, <1>7, <2>1, KidsAre DEF Way
  <2>2. CASE i # 0
    <3> SUFFICES ASSUME ~nodes[s[i]].directory PROVE FALSE
      OBVIOUS
    <3> DEFINE q == SubSeq(p, 1, i)
    <3>1. i \in 1 .. k /\ i - 1 \in Nat /\ i \in Nat /\ i < Len(p)
      BY <1>2, <2>2
    <3>2. q \in Paths /\ Len(q) = i /\ \A j \in 1 .. i : q[j] = p[j]
      BY <1>2, <3>1 DEF Paths
    <3>3. q \in Paths \ {<<>>}
      BY <3>1, <3>2
    <3> HIDE DEF q
    <3>4. Way(nodes, q, i - 1, s)
      <4>1. \A j \in 0 .. i - 1 : j \in 0 .. k
        BY <1>2, <3>1
      <4>2. \A j \in 1 .. i - 1 : j \in 1 .. k /\ j \in 1 .. i
        BY <1>2, <3>1
      <4> HIDE DEF k
      <4> QED
        BY <1>7, <3>2, <4>1, <4>2 DEF Way
    <3>5. s[i] \in ChildrenCalled(nodes, s[i - 1], p[i])
      <4>1. i - 1 \in 0 .. k
        BY <1>2, <3>1
      <4> HIDE DEF k, p
      <4>2. s[i - 1] \in DOMAIN nodes
        BY <1>7, <4>1 DEF Way
      <4>3. ChildrenCalled(nodes, s[i - 1], p[i]) # {}
            /\ s[i] = Max(ChildrenCalled(nodes, s[i - 1], p[i]))
        BY <1>7, <3>1 DEF Way
      <4> QED
        BY <4>2, <4>3, CalledIs
    <3>6. q[i] = p[i]
      BY <3>1, <3>2
    <3>7. Lies(nodes, q, s[i])
      BY <3>2, <3>4, <3>5, <3>6 DEF Lies
    <3>8. PICK b \in Asked : b.path = q
      BY <1>3, <3>3, <3>7 DEF OnlyThese
    <3> QED
      BY <1>4, <3>1, <3>2, <3>8
  <2> QED
    BY <2>1, <2>2
<1>10. LiesFor(a, s)
  BY <1>6, <1>7, <1>8, <1>9 DEF LiesFor, Ends
<1> QED
  BY <1>1, <1>2, <1>3, <1>10

(* The tree that -list goes through.                                       *)
LEMMA InTreeIs ==
    ASSUME nodes \in Trees, Rooted(nodes), nodes # <<>>
    PROVE  /\ InTree[1]
           /\ \A p \in DOMAIN nodes : \A n \in Kids(nodes, p) :
                 nodes[p].directory /\ InTree[p] => InTree[n]
<1> DEFINE K == Shape(nodes)
           G(f) == [n \in DOMAIN nodes |-> n = 1 \/ (nodes[ParentOf(n)].directory /\ f[ParentOf(n)])]
           g == [n \in DOMAIN nodes |-> n \in Reached(K)]
<1>1. 1 \in DOMAIN nodes
  BY KidsAre
<1>2. ASSUME NEW p \in DOMAIN nodes, NEW n \in Kids(nodes, p)
      PROVE  n \in DOMAIN nodes /\ n # 1 /\ ParentOf(n) = p
  <2>1. n \in DOMAIN nodes /\ n # 1 /\ \A q \in DOMAIN nodes : n \in Kids(nodes, q) => p = q
    BY KidsAre
  <2> QED
    BY <2>1 DEF ParentOf, Kids
<1>3. IsShape(K) /\ DOMAIN K = DOMAIN nodes
  BY ShapeIs DEF Shape
<1>4. \A p \in DOMAIN nodes : Range(K[p]) = IF nodes[p].directory THEN Kids(nodes, p) ELSE {}
  BY DEF Shape, Kids, Range
<1> HIDE DEF K
<1>5. Closed(K, Reached(K)) /\ Reached(K) \subseteq DOMAIN nodes
  BY <1>1, <1>3, ReachedClosed
<1>6. ASSUME NEW n \in DOMAIN nodes
      PROVE  n \in Reached(K) <=> n = 1 \/ (nodes[ParentOf(n)].directory /\ ParentOf(n) \in Reached(K))
  <2>1. CASE n = 1
    BY <1>5, <2>1 DEF Closed
  <2>2. CASE n # 1
    <3>1. PICK p \in DOMAIN nodes : n \in Kids(nodes, p)
      BY <2>2 DEF Rooted
    <3>2. ParentOf(n) = p
      BY <1>2, <3>1
    <3>3. nodes[p].directory /\ p \in Reached(K) => n \in Reached(K)
      BY <1>4, <1>5, <3>1 DEF Closed
    <3>4. ASSUME n \in Reached(K), ~(nodes[p].directory /\ p \in Reached(K)) PROVE FALSE
      <4> DEFINE S == Reached(K) \ {n}
      <4>1. 1 \in S
        BY <1>5, <2>2 DEF Closed
      <4>2. ASSUME NEW d \in S, NEW m \in Range(K[d]) PROVE m \in S
        <5>1. m \in Reached(K) /\ d \in DOMAIN nodes
          BY <1>5 DEF Closed
        <5>2. nodes[d].directory /\ m \in Kids(nodes, d)
          BY <1>4, <5>1
        <5>3. m # n
          BY <1>2, <3>1, <3>4, <5>1, <5>2
        <5> QED
          BY <5>1, <5>3
      <4>3. Closed(K, S) /\ S \in SUBSET DOMAIN K
        BY <1>3, <1>5, <4>1, <4>2 DEF Closed
      <4> QED
        BY <3>4, <4>3 DEF Reached
    <3> QED
      BY <2>2, <3>2, <3>3, <3>4
  <2> QED
    BY <2>1, <2>2
<1>7. \A n \in DOMAIN nodes : n # 1 => ParentOf(n) \in DOMAIN nodes
  BY <1>2 DEF Rooted
<1>8. g = G(g)
  <2>1. ASSUME NEW n \in DOMAIN nodes
        PROVE  (n \in Reached(K)) = (n = 1 \/ (nodes[ParentOf(n)].directory /\ g[ParentOf(n)]))
    <3>1. n # 1 => (g[ParentOf(n)] <=> ParentOf(n) \in Reached(K))
      BY <1>7
    <3> QED
      BY <1>6, <3>1
  <2> QED
    BY <2>1
<1>9. InTree = CHOOSE f : f = G(f)
  BY DEF InTree
<1> HIDE DEF g, G
<1>10. InTree = G(InTree)
  BY <1>8, <1>9
<1>11. \A n \in DOMAIN nodes : InTree[n] = (n = 1 \/ (nodes[ParentOf(n)].directory /\ InTree[ParentOf(n)]))
  BY <1>10 DEF G
<1>12. InTree[1]
  BY <1>1, <1>11
<1>13. ASSUME NEW p \in DOMAIN nodes, NEW n \in Kids(nodes, p), nodes[p].directory, InTree[p]
       PROVE  InTree[n]
  <2>1. n \in DOMAIN nodes /\ ParentOf(n) = p
    BY <1>2
  <2>2. nodes[ParentOf(n)].directory /\ InTree[ParentOf(n)]
    BY <1>13, <2>1
  <2> QED
    BY <1>11, <2>1, <2>2, Zenon
<1> QED
  BY <1>12, <1>13, Zenon

(* What -list writes: every wanted file is reached through directories.    *)
LEMMA WantedListed ==
    ASSUME nodes \in Trees, Filled, NEW a \in Wanted
    PROVE  a.file \in DataFiles
<1> DEFINE k == Len(a.path) - 1
<1>1. PICK s : LiesFor(a, s)
  BY WantedLies
<1>2. k \in Nat /\ nodes # <<>> /\ Rooted(nodes)
  BY WantedLies DEF Filled, Holds
<1>3. PICK c \in Ends(a, s) : ~nodes[c].directory /\ nodes[c].locale = a.locale /\ nodes[c].file = a.file
  BY <1>1 DEF LiesFor
<1>4. Way(nodes, a.path, k, s) /\ \A i \in 0 .. k : s[i] \in DOMAIN nodes /\ nodes[s[i]].directory
  BY <1>1 DEF LiesFor, Way
<1>5. /\ InTree[1]
      /\ \A p \in DOMAIN nodes : \A n \in Kids(nodes, p) : nodes[p].directory /\ InTree[p] => InTree[n]
  BY <1>2, InTreeIs
<1> DEFINE Bad == {i \in 0 .. k : ~InTree[s[i]]}
<1>6. Bad = {}
  <2> SUFFICES ASSUME Bad # {} PROVE FALSE
    OBVIOUS
  <2>1. Bad \in SUBSET Nat
    BY <1>2
  <2>2. PICK i \in Bad : \A j \in Bad : i <= j
    <3> HIDE DEF Bad
    <3> QED
      BY <2>1, NatMin
  <2>3. i # 0
    <3>1. s[0] = 1
      BY <1>4 DEF Way
    <3> QED
      BY <1>5, <3>1
  <2>4. i \in 1 .. k /\ i - 1 \in 0 .. k /\ i - 1 < i
    BY <1>2, <2>3
  <2>5. s[i] \in Kids(nodes, s[i - 1])
    <3> HIDE DEF k, Bad
    <3> QED
      BY <1>2, <1>4, <2>4, WayStep
  <2>6. i - 1 \notin Bad
    <3> HIDE DEF Bad
    <3> QED
      BY <2>1, <2>2, <2>4
  <2>7. InTree[s[i - 1]]
    BY <2>4, <2>6
  <2>8. InTree[s[i]]
    BY <1>4, <1>5, <2>4, <2>5, <2>7
  <2> QED
    BY <2>8
<1>7. k \in 0 .. k
  BY <1>2
<1>8. InTree[s[k]]
  BY <1>6, <1>7
<1>9. c \in Kids(nodes, s[k])
  BY <1>4, <1>7, CalledIs DEF Ends
<1>10. InTree[c]
  BY <1>4, <1>5, <1>7, <1>8, <1>9
<1>11. c \in DOMAIN nodes \ {1}
  <2>1. s[k] \in DOMAIN nodes
    BY <1>4, <1>7
  <2>2. \A p \in DOMAIN nodes : Kids(nodes, p) \subseteq DOMAIN nodes /\ \A x \in Kids(nodes, p) : x # 1
    BY KidsAre
  <2> QED
    BY <1>9, <2>1, <2>2
<1> QED
  BY <1>3, <1>10, <1>11 DEF DataFiles

Listed ==
    command.list /\ Orderly /\ stage = "written" => {a.file : a \in Wanted} \subseteq image.list

LEMMA ListedStep ==
    ASSUME RccTypeOK, FilesInv, Listed, [RccNext]_rccVars
    PROVE  Listed'
<1> SUFFICES ASSUME command'.list, Orderly', stage' = "written" PROVE Listed'
  BY DEF Listed
<1>1. RccTypeOK'
  BY RccTypeStep
<1>2. ASSUME command' = command PROVE Wanted' = Wanted /\ Orderly
  <2>1. Asked' = Asked
    BY <1>2, AskedKept
  <2>2. \A a : Hidden(a)' <=> Hidden(a)
    BY <2>1 DEF Hidden
  <2> QED
    BY <1>2, <2>1, <2>2 DEF Wanted, Orderly
<1>3. CASE Output
  <2>1. command' = command /\ stage = "interpretResourceFile" /\ nodes' = nodes
    BY <1>3 DEF Output, processVars, readVars
  <2>2. image' = [image EXCEPT !.list = DataFiles] /\ image \in Image
    BY <1>3, <2>1 DEF Output, RccTypeOK, TreeOK
  <2>3. image'.list = DataFiles
    BY <2>2 DEF Image
  <2>4. Filled
    <3>1. Filled'
      BY <1>2, <1>3, <2>1, OutputFilled DEF FilesInv
    <3>2. Asked' = Asked
      BY <2>1, AskedKept
    <3> QED
      BY <2>1, <3>1, <3>2 DEF Filled
  <2>5. ASSUME NEW a \in Wanted PROVE a.file \in DataFiles
    BY <2>4, WantedListed DEF RccTypeOK, TreeOK
  <2> QED
    BY <1>2, <2>1, <2>3, <2>5 DEF Listed
<1>4. CASE UNCHANGED rccVars
  <2>1. UNCHANGED <<command, stage, image>>
    BY <1>4 DEF rccVars, processVars
  <2> QED
    BY <1>2, <2>1 DEF Listed
<1>5. CASE StartRcc \/ StartResource \/ StartFile \/ EndTag \/ Blanks
  <2>1. stage' = stage /\ stage = "interpretResourceFile"
    BY <1>5, TagsTyped DEF StartRcc, StartResource, StartFile, EndTag, Blanks, Gets, Interpreting
  <2> QED
    BY <2>1
<1>6. CASE AddText \/ AddFound \/ ParseError \/ EndDocument
  BY <1>6, TextTyped, FoundTyped, DocumentTyped
<1>7. CASE Descend \/ WriteDataBlob \/ BlobOfDirectory \/ WriteDataName \/ CountChild \/ WriteDataInfo
  <2>1. stage' = stage /\ stage \in Range(Walks)
    BY <1>7, WalksAre, DescendTyped, BlobTyped, UntouchedTyped, NameTyped, EntryTyped
  <2> QED
    BY <2>1, WalksAre
<1>8. CASE OpenReadFailed \/ EndSecondData
  BY <1>8, FailedTyped
<1>9. CASE EndWalk
  <2>1. ~command.list /\ command' = command
    BY <1>9, EndTyped
  <2> QED
    BY <2>1
<1>10. CASE ScanByte \/ EndOfTemp
  <2>1. command' = command /\ stage = "scan"
    BY <1>10, ScanTyped DEF ScanByte, EndOfTemp
  <2>2. ~command.list
    BY <2>1 DEF RccTypeOK, StageOK
  <2> QED
    BY <2>1, <2>2
<1>11. CASE SecondPass
  BY <1>11, SecondTyped
<1> QED
  BY <1>3, <1>4, <1>5, <1>6, <1>7, <1>8, <1>9, <1>10, <1>11 DEF RccNext, RccSteps

----------------------------------------------------------------------------
(* The search of QResource in what was laid down.                          *)
LEMMA NamedSo ==
    ASSUME RccTypeOK, NamesOnce, NEW m \in DOMAIN nodes, NameAt(m), NEW e \in DOMAIN image.structure,
           image.structure[e] = Info(m)
    PROVE  NameOf(e) = nodes[m].name
<1>1. PICK x \in DOMAIN image.names : /\ image.names[x].name = nodes[m].name
                                      /\ image.names[x].offset = nodes[m].nameOffset
  BY DEF NameAt
<1>2. image.structure[e].nameOffset = nodes[m].nameOffset
  BY DEF Info
<1>3. image.names \in Seq([name : FileNames, offset : Nat])
  BY DEF RccTypeOK, TreeOK, Image
<1>4. \A y \in DOMAIN image.names : y \in Nat /\ image.names[y].offset \in Nat
  <2> DEFINE names == image.names
  <2> HIDE DEF names
  <2>1. names \in Seq([name : FileNames, offset : Nat])
    BY <1>3 DEF names
  <2>2. Len(names) \in Nat /\ DOMAIN names = 1 .. Len(names)
        /\ \A y \in DOMAIN names : names[y] \in [name : FileNames, offset : Nat]
    BY <2>1, InSeq
  <2>3. \A y \in DOMAIN names : y \in Nat /\ names[y].offset \in Nat
    BY <2>2
  <2> QED
    BY <2>3 DEF names
<1> DEFINE S == {y \in Range(image.names) : y.offset = image.structure[e].nameOffset}
<1>5. image.names[x] \in S
  BY <1>1, <1>2 DEF Range
<1>6. ASSUME NEW z \in S PROVE z.name = nodes[m].name
  <2>1. PICK y \in DOMAIN image.names : z = image.names[y]
    BY DEF Range
  <2>2. image.names[y].offset = image.names[x].offset
    BY <1>1, <1>2, <2>1
  <2>3. ~(x < y) /\ ~(y < x)
    BY <1>4, <2>2 DEF NamesOnce
  <2>4. x = y
    BY <1>4, <2>3
  <2> QED
    BY <1>1, <2>1, <2>4
<1>7. NameOf(e) = (CHOOSE z \in S : TRUE).name
  BY <1>5 DEF NameOf
<1> HIDE DEF S
<1> QED
  BY <1>5, <1>6, <1>7

\* The children s of the directory n, whose entry is i, have the entries after o.
Listing(i, n, s, o) ==
    /\ Len(s) \in Nat /\ DOMAIN s = 1 .. Len(s) /\ o \in Nat /\ Range(s) = Kids(nodes, n)
    /\ \A k, l \in DOMAIN s : k < l => qt_rcc_compare_hash(s[k], s[l])
    /\ \A k \in DOMAIN s : /\ s[k] \in Reached(Shape(nodes)) /\ s[k] \in DOMAIN nodes
                           /\ o + k \in DOMAIN image.structure
                           /\ image.structure[o + k] = Info(s[k])
                           /\ NameOf(o + k) = nodes[s[k]].name
    /\ ChildrenOf(i) = o + 1 .. o + Len(s)
LEMMA EntryKids ==
    ASSUME RccTypeOK, nodes # <<>>, LaidDown, NEW i \in DOMAIN image.structure,
           NEW n \in Reached(Shape(nodes)), image.structure[i] = Info(n), nodes[n].directory
    PROVE  \E s, o : Listing(i, n, s, o)
<1>0. PICK s, o : s = Sorted[n] /\ o = nodes[n].childOffset
  OBVIOUS
<1> DEFINE K == Shape(nodes)
           c == nodes[n].children
<1>1. TreeOK /\ nodes \in Trees /\ Order \in Seeds
  BY OrderIs DEF RccTypeOK, TreeOK
<1>2. IsShape(K) /\ 1 \in DOMAIN K /\ Reached(K) \subseteq DOMAIN nodes
  BY <1>1, TreeShape
<1>3. n \in DOMAIN nodes
  BY <1>2
<1>4. c \in Seq(DOMAIN nodes) /\ IsInjective(c) /\ s = SortedByHash(c) /\ K[n] = c /\ o \in Nat
  BY <1>0, <1>1, <1>3, TreeIs, NodeIs DEF Sorted, Shape
<1>5. Range(c) = Kids(nodes, n)
  BY DEF Kids
<1>6. Closed(K, Reached(K))
  <2> HIDE DEF K
  <2> QED
    BY <1>2, ReachedClosed
<1>7. Kids(nodes, n) \subseteq Reached(K)
  BY <1>4, <1>5, <1>6 DEF Closed
<1>8. 1 \notin Kids(nodes, n)
  BY <1>1, <1>3, KidsAre
<1>9. ChildrenOf(i) = o + 1 .. o + Len(c)
  BY <1>0 DEF ChildrenOf, Info
<1> HIDE DEF c, K
<1>10. /\ s \in Seq(DOMAIN nodes) /\ Len(s) = Len(c) /\ Range(s) = Range(c)
       /\ \A k, l \in DOMAIN s : k < l => qt_rcc_compare_hash(s[k], s[l])
  BY <1>1, <1>4, InOrder
<1>11. Len(s) \in Nat /\ DOMAIN s = 1 .. Len(s)
  BY <1>10
<1>12. NamesOnce /\ \A m \in Reached(K) \ {1} : NameAt(m)
  BY DEF LaidDown, Placed, NamesOf, K
<1>13. \A k \in DOMAIN s : o + k \in DOMAIN image.structure /\ image.structure[o + k] = Info(s[k])
  BY <1>0 DEF LaidDown
<1>14. ASSUME NEW k \in DOMAIN s
       PROVE  s[k] \in Reached(K) /\ s[k] \in DOMAIN nodes /\ NameOf(o + k) = nodes[s[k]].name
  <2>1. s[k] \in Kids(nodes, n)
    BY <1>5, <1>10 DEF Range
  <2>2. s[k] \in Reached(K) \ {1} /\ s[k] \in DOMAIN nodes
    BY <1>2, <1>7, <1>8, <2>1 DEF K
  <2> QED
    BY <1>12, <1>13, <2>2, NamedSo
<1> QED
  BY <1>4, <1>5, <1>9, <1>10, <1>11, <1>13, <1>14 DEF K, Listing

(* Entering a directory by its entry is entering the newest child.         *)
EnterEntry(n, name) == IF Matches(n, name) = {} THEN 0 ELSE Min(Matches(n, name))
Leading(i, n, x) ==
    LET called == ChildrenCalled(nodes, n, x)
    IN  /\ Matches(i, x) \subseteq DOMAIN image.structure
        /\ \A e \in Matches(i, x) : \E c \in called : image.structure[e] = Info(c)
        /\ \A c \in called : c \in Reached(Shape(nodes))
                             /\ \E e \in Matches(i, x) : image.structure[e] = Info(c)
        /\ called # {} => /\ EnterEntry(i, x) \in DOMAIN image.structure
                          /\ image.structure[EnterEntry(i, x)] = Info(Max(called))

LEMMA Entering ==
    ASSUME RccTypeOK, nodes # <<>>, LaidDown, NEW i \in DOMAIN image.structure,
           NEW n \in Reached(Shape(nodes)), image.structure[i] = Info(n), nodes[n].directory, NEW x
    PROVE  Leading(i, n, x)
<1> DEFINE called == ChildrenCalled(nodes, n, x)
<1>0. PICK s, o : Listing(i, n, s, o)
  BY EntryKids
<1>1. PICK K : K = Kids(nodes, n)
  OBVIOUS
<1>2. /\ Len(s) \in Nat /\ DOMAIN s = 1 .. Len(s) /\ o \in Nat /\ Range(s) = K
      /\ \A k, l \in DOMAIN s : k < l => qt_rcc_compare_hash(s[k], s[l])
      /\ \A k \in DOMAIN s : /\ s[k] \in Reached(Shape(nodes)) /\ s[k] \in DOMAIN nodes
                             /\ o + k \in DOMAIN image.structure
                             /\ image.structure[o + k] = Info(s[k])
                             /\ NameOf(o + k) = nodes[s[k]].name
      /\ ChildrenOf(i) = o + 1 .. o + Len(s)
  BY <1>0, <1>1 DEF Listing
<1>3. nodes \in Trees /\ n \in DOMAIN nodes /\ Order \in Seeds
  <2>1. n \in DOMAIN nodes
    BY DEF Reached, Shape
  <2> QED
    BY <2>1, OrderIs DEF RccTypeOK, TreeOK
<1>4. \A m \in DOMAIN nodes : /\ nodes[m].name \in FileNames /\ m \in Nat
                              /\ Hash[nodes[m].name] \in Int /\ Order[nodes[m].name] \in Int
  <2>1. \A m \in DOMAIN nodes : nodes[m].name \in FileNames /\ m \in Nat
    BY <1>3, KidsAre
  <2> QED
    BY <1>3, <2>1, NameAssumption
<1>5. \A e : e \in ChildrenOf(i) <=> \E k \in DOMAIN s : e = o + k
  <2>1. ASSUME NEW e \in o + 1 .. o + Len(s) PROVE \E k \in DOMAIN s : e = o + k
    <3>1. e - o \in 1 .. Len(s) /\ e = o + (e - o)
      BY <1>2
    <3> QED
      BY <1>2, <3>1
  <2>2. \A k \in DOMAIN s : o + k \in o + 1 .. o + Len(s)
    BY <1>2
  <2> QED
    BY <1>2, <2>1, <2>2
<1>6. SortedRange(i)
  <2>1. SUFFICES ASSUME NEW e \in ChildrenOf(i), NEW f \in ChildrenOf(i), e < f
                 PROVE  Hash[NameOf(e)] <= Hash[NameOf(f)]
    BY DEF SortedRange
  <2>2. PICK k \in DOMAIN s, l \in DOMAIN s : e = o + k /\ f = o + l
    BY <1>5
  <2>3. k < l
    BY <1>2, <2>1, <2>2
  <2>4. qt_rcc_compare_hash(s[k], s[l])
    BY <1>2, <2>3
  <2>5. Hash[nodes[s[k]].name] <= Hash[nodes[s[l]].name]
    BY <1>2, <1>4, <2>4 DEF qt_rcc_compare_hash
  <2> QED
    BY <1>2, <2>2, <2>5
<1>7. \A e : e \in Matches(i, x) <=> \E k \in DOMAIN s : e = o + k /\ nodes[s[k]].name = x
  <2>1. i # 0 /\ image.structure[i].directory
    <3>1. image.structure \in Seq(Infos)
      BY DEF RccTypeOK, TreeOK, Image
    <3>2. i # 0
      BY <3>1
    <3> QED
      BY <3>2 DEF Info
  <2>2. Matches(i, x) = {c \in ChildrenOf(i) : NameOf(c) = x}
    BY <1>6, <2>1 DEF Matches
  <2> QED
    BY <1>2, <1>5, <2>2
<1>8. \A c : c \in called <=> \E k \in DOMAIN s : c = s[k] /\ nodes[s[k]].name = x
  BY <1>1, <1>2 DEF ChildrenCalled, Kids, Range
<1>9. Matches(i, x) \subseteq DOMAIN image.structure
  BY <1>2, <1>7
<1>10. \A e \in Matches(i, x) : \E c \in called : image.structure[e] = Info(c)
  BY <1>2, <1>7, <1>8
<1>11. \A c \in called : c \in Reached(Shape(nodes)) /\ \E e \in Matches(i, x) : image.structure[e] = Info(c)
  BY <1>2, <1>7, <1>8
<1>12. ASSUME called # {}
       PROVE  /\ EnterEntry(i, x) \in DOMAIN image.structure
              /\ image.structure[EnterEntry(i, x)] = Info(Max(called))
  <2>1. Max(called) \in called /\ \A y \in called : y <= Max(called)
    BY <1>3, <1>12, CalledIs
  <2>2. PICK k \in DOMAIN s : s[k] = Max(called) /\ nodes[s[k]].name = x
    BY <1>8, <2>1
  <2>3. ASSUME NEW l \in DOMAIN s, nodes[s[l]].name = x PROVE k <= l
    <3>1. s[l] <= s[k]
      BY <1>8, <2>1, <2>2, <2>3
    <3>2. ASSUME l < k PROVE FALSE
      <4>1. qt_rcc_compare_hash(s[l], s[k])
        BY <1>2, <3>2
      <4> QED
        BY <1>2, <1>4, <2>2, <2>3, <3>1, <4>1 DEF qt_rcc_compare_hash, Before
    <3> QED
      BY <1>2, <3>2
  <2>4. o + k \in Matches(i, x) /\ \A e \in Matches(i, x) : o + k <= e /\ e \in Nat
    BY <1>2, <1>7, <2>2, <2>3
  <2> DEFINE M == Matches(i, x)
  <2> HIDE DEF M
  <2>5. Min(M) = o + k
    <3>1. o + k \in M /\ \A e \in M : o + k <= e /\ e \in Nat
      BY <2>4 DEF M
    <3> QED
      BY <3>1 DEF Min
  <2>6. EnterEntry(i, x) = o + k
    BY <2>4, <2>5 DEF EnterEntry, M
  <2> QED
    BY <1>2, <2>2, <2>6
<1> QED
  BY <1>9, <1>10, <1>11, <1>12 DEF Leading

(* The entries gone through, one for each name on the way.                 *)
LEMMA EntriesGone ==
    ASSUME NEW X, 1 \in X, NEW path \in Paths \ {<<>>},
           \A i \in X, x \in FileNames : EnterEntry(i, x) \in X
    PROVE  \E e : /\ e[0] = 1
                  /\ \A j \in 1 .. Len(path) - 1 : e[j] = EnterEntry(e[j - 1], path[j])
                  /\ FoldLeft(EnterEntry, 1, Front(path)) = e[Len(path) - 1]
<1> DEFINE way == Front(path)
    n == Len(way)
    F == [x \in X \X (1 .. n) |-> EnterEntry(x[1], way[x[2]])]
    Is(f) == f = [s \in SUBSET DOMAIN way |->
                    IF s = {} THEN 1 ELSE EnterEntry(f[s \ {Max(s)}], way[Max(s)])]
<1>1. /\ n \in Nat /\ DOMAIN way = 1 .. n /\ n = Len(path) - 1
      /\ \A i \in 1 .. n : way[i] = path[i] /\ way[i] \in FileNames
  <2>1. way \in Paths /\ Len(path) \in Nat /\ n = Len(path) - 1 /\ \A i \in 1 .. n : way[i] = path[i]
    BY PathEnds, PathIs
  <2> HIDE DEF way
  <2>2. n \in Nat /\ DOMAIN way = 1 .. n /\ \A i \in 1 .. n : way[i] \in FileNames
    BY <2>1, PathIs
  <2> QED
    BY <2>1, <2>2
<1>2. F \in [X \X (1 .. n) -> X]
  <2>1. ASSUME NEW r \in X, NEW i \in 1 .. n PROVE EnterEntry(r, way[i]) \in X
    BY <1>1
  <2> HIDE DEF way, n
  <2> QED
    BY <2>1
<1>3. \E f : Is(f)
  <2> HIDE DEF F, n, way
  <2>1. PICK g \in [SUBSET (1 .. n) -> X] : Folds(g, 1, n, F)
    BY <1>1, <1>2, FoldExists
  <2>2. ASSUME NEW s \in SUBSET (1 .. n), s # {}
        PROVE  F[<<g[s \ {Max(s)}], Max(s)>>] = EnterEntry(g[s \ {Max(s)}], way[Max(s)])
    <3>1. Max(s) \in 1 .. n
      BY <1>1, <2>2, MaxIs
    <3>2. g[s \ {Max(s)}] \in X
      BY <2>1
    <3> QED
      BY <3>1, <3>2 DEF F
  <2>3. Is(g)
    BY <1>1, <2>1, <2>2 DEF Folds
  <2> QED
    BY <2>3
<1> DEFINE fold == CHOOSE f : Is(f)
<1>4. Is(fold)
  <2> HIDE DEF Is
  <2> QED
    BY <1>3
<1>5. FoldLeft(EnterEntry, 1, way) = fold[DOMAIN way]
  BY DEF FoldLeft, MapThenFoldSet
<1> HIDE DEF fold
<1> DEFINE e == [j \in 0 .. n |-> fold[1 .. j]]
<1>6. e[0] = 1
  <2>1. 1 .. 0 = {} /\ 0 \in 0 .. n
    BY <1>1
  <2>2. fold[{}] = 1
    BY <1>4
  <2> QED
    BY <2>1, <2>2
<1>7. ASSUME NEW i \in 1 .. n PROVE e[i] = EnterEntry(e[i - 1], way[i])
  <2>1. (1 .. i) \in SUBSET DOMAIN way /\ 1 .. i # {} /\ i \in 0 .. n /\ i - 1 \in 0 .. n
    <3>1. DOMAIN way = 1 .. n /\ n \in Nat
      BY <1>1
    <3> HIDE DEF n, way
    <3>2. i \in 1 .. i /\ (1 .. i) \in SUBSET (1 .. n) /\ i \in 0 .. n /\ i - 1 \in 0 .. n
      BY <3>1
    <3> QED
      BY <3>1, <3>2
  <2>2. Max(1 .. i) = i /\ (1 .. i) \ {Max(1 .. i)} = 1 .. i - 1
    BY FirstNumbers
  <2>3. fold[1 .. i] = EnterEntry(fold[(1 .. i) \ {Max(1 .. i)}], way[Max(1 .. i)])
    BY <1>4, <2>1
  <2>4. fold[1 .. i] = EnterEntry(fold[1 .. i - 1], way[i])
    BY <2>2, <2>3
  <2> QED
    BY <2>1, <2>4
<1>8. FoldLeft(EnterEntry, 1, way) = e[n]
  <2>1. n \in 0 .. n
    BY <1>1
  <2> QED
    BY <1>1, <1>5, <2>1
<1> HIDE DEF e, Is, F
<1> QED
  BY <1>1, <1>6, <1>7, <1>8

(* The search for a wanted file ends at the entry of a node that holds it, *)
(* or another of its path and locale.                                      *)
Located(a) ==
    LET n == FindNode(a.path, a.locale)
    IN  /\ n \in DOMAIN image.structure
        /\ \E b \in Twins(a) : \E c \in Reached(Shape(nodes)) :
              image.structure[n] = Info(c) /\ ~nodes[c].directory /\ nodes[c].file = b.file
LEMMA WantedLocated ==
    ASSUME RccTypeOK, LaidDown, Filled, NEW a \in Wanted
    PROVE  Located(a)
<1>1. nodes \in Trees /\ image.structure \in Seq(Infos)
  BY DEF RccTypeOK, TreeOK, Image
<1>2. /\ a \in Items /\ nodes # <<>>
  BY <1>1, WantedLies
<1>3. PICK s : LiesFor(a, s)
  BY <1>1, WantedLies
<1> DEFINE p == a.path
           k == Len(p) - 1
           D == DOMAIN image.structure
           R == Reached(Shape(nodes))
           X == D \cup {0}
<1>4. p \in Paths \ {<<>>} /\ k \in Nat /\ Len(p) = k + 1 /\ \A i \in 1 .. k + 1 : p[i] \in FileNames
  <2>1. p \in Paths \ {<<>>}
    BY <1>2 DEF Items
  <2>2. Len(p) \in Nat \ {0} /\ \A i \in 1 .. Len(p) : p[i] \in FileNames
    BY <2>1 DEF Paths
  <2> HIDE DEF p
  <2> QED
    BY <2>1, <2>2
<1>5. D \subseteq Nat \ {0} /\ 1 \in D /\ image.structure[1] = Info(1)
      /\ \A i \in D : \E n \in R : image.structure[i] = Info(n)
  <2>1. image.structure # <<>> /\ image.structure[1] = Info(1)
        /\ \A i \in D : \E n \in R : image.structure[i] = Info(n)
    BY DEF LaidDown, EntriesKnown
  <2>2. Len(image.structure) \in Nat /\ D = 1 .. Len(image.structure) /\ Len(image.structure) # 0
    BY <1>1, <2>1
  <2> QED
    BY <2>1, <2>2
<1>6. 1 \in R /\ R \subseteq DOMAIN nodes
  BY <1>2, TreeShape DEF RccTypeOK
<1>7. ASSUME NEW i \in X, NEW x \in FileNames PROVE EnterEntry(i, x) \in X
  <2>1. CASE Matches(i, x) = {}
    BY <2>1 DEF EnterEntry
  <2>2. CASE Matches(i, x) # {}
    <3>1. i \in D /\ image.structure[i].directory
      BY <2>2 DEF Matches
    <3>2. PICK n \in R : image.structure[i] = Info(n)
      BY <1>5, <3>1
    <3>3. nodes[n].directory
      BY <3>1, <3>2 DEF Info
    <3>4. Leading(i, n, x)
      BY <1>2, <3>1, <3>2, <3>3, Entering
    <3>5. Matches(i, x) \in SUBSET D
      BY <3>4 DEF Leading
    <3> DEFINE M == Matches(i, x)
    <3> HIDE DEF M, D
    <3>6. M \in SUBSET Nat /\ M # {}
      BY <1>5, <2>2, <3>5 DEF M
    <3>7. \E y \in M : \A z \in M : y <= z
      BY <3>6, NatMin
    <3>8. Min(M) \in M
      BY <3>7 DEF Min
    <3> QED
      BY <2>2, <3>5, <3>8 DEF EnterEntry, M
  <2> QED
    BY <2>1, <2>2
<1>8. PICK e : /\ e[0] = 1
               /\ \A j \in 1 .. Len(p) - 1 : e[j] = EnterEntry(e[j - 1], p[j])
               /\ FoldLeft(EnterEntry, 1, Front(p)) = e[Len(p) - 1]
  <2>1. 1 \in X
    BY <1>5
  <2> HIDE DEF X, p
  <2> QED
    BY <1>4, <1>7, <2>1, EntriesGone
<1>9. /\ Way(nodes, p, k, s) /\ \A i \in 0 .. k : nodes[s[i]].directory
      /\ \E c \in Ends(a, s) : ~nodes[c].directory /\ nodes[c].locale = a.locale
      /\ \A c \in Ends(a, s) : ~nodes[c].directory /\ nodes[c].locale = a.locale =>
            \E b \in Twins(a) : nodes[c].file = b.file
  BY <1>3 DEF LiesFor
<1> DEFINE At(i) == e[i] \in D /\ s[i] \in R /\ image.structure[e[i]] = Info(s[i])
           Bad == {i \in 0 .. k : ~At(i)}
<1>10. Bad = {}
  <2> SUFFICES ASSUME Bad # {} PROVE FALSE
    OBVIOUS
  <2>1. Bad \in SUBSET Nat
    BY <1>4
  <2>2. PICK i \in Bad : \A j \in Bad : i <= j
    <3> HIDE DEF Bad
    <3> QED
      BY <2>1, NatMin
  <2>3. i # 0
    <3>1. s[0] = 1
      BY <1>9 DEF Way
    <3> QED
      BY <1>5, <1>6, <1>8, <3>1
  <2>4. i \in 1 .. k /\ i - 1 \in 0 .. k /\ i - 1 < i
    BY <1>4, <2>3
  <2>5. i - 1 \notin Bad
    <3> HIDE DEF Bad
    <3> QED
      BY <2>1, <2>2, <2>4
  <2>6. At(i - 1)
    BY <2>4, <2>5
  <2> DEFINE called == ChildrenCalled(nodes, s[i - 1], p[i])
  <2>7. called # {} /\ s[i] = Max(called)
    <3> HIDE DEF k, p
    <3> QED
      BY <1>9, <2>4 DEF Way
  <2>8. Leading(e[i - 1], s[i - 1], p[i])
    BY <1>2, <1>9, <2>4, <2>6, Entering
  <2>9. e[i] = EnterEntry(e[i - 1], p[i])
    BY <1>8, <2>4
  <2>10. s[i] \in called
    <3>1. s[i - 1] \in DOMAIN nodes
      BY <1>6, <2>6
    <3> QED
      BY <1>1, <2>7, <3>1, CalledIs
  <2>11. At(i)
    BY <2>7, <2>8, <2>9, <2>10 DEF Leading
  <2> QED
    BY <2>11
<1>11. k \in 0 .. k
  BY <1>4
<1>12. At(k) /\ nodes[s[k]].directory
  BY <1>9, <1>10, <1>11
<1> DEFINE x == p[Len(p)]
           M == Matches(e[k], x)
           last == {i \in M : ~image.structure[i].directory /\ image.structure[i].locale = a.locale}
<1>13. Leading(e[k], s[k], x)
  BY <1>2, <1>12, Entering
<1>14. Ends(a, s) = ChildrenCalled(nodes, s[k], x)
  BY DEF Ends
<1>15. /\ M \subseteq D
       /\ \A i \in M : \E c \in Ends(a, s) : image.structure[i] = Info(c)
       /\ \A c \in Ends(a, s) : c \in R /\ \E i \in M : image.structure[i] = Info(c)
  BY <1>13, <1>14 DEF Leading
<1>16. \A c : /\ Info(c).directory = nodes[c].directory
              /\ ~nodes[c].directory => Info(c).locale = nodes[c].locale
  BY DEF Info
<1>17. last # {} /\ last \subseteq M
  BY <1>9, <1>15, <1>16
<1>18. Min(last) \in last
  <2> HIDE DEF last, D, M
  <2>1. last \in SUBSET Nat
    BY <1>5, <1>15, <1>17
  <2>2. \E y \in last : \A z \in last : y <= z
    BY <1>17, <2>1, NatMin
  <2> QED
    BY <2>2 DEF Min
<1>19. FindNode(p, a.locale) = Min(last)
  <2>1. Last(p) = x
    BY <1>4, PathEnds
  <2>2. FoldLeft(EnterEntry, 1, Front(p)) = e[k]
    BY <1>8
  <2>3. FindNode(p, a.locale) =
           LET l == {c \in Matches(FoldLeft(EnterEntry, 1, Front(p)), Last(p)) :
                        ~image.structure[c].directory /\ image.structure[c].locale = a.locale}
           IN  IF l = {} THEN 0 ELSE Min(l)
    BY DEF FindNode, EnterEntry
  <2> HIDE DEF k
  <2> QED
    BY <1>17, <2>1, <2>2, <2>3
<1> DEFINE n == Min(last)
<1>20. PICK c \in Ends(a, s) : image.structure[n] = Info(c)
  BY <1>15, <1>17, <1>18
<1>21. ~nodes[c].directory /\ nodes[c].locale = a.locale
  BY <1>16, <1>18, <1>20
<1>22. (\E b \in Twins(a) : nodes[c].file = b.file) /\ c \in R /\ n \in D
  BY <1>9, <1>15, <1>17, <1>18, <1>21
<1> HIDE DEF last
<1> QED
  BY <1>19, <1>20, <1>21, <1>22 DEF Located

LEMMA HoldsPart ==
    ASSUME NEW S, NEW data \in Seq(S), NEW from \in Nat, NEW blob \in Seq(S), HoldsAt(data, from, blob)
    PROVE  SubSeq(data, from + 1, from + Len(blob)) = blob
<1>1. /\ Len(data) \in Nat /\ Len(blob) \in Nat /\ DOMAIN blob = 1 .. Len(blob)
      /\ from + Len(blob) <= Len(data) /\ \A i \in 1 .. Len(blob) : data[from + i] = blob[i]
  BY DEF HoldsAt
<1> DEFINE part == SubSeq(data, from + 1, from + Len(blob))
<1>2. part \in Seq(S) /\ Len(part) = Len(blob) /\ \A i \in 1 .. Len(blob) : part[i] = data[from + i]
  BY <1>1
<1> HIDE DEF part
<1>3. DOMAIN part = DOMAIN blob /\ \A i \in DOMAIN part : part[i] = blob[i]
  BY <1>1, <1>2
<1>4. part = [i \in DOMAIN part |-> part[i]] /\ blob = [i \in DOMAIN blob |-> blob[i]]
  BY <1>2
<1>5. part = blob
  BY <1>3, <1>4
<1> QED
  BY <1>5 DEF part

LEMMA LocatedFound ==
    ASSUME RccTypeOK, LaidDown, OneGo, nodes # <<>>, NEW a, Located(a)
    PROVE  \E b \in Twins(a) : FoundIn(b, image.data, 0)
<1> DEFINE n == FindNode(a.path, a.locale)
<1>1. PICK b \in Twins(a), c \in Reached(Shape(nodes)) :
         image.structure[n] = Info(c) /\ ~nodes[c].directory /\ nodes[c].file = b.file
  BY DEF Located
<1>2. n # 0
  <2>1. image.structure \in Seq(Infos) /\ n \in DOMAIN image.structure
    BY DEF RccTypeOK, TreeOK, Image, Located
  <2> HIDE DEF n
  <2> QED
    BY <2>1
<1>3. BlobAt(c)
  BY <1>1 DEF LaidDown, Placed, BlobsOf
<1>4. c \in DOMAIN nodes /\ nodes[c].compressed \in BOOLEAN /\ nodes[c].dataOffset \in Nat
      /\ nodes[c].file \in DOMAIN Disk
  <2>1. c \in DOMAIN nodes
    BY DEF Reached, Shape
  <2> QED
    BY <1>1, <2>1, NodeIs DEF RccTypeOK
<1> HIDE DEF n
<1>5. /\ image.structure[n].compressed = nodes[c].compressed
      /\ image.structure[n].data = nodes[c].dataOffset
  BY <1>1, <1>4 DEF Info
<1> DEFINE from == nodes[c].dataOffset
           blob == Blob(b.file, nodes[c].compressed)
           data == image.data
<1>6. /\ HoldsAt(data, from, blob) /\ data \in Seq(Bytes) /\ blob \in Seq(Bytes)
      /\ Len(blob) \in Nat /\ DOMAIN blob = 1 .. Len(blob)
  <2>1. blob \in Seq(Bytes) /\ Len(blob) \in Nat /\ DOMAIN blob = 1 .. Len(blob)
    BY <1>1, <1>4, BlobIs
  <2> QED
    BY <1>1, <1>3, <2>1 DEF BlobAt, RccTypeOK, TreeOK, Image
<1>7. from \in Nat
  BY <1>4
<1>8. FoundIn(b, data, 0) <=> SubSeq(data, 0 + from + 1, 0 + from + Len(blob)) = blob
  <2>1. FindNode(b.path, b.locale) = n
    BY DEF Twins, n
  <2> QED
    BY <1>2, <1>5, <2>1 DEF FoundIn
<1> HIDE DEF from, blob, data
<1>9. SubSeq(data, from + 1, from + Len(blob)) = blob
  BY <1>6, <1>7, HoldsPart
<1> QED
  BY <1>7, <1>8, <1>9 DEF data

LEMMA FilesInvHolds == RccSpec => [](RccTypeOK /\ WalkInv /\ FilesInv /\ Listed)
<1>1. RccInit => RccTypeOK /\ WalkInv /\ FilesInv /\ Listed
  BY InitTyped, InitReading DEF RccInit, WalkInv, FilesInv, Listed
<1>2. RccTypeOK /\ WalkInv /\ FilesInv /\ Listed /\ [RccNext]_rccVars
         => (RccTypeOK /\ WalkInv /\ FilesInv /\ Listed)'
  BY RccTypeStep, WalkStep, FilesStep, ListedStep
<1> QED
  BY <1>1, <1>2, PTL DEF RccSpec

(***************************************************************************)
(* Whatever documents, disk, hashes and order of keys: a program finds     *)
(* every file asked for in what rbrcc wrote in one go, under its prefix,   *)
(* alias and locale and with its own bytes (of several for one path and    *)
(* locale, one), or it is listed; excepted is what FilesFound says.  What  *)
(* addFile makes of the documents' texts, the four traversals and the      *)
(* search through sorted hashes have to agree.                             *)
(***************************************************************************)
THEOREM FilesFoundHolds == RccSpec => []FilesFound
<1>1. RccTypeOK /\ WalkInv /\ FilesInv /\ Listed => FilesFound
  <2> SUFFICES ASSUME RccTypeOK, WalkInv, FilesInv, Listed, stage = "written",
                      \A doc \in Range(command.inputs) : InOnePiece(doc)
               PROVE  IF command.list
                      THEN (\A doc \in Range(command.inputs) : Valid(doc))
                           => {a.file : a \in Wanted} \subseteq image.list
                      ELSE command.format \in {"C_Code", "Binary"}
                           => \A a \in Wanted : \E b \in Twins(a) : FoundIn(b, image.data, 0)
    BY DEF FilesFound
  <2>1. CASE command.list
    BY <2>1 DEF Listed, Orderly
  <2>2. CASE ~command.list
    <3> SUFFICES ASSUME command.format \in {"C_Code", "Binary"}, NEW a \in Wanted
                 PROVE  \E b \in Twins(a) : FoundIn(b, image.data, 0)
      BY <2>2
    <3>1. Filled
      BY <2>2 DEF FilesInv, Orderly
    <3>2. nodes # <<>>
      BY <3>1, WantedLies DEF RccTypeOK, TreeOK
    <3>3. LaidDown /\ OneGo
      BY <2>2, <3>2 DEF WalkInv, OneGo
    <3>4. Located(a)
      BY <3>1, <3>3, WantedLocated
    <3> QED
      BY <3>2, <3>3, <3>4, LocatedFound
  <2> QED
    BY <2>1, <2>2
<1> QED
  BY <1>1, FilesInvHolds, PTL

----------------------------------------------------------------------------
(* Two processes.  What a process does with the documents until the data   *)
(* is written is told by its options (c) and the order of keys (o): Next   *)
(* is one step of it, and a run the steps that lead there.                 *)
Given == [command EXCEPT !.format = "Pass2"]
State(phase, p, l, o) ==
    [phase |-> phase, input |-> input, at |-> at, tags |-> tags, resource |-> resource,
     entry |-> entry, iterator |-> iterator, nodes |-> nodes, pending |-> p, todo |-> l, offset |-> o]
Reader == State("reads", <<>>, <<>>, 0)
Walker == State("walks", pending, todo, offset)

ReadStart(s, token) ==
    LET has(a) == a \in DOMAIN token.attributes
    IN  [s EXCEPT !.at = s.at + 1, !.tags = Append(s.tags, token.tag),
            !.resource =
                IF token.tag = "qresource"
                THEN [prefix |-> IF has("prefix") THEN token.attributes.prefix ELSE <<>>,
                      locale |-> IF has("lang") THEN Locales[token.attributes.lang] ELSE CLocale]
                ELSE s.resource]
ReadEntry(c, s, token) ==
    LET value(a, default) == IF a \in DOMAIN token.attributes THEN token.attributes[a] ELSE default
    IN  IF token.tag = "file"
        THEN [alias |-> value("alias", NoAlias),
              level |-> IF c.level = -2 THEN 0 ELSE value("compress", c.level),
              threshold |-> value("threshold", c.threshold)]
        ELSE s.entry
ReadText(c, s, file) ==
    LET alias == c.root \o s.resource.prefix
                   \o WithoutParents(CleanPath(IF s.entry.alias = NoAlias THEN file ELSE s.entry.alias))
        info == RCCFileInfo(Last(alias), file, FALSE, s.resource.locale, s.entry.level, s.entry.threshold)
    IN  [s EXCEPT !.at = s.at + 1, !.entry = [s.entry EXCEPT !.alias = Stem(alias, file)],
            !.nodes = IF Disk[file].kind = "file" THEN AddFile(s.nodes, alias, info) ELSE s.nodes,
            !.iterator = IF Iterable(file) THEN Disk[file].below ELSE <<>>]
ReadFound(s) ==
    LET child == Head(s.iterator)
        info == RCCFileInfo(Last(child), child, Disk[child].kind = "directory",
                            s.resource.locale, s.entry.level, s.entry.threshold)
    IN  [s EXCEPT !.iterator = Tail(s.iterator),
            !.nodes = IF Disk[child].kind = "huge" THEN s.nodes
                      ELSE AddFile(s.nodes, Append(s.entry.alias, Last(child)), info)]
ReadEnd(c, s) ==
    [s EXCEPT !.input = s.input + 1, !.at = 0, !.tags = <<>>,
        !.resource = [prefix |-> <<>>, locale |-> CLocale],
        !.entry = [alias |-> NoAlias, level |-> c.level, threshold |-> c.threshold]]
ReadNext(c, s) ==
    LET doc == c.inputs[s.input]
        token == doc[s.at + 1]
    IN  CASE s.iterator # <<>> -> ReadFound(s)
          [] s.iterator = <<>> /\ s.at = Len(doc) -> ReadEnd(c, s)
          [] s.iterator = <<>> /\ s.at # Len(doc) /\ token.kind = "blank" ->
                 [s EXCEPT !.at = s.at + 1]
          [] s.iterator = <<>> /\ s.at # Len(doc) /\ token.kind = "start" ->
                 [ReadStart(s, token) EXCEPT !.entry = ReadEntry(c, s, token)]
          [] s.iterator = <<>> /\ s.at # Len(doc) /\ token.kind = "end" ->
                 [s EXCEPT !.at = s.at + 1, !.tags = Front(s.tags)]
          [] s.iterator = <<>> /\ s.at # Len(doc) /\ token.kind = "characters" ->
                 ReadText(c, s, token.text)

BeforeIn(o, t, a, b) == o[t[a].name] < o[t[b].name] \/ (t[a].name = t[b].name /\ a > b)
IteratedIn(o, t, ns) ==
    [i \in DOMAIN ns |->
        CHOOSE n \in Range(ns) : Cardinality({m \in Range(ns) : BeforeIn(o, t, m, n)}) = i - 1]
WalkNext(o, s) ==
    LET n == Head(s.todo)
        info == s.nodes[n]
        packs == Compresses(info)
    IN  CASE s.todo = <<>> ->
                 [s EXCEPT !.pending = Front(s.pending),
                           !.todo = IteratedIn(o, s.nodes, s.nodes[Last(s.pending)].children)]
          [] s.todo # <<>> /\ info.directory ->
                 [s EXCEPT !.pending = Append(s.pending, n), !.todo = Tail(s.todo)]
          [] s.todo # <<>> /\ ~info.directory ->
                 [s EXCEPT !.nodes = [s.nodes EXCEPT ![n] = [info EXCEPT !.dataOffset = s.offset,
                                                                        !.compressed = packs]],
                           !.offset = s.offset + Len(Blob(info.file, packs)), !.todo = Tail(s.todo)]
Begun(s) ==
    [s EXCEPT !.phase = "walks", !.pending = IF s.nodes = <<>> THEN <<>> ELSE <<1>>,
              !.todo = <<>>, !.offset = 0]
Next(c, o, s) ==
    IF s.phase = "walks" THEN WalkNext(o, s)
    ELSE IF s.input > Len(c.inputs) THEN Begun(s) ELSE ReadNext(c, s)
Finished(s) == s.phase = "walks" /\ s.pending = <<>> /\ s.todo = <<>>
First(c) ==
    [phase |-> "reads", input |-> 1, at |-> 0, tags |-> <<>>,
     resource |-> [prefix |-> <<>>, locale |-> CLocale],
     entry |-> [alias |-> NoAlias, level |-> c.level, threshold |-> c.threshold],
     iterator |-> <<>>, nodes |-> <<>>, pending |-> <<>>, todo |-> <<>>, offset |-> 0]
IsRun(c, o, r, m) ==
    /\ m \in Nat \ {0} /\ r[1] = First(c)
    /\ \A i \in 1 .. m - 1 : ~Finished(r[i]) /\ r[i + 1] = Next(c, o, r[i])

LEMMA GivenIs ==
    ASSUME ProcessOK
    PROVE  /\ Given.inputs = command.inputs /\ Given.root = command.root
           /\ Given.level = command.level /\ Given.threshold = command.threshold
<1>1. PICK c \in Commands : command = c \/ command = [c EXCEPT !.format = "Pass2"]
  BY DEF ProcessOK, Processes
<1>2. DOMAIN c = {"inputs", "format", "list", "root", "level", "threshold"}
  BY CommandAssumption
<1>3. DOMAIN command = {"inputs", "format", "list", "root", "level", "threshold"}
  BY <1>1, <1>2
<1> QED
  BY <1>3 DEF Given

(* A state of a run is a record of these fields.                           *)
Fields ==
    {"phase", "input", "at", "tags", "resource", "entry", "iterator", "nodes", "pending", "todo", "offset"}
IsState(s) == s = [f \in Fields |-> s[f]]
LEMMA StateIs ==
    ASSUME NEW w, NEW p, NEW l, NEW o, NEW s, s = State(w, p, l, o)
    PROVE  /\ IsState(s)
           /\ s.phase = w /\ s.input = input /\ s.at = at /\ s.tags = tags /\ s.resource = resource
           /\ s.entry = entry /\ s.iterator = iterator /\ s.nodes = nodes
           /\ s.pending = p /\ s.todo = l /\ s.offset = o
BY DEF IsState, Fields, State

LEMMA SameState ==
    ASSUME NEW s, IsState(s), NEW t, IsState(t), s.phase = t.phase, s.input = t.input, s.at = t.at,
           s.tags = t.tags, s.resource = t.resource, s.entry = t.entry, s.iterator = t.iterator,
           s.nodes = t.nodes, s.pending = t.pending, s.todo = t.todo, s.offset = t.offset
    PROVE  s = t
<1>1. ASSUME NEW f \in Fields PROVE s[f] = t[f]
  BY <1>1 DEF Fields
<1> QED
  BY <1>1 DEF IsState

LEMMA ReaderIs ==
    /\ IsState(Reader)
    /\ Reader.phase = "reads" /\ Reader.input = input /\ Reader.at = at /\ Reader.tags = tags
    /\ Reader.resource = resource /\ Reader.entry = entry /\ Reader.iterator = iterator
    /\ Reader.nodes = nodes /\ Reader.pending = <<>> /\ Reader.todo = <<>> /\ Reader.offset = 0
<1>1. PICK p : p = <<>>
  OBVIOUS
<1>2. Reader = State("reads", p, p, 0)
  BY <1>1 DEF Reader
<1>3. PICK s : s = Reader
  OBVIOUS
<1>4. /\ IsState(s) /\ s.phase = "reads" /\ s.input = input /\ s.at = at /\ s.tags = tags
      /\ s.resource = resource /\ s.entry = entry /\ s.iterator = iterator /\ s.nodes = nodes
      /\ s.pending = p /\ s.todo = p /\ s.offset = 0
  BY ONLY <1>2, <1>3, StateIs
<1> QED
  BY ONLY <1>1, <1>3, <1>4

LEMMA WalkerIs ==
    /\ IsState(Walker)
    /\ Walker.phase = "walks" /\ Walker.input = input /\ Walker.at = at /\ Walker.tags = tags
    /\ Walker.resource = resource /\ Walker.entry = entry /\ Walker.iterator = iterator
    /\ Walker.nodes = nodes /\ Walker.pending = pending /\ Walker.todo = todo /\ Walker.offset = offset
<1>1. Walker = State("walks", pending, todo, offset)
  BY DEF Walker
<1>2. PICK s : s = Walker
  OBVIOUS
<1>3. /\ IsState(s) /\ s.phase = "walks" /\ s.input = input /\ s.at = at /\ s.tags = tags
      /\ s.resource = resource /\ s.entry = entry /\ s.iterator = iterator /\ s.nodes = nodes
      /\ s.pending = pending /\ s.todo = todo /\ s.offset = offset
  BY ONLY <1>1, <1>2, StateIs
<1> QED
  BY ONLY <1>2, <1>3

LEMMA ReaderMoves ==
    ASSUME NEW e, IsState(e), e.phase = "reads", e.input = input', e.at = at', e.tags = tags',
           e.resource = resource', e.entry = entry', e.iterator = iterator', e.nodes = nodes',
           e.pending = <<>>, e.todo = <<>>, e.offset = 0
    PROVE  Reader' = e
<1>1. PICK s : s = Reader'
  OBVIOUS
<1>2. /\ IsState(s) /\ s.phase = "reads" /\ s.input = input' /\ s.at = at' /\ s.tags = tags'
      /\ s.resource = resource' /\ s.entry = entry' /\ s.iterator = iterator' /\ s.nodes = nodes'
      /\ s.pending = <<>> /\ s.todo = <<>> /\ s.offset = 0
  <2>1. (/\ IsState(Reader)
         /\ Reader.phase = "reads" /\ Reader.input = input /\ Reader.at = at /\ Reader.tags = tags
         /\ Reader.resource = resource /\ Reader.entry = entry /\ Reader.iterator = iterator
         /\ Reader.nodes = nodes /\ Reader.pending = <<>> /\ Reader.todo = <<>> /\ Reader.offset = 0)'
    BY ReaderIs, PTL
  <2> QED
    BY <1>1, <2>1
<1>3. s = e
  BY <1>2, SameState
<1> QED
  BY <1>1, <1>3

LEMMA WalkerMoves ==
    ASSUME NEW e, IsState(e), e.phase = "walks", e.input = input', e.at = at', e.tags = tags',
           e.resource = resource', e.entry = entry', e.iterator = iterator', e.nodes = nodes',
           e.pending = pending', e.todo = todo', e.offset = offset'
    PROVE  Walker' = e
<1>1. PICK s : s = Walker'
  OBVIOUS
<1>2. /\ IsState(s) /\ s.phase = "walks" /\ s.input = input' /\ s.at = at' /\ s.tags = tags'
      /\ s.resource = resource' /\ s.entry = entry' /\ s.iterator = iterator' /\ s.nodes = nodes'
      /\ s.pending = pending' /\ s.todo = todo' /\ s.offset = offset'
  <2>1. (/\ IsState(Walker)
         /\ Walker.phase = "walks" /\ Walker.input = input /\ Walker.at = at /\ Walker.tags = tags
         /\ Walker.resource = resource /\ Walker.entry = entry /\ Walker.iterator = iterator
         /\ Walker.nodes = nodes /\ Walker.pending = pending /\ Walker.todo = todo
         /\ Walker.offset = offset)'
    BY WalkerIs, PTL
  <2> QED
    BY <1>1, <2>1
<1>3. s = e
  BY <1>2, SameState
<1> QED
  BY <1>1, <1>3

LEMMA RunGrows ==
    ASSUME NEW c, NEW o, NEW r, NEW m, IsRun(c, o, r, m), ~Finished(r[m])
    PROVE  \E u : /\ IsRun(c, o, u, m + 1) /\ u[m + 1] = Next(c, o, r[m])
                  /\ \A i \in 1 .. m : u[i] = r[i]
<1> DEFINE s == Next(c, o, r[m])
           u == [i \in 1 .. m + 1 |-> IF i = m + 1 THEN s ELSE r[i]]
<1>1. m \in Nat \ {0} /\ r[1] = First(c)
      /\ \A i \in 1 .. m - 1 : ~Finished(r[i]) /\ r[i + 1] = Next(c, o, r[i])
  BY DEF IsRun
<1>2. m + 1 \in Nat \ {0} /\ m + 1 \in 1 .. m + 1 /\ 1 \in 1 .. m /\ (m + 1) - 1 = m
      /\ \A i \in 1 .. m : i \in 1 .. m + 1 /\ i # m + 1 /\ i + 1 \in 1 .. m + 1
                           /\ (i = m \/ (i \in 1 .. m - 1 /\ i + 1 \in 1 .. m))
  BY ONLY <1>1
<1>3. u[m + 1] = s /\ \A i \in 1 .. m : u[i] = r[i]
  BY <1>2
<1> HIDE DEF u
<1>4. ASSUME NEW i \in 1 .. m PROVE ~Finished(u[i]) /\ u[i + 1] = Next(c, o, u[i])
  <2>1. CASE i = m
    BY <1>3, <2>1
  <2>2. CASE i \in 1 .. m - 1 /\ i + 1 \in 1 .. m
    <3>1. u[i] = r[i] /\ u[i + 1] = r[i + 1]
      BY <1>3, <2>2
    <3>2. ~Finished(r[i]) /\ r[i + 1] = Next(c, o, r[i])
      BY <1>1, <2>2
    <3> QED
      BY <3>1, <3>2
  <2> QED
    BY <1>2, <2>1, <2>2
<1>5. u[1] = First(c)
  BY <1>1, <1>2, <1>3
<1>6. IsRun(c, o, u, m + 1)
  BY <1>2, <1>4, <1>5 DEF IsRun
<1> QED
  BY <1>3, <1>6

LEMMA LengthIs ==
    ASSUME RccTypeOK, NEW kind, Gets(kind)
    PROVE  at \in Nat /\ Len(Document) \in Nat
<1>1. input \in 1 .. Len(command.inputs) /\ at \in Nat
  <2>1. command.inputs \in Seq(Range(command.inputs)) /\ input \in Nat \ {0} /\ at \in Nat
    BY ProcessIs DEF RccTypeOK, ProcessOK, ReadOK
  <2> QED
    BY <2>1 DEF Gets, Interpreting
<1>2. Document \in Range(command.inputs)
  BY <1>1, ProcessIs DEF RccTypeOK, ProcessOK, Document, Range
<1>3. Document \in Seq(Range(Document))
  BY <1>2, ProcessIs DEF RccTypeOK, ProcessOK
<1> QED
  BY <1>1, <1>3

LEMMA TagsNext ==
    ASSUME RccTypeOK, StartRcc \/ StartResource \/ StartFile \/ EndTag \/ Blanks
    PROVE  Reader' = ReadNext(Given, Reader)
<1>1. PICK kind : Gets(kind)
  BY DEF StartRcc, StartResource, StartFile, EndTag, Blanks
<1>2. /\ at' = at + 1 /\ UNCHANGED <<input, iterator, command>>
  BY DEF StartRcc, StartResource, StartFile, EndTag, Blanks, Took, processVars
<1>3. UNCHANGED nodes
  BY DEF StartRcc, StartResource, StartFile, EndTag, Blanks
<1>4. /\ iterator = <<>> /\ at < Len(Document) /\ RccToken.kind = kind
      /\ Document = Given.inputs[input] /\ RccToken = Given.inputs[input][at + 1]
  BY <1>1, GivenIs DEF Gets, RccToken, Document, RccTypeOK
<1>5. at # Len(Given.inputs[input])
  BY <1>1, <1>4, LengthIs
<1> DEFINE token == Given.inputs[input][at + 1]
<1>6. /\ Reader.iterator = <<>> /\ Reader.at = at /\ Reader.input = input /\ Reader.tags = tags
      /\ Reader.resource = resource /\ Reader.entry = entry
  BY <1>4, ReaderIs
<1>7. CASE EndTag
  <2>1. token.kind = "end" /\ tags' = Front(tags) /\ UNCHANGED <<resource, entry>>
    BY <1>4, <1>7 DEF EndTag, Gets
  <2>2. ReadNext(Given, Reader) = [Reader EXCEPT !.at = Reader.at + 1, !.tags = Front(Reader.tags)]
    BY <1>4, <1>5, <1>6, <2>1 DEF ReadNext
  <2>3. PICK e : e = ReadNext(Given, Reader)
    OBVIOUS
  <2>4. /\ IsState(e) /\ e.at = at' /\ e.tags = tags' /\ e.phase = "reads" /\ e.input = input
        /\ e.resource = resource /\ e.entry = entry /\ e.iterator = iterator /\ e.nodes = nodes
        /\ e.pending = <<>> /\ e.todo = <<>> /\ e.offset = 0
    BY <1>2, <2>1, <2>2, <2>3, ReaderIs DEF IsState, Fields
  <2> QED
    BY <1>2, <1>3, <2>1, <2>3, <2>4, ReaderMoves
<1>8. CASE Blanks
  <2>1. token.kind = "blank" /\ UNCHANGED <<tags, resource, entry>>
    BY <1>4, <1>8 DEF Blanks, Gets
  <2>2. ReadNext(Given, Reader) = [Reader EXCEPT !.at = Reader.at + 1]
    BY <1>4, <1>5, <1>6, <2>1 DEF ReadNext
  <2>3. PICK e : e = ReadNext(Given, Reader)
    OBVIOUS
  <2>4. /\ IsState(e) /\ e.at = at' /\ e.tags = tags /\ e.phase = "reads" /\ e.input = input
        /\ e.resource = resource /\ e.entry = entry /\ e.iterator = iterator /\ e.nodes = nodes
        /\ e.pending = <<>> /\ e.todo = <<>> /\ e.offset = 0
    BY <1>2, <2>1, <2>2, <2>3, ReaderIs DEF IsState, Fields
  <2> QED
    BY <1>2, <1>3, <2>1, <2>3, <2>4, ReaderMoves
<1>9. CASE StartRcc \/ StartResource \/ StartFile
  <2>1. token.kind = "start"
    BY <1>4, <1>9 DEF StartRcc, StartResource, StartFile, Gets
  <2>2. ReadNext(Given, Reader)
           = [ReadStart(Reader, token) EXCEPT !.entry = ReadEntry(Given, Reader, token)]
    BY <1>4, <1>5, <1>6, <2>1 DEF ReadNext
  <2>3. /\ tags' = Append(tags, token.tag)
        /\ resource' = IF token.tag = "qresource"
                THEN [prefix |-> IF "prefix" \in DOMAIN token.attributes
                                 THEN token.attributes.prefix ELSE <<>>,
                      locale |-> IF "lang" \in DOMAIN token.attributes
                                 THEN Locales[token.attributes.lang] ELSE CLocale]
                ELSE resource
    BY <1>4, <1>9 DEF StartRcc, StartResource, StartFile, HasAttribute
  <2>4. entry' = ReadEntry(Given, Reader, token)
    <3>1. Reader.entry = entry
      BY <1>6
    <3>2. CASE StartFile
      BY <1>4, <3>1, <3>2, GivenIs DEF StartFile, HasAttribute, ReadEntry, RccTypeOK
    <3>3. CASE StartRcc \/ StartResource
      BY <1>4, <3>1, <3>3 DEF StartRcc, StartResource, ReadEntry
    <3> QED
      BY <1>9, <3>2, <3>3
  <2> HIDE DEF token
  <2>5. ReadStart(Reader, token) = [Reader EXCEPT !.at = at', !.tags = tags', !.resource = resource']
    BY <1>2, <1>6, <2>3 DEF ReadStart
  <2>6. ReadNext(Given, Reader)
           = [Reader EXCEPT !.at = at', !.tags = tags', !.resource = resource', !.entry = entry']
    BY <2>2, <2>4, <2>5
  <2>7. PICK e : e = ReadNext(Given, Reader)
    OBVIOUS
  <2>8. /\ IsState(e) /\ e.at = at' /\ e.tags = tags' /\ e.phase = "reads" /\ e.input = input
        /\ e.resource = resource' /\ e.entry = entry' /\ e.iterator = iterator /\ e.nodes = nodes
        /\ e.pending = <<>> /\ e.todo = <<>> /\ e.offset = 0
    BY ONLY <2>6, <2>7, ReaderIs DEF IsState, Fields
  <2> QED
    BY <1>2, <1>3, <2>7, <2>8, ReaderMoves
<1> QED
  BY <1>7, <1>8, <1>9
LEMMA TextNext ==
    ASSUME RccTypeOK, AddText, stage' # "failed", ~command.list
    PROVE  Reader' = ReadNext(Given, Reader)
<1>1. /\ Gets("characters") /\ at' = at + 1 /\ UNCHANGED <<input, tags, resource, command>>
  BY DEF AddText, processVars
<1>2. /\ iterator = <<>> /\ at < Len(Document) /\ RccToken.kind = "characters"
      /\ Document = Given.inputs[input] /\ RccToken = Given.inputs[input][at + 1]
  BY <1>1, GivenIs DEF Gets, RccToken, Document, RccTypeOK
<1>3. at # Len(Given.inputs[input])
  BY <1>1, <1>2, LengthIs
<1> DEFINE token == Given.inputs[input][at + 1]
           file == token.text
           alias == Alias(IF entry.alias = NoAlias THEN file ELSE entry.alias)
           info == RCCFileInfo(Last(alias), file, FALSE, resource.locale, entry.level, entry.threshold)
<1>4. ReadNext(Given, Reader) = ReadText(Given, Reader, file)
  BY <1>2, <1>3, ReaderIs DEF ReadNext
<1>5. file \in DOMAIN Disk
  BY <1>2 DEF AddText
<1>6. Disk[file].kind \in {"file", "huge", "directory", "special"}
  BY <1>5, DiskIs
<1>7. /\ entry' = [entry EXCEPT !.alias = Stem(alias, file)]
      /\ nodes' = IF Disk[file].kind = "file" THEN AddFile(nodes, alias, info) ELSE nodes
      /\ iterator' = IF Iterable(file) THEN Disk[file].below ELSE <<>>
  <2>1. entry' = [entry EXCEPT !.alias = Stem(alias, file)]
    BY <1>2 DEF AddText
  <2>2. nodes' = IF Disk[file].kind = "file" THEN AddFile(nodes, alias, info) ELSE nodes
    <3>1. CASE Disk[file].kind = "file"
      <4>1. ~Iterable(file) /\ Disk[file].kind # "huge"
        BY <3>1 DEF Iterable
      <4>2. nodes' = AddFile(nodes, alias, info)
        BY <1>2, <1>5, <3>1, <4>1 DEF AddText
      <4> QED
        BY <3>1, <4>2
    <3>2. CASE Disk[file].kind = "huge"
      BY <1>2, <1>5, <3>2 DEF AddText
    <3>3. CASE Disk[file].kind \in {"directory", "special"}
      <4>1. Iterable(file) /\ Disk[file].kind # "file" /\ Disk[file].kind # "huge"
        BY <1>5, <3>3 DEF Iterable
      <4> QED
        BY <1>2, <1>5, <4>1 DEF AddText
    <3> QED
      BY <1>6, <3>1, <3>2, <3>3
  <2>3. iterator' = IF Iterable(file) THEN Disk[file].below ELSE <<>>
    BY <1>2, <1>5 DEF AddText
  <2> QED
    BY <2>1, <2>2, <2>3
<1>8. alias = Given.root \o resource.prefix
                 \o WithoutParents(CleanPath(IF entry.alias = NoAlias THEN file ELSE entry.alias))
  BY GivenIs DEF Alias, RccTypeOK
<1> HIDE DEF file, alias, info
<1>9. ReadText(Given, Reader, file)
        = [Reader EXCEPT !.at = at + 1, !.entry = entry', !.nodes = nodes', !.iterator = iterator']
  BY <1>7, <1>8, ReaderIs DEF ReadText, info
<1>10. PICK e : e = ReadNext(Given, Reader)
  OBVIOUS
<1>11. /\ IsState(e) /\ e.at = at + 1 /\ e.tags = tags /\ e.phase = "reads" /\ e.input = input
       /\ e.resource = resource /\ e.entry = entry' /\ e.iterator = iterator' /\ e.nodes = nodes'
       /\ e.pending = <<>> /\ e.todo = <<>> /\ e.offset = 0
  <2>1. e = [Reader EXCEPT !.at = at + 1, !.entry = entry', !.nodes = nodes', !.iterator = iterator']
    BY <1>4, <1>9, <1>10
  <2>2. PICK s, a, n, t, l : s = Reader /\ a = at + 1 /\ n = entry' /\ t = nodes' /\ l = iterator'
    OBVIOUS
  <2>3. IsState(s) /\ e = [s EXCEPT !.at = a, !.entry = n, !.nodes = t, !.iterator = l]
    BY <2>1, <2>2, ReaderIs
  <2>4. /\ IsState(e) /\ e.phase = s.phase /\ e.input = s.input /\ e.at = a /\ e.tags = s.tags
        /\ e.resource = s.resource /\ e.entry = n /\ e.iterator = l /\ e.nodes = t
        /\ e.pending = s.pending /\ e.todo = s.todo /\ e.offset = s.offset
    BY ONLY <2>3 DEF IsState, Fields
  <2> QED
    BY <2>2, <2>4, ReaderIs
<1> QED
  BY <1>1, <1>10, <1>11, ReaderMoves

LEMMA FoundNext ==
    ASSUME RccTypeOK, AddFound
    PROVE  Reader' = ReadNext(Given, Reader)
<1>1. iterator # <<>> /\ iterator' = Tail(iterator) /\ UNCHANGED <<input, at, tags, resource, entry>>
  BY DEF AddFound
<1>2. ReadNext(Given, Reader) = ReadFound(Reader)
  BY <1>1, ReaderIs DEF ReadNext
<1> DEFINE child == Head(iterator)
           info == RCCFileInfo(Last(child), child, Disk[child].kind = "directory",
                               resource.locale, entry.level, entry.threshold)
<1>3. nodes' = IF Disk[child].kind = "huge" THEN nodes
               ELSE AddFile(nodes, Append(entry.alias, Last(child)), info)
  BY DEF AddFound
<1>4. ReadFound(Reader) = [Reader EXCEPT !.iterator = iterator', !.nodes = nodes']
  <2>1. RCCFileInfo(Last(Head(Reader.iterator)), Head(Reader.iterator),
                    Disk[Head(Reader.iterator)].kind = "directory",
                    Reader.resource.locale, Reader.entry.level, Reader.entry.threshold) = info
    BY ReaderIs
  <2> HIDE DEF info
  <2> QED
    BY <1>1, <1>3, <2>1, ReaderIs DEF ReadFound
<1>5. PICK e : e = ReadNext(Given, Reader)
  OBVIOUS
<1>6. /\ IsState(e) /\ e.at = at /\ e.tags = tags /\ e.phase = "reads" /\ e.input = input
      /\ e.resource = resource /\ e.entry = entry /\ e.iterator = iterator' /\ e.nodes = nodes'
      /\ e.pending = <<>> /\ e.todo = <<>> /\ e.offset = 0
  <2>1. e = [Reader EXCEPT !.iterator = iterator', !.nodes = nodes']
    BY <1>2, <1>4, <1>5
  <2>2. PICK s, l, t : s = Reader /\ l = iterator' /\ t = nodes'
    OBVIOUS
  <2>3. IsState(s) /\ e = [s EXCEPT !.iterator = l, !.nodes = t]
    BY <2>1, <2>2, ReaderIs
  <2>4. /\ IsState(e) /\ e.phase = s.phase /\ e.input = s.input /\ e.at = s.at /\ e.tags = s.tags
        /\ e.resource = s.resource /\ e.entry = s.entry /\ e.iterator = l /\ e.nodes = t
        /\ e.pending = s.pending /\ e.todo = s.todo /\ e.offset = s.offset
    BY ONLY <2>3 DEF IsState, Fields
  <2> QED
    BY <2>2, <2>4, ReaderIs
<1> QED
  BY <1>1, <1>5, <1>6, ReaderMoves

LEMMA EndNext ==
    ASSUME RccTypeOK, EndDocument, command.format # "Binary"
    PROVE  Reader' = ReadNext(Given, Reader)
<1>1. iterator = <<>> /\ at = Len(Document) /\ NextInput /\ nodes' = nodes /\ command' = command
  BY DEF EndDocument, processVars
<1>2. Document = Given.inputs[input]
  BY GivenIs DEF Document, RccTypeOK
<1>3. ReadNext(Given, Reader) = ReadEnd(Given, Reader)
  BY <1>1, <1>2, ReaderIs DEF ReadNext
<1>4. /\ input' = input + 1 /\ at' = 0 /\ tags' = <<>> /\ iterator' = iterator
      /\ resource' = [prefix |-> <<>>, locale |-> CLocale]
      /\ entry' = [alias |-> NoAlias, level |-> Given.level, threshold |-> Given.threshold]
  BY <1>1, GivenIs DEF NextInput, NoEntry, RccTypeOK
<1>5. ReadEnd(Given, Reader) = [Reader EXCEPT !.input = input', !.at = at', !.tags = tags',
                                              !.resource = resource', !.entry = entry']
  BY <1>4, ReaderIs DEF ReadEnd
<1>6. PICK e : e = ReadNext(Given, Reader)
  OBVIOUS
<1>7. /\ IsState(e) /\ e.at = at' /\ e.tags = tags' /\ e.phase = "reads" /\ e.input = input'
      /\ e.resource = resource' /\ e.entry = entry' /\ e.iterator = iterator /\ e.nodes = nodes
      /\ e.pending = <<>> /\ e.todo = <<>> /\ e.offset = 0
  <2>1. e = [Reader EXCEPT !.input = input', !.at = at', !.tags = tags',
                           !.resource = resource', !.entry = entry']
    BY <1>3, <1>5, <1>6
  <2>2. PICK s, i, a, t, u, n :
           s = Reader /\ i = input' /\ a = at' /\ t = tags' /\ u = resource' /\ n = entry'
    OBVIOUS
  <2>3. IsState(s) /\ e = [s EXCEPT !.input = i, !.at = a, !.tags = t, !.resource = u, !.entry = n]
    BY <2>1, <2>2, ReaderIs
  <2>4. /\ IsState(e) /\ e.phase = s.phase /\ e.input = i /\ e.at = a /\ e.tags = t
        /\ e.resource = u /\ e.entry = n /\ e.iterator = s.iterator /\ e.nodes = s.nodes
        /\ e.pending = s.pending /\ e.todo = s.todo /\ e.offset = s.offset
    BY ONLY <2>3 DEF IsState, Fields
  <2> QED
    BY <2>2, <2>4, ReaderIs
<1> QED
  BY <1>1, <1>4, <1>6, <1>7, ReaderMoves

(* What the reader does is the next step of a run.                         *)
Reads ==
    \/ StartRcc \/ StartResource \/ StartFile \/ EndTag \/ Blanks
    \/ AddText \/ AddFound \/ EndDocument
LEMMA ReadsNext ==
    ASSUME RccTypeOK, Reads, stage' # "failed", ~command.list, command.format # "Binary", NEW o
    PROVE  Reader' = Next(Given, o, Reader) /\ stage' = stage /\ command' = command
<1>1. Interpreting
  BY DEF Reads, StartRcc, StartResource, StartFile, EndTag, Blanks, AddText, AddFound, EndDocument, Gets
<1>2. Next(Given, o, Reader) = ReadNext(Given, Reader)
  <2>1. ~(input > Len(command.inputs))
    <3>1. input \in Nat /\ command.inputs \in Seq(Range(command.inputs))
      BY ProcessIs DEF RccTypeOK, ProcessOK, ReadOK
    <3> QED
      BY <1>1, <3>1 DEF Interpreting
  <2>2. ~(Reader.input > Len(Given.inputs)) /\ Reader.phase # "walks"
    BY <2>1, ReaderIs, GivenIs DEF RccTypeOK
  <2> QED
    BY <2>2 DEF Next
<1>3. Reader' = ReadNext(Given, Reader)
  BY TagsNext, TextNext, FoundNext, EndNext DEF Reads
<1>4. stage' = stage /\ command' = command
  <2>1. CASE AddText
    BY <2>1 DEF AddText, processVars
  <2>2. CASE StartRcc \/ StartResource \/ StartFile \/ EndTag \/ Blanks
    BY <2>2, TagsTyped
  <2>3. CASE AddFound \/ EndDocument
    BY <2>3 DEF AddFound, EndDocument, processVars
  <2> QED
    BY <2>1, <2>2, <2>3 DEF Reads
<1> QED
  BY <1>2, <1>3, <1>4
(* The first traversal goes on with a run, whatever the order of keys.     *)
LEMMA IteratedIs ==
    ASSUME NEW ns
    PROVE  Iterated(ns) = IteratedIn(Order, nodes, ns)
<1>1. \A a, b : Before(a, b) <=> BeforeIn(Order, nodes, a, b)
  BY DEF Before, BeforeIn
<1>2. Iterated(ns) = [i \in DOMAIN ns |->
         CHOOSE n \in Range(ns) : Cardinality({m \in Range(ns) : Before(m, n)}) = i - 1]
  BY DEF Iterated, InOrderOf
<1>3. \A n : {m \in Range(ns) : Before(m, n)} = {m \in Range(ns) : BeforeIn(Order, nodes, m, n)}
  BY <1>1
<1>4. \A i : (CHOOSE n \in Range(ns) : Cardinality({m \in Range(ns) : Before(m, n)}) = i - 1)
           = (CHOOSE n \in Range(ns) : Cardinality({m \in Range(ns) : BeforeIn(Order, nodes, m, n)}) = i - 1)
  BY <1>3
<1> QED
  BY <1>2, <1>4 DEF IteratedIn

DataWalks == Descend \/ WriteDataBlob \/ BlobOfDirectory
LEMMA WalksNext ==
    ASSUME RccTypeOK, stage = "writeDataBlobs", DataWalks, NEW c
    PROVE  Walker' = Next(c, Order, Walker) /\ ~Finished(Walker)
<1>1. UNCHANGED <<input, at, tags, resource, entry, iterator>>
  BY DEF DataWalks, Descend, WriteDataBlob, BlobOfDirectory, Visited
<1>2. Next(c, Order, Walker) = WalkNext(Order, Walker)
  BY WalkerIs DEF Next
<1>3. CASE Descend
  <2>1. /\ todo = <<>> /\ pending # <<>> /\ pending' = Front(pending) /\ nodes' = nodes /\ offset' = offset
        /\ todo' = Iterated(nodes[Last(pending)].children)
    BY <1>3 DEF Descend
  <2>2. todo' = IteratedIn(Order, nodes, nodes[Last(pending)].children)
    BY <2>1, IteratedIs
  <2>3. WalkNext(Order, Walker) = [Walker EXCEPT !.pending = pending', !.todo = todo']
    BY <2>1, <2>2, WalkerIs DEF WalkNext
  <2>4. ~Finished(Walker)
    BY <2>1, WalkerIs DEF Finished
  <2>5. PICK e : e = WalkNext(Order, Walker)
    OBVIOUS
  <2>6. /\ IsState(e) /\ e.at = at /\ e.tags = tags /\ e.phase = "walks" /\ e.input = input
        /\ e.resource = resource /\ e.entry = entry /\ e.iterator = iterator /\ e.nodes = nodes
        /\ e.pending = pending' /\ e.todo = todo' /\ e.offset = offset
    BY ONLY <2>3, <2>5, WalkerIs DEF IsState, Fields
  <2>7. Walker' = e
    BY <1>1, <2>1, <2>5, <2>6, WalkerMoves
  <2> QED
    BY <1>2, <2>4, <2>5, <2>7
<1>4. CASE BlobOfDirectory
  <2>1. /\ todo # <<>> /\ nodes[Head(todo)].directory /\ todo' = Tail(todo)
        /\ pending' = Append(pending, Head(todo)) /\ UNCHANGED <<nodes, offset>>
    BY <1>4 DEF BlobOfDirectory, Walking, Visiting, Visited
  <2>2. WalkNext(Order, Walker) = [Walker EXCEPT !.pending = pending', !.todo = todo']
    BY <2>1, WalkerIs DEF WalkNext
  <2>3. ~Finished(Walker)
    BY <2>1, WalkerIs DEF Finished
  <2>4. PICK e : e = WalkNext(Order, Walker)
    OBVIOUS
  <2>5. /\ IsState(e) /\ e.at = at /\ e.tags = tags /\ e.phase = "walks" /\ e.input = input
        /\ e.resource = resource /\ e.entry = entry /\ e.iterator = iterator /\ e.nodes = nodes
        /\ e.pending = pending' /\ e.todo = todo' /\ e.offset = offset
    BY ONLY <2>2, <2>4, WalkerIs DEF IsState, Fields
  <2>6. Walker' = e
    BY <1>1, <2>1, <2>4, <2>5, WalkerMoves
  <2> QED
    BY <1>2, <2>3, <2>4, <2>6
<1>5. CASE WriteDataBlob
  <2> DEFINE n == Head(todo)
             packs == Compresses(nodes[n])
  <2>1. /\ todo # <<>> /\ ~nodes[n].directory /\ todo' = Tail(todo) /\ pending' = pending
        /\ nodes' = [nodes EXCEPT ![n] = [nodes[n] EXCEPT !.dataOffset = offset, !.compressed = packs]]
        /\ offset' = offset + Len(Blob(nodes[n].file, packs))
    <3>1. todo # <<>> /\ ~nodes[n].directory /\ todo' = Tail(todo) /\ pending' = pending
      BY <1>5 DEF WriteDataBlob, Walking, Visiting, Visited
    <3>2. nodes' = [nodes EXCEPT ![n] = [Visiting EXCEPT !.dataOffset = offset,
                                                        !.compressed = Compresses(Visiting)]]
          /\ offset' = offset + Len(Blob(Visiting.file, Compresses(Visiting)))
      BY <1>5, BlobTyped
    <3> QED
      BY <3>1, <3>2 DEF Visiting
  <2> HIDE DEF packs
  <2>2. WalkNext(Order, Walker)
          = [Walker EXCEPT !.nodes = nodes', !.offset = offset', !.todo = todo']
    BY <2>1, WalkerIs DEF WalkNext, packs
  <2>3. ~Finished(Walker)
    BY <2>1, WalkerIs DEF Finished
  <2>4. PICK e : e = WalkNext(Order, Walker)
    OBVIOUS
  <2>5. /\ IsState(e) /\ e.at = at /\ e.tags = tags /\ e.phase = "walks" /\ e.input = input
        /\ e.resource = resource /\ e.entry = entry /\ e.iterator = iterator /\ e.nodes = nodes'
        /\ e.pending = pending /\ e.todo = todo' /\ e.offset = offset'
    BY ONLY <2>2, <2>4, WalkerIs DEF IsState, Fields
  <2>6. Walker' = e
    BY <1>1, <2>1, <2>4, <2>5, WalkerMoves
  <2> QED
    BY <1>2, <2>3, <2>4, <2>6
<1> QED
  BY <1>3, <1>4, <1>5 DEF DataWalks

(* A run goes on to the traversal when the documents are read.             *)
LEMMA BegunIs ==
    ASSUME NEW s, IsState(s), NEW b, b = Begun(s)
    PROVE  /\ IsState(b) /\ b.phase = "walks" /\ b.input = s.input /\ b.at = s.at /\ b.tags = s.tags
           /\ b.resource = s.resource /\ b.entry = s.entry /\ b.iterator = s.iterator /\ b.nodes = s.nodes
           /\ b.pending = (IF s.nodes = <<>> THEN <<>> ELSE <<1>>) /\ b.todo = <<>> /\ b.offset = 0
<1>1. PICK p : p = IF s.nodes = <<>> THEN <<>> ELSE <<1>>
  OBVIOUS
<1>2. PICK l : l = <<>>
  OBVIOUS
<1>3. b = [s EXCEPT !.phase = "walks", !.pending = p, !.todo = l, !.offset = 0]
  BY <1>1, <1>2 DEF Begun
<1>4. /\ IsState(b) /\ b.phase = "walks" /\ b.input = s.input /\ b.at = s.at /\ b.tags = s.tags
      /\ b.resource = s.resource /\ b.entry = s.entry /\ b.iterator = s.iterator /\ b.nodes = s.nodes
      /\ b.pending = p /\ b.todo = l /\ b.offset = 0
  BY ONLY IsState(s), <1>3 DEF IsState, Fields
<1> QED
  BY <1>1, <1>2, <1>4

LEMMA BeginsNext ==
    ASSUME RccTypeOK, input > Len(command.inputs), NEW o
    PROVE  /\ Next(Given, o, Reader) = Begun(Reader) /\ ~Finished(Reader)
           /\ UNCHANGED <<input, at, tags, resource, entry, iterator, nodes>> /\ pending' = Root
                 /\ todo' = <<>> /\ offset' = 0 => Walker' = Begun(Reader)
<1>1. Next(Given, o, Reader) = Begun(Reader)
  <2>1. Reader.phase # "walks" /\ Reader.input > Len(Given.inputs)
    BY ReaderIs, GivenIs DEF RccTypeOK
  <2> QED
    BY <2>1 DEF Next
<1>2. ~Finished(Reader)
  BY ReaderIs DEF Finished
<1>3. ASSUME UNCHANGED <<input, at, tags, resource, entry, iterator, nodes>>, pending' = Root,
             todo' = <<>>, offset' = 0
      PROVE  Walker' = Begun(Reader)
  <2>1. PICK b : b = Begun(Reader)
    OBVIOUS
  <2>2. PICK s : s = Reader
    OBVIOUS
  <2>3. /\ IsState(b) /\ b.phase = "walks" /\ b.input = s.input /\ b.at = s.at /\ b.tags = s.tags
        /\ b.resource = s.resource /\ b.entry = s.entry /\ b.iterator = s.iterator /\ b.nodes = s.nodes
        /\ b.pending = (IF s.nodes = <<>> THEN <<>> ELSE <<1>>) /\ b.todo = <<>> /\ b.offset = 0
    BY <2>1, <2>2, ReaderIs, BegunIs
  <2>4. /\ b.input = input' /\ b.at = at' /\ b.tags = tags' /\ b.resource = resource' /\ b.entry = entry'
        /\ b.iterator = iterator' /\ b.nodes = nodes' /\ b.pending = pending' /\ b.todo = todo'
        /\ b.offset = offset'
    BY <1>3, <2>2, <2>3, ReaderIs DEF Root
  <2>5. Walker' = b
    BY <2>3, <2>4, WalkerMoves
  <2> QED
    BY <2>1, <2>5
<1> QED
  BY <1>1, <1>2, <1>3

----------------------------------------------------------------------------
(* The first process: what it reserves and writes is told by the end of a  *)
(* run, whose tree differs from the nodes in what is written later.        *)
Resumes(r, m) == r[m].offset = 0 => \E b \in 1 .. m : r[b] = Begun(r[m])
SameData(s) ==
    /\ DOMAIN s.nodes = DOMAIN nodes
    /\ \A n \in DOMAIN nodes :
          /\ s.nodes[n].directory = nodes[n].directory /\ s.nodes[n].file = nodes[n].file
          /\ s.nodes[n].children = nodes[n].children /\ s.nodes[n].dataOffset = nodes[n].dataOffset
          /\ s.nodes[n].compressed = nodes[n].compressed
Reserved(s) ==
    /\ s.offset \in Nat /\ s.offset <= image.size
    /\ image.size \in Nat /\ (image.size = 0 \/ image.size >= 8)
FirstDone(r, m) ==
    /\ IsRun(Given, seed[1], r, m) /\ Finished(r[m]) /\ Resumes(r, m)
    /\ IsState(r[m]) /\ SameData(r[m]) /\ Reserved(r[m])
FirstInv ==
    command.format = "Pass1" /\ ~command.list =>
        /\ stage = "interpretResourceFile" =>
              image.size = 0 /\ \E r, m : IsRun(Given, seed[1], r, m) /\ r[m] = Reader
        /\ stage = "writeDataBlobs" =>
              \E r, m : IsRun(Given, seed[1], r, m) /\ r[m] = Walker /\ Resumes(r, m)
        /\ stage \in {"writeDataNames", "childOffsets", "writeDataInfo", "written"} =>
              \E r, m : FirstDone(r, m)

LEMMA RunBegins ==
    ASSUME NEW c, NEW o
    PROVE  IsRun(c, o, [i \in 1 .. 1 |-> First(c)], 1)
<1> DEFINE r == [i \in 1 .. 1 |-> First(c)]
<1>1. 1 \in Nat \ {0} /\ r[1] = First(c) /\ 1 - 1 = 0 /\ 1 .. 0 = {}
  OBVIOUS
<1> HIDE DEF r
<1> QED
  BY <1>1 DEF IsRun, r

LEMMA FirstIs ==
    ASSUME NEW c, NEW s, s = First(c)
    PROVE  /\ IsState(s) /\ s.phase = "reads" /\ s.input = 1 /\ s.at = 0 /\ s.tags = <<>>
           /\ s.resource = [prefix |-> <<>>, locale |-> CLocale]
           /\ s.entry = [alias |-> NoAlias, level |-> c.level, threshold |-> c.threshold]
           /\ s.iterator = <<>> /\ s.nodes = <<>> /\ s.pending = <<>> /\ s.todo = <<>> /\ s.offset = 0
<1>1. PICK x, y, z : x = <<>> /\ y = [prefix |-> <<>>, locale |-> CLocale]
                     /\ z = [alias |-> NoAlias, level |-> c.level, threshold |-> c.threshold]
  OBVIOUS
<1>2. s = [phase |-> "reads", input |-> 1, at |-> 0, tags |-> x, resource |-> y, entry |-> z,
           iterator |-> x, nodes |-> x, pending |-> x, todo |-> x, offset |-> 0]
  BY <1>1 DEF First
<1>3. /\ IsState(s) /\ s.phase = "reads" /\ s.input = 1 /\ s.at = 0 /\ s.tags = x
      /\ s.resource = y /\ s.entry = z
      /\ s.iterator = x /\ s.nodes = x /\ s.pending = x /\ s.todo = x /\ s.offset = 0
  BY ONLY <1>2 DEF IsState, Fields
<1> QED
  BY <1>1, <1>3

LEMMA StartsFirst ==
    /\ ProcessOK /\ input = 1 /\ at = 0 /\ tags = <<>> /\ iterator = <<>> /\ nodes = <<>>
    /\ resource = [prefix |-> <<>>, locale |-> CLocale] /\ entry = NoEntry
    => Reader = First(Given)
<1> SUFFICES ASSUME ProcessOK, input = 1, at = 0, tags = <<>>, iterator = <<>>, nodes = <<>>,
                    resource = [prefix |-> <<>>, locale |-> CLocale], entry = NoEntry
             PROVE  Reader = First(Given)
  OBVIOUS
<1>1. PICK s, t : s = Reader /\ t = First(Given)
  OBVIOUS
<1>2. entry = [alias |-> NoAlias, level |-> Given.level, threshold |-> Given.threshold]
  BY GivenIs DEF NoEntry
<1>3. /\ IsState(s) /\ s.phase = t.phase /\ s.input = t.input /\ s.at = t.at /\ s.tags = t.tags
      /\ s.resource = t.resource /\ s.entry = t.entry /\ s.iterator = t.iterator /\ s.nodes = t.nodes
      /\ s.pending = t.pending /\ s.todo = t.todo /\ s.offset = t.offset /\ IsState(t)
  BY <1>1, <1>2, ReaderIs, FirstIs
<1> QED
  BY <1>1, <1>3, SameState

LEMMA FirstInit == RccInit => FirstInv
<1> SUFFICES ASSUME RccInit PROVE FirstInv
  OBVIOUS
<1>1. ProcessOK
  BY InitTyped DEF RccTypeOK
<1>2. Reader = First(Given)
  BY <1>1, StartsFirst DEF RccInit
<1>3. stage = "interpretResourceFile" /\ image.size = 0
  BY DEF RccInit
<1>4. \E r, m : IsRun(Given, seed[1], r, m) /\ r[m] = Reader
  <2> DEFINE r == [i \in 1 .. 1 |-> First(Given)]
  <2>1. IsRun(Given, seed[1], r, 1)
    BY RunBegins
  <2>2. r[1] = Reader
    BY <1>2
  <2> QED
    BY <2>1, <2>2
<1> QED
  BY <1>3, <1>4 DEF FirstInv

LEMMA BegunSame ==
    ASSUME NEW s, IsState(s), NEW t, IsState(t), s.input = t.input, s.at = t.at, s.tags = t.tags,
           s.resource = t.resource, s.entry = t.entry, s.iterator = t.iterator, s.nodes = t.nodes
    PROVE  Begun(s) = Begun(t)
<1>1. PICK b, d : b = Begun(s) /\ d = Begun(t)
  OBVIOUS
<1>2. /\ IsState(b) /\ b.phase = "walks" /\ b.input = s.input /\ b.at = s.at /\ b.tags = s.tags
      /\ b.resource = s.resource /\ b.entry = s.entry /\ b.iterator = s.iterator /\ b.nodes = s.nodes
      /\ b.pending = (IF s.nodes = <<>> THEN <<>> ELSE <<1>>) /\ b.todo = <<>> /\ b.offset = 0
  BY <1>1, BegunIs
<1>3. /\ IsState(d) /\ d.phase = "walks" /\ d.input = t.input /\ d.at = t.at /\ d.tags = t.tags
      /\ d.resource = t.resource /\ d.entry = t.entry /\ d.iterator = t.iterator /\ d.nodes = t.nodes
      /\ d.pending = (IF t.nodes = <<>> THEN <<>> ELSE <<1>>) /\ d.todo = <<>> /\ d.offset = 0
  BY <1>1, BegunIs
<1>4. b = d
  BY <1>2, <1>3, SameState
<1> QED
  BY <1>1, <1>4

LEMMA BegunAgain ==
    ASSUME NEW s, IsState(s), NEW b, b = Begun(s)
    PROVE  Begun(b) = b
<1>1. /\ IsState(b) /\ b.input = s.input /\ b.at = s.at /\ b.tags = s.tags
      /\ b.resource = s.resource /\ b.entry = s.entry /\ b.iterator = s.iterator /\ b.nodes = s.nodes
  BY BegunIs
<1>2. Begun(b) = Begun(s)
  BY <1>1, BegunSame
<1> QED
  BY <1>2

(* A traversal that has written nothing began with the tree it now has.    *)
LEMMA ResumesOn ==
    ASSUME RccTypeOK, stage = "writeDataBlobs", DataWalks,
           NEW r, NEW m \in Nat \ {0}, r[m] = Walker, Resumes(r, m),
           NEW u, u[m + 1] = Walker', \A i \in 1 .. m : u[i] = r[i]
    PROVE  Resumes(u, m + 1)
<1> SUFFICES ASSUME u[m + 1].offset = 0 PROVE \E b \in 1 .. m + 1 : u[b] = Begun(u[m + 1])
  BY DEF Resumes
<1>1. PICK v, w : v = Walker /\ w = Walker'
  OBVIOUS
<1>2. /\ IsState(v) /\ v.input = input /\ v.at = at /\ v.tags = tags /\ v.resource = resource
      /\ v.entry = entry /\ v.iterator = iterator /\ v.nodes = nodes /\ v.offset = offset
  BY <1>1, WalkerIs
<1>3. /\ IsState(w) /\ w.input = input' /\ w.at = at' /\ w.tags = tags' /\ w.resource = resource'
      /\ w.entry = entry' /\ w.iterator = iterator' /\ w.nodes = nodes' /\ w.offset = offset'
  <2>1. (/\ IsState(Walker)
         /\ Walker.phase = "walks" /\ Walker.input = input /\ Walker.at = at /\ Walker.tags = tags
         /\ Walker.resource = resource /\ Walker.entry = entry /\ Walker.iterator = iterator
         /\ Walker.nodes = nodes /\ Walker.pending = pending /\ Walker.todo = todo
         /\ Walker.offset = offset)'
    BY WalkerIs, PTL
  <2> QED
    BY <1>1, <2>1
<1>4. offset' = 0
  BY <1>1, <1>3
<1>5. ~WriteDataBlob
  <2> SUFFICES ASSUME WriteDataBlob PROVE FALSE
    OBVIOUS
  <2> DEFINE l == Len(Blob(Visiting.file, Compresses(Visiting)))
  <2>1. offset' = offset + l /\ offset \in Nat
    BY BlobTyped DEF RccTypeOK, TreeOK
  <2>2. l \in Nat /\ l >= 4
    <3>1. Head(todo) \in DOMAIN nodes /\ ~Visiting.directory
      BY BlobTyped
    <3>2. Visiting.file \in DOMAIN Disk
      BY <3>1, NodeIs DEF RccTypeOK, Visiting
    <3>3. PICK c \in BOOLEAN : c = Compresses(Visiting)
      BY DEF Compresses
    <3>4. Size(Visiting.file, c) \in Nat
      BY <3>2, DiskAssumption DEF Size
    <3> DEFINE n == Size(Visiting.file, c)
    <3>5. Blob(Visiting.file, c) = [i \in 1 .. 4 + n |-> <<Visiting.file, c, i>>]
      BY DEF Blob
    <3> HIDE DEF n
    <3>6. n \in Nat
      BY <3>4 DEF n
    <3>7. PICK F : F = Visiting.file
      OBVIOUS
    <3>8. Len([i \in 1 .. 4 + n |-> <<F, c, i>>]) = 4 + n
      BY <3>6
    <3> QED
      BY <3>3, <3>5, <3>6, <3>7, <3>8
  <2> HIDE DEF l
  <2> QED
    BY <1>4, <2>1, <2>2
<1>6. UNCHANGED <<input, at, tags, resource, entry, iterator>>
  BY DEF DataWalks, Descend, WriteDataBlob, BlobOfDirectory, Visited
<1>7. nodes' = nodes /\ offset' = offset
  BY <1>5, DescendTyped DEF DataWalks, BlobOfDirectory
<1>8. Begun(w) = Begun(v)
  BY <1>2, <1>3, <1>6, <1>7, BegunSame
<1>9. r[m].offset = 0
  BY <1>1, <1>2, <1>4, <1>7
<1>10. PICK b \in 1 .. m : r[b] = Begun(r[m])
  BY <1>9 DEF Resumes
<1>11. u[b] = Begun(u[m + 1]) /\ b \in 1 .. m + 1
  BY <1>1, <1>8, <1>10
<1> QED
  BY <1>11

LEMMA FirstReads ==
    ASSUME RccTypeOK, FirstInv, Reads, command.format = "Pass1", ~command.list
    PROVE  FirstInv'
<1>1. stage = "interpretResourceFile" /\ UNCHANGED <<image, seed, command>>
      /\ stage' \in {"interpretResourceFile", "failed"}
  <2>1. stage = "interpretResourceFile"
    BY DEF Reads, StartRcc, StartResource, StartFile, EndTag, Blanks, AddText, AddFound, EndDocument,
           Gets, Interpreting
  <2>2. UNCHANGED seed
    BY DEF Reads, StartRcc, StartResource, StartFile, EndTag, Blanks, AddText, AddFound, EndDocument,
           Took, processVars
  <2> QED
    BY <2>1, <2>2, TagsTyped, TextTyped, FoundTyped, DocumentTyped DEF Reads
<1>2. CASE stage' = "failed"
  BY <1>2 DEF FirstInv
<1>3. CASE stage' # "failed"
  <2>1. PICK r, m : IsRun(Given, seed[1], r, m) /\ r[m] = Reader
    BY <1>1 DEF FirstInv
  <2>2. image.size = 0
    BY <1>1 DEF FirstInv
  <2>3. PICK c, o : c = Given /\ o = seed[1]
    OBVIOUS
  <2>4. Reader' = Next(c, o, Reader)
    BY <1>3, <2>3, ReadsNext
  <2>5. ~Finished(r[m])
    BY <2>1, ReaderIs DEF Finished
  <2>6. PICK u : IsRun(c, o, u, m + 1) /\ u[m + 1] = Next(c, o, r[m])
    BY <2>1, <2>3, <2>5, RunGrows
  <2>7. Given' = c /\ seed'[1] = o
    BY <1>1, <2>3 DEF Given
  <2>8. IsRun(Given', seed'[1], u, m + 1) /\ u[m + 1] = Reader'
    BY <2>1, <2>4, <2>6, <2>7
  <2>9. (\E v, n : IsRun(Given, seed[1], v, n) /\ v[n] = Reader)'
    BY <2>8
  <2> QED
    BY <1>1, <1>3, <2>2, <2>9 DEF FirstInv
<1> QED
  BY <1>2, <1>3

LEMMA FirstOutput ==
    ASSUME RccTypeOK, FirstInv, Output, command.format = "Pass1", ~command.list
    PROVE  FirstInv'
<1>1. /\ stage = "interpretResourceFile" /\ input > Len(command.inputs)
      /\ UNCHANGED <<command, seed, input, at, tags, resource, entry, iterator, nodes>>
      /\ image' = image /\ pending' = IF stage' = "writeDataBlobs" THEN Root ELSE <<>>
      /\ offset' = 0
  BY DEF Output, processVars, readVars
<1>2. /\ stage' \in {"written", "writeDataBlobs"} /\ todo' = <<>>
      /\ stage' = "written" => nodes = <<>>
  BY OutputTyped
<1>3. PICK r, m : IsRun(Given, seed[1], r, m) /\ r[m] = Reader
  BY <1>1 DEF FirstInv
<1>4. image.size = 0
  BY <1>1 DEF FirstInv
<1>5. PICK c, o : c = Given /\ o = seed[1]
  OBVIOUS
<1>6. Next(c, o, Reader) = Begun(Reader) /\ ~Finished(Reader)
  BY <1>1, <1>5, BeginsNext
<1>7. PICK u : IsRun(c, o, u, m + 1) /\ u[m + 1] = Next(c, o, r[m])
  BY <1>3, <1>5, <1>6, RunGrows
<1>8. Given' = c /\ seed'[1] = o
  BY <1>1, <1>5 DEF Given
<1>9. PICK s, b : s = Reader /\ b = u[m + 1]
  OBVIOUS
<1>10. b = Begun(s) /\ IsState(s)
  BY <1>3, <1>6, <1>7, <1>9, ReaderIs
<1>11. /\ IsState(b) /\ b.phase = "walks" /\ b.nodes = nodes
       /\ b.pending = (IF nodes = <<>> THEN <<>> ELSE <<1>>) /\ b.todo = <<>> /\ b.offset = 0
  <2>1. s.nodes = nodes
    BY <1>9, ReaderIs
  <2> QED
    BY <1>10, <2>1, BegunIs
<1>12. Resumes(u, m + 1)
  <2>1. m + 1 \in 1 .. m + 1
    BY <1>3 DEF IsRun
  <2>2. u[m + 1] = Begun(u[m + 1])
    BY <1>9, <1>10, BegunAgain
  <2> QED
    BY <2>1, <2>2 DEF Resumes
<1>13. CASE stage' = "writeDataBlobs"
  <2>1. pending' = Root
    BY <1>1, <1>13
  <2>2. Walker' = Begun(Reader)
    BY <1>1, <1>2, <2>1, BeginsNext
  <2>3. IsRun(Given', seed'[1], u, m + 1) /\ u[m + 1] = Walker'
    BY <1>7, <1>8, <1>9, <1>10, <2>2
  <2>4. (\E v, n : IsRun(Given, seed[1], v, n) /\ v[n] = Walker /\ Resumes(v, n))'
    BY <1>12, <2>3
  <2> QED
    BY <1>13, <2>4 DEF FirstInv
<1>14. CASE stage' = "written"
  <2>1. nodes = <<>>
    BY <1>2, <1>14
  <2>2. Finished(b)
    BY <1>11, <2>1 DEF Finished
  <2>3. SameData(b)'
    BY <1>1, <1>11 DEF SameData
  <2>4. Reserved(b)'
    BY <1>1, <1>4, <1>11 DEF Reserved
  <2>5. FirstDone(u, m + 1)'
    BY <1>7, <1>8, <1>9, <1>11, <1>12, <2>2, <2>3, <2>4 DEF FirstDone
  <2> QED
    BY <1>14, <2>5 DEF FirstInv
<1> QED
  BY <1>2, <1>13, <1>14

LEMMA FirstWalks ==
    ASSUME RccTypeOK, FirstInv, DataWalks, stage = "writeDataBlobs", command.format = "Pass1",
           ~command.list
    PROVE  FirstInv'
<1>1. UNCHANGED <<command, seed, stage>>
  BY DescendTyped, BlobTyped, UntouchedTyped DEF DataWalks
<1>2. PICK r, m : IsRun(Given, seed[1], r, m) /\ r[m] = Walker /\ Resumes(r, m)
  BY DEF FirstInv
<1>3. PICK c, o : c = Given /\ o = seed[1]
  OBVIOUS
<1>4. Order = o
  BY <1>3 DEF Order
<1>5. Walker' = Next(c, o, Walker) /\ ~Finished(Walker)
  BY <1>4, WalksNext
<1>6. PICK u : IsRun(c, o, u, m + 1) /\ u[m + 1] = Next(c, o, r[m]) /\ \A i \in 1 .. m : u[i] = r[i]
  BY <1>2, <1>3, <1>5, RunGrows
<1>7. Given' = c /\ seed'[1] = o
  BY <1>1, <1>3 DEF Given
<1>8. u[m + 1] = Walker'
  BY <1>2, <1>5, <1>6
<1>9. Resumes(u, m + 1)
  <2>1. m \in Nat \ {0}
    BY <1>2 DEF IsRun
  <2> QED
    BY <1>2, <1>6, <1>8, <2>1, ResumesOn
<1>10. (\E v, n : IsRun(Given, seed[1], v, n) /\ v[n] = Walker /\ Resumes(v, n))'
  BY <1>6, <1>7, <1>8, <1>9
<1> QED
  BY <1>1, <1>10 DEF FirstInv

LEMMA FirstKept ==
    ASSUME NEW r, NEW m, FirstDone(r, m), UNCHANGED <<command, seed>>, image'.size = image.size,
           DOMAIN nodes' = DOMAIN nodes,
           \A n \in DOMAIN nodes :
              /\ nodes'[n].directory = nodes[n].directory /\ nodes'[n].file = nodes[n].file
              /\ nodes'[n].children = nodes[n].children /\ nodes'[n].dataOffset = nodes[n].dataOffset
              /\ nodes'[n].compressed = nodes[n].compressed
    PROVE  FirstDone(r, m)'
<1>1. PICK c, o, s : c = Given /\ o = seed[1] /\ s = r[m]
  OBVIOUS
<1>2. Given' = c /\ seed'[1] = o
  BY <1>1 DEF Given
<1>3. /\ IsRun(c, o, r, m) /\ Finished(s) /\ Resumes(r, m) /\ IsState(s)
      /\ SameData(s) /\ Reserved(s)
  BY <1>1 DEF FirstDone
<1>4. SameData(s)'
  BY <1>3 DEF SameData
<1>5. Reserved(s)'
  BY <1>3 DEF Reserved
<1> QED
  BY <1>1, <1>2, <1>3, <1>4, <1>5 DEF FirstDone

LEMMA FirstEnds ==
    ASSUME RccTypeOK, FirstInv, EndWalk, command.format = "Pass1", ~command.list
    PROVE  FirstInv'
<1>1. /\ UNCHANGED <<command, seed, nodes>> /\ todo = <<>> /\ pending = <<>>
      /\ \/ stage = "writeDataBlobs" /\ stage' = "writeDataNames"
         \/ /\ stage \in {"writeDataNames", "childOffsets", "writeDataInfo"}
            /\ stage' \in {"childOffsets", "writeDataInfo", "written"}
  BY EndTyped
<1>2. image \in Image /\ offset \in Nat
  BY DEF RccTypeOK, TreeOK
<1>3. CASE stage = "writeDataBlobs"
  <2>1. PICK r, m : IsRun(Given, seed[1], r, m) /\ r[m] = Walker /\ Resumes(r, m)
    BY <1>3 DEF FirstInv
  <2>2. PICK c, o, s : c = Given /\ o = seed[1] /\ s = r[m]
    OBVIOUS
  <2>3. Given' = c /\ seed'[1] = o
    BY <1>1, <2>2 DEF Given
  <2>4. /\ IsState(s) /\ s.phase = "walks" /\ s.nodes = nodes /\ s.pending = pending /\ s.todo = todo
        /\ s.offset = offset
    BY <2>1, <2>2, WalkerIs
  <2>5. Finished(s)
    BY <1>1, <2>4 DEF Finished
  <2>6. image'.size = Max({8, offset})
    <3>1. image' = [image EXCEPT !.size = Max({8, offset})]
      BY <1>3 DEF EndWalk
    <3> QED
      BY <1>2, <3>1 DEF Image
  <2>7. Max({8, offset}) \in Nat /\ Max({8, offset}) >= 8 /\ Max({8, offset}) >= offset
    <3>1. CASE offset >= 8
      <4>1. offset \in {8, offset} /\ \A y \in {8, offset} : y <= offset
        BY <1>2, <3>1
      <4>2. Max({8, offset}) \in {8, offset} /\ \A y \in {8, offset} : Max({8, offset}) >= y
        BY <1>2, <4>1 DEF Max
      <4> QED
        BY <1>2, <4>2
    <3>2. CASE offset < 8
      <4>1. 8 \in {8, offset} /\ \A y \in {8, offset} : y <= 8
        BY <1>2, <3>2
      <4>2. Max({8, offset}) \in {8, offset} /\ \A y \in {8, offset} : Max({8, offset}) >= y
        BY <1>2, <4>1 DEF Max
      <4> QED
        BY <1>2, <4>2
    <3> QED
      BY <1>2, <3>1, <3>2
  <2>8. SameData(s)'
    BY <1>1, <2>4 DEF SameData
  <2>9. Reserved(s)'
    BY <1>2, <2>4, <2>6, <2>7 DEF Reserved
  <2>10. IsRun(Given', seed'[1], r, m)
    BY <2>1, <2>2, <2>3
  <2>11. FirstDone(r, m)'
    BY <2>1, <2>2, <2>4, <2>5, <2>8, <2>9, <2>10 DEF FirstDone
  <2> QED
    BY <1>1, <1>3, <2>11 DEF FirstInv
<1>4. CASE stage # "writeDataBlobs"
  <2>1. PICK r, m : FirstDone(r, m)
    BY <1>1, <1>4 DEF FirstInv
  <2>2. image'.size = image.size
    <3>1. image' = CASE stage = "writeDataBlobs" /\ command.format = "Pass1" ->
                             [image EXCEPT !.size = Max({8, offset})]
                     [] stage = "childOffsets" -> [image EXCEPT !.structure = <<Info(1)>>]
                     [] OTHER -> image
      BY DEF EndWalk
    <3>2. image' = image \/ image' = [image EXCEPT !.structure = <<Info(1)>>]
      BY <1>4, <3>1
    <3> QED
      BY <1>2, <3>2 DEF Image
  <2>3. FirstDone(r, m)'
    BY <1>1, <2>1, <2>2, FirstKept
  <2> QED
    BY <1>1, <1>4, <2>3 DEF FirstInv
<1> QED
  BY <1>3, <1>4

LEMMA FirstLater ==
    ASSUME RccTypeOK, FirstInv, command.format = "Pass1", ~command.list,
           stage \in {"writeDataNames", "childOffsets", "writeDataInfo"},
           Descend \/ WriteDataName \/ CountChild \/ WriteDataInfo
    PROVE  FirstInv'
<1>1. UNCHANGED <<command, seed, stage>> /\ DOMAIN nodes' = DOMAIN nodes /\ nodes \in Trees
      /\ image \in Image /\ \A n \in DOMAIN nodes : nodes[n] \in FileInfo
  BY DescendTyped, NameTyped, UntouchedTyped, EntryTyped, TreeIs DEF RccTypeOK, TreeOK
<1>2. image'.size = image.size
  <2>1. CASE WriteDataName
    <3>1. image' = image \/ \E x : image' = [image EXCEPT !.names = x]
      BY <2>1 DEF WriteDataName
    <3> QED
      BY <1>1, <3>1 DEF Image
  <2>2. CASE WriteDataInfo
    <3>1. image' = [image EXCEPT !.structure = Append(@, Info(Head(todo)))]
      BY <2>2 DEF WriteDataInfo
    <3> QED
      BY <1>1, <3>1 DEF Image
  <2> QED
    BY <2>1, <2>2, DescendTyped, UntouchedTyped
<1>3. \A n \in DOMAIN nodes :
         /\ nodes'[n].directory = nodes[n].directory /\ nodes'[n].file = nodes[n].file
         /\ nodes'[n].children = nodes[n].children /\ nodes'[n].dataOffset = nodes[n].dataOffset
         /\ nodes'[n].compressed = nodes[n].compressed
  <2>1. CASE Descend
    <3>1. Last(pending) \in DOMAIN nodes
          /\ nodes' = IF stage = "childOffsets"
                      THEN [nodes EXCEPT ![Last(pending)].childOffset = offset] ELSE nodes
      BY <2>1, DescendTyped
    <3> QED
      BY <1>1, <3>1 DEF FileInfo
  <2>2. CASE WriteDataName
    <3>1. PICK place : nodes' = [nodes EXCEPT ![Head(todo)] = [Visiting EXCEPT !.nameOffset = place]]
      BY <2>2, NameTyped
    <3>2. Head(todo) \in DOMAIN nodes
      BY <2>2, NameTyped
    <3> QED
      BY <1>1, <3>1, <3>2 DEF FileInfo, Visiting
  <2> QED
    BY <2>1, <2>2, UntouchedTyped, EntryTyped
<1>4. PICK r, m : FirstDone(r, m)
  BY DEF FirstInv
<1>5. FirstDone(r, m)'
  BY <1>1, <1>2, <1>3, <1>4, FirstKept
<1> QED
  BY <1>1, <1>5 DEF FirstInv

LEMMA FirstStep ==
    ASSUME RccTypeOK, FirstInv, [RccNext]_rccVars
    PROVE  FirstInv'
<1>1. CASE SecondPass
  BY <1>1, SecondTyped DEF FirstInv
<1>2. CASE UNCHANGED rccVars
  <2>1. /\ UNCHANGED <<command, seed, stage, input, at, tags, resource, entry, iterator, nodes>>
        /\ UNCHANGED <<pending, todo, offset, image>>
    BY <1>2 DEF rccVars, processVars, readVars
  <2>2. PICK c, o, v, w : c = Given /\ o = seed[1] /\ v = Reader /\ w = Walker
    OBVIOUS
  <2>3. Given' = c /\ seed'[1] = o /\ Reader' = v /\ Walker' = w
    BY <2>1, <2>2 DEF Given, Reader, Walker, State
  <2>4. /\ (\E r, m : IsRun(Given, seed[1], r, m) /\ r[m] = Reader)
              => (\E r, m : IsRun(Given, seed[1], r, m) /\ r[m] = Reader)'
        /\ (\E r, m : IsRun(Given, seed[1], r, m) /\ r[m] = Walker /\ Resumes(r, m))
              => (\E r, m : IsRun(Given, seed[1], r, m) /\ r[m] = Walker /\ Resumes(r, m))'
    BY <2>2, <2>3
  <2>5. \A r, m : FirstDone(r, m) => FirstDone(r, m)'
    BY <2>1, FirstKept
  <2> QED
    BY <2>1, <2>4, <2>5 DEF FirstInv
<1>3. CASE command.format # "Pass1" \/ command.list
  <2>1. CASE SecondPass \/ UNCHANGED rccVars
    BY <1>1, <1>2, <2>1
  <2>2. CASE RccSteps
    <3>1. command' = command
      BY <2>2, TagsTyped, TextTyped, FoundTyped, DocumentTyped, OutputTyped, DescendTyped, BlobTyped,
         UntouchedTyped, FailedTyped, NameTyped, EntryTyped, EndTyped, ScanTyped DEF RccSteps
    <3>2. ~(command'.format = "Pass1" /\ ~command'.list)
      BY <1>3, <3>1
    <3> QED
      BY <3>2 DEF FirstInv
  <2> QED
    BY <2>1, <2>2 DEF RccNext
<1>4. CASE command.format = "Pass1" /\ ~command.list /\ RccSteps
  <2>1. CASE Reads
    BY <1>4, <2>1, FirstReads
  <2>2. CASE ParseError
    <3>1. stage' = "failed"
      BY <1>4, <2>2 DEF ParseError
    <3> QED
      BY <3>1 DEF FirstInv
  <2>3. CASE Output
    BY <1>4, <2>3, FirstOutput
  <2>4. CASE stage = "writeDataBlobs" /\ DataWalks
    BY <1>4, <2>4, FirstWalks
  <2>5. CASE stage # "writeDataBlobs" /\ (Descend \/ WriteDataName \/ CountChild \/ WriteDataInfo)
    <3>1. stage \in {"writeDataNames", "childOffsets", "writeDataInfo"}
      BY <2>5, WalksAre DEF Descend, WriteDataName, CountChild, WriteDataInfo, Walking
    <3> QED
      BY <1>4, <2>5, <3>1, FirstLater
  <2>6. CASE EndWalk
    BY <1>4, <2>6, FirstEnds
  <2>7. CASE OpenReadFailed \/ EndSecondData
    BY <1>4, <2>7, FailedTyped DEF FirstInv
  <2>8. CASE ScanByte \/ EndOfTemp
    BY <1>4, <2>8, ScanTyped
  <2>9. WriteDataBlob \/ BlobOfDirectory => stage = "writeDataBlobs"
    BY DEF WriteDataBlob, BlobOfDirectory, Walking
  <2>10. WriteDataName \/ CountChild \/ WriteDataInfo => stage # "writeDataBlobs"
    BY DEF WriteDataName, CountChild, WriteDataInfo, Walking
  <2> QED
    BY <1>4, <2>1, <2>2, <2>3, <2>4, <2>5, <2>6, <2>7, <2>8, <2>9, <2>10 DEF RccSteps, Reads, DataWalks
<1> QED
  BY <1>1, <1>2, <1>3, <1>4 DEF RccNext

----------------------------------------------------------------------------
(* The second process goes through the same run: what the first reserved   *)
(* and wrote fits what this one puts there.                                *)
Chars == Range(temp) \cup Range(Signature) \cup Bytes
Start == StartOfData - 1
Fits == command.format = "Pass2" /\ ~OutOfStep
Pointed(s) ==
    (\A doc \in Range(command.inputs) : InOnePiece(doc)) =>
        \A a \in Wanted :
            LET n == FindNode(a.path, a.locale)
            IN  /\ n # 0
                /\ \E b \in Twins(a) : \E c \in Reached(Shape(s.nodes)) :
                      /\ ~s.nodes[c].directory /\ s.nodes[c].file = b.file
                      /\ image.structure[n].data = s.nodes[c].dataOffset
                      /\ image.structure[n].compressed = s.nodes[c].compressed
Sure(r, m) ==
    /\ IsRun(Given, seed[1], r, m) /\ Finished(r[m]) /\ Resumes(r, m)
    /\ IsState(r[m]) /\ Reserved(r[m]) /\ Pointed(r[m])
Loaded ==
    /\ ~command.list /\ temp \in Seq(Range(temp))
    /\ image.size # 0 => \E k \in Signed : k - 1 + image.size <= Len(temp)

\* What the search has taken of the temporary file, and what stands of the output.
Scanned ==
    /\ todo = <<>> /\ output \in Seq(Chars) /\ matched \in 0 .. 7 /\ position \in Nat
    /\ matched <= position /\ position <= Len(temp) /\ Len(output) = position - matched
    /\ \A j \in 1 .. matched : temp[position - matched + j] = Signature[j]
Copied(T) == \A k \in DOMAIN output : k <= Start \/ k > Start + T => output[k] = temp[k]
DataAt(t, c) ==
    /\ t[c].file \in DOMAIN Disk /\ t[c].compressed \in BOOLEAN /\ t[c].dataOffset \in Nat
    /\ HoldsAt(output, Start + t[c].dataOffset, Blob(t[c].file, t[c].compressed))
DataOf(t, V) == \A c \in V : ~t[c].directory => DataAt(t, c)
Filling(s) ==
    /\ StartOfData \in Signed /\ Copied(s.offset) /\ Len(output) >= Start + s.offset
    /\ DataOf(s.nodes, Reached(Shape(s.nodes)))

IsAt(r, m, s) == \E i \in 1 .. m : r[i] = s
Begins(r, m) == ~foundSignature /\ position = 0 /\ matched = 0 /\ output = <<>> /\ IsAt(r, m, Reader)
Searches(r, m) ==
    /\ ~foundSignature /\ Scanned /\ input > Len(command.inputs) /\ IsAt(r, m, Reader)
    /\ \A k \in DOMAIN output : output[k] = temp[k]
Writes(r, m) ==
    /\ StartOfData \in Signed /\ position = Start + 8 /\ matched = 0 /\ IsAt(r, m, Walker)
    /\ output \in Seq(Chars) /\ Len(output) = Start + offset
    /\ \A k \in 1 .. Start : output[k] = temp[k]
    /\ nodes # <<>> => \E V : WalkedTo(V) /\ DataOf(nodes, V)
GoesOn(r, m) ==
    /\ foundSignature /\ Scanned /\ Filling(r[m])
    /\ r[m] = State("walks", <<>>, <<>>, r[m].offset)
Ready(r, m) == output \in Seq(Chars) /\ Len(output) = Len(temp) /\ Filling(r[m])
Passing(r, m) ==
    /\ stage = "interpretResourceFile" => Begins(r, m)
    /\ stage = "scan" => Searches(r, m) \/ GoesOn(r, m)
    /\ stage = "writeDataBlobs" => Writes(r, m)
    /\ stage = "written" => Ready(r, m)
PassInv ==
    /\ command.format = "Pass2" => ~command.list
    /\ Fits => Loaded /\ \E r, m : Sure(r, m) /\ Passing(r, m)

LEMMA OneSigned ==
    ASSUME temp \in Seq(Range(temp)), Fits, NEW i \in Signed
    PROVE  /\ i = StartOfData /\ StartOfData \in Signed /\ Start \in Nat
           /\ StartOfData + 7 <= Len(temp)
<1>1. Len(temp) \in Nat
  OBVIOUS
<1>2. Signed \in SUBSET (1 .. Len(temp) - 7)
  BY DEF Signed
<1>3. ~(Cardinality(Signed) > 1)
  BY DEF Fits, OutOfStep
<1>4. StartOfData \in Signed
  BY DEF StartOfData
<1>5. IsFiniteSet(Signed) /\ Cardinality(Signed) \in Nat
  <2>1. IsFiniteSet(1 .. Len(temp) - 7)
    BY <1>1, FS_Interval
  <2>2. IsFiniteSet(Signed)
    BY <1>2, <2>1, FS_Subset
  <2> QED
    BY <2>2, FS_CardinalityType
<1>6. i = StartOfData
  <2> SUFFICES ASSUME i # StartOfData PROVE FALSE
    OBVIOUS
  <2> DEFINE T == {i, StartOfData}
  <2>1. T \subseteq Signed
    BY <1>4
  <2>2. Cardinality(T) <= Cardinality(Signed)
    <3> HIDE DEF T
    <3> QED
      BY <1>5, <2>1, FS_Subset
  <2>3. Cardinality(T) = 2
    <3>1. PICK A : A = {i}
      OBVIOUS
    <3>2. IsFiniteSet(A) /\ Cardinality(A) = 1
      BY <3>1, FS_Singleton
    <3>3. T = A \cup {StartOfData} /\ StartOfData \notin A
      BY <3>1
    <3>4. Cardinality(A \cup {StartOfData}) = Cardinality(A) + 1
      BY <3>2, <3>3, FS_AddElement
    <3> HIDE DEF T
    <3> QED
      BY <3>2, <3>3, <3>4
  <2> HIDE DEF T
  <2> QED
    BY <1>3, <1>5, <2>2, <2>3
<1> QED
  BY <1>1, <1>2, <1>4, <1>6 DEF Start

(* QResource's search is told by the image.                                *)
IsSearch(way, f) ==
    f = [s \in SUBSET DOMAIN way |->
            IF s = {} THEN 1 ELSE EnterEntry(f[s \ {Max(s)}], way[Max(s)])]
Searched(way) == (CHOOSE f : IsSearch(way, f))[DOMAIN way]
Hit(n, name, locale) ==
    LET last == {c \in Matches(n, name) :
                    ~image.structure[c].directory /\ image.structure[c].locale = locale}
    IN  IF last = {} THEN 0 ELSE Min(last)
LEMMA FindIs == \A p, l : FindNode(p, l) = Hit(Searched(Front(p)), Last(p), l)
<1> SUFFICES ASSUME NEW p, NEW l PROVE FindNode(p, l) = Hit(Searched(Front(p)), Last(p), l)
  OBVIOUS
<1>1. FoldLeft(EnterEntry, 1, Front(p)) = Searched(Front(p))
  <2> DEFINE way == Front(p)
             Is(f) == f = [s \in SUBSET DOMAIN way |->
                             IF s = {} THEN 1 ELSE EnterEntry(f[s \ {Max(s)}], way[Max(s)])]
             fold == CHOOSE f : Is(f)
  <2>1. FoldLeft(EnterEntry, 1, way) = fold[DOMAIN way]
    BY DEF FoldLeft, MapThenFoldSet
  <2> QED
    BY <2>1 DEF Searched, IsSearch
<1>2. FindNode(p, l) =
         LET last == {c \in Matches(FoldLeft(EnterEntry, 1, Front(p)), Last(p)) :
                        ~image.structure[c].directory /\ image.structure[c].locale = l}
         IN  IF last = {} THEN 0 ELSE Min(last)
  BY DEF FindNode, EnterEntry
<1> QED
  BY <1>1, <1>2 DEF Hit

LEMMA FindSame ==
    ASSUME image' = image
    PROVE  \A p, l : FindNode(p, l)' = FindNode(p, l)
<1>1. ASSUME NEW n PROVE NameOf(n)' = NameOf(n) /\ ChildrenOf(n)' = ChildrenOf(n)
  BY DEF NameOf, ChildrenOf
<1>2. ASSUME NEW n, NEW name PROVE Matches(n, name)' = Matches(n, name)
  <2>1. SortedRange(n)' <=> SortedRange(n)
    BY <1>1 DEF SortedRange
  <2> QED
    BY <1>1, <2>1 DEF Matches
<1>3. ASSUME NEW n, NEW name PROVE EnterEntry(n, name)' = EnterEntry(n, name)
  BY <1>2 DEF EnterEntry
<1>4. ASSUME NEW way PROVE Searched(way)' = Searched(way)
  <2>1. ASSUME NEW f PROVE IsSearch(way, f)' <=> IsSearch(way, f)
    BY <1>3 DEF IsSearch
  <2>2. (CHOOSE f : IsSearch(way, f))' = (CHOOSE f : IsSearch(way, f))
    BY <2>1
  <2> QED
    BY <2>2 DEF Searched
<1>5. ASSUME NEW n, NEW name, NEW l PROVE Hit(n, name, l)' = Hit(n, name, l)
  BY <1>2 DEF Hit
<1>6. (\A p, l : FindNode(p, l) = Hit(Searched(Front(p)), Last(p), l))'
  BY FindIs, PTL
<1>7. ASSUME NEW p, NEW l PROVE FindNode(p, l)' = FindNode(p, l)
  <2>1. PICK w, x : w = Front(p) /\ x = Last(p)
    OBVIOUS
  <2>2. PICK n : n = Searched(w)
    OBVIOUS
  <2>3. FindNode(p, l)' = Hit(n, x, l)'
    BY <1>4, <1>6, <2>1, <2>2
  <2>4. FindNode(p, l) = Hit(n, x, l)
    BY FindIs, <2>1, <2>2
  <2> QED
    BY <1>5, <2>3, <2>4
<1> QED
  BY <1>7

LEMMA PointedKept ==
    ASSUME command'.inputs = command.inputs, command'.root = command.root, image' = image,
           NEW s, Pointed(s)
    PROVE  Pointed(s)'
<1>1. Asked' = Asked
  BY AskedKept
<1>2. \A a : Hidden(a)' <=> Hidden(a)
  BY <1>1 DEF Hidden
<1>3. Wanted' = Wanted /\ \A a : Twins(a)' = Twins(a)
  BY <1>1, <1>2 DEF Wanted, Twins
<1>4. \A p, l : FindNode(p, l)' = FindNode(p, l)
  BY FindSame
<1> SUFFICES ASSUME \A doc \in Range(command'.inputs) : InOnePiece(doc), NEW a \in Wanted
             PROVE  LET n == FindNode(a.path, a.locale)
                    IN  /\ n # 0
                        /\ \E b \in Twins(a) : \E c \in Reached(Shape(s.nodes)) :
                              /\ ~s.nodes[c].directory /\ s.nodes[c].file = b.file
                              /\ image'.structure[n].data = s.nodes[c].dataOffset
                              /\ image'.structure[n].compressed = s.nodes[c].compressed
  BY <1>3, <1>4 DEF Pointed
<1> QED
  BY DEF Pointed

LEMMA Steady ==
    ASSUME command' = command, seed' = seed, unreadable' = unreadable, temp' = temp, image' = image
    PROVE  /\ (Fits' <=> Fits) /\ (Loaded' <=> Loaded)
           /\ Start' = Start /\ StartOfData' = StartOfData /\ Signed' = Signed /\ Chars' = Chars
           /\ \A r, m : Sure(r, m) => Sure(r, m)'
<1>1. Signed' = Signed
  BY DEF Signed
<1>2. StartOfData' = StartOfData /\ Start' = Start /\ Chars' = Chars
  BY <1>1 DEF StartOfData, Start, Chars
<1>3. Fits' <=> Fits
  BY <1>1 DEF Fits, OutOfStep, EndsWithPart
<1>4. Loaded' <=> Loaded
  BY <1>1 DEF Loaded
<1>5. ASSUME NEW r, NEW m, Sure(r, m) PROVE Sure(r, m)'
  <2>1. PICK c, o, s : c = Given /\ o = seed[1] /\ s = r[m]
    OBVIOUS
  <2>2. Given' = c /\ seed'[1] = o
    BY <2>1 DEF Given
  <2>3. /\ IsRun(c, o, r, m) /\ Finished(s) /\ Resumes(r, m) /\ IsState(s) /\ Reserved(s) /\ Pointed(s)
    BY <1>5, <2>1 DEF Sure
  <2>4. Pointed(s)'
    BY <2>3, PointedKept
  <2>5. Reserved(s)'
    BY <2>3 DEF Reserved
  <2> QED
    BY <2>1, <2>2, <2>3, <2>4, <2>5 DEF Sure
<1> QED
  BY <1>1, <1>2, <1>3, <1>4, <1>5

(* What the first process has written points to the data of a run.         *)
LEMMA FirstPoints ==
    ASSUME RccTypeOK, WalkInv, FilesInv, stage = "written", command.format = "Pass1", ~command.list,
           NEW s, SameData(s)
    PROVE  Pointed(s)
<1> SUFFICES ASSUME \A doc \in Range(command.inputs) : InOnePiece(doc), NEW a \in Wanted
             PROVE  LET n == FindNode(a.path, a.locale)
                    IN  /\ n # 0
                        /\ \E b \in Twins(a) : \E c \in Reached(Shape(s.nodes)) :
                              /\ ~s.nodes[c].directory /\ s.nodes[c].file = b.file
                              /\ image.structure[n].data = s.nodes[c].dataOffset
                              /\ image.structure[n].compressed = s.nodes[c].compressed
  BY DEF Pointed
<1>1. Filled
  BY DEF FilesInv, Orderly
<1>2. nodes # <<>>
  BY <1>1, WantedLies DEF RccTypeOK, TreeOK
<1>3. LaidDown
  BY <1>2 DEF WalkInv
<1>4. Located(a)
  BY <1>1, <1>3, WantedLocated
<1> DEFINE n == FindNode(a.path, a.locale)
<1>5. PICK b \in Twins(a), c \in Reached(Shape(nodes)) :
         image.structure[n] = Info(c) /\ ~nodes[c].directory /\ nodes[c].file = b.file
  BY <1>4 DEF Located
<1>6. n # 0
  <2>1. image.structure \in Seq(Infos) /\ n \in DOMAIN image.structure
    BY <1>4 DEF RccTypeOK, TreeOK, Image, Located
  <2> HIDE DEF n
  <2> QED
    BY <2>1
<1> HIDE DEF n
<1>7. c \in DOMAIN nodes /\ nodes[c].compressed \in BOOLEAN
  <2>1. c \in DOMAIN nodes
    BY DEF Reached, Shape
  <2> QED
    BY <2>1, NodeIs DEF RccTypeOK
<1>8. image.structure[n].compressed = nodes[c].compressed
      /\ image.structure[n].data = nodes[c].dataOffset
  BY <1>5, <1>7 DEF Info
<1>9. Shape(s.nodes) = Shape(nodes)
  BY DEF SameData, Shape
<1> QED
  BY <1>5, <1>6, <1>7, <1>8, <1>9 DEF SameData, n

LEMMA OverItsRange ==
    ASSUME NEW T, NEW s \in Seq(T)
    PROVE  s \in Seq(Range(s))
BY DEF Range

LEMMA SignatureIs ==
    Signature \in Seq(Range(Signature)) /\ Len(Signature) = 8 /\ DOMAIN Signature = 1 .. 8
<1>1. PICK q, r, c, u, d, a, t :
         /\ q = <<"Q">> /\ r = <<"R">> /\ c = <<"C">> /\ u = <<"_">> /\ d = <<"D">> /\ a = <<"A">>
         /\ t = <<"T">>
  OBVIOUS
<1>2. Signature = <<q, r, c, u, d, a, t, a>>
  BY <1>1 DEF Signature
<1>3. <<q, r, c, u, d, a, t, a>> \in Seq({q, r, c, u, d, a, t})
      /\ Len(<<q, r, c, u, d, a, t, a>>) = 8 /\ DOMAIN <<q, r, c, u, d, a, t, a>> = 1 .. 8
  OBVIOUS
<1> QED
  BY <1>2, <1>3, OverItsRange

LEMMA Joined ==
    ASSUME NEW S, NEW s \in Seq(S), NEW t \in Seq(S), NEW j, j = s \o t
    PROVE  /\ j \in Seq(S) /\ Len(j) = Len(s) + Len(t) /\ Len(s) \in Nat /\ Len(t) \in Nat
           /\ \A i \in 1 .. Len(s) : j[i] = s[i]
           /\ \A i \in 1 .. Len(t) : j[Len(s) + i] = t[i]
<1>1. j \in Seq(S) /\ Len(j) = Len(s) + Len(t) /\ Len(s) \in Nat /\ Len(t) \in Nat
  OBVIOUS
<1>2. \A i \in 1 .. Len(s) : j[i] = s[i]
  OBVIOUS
<1>3. ASSUME NEW i \in 1 .. Len(t) PROVE j[Len(s) + i] = t[i]
  <2> DEFINE k == Len(s) + i
  <2>1. k \in Len(s) + 1 .. Len(s) + Len(t) /\ k - Len(s) = i
    BY <1>1
  <2>2. \A n \in Len(s) + 1 .. Len(s) + Len(t) : (s \o t)[n] = t[n - Len(s)]
    OBVIOUS
  <2> HIDE DEF k
  <2>3. j[k] = t[i]
    BY <2>1, <2>2
  <2> QED
    BY <2>3 DEF k
<1> QED
  BY <1>1, <1>2, <1>3

(* The signature stands in the object file made of the first pass's output *)
(* with as much room behind as was reserved.                               *)
ObjectFile(a, g, z, b) == (a \o (g \o z)) \o b
HasRoom(t, a, g, z) ==
    /\ Len(t) >= Len(a) + 8 + Len(z) /\ Len(a) \in Nat /\ Len(z) \in Nat
    /\ Len(a) + 1 \in 1 .. Len(t) - 7
    /\ SubSeq(t, Len(a) + 1, Len(a) + 1 + 7) = g
LEMMA RoomIs ==
    ASSUME NEW S, NEW a \in Seq(S), NEW b \in Seq(S), NEW g \in Seq(S), Len(g) = 8,
           NEW z \in Seq(S), NEW t, t = ObjectFile(a, g, z, b)
    PROVE  t \in Seq(S) /\ HasRoom(t, a, g, z)
<1>1. PICK n, h, u : n = Len(a) /\ h = g \o z /\ u = a \o h
  OBVIOUS
<1>2. h \in Seq(S) /\ Len(h) = Len(g) + Len(z) /\ Len(z) \in Nat /\ \A i \in 1 .. Len(g) : h[i] = g[i]
  <2>1. h = g \o z
    BY <1>1
  <2>2. /\ h \in Seq(S) /\ Len(h) = Len(g) + Len(z) /\ Len(g) \in Nat /\ Len(z) \in Nat
        /\ \A i \in 1 .. Len(g) : h[i] = g[i]
        /\ \A i \in 1 .. Len(z) : h[Len(g) + i] = z[i]
    BY ONLY g \in Seq(S), z \in Seq(S), <2>1, Joined
  <2> QED
    BY <2>2
<1>3. /\ u \in Seq(S) /\ Len(u) = Len(a) + Len(h) /\ Len(a) \in Nat /\ Len(h) \in Nat
      /\ \A i \in 1 .. Len(h) : u[Len(a) + i] = h[i]
  <2>1. u = a \o h /\ h \in Seq(S)
    BY <1>1, <1>2
  <2>2. /\ u \in Seq(S) /\ Len(u) = Len(a) + Len(h) /\ Len(a) \in Nat /\ Len(h) \in Nat
        /\ \A i \in 1 .. Len(a) : u[i] = a[i]
        /\ \A i \in 1 .. Len(h) : u[Len(a) + i] = h[i]
    BY ONLY a \in Seq(S), <2>1, Joined
  <2> QED
    BY <2>2
<1>4. /\ t \in Seq(S) /\ Len(t) = Len(u) + Len(b) /\ Len(b) \in Nat
      /\ \A i \in 1 .. Len(u) : t[i] = u[i]
  <2>1. t = u \o b /\ u \in Seq(S)
    BY <1>1, <1>3 DEF ObjectFile
  <2>2. /\ t \in Seq(S) /\ Len(t) = Len(u) + Len(b) /\ Len(u) \in Nat /\ Len(b) \in Nat
        /\ \A i \in 1 .. Len(u) : t[i] = u[i]
        /\ \A i \in 1 .. Len(b) : t[Len(u) + i] = b[i]
    BY ONLY b \in Seq(S), <2>1, Joined
  <2> QED
    BY <2>2
<1>5. PICK lh, lu, lt, lz, lb : lh = Len(h) /\ lu = Len(u) /\ lt = Len(t) /\ lz = Len(z) /\ lb = Len(b)
  OBVIOUS
<1>6. /\ n \in Nat /\ lh \in Nat /\ lz \in Nat /\ lb \in Nat
      /\ lh = 8 + lz /\ lu = n + lh /\ lt = lu + lb
  BY <1>1, <1>2, <1>3, <1>4, <1>5
<1>11. lt \in Nat /\ lt >= n + 8 + lz /\ n + 1 \in 1 .. lt - 7 /\ n + 8 <= lt
       /\ n + 1 + 7 = n + 8 /\ \A i \in 1 .. 8 : i \in 1 .. lh /\ n + i \in 1 .. lu
  BY ONLY <1>6
<1>8. ASSUME NEW i \in 1 .. 8 PROVE t[n + i] = g[i]
  <2>1. i \in 1 .. Len(h) /\ n + i \in 1 .. Len(u) /\ i \in 1 .. Len(g)
    BY <1>5, <1>11
  <2>2. t[n + i] = u[n + i] /\ u[n + i] = h[i] /\ h[i] = g[i]
    BY <1>1, <1>2, <1>3, <1>4, <2>1
  <2> QED
    BY <2>2
<1>9. Len(t) >= n + 8 + Len(z) /\ n + 1 \in 1 .. Len(t) - 7
  BY <1>5, <1>11
<1>7. SubSeq(t, n + 1, n + 1 + 7) = g
  <2>1. HoldsAt(t, n, g)
    <3>1. DOMAIN g = 1 .. 8
      BY InSeq
    <3> QED
      BY <1>5, <1>8, <1>11, <3>1 DEF HoldsAt
  <2>2. SubSeq(t, n + 1, n + Len(g)) = g
    BY <1>4, <1>6, <2>1, HoldsPart
  <2> QED
    BY <1>11, <2>2
<1> QED
  BY <1>1, <1>2, <1>3, <1>4, <1>7, <1>9 DEF HasRoom

LEMMA SecondGiven ==
    ASSUME RccTypeOK, SecondPass
    PROVE  /\ command' = Given /\ Given' = Given /\ command'.list = command.list
           /\ command'.inputs = command.inputs /\ command'.root = command.root
           /\ command'.format = "Pass2"
<1>1. command' = Given
  BY DEF SecondPass, Given
<1>2. PICK c \in Commands : command = c \/ command = [c EXCEPT !.format = "Pass2"]
  BY DEF RccTypeOK, ProcessOK, Processes
<1>3. DOMAIN c = {"inputs", "format", "list", "root", "level", "threshold"}
  BY CommandAssumption
<1>4. DOMAIN command = {"inputs", "format", "list", "root", "level", "threshold"}
  BY <1>2, <1>3
<1>5. PICK g : g = Given
  OBVIOUS
<1>6. g = [command EXCEPT !.format = "Pass2"]
  BY <1>5 DEF Given
<1>7. [g EXCEPT !.format = "Pass2"] = g
  BY <1>4, <1>6
<1>8. Given' = g
  BY <1>1, <1>5, <1>7 DEF Given
<1>9. g.list = command.list /\ g.format = "Pass2" /\ g.inputs = command.inputs /\ g.root = command.root
  BY <1>4, <1>6
<1> QED
  BY <1>1, <1>5, <1>8, <1>9

LEMMA SecondLoaded ==
    ASSUME RccTypeOK, SecondPass, NEW s, Reserved(s)
    PROVE  Loaded'
<1>1. command'.list = FALSE /\ image' = image
  BY SecondGiven DEF SecondPass, RccTypeOK, ProcessOK
<1>2. PICK o \in Objects :
        temp' = (o[1] \o (IF image.size = 0 THEN <<>> ELSE Signature \o Zeros(image.size - 8))) \o o[2]
  BY DEF SecondPass
<1>3. PICK a, b, g, z, size :
        a = o[1] /\ b = o[2] /\ g = Signature /\ size = image.size /\ z = Zeros(size - 8)
  OBVIOUS
<1>4. PICK S : S = Range(a) \cup Range(b) \cup Range(g) \cup {<<"0">>}
  OBVIOUS
<1>5. a \in Seq(S) /\ b \in Seq(S) /\ g \in Seq(S) /\ Len(g) = 8
  <2>1. a \in Seq(Range(a)) /\ b \in Seq(Range(b)) /\ g \in Seq(Range(g)) /\ Len(g) = 8
    BY <1>3, ObjectAssumption, SignatureIs
  <2>2. Range(a) \subseteq S /\ Range(b) \subseteq S /\ Range(g) \subseteq S
    BY <1>4
  <2>3. \A A : A \subseteq S => Seq(A) \subseteq Seq(S)
    OBVIOUS
  <2> QED
    BY <2>1, <2>2, <2>3
<1>6. size \in Nat /\ (size = 0 \/ size >= 8)
  BY <1>3 DEF Reserved
<1>7. CASE size = 0
  <2>1. temp' = (a \o <<>>) \o b
    BY <1>2, <1>3, <1>7
  <2>2. temp' \in Seq(S)
    BY <1>5, <2>1
  <2>3. temp' \in Seq(Range(temp'))
    BY <2>2, OverItsRange
  <2> QED
    BY <1>1, <1>3, <1>7, <2>3 DEF Loaded
<1>8. CASE size >= 8
  <2>1. temp' = ObjectFile(a, g, z, b)
    <3>1. image.size # 0
      BY <1>3, <1>6, <1>8
    <3> QED
      BY <1>2, <1>3, <3>1 DEF ObjectFile
  <2>2. PICK n \in Nat : n = size - 8
    BY <1>6, <1>8
  <2>3. z \in Seq(S) /\ Len(z) = n
    <3>1. z = [i \in 1 .. n |-> <<"0">>]
      BY <1>3, <2>2 DEF Zeros
    <3>2. PICK e : e = <<"0">>
      OBVIOUS
    <3>3. z = [i \in 1 .. n |-> e] /\ e \in S
      BY <1>4, <3>1, <3>2
    <3> QED
      BY ONLY <2>2, <3>3
  <2>4. PICK t : t = temp'
    OBVIOUS
  <2>5. t = ObjectFile(a, g, z, b)
    BY <2>1, <2>4
  <2>11. t \in Seq(S) /\ HasRoom(t, a, g, z)
    BY <1>5, <2>3, <2>5, RoomIs
  <2>6. /\ t \in Seq(S) /\ Len(t) >= Len(a) + 8 + Len(z) /\ Len(a) \in Nat /\ Len(z) \in Nat
        /\ Len(a) + 1 \in 1 .. Len(t) - 7
        /\ SubSeq(t, Len(a) + 1, Len(a) + 1 + 7) = g
    BY <2>11 DEF HasRoom
  <2>7. t \in Seq(Range(t))
    BY <2>6, OverItsRange
  <2>8. PICK k : k = Len(a) + 1
    OBVIOUS
  <2>9. k - 1 + size <= Len(t)
    <3>1. PICK la, lt : la = Len(a) /\ lt = Len(t)
      OBVIOUS
    <3>2. la \in Nat /\ lt \in Nat /\ lt >= la + 8 + n /\ k = la + 1
      BY <2>3, <2>6, <2>7, <2>8, <3>1
    <3>3. k - 1 + size <= lt
      BY ONLY <1>6, <2>2, <3>2
    <3> QED
      BY <3>1, <3>3
  <2>10. k \in Signed'
    BY <1>3, <2>4, <2>6, <2>8 DEF Signed
  <2> QED
    BY <1>1, <1>3, <2>4, <2>7, <2>9, <2>10 DEF Loaded
<1> QED
  BY <1>6, <1>7, <1>8

LEMMA SecondReader ==
    ASSUME RccTypeOK, SecondPass
    PROVE  Reader' = First(Given)
<1>1. RccTypeOK'
  BY SecondTyped
<1>2. /\ input' = 1 /\ at' = 0 /\ tags' = <<>> /\ iterator' = <<>> /\ nodes' = <<>>
      /\ resource' = [prefix |-> <<>>, locale |-> CLocale] /\ entry' = NoEntry'
  BY DEF SecondPass
<1>3. (/\ ProcessOK /\ input = 1 /\ at = 0 /\ tags = <<>> /\ iterator = <<>> /\ nodes = <<>>
       /\ resource = [prefix |-> <<>>, locale |-> CLocale] /\ entry = NoEntry
       => Reader = First(Given))'
  BY StartsFirst, PTL
<1>4. Given' = Given
  BY SecondGiven
<1>5. ProcessOK'
  BY <1>1 DEF RccTypeOK
<1>6. PICK c : c = Given
  OBVIOUS
<1>7. First(Given)' = First(c)
  BY <1>4, <1>6 DEF First
<1> QED
  BY <1>2, <1>3, <1>5, <1>6, <1>7

LEMMA SecondStarts ==
    ASSUME RccTypeOK, WalkInv, FilesInv, FirstInv, SecondPass
    PROVE  PassInv'
<1>1. stage = "written" /\ command.format = "Pass1" /\ ~command.list
  BY DEF SecondPass
<1>2. PICK r, m : FirstDone(r, m)
  BY <1>1 DEF FirstInv
<1>3. PICK c, o, s : c = Given /\ o = seed[1] /\ s = r[m]
  OBVIOUS
<1>4. /\ IsRun(c, o, r, m) /\ Finished(s) /\ Resumes(r, m)
      /\ IsState(s) /\ SameData(s) /\ Reserved(s)
  BY <1>2, <1>3 DEF FirstDone
<1>5. Given' = c /\ command'.inputs = command.inputs /\ command'.root = command.root /\ image' = image
  BY <1>3, SecondGiven DEF SecondPass
<1>6. seed'[1] = o
  <2>1. PICK x : seed' = [seed EXCEPT ![2] = x]
    BY DEF SecondPass
  <2>2. seed \in Seeds \X Seeds
    BY DEF RccTypeOK, ProcessOK
  <2> QED
    BY <1>3, <2>1, <2>2
<1>7. Pointed(s)'
  <2>1. Pointed(s)
    BY <1>1, <1>4, FirstPoints
  <2> QED
    BY <1>5, <2>1, PointedKept
<1>8. Reserved(s)'
  BY <1>4, <1>5 DEF Reserved
<1>9. Sure(r, m)'
  BY <1>3, <1>4, <1>5, <1>6, <1>7, <1>8 DEF Sure
<1>10. Loaded'
  BY <1>4, SecondLoaded
<1>11. IsAt(r, m, Reader)'
  <2>1. r[1] = Reader' /\ 1 \in 1 .. m
    <3>1. r[1] = First(c) /\ m \in Nat \ {0}
      BY <1>4 DEF IsRun
    <3>2. Reader' = First(c)
      BY <1>3, SecondReader
    <3> QED
      BY <3>1, <3>2
  <2> QED
    BY <2>1 DEF IsAt
<1>12. Passing(r, m)'
  <2>1. /\ ~foundSignature' /\ position' = 0 /\ matched' = 0 /\ output' = <<>>
        /\ stage' = "interpretResourceFile"
    BY DEF SecondPass
  <2>2. Begins(r, m)'
    BY <1>11, <2>1 DEF Begins
  <2> QED
    BY <2>1, <2>2 DEF Passing
<1>13. ~command'.list
  BY <1>1, SecondGiven
<1> QED
  BY <1>9, <1>10, <1>12, <1>13 DEF PassInv

----------------------------------------------------------------------------
(* A step of the second process stays on the run.                          *)
Still == command' = command /\ seed' = seed /\ unreadable' = unreadable /\ temp' = temp /\ image' = image
LEMMA SecondStill ==
    ASSUME RccTypeOK, command.format = "Pass2", ~command.list, RccSteps
    PROVE  /\ Still
           /\ \/ Reads \/ ParseError \/ Output \/ (stage = "writeDataBlobs" /\ DataWalks)
              \/ OpenReadFailed \/ EndSecondData \/ ScanByte \/ EndOfTemp
<1>1. stage \in Range(Walks) => stage = "writeDataBlobs"
  BY DEF RccTypeOK, StageOK
<1>2. ~(WriteDataName \/ CountChild \/ WriteDataInfo)
  BY <1>1, WalksAre DEF WriteDataName, CountChild, WriteDataInfo, Walking
<1>3. ~EndWalk
  BY EndTyped
<1>4. CASE Reads \/ ParseError
  <2>1. UNCHANGED <<command, seed, unreadable, temp, image>>
    BY <1>4 DEF Reads, StartRcc, StartResource, StartFile, EndTag, Blanks, AddText, AddFound, EndDocument,
           ParseError, Took, processVars, passVars
  <2> QED
    BY <1>4, <2>1 DEF Still
<1>5. CASE Output
  <2>1. UNCHANGED <<command, seed, unreadable, temp, image>>
    BY <1>5 DEF Output, processVars, passVars
  <2> QED
    BY <1>5, <2>1 DEF Still
<1>6. CASE DataWalks
  <2>1. stage = "writeDataBlobs"
    BY <1>1, <1>6 DEF DataWalks, Descend, WriteDataBlob, BlobOfDirectory, Walking
  <2>2. UNCHANGED <<command, seed, unreadable, temp, image>>
    BY <1>6 DEF DataWalks, Descend, WriteDataBlob, BlobOfDirectory, Visited, processVars, passVars
  <2> QED
    BY <1>6, <2>1, <2>2 DEF Still
<1>7. CASE OpenReadFailed \/ EndSecondData
  <2>1. UNCHANGED <<command, seed, unreadable, temp, image>>
    BY <1>7 DEF OpenReadFailed, EndSecondData, SeekBehindData, processVars, passVars
  <2> QED
    BY <1>7, <2>1 DEF Still
<1>8. CASE ScanByte \/ EndOfTemp
  <2>1. UNCHANGED <<command, seed, unreadable, temp, image>>
    BY <1>8 DEF ScanByte, EndOfTemp, processVars, passVars
  <2> QED
    BY <1>8, <2>1 DEF Still
<1> QED
  BY <1>2, <1>3, <1>4, <1>5, <1>6, <1>7, <1>8 DEF RccSteps, Reads, DataWalks

LEMMA StillIs ==
    ASSUME Still
    PROVE  /\ (Fits' <=> Fits) /\ (Loaded' <=> Loaded)
           /\ Start' = Start /\ StartOfData' = StartOfData /\ Signed' = Signed /\ Chars' = Chars
           /\ \A r, m : Sure(r, m) => Sure(r, m)'
BY Steady DEF Still

LEMMA RunOn ==
    ASSUME NEW c, NEW o, NEW r, NEW m, IsRun(c, o, r, m), Finished(r[m]), NEW s, IsAt(r, m, s), ~Finished(s)
    PROVE  IsAt(r, m, Next(c, o, s))
<1>1. m \in Nat \ {0} /\ \A i \in 1 .. m - 1 : ~Finished(r[i]) /\ r[i + 1] = Next(c, o, r[i])
  BY DEF IsRun
<1>2. PICK i \in 1 .. m : r[i] = s
  BY DEF IsAt
<1>3. i # m
  BY <1>2
<1>4. i \in 1 .. m - 1 /\ i + 1 \in 1 .. m
  BY ONLY <1>1, <1>3, i \in 1 .. m
<1>5. r[i + 1] = Next(c, o, s)
  BY <1>1, <1>2, <1>4
<1> QED
  BY <1>4, <1>5 DEF IsAt

LEMMA RunOver ==
    ASSUME NEW c, NEW o, NEW r, NEW m, IsRun(c, o, r, m), NEW s, IsAt(r, m, s), Finished(s)
    PROVE  r[m] = s
<1>1. m \in Nat \ {0} /\ \A i \in 1 .. m - 1 : ~Finished(r[i])
  BY DEF IsRun
<1>2. PICK i \in 1 .. m : r[i] = s
  BY DEF IsAt
<1>3. i \notin 1 .. m - 1
  BY <1>1, <1>2
<1>4. i = m
  BY ONLY <1>1, <1>3, i \in 1 .. m
<1> QED
  BY <1>2, <1>4

LEMMA ReaderStays ==
    ASSUME UNCHANGED <<input, at, tags, resource, entry, iterator, nodes>>
    PROVE  Reader' = Reader
BY DEF Reader, State

LEMMA PassReads ==
    ASSUME RccTypeOK, Fits, Loaded, NEW r, NEW m, Sure(r, m), Passing(r, m), Still, Reads, stage' # "failed"
    PROVE  Passing(r, m)'
<1>1. stage = "interpretResourceFile"
  BY DEF Reads, StartRcc, StartResource, StartFile, EndTag, Blanks, AddText, AddFound, EndDocument,
         Gets, Interpreting
<1>2. UNCHANGED <<foundSignature, position, matched, output>>
  BY DEF Reads, StartRcc, StartResource, StartFile, EndTag, Blanks, AddText, AddFound, EndDocument,
         Took, passVars
<1>3. Begins(r, m)
  BY <1>1 DEF Passing
<1>4. PICK c, o : c = Given /\ o = seed[1]
  OBVIOUS
<1>5. Reader' = Next(c, o, Reader) /\ stage' = stage
  BY <1>4, ReadsNext DEF Fits, Loaded
<1>6. IsRun(c, o, r, m) /\ Finished(r[m])
  BY <1>4 DEF Sure
<1>7. ~Finished(Reader)
  BY ReaderIs DEF Finished
<1>8. IsAt(r, m, Next(c, o, Reader))
  BY <1>3, <1>6, <1>7, RunOn DEF Begins
<1>9. IsAt(r, m, Reader)'
  BY <1>5, <1>8 DEF IsAt
<1>10. Begins(r, m)'
  BY <1>2, <1>3, <1>9 DEF Begins
<1> QED
  BY <1>1, <1>5, <1>10 DEF Passing

LEMMA PassOutput ==
    ASSUME RccTypeOK, Fits, Loaded, NEW r, NEW m, Sure(r, m), Passing(r, m), Still, Output
    PROVE  Passing(r, m)'
<1>1. /\ stage = "interpretResourceFile" /\ input > Len(command.inputs) /\ stage' = "scan"
      /\ UNCHANGED <<input, at, tags, resource, entry, iterator, nodes>>
      /\ UNCHANGED <<foundSignature, position, matched, output>>
  BY DEF Output, Fits, Loaded, readVars, passVars
<1>2. todo' = <<>>
  BY OutputTyped
<1>3. Begins(r, m)
  BY <1>1 DEF Passing
<1>4. IsAt(r, m, Reader)'
  BY <1>1, <1>3, ReaderStays DEF Begins, IsAt
<1>5. position' = 0 /\ matched' = 0 /\ output' = <<>> /\ ~foundSignature'
  BY <1>1, <1>3 DEF Begins
<1>6. temp' = temp /\ Len(temp) \in Nat
  BY DEF Loaded, Still
<1>7. Scanned'
  BY <1>2, <1>5, <1>6 DEF Scanned
<1>8. Searches(r, m)'
  BY <1>1, <1>4, <1>5, <1>7 DEF Searches, Still
<1> QED
  BY <1>1, <1>8 DEF Passing

LEMMA HoldsOn ==
    ASSUME NEW S, NEW data \in Seq(S), NEW more \in Seq(S), NEW from \in Nat, NEW blob \in Seq(S),
           HoldsAt(data, from, blob), Len(more) >= Len(data),
           \A k \in 1 .. Len(data) : more[k] = data[k]
    PROVE  HoldsAt(more, from, blob)
<1>1. PICK d, e, b : d = Len(data) /\ e = Len(more) /\ b = Len(blob)
  OBVIOUS
<1>2. d \in Nat /\ e \in Nat /\ b \in Nat /\ DOMAIN blob = 1 .. b /\ from + b <= d /\ e >= d
      /\ \A i \in 1 .. b : data[from + i] = blob[i]
  BY <1>1, InSeq DEF HoldsAt
<1>3. from + b <= e /\ \A i \in 1 .. b : from + i \in 1 .. d
  BY ONLY <1>2, from \in Nat
<1>4. \A i \in 1 .. b : more[from + i] = blob[i]
  BY <1>1, <1>2, <1>3
<1> QED
  BY <1>1, <1>2, <1>3, <1>4 DEF HoldsAt

(* A byte of the search.                                                   *)
Extends(bytes) ==
    /\ bytes \in Seq(Chars) /\ Len(bytes) >= Len(output)
    /\ \A k \in 1 .. Len(output) : bytes[k] = output[k]
Copies(bytes) ==
    Extends(bytes) /\ \A k \in 1 .. Len(bytes) : k > Len(output) => bytes[k] = temp[k]
LEMMA CopiesItself ==
    ASSUME output \in Seq(Chars)
    PROVE  Copies(output) /\ Extends(output)
<1>1. Len(output) \in Nat
  OBVIOUS
<1> QED
  BY <1>1 DEF Copies, Extends

LEMMA BrokenOff ==
    ASSUME Scanned, Loaded, position < Len(temp), NEW c, c = temp[position + 1]
    PROVE  LET bytes == Append(output \o SubSeq(Signature, 1, matched), c)
           IN  Copies(bytes) /\ Len(bytes) = position + 1
<1>1. PICK p, q, w, g, l : p = position /\ q = matched /\ w = output /\ g = Signature /\ l = Len(temp)
  OBVIOUS
<1>2. /\ w \in Seq(Chars) /\ q \in 0 .. 7 /\ p \in Nat /\ q <= p /\ p < l /\ Len(w) = p - q
      /\ \A j \in 1 .. q : temp[p - q + j] = g[j]
  BY <1>1 DEF Scanned
<1>3. temp \in Seq(Range(temp)) /\ l \in Nat
  BY <1>1 DEF Loaded
<1>4. g \in Seq(Chars) /\ Len(g) = 8
  <2>1. g \in Seq(Range(g)) /\ Len(g) = 8 /\ Range(g) \subseteq Chars
    BY <1>1, SignatureIs DEF Chars
  <2>2. \A A : A \subseteq Chars => Seq(A) \subseteq Seq(Chars)
    OBVIOUS
  <2> QED
    BY <2>1, <2>2
<1>5. c \in Chars
  <2>1. p + 1 \in 1 .. l
    BY ONLY <1>2, <1>3
  <2>2. temp[p + 1] \in Range(temp)
    BY <1>1, <1>3, <2>1 DEF Range
  <2> QED
    BY <1>1, <2>2 DEF Chars
<1>6. PICK h : h = SubSeq(g, 1, q)
  OBVIOUS
<1>7. h \in Seq(Chars) /\ Len(h) = q /\ \A i \in 1 .. q : h[i] = g[i]
  <2>1. q \in 0 .. Len(g)
    BY ONLY <1>2, <1>4
  <2> QED
    BY <1>4, <1>6, <2>1, FirstPart
<1>8. PICK j : j = w \o h
  OBVIOUS
<1>9. /\ j \in Seq(Chars) /\ Len(j) = Len(w) + Len(h) /\ Len(w) \in Nat /\ Len(h) \in Nat
      /\ \A i \in 1 .. Len(w) : j[i] = w[i]
      /\ \A i \in 1 .. Len(h) : j[Len(w) + i] = h[i]
  <2>1. w \in Seq(Chars) /\ h \in Seq(Chars)
    BY <1>2, <1>7
  <2> QED
    BY ONLY <1>8, <2>1, Joined
<1>10. PICK y : y = Append(j, c)
  OBVIOUS
<1>11. /\ y \in Seq(Chars) /\ Len(y) = Len(j) + 1 /\ y[Len(j) + 1] = c
       /\ \A i \in 1 .. Len(j) : y[i] = j[i]
  BY <1>5, <1>9, <1>10
<1>12. PICK lw : lw = p - q
  OBVIOUS
<1>13. lw \in Nat /\ lw + q = p /\ Len(w) = lw /\ Len(j) = p /\ Len(y) = p + 1 /\ p + 1 >= lw
  <2>1. lw \in Nat /\ lw + q = p /\ p + 1 >= lw
    BY ONLY <1>2, <1>12
  <2> QED
    BY <1>2, <1>7, <1>9, <1>11, <1>12, <2>1
<1>14. \A k \in 1 .. lw : y[k] = w[k]
  <2>1. \A k \in 1 .. lw : k \in 1 .. p
    BY ONLY <1>2, <1>13
  <2> QED
    BY <1>9, <1>11, <1>13, <2>1
<1>15. ASSUME NEW k \in 1 .. p + 1, k > lw PROVE y[k] = temp[k]
  <2>1. CASE k = p + 1
    BY <1>1, <1>11, <1>13, <2>1
  <2>2. CASE k # p + 1
    <3>1. PICK i : i = k - lw
      OBVIOUS
    <3>2. i \in 1 .. q /\ k = lw + i /\ k \in 1 .. p
      BY ONLY <1>2, <1>13, <1>15, <2>2, <3>1
    <3>3. y[k] = j[k] /\ j[k] = h[i] /\ h[i] = g[i]
      BY <1>7, <1>9, <1>11, <1>13, <3>2
    <3>4. temp[k] = g[i]
      BY <1>2, <1>12, <3>2
    <3> QED
      BY <3>3, <3>4
  <2> QED
    BY <2>1, <2>2
<1>16. Copies(y) /\ Len(y) = p + 1
  BY <1>1, <1>11, <1>13, <1>14, <1>15 DEF Copies, Extends
<1> QED
  BY <1>1, <1>6, <1>8, <1>10, <1>16

LEMMA FoundAt ==
    ASSUME Scanned, Loaded, position < Len(temp), matched = 7, temp[position + 1] = Signature[8]
    PROVE  /\ Len(output) + 1 \in Signed /\ Len(output) \in Nat
           /\ position + 1 = Len(output) + 8
<1>1. PICK p, n, g, l : p = position /\ n = position - 7 /\ g = Signature /\ l = Len(temp)
  OBVIOUS
<1>2. /\ p \in Nat /\ 7 <= p /\ p < l /\ Len(output) = n /\ n = p - 7
      /\ \A j \in 1 .. 7 : temp[n + j] = g[j]
  BY <1>1 DEF Scanned
<1>3. temp \in Seq(Range(temp)) /\ l \in Nat
  BY <1>1 DEF Loaded
<1>4. n \in Nat /\ p + 1 = n + 8 /\ n + 1 \in 1 .. l - 7 /\ n + 8 <= l /\ n + 1 + 7 = n + 8
  BY ONLY <1>2, <1>3
<1>5. g \in Seq(Range(g)) /\ Len(g) = 8 /\ DOMAIN g = 1 .. 8
  BY <1>1, SignatureIs
<1>6. \A j \in 1 .. 8 : temp[n + j] = g[j]
  <2> SUFFICES ASSUME NEW j \in 1 .. 8 PROVE temp[n + j] = g[j]
    OBVIOUS
  <2>1. j = 8 \/ j \in 1 .. 7
    OBVIOUS
  <2> QED
    BY <1>1, <1>2, <1>4, <2>1
<1>7. PICK S : S = Range(temp) \cup Range(g)
  OBVIOUS
<1>8. temp \in Seq(S) /\ g \in Seq(S)
  <2>1. \A A : A \subseteq S => Seq(A) \subseteq Seq(S)
    OBVIOUS
  <2> QED
    BY <1>3, <1>5, <1>7, <2>1
<1>9. HoldsAt(temp, n, g)
  BY <1>1, <1>4, <1>5, <1>6 DEF HoldsAt
<1>10. SubSeq(temp, n + 1, n + Len(g)) = g
  BY <1>4, <1>8, <1>9, HoldsPart
<1>11. n + 1 \in Signed
  BY <1>1, <1>4, <1>5, <1>10 DEF Signed
<1> QED
  BY <1>1, <1>2, <1>4, <1>11

LEMMA ScanOn ==
    ASSUME ScanByte, Scanned, Loaded, Still
    PROVE  /\ Copies(output') /\ offset' = 0 /\ todo' = <<>> /\ stage = "scan"
           /\ UNCHANGED <<input, at, tags, resource, entry, iterator, nodes, foundSignature>>
           /\ \/ stage' = "scan" /\ Scanned'
              \/ /\ stage' = "writeDataBlobs" /\ pending' = Root /\ output' = output
                 /\ Len(output) + 1 \in Signed /\ position' = Len(output) + 8 /\ matched' = 0
<1> DEFINE c == temp[position + 1]
<1>1. /\ stage = "scan" /\ position < Len(temp) /\ position' = position + 1 /\ offset' = 0
      /\ UNCHANGED <<input, at, tags, resource, entry, iterator, nodes, foundSignature>>
      /\ todo' = todo
  BY DEF ScanByte, readVars
<1>2. /\ todo = <<>> /\ matched \in 0 .. 7 /\ position \in Nat
      /\ matched <= position /\ position <= Len(temp) /\ Len(output) = position - matched
      /\ \A j \in 1 .. matched : temp[position - matched + j] = Signature[j]
      /\ output \in Seq(Chars)
  BY DEF Scanned
<1>3. temp' = temp /\ Len(temp) \in Nat /\ Chars' = Chars
  BY StillIs DEF Still, Loaded
<1>4. CASE c = Signature[matched + 1] /\ matched = 7
  <2>1. /\ matched' = 0 /\ output' = output /\ stage' = "writeDataBlobs" /\ pending' = Root
    BY <1>4 DEF ScanByte
  <2>2. /\ Len(output) + 1 \in Signed /\ position + 1 = Len(output) + 8
    BY <1>1, <1>4, FoundAt
  <2> QED
    BY <1>1, <1>2, <2>1, <2>2, CopiesItself
<1>5. CASE c = Signature[matched + 1] /\ matched # 7
  <2>1. matched' = matched + 1 /\ output' = output /\ stage' = stage
    BY <1>5 DEF ScanByte
  <2>2. PICK p, q, l : p = position /\ q = matched /\ l = Len(temp)
    OBVIOUS
  <2>3. p \in Nat /\ q \in 0 .. 7 /\ q # 7 /\ q <= p /\ p < l /\ l \in Nat
    BY <1>1, <1>2, <1>3, <1>5, <2>2
  <2>4. /\ q + 1 \in 0 .. 7 /\ p + 1 \in Nat /\ q + 1 <= p + 1 /\ p + 1 <= l
        /\ p - q = (p + 1) - (q + 1) /\ (p + 1) - (q + 1) + (q + 1) = p + 1
        /\ \A j \in 1 .. q + 1 : j = q + 1 \/ j \in 1 .. q
    BY ONLY <2>3
  <2>5. \A j \in 1 .. q + 1 : temp[(p + 1) - (q + 1) + j] = Signature[j]
    BY <1>2, <1>5, <2>2, <2>4
  <2>6. /\ matched' = q + 1 /\ position' = p + 1 /\ todo' = <<>> /\ output' \in Seq(Chars)
        /\ Len(output') = (p + 1) - (q + 1)
    BY <1>1, <1>2, <2>1, <2>2, <2>4
  <2>7. Scanned'
    BY <1>3, <2>2, <2>4, <2>5, <2>6 DEF Scanned
  <2> QED
    BY <1>1, <1>2, <2>1, <2>7, CopiesItself
<1>6. CASE c # Signature[matched + 1]
  <2>1. /\ matched' = 0 /\ output' = Append(output \o SubSeq(Signature, 1, matched), c) /\ stage' = stage
    BY <1>6 DEF ScanByte
  <2>2. Copies(output') /\ Len(output') = position + 1
    BY <1>1, <2>1, BrokenOff
  <2>3. PICK p, l : p = position /\ l = Len(temp)
    OBVIOUS
  <2>4. p \in Nat /\ p < l /\ l \in Nat
    BY <1>1, <1>2, <1>3, <2>3
  <2>5. p + 1 \in Nat /\ 0 <= p + 1 /\ p + 1 <= l /\ p + 1 = p + 1 - 0 /\ 1 .. 0 = {} /\ 0 \in 0 .. 7
    BY ONLY <2>4
  <2>6. /\ matched' = 0 /\ position' = p + 1 /\ todo' = <<>> /\ output' \in Seq(Chars)
        /\ Len(output') = p + 1
    BY <1>1, <1>2, <2>1, <2>2, <2>3 DEF Copies, Extends
  <2>7. Scanned'
    BY <1>3, <2>3, <2>5, <2>6 DEF Scanned
  <2> QED
    BY <1>1, <1>2, <2>1, <2>2, <2>7
<1> QED
  BY <1>4, <1>5, <1>6

(* Data that stands in the output stays there.                             *)
LEMMA DataStays ==
    ASSUME Still, Start \in Nat, output \in Seq(Chars), Extends(output'), NEW t, NEW V, DataOf(t, V)
    PROVE  DataOf(t, V)'
<1> SUFFICES ASSUME NEW c \in V, ~t[c].directory PROVE DataAt(t, c)'
  BY DEF DataOf
<1>1. DataAt(t, c)
  BY DEF DataOf
<1>2. PICK b, n, f : b = Blob(t[c].file, t[c].compressed) /\ n = t[c].dataOffset /\ f = Start + n
  OBVIOUS
<1>3. /\ t[c].file \in DOMAIN Disk /\ t[c].compressed \in BOOLEAN /\ n \in Nat /\ HoldsAt(output, f, b)
  BY <1>1, <1>2 DEF DataAt
<1>4. b \in Seq(Chars) /\ f \in Nat
  <2>1. b \in Seq(Bytes)
    BY <1>2, <1>3, BlobIs
  <2>2. Bytes \subseteq Chars
    BY DEF Chars
  <2>3. \A A : A \subseteq Chars => Seq(A) \subseteq Seq(Chars)
    OBVIOUS
  <2> QED
    BY <1>2, <1>3, <2>1, <2>2, <2>3
<1>5. HoldsAt(output', f, b)
  <2>1. PICK d : d = output'
    OBVIOUS
  <2>2. d \in Seq(Chars) /\ Len(d) >= Len(output) /\ \A k \in 1 .. Len(output) : d[k] = output[k]
    BY <2>1 DEF Copies, Extends
  <2>3. HoldsAt(d, f, b)
    BY <1>3, <1>4, <2>2, HoldsOn
  <2> QED
    BY <2>1, <2>3
<1>6. Start' = Start
  BY StillIs
<1>7. DataAt(t, c)' <=> /\ t[c].file \in DOMAIN Disk /\ t[c].compressed \in BOOLEAN
                        /\ t[c].dataOffset \in Nat /\ HoldsAt(output', f, b)
  BY <1>2, <1>6 DEF DataAt, HoldsAt
<1> QED
  BY <1>2, <1>3, <1>5, <1>7

LEMMA FillsOn ==
    ASSUME Still, Start \in Nat, output \in Seq(Chars), Copies(output'), NEW s, s.offset \in Nat, Filling(s)
    PROVE  Filling(s)'
<1>1. /\ StartOfData' = StartOfData /\ Signed' = Signed /\ Start' = Start /\ temp' = temp
  BY StillIs DEF Still
<1>2. StartOfData \in Signed /\ Copied(s.offset) /\ Len(output) >= Start + s.offset
      /\ DataOf(s.nodes, Reached(Shape(s.nodes)))
  BY DEF Filling
<1>3. PICK y, n, t, st :
        y = output' /\ n = Len(output) /\ t = s.offset /\ st = Start
  OBVIOUS
<1>4. /\ y \in Seq(Chars) /\ Len(y) >= n /\ n \in Nat /\ DOMAIN output = 1 .. n
      /\ DOMAIN y = 1 .. Len(y) /\ Len(y) \in Nat /\ n >= st + t /\ st \in Nat /\ t \in Nat
      /\ \A k \in 1 .. n : y[k] = output[k]
      /\ \A k \in 1 .. Len(y) : k > n => y[k] = temp[k]
      /\ \A k \in 1 .. n : k <= st \/ k > st + t => output[k] = temp[k]
  <2>1. /\ y \in Seq(Chars) /\ Len(y) >= n
        /\ \A k \in 1 .. n : y[k] = output[k]
        /\ \A k \in 1 .. Len(y) : k > n => y[k] = temp[k]
    BY <1>3 DEF Copies, Extends
  <2>2. n \in Nat /\ DOMAIN output = 1 .. n /\ DOMAIN y = 1 .. Len(y) /\ Len(y) \in Nat
    BY <1>3, <2>1, InSeq
  <2>3. n >= st + t /\ st \in Nat /\ t \in Nat
    BY <1>2, <1>3
  <2>4. \A k \in DOMAIN output : k <= st \/ k > st + t => output[k] = temp[k]
    BY <1>2, <1>3 DEF Copied
  <2> QED
    BY <2>1, <2>2, <2>3, <2>4
<1>5. \A k \in 1 .. Len(y) : k <= st \/ k > st + t => y[k] = temp[k]
  <2> SUFFICES ASSUME NEW k \in 1 .. Len(y), k <= st \/ k > st + t PROVE y[k] = temp[k]
    OBVIOUS
  <2>1. k > n \/ k \in 1 .. n
    BY <1>4
  <2> QED
    BY <1>4, <2>1
<1>6. Copied(s.offset)'
  BY <1>1, <1>3, <1>4, <1>5 DEF Copied
<1>7. Len(output') >= Start' + s.offset
  <2>1. Len(y) >= st + t
    BY ONLY <1>4
  <2> QED
    BY <1>1, <1>3, <2>1
<1>8. DataOf(s.nodes, Reached(Shape(s.nodes)))'
  <2>1. PICK v, V : v = s.nodes /\ V = Reached(Shape(v))
    OBVIOUS
  <2>2. DataOf(v, V)'
    BY <1>2, <2>1, DataStays DEF Copies
  <2>3. (s.nodes)' = v /\ Reached(Shape(s.nodes))' = V
    BY <2>1
  <2> QED
    BY <2>2, <2>3
<1> QED
  BY <1>1, <1>2, <1>6, <1>7, <1>8 DEF Filling

(* The signature is found: the data is written, at the first time behind   *)
(* what was searched; again only if there is none.                         *)
LEMMA WritesBegin ==
    ASSUME RccTypeOK, Fits, Loaded, Still, Len(output) + 1 \in Signed, Len(output) \in Nat,
           output \in Seq(Chars), \A k \in 1 .. Len(output) : output[k] = temp[k],
           output' = output, position' = Len(output) + 8, matched' = 0,
           pending' = Root, todo' = <<>>, offset' = 0, nodes' = nodes,
           NEW r, NEW m, IsAt(r, m, Walker)'
    PROVE  Writes(r, m)'
<1>1. /\ StartOfData' = StartOfData /\ Signed' = Signed /\ Start' = Start /\ temp' = temp /\ Chars' = Chars
  BY StillIs DEF Still
<1>2. PICK i, n : i = Len(output) + 1 /\ n = Len(output)
  OBVIOUS
<1>3. i \in Signed /\ i = n + 1 /\ n \in Nat
  BY <1>2
<1>4. i = StartOfData /\ StartOfData \in Signed
  BY <1>3, OneSigned DEF Loaded
<1>5. Start = n
  BY <1>3, <1>4 DEF Start
<1>6. nodes # <<>> => \E V : WalkedTo(V)' /\ DataOf(nodes, V)'
  <2> SUFFICES ASSUME nodes # <<>> PROVE \E V : WalkedTo(V)' /\ DataOf(nodes, V)'
    OBVIOUS
  <2>1. pending' = <<1>> /\ TreeOK
    BY DEF Root, RccTypeOK
  <2>2. WalkedTo({1})'
    BY <2>1, WalkBegins
  <2>3. nodes[1].directory
    BY <2>1, TreeShape
  <2>4. DataOf(nodes, {1})'
    BY <2>3 DEF DataOf
  <2> QED
    BY <2>2, <2>4
<1>7. Len(output') = Start' + offset' /\ position' = Start' + 8
  BY <1>1, <1>2, <1>3, <1>5
<1>8. \A k \in 1 .. Start' : output'[k] = temp'[k]
  BY <1>1, <1>2, <1>5
<1>9. (nodes # <<>> => \E V : WalkedTo(V) /\ DataOf(nodes, V))'
  BY <1>6
<1> QED
  BY <1>1, <1>4, <1>7, <1>8, <1>9 DEF Writes

LEMMA WalksAgain ==
    ASSUME NEW s, s = State("walks", <<>>, <<>>, s.offset), IsState(s),
           UNCHANGED <<input, at, tags, resource, entry, iterator, nodes>>,
           pending' = Root, todo' = <<>>, offset' = 0
    PROVE  Walker' = Begun(s)
<1>1. PICK b : b = Begun(s)
  OBVIOUS
<1>2. PICK p, o : p = <<>> /\ o = s.offset
  OBVIOUS
<1>3. s = State("walks", p, p, o)
  BY <1>2
<1>4. /\ s.input = input /\ s.at = at /\ s.tags = tags /\ s.resource = resource
      /\ s.entry = entry /\ s.iterator = iterator /\ s.nodes = nodes
  BY ONLY <1>3, StateIs
<1>5. /\ IsState(b) /\ b.phase = "walks" /\ b.input = s.input /\ b.at = s.at /\ b.tags = s.tags
      /\ b.resource = s.resource /\ b.entry = s.entry /\ b.iterator = s.iterator /\ b.nodes = s.nodes
      /\ b.pending = (IF s.nodes = <<>> THEN <<>> ELSE <<1>>) /\ b.todo = <<>> /\ b.offset = 0
  BY <1>1, BegunIs
<1>6. /\ b.input = input' /\ b.at = at' /\ b.tags = tags' /\ b.resource = resource' /\ b.entry = entry'
      /\ b.iterator = iterator' /\ b.nodes = nodes' /\ b.pending = pending' /\ b.todo = todo'
      /\ b.offset = offset'
  BY <1>4, <1>5 DEF Root
<1>7. Walker' = b
  BY <1>5, <1>6, WalkerMoves
<1> QED
  BY <1>1, <1>7

LEMMA PassSearch ==
    ASSUME RccTypeOK, Fits, Loaded, NEW r, NEW m, Sure(r, m), Searches(r, m), Still, ScanByte
    PROVE  Passing(r, m)'
<1>1. /\ ~foundSignature /\ Scanned /\ input > Len(command.inputs) /\ IsAt(r, m, Reader)
      /\ \A k \in DOMAIN output : output[k] = temp[k]
  BY DEF Searches
<1>2. /\ Copies(output') /\ offset' = 0 /\ todo' = <<>> /\ stage = "scan"
      /\ UNCHANGED <<input, at, tags, resource, entry, iterator, nodes, foundSignature>>
      /\ \/ stage' = "scan" /\ Scanned'
         \/ /\ stage' = "writeDataBlobs" /\ pending' = Root /\ output' = output
            /\ Len(output) + 1 \in Signed /\ position' = Len(output) + 8 /\ matched' = 0
  BY <1>1, ScanOn
<1>3. output \in Seq(Chars) /\ Len(output) \in Nat /\ DOMAIN output = 1 .. Len(output)
  BY <1>1, InSeq DEF Scanned
<1>4. CASE stage' = "scan" /\ Scanned'
  <2>1. \A k \in DOMAIN output' : output'[k] = temp[k]
    <3>1. PICK y : y = output'
      OBVIOUS
    <3>2. /\ y \in Seq(Chars) /\ \A k \in 1 .. Len(output) : y[k] = output[k]
          /\ \A k \in 1 .. Len(y) : k > Len(output) => y[k] = temp[k]
      BY <1>2, <3>1 DEF Copies, Extends
    <3>3. DOMAIN y = 1 .. Len(y) /\ Len(y) \in Nat
      BY <3>2, InSeq
    <3> SUFFICES ASSUME NEW k \in 1 .. Len(y) PROVE y[k] = temp[k]
      BY <3>1, <3>3
    <3>4. k > Len(output) \/ k \in 1 .. Len(output)
      BY <1>3, <3>3
    <3> QED
      BY <1>1, <1>3, <3>2, <3>4
  <2>2. IsAt(r, m, Reader)'
    BY <1>1, <1>2, ReaderStays DEF IsAt
  <2>3. Searches(r, m)'
    BY <1>1, <1>2, <1>4, <2>1, <2>2 DEF Searches, Still
  <2> QED
    BY <1>4, <2>3 DEF Passing
<1>5. CASE stage' = "writeDataBlobs" /\ pending' = Root /\ output' = output
           /\ Len(output) + 1 \in Signed /\ position' = Len(output) + 8 /\ matched' = 0
  <2>1. PICK c, o : c = Given /\ o = seed[1]
    OBVIOUS
  <2>2. IsRun(c, o, r, m) /\ Finished(r[m])
    BY <2>1 DEF Sure
  <2>3. /\ Next(c, o, Reader) = Begun(Reader) /\ ~Finished(Reader) /\ Walker' = Begun(Reader)
    BY <1>1, <1>2, <1>5, <2>1, BeginsNext
  <2>4. IsAt(r, m, Next(c, o, Reader))
    BY <1>1, <2>2, <2>3, RunOn
  <2>5. IsAt(r, m, Walker)'
    BY <2>3, <2>4 DEF IsAt
  <2>6. Writes(r, m)'
    BY <1>1, <1>2, <1>3, <1>5, <2>5, WritesBegin
  <2> QED
    BY <1>5, <2>6 DEF Passing
<1> QED
  BY <1>2, <1>4, <1>5

LEMMA PassGoesOn ==
    ASSUME RccTypeOK, Fits, Loaded, NEW r, NEW m, Sure(r, m), GoesOn(r, m), Still, ScanByte
    PROVE  Passing(r, m)'
<1>1. PICK s : s = r[m]
  OBVIOUS
<1>2. /\ foundSignature /\ Scanned /\ Filling(s) /\ s = State("walks", <<>>, <<>>, s.offset)
      /\ IsState(s) /\ s.offset \in Nat /\ Resumes(r, m)
  BY <1>1 DEF GoesOn, Sure, Reserved
<1>3. /\ Copies(output') /\ offset' = 0 /\ todo' = <<>> /\ stage = "scan"
      /\ UNCHANGED <<input, at, tags, resource, entry, iterator, nodes, foundSignature>>
      /\ \/ stage' = "scan" /\ Scanned'
         \/ /\ stage' = "writeDataBlobs" /\ pending' = Root /\ output' = output
            /\ Len(output) + 1 \in Signed /\ position' = Len(output) + 8 /\ matched' = 0
  BY <1>2, ScanOn
<1>4. output \in Seq(Chars) /\ Len(output) \in Nat /\ DOMAIN output = 1 .. Len(output)
  BY <1>2, InSeq DEF Scanned
<1>5. /\ StartOfData \in Signed /\ Copied(s.offset) /\ Len(output) >= Start + s.offset
  BY <1>2 DEF Filling
<1>6. Start \in Nat
  BY <1>5, OneSigned DEF Loaded
<1>7. CASE stage' = "scan" /\ Scanned'
  <2>1. Filling(s)'
    BY <1>2, <1>3, <1>4, <1>6, FillsOn
  <2>2. State("walks", <<>>, <<>>, s.offset)' = State("walks", <<>>, <<>>, s.offset)
    BY <1>3 DEF State
  <2>3. GoesOn(r, m)'
    BY <1>1, <1>2, <1>3, <1>7, <2>1, <2>2 DEF GoesOn
  <2> QED
    BY <1>7, <2>3 DEF Passing
<1>8. CASE stage' = "writeDataBlobs" /\ pending' = Root /\ output' = output
           /\ Len(output) + 1 \in Signed /\ position' = Len(output) + 8 /\ matched' = 0
  <2>1. PICK i, n, t : i = Len(output) + 1 /\ n = Len(output) /\ t = s.offset
    OBVIOUS
  <2>2. i = StartOfData
    BY <1>8, <2>1, OneSigned DEF Loaded
  <2>3. Start = n /\ n \in Nat /\ t \in Nat /\ n >= n + t
    BY <1>2, <1>4, <1>5, <2>1, <2>2 DEF Start
  <2>4. t = 0
    BY ONLY <2>3
  <2>5. PICK b \in 1 .. m : r[b] = Begun(s)
    BY <1>1, <1>2, <2>1, <2>4 DEF Resumes
  <2>6. Walker' = Begun(s)
    BY <1>2, <1>3, <1>8, WalksAgain
  <2>7. IsAt(r, m, Walker)'
    BY <2>5, <2>6 DEF IsAt
  <2>8. \A k \in 1 .. Len(output) : output[k] = temp[k]
    BY <1>4, <1>5, <2>1, <2>3 DEF Copied
  <2>9. Writes(r, m)'
    BY <1>3, <1>4, <1>8, <2>7, <2>8, WritesBegin
  <2> QED
    BY <1>8, <2>9 DEF Passing
<1> QED
  BY <1>3, <1>7, <1>8

LEMMA PassWalks ==
    ASSUME RccTypeOK, Fits, Loaded, NEW r, NEW m, Sure(r, m), Writes(r, m), Still,
           stage = "writeDataBlobs", DataWalks
    PROVE  Passing(r, m)'
<1>1. /\ StartOfData' = StartOfData /\ Signed' = Signed /\ Start' = Start /\ temp' = temp /\ Chars' = Chars
  BY StillIs DEF Still
<1>2. /\ StartOfData \in Signed /\ position = Start + 8 /\ matched = 0 /\ IsAt(r, m, Walker)
      /\ output \in Seq(Chars) /\ Len(output) = Start + offset
      /\ \A k \in 1 .. Start : output[k] = temp[k]
      /\ nodes # <<>> => \E V : WalkedTo(V) /\ DataOf(nodes, V)
  BY DEF Writes
<1>3. Start \in Nat /\ offset \in Nat /\ TreeOK
  BY <1>2, OneSigned DEF Loaded, RccTypeOK, TreeOK
<1>4. stage' = stage /\ position' = position /\ matched' = matched /\ nodes # <<>>
  <2>1. stage' = stage /\ position' = position /\ matched' = matched
    BY DEF DataWalks, Descend, WriteDataBlob, BlobOfDirectory, passVars
  <2>2. nodes # <<>>
    <3>1. \E n : n \in DOMAIN nodes
      BY DescendTyped, BlobTyped, UntouchedTyped DEF DataWalks
    <3> QED
      BY <3>1
  <2> QED
    BY <2>1, <2>2
<1>5. IsAt(r, m, Walker)'
  <2>1. PICK c, o : c = Given /\ o = seed[1]
    OBVIOUS
  <2>2. IsRun(c, o, r, m) /\ Finished(r[m])
    BY <2>1 DEF Sure
  <2>3. Order = o
    BY <2>1 DEF Order, Fits, OutOfStep
  <2>4. Walker' = Next(c, o, Walker) /\ ~Finished(Walker)
    BY <2>3, WalksNext
  <2>5. IsAt(r, m, Next(c, o, Walker))
    BY <1>2, <2>2, <2>4, RunOn
  <2> QED
    BY <2>4, <2>5 DEF IsAt
<1>6. PICK V : WalkedTo(V) /\ DataOf(nodes, V)
  BY <1>2, <1>4
<1>7. PICK t : t = nodes
  OBVIOUS
<1>8. CASE Descend \/ BlobOfDirectory
  <2>1. output' = output /\ offset' = offset /\ nodes' = nodes
    BY <1>8, DescendTyped DEF Descend, BlobOfDirectory, passVars
  <2>2. DataOf(t, V)'
    <3>1. Extends(output')
      BY <1>2, <2>1, CopiesItself
    <3>2. DataOf(t, V)
      BY <1>6, <1>7
    <3> QED
      BY <1>2, <1>3, <3>1, <3>2, DataStays
  <2>3. \E W : WalkedTo(W)' /\ DataOf(t, W)'
    <3>1. CASE Descend
      <4>1. WalkedTo(V)'
        BY <1>4, <1>6, <3>1, DescendWalk
      <4> QED
        BY <2>2, <4>1
    <3>2. CASE BlobOfDirectory
      <4>1. PICK n, W : n = Head(todo) /\ W = V \cup {n}
        OBVIOUS
      <4>2. WalkedTo(W)'
        <5>1. Shape(nodes') = Shape(nodes) /\ todo # <<>> /\ Visited
          BY <2>1, <3>2, UntouchedTyped
        <5> QED
          BY <1>4, <1>6, <4>1, <5>1, VisitWalk
      <4>3. t[n].directory
        BY <1>7, <3>2, <4>1 DEF BlobOfDirectory, Visiting
      <4>4. DataOf(t, W)'
        BY <2>2, <4>1, <4>3 DEF DataOf
      <4> QED
        BY <4>2, <4>4
    <3> QED
      BY <1>8, <3>1, <3>2
  <2>4. nodes' = t
    BY <1>7, <2>1
  <2>5. (nodes # <<>> => \E W : WalkedTo(W) /\ DataOf(nodes, W))'
    BY <2>3, <2>4 DEF DataOf, DataAt
  <2>6. Writes(r, m)'
    BY <1>1, <1>2, <1>4, <1>5, <2>1, <2>5 DEF Writes
  <2> QED
    BY <1>4, <2>6 DEF Passing
<1>9. CASE WriteDataBlob
  <2> DEFINE packs == Compresses(Visiting)
  <2>1. PICK n, W, f, q, b : /\ n = Head(todo) /\ W = V \cup {n} /\ f = Visiting.file /\ q = packs
                             /\ b = Blob(f, q)
    OBVIOUS
  <2>2. /\ todo # <<>> /\ Visited /\ Shape(nodes') = Shape(nodes) /\ DOMAIN nodes' = DOMAIN nodes
        /\ n \in DOMAIN nodes /\ ~Visiting.directory
        /\ nodes' = [nodes EXCEPT ![n] = [Visiting EXCEPT !.dataOffset = offset, !.compressed = packs]]
        /\ offset' = offset + Len(b) /\ b \in Seq(Bytes)
    BY <1>9, <2>1, BlobTyped
  <2>3. output' = output \o b
    BY <1>9, <2>1 DEF WriteDataBlob, Fits
  <2>4. b \in Seq(Chars)
    <3>1. Bytes \subseteq Chars
      BY DEF Chars
    <3>2. \A A : A \subseteq Chars => Seq(A) \subseteq Seq(Chars)
      OBVIOUS
    <3> QED
      BY <2>2, <3>1, <3>2
  <2>5. PICK y : y = output'
    OBVIOUS
  <2>6. /\ y \in Seq(Chars) /\ Len(y) = Len(output) + Len(b) /\ Len(output) \in Nat /\ Len(b) \in Nat
        /\ \A k \in 1 .. Len(output) : y[k] = output[k]
        /\ \A k \in 1 .. Len(b) : y[Len(output) + k] = b[k]
    <3>1. y = output \o b /\ output \in Seq(Chars)
      BY <1>2, <2>3, <2>5
    <3> QED
      BY ONLY <2>4, <3>1, Joined
  <2>7. Extends(output')
    <3>1. Len(y) >= Len(output)
      BY ONLY <2>6
    <3> QED
      BY <2>5, <2>6, <3>1 DEF Extends
  <2>8. DataOf(t, V)'
    <3>1. DataOf(t, V)
      BY <1>6, <1>7
    <3> QED
      BY <1>2, <1>3, <2>7, <3>1, DataStays
  <2>9. WalkedTo(W)' /\ n \notin V /\ V \subseteq DOMAIN nodes
    BY <1>4, <1>6, <2>1, <2>2, VisitWalk
  <2>10. PICK u : u = nodes'
    OBVIOUS
  <2>11. /\ \A c \in V : u[c] = t[c]
         /\ u[n].dataOffset = offset /\ u[n].compressed = q /\ u[n].file = f /\ f \in DOMAIN Disk
    <3>1. Visiting = nodes[n] /\ Visiting \in FileInfo /\ Visiting.file \in DOMAIN Disk
      BY <1>3, <2>1, <2>2, NodeIs DEF Visiting
    <3>2. u[n].dataOffset = offset /\ u[n].compressed = q /\ u[n].file = f
      BY <2>1, <2>2, <2>10, <3>1 DEF FileInfo
    <3>3. \A c \in V : u[c] = t[c]
      BY <1>7, <2>2, <2>9, <2>10
    <3> QED
      BY <2>1, <3>1, <3>2, <3>3
  <2>12. q \in BOOLEAN
    BY <2>1 DEF Compresses
  <2> HIDE DEF packs
  <2>13. DataAt(u, n)'
    <3>1. HoldsAt(output \o b, Len(output), b)
      BY <1>2, <2>4, HoldsNew
    <3>2. HoldsAt(y, Start + offset, b)
      BY <1>2, <2>3, <2>5, <3>1
    <3>3. DataAt(u, n)' <=> /\ u[n].file \in DOMAIN Disk /\ u[n].compressed \in BOOLEAN
                            /\ u[n].dataOffset \in Nat
                            /\ HoldsAt(output', Start' + u[n].dataOffset, Blob(u[n].file, u[n].compressed))
      BY DEF DataAt, HoldsAt
    <3> QED
      BY <1>1, <1>3, <2>1, <2>5, <2>11, <2>12, <3>2, <3>3
  <2>14. DataOf(u, W)'
    <3> SUFFICES ASSUME NEW c \in W, ~u[c].directory PROVE DataAt(u, c)'
      BY DEF DataOf
    <3>1. CASE c \in V
      <4>1. DataAt(t, c)'
        BY <2>8, <2>11, <3>1 DEF DataOf
      <4> QED
        BY <2>11, <3>1, <4>1 DEF DataAt
    <3> QED
      BY <2>1, <2>13, <3>1
  <2>15. (nodes # <<>> => \E X : WalkedTo(X) /\ DataOf(nodes, X))'
    BY <2>9, <2>10, <2>14 DEF DataOf, DataAt
  <2>16. Len(output') = Start' + offset'
    <3>1. PICK lo, lb, st, of : lo = Len(output) /\ lb = Len(b) /\ st = Start /\ of = offset
      OBVIOUS
    <3>2. lo = st + of /\ Len(y) = lo + lb /\ st \in Nat /\ of \in Nat /\ lb \in Nat
      BY <1>2, <1>3, <2>6, <3>1
    <3>3. Len(y) = st + (of + lb)
      BY ONLY <3>2
    <3> QED
      BY <1>1, <2>2, <2>5, <3>1, <3>3
  <2>17. \A k \in 1 .. Start' : output'[k] = temp'[k]
    <3>1. \A k \in 1 .. Start : k \in 1 .. Len(output)
      BY <1>2, <1>3
    <3> QED
      BY <1>1, <1>2, <2>5, <2>6, <3>1
  <2>18. Writes(r, m)'
    BY <1>1, <1>2, <1>4, <1>5, <2>5, <2>6, <2>15, <2>16, <2>17 DEF Writes
  <2> QED
    BY <1>4, <2>18 DEF Passing
<1> QED
  BY <1>8, <1>9 DEF DataWalks

LEMMA PassEnds ==
    ASSUME RccTypeOK, Fits, Loaded, NEW r, NEW m, Sure(r, m), Writes(r, m), Still, EndSecondData
    PROVE  Passing(r, m)'
<1>1. /\ StartOfData' = StartOfData /\ Signed' = Signed /\ Start' = Start /\ temp' = temp /\ Chars' = Chars
  BY StillIs DEF Still
<1>2. /\ StartOfData \in Signed /\ position = Start + 8 /\ matched = 0 /\ IsAt(r, m, Walker)
      /\ output \in Seq(Chars) /\ Len(output) = Start + offset
      /\ \A k \in 1 .. Start : output[k] = temp[k]
      /\ nodes # <<>> => \E V : WalkedTo(V) /\ DataOf(nodes, V)
  BY DEF Writes
<1>3. /\ todo = <<>> /\ pending = <<>> /\ stage' = "scan" /\ todo' = <<>>
      /\ position' = position + offset - 8 /\ foundSignature' = TRUE
      /\ UNCHANGED <<matched, output, input, at, tags, resource, entry, iterator, nodes>>
  BY DEF EndSecondData, WalkOver, SeekBehindData, readVars
<1>4. PICK s, c, o : s = r[m] /\ c = Given /\ o = seed[1]
  OBVIOUS
<1>5. IsRun(c, o, r, m) /\ Reserved(s)
  BY <1>4 DEF Sure
<1>6. Finished(Walker)
  BY <1>3, WalkerIs DEF Finished
<1>7. s = Walker
  BY <1>2, <1>4, <1>5, <1>6, RunOver
<1>8. s.offset = offset /\ s.nodes = nodes
  BY <1>7, WalkerIs
<1>9. s = State("walks", <<>>, <<>>, s.offset)
  BY <1>3, <1>7, <1>8 DEF Walker
<1>10. /\ Start \in Nat /\ offset \in Nat /\ TreeOK /\ Len(temp) \in Nat /\ StartOfData + 7 <= Len(temp)
       /\ StartOfData = Start + 1
  <2>1. StartOfData \in Nat
    BY <1>2 DEF Signed
  <2>2. Start \in Nat /\ StartOfData + 7 <= Len(temp)
    BY <1>2, OneSigned DEF Loaded
  <2>3. StartOfData = Start + 1
    BY <2>1 DEF Start
  <2> QED
    BY <2>2, <2>3 DEF Loaded, RccTypeOK, TreeOK
<1>11. Start + offset <= Len(temp)
  <2>1. offset <= image.size /\ image.size \in Nat
    BY <1>5, <1>8 DEF Reserved
  <2>2. CASE image.size = 0
    BY <1>10, <2>1, <2>2
  <2>3. CASE image.size # 0
    <3>1. PICK k \in Signed : k - 1 + image.size <= Len(temp)
      BY <2>3 DEF Loaded
    <3>2. k = StartOfData
      BY OneSigned DEF Loaded
    <3> QED
      BY <1>10, <2>1, <3>1, <3>2
  <2> QED
    BY <2>2, <2>3
<1>12. position' = Start + offset
  BY <1>2, <1>3, <1>10
<1>13. Scanned'
  <2>1. PICK p : p = Start + offset
    OBVIOUS
  <2>2. p \in Nat /\ p <= Len(temp) /\ 0 <= p /\ p = p - 0 /\ 1 .. 0 = {} /\ 0 \in 0 .. 7
    BY <1>10, <1>11, <2>1
  <2>3. position' = p /\ matched' = 0 /\ output' = output /\ Len(output) = p /\ temp' = temp
    BY <1>1, <1>2, <1>3, <1>12, <2>1
  <2> QED
    BY <1>1, <1>2, <1>3, <2>2, <2>3 DEF Scanned
<1>14. Filling(s)'
  <2>1. \A k \in DOMAIN output : k <= Start \/ k > Start + offset => output[k] = temp[k]
    <3> SUFFICES ASSUME NEW k \in DOMAIN output, k <= Start \/ k > Start + offset PROVE output[k] = temp[k]
      OBVIOUS
    <3>1. k \in 1 .. Start + offset
      BY <1>2, InSeq
    <3>2. k \in 1 .. Start
      BY <1>10, <3>1
    <3> QED
      BY <1>2, <3>2
  <2>2. Copied(s.offset)'
    BY <1>1, <1>3, <1>8, <2>1 DEF Copied
  <2>3. Len(output') >= Start' + s.offset
    BY <1>1, <1>2, <1>3, <1>8, <1>10
  <2>4. PICK t, R : t = nodes /\ R = Reached(Shape(t))
    OBVIOUS
  <2>5. DataOf(t, R)
    <3>1. CASE nodes = <<>>
      <4>1. R = {}
        <5>1. R \subseteq DOMAIN t /\ DOMAIN t = {}
          BY <2>4, <3>1 DEF Reached, Shape
        <5> QED
          BY <5>1
      <4> QED
        BY <4>1 DEF DataOf
    <3>2. CASE nodes # <<>>
      <4>1. PICK V : WalkedTo(V) /\ DataOf(nodes, V)
        BY <1>2, <3>2
      <4>2. V = Reached(Shape(nodes))
        BY <1>3, <1>10, <3>2, <4>1, WalkEnds
      <4> QED
        BY <2>4, <4>1, <4>2
    <3> QED
      BY <3>1, <3>2
  <2>6. DataOf(t, R)'
    <3>1. Extends(output')
      BY <1>2, <1>3, CopiesItself
    <3> QED
      BY <1>2, <1>10, <2>5, <3>1, DataStays
  <2>7. s.nodes = t
    BY <1>8, <2>4
  <2>8. DataOf(s.nodes, Reached(Shape(s.nodes)))'
    <3>1. (s.nodes)' = t /\ Reached(Shape(s.nodes))' = R
      BY <2>4, <2>7
    <3> QED
      BY <2>6, <3>1
  <2> QED
    BY <1>1, <1>2, <2>2, <2>3, <2>8 DEF Filling
<1>15. State("walks", <<>>, <<>>, s.offset)' = State("walks", <<>>, <<>>, s.offset)
  BY <1>3 DEF State
<1>16. GoesOn(r, m)'
  BY <1>3, <1>4, <1>9, <1>13, <1>14, <1>15 DEF GoesOn
<1> QED
  BY <1>3, <1>16 DEF Passing

LEMMA PassOver ==
    ASSUME RccTypeOK, Fits, Loaded, NEW r, NEW m, Sure(r, m), Searches(r, m) \/ GoesOn(r, m),
           Still, EndOfTemp, stage' # "failed"
    PROVE  Passing(r, m)'
<1>1. /\ foundSignature /\ stage' = "written" /\ position >= Len(temp) /\ output' = output
  BY DEF EndOfTemp, passVars
<1>2. GoesOn(r, m)
  BY <1>1 DEF Searches
<1>3. PICK s, p, q, l : s = r[m] /\ p = position /\ q = matched /\ l = Len(temp)
  OBVIOUS
<1>4. /\ output \in Seq(Chars) /\ q \in 0 .. 7 /\ p \in Nat /\ q <= p /\ p <= l /\ p >= l
      /\ Len(output) = p - q /\ \A j \in 1 .. q : temp[p - q + j] = Signature[j]
      /\ Filling(s) /\ s.offset \in Nat
  BY <1>1, <1>2, <1>3 DEF GoesOn, Scanned, Sure, Reserved
<1>5. temp \in Seq(Range(temp)) /\ l \in Nat
  BY <1>3 DEF Loaded
<1>6. p = l
  BY ONLY <1>4, <1>5
<1>7. q = 0
  <2> SUFFICES ASSUME q # 0 PROVE FALSE
    OBVIOUS
  <2>1. q \in 1 .. 7 /\ q <= l /\ l - q \in Nat /\ (l - q) + q = l
    <3>1. q # 0
      OBVIOUS
    <3> QED
      BY ONLY <1>4, <1>5, <1>6, <3>1
  <2>2. PICK g, h, n : g = Signature /\ h = SubSeq(g, 1, q) /\ n = l - q
    OBVIOUS
  <2>3. PICK S : S = Range(temp) \cup Range(g)
    OBVIOUS
  <2>4. temp \in Seq(S) /\ g \in Seq(S) /\ Len(g) = 8
    <3>1. g \in Seq(Range(g)) /\ Len(g) = 8
      BY <2>2, SignatureIs
    <3>2. \A A : A \subseteq S => Seq(A) \subseteq Seq(S)
      OBVIOUS
    <3> QED
      BY <1>5, <2>3, <3>1, <3>2
  <2>5. h \in Seq(S) /\ Len(h) = q /\ \A i \in 1 .. q : h[i] = g[i]
    <3>1. q \in 0 .. Len(g)
      BY <2>1, <2>4
    <3> QED
      BY <2>2, <2>4, <3>1, FirstPart
  <2>6. DOMAIN h = 1 .. q
    BY <2>5, InSeq
  <2>7. HoldsAt(temp, n, h)
    <3>1. n + Len(h) <= Len(temp)
      BY <1>3, <2>1, <2>2, <2>5
    <3>2. \A i \in 1 .. q : temp[n + i] = h[i]
      BY <1>4, <1>6, <2>2, <2>5
    <3> QED
      BY <2>6, <3>1, <3>2 DEF HoldsAt
  <2>8. SubSeq(temp, n + 1, n + Len(h)) = h
    BY <2>1, <2>2, <2>4, <2>5, <2>7, HoldsPart
  <2>9. SubSeq(temp, l - q + 1, l) = SubSeq(Signature, 1, q)
    BY <2>1, <2>2, <2>5, <2>8
  <2>10. EndsWithPart(temp)
    BY <1>3, <2>1, <2>9 DEF EndsWithPart
  <2> QED
    BY <2>10 DEF Fits, OutOfStep
<1>8. Len(output) = Len(temp)
  BY <1>3, <1>4, <1>5, <1>6, <1>7
<1>9. Filling(s)'
  <2>1. Start \in Nat
    BY <1>4, OneSigned DEF Filling, Loaded
  <2>2. Copies(output')
    BY <1>1, <1>4, CopiesItself
  <2> QED
    BY <1>4, <2>1, <2>2, FillsOn
<1>10. Ready(r, m)'
  BY <1>1, <1>3, <1>4, <1>8, <1>9, StillIs DEF Ready, Still
<1> QED
  BY <1>1, <1>10 DEF Passing

LEMMA PassStep ==
    ASSUME RccTypeOK, WalkInv, FilesInv, FirstInv, PassInv, [RccNext]_rccVars
    PROVE  PassInv'
<1>1. CASE SecondPass
  BY <1>1, SecondStarts
<1>2. CASE UNCHANGED rccVars
  <2>1. Still /\ UNCHANGED <<stage, input, at, tags, resource, entry, iterator, nodes>>
        /\ UNCHANGED <<pending, todo, offset, position, matched, foundSignature, output>>
    BY <1>2 DEF rccVars, processVars, readVars, passVars, Still
  <2> SUFFICES ASSUME Fits' PROVE Loaded' /\ \E r, m : Sure(r, m)' /\ Passing(r, m)'
    BY <2>1 DEF PassInv, Still
  <2>2. PICK r, m : Sure(r, m) /\ Passing(r, m) /\ Fits /\ Loaded
    BY <2>1, StillIs DEF PassInv
  <2>3. Sure(r, m)' /\ Loaded'
    BY <2>1, <2>2, StillIs
  <2>4. /\ temp' = temp /\ command' = command /\ Chars' = Chars /\ Start' = Start
        /\ StartOfData' = StartOfData /\ Signed' = Signed
    BY <2>1, StillIs DEF Still
  <2>5. Reader' = Reader /\ Walker' = Walker
    BY <2>1 DEF Reader, Walker, State
  <2>6. ASSUME NEW s, Filling(s) PROVE Filling(s)'
    <3>1. DataOf(s.nodes, Reached(Shape(s.nodes))) => DataOf(s.nodes, Reached(Shape(s.nodes)))'
      BY <2>1, <2>4 DEF DataOf, DataAt, HoldsAt
    <3> QED
      BY <2>1, <2>4, <2>6, <3>1 DEF Filling, Copied
  <2>7. CASE stage = "interpretResourceFile"
    <3>1. Begins(r, m)'
      BY <2>1, <2>2, <2>5, <2>7 DEF Passing, Begins, IsAt
    <3> QED
      BY <2>1, <2>3, <2>7, <3>1 DEF Passing
  <2>8. CASE stage = "scan"
    <3>1. Scanned'
      BY <2>1, <2>2, <2>4, <2>8 DEF Passing, Searches, GoesOn, Scanned
    <3>2. Searches(r, m) => Searches(r, m)'
      BY <2>1, <2>4, <2>5, <3>1 DEF Searches, IsAt
    <3>3. GoesOn(r, m) => GoesOn(r, m)'
      <4>1. State("walks", <<>>, <<>>, r[m].offset)' = State("walks", <<>>, <<>>, r[m].offset)
        BY <2>1 DEF State
      <4> QED
        BY <2>1, <2>6, <3>1, <4>1 DEF GoesOn
    <3> QED
      BY <2>1, <2>2, <2>3, <2>8, <3>2, <3>3 DEF Passing
  <2>9. CASE stage = "writeDataBlobs"
    <3>1. Writes(r, m)
      BY <2>2, <2>9 DEF Passing
    <3>2. (nodes # <<>> => \E V : WalkedTo(V) /\ DataOf(nodes, V))'
      BY <2>1, <2>4, <3>1 DEF Writes, WalkedTo, DataOf, DataAt, HoldsAt
    <3>3. Writes(r, m)'
      BY <2>1, <2>4, <2>5, <3>1, <3>2 DEF Writes, IsAt
    <3> QED
      BY <2>1, <2>3, <2>9, <3>3 DEF Passing
  <2>10. CASE stage = "written"
    <3>1. Ready(r, m)'
      BY <2>1, <2>2, <2>4, <2>6, <2>10 DEF Passing, Ready
    <3> QED
      BY <2>1, <2>3, <2>10, <3>1 DEF Passing
  <2>11. CASE stage \notin {"interpretResourceFile", "scan", "writeDataBlobs", "written"}
    BY <2>1, <2>3, <2>11 DEF Passing
  <2> QED
    BY <2>7, <2>8, <2>9, <2>10, <2>11
<1>3. CASE RccSteps
  <2>1. CASE command.format # "Pass2"
    <3>1. command' = command
      BY <1>3, TagsTyped, TextTyped, FoundTyped, DocumentTyped, OutputTyped, DescendTyped, BlobTyped,
         UntouchedTyped, FailedTyped, NameTyped, EntryTyped, EndTyped, ScanTyped DEF RccSteps
    <3> QED
      BY <2>1, <3>1 DEF PassInv, Fits
  <2>2. CASE command.format = "Pass2" /\ command.list
    BY <2>2 DEF PassInv
  <2>3. CASE command.format = "Pass2" /\ ~command.list
    <3>1. /\ Still
          /\ \/ Reads \/ ParseError \/ Output \/ (stage = "writeDataBlobs" /\ DataWalks)
             \/ OpenReadFailed \/ EndSecondData \/ ScanByte \/ EndOfTemp
      BY <1>3, <2>3, SecondStill
    <3> SUFFICES ASSUME Fits' PROVE Loaded' /\ \E r, m : Sure(r, m)' /\ Passing(r, m)'
      BY <2>3, <3>1 DEF PassInv, Still
    <3>2. PICK r, m : Sure(r, m) /\ Passing(r, m) /\ Fits /\ Loaded
      BY <3>1, StillIs DEF PassInv
    <3>3. Sure(r, m)' /\ Loaded'
      BY <3>1, <3>2, StillIs
    <3>4. CASE stage' = "failed"
      BY <3>3, <3>4 DEF Passing
    <3>5. CASE stage' # "failed"
      <4>1. CASE Reads
        BY <3>1, <3>2, <3>3, <3>5, <4>1, PassReads
      <4>2. CASE ParseError
        BY <2>3, <3>5, <4>2 DEF ParseError
      <4>3. CASE Output
        BY <3>1, <3>2, <3>3, <4>3, PassOutput
      <4>4. CASE stage = "writeDataBlobs" /\ DataWalks
        <5>1. Writes(r, m)
          BY <3>2, <4>4 DEF Passing
        <5> QED
          BY <3>1, <3>2, <3>3, <4>4, <5>1, PassWalks
      <4>5. CASE OpenReadFailed
        BY <3>2, <4>5 DEF OpenReadFailed, Fits, OutOfStep
      <4>6. CASE EndSecondData
        <5>1. Writes(r, m)
          BY <3>2, <4>6 DEF Passing, EndSecondData, SecondData
        <5> QED
          BY <3>1, <3>2, <3>3, <4>6, <5>1, PassEnds
      <4>7. CASE ScanByte \/ EndOfTemp
        <5>1. Searches(r, m) \/ GoesOn(r, m)
          BY <3>2, <4>7 DEF Passing, ScanByte, EndOfTemp
        <5> QED
          BY <3>1, <3>2, <3>3, <3>5, <4>7, <5>1, PassSearch, PassGoesOn, PassOver
      <4> QED
        BY <3>1, <4>1, <4>2, <4>3, <4>4, <4>5, <4>6, <4>7
    <3> QED
      BY <3>4, <3>5
  <2> QED
    BY <2>1, <2>2, <2>3
<1> QED
  BY <1>1, <1>2, <1>3 DEF RccNext

(***************************************************************************)
(* Once the temporary file is at its end the output holds every file where *)
(* the first process's structure points, and else what was compiled.       *)
(***************************************************************************)
LEMMA EndFits ==
    ASSUME RccTypeOK, PassInv
    PROVE  SecondPassFits
<1> SUFFICES ASSUME stage = "written", command.format = "Pass2", ~OutOfStep
             PROVE  /\ (\A doc \in Range(command.inputs) : InOnePiece(doc))
                          => \A a \in Wanted : \E b \in Twins(a) : FoundIn(b, output, Start)
                    /\ SubSeq(output, 1, Start) = SubSeq(temp, 1, Start)
                    /\ SubSeq(output, Start + image.size + 1, Len(output))
                          = SubSeq(temp, Start + image.size + 1, Len(temp))
  BY DEF SecondPassFits, Start
<1>1. PICK r, m : Loaded /\ Sure(r, m) /\ Ready(r, m)
  BY DEF PassInv, Passing, Fits
<1>2. PICK s : s = r[m]
  OBVIOUS
<1>3. /\ output \in Seq(Chars) /\ Len(output) = Len(temp) /\ Reserved(s) /\ Pointed(s)
      /\ StartOfData \in Signed /\ Copied(s.offset) /\ DataOf(s.nodes, Reached(Shape(s.nodes)))
      /\ temp \in Seq(Range(temp))
  BY <1>1, <1>2 DEF Ready, Sure, Filling, Loaded
<1>4. PICK st, t, z, l : st = Start /\ t = s.offset /\ z = image.size /\ l = Len(temp)
  OBVIOUS
<1>5. /\ st \in Nat /\ t \in Nat /\ z \in Nat /\ l \in Nat /\ t <= z /\ st + 7 < l
      /\ Len(output) = l
      /\ \A k \in 1 .. l : k <= st \/ k > st + t => output[k] = temp[k]
  <2>1. st \in Nat /\ StartOfData + 7 <= l
    BY <1>3, <1>4, OneSigned DEF Fits
  <2>2. st + 7 < l
    <3>1. StartOfData \in Nat
      BY <1>3 DEF Signed
    <3> QED
      BY <1>3, <1>4, <2>1, <3>1 DEF Start
  <2>3. t \in Nat /\ z \in Nat /\ t <= z
    BY <1>3, <1>4 DEF Reserved
  <2>4. l \in Nat /\ Len(output) = l /\ DOMAIN output = 1 .. l
    BY <1>3, <1>4, InSeq
  <2> QED
    BY <1>3, <1>4, <2>1, <2>2, <2>3, <2>4 DEF Copied
<1>6. ASSUME NEW i \in Nat \ {0}, NEW j \in Nat, j <= l,
             \A k \in i .. j : output[k] = temp[k]
      PROVE  SubSeq(output, i, j) = SubSeq(temp, i, j)
  <2>1. PICK T : T = Chars \cup Range(temp)
    OBVIOUS
  <2>2. output \in Seq(T) /\ temp \in Seq(T)
    <3>1. \A A : A \subseteq T => Seq(A) \subseteq Seq(T)
      OBVIOUS
    <3> QED
      BY <1>3, <2>1, <3>1
  <2>3. PICK x, y : x = SubSeq(output, i, j) /\ y = SubSeq(temp, i, j)
    OBVIOUS
  <2>4. /\ x \in Seq(T) /\ y \in Seq(T) /\ Len(x) = (IF i <= j THEN j - i + 1 ELSE 0) /\ Len(y) = Len(x)
        /\ \A k \in 1 .. Len(x) : x[k] = output[i + k - 1] /\ y[k] = temp[i + k - 1]
    <3>1. Len(temp) = l /\ l \in Nat
      BY <1>4, <1>5
    <3>2. Len(output) = l
      BY <1>5
    <3>3. ASSUME NEW w \in Seq(T), Len(w) = l
          PROVE  /\ SubSeq(w, i, j) \in Seq(T) /\ Len(SubSeq(w, i, j)) = (IF i <= j THEN j - i + 1 ELSE 0)
                 /\ \A k \in 1 .. Len(SubSeq(w, i, j)) : SubSeq(w, i, j)[k] = w[i + k - 1]
      <4>1. i \in Int /\ j \in Int /\ 1 <= i /\ j <= Len(w)
        BY <1>6, <3>1, <3>3
      <4>2. /\ SubSeq(w, i, j) \in Seq(T) /\ Len(SubSeq(w, i, j)) = (IF i <= j THEN j - i + 1 ELSE 0)
            /\ \A k \in 1 .. (IF i <= j THEN j - i + 1 ELSE 0) : SubSeq(w, i, j)[k] = w[i + k - 1]
        BY <3>3, <4>1
      <4> QED
        BY <4>2
    <3>4. /\ x \in Seq(T) /\ Len(x) = (IF i <= j THEN j - i + 1 ELSE 0)
          /\ \A k \in 1 .. Len(x) : x[k] = output[i + k - 1]
      BY <2>2, <2>3, <3>2, <3>3
    <3>5. /\ y \in Seq(T) /\ Len(y) = (IF i <= j THEN j - i + 1 ELSE 0)
          /\ \A k \in 1 .. Len(y) : y[k] = temp[i + k - 1]
      BY <2>2, <2>3, <3>1, <3>3
    <3> QED
      BY <3>4, <3>5
  <2>5. \A k \in 1 .. Len(x) : x[k] = y[k]
    <3> SUFFICES ASSUME NEW k \in 1 .. Len(x) PROVE x[k] = y[k]
      OBVIOUS
    <3>1. i + k - 1 \in i .. j
      BY <1>6, <2>4
    <3> QED
      BY <1>6, <2>4, <3>1
  <2>6. x = y
    <3>1. x = [k \in 1 .. Len(x) |-> x[k]] /\ y = [k \in 1 .. Len(y) |-> y[k]]
      BY <2>4
    <3> QED
      BY <2>4, <2>5, <3>1
  <2> QED
    BY <2>3, <2>6
<1>7. SubSeq(output, 1, st) = SubSeq(temp, 1, st)
  <2>1. 1 \in Nat \ {0} /\ st <= l /\ \A k \in 1 .. st : k \in 1 .. l /\ k <= st
    BY ONLY <1>5
  <2> QED
    BY <1>5, <1>6, <2>1
<1>8. SubSeq(output, st + z + 1, l) = SubSeq(temp, st + z + 1, l)
  <2>1. PICK i : i = st + z + 1
    OBVIOUS
  <2>2. i \in Nat \ {0} /\ l <= l /\ \A k \in i .. l : k \in 1 .. l /\ k > st + t
    BY ONLY <1>5, <2>1
  <2>3. SubSeq(output, i, l) = SubSeq(temp, i, l)
    BY <1>5, <1>6, <2>2
  <2> QED
    BY <2>1, <2>3
<1>9. ASSUME \A doc \in Range(command.inputs) : InOnePiece(doc), NEW a \in Wanted
      PROVE  \E b \in Twins(a) : FoundIn(b, output, Start)
  <2>1. PICK n : n = FindNode(a.path, a.locale)
    OBVIOUS
  <2>2. n # 0 /\ \E x \in Twins(a) : \E c \in Reached(Shape(s.nodes)) :
                    /\ ~s.nodes[c].directory /\ s.nodes[c].file = x.file
                    /\ image.structure[n].data = s.nodes[c].dataOffset
                    /\ image.structure[n].compressed = s.nodes[c].compressed
    BY <1>3, <1>9, <2>1 DEF Pointed
  <2>3. PICK x, c : /\ x \in Twins(a) /\ c \in Reached(Shape(s.nodes))
                    /\ ~s.nodes[c].directory /\ s.nodes[c].file = x.file
                    /\ image.structure[n].data = s.nodes[c].dataOffset
                    /\ image.structure[n].compressed = s.nodes[c].compressed
    BY <2>2
  <2>4. PICK b, d, f : /\ b = Blob(x.file, image.structure[n].compressed)
                       /\ d = image.structure[n].data /\ f = st + d
    OBVIOUS
  <2>5. /\ x.file \in DOMAIN Disk /\ s.nodes[c].compressed \in BOOLEAN /\ d \in Nat /\ HoldsAt(output, f, b)
    BY <1>3, <1>4, <2>3, <2>4 DEF DataOf, DataAt
  <2>6. b \in Seq(Chars) /\ f \in Nat
    <3>1. b \in Seq(Bytes)
      BY <2>3, <2>4, <2>5, BlobIs
    <3>2. Bytes \subseteq Chars
      BY DEF Chars
    <3>3. \A A : A \subseteq Chars => Seq(A) \subseteq Seq(Chars)
      OBVIOUS
    <3> QED
      BY <1>5, <2>4, <2>5, <3>1, <3>2, <3>3
  <2>7. SubSeq(output, f + 1, f + Len(b)) = b
    BY <1>3, <2>5, <2>6, HoldsPart
  <2>8. FindNode(x.path, x.locale) = n
    BY <2>1, <2>3 DEF Twins
  <2>9. FoundIn(x, output, Start)
    BY <1>4, <2>2, <2>4, <2>7, <2>8 DEF FoundIn
  <2> QED
    BY <2>3, <2>9
<1> QED
  BY <1>3, <1>4, <1>5, <1>7, <1>8, <1>9

(***************************************************************************)
(* Whatever documents, disk, hashes and object files: once rbrcc --pass 2  *)
(* is at the end of the temporary file (rcc.cpp:733-763), the program      *)
(* holds every file (of several for one path and locale, one) where the    *)
(* structure written by the first process points, and nothing else has     *)
(* moved; excepted is what OutOfStep says.                                 *)
(* Two processes have to agree, on what they read, in which order they     *)
(* write it and how large it is, over an object file neither wrote.        *)
(***************************************************************************)
THEOREM SecondPassFitsHolds == RccSpec => []SecondPassFits
<1>1. RccInit => RccTypeOK /\ WalkInv /\ FilesInv /\ FirstInv /\ PassInv
  <2>1. RccInit => PassInv
    <3>1. RccInit => command.format # "Pass2"
      BY CommandAssumption DEF RccInit
    <3> QED
      BY <3>1 DEF PassInv, Fits
  <2>2. RccInit => RccTypeOK /\ WalkInv /\ FilesInv
    BY InitTyped, InitReading DEF RccInit, WalkInv, FilesInv
  <2> QED
    BY <2>1, <2>2, FirstInit
<1>2. RccTypeOK /\ WalkInv /\ FilesInv /\ FirstInv /\ PassInv /\ [RccNext]_rccVars
         => (RccTypeOK /\ WalkInv /\ FilesInv /\ FirstInv /\ PassInv)'
  BY RccTypeStep, WalkStep, FilesStep, FirstStep, PassStep
<1>3. RccTypeOK /\ PassInv => SecondPassFits
  BY EndFits
<1> QED
  BY <1>1, <1>2, <1>3, PTL DEF RccSpec
=============================================================================
