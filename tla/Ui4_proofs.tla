----------------------------- MODULE Ui4_proofs -----------------------------
(***************************************************************************)
(* Proofs about the reading of a form, for any documents and any tables of *)
(* classes: who owns the objects that read() makes, on the error paths and *)
(* in the destructors too.                                                 *)
(***************************************************************************)
EXTENDS Ui4, FiniteSetTheorems, TLAPS

(* An object: a record with a sequence of owned objects for every member   *)
(* of its class that holds objects, none of them twice.                    *)
IsDom(o) ==
    /\ o = [class |-> o.class, attributes |-> o.attributes, objects |-> o.objects,
            texts |-> o.texts, text |-> o.text]
    /\ o.objects \in [ObjectTags(o.class) -> Seq(Nat)]
    /\ \A t, u \in ObjectTags(o.class) : \A i \in DOMAIN o.objects[t], j \in DOMAIN o.objects[u] :
          o.objects[t][i] = o.objects[u][j] => t = u /\ i = j

HeapOK ==
    /\ news \in Nat
    /\ Live \subseteq 1 .. news
    /\ heap = [n \in Live |-> heap[n]]
    /\ \A n \in Live : IsDom(heap[n])

(* The running calls: each but the last reads an object, as the first      *)
(* does, and the object a call makes is for a member of its caller's.      *)
IsCall(r) == r = [node |-> r.node, tag |-> r.tag, chars |-> r.chars]
StackOK ==
    /\ reading \in Seq({reading[i] : i \in DOMAIN reading})
    /\ \A i \in 1 .. Len(reading) : IsCall(reading[i])
    /\ \A i \in 1 .. Len(reading) : i = 1 \/ i < Len(reading) => reading[i].node # NULL
    /\ \A i \in 2 .. Len(reading) :
          reading[i].node # NULL => reading[i].tag \in ObjectTags(heap[reading[i - 1].node].class)
    /\ reading # <<>> => ui = NULL
    /\ phase = "accepted" => ui # NULL

(* Who holds the objects, each in one place.                               *)
Owned == UNION {Members(heap[n]) : n \in Live}
BeingRead == {reading[i].node : i \in DOMAIN reading} \ {NULL}
TheForm == {ui} \ {NULL}
HeldOnce ==
    /\ Live = Owned \cup BeingRead \cup TheForm \cup doomed
    /\ \A n, m \in Live : n # m => Members(heap[n]) \cap Members(heap[m]) = {}
    /\ \A i, j \in 1 .. Len(reading) : reading[i].node = reading[j].node /\ reading[i].node # NULL => i = j
    /\ Owned \cap BeingRead = {}
    /\ (Owned \cup BeingRead) \cap TheForm = {}
    /\ (Owned \cup BeingRead \cup TheForm) \cap doomed = {}

ReaderInv == HeapOK /\ StackOK /\ HeldOnce
----------------------------------------------------------------------------
LEMMA MembersAre ==
    ASSUME NEW o, IsDom(o)
    PROVE  /\ \A x : x \in Members(o) <=>
                 \E t \in ObjectTags(o.class) : \E i \in DOMAIN o.objects[t] : x = o.objects[t][i]
           /\ Members(o) \subseteq Nat
<1>1. DOMAIN o.objects = ObjectTags(o.class)
  BY DEF IsDom
<1>2. \A t \in ObjectTags(o.class) : o.objects[t] \in Seq(Nat)
  BY DEF IsDom
<1>3. \A x : x \in Members(o) <=>
                 \E t \in ObjectTags(o.class) : \E i \in DOMAIN o.objects[t] : x = o.objects[t][i]
  BY <1>1 DEF Members
<1>4. \A t \in ObjectTags(o.class) : \A i \in DOMAIN o.objects[t] : o.objects[t][i] \in Nat
  BY <1>2
<1> QED
  BY <1>3, <1>4

(* The constructor owns nothing.                                           *)
LEMMA NewDom ==
    ASSUME NEW class, NEW attributes
    PROVE  IsDom(New(class, attributes)) /\ Members(New(class, attributes)) = {}
<1> DEFINE o == New(class, attributes)
<1>1. /\ o.class = class /\ o.objects = [t \in ObjectTags(class) |-> <<>>]
      /\ o = [class |-> o.class, attributes |-> o.attributes, objects |-> o.objects,
              texts |-> o.texts, text |-> o.text]
  BY DEF New
<1> HIDE DEF o
<1>2. \A t \in ObjectTags(class) : o.objects[t] = <<>>
  BY <1>1
<1>3. o.objects \in [ObjectTags(class) -> Seq(Nat)]
  BY <1>1
<1>4. IsDom(o)
  BY <1>1, <1>2, <1>3 DEF IsDom
<1>5. Members(o) = {}
  BY <1>1, <1>2, <1>4, MembersAre
<1> QED
  BY <1>4, <1>5 DEF o

(* A setter drops values and adds none.                                    *)
LEMMA ClearedDom ==
    ASSUME NEW n, IsDom(heap[n]), NEW tag
    PROVE  /\ IsDom(Cleared(n, tag)) /\ Cleared(n, tag).class = heap[n].class
           /\ Members(Cleared(n, tag)) \subseteq Members(heap[n])
<1> DEFINE h == heap[n]
           drops(t) == Class(n).choice \/ (t = tag /\ ~Class(n).children[tag].list)
           o == Cleared(n, tag)
<1>0. /\ h = [class |-> h.class, attributes |-> h.attributes, objects |-> h.objects,
              texts |-> h.texts, text |-> h.text]
      /\ h.objects \in [ObjectTags(h.class) -> Seq(Nat)]
  BY DEF IsDom
<1>1. o = [class |-> h.class, attributes |-> h.attributes,
           objects |-> [t \in DOMAIN h.objects |-> IF drops(t) THEN <<>> ELSE h.objects[t]],
           texts |-> [t \in DOMAIN h.texts |-> IF drops(t) THEN <<>> ELSE h.texts[t]],
           text |-> h.text]
  <2> DEFINE X == [t \in DOMAIN h.objects |-> IF drops(t) THEN <<>> ELSE h.objects[t]]
             Y == [t \in DOMAIN h.texts |-> IF drops(t) THEN <<>> ELSE h.texts[t]]
  <2>1. o = [h EXCEPT !.objects = X, !.texts = Y]
    BY DEF Cleared
  <2> HIDE DEF X, Y, o, drops
  <2>2. o = [class |-> h.class, attributes |-> h.attributes, objects |-> X, texts |-> Y,
             text |-> h.text]
    <3> HIDE DEF h
    <3> QED
      BY <1>0, <2>1
  <2> QED
    BY <2>2 DEF X, Y
<1> HIDE DEF o, drops
<1>2. /\ o.class = h.class /\ o = [class |-> o.class, attributes |-> o.attributes,
         objects |-> o.objects, texts |-> o.texts, text |-> o.text]
      /\ o.objects = [t \in ObjectTags(h.class) |-> IF drops(t) THEN <<>> ELSE h.objects[t]]
  BY <1>0, <1>1
<1> HIDE DEF h
<1>3. \A t \in ObjectTags(h.class) : o.objects[t] = <<>> \/ o.objects[t] = h.objects[t]
  BY <1>2
<1>4. o.objects \in [ObjectTags(h.class) -> Seq(Nat)]
  BY <1>0, <1>2
<1>5. \A t \in ObjectTags(h.class) : \A i \in DOMAIN o.objects[t] : o.objects[t] = h.objects[t]
  BY <1>3
<1>6. IsDom(o)
  BY <1>2, <1>4, <1>5 DEF IsDom, h
<1>7. Members(o) \subseteq Members(h)
  BY <1>2, <1>5, <1>6, MembersAre DEF h
<1> QED
  BY <1>2, <1>6, <1>7 DEF o, h

(* A setter or list takes the object read.                                 *)
GivenTo(o, tag, n) == [o EXCEPT !.objects[tag] = Append(@, n)]
LEMMA GivenDom ==
    ASSUME NEW o, IsDom(o), NEW tag \in ObjectTags(o.class), NEW n \in Nat, n \notin Members(o)
    PROVE  /\ IsDom(GivenTo(o, tag, n)) /\ GivenTo(o, tag, n).class = o.class
           /\ Members(GivenTo(o, tag, n)) = Members(o) \cup {n}
<1> SUFFICES ASSUME NEW p, p = GivenTo(o, tag, n)
             PROVE  IsDom(p) /\ p.class = o.class /\ Members(p) = Members(o) \cup {n}
  OBVIOUS
<1>0. /\ o = [class |-> o.class, attributes |-> o.attributes, objects |-> o.objects,
              texts |-> o.texts, text |-> o.text]
      /\ o.objects \in [ObjectTags(o.class) -> Seq(Nat)]
  BY DEF IsDom
<1> DEFINE s == o.objects[tag]
<1>1. p = [class |-> o.class, attributes |-> o.attributes,
           objects |-> [o.objects EXCEPT ![tag] = Append(s, n)],
           texts |-> o.texts, text |-> o.text]
  <2> DEFINE owned == [o.objects EXCEPT ![tag] = Append(s, n)]
  <2>1. p = [o EXCEPT !.objects = owned]
    BY DEF GivenTo
  <2> HIDE DEF owned
  <2>2. p = [class |-> o.class, attributes |-> o.attributes, objects |-> owned,
             texts |-> o.texts, text |-> o.text]
    BY <1>0, <2>1
  <2> QED
    BY <2>2 DEF owned
<1>2. /\ p.class = o.class /\ p = [class |-> p.class, attributes |-> p.attributes,
         objects |-> p.objects, texts |-> p.texts, text |-> p.text]
      /\ p.objects = [o.objects EXCEPT ![tag] = Append(s, n)]
  BY <1>1
<1>3. s \in Seq(Nat)
  BY <1>0
<1> HIDE DEF s
<1>4. /\ Append(s, n) \in Seq(Nat)
      /\ DOMAIN s = 1 .. Len(s) /\ Len(s) \in Nat
      /\ DOMAIN Append(s, n) = 1 .. Len(s) + 1
      /\ Append(s, n)[Len(s) + 1] = n
      /\ \A i \in 1 .. Len(s) : Append(s, n)[i] = s[i]
  BY <1>3
<1>5. /\ p.objects \in [ObjectTags(o.class) -> Seq(Nat)]
      /\ p.objects[tag] = Append(s, n)
      /\ \A t \in ObjectTags(o.class) : t # tag => p.objects[t] = o.objects[t]
  BY <1>0, <1>2, <1>4
<1>6. \A t \in ObjectTags(o.class) : \A i \in DOMAIN p.objects[t] :
         \/ t = tag /\ i = Len(s) + 1 /\ p.objects[t][i] = n
         \/ i \in DOMAIN o.objects[t] /\ p.objects[t][i] = o.objects[t][i]
  <2> SUFFICES ASSUME NEW t \in ObjectTags(o.class), NEW i \in DOMAIN p.objects[t]
               PROVE  \/ t = tag /\ i = Len(s) + 1 /\ p.objects[t][i] = n
                      \/ i \in DOMAIN o.objects[t] /\ p.objects[t][i] = o.objects[t][i]
    OBVIOUS
  <2>1. CASE t # tag
    BY <1>5, <2>1
  <2>2. CASE t = tag
    <3>1. i \in 1 .. Len(s) + 1 /\ p.objects[t][i] = Append(s, n)[i]
      BY <1>4, <1>5, <2>2
    <3>2. CASE i = Len(s) + 1
      BY <1>4, <2>2, <3>1, <3>2
    <3>3. CASE i # Len(s) + 1
      <4>1. i \in 1 .. Len(s)
        BY ONLY <1>4, <3>1, <3>3
      <4> QED
        BY <1>4, <2>2, <3>1, <4>1 DEF s
    <3> QED
      BY <3>2, <3>3
  <2> QED
    BY <2>1, <2>2
<1>7. \A t \in ObjectTags(o.class) : \A i \in DOMAIN o.objects[t] : o.objects[t][i] # n
  BY MembersAre
<1>8. IsDom(p)
  <2> SUFFICES ASSUME NEW t \in ObjectTags(o.class), NEW u \in ObjectTags(o.class),
                      NEW i \in DOMAIN p.objects[t], NEW j \in DOMAIN p.objects[u],
                      p.objects[t][i] = p.objects[u][j]
               PROVE  t = u /\ i = j
    BY <1>2, <1>5 DEF IsDom
  <2>1. /\ p.objects[t][i] = n => t = tag /\ i = Len(s) + 1
        /\ p.objects[u][j] = n => u = tag /\ j = Len(s) + 1
    BY <1>6, <1>7
  <2>2. CASE p.objects[t][i] # n
    <3>1. /\ i \in DOMAIN o.objects[t] /\ j \in DOMAIN o.objects[u]
          /\ o.objects[t][i] = o.objects[u][j]
      BY <1>6, <2>2
    <3> QED
      BY <3>1 DEF IsDom
  <2> QED
    BY <2>1, <2>2
<1>9. Members(p) = Members(o) \cup {n}
  <2>0. \A x : x \in Members(p) <=>
           \E t \in ObjectTags(o.class) : \E i \in DOMAIN p.objects[t] : x = p.objects[t][i]
    <3>1. \A x : x \in Members(p) <=>
             \E t \in ObjectTags(p.class) : \E i \in DOMAIN p.objects[t] : x = p.objects[t][i]
      BY ONLY <1>8, MembersAre
    <3>2. p.class = o.class
      BY <1>2
    <3> QED
      BY ONLY <3>1, <3>2
  <2>1. ASSUME NEW x \in Members(p), x # n PROVE x \in Members(o)
    <3>1. PICK t \in ObjectTags(o.class) : \E i \in DOMAIN p.objects[t] : x = p.objects[t][i]
      BY ONLY <2>0, x \in Members(p)
    <3>2. PICK i \in DOMAIN p.objects[t] : x = p.objects[t][i]
      BY <3>1
    <3>3. i \in DOMAIN o.objects[t] /\ x = o.objects[t][i]
      BY <1>6, <2>1, <3>2
    <3> QED
      BY <3>3, MembersAre
  <2>2. n \in Members(p)
    <3>1. Len(s) + 1 \in DOMAIN p.objects[tag] /\ p.objects[tag][Len(s) + 1] = n
      BY <1>4, <1>5
    <3> QED
      BY <2>0, <3>1
  <2>3. ASSUME NEW x \in Members(o) PROVE x \in Members(p)
    <3>1. PICK t \in ObjectTags(o.class) : \E i \in DOMAIN o.objects[t] : x = o.objects[t][i]
      BY MembersAre
    <3>2. PICK i \in DOMAIN o.objects[t] : x = o.objects[t][i]
      BY <3>1
    <3>3. i \in DOMAIN p.objects[t] /\ p.objects[t][i] = x
      <4>1. CASE t # tag
        BY <1>5, <3>2, <4>1
      <4>2. CASE t = tag
        <5>1. i \in 1 .. Len(s) /\ x = s[i]
          BY <1>4, <3>2, <4>2 DEF s
        <5>2. i \in 1 .. Len(s) + 1
          BY ONLY <1>4, <5>1
        <5> QED
          BY <1>4, <1>5, <4>2, <5>1, <5>2
      <4> QED
        BY <4>1, <4>2
    <3> QED
      BY <2>0, <3>3
  <2> QED
    BY <2>1, <2>2, <2>3
<1> QED
  BY <1>2, <1>8, <1>9

(* Text is no object's.                                                    *)
LEMMA TextDom ==
    ASSUME NEW o, IsDom(o), NEW p, NEW texts, NEW text,
           p = [o EXCEPT !.texts = texts] \/ p = [o EXCEPT !.text = text]
    PROVE  IsDom(p) /\ p.class = o.class /\ Members(p) = Members(o)
<1>1. o = [class |-> o.class, attributes |-> o.attributes, objects |-> o.objects,
           texts |-> o.texts, text |-> o.text]
  BY DEF IsDom
<1>2. /\ p.class = o.class /\ p.objects = o.objects
      /\ p = [class |-> p.class, attributes |-> p.attributes, objects |-> p.objects,
              texts |-> p.texts, text |-> p.text]
  BY <1>1
<1> QED
  BY <1>2 DEF IsDom, Members
----------------------------------------------------------------------------
LEMMA OwnSeq ==
    ASSUME NEW S, NEW s \in Seq(S)
    PROVE  s \in Seq({s[i] : i \in DOMAIN s})
<1> DEFINE R == {s[i] : i \in DOMAIN s}
<1>1. /\ Len(s) \in Nat /\ DOMAIN s = 1 .. Len(s)
      /\ s = [i \in 1 .. Len(s) |-> s[i]]
  OBVIOUS
<1>2. \A i \in 1 .. Len(s) : s[i] \in R
  BY <1>1
<1> HIDE DEF R
<1>3. s \in [1 .. Len(s) -> R]
  BY <1>1, <1>2
<1>4. s \in Seq(R)
  BY <1>1, <1>3
<1> QED
  BY <1>4 DEF R

LEMMA StackFacts ==
    ASSUME StackOK
    PROVE  /\ Len(reading) \in Nat /\ DOMAIN reading = 1 .. Len(reading)
           /\ reading = <<>> <=> Len(reading) = 0
           /\ reading # <<>> =>
                 /\ Len(Callers) = Len(reading) - 1 /\ Len(Callers) \in Nat
                 /\ Callers = <<>> <=> Len(reading) = 1
                 /\ DOMAIN Callers = 1 .. Len(reading) - 1
                 /\ \A i \in 1 .. Len(reading) - 1 : Callers[i] = reading[i]
                 /\ Callers \in Seq({reading[i] : i \in DOMAIN reading})
<1> DEFINE R == {reading[i] : i \in DOMAIN reading}
<1>1. reading \in Seq(R)
  BY DEF StackOK
<1> HIDE DEF R
<1>2. /\ Len(reading) \in Nat /\ DOMAIN reading = 1 .. Len(reading)
      /\ reading = <<>> <=> Len(reading) = 0
  BY <1>1
<1>3. ASSUME reading # <<>>
      PROVE  /\ Len(Callers) = Len(reading) - 1 /\ Len(Callers) \in Nat
             /\ Callers = <<>> <=> Len(reading) = 1
             /\ DOMAIN Callers = 1 .. Len(reading) - 1
             /\ \A i \in 1 .. Len(reading) - 1 : Callers[i] = reading[i]
             /\ Callers \in Seq(R)
  <2>1. Callers = [i \in 1 .. Len(reading) - 1 |-> reading[i]]
    BY <1>1, <1>2, <1>3 DEF Callers
  <2>2. Len(reading) - 1 \in Nat
    BY <1>2, <1>3
  <2>3. \A i \in 1 .. Len(reading) - 1 : reading[i] \in R
    BY <1>1, <1>2
  <2>4. Callers \in [1 .. Len(reading) - 1 -> R]
    BY <2>1, <2>3
  <2>5. Callers \in Seq(R) /\ Len(Callers) = Len(reading) - 1
    BY <2>2, <2>4
  <2>6. DOMAIN Callers = 1 .. Len(reading) - 1
    BY <2>1
  <2>7. \A i \in 1 .. Len(reading) - 1 : Callers[i] = reading[i]
    BY <2>1
  <2>8. Callers = <<>> <=> Len(reading) = 1
    <3> HIDE DEF Callers
    <3> QED
      BY <1>2, <2>2, <2>5
  <2> QED
    BY <2>2, <2>5, <2>6, <2>7, <2>8
<1> QED
  BY <1>2, <1>3 DEF R

(* A call begins.                                                          *)
LEMMA CallBegins ==
    ASSUME StackOK, NEW r, reading' = Append(reading, r)
    PROVE  /\ reading' \in Seq({reading'[i] : i \in DOMAIN reading'})
           /\ Len(reading') = Len(reading) + 1
           /\ DOMAIN reading' = 1 .. Len(reading) + 1
           /\ \A i \in 1 .. Len(reading) : reading'[i] = reading[i]
           /\ reading'[Len(reading) + 1] = r
           /\ reading' # <<>>
<1> DEFINE R == {reading[i] : i \in DOMAIN reading}
<1>1. reading \in Seq(R)
  BY DEF StackOK
<1> HIDE DEF R
<1>2. reading \in Seq(R \cup {r}) /\ r \in R \cup {r}
  BY <1>1
<1>3. /\ reading' \in Seq(R \cup {r})
      /\ Len(reading') = Len(reading) + 1 /\ Len(reading) \in Nat
      /\ \A i \in 1 .. Len(reading) : reading'[i] = reading[i]
      /\ reading'[Len(reading) + 1] = r
  BY <1>2
<1>4. DOMAIN reading' = 1 .. Len(reading) + 1 /\ reading' # <<>>
  BY <1>3
<1> QED
  BY <1>3, <1>4, OwnSeq

(* Changing one object to another that owns the same.                      *)
LEMMA OneChanged ==
    ASSUME HeapOK, NEW c \in Live, NEW o, IsDom(o), heap' = [heap EXCEPT ![c] = o], news' = news
    PROVE  /\ HeapOK' /\ Live' = Live /\ heap'[c] = o
           /\ \A m \in Live : m # c => heap'[m] = heap[m]
<1>1. heap = [n \in Live |-> heap[n]]
  BY DEF HeapOK
<1>2. /\ DOMAIN heap' = DOMAIN heap /\ heap'[c] = o
      /\ \A m \in Live : m # c => heap'[m] = heap[m]
      /\ heap' = [n \in Live |-> heap'[n]]
  BY <1>1 DEF Live
<1>3. \A m \in Live : IsDom(heap'[m])
  BY <1>2 DEF HeapOK
<1> QED
  BY <1>2, <1>3 DEF HeapOK, Live

LEMMA OwnerOf ==
    ASSUME NEW x \in Owned
    PROVE  \E n \in Live : x \in Members(heap[n])
BY DEF Owned

(* new, and its read() called.                                             *)
LEMMA MakeInv ==
    ASSUME ReaderInv, NEW class, NEW tag, Make(class, tag), UNCHANGED <<ui, phase>>, ui = NULL,
           \/ reading = <<>>
           \/ Top.node # NULL /\ tag \in ObjectTags(heap[Top.node].class)
    PROVE  ReaderInv'
<1> DEFINE id == news + 1
           o == New(class, Token.attributes)
<1>1. /\ news' = id
      /\ heap' = [n \in Live \cup {id} |-> IF n = id THEN o ELSE heap[n]]
      /\ reading' = Append(reading, Read(id, tag))
      /\ doomed' = doomed
  BY DEF Make
<1>2. HeapOK /\ StackOK /\ HeldOnce
  BY DEF ReaderInv
<1>3. IsDom(o) /\ Members(o) = {}
  BY NewDom
<1>4. id \in Nat /\ id \notin Live /\ id # NULL
  BY <1>2, FormsAssumption DEF HeapOK
<1> HIDE DEF id, o
<1>5. /\ Live' = Live \cup {id} /\ heap'[id] = o
      /\ \A n \in Live : heap'[n] = heap[n]
      /\ heap' = [n \in Live' |-> heap'[n]]
  BY <1>1, <1>4 DEF Live
<1>6. HeapOK'
  <2>1. Live' \subseteq 1 .. news' /\ news' \in Nat
    BY <1>1, <1>2, <1>4, <1>5 DEF HeapOK, id
  <2>2. \A n \in Live' : IsDom(heap'[n])
    BY <1>2, <1>3, <1>5 DEF HeapOK
  <2> QED
    BY <1>5, <2>1, <2>2 DEF HeapOK
<1>7. /\ reading' \in Seq({reading'[i] : i \in DOMAIN reading'})
      /\ Len(reading') = Len(reading) + 1 /\ Len(reading) \in Nat
      /\ DOMAIN reading' = 1 .. Len(reading) + 1 /\ DOMAIN reading = 1 .. Len(reading)
      /\ \A i \in 1 .. Len(reading) : reading'[i] = reading[i]
      /\ reading'[Len(reading) + 1] = Read(id, tag)
      /\ reading = <<>> <=> Len(reading) = 0
  BY <1>1, <1>2, CallBegins, StackFacts
<1>8. Read(id, tag).node = id /\ Read(id, tag).tag = tag /\ IsCall(Read(id, tag))
  BY DEF Read, IsCall
<1>9. \A i \in 1 .. Len(reading) : reading[i].node # NULL => reading[i].node \in Live
  BY <1>2, <1>7 DEF HeldOnce, BeingRead
<1>10. StackOK'
  <2>1. \A i \in 1 .. Len(reading') : IsCall(reading'[i])
    <3> SUFFICES ASSUME NEW i \in 1 .. Len(reading') PROVE IsCall(reading'[i])
      OBVIOUS
    <3>1. CASE i = Len(reading) + 1
      BY <1>7, <1>8, <3>1
    <3>2. CASE i # Len(reading) + 1
      <4>1. i \in 1 .. Len(reading)
        BY <1>7, <3>2
      <4> QED
        BY <1>2, <1>7, <4>1 DEF StackOK
    <3> QED
      BY <3>1, <3>2
  <2>2. \A i \in 1 .. Len(reading) : reading[i].node # NULL
    BY <1>2, <1>7 DEF StackOK, Top
  <2>3. \A i \in 1 .. Len(reading') : i = 1 \/ i < Len(reading') => reading'[i].node # NULL
    BY <1>4, <1>7, <1>8, <2>2
  <2>4. ASSUME NEW i \in 2 .. Len(reading'), reading'[i].node # NULL
        PROVE  reading'[i].tag \in ObjectTags(heap'[reading'[i - 1].node].class)
    <3>1. i - 1 \in 1 .. Len(reading) /\ reading'[i - 1] = reading[i - 1]
      BY <1>7
    <3>2. heap'[reading[i - 1].node] = heap[reading[i - 1].node]
      BY <1>5, <1>9, <2>2, <3>1
    <3>3. CASE i = Len(reading) + 1
      BY <1>7, <1>8, <3>1, <3>2, <3>3 DEF Top
    <3>4. CASE i # Len(reading) + 1
      <4>1. i \in 2 .. Len(reading) /\ reading'[i] = reading[i]
        BY <1>7, <3>4
      <4>2. reading[i].tag \in ObjectTags(heap[reading[i - 1].node].class)
        BY <1>2, <2>4, <4>1 DEF StackOK
      <4> QED
        BY <3>1, <3>2, <4>1, <4>2
    <3> QED
      BY <3>3, <3>4
  <2>5. ui' = NULL /\ phase' # "accepted"
    BY <1>2 DEF StackOK
  <2> QED
    BY <1>7, <2>1, <2>3, <2>4, <2>5 DEF StackOK
<1>11. Owned' = Owned
  <2>1. Owned' \subseteq Owned
    BY <1>3, <1>5 DEF Owned
  <2>2. Owned \subseteq Owned'
    BY <1>5 DEF Owned
  <2> QED
    BY <2>1, <2>2
<1>12. BeingRead' = BeingRead \cup {id}
  <2>1. BeingRead' \subseteq BeingRead \cup {id}
    BY <1>7, <1>8 DEF BeingRead
  <2>2. BeingRead \subseteq BeingRead'
    BY <1>7 DEF BeingRead
  <2>3. id \in BeingRead'
    BY <1>4, <1>7, <1>8 DEF BeingRead
  <2> QED
    BY <2>1, <2>2, <2>3
<1>13. TheForm' = TheForm
  BY DEF TheForm
<1>14. id \notin Owned \cup BeingRead \cup TheForm \cup doomed
  BY <1>2, <1>4 DEF HeldOnce
<1>15. \A n, m \in Live' : n # m => Members(heap'[n]) \cap Members(heap'[m]) = {}
  BY <1>2, <1>3, <1>5 DEF HeldOnce
<1>16. \A i, j \in 1 .. Len(reading') :
          reading'[i].node = reading'[j].node /\ reading'[i].node # NULL => i = j
  <2>1. \A i \in 1 .. Len(reading) : reading[i].node # id
    BY <1>4, <1>9
  <2> QED
    BY <1>2, <1>7, <1>8, <2>1 DEF HeldOnce
<1>17. HeldOnce'
  <2> HIDE DEF Owned, BeingRead, TheForm, Live
  <2>1. Live' = Owned' \cup BeingRead' \cup TheForm' \cup doomed'
    BY <1>1, <1>2, <1>5, <1>11, <1>12, <1>13 DEF HeldOnce
  <2>2. /\ Owned' \cap BeingRead' = {}
        /\ (Owned' \cup BeingRead') \cap TheForm' = {}
        /\ (Owned' \cup BeingRead' \cup TheForm') \cap doomed' = {}
    BY <1>1, <1>2, <1>11, <1>12, <1>13, <1>14 DEF HeldOnce
  <2> QED
    BY <1>15, <1>16, <2>1, <2>2 DEF HeldOnce
<1> QED
  BY <1>6, <1>10, <1>17 DEF ReaderInv

(* readElementText called.                                                 *)
LEMMA ReadTextInv ==
    ASSUME ReaderInv, NEW tag, reading # <<>>, Top.node # NULL,
           reading' = Append(reading, ReadElementText(tag)),
           UNCHANGED <<heap, news, doomed, ui, phase>>
    PROVE  ReaderInv'
<1>1. HeapOK /\ StackOK /\ HeldOnce
  BY DEF ReaderInv
<1>2. /\ reading' \in Seq({reading'[i] : i \in DOMAIN reading'})
      /\ Len(reading') = Len(reading) + 1 /\ Len(reading) \in Nat /\ Len(reading) # 0
      /\ DOMAIN reading' = 1 .. Len(reading) + 1 /\ DOMAIN reading = 1 .. Len(reading)
      /\ \A i \in 1 .. Len(reading) : reading'[i] = reading[i]
      /\ reading'[Len(reading) + 1] = ReadElementText(tag)
  BY <1>1, CallBegins, StackFacts
<1>3. ReadElementText(tag).node = NULL /\ IsCall(ReadElementText(tag))
  BY DEF ReadElementText, Read, IsCall
<1>4. \A i \in 1 .. Len(reading') : i \in 1 .. Len(reading) \/ i = Len(reading) + 1
  BY <1>2
<1>5. StackOK'
  <2>1. \A i \in 1 .. Len(reading') : IsCall(reading'[i])
    BY <1>1, <1>2, <1>3, <1>4 DEF StackOK
  <2>2. \A i \in 1 .. Len(reading) : reading[i].node # NULL
    BY <1>1, <1>2 DEF StackOK, Top
  <2>3. \A i \in 1 .. Len(reading') : i = 1 \/ i < Len(reading') => reading'[i].node # NULL
    BY <1>2, <1>4, <2>2
  <2>4. ASSUME NEW i \in 2 .. Len(reading'), reading'[i].node # NULL
        PROVE  reading'[i].tag \in ObjectTags(heap'[reading'[i - 1].node].class)
    <3>1. i # Len(reading) + 1
      BY <1>2, <1>3, <2>4
    <3>2. /\ i \in 2 .. Len(reading) /\ reading'[i] = reading[i]
          /\ i - 1 \in 1 .. Len(reading) /\ reading'[i - 1] = reading[i - 1]
      BY <1>2, <3>1
    <3> QED
      BY <1>1, <2>4, <3>2 DEF StackOK
  <2>5. ui' = NULL /\ phase' # "accepted"
    BY <1>1 DEF StackOK
  <2> QED
    BY <1>2, <2>1, <2>3, <2>4, <2>5 DEF StackOK
<1>6. BeingRead' = BeingRead
  <2>1. BeingRead' \subseteq BeingRead
    BY <1>2, <1>3, <1>4 DEF BeingRead
  <2>2. BeingRead \subseteq BeingRead'
    BY <1>2 DEF BeingRead
  <2> QED
    BY <2>1, <2>2
<1>7. \A i, j \in 1 .. Len(reading') :
          reading'[i].node = reading'[j].node /\ reading'[i].node # NULL => i = j
  BY <1>1, <1>2, <1>3, <1>4 DEF HeldOnce
<1>8. HeapOK' /\ Owned' = Owned /\ TheForm' = TheForm /\ Live' = Live
  BY <1>1 DEF HeapOK, Owned, TheForm, Live
<1>9. HeldOnce'
  <2> HIDE DEF Owned, BeingRead, TheForm, Live
  <2> QED
    BY <1>1, <1>6, <1>7, <1>8 DEF HeldOnce
<1> QED
  BY <1>5, <1>8, <1>9 DEF ReaderInv

(* Characters go to the text of the object, or of the running              *)
(* readElementText.                                                        *)
LEMMA CharactersInv ==
    ASSUME ReaderInv, reading # <<>>, ReadCharacters
    PROVE  ReaderInv'
<1>1. HeapOK /\ StackOK /\ HeldOnce
  BY DEF ReaderInv
<1>2. UNCHANGED <<news, doomed, ui, phase>>
  BY DEF ReadCharacters, Take
<1>3. /\ Len(reading) \in Nat /\ Len(reading) # 0 /\ DOMAIN reading = 1 .. Len(reading)
      /\ Len(Callers) = Len(reading) - 1
      /\ DOMAIN Callers = 1 .. Len(reading) - 1
      /\ \A i \in 1 .. Len(reading) - 1 : Callers[i] = reading[i]
  BY <1>1, StackFacts
<1>4. CASE Top.node = NULL
  <2> DEFINE r == [Top EXCEPT !.chars = @ \o Token.text]
             R == {reading[i] : i \in DOMAIN reading} \cup {r}
  <2>1. reading' = Append(Callers, r) /\ heap' = heap
    BY <1>4 DEF ReadCharacters
  <2>2. IsCall(Top)
    BY <1>1, <1>3 DEF StackOK, Top
  <2>3. r.node = Top.node /\ r.tag = Top.tag /\ IsCall(r)
    <3> DEFINE chars == Top.chars \o Token.text
    <3>1. r = [Top EXCEPT !.chars = chars]
      OBVIOUS
    <3> HIDE DEF chars, r
    <3>2. r = [node |-> Top.node, tag |-> Top.tag, chars |-> chars]
      BY <2>2, <3>1 DEF IsCall
    <3> QED
      BY <3>2 DEF IsCall
  <2> HIDE DEF r
  <2>4. Callers \in Seq(R) /\ r \in R
    <3>1. Callers \in Seq({reading[i] : i \in DOMAIN reading})
      BY <1>1, StackFacts
    <3> QED
      BY <3>1
  <2> HIDE DEF R
  <2>5. /\ reading' \in Seq(R) /\ Len(reading') = Len(reading)
        /\ \A i \in 1 .. Len(reading) - 1 : reading'[i] = Callers[i]
        /\ reading'[Len(reading)] = r
    <3> DEFINE s == Callers
    <3> HIDE DEF s
    <3>1. s \in Seq(R) /\ Len(s) = Len(reading) - 1 /\ reading' = Append(s, r) /\ r \in R
      BY <1>3, <2>1, <2>4 DEF s
    <3>2. /\ reading' \in Seq(R) /\ Len(reading') = Len(s) + 1
          /\ \A i \in 1 .. Len(s) : reading'[i] = s[i]
          /\ reading'[Len(s) + 1] = r
      BY ONLY <3>1
    <3>3. Len(s) + 1 = Len(reading)
      BY <1>3, <3>1
    <3> QED
      BY <3>1, <3>2, <3>3 DEF s
  <2>6. /\ DOMAIN reading' = 1 .. Len(reading)
        /\ reading' \in Seq({reading'[i] : i \in DOMAIN reading'})
    BY <2>5, OwnSeq
  <2>7. \A i \in 1 .. Len(reading) : /\ reading'[i].node = reading[i].node
                                     /\ reading'[i].tag = reading[i].tag
                                     /\ IsCall(reading'[i])
    <3> SUFFICES ASSUME NEW i \in 1 .. Len(reading)
                 PROVE  /\ reading'[i].node = reading[i].node
                        /\ reading'[i].tag = reading[i].tag
                        /\ IsCall(reading'[i])
      OBVIOUS
    <3>1. CASE i = Len(reading)
      BY <2>3, <2>5, <3>1 DEF Top
    <3>2. CASE i # Len(reading)
      <4>0. Len(reading) \in Nat
        BY <1>3
      <4>1. i \in 1 .. Len(reading) - 1
        BY ONLY <3>2, <4>0, i \in 1 .. Len(reading)
      <4> QED
        BY <1>1, <1>3, <2>5, <4>1 DEF StackOK
    <3> QED
      BY <3>1, <3>2
  <2>8. StackOK'
    <3>1. \A i \in 2 .. Len(reading) : i \in 1 .. Len(reading) /\ i - 1 \in 1 .. Len(reading)
      BY <1>3
    <3>2. reading' # <<>> /\ ui' = NULL /\ phase' # "accepted"
      BY <1>1, <1>2, <1>3, <2>5 DEF StackOK
    <3>3. \A i \in 2 .. Len(reading') : reading'[i].node # NULL =>
             reading'[i].tag \in ObjectTags(heap'[reading'[i - 1].node].class)
      BY <1>1, <2>1, <2>5, <2>7, <3>1 DEF StackOK
    <3> QED
      BY <1>1, <2>5, <2>6, <2>7, <3>2, <3>3 DEF StackOK
  <2>9. BeingRead' = BeingRead
    <3>1. BeingRead' \subseteq BeingRead
      BY <1>3, <2>6, <2>7 DEF BeingRead
    <3>2. BeingRead \subseteq BeingRead'
      BY <1>3, <2>6, <2>7 DEF BeingRead
    <3> QED
      BY <3>1, <3>2
  <2>10. \A i, j \in 1 .. Len(reading') :
            reading'[i].node = reading'[j].node /\ reading'[i].node # NULL => i = j
    BY <1>1, <2>5, <2>7 DEF HeldOnce
  <2>11. HeapOK' /\ Owned' = Owned /\ TheForm' = TheForm /\ Live' = Live
    BY <1>1, <1>2, <2>1 DEF HeapOK, Owned, TheForm, Live
  <2>12. HeldOnce'
    <3> HIDE DEF Owned, BeingRead, TheForm, Live
    <3> QED
      BY <1>1, <1>2, <2>1, <2>9, <2>10, <2>11 DEF HeldOnce
  <2> QED
    BY <2>8, <2>11, <2>12 DEF ReaderInv
<1>5. CASE Top.node # NULL
  <2> DEFINE n == Top.node
             o == [heap[n] EXCEPT !.text = @ \o Token.text]
  <2>1. reading' = reading /\ (heap' = heap \/ heap' = [heap EXCEPT ![n] = o])
    BY <1>5 DEF ReadCharacters
  <2>2. n \in Live
    BY <1>1, <1>3, <1>5 DEF HeldOnce, BeingRead, Top
  <2>3. IsDom(heap[n])
    BY <1>1, <2>2 DEF HeapOK
  <2>4. IsDom(o) /\ o.class = heap[n].class /\ Members(o) = Members(heap[n])
    BY <2>3, TextDom
  <2> HIDE DEF o, n
  <2>5. /\ HeapOK' /\ Live' = Live
        /\ \A m \in Live : /\ heap'[m].class = heap[m].class
                           /\ Members(heap'[m]) = Members(heap[m])
    <3>1. CASE heap' = heap
      BY <1>1, <1>2, <3>1 DEF HeapOK, Live
    <3>2. CASE heap' = [heap EXCEPT ![n] = o]
      <4>1. /\ HeapOK' /\ Live' = Live /\ heap'[n] = o
            /\ \A m \in Live : m # n => heap'[m] = heap[m]
        BY <1>1, <1>2, <2>2, <2>4, <3>2, OneChanged
      <4> QED
        BY <2>4, <4>1
    <3> QED
      BY <2>1, <3>1, <3>2
  <2>6. \A i \in 1 .. Len(reading) : reading[i].node # NULL => reading[i].node \in Live
    BY <1>1, <1>3 DEF HeldOnce, BeingRead
  <2>7. StackOK'
    <3>1. ASSUME NEW i \in 2 .. Len(reading), reading[i].node # NULL
          PROVE  reading[i].tag \in ObjectTags(heap'[reading[i - 1].node].class)
      <4>1. i - 1 \in 1 .. Len(reading) /\ i - 1 < Len(reading)
        BY <1>3
      <4>2. reading[i - 1].node # NULL
        BY <1>1, <4>1 DEF StackOK
      <4>3. heap'[reading[i - 1].node].class = heap[reading[i - 1].node].class
        BY <2>5, <2>6, <4>1, <4>2
      <4> QED
        BY <1>1, <3>1, <4>3 DEF StackOK
    <3> QED
      BY <1>1, <1>2, <2>1, <3>1 DEF StackOK
  <2>8. Owned' = Owned /\ BeingRead' = BeingRead /\ TheForm' = TheForm
    <3>1. Owned' \subseteq Owned
      BY <2>5 DEF Owned
    <3>2. Owned \subseteq Owned'
      BY <2>5 DEF Owned
    <3> QED
      BY <1>2, <2>1, <3>1, <3>2 DEF BeingRead, TheForm
  <2>9. HeldOnce'
    <3> HIDE DEF Owned, BeingRead, TheForm, Live, Members
    <3> QED
      BY <1>1, <1>2, <2>1, <2>5, <2>8 DEF HeldOnce
  <2> QED
    BY <2>5, <2>7, <2>9 DEF ReaderInv
<1> QED
  BY <1>4, <1>5

(* A read() returns to its caller: what the setter replaces is to be       *)
(* deleted and the object read has its place.                              *)
LEMMA ReturnInv ==
    ASSUME ReaderInv, reading # <<>>, doomed = {}, Return
    PROVE  ReaderInv'
<1>1. HeapOK /\ StackOK /\ HeldOnce
  BY DEF ReaderInv
<1>2. news' = news /\ phase' = phase /\ reading' = Callers
  BY DEF Return
<1>3. /\ Len(reading) \in Nat /\ Len(reading) # 0 /\ DOMAIN reading = 1 .. Len(reading)
      /\ Len(reading') = Len(reading) - 1
      /\ reading' = <<>> <=> Len(reading) = 1
      /\ DOMAIN reading' = 1 .. Len(reading) - 1
      /\ \A i \in 1 .. Len(reading) - 1 : reading'[i] = reading[i]
  BY <1>1, <1>2, StackFacts
<1>11. reading' \in Seq({reading'[i] : i \in DOMAIN reading'})
  <2>1. reading' \in Seq({reading[i] : i \in DOMAIN reading})
    BY <1>1, <1>2, StackFacts
  <2> QED
    BY <2>1, OwnSeq
<1>4. /\ ui = NULL /\ phase # "accepted" /\ TheForm = {}
      /\ Top = reading[Len(reading)] /\ Len(reading) \in 1 .. Len(reading)
  BY <1>1, <1>3 DEF StackOK, TheForm, Top
<1>5. \A i \in 1 .. Len(reading) : reading[i].node # NULL => reading[i].node \in Live
  BY <1>1, <1>3 DEF HeldOnce, BeingRead
<1>6. BeingRead' = BeingRead \ {Top.node}
  <2>1. BeingRead' \subseteq BeingRead \ {Top.node}
    <3> SUFFICES ASSUME NEW i \in 1 .. Len(reading) - 1, reading[i].node # NULL
                 PROVE  reading[i].node \in BeingRead \ {Top.node}
      BY <1>3 DEF BeingRead
    <3>0. Len(reading) \in Nat
      BY <1>3
    <3>1. i \in 1 .. Len(reading) /\ i # Len(reading)
      BY ONLY <3>0, i \in 1 .. Len(reading) - 1
    <3>2. reading[i].node # reading[Len(reading)].node
      BY <1>1, <1>4, <3>1 DEF HeldOnce
    <3> QED
      BY <1>3, <1>4, <3>1, <3>2 DEF BeingRead
  <2>2. BeingRead \ {Top.node} \subseteq BeingRead'
    <3> SUFFICES ASSUME NEW i \in 1 .. Len(reading), reading[i].node # NULL,
                        reading[i].node # Top.node
                 PROVE  reading[i].node \in BeingRead'
      BY <1>3 DEF BeingRead
    <3>1. i \in 1 .. Len(reading) - 1
      BY <1>3, <1>4
    <3> QED
      BY <1>3, <3>1 DEF BeingRead
  <2> QED
    BY <2>1, <2>2
<1>7. \A i, j \in 1 .. Len(reading') :
          reading'[i].node = reading'[j].node /\ reading'[i].node # NULL => i = j
  <2>1. \A i \in 1 .. Len(reading') : i \in 1 .. Len(reading) /\ reading'[i] = reading[i]
    BY <1>3
  <2> QED
    BY <1>1, <2>1 DEF HeldOnce
<1>8. \A i \in 1 .. Len(reading') : IsCall(reading'[i]) /\ reading'[i].node # NULL
  <2>1. \A i \in 1 .. Len(reading') :
           i \in 1 .. Len(reading) /\ i < Len(reading) /\ reading'[i] = reading[i]
    BY <1>3
  <2> QED
    BY <1>1, <2>1 DEF StackOK
<1>9. CASE Callers = <<>>
  <2>1. ui' = Top.node /\ heap' = heap /\ doomed' = doomed /\ reading' = <<>>
    BY <1>2, <1>9 DEF Return
  <2>2. Top.node # NULL /\ Top.node \in BeingRead
    BY <1>1, <1>2, <1>3, <1>4, <1>9 DEF StackOK, BeingRead
  <2>3. HeapOK' /\ Owned' = Owned /\ Live' = Live
    BY <1>1, <1>2, <2>1 DEF HeapOK, Owned, Live
  <2>4. TheForm' = {Top.node}
    BY <2>1, <2>2 DEF TheForm
  <2>5. StackOK'
    BY <1>2, <1>3, <1>4, <1>8, <1>11, <2>1 DEF StackOK
  <2>6. HeldOnce'
    <3> HIDE DEF Owned, BeingRead, TheForm, Live
    <3> QED
      BY <1>1, <1>4, <1>6, <1>7, <2>1, <2>2, <2>3, <2>4 DEF HeldOnce
  <2> QED
    BY <2>3, <2>5, <2>6 DEF ReaderInv
<1>10. CASE Callers # <<>>
  <2> DEFINE c == Caller
             cleared == Cleared(c, Top.tag)
             dropped == Members(heap[c]) \ Members(cleared)
  <2>1. /\ heap' = [heap EXCEPT ![c] = Given] /\ ui' = ui /\ doomed' = dropped
        /\ reading' # <<>>
    BY <1>2, <1>10 DEF Return
  <2>2. /\ c = reading[Len(reading) - 1].node
        /\ Len(reading) - 1 \in 1 .. Len(reading) /\ Len(reading) - 1 < Len(reading)
        /\ Len(reading) \in 2 .. Len(reading)
    BY <1>2, <1>3, <1>10 DEF Caller
  <2>3. c # NULL /\ c \in Live
    BY <1>1, <1>5, <2>2 DEF StackOK
  <2>4. IsDom(heap[c])
    BY <1>1, <2>3 DEF HeapOK
  <2>5. IsDom(cleared) /\ cleared.class = heap[c].class /\ Members(cleared) \subseteq Members(heap[c])
    BY <2>4, ClearedDom
  <2>6. /\ IsDom(Given) /\ Given.class = heap[c].class
        /\ Members(Given) = Members(cleared) \cup ({Top.node} \ {NULL})
    <3>1. CASE Top.node # NULL
      <4>1. Given = [cleared EXCEPT !.objects[Top.tag] = Append(@, Top.node)]
        BY <3>1 DEF Given
      <4>2. Top.tag \in ObjectTags(cleared.class)
        BY <1>1, <1>4, <2>2, <2>5, <3>1 DEF StackOK
      <4>3. Top.node \in Nat /\ Top.node \in BeingRead
        BY <1>1, <1>3, <1>4, <1>5, <3>1 DEF HeapOK, BeingRead
      <4>4. Top.node \notin Members(heap[c])
        BY <1>1, <2>3, <4>3 DEF HeldOnce, Owned
      <4>5. Top.node \notin Members(cleared)
        BY <2>5, <4>4
      <4> HIDE DEF cleared
      <4>6. /\ IsDom(Given) /\ Given.class = cleared.class
            /\ Members(Given) = Members(cleared) \cup {Top.node}
        <5> DEFINE n == Top.node
                   tag == Top.tag
        <5>1. /\ IsDom(cleared) /\ tag \in ObjectTags(cleared.class) /\ n \in Nat
              /\ n \notin Members(cleared)
          BY <2>5, <4>1, <4>2, <4>3, <4>5
        <5>2. Given = GivenTo(cleared, tag, n)
          BY <4>1 DEF GivenTo
        <5> HIDE DEF n, tag
        <5>3. /\ IsDom(Given) /\ Given.class = cleared.class
              /\ Members(Given) = Members(cleared) \cup {n}
          BY ONLY <5>1, <5>2, GivenDom
        <5> QED
          BY <5>3 DEF n
      <4> QED
        BY <2>5, <3>1, <4>6
    <3>2. CASE Top.node = NULL
      <4> DEFINE value == Convert(Class(c).children[Top.tag].type, Top.chars)
                 texts == [cleared.texts EXCEPT ![Top.tag] = Append(@, value)]
      <4>1. Given = [cleared EXCEPT !.texts[Top.tag] = Append(@, value)]
        BY <3>2 DEF Given
      <4> HIDE DEF value
      <4>2. Given = [cleared EXCEPT !.texts = texts]
        BY <4>1
      <4> HIDE DEF cleared, texts
      <4>3. IsDom(Given) /\ Given.class = cleared.class /\ Members(Given) = Members(cleared)
        BY <2>5, <4>2, TextDom
      <4> QED
        BY <2>5, <3>2, <4>3
    <3> QED
      BY <3>1, <3>2
  <2> HIDE DEF c, cleared
  <2>7. /\ HeapOK' /\ Live' = Live /\ heap'[c] = Given
        /\ \A m \in Live : m # c => heap'[m] = heap[m]
    BY <1>1, <1>2, <2>1, <2>3, <2>6, OneChanged
  <2>8. StackOK'
    <3>1. \A m \in Live : heap'[m].class = heap[m].class
      BY <2>6, <2>7
    <3>2. ASSUME NEW i \in 2 .. Len(reading'), reading'[i].node # NULL
          PROVE  reading'[i].tag \in ObjectTags(heap'[reading'[i - 1].node].class)
      <4>1. /\ i \in 2 .. Len(reading) /\ reading'[i] = reading[i]
            /\ i - 1 \in 1 .. Len(reading) /\ i - 1 < Len(reading) /\ reading'[i - 1] = reading[i - 1]
        BY <1>3
      <4>2. reading[i - 1].node \in Live
        BY <1>1, <1>5, <4>1 DEF StackOK
      <4> QED
        BY <1>1, <3>1, <3>2, <4>1, <4>2 DEF StackOK
    <3> QED
      BY <1>2, <1>3, <1>4, <1>8, <1>11, <2>1, <3>2 DEF StackOK
  <2>9. TheForm' = {}
    BY <1>4, <2>1 DEF TheForm
  <2>10. dropped \subseteq Owned /\ Top.node \notin dropped
    <3>1. dropped \subseteq Owned
      BY <2>3 DEF Owned
    <3>2. Top.node \in Live => Top.node \in BeingRead
      BY <1>1, <1>3, <1>4, FormsAssumption DEF BeingRead, HeapOK
    <3>3. Owned \subseteq Live
      BY <1>1 DEF HeldOnce
    <3> QED
      BY <1>1, <3>1, <3>2, <3>3 DEF HeldOnce
  <2>11. Owned' = (Owned \ dropped) \cup ({Top.node} \ {NULL})
    <3>1. ASSUME NEW x \in Owned' PROVE x \in (Owned \ dropped) \cup ({Top.node} \ {NULL})
      <4>1. PICK m \in Live : x \in Members(heap'[m])
        BY <2>7 DEF Owned
      <4>2. CASE m = c
        BY <2>3, <2>5, <2>6, <2>7, <4>1, <4>2 DEF Owned
      <4>3. CASE m # c
        <5>1. x \in Members(heap[m])
          BY <2>7, <4>1, <4>3
        <5>2. x \notin Members(heap[c])
          BY <1>1, <2>3, <4>3, <5>1 DEF HeldOnce
        <5> QED
          BY <5>1, <5>2 DEF Owned
      <4> QED
        BY <4>2, <4>3
    <3>2. ASSUME NEW x \in Owned \ dropped PROVE x \in Owned'
      <4>1. PICK m \in Live : x \in Members(heap[m])
        BY <3>2 DEF Owned
      <4>2. x \in Members(heap'[m])
        BY <2>6, <2>7, <3>2, <4>1
      <4> QED
        BY <2>7, <4>2 DEF Owned
    <3>3. {Top.node} \ {NULL} \subseteq Owned'
      BY <2>3, <2>6, <2>7 DEF Owned
    <3> QED
      BY <3>1, <3>2, <3>3
  <2>12. \A n, m \in Live' : n # m => Members(heap'[n]) \cap Members(heap'[m]) = {}
    <3>1. ASSUME NEW m \in Live, m # c PROVE Members(heap'[m]) \cap Members(heap'[c]) = {}
      <4>1. Members(heap'[m]) = Members(heap[m]) /\ Members(heap[m]) \cap Members(heap[c]) = {}
        BY <1>1, <2>3, <2>7, <3>1 DEF HeldOnce
      <4>2. Top.node \notin Members(heap[m]) \/ Top.node = NULL
        <5> SUFFICES ASSUME Top.node # NULL, Top.node \in Members(heap[m]) PROVE FALSE
          OBVIOUS
        <5>1. Top.node \in BeingRead /\ Top.node \in Owned
          BY <1>3, <1>4, <3>1 DEF BeingRead, Owned
        <5> QED
          BY <1>1, <5>1 DEF HeldOnce
      <4> QED
        BY <2>5, <2>6, <2>7, <4>1, <4>2
    <3>2. ASSUME NEW m \in Live, NEW n \in Live, m # c, n # c, n # m
          PROVE  Members(heap'[n]) \cap Members(heap'[m]) = {}
      BY <1>1, <2>7, <3>2 DEF HeldOnce
    <3> QED
      BY <2>7, <3>1, <3>2
  <2>13. Top.node # NULL => Top.node \in BeingRead
    BY <1>3, <1>4 DEF BeingRead
  <2>14. HeldOnce'
    <3> HIDE DEF Owned, BeingRead, TheForm, Live, dropped
    <3>0. NULL \notin BeingRead
      BY DEF BeingRead
    <3>1. Live' = Owned' \cup BeingRead' \cup TheForm' \cup doomed'
      BY <1>1, <1>4, <1>6, <2>1, <2>7, <2>9, <2>10, <2>11, <2>13, <3>0 DEF HeldOnce
    <3>2. Owned' \cap BeingRead' = {} /\ (Owned' \cup BeingRead' \cup TheForm') \cap doomed' = {}
      BY <1>1, <1>6, <2>1, <2>9, <2>10, <2>11 DEF HeldOnce
    <3>3. (Owned' \cup BeingRead') \cap TheForm' = {}
      BY <2>9
    <3> QED
      BY <1>7, <2>12, <3>1, <3>2, <3>3 DEF HeldOnce
  <2> QED
    BY <2>7, <2>8, <2>14 DEF ReaderInv
<1> QED
  BY <1>9, <1>10

(* A destructor runs: what it deletes next had no other owner.             *)
LEMMA DestroyInv ==
    ASSUME ReaderInv, Destroy
    PROVE  ReaderInv'
<1>1. HeapOK /\ StackOK /\ HeldOnce
  BY DEF ReaderInv
<1>2. PICK n \in doomed : /\ heap' = [m \in Live \ {n} |-> heap[m]]
                          /\ doomed' = (doomed \ {n}) \cup Members(heap[n])
  <2>1. doomed # {}
    BY DEF Destroy
  <2>2. (CHOOSE d \in doomed : TRUE) \in doomed
    BY <2>1
  <2> QED
    BY <2>2 DEF Destroy
<1>3. UNCHANGED <<news, reading, ui, phase>>
  BY DEF Destroy
<1>4. n \in Live
  BY <1>1 DEF HeldOnce
<1>5. Live' = Live \ {n} /\ \A m \in Live' : heap'[m] = heap[m]
  BY <1>2 DEF Live
<1>6. HeapOK'
  BY <1>1, <1>2, <1>3, <1>5 DEF HeapOK
<1>7. /\ Len(reading) \in Nat /\ DOMAIN reading = 1 .. Len(reading)
      /\ \A i \in 1 .. Len(reading) : reading[i].node # NULL => reading[i].node \in Live'
  <2>1. Len(reading) \in Nat /\ DOMAIN reading = 1 .. Len(reading)
    BY <1>1, StackFacts
  <2>2. \A i \in 1 .. Len(reading) : reading[i].node # NULL => reading[i].node \in BeingRead
    BY <2>1 DEF BeingRead
  <2> QED
    BY <1>1, <1>5, <2>1, <2>2 DEF HeldOnce
<1>8. StackOK'
  <2>1. ASSUME NEW i \in 2 .. Len(reading), reading[i].node # NULL
        PROVE  reading[i].tag \in ObjectTags(heap'[reading[i - 1].node].class)
    <3>0. Len(reading) \in Nat
      BY <1>7
    <3>1. i - 1 \in 1 .. Len(reading) /\ i - 1 < Len(reading)
      BY ONLY <3>0, i \in 2 .. Len(reading)
    <3>2. reading[i - 1].node \in Live'
      BY <1>1, <1>7, <3>1 DEF StackOK
    <3> QED
      BY <1>1, <1>5, <2>1, <3>2 DEF StackOK
  <2> QED
    BY <1>1, <1>3, <2>1 DEF StackOK
<1>9. BeingRead' = BeingRead /\ TheForm' = TheForm
  BY <1>3 DEF BeingRead, TheForm
<1>10. Owned' = Owned \ Members(heap[n])
  <2>1. ASSUME NEW x \in Owned' PROVE x \in Owned \ Members(heap[n])
    <3>1. PICK m \in Live' : x \in Members(heap'[m])
      BY DEF Owned
    <3>2. m \in Live /\ m # n /\ x \in Members(heap[m])
      BY <1>5, <3>1
    <3> QED
      BY <1>1, <1>4, <3>2 DEF HeldOnce, Owned
  <2>2. ASSUME NEW x \in Owned, x \notin Members(heap[n]) PROVE x \in Owned'
    <3>1. PICK m \in Live : x \in Members(heap[m])
      BY DEF Owned
    <3>2. m \in Live' /\ x \in Members(heap'[m])
      BY <1>5, <2>2, <3>1
    <3> QED
      BY <3>2 DEF Owned
  <2> QED
    BY <2>1, <2>2
<1>11. Members(heap[n]) \subseteq Owned
  BY <1>4 DEF Owned
<1>12. \A m, k \in Live' : m # k => Members(heap'[m]) \cap Members(heap'[k]) = {}
  BY <1>1, <1>5 DEF HeldOnce
<1>13. HeldOnce'
  <2> HIDE DEF Owned, BeingRead, TheForm, Live
  <2>1. Live' = Owned' \cup BeingRead' \cup TheForm' \cup doomed'
    BY <1>1, <1>2, <1>5, <1>9, <1>10, <1>11 DEF HeldOnce
  <2>2. /\ Owned' \cap BeingRead' = {}
        /\ (Owned' \cup BeingRead') \cap TheForm' = {}
        /\ (Owned' \cup BeingRead' \cup TheForm') \cap doomed' = {}
    BY <1>1, <1>2, <1>9, <1>10, <1>11 DEF HeldOnce
  <2>3. \A i, j \in 1 .. Len(reading') :
           reading'[i].node = reading'[j].node /\ reading'[i].node # NULL => i = j
    BY <1>1, <1>3 DEF HeldOnce
  <2> QED
    BY <1>12, <2>1, <2>2, <2>3 DEF HeldOnce
<1> QED
  BY <1>6, <1>8, <1>13 DEF ReaderInv

(* The form is kept, or given up to be deleted.                            *)
LEMMA FormInv ==
    ASSUME ReaderInv, UNCHANGED <<heap, news, reading>>,
           \/ UNCHANGED <<ui, doomed>> /\ (phase' = phase \/ phase' # "accepted" \/ ui # NULL)
           \/ /\ doomed = {} /\ ui' = NULL /\ doomed' = {ui} \ {NULL}
              /\ phase' # "accepted"
    PROVE  ReaderInv'
<1>1. HeapOK /\ StackOK /\ HeldOnce
  BY DEF ReaderInv
<1>2. HeapOK'
  BY <1>1 DEF HeapOK, Live
<1>3. StackOK'
  BY <1>1 DEF StackOK
<1>4. /\ Owned' = Owned /\ BeingRead' = BeingRead /\ Live' = Live
      /\ TheForm' \cup doomed' = TheForm \cup doomed
      /\ TheForm \cap doomed = {} => TheForm' \cap doomed' = {}
  BY DEF Owned, BeingRead, Live, TheForm
<1>5. \A i, j \in 1 .. Len(reading') :
         reading'[i].node = reading'[j].node /\ reading'[i].node # NULL => i = j
  BY <1>1 DEF HeldOnce
<1>6. \A n, m \in Live' : n # m => Members(heap'[n]) \cap Members(heap'[m]) = {}
  BY <1>1, <1>4 DEF HeldOnce
<1>7. HeldOnce'
  <2> HIDE DEF Owned, BeingRead, TheForm, Live
  <2>1. Live' = Owned' \cup BeingRead' \cup TheForm' \cup doomed'
    BY <1>1, <1>4 DEF HeldOnce
  <2>2. Owned' \cap BeingRead' = {}
    BY <1>1, <1>4 DEF HeldOnce
  <2>3. (Owned' \cup BeingRead') \cap TheForm' = {}
    BY <1>1, <1>4 DEF HeldOnce
  <2>4. (Owned' \cup BeingRead' \cup TheForm') \cap doomed' = {}
    BY <1>1, <1>4 DEF HeldOnce
  <2> QED
    BY <1>5, <1>6, <2>1, <2>2, <2>3, <2>4 DEF HeldOnce
<1> QED
  BY <1>2, <1>3, <1>7 DEF ReaderInv

LEMMA ReaderInitInv == ReaderInit => ReaderInv
<1> SUFFICES ASSUME ReaderInit PROVE ReaderInv
  OBVIOUS
<1>1. /\ heap = [n \in {} |-> NULL] /\ news = 0 /\ reading = <<>> /\ doomed = {} /\ ui = NULL
      /\ phase = "parse"
  BY DEF ReaderInit
<1>2. Live = {}
  BY <1>1 DEF Live
<1>3. HeapOK
  BY <1>1, <1>2 DEF HeapOK
<1>4. Len(reading) = 0 /\ reading \in Seq({reading[i] : i \in DOMAIN reading})
  BY <1>1
<1>5. StackOK
  BY <1>1, <1>4 DEF StackOK
<1>6. Owned = {} /\ BeingRead = {} /\ TheForm = {}
  BY <1>1, <1>2 DEF Owned, BeingRead, TheForm
<1>7. HeldOnce
  BY <1>1, <1>2, <1>4, <1>6 DEF HeldOnce
<1> QED
  BY <1>3, <1>5, <1>7 DEF ReaderInv

LEMMA ReaderNextInv ==
    ReaderInv /\ [ReaderNext \/ Save \/ DeleteUi]_readerVars => ReaderInv'
<1> SUFFICES ASSUME ReaderInv, [ReaderNext \/ Save \/ DeleteUi]_readerVars PROVE ReaderInv'
  OBVIOUS
<1>0. /\ reading # <<>> => ui = NULL
      /\ phase = "accepted" => ui # NULL
  BY DEF ReaderInv, StackOK
<1>1. ASSUME NotWellFormed \/ UnexpectedRoot \/ UnexpectedElement PROVE ReaderInv'
  <2>1. UNCHANGED <<heap, news, reading, ui, doomed, phase>>
    BY <1>1 DEF NotWellFormed, UnexpectedRoot, UnexpectedElement, RaiseError, Take
  <2> QED
    BY <2>1, FormInv
<1>2. ASSUME ReadUi PROVE ReaderInv'
  <2>1. Make("DomUI", "ui") /\ UNCHANGED <<ui, phase>> /\ ui = NULL /\ reading = <<>>
    BY <1>2 DEF ReadUi, AtUi, Take
  <2> QED
    BY <2>1, MakeInv
<1>3. ASSUME RefuseOldUi PROVE ReaderInv'
  <2>1. UNCHANGED <<heap, news, reading, ui, doomed>> /\ phase' # "accepted"
    BY <1>3 DEF RefuseOldUi
  <2> QED
    BY <2>1, FormInv
<1>4. ASSUME ReadObject PROVE ReaderInv'
  <2>1. /\ Make(Class(Top.node).children[Token.tag].type, Token.tag)
        /\ UNCHANGED <<ui, phase>> /\ reading # <<>> /\ Top.node # NULL
        /\ Token.tag \in ObjectTags(heap[Top.node].class)
    BY <1>4 DEF ReadObject, InObject, Inside, Take
  <2> QED
    BY <1>0, <2>1, MakeInv
<1>5. ASSUME ReadText PROVE ReaderInv'
  <2>1. /\ reading # <<>> /\ Top.node # NULL
        /\ reading' = Append(reading, ReadElementText(Token.tag))
        /\ UNCHANGED <<heap, news, doomed, ui, phase>>
    BY <1>5 DEF ReadText, InObject, Inside, Take
  <2> QED
    BY <2>1, ReadTextInv
<1>6. ASSUME ReadCharacters PROVE ReaderInv'
  <2>1. reading # <<>>
    BY <1>6 DEF ReadCharacters, Inside
  <2> QED
    BY <1>6, <2>1, CharactersInv
<1>7. ASSUME EndElement \/ ReturnOnError PROVE ReaderInv'
  <2>1. reading # <<>> /\ doomed = {} /\ Return
    BY <1>7 DEF EndElement, ReturnOnError, Inside, HasToken, Parsing
  <2> QED
    BY <2>1, ReturnInv
<1>8. ASSUME ParseFailed PROVE ReaderInv'
  <2>1. /\ UNCHANGED <<heap, news, reading>> /\ doomed = {} /\ ui' = NULL
        /\ doomed' = {ui} \ {NULL} /\ phase' # "accepted"
    BY <1>8 DEF ParseFailed, Parsing
  <2> QED
    BY <2>1, FormInv
<1>9. ASSUME Parsed PROVE ReaderInv'
  <2>1. /\ UNCHANGED <<heap, news, reading>> /\ doomed = {} /\ ui # NULL
        /\ \/ UNCHANGED <<ui, doomed>>
           \/ ui' = NULL /\ doomed' = {ui} /\ phase' # "accepted"
    BY <1>9 DEF Parsed, Parsing
  <2>2. {ui} = {ui} \ {NULL}
    BY <2>1
  <2> QED
    BY <2>1, <2>2, FormInv
<1>10. ASSUME Save \/ DeleteUi PROVE ReaderInv'
  <2>1. /\ UNCHANGED <<heap, news, reading>> /\ doomed = {} /\ phase = "accepted"
        /\ ui' = NULL /\ doomed' = {ui} /\ phase' # "accepted"
    BY <1>10 DEF Save, DeleteUi
  <2>2. {ui} = {ui} \ {NULL}
    BY <1>0, <2>1
  <2> QED
    BY <2>1, <2>2, FormInv
<1>11. ASSUME Destroy PROVE ReaderInv'
  BY <1>11, DestroyInv
<1>12. CASE UNCHANGED readerVars
  <2>1. UNCHANGED <<heap, news, reading, ui, doomed, phase>>
    BY <1>12 DEF readerVars
  <2> QED
    BY <2>1, FormInv
<1> QED
  BY <1>1, <1>2, <1>3, <1>4, <1>5, <1>6, <1>7, <1>8, <1>9, <1>10, <1>11, <1>12 DEF ReaderNext
----------------------------------------------------------------------------
(* The places and the live objects are one to one.                         *)
LEMMA PlacesAre ==
    ASSUME HeapOK, NEW p
    PROVE  p \in Places <=>
              \/ \E n \in Live : \E t \in ObjectTags(heap[n].class) :
                    \E i \in DOMAIN heap[n].objects[t] : p = <<"member", n, t, i>>
              \/ \E i \in DOMAIN reading : reading[i].node # NULL /\ p = <<"read", i>>
              \/ \E n \in TheForm : p = <<"form", n>>
              \/ \E n \in doomed : p = <<"delete", n>>
<1>1. \A n \in Live : DOMAIN heap[n].objects = ObjectTags(heap[n].class)
  BY DEF HeapOK, IsDom
<1> DEFINE Of(n) == UNION {{<<"member", n, t, i>> : i \in DOMAIN heap[n].objects[t]} :
                              t \in DOMAIN heap[n].objects}
<1>2. ASSUME NEW n \in Live
      PROVE  p \in Of(n) <=> \E t \in ObjectTags(heap[n].class) :
                                \E i \in DOMAIN heap[n].objects[t] : p = <<"member", n, t, i>>
  <2>1. p \in Of(n) <=> \E t \in DOMAIN heap[n].objects :
                           p \in {<<"member", n, t, i>> : i \in DOMAIN heap[n].objects[t]}
    BY Zenon
  <2>2. \A t : p \in {<<"member", n, t, i>> : i \in DOMAIN heap[n].objects[t]} <=>
                 \E i \in DOMAIN heap[n].objects[t] : p = <<"member", n, t, i>>
    OBVIOUS
  <2> HIDE DEF Of
  <2> QED
    BY <1>1, <2>1, <2>2
<1>3. p \in UNION {Of(n) : n \in Live} <=> \E n \in Live : p \in Of(n)
  <2> HIDE DEF Of
  <2> QED
    OBVIOUS
<1>4. p \in {<<"read", i>> : i \in {j \in DOMAIN reading : reading[j].node # NULL}} <=>
         \E i \in DOMAIN reading : reading[i].node # NULL /\ p = <<"read", i>>
  OBVIOUS
<1>5. p \in {<<"form", n>> : n \in {ui} \ {NULL}} <=> \E n \in TheForm : p = <<"form", n>>
  BY DEF TheForm
<1>6. p \in {<<"delete", n>> : n \in doomed} <=> \E n \in doomed : p = <<"delete", n>>
  OBVIOUS
<1>7. p \in Places <=>
         \/ p \in UNION {Of(n) : n \in Live}
         \/ p \in {<<"read", i>> : i \in {j \in DOMAIN reading : reading[j].node # NULL}}
         \/ p \in {<<"form", n>> : n \in {ui} \ {NULL}}
         \/ p \in {<<"delete", n>> : n \in doomed}
  <2> DEFINE A == UNION {Of(n) : n \in Live}
             B == {<<"read", i>> : i \in {j \in DOMAIN reading : reading[j].node # NULL}}
             C == {<<"form", n>> : n \in {ui} \ {NULL}}
             D == {<<"delete", n>> : n \in doomed}
  <2>1. Places = A \cup B \cup C \cup D
    BY DEF Places
  <2> HIDE DEF A, B, C, D
  <2>2. p \in Places <=> p \in A \/ p \in B \/ p \in C \/ p \in D
    BY <2>1
  <2> QED
    BY <2>2 DEF A, B, C, D
<1> HIDE DEF Of
<1> QED
  BY <1>2, <1>3, <1>4, <1>5, <1>6, <1>7

LEMMA AtLive ==
    ASSUME ReaderInv
    PROVE  /\ \A p \in Places : At(p) \in Live
           /\ \A x \in Live : \E p \in Places : At(p) = x
           /\ \A p, q \in Places : At(p) = At(q) => p = q
<1>1. HeapOK /\ StackOK /\ HeldOnce
  BY DEF ReaderInv
<1>2. /\ \A n, t, i : At(<<"member", n, t, i>>) = heap[n].objects[t][i]
      /\ \A i : At(<<"read", i>>) = reading[i].node
      /\ \A n : At(<<"form", n>>) = n /\ At(<<"delete", n>>) = n
  BY DEF At
<1>3. \A n \in Live : IsDom(heap[n])
  BY <1>1 DEF HeapOK
<1>4. DOMAIN reading = 1 .. Len(reading)
  BY <1>1, StackFacts
<1> HIDE DEF At
<1> DEFINE Member(p, n, t, i) ==
               /\ n \in Live /\ t \in ObjectTags(heap[n].class) /\ i \in DOMAIN heap[n].objects[t]
               /\ p = <<"member", n, t, i>>
           Reads(p, i) == i \in 1 .. Len(reading) /\ reading[i].node # NULL /\ p = <<"read", i>>
<1>5. ASSUME NEW p \in Places
      PROVE  \/ (\E n, t, i : Member(p, n, t, i)) /\ At(p) \in Owned
             \/ (\E i : Reads(p, i)) /\ At(p) \in BeingRead
             \/ p = <<"form", At(p)>> /\ At(p) \in TheForm
             \/ p = <<"delete", At(p)>> /\ At(p) \in doomed
  <2>1. ASSUME NEW n \in Live, NEW t \in ObjectTags(heap[n].class),
               NEW i \in DOMAIN heap[n].objects[t], p = <<"member", n, t, i>>
        PROVE  (\E m, u, j : Member(p, m, u, j)) /\ At(p) \in Owned
    <3>1. heap[n].objects[t][i] \in Members(heap[n])
      BY <1>3, MembersAre
    <3>2. At(p) \in Owned
      BY <1>2, <2>1, <3>1 DEF Owned
    <3> QED
      BY <2>1, <3>2
  <2>2. ASSUME NEW i \in DOMAIN reading, reading[i].node # NULL, p = <<"read", i>>
        PROVE  (\E j : Reads(p, j)) /\ At(p) \in BeingRead
    BY <1>2, <1>4, <2>2 DEF BeingRead
  <2>3. ASSUME NEW n \in TheForm, p = <<"form", n>>
        PROVE  p = <<"form", At(p)>> /\ At(p) \in TheForm
    BY <1>2, <2>3
  <2>4. ASSUME NEW n \in doomed, p = <<"delete", n>>
        PROVE  p = <<"delete", At(p)>> /\ At(p) \in doomed
    BY <1>2, <2>4
  <2> HIDE DEF Member, Reads
  <2> QED
    BY <1>1, <2>1, <2>2, <2>3, <2>4, PlacesAre
<1>6. \A p \in Places : At(p) \in Live
  <2> HIDE DEF Member, Reads
  <2> QED
    BY <1>1, <1>5 DEF HeldOnce
<1>7. ASSUME NEW x \in Live PROVE \E p \in Places : At(p) = x
  <2>1. CASE x \in Owned
    <3>1. PICK n \in Live : x \in Members(heap[n])
      BY <2>1 DEF Owned
    <3>2. PICK t \in ObjectTags(heap[n].class) : \E i \in DOMAIN heap[n].objects[t] :
             x = heap[n].objects[t][i]
      BY <1>3, <3>1, MembersAre
    <3>3. PICK i \in DOMAIN heap[n].objects[t] : x = heap[n].objects[t][i]
      BY <3>2
    <3>4. <<"member", n, t, i>> \in Places
      BY <1>1, PlacesAre
    <3> QED
      BY <1>2, <3>3, <3>4
  <2>2. CASE x \in BeingRead
    <3>1. PICK i \in DOMAIN reading : reading[i].node = x /\ x # NULL
      BY <2>2 DEF BeingRead
    <3>2. <<"read", i>> \in Places
      BY <1>1, <3>1, PlacesAre
    <3> QED
      BY <1>2, <3>1, <3>2
  <2>3. CASE x \in TheForm
    <3>1. <<"form", x>> \in Places
      BY <1>1, <2>3, PlacesAre
    <3> QED
      BY <1>2, <3>1
  <2>4. CASE x \in doomed
    <3>1. <<"delete", x>> \in Places
      BY <1>1, <2>4, PlacesAre
    <3> QED
      BY <1>2, <3>1
  <2> QED
    BY <1>1, <2>1, <2>2, <2>3, <2>4 DEF HeldOnce
<1>8. ASSUME NEW p \in Places, NEW q \in Places, At(p) = At(q) PROVE p = q
  <2>1. CASE At(p) \in Owned
    <3>1. /\ \E n, t, i : Member(p, n, t, i)
          /\ \E n, t, i : Member(q, n, t, i)
      <4> HIDE DEF Member, Reads
      <4> QED
        BY <1>1, <1>5, <1>8, <2>1 DEF HeldOnce
    <3>2. PICK n, t, i : Member(p, n, t, i)
      BY <3>1
    <3>3. PICK m, u, j : Member(q, m, u, j)
      BY <3>1
    <3>4. heap[n].objects[t][i] = heap[m].objects[u][j]
      BY <1>2, <1>8, <3>2, <3>3
    <3>5. At(p) \in Members(heap[n]) /\ At(q) \in Members(heap[m])
      BY <1>2, <1>3, <3>2, <3>3, MembersAre
    <3>6. n = m
      BY <1>1, <1>8, <3>2, <3>3, <3>5 DEF HeldOnce
    <3>7. t = u /\ i = j
      <4> DEFINE o == heap[n]
      <4>1. \A v, w \in ObjectTags(o.class) : \A k \in DOMAIN o.objects[v], l \in DOMAIN o.objects[w] :
               o.objects[v][k] = o.objects[w][l] => v = w /\ k = l
        BY <1>3, <3>2 DEF IsDom
      <4>2. /\ t \in ObjectTags(o.class) /\ i \in DOMAIN o.objects[t]
            /\ u \in ObjectTags(o.class) /\ j \in DOMAIN o.objects[u]
            /\ o.objects[t][i] = o.objects[u][j]
        BY <3>2, <3>3, <3>4, <3>6
      <4> HIDE DEF o
      <4> QED
        BY <4>1, <4>2
    <3> QED
      BY <3>2, <3>3, <3>6, <3>7
  <2>2. CASE At(p) \in BeingRead
    <3>1. (\E i : Reads(p, i)) /\ (\E i : Reads(q, i))
      <4> HIDE DEF Member, Reads
      <4> QED
        BY <1>1, <1>5, <1>8, <2>2 DEF HeldOnce
    <3>2. PICK i : Reads(p, i)
      BY <3>1
    <3>3. PICK j : Reads(q, j)
      BY <3>1
    <3>4. reading[i].node = reading[j].node
      BY <1>2, <1>8, <3>2, <3>3
    <3>5. i = j
      BY <1>1, <3>2, <3>3, <3>4 DEF HeldOnce
    <3> QED
      BY <3>2, <3>3, <3>5
  <2>3. CASE At(p) \in TheForm \cup doomed
    <3> HIDE DEF Member, Reads
    <3> QED
      BY <1>1, <1>5, <1>8, <2>3 DEF HeldOnce
  <2> HIDE DEF Member, Reads
  <2> QED
    BY <1>5, <2>1, <2>2, <2>3
<1> QED
  BY <1>6, <1>7, <1>8

LEMMA InvOwnedOnce == ReaderInv => OwnedOnce
<1> SUFFICES ASSUME ReaderInv PROVE OwnedOnce
  OBVIOUS
<1>1. {At(p) : p \in Places} = Live
  BY AtLive
<1>2. IsFiniteSet(Live)
  <2>1. Live \subseteq 1 .. news /\ news \in Nat
    BY DEF ReaderInv, HeapOK
  <2>2. IsFiniteSet(1 .. news)
    BY <2>1, FS_Interval
  <2> QED
    BY <2>1, <2>2, FS_Subset
<1> DEFINE place == [x \in Live |-> CHOOSE p \in Places : At(p) = x]
<1>3. \A x \in Live : place[x] \in Places /\ At(place[x]) = x
  BY AtLive
<1>4. place \in Bijection(Live, Places)
  <2> HIDE DEF place
  <2>0. place \in [Live -> Places]
    <3>1. place = [x \in Live |-> place[x]]
      BY DEF place
    <3> QED
      BY <1>3, <3>1
  <2>1. place \in Injection(Live, Places)
    BY <1>3, <2>0 DEF Injection, IsInjective
  <2>2. \A p \in Places : \E x \in Live : place[x] = p
    BY <1>3, AtLive
  <2> QED
    BY <2>0, <2>1, <2>2 DEF Bijection, Surjection
<1>5. Cardinality(Places) = Cardinality(Live)
  BY <1>2, <1>4, FS_Bijection DEF ExistsBijection
<1> QED
  BY <1>1, <1>5 DEF OwnedOnce

(* Where the reader is in the file, while the file is a sequence of tokens. *)
Placed ==
    /\ Len(form) \in Nat => taken \in 0 .. Len(form)
    /\ error \in BOOLEAN /\ saved \in BOOLEAN
    /\ phase \in {"parse", "accepted", "refused", "done"}

LEMMA PlacedStep ==
    ASSUME Placed, [ReaderNext \/ Save \/ DeleteUi]_readerVars
    PROVE  Placed'
<1> USE DEF Placed
<1>1. ASSUME Take, HasToken, error' \in BOOLEAN PROVE Placed'
  BY <1>1 DEF Take, HasToken
<1>2. CASE NotWellFormed
  BY <1>2 DEF NotWellFormed, RaiseError
<1>3. CASE ReadUi \/ ReadObject
  BY <1>1, <1>3 DEF ReadUi, AtUi, ReadObject, InObject, Inside, Make, Unexpected
<1>4. CASE RefuseOldUi
  BY <1>4 DEF RefuseOldUi, AtUi, HasToken
<1>5. CASE UnexpectedRoot \/ UnexpectedElement \/ ReadText \/ ReadCharacters
  BY <1>1, <1>5 DEF UnexpectedRoot, UnexpectedElement, ReadText, ReadCharacters,
     InObject, Inside, RaiseError
<1>6. CASE EndElement
  BY <1>6 DEF EndElement, Inside, HasToken, Return
<1>7. CASE ReturnOnError
  BY <1>7 DEF ReturnOnError, Return
<1>8. CASE ParseFailed \/ Parsed \/ Destroy \/ DeleteUi
  BY <1>8 DEF ParseFailed, Parsed, Destroy, DeleteUi
<1>9. CASE Save
  BY <1>9 DEF Save
<1>10. CASE UNCHANGED readerVars
  BY <1>10 DEF readerVars
<1> QED
  BY <1>2, <1>3, <1>4, <1>5, <1>6, <1>7, <1>8, <1>9, <1>10 DEF ReaderNext

LEMMA InvTypeOK == ReaderInv /\ Placed /\ Len(form) \in Nat => ReaderTypeOK
<1> SUFFICES ASSUME ReaderInv, Placed, Len(form) \in Nat PROVE ReaderTypeOK
  OBVIOUS
<1>1. news \in Nat /\ Live \subseteq 1 .. news
  BY DEF ReaderInv, HeapOK
<1>2. ui \in Live \cup {NULL}
  BY DEF ReaderInv, HeldOnce, TheForm
<1> QED
  BY <1>1, <1>2 DEF ReaderTypeOK, Placed

(* The inductive invariant of reading a form.                              *)
THEOREM ReaderInvariant == ReaderSpec => []ReaderInv
BY ReaderInitInv, ReaderNextInv, PTL DEF ReaderSpec

(* For any documents, well formed or not, and any tables of classes: each  *)
(* Dom object made and not deleted has exactly one owner, and no owner     *)
(* holds a deleted one, while a form is read, refused, saved or deleted.   *)
THEOREM OwnedOnceHolds == ReaderSpec => []OwnedOnce
BY ReaderInvariant, InvOwnedOnce, PTL

(* The types of the reader's variables, for any files and tables.  The     *)
(* proviso is about a saved form only: that what the recursive Content     *)
(* gives has a length is left to the runs, as all of what it computes.     *)
THEOREM ReaderTypes == ReaderSpec => [](Len(form) \in Nat => ReaderTypeOK)
<1>1. ReaderInit => Placed
  <2> SUFFICES ASSUME ReaderInit PROVE Placed
    OBVIOUS
  <2>1. taken = 0 /\ error = FALSE /\ phase = "parse" /\ saved = FALSE
    BY DEF ReaderInit
  <2>2. Len(form) \in Nat => taken \in 0 .. Len(form)
    BY <2>1
  <2> QED
    BY <2>1, <2>2 DEF Placed
<1>2. Placed /\ [ReaderNext \/ Save \/ DeleteUi]_readerVars => Placed'
  BY PlacedStep
<1> QED
  BY <1>1, <1>2, InvTypeOK, ReaderInvariant, PTL DEF ReaderSpec
=============================================================================
