------------------------- MODULE RubyObjects_proofs -------------------------
(***************************************************************************)
(* Proofs about the registry on its own (QomSpec), and about the life of   *)
(* Ruby objects, for any sets of VALUE slots and native addresses,         *)
(* whatever Ruby subclasses and Qt do.                                     *)
(***************************************************************************)
EXTENDS RubyObjects, TLAPS

----------------------------------------------------------------------------
(* The registry on its own.                                                *)

(* An ObjectInfo is reachable only under the VALUE and the address it      *)
(* holds, and objids are handed out once: deleting the ObjectInfo of one   *)
(* VALUE can then not pull away that of another.                           *)
InfosOwned ==
    /\ \A r \in Values : robjs[r] # NULL =>
          /\ infos[robjs[r]] # NULL
          /\ infos[robjs[r]].rbobj = r
    /\ \A q \in Addrs : qobjs[q] # NULL =>
          /\ infos[qobjs[q]] # NULL
          /\ infos[qobjs[q]].qtobj = q
    /\ \A i \in ObjIds : infos[i] # NULL => i < nextid

QomInv == QomTypeOK /\ InfosOwned /\ TablesAgree /\ RegisteredAllocated

(* addObject and delObject keep the types of the six tables.               *)
LEMMA RegisterType ==
    ASSUME QomTypeOK, NEW r \in Values, NEW q \in Addrs, Register(r, q)
    PROVE  QomTypeOK'
<1>1. nextid \in ObjIds /\ nextid + 1 \in 0 .. MaxObjId
  BY QomAssumption DEF QomTypeOK, Register, AddObject, NewObjectInfo, ObjIds
<1>2. [rbobj |-> r, qtobj |-> q] \in ObjectInfo
  BY DEF ObjectInfo
<1> QED
  BY <1>1, <1>2 DEF QomTypeOK, Register, AddObject, NewObjectInfo

LEMMA DelObjectType ==
    ASSUME QomTypeOK, NEW r \in Values, DelObject(r)
    PROVE  QomTypeOK'
BY DEF QomTypeOK, DelObject

THEOREM QomTypeCorrect == QomSpec => []QomTypeOK
<1>1. QomInit => QomTypeOK
  BY QomAssumption DEF QomInit, QomTypeOK
<1>2. QomTypeOK /\ [QomNext]_qomVars => QomTypeOK'
  <2> SUFFICES ASSUME QomTypeOK, [QomNext]_qomVars PROVE QomTypeOK'
    OBVIOUS
  <2>1. ASSUME NEW r \in Values, NEW q \in Addrs, Register(r, q)
        PROVE  QomTypeOK'
    BY <2>1, RegisterType
  <2>2. ASSUME NEW r \in Values, DelObject(r) PROVE QomTypeOK'
    BY <2>2, DelObjectType
  <2>3. CASE UNCHANGED qomVars
    BY <2>3 DEF QomTypeOK, qomVars
  <2> QED
    BY <2>1, <2>2, <2>3 DEF QomNext
<1> QED
  BY <1>1, <1>2, PTL DEF QomSpec

----------------------------------------------------------------------------
(* addObject on fresh memory keeps the whole invariant: the new objid is   *)
(* in no table yet, so the entries of other VALUEs are read as before.     *)
LEMMA RegisterInv ==
    ASSUME QomInv, NEW r \in Values, NEW q \in Addrs, Register(r, q)
    PROVE  QomInv'
<1> USE DEF QomInv
<1>1. QomTypeOK'
  BY RegisterType
<1>2. /\ nextid \in ObjIds
      /\ infos[nextid] = NULL
      /\ infos' = [infos EXCEPT ![nextid] = [rbobj |-> r, qtobj |-> q]]
      /\ infos'[nextid] = [rbobj |-> r, qtobj |-> q]
      /\ infos'[nextid] # NULL
      /\ \A i \in ObjIds \ {nextid} : infos'[i] = infos[i]
  <2>1. nextid \in ObjIds
    BY QomAssumption DEF QomTypeOK, Register, AddObject, NewObjectInfo, ObjIds
  <2>2. infos[nextid] = NULL
    BY <2>1 DEF InfosOwned, ObjIds
  <2>3. [rbobj |-> r, qtobj |-> q] # NULL
    BY QomAssumption
  <2> QED
    BY <2>1, <2>2, <2>3 DEF QomTypeOK, Register, AddObject, NewObjectInfo
<1>3. ASSUME NEW s \in Values, robjs[s] # NULL
      PROVE  /\ robjs[s] \in ObjIds \ {nextid}
             /\ infos'[robjs[s]] = infos[robjs[s]]
  BY <1>2, <1>3 DEF InfosOwned, QomTypeOK
<1>4. InfosOwned'
  <2>1. ASSUME NEW s \in Values, robjs'[s] # NULL
        PROVE  /\ infos'[robjs'[s]] # NULL
               /\ infos'[robjs'[s]].rbobj = s
    <3>1. CASE s = r
      BY <1>2, <3>1 DEF QomTypeOK, Register, AddObject
    <3>2. CASE s # r
      BY <2>1, <1>3, <3>2 DEF QomTypeOK, Register, AddObject, InfosOwned
    <3> QED
      BY <3>1, <3>2
  <2>2. ASSUME NEW p \in Addrs, qobjs'[p] # NULL
        PROVE  /\ infos'[qobjs'[p]] # NULL
               /\ infos'[qobjs'[p]].qtobj = p
    <3>1. CASE p = q
      BY <1>2, <3>1 DEF QomTypeOK, Register, AddObject
    <3>2. CASE p # q
      BY <2>2, <1>2, <3>2 DEF QomTypeOK, Register, AddObject, InfosOwned
    <3> QED
      BY <3>1, <3>2
  <2>3. ASSUME NEW i \in ObjIds, infos'[i] # NULL PROVE i < nextid'
    <3>1. nextid' = nextid + 1
      BY DEF Register, AddObject, NewObjectInfo
    <3> QED
      BY <2>3, <3>1, <1>2 DEF InfosOwned, ObjIds, QomTypeOK
  <2> QED
    BY <2>1, <2>2, <2>3 DEF InfosOwned
<1>5. /\ GetObject(r)' = q
      /\ \A s \in Values \ {r} : GetObject(s)' = GetObject(s)
  <2>1. robjs'[r] = nextid /\ nextid # NULL
    BY QomAssumption, <1>2 DEF QomTypeOK, Register, AddObject, ObjIds
  <2>2. GetObject(r)' = q
    BY <2>1, <1>2 DEF GetObject
  <2>3. ASSUME NEW s \in Values \ {r} PROVE GetObject(s)' = GetObject(s)
    <3>1. robjs'[s] = robjs[s]
      BY DEF QomTypeOK, Register, AddObject
    <3> QED
      BY <3>1, <1>3 DEF GetObject
  <2> QED
    BY <2>2, <2>3
<1>6. TablesAgree'
  BY <1>5 DEF TablesAgree, QomTypeOK, Register, AddObject
<1>7. RegisteredAllocated'
  <2>1. \A s \in Values : robjs[s] # NULL => GetObject(s) # q
    BY DEF RegisteredAllocated, Register
  <2>2. \A s \in Values : robjs[s] = NULL => GetObject(s) # q
    BY QomAssumption DEF GetObject
  <2>3. heap' = heap \cup {q}
    BY DEF Register
  <2>4. \A s \in Values \ {r} : robjs'[s] = robjs[s]
    BY DEF QomTypeOK, Register, AddObject
  <2> QED
    BY <1>5, <2>1, <2>2, <2>3, <2>4 DEF RegisteredAllocated
<1> QED
  BY <1>1, <1>4, <1>6, <1>7

(* delObject: the ObjectInfo it deletes was reachable only from the two    *)
(* entries it clears, and the memory it frees was nobody else's.           *)
LEMMA DelObjectInv ==
    ASSUME QomInv, NEW r \in Values, DelObject(r)
    PROVE  QomInv'
<1> USE DEF QomInv
<1>1. QomTypeOK'
  BY DelObjectType
<1>2. CASE robjs[r] = NULL
  <2>1. UNCHANGED <<robjs, qobjs, infos, heap, nextid>>
    BY <1>2 DEF DelObject
  <2>2. jdobjs' = jdobjs
    BY <1>2 DEF DelObject, TablesAgree, GetObject, QomTypeOK
  <2> QED
    BY <1>1, <2>1, <2>2
       DEF InfosOwned, TablesAgree, RegisteredAllocated, GetObject
<1>3. CASE robjs[r] # NULL
  <2> DEFINE k == robjs[r]
             p == infos[k].qtobj
  <2>1. /\ k \in ObjIds
        /\ infos[k] # NULL
        /\ infos[k].rbobj = r
        /\ p \in Addrs
    BY <1>3 DEF InfosOwned, QomTypeOK, ObjectInfo
  <2>2. /\ robjs' = [robjs EXCEPT ![r] = NULL]
        /\ qobjs' = [qobjs EXCEPT ![p] = NULL]
        /\ jdobjs' = [jdobjs EXCEPT ![r] = NULL]
        /\ infos' = [infos EXCEPT ![k] = NULL]
        /\ heap' = heap \ {p}
        /\ nextid' = nextid
    BY <1>3 DEF DelObject
  <2> HIDE DEF k, p
  <2>3. ASSUME NEW s \in Values, robjs'[s] # NULL
        PROVE  /\ s # r
               /\ robjs'[s] = robjs[s]
               /\ robjs[s] # k
               /\ infos'[robjs'[s]] = infos[robjs[s]]
    <3>1. s # r /\ robjs'[s] = robjs[s]
      BY <2>2, <2>3 DEF QomTypeOK
    <3>2. infos[robjs[s]].rbobj = s
      BY <2>3, <3>1 DEF InfosOwned
    <3>3. robjs[s] # k
      BY <3>1, <3>2, <2>1
    <3> QED
      BY <2>2, <2>3, <3>1, <3>3 DEF QomTypeOK
  <2>4. ASSUME NEW a \in Addrs, qobjs'[a] # NULL
        PROVE  /\ qobjs'[a] = qobjs[a]
               /\ infos'[qobjs'[a]] = infos[qobjs[a]]
    <3>1. a # p /\ qobjs'[a] = qobjs[a]
      BY <2>1, <2>2, <2>4 DEF QomTypeOK
    <3>2. infos[qobjs[a]].qtobj = a
      BY <2>4, <3>1 DEF InfosOwned
    <3>3. qobjs[a] # k
      BY <3>1, <3>2 DEF p
    <3> QED
      BY <2>2, <2>4, <3>1, <3>3 DEF QomTypeOK
  <2>5. InfosOwned'
    BY <2>2, <2>3, <2>4 DEF InfosOwned, QomTypeOK
  <2>6. /\ GetObject(r)' = NULL
        /\ \A s \in Values \ {r} : GetObject(s)' = GetObject(s)
    <3>1. robjs'[r] = NULL
      BY <2>2 DEF QomTypeOK
    <3>2. \A s \in Values \ {r} : robjs'[s] = robjs[s]
      BY <2>2 DEF QomTypeOK
    <3> QED
      BY <3>1, <3>2, <2>3 DEF GetObject
  <2>7. TablesAgree'
    BY <2>2, <2>6 DEF TablesAgree, QomTypeOK
  <2>8. RegisteredAllocated'
    <3>1. ASSUME NEW s \in Values, robjs'[s] # NULL
          PROVE  /\ GetObject(s)' \in heap'
                 /\ \A t \in Values \ {s} : GetObject(t)' # GetObject(s)'
      <4>1. GetObject(r) = p
        BY <1>3 DEF GetObject, k, p
      <4>2. /\ s # r
            /\ robjs[s] # NULL
            /\ GetObject(s)' = GetObject(s)
        BY <3>1, <2>3, <2>6
      <4>3. /\ GetObject(s) \in heap
            /\ \A t \in Values \ {s} : GetObject(t) # GetObject(s)
        BY <4>2 DEF RegisteredAllocated
      <4>4. GetObject(s) \in heap'
        BY <4>1, <4>2, <4>3, <2>2
      <4>5. GetObject(s) # NULL
        BY <4>3, QomAssumption DEF QomTypeOK
      <4> QED
        BY <4>2, <4>3, <4>4, <4>5, <2>6
    <3> QED
      BY <3>1 DEF RegisteredAllocated
  <2> QED
    BY <1>1, <2>5, <2>7, <2>8
<1> QED
  BY <1>2, <1>3

(* The inductive invariant of the registry (addObject and delObject).      *)
THEOREM QomInvariant == QomSpec => []QomInv
<1>1. QomInit => QomInv
  BY QomAssumption
     DEF QomInit, QomInv, QomTypeOK, InfosOwned, TablesAgree,
         RegisteredAllocated, GetObject
<1>2. QomInv /\ [QomNext]_qomVars => QomInv'
  <2> SUFFICES ASSUME QomInv, [QomNext]_qomVars PROVE QomInv'
    OBVIOUS
  <2>1. ASSUME NEW r \in Values, NEW q \in Addrs, Register(r, q)
        PROVE  QomInv'
    BY <2>1, RegisterInv
  <2>2. ASSUME NEW r \in Values, DelObject(r) PROVE QomInv'
    BY <2>2, DelObjectInv
  <2>3. CASE UNCHANGED qomVars
    BY <2>3 DEF QomInv, QomTypeOK, InfosOwned, TablesAgree,
                RegisteredAllocated, GetObject, qomVars
  <2> QED
    BY <2>1, <2>2, <2>3 DEF QomNext
<1> QED
  BY <1>1, <1>2, PTL DEF QomSpec

(* For any VALUEs and addresses, addObject and delObject in any order      *)
(* never leave a table pointing at a deleted ObjectInfo.                   *)
THEOREM NoDanglingInfoHolds == QomSpec => []NoDanglingInfo
<1>1. QomInv => NoDanglingInfo
  BY DEF QomInv, InfosOwned, NoDanglingInfo
<1> QED
  BY <1>1, QomInvariant, PTL

(* For any VALUEs and addresses, both lookup tables name the same native   *)
(* object for every VALUE.                                                 *)
THEOREM TablesAgreeHolds == QomSpec => []TablesAgree
<1>1. QomInv => TablesAgree
  BY DEF QomInv
<1> QED
  BY <1>1, QomInvariant, PTL

(* For any VALUEs and addresses, a registered native object is allocated   *)
(* and registered once, so delObject never frees twice.                    *)
THEOREM RegisteredAllocatedHolds == QomSpec => []RegisteredAllocated
<1>1. QomInv => RegisteredAllocated
  BY DEF QomInv
<1> QED
  BY <1>1, QomInvariant, PTL

----------------------------------------------------------------------------
(* The life of Ruby objects on top of it.                                  *)

(* Objids are handed out once and, in the live code, an ObjectInfo is      *)
(* never deleted.                                                          *)
InfosKept ==
    /\ \A r \in Values : robjs[r] # NULL => infos[robjs[r]] # NULL
    /\ \A i \in ObjIds : infos[i] # NULL => i < nextid

(* A slot has a native object of its own only from Qt_class_init (or a     *)
(* record return) to the end of its object.                                *)
OwnPhase == \A r \in Values : phase[r] \in {"free", "init"} => own[r] = NULL

(* An address that is not in use is in no entry, unless a native object    *)
(* was deleted there: entries are only left behind by Qt's deletes.        *)
Unused == \A q \in Addrs : q \notin heap \cup freed => Finders(q) = {}

LifeInv ==
    /\ TypeOK /\ InfosKept /\ OwnPhase /\ Unused
    /\ BoundLookup /\ NativeKept /\ ReverseExact /\ DtorAbortsUnregistered

----------------------------------------------------------------------------
(* What the lookups answer after one registration: the new object for r,   *)
(* and what they answered before for every other VALUE.                    *)
LEMMA InitLookups ==
    ASSUME TypeOK, InfosKept, NEW r \in Values, NEW q \in Addrs,
           Qt_class_init(r, q)
    PROVE  /\ TypeOK'
           /\ InfosKept'
           /\ GetObject(r)' = q
           /\ \A s \in Values \ {r} : GetObject(s)' = GetObject(s)
<1> USE DEF TypeOK, QomTypeOK
<1>1. /\ nextid \in ObjIds
      /\ nextid + 1 \in 0 .. MaxObjId
      /\ nextid' = nextid + 1
      /\ infos' = [infos EXCEPT ![nextid] = [rbobj |-> r, qtobj |-> q]]
      /\ robjs' = [robjs EXCEPT ![r] = nextid]
  BY QomAssumption DEF Qt_class_init, AddObject, NewObjectInfo, ObjIds
<1>2. infos[nextid] = NULL
  BY <1>1 DEF InfosKept, ObjIds
<1>3. [rbobj |-> r, qtobj |-> q] \in ObjectInfo /\ [rbobj |-> r, qtobj |-> q] # NULL
  BY QomAssumption DEF ObjectInfo
<1>4. TypeOK'
  BY <1>1, <1>3 DEF Qt_class_init, AddObject, Phases
<1>5. \A s \in Values : robjs[s] # NULL =>
         robjs[s] \in ObjIds \ {nextid} /\ infos'[robjs[s]] = infos[robjs[s]]
  BY <1>1, <1>2 DEF InfosKept
<1>6. infos'[nextid] = [rbobj |-> r, qtobj |-> q] /\ nextid # NULL
  BY <1>1, QomAssumption DEF ObjIds
<1>7. InfosKept'
  <2>1. ASSUME NEW s \in Values, robjs'[s] # NULL PROVE infos'[robjs'[s]] # NULL
    BY <2>1, <1>1, <1>3, <1>5, <1>6 DEF InfosKept
  <2>2. ASSUME NEW i \in ObjIds, infos'[i] # NULL PROVE i < nextid'
    BY <2>2, <1>1 DEF InfosKept, ObjIds
  <2> QED
    BY <2>1, <2>2 DEF InfosKept
<1>8. GetObject(r)' = q
  BY <1>1, <1>6 DEF GetObject
<1>9. \A s \in Values \ {r} : GetObject(s)' = GetObject(s)
  BY <1>1, <1>5 DEF GetObject
<1> QED
  BY <1>4, <1>7, <1>8, <1>9

(* The same for the two registrations of a record return: r ends up with   *)
(* the returned record.                                                    *)
LEMMA RecordLookups ==
    ASSUME TypeOK, InfosKept,
           NEW r \in Values, NEW q \in Addrs, NEW q0 \in Addrs,
           GV2Variant_record(r, q, q0)
    PROVE  /\ TypeOK'
           /\ InfosKept'
           /\ GetObject(r)' = q
           /\ \A s \in Values \ {r} : GetObject(s)' = GetObject(s)
<1> USE DEF TypeOK, QomTypeOK
<1> DEFINE i0 == [rbobj |-> r, qtobj |-> q0]
           i1 == [rbobj |-> r, qtobj |-> q]
<1>1. /\ nextid \in ObjIds
      /\ nextid + 1 \in ObjIds
      /\ nextid + 2 \in 0 .. MaxObjId
      /\ nextid # nextid + 1
      /\ nextid' = nextid + 2
      /\ infos' = [infos EXCEPT ![nextid] = i0, ![nextid + 1] = i1]
      /\ robjs' = [robjs EXCEPT ![r] = nextid + 1]
  BY QomAssumption DEF GV2Variant_record, ObjIds
<1>2. infos[nextid] = NULL /\ infos[nextid + 1] = NULL
  BY <1>1 DEF InfosKept, ObjIds
<1>3. i0 \in ObjectInfo /\ i1 \in ObjectInfo /\ i0 # NULL /\ i1 # NULL /\ i1.qtobj = q
  BY QomAssumption DEF ObjectInfo
<1> HIDE DEF i0, i1
<1>4. TypeOK'
  BY <1>1, <1>3 DEF GV2Variant_record, Phases
<1>5. \A s \in Values : robjs[s] # NULL =>
         /\ robjs[s] \in ObjIds \ {nextid, nextid + 1}
         /\ infos'[robjs[s]] = infos[robjs[s]]
  BY <1>1, <1>2 DEF InfosKept
<1>6. infos'[nextid + 1] = i1 /\ nextid + 1 # NULL
  BY <1>1, QomAssumption DEF ObjIds
<1>7. InfosKept'
  <2>1. ASSUME NEW s \in Values, robjs'[s] # NULL PROVE infos'[robjs'[s]] # NULL
    BY <2>1, <1>1, <1>3, <1>5, <1>6 DEF InfosKept
  <2>2. ASSUME NEW i \in ObjIds, infos'[i] # NULL PROVE i < nextid'
    BY <2>2, <1>1 DEF InfosKept, ObjIds
  <2> QED
    BY <2>1, <2>2 DEF InfosKept
<1>8. GetObject(r)' = q
  BY <1>1, <1>3, <1>6 DEF GetObject
<1>9. \A s \in Values \ {r} : GetObject(s)' = GetObject(s)
  BY <1>1, <1>5 DEF GetObject
<1> QED
  BY <1>4, <1>7, <1>8, <1>9

(* Steps that do not write the registry change no answer of the lookups.   *)
LEMMA SameLookups ==
    ASSUME UNCHANGED <<robjs, jdobjs, idobjs, infos>>
    PROVE  \A s \in Values :
              /\ GetObject(s)' = GetObject(s)
              /\ GetObjectById(s)' = GetObjectById(s)
              /\ jdobjs'[s] = jdobjs[s]
BY DEF GetObject, GetObjectById

----------------------------------------------------------------------------
(* Giving native memory q to an object r that had none keeps every other   *)
(* object's native object its own: whoever still has q had it deleted by   *)
(* Qt, or q would not have been free.                                      *)
LEMMA OwnFresh ==
    ASSUME LifeInv, TypeOK',
           NEW r \in Values, NEW q \in Addrs, NEW H \in SUBSET Addrs,
           q \notin heap,
           heap' = heap \cup H, q \in H,
           own' = [own EXCEPT ![r] = q],
           lost' = lost, freed' = freed,
           aborted = "no", aborted' = "no",
           GetObject(r)' = q,
           \A s \in Values \ {r} : GetObject(s)' = GetObject(s),
           jdobjs' = [jdobjs EXCEPT ![r] = q],
           idobjs' = [idobjs EXCEPT ![r] = r]
    PROVE  BoundLookup' /\ NativeKept' /\ Unused' /\ ReverseExact' /\ DtorAbortsUnregistered'
<1> USE DEF LifeInv, TypeOK, QomTypeOK
<1>1. BoundLookup'
  BY DEF BoundLookup, Finders, GetObjectById
<1>2. ASSUME NEW s \in Values, own'[s] # NULL, s \notin lost'
      PROVE  /\ own'[s] \in heap'
             /\ \A t \in Values \ {s} : t \in lost' \/ own'[t] # own'[s]
  <2>1. CASE s = r
    <3>1. own'[s] = q /\ q \in heap'
      BY <2>1
    <3>2. ASSUME NEW t \in Values \ {s} PROVE t \in lost' \/ own'[t] # q
      <4>1. own'[t] = own[t]
        BY <2>1, <3>2
      <4>2. own[t] = NULL => own[t] # q
        BY QomAssumption
      <4> QED
        BY <4>1, <4>2 DEF NativeKept
    <3> QED
      BY <3>1, <3>2
  <2>2. CASE s # r
    <3>1. own'[s] = own[s] /\ own[s] \in heap
      BY <1>2, <2>2 DEF NativeKept
    <3>2. ASSUME NEW t \in Values \ {s} PROVE t \in lost' \/ own'[t] # own[s]
      <4>1. CASE t = r
        BY <3>1, <4>1
      <4>2. CASE t # r
        BY <3>1, <4>2, <1>2 DEF NativeKept
      <4> QED
        BY <4>1, <4>2
    <3> QED
      BY <3>1, <3>2
  <2> QED
    BY <2>1, <2>2
<1>3. \A a \in Addrs : Finders(a)' = (IF a = q THEN Finders(a) \cup {r} ELSE Finders(a) \ {r})
  BY DEF Finders
<1>4. Unused'
  BY <1>3 DEF Unused
<1>5. ReverseExact'
  <2> SUFFICES ASSUME NEW s \in Values, own'[s] # NULL, own'[s] \notin freed
               PROVE  Finders(own[s])' = {s}
    BY DEF ReverseExact
  <2>1. CASE s = r
    <3>1. own'[s] = q /\ Finders(q) = {}
      BY <2>1 DEF Unused
    <3> QED
      BY <1>3, <2>1, <3>1
  <2>2. CASE s # r
    <3>1. own'[s] = own[s] /\ own[s] \in Addrs /\ Finders(own[s]) = {s}
      BY <2>2 DEF ReverseExact
    <3>2. own[s] # q
      <4>1. own[s] \notin freed
        BY <3>1
      <4>2. q \notin freed => Finders(q) = {}
        BY DEF Unused
      <4> HIDE DEF TypeOK, LifeInv
      <4> QED
        BY <3>1, <4>1, <4>2
    <3> QED
      BY <1>3, <2>2, <3>1, <3>2
  <2> QED
    BY <2>1, <2>2
<1>6. DtorAbortsUnregistered'
  BY DEF DtorAbortsUnregistered
<1> QED
  BY <1>1, <1>2, <1>4, <1>5, <1>6 DEF NativeKept

(* Releasing a slot keeps what the others have.                            *)
LEMMA GiveBackInv ==
    ASSUME LifeInv, NEW r \in Values, GiveBack(r), UNCHANGED <<qomVars, deadref, freed>>,
           aborted = "no", aborted' = "no"
    PROVE  LifeInv'
<1> USE DEF LifeInv, qomVars
<1>1. TypeOK'
  BY DEF TypeOK, QomTypeOK, GiveBack, Phases
<1>2. InfosKept' /\ OwnPhase'
  BY DEF InfosKept, OwnPhase, TypeOK, GiveBack, ObjIds
<1>3. \A s \in Values : own'[s] = (IF s = r THEN NULL ELSE own[s])
  BY DEF TypeOK, GiveBack
<1>4. BoundLookup'
  BY <1>3, SameLookups DEF BoundLookup, Finders
<1>5. NativeKept'
  <2> SUFFICES ASSUME NEW s \in Values, own'[s] # NULL, s \notin lost'
               PROVE  /\ own'[s] \in heap'
                      /\ \A t \in Values \ {s} : t \in lost' \/ own'[t] # own'[s]
    BY DEF NativeKept
  <2>1. s # r /\ own'[s] = own[s] /\ s \notin lost
    BY <1>3 DEF GiveBack
  <2>2. /\ own[s] \in heap
        /\ \A t \in Values \ {s} : t \in lost \/ own[t] # own[s]
    BY <2>1 DEF NativeKept
  <2>3. ASSUME NEW t \in Values \ {s} PROVE t \in lost' \/ own'[t] # own[s]
    BY <1>3, <2>1, <2>2 DEF GiveBack
  <2> QED
    BY <2>1, <2>2, <2>3
<1>6. Unused' /\ ReverseExact' /\ DtorAbortsUnregistered'
  BY <1>3 DEF Unused, ReverseExact, DtorAbortsUnregistered, Finders
<1> QED
  BY <1>1, <1>2, <1>4, <1>5, <1>6

(* Steps that only move objects along their life.                          *)
LEMMA PhaseStepInv ==
    ASSUME LifeInv, TypeOK', DtorAbortsUnregistered',
           UNCHANGED <<qomVars, own, lost, freed>>,
           \A r \in Values : phase'[r] \in {"free", "init"} => phase[r] \in {"free", "init"}
    PROVE  LifeInv'
BY SameLookups
   DEF LifeInv, InfosKept, OwnPhase, Unused, BoundLookup, NativeKept, ReverseExact, Finders,
       qomVars

LEMMA NextInv == LifeInv /\ [Next]_vars => LifeInv'
<1> SUFFICES ASSUME LifeInv, [Next]_vars PROVE LifeInv'
  OBVIOUS
<1>0. ASSUME aborted' = "no" PROVE DtorAbortsUnregistered'
  BY <1>0 DEF DtorAbortsUnregistered
<1>1. ASSUME NEW r \in Values, NEW q \in Addrs, Qt_class_init(r, q), aborted = "no"
      PROVE  LifeInv'
  <2>1. /\ TypeOK' /\ InfosKept'
        /\ GetObject(r)' = q
        /\ \A s \in Values \ {r} : GetObject(s)' = GetObject(s)
    BY <1>1, InitLookups DEF LifeInv
  <2>2. OwnPhase'
    BY <1>1 DEF LifeInv, TypeOK, OwnPhase, Qt_class_init
  <2>3. BoundLookup' /\ NativeKept' /\ Unused' /\ ReverseExact' /\ DtorAbortsUnregistered'
    <3>1. /\ q \notin heap
          /\ heap' = heap \cup {q}
          /\ own' = [own EXCEPT ![r] = q]
          /\ lost' = lost /\ freed' = freed
          /\ aborted = "no" /\ aborted' = "no"
          /\ jdobjs' = [jdobjs EXCEPT ![r] = q]
          /\ idobjs' = [idobjs EXCEPT ![r] = r]
      BY <1>1 DEF Qt_class_init, AddObject
    <3> QED
      BY <2>1, <3>1, OwnFresh
  <2> QED
    BY <2>1, <2>2, <2>3 DEF LifeInv
<1>2. ASSUME NEW r \in Values, NEW q \in Addrs, NEW q0 \in Addrs,
             GV2Variant_record(r, q, q0), aborted = "no"
      PROVE  LifeInv'
  <2>1. /\ TypeOK' /\ InfosKept'
        /\ GetObject(r)' = q
        /\ \A s \in Values \ {r} : GetObject(s)' = GetObject(s)
    BY <1>2, RecordLookups DEF LifeInv
  <2>2. OwnPhase'
    BY <1>2 DEF LifeInv, TypeOK, OwnPhase, GV2Variant_record
  <2>3. BoundLookup' /\ NativeKept' /\ Unused' /\ ReverseExact' /\ DtorAbortsUnregistered'
    <3>1. /\ q \notin heap
          /\ lost' = lost /\ freed' = freed
          /\ aborted = "no" /\ aborted' = "no"
          /\ own' = [own EXCEPT ![r] = q]
          /\ jdobjs' = [jdobjs EXCEPT ![r] = q]
          /\ idobjs' = [idobjs EXCEPT ![r] = r]
      BY <1>2 DEF GV2Variant_record
    <3>2. PICK H \in SUBSET Addrs : heap' = heap \cup H /\ q \in H
      <4>1. {q, q0} \in SUBSET Addrs /\ heap' = heap \cup {q, q0}
        BY <1>2 DEF GV2Variant_record
      <4> QED
        BY <4>1
    <3> QED
      BY <2>1, <3>1, <3>2, OwnFresh
  <2> QED
    BY <2>1, <2>2, <2>3 DEF LifeInv
<1>3. ASSUME NEW r \in Values,
             \/ Qt_class_new_alloc(r)
             \/ Qt_class_new_finalizer(r)
             \/ Qt_class_new_raises(r)
             \/ Drop(r)
             \/ Qt_class_method_missing(r),
             aborted = "no"
      PROVE  LifeInv'
  <2>1. TypeOK'
    BY <1>3 DEF LifeInv, TypeOK, QomTypeOK, qomVars, Phases, Qt_class_new_alloc,
                Qt_class_new_finalizer, Qt_class_new_raises, Drop,
                Qt_class_method_missing
  <2>2. /\ UNCHANGED <<qomVars, own, lost, freed>>
        /\ aborted' \in {"no", "call"}
        /\ \A s \in Values : phase'[s] \in {"free", "init"} => phase[s] \in {"free", "init"}
    BY <1>3 DEF LifeInv, TypeOK, Qt_class_new_alloc, Qt_class_new_finalizer,
                Qt_class_new_raises, Drop, Qt_class_method_missing
  <2>3. DtorAbortsUnregistered'
    BY <2>2 DEF DtorAbortsUnregistered
  <2> QED
    BY <2>1, <2>2, <2>3, PhaseStepInv
<1>4. ASSUME NEW r \in Values, Sweep(r), aborted = "no" PROVE LifeInv'
  <2>1. CASE r \in fin
    <3>1. TypeOK'
      BY <1>4, <2>1 DEF LifeInv, TypeOK, QomTypeOK, qomVars, Phases, Sweep
    <3>2. /\ UNCHANGED <<qomVars, own, lost, freed>>
          /\ aborted' = "no"
          /\ \A s \in Values : phase'[s] \in {"free", "init"} => phase[s] \in {"free", "init"}
      BY <1>4, <2>1 DEF LifeInv, TypeOK, Sweep
    <3> QED
      BY <1>0, <3>1, <3>2, PhaseStepInv
  <2>2. CASE r \notin fin
    BY <1>4, <2>2, GiveBackInv DEF Sweep, LifeInv, TypeOK
  <2> QED
    BY <2>1, <2>2
<1>5. ASSUME NEW r \in Values, Qt_class_dtor(r), aborted = "no" PROVE LifeInv'
  <2>1. CASE GetObjectById(r) # r
    <3>1. TypeOK'
      BY <1>5, <2>1 DEF LifeInv, TypeOK, QomTypeOK, qomVars, Qt_class_dtor
    <3>2. UNCHANGED <<qomVars, own, lost, phase, freed>>
      BY <1>5, <2>1 DEF Qt_class_dtor
    <3>3. phase'[r] = "zombie" /\ own'[r] = NULL
      BY <1>5, <2>1, <3>2 DEF Qt_class_dtor, LifeInv, BoundLookup
    <3>4. DtorAbortsUnregistered'
      BY <3>3 DEF DtorAbortsUnregistered
    <3> QED
      BY <3>1, <3>2, <3>4, PhaseStepInv
  <2>2. CASE GetObjectById(r) = r
    BY <1>5, <2>2, GiveBackInv DEF Qt_class_dtor, LifeInv, TypeOK
  <2> QED
    BY <2>1, <2>2
<1>6. ASSUME NEW q \in Addrs, PointerReturn(q), aborted = "no" PROVE LifeInv'
  <2>1. PICK r \in Values :
           /\ phase[r] \in {"garbage", "free", "zombie"}
           /\ \/ phase' = [phase EXCEPT ![r] = "ready"] /\ UNCHANGED deadref
              \/ phase' = phase /\ deadref' = TRUE
    BY <1>6 DEF PointerReturn, Finders
  <2>2. UNCHANGED <<qomVars, fin, own, lost, aborted, freed>>
    BY <1>6 DEF PointerReturn
  <2>3. TypeOK'
    BY <2>1, <2>2 DEF LifeInv, TypeOK, QomTypeOK, qomVars, Phases
  <2>4. \A s \in Values : phase'[s] \in {"free", "init"} => phase[s] \in {"free", "init"}
    BY <2>1 DEF LifeInv, TypeOK
  <2> QED
    BY <1>0, <1>6, <2>2, <2>3, <2>4, PhaseStepInv
<1>7. ASSUME NEW q \in Addrs, QtDelete(q), aborted = "no" PROVE LifeInv'
  <2> USE DEF LifeInv
  <2>1. /\ UNCHANGED <<robjs, qobjs, jdobjs, idobjs, infos, nextid>>
        /\ UNCHANGED <<phase, fin, own, aborted, deadref>>
        /\ heap' = heap \ {q}
        /\ freed' = freed \cup {q}
        /\ lost \subseteq lost'
        /\ \A s \in Values : s \notin lost' => s \notin lost /\ own[s] # q
        /\ lost' \subseteq Values
    BY <1>7 DEF QtDelete, TypeOK
  <2>2. TypeOK'
    BY <2>1 DEF TypeOK, QomTypeOK
  <2>3. InfosKept' /\ OwnPhase'
    BY <2>1 DEF InfosKept, OwnPhase
  <2>4. BoundLookup'
    BY <2>1, SameLookups DEF BoundLookup, Finders
  <2>5. NativeKept'
    BY <2>1 DEF NativeKept
  <2>6. Unused' /\ ReverseExact'
    BY <2>1 DEF Unused, ReverseExact, Finders
  <2> QED
    BY <1>0, <1>7, <2>1, <2>2, <2>3, <2>4, <2>5, <2>6
<1>8. CASE UNCHANGED vars
  <2>1. TypeOK' /\ UNCHANGED <<qomVars, own, lost, phase, freed>>
    BY <1>8 DEF vars, lifeVars, LifeInv, TypeOK, QomTypeOK, qomVars
  <2>2. DtorAbortsUnregistered'
    BY <1>8 DEF vars, lifeVars, LifeInv, DtorAbortsUnregistered
  <2> QED
    BY <2>1, <2>2, PhaseStepInv
<1> QED
  BY <1>1, <1>2, <1>3, <1>4, <1>5, <1>6, <1>7, <1>8 DEF Next

LEMMA InitInv == Init => LifeInv
<1> SUFFICES ASSUME Init PROVE LifeInv
  OBVIOUS
<1> USE DEF Init, QomInit
<1>1. QomTypeOK
  BY QomAssumption DEF QomTypeOK, ObjIds
<1>2. TypeOK
  BY <1>1 DEF TypeOK, Phases
<1>3. InfosKept /\ OwnPhase
  BY DEF InfosKept, OwnPhase
<1>4. BoundLookup /\ NativeKept /\ ReverseExact
  BY DEF BoundLookup, NativeKept, ReverseExact
<1>5. Unused /\ DtorAbortsUnregistered
  BY QomAssumption DEF Unused, Finders, DtorAbortsUnregistered
<1> QED
  BY <1>2, <1>3, <1>4, <1>5 DEF LifeInv

(* The inductive invariant of object life (rubyinit.cpp on the registry).  *)
THEOREM LifeInvariant == Spec => []LifeInv
BY InitInv, NextInv, PTL DEF Spec

(* The state of the object layer is well typed in every behaviour.         *)
THEOREM TypeCorrect == Spec => []TypeOK
<1>1. LifeInv => TypeOK
  BY DEF LifeInv
<1> QED
  BY <1>1, LifeInvariant, PTL

(* For any number of slots and addresses, an object whose constructor has  *)
(* run finds its own native object in both directions and by id, although  *)
(* nothing is ever removed from the registry when objects are collected.   *)
THEOREM BoundLookupHolds == Spec => []BoundLookup
<1>1. LifeInv => BoundLookup
  BY DEF LifeInv
<1> QED
  BY <1>1, LifeInvariant, PTL

(* For any number of slots and addresses, no step of the binding frees or  *)
(* shares the native object of an existing Ruby object.                    *)
THEOREM NativeKeptHolds == Spec => []NativeKept
<1>1. LifeInv => NativeKept
  BY DEF LifeInv
<1> QED
  BY <1>1, LifeInvariant, PTL

(* For any number of slots and addresses, the reverse lookup answers the   *)
(* present object for every address where Qt has deleted nothing.          *)
THEOREM ReverseExactHolds == Spec => []ReverseExact
<1>1. LifeInv => ReverseExact
  BY DEF LifeInv
<1> QED
  BY <1>1, LifeInvariant, PTL

(* For any number of slots and addresses, the finalizer dies only of an    *)
(* object whose initialize registered nothing.                             *)
THEOREM DtorAbortsUnregisteredHolds == Spec => []DtorAbortsUnregistered
<1>1. LifeInv => DtorAbortsUnregistered
  BY DEF LifeInv
<1> QED
  BY <1>1, LifeInvariant, PTL
----------------------------------------------------------------------------
(* The refinement mapping, read with the invariant: the object a lookup    *)
(* finds for r is the one made for it.                                     *)
Bound == [r \in Values |-> IF own[r] = NULL THEN NULL ELSE GetObject(r)]

LEMMA BoundIsOwn == LifeInv => Bound = own
BY DEF LifeInv, TypeOK, BoundLookup, Bound

(* Every step is a step of ObjectBinding or leaves its variables alone.    *)
LEMMA BindingStep ==
    ASSUME LifeInv, LifeInv', [Next]_vars
    PROVE  [Binding!Next]_(Binding!vars)
<1>0. Bound = own /\ Bound' = own'
  <2>1. Bound = own
    BY BoundIsOwn
  <2>2. Bound' = own'
    BY DEF LifeInv, TypeOK, BoundLookup, Bound
  <2> QED
    BY <2>1, <2>2
<1>a. own \in [Values -> Addrs \cup {NULL}]
  BY DEF LifeInv, TypeOK
<1> DEFINE
      Creates(r, q) == /\ Bound[r] = NULL /\ q \notin heap
                       /\ Bound' = [Bound EXCEPT ![r] = q]
                       /\ heap' = heap \cup {q}
      CreatesRecord(r, q, q0) == /\ Bound[r] = NULL /\ {q, q0} \cap heap = {}
                                 /\ Bound' = [Bound EXCEPT ![r] = q]
                                 /\ heap' = heap \cup {q, q0}
      Releases(r) == Bound' = [Bound EXCEPT ![r] = NULL] /\ heap' = heap
      Destroys(q) == heap' = heap \ {q} /\ Bound' = Bound
      Step == \/ \E r \in Values, q \in Addrs : Creates(r, q)
              \/ \E r \in Values, q, q0 \in Addrs : CreatesRecord(r, q, q0)
              \/ \E r \in Values : Releases(r)
              \/ \E q \in Addrs : Destroys(q)
              \/ Bound' = Bound /\ heap' = heap
<1>1. ASSUME NEW r \in Values, NEW q \in Addrs, Qt_class_init(r, q) PROVE Step
  <2>1. own[r] = NULL
    BY <1>1 DEF Qt_class_init, LifeInv, OwnPhase
  <2>2. Creates(r, q)
    BY <1>0, <1>1, <2>1 DEF Qt_class_init
  <2> QED
    BY <2>2
<1>2. ASSUME NEW r \in Values, NEW q \in Addrs, NEW q0 \in Addrs,
             GV2Variant_record(r, q, q0)
      PROVE  Step
  <2>1. own[r] = NULL
    BY <1>2 DEF GV2Variant_record, LifeInv, OwnPhase
  <2>2. CreatesRecord(r, q, q0)
    BY <1>0, <1>2, <2>1 DEF GV2Variant_record
  <2> QED
    BY <2>2
<1>3. ASSUME NEW r \in Values, Sweep(r) \/ Qt_class_dtor(r) PROVE Step
  <2>1. heap' = heap /\ (own' = own \/ own' = [own EXCEPT ![r] = NULL])
    BY <1>3 DEF Sweep, Qt_class_dtor, GiveBack, qomVars
  <2> QED
    BY <1>0, <2>1
<1>4. ASSUME NEW q \in Addrs, QtDelete(q) PROVE Step
  <2>1. Destroys(q)
    BY <1>0, <1>4 DEF QtDelete
  <2> QED
    BY <2>1
<1>5. ASSUME \/ \E r \in Values : \/ Qt_class_new_alloc(r)
                                  \/ Qt_class_new_finalizer(r)
                                  \/ Qt_class_new_raises(r)
                                  \/ Drop(r)
                                  \/ Qt_class_method_missing(r)
             \/ \E q \in Addrs : PointerReturn(q)
             \/ UNCHANGED vars
      PROVE  Step
  <2>1. own' = own /\ heap' = heap
    BY <1>5 DEF Qt_class_new_alloc, Qt_class_new_finalizer, Qt_class_new_raises,
                Drop, Qt_class_method_missing, PointerReturn, vars, lifeVars, qomVars
  <2> QED
    BY <1>0, <2>1
<1>6. Step
  BY <1>1, <1>2, <1>3, <1>4, <1>5 DEF Next
<1> QED
  BY <1>6 DEF Bound, Binding!Next, Binding!vars, Binding!Create,
              Binding!CreateRecord, Binding!Release, Binding!Destroy

(* For any number of slots and addresses, the tables implement             *)
(* ObjectBinding: what a lookup answers for a VALUE changes only when that *)
(* VALUE gets its object or is given back, and only Qt destroys natives.   *)
THEOREM ImplementsBindingHolds == Spec => ImplementsBinding
<1>1. Init => Binding!Init
  BY DEF Init, QomInit, Binding!Init
<1>2. LifeInv /\ LifeInv' /\ [Next]_vars => [Binding!Next]_(Binding!vars)
  BY BindingStep
<1> QED
  BY <1>1, <1>2, LifeInvariant, PTL DEF Spec, ImplementsBinding, Binding!Spec
============================================================================
