-------------------------- MODULE QtObjectManager --------------------------
(***************************************************************************)
(* The object registry of qtobjectmanager.cpp: the process-wide table that *)
(* ties a Ruby VALUE to the native Qt object the JIT built for it.         *)
(*                                                                         *)
(* A QHash is a total function that answers NULL for an absent key.  An    *)
(* ObjectInfo is heap memory of its own: infos maps the objid of every     *)
(* ObjectInfo that has been new'ed and not deleted to its fields, so that  *)
(* a map that still points at a deleted one is visible.  heap is the set   *)
(* of native addresses allocated now (vm_new's calloc, free, Qt's delete). *)
(***************************************************************************)
EXTENDS Naturals

CONSTANTS
    Values,    \* RB_VALUE: the object slots of the Ruby heap
    Addrs,     \* void *: addresses native objects can have
    NULL,      \* absent key, null pointer, VALUE 0
    MaxObjId   \* bound: number of ObjectInfo ever created

ASSUME QomAssumption ==
    /\ NULL \notin Values
    /\ NULL \notin Addrs
    /\ MaxObjId \in Nat
    /\ NULL \notin Nat
    /\ NULL \notin [rbobj : Values, qtobj : Addrs]

VARIABLES
    robjs,   \* rb => ObjectInfo*
    qobjs,   \* qt => ObjectInfo*
    jdobjs,  \* rb => qt
    idobjs,  \* rb id => rb; the id of a VALUE is a fixed function of the VALUE
    infos,   \* live ObjectInfo, by objid
    nextid,  \* _Qom::_objid2 + 1
    heap     \* native addresses allocated now

qomVars == <<robjs, qobjs, jdobjs, idobjs, infos, nextid, heap>>

ObjIds == 0 .. (MaxObjId - 1)
ObjectInfo == [rbobj : Values, qtobj : Addrs]

QomTypeOK ==
    /\ robjs \in [Values -> ObjIds \cup {NULL}]
    /\ qobjs \in [Addrs -> ObjIds \cup {NULL}]
    /\ jdobjs \in [Values -> Addrs \cup {NULL}]
    /\ idobjs \in [Values -> Values \cup {NULL}]
    /\ infos \in [ObjIds -> ObjectInfo \cup {NULL}]
    /\ nextid \in 0 .. MaxObjId
    /\ heap \subseteq Addrs

QomInit ==
    /\ robjs = [r \in Values |-> NULL]
    /\ qobjs = [q \in Addrs |-> NULL]
    /\ jdobjs = [r \in Values |-> NULL]
    /\ idobjs = [r \in Values |-> NULL]
    /\ infos = [i \in ObjIds |-> NULL]
    /\ nextid = 0
    /\ heap = {}
----------------------------------------------------------------------------
(* The lookups.  The reverse one scans jdobjs in hash order and answers    *)
(* the first hit, so any member of Finders(q) can be the answer.           *)

GetObject(r) == IF robjs[r] # NULL THEN infos[robjs[r]].qtobj ELSE NULL
Finders(q) == {r \in Values : jdobjs[r] = q}
GetObjectById(id) == idobjs[id]
----------------------------------------------------------------------------
(* addObject: a new ObjectInfo, then every map is overwritten.  What the   *)
(* maps held for r before (another native object, another ObjectInfo) is   *)
(* forgotten, not released.                                                *)

\* Mutant: the two fields are assigned the other way round.
NewObjectInfoSwapped(r, q) ==
    /\ nextid < MaxObjId
    /\ nextid' = nextid + 1
    /\ infos' = [infos EXCEPT ![nextid] = [rbobj |-> q, qtobj |-> r]]

NewObjectInfo(r, q) ==
    /\ nextid < MaxObjId
    /\ nextid' = nextid + 1
    /\ infos' = [infos EXCEPT ![nextid] = [rbobj |-> r, qtobj |-> q]]

\* Mutant: an object that is already registered keeps its entries.
AddObjectOnce(r, q) ==
    /\ NewObjectInfo(r, q)
    /\ robjs' = [robjs EXCEPT ![r] = IF @ = NULL THEN nextid ELSE @]
    /\ qobjs' = [qobjs EXCEPT ![q] = nextid]
    /\ jdobjs' = [jdobjs EXCEPT ![r] = IF @ = NULL THEN q ELSE @]
    /\ idobjs' = [idobjs EXCEPT ![r] = r]

\* Mutant: the table of the reverse lookup is only written the first time.
AddObjectStaleReverse(r, q) ==
    /\ NewObjectInfo(r, q)
    /\ robjs' = [robjs EXCEPT ![r] = nextid]
    /\ qobjs' = [qobjs EXCEPT ![q] = nextid]
    /\ jdobjs' = [jdobjs EXCEPT ![r] = IF @ = NULL THEN q ELSE @]
    /\ idobjs' = [idobjs EXCEPT ![r] = r]

\* Mutant: the id table is not filled.
AddObjectNoId(r, q) ==
    /\ NewObjectInfo(r, q)
    /\ robjs' = [robjs EXCEPT ![r] = nextid]
    /\ qobjs' = [qobjs EXCEPT ![q] = nextid]
    /\ jdobjs' = [jdobjs EXCEPT ![r] = q]
    /\ UNCHANGED idobjs

AddObject(r, q) ==
    /\ NewObjectInfo(r, q)
    /\ robjs' = [robjs EXCEPT ![r] = nextid]
    /\ qobjs' = [qobjs EXCEPT ![q] = nextid]
    /\ jdobjs' = [jdobjs EXCEPT ![r] = q]
    /\ idobjs' = [idobjs EXCEPT ![r] = r]

(* delObject: the entry goes from jdobjs first; a registered object then   *)
(* leaves robjs and qobjs, its native memory and its ObjectInfo are freed, *)
(* and the early return skips idobjs.  Only an object that is not in robjs *)
(* reaches the code that clears idobjs.                                    *)

\* Mutant: the reverse entry of the freed native object stays.
DelObjectKeepsQobjs(r) ==
    /\ jdobjs' = [jdobjs EXCEPT ![r] = NULL]
    /\ IF robjs[r] # NULL
       THEN /\ robjs' = [robjs EXCEPT ![r] = NULL]
            /\ heap' = heap \ {infos[robjs[r]].qtobj}
            /\ infos' = [infos EXCEPT ![robjs[r]] = NULL]
            /\ UNCHANGED <<qobjs, idobjs>>
       ELSE /\ idobjs' = [idobjs EXCEPT ![r] = NULL]
            /\ UNCHANGED <<robjs, qobjs, infos, heap>>
    /\ UNCHANGED nextid

\* Mutant: the native memory is freed and the object stays registered.
DelObjectKeepsRobjs(r) ==
    /\ jdobjs' = [jdobjs EXCEPT ![r] = NULL]
    /\ IF robjs[r] # NULL
       THEN /\ qobjs' = [qobjs EXCEPT ![infos[robjs[r]].qtobj] = NULL]
            /\ heap' = heap \ {infos[robjs[r]].qtobj}
            /\ UNCHANGED <<robjs, infos, idobjs>>
       ELSE /\ idobjs' = [idobjs EXCEPT ![r] = NULL]
            /\ UNCHANGED <<robjs, qobjs, infos, heap>>
    /\ UNCHANGED nextid

DelObject(r) ==
    /\ jdobjs' = [jdobjs EXCEPT ![r] = NULL]
    /\ IF robjs[r] # NULL
       THEN /\ robjs' = [robjs EXCEPT ![r] = NULL]
            /\ qobjs' = [qobjs EXCEPT ![infos[robjs[r]].qtobj] = NULL]
            /\ heap' = heap \ {infos[robjs[r]].qtobj}
            /\ infos' = [infos EXCEPT ![robjs[r]] = NULL]
            /\ UNCHANGED idobjs
       ELSE /\ idobjs' = [idobjs EXCEPT ![r] = NULL]
            /\ UNCHANGED <<robjs, qobjs, infos, heap>>
    /\ UNCHANGED nextid
----------------------------------------------------------------------------
(* The registry on its own, called the way its callers call it: addObject  *)
(* always with memory that vm_new (or a record return) has just allocated, *)
(* for a VALUE that may be registered already; delObject in any order.     *)

Register(r, q) ==
    /\ q \notin heap
    /\ heap' = heap \cup {q}
    /\ AddObject(r, q)

QomNext ==
    \/ \E r \in Values, q \in Addrs : Register(r, q)
    \/ \E r \in Values : DelObject(r)

QomSpec == QomInit /\ [][QomNext]_qomVars
----------------------------------------------------------------------------
(* No map leads to an ObjectInfo that delObject has deleted: the lookups   *)
(* of getObject and the deletes of delObject dereference what they find.   *)
NoDanglingInfo ==
    /\ \A r \in Values : robjs[r] # NULL => infos[robjs[r]] # NULL
    /\ \A q \in Addrs : qobjs[q] # NULL => infos[qobjs[q]] # NULL

(* The forward lookup (robjs, through ObjectInfo) and the table the        *)
(* reverse lookup scans (jdobjs) name the same native object for every     *)
(* VALUE, after any history of addObject and delObject, rebinding of a     *)
(* registered VALUE included.                                              *)
TablesAgree == \A r \in Values : jdobjs[r] = GetObject(r)

(* delObject never frees native memory twice and getObject never answers   *)
(* memory delObject has freed: what a VALUE is registered with is          *)
(* allocated, and no other VALUE is registered with it.                    *)
RegisteredAllocated ==
    \A r \in Values :
        robjs[r] # NULL =>
            /\ GetObject(r) \in heap
            /\ \A s \in Values \ {r} : GetObject(s) # GetObject(r)
============================================================================
