---------------------------- MODULE RubyObjects ----------------------------
(***************************************************************************)
(* The life of the Ruby objects of Qt classes (ruby/rubyinit.cpp) on top of *)
(* the registry: Qt5::Qxxx.new in its three steps, objects made for record *)
(* return values (GV2Variant in ctrlengine.cpp), garbage collection, the   *)
(* finalizer, reuse of the VALUE slot, and the lookups Ruby code causes.   *)
(*                                                                         *)
(* The live code never calls delObject and never frees native memory; Qt   *)
(* does, with deleteLater and parent destructors, without telling the      *)
(* registry.                                                               *)
(***************************************************************************)
EXTENDS QtObjectManager

CONSTANTS
    SuperSkipped,  \* may a Ruby subclass have an initialize without super?
    QtDeletes      \* may Qt delete native objects?

ASSUME RubyAssumption == SuperSkipped \in BOOLEAN /\ QtDeletes \in BOOLEAN

VARIABLES
    phase,     \* where each VALUE slot is in its life
    fin,       \* slots whose object has the Qt_class_dtor finalizer
    own,       \* history: the native object made for the slot's present object
    lost,      \* history: slots whose own native object was deleted by Qt
    aborted,   \* the assertion the process died of, or "no"
    deadref,   \* a lookup has handed Ruby the VALUE of a collected object
    freed      \* history: the addresses of native objects Qt has deleted

lifeVars == <<phase, fin, own, lost, aborted, deadref, freed>>
vars == <<qomVars, lifeVars>>

\* free, after rb_obj_alloc, after Qt_class_init, in use, unreachable,
\* swept with its finalizer pending
Phases == {"free", "init", "inited", "ready", "garbage", "zombie"}

TypeOK ==
    /\ QomTypeOK
    /\ phase \in [Values -> Phases]
    /\ fin \subseteq Values
    /\ own \in [Values -> Addrs \cup {NULL}]
    /\ lost \subseteq Values
    /\ aborted \in {"no", "call", "dtor"}
    /\ deadref \in BOOLEAN
    /\ freed \subseteq Addrs

Init ==
    /\ QomInit
    /\ phase = [r \in Values |-> "free"]
    /\ fin = {}
    /\ own = [r \in Values |-> NULL]
    /\ lost = {}
    /\ aborted = "no"
    /\ deadref = FALSE
    /\ freed = {}
----------------------------------------------------------------------------
(* Qt5::Qxxx.new: rb_obj_alloc, then initialize, then the finalizer.  Ruby *)
(* code runs inside initialize (a subclass's own, the block of new), so    *)
(* steps of other objects come between.                                    *)

Qt_class_new_alloc(r) ==
    /\ phase[r] = "free"
    /\ phase' = [phase EXCEPT ![r] = "init"]
    /\ UNCHANGED <<qomVars, fin, own, lost, aborted, deadref, freed>>

\* vm_new (calloc and the constructor), then addObject
Qt_class_init(r, q) ==
    /\ phase[r] = "init"
    /\ q \notin heap
    /\ heap' = heap \cup {q}
    /\ AddObject(r, q)
    /\ phase' = [phase EXCEPT ![r] = "inited"]
    /\ own' = [own EXCEPT ![r] = q]
    /\ UNCHANGED <<fin, lost, aborted, deadref, freed>>

Qt_class_new_finalizer(r) ==
    /\ phase[r] = "inited" \/ (SuperSkipped /\ phase[r] = "init")
    /\ phase' = [phase EXCEPT ![r] = "ready"]
    /\ fin' = fin \cup {r}
    /\ UNCHANGED <<qomVars, own, lost, aborted, deadref, freed>>

\* initialize, or the block of new, raises: new never gets to the finalizer
Qt_class_new_raises(r) ==
    /\ phase[r] \in {"init", "inited"}
    /\ phase' = [phase EXCEPT ![r] = "garbage"]
    /\ UNCHANGED <<qomVars, fin, own, lost, aborted, deadref, freed>>

(* A method returned a record.  The result is already in memory q;         *)
(* rb_class_new_instance makes r, whose initialize constructs and registers*)
(* q0, and the second addObject replaces q0 by q.  The singleton new is    *)
(* not involved, so there is no finalizer.                                 *)

\* Mutant: the result is registered only when r has no entry.
GV2VariantKeepsDefault(r, q, q0) ==
    /\ phase[r] = "free"
    /\ q # q0 /\ {q, q0} \cap heap = {}
    /\ heap' = heap \cup {q, q0}
    /\ AddObject(r, q0)
    /\ phase' = [phase EXCEPT ![r] = "ready"]
    /\ own' = [own EXCEPT ![r] = q]
    /\ UNCHANGED <<fin, lost, aborted, deadref, freed>>

GV2Variant_record(r, q, q0) ==
    /\ phase[r] = "free"
    /\ q # q0 /\ {q, q0} \cap heap = {}
    /\ nextid + 1 < MaxObjId
    /\ heap' = heap \cup {q, q0}
    /\ nextid' = nextid + 2
    /\ infos' = [infos EXCEPT ![nextid] = [rbobj |-> r, qtobj |-> q0],
                              ![nextid + 1] = [rbobj |-> r, qtobj |-> q]]
    /\ robjs' = [robjs EXCEPT ![r] = nextid + 1]
    /\ qobjs' = [qobjs EXCEPT ![q0] = nextid, ![q] = nextid + 1]
    /\ jdobjs' = [jdobjs EXCEPT ![r] = q]
    /\ idobjs' = [idobjs EXCEPT ![r] = r]
    /\ phase' = [phase EXCEPT ![r] = "ready"]
    /\ own' = [own EXCEPT ![r] = q]
    /\ UNCHANGED <<fin, lost, aborted, deadref, freed>>
----------------------------------------------------------------------------
(* The garbage collector, and the finalizer it calls for swept objects.    *)

Drop(r) ==
    /\ phase[r] = "ready"
    /\ phase' = [phase EXCEPT ![r] = "garbage"]
    /\ UNCHANGED <<qomVars, fin, own, lost, aborted, deadref, freed>>

GiveBack(r) ==
    /\ phase' = [phase EXCEPT ![r] = "free"]
    /\ fin' = fin \ {r}
    /\ own' = [own EXCEPT ![r] = NULL]
    /\ lost' = lost \ {r}

Sweep(r) ==
    /\ phase[r] = "garbage"
    /\ IF r \in fin
       THEN /\ phase' = [phase EXCEPT ![r] = "zombie"]
            /\ UNCHANGED <<fin, own, lost>>
       ELSE GiveBack(r)
    /\ UNCHANGED <<qomVars, aborted, deadref, freed>>

\* Mutant: the commented-out vm_delete is put back.
Qt_class_dtor_deletes(r) ==
    /\ phase[r] = "zombie"
    /\ IF GetObjectById(r) # r
       THEN /\ aborted' = "dtor"
            /\ UNCHANGED <<qomVars, phase, fin, own, lost>>
       ELSE /\ GiveBack(r)
            /\ heap' = heap \ {GetObject(r)}
            /\ UNCHANGED <<robjs, qobjs, jdobjs, idobjs, infos, nextid, aborted>>
    /\ UNCHANGED <<deadref, freed>>

\* The object is looked up by id, checked, and left where it is: vm_delete
\* is commented out and nothing leaves the registry.
Qt_class_dtor(r) ==
    /\ phase[r] = "zombie"
    /\ IF GetObjectById(r) # r
       THEN /\ aborted' = "dtor"
            /\ UNCHANGED <<phase, fin, own, lost>>
       ELSE /\ GiveBack(r)
            /\ UNCHANGED aborted
    /\ UNCHANGED <<qomVars, deadref, freed>>
----------------------------------------------------------------------------
(* Ruby calls a method of r: without an entry the assertion fails.  With   *)
(* one the call goes to that native object and the object layer does not   *)
(* change (what Qt does to its own objects is QtDelete).                   *)
Qt_class_method_missing(r) ==
    /\ phase[r] \in {"init", "inited", "ready"}
    /\ GetObject(r) = NULL
    /\ aborted' = "call"
    /\ UNCHANGED <<qomVars, phase, fin, own, lost, deadref, freed>>

\* A pointer or a reference to q comes back from Qt ($qApp included) and is
\* answered by an entry of the reverse table, whatever became of its VALUE.
PointerReturn(q) ==
    /\ q \in heap
    /\ \E r \in Finders(q) :
          \/ /\ phase[r] = "garbage"
             /\ phase' = [phase EXCEPT ![r] = "ready"]
             /\ UNCHANGED deadref
          \/ /\ phase[r] \in {"free", "zombie"}
             /\ deadref' = TRUE
             /\ UNCHANGED phase
    /\ UNCHANGED <<qomVars, fin, own, lost, aborted, freed>>

\* deleteLater, a parent's destructor
QtDelete(q) ==
    /\ QtDeletes
    /\ q \in heap
    /\ heap' = heap \ {q}
    /\ lost' = lost \cup {r \in Values : own[r] = q /\ r \notin lost}
    /\ freed' = freed \cup {q}
    /\ UNCHANGED <<robjs, qobjs, jdobjs, idobjs, infos, nextid>>
    /\ UNCHANGED <<phase, fin, own, aborted, deadref>>
----------------------------------------------------------------------------
Next ==
    /\ aborted = "no"
    /\ \/ \E r \in Values :
            \/ Qt_class_new_alloc(r)
            \/ Qt_class_new_finalizer(r)
            \/ Qt_class_new_raises(r)
            \/ Drop(r)
            \/ Sweep(r)
            \/ Qt_class_dtor(r)
            \/ Qt_class_method_missing(r)
       \/ \E r \in Values, q \in Addrs : Qt_class_init(r, q)
       \/ \E r \in Values, q, q0 \in Addrs : GV2Variant_record(r, q, q0)
       \/ \E q \in Addrs : PointerReturn(q) \/ QtDelete(q)

Spec == Init /\ [][Next]_vars
----------------------------------------------------------------------------
(* A Ruby object whose constructor has run finds, in both directions and   *)
(* by id, the native object made for it: never the one of an object that   *)
(* had its VALUE slot before and was collected without leaving a table.    *)
BoundLookup ==
    \A r \in Values :
        own[r] # NULL =>
            /\ GetObject(r) = own[r]
            /\ r \in Finders(own[r])
            /\ GetObjectById(r) = r

(* The native object of a Ruby object is allocated, and is nobody else's,  *)
(* until Qt deletes it: no step of the binding (a finalizer that finds a   *)
(* stale entry, say) gives its memory back.                                *)
NativeKept ==
    \A r \in Values :
        (own[r] # NULL /\ r \notin lost) =>
            /\ own[r] \in heap
            /\ \A s \in Values \ {r} : s \in lost \/ own[s] # own[r]

(* As long as Qt has deleted nothing at its address, a pointer that Qt     *)
(* returns for the native object of an existing Ruby object is answered    *)
(* with exactly that object, although the table it scans also holds every  *)
(* object ever collected.                                                  *)
ReverseExact ==
    \A r \in Values :
        (own[r] # NULL /\ own[r] \notin freed) => Finders(own[r]) = {r}

(* The finalizer dies (assertion and qFatal("object dtor error") of        *)
(* Qt_class_dtor) only of an object whose initialize registered nothing;   *)
(* of any other it finds the object itself under the id it is given,       *)
(* whatever had its VALUE slot before.                                     *)
DtorAbortsUnregistered ==
    aborted = "dtor" => \E r \in Values : phase[r] = "zombie" /\ own[r] = NULL

(* The finalizer never fails at all.                                       *)
DtorFindsObject == aborted # "dtor"

Binding == INSTANCE ObjectBinding WITH
    bound <- [r \in Values |-> IF own[r] = NULL THEN NULL ELSE GetObject(r)],
    live <- heap

(* The tables implement the promise of ObjectBinding.                      *)
ImplementsBinding == Binding!Spec
============================================================================
