----------------------------- MODULE CtrlEngine -----------------------------
(***************************************************************************)
(* A call of a Qt function, from CtrlEngine::vm_new, vm_call and           *)
(* vm_static_call to ClvmEngine::execute3 and back: the cache of compiled  *)
(* modules (ModuleManager), the execution engines and the modules they     *)
(* own, and the storage arguments are passed through (gis2).               *)
(*                                                                         *)
(* One thread; from the lookup to runFunction a call is not interrupted.   *)
(* The function it runs may enter an event loop, whose Ruby slots make     *)
(* further calls, of the same function as well, or raise an exception,     *)
(* which Ruby's longjmp takes straight to the rescuing Ruby code: the      *)
(* rest of the execute3's in between is never executed.                    *)
(*                                                                         *)
(* Calls are numbered.  The module call n compiles (qtmod) and the one it  *)
(* runs (remod) are both called n; an engine is called as the qtmod it was *)
(* created from.  A call has one argument.                                 *)
(***************************************************************************)
EXTENDS Naturals, Sequences

CONSTANTS
    Symbols,  \* the functions called: mangled names, the names of qtmods
    Args,     \* values of arguments
    Slots,    \* the elements of gis2's arrays
    SlotOf,   \* the element a function's argument goes through, or NULL
              \* when the value itself is built into the remod
    NULL,
    MaxCalls, \* bound: number of calls
    MaxNest   \* bound: calls running at a time, nested

Calls == 1 .. MaxCalls
Frame == [sym : Symbols, arg : Args, qtmod : Calls, ee : Calls, remod : Calls,
          ran : Symbols, got : Args]

ASSUME CallAssumption ==
    /\ SlotOf \in [Symbols -> Slots \cup {NULL}]
    /\ NULL \notin Slots /\ NULL \notin Calls
    /\ NULL \notin Symbols /\ NULL \notin Args
    /\ MaxCalls \in Nat /\ MaxNest \in Nat

VARIABLES
    modules,  \* ModuleManager::modules: function => qtmod
    ees,      \* ModuleManager::ees: function => engine
    mee,      \* the qtmods ModuleManager::add gave to the common engine
    remods,   \* each engine's modules besides its own qtmod
    entry,    \* the remod an engine's entry name was last linked to
    gis2,     \* the argument storage
    symOf,    \* history: the function each qtmod was compiled from
    argOf,    \* the remods in memory: the value built into each
    stack,    \* the execute3's running now, innermost last
    ncalls,   \* calls so far
    cut       \* history: the remods of calls that exceptions cut short

cacheVars == <<modules, ees, mee, symOf>>
vars == <<cacheVars, remods, entry, gis2, argOf, stack, ncalls, cut>>

TypeOK ==
    /\ modules \in [Symbols -> Calls \cup {NULL}]
    /\ ees \in [Symbols -> Calls \cup {NULL}]
    /\ mee \subseteq Calls
    /\ remods \in [Calls -> SUBSET Calls]
    /\ entry \in [Calls -> Calls \cup {NULL}]
    /\ gis2 \in [Slots -> Args \cup {NULL}]
    /\ symOf \in [Calls -> Symbols \cup {NULL}]
    /\ argOf \in [Calls -> Args \cup {NULL}]
    /\ stack \in Seq(Frame)
    /\ ncalls \in 0 .. MaxCalls
    /\ cut \subseteq Calls

Init ==
    /\ modules = [s \in Symbols |-> NULL]
    /\ ees = [s \in Symbols |-> NULL]
    /\ mee = {}
    /\ remods = [e \in Calls |-> {}]
    /\ entry = [e \in Calls |-> NULL]
    /\ gis2 = [x \in Slots |-> NULL]
    /\ symOf = [n \in Calls |-> NULL]
    /\ argOf = [n \in Calls |-> NULL]
    /\ stack = <<>>
    /\ ncalls = 0
    /\ cut = {}
----------------------------------------------------------------------------
(* The cache.  A qtmod is named after its function, so that the name       *)
(* execute3 takes from the module is the one CtrlEngine looked for.        *)

\* Mutant: the lookup is gone and every call compiles.
QtmodFor_convert(s, n) == n

\* mman->has and get, or the conversion
QtmodFor(s, n) == IF modules[s] # NULL THEN modules[s] ELSE n

\* Mutant: the compiled module is not entered.
Add_nothing(s, m) == UNCHANGED <<modules, mee>>

\* ModuleManager::add: nothing for a name that is known
Add(s, m) ==
    IF modules[s] # NULL
    THEN UNCHANGED <<modules, mee>>
    ELSE /\ modules' = [modules EXCEPT ![s] = m]
         /\ mee' = mee \cup {m}

\* mman->hasEE and getEE, or createEE(qtmod)
EngineFor(s, m) == IF ees[s] # NULL THEN ees[s] ELSE m

AddEE(s, e) ==
    IF ees[s] # NULL THEN UNCHANGED ees ELSE ees' = [ees EXCEPT ![s] = e]
----------------------------------------------------------------------------
(* OperatorEngine::bind, twice a call: the value goes into the IR of the    *)
(* module, or into storage whose address does.                             *)

\* Mutant: an argument without storage is stored beside the arrays.
ConvertToCallArgs_unchecked(s, a) ==
    [x \in Slots \cup {SlotOf[s]} |-> IF x = SlotOf[s] THEN a ELSE gis2[x]]

ConvertToCallArgs(s, a) ==
    IF SlotOf[s] = NULL THEN gis2 ELSE [gis2 EXCEPT ![SlotOf[s]] = a]

\* Mutant: only the call that compiles the function fills the storage.
Bind_once(s, a, n) ==
    /\ argOf' = [argOf EXCEPT ![n] = a]
    /\ gis2' = IF modules[s] # NULL THEN gis2 ELSE ConvertToCallArgs(s, a)

Bind(s, a, n) ==
    /\ argOf' = [argOf EXCEPT ![n] = a]
    /\ gis2' = ConvertToCallArgs(s, a)

(* EE->addModule(remod) and finalizeObject: all remods have the same entry *)
(* name, and the newest one added to an engine gets it.                    *)

\* Mutant: an engine that already has an entry keeps it.
Link_first(e, n) ==
    /\ remods' = [remods EXCEPT ![e] = @ \cup {n}]
    /\ entry' = [entry EXCEPT ![e] = IF @ = NULL THEN n ELSE @]

Link(e, n) ==
    /\ remods' = [remods EXCEPT ![e] = @ \cup {n}]
    /\ entry' = [entry EXCEPT ![e] = n]

\* What the function that engine e's entry calls finds as its argument.
Passed(e) ==
    LET s == symOf'[e]
    IN IF SlotOf[s] = NULL THEN argOf'[entry'[e]] ELSE gis2'[SlotOf[s]]

vm_call(s, a) ==
    /\ ncalls < MaxCalls
    /\ Len(stack) < MaxNest
    /\ ncalls' = ncalls + 1
    /\ LET n == ncalls + 1
           m == QtmodFor(s, n)
           e == EngineFor(s, m)
       IN /\ symOf' = IF m = n THEN [symOf EXCEPT ![n] = s] ELSE symOf
          /\ Bind(s, a, n)
          /\ Add(s, m)
          /\ AddEE(s, e)
          /\ Link(e, n)
          /\ stack' = Append(stack, [sym |-> s, arg |-> a, qtmod |-> m, ee |-> e,
                                     remod |-> n, ran |-> symOf'[e],
                                     got |-> Passed(e)])
    /\ UNCHANGED cut

\* Mutant: the module is left in the engine.
execute3_returns_keeping ==
    /\ stack # <<>>
    /\ stack' = SubSeq(stack, 1, Len(stack) - 1)
    /\ UNCHANGED <<cacheVars, remods, entry, gis2, argOf, ncalls, cut>>

\* runFunction returns; EE->removeModule(remod) hands the module back, and
\* nobody deletes it: argOf stays.
execute3_returns ==
    /\ stack # <<>>
    /\ LET f == stack[Len(stack)]
       IN remods' = [remods EXCEPT ![f.ee] = @ \ {f.remod}]
    /\ stack' = SubSeq(stack, 1, Len(stack) - 1)
    /\ UNCHANGED <<cacheVars, entry, gis2, argOf, ncalls, cut>>

\* A slot raises; the Ruby code that made call k + 1 rescues.
call_ruby_raises(k) ==
    /\ k < Len(stack)
    /\ stack' = SubSeq(stack, 1, k)
    /\ cut' = cut \cup {stack[i].remod : i \in (k + 1) .. Len(stack)}
    /\ UNCHANGED <<cacheVars, remods, entry, gis2, argOf, ncalls>>

Next ==
    \/ \E s \in Symbols, a \in Args : vm_call(s, a)
    \/ execute3_returns
    \/ \E k \in 0 .. MaxNest : call_ruby_raises(k)

Spec == Init /\ [][Next]_vars
----------------------------------------------------------------------------
(* The two tables of ModuleManager name the same functions; a function's   *)
(* engine was created from the module its calls are bound against; and a   *)
(* function is compiled once, also when its first call is still running    *)
(* while it is called again, or was ended by an exception.                 *)
CachesAgree ==
    /\ \A s \in Symbols : modules[s] = ees[s]
    /\ \A m, n \in Calls : symOf[m] # NULL /\ symOf[m] = symOf[n] => m = n
    /\ \A i \in 1 .. Len(stack) :
          stack[i].qtmod = modules[stack[i].sym] /\ stack[i].ee = stack[i].qtmod

(* An engine holds, besides its qtmod, exactly the remods of its running   *)
(* calls, and those of calls an exception cut short: nested calls of one   *)
(* function share an engine, and each removes its own module only.         *)
EnginesClean ==
    \A e \in Calls :
        remods[e] \ cut = {stack[i].remod : i \in {j \in 1 .. Len(stack) : stack[j].ee = e}}

JC == INSTANCE JitCalls WITH
    running <- [i \in 1 .. Len(stack) |->
                   [asked |-> [fn |-> stack[i].sym, arg |-> stack[i].arg],
                    runs |-> [fn |-> stack[i].ran, arg |-> stack[i].got]]],
    compiled <- {s \in Symbols : modules[s] # NULL}

(* Cache, engines, entry names and storage together implement JitCalls: a  *)
(* call runs its own function, not what its engine ran before, with its    *)
(* own arguments.                                                          *)
ImplementsCalls == JC!Spec
=============================================================================
