---------------------------- MODULE CallArguments ----------------------------
(***************************************************************************)
(* From a Ruby call to the arguments of the C++ function: the VALUEs       *)
(* become QVariants (MarshallRuby), FrontEngine looks for a declaration    *)
(* that takes them and for its default arguments, and                      *)
(* OperatorEngine::ConvertToCallArgs builds the argument list of the call  *)
(* from both.                                                              *)
(*                                                                         *)
(* What clang says of the Qt headers is a constant; so are the calls made. *)
(* Values are numbers: 0 is the integer 0, the null pointer and false.     *)
(* assert and Q_ASSERT are compiled out, as in the build the tests use.    *)
(***************************************************************************)
EXTENDS Naturals, Sequences, FiniteSetsExt, SequencesExt

CONSTANTS
    Records,   \* classes with a complete definition in the AST
    Bases,     \* [Records -> Seq(names)], in declaration order
    Decls,     \* [Records -> Seq(declarations)], see below
    Called,    \* the calls: [op, klass, method], op "new", "call" or "static"
    Argvs,     \* the Ruby arguments they are made with
    Word,      \* the first four bytes of the object at an address
    NULL,      \* no declaration
    CRASH      \* a null pointer or an empty vector is used: the process ends

(* A declaration: its name (a constructor's is its class's), whether it is *)
(* static, whether it is defaulted, and its parameters.  A parameter: what *)
(* clang answers about its type without the reference (cat, trivial,       *)
(* the names its spelling contains), whether it is a reference, the form   *)
(* of its default argument ("none" without one) and that argument's value. *)
(* Bound to a reference, that is QVariant() or one of Temporaries: another *)
(* class's constructor is a "temporary", what has none is "invalid eval".  *)
Categories == {"bool", "integral", "floating", "pointer", "record"}
Temporaries == {"QChar()", "QFlags()", "temporary", "invalid eval"}
DefaultForms == {"none", "integer", "construct", "null", "constant", "QVariant()"} \cup Temporaries

Names == Records \cup UNION {Range(Bases[c]) : c \in Records}

IsSeq(s) == s \in Seq(Range(s))

ASSUME DeclAssumption ==
    /\ \A c \in Records :
          /\ IsSeq(Bases[c]) /\ IsSeq(Decls[c])
          /\ \A i \in DOMAIN Decls[c] :
                /\ <<c, i>> \notin {NULL, CRASH}
                /\ IsSeq(Decls[c][i].params)
                /\ \A p \in Range(Decls[c][i].params) :
                      /\ p.cat \in Categories /\ p.default \in DefaultForms /\ p.value \in Nat
                      /\ p.default \in {"null", "QVariant()"} => p.value = 0
    /\ NULL # CRASH

\* A base class is complete before a class derives from it.
ASSUME HierarchyAssumption ==
    \A S \in SUBSET Records : S # {} => \E c \in S : Range(Bases[c]) \cap S = {}

\* A constructor is asked for by its class's name; what T_OBJECT gives is an
\* address that can be read, or the null pointer.
ASSUME CallAssumption ==
    /\ \A c \in Called :
          /\ DOMAIN c = {"op", "klass", "method"}
          /\ c.op \in {"new", "call", "static"} /\ c.klass \in Names
          /\ c.op = "new" => c.method = c.klass
    /\ \A argv \in Argvs :
          /\ IsSeq(argv)
          /\ \A v \in Range(argv) :
                /\ v.val \in Nat /\ (v.t = "Range" => v.last \in Nat)
                /\ v.t = "T_OBJECT" => Word[v.val] \in Nat

VARIABLES
    req,      \* the call
    pc,       \* how far it got
    uargs,    \* the user's arguments
    decl,     \* the declaration found: <<class, index>>, NULL or CRASH
    dps,      \* the default arguments: dargs in ConvertToCallArgs
    mtdargs,  \* their MetaTypeVariants' types
    cargs     \* the arguments of the call

vars == <<req, pc, uargs, decl, dps, mtdargs, cargs>>

Variants == {"Int", "QString", "Double", "Bool", "VoidStar", "QStringList",
             "LongLong", "QChar", "EvalType", "QVariant", "Invalid"}
IsVariants(s) == \A i \in DOMAIN s : s[i].type \in Variants /\ s[i].val \in Nat

Request(c, argv) == [op |-> c.op, klass |-> c.klass, method |-> c.method, argv |-> argv]

TypeOK ==
    /\ \E c \in Called : req = Request(c, req.argv)
    /\ req.argv \in Argvs
    /\ pc \in {"marshal", "find", "defaults", "replace", "convert", "call", "crash"}
    /\ IsVariants(uargs) /\ IsVariants(dps) /\ IsVariants(cargs)
    /\ decl \notin {NULL, CRASH} =>
          \E c \in Records : \E i \in DOMAIN Decls[c] : decl = <<c, i>>
    /\ mtdargs \in Seq({"Unknown", "LongLong", "VoidStar", "QVariant", "QChar", "Int", "QString"})

Init ==
    /\ \E c \in Called, argv \in Argvs : req = Request(c, argv)
    /\ pc = "marshal"
    /\ uargs = <<>> /\ dps = <<>> /\ mtdargs = <<>> /\ cargs = <<>>
    /\ decl = NULL
----------------------------------------------------------------------------
(* MarshallRuby                                                            *)
Invalid == [type |-> "Invalid", val |-> 0]

VariantOf == [T_FIXNUM |-> "Int", T_NIL |-> "Int", T_STRING |-> "QString",
              T_FLOAT |-> "Double", T_TRUE |-> "Bool", T_FALSE |-> "Bool",
              T_OBJECT |-> "VoidStar", T_ARRAY |-> "QStringList"]

\* Mutant: integers keep Ruby's width.
VALUE2Variant_long(v) ==
    IF v.t = "T_FIXNUM" THEN [type |-> "Long", val |-> v.val]
    ELSE IF v.t \in DOMAIN VariantOf THEN [type |-> VariantOf[v.t], val |-> v.val] ELSE Invalid

VALUE2Variant(v) ==
    IF v.t \in DOMAIN VariantOf THEN [type |-> VariantOf[v.t], val |-> v.val] ELSE Invalid

\* A Range becomes two integers.
VALUE2Variant2(v) ==
    IF v.t = "Range"
    THEN <<[type |-> "Int", val |-> v.val], [type |-> "Int", val |-> v.last]>>
    ELSE <<VALUE2Variant(v)>>

\* Qt_class_init converts one by one, the method_missings with ranges.
UserArgs(r) ==
    IF r.op = "new"
    THEN [i \in DOMAIN r.argv |-> VALUE2Variant(r.argv[i])]
    ELSE FlattenSeq([i \in DOMAIN r.argv |-> VALUE2Variant2(r.argv[i])])
----------------------------------------------------------------------------
(* FrontEngine: finding the declaration                                    *)

\* method_match_by_uargs, one parameter with a user argument.  A reference
\* to an int takes an Int, no other type looks through the reference; the
\* comparison for QStringList is with 01, not -1, and always true.
Accepts(p, v) ==
    \/ v.type \notin {"VoidStar", "Invalid"} /\ "QVariant" \in p.mentions
    \/ v.type = "Int" /\ p.cat \in {"bool", "integral"}
    \/ v.type = "Int" /\ v.val = 0 /\ p.cat = "pointer" /\ ~p.ref
    \/ v.type = "Double" /\ p.cat = "floating" /\ ~p.ref
    \/ v.type = "Bool" /\ p.cat = "bool" /\ ~p.ref
    \/ v.type = "QString" /\ p.mentions \cap {"QString", "char *"} # {}
    \/ v.type = "VoidStar" /\ (p.ref \/ p.cat = "pointer" \/ p.trivial)
    \/ v.type = "QStringList"

\* Surplus user arguments are not looked at.
Viable(d, ua) ==
    \A i \in DOMAIN d.params :
        IF i <= Len(ua) THEN Accepts(d.params[i], ua[i]) ELSE d.params[i].default # "none"

\* The declarations of class c that find_*_decl collects in mats or ctors
Matches(c, name, static, ua) ==
    {i \in DOMAIN Decls[c] :
        LET d == Decls[c][i] IN d.name = name /\ (static => d.static) /\ Viable(d, ua)}

\* Mutant: the search goes to the bases first.
find_method_decl_basesFirst(klass, name, static, ua) ==
    LET find[c \in Names] ==
          IF c \notin Records THEN CRASH
          ELSE LET mats == Matches(c, name, static, ua)
                   inBases == [i \in DOMAIN Bases[c] |-> find[Bases[c][i]]]
                   found == {i \in DOMAIN Bases[c] : inBases[i] # NULL}
               IN IF found # {} THEN inBases[Min(found)]
                  ELSE IF mats # {} THEN <<c, Min(mats)>> ELSE NULL
    IN find[klass]

\* Mutant: only the first base is searched.
find_method_decl_oneBase(klass, name, static, ua) ==
    LET find[c \in Names] ==
          IF c \notin Records THEN CRASH
          ELSE LET mats == Matches(c, name, static, ua)
               IN IF mats # {} THEN <<c, Min(mats)>>
                  ELSE IF Bases[c] # <<>> THEN find[Head(Bases[c])] ELSE NULL
    IN find[klass]

\* find_method_decl and find_static_method_decl: the first match of the
\* class, or else of its bases in turn.  find_class_decl answers NULL for a
\* class that is not in the AST, a template's instance say, and
\* find_method_decls uses the NULL.
find_method_decl(klass, name, static, ua) ==
    LET find[c \in Names] ==
          IF c \notin Records THEN CRASH
          ELSE LET mats == Matches(c, name, static, ua)
                   inBases == [i \in DOMAIN Bases[c] |-> find[Bases[c][i]]]
                   found == {i \in DOMAIN Bases[c] : inBases[i] # NULL}
               IN IF mats # {} THEN <<c, Min(mats)>>
                  ELSE IF found # {} THEN inBases[Min(found)] ELSE NULL
    IN find[klass]

\* Several matching constructors: the defaulted ones are dropped, then
\* those with fewer parameters than there are arguments, unless one is left.
resolve_callee_decl(c, ctors, ua) ==
    LET res == IF ua # <<>> THEN {i \in ctors : ~Decls[c][i].defaulted} ELSE {}
    IN IF Cardinality(res) <= 1 THEN res
       ELSE {i \in res : Len(Decls[c][i].params) >= Len(ua)}

\* Mutant: the first match is taken, as for methods.
find_ctor_decl_first(klass, ua) ==
    LET ctors == Matches(klass, klass, FALSE, ua)
    IN IF ctors = {} THEN NULL ELSE <<klass, Min(ctors)>>

\* ctors.at(0) on an empty vector ends the process.
find_ctor_decl(klass, ua) ==
    LET ctors == Matches(klass, klass, FALSE, ua)
        left == IF Cardinality(ctors) > 1
                THEN resolve_callee_decl(klass, ctors, ua) ELSE ctors
    IN IF ctors = {} THEN NULL
       ELSE IF left = {} THEN CRASH ELSE <<klass, Min(left)>>
----------------------------------------------------------------------------
(* The call's way                                                          *)
Marshal ==
    /\ pc = "marshal"
    /\ uargs' = UserArgs(req)
    /\ pc' = "find"
    /\ UNCHANGED <<req, decl, dps, mtdargs, cargs>>

\* vm_new, vm_call, vm_static_call: all use the declaration found, NULL too.
Find ==
    /\ pc = "find"
    /\ decl' = IF req.op = "new"
               THEN IF req.klass \in Records THEN find_ctor_decl(req.klass, uargs) ELSE CRASH
               ELSE find_method_decl(req.klass, req.method, req.op = "static", uargs)
    /\ pc' = IF decl' \in {NULL, CRASH} THEN "crash" ELSE "defaults"
    /\ UNCHANGED <<req, uargs, dps, mtdargs, cargs>>

Params == Decls[decl[1]][decl[2]].params

\* What eval_cleanup_expr makes of a temporary: a blank for any QChar; a mark stands for what
\* the default is not, the address of flags just made, a number and the text "invalid eval".
Mark == 99813721
EvalCleanup(form) ==
    CASE form = "QChar()"      -> [type |-> "QChar", val |-> 32]
      [] form = "QFlags()"     -> [type |-> "VoidStar", val |-> Mark]
      [] form = "temporary"    -> [type |-> "Int", val |-> Mark]
      [] form = "invalid eval" -> [type |-> "QString", val |-> Mark]

\* What a parameter appends to dps and to mtdargs.
DpsOf(p) ==
    CASE p.default \in {"none", "QVariant()"} -> <<Invalid>>
      [] p.default = "integer"   -> <<[type |-> "LongLong", val |-> p.value]>>
      [] p.default = "construct" -> <<[type |-> "EvalType", val |-> p.value]>>
      [] p.default = "null"      -> <<[type |-> "VoidStar", val |-> 0]>>
      [] p.default \in Temporaries -> <<EvalCleanup(p.default)>>
      [] OTHER                   -> <<>>   \* "constant"

MtdOf(p) ==
    CASE p.default = "none"       -> <<"Unknown">>
      [] p.default = "integer"    -> <<"LongLong">>
      [] p.default = "null"       -> <<"VoidStar">>
      [] p.default = "QVariant()" -> <<"QVariant">>
      [] p.default \in Temporaries -> <<EvalCleanup(p.default).type>>
      [] OTHER                    -> <<>>   \* "construct" and "constant"

get_method_default_params ==
    /\ pc = "defaults"
    /\ dps' = FlattenSeq([i \in DOMAIN Params |-> DpsOf(Params[i])])
    /\ mtdargs' = FlattenSeq([i \in DOMAIN Params |-> MtdOf(Params[i])])
    /\ pc' = IF req.op = "call" THEN "replace" ELSE "convert"
    /\ UNCHANGED <<req, uargs, decl, cargs>>

\* An object for a class taken by value goes as its first four bytes.
ByValue(p, v) == v.type = "VoidStar" /\ ~p.ref /\ p.cat # "pointer" /\ p.trivial

\* Mutant: the pointer itself stays.
replace_trivial_copy_params_not ==
    /\ pc = "replace"
    /\ pc' = "convert"
    /\ UNCHANGED <<req, uargs, decl, dps, mtdargs, cargs>>

replace_trivial_copy_params ==
    LET replaced == {i \in DOMAIN Params \cap DOMAIN uargs : ByValue(Params[i], uargs[i])}
    IN /\ pc = "replace"
       /\ uargs' = [i \in DOMAIN uargs |->
                       IF i \in replaced
                       THEN [type |-> "Int", val |-> Word[uargs[i].val]] ELSE uargs[i]]
       /\ pc' = IF \E i \in replaced : uargs[i].val = 0 THEN "crash" ELSE "convert"
       /\ UNCHANGED <<req, decl, dps, mtdargs, cargs>>

\* mrg_args: the user's arguments, cut or filled up to the defaults' number
Merged ==
    [i \in DOMAIN dps |->
        IF i <= Len(uargs) /\ uargs[i].type # "Invalid" THEN uargs[i] ELSE dps[i]]

\* The argument that ends the loop: the first whose default is a QVariant.
LastArg ==
    LET qv == {i \in DOMAIN dps \cap DOMAIN mtdargs : mtdargs[i] = "QVariant"}
    IN IF qv = {} THEN Len(dps) ELSE Min(qv)

\* The IR value for an argument; floating point and invalid ones have none,
\* evaluated defaults are an integer 0.
IRValue(i, v) ==
    IF i \in DOMAIN mtdargs /\ mtdargs[i] = "QVariant"
    THEN <<[type |-> "QVariant", val |-> v.val]>>
    ELSE CASE v.type \in {"Double", "Invalid"} -> <<>>
           [] v.type = "EvalType" -> <<[type |-> "Int", val |-> 0]>>
           [] OTHER -> <<v>>

ConvertToCallArgs ==
    /\ pc = "convert"
    /\ cargs' = FlattenSeq([i \in 1 .. LastArg |-> IRValue(i, Merged[i])])
    /\ pc' = "call"
    /\ UNCHANGED <<req, uargs, decl, dps, mtdargs>>

Next ==
    \/ Marshal
    \/ Find
    \/ get_method_default_params
    \/ replace_trivial_copy_params
    \/ ConvertToCallArgs

Spec == Init /\ [][Next]_vars
----------------------------------------------------------------------------
Above[c \in Names] ==
    {c} \cup IF c \in Records THEN UNION {Above[b] : b \in Range(Bases[c])} ELSE {}

\* No class is inherited along two paths, as moc asks of the classes of Qt.
OnePath ==
    \A c \in Records : \A i, j \in DOMAIN Bases[c] :
        i # j => Above[Bases[c][i]] \cap Above[Bases[c][j]] = {}

Searched == pc \notin {"marshal", "find"}
Found == Searched /\ decl \notin {NULL, CRASH}
Given == UserArgs(req)
MatchesIn(c) ==
    IF c \in Records THEN Matches(c, req.method, req.op = "static", Given) ELSE {}

(* A method found in a base class is not hidden: no class between the      *)
(* object's and that base has a match of its own, whatever overloads of    *)
(* the name it declares that do not match.  (With a class inherited along  *)
(* two paths the search would find it on the first and not look at what    *)
(* hides it on the second.)                                                *)
NotHidden ==
    Found /\ req.op # "new" =>
        \A c \in Above[req.klass] \ {decl[1]} : decl[1] \in Above[c] => MatchesIn(c) = {}

(* The search gives up only when no class it looks in has a match; the     *)
(* process ends in it only at a base class that the AST does not define,   *)
(* or at a constructor call that resolve_callee_decl leaves no match for:  *)
(* all are defaulted or have fewer parameters than there are arguments, or *)
(* there is no argument and more than one match.                           *)
GivesUpRightly ==
    /\ Searched /\ decl = NULL =>
          \A c \in IF req.op = "new" THEN {req.klass} ELSE Above[req.klass] : MatchesIn(c) = {}
    /\ Searched /\ decl = CRASH =>
          \/ ~ Above[req.klass] \subseteq Records
          \/ /\ req.op = "new"
             /\ \/ Given = <<>> /\ Cardinality(MatchesIn(req.klass)) > 1
                \/ \A i \in MatchesIn(req.klass) :
                      LET d == Decls[req.klass][i]
                      IN d.defaulted \/ Len(d.params) < Len(Given)

(* No argument of a constructor call is dropped when a matching            *)
(* constructor that is not defaulted would have taken them all.            *)
CtorTakesAll ==
    Found /\ req.op = "new" /\ Len(Params) < Len(Given) =>
        \A i \in MatchesIn(req.klass) :
            \/ Decls[req.klass][i].defaulted
            \/ Len(Decls[req.klass][i].params) < Len(Given)

\* What the code knows how to pass: no floating point, except for a QVariant
\* with a default; that one last, with every default before it in mtdargs;
\* objects by value for methods only; no default it cannot evaluate; and
\* where the default is needed, none it puts 0, a blank or a mark for.
Supported ==
    /\ \A i \in DOMAIN Given \cap DOMAIN Params :
          /\ Given[i].type = "Double" => Params[i].default = "QVariant()"
          /\ ByValue(Params[i], Given[i]) => req.op = "call"
    /\ \A i \in DOMAIN Params :
          /\ Params[i].default # "constant"
          /\ Params[i].default = "QVariant()" =>
                i = Len(Params) /\ \A j \in DOMAIN Params : Params[j].default # "construct"
          /\ i > Len(Given) =>
                /\ Params[i].default \in Temporaries => Params[i].default = "QChar()"
                /\ Params[i].default = "QChar()" => Params[i].value = 32
          /\ i > Len(Given) /\ Params[i].default = "construct" => Params[i].value = 0

Expected(i) ==
    IF i > Len(Given) THEN Params[i].value
    ELSE IF ByValue(Params[i], Given[i]) THEN Word[Given[i].val] ELSE Given[i].val

(* The function called gets an argument for each parameter, at its place:  *)
(* the user's, where there is one, and the default otherwise.              *)
ArgumentsPassed ==
    pc = "call" /\ Supported =>
        /\ Len(cargs) = Len(Params)
        /\ \A i \in DOMAIN Params : cargs[i].val = Expected(i)

(* The function called gets as many arguments as it has parameters.        *)
AllPassed == pc = "call" => Len(cargs) = Len(Params)
=============================================================================
