--------------------------- MODULE CompilerEngine ---------------------------
(***************************************************************************)
(* Compiling a function into a module (compilerengine.cpp): conv_method2,  *)
(* conv_function2 and conv_ctor2 generate its code, and gen_undefs         *)
(* generates, round by round, the code of the inline functions that the    *)
(* code generated so far refers to.  clang knows a function by its         *)
(* declaration, LLVM by its symbol: to generate what a symbol stands for,  *)
(* its declaration has to be found among the expressions of the functions  *)
(* compiled before.  conv_ctor2 goes the other way: gen_undefs2 generates  *)
(* what FindSymbolVisitor meets.  Then gen_darg evaluates the default      *)
(* arguments that are constructed, one after the other, each in the body   *)
(* of one function, __jit_main_tmpl; conv_dargs does so for a module that  *)
(* holds nothing else.                                                     *)
(*                                                                         *)
(* What clang says of the functions, and what its code generator refers    *)
(* to, are constants.  The order in which LLVM lists the functions of a    *)
(* module is left open.  assert and Q_ASSERT are compiled out.             *)
(***************************************************************************)
EXTENDS Naturals, Sequences

CONSTANTS
    Decls,     \* declarations of functions
    Asts,      \* what clang may say of them, see FunctionDecl
    JitMain,   \* __jit_main_tmpl
    NULL,
    MaxRounds  \* the rounds of gen_undefs: 10

ASSUME NullAssumption == NULL \notin Decls /\ JitMain \in Decls

\* A constructor and a destructor have two symbols each; getMangledName
\* answers the complete one.
Variants == {"", "C1", "C2", "D1", "D2"}
Symbols == Decls \X Variants
Symbol(d, k) == IF k = "ctor" THEN <<d, "C1">> ELSE IF k = "dtor" THEN <<d, "D1">> ELSE <<d, "">>

\* A default argument that is a CXXConstructExpr: its constructor, the
\* expressions inside, and the symbols its code refers to
ConstructExpr ==
    [ctor : Decls, calls : SUBSET Decls, others : SUBSET Decls, emits : SUBSET Symbols]

FunctionDecl ==
    [kind : {"ctor", "dtor", "method", "function"},
     tmpl : BOOLEAN,              \* isTemplateInstantiation
     inlined : BOOLEAN,           \* isInlined
     known : BOOLEAN,             \* its symbol is in known_syms (gen_undefs2 has
                                  \* two more)
     called : BOOLEAN,            \* Ruby calls it
     calls : SUBSET Decls,        \* the CallExpr's of its body
     temp : Decls \cup {NULL},    \* the constructor of the body's last
                                  \* CXXTemporaryObjectExpr, NULL without one
     others : SUBSET Decls,       \* its CXXConstructExpr's, and what the
                                  \* initializers of a constructor call
     visits : SUBSET Decls,       \* what FindSymbolVisitor meets in it: calls and
                                  \* CXXConstructExpr's, but none in arguments,
                                  \* temporary objects and initializers
     defaults : Seq(ConstructExpr),
     emits : SUBSET Symbols]      \* the symbols its code refers to

ASSUME AstAssumption ==
    /\ MaxRounds \in Nat
    /\ Asts \subseteq [Decls -> FunctionDecl]
    /\ \A a \in Asts :
          /\ a[JitMain].kind = "function"
          /\ \A d \in Decls : \A i \in DOMAIN a[d].defaults :
                a[a[d].defaults[i].ctor].kind = "ctor"

VARIABLES
    ast,       \* what clang says
    mbdecl,    \* cu->mbdecl: the function compiled
    declared,  \* the functions of cu->mmod
    bodies,    \* those whose code was generated
    twice,     \* history: those whose code was generated over their code
    noinline,  \* cu->mNoinlineSymbols
    froms,     \* where declarations are looked for, in this order
    undefs,    \* cu->mUndefSymbols not yet dealt with in this round; in
               \* gen_undefs2 the mSymbols left
    rounds,    \* cnter of gen_undefs
    dargs,     \* the default arguments to evaluate
    cnter,     \* how many of them have been
    pc,        \* conv, found, dargs, rounds, symbols, done; lost and dtor: the
               \* two qFatals; overflow: of the stack, by the visitor
    mismatch   \* Q_ASSERT(tsym == sym) would have failed

unit == <<declared, bodies, twice, noinline>>
vars == <<ast, mbdecl, unit, froms, undefs, rounds, dargs, cnter, pc, mismatch>>

TypeOK ==
    /\ ast \in [Decls -> FunctionDecl]
    /\ mbdecl \in Decls
    /\ declared \subseteq Symbols
    /\ bodies \subseteq Symbols
    /\ twice \subseteq Symbols
    /\ noinline \subseteq Symbols
    /\ froms \in Seq(Decls)
    /\ undefs \subseteq Symbols
    /\ rounds \in 0 .. MaxRounds
    /\ dargs \in Seq(ConstructExpr)
    /\ cnter \in 0 .. Len(dargs)
    /\ pc \in {"conv", "found", "dargs", "rounds", "symbols", "done", "lost", "dtor", "overflow"}
    /\ mismatch \in BOOLEAN

Init ==
    /\ ast \in Asts
    /\ \E d \in {c \in Decls : ast[c].called} :
          /\ mbdecl \in {d, JitMain}
          /\ dargs \in {<<>>, ast[d].defaults}
    /\ cnter = 0
    /\ declared = {}
    /\ bodies = {}
    /\ twice = {}
    /\ noinline = {}
    /\ froms = <<>>
    /\ undefs = {}
    /\ rounds = 0
    /\ pc = "conv"
    /\ mismatch = FALSE
----------------------------------------------------------------------------
Main(d) == Symbol(d, ast[d].kind)

SymbolsOf(d) ==
    {d} \X (IF ast[d].kind = "ctor" THEN {"C1", "C2"}
            ELSE IF ast[d].kind = "dtor" THEN {"D1", "D2"} ELSE {""})

(* Code generation.  A declaration is not looked at whether it has code    *)
(* already.                                                                *)
Generate(ss, d) ==
    /\ declared' = declared \cup ss \cup ast[d].emits
    /\ bodies' = bodies \cup ss
    /\ twice' = twice \cup (bodies \cap ss)
    /\ UNCHANGED noinline

Declare(ss) ==
    /\ declared' = declared \cup ss
    /\ noinline' = noinline \cup ss
    /\ UNCHANGED <<bodies, twice>>

gen_method(d) == Generate({Main(d)}, d)
gen_method_decl(d) == Declare({Main(d)})
gen_ctor(d) == IF ast[d].inlined THEN Generate(SymbolsOf(d), d) ELSE Declare(SymbolsOf(d))
gen_free_function(d) == IF ast[d].inlined THEN Generate({Main(d)}, d) ELSE Declare({Main(d)})

conv_method2 ==
    /\ pc = "conv" /\ ast[mbdecl].kind = "method"
    /\ IF ast[mbdecl].inlined THEN gen_method(mbdecl) ELSE gen_method_decl(mbdecl)
    /\ froms' = <<mbdecl>>
    /\ pc' = "rounds"
    /\ UNCHANGED <<ast, mbdecl, undefs, rounds, dargs, cnter, mismatch>>

conv_function2 ==
    /\ pc = "conv" /\ ast[mbdecl].kind = "function" /\ mbdecl # JitMain
    /\ gen_free_function(mbdecl)
    /\ froms' = <<mbdecl>>
    /\ pc' = "rounds"
    /\ UNCHANGED <<ast, mbdecl, undefs, rounds, dargs, cnter, mismatch>>

conv_dargs ==
    /\ pc = "conv" /\ mbdecl = JitMain
    /\ pc' = "dargs"
    /\ UNCHANGED <<ast, mbdecl, unit, froms, undefs, rounds, dargs, cnter, mismatch>>

\* What the visitor meets on its way down from d: it runs on the declaration
\* of everything it meets, whether it has been there or not.
Met(d) ==
    {e \in Decls : \A S \in SUBSET Decls :
        ast[d].visits \subseteq S /\ (\A x \in S : ast[x].visits \subseteq S) => e \in S}
Endless(d) == \E e \in Met(d) \cup {d} : e \in Met(e)

conv_ctor2 ==
    /\ pc = "conv" /\ ast[mbdecl].kind = "ctor"
    /\ gen_ctor(mbdecl)
    /\ froms' = <<mbdecl>>
    /\ undefs' = IF Endless(mbdecl) THEN {} ELSE {Main(e) : e \in Met(mbdecl)}
    /\ pc' = IF Endless(mbdecl) THEN "overflow" ELSE "found"
    /\ UNCHANGED <<ast, mbdecl, rounds, dargs, cnter, mismatch>>
----------------------------------------------------------------------------
(* gen_undefs                                                              *)

\* Mutant: one round too many.
find_undef_symbols_more ==
    /\ pc = "rounds" /\ rounds <= MaxRounds
    /\ rounds' = rounds + 1
    /\ undefs' = declared \ (bodies \cup noinline)
    /\ pc' = IF undefs' = {} THEN "dargs" ELSE "symbols"
    /\ UNCHANGED <<ast, mbdecl, unit, froms, dargs, cnter, mismatch>>

\* Mutant: only the function compiled for the call counts as defined.
find_undef_symbols_main ==
    /\ pc = "rounds" /\ rounds < MaxRounds
    /\ rounds' = rounds + 1
    /\ undefs' = declared \ (noinline \cup {Main(mbdecl)})
    /\ pc' = IF undefs' = {} THEN "dargs" ELSE "symbols"
    /\ UNCHANGED <<ast, mbdecl, unit, froms, dargs, cnter, mismatch>>

find_undef_symbols ==
    /\ pc = "rounds" /\ rounds < MaxRounds
    /\ rounds' = rounds + 1
    /\ undefs' = declared \ (bodies \cup noinline)
    /\ pc' = IF undefs' = {} THEN "dargs" ELSE "symbols"
    /\ UNCHANGED <<ast, mbdecl, unit, froms, dargs, cnter, mismatch>>

rounds_end ==
    /\ pc = "rounds" /\ rounds = MaxRounds
    /\ pc' = "dargs"
    /\ UNCHANGED <<ast, mbdecl, unit, froms, undefs, rounds, dargs, cnter, mismatch>>

\* The symbols an expression with declaration e stands for
Means(e) == IF ast[e].kind = "ctor" THEN SymbolsOf(e) ELSE {Main(e)}

\* Mutant: the second search, for constructors and initializers, is left out.
find_callee_decl_first(d, s) ==
    IF s[1] \in ast[d].calls /\ s = Main(s[1]) THEN s[1] ELSE ast[d].temp

\* find_callee_decl_by_symbol, then find_callee_decl_by_symbol2.  The first
\* answers the constructor of a temporary object whatever the symbol.
find_callee_decl(d, s) ==
    IF s[1] \in ast[d].calls /\ s = Main(s[1]) THEN s[1]
    ELSE IF ast[d].temp # NULL THEN ast[d].temp
    ELSE IF s[1] \in ast[d].others /\ s \in Means(s[1]) THEN s[1] ELSE NULL

\* What the search in the default argument answers
InDefault(s) ==
    IF cnter = 0 THEN {}
    ELSE {e \in dargs[cnter].calls : s = Main(e)} \cup {e \in dargs[cnter].others : s \in Means(e)}

\* The first of froms that has an answer, then the default argument
Answering(s) == {i \in 1 .. Len(froms) : find_callee_decl(froms[i], s) # NULL}
Answer(s, d) ==
    \/ \E i \in Answering(s) :
        (\A j \in Answering(s) : i <= j) /\ d = find_callee_decl(froms[i], s)
    \/ Answering(s) = {} /\ d \in InDefault(s)

\* Mutant: without get_decl_with_body: the declaration that the search finds
\* is the one in the class, which need not be marked inline.
gen_callee_found(d) ==
    IF ast[d].known THEN
        IF ast[d].kind = "ctor" THEN gen_ctor(d) ELSE gen_method_decl(d)
    ELSE UNCHANGED unit

\* Only functions on a list are dealt with.  A constructor on it that is not
\* inline is left alone, after assert(1==2).
gen_callee(d) ==
    IF ~ ast[d].known THEN UNCHANGED unit
    ELSE CASE ast[d].kind = "ctor" ->
                  IF ast[d].tmpl \/ ast[d].inlined THEN gen_ctor(d)
                  ELSE UNCHANGED unit
           [] ast[d].kind \in {"method", "dtor"} ->
                  IF ast[d].tmpl \/ ast[d].inlined THEN gen_method(d) ELSE gen_method_decl(d)
           [] ast[d].kind = "function" -> gen_free_function(d)

gen_undef(s, d) ==
    /\ pc = "symbols" /\ s \in undefs
    /\ Answer(s, d)
    /\ ast[d].kind # "dtor" \/ ast[d].tmpl
    /\ gen_callee(d)
    /\ froms' = Append(froms, d)
    /\ mismatch' = (mismatch \/ Main(d) # s)
    /\ undefs' = undefs \ {s}
    /\ pc' = IF undefs' = {} THEN "rounds" ELSE "symbols"
    /\ UNCHANGED <<ast, mbdecl, rounds, dargs, cnter>>

\* The symbol the process died of is kept in undefs.
Fatal(s, why) ==
    /\ pc' = why
    /\ undefs' = {s}
    /\ UNCHANGED <<ast, mbdecl, unit, froms, rounds, dargs, cnter, mismatch>>

gen_undef_lost(s) ==
    /\ pc = "symbols" /\ s \in undefs
    /\ Answering(s) = {} /\ InDefault(s) = {}
    /\ Fatal(s, "lost")

gen_undef_dtor(s, d) ==
    /\ pc = "symbols" /\ s \in undefs
    /\ Answer(s, d)
    /\ ast[d].kind = "dtor" /\ ~ ast[d].tmpl
    /\ Fatal(s, "dtor")

----------------------------------------------------------------------------
(* gen_undefs2, which deals with each function met once, in any order, and *)
(* looks at no symbol of the module; gen_darg.                             *)

gen_undefs2(d) ==
    /\ pc = "found" /\ Main(d) \in undefs
    /\ ast[d].kind # "dtor" \/ ast[d].tmpl
    /\ gen_callee(d)
    /\ undefs' = undefs \ {Main(d)}
    /\ UNCHANGED <<ast, mbdecl, froms, rounds, dargs, cnter, pc, mismatch>>

gen_undefs2_dtor(d) ==
    /\ pc = "found" /\ Main(d) \in undefs
    /\ ast[d].kind = "dtor" /\ ~ ast[d].tmpl
    /\ Fatal(Main(d), "dtor")

gen_undefs2_end ==
    /\ pc = "found" /\ undefs = {}
    /\ pc' = "dargs"
    /\ UNCHANGED <<ast, mbdecl, unit, froms, undefs, rounds, dargs, cnter, mismatch>>

\* The constructor of the default argument is generated, then the argument in
\* the body of __jit_main_tmpl; gen_undefs starts again from mbdecl alone.
gen_darg ==
    /\ pc = "dargs" /\ cnter < Len(dargs)
    /\ LET a == dargs[cnter + 1]
           code == IF ast[a.ctor].inlined THEN SymbolsOf(a.ctor) ELSE {}
       IN  /\ declared' = declared \cup SymbolsOf(a.ctor) \cup {Main(JitMain)} \cup a.emits
                            \cup (IF ast[a.ctor].inlined THEN ast[a.ctor].emits ELSE {})
           /\ bodies' = bodies \cup code \cup {Main(JitMain)}
           /\ twice' = twice \cup (bodies \cap (code \cup {Main(JitMain)}))
           /\ noinline' = noinline \cup (SymbolsOf(a.ctor) \ code)
           /\ froms' = <<mbdecl, a.ctor>>
    /\ cnter' = cnter + 1
    /\ rounds' = 0
    /\ pc' = "rounds"
    /\ UNCHANGED <<ast, mbdecl, undefs, dargs, mismatch>>

dargs_end ==
    /\ pc = "dargs" /\ cnter = Len(dargs)
    /\ pc' = "done"
    /\ UNCHANGED <<ast, mbdecl, unit, froms, undefs, rounds, dargs, cnter, mismatch>>

Next ==
    \/ conv_method2
    \/ conv_function2
    \/ conv_ctor2
    \/ conv_dargs
    \/ find_undef_symbols
    \/ rounds_end
    \/ gen_undefs2_end
    \/ gen_darg
    \/ dargs_end
    \/ \E d \in Decls : gen_undefs2(d) \/ gen_undefs2_dtor(d)
    \/ \E s \in undefs : gen_undef_lost(s)
    \/ \E s \in undefs, d \in Decls : gen_undef(s, d) \/ gen_undef_dtor(s, d)

Spec == Init /\ [][Next]_vars
----------------------------------------------------------------------------
\* A symbol some expression of d stands for
Expressed(d) ==
    {Main(e) : e \in ast[d].calls} \cup UNION {Means(e) : e \in ast[d].others}

\* The same for a default argument
ExpressedBy(a) == {Main(e) : e \in a.calls} \cup UNION {Means(e) : e \in a.others}
Searched(d) == \E i \in 1 .. Len(froms) : froms[i] = d

(* gen_undefs gives up with qFatal only on a symbol no expression stands   *)
(* for, such as the destructor of a temporary, in whatever order the       *)
(* symbols of each round are dealt with; and when it starts again for a    *)
(* default argument, on what a function compiled before refers to, whose   *)
(* declaration it then no longer searches.                                 *)
LostOnlyImplicit ==
    pc = "lost" =>
        \A s \in undefs :
            \/ \E d \in Decls :
                  /\ s \in ast[d].emits
                  /\ IF Searched(d) THEN s \notin Expressed(d) ELSE cnter > 0
            \/ \E k \in 1 .. cnter :
                  s \in dargs[k].emits /\ (k = cnter => s \notin ExpressedBy(dargs[k]))

(* As long as each answer of the search is for the symbol asked for, no    *)
(* function's code is generated a second time: not in a later round, not   *)
(* when several functions call it, not as the other variant of a           *)
(* constructor.  Only gen_darg generates over code, the constructor of a   *)
(* default argument it evaluates and __jit_main_tmpl.                      *)
GeneratedOnce ==
    ~ mismatch =>
        twice \subseteq UNION {SymbolsOf(dargs[k].ctor) \cup {Main(JitMain)} : k \in 1 .. cnter}

(* Under the same condition, when a module is done every inline function   *)
(* on the lists that it uses has code, unless gen_undefs was not called at *)
(* all, and a function with code refers to it where the visitor of         *)
(* gen_undefs2 does not look.                                              *)
EverythingCompiled ==
    pc = "done" /\ ~ mismatch =>
        \A d \in Decls :
            /\ ast[d].inlined /\ ast[d].known
            /\ SymbolsOf(d) \cap declared # {} /\ Main(d) \notin bodies
            => /\ rounds = 0
               /\ \E x \in Decls : /\ Main(x) \in bodies /\ d \notin ast[x].visits
                                    /\ ast[x].emits \cap SymbolsOf(d) # {}

(* compilerengine.cpp:1598, Q_ASSERT(tsym == sym): the declaration found   *)
(* is the one of the symbol looked for.                                    *)
AnswersMatch == ~ mismatch
=============================================================================
