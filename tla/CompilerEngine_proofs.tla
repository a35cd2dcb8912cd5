------------------------ MODULE CompilerEngine_proofs ------------------------
(***************************************************************************)
(* Proofs about the compilation of a function and what it needs, for any   *)
(* functions, references between them and limit on the rounds.             *)
(***************************************************************************)
EXTENDS CompilerEngine, FiniteSets, FiniteSetTheorems, TLAPS

(* Where a declaration in the module comes from: it has code, it is left   *)
(* to a library, or code refers to it: that of a function that is searched *)
(* in the module of a method or function without default arguments; that   *)
(* of any function or default argument else.                               *)
Emitted(s) ==
    \/ \E d \in Decls : s \in ast[d].emits
    \/ \E k \in 1 .. cnter : s \in dargs[k].emits
Referred(s) ==
    IF cnter = 0 /\ ast[mbdecl].kind # "ctor"
    THEN \E i \in 1 .. Len(froms) : s \in ast[froms[i]].emits
    ELSE Emitted(s)
DeclaredFrom == \A s \in declared : s \in bodies \/ s \in noinline \/ Referred(s)
UndefFrom == pc = "symbols" => \A s \in undefs : Referred(s)

(* The variants of a constructor are generated together.                   *)
Paired == \A d \in Decls : <<d, "C1">> \in bodies <=> <<d, "C2">> \in bodies

(* While the answers match, what is still to be dealt with in a round, or  *)
(* of what the visitor met, has no code.                                   *)
UndefEmpty ==
    pc \in {"symbols", "found"} /\ ~ mismatch =>
        \A d \in Decls : Main(d) \in undefs => Main(d) \notin bodies

Fresh ==
    pc = "conv" => declared = {} /\ bodies = {} /\ twice = {} /\ undefs = {} /\ cnter = 0

(* gen_undefs2 runs first in the module of a constructor, gen_undefs only  *)
(* for its default arguments.                                              *)
Phases ==
    /\ pc = "found" => ast[mbdecl].kind = "ctor" /\ cnter = 0
    /\ pc \in {"rounds", "symbols"} /\ cnter = 0 => ast[mbdecl].kind # "ctor"

(* What clang says does not change.                                        *)
Given ==
    /\ ast \in Asts
    /\ dargs = <<>> \/ \E d \in Decls : dargs = ast[d].defaults

GenInv ==
    /\ TypeOK /\ DeclaredFrom /\ UndefFrom /\ LostOnlyImplicit
    /\ Paired /\ UndefEmpty /\ Fresh /\ Phases /\ Given /\ GeneratedOnce
----------------------------------------------------------------------------
LEMMA MainSymbol ==
    ASSUME TypeOK, NEW d \in Decls
    PROVE  /\ Main(d) \in Symbols
           /\ Main(d)[1] = d
           /\ SymbolsOf(d) \subseteq Symbols
           /\ Main(d) \in SymbolsOf(d)
           /\ \A e \in Decls : e # d => Main(e) \notin SymbolsOf(d)
           /\ \A e \in Decls : e # d => Main(e) # Main(d)
           /\ ast[d].kind = "ctor" =>
                 Main(d) = <<d, "C1">> /\ SymbolsOf(d) = {d} \X {"C1", "C2"}
           /\ ast[d].kind # "ctor" =>
                 Main(d) # <<d, "C1">> /\ Main(d) # <<d, "C2">>
<1>1. ast[d].kind \in {"ctor", "dtor", "method", "function"}
  BY DEF TypeOK, FunctionDecl
<1>2. \A e \in Decls : Main(e)[1] = e
  BY DEF Main, Symbol
<1>3. \A s \in SymbolsOf(d) : s[1] = d
  BY DEF SymbolsOf
<1>4. CASE ast[d].kind = "ctor"
  <2>1. Main(d) = <<d, "C1">>
    BY <1>4 DEF Main, Symbol
  <2>2. SymbolsOf(d) = {d} \X {"C1", "C2"}
    BY <1>4 DEF SymbolsOf
  <2>3. Main(d) \in SymbolsOf(d)
    BY <2>1, <2>2
  <2>4. SymbolsOf(d) \subseteq Symbols
    BY <2>2 DEF Symbols, Variants
  <2>5. \A e \in Decls : e # d => Main(e) \notin SymbolsOf(d) /\ Main(e) # Main(d)
    BY <1>2, <1>3
  <2>6. Main(d)[1] = d
    BY <1>2
  <2> HIDE DEF Main, SymbolsOf, Symbols
  <2> QED
    BY <1>4, <2>1, <2>2, <2>3, <2>4, <2>5, <2>6
<1>5. CASE ast[d].kind = "dtor"
  BY <1>2, <1>3, <1>5 DEF Main, Symbol, SymbolsOf, Symbols, Variants
<1>6. CASE ast[d].kind \in {"method", "function"}
  BY <1>2, <1>3, <1>6 DEF Main, Symbol, SymbolsOf, Symbols, Variants
<1> QED
  BY <1>1, <1>4, <1>5, <1>6

(* What each way of generating or declaring d does to the module: it adds  *)
(* the code or the declaration of the symbols of d, and what its code      *)
(* refers to.                                                              *)
Adds(d) ==
    \E ss \in {{Main(d)}, SymbolsOf(d)} :
        /\ ast[d].kind = "ctor" => ss = SymbolsOf(d)
        /\ ast[d].kind # "ctor" => ss = {Main(d)}
        /\ Generate(ss, d) \/ Declare(ss)

LEMMA GeneratesAdds ==
    ASSUME TypeOK, NEW d \in Decls,
           \/ ast[d].kind # "ctor" /\ (gen_method(d) \/ gen_method_decl(d) \/ gen_free_function(d))
           \/ ast[d].kind = "ctor" /\ gen_ctor(d)
    PROVE  Adds(d)
<1>1. CASE ast[d].kind = "ctor" /\ gen_ctor(d)
  BY <1>1 DEF Adds, gen_ctor
<1>2. CASE /\ ast[d].kind # "ctor"
           /\ gen_method(d) \/ gen_method_decl(d) \/ gen_free_function(d)
  BY <1>2 DEF Adds, gen_method, gen_method_decl, gen_free_function
<1> QED
  BY <1>1, <1>2

LEMMA CalleeAdds ==
    ASSUME TypeOK, NEW d \in Decls, gen_callee(d)
    PROVE  Adds(d) \/ UNCHANGED unit
<1>1. ast[d].kind \in {"ctor", "dtor", "method", "function"}
  BY DEF TypeOK, FunctionDecl
<1>2. CASE ~ ast[d].known
  BY <1>2 DEF gen_callee
<1>3. CASE ast[d].known /\ ast[d].kind = "ctor"
  <2>1. gen_ctor(d) \/ UNCHANGED unit
    BY <1>3 DEF gen_callee
  <2> QED
    BY <1>3, <2>1, GeneratesAdds
<1>4. CASE ast[d].known /\ ast[d].kind # "ctor"
  <2>1. gen_method(d) \/ gen_method_decl(d) \/ gen_free_function(d)
    BY <1>1, <1>4 DEF gen_callee
  <2> QED
    BY <1>4, <2>1, GeneratesAdds
<1> QED
  BY <1>2, <1>3, <1>4
----------------------------------------------------------------------------
(* Adding the code of d and searching it from now on, or adding it to the  *)
(* module of a constructor, keeps what is known of the module.             *)
LEMMA AddsKeeps ==
    ASSUME GenInv, NEW d \in Decls, Adds(d) \/ UNCHANGED unit,
           UNCHANGED <<ast, mbdecl, dargs, cnter>>, froms' \in Seq(Decls),
           \/ froms' = Append(froms, d)
           \/ cnter = 0 /\ ast[mbdecl].kind = "ctor"
    PROVE  /\ declared' \subseteq Symbols /\ bodies' \subseteq Symbols
           /\ twice' \subseteq Symbols /\ noinline' \subseteq Symbols
           /\ DeclaredFrom' /\ Paired'
           /\ \A s : Referred(s) => Referred(s)'
           /\ bodies' \subseteq bodies \cup SymbolsOf(d)
<1> USE DEF GenInv
<1>1. /\ ast \in [Decls -> FunctionDecl]
      /\ froms \in Seq(Decls)
      /\ declared \subseteq Symbols /\ bodies \subseteq Symbols
      /\ twice \subseteq Symbols /\ noinline \subseteq Symbols
  BY DEF TypeOK
<1>2. ASSUME cnter = 0 /\ ast[mbdecl].kind # "ctor"
      PROVE  /\ \A s : Referred(s) => Referred(s)'
             /\ \A s \in ast[d].emits : Referred(s)'
  <2>1. /\ Len(froms') = Len(froms) + 1
        /\ Len(froms) \in Nat
        /\ froms'[Len(froms')] = d
        /\ \A i \in 1 .. Len(froms) : froms'[i] = froms[i]
    BY <1>1, <1>2
  <2>2. \A s : Referred(s)' <=> \E i \in 1 .. Len(froms') : s \in ast[froms'[i]].emits
    BY <1>2 DEF Referred
  <2>3. ASSUME NEW s, Referred(s) PROVE Referred(s)'
    <3>1. PICK i \in 1 .. Len(froms) : s \in ast[froms[i]].emits
      BY <1>2, <2>3 DEF Referred
    <3>2. i \in 1 .. Len(froms') /\ froms'[i] = froms[i]
      BY <2>1, <3>1
    <3> QED
      BY <2>2, <3>1, <3>2
  <2>4. ASSUME NEW s \in ast[d].emits PROVE Referred(s)'
    <3>1. Len(froms') \in 1 .. Len(froms')
      BY <2>1
    <3> QED
      BY <2>1, <2>2, <2>4, <3>1
  <2> QED
    BY <2>3, <2>4
<1>3. ASSUME ~ (cnter = 0 /\ ast[mbdecl].kind # "ctor")
      PROVE  /\ \A s : Referred(s) => Referred(s)'
             /\ \A s \in ast[d].emits : Referred(s)'
  BY <1>3 DEF Referred, Emitted
<1>4. /\ \A s : Referred(s) => Referred(s)'
      /\ \A s \in ast[d].emits : Referred(s)'
  BY <1>2, <1>3
<1> HIDE DEF Referred
<1>5. CASE UNCHANGED unit
  <2>1. DeclaredFrom' /\ Paired'
    BY <1>4, <1>5 DEF DeclaredFrom, Paired, unit
  <2> QED
    BY <1>1, <1>4, <1>5, <2>1 DEF unit
<1>6. CASE Adds(d)
  <2>1. PICK ss \in {{Main(d)}, SymbolsOf(d)} :
           /\ ast[d].kind = "ctor" => ss = SymbolsOf(d)
           /\ ast[d].kind # "ctor" => ss = {Main(d)}
           /\ Generate(ss, d) \/ Declare(ss)
    BY <1>6 DEF Adds
  <2>2. ss \subseteq SymbolsOf(d) /\ ss \subseteq Symbols
    BY <2>1, MainSymbol
  <2>3. ast[d].emits \subseteq Symbols
    BY <1>1 DEF FunctionDecl
  <2>4. CASE Generate(ss, d)
    <3>1. /\ declared' = declared \cup ss \cup ast[d].emits
          /\ bodies' = bodies \cup ss
          /\ twice' = twice \cup (bodies \cap ss)
          /\ noinline' = noinline
      BY <2>4 DEF Generate
    <3>2. DeclaredFrom'
      <4> SUFFICES ASSUME NEW s \in declared'
                   PROVE  s \in bodies' \/ s \in noinline' \/ Referred(s)'
        BY DEF DeclaredFrom
      <4>1. CASE s \in declared
        BY <4>1, <3>1, <1>4 DEF DeclaredFrom
      <4>2. CASE s \in ss
        BY <4>2, <3>1
      <4>3. CASE s \in ast[d].emits
        BY <4>3, <1>4
      <4> QED
        BY <3>1, <4>1, <4>2, <4>3
    <3>3. Paired'
      <4>1. ASSUME NEW e \in Decls, e # d
            PROVE  <<e, "C1">> \notin ss /\ <<e, "C2">> \notin ss
        BY <2>2, <4>1 DEF SymbolsOf
      <4>2. <<d, "C1">> \in ss <=> <<d, "C2">> \in ss
        BY <2>1, MainSymbol DEF GenInv
      <4> QED
        BY <3>1, <4>1, <4>2 DEF Paired
    <3> QED
      BY <1>1, <1>4, <2>2, <2>3, <3>1, <3>2, <3>3
  <2>5. CASE Declare(ss)
    <3>1. /\ declared' = declared \cup ss
          /\ noinline' = noinline \cup ss
          /\ bodies' = bodies /\ twice' = twice
      BY <2>5 DEF Declare
    <3>2. DeclaredFrom'
      BY <3>1, <1>4 DEF DeclaredFrom
    <3>3. Paired'
      BY <3>1 DEF Paired
    <3> QED
      BY <1>1, <1>4, <2>2, <3>1, <3>2, <3>3
  <2> QED
    BY <2>1, <2>4, <2>5
<1> QED
  BY <1>5, <1>6

(* Code is generated over code only for a function with code already.      *)
LEMMA AddsOnce ==
    ASSUME GenInv, NEW d \in Decls, Adds(d) \/ UNCHANGED unit, Main(d) \notin bodies
    PROVE  twice' = twice
<1>1. CASE UNCHANGED unit
  BY <1>1 DEF unit
<1>2. CASE Adds(d)
  <2>1. PICK ss \in {{Main(d)}, SymbolsOf(d)} :
           /\ ast[d].kind = "ctor" => ss = SymbolsOf(d)
           /\ ast[d].kind # "ctor" => ss = {Main(d)}
           /\ Generate(ss, d) \/ Declare(ss)
    BY <1>2 DEF Adds
  <2>2. bodies \cap ss = {}
    <3>1. CASE ast[d].kind = "ctor"
      BY <3>1, <2>1, MainSymbol DEF GenInv, Paired
    <3>2. CASE ast[d].kind # "ctor"
      BY <3>2, <2>1
    <3> QED
      BY <3>1, <3>2
  <2> QED
    BY <2>1, <2>2 DEF Generate, Declare
<1> QED
  BY <1>1, <1>2

(* The search finds what an expression stands for.                         *)
LEMMA SearchComplete ==
    ASSUME TypeOK, NEW s \in Symbols, NEW d \in Decls, find_callee_decl(d, s) = NULL
    PROVE  s \notin Expressed(d)
<1> SUFFICES ASSUME s \in Expressed(d) PROVE FALSE
  OBVIOUS
<1>0. ast[d].calls \subseteq Decls /\ ast[d].others \subseteq Decls
  BY DEF TypeOK, FunctionDecl
<1>1. ASSUME NEW e \in ast[d].calls, s = Main(e) PROVE FALSE
  <2>1. s[1] = e /\ e \in Decls
    BY <1>0, <1>1, MainSymbol
  <2> QED
    BY <1>1, <2>1, NullAssumption DEF find_callee_decl
<1>2. ASSUME NEW e \in ast[d].others, s \in Means(e) PROVE FALSE
  <2>0. e \in Decls
    BY <1>0, <1>2
  <2>1. s[1] = e
    BY <1>2, <2>0, MainSymbol DEF Means, SymbolsOf
  <2> QED
    BY <1>2, <2>0, <2>1, NullAssumption DEF find_callee_decl
<1> QED
  BY <1>1, <1>2 DEF Expressed
----------------------------------------------------------------------------
LEMMA InitInv == Init => GenInv
<1> SUFFICES ASSUME Init PROVE GenInv
  OBVIOUS
<1>1. ast \in [Decls -> FunctionDecl] /\ 0 \in 0 .. MaxRounds
  BY AstAssumption DEF Init
<1>2. PICK d \in Decls : mbdecl \in {d, JitMain} /\ dargs \in {<<>>, ast[d].defaults}
  BY DEF Init
<1>3. mbdecl \in Decls /\ dargs \in Seq(ConstructExpr)
  <2>1. ast[d].defaults \in Seq(ConstructExpr)
    BY <1>1 DEF FunctionDecl
  <2>2. mbdecl \in Decls
    BY <1>2, NullAssumption
  <2>3. CASE dargs = <<>>
    BY <2>2, <2>3
  <2> QED
    BY <1>2, <2>1, <2>2, <2>3
<1>4. Given
  BY <1>2 DEF Init, Given
<1>5. TypeOK
  <2>1. froms \in Seq(Decls)
    BY DEF Init
  <2>2. cnter \in 0 .. Len(dargs)
    BY <1>3 DEF Init
  <2> QED
    BY <1>1, <1>3, <2>1, <2>2 DEF Init, TypeOK
<1> QED
  BY <1>4, <1>5 DEF Init, GenInv, DeclaredFrom, UndefFrom, LostOnlyImplicit, Paired, UndefEmpty,
                    Fresh, Phases, GeneratedOnce

(* conv_method2 and conv_function2: the first code of the module.          *)
LEMMA ConvInv ==
    ASSUME GenInv, conv_method2 \/ conv_function2
    PROVE  GenInv'
<1> USE DEF GenInv
<1>1. /\ pc = "conv" /\ pc' = "rounds"
      /\ ast[mbdecl].kind # "ctor"
      /\ gen_method(mbdecl) \/ gen_method_decl(mbdecl) \/ gen_free_function(mbdecl)
      /\ froms' = <<mbdecl>>
      /\ UNCHANGED <<ast, mbdecl, undefs, rounds, dargs, cnter, mismatch>>
  BY DEF conv_method2, conv_function2
<1>2. /\ mbdecl \in Decls /\ declared = {} /\ undefs = {} /\ bodies = {} /\ twice = {}
      /\ cnter = 0
  BY <1>1 DEF TypeOK, Fresh
<1>3. PICK ss \in {{Main(mbdecl)}, SymbolsOf(mbdecl)} :
         /\ ast[mbdecl].kind # "ctor" => ss = {Main(mbdecl)}
         /\ Generate(ss, mbdecl) \/ Declare(ss)
  BY <1>1, <1>2, GeneratesAdds DEF Adds
<1>4. ss = {Main(mbdecl)} /\ ss \subseteq Symbols
  BY <1>1, <1>2, <1>3, MainSymbol
<1>5. ast[mbdecl].emits \subseteq Symbols
  BY <1>2 DEF TypeOK, FunctionDecl
<1>6. TypeOK'
  BY <1>1, <1>2, <1>3, <1>4, <1>5 DEF TypeOK, Generate, Declare
<1>7. froms'[1] = mbdecl /\ 1 \in 1 .. Len(froms')
  BY <1>1
<1>8. ASSUME NEW s \in ast[mbdecl].emits PROVE Referred(s)'
  BY <1>1, <1>2, <1>7 DEF Referred
<1>9. DeclaredFrom'
  <2> SUFFICES ASSUME NEW s \in declared'
               PROVE  s \in bodies' \/ s \in noinline' \/ Referred(s)'
    BY DEF DeclaredFrom
  <2>1. CASE Generate(ss, mbdecl)
    BY <1>2, <1>8, <2>1 DEF Generate
  <2>2. CASE Declare(ss)
    BY <1>2, <2>2 DEF Declare
  <2> QED
    BY <1>3, <2>1, <2>2
<1>10. Paired'
  <2>1. bodies' \subseteq {Main(mbdecl)}
    BY <1>2, <1>3, <1>4 DEF Generate, Declare
  <2>2. \A e \in Decls : <<e, "C1">> # Main(mbdecl) /\ <<e, "C2">> # Main(mbdecl)
    BY <1>1 DEF Main, Symbol
  <2> QED
    BY <2>1, <2>2 DEF Paired
<1>11. GeneratedOnce'
  BY <1>1, <1>2, <1>3 DEF GeneratedOnce, Generate, Declare
<1> QED
  BY <1>1, <1>2, <1>6, <1>9, <1>10, <1>11
     DEF UndefFrom, LostOnlyImplicit, UndefEmpty, Fresh, Phases, Given

(* conv_ctor2: unless the visitor runs away, it does not meet the          *)
(* constructor it starts from.                                             *)
LEMMA ConvCtorInv ==
    ASSUME GenInv, conv_ctor2
    PROVE  GenInv'
<1> USE DEF GenInv
<1>1. /\ pc = "conv" /\ ast[mbdecl].kind = "ctor"
      /\ gen_ctor(mbdecl)
      /\ froms' = <<mbdecl>>
      /\ undefs' = IF Endless(mbdecl) THEN {} ELSE {Main(e) : e \in Met(mbdecl)}
      /\ pc' = IF Endless(mbdecl) THEN "overflow" ELSE "found"
      /\ UNCHANGED <<ast, mbdecl, rounds, dargs, cnter, mismatch>>
  BY DEF conv_ctor2
<1>2. mbdecl \in Decls /\ bodies = {} /\ twice = {} /\ cnter = 0
  BY <1>1 DEF TypeOK, Fresh
<1>3. Met(mbdecl) \subseteq Decls
  BY DEF Met
<1>4. mbdecl \in Met(mbdecl) => Endless(mbdecl)
  BY DEF Endless
<1>5. Adds(mbdecl)
  BY <1>1, <1>2, GeneratesAdds
<1>6. froms' \in Seq(Decls)
  BY <1>1, <1>2
<1>7. /\ declared' \subseteq Symbols /\ bodies' \subseteq Symbols
      /\ twice' \subseteq Symbols /\ noinline' \subseteq Symbols
      /\ DeclaredFrom' /\ Paired'
      /\ bodies' \subseteq SymbolsOf(mbdecl)
  BY <1>1, <1>2, <1>5, <1>6, AddsKeeps
<1>8. undefs' \subseteq Symbols
  <2>1. \A e \in Decls : Main(e) \in Symbols
    BY MainSymbol
  <2> HIDE DEF Main, Symbols, Met, Endless
  <2> QED
    BY <1>1, <1>3, <2>1
<1>9. TypeOK'
  <2>1. pc' \in {"found", "overflow"}
    BY <1>1
  <2> QED
    BY <1>1, <1>6, <1>7, <1>8, <2>1 DEF TypeOK
<1>10. UndefEmpty'
  <2> SUFFICES ASSUME pc' \in {"symbols", "found"}, NEW e \in Decls, Main(e) \in undefs'
               PROVE  Main(e) \notin bodies'
    BY <1>1 DEF UndefEmpty, Main
  <2>1. ~ Endless(mbdecl)
    BY <1>1
  <2>2. PICK x \in Met(mbdecl) : Main(e) = Main(x)
    BY <1>1, <2>1
  <2>3. x \in Decls /\ x # mbdecl
    BY <1>3, <1>4, <2>1
  <2>4. e = x
    BY <2>2, <2>3, MainSymbol
  <2>5. Main(e) \notin SymbolsOf(mbdecl)
    BY <1>2, <2>3, <2>4, MainSymbol
  <2> QED
    BY <1>7, <2>5
<1>11. twice' = {}
  BY <1>2, <1>5, AddsOnce
<1>12. pc' # "conv" /\ pc' # "symbols" /\ pc' # "rounds" /\ pc' # "lost"
  BY <1>1
<1> QED
  BY <1>1, <1>2, <1>7, <1>9, <1>10, <1>11, <1>12
     DEF UndefFrom, LostOnlyImplicit, Fresh, Phases, Given, GeneratedOnce

(* A new round: what is listed has no code and is referred to.             *)
LEMMA RoundInv ==
    ASSUME GenInv, find_undef_symbols
    PROVE  GenInv'
<1> USE DEF GenInv
<1>1. /\ pc = "rounds" /\ pc' \in {"dargs", "symbols"}
      /\ rounds < MaxRounds /\ rounds' = rounds + 1
      /\ undefs' = declared \ (bodies \cup noinline)
      /\ UNCHANGED <<ast, mbdecl, unit, froms, dargs, cnter, mismatch>>
  BY DEF find_undef_symbols
<1>2. TypeOK'
  <2>1. rounds' \in 0 .. MaxRounds
    BY <1>1, AstAssumption DEF TypeOK
  <2> QED
    BY <1>1, <2>1 DEF TypeOK, unit
<1>3. \A s : Referred(s)' <=> Referred(s)
  BY <1>1 DEF Referred, Emitted
<1>4. DeclaredFrom' /\ UndefFrom'
  BY <1>1, <1>3 DEF DeclaredFrom, UndefFrom, unit
<1>5. GeneratedOnce'
  BY <1>1 DEF GeneratedOnce, SymbolsOf, Main, unit
<1> QED
  BY <1>1, <1>2, <1>4, <1>5
     DEF LostOnlyImplicit, Paired, UndefEmpty, Fresh, Phases, Given, Main, unit

(* Generating what is still without code, by gen_undefs for a symbol or by *)
(* gen_undefs2 for what the visitor met.                                   *)
LEMMA CalleeInv ==
    ASSUME GenInv, NEW s \in Symbols, NEW d \in Decls,
           pc \in {"symbols", "found"}, pc' \in {"rounds", "symbols", "found"},
           pc' = "found" => pc = "found",
           pc' \in {"symbols", "rounds"} => pc = "symbols",
           s \in undefs, undefs' = undefs \ {s}, gen_callee(d),
           froms' = Append(froms, d) \/ (pc = "found" /\ froms' = froms),
           mismatch' = (mismatch \/ Main(d) # s),
           UNCHANGED <<ast, mbdecl, rounds, dargs, cnter>>
    PROVE  GenInv'
<1> USE DEF GenInv
<1>1. Adds(d) \/ UNCHANGED unit
  BY CalleeAdds
<1>2. froms' \in Seq(Decls)
  BY DEF TypeOK
<1>3. pc = "found" => cnter = 0 /\ ast[mbdecl].kind = "ctor"
  BY DEF Phases
<1>4. /\ declared' \subseteq Symbols /\ bodies' \subseteq Symbols
      /\ twice' \subseteq Symbols /\ noinline' \subseteq Symbols
      /\ DeclaredFrom' /\ Paired'
      /\ \A t : Referred(t) => Referred(t)'
      /\ bodies' \subseteq bodies \cup SymbolsOf(d)
  BY <1>1, <1>2, <1>3, AddsKeeps
<1>5. TypeOK'
  BY <1>2, <1>4 DEF TypeOK
<1>6. UndefFrom'
  BY <1>4 DEF UndefFrom
<1>7. ASSUME ~ mismatch' PROVE Main(d) = s /\ ~ mismatch /\ Main(d) \notin bodies
  BY <1>7 DEF UndefEmpty
<1>8. UndefEmpty'
  <2> SUFFICES ASSUME ~ mismatch', NEW e \in Decls, Main(e) \in undefs'
               PROVE  Main(e) \notin bodies'
    BY DEF UndefEmpty, Main
  <2>1. Main(e) \in undefs /\ e # d
    BY <1>7
  <2>2. Main(e) \notin bodies
    BY <1>7, <2>1 DEF UndefEmpty
  <2>3. Main(e) \notin SymbolsOf(d)
    BY <2>1, MainSymbol
  <2> QED
    BY <1>4, <2>2, <2>3
<1>9. GeneratedOnce'
  <2> SUFFICES ASSUME ~ mismatch'
               PROVE  twice' \subseteq UNION {SymbolsOf(dargs[k].ctor) \cup {Main(JitMain)} : k \in 1 .. cnter}
    BY DEF GeneratedOnce, SymbolsOf, Main
  <2>1. twice' = twice
    BY <1>1, <1>7, AddsOnce
  <2> QED
    BY <1>7, <2>1 DEF GeneratedOnce
<1> QED
  BY <1>4, <1>5, <1>6, <1>8, <1>9 DEF LostOnlyImplicit, Fresh, Phases, Given

(* The search in every declaration compiled so far, and in the default     *)
(* argument, answers nothing: the symbol is one that some of them refers   *)
(* to by no expression, or one of code that is not searched any more.      *)
LEMMA LostInv ==
    ASSUME GenInv, NEW s \in undefs, gen_undef_lost(s)
    PROVE  GenInv'
<1> USE DEF GenInv
<1>1. /\ pc = "symbols" /\ undefs' = {s} /\ pc' = "lost"
      /\ Answering(s) = {} /\ InDefault(s) = {}
      /\ UNCHANGED <<ast, mbdecl, unit, froms, rounds, dargs, cnter, mismatch>>
  BY DEF gen_undef_lost, Fatal
<1>2. s \in Symbols /\ Referred(s)
  BY <1>1 DEF TypeOK, UndefFrom
<1>3. TypeOK'
  BY <1>1 DEF TypeOK, unit
<1>4. ASSUME NEW d \in Decls, Searched(d) PROVE s \notin Expressed(d)
  <2>1. PICK i \in 1 .. Len(froms) : froms[i] = d
    BY <1>4 DEF Searched
  <2>2. find_callee_decl(d, s) = NULL
    BY <1>1, <2>1 DEF Answering
  <2> QED
    BY <1>2, <2>2, SearchComplete
<1>5. ASSUME cnter # 0 PROVE s \notin ExpressedBy(dargs[cnter])
  BY <1>1, <1>5 DEF InDefault, ExpressedBy
<1>6. \/ \E d \in Decls :
            /\ s \in ast[d].emits
            /\ IF Searched(d) THEN s \notin Expressed(d) ELSE cnter > 0
      \/ \E k \in 1 .. cnter :
            s \in dargs[k].emits /\ (k = cnter => s \notin ExpressedBy(dargs[k]))
  <2>0. cnter \in Nat
    BY DEF TypeOK
  <2>1. CASE cnter = 0
    <3>1. PICK i \in 1 .. Len(froms) : s \in ast[froms[i]].emits
      BY <1>1, <1>2, <2>1 DEF Phases, Referred
    <3>2. froms[i] \in Decls /\ Searched(froms[i])
      BY <3>1 DEF TypeOK, Searched
    <3> QED
      BY <1>4, <3>1, <3>2
  <2>2. CASE cnter # 0
    <3>1. Emitted(s)
      BY <1>2, <2>2 DEF Referred
    <3>2. cnter > 0
      BY <2>0, <2>2
    <3> QED
      BY <1>4, <1>5, <2>2, <3>1, <3>2 DEF Emitted
  <2> QED
    BY <2>1, <2>2
<1>7. LostOnlyImplicit'
  <2>1. \A d \in Decls : Expressed(d)' = Expressed(d)
    BY <1>1 DEF Expressed, Means, Main, SymbolsOf
  <2>2. \A k \in 1 .. cnter : ExpressedBy(dargs[k])' = ExpressedBy(dargs[k])
    BY <1>1 DEF ExpressedBy, Means, Main, SymbolsOf
  <2>3. \A d \in Decls : Searched(d)' <=> Searched(d)
    BY <1>1 DEF Searched
  <2> HIDE DEF Expressed, ExpressedBy, Searched
  <2>4. \/ \E d \in Decls :
              /\ s \in ast'[d].emits
              /\ IF Searched(d)' THEN s \notin Expressed(d)' ELSE cnter' > 0
        \/ \E k \in 1 .. cnter' :
              s \in dargs'[k].emits /\ (k = cnter' => s \notin ExpressedBy(dargs[k])')
    BY <1>1, <1>6, <2>1, <2>2, <2>3
  <2> QED
    BY <1>1, <2>4 DEF LostOnlyImplicit
<1>8. DeclaredFrom' /\ UndefFrom'
  BY <1>1 DEF DeclaredFrom, UndefFrom, Referred, Emitted, unit
<1>9. GeneratedOnce'
  BY <1>1 DEF GeneratedOnce, SymbolsOf, Main, unit
<1> QED
  BY <1>1, <1>3, <1>7, <1>8, <1>9 DEF Paired, UndefEmpty, Fresh, Phases, Given, unit

(* gen_darg: the constructor of the default argument and __jit_main_tmpl   *)
(* are generated whether they have code or not.                            *)
LEMMA DargInv ==
    ASSUME GenInv, gen_darg
    PROVE  GenInv'
<1> USE DEF GenInv
<1> DEFINE a == dargs[cnter + 1]
           code == IF ast[a.ctor].inlined THEN SymbolsOf(a.ctor) ELSE {}
           refs == a.emits \cup (IF ast[a.ctor].inlined THEN ast[a.ctor].emits ELSE {})
<1>1. /\ pc = "dargs" /\ pc' = "rounds" /\ cnter < Len(dargs) /\ cnter' = cnter + 1
      /\ declared' = declared \cup SymbolsOf(a.ctor) \cup {Main(JitMain)} \cup refs
      /\ bodies' = bodies \cup code \cup {Main(JitMain)}
      /\ twice' = twice \cup (bodies \cap (code \cup {Main(JitMain)}))
      /\ noinline' = noinline \cup (SymbolsOf(a.ctor) \ code)
      /\ froms' = <<mbdecl, a.ctor>> /\ rounds' = 0
      /\ UNCHANGED <<ast, mbdecl, undefs, dargs, mismatch>>
  BY DEF gen_darg
<1>2. cnter \in Nat /\ Len(dargs) \in Nat /\ cnter + 1 \in 1 .. Len(dargs)
  BY <1>1 DEF TypeOK
<1>3. a \in ConstructExpr
  BY <1>2 DEF TypeOK
<1>4. a.ctor \in Decls /\ a.emits \subseteq Symbols
  BY <1>3 DEF ConstructExpr
<1>5. ast[a.ctor].kind = "ctor" /\ ast[JitMain].kind = "function"
  <2>1. PICK d \in Decls : dargs = ast[d].defaults
    BY <1>2 DEF Given
  <2>2. cnter + 1 \in DOMAIN ast[d].defaults
    BY <1>2, <2>1 DEF TypeOK
  <2> QED
    BY <2>1, <2>2, AstAssumption DEF Given
<1>6. /\ SymbolsOf(a.ctor) = {a.ctor} \X {"C1", "C2"}
      /\ SymbolsOf(a.ctor) \subseteq Symbols
      /\ Main(JitMain) \in Symbols
      /\ \A d \in Decls : Main(JitMain) # <<d, "C1">> /\ Main(JitMain) # <<d, "C2">>
  <2>1. Main(JitMain) = <<JitMain, "">>
    BY <1>5 DEF Main, Symbol
  <2>2. SymbolsOf(a.ctor) = {a.ctor} \X {"C1", "C2"} /\ SymbolsOf(a.ctor) \subseteq Symbols
    BY <1>4, <1>5, MainSymbol
  <2>3. Main(JitMain) \in Symbols
    BY NullAssumption, MainSymbol
  <2>4. \A d \in Decls : Main(JitMain) # <<d, "C1">> /\ Main(JitMain) # <<d, "C2">>
    BY <1>5 DEF Main, Symbol
  <2> HIDE DEF Main, SymbolsOf, Symbols, a
  <2> QED
    BY <2>2, <2>3, <2>4
<1>7. code = {} \/ code = SymbolsOf(a.ctor)
  OBVIOUS
<1>8. refs \subseteq Symbols
  <2>1. ast[a.ctor].emits \subseteq Symbols
    BY <1>4 DEF TypeOK, FunctionDecl
  <2> QED
    BY <1>4, <2>1
<1> HIDE DEF code
<1>9. TypeOK'
  <2>1. rounds' \in 0 .. MaxRounds
    BY <1>1, AstAssumption
  <2>2. cnter' \in 0 .. Len(dargs')
    BY <1>1, <1>2
  <2>3. froms' \in Seq(Decls)
    BY <1>1, <1>4 DEF TypeOK
  <2>4. /\ declared' \subseteq Symbols /\ bodies' \subseteq Symbols
        /\ twice' \subseteq Symbols /\ noinline' \subseteq Symbols
    <3> HIDE DEF refs, a
    <3> QED
      BY <1>1, <1>6, <1>7, <1>8 DEF TypeOK
  <2> QED
    BY <1>1, <2>1, <2>2, <2>3, <2>4 DEF TypeOK
<1>10. \A s : Referred(s)' <=> Emitted(s)'
  BY <1>1, <1>2 DEF Referred
<1>11. ASSUME NEW s, Referred(s) PROVE Emitted(s)'
  <2>1. ASSUME NEW i \in 1 .. Len(froms), s \in ast[froms[i]].emits PROVE Emitted(s)'
    <3>1. froms[i] \in Decls
      BY DEF TypeOK
    <3> QED
      BY <1>1, <2>1, <3>1 DEF Emitted
  <2>2. ASSUME Emitted(s) PROVE Emitted(s)'
    <3>1. \A k \in 1 .. cnter : k \in 1 .. cnter'
      BY <1>1, <1>2
    <3> QED
      BY <1>1, <2>2, <3>1 DEF Emitted
  <2> QED
    BY <1>11, <2>1, <2>2 DEF Referred
<1>12. ASSUME NEW s \in refs PROVE Emitted(s)'
  <2>1. cnter + 1 \in 1 .. cnter'
    BY <1>1, <1>2
  <2> QED
    BY <1>1, <1>4, <1>12, <2>1 DEF Emitted
<1>13. DeclaredFrom'
  <2> SUFFICES ASSUME NEW s \in declared'
               PROVE  s \in bodies' \/ s \in noinline' \/ Emitted(s)'
    BY <1>10 DEF DeclaredFrom
  <2>1. CASE s \in declared
    BY <1>1, <1>11, <2>1 DEF DeclaredFrom
  <2>2. CASE s \in SymbolsOf(a.ctor) \cup {Main(JitMain)}
    BY <1>1, <2>2
  <2>3. CASE s \in refs
    BY <1>12, <2>3
  <2> QED
    BY <1>1, <2>1, <2>2, <2>3
<1>14. Paired'
  <2> SUFFICES ASSUME NEW d \in Decls PROVE <<d, "C1">> \in bodies' <=> <<d, "C2">> \in bodies'
    BY DEF Paired
  <2>1. <<d, "C1">> \in code <=> <<d, "C2">> \in code
    BY <1>6, <1>7
  <2> QED
    BY <1>1, <1>6, <2>1 DEF Paired
<1>15. GeneratedOnce'
  <2>0. \A k : (SymbolsOf(dargs[k].ctor) \cup {Main(JitMain)})'
                  = SymbolsOf(dargs[k].ctor) \cup {Main(JitMain)}
    BY <1>1 DEF SymbolsOf, Main
  <2> HIDE DEF a, refs
  <2> SUFFICES ASSUME ~ mismatch, NEW s \in twice'
               PROVE  \E k \in 1 .. cnter' : s \in (SymbolsOf(dargs[k].ctor) \cup {Main(JitMain)})'
    BY <1>1 DEF GeneratedOnce
  <2>1. CASE s \in twice
    <3>1. PICK k \in 1 .. cnter : s \in SymbolsOf(dargs[k].ctor) \cup {Main(JitMain)}
      BY <2>1 DEF GeneratedOnce
    <3>2. k \in 1 .. cnter'
      BY <1>1, <1>2
    <3> QED
      BY <2>0, <3>1, <3>2
  <2>2. CASE s \in code \cup {Main(JitMain)}
    <3>1. cnter + 1 \in 1 .. cnter'
      BY <1>1, <1>2
    <3> QED
      BY <1>7, <2>2, <2>0, <3>1 DEF a
  <2> QED
    BY <1>1, <2>1, <2>2
<1> QED
  BY <1>1, <1>2, <1>9, <1>13, <1>14, <1>15
     DEF UndefFrom, LostOnlyImplicit, UndefEmpty, Fresh, Phases, Given

(* A step that leaves the module alone.                                    *)
LEMMA QuietInv ==
    ASSUME GenInv, pc' \in {"dargs", "done", "dtor"},
           undefs' \subseteq undefs,
           UNCHANGED <<ast, mbdecl, unit, froms, rounds, dargs, cnter, mismatch>>
    PROVE  GenInv'
<1> USE DEF GenInv
<1>1. TypeOK'
  BY DEF TypeOK, unit
<1>2. DeclaredFrom' /\ UndefFrom'
  BY DEF DeclaredFrom, UndefFrom, Referred, Emitted, unit
<1>3. GeneratedOnce'
  BY DEF GeneratedOnce, SymbolsOf, Main, unit
<1> QED
  BY <1>1, <1>2, <1>3
     DEF LostOnlyImplicit, Paired, UndefEmpty, Fresh, Phases, Given, unit

LEMMA NextInv == GenInv /\ [Next]_vars => GenInv'
<1> SUFFICES ASSUME GenInv, [Next]_vars PROVE GenInv'
  OBVIOUS
<1>0. undefs \subseteq Symbols
  BY DEF GenInv, TypeOK
<1>1. ASSUME conv_method2 \/ conv_function2 PROVE GenInv'
  BY <1>1, ConvInv
<1>2. ASSUME conv_ctor2 PROVE GenInv'
  BY <1>2, ConvCtorInv
<1>3. ASSUME find_undef_symbols PROVE GenInv'
  BY <1>3, RoundInv
<1>4. ASSUME NEW s \in undefs, NEW d \in Decls, gen_undef(s, d) PROVE GenInv'
  <2>1. /\ pc = "symbols" /\ pc' \in {"rounds", "symbols"}
        /\ undefs' = undefs \ {s} /\ gen_callee(d)
        /\ froms' = Append(froms, d)
        /\ mismatch' = (mismatch \/ Main(d) # s)
        /\ UNCHANGED <<ast, mbdecl, rounds, dargs, cnter>>
    BY <1>4 DEF gen_undef
  <2>2. s \in Symbols /\ s \in undefs
    BY <1>0
  <2>3. /\ pc \in {"symbols", "found"} /\ pc' \in {"rounds", "symbols", "found"}
        /\ pc' = "found" => pc = "found"
        /\ pc' \in {"symbols", "rounds"} => pc = "symbols"
        /\ froms' = Append(froms, d) \/ (pc = "found" /\ froms' = froms)
    BY <2>1
  <2> QED
    BY <2>1, <2>2, <2>3, CalleeInv
<1>5. ASSUME NEW d \in Decls, gen_undefs2(d) PROVE GenInv'
  <2>1. /\ pc = "found" /\ pc' = "found" /\ Main(d) \in undefs
        /\ undefs' = undefs \ {Main(d)} /\ gen_callee(d)
        /\ UNCHANGED <<ast, mbdecl, froms, rounds, dargs, cnter, mismatch>>
    BY <1>5 DEF gen_undefs2
  <2>2. Main(d) \in Symbols /\ mismatch' = (mismatch \/ Main(d) # Main(d))
    BY <1>0, <2>1 DEF GenInv, TypeOK
  <2> QED
    BY <2>1, <2>2, CalleeInv
<1>6. ASSUME NEW s \in undefs, gen_undef_lost(s) PROVE GenInv'
  BY <1>6, LostInv
<1>7. ASSUME gen_darg PROVE GenInv'
  BY <1>7, DargInv
<1>8. ASSUME \/ conv_dargs \/ rounds_end \/ gen_undefs2_end \/ dargs_end
             \/ \E d \in Decls : gen_undefs2_dtor(d)
             \/ \E s \in undefs, d \in Decls : gen_undef_dtor(s, d)
      PROVE  GenInv'
  <2>1. /\ pc' \in {"dargs", "done", "dtor"} /\ undefs' \subseteq undefs
        /\ UNCHANGED <<ast, mbdecl, unit, froms, rounds, dargs, cnter, mismatch>>
    BY <1>8 DEF conv_dargs, rounds_end, gen_undefs2_end, dargs_end, gen_undefs2_dtor,
                gen_undef_dtor, Fatal
  <2> QED
    BY <2>1, QuietInv
<1>9. CASE UNCHANGED vars
  <2> USE DEF GenInv
  <2>1. UNCHANGED <<ast, mbdecl, declared, bodies, twice, noinline, froms, undefs, rounds,
                    dargs, cnter, pc, mismatch>>
    BY <1>9 DEF vars, unit
  <2>2. TypeOK'
    BY <2>1 DEF TypeOK
  <2>3. DeclaredFrom' /\ UndefFrom'
    BY <2>1 DEF DeclaredFrom, UndefFrom, Referred, Emitted
  <2>4. LostOnlyImplicit'
    <3>1. \A d \in Decls : Expressed(d)' = Expressed(d)
      BY <2>1 DEF Expressed, Means, Main, SymbolsOf
    <3>2. \A k \in 1 .. cnter : ExpressedBy(dargs[k])' = ExpressedBy(dargs[k])
      BY <2>1 DEF ExpressedBy, Means, Main, SymbolsOf
    <3>3. \A d \in Decls : Searched(d)' <=> Searched(d)
      BY <2>1 DEF Searched
    <3> QED
      BY <2>1, <3>1, <3>2, <3>3 DEF LostOnlyImplicit
  <2>5. GeneratedOnce'
    BY <2>1 DEF GeneratedOnce, SymbolsOf, Main
  <2> QED
    BY <2>1, <2>2, <2>3, <2>4, <2>5
       DEF Paired, UndefEmpty, Fresh, Phases, Given, Main
<1> QED
  BY <1>1, <1>2, <1>3, <1>4, <1>5, <1>6, <1>7, <1>8, <1>9 DEF Next

(* The inductive invariant of compilation (gen_undefs and its callers).    *)
THEOREM GenInvariant == Spec => []GenInv
BY InitInv, NextInv, PTL DEF Spec

(* The state of a compilation is well typed in every behaviour.            *)
THEOREM GenTypeCorrect == Spec => []TypeOK
<1>1. GenInv => TypeOK
  BY DEF GenInv
<1> QED
  BY <1>1, GenInvariant, PTL

(* For any functions, references, default arguments and order of the       *)
(* symbols, gen_undefs gives up only on a symbol that generated code       *)
(* refers to by no expression, or, evaluating a default argument, on one   *)
(* of code it does not search again.                                       *)
THEOREM LostOnlyImplicitHolds == Spec => []LostOnlyImplicit
<1>1. GenInv => LostOnlyImplicit
  BY DEF GenInv
<1> QED
  BY <1>1, GenInvariant, PTL

(* For any functions, references, default arguments and order of the       *)
(* symbols, as long as every answer is for its symbol, code is generated   *)
(* over code only by gen_darg: over the constructor of a default argument  *)
(* and over __jit_main_tmpl.                                               *)
THEOREM GeneratedOnceHolds == Spec => []GeneratedOnce
<1>1. GenInv => GeneratedOnce
  BY DEF GenInv
<1> QED
  BY <1>1, GenInvariant, PTL
----------------------------------------------------------------------------
(* How far the rounds have come.  A function is compiled on demand when    *)
(* it is on the lists and clang has its code; it is missing when the       *)
(* module refers to it, not as to a library's function, and it has no      *)
(* code.                                                                   *)
Compilable(d) ==
    ast[d].known /\ (ast[d].inlined \/ (ast[d].kind \in {"method", "dtor"} /\ ast[d].tmpl))
Compiled == {d \in Decls : Main(d) \in bodies}
Missing ==
    {d \in Decls : Compilable(d) /\ d \notin Compiled /\ SymbolsOf(d) \cap (declared \ noinline) # {}}

(* Each round compiles at least one function unless none is missing at its *)
(* start: in a round either one has been compiled or all that are missing  *)
(* are still to be dealt with.                                             *)
Progress ==
    /\ pc = "rounds" => Missing = {} \/ Cardinality(Compiled) >= rounds
    /\ pc = "symbols" =>
          \/ Cardinality(Compiled) >= rounds
          \/ /\ \A d \in Missing : SymbolsOf(d) \cap undefs # {}
             /\ Missing = {} \/ Cardinality(Compiled) >= rounds - 1
    /\ pc \in {"dargs", "done"} /\ rounds > 0 =>
          Missing = {} \/ (rounds = MaxRounds /\ Cardinality(Compiled) >= MaxRounds)
UndefMissing ==
    pc = "symbols" => \A d \in Decls : Main(d) \in undefs => Main(d) \in declared \ noinline

(* Only a library's functions are left without code, and no other variant  *)
(* of a function has code when the one it is known by has none.            *)
NoinlineExtern == \A d \in Decls : SymbolsOf(d) \cap noinline # {} => ~ ast[d].inlined
MainCompiled == \A d \in Decls : SymbolsOf(d) \cap bodies # {} => d \in Compiled

(* After gen_undefs2: code is what the visitor met, all of it that can be  *)
(* compiled has been or is to be, and the declarations without code are    *)
(* a library's or come from that code.                                     *)
VisitorPath == pc \in {"found", "dargs", "done"} /\ rounds = 0 /\ MaxRounds > 0
Visited ==
    VisitorPath =>
        /\ declared = {} \/ ast[mbdecl].kind = "ctor"
        /\ Compiled \subseteq {mbdecl} \cup Met(mbdecl)
        /\ \A s \in declared : s \in bodies \/ s \in noinline \/ \E x \in Compiled : s \in ast[x].emits
        /\ ast[mbdecl].kind = "ctor" =>
              \A e \in Met(mbdecl) : Compilable(e) /\ e \notin Compiled => pc = "found" /\ Main(e) \in undefs

Start ==
    /\ pc \in {"conv", "found"} => rounds = 0
    /\ pc = "found" => \A d \in Decls : Main(d) \in undefs => d \in Met(mbdecl)

CompInv ==
    /\ IsFiniteSet(Compiled)
    /\ ~ mismatch => Progress /\ UndefMissing
    /\ NoinlineExtern /\ MainCompiled /\ Visited /\ Start

(* The rounds were enough when the limit was not reached; and if it was,   *)
(* when the module has fewer functions with code than there are rounds.    *)
EnoughRounds == rounds < MaxRounds \/ Cardinality(Compiled) < MaxRounds

LEMMA GrowingSet ==
    ASSUME NEW S, IsFiniteSet(S), NEW D, IsFiniteSet(D), NEW T, S \subseteq T, T \subseteq S \cup D
    PROVE  /\ IsFiniteSet(T)
           /\ Cardinality(S) \in Nat /\ Cardinality(T) \in Nat
           /\ Cardinality(S) <= Cardinality(T)
           /\ S # T => Cardinality(S) < Cardinality(T)
<1>1. IsFiniteSet(S \cup D)
  BY FS_Union
<1>2. IsFiniteSet(T)
  BY <1>1, FS_Subset
<1> QED
  BY <1>2, FS_Subset, FS_CardinalityType

(* What gen_callee does, by what it is called for.                         *)
LEMMA CalleeOutcome ==
    ASSUME TypeOK, NEW d \in Decls, gen_callee(d)
    PROVE  \/ Compilable(d) /\ \E ss \in {{Main(d)}, SymbolsOf(d)} : Generate(ss, d)
           \/ ~ Compilable(d) /\ UNCHANGED unit
           \/ /\ ~ Compilable(d) /\ ~ ast[d].inlined
              /\ \E ss \in {{Main(d)}, SymbolsOf(d)} : Declare(ss)
<1>1. ast[d].kind \in {"ctor", "dtor", "method", "function"}
  BY DEF TypeOK, FunctionDecl
<1>2. CASE ~ ast[d].known
  BY <1>2 DEF gen_callee, Compilable
<1>3. CASE ast[d].known /\ ast[d].kind = "ctor"
  BY <1>3 DEF gen_callee, gen_ctor, Compilable
<1>4. CASE ast[d].known /\ ast[d].kind \in {"method", "dtor"}
  BY <1>4 DEF gen_callee, gen_method, gen_method_decl, Compilable
<1>5. CASE ast[d].known /\ ast[d].kind = "function"
  BY <1>5 DEF gen_callee, gen_free_function, Compilable
<1> QED
  BY <1>1, <1>2, <1>3, <1>4, <1>5

LEMMA GenerateCompiles ==
    ASSUME TypeOK, NoinlineExtern, MainCompiled, IsFiniteSet(Compiled), ast' = ast,
           NEW d \in Decls, NEW ss \in {{Main(d)}, SymbolsOf(d)}, Generate(ss, d)
    PROVE  /\ Compiled' = Compiled \cup {d}
           /\ IsFiniteSet(Compiled')
           /\ Cardinality(Compiled) \in Nat /\ Cardinality(Compiled') \in Nat
           /\ Cardinality(Compiled) <= Cardinality(Compiled')
           /\ d \notin Compiled => Cardinality(Compiled) < Cardinality(Compiled')
           /\ NoinlineExtern' /\ MainCompiled'
<1>1. bodies' = bodies \cup ss /\ noinline' = noinline
  BY DEF Generate
<1>2. \A e \in Decls : Main(e)' = Main(e) /\ SymbolsOf(e)' = SymbolsOf(e)
  BY DEF Main, SymbolsOf
<1>3. /\ Main(d) \in ss
      /\ \A e \in Decls : e # d => Main(e) \notin ss /\ SymbolsOf(e) \cap ss = {}
  <2>1. Main(d) \in SymbolsOf(d)
    BY MainSymbol
  <2>2. \A e \in Decls : \A s \in SymbolsOf(e) : s[1] = e
    BY DEF SymbolsOf
  <2>3. \A e \in Decls : Main(e) \in SymbolsOf(e)
    BY MainSymbol
  <2>4. \A s \in ss : s[1] = d
    BY <2>1, <2>2
  <2> QED
    BY <2>1, <2>2, <2>3, <2>4
<1>4. Compiled' = Compiled \cup {d}
  <2> HIDE DEF Main
  <2>1. Compiled' \subseteq Compiled \cup {d}
    BY <1>1, <1>2, <1>3 DEF Compiled
  <2>2. Compiled \cup {d} \subseteq Compiled'
    BY <1>1, <1>2, <1>3 DEF Compiled
  <2> QED
    BY <2>1, <2>2
<1>5. IsFiniteSet({d})
  BY FS_Singleton
<1>6. NoinlineExtern'
  BY <1>1, <1>2 DEF NoinlineExtern
<1>7. MainCompiled'
  <2> HIDE DEF Main, SymbolsOf, Compiled
  <2> QED
    BY <1>1, <1>2, <1>3, <1>4 DEF MainCompiled
<1> QED
  BY <1>4, <1>5, <1>6, <1>7, GrowingSet

LEMMA DeclareCompiles ==
    ASSUME TypeOK, NoinlineExtern, MainCompiled, IsFiniteSet(Compiled), ast' = ast,
           NEW d \in Decls, ~ ast[d].inlined, NEW ss \in {{Main(d)}, SymbolsOf(d)}, Declare(ss)
    PROVE  /\ Compiled' = Compiled
           /\ declared' \ noinline' \subseteq declared \ noinline
           /\ noinline' \subseteq noinline \cup SymbolsOf(d)
           /\ declared' \subseteq declared \cup noinline'
           /\ NoinlineExtern' /\ MainCompiled'
<1>1. /\ bodies' = bodies /\ noinline' = noinline \cup ss
      /\ declared' = declared \cup ss
  BY DEF Declare
<1>2. \A e \in Decls : Main(e)' = Main(e) /\ SymbolsOf(e)' = SymbolsOf(e)
  BY DEF Main, SymbolsOf
<1>3. Compiled' = Compiled
  BY <1>1, <1>2 DEF Compiled
<1>4. ss \subseteq SymbolsOf(d)
  BY MainSymbol
<1>5. \A e \in Decls : e # d => SymbolsOf(e) \cap SymbolsOf(d) = {}
  BY DEF SymbolsOf
<1> HIDE DEF Main, SymbolsOf, Compiled
<1>6. NoinlineExtern'
  BY <1>1, <1>2, <1>4, <1>5 DEF NoinlineExtern
<1>7. MainCompiled'
  BY <1>1, <1>2, <1>3 DEF MainCompiled
<1> QED
  BY <1>1, <1>3, <1>4, <1>6, <1>7

(* What is missing has none of its symbols compiled.                       *)
LEMMA MissingUndefined ==
    ASSUME TypeOK, MainCompiled, NEW d \in Missing
    PROVE  SymbolsOf(d) \cap (declared \ (bodies \cup noinline)) # {}
BY DEF Missing, MainCompiled

LEMMA InitComp == Init => CompInv
<1> SUFFICES ASSUME Init PROVE CompInv
  OBVIOUS
<1>1. Compiled = {}
  BY DEF Init, Compiled
<1>2. IsFiniteSet(Compiled)
  BY <1>1, FS_EmptySet
<1> QED
  BY <1>2 DEF Init, CompInv, Progress, UndefMissing, NoinlineExtern, MainCompiled, Visited,
              VisitorPath, Start

(* conv_method2 and conv_function2.                                        *)
LEMMA ConvComp ==
    ASSUME GenInv, CompInv, conv_method2 \/ conv_function2
    PROVE  CompInv'
<1>1. /\ pc = "conv" /\ pc' = "rounds" /\ mbdecl \in Decls /\ rounds' = rounds /\ ast' = ast
      /\ IF ast[mbdecl].inlined THEN Generate({Main(mbdecl)}, mbdecl) ELSE Declare({Main(mbdecl)})
  BY DEF conv_method2, conv_function2, gen_method, gen_method_decl, gen_free_function, GenInv, TypeOK
<1>2. TypeOK /\ NoinlineExtern /\ MainCompiled /\ IsFiniteSet(Compiled) /\ rounds = 0
  BY <1>1 DEF GenInv, CompInv, Start
<1>3. IsFiniteSet(Compiled') /\ NoinlineExtern' /\ MainCompiled'
  <2>1. CASE ast[mbdecl].inlined
    BY <1>1, <1>2, <2>1, GenerateCompiles
  <2>2. CASE ~ ast[mbdecl].inlined
    BY <1>1, <1>2, <2>2, DeclareCompiles
  <2> QED
    BY <2>1, <2>2
<1>4. Cardinality(Compiled') \in Nat
  BY <1>3, FS_CardinalityType
<1> QED
  BY <1>1, <1>2, <1>3, <1>4 DEF CompInv, Progress, UndefMissing, Visited, VisitorPath, Start

(* conv_ctor2: the module is the constructor and what it refers to.        *)
LEMMA ConvCtorComp ==
    ASSUME GenInv, CompInv, conv_ctor2
    PROVE  CompInv'
<1>1. /\ pc = "conv" /\ pc' \in {"found", "overflow"} /\ ast[mbdecl].kind = "ctor"
      /\ mbdecl \in Decls /\ rounds' = rounds /\ ast' = ast /\ mbdecl' = mbdecl
      /\ pc' = "found" => undefs' = {Main(e) : e \in Met(mbdecl)}
      /\ IF ast[mbdecl].inlined THEN Generate(SymbolsOf(mbdecl), mbdecl) ELSE Declare(SymbolsOf(mbdecl))
  BY DEF conv_ctor2, gen_ctor, GenInv, TypeOK
<1>2. /\ TypeOK /\ NoinlineExtern /\ MainCompiled /\ IsFiniteSet(Compiled) /\ rounds = 0
      /\ declared = {} /\ bodies = {}
  BY <1>1 DEF GenInv, CompInv, Start, Fresh
<1>3. Compiled = {}
  BY <1>2 DEF Compiled
<1>6. Start'
  <2>1. \A d \in Decls : Main(d)' = Main(d)
    BY <1>1 DEF Main
  <2>2. Met(mbdecl)' = Met(mbdecl) /\ Met(mbdecl) \subseteq Decls
    BY <1>1 DEF Met
  <2>3. \A d, e \in Decls : Main(d) = Main(e) => d = e
    BY <1>2, MainSymbol
  <2> HIDE DEF Main, Met
  <2> QED
    BY <1>1, <1>2, <2>1, <2>2, <2>3 DEF Start
<1>4. CASE ast[mbdecl].inlined
  <2>1. Generate(SymbolsOf(mbdecl), mbdecl)
    BY <1>1, <1>4
  <2>2. /\ IsFiniteSet(Compiled') /\ NoinlineExtern' /\ MainCompiled'
        /\ Compiled' = {mbdecl}
    BY <1>1, <1>2, <1>3, <2>1, GenerateCompiles
  <2>3. \A s \in declared' : s \in bodies' \/ s \in ast[mbdecl].emits
    BY <1>2, <2>1 DEF Generate
  <2>4. Met(mbdecl)' = Met(mbdecl)
    BY <1>1 DEF Met
  <2>5. \A e \in Met(mbdecl) : Main(e)' = Main(e)
    BY <1>1 DEF Main
  <2>6. Visited'
    <3> HIDE DEF Met, Main, Compiled, Compilable
    <3> QED
      BY <1>1, <2>2, <2>3, <2>4, <2>5 DEF Visited, VisitorPath
  <2> QED
    BY <1>1, <1>2, <1>6, <2>2, <2>6 DEF CompInv, Progress, UndefMissing
<1>5. CASE ~ ast[mbdecl].inlined
  <2>1. Declare(SymbolsOf(mbdecl))
    BY <1>1, <1>5
  <2>2. IsFiniteSet(Compiled') /\ NoinlineExtern' /\ MainCompiled' /\ Compiled' = {}
    BY <1>1, <1>2, <1>3, <1>5, <2>1, DeclareCompiles
  <2>3. \A s \in declared' : s \in noinline'
    BY <1>2, <2>1 DEF Declare
  <2>4. Met(mbdecl)' = Met(mbdecl)
    BY <1>1 DEF Met
  <2>5. \A e \in Met(mbdecl) : Main(e)' = Main(e)
    BY <1>1 DEF Main
  <2>6. Visited'
    <3> HIDE DEF Met, Main, Compiled, Compilable
    <3> QED
      BY <1>1, <2>2, <2>3, <2>4, <2>5 DEF Visited, VisitorPath
  <2> QED
    BY <1>1, <1>2, <1>6, <2>2, <2>6 DEF CompInv, Progress, UndefMissing
<1> QED
  BY <1>4, <1>5

(* A step that leaves the module alone keeps what is said of it alone.     *)
LEMMA ModuleKept ==
    ASSUME CompInv, UNCHANGED <<ast, unit>>
    PROVE  /\ Compiled' = Compiled /\ Missing' = Missing
           /\ IsFiniteSet(Compiled') /\ NoinlineExtern' /\ MainCompiled'
           /\ Cardinality(Compiled') = Cardinality(Compiled)
           /\ \A d \in Decls : /\ Main(d)' = Main(d) /\ SymbolsOf(d)' = SymbolsOf(d)
                               /\ Compilable(d)' = Compilable(d) /\ Met(d)' = Met(d)
<1>1. UNCHANGED <<ast, declared, bodies, noinline>>
  BY DEF unit
<1>2. \A d \in Decls : /\ Main(d)' = Main(d) /\ SymbolsOf(d)' = SymbolsOf(d)
                       /\ Compilable(d)' = Compilable(d) /\ Met(d)' = Met(d)
  BY <1>1 DEF Main, SymbolsOf, Compilable, Met
<1>3. Compiled' = Compiled
  BY <1>1, <1>2 DEF Compiled
<1> HIDE DEF Main, SymbolsOf, Compilable, Met, Compiled
<1>4. Missing' = Missing
  BY <1>1, <1>2, <1>3 DEF Missing
<1>5. NoinlineExtern' /\ MainCompiled'
  BY <1>1, <1>2, <1>3 DEF CompInv, NoinlineExtern, MainCompiled
<1> QED
  BY <1>2, <1>3, <1>4, <1>5 DEF CompInv

(* A new round deals with a symbol of every missing function, and gen_undefs *)
(* ends before the limit only when there is none.                          *)
LEMMA RoundComp ==
    ASSUME GenInv, CompInv, find_undef_symbols
    PROVE  CompInv'
<1>1. /\ pc = "rounds" /\ rounds < MaxRounds /\ rounds' = rounds + 1
      /\ undefs' = declared \ (bodies \cup noinline)
      /\ pc' = IF undefs' = {} THEN "dargs" ELSE "symbols"
      /\ UNCHANGED <<ast, mbdecl, unit, froms, dargs, cnter, mismatch>>
      /\ UNCHANGED <<declared, bodies, noinline>>
  BY DEF find_undef_symbols, unit
<1>2. TypeOK /\ MainCompiled /\ rounds \in Nat /\ MaxRounds \in Nat
  BY AstAssumption DEF GenInv, CompInv, TypeOK
<1>3. /\ Compiled' = Compiled /\ Missing' = Missing
      /\ IsFiniteSet(Compiled') /\ NoinlineExtern' /\ MainCompiled'
      /\ Cardinality(Compiled') = Cardinality(Compiled)
      /\ \A d \in Decls : Main(d)' = Main(d) /\ SymbolsOf(d)' = SymbolsOf(d)
  BY <1>1, ModuleKept
<1>4. \A d \in Missing : d \in Decls /\ SymbolsOf(d) \cap undefs' # {}
  BY <1>1, <1>2, MissingUndefined DEF Missing
<1>5. Cardinality(Compiled) \in Nat
  BY FS_CardinalityType DEF CompInv
<1> HIDE DEF Main, SymbolsOf, Compiled, Missing
<1>6. ASSUME ~ mismatch PROVE Progress' /\ UndefMissing'
  <2>1. Missing = {} \/ Cardinality(Compiled) >= rounds
    BY <1>1, <1>6 DEF CompInv, Progress
  <2>2. CASE undefs' = {}
    BY <1>1, <1>3, <1>4, <2>2 DEF Progress, UndefMissing
  <2>3. CASE undefs' # {}
    <3>1. pc' = "symbols"
      BY <1>1, <2>3
    <3>2. Missing = {} \/ Cardinality(Compiled) >= rounds' - 1
      BY <1>1, <1>2, <2>1
    <3>3. \A d \in Missing' : (SymbolsOf(d))' \cap undefs' # {}
      BY <1>3, <1>4
    <3>4. Progress'
      BY <1>3, <3>1, <3>2, <3>3 DEF Progress
    <3>5. UndefMissing'
      BY <1>1, <1>3 DEF UndefMissing
    <3> QED
      BY <3>4, <3>5
  <2> QED
    BY <2>2, <2>3
<1>7. Visited' /\ Start'
  BY <1>1, <1>2 DEF Visited, VisitorPath, Start
<1> QED
  BY <1>1, <1>3, <1>6, <1>7 DEF CompInv

(* gen_undef with an answer for its symbol: either it compiles the         *)
(* function, or there was nothing to compile and nothing is missing that   *)
(* was not.                                                                *)
LEMMA UndefComp ==
    ASSUME GenInv, CompInv, NEW s \in undefs, NEW d \in Decls, gen_undef(s, d)
    PROVE  CompInv'
<1>1. /\ pc = "symbols" /\ gen_callee(d)
      /\ mismatch' = (mismatch \/ Main(d) # s)
      /\ undefs' = undefs \ {s}
      /\ pc' = IF undefs' = {} THEN "rounds" ELSE "symbols"
      /\ UNCHANGED <<ast, mbdecl, rounds, dargs, cnter>>
  BY DEF gen_undef
<1>2. /\ TypeOK /\ NoinlineExtern /\ MainCompiled /\ IsFiniteSet(Compiled) /\ rounds \in Nat
  BY DEF GenInv, CompInv, TypeOK
<1>3. \A e \in Decls : /\ Main(e)' = Main(e) /\ SymbolsOf(e)' = SymbolsOf(e)
                       /\ Compilable(e)' = Compilable(e)
  BY <1>1 DEF Main, SymbolsOf, Compilable
<1>4. Visited' /\ Start'
  BY <1>1 DEF Visited, VisitorPath, Start
<1>5. Cardinality(Compiled) \in Nat
  BY <1>2, FS_CardinalityType
<1>6. ASSUME ~ mismatch'
      PROVE  /\ ~ mismatch /\ Main(d) = s /\ d \notin Compiled
             /\ Progress /\ UndefMissing
             /\ Main(d) \in declared \ noinline
             /\ \A e \in Decls : e # d => Main(e) # s /\ s \notin SymbolsOf(e)
  <2>1. ~ mismatch /\ Main(d) = s
    BY <1>1, <1>6
  <2>2. Main(d) \notin bodies
    BY <1>1, <2>1 DEF GenInv, UndefEmpty
  <2>3. Progress /\ UndefMissing
    BY <2>1 DEF CompInv
  <2>4. \A e \in Decls : e # d => Main(e) # s /\ s \notin SymbolsOf(e)
    BY <1>2, <2>1, MainSymbol
  <2> QED
    BY <1>1, <2>1, <2>2, <2>3, <2>4 DEF UndefMissing, Compiled
<1>7. CASE Compilable(d) /\ \E ss \in {{Main(d)}, SymbolsOf(d)} : Generate(ss, d)
  <2>1. PICK ss \in {{Main(d)}, SymbolsOf(d)} : Generate(ss, d)
    BY <1>7
  <2>2. /\ IsFiniteSet(Compiled') /\ NoinlineExtern' /\ MainCompiled'
        /\ Cardinality(Compiled') \in Nat
        /\ Cardinality(Compiled) <= Cardinality(Compiled')
        /\ d \notin Compiled => Cardinality(Compiled) < Cardinality(Compiled')
    BY <1>1, <1>2, <2>1, GenerateCompiles
  <2>3. ASSUME ~ mismatch' PROVE Progress' /\ UndefMissing'
    <3>1. d \in Missing
      BY <1>2, <1>6, <1>7, <2>3, MainSymbol DEF Missing
    <3>2. Cardinality(Compiled) >= rounds \/ Cardinality(Compiled) >= rounds - 1
      BY <1>1, <1>6, <2>3, <3>1 DEF Progress
    <3>3. Cardinality(Compiled') >= rounds
      BY <1>2, <1>5, <1>6, <2>2, <2>3, <3>2
    <3>4. Progress'
      BY <1>1, <3>3 DEF Progress
    <3>5. UndefMissing'
      <4>1. declared \ noinline \subseteq declared' \ noinline'
        BY <2>1 DEF Generate
      <4> HIDE DEF Main
      <4> QED
        BY <1>1, <1>3, <1>6, <2>3, <4>1 DEF UndefMissing
    <3> QED
      BY <3>4, <3>5
  <2> QED
    BY <1>4, <2>2, <2>3 DEF CompInv
<1>8. ASSUME Compiled' = Compiled, declared' \ noinline' \subseteq declared \ noinline,
             declared \subseteq declared', noinline' \subseteq noinline \cup SymbolsOf(d),
             NoinlineExtern', MainCompiled', ~ Compilable(d)
      PROVE  CompInv'
  <2> HIDE DEF Main, SymbolsOf, Compilable, Compiled
  <2>1. ASSUME ~ mismatch' PROVE Progress' /\ UndefMissing'
    <3>1. /\ Main(d) = s /\ Progress /\ UndefMissing
          /\ \A e \in Decls : e # d => Main(e) # s /\ s \notin SymbolsOf(e)
      BY <1>6, <2>1
    <3>2. Missing' \subseteq Missing
      BY <1>3, <1>8 DEF Missing
    <3>3. d \notin Missing
      BY <1>8 DEF Missing
    <3>4. ASSUME \A e \in Missing : SymbolsOf(e) \cap undefs # {}
          PROVE  \A e \in Missing' : (SymbolsOf(e))' \cap undefs' # {}
      <4> SUFFICES ASSUME NEW e \in Missing' PROVE (SymbolsOf(e))' \cap undefs' # {}
        OBVIOUS
      <4>1. e \in Missing /\ e # d /\ e \in Decls
        BY <3>2, <3>3 DEF Missing
      <4>2. PICK t \in SymbolsOf(e) : t \in undefs
        BY <3>4, <4>1
      <4>3. t # s
        BY <3>1, <4>1, <4>2
      <4> QED
        BY <1>1, <1>3, <4>1, <4>2, <4>3
    <3>5. Progress'
      <4>1. CASE Cardinality(Compiled) >= rounds
        BY <1>1, <1>8, <4>1 DEF Progress
      <4>2. CASE ~ (Cardinality(Compiled) >= rounds)
        <5>1. /\ \A e \in Missing : SymbolsOf(e) \cap undefs # {}
              /\ Missing = {} \/ Cardinality(Compiled) >= rounds - 1
          BY <1>1, <3>1, <4>2 DEF Progress
        <5>2. \A e \in Missing' : (SymbolsOf(e))' \cap undefs' # {}
          BY <3>4, <5>1
        <5>3. Missing' = {} \/ Cardinality(Compiled') >= rounds' - 1
          BY <1>1, <1>8, <3>2, <5>1
        <5>4. undefs' = {} => Missing' = {}
          BY <5>2
        <5> QED
          BY <1>1, <5>2, <5>3, <5>4 DEF Progress
      <4> QED
        BY <4>1, <4>2
    <3>6. UndefMissing'
      <4> SUFFICES ASSUME NEW e \in Decls, Main(e) \in undefs'
                   PROVE  Main(e) \in declared' \ noinline'
        BY <1>3 DEF UndefMissing
      <4>1. e # d /\ Main(e) \in undefs
        BY <1>1, <3>1
      <4>2. Main(e) \notin SymbolsOf(d)
        BY <1>2, <4>1, MainSymbol
      <4>3. Main(e) \in declared \ noinline
        BY <1>1, <3>1, <4>1 DEF UndefMissing
      <4> QED
        BY <1>8, <4>2, <4>3
    <3> QED
      BY <3>5, <3>6
  <2> QED
    BY <1>2, <1>4, <1>8, <2>1 DEF CompInv
<1>9. CASE ~ Compilable(d) /\ UNCHANGED unit
  <2>1. Compiled' = Compiled /\ NoinlineExtern' /\ MainCompiled'
    BY <1>1, <1>9, ModuleKept
  <2>2. declared' = declared /\ noinline' = noinline
    BY <1>9 DEF unit
  <2> QED
    BY <1>8, <1>9, <2>1, <2>2
<1>10. CASE /\ ~ Compilable(d) /\ ~ ast[d].inlined
            /\ \E ss \in {{Main(d)}, SymbolsOf(d)} : Declare(ss)
  <2>1. PICK ss \in {{Main(d)}, SymbolsOf(d)} : Declare(ss)
    BY <1>10
  <2>2. declared \subseteq declared'
    BY <2>1 DEF Declare
  <2> QED
    BY <1>1, <1>2, <1>8, <1>10, <2>1, <2>2, DeclareCompiles
<1> QED
  BY <1>1, <1>2, <1>7, <1>9, <1>10, CalleeOutcome

(* gen_undefs2 compiles what the visitor met, or leaves it to a library.   *)
LEMMA VisitComp ==
    ASSUME GenInv, CompInv, NEW d \in Decls, gen_undefs2(d)
    PROVE  CompInv'
<1>1. /\ pc = "found" /\ pc' = "found" /\ gen_callee(d)
      /\ Main(d) \in undefs /\ undefs' = undefs \ {Main(d)}
      /\ UNCHANGED <<ast, mbdecl, rounds, mismatch>>
  BY DEF gen_undefs2
<1>2. /\ TypeOK /\ NoinlineExtern /\ MainCompiled /\ IsFiniteSet(Compiled)
      /\ rounds = 0 /\ mbdecl \in Decls
      /\ ast[mbdecl].kind = "ctor"
  BY <1>1 DEF GenInv, CompInv, TypeOK, Start, Phases
<1>3. \A e \in Decls : /\ Main(e)' = Main(e) /\ SymbolsOf(e)' = SymbolsOf(e)
                       /\ Compilable(e)' = Compilable(e) /\ Met(e)' = Met(e)
  BY <1>1 DEF Main, SymbolsOf, Compilable, Met
<1>4. \A e \in Decls : e # d => Main(e) # Main(d)
  BY <1>2, MainSymbol
<1>5. Met(mbdecl) \subseteq Decls
  BY DEF Met
<1>6. ASSUME NoinlineExtern', MainCompiled', IsFiniteSet(Compiled'),
             Compiled \subseteq Compiled', Compiled' \subseteq Compiled \cup {d},
             d \in Compiled' \/ ~ Compilable(d), MaxRounds > 0 => d \in {mbdecl} \cup Met(mbdecl),
             \A s \in declared' : \/ s \in declared \/ s \in bodies' \/ s \in noinline'
                                  \/ d \in Compiled' /\ s \in ast[d].emits,
             bodies \subseteq bodies', noinline \subseteq noinline'
      PROVE  CompInv'
  <2> HIDE DEF Main, Compiled, Compilable, Met
  <2>1. Visited'
    <3> SUFFICES ASSUME MaxRounds > 0 PROVE Visited'
      BY DEF Visited, VisitorPath
    <3>1. /\ Compiled \subseteq {mbdecl} \cup Met(mbdecl)
          /\ \A s \in declared : s \in bodies \/ s \in noinline \/ \E x \in Compiled : s \in ast[x].emits
          /\ \A e \in Met(mbdecl) : Compilable(e) /\ e \notin Compiled => Main(e) \in undefs
      BY <1>1, <1>2 DEF CompInv, Visited, VisitorPath
    <3>2. Compiled' \subseteq {mbdecl} \cup Met(mbdecl)
      BY <1>6, <3>1
    <3>3. ASSUME NEW s \in declared'
          PROVE  s \in bodies' \/ s \in noinline' \/ \E x \in Compiled' : s \in ast[x].emits
      BY <1>6, <3>1
    <3>4. ASSUME NEW e \in Met(mbdecl), Compilable(e), e \notin Compiled'
          PROVE  Main(e) \in undefs'
      <4>1. e \in Decls /\ e # d
        BY <1>5, <1>6, <3>4
      <4> QED
        BY <1>1, <1>4, <1>6, <3>1, <3>4, <4>1
    <3>5. \A e \in Met(mbdecl) : Compilable(e)' = Compilable(e) /\ Main(e)' = Main(e)
      BY <1>3, <1>5
    <3>6. Met(mbdecl)' = Met(mbdecl)
      BY <1>1 DEF Met
    <3> QED
      BY <1>1, <1>2, <3>2, <3>3, <3>4, <3>5, <3>6 DEF Visited
  <2>2. Start'
    <3>1. Met(mbdecl)' = Met(mbdecl)
      BY <1>1 DEF Met
    <3>2. \A e \in Decls : Main(e) \in undefs => e \in Met(mbdecl)
      BY <1>1 DEF CompInv, Start
    <3> QED
      BY <1>1, <1>2, <1>3, <3>1, <3>2 DEF Start
  <2> QED
    BY <1>1, <1>6, <2>1, <2>2 DEF CompInv, Progress, UndefMissing
<1>7. d \in Met(mbdecl)
  BY <1>1 DEF CompInv, Start
<1>8. CASE Compilable(d) /\ \E ss \in {{Main(d)}, SymbolsOf(d)} : Generate(ss, d)
  <2>1. PICK ss \in {{Main(d)}, SymbolsOf(d)} : Generate(ss, d)
    BY <1>8
  <2>2. /\ Compiled' = Compiled \cup {d} /\ IsFiniteSet(Compiled')
        /\ NoinlineExtern' /\ MainCompiled'
    BY <1>1, <1>2, <2>1, GenerateCompiles
  <2>3. /\ \A s \in declared' : s \in declared \/ s \in bodies' \/ s \in ast[d].emits
        /\ bodies \subseteq bodies' /\ noinline \subseteq noinline'
    BY <2>1 DEF Generate
  <2> HIDE DEF Compiled, Compilable, Met
  <2> QED
    BY <1>6, <1>7, <2>2, <2>3
<1>9. CASE ~ Compilable(d) /\ UNCHANGED unit
  <2>1. Compiled' = Compiled /\ NoinlineExtern' /\ MainCompiled' /\ IsFiniteSet(Compiled')
    BY <1>1, <1>9, ModuleKept
  <2>2. declared' = declared /\ noinline' = noinline /\ bodies' = bodies
    BY <1>9 DEF unit
  <2> HIDE DEF Compiled, Compilable, Met
  <2> QED
    BY <1>6, <1>7, <1>9, <2>1, <2>2
<1>10. CASE /\ ~ Compilable(d) /\ ~ ast[d].inlined
            /\ \E ss \in {{Main(d)}, SymbolsOf(d)} : Declare(ss)
  <2>1. PICK ss \in {{Main(d)}, SymbolsOf(d)} : Declare(ss)
    BY <1>10
  <2>2. Compiled' = Compiled /\ NoinlineExtern' /\ MainCompiled' /\ IsFiniteSet(Compiled')
    BY <1>1, <1>2, <1>10, <2>1, DeclareCompiles
  <2>3. /\ \A s \in declared' : s \in declared \/ s \in noinline'
        /\ bodies \subseteq bodies' /\ noinline \subseteq noinline'
    BY <2>1 DEF Declare
  <2> HIDE DEF Compiled, Compilable, Met
  <2> QED
    BY <1>6, <1>7, <1>10, <2>2, <2>3
<1> QED
  BY <1>1, <1>2, <1>8, <1>9, <1>10, CalleeOutcome

(* gen_darg starts the rounds again.                                       *)
LEMMA DargComp ==
    ASSUME GenInv, CompInv, gen_darg
    PROVE  CompInv'
<1> DEFINE c == dargs[cnter + 1].ctor
           code == IF ast[c].inlined THEN SymbolsOf(c) ELSE {}
<1>1. /\ pc = "dargs" /\ pc' = "rounds" /\ rounds' = 0 /\ ast' = ast /\ cnter < Len(dargs)
      /\ bodies' = bodies \cup code \cup {Main(JitMain)}
      /\ noinline' = noinline \cup (SymbolsOf(c) \ code)
  BY DEF gen_darg
<1>2. TypeOK /\ NoinlineExtern /\ MainCompiled /\ IsFiniteSet(Compiled)
  BY DEF GenInv, CompInv
<1>3. c \in Decls /\ JitMain \in Decls
  <2>1. cnter + 1 \in 1 .. Len(dargs)
    BY <1>1, <1>2 DEF TypeOK
  <2>2. dargs[cnter + 1] \in ConstructExpr
    BY <1>2, <2>1 DEF TypeOK
  <2> QED
    BY <2>2, NullAssumption DEF ConstructExpr
<1>4. \A e \in Decls : Main(e)' = Main(e) /\ SymbolsOf(e)' = SymbolsOf(e)
  BY <1>1 DEF Main, SymbolsOf
<1>5. \A e \in Decls : /\ Main(e) \in SymbolsOf(e)
                        /\ \A s \in SymbolsOf(e) : s[1] = e
  <2>1. \A e \in Decls : \A s \in SymbolsOf(e) : s[1] = e
    BY DEF SymbolsOf
  <2> QED
    BY <1>2, <2>1, MainSymbol
<1> HIDE DEF Main, SymbolsOf, c
<1>6. Compiled \subseteq Compiled' /\ Compiled' \subseteq Compiled \cup {c, JitMain}
  BY <1>1, <1>3, <1>4, <1>5 DEF Compiled
<1>7. IsFiniteSet(Compiled') /\ Cardinality(Compiled') \in Nat
  <2>1. IsFiniteSet({c, JitMain})
    <3>1. {c, JitMain} = {c} \cup {JitMain}
      OBVIOUS
    <3>2. IsFiniteSet({c})
      BY FS_Singleton
    <3> QED
      BY <3>1, <3>2, FS_AddElement
  <2> QED
    BY <1>2, <1>6, <2>1, GrowingSet
<1>8. NoinlineExtern'
  BY <1>1, <1>2, <1>3, <1>4, <1>5 DEF NoinlineExtern
<1>9. MainCompiled'
  <2> SUFFICES ASSUME NEW e \in Decls, NEW s \in SymbolsOf(e), s \in bodies'
               PROVE  Main(e) \in bodies'
    BY <1>4 DEF MainCompiled, Compiled
  <2>1. CASE s \in bodies
    BY <1>1, <1>2, <2>1 DEF MainCompiled, Compiled
  <2>2. CASE s \in code
    BY <1>1, <1>3, <1>5, <2>2
  <2>3. CASE s = Main(JitMain)
    BY <1>1, <1>3, <1>5, <2>3
  <2> QED
    BY <1>1, <2>1, <2>2, <2>3
<1> QED
  BY <1>1, <1>7, <1>8, <1>9 DEF CompInv, Progress, UndefMissing, Visited, VisitorPath, Start

(* The steps from one phase to the next.                                   *)
LEMMA PhaseComp ==
    ASSUME GenInv, CompInv,
           \/ conv_dargs \/ rounds_end \/ gen_undefs2_end \/ dargs_end
           \/ \E d \in Decls : gen_undefs2_dtor(d)
           \/ \E s \in undefs : gen_undef_lost(s)
           \/ \E s \in undefs, d \in Decls : gen_undef_dtor(s, d)
           \/ UNCHANGED vars
    PROVE  CompInv'
<1>1. UNCHANGED <<ast, mbdecl, unit, rounds, mismatch, declared, bodies, noinline>>
  BY DEF conv_dargs, rounds_end, gen_undefs2_end, dargs_end, gen_undefs2_dtor, gen_undef_lost,
         gen_undef_dtor, Fatal, vars, unit
<1>2. /\ Compiled' = Compiled /\ Missing' = Missing
      /\ IsFiniteSet(Compiled') /\ NoinlineExtern' /\ MainCompiled'
      /\ Cardinality(Compiled') = Cardinality(Compiled)
      /\ \A d \in Decls : /\ Main(d)' = Main(d) /\ SymbolsOf(d)' = SymbolsOf(d)
                           /\ Compilable(d)' = Compilable(d) /\ Met(d)' = Met(d)
  BY <1>1, ModuleKept
<1>3. /\ mbdecl \in Decls /\ Met(mbdecl) \subseteq Decls /\ Missing \subseteq Decls
      /\ rounds \in Nat /\ MaxRounds \in Nat
  BY AstAssumption DEF GenInv, TypeOK, Met, Missing
<1>4. declared = {} \/ pc # "conv"
  BY DEF GenInv, Fresh
<1> HIDE DEF Main, SymbolsOf, Compilable, Met, Compiled, Missing
<1>5. CASE conv_dargs
  <2>1. /\ pc = "conv" /\ pc' = "dargs" /\ mbdecl = JitMain /\ declared = {} /\ bodies = {}
        /\ rounds = 0
    BY <1>4, <1>5 DEF conv_dargs, GenInv, Fresh, CompInv, Start
  <2>2. ast[mbdecl].kind # "ctor"
    BY <2>1, AstAssumption DEF GenInv, Given
  <2>3. Compiled = {}
    BY <2>1 DEF Compiled
  <2>4. Visited'
    BY <1>1, <1>2, <2>1, <2>2, <2>3 DEF Visited
  <2> QED
    BY <1>1, <1>2, <2>1, <2>4 DEF CompInv, Progress, UndefMissing, Start
<1>6. CASE rounds_end
  <2>1. pc = "rounds" /\ pc' = "dargs" /\ rounds = MaxRounds
    BY <1>6 DEF rounds_end
  <2>2. Visited'
    BY <1>1, <1>3, <2>1 DEF Visited, VisitorPath
  <2>3. ~ mismatch => Progress'
    BY <1>1, <1>2, <1>3, <2>1 DEF CompInv, Progress
  <2> QED
    BY <1>1, <1>2, <2>1, <2>2, <2>3 DEF CompInv, UndefMissing, Start
<1>7. CASE gen_undefs2_end
  <2>1. pc = "found" /\ pc' = "dargs" /\ undefs = {} /\ rounds = 0
    BY <1>7 DEF gen_undefs2_end, CompInv, Start
  <2>2. Visited'
    BY <1>1, <1>2, <1>3, <2>1 DEF CompInv, Visited, VisitorPath
  <2> QED
    BY <1>1, <1>2, <2>1, <2>2 DEF CompInv, Progress, UndefMissing, Start
<1>8. CASE dargs_end
  <2>1. pc = "dargs" /\ pc' = "done"
    BY <1>8 DEF dargs_end
  <2>2. Visited'
    BY <1>1, <1>2, <1>3, <2>1 DEF CompInv, Visited, VisitorPath
  <2>3. ~ mismatch => Progress'
    BY <1>1, <1>2, <2>1 DEF CompInv, Progress
  <2> QED
    BY <1>1, <1>2, <2>1, <2>2, <2>3 DEF CompInv, UndefMissing, Start
<1>9. CASE \/ \E d \in Decls : gen_undefs2_dtor(d)
           \/ \E s \in undefs : gen_undef_lost(s)
           \/ \E s \in undefs, d \in Decls : gen_undef_dtor(s, d)
  <2>1. pc' \in {"lost", "dtor"}
    BY <1>9 DEF gen_undefs2_dtor, gen_undef_lost, gen_undef_dtor, Fatal
  <2> QED
    BY <1>1, <1>2, <2>1 DEF CompInv, Progress, UndefMissing, Visited, VisitorPath, Start
<1>10. CASE UNCHANGED vars
  <2>1. pc' = pc /\ undefs' = undefs
    BY <1>10 DEF vars
  <2>2. ~ mismatch => Progress' /\ UndefMissing'
    BY <1>1, <1>2, <1>3, <2>1 DEF CompInv, Progress, UndefMissing
  <2>3. Visited' /\ Start'
    BY <1>1, <1>2, <1>3, <2>1 DEF CompInv, Visited, VisitorPath, Start
  <2> QED
    BY <1>1, <1>2, <2>2, <2>3 DEF CompInv
<1> QED
  BY <1>5, <1>6, <1>7, <1>8, <1>9, <1>10

LEMMA NextComp == GenInv /\ CompInv /\ [Next]_vars => CompInv'
<1> SUFFICES ASSUME GenInv, CompInv, [Next]_vars PROVE CompInv'
  OBVIOUS
<1>1. ASSUME conv_method2 \/ conv_function2 PROVE CompInv'
  BY <1>1, ConvComp
<1>2. ASSUME conv_ctor2 PROVE CompInv'
  BY <1>2, ConvCtorComp
<1>3. ASSUME find_undef_symbols PROVE CompInv'
  BY <1>3, RoundComp
<1>4. ASSUME NEW s \in undefs, NEW d \in Decls, gen_undef(s, d) PROVE CompInv'
  BY <1>4, UndefComp
<1>5. ASSUME NEW d \in Decls, gen_undefs2(d) PROVE CompInv'
  BY <1>5, VisitComp
<1>6. ASSUME gen_darg PROVE CompInv'
  BY <1>6, DargComp
<1>7. ASSUME \/ conv_dargs \/ rounds_end \/ gen_undefs2_end \/ dargs_end
             \/ \E d \in Decls : gen_undefs2_dtor(d)
             \/ \E s \in undefs : gen_undef_lost(s)
             \/ \E s \in undefs, d \in Decls : gen_undef_dtor(s, d)
             \/ UNCHANGED vars
      PROVE  CompInv'
  BY <1>7, PhaseComp
<1> QED
  BY <1>1, <1>2, <1>3, <1>4, <1>5, <1>6, <1>7 DEF Next

(* What the visitor met is closed: what it looks at in it is in it.        *)
LEMMA MetClosed ==
    ASSUME TypeOK, NEW m \in Decls, NEW x \in {m} \cup Met(m)
    PROVE  ast[x].visits \subseteq Met(m)
<1>1. x \in Decls
  BY DEF Met
<1>2. ast[x].visits \subseteq Decls
  BY <1>1 DEF TypeOK, FunctionDecl
<1> QED
  BY <1>2 DEF Met

LEMMA DoneComplete == GenInv /\ CompInv => (EnoughRounds => EverythingCompiled)
<1> SUFFICES ASSUME GenInv, CompInv, EnoughRounds, pc = "done", ~ mismatch,
                    NEW d \in Decls, ast[d].inlined, ast[d].known,
                    NEW s \in SymbolsOf(d), s \in declared, Main(d) \notin bodies
             PROVE  /\ rounds = 0
                    /\ \E x \in Decls : /\ Main(x) \in bodies /\ d \notin ast[x].visits
                                         /\ ast[x].emits \cap SymbolsOf(d) # {}
  BY DEF EverythingCompiled
<1>1. rounds \in Nat /\ MaxRounds \in Nat /\ mbdecl \in Decls /\ TypeOK
  BY AstAssumption DEF GenInv, TypeOK
<1>2. Cardinality(Compiled) \in Nat
  BY FS_CardinalityType DEF CompInv
<1>3. Compilable(d) /\ d \notin Compiled
  BY DEF Compilable, Compiled
<1>4. s \notin noinline /\ s \notin bodies
  BY <1>3 DEF CompInv, NoinlineExtern, MainCompiled
<1>5. d \in Missing
  BY <1>3, <1>4 DEF Missing
<1>6. rounds = 0
  <2> HIDE DEF Compiled, Missing
  <2> QED
    BY <1>1, <1>2, <1>5 DEF CompInv, Progress, EnoughRounds
<1>7. MaxRounds > 0
  BY <1>1, <1>2, <1>6 DEF EnoughRounds
<1>8. Visited /\ VisitorPath
  BY <1>6, <1>7 DEF CompInv, VisitorPath
<1>9. PICK x \in Compiled : s \in ast[x].emits
  BY <1>4, <1>8 DEF Visited
<1>10. x \in Decls /\ Main(x) \in bodies
  BY DEF Compiled
<1>11. x \in {mbdecl} \cup Met(mbdecl)
  BY <1>8 DEF Visited
<1>12. d \notin Met(mbdecl)
  BY <1>3, <1>8 DEF Visited
<1>13. d \notin ast[x].visits
  <2> HIDE DEF Met
  <2> QED
    BY <1>1, <1>11, <1>12, MetClosed
<1> QED
  BY <1>6, <1>9, <1>10, <1>13

(* For any functions, references, default arguments and order of the       *)
(* symbols, as long as every answer is for its symbol: when a module is    *)
(* done before the last round, or with fewer functions that have code than *)
(* there are rounds, every inline function on the lists that it uses has   *)
(* code, but for those the visitor of gen_undefs2 does not look for.  The  *)
(* limit of ten rounds is never reached with a function missing in a       *)
(* smaller module: each round compiles one.                                *)
THEOREM EverythingCompiledHolds == Spec => [](EnoughRounds => EverythingCompiled)
<1>1. Init => GenInv /\ CompInv
  BY InitInv, InitComp
<1>2. (GenInv /\ CompInv) /\ [Next]_vars => (GenInv /\ CompInv)'
  BY NextInv, NextComp
<1>3. GenInv /\ CompInv => (EnoughRounds => EverythingCompiled)
  BY DoneComplete
<1> QED
  BY <1>1, <1>2, <1>3, PTL DEF Spec
=============================================================================
