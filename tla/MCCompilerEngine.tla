-------------------------- MODULE MCCompilerEngine --------------------------
(***************************************************************************)
(* Every way a function compiled for a call and three callees may refer to *)
(* each other; and inline functions of Qt 5.4 that the examples call.      *)
(***************************************************************************)
EXTENDS CompilerEngine

Fn(kind, inlined, known) ==
    [kind |-> kind, tmpl |-> FALSE, inlined |-> inlined, known |-> known, called |-> FALSE,
     calls |-> {}, temp |-> NULL, others |-> {}, visits |-> {}, defaults |-> <<>>, emits |-> {}]
Called(f) == [f EXCEPT !.called = TRUE]

Inline == Fn("method", TRUE, TRUE)
Extern == Fn("method", FALSE, TRUE)
Unknown == Fn("method", TRUE, FALSE)
Function == Fn("function", TRUE, TRUE)
Ctor == Fn("ctor", TRUE, TRUE)
Dtor == Fn("dtor", FALSE, FALSE)
Jit == Fn("function", TRUE, FALSE)
----------------------------------------------------------------------------
(* f0 is called from Ruby and refers to f1.  A callee may refer to those   *)
(* behind it, the last one to the first.                                   *)
Callees == {"f1", "f2", "f3"}
MCDecls == Callees \cup {"f0", "jit"}
Edges == {{"f1"}, {"f1", "f2"}} \X (SUBSET {"f2", "f3"}) \X (SUBSET {"f3"}) \X (SUBSET {"f1"})

Kinds == {ks \in [Callees -> {Inline, Extern, Unknown, Ctor, Dtor}] :
             ks["f1"] # Unknown /\ ks["f2"] # Extern /\ ks["f3"] \in {Inline, Ctor, Dtor}}

\* How constructors and destructors are referred to: a constructor by a
\* temporary object and a destructor by a call; or a constructor by another
\* CXXConstructExpr and a destructor by no expression, the calls beside each
\* other or all but one in its arguments.
Styles == {"temps", "plain", "nested"}

SymbolsFrom(cs, ks, v) ==
    {<<c, CASE ks[c].kind = "ctor" -> v [] ks[c].kind = "dtor" -> "D1" [] OTHER -> "">> : c \in cs}

Referring(f, cs, ks, style) ==
    LET Of(k) == {c \in cs : ks[c].kind = k}
        AnyOf(S) == IF S = {} THEN {} ELSE {CHOOSE c \in S : TRUE}
        calls == Of("method") \cup (IF style = "temps" THEN Of("dtor") ELSE {})
    IN [f EXCEPT !.calls = calls,
                 !.temp = IF style = "temps" /\ Of("ctor") # {} THEN CHOOSE t \in Of("ctor") : TRUE
                          ELSE NULL,
                 !.others = Of("ctor"),
                 !.visits = CASE style = "temps" -> calls
                              [] style = "plain" -> calls \cup Of("ctor")
                              [] style = "nested" -> AnyOf(calls \cup Of("ctor")),
                 !.emits = SymbolsFrom(cs, ks, IF f.kind = "ctor" THEN "C2" ELSE "C1")]

\* A parameter that defaults to an object c, in whose making f1 is used
Default(c, ks) ==
    [ctor |-> c,
     calls |-> {x \in {"f1"} : ks[x].kind = "method"},
     others |-> {x \in {"f1"} : ks[x].kind = "ctor"},
     emits |-> SymbolsFrom({"f1", c}, ks, "C1")]

Ast(root, ks, es, style, ds) ==
    LET Ref(f, cs) == IF f.inlined THEN Referring(f, cs, ks, style) ELSE f
        objects == \A i \in DOMAIN ds : ks[ds[i]].kind = "ctor"
    IN [d \in MCDecls |->
           CASE d = "f0" -> [Ref(Called(root), es[1]) EXCEPT !.defaults =
                                IF objects THEN [i \in DOMAIN ds |-> Default(ds[i], ks)] ELSE <<>>]
             [] d = "f1" -> Ref(ks[d], es[2])
             [] d = "f2" -> Ref(ks[d], es[3])
             [] d = "f3" -> Ref(ks[d], es[4])
             [] d = "jit" -> Jit]

\* A function of a library refers to nothing clang knows of.
Roots == {Inline, Function, Ctor} \cup {[f EXCEPT !.inlined = FALSE] : f \in {Inline, Function, Ctor}}
MCAsts ==
    {Ast(root, ks, es, style, ds) : root \in Roots, ks \in Kinds, es \in Edges, style \in Styles,
                                    ds \in {<<>>, <<"f3">>, <<"f3", "f3">>, <<"f3", "f2">>}}
----------------------------------------------------------------------------
(* QWidget::setSizePolicy(QSizePolicy::Policy, QSizePolicy::Policy) is     *)
(*     { setSizePolicy(QSizePolicy(h, v)); }                               *)
(* and the constructor it uses calls setControlType.                       *)
QtDecls == {"jit", "QWidget::setSizePolicy(Policy,Policy)", "QWidget::setSizePolicy(QSizePolicy)",
            "QSizePolicy", "QSizePolicy::setControlType"}
Qt ==
    [d \in QtDecls |->
        CASE d = "QWidget::setSizePolicy(Policy,Policy)" ->
                 [Called(Inline) EXCEPT
                     !.calls = {"QWidget::setSizePolicy(QSizePolicy)"},
                     !.temp = "QSizePolicy", !.others = {"QSizePolicy"},
                     !.emits = {<<"QWidget::setSizePolicy(QSizePolicy)", "">>,
                                <<"QSizePolicy", "C1">>}]
          [] d = "QSizePolicy" ->
                 [Ctor EXCEPT !.calls = {"QSizePolicy::setControlType"},
                              !.emits = {<<"QSizePolicy::setControlType", "">>}]
          [] d = "QSizePolicy::setControlType" -> Extern
          [] d = "jit" -> Jit
          [] OTHER -> Fn("method", FALSE, FALSE)]
MCQt == {Qt}
=============================================================================
