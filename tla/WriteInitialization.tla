------------------------ MODULE WriteInitialization ------------------------
(***************************************************************************)
(* rbwriteinitialization.cpp: setupUi and retranslateUi of the Ruby class. *)
(*                                                                         *)
(* A statement of the output is told by the method it calls, the variable  *)
(* it sets and the variables it reads; the values written out in place are *)
(* left out.  An instance variable begins with @, any other is local to    *)
(* its method; the main widget is the parameter of both.                   *)
(***************************************************************************)
EXTENDS Uic

VARIABLES
    setup,          \* m_output, from the line of setupUi on
    refresh,        \* m_refreshOut, the body of retranslateUi
    delayed,        \* m_delayedOut
    delayedActions, \* m_actionOut
    widgetChain,    \* the chains of objects the walk is inside of, innermost last
    layoutChain,
    groupChain,
    layoutWidget,   \* m_layoutWidget
    registered,     \* the names in m_registeredWidgets
    cached,         \* the variables of values: fonts, icons, size policies, brushes
    buttonGroups,   \* m_buttonGroups
    buddies         \* m_buddies

textVars == <<setup, refresh, delayed, delayedActions>>
chainVars == <<widgetChain, layoutChain, groupChain, layoutWidget>>
nameVars == <<registered, buttonGroups, buddies>>
writeVars == <<textVars, chainVars, nameVars, cached>>

Say(op, sets, uses) == [op |-> op, sets |-> sets, uses |-> uses]
Nothing == [x \in {} |-> ""]

Parent == Last(widgetChain)
ClassAt(w) == IF w = NULL THEN "" ELSE Attribute(w, "class")

\* A widget's variable; the code tells the main widget by the length of the chain.
Main == Lowered(named[MainWidget])
Own(n) == ToRubyIdentifier(named[n])
Var(w) == IF w = MainWidget THEN Main ELSE Own(w)
VarOf(n) == IF heap[n].class = "DomWidget" THEN Var(n) ELSE Own(n)

\* The first of some classes, in order, that a class is or extends.
FirstBase(class, bases) ==
    LET hits == SelectSeq(bases, LAMBDA b : Extends(class, b))
    IN  IF hits = <<>> THEN "" ELSE hits[1]

----------------------------------------------------------------------------
(* Icons, pixmaps and texts.                                               *)
Images ==
    IF The(ui, "images") = NULL THEN {}
    ELSE {Attribute(i, "name") : i \in {j \in Range(All(The(ui, "images"), "image")) :
                                            Has(j, "name")}}
\* pixCall: an image of the form is asked for by a name of its own.
ImageUses(text) == IF text # "" /\ text \in Images THEN {text \o "_ID"} ELSE {}
PixText(p) ==
    CASE IsKind(p, "iconset") -> heap[The(p, "iconset")].text
      [] IsKind(p, "pixmap") -> heap[The(p, "pixmap")].text
      [] OTHER -> ""
PixUses(p) == IF p = NULL THEN {} ELSE ImageUses(PixText(p))

IconTags == {"normaloff", "normalon", "disabledoff", "disabledon", "activeoff", "activeon",
             "selectedoff", "selectedon"}
IsIconFormat44(i) == \E t \in IconTags : The(i, t) # NULL

CheckProperty(p) ==
    /\ IsKind(p, "iconset") => IsIconFormat44(The(p, "iconset")) \/ PixText(p) # ""
    /\ IsKind(p, "pixmap") => PixText(p) # ""

(* Values that are written once and shared: the keys of the name maps, as  *)
(* the compare() of the handles and the rgb of a brush tell them apart.    *)
Number(n, tag) == IF HasText(n, tag) THEN Text(n, tag) ELSE "0"
IsSolid(brush) == ~Has(brush, "brushstyle") \/ Attribute(brush, "brushstyle") = "SolidPattern"
Rgb(color) ==
    <<Number(color, "red"), Number(color, "green"), Number(color, "blue"),
      IF Has(color, "alpha") THEN Attribute(color, "alpha") ELSE "0">>
Key(v) ==
    CASE heap[v].class = "DomFont" ->
            <<"font", [t \in {"family", "stylestrategy"} |-> Text(v, t)],
              [t \in DOMAIN heap[v].texts \ {"family", "stylestrategy"} |-> heap[v].texts[t]]>>
      [] heap[v].class = "DomResourceIcon" ->
            <<"icon", [t \in IconTags |-> IF The(v, t) = NULL THEN "" ELSE heap[The(v, t)].text],
              heap[v].text>>
      [] heap[v].class = "DomSizePolicy" ->
            <<"sizePolicy", heap[v].texts,
              [a \in {"hsizetype", "vsizetype"} |-> Attribute(v, a)]>>
      [] heap[v].class = "DomBrush" ->
            IF IsSolid(v) /\ The(v, "color") # NULL THEN <<"brush", Rgb(The(v, "color"))>>
            ELSE <<"DomBrush", v>>
      [] heap[v].class = "DomPalette" -> <<"palette", v>>
      [] OTHER -> <<heap[v].class, v>>
Made(v) == cached[Key(v)]

\* iconCall, after the icon was written.
IconCalls(p) == IF IsKind(p, "iconset") THEN <<Call("value", The(p, "iconset"))>> ELSE <<>>
IconUses(p) == IF IsKind(p, "iconset") THEN {Made(The(p, "iconset"))} ELSE PixUses(p)

----------------------------------------------------------------------------
(* Where a null pointer is followed: an element that is not there, or a    *)
(* property that has another kind than the code takes for granted.         *)
NoString(p) == p # NULL /\ ~IsKind(p, "string")
NotString(p) == ~IsKind(p, "string")
\* The items before the first with an icon.
Iconless(items) ==
    LET icons == {i \in DOMAIN items : PropertyOf(items[i], "icon") # NULL}
    IN  IF icons = {} THEN items ELSE SubSeq(items, 1, Min(icons) - 1)
Gradients == {"LinearGradientPattern", "RadialGradientPattern", "ConicalGradientPattern"}
BrushBroken(b) ==
    CASE Attribute(b, "brushstyle") \in Gradients ->
            \/ The(b, "gradient") = NULL
            \/ \E s \in Range(All(The(b, "gradient"), "gradientstop")) : The(s, "color") = NULL
      [] Attribute(b, "brushstyle") = "TexturePattern" -> The(b, "texture") = NULL
      [] OTHER -> The(b, "color") = NULL

Dereferences(call) ==
    LET n == call.node
    IN  CASE call.name = "acceptSpacer" ->
                LET size == PropertyOf(n, "sizeHint") IN size # NULL /\ ~IsKind(size, "size")
          [] call.name = "comboItems" ->
                \E i \in Range(Iconless(All(n, "item"))) : NotString(PropertyOf(i, "text"))
          [] call.name \in {"comboItem", "listItem", "treeColumn"} -> PropertyOf(n, "text") = NULL
          [] call.name \in {"tableItem", "q3Item"} -> NoString(PropertyOf(n, "text"))
          [] call.name = "q3ListViewItem" ->
                \E p \in Range(All(n, "property")) : Attribute(p, "name") = "text" /\ NoString(p)
          [] call.name \in {"q3Column", "q3Label"} -> NotString(PropertyOf(n, "text"))
          [] call.name = "set" -> IsKind(n, "url") /\ The(The(n, "url"), "string") = NULL
          [] call.name = "value" -> heap[n].class = "DomBrush" /\ BrushBroken(n)
          [] call.name = "colorGroup" ->
                \E r \in Range(All(n, "colorrole")) : Has(r, "role") /\ The(r, "brush") = NULL
          [] call.name = "addPage" -> NoString(AttributeOf(n, "toolTip"))
          [] call.name = "images" ->
                /\ The(ui, "images") # NULL
                /\ \E i \in Range(All(The(ui, "images"), "image")) : The(i, "data") = NULL
          [] OTHER -> FALSE

\* Q_ASSERT(0) of a layout item that holds nothing; a release build goes on.
Asserts(call) ==
    call.name \in {"Validate", "addItem"} /\ heap[call.node].class = "DomLayoutItem"
      /\ Kind(call.node) = "unknown"

Survives(call) == ~Dereferences(call) /\ ~Asserts(call)
Does(name) == Now(name) /\ ~Dereferences(Head(agenda))

Crash ==
    /\ Working
    /\ ~Survives(Head(agenda))
    /\ tool' = "crashed" /\ agenda' = <<>>
    /\ UNCHANGED <<named, used, readers, databases, writeVars>>

\* Mutant: the names it takes are not remembered.
Step_namesForgotten(s, r, names, kept, calls) ==
    /\ setup' = setup \o s /\ refresh' = refresh \o r /\ cached' = kept @@ cached
    /\ Then(calls)
    /\ UNCHANGED <<tool, named, used, readers, databases, delayed, delayedActions>>

\* A call that writes, takes names, keeps values and makes further calls.
Step(s, r, names, kept, calls) ==
    /\ setup' = setup \o s /\ refresh' = refresh \o r
    /\ used' = used \cup names /\ cached' = kept @@ cached
    /\ Then(calls)
    /\ UNCHANGED <<tool, named, readers, databases, delayed, delayedActions>>
Alone(name) == Does(name) /\ UNCHANGED <<chainVars, nameVars>>
----------------------------------------------------------------------------
(* writeFontProperties, writeIconProperties, writeSizePolicy, writeBrush   *)
(* and the palette of writeProperties: a variable is made of a value that  *)
(* has none yet.  Icons, brushes and gradients are local to setupUi.       *)
Setters(v, tags) == [i \in DOMAIN Listed(tags) |-> Say(Listed(tags)[i], "", {v})]
FontTags(f) ==
    {t \in DOMAIN heap[f].texts :
        HasText(f, t) /\ (t = "family" => Text(f, t) # "")
                      /\ (t \in {"pointsize", "weight"} => Text(f, t) # "0")}
Pixmaps(i, v) ==
    LET tags == Listed({t \in IconTags : The(i, t) # NULL})
    IN  [k \in DOMAIN tags |->
            Say("addPixmap", "", {v} \cup ImageUses(heap[The(i, tags[k])].text))]
GradientTypes == {"LinearGradient", "RadialGradient", "ConicalGradient"}
GradientSays(g, v) ==
    LET stops == All(g, "gradientstop")
    IN  (IF Attribute(g, "type") \in GradientTypes THEN <<Say("QGradient", v, {})>> ELSE <<>>)
        \o <<Say("spread", "", {v})>>
        \o (IF Has(g, "coordinatemode") THEN <<Say("coordinateMode", "", {v})>> ELSE <<>>)
        \o [i \in DOMAIN stops |-> Say("setColorAt", "", {v})]

WriteBrush(b, name) ==
    LET gradient == Unique("gradient")
    IN  IF Attribute(b, "brushstyle") \in Gradients
        THEN Step(GradientSays(The(b, "gradient"), gradient) \o <<Say("QBrush", name, {gradient})>>,
                  <<>>, {name, gradient}, Key(b) :> name, <<>>)
        ELSE Step(IF Attribute(b, "brushstyle") = "TexturePattern"
                  THEN <<Say("QBrush", name, PixUses(The(b, "texture")))>>
                  ELSE <<Say("QBrush", name, {}), Say("style", "", {name})>>,
                  <<>>, {name}, Key(b) :> name, <<>>)

WriteIcon(i, name) ==
    Step(IF IsIconFormat44(i) THEN <<Say("QIcon", name, {})>> \o Pixmaps(i, name)
         ELSE <<Say("QIcon", name, ImageUses(heap[i].text))>>,
         <<>>, {name}, Key(i) :> name, <<>>)

WritePalette(p, name) ==
    LET groups == SelectSeq(<<The(p, "active"), The(p, "inactive"), The(p, "disabled")>>,
                            LAMBDA g : g # NULL)
    IN  Step(<<Say("QPalette", "@" \o name, {})>>, <<>>, {name}, Key(p) :> ("@" \o name),
             [i \in DOMAIN groups |-> CallFor("colorGroup", groups[i], p)])

WriteShared(v, class, name, setters) ==
    Step(<<Say(class, "@" \o name, {})>> \o Setters("@" \o name, setters),
         <<>>, {name}, Key(v) :> ("@" \o name), <<>>)

WriteValue ==
    /\ Alone("value")
    /\ LET v == Node
       IN  IF Key(v) \in DOMAIN cached THEN Step(<<>>, <<>>, {}, Nothing, <<>>)
           ELSE CASE heap[v].class = "DomFont" -> WriteShared(v, "QFont", Unique("font"), FontTags(v))
                  [] heap[v].class = "DomSizePolicy" ->
                        WriteShared(v, "QSizePolicy", Unique("sizePolicy"),
                                    {"setHorizontalStretch", "setVerticalStretch"})
                  [] heap[v].class = "DomResourceIcon" -> WriteIcon(v, Unique("icon"))
                  [] heap[v].class = "DomBrush" -> WriteBrush(v, Unique("brush"))
                  [] heap[v].class = "DomPalette" -> WritePalette(v, Unique("palette"))

\* writeColorGroup: colours of the old format, then a brush for each role.
ColorGroup ==
    /\ Alone("colorGroup")
    /\ LET roles == SelectSeq(All(Node, "colorrole"), LAMBDA r : Has(r, "role"))
           brush(r) == <<Call("value", The(r, "brush")), CallFor("setBrush", The(r, "brush"), For)>>
       IN  Step([i \in DOMAIN All(Node, "color") |-> Say("setColor", "", {Made(For)})], <<>>, {},
                Nothing, Joined([i \in DOMAIN roles |-> brush(roles[i])]))

SetBrush ==
    /\ Alone("setBrush")
    /\ Step(<<Say("setBrush", "", {Made(For), Made(Node)})>>, <<>>, {}, Nothing, <<>>)

----------------------------------------------------------------------------
(* writeProperties.                                                        *)
Margins == {"leftMargin", "topMargin", "rightMargin", "bottomMargin"}
IsMargin(p) == Attribute(p, "name") \in Margins /\ IsKind(p, "number")

\* The margins, when one of them is not -1; the last property of each counts.
WriteProperties(n, zeroMargins) ==
    LET ps == All(n, "property")
        given(m) == SelectSeq(ps, LAMBDA p : IsMargin(p) /\ Attribute(p, "name") = m)
        value(m) == CASE given(m) # <<>> -> Text(Last(given(m)), "number")
                      [] given(m) = <<>> /\ zeroMargins -> "0"
                      [] OTHER -> "-1"
        margins == \E m \in Margins : value(m) # "-1"
    IN  <<Call("objectName", n)>> \o [i \in DOMAIN ps |-> CallFor("property", ps[i], n)]
          \o (IF margins THEN <<Call("contentsMargins", n)>> ELSE <<>>)

ObjectName ==
    /\ Alone("objectName") /\ ~Endless(ClassName(Node))
    /\ LET control == IF Extends(ClassName(Node), "QAxWidget") /\ PropertyOf(Node, "control") # NULL
                      THEN <<Say("setControl", "", {VarOf(Node)})>> ELSE <<>>
       IN  Step(Append(control, Say("objectName", "", {VarOf(Node)})), <<>>, {}, Nothing, <<>>)

\* findWidget: the innermost widget around of that class.
FindWidget(class) ==
    LET around == SelectSeq(widgetChain, LAMBDA w : w # NULL /\ Extends(ClassAt(w), class))
    IN  IF around = <<>> THEN NULL ELSE Last(around)

\* Set when everything is there: what the current page or row of it is.
IsDelayed(name, class) ==
    \/ name = "currentRow" /\ Extends(class, "QListWidget")
    \/ name = "currentIndex"
         /\ ExtendsAny(class, {"QComboBox", "QStackedWidget", "QTabWidget", "QToolBox"})
    \/ name = "tabSpacing" /\ Extends(class, "QToolBox")

\* Passed over here: written elsewhere, or not at all.
IsSkipped(p, n) ==
    LET name == Attribute(p, "name")
    IN  \/ ~CheckProperty(p)
        \/ IsMargin(p)
        \/ name = "control" /\ Extends(ClassName(n), "QAxWidget")
        \/ name = "database" /\ IsKind(p, "stringlist")
        \/ name = "frameworkCode" /\ IsKind(p, "bool")
        \/ heap[n].class = "DomLayout" /\ name \in {"margin", "spacing"}

\* A property with a statement of its own form.
IsSpecial(p, n) ==
    LET name == Attribute(p, "name")
    IN  \/ n = MainWidget /\ name = "geometry" /\ IsKind(p, "rect")
        \/ name = "buttonGroupId" /\ FindWidget("Q3ButtonGroup") # NULL
        \/ name = "orientation" /\ Extends(ClassName(n), "Line")
Special(p, n) ==
    LET name == Attribute(p, "name")
        shadowed == \E q \in Range(All(n, "property")) :
                        q < p /\ Attribute(q, "name") = "frameShadow" /\ CheckProperty(q)
    IN  CASE name = "geometry" -> <<Say("resize", "", {VarOf(n)})>>
          [] name = "buttonGroupId" ->
                <<Say("insert", "", {named[FindWidget("Q3ButtonGroup")], VarOf(n)})>>
          [] name = "orientation" ->
                <<Say("setFrameShape", "", {VarOf(n)})>>
                  \o (IF shadowed THEN <<>> ELSE <<Say("setFrameShadow", "", {VarOf(n)})>>)

\* The value that is written first: the object of these kinds.
ValueKinds == {"font", "iconset", "palette", "sizepolicy", "brush"}
Value(p) == The(p, Kind(p))

PropertyNext ==
    /\ Alone("property")
    /\ LET p == Node
           n == For
           delays == ~IsSkipped(p, n) /\ IsDelayed(Attribute(p, "name"), ClassName(n))
       IN  /\ delayed' = IF delays THEN Append(delayed, Say(Attribute(p, "name"), "", {VarOf(n)}))
                         ELSE delayed
           /\ setup' = IF ~IsSkipped(p, n) /\ IsSpecial(p, n) THEN setup \o Special(p, n) ELSE setup
           /\ Then(IF IsSkipped(p, n) \/ delays \/ IsSpecial(p, n) THEN <<>>
                   ELSE (IF Kind(p) \in ValueKinds THEN <<Call("value", Value(p))>> ELSE <<>>)
                          \o <<CallFor("set", p, n)>>)
    /\ UNCHANGED <<tool, named, used, readers, databases, refresh, delayedActions, cached>>

\* The statement of a property: none for an empty value, nor for the name
\* the variable says already.
IsBuddy(p, n) ==
    Attribute(p, "name") = "buddy" /\ IsKind(p, "cstring") /\ Extends(ClassName(n), "QLabel")
SaysVariable(p, n) ==
    /\ Attribute(p, "name") = "objectName" /\ IsKind(p, "string")
    /\ \/ VarOf(n) = "@" \o StringOf(p)
       \/ VarOf(n) = Lowered(StringOf(p))
HasValue(p, n) ==
    /\ Kind(p) # "unknown"
    /\ IsKind(p, "bool") => Text(p, "bool") # ""
    /\ ~IsBuddy(p, n) /\ ~SaysVariable(p, n)
IsTranslated(p) == IsKind(p, "string") /\ ~TrueText(Attribute(The(p, "string"), "notr"))
ValueUses(p) ==
    CASE Kind(p) \in ValueKinds -> {Made(Value(p))}
      [] Kind(p) = "pixmap" -> PixUses(p)
      [] OTHER -> {}

SetProperty ==
    /\ Does("set")
    /\ LET p == Node
           n == For
           say == <<Say(Attribute(p, "name"), "", {VarOf(n)} \cup ValueUses(p))>>
           policy == IF IsKind(p, "sizepolicy")
                     THEN <<Say("heightForWidth", "", {VarOf(n)} \cup ValueUses(p))>> ELSE <<>>
       IN  /\ buddies' = IF IsBuddy(p, n) THEN Append(buddies, <<Lowered(named[n]), Text(p, "cstring")>>)
                         ELSE buddies
           /\ Step(policy \o (IF HasValue(p, n) /\ ~IsTranslated(p) THEN say ELSE <<>>),
                   IF HasValue(p, n) /\ IsTranslated(p) THEN say ELSE <<>>, {}, Nothing, <<>>)
    /\ UNCHANGED <<chainVars, registered, buttonGroups>>

\* A Q3GroupBox has the margins of its layout.
InGroupBox ==
    /\ Parent # NULL /\ Last(layoutChain) = NULL
    /\ ExtendsAny(ClassAt(Parent), {"Q3GroupBox", "Q3ButtonGroup"})
ContentsMargins ==
    /\ Alone("contentsMargins")
    /\ Step(<<Say("setContentsMargins", "", {IF InGroupBox THEN named[Parent] ELSE VarOf(Node)})>>,
            <<>>, {}, Nothing, <<>>)

----------------------------------------------------------------------------
(* acceptWidget.                                                           *)
Families == <<"QComboBox", "QListWidget", "QTreeWidget", "QTableWidget", "Q3ListBox",
              "Q3ListView", "Q3IconView", "Q3Table", "Q3DataTable", "Q3DataBrowser">>

\* The calls that make the items, columns and rows of a widget.
EachFor(name, ns, n) == [i \in DOMAIN ns |-> CallFor(name, ns[i], n)]
WithIcons(name, ns, n) ==
    Joined([i \in DOMAIN ns |-> IconCalls(PropertyOf(ns[i], "icon")) \o <<CallFor(name, ns[i], n)>>])
IfAny(ns, calls) == IF ns = <<>> THEN <<>> ELSE calls
Sorted(n, calls) ==
    IfAny(All(n, "item"), <<Call("disableSorting", n)>> \o calls \o <<Call("enableSorting", n)>>)
PlacedItems(n) == SelectSeq(All(n, "item"), LAMBDA i : Has(i, "row") /\ Has(i, "column"))
Initialize(n) ==
    LET items == All(n, "item")
        columns == All(n, "column")
        rows == All(n, "row")
        family == FirstBase(ClassAt(n), Families)
    IN  CASE family = "QComboBox" ->
                IfAny(items, <<Call("comboItems", n)>>
                               \o (IF Iconless(items) = items THEN <<>>
                                   ELSE WithIcons("comboItem", items, n)))
          [] family = "QListWidget" -> Sorted(n, WithIcons("listItem", items, n))
          [] family = "QTreeWidget" ->
                WithIcons("treeColumn", columns, n)
                  \o Sorted(n, EachFor("treeIcons", items, <<Own(n), Own(n)>>))
          [] family = "QTableWidget" ->
                IfAny(columns, <<Call("tableSize", n)>>) \o EachFor("tableItem", columns, n)
                  \o IfAny(rows, <<Call("tableSize", n)>>) \o EachFor("tableItem", rows, n)
                  \o EachFor("tableItem", PlacedItems(n), n)
          [] family \in {"Q3ListBox", "Q3IconView"} ->
                IfAny(items, <<Call("q3Clear", n)>> \o EachFor("q3Item", items, n))
          [] family = "Q3ListView" ->
                EachFor("q3Column", columns, n)
                  \o IfAny(items, <<Call("q3Clear", n)>>
                                    \o EachFor("q3ListViewItem", items, Own(n)))
          [] family = "Q3Table" -> EachFor("q3Label", columns, n) \o EachFor("q3Label", rows, n)
          [] family \in {"Q3DataTable", "Q3DataBrowser"} -> <<Call("q3Sql", n)>>
          [] family = "" -> <<>>

\* Pages are added to these, and made without a parent.
AcceptWidget ==
    /\ Does("acceptWidget") /\ ~Endless(ClassAt(Node))
    /\ LET n == Node
           free == IsContainer(ClassAt(Parent)) \/ Extends(ClassAt(Parent), "Q3ToolBar")
       IN  /\ registered' = registered \cup {named[n]}
           /\ Step(IF Parent = NULL THEN <<>>
                   ELSE <<Say("new", Var(n), IF free THEN {} ELSE {Var(Parent)})>>,
                   <<>>, {}, Nothing,
                   Initialize(n) \o <<Call("button", n)>> \o WriteProperties(n, FALSE)
                     \o <<Call("menu", n), Call("push", n)>> \o Calls("accept", Walked(n))
                     \o <<Call("pop", n), Call("mainWindow", n), Call("page", n),
                          Call("zOrder", n)>>)
    /\ UNCHANGED <<chainVars, buttonGroups, buddies>>

\* Which accept function the walk calls.
Accept ==
    /\ Now("accept")
    /\ LET called == [DomWidget |-> "acceptWidget", DomLayout |-> "acceptLayout",
                      DomSpacer |-> "acceptSpacer", DomLayoutItem |-> "acceptLayoutItem",
                      DomAction |-> "acceptAction", DomActionGroup |-> "acceptActionGroup",
                      DomActionRef |-> "acceptActionRef"]
       IN  Then(<<Call(called[heap[Node].class], Node)>>)
    /\ UNCHANGED <<tool, named, used, readers, databases, writeVars>>

\* A button goes to the group it names, which is made for the first one.
Button ==
    /\ Does("button")
    /\ LET n == Node
           p == AttributeOf(n, "buttonGroup")
           group == StringOf(p)
           isNew == group \notin DOMAIN buttonGroups
           name == IF isNew THEN NameFor(group, "") ELSE buttonGroups[group]
       IN  IF ~IsButton(ClassAt(n)) \/ p = NULL
           THEN Step(<<>>, <<>>, {}, Nothing, <<>>) /\ UNCHANGED buttonGroups
           ELSE /\ Step((IF isNew THEN <<Say("QButtonGroup", "@" \o name, {})>> ELSE <<>>)
                          \o <<Say("addButton", "", {"@" \o name, Var(n)})>>,
                        <<>>, {name}, Nothing, <<>>)
                /\ buttonGroups' = (group :> name) @@ buttonGroups
    /\ UNCHANGED <<chainVars, registered, buddies>>

\* initializeMenu writes its names bare.
InitializeMenu ==
    /\ Alone("menu")
    /\ LET bare == named[Node]
           action == ByName("DomAction", bare \o "Action")
           made == /\ Extends(ClassAt(Node), "QMenu") /\ Parent # NULL
                   /\ action # NULL /\ Has(action, "menu")
       IN  Step(IF made THEN <<Say("menuAction", bare \o "Action", {bare})>> ELSE <<>>,
                <<>>, {}, Nothing, <<>>)

(* Into a widget, a layout or an action group, and out of it again.  A     *)
(* plain QWidget that only holds a layout has no margins of its own.       *)
Push ==
    /\ Does("push")
    /\ LET n == Node
           top == Parent
       IN  CASE heap[n].class = "DomWidget" ->
                    /\ layoutWidget' = (/\ ClassAt(n) = "QWidget" /\ ~Has(n, "native")
                                        /\ top # NULL
                                        /\ ClassAt(top) # "QMainWindow"
                                        /\ ~IsContainer(ClassAt(top)))
                    /\ widgetChain' = Append(widgetChain, n)
                    /\ layoutChain' = Append(layoutChain, NULL)
                    /\ UNCHANGED groupChain
             [] heap[n].class = "DomLayout" ->
                    /\ layoutChain' = Append(layoutChain, n)
                    /\ UNCHANGED <<widgetChain, groupChain, layoutWidget>>
             [] heap[n].class = "DomActionGroup" ->
                    /\ groupChain' = Append(groupChain, n)
                    /\ UNCHANGED <<widgetChain, layoutChain, layoutWidget>>
    /\ Step(<<>>, <<>>, {}, Nothing, <<>>)
    /\ UNCHANGED nameVars

Pop ==
    /\ Does("pop")
    /\ LET class == heap[Node].class
           out(chain, classes) == IF class \in classes THEN Front(chain) ELSE chain
       IN  /\ widgetChain' = out(widgetChain, {"DomWidget"})
           /\ layoutChain' = out(layoutChain, {"DomWidget", "DomLayout"})
           /\ groupChain' = out(groupChain, {"DomActionGroup"})
           /\ layoutWidget' = (class # "DomWidget" /\ layoutWidget)
    /\ Step(<<>>, <<>>, {}, Nothing, <<>>)
    /\ UNCHANGED nameVars

\* The parts of a main window.
MainWindow ==
    /\ Alone("mainWindow")
    /\ LET n == Node
           parts == <<"QMenuBar", "QToolBar", "QDockWidget", "QStatusBar">>
           part == FirstBase(ClassAt(n), parts)
           breaks == LET p == AttributeOf(n, "toolBarBreak")
                     IN  p # NULL /\ Text(p, "bool") = "true"
           both == {Var(Parent), Var(n)}
       IN  Step(CASE ~ExtendsAny(ClassAt(Parent), {"QMainWindow", "Q3MainWindow"}) -> <<>>
                  [] part = "QMenuBar" ->
                        IF Extends(ClassAt(Parent), "Q3MainWindow") THEN <<>>
                        ELSE <<Say("setMenuBar", "", both)>>
                  [] part = "QToolBar" ->
                        <<Say("addToolBar", "", both)>>
                          \o (IF breaks THEN <<Say("insertToolBarBreak", "", both)>> ELSE <<>>)
                  [] part = "QDockWidget" -> <<Say("addDockWidget", "", both)>>
                  [] part = "QStatusBar" -> <<Say("statusBar", "", both)>>
                  [] OTHER -> IF ClassAt(n) = "QWidget" THEN <<Say("centralWidget", "", both)>>
                              ELSE <<>>,
                <<>>, {}, Nothing, <<>>)

\* The page of a container: the first of these that it is tells how to add it.
Pagers == <<"QStackedWidget", "QToolBar", "Q3WidgetStack", "QDockWidget", "QScrollArea",
            "QSplitter", "QMdiArea", "QWorkspace", "QWizard", "QToolBox", "QTabWidget", "Q3Wizard">>
Page ==
    /\ Alone("page")
    /\ LET n == Node
           base == IF AddPageMethod(ClassAt(Parent)) # "" THEN "addPageMethod"
                   ELSE FirstBase(ClassAt(Parent), Pagers)
           both == {Var(Parent), Var(n)}
       IN  CASE base = "" -> Step(<<>>, <<>>, {}, Nothing, <<>>)
             [] base \in {"QToolBox", "QTabWidget"} ->
                    Step(<<>>, <<>>, {}, Nothing,
                         IconCalls(AttributeOf(n, "icon")) \o <<Call("addPage", n)>>)
             [] OTHER -> Step(<<Say("addPage", "", both)>>,
                              IF base = "Q3Wizard" THEN <<Say("setTitle", "", both)>> ELSE <<>>,
                              {}, Nothing, <<>>)
AddPage ==
    /\ Alone("addPage")
    /\ LET both == {Var(Parent), Var(Node)}
           tip == IF AttributeOf(Node, "toolTip") = NULL THEN <<>>
                  ELSE <<Say("setPageToolTip", "", both)>>
       IN  Step(<<Say("addPage", "", both \cup IconUses(AttributeOf(Node, "icon")))>>,
                <<Say("setPageText", "", both)>> \o tip, {}, Nothing, <<>>)

\* Mutant: the loop does not go on from a name it passes over.
ZOrder_stuck ==
    /\ Alone("zOrder") /\ Range(heap[Node].texts["zorder"]) \subseteq registered
    /\ Step(<<>>, <<>>, {}, Nothing, <<>>)

\* The widgets of a z-order are written as they are named there.
ZOrder ==
    /\ Alone("zOrder")
    /\ LET names == SelectSeq(heap[Node].texts["zorder"], LAMBDA s : s \in registered)
       IN  Step([i \in DOMAIN names |-> Say("raise", "", {names[i]})], <<>>, {}, Nothing, <<>>)

----------------------------------------------------------------------------
(* Layouts, spacers and actions.  A margin or a spacing is written when    *)
(* the layout has it, or else when the form has a default or a function    *)
(* for it, but a layout inside another has no default margin.              *)
LayoutDefaults(v, n, inner) ==
    LET default(p) == \E d \in {The(ui, "layoutdefault"), The(ui, "layoutfunction")} \ {NULL} :
                          Has(d, p)
        set(p, suppress) == IF PropertyOf(n, p) # NULL \/ (~suppress /\ default(p))
                            THEN <<Say(p, "", {v})>> ELSE <<>>
    IN  set("spacing", FALSE) \o set("margin", inner)

AcceptLayout ==
    /\ Does("acceptLayout")
    /\ LET n == Node
           top == Own(Parent)
           temp == Unique("boxlayout")
       IN  Step(IF InGroupBox
                THEN <<Say("setColumnLayout", "", {top})>> \o LayoutDefaults(top, n, FALSE)
                       \o <<Say("new", VarOf(n), {}), Say("layout", temp, {top}),
                            Say("addLayout", "", {temp, VarOf(n)}), Say("alignment", "", {VarOf(n)})>>
                ELSE <<Say("new", VarOf(n), IF Last(layoutChain) = NULL THEN {Var(Parent)} ELSE {})>>
                       \o LayoutDefaults(VarOf(n), n, Last(layoutChain) # NULL),
                <<>>, IF InGroupBox THEN {temp} ELSE {}, Nothing,
                WriteProperties(n, layoutWidget) \o <<Call("push", n)>>
                  \o Calls("accept", Walked(n)) \o <<Call("pop", n)>>)
    /\ layoutWidget' = FALSE
    /\ UNCHANGED <<widgetChain, layoutChain, groupChain, nameVars>>

AcceptLayoutItem ==
    /\ Alone("acceptLayoutItem")
    /\ Step(<<>>, <<>>, {}, Nothing, Calls("accept", Walked(Node)) \o <<Call("addItem", Node)>>)
AddItem ==
    /\ Alone("addItem")
    /\ LET layout == Last(layoutChain)
           item == IF Kind(Node) = "unknown" THEN "@" ELSE Own(The(Node, Kind(Node)))
       IN  Step(IF layout = NULL THEN <<>> ELSE <<Say("addItem", "", {Own(layout), item})>>,
                <<>>, {}, Nothing, <<>>)

\* The first letter of a spacer stays as it is.
AcceptSpacer ==
    /\ Alone("acceptSpacer")
    /\ Step(<<Say("new", "@" \o named[Node], {})>>, <<>>, {}, Nothing, <<>>)

\* A group inside a group names that one without the @.
AcceptActionGroup ==
    /\ Alone("acceptActionGroup")
    /\ LET n == Node
           group == Last(groupChain)
           parent == IF group # NULL THEN named[group] ELSE Var(Parent)
       IN  Step(<<Say("new", Own(n), {parent})>>, <<>>, {}, Nothing,
                WriteProperties(n, FALSE) \o <<Call("push", n)>> \o Calls("accept", Walked(n))
                  \o <<Call("pop", n)>>)

AcceptAction ==
    /\ Alone("acceptAction")
    /\ LET n == Node
           group == Last(groupChain)
           parent == IF group # NULL THEN Own(group) ELSE Var(Parent)
       IN  IF Has(n, "menu") THEN Step(<<>>, <<>>, {}, Nothing, <<>>)
           ELSE Step(<<Say("new", Own(n), {parent})>>, <<>>, {}, Nothing, WriteProperties(n, FALSE))

\* Mutant: it writes to m_output, not to m_actionOut.
AcceptActionRef_atOnce ==
    /\ Alone("acceptActionRef")
    /\ LET name == Attribute(Node, "name")
       IN  Step(IF ByName("DomWidget", name) = NULL /\ ByName("DomAction", name) = NULL THEN <<>>
                ELSE <<Say("addAction", "", {Var(Parent), ToRubyIdentifier(name)})>>,
                <<>>, {}, Nothing, <<>>)

AcceptActionRef ==
    /\ Does("acceptActionRef")
    /\ LET name == Attribute(Node, "name")
           w == ByName("DomWidget", name)
           moves == w # NULL /\ ~IsMenu(ClassAt(w)) /\ Extends(ClassAt(Parent), "Q3ToolBar")
           both == {Var(Parent), ToRubyIdentifier(name)}
       IN  delayedActions' = delayedActions \o
               CASE \/ name = "" \/ ByName("DomActionGroup", name) # NULL
                    \/ w = NULL /\ ByName("DomAction", name) = NULL /\ name # "separator" -> <<>>
                 [] moves -> <<Say("parent", "", both)>>
                 [] ~moves /\ name = "separator" -> <<Say("addSeparator", "", {Var(Parent)})>>
                 [] OTHER -> <<Say("addAction", "", both)>>
    /\ Then(<<>>)
    /\ UNCHANGED <<tool, named, used, readers, databases, setup, refresh, delayed, cached,
                   chainVars, nameVars>>

----------------------------------------------------------------------------
(* Items, columns and rows of item widgets.  What the retranslated half    *)
(* writes anew has variables local to retranslateUi.                       *)
TextIs(n) == StringOf(PropertyOf(n, "text")) # ""
Translated(n, op, v) == IF TextIs(n) THEN <<Say(op, "", {v})>> ELSE <<>>
If(p, op, uses) == IF p = NULL THEN <<>> ELSE <<Say(op, "", uses)>>

ComboItems ==
    /\ Alone("comboItems")
    /\ Step(<<>>, IF Iconless(All(Node, "item")) = All(Node, "item")
                  THEN <<Say("insertItems", "", {Own(Node)})>> ELSE <<>>, {}, Nothing, <<>>)
ComboItem ==
    /\ Alone("comboItem")
    /\ Step(<<Say("addItem", "", {Own(For)} \cup IconUses(PropertyOf(Node, "icon")))>>,
            Translated(Node, "setItemText", Own(For)), {}, Nothing, <<>>)

\* disableSorting keeps what enableSorting sets again.
DisableSorting ==
    /\ Alone("disableSorting")
    /\ LET temp == Unique("__sortingEnabled")
       IN  Step(<<>>, <<Say("sortingEnabled?", temp, {Own(Node)}),
                        Say("sortingEnabled", "", {Own(Node)})>>,
                {temp}, <<"sorting", Node>> :> temp, <<>>)
EnableSorting ==
    /\ Alone("enableSorting")
    /\ Step(<<>>, <<Say("sortingEnabled", "", {Own(Node), cached[<<"sorting", Node>>]})>>,
            {}, Nothing, <<>>)

ListItem ==
    /\ Alone("listItem")
    /\ LET icon == PropertyOf(Node, "icon")
           name == IF icon = NULL THEN "" ELSE Unique("__listItem")
       IN  Step(<<Say("QListWidgetItem", name, {Own(For)})>>
                  \o If(icon, "icon", {name} \cup IconUses(icon)),
                Translated(Node, "text", Own(For)), {name} \ {""}, Nothing, <<>>)

TreeColumn ==
    /\ Alone("treeColumn")
    /\ LET icon == PropertyOf(Node, "icon")
       IN  Step(If(icon, "setIcon", {Own(For)} \cup IconUses(icon)),
                Translated(Node, "setText", Own(For)), {}, Nothing, <<>>)

\* A tree item is told the widget, which its text is set by, and its parent.
Icons(n) == SelectSeq(All(n, "property"), LAMBDA p : Attribute(p, "name") = "icon")
TreeIcons ==
    /\ Alone("treeIcons")
    /\ LET icons == Icons(Node)
       IN  Step(<<>>, <<>>, {}, Nothing, Joined([i \in DOMAIN icons |-> IconCalls(icons[i])])
                                           \o <<CallFor("treeItem", Node, For)>>)
TreeItem ==
    /\ Alone("treeItem")
    /\ LET icons == Icons(Node)
           items == All(Node, "item")
           name == IF icons = <<>> /\ items = <<>> THEN "" ELSE Unique("__treeItem")
           texts == SelectSeq(All(Node, "property"),
                              LAMBDA p : Attribute(p, "name") = "text" /\ StringOf(p) # "")
       IN  Step(<<Say("QTreeWidgetItem", name, {For[2]})>>
                  \o [i \in DOMAIN icons |-> Say("setIcon", "", {name} \cup IconUses(icons[i]))],
                [i \in DOMAIN texts |-> Say("setText", "", {For[1]})],
                {name} \ {""}, Nothing, EachFor("treeIcons", items, <<For[1], name>>))

TableSize ==
    /\ Alone("tableSize")
    /\ Step(<<>>, <<Say("size", "", {Own(Node)})>>, {}, Nothing, <<>>)
TableItem ==
    /\ Alone("tableItem")
    /\ LET n == Node
           text == PropertyOf(n, "text")
           icon == PropertyOf(n, "icon")
           name == Unique(CASE heap[n].class = "DomColumn" -> "__colItem"
                            [] heap[n].class = "DomRow" -> "__rowItem"
                            [] OTHER -> "__item")
       IN  IF text = NULL /\ icon = NULL THEN Step(<<>>, <<>>, {}, Nothing, <<>>)
           ELSE Step(<<>>, <<Say("QTableWidgetItem", name, {})>> \o If(text, "setText", {name})
                             \o If(icon, "setIcon", {name} \cup PixUses(icon))
                             \o <<Say("setItem", "", {Own(For), name})>>,
                     {name}, Nothing, <<>>)

Q3Clear ==
    /\ Alone("q3Clear")
    /\ Step(<<>>, <<Say("clear", "", {Own(Node)})>>, {}, Nothing, <<>>)
Q3Item ==
    /\ Alone("q3Item")
    /\ LET text == PropertyOf(Node, "text")
           pixmap == PropertyOf(Node, "pixmap")
           name == Unique("__item")
       IN  CASE text = NULL /\ pixmap = NULL -> Step(<<>>, <<>>, {}, Nothing, <<>>)
             [] Extends(ClassAt(For), "Q3ListBox") ->
                    Step(<<>>, <<Say("insertItem", "", {Own(For)} \cup PixUses(pixmap))>>,
                         {}, Nothing, <<>>)
             [] OTHER ->
                    Step(<<>>, <<Say("Q3IconViewItem", name, {Own(For)})>>
                                 \o If(pixmap, "pixmap", {name} \cup PixUses(pixmap))
                                 \o If(text, "text", {name}),
                         {name}, Nothing, <<>>)

Q3Column ==
    /\ Alone("q3Column")
    /\ LET v == {Own(For)}
           p(name) == PropertyOf(Node, name)
       IN  Step(<<Say("addColumn", "", v)>> \o If(p("pixmap"), "setLabel", v \cup PixUses(p("pixmap")))
                  \o If(p("clickable"), "setClickEnabled", v)
                  \o If(p("resizable"), "setResizeEnabled", v),
                <<Say("setLabel", "", v)>>, {}, Nothing, <<>>)

Q3ListViewItem ==
    /\ Alone("q3ListViewItem")
    /\ LET name == Unique("__item")
           items == All(Node, "item")
           say(p) == CASE Attribute(p, "name") = "text" -> <<Say("setText", "", {name})>>
                       [] Attribute(p, "name") = "pixmap" ->
                            <<Say("setPixmap", "", {name} \cup PixUses(p))>>
                       [] OTHER -> <<>>
           ps == All(Node, "property")
       IN  Step(<<>>, <<Say("Q3ListViewItem", name, {For})>>
                        \o Joined([i \in DOMAIN ps |-> say(ps[i])])
                        \o IfAny(items, <<Say("open", "", {name})>>),
                {name}, Nothing, EachFor("q3ListViewItem", items, name))

\* initializeQ3Table names its table without the @.
Q3Label ==
    /\ Alone("q3Label")
    /\ Step(<<>>, <<Say("setLabel", "", {named[For]} \cup PixUses(PropertyOf(Node, "pixmap")))>>,
            {}, Nothing, <<>>)

\* The cursor of a data table or browser, for a table of a connection.
Q3Sql ==
    /\ Alone("q3Sql")
    /\ LET v == {Own(Node)}
           code == PropertyOf(Node, "frameworkCode")
           db == PropertyOf(Node, "database")
           info == IF IsKind(db, "stringlist") THEN heap[The(db, "stringlist")].texts["string"]
                   ELSE <<>>
           connection == IF info[1] = "(default)" THEN {} ELSE {info[1] \o "Connection"}
       IN  Step(IF \/ code # NULL /\ ~TrueText(Text(code, "bool"))
                   \/ Len(info) < 2 \/ "" \in {info[1], info[2]}
                THEN <<>>
                ELSE <<Say("sqlCursor", "", v), Say("setSqlCursor", "", v \cup connection),
                       Say("refresh", "", v)>>,
                <<>>, {}, Nothing, <<>>)

----------------------------------------------------------------------------
(* acceptUI: the main widget, and then what may be said only when every    *)
(* widget is there.                                                        *)
AcceptUI ==
    /\ Does("acceptUI")
    /\ LET connections == Listed(databases \ {"(default)"})
       IN  /\ registered' = registered \cup {named[MainWidget]}
           /\ Step(<<Say("setupUi", Main, {})>>
                     \o [i \in DOMAIN connections |->
                            Say("database", "@" \o connections[i] \o "Connection", {})],
                   <<>>, {}, Nothing, <<Call("acceptWidget", MainWidget), Call("finish", ui)>>)
    /\ UNCHANGED <<chainVars, buttonGroups, buddies>>

BuddyCalls ==
    LET known == SelectSeq(buddies, LAMBDA b : {b[1], b[2]} \subseteq registered)
    IN  [i \in DOMAIN known |-> Say("setBuddy", "", {"@" \o known[i][1], "@" \o known[i][2]})]

\* Mutant: a stop that is not a widget is remembered as the last one.
TabOrder_lastInvalid(stops) ==
    LET next(r, i) ==
            IF stops[i] \notin registered \/ i = 1 THEN [r EXCEPT !.last = stops[i]]
            ELSE [last |-> stops[i],
                  says |-> Append(r.says, Say("setTabOrder", "", {"@" \o r.last, "@" \o stops[i]}))]
    IN  FoldLeft(next, [last |-> "", says |-> <<>>], [i \in DOMAIN stops |-> i]).says

\* acceptTabStops: the last name is that of the first stop until a line was written.
TabOrder(stops) ==
    LET next(r, i) ==
            CASE stops[i] \notin registered -> r
              [] stops[i] \in registered /\ i = 1 -> [r EXCEPT !.last = stops[1]]
              [] stops[i] \in registered /\ i > 1 /\ r.last = "" -> r
              [] OTHER -> [last |-> stops[i],
                           says |-> Append(r.says, Say("setTabOrder", "",
                                                       {"@" \o r.last, "@" \o stops[i]}))]
    IN  FoldLeft(next, [last |-> "", says |-> <<>>], [i \in DOMAIN stops |-> i]).says

\* findDeclaration and acceptConnection: an end that is not declared is "@".
FindDeclaration(name) ==
    LET normalized == Applied(Normalized, name)
        w == ByName("DomWidget", normalized)
        a == ByName("DomAction", normalized)
    IN  IF w # NULL THEN named[w] ELSE IF a # NULL THEN named[a] ELSE ""
ConnectionEnd(name) ==
    LET end == Lowered(FindDeclaration(name)) IN IF end = Main THEN end ELSE ToRubyIdentifier(end)
Connection(c) ==
    Say("connect", "", {ConnectionEnd(Text(c, "sender")), ConnectionEnd(Text(c, "receiver"))})

Finish ==
    /\ Does("finish")
    /\ LET stops == IF The(ui, "tabstops") = NULL THEN <<>>
                    ELSE heap[The(ui, "tabstops")].texts["tabstop"]
           connections == IF The(ui, "connections") = NULL THEN <<>>
                          ELSE All(The(ui, "connections"), "connection")
       IN  Step(BuddyCalls \o TabOrder(stops) \o delayedActions
                  \o <<Say("retranslateUi", "", {Main})>>
                  \o [i \in DOMAIN connections |-> Connection(connections[i])]
                  \o delayed \o <<Say("connectSlotsByName", "", {Main})>>,
                <<>>, {}, Nothing, <<>>)
    /\ UNCHANGED <<chainVars, nameVars>>

----------------------------------------------------------------------------
WriteInit ==
    /\ UicInit
    /\ setup = <<>> /\ refresh = <<>> /\ delayed = <<>> /\ delayedActions = <<>>
    /\ widgetChain = <<NULL>> /\ layoutChain = <<NULL>> /\ groupChain = <<NULL>>
    /\ layoutWidget = FALSE
    /\ registered = {} /\ cached = Nothing /\ buttonGroups = Nothing /\ buddies = <<>>

\* Steps of the tool on the form that was accepted.
UicNext ==
    /\ \/ (Rbwrite \/ Validate \/ Declare \/ WriteImages \/ Rbwritten) /\ UNCHANGED writeVars
       \/ Crash
       \/ AcceptUI \/ Finish \/ Accept
       \/ AcceptWidget \/ Button \/ InitializeMenu \/ Push \/ Pop \/ MainWindow \/ Page \/ AddPage
       \/ ZOrder
       \/ AcceptLayout \/ AcceptLayoutItem \/ AddItem \/ AcceptSpacer
       \/ AcceptActionGroup \/ AcceptAction \/ AcceptActionRef
       \/ ObjectName \/ PropertyNext \/ SetProperty \/ ContentsMargins
       \/ WriteValue \/ ColorGroup \/ SetBrush
       \/ ComboItems \/ ComboItem \/ DisableSorting \/ EnableSorting \/ ListItem
       \/ TreeColumn \/ TreeIcons \/ TreeItem \/ TableSize \/ TableItem
       \/ Q3Clear \/ Q3Item \/ Q3Column \/ Q3ListViewItem \/ Q3Label \/ Q3Sql
    /\ UNCHANGED readerVars

\* The form is deleted when the tool has ended.
FormNext ==
    /\ ReaderNext \/ (DeleteUi /\ tool \in {"written", "failed"})
    /\ UNCHANGED <<uicVars, writeVars>>

uiVars == <<readerVars, uicVars, writeVars>>
RbuicInit == ReaderInit /\ WriteInit
RbuicNext == FormNext \/ UicNext
----------------------------------------------------------------------------
(* The Ruby program as it runs: setupUi statement by statement, with the   *)
(* body of retranslateUi, whose local variables are its own, at its call.  *)
Complete == tool = "written" /\ phase = "accepted"
SetBefore(says, i) == {says[j].sets : j \in 1 .. i - 1}
Unset(says, set) ==
    UNION {{<<says[i].op, u>> : u \in says[i].uses \ (set \cup SetBefore(says, i))} :
              i \in DOMAIN says}
Retranslate == CHOOSE i \in DOMAIN setup : setup[i].op = "retranslateUi"
UsedUnset ==
    Unset(setup, {}) \cup Unset(refresh, (SetBefore(setup, Retranslate) \ used) \cup {Main})

ObjectsOf(class) == {n \in DOMAIN named : heap[n].class = class}
Capital(class) == {n \in ObjectsOf(class) : Lowered(named[n]) # named[n]}
MenuActions == {n \in ObjectsOf("DomAction") : Has(n, "menu")}
\* The names the output gets wrong, with the place that does.
Misnamed ==
    Range(named)                               \* @ forgotten: z-order, nested groups, Q3 widgets
      \cup {"@" \o Main}                       \* the parameter taken for an instance variable
      \cup {Own(n) : n \in Capital("DomSpacer")}      \* set with its first letter as it is
      \cup {"@" \o named[n] : n \in Capital("DomWidget")}  \* tab stop or buddy, read so
      \cup {Own(n) : n \in MenuActions}        \* never made an action of its own
      \cup {"@"}                               \* the end of a connection nobody declares
      \cup {t \o "_ID" : t \in Images}         \* images are not declared in Ruby
      \cup {c \o "Connection" : c \in databases}  \* set with an @
GradientOps == {"spread", "coordinateMode", "setColorAt", "QBrush"}
UnknownGradient ==
    \E n \in Live : heap[n].class = "DomGradient" /\ Attribute(n, "type") \notin GradientTypes

(* Every variable that a statement reads was set by one before it, in the  *)
(* order in which Ruby executes them, and every attribute reader has its   *)
(* variable set, except for the names Misnamed lists and a gradient of a   *)
(* type nobody knows.  Items, values and icons that are shared, what is    *)
(* delayed and what is translated again are written at different times     *)
(* into four texts.                                                        *)
DefinedBeforeUse ==
    Complete =>
        /\ \A u \in UsedUnset : u[2] \in Misnamed \/ (u[1] \in GradientOps /\ UnknownGradient)
        /\ {"@" \o r : r \in readers} \ SetBefore(setup, Len(setup) + 1) \subseteq Misnamed

(* No two statements set the same variable: no object, item or value takes *)
(* the place of another that is still referred to.  Names are unique as    *)
(* they stand in the form, so two that differ only in the case of their    *)
(* first letter become one variable.                                       *)
Alike(s) == {t \in used : s \in {Lowered(t), ToRubyIdentifier(t)}}
EachOwnVariable ==
    \A says \in {setup, refresh} : \A i, j \in DOMAIN says :
        i < j /\ says[i].sets # "" /\ says[i].sets = says[j].sets
            => Cardinality(Alike(says[i].sets)) > 1

(* What is said when every widget is there is what the form says: the tab  *)
(* order goes from each stop that is a widget to the next (unless the      *)
(* first stop of all is not one), a label has each buddy it names if its   *)
(* own name begins with a small letter, the actions of a widget are added  *)
(* to it in their order, and every connection is made, from and to the     *)
(* main widget when a name differs from its name in the first letter's     *)
(* case only.                                                              *)
WidgetNames == {named[n] : n \in ObjectsOf("DomWidget")}
Saying(ops) ==
    LET says == SelectSeq(setup, LAMBDA s : s.op \in ops) IN [i \in DOMAIN says |-> says[i].uses]
Stops ==
    LET all == IF The(ui, "tabstops") = NULL THEN <<>>
               ELSE heap[The(ui, "tabstops")].texts["tabstop"]
    IN  IF all = <<>> \/ all[1] \notin WidgetNames THEN <<>>
        ELSE SelectSeq(all, LAMBDA s : s \in WidgetNames)
Buddies ==
    {<<n, p>> \in ObjectsOf("DomWidget") \X Live :
        /\ p \in Range(All(n, "property")) /\ IsBuddy(p, n)
        /\ {Lowered(named[n]), Text(p, "cstring")} \subseteq WidgetNames}
Declared(name) ==
    name = "separator" \/ \E n \in ObjectsOf("DomWidget") \cup ObjectsOf("DomAction") : named[n] = name
ActionsBelow[n \in Nat] ==
    LET asked(m) ==
            IF heap[m].class # "DomActionRef" THEN ActionsBelow[m]
            ELSE CASE ~Declared(Attribute(m, "name")) -> <<>>
                   [] Attribute(m, "name") = "separator" -> <<{Var(n)}>>
                   [] OTHER -> <<{Var(n), ToRubyIdentifier(Attribute(m, "name"))}>>
    IN  Joined([i \in DOMAIN Walked(n) |-> asked(Walked(n)[i])])
EndOfConnection(name) ==
    LET n == {o \in ObjectsOf("DomWidget") \cup ObjectsOf("DomAction") :
                 named[o] = Applied(Normalized, name)}
    IN  CASE n = {} -> "@"
          [] \E o \in n : Lowered(named[o]) = Main -> Main
          [] OTHER -> Own(CHOOSE o \in n : TRUE)
Wired ==
    Complete =>
        /\ Saying({"setTabOrder"}) =
              [i \in 1 .. Len(Stops) - 1 |-> {"@" \o Stops[i], "@" \o Stops[i + 1]}]
        /\ Range(Saying({"setBuddy"})) =
              {{"@" \o Lowered(named[b[1]]), "@" \o Text(b[2], "cstring")} : b \in Buddies}
        /\ Saying({"addAction", "addSeparator", "parent"}) = ActionsBelow[MainWidget]
        /\ The(ui, "connections") # NULL =>
              LET cs == All(The(ui, "connections"), "connection")
              IN  Saying({"connect"}) =
                    [i \in DOMAIN cs |-> {EndOfConnection(Text(cs[i], "sender")), EndOfConnection(Text(cs[i], "receiver"))}]

(* The tool ends, written or failed, with every form it accepted, unless   *)
(* a widget's class is one of custom widgets that extend each other in a   *)
(* circle.                                                                 *)
Circular == \E n \in DOMAIN named : Endless(ClassName(n))
UicFinishes == (tool = "working") ~> (tool \in {"written", "crashed"} \/ Circular)
=============================================================================
