---------------------------- MODULE MCBuildTools ----------------------------
(***************************************************************************)
(* Forms for rbuic: first those that take every class of ui4.cpp through   *)
(* every tag and attribute, then those whose widgets, layouts, actions,    *)
(* items, properties and connections make every case of the writer happen. *)
(* Collections and a disk for rbrcc.                                       *)
(***************************************************************************)
EXTENDS WriteInitialization, Rcc

Version == <<"version", "4.0">>

(* <<class, path>>: the start tags down to an object of each class that    *)
(* appears within n levels.                                                *)
Child(c, t) == Schema[c].children[t].type
Routes[n \in Nat] ==
    IF n = 0 THEN {<<"DomUI", <<Start("ui", <<Version>>)>>>>}
    ELSE LET above == Routes[n - 1]
             found == UNION {{Child(r[1], t) : t \in ObjectTags(r[1])} : r \in above}
                        \ {r[1] : r \in above}
             route(c) == LET r == CHOOSE r \in above : \E t \in ObjectTags(r[1]) : Child(r[1], t) = c
                             t == CHOOSE t \in ObjectTags(r[1]) : Child(r[1], t) = c
                         IN  <<c, Append(r[2], Start(t, <<>>))>>
         IN  above \cup {route(c) : c \in found}
MaxLevel == 8

Closed(n) == [i \in 1 .. n |-> End]
\* A form whose object at the end of the path has these attributes and this content.
FormWith(path, attributes, content) ==
    LET start == Start(path[Len(path)].tag, path[Len(path)].attributes \o attributes)
    IN  [path EXCEPT ![Len(path)] = start] \o content \o Closed(Len(path))

AllAttributes(c, v) ==
    LET names == Listed(DOMAIN Schema[c].attributes \ {"version", "stdSetDef"})
    IN  [i \in DOMAIN names |-> <<names[i], v>>]
Children(c, v) ==
    LET names == Listed(DOMAIN Schema[c].children)
    IN  Joined([i \in DOMAIN names |->
            Element(names[i], <<>>, IF IsObject(Schema[c].children[names[i]]) THEN <<>>
                                   ELSE <<Characters(v)>>)])
Fits(c, path) == {FormWith(path, AllAttributes(c, v), Children(c, v)) : v \in {"1", "abc"}}
Repeats(c, path) ==
    {FormWith(path, AllAttributes(c, "true"),
              Children(c, "true") \o <<Characters("x")>> \o Children(c, "1")
                \o <<Characters(Blank), Characters("y")>>)}
Inner(c) == IF DOMAIN Schema[c].children = {} THEN <<>>
            ELSE LET t == CHOOSE t \in DOMAIN Schema[c].children : TRUE
                 IN  Element(t, <<>>, <<>>)
Wrong(c, path) ==
    {FormWith(path, <<<<"nope", "1">>>>, Inner(c)),
     FormWith(path, <<>>, Inner(c) \o Element("nope", <<>>, <<>>)),
     FormWith(path, <<<<"nope", "1">>, <<"nope", "1">>>>, <<>>),
     SubSeq(FormWith(path, <<>>, Inner(c)), 1, Len(path) + Len(Inner(c)))}
       \cup {FormWith(path, <<>>, <<Start(t, <<>>), Characters("x"), Start(t, <<>>), End, End>>) :
                t \in TextTags(c)}

SchemaForms ==
    UNION {Fits(r[1], r[2]) \cup Repeats(r[1], r[2]) \cup Wrong(r[1], r[2]) : r \in Routes[MaxLevel]}
      \cup {Element("ui", a, <<>>) : a \in {<<>>, <<<<"version", "3.3">>>>,
                <<Version, <<"stdSetDef", "1">>>>,
                <<Version, <<"stdSetDef", "1">>, <<"stdsetdef", "abc">>>>}}
      \cup {Element("form", <<Version>>, <<>>)}
ASSUME {r[1] : r \in Routes[MaxLevel]} = DOMAIN Schema

----------------------------------------------------------------------------
MCLowerFirst == ("Form" :> "form") @@ ("Label" :> "label") @@ ("Spacer" :> "spacer")
MCNormalized == ("my edit" :> "my_edit")
MCQtified ==
    [QSpacerItem |-> "spacerItem", QWidget |-> "widget", QAction |-> "action",
     QActionGroup |-> "actionGroup", QLabel |-> "label"]

\* Elements of a form.
Leaf(tag, s) == Element(tag, <<>>, <<Characters(s)>>)
Leaves(tag, ss) == Joined([i \in DOMAIN ss |-> Leaf(tag, ss[i])])
Widget(class, name, content) ==
    Element("widget", <<<<"class", class>>, <<"name", name>>>>, content)
Layout(class, name, content) ==
    Element("layout", <<<<"class", class>>, <<"name", name>>>>, content)
Item(content) == Element("item", <<>>, content)
Action(name, content) == Element("action", <<<<"name", name>>>>, content)
AddAction(name) == Element("addaction", <<<<"name", name>>>>, <<>>)
Prop(name, content) == Element("property", <<<<"name", name>>>>, content)
Attr(name, content) == Element("attribute", <<<<"name", name>>>>, content)
String(s) == Leaf("string", s)
TextProp(s) == Prop("text", String(s))

Color(n) == Element("color", <<<<"alpha", "1">>>>, Leaf("red", n) \o Leaf("green", n))
Font == Element("font", <<>>, Leaf("family", "abc") \o Leaf("pointsize", "1") \o Leaf("bold", "true"))
Icon(file) == Element("iconset", <<>>, Leaf("normaloff", file) \o <<Characters(file)>>)
OldIcon(file) == Leaf("iconset", file)
Brush(style, content) == Element("brush", <<<<"brushstyle", style>>>>, content)
Gradient(type) ==
    Element("gradient", <<<<"type", type>>, <<"coordinatemode", "abc">>>>,
            Element("gradientstop", <<<<"position", "1">>>>, Color("1")))
Role(brush) == Element("colorrole", <<<<"role", "abc">>>>, brush)
Palette(content) ==
    Element("palette", <<>>, Element("active", <<>>, content) \o Element("inactive", <<>>, content))
SizePolicy == Element("sizepolicy", <<<<"hsizetype", "abc">>, <<"vsizetype", "abc">>>>, <<>>)

\* Values of properties.
Values ==
    {Leaf("bool", "true"), Leaf("bool", ""), Leaf("number", "1"), Leaf("cstring", "abc"),
     Leaf("enum", "abc"), Leaf("set", "abc"), Font, Icon("a.png"), OldIcon("pic"), OldIcon(""),
     Leaf("pixmap", "pic"), Leaf("pixmap", ""), SizePolicy, String("abc"), String(""),
     Element("string", <<<<"notr", "true">>>>, <<Characters("abc")>>),
     Element("url", <<>>, String("abc")), Element("url", <<>>, <<>>),
     Element("rect", <<>>, <<>>), Color("1"), Element("stringlist", <<>>, String("abc")), <<>>}
Brushes ==
    {Brush("SolidPattern", Color("1")), Brush("SolidPattern", <<>>),
     Brush("Dense", Color("1")),
     Brush("LinearGradientPattern", Gradient("LinearGradient")),
     Brush("LinearGradientPattern", Gradient("abc")), Brush("RadialGradientPattern", <<>>),
     Brush("TexturePattern", Element("texture", <<>>, Leaf("pixmap", "pic"))),
     Brush("TexturePattern", <<>>)}
PropertyNames == {"value", "objectName", "buddy", "geometry", "control", "currentIndex"}
PropertyForms ==
    {Prop("value", v) \o Widget("QLabel", "one", Prop("value", v)) : v \in Values \cup Brushes}
      \cup {Prop(name, v) \o Widget(class, "one", Prop(name, v)) :
               name \in PropertyNames \ {"value"}, class \in {"QLabel", "QAxWidget", "QComboBox"},
               v \in {Leaf("number", "1"), Leaf("cstring", "one"), String("one"),
                      Element("rect", <<>>, <<>>)}}
      \cup {Prop("value", Palette(Role(b) \o Color("1") \o Role(Brush("SolidPattern", Color("1")))))
               : b \in Brushes}
      \cup {Widget("QLabel", "one", Prop("value", Palette(Element("colorrole", <<>>, <<>>)
                                                         \o Element("colorrole", <<<<"role", "abc">>>>, <<>>))))}
      \cup {Widget("Line", "line", Prop("orientation", Leaf("enum", "abc"))
                                    \o Prop("frameShadow", Leaf("enum", "abc"))
                                    \o Prop("orientation", Leaf("enum", "abc")))}

\* Item widgets: what an item, a column or a row may hold.
ItemProps ==
    {<<>>, TextProp("abc"), TextProp(""), Prop("text", Leaf("number", "1")),
     TextProp("abc") \o Prop("icon", Icon("a.png")), TextProp("abc") \o Prop("icon", OldIcon("pic")),
     TextProp("abc") \o Prop("pixmap", Leaf("pixmap", "pic")), Prop("pixmap", Leaf("pixmap", "b.png"))}
ItemViews ==
    {"QComboBox", "QListWidget", "QTreeWidget", "QTableWidget", "Q3ListBox", "Q3ListView",
     "Q3IconView", "Q3Table"}
Placed(content) == Element("item", <<<<"row", "1">>, <<"column", "1">>>>, content)
ItemForms ==
    {Widget(class, "view", Item(one) \o Item(TextProp("abc") \o Item(one))) :
        class \in ItemViews, one \in ItemProps}
      \cup {Widget(class, "view", Element("column", <<>>, one) \o Element("row", <<>>, one)
                                    \o Placed(one) \o Item(one)) :
               class \in {"QTreeWidget", "QTableWidget", "Q3ListView", "Q3Table"}, one \in ItemProps}
      \cup {Widget("Q3ListView", "view",
                    Element("column", <<>>, TextProp("abc") \o Prop("clickable", Leaf("bool", "true"))
                                              \o Prop("resizable", Leaf("bool", "true"))))}
      \cup {Widget(class, "view", Prop("database", Element("stringlist", <<>>, Leaves("string", info)))
                                    \o code) \o Widget("QLabel", "one", <<>>) :
               class \in {"Q3DataTable", "Q3DataBrowser"}, code \in
                  {<<>>, Prop("frameworkCode", Leaf("bool", "true")),
                   Prop("frameworkCode", Leaf("bool", "false"))},
               info \in {<<"(default)", "t", "f">>, <<"db", "t", "f">>, <<"db", "">>, <<"">>, <<>>}}

\* Pages in containers, and the parts of a main window.
APage ==
    Attr("title", String("abc")) \o Attr("icon", Icon("a.png")) \o Attr("toolTip", String("abc"))
ContainerClasses ==
    Range(Pagers) \cup {"QWidget", "QMainWindow", "Q3MainWindow", "Q3ToolBar"}
ContainerForms ==
    {Widget(class, "box", Widget(c, "one", content) \o Widget("QLabel", "two", <<>>)
                            \o Element("zorder", <<>>, <<Characters("two")>>) \o Leaf("zorder", "none"))
        : class \in ContainerClasses, c \in {"QWidget", "QPushButton"},
          content \in {<<>>, APage, Attr("toolTip", Leaf("number", "1"))}}
CustomForms ==
    {Widget("MyList", "view", Item(TextProp("abc"))), Widget("MyPages", "box", Widget("QLabel", "one", <<>>)),
     Widget("MyTool", "box", Widget("QLabel", "one", <<>>))}
WindowForms ==
    {Widget("QMenuBar", "bar", <<>>) \o Widget("QStatusBar", "status", <<>>)
       \o Widget("QToolBar", "tools", Attr("toolBarBreak", Leaf("bool", "true")))
       \o Widget("QDockWidget", "dock", Widget("QWidget", "one", <<>>))
       \o Widget("QWidget", "central", <<>>)}

\* Layouts, and buttons in groups.
SomeMargins == Prop("leftMargin", Leaf("number", "1")) \o Prop("margin", Leaf("number", "1"))
NoMargins == Prop("leftMargin", Leaf("number", "1")) \o Prop("leftMargin", Leaf("number", "-1"))
               \o Prop("margin", Leaf("number", "1"))
LayoutContents ==
    {<<>>, Item(<<>>),
     Item(Widget("QLabel", "one", <<>>)) \o Item(Layout("QFormLayout", "inner",
                                                   Item(Widget("QLabel", "two", <<>>)))),
     Item(Element("spacer", <<<<"name", "spacer">>>>, Prop("sizeHint", Element("size", <<>>, <<>>))))
       \o Item(Element("spacer", <<>>, <<>>)),
     Item(Element("spacer", <<<<"name", "Spacer">>>>, Prop("sizeHint", Leaf("number", "1")))),
     Item(Element("spacer", <<<<"name", "Spacer">>>>, <<>>))}
LayoutForms ==
    {Widget(class, "box", Layout("QGridLayout", "layout", m \o c)) :
        class \in {"QWidget", "Q3GroupBox", "Q3ButtonGroup"}, m \in {<<>>, SomeMargins, NoMargins},
        c \in LayoutContents}
      \cup {Layout("QVBoxLayout", "layout", c) : c \in LayoutContents}
      \cup {Widget("Q3ButtonGroup", "box", Widget("QRadioButton", "one",
                                                 Prop("buttonGroupId", Leaf("number", "1"))))}
Group(p) == Attr("buttonGroup", p)
ButtonForms ==
    {Widget("QRadioButton", "one", Group(p)) \o Widget("QPushButton", "two", Group(q))
       \o Widget("QLabel", "three", Group(q)) :
        p, q \in {String("abc"), String("one"), Leaf("number", "1")}}

\* Actions: in groups, in menus, and added to widgets by name.
ActionForms ==
    {Action("save", Prop("value", Icon("a.png")))
       \o Element("actiongroup", <<<<"name", "group">>>>, Action("one", <<>>) \o inner)
       \o Element("action", <<<<"name", "menuAction">>, <<"menu", "abc">>>>, <<>>)
       \o Widget(bar, "bar", AddAction(a) \o AddAction("separator") \o AddAction(b)
                               \o Widget("QMenu", "menu", AddAction("one"))
                               \o Widget("QLabel", "two", <<>>)) :
        bar \in {"QMenuBar", "Q3ToolBar"}, a \in {"save", "menu", "group", ""},
        b \in {"two", "menuAction", "none"},
        inner \in {<<>>, Element("actiongroup", <<<<"name", "inner">>>>, Action("deep", <<>>))}}

\* Names: missing, equal, alike, and taken by what the writer names itself.
NameForms ==
    {Widget("QLabel", n, Prop("value", Font)) \o Widget("QLabel", m, Prop("value", Icon("a.png")))
        : n, m \in {"", "one", "font", "icon", "label", "Label", "form", "one1"}}
      \cup {Widget("QLabel", "one", <<>>) \o Widget("QLabel", "one", <<>>)
               \o Widget("QLabel", "one1", <<>>)}

\* What stands beside the main widget.
Name(class) == Leaf("class", class)
Custom(class, base, method) ==
    Element("customwidget", <<>>, Leaf("class", class) \o Leaf("extends", base)
                                    \o Leaf("addpagemethod", method))
Customs ==
    Element("customwidgets", <<>>, Custom("MyList", "QListWidget", "")
                                     \o Custom("MyPages", "QWidget", "addMyPage")
                                     \o Custom("MyTool", "MyPages", ""))
Pictures ==
    Element("images", <<>>, Element("image", <<<<"name", "pic">>>>, Element("data", <<>>, <<>>)))
Defaults == Element("layoutdefault", <<<<"spacing", "1">>, <<"margin", "1">>>>, <<>>)
Circle ==
    Element("customwidgets", <<>>, Custom("Mine", "Other", "") \o Custom("Other", "Mine", ""))
Connect(sender, receiver) ==
    Element("connection", <<>>, Leaf("sender", sender) \o Leaf("signal", "abc")
                                  \o Leaf("receiver", receiver) \o Leaf("slot", "abc"))
ConnectionForms ==
    {Element("connections", <<>>, Connect(a, b) \o Connect("one", "my edit")) :
        a, b \in {"one", "Form", "save", "none", "form"}}
TabStops == {Element("tabstops", <<>>, Leaves("tabstop", <<a, b, c>>)) :
                a, b, c \in {"one", "Label", "my_edit", "none"}}
Trio ==
    Widget("QLabel", "Label", Prop("buddy", Leaf("cstring", "one")))
      \o Widget("QLabel", "one", Prop("buddy", Leaf("cstring", "my_edit")))
      \o Widget("QLineEdit", "my edit", Prop("buddy", Leaf("cstring", "none")))
      \o Widget("QLabel", "two", Prop("buddy", Leaf("cstring", "one"))
                                    \o Prop("buddy", Leaf("cstring", "Label")))
      \o Action("save", <<>>)

FormOf(class, content, beside) ==
    Element("ui", <<Version>>, Widget(class, "Form", content) \o beside)
WriterForms ==
    {FormOf("QWidget", c, Pictures) : c \in PropertyForms \cup ItemForms \cup ButtonForms}
      \cup {FormOf("QWidget", c, <<>>) : c \in ContainerForms \cup ActionForms \cup NameForms}
      \cup {FormOf("QWidget", c, Defaults) : c \in LayoutForms}
      \cup {FormOf("QWidget", c, Customs) : c \in CustomForms}
      \cup {FormOf(class, c, <<>>) : class \in {"QMainWindow", "Q3MainWindow"}, c \in WindowForms}
      \cup {FormOf(class, Item(TextProp("abc")), <<>>) : class \in ItemViews}
      \cup {FormOf("QWidget", Trio, x) : x \in ConnectionForms \cup TabStops}
      \cup {Element("ui", <<Version>>, <<>>)}
      \cup {FormOf("QWidget", Widget("Mine", "one", <<>>), Circle),
             FormOf("QWidget", Widget("Other", "one", <<>>),
                    Element("images", <<>>, Element("image", <<<<"name", "pic">>>>, <<>>)))}

ToolForms == LET schema == SchemaForms writer == WriterForms IN schema \cup writer

----------------------------------------------------------------------------
(* A disk with small files, some of which compress well, a file too big, a *)
(* directory with a directory inside, one that holds only directories, and *)
(* two sockets, one of which has the name of a file further down.          *)
MCDisk ==
    LET file(size, packed) == [kind |-> "file", size |-> size, packed |-> packed, below |-> <<>>]
        dir(below) == [kind |-> "directory", size |-> 0, packed |-> 0, below |-> below]
    IN  (<<"a">> :> file(1, 3)) @@ (<<"b">> :> file(4, 1)) @@ (<<"c">> :> file(4, 2))
          @@ (<<"e">> :> file(0, 1)) @@ (<<"..", "c">> :> file(2, 1))
          @@ (<<"d">> :> dir(<<<<"d", "a">>, <<"d", "s">>, <<"d", "s", "b">>, <<"d", "h">>>>))
          @@ (<<"d", "a">> :> file(2, 2)) @@ (<<"d", "s">> :> dir(<<<<"d", "s", "b">>>>))
          @@ (<<"d", "s", "b">> :> file(1, 1))
          @@ (<<"v">> :> dir(<<<<"d", "s">>>>))
          @@ (<<"d", "h">> :> [file(0, 0) EXCEPT !.kind = "huge"])
          @@ (<<"h">> :> [file(0, 0) EXCEPT !.kind = "huge"])
          @@ (<<"d", "b">> :> [dir(<<<<"d", "s", "b">>>>) EXCEPT !.kind = "special"])
          @@ (<<"d", "e">> :> [dir(<<>>) EXCEPT !.kind = "special"])
PathNames == <<"", "a", "b", "c", "d", "e", "h", "p", "q", "r", "s", "v", "..", ".">>
\* b and c collide; the hashes are in no order of the names.
MCHash == [n \in Range(PathNames) |->
              CASE n \in {"b", "c"} -> 3 [] n = "a" -> 9 [] n = "p" -> 1 [] n = "q" -> 0
                [] OTHER -> 5 + CHOOSE i \in DOMAIN PathNames : PathNames[i] = n]
MCSeeds ==
    {[n \in Range(PathNames) |-> CHOOSE i \in DOMAIN PathNames : PathNames[i] = n],
     [n \in Range(PathNames) |-> CHOOSE i \in {0 - j : j \in DOMAIN PathNames} : PathNames[0 - i] = n]}
MCLocales ==
    [de |-> <<"German", "AnyCountry">>, de_AT |-> <<"German", "Austria">>, C |-> <<"C", "AnyCountry">>]
MCFaults == {{}, {<<"a">>}, {<<"b">>}}
Chars(s) == [i \in DOMAIN s |-> <<s[i]>>]
MCObjects ==
    {<<Chars(<<"x">>), Chars(<<"y">>)>>, <<Chars(<<"Q", "R", "x">>), Chars(<<"Q", "R">>)>>,
     <<Chars(<<"x", "Q">>), <<>>>>}

Tag(tag, attributes, content) ==
    <<[kind |-> "start", tag |-> tag, attributes |-> attributes]>> \o content \o <<[kind |-> "end"]>>
Words(path) == [kind |-> "characters", text |-> path]
None == [x \in {} |-> x]
File(attributes, path) == Tag("file", attributes, <<Words(path)>>)
Files(paths) == Joined([i \in DOMAIN paths |-> File(None, paths[i])])
Resource(attributes, content) == Tag("qresource", attributes, <<[kind |-> "blank"]>> \o content)
Collection(content) == Tag("RCC", None, content)
Plain(paths) == Collection(Resource(None, Files(paths)))
Under(prefix, content) == Resource([prefix |-> prefix], content)

A == <<"a">>
B == <<"b">>
C == <<"c">>
GoodInputs ==
    {<<Plain(<<A, B, C>>)>>, <<Plain(<<A>>), Plain(<<B, <<"e">>>>)>>, <<Plain(<<<<"e">>>>)>>,
     <<Plain(<<<<"d">>, A>>)>>, <<Plain(<<<<"v">>>>)>>, <<Plain(<<<<"h">>, B>>)>>,
     <<Collection(<<>>)>>, <<Plain(<<<<"..", "c">>, B>>)>>,
     <<Collection(Under(<<"p", "q">>, Files(<<B>>)) \o Under(<<"p">>, Files(<<A>>))
                    \o Under(<<"r">>, File([alias |-> <<"q", ".", "s", "..", "b">>], A)))>>,
     <<Collection(Resource(None, Files(<<A>>)) \o Resource([lang |-> "de"], Files(<<C>>)
                    \o File([alias |-> A], B)) \o Resource([lang |-> "de_AT"], File([alias |-> A], C)))>>,
     <<Collection(Resource(None, File([compress |-> 0], B) \o File([threshold |-> 40], C)
                                   \o File([alias |-> <<"..", "..">>], A)))>>,
     \* sockets
     <<Plain(<<<<"d", "b">>, <<"d", "e">>, A>>)>>,
     <<Collection(Resource(None, File([alias |-> <<"q">>], <<"d", "b">>) \o Files(<<B>>)))>>,
     \* files that hide each other, or share a path
     <<Collection(Resource(None, Files(<<A, A>>) \o File([alias |-> A], B)))>>,
     <<Collection(Resource([lang |-> "de"], Files(<<A, B>>) \o File([alias |-> A], B)))>>,
     <<Collection(Resource(None, Files(<<B>>) \o File([alias |-> <<"b", "q">>], A)))>>}
BadInputs ==
    {<<Plain(<<A, <<"q">>, B>>)>>, <<<<>>>>, <<SubSeq(Plain(<<A>>), 1, 6)>>,
     <<Collection(Files(<<A>>))>>, <<Plain(<<A>>), Collection(Collection(<<>>))>>,
     <<Collection(Resource(None, Tag("file", None, <<Words(A), Words(B)>>)))>>,
     <<Collection(Tag("qrc", None, <<>>))>>, <<Collection(<<Words(A)>>)>>}
MCCommand(inputs, format, list, root, level) ==
    [inputs |-> inputs, format |-> format, list |-> list, root |-> root, level |-> level,
     threshold |-> 70]
MCCommands ==
    {MCCommand(i, f, FALSE, <<>>, -1) : i \in GoodInputs, f \in {"Binary", "Pass1"}}
      \cup {MCCommand(i, "C_Code", l, <<>>, -1) : i \in BadInputs \cup {<<Collection(<<>>)>>}, l \in BOOLEAN}
      \cup {MCCommand(i, "Binary", TRUE, <<>>, -1) : i \in GoodInputs}
      \cup {MCCommand(i, "C_Code", FALSE, <<"r">>, -2) : i \in GoodInputs}

----------------------------------------------------------------------------
(* One run of one program: a form editor that reads a form and saves it,   *)
(* rbuic, or rbrcc once or twice.                                          *)
VARIABLE program
mcVars == <<uiVars, rccVars, program>>

NoCollection ==
    /\ command = MCCommand(<<>>, "C_Code", FALSE, <<>>, -1) /\ seed = <<>> /\ unreadable = {}
    /\ image = [data |-> <<>>, size |-> 0, names |-> <<>>, structure |-> <<>>, list |-> {}]
    /\ stage = "no rbrcc" /\ input = 1 /\ at = 0 /\ tags = <<>> /\ resource = None /\ entry = None /\ iterator = <<>>
    /\ nodes = <<>> /\ failedResources = <<>> /\ pending = <<>> /\ todo = <<>> /\ offset = 0
    /\ matched = 0 /\ foundSignature = FALSE /\ position = 0 /\ output = <<>> /\ temp = <<>>
MCInit ==
    /\ WriteInit /\ ReaderInit
    /\ \/ program = "designer" /\ form \in SchemaForms /\ NoCollection
       \/ program = "rbuic" /\ form \in WriterForms /\ NoCollection
       \/ program = "rbrcc" /\ form = Element("form", <<Version>>, <<>>) /\ RccInit
Designer ==
    /\ program = "designer"
    /\ ReaderNext \/ Save \/ DeleteUi
    /\ UNCHANGED <<uicVars, writeVars, rccVars, program>>
Rbuic == program = "rbuic" /\ RbuicNext /\ UNCHANGED <<rccVars, program>>
Rbrcc == program = "rbrcc" /\ RccSteps /\ UNCHANGED <<uiVars, program>>
Compiled == program = "rbrcc" /\ SecondPass /\ UNCHANGED <<uiVars, program>>

\* Every step of a tool is its own and is taken as soon as it can be.
MCNext == Designer \/ Rbuic \/ Rbrcc \/ Compiled
MCSpec == MCInit /\ [][MCNext]_mcVars /\ WF_mcVars(Rbuic) /\ WF_mcVars(Rbrcc)
=============================================================================
