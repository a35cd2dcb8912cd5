-------------------------------- MODULE Uic --------------------------------
(***************************************************************************)
(* The tool rbuic between the form it has read (module Ui4) and the Ruby   *)
(* it writes: Uic::rbwrite, the walk over the form of treewalker.cpp, the  *)
(* names of driver.cpp and validator.cpp, what customwidgetsinfo.cpp and   *)
(* databaseinfo.cpp know, and the readers of rbwritedeclaration.cpp.       *)
(*                                                                         *)
(* The calls of the recursive walk that are still to be made are the       *)
(* agenda, next one first; an action makes one of them and puts those it   *)
(* makes itself before the rest.  A null pointer that a call follows ends  *)
(* the tool: Dereferences says where, module by module.                    *)
(***************************************************************************)
EXTENDS Ui4

\* What becomes of the strings that a conversion changes.
CONSTANTS
    LowerFirst,  \* mid(0, 1).toLower() + mid(1)
    Normalized,  \* Driver::normalizedName
    Qtified      \* Driver::qtify

ASSUME ConversionsAssumption ==
    \A f \in {LowerFirst, Normalized, Qtified} : \A s \in DOMAIN f : f[s] \notin DOMAIN f

VARIABLES
    tool,      \* "idle", "working", "written", "failed" or "crashed"
    agenda,    \* the calls still to be made
    named,     \* m_widgets, m_layouts, m_spacers, m_actions, m_actionGroups
    used,      \* m_nameRepository
    readers,   \* the attr_reader's of the class
    databases  \* DatabaseInfo::connections()

uicVars == <<tool, agenda, named, used, readers, databases>>

----------------------------------------------------------------------------
(* The accessors of the Dom classes.                                       *)
Has(n, a) == a \in DOMAIN heap[n].attributes
Attribute(n, a) == IF Has(n, a) THEN heap[n].attributes[a] ELSE ""
All(n, tag) == heap[n].objects[tag]
The(n, tag) == IF All(n, tag) = <<>> THEN NULL ELSE All(n, tag)[1]
Text(n, tag) == IF heap[n].texts[tag] = <<>> THEN "" ELSE heap[n].texts[tag][1]
HasText(n, tag) == heap[n].texts[tag] # <<>>

\* kind(), for a class whose members exclude one another.
Kind(n) ==
    LET set == {t \in DOMAIN heap[n].objects : All(n, t) # <<>>}
               \cup {t \in DOMAIN heap[n].texts : HasText(n, t)}
    IN  IF set = {} THEN "unknown" ELSE CHOOSE t \in set : TRUE
IsKind(p, kind) == p # NULL /\ Kind(p) = kind

\* propertyMap: of several properties with a name the last one counts.
Property(properties, name) ==
    LET ps == SelectSeq(properties, LAMBDA p : Attribute(p, "name") = name)
    IN  IF ps = <<>> THEN NULL ELSE Last(ps)
PropertyOf(n, name) == Property(All(n, "property"), name)
AttributeOf(n, name) == Property(All(n, "attribute"), name)
StringOf(p) == IF IsKind(p, "string") THEN heap[The(p, "string")].text ELSE ""
TrueText(s) == s = "true"

MainWidget == The(ui, "widget")

----------------------------------------------------------------------------
(* customwidgetsinfo.cpp.                                                  *)
Applied(f, s) == IF s \in DOMAIN f THEN f[s] ELSE s

CustomWidget(class) ==
    LET all == IF The(ui, "customwidgets") = NULL THEN <<>>
               ELSE All(The(ui, "customwidgets"), "customwidget")
        ofClass == SelectSeq(all, LAMBDA c : Text(c, "class") = class)
    IN  IF class = "" \/ ofClass = <<>> THEN NULL ELSE Last(ofClass)
CustomWidgets ==
    IF The(ui, "customwidgets") = NULL THEN 0
    ELSE Len(All(The(ui, "customwidgets"), "customwidget"))

\* The class the loop of extends() goes on with; "" ends it.
Superclass(class) ==
    LET c == CustomWidget(class)
    IN  IF c = NULL \/ Text(c, "extends") = class THEN "" ELSE Text(c, "extends")
Ancestor[k \in Nat, class \in STRING] ==
    IF k = 0 THEN class ELSE Superclass(Ancestor[k - 1, class])

Extends(class, base) == \E k \in 0 .. CustomWidgets : Ancestor[k, class] = base
ExtendsAny(class, bases) == \E base \in bases : Extends(class, base)

\* Custom widgets that extend each other in a circle: extends() does not
\* return, unless it is asked for one of them.
Endless(class) == Ancestor[CustomWidgets + 1, class] # ""

AddPageMethod(class) ==
    IF CustomWidget(class) = NULL THEN "" ELSE Text(CustomWidget(class), "addpagemethod")

IsButton(class) ==
    ExtendsAny(class, {"QRadioButton", "QToolButton", "QCheckBox", "QPushButton",
                       "QCommandLinkButton"})
IsContainer(class) ==
    ExtendsAny(class, {"QStackedWidget", "QToolBox", "QTabWidget", "QScrollArea", "QMdiArea",
                       "QWizard", "QDockWidget"})
IsMenu(class) == ExtendsAny(class, {"QMenu", "QPopupMenu"})

----------------------------------------------------------------------------
(* treewalker.cpp: the objects a walk goes to below one, in its order.  Of *)
(* the layouts of a widget it takes the first.                             *)
Walked(n) ==
    CASE heap[n].class = "DomWidget" ->
            All(n, "action") \o All(n, "actiongroup") \o All(n, "addaction") \o All(n, "widget")
              \o (IF All(n, "layout") = <<>> THEN <<>> ELSE <<All(n, "layout")[1]>>)
      [] heap[n].class = "DomLayout" -> All(n, "item")
      [] heap[n].class = "DomLayoutItem" ->
            IF Kind(n) = "unknown" THEN <<>> ELSE <<The(n, Kind(n))>>
      [] heap[n].class = "DomActionGroup" -> All(n, "action") \o All(n, "actiongroup")
      [] OTHER -> <<>>

IsNamed(n) == heap[n].class \in {"DomWidget", "DomLayout", "DomSpacer", "DomAction",
                                 "DomActionGroup"}

(* DatabaseInfo::acceptWidget: it does not go below a widget without       *)
(* frameworkCode, nor below one whose database is not told completely.     *)
DatabasesBelow[n \in Nat] ==
    LET below == UNION {DatabasesBelow[m] : m \in Range(Walked(n))}
        code == PropertyOf(n, "frameworkCode")
        db == PropertyOf(n, "database")
        info == heap[The(db, "stringlist")].texts["string"]
        complete == Len(info) >= 3 /\ \A i \in 1 .. 3 : info[i] # ""
    IN  CASE heap[n].class # "DomWidget" -> below
          [] code # NULL /\ ~TrueText(Text(code, "bool")) -> {}
          [] ~IsKind(db, "stringlist") -> below
          [] info = <<>> \/ info[1] = "" -> {}
          [] OTHER -> {info[1]} \cup (IF complete THEN below ELSE {})

----------------------------------------------------------------------------
(* driver.cpp: names.  unique() compares them as they are, and the first   *)
(* letter becomes lower case only when a variable is written.              *)
Unique(base) ==
    IF base \notin used THEN base
    ELSE base \o ToString(Min({i \in 1 .. Cardinality(used) :
                                   base \o ToString(i) \notin used}))

\* unique(name, class): a name, or one made of the class, or "var".
NameFor(name, class) ==
    Unique(Applied(Normalized, IF name # "" THEN name
                                ELSE IF class # "" THEN Applied(Qtified, class) ELSE "var"))
ClassName(n) ==
    CASE heap[n].class \in {"DomWidget", "DomLayout"} -> Attribute(n, "class")
      [] heap[n].class = "DomSpacer" -> "QSpacerItem"
      [] heap[n].class = "DomAction" -> "QAction"
      [] heap[n].class = "DomActionGroup" -> "QActionGroup"

\* findOrInsertWidget, ...Layout, ...Spacer, ...Action and ...ActionGroup.
FindOrInsert(n) ==
    IF n \in DOMAIN named THEN UNCHANGED <<named, used>>
    ELSE LET name == NameFor(Attribute(n, "name"), ClassName(n))
         IN  named' = (n :> name) @@ named /\ used' = used \cup {name}

\* widgetByName and the like: the object of a class with this unique name.
ByName(class, name) ==
    IF \E n \in DOMAIN named : heap[n].class = class /\ named[n] = name
    THEN CHOOSE n \in DOMAIN named : heap[n].class = class /\ named[n] = name
    ELSE NULL

Lowered(s) == Applied(LowerFirst, s)
ToRubyIdentifier(s) == "@" \o Lowered(s)

----------------------------------------------------------------------------
Call(name, n) == [name |-> name, node |-> n, for |-> NULL]
CallFor(name, n, m) == [name |-> name, node |-> n, for |-> m]
Calls(name, ns) == [i \in DOMAIN ns |-> Call(name, ns[i])]

Node == Head(agenda).node
For == Head(agenda).for
Then(calls) == agenda' = calls \o Tail(agenda)
Working == tool = "working" /\ agenda # <<>>
Now(name) == Working /\ Head(agenda).name = name

(* Uic::rbwrite: the information about databases and custom widgets, the   *)
(* names, the readers, then what initialization() does.                    *)
Rbwrite ==
    /\ phase = "accepted" /\ doomed = {} /\ tool = "idle"
    /\ IF MainWidget = NULL
       THEN tool' = "failed" /\ UNCHANGED <<agenda, databases>>
       ELSE /\ tool' = "working"
            /\ databases' = DatabasesBelow[MainWidget]
            /\ agenda' = <<Call("Validate", MainWidget)>> \o Calls("Declare", Walked(MainWidget))
                           \o <<Call("acceptUI", ui), Call("images", ui)>>
    /\ UNCHANGED <<named, used, readers>>

\* validator.cpp: every widget, layout, spacer, action and group gets its name.
Validate ==
    /\ Now("Validate")
    /\ IF IsNamed(Node) THEN FindOrInsert(Node) ELSE UNCHANGED <<named, used>>
    /\ Then(Calls("Validate", Walked(Node)))
    /\ UNCHANGED <<tool, readers, databases>>

\* rbwritedeclaration.cpp: a reader of every one of them but the main widget.
Declare ==
    /\ Now("Declare")
    /\ readers' = IF IsNamed(Node) THEN readers \cup {Lowered(named[Node])} ELSE readers
    /\ Then(Calls("Declare", Walked(Node)))
    /\ UNCHANGED <<tool, named, used, databases>>

\* WriteIconDeclaration and WriteIconInitialization: what they write of the
\* images is data; they end the tool when an image has none.
WriteImages ==
    /\ Now("images")
    /\ The(ui, "images") # NULL =>
         \A i \in Range(All(The(ui, "images"), "image")) : The(i, "data") # NULL
    /\ Then(<<>>)
    /\ UNCHANGED <<tool, named, used, readers, databases>>

Rbwritten ==
    /\ tool = "working" /\ agenda = <<>>
    /\ tool' = "written"
    /\ UNCHANGED <<agenda, named, used, readers, databases>>

UicInit ==
    /\ tool = "idle" /\ agenda = <<>>
    /\ named = [n \in {} |-> ""] /\ used = {} /\ readers = {} /\ databases = {}
=============================================================================
