--------------------------- MODULE MCCallArguments ---------------------------
(* Declarations of Qt 5.4 the tests and the examples call, in their order, *)
(* and calls of them with every sequence of a few Ruby values.             *)
EXTENDS CallArguments

Type(cat, ref, trivial, mentions) ==
    [cat |-> cat, ref |-> ref, trivial |-> trivial, mentions |-> mentions]
int == Type("integral", FALSE, TRUE, {})
bool == Type("bool", FALSE, TRUE, {})
double == Type("floating", FALSE, TRUE, {})
intRef == Type("integral", TRUE, FALSE, {})
charPtr == Type("pointer", FALSE, TRUE, {"char *"})
charPtrPtr == Type("pointer", FALSE, TRUE, {"char *", "char **"})
boolPtr == Type("pointer", FALSE, TRUE, {})
objPtr == Type("pointer", FALSE, TRUE, {})
objRef == Type("record", TRUE, FALSE, {})
byValue == Type("record", FALSE, TRUE, {})
QString == Type("record", TRUE, FALSE, {"QString"})
QStringList == Type("record", TRUE, FALSE, {"QString", "QStringList"})
QVariant == Type("record", TRUE, FALSE, {"QVariant"})

P(type, form, value) == type @@ [default |-> form, value |-> value]
P1(type) == P(type, "none", 0)
D(name, params) ==
    [name |-> name, static |-> FALSE, defaulted |-> FALSE, params |-> params]
S(name, params) == [D(name, params) EXCEPT !.static = TRUE]
Implicit(name, params) == [D(name, params) EXCEPT !.defaulted = TRUE]

MCRecords ==
    {"QObject", "QPaintDevice", "QWidget", "QLCDNumber", "QComboBox", "QInputDialog", "QPixmap",
     "QString", "QStringList", "QDate", "QCoreApplication", "QApplication"}

MCBases ==
    [c \in MCRecords |->
        CASE c = "QWidget" -> <<"QObject", "QPaintDevice">>
          [] c \in {"QLCDNumber", "QComboBox", "QInputDialog"} -> <<"QWidget">>
          [] c = "QPixmap" -> <<"QPaintDevice">>
          [] c = "QStringList" -> <<"QList<QString>">>
          [] c = "QCoreApplication" -> <<"QObject">>
          [] c = "QApplication" -> <<"QCoreApplication">>
          [] OTHER -> <<>>]

MCDecls ==
    [c \in MCRecords |->
        CASE c = "QObject" ->
               <<D("QObject", <<P(objPtr, "null", 0)>>),
                 D("setObjectName", <<P1(QString)>>),
                 D("startTimer", <<P1(int), P(int, "integer", 1)>>),
                 D("QObject", <<P1(objRef), P(objPtr, "null", 0)>>),
                 D("QObject", <<P1(objRef)>>)>>
          [] c = "QPaintDevice" -> <<D("width", <<>>), D("colorCount", <<>>)>>
          [] c = "QWidget" ->
               <<D("QWidget", <<P(objPtr, "null", 0), P(byValue, "construct", 0)>>),
                 D("width", <<>>),
                 D("resize", <<P1(int), P1(int)>>),
                 D("resize", <<P1(objRef)>>),
                 D("setSizePolicy", <<P1(byValue)>>),
                 D("setSizePolicy", <<P1(int), P1(int)>>),
                 D("update", <<>>),
                 D("update", <<P1(int), P1(int), P1(int), P1(int)>>)>>
          [] c = "QLCDNumber" ->
               <<D("QLCDNumber", <<P(objPtr, "null", 0)>>),
                 D("QLCDNumber", <<P1(int), P(objPtr, "null", 0)>>),
                 D("display", <<P1(QString)>>),
                 D("display", <<P1(int)>>),
                 D("display", <<P1(double)>>)>>
          [] c = "QComboBox" ->
               <<D("insertItem", <<P1(int), P1(QString), P(QVariant, "QVariant()", 0)>>),
                 D("insertItem", <<P1(int), P1(objRef), P1(QString),
                                   P(QVariant, "QVariant()", 0)>>),
                 D("findText", <<P1(QString), P(byValue, "construct", 16)>>)>>
          [] c = "QInputDialog" ->
               <<S("getText", <<P1(objPtr), P1(QString), P1(QString), P(int, "integer", 0),
                                P(QString, "temporary", 63), P(boolPtr, "null", 0),
                                P(byValue, "construct", 0)>>),
                 S("getDouble", <<P1(objPtr), P1(QString), P1(QString),
                                  P(double, "constant", 61), P(int, "integer", 1),
                                  P(boolPtr, "null", 0), P(byValue, "construct", 0)>>)>>
          [] c = "QPixmap" ->
               <<D("width", <<>>),
                 D("fill", <<P(objRef, "invalid eval", 3)>>),
                 D("fill", <<P1(objPtr), P1(objRef)>>),
                 D("fill", <<P1(objPtr), P1(int), P1(int)>>)>>
          [] c = "QString" ->
               <<D("QString", <<>>),
                 D("QString", <<P1(objPtr), P(int, "integer", 41)>>),
                 D("QString", <<P1(byValue)>>),
                 D("QString", <<P1(int), P1(byValue)>>),
                 D("QString", <<P1(QString)>>),
                 D("arg", <<P1(int), P(int, "integer", 0), P(int, "integer", 10),
                            P(byValue, "construct", 32)>>),
                 D("arg", <<P1(QString), P(int, "integer", 0), P(byValue, "construct", 32)>>),
                 D("append", <<P1(byValue)>>),
                 D("append", <<P1(QString)>>),
                 D("QString", <<P1(charPtr)>>)>>
          [] c = "QStringList" ->
               <<D("QStringList", <<>>),
                 D("QStringList", <<P1(QString)>>),
                 D("join", <<P1(QString)>>),
                 Implicit("QStringList", <<P1(QStringList)>>)>>
          [] c = "QDate" ->
               <<D("QDate", <<>>),
                 D("QDate", <<P1(int), P1(int), P1(int)>>),
                 D("isValid", <<>>),
                 S("isValid", <<P1(int), P1(int), P1(int)>>)>>
          [] c = "QCoreApplication" ->
               <<D("QCoreApplication", <<P1(intRef), P1(charPtrPtr), P(int, "integer", 54)>>),
                 S("translate", <<P1(charPtr), P1(charPtr), P(charPtr, "null", 0),
                                  P(int, "integer", 99)>>)>>
          [] c = "QApplication" ->
               <<D("QApplication", <<P1(intRef), P1(charPtrPtr), P(int, "integer", 54)>>)>>]
----------------------------------------------------------------------------
V(t, val) == [t |-> t, val |-> val]
Values ==
    {V("T_FIXNUM", 0), V("T_FIXNUM", 7), V("T_NIL", 0), V("T_STRING", 11), V("T_FLOAT", 15),
     V("T_TRUE", 1), V("T_OBJECT", 0), V("T_OBJECT", 21), V("T_ARRAY", 31), V("T_SYMBOL", 0),
     [t |-> "Range", val |-> 50, last |-> 90]}

MCWord == [a \in {0, 21} |-> IF a = 0 THEN 0 ELSE 22]

New(c) == [op |-> "new", klass |-> c, method |-> c]
Call(c, m) == [op |-> "call", klass |-> c, method |-> m]
Static(c, m) == [op |-> "static", klass |-> c, method |-> m]

MCCalled ==
    {New(c) : c \in {"QObject", "QWidget", "QLCDNumber", "QString", "QStringList", "QDate",
                     "QApplication"}}
    \cup {Call("QLCDNumber", m) :
             m \in {"display", "width", "colorCount", "resize", "setSizePolicy", "update",
                    "startTimer", "setObjectName", "hide"}}
    \cup {Call("QComboBox", m) : m \in {"insertItem", "findText"}}
    \cup {Call("QPixmap", m) : m \in {"fill", "width"}}
    \cup {Call("QString", m) : m \in {"arg", "append"}}
    \cup {Call("QStringList", m) : m \in {"join", "count"}}
    \cup {Call("QDate", "isValid"), Static("QDate", "isValid"),
          Static("QApplication", "translate"),
          Static("QInputDialog", "getText"), Static("QInputDialog", "getDouble")}

MCArgvs == UNION {[1 .. n -> Values] : n \in 0 .. 3}

ASSUME OnePath

\* examples/tutorial/t13/gamebrd.rb:110, display(15.0) and its like
MCDisplay == {Call("QLCDNumber", "display")}
MCOneArg == [1 .. 1 -> Values]
=============================================================================
