----------------------------- MODULE DomSchema -----------------------------
(***************************************************************************)
(* The classes of ui4.cpp, as data.  Each has a read() that loops over the *)
(* XML tokens, setters or lists, a clear() or destructor and a write(),    *)
(* all written by one generator, so a class is told by:                    *)
(*   attributes  the names read() takes (case matters), with the type the  *)
(*               value is converted to;                                    *)
(*   children    the tags it takes (lower case: read() folds them), with   *)
(*               the class it makes an object of, or the type of the text; *)
(*   choice      whether one member excludes the others: every setter of   *)
(*               such a class begins with clear(false) and write()         *)
(*               switches on kind().                                       *)
(* What read, the setters, the destructors and write do with these tables  *)
(* is module Ui4.  The order in which write() takes the tags is left out:  *)
(* every reader of a form keeps a member per tag.                          *)
(***************************************************************************)
EXTENDS TLC

Each(t, names) == [n \in names |-> t]

\* A tag whose setter replaces, and one whose values are appended to a list.
One(t) == [type |-> t, list |-> FALSE]
List(t) == [type |-> t, list |-> TRUE]

Record(attributes, children) ==
    [attributes |-> attributes, children |-> children, choice |-> FALSE]
Choice(attributes, children) ==
    [attributes |-> attributes, children |-> children, choice |-> TRUE]

\* What is not a class of its own is text, converted.
Types == {"Text", "Int", "Real", "Bool"}
IsObject(child) == child.type \notin Types

\* ---- The form and what stands beside its widgets

DomUI == Record(
    Each("Text", {"version", "language", "displayname"}) @@ Each("Int", {"stdsetdef",
     "stdSetDef"}),
    [widget |-> One("DomWidget"), layoutdefault |-> One("DomLayoutDefault"),
     layoutfunction |-> One("DomLayoutFunction"), customwidgets |-> One("DomCustomWidgets"),
     tabstops |-> One("DomTabStops"), images |-> One("DomImages"),
     includes |-> One("DomIncludes"), resources |-> One("DomResources"),
     connections |-> One("DomConnections"), designerdata |-> One("DomDesignerData"),
     slots |-> One("DomSlots"), buttongroups |-> One("DomButtonGroups")] @@
     Each(One("Text"), {"author", "comment", "exportmacro", "class", "pixmapfunction"}))

DomIncludes == Record(<<>>, [include |-> List("DomInclude")])

DomInclude == Record(Each("Text", {"location", "impldecl"}), <<>>)

DomResources == Record([name |-> "Text"], [include |-> List("DomResource")])

DomResource == Record([location |-> "Text"], <<>>)

DomImages == Record(<<>>, [image |-> List("DomImage")])

DomImage == Record([name |-> "Text"], [data |-> One("DomImageData")])

DomImageData == Record([format |-> "Text", length |-> "Int"], <<>>)

DomCustomWidgets == Record(<<>>, [customwidget |-> List("DomCustomWidget")])

DomHeader == Record([location |-> "Text"], <<>>)

DomCustomWidget == Record(
    <<>>,
    [header |-> One("DomHeader"), sizehint |-> One("DomSize"), container |-> One("Int"),
     sizepolicy |-> One("DomSizePolicyData"), script |-> One("DomScript"),
     properties |-> One("DomProperties"), slots |-> One("DomSlots"),
     propertyspecifications |-> One("DomPropertySpecifications")] @@ Each(One("Text"),
     {"class", "extends", "addpagemethod", "pixmap"}))

DomProperties == Record(<<>>, [property |-> List("DomPropertyData")])

DomPropertyData == Record([type |-> "Text"], <<>>)

DomSizePolicyData == Record(<<>>, Each(One("Int"), {"hordata", "verdata"}))

DomPropertySpecifications == Record(
    <<>>,
    [stringpropertyspecification |-> List("DomStringPropertySpecification")])

DomStringPropertySpecification == Record(Each("Text", {"name", "type", "notr"}), <<>>)

DomLayoutDefault == Record(Each("Int", {"spacing", "margin"}), <<>>)

DomLayoutFunction == Record(Each("Text", {"spacing", "margin"}), <<>>)

DomTabStops == Record(<<>>, [tabstop |-> List("Text")])

DomConnections == Record(<<>>, [connection |-> List("DomConnection")])

DomConnection == Record(
    <<>>,
    [hints |-> One("DomConnectionHints")] @@ Each(One("Text"), {"sender", "signal",
     "receiver", "slot"}))

DomConnectionHints == Record(<<>>, [hint |-> List("DomConnectionHint")])

DomConnectionHint == Record([type |-> "Text"], Each(One("Int"), {"x", "y"}))

DomSlots == Record(<<>>, Each(List("Text"), {"signal", "slot"}))

DomScript == Record(Each("Text", {"source", "language"}), <<>>)

DomDesignerData == Record(<<>>, [property |-> List("DomProperty")])

\* ---- Widgets, layouts, items, actions and groups

DomWidget == Record(
    [native |-> "Bool"] @@ Each("Text", {"class", "name"}),
    [script |-> List("DomScript"), widgetdata |-> List("DomWidgetData"),
     row |-> List("DomRow"), column |-> List("DomColumn"), item |-> List("DomItem"),
     layout |-> List("DomLayout"), widget |-> List("DomWidget"),
     action |-> List("DomAction"), actiongroup |-> List("DomActionGroup"),
     addaction |-> List("DomActionRef")] @@ Each(List("Text"), {"class", "zorder"}) @@
     Each(List("DomProperty"), {"property", "attribute"}))

DomWidgetData == Record(<<>>, [property |-> List("DomProperty")])

DomRow == Record(<<>>, [property |-> List("DomProperty")])

DomColumn == Record(<<>>, [property |-> List("DomProperty")])

DomItem == Record(
    Each("Int", {"row", "column"}),
    [property |-> List("DomProperty"), item |-> List("DomItem")])

DomLayout == Record(
    Each("Text", {"class", "name", "stretch", "rowstretch", "columnstretch",
     "rowminimumheight", "columnminimumwidth"}),
    [item |-> List("DomLayoutItem")] @@ Each(List("DomProperty"), {"property",
     "attribute"}))

DomLayoutItem == Choice(
    [alignment |-> "Text"] @@ Each("Int", {"row", "column", "rowspan", "colspan"}),
    [widget |-> One("DomWidget"), layout |-> One("DomLayout"), spacer |-> One("DomSpacer")])

DomSpacer == Record([name |-> "Text"], [property |-> List("DomProperty")])

DomAction == Record(
    Each("Text", {"name", "menu"}),
    Each(List("DomProperty"), {"property", "attribute"}))

DomActionGroup == Record(
    [name |-> "Text"],
    [action |-> List("DomAction"), actiongroup |-> List("DomActionGroup")] @@
     Each(List("DomProperty"), {"property", "attribute"}))

DomActionRef == Record([name |-> "Text"], <<>>)

DomButtonGroups == Record(<<>>, [buttongroup |-> List("DomButtonGroup")])

DomButtonGroup == Record(
    [name |-> "Text"],
    Each(List("DomProperty"), {"property", "attribute"}))

\* ---- A property and the values it can have

DomProperty == Choice(
    [name |-> "Text", stdset |-> "Int"],
    [color |-> One("DomColor"), font |-> One("DomFont"), iconset |-> One("DomResourceIcon"),
     pixmap |-> One("DomResourcePixmap"), palette |-> One("DomPalette"),
     point |-> One("DomPoint"), rect |-> One("DomRect"), locale |-> One("DomLocale"),
     sizepolicy |-> One("DomSizePolicy"), size |-> One("DomSize"),
     string |-> One("DomString"), stringlist |-> One("DomStringList"),
     date |-> One("DomDate"), time |-> One("DomTime"), datetime |-> One("DomDateTime"),
     pointf |-> One("DomPointF"), rectf |-> One("DomRectF"), sizef |-> One("DomSizeF"),
     char |-> One("DomChar"), url |-> One("DomUrl"), brush |-> One("DomBrush")] @@
     Each(One("Text"), {"bool", "cstring", "cursorshape", "enum", "set"}) @@
     Each(One("Int"), {"cursor", "number", "longlong", "uint", "ulonglong"}) @@
     Each(One("Real"), {"float", "double"}))

DomColor == Record([alpha |-> "Int"], Each(One("Int"), {"red", "green", "blue"}))

DomGradientStop == Record([position |-> "Real"], [color |-> One("DomColor")])

DomGradient == Record(
    Each("Real", {"startx", "starty", "endx", "endy", "centralx", "centraly", "focalx",
     "focaly", "radius", "angle"}) @@ Each("Text", {"type", "spread", "coordinatemode"}),
    [gradientstop |-> List("DomGradientStop")])

DomBrush == Choice(
    [brushstyle |-> "Text"],
    [color |-> One("DomColor"), texture |-> One("DomProperty"),
     gradient |-> One("DomGradient")])

DomColorRole == Record([role |-> "Text"], [brush |-> One("DomBrush")])

DomColorGroup == Record(
    <<>>,
    [colorrole |-> List("DomColorRole"), color |-> List("DomColor")])

DomPalette == Record(<<>>, Each(One("DomColorGroup"), {"active", "inactive", "disabled"}))

DomFont == Record(
    <<>>,
    Each(One("Text"), {"family", "stylestrategy"}) @@ Each(One("Int"), {"pointsize",
     "weight"}) @@ Each(One("Bool"), {"italic", "bold", "underline", "strikeout",
     "antialiasing", "kerning"}))

DomPoint == Record(<<>>, Each(One("Int"), {"x", "y"}))

DomRect == Record(<<>>, Each(One("Int"), {"x", "y", "width", "height"}))

DomLocale == Record(Each("Text", {"language", "country"}), <<>>)

DomSizePolicy == Record(
    Each("Text", {"hsizetype", "vsizetype"}),
    Each(One("Int"), {"hsizetype", "vsizetype", "horstretch", "verstretch"}))

DomSize == Record(<<>>, Each(One("Int"), {"width", "height"}))

DomDate == Record(<<>>, Each(One("Int"), {"year", "month", "day"}))

DomTime == Record(<<>>, Each(One("Int"), {"hour", "minute", "second"}))

DomDateTime == Record(
    <<>>,
    Each(One("Int"), {"hour", "minute", "second", "year", "month", "day"}))

DomString == Record(Each("Text", {"notr", "comment", "extracomment"}), <<>>)

DomStringList == Record(
    Each("Text", {"notr", "comment", "extracomment"}),
    [string |-> List("Text")])

DomResourcePixmap == Record(Each("Text", {"resource", "alias"}), <<>>)

DomResourceIcon == Record(
    Each("Text", {"theme", "resource"}),
    Each(One("DomResourcePixmap"), {"normaloff", "normalon", "disabledoff", "disabledon",
     "activeoff", "activeon", "selectedoff", "selectedon"}))

DomPointF == Record(<<>>, Each(One("Real"), {"x", "y"}))

DomRectF == Record(<<>>, Each(One("Real"), {"x", "y", "width", "height"}))

DomSizeF == Record(<<>>, Each(One("Real"), {"width", "height"}))

DomChar == Record(<<>>, [unicode |-> One("Int")])

DomUrl == Record(<<>>, [string |-> One("DomString")])

\* The classes by name.
Schema ==
    [DomUI |-> DomUI, DomIncludes |-> DomIncludes, DomInclude |-> DomInclude,
     DomResources |-> DomResources, DomResource |-> DomResource, DomImages |-> DomImages,
     DomImage |-> DomImage, DomImageData |-> DomImageData,
     DomCustomWidgets |-> DomCustomWidgets, DomHeader |-> DomHeader,
     DomCustomWidget |-> DomCustomWidget, DomProperties |-> DomProperties,
     DomPropertyData |-> DomPropertyData, DomSizePolicyData |-> DomSizePolicyData,
     DomPropertySpecifications |-> DomPropertySpecifications,
     DomStringPropertySpecification |-> DomStringPropertySpecification,
     DomLayoutDefault |-> DomLayoutDefault, DomLayoutFunction |-> DomLayoutFunction,
     DomTabStops |-> DomTabStops, DomConnections |-> DomConnections,
     DomConnection |-> DomConnection, DomConnectionHints |-> DomConnectionHints,
     DomConnectionHint |-> DomConnectionHint, DomSlots |-> DomSlots,
     DomScript |-> DomScript, DomDesignerData |-> DomDesignerData, DomWidget |-> DomWidget,
     DomWidgetData |-> DomWidgetData, DomRow |-> DomRow, DomColumn |-> DomColumn,
     DomItem |-> DomItem, DomLayout |-> DomLayout, DomLayoutItem |-> DomLayoutItem,
     DomSpacer |-> DomSpacer, DomAction |-> DomAction, DomActionGroup |-> DomActionGroup,
     DomActionRef |-> DomActionRef, DomButtonGroups |-> DomButtonGroups,
     DomButtonGroup |-> DomButtonGroup, DomProperty |-> DomProperty, DomColor |-> DomColor,
     DomGradientStop |-> DomGradientStop, DomGradient |-> DomGradient,
     DomBrush |-> DomBrush, DomColorRole |-> DomColorRole, DomColorGroup |-> DomColorGroup,
     DomPalette |-> DomPalette, DomFont |-> DomFont, DomPoint |-> DomPoint,
     DomRect |-> DomRect, DomLocale |-> DomLocale, DomSizePolicy |-> DomSizePolicy,
     DomSize |-> DomSize, DomDate |-> DomDate, DomTime |-> DomTime,
     DomDateTime |-> DomDateTime, DomString |-> DomString, DomStringList |-> DomStringList,
     DomResourcePixmap |-> DomResourcePixmap, DomResourceIcon |-> DomResourceIcon,
     DomPointF |-> DomPointF, DomRectF |-> DomRectF, DomSizeF |-> DomSizeF,
     DomChar |-> DomChar, DomUrl |-> DomUrl]
=============================================================================
