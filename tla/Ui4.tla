-------------------------------- MODULE Ui4 --------------------------------
(***************************************************************************)
(* Reading a form: Uic::parseUiFile, what the read(), setters, destructors *)
(* and write() of the classes of ui4.cpp do with the tables of DomSchema,  *)
(* and the two version checks of uic.cpp.                                  *)
(*                                                                         *)
(* The document is a sequence of XML tokens; QXmlStreamReader is external: *)
(* it hands out the next one, refuses an attribute named twice and the end *)
(* of the input inside an element, and keeps its error.  heap is the       *)
(* objects new'ed and not deleted, reading the calls of read() and         *)
(* readElementText that run.  An action is one token, the return of a call *)
(* into its caller, or one destructor, whose members are doomed next.      *)
(***************************************************************************)
EXTENDS DomSchema, Integers, SequencesExt

CONSTANTS
    Forms,   \* the documents: sequences of tokens
    NULL     \* the null pointer

ASSUME FormsAssumption == NULL \notin Nat /\ \A f \in Forms : Len(f) \in Nat

VARIABLES
    form,     \* the tokens of the document
    taken,    \* how many of them the reader has handed out
    error,    \* reader.hasError()
    heap,     \* live Dom objects, by id
    news,     \* number of objects ever made; ids are given in that order
    reading,  \* the running calls, innermost last
    doomed,   \* objects whose destructor runs next
    ui,       \* DomUI *
    phase,    \* "parse", "accepted", "refused", "done"
    saved     \* the document is what write() made of the form read before

readerVars == <<form, taken, error, heap, news, reading, doomed, ui, phase, saved>>

Start(tag, attributes) == [kind |-> "start", tag |-> tag, attributes |-> attributes]
End == [kind |-> "end"]
Characters(s) == [kind |-> "characters", text |-> s]
Blank == " "

\* attributes are a sequence of <<name, value>>.
Names(attributes) == {attributes[i][1] : i \in DOMAIN attributes}
ValueOf(attributes, name) ==
    attributes[CHOOSE i \in DOMAIN attributes : attributes[i][1] = name][2]
Redefined(token) == /\ token.kind = "start"
                    /\ Cardinality(Names(token.attributes)) < Len(token.attributes)

\* Mutant: a real number is read with toInt.
Convert_realAsInt(type, s) ==
    CASE type = "Text" -> s
      [] type = "Int"  -> IF s \in {"1", "-1"} THEN s ELSE "0"
      [] type = "Real" -> IF s = "1" THEN "1.0" ELSE "0.0"
      [] type = "Bool" -> IF s = "true" THEN s ELSE "false"

(* toInt and toDouble answer 0 for what is not a number, and write prints  *)
(* a number in its own form; every version but 4.0 stands for an older one.*)
Convert(type, s) ==
    CASE type = "Text" -> s
      [] type = "Int"  -> IF s \in {"1", "-1"} THEN s ELSE "0"
      [] type = "Real" -> IF s \in {"1", "1.0"} THEN "1.0" ELSE "0.0"
      [] type = "Bool" -> IF s = "true" THEN s ELSE "false"
TooOld(version) == version # "4.0"

Live == DOMAIN heap
Class(n) == Schema[heap[n].class]
ObjectTags(class) == {t \in DOMAIN Schema[class].children : IsObject(Schema[class].children[t])}
TextTags(class) == DOMAIN Schema[class].children \ ObjectTags(class)

\* The constructor and the loop over reader.attributes() at the head of read().
New(class, attributes) ==
    [class |-> class,
     attributes |-> [a \in Names(attributes) \cap DOMAIN Schema[class].attributes |->
                        Convert(Schema[class].attributes[a], ValueOf(attributes, a))],
     objects |-> [t \in ObjectTags(class) |-> <<>>],
     texts |-> [t \in TextTags(class) |-> <<>>],
     text |-> ""]
Unexpected(class, attributes) == ~(Names(attributes) \subseteq DOMAIN Schema[class].attributes)

\* What an object owns through its pointers and lists.
Members(object) ==
    UNION {{object.objects[t][i] : i \in DOMAIN object.objects[t]} : t \in DOMAIN object.objects}

\* Mutant: a setter of a choice does not call clear(false).
Cleared_keepsOthers(n, tag) ==
    IF Class(n).children[tag].list THEN heap[n]
    ELSE IF tag \in ObjectTags(heap[n].class) THEN [heap[n] EXCEPT !.objects[tag] = <<>>]
    ELSE [heap[n] EXCEPT !.texts[tag] = <<>>]

(* The object as its setter for tag leaves it before it takes the new      *)
(* value: clear(false), delete of the old value, or a list as it was.      *)
Cleared(n, tag) ==
    LET drops(t) == Class(n).choice \/ (t = tag /\ ~Class(n).children[tag].list)
    IN  [heap[n] EXCEPT
            !.objects = [t \in DOMAIN heap[n].objects |->
                            IF drops(t) THEN <<>> ELSE heap[n].objects[t]],
            !.texts = [t \in DOMAIN heap[n].texts |->
                            IF drops(t) THEN <<>> ELSE heap[n].texts[t]]]

----------------------------------------------------------------------------
\* A call of read() for an object made for tag; a call of readElementText for tag.
Read(n, tag) == [node |-> n, tag |-> tag, chars |-> ""]
ReadElementText(tag) == Read(NULL, tag)

Top == reading[Len(reading)]
Callers == SubSeq(reading, 1, Len(reading) - 1)
Token == form[taken + 1]

Parsing == phase = "parse" /\ doomed = {}
HasToken == Parsing /\ ~error /\ taken < Len(form) /\ ~Redefined(Token)
Inside(kind) == HasToken /\ reading # <<>> /\ Token.kind = kind
InObject(kind) == Inside(kind) /\ Top.node # NULL
Take == taken' = taken + 1 /\ UNCHANGED <<form, ui, phase, saved>>

\* new, and the call of its read(), which does not loop when an attribute was wrong.
Make(class, tag) ==
    /\ news' = news + 1
    /\ heap' = [n \in Live \cup {news + 1} |->
                  IF n = news + 1 THEN New(class, Token.attributes) ELSE heap[n]]
    /\ reading' = Append(reading, Read(news + 1, tag))
    /\ error' = Unexpected(class, Token.attributes)
    /\ UNCHANGED doomed

RaiseError == error' = TRUE /\ UNCHANGED <<heap, news, reading, doomed>>

\* QXmlStreamReader's own errors.
NotWellFormed ==
    /\ Parsing /\ ~error
    /\ \/ taken < Len(form) /\ Redefined(Token)
       \/ taken = Len(form) /\ (reading # <<>> \/ ui = NULL)
    /\ RaiseError
    /\ UNCHANGED <<form, taken, ui, phase, saved>>

\* The loop of parseUiFile; versionFromUiAttribute lets a form without a version pass.
AtUi == HasToken /\ reading = <<>> /\ Token.kind = "start" /\ Token.tag = "ui" /\ ui = NULL
OldUi == "version" \in Names(Token.attributes) /\ TooOld(ValueOf(Token.attributes, "version"))

ReadUi == AtUi /\ ~OldUi /\ Make("DomUI", "ui") /\ Take

RefuseOldUi ==
    /\ AtUi /\ OldUi
    /\ phase' = "refused" /\ taken' = taken + 1
    /\ UNCHANGED <<form, error, heap, news, reading, doomed, ui, saved>>

UnexpectedRoot ==
    /\ HasToken /\ reading = <<>> /\ ~AtUi
    /\ RaiseError /\ Take

\* StartElement in the loop of read().
ReadObject ==
    /\ InObject("start") /\ Token.tag \in ObjectTags(heap[Top.node].class)
    /\ Make(Class(Top.node).children[Token.tag].type, Token.tag)
    /\ Take

ReadText ==
    /\ InObject("start") /\ Token.tag \in TextTags(heap[Top.node].class)
    /\ reading' = Append(reading, ReadElementText(Token.tag))
    /\ UNCHANGED <<error, heap, news, doomed>>
    /\ Take

\* A tag the class does not take; any element inside readElementText.
UnexpectedElement ==
    /\ Inside("start")
    /\ Top.node # NULL => Token.tag \notin DOMAIN Class(Top.node).children
    /\ RaiseError /\ Take

\* Text of an object is appended to m_text unless blank; readElementText keeps all.
ReadCharacters ==
    /\ Inside("characters")
    /\ IF Top.node = NULL
       THEN /\ reading' = Append(Callers, [Top EXCEPT !.chars = @ \o Token.text])
            /\ UNCHANGED heap
       ELSE /\ heap' = IF Token.text = Blank THEN heap
                       ELSE [heap EXCEPT ![Top.node].text = @ \o Token.text]
            /\ UNCHANGED reading
    /\ UNCHANGED <<error, news, doomed>>
    /\ Take

(* A read() returns: its object goes to the setter or list of the caller's *)
(* object, after an error as well; a text goes there converted.            *)
Caller == Callers[Len(Callers)].node
Given ==
    IF Top.node # NULL
    THEN [Cleared(Caller, Top.tag) EXCEPT !.objects[Top.tag] = Append(@, Top.node)]
    ELSE [Cleared(Caller, Top.tag) EXCEPT !.texts[Top.tag] =
             Append(@, Convert(Class(Caller).children[Top.tag].type, Top.chars))]

\* Mutant: a setter does not delete the value it replaces.
Return_keepsReplaced ==
    /\ reading' = Callers
    /\ IF Callers = <<>> THEN ui' = Top.node /\ UNCHANGED heap
       ELSE heap' = [heap EXCEPT ![Caller] = Given] /\ UNCHANGED ui
    /\ UNCHANGED <<form, error, news, doomed, phase, saved>>

Return ==
    /\ reading' = Callers
    /\ IF Callers = <<>>
       THEN ui' = Top.node /\ UNCHANGED <<heap, doomed>>
       ELSE /\ heap' = [heap EXCEPT ![Caller] = Given]
            /\ doomed' = Members(heap[Caller]) \ Members(Cleared(Caller, Top.tag))
            /\ UNCHANGED ui
    /\ UNCHANGED <<form, error, news, phase, saved>>

EndElement == Inside("end") /\ Return /\ taken' = taken + 1

ReturnOnError == Parsing /\ error /\ reading # <<>> /\ Return /\ UNCHANGED taken

\* parseUiFile gives the form back, or deletes it.
ParseFailed ==
    /\ Parsing /\ reading = <<>> /\ error
    /\ phase' = "refused" /\ ui' = NULL /\ doomed' = {ui} \ {NULL}
    /\ UNCHANGED <<form, taken, error, heap, news, reading, saved>>

\* Uic::write asks for the version again: none is 0 here.
Parsed ==
    /\ Parsing /\ reading = <<>> /\ ~error /\ taken = Len(form) /\ ui # NULL
    /\ IF "version" \in DOMAIN heap[ui].attributes
       THEN phase' = "accepted" /\ UNCHANGED <<ui, doomed>>
       ELSE phase' = "refused" /\ ui' = NULL /\ doomed' = {ui}
    /\ UNCHANGED <<form, taken, error, heap, news, reading, saved>>

\* A destructor deletes what its pointers and lists hold.
Destroy ==
    /\ doomed # {}
    /\ LET n == CHOOSE d \in doomed : TRUE
       IN  /\ heap' = [m \in Live \ {n} |-> heap[m]]
           /\ doomed' = (doomed \ {n}) \cup Members(heap[n])
    /\ UNCHANGED <<form, taken, error, news, reading, ui, phase, saved>>

\* Mutant: the pointer to the deleted form is kept.
DeleteUi_dangling ==
    /\ phase = "accepted" /\ doomed = {}
    /\ phase' = "done" /\ doomed' = {ui}
    /\ UNCHANGED <<form, taken, error, heap, news, reading, ui, saved>>

\* delete ui, at the end of Uic::write.
DeleteUi ==
    /\ phase = "accepted" /\ doomed = {}
    /\ phase' = "done" /\ ui' = NULL /\ doomed' = {ui}
    /\ UNCHANGED <<form, taken, error, heap, news, reading, saved>>

----------------------------------------------------------------------------
(* The write() of the classes, from the form down.  A member's tag, an     *)
(* attribute's name and a text are written as they were read, but for one: *)
(* DomUI::write gives stdSetDef the name of the other attribute.           *)
Listed(S) == FoldSet(LAMBDA x, s : Append(s, x), <<>>, S)
Joined(seqs) == FoldLeft(LAMBDA s, t : s \o t, <<>>, seqs)
Element(tag, attributes, content) == <<Start(tag, attributes)>> \o content \o <<End>>
AttributeName(name) == IF name = "stdSetDef" THEN "stdsetdef" ELSE name

Attributes(n) ==
    LET names == Listed(DOMAIN heap[n].attributes)
    IN  [i \in DOMAIN names |-> <<AttributeName(names[i]), heap[n].attributes[names[i]]>>]
Texts(n) ==
    LET tags == Listed(DOMAIN heap[n].texts)
        written(t) == [i \in DOMAIN heap[n].texts[t] |->
                          Element(t, <<>>, IF heap[n].texts[t][i] = "" THEN <<>>
                                           ELSE <<Characters(heap[n].texts[t][i])>>)]
    IN  Joined([i \in DOMAIN tags |-> Joined(written(tags[i]))])

\* Members are made after the object that holds them, so their ids are greater.
Content[n \in Nat] ==
    LET tags == Listed(DOMAIN heap[n].objects)
        written(t) == [i \in DOMAIN heap[n].objects[t] |->
                          Element(t, Attributes(heap[n].objects[t][i]),
                                  Content[heap[n].objects[t][i]])]
    IN  Texts(n) \o Joined([i \in DOMAIN tags |-> Joined(written(tags[i]))])
          \o (IF heap[n].text = "" THEN <<>> ELSE <<Characters(heap[n].text)>>)
Written == Element("ui", Attributes(ui), Content[ui])

\* A form written by the same classes (Designer links them too) and read again.
Save ==
    /\ phase = "accepted" /\ doomed = {} /\ ~saved
    /\ form' = Written /\ taken' = 0 /\ saved' = TRUE
    /\ phase' = "parse" /\ ui' = NULL /\ doomed' = {ui}
    /\ UNCHANGED <<error, heap, news, reading>>

----------------------------------------------------------------------------
ReaderInit ==
    /\ form \in Forms
    /\ taken = 0 /\ error = FALSE
    /\ heap = [n \in {} |-> NULL] /\ news = 0
    /\ reading = <<>> /\ doomed = {} /\ ui = NULL
    /\ phase = "parse" /\ saved = FALSE

ReaderNext ==
    \/ NotWellFormed \/ ReadUi \/ RefuseOldUi \/ UnexpectedRoot
    \/ ReadObject \/ ReadText \/ UnexpectedElement \/ ReadCharacters
    \/ EndElement \/ ReturnOnError \/ ParseFailed \/ Parsed
    \/ Destroy

ReaderSpec == ReaderInit /\ [][ReaderNext \/ Save \/ DeleteUi]_readerVars
----------------------------------------------------------------------------
ReaderTypeOK ==
    /\ taken \in 0 .. Len(form)
    /\ error \in BOOLEAN
    /\ saved \in BOOLEAN
    /\ phase \in {"parse", "accepted", "refused", "done"}
    /\ news \in Nat
    /\ Live \subseteq 1 .. news
    /\ ui \in Live \cup {NULL}

(* Every live object is held in one place, and every place holds a live    *)
(* object: an entry of a member of a live object, the call of read() that  *)
(* fills it, the pointer ui, or the set of those to be deleted.  So no     *)
(* object is leaked, deleted twice or used after, on the error paths too.  *)
Places ==
    (UNION {UNION {{<<"member", n, t, i>> : i \in DOMAIN heap[n].objects[t]} :
                      t \in DOMAIN heap[n].objects} : n \in Live})
    \cup {<<"read", i>> : i \in {j \in DOMAIN reading : reading[j].node # NULL}}
    \cup {<<"form", n>> : n \in {ui} \ {NULL}}
    \cup {<<"delete", n>> : n \in doomed}
At(p) == CASE p[1] = "member" -> heap[p[2]].objects[p[3]][p[4]]
           [] p[1] = "read"   -> reading[p[2]].node
           [] OTHER           -> p[2]
OwnedOnce ==
    /\ {At(p) : p \in Places} = Live
    /\ Cardinality(Places) = Cardinality(Live)

(* What the document says, told from its tokens alone: the elements        *)
(* directly inside the one that starts at i.                               *)
Depth(i) == Cardinality({j \in 1 .. i : form[j].kind = "start"})
            - Cardinality({j \in 1 .. i - 1 : form[j].kind = "end"})
EndOf(i) == Min({j \in i .. Len(form) : form[j].kind = "end" /\ Depth(j) = Depth(i)})
Within(i) == {j \in i + 1 .. EndOf(i) - 1 : form[j].kind = "start" /\ Depth(j) = Depth(i) + 1}
Positions(S) == SetToSortSeq(S, <)
TextOf(i, skipped) ==
    FoldLeft(LAMBDA s, j : s \o form[j].text, "",
             Positions({j \in i .. EndOf(i) : /\ form[j].kind = "characters" /\ Depth(j) = Depth(i)
                                              /\ form[j].text \notin skipped}))
Kept(i, class, tag) ==
    LET all == {j \in Within(i) : form[j].tag = tag}
    IN  Positions(CASE Schema[class].choice -> all \cap {j \in all : j = Max(Within(i))}
                    [] Schema[class].children[tag].list -> all
                    [] OTHER -> {j \in all : j = Max(all)})
Meaning[i \in Nat, class \in DOMAIN Schema] ==
    LET child(t) == Schema[class].children[t]
        kept(t) == Kept(i, class, t)
    IN  [New(class, form[i].attributes) EXCEPT
            !.objects = [t \in DOMAIN @ |->
                [k \in DOMAIN kept(t) |-> Meaning[kept(t)[k], child(t).type]]],
            !.texts = [t \in DOMAIN @ |->
                [k \in DOMAIN kept(t) |-> Convert(child(t).type, TextOf(kept(t)[k], {}))]],
            !.text = TextOf(i, {Blank})]
Tree[n \in Nat] ==
    [heap[n] EXCEPT !.objects = [t \in DOMAIN @ |-> [k \in DOMAIN @[t] |-> Tree[@[t][k]]]]]

\* A form that can be read: complete, with known tags and attributes all the way down.
Correct[i \in Nat, class \in DOMAIN Schema] ==
    /\ ~Unexpected(class, form[i].attributes) /\ ~Redefined(form[i])
    /\ \A j \in Within(i) :
        /\ form[j].tag \in DOMAIN Schema[class].children
        /\ IF form[j].tag \in ObjectTags(class)
           THEN Correct[j, Schema[class].children[form[j].tag].type]
           ELSE Within(j) = {} /\ ~Redefined(form[j])
CorrectForm ==
    /\ Depth(Len(form)) = 1 /\ form[Len(form)].kind = "end"
    /\ form[1].tag = "ui" /\ Correct[1, "DomUI"]
    /\ "version" \in Names(form[1].attributes)
    /\ ~TooOld(ValueOf(form[1].attributes, "version"))

(* A form is accepted exactly when it is correct, and what was read is     *)
(* then what it says: a list holds every element of its tag in document    *)
(* order, a single member the last one, a choice the last of any tag.      *)
Ends(how) == phase = "parse" /\ phase' = how
ReadsTheForm ==
    [][/\ Ends("refused") => ~CorrectForm
       /\ Ends("accepted") => CorrectForm /\ Tree[ui] = Meaning[1, "DomUI"]]_readerVars

(* A form that was saved reads again, and saving it once more writes the   *)
(* same.  Not so when it has both stdsetdef and stdSetDef: write gives     *)
(* both the same name.                                                     *)
SavedReadsBack ==
    [][saved => /\ Ends("accepted") => Written = form
                /\ Ends("refused") => Redefined(form[1])]_readerVars
=============================================================================
