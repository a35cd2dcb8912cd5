-------------------------------- MODULE Rcc --------------------------------
(***************************************************************************)
(* The tool rbrcc (rcc.cpp and main.cpp): it reads collection files (.qrc) *)
(* into a tree of RCCFileInfo, and writes the data of the files, their     *)
(* names and the structure of the tree, in one go or in two passes of two  *)
(* processes.                                                              *)
(*                                                                         *)
(* A path is the sequence of its names; a file of the disk is told by its  *)
(* size and its size when compressed, a directory by everything below it,  *)
(* a special file by the files and directories of its name that lie below  *)
(* its own directory.                                                      *)
(* The bytes of a file and of its length are told by the file, whether it  *)
(* is compressed, and their place; other bytes are one character.          *)
(* A QHash is gone through in an order that differs from process to        *)
(* process (its seed is random): newest first among equal keys, otherwise  *)
(* as the seed says.  Sorting the children leaves those of one name in     *)
(* that order, which std::sort need not do; no property says which is the  *)
(* first.  The XML reader hands out tokens and refuses a        *)
(* document that ends too early; the compiler that makes an object file of *)
(* the first pass's output is external.                                    *)
(***************************************************************************)
EXTENDS Integers, SequencesExt

CONSTANTS
    Commands,  \* [inputs, format, list, root, level, threshold]
    Disk,      \* path -> [kind, size, packed, below]
    Locales,   \* value of lang -> <<language, country>>
    Hash,      \* name -> qt_hash
    Seeds,     \* orders of the keys of a QHash: name -> place
    Faults,    \* sets of files that cannot be opened
    Objects    \* <<bytes before, bytes after>> the data in an object file

FileNames == DOMAIN Hash
CLocale == <<"C", "AnyCountry">>
ASSUME NameAssumption ==
    /\ {"", ".", ".."} \subseteq FileNames
    /\ \A n \in FileNames : Hash[n] \in Int /\ Len(n) \in Nat
    /\ \A s \in Seeds :
          /\ \A n \in FileNames : s[n] \in Int
          /\ \A m, n \in FileNames : s[m] = s[n] => m = n
ASSUME DiskAssumption ==
    \A p \in DOMAIN Disk :
        /\ p \in Seq(FileNames) /\ p # <<>>
        /\ Disk[p].kind \in {"file", "huge", "directory", "special"}
        /\ Disk[p].size \in Nat /\ Disk[p].packed \in Nat
        /\ Disk[p].below \in Seq({q \in DOMAIN Disk : Disk[q].kind # "special"})

\* What the options and the attributes of a document can be; a text, split at its slashes,
\* has a piece at least.
IsAttribute(a, v) ==
    /\ a \in {"prefix", "alias"} => v \in Seq(FileNames)
    /\ a = "alias" => v # <<>>
    /\ a = "lang" => v \in DOMAIN Locales
    /\ a \in {"compress", "threshold"} => v \in Int
IsToken(t) ==
    /\ t.kind = "start" => \A a \in DOMAIN t.attributes : IsAttribute(a, t.attributes[a])
    /\ t.kind = "characters" => t.text \in Seq(FileNames)
ASSUME CommandAssumption ==
    \A c \in Commands :
        /\ DOMAIN c = {"inputs", "format", "list", "root", "level", "threshold"}
        /\ c.format \in {"C_Code", "Binary", "Pass1"} /\ c.list \in BOOLEAN
        /\ c.root \in Seq(FileNames) /\ c.level \in Int /\ c.threshold \in Int
        /\ c.inputs \in Seq(Range(c.inputs))
        /\ \A doc \in Range(c.inputs) :
              doc \in Seq(Range(doc)) /\ \A t \in Range(doc) : IsToken(t)

ASSUME ObjectAssumption ==
    \A o \in Objects : o[1] \in Seq(Range(o[1])) /\ o[2] \in Seq(Range(o[2]))

VARIABLES
    command,         \* the options and the documents of this process
    seed,            \* the order of keys in the first process and in the second
    unreadable,      \* files that exist but cannot be opened
    stage,           \* the function that runs, or how the process ended
    input, at,       \* document, and tokens of it taken
    tags,            \* tokens: the open elements
    resource,        \* prefix and locale
    entry,           \* alias, compressLevel, compressThreshold
    iterator,        \* what the QDirIterator of a directory has still to return
    nodes,           \* the RCCFileInfo's, m_root first
    failedResources, \* m_failedResources
    pending, todo,   \* directories still to go through; children left of this one
    offset,
    image,           \* what is written: names, structure, data; or the list
    temp, position,  \* the temporary file of the second pass
    matched,         \* bytes of the signature seen
    foundSignature,
    output           \* bytes the second pass has written

readVars == <<input, at, tags, resource, entry, iterator, nodes, failedResources>>
passVars == <<temp, position, matched, foundSignature, output>>
processVars == <<command, seed, unreadable>>
rccVars == <<processVars, stage, readVars, pending, todo, offset, image, passVars>>

Ended == {"written", "failed"}
NoAlias == <<>>

Document == command.inputs[input]
RccToken == Document[at + 1]
TopTag == IF tags = <<>> THEN "" ELSE Last(tags)
HasAttribute(attribute) == attribute \in DOMAIN RccToken.attributes

----------------------------------------------------------------------------
(* Paths and the tree.                                                     *)

\* QDir::cleanPath, and the loop that removes ../ in front.
CleanPath(path) ==
    LET next(r, s) == CASE s = "." -> r
                        [] s = ".." /\ r # <<>> /\ Last(r) # ".." -> Front(r)
                        [] OTHER -> Append(r, s)
        clean == FoldLeft(next, <<>>, path)
    IN  IF clean = <<>> THEN <<".">> ELSE clean
WithoutParents(path) ==
    LET next(r, s) == IF s = ".." THEN r ELSE Append(r, s)
        rest == FoldLeft(next, <<>>, path)
    IN  IF rest = <<>> THEN <<"..">> ELSE rest
Alias(path) == command.root \o resource.prefix \o WithoutParents(CleanPath(path))

RCCFileInfo(name, file, isDirectory, locale, level, threshold) ==
    [name |-> name, file |-> file, directory |-> isDirectory, compressed |-> FALSE,
     locale |-> locale, level |-> level, threshold |-> threshold,
     children |-> <<>>, nameOffset |-> 0, dataOffset |-> 0, childOffset |-> 0]
ImpliedDirectory(name) == RCCFileInfo(name, <<>>, TRUE, CLocale, -1, 70)

Insert(tree, parent, info) ==
    Append([tree EXCEPT ![parent].children = Append(@, Len(tree) + 1)], info)
ChildrenCalled(tree, parent, name) == {c \in Range(tree[parent].children) : tree[c].name = name}

\* addFile: into the newest child of each name on the way, which is made when there is none.
AddFile(tree, alias, info) ==
    LET enter(r, name) ==
            IF ChildrenCalled(r.tree, r.parent, name) # {}
            THEN [r EXCEPT !.parent = Max(ChildrenCalled(r.tree, r.parent, name))]
            ELSE [tree |-> Insert(r.tree, r.parent, ImpliedDirectory(name)),
                  parent |-> Len(r.tree) + 1]
        start == [tree |-> IF tree = <<>> THEN <<ImpliedDirectory("")>> ELSE tree, parent |-> 1]
        end == FoldLeft(enter, start, Front(alias))
    IN  Insert(end.tree, end.parent, info)

----------------------------------------------------------------------------
(* interpretResourceFile, token by token.                                  *)
Interpreting == stage = "interpretResourceFile" /\ input <= Len(command.inputs)
Gets(kind) == Interpreting /\ iterator = <<>> /\ at < Len(Document) /\ RccToken.kind = kind
Took ==
    /\ at' = at + 1
    /\ UNCHANGED <<input, iterator, processVars, stage, pending, todo, offset, image, passVars>>
NoEntry == [alias |-> NoAlias, level |-> command.level, threshold |-> command.threshold]

Expected(tag) ==
    \/ tag = "RCC" /\ tags = <<>>
    \/ tag = "qresource" /\ TopTag = "RCC"
    \/ tag = "file" /\ TopTag = "qresource"
StartRcc ==
    /\ Gets("start") /\ RccToken.tag = "RCC" /\ Expected("RCC")
    /\ tags' = Append(tags, "RCC")
    /\ UNCHANGED <<resource, entry, nodes, failedResources>> /\ Took

StartResource ==
    /\ Gets("start") /\ RccToken.tag = "qresource" /\ Expected("qresource")
    /\ tags' = Append(tags, "qresource")
    /\ resource' = [prefix |-> IF HasAttribute("prefix") THEN RccToken.attributes.prefix ELSE <<>>,
                    locale |-> IF HasAttribute("lang") THEN Locales[RccToken.attributes.lang] ELSE CLocale]
    /\ UNCHANGED <<entry, nodes, failedResources>> /\ Took

\* -no-compress, level -2, overrides the file's own.
StartFile ==
    /\ Gets("start") /\ RccToken.tag = "file" /\ Expected("file")
    /\ tags' = Append(tags, "file")
    /\ LET value(a, default) == IF HasAttribute(a) THEN RccToken.attributes[a] ELSE default
       IN  entry' = [alias |-> value("alias", NoAlias),
                     level |-> IF command.level = -2 THEN 0 ELSE value("compress", command.level),
                     threshold |-> value("threshold", command.threshold)]
    /\ UNCHANGED <<resource, nodes, failedResources>> /\ Took

EndTag ==
    /\ Gets("end")
    /\ tags' = Front(tags)
    /\ UNCHANGED <<resource, entry, nodes, failedResources>> /\ Took

\* What is gone through with an iterator, and what its files are called by.  A special file
\* leads to those of its own name, and an alias that ends with the name loses it; names being
\* whole here, ends means is the last, and an alias of nothing else is none for the next piece.
Iterable(file) == file \in DOMAIN Disk /\ Disk[file].kind \in {"directory", "special"}
Stem(alias, file) ==
    IF file \in DOMAIN Disk /\ Disk[file].kind = "special" /\ Last(alias) = Last(file)
    THEN Front(alias) ELSE alias

(* The text of <file>.  An alias, once it stands, is taken for every piece *)
(* of the text there is, and gets the prefix each time.                    *)
AddText ==
    /\ Gets("characters") /\ TopTag = "file"
    /\ LET file == RccToken.text
           alias == Alias(IF entry.alias = NoAlias THEN file ELSE entry.alias)
       IN  /\ entry' = [entry EXCEPT !.alias = Stem(alias, file)]
           /\ CASE file \notin DOMAIN Disk ->
                       UNCHANGED nodes /\ failedResources' = Append(failedResources, file)
                [] file \in DOMAIN Disk /\ Disk[file].kind = "huge" ->
                       UNCHANGED nodes /\ failedResources' = Append(failedResources, file)
                [] file \in DOMAIN Disk /\ Disk[file].kind = "file" ->
                       /\ nodes' = AddFile(nodes, alias,
                                     RCCFileInfo(Last(alias), file, FALSE,
                                                 resource.locale, entry.level, entry.threshold))
                       /\ UNCHANGED failedResources
                [] Iterable(file) -> UNCHANGED <<nodes, failedResources>>
           /\ iterator' = IF Iterable(file) THEN Disk[file].below ELSE <<>>
           /\ stage' = IF file \notin DOMAIN Disk /\ ~command.list THEN "failed" ELSE stage
    /\ at' = at + 1
    /\ UNCHANGED <<input, tags, resource, processVars, pending, todo, offset, image, passVars>>

\* One file or directory the iterator returns, under the alias of what it goes through.
AddFound ==
    /\ Interpreting /\ iterator # <<>>
    /\ LET child == Head(iterator)
           info == RCCFileInfo(Last(child), child, Disk[child].kind = "directory",
                               resource.locale, entry.level, entry.threshold)
       IN  IF Disk[child].kind = "huge"
           THEN failedResources' = Append(failedResources, <<Last(child)>>) /\ UNCHANGED nodes
           ELSE nodes' = AddFile(nodes, Append(entry.alias, Last(child)), info)
                /\ UNCHANGED failedResources
    /\ iterator' = Tail(iterator)
    /\ UNCHANGED <<input, at, tags, resource, entry, processVars, stage, pending, todo, offset, image,
                   passVars>>

Blanks ==
    /\ Gets("blank")
    /\ UNCHANGED <<tags, resource, entry, nodes, failedResources>> /\ Took

NextInput ==
    /\ input' = input + 1 /\ at' = 0 /\ tags' = <<>>
    /\ resource' = [prefix |-> <<>>, locale |-> CLocale] /\ entry' = NoEntry
    /\ UNCHANGED <<iterator, failedResources>>

\* An error of the reader or raised by the loop: with -list it is as good as the end.
ParseError ==
    /\ Interpreting /\ iterator = <<>>
    /\ \/ at = Len(Document) /\ (tags # <<>> \/ at = 0)
       \/ Gets("start") /\ ~Expected(RccToken.tag)
       \/ Gets("characters") /\ TopTag # "file"
    /\ IF command.list THEN NextInput /\ UNCHANGED <<stage, nodes>>
       ELSE stage' = "failed" /\ UNCHANGED readVars
    /\ UNCHANGED <<processVars, pending, todo, offset, image, passVars>>

\* A binary resource without a file gets a root all the same.
EndDocument ==
    /\ Interpreting /\ iterator = <<>> /\ at = Len(Document) /\ at > 0 /\ tags = <<>>
    /\ nodes' = IF nodes = <<>> /\ ~command.list /\ command.format = "Binary"
                THEN <<ImpliedDirectory("")>> ELSE nodes
    /\ NextInput
    /\ UNCHANGED <<stage, processVars, pending, todo, offset, image, passVars>>

----------------------------------------------------------------------------
(* The four traversals of the tree: a stack of directories, and the        *)
(* children of one of them in the order of its QHash or of their hashes.   *)
Walks == <<"writeDataBlobs", "writeDataNames", "childOffsets", "writeDataInfo">>
Walking(walk) == stage = walk /\ todo # <<>>
Visiting == nodes[Head(todo)]
Order == seed[IF command.format = "Pass2" THEN 2 ELSE 1]

Before(a, b) ==
    \/ Order[nodes[a].name] < Order[nodes[b].name]
    \/ nodes[a].name = nodes[b].name /\ a > b
\* Sequences of nodes in an order that is total on them.
InOrderOf(ns, Precedes(_, _)) ==
    LET before(n) == Cardinality({m \in Range(ns) : Precedes(m, n)})
    IN  [i \in DOMAIN ns |-> CHOOSE n \in Range(ns) : before(n) = i - 1]
Iterated(children) == InOrderOf(children, Before)
qt_rcc_compare_hash(a, b) ==
    \/ Hash[nodes[a].name] < Hash[nodes[b].name]
    \/ Hash[nodes[a].name] = Hash[nodes[b].name] /\ Before(a, b)
\* Mutant: the children are not sorted.
SortedByHash_asIterated(children) == Iterated(children)
SortedByHash(children) == InOrderOf(children, qt_rcc_compare_hash)

Root == IF nodes = <<>> THEN <<>> ELSE <<1>>
Visited ==
    /\ todo' = Tail(todo)
    /\ pending' = IF Visiting.directory THEN Append(pending, Head(todo)) ELSE pending
    /\ UNCHANGED <<processVars, input, at, tags, resource, entry, iterator, failedResources>>

Descend ==
    /\ stage \in Range(Walks) /\ todo = <<>> /\ pending # <<>>
    /\ LET children == nodes[Last(pending)].children
       IN  todo' = IF stage \in {"writeDataBlobs", "writeDataNames"}
                   THEN Iterated(children) ELSE SortedByHash(children)
    /\ pending' = Front(pending)
    /\ nodes' = IF stage = "childOffsets"
                THEN [nodes EXCEPT ![Last(pending)].childOffset = offset] ELSE nodes
    /\ UNCHANGED <<processVars, stage, input, at, tags, resource, entry, iterator, failedResources, offset,
                   image, passVars>>

Size(file, compressed) == IF compressed THEN Disk[file].packed ELSE Disk[file].size
Blob(file, compressed) ==
    [i \in 1 .. 4 + Size(file, compressed) |-> <<file, compressed, i>>]
\* int(100.0 * (size - packed) / size), cut off towards zero.
CompressRatio(file) ==
    LET size == Disk[file].size
        saved == size - Disk[file].packed
    IN  IF saved >= 0 THEN (100 * saved) \div size ELSE -((100 * (0 - saved)) \div size)
Compresses(info) ==
    info.level # 0 /\ Disk[info.file].size # 0 /\ CompressRatio(info.file) >= info.threshold

\* Mutant: the signature is skipped and the data too.
SeekBehindData_twice ==
    /\ stage' = "scan" /\ pending' = <<>> /\ todo' = <<>>
    /\ position' = position + offset /\ foundSignature' = TRUE
    /\ UNCHANGED <<temp, matched, output>>
\* The second pass forgets that the data could not all be written: it goes on as after the last.
SeekBehindData ==
    /\ stage' = "scan" /\ pending' = <<>> /\ todo' = <<>>
    /\ position' = position + offset - 8 /\ foundSignature' = TRUE
    /\ UNCHANGED <<temp, matched, output>>

WriteDataBlob ==
    /\ Walking("writeDataBlobs") /\ ~Visiting.directory /\ Visiting.file \notin unreadable
    /\ LET blob == Blob(Visiting.file, Compresses(Visiting))
       IN  /\ nodes' = [nodes EXCEPT ![Head(todo)].dataOffset = offset,
                                     ![Head(todo)].compressed = Compresses(Visiting)]
           /\ offset' = offset + Len(blob)
           /\ image' = IF command.format \in {"C_Code", "Binary"}
                       THEN [image EXCEPT !.data = @ \o blob] ELSE image
           /\ output' = IF command.format = "Pass2" THEN output \o blob ELSE output
    /\ Visited /\ UNCHANGED <<stage, temp, position, matched, foundSignature>>

BlobOfDirectory ==
    /\ Walking("writeDataBlobs") /\ Visiting.directory
    /\ Visited /\ UNCHANGED <<stage, nodes, offset, image, passVars>>

OpenReadFailed ==
    /\ Walking("writeDataBlobs") /\ ~Visiting.directory /\ Visiting.file \in unreadable
    /\ IF command.format = "Pass2" THEN SeekBehindData
       ELSE stage' = "failed" /\ UNCHANGED <<pending, todo, passVars>>
    /\ nodes' = [nodes EXCEPT ![Head(todo)].dataOffset = offset]
    /\ UNCHANGED <<processVars, input, at, tags, resource, entry, iterator, failedResources, offset, image>>

\* A name is written once: its length, its hash and its characters.
WriteDataName ==
    /\ Walking("writeDataNames")
    /\ LET written == {n \in Range(image.names) : n.name = Visiting.name}
           place == IF written = {} THEN offset ELSE (CHOOSE n \in written : TRUE).offset
       IN  /\ nodes' = [nodes EXCEPT ![Head(todo)].nameOffset = place]
           /\ image' = IF written # {} THEN image
                       ELSE [image EXCEPT !.names = Append(@, [name |-> Visiting.name, offset |-> offset])]
           /\ offset' = IF written # {} THEN offset ELSE offset + 6 + 2 * Len(Visiting.name)
    /\ Visited /\ UNCHANGED <<stage, passVars>>

CountChild ==
    /\ Walking("childOffsets")
    /\ offset' = offset + 1
    /\ Visited /\ UNCHANGED <<stage, nodes, image, passVars>>

Info(n) ==
    LET info == nodes[n]
    IN  [nameOffset |-> info.nameOffset, directory |-> info.directory,
         count |-> IF info.directory THEN Len(info.children) ELSE 0,
         first |-> IF info.directory THEN info.childOffset ELSE 0,
         locale |-> IF info.directory THEN CLocale ELSE info.locale,
         compressed |-> ~info.directory /\ info.compressed,
         data |-> IF info.directory THEN 0 ELSE info.dataOffset]
WriteDataInfo ==
    /\ Walking("writeDataInfo")
    /\ image' = [image EXCEPT !.structure = Append(@, Info(Head(todo)))]
    /\ Visited /\ UNCHANGED <<stage, nodes, offset, passVars>>

WalkOver == stage \in Range(Walks) /\ todo = <<>> /\ pending = <<>>
SecondData == stage = "writeDataBlobs" /\ command.format = "Pass2"
EndSecondData ==
    /\ WalkOver /\ SecondData
    /\ SeekBehindData
    /\ UNCHANGED <<processVars, readVars, offset, image>>

\* A traversal is over; the first pass reserves room for the signature at least.
EndWalk ==
    /\ WalkOver /\ ~SecondData
    /\ stage' = IF stage = Last(Walks) THEN "written"
                ELSE Walks[1 + CHOOSE i \in DOMAIN Walks : Walks[i] = stage]
    /\ pending' = IF stage' = "written" THEN <<>> ELSE Root
    /\ offset' = IF stage' = "childOffsets" THEN 1 ELSE 0
    /\ image' = CASE stage = "writeDataBlobs" /\ command.format = "Pass1" ->
                         [image EXCEPT !.size = Max({8, offset})]
                  [] stage = "childOffsets" -> [image EXCEPT !.structure = <<Info(1)>>]
                  [] OTHER -> image
    /\ UNCHANGED <<processVars, readVars, todo, passVars>>

----------------------------------------------------------------------------
(* runRcc, and output as far as it is not the traversals.                  *)
Signature == << <<"Q">>, <<"R">>, <<"C">>, <<"_">>, <<"D">>, <<"A">>, <<"T">>, <<"A">> >>
Zeros(n) == [i \in 1 .. n |-> <<"0">>]

ParentOf(n) == CHOOSE p \in DOMAIN nodes : n \in Range(nodes[p].children)
InTree[n \in DOMAIN nodes] == n = 1 \/ (nodes[ParentOf(n)].directory /\ InTree[ParentOf(n)])
DataFiles == {nodes[n].file : n \in {n \in DOMAIN nodes \ {1} : InTree[n]}}

Output ==
    /\ stage = "interpretResourceFile" /\ input > Len(command.inputs)
    /\ stage' = CASE command.list -> "written"
                  [] ~command.list /\ command.format = "Pass2" -> "scan"
                  [] ~command.list /\ command.format # "Pass2" /\ nodes = <<>> -> "written"
                  [] OTHER -> "writeDataBlobs"
    /\ image' = IF command.list THEN [image EXCEPT !.list = DataFiles] ELSE image
    /\ pending' = IF stage' = "writeDataBlobs" THEN Root ELSE <<>>
    /\ offset' = 0
    /\ UNCHANGED <<processVars, readVars, todo, passVars>>

(* One getChar of the temporary file.  A byte that breaks off a match is   *)
(* not looked at as the start of the next one.                             *)
ScanByte ==
    /\ stage = "scan" /\ position < Len(temp)
    /\ LET c == temp[position + 1]
           fits == c = Signature[matched + 1]
           complete == fits /\ matched = 7
       IN  /\ matched' = IF fits /\ ~complete THEN matched + 1 ELSE 0
           /\ output' = IF fits THEN output
                        ELSE Append(output \o SubSeq(Signature, 1, matched), c)
           /\ stage' = IF complete THEN "writeDataBlobs" ELSE stage
           /\ pending' = IF complete THEN Root ELSE pending
    /\ position' = position + 1 /\ offset' = 0
    /\ UNCHANGED <<processVars, readVars, todo, image, temp, foundSignature>>

\* Mutant: the end of the file is noticed only once the signature was found.
EndOfTemp_whenFound ==
    /\ stage = "scan" /\ position >= Len(temp) /\ foundSignature
    /\ stage' = "written"
    /\ UNCHANGED <<processVars, readVars, pending, todo, offset, image, passVars>>
EndOfTemp ==
    /\ stage = "scan" /\ position >= Len(temp)
    /\ stage' = IF foundSignature THEN "written" ELSE "failed"
    /\ UNCHANGED <<processVars, readVars, pending, todo, offset, image, passVars>>

RccInit ==
    /\ command \in Commands /\ seed \in {<<s, s>> : s \in Seeds} /\ unreadable \in Faults
    /\ image = [data |-> <<>>, size |-> 0, names |-> <<>>, structure |-> <<>>, list |-> {}]
    /\ temp = <<>>
    /\ stage = "interpretResourceFile" /\ input = 1 /\ at = 0 /\ tags = <<>> /\ iterator = <<>>
    /\ resource = [prefix |-> <<>>, locale |-> CLocale] /\ entry = NoEntry
    /\ nodes = <<>> /\ failedResources = <<>> /\ pending = <<>> /\ todo = <<>> /\ offset = 0
    /\ matched = 0 /\ foundSignature = FALSE /\ position = 0 /\ output = <<>>

\* The first pass's output is compiled, and rbrcc runs again on the same documents.
SecondPass ==
    /\ stage = "written" /\ command.format = "Pass1" /\ ~command.list
    /\ command' = [command EXCEPT !.format = "Pass2"]
    /\ unreadable' \in Faults
    /\ \E s \in Seeds : seed' = [seed EXCEPT ![2] = s]
    /\ \E object \in Objects :
          temp' = object[1]
                  \o (IF image.size = 0 THEN <<>> ELSE Signature \o Zeros(image.size - 8)) \o object[2]
    /\ UNCHANGED image
    /\ stage' = "interpretResourceFile" /\ input' = 1 /\ at' = 0 /\ tags' = <<>> /\ iterator' = <<>>
    /\ resource' = [prefix |-> <<>>, locale |-> CLocale] /\ entry' = NoEntry'
    /\ nodes' = <<>> /\ failedResources' = <<>> /\ pending' = <<>> /\ todo' = <<>> /\ offset' = 0
    /\ matched' = 0 /\ foundSignature' = FALSE /\ position' = 0 /\ output' = <<>>

RccSteps ==
    \/ StartRcc \/ StartResource \/ StartFile \/ EndTag \/ AddText \/ AddFound \/ Blanks
    \/ ParseError \/ EndDocument \/ Output
    \/ Descend \/ WriteDataBlob \/ BlobOfDirectory \/ OpenReadFailed \/ WriteDataName
    \/ CountChild \/ WriteDataInfo \/ EndSecondData \/ EndWalk
    \/ ScanByte \/ EndOfTemp
RccNext == RccSteps \/ SecondPass
RccSpec == RccInit /\ [][RccNext]_rccVars /\ WF_rccVars(RccSteps)

----------------------------------------------------------------------------
(* What was asked for, from the documents alone: the files and directories *)
(* of each <file> whose text comes in one piece.                           *)
AttributeOr(attributes, a, default) == IF a \in DOMAIN attributes THEN attributes[a] ELSE default
AskedBy(doc, i) ==
    LET resources == {j \in 1 .. i : doc[j].kind = "start" /\ doc[j].tag = "qresource"}
        of == doc[Max(resources)].attributes
        file == doc[i + 1].text
        path == command.root \o AttributeOr(of, "prefix", <<>>)
                  \o WithoutParents(CleanPath(AttributeOr(doc[i].attributes, "alias", file)))
        asked(p, f) == [path |-> p, file |-> f, kind |-> Disk[f].kind,
                        locale |-> IF "lang" \in DOMAIN of THEN Locales[of.lang] ELSE CLocale]
    IN  IF file \notin DOMAIN Disk THEN {}
        ELSE IF Iterable(file)
        THEN {asked(Append(Stem(path, file), Last(f)), f) : f \in Range(Disk[file].below)}
        ELSE {asked(path, file)}
FileElements(doc) ==
    {i \in 1 .. Len(doc) - 2 : /\ doc[i].kind = "start" /\ doc[i].tag = "file"
                              /\ doc[i + 1].kind = "characters" /\ doc[i + 2].kind = "end"}
\* No text of the document comes in pieces: addFile is called once for each <file>.
InOnePiece(doc) == \A i \in DOMAIN doc : doc[i].kind = "characters" => i - 1 \in FileElements(doc)
Asked ==
    {a \in UNION {UNION {AskedBy(doc, i) : i \in FileElements(doc)} : doc \in Range(command.inputs)} :
        a.kind # "huge"}

Nesting(doc, i) ==
    LET count(kind) == Cardinality({j \in 1 .. i - 1 : doc[j].kind = kind})
    IN  count("start") - count("end")
Valid(doc) ==
    /\ doc # <<>> /\ Nesting(doc, Len(doc) + 1) = 0
    /\ \A i \in DOMAIN doc :
          /\ doc[i].kind = "start" => Nesting(doc, i) \in 0 .. 2
                 /\ doc[i].tag = <<"RCC", "qresource", "file">>[Nesting(doc, i) + 1]
          /\ doc[i].kind = "end" => Nesting(doc, i) > 0
          /\ doc[i].kind = "characters" => Nesting(doc, i) = 3

(* What the code drops without an error: all that lies below a path that   *)
(* is itself asked for, be it a file or a directory of the disk; and of a  *)
(* file and a directory with one path QResource may answer either.  Of     *)
(* files with one path and locale all are in the tree, and a search finds  *)
(* one; the code promises nothing of which (std::sort by hash alone).      *)
Hidden(a) ==
    \E b \in Asked \ {a} :
        IsStrictPrefix(b.path, a.path) \/ (b.path = a.path /\ b.kind = "directory")
Twins(a) == {b \in Asked : b.kind = "file" /\ b.path = a.path /\ b.locale = a.locale}
Wanted == {a \in Asked : a.kind = "file" /\ ~Hidden(a)}

(* QResource's search (external): names of one directory lie next to each  *)
(* other in the order of their hashes, the first that is equal is entered, *)
(* and the file of the same locale is taken.                               *)
NameOf(n) ==
    LET at_offset == {x \in Range(image.names) : x.offset = image.structure[n].nameOffset}
    IN  IF at_offset = {} THEN "" ELSE (CHOOSE x \in at_offset : TRUE).name
ChildrenOf(n) ==
    image.structure[n].first + 1 .. image.structure[n].first + image.structure[n].count
SortedRange(n) ==
    \A i, j \in ChildrenOf(n) : i < j => Hash[NameOf(i)] <= Hash[NameOf(j)]
Matches(n, name) ==
    IF n = 0 \/ ~image.structure[n].directory \/ ~SortedRange(n) THEN {}
    ELSE {c \in ChildrenOf(n) : NameOf(c) = name}
FindNode(path, locale) ==
    LET enter(n, name) == IF Matches(n, name) = {} THEN 0 ELSE Min(Matches(n, name))
        last == {c \in Matches(FoldLeft(enter, 1, Front(path)), Last(path)) :
                    ~image.structure[c].directory /\ image.structure[c].locale = locale}
    IN  IF last = {} THEN 0 ELSE Min(last)

\* The file is found in these bytes, the data of which start at byte start + 1.
FoundIn(a, bytes, start) ==
    LET n == FindNode(a.path, a.locale)
        info == image.structure[n]
        blob == Blob(a.file, info.compressed)
    IN  n # 0 /\ SubSeq(bytes, start + info.data + 1, start + info.data + Len(blob)) = blob

(***************************************************************************)
(* What rbrcc writes in one go, code or binary, lets a program find every  *)
(* file its documents ask for, under its prefix, alias and locale, with    *)
(* that file's own bytes, whatever order the process goes through a        *)
(* QHash in; of several files for one path and locale it finds one.  With  *)
(* -list every such file is listed.  Excepted is only what Hidden names,   *)
(* and texts in pieces, each of which adds a file under a path nobody      *)
(* wrote.                                                                  *)
(***************************************************************************)
FilesFound ==
    stage = "written" /\ (\A doc \in Range(command.inputs) : InOnePiece(doc)) =>
        IF command.list
        THEN (\A doc \in Range(command.inputs) : Valid(doc))
             => {a.file : a \in Wanted} \subseteq image.list
        ELSE command.format \in {"C_Code", "Binary"}
             => \A a \in Wanted : \E b \in Twins(a) : FoundIn(b, image.data, 0)

\* Cases in which the second pass does not fit: another order of keys, a file that cannot be read
\* any more, and object files that hold the signature a second time or end with a part of it.
Signed == {i \in 1 .. Len(temp) - 7 : SubSeq(temp, i, i + 7) = Signature}
StartOfData == CHOOSE i \in Signed : TRUE
EndsWithPart(bytes) ==
    \E k \in 1 .. 7 : k <= Len(bytes)
                       /\ SubSeq(bytes, Len(bytes) - k + 1, Len(bytes)) = SubSeq(Signature, 1, k)
OutOfStep ==
    \/ seed[1] # seed[2] \/ unreadable # {} \/ Cardinality(Signed) > 1 \/ EndsWithPart(temp)

(***************************************************************************)
(* The second pass puts the data into the object file made of the first    *)
(* pass's output without moving anything else: each file lies where the    *)
(* structure written by the first process says (one of those for a path    *)
(* and locale), though another process goes through its own tree, and the  *)
(* bytes around the data are kept.                                         *)
(***************************************************************************)
SecondPassFits ==
    stage = "written" /\ command.format = "Pass2" /\ ~OutOfStep
        => LET start == StartOfData - 1
           IN  /\ (\A doc \in Range(command.inputs) : InOnePiece(doc))
                     => \A a \in Wanted : \E b \in Twins(a) : FoundIn(b, output, start)
               /\ SubSeq(output, 1, start) = SubSeq(temp, 1, start)
               /\ SubSeq(output, start + image.size + 1, Len(output))
                     = SubSeq(temp, start + image.size + 1, Len(temp))

(***************************************************************************)
(* Every process of rbrcc comes to an end, but for a second pass whose     *)
(* writeDataBlobs ends without a byte, because there is no file or the     *)
(* first it comes to cannot be opened: it seeks back by the length of the  *)
(* signature and finds the same one again and again.                       *)
(***************************************************************************)
NothingToWrite ==
    /\ SecondData /\ offset = 0
    /\ IF todo = <<>> THEN pending = <<>>
       ELSE ~Visiting.directory /\ Visiting.file \in unreadable
RbrccFinishes == stage = "interpretResourceFile" ~> stage \in Ended \/ NothingToWrite
=============================================================================
