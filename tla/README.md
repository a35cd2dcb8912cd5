# Verification of rubyjitqt

rubyjitqt lets a Ruby program use Qt without generated bindings: a Ruby call on
a `Qt5::` class is resolved against clang's AST of the Qt headers, turned into
LLVM IR, and run by MCJIT in the Ruby process. This directory holds TLA+
modules that model that machinery, TLC configurations that check them on small
instances, and TLAPS proofs of their main invariants for every instance.

Paths below are relative to `src/`.

## 1. Inventory

The extension's entry point is `Init_handby` in `ruby/rubyinit.cpp`. Everything
runs on one thread, but not in one piece: a native call may enter a Qt event
loop (`app.exec`, a dialog's `exec`), the loop runs Ruby slots, and a slot makes
further calls, so calls nest inside calls of every layer.

| part | files | state | operations |
|---|---|---|---|
| object registry | `qtobjectmanager.*` | `robjs`, `qobjs`, `jdobjs`, `idobjs`, the `ObjectInfo`s, `_objid2`, `rbconnections5` | `addObject`, `delObject`, `getObject` both ways, `getObjectById`, `addConnection`, `getConnections5` |
| Ruby object life | `ruby/rubyinit.cpp`, `GV2Variant` in `ctrlengine.cpp` | Ruby's heap slots, finalizers, native memory | `Qt_class_new`, `Qt_class_init`, `Qt_class_dtor`, method calls, record and pointer results |
| signals and slots | `connectruby.*`, emission in `rubyinit.cpp` | `ConnectAny` objects, `mcevt`, Qt's connection lists and event queue | `ConnectFactory::create`, `eventFilter`, `router`, `acall` |
| calls and their modules | `ctrlengine.cpp`, `ivm/clvmengine.cpp`, `ivm/modulemanager.*` | `modules`, `ees`, `mee`, the modules each execution engine owns | `vm_new`, `vm_call`, `vm_static_call`, `vm_delete`, `execute3`, `add`, `addEE` |
| argument storage and conversion | `operatorengine.cpp`, `invokestorage.*`, `callargument.*`, `marshallruby.cpp` | `gis2`, one process-wide array per type | `ConvertToCallArgs`, both `bind`s |
| overload resolution | `frontengine.cpp` | the AST, read only | `find_*_decl`, `method_match_by_uargs`, `get_method_default_params` |
| IR generation | `compilerengine.cpp`, `ivm/findsymbolvisitor.cpp` | `CompilerUnit`: module, `mNoinlineSymbols`, `mUndefSymbols` | `conv_*`, `gen_*`, `gen_undefs`, `find_callee_decl_*` |
| singletons | `macrolib.h` | `m_inst`, `m_mutex` | `inst`, `init` |
| class registration | `qtregister.h`, `registClass` | `m_classes` | `registClass`, `unregistClass` |
| legacy entry and JIT | `entry.cpp`, `clvm*.cpp` | their own tables | compiled, not reached from `Init_handby` |
| rbuic | `uitools/rbuic/` | the Dom objects of a form, the walk's chains, the names given, four texts being written | `parseUiFile`, `read`, `write`, `TreeWalker`, `WriteInitialization` |
| rbrcc | `uitools/rbrcc/` | the tree of `RCCFileInfo`, its `QHash`es, the output of a first pass | `readFiles`, `writeDataBlobs`, `writeDataNames`, `writeDataStructure`, `output` |

What each modelled part has to get right, and what makes that hard:

* **Object registry.** Five tables are kept by hand, and `delObject` leaves
  early on several paths. Every lookup must lead to a live `ObjectInfo`, the
  forward and the reverse tables must name the same pairs, and no address may
  be freed that is not allocated or still registered. Nothing in the repository calls
  `delObject`: what `Registry` shows of it is about the class, not about the running program.
* **Ruby object life.** Nothing leaves the registry in the live code
  (`vm_delete` is commented out, `rubyinit.cpp:355`), VALUE slots are reused by
  the collector, addresses by Qt, and Ruby code runs inside `initialize`. An
  object must find its own native object all the same, and a finalizer must not
  free somebody else's.
* **Signals and slots.** All connections are queued. Each has one `mcevt`, which
  an event filter sets and a router reads; slots enter event loops of their own;
  senders, receivers and Ruby receivers disappear while events wait. Every slot
  must run once per event, in order, with the event's own arguments.
* **Calls and their modules.** The compiled module and the engine of a function
  are cached in two tables, all call modules (`remod`) have one entry name,
  argument storage is process-wide, calls nest, and Ruby exceptions leave by
  `longjmp`. Each call must run its own function with its own arguments, and
  leave the caches fit for the next one.
* **Resolution and conversion.** The matching rules, the fallback on base
  classes, the evaluation of defaults and their merging with the user's
  arguments work on three sequences that must stay in step. The function found
  must get an argument for each parameter, at its place.
* **IR generation.** A compiled inline function refers to others by symbol, and
  `gen_undefs` must find the declaration of each symbol in the expressions of
  what it has compiled, round by round, in LLVM's order. Each function must be
  generated once, and whatever can be found must be.

* **rbuic.** A form (`.ui`) becomes a tree of objects of 65 classes, each with its
  own reader, setters, destructor and writer; reading may stop anywhere, and
  nothing may be leaked, deleted twice or taken for something else. The Ruby
  program made of it is put together from four texts that are written at
  different times, with names that four passes over the form give and look up. It
  must set each variable before it reads it, give each object a variable of its
  own, and connect, order and label the widgets as the form says.
* **rbrcc.** Files are kept in `QHash`es, whose order differs from one process to
  the next, and written as three tables that refer to each other by offset. A
  program searches them by bisection. Each file must be found, with its own
  bytes; in two passes the second process must reproduce the layout the first
  one promised.

The tools are separate programs (`CMakeLists.txt:179-180`), without a thread or
any state in common with the extension: their only connection with it is that the
Ruby program they write calls it.

## 2. Modules

| module | code | abstract specification | proofs |
|---|---|---|---|
| `QtObjectManager` | registry | | `RubyObjects_proofs` |
| `RubyObjects` (extends the registry) | object life | `ObjectBinding` | `RubyObjects_proofs` |
| `ConnectRuby` | signals and slots | `SignalDelivery` | `ConnectRuby_proofs` |
| `CtrlEngine` | calls and their modules, storage | `JitCalls` | `CtrlEngine_proofs` |
| `CallArguments` | marshalling, resolution, conversion | | `CallArguments_proofs` |
| `CompilerEngine` | compiling a function and what it needs | | `CompilerEngine_proofs` |
| `DomSchema` | what each class of `ui4.cpp` reads and writes | | model-checked only |
| `Ui4` (extends `DomSchema`) | reading, saving and deleting a form | | `Ui4_proofs` |
| `Uic` (extends `Ui4`) | names, declarations, the walk | | model-checked only |
| `WriteInitialization` (extends `Uic`) | the Ruby program | | model-checked only |
| `Rcc` | rbrcc | | `Rcc_proofs`, `RccFiles_proofs` |

`MCRubyObjects`, `MCCtrlEngine`, `MCCallArguments`, `MCCompilerEngine` and
`MCBuildTools` give values to constants that a configuration file cannot express. Names follow the source; an operator
whose name carries a suffix and whose comment starts with *Mutant* is a
deliberately wrong variant of the definition it precedes and belongs to no
next-state relation. `PROJECT.json` maps each definition to its lines.

### QtObjectManager, RubyObjects, ObjectBinding

`robjs`, `qobjs`, `jdobjs`, `idobjs` are the tables of the same names; `infos`
is the memory of `ObjectInfo`s by `objid`, `NULL` where deleted; `heap` is the
native memory. `AddObject` is `addObject` with every table it writes, and
`DelObject` keeps its early returns. `Register` is the caller's side: memory
fresh from `vm_new`, then `addObject`.

`RubyObjects` follows a VALUE slot through `phase`: `Qt_class_new_alloc`
(`rb_obj_alloc`), `Qt_class_init` (the native constructor and `addObject`),
`Qt_class_new_finalizer`, then `Drop`, `Sweep` and `Qt_class_dtor`. They are
separate steps because Ruby code, a subclass's `initialize` or the block of
`new`, runs in between and may raise (`Qt_class_new_raises`).
`GV2Variant_record` is one step: `rb_class_new_instance` and the second
`addObject` have no Ruby code of the program between them. `PointerReturn` is
the reverse lookup, which may answer any entry that matches. `QtDelete` is Qt's
own, and tells the registry nothing. `own`, `lost` and `freed` are history
variables.

`ObjectBinding` has no tables: an object is bound once to a native object
allocated for it and keeps it until its slot is given back.

### ConnectRuby, SignalDelivery

`conns` are the `ConnectAny` objects, `links` Qt's connection lists, `conns5`
is `rbconnections5`, `queue` the posted events, `frames` the running Ruby slots.
`create_*` are the branches of `ConnectFactory::create`. `eventFilter` and
`router` are two actions, with `filtered` holding the event between them, and
nothing else happens in between: Qt calls the filter and the slot back to back.
`SlotReturns` pops the innermost slot; while a slot runs, the loop may go on, so
that slots nest. `EventsFor`, `QtEmit`, `QtSlot`, `QtDestroy` and `Collect`
stand for Qt and Ruby, as the code uses them.

Simplifications: an object has one signal; both ends of a connection exist when
it is made; the address of a destroyed Qt object is not reused;
the argument array of an emission is the emission's number.

`SignalDelivery` keeps for each connection the emissions it was sent and has not
run (`pending`) and those it has run (`runs`): `Post` is an emission to some
connections, numbered above all before it, `Run` takes the earliest and runs the
slot for it, `Discard` takes it without, because the receiver is gone.

`RubyConnectRuby::router`, `RubyConnectQt` and `QtConnectQt::router` cannot be
reached and are left out: the first is never connected (see the findings), the
second's branch is empty, and the third is bypassed by a direct `QObject::connect`.

### CtrlEngine, JitCalls

`vm_call` is the way from the lookup of the module to `runFunction`; nothing
interrupts it, so it is one action made of the operators of its stages
(`QtmodFor`, `Bind`, `Add`, `AddEE`, `EngineFor`, `Link`). `vm_new` and
`vm_static_call` take the same way. `execute3_returns` is the code behind
`runFunction`, and `call_ruby_raises(k)` cuts the stack back to the Ruby code
that rescues, skipping it. A frame records what was asked and what actually ran.

Simplifications: calls that resolve; one argument per call; one thread, as in
every test and example; no static constructors in modules. The second owner that
`ModuleManager::add` gives a module (`mee`) is recorded and has no effect,
because no engine is destroyed. Within an engine the newest module defining the
entry name wins, as MCJIT looks it up. The entry's name is read from a freed
temporary (`operatorengine.cpp:526`): the model takes the outcome in which the
text is intact; in the other, `getFunction` finds nothing and the process ends,
which the specification allows at any point, having no fairness.

### CallArguments

One behaviour is one call: `Marshal`, `Find`, `get_method_default_params`,
`replace_trivial_copy_params`, `ConvertToCallArgs`. What clang reports about the
headers is a constant: each parameter has a category, the class names its
spelling contains, and the form and value of its default. `find_method_decl` is
the depth-first search, `CRASH` the use of a null or empty result.

Simplifications: values are numbers; whether an object's class fits a parameter
is not asked, neither by the code nor here; templates and enums are not searched. Of
the defaults bound to a reference, `Temporaries` has those that `get_method_default_params`
treats alike: `QChar(...)`, `QFlags`, another class's temporary, and what it reports as
invalid eval; the number in each but the first says only that it is not the declared default.
The declarations in `MCCallArguments` are those of the Qt 5.4 headers, as the
API reference gives them.

Three assumptions say what any headers and any program have: `DeclAssumption`
(declarations and parameters are lists, a default that is `0` or `QVariant()` has the
value 0), `HierarchyAssumption` (every set of classes has one none of whose bases is in
it: a base is complete before a class derives from it), and `CallAssumption` (a
constructor is asked for by the name of its class). `OnePath`, that no class is
inherited along two paths, is not assumed of the model: it is a hypothesis of
`NotHidden` alone, and `MCCallArguments` checks that it holds of the declarations of the run.

### CompilerEngine

One behaviour is the compilation of one module: `conv_method2`, `conv_function2` or
`conv_ctor2`, and the `gen_darg`s that `CtrlEngine` calls after it; or `conv_dargs`,
which compiles nothing but default arguments (`mbdecl` is then `JitMain`,
`__jit_main_tmpl`).
What clang says of the functions (`ast`) is chosen at the start: kind, whether
inline, whether the lists of `gen_undefs` name it, the calls and constructions
in its body, which of these `FindSymbolVisitor` looks at, the default arguments
that are `CXXConstructExpr`s, and the symbols its generated code refers to, which may be more
(destructors of temporaries). `declared`, `bodies` and `noinline` describe the
LLVM module, `froms` and `undefs` are the locals of `gen_undefs`.
`find_undef_symbols` starts a round; `gen_undef` deals with one of its symbols,
in any order: `Answer` is the search, `gen_callee` the four branches;
`gen_undef_lost` and `gen_undef_dtor` are the two `qFatal`s. A constructor has
two symbols, one for each variant, and `getMangledName` always answers the first.

`conv_ctor2` looks at no symbols: `Met` is what the visitor meets below the
constructor, `gen_undefs2` generates each of these functions once, in the order of
a `QHash`, which is left open. The visitor goes down into every declaration
it meets, as often as it meets it; if one of them meets itself (`Endless`) the
stack overflows. `gen_darg` generates a default argument's constructor and the argument
in the body of `__jit_main_tmpl`, and starts `gen_undefs` again with the function
compiled and that constructor in `froms`; `InDefault` is the search in the argument.

Simplifications: the branches under `if (0)` and the loop that starts at 100 are
dead and left out; a function's body has at most one temporary object; `isInlined`
is that of the declaration with the body; the list of constructors has two names
more in `gen_undefs2` than in `gen_undefs`, and here it is one list.

### DomSchema, Ui4

The classes of `ui4.cpp` are alike: `read` compares the name of each attribute
and element with those it knows and converts, `write` prints what is set. What
differs is a table, `Schema`: for each class its attributes and elements with
their types, how many of an element it keeps (a single one, a list, or one of a
choice as in `DomProperty`), whether it keeps text, and what it prints that it
does not read by that name. The table is the
translation of the 65 `read` and `write` functions, one row each, and the actions
of `Ui4` are what these functions do with a token: `ReadObject` news a child and
enters its `read`, `ReadText` is `readElementText`, `UnexpectedElement` raises the
error, `EndElement` and `Return` go back to the caller, which keeps the child
(`Cleared` is the `clear()` of a choice), `ReturnOnError` leaves one `read` after
another. `Destroy` is one destructor; it dooms what the object holds, and
`DeleteUi` begins with the form. Locations in `heap` are never used twice, so
that a pointer to a deleted object shows.

`Save` stands for Qt Designer: it takes the same classes' `write` and gives the
document to the reader again. rbuic itself only reads.

Simplifications: strings stand for classes of text: a number, a truth value,
anything else; `read` compares without regard to case, and the documents use the
exact tag in places and other capitals in `stdSetDef` only, where it matters.

### Uic, WriteInitialization

Once a form is accepted, the walk over it is an agenda: the calls still to be
made, next one first. An action makes the first of them, which puts the calls it
makes itself in front. So the order of the recursive walk is kept, and the state
between any two calls is visible. `Validate`, `Declare`, `WriteImages` and the
operators named after functions of `rbwriteinitialization.cpp` are these calls.

A statement of the program is `[op, sets, uses]`: the method called, the variable
assigned, and the variables read. `setup`, `refresh`, `delayed` and
`delayedActions` are `m_output`, `m_refreshOut`, `m_delayedOut` and
`m_actionOut`. `named` are the names of `Driver`, `cached` the shared fonts,
icons, size policies and brushes. `Crash` is a null pointer that is followed
(a gradient that is missing, an image without data), `Asserts` a failed assertion:
`tool` is `"crashed"` then.

Simplifications: names are strings of a small set with their lowered and
normalized forms given as functions; the literals of a statement, the data of
embedded images and the code of `<script>` are left out.

### Rcc

`StartRcc` to `EndDocument` are the cases of `interpretResourceFile`; `AddFile` is
`addFile` with the directories it implies; `AddFound` goes through a directory of
the disk. `WriteDataBlob`, `WriteDataName`, `CountChild` and `WriteDataInfo` are
the inside of the loops of the functions of these names, one child a step, in the
order of the `QHash`, which `seed` chooses. `ScanByte` is one `getChar` of the
second pass, `SeekBehindData` what follows the signature. `SecondPass` stands for
the build: it compiles what the first pass has written into an object file,
which puts bytes before and behind the data, and starts rbrcc again. `FoundIn` is the search
`QResource` makes in the program.

Simplifications: a path is a sequence of names; a file is told by its path, size
and compressed size; hashes are small numbers, with a collision among them. An existing
path that is neither a file nor a directory (`"special"`) is gone through as its directory
filtered by its name, and its name, a whole name, is taken off the alias it ends
(`rcc.cpp:523-528`). `std::sort` compares hashes alone and may leave equal ones in any
order; the model keeps theirs, and no property says which of two files with one path and
locale comes first.

`assert` is compiled out when `llvm-config --cxxflags` (`CMakeLists.txt:65`)
brings `-DNDEBUG`, and in otherwise. `CallArguments` goes on past failed
assertions, and so does `CompilerEngine`, which records the one on `tsym`;
`RubyObjects` and `ConnectRuby` stop at them, since what follows is
the use of a null pointer or of a wrong object.

## 3. Runs

| run | configuration | shows | size |
|---|---|---|---|
| `Registry` | 2 VALUEs, 3 addresses, 4 ids | tables consistent under any order of `addObject`, rebinding and `delObject` | 1,400 states |
| `RubyObjects` | 2 VALUEs, 3 addresses, symmetric; Qt deletes, `super` skipped | own native object found, no wrong free, exact reverse lookup, finalizer dies only of unregistered objects, implements `ObjectBinding` | 234,000 states |
| `RubyObjectsSuperSkipped` | | **violation**, finding 1 | |
| `Connect` | 2 Qt and 2 Ruby objects, 2 connections, 3 emissions, nesting 2 | arguments, assertions, receivers, implements `SignalDelivery`; every posted event reaches its slot under a fair loop | 379,000 states |
| `ConnectSenderGone` | 1 connection, 1 emission | **violation**, finding 2 | |
| `ConnectToRuby` | fair loop | **violation**, finding 3 | |
| `Calls` | 3 functions, 2 values, 4 calls, nesting 3 | caches, engines, implements `JitCalls` | 107,000 states |
| `Arguments` | 12 Qt classes, 29 calls, all sequences of at most 3 of 11 values | resolution and passing of arguments | 177,000 states |
| `ArgumentsFloat` | `display` with one value | **violation**, finding 4 | |
| `Compile` | every reference graph of a root and 3 callees of 5 kinds, up to 2 default arguments, 4 rounds | nothing lost that an expression names, nothing generated twice, everything compiled | 326,000 states |
| `BuildTools` | 1,138 forms and 82 commands of rbrcc, see below | reading, owning and saving of forms, the Ruby program, both passes of rbrcc, termination | 105,000 states |
| `CompileAnswer` | `QWidget::setSizePolicy` of Qt 5.4 | **violation**, finding 5 | |

Why the bounds are enough. Two VALUEs are a collected object and its successor,
or two objects that meet at one address; the third address lets a record return
leave one behind; four ids let each slot be registered twice. Two connections
on one sender, or on two, with three emissions nested two deep have an event
overwrite the `mcevt` of a running slot and another wait behind it. Three
functions are two that share a storage element and one whose value is built into
the IR; with nesting 3, a function runs inside itself inside another one. Three
Ruby values are more than most of the methods take, so that surplus arguments,
full lists and defaults all occur. Symmetry is used in `RubyObjects`
only, which checks safety and a refinement, all symmetric in VALUEs and
addresses. Three callees make chains, sharing and a cycle, and put two symbols
in one round; a chain of three takes three rounds and a fourth that finds nothing, so
that four (the code's are ten) reach both ends of `gen_undefs`; two default arguments
construct the same class or two, and one follows the rounds of another. The tools take their input
from a file and have no partner, so what matters is the inputs, which
`MCBuildTools` lists by the case they make happen. `SchemaForms` is computed from
`Schema`: for each of the 65 classes a path of tags down to it, then all its
attributes and elements once, again, with wrong values, with unknown names, twice the same
attribute, and cut short. `WriterForms` has a group for each part of the writer: properties of
every type, items of every view, containers, custom widgets, main windows,
layouts, buttons, actions, names that collide, connections, tab stops. For rbrcc a disk of a
dozen files and directories (empty, huge, compressing well or not, same
names, same hashes, special files), documents right and wrong, each format, two orders of a
`QHash` in each of two processes, files that cannot be opened, and object files
with parts of the signature around the data. The bounds are `MaxObjId`, `MaxConns`,
`MaxEmits`, `MaxNest`, `MaxCalls` and `MaxRounds`, each a guard of the actions that count. The theorems hold for all
their values.

Runs say `CHECK_DEADLOCK FALSE`: the systems stop at their bounds, at a
failed assertion, or, in `CallArguments` and `CompilerEngine`, when the call or
the compilation is over.

`Supported` in `CallArguments` names the arguments the code does not pass
correctly: floating-point values, objects passed by
value to constructors and static methods, defaults that cannot be evaluated
(`double value = 0`), class-typed defaults (`QString()`, passed as 99813721) and
constructed ones other than 0. Each of these is needed: without it TLC finds a
call in `Arguments` that goes wrong. One more comes from the proof, and no declaration
of the run meets it: a `QVariant` with a default must be the last parameter of a function
without constructed defaults. For that parameter
`get_method_default_params` keeps a second list, `mtdargs`, which gets nothing for a
constructed default before it, so that a user's argument is then converted as another
parameter's. `CtorTakesAll` and `GivesUpRightly` leave out what the code passes over:
a constructor that is defaulted, the bases of a class whose constructor is asked for,
and a call without arguments that more than one declaration fits, which ends in a crash.

The properties of `BuildTools` name what the code does not get right, and each
exception is needed: without it the run finds a case.

| property | excepts | because |
|---|---|---|
| `DefinedBeforeUse` | `Misnamed`, `UnknownGradient` | names written without `@`, or with their first letter as it stands in the form; actions of menus, images and the undeclared ends of connections have no variable; a gradient of an unknown type is used unmade |
| `EachOwnVariable` | `Alike` | names that differ in the case of their first letter are one variable |
| `Wired` | an invalid first tab stop, undeclared ends of connections, capital buddies | `rbwriteinitialization.cpp:1705`, `2423` |
| `SavedReadsBack` | `Redefined` | `stdsetdef` and `stdSetDef` are both written as `stdsetdef` |
| `UicFinishes` | `Circular` | custom widgets that extend each other in a circle (`customwidgetsinfo.cpp:79`) |
| `FilesFound` | `Hidden`, `Twins`, not `InOnePiece` | what lies below a path that is itself asked for is dropped or flattened, and a file with the path of a directory may be answered with the directory; of several files with one path and locale one is found, and `std::sort` does not say which; a text that a parser returns in pieces is taken for as many files (`rcc.cpp:474`) |
| `SecondPassFits` | `OutOfStep`, and the above | another order of the hash, a file gone, the signature a second time, or a part of it at the end of the object file (`rcc.cpp:739-754`) |
| `RbrccFinishes` | `NothingToWrite` | a second pass that has written no byte when there is nothing left to write, or when the first file it has to write cannot be opened, finds the same signature for ever |

**Fairness.** Two specifications have any. `MCSpec` of `MCBuildTools` has weak
fairness of rbuic's and of rbrcc's steps, each a program that runs by itself and
waits for nobody: a step that is possible is taken. The build's start of a second
pass and Qt Designer's steps have none. `FairSpec` of `ConnectRuby` has weak fairness of the
loop's steps, because `app.exec` keeps dispatching while events are posted, and
of `SlotReturns`, because a slot of a working program returns. Neither promises
that a program emits or connects.

## 4. Findings

1. `Qt_class_new` defines the finalizer also for an object whose subclass never
   called `super`; the assertion of `Qt_class_dtor` (`rubyinit.cpp:341`) fails
   when it is collected. Run `RubyObjectsSuperSkipped`.
2. `assert(this->m_sender == sender())` (`connectruby.cpp:75`) fails when the
   sender is deleted between a signal and its queued delivery. Run
   `ConnectSenderGone`.
3. `create_rbconnectrb` connects to `SLOT(route(...))`, and the slot is called
   `router`: a Ruby signal never runs a Ruby slot. Run `ConnectToRuby`.
4. A floating-point argument selects `display(double)` and is then dropped. Run
   `ArgumentsFloat`.
5. Asked for a symbol that no call of a body stands for,
   `find_callee_decl_by_symbol` answers the constructor of the body's temporary
   object (`compilerengine.cpp:352`), against `Q_ASSERT(tsym == sym)`. Compiling
   `setSizePolicy(h, v)` (`examples/tutorial/t14/lcdrange.rb:25`) asks for
   `setControlType` and generates `QSizePolicy`'s constructor again, in every
   round. Run `CompileAnswer`.

Divergences seen while reading, which no run states: `invokestorage.cpp:40-52`
promises each call its own storage until it has ended, and `gis2` has one element
per type and position, which a nested call overwrites (every call still starts
with its own value, `ImplementsCalls`); both variants of a constructor in one
round of `gen_undefs` are generated twice; `rbdisconnectrb` always
fails the assertion in `connectruby.cpp:254`; call modules are never destroyed,
against `docs/jit-ee-and-ir-reuse-improve.md:51`; modules in the cache are owned
by two engines (`ivm/modulemanager.cpp:12`); `lamname` points into a freed
temporary (`operatorengine.cpp:526`); `i32ToRecord` writes behind four bytes it
allocated (`ctrlengine.cpp:357`); the array of an emission has ten elements and
only the router frees it (`rubyinit.cpp:494`); `$qApp` and pointer returns may answer a collected
object (`rubyinit.cpp:234`, recorded as `deadref`); rbrcc's second pass answers success
when a file could not be read, although `uitools/rbrcc/main.cpp:289` says `erase
the output file if we failed`; the assertion in
`frontengine.cpp:1602` fails for `QWidget`'s constructor; a string list and an
object match more parameters than the comment in `frontengine.cpp:1183-1189`
says.

## 5. Proofs

All theorems hold for every value of the constants that meets the modules'
named assumptions. Each component has one inductive invariant. Every safety
theorem is obtained from it, and each action has a step of its own in the
proof that it is preserved.

* **`QomInv`** = `QomTypeOK` ∧ `InfosOwned` ∧ `TablesAgree` ∧
  `RegisteredAllocated`. `InfosOwned` says that an `ObjectInfo` is in the table
  of the VALUE it names and that ids from `nextid` on are unused: without it,
  `AddObject` could revive a deleted info or `DelObject` clear somebody else's.
  It gives `NoDanglingInfo`.
* **`LifeInv`** = `TypeOK` ∧ `InfosKept` ∧ `OwnPhase` ∧ `BoundLookup` ∧
  `NativeKept` ∧ `Unused` ∧ `ReverseExact` ∧ `DtorAbortsUnregistered`.
  `InfosKept` says that the infos that tables lead to exist, which holds in the
  live code because nothing is removed; `OwnPhase` ties `own` to the slot's
  phase, so that a slot that is given a native object has none yet; `Unused`
  that an address that is neither allocated nor was ever deleted is in no entry,
  so that an object constructed there is the only one found for it.
  The refinement `ImplementsBindingHolds` follows: `BoundLookup` makes the
  table lookup equal to `own`, and each action then is a step of
  `ObjectBinding` or a stutter.
* **`ConnInv`** = `TypeOK` ∧ `InFlight` ∧ `Dispatch` ∧ `Ends` ∧ `SendersStay` ∧
  `RouterAsserts`. `InFlight`: events in the lists, the queue and the frames
  belong to connections that exist; `Dispatch`: while an event is between filter
  and router, its connection's `mcevt` is that event, so that the frame the
  router makes, and every running frame, has its event's arguments
  (`OwnArguments`); `Ends`: no connection's receiver is collected
  (`ReceiverKept`), and each kind has senders and receivers of the right sort;
  `SendersStay`: without destruction all objects live, for `RouterAsserts`.
* **`CallInv`** = `TypeOK` ∧ `CachesAgree` ∧ `Compiled` ∧ `RemodsOwn` ∧
  `EnginesClean`. `Compiled` says that a cached module was compiled from its own
  function and carries the number of a call already made; `RemodsOwn` that
  remods in engines are of calls made and that running calls have different ones,
  so that removing one leaves the others. `ImplementsCallsHolds` follows:
  the newest remod is the one the entry name leads to.
* **`GenInv`** = `TypeOK` ∧ `DeclaredFrom` ∧ `UndefFrom` ∧ `LostOnlyImplicit` ∧
  `Paired` ∧ `UndefEmpty` ∧ `Fresh` ∧ `Phases` ∧ `Given` ∧ `GeneratedOnce`.
  `DeclaredFrom` and `UndefFrom` say that what has no code and is not left to a library
  is referred to by a function in `froms`, or, once default arguments are evaluated
  and in the module of a constructor, by some function or argument: when the search
  fails, what is searched has no expression for the symbol. `UndefEmpty` says that
  what a round, or `gen_undefs2`, still has to deal with has no code (the visitor
  does not meet the constructor it starts from, or it would not return); with
  `Paired`, which keeps a constructor's variants together, code is generated over
  code by `gen_darg` alone. `Phases` and `Given` say when each worklist runs and
  that clang does not change its mind.

* **`OrderInv`**, beside `ConnInv`, is what the refinement of `SignalDelivery`
  needs: no connection is twice in a sender's list (`NoRepeats`), no event or run is
  numbered above the last emission (`Numbered`), and the events of one connection are in
  the queue in the order of their emissions, the one between filter and router first
  (`InOrder`). `pending` is what the queue and `filtered` hold of a connection, so the
  event that is routed or dropped is always the earliest (`ImplementsDeliveryHolds`).
  `SlotsInOrderHolds` follows from the abstract specification alone: a slot of one
  connection runs for greater and greater emissions, because what waits is later than
  all that has run (`Overtaken`).
* **`CompInv`**, beside `GenInv`, counts: each round of `gen_undefs` that goes on has
  compiled one function more, so the rounds that were made are no more than the functions
  with code. `EverythingCompiledHolds` has the hypothesis `EnoughRounds`, that the limit
  was not reached or that fewer functions than it have code; where the code's ten rounds are
  too few, something is left uncompiled, and the theorem says no more than that.
* **`ArgsInv`** = `Asked` ∧ `Typed` ∧ `Answered` ∧ `Carried`. A call goes straight through
  its stages, so each conjunct says what a stage has left: `Answered` that `decl` is what
  the search answers, `Carried` that `uargs`, `dps`, `mtdargs` and `cargs` are the
  sequences that `Given`, `Defaults`, `DefaultTypes` and `Converted` define element by
  element. What takes work is that the recursive definitions mean anything. For the search, `Recursion`
  constructs its function: the least relation between classes and answers that is closed under the rule is a
  function, because a class at which it were not one would be the least of a set, and
  `HierarchyAssumption` gives one whose bases are not in the set. With the equation,
  `FindFound`, `FindNull` and `FindHides` argue in the same way, by a least class that the
  claim is false for. `Flattened` does it for `FlattenSeq` by the length of the prefix: `OneEach` then
  says when the sequence flattened has one element for each parameter, which is all `ArgumentsPassed` is about.
  `NotHiddenHolds` needs `OnePath`: when a class is inherited twice, the search by depth comes
  to it before a class that hides its declaration on the other path.
* **`ReaderInv`** = `HeapOK` ∧ `StackOK` ∧ `HeldOnce`, for any document. `HeldOnce` divides the
  living objects among their owners, the calls that read, the form and the doomed,
  each in one place, so that a destructor deletes what nobody else holds (`OwnedOnceHolds`);
  `StackOK` says that a `read` works for a member of its caller's class. `ReaderTypes` has the hypothesis that the form
  has a length: the length of what `Save` writes is defined by recursion over the tree.
* **`WalkInv`**, beside `RccTypeOK`, is about the three traversals of rbrcc. `RccTypeOK` has
  `Trees`: a child is newer than its parent and has one parent, which `addFile` keeps
  and which makes the traversals visit a node once (`WalkOK`, with the stack and the
  children that are left). `WalkInv` says what stands of the image when a set of nodes
  has been visited: the blobs, the names, the child offsets, the entries. The tables
  agree only because the traversal that counts children and the one that writes
  their entries come to the directories in one order; both are told by one trace (`IsTrace`),
  which the tree alone determines, and `Counted` and `EntriesOf` speak of it. `LaidOutHolds`
  follows, the writer's half of `FilesFoundHolds`: the children of a directory have
  consecutive entries from its child offset on, in the order of their hashes, every name is
  there once and at its offset, and in one go every file's bytes lie whole at theirs.
  It rests on `NameAssumption` (hashes and places in a `QHash` are numbers, and two names never
  have one place), `DiskAssumption` and `CommandAssumption`, which say what a disk, a
  document and a command line have.
* **`FilesInv`**, beside `WalkInv`, is about the reader, and gives `FilesFoundHolds` with it.
  `Reading` says what of the documents has been added up to the token that is read,
  and `Filled` that in the end the tree holds all that is asked for and nothing else. That a tree
  holds a set of files (`Holds`) is said by the ways through it: `Way` goes from the root by
  the newest child of each name, as `addFile` does, and each file added ends one, and each
  way ends a file added or a directory above one; `addFile` keeps that, except for what it
  hides. Then the two searches have to be the same: `Leading` says that the entry which
  `QResource` reaches by bisection after so many names is the one written for the
  node at the end of the way, which rests on `LaidOut`: the entries are in the order of their hashes.
  Of several files with one path and locale it may be any (`Twins`), and `LiesFor` says that all
  that lie there are such. `Located` and `LocatedFound` add the bytes. `Listed`
  is the same for `-list`.
* **`FirstInv`** and **`PassInv`**, beside these, relate two processes for
  `SecondPassFitsHolds`. Up to the end of the data a process only reads its documents and walks: what
  it does is determined by its options and the order of keys, and `Next` is that one step,
  a run (`IsRun`) the states it leads through. `FirstInv` says that the first process is on
  a run and that the room it has reserved, and the data offsets that the structure has from it,
  are those of the end of a run. The run is kept beside the state, bound by an existential
  quantifier, so that it still can be spoken of when the process is gone. `PassInv` says
  that the second process, which has the same options and documents and another format, is on this
  very run, wherever its search is (`Begins`, `Searches`, `Writes`, `GoesOn`, `Ready`): `Scanned`
  says that the output is what was taken of the temporary file without the part
  of a signature held back, `Filling` that behind the signature lies the data of each node
  of the run at its offset and that all else is where it was. `RoomIs` shows that the
  object file has the signature with the room behind it, `OneSigned` that the search finds no
  other. `ObjectAssumption` says that an object file is a finite sequence of bytes.

`PROJECT.json` lists the theorems. Left to model checking:

* `EventuallyRuns`, `UicFinishes` and `RbrccFinishes`, which are liveness properties;
* `ReadsTheForm`, `SavedReadsBack` and the length of a saved form, which need induction over trees;
* `DefinedBeforeUse`, `EachOwnVariable` and `Wired` of the program written, which speak of all
  that was written in a walk over a form;
* `EverythingCompiled` when the limit of rounds is reached with as many functions;
* the violations, which are counterexamples.

## 6. Plan

Built: the registry and object life; signals; calls; arguments; the compilation
of methods, functions, constructors and default arguments; the tools rbuic and rbrcc. The former come first because every Ruby statement on a Qt
object passes through them.

Next, in this order:

1. **The front end's remainder**: templates, `find_class_decl` through typedefs,
   enums and the constants of `Qt_class_const_missing`.
2. **Lifetimes and connections together**: `RubyObjects` with `ConnectRuby`. An
   object in the slot of a collected sender inherits its `rbconnections5`.
3. **Singleton**: `inst` and `init` under two threads.
4. **ClassRegister**, then **LegacySignals** (`entry.cpp`), which nothing
   reaches.

Runs for them replace smaller ones: `Registry` is contained in what
`RubyObjects` checks, once `DelObject` has a caller there.

Theorems next: of `Uic` and `WriteInitialization`, that the names given are unique and that
every name in an output text was given.

## 7. Not modelled

* **IR generation**: what clang's code generator and `instantiate_method` do inside
  one function; `conv_method` and `conv_ctor`, which no live code calls, and
  `conv_dtor`, called from `vm_delete`, which nothing calls.
* **Singletons, class registration**: planned.
* **Legacy entry and JIT** (`entry.cpp`, `clvm*.cpp`): compiled and never called.
* **rbuic**: the bytes of embedded images, the code of `<script>` elements, the
  listing of dependencies, and what Ruby output does not call.
* **rbrcc**: `createProject`, `resourceDataFileMap`, which nothing calls, and the
  text of the initializer.
* In modelled parts: `to_s`, constants, debugging output, attributes and widths
  of IR values, reading IR from files, the deprecated connection tables
  (`rbconnections` to `rbconnections4`), and `remove` and `removeEE`, which have
  no caller.
