# TLA+ models of tjv

tjv is a Tcl extension in C that validates Tcl values and JSON documents
against a schema. This directory holds TLA+ modules translated from `src/`,
TLC configurations that check them on small instances, and proofs that TLAPS
checks for every value of the constants.

## The system

| Component | Source | State it keeps | Operations |
|---|---|---|---|
| Handle lifecycle | `library.c` | the handlers (`tjv_ValidationHandler`: command, root element, bound variable name) and the traces on bound variables | `::tjv::compile`, `$h destroy`, `$h validate`, `::tjv::validate`, trace callback, command delete callback |
| Schema compiler | `tjvCompile.c` | a tree of `tjv_ValidationElement` | `tjv_ValidationCompile`, `...CompileItems`, `...CompileProperties`, `...ElementFree` |
| Tcl validator | `tjvValidateTcl.c` | the C stack: one `tjv_ValidationStack` per active call; an `item_outcome` per active array | `tjv_ValidateTcl` and one function per type |
| JSON validator | `tjvValidateJson.c` | the same | `tjv_ValidateTclJson` (parses), `tjv_ValidateJson` and one function per type |
| Outcomes, stack | `common.h` | the outcome dictionaries, the `next`-linked frames | `ADD_OUTCOME` |
| Messages | `tjvMessage.c` | the error lists, static strings per thread | `tjv_MessageGenerate*`, `tjv_MessageCombine*` |
| Thread caches | `tjvCompile.c`, `tjvMessage.c` | patterns and strings per thread, two process-wide "initialised" flags | once-only init under a mutex, thread exit handlers |

How they interact. A script compiles a schema: the compiler builds elements,
`library.c` wraps them in a handler whose address names a new Tcl command and,
if a variable is given, writes that name to it and puts a write/unset trace on
it. Tcl calls back when the variable is written or unset and when the command
is deleted; the unset callback deletes the command, the delete callback takes
the trace off and frees everything. A validation walks schema and value
together. The Tcl validator enters the JSON validator when it meets a `json`
element; both report through `tjvMessage.c`, which walks the frames from the
outermost one along `next`, and store through an outcome pointer that arrays
replace with the address of a local of theirs.

What is hard. Nothing in one interpreter runs in parallel, but

* callbacks interleave with commands: an unset runs several callbacks in a row
  on a trace list already detached; a procedure's return deletes its locals
  while the caller's frame is current; compile and validate write variables
  that have traces;
* a trace is found again by the *name* of its variable in the *current* frame,
  and the same name may be another variable there;
* addresses are reused: a new handler can get the address, and so the command
  name, of one that was freed;
* the validators keep pointers into the C stack (`next`, `item_outcome_ptr`)
  and reuse a dictionary from item to item;
* failures are partial: results of assignments and traces are ignored, a
  validation goes on after an error, a compilation stops in the middle;
* Tcl and JSON differ where they look alike: the last of equal keys or the
  first, case or no case, wide integers or ints, stored or not stored.

`PROJECT.json` lists each of these as a hazard at its line, with the properties
that cover it, or why none does.

What makes each component correct: no callback runs with a freed handler and no
bound handle is lost (handles); an accepted value satisfies its schema, errors
are exactly the violations with the path of each, the outcome holds exactly the
values with an outkey, every validation ends (validators, outcomes, messages);
every element and object is released once on every path (compiler); every
thread releases its caches (caches).

## Modules

| Module | Contents |
|---|---|
| `Handles` | the handle lifecycle with the part of Tcl it relies on |
| `MCHandles` | the instance of `Handles` for TLC |
| `Validate` | both validators with outcomes and error paths |
| `SchemaMeaning` | what a compiled schema says of a value, without calls and pointers: the reference that replies of `Validate` are compared with, and the two properties that use it |
| `MCValidate` | schemas and values for `Validate` and `SchemaMeaning`, and what the documentation says of them |
| `HandleRegistry` | what scripts are promised of handles; `Handles` implements it |
| `Compile` | the compiler, the references its elements hold, and their release |
| `MCCompile` | schemas with and without a fault for `Compile` |
| `ThreadCaches` | several threads that load the package, use its caches and exit |
| `SeqLemmas` | what the sequence operators of the community modules return |
| `HandlesProofs`, `ValidateProofs`, `CompileProofs`, `ThreadCachesProofs` | the theorems |
| `CompileTreeProofs` | the theorems about the tree of elements that `Compile` builds |
| `MeaningProofs` | the theorem that a validation reports what the schema says |
| `OutcomeProofs` | the theorem that a validation stores what the schema says |

The modules meet as follows. `HandleRegistry` is the abstract specification of
`Handles`. `Compile` yields the element trees that `Validate` walks (`NewFrame`
there reads the flags that `Return` sets here) and whose address `Handles`
calls a handler; `ThreadCaches` is about the one object of `Compile` that is
not the script's or the element's own, the thread's cached pattern.

Definitions whose comment begins with "Fault" are altered forms of the
definition after them; `PROJECT.json` pairs each property with one, and TLC
finds the property violated when the altered form takes the original's place.
They are no part of the specifications.

### Handles

| Model | Code |
|---|---|
| `trace_var[a]` | the handler at address `a`: `h->trace_var` (`NoVar` is NULL), or `Free` |
| `value[f][v]`, `traces[f][v]` | Tcl: value of variable `v` of frame `f`, the `clientData` of its traces, most recent first |
| `detached` | callbacks of an unset that Tcl still has to run |
| `depth` | the current frame; frame 1 is the global one |
| `ub` | a callback was entered with a freed handler (undefined behaviour: nothing follows it) |
| `CompileUnbound`, `CompileBound`, `CompileUnresolved` | `tjv_CompileCmd` without a variable, with one, with a name whose assignment and trace both fail |
| `Destroy`, `Delete` | `destroy` (or `rename $h ""`), `tjv_HandleDeleteProc` |
| `Write`, `FireUnset` | the two branches of `tjv_HandleVarTraceProc` |
| `Validate`, `ValidateInline` | the assignment of the outcome variable |
| `SetVar`, `UnsetVar`, `Call`, `Return`, `DropLocal` | the script and Tcl around the extension |

`CompileBound` is one step: the C function runs the callbacks of the variable
inside it, through `Write`. An unset is several steps, because other callbacks
of tjv are all that may run between two callbacks and their order matters.
`CrossScope` says whether a script may destroy a handle while its variable's
name does not reach the variable.

### HandleRegistry

A handle is live from its compilation until it is destroyed or its variable
ends; a variable's end dooms exactly the handles bound to it, and a doomed
handle goes before anything else is done. There are no scopes, traces or
callbacks. `Handles` maps to it with

| `HandleRegistry` | `Handles` |
|---|---|
| `live` | the addresses with a handler that is not freed |
| `owner[h]` | the variables (frame and name) whose trace list has the handler |
| `doomed` | the handlers whose unset callback Tcl has yet to run |

so that a trace left behind, a trace twice on one variable, a callback that
takes another variable's trace off, or an unset that frees the wrong handler is
a step the registry does not have. `ImplementsRegistry` is checked by TLC with
the fairness, and its safety part is proved.

### Validate

`frames` is the call stack of the C code: one record per active
`tjv_ValidateTcl` or `tjv_ValidateJson`, with the element and its flag, the Tcl
value and/or the JSON value, the outcome pointer (`out`, an index of
`outcomes`; 0 is NULL), and the fields of `tjv_ValidationStack` (`key`,
`index`, `next`). `outcomes` holds the command's dictionary and then one pair
of `item_outcome` and `result_outcome` for each active array that collects.
`root`, `input` and `reply` are the command's. Each action is one step of the
innermost call: enter, turn to the next property or item, leave. `Leave` does
what the code does between a call's end and the caller's next step: store the
text of a `json`, reset `next`, collect the item's dictionary, advance the index.
`Again` reuses the same handle for another value.

Abstractions:

* numbers are counted in halves, so that 1.5 is a number and no integer;
  `IntMax` stands for 2^31 - 1 and is scaled down, so that a wide integer
  beyond it is among the inputs;
* a pattern is the set of texts that match it (glob, regexp, list and the
  predefined types differ only in that set and in the keyword they report);
* an outcome dictionary is a function of the key lists under which values are
  stored; one list may extend another, and then a stored value that reads as a
  dictionary is extended. No list is empty, and their keys are assumed to be no
  words of what is stored (texts of Tcl values and of JSON strings, rows of
  arrays), so that a value that is extended has nothing there yet;
* values are trees with what each conversion of Tcl makes of them given with
  the value: `int`, `num`, `bool`, `list`, the parsed `json`; a JSON string is
  given by the Tcl value that its text makes when it is stored, which may be a
  list or a dictionary like any other;
* the wording of messages is left out, keyword and path are kept.

### Compile

| Model | Code |
|---|---|
| `schema` | the Tcl values of the schema, node by node, with at most one fault |
| `stack` | the active calls of `tjv_ValidationCompile`: the node, `rc`, the loop index of the properties |
| `failed` | the calls are returning NULL |
| `elem[a]` | the `tjv_ValidationElement` at `a`: type, json flag, `key`, `outkey`, `pattern`, children |
| `refs[o]` | the reference count of `o`, as the set of the fields, list slots and outside owners that it counts |
| `intact` | the fields whose split list or compiled regexp is still the internal representation of its object |
| `report` | the keys put in front of the error message |
| `Reject`, `Create` | the options are refused before, or read after, `ckalloc` |
| `CompileItems`, `CompileProperty`, `FormatError` | the two callers of the nested compilation, and a malformed format |
| `Return`, `Unwind` | the two ends of the call, with what its caller does next |
| `FreeRoot` | `tjv_HandleDeleteProc` or the end of `tjv_ValidateCmd`, through `tjv_ValidationElementFree` |
| `Convert`, `Forget` | the script uses an object as another type, or lets it go |

A schema is a tree of the nodes 1 to `Nodes` in the order of the document: a
child comes after the node it is in, and no node is a child twice. The compiler
reads nested lists, so that this is how any schema can be numbered.

With sets of owners for reference counts, a reference taken twice, released
twice or forgotten shows as an owner that is missing or should not be there;
an object is free when nobody owns it. `lost` is a history variable: the json
items that were freed without their format. `Freed` is the least set that
follows the children the way `tjv_ValidationElementFree` recurses, by the flag
of a json.

Abstractions: which option is refused, and with which words, is one choice
among the faults of a node; regular expressions and bounds are objects with no
content; `keys_objv` is computed and never read, and `-command` is not in the
option table (`tjvCompile.c:359` is a comment), so that both are left out.

### ThreadCaches

| Model | Code |
|---|---|
| `pc`, `file` | where a thread is; whose `...Init` it runs |
| `mutex`, `initialized` | `tjv_*_mutex`, `tjv_*_initialized` of `tjvCompile.c` and `tjvMessage.c` |
| `handlers[t]` | Tcl's thread exit handlers, the last registered first |
| `cache[t][k]` | the thread's `ThreadSpecificData`: the pattern of a predefined type, or the message strings |
| `element`, `outcome` | elements and outcome dictionaries of the thread that refer to cached objects |
| `content`, `refs` | what an object was made for; its owners |
| `Load`, `Lock`, `Check`, `Register`, `Unlock` | `Tjv_Init`, the two `...Init` functions statement by statement |
| `Compile`, `Delete` | an element takes the cached pattern; `tjv_ValidationElementFree` drops it |
| `Generate`, `Combine`, `CombineDetails` | the message functions as users of the strings |
| `Exit`, `RunHandler`, `Die` | the thread ends: interpreters, handles and outcomes go, the exit handlers run |

The static strings are one array, filled at once and released in one loop, and
are one key; the predefined types are independent of each other. What an
interpreter holds is gone when its thread is dead, and may go before or after
the exit handlers.

## Runs

| Run | Shows |
|---|---|
| `handles` | with handles destroyed in scope: no use of a freed handler, no dangling or doubled trace, no lost bound handle, bound variables are read-only, unset and return free the handle, an unset leaves other variables alone, and all of it is what `HandleRegistry` promises |
| `handles_foreign_destroy` | *violation*: `destroy` in another frame than the variable's leaves the trace with a freed handler |
| `handles_rebind` | *violation*: compiling into a bound variable leaves the old handle's name in it |
| `validate` | validations end, errors and outcome are exactly those of the recursive reference, `next` is the call stack, outcome pointers are live, items start with an empty dictionary |
| `validate_json_items` | *violation*: `-properties`/`-items` of a json that is an array item, and of a json within a JSON document, are never applied; one schema and one value that is wrong in both places and is accepted |
| `validate_outkey` | *violation*: an array without `-items`, and an object and a json within a JSON document, are not stored under their outkeys; one schema and one value that has all three and leaves an empty outcome |
| `compile` | for every nesting of formats and a fault at any node: no field points to an object it has no reference to, every reference is one that a call, the command or an element that these still find will release, every element is the child of one element or the element of one call, only the format of a json array item is left allocated, compiled patterns stay valid, elements have the flags, children and keys of the schema, an error names the properties on the way to it, compilation ends |
| `compile_leak` | *violation*: the format of a json that is an array item is never freed |
| `compile_outkey` | *violation*: the split form of an `-outkey` dies when its object, which is not copied, is used as another type |
| `threads` | two threads load, compile, report and exit in any order: each exit procedure is registered once, loading ends, patterns outlive the caches, strings are there when used, the registering thread leaves no pattern |
| `threads_patterns` | *violation*: a thread that was not the first to load leaves its patterns |
| `threads_strings` | *violation*: the cached strings are not released even where the procedure is registered |

**Bounds of the Handles runs.** Three addresses, a local name, a global name
and a name that does not resolve, two frames (43,788 states). Two handlers on
one variable and a third on the variable of the same name in the other frame is
the largest situation a step looks at: the callbacks act on one handler, one
trace list and one name lookup at a time, and address reuse needs one address.
A third frame adds no case, because a name resolves in the current frame or in
the global one.

**Bounds of the Validate runs.** 43 schemas and 37 values, each with each (1,591
validations from the start, 11,820 states). The schemas have every type, objects
in arrays in objects, arrays in arrays with and without outkeys in between,
JSON within dicts and lists, nullable elements, outkeys at several depths, and
outkeys that extend one another, over a scalar, a dictionary and a list.
The values have, for each, valid and invalid ones, lists and dicts that read as
one another, repeated keys, keys that differ in case, malformed lists, numbers
beyond an int, JSON texts, and JSON strings that read as a dictionary (`x y`,
the empty string) or do not (`x`), where a longer outkey follows. Two to three levels are enough to have a frame, its
caller and its caller's caller, which is as far as any pointer is passed
in one step; three items let a storing, a non-storing and another storing item
follow one another.

**Bounds of the Compile runs.** 692 schemas of up to five nodes, with no fault
or one, five addresses, two objects of the script, one command per behaviour
(89,769 states). The schemas nest `-items` and `-properties` of arrays,
objects and json in each other to depth three, which is a call, its caller and
an element already finished beside it; each kind of pattern is at each place.
Two objects are enough for one to be shared between key, outkey, pattern and
bound of the same or of another element while the other is not. One fault is
enough, because the first ends the compilation. The deadlock check is off
because a command that is over, with nothing left for the script to forget, is
the end.

**Bounds of the ThreadCaches runs.** Two threads, one predefined type, two
elements, four objects, one load per thread (189,630 states). The types are
independent, and a thread makes at most one pattern and one set of strings,
so that four objects never run out while others are needed. `MaxLoads` is 1:
a thread that loads again finds the flags set, as it does when the other
thread was first. With `MaxLoads = 2` the properties hold as well (2.2
million states). The deadlock check is off because all threads may have ended.

**Fairness.** `Handles`: weak fairness of the pending callbacks (`FireUnset`)
and of the deletion of a returned procedure's locals (`DropLocal`); Tcl runs
both to the end before it runs another command. Scripts are never obliged to do
anything. `Validate`: weak fairness of `Step`, because a C function that is
running goes on; `Again` has none. `Compile`: weak fairness of `Step`, for the
same reason; what the script does with its objects has none. `ThreadCaches`:
weak fairness of each thread's `Loads`, because the system schedules a thread
that runs `Tjv_Init` and a mutex that is free from then on is got; threads are
not obliged to load, to work or to exit. A thread waits for a mutex while it
is taken and lets the other by at most once per load, so that weak fairness is
enough. `HandleRegistry`: weak fairness of `Follow`, which `Handles` gets from
`FireUnset` and `DropLocal`.

`ErrorsAreExact` and `OutcomeIsExact` compare with `Violations` and `Stores` of
`SchemaMeaning`, recursive functions of a question (an element, a value, and the
path to it) that have no frames, no pointers and no shared dictionaries; they
go down the schema, whose elements have a `Depth`. They share with the model what a single scalar
conversion and lookup says (`Fault`, `Reading`, `DictGet`, `JsonGet`, `Opens`)
and `NewFrame`, which decides the shape of one element; they are independent of
the walk, of the paths and of the storing: which of the values stored under
keys that extend one another remain is said of all of them at once. Both are
about the schema as the code compiles and walks it, and share its omissions: a
json that is an array item or within a JSON document has no format to violate,
and arrays without `-items` and objects and jsons within a JSON document store
nothing of their own. What the documentation says instead is in `MCValidate`:
`Satisfies` goes by the format that `-type`, `-properties` and `-items` give
(`Format`), whatever the value is and wherever it stands, and `Owed` are the
outkeys of all elements that have a value. `AcceptedIsValid` and
`OutkeyIsStored` state them, and the list that follows has the differences.

## What the code does otherwise than its documentation says

1. `library.c:336` unsets the trace by name in the current frame: a handle
   destroyed by another procedure leaves a trace with a freed handler.
2. `library.c:258` ignores the result of the assignment: a variable that is
   bound already keeps the old handle's name.
3. `tjvCompile.c:239` overwrites the flag of a json that is an array item: its
   format is compiled and never applied.
4. `tjvValidateJson.c:354` does nothing for a json within a JSON document: its
   format is compiled and never applied there either, nor is it stored under
   its `-outkey`.
5. `tjvValidateTcl.c:77` (and `tjvValidateJson.c:85`) skips `ADD_OUTCOME` for
   arrays without `-items`.
6. `tjvValidateJson.c:61` has no `ADD_OUTCOME`: an object within a JSON
   document is not stored under its own `-outkey`, only its properties are.
7. `tjvCompile.c:239` again: `tjv_ValidationElementFree` goes by that flag, and
   the elements below a json array item leak, with the references they hold.
8. `tjvCompile.c:557` splits the outkey in place, without the copy that the
   comment at line 643 gives as the reason for copying list patterns.
9. `tjvCompile.c:834` (and `tjvMessage.c:250`) registers the thread exit
   procedure in the first thread that loads the package only.
10. `tjvMessage.c:234` overwrites each cached string with a new object before
    it releases it.

## Proofs

From the constants' assumptions (`HandlesAssumption`, `ValidateAssumption`,
`MeaningAssumption`, `CompileAssumption`, `ThreadCachesAssumption`) only, for any set of addresses,
names, schemas, values, threads and objects and any depth:

| Theorem | States |
|---|---|
| `TypeCorrect`, `ValidateTypeCorrect`, `CompileTypes`, `ThreadTypes` | `[]TypeOK` of each module |
| `HandlesAreWatched` | `[]OwnedHandleIsWatched`, with or without `CrossScope` |
| `BoundVariableIsReadOnly` | `[]BoundVariableHoldsAName`, with or without `CrossScope` |
| `TracesAreSafe`, `NoTraceDangles`, `HandlersAreTracedOnce` | if `~CrossScope`: `[]NoUseAfterFree`, `[]NoDanglingTrace`, `[]TracedOnce` |
| `HandlesImplementRegistry` | if `~CrossScope`: `Spec => Registry!Safety` |
| `UnsetIsLocal` | if `~CrossScope`: `UnsetLeavesOtherTraces` |
| `PathsFollowCalls` | `[]ChainIsCallStack` |
| `OutcomesOutlivePointers` | `[]OutcomePointersAreLive` |
| `ItemsAreApart` | `[]ItemsStartAfresh` |
| `ErrorsExact` | `[]ErrorsAreExact` |
| `OutcomeExact` | `[]OutcomeIsExact` |
| `ReferencesAreHeld` | `[]NoDanglingReference` |
| `ReferencesAreReleased` | `[]NoForgottenReference` |
| `PatternsStayCompiled` | `[]PatternCachesIntact` |
| `OneOwner` | `[]ElementsHaveOneOwner` |
| `Leaks` | `[]OnlyJsonItemsLeak` |
| `AsWritten` | `[]CompiledAsWritten` |
| `PathsOfErrors` | `[]ErrorNamesThePath` |
| `ProceduresAreRegisteredOnce` | `[]RegisteredOnce` |
| `PatternsOutliveTheirCache` | `[]PatternsAlive` |
| `StringsAreReady` | `[]StringsReady` |
| `RegistrarReleases` | `[]RegistrarReleasesPatterns` |

*Handles.* `IInv == TypeOK /\ NoUseAfterFree /\ NoDanglingTrace /\ TracedOnce`.
None of the last three is inductive alone: a callback has a live handler
because every trace on a variable carries one, and a delete leaves no trace of
its handler behind because the handler is traced once, in the scope the name
reaches. The pending callbacks of an unset are the case that needs care: the
handler of one is on no other variable, so looking its name up in the wrong
frame removes nothing. This is why an unset in another frame is harmless where
a destroy is not, and it is also the proof of `UnsetIsLocal`. `DeleteEffect`
says what a delete does to the trace lists; each action then has a step.
The refinement rests on `IInv`: each action is mapped to `Compile`, `Destroy`,
`End` or `Follow` of the registry, or to a stutter, and what decides is which
trace lists a delete and a detaching of callbacks leave without the handler.

*Validate.* `IInv == TypeOK /\ Quiet /\ ChainIsCallStack /\ Nested /\
ItemsStartAfresh`. `Nested` says that an array's dictionary is that of the
frames it calls: the outcome pointers are within the active outcomes
(`Within`), the arrays that collect are in the order of their dictionaries
(`Ordered`), each dictionary but the command's belongs to an active array
(`Owned`), and each pointer to one is passed from a frame further out
(`Reachable`). Without the order a return could release a dictionary that
another frame still points to. The proof first shows for each action which kind
of step it is (a frame kept, opened, closed, pushed, popped, the last one
popped), then once for each kind that it keeps the invariant.

*What a validation reports* (`MeaningProofs`). `ErrorsInv` gives each active call
the question it is to answer and the errors found before it was called: a
sequence `g` that no variable of `Validate` has, which the invariant says exists.
`Asks`: the call has what its question is about. `Waits`: it has asked the next
call about the part it has come to, so the path to that part is the path of the
question, which is how the chain of `next` pointers comes to spell it
(`PathOfQuestion`). `Found`: what the innermost call has found is the violations
of the parts it has passed, so when it leaves they are those of its question.
`Violations` is a recursive function over infinitely many questions; that it
is what its definition says is proved first (`ViolationsDefined`), from the answers to
questions about elements of less than each depth.

*What a validation stores* (`OutcomeProofs`). `OutcomeInv` adds to each call `st`,
what its outcome has been given before it was called, and says as long as there
is no error (`Holds`): the dictionary a call stores to is `Dict` of `st` and of what
the call has stored by now (`Stored`); the list of an array that collects has the
dictionaries of the items it has passed (`Rows`); a property is called with its
object's dictionary and an item with the array's own, empty one (`Passes`). An
object that waits shares its dictionary with the call it waits for, so `Stored` is
not said of it; an array that waits shares it with nobody, which is what
`Nested` gives (`ArraysOutcomeIsApart`, `ItemIsApart`) and where a wrong outcome
pointer would break the proof. `Dict` says of all values stored which of them
remain; that it grows by one value as `Put` does, whatever is a prefix of
whatever, is `DictGrows`. That a pair of calls and questions is the same whichever `g`
is chosen (`SameQuestions`) lets `OutcomeInv` speak of every `g` of `ErrorsInv`.

*Compile.* `IInv` is `TypeOK`, `schema \in Schemas`, `ScriptHoldsItsOwn`,
`FramesInv`, `FlagsInv`, `OwnersInv`, `NoDanglingReference`, `PatternsOwn` and
`PatternCachesIntact`. An owner of a reference may be a call under way, so
`FramesInv` says that while nothing has failed every call but the innermost has
an element of its own node that no other call has. A keys list is only released
for elements that are released as objects, so `FlagsInv` ties the flag of an
element to the format it was compiled with: a json loses it only as an array
item, and then its free puts it in `lost`. `OwnersInv` only says that the
element that holds a reference is allocated; that somebody will free it is for
the tree to show. `PatternsOwn` (a compiled pattern is the element's
copy or the thread's object, `ScriptHoldsItsOwn`: which no script can reach) is why
`Convert` cannot hurt one.

*The tree of elements* (`CompileTreeProofs`). `TreeInv` is inductive together
with the `IInv` of `CompileProofs`. `CallsInv`: the calls lead from the root of
the schema to the innermost one, each waiting for the child it is at.
`CallElementsInv`: the element of a call is that of its node and has the
children compiled so far. `ElementsInv`: an element has the type and the objects of
its node, and when no call has it any longer, the final flag and all children.
`RootInv`: what a compilation ends with is an element of the root.
`ElementsHaveOneOwner` is what makes a free harmless: what is reached from one
element's children is reached from no other's. `HeldInv`: an element
is reached from an active call's element, or from the command's, or lies below a
json array item. With `OwnersInv` it gives `NoForgottenReference`: what is
reached is freed by that call or by the command (`HeldIsKept`), with its fields
and, if its flag says so, its keys list; what lies below a json array item keeps
its references, and that json's own keys list is in `lost` or will be, which
are the exceptions that `Owned` names. `ReportInv`: the keys put in front of the
message so far, below the keys on the way to the innermost call, are the path of
the faulty node. `Freed` is a least set and `Path` and `Above` are recursive
functions of a node; the first is unfolded by exhibiting closed sets
(`Reach`), the others by induction on the number of the node, which is why the
numbering is assumed to follow the tree. The induction itself is over a set of
numbers (`CountingUp` and `LeastNatural` in `SeqLemmas`).

*ThreadCaches.* `IInv == TypeOK /\ Locked /\ Listed /\ ObjectInv /\ Released
/\ Reporting`. `Locked`: who is between lock and unlock has the mutex, and who
is about to register found the flag unset. `Listed`: what a thread will run at
its exit was registered by it, once. `ObjectInv`: a cached object is what it was
made for and is owned by the cache, an element owns its pattern, and a thread's
cache owns nothing but what it holds. `Released`: the registering thread still
has the release to do, or has done it and has cached nothing since.

Model-checked only: liveness (`UnsetReleasesHandle`, `ReturnReleasesHandle`,
the liveness part of `ImplementsRegistry`, `Completes`, `Terminates`,
`LoadsEnd`), which rests on fairness and ENABLED. Every safety property that a
passing run checks is also proved.

## Not modelled

* The predefined regular expressions: string constants, whose meaning is that
  of Tcl's regular expressions.
* cJSON's and Tcl's parsers: external; modelled as what they make of a value.
* Registration of commands, configuration and the NaviServer hook:
  straight-line code. The hook calls `Tjv_Init` for each interpreter, which is
  `Load` of `ThreadCaches`.
* Deletion of a whole interpreter: Tcl deletes commands and variables in an
  order of its own; `ThreadCaches` only has that they are gone at the end.
* The wording of messages.
* A script's own trace that runs in the middle of `tjv_CompileCmd`
  (`library.c:265`): arbitrary commands inside a command, where `Handles` has
  commands one after another.
* An empty key list as an outkey (`common.h:83`): `Tcl_DictObjPutKeyList`
  aborts the process.

## Plan

1. `Handles`, `Validate`, `Compile`, `ThreadCaches`, `HandleRegistry` and their
   proofs: done.
2. Scripts' traces inside `tjv_CompileCmd`, and `Handles` composed with
   `Validate`, where the element tree is released while a validation runs.
3. `RegisteredOnce` and the lock as a refinement of a once-only initialisation.
4. A variant of a validation and of a compilation that every step decreases: what
   `Completes` and `Terminates` say but for fairness and ENABLED.
