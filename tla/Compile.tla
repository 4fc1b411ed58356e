------------------------------ MODULE Compile ------------------------------
(***************************************************************************)
(* Compiling a schema and owning what it compiles to (src/tjvCompile.c).   *)
(*                                                                         *)
(* tjv_ValidationCompile allocates one element per schema node, calls      *)
(* itself for the formats nested in -items and -properties, and on any     *)
(* error frees what the call under way has built.  An element keeps Tcl    *)
(* objects of the schema (its key, its outkey, a glob pattern), private    *)
(* copies (a regexp or list pattern), objects of its own (the stub key of  *)
(* array items) and the thread's cached pattern of a predefined type; for  *)
(* some it also keeps pointers into the internal representation.           *)
(*                                                                         *)
(* The module follows one command: ::tjv::compile until its handle is      *)
(* deleted, or ::tjv::validate with the schema in line.  A reference count *)
(* is the set of the fields, list slots and outside owners it counts, so   *)
(* that a reference taken or released by mistake shows as an owner.        *)
(***************************************************************************)
EXTENDS Naturals, Sequences, SequencesExt

CONSTANTS
  Nodes,    \* the number of nodes of a schema
  Root,     \* the node that the command compiles
  Obj,      \* the Tcl objects of the script that a schema may mention
  Addr,     \* the addresses the allocator can return for an element
  None,     \* NULL
  Schemas   \* the schemas that scripts write

\* The nodes of a schema, in the order in which they are written.
Node == 1..Nodes

NodeType == {"object", "array", "json", "string", "custom", "number", "boolean"}

\* Where the compilation of a node goes wrong.
Fault == {
  "none",
  "args",        \* the options of the node: nothing is allocated yet
  "outkey",      \* -outkey is not a list
  "options",     \* -match without -pattern or unknown, a bound that is not a
                 \* number, -items together with -properties
  "pattern",     \* -pattern is no regexp, or no list
  "items",       \* -items is not a list
  "properties",  \* -properties is not a list
  "element"}     \* the property itself is not a list, or an empty one

SchemaNode == [
  type : NodeType,
  form : {"none", "items", "properties"},
  children : Seq(Node),
  key : Obj \cup {None},      \* of a property
  outkey : Obj \cup {None},
  pattern : Obj \cup {None},
  match : {"regexp", "list", "glob"},
  before : SUBSET Obj,        \* the word of -type: converted before -outkey is split
  after : SUBSET Obj,         \* the words of -match, -minimum, -maximum: after it
  fault : Fault]

\* Objects that tjv creates: the key of the items of the array at an address,
\* the copy of a pattern for the element at an address, the pattern of a
\* predefined type that the thread keeps.
Stub(a) == <<a, "stub">>
Copy(a) == <<a, "copy">>
Cached == <<None, "cached">>
Object == Obj \cup {Stub(a) : a \in Addr} \cup {Copy(a) : a \in Addr} \cup {Cached}

\* Who holds a reference: a field of an element, a slot of the keys list of an
\* object, the temporary list of a call to tjv_ValidationCompileItems, the
\* script, the thread's cache.
Fields == {"key", "outkey", "pattern"}
Slot(a, i) == <<a, "listed", i>>
Temporary(a) == <<a, "format">>
Script == <<None, "script">>
Thread == <<None, "thread">>
Holder ==
  {Script, Thread} \cup (Addr \X (Fields \cup {"format"}))
    \cup (Addr \X {"listed"} \X (Nat \ {0}))

Element == [
  node : Node, type : NodeType,
  flag : {"none", "object", "array", "skip"},
  key : Object \cup {None}, outkey : Object \cup {None}, pattern : Object \cup {None},
  kids : SUBSET Addr]

Frame == [node : Node, rc : Addr \cup {None}, next : Nat \ {0}]

ASSUME CompileAssumption ==
  /\ Nodes \in Nat /\ Root \in Node
  /\ Schemas \subseteq [Node -> SchemaNode]
  /\ \A s \in Schemas : \A n \in Node :
       /\ s[n].form = "items" => s[n].type \in {"array", "json"} /\ Len(s[n].children) = 1
       /\ s[n].form = "properties" => s[n].type \in {"object", "json"}
       /\ s[n].form = "none" => s[n].children = << >>
       \* a schema is a tree, and a property is written with its key
       /\ \A i \in DOMAIN s[n].children :
            /\ s[n].children[i] > n /\ s[n].children[i] # Root
            /\ \A m \in Node : \A j \in DOMAIN s[m].children :
                 s[m].children[j] = s[n].children[i] => m = n /\ j = i
  /\ None \notin Node /\ None \notin Addr /\ None \notin Object /\ None \notin Element
  /\ \A a \in Addr : Stub(a) \notin Obj /\ Copy(a) \notin Obj
  /\ Cached \notin Obj

VARIABLES
  schema,  \* the schema of the command
  phase,   \* what the command is doing
  stack,   \* the calls of tjv_ValidationCompile under way, outermost first
  failed,  \* the calls are returning NULL
  report,  \* the keys in front of the error message
  root,    \* the element the command keeps
  elem,    \* per address: the element, or None
  refs,    \* per object: the references counted; none when it is freed
  intact,  \* the fields whose split or compiled form is still that of the object
  lost     \* history: json items that were freed without their format

vars == <<schema, phase, stack, failed, report, root, elem, refs, intact, lost>>

Top == stack[Len(stack)]
Caller == stack[Len(stack) - 1]
Written == schema[Top.node]
Nested == Len(stack) > 1

\* The fields whose cached form dies when the objects change their type.
Stale(objs) ==
  {c \in Addr \X Fields : elem[c[1]] # None /\ elem[c[1]][c[2]] \in objs}

----------------------------------------------------------------------------
(* tjv_ValidationElementFree: the children of a json are found by its      *)
(* flag, which says what the json was declared as.                         *)

ReleasedAs(e) ==
  CASE e.type = "json" /\ e.flag = "object" -> "object"
    [] e.type = "json" /\ e.flag = "array" -> "array"
    [] OTHER -> e.type

\* Fault: the flag of a json is forgotten.
FollowedByType(a) ==
  IF elem[a] # None /\ elem[a].type \in {"object", "array"} THEN elem[a].kids ELSE {}

Followed(a) ==
  IF elem[a] # None /\ ReleasedAs(elem[a]) \in {"object", "array"} THEN elem[a].kids ELSE {}

\* Fault: the children are freed, the element itself is not.
FreedBelow(a) == {b \in Addr : b # a /\ b \in Followed(a)}

\* The elements that one call frees: the least set that follows the children.
Freed(a) ==
  {b \in Addr : \A S \in SUBSET Addr :
      (a \in S /\ \A c \in S : Followed(c) \subseteq S) => b \in S}

\* Fault: the keys list is not released.
DropsFields(as, h) == h[1] \in as /\ h[2] \in Fields

\* Whether freeing the elements drops the reference: of their fields always,
\* of their keys lists when they are released as objects.
Drops(as, h) ==
  /\ h[1] \in as
  /\ \/ h[2] \in Fields
     \/ h[2] = "listed" /\ ReleasedAs(elem[h[1]]) = "object"

Release(as, r) == [o \in Object |-> {h \in r[o] : ~Drops(as, h)}]

Free(as) ==
  /\ elem' = [a \in Addr |-> IF a \in as THEN None ELSE elem[a]]
  /\ intact' = intact \ (as \X Fields)
  /\ lost' = lost \cup {a \in as : elem[a] # None /\ elem[a].flag = "skip"
                                     /\ schema[elem[a].node].form # "none"}

----------------------------------------------------------------------------
(* A call of tjv_ValidationCompile returns.  tjv_ValidationCompileItems    *)
(* then drops its temporary list, and after an error in a property         *)
(* tjv_ValidationCompileProperties puts its key in front of the message.   *)

Bounced(r) ==
  IF Nested /\ schema[Caller.node].form = "items"
  THEN [o \in Object |-> r[o] \ {Temporary(Caller.rc)}] ELSE r

\* Fault: the keys are in the order in which the calls return.
AppendedReport ==
  IF Nested /\ schema[Caller.node].form = "properties" THEN Append(report, Written.key) ELSE report

Report ==
  IF Nested /\ schema[Caller.node].form = "properties" THEN <<Written.key>> \o report ELSE report

\* Fault: the first NULL ends the command.
EndAtOnce == "over"

AfterNull == IF Nested THEN "compiling" ELSE "over"

ReturnNull(r) ==
  /\ refs' = Bounced(r)
  /\ failed' = TRUE
  /\ stack' = Front(stack)
  /\ phase' = AfterNull
  /\ report' = Report
  /\ UNCHANGED <<schema, root>>

----------------------------------------------------------------------------
(* The command and its calls.                                              *)

Init ==
  /\ schema \in Schemas
  /\ phase = "compiling" /\ failed = FALSE /\ report = << >> /\ root = None
  /\ stack = <<[node |-> Root, rc |-> None, next |-> 1]>>
  /\ elem = [a \in Addr |-> None]
  /\ refs = [o \in Object |-> IF o \in Obj THEN {Script} ELSE {}]
  /\ intact = {} /\ lost = {}

Compiling == phase = "compiling" /\ ~failed

\* The options of the node are refused: before or after -type is looked up.
Reject ==
  /\ Compiling /\ Top.rc = None /\ Written.fault = "args"
  /\ \E words \in {{}, Written.before} : intact' = intact \ Stale(words)
  /\ ReturnNull(refs)
  /\ UNCHANGED <<elem, lost>>

Key ==
  IF ~Nested THEN None
  ELSE IF schema[Caller.node].form = "items" THEN Stub(Caller.rc) ELSE Written.key

\* Fault: the pattern of the script is kept, without a copy.
SharedPattern(a) ==
  IF Written.type = "custom" THEN Cached ELSE Written.pattern

Pattern(a) ==
  CASE Written.type = "custom" -> Cached
    [] Written.pattern = None -> None
    [] Written.match = "glob" -> Written.pattern
    [] OTHER -> Copy(a)

\* Fault: -properties marks a json as an array.
FlagOfItems(w) ==
  IF w.type = "json" /\ w.form # "none" THEN "array" ELSE "none"

Flag(w) ==
  IF w.type # "json" THEN "none"
  ELSE CASE w.form = "properties" -> "object"
         [] w.form = "items" -> "array"
         [] OTHER -> "none"

\* The element at address a, as far as it is filled in when the call goes on
\* or goes wrong.
NewElement(a) ==
  LET f == Written.fault
      out == f = "outkey"
      opt == out \/ f = "options"
  IN [node |-> Top.node, type |-> Written.type, flag |-> IF opt THEN "none" ELSE Flag(Written),
      key |-> IF out THEN None ELSE Key,
      outkey |-> IF out THEN None ELSE Written.outkey,
      pattern |-> IF opt THEN None ELSE Pattern(a),
      kids |-> {}]

\* Fault: the outkey is kept without a reference.
TakenForKeys(a, e) == {<<a, f>> : f \in {"key", "pattern"}}

\* The references the element takes.
Taken(a, e) == {<<a, f>> : f \in {g \in Fields : e[g] # None}}

\* The outkey is split where it is; a regexp is compiled, or a list pattern
\* split, in the element's pattern.  words: what the type's own options
\* converted after the outkey.
Caches(a, e, words) ==
  {c \in {<<a, "outkey">>} : e.outkey # None /\ e.outkey \notin words}
    \cup {c \in {<<a, "pattern">>} : e.pattern # None /\ Written.match # "glob"}

\* ckalloc the element and read the options; the thread keeps the pattern of
\* a predefined type.
Create ==
  /\ Compiling /\ Top.rc = None /\ Written.fault # "args"
  /\ \E a \in Addr, words \in SUBSET Written.after :
       LET e == NewElement(a)
       IN /\ elem[a] = None
          /\ Written.fault = "outkey" => words = {}
          /\ Written.fault \notin {"outkey", "options"} => words = Written.after
          /\ elem' = [elem EXCEPT ![a] = e]
          /\ stack' = [stack EXCEPT ![Len(stack)].rc = a]
          /\ refs' = [o \in Object |-> refs[o] \cup {h \in Taken(a, e) : e[h[2]] = o}
                                         \cup {h \in {Thread} : o = Cached /\ e.pattern = Cached}]
          /\ intact' = (intact \ Stale(Written.before \cup words)) \cup Caches(a, e, words)
  /\ failed' = (Written.fault \in {"outkey", "options", "pattern"})
  /\ UNCHANGED <<schema, phase, report, root, lost>>

Descending == Compiling /\ Top.rc # None
Call(n) == stack' = Append(stack, [node |-> n, rc |-> None, next |-> 1])

\* tjv_ValidationCompileItems: the format is copied behind a stub of a key.
CompileItems ==
  /\ Descending /\ Written.form = "items" /\ Written.fault = "none" /\ Top.next = 1
  /\ refs' = [refs EXCEPT ![Stub(Top.rc)] = @ \cup {Temporary(Top.rc)}]
  /\ Call(Written.children[1])
  /\ UNCHANGED <<schema, phase, failed, report, root, elem, intact, lost>>

Property == Written.children[Top.next]

\* tjv_ValidationCompileProperties, one property: its key goes to the keys list.
CompileProperty ==
  /\ Descending /\ Written.form = "properties" /\ Written.fault = "none"
  /\ Top.next \in DOMAIN Written.children
  /\ schema[Property].fault # "element"
  /\ refs' = [refs EXCEPT ![schema[Property].key] = @ \cup {Slot(Top.rc, Top.next)}]
  /\ Call(Property)
  /\ UNCHANGED <<schema, phase, failed, report, root, elem, intact, lost>>

\* The value of -items or -properties, or one of the properties, is malformed.
FormatError ==
  /\ Descending
  /\ \/ Written.fault \in {"items", "properties"}
     \/ /\ Written.form = "properties" /\ Top.next \in DOMAIN Written.children
        /\ schema[Property].fault = "element"
  /\ failed' = TRUE
  /\ UNCHANGED <<schema, phase, stack, report, root, elem, refs, intact, lost>>

\* error: the element is freed, with the elements that are already below it.
Unwind ==
  /\ phase = "compiling" /\ failed
  /\ Free(Freed(Top.rc))
  /\ ReturnNull(Release(Freed(Top.rc), refs))

\* Fault: the loop over the properties does not advance.
NotAdvanced == Front(stack)

Advanced == [Front(stack) EXCEPT ![Len(stack) - 1].next = @ + 1]

\* The call returns its element, and its caller stores it.
Return ==
  /\ Descending /\ Written.fault = "none" /\ Top.next \notin DOMAIN Written.children
  /\ refs' = Bounced(refs)
  /\ stack' = IF Nested THEN Advanced ELSE << >>
  /\ IF Nested
     THEN /\ elem' = [a \in Addr |->
               CASE a = Caller.rc -> [elem[a] EXCEPT !.kids = @ \cup {Top.rc}]
                 [] a = Top.rc /\ schema[Caller.node].form = "items" /\ elem[a].type # "array" ->
                      [elem[a] EXCEPT !.flag = "skip"]
                 [] OTHER -> elem[a]]
          /\ UNCHANGED <<phase, root>>
     ELSE phase' = "compiled" /\ root' = Top.rc /\ UNCHANGED elem
  /\ UNCHANGED <<schema, failed, report, intact, lost>>

----------------------------------------------------------------------------
(* What the command does with the element, and the script with its objects.*)

\* The handle's command is deleted, or tjv_ValidateCmd has no data or is done
\* with it.
FreeRoot ==
  /\ phase = "compiled"
  /\ Free(Freed(root))
  /\ refs' = Release(Freed(root), refs)
  /\ phase' = "over"
  /\ UNCHANGED <<schema, stack, failed, report, root>>

\* The script, or the validation of data, gives an object another type.
Convert(o) ==
  /\ phase = "compiled" /\ Script \in refs[o]
  /\ intact' = intact \ Stale({o})
  /\ UNCHANGED <<schema, phase, stack, failed, report, root, elem, refs, lost>>

\* The script forgets an object.
Forget(o) ==
  /\ phase # "compiling" /\ Script \in refs[o]
  /\ refs' = [refs EXCEPT ![o] = @ \ {Script}]
  /\ UNCHANGED <<schema, phase, stack, failed, report, root, elem, intact, lost>>

Step == Reject \/ Create \/ CompileItems \/ CompileProperty \/ FormatError \/ Unwind \/ Return
Next == Step \/ FreeRoot \/ \E o \in Object : Convert(o) \/ Forget(o)

\* The compiler runs to completion in the thread that called it.
Spec == Init /\ [][Next]_vars /\ WF_vars(Step)

----------------------------------------------------------------------------
(* Properties.                                                             *)

TypeOK ==
  /\ schema \in [Node -> SchemaNode]
  /\ phase \in {"compiling", "compiled", "over"}
  /\ stack \in Seq(Frame) /\ (phase = "compiling") = (stack # << >>)
  /\ failed \in BOOLEAN
  /\ report \in Seq(Obj \cup {None})
  /\ root \in Addr \cup {None}
  /\ elem \in [Addr -> Element \cup {None}]
  /\ refs \in [Object -> SUBSET Holder]
  /\ intact \subseteq Addr \X Fields
  /\ lost \subseteq Addr

\* No use after free.  Whatever field of an element holds an object, it has its
\* own reference to it: neither the script, nor another element or the
\* compiler's own cleanup can free an object that an element still points to.
NoDanglingReference ==
  \A a \in Addr, f \in Fields :
    elem[a] # None /\ elem[a][f] # None => <<a, f>> \in refs[elem[a][f]]

\* The nodes whose formats a node stands in, and the keys of the properties on
\* the way to it.
Parents(s, n) == {m \in Node : n \in ToSet(s[m].children)}
Parent(s, n) == CHOOSE m \in Node : m \in Parents(s, n)

Above(s) ==
  LET above[n \in Node] ==
        IF Parents(s, n) = {} THEN {} ELSE above[Parent(s, n)] \cup {Parent(s, n)}
  IN  above

Path(s) ==
  LET path[n \in Node] ==
        IF Parents(s, n) = {} THEN << >>
        ELSE path[Parent(s, n)]
               \o (IF s[Parent(s, n)].form = "properties" THEN <<s[n].key>> ELSE << >>)
  IN  path

IsItem(s, n) == \E m \in Parents(s, n) : s[m].form = "items"

\* A node whose format does not survive: a json that is an array item and has
\* -items or -properties.
LosesFormat(s, n) == s[n].type = "json" /\ s[n].form # "none" /\ IsItem(s, n)

\* An element in such a format, which nothing finds once the json is compiled.
Lost(a) == \E m \in Above(schema)[elem[a].node] : LosesFormat(schema, m)

\* An element that the error path of a call under way, or the command, frees.
Kept(a) ==
  \E b \in Addr :
    /\ (phase = "compiled" /\ b = root) \/ \E i \in DOMAIN stack : stack[i].rc = b
    /\ a \in Freed(b)

Owned(o, h) ==
  \/ h \in {Script, Thread}
  \/ /\ h[2] \in Fields /\ elem[h[1]] # None /\ elem[h[1]][h[2]] = o
     /\ Kept(h[1]) \/ Lost(h[1])
  \/ /\ h[2] = "listed" /\ elem[h[1]] # None
     /\ \/ Kept(h[1]) /\ ReleasedAs(elem[h[1]]) = "object"
        \/ elem[h[1]].type = "json" /\ elem[h[1]].flag = "skip"
        \/ Lost(h[1])
  \/ h[2] = "listed" /\ h[1] \in lost
  \/ h[2] = "format" /\ \E i \in 1..(Len(stack) - 1) : stack[i].rc = h[1]

\* No reference is forgotten, on any path through success or failure: each one
\* that is counted is released by a call under way or the command, be it with an
\* element that these still find.  Excepted is what they do not find of a json
\* that is an array item: its keys list, and all that the elements in its format
\* hold.
NoForgottenReference == \A o \in Object : \A h \in refs[o] : Owned(o, h)

Cacheable(a) ==
  /\ elem[a] # None /\ elem[a].pattern # None
  /\ schema[elem[a].node].match # "glob"

\* The compiled regexp and the split list of an element stay those of its
\* pattern: nothing that scripts or other elements do gives the pattern's
\* object another type (the reason for the copies, tjvCompile.c:637-647).
PatternCachesIntact == \A a \in Addr : Cacheable(a) => <<a, "pattern">> \in intact

\* The same of the keys an outkey is split into, which are used whenever a
\* value is stored under it.
OutkeyCachesIntact ==
  \A a \in Addr :
    phase = "compiled" /\ elem[a] # None /\ elem[a].outkey # None => <<a, "outkey">> \in intact

\* No element is freed twice, and no pointer to a child dangles: the children of
\* an element are allocated, are those of no other element, and do not belong to
\* a call under way or to the command.
ElementsHaveOneOwner ==
  \A a \in Addr : elem[a] # None => \A b \in elem[a].kids :
    /\ elem[b] # None
    /\ \A c \in Addr : elem[c] # None /\ b \in elem[c].kids => c = a
    /\ phase = "compiled" => b # root
    /\ \A i \in DOMAIN stack : stack[i].rc # b

\* What a failed compilation or a deleted handle leaves allocated are only the
\* elements in the format of a json that is an array item: every other element
\* was reachable for tjv_ValidationElementFree, on every error path.
OnlyJsonItemsLeak ==
  phase = "over" => \A a \in Addr : elem[a] # None => Lost(a)

\* A compiled schema has one element for each child of a node, with the node's
\* key, and the flag that the validators and tjv_ValidationElementFree go by.
CompiledAsWritten ==
  phase = "compiled" =>
    \A a \in Addr : elem[a] # None =>
      LET e == elem[a] n == e.node w == schema[n]
      IN /\ n = Root <=> a = root
         /\ {elem[b].node : b \in e.kids} = ToSet(w.children)
         /\ \A b, c \in e.kids : elem[b].node = elem[c].node => b = c
         /\ e.outkey = w.outkey
         /\ n # Root /\ ~IsItem(schema, n) => e.key = w.key
         /\ e.flag = IF IsItem(schema, n) /\ w.type # "array" THEN "skip"
                     ELSE IF w.type # "json" \/ w.form = "none" THEN "none"
                     ELSE IF w.form = "items" THEN "array" ELSE "object"

\* The message of a failed compilation names the properties on the way to the
\* fault, outermost first.
ErrorNamesThePath ==
  failed /\ phase = "over" =>
    \E n \in Node :
      /\ schema[n].fault # "none"
      /\ report = Path(schema)[IF schema[n].fault = "element" THEN Parent(schema, n) ELSE n]

\* Whatever was allocated is freed when the command has failed or its handle
\* is gone.
NothingLeaks == phase = "over" => elem = [a \in Addr |-> None]

\* A compilation ends.
Terminates == <>(phase # "compiling")

=============================================================================
