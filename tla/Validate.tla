------------------------------ MODULE Validate ------------------------------
(***************************************************************************)
(* The validators (src/tjvValidateTcl.c, src/tjvValidateJson.c) and the    *)
(* error paths and outcome dictionaries they build (src/tjvMessage.c,      *)
(* src/common.h).                                                          *)
(*                                                                         *)
(* The C code recurses over the compiled schema and the data at once.  Its *)
(* call stack is the sequence frames: one frame per active tjv_ValidateTcl *)
(* or tjv_ValidateJson, which is also that call's tjv_ValidationStack.     *)
(* The error path of a message is read off the chain of the `next`         *)
(* pointers, and a value is stored through an outcome pointer, so both     *)
(* must point into calls that are still active.                            *)
(*                                                                         *)
(* Numbers are counted in halves (3 is 1.5).  An outcome dictionary is a   *)
(* function of the key lists under which values are stored in it.          *)
(***************************************************************************)
EXTENDS Integers, Sequences, SequencesExt

CONSTANTS
  Element,        \* compiled validation elements, closed under children
  Root,           \* the elements scripts validate with
  TclValue,       \* Tcl values, closed under taking list elements
  Json,           \* parsed JSON values, closed under taking items
  Input,          \* the values scripts validate
  Lower,          \* the lower case of a key (cJSON compares keys with it)
  IntMax,         \* the largest int (2^31 - 1 scaled down), cJSON's valueint
  None,           \* NULL, an option that is not given, a failed conversion
  Skip            \* INT2PTR(1), the key of a frame left out of error paths

Type == {"string", "integer", "double", "boolean", "json", "object", "array"}
Scalar == {"string", "integer", "double", "boolean"}
Flags == {"none", "object", "array", "skip"}
Number == Int \cup {None}
Node == {"null", "bool", "num", "str", "arr", "obj"}

ASSUME ValidateAssumption ==
  /\ Root \subseteq Element /\ Input \subseteq TclValue
  /\ None \notin Element \cup TclValue \cup Json
  /\ \A e \in Element :
       /\ e.type \in Type /\ e.form \in {"none", "properties", "items"}
       /\ e.children \in Seq(Element)
       /\ e.form = "items" => Len(e.children) = 1
       /\ e.form = "none" => e.children = << >>
       /\ e.type \in Scalar => e.form = "none"
       /\ e.type = "object" => e.form # "items"
       /\ e.type = "array" => e.form # "properties"
       /\ e.required \in BOOLEAN /\ e.nullable \in BOOLEAN
       /\ e.low \in Number /\ e.high \in Number
       \* an empty key list aborts the process; a key that is also a word of
       \* what is stored (the data, the rows of an array) would meet the value
       \* that is there already, which the outcomes do not tell apart
       /\ e.outkey # None =>
            /\ e.outkey \in Seq(ToSet(e.outkey)) /\ e.outkey # << >>
            /\ \A d \in TclValue : d.text \notin ToSet(e.outkey)
  /\ IntMax \in Nat
  /\ \A d \in TclValue : d.list \in Seq(TclValue) /\ d.json \in Json \cup {None}
  /\ \A j \in Json :
       /\ j.items \in Seq(Json) /\ j.keys \in Seq(ToSet(j.keys))
       /\ Len(j.keys) = IF j.kind = "obj" THEN Len(j.items) ELSE 0
       /\ j.kind = "str" => j.val \in TclValue

VARIABLES
  root,    \* the element of the validation under way, or of the last one
  input,   \* its value
  frames,  \* the active calls, outermost first
  outcomes,\* what is stored: the command's outcome dictionary, then those of
           \* the active array calls that collect (item_outcome, result_outcome)
  errors,  \* the messages collected so far
  reply    \* what the command returned, None while it runs

vars == <<root, input, frames, outcomes, errors, reply>>

----------------------------------------------------------------------------
(* Data.                                                                   *)

\* Tcl_ListObjGetElements: a word is the list of itself.
IsList(d) == d.form # "malformed"
AsList(d) == IF d.form = "word" THEN <<d>> ELSE d.list

\* Tcl_DictObjSize and Tcl_DictObjGet: the last of equal keys counts.
IsDict(d) == IsList(d) /\ Len(AsList(d)) % 2 = 0
DictGet(d, key) ==
  LET l == AsList(d)
      at == {i \in 1..Len(l) : i % 2 = 0 /\ l[i - 1].text = key}
  IN  IF at = {} THEN None ELSE l[Max(at)]

\* cJSON_GetObjectItem: the first member whose key is equal but for its case.
JsonGet(j, key) ==
  LET at == {i \in DOMAIN j.keys : Lower[j.keys[i]] = Lower[key]}
  IN  IF at = {} THEN None ELSE j.items[Min(at)]

----------------------------------------------------------------------------
(* Schema elements.                                                        *)

\* The flag the compiler leaves on an element: a json with -items or
\* -properties is marked as an array or an object, and then any array item
\* that is not an array itself is marked to be left out of error paths.
Flag(ve, role) ==
  IF role = "item" /\ ve.type # "array" THEN "skip"
  ELSE IF ve.type # "json" \/ ve.form = "none" THEN "none"
  ELSE IF ve.form = "items" THEN "array" ELSE "object"

\* The key of an element: none for the root, a stub for an array item.
Key(ve, role) ==
  CASE role = "root" -> None [] role = "item" -> "" [] role = "property" -> ve.key

\* A call of tjv_ValidateTcl (tcl is the value) or tjv_ValidateJson (json is).
\* out is the outcome dictionary to store to, 0 for a NULL pointer.
NewFrame(ve, role, tcl, json, out) ==
  [ve |-> ve, flag |-> Flag(ve, role), tcl |-> tcl, json |-> json, out |-> out,
   key |-> IF Flag(ve, role) = "skip" THEN Skip ELSE Key(ve, role),
   index |-> -1, next |-> 0, stage |-> "enter", pos |-> 0, item |-> 0]

\* What the body of a call checks.  A json within a parsed JSON document, and
\* one without -items and -properties, is not looked into.
Shape(f) ==
  IF f.ve.type # "json" THEN f.ve.type ELSE IF f.tcl # None THEN f.flag ELSE "none"

Items(f) == IF f.json = None THEN AsList(f.tcl) ELSE f.json.items

\* The value as the element's scalar type, None if it is not of that type.
Reading(f) ==
  IF f.json = None
    THEN CASE f.ve.type = "integer" -> f.tcl.int
           [] f.ve.type = "double" -> f.tcl.num
           [] f.ve.type = "boolean" -> f.tcl.bool
           [] f.ve.type = "string" -> f.tcl.text
    ELSE LET j == f.json IN
         CASE f.ve.type = "integer" ->
                IF j.kind = "num" /\ j.val % 2 = 0 /\ j.val \in (-IntMax - 2)..IntMax
                  THEN j.val ELSE None
           [] f.ve.type = "double" -> IF j.kind = "num" THEN j.val ELSE None
           [] f.ve.type = "boolean" -> IF j.kind = "bool" THEN j.val ELSE None
           [] f.ve.type = "string" -> IF j.kind = "str" THEN j.val.text ELSE None

\* The keyword of the error a scalar gets, None if it is valid.  A pattern is
\* the set of texts that match it; the types with a predefined regular
\* expression (email, uuid, ...) report a mismatch as a wrong type.
Fault(f) ==
  LET v == Reading(f)  ve == f.ve IN
  CASE v = None -> "type"
    [] ve.type \in {"integer", "double"} /\ ve.low # None /\ v < ve.low -> "value"
    [] ve.type \in {"integer", "double"} /\ ve.high # None /\ v > ve.high -> "value"
    [] ve.type = "string" /\ ve.pattern # None /\ v \notin ve.pattern ->
         IF ve.custom THEN "type" ELSE "value"
    [] OTHER -> None

\* What a valid scalar stores: the value given, or the text of a JSON string as
\* a value of its own; booleans and JSON numbers are made anew.
Result(f) ==
  CASE f.ve.type = "boolean" -> <<"boolean", Reading(f)>>
    [] f.ve.type # "boolean" /\ f.json = None -> <<"tcl", f.tcl>>
    [] f.ve.type = "string" /\ f.json # None -> <<"tcl", f.json.val>>
    [] OTHER -> <<f.ve.type, Reading(f)>>

----------------------------------------------------------------------------
(* Messages and outcomes.                                                  *)

\* What a frame adds to an error path.
Part(f) ==
  IF f.key = Skip THEN << >>
  ELSE (IF f.key = None THEN << >> ELSE <<[key |-> f.key]>>)
       \o (IF f.index = -1 THEN << >> ELSE <<[index |-> f.index]>>)

\* Fault: only the innermost frame is named.
PathOfTop == Part(frames[Len(frames)])

\* The error path: the chain of frames from the outermost one.
Path ==
  LET from[i \in 0..Len(frames)] ==
        IF i = 0 THEN << >> ELSE Part(frames[i]) \o from[frames[i].next]
  IN  from[1]

\* tjv_MessageGenerate.  key is the missing property of a "required" error.
Report(keyword, key) ==
  errors' = Append(errors, [keyword |-> keyword, path |-> Path, key |-> key])

\* Whether a stored value can be read as a dictionary, as any text can that is
\* a list of an even length; a boolean or a number is one word.
Opens(v) ==
  CASE v[1] = "tcl" -> IsDict(v[2])
    [] v[1] = "list" -> Len(v[2]) % 2 = 0
    [] OTHER -> FALSE

\* Tcl_DictObjPutKeyList: what is stored at the key list or below it is
\* replaced.  If a value on the way is no dictionary, that is an error, which
\* nobody looks at, and nothing is stored; if it is one, a copy is extended.
Put(dict, keys, v) ==
  IF \E k \in DOMAIN dict : IsStrictPrefix(k, keys) /\ ~Opens(dict[k]) THEN dict
  ELSE [k \in {l \in DOMAIN dict : ~IsPrefix(keys, l)} \cup {keys} |->
          IF k = keys THEN v ELSE dict[k]]
Empty == [k \in {} |-> None]
NewOutcome == [dict |-> Empty, list |-> << >>]

\* ADD_OUTCOME: the outcomes os after the call f has stored v.
AddOutcome(os, f, v) ==
  IF f.ve.outkey = None \/ f.out = 0 THEN os
  ELSE [os EXCEPT ![f.out].dict = Put(@, f.ve.outkey, v)]

\* Fault: the dictionary of an item is kept for the next one.
CollectAndKeep(os, item) ==
  IF item = 0 \/ os[item].dict = Empty THEN os
  ELSE [os EXCEPT ![item].list = Append(@, os[item].dict)]

\* An array keeps what an item has stored, if anything, and starts afresh.
Collect(os, item) ==
  IF item = 0 \/ os[item].dict = Empty THEN os
  ELSE [os EXCEPT ![item] = [dict |-> Empty, list |-> Append(@.list, @.dict)]]

----------------------------------------------------------------------------
(* Steps of the innermost call.                                            *)

Top == frames[Len(frames)]
At(stage) == frames # << >> /\ Top.stage = stage
SetTop(f) == frames' = [frames EXCEPT ![Len(frames)] = f]
Leaving == SetTop([Top EXCEPT !.stage = "leave"])

\* A call of the validator from the body of the innermost one, left as f.
Call(f, ve, role, v, out) ==
  frames' = Append([frames EXCEPT ![Len(frames)] = [f EXCEPT !.next = Len(frames) + 1]],
                   IF f.json = None THEN NewFrame(ve, role, v, None, out)
                                    ELSE NewFrame(ve, role, None, v, out))

\* tjv_ValidateTclJson parses the value; the frame goes on with the result.
ParseJson ==
  /\ At("enter") /\ Top.ve.type = "json" /\ Top.json = None
  /\ \/ /\ Top.tcl.json = None
        /\ Report("type", None)
        /\ Leaving
     \/ /\ Top.tcl.json # None
        /\ SetTop([Top EXCEPT !.json = Top.tcl.json])
        /\ errors' = errors
  /\ UNCHANGED <<root, input, outcomes, reply>>

\* The body is entered with a value to check.
Checks == At("enter") /\ ~(Top.ve.type = "json" /\ Top.json = None)
IsNull == Top.json # None /\ Top.ve.nullable /\ Top.json.kind = "null"

\* A json that is not looked into; a null where -nullable allows it.
Accept ==
  /\ Checks /\ (Shape(Top) \in {"none", "skip"} \/ IsNull)
  /\ Leaving
  /\ UNCHANGED <<root, input, outcomes, errors, reply>>

ValidateScalar ==
  /\ Checks /\ ~IsNull /\ Shape(Top) \in Scalar
  /\ \/ /\ Fault(Top) = None
        /\ outcomes' = AddOutcome(outcomes, Top, Result(Top))
        /\ errors' = errors
     \/ /\ Fault(Top) # None
        /\ Report(Fault(Top), None)
        /\ outcomes' = outcomes
  /\ Leaving
  /\ UNCHANGED <<root, input, reply>>

EnterObject ==
  /\ Checks /\ ~IsNull /\ Shape(Top) = "object"
  /\ \/ /\ IF Top.json = None THEN IsDict(Top.tcl) ELSE Top.json.kind = "obj"
        /\ SetTop([Top EXCEPT !.stage = "loop"])
        /\ errors' = errors
     \/ /\ ~(IF Top.json = None THEN IsDict(Top.tcl) ELSE Top.json.kind = "obj")
        /\ Report("type", None)
        /\ Leaving
  /\ UNCHANGED <<root, input, outcomes, reply>>

\* The next property: it is validated if it is there.
NextProperty ==
  /\ At("loop") /\ Shape(Top) = "object" /\ Top.pos < Len(Top.ve.children)
  /\ LET e == Top.ve.children[Top.pos + 1]
         v == IF Top.json = None THEN DictGet(Top.tcl, e.key) ELSE JsonGet(Top.json, e.key)
         f == [Top EXCEPT !.pos = @ + 1]
     IN  \/ /\ v = None /\ e.required
            /\ Report("required", e.key)
            /\ SetTop(f)
         \/ /\ v = None /\ ~e.required
            /\ SetTop(f)
            /\ errors' = errors
         \/ /\ v # None
            /\ Call(f, e, "property", v, f.out)
            /\ errors' = errors
  /\ UNCHANGED <<root, input, outcomes, reply>>

\* A JSON object stores nothing under its own outkey.
LeaveObject ==
  /\ At("loop") /\ Shape(Top) = "object" /\ Top.pos = Len(Top.ve.children)
  /\ outcomes' = IF Top.json = None THEN AddOutcome(outcomes, Top, <<"tcl", Top.tcl>>) ELSE outcomes
  /\ Leaving
  /\ UNCHANGED <<root, input, errors, reply>>

\* Fault: the pointer is passed on where no dictionary was allocated.
EnterArrayUnallocated ==
  /\ Checks /\ ~IsNull /\ Shape(Top) = "array"
  /\ IF Top.json = None THEN IsList(Top.tcl) ELSE Top.json.kind = "arr"
  /\ SetTop([Top EXCEPT !.stage = IF Top.ve.children = << >> THEN "leave" ELSE "loop",
                        !.index = 0, !.item = Len(outcomes) + 1])
  /\ outcomes' = IF Top.out = 0 \/ Top.ve.outkey = None
                    THEN outcomes ELSE Append(outcomes, NewOutcome)
  /\ UNCHANGED <<root, input, errors, reply>>

\* An array whose items have no format is left at once, and stores nothing.
\* Another one collects the outcomes of its items if it has an outkey itself.
EnterArray ==
  /\ Checks /\ ~IsNull /\ Shape(Top) = "array"
  /\ LET ok == IF Top.json = None THEN IsList(Top.tcl) ELSE Top.json.kind = "arr"
         collects == Top.out # 0 /\ Top.ve.outkey # None
     IN  \/ /\ ~ok
            /\ Report("type", None)
            /\ Leaving
            /\ outcomes' = outcomes
         \/ /\ ok /\ Top.ve.children = << >>
            /\ Leaving
            /\ UNCHANGED <<errors, outcomes>>
         \/ /\ ok /\ Top.ve.children # << >>
            /\ SetTop([Top EXCEPT !.stage = "loop", !.index = 0,
                                  !.item = IF collects THEN Len(outcomes) + 1 ELSE 0])
            /\ outcomes' = IF collects THEN Append(outcomes, NewOutcome) ELSE outcomes
            /\ errors' = errors
  /\ UNCHANGED <<root, input, reply>>

\* Fault: the items store into the dictionary of the array itself.
NextItemSharesOutcome ==
  /\ At("loop") /\ Shape(Top) = "array" /\ Top.index < Len(Items(Top))
  /\ Call(Top, Top.ve.children[1], "item", Items(Top)[Top.index + 1], Top.out)
  /\ UNCHANGED <<root, input, outcomes, errors, reply>>

NextItem ==
  /\ At("loop") /\ Shape(Top) = "array" /\ Top.index < Len(Items(Top))
  /\ Call(Top, Top.ve.children[1], "item", Items(Top)[Top.index + 1], Top.item)
  /\ UNCHANGED <<root, input, outcomes, errors, reply>>

\* Fault: the dictionary is released although there is none.
LeaveArrayReleases ==
  /\ At("loop") /\ Shape(Top) = "array" /\ Top.index = Len(Items(Top))
  /\ outcomes' = Front(outcomes)
  /\ SetTop([Top EXCEPT !.stage = "leave", !.item = 0])
  /\ UNCHANGED <<root, input, errors, reply>>

LeaveArray ==
  /\ At("loop") /\ Shape(Top) = "array" /\ Top.index = Len(Items(Top))
  /\ outcomes' = IF Top.item = 0 THEN outcomes
              ELSE AddOutcome(Front(outcomes), Top, <<"list", Last(outcomes).list>>)
  /\ SetTop([Top EXCEPT !.stage = "leave", !.item = 0])
  /\ UNCHANGED <<root, input, errors, reply>>

\* Faults: the caller's `next` is not reset; an item that stores nothing is not
\* stepped over.
Pop(top, next) ==
  /\ At("leave")
  /\ frames' = IF Len(frames) = 1 THEN << >>
                 ELSE [Front(frames) EXCEPT ![Len(frames) - 1] = top, ![Len(frames) - 1].next = next]
  /\ outcomes' = IF Len(frames) = 1 THEN outcomes
                    ELSE Collect(outcomes, frames[Len(frames) - 1].item)
  /\ UNCHANGED <<root, input, errors, reply>>
LeaveStaleNext ==
  At("leave") /\ LET f == frames[Len(frames) - 1] IN
    Pop([f EXCEPT !.index = IF Shape(f) = "array" THEN @ + 1 ELSE @], Len(frames))
LeaveSameItem ==
  At("leave") /\ LET f == frames[Len(frames) - 1] IN
    Pop([f EXCEPT !.index = IF f.item # 0 /\ outcomes[f.item].dict # Empty THEN @ + 1 ELSE @], 0)

\* The end of the innermost call.  A json stores the text it was given, even
\* if what it parsed to was wrong.  The caller unlinks the frame; an array
\* collects what the item has stored and turns to the next item.
Leave ==
  /\ At("leave")
  /\ LET n == Len(frames) - 1
         caller == frames[n]
         os == IF Top.ve.type = "json" /\ Top.tcl # None /\ Top.json # None
                 THEN AddOutcome(outcomes, Top, <<"tcl", Top.tcl>>) ELSE outcomes
     IN  \/ /\ n = 0
            /\ frames' = << >>
            /\ outcomes' = os
         \/ /\ n > 0
            /\ frames' = [Front(frames) EXCEPT ![n] = [caller EXCEPT
                 !.next = 0, !.index = IF Shape(caller) = "array" THEN @ + 1 ELSE @]]
            /\ outcomes' = Collect(os, caller.item)
  /\ UNCHANGED <<root, input, errors, reply>>

----------------------------------------------------------------------------
(* The command.                                                            *)

Init ==
  /\ root \in Root
  /\ input \in Input
  /\ frames = <<NewFrame(root, "root", input, None, 1)>>
  /\ outcomes = <<NewOutcome>>
  /\ errors = << >>
  /\ reply = None

\* The outcome is thrown away as soon as there is an error.
Reply ==
  /\ frames = << >> /\ reply = None
  /\ reply' = IF errors = << >> THEN <<"outcome", outcomes[1].dict>> ELSE <<"errors", errors>>
  /\ UNCHANGED <<root, input, frames, outcomes, errors>>

\* The same handle validates another value.
Again ==
  /\ reply # None
  /\ input' \in Input
  /\ frames' = <<NewFrame(root, "root", input', None, 1)>>
  /\ outcomes' = <<NewOutcome>>
  /\ errors' = << >>
  /\ reply' = None
  /\ root' = root

Step ==
  \/ ParseJson \/ Accept \/ ValidateScalar
  \/ EnterObject \/ NextProperty \/ LeaveObject
  \/ EnterArray \/ NextItem \/ LeaveArray
  \/ Leave \/ Reply

Next == Step \/ Again

\* A validation runs to its end; nothing obliges a script to start another.
Spec == Init /\ [][Next]_vars /\ WF_vars(Step)

----------------------------------------------------------------------------
(* Properties.                                                             *)

Keys == {e.key : e \in Element} \cup {"", None, Skip}
FrameRecord ==
  [ve : Element, flag : Flags, tcl : TclValue \cup {None}, json : Json \cup {None},
   out : Nat, key : Keys, index : Nat \cup {-1}, next : Nat,
   stage : {"enter", "loop", "leave"}, pos : Nat, item : Nat]
Frame == {f \in FrameRecord : f.tcl # None \/ f.json # None}

\* The state has the shape the code gives it.
TypeOK ==
  /\ root \in Root /\ input \in Input
  /\ frames \in Seq(Frame)
  /\ outcomes \in Seq(ToSet(outcomes)) /\ outcomes # << >>

\* The chain of `next` pointers is exactly the call stack, whatever calls have
\* come and gone: no pointer into a call that has returned is ever followed,
\* and an error path names the whole way to the value (tjvMessage.c:119).
ChainIsCallStack ==
  \A i \in DOMAIN frames : frames[i].next = IF i = Len(frames) THEN 0 ELSE i + 1

\* An outcome pointer is NULL, the command's, or that of the item_outcome of
\* an array call further out that is still active (tjvValidateTcl.c:83-88).
OutcomePointersAreLive ==
  \A i \in DOMAIN frames :
    /\ frames[i].out <= Len(outcomes)
    /\ frames[i].out > 1 => \E k \in 1..(i - 1) : frames[k].item = frames[i].out

\* An array call that turns to its next item has nothing of the items before
\* it left in its item_outcome (tjvValidateTcl.c:105).
ItemsStartAfresh ==
  frames # << >> /\ Top.stage = "loop" /\ Top.item # 0
    => outcomes[Top.item].dict = Empty

\* Every validation ends with a reply, whatever the schema and the value.
Completes == []<>(reply # None)
=============================================================================
