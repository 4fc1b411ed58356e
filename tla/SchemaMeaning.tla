--------------------------- MODULE SchemaMeaning ---------------------------
(***************************************************************************)
(* What a compiled schema says about a value: the errors the value has and *)
(* what it stores, as recursive functions without frames, pointers or      *)
(* shared dictionaries, which the replies of Validate are compared with.   *)
(* Where the code gives less meaning to a schema than its documentation    *)
(* does, as to a json that is an array item or within a JSON document,     *)
(* this is the code's meaning; MCValidate states the documented one.       *)
(***************************************************************************)
EXTENDS Validate

CONSTANT Depth  \* how deep an element is: compiled schemas are finite trees

ASSUME MeaningAssumption ==
  /\ Depth \in [Element -> Nat]
  /\ \A e \in Element : \A i \in DOMAIN e.children : Depth[e.children[i]] < Depth[e]

----------------------------------------------------------------------------
(* Questions.                                                              *)

PathPart == [key : Keys] \cup [index : Nat]
Message == [keyword : {"type", "value", "required"}, path : Seq(PathPart), key : Keys]

\* What element ve says of a Tcl value or of a JSON value, at a place whose
\* error paths begin with above.
Question ==
  {q \in [ve : Element, role : {"root", "property", "item"}, above : Seq(PathPart),
          tcl : TclValue \cup {None}, json : Json \cup {None}] : (q.tcl = None) # (q.json = None)}

\* The JSON document that is looked at: the value, or what the one text parses to.
Document(q) == IF q.ve.type = "json" /\ q.json = None THEN q.tcl.json ELSE q.json
Unparsed(q) == q.ve.type = "json" /\ Document(q) = None

\* The value as a call sees it.
View(q) == NewFrame(q.ve, q.role, q.tcl, Document(q), 1)

Absent(f) == f.json # None /\ f.ve.nullable /\ f.json.kind = "null"
RightForm(f) ==
  IF Shape(f) = "object"
    THEN IF f.json = None THEN IsDict(f.tcl) ELSE f.json.kind = "obj"
    ELSE IF f.json = None THEN IsList(f.tcl) ELSE f.json.kind = "arr"
Property(f, c) == IF f.json = None THEN DictGet(f.tcl, c.key) ELSE JsonGet(f.json, c.key)

\* What element c says of v, a property (index -1) or an item of the value.
Ask(q, c, role, v, index) ==
  [ve |-> c, role |-> role, above |-> q.above \o Part([View(q) EXCEPT !.index = index]),
   tcl |-> IF View(q).json = None THEN v ELSE None,
   json |-> IF View(q).json = None THEN None ELSE v]
AskProperty(q, i) == LET c == q.ve.children[i] IN Ask(q, c, "property", Property(View(q), c), -1)
AskItem(q, i) == Ask(q, q.ve.children[1], "item", Items(View(q))[i], i - 1)

\* The value is valid as far as it is not looked into, or is not as a whole.
Ignored(q) == Shape(View(q)) \in {"none", "skip"} \/ Absent(View(q))

----------------------------------------------------------------------------
(* Errors.                                                                 *)

Wrong(q, keyword, key) == <<[keyword |-> keyword, path |-> q.above \o Part(View(q)), key |-> key]>>

\* The errors of each property or item, V giving the answers to questions.
PartErrors(V, q) ==
  IF Shape(View(q)) = "object"
    THEN [i \in DOMAIN q.ve.children |-> LET c == q.ve.children[i] IN
            IF Property(View(q), c) # None THEN V[AskProperty(q, i)]
            ELSE IF c.required THEN Wrong(q, "required", c.key) ELSE << >>]
  ELSE IF q.ve.children = << >> THEN << >>
  ELSE [i \in DOMAIN Items(View(q)) |-> V[AskItem(q, i)]]

ErrorsOf(V, q) ==
  IF Unparsed(q) THEN Wrong(q, "type", None)
  ELSE IF Ignored(q) THEN << >>
  ELSE IF Shape(View(q)) \in Scalar
    THEN IF Fault(View(q)) = None THEN << >> ELSE Wrong(q, Fault(View(q)), None)
  ELSE IF RightForm(View(q)) THEN FlattenSeq(PartErrors(V, q)) ELSE Wrong(q, "type", None)

Violations[q \in Question] == ErrorsOf(Violations, q)

----------------------------------------------------------------------------
(* Outcomes.                                                               *)

\* What pairs of an outkey and a value leave in a dictionary, in their order.  A
\* value is taken unless one that is no dictionary stands on its way, and stands
\* until another is taken for the same keys or fewer.
Dict(stores) ==
  LET keys(i) == stores[i][1]
      value(i) == stores[i][2]
      taken[i \in DOMAIN stores] ==
        \A h \in 1..(i - 1) :
          taken[h] /\ IsStrictPrefix(keys(h), keys(i)) /\ ~Opens(value(h))
            => \E m \in (h + 1)..(i - 1) : taken[m] /\ IsPrefix(keys(m), keys(h))
      stands == {i \in DOMAIN stores :
                   /\ taken[i]
                   /\ ~ \E m \in (i + 1)..Len(stores) : taken[m] /\ IsPrefix(keys(m), keys(i))}
  IN  [k \in {keys(i) : i \in stands} |-> value(CHOOSE i \in stands : keys(i) = k)]

Own(q, v) == IF q.ve.outkey = None THEN << >> ELSE <<<<q.ve.outkey, v>>>>

\* What each property stores; the dictionaries of the items that store anything.
PropertyStores(S, q) ==
  [i \in DOMAIN q.ve.children |->
     IF Property(View(q), q.ve.children[i]) = None THEN << >> ELSE S[AskProperty(q, i)]]
ItemRows(S, q) ==
  [i \in DOMAIN Items(View(q)) |-> LET d == Dict(S[AskItem(q, i)]) IN
     IF d = Empty THEN << >> ELSE <<d>>]

\* What a valid value stores, but for the text of a json.  An object stores
\* itself only if it is a Tcl value, and an array only if its items have a format.
PartStores(S, q) ==
  IF Ignored(q) THEN << >>
  ELSE IF Shape(View(q)) \in Scalar THEN Own(q, Result(View(q)))
  ELSE IF Shape(View(q)) = "object"
    THEN FlattenSeq(PropertyStores(S, q))
           \o (IF View(q).json = None THEN Own(q, <<"tcl", q.tcl>>) ELSE << >>)
  ELSE IF q.ve.children = << >> THEN << >>
  ELSE Own(q, <<"list", FlattenSeq(ItemRows(S, q))>>)

StoresOf(S, q) ==
  PartStores(S, q)
    \o (IF q.ve.type = "json" /\ q.json = None THEN Own(q, <<"tcl", q.tcl>>) ELSE << >>)

Stores[q \in Question] == StoresOf(Stores, q)

----------------------------------------------------------------------------
(* Properties.                                                             *)

\* What a script asks of its value.
TheQuestion == [ve |-> root, role |-> "root", above |-> << >>, tcl |-> input, json |-> None]

\* The reply of a failed validation lists every violation of the compiled schema,
\* once, in the order of the schema, each with the path of the value it is about.
\* A json that is an array item or within a JSON document has no format there.
ErrorsAreExact ==
  reply # None => errors = Violations[TheQuestion]

\* The reply of a successful validation is the dictionary of the values that
\* have an outkey and are of a kind that is stored; within an array each item
\* has a dictionary of its own.
OutcomeIsExact ==
  reply # None /\ errors = << >> => reply = <<"outcome", Dict(Stores[TheQuestion])>>
=============================================================================
