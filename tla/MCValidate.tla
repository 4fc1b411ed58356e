----------------------------- MODULE MCValidate -----------------------------
(***************************************************************************)
(* Validate on a small universe of schemas and values, and what the        *)
(* documentation says of an accepted value and of its outcome.             *)
(***************************************************************************)
EXTENDS SchemaMeaning

----------------------------------------------------------------------------
(* Schemas.  Outkeys are o, p, q and keys a, b.                            *)

Plain == [type |-> "string", form |-> "none", children |-> << >>, required |-> FALSE,
          nullable |-> FALSE, key |-> None, outkey |-> None, low |-> None,
          high |-> None, pattern |-> None, custom |-> FALSE]

Str == Plain
Pat == [Plain EXCEPT !.pattern = {"a", "x"}]
Uuid == [Pat EXCEPT !.custom = TRUE]
Int01 == [Plain EXCEPT !.type = "integer", !.low = 0, !.high = 2]
AnyInt == [Plain EXCEPT !.type = "integer"]
Dbl == [Plain EXCEPT !.type = "double", !.high = 3]
Bool == [Plain EXCEPT !.type = "boolean"]
Obj(es) == [Plain EXCEPT !.type = "object", !.form = "properties", !.children = es]
Arr(e) == [Plain EXCEPT !.type = "array", !.form = "items", !.children = <<e>>]
AnyArr == [Plain EXCEPT !.type = "array"]
JObj(es) == [Obj(es) EXCEPT !.type = "json"]
JArr(e) == [Arr(e) EXCEPT !.type = "json"]
AnyJson == [Plain EXCEPT !.type = "json"]

P(key, e) == [e EXCEPT !.key = key]
Req(key, e) == [e EXCEPT !.key = key, !.required = TRUE]
Outs(outkey, e) == [e EXCEPT !.outkey = outkey]
Out(key, e) == Outs(<<key>>, e)
Nul(e) == [e EXCEPT !.nullable = TRUE]

\* The items of one array, an object with both kinds of property.
Row == Obj(<<Req("a", Out("p", Pat)), P("b", Out("q", Int01))>>)

\* Arrays of JSON texts, whose format the compiler loses.
ItemRoots == {Arr(JObj(<<Req("a", AnyInt)>>)), Arr(JArr(Int01)), Out("o", Arr(Out("p", AnyJson)))}

\* Outkeys that extend one another: the longer one first, last, or within, and
\* at the shorter one a scalar, a dictionary or a list.
NestedRoots == {
  Obj(<<P("a", Outs(<<"o", "p">>, Str)), P("b", Out("o", Int01))>>),
  Obj(<<P("a", Out("o", Str)), P("b", Outs(<<"o", "p">>, AnyInt))>>),
  Obj(<<P("a", Outs(<<"o", "q">>, Str)), P("b", Outs(<<"o", "p", "q">>, AnyInt))>>),
  Obj(<<P("a", Out("o", Obj(<<P("b", Out("p", Str))>>))), P("b", Outs(<<"o", "p">>, Int01))>>),
  Obj(<<P("a", Out("o", Arr(Out("p", Bool)))), P("b", Outs(<<"o", "q", "p">>, AnyInt))>>),
  Out("o", Obj(<<P("a", Outs(<<"o", "p">>, Str)), P("b", Out("q", AnyInt))>>)),
  Out("o", Arr(Obj(<<P("b", Out("p", AnyInt)), P("a", Outs(<<"p", "q">>, Str))>>))),
  Out("o", JArr(Obj(<<P("b", Outs(<<"p", "q">>, AnyInt)), P("a", Out("p", Str))>>))),
  JObj(<<P("a", Out("o", AnyInt)), P("b", Outs(<<"o", "q">>, Str))>>),
  JObj(<<P("a", Out("o", Str)), P("b", Outs(<<"o", "q">>, AnyInt))>>),
  Out("o", JObj(<<P("a", Outs(<<"o", "p">>, Bool)), P("b", Out("q", Arr(Nul(Str))))>>)) }

\* A json with a format as an array item and within a JSON document, and a value
\* that has neither format.
FormatRoots == {
  Obj(<<P("a", Arr(JObj(<<Req("b", AnyInt)>>))), P("b", JObj(<<P("a", JArr(Int01))>>))>>) }

\* An outkey for an array without -items, for an object and a json within a JSON
\* document.
OutkeyRoots == {
  Obj(<<P("a", Out("o", AnyArr)),
        P("b", JObj(<<P("a", Out("p", AnyJson)), P("b", Out("q", Obj(<< >>)))>>))>>) }

Roots == ItemRoots \cup NestedRoots \cup FormatRoots \cup OutkeyRoots \cup {
  Out("o", Int01), Out("o", AnyInt), Out("o", Dbl), Out("o", Bool),
  Out("o", Pat), Out("o", Uuid), Out("o", AnyArr), Out("o", AnyJson),
  Out("o", Obj(<< >>)), Out("o", JObj(<< >>)),
  Out("o", Row),
  Obj(<<Req("a", Obj(<<Req("b", Out("p", AnyInt))>>)), Req("b", Out("q", Int01))>>),
  Obj(<<Req("a", Out("o", Arr(Out("p", Bool)))), Req("b", Int01)>>),
  Arr(Out("p", Int01)), Out("o", Arr(Out("p", Int01))),
  Out("o", Arr(Row)), Arr(Row),
  Out("o", Arr(Out("q", Arr(Out("p", Int01))))), Out("o", Arr(Arr(Out("p", Bool)))),
  Out("o", JObj(<<P("a", Nul(Out("p", AnyInt))), Req("b", Pat)>>)),
  Out("o", JArr(Out("p", AnyInt))), Nul(JArr(Row)), Out("o", Nul(JArr(Row))),
  JObj(<<P("a", Out("o", Arr(Obj(<<Req("b", Out("p", Dbl))>>)))), Req("b", Nul(Obj(<< >>)))>>),
  JObj(<<P("a", Out("p", JObj(<<Req("b", AnyInt)>>))), P("b", Out("q", Uuid))>>),
  JObj(<<P("a", Out("p", Nul(Bool))), P("b", Out("q", Nul(Arr(Nul(Dbl)))))>>),
  Obj(<<P("a", JArr(Out("p", Bool))), Req("b", Nul(JObj(<<Req("a", Str)>>)))>>) }

----------------------------------------------------------------------------
(* Values.                                                                 *)

Jsn(kind, val) == [kind |-> kind, val |-> val, keys |-> << >>, items |-> << >>]
JNull == Jsn("null", None)
JNum(h) == Jsn("num", h)
JList(s) == [Jsn("arr", None) EXCEPT !.items = s]
JDict(ks, s) == [Jsn("obj", None) EXCEPT !.keys = ks, !.items = s]
\* A JSON string is given by the Tcl value of its text.
JStr(d) == Jsn("str", d)

Word(text) == [text |-> text, int |-> None, num |-> None, bool |-> None, json |-> None,
               form |-> "word", list |-> << >>]
Num(text, h) == [Word(text) EXCEPT !.num = h, !.json = JNum(h)]
\* 9 is beyond IntMax: as the wide integers of Tcl are beyond an int.
One == [Num("1", 2) EXCEPT !.int = 2, !.bool = TRUE]
Two == [Num("2", 4) EXCEPT !.int = 4]
Nine == [Num("9", 18) EXCEPT !.int = 18]
Half == Num("1.5", 3)
Yes == [Word("yes") EXCEPT !.bool = TRUE]
True == [Word("true") EXCEPT !.bool = TRUE, !.json = Jsn("bool", TRUE)]
Null == [Word("null") EXCEPT !.json = JNull]
A == Word("a")
B == Word("b")
X == Word("x")
Brace == [Word("{") EXCEPT !.form = "malformed"]
List(text, s) == [Word(text) EXCEPT !.form = "list", !.list = s]
First1(d) == [d EXCEPT !.json = JNum(2)]
\* A JSON object in braces is the list of the text between them.
Braced(text, inner, j) == [List(text, <<inner>>) EXCEPT !.json = j]
\* cJSON stops after the first value: what is left of it is the key a string.
Inner(text) == [Word(text) EXCEPT !.form = "malformed", !.json = JStr(A)]
Bracket(text, j) == [Word(text) EXCEPT !.json = j]

Nil == List("", << >>)
DictA1 == List("a 1", <<A, One>>)
DictAx == List("a x", <<A, X>>)
DictB2 == List("b 2", <<B, Two>>)
JsonA1 == Braced("{\"a\":1}", Inner("\"a\":1"), JDict(<<"a">>, <<JNum(2)>>))
JsonAb == Braced("{\"A\":null,\"a\":1,\"b\":\"z\"}", [Inner("\"A\":null,...") EXCEPT !.json = JStr(Word("A"))],
                 JDict(<<"A", "a", "b">>, <<JNull, JNum(2), JStr(Word("z"))>>))

\* a {{{"a":1}}} b {{"a":1}}; a {1 2} b {{"a":1,"b":{}}}
FormatInputs == {List("a ... b ...", <<A, List("{{\"a\":1}}", <<JsonA1>>), B, JsonA1>>)}
OutkeyInputs == {List("a {1 2} b ...", <<A, List("1 2", <<One, Two>>), B,
  Braced("{\"a\":1,\"b\":{}}", Inner("\"a\":1,..."),
    JDict(<<"a", "b">>, <<JNum(2), JDict(<< >>, << >>)>>))>>)}

Inputs == FormatInputs \cup OutkeyInputs \cup {
  One, Two, Nine, Half, Yes, True, Null, A, Brace, Nil, DictA1, DictAx,
  List("a 1 b 1", <<A, One, B, One>>), List("a x b 2", <<A, X, B, Two>>),
  List("a 1 a x", <<A, One, A, X>>), List("a {b 1} b 2", <<A, List("b 1", <<B, One>>), B, Two>>),
  List("a {b x}", <<A, List("b x", <<B, X>>)>>), List("a {1 x}", <<A, First1(List("1 x", <<One, X>>))>>),
  List("a {yes 1} b 9", <<A, List("yes 1", <<Yes, One>>), B, Nine>>),
  First1(List("1 2", <<One, Two>>)), First1(List("1 x 1", <<One, X, One>>)),
  List("{a x} {b 2} {a x}", <<DictAx, DictB2, DictAx>>),
  List("{a x b 1} x", <<List("a x b 1", <<A, X, B, One>>), X>>),
  List("{1 2} {} {1 x}", <<First1(List("1 2", <<One, Two>>)), Nil, First1(List("1 x", <<One, X>>))>>),
  JsonA1, JsonAb, List("{{\"a\":1}} {{\"a\":null}} 1", <<JsonA1,
    Braced("{\"a\":null}", Inner("\"a\":null"), JDict(<<"a">>, <<JNull>>)), One>>),
  List("a {[true]} b {{\"a\":1}}", <<A, Bracket("[true]", JList(<<Jsn("bool", TRUE)>>)), B, JsonA1>>),
  Bracket("[1,2,1.5,9]", JList(<<JNum(2), JNum(4), JNum(3), JNum(18)>>)),
  Bracket("[{\"a\":\"x\",\"b\":1},{},null,{\"b\":2}]", JList(<<
    JDict(<<"a", "b">>, <<JStr(X), JNum(2)>>), JDict(<< >>, << >>), JNull,
    JDict(<<"b">>, <<JNum(4)>>)>>)),
  Braced("{\"a\":[{\"b\":1},{}],\"b\":{}}", Inner("\"a\":[..."),
    JDict(<<"a", "b">>, <<JList(<<JDict(<<"b">>, <<JNum(2)>>), JDict(<< >>, << >>)>>), JDict(<< >>, << >>)>>)),
  Braced("{\"a\":\"x y\",\"b\":1}", Inner("\"a\":\"x y\",..."),
    JDict(<<"a", "b">>, <<JStr(List("x y", <<X, Word("y")>>)), JNum(2)>>)),
  Braced("{\"a\":\"\",\"b\":1}", Inner("\"a\":\"\",..."),
    JDict(<<"a", "b">>, <<JStr(Nil), JNum(2)>>)),
  Braced("{\"a\":\"x\",\"b\":1}", Inner("\"a\":\"x\",..."),
    JDict(<<"a", "b">>, <<JStr(X), JNum(2)>>)),
  Braced("{\"a\":true,\"b\":[1,null,\"x\"]}", Inner("\"a\":true,..."),
    JDict(<<"a", "b">>, <<Jsn("bool", TRUE), JList(<<JNum(2), JNull, JStr(X)>>)>>)) }

----------------------------------------------------------------------------
(* The constants: everything the roots and the inputs are made of.         *)

RECURSIVE Within(_), Parts(_), Nodes(_), Height(_)
Within(e) == {e} \cup UNION {Within(c) : c \in ToSet(e.children)}
Parts(d) == {d} \cup UNION {Parts(c) : c \in ToSet(d.list)}
Nodes(j) == {j} \cup UNION {Nodes(c) : c \in ToSet(j.items)}
Height(e) == IF e.children = << >> THEN 0 ELSE 1 + Max({Height(c) : c \in ToSet(e.children)})

Elements == UNION {Within(e) : e \in Roots}
Depths == [e \in Elements |-> Height(e)]
Given == UNION {Parts(d) : d \in Inputs}
Jsons == UNION {Nodes(d.json) : d \in {t \in Given : t.json # None}}
TclValues == Given \cup UNION {Parts(j.val) : j \in {n \in Jsons : n.kind = "str"}}
LowerCase == [k \in {"a", "b", "A"} |-> IF k = "A" THEN "a" ELSE k]

----------------------------------------------------------------------------
(* What the documentation says.                                            *)

\* The format that -type, -properties and -items give to a value, be it a Tcl
\* value or part of a JSON document, a property or an item.
Format(e) ==
  IF e.type # "json" \/ e.form = "none" THEN e.type
  ELSE IF e.form = "items" THEN "array" ELSE "object"

\* The value is what the documentation says of the element (readme.md:60-105).
RECURSIVE Satisfies(_)
Satisfies(q) ==
  LET f == View(q)
      child(c, v) == Satisfies(Ask(q, c, "root", v, -1))
  IN  /\ ~Unparsed(q)
      /\ \/ Format(q.ve) = "json" \/ Absent(f)
         \/ Format(q.ve) \in Scalar /\ Fault(f) = None
         \/ /\ Format(q.ve) = "object"
            /\ IF f.json = None THEN IsDict(f.tcl) ELSE f.json.kind = "obj"
            /\ \A c \in ToSet(q.ve.children) :
                 IF Property(f, c) = None THEN ~c.required ELSE child(c, Property(f, c))
         \/ /\ Format(q.ve) = "array"
            /\ IF f.json = None THEN IsList(f.tcl) ELSE f.json.kind = "arr"
            /\ q.ve.children # << >> => \A v \in ToSet(Items(f)) : child(q.ve.children[1], v)

\* "-items validation_schema - specifies a format for array (list) elements",
\* "-properties list - specifies a list of keys and their format in Tcl dict or
\* JSON object" (readme.md:101-105): a value is accepted only if it satisfies
\* its schema.
AcceptedIsValid ==
  reply # None /\ errors = << >> => Satisfies(TheQuestion)

\* The outkeys of the elements that the value has values for, nulls and the
\* items of arrays left out: those have dictionaries of their own.
RECURSIVE Owed(_)
Owed(q) ==
  IF Absent(View(q)) THEN {}
  ELSE {k \in {q.ve.outkey} : k # None} \cup
       IF Format(q.ve) # "object" THEN {}
       ELSE UNION {Owed(AskProperty(q, i)) : i \in {j \in DOMAIN q.ve.children :
              Property(View(q), q.ve.children[j]) # None}}

\* "-outkey keys - if it is specified, then the value for this key will be
\* stored in output dictionary" (readme.md:84): there is a value under it, or
\* under a beginning of it.
OutkeyIsStored ==
  reply # None /\ errors = << >>
    => \A k \in Owed(TheQuestion) : \E l \in DOMAIN outcomes[1].dict : IsPrefix(l, k)
=============================================================================
