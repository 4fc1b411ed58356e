----------------------------- MODULE MCCompile -----------------------------
(***************************************************************************)
(* Compile on the schemas of up to five nodes that differ in what the      *)
(* compiler does: every nesting of -items and -properties, every kind of   *)
(* object kept, one fault at any node, objects shared between the options  *)
(* of one schema.                                                          *)
(***************************************************************************)
EXTENDS Compile

CONSTANTS x, y  \* objects of the script

Blank == [type |-> "boolean", form |-> "none", children |-> << >>, key |-> None,
          outkey |-> None, pattern |-> None, match |-> "regexp",
          before |-> {}, after |-> {}, fault |-> "none"]

\* Leaves, as array items or roots.
Bool == Blank
Num(w) == [Blank EXCEPT !.type = "number", !.after = w]
Pat(m, p) == [Blank EXCEPT !.type = "string", !.match = m, !.pattern = p]
Uuid == [Blank EXCEPT !.type = "custom"]

Arr(n) == [Blank EXCEPT !.type = "array", !.form = "items", !.children = <<n>>]
Obs(ns) == [Blank EXCEPT !.type = "object", !.form = "properties", !.children = ns]
Json(e) == [e EXCEPT !.type = "json"]
Prop(k, e) == [e EXCEPT !.key = k]
Out(o, e) == [e EXCEPT !.outkey = o]
Word(o, e) == [e EXCEPT !.before = {o}]

\* The tree of a schema, node by node; the nodes it does not use are blank.
Tree(es) == [n \in Node |-> IF n <= Len(es) THEN es[n] ELSE Blank]

Leaves == {Bool, Uuid, Out(x, Num({x})), Out(x, Num({y})), Out(y, Pat("glob", x)),
           Word(x, Out(x, Pat("list", x))), Word(y, Out(x, Pat("regexp", y)))}
Inner == {Pat("regexp", x), Uuid, Word(x, Out(y, Num({})))}

\* An array or json of two levels, an object with two properties, one of them
\* an array, an object or a json with a format of its own.
Trees ==
  {<<l>> : l \in Leaves}
    \cup {<<f, l>> : f \in {Arr(2), Json(Arr(2))}, l \in Leaves}
    \cup {<<f, Prop(x, l)>> : f \in {Obs(<<2>>), Json(Obs(<<2>>)), Out(x, Obs(<<2>>))}, l \in Leaves}
    \cup {<<f, g, l>> : f \in {Arr(2), Json(Arr(2))}, g \in {Arr(3), Json(Arr(3))}, l \in Inner}
    \cup {<<f, g, Prop(x, l)>> : f \in {Arr(2), Json(Arr(2))},
                                g \in {Out(y, Obs(<<3>>)), Json(Obs(<<3>>))}, l \in Inner}
    \cup {<<f, Prop(x, Uuid), Prop(y, g), Prop(x, m)>> :
            f \in {Obs(<<2, 3>>), Json(Obs(<<2, 3>>))}, g \in {Obs(<<4>>), Json(Obs(<<4>>))}, m \in Inner}
    \cup {<<Obs(<<2, 3>>), Prop(x, l), Prop(y, g), Uuid>> : g \in {Arr(4), Json(Arr(4))}, l \in Inner}
    \cup {<<Obs(<<2, 5>>), Prop(x, Arr(3)), Json(Obs(<<4>>)), Prop(y, Uuid), Prop(x, Bool)>>}
    \cup {<<f>> : f \in {Obs(<< >>), Json(Obs(<< >>))}}

\* What can go wrong at a node.
Faults(e) ==
  {"args"} \cup
  {f \in Fault :
     CASE f = "outkey" -> e.outkey # None
       [] f = "options" -> e.type \in {"string", "number"} \/ (e.type = "json" /\ e.form = "items")
       [] f = "pattern" -> e.pattern # None /\ e.match # "glob"
       [] f = "items" -> e.form = "items"
       [] f = "properties" -> e.form = "properties"
       [] f = "element" -> e.key # None
       [] OTHER -> FALSE}

Broken(t) ==
  UNION {{[t EXCEPT ![n].fault = f] : f \in Faults(t[n])} : n \in DOMAIN t}

MCSchemas == {Tree(t) : t \in Trees \cup UNION {Broken(t) : t \in Trees}}

=============================================================================
