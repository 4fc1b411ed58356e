--------------------------- MODULE MeaningProofs ---------------------------
(***************************************************************************)
(* For every schema and every value: a validation reports exactly the      *)
(* violations of the schema, each with its path.                           *)
(***************************************************************************)
EXTENDS SchemaMeaning, ValidateProofs

----------------------------------------------------------------------------
(* Questions.                                                              *)

Role == {"root", "property", "item"}

\* What a call makes of a question.
LEMMA ViewOf ==
  ASSUME NEW q \in Question
  PROVE  /\ View(q).ve = q.ve /\ View(q).tcl = q.tcl /\ View(q).json = Document(q)
         /\ View(q).flag = Flag(q.ve, q.role)
         /\ View(q).key = IF Flag(q.ve, q.role) = "skip" THEN Skip ELSE Key(q.ve, q.role)
         /\ View(q).index = -1
         /\ DOMAIN View(q) = {"ve", "flag", "tcl", "json", "out", "key", "index", "next", "stage", "pos", "item"}
BY DEF View, NewFrame

LEMMA ViewType ==
  ASSUME NEW q \in Question
  PROVE  /\ q.ve \in Element /\ q.role \in Role /\ q.above \in Seq(PathPart)
         /\ q.tcl \in TclValue \cup {None} /\ q.json \in Json \cup {None}
         /\ q.tcl = None <=> q.json # None
         /\ Document(q) \in Json \cup {None}
         /\ Document(q) = None => q.tcl \in TclValue
         /\ View(q).key \in Keys
PROOF
<1>1. /\ q.ve \in Element /\ q.role \in Role /\ q.above \in Seq(PathPart)
      /\ q.tcl \in TclValue \cup {None} /\ q.json \in Json \cup {None}
      /\ q.tcl = None <=> q.json # None
  BY DEF Question, Role
<1>2. Document(q) \in Json \cup {None}
  BY <1>1, ValidateAssumption DEF Document
<1>3. Document(q) = None => q.tcl \in TclValue
  BY <1>1 DEF Document
<1>4. Key(q.ve, q.role) \in Keys
  BY <1>1 DEF Key, Keys, Role
<1>5. View(q).key \in Keys
  BY <1>4, ViewOf DEF Keys
<1> QED BY <1>1, <1>2, <1>3, <1>5

LEMMA PartType ==
  ASSUME NEW f, f.key \in Keys, f.index \in Nat \cup {-1}
  PROVE  Part(f) \in Seq(PathPart)
PROOF
<1>1. <<[key |-> f.key]>> \in Seq(PathPart)
  BY DEF PathPart
<1>2. f.index # -1 => <<[index |-> f.index]>> \in Seq(PathPart)
  BY DEF PathPart
<1>3. << >> \in Seq(PathPart)
  OBVIOUS
<1>4. \A s, t \in Seq(PathPart) : s \o t \in Seq(PathPart)
  OBVIOUS
<1> QED BY <1>1, <1>2, <1>3, <1>4 DEF Part

\* The values that a question is about: Tcl values, or the values of a document.
Values(q) == IF View(q).json = None THEN TclValue ELSE Json

LEMMA PropertyType ==
  ASSUME NEW q \in Question, NEW c
  PROVE  Property(View(q), c) \in Values(q) \cup {None}
BY ViewOf, ViewType, DictGetType, JsonGetType DEF Property, Values

LEMMA ItemsType ==
  ASSUME NEW q \in Question
  PROVE  Items(View(q)) \in Seq(Values(q))
PROOF
<1>1. View(q).json # None => View(q).json \in Json /\ View(q).json.items \in Seq(Json)
  BY ViewOf, ViewType, ValidateAssumption
<1>2. View(q).json = None => AsList(View(q).tcl) \in Seq(TclValue)
  BY ViewOf, ViewType, AsListType
<1> QED BY <1>1, <1>2 DEF Items, Values

LEMMA AskType ==
  ASSUME NEW q \in Question, NEW c \in Element, NEW role \in Role, NEW v \in Values(q),
         NEW index \in Nat \cup {-1}
  PROVE  Ask(q, c, role, v, index) \in Question
PROOF
<1> DEFINE f == [View(q) EXCEPT !.index = index]
<1>1. f.key \in Keys /\ f.index = index
  BY ViewOf, ViewType
<1> HIDE DEF f
<1>2. q.above \o Part(f) \in Seq(PathPart)
  <2>1. Part(f) \in Seq(PathPart) /\ q.above \in Seq(PathPart)
    BY <1>1, PartType, ViewType
  <2> QED BY <2>1
<1>3. v # None /\ (View(q).json = None => v \in TclValue) /\ (View(q).json # None => v \in Json)
  BY ValidateAssumption DEF Values
<1> DEFINE a == q.above \o Part(f)
<1>4. Ask(q, c, role, v, index) =
        [ve |-> c, role |-> role, above |-> a,
         tcl |-> IF View(q).json = None THEN v ELSE None,
         json |-> IF View(q).json = None THEN None ELSE v]
  BY DEF Ask, f
<1>5. a \in Seq(PathPart)
  BY <1>2
<1> HIDE DEF a
<1> QED BY <1>3, <1>4, <1>5 DEF Question, Role

\* A question about a part is one about an element that is less deep.
Smaller(p, q) == Depth[p.ve] < Depth[q.ve]

LEMMA AskPropertyType ==
  ASSUME NEW q \in Question, NEW i \in DOMAIN q.ve.children,
         Property(View(q), q.ve.children[i]) # None
  PROVE  AskProperty(q, i) \in Question /\ Smaller(AskProperty(q, i), q)
PROOF
<1> DEFINE c == q.ve.children[i]
<1>1. c \in Element /\ Depth[c] < Depth[q.ve]
  BY ViewType, ValidateAssumption, MeaningAssumption, ElementOfSeq
<1>2. Property(View(q), c) \in Values(q)
  BY PropertyType
<1>3. AskProperty(q, i) = Ask(q, c, "property", Property(View(q), c), -1)
  BY DEF AskProperty
<1>4. Ask(q, c, "property", Property(View(q), c), -1).ve = c
  BY DEF Ask
<1> HIDE DEF c
<1>5. "property" \in Role /\ -1 \in Nat \cup {-1}
  BY DEF Role
<1>6. Ask(q, c, "property", Property(View(q), c), -1) \in Question
  BY <1>1, <1>2, <1>5, AskType
<1> QED BY <1>1, <1>3, <1>4, <1>6 DEF Smaller

LEMMA AskItemType ==
  ASSUME NEW q \in Question, q.ve.children # << >>, NEW i \in DOMAIN Items(View(q))
  PROVE  AskItem(q, i) \in Question /\ Smaller(AskItem(q, i), q)
PROOF
<1> DEFINE c == q.ve.children[1]  v == Items(View(q))[i]
<1>1. q.ve \in Element /\ q.ve.children \in Seq(Element)
  BY ViewType, ValidateAssumption
<1>2. 1 \in DOMAIN q.ve.children
  BY <1>1
<1>3. c \in Element /\ Depth[c] < Depth[q.ve]
  BY <1>1, <1>2, MeaningAssumption, ElementOfSeq
<1>4. v \in Values(q) /\ i - 1 \in Nat
  <2>1. Items(View(q)) \in Seq(Values(q))
    BY ItemsType
  <2> QED BY <2>1
<1>5. AskItem(q, i) = Ask(q, c, "item", v, i - 1)
  BY DEF AskItem
<1>6. Ask(q, c, "item", v, i - 1).ve = c
  BY DEF Ask
<1> HIDE DEF c, v
<1>7. "item" \in Role /\ i - 1 \in Nat \cup {-1}
  BY <1>4 DEF Role
<1>8. Ask(q, c, "item", v, i - 1) \in Question
  BY <1>3, <1>4, <1>7, AskType
<1> QED BY <1>3, <1>5, <1>6, <1>8 DEF Smaller

----------------------------------------------------------------------------
(* The recursion over the schema.                                          *)

LEMMA DepthType ==
  ASSUME NEW q \in Question
  PROVE  Depth[q.ve] \in Nat
BY ViewType, MeaningAssumption

\* An answer depends on those to smaller questions only.
LEMMA ErrorsOfSmaller ==
  ASSUME NEW q \in Question, NEW V, NEW W,
         \A p \in Question : Smaller(p, q) => V[p] = W[p]
  PROVE  ErrorsOf(V, q) = ErrorsOf(W, q)
PROOF
<1>1. PartErrors(V, q) = PartErrors(W, q)
  <2>1. ASSUME NEW i \in DOMAIN q.ve.children, Property(View(q), q.ve.children[i]) # None
        PROVE  V[AskProperty(q, i)] = W[AskProperty(q, i)]
    BY <2>1, AskPropertyType
  <2>2. ASSUME q.ve.children # << >>, NEW i \in DOMAIN Items(View(q))
        PROVE  V[AskItem(q, i)] = W[AskItem(q, i)]
    BY <2>2, AskItemType
  <2> QED BY <2>1, <2>2 DEF PartErrors
<1> QED BY <1>1 DEF ErrorsOf

\* A recursive function is what its definition says it is.
LEMMA ViolationsDefined ==
  \A q \in Question : Violations[q] = ErrorsOf(Violations, q)
PROOF
<1> DEFINE Fits(g, k) == \A q \in Question : Depth[q.ve] < k => g[q] = ErrorsOf(g, q)
<1> DEFINE K == {k \in Nat : \E g : Fits(g, k)}
<1>1. 0 \in K
  BY DepthType
<1>2. ASSUME NEW k \in Nat, k \in K PROVE k + 1 \in K
  <2>1. PICK g : Fits(g, k)
    <3> HIDE DEF Fits
    <3> QED BY <1>2
  <2> DEFINE h == [q \in Question |-> IF Depth[q.ve] = k THEN ErrorsOf(g, q) ELSE g[q]]
  <2>2. ASSUME NEW q \in Question, Depth[q.ve] < k + 1 PROVE h[q] = ErrorsOf(h, q)
    <3>1. Depth[q.ve] = k \/ Depth[q.ve] < k
      BY <2>2, DepthType
    <3>2. h[q] = ErrorsOf(g, q)
      BY <2>1, <3>1
    <3>3. ASSUME NEW p \in Question, Smaller(p, q) PROVE g[p] = h[p]
      <4>1. Depth[p.ve] # k
        BY <3>3, <2>2, DepthType DEF Smaller
      <4> QED BY <4>1
    <3> HIDE DEF h
    <3>4. ErrorsOf(g, q) = ErrorsOf(h, q)
      BY <3>3, ErrorsOfSmaller
    <3> QED BY <3>2, <3>4
  <2> HIDE DEF h
  <2>3. Fits(h, k + 1)
    BY <2>2
  <2> HIDE DEF Fits
  <2> QED BY <2>3
<1>3. \A k \in Nat : \E g : Fits(g, k)
  <2> HIDE DEF Fits
  <2>1. \A n \in Nat : n \in K => n + 1 \in K
    BY <1>2
  <2>2. Nat \subseteq K
    <3> HIDE DEF K
    <3> QED BY <1>1, <2>1, CountingUp
  <2> QED BY <2>2
<1> DEFINE G == [k \in Nat |-> CHOOSE g : Fits(g, k)]
<1>4. \A k \in Nat : Fits(G[k], k)
  <2> HIDE DEF Fits
  <2> QED BY <1>3
<1> HIDE DEF G
<1>5. ASSUME NEW j \in Nat, NEW k \in Nat, NEW q \in Question, Depth[q.ve] < j, Depth[q.ve] < k
      PROVE  G[j][q] = G[k][q]
  <2> DEFINE D == {Depth[p.ve] : p \in {r \in Question : Depth[r.ve] < j /\ Depth[r.ve] < k
                                                           /\ G[j][r] # G[k][r]}}
  <2> SUFFICES ASSUME D # {} PROVE FALSE
    BY <1>5
  <2>1. D \subseteq Nat
    BY DepthType
  <2>2. PICK m \in D : \A n \in D : m <= n
    <3> HIDE DEF D
    <3> QED BY <2>1, LeastNatural
  <2>3. PICK p \in Question : /\ m = Depth[p.ve] /\ Depth[p.ve] < j /\ Depth[p.ve] < k
                              /\ G[j][p] # G[k][p]
    OBVIOUS
  <2>4. ASSUME NEW r \in Question, Smaller(r, p) PROVE G[j][r] = G[k][r]
    <3>1. Depth[r.ve] \in Nat /\ Depth[p.ve] \in Nat /\ Depth[r.ve] < Depth[p.ve]
      BY <2>4, DepthType DEF Smaller
    <3>2. Depth[r.ve] \notin D
      <4> HIDE DEF D
      <4> QED BY <2>2, <2>3, <3>1
    <3>3. Depth[r.ve] < j /\ Depth[r.ve] < k
      BY <2>3, <3>1
    <3> QED BY <3>2, <3>3
  <2>5. ErrorsOf(G[j], p) = ErrorsOf(G[k], p)
    BY <2>4, ErrorsOfSmaller
  <2>6. G[j][p] = ErrorsOf(G[j], p) /\ G[k][p] = ErrorsOf(G[k], p)
    BY <1>4, <2>3
  <2> QED BY <2>3, <2>5, <2>6
<1> DEFINE F == [q \in Question |-> G[Depth[q.ve] + 1][q]]
<1>6. ASSUME NEW q \in Question PROVE G[Depth[q.ve] + 1][q] = ErrorsOf(F, q)
  <2> DEFINE k == Depth[q.ve] + 1
  <2>1. k \in Nat /\ Depth[q.ve] < k
    BY DepthType
  <2>2. ASSUME NEW p \in Question, Smaller(p, q) PROVE G[k][p] = F[p]
    <3>1. Depth[p.ve] + 1 \in Nat /\ Depth[p.ve] < Depth[p.ve] + 1 /\ Depth[p.ve] < k
      BY <2>2, DepthType DEF Smaller
    <3>2. F[p] = G[Depth[p.ve] + 1][p]
      OBVIOUS
    <3> HIDE DEF F, k
    <3> QED BY <1>5, <2>1, <3>1, <3>2
  <2> HIDE DEF F, k
  <2>3. ErrorsOf(G[k], q) = ErrorsOf(F, q)
    BY <2>2, ErrorsOfSmaller
  <2>4. G[k][q] = ErrorsOf(G[k], q)
    BY <1>4, <2>1
  <2> QED BY <2>3, <2>4 DEF k
<1>7. F = [q \in Question |-> ErrorsOf(F, q)]
  BY <1>6
<1>8. Violations = [q \in Question |-> ErrorsOf(Violations, q)]
  <2> HIDE DEF F
  <2> QED BY <1>7 DEF Violations
<1> QED BY <1>8

\* The keyword of a scalar's error is one of these.
LEMMA FaultType == \A f : Fault(f) \in {"type", "value", None}
BY DEF Fault

LEMMA WrongType ==
  ASSUME NEW q \in Question, NEW keyword \in {"type", "value", "required"}, NEW key \in Keys
  PROVE  Wrong(q, keyword, key) \in Seq(Message)
PROOF
<1>1. q.above \o Part(View(q)) \in Seq(PathPart)
  <2>1. Part(View(q)) \in Seq(PathPart) /\ q.above \in Seq(PathPart)
    BY ViewOf, ViewType, PartType
  <2> QED BY <2>1
<1> DEFINE a == q.above \o Part(View(q))
<1>2. [keyword |-> keyword, path |-> a, key |-> key] \in Message
  BY <1>1 DEF Message
<1> QED BY <1>2 DEF Wrong

\* The errors of the parts are sequences of messages.
LEMMA PartErrorsType ==
  ASSUME NEW q \in Question, NEW V, \A p \in Question : Smaller(p, q) => V[p] \in Seq(Message)
  PROVE  PartErrors(V, q) \in Seq(Seq(Message))
PROOF
<1>0. q.ve.children \in Seq(Element)
  BY ViewType, ValidateAssumption
<1>1. ASSUME NEW i \in DOMAIN q.ve.children
      PROVE  (LET c == q.ve.children[i] IN
              IF Property(View(q), c) # None THEN V[AskProperty(q, i)]
              ELSE IF c.required THEN Wrong(q, "required", c.key) ELSE << >>) \in Seq(Message)
  <2>1. Property(View(q), q.ve.children[i]) # None => V[AskProperty(q, i)] \in Seq(Message)
    BY AskPropertyType
  <2>2. q.ve.children[i].key \in Keys
    <3>1. q.ve.children[i] \in Element
      BY <1>0, ElementOfSeq
    <3> QED BY <3>1 DEF Keys
  <2>3. Wrong(q, "required", q.ve.children[i].key) \in Seq(Message)
    BY <2>2, WrongType
  <2>4. << >> \in Seq(Message)
    OBVIOUS
  <2> QED BY <2>1, <2>3, <2>4
<1>2. ASSUME q.ve.children # << >>, NEW i \in DOMAIN Items(View(q))
      PROVE  V[AskItem(q, i)] \in Seq(Message)
  BY <1>2, AskItemType
<1>3. DOMAIN q.ve.children = 1..Len(q.ve.children) /\ Len(q.ve.children) \in Nat
  BY <1>0
<1>4. DOMAIN Items(View(q)) = 1..Len(Items(View(q))) /\ Len(Items(View(q))) \in Nat
  BY ItemsType
<1>5. << >> \in Seq(Seq(Message))
  OBVIOUS
<1>6. CASE Shape(View(q)) = "object"
  <2>1. PartErrors(V, q) =
          [i \in 1..Len(q.ve.children) |-> LET c == q.ve.children[i] IN
            IF Property(View(q), c) # None THEN V[AskProperty(q, i)]
            ELSE IF c.required THEN Wrong(q, "required", c.key) ELSE << >>]
    BY <1>6, <1>3 DEF PartErrors
  <2> QED BY <2>1, <1>1, <1>3
<1>7. CASE Shape(View(q)) # "object" /\ q.ve.children # << >>
  <2>1. PartErrors(V, q) = [i \in 1..Len(Items(View(q))) |-> V[AskItem(q, i)]]
    BY <1>7, <1>4 DEF PartErrors
  <2> QED BY <2>1, <1>7, <1>2, <1>4
<1>8. CASE Shape(View(q)) # "object" /\ q.ve.children = << >>
  BY <1>8, <1>5 DEF PartErrors
<1> QED BY <1>6, <1>7, <1>8

LEMMA ErrorsOfType ==
  ASSUME NEW q \in Question, NEW V, \A p \in Question : Smaller(p, q) => V[p] \in Seq(Message)
  PROVE  ErrorsOf(V, q) \in Seq(Message)
PROOF
<1>1. Wrong(q, "type", None) \in Seq(Message)
  BY WrongType DEF Keys
<1>2. Fault(View(q)) # None => Wrong(q, Fault(View(q)), None) \in Seq(Message)
  <2>1. Fault(View(q)) # None => Fault(View(q)) \in {"type", "value", "required"}
    BY FaultType
  <2>2. None \in Keys
    BY DEF Keys
  <2> QED BY <2>1, <2>2, WrongType
<1>3. FlattenSeq(PartErrors(V, q)) \in Seq(Message)
  BY PartErrorsType, FlattenParts
<1>4. << >> \in Seq(Message)
  OBVIOUS
<1> QED BY <1>1, <1>2, <1>3, <1>4 DEF ErrorsOf

LEMMA ViolationsType ==
  \A q \in Question : Violations[q] \in Seq(Message)
PROOF
<1> DEFINE D == {Depth[p.ve] : p \in {r \in Question : Violations[r] \notin Seq(Message)}}
<1> SUFFICES ASSUME D # {} PROVE FALSE
  OBVIOUS
<1>1. D \subseteq Nat
  BY DepthType
<1>2. PICK m \in D : \A n \in D : m <= n
  <2> HIDE DEF D
  <2> QED BY <1>1, LeastNatural
<1>3. PICK p \in Question : m = Depth[p.ve] /\ Violations[p] \notin Seq(Message)
  OBVIOUS
<1>4. ASSUME NEW r \in Question, Smaller(r, p) PROVE Violations[r] \in Seq(Message)
  <2>1. Depth[r.ve] \in Nat /\ Depth[p.ve] \in Nat /\ Depth[r.ve] < Depth[p.ve]
    BY <1>4, DepthType DEF Smaller
  <2>2. Depth[r.ve] \notin D
    <3> HIDE DEF D
    <3> QED BY <1>2, <1>3, <2>1
  <2> QED BY <2>2
<1> QED BY <1>3, <1>4, ErrorsOfType, ViolationsDefined

----------------------------------------------------------------------------
(* The calls of a validation as questions.                                 *)

\* What the first k properties or items are wrong in.
FirstErrors(q, k) == FlattenSeq(SubSeq(PartErrors(Violations, q), 1, k))

\* The value is looked into.
Walks(q) ==
  /\ ~Unparsed(q) /\ ~Ignored(q) /\ RightForm(View(q))
  /\ \/ Shape(View(q)) = "object"
     \/ Shape(View(q)) = "array" /\ q.ve.children # << >>

\* The call f is to answer q.
Asks(f, q) ==
  /\ f.ve = q.ve /\ f.flag = Flag(q.ve, q.role) /\ f.key = View(q).key /\ f.tcl = q.tcl
  /\ f.stage = "enter" => f.json \in {q.json, Document(q)} /\ f.index = -1 /\ f.pos = 0
  /\ f.stage # "enter" => f.json = Document(q)
  /\ f.stage = "loop" =>
       /\ Walks(q)
       /\ Shape(f) = "object" => f.index = -1 /\ f.pos \in 0..Len(q.ve.children)
       /\ Shape(f) # "object" => f.index \in 0..Len(Items(View(q)))

\* The errors it has found when it is not waiting for another call.
Found(f, q) ==
  CASE f.stage = "enter" -> << >>
    [] f.stage = "loop" -> FirstErrors(q, IF Shape(f) = "object" THEN f.pos ELSE f.index)
    [] f.stage = "leave" -> Violations[q]

\* The call f for q waits for the answer to p.
Waits(f, q, p) ==
  /\ f.stage = "loop"
  /\ \/ /\ Shape(f) = "object" /\ f.pos \in 1..Len(q.ve.children)
        /\ Property(View(q), q.ve.children[f.pos]) # None
        /\ p = AskProperty(q, f.pos)
     \/ /\ Shape(f) # "object" /\ f.index \in 0..(Len(Items(View(q))) - 1)
        /\ p = AskItem(q, f.index + 1)

\* The parts that are answered by then.
Behind(f) == IF Shape(f) = "object" THEN f.pos - 1 ELSE f.index

\* A call's question and the errors before it.
Ghost == [q : Question, before : Seq(Message)]

\* The calls answer the question q0, and have found the errors es so far.
Follows(g, fs, es, q0) ==
  /\ Len(g) = Len(fs)
  /\ fs = << >> => es = Violations[q0]
  /\ fs # << >> =>
       /\ g[1] = [q |-> q0, before |-> << >>]
       /\ es = g[Len(fs)].before \o Found(fs[Len(fs)], g[Len(fs)].q)
  /\ \A i \in 1..Len(fs) : Asks(fs[i], g[i].q)
  /\ \A i \in 1..(Len(fs) - 1) :
       /\ Waits(fs[i], g[i].q, g[i + 1].q)
       /\ g[i + 1].before = g[i].before \o FirstErrors(g[i].q, Behind(fs[i]))

ErrorsInv ==
  /\ \E g \in Seq(Ghost) : Follows(g, frames, errors, TheQuestion)
  /\ reply # None => frames = << >>

----------------------------------------------------------------------------
(* What the answers are made of.                                           *)

\* A call sees what its question is about.
LEMMA SeesTheSame ==
  ASSUME NEW q \in Question, NEW f, Asks(f, q), f.json = Document(q)
  PROVE  /\ Shape(f) = Shape(View(q)) /\ Items(f) = Items(View(q))
         /\ Fault(f) = Fault(View(q)) /\ Result(f) = Result(View(q))
         /\ RightForm(f) <=> RightForm(View(q))
         /\ Absent(f) <=> Absent(View(q))
         /\ \A c : Property(f, c) = Property(View(q), c)
         /\ \A i : f.index = i => Part(f) = Part([View(q) EXCEPT !.index = i])
PROOF
<1>1. /\ View(q).ve = f.ve /\ View(q).tcl = f.tcl /\ View(q).json = f.json
      /\ View(q).flag = f.flag /\ View(q).key = f.key
  BY ViewOf DEF Asks
<1>2. Shape(f) = Shape(View(q))
  BY <1>1 DEF Shape
<1>3. Items(f) = Items(View(q))
  BY <1>1 DEF Items
<1>4. Reading(f) = Reading(View(q))
  BY <1>1 DEF Reading
<1>5. Fault(f) = Fault(View(q))
  BY <1>1, <1>4 DEF Fault
<1>6. Result(f) = Result(View(q))
  BY <1>1, <1>4 DEF Result
<1>7. RightForm(f) <=> RightForm(View(q))
  BY <1>1, <1>2 DEF RightForm
<1>8. Absent(f) <=> Absent(View(q))
  BY <1>1 DEF Absent
<1>9. \A c : Property(f, c) = Property(View(q), c)
  BY <1>1 DEF Property
<1>10. ASSUME NEW i, f.index = i PROVE Part(f) = Part([View(q) EXCEPT !.index = i])
  <2> DEFINE v == [View(q) EXCEPT !.index = i]
  <2>1. v.key = f.key /\ v.index = f.index
    BY <1>1, <1>10, ViewOf
  <2> HIDE DEF v
  <2>2. Part(f) = Part(v)
    BY <2>1 DEF Part
  <2> QED BY <2>2 DEF v
<1> QED BY <1>2, <1>3, <1>5, <1>6, <1>7, <1>8, <1>9, <1>10

LEMMA PartsOfPlace ==
  ASSUME NEW q \in Question
  PROVE  Part([View(q) EXCEPT !.index = -1]) = Part(View(q))
PROOF
<1> DEFINE v == [View(q) EXCEPT !.index = -1]
<1>1. v.key = View(q).key /\ v.index = View(q).index
  BY ViewOf
<1> HIDE DEF v
<1>2. Part(v) = Part(View(q))
  BY <1>1 DEF Part
<1> QED BY <1>2 DEF v

\* How many parts a value has.
LEMMA PartsCounted ==
  ASSUME NEW q \in Question, Walks(q)
  PROVE  /\ PartErrors(Violations, q) \in Seq(Seq(Message))
         /\ Violations[q] = FlattenSeq(PartErrors(Violations, q))
         /\ Shape(View(q)) = "object" => Len(PartErrors(Violations, q)) = Len(q.ve.children)
         /\ Shape(View(q)) # "object" => Len(PartErrors(Violations, q)) = Len(Items(View(q)))
         /\ Len(q.ve.children) \in Nat /\ Len(Items(View(q))) \in Nat
         /\ DOMAIN q.ve.children = 1..Len(q.ve.children)
         /\ DOMAIN Items(View(q)) = 1..Len(Items(View(q)))
PROOF
<1>1. PartErrors(Violations, q) \in Seq(Seq(Message))
  BY PartErrorsType, ViolationsType
<1>2. Shape(View(q)) \notin Scalar
  BY DEF Walks, Scalar
<1>3. Violations[q] = FlattenSeq(PartErrors(Violations, q))
  BY <1>2, ViolationsDefined DEF ErrorsOf, Walks
<1>4. q.ve.children \in Seq(Element)
  BY ViewType, ValidateAssumption
<1>5. /\ Len(q.ve.children) \in Nat /\ DOMAIN q.ve.children = 1..Len(q.ve.children)
  BY <1>4
<1>6. Len(Items(View(q))) \in Nat /\ DOMAIN Items(View(q)) = 1..Len(Items(View(q)))
  BY ItemsType
<1>7. ASSUME Shape(View(q)) = "object" PROVE Len(PartErrors(Violations, q)) = Len(q.ve.children)
  <2>1. DOMAIN PartErrors(Violations, q) = DOMAIN q.ve.children
    BY <1>7 DEF PartErrors
  <2> QED BY <2>1, <1>1, <1>4, <1>5
<1>8. ASSUME Shape(View(q)) # "object" PROVE Len(PartErrors(Violations, q)) = Len(Items(View(q)))
  <2>1. DOMAIN PartErrors(Violations, q) = DOMAIN Items(View(q))
    BY <1>8 DEF PartErrors, Walks
  <2> QED BY <2>1, <1>1, <1>6, ItemsType
<1> QED BY <1>1, <1>3, <1>5, <1>6, <1>7, <1>8

\* The errors of the first parts: of none, of one more, of all.
LEMMA FirstErrorsGrow ==
  ASSUME NEW q \in Question, Walks(q)
  PROVE  LET n == Len(PartErrors(Violations, q)) IN
         /\ n \in Nat
         /\ FirstErrors(q, 0) = << >>
         /\ \A k \in 0..n : FirstErrors(q, k) \in Seq(Message)
         /\ \A k \in 0..(n - 1) :
              FirstErrors(q, k + 1) = FirstErrors(q, k) \o PartErrors(Violations, q)[k + 1]
         /\ FirstErrors(q, n) = Violations[q]
PROOF
<1> DEFINE s == PartErrors(Violations, q)
<1>1. s \in Seq(Seq(Message)) /\ Violations[q] = FlattenSeq(s)
  BY PartsCounted
<1>2. \A k : FirstErrors(q, k) = FlattenSeq(SubSeq(s, 1, k))
  BY DEF FirstErrors
<1> HIDE DEF s
<1>3. /\ FlattenSeq(SubSeq(s, 1, 0)) = << >>
      /\ \A k \in 0..Len(s) : FlattenSeq(SubSeq(s, 1, k)) \in Seq(Message)
      /\ \A k \in 0..Len(s) : k + 1 <= Len(s) =>
           FlattenSeq(SubSeq(s, 1, k + 1)) = FlattenSeq(SubSeq(s, 1, k)) \o s[k + 1]
      /\ FlattenSeq(SubSeq(s, 1, Len(s))) = FlattenSeq(s)
  BY <1>1, FlattenParts
<1>4. Len(s) \in Nat
  BY <1>1
<1>5. \A k \in 0..(Len(s) - 1) : k \in 0..Len(s) /\ k + 1 <= Len(s)
  BY <1>4
<1>6. \A k \in 0..(Len(s) - 1) : FirstErrors(q, k + 1) = FirstErrors(q, k) \o s[k + 1]
  BY <1>2, <1>3, <1>5
<1>7. FirstErrors(q, 0) = << >> /\ FirstErrors(q, Len(s)) = Violations[q]
  BY <1>1, <1>2, <1>3
<1>8. \A k \in 0..Len(s) : FirstErrors(q, k) \in Seq(Message)
  BY <1>2, <1>3
<1> QED BY <1>4, <1>6, <1>7, <1>8 DEF s

\* The answer a call waits for is that of the part it has come to.
LEMMA AnswerWaitedFor ==
  ASSUME NEW q \in Question, NEW f, Asks(f, q), NEW p, Waits(f, q, p)
  PROVE  /\ p \in Question
         /\ p.above = q.above \o Part(f)
         /\ Behind(f) \in 0..(Len(PartErrors(Violations, q)) - 1)
         /\ PartErrors(Violations, q)[Behind(f) + 1] = Violations[p]
PROOF
<1>0. f.stage = "loop" /\ f.json = Document(q) /\ Walks(q)
  BY DEF Waits, Asks
<1>1. Shape(f) = Shape(View(q)) /\ \A i : f.index = i => Part(f) = Part([View(q) EXCEPT !.index = i])
  BY <1>0, SeesTheSame
<1>2. /\ Len(q.ve.children) \in Nat /\ Len(Items(View(q))) \in Nat
      /\ DOMAIN q.ve.children = 1..Len(q.ve.children)
      /\ DOMAIN Items(View(q)) = 1..Len(Items(View(q)))
      /\ Shape(View(q)) = "object" => Len(PartErrors(Violations, q)) = Len(q.ve.children)
      /\ Shape(View(q)) # "object" => Len(PartErrors(Violations, q)) = Len(Items(View(q)))
  BY <1>0, PartsCounted
<1>3. CASE Shape(f) = "object"
  <2>1. /\ f.pos \in DOMAIN q.ve.children /\ Property(View(q), q.ve.children[f.pos]) # None
        /\ p = AskProperty(q, f.pos) /\ f.index = -1
    BY <1>0, <1>2, <1>3 DEF Waits, Asks
  <2>2. p \in Question
    BY <2>1, AskPropertyType
  <2>3. p.above = q.above \o Part([View(q) EXCEPT !.index = -1])
    BY <2>1 DEF AskProperty, Ask
  <2>4. p.above = q.above \o Part(f)
    BY <1>1, <2>1, <2>3
  <2>5. Behind(f) + 1 = f.pos /\ Behind(f) \in 0..(Len(PartErrors(Violations, q)) - 1)
    BY <1>1, <1>2, <1>3, <2>1 DEF Behind
  <2>6. PartErrors(Violations, q)[f.pos] = Violations[AskProperty(q, f.pos)]
    BY <1>1, <1>3, <2>1 DEF PartErrors
  <2> QED BY <2>1, <2>2, <2>4, <2>5, <2>6
<1>4. CASE Shape(f) # "object"
  <2>1. f.index \in 0..(Len(Items(View(q))) - 1) /\ p = AskItem(q, f.index + 1)
    BY <1>4 DEF Waits
  <2>2. q.ve.children # << >>
    BY <1>0, <1>1, <1>4 DEF Walks
  <2>3. f.index + 1 \in DOMAIN Items(View(q)) /\ (f.index + 1) - 1 = f.index
    BY <1>2, <2>1
  <2>4. p \in Question
    BY <2>1, <2>2, <2>3, AskItemType
  <2>5. p.above = q.above \o Part([View(q) EXCEPT !.index = (f.index + 1) - 1])
    BY <2>1 DEF AskItem, Ask
  <2>6. p.above = q.above \o Part(f)
    BY <1>1, <2>3, <2>5
  <2>7. Behind(f) = f.index /\ Behind(f) \in 0..(Len(PartErrors(Violations, q)) - 1)
    BY <1>1, <1>2, <1>4, <2>1 DEF Behind
  <2>8. PartErrors(Violations, q)[f.index + 1] = Violations[AskItem(q, f.index + 1)]
    BY <1>1, <1>4, <2>2, <2>3 DEF PartErrors
  <2> QED BY <2>1, <2>4, <2>6, <2>7, <2>8
<1> QED BY <1>3, <1>4

----------------------------------------------------------------------------
(* The error path.                                                         *)

LEMMA JoinedPaths ==
  \A a, b, c \in Seq(PathPart) : (a \o b) \o c = a \o (b \o c)
OBVIOUS

LEMMA JoinedErrors ==
  \A a, b, c \in Seq(Message) : (a \o b) \o c = a \o (b \o c)
OBVIOUS

\* What frames that link to the next one give for a path, from each on.
LEMMA PathUnfolds ==
  ASSUME NEW n \in Nat, NEW P \in [1..n -> Seq(PathPart)],
         NEW next \in [1..n -> 0..n], \A i \in 1..n : next[i] = IF i = n THEN 0 ELSE i + 1
  PROVE  \E f \in [0..n -> Seq(PathPart)] :
           f[0] = << >> /\ \A i \in 1..n : f[i] = P[i] \o f[next[i]]
PROOF
<1> DEFINE Body(h, i) == IF i = 0 THEN << >> ELSE P[i] \o h[next[i]]
<1> DEFINE Fits(h, k) == \A i \in 0..n : i = 0 \/ i + k > n => h[i] = Body(h, i)
<1> DEFINE K == {k \in Nat : \E h \in [0..n -> Seq(PathPart)] : Fits(h, k)}
<1>1. 0 \in K
  <2>1. \A i \in 0..n : i = 0 \/ i + 0 > n => i = 0
    OBVIOUS
  <2> DEFINE h == [i \in 0..n |-> << >>]
  <2>2. Fits(h, 0)
    BY <2>1
  <2>3. h \in [0..n -> Seq(PathPart)]
    <3>1. << >> \in Seq(PathPart)
      OBVIOUS
    <3> QED BY <3>1
  <2> HIDE DEF Fits, h
  <2> QED BY <2>2, <2>3
<1>2. ASSUME NEW k \in Nat, k \in K PROVE k + 1 \in K
  <2>1. PICK h \in [0..n -> Seq(PathPart)] : Fits(h, k)
    <3> HIDE DEF Fits
    <3> QED BY <1>2
  <2> DEFINE j == [i \in 0..n |-> IF i # 0 /\ i + k = n THEN Body(h, i) ELSE h[i]]
  <2>2. ASSUME NEW i \in 0..n, i = 0 \/ i + (k + 1) > n PROVE j[i] = Body(j, i)
    <3>1. i = 0 \/ i + k = n \/ i + k > n
      BY <2>2
    <3>2. j[i] = Body(h, i)
      BY <2>1, <3>1
    <3>3. CASE i = 0
      BY <3>2, <3>3
    <3>4. CASE i # 0
      <4>1. i \in 1..n /\ next[i] = IF i = n THEN 0 ELSE i + 1
        BY <3>4
      <4>2. next[i] \in 0..n /\ (next[i] = 0 \/ next[i] + k # n)
        BY <4>1, <2>2
      <4>3. j[next[i]] = h[next[i]]
        BY <4>2
      <4> QED BY <3>2, <3>4, <4>3
    <3> QED BY <3>3, <3>4
  <2>3. Fits(j, k + 1)
    BY <2>2
  <2>4. ASSUME NEW i \in 0..n PROVE Body(h, i) \in Seq(PathPart)
    <3>1. i # 0 => i \in 1..n /\ next[i] \in 0..n
      <4>1. i # 0 => i \in 1..n
        OBVIOUS
      <4> QED BY <4>1
    <3>2. i # 0 => P[i] \in Seq(PathPart) /\ h[next[i]] \in Seq(PathPart)
      BY <3>1
    <3>3. << >> \in Seq(PathPart) /\ \A a, b \in Seq(PathPart) : a \o b \in Seq(PathPart)
      OBVIOUS
    <3> QED BY <3>2, <3>3
  <2>5. j \in [0..n -> Seq(PathPart)]
    <3> HIDE DEF Body
    <3> QED BY <2>4
  <2> HIDE DEF Fits, j
  <2> QED BY <2>3, <2>5
<1>3. PICK h \in [0..n -> Seq(PathPart)] : Fits(h, n)
  <2> HIDE DEF Fits
  <2>1. \A m \in Nat : m \in K => m + 1 \in K
    BY <1>2
  <2>2. Nat \subseteq K
    <3> HIDE DEF K
    <3> QED BY <1>1, <2>1, CountingUp
  <2> QED BY <2>2
<1>4. \A i \in 0..n : i = 0 \/ i + n > n
  OBVIOUS
<1>5. \A i \in 0..n : h[i] = Body(h, i)
  BY <1>3, <1>4
<1>6. 0 \in 0..n /\ \A i \in 1..n : i \in 0..n /\ i # 0
  OBVIOUS
<1>7. h[0] = << >> /\ \A i \in 1..n : h[i] = P[i] \o h[next[i]]
  BY <1>5, <1>6
<1> QED BY <1>7

\* The chain of frames gives the path of the innermost question.
LEMMA PathOfQuestion ==
  ASSUME TypeOK, ChainIsCallStack, frames # << >>, NEW es, NEW q0, q0.above = << >>,
         NEW g \in Seq(Ghost), Follows(g, frames, es, q0)
  PROVE  Path = g[Len(frames)].q.above \o Part(Top)
PROOF
<1>0. Len(frames) \in Nat /\ Len(frames) >= 1
  BY DEF TypeOK
<1> PICK n \in Nat : n = Len(frames)
  BY <1>0
<1>1. n >= 1 /\ DOMAIN frames = 1..n /\ Len(g) = n
  BY <1>0 DEF TypeOK, Follows
<1>2. \A i \in 1..n : g[i] \in Ghost /\ g[i].q \in Question /\ g[i].q.above \in Seq(PathPart)
  <2>1. \A i \in 1..n : g[i] \in Ghost
    BY <1>1
  <2>2. \A i \in 1..n : g[i].q \in Question
    BY <2>1 DEF Ghost
  <2> QED BY <2>1, <2>2, ViewType
<1>3. \A i \in 1..n : Part(frames[i]) \in Seq(PathPart)
  <2>1. ASSUME NEW i \in 1..n PROVE Part(frames[i]) \in Seq(PathPart)
    <3>1. frames[i] \in Frame
      BY <1>1 DEF TypeOK
    <3>2. frames[i].key \in Keys /\ frames[i].index \in Nat \cup {-1}
      BY <3>1 DEF Frame, FrameRecord
    <3> QED BY <3>2, PartType
  <2> QED BY <2>1
<1>4. ASSUME NEW i \in 1..n, i # n PROVE g[i + 1].q.above = g[i].q.above \o Part(frames[i])
  <2>1. i \in 1..(n - 1)
    BY <1>4
  <2>2. Asks(frames[i], g[i].q) /\ Waits(frames[i], g[i].q, g[i + 1].q)
    BY <2>1 DEF Follows
  <2>3. g[i].q \in Question
    BY <1>2
  <2>4. \A q \in Question : \A f, p : Asks(f, q) /\ Waits(f, q, p) => p.above = q.above \o Part(f)
    BY AnswerWaitedFor
  <2> QED BY <2>2, <2>3, <2>4
<1> DEFINE P == [i \in 1..n |-> Part(frames[i])]
           next == [i \in 1..n |-> frames[i].next]
           from == CHOOSE f : f = [i \in 0..n |-> IF i = 0 THEN << >> ELSE P[i] \o f[next[i]]]
<1>5. Path = from[1]
  <2> DEFINE A(f) == [i \in 0..n |-> IF i = 0 THEN << >> ELSE Part(frames[i]) \o f[frames[i].next]]
             B(f) == [i \in 0..n |-> IF i = 0 THEN << >> ELSE P[i] \o f[next[i]]]
  <2>1. \A f : A(f) = B(f)
    <3>1. \A i \in 0..n : i # 0 => i \in 1..n
      BY <1>1
    <3> QED BY <3>1
  <2>2. Path = (CHOOSE f : f = A(f))[1]
    BY DEF Path
  <2> HIDE DEF A, B, P, next
  <2>3. (CHOOSE f : f = A(f)) = (CHOOSE f : f = B(f))
    BY <2>1
  <2> QED BY <2>2, <2>3 DEF B
<1>6. /\ from[0] = << >>
      /\ \A i \in 1..n : from[i] = Part(frames[i]) \o from[IF i = n THEN 0 ELSE i + 1]
  <2>1. P \in [1..n -> Seq(PathPart)]
    BY <1>3
  <2>2. \A i \in 1..n : next[i] = IF i = n THEN 0 ELSE i + 1
    BY <1>1 DEF ChainIsCallStack
  <2>10. next \in [1..n -> 0..n]
    <3>1. \A i \in 1..n : (IF i = n THEN 0 ELSE i + 1) \in 0..n
      OBVIOUS
    <3>2. \A i \in 1..n : frames[i].next = IF i = n THEN 0 ELSE i + 1
      BY <1>1 DEF ChainIsCallStack
    <3> QED BY <3>1, <3>2
  <2>3. \A i \in 1..n : P[i] = Part(frames[i])
    OBVIOUS
  <2> HIDE DEF P, next
  <2>9. \A i \in 0..n : i # 0 => i \in 1..n
    OBVIOUS
  <2>4. PICK f \in [0..n -> Seq(PathPart)] :
               f[0] = << >> /\ \A i \in 1..n : f[i] = P[i] \o f[next[i]]
    BY <2>1, <2>2, <2>10, PathUnfolds
  <2>8. f = [i \in 0..n |-> IF i = 0 THEN << >> ELSE P[i] \o f[next[i]]]
    <3>1. \A i \in 0..n : f[i] = IF i = 0 THEN << >> ELSE P[i] \o f[next[i]]
      BY <2>4, <2>9
    <3> QED BY <2>4, <3>1
  <2>5. from = [i \in 0..n |-> IF i = 0 THEN << >> ELSE P[i] \o from[next[i]]]
    BY <2>8
  <2> HIDE DEF from
  <2>6. 0 \in 0..n /\ \A i \in 1..n : i \in 0..n /\ i # 0
    OBVIOUS
  <2>7. from[0] = << >> /\ \A i \in 1..n : from[i] = P[i] \o from[next[i]]
    BY <2>5, <2>6
  <2> QED BY <2>2, <2>3, <2>7
<1> HIDE DEF from
<1> DEFINE whole == g[n].q.above \o Part(frames[n])
<1> DEFINE Leads(k) == \A i \in 1..n : i + k = n =>
                         from[i] \in Seq(PathPart) /\ g[i].q.above \o from[i] = whole
<1> DEFINE K == {k \in Nat : Leads(k)}
<1>7. 0 \in K
  <2>1. n \in 1..n
    BY <1>1
  <2>2. Part(frames[n]) \o << >> = Part(frames[n])
    BY <1>3, <2>1, ConcatEmptySeq
  <2>3. from[n] = Part(frames[n])
    BY <1>6, <2>1, <2>2
  <2>4. \A i \in 1..n : i + 0 = n => i = n
    BY <1>1
  <2> QED BY <1>3, <2>1, <2>3, <2>4
<1>8. ASSUME NEW k \in Nat, k \in K PROVE k + 1 \in K
  <2>1. ASSUME NEW i \in 1..n, i + (k + 1) = n
        PROVE  from[i] \in Seq(PathPart) /\ g[i].q.above \o from[i] = whole
    <3> HIDE DEF whole
    <3>1. i + 1 \in 1..n /\ (i + 1) + k = n /\ i # n
      BY <1>1, <2>1
    <3>2. from[i + 1] \in Seq(PathPart) /\ g[i + 1].q.above \o from[i + 1] = whole
      BY <1>8, <3>1
    <3>3. from[i] = Part(frames[i]) \o from[i + 1]
      BY <1>6, <3>1
    <3>4. g[i + 1].q.above = g[i].q.above \o Part(frames[i])
      BY <1>4, <3>1
    <3>5. /\ g[i].q.above \in Seq(PathPart) /\ Part(frames[i]) \in Seq(PathPart)
      BY <1>2, <1>3
    <3>6. (g[i].q.above \o Part(frames[i])) \o from[i + 1] = g[i].q.above \o (Part(frames[i]) \o from[i + 1])
      BY <3>2, <3>5, JoinedPaths
    <3>7. Part(frames[i]) \o from[i + 1] \in Seq(PathPart)
      BY <3>2, <3>5
    <3> QED BY <3>2, <3>3, <3>4, <3>6, <3>7
  <2> HIDE DEF whole
  <2>2. Leads(k + 1)
    BY <2>1
  <2> HIDE DEF Leads
  <2> QED BY <2>2
<1>9. from[1] \in Seq(PathPart) /\ g[1].q.above \o from[1] = whole
  <2>1. \A m \in Nat : m \in K => m + 1 \in K
    BY <1>8
  <2>2. Nat \subseteq K
    <3> HIDE DEF K
    <3> QED BY <1>7, <2>1, CountingUp
  <2>3. n - 1 \in Nat /\ 1 \in 1..n /\ 1 + (n - 1) = n
    BY <1>1
  <2>4. n - 1 \in K
    BY <2>2, <2>3
  <2> QED BY <2>3, <2>4
<1>10. g[1].q.above = << >>
  BY DEF Follows
<1>11. << >> \o from[1] = from[1]
  BY <1>9, ConcatEmptySeq
<1> QED BY <1>5, <1>9, <1>10, <1>11 DEF Top

----------------------------------------------------------------------------
(* Every kind of step keeps the questions.                                 *)

LEMMA GhostType ==
  ASSUME NEW g \in Seq(Ghost), NEW i \in 1..Len(g)
  PROVE  g[i] \in Ghost /\ g[i].q \in Question /\ g[i].before \in Seq(Message)
PROOF
<1>1. g[i] \in Ghost
  OBVIOUS
<1> QED BY <1>1 DEF Ghost

\* The innermost call becomes f and has found what f has to find by then.
LEMMA TopGoesOn ==
  ASSUME NEW fs, NEW n \in Nat \ {0}, Len(fs) = n, fs # << >>,
         NEW g \in Seq(Ghost), NEW es, NEW q0, Follows(g, fs, es, q0),
         NEW fs2, Len(fs2) = n, fs2 # << >>, \A k \in 1..(n - 1) : fs2[k] = fs[k],
         Asks(fs2[n], g[n].q), NEW es2, es2 = g[n].before \o Found(fs2[n], g[n].q)
  PROVE  Follows(g, fs2, es2, q0)
PROOF
<1>1. Len(g) = n /\ g[1] = [q |-> q0, before |-> << >>]
  BY DEF Follows
<1>2. ASSUME NEW i \in 1..n PROVE Asks(fs2[i], g[i].q)
  <2>1. CASE i = n
    BY <2>1
  <2>2. CASE i # n
    <3>1. i \in 1..(n - 1)
      BY <2>2
    <3> QED BY <3>1 DEF Follows
  <2> QED BY <2>1, <2>2
<1>3. ASSUME NEW i \in 1..(n - 1)
      PROVE  /\ Waits(fs2[i], g[i].q, g[i + 1].q)
             /\ g[i + 1].before = g[i].before \o FirstErrors(g[i].q, Behind(fs2[i]))
  BY DEF Follows
<1> QED BY <1>1, <1>2, <1>3 DEF Follows

\* The innermost call f waits for the call h, which answers p.
LEMMA TopCalls ==
  ASSUME NEW fs, NEW n \in Nat \ {0}, Len(fs) = n, fs # << >>,
         NEW g \in Seq(Ghost), NEW es, NEW q0, Follows(g, fs, es, q0),
         NEW fs2, Len(fs2) = n + 1, fs2 # << >>, \A k \in 1..(n - 1) : fs2[k] = fs[k],
         Asks(fs2[n], g[n].q), NEW p, Waits(fs2[n], g[n].q, p),
         Asks(fs2[n + 1], p), fs2[n + 1].stage = "enter",
         es = g[n].before \o FirstErrors(g[n].q, Behind(fs2[n]))
  PROVE  \E g2 \in Seq(Ghost) : Follows(g2, fs2, es, q0)
PROOF
<1>0. Len(g) = Len(fs) /\ g[1] = [q |-> q0, before |-> << >>]
  BY DEF Follows
<1>1. Len(g) = n /\ g[1] = [q |-> q0, before |-> << >>] /\ n \in 1..Len(g)
  BY <1>0
<1>2. g[n].q \in Question /\ g[n].before \in Seq(Message)
  BY <1>1, GhostType
<1>3. p \in Question /\ Behind(fs2[n]) \in 0..(Len(PartErrors(Violations, g[n].q)) - 1)
  BY <1>2, AnswerWaitedFor
<1>4. es \in Seq(Message)
  <2>1. Walks(g[n].q)
    BY DEF Asks, Waits
  <2>2. /\ Len(PartErrors(Violations, g[n].q)) \in Nat
        /\ \A k \in 0..Len(PartErrors(Violations, g[n].q)) : FirstErrors(g[n].q, k) \in Seq(Message)
    BY <1>2, <2>1, FirstErrorsGrow
  <2>3. Behind(fs2[n]) \in 0..Len(PartErrors(Violations, g[n].q))
    BY <1>3, <2>2
  <2>4. FirstErrors(g[n].q, Behind(fs2[n])) \in Seq(Message)
    BY <2>2, <2>3
  <2> QED BY <1>2, <2>4
<1> DEFINE x == [q |-> p, before |-> es]
           g2 == Append(g, x)
<1>5. x \in Ghost
  BY <1>3, <1>4 DEF Ghost
<1>6. x.q = p /\ x.before = es
  OBVIOUS
<1> HIDE DEF x
<1>7. /\ g2 \in Seq(Ghost) /\ Len(g2) = n + 1 /\ g2[n + 1] = x
      /\ \A k \in 1..n : g2[k] = g[k]
  BY <1>1, <1>5
<1> HIDE DEF g2
<1>8. g2[1] = [q |-> q0, before |-> << >>]
  BY <1>1, <1>7
<1>9. ASSUME NEW i \in 1..(n + 1) PROVE Asks(fs2[i], g2[i].q)
  <2>1. CASE i = n + 1
    BY <1>6, <1>7, <2>1
  <2>2. CASE i = n
    <3>1. i \in 1..n
      BY <2>2
    <3> QED BY <1>7, <2>2, <3>1
  <2>3. CASE i # n /\ i # n + 1
    <3>1. i \in 1..(n - 1) /\ i \in 1..n
      BY <2>3
    <3> QED BY <1>7, <3>1 DEF Follows
  <2> QED BY <2>1, <2>2, <2>3
<1>10. ASSUME NEW i \in 1..n
       PROVE  /\ Waits(fs2[i], g2[i].q, g2[i + 1].q)
              /\ g2[i + 1].before = g2[i].before \o FirstErrors(g2[i].q, Behind(fs2[i]))
  <2>1. CASE i = n
    BY <1>6, <1>7, <2>1
  <2>2. CASE i # n
    <3>1. i \in 1..(n - 1) /\ i + 1 \in 1..n
      BY <2>2
    <3> QED BY <1>7, <3>1 DEF Follows
  <2> QED BY <2>1, <2>2
<1>11. es = es \o Found(fs2[n + 1], p)
  <2>1. Found(fs2[n + 1], p) = << >>
    BY DEF Found
  <2> QED BY <1>4, <2>1, ConcatEmptySeq
<1>12. Follows(g2, fs2, es, q0)
  <2>1. (n + 1) - 1 = n
    OBVIOUS
  <2> QED BY <1>6, <1>7, <1>8, <1>9, <1>10, <1>11, <2>1 DEF Follows
<1> QED BY <1>7, <1>12

\* The innermost call returns to its caller, which has come one part further.
LEMMA TopReturns ==
  ASSUME NEW fs, NEW n \in Nat \ {0}, Len(fs) = n + 1, fs # << >>, fs[n + 1].stage = "leave",
         NEW g \in Seq(Ghost), NEW es, NEW q0, Follows(g, fs, es, q0),
         NEW fs2, Len(fs2) = n, fs2 # << >>, \A k \in 1..(n - 1) : fs2[k] = fs[k],
         Asks(fs2[n], g[n].q),
         Found(fs2[n], g[n].q) = FirstErrors(g[n].q, Behind(fs[n]) + 1)
  PROVE  \E g2 \in Seq(Ghost) : Follows(g2, fs2, es, q0)
PROOF
<1>1. Len(g) = n + 1 /\ g[1] = [q |-> q0, before |-> << >>]
  BY DEF Follows
<1>2. n \in 1..(n + 1) /\ n + 1 \in 1..(n + 1) /\ n \in 1..((n + 1) - 1)
  OBVIOUS
<1>3. /\ g[n].q \in Question /\ g[n].before \in Seq(Message)
      /\ g[n + 1].q \in Question /\ g[n + 1].before \in Seq(Message)
  BY <1>1, <1>2, GhostType
<1>4. /\ Asks(fs[n], g[n].q) /\ Waits(fs[n], g[n].q, g[n + 1].q)
      /\ g[n + 1].before = g[n].before \o FirstErrors(g[n].q, Behind(fs[n]))
  BY <1>2 DEF Follows
<1> DEFINE q == g[n].q
           p == g[n + 1].q
           k == Behind(fs[n])
           m == Len(PartErrors(Violations, q))
<1>5. k \in 0..(m - 1) /\ PartErrors(Violations, q)[k + 1] = Violations[p]
  BY <1>3, <1>4, AnswerWaitedFor
<1>6. Walks(q)
  BY <1>4 DEF Asks, Waits
<1>7. /\ m \in Nat /\ \A j \in 0..m : FirstErrors(q, j) \in Seq(Message)
      /\ \A j \in 0..(m - 1) : FirstErrors(q, j + 1) = FirstErrors(q, j) \o PartErrors(Violations, q)[j + 1]
  BY <1>3, <1>6, FirstErrorsGrow
<1>8. es = g[n + 1].before \o Violations[p]
  <2>1. Found(fs[n + 1], p) = Violations[p]
    BY DEF Found
  <2> QED BY <2>1 DEF Follows
<1>9. es = g[n].before \o FirstErrors(q, k + 1)
  <2>1. Violations[p] \in Seq(Message) /\ FirstErrors(q, k) \in Seq(Message)
    <3>1. k \in 0..m
      BY <1>5, <1>7
    <3> QED BY <1>3, <1>7, <3>1, ViolationsType
  <2>2. (g[n].before \o FirstErrors(q, k)) \o Violations[p] = g[n].before \o (FirstErrors(q, k) \o Violations[p])
    <3>1. g[n].before \in Seq(Message)
      BY <1>3
    <3> HIDE DEF q, p, k
    <3> QED BY <2>1, <3>1, JoinedErrors
  <2>3. FirstErrors(q, k + 1) = FirstErrors(q, k) \o Violations[p]
    BY <1>5, <1>7
  <2> QED BY <1>4, <1>8, <2>2, <2>3
<1> DEFINE g2 == SubSeq(g, 1, n)
<1>10. g2 \in Seq(Ghost) /\ Len(g2) = n /\ \A i \in 1..n : g2[i] = g[i]
  BY <1>1
<1> HIDE DEF g2
<1>11. g2[1] = [q |-> q0, before |-> << >>] /\ g2[n] = g[n]
  BY <1>1, <1>10
<1>12. ASSUME NEW i \in 1..n PROVE Asks(fs2[i], g2[i].q)
  <2>1. CASE i = n
    BY <1>11, <2>1
  <2>2. CASE i # n
    <3>1. i \in 1..(n - 1) /\ i \in 1..n /\ i \in 1..(n + 1)
      BY <2>2
    <3> QED BY <1>10, <3>1 DEF Follows
  <2> QED BY <2>1, <2>2
<1>13. ASSUME NEW i \in 1..(n - 1)
       PROVE  /\ Waits(fs2[i], g2[i].q, g2[i + 1].q)
              /\ g2[i + 1].before = g2[i].before \o FirstErrors(g2[i].q, Behind(fs2[i]))
  <2>1. i \in 1..n /\ i + 1 \in 1..n /\ i \in 1..((n + 1) - 1)
    OBVIOUS
  <2> QED BY <1>10, <2>1 DEF Follows
<1>14. es = g2[n].before \o Found(fs2[n], g2[n].q)
  BY <1>9, <1>11
<1>15. Follows(g2, fs2, es, q0)
  BY <1>10, <1>11, <1>12, <1>13, <1>14 DEF Follows
<1> QED BY <1>10, <1>15

----------------------------------------------------------------------------
(* Every step is of such a kind.                                           *)

\* The innermost call is the n-th, and is to answer q.
Innermost(g, n, q) ==
  /\ n = Len(frames) /\ frames # << >> /\ reply = None
  /\ Len(g) = n /\ Follows(g, frames, errors, TheQuestion)
  /\ q = g[n].q /\ g[n].before \in Seq(Message)
  /\ Asks(Top, q) /\ errors = g[n].before \o Found(Top, q)

LEMMA InnermostCall ==
  ASSUME TypeOK, ErrorsInv, frames # << >>
  PROVE  \E g \in Seq(Ghost), n \in Nat \ {0}, q \in Question : Innermost(g, n, q)
PROOF
<1>1. PICK g \in Seq(Ghost) : Follows(g, frames, errors, TheQuestion)
  BY DEF ErrorsInv
<1>2. Len(frames) \in Nat /\ Len(frames) # 0
  BY DEF TypeOK
<1>3. PICK n \in Nat \ {0} : n = Len(frames)
  BY <1>2
<1>8. Len(g) = Len(frames)
  BY <1>1 DEF Follows
<1>9. reply = None
  BY DEF ErrorsInv
<1>4. Len(g) = n /\ n \in 1..n /\ reply = None
  BY <1>8, <1>9, <1>3
<1>5. g[n].q \in Question /\ g[n].before \in Seq(Message)
  BY <1>4, GhostType
<1>6. Asks(Top, g[n].q) /\ errors = g[n].before \o Found(Top, g[n].q)
  <2>1. n \in 1..Len(frames)
    BY <1>3, <1>4
  <2>2. Asks(frames[n], g[n].q)
    BY <1>1, <2>1 DEF Follows
  <2>3. errors = g[n].before \o Found(frames[n], g[n].q)
    BY <1>1, <1>3 DEF Follows
  <2> QED BY <1>3, <2>2, <2>3 DEF Top
<1>7. Innermost(g, n, g[n].q)
  BY <1>1, <1>3, <1>4, <1>5, <1>6 DEF Innermost
<1> QED BY <1>5, <1>7

LEMMA FoundType ==
  ASSUME NEW q \in Question, NEW f, Asks(f, q), f.stage \in {"enter", "loop", "leave"}
  PROVE  Found(f, q) \in Seq(Message)
PROOF
<1>1. CASE f.stage = "enter"
  BY <1>1 DEF Found
<1>2. CASE f.stage = "leave"
  BY <1>2, ViolationsType DEF Found
<1>3. CASE f.stage = "loop"
  <2> DEFINE k == IF Shape(f) = "object" THEN f.pos ELSE f.index
             m == Len(PartErrors(Violations, q))
  <2>1. Walks(q) /\ f.json = Document(q)
    BY <1>3 DEF Asks
  <2>2. Shape(f) = Shape(View(q))
    BY <2>1, SeesTheSame
  <2>3. /\ Shape(View(q)) = "object" => m = Len(q.ve.children)
        /\ Shape(View(q)) # "object" => m = Len(Items(View(q)))
    BY <2>1, PartsCounted
  <2>4. k \in 0..m
    BY <1>3, <2>2, <2>3 DEF Asks
  <2>5. Found(f, q) = FirstErrors(q, k)
    BY <1>3 DEF Found
  <2> HIDE DEF k
  <2>6. \A j \in 0..m : FirstErrors(q, j) \in Seq(Message)
    BY <2>1, FirstErrorsGrow
  <2> QED BY <2>4, <2>5, <2>6
<1> QED BY <1>1, <1>2, <1>3

LEMMA ErrorsType ==
  ASSUME TypeOK, frames # << >>, NEW g \in Seq(Ghost), NEW n \in Nat \ {0}, NEW q \in Question,
         Innermost(g, n, q)
  PROVE  errors \in Seq(Message)
PROOF
<1>1. Found(Top, q) \in Seq(Message) /\ g[n].before \in Seq(Message)
  BY FoundType, TopType DEF Innermost
<1>2. errors = g[n].before \o Found(Top, q)
  BY DEF Innermost
<1> QED BY <1>1, <1>2

LEMMA FlattenNothing == FlattenSeq(<< >>) = << >>
PROOF
<1>1. << >> \in Seq(Seq(Message)) /\ Len(<< >>) = 0
  OBVIOUS
<1>2. /\ FlattenSeq(SubSeq(<< >>, 1, 0)) = << >>
      /\ FlattenSeq(SubSeq(<< >>, 1, Len(<< >>))) = FlattenSeq(<< >>)
  BY <1>1, FlattenParts
<1> QED BY <1>1, <1>2

\* A message has the path of the call's question.
LEMMA Reported ==
  ASSUME TypeOK, ChainIsCallStack, NEW g \in Seq(Ghost), NEW n \in Nat \ {0}, NEW q \in Question,
         Innermost(g, n, q), Top.index = -1, NEW keyword, NEW key, Report(keyword, key)
  PROVE  errors' = errors \o Wrong(q, keyword, key)
PROOF
<1>1. frames # << >> /\ Follows(g, frames, errors, TheQuestion) /\ TheQuestion.above = << >>
  BY DEF Innermost, TheQuestion
<1>2. Path = g[Len(frames)].q.above \o Part(Top)
  BY <1>1, PathOfQuestion
<1>3. Part(Top) = Part(View(q))
  <2>1. Top.key = View(q).key /\ View(q).index = -1
    BY ViewOf DEF Innermost, Asks
  <2> QED BY <2>1 DEF Part
<1>4. Path = q.above \o Part(View(q))
  BY <1>2, <1>3 DEF Innermost
<1>5. errors' = Append(errors, [keyword |-> keyword, path |-> q.above \o Part(View(q)), key |-> key])
  BY <1>4 DEF Report
<1>6. errors \in Seq(Message)
  BY <1>1, ErrorsType
<1> DEFINE m == [keyword |-> keyword, path |-> q.above \o Part(View(q)), key |-> key]
<1>7. Wrong(q, keyword, key) = <<m>> /\ errors' = Append(errors, m)
  BY <1>5 DEF Wrong
<1> HIDE DEF m
<1>8. Append(errors, m) = errors \o <<m>>
  BY <1>6
<1> QED BY <1>7, <1>8

\* The innermost call becomes f.
LEMMA GoesOn ==
  ASSUME TypeOK, NEW g \in Seq(Ghost), NEW n \in Nat \ {0}, NEW q \in Question,
         Innermost(g, n, q), NEW f \in Frame, SetTop(f), Asks(f, q),
         errors' = g[n].before \o Found(f, q), UNCHANGED <<root, input, reply>>
  PROVE  ErrorsInv'
PROOF
<1>1. /\ frames \in Seq(Frame) /\ frames # << >> /\ Len(frames) = n
      /\ frames' = [frames EXCEPT ![n] = f]
  BY DEF TypeOK, SetTop, Innermost
<1>2. n \in DOMAIN frames
  BY <1>1
<1>3. /\ frames' \in Seq(Frame) /\ Len(frames') = n /\ frames'[n] = f
      /\ \A k \in 1..(n - 1) : frames'[k] = frames[k]
  <2>1. /\ frames' \in Seq(Frame) /\ Len(frames') = Len(frames) /\ frames'[n] = f
        /\ \A k \in DOMAIN frames : k # n => frames'[k] = frames[k]
    BY <1>1, <1>2, ChangeOne
  <2>2. \A k \in 1..(n - 1) : k \in DOMAIN frames /\ k # n
    BY <1>1
  <2> QED BY <1>1, <2>1, <2>2
<1>4. frames' # << >>
  BY <1>3
<1>5. TheQuestion' = TheQuestion
  BY DEF TheQuestion
<1>6. Follows(g, frames, errors, TheQuestion) /\ q = g[n].q
  BY DEF Innermost
<1>9. Asks(frames'[n], g[n].q) /\ errors' = g[n].before \o Found(frames'[n], g[n].q)
  BY <1>3, <1>6
<1>7. Follows(g, frames', errors', TheQuestion)
  <2>1. \A fs2, es2 :
          /\ Len(fs2) = n /\ fs2 # << >> /\ \A k \in 1..(n - 1) : fs2[k] = frames[k]
          /\ Asks(fs2[n], g[n].q) /\ es2 = g[n].before \o Found(fs2[n], g[n].q)
          => Follows(g, fs2, es2, TheQuestion)
    BY <1>1, <1>6, TopGoesOn
  <2> QED BY <1>3, <1>4, <1>9, <2>1
<1>8. reply' = None
  BY DEF Innermost
<1> QED BY <1>5, <1>7, <1>8 DEF ErrorsInv

\* It has found all there is to find.
LEMMA Ends ==
  ASSUME TypeOK, NEW g \in Seq(Ghost), NEW n \in Nat \ {0}, NEW q \in Question,
         Innermost(g, n, q), Top.json = Document(q), NEW item \in Nat,
         SetTop([Top EXCEPT !.stage = "leave", !.item = item]),
         errors' = g[n].before \o Violations[q], UNCHANGED <<root, input, reply>>
  PROVE  ErrorsInv'
PROOF
<1> DEFINE f == [Top EXCEPT !.stage = "leave", !.item = item]
<1>1. Top \in Frame /\ Asks(Top, q)
  BY TopType DEF Innermost
<1>2. f \in Frame
  BY <1>1 DEF Frame, FrameRecord
<1>3. /\ f.stage = "leave" /\ f.ve = Top.ve /\ f.flag = Top.flag /\ f.key = Top.key
      /\ f.tcl = Top.tcl /\ f.json = Top.json
  BY <1>1 DEF Frame, FrameRecord
<1>4. SetTop(f)
  OBVIOUS
<1> HIDE DEF f
<1>5. Asks(f, q)
  BY <1>1, <1>3 DEF Asks
<1>6. Found(f, q) = Violations[q]
  BY <1>3 DEF Found
<1> QED BY <1>2, <1>4, <1>5, <1>6, GoesOn

\* A call that ends where it began.
LEMMA EndsAtOnce ==
  ASSUME TypeOK, NEW g \in Seq(Ghost), NEW n \in Nat \ {0}, NEW q \in Question,
         Innermost(g, n, q), Top.stage = "enter", Top.json = Document(q), Leaving,
         errors' = errors \o Violations[q], UNCHANGED <<root, input, reply>>
  PROVE  ErrorsInv'
PROOF
<1>1. Top \in Frame /\ Top.item \in Nat
  BY TopType DEF Innermost
<1>2. [Top EXCEPT !.stage = "leave"] = [Top EXCEPT !.stage = "leave", !.item = Top.item]
  BY <1>1 DEF Frame, FrameRecord
<1>3. errors = g[n].before
  <2>1. Found(Top, q) = << >>
    BY DEF Found
  <2>2. g[n].before \o << >> = g[n].before
    BY ConcatEmptySeq DEF Innermost
  <2> QED BY <2>1, <2>2 DEF Innermost
<1> QED BY <1>1, <1>2, <1>3, Ends DEF Leaving

\* A call that checks its value has the document before it.
LEMMA Looked ==
  ASSUME NEW q \in Question, Asks(Top, q), Checks
  PROVE  /\ Top.json = Document(q) /\ ~Unparsed(q) /\ Top.index = -1 /\ Top.stage = "enter"
         /\ IsNull <=> Absent(View(q))
PROOF
<1>1. Top.stage = "enter" /\ ~(q.ve.type = "json" /\ Top.json = None)
  BY DEF Checks, At, Asks
<1>2. Top.json \in {q.json, Document(q)} /\ Top.index = -1
  BY <1>1 DEF Asks
<1>3. Top.json = Document(q)
  BY <1>1, <1>2 DEF Document
<1>4. ~Unparsed(q)
  BY <1>1, <1>3 DEF Unparsed
<1>5. IsNull <=> Absent(Top)
  BY DEF IsNull, Absent
<1> QED BY <1>1, <1>2, <1>3, <1>4, <1>5, SeesTheSame

LEMMA ParseJsonErrors ==
  ASSUME TypeOK, ChainIsCallStack, ErrorsInv, ParseJson
  PROVE  ErrorsInv'
PROOF
<1>1. /\ frames # << >> /\ Top.stage = "enter" /\ Top.ve.type = "json" /\ Top.json = None
      /\ UNCHANGED <<root, input, reply>>
  BY DEF ParseJson, At
<1>2. PICK g \in Seq(Ghost), n \in Nat \ {0}, q \in Question : Innermost(g, n, q)
  BY <1>1, InnermostCall
<1>3. Asks(Top, q) /\ Top.index = -1
  BY <1>1, <1>2 DEF Innermost, Asks
<1>4. q.ve.type = "json" /\ q.json = None /\ Document(q) = Top.tcl.json
  BY <1>1, <1>3 DEF Asks, Document
<1>5. Found(Top, q) = << >>
  BY <1>1 DEF Found
<1>6. CASE Top.tcl.json = None /\ Report("type", None) /\ Leaving
  <2>1. Violations[q] = Wrong(q, "type", None)
    BY <1>4, <1>6, ViolationsDefined DEF ErrorsOf, Unparsed
  <2>2. errors' = errors \o Violations[q]
    BY <1>2, <1>3, <1>6, <2>1, Reported
  <2> QED BY <1>1, <1>2, <1>4, <1>6, <2>2, EndsAtOnce
<1>7. CASE Top.tcl.json # None /\ SetTop([Top EXCEPT !.json = Top.tcl.json]) /\ errors' = errors
  <2> DEFINE f == [Top EXCEPT !.json = Top.tcl.json]
  <2>1. Top \in Frame /\ Top.tcl \in TclValue
    BY <1>1, TopType
  <2>2. Top.tcl.json \in Json
    BY <1>7, <2>1, ValidateAssumption
  <2>3. /\ f \in Frame /\ f.stage = "enter" /\ f.ve = Top.ve /\ f.flag = Top.flag
        /\ f.key = Top.key /\ f.tcl = Top.tcl /\ f.json = Document(q)
        /\ f.index = Top.index /\ f.pos = Top.pos
    BY <1>1, <1>4, <2>1, <2>2 DEF Frame, FrameRecord
  <2>4. SetTop(f)
    BY <1>7
  <2> HIDE DEF f
  <2>5. Asks(f, q)
    BY <1>1, <1>3, <2>3 DEF Asks
  <2>6. Found(f, q) = << >>
    BY <2>3 DEF Found
  <2>7. errors' = g[n].before \o Found(f, q)
    BY <1>2, <1>5, <1>7, <2>6 DEF Innermost
  <2> QED BY <1>1, <1>2, <2>3, <2>4, <2>5, <2>7, GoesOn
<1> QED BY <1>6, <1>7 DEF ParseJson

LEMMA AcceptErrors ==
  ASSUME TypeOK, ErrorsInv, Accept
  PROVE  ErrorsInv'
PROOF
<1>1. /\ frames # << >> /\ Checks /\ (Shape(Top) \in {"none", "skip"} \/ IsNull) /\ Leaving
      /\ errors' = errors /\ UNCHANGED <<root, input, reply>>
  BY DEF Accept, Checks, At
<1>2. PICK g \in Seq(Ghost), n \in Nat \ {0}, q \in Question : Innermost(g, n, q)
  BY <1>1, InnermostCall
<1>3. Asks(Top, q)
  BY <1>2 DEF Innermost
<1>4. Top.json = Document(q) /\ ~Unparsed(q) /\ Top.stage = "enter" /\ (IsNull <=> Absent(View(q)))
  BY <1>1, <1>3, Looked
<1>5. Ignored(q)
  BY <1>1, <1>3, <1>4, SeesTheSame DEF Ignored
<1>6. Violations[q] = << >>
  BY <1>4, <1>5, ViolationsDefined DEF ErrorsOf
<1>7. errors \in Seq(Message)
  BY <1>1, <1>2, ErrorsType
<1>8. errors' = errors \o Violations[q]
  BY <1>1, <1>6, <1>7, ConcatEmptySeq
<1> QED BY <1>1, <1>2, <1>4, <1>8, EndsAtOnce

LEMMA ValidateScalarErrors ==
  ASSUME TypeOK, ChainIsCallStack, ErrorsInv, ValidateScalar
  PROVE  ErrorsInv'
PROOF
<1>1. /\ frames # << >> /\ Checks /\ ~IsNull /\ Shape(Top) \in Scalar /\ Leaving
      /\ \/ Fault(Top) = None /\ errors' = errors
         \/ Fault(Top) # None /\ Report(Fault(Top), None)
      /\ UNCHANGED <<root, input, reply>>
  BY DEF ValidateScalar, Checks, At
<1>2. PICK g \in Seq(Ghost), n \in Nat \ {0}, q \in Question : Innermost(g, n, q)
  BY <1>1, InnermostCall
<1>3. Asks(Top, q)
  BY <1>2 DEF Innermost
<1>4. /\ Top.json = Document(q) /\ ~Unparsed(q) /\ Top.stage = "enter" /\ Top.index = -1
      /\ ~Absent(View(q))
  BY <1>1, <1>3, Looked
<1>5. Shape(View(q)) \in Scalar /\ Fault(View(q)) = Fault(Top)
  BY <1>1, <1>3, <1>4, SeesTheSame
<1>6. ~Ignored(q)
  BY <1>4, <1>5 DEF Ignored, Scalar
<1>7. Violations[q] = IF Fault(Top) = None THEN << >> ELSE Wrong(q, Fault(Top), None)
  BY <1>4, <1>5, <1>6, ViolationsDefined DEF ErrorsOf
<1>8. errors' = errors \o Violations[q]
  <2>1. CASE Fault(Top) = None /\ errors' = errors
    <3>1. errors \in Seq(Message)
      BY <1>1, <1>2, ErrorsType
    <3> QED BY <1>7, <2>1, <3>1, ConcatEmptySeq
  <2>2. CASE Fault(Top) # None /\ Report(Fault(Top), None)
    BY <1>2, <1>4, <1>7, <2>2, Reported
  <2> QED BY <1>1, <2>1, <2>2
<1> QED BY <1>1, <1>2, <1>4, <1>8, EndsAtOnce

\* A value of the wrong form is reported, and nothing else of it.
LEMMA WrongForm ==
  ASSUME TypeOK, ChainIsCallStack, NEW g \in Seq(Ghost), NEW n \in Nat \ {0}, NEW q \in Question,
         Innermost(g, n, q), Checks, ~IsNull, Shape(Top) \in {"object", "array"}, ~RightForm(Top),
         Report("type", None), Leaving, UNCHANGED <<root, input, reply>>
  PROVE  ErrorsInv'
PROOF
<1>1. Asks(Top, q)
  BY DEF Innermost
<1>2. /\ Top.json = Document(q) /\ ~Unparsed(q) /\ Top.stage = "enter" /\ Top.index = -1
      /\ ~Absent(View(q))
  BY <1>1, Looked
<1>3. Shape(View(q)) = Shape(Top) /\ ~RightForm(View(q))
  BY <1>1, <1>2, SeesTheSame
<1>4. ~Ignored(q) /\ Shape(View(q)) \notin Scalar
  BY <1>2, <1>3 DEF Ignored, Scalar
<1>5. Violations[q] = Wrong(q, "type", None)
  BY <1>2, <1>3, <1>4, ViolationsDefined DEF ErrorsOf
<1>6. errors' = errors \o Violations[q]
  BY <1>2, <1>5, Reported
<1> QED BY <1>2, <1>6, EndsAtOnce

\* A call that begins to look at the parts of its value.
LEMMA BeginsToWalk ==
  ASSUME TypeOK, NEW g \in Seq(Ghost), NEW n \in Nat \ {0}, NEW q \in Question,
         Innermost(g, n, q), Checks, Walks(q), NEW f \in Frame, SetTop(f),
         f.stage = "loop", f.ve = Top.ve, f.flag = Top.flag, f.key = Top.key, f.tcl = Top.tcl,
         f.json = Top.json, f.pos = Top.pos, Shape(f) = Shape(Top),
         f.index = IF Shape(Top) = "object" THEN -1 ELSE 0,
         errors' = errors, UNCHANGED <<root, input, reply>>
  PROVE  ErrorsInv'
PROOF
<1>1. Asks(Top, q) /\ errors = g[n].before \o Found(Top, q)
  BY DEF Innermost
<1>2. Top.json = Document(q) /\ Top.stage = "enter"
  BY <1>1, Looked
<1>3. Top.pos = 0
  BY <1>1, <1>2 DEF Asks
<1>4. Len(q.ve.children) \in Nat /\ Len(Items(View(q))) \in Nat
  BY PartsCounted
<1>5. 0 \in 0..Len(q.ve.children) /\ 0 \in 0..Len(Items(View(q)))
  BY <1>4
<1>6. Asks(f, q)
  BY <1>1, <1>2, <1>3, <1>5 DEF Asks
<1>7. Found(f, q) = FirstErrors(q, 0)
  BY <1>3 DEF Found
<1>8. FirstErrors(q, 0) = << >> /\ Found(Top, q) = << >>
  BY <1>2, FirstErrorsGrow DEF Found
<1>9. errors' = g[n].before \o Found(f, q)
  BY <1>1, <1>7, <1>8
<1> QED BY <1>6, <1>9, GoesOn

LEMMA EnterObjectErrors ==
  ASSUME TypeOK, ChainIsCallStack, ErrorsInv, EnterObject
  PROVE  ErrorsInv'
PROOF
<1>1. /\ frames # << >> /\ Checks /\ ~IsNull /\ Shape(Top) = "object"
      /\ \/ RightForm(Top) /\ SetTop([Top EXCEPT !.stage = "loop"]) /\ errors' = errors
         \/ ~RightForm(Top) /\ Report("type", None) /\ Leaving
      /\ UNCHANGED <<root, input, reply>>
  BY DEF EnterObject, Checks, At, RightForm
<1>2. PICK g \in Seq(Ghost), n \in Nat \ {0}, q \in Question : Innermost(g, n, q)
  BY <1>1, InnermostCall
<1>3. Asks(Top, q)
  BY <1>2 DEF Innermost
<1>4. /\ Top.json = Document(q) /\ ~Unparsed(q) /\ Top.stage = "enter" /\ Top.index = -1
      /\ ~Absent(View(q))
  BY <1>1, <1>3, Looked
<1>5. CASE ~RightForm(Top) /\ Report("type", None) /\ Leaving
  BY <1>1, <1>2, <1>5, WrongForm
<1>6. CASE RightForm(Top) /\ SetTop([Top EXCEPT !.stage = "loop"]) /\ errors' = errors
  <2> DEFINE f == [Top EXCEPT !.stage = "loop"]
  <2>1. Top \in Frame
    BY <1>1, TopType
  <2>2. /\ f \in Frame /\ f.stage = "loop" /\ f.ve = Top.ve /\ f.flag = Top.flag
        /\ f.key = Top.key /\ f.tcl = Top.tcl /\ f.json = Top.json
        /\ f.index = Top.index /\ f.pos = Top.pos
    BY <2>1 DEF Frame, FrameRecord
  <2>3. SetTop(f)
    BY <1>6
  <2> HIDE DEF f
  <2>4. Shape(f) = Shape(Top)
    BY <2>2 DEF Shape
  <2>5. Walks(q)
    <3>1. Shape(View(q)) = "object" /\ RightForm(View(q))
      BY <1>1, <1>3, <1>4, <1>6, SeesTheSame
    <3> QED BY <1>4, <3>1 DEF Walks, Ignored
  <2>6. f.index = IF Shape(Top) = "object" THEN -1 ELSE 0
    BY <1>1, <1>4, <2>2
  <2> QED BY <1>1, <1>2, <1>6, <2>2, <2>3, <2>4, <2>5, <2>6, BeginsToWalk
<1> QED BY <1>1, <1>5, <1>6

LEMMA EnterArrayErrors ==
  ASSUME TypeOK, ChainIsCallStack, ErrorsInv, EnterArray
  PROVE  ErrorsInv'
PROOF
<1> DEFINE item == IF Top.out # 0 /\ Top.ve.outkey # None THEN Len(outcomes) + 1 ELSE 0
           f == [Top EXCEPT !.stage = "loop", !.index = 0, !.item = item]
<1>1. /\ frames # << >> /\ Checks /\ ~IsNull /\ Shape(Top) = "array"
      /\ \/ ~RightForm(Top) /\ Report("type", None) /\ Leaving
         \/ RightForm(Top) /\ Top.ve.children = << >> /\ Leaving /\ errors' = errors
         \/ RightForm(Top) /\ Top.ve.children # << >> /\ SetTop(f) /\ errors' = errors
      /\ UNCHANGED <<root, input, reply>>
  BY DEF EnterArray, Checks, At, RightForm
<1>10. item \in Nat
  <2>1. Len(outcomes) \in Nat
    BY DEF TypeOK
  <2> QED BY <2>1
<1> HIDE DEF item
<1>2. PICK g \in Seq(Ghost), n \in Nat \ {0}, q \in Question : Innermost(g, n, q)
  BY <1>1, InnermostCall
<1>3. Asks(Top, q) /\ q.ve = Top.ve
  BY <1>2 DEF Innermost, Asks
<1>4. /\ Top.json = Document(q) /\ ~Unparsed(q) /\ Top.stage = "enter" /\ ~Absent(View(q))
  BY <1>1, <1>3, Looked
<1>5. Shape(View(q)) = "array" /\ (RightForm(View(q)) <=> RightForm(Top))
  BY <1>1, <1>3, <1>4, SeesTheSame
<1>6. ~Ignored(q)
  BY <1>4, <1>5 DEF Ignored
<1>7. CASE ~RightForm(Top) /\ Report("type", None) /\ Leaving
  BY <1>1, <1>2, <1>7, WrongForm
<1>8. CASE RightForm(Top) /\ Top.ve.children = << >> /\ Leaving /\ errors' = errors
  <2>1. PartErrors(Violations, q) = << >>
    BY <1>3, <1>5, <1>8 DEF PartErrors
  <2>2. FlattenSeq(<< >>) = << >>
    BY FlattenNothing
  <2>3. Violations[q] = << >>
    BY <1>4, <1>5, <1>6, <1>8, <2>1, <2>2, ViolationsDefined DEF ErrorsOf, Scalar
  <2>4. errors \in Seq(Message)
    BY <1>1, <1>2, ErrorsType
  <2>5. errors' = errors \o Violations[q]
    BY <1>8, <2>3, <2>4, ConcatEmptySeq
  <2> QED BY <1>1, <1>2, <1>4, <1>8, <2>5, EndsAtOnce
<1>9. CASE RightForm(Top) /\ Top.ve.children # << >> /\ SetTop(f) /\ errors' = errors
  <2>1. Top \in Frame
    BY <1>1, TopType
  <2>2. /\ f \in Frame /\ f.stage = "loop" /\ f.ve = Top.ve /\ f.flag = Top.flag
        /\ f.key = Top.key /\ f.tcl = Top.tcl /\ f.json = Top.json
        /\ f.index = 0 /\ f.pos = Top.pos
    BY <1>10, <2>1 DEF Frame, FrameRecord
  <2> HIDE DEF f
  <2>4. Shape(f) = Shape(Top)
    BY <2>2 DEF Shape
  <2>5. Walks(q)
    BY <1>3, <1>4, <1>5, <1>6, <1>9 DEF Walks
  <2>6. f.index = IF Shape(Top) = "object" THEN -1 ELSE 0
    BY <1>1, <2>2
  <2> QED BY <1>1, <1>2, <1>9, <2>2, <2>4, <2>5, <2>6, BeginsToWalk
<1> QED BY <1>1, <1>7, <1>8, <1>9

\* A call that has looked at all parts of its value.
LEMMA EndsWalk ==
  ASSUME TypeOK, NEW g \in Seq(Ghost), NEW n \in Nat \ {0}, NEW q \in Question,
         Innermost(g, n, q), Top.stage = "loop",
         Shape(Top) = "object" => Top.pos = Len(Top.ve.children),
         Shape(Top) # "object" => Top.index = Len(Items(Top)),
         NEW item \in Nat, SetTop([Top EXCEPT !.stage = "leave", !.item = item]),
         errors' = errors, UNCHANGED <<root, input, reply>>
  PROVE  ErrorsInv'
PROOF
<1>1. Asks(Top, q) /\ errors = g[n].before \o Found(Top, q)
  BY DEF Innermost
<1>2. Walks(q) /\ Top.json = Document(q) /\ Top.ve = q.ve
  BY <1>1 DEF Asks
<1>3. Shape(Top) = Shape(View(q)) /\ Items(Top) = Items(View(q))
  BY <1>1, <1>2, SeesTheSame
<1> DEFINE m == Len(PartErrors(Violations, q))
<1>4. m = IF Shape(Top) = "object" THEN Top.pos ELSE Top.index
  BY <1>2, <1>3, PartsCounted
<1>5. Found(Top, q) = FirstErrors(q, m)
  BY <1>4 DEF Found
<1>6. FirstErrors(q, m) = Violations[q]
  BY <1>2, FirstErrorsGrow
<1>7. errors' = g[n].before \o Violations[q]
  BY <1>1, <1>5, <1>6
<1> QED BY <1>2, <1>7, Ends

LEMMA LeaveObjectErrors ==
  ASSUME TypeOK, ErrorsInv, LeaveObject
  PROVE  ErrorsInv'
PROOF
<1>1. /\ frames # << >> /\ Top.stage = "loop" /\ Shape(Top) = "object"
      /\ Top.pos = Len(Top.ve.children) /\ Leaving
      /\ errors' = errors /\ UNCHANGED <<root, input, reply>>
  BY DEF LeaveObject, At
<1>2. PICK g \in Seq(Ghost), n \in Nat \ {0}, q \in Question : Innermost(g, n, q)
  BY <1>1, InnermostCall
<1>3. Top \in Frame /\ Top.item \in Nat
  BY <1>1, TopType
<1>4. [Top EXCEPT !.stage = "leave"] = [Top EXCEPT !.stage = "leave", !.item = Top.item]
  BY <1>3 DEF Frame, FrameRecord
<1> QED BY <1>1, <1>2, <1>3, <1>4, EndsWalk DEF Leaving

LEMMA LeaveArrayErrors ==
  ASSUME TypeOK, ErrorsInv, LeaveArray
  PROVE  ErrorsInv'
PROOF
<1>1. /\ frames # << >> /\ Top.stage = "loop" /\ Shape(Top) = "array"
      /\ Top.index = Len(Items(Top)) /\ SetTop([Top EXCEPT !.stage = "leave", !.item = 0])
      /\ errors' = errors /\ UNCHANGED <<root, input, reply>>
  BY DEF LeaveArray, At
<1>2. PICK g \in Seq(Ghost), n \in Nat \ {0}, q \in Question : Innermost(g, n, q)
  BY <1>1, InnermostCall
<1> QED BY <1>1, <1>2, EndsWalk

\* The next property is looked at without a call.
LEMMA PassesProperty ==
  ASSUME TypeOK, NEW g \in Seq(Ghost), NEW n \in Nat \ {0}, NEW q \in Question,
         Innermost(g, n, q), Top.stage = "loop", Shape(Top) = "object",
         Top.pos < Len(Top.ve.children), SetTop([Top EXCEPT !.pos = @ + 1]),
         errors' = errors \o PartErrors(Violations, q)[Top.pos + 1],
         UNCHANGED <<root, input, reply>>
  PROVE  ErrorsInv'
PROOF
<1>1. Asks(Top, q) /\ errors = g[n].before \o Found(Top, q) /\ g[n].before \in Seq(Message)
  BY DEF Innermost
<1>2. /\ Walks(q) /\ Top.json = Document(q) /\ Top.ve = q.ve
      /\ Top.pos \in 0..Len(q.ve.children) /\ Top.index = -1
  BY <1>1 DEF Asks
<1>3. Shape(View(q)) = "object"
  BY <1>1, <1>2, SeesTheSame
<1> DEFINE s == PartErrors(Violations, q)
<1>4. s \in Seq(Seq(Message)) /\ Len(s) = Len(q.ve.children) /\ Len(s) \in Nat
  BY <1>2, <1>3, PartsCounted
<1>5. Top.pos \in 0..Len(s) /\ Top.pos \in 0..(Len(s) - 1) /\ Top.pos + 1 \in 0..Len(s)
      /\ Top.pos + 1 \in 1..Len(s) /\ Top.pos + 1 \in Nat
  <2>1. Top.pos \in 0..Len(s) /\ Top.pos < Len(s)
    BY <1>2, <1>4
  <2>2. \A j, l : l \in Nat /\ j \in 0..l /\ j < l =>
                  j \in 0..(l - 1) /\ j + 1 \in 0..l /\ j + 1 \in 1..l /\ j + 1 \in Nat
    OBVIOUS
  <2> HIDE DEF s
  <2> QED BY <1>4, <2>1, <2>2
<1>6. Found(Top, q) = FirstErrors(q, Top.pos)
  BY DEF Found
<1>7. FirstErrors(q, Top.pos + 1) = FirstErrors(q, Top.pos) \o s[Top.pos + 1]
  BY <1>2, <1>5, FirstErrorsGrow
<1>8. FirstErrors(q, Top.pos) \in Seq(Message) /\ s[Top.pos + 1] \in Seq(Message)
  <2>1. FirstErrors(q, Top.pos) \in Seq(Message)
    BY <1>2, <1>5, FirstErrorsGrow
  <2>2. s[Top.pos + 1] \in Seq(Message)
    <3> HIDE DEF s
    <3> QED BY <1>4, <1>5, ElementOfSeq
  <2> QED BY <2>1, <2>2
<1>9. errors' = g[n].before \o FirstErrors(q, Top.pos + 1)
  <2> HIDE DEF s
  <2>1. (g[n].before \o FirstErrors(q, Top.pos)) \o s[Top.pos + 1]
          = g[n].before \o (FirstErrors(q, Top.pos) \o s[Top.pos + 1])
    BY <1>1, <1>8, JoinedErrors
  <2> QED BY <1>1, <1>6, <1>7, <2>1 DEF s
<1> DEFINE f == [Top EXCEPT !.pos = @ + 1]
<1>10. Top \in Frame
  BY TopType DEF Innermost
<1>11. /\ f \in Frame /\ f.stage = "loop" /\ f.ve = Top.ve /\ f.flag = Top.flag
       /\ f.key = Top.key /\ f.tcl = Top.tcl /\ f.json = Top.json
       /\ f.index = -1 /\ f.pos = Top.pos + 1
  BY <1>2, <1>5, <1>10 DEF Frame, FrameRecord
<1>12. SetTop(f)
  OBVIOUS
<1> HIDE DEF f
<1>13. Shape(f) = "object"
  BY <1>11 DEF Shape
<1>14. Asks(f, q)
  BY <1>1, <1>2, <1>4, <1>5, <1>11, <1>13 DEF Asks
<1>15. Found(f, q) = FirstErrors(q, Top.pos + 1)
  BY <1>11, <1>13 DEF Found
<1>16. errors' = g[n].before \o Found(f, q)
  BY <1>9, <1>15
<1> HIDE DEF s
<1> QED BY <1>11, <1>12, <1>14, <1>16, GoesOn

\* A new call is to answer the question it is called with.
LEMMA NewCallAsks ==
  ASSUME NEW q \in Question, NEW c, NEW role, NEW v, NEW index, NEW out, NEW json,
         json = Document(q), Ask(q, c, role, v, index) \in Question
  PROVE  LET h == IF json = None THEN NewFrame(c, role, v, None, out)
                  ELSE NewFrame(c, role, None, v, out)
         IN  Asks(h, Ask(q, c, role, v, index)) /\ h.stage = "enter"
PROOF
<1> DEFINE h == IF json = None THEN NewFrame(c, role, v, None, out)
                ELSE NewFrame(c, role, None, v, out)
           p == Ask(q, c, role, v, index)
<1>1. /\ p.ve = c /\ p.role = role
      /\ p.tcl = IF json = None THEN v ELSE None
      /\ p.json = IF json = None THEN None ELSE v
  BY ViewOf DEF Ask
<1>2. /\ h.ve = c /\ h.flag = Flag(c, role)
      /\ h.key = IF Flag(c, role) = "skip" THEN Skip ELSE Key(c, role)
      /\ h.tcl = IF json = None THEN v ELSE None
      /\ h.json = IF json = None THEN None ELSE v
      /\ h.index = -1 /\ h.pos = 0 /\ h.stage = "enter"
  BY DEF NewFrame
<1> HIDE DEF h, p
<1>3. View(p).key = IF Flag(c, role) = "skip" THEN Skip ELSE Key(c, role)
  BY <1>1, ViewOf DEF p
<1>4. Asks(h, p)
  BY <1>1, <1>2, <1>3 DEF Asks
<1> QED BY <1>2, <1>4 DEF h, p

\* The innermost call becomes f and calls for an answer to a part.
LEMMA CallsFor ==
  ASSUME TypeOK, NEW g \in Seq(Ghost), NEW n \in Nat \ {0}, NEW q \in Question,
         Innermost(g, n, q), NEW f \in Frame, f.json = Document(q), Asks(f, q),
         NEW c, NEW role, NEW v, NEW index, NEW out, Call(f, c, role, v, out),
         Ask(q, c, role, v, index) \in Question, Waits(f, q, Ask(q, c, role, v, index)),
         Found(Top, q) = FirstErrors(q, Behind(f)),
         errors' = errors, UNCHANGED <<root, input, reply>>
  PROVE  ErrorsInv'
PROOF
<1> DEFINE f1 == [f EXCEPT !.next = n + 1]
           h == IF f.json = None THEN NewFrame(c, role, v, None, out)
                ELSE NewFrame(c, role, None, v, out)
           p == Ask(q, c, role, v, index)
<1>1. /\ frames # << >> /\ Len(frames) = n /\ frames \in Seq(Frame)
      /\ Follows(g, frames, errors, TheQuestion) /\ q = g[n].q
      /\ errors = g[n].before \o Found(Top, q) /\ reply = None
  BY DEF Innermost, TypeOK
<1>2. frames' = Append([frames EXCEPT ![n] = f1], h)
  BY <1>1 DEF Call
<1>3. Asks(h, p) /\ h.stage = "enter"
  BY NewCallAsks
<1>4. /\ f1.ve = f.ve /\ f1.flag = f.flag /\ f1.key = f.key /\ f1.tcl = f.tcl
      /\ f1.json = f.json /\ f1.stage = f.stage /\ f1.pos = f.pos /\ f1.index = f.index
  BY DEF Frame, FrameRecord
<1> HIDE DEF f1, h, p
<1>5. Shape(f1) = Shape(f)
  BY <1>4 DEF Shape
<1>6. Asks(f1, q)
  BY <1>4, <1>5 DEF Asks
<1>7. Waits(f1, q, p)
  BY <1>4, <1>5 DEF Waits, p
<1>8. errors = g[n].before \o FirstErrors(q, Behind(f1))
  BY <1>1, <1>4, <1>5 DEF Behind
<1> DEFINE S == Frame \cup {f1, h}
<1>9. frames \in Seq(S) /\ f1 \in S /\ h \in S
  BY <1>1
<1> HIDE DEF S
<1>10. /\ Len(frames') = n + 1 /\ frames'[n] = f1 /\ frames'[n + 1] = h
       /\ \A k \in 1..(n - 1) : frames'[k] = frames[k]
       /\ frames' \in Seq(S)
  BY <1>1, <1>2, <1>9, PushOne
<1>11. frames' # << >>
  BY <1>10
<1>12. \E g2 \in Seq(Ghost) : Follows(g2, frames', errors, TheQuestion)
  <2>1. \A fs2, r :
          /\ Len(fs2) = n + 1 /\ fs2 # << >> /\ \A k \in 1..(n - 1) : fs2[k] = frames[k]
          /\ Asks(fs2[n], g[n].q) /\ Waits(fs2[n], g[n].q, r)
          /\ Asks(fs2[n + 1], r) /\ fs2[n + 1].stage = "enter"
          /\ errors = g[n].before \o FirstErrors(g[n].q, Behind(fs2[n]))
          => \E g2 \in Seq(Ghost) : Follows(g2, fs2, errors, TheQuestion)
    BY <1>1, TopCalls, ZenonT(60)
  <2>2. Asks(frames'[n], g[n].q) /\ Waits(frames'[n], g[n].q, p)
    BY <1>1, <1>6, <1>7, <1>10
  <2>3. Asks(frames'[n + 1], p) /\ frames'[n + 1].stage = "enter"
    BY <1>3, <1>10
  <2>4. errors = g[n].before \o FirstErrors(g[n].q, Behind(frames'[n]))
    BY <1>1, <1>8, <1>10
  <2> QED BY <1>10, <1>11, <2>1, <2>2, <2>3, <2>4
<1>13. TheQuestion' = TheQuestion
  BY DEF TheQuestion
<1> QED BY <1>1, <1>12, <1>13 DEF ErrorsInv

LEMMA NextPropertyErrors ==
  ASSUME TypeOK, ChainIsCallStack, ErrorsInv, NextProperty
  PROVE  ErrorsInv'
PROOF
<1> DEFINE c == Top.ve.children[Top.pos + 1]
           f == [Top EXCEPT !.pos = @ + 1]
<1>1. /\ frames # << >> /\ Top.stage = "loop" /\ Shape(Top) = "object"
      /\ Top.pos < Len(Top.ve.children)
      /\ \/ Property(Top, c) = None /\ c.required /\ Report("required", c.key) /\ SetTop(f)
         \/ Property(Top, c) = None /\ ~c.required /\ SetTop(f) /\ errors' = errors
         \/ /\ Property(Top, c) # None /\ Call(f, c, "property", Property(Top, c), f.out)
            /\ errors' = errors
      /\ UNCHANGED <<root, input, reply>>
  BY DEF NextProperty, At, Property
<1>2. PICK g \in Seq(Ghost), n \in Nat \ {0}, q \in Question : Innermost(g, n, q)
  BY <1>1, InnermostCall
<1>3. Asks(Top, q) /\ Top \in Frame
  BY <1>1, <1>2, TopType DEF Innermost
<1>4. /\ Walks(q) /\ Top.json = Document(q) /\ Top.ve = q.ve
      /\ Top.pos \in 0..Len(q.ve.children) /\ Top.index = -1
  BY <1>1, <1>3 DEF Asks
<1>5. Shape(View(q)) = "object" /\ Property(Top, c) = Property(View(q), c)
  BY <1>1, <1>3, <1>4, SeesTheSame
<1>6. /\ Len(q.ve.children) \in Nat /\ DOMAIN q.ve.children = 1..Len(q.ve.children)
  BY <1>4, PartsCounted
<1>7. Top.pos + 1 \in DOMAIN q.ve.children /\ c = q.ve.children[Top.pos + 1]
  BY <1>1, <1>4, <1>6
<1>8. PartErrors(Violations, q)[Top.pos + 1] =
        IF Property(View(q), c) # None THEN Violations[AskProperty(q, Top.pos + 1)]
        ELSE IF c.required THEN Wrong(q, "required", c.key) ELSE << >>
  BY <1>5, <1>7 DEF PartErrors
<1>9. CASE Property(Top, c) = None /\ c.required /\ Report("required", c.key) /\ SetTop(f)
  <2>1. errors' = errors \o PartErrors(Violations, q)[Top.pos + 1]
    <3>1. PartErrors(Violations, q)[Top.pos + 1] = Wrong(q, "required", c.key)
      BY <1>5, <1>8, <1>9
    <3> HIDE DEF c
    <3> QED BY <1>2, <1>4, <1>9, <3>1, Reported
  <2> QED BY <1>1, <1>2, <1>9, <2>1, PassesProperty
<1>10. CASE Property(Top, c) = None /\ ~c.required /\ SetTop(f) /\ errors' = errors
  <2>1. errors' = errors \o PartErrors(Violations, q)[Top.pos + 1]
    <3>1. PartErrors(Violations, q)[Top.pos + 1] = << >>
      BY <1>5, <1>8, <1>10
    <3>2. errors \in Seq(Message)
      BY <1>1, <1>2, ErrorsType
    <3> QED BY <1>10, <3>1, <3>2, ConcatEmptySeq
  <2> QED BY <1>1, <1>2, <1>10, <2>1, PassesProperty
<1>11. CASE /\ Property(Top, c) # None /\ Call(f, c, "property", Property(Top, c), f.out)
            /\ errors' = errors
  <2> DEFINE v == Property(Top, c)
             p == Ask(q, c, "property", v, -1)
  <2>1. p = AskProperty(q, Top.pos + 1)
    BY <1>5, <1>7 DEF AskProperty
  <2>2. p \in Question
    BY <1>5, <1>7, <1>11, <2>1, AskPropertyType
  <2>3. Top.pos + 1 \in Nat /\ Top.pos + 1 \in 1..Len(q.ve.children)
        /\ Top.pos + 1 \in 0..Len(q.ve.children) /\ (Top.pos + 1) - 1 = Top.pos
    BY <1>4, <1>6, <1>7
  <2>4. /\ f \in Frame /\ f.stage = "loop" /\ f.ve = Top.ve /\ f.flag = Top.flag
        /\ f.key = Top.key /\ f.tcl = Top.tcl /\ f.json = Top.json
        /\ f.index = -1 /\ f.pos = Top.pos + 1
    BY <1>1, <1>3, <1>4, <2>3 DEF Frame, FrameRecord
  <2>5. Call(f, c, "property", v, f.out) /\ errors' = errors
    BY <1>11
  <2>6. Property(View(q), q.ve.children[Top.pos + 1]) # None
    BY <1>5, <1>7, <1>11
  <2> HIDE DEF f, v, p
  <2>7. Shape(f) = "object"
    BY <1>1, <2>4 DEF Shape
  <2>8. Asks(f, q)
    BY <1>3, <1>4, <2>3, <2>4, <2>7 DEF Asks
  <2>9. Waits(f, q, p)
    BY <2>1, <2>3, <2>4, <2>6, <2>7 DEF Waits
  <2>10. Found(Top, q) = FirstErrors(q, Behind(f))
    BY <1>1, <2>3, <2>4, <2>7 DEF Found, Behind
  <2> HIDE DEF c
  <2> QED BY <1>1, <1>2, <1>4, <2>2, <2>4, <2>5, <2>8, <2>9, <2>10, CallsFor DEF p
<1> QED BY <1>1, <1>9, <1>10, <1>11

LEMMA NextItemErrors ==
  ASSUME TypeOK, ErrorsInv, NextItem
  PROVE  ErrorsInv'
PROOF
<1> DEFINE c == Top.ve.children[1]
           v == Items(Top)[Top.index + 1]
<1>1. /\ frames # << >> /\ Top.stage = "loop" /\ Shape(Top) = "array"
      /\ Top.index < Len(Items(Top)) /\ Call(Top, c, "item", v, Top.item)
      /\ errors' = errors /\ UNCHANGED <<root, input, reply>>
  BY DEF NextItem, At
<1>2. PICK g \in Seq(Ghost), n \in Nat \ {0}, q \in Question : Innermost(g, n, q)
  BY <1>1, InnermostCall
<1>3. Asks(Top, q) /\ Top \in Frame
  BY <1>1, <1>2, TopType DEF Innermost
<1>4. /\ Walks(q) /\ Top.json = Document(q) /\ Top.ve = q.ve
      /\ Top.index \in 0..Len(Items(View(q)))
  BY <1>1, <1>3 DEF Asks
<1>5. Shape(View(q)) = "array" /\ Items(Top) = Items(View(q))
  BY <1>1, <1>3, <1>4, SeesTheSame
<1>6. /\ Len(Items(View(q))) \in Nat /\ DOMAIN Items(View(q)) = 1..Len(Items(View(q)))
  BY <1>4, PartsCounted
<1>7. /\ Top.index + 1 \in DOMAIN Items(View(q)) /\ Top.index \in 0..(Len(Items(View(q))) - 1)
      /\ (Top.index + 1) - 1 = Top.index
  BY <1>1, <1>4, <1>5, <1>6
<1>8. q.ve.children # << >>
  BY <1>4, <1>5 DEF Walks
<1> DEFINE p == Ask(q, c, "item", v, Top.index)
<1>9. p = AskItem(q, Top.index + 1)
  BY <1>4, <1>5, <1>7 DEF AskItem
<1>10. p \in Question
  BY <1>7, <1>8, <1>9, AskItemType
<1> HIDE DEF c, v, p
<1>11. Waits(Top, q, p)
  BY <1>1, <1>7, <1>9 DEF Waits
<1>12. Found(Top, q) = FirstErrors(q, Behind(Top))
  BY <1>1 DEF Found, Behind
<1> QED BY <1>1, <1>2, <1>3, <1>4, <1>10, <1>11, <1>12, CallsFor DEF p

\* A caller has come one part further.
LEMMA CallerTurns ==
  ASSUME NEW caller \in Frame, NEW q \in Question, Asks(caller, q), NEW p, Waits(caller, q, p)
  PROVE  LET f == [caller EXCEPT !.next = 0, !.index = IF Shape(caller) = "array" THEN @ + 1 ELSE @]
         IN  Asks(f, q) /\ Found(f, q) = FirstErrors(q, Behind(caller) + 1)
PROOF
<1> DEFINE index == IF Shape(caller) = "array" THEN caller.index + 1 ELSE caller.index
           f == [caller EXCEPT !.next = 0, !.index = index]
<1>1. caller.stage = "loop" /\ Walks(q) /\ caller.json = Document(q)
  BY DEF Waits, Asks
<1>2. Shape(caller) = Shape(View(q)) /\ Shape(caller) \in {"object", "array"}
  BY <1>1, SeesTheSame DEF Walks
<1>3. /\ f.stage = "loop" /\ f.ve = caller.ve /\ f.flag = caller.flag /\ f.key = caller.key
      /\ f.tcl = caller.tcl /\ f.json = caller.json /\ f.pos = caller.pos /\ f.index = index
  BY <1>1 DEF Frame, FrameRecord
<1> HIDE DEF f
<1>4. Shape(f) = Shape(caller)
  BY <1>3 DEF Shape
<1>5. Len(q.ve.children) \in Nat /\ Len(Items(View(q))) \in Nat
  BY <1>1, PartsCounted
<1>6. CASE Shape(caller) = "object"
  <2>1. index = caller.index /\ caller.pos \in 1..Len(q.ve.children)
    BY <1>6 DEF Waits
  <2>2. (caller.pos - 1) + 1 = caller.pos
    BY <1>5, <2>1
  <2> HIDE DEF index
  <2>3. Asks(f, q)
    BY <1>1, <1>3, <1>4, <1>6, <2>1 DEF Asks
  <2>4. Found(f, q) = FirstErrors(q, Behind(caller) + 1)
    BY <1>3, <1>4, <1>6, <2>2 DEF Found, Behind
  <2> QED BY <2>3, <2>4 DEF f, index
<1>7. CASE Shape(caller) = "array"
  <2>1. index = caller.index + 1 /\ caller.index \in 0..(Len(Items(View(q))) - 1)
    BY <1>7 DEF Waits
  <2>2. index \in 0..Len(Items(View(q)))
    BY <1>5, <2>1
  <2> HIDE DEF index
  <2>3. Asks(f, q)
    BY <1>1, <1>3, <1>4, <1>7, <2>2 DEF Asks
  <2>4. Found(f, q) = FirstErrors(q, Behind(caller) + 1)
    BY <1>3, <1>4, <1>7, <2>1 DEF Found, Behind
  <2> QED BY <2>3, <2>4 DEF f, index
<1> QED BY <1>2, <1>6, <1>7

LEMMA LeaveErrors ==
  ASSUME TypeOK, ErrorsInv, Leave
  PROVE  ErrorsInv'
PROOF
<1> DEFINE turned(m) == [frames[m] EXCEPT !.next = 0,
                           !.index = IF Shape(frames[m]) = "array" THEN @ + 1 ELSE @]
<1>1. /\ frames # << >> /\ Top.stage = "leave" /\ frames \in Seq(Frame)
      /\ errors' = errors /\ UNCHANGED <<root, input, reply>>
  BY DEF Leave, At, TypeOK
<1>2. PICK g \in Seq(Ghost), n \in Nat \ {0}, q \in Question : Innermost(g, n, q)
  BY <1>1, InnermostCall
<1>3. /\ Len(frames) = n /\ Len(g) = n /\ Follows(g, frames, errors, TheQuestion)
      /\ q = g[n].q /\ g[n].before \in Seq(Message)
      /\ errors = g[n].before \o Found(Top, q) /\ reply = None
  BY <1>2 DEF Innermost
<1>4. TheQuestion' = TheQuestion
  BY <1>1 DEF TheQuestion
<1>5. CASE n = 1 /\ frames' = << >>
  <2>1. g[1] = [q |-> TheQuestion, before |-> << >>]
    BY <1>1, <1>3 DEF Follows
  <2>2. q = TheQuestion /\ g[n].before = << >>
    BY <1>3, <1>5, <2>1
  <2>3. errors = << >> \o Violations[q]
    BY <1>1, <1>3, <2>2 DEF Found
  <2>4. errors' = Violations[TheQuestion]
    BY <1>1, <2>2, <2>3, ViolationsType, ConcatEmptySeq
  <2>5. << >> \in Seq(Ghost) /\ Len(<< >>) = 0
    OBVIOUS
  <2>6. Follows(<< >>, << >>, errors', TheQuestion)
    BY <2>4, <2>5 DEF Follows
  <2> QED BY <1>4, <1>5, <2>5, <2>6 DEF ErrorsInv
<1>6. CASE n # 1 /\ frames' = [Front(frames) EXCEPT ![n - 1] = turned(n - 1)]
  <2>1. PICK m \in Nat \ {0} : m = n - 1 /\ m + 1 = n
    <3>1. n - 1 \in Nat \ {0} /\ (n - 1) + 1 = n
      BY <1>6
    <3> QED BY <3>1
  <2>2. m \in 1..n /\ m + 1 \in 1..n /\ m \in 1..(n - 1)
    BY <2>1
  <2>3. /\ Asks(frames[m], g[m].q) /\ Waits(frames[m], g[m].q, g[m + 1].q)
        /\ g[m].q \in Question /\ frames[m] \in Frame
    <3>1. Asks(frames[m], g[m].q) /\ Waits(frames[m], g[m].q, g[m + 1].q)
      BY <1>3, <2>2 DEF Follows
    <3>2. g[m].q \in Question
      BY <1>3, <2>2, GhostType
    <3>3. frames[m] \in Frame
      BY <1>1, <1>3, <2>2, ElementOfSeq
    <3> QED BY <3>1, <3>2, <3>3
  <2> DEFINE f == turned(m)
  <2>4. Asks(f, g[m].q) /\ Found(f, g[m].q) = FirstErrors(g[m].q, Behind(frames[m]) + 1)
    BY <2>3, CallerTurns
  <2>5. frames' = [Front(frames) EXCEPT ![m] = f]
    BY <1>6, <2>1
  <2> HIDE DEF f
  <2> DEFINE S == Frame \cup {f}
  <2>6. frames \in Seq(S) /\ f \in S
    BY <1>1
  <2> HIDE DEF S
  <2>7. /\ Front(frames) \in Seq(S) /\ Len(Front(frames)) = m
        /\ \A k \in 1..m : Front(frames)[k] = frames[k]
    BY <1>1, <1>3, <2>1, <2>6, FrontOf
  <2>8. /\ Len(frames') = m /\ frames'[m] = f /\ frames' \in Seq(S)
        /\ \A k \in DOMAIN Front(frames) : k # m => frames'[k] = Front(frames)[k]
    <3>1. m \in DOMAIN Front(frames)
      BY <2>7
    <3> QED BY <2>5, <2>6, <2>7, <3>1, ChangeOne
  <2>9. \A k \in 1..(m - 1) : frames'[k] = frames[k]
    <3>1. DOMAIN Front(frames) = 1..m
      BY <2>7
    <3>2. \A k \in 1..(m - 1) : k \in 1..m /\ k # m
      OBVIOUS
    <3> QED BY <2>7, <2>8, <3>1, <3>2
  <2>10. frames' # << >>
    BY <2>8
  <2>11. \E g2 \in Seq(Ghost) : Follows(g2, frames', errors, TheQuestion)
    <3>1. \A fs2 :
            /\ Len(fs2) = m /\ fs2 # << >> /\ \A k \in 1..(m - 1) : fs2[k] = frames[k]
            /\ Asks(fs2[m], g[m].q)
            /\ Found(fs2[m], g[m].q) = FirstErrors(g[m].q, Behind(frames[m]) + 1)
            => \E g2 \in Seq(Ghost) : Follows(g2, fs2, errors, TheQuestion)
      <4>1. Len(frames) = m + 1 /\ frames[m + 1].stage = "leave"
        BY <1>1, <1>3, <2>1 DEF Top
      <4> QED BY <1>1, <1>3, <4>1, TopReturns
    <3>2. /\ Asks(frames'[m], g[m].q)
          /\ Found(frames'[m], g[m].q) = FirstErrors(g[m].q, Behind(frames[m]) + 1)
      BY <2>4, <2>8
    <3> QED BY <2>8, <2>9, <2>10, <3>1, <3>2
  <2> QED BY <1>1, <1>3, <1>4, <2>11 DEF ErrorsInv
<1>7. (n = 1 /\ frames' = << >>)
      \/ (n # 1 /\ frames' = [Front(frames) EXCEPT ![n - 1] = turned(n - 1)])
  <2>1. \/ Len(frames) - 1 = 0 /\ frames' = << >>
        \/ /\ Len(frames) - 1 > 0
           /\ frames' = [Front(frames) EXCEPT ![Len(frames) - 1] = turned(Len(frames) - 1)]
    BY DEF Leave
  <2>2. (Len(frames) - 1 = 0 => n = 1) /\ (Len(frames) - 1 > 0 => n # 1)
    BY <1>3
  <2> HIDE DEF turned
  <2> QED BY <1>3, <2>1, <2>2
<1> QED BY <1>5, <1>6, <1>7

\* A command that starts asks the question of its value.
LEMMA BeginsWithQuestion ==
  ASSUME NEW r \in Element, NEW v \in TclValue,
         NEW q0, q0 = [ve |-> r, role |-> "root", above |-> << >>, tcl |-> v, json |-> None]
  PROVE  \E g \in Seq(Ghost) : Follows(g, <<NewFrame(r, "root", v, None, 1)>>, << >>, q0)
PROOF
<1>1. q0 \in Question
  <2>1. v # None
    BY ValidateAssumption
  <2> QED BY <2>1 DEF Question
<1> DEFINE x == [q |-> q0, before |-> << >>]
           f == NewFrame(r, "root", v, None, 1)
<1>2. x \in Ghost /\ x.q = q0 /\ x.before = << >>
  BY <1>1 DEF Ghost
<1>3. Asks(f, q0) /\ f.stage = "enter"
  BY <1>1, ViewOf DEF Asks, NewFrame
<1>4. Found(f, q0) = << >>
  BY <1>3 DEF Found
<1>9. << >> = << >> \o << >>
  OBVIOUS
<1> HIDE DEF f
<1>5. /\ Len(<<f>>) = 1 /\ <<f>>[1] = f /\ <<f>> # << >>
      /\ <<x>> \in Seq(Ghost) /\ Len(<<x>>) = 1 /\ <<x>>[1] = x
  BY <1>2
<1>6. \A i \in 1..1 : i = 1
  OBVIOUS
<1>7. \A i \in 1..(1 - 1) : FALSE
  OBVIOUS
<1>8. Follows(<<x>>, <<f>>, << >>, q0)
  <2>1. \A i \in 1..1 : Asks(<<f>>[i], <<x>>[i].q)
    BY <1>2, <1>3, <1>5, <1>6
  <2>2. << >> = <<x>>[1].before \o Found(<<f>>[1], <<x>>[1].q)
    BY <1>2, <1>4, <1>5, <1>9
  <2> QED BY <1>5, <1>7, <2>1, <2>2 DEF Follows
<1> QED BY <1>5, <1>8 DEF f

LEMMA InitErrors ==
  ASSUME Init
  PROVE  ErrorsInv
PROOF
<1>1. root \in Element /\ input \in TclValue
  BY ValidateAssumption DEF Init
<1>2. \E g \in Seq(Ghost) : Follows(g, <<NewFrame(root, "root", input, None, 1)>>, << >>, TheQuestion)
  BY <1>1, BeginsWithQuestion DEF TheQuestion
<1> QED BY <1>2 DEF Init, ErrorsInv

LEMMA AgainErrors ==
  ASSUME TypeOK, Again
  PROVE  ErrorsInv'
PROOF
<1>1. root' \in Element /\ input' \in TclValue
  BY ValidateAssumption DEF TypeOK, Again
<1>2. /\ frames' = <<NewFrame(root', "root", input', None, 1)>> /\ errors' = << >> /\ reply' = None
  BY DEF Again
<1>3. TheQuestion' = [ve |-> root', role |-> "root", above |-> << >>, tcl |-> input', json |-> None]
  BY DEF TheQuestion
<1>4. \E g \in Seq(Ghost) :
        Follows(g, <<NewFrame(root', "root", input', None, 1)>>, << >>, TheQuestion')
  BY <1>1, <1>3, BeginsWithQuestion
<1> QED BY <1>2, <1>4 DEF ErrorsInv

\* Every step keeps the questions.
LEMMA NextErrors == IInv /\ ErrorsInv /\ [Next]_vars => ErrorsInv'
PROOF
<1> SUFFICES ASSUME IInv, ErrorsInv, [Next]_vars PROVE ErrorsInv'
  OBVIOUS
<1>1. TypeOK /\ ChainIsCallStack
  BY DEF IInv
<1>2. CASE ParseJson
  BY <1>1, <1>2, ParseJsonErrors
<1>3. CASE Accept
  BY <1>1, <1>3, AcceptErrors
<1>4. CASE ValidateScalar
  BY <1>1, <1>4, ValidateScalarErrors
<1>5. CASE EnterObject
  BY <1>1, <1>5, EnterObjectErrors
<1>6. CASE NextProperty
  BY <1>1, <1>6, NextPropertyErrors
<1>7. CASE LeaveObject
  BY <1>1, <1>7, LeaveObjectErrors
<1>8. CASE EnterArray
  BY <1>1, <1>8, EnterArrayErrors
<1>9. CASE NextItem
  BY <1>1, <1>9, NextItemErrors
<1>10. CASE LeaveArray
  BY <1>1, <1>10, LeaveArrayErrors
<1>11. CASE Leave
  BY <1>1, <1>11, LeaveErrors
<1>12. CASE Reply
  <2>1. frames' = frames /\ errors' = errors /\ TheQuestion' = TheQuestion /\ frames = << >>
    BY <1>12 DEF Reply, TheQuestion
  <2> QED BY <2>1 DEF ErrorsInv
<1>13. CASE Again
  BY <1>1, <1>13, AgainErrors
<1>14. CASE UNCHANGED vars
  <2>1. frames' = frames /\ errors' = errors /\ TheQuestion' = TheQuestion /\ reply' = reply
    BY <1>14 DEF vars, TheQuestion
  <2> QED BY <2>1 DEF ErrorsInv
<1> QED BY <1>2, <1>3, <1>4, <1>5, <1>6, <1>7, <1>8, <1>9, <1>10, <1>11, <1>12, <1>13, <1>14
        DEF Next, Step

\* A validation reports exactly the violations of its schema, in their order,
\* each once and with the path of its value: whatever the schema, the value and
\* the calls that have come and gone (tjvValidateTcl.c, tjvMessage.c:119).
THEOREM ErrorsExact == Spec => []ErrorsAreExact
PROOF
<1>1. Init => ErrorsInv
  BY InitErrors
<1>2. IInv /\ ErrorsInv /\ [Next]_vars => ErrorsInv'
  BY NextErrors
<1>3. ErrorsInv => ErrorsAreExact
  <2> SUFFICES ASSUME ErrorsInv PROVE ErrorsAreExact
    OBVIOUS
  <2> QED BY DEF ErrorsInv, Follows, ErrorsAreExact
<1> QED BY <1>1, <1>2, <1>3, Inductive, PTL DEF Spec

=============================================================================
