--------------------------- MODULE ValidateProofs ---------------------------
(***************************************************************************)
(* The pointers of a validation, for every schema and every value: the     *)
(* chain of stack frames that error paths are read from, and the outcome   *)
(* dictionaries that values are stored to.                                 *)
(***************************************************************************)
EXTENDS Validate, SeqLemmas

----------------------------------------------------------------------------
(* What the operators return.                                              *)

\* A sequence is one over its own elements.
LEMMA OverItsElements ==
  ASSUME NEW S, NEW s \in Seq(S)
  PROVE  s \in Seq(ToSet(s))
BY SeqDef DEF ToSet

\* Storing to an outcome changes no number of outcomes, whatever the pointer.
LEMMA ExceptAnywhere ==
  ASSUME NEW S, NEW s \in Seq(S), NEW i, NEW x
  PROVE  LET t == [s EXCEPT ![i] = x] IN t \in Seq(ToSet(t)) /\ Len(t) = Len(s)
PROOF
<1>1. CASE i \in DOMAIN s
  <2>1. s \in Seq(S \cup {x})
    OBVIOUS
  <2>2. [s EXCEPT ![i] = x] \in Seq(S \cup {x}) /\ Len([s EXCEPT ![i] = x]) = Len(s)
    BY <1>1, <2>1, ChangeOne
  <2> QED BY <2>2, OverItsElements
<1>2. CASE i \notin DOMAIN s
  <2>1. [s EXCEPT ![i] = x] = s
    BY <1>2
  <2> QED BY <2>1, OverItsElements
<1> QED BY <1>1, <1>2

\* ADD_OUTCOME keeps the number of outcomes.
LEMMA AddOutcomeType ==
  ASSUME NEW os, os \in Seq(ToSet(os)), NEW f, NEW v
  PROVE  /\ AddOutcome(os, f, v) \in Seq(ToSet(AddOutcome(os, f, v)))
         /\ Len(AddOutcome(os, f, v)) = Len(os)
PROOF
<1> DEFINE x == [os[f.out] EXCEPT !.dict = Put(@, f.ve.outkey, v)]
<1>1. AddOutcome(os, f, v) = os \/ AddOutcome(os, f, v) = [os EXCEPT ![f.out] = x]
  BY DEF AddOutcome
<1> HIDE DEF x
<1>2. [os EXCEPT ![f.out] = x] \in Seq(ToSet([os EXCEPT ![f.out] = x])) /\ Len([os EXCEPT ![f.out] = x]) = Len(os)
  BY ExceptAnywhere
<1> QED BY <1>1, <1>2

\* So does the collection of an item's outcome, which leaves that one empty.
LEMMA CollectType ==
  ASSUME NEW os, os \in Seq(ToSet(os)), NEW item
  PROVE  /\ Collect(os, item) \in Seq(ToSet(Collect(os, item)))
         /\ Len(Collect(os, item)) = Len(os)
         /\ item # 0 /\ item \in DOMAIN os => Collect(os, item)[item].dict = Empty
PROOF
<1> DEFINE x == [dict |-> Empty, list |-> Append(os[item].list, os[item].dict)]
<1>1. CASE item = 0 \/ os[item].dict = Empty
  BY <1>1 DEF Collect
<1>2. CASE ~(item = 0 \/ os[item].dict = Empty)
  <2>1. Collect(os, item) = [os EXCEPT ![item] = x]
    BY <1>2 DEF Collect
  <2>2. x.dict = Empty
    OBVIOUS
  <2> HIDE DEF x
  <2>3. [os EXCEPT ![item] = x] \in Seq(ToSet([os EXCEPT ![item] = x])) /\ Len([os EXCEPT ![item] = x]) = Len(os)
    BY ExceptAnywhere
  <2>4. item \in DOMAIN os => [os EXCEPT ![item] = x][item] = x
    OBVIOUS
  <2> QED BY <2>1, <2>2, <2>3, <2>4
<1> QED BY <1>1, <1>2

\* A new call's frame.
IsNew(f, out) ==
  f \in Frame /\ f.next = 0 /\ f.item = 0 /\ f.out = out /\ f.stage = "enter"

\* A new call is a frame with nothing linked to it and no item_outcome.
LEMMA NewFrameType ==
  ASSUME NEW ve \in Element, NEW role \in {"root", "property", "item"},
         NEW tcl \in TclValue \cup {None}, NEW json \in Json \cup {None},
         tcl # None \/ json # None, NEW out \in Nat
  PROVE  IsNew(NewFrame(ve, role, tcl, json, out), out)
PROOF
<1>1. Flag(ve, role) \in Flags
  BY DEF Flag, Flags
<1>2. Key(ve, role) \in Keys
  BY DEF Key, Keys
<1>3. (IF Flag(ve, role) = "skip" THEN Skip ELSE Key(ve, role)) \in Keys
  BY <1>2 DEF Keys
<1> QED BY <1>1, <1>3 DEF IsNew, NewFrame, Frame, FrameRecord

\* The parts of a Tcl value are Tcl values.
LEMMA AsListType ==
  ASSUME NEW d \in TclValue
  PROVE  AsList(d) \in Seq(TclValue)
BY ValidateAssumption DEF AsList

\* A value found in a dictionary is a Tcl value.
LEMMA DictGetType ==
  ASSUME NEW d \in TclValue, NEW key
  PROVE  DictGet(d, key) \in TclValue \cup {None}
PROOF
<1> DEFINE l == AsList(d)
           at == {i \in 1..Len(l) : i % 2 = 0 /\ l[i - 1].text = key}
<1>1. l \in Seq(TclValue)
  BY AsListType
<1>2. at # {} => Max(at) \in at
  <2>1. at \subseteq 0..Len(l) /\ Len(l) \in Nat
    BY <1>1
  <2> HIDE DEF at
  <2> QED BY <2>1, MaxIsElement
<1>3. at # {} => l[Max(at)] \in TclValue
  <2>1. \A m \in at : l[m] \in TclValue
    <3>1. at \subseteq 1..Len(l)
      OBVIOUS
    <3> HIDE DEF at, l
    <3> QED BY <1>1, <3>1, ElementOfSeq
  <2> QED BY <1>2, <2>1, Zenon
<1>4. DictGet(d, key) = IF at = {} THEN None ELSE l[Max(at)]
  BY DEF DictGet
<1> QED BY <1>3, <1>4

\* The parts of a JSON value are JSON values.
LEMMA JsonGetType ==
  ASSUME NEW j \in Json, NEW key
  PROVE  JsonGet(j, key) \in Json \cup {None}
PROOF
<1> DEFINE at == {i \in DOMAIN j.keys : Lower[j.keys[i]] = Lower[key]}
<1>1. /\ j.items \in Seq(Json) /\ j.keys \in Seq(ToSet(j.keys))
      /\ Len(j.keys) = Len(j.items) \/ Len(j.keys) = 0
  BY ValidateAssumption
<1>2. at \subseteq DOMAIN j.items /\ at \subseteq Nat
  <2>1. DOMAIN j.keys \subseteq DOMAIN j.items /\ DOMAIN j.keys \subseteq Nat
    BY <1>1
  <2> QED BY <2>1
<1>3. at # {} => j.items[Min(at)] \in Json
  <2> HIDE DEF at
  <2> QED BY <1>1, <1>2, MinIsElement
<1>4. JsonGet(j, key) = IF at = {} THEN None ELSE j.items[Min(at)]
  BY DEF JsonGet
<1> QED BY <1>3, <1>4

----------------------------------------------------------------------------
(* The inductive invariant.                                                *)

\* Only an array call in its loop has an item_outcome, and it has items to turn to.
Settled(f) ==
  /\ f.item # 0 => f.stage = "loop" /\ Shape(f) = "array"
  /\ f.stage = "loop" /\ Shape(f) = "array" => f.ve.children # << >> /\ f.index \in Nat
Quiet == \A i \in DOMAIN frames : Settled(frames[i])

\* The outcomes are the command's and one for each array call that collects,
\* in the order of the calls; an outcome pointer is one of these.
Within == \A i \in DOMAIN frames : frames[i].item \in {0} \cup 2..Len(outcomes)
Ordered ==
  \A i, j \in DOMAIN frames :
    i < j /\ frames[i].item # 0 /\ frames[j].item # 0 => frames[i].item < frames[j].item
Owned == \A m \in 2..Len(outcomes) : \E i \in DOMAIN frames : frames[i].item = m
Reachable ==
  \A i \in DOMAIN frames :
    frames[i].out \in {0, 1} \/ \E k \in 1..(i - 1) : frames[k].item = frames[i].out
Nested == Within /\ Ordered /\ Owned /\ Reachable

IInv == TypeOK /\ Quiet /\ ChainIsCallStack /\ Nested /\ ItemsStartAfresh

----------------------------------------------------------------------------
(* The kinds of step, as the call stack and the outcomes see them.         *)

\* There are n outcomes after the step.
Sized(n) == outcomes' \in Seq(ToSet(outcomes')) /\ Len(outcomes') = n

\* The innermost call becomes f, whose pointers are those it had.
Changed(f) ==
  /\ frames # << >> /\ SetTop(f)
  /\ Settled(f) /\ f.next = Top.next /\ f.out = Top.out

\* It has no outcome of its own, before and after; it starts to collect; it
\* has collected everything.
Kept(f) == Changed(f) /\ Top.item = 0 /\ f.item = 0 /\ Sized(Len(outcomes))
Opened(f) ==
  /\ Changed(f) /\ Top.item = 0 /\ f.item = Len(outcomes) + 1
  /\ Sized(Len(outcomes) + 1) /\ outcomes'[f.item].dict = Empty
Closed(f) ==
  /\ Changed(f) /\ Top.item # 0 /\ f.item = 0 /\ Sized(Len(outcomes) - 1)

\* It becomes f and calls g.
Pushed(f, g) ==
  /\ frames # << >>
  /\ frames' = Append([frames EXCEPT ![Len(frames)] = f], g)
  /\ Settled(f) /\ f.next = Len(frames) + 1 /\ f.out = Top.out /\ f.item = Top.item
  /\ Settled(g) /\ g.next = 0 /\ g.item = 0 /\ g.out \in {Top.out, Top.item}
  /\ outcomes' = outcomes

\* It returns to its caller, which becomes f; to the command.
Popped(f) ==
  /\ Len(frames) > 1 /\ Top.item = 0
  /\ LET n == Len(frames) - 1 IN
       /\ frames' = [Front(frames) EXCEPT ![n] = f]
       /\ Settled(f) /\ f.next = 0 /\ f.out = frames[n].out /\ f.item = frames[n].item
  /\ Sized(Len(outcomes))
  /\ f.item # 0 /\ f.item \in DOMAIN outcomes => outcomes'[f.item].dict = Empty
Emptied == Len(frames) = 1 /\ Top.item = 0 /\ frames' = << >> /\ Sized(Len(outcomes))

\* The command starts a validation: one call on its own, with the command's
\* outcome.
Alone ==
  /\ outcomes \in Seq(ToSet(outcomes)) /\ Len(outcomes) = 1
  /\ \E g \in Frame : frames = <<g>> /\ Settled(g) /\ g.next = 0 /\ g.item = 0 /\ g.out = 1

\* The command does something else.
Unmoved == frames' = frames /\ outcomes' = outcomes

Moves ==
  \/ \E f \in Frame : Kept(f) \/ Opened(f) \/ Closed(f) \/ Popped(f)
  \/ \E f \in Frame, g \in Frame : Pushed(f, g)
  \/ Emptied \/ Alone' \/ Unmoved

----------------------------------------------------------------------------
(* Every step is of one of these kinds.                                    *)

\* What TypeOK says of the innermost call.
LEMMA TopType ==
  ASSUME TypeOK, frames # << >>
  PROVE  /\ Top \in Frame /\ Len(frames) \in DOMAIN frames /\ Len(frames) \in Nat
         /\ Top.ve \in Element /\ Top.stage \in {"enter", "loop", "leave"}
         /\ Top.next \in Nat /\ Top.out \in Nat /\ Top.item \in Nat /\ Top.pos \in Nat
         /\ Top.index \in Nat \cup {-1}
         /\ Top.tcl \in TclValue \cup {None} /\ Top.json \in Json \cup {None}
         /\ Top.tcl # None \/ Top.json # None
PROOF
<1>1. Top \in Frame /\ Len(frames) \in DOMAIN frames /\ Len(frames) \in Nat
  BY DEF TypeOK, Top
<1> QED BY <1>1 DEF Frame, FrameRecord

\* What Quiet says of the innermost call.
LEMMA QuietTop ==
  ASSUME TypeOK, Quiet, frames # << >>
  PROVE  /\ Top.item # 0 => Top.stage = "loop" /\ Shape(Top) = "array"
         /\ Top.stage = "loop" /\ Shape(Top) = "array" =>
              Top.ve.children # << >> /\ Top.index \in Nat
BY TopType DEF Quiet, Settled, Top

\* What the outcomes are before a step they still are if it leaves them alone.
LEMMA SameSize ==
  ASSUME TypeOK, outcomes' = outcomes
  PROVE  Sized(Len(outcomes))
BY DEF TypeOK, Sized

\* ADD_OUTCOME to the outcomes of the state.
LEMMA StoredSize ==
  ASSUME TypeOK, NEW v, outcomes' = AddOutcome(outcomes, Top, v)
  PROVE  Sized(Len(outcomes))
PROOF
<1>1. outcomes \in Seq(ToSet(outcomes))
  BY DEF TypeOK
<1>2. /\ AddOutcome(outcomes, Top, v) \in Seq(ToSet(AddOutcome(outcomes, Top, v)))
      /\ Len(AddOutcome(outcomes, Top, v)) = Len(outcomes)
  BY <1>1, AddOutcomeType
<1> QED BY <1>2 DEF Sized

\* A step that only changes the data, the stage or the position of a call
\* without an item_outcome.
LEMMA KeptMoves ==
  ASSUME TypeOK, frames # << >>, Top.item = 0, Sized(Len(outcomes)), NEW f \in Frame,
         SetTop(f), Settled(f), f.item = 0, f.next = Top.next, f.out = Top.out
  PROVE  Moves
PROOF
<1>1. Kept(f)
  BY DEF Kept, Changed
<1> QED BY <1>1 DEF Moves

\* A step that only leaves the body of such a call.
LEMMA LeavingMoves ==
  ASSUME TypeOK, frames # << >>, Top.item = 0, Leaving, Sized(Len(outcomes))
  PROVE  Moves
PROOF
<1> DEFINE f == [Top EXCEPT !.stage = "leave"]
<1>1. /\ f \in Frame /\ f.item = 0 /\ f.next = Top.next /\ f.out = Top.out
      /\ Settled(f)
  BY TopType DEF Frame, FrameRecord, Settled
<1>2. SetTop(f)
  BY DEF Leaving
<1> HIDE DEF f
<1> QED BY <1>1, <1>2, KeptMoves

\* A call from the innermost one, on a part v of its value.
LEMMA CallMoves ==
  ASSUME TypeOK, frames # << >>,
         NEW f \in Frame, f.next = Top.next, f.out = Top.out, f.item = Top.item,
         Settled(f), NEW ve \in Element, NEW role \in {"property", "item"}, NEW v,
         IF f.json = None THEN v \in TclValue ELSE v \in Json,
         NEW out \in {Top.out, Top.item}, Call(f, ve, role, v, out), outcomes' = outcomes
  PROVE  Moves
PROOF
<1> DEFINE f1 == [f EXCEPT !.next = Len(frames) + 1]
           g == IF f.json = None THEN NewFrame(ve, role, v, None, out)
                                 ELSE NewFrame(ve, role, None, v, out)
<1>1. out \in Nat /\ Len(frames) \in Nat
  BY TopType
<1>2. None \notin TclValue /\ None \notin Json
  BY ValidateAssumption
<1>3. IsNew(g, out)
  <2>1. CASE f.json = None
    <3>1. /\ v \in TclValue \cup {None} /\ None \in Json \cup {None}
          /\ v # None \/ None # None
      BY <1>2, <2>1
    <3> DEFINE h == NewFrame(ve, role, v, None, out)
    <3>2. role \in {"root", "property", "item"}
      OBVIOUS
    <3>3. IsNew(h, out)
      BY <1>1, <3>1, <3>2, NewFrameType
    <3>4. g = h
      BY <2>1
    <3> HIDE DEF g, h
    <3> QED BY <3>3, <3>4
  <2>2. CASE f.json # None
    <3>1. /\ v \in Json \cup {None} /\ None \in TclValue \cup {None}
          /\ None # None \/ v # None
      BY <1>2, <2>2
    <3> DEFINE h == NewFrame(ve, role, None, v, out)
    <3>2. role \in {"root", "property", "item"}
      OBVIOUS
    <3>3. IsNew(h, out)
      BY <1>1, <3>1, <3>2, NewFrameType
    <3>4. g = h
      BY <2>2
    <3> HIDE DEF g, h
    <3> QED BY <3>3, <3>4
  <2> QED BY <2>1, <2>2
<1>4. /\ f1 \in Frame /\ f1.next = Len(frames) + 1 /\ f1.out = f.out
      /\ f1.item = f.item /\ f1.stage = f.stage /\ Shape(f1) = Shape(f)
      /\ f1.ve = f.ve /\ f1.index = f.index
  BY <1>1 DEF Frame, FrameRecord, Shape
<1>5. frames' = Append([frames EXCEPT ![Len(frames)] = f1], g)
  BY DEF Call
<1> HIDE DEF f1, g
<1>6. Settled(f1)
  BY <1>4 DEF Settled
<1>7. Pushed(f1, g)
  BY <1>3, <1>4, <1>5, <1>6 DEF Pushed, IsNew, Settled
<1> QED BY <1>3, <1>4, <1>7 DEF Moves, IsNew

\* Parsing JSON changes the data of the innermost call, or ends it.
LEMMA ParseJsonMoves ==
  ASSUME TypeOK, Quiet, ParseJson
  PROVE  Moves
PROOF
<1>1. frames # << >> /\ Top.stage = "enter" /\ outcomes' = outcomes /\ Top.json = None
  BY DEF ParseJson, At
<1>2. Top.item = 0 /\ Sized(Len(outcomes))
  BY <1>1, QuietTop, SameSize
<1>3. CASE Leaving
  BY <1>1, <1>2, <1>3, LeavingMoves
<1>4. CASE Top.tcl.json # None /\ SetTop([Top EXCEPT !.json = Top.tcl.json])
  <2> DEFINE f == [Top EXCEPT !.json = Top.tcl.json]
  <2>1. Top.tcl \in TclValue
    BY <1>1, TopType
  <2>2. Top.tcl.json \in Json
    BY <1>4, <2>1, ValidateAssumption
  <2>3. /\ f \in Frame /\ f.item = 0 /\ f.next = Top.next /\ f.out = Top.out
        /\ Settled(f)
    BY <1>1, <1>2, <2>2, TopType DEF Frame, FrameRecord, Settled
  <2> HIDE DEF f
  <2>4. SetTop(f)
    BY <1>4 DEF f
  <2> QED BY <1>1, <1>2, <2>3, <2>4, KeptMoves
<1> QED BY <1>3, <1>4 DEF ParseJson

\* Accepting a value as it is ends the innermost call.
LEMMA AcceptMoves ==
  ASSUME TypeOK, Quiet, Accept
  PROVE  Moves
PROOF
<1>1. frames # << >> /\ Top.stage = "enter" /\ outcomes' = outcomes /\ Leaving
  BY DEF Accept, Checks, At
<1>2. Top.item = 0 /\ Sized(Len(outcomes))
  BY <1>1, QuietTop, SameSize
<1> QED BY <1>1, <1>2, LeavingMoves

\* A scalar may store its value and ends the innermost call.
LEMMA ValidateScalarMoves ==
  ASSUME TypeOK, Quiet, ValidateScalar
  PROVE  Moves
PROOF
<1>1. frames # << >> /\ Top.stage = "enter" /\ Leaving
  BY DEF ValidateScalar, Checks, At
<1>2. Top.item = 0
  BY <1>1, QuietTop
<1>3. outcomes' = outcomes \/ outcomes' = AddOutcome(outcomes, Top, Result(Top))
  BY DEF ValidateScalar
<1>4. Sized(Len(outcomes))
  BY <1>3, SameSize, StoredSize
<1> QED BY <1>1, <1>2, <1>4, LeavingMoves

\* An object turns to its properties, or ends with an error.
LEMMA EnterObjectMoves ==
  ASSUME TypeOK, Quiet, EnterObject
  PROVE  Moves
PROOF
<1>1. /\ frames # << >> /\ Top.stage = "enter" /\ outcomes' = outcomes
      /\ Shape(Top) = "object"
  BY DEF EnterObject, Checks, At
<1>2. Top.item = 0 /\ Sized(Len(outcomes))
  BY <1>1, QuietTop, SameSize
<1>3. CASE Leaving
  BY <1>1, <1>2, <1>3, LeavingMoves
<1>4. CASE SetTop([Top EXCEPT !.stage = "loop"])
  <2> DEFINE f == [Top EXCEPT !.stage = "loop"]
  <2>1. /\ f \in Frame /\ f.item = 0 /\ f.next = Top.next /\ f.out = Top.out
        /\ Shape(f) = "object"
    BY <1>1, <1>2, TopType DEF Frame, FrameRecord, Shape
  <2> HIDE DEF f
  <2>3. Settled(f)
    BY <2>1 DEF Settled
  <2>2. SetTop(f)
    BY <1>4 DEF f
  <2> QED BY <1>1, <1>2, <2>1, <2>2, <2>3, KeptMoves
<1> QED BY <1>3, <1>4 DEF EnterObject

\* A property is called on a part of the value, or stepped over.
LEMMA NextPropertyMoves ==
  ASSUME TypeOK, Quiet, NextProperty
  PROVE  Moves
PROOF
<1> DEFINE e == Top.ve.children[Top.pos + 1]
           v == IF Top.json = None THEN DictGet(Top.tcl, e.key) ELSE JsonGet(Top.json, e.key)
           f == [Top EXCEPT !.pos = @ + 1]
<1>1. /\ frames # << >> /\ Top.stage = "loop" /\ Shape(Top) = "object"
      /\ Top.pos < Len(Top.ve.children) /\ outcomes' = outcomes
  BY DEF NextProperty, At
<1>2. Top.item = 0 /\ Sized(Len(outcomes))
  BY <1>1, QuietTop, SameSize
<1>3. e \in Element
  <2>1. Top.ve.children \in Seq(Element) /\ Top.pos \in Nat
    BY <1>1, TopType, ValidateAssumption
  <2>2. Top.pos + 1 \in 1..Len(Top.ve.children)
    BY <1>1, <2>1
  <2> QED BY <2>1, <2>2, ElementOfSeq
<1>4. v # None => IF f.json = None THEN v \in TclValue ELSE v \in Json
  <2>1. f.json = Top.json
    OBVIOUS
  <2>2. CASE Top.json = None
    <3>1. Top.tcl \in TclValue
      BY <1>1, <2>2, TopType
    <3>2. DictGet(Top.tcl, e.key) \in TclValue \cup {None}
      BY <3>1, DictGetType
    <3> QED BY <2>1, <2>2, <3>2
  <2>3. CASE Top.json # None
    <3>1. Top.json \in Json
      BY <1>1, <2>3, TopType
    <3>2. JsonGet(Top.json, e.key) \in Json \cup {None}
      BY <3>1, JsonGetType
    <3> QED BY <2>1, <2>3, <3>2
  <2> QED BY <2>2, <2>3
<1>5. /\ f \in Frame /\ f.item = 0 /\ f.next = Top.next /\ f.out = Top.out
      /\ Shape(f) = "object"
  BY <1>1, <1>2, TopType DEF Frame, FrameRecord, Shape
<1>6. SetTop(f) \/ (v # None /\ Call(f, e, "property", v, f.out))
  BY DEF NextProperty
<1> HIDE DEF e, v, f
<1>7. Settled(f)
  BY <1>5 DEF Settled
<1>8. CASE SetTop(f)
  BY <1>1, <1>2, <1>5, <1>7, <1>8, KeptMoves
<1>9. CASE v # None /\ Call(f, e, "property", v, f.out)
  <2>1. f.item = Top.item /\ f.out \in {Top.out, Top.item}
    BY <1>2, <1>5
  <2> QED BY <1>1, <1>3, <1>4, <1>5, <1>7, <1>9, <2>1, CallMoves
<1> QED BY <1>6, <1>8, <1>9

\* An object may store its value and ends.
LEMMA LeaveObjectMoves ==
  ASSUME TypeOK, Quiet, LeaveObject
  PROVE  Moves
PROOF
<1>1. frames # << >> /\ Shape(Top) = "object" /\ Leaving
  BY DEF LeaveObject, At
<1>2. Top.item = 0
  BY <1>1, QuietTop
<1>3. outcomes' = outcomes \/ outcomes' = AddOutcome(outcomes, Top, <<"tcl", Top.tcl>>)
  BY DEF LeaveObject
<1>4. Sized(Len(outcomes))
  BY <1>3, SameSize, StoredSize
<1> QED BY <1>1, <1>2, <1>4, LeavingMoves

\* An array starts to collect, or goes without an item_outcome, or ends.
LEMMA EnterArrayMoves ==
  ASSUME TypeOK, Quiet, EnterArray
  PROVE  Moves
PROOF
<1> DEFINE collects == Top.out # 0 /\ Top.ve.outkey # None
           item == IF collects THEN Len(outcomes) + 1 ELSE 0
           f == [Top EXCEPT !.stage = "loop", !.index = 0, !.item = item]
<1>1. frames # << >> /\ Top.stage = "enter" /\ Shape(Top) = "array"
  BY DEF EnterArray, Checks, At
<1>2. Top.item = 0
  BY <1>1, QuietTop
<1>3. \/ Leaving /\ outcomes' = outcomes
      \/ /\ SetTop(f) /\ Top.ve.children # << >>
         /\ outcomes' = IF collects THEN Append(outcomes, NewOutcome) ELSE outcomes
  BY DEF EnterArray
<1>4. CASE Leaving /\ outcomes' = outcomes
  BY <1>1, <1>2, <1>4, SameSize, LeavingMoves
<1>5. ASSUME SetTop(f), Top.ve.children # << >>,
             outcomes' = IF collects THEN Append(outcomes, NewOutcome) ELSE outcomes
      PROVE  Moves
  <2>1. outcomes \in Seq(ToSet(outcomes)) /\ Len(outcomes) \in Nat
    BY DEF TypeOK
  <2>2. item \in Nat /\ 0 \in Nat
    BY <2>1
  <2>3. /\ f \in Frame /\ f.item = item /\ f.next = Top.next /\ f.out = Top.out
        /\ f.stage = "loop" /\ Shape(f) = Shape(Top)
        /\ f.ve = Top.ve /\ f.index \in Nat
    <3> HIDE DEF item
    <3> QED BY <1>1, <2>2, TopType DEF Frame, FrameRecord, Shape
  <2> HIDE DEF f
  <2>4. Settled(f)
    BY <1>1, <1>5, <2>3 DEF Settled
  <2>5. CASE ~collects
    BY <1>1, <1>2, <1>5, <2>3, <2>4, <2>5, SameSize, KeptMoves
  <2>6. CASE collects
    <3>1. /\ Append(outcomes, NewOutcome) \in Seq(ToSet(outcomes) \cup {NewOutcome})
          /\ Len(Append(outcomes, NewOutcome)) = Len(outcomes) + 1
          /\ Append(outcomes, NewOutcome)[Len(outcomes) + 1] = NewOutcome
      BY <2>1
    <3>2. Sized(Len(outcomes) + 1)
      BY <1>5, <2>6, <3>1, OverItsElements DEF Sized
    <3>3. outcomes'[f.item].dict = Empty
      BY <1>5, <2>3, <2>6, <3>1 DEF NewOutcome
    <3>4. Changed(f)
      BY <1>1, <1>5, <2>3, <2>4 DEF Changed
    <3>5. Opened(f)
      BY <1>2, <2>3, <2>6, <3>2, <3>3, <3>4 DEF Opened
    <3> QED BY <2>3, <3>5 DEF Moves
  <2> QED BY <2>5, <2>6
<1> QED BY <1>3, <1>4, <1>5

\* An item is called on an element of the value.
LEMMA NextItemMoves ==
  ASSUME TypeOK, Quiet, NextItem
  PROVE  Moves
PROOF
<1> DEFINE ve == Top.ve.children[1]
           v == Items(Top)[Top.index + 1]
<1>1. /\ frames # << >> /\ Top.stage = "loop" /\ Shape(Top) = "array"
      /\ Top.index < Len(Items(Top)) /\ outcomes' = outcomes
      /\ Call(Top, ve, "item", v, Top.item)
  BY DEF NextItem, At
<1>2. Top.ve.children # << >> /\ Top.index \in Nat
  BY <1>1, QuietTop
<1>3. ve \in Element
  <2>1. Top.ve.children \in Seq(Element) /\ 1 \in 1..Len(Top.ve.children)
    BY <1>1, <1>2, TopType, ValidateAssumption
  <2> QED BY <2>1, ElementOfSeq
<1>4. IF Top.json = None THEN v \in TclValue ELSE v \in Json
  <2>1. CASE Top.json = None
    <3>1. Top.tcl \in TclValue
      BY <1>1, <2>1, TopType
    <3>2. Items(Top) \in Seq(TclValue)
      BY <2>1, <3>1, AsListType DEF Items
    <3>3. Top.index + 1 \in 1..Len(Items(Top))
      BY <1>1, <1>2, <3>2
    <3> QED BY <2>1, <3>2, <3>3, ElementOfSeq
  <2>2. CASE Top.json # None
    <3>1. Top.json \in Json
      BY <1>1, <2>2, TopType
    <3>2. Items(Top) \in Seq(Json)
      BY <2>2, <3>1, ValidateAssumption DEF Items
    <3>3. Top.index + 1 \in 1..Len(Items(Top))
      BY <1>1, <1>2, <3>2
    <3> QED BY <2>2, <3>2, <3>3, ElementOfSeq
  <2> QED BY <2>1, <2>2
<1>5. Top \in Frame /\ Settled(Top)
  BY <1>1, TopType DEF Quiet, Top
<1> HIDE DEF ve, v
<1> QED BY <1>1, <1>3, <1>4, <1>5, CallMoves

\* An array closes its item_outcome if it has one, and ends.
LEMMA LeaveArrayMoves ==
  ASSUME TypeOK, Quiet, LeaveArray
  PROVE  Moves
PROOF
<1> DEFINE v == <<"list", Last(outcomes).list>>
           f == [Top EXCEPT !.stage = "leave", !.item = 0]
<1>1. /\ frames # << >> /\ SetTop(f)
      /\ outcomes' = IF Top.item = 0 THEN outcomes ELSE AddOutcome(Front(outcomes), Top, v)
  BY DEF LeaveArray, At
<1>2. /\ f \in Frame /\ f.item = 0 /\ f.next = Top.next /\ f.out = Top.out /\ f.stage = "leave"
  BY <1>1, TopType DEF Frame, FrameRecord
<1> HIDE DEF f, v
<1>3. Settled(f)
  BY <1>2 DEF Settled
<1>4. CASE Top.item = 0
  BY <1>1, <1>2, <1>3, <1>4, SameSize, KeptMoves
<1>5. CASE Top.item # 0
  <2>1. outcomes \in Seq(ToSet(outcomes)) /\ outcomes # << >>
    BY DEF TypeOK
  <2>2. Front(outcomes) \in Seq(ToSet(outcomes)) /\ Len(Front(outcomes)) = Len(outcomes) - 1
    BY <2>1, FrontOf
  <2>3. Front(outcomes) \in Seq(ToSet(Front(outcomes)))
    BY <2>2, OverItsElements
  <2>4. Sized(Len(outcomes) - 1)
    BY <1>1, <1>5, <2>2, <2>3, AddOutcomeType DEF Sized
  <2>5. Closed(f)
    BY <1>1, <1>2, <1>3, <1>5, <2>4 DEF Closed, Changed
  <2> QED BY <1>2, <2>5 DEF Moves
<1> QED BY <1>4, <1>5

\* The innermost call returns to its caller or to the command.
LEMMA LeaveMoves ==
  ASSUME TypeOK, Quiet, Leave
  PROVE  Moves
PROOF
<1> DEFINE n == Len(frames) - 1
           os == IF Top.ve.type = "json" /\ Top.tcl # None /\ Top.json # None
                   THEN AddOutcome(outcomes, Top, <<"tcl", Top.tcl>>) ELSE outcomes
           f == [frames[n] EXCEPT !.next = 0,
                                  !.index = IF Shape(frames[n]) = "array" THEN @ + 1 ELSE @]
<1>1. frames # << >> /\ Top.stage = "leave" /\ frames \in Seq(Frame) /\ n \in Nat
  <2>1. frames # << >> /\ Top.stage = "leave"
    BY DEF Leave, At
  <2>2. frames \in Seq(Frame)
    BY DEF TypeOK
  <2> QED BY <2>1, <2>2
<1>2. Top.item = 0
  BY <1>1, QuietTop
<1>3. os \in Seq(ToSet(os)) /\ Len(os) = Len(outcomes)
  <2>1. outcomes \in Seq(ToSet(outcomes))
    BY DEF TypeOK
  <2> QED BY <2>1, AddOutcomeType
<1>4. CASE n = 0 /\ frames' = << >> /\ outcomes' = os
  <2>1. Emptied
    BY <1>1, <1>2, <1>3, <1>4 DEF Emptied, Sized
  <2> QED BY <2>1 DEF Moves
<1>5. ASSUME n > 0,
             frames' = [Front(frames) EXCEPT ![n] = f],
             outcomes' = Collect(os, frames[n].item)
      PROVE  Moves
  <2>1. Len(frames) > 1 /\ n \in DOMAIN frames
    BY <1>1, <1>5
  <2>2. frames[n] \in Frame /\ Settled(frames[n])
    BY <1>1, <2>1, ElementOfSeq DEF Quiet
  <2>3. /\ f \in Frame /\ f.next = 0 /\ f.out = frames[n].out /\ f.item = frames[n].item
        /\ Settled(f)
    <3> DEFINE caller == frames[n]
               index == IF Shape(caller) = "array" THEN caller.index + 1 ELSE caller.index
    <3>1. caller \in Frame /\ Settled(caller)
      BY <2>2
    <3>2. f = [caller EXCEPT !.next = 0, !.index = index]
      OBVIOUS
    <3> HIDE DEF caller
    <3>3. caller.index \in Nat \cup {-1}
      BY <3>1 DEF Frame, FrameRecord
    <3>4. index \in Nat \cup {-1} /\ (Shape(caller) = "array" /\ caller.index \in Nat => index \in Nat)
      BY <3>3
    <3> HIDE DEF f, index
    <3>5. /\ f \in Frame /\ f.next = 0 /\ f.out = caller.out /\ f.item = caller.item
          /\ f.stage = caller.stage /\ f.ve = caller.ve /\ f.index = index
          /\ f.flag = caller.flag /\ f.tcl = caller.tcl
      BY <3>1, <3>2, <3>4 DEF Frame, FrameRecord
    <3>6. Shape(f) = Shape(caller)
      BY <3>5 DEF Shape
    <3>7. Settled(f)
      BY <3>1, <3>4, <3>5, <3>6 DEF Settled
    <3> QED BY <3>5, <3>7 DEF caller
  <2> HIDE DEF f, os
  <2>4. Sized(Len(outcomes)) /\ (f.item # 0 /\ f.item \in DOMAIN os => outcomes'[f.item].dict = Empty)
    BY <1>3, <1>5, <2>3, CollectType DEF Sized
  <2>5. DOMAIN os = DOMAIN outcomes
    <3>1. outcomes \in Seq(ToSet(outcomes))
      BY DEF TypeOK
    <3> QED BY <1>3, <3>1
  <2>6. Popped(f)
    BY <1>2, <1>5, <2>1, <2>3, <2>4, <2>5 DEF Popped
  <2> QED BY <2>3, <2>6 DEF Moves
<1> QED BY <1>4, <1>5 DEF Leave

\* Another validation starts with one call and one outcome.
LEMMA AgainMoves ==
  ASSUME TypeOK, Again
  PROVE  Moves
PROOF
<1> DEFINE g == NewFrame(root, "root", input', None, 1)
<1>1. root \in Element /\ input' \in TclValue /\ input' # None
  BY ValidateAssumption DEF TypeOK, Again
<1>2. IsNew(g, 1)
  <2>1. /\ "root" \in {"root", "property", "item"} /\ None \in Json \cup {None}
        /\ input' \in TclValue \cup {None} /\ 1 \in Nat
        /\ input' # None \/ None # None
    BY <1>1
  <2> QED BY <1>1, <2>1, NewFrameType
<1>3. frames' = <<g>> /\ outcomes' = <<NewOutcome>>
  BY DEF Again
<1> HIDE DEF g
<1>4. outcomes' \in Seq(ToSet(outcomes')) /\ Len(outcomes') = 1
  <2>1. <<NewOutcome>> \in Seq({NewOutcome}) /\ Len(<<NewOutcome>>) = 1
    OBVIOUS
  <2> QED BY <1>3, <2>1, OverItsElements
<1>5. Alone'
  BY <1>2, <1>3, <1>4 DEF Alone, IsNew, Settled
<1> QED BY <1>5 DEF Moves

\* So every step is of one of the kinds.
LEMMA StepMoves ==
  ASSUME TypeOK, Quiet, [Next]_vars
  PROVE  Moves
PROOF
<1>1. CASE ParseJson \/ Accept \/ ValidateScalar
  BY <1>1, ParseJsonMoves, AcceptMoves, ValidateScalarMoves
<1>2. CASE EnterObject \/ NextProperty \/ LeaveObject
  BY <1>2, EnterObjectMoves, NextPropertyMoves, LeaveObjectMoves
<1>3. CASE EnterArray \/ NextItem \/ LeaveArray
  BY <1>3, EnterArrayMoves, NextItemMoves, LeaveArrayMoves
<1>4. CASE Leave
  BY <1>4, LeaveMoves
<1>5. CASE Again
  BY <1>5, AgainMoves
<1>6. CASE Reply
  BY <1>6 DEF Reply, Moves, Unmoved
<1>7. CASE UNCHANGED vars
  BY <1>7 DEF vars, Moves, Unmoved
<1> QED BY <1>1, <1>2, <1>3, <1>4, <1>5, <1>6, <1>7 DEF Next, Step

----------------------------------------------------------------------------
(* Every kind of step keeps the invariant.                                 *)

\* The parts of it that speak of the calls and the outcomes.
Shaped ==
  /\ frames \in Seq(Frame)
  /\ outcomes \in Seq(ToSet(outcomes)) /\ outcomes # << >>
Linked == Quiet /\ ChainIsCallStack /\ Nested /\ ItemsStartAfresh

\* A sequence that is not empty has a first element, and conversely.
LEMMA Inhabited ==
  ASSUME NEW S, NEW s \in Seq(S)
  PROVE  s # << >> <=> Len(s) >= 1
OBVIOUS

\* The frames after the innermost one has changed.
LEMMA ChangedFrames ==
  ASSUME Shaped, NEW f \in Frame, Changed(f)
  PROVE  /\ frames' \in Seq(Frame) /\ Len(frames') = Len(frames)
         /\ Len(frames) \in Nat /\ Len(frames) >= 1
         /\ frames'[Len(frames)] = f
         /\ \A k \in 1..(Len(frames) - 1) : frames'[k] = frames[k]
PROOF
<1>1. frames \in Seq(Frame) /\ frames # << >> /\ frames' = [frames EXCEPT ![Len(frames)] = f]
  BY DEF Shaped, Changed, SetTop
<1>2. Len(frames) \in DOMAIN frames /\ Len(frames) \in Nat /\ Len(frames) >= 1
  BY <1>1
<1>3. \A k \in 1..(Len(frames) - 1) : k \in DOMAIN frames /\ k # Len(frames)
  BY <1>1, <1>2
<1> QED BY <1>1, <1>2, <1>3, ChangeOne

\* A change of the innermost call that concerns no outcome keeps the invariant.
LEMMA KeptStep ==
  ASSUME Shaped, Linked, NEW f \in Frame, Kept(f)
  PROVE  Shaped' /\ Linked'
PROOF
<1> DEFINE n == Len(frames)
<1>1. /\ Settled(f) /\ f.next = Top.next /\ f.out = Top.out
      /\ Top.item = 0 /\ f.item = 0 /\ Top = frames[n]
  BY DEF Kept, Changed, Top
<1>2. /\ frames' \in Seq(Frame) /\ Len(frames') = n /\ n \in Nat /\ n >= 1
      /\ frames'[n] = f
      /\ \A k \in 1..(n - 1) : frames'[k] = frames[k]
  BY ChangedFrames DEF Kept
<1>3. frames \in Seq(Frame) /\ DOMAIN frames = 1..n /\ DOMAIN frames' = 1..n
  BY <1>2 DEF Shaped
<1>4. /\ outcomes' \in Seq(ToSet(outcomes')) /\ Len(outcomes') = Len(outcomes)
      /\ outcomes' # << >>
  <2>1. /\ outcomes' \in Seq(ToSet(outcomes')) /\ Len(outcomes') = Len(outcomes)
        /\ outcomes \in Seq(ToSet(outcomes)) /\ outcomes # << >>
    BY DEF Kept, Sized, Shaped
  <2> QED BY <2>1, Inhabited
<1> HIDE DEF n
<1>5. \A k \in 1..n : /\ frames'[k].next = frames[k].next /\ frames'[k].out = frames[k].out
                      /\ frames'[k].item = frames[k].item
  BY <1>1, <1>2
<1>6. Shaped'
  BY <1>2, <1>4 DEF Shaped
<1>7. Quiet'
  BY <1>1, <1>2, <1>3 DEF Linked, Quiet
<1>8. ChainIsCallStack'
  BY <1>2, <1>3, <1>5 DEF Linked, ChainIsCallStack, n
<1>9. Nested'
  <2>1. Within'
    BY <1>3, <1>4, <1>5 DEF Linked, Nested, Within
  <2>2. Ordered'
    BY <1>3, <1>5 DEF Linked, Nested, Ordered
  <2>3. Owned'
    BY <1>3, <1>4, <1>5 DEF Linked, Nested, Owned
  <2>4. Reachable'
    BY <1>2, <1>3, <1>5 DEF Linked, Nested, Reachable
  <2> QED BY <2>1, <2>2, <2>3, <2>4 DEF Nested
<1>10. ItemsStartAfresh'
  <2>1. Top' = f
    BY <1>2 DEF Top, n
  <2> QED BY <1>1, <2>1 DEF ItemsStartAfresh
<1> QED BY <1>6, <1>7, <1>8, <1>9, <1>10 DEF Linked

\* So does an array call that starts to collect: its outcome is the newest.
LEMMA OpenedStep ==
  ASSUME Shaped, Linked, NEW f \in Frame, Opened(f)
  PROVE  Shaped' /\ Linked'
PROOF
<1> DEFINE n == Len(frames)
           m == Len(outcomes) + 1
<1>1. /\ Settled(f) /\ f.next = Top.next /\ f.out = Top.out
      /\ Top.item = 0 /\ f.item = m /\ Top = frames[n] /\ outcomes'[m].dict = Empty
  BY DEF Opened, Changed, Top
<1>2. /\ frames' \in Seq(Frame) /\ Len(frames') = n /\ n \in Nat /\ n >= 1
      /\ frames'[n] = f
      /\ \A k \in 1..(n - 1) : frames'[k] = frames[k]
  BY ChangedFrames DEF Opened
<1>3. frames \in Seq(Frame) /\ DOMAIN frames = 1..n /\ DOMAIN frames' = 1..n
  BY <1>2 DEF Shaped
<1>4. /\ outcomes' \in Seq(ToSet(outcomes')) /\ Len(outcomes') = m /\ m \in Nat /\ m >= 2
      /\ outcomes' # << >> /\ Len(outcomes) = m - 1
  <2>1. /\ outcomes' \in Seq(ToSet(outcomes')) /\ Len(outcomes') = m
        /\ outcomes \in Seq(ToSet(outcomes)) /\ outcomes # << >>
    BY DEF Opened, Sized, Shaped
  <2>2. Len(outcomes) \in Nat /\ Len(outcomes) >= 1
    BY <2>1, Inhabited
  <2> QED BY <2>1, <2>2, Inhabited
<1> HIDE DEF n, m
<1>5. \A k \in 1..n : /\ frames'[k].next = frames[k].next /\ frames'[k].out = frames[k].out
                      /\ frames'[k].item = IF k = n THEN m ELSE frames[k].item
  BY <1>1, <1>2
<1>6. Shaped'
  BY <1>2, <1>4 DEF Shaped
<1>7. Quiet'
  BY <1>1, <1>2, <1>3 DEF Linked, Quiet
<1>8. ChainIsCallStack'
  BY <1>2, <1>3, <1>5 DEF Linked, ChainIsCallStack, n
<1>9. Nested'
  <2>1. Within'
    BY <1>2, <1>3, <1>4, <1>5 DEF Linked, Nested, Within
  <2>2. Ordered'
    <3>1. \A k \in 1..n : frames[k].item < m
      BY <1>3, <1>4 DEF Linked, Nested, Within
    <3> QED BY <1>2, <1>3, <1>5, <3>1 DEF Linked, Nested, Ordered
  <2>3. Owned'
    <3>1. ASSUME NEW l \in 2..m PROVE \E k \in 1..n : frames'[k].item = l
      <4>1. CASE l = m
        BY <1>2, <1>5, <4>1
      <4>2. CASE l # m
        <5>1. l \in 2..Len(outcomes)
          BY <1>4, <4>2
        <5>2. PICK k \in 1..n : frames[k].item = l
          BY <1>3, <5>1 DEF Linked, Nested, Owned
        <5>3. k # n
          BY <1>1, <5>2
        <5> QED BY <1>5, <5>2, <5>3
      <4> QED BY <4>1, <4>2
    <3> QED BY <1>3, <1>4, <3>1 DEF Owned
  <2>4. Reachable'
    BY <1>2, <1>3, <1>5 DEF Linked, Nested, Reachable
  <2> QED BY <2>1, <2>2, <2>3, <2>4 DEF Nested
<1>10. ItemsStartAfresh'
  <2>1. Top' = f
    BY <1>2 DEF Top, n
  <2> QED BY <1>1, <2>1 DEF ItemsStartAfresh
<1> QED BY <1>6, <1>7, <1>8, <1>9, <1>10 DEF Linked

\* The array call that leaves its loop is the one that started to collect last.
LEMMA ClosedStep ==
  ASSUME Shaped, Linked, NEW f \in Frame, Closed(f)
  PROVE  Shaped' /\ Linked'
PROOF
<1> DEFINE n == Len(frames)
           m == Len(outcomes)
<1>1. /\ Settled(f) /\ f.next = Top.next /\ f.out = Top.out
      /\ frames[n].item # 0 /\ f.item = 0 /\ Top = frames[n]
  BY DEF Closed, Changed, Top
<1>2. /\ frames' \in Seq(Frame) /\ Len(frames') = n /\ n \in Nat /\ n >= 1
      /\ frames'[n] = f
      /\ \A k \in 1..(n - 1) : frames'[k] = frames[k]
  BY ChangedFrames DEF Closed
<1>3. frames \in Seq(Frame) /\ DOMAIN frames = 1..n /\ DOMAIN frames' = 1..n
  BY <1>2 DEF Shaped
<1>4. m \in Nat /\ \A k \in 1..n : frames[k].item \in {0} \cup 2..m
  <2>1. m \in Nat
    BY DEF Shaped
  <2> QED BY <1>3, <2>1 DEF Linked, Nested, Within
<1>5. frames[n].item = m
  <2>1. frames[n].item \in 2..m /\ m \in 2..m
    BY <1>1, <1>2, <1>4
  <2>2. PICK k \in 1..n : frames[k].item = m
    BY <1>3, <2>1 DEF Linked, Nested, Owned
  <2>3. ASSUME k # n PROVE FALSE
    <3>1. k < n /\ k \in DOMAIN frames /\ n \in DOMAIN frames
      <4> HIDE DEF n
      <4> QED BY <1>2, <1>3, <2>3
    <3>2. frames[k].item # 0
      BY <1>4, <2>1, <2>2
    <3>3. frames[k].item < frames[n].item
      BY <1>1, <3>1, <3>2 DEF Linked, Nested, Ordered
    <3> QED BY <1>4, <2>1, <2>2, <3>3
  <2> QED BY <2>2, <2>3
<1>6. /\ outcomes' \in Seq(ToSet(outcomes')) /\ Len(outcomes') = m - 1
      /\ m >= 2 /\ outcomes' # << >>
  <2>1. outcomes' \in Seq(ToSet(outcomes')) /\ Len(outcomes') = m - 1
    BY DEF Closed, Sized
  <2>2. m >= 2
    BY <1>1, <1>2, <1>4
  <2> QED BY <1>4, <2>1, <2>2, Inhabited
<1>7. \A k \in 1..(n - 1) : frames[k].item # 0 => frames[k].item < m
  <2>1. ASSUME NEW k \in 1..(n - 1), frames[k].item # 0
        PROVE  frames[k].item < m
    <3>1. k \in DOMAIN frames /\ n \in DOMAIN frames /\ k < n
      BY <1>2, <1>3
    <3> QED BY <1>1, <1>5, <2>1, <3>1 DEF Linked, Nested, Ordered
  <2> QED BY <2>1
<1> HIDE DEF n, m
<1>8. \A k \in 1..n : /\ frames'[k].next = frames[k].next /\ frames'[k].out = frames[k].out
                      /\ frames'[k].item = IF k = n THEN 0 ELSE frames[k].item
  BY <1>1, <1>2
<1>9. Shaped'
  BY <1>2, <1>6 DEF Shaped
<1>10. Quiet'
  BY <1>1, <1>2, <1>3 DEF Linked, Quiet
<1>11. ChainIsCallStack'
  BY <1>2, <1>3, <1>8 DEF Linked, ChainIsCallStack, n
<1>12. Nested'
  <2>1. Within'
    <3>1. \A k \in 1..n : frames'[k].item \in {0} \cup 2..(m - 1)
      BY <1>2, <1>4, <1>7, <1>8
    <3> QED BY <1>3, <1>6, <3>1 DEF Within
  <2>2. Ordered'
    BY <1>3, <1>8 DEF Linked, Nested, Ordered
  <2>3. Owned'
    <3>1. ASSUME NEW l \in 2..(m - 1) PROVE \E k \in 1..n : frames'[k].item = l
      <4>1. l \in 2..m /\ l # m
        BY <1>4
      <4>2. PICK k \in 1..n : frames[k].item = l
        BY <1>3, <4>1 DEF Linked, Nested, Owned, m
      <4>3. k # n
        BY <1>5, <4>1, <4>2
      <4>4. frames'[k].item = l
        BY <1>8, <4>2, <4>3
      <4> QED BY <4>4
    <3> QED BY <1>3, <1>6, <3>1 DEF Owned
  <2>4. Reachable'
    <3>1. \A i \in 1..n : \A k \in 1..(i - 1) : k \in 1..n /\ k # n
      BY <1>2
    <3>2. \A i \in 1..n : frames[i].out \in {0, 1} \/ \E k \in 1..(i - 1) : frames[k].item = frames[i].out
      BY <1>3 DEF Linked, Nested, Reachable
    <3>3. \A i \in 1..n : frames'[i].out \in {0, 1} \/ \E k \in 1..(i - 1) : frames'[k].item = frames'[i].out
      BY <1>8, <3>1, <3>2
    <3> QED BY <1>3, <3>3 DEF Reachable
  <2> QED BY <2>1, <2>2, <2>3, <2>4 DEF Nested
<1>13. ItemsStartAfresh'
  <2>1. Top' = f
    BY <1>2 DEF Top, n
  <2> QED BY <1>1, <2>1 DEF ItemsStartAfresh
<1> QED BY <1>9, <1>10, <1>11, <1>12, <1>13 DEF Linked

\* So does a call: it gets its caller's outcome, or the one its caller collects in.
LEMMA PushedStep ==
  ASSUME Shaped, Linked, NEW f \in Frame, NEW g \in Frame, Pushed(f, g)
  PROVE  Shaped' /\ Linked'
PROOF
<1> DEFINE n == Len(frames)
<1>1. /\ Settled(f) /\ Settled(g) /\ f.next = n + 1 /\ f.out = frames[n].out /\ f.item = frames[n].item
      /\ g.next = 0 /\ g.item = 0 /\ g.out \in {frames[n].out, frames[n].item}
      /\ outcomes' = outcomes /\ frames # << >> /\ frames \in Seq(Frame)
      /\ frames' = Append([frames EXCEPT ![n] = f], g)
  BY DEF Pushed, Top, Shaped
<1>2. /\ frames' \in Seq(Frame) /\ Len(frames') = n + 1 /\ n \in Nat /\ n >= 1
      /\ frames'[n] = f /\ frames'[n + 1] = g
      /\ \A k \in 1..(n - 1) : frames'[k] = frames[k]
  BY <1>1, PushOne
<1>3. DOMAIN frames = 1..n /\ DOMAIN frames' = 1..(n + 1)
  BY <1>1, <1>2
<1> HIDE DEF n
<1>4. \A k \in 1..n : frames'[k].out = frames[k].out /\ frames'[k].item = frames[k].item
  BY <1>1, <1>2
<1>5. \A k \in 1..(n + 1) : k \in 1..n \/ k = n + 1
  BY <1>2
<1>6. Shaped'
  BY <1>1, <1>2 DEF Shaped
<1>7. Quiet'
  BY <1>1, <1>2, <1>3 DEF Linked, Quiet
<1>8. ChainIsCallStack'
  <2>1. \A k \in 1..n : frames[k].next = IF k = n THEN 0 ELSE k + 1
    BY <1>3 DEF Linked, ChainIsCallStack, n
  <2>2. \A k \in 1..(n + 1) : frames'[k].next = IF k = n + 1 THEN 0 ELSE k + 1
    BY <1>1, <1>2, <2>1
  <2> QED BY <1>2, <1>3, <2>2 DEF ChainIsCallStack
<1>9. Nested'
  <2>1. Within'
    BY <1>1, <1>2, <1>3, <1>4, <1>5 DEF Linked, Nested, Within
  <2>2. Ordered'
    BY <1>1, <1>2, <1>3, <1>4, <1>5 DEF Linked, Nested, Ordered
  <2>3. Owned'
    BY <1>1, <1>2, <1>3, <1>4 DEF Linked, Nested, Owned
  <2>4. Reachable'
    <3>1. \A i \in 1..n : frames[i].out \in {0, 1} \/ \E k \in 1..(i - 1) : frames[k].item = frames[i].out
      BY <1>3 DEF Linked, Nested, Reachable
    <3>2. ASSUME NEW i \in 1..n
          PROVE  frames'[i].out \in {0, 1} \/ \E k \in 1..(i - 1) : frames'[k].item = frames'[i].out
      <4>1. \A k \in 1..(i - 1) : k \in 1..n
        BY <1>2
      <4> QED BY <1>4, <3>1, <4>1
    <3>3. g.out \in {0, 1} \/ \E k \in 1..n : frames'[k].item = g.out
      <4>1. CASE g.out = frames[n].item
        BY <1>2, <1>4, <4>1
      <4>2. CASE g.out = frames[n].out
        <5>1. frames[n].out \in {0, 1} \/ \E k \in 1..(n - 1) : frames[k].item = frames[n].out
          BY <1>2, <3>1
        <5>2. \A k \in 1..(n - 1) : k \in 1..n
          BY <1>2
        <5> QED BY <1>4, <4>2, <5>1, <5>2
      <4> QED BY <1>1, <4>1, <4>2
    <3>4. (n + 1) - 1 = n
      BY <1>2
    <3> QED BY <1>2, <1>3, <1>5, <3>2, <3>3, <3>4 DEF Reachable
  <2> QED BY <2>1, <2>2, <2>3, <2>4 DEF Nested
<1>10. ItemsStartAfresh'
  <2>1. Top' = g
    BY <1>2 DEF Top
  <2> QED BY <1>1, <2>1 DEF ItemsStartAfresh
<1> QED BY <1>6, <1>7, <1>8, <1>9, <1>10 DEF Linked

\* So does a return: the call that ends has no outcome of its own.
LEMMA PoppedStep ==
  ASSUME Shaped, Linked, NEW f \in Frame, Popped(f)
  PROVE  Shaped' /\ Linked'
PROOF
<1> DEFINE n == Len(frames) - 1
<1>1. /\ Len(frames) > 1 /\ frames \in Seq(Frame) /\ frames # << >>
      /\ frames' = [Front(frames) EXCEPT ![n] = f]
      /\ Settled(f) /\ f.next = 0 /\ f.out = frames[n].out /\ f.item = frames[n].item
      /\ f.item # 0 /\ f.item \in DOMAIN outcomes => outcomes'[f.item].dict = Empty
      /\ frames[n + 1].item = 0
  <2>1. frames \in Seq(Frame) /\ Len(frames) > 1
    BY DEF Shaped, Popped
  <2>2. frames # << >> /\ n + 1 = Len(frames)
    BY <2>1
  <2> QED BY <2>1, <2>2 DEF Popped, Top
<1>2. n \in Nat /\ n >= 1 /\ Len(frames) = n + 1
  BY <1>1
<1>3. /\ frames' \in Seq(Frame) /\ Len(frames') = n /\ frames'[n] = f
      /\ \A k \in 1..(n - 1) : frames'[k] = frames[k]
  <2>1. /\ Front(frames) \in Seq(Frame) /\ Len(Front(frames)) = n
        /\ \A k \in 1..n : Front(frames)[k] = frames[k]
    BY <1>1, FrontOf
  <2> HIDE DEF n
  <2>2. n \in DOMAIN Front(frames) /\ \A k \in 1..(n - 1) : k \in DOMAIN Front(frames) /\ k # n
    BY <1>2, <2>1
  <2> QED BY <1>1, <1>2, <2>1, <2>2, ChangeOne
<1>4. DOMAIN frames = 1..(n + 1) /\ DOMAIN frames' = 1..n
  <2>1. frames \in Seq(Frame) /\ frames' \in Seq(Frame) /\ Len(frames) = n + 1 /\ Len(frames') = n
    BY <1>1, <1>2, <1>3
  <2> HIDE DEF n
  <2> QED BY <2>1
<1>5. /\ outcomes' \in Seq(ToSet(outcomes')) /\ Len(outcomes') = Len(outcomes)
      /\ outcomes' # << >> /\ DOMAIN outcomes = 1..Len(outcomes)
  <2>1. /\ outcomes' \in Seq(ToSet(outcomes')) /\ Len(outcomes') = Len(outcomes)
        /\ outcomes \in Seq(ToSet(outcomes)) /\ outcomes # << >>
    BY DEF Popped, Sized, Shaped
  <2> QED BY <2>1, Inhabited
<1> HIDE DEF n
<1>6. \A k \in 1..n : frames'[k].out = frames[k].out /\ frames'[k].item = frames[k].item
  BY <1>1, <1>2, <1>3
<1>7. \A k \in 1..n : k \in 1..(n + 1)
  BY <1>2
<1>8. Shaped'
  BY <1>3, <1>5 DEF Shaped
<1>9. Quiet'
  BY <1>1, <1>2, <1>3, <1>4 DEF Linked, Quiet
<1>10. ChainIsCallStack'
  BY <1>1, <1>2, <1>3, <1>4 DEF Linked, ChainIsCallStack
<1>11. Nested'
  <2>1. Within'
    BY <1>4, <1>5, <1>6, <1>7 DEF Linked, Nested, Within
  <2>2. Ordered'
    BY <1>4, <1>6, <1>7 DEF Linked, Nested, Ordered
  <2>3. Owned'
    <3>1. ASSUME NEW l \in 2..Len(outcomes) PROVE \E k \in 1..n : frames'[k].item = l
      <4>1. PICK k \in 1..(n + 1) : frames[k].item = l
        BY <1>4 DEF Linked, Nested, Owned
      <4>2. k # n + 1
        BY <1>1, <4>1
      <4> QED BY <1>2, <1>6, <4>1, <4>2
    <3> QED BY <1>4, <1>5, <3>1 DEF Owned
  <2>4. Reachable'
    <3>1. \A i \in 1..n : frames[i].out \in {0, 1} \/ \E k \in 1..(i - 1) : frames[k].item = frames[i].out
      BY <1>4, <1>7 DEF Linked, Nested, Reachable
    <3>2. \A i \in 1..n : \A k \in 1..(i - 1) : k \in 1..n
      BY <1>2
    <3>3. \A i \in 1..n : frames'[i].out \in {0, 1} \/ \E k \in 1..(i - 1) : frames'[k].item = frames'[i].out
      BY <1>6, <3>1, <3>2
    <3> QED BY <1>4, <3>3 DEF Reachable
  <2> QED BY <2>1, <2>2, <2>3, <2>4 DEF Nested
<1>12. ItemsStartAfresh'
  <2>1. Top' = f
    BY <1>3 DEF Top
  <2>2. f.item # 0 => f.item \in DOMAIN outcomes
    BY <1>1, <1>2, <1>4, <1>5 DEF Linked, Nested, Within
  <2> QED BY <1>1, <2>1, <2>2 DEF ItemsStartAfresh
<1> QED BY <1>8, <1>9, <1>10, <1>11, <1>12 DEF Linked

\* So does the end of the validation: only the command's outcome is left.
LEMMA EmptiedStep ==
  ASSUME Shaped, Linked, Emptied
  PROVE  Shaped' /\ Linked'
PROOF
<1>1. frames' = << >> /\ Len(frames) = 1 /\ frames[1].item = 0
  BY DEF Emptied, Top
<1>2. frames \in Seq(Frame) /\ outcomes \in Seq(ToSet(outcomes)) /\ outcomes # << >>
  BY DEF Shaped
<1>3. outcomes' \in Seq(ToSet(outcomes')) /\ Len(outcomes') = Len(outcomes)
  BY DEF Emptied, Sized
<1>4. Len(outcomes) = 1
  <2>1. Len(outcomes) \in Nat /\ Len(outcomes) >= 1 /\ DOMAIN frames = {1}
    BY <1>1, <1>2, Inhabited
  <2>2. 2 \notin 2..Len(outcomes)
    BY <1>1, <2>1 DEF Linked, Nested, Owned
  <2> QED BY <2>1, <2>2
<1>5. Shaped'
  BY <1>1, <1>2, <1>3, Inhabited DEF Shaped
<1>6. DOMAIN frames' = {} /\ 2..Len(outcomes') = {}
  BY <1>1, <1>3, <1>4
<1>7. Nested'
  BY <1>6 DEF Nested, Within, Ordered, Owned, Reachable
<1> QED BY <1>1, <1>5, <1>6, <1>7 DEF Linked, Quiet, ChainIsCallStack, ItemsStartAfresh

\* One call on its own satisfies the invariant.
LEMMA AloneLinked == Alone => Shaped /\ Linked
PROOF
<1> SUFFICES ASSUME Alone PROVE Shaped /\ Linked
  OBVIOUS
<1>1. PICK g \in Frame :
        frames = <<g>> /\ Settled(g) /\ g.next = 0 /\ g.item = 0 /\ g.out = 1
  BY DEF Alone
<1>2. outcomes \in Seq(ToSet(outcomes)) /\ Len(outcomes) = 1 /\ outcomes # << >>
  <2>1. outcomes \in Seq(ToSet(outcomes)) /\ Len(outcomes) = 1
    BY DEF Alone
  <2> QED BY <2>1, Inhabited
<1>3. DOMAIN frames = {1} /\ frames[1] = g /\ Len(frames) = 1 /\ frames \in Seq(Frame)
  BY <1>1
<1>4. Quiet /\ ChainIsCallStack
  BY <1>1, <1>3 DEF Quiet, ChainIsCallStack
<1>5. Nested
  BY <1>1, <1>2, <1>3 DEF Nested, Within, Ordered, Owned, Reachable
<1>6. ItemsStartAfresh
  BY <1>1, <1>3 DEF ItemsStartAfresh, Top
<1> QED BY <1>2, <1>3, <1>4, <1>5, <1>6 DEF Shaped, Linked

\* So every kind of step keeps it.
LEMMA MovesKeep ==
  ASSUME Shaped, Linked, Moves
  PROVE  Shaped' /\ Linked'
PROOF
<1>1. ASSUME NEW f \in Frame, Kept(f) \/ Opened(f) \/ Closed(f) \/ Popped(f)
      PROVE  Shaped' /\ Linked'
  BY <1>1, KeptStep, OpenedStep, ClosedStep, PoppedStep
<1>2. CASE Alone'
  <2>1. (Alone => Shaped /\ Linked)'
    BY AloneLinked, PTL
  <2> QED BY <1>2, <2>1
<1>3. ASSUME NEW f \in Frame, NEW g \in Frame, Pushed(f, g) PROVE Shaped' /\ Linked'
  BY <1>3, PushedStep
<1>4. CASE Emptied
  BY <1>4, EmptiedStep
<1>5. CASE Unmoved
  BY <1>5 DEF Unmoved, Shaped, Linked, Quiet, ChainIsCallStack, Nested, Within, Ordered, Owned,
              Reachable, ItemsStartAfresh, Top
<1> QED BY <1>1, <1>2, <1>3, <1>4, <1>5 DEF Moves

\* The invariant holds at first.
LEMMA InitInv == Init => IInv
PROOF
<1> SUFFICES ASSUME Init PROVE IInv
  OBVIOUS
<1> DEFINE g == NewFrame(root, "root", input, None, 1)
<1>1. /\ root \in Root /\ input \in Input
      /\ root \in Element /\ input \in TclValue /\ input # None
  BY ValidateAssumption DEF Init
<1>2. /\ "root" \in {"root", "property", "item"} /\ None \in Json \cup {None}
      /\ input \in TclValue \cup {None} /\ 1 \in Nat
      /\ input # None \/ None # None
  BY <1>1
<1>3. IsNew(g, 1)
  BY <1>1, <1>2, NewFrameType
<1>4. frames = <<g>> /\ outcomes = <<NewOutcome>>
  BY DEF Init
<1> HIDE DEF g
<1>5. outcomes \in Seq(ToSet(outcomes)) /\ Len(outcomes) = 1
  <2>1. <<NewOutcome>> \in Seq({NewOutcome}) /\ Len(<<NewOutcome>>) = 1
    OBVIOUS
  <2> QED BY <1>4, <2>1, OverItsElements
<1>6. Alone
  BY <1>3, <1>4, <1>5 DEF Alone, IsNew, Settled
<1>7. Shaped /\ Linked
  BY <1>6, AloneLinked
<1> QED BY <1>1, <1>7 DEF IInv, TypeOK, Shaped, Linked

\* Every step keeps it.
LEMMA NextInv == IInv /\ [Next]_vars => IInv'
PROOF
<1> SUFFICES ASSUME IInv, [Next]_vars PROVE IInv'
  OBVIOUS
<1>1. TypeOK /\ Shaped /\ Linked /\ Quiet
  BY DEF IInv, TypeOK, Shaped, Linked
<1>2. Shaped' /\ Linked'
  BY <1>1, StepMoves, MovesKeep
<1>3. root' \in Root /\ input' \in Input
  <2>1. root \in Root /\ input \in Input
    BY <1>1 DEF TypeOK
  <2>2. root' = root /\ (input' = input \/ input' \in Input)
    BY DEF Next, Step, vars, ParseJson, Accept, ValidateScalar, EnterObject, NextProperty,
           LeaveObject, EnterArray, NextItem, LeaveArray, Leave, Reply, Again
  <2> QED BY <2>1, <2>2
<1> QED BY <1>2, <1>3 DEF IInv, TypeOK, Shaped, Linked

\* It always holds.
LEMMA Inductive == Spec => []IInv
BY InitInv, NextInv, PTL DEF Spec

----------------------------------------------------------------------------
(* The theorems.                                                           *)

\* The state always has the shape the code gives it.
THEOREM ValidateTypeCorrect == Spec => []TypeOK
PROOF
<1>1. IInv => TypeOK
  BY DEF IInv
<1> QED BY <1>1, Inductive, PTL

\* The `next` pointers of the stack frames are the call stack: an error path
\* goes from the root to the value at fault and through no call that is over.
THEOREM PathsFollowCalls == Spec => []ChainIsCallStack
PROOF
<1>1. IInv => ChainIsCallStack
  BY DEF IInv
<1> QED BY <1>1, Inductive, PTL

\* A value is never stored through the pointer to an outcome that is gone.
THEOREM OutcomesOutlivePointers == Spec => []OutcomePointersAreLive
PROOF
<1>1. ASSUME IInv PROVE OutcomePointersAreLive
  <2>1. frames \in Seq(Frame) /\ outcomes \in Seq(ToSet(outcomes)) /\ outcomes # << >>
    BY <1>1 DEF IInv, TypeOK
  <2>2. Len(outcomes) \in Nat /\ Len(outcomes) >= 1
    BY <2>1, Inhabited
  <2>3. SUFFICES ASSUME NEW i \in DOMAIN frames
        PROVE  /\ frames[i].out <= Len(outcomes)
               /\ frames[i].out > 1 => \E k \in 1..(i - 1) : frames[k].item = frames[i].out
    BY DEF OutcomePointersAreLive
  <2>4. CASE frames[i].out \in {0, 1}
    BY <2>2, <2>4
  <2>5. CASE \E k \in 1..(i - 1) : frames[k].item = frames[i].out
    <3>1. PICK k \in 1..(i - 1) : frames[k].item = frames[i].out
      BY <2>5
    <3>2. k \in DOMAIN frames
      BY <2>1, <3>1
    <3>3. frames[k].item \in {0} \cup 2..Len(outcomes)
      BY <1>1, <3>2 DEF IInv, Nested, Within
    <3> QED BY <2>2, <3>1, <3>3
  <2> QED BY <1>1, <2>4, <2>5 DEF IInv, Nested, Reachable
<1> QED BY <1>1, Inductive, PTL

\* No item of an array inherits what the items before it have stored.
THEOREM ItemsAreApart == Spec => []ItemsStartAfresh
PROOF
<1>1. IInv => ItemsStartAfresh
  BY DEF IInv
<1> QED BY <1>1, Inductive, PTL

=============================================================================
