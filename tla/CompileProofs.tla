--------------------------- MODULE CompileProofs ---------------------------
(***************************************************************************)
(* What Compile promises about memory, for every set of schemas, script    *)
(* objects and addresses.                                                  *)
(***************************************************************************)
EXTENDS Compile, SeqLemmas

----------------------------------------------------------------------------
(* The inductive invariant.                                                *)

\* The script holds its own objects only, never one that tjv made.
ScriptHoldsItsOwn == \A o \in Object : Script \in refs[o] => o \in Obj

\* While nothing has failed, each call has its element, of its node, which no
\* other call has; the innermost may not have allocated it yet.
FramesInv ==
  ~failed =>
    \A i \in 1..Len(stack) :
      LET r == stack[i].rc IN
      /\ i < Len(stack) => r # None
      /\ r # None =>
           /\ elem[r] # None
           /\ elem[r].node = stack[i].node
           /\ elem[r].flag # "skip"
           /\ schema[stack[i].node].form = "properties" /\ schema[stack[i].node].fault = "none"
                => ReleasedAs(elem[r]) = "object"
           /\ \A j \in 1..Len(stack) : stack[j].rc = r => j = i

\* What an element was declared as shows in its flag.
FlagsInv ==
  \A a \in Addr : elem[a] # None /\ elem[a].flag = "object" => schema[elem[a].node].form = "properties"

\* Who holds a reference: of an element only that it is allocated is said here,
\* not that somebody will free it.
HasOwner(o, h) ==
  \/ h \in {Script, Thread}
  \/ h[2] \in Fields /\ elem[h[1]] # None /\ elem[h[1]][h[2]] = o
  \/ /\ h[2] = "listed"
     /\ \/ h[1] \in lost
        \/ /\ elem[h[1]] # None
           /\ \/ ReleasedAs(elem[h[1]]) = "object"
              \/ /\ elem[h[1]].type = "json" /\ elem[h[1]].flag = "skip"
                 /\ schema[elem[h[1]].node].form # "none"
  \/ /\ h[2] = "format"
     /\ \E i \in 1..Len(stack) :
          i < Len(stack) /\ stack[i].rc = h[1] /\ schema[stack[i].node].form = "items"

OwnersInv == \A o \in Object : \A h \in refs[o] : HasOwner(o, h)

\* The patterns whose compiled form is kept are tjv's own objects.
PatternsOwn == \A a \in Addr : Cacheable(a) => elem[a].pattern \notin Obj

IInv ==
  /\ TypeOK /\ schema \in Schemas /\ ScriptHoldsItsOwn /\ FramesInv /\ FlagsInv /\ OwnersInv
  /\ NoDanglingReference /\ PatternsOwn /\ PatternCachesIntact

----------------------------------------------------------------------------
(* Types.                                                                  *)

\* The call under way and the one that waits for it.
LEMMA Calls ==
  ASSUME TypeOK, stack # << >>
  PROVE  /\ Len(stack) \in Nat \ {0} /\ Len(stack) \in DOMAIN stack
         /\ Top \in Frame /\ Written \in SchemaNode
         /\ Nested => Len(stack) - 1 \in DOMAIN stack /\ Caller \in Frame
                        /\ schema[Caller.node] \in SchemaNode
PROOF
<1>1. Len(stack) \in Nat \ {0} /\ DOMAIN stack = 1..Len(stack)
  BY DEF TypeOK
<1>2. Len(stack) \in DOMAIN stack /\ (Nested => Len(stack) - 1 \in DOMAIN stack)
  BY <1>1 DEF Nested
<1>3. ASSUME NEW i \in DOMAIN stack PROVE stack[i] \in Frame /\ stack[i].node \in Node
  <2>1. stack[i] \in Frame
    BY DEF TypeOK
  <2> QED BY <2>1 DEF Frame
<1>4. schema \in [Node -> SchemaNode]
  BY CompileAssumption DEF TypeOK
<1> QED BY <1>1, <1>2, <1>3, <1>4 DEF Top, Caller, Written

\* Objects and holders.
LEMMA Members ==
  /\ Obj \subseteq Object /\ Cached \in Object
  /\ \A a \in Addr : Stub(a) \in Object /\ Copy(a) \in Object /\ Temporary(a) \in Holder
  /\ \A a \in Addr, f \in Fields : <<a, f>> \in Holder
  /\ \A a \in Addr, i \in Nat \ {0} : Slot(a, i) \in Holder
  /\ Script \in Holder /\ Thread \in Holder
BY DEF Object, Holder, Temporary, Slot

\* The references of objects stay references.
LEMMA BouncedType ==
  ASSUME NEW r \in [Object -> SUBSET Holder]
  PROVE  /\ Bounced(r) \in [Object -> SUBSET Holder]
         /\ \A o \in Object : Bounced(r)[o] \subseteq r[o]
BY DEF Bounced

LEMMA ReleaseType ==
  ASSUME NEW r \in [Object -> SUBSET Holder], NEW as
  PROVE  /\ Release(as, r) \in [Object -> SUBSET Holder]
         /\ \A o \in Object : Release(as, r)[o] = {h \in r[o] : ~Drops(as, h)}
BY DEF Release

\* The frames that are left when a call returns.
LEMMA FrontType ==
  ASSUME TypeOK, stack # << >>
  PROVE  /\ Front(stack) \in Seq(Frame) /\ Len(Front(stack)) = Len(stack) - 1
         /\ \A k \in 1..(Len(stack) - 1) : Front(stack)[k] = stack[k]
         /\ Nested <=> Front(stack) # << >>
PROOF
<1>1. stack \in Seq(Frame) /\ Len(stack) \in Nat /\ Len(stack) # 0
  BY DEF TypeOK
<1>2. /\ Front(stack) \in Seq(Frame) /\ Len(Front(stack)) = Len(stack) - 1
      /\ \A k \in 1..(Len(stack) - 1) : Front(stack)[k] = stack[k]
  BY <1>1, FrontOf
<1>3. Front(stack) # << >> <=> Len(Front(stack)) # 0
  BY <1>2
<1> QED BY <1>1, <1>2, <1>3 DEF Nested

\* The element that a call builds.
LEMMA NewElementType ==
  ASSUME TypeOK, stack # << >>, FramesInv, ~failed, NEW a \in Addr
  PROVE  /\ NewElement(a) \in Element
         /\ \A f \in Fields : NewElement(a)[f] \in Object \cup {None}
PROOF
<1>1. Key \in Object \cup {None}
  <2>1. CASE Nested
    <3>1. Caller.rc \in Addr
      BY <2>1, Calls DEF FramesInv, Caller, Frame
    <3> QED BY <3>1, Calls, Members DEF Key, SchemaNode
  <2> QED BY <2>1 DEF Key
<1>2. Pattern(a) \in Object \cup {None}
  BY Calls, Members DEF Pattern, SchemaNode
<1>3. Written.outkey \in Object \cup {None} /\ Written.type \in NodeType /\ Top.node \in Node
  BY Calls, Members DEF SchemaNode, Frame
<1>4. Flag(Written) \in {"none", "object", "array", "skip"}
  BY DEF Flag
<1> QED BY <1>1, <1>2, <1>3, <1>4 DEF NewElement, Element, Fields

\* What a call that returns NULL leaves.
LEMMA ReturnNullType ==
  ASSUME TypeOK, phase = "compiling", NEW r \in [Object -> SUBSET Holder], ReturnNull(r)
  PROVE  /\ schema' = schema /\ failed' = TRUE /\ root' = root
         /\ stack' \in Seq(Frame) /\ Len(stack') = Len(stack) - 1
         /\ \A k \in 1..(Len(stack) - 1) : stack'[k] = stack[k]
         /\ phase' \in {"compiling", "over"} /\ (phase' = "compiling") = (stack' # << >>)
         /\ refs' \in [Object -> SUBSET Holder]
         /\ \A o \in Object : refs'[o] \subseteq r[o]
         /\ report' \in Seq(Obj \cup {None})
PROOF
<1>1. stack # << >>
  BY DEF TypeOK
<1>2. schema' = schema /\ failed' = TRUE /\ root' = root
  BY DEF ReturnNull
<1>3. /\ stack' \in Seq(Frame) /\ Len(stack') = Len(stack) - 1
      /\ \A k \in 1..(Len(stack) - 1) : stack'[k] = stack[k]
      /\ Nested <=> stack' # << >>
  BY <1>1, FrontType DEF ReturnNull
<1>4. phase' \in {"compiling", "over"} /\ (phase' = "compiling") = (stack' # << >>)
  BY <1>3 DEF ReturnNull, AfterNull
<1>5. refs' \in [Object -> SUBSET Holder] /\ \A o \in Object : refs'[o] \subseteq r[o]
  BY BouncedType DEF ReturnNull
<1>6. report' \in Seq(Obj \cup {None})
  <2>1. Written.key \in Obj \cup {None}
    BY <1>1, Calls DEF SchemaNode
  <2>2. report \in Seq(Obj \cup {None}) /\ <<Written.key>> \in Seq(Obj \cup {None})
    BY <2>1 DEF TypeOK
  <2>3. <<Written.key>> \o report \in Seq(Obj \cup {None})
    BY <2>2, ConcatProperties
  <2> QED BY <2>2, <2>3 DEF ReturnNull, Report
<1> QED BY <1>2, <1>3, <1>4, <1>5, <1>6

\* What freeing elements leaves.
LEMMA FreeType ==
  ASSUME TypeOK, NEW as, Free(as)
  PROVE  /\ elem' \in [Addr -> Element \cup {None}]
         /\ \A a \in Addr : elem'[a] # None => a \notin as /\ elem'[a] = elem[a]
         /\ \A a \in Addr : a \notin as => elem'[a] = elem[a]
         /\ intact' \subseteq Addr \X Fields /\ intact' = intact \ (as \X Fields)
         /\ (as \subseteq Addr => lost' \subseteq Addr) /\ lost \subseteq lost'
BY DEF Free, TypeOK

\* Freed elements have an address.
LEMMA FreedType == \A a : Freed(a) \subseteq Addr
BY DEF Freed

\* The element is at address a.
Made(a, words, late) ==
  LET e == NewElement(a) IN
  /\ elem[a] = None /\ elem' = [elem EXCEPT ![a] = e]
  /\ e \in Element
  /\ \A f \in Fields : e[f] \in Object \cup {None}
  /\ stack' \in Seq(Frame) /\ Len(stack') = Len(stack)
  /\ stack'[Len(stack)] = [stack[Len(stack)] EXCEPT !.rc = a]
  /\ \A k \in 1..Len(stack) : k # Len(stack) => stack'[k] = stack[k]
  /\ refs' \in [Object -> SUBSET Holder]
  /\ \A o \in Object : refs[o] \subseteq refs'[o]
  /\ \A o \in Object : \A h \in refs'[o] :
       h \in refs[o] \/ h = Thread \/ \E f \in Fields : h = <<a, f>> /\ e[f] = o
  /\ \A f \in Fields : e[f] # None => <<a, f>> \in refs'[e[f]]
  /\ intact' = (intact \ Stale(words)) \cup Caches(a, e, late)

\* Building an element.
LEMMA CreateStep ==
  ASSUME TypeOK, FramesInv, Create
  PROVE  /\ phase = "compiling" /\ ~failed /\ stack # << >> /\ Top.rc = None
         /\ UNCHANGED <<schema, phase, report, root, lost>> /\ failed' \in BOOLEAN
         /\ \E a \in Addr, words \in SUBSET Obj, late \in SUBSET Obj : Made(a, words, late)
PROOF
<1>1. /\ phase = "compiling" /\ ~failed /\ stack # << >> /\ Top.rc = None
      /\ UNCHANGED <<schema, phase, report, root, lost>> /\ failed' \in BOOLEAN
  BY DEF Create, Compiling, TypeOK
<1>2. PICK a \in Addr, late \in SUBSET Written.after :
        LET e == NewElement(a)
        IN /\ elem[a] = None
           /\ elem' = [elem EXCEPT ![a] = e]
           /\ stack' = [stack EXCEPT ![Len(stack)].rc = a]
           /\ refs' = [o \in Object |-> refs[o] \cup {h \in Taken(a, e) : e[h[2]] = o}
                                          \cup {h \in {Thread} : o = Cached /\ e.pattern = Cached}]
           /\ intact' = (intact \ Stale(Written.before \cup late)) \cup Caches(a, e, late)
  BY DEF Create
<1> DEFINE e == NewElement(a)
           words == Written.before \cup late
<1>3. late \in SUBSET Obj /\ words \in SUBSET Obj
  BY <1>1, Calls DEF SchemaNode
<1>4. e \in Element /\ \A f \in Fields : e[f] \in Object \cup {None}
  BY <1>1, NewElementType
<1>5. /\ stack' \in Seq(Frame) /\ Len(stack') = Len(stack)
      /\ stack'[Len(stack)] = [stack[Len(stack)] EXCEPT !.rc = a]
      /\ \A k \in 1..Len(stack) : k # Len(stack) => stack'[k] = stack[k]
  <2>1. stack \in Seq(Frame) /\ Len(stack) \in DOMAIN stack /\ Top \in Frame
    BY <1>1, Calls DEF TypeOK
  <2>2. [stack[Len(stack)] EXCEPT !.rc = a] \in Frame
    BY <2>1 DEF Frame, Top
  <2>3. stack' = [stack EXCEPT ![Len(stack)] = [stack[Len(stack)] EXCEPT !.rc = a]]
    BY <1>2
  <2>4. DOMAIN stack = 1..Len(stack)
    BY <2>1
  <2> QED BY <2>1, <2>2, <2>3, <2>4, ChangeOne
<1>6. \A o \in Object : refs'[o] = refs[o] \cup {h \in Taken(a, e) : e[h[2]] = o}
                            \cup {h \in {Thread} : o = Cached /\ e.pattern = Cached}
  BY <1>2
<1>7. \A f \in Fields : <<a, f>> \in Holder /\ <<a, f>>[2] = f
  BY Members
<1>8. \A h \in Taken(a, e) : \E f \in Fields : h = <<a, f>> /\ e[f] # None
  BY DEF Taken
<1>9. refs' \in [Object -> SUBSET Holder]
  <2> HIDE DEF e
  <2>1. \A o \in Object : refs[o] \subseteq Holder
    BY DEF TypeOK
  <2>2. \A o \in Object : refs'[o] \subseteq Holder
    BY <1>6, <1>7, <1>8, <2>1, Members
  <2>3. refs' = [o \in Object |-> refs'[o]]
    BY <1>2, <1>6
  <2> QED BY <2>2, <2>3
<1>10. \A o \in Object : \A h \in refs'[o] :
         h \in refs[o] \/ h = Thread \/ \E f \in Fields : h = <<a, f>> /\ e[f] = o
  <2> HIDE DEF e
  <2> QED BY <1>6, <1>7, <1>8
<1>11. \A f \in Fields : e[f] # None => <<a, f>> \in refs'[e[f]]
  <2> HIDE DEF e
  <2>1. SUFFICES ASSUME NEW f \in Fields, e[f] # None PROVE <<a, f>> \in refs'[e[f]]
    OBVIOUS
  <2>2. <<a, f>> \in Taken(a, e) /\ e[f] \in Object
    BY <1>4, <2>1 DEF Taken
  <2> QED BY <1>6, <1>7, <2>2
<1>12. \A o \in Object : refs[o] \subseteq refs'[o]
  BY <1>6
<1> HIDE DEF e, words
<1>13. elem' = [elem EXCEPT ![a] = e] /\ elem[a] = None
  BY <1>2 DEF e
<1>14. intact' = (intact \ Stale(words)) \cup Caches(a, e, late)
  BY <1>2 DEF e, words
<1>15. Made(a, words, late)
  BY <1>4, <1>5, <1>9, <1>10, <1>11, <1>12, <1>13, <1>14 DEF e, Made
<1> QED BY <1>1, <1>3, <1>15

\* What stays of an element when another is stored in it or it is marked.
Same(a) ==
  /\ elem'[a] = None <=> elem[a] = None
  /\ elem[a] # None =>
       /\ elem'[a].node = elem[a].node /\ elem'[a].type = elem[a].type
       /\ \A f \in Fields : elem'[a][f] = elem[a][f]
       /\ elem'[a].flag = elem[a].flag
            \/ /\ a = Top.rc /\ Nested /\ schema[Caller.node].form = "items"
               /\ elem'[a].flag = "skip"

\* Returning an element.
LEMMA ReturnStep ==
  ASSUME TypeOK, FramesInv, Return
  PROVE  /\ phase = "compiling" /\ ~failed /\ stack # << >> /\ Top.rc \in Addr
         /\ UNCHANGED <<schema, failed, report, intact, lost>>
         /\ phase' \in {"compiling", "compiled"} /\ (phase' = "compiling") = (stack' # << >>)
         /\ root' \in Addr \cup {None}
         /\ stack' \in Seq(Frame) /\ Len(stack') = Len(stack) - 1
         /\ \A k \in 1..(Len(stack) - 1) :
              stack'[k].rc = stack[k].rc /\ stack'[k].node = stack[k].node
         /\ elem' \in [Addr -> Element \cup {None}] /\ \A a \in Addr : Same(a)
         /\ refs' = Bounced(refs)
PROOF
<1>1. /\ phase = "compiling" /\ ~failed /\ stack # << >> /\ Top.rc # None
      /\ UNCHANGED <<schema, failed, report, intact, lost>>
      /\ refs' = Bounced(refs)
  BY DEF Return, Descending, Compiling, TypeOK
<1>2. Top \in Frame /\ Top.rc \in Addr /\ Len(stack) \in Nat \ {0} /\ stack \in Seq(Frame)
  <2>1. Top \in Frame /\ Len(stack) \in Nat \ {0}
    BY <1>1, Calls
  <2> QED BY <1>1, <2>1 DEF Frame, TypeOK
<1>3. elem \in [Addr -> Element \cup {None}]
  BY DEF TypeOK
<1>4. CASE ~Nested
  <2>1. /\ phase' = "compiled" /\ root' = Top.rc /\ elem' = elem /\ stack' = << >>
    BY <1>4 DEF Return
  <2>2. Len(stack) = 1
    <3>1. Len(stack) \in Nat /\ Len(stack) # 0 /\ ~(Len(stack) > 1)
      BY <1>2, <1>4 DEF Nested
    <3> QED BY <3>1
  <2>3. \A a \in Addr : Same(a)
    BY <2>1 DEF Same
  <2> QED BY <1>1, <1>2, <1>3, <2>1, <2>2, <2>3
<1>5. CASE Nested
  <2>1. /\ Caller \in Frame /\ Len(stack) - 1 \in DOMAIN stack /\ Len(stack) > 1
        /\ Caller = stack[Len(stack) - 1]
    BY <1>1, <1>5, Calls DEF Nested, Caller
  <2>2. Caller.rc \in Addr /\ elem[Caller.rc] # None /\ elem[Top.rc] # None /\ Caller.rc # Top.rc
    <3>1. Len(stack) - 1 \in 1..Len(stack) /\ Len(stack) \in 1..Len(stack)
      BY <1>2, <2>1
    <3>2. Caller.rc # None
      BY <1>1, <2>1, <3>1 DEF FramesInv
    <3> QED BY <1>1, <1>2, <2>1, <3>1, <3>2 DEF FramesInv, Frame, Top
  <2>3. phase' = phase /\ root' = root
    BY <1>5 DEF Return
  <2>4. /\ Front(stack) \in Seq(Frame) /\ Len(Front(stack)) = Len(stack) - 1
        /\ \A k \in 1..(Len(stack) - 1) : Front(stack)[k] = stack[k]
    BY <1>1, FrontType
  <2>5. /\ stack' \in Seq(Frame) /\ Len(stack') = Len(stack) - 1
        /\ \A k \in 1..(Len(stack) - 1) :
             stack'[k].rc = stack[k].rc /\ stack'[k].node = stack[k].node
    <3> DEFINE t == Front(stack)
               i == Len(stack) - 1
    <3>1. stack' = [t EXCEPT ![i] = [t[i] EXCEPT !.next = t[i].next + 1]]
      BY <1>5 DEF Return, Advanced
    <3>2. i \in DOMAIN t /\ t[i] = Caller /\ DOMAIN t = 1..(Len(stack) - 1)
      BY <1>2, <2>1, <2>4
    <3>3. [t[i] EXCEPT !.next = t[i].next + 1] \in Frame
      BY <2>1, <3>2 DEF Frame
    <3> HIDE DEF t, i
    <3>4. /\ stack' \in Seq(Frame) /\ Len(stack') = Len(t)
          /\ stack'[i] = [t[i] EXCEPT !.next = t[i].next + 1]
          /\ \A k \in DOMAIN t : k # i => stack'[k] = t[k]
      BY <2>4, <3>1, <3>2, <3>3, ChangeOne DEF t
    <3>5. stack'[i].rc = t[i].rc /\ stack'[i].node = t[i].node
      BY <2>1, <3>2, <3>4 DEF Frame
    <3> QED BY <2>4, <3>2, <3>4, <3>5 DEF t, i
  <2>6. stack' # << >>
    BY <2>1, <2>5, <1>2
  <2>7. elem' = [a \in Addr |->
               CASE a = Caller.rc -> [elem[a] EXCEPT !.kids = @ \cup {Top.rc}]
                 [] a = Top.rc /\ schema[Caller.node].form = "items" /\ elem[a].type # "array" ->
                      [elem[a] EXCEPT !.flag = "skip"]
                 [] OTHER -> elem[a]]
    BY <1>5 DEF Return
  <2>8. ASSUME NEW a \in Addr PROVE elem'[a] \in Element \cup {None} /\ Same(a)
    <3>1. CASE a = Caller.rc
      <4>1. elem'[a] = [elem[a] EXCEPT !.kids = elem[a].kids \cup {Top.rc}] /\ elem[a] \in Element
        BY <1>3, <2>2, <2>7, <3>1
      <4>2. elem'[a] \in Element
        BY <1>2, <4>1 DEF Element
      <4>3. elem'[a] # None /\ elem[a] # None
        BY <2>2, <3>1, <4>2, CompileAssumption
      <4> QED BY <4>1, <4>2, <4>3 DEF Element, Same, Fields
    <3>2. CASE a = Top.rc /\ schema[Caller.node].form = "items" /\ elem[a].type # "array"
      <4>1. elem'[a] = [elem[a] EXCEPT !.flag = "skip"] /\ elem[a] \in Element
        BY <1>3, <2>2, <2>7, <3>2
      <4>2. elem'[a] \in Element
        BY <4>1 DEF Element
      <4>3. elem'[a] # None /\ elem[a] # None
        BY <2>2, <3>2, <4>2, CompileAssumption
      <4> QED BY <1>5, <3>2, <4>1, <4>2, <4>3 DEF Element, Same, Fields
    <3>3. CASE a # Caller.rc /\ ~(a = Top.rc /\ schema[Caller.node].form = "items" /\ elem[a].type # "array")
      <4>1. elem'[a] = elem[a]
        BY <2>7, <3>3
      <4> QED BY <1>3, <4>1 DEF Same
    <3> QED BY <3>1, <3>2, <3>3
  <2>9. elem' \in [Addr -> Element \cup {None}]
    BY <2>7, <2>8
  <2>10. root' \in Addr \cup {None}
    BY <2>3 DEF TypeOK
  <2> QED BY <1>1, <1>2, <2>3, <2>5, <2>6, <2>8, <2>9, <2>10
<1> QED BY <1>4, <1>5

\* Calling the compiler for a nested format.
LEMMA CallStep ==
  ASSUME TypeOK, stack # << >>, NEW n \in Node, Call(n)
  PROVE  /\ stack' \in Seq(Frame) /\ Len(stack') = Len(stack) + 1 /\ stack' # << >>
         /\ \A k \in 1..Len(stack) : stack'[k] = stack[k]
         /\ stack'[Len(stack) + 1] = [node |-> n, rc |-> None, next |-> 1]
PROOF
<1>1. [node |-> n, rc |-> None, next |-> 1] \in Frame
  BY DEF Frame
<1>2. stack \in Seq(Frame)
  BY DEF TypeOK
<1> QED BY <1>1, <1>2, AppendProperties DEF Call

\* The two calls for nested formats.
LEMMA Descent ==
  ASSUME TypeOK, FramesInv, schema \in Schemas, CompileItems \/ CompileProperty
  PROVE  /\ phase = "compiling" /\ ~failed /\ stack # << >> /\ Top.rc \in Addr /\ elem[Top.rc] # None
         /\ UNCHANGED <<schema, phase, failed, report, root, elem, intact, lost>>
         /\ \E n \in Node : Call(n)
         /\ refs' \in [Object -> SUBSET Holder]
         /\ \A o \in Object : refs[o] \subseteq refs'[o]
         /\ \A o \in Object : \A h \in refs'[o] :
              \/ h \in refs[o]
              \/ h = Temporary(Top.rc) /\ Written.form = "items"
              \/ /\ \E i \in Nat : h = Slot(Top.rc, i)
                 /\ Written.form = "properties" /\ Written.fault = "none"
PROOF
<1>1. /\ phase = "compiling" /\ ~failed /\ stack # << >> /\ Top.rc # None
      /\ UNCHANGED <<schema, phase, failed, report, root, elem, intact, lost>>
  BY DEF CompileItems, CompileProperty, Descending, Compiling, TypeOK
<1>2. /\ Top \in Frame /\ Written \in SchemaNode /\ Len(stack) \in 1..Len(stack)
      /\ Top = stack[Len(stack)]
  BY <1>1, Calls DEF Top
<1>3. Top.rc \in Addr /\ Top.next \in Nat \ {0} /\ Top.node \in Node
  BY <1>1, <1>2 DEF Frame
<1>4. elem[Top.rc] # None
  BY <1>1, <1>2 DEF FramesInv
<1>5. refs \in [Object -> SUBSET Holder] /\ Written.children \in Seq(Node)
  BY <1>2 DEF TypeOK, SchemaNode
<1>6. CASE CompileItems
  <2>1. /\ Written.form = "items" /\ Call(Written.children[1])
        /\ refs' = [refs EXCEPT ![Stub(Top.rc)] = refs[Stub(Top.rc)] \cup {Temporary(Top.rc)}]
    BY <1>6 DEF CompileItems
  <2>2. Len(Written.children) = 1
    BY <1>3, <2>1, CompileAssumption DEF Written
  <2>3. Written.children[1] \in Node
    BY <1>5, <2>2
  <2>4. Stub(Top.rc) \in Object /\ Temporary(Top.rc) \in Holder
    BY <1>3, Members
  <2> QED BY <1>1, <1>3, <1>4, <1>5, <2>1, <2>3, <2>4
<1>7. CASE CompileProperty
  <2> DEFINE k == schema[Property].key
             h == Slot(Top.rc, Top.next)
  <2>1. /\ Written.form = "properties" /\ Call(Property) /\ Top.next \in DOMAIN Written.children
        /\ Written.fault = "none"
        /\ refs' = [refs EXCEPT ![k] = @ \cup {h}]
    BY <1>7 DEF CompileProperty
  <2>2. Property \in Node
    BY <1>5, <2>1 DEF Property
  <2>3. h \in Holder
    BY <1>3, Members
  <2>4. refs' \in [Object -> SUBSET Holder] /\ \A o \in Object : refs[o] \subseteq refs'[o]
    <3> HIDE DEF h, k
    <3> QED BY <1>5, <2>1, <2>3
  <2>5. \A o \in Object : \A g \in refs'[o] : g \in refs[o] \/ g = h
    <3> HIDE DEF h, k
    <3> QED BY <1>5, <2>1
  <2> QED BY <1>1, <1>3, <1>4, <2>1, <2>2, <2>4, <2>5
<1> QED BY <1>6, <1>7

\* Every step leaves well-typed state.
LEMMA TypeStep ==
  ASSUME TypeOK, FramesInv, schema \in Schemas, [Next]_vars
  PROVE  TypeOK'
PROOF
<1>1. CASE Reject
  <2>1. phase = "compiling" /\ ReturnNull(refs) /\ UNCHANGED <<elem, lost>>
    BY <1>1 DEF Reject, Compiling
  <2>2. intact' \subseteq Addr \X Fields
    BY <1>1 DEF Reject, TypeOK
  <2>3. refs \in [Object -> SUBSET Holder]
    BY DEF TypeOK
  <2> QED BY <2>1, <2>2, <2>3, ReturnNullType DEF TypeOK
<1>2. CASE Create
  <2>1. PICK a \in Addr, words \in SUBSET Obj, late \in SUBSET Obj : Made(a, words, late)
    BY <1>2, CreateStep
  <2>2. /\ elem' = [elem EXCEPT ![a] = NewElement(a)] /\ NewElement(a) \in Element
        /\ stack' \in Seq(Frame) /\ Len(stack') = Len(stack)
        /\ refs' \in [Object -> SUBSET Holder]
        /\ intact' = (intact \ Stale(words)) \cup Caches(a, NewElement(a), late)
    BY <2>1 DEF Made
  <2>3. elem' \in [Addr -> Element \cup {None}]
    BY <2>2 DEF TypeOK
  <2>4. intact' \subseteq Addr \X Fields
    BY <2>2 DEF TypeOK, Caches, Fields
  <2>5. phase = "compiling" /\ stack # << >>
        /\ UNCHANGED <<schema, phase, report, root, lost>> /\ failed' \in BOOLEAN
    BY <1>2, CreateStep
  <2>6. stack' # << >>
    BY <2>2, <2>5 DEF TypeOK
  <2> QED BY <2>2, <2>3, <2>4, <2>5, <2>6 DEF TypeOK
<1>3. CASE CompileItems \/ CompileProperty
  <2>1. PICK n \in Node : Call(n)
    BY <1>3, Descent
  <2>2. stack # << >>
    BY <1>3, Descent
  <2>3. stack' \in Seq(Frame) /\ stack' # << >>
    BY <2>1, <2>2, CallStep
  <2> QED BY <1>3, <2>2, <2>3, Descent DEF TypeOK
<1>4. CASE FormatError
  BY <1>4 DEF FormatError, TypeOK
<1>5. CASE Unwind
  <2> DEFINE as == Freed(Top.rc)
             r == Release(as, refs)
  <2>1. phase = "compiling" /\ Free(as) /\ ReturnNull(r)
    BY <1>5 DEF Unwind
  <2>2. as \subseteq Addr /\ refs \in [Object -> SUBSET Holder]
    BY FreedType DEF TypeOK
  <2> HIDE DEF as
  <2>3. r \in [Object -> SUBSET Holder]
    BY <2>2, ReleaseType
  <2> HIDE DEF r
  <2>4. /\ elem' \in [Addr -> Element \cup {None}] /\ intact' \subseteq Addr \X Fields
        /\ lost' \subseteq Addr
    BY <2>1, <2>2, FreeType
  <2>5. /\ schema' = schema /\ failed' = TRUE /\ root' = root
        /\ stack' \in Seq(Frame)
        /\ phase' \in {"compiling", "over"} /\ (phase' = "compiling") = (stack' # << >>)
        /\ refs' \in [Object -> SUBSET Holder]
        /\ report' \in Seq(Obj \cup {None})
    BY <2>1, <2>3, ReturnNullType
  <2> QED BY <2>4, <2>5 DEF TypeOK
<1>6. CASE Return
  <2>1. refs' \in [Object -> SUBSET Holder]
    BY <1>6, ReturnStep, BouncedType DEF TypeOK
  <2> QED BY <1>6, <2>1, ReturnStep DEF TypeOK
<1>7. CASE FreeRoot
  <2> DEFINE as == Freed(root)
  <2>1. /\ phase = "compiled" /\ Free(as) /\ refs' = Release(as, refs) /\ phase' = "over"
        /\ UNCHANGED <<schema, stack, failed, report, root>>
    BY <1>7 DEF FreeRoot
  <2>2. as \subseteq Addr /\ refs \in [Object -> SUBSET Holder]
    BY FreedType DEF TypeOK
  <2> HIDE DEF as
  <2>3. refs' \in [Object -> SUBSET Holder]
    BY <2>1, <2>2, ReleaseType
  <2> QED BY <2>1, <2>2, <2>3, FreeType DEF TypeOK
<1>8. ASSUME NEW o \in Object, Convert(o) PROVE TypeOK'
  BY <1>8 DEF Convert, TypeOK
<1>9. ASSUME NEW o \in Object, Forget(o) PROVE TypeOK'
  <2>1. refs' = [refs EXCEPT ![o] = refs[o] \ {Script}]
    BY <1>9 DEF Forget
  <2>2. refs' \in [Object -> SUBSET Holder]
    BY <2>1 DEF TypeOK
  <2> QED BY <1>9, <2>2 DEF Forget, TypeOK
<1>10. CASE UNCHANGED vars
  BY <1>10 DEF vars, TypeOK
<1> QED BY <1>1, <1>2, <1>3, <1>4, <1>5, <1>6, <1>7, <1>8, <1>9, <1>10 DEF Next, Step

----------------------------------------------------------------------------
(* The steps, one conjunct at a time.                                      *)

\* The outside owners are no elements.
LEMMA Outside ==
  /\ Script # Thread
  /\ \A a \in Addr : \A f : Script # <<a, f>> /\ Thread # <<a, f>>
  /\ \A a \in Addr : \A i : Script # Slot(a, i) /\ Script # Temporary(a)
PROOF
<1>1. Script[1] = None /\ Thread[1] = None /\ Script[2] = "script" /\ Thread[2] = "thread"
  BY DEF Script, Thread
<1>2. \A a \in Addr : a # None
  BY CompileAssumption
<1>3. \A a, i : Slot(a, i)[1] = a /\ Temporary(a)[1] = a
  BY DEF Slot, Temporary
<1>4. \A a, f : <<a, f>>[1] = a
  OBVIOUS
<1> QED BY <1>1, <1>2, <1>3, <1>4

\* The initial states.
LEMMA InitInv == Init => IInv
PROOF
<1> SUFFICES ASSUME Init PROVE IInv
  OBVIOUS
<1> DEFINE s == <<[node |-> Root, rc |-> None, next |-> 1]>>
<1>1. /\ schema \in Schemas /\ phase = "compiling" /\ failed = FALSE /\ report = << >>
      /\ root = None /\ stack = s /\ intact = {} /\ lost = {}
      /\ elem = [a \in Addr |-> None]
      /\ refs = [o \in Object |-> IF o \in Obj THEN {Script} ELSE {}]
  BY DEF Init
<1>2. s \in Seq(Frame) /\ Len(s) = 1 /\ s # << >> /\ s[1].rc = None
  BY CompileAssumption DEF Frame
<1>3. TypeOK
  <2>1. refs \in [Object -> SUBSET Holder]
    BY <1>1, Members
  <2>2. schema \in [Node -> SchemaNode]
    BY <1>1, CompileAssumption
  <2> HIDE DEF s
  <2>3. stack \in Seq(Frame) /\ (phase = "compiling") = (stack # << >>)
    BY <1>1, <1>2
  <2>4. elem \in [Addr -> Element \cup {None}] /\ report \in Seq(Obj \cup {None})
    BY <1>1
  <2> QED BY <1>1, <2>1, <2>2, <2>3, <2>4 DEF TypeOK
<1>4. ScriptHoldsItsOwn
  BY <1>1 DEF ScriptHoldsItsOwn
<1>5. FramesInv
  <2> HIDE DEF s
  <2>1. \A i \in 1..Len(stack) : i = 1 /\ ~(i < Len(stack)) /\ stack[i].rc = None
    BY <1>1, <1>2
  <2> QED BY <2>1 DEF FramesInv
<1>6. FlagsInv /\ NoDanglingReference /\ PatternsOwn /\ PatternCachesIntact
  BY <1>1 DEF FlagsInv, NoDanglingReference, PatternsOwn, PatternCachesIntact, Cacheable
<1>7. OwnersInv
  BY <1>1 DEF OwnersInv, HasOwner
<1> QED BY <1>1, <1>3, <1>4, <1>5, <1>6, <1>7 DEF IInv

\* Some elements are freed, the others stay.
Gone(as) ==
  /\ \A a \in Addr : elem'[a] # None => a \notin as /\ elem'[a] = elem[a]
  /\ \A a \in Addr : a \notin as => elem'[a] = elem[a]
  /\ lost \subseteq lost'
  /\ \A a \in as : elem[a] # None /\ elem[a].flag = "skip"
                     /\ schema[elem[a].node].form # "none" => a \in lost'

\* Freeing does that.
LEMMA FreeGone ==
  ASSUME TypeOK, NEW as \in SUBSET Addr, Free(as)
  PROVE  Gone(as) /\ intact' = intact \ (as \X Fields)
PROOF
<1>1. /\ \A a \in Addr : elem'[a] # None => a \notin as /\ elem'[a] = elem[a]
      /\ \A a \in Addr : a \notin as => elem'[a] = elem[a]
      /\ intact' = intact \ (as \X Fields)
      /\ lost \subseteq lost'
  BY FreeType
<1>2. \A a \in as : elem[a] # None /\ elem[a].flag = "skip"
                      /\ schema[elem[a].node].form # "none" => a \in lost'
  BY DEF Free
<1> QED BY <1>1, <1>2 DEF Gone

\* What a call that goes wrong leaves: the elements it frees are gone with
\* their references, the others stay.
LEMMA NullStep ==
  ASSUME TypeOK, Reject \/ Unwind
  PROVE  /\ phase = "compiling" /\ stack # << >>
         /\ schema' = schema /\ failed' = TRUE
         /\ stack' \in Seq(Frame) /\ Len(stack') = Len(stack) - 1
         /\ \A k \in 1..(Len(stack) - 1) : stack'[k] = stack[k]
         /\ \E as \in SUBSET Addr, words \in SUBSET Obj :
              /\ Gone(as) /\ intact' = (intact \ Stale(words)) \ (as \X Fields)
              /\ refs' = Bounced(Release(as, refs))
PROOF
<1>1. phase = "compiling" /\ stack # << >> /\ refs \in [Object -> SUBSET Holder]
  BY DEF Reject, Unwind, Compiling, TypeOK
<1>2. CASE Reject
  <2>1. PICK words \in {{}, Written.before} : intact' = intact \ Stale(words)
    BY <1>2 DEF Reject
  <2>2. words \in SUBSET Obj
    BY <1>1, <2>1, Calls DEF SchemaNode
  <2>3. ReturnNull(refs) /\ UNCHANGED <<elem, lost>>
    BY <1>2 DEF Reject
  <2>4. Release({}, refs) = refs
    <3>1. \A h : ~Drops({}, h)
      BY DEF Drops
    <3> QED BY <1>1, <3>1 DEF Release
  <2>5. refs' = Bounced(Release({}, refs))
    BY <2>3, <2>4 DEF ReturnNull
  <2>6. intact' = (intact \ Stale(words)) \ ({} \X Fields)
    BY <2>1
  <2>7. /\ schema' = schema /\ failed' = TRUE
        /\ stack' \in Seq(Frame) /\ Len(stack') = Len(stack) - 1
        /\ \A k \in 1..(Len(stack) - 1) : stack'[k] = stack[k]
    BY <1>1, <2>3, ReturnNullType
  <2>8. Gone({}) /\ {} \in SUBSET Addr
    BY <2>3 DEF Gone
  <2> QED BY <1>1, <2>2, <2>5, <2>6, <2>7, <2>8
<1>3. CASE Unwind
  <2> DEFINE as == Freed(Top.rc)
             r == Release(as, refs)
  <2>1. Free(as) /\ ReturnNull(r) /\ as \in SUBSET Addr
    BY <1>3, FreedType DEF Unwind
  <2> HIDE DEF as
  <2>2. r \in [Object -> SUBSET Holder]
    BY <1>1, ReleaseType
  <2>3. refs' = Bounced(Release(as, refs))
    BY <2>1 DEF ReturnNull
  <2> HIDE DEF r
  <2>4. /\ schema' = schema /\ failed' = TRUE
        /\ stack' \in Seq(Frame) /\ Len(stack') = Len(stack) - 1
        /\ \A k \in 1..(Len(stack) - 1) : stack'[k] = stack[k]
    BY <1>1, <2>1, <2>2, ReturnNullType
  <2>5. Gone(as) /\ intact' = intact \ (as \X Fields)
    BY <2>1, FreeGone
  <2>7. intact' = (intact \ Stale({})) \ (as \X Fields)
    <3>1. Stale({}) = {}
      BY DEF Stale
    <3> QED BY <2>5, <3>1
  <2>8. {} \in SUBSET Obj
    OBVIOUS
  <2>9. \E words \in SUBSET Obj :
          Gone(as) /\ intact' = (intact \ Stale(words)) \ (as \X Fields)
            /\ refs' = Bounced(Release(as, refs))
    BY <2>3, <2>5, <2>7, <2>8
  <2>10. as \in SUBSET Addr
    BY <2>1
  <2> QED BY <1>1, <2>4, <2>9, <2>10
<1> QED BY <1>2, <1>3

\* What deleting the compiled element leaves.
LEMMA RootStep ==
  ASSUME TypeOK, FreeRoot
  PROVE  /\ stack = << >> /\ stack' = stack /\ schema' = schema
         /\ \E as \in SUBSET Addr :
              /\ Gone(as) /\ intact' = intact \ (as \X Fields)
              /\ refs' = Release(as, refs)
PROOF
<1> DEFINE as == Freed(root)
<1>1. Free(as) /\ refs' = Release(as, refs) /\ stack' = stack /\ schema' = schema
      /\ as \in SUBSET Addr /\ stack = << >>
  BY FreedType DEF FreeRoot, TypeOK
<1> HIDE DEF as
<1>2. Gone(as) /\ intact' = intact \ (as \X Fields)
  BY <1>1, FreeGone
<1> QED BY <1>1, <1>2

\* What the script does moves no element.
LEMMA ScriptStep ==
  ASSUME TypeOK, NEW o \in Object, Convert(o) \/ Forget(o)
  PROVE  /\ phase # "compiling" /\ stack = << >> /\ UNCHANGED <<schema, phase, stack, failed, root, elem, lost>>
         /\ refs' \in [Object -> SUBSET Holder]
         /\ \A p \in Object : refs'[p] \subseteq refs[p]
         /\ \A p \in Object : \A h \in refs[p] : h = Script \/ h \in refs'[p]
         /\ intact' = intact \/ (intact' = intact \ Stale({o}) /\ Script \in refs[o])
PROOF
<1>1. refs \in [Object -> SUBSET Holder]
  BY DEF TypeOK
<1>2. CASE Convert(o)
  BY <1>1, <1>2 DEF Convert, TypeOK
<1>3. CASE Forget(o)
  <2>1. refs' = [refs EXCEPT ![o] = refs[o] \ {Script}]
    BY <1>3 DEF Forget
  <2> QED BY <1>1, <1>3, <2>1 DEF Forget, TypeOK
<1> QED BY <1>2, <1>3

\* No step gives the script a reference.
LEMMA ScriptHoldsItsOwnStep ==
  ASSUME IInv, [Next]_vars
  PROVE  ScriptHoldsItsOwn'
PROOF
<1>1. TypeOK /\ FramesInv /\ schema \in Schemas /\ refs \in [Object -> SUBSET Holder]
  BY DEF IInv, TypeOK
<1> SUFFICES ASSUME NEW o \in Object, Script \in refs'[o] PROVE Script \in refs[o]
  BY DEF ScriptHoldsItsOwn, IInv
<1>2. CASE Reject \/ Unwind
  <2>1. PICK as \in SUBSET Addr : refs' = Bounced(Release(as, refs))
    BY <1>1, <1>2, NullStep
  <2>2. /\ Release(as, refs) \in [Object -> SUBSET Holder]
        /\ Release(as, refs)[o] = {h \in refs[o] : ~Drops(as, h)}
    BY <1>1, ReleaseType
  <2>3. Release(as, refs)[o] \subseteq refs[o]
    BY <2>2
  <2>4. refs'[o] \subseteq Release(as, refs)[o]
    BY <2>1, <2>2, BouncedType
  <2> QED BY <2>3, <2>4
<1>3. CASE Create
  <2>1. PICK a \in Addr, words \in SUBSET Obj, late \in SUBSET Obj : Made(a, words, late)
    BY <1>1, <1>3, CreateStep
  <2>2. \A h \in refs'[o] : h \in refs[o] \/ h = Thread \/ \E f \in Fields : h = <<a, f>>
    BY <2>1 DEF Made
  <2> QED BY <2>2, Outside
<1>4. CASE CompileItems \/ CompileProperty
  <2>1. /\ Top.rc \in Addr
        /\ \A h \in refs'[o] : h \in refs[o] \/ h = Temporary(Top.rc) \/ \E i : h = Slot(Top.rc, i)
    BY <1>1, <1>4, Descent
  <2> QED BY <2>1, Outside
<1>5. CASE FormatError
  BY <1>5 DEF FormatError
<1>6. CASE Return
  BY <1>1, <1>6, ReturnStep, BouncedType
<1>7. CASE FreeRoot
  <2>1. PICK as \in SUBSET Addr : refs' = Release(as, refs)
    BY <1>1, <1>7, RootStep
  <2>2. Release(as, refs)[o] = {h \in refs[o] : ~Drops(as, h)}
    BY <1>1, ReleaseType
  <2> QED BY <2>1, <2>2
<1>8. ASSUME NEW p \in Object, Convert(p) \/ Forget(p) PROVE Script \in refs[o]
  BY <1>1, <1>8, ScriptStep
<1>9. CASE UNCHANGED vars
  BY <1>9 DEF vars
<1> QED BY <1>2, <1>3, <1>4, <1>5, <1>6, <1>7, <1>8, <1>9 DEF Next, Step

\* A flag is set when its element is made.
LEMMA FlagsStep ==
  ASSUME IInv, [Next]_vars
  PROVE  FlagsInv'
PROOF
<1>1. TypeOK /\ FramesInv /\ FlagsInv /\ schema \in Schemas
  BY DEF IInv
<1>2. CASE Reject \/ Unwind
  <2>1. schema' = schema /\ \E as : Gone(as)
    BY <1>1, <1>2, NullStep
  <2> QED BY <1>1, <2>1 DEF FlagsInv, Gone
<1>3. CASE Create
  <2>1. PICK a \in Addr, words \in SUBSET Obj, late \in SUBSET Obj : Made(a, words, late)
    BY <1>1, <1>3, CreateStep
  <2>2. /\ elem' = [elem EXCEPT ![a] = NewElement(a)]
        /\ schema' = schema /\ elem \in [Addr -> Element \cup {None}]
    BY <1>1, <1>3, <2>1, CreateStep DEF TypeOK, Made
  <2>3. NewElement(a).flag = "object" => schema[NewElement(a).node].form = "properties"
    BY DEF NewElement, Flag, Written
  <2> HIDE DEF NewElement
  <2> QED BY <1>1, <2>2, <2>3 DEF FlagsInv
<1>4. CASE CompileItems \/ CompileProperty
  BY <1>1, <1>4, Descent DEF FlagsInv
<1>5. CASE FormatError
  BY <1>1, <1>5 DEF FormatError, FlagsInv
<1>6. CASE Return
  <2>1. schema' = schema /\ \A a \in Addr : Same(a)
    BY <1>1, <1>6, ReturnStep
  <2> QED BY <1>1, <2>1 DEF FlagsInv, Same
<1>7. CASE FreeRoot
  <2>1. schema' = schema /\ \E as : Gone(as)
    BY <1>1, <1>7, RootStep
  <2> QED BY <1>1, <2>1 DEF FlagsInv, Gone
<1>8. ASSUME NEW p \in Object, Convert(p) \/ Forget(p) PROVE FlagsInv'
  <2>1. schema' = schema /\ elem' = elem
    BY <1>1, <1>8, ScriptStep
  <2> QED BY <1>1, <2>1 DEF FlagsInv
<1>9. CASE UNCHANGED vars
  BY <1>1, <1>9 DEF vars, FlagsInv
<1> QED BY <1>2, <1>3, <1>4, <1>5, <1>6, <1>7, <1>8, <1>9 DEF Next, Step

\* Each call has its element.
LEMMA FramesStep ==
  ASSUME IInv, [Next]_vars
  PROVE  FramesInv'
PROOF
<1>1. TypeOK /\ FramesInv /\ schema \in Schemas /\ elem \in [Addr -> Element \cup {None}]
  BY DEF IInv, TypeOK
<1>2. CASE Reject \/ Unwind
  BY <1>1, <1>2, NullStep DEF FramesInv
<1>3. CASE Create
  <2>0. PICK a \in Addr, words \in SUBSET Obj, late \in SUBSET Obj : Made(a, words, late)
    BY <1>1, <1>3, CreateStep
  <2>1. /\ elem[a] = None /\ elem' = [elem EXCEPT ![a] = NewElement(a)]
        /\ NewElement(a) \in Element
        /\ stack' \in Seq(Frame) /\ Len(stack') = Len(stack)
        /\ stack'[Len(stack)] = [stack[Len(stack)] EXCEPT !.rc = a]
        /\ \A k \in 1..Len(stack) : k # Len(stack) => stack'[k] = stack[k]
    BY <2>0 DEF Made
  <2>2. /\ ~failed /\ stack # << >> /\ schema' = schema
        /\ Len(stack) \in 1..Len(stack) /\ Len(stack) \in Nat
        /\ stack[Len(stack)] \in Frame /\ stack[Len(stack)] = Top
    <3>1. ~failed /\ stack # << >> /\ schema' = schema
      BY <1>1, <1>3, CreateStep
    <3>2. Len(stack) \in Nat \ {0} /\ Top \in Frame
      BY <1>1, <3>1, Calls
    <3> QED BY <3>1, <3>2 DEF Top
  <2>3. stack'[Len(stack)].rc = a /\ stack'[Len(stack)].node = Top.node
    BY <2>1, <2>2 DEF Frame, Top
  <2>4. /\ NewElement(a) # None /\ NewElement(a).node = Top.node /\ NewElement(a).flag # "skip"
        /\ Written.form = "properties" /\ Written.fault = "none" => ReleasedAs(NewElement(a)) = "object"
    <3>1. NewElement(a) # None
      BY <2>1, CompileAssumption
    <3>2. NewElement(a).node = Top.node /\ NewElement(a).flag # "skip"
      BY DEF NewElement, Flag
    <3>3. ASSUME Written.form = "properties", Written.fault = "none"
          PROVE  ReleasedAs(NewElement(a)) = "object"
      <4>1. Written.type \in {"object", "json"}
        <5>1. Top.node \in Node
          BY <1>1, <2>2, Calls DEF Frame
        <5> QED BY <1>1, <3>3, <5>1, CompileAssumption DEF Written
      <4>2. NewElement(a).type = Written.type
            /\ (Written.type = "json" => NewElement(a).flag = "object")
        BY <3>3 DEF NewElement, Flag
      <4> QED BY <4>1, <4>2 DEF ReleasedAs
    <3> QED BY <3>1, <3>2, <3>3
  <2> HIDE DEF NewElement
  <2>5. \A k \in 1..Len(stack) : k # Len(stack) => stack[k].rc # None /\ stack[k].rc # a
    BY <1>1, <2>1, <2>2 DEF FramesInv, TypeOK
  <2>6. elem'[a] = NewElement(a) /\ \A b \in Addr : b # a => elem'[b] = elem[b]
    BY <1>1, <2>1
  <2>7. \A k \in 1..Len(stack) : k # Len(stack) => stack[k].rc \in Addr
    <3>1. \A k \in 1..Len(stack) : stack[k] \in Frame
      BY <1>1, <2>2 DEF TypeOK
    <3> QED BY <2>5, <3>1 DEF Frame
  <2>8. ASSUME NEW i \in 1..Len(stack'), NEW r, r = stack'[i].rc
        PROVE  /\ i < Len(stack') => r # None
               /\ r # None =>
                    /\ elem'[r] # None
                    /\ elem'[r].node = stack'[i].node
                    /\ elem'[r].flag # "skip"
                    /\ schema'[stack'[i].node].form = "properties" /\ schema'[stack'[i].node].fault = "none"
                         => ReleasedAs(elem'[r]) = "object"
                    /\ \A j \in 1..Len(stack') : stack'[j].rc = r => j = i
    <3>1. CASE i = Len(stack)
      <4>1. r = a /\ ~(i < Len(stack'))
        <5>1. r = a
          BY <2>3, <2>8, <3>1
        <5>2. Len(stack') = Len(stack) /\ Len(stack) \in Nat
          BY <2>1, <2>2
        <5> QED BY <3>1, <5>1, <5>2
      <4>2. \A j \in 1..Len(stack') : stack'[j].rc = r => j = i
        BY <2>1, <2>5, <3>1, <4>1
      <4> QED BY <2>2, <2>3, <2>4, <2>6, <3>1, <4>1, <4>2 DEF Written
    <3>2. CASE i # Len(stack)
      <4>1. /\ i \in 1..Len(stack) /\ stack'[i] = stack[i] /\ r = stack[i].rc
            /\ r # None /\ r # a /\ elem'[r] = elem[r]
        BY <2>1, <2>5, <2>6, <2>7, <2>8, <3>2
      <4>2. \A j \in 1..Len(stack') : stack'[j].rc = r => j = i
        <5> SUFFICES ASSUME NEW j \in 1..Len(stack'), stack'[j].rc = r PROVE j = i
          OBVIOUS
        <5>1. j \in 1..Len(stack) /\ j # Len(stack)
          BY <2>1, <2>3, <4>1
        <5>2. stack[j].rc = r
          BY <2>1, <5>1
        <5> QED BY <1>1, <2>2, <4>1, <5>1, <5>2 DEF FramesInv
      <4> QED BY <1>1, <2>2, <4>1, <4>2 DEF FramesInv
    <3> QED BY <3>1, <3>2
  <2> QED BY <2>8 DEF FramesInv, ReleasedAs
<1>4. CASE CompileItems \/ CompileProperty
  <2>1. PICK n \in Node : Call(n)
    BY <1>1, <1>4, Descent
  <2>2. /\ ~failed /\ stack # << >> /\ UNCHANGED <<schema, failed, elem>> /\ Top.rc \in Addr
        /\ Len(stack) \in Nat \ {0} /\ Top = stack[Len(stack)]
    BY <1>1, <1>4, Descent, Calls DEF Top
  <2>3. /\ Len(stack') = Len(stack) + 1
        /\ \A k \in 1..Len(stack) : stack'[k] = stack[k]
        /\ stack'[Len(stack) + 1].rc = None
    <3>1. stack'[Len(stack) + 1] = [node |-> n, rc |-> None, next |-> 1]
      BY <1>1, <2>1, <2>2, CallStep
    <3> QED BY <1>1, <2>1, <2>2, <3>1, CallStep
  <2>4. \A k \in 1..Len(stack) : stack[k].rc # None
    BY <1>1, <2>2, CompileAssumption DEF FramesInv
  <2>5. ASSUME NEW i \in 1..Len(stack')
        PROVE  IF i = Len(stack) + 1 THEN stack'[i].rc = None ELSE i \in 1..Len(stack) /\ stack'[i] = stack[i]
    BY <2>2, <2>3
  <2>6. ASSUME NEW i \in 1..Len(stack), NEW j \in 1..Len(stack'), stack'[j].rc = stack[i].rc
        PROVE  j = i
    BY <1>1, <2>2, <2>4, <2>5, <2>6 DEF FramesInv
  <2>7. ASSUME NEW i \in 1..Len(stack'), NEW r, r = stack'[i].rc
        PROVE  /\ i < Len(stack') => r # None
               /\ r # None =>
                    /\ elem[r] # None
                    /\ elem[r].node = stack'[i].node
                    /\ elem[r].flag # "skip"
                    /\ schema[stack'[i].node].form = "properties" /\ schema[stack'[i].node].fault = "none"
                         => ReleasedAs(elem[r]) = "object"
                    /\ \A j \in 1..Len(stack') : stack'[j].rc = r => j = i
    <3>1. CASE i = Len(stack) + 1
      BY <2>2, <2>3, <2>7, <3>1
    <3>2. CASE i # Len(stack) + 1
      BY <1>1, <2>2, <2>4, <2>5, <2>6, <2>7, <3>2 DEF FramesInv
    <3> QED BY <3>1, <3>2
  <2> QED BY <2>2, <2>7 DEF FramesInv, ReleasedAs
<1>5. CASE FormatError
  BY <1>5 DEF FormatError, FramesInv
<1>6. CASE Return
  <2>1. /\ ~failed /\ stack # << >> /\ schema' = schema /\ Top.rc \in Addr
        /\ Len(stack') = Len(stack) - 1
        /\ \A k \in 1..(Len(stack) - 1) :
             stack'[k].rc = stack[k].rc /\ stack'[k].node = stack[k].node
        /\ \A a \in Addr : Same(a)
        /\ Len(stack) \in Nat \ {0} /\ Top = stack[Len(stack)]
    BY <1>1, <1>6, ReturnStep, Calls DEF Top
  <2>2. \A k \in 1..(Len(stack) - 1) : stack[k].rc # None /\ stack[k].rc \in Addr /\ stack[k].rc # Top.rc
    <3> SUFFICES ASSUME NEW k \in 1..(Len(stack) - 1)
                 PROVE  stack[k].rc # None /\ stack[k].rc \in Addr /\ stack[k].rc # Top.rc
      OBVIOUS
    <3>1. k \in 1..Len(stack) /\ Len(stack) \in 1..Len(stack) /\ k < Len(stack) /\ k # Len(stack)
      BY <2>1
    <3>2. stack[k] \in Frame
      BY <1>1, <3>1 DEF TypeOK
    <3> QED BY <1>1, <2>1, <3>1, <3>2 DEF FramesInv, Frame
  <2>3. \A k \in 1..(Len(stack) - 1) :
          LET r == stack[k].rc
          IN elem[r] # None => /\ elem'[r] # None /\ elem'[r].node = elem[r].node
                               /\ elem'[r].type = elem[r].type /\ elem'[r].flag = elem[r].flag
    BY <2>1, <2>2 DEF Same
  <2>4. \A e1, e2 : e1.type = e2.type /\ e1.flag = e2.flag => ReleasedAs(e1) = ReleasedAs(e2)
    BY DEF ReleasedAs
  <2>5. ASSUME NEW i \in 1..Len(stack'), NEW r, r = stack'[i].rc
        PROVE  /\ i < Len(stack') => r # None
               /\ r # None =>
                    /\ elem'[r] # None
                    /\ elem'[r].node = stack'[i].node
                    /\ elem'[r].flag # "skip"
                    /\ schema'[stack'[i].node].form = "properties" /\ schema'[stack'[i].node].fault = "none"
                         => ReleasedAs(elem'[r]) = "object"
                    /\ \A j \in 1..Len(stack') : stack'[j].rc = r => j = i
    <3>1. i \in 1..(Len(stack) - 1) /\ i \in 1..Len(stack) /\ r = stack[i].rc /\ r # None
      BY <2>1, <2>2, <2>5
    <3>2. \A j \in 1..Len(stack') : j \in 1..Len(stack) /\ stack'[j].rc = stack[j].rc
      BY <2>1
    <3>3. /\ elem[r] # None /\ elem[r].node = stack[i].node /\ elem[r].flag # "skip"
          /\ schema[stack[i].node].form = "properties" /\ schema[stack[i].node].fault = "none"
                => ReleasedAs(elem[r]) = "object"
          /\ \A j \in 1..Len(stack) : stack[j].rc = r => j = i
      BY <1>1, <2>1, <3>1 DEF FramesInv
    <3>4. /\ elem'[r] # None /\ elem'[r].node = elem[r].node
          /\ elem'[r].type = elem[r].type /\ elem'[r].flag = elem[r].flag
      BY <2>3, <3>1, <3>3
    <3>5. stack'[i].node = stack[i].node
      BY <2>1, <3>1
    <3>6. ReleasedAs(elem'[r]) = ReleasedAs(elem[r])
      BY <2>4, <3>4
    <3>7. \A j \in 1..Len(stack') : stack'[j].rc = r => j = i
      BY <3>2, <3>3
    <3> QED BY <2>1, <3>1, <3>3, <3>4, <3>5, <3>6, <3>7
  <2> QED BY <2>5 DEF FramesInv, ReleasedAs
<1>7. CASE stack' = << >>
  BY <1>7 DEF FramesInv
<1>8. CASE FreeRoot
  BY <1>1, <1>7, <1>8, RootStep
<1>9. ASSUME NEW p \in Object, Convert(p) \/ Forget(p) PROVE FramesInv'
  BY <1>1, <1>7, <1>9, ScriptStep
<1>10. CASE UNCHANGED vars
  BY <1>1, <1>10 DEF vars, FramesInv, ReleasedAs
<1> QED BY <1>2, <1>3, <1>4, <1>5, <1>6, <1>8, <1>9, <1>10 DEF Next, Step

\* A field is no slot of a keys list and no temporary list.
LEMMA Kinds ==
  /\ \A a, b : \A f \in Fields : <<a, f>> # Temporary(b)
  /\ "listed" \notin Fields /\ "format" \notin Fields
  /\ \A a, i : Slot(a, i)[1] = a /\ Slot(a, i)[2] = "listed" /\ Temporary(a)[1] = a /\ Temporary(a)[2] = "format"
  /\ \A h \in Holder : h[2] = "format" => h = Temporary(h[1])
PROOF
<1>1. "listed" \notin Fields /\ "format" \notin Fields /\ "script" # "format" /\ "thread" # "format"
  BY DEF Fields
<1>2. ASSUME NEW a, NEW b, NEW f \in Fields PROVE <<a, f>> # Temporary(b)
  <2>1. <<a, f>>[2] = f /\ Temporary(b)[2] = "format"
    BY DEF Temporary
  <2> QED BY <1>1, <2>1
<1>3. ASSUME NEW h \in Holder, h[2] = "format" PROVE h = Temporary(h[1])
  <2>1. h # Script /\ h # Thread
    BY <1>3 DEF Script, Thread
  <2>2. h \notin Addr \X {"listed"} \X (Nat \ {0})
    BY <1>3
  <2>3. h \in Addr \X (Fields \cup {"format"})
    BY <2>1, <2>2 DEF Holder
  <2> QED BY <1>3, <2>3 DEF Temporary
<1> QED BY <1>1, <1>2, <1>3 DEF Slot, Temporary

\* What a reference that survives the release of elements was counted for.
LEMMA Survives ==
  ASSUME TypeOK, NEW as \in SUBSET Addr, NEW o \in Object, NEW h \in Release(as, refs)[o]
  PROVE  h \in refs[o] /\ ~Drops(as, h)
PROOF
<1>1. refs \in [Object -> SUBSET Holder]
  BY DEF TypeOK
<1>2. Release(as, refs)[o] = {g \in refs[o] : ~Drops(as, g)}
  BY <1>1, ReleaseType
<1> QED BY <1>2

\* A bounced call drops the list of the call that waited for it.
LEMMA Waiters ==
  ASSUME TypeOK, stack # << >>, NEW r \in [Object -> SUBSET Holder], NEW o \in Object, NEW h \in Bounced(r)[o],
         schema' = schema, Len(stack') = Len(stack) - 1,
         \A k \in 1..(Len(stack) - 1) : stack'[k].rc = stack[k].rc /\ stack'[k].node = stack[k].node,
         h[2] = "format",
         \E i \in 1..Len(stack) :
           i < Len(stack) /\ stack[i].rc = h[1] /\ schema[stack[i].node].form = "items"
  PROVE  \E i \in 1..Len(stack') :
           i < Len(stack') /\ stack'[i].rc = h[1] /\ schema'[stack'[i].node].form = "items"
PROOF
<1>1. PICK i \in 1..Len(stack) :
        i < Len(stack) /\ stack[i].rc = h[1] /\ schema[stack[i].node].form = "items"
  OBVIOUS
<1>2. Len(stack) \in Nat
  BY DEF TypeOK
<1>3. h \in Holder /\ h = Temporary(h[1])
  <2>1. h \in Holder
    BY BouncedType
  <2> QED BY <2>1, Kinds
<1>4. i # Len(stack) - 1
  <2> SUFFICES ASSUME i = Len(stack) - 1 PROVE FALSE
    OBVIOUS
  <2>1. Nested /\ Caller = stack[i]
    BY <1>1, <1>2 DEF Nested, Caller
  <2>2. Bounced(r)[o] = r[o] \ {Temporary(Caller.rc)}
    BY <1>1, <2>1 DEF Bounced
  <2> QED BY <1>1, <1>3, <2>1, <2>2
<1>5. i \in 1..Len(stack') /\ i < Len(stack') /\ i \in 1..(Len(stack) - 1)
  BY <1>1, <1>2, <1>4
<1> QED BY <1>1, <1>5

\* The owners of what survives still own it.
LEMMA OwnersSurvive ==
  ASSUME TypeOK, FlagsInv, OwnersInv, NEW as \in SUBSET Addr, Gone(as), schema' = schema,
         NEW o \in Object, NEW h \in Release(as, refs)[o], h[2] # "format"
  PROVE  HasOwner(o, h)'
PROOF
<1>1. HasOwner(o, h) /\ ~Drops(as, h) /\ h \in Holder
  <2>1. h \in refs[o] /\ ~Drops(as, h)
    BY Survives
  <2> QED BY <2>1 DEF OwnersInv, TypeOK
<1>2. CASE h \in {Script, Thread}
  BY <1>2 DEF HasOwner
<1>3. CASE h \notin {Script, Thread}
  <2>1. h[1] \in Addr
    BY <1>1, <1>3 DEF Holder
  <2>2. CASE h[2] \in Fields /\ elem[h[1]] # None /\ elem[h[1]][h[2]] = o
    <3>1. elem'[h[1]] = elem[h[1]]
      BY <1>1, <2>1, <2>2 DEF Drops, Gone
    <3> QED BY <2>2, <3>1 DEF HasOwner
  <2>3. CASE h[2] = "listed" /\ h[1] \in lost
    BY <2>3 DEF HasOwner, Gone
  <2>4. CASE h[2] = "listed" /\ elem[h[1]] # None /\ ReleasedAs(elem[h[1]]) = "object"
    <3>1. elem'[h[1]] = elem[h[1]]
      BY <1>1, <2>1, <2>4 DEF Drops, Gone
    <3> QED BY <2>4, <3>1 DEF HasOwner, ReleasedAs
  <2>5. CASE /\ h[2] = "listed" /\ elem[h[1]] # None
             /\ elem[h[1]].type = "json" /\ elem[h[1]].flag = "skip"
             /\ schema[elem[h[1]].node].form # "none"
    <3>1. CASE h[1] \in as
      BY <2>5, <3>1 DEF HasOwner, Gone
    <3>2. CASE h[1] \notin as
      <4>1. elem'[h[1]] = elem[h[1]]
        BY <2>1, <3>2 DEF Gone
      <4> QED BY <2>5, <4>1 DEF HasOwner
    <3> QED BY <3>1, <3>2
  <2> QED BY <1>1, <1>3, <2>2, <2>3, <2>4, <2>5 DEF HasOwner
<1> QED BY <1>2, <1>3

\* Every reference that is counted keeps an owner.
LEMMA OwnersStep ==
  ASSUME IInv, [Next]_vars
  PROVE  OwnersInv'
PROOF
<1>1. /\ TypeOK /\ FramesInv /\ FlagsInv /\ OwnersInv /\ schema \in Schemas
      /\ refs \in [Object -> SUBSET Holder] /\ elem \in [Addr -> Element \cup {None}]
  BY DEF IInv, TypeOK
<1> SUFFICES ASSUME NEW o \in Object, NEW h \in refs'[o] PROVE HasOwner(o, h)'
  BY DEF OwnersInv
<1>2. CASE Reject \/ Unwind
  <2>1. PICK as \in SUBSET Addr : Gone(as) /\ refs' = Bounced(Release(as, refs))
    BY <1>1, <1>2, NullStep
  <2>2. /\ stack # << >> /\ schema' = schema /\ Len(stack') = Len(stack) - 1
        /\ \A k \in 1..(Len(stack) - 1) : stack'[k] = stack[k]
    BY <1>1, <1>2, NullStep
  <2> DEFINE r == Release(as, refs)
  <2>3. r \in [Object -> SUBSET Holder]
    BY <1>1, ReleaseType
  <2>4. h \in r[o] /\ h \in Bounced(r)[o]
    BY <2>1, <2>3, BouncedType
  <2>5. HasOwner(o, h)
    BY <1>1, <2>4, Survives DEF OwnersInv
  <2> HIDE DEF r
  <2>6. CASE h[2] # "format"
    BY <1>1, <2>1, <2>2, <2>4, <2>6, OwnersSurvive DEF r
  <2>7. CASE h[2] = "format"
    <3>1. \E i \in 1..Len(stack) :
            i < Len(stack) /\ stack[i].rc = h[1] /\ schema[stack[i].node].form = "items"
      BY <2>5, <2>7, Kinds DEF HasOwner, Script, Thread
    <3>2. \A k \in 1..(Len(stack) - 1) :
            stack'[k].rc = stack[k].rc /\ stack'[k].node = stack[k].node
      BY <2>2
    <3>3. \E i \in 1..Len(stack') :
            i < Len(stack') /\ stack'[i].rc = h[1] /\ schema'[stack'[i].node].form = "items"
      BY <1>1, <2>2, <2>3, <2>4, <2>7, <3>1, <3>2, Waiters
    <3> QED BY <2>7, <3>3 DEF HasOwner
  <2> QED BY <2>6, <2>7
<1>3. CASE Create
  <2>1. PICK a \in Addr, words \in SUBSET Obj, late \in SUBSET Obj : Made(a, words, late)
    BY <1>1, <1>3, CreateStep
  <2>2. /\ elem[a] = None /\ elem' = [elem EXCEPT ![a] = NewElement(a)]
        /\ NewElement(a) # None
        /\ Len(stack') = Len(stack)
        /\ \A k \in 1..Len(stack) : k # Len(stack) => stack'[k] = stack[k]
        /\ h \in refs[o] \/ h = Thread \/ \E f \in Fields : h = <<a, f>> /\ NewElement(a)[f] = o
    BY <2>1, CompileAssumption DEF Made
  <2>3. schema' = schema /\ lost' = lost /\ Len(stack) \in Nat
    BY <1>1, <1>3, CreateStep DEF TypeOK
  <2> HIDE DEF NewElement
  <2>4. elem'[a] = NewElement(a) /\ \A b : b # a /\ elem[b] # None /\ b \in Addr => elem'[b] = elem[b]
    BY <1>1, <2>2
  <2>5. CASE h \in refs[o]
    <3>1. HasOwner(o, h) /\ h \in Holder
      BY <1>1, <2>5 DEF OwnersInv
    <3>2. h \notin {Script, Thread} => h[1] \in Addr
      BY <3>1 DEF Holder
    <3>3. CASE h \in {Script, Thread}
      BY <3>3 DEF HasOwner
    <3>4. CASE h \notin {Script, Thread} /\ h[2] # "format"
      <4>1. elem[h[1]] # None => elem'[h[1]] = elem[h[1]]
        BY <2>2, <2>4, <3>2, <3>4
      <4>2. CASE h[2] \in Fields /\ elem[h[1]] # None /\ elem[h[1]][h[2]] = o
        BY <4>1, <4>2 DEF HasOwner
      <4>3. CASE h[2] = "listed" /\ h[1] \in lost
        BY <2>3, <4>3 DEF HasOwner
      <4>4. CASE /\ h[2] = "listed" /\ elem[h[1]] # None
                 /\ \/ ReleasedAs(elem[h[1]]) = "object"
                    \/ /\ elem[h[1]].type = "json" /\ elem[h[1]].flag = "skip"
                       /\ schema[elem[h[1]].node].form # "none"
        BY <2>3, <4>1, <4>4 DEF HasOwner, ReleasedAs
      <4> QED BY <3>1, <3>4, <4>2, <4>3, <4>4 DEF HasOwner
    <3>5. CASE h \notin {Script, Thread} /\ h[2] = "format"
      <4>1. PICK i \in 1..Len(stack) :
              i < Len(stack) /\ stack[i].rc = h[1] /\ schema[stack[i].node].form = "items"
        BY <3>1, <3>5, Kinds DEF HasOwner
      <4>2. i \in 1..Len(stack') /\ i < Len(stack') /\ stack'[i] = stack[i]
        BY <2>2, <2>3, <4>1
      <4> QED BY <2>3, <3>5, <4>1, <4>2 DEF HasOwner
    <3> QED BY <3>3, <3>4, <3>5
  <2>6. CASE h = Thread
    BY <2>6 DEF HasOwner
  <2>7. ASSUME NEW f \in Fields, h = <<a, f>>, NewElement(a)[f] = o PROVE HasOwner(o, h)'
    <3>1. h[1] = a /\ h[2] = f
      BY <2>7
    <3> QED BY <2>2, <2>4, <2>7, <3>1 DEF HasOwner
  <2> QED BY <2>2, <2>5, <2>6, <2>7
<1>4. CASE CompileItems \/ CompileProperty
  <2>1. /\ stack # << >> /\ Top.rc \in Addr /\ elem[Top.rc] # None /\ ~failed
        /\ UNCHANGED <<schema, elem, lost>>
        /\ \/ h \in refs[o]
           \/ h = Temporary(Top.rc) /\ Written.form = "items"
           \/ /\ \E i \in Nat : h = Slot(Top.rc, i)
              /\ Written.form = "properties" /\ Written.fault = "none"
    BY <1>1, <1>4, Descent
  <2>2. PICK n \in Node : Call(n)
    BY <1>1, <1>4, Descent
  <2>3. Len(stack') = Len(stack) + 1 /\ \A k \in 1..Len(stack) : stack'[k] = stack[k]
    BY <1>1, <2>1, <2>2, CallStep
  <2>4. Len(stack) \in Nat \ {0} /\ Top = stack[Len(stack)] /\ Len(stack) \in 1..Len(stack)
    BY <1>1, <2>1, Calls DEF Top
  <2>5. CASE h \in refs[o]
    <3>1. HasOwner(o, h)
      BY <1>1, <2>5 DEF OwnersInv
    <3>2. ASSUME NEW i \in 1..Len(stack), i < Len(stack), stack[i].rc = h[1],
                 schema[stack[i].node].form = "items"
          PROVE  \E j \in 1..Len(stack') :
                   j < Len(stack') /\ stack'[j].rc = h[1] /\ schema[stack'[j].node].form = "items"
      <4>1. i \in 1..Len(stack') /\ i < Len(stack') /\ stack'[i] = stack[i]
        BY <2>3, <2>4, <3>2
      <4> QED BY <3>2, <4>1
    <3> QED BY <2>1, <3>1, <3>2 DEF HasOwner, ReleasedAs
  <2>6. CASE h = Temporary(Top.rc) /\ Written.form = "items"
    <3>1. Len(stack) \in 1..Len(stack') /\ Len(stack) < Len(stack') /\ stack'[Len(stack)] = Top
      BY <2>3, <2>4
    <3>2. h[1] = Top.rc /\ h[2] = "format"
      BY <2>6, Kinds
    <3> QED BY <2>1, <2>6, <3>1, <3>2 DEF HasOwner, Written
  <2>7. CASE (\E i \in Nat : h = Slot(Top.rc, i)) /\ Written.form = "properties" /\ Written.fault = "none"
    <3>1. h[1] = Top.rc /\ h[2] = "listed"
      BY <2>7, Kinds
    <3>2. ReleasedAs(elem[Top.rc]) = "object"
      BY <1>1, <2>1, <2>4, <2>7, CompileAssumption DEF FramesInv, Written
    <3> QED BY <2>1, <3>1, <3>2 DEF HasOwner, ReleasedAs
  <2> QED BY <2>1, <2>5, <2>6, <2>7
<1>5. CASE FormatError
  BY <1>1, <1>5 DEF FormatError, OwnersInv, HasOwner, ReleasedAs
<1>6. CASE Return
  <2>1. /\ stack # << >> /\ Top.rc \in Addr /\ UNCHANGED <<schema, lost>>
        /\ Len(stack') = Len(stack) - 1
        /\ \A k \in 1..(Len(stack) - 1) :
             stack'[k].rc = stack[k].rc /\ stack'[k].node = stack[k].node
        /\ \A a \in Addr : Same(a)
        /\ refs' = Bounced(refs)
    BY <1>1, <1>6, ReturnStep
  <2>2. h \in refs[o] /\ h \in Bounced(refs)[o] /\ h \in Holder
    BY <1>1, <2>1, BouncedType
  <2>3. HasOwner(o, h) /\ (h \notin {Script, Thread} => h[1] \in Addr)
    BY <1>1, <2>2 DEF OwnersInv, Holder
  <2>4. CASE h \in {Script, Thread}
    BY <2>4 DEF HasOwner
  <2>5. CASE h \notin {Script, Thread} /\ h[2] = "format"
    <3>1. \E i \in 1..Len(stack) :
            i < Len(stack) /\ stack[i].rc = h[1] /\ schema[stack[i].node].form = "items"
      BY <2>3, <2>5, Kinds DEF HasOwner
    <3> QED BY <1>1, <2>1, <2>2, <2>5, <3>1, Waiters DEF HasOwner
  <2>6. CASE h \notin {Script, Thread} /\ h[2] \in Fields /\ elem[h[1]] # None /\ elem[h[1]][h[2]] = o
    <3>1. elem'[h[1]] # None /\ elem'[h[1]][h[2]] = o
      BY <2>1, <2>3, <2>6 DEF Same
    <3> QED BY <2>6, <3>1 DEF HasOwner
  <2>7. CASE h \notin {Script, Thread} /\ h[2] = "listed"
    <3> DEFINE e == elem[h[1]]
    <3>1. CASE h[1] \in lost
      BY <2>1, <2>7, <3>1 DEF HasOwner
    <3>2. CASE h[1] \notin lost
      <4>1. /\ e # None
            /\ \/ ReleasedAs(e) = "object"
               \/ e.type = "json" /\ e.flag = "skip" /\ schema[e.node].form # "none"
        BY <2>3, <2>7, <3>2, Kinds DEF HasOwner
      <4>2. /\ elem'[h[1]] # None /\ elem'[h[1]].node = e.node /\ elem'[h[1]].type = e.type
            /\ elem'[h[1]].flag = e.flag \/ elem'[h[1]].flag = "skip"
        BY <2>1, <2>3, <2>7, <4>1 DEF Same
      <4>3. e.flag = "object" => schema[e.node].form = "properties"
        BY <1>1, <2>3, <2>7, <4>1 DEF FlagsInv
      <4> HIDE DEF e
      <4>4. ReleasedAs(e) = "object" => e.type = "object" \/ (e.type = "json" /\ e.flag = "object")
        BY DEF ReleasedAs
      <4>5. \/ ReleasedAs(elem'[h[1]]) = "object"
            \/ /\ elem'[h[1]].type = "json" /\ elem'[h[1]].flag = "skip"
               /\ schema[e.node].form # "none"
        BY <4>1, <4>2, <4>3, <4>4 DEF ReleasedAs
      <4> QED BY <2>1, <2>7, <4>2, <4>5 DEF HasOwner, ReleasedAs
    <3> QED BY <3>1, <3>2
  <2> QED BY <2>3, <2>4, <2>5, <2>6, <2>7 DEF HasOwner
<1>7. CASE FreeRoot
  <2>1. PICK as \in SUBSET Addr : Gone(as) /\ refs' = Release(as, refs)
    BY <1>1, <1>7, RootStep
  <2>2. stack = << >> /\ schema' = schema
    BY <1>1, <1>7, RootStep
  <2>3. HasOwner(o, h) /\ h \in Release(as, refs)[o]
    BY <1>1, <2>1, Survives DEF OwnersInv
  <2>4. h[2] = "format" => h \in {Script, Thread}
    <3>1. 1..Len(stack) = {}
      BY <2>2
    <3> QED BY <2>3, <3>1, Kinds DEF HasOwner
  <2>5. CASE h \in {Script, Thread}
    BY <2>5 DEF HasOwner
  <2>6. CASE h[2] # "format"
    BY <1>1, <2>1, <2>2, <2>3, <2>6, OwnersSurvive
  <2> QED BY <2>4, <2>5, <2>6
<1>8. ASSUME NEW p \in Object, Convert(p) \/ Forget(p) PROVE HasOwner(o, h)'
  <2>1. UNCHANGED <<schema, stack, elem, lost>> /\ h \in refs[o]
    BY <1>1, <1>8, ScriptStep
  <2> QED BY <1>1, <2>1 DEF OwnersInv, HasOwner, ReleasedAs
<1>9. CASE UNCHANGED vars
  BY <1>1, <1>9 DEF vars, OwnersInv, HasOwner, ReleasedAs
<1> QED BY <1>2, <1>3, <1>4, <1>5, <1>6, <1>7, <1>8, <1>9 DEF Next, Step

\* No element points to an object it does not hold.
LEMMA NoDanglingStep ==
  ASSUME IInv, [Next]_vars
  PROVE  NoDanglingReference'
PROOF
<1>1. /\ TypeOK /\ FramesInv /\ NoDanglingReference /\ schema \in Schemas
      /\ refs \in [Object -> SUBSET Holder] /\ elem \in [Addr -> Element \cup {None}]
  BY DEF IInv, TypeOK
<1>2. ASSUME NEW a \in Addr, NEW f \in Fields, elem[a] # None, elem[a][f] # None
      PROVE  elem[a][f] \in Object /\ <<a, f>> \in refs[elem[a][f]]
  <2>1. elem[a] \in Element
    BY <1>1, <1>2
  <2> QED BY <1>1, <1>2, <2>1 DEF NoDanglingReference, Element, Fields
<1>3. \A r \in [Object -> SUBSET Holder] : \A o \in Object : \A a \in Addr : \A f \in Fields :
        <<a, f>> \in r[o] => <<a, f>> \in Bounced(r)[o]
  BY Kinds DEF Bounced
<1>4. ASSUME NEW as \in SUBSET Addr, Gone(as),
             NEW a \in Addr, NEW f \in Fields, elem'[a] # None, elem'[a][f] # None
      PROVE  elem'[a] = elem[a] /\ elem[a][f] \in Object /\ <<a, f>> \in Release(as, refs)[elem[a][f]]
  <2>1. a \notin as /\ elem'[a] = elem[a]
    BY <1>4 DEF Gone
  <2>2. elem[a][f] \in Object /\ <<a, f>> \in refs[elem[a][f]]
    BY <1>2, <1>4, <2>1
  <2>3. ~Drops(as, <<a, f>>)
    BY <2>1 DEF Drops
  <2>4. \A o \in Object : Release(as, refs)[o] = {h \in refs[o] : ~Drops(as, h)}
    BY <1>1, ReleaseType
  <2> QED BY <2>1, <2>2, <2>3, <2>4
<1> SUFFICES ASSUME NEW a \in Addr, NEW f \in Fields, elem'[a] # None, elem'[a][f] # None
             PROVE  <<a, f>> \in refs'[elem'[a][f]]
  BY DEF NoDanglingReference
<1>5. CASE Reject \/ Unwind
  <2>1. PICK as \in SUBSET Addr : Gone(as) /\ refs' = Bounced(Release(as, refs))
    BY <1>1, <1>5, NullStep
  <2>2. Release(as, refs) \in [Object -> SUBSET Holder]
    BY <1>1, ReleaseType
  <2>3. elem'[a] = elem[a] /\ elem[a][f] \in Object /\ <<a, f>> \in Release(as, refs)[elem[a][f]]
    BY <1>4, <2>1
  <2> QED BY <1>3, <2>1, <2>2, <2>3
<1>6. CASE Create
  <2>1. PICK b \in Addr, words \in SUBSET Obj, late \in SUBSET Obj : Made(b, words, late)
    BY <1>1, <1>6, CreateStep
  <2> DEFINE e == NewElement(b)
  <2>2. /\ elem' = [elem EXCEPT ![b] = e]
        /\ \A o \in Object : refs[o] \subseteq refs'[o]
        /\ \A g \in Fields : e[g] # None => <<b, g>> \in refs'[e[g]]
    BY <2>1 DEF Made
  <2> HIDE DEF e
  <2>3. CASE a = b
    <3>1. elem'[a] = e
      BY <1>1, <2>2, <2>3
    <3> QED BY <2>2, <2>3, <3>1
  <2>4. CASE a # b
    <3>1. elem'[a] = elem[a]
      BY <1>1, <2>2, <2>4
    <3> QED BY <1>2, <2>2, <3>1
  <2> QED BY <2>3, <2>4
<1>7. CASE CompileItems \/ CompileProperty
  <2>1. elem' = elem /\ \A o \in Object : refs[o] \subseteq refs'[o]
    BY <1>1, <1>7, Descent
  <2> QED BY <1>2, <2>1
<1>8. CASE FormatError
  BY <1>2, <1>8 DEF FormatError
<1>9. CASE Return
  <2>1. refs' = Bounced(refs) /\ Same(a)
    BY <1>1, <1>9, ReturnStep
  <2>2. elem[a] # None /\ elem'[a][f] = elem[a][f]
    BY <2>1 DEF Same
  <2> QED BY <1>1, <1>2, <1>3, <2>1, <2>2
<1>10. CASE FreeRoot
  <2>1. PICK as \in SUBSET Addr : Gone(as) /\ refs' = Release(as, refs)
    BY <1>1, <1>10, RootStep
  <2> QED BY <1>4, <2>1
<1>11. ASSUME NEW p \in Object, Convert(p) \/ Forget(p) PROVE <<a, f>> \in refs'[elem'[a][f]]
  <2>1. elem' = elem /\ \A q \in Object : \A h \in refs[q] : h = Script \/ h \in refs'[q]
    BY <1>1, <1>11, ScriptStep
  <2> QED BY <1>2, <2>1, Outside
<1>12. CASE UNCHANGED vars
  BY <1>2, <1>12 DEF vars
<1> QED BY <1>5, <1>6, <1>7, <1>8, <1>9, <1>10, <1>11, <1>12 DEF Next, Step

\* The patterns with a compiled form are tjv's own, and nothing converts them.
LEMMA PatternsStep ==
  ASSUME IInv, [Next]_vars
  PROVE  PatternsOwn' /\ PatternCachesIntact'
PROOF
<1>1. /\ TypeOK /\ FramesInv /\ PatternsOwn /\ PatternCachesIntact /\ ScriptHoldsItsOwn /\ schema \in Schemas
      /\ refs \in [Object -> SUBSET Holder] /\ elem \in [Addr -> Element \cup {None}]
  BY DEF IInv, TypeOK
<1>2. "pattern" \in Fields
  BY DEF Fields
<1>3. ASSUME NEW a \in Addr, Cacheable(a)
      PROVE  /\ elem[a].pattern \notin Obj /\ <<a, "pattern">> \in intact
             /\ \A words \in SUBSET Obj : <<a, "pattern">> \notin Stale(words)
  BY <1>1, <1>3 DEF PatternsOwn, PatternCachesIntact, Stale
<1> SUFFICES ASSUME NEW a \in Addr, Cacheable(a)'
             PROVE  elem'[a].pattern \notin Obj /\ <<a, "pattern">> \in intact'
  BY DEF PatternsOwn, PatternCachesIntact
<1>4. ASSUME schema' = schema, elem'[a] = elem[a] PROVE Cacheable(a)
  BY <1>4 DEF Cacheable
<1>5. elem'[a] # None /\ elem'[a].pattern # None /\ schema'[elem'[a].node].match # "glob"
  BY DEF Cacheable
<1>6. CASE Reject \/ Unwind
  <2>1. PICK as \in SUBSET Addr, words \in SUBSET Obj :
          Gone(as) /\ intact' = (intact \ Stale(words)) \ (as \X Fields)
    BY <1>1, <1>6, NullStep
  <2>2. a \notin as /\ elem'[a] = elem[a]
    BY <1>5, <2>1 DEF Gone
  <2>3. Cacheable(a)
    BY <1>1, <1>4, <1>6, <2>2, NullStep
  <2> QED BY <1>3, <2>1, <2>2, <2>3
<1>7. CASE Create
  <2>1. PICK b \in Addr, words \in SUBSET Obj, late \in SUBSET Obj : Made(b, words, late)
    BY <1>1, <1>7, CreateStep
  <2> DEFINE e == NewElement(b)
  <2>2. /\ elem' = [elem EXCEPT ![b] = e]
        /\ intact' = (intact \ Stale(words)) \cup Caches(b, e, late)
    BY <2>1 DEF Made
  <2>3. schema' = schema
    BY <1>1, <1>7, CreateStep
  <2>4. CASE a = b
    <3>1. elem'[a] = e
      BY <1>1, <2>2, <2>4
    <3>2. e.node = Top.node
      BY DEF NewElement
    <3>3. e.pattern # None /\ Written.match # "glob"
      BY <1>5, <2>3, <3>1, <3>2 DEF Written
    <3>4. <<a, "pattern">> \in Caches(b, e, late)
      BY <2>4, <3>3 DEF Caches
    <3>5. e.pattern \notin Obj
      <4>1. e.pattern = Pattern(b)
        BY <3>3 DEF NewElement
      <4>2. Pattern(b) \in {Cached, Copy(b)}
        BY <3>3, <4>1 DEF Pattern
      <4> QED BY <4>1, <4>2, CompileAssumption
    <3> HIDE DEF e
    <3> QED BY <2>2, <3>1, <3>4, <3>5
  <2>5. CASE a # b
    <3>1. elem'[a] = elem[a]
      BY <1>1, <2>2, <2>5
    <3> QED BY <1>3, <1>4, <2>2, <2>3, <3>1
  <2> QED BY <2>4, <2>5
<1>8. CASE CompileItems \/ CompileProperty
  <2>1. UNCHANGED <<schema, elem, intact>>
    BY <1>1, <1>8, Descent
  <2> QED BY <1>3, <1>4, <2>1
<1>9. CASE FormatError
  BY <1>3, <1>4, <1>9 DEF FormatError
<1>10. CASE Return
  <2>1. UNCHANGED <<schema, intact>> /\ Same(a)
    BY <1>1, <1>10, ReturnStep
  <2>2. elem'[a].pattern = elem[a].pattern /\ Cacheable(a)
    BY <1>2, <1>5, <2>1 DEF Same, Cacheable
  <2> QED BY <1>3, <2>1, <2>2
<1>11. CASE FreeRoot
  <2>1. PICK as \in SUBSET Addr : Gone(as) /\ intact' = intact \ (as \X Fields)
    BY <1>1, <1>11, RootStep
  <2>2. a \notin as /\ elem'[a] = elem[a]
    BY <1>5, <2>1 DEF Gone
  <2>3. Cacheable(a)
    BY <1>1, <1>4, <1>11, <2>2, RootStep
  <2> QED BY <1>3, <2>1, <2>2, <2>3
<1>12. ASSUME NEW p \in Object, Convert(p) \/ Forget(p)
       PROVE  elem'[a].pattern \notin Obj /\ <<a, "pattern">> \in intact'
  <2>1. /\ UNCHANGED <<schema, elem>>
        /\ intact' = intact \/ (intact' = intact \ Stale({p}) /\ Script \in refs[p])
    BY <1>1, <1>12, ScriptStep
  <2>2. Script \in refs[p] => {p} \in SUBSET Obj
    BY <1>1 DEF ScriptHoldsItsOwn
  <2> QED BY <1>3, <1>4, <2>1, <2>2
<1>13. CASE UNCHANGED vars
  BY <1>3, <1>4, <1>13 DEF vars
<1> QED BY <1>6, <1>7, <1>8, <1>9, <1>10, <1>11, <1>12, <1>13 DEF Next, Step

----------------------------------------------------------------------------
(* The theorems.                                                           *)

\* A step keeps the invariant.
LEMMA NextInv == IInv /\ [Next]_vars => IInv'
PROOF
<1> SUFFICES ASSUME IInv, [Next]_vars PROVE IInv'
  OBVIOUS
<1>1. TypeOK' /\ ScriptHoldsItsOwn' /\ FramesInv' /\ FlagsInv' /\ OwnersInv'
      /\ NoDanglingReference' /\ PatternsOwn' /\ PatternCachesIntact'
  BY TypeStep, ScriptHoldsItsOwnStep, FramesStep, FlagsStep, OwnersStep, NoDanglingStep, PatternsStep
     DEF IInv
<1>2. schema' = schema
  <2>1. TypeOK /\ FramesInv /\ schema \in Schemas
    BY DEF IInv
  <2>2. CASE Reject \/ Unwind
    BY <2>1, <2>2, NullStep
  <2>3. CASE Create \/ CompileItems \/ CompileProperty \/ Return
    BY <2>1, <2>3, CreateStep, Descent, ReturnStep
  <2>4. CASE FormatError \/ FreeRoot
    BY <2>4 DEF FormatError, FreeRoot
  <2>5. ASSUME NEW o \in Object, Convert(o) \/ Forget(o) PROVE schema' = schema
    BY <2>1, <2>5, ScriptStep
  <2>6. CASE UNCHANGED vars
    BY <2>6 DEF vars
  <2> QED BY <2>2, <2>3, <2>4, <2>5, <2>6 DEF Next, Step
<1> QED BY <1>1, <1>2 DEF IInv

\* The invariant holds throughout.
LEMMA Invariance == Spec => []IInv
PROOF
<1> QED BY InitInv, NextInv, PTL DEF Spec

\* The state keeps its types.
THEOREM CompileTypes == Spec => []TypeOK
PROOF
<1>1. IInv => TypeOK
  BY DEF IInv
<1> QED BY <1>1, Invariance, PTL

\* An element never points to an object it holds no reference to, whatever
\* order the compiler, its error paths and the script release theirs in
\* (tjvCompile.c:138-236, 792-805).
THEOREM ReferencesAreHeld == Spec => []NoDanglingReference
PROOF
<1>1. IInv => NoDanglingReference
  BY DEF IInv
<1> QED BY <1>1, Invariance, PTL

\* The compiled regexps and split list patterns stay valid as long as their
\* element (tjvCompile.c:637-668).
THEOREM PatternsStayCompiled == Spec => []PatternCachesIntact
PROOF
<1>1. IInv => PatternCachesIntact
  BY DEF IInv
<1> QED BY <1>1, Invariance, PTL

=============================================================================
