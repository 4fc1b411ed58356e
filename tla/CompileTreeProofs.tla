------------------------- MODULE CompileTreeProofs -------------------------
(***************************************************************************)
(* What Compile promises about the tree of elements, for every set of      *)
(* schemas: every element has one owner, a compiled schema is that of the  *)
(* nodes, nothing but the format of a json item is left allocated or keeps *)
(* its references, and errors name the way to the fault.                   *)
(***************************************************************************)
EXTENDS CompileProofs

----------------------------------------------------------------------------
(* The inductive invariant.                                                *)

\* The flag an element ends with.
Final(n) ==
  IF IsItem(schema, n) /\ schema[n].type # "array" THEN "skip" ELSE Flag(schema[n])

\* The nodes of an element's children, and the first k children of a node.
KidNodes(f, a) == {f[b].node : b \in f[a].kids}
FirstChildren(s, n, k) == {s[n].children[j] : j \in 1..k}

\* The calls under way lead from the root to the innermost one, each at the
\* child that it waits for.
CallsInv ==
  /\ stack # << >> => stack[1].node = Root
  /\ \A i \in 1..Len(stack) : LET w == schema[stack[i].node] IN
       /\ stack[i].next <= Len(w.children) + 1
       /\ stack[i].rc = None => i = Len(stack) /\ ~failed /\ stack[i].next = 1
       /\ i < Len(stack) =>
            /\ w.fault = "none" /\ stack[i].next \in DOMAIN w.children
            /\ stack[i + 1].node = w.children[stack[i].next]

\* The element of a call is allocated, is that of its node, and has the children
\* that have been compiled so far.
CallElementsInv ==
  \A i \in 1..Len(stack) : LET r == stack[i].rc n == stack[i].node IN
    r # None =>
      /\ elem[r] # None /\ elem[r].node = n
      /\ KidNodes(elem, r) = FirstChildren(schema, n, stack[i].next - 1)
      /\ schema[n].fault = "none" => elem[r].flag = Flag(schema[n])
      /\ \A j \in 1..Len(stack) : stack[j].rc = r => j = i

Finished(a) == elem[a] # None /\ \A i \in 1..Len(stack) : stack[i].rc # a

\* An element is as it was written, as far as its call has come.
ElementsInv ==
  \A a \in Addr : elem[a] # None => LET e == elem[a] n == e.node w == schema[n] IN
    /\ e.type = w.type
    /\ \A b, c \in e.kids : elem[b].node = elem[c].node => b = c
    /\ w.fault # "outkey" => e.outkey = w.outkey
    /\ w.fault # "outkey" /\ n # Root /\ ~IsItem(schema, n) => e.key = w.key
    /\ Finished(a) =>
         /\ w.fault = "none" /\ e.flag = Final(n)
         /\ KidNodes(elem, a) = ToSet(w.children)
         /\ n = Root => phase = "compiled" /\ a = root

RootInv ==
  phase = "compiled" =>
    /\ ~failed
    /\ root \in Addr /\ elem[root] # None /\ elem[root].node = Root

\* The elements that are reached from one, when F gives those that each leads to.
Reach(F, a) ==
  {b \in Addr : \A S \in SUBSET Addr : (a \in S /\ \A c \in S : F[c] \subseteq S) => b \in S}

Follows == [c \in Addr |-> Followed(c)]

\* An element will be freed with a call under way or with the command, or it
\* was lost.
Held(a) ==
  \/ \E i \in 1..Len(stack) : stack[i].rc # None /\ a \in Reach(Follows, stack[i].rc)
  \/ phase = "compiled" /\ a \in Reach(Follows, root)

HeldInv == \A a \in Addr : elem[a] # None => Held(a) \/ Lost(a)

\* While the calls return NULL, the message has the keys below the innermost.
Place(n) == IF schema[n].fault = "element" THEN Parent(schema, n) ELSE n

ReportInv ==
  /\ ~failed => report = << >>
  /\ failed => \E n \in Node :
       /\ schema[n].fault # "none" /\ Place(n) \in Node
       /\ Path(schema)[Place(n)] =
            (IF stack = << >> THEN << >> ELSE Path(schema)[Top.node]) \o report

TreeInv ==
  /\ CallsInv /\ CallElementsInv /\ ElementsInv /\ RootInv /\ ElementsHaveOneOwner
  /\ HeldInv /\ ReportInv

----------------------------------------------------------------------------
(* The recursive functions of a schema.                                    *)

\* A node has at most one parent, which is written before it.
LEMMA ParentOf ==
  ASSUME NEW s \in Schemas, NEW n \in Node, Parents(s, n) # {}
  PROVE  /\ Parent(s, n) \in Node /\ Parent(s, n) < n /\ n # Root
         /\ n \in ToSet(s[Parent(s, n)].children)
         /\ \A m \in Node : n \in ToSet(s[m].children) => m = Parent(s, n)
PROOF
<1>1. Parent(s, n) \in Parents(s, n)
  BY DEF Parent, Parents
<1>2. Parent(s, n) \in Node /\ n \in ToSet(s[Parent(s, n)].children)
  BY <1>1 DEF Parents
<1>3. PICK i \in DOMAIN s[Parent(s, n)].children : n = s[Parent(s, n)].children[i]
  BY <1>2 DEF ToSet
<1>4. Parent(s, n) < n /\ n # Root
  BY <1>2, <1>3, CompileAssumption
<1>5. ASSUME NEW m \in Node, n \in ToSet(s[m].children) PROVE m = Parent(s, n)
  <2>1. PICK j \in DOMAIN s[m].children : n = s[m].children[j]
    BY <1>5 DEF ToSet
  <2> QED BY <2>1, <1>2, <1>3, CompileAssumption
<1> QED BY <1>2, <1>4, <1>5

LEMMA PathDefined ==
  ASSUME NEW s \in Schemas, NEW n \in Node
  PROVE  Path(s)[n] =
           IF Parents(s, n) = {} THEN << >>
           ELSE Path(s)[Parent(s, n)]
                  \o (IF s[Parent(s, n)].form = "properties" THEN <<s[n].key>> ELSE << >>)
PROOF
<1> DEFINE Body(g, m) ==
      IF Parents(s, m) = {} THEN << >>
      ELSE g[Parent(s, m)] \o (IF s[Parent(s, m)].form = "properties" THEN <<s[m].key>> ELSE << >>)
<1> DEFINE K == {k \in Nat : \E g : \A m \in Node : m <= k => g[m] = Body(g, m)}
<1>1. 0 \in K
  BY DEF Node
<1>2. ASSUME NEW k \in Nat, k \in K PROVE k + 1 \in K
  <2>1. PICK g : \A m \in Node : m <= k => g[m] = Body(g, m)
    BY <1>2
  <2> DEFINE h == [m \in Node |-> IF m = k + 1 THEN Body(g, m) ELSE g[m]]
  <2>2. ASSUME NEW m \in Node, m <= k + 1 PROVE h[m] = Body(h, m)
    <3>1. h[m] = Body(g, m)
      <4>1. m = k + 1 \/ m <= k
        BY <2>2 DEF Node
      <4> QED BY <2>1, <4>1
    <3>2. Parents(s, m) # {} => h[Parent(s, m)] = g[Parent(s, m)]
      <4> SUFFICES ASSUME Parents(s, m) # {} PROVE h[Parent(s, m)] = g[Parent(s, m)]
        OBVIOUS
      <4>1. Parent(s, m) \in Node /\ Parent(s, m) < m
        BY ParentOf
      <4>2. Parent(s, m) # k + 1
        BY <4>1, <2>2 DEF Node
      <4> QED BY <4>1, <4>2
    <3> QED BY <3>1, <3>2
  <2> HIDE DEF h, Body
  <2> QED BY <2>2
<1>3. Nodes \in K
  <2> HIDE DEF K
  <2>1. Nat \subseteq K
    BY <1>1, <1>2, CountingUp
  <2> QED BY <2>1, CompileAssumption
<1>4. PICK g : \A m \in Node : g[m] = Body(g, m)
  <2> HIDE DEF Body
  <2>1. \A m \in Node : m <= Nodes
    BY CompileAssumption DEF Node
  <2> QED BY <1>3, <2>1
<1> DEFINE f == [m \in Node |-> g[m]]
<1>5. f = [m \in Node |-> Body(f, m)]
  <2>1. ASSUME NEW m \in Node PROVE g[m] = Body(f, m)
    <3>1. Parents(s, m) # {} => f[Parent(s, m)] = g[Parent(s, m)]
      BY ParentOf
    <3> QED BY <1>4, <3>1
  <2> QED BY <2>1
<1>6. Path(s) = [m \in Node |-> Body(Path(s), m)]
  <2> HIDE DEF f
  <2> QED BY <1>5 DEF Path
<1> HIDE DEF Body
<1>7. Path(s)[n] = Body(Path(s), n)
  BY <1>6
<1> QED BY <1>7 DEF Body

LEMMA AboveDefined ==
  ASSUME NEW s \in Schemas, NEW n \in Node
  PROVE  Above(s)[n] =
           IF Parents(s, n) = {} THEN {} ELSE Above(s)[Parent(s, n)] \cup {Parent(s, n)}
PROOF
<1> DEFINE Body(g, m) ==
      IF Parents(s, m) = {} THEN {} ELSE g[Parent(s, m)] \cup {Parent(s, m)}
<1> DEFINE K == {k \in Nat : \E g : \A m \in Node : m <= k => g[m] = Body(g, m)}
<1>1. 0 \in K
  BY DEF Node
<1>2. ASSUME NEW k \in Nat, k \in K PROVE k + 1 \in K
  <2>1. PICK g : \A m \in Node : m <= k => g[m] = Body(g, m)
    BY <1>2
  <2> DEFINE h == [m \in Node |-> IF m = k + 1 THEN Body(g, m) ELSE g[m]]
  <2>2. ASSUME NEW m \in Node, m <= k + 1 PROVE h[m] = Body(h, m)
    <3>1. h[m] = Body(g, m)
      <4>1. m = k + 1 \/ m <= k
        BY <2>2 DEF Node
      <4> QED BY <2>1, <4>1
    <3>2. Parents(s, m) # {} => h[Parent(s, m)] = g[Parent(s, m)]
      <4> SUFFICES ASSUME Parents(s, m) # {} PROVE h[Parent(s, m)] = g[Parent(s, m)]
        OBVIOUS
      <4>1. Parent(s, m) \in Node /\ Parent(s, m) < m
        BY ParentOf
      <4>2. Parent(s, m) # k + 1
        BY <4>1, <2>2 DEF Node
      <4> QED BY <4>1, <4>2
    <3> QED BY <3>1, <3>2
  <2> HIDE DEF h, Body
  <2> QED BY <2>2
<1>3. Nodes \in K
  <2> HIDE DEF K
  <2>1. Nat \subseteq K
    BY <1>1, <1>2, CountingUp
  <2> QED BY <2>1, CompileAssumption
<1>4. PICK g : \A m \in Node : g[m] = Body(g, m)
  <2> HIDE DEF Body
  <2>1. \A m \in Node : m <= Nodes
    BY CompileAssumption DEF Node
  <2> QED BY <1>3, <2>1
<1> DEFINE f == [m \in Node |-> g[m]]
<1>5. f = [m \in Node |-> Body(f, m)]
  <2>1. ASSUME NEW m \in Node PROVE g[m] = Body(f, m)
    <3>1. Parents(s, m) # {} => f[Parent(s, m)] = g[Parent(s, m)]
      BY ParentOf
    <3> QED BY <1>4, <3>1
  <2> QED BY <2>1
<1>6. Above(s) = [m \in Node |-> Body(Above(s), m)]
  <2> HIDE DEF f
  <2> QED BY <1>5 DEF Above
<1> HIDE DEF Body
<1>7. Above(s)[n] = Body(Above(s), n)
  BY <1>6
<1> QED BY <1>7 DEF Body

\* The way to a node is a sequence of keys.
LEMMA PathType ==
  ASSUME NEW s \in Schemas, NEW n \in Node
  PROVE  Path(s)[n] \in Seq(Obj \cup {None})
PROOF
<1> DEFINE S == {m \in Node : Path(s)[m] \notin Seq(Obj \cup {None})}
<1> SUFFICES ASSUME S # {} PROVE FALSE
  OBVIOUS
<1>1. S \subseteq Nat
  BY DEF Node
<1>2. PICK m \in S : \A k \in S : m <= k
  <2> HIDE DEF S
  <2> QED BY <1>1, LeastNatural
<1>3. m \in Node /\ Path(s)[m] \notin Seq(Obj \cup {None})
  OBVIOUS
<1>4. Parents(s, m) # {}
  <2>1. << >> \in Seq(Obj \cup {None})
    OBVIOUS
  <2>2. Parents(s, m) = {} => Path(s)[m] = << >>
    BY <1>3, PathDefined
  <2> QED BY <1>3, <2>1, <2>2
<1>5. Parent(s, m) \in Node /\ Parent(s, m) < m /\ m \in Nat
  BY <1>3, <1>4, ParentOf DEF Node
<1>6. Path(s)[Parent(s, m)] \in Seq(Obj \cup {None})
  <2>1. Parent(s, m) \notin S
    BY <1>2, <1>5, <1>1
  <2> QED BY <2>1, <1>5
<1>7. s[m].key \in Obj \cup {None}
  BY <1>3, CompileAssumption DEF SchemaNode
<1>8. (IF s[Parent(s, m)].form = "properties" THEN <<s[m].key>> ELSE << >>) \in Seq(Obj \cup {None})
  <2>1. << >> \in Seq(Obj \cup {None}) /\ <<s[m].key>> \in Seq(Obj \cup {None})
    BY <1>7
  <2> QED BY <2>1
<1>9. Path(s)[Parent(s, m)]
        \o (IF s[Parent(s, m)].form = "properties" THEN <<s[m].key>> ELSE << >>)
          \in Seq(Obj \cup {None})
  BY <1>6, <1>8, ConcatProperties
<1>10. Path(s)[m] = Path(s)[Parent(s, m)]
        \o (IF s[Parent(s, m)].form = "properties" THEN <<s[m].key>> ELSE << >>)
  BY <1>3, <1>4, PathDefined
<1> QED BY <1>3, <1>9, <1>10

----------------------------------------------------------------------------
(* What tjv_ValidationElementFree reaches.                                 *)

\* The least set: every set that has the first and follows on has all of them.
LEMMA ReachLeast ==
  ASSUME NEW F, NEW a, NEW S \in SUBSET Addr, a \in S, \A c \in S : F[c] \subseteq S
  PROVE  Reach(F, a) \subseteq S
BY DEF Reach

LEMMA ReachClosed ==
  ASSUME NEW F \in [Addr -> SUBSET Addr], NEW a \in Addr
  PROVE  /\ a \in Reach(F, a) /\ Reach(F, a) \subseteq Addr
         /\ \A c \in Reach(F, a) : F[c] \subseteq Reach(F, a)
PROOF
<1>1. a \in Reach(F, a) /\ Reach(F, a) \subseteq Addr
  BY DEF Reach
<1>2. ASSUME NEW c \in Reach(F, a), NEW b \in F[c] PROVE b \in Reach(F, a)
  <2>1. b \in Addr
    BY <1>1, <1>2
  <2>2. ASSUME NEW S \in SUBSET Addr, a \in S, \A d \in S : F[d] \subseteq S PROVE b \in S
    BY <1>2, <2>2 DEF Reach
  <2> QED BY <2>1, <2>2 DEF Reach
<1> QED BY <1>1, <1>2

\* What is reached is the first element, or one that another leads to.
LEMMA ReachThrough ==
  ASSUME NEW F \in [Addr -> SUBSET Addr], NEW a \in Addr, NEW b \in Reach(F, a), b # a
  PROVE  \E c \in Reach(F, a) : b \in F[c]
PROOF
<1> DEFINE R == Reach(F, a)
           S == {d \in R : d = a \/ \E c \in R : d \in F[c]}
<1>1. a \in R /\ R \subseteq Addr /\ \A c \in R : F[c] \subseteq R
  BY ReachClosed
<1> HIDE DEF R
<1>2. a \in S /\ S \in SUBSET Addr /\ \A c \in S : F[c] \subseteq S
  BY <1>1
<1>3. R \subseteq S
  <2> HIDE DEF S
  <2> QED BY <1>2, ReachLeast DEF R
<1>4. b \in S
  BY <1>3 DEF R
<1> QED BY <1>4 DEF R

\* Leading to more reaches more, and what is reached reaches no more.
LEMMA ReachMore ==
  ASSUME NEW F \in [Addr -> SUBSET Addr], NEW G \in [Addr -> SUBSET Addr], NEW a \in Addr,
         \A c \in Addr : F[c] \subseteq G[c]
  PROVE  Reach(F, a) \subseteq Reach(G, a)
PROOF
<1>1. /\ a \in Reach(G, a) /\ Reach(G, a) \in SUBSET Addr
      /\ \A c \in Reach(G, a) : F[c] \subseteq Reach(G, a)
  BY ReachClosed
<1> QED BY <1>1, ReachLeast

LEMMA ReachOn ==
  ASSUME NEW F \in [Addr -> SUBSET Addr], NEW a \in Addr, NEW b \in Reach(F, a)
  PROVE  Reach(F, b) \subseteq Reach(F, a)
BY ReachClosed, ReachLeast

\* The elements that a call frees are those it reaches through the children.
LEMMA FreedIsReach == \A a : Freed(a) = Reach(Follows, a)
PROOF
<1>1. ASSUME NEW S \in SUBSET Addr PROVE
        (\A c \in S : Followed(c) \subseteq S) <=> (\A c \in S : Follows[c] \subseteq S)
  BY DEF Follows
<1> QED BY <1>1 DEF Freed, Reach

LEMMA FollowsType ==
  ASSUME TypeOK
  PROVE  /\ Follows \in [Addr -> SUBSET Addr]
         /\ \A a \in Addr : Follows[a] = Followed(a)
         /\ \A a \in Addr : elem[a] # None => elem[a].kids \subseteq Addr /\ Followed(a) \subseteq elem[a].kids
         /\ \A a \in Addr : elem[a] = None => Followed(a) = {}
PROOF
<1>1. \A a \in Addr : elem[a] # None => elem[a] \in Element
  BY DEF TypeOK
<1>2. \A a \in Addr : elem[a] # None => elem[a].kids \subseteq Addr
  BY <1>1 DEF Element
<1>3. \A a \in Addr : Followed(a) \subseteq (IF elem[a] # None THEN elem[a].kids ELSE {})
  BY DEF Followed
<1> QED BY <1>2, <1>3 DEF Follows

\* An element that no other has for a child: with what it reaches goes the
\* parent of everything else that it reaches.
LEMMA FreedUpward ==
  ASSUME TypeOK, ElementsHaveOneOwner, NEW r \in Addr,
         \A a \in Addr : elem[a] # None => r \notin elem[a].kids
  PROVE  /\ r \in Freed(r) /\ Freed(r) \in SUBSET Addr
         /\ \A a \in Freed(r) : Followed(a) \subseteq Freed(r)
         /\ \A a \in Addr : elem[a] # None =>
              \A b \in elem[a].kids : b \in Freed(r) => a \in Freed(r)
         /\ \A b \in Freed(r) : b # r => \E a \in Addr : elem[a] # None /\ b \in elem[a].kids
PROOF
<1>1. /\ r \in Freed(r) /\ Freed(r) \in SUBSET Addr
      /\ \A a \in Freed(r) : Followed(a) \subseteq Freed(r)
  BY FollowsType, FreedIsReach, ReachClosed
<1>2. ASSUME NEW b \in Freed(r), b # r
      PROVE  \E c \in Freed(r) : elem[c] # None /\ b \in elem[c].kids
  <2>1. PICK c \in Freed(r) : b \in Follows[c]
    BY <1>2, FollowsType, FreedIsReach, ReachThrough
  <2> QED BY <1>1, <2>1, FollowsType
<1>3. ASSUME NEW a \in Addr, elem[a] # None, NEW b \in elem[a].kids, b \in Freed(r)
      PROVE  a \in Freed(r)
  <2>1. PICK c \in Freed(r) : elem[c] # None /\ b \in elem[c].kids
    BY <1>2, <1>3
  <2>2. c = a
    BY <1>1, <1>3, <2>1 DEF ElementsHaveOneOwner
  <2> QED BY <2>1, <2>2
<1> QED BY <1>1, <1>2, <1>3

\* The elements that go are whole branches.
Dying(as) ==
  /\ as \in SUBSET Addr /\ Gone(as) /\ schema' = schema
  /\ \A a \in as : elem'[a] = None /\ Followed(a) \subseteq as
  /\ \A a \in Addr : elem[a] # None => \A b \in elem[a].kids : b \in as => a \in as

\* A call that returns NULL leaves the calls around it and their elements.
LEMMA Pop ==
  ASSUME IInv, TreeInv, Reject \/ Unwind
  PROVE  /\ phase = "compiling" /\ stack # << >> /\ failed' = TRUE /\ root' = root
         /\ stack' \in Seq(Frame) /\ Len(stack') = Len(stack) - 1
         /\ \A k \in 1..(Len(stack) - 1) : stack'[k] = stack[k]
         /\ phase' = AfterNull /\ report' = Report
         /\ \E as : /\ Dying(as) /\ (Reject => as = {})
                    /\ \A i \in 1..Len(stack) : stack[i].rc # None =>
                         (stack[i].rc \in as <=> i = Len(stack))
PROOF
<1>1. /\ phase = "compiling" /\ stack # << >> /\ schema' = schema /\ failed' = TRUE
      /\ stack' \in Seq(Frame) /\ Len(stack') = Len(stack) - 1
      /\ \A k \in 1..(Len(stack) - 1) : stack'[k] = stack[k]
  BY NullStep DEF IInv
<1>2. root' = root /\ phase' = AfterNull /\ report' = Report
  BY DEF Reject, Unwind, ReturnNull
<1>3. TypeOK /\ ElementsHaveOneOwner /\ CallsInv /\ CallElementsInv
  BY DEF IInv, TreeInv
<1>4. Len(stack) \in Nat \ {0} /\ Top = stack[Len(stack)] /\ Len(stack) \in 1..Len(stack)
      /\ \A i \in 1..Len(stack) : stack[i].rc \in Addr \cup {None}
  <2>1. Len(stack) \in Nat \ {0} /\ \A i \in 1..Len(stack) : stack[i] \in Frame
    BY <1>1, <1>3, Calls DEF TypeOK
  <2> QED BY <2>1 DEF Frame, Top
<1>5. CASE Reject
  <2>1. Dying({})
    BY <1>1, <1>5 DEF Dying, Gone, Reject
  <2>2. Top.rc = None
    BY <1>5 DEF Reject
  <2>3. \A i \in 1..Len(stack) : stack[i].rc # None => (stack[i].rc \in {} <=> i = Len(stack))
    BY <1>4, <2>2
  <2> QED BY <1>1, <1>2, <2>1, <2>3
<1>6. CASE Unwind
  <2> DEFINE as == Freed(Top.rc)
  <2>1. failed /\ Free(as) /\ ~Reject
    BY <1>6 DEF Unwind, Reject, Compiling
  <2>2. Top.rc \in Addr
    BY <1>3, <1>4, <2>1 DEF CallsInv
  <2>3. \A a \in Addr : elem[a] # None => Top.rc \notin elem[a].kids
    <3>1. Len(stack) \in DOMAIN stack
      BY <1>1, <1>3, Calls
    <3> QED BY <1>3, <1>4, <3>1 DEF ElementsHaveOneOwner
  <2>4. /\ Top.rc \in as /\ as \in SUBSET Addr
        /\ \A a \in as : Followed(a) \subseteq as
        /\ \A a \in Addr : elem[a] # None => \A b \in elem[a].kids : b \in as => a \in as
        /\ \A b \in as : b # Top.rc => \E a \in Addr : elem[a] # None /\ b \in elem[a].kids
    BY <1>3, <2>2, <2>3, FreedUpward
  <2> HIDE DEF as
  <2>5. \A a \in as : elem'[a] = None
    BY <2>1, <2>4 DEF Free
  <2>6. Dying(as)
    BY <1>1, <1>3, <2>1, <2>4, <2>5, FreeGone DEF Dying
  <2>7. ASSUME NEW i \in 1..Len(stack), stack[i].rc # None, stack[i].rc \in as PROVE i = Len(stack)
    <3>1. i \in DOMAIN stack
      BY <1>3 DEF TypeOK
    <3>2. stack[i].rc = Top.rc
      <4>1. SUFFICES ASSUME stack[i].rc # Top.rc PROVE FALSE
        OBVIOUS
      <4>2. PICK a \in Addr : elem[a] # None /\ stack[i].rc \in elem[a].kids
        BY <2>4, <2>7, <4>1
      <4> QED BY <1>3, <3>1, <4>2 DEF ElementsHaveOneOwner
    <3> QED BY <1>3, <1>4, <2>2, <2>7, <3>2, CompileAssumption DEF CallElementsInv
  <2>8. \A i \in 1..Len(stack) : stack[i].rc # None => (stack[i].rc \in as <=> i = Len(stack))
    BY <1>4, <2>4, <2>7
  <2> QED BY <1>1, <1>2, <2>1, <2>6, <2>8
<1> QED BY <1>5, <1>6

\* Deleting the compiled element.
LEMMA Delete ==
  ASSUME IInv, TreeInv, FreeRoot
  PROVE  /\ phase = "compiled" /\ phase' = "over" /\ stack = << >>
         /\ UNCHANGED <<schema, stack, failed, report, root>>
         /\ root \in Freed(root) /\ Dying(Freed(root))
PROOF
<1>1. /\ phase = "compiled" /\ phase' = "over" /\ stack = << >>
      /\ UNCHANGED <<schema, stack, failed, report, root>> /\ Free(Freed(root))
  BY DEF FreeRoot, IInv, TypeOK
<1>2. TypeOK /\ ElementsHaveOneOwner /\ root \in Addr
  BY <1>1 DEF IInv, TreeInv, RootInv
<1>3. \A a \in Addr : elem[a] # None => root \notin elem[a].kids
  BY <1>1, <1>2 DEF ElementsHaveOneOwner
<1>4. /\ root \in Freed(root) /\ Freed(root) \in SUBSET Addr
      /\ \A a \in Freed(root) : Followed(a) \subseteq Freed(root)
      /\ \A a \in Addr : elem[a] # None =>
           \A b \in elem[a].kids : b \in Freed(root) => a \in Freed(root)
  BY <1>2, <1>3, FreedUpward
<1> DEFINE as == Freed(root)
<1> HIDE DEF as
<1>5. Free(as) /\ as \in SUBSET Addr
  BY <1>1, <1>4 DEF as
<1>6. Gone(as) /\ \A a \in as : elem'[a] = None
  BY <1>2, <1>5, FreeGone DEF Free
<1> QED BY <1>1, <1>4, <1>6 DEF Dying, as

\* The element of a call is allocated.
LEMMA Creation ==
  ASSUME IInv, TreeInv, Create
  PROVE  /\ phase = "compiling" /\ ~failed /\ stack # << >> /\ Top.rc = None /\ Top.next = 1
         /\ UNCHANGED <<schema, phase, report, root>>
         /\ failed' = (Written.fault \in {"outkey", "options", "pattern"})
         /\ \E a \in Addr :
              /\ elem[a] = None /\ elem'[a] # None /\ elem'[a] = NewElement(a)
              /\ \A b \in Addr : b # a => elem'[b] = elem[b]
              /\ stack' \in Seq(Frame) /\ Len(stack') = Len(stack)
              /\ stack'[Len(stack)] = [node |-> Top.node, rc |-> a, next |-> 1]
              /\ \A k \in 1..(Len(stack) - 1) : stack'[k] = stack[k]
PROOF
<1>1. TypeOK /\ FramesInv /\ CallsInv
  BY DEF IInv, TreeInv
<1>2. /\ phase = "compiling" /\ ~failed /\ stack # << >> /\ Top.rc = None
      /\ UNCHANGED <<schema, phase, report, root>>
      /\ \E a \in Addr, words \in SUBSET Obj, late \in SUBSET Obj : Made(a, words, late)
  BY <1>1, CreateStep
<1>3. failed' = (Written.fault \in {"outkey", "options", "pattern"})
  BY DEF Create
<1>4. Len(stack) \in 1..Len(stack) /\ Top \in Frame /\ Top = stack[Len(stack)] /\ Len(stack) \in Nat
  BY <1>1, <1>2, Calls DEF Top
<1>5. Top.next = 1
  BY <1>1, <1>2, <1>4 DEF CallsInv
<1>6. PICK a \in Addr, words \in SUBSET Obj, late \in SUBSET Obj : Made(a, words, late)
  BY <1>2
<1>7. /\ elem[a] = None /\ elem' = [elem EXCEPT ![a] = NewElement(a)] /\ NewElement(a) \in Element
      /\ stack' \in Seq(Frame) /\ Len(stack') = Len(stack)
      /\ stack'[Len(stack)] = [stack[Len(stack)] EXCEPT !.rc = a]
      /\ \A k \in 1..Len(stack) : k # Len(stack) => stack'[k] = stack[k]
  BY <1>6 DEF Made
<1>8. elem'[a] = NewElement(a) /\ elem'[a] # None /\ \A b \in Addr : b # a => elem'[b] = elem[b]
  BY <1>1, <1>7, CompileAssumption DEF TypeOK
<1>9. stack'[Len(stack)] = [node |-> Top.node, rc |-> a, next |-> 1]
  BY <1>4, <1>5, <1>7 DEF Frame
<1>10. \A k \in 1..(Len(stack) - 1) : stack'[k] = stack[k]
  BY <1>4, <1>7
<1> QED BY <1>2, <1>3, <1>5, <1>7, <1>8, <1>9, <1>10

\* A nested format is compiled.
LEMMA Calling ==
  ASSUME IInv, TreeInv, CompileItems \/ CompileProperty
  PROVE  /\ phase = "compiling" /\ ~failed /\ stack # << >> /\ Top.rc # None
         /\ UNCHANGED <<schema, phase, failed, report, root, elem>>
         /\ Written.fault = "none" /\ Top.next \in DOMAIN Written.children
         /\ Written.children[Top.next] \in Node
         /\ stack' \in Seq(Frame) /\ Len(stack') = Len(stack) + 1
         /\ \A k \in 1..Len(stack) : stack'[k] = stack[k]
         /\ stack'[Len(stack) + 1] = [node |-> Written.children[Top.next], rc |-> None, next |-> 1]
PROOF
<1>1. TypeOK /\ FramesInv /\ schema \in Schemas
  BY DEF IInv
<1>2. /\ phase = "compiling" /\ ~failed /\ stack # << >> /\ Top.rc # None
      /\ UNCHANGED <<schema, phase, failed, report, root, elem>>
      /\ Written.fault = "none"
  BY <1>1 DEF CompileItems, CompileProperty, Descending, Compiling, TypeOK
<1>3. Written \in SchemaNode /\ Top.node \in Node /\ Written = schema[Top.node]
  BY <1>1, <1>2, Calls DEF Frame, Written
<1>4. Top.next \in DOMAIN Written.children /\ Call(Written.children[Top.next])
  <2>1. CASE CompileItems
    <3>1. Written.form = "items" /\ Top.next = 1 /\ Call(Written.children[1])
      BY <2>1 DEF CompileItems
    <3>2. Len(Written.children) = 1
      BY <1>1, <1>3, <3>1, CompileAssumption
    <3>3. Written.children \in Seq(Node)
      BY <1>3 DEF SchemaNode
    <3> QED BY <3>1, <3>2, <3>3
  <2>2. CASE CompileProperty
    BY <2>2 DEF CompileProperty, Property
  <2> QED BY <2>1, <2>2
<1>5. Written.children[Top.next] \in Node
  <2>1. Written.children \in Seq(Node)
    BY <1>3 DEF SchemaNode
  <2> QED BY <1>4, <2>1
<1> QED BY <1>1, <1>2, <1>4, <1>5, CallStep

\* The outermost call returns.
LEMMA ReturningLast ==
  ASSUME IInv, TreeInv, Return, ~Nested
  PROVE  /\ phase = "compiling" /\ ~failed /\ stack # << >> /\ Len(stack) = 1 /\ Top.rc \in Addr
         /\ UNCHANGED <<schema, failed, report, elem>>
         /\ phase' = "compiled" /\ root' = Top.rc /\ stack' = << >>
         /\ Top.node = Root /\ Written.fault = "none" /\ Top.next \notin DOMAIN Written.children
PROOF
<1>1. TypeOK /\ FramesInv /\ CallsInv
  BY DEF IInv, TreeInv
<1>2. /\ phase = "compiling" /\ ~failed /\ stack # << >> /\ Top.rc \in Addr
      /\ UNCHANGED <<schema, failed, report>>
  BY <1>1, ReturnStep
<1>3. /\ phase' = "compiled" /\ root' = Top.rc /\ stack' = << >> /\ elem' = elem
      /\ Written.fault = "none" /\ Top.next \notin DOMAIN Written.children
  BY DEF Return
<1>4. Len(stack) = 1
  <2>1. Len(stack) \in Nat /\ Len(stack) # 0 /\ ~(Len(stack) > 1)
    BY <1>1, <1>2, Calls DEF Nested
  <2>2. \A n \in Nat : n # 0 /\ ~(n > 1) => n = 1
    OBVIOUS
  <2> QED BY <2>1, <2>2, Zenon
<1>5. Top.node = Root
  BY <1>1, <1>2, <1>4 DEF CallsInv, Top
<1> QED BY <1>2, <1>3, <1>4, <1>5

\* Another call returns its element t to its caller, which has the element c.
Storing(t, c) ==
  /\ t \in Addr /\ c \in Addr /\ t # c /\ elem[t] # None /\ elem[c] # None
  /\ t = Top.rc /\ c = Caller.rc /\ elem[t].node = Top.node /\ elem[c].node = Caller.node
  /\ elem'[c] = [elem[c] EXCEPT !.kids = elem[c].kids \cup {t}]
  /\ elem'[t] = IF schema[Caller.node].form = "items" /\ elem[t].type # "array"
                THEN [elem[t] EXCEPT !.flag = "skip"] ELSE elem[t]
  /\ \A a \in Addr : a # t /\ a # c => elem'[a] = elem[a]

LEMMA Returning ==
  ASSUME IInv, TreeInv, Return, Nested
  PROVE  /\ phase = "compiling" /\ ~failed /\ stack # << >> /\ Len(stack) > 1
         /\ UNCHANGED <<schema, phase, failed, report, root>>
         /\ Written.fault = "none" /\ Top.next \notin DOMAIN Written.children
         /\ schema[Caller.node].fault = "none" /\ Caller.next \in DOMAIN schema[Caller.node].children
         /\ Top.node = schema[Caller.node].children[Caller.next]
         /\ stack' \in Seq(Frame) /\ Len(stack') = Len(stack) - 1
         /\ stack'[Len(stack) - 1] = [node |-> Caller.node, rc |-> Caller.rc, next |-> Caller.next + 1]
         /\ \A k \in 1..(Len(stack) - 2) : stack'[k] = stack[k]
         /\ \E t \in Addr, c \in Addr : Storing(t, c)
PROOF
<1>1. TypeOK /\ FramesInv /\ CallsInv /\ CallElementsInv
  BY DEF IInv, TreeInv
<1>2. /\ phase = "compiling" /\ ~failed /\ stack # << >> /\ Top.rc \in Addr
      /\ UNCHANGED <<schema, failed, report>>
      /\ stack' \in Seq(Frame) /\ Len(stack') = Len(stack) - 1
  BY <1>1, ReturnStep
<1>3. UNCHANGED <<phase, root>> /\ Written.fault = "none" /\ Top.next \notin DOMAIN Written.children
      /\ stack' = Advanced
  BY DEF Return
<1>4. /\ Len(stack) \in Nat /\ Len(stack) > 1 /\ Caller \in Frame /\ Caller = stack[Len(stack) - 1]
      /\ Len(stack) \in 1..Len(stack) /\ Len(stack) - 1 \in 1..Len(stack) /\ Top = stack[Len(stack)]
      /\ Len(stack) - 1 < Len(stack) /\ (Len(stack) - 1) + 1 = Len(stack)
  BY <1>1, <1>2, Calls DEF Nested, Caller, Top
<1>5. /\ Caller.rc \in Addr /\ schema[Caller.node].fault = "none"
      /\ Caller.next \in DOMAIN schema[Caller.node].children
      /\ Top.node = schema[Caller.node].children[Caller.next]
  <2>1. Caller.rc # None
    <3>1. stack[Len(stack) - 1].rc = None => Len(stack) - 1 = Len(stack)
      BY <1>1, <1>4 DEF CallsInv
    <3>2. \A n \in Nat : n - 1 # n
      OBVIOUS
    <3> QED BY <1>4, <3>1, <3>2
  <2> QED BY <1>1, <1>4, <2>1 DEF CallsInv, Frame
<1>6. /\ elem[Top.rc] # None /\ elem[Caller.rc] # None /\ Top.rc # Caller.rc
      /\ elem[Top.rc].node = Top.node /\ elem[Caller.rc].node = Caller.node
  <2>1. Top.rc # None /\ Caller.rc # None /\ Len(stack) - 1 # Len(stack)
    BY <1>2, <1>4, <1>5, CompileAssumption
  <2> QED BY <1>1, <1>4, <2>1 DEF CallElementsInv
<1>7. /\ stack'[Len(stack) - 1] = [node |-> Caller.node, rc |-> Caller.rc, next |-> Caller.next + 1]
      /\ \A k \in 1..(Len(stack) - 2) : stack'[k] = stack[k]
  <2> DEFINE u == Front(stack)
             i == Len(stack) - 1
  <2>1. u \in Seq(Frame) /\ Len(u) = i /\ \A k \in 1..i : u[k] = stack[k]
    BY <1>1, <1>2, FrontType
  <2>2. i \in DOMAIN u /\ u[i] = Caller /\ DOMAIN u = 1..i /\ i \in Nat
    BY <1>4, <2>1
  <2>3. [u[i] EXCEPT !.next = u[i].next + 1]
          = [node |-> Caller.node, rc |-> Caller.rc, next |-> Caller.next + 1]
    BY <1>4, <2>2 DEF Frame
  <2>4. [u[i] EXCEPT !.next = u[i].next + 1] \in Frame
    BY <1>4, <2>2 DEF Frame
  <2>5. stack' = [u EXCEPT ![i] = [u[i] EXCEPT !.next = u[i].next + 1]]
    BY <1>3 DEF Advanced
  <2> HIDE DEF u, i
  <2>6. /\ stack'[i] = [u[i] EXCEPT !.next = u[i].next + 1]
        /\ \A k \in DOMAIN u : k # i => stack'[k] = u[k]
    BY <2>1, <2>2, <2>4, <2>5, ChangeOne
  <2>7. ASSUME NEW k \in 1..(Len(stack) - 2) PROVE stack'[k] = stack[k]
    <3>1. k \in 1..i /\ k # i
      <4>1. Len(stack) - 2 = i - 1
        BY <1>4 DEF i
      <4> QED BY <2>2, <4>1
    <3> QED BY <2>1, <2>2, <2>6, <3>1
  <2> QED BY <2>3, <2>6, <2>7 DEF i
<1>8. elem' = [a \in Addr |->
               CASE a = Caller.rc -> [elem[a] EXCEPT !.kids = @ \cup {Top.rc}]
                 [] a = Top.rc /\ schema[Caller.node].form = "items" /\ elem[a].type # "array" ->
                      [elem[a] EXCEPT !.flag = "skip"]
                 [] OTHER -> elem[a]]
  BY DEF Return
<1>9. \E t \in Addr, c \in Addr : Storing(t, c)
  <2>1. elem'[Caller.rc] = [elem[Caller.rc] EXCEPT !.kids = elem[Caller.rc].kids \cup {Top.rc}]
    BY <1>5, <1>6, <1>8
  <2>2. elem'[Top.rc] = IF schema[Caller.node].form = "items" /\ elem[Top.rc].type # "array"
                        THEN [elem[Top.rc] EXCEPT !.flag = "skip"] ELSE elem[Top.rc]
    BY <1>2, <1>6, <1>8
  <2>3. \A a \in Addr : a # Top.rc /\ a # Caller.rc => elem'[a] = elem[a]
    BY <1>8
  <2>4. PICK t \in Addr, c \in Addr : t = Top.rc /\ c = Caller.rc
    BY <1>2, <1>5
  <2>5. Storing(t, c)
    BY <1>6, <2>1, <2>2, <2>3, <2>4 DEF Storing
  <2> QED BY <2>5
<1> QED BY <1>2, <1>3, <1>4, <1>5, <1>7, <1>9

----------------------------------------------------------------------------
(* The steps, one conjunct at a time.                                      *)

\* Nothing the tree invariant is about changes.
Quiet == UNCHANGED <<schema, phase, stack, failed, report, root, elem>>

LEMMA QuietStep ==
  ASSUME TreeInv, Quiet
  PROVE  TreeInv'
PROOF
<1>1. /\ schema' = schema /\ phase' = phase /\ stack' = stack /\ failed' = failed
      /\ report' = report /\ root' = root /\ elem' = elem
  BY DEF Quiet
<1>2. CallsInv'
  BY <1>1 DEF TreeInv, CallsInv
<1>3. CallElementsInv'
  BY <1>1 DEF TreeInv, CallElementsInv
<1>4. ElementsInv'
  BY <1>1 DEF TreeInv, ElementsInv, Finished, Final
<1>5. RootInv' /\ ElementsHaveOneOwner'
  BY <1>1 DEF TreeInv, RootInv, ElementsHaveOneOwner
<1>6. HeldInv'
  BY <1>1 DEF TreeInv, HeldInv, Held, Lost, Follows, Followed, ReleasedAs
<1>7. ReportInv'
  BY <1>1 DEF TreeInv, ReportInv, Place, Top
<1> QED BY <1>2, <1>3, <1>4, <1>5, <1>6, <1>7 DEF TreeInv

\* The steps that are left.
LEMMA Steps ==
  ASSUME IInv, [Next]_vars
  PROVE  \/ Reject \/ Unwind \/ Create \/ CompileItems \/ CompileProperty \/ FormatError
         \/ Return \/ FreeRoot \/ Quiet
PROOF
<1>1. ASSUME NEW o \in Object, Convert(o) \/ Forget(o) PROVE Quiet
  BY <1>1 DEF Convert, Forget, Quiet
<1>2. CASE UNCHANGED vars
  BY <1>2 DEF vars, Quiet
<1> QED BY <1>1, <1>2 DEF Next, Step

\* The chain of calls.
LEMMA CallsStep ==
  ASSUME IInv, TreeInv, [Next]_vars
  PROVE  CallsInv'
PROOF
<1>1. TypeOK /\ CallsInv
  BY DEF IInv, TreeInv
<1>2. Len(stack) \in Nat /\ (stack # << >> => Len(stack) # 0)
  BY <1>1 DEF TypeOK
<1>3. CASE Reject \/ Unwind
  <2>1. /\ stack # << >> /\ failed' = TRUE /\ schema' = schema
        /\ stack' \in Seq(Frame) /\ Len(stack') = Len(stack) - 1
        /\ \A k \in 1..(Len(stack) - 1) : stack'[k] = stack[k]
    BY <1>3, Pop DEF Dying
  <2>2. stack' # << >> => stack'[1].node = Root
    BY <1>1, <1>2, <2>1 DEF CallsInv
  <2>3. ASSUME NEW i \in 1..Len(stack')
        PROVE  /\ i \in 1..Len(stack) /\ i < Len(stack) /\ stack'[i] = stack[i]
               /\ i < Len(stack') => i + 1 \in 1..(Len(stack) - 1)
    <3>1. \A n \in Nat : \A j \in 1..(n - 1) :
            j \in 1..n /\ j < n /\ (j < n - 1 => j + 1 \in 1..(n - 1))
      OBVIOUS
    <3>2. i \in 1..(Len(stack) - 1)
      BY <2>1
    <3>3. i \in 1..Len(stack) /\ i < Len(stack)
      BY <1>2, <3>1, <3>2
    <3>4. i < Len(stack') => i + 1 \in 1..(Len(stack) - 1)
      BY <1>2, <2>1, <3>1, <3>2
    <3>5. stack'[i] = stack[i]
      BY <2>1, <3>2
    <3> QED BY <3>3, <3>4, <3>5
  <2>4. ASSUME NEW i \in 1..Len(stack'), i < Len(stack') PROVE stack'[i + 1] = stack[i + 1]
    BY <2>1, <2>3, <2>4
  <2>5. \A i \in 1..Len(stack) : i < Len(stack) => i # Len(stack)
    BY <1>2
  <2>6. ASSUME NEW i \in 1..Len(stack')
        PROVE  LET w == schema[stack'[i].node] IN
               /\ stack'[i].next <= Len(w.children) + 1
               /\ stack'[i].rc # None
               /\ i < Len(stack') =>
                    /\ w.fault = "none" /\ stack'[i].next \in DOMAIN w.children
                    /\ stack'[i + 1].node = w.children[stack'[i].next]
    <3>1. i \in 1..Len(stack) /\ i < Len(stack) /\ i # Len(stack) /\ stack'[i] = stack[i]
      BY <2>3, <2>5
    <3>2. LET w == schema[stack[i].node] IN
          /\ stack[i].next <= Len(w.children) + 1
          /\ stack[i].rc # None
          /\ w.fault = "none" /\ stack[i].next \in DOMAIN w.children
          /\ stack[i + 1].node = w.children[stack[i].next]
      BY <1>1, <3>1 DEF CallsInv
    <3> QED BY <2>4, <3>1, <3>2
  <2> QED BY <2>1, <2>2, <2>6 DEF CallsInv
<1>4. CASE Create
  <2>1. /\ stack # << >> /\ schema' = schema /\ Top.rc = None /\ Top.next = 1 /\ ~failed
        /\ \E a \in Addr :
              /\ stack' \in Seq(Frame) /\ Len(stack') = Len(stack)
              /\ stack'[Len(stack)] = [node |-> Top.node, rc |-> a, next |-> 1]
              /\ \A k \in 1..(Len(stack) - 1) : stack'[k] = stack[k]
    BY <1>4, Creation
  <2>2. PICK a \in Addr :
              /\ stack' \in Seq(Frame) /\ Len(stack') = Len(stack)
              /\ stack'[Len(stack)] = [node |-> Top.node, rc |-> a, next |-> 1]
              /\ \A k \in 1..(Len(stack) - 1) : stack'[k] = stack[k]
    BY <2>1
  <2>3. \A i \in 1..Len(stack) : stack'[i].node = stack[i].node /\ stack'[i].next = stack[i].next
    BY <1>2, <2>1, <2>2 DEF Top
  <2>4. \A i \in 1..Len(stack) : stack'[i].rc # None
    <3>1. ASSUME NEW i \in 1..Len(stack), i # Len(stack) PROVE stack'[i].rc # None
      <4>1. i \in 1..(Len(stack) - 1)
        BY <1>2, <3>1
      <4> QED BY <1>1, <2>2, <3>1, <4>1 DEF CallsInv
    <3>2. stack'[Len(stack)].rc # None
      BY <2>2, CompileAssumption
    <3> QED BY <3>1, <3>2
  <2>5. stack'[1].node = Root /\ \A i \in 1..Len(stack) : i < Len(stack) => i + 1 \in 1..Len(stack)
    BY <1>1, <1>2, <2>1, <2>3 DEF CallsInv
  <2> QED BY <1>1, <2>1, <2>2, <2>3, <2>4, <2>5 DEF CallsInv
<1>5. CASE CompileItems \/ CompileProperty
  <2>1. /\ stack # << >> /\ Top.rc # None /\ ~failed /\ UNCHANGED <<schema, failed>>
        /\ Written.fault = "none" /\ Top.next \in DOMAIN Written.children
        /\ Written.children[Top.next] \in Node
        /\ stack' \in Seq(Frame) /\ Len(stack') = Len(stack) + 1
        /\ \A k \in 1..Len(stack) : stack'[k] = stack[k]
        /\ stack'[Len(stack) + 1] = [node |-> Written.children[Top.next], rc |-> None, next |-> 1]
    BY <1>5, Calling
  <2>2. stack'[1].node = Root
    BY <1>1, <1>2, <2>1 DEF CallsInv
  <2>3. ASSUME NEW i \in 1..Len(stack)
        PROVE  LET w == schema[stack[i].node] IN
               /\ stack'[i] = stack[i] /\ stack[i].rc # None /\ stack[i].next <= Len(w.children) + 1
               /\ w.fault = "none" /\ stack[i].next \in DOMAIN w.children
               /\ stack'[i + 1].node = w.children[stack[i].next]
    <3>1. CASE i = Len(stack)
      BY <1>1, <2>1, <3>1 DEF CallsInv, Top, Written
    <3>2. CASE i # Len(stack)
      <4>1. i < Len(stack) /\ i + 1 \in 1..Len(stack)
        BY <1>2, <3>2
      <4> QED BY <1>1, <2>1, <3>2, <4>1 DEF CallsInv
    <3> QED BY <3>1, <3>2
  <2>4. LET n == Written.children[Top.next] IN 1 <= Len(schema[n].children) + 1
    <3>1. schema[Written.children[Top.next]].children \in Seq(Node)
      BY <1>1, <2>1 DEF TypeOK, SchemaNode
    <3>2. Len(schema[Written.children[Top.next]].children) \in Nat
      BY <3>1
    <3> QED BY <3>2
  <2>5. \A i \in 1..Len(stack') : i # Len(stack') => i \in 1..Len(stack)
    BY <1>2, <2>1
  <2>6. ~(Len(stack') < Len(stack'))
    BY <1>2, <2>1
  <2> DEFINE Good(i) == LET w == schema'[stack'[i].node] IN
        /\ stack'[i].next <= Len(w.children) + 1
        /\ stack'[i].rc = None => i = Len(stack') /\ ~failed' /\ stack'[i].next = 1
        /\ i < Len(stack') =>
            /\ w.fault = "none" /\ stack'[i].next \in DOMAIN w.children
            /\ stack'[i + 1].node = w.children[stack'[i].next]
  <2>7. \A i \in 1..Len(stack) : Good(i)
    BY <2>1, <2>3
  <2>8. Good(Len(stack'))
    BY <2>1, <2>4, <2>6
  <2>9. \A i \in 1..Len(stack') : Good(i)
    <3> HIDE DEF Good
    <3> QED BY <2>5, <2>7, <2>8
  <2> QED BY <2>2, <2>9 DEF CallsInv
<1>6. CASE FormatError
  BY <1>1, <1>2, <1>6 DEF CallsInv, FormatError, Descending, Compiling, Top
<1>7. CASE Return /\ ~Nested
  BY <1>7, ReturningLast DEF CallsInv
<1>8. CASE Return /\ Nested
  <2>1. /\ stack # << >> /\ ~failed /\ Len(stack) > 1 /\ UNCHANGED <<schema, failed>>
        /\ Caller.next \in DOMAIN schema[Caller.node].children
        /\ stack' \in Seq(Frame) /\ Len(stack') = Len(stack) - 1
        /\ stack'[Len(stack) - 1] = [node |-> Caller.node, rc |-> Caller.rc, next |-> Caller.next + 1]
        /\ \A k \in 1..(Len(stack) - 2) : stack'[k] = stack[k]
        /\ Caller.rc \in Addr
    BY <1>8, Returning DEF Storing
  <2>2. Caller \in Frame /\ Caller = stack[Len(stack) - 1]
    BY <1>1, <1>8, <2>1, Calls DEF Caller
  <2>3. Caller.next + 1 <= Len(schema[Caller.node].children) + 1
    <3>1. schema[Caller.node].children \in Seq(Node) /\ Caller.next \in Nat
      BY <1>1, <2>2 DEF TypeOK, SchemaNode, Frame
    <3>2. Caller.next \in 1..Len(schema[Caller.node].children) /\ Len(schema[Caller.node].children) \in Nat
      BY <2>1, <3>1
    <3> QED BY <3>2
  <2>4. ASSUME NEW i \in 1..Len(stack'), i # Len(stack')
        PROVE  /\ i \in 1..Len(stack) /\ i < Len(stack) /\ stack'[i] = stack[i] /\ i # Len(stack)
               /\ stack'[i + 1].node = stack[i + 1].node
    <3>1. i \in 1..(Len(stack) - 2) /\ i \in 1..Len(stack) /\ i < Len(stack) /\ i # Len(stack)
      BY <1>2, <2>1, <2>4
    <3>2. i + 1 \in 1..(Len(stack) - 2) \/ i + 1 = Len(stack) - 1
      BY <1>2, <3>1
    <3> QED BY <2>1, <2>2, <3>1, <3>2
  <2>5. stack'[1].node = Root
    <3>1. stack[1].node = Root
      BY <1>1, <2>1 DEF CallsInv
    <3>2. Len(stack) - 1 = 1 \/ 1 \in 1..(Len(stack) - 2)
      BY <1>2, <2>1
    <3> QED BY <2>1, <2>2, <3>1, <3>2
  <2>6. Len(stack') \in Nat /\ ~(Len(stack') < Len(stack')) /\ Caller.rc # None
    BY <1>2, <2>1, CompileAssumption
  <2> DEFINE Good(i) == LET w == schema'[stack'[i].node] IN
        /\ stack'[i].next <= Len(w.children) + 1
        /\ stack'[i].rc = None => i = Len(stack') /\ ~failed' /\ stack'[i].next = 1
        /\ i < Len(stack') =>
            /\ w.fault = "none" /\ stack'[i].next \in DOMAIN w.children
            /\ stack'[i + 1].node = w.children[stack'[i].next]
  <2>7. \A i \in 1..Len(stack') : i # Len(stack') => Good(i)
    BY <1>1, <2>1, <2>4 DEF CallsInv
  <2>8. Good(Len(stack'))
    BY <2>1, <2>3, <2>6
  <2>9. \A i \in 1..Len(stack') : Good(i)
    <3> HIDE DEF Good
    <3> QED BY <2>7, <2>8
  <2> QED BY <2>5, <2>9 DEF CallsInv
<1>9. CASE FreeRoot
  BY <1>1, <1>9, Delete DEF CallsInv
<1>10. CASE Quiet
  BY <1>10, QuietStep DEF TreeInv
<1> QED BY <1>3, <1>4, <1>5, <1>6, <1>7, <1>8, <1>9, <1>10, Steps

\* The compiled element.
LEMMA RootElementStep ==
  ASSUME IInv, TreeInv, [Next]_vars
  PROVE  RootInv'
PROOF
<1>1. TypeOK /\ RootInv
  BY DEF IInv, TreeInv
<1>2. CASE Reject \/ Unwind
  <2>1. phase' # "compiled"
    BY <1>2, Pop DEF AfterNull
  <2> QED BY <2>1 DEF RootInv
<1>3. CASE Create
  <2>1. phase' # "compiled"
    BY <1>3, Creation
  <2> QED BY <2>1 DEF RootInv
<1>4. CASE CompileItems \/ CompileProperty \/ FormatError
  <2>1. phase' # "compiled"
    BY <1>4, Calling DEF FormatError, Descending, Compiling
  <2> QED BY <2>1 DEF RootInv
<1>5. CASE Return /\ ~Nested
  <2>1. /\ ~failed /\ Len(stack) = 1 /\ Top.rc \in Addr /\ elem' = elem /\ failed' = failed
        /\ root' = Top.rc /\ Top.node = Root /\ Top = stack[1]
    BY <1>5, ReturningLast DEF Top
  <2>2. elem[Top.rc] # None /\ elem[Top.rc].node = Root
    <3>1. Top.rc # None /\ 1 \in 1..Len(stack)
      BY <2>1, CompileAssumption
    <3> QED BY <2>1, <3>1 DEF TreeInv, CallElementsInv
  <2> QED BY <2>1, <2>2 DEF RootInv
<1>6. CASE Return /\ Nested
  <2>1. phase' # "compiled"
    BY <1>6, Returning
  <2> QED BY <2>1 DEF RootInv
<1>7. CASE FreeRoot
  BY <1>7, Delete DEF RootInv
<1>8. CASE Quiet
  BY <1>8, QuietStep DEF TreeInv
<1> QED BY <1>2, <1>3, <1>4, <1>5, <1>6, <1>7, <1>8, Steps

\* An element that stays has all of its children.
LEMMA Outliving ==
  ASSUME TypeOK, ElementsHaveOneOwner, NEW as, Dying(as), NEW a \in Addr, elem'[a] # None
  PROVE  /\ a \notin as /\ elem'[a] = elem[a] /\ elem[a] # None /\ KidNodes(elem', a) = KidNodes(elem, a)
         /\ \A b \in elem[a].kids : b \in Addr /\ b \notin as /\ elem'[b] = elem[b] /\ elem[b] # None
PROOF
<1>1. a \notin as /\ elem'[a] = elem[a] /\ elem[a] # None
  BY DEF Dying, Gone
<1>2. elem[a].kids \subseteq Addr
  BY <1>1, FollowsType
<1>3. \A b \in elem[a].kids : b \in Addr /\ b \notin as /\ elem'[b] = elem[b] /\ elem[b] # None
  BY <1>1, <1>2 DEF Dying, Gone, ElementsHaveOneOwner
<1>4. KidNodes(elem', a) = KidNodes(elem, a)
  BY <1>1, <1>3 DEF KidNodes
<1> QED BY <1>1, <1>3, <1>4

\* No element has two owners.
LEMMA OneOwnerStep ==
  ASSUME IInv, TreeInv, [Next]_vars
  PROVE  ElementsHaveOneOwner'
PROOF
<1>1. TypeOK /\ ElementsHaveOneOwner /\ CallElementsInv
  BY DEF IInv, TreeInv
<1>2. Len(stack) \in Nat /\ DOMAIN stack = 1..Len(stack)
  BY <1>1 DEF TypeOK
<1>3. CASE Reject \/ Unwind
  <2>1. /\ phase = "compiling" /\ stack' \in Seq(Frame) /\ Len(stack') = Len(stack) - 1
        /\ \A k \in 1..(Len(stack) - 1) : stack'[k] = stack[k]
        /\ phase' # "compiled" /\ \E as : Dying(as)
    BY <1>3, Pop DEF AfterNull
  <2>2. \A i \in DOMAIN stack' : i \in DOMAIN stack /\ stack'[i] = stack[i]
    BY <1>2, <2>1
  <2>3. PICK as : Dying(as)
    BY <2>1
  <2>4. ASSUME NEW a \in Addr, elem'[a] # None, NEW b \in elem'[a].kids
        PROVE  /\ elem'[b] # None
               /\ \A c \in Addr : elem'[c] # None /\ b \in elem'[c].kids => c = a
               /\ \A i \in DOMAIN stack' : stack'[i].rc # b
    <3>1. elem[a] # None /\ b \in elem[a].kids /\ elem'[b] # None
      BY <1>1, <2>3, <2>4, Outliving
    <3>2. ASSUME NEW c \in Addr, elem'[c] # None, b \in elem'[c].kids PROVE c = a
      <4>1. elem[c] # None /\ b \in elem[c].kids
        BY <1>1, <2>3, <3>2, Outliving
      <4> QED BY <1>1, <3>1, <4>1 DEF ElementsHaveOneOwner
    <3>3. \A i \in DOMAIN stack : stack[i].rc # b
      BY <1>1, <3>1 DEF ElementsHaveOneOwner
    <3> QED BY <2>2, <3>1, <3>2, <3>3
  <2> QED BY <2>1, <2>4 DEF ElementsHaveOneOwner
<1>4. CASE Create
  <2>1. PICK a \in Addr :
              /\ elem[a] = None /\ elem'[a] # None /\ elem'[a] = NewElement(a)
              /\ \A b \in Addr : b # a => elem'[b] = elem[b]
              /\ stack' \in Seq(Frame) /\ Len(stack') = Len(stack)
              /\ stack'[Len(stack)] = [node |-> Top.node, rc |-> a, next |-> 1]
              /\ \A k \in 1..(Len(stack) - 1) : stack'[k] = stack[k]
    BY <1>4, Creation
  <2>2. phase' # "compiled" /\ elem'[a].kids = {}
    BY <1>4, <2>1, Creation DEF NewElement
  <2>3. \A i \in DOMAIN stack' : i \in DOMAIN stack /\ (stack'[i].rc = stack[i].rc \/ stack'[i].rc = a)
    BY <1>2, <2>1
  <2>4. \A c \in Addr : elem[c] # None => elem[c].kids \subseteq Addr /\ a \notin elem[c].kids
    BY <1>1, <2>1, FollowsType DEF ElementsHaveOneOwner
  <2>5. \A c \in Addr : elem'[c] # None => c = a \/ (elem[c] # None /\ elem'[c] = elem[c])
    BY <2>1
  <2>6. ASSUME NEW d \in Addr, elem'[d] # None, NEW b \in elem'[d].kids
        PROVE  /\ elem'[b] # None
               /\ \A c \in Addr : elem'[c] # None /\ b \in elem'[c].kids => c = d
               /\ \A i \in DOMAIN stack' : stack'[i].rc # b
    <3>1. d # a /\ elem[d] # None /\ b \in elem[d].kids /\ b # a /\ b \in Addr
      BY <2>2, <2>4, <2>5, <2>6
    <3>2. /\ elem[b] # None
          /\ \A c \in Addr : elem[c] # None /\ b \in elem[c].kids => c = d
          /\ \A i \in DOMAIN stack : stack[i].rc # b
      BY <1>1, <3>1 DEF ElementsHaveOneOwner
    <3>3. elem'[b] # None
      BY <2>1, <3>1, <3>2
    <3>4. ASSUME NEW c \in Addr, elem'[c] # None, b \in elem'[c].kids PROVE c = d
      BY <2>2, <2>5, <3>2, <3>4
    <3> QED BY <2>3, <3>1, <3>2, <3>3, <3>4
  <2> QED BY <2>2, <2>6 DEF ElementsHaveOneOwner
<1>5. CASE CompileItems \/ CompileProperty
  <2>1. /\ UNCHANGED <<phase, root, elem>> /\ phase = "compiling"
        /\ stack' \in Seq(Frame) /\ Len(stack') = Len(stack) + 1
        /\ \A k \in 1..Len(stack) : stack'[k] = stack[k]
        /\ stack'[Len(stack) + 1].rc = None
    BY <1>5, Calling
  <2>2. \A i \in DOMAIN stack' : stack'[i].rc = None \/ (i \in DOMAIN stack /\ stack'[i] = stack[i])
    BY <1>2, <2>1
  <2>3. \A a \in Addr : elem[a] # None => elem[a].kids \subseteq Addr
    BY <1>1, FollowsType
  <2> QED BY <1>1, <2>1, <2>2, <2>3, CompileAssumption DEF ElementsHaveOneOwner
<1>6. CASE FormatError
  BY <1>1, <1>6 DEF ElementsHaveOneOwner, FormatError
<1>7. CASE Return /\ ~Nested
  <2>1. /\ elem' = elem /\ root' = Top.rc /\ stack' = << >> /\ Len(stack) \in DOMAIN stack
        /\ Top = stack[Len(stack)]
    BY <1>2, <1>7, ReturningLast DEF Top
  <2> QED BY <1>1, <2>1 DEF ElementsHaveOneOwner
<1>8. CASE Return /\ Nested
  <2>0. PICK t \in Addr, c \in Addr : Storing(t, c)
    BY <1>8, Returning
  <2>1. /\ Storing(t, c) /\ phase = "compiling" /\ phase' = phase
        /\ stack' \in Seq(Frame) /\ Len(stack') = Len(stack) - 1
        /\ stack'[Len(stack) - 1] = [node |-> Caller.node, rc |-> Caller.rc, next |-> Caller.next + 1]
        /\ \A k \in 1..(Len(stack) - 2) : stack'[k] = stack[k]
        /\ Len(stack) > 1
    BY <1>8, <2>0, Returning
  <2>2. ASSUME NEW i \in DOMAIN stack'
        PROVE  i \in DOMAIN stack /\ i # Len(stack) /\ stack'[i].rc = stack[i].rc
    <3>1. i \in 1..(Len(stack) - 1) /\ i \in 1..Len(stack) /\ i # Len(stack)
      BY <1>2, <2>1
    <3>2. i \in 1..(Len(stack) - 2) \/ i = Len(stack) - 1
      BY <1>2, <3>1
    <3> QED BY <1>2, <2>1, <3>1, <3>2 DEF Caller
  <2>3. /\ t \in Addr /\ Len(stack) \in 1..Len(stack) /\ t = stack[Len(stack)].rc
        /\ t # None
    BY <1>2, <2>1, CompileAssumption DEF Storing, Top
  <2>4. \A i \in DOMAIN stack' : stack'[i].rc # t
    BY <1>1, <1>2, <2>2, <2>3 DEF CallElementsInv
  <2>5. \A a \in Addr : elem[a] # None => t \notin elem[a].kids /\ elem[a].kids \subseteq Addr
    BY <1>1, <1>2, <2>3, FollowsType DEF ElementsHaveOneOwner
  <2>6. /\ \A a \in Addr : elem'[a] # None <=> elem[a] # None
        /\ \A a \in Addr : elem'[a] # None =>
             elem'[a].kids = IF a = c THEN elem[a].kids \cup {t} ELSE elem[a].kids
    <3>1. \A a \in Addr : elem[a] # None => elem[a] \in Element
      BY <1>1 DEF TypeOK
    <3>2. /\ elem[t] \in Element /\ elem[c] \in Element /\ t \in Addr /\ c \in Addr /\ t # c
          /\ elem[t] # None /\ elem[c] # None
          /\ elem'[c] = [elem[c] EXCEPT !.kids = elem[c].kids \cup {t}]
          /\ \/ elem'[t] = [elem[t] EXCEPT !.flag = "skip"]
             \/ elem'[t] = elem[t]
          /\ \A a \in Addr : a # t /\ a # c => elem'[a] = elem[a]
      BY <2>1, <3>1 DEF Storing
    <3>3. /\ elem'[c].kids = elem[c].kids \cup {t} /\ elem'[c] \in Element
          /\ elem'[t].kids = elem[t].kids /\ elem'[t] \in Element
      BY <3>2 DEF Element
    <3> QED BY <3>2, <3>3, CompileAssumption
  <2>7. t \in Addr /\ elem[t] # None
    BY <2>1 DEF Storing
  <2>8. ASSUME NEW a \in Addr, elem'[a] # None, NEW b \in elem'[a].kids
        PROVE  /\ elem'[b] # None
               /\ \A d \in Addr : elem'[d] # None /\ b \in elem'[d].kids => d = a
               /\ \A i \in DOMAIN stack' : stack'[i].rc # b
    <3>1. CASE b = t
      <4>1. \A d \in Addr : elem'[d] # None /\ b \in elem'[d].kids => d = c
        BY <2>5, <2>6, <3>1
      <4>2. elem'[b] # None
        BY <2>6, <2>7, <3>1
      <4> QED BY <2>4, <2>8, <3>1, <4>1, <4>2
    <3>2. CASE b # t
      <4>1. elem[a] # None /\ b \in elem[a].kids /\ b \in Addr
        BY <2>5, <2>6, <2>8, <3>2
      <4>2. /\ elem[b] # None
            /\ \A d \in Addr : elem[d] # None /\ b \in elem[d].kids => d = a
            /\ \A i \in DOMAIN stack : stack[i].rc # b
        BY <1>1, <4>1 DEF ElementsHaveOneOwner
      <4>3. ASSUME NEW d \in Addr, elem'[d] # None, b \in elem'[d].kids PROVE d = a
        BY <2>6, <3>2, <4>2, <4>3
      <4>4. \A i \in DOMAIN stack' : stack'[i].rc # b
        BY <2>2, <4>2
      <4>5. elem'[b] # None
        BY <2>6, <4>1, <4>2
      <4> QED BY <4>3, <4>4, <4>5
    <3> QED BY <3>1, <3>2
  <2>9. phase' # "compiled"
    BY <2>1
  <2> QED BY <2>8, <2>9 DEF ElementsHaveOneOwner
<1>9. CASE FreeRoot
  <2>1. phase' = "over" /\ stack = << >> /\ stack' = stack /\ Dying(Freed(root))
    BY <1>9, Delete
  <2> QED BY <1>1, <2>1, Outliving DEF ElementsHaveOneOwner
<1>10. CASE Quiet
  BY <1>10, QuietStep DEF TreeInv
<1> QED BY <1>3, <1>4, <1>5, <1>6, <1>7, <1>8, <1>9, <1>10, Steps

\* Storing an element changes the children of its owner and its own flag.
LEMMA StoringKeeps ==
  ASSUME TypeOK, ElementsHaveOneOwner, NEW t, NEW c, Storing(t, c), NEW a \in Addr
  PROVE  /\ elem'[a] # None <=> elem[a] # None
         /\ elem[a] # None =>
              /\ elem'[a].node = elem[a].node /\ elem'[a].type = elem[a].type
              /\ elem'[a].key = elem[a].key /\ elem'[a].outkey = elem[a].outkey
              /\ elem'[a].kids = IF a = c THEN elem[a].kids \cup {t} ELSE elem[a].kids
PROOF
<1>1. \A d \in Addr : elem[d] # None => elem[d] \in Element
  BY DEF TypeOK
<1>2. /\ elem[t] \in Element /\ elem[c] \in Element /\ t \in Addr /\ c \in Addr /\ t # c
      /\ elem[t] # None /\ elem[c] # None
      /\ elem'[c] = [elem[c] EXCEPT !.kids = elem[c].kids \cup {t}]
      /\ elem'[t] = IF schema[Caller.node].form = "items" /\ elem[t].type # "array"
                    THEN [elem[t] EXCEPT !.flag = "skip"] ELSE elem[t]
      /\ \A d \in Addr : d # t /\ d # c => elem'[d] = elem[d]
  BY <1>1 DEF Storing
<1>3. CASE a = c
  <2>1. elem'[a] = [elem[a] EXCEPT !.kids = elem[a].kids \cup {t}] /\ elem[a] \in Element
    BY <1>2, <1>3
  <2>2. elem'[a] \in Element
    BY <1>2, <2>1 DEF Element
  <2>3. elem'[a] # None
    BY <2>2, CompileAssumption
  <2> QED BY <1>2, <1>3, <2>1, <2>3 DEF Element
<1>4. CASE a = t
  <2>1. CASE schema[Caller.node].form = "items" /\ elem[t].type # "array"
    <3>1. elem'[a] = [elem[a] EXCEPT !.flag = "skip"] /\ elem[a] \in Element
      BY <1>2, <1>4, <2>1
    <3>2. elem'[a] \in Element
      BY <3>1 DEF Element
    <3>3. elem'[a] # None
      BY <3>2, CompileAssumption
    <3> QED BY <1>2, <1>4, <2>1, <3>1, <3>3 DEF Element
  <2>2. CASE ~(schema[Caller.node].form = "items" /\ elem[t].type # "array")
    BY <1>2, <1>4, <2>2
  <2> QED BY <2>1, <2>2
<1>5. CASE a # t /\ a # c
  BY <1>2, <1>5
<1> QED BY <1>3, <1>4, <1>5

LEMMA StoringFlag ==
  ASSUME TypeOK, NEW t, NEW c, Storing(t, c)
  PROVE  /\ elem'[t].flag = IF schema[Caller.node].form = "items" /\ elem[t].type # "array"
                            THEN "skip" ELSE elem[t].flag
         /\ \A a \in Addr : elem[a] # None /\ a # t => elem'[a].flag = elem[a].flag
PROOF
<1>1. /\ elem[t] \in Element /\ elem[c] \in Element /\ t # c
      /\ elem'[c] = [elem[c] EXCEPT !.kids = elem[c].kids \cup {t}]
      /\ elem'[t] = IF schema[Caller.node].form = "items" /\ elem[t].type # "array"
                    THEN [elem[t] EXCEPT !.flag = "skip"] ELSE elem[t]
      /\ \A a \in Addr : a # t /\ a # c => elem'[a] = elem[a]
  BY DEF Storing, TypeOK
<1>2. elem'[c].flag = elem[c].flag
  BY <1>1 DEF Element
<1>3. elem'[t].flag = IF schema[Caller.node].form = "items" /\ elem[t].type # "array"
                      THEN "skip" ELSE elem[t].flag
  BY <1>1 DEF Element
<1> QED BY <1>1, <1>2, <1>3

LEMMA StoringKidNodes ==
  ASSUME TypeOK, ElementsHaveOneOwner, NEW t, NEW c, Storing(t, c), NEW a \in Addr, elem[a] # None
  PROVE  KidNodes(elem', a) = IF a = c THEN KidNodes(elem, a) \cup {elem[t].node} ELSE KidNodes(elem, a)
PROOF
<1>1. elem'[a].kids = (IF a = c THEN elem[a].kids \cup {t} ELSE elem[a].kids)
  BY StoringKeeps
<1>2. \A b \in elem[a].kids \cup {t} : elem'[b].node = elem[b].node
  <2>1. \A b \in elem[a].kids \cup {t} : b \in Addr /\ elem[b] # None
    BY FollowsType DEF ElementsHaveOneOwner, Storing
  <2> QED BY <2>1, StoringKeeps
<1> QED BY <1>1, <1>2 DEF KidNodes

\* The children of a node so far.
LEMMA MoreChildren ==
  /\ \A s, n : FirstChildren(s, n, 0) = {}
  /\ \A s, n : \A k \in Nat :
       FirstChildren(s, n, k + 1) = FirstChildren(s, n, k) \cup {s[n].children[k + 1]}
PROOF
<1>1. \A k \in Nat : 1..(k + 1) = (1..k) \cup {k + 1}
  OBVIOUS
<1> QED BY <1>1 DEF FirstChildren

\* The elements of the calls.
LEMMA CallElementsStep ==
  ASSUME IInv, TreeInv, [Next]_vars
  PROVE  CallElementsInv'
PROOF
<1>1. TypeOK /\ ElementsHaveOneOwner /\ CallElementsInv
  BY DEF IInv, TreeInv
<1>2. Len(stack) \in Nat /\ \A i \in 1..Len(stack) : stack[i].rc \in Addr \cup {None}
  <2>1. Len(stack) \in Nat /\ \A i \in 1..Len(stack) : stack[i] \in Frame
    BY <1>1 DEF TypeOK
  <2> QED BY <2>1 DEF Frame
<1>3. CASE Reject \/ Unwind
  <2>1. /\ stack' \in Seq(Frame) /\ Len(stack') = Len(stack) - 1
        /\ \A k \in 1..(Len(stack) - 1) : stack'[k] = stack[k]
        /\ \E as : /\ Dying(as)
                   /\ \A i \in 1..Len(stack) : stack[i].rc # None =>
                        (stack[i].rc \in as <=> i = Len(stack))
    BY <1>3, Pop
  <2>2. PICK as : /\ Dying(as)
                  /\ \A i \in 1..Len(stack) : stack[i].rc # None =>
                       (stack[i].rc \in as <=> i = Len(stack))
    BY <2>1
  <2>3. \A i \in 1..Len(stack') : i \in 1..Len(stack) /\ i # Len(stack) /\ stack'[i] = stack[i]
    BY <1>2, <2>1
  <2>4. \A i \in 1..Len(stack') : stack[i].rc # None =>
          /\ elem'[stack[i].rc] = elem[stack[i].rc] /\ elem[stack[i].rc] # None
          /\ KidNodes(elem', stack[i].rc) = KidNodes(elem, stack[i].rc)
    <3> SUFFICES ASSUME NEW i \in 1..Len(stack'), stack[i].rc # None
                 PROVE  /\ elem'[stack[i].rc] = elem[stack[i].rc] /\ elem[stack[i].rc] # None
                        /\ KidNodes(elem', stack[i].rc) = KidNodes(elem, stack[i].rc)
      OBVIOUS
    <3>1. stack[i].rc \in Addr /\ stack[i].rc \notin as /\ elem[stack[i].rc] # None
      BY <1>1, <1>2, <2>2, <2>3 DEF CallElementsInv
    <3>2. elem'[stack[i].rc] = elem[stack[i].rc]
      BY <2>2, <3>1 DEF Dying, Gone
    <3> QED BY <1>1, <2>2, <3>1, <3>2, Outliving
  <2>5. schema' = schema
    BY <2>2 DEF Dying
  <2> QED BY <1>1, <2>3, <2>4, <2>5 DEF CallElementsInv
<1>4. CASE Create
  <2>1. PICK a \in Addr :
              /\ elem[a] = None /\ elem'[a] # None /\ elem'[a] = NewElement(a)
              /\ \A b \in Addr : b # a => elem'[b] = elem[b]
              /\ stack' \in Seq(Frame) /\ Len(stack') = Len(stack)
              /\ stack'[Len(stack)] = [node |-> Top.node, rc |-> a, next |-> 1]
              /\ \A k \in 1..(Len(stack) - 1) : stack'[k] = stack[k]
    BY <1>4, Creation
  <2>2. schema' = schema /\ Len(stack) \in 1..Len(stack) /\ stack # << >>
    BY <1>1, <1>4, Creation, Calls
  <2>3. ASSUME NEW i \in 1..Len(stack'), i # Len(stack)
        PROVE  i \in 1..Len(stack) /\ stack'[i] = stack[i]
    BY <1>2, <2>1, <2>3
  <2>4. ASSUME NEW d \in Addr, elem[d] # None
        PROVE  elem'[d] = elem[d] /\ KidNodes(elem', d) = KidNodes(elem, d) /\ d # a
    <3>1. \A b \in elem[d].kids : b \in Addr /\ b # a
      BY <1>1, <2>1, <2>4, FollowsType DEF ElementsHaveOneOwner
    <3>2. elem'[d] = elem[d] /\ d # a
      BY <2>1, <2>4
    <3> QED BY <2>1, <3>1, <3>2 DEF KidNodes
  <2>5. /\ elem'[a].node = Top.node /\ KidNodes(elem', a) = {}
        /\ Written.fault = "none" => elem'[a].flag = Flag(Written)
    BY <2>1 DEF NewElement, KidNodes
  <2>6. \A i \in 1..Len(stack') : i # Len(stack) => stack'[i].rc # a
    BY <1>1, <2>1, <2>3, CompileAssumption DEF CallElementsInv
  <2> DEFINE Good(i) == LET r == stack'[i].rc n == stack'[i].node IN
        r # None =>
          /\ elem'[r] # None /\ elem'[r].node = n
          /\ KidNodes(elem', r) = FirstChildren(schema, n, stack'[i].next - 1)
          /\ schema[n].fault = "none" => elem'[r].flag = Flag(schema[n])
          /\ \A j \in 1..Len(stack') : stack'[j].rc = r => j = i
  <2>7. ASSUME NEW i \in 1..Len(stack'), i # Len(stack) PROVE Good(i)
    <3>1. stack'[i] = stack[i] /\ i \in 1..Len(stack)
      BY <2>3, <2>7
    <3>2. \A j \in 1..Len(stack') : j # Len(stack) => j \in 1..Len(stack) /\ stack'[j] = stack[j]
      BY <2>3
    <3> QED BY <1>1, <1>2, <2>1, <2>4, <2>6, <2>7, <3>1, <3>2 DEF CallElementsInv
  <2>8. Good(Len(stack))
    <3>1. /\ stack'[Len(stack)].rc = a /\ stack'[Len(stack)].node = Top.node
          /\ stack'[Len(stack)].next - 1 = 0
      BY <2>1
    <3>2. KidNodes(elem', a) = FirstChildren(schema, Top.node, 0)
      BY <2>5, MoreChildren
    <3>3. \A j \in 1..Len(stack') : stack'[j].rc = a => j = Len(stack)
      BY <2>6
    <3> QED BY <2>1, <2>5, <3>1, <3>2, <3>3 DEF Written
  <2>9. \A i \in 1..Len(stack') : Good(i)
    <3> HIDE DEF Good
    <3> QED BY <2>7, <2>8
  <2> QED BY <2>2, <2>9 DEF CallElementsInv
<1>5. CASE CompileItems \/ CompileProperty
  <2>1. /\ UNCHANGED <<schema, elem>>
        /\ stack' \in Seq(Frame) /\ Len(stack') = Len(stack) + 1
        /\ \A k \in 1..Len(stack) : stack'[k] = stack[k]
        /\ stack'[Len(stack) + 1].rc = None
    BY <1>5, Calling
  <2>2. \A i \in 1..Len(stack') : stack'[i].rc = None \/ (i \in 1..Len(stack) /\ stack'[i] = stack[i])
    BY <1>2, <2>1
  <2> QED BY <1>1, <2>1, <2>2 DEF CallElementsInv
<1>6. CASE FormatError
  BY <1>1, <1>6 DEF CallElementsInv, FormatError
<1>7. CASE Return /\ ~Nested
  <2>1. Len(stack') = 0
    BY <1>7, ReturningLast
  <2> QED BY <2>1 DEF CallElementsInv
<1>8. CASE Return /\ Nested
  <2>0. PICK t \in Addr, c \in Addr : Storing(t, c)
    BY <1>8, Returning
  <2> DEFINE i0 == Len(stack) - 1
  <2>1. /\ Storing(t, c) /\ schema' = schema /\ t = Top.rc /\ c = Caller.rc
        /\ stack' \in Seq(Frame) /\ Len(stack') = i0
        /\ stack'[i0] = [node |-> Caller.node, rc |-> Caller.rc, next |-> Caller.next + 1]
        /\ \A k \in 1..(Len(stack) - 2) : stack'[k] = stack[k]
        /\ Len(stack) > 1 /\ Top.node = schema[Caller.node].children[Caller.next]
    BY <1>8, <2>0, Returning DEF Storing
  <2>2. /\ Len(stack) \in 1..Len(stack) /\ i0 \in 1..Len(stack) /\ i0 # Len(stack) /\ i0 \in Nat
        /\ \A i \in 1..i0 : i \in 1..Len(stack) /\ i # Len(stack) /\ (i = i0 \/ i \in 1..(Len(stack) - 2))
    BY <1>2, <2>1
  <2>3. Caller = stack[i0] /\ Top = stack[Len(stack)] /\ Caller \in Frame
    BY <1>1, <1>2, <2>1, <2>2 DEF Caller, Top, TypeOK
  <2> HIDE DEF i0
  <2>4. \A i \in 1..Len(stack') :
          /\ i \in 1..Len(stack) /\ i # Len(stack) /\ stack'[i].rc = stack[i].rc
          /\ stack'[i].node = stack[i].node
          /\ i # i0 => stack'[i] = stack[i]
    BY <2>1, <2>2, <2>3
  <2>5. /\ c # None /\ t # None /\ c = stack[i0].rc /\ t = stack[Len(stack)].rc
        /\ elem[c] # None /\ elem[t].node = Top.node
    BY <2>1, <2>3, CompileAssumption DEF Storing
  <2>6. \A i \in 1..Len(stack') : stack[i].rc # t /\ (stack[i].rc = c => i = i0)
    <3>1. \A i, j \in 1..Len(stack) : stack[i].rc # None /\ stack[j].rc = stack[i].rc => j = i
      BY <1>1 DEF CallElementsInv
    <3> QED BY <2>2, <2>4, <2>5, <3>1
  <2>7. KidNodes(elem', c) = FirstChildren(schema, Caller.node, (Caller.next + 1) - 1)
    <3>1. KidNodes(elem', c) = KidNodes(elem, c) \cup {Top.node}
      <4>1. KidNodes(elem', c) = KidNodes(elem, c) \cup {elem[t].node}
        <5>1. elem[c] # None
          BY <2>0 DEF Storing
        <5> QED BY <1>1, <2>0, <5>1, StoringKidNodes
      <4> QED BY <2>5, <4>1
    <3>2. KidNodes(elem, c) = FirstChildren(schema, Caller.node, Caller.next - 1)
      BY <1>1, <2>2, <2>3, <2>5 DEF CallElementsInv
    <3>3. Caller.next \in Nat \ {0}
      BY <2>3 DEF Frame
    <3>4. Caller.next - 1 \in Nat /\ (Caller.next - 1) + 1 = Caller.next /\ (Caller.next + 1) - 1 = Caller.next
      BY <3>3
    <3>5. FirstChildren(schema, Caller.node, (Caller.next - 1) + 1)
            = FirstChildren(schema, Caller.node, Caller.next - 1)
                \cup {schema[Caller.node].children[(Caller.next - 1) + 1]}
      BY <3>4, MoreChildren
    <3> QED BY <2>1, <3>1, <3>2, <3>4, <3>5
  <2> DEFINE Good(i) == LET r == stack'[i].rc n == stack'[i].node IN
        r # None =>
          /\ elem'[r] # None /\ elem'[r].node = n
          /\ KidNodes(elem', r) = FirstChildren(schema, n, stack'[i].next - 1)
          /\ schema[n].fault = "none" => elem'[r].flag = Flag(schema[n])
          /\ \A j \in 1..Len(stack') : stack'[j].rc = r => j = i
  <2>8. ASSUME NEW i \in 1..Len(stack') PROVE Good(i)
    <3> DEFINE r == stack[i].rc
               n == stack[i].node
    <3>1. SUFFICES ASSUME r # None
                   PROVE  /\ elem'[r] # None /\ elem'[r].node = n
                          /\ KidNodes(elem', r) = FirstChildren(schema, n, stack'[i].next - 1)
                          /\ schema[n].fault = "none" => elem'[r].flag = Flag(schema[n])
                          /\ \A j \in 1..Len(stack') : stack'[j].rc = r => j = i
      BY <2>4
    <3>2. /\ r \in Addr /\ elem[r] # None /\ elem[r].node = n /\ r # t
          /\ KidNodes(elem, r) = FirstChildren(schema, n, stack[i].next - 1)
          /\ schema[n].fault = "none" => elem[r].flag = Flag(schema[n])
          /\ \A j \in 1..Len(stack) : stack[j].rc = r => j = i
      <4>1. r \in Addr /\ i \in 1..Len(stack) /\ r # t
        BY <1>2, <2>4, <2>6, <3>1
      <4>2. /\ elem[r] # None /\ elem[r].node = n
            /\ KidNodes(elem, r) = FirstChildren(schema, n, stack[i].next - 1)
            /\ schema[n].fault = "none" => elem[r].flag = Flag(schema[n])
            /\ \A j \in 1..Len(stack) : stack[j].rc = r => j = i
        BY <1>1, <3>1, <4>1 DEF CallElementsInv
      <4> QED BY <4>1, <4>2
    <3> HIDE DEF r, n
    <3>3. elem'[r] # None /\ elem'[r].node = n /\ elem'[r].flag = elem[r].flag
      <4>1. elem'[r] # None /\ elem'[r].node = elem[r].node
        <5>1. \A a \in Addr : elem[a] # None => elem'[a] # None
          BY <1>1, <2>0, StoringKeeps
        <5>2. \A a \in Addr : elem[a] # None => elem'[a].node = elem[a].node
          BY <1>1, <2>0, StoringKeeps
        <5> QED BY <3>2, <5>1, <5>2
      <4>2. elem'[r].flag = elem[r].flag
        BY <1>1, <2>1, <3>2, StoringFlag
      <4> QED BY <3>2, <4>1, <4>2
    <3>4. \A j \in 1..Len(stack') : stack'[j].rc = r => j = i
      BY <2>4, <3>2
    <3>5. KidNodes(elem', r) = FirstChildren(schema, n, stack'[i].next - 1)
      <4>1. CASE i = i0
        BY <2>1, <2>3, <2>5, <2>7, <4>1 DEF r, n
      <4>2. CASE i # i0
        <5>1. r # c
          BY <2>6, <4>2 DEF r
        <5> QED BY <1>1, <2>1, <2>4, <3>2, <4>2, <5>1, StoringKidNodes
      <4> QED BY <4>1, <4>2
    <3> QED BY <3>2, <3>3, <3>4, <3>5
  <2> HIDE DEF Good
  <2>9. \A i \in 1..Len(stack') : Good(i)
    BY <2>8
  <2> QED BY <2>1, <2>9 DEF Good, CallElementsInv
<1>9. CASE FreeRoot
  <2>1. Len(stack') = 0
    BY <1>9, Delete
  <2> QED BY <2>1 DEF CallElementsInv
<1>10. CASE Quiet
  BY <1>10, QuietStep DEF TreeInv
<1> QED BY <1>3, <1>4, <1>5, <1>6, <1>7, <1>8, <1>9, <1>10, Steps

\* A property's parent is its caller's node.
LEMMA ChildOf ==
  ASSUME schema \in Schemas, NEW m \in Node, NEW i \in DOMAIN schema[m].children,
         NEW n, n = schema[m].children[i]
  PROVE  /\ n \in Node /\ n # Root /\ n # m /\ Parents(schema, n) = {m} /\ Parent(schema, n) = m
         /\ IsItem(schema, n) <=> schema[m].form = "items"
         /\ schema[m].form # "none"
         /\ \A j \in DOMAIN schema[m].children : schema[m].children[j] = n => j = i
PROOF
<1>1. schema[m].children \in Seq(Node) /\ schema[m] \in SchemaNode
  BY CompileAssumption DEF SchemaNode
<1>2. n \in Node /\ n > m /\ n # Root
  BY <1>1, CompileAssumption
<1>3. n # m
  BY <1>2 DEF Node
<1>4. m \in Parents(schema, n)
  BY DEF Parents, ToSet
<1>5. Parent(schema, n) = m /\ Parents(schema, n) = {m}
  <2>1. \A k \in Node : n \in ToSet(schema[k].children) => k = Parent(schema, n)
    BY <1>2, <1>4, ParentOf
  <2> QED BY <1>4, <2>1 DEF Parents
<1>6. schema[m].form # "none"
  <2>1. schema[m].form = "none" => schema[m].children = << >>
    BY CompileAssumption
  <2> QED BY <2>1
<1>7. \A j \in DOMAIN schema[m].children : schema[m].children[j] = n => j = i
  BY CompileAssumption
<1> QED BY <1>2, <1>3, <1>5, <1>6, <1>7 DEF IsItem

\* The root is in no format.
LEMMA RootAbove ==
  ASSUME schema \in Schemas
  PROVE  Parents(schema, Root) = {} /\ ~IsItem(schema, Root)
PROOF
<1>1. Root \in Node
  BY CompileAssumption
<1>2. Parents(schema, Root) = {}
  BY <1>1, ParentOf
<1> QED BY <1>2 DEF IsItem

\* The call under way, once it has compiled what is nested in it.
LEMMA AllChildren ==
  ASSUME TypeOK, stack # << >>, CallsInv, CallElementsInv, Top.rc # None, Top.next \notin DOMAIN Written.children
  PROVE  KidNodes(elem, Top.rc) = ToSet(Written.children)
PROOF
<1>1. /\ Len(stack) \in 1..Len(stack) /\ Top = stack[Len(stack)] /\ Top \in Frame
      /\ Written \in SchemaNode /\ Written = schema[Top.node]
  BY Calls DEF Top, Written
<1>2. Written.children \in Seq(Node) /\ Top.next \in Nat \ {0}
  BY <1>1 DEF SchemaNode, Frame
<1>3. Top.next <= Len(Written.children) + 1
  BY <1>1 DEF CallsInv
<1>4. 1..(Top.next - 1) = DOMAIN Written.children
  <2>1. DOMAIN Written.children = 1..Len(Written.children) /\ Len(Written.children) \in Nat
    BY <1>2
  <2>2. \A k, n \in Nat : k # 0 /\ k <= n + 1 /\ k \notin 1..n => k - 1 = n
    OBVIOUS
  <2>3. Top.next - 1 = Len(Written.children)
    BY <1>2, <1>3, <2>1, <2>2
  <2> QED BY <2>1, <2>3
<1>5. KidNodes(elem, Top.rc) = FirstChildren(schema, Top.node, Top.next - 1)
  BY <1>1 DEF CallElementsInv
<1> QED BY <1>1, <1>4, <1>5 DEF FirstChildren, ToSet

\* What the elements are.
LEMMA ElementsStep ==
  ASSUME IInv, TreeInv, [Next]_vars
  PROVE  ElementsInv'
PROOF
<1>1. /\ TypeOK /\ ElementsHaveOneOwner /\ CallsInv /\ CallElementsInv /\ ElementsInv /\ RootInv
      /\ schema \in Schemas
  BY DEF IInv, TreeInv
<1>2. /\ Len(stack) \in Nat /\ \A i \in 1..Len(stack) : stack[i].rc \in Addr \cup {None}
      /\ \A a \in Addr : elem[a] # None => elem[a].kids \subseteq Addr
  <2>1. Len(stack) \in Nat /\ \A i \in 1..Len(stack) : stack[i] \in Frame
    BY <1>1 DEF TypeOK
  <2> QED BY <1>1, <2>1, FollowsType DEF Frame
\* elements die, the others are what they were
<1>3. ASSUME NEW as, Dying(as), phase' # "compiled",
             \A a \in Addr : Finished(a)' => Finished(a) /\ elem[a].node # Root
      PROVE  ElementsInv'
  <2> SUFFICES ASSUME NEW a \in Addr, elem'[a] # None
               PROVE  LET e == elem'[a] n == e.node w == schema[n] IN
                      /\ e.type = w.type
                      /\ \A b, c \in e.kids : elem'[b].node = elem'[c].node => b = c
                      /\ w.fault # "outkey" => e.outkey = w.outkey
                      /\ w.fault # "outkey" /\ n # Root /\ ~IsItem(schema, n) => e.key = w.key
                      /\ Finished(a)' =>
                           /\ w.fault = "none" /\ e.flag = Final(n)
                           /\ KidNodes(elem', a) = ToSet(w.children)
                           /\ n # Root
    BY <1>3 DEF ElementsInv, Dying, Final
  <2>1. /\ elem'[a] = elem[a] /\ elem[a] # None /\ KidNodes(elem', a) = KidNodes(elem, a)
        /\ \A b \in elem[a].kids : elem'[b] = elem[b]
    BY <1>1, <1>3, Outliving
  <2>2. Finished(a)' => Finished(a) /\ elem[a].node # Root
    BY <1>3
  <2> HIDE DEF Finished
  <2> QED BY <1>1, <2>1, <2>2 DEF ElementsInv
<1>4. CASE Reject \/ Unwind
  <2>1. /\ phase = "compiling" /\ phase' # "compiled"
        /\ stack' \in Seq(Frame) /\ Len(stack') = Len(stack) - 1
        /\ \A k \in 1..(Len(stack) - 1) : stack'[k] = stack[k]
        /\ \E as : /\ Dying(as)
                   /\ \A i \in 1..Len(stack) : stack[i].rc # None =>
                        (stack[i].rc \in as <=> i = Len(stack))
    BY <1>4, Pop DEF AfterNull
  <2>2. PICK as : /\ Dying(as)
                  /\ \A i \in 1..Len(stack) : stack[i].rc # None =>
                       (stack[i].rc \in as <=> i = Len(stack))
    BY <2>1
  <2>3. ASSUME NEW a \in Addr, Finished(a)' PROVE Finished(a) /\ elem[a].node # Root
    <3>1. a \notin as /\ elem[a] # None
      BY <1>1, <2>2, <2>3, Outliving DEF Finished
    <3>2. ASSUME NEW i \in 1..Len(stack) PROVE stack[i].rc # a
      <4>1. i = Len(stack) \/ (i \in 1..(Len(stack) - 1) /\ i \in 1..Len(stack'))
        BY <1>2, <2>1
      <4>2. CASE i = Len(stack)
        BY <2>2, <3>1, <4>2, CompileAssumption
      <4>3. CASE i \in 1..(Len(stack) - 1) /\ i \in 1..Len(stack')
        BY <2>1, <2>3, <4>3 DEF Finished
      <4> QED BY <4>1, <4>2, <4>3
    <3>3. Finished(a)
      BY <3>1, <3>2 DEF Finished
    <3> QED BY <1>1, <2>1, <3>1, <3>3 DEF ElementsInv
  <2> QED BY <1>3, <2>1, <2>2, <2>3
<1>5. CASE FreeRoot
  <2>1. /\ phase' = "over" /\ stack' = stack /\ root \in Freed(root) /\ Dying(Freed(root))
    BY <1>5, Delete
  <2>2. PICK as : as = Freed(root)
    OBVIOUS
  <2>3. ASSUME NEW a \in Addr, Finished(a)' PROVE Finished(a) /\ elem[a].node # Root
    <3>1. a \notin as /\ elem[a] # None
      BY <1>1, <2>1, <2>2, <2>3, Outliving DEF Finished
    <3>2. Finished(a)
      BY <2>1, <2>3, <3>1 DEF Finished
    <3> QED BY <1>1, <2>1, <2>2, <3>1, <3>2 DEF ElementsInv
  <2>4. Dying(as) /\ phase' # "compiled"
    BY <2>1, <2>2
  <2> QED BY <1>3, <2>3, <2>4
<1>6. CASE Create
  <2>1. PICK a \in Addr :
              /\ elem[a] = None /\ elem'[a] # None /\ elem'[a] = NewElement(a)
              /\ \A b \in Addr : b # a => elem'[b] = elem[b]
              /\ stack' \in Seq(Frame) /\ Len(stack') = Len(stack)
              /\ stack'[Len(stack)] = [node |-> Top.node, rc |-> a, next |-> 1]
              /\ \A k \in 1..(Len(stack) - 1) : stack'[k] = stack[k]
    BY <1>6, Creation
  <2>2. UNCHANGED <<schema, phase, root>> /\ Len(stack) \in 1..Len(stack) /\ Top.rc = None
        /\ Top = stack[Len(stack)] /\ stack # << >>
    BY <1>1, <1>6, Creation, Calls DEF Top
  <2>3. ASSUME NEW d \in Addr, d # a, elem'[d] # None
        PROVE  /\ elem[d] # None /\ elem'[d] = elem[d] /\ KidNodes(elem', d) = KidNodes(elem, d)
               /\ \A b \in elem[d].kids : elem'[b] = elem[b]
               /\ Finished(d)' => Finished(d)
    <3>1. elem'[d] = elem[d] /\ elem[d] # None
      BY <2>1, <2>3
    <3>2. \A b \in elem[d].kids : b \in Addr /\ b # a
      BY <1>1, <2>1, <3>1, FollowsType DEF ElementsHaveOneOwner
    <3>3. ASSUME Finished(d)', NEW i \in 1..Len(stack) PROVE stack[i].rc # d
      <4>1. i = Len(stack) \/ i \in 1..(Len(stack) - 1)
        BY <1>2
      <4> QED BY <2>1, <2>2, <3>3, <4>1, CompileAssumption DEF Finished
    <3>4. Finished(d)' => Finished(d)
      BY <3>1, <3>3 DEF Finished
    <3> QED BY <2>1, <3>1, <3>2, <3>4 DEF KidNodes
  <2>4. /\ elem'[a].node = Top.node /\ elem'[a].type = Written.type /\ elem'[a].kids = {}
        /\ Written.fault # "outkey" => elem'[a].outkey = Written.outkey /\ elem'[a].key = Key
    BY <2>1 DEF NewElement
  <2>5. ~Finished(a)'
    BY <2>1, <2>2 DEF Finished
  <2>6. Top.node # Root /\ ~IsItem(schema, Top.node) => Key = Written.key
    <3>1. CASE ~Nested
      <4>1. Len(stack) = 1
        <5>1. \A n \in Nat : n \in 1..n /\ ~(n > 1) => n = 1
          OBVIOUS
        <5> QED BY <1>2, <2>2, <3>1, <5>1 DEF Nested
      <4> QED BY <1>1, <2>2, <4>1 DEF CallsInv
    <3>2. CASE Nested
      <4>1. /\ Len(stack) - 1 \in 1..Len(stack) /\ Len(stack) - 1 < Len(stack)
            /\ Caller = stack[Len(stack) - 1] /\ (Len(stack) - 1) + 1 = Len(stack)
        BY <1>2, <3>2 DEF Nested, Caller
      <4>2. Caller.node \in Node
        BY <1>1, <2>2, <3>2, Calls DEF Frame
      <4>3. /\ Caller.next \in DOMAIN schema[Caller.node].children
            /\ Top.node = schema[Caller.node].children[Caller.next]
        BY <1>1, <2>2, <4>1 DEF CallsInv
      <4>4. IsItem(schema, Top.node) <=> schema[Caller.node].form = "items"
        BY <1>1, <4>2, <4>3, ChildOf
      <4> QED BY <3>2, <4>4 DEF Key
    <3> QED BY <3>1, <3>2
  <2> SUFFICES ASSUME NEW d \in Addr, elem'[d] # None
               PROVE  LET e == elem'[d] n == e.node w == schema[n] IN
                      /\ e.type = w.type
                      /\ \A b, c \in e.kids : elem'[b].node = elem'[c].node => b = c
                      /\ w.fault # "outkey" => e.outkey = w.outkey
                      /\ w.fault # "outkey" /\ n # Root /\ ~IsItem(schema, n) => e.key = w.key
                      /\ Finished(d)' =>
                           /\ w.fault = "none" /\ e.flag = Final(n)
                           /\ KidNodes(elem', d) = ToSet(w.children)
                           /\ n = Root => phase = "compiled" /\ d = root
    BY <2>2 DEF ElementsInv, Final
  <2>7. CASE d = a
    BY <2>4, <2>5, <2>6, <2>7 DEF Written
  <2>8. CASE d # a
    BY <1>1, <2>3, <2>8 DEF ElementsInv
  <2> QED BY <2>7, <2>8
<1>7. CASE CompileItems \/ CompileProperty
  <2>1. /\ UNCHANGED <<schema, elem, phase, root>>
        /\ stack' \in Seq(Frame) /\ Len(stack') = Len(stack) + 1
        /\ \A k \in 1..Len(stack) : stack'[k] = stack[k]
    BY <1>7, Calling
  <2>2. \A i \in 1..Len(stack) : i \in 1..Len(stack') /\ stack'[i] = stack[i]
    BY <1>2, <2>1
  <2>3. \A a : Finished(a)' => Finished(a)
    BY <2>1, <2>2 DEF Finished
  <2> QED BY <1>1, <2>1, <2>3 DEF ElementsInv, Final
<1>8. CASE FormatError
  <2>1. UNCHANGED <<schema, elem, phase, root, stack>>
    BY <1>8 DEF FormatError
  <2> QED BY <1>1, <2>1 DEF ElementsInv, Final, Finished
<1>9. CASE Return /\ ~Nested
  <2>1. /\ UNCHANGED <<schema, elem>> /\ phase' = "compiled" /\ root' = Top.rc /\ stack' = << >>
        /\ Top.rc \in Addr /\ Len(stack) = 1 /\ Top = stack[1] /\ Top.node = Root /\ phase = "compiling"
        /\ Written.fault = "none" /\ Top.next \notin DOMAIN Written.children /\ stack # << >>
    BY <1>9, ReturningLast DEF Top
  <2>2. /\ elem[Top.rc] # None /\ elem[Top.rc].node = Root /\ elem[Top.rc].flag = Flag(schema[Root])
    <3>1. Top.rc # None /\ 1 \in 1..Len(stack)
      BY <2>1, CompileAssumption
    <3> QED BY <1>1, <2>1, <3>1 DEF CallElementsInv, Written
  <2>3. KidNodes(elem, Top.rc) = ToSet(schema[Root].children) /\ schema[Root].fault = "none"
    <3>1. Top.rc # None
      BY <2>1, CompileAssumption
    <3> QED BY <1>1, <2>1, <3>1, AllChildren DEF Written
  <2>4. Final(Root) = Flag(schema[Root])
    BY <1>1, RootAbove DEF Final
  <2>5. \A a \in Addr : elem[a] # None /\ a # Top.rc => Finished(a)
    <3>1. \A i \in 1..Len(stack) : i = 1
      BY <2>1
    <3> QED BY <2>1, <3>1 DEF Finished
  <2> SUFFICES ASSUME NEW a \in Addr, elem[a] # None
               PROVE  LET e == elem[a] n == e.node w == schema[n] IN
                      /\ e.type = w.type
                      /\ \A b, c \in e.kids : elem[b].node = elem[c].node => b = c
                      /\ w.fault # "outkey" => e.outkey = w.outkey
                      /\ w.fault # "outkey" /\ n # Root /\ ~IsItem(schema, n) => e.key = w.key
                      /\ w.fault = "none" /\ e.flag = Final(n)
                      /\ KidNodes(elem, a) = ToSet(w.children)
                      /\ n = Root => a = Top.rc
    BY <2>1 DEF ElementsInv, Final
  <2>6. CASE a = Top.rc
    BY <1>1, <2>1, <2>2, <2>3, <2>4, <2>6 DEF ElementsInv
  <2>7. CASE a # Top.rc
    BY <1>1, <2>1, <2>5, <2>7 DEF ElementsInv
  <2> QED BY <2>6, <2>7
<1>10. CASE Return /\ Nested
  <2>0. PICK t \in Addr, c \in Addr : Storing(t, c)
    BY <1>10, Returning
  <2>1. /\ UNCHANGED <<schema, phase, root>> /\ t = Top.rc /\ c = Caller.rc /\ t # c /\ stack # << >>
        /\ Written.fault = "none" /\ Top.next \notin DOMAIN Written.children
        /\ Caller.next \in DOMAIN schema[Caller.node].children
        /\ Top.node = schema[Caller.node].children[Caller.next]
        /\ stack' \in Seq(Frame) /\ Len(stack') = Len(stack) - 1
        /\ stack'[Len(stack) - 1] = [node |-> Caller.node, rc |-> Caller.rc, next |-> Caller.next + 1]
        /\ \A k \in 1..(Len(stack) - 2) : stack'[k] = stack[k]
        /\ Len(stack) > 1 /\ elem[t] # None /\ elem[c] # None
    BY <1>10, <2>0, Returning DEF Storing
  <2>2. /\ Caller.node \in Node /\ Caller.next \in Nat \ {0} /\ Caller = stack[Len(stack) - 1]
        /\ Len(stack) - 1 \in 1..Len(stack) /\ Len(stack) \in 1..Len(stack)
        /\ Top = stack[Len(stack)] /\ t # None /\ c # None /\ Len(stack) - 1 \in 1..Len(stack')
    <3>1. Caller \in Frame /\ Caller = stack[Len(stack) - 1] /\ Top = stack[Len(stack)]
      BY <1>1, <1>10, <2>1, Calls DEF Caller, Top
    <3>2. /\ Len(stack) - 1 \in 1..Len(stack) /\ Len(stack) \in 1..Len(stack)
          /\ Len(stack) - 1 \in 1..Len(stack')
      BY <1>2, <2>1
    <3> QED BY <3>1, <3>2, CompileAssumption DEF Frame
  <2>3. /\ Top.node # Root
        /\ IsItem(schema, Top.node) <=> schema[Caller.node].form = "items"
        /\ \A j \in DOMAIN schema[Caller.node].children :
             schema[Caller.node].children[j] = Top.node => j = Caller.next
    <3>1. ASSUME NEW m \in Node, NEW i \in DOMAIN schema[m].children, NEW n, n = schema[m].children[i]
          PROVE  /\ n # Root
                 /\ IsItem(schema, n) <=> schema[m].form = "items"
                 /\ \A j \in DOMAIN schema[m].children : schema[m].children[j] = n => j = i
      <4>1. n # Root
        BY <1>1, <3>1, ChildOf
      <4>2. IsItem(schema, n) <=> schema[m].form = "items"
        BY <1>1, <3>1, ChildOf
      <4>3. \A j \in DOMAIN schema[m].children : schema[m].children[j] = n => j = i
        BY <1>1, <3>1, CompileAssumption
      <4> QED BY <4>1, <4>2, <4>3
    <3>2. PICK m \in Node : m = Caller.node
      BY <2>2
    <3>3. PICK i \in DOMAIN schema[m].children : i = Caller.next
      BY <2>1, <3>2
    <3>4. Top.node = schema[m].children[i]
      BY <2>1, <3>2, <3>3
    <3> QED BY <3>1, <3>2, <3>3, <3>4
  <2>4. /\ elem[t].node = Top.node /\ elem[t].flag = Flag(schema[Top.node])
        /\ elem[t].type = schema[Top.node].type
        /\ KidNodes(elem, t) = ToSet(schema[Top.node].children)
    <3>1. KidNodes(elem, t) = ToSet(schema[Top.node].children)
      BY <1>1, <2>1, <2>2, AllChildren DEF Written
    <3>2. elem[t].node = Top.node /\ elem[t].flag = Flag(schema[Top.node])
      BY <1>1, <2>1, <2>2 DEF CallElementsInv, Written
    <3>3. elem[t].type = schema[Top.node].type
      BY <1>1, <2>1, <3>2 DEF ElementsInv
    <3> QED BY <3>1, <3>2, <3>3
  <2>5. KidNodes(elem, c) = FirstChildren(schema, Caller.node, Caller.next - 1)
    BY <1>1, <2>1, <2>2 DEF CallElementsInv
  <2>6. \A b \in elem[c].kids : elem[b].node # Top.node
    <3> SUFFICES ASSUME NEW b \in elem[c].kids, elem[b].node = Top.node PROVE FALSE
      OBVIOUS
    <3>1. Top.node \in KidNodes(elem, c)
      BY DEF KidNodes
    <3>2. PICK j \in 1..(Caller.next - 1) : Top.node = schema[Caller.node].children[j]
      BY <2>5, <3>1 DEF FirstChildren
    <3>3. schema[Caller.node].children \in Seq(Node)
      BY <1>1, <2>2 DEF TypeOK, SchemaNode
    <3>4. DOMAIN schema[Caller.node].children = 1..Len(schema[Caller.node].children)
      BY <3>3
    <3>5. \A n, k \in Nat : n \in 1..k => (\A i \in 1..(n - 1) : i \in 1..k /\ i # n)
      OBVIOUS
    <3>6. j \in DOMAIN schema[Caller.node].children /\ j # Caller.next
      BY <2>1, <2>2, <3>3, <3>4, <3>5
    <3> QED BY <2>3, <3>2, <3>6
  <2>7. ASSUME NEW a \in Addr, Finished(a)'
        PROVE  a = t \/ (a # c /\ elem[a] # None /\ Finished(a))
    <3>1. elem[a] # None
      BY <1>1, <2>0, <2>7, StoringKeeps DEF Finished
    <3>2. a # c
      BY <2>1, <2>2, <2>7 DEF Finished
    <3>3. ASSUME a # t, NEW i \in 1..Len(stack) PROVE stack[i].rc # a
      <4>1. i = Len(stack) \/ i = Len(stack) - 1 \/ (i \in 1..(Len(stack) - 2) /\ i \in 1..Len(stack'))
        BY <1>2, <2>1
      <4> QED BY <2>1, <2>2, <2>7, <3>2, <3>3, <4>1 DEF Finished
    <3> QED BY <3>1, <3>2, <3>3 DEF Finished
  <2> SUFFICES ASSUME NEW a \in Addr, elem'[a] # None
               PROVE  LET e == elem'[a] n == e.node w == schema[n] IN
                      /\ e.type = w.type
                      /\ \A b, d \in e.kids : elem'[b].node = elem'[d].node => b = d
                      /\ w.fault # "outkey" => e.outkey = w.outkey
                      /\ w.fault # "outkey" /\ n # Root /\ ~IsItem(schema, n) => e.key = w.key
                      /\ Finished(a)' =>
                           /\ w.fault = "none" /\ e.flag = Final(n)
                           /\ KidNodes(elem', a) = ToSet(w.children)
                           /\ n = Root => phase = "compiled" /\ a = root
    BY <2>1 DEF ElementsInv, Final
  <2>8. elem[a] # None
    BY <1>1, <2>0, StoringKeeps
  <2>9. /\ elem'[a].node = elem[a].node /\ elem'[a].type = elem[a].type
        /\ elem'[a].key = elem[a].key /\ elem'[a].outkey = elem[a].outkey
    BY <1>1, <2>0, <2>8, StoringKeeps
  <2>10. elem'[a].kids = IF a = c THEN elem[a].kids \cup {t} ELSE elem[a].kids
    BY <1>1, <2>0, <2>8, StoringKeeps
  <2>11. \A b \in elem[a].kids \cup {t} : elem'[b].node = elem[b].node
    <3>1. \A b \in elem[a].kids \cup {t} : b \in Addr /\ elem[b] # None
      BY <1>1, <1>2, <2>1, <2>8 DEF ElementsHaveOneOwner
    <3> QED BY <1>1, <2>0, <3>1, StoringKeeps
  <2>12. \A b, d \in elem'[a].kids : elem'[b].node = elem'[d].node => b = d
    <3>1. \A b, d \in elem[a].kids : elem[b].node = elem[d].node => b = d
      BY <1>1, <2>8 DEF ElementsInv
    <3>2. CASE a = c
      BY <2>4, <2>6, <2>10, <2>11, <3>1, <3>2
    <3>3. CASE a # c
      BY <2>10, <2>11, <3>1, <3>3
    <3> QED BY <3>2, <3>3
  <2>13. ASSUME Finished(a)'
         PROVE  LET n == elem[a].node w == schema[n] IN
                /\ w.fault = "none" /\ elem'[a].flag = Final(n)
                /\ KidNodes(elem', a) = ToSet(w.children)
                /\ n = Root => phase = "compiled" /\ a = root
    <3>1. CASE a = t
      <4>1. KidNodes(elem', a) = KidNodes(elem, a)
        BY <1>1, <2>0, <2>1, <2>8, <3>1, StoringKidNodes
      <4>2. elem'[a].flag = Final(Top.node)
        <5>1. elem'[t].flag = IF schema[Caller.node].form = "items" /\ elem[t].type # "array"
                              THEN "skip" ELSE elem[t].flag
          BY <1>1, <2>0, StoringFlag
        <5> QED BY <2>3, <2>4, <3>1, <5>1 DEF Final
      <4> QED BY <2>1, <2>3, <2>4, <3>1, <4>1, <4>2 DEF Written
    <3>2. CASE a # t
      <4>1. a # c /\ Finished(a)
        BY <2>7, <2>13, <3>2
      <4>2. KidNodes(elem', a) = KidNodes(elem, a)
        BY <1>1, <2>0, <2>8, <4>1, StoringKidNodes
      <4>3. elem'[a].flag = elem[a].flag
        BY <1>1, <2>0, <2>8, <3>2, StoringFlag
      <4> QED BY <1>1, <2>8, <4>1, <4>2, <4>3 DEF ElementsInv
    <3> QED BY <3>1, <3>2
  <2> QED BY <1>1, <2>8, <2>9, <2>12, <2>13 DEF ElementsInv
<1>11. CASE Quiet
  BY <1>11, QuietStep DEF TreeInv
<1> QED BY <1>4, <1>5, <1>6, <1>7, <1>8, <1>9, <1>10, <1>11, Steps

\* Where the elements lead before and after a step.
LEMMA FollowsNext ==
  ASSUME TypeOK, TypeOK'
  PROVE  \E F, G \in [Addr -> SUBSET Addr] :
           /\ F = Follows /\ G = Follows'
           /\ \A a \in Addr : F[a] = Followed(a) /\ G[a] = Followed(a)'
           /\ \A a \in Addr : elem[a] = None => F[a] = {}
           /\ \A a \in Addr : elem[a] # None => F[a] \subseteq elem[a].kids /\ elem[a].kids \subseteq Addr
PROOF
<1>1. Follows \in [Addr -> SUBSET Addr] /\ \A a \in Addr : Follows[a] = Followed(a)
  BY FollowsType
<1>2. Follows' \in [Addr -> SUBSET Addr] /\ \A a \in Addr : (Follows')[a] = Followed(a)'
  <2>1. \A a \in Addr : elem'[a] # None => elem'[a] \in Element
    BY DEF TypeOK
  <2>2. \A a \in Addr : elem'[a] # None => elem'[a].kids \subseteq Addr
    BY <2>1 DEF Element
  <2>3. \A a \in Addr : Followed(a)' \subseteq Addr
    BY <2>2 DEF Followed
  <2> QED BY <2>3 DEF Follows
<1>3. PICK F, G : F = Follows /\ G = Follows'
  OBVIOUS
<1> QED BY <1>1, <1>2, <1>3, FollowsType

\* What is freed with the element of a finished call was compiled in its format.
LEMMA LostBelow ==
  ASSUME IInv, TreeInv, stack # << >>, Top.rc \in Addr, Top.next \notin DOMAIN Written.children,
         NEW d \in Reach(Follows, Top.rc), d # Top.rc
  PROVE  elem[d] # None /\ Top.node \in Above(schema)[elem[d].node] /\ Written.form # "none"
PROOF
<1>1. TypeOK /\ ElementsHaveOneOwner /\ CallsInv /\ CallElementsInv /\ ElementsInv /\ schema \in Schemas
  BY DEF IInv, TreeInv
<1>2. PICK F, t : F = Follows /\ t = Top.rc
  OBVIOUS
<1>3. /\ F \in [Addr -> SUBSET Addr] /\ t \in Addr
      /\ \A a \in Addr : elem[a] = None => F[a] = {}
      /\ \A a \in Addr : elem[a] # None => F[a] \subseteq elem[a].kids
  BY <1>1, <1>2, FollowsType
<1>4. t # None /\ Len(stack) \in 1..Len(stack) /\ Top = stack[Len(stack)] /\ DOMAIN stack = 1..Len(stack)
  BY <1>1, <1>3, Calls, CompileAssumption DEF Top, TypeOK
<1>5. elem[t] # None /\ elem[t].node = Top.node /\ KidNodes(elem, t) = ToSet(Written.children)
  BY <1>1, <1>2, <1>4, AllChildren DEF CallElementsInv
<1> DEFINE R == Reach(F, t)
           Below(x) == elem[x] # None /\ Top.node \in Above(schema)[elem[x].node] /\ Written.form # "none"
           S == {x \in R : x = t \/ Below(x)}
<1>6. t \in R /\ R \subseteq Addr /\ \A x \in R : F[x] \subseteq R
  BY <1>3, ReachClosed
<1>7. ASSUME NEW x \in R, x # t, elem[x] # None PROVE Finished(x)
  <2>1. PICK y \in R : x \in F[y]
    BY <1>3, <1>7, ReachThrough
  <2>2. y \in Addr /\ elem[y] # None /\ x \in elem[y].kids
    BY <1>3, <1>6, <2>1
  <2> QED BY <1>1, <1>4, <1>7, <2>2 DEF ElementsHaveOneOwner, Finished
<1>8. ASSUME NEW x \in R, x = t \/ Below(x), NEW b \in F[x] PROVE Below(b)
  <2>1. x \in Addr /\ elem[x] # None /\ b \in elem[x].kids /\ elem[b] # None
    BY <1>1, <1>3, <1>6, <1>8 DEF ElementsHaveOneOwner
  <2>2. KidNodes(elem, x) = ToSet(schema[elem[x].node].children)
    BY <1>1, <1>5, <1>7, <1>8, <2>1 DEF ElementsInv, Written
  <2>3. elem[b].node \in ToSet(schema[elem[x].node].children)
    BY <2>1, <2>2 DEF KidNodes
  <2>4. PICK j \in DOMAIN schema[elem[x].node].children : elem[b].node = schema[elem[x].node].children[j]
    BY <2>3 DEF ToSet
  <2>5. PICK m \in Node : m = elem[x].node
    BY <1>1, <2>1 DEF TypeOK, Element
  <2>6. PICK n : n = elem[b].node
    OBVIOUS
  <2>7. n \in Node /\ Parents(schema, n) = {m} /\ Parent(schema, n) = m /\ schema[m].form # "none"
    <3>1. j \in DOMAIN schema[m].children /\ n = schema[m].children[j]
      BY <2>4, <2>5, <2>6
    <3>2. n \in Node
      BY <1>1, <3>1, ChildOf
    <3>3. Parents(schema, n) = {m}
      BY <1>1, <3>1, ChildOf
    <3>4. Parent(schema, n) = m
      BY <1>1, <3>2, <3>3, ParentOf DEF Parents
    <3>5. schema[m].form # "none"
      BY <1>1, <3>1, ChildOf
    <3> QED BY <3>2, <3>3, <3>4, <3>5
  <2>8. Above(schema)[n] = Above(schema)[m] \cup {m}
    BY <1>1, <2>7, AboveDefined
  <2> QED BY <1>5, <1>8, <2>1, <2>5, <2>6, <2>7, <2>8 DEF Written
<1> HIDE DEF Below
<1>9. S \in SUBSET Addr /\ t \in S /\ \A x \in S : F[x] \subseteq S
  BY <1>6, <1>8
<1>10. R \subseteq S
  BY <1>9, ReachLeast
<1> QED BY <1>2, <1>10 DEF Below

\* An element that stays the same leads where it did.
LEMMA FollowedSame ==
  ASSUME NEW x, elem'[x] = elem[x]
  PROVE  Followed(x)' = Followed(x)
PROOF
<1>1. elem[x] # None => ReleasedAs(elem'[x]) = ReleasedAs(elem[x])
  OBVIOUS
<1> QED BY <1>1 DEF Followed

\* Every element is held or lost.
LEMMA HeldStep ==
  ASSUME IInv, TreeInv, [Next]_vars
  PROVE  HeldInv'
PROOF
<1>1. /\ TypeOK /\ ElementsHaveOneOwner /\ CallsInv /\ CallElementsInv /\ ElementsInv /\ HeldInv
      /\ FramesInv /\ schema \in Schemas
  BY DEF IInv, TreeInv
<1>2. TypeOK'
  BY <1>1, TypeStep
<1>3. /\ Len(stack) \in Nat /\ \A i \in 1..Len(stack) : stack[i].rc \in Addr \cup {None}
  <2>1. Len(stack) \in Nat /\ \A i \in 1..Len(stack) : stack[i] \in Frame
    BY <1>1 DEF TypeOK
  <2> QED BY <2>1 DEF Frame
<1>4. PICK F, G \in [Addr -> SUBSET Addr] :
        /\ F = Follows /\ G = Follows'
        /\ \A a \in Addr : F[a] = Followed(a) /\ G[a] = Followed(a)'
        /\ \A a \in Addr : elem[a] = None => F[a] = {}
        /\ \A a \in Addr : elem[a] # None => F[a] \subseteq elem[a].kids /\ elem[a].kids \subseteq Addr
  BY <1>1, <1>2, FollowsNext
<1>5. CASE Reject \/ Unwind
  <2>1. /\ phase = "compiling"
        /\ stack' \in Seq(Frame) /\ Len(stack') = Len(stack) - 1
        /\ \A k \in 1..(Len(stack) - 1) : stack'[k] = stack[k]
        /\ \E as : /\ Dying(as)
                   /\ \A i \in 1..Len(stack) : stack[i].rc # None =>
                        (stack[i].rc \in as <=> i = Len(stack))
    BY <1>5, Pop
  <2>2. PICK as : /\ Dying(as)
                  /\ \A i \in 1..Len(stack) : stack[i].rc # None =>
                       (stack[i].rc \in as <=> i = Len(stack))
    BY <2>1
  <2>3. /\ as \in SUBSET Addr /\ schema' = schema
        /\ \A a \in as : F[a] \subseteq as
        /\ \A a \in Addr : a \notin as => G[a] = F[a]
    <3>1. /\ as \in SUBSET Addr /\ schema' = schema
          /\ \A a \in as : Followed(a) \subseteq as
          /\ \A a \in Addr : a \notin as => elem'[a] = elem[a]
      BY <2>2 DEF Dying, Gone
    <3>2. \A a \in Addr : a \notin as => G[a] = F[a]
      BY <1>4, <3>1, FollowedSame
    <3> QED BY <1>4, <3>1, <3>2
  <2> SUFFICES ASSUME NEW d \in Addr, elem'[d] # None PROVE Held(d)' \/ Lost(d)'
    BY DEF HeldInv
  <2>4. d \notin as /\ elem'[d] = elem[d] /\ elem[d] # None
    BY <1>1, <2>2, Outliving
  <2>5. CASE Lost(d)
    BY <2>3, <2>4, <2>5 DEF Lost
  <2>6. CASE Held(d)
    <3>1. PICK i \in 1..Len(stack) : stack[i].rc # None /\ d \in Reach(F, stack[i].rc)
      BY <1>4, <2>1, <2>6 DEF Held
    <3>2. PICK r \in Addr : r = stack[i].rc
      BY <1>3, <3>1
    <3>3. i # Len(stack)
      <4>1. r \in as => Reach(F, r) \subseteq as
        BY <2>3, ReachLeast
      <4> QED BY <2>2, <2>4, <3>1, <3>2, <4>1
    <3>4. i \in 1..Len(stack') /\ stack'[i].rc = r
      BY <1>3, <2>1, <3>2, <3>3
    <3>5. d \in Reach(G, r)
      <4> DEFINE S == Reach(G, r) \cup as
      <4>1. r \in Reach(G, r) /\ Reach(G, r) \subseteq Addr /\ \A x \in Reach(G, r) : G[x] \subseteq Reach(G, r)
        BY <1>4, ReachClosed
      <4>2. S \in SUBSET Addr /\ r \in S /\ \A x \in S : F[x] \subseteq S
        BY <2>3, <4>1
      <4>3. Reach(F, r) \subseteq S
        <5> HIDE DEF S
        <5> QED BY <4>2, ReachLeast
      <4> QED BY <2>4, <3>1, <3>2, <4>3
    <3> QED BY <1>4, <3>1, <3>2, <3>4, <3>5 DEF Held
  <2> QED BY <1>1, <2>4, <2>5, <2>6 DEF HeldInv
<1>6. CASE FreeRoot
  <2>1. /\ stack = << >> /\ Dying(Freed(root))
    BY <1>6, Delete
  <2>2. PICK as : as = Freed(root)
    OBVIOUS
  <2>3. Dying(as) /\ as = Reach(F, root)
    BY <1>4, <2>1, <2>2, FreedIsReach
  <2> SUFFICES ASSUME NEW d \in Addr, elem'[d] # None PROVE Lost(d)'
    BY DEF HeldInv
  <2>4. d \notin as /\ elem'[d] = elem[d] /\ elem[d] # None /\ schema' = schema
    BY <1>1, <2>3, Outliving DEF Dying
  <2>5. ~Held(d)
    BY <1>4, <2>1, <2>3, <2>4 DEF Held
  <2> QED BY <1>1, <2>4, <2>5 DEF HeldInv, Lost
<1>7. CASE Create
  <2>1. PICK a \in Addr :
              /\ elem[a] = None /\ elem'[a] # None /\ elem'[a] = NewElement(a)
              /\ \A b \in Addr : b # a => elem'[b] = elem[b]
              /\ stack' \in Seq(Frame) /\ Len(stack') = Len(stack)
              /\ stack'[Len(stack)] = [node |-> Top.node, rc |-> a, next |-> 1]
              /\ \A k \in 1..(Len(stack) - 1) : stack'[k] = stack[k]
    BY <1>7, Creation
  <2>2. /\ UNCHANGED <<schema, phase, root>> /\ Len(stack) \in 1..Len(stack) /\ Top.rc = None
        /\ Top = stack[Len(stack)] /\ phase = "compiling"
    BY <1>1, <1>7, Creation, Calls DEF Top
  <2>3. G = F
    <3>1. elem'[a].kids = {}
      BY <2>1 DEF NewElement
    <3>2. ASSUME NEW x \in Addr PROVE G[x] = F[x]
      <4>1. CASE x = a
        BY <1>4, <2>1, <3>1, <4>1 DEF Followed
      <4>2. CASE x # a
        BY <1>4, <2>1, <4>2, FollowedSame
      <4> QED BY <4>1, <4>2
    <3> QED BY <1>4, <3>2
  <2> SUFFICES ASSUME NEW d \in Addr, elem'[d] # None PROVE Held(d)' \/ Lost(d)'
    BY DEF HeldInv
  <2>4. CASE d = a
    <3>1. a \in Reach(G, a)
      BY <1>4, ReachClosed
    <3>2. Len(stack) \in 1..Len(stack') /\ stack'[Len(stack)].rc = a /\ a # None
      BY <2>1, <2>2, CompileAssumption
    <3> QED BY <1>4, <2>4, <3>1, <3>2 DEF Held
  <2>5. CASE d # a
    <3>1. elem'[d] = elem[d] /\ elem[d] # None
      BY <2>1, <2>5
    <3>2. CASE Lost(d)
      BY <2>2, <3>1, <3>2 DEF Lost
    <3>3. CASE Held(d)
      <4>1. PICK i \in 1..Len(stack) : stack[i].rc # None /\ d \in Reach(F, stack[i].rc)
        BY <1>4, <2>2, <3>3 DEF Held
      <4>2. i \in 1..Len(stack') /\ stack'[i] = stack[i]
        BY <1>3, <2>1, <2>2, <4>1
      <4> QED BY <1>4, <2>3, <4>1, <4>2 DEF Held
    <3> QED BY <1>1, <3>1, <3>2, <3>3 DEF HeldInv
  <2> QED BY <2>4, <2>5
<1>8. CASE CompileItems \/ CompileProperty \/ FormatError
  <2>1. /\ UNCHANGED <<schema, elem, phase, root>>
        /\ \A i \in 1..Len(stack) : i \in 1..Len(stack') /\ stack'[i] = stack[i]
    <3>1. CASE FormatError
      BY <3>1 DEF FormatError
    <3>2. CASE CompileItems \/ CompileProperty
      <4>1. /\ UNCHANGED <<schema, elem, phase, root>> /\ Len(stack') = Len(stack) + 1
            /\ \A k \in 1..Len(stack) : stack'[k] = stack[k]
        BY <3>2, Calling
      <4> QED BY <1>3, <4>1
    <3> QED BY <1>8, <3>1, <3>2
  <2>2. Follows' = Follows
    BY <2>1 DEF Follows, Followed, ReleasedAs
  <2>3. \A d \in Addr : (Held(d) => Held(d)') /\ (Lost(d) => Lost(d)')
    BY <2>1, <2>2 DEF Held, Lost
  <2> QED BY <1>1, <2>1, <2>3 DEF HeldInv
<1>9. CASE Return /\ ~Nested
  <2>1. /\ UNCHANGED <<schema, elem>> /\ phase' = "compiled" /\ root' = Top.rc /\ phase = "compiling"
        /\ Len(stack) = 1 /\ Top = stack[1]
    BY <1>9, ReturningLast DEF Top
  <2>2. Follows' = Follows
    BY <2>1 DEF Follows, Followed, ReleasedAs
  <2>3. ASSUME NEW d \in Addr, Held(d) PROVE Held(d)'
    <3>1. PICK i \in 1..Len(stack) : d \in Reach(Follows, stack[i].rc)
      BY <2>1, <2>3 DEF Held
    <3>2. i = 1
      BY <2>1, <3>1
    <3> QED BY <2>1, <2>2, <3>1, <3>2 DEF Held
  <2>4. \A d \in Addr : Lost(d) => Lost(d)'
    BY <2>1 DEF Lost
  <2> QED BY <1>1, <2>1, <2>3, <2>4 DEF HeldInv
<1>10. CASE Return /\ Nested
  <2>0. PICK t \in Addr, c \in Addr : Storing(t, c)
    BY <1>10, Returning
  <2>1. /\ UNCHANGED <<schema, phase, root>> /\ t = Top.rc /\ c = Caller.rc /\ t # c /\ stack # << >>
        /\ phase = "compiling" /\ Top.next \notin DOMAIN Written.children
        /\ schema[Caller.node].fault = "none"
        /\ Caller.next \in DOMAIN schema[Caller.node].children
        /\ Top.node = schema[Caller.node].children[Caller.next]
        /\ Len(stack') = Len(stack) - 1
        /\ stack'[Len(stack) - 1] = [node |-> Caller.node, rc |-> Caller.rc, next |-> Caller.next + 1]
        /\ \A k \in 1..(Len(stack) - 2) : stack'[k] = stack[k]
        /\ Len(stack) > 1 /\ elem[t] # None /\ elem[c] # None
        /\ elem[t].node = Top.node /\ elem[c].node = Caller.node
    BY <1>10, <2>0, Returning DEF Storing
  <2>2. /\ Caller.node \in Node /\ Caller = stack[Len(stack) - 1] /\ Top = stack[Len(stack)]
        /\ Len(stack) - 1 \in 1..Len(stack) /\ Len(stack) \in 1..Len(stack) /\ DOMAIN stack = 1..Len(stack)
        /\ t # None /\ c # None /\ Len(stack) - 1 \in 1..Len(stack')
        /\ \A i \in 1..Len(stack) :
             i # Len(stack) => i \in 1..Len(stack') /\ stack'[i].rc = stack[i].rc
    <3>1. /\ Caller \in Frame /\ Caller = stack[Len(stack) - 1] /\ Top = stack[Len(stack)]
          /\ DOMAIN stack = 1..Len(stack)
      BY <1>1, <1>10, <2>1, Calls DEF Caller, Top, TypeOK
    <3>2. /\ Len(stack) - 1 \in 1..Len(stack) /\ Len(stack) \in 1..Len(stack)
          /\ Len(stack) - 1 \in 1..Len(stack')
          /\ \A i \in 1..Len(stack) : i # Len(stack) =>
               i \in 1..Len(stack') /\ (i = Len(stack) - 1 \/ i \in 1..(Len(stack) - 2))
      BY <1>3, <2>1
    <3>3. t # None /\ c # None /\ Caller.node \in Node
      BY <3>1, CompileAssumption DEF Frame
    <3>4. stack'[Len(stack) - 1].rc = stack[Len(stack) - 1].rc
      BY <2>1, <3>1
    <3>5. ASSUME NEW i \in 1..Len(stack), i # Len(stack)
          PROVE  i \in 1..Len(stack') /\ stack'[i].rc = stack[i].rc
      BY <2>1, <3>2, <3>4, <3>5
    <3> QED BY <3>1, <3>2, <3>3, <3>5
  \* where the elements lead
  <2>3. ASSUME NEW x \in Addr PROVE t \notin F[x]
    <3> SUFFICES ASSUME t \in F[x] PROVE FALSE
      OBVIOUS
    <3>1. t \in Followed(x)
      BY <1>4
    <3>2. elem[x] # None /\ t \in elem[x].kids
      BY <3>1 DEF Followed
    <3>3. Len(stack) \in DOMAIN stack /\ stack[Len(stack)].rc = t
      BY <2>1, <2>2
    <3> QED BY <1>1, <3>2, <3>3 DEF ElementsHaveOneOwner
  <2>4. /\ elem[c].type = schema[Caller.node].type /\ elem[c].flag = Flag(schema[Caller.node])
        /\ elem[t].type = schema[Top.node].type
    <3>1. elem[c].flag = Flag(schema[Caller.node])
      BY <1>1, <2>1, <2>2 DEF CallElementsInv
    <3> QED BY <1>1, <2>1, <3>1 DEF ElementsInv
  <2>5. /\ schema[Caller.node] \in SchemaNode
        /\ schema[Caller.node].form = "items" => schema[Caller.node].type \in {"array", "json"}
        /\ schema[Caller.node].form = "properties" => schema[Caller.node].type \in {"object", "json"}
        /\ schema[Caller.node].form \in {"items", "properties"}
    <3>1. schema[Caller.node] \in SchemaNode
      BY <1>1, <2>2 DEF TypeOK
    <3>2. /\ schema[Caller.node].form = "items" => schema[Caller.node].type \in {"array", "json"}
          /\ schema[Caller.node].form = "properties" => schema[Caller.node].type \in {"object", "json"}
      BY <1>1, <2>2, CompileAssumption
    <3>3. schema[Caller.node].form # "none"
      BY <1>1, <2>1, <2>2, ChildOf
    <3> QED BY <3>1, <3>2, <3>3 DEF SchemaNode
  <2>6. ReleasedAs(elem[c]) \in {"object", "array"}
    BY <2>4, <2>5 DEF ReleasedAs, Flag
  <2>7. G[c] = F[c] \cup {t}
    <3>1. elem'[c] # None /\ elem'[c].type = elem[c].type
      BY <1>1, <2>0, <2>1, StoringKeeps
    <3>2. elem'[c].kids = elem[c].kids \cup {t}
      <4>1. elem[c] \in Element
        BY <1>1, <2>1 DEF TypeOK
      <4> QED BY <2>0, <4>1 DEF Storing, Element
    <3>3. elem'[c].flag = elem[c].flag
      BY <1>1, <2>0, <2>1, StoringFlag
    <3>4. ReleasedAs(elem'[c]) = ReleasedAs(elem[c])
      BY <3>1, <3>3 DEF ReleasedAs
    <3>5. Followed(c) = elem[c].kids
      BY <2>1, <2>6 DEF Followed
    <3>6. Followed(c)' = elem'[c].kids
      BY <2>6, <3>1, <3>4 DEF Followed
    <3> QED BY <1>4, <3>2, <3>5, <3>6
  <2>8. \A x \in Addr : x # c /\ x # t => G[x] = F[x]
    <3>1. \A x \in Addr : x # c /\ x # t => elem'[x] = elem[x]
      BY <2>0 DEF Storing
    <3> QED BY <1>4, <3>1, FollowedSame
  <2>9. G[t] = F[t] \/ (elem[t].type = "json" /\ schema[Caller.node].form = "items")
    <3>1. elem'[t].kids = elem[t].kids /\ elem'[t] # None /\ elem'[t].type = elem[t].type
      <4>1. elem'[t] # None /\ elem'[t].type = elem[t].type
        BY <1>1, <2>0, <2>1, StoringKeeps
      <4>2. elem[t] \in Element
        BY <1>1, <2>1 DEF TypeOK
      <4>3. elem'[t].kids = elem[t].kids
        BY <2>0, <4>2 DEF Storing, Element
      <4> QED BY <4>1, <4>3
    <3>2. CASE elem[t].type # "json"
      <4>1. ReleasedAs(elem'[t]) = ReleasedAs(elem[t])
        BY <3>1, <3>2 DEF ReleasedAs
      <4>2. Followed(t)' = Followed(t)
        BY <2>1, <3>1, <4>1 DEF Followed
      <4> QED BY <1>4, <4>2
    <3>3. CASE schema[Caller.node].form # "items"
      <4>1. elem'[t] = elem[t]
        BY <2>0, <3>3 DEF Storing
      <4> QED BY <1>4, <4>1, FollowedSame
    <3> QED BY <3>2, <3>3
  <2>10. t \in Reach(G, c) /\ Reach(G, t) \subseteq Reach(G, c)
    <3>1. t \in Reach(G, c)
      BY <1>4, <2>7, ReachClosed
    <3> QED BY <1>4, <3>1, ReachOn
  \* the elements
  <2> SUFFICES ASSUME NEW d \in Addr, elem'[d] # None PROVE Held(d)' \/ Lost(d)'
    BY DEF HeldInv
  <2>11. elem[d] # None
    BY <1>1, <2>0, StoringKeeps
  <2>12. elem'[d].node = elem[d].node
    BY <1>1, <2>0, <2>11, StoringKeeps
  <2>13. CASE Lost(d)
    BY <2>1, <2>12, <2>13 DEF Lost
  <2>14. ASSUME NEW i \in 1..Len(stack), i # Len(stack), stack[i].rc # None, d \in Reach(F, stack[i].rc)
         PROVE  Held(d)'
    <3>1. PICK r \in Addr : r = stack[i].rc
      BY <1>3, <2>14
    <3>2. r # t
      BY <1>1, <2>1, <2>2, <2>14, <3>1 DEF CallElementsInv
    <3>3. d \in Reach(G, r)
      <4> DEFINE R == Reach(G, r)
                 S == {x \in R : x # t}
      <4>1. r \in R /\ R \subseteq Addr /\ \A x \in R : G[x] \subseteq R
        BY <1>4, ReachClosed
      <4> HIDE DEF R
      <4>2. \A x \in S : F[x] \subseteq G[x]
        BY <2>7, <2>8, <4>1
      <4>3. S \in SUBSET Addr /\ r \in S /\ \A x \in S : F[x] \subseteq S
        BY <2>3, <3>2, <4>1, <4>2
      <4>4. Reach(F, r) \subseteq S
        <5> HIDE DEF S
        <5> QED BY <4>3, ReachLeast
      <4> QED BY <2>14, <3>1, <4>4 DEF R
    <3>4. i \in 1..Len(stack') /\ stack'[i].rc = r /\ stack'[i].rc # None
      BY <2>2, <2>14, <3>1
    <3> QED BY <1>4, <3>3, <3>4 DEF Held
  <2>15. ASSUME d \in Reach(F, t) PROVE Held(d)' \/ Lost(d)'
    <3>1. d \in Reach(G, c) => Held(d)'
      BY <1>4, <2>1, <2>2 DEF Held
    <3>2. CASE G[t] = F[t]
      <4>1. \A x \in Addr : F[x] \subseteq G[x]
        BY <2>7, <2>8, <3>2
      <4>2. Reach(F, t) \subseteq Reach(G, t)
        BY <1>4, <4>1, ReachMore
      <4> QED BY <2>10, <2>15, <3>1, <4>2
    <3>3. CASE d = t
      BY <2>10, <3>1, <3>3
    <3>4. CASE d # t /\ elem[t].type = "json" /\ schema[Caller.node].form = "items"
      <4>1. Top.node \in Above(schema)[elem[d].node] /\ Written.form # "none"
        BY <1>4, <2>1, <2>15, <3>4, LostBelow
      <4>2. IsItem(schema, Top.node)
        BY <1>1, <2>1, <2>2, <3>4, ChildOf
      <4>3. LosesFormat(schema, Top.node)
        BY <2>4, <3>4, <4>1, <4>2 DEF LosesFormat, Written
      <4> QED BY <2>1, <2>12, <4>1, <4>3 DEF Lost
    <3> QED BY <2>9, <3>2, <3>3, <3>4
  <2>16. CASE Held(d)
    <3>1. PICK i \in 1..Len(stack) : stack[i].rc # None /\ d \in Reach(F, stack[i].rc)
      BY <1>4, <2>1, <2>16 DEF Held
    <3>2. i = Len(stack) => d \in Reach(F, t)
      BY <2>1, <2>2, <3>1
    <3> QED BY <2>14, <2>15, <3>1, <3>2
  <2> QED BY <1>1, <2>11, <2>13, <2>16 DEF HeldInv
<1>11. CASE Quiet
  BY <1>11, QuietStep DEF TreeInv
<1> QED BY <1>5, <1>6, <1>7, <1>8, <1>9, <1>10, <1>11, Steps

----------------------------------------------------------------------------
(* Error messages.                                                         *)

\* What a call that returns NULL puts in front of the message is what the way to
\* its node has more than the way to its caller's.
LEMMA PathOfCall ==
  ASSUME IInv, TreeInv, stack # << >>
  PROVE  \E k \in Seq(Obj \cup {None}) :
           /\ Report = k \o report
           /\ Path(schema)[Top.node] = (IF Nested THEN Path(schema)[Caller.node] ELSE << >>) \o k
PROOF
<1>1. TypeOK /\ CallsInv /\ schema \in Schemas
  BY DEF IInv, TreeInv
<1>2. /\ Top \in Frame /\ Top = stack[Len(stack)] /\ Len(stack) \in Nat /\ Len(stack) # 0
      /\ report \in Seq(Obj \cup {None}) /\ << >> \in Seq(Obj \cup {None}) /\ Top.node \in Node
  BY <1>1, Calls DEF TypeOK, Top, Frame
<1>3. CASE ~Nested
  <2>1. Len(stack) = 1
    <3>1. \A n \in Nat : n # 0 /\ ~(n > 1) => n = 1
      OBVIOUS
    <3> QED BY <1>2, <1>3, <3>1 DEF Nested
  <2>2. Top.node = Root
    BY <1>1, <1>2, <2>1 DEF CallsInv
  <2>3. Path(schema)[Top.node] = << >>
    BY <1>1, <1>2, <2>2, RootAbove, PathDefined
  <2>4. Report = << >> \o report
    BY <1>2, <1>3, ConcatEmptySeq DEF Report
  <2>5. Path(schema)[Top.node] = << >> \o << >>
    BY <1>2, <2>3, ConcatEmptySeq
  <2> QED BY <1>2, <1>3, <2>4, <2>5
<1>4. CASE Nested
  <2>1. /\ Caller \in Frame /\ Caller = stack[Len(stack) - 1] /\ Caller.node \in Node
        /\ Len(stack) - 1 \in 1..Len(stack) /\ Len(stack) - 1 < Len(stack)
        /\ (Len(stack) - 1) + 1 = Len(stack)
    BY <1>1, <1>2, <1>4, Calls DEF Nested, Caller, Frame
  <2>2. /\ Caller.next \in DOMAIN schema[Caller.node].children
        /\ Top.node = schema[Caller.node].children[Caller.next]
    BY <1>1, <1>2, <2>1 DEF CallsInv
  <2>3. Parents(schema, Top.node) = {Caller.node} /\ Parent(schema, Top.node) = Caller.node
    <3>1. ASSUME NEW m \in Node, NEW i \in DOMAIN schema[m].children, NEW n, n = schema[m].children[i]
          PROVE  Parents(schema, n) = {m} /\ Parent(schema, n) = m
      <4>1. Parent(schema, n) = m
        BY <1>1, <3>1, ChildOf
      <4>2. Parents(schema, n) = {m}
        BY <1>1, <3>1, ChildOf
      <4> QED BY <4>1, <4>2
    <3> QED BY <2>1, <2>2, <3>1
  <2>4. /\ Written = schema[Top.node] /\ Written.key \in Obj \cup {None}
        /\ <<Written.key>> \in Seq(Obj \cup {None})
    <3>1. Written = schema[Top.node] /\ Written.key \in Obj \cup {None}
      BY <1>1, <1>2 DEF TypeOK, Written, SchemaNode
    <3> QED BY <3>1
  <2> DEFINE k == IF schema[Caller.node].form = "properties" THEN <<Written.key>> ELSE << >>
  <2>5. k \in Seq(Obj \cup {None})
    BY <1>2, <2>4
  <2>6. Report = k \o report
    BY <1>2, <1>4, <2>4, ConcatEmptySeq DEF Report
  <2>7. Path(schema)[Top.node] = Path(schema)[Caller.node] \o k
    BY <1>1, <1>2, <2>3, <2>4, PathDefined
  <2> HIDE DEF k
  <2> QED BY <1>4, <2>5, <2>6, <2>7
<1> QED BY <1>3, <1>4

LEMMA ReportStep ==
  ASSUME IInv, TreeInv, [Next]_vars
  PROVE  ReportInv'
PROOF
<1>1. TypeOK /\ CallsInv /\ schema \in Schemas /\ ReportInv /\ RootInv
  BY DEF IInv, TreeInv
<1>2. /\ Len(stack) \in Nat /\ report \in Seq(Obj \cup {None})
      /\ stack # << >> => Len(stack) # 0
  BY <1>1 DEF TypeOK
<1>3. stack # << >> => Top \in Frame /\ Top.node \in Node /\ Top = stack[Len(stack)] /\ Written = schema[Top.node]
  BY <1>1, Calls DEF Frame, Top, Written
<1>4. stack # << >> => Path(schema)[Top.node] \o << >> = Path(schema)[Top.node]
  BY <1>1, <1>3, PathType, ConcatEmptySeq
<1>5. CASE Reject \/ Unwind
  <2>1. /\ stack # << >> /\ failed' = TRUE /\ schema' = schema
        /\ stack' \in Seq(Frame) /\ Len(stack') = Len(stack) - 1
        /\ \A k \in 1..(Len(stack) - 1) : stack'[k] = stack[k]
    BY <1>5, Pop DEF Dying
  <2>2. report' = Report
    BY <1>5 DEF Reject, Unwind, ReturnNull
  <2>3. PICK n \in Node : /\ schema[n].fault # "none" /\ Place(n) \in Node
                          /\ Path(schema)[Place(n)] = Path(schema)[Top.node] \o report
    <3>1. CASE Unwind
      BY <1>1, <2>1, <3>1 DEF ReportInv, Unwind
    <3>2. CASE Reject
      <4>1. Written.fault = "args" /\ report = << >>
        BY <1>1, <3>2 DEF Reject, Compiling, ReportInv
      <4>2. Place(Top.node) = Top.node /\ schema[Top.node].fault # "none"
        BY <1>3, <2>1, <4>1 DEF Place
      <4> QED BY <1>3, <1>4, <2>1, <4>1, <4>2
    <3> QED BY <1>5, <3>1, <3>2
  <2>4. PICK k \in Seq(Obj \cup {None}) :
           /\ Report = k \o report
           /\ Path(schema)[Top.node] = (IF Nested THEN Path(schema)[Caller.node] ELSE << >>) \o k
    BY <2>1, PathOfCall
  <2> DEFINE rest == IF Nested THEN Path(schema)[Caller.node] ELSE << >>
  <2>5. rest \in Seq(Obj \cup {None})
    <3>1. << >> \in Seq(Obj \cup {None})
      OBVIOUS
    <3>2. Nested => Caller \in Frame
      BY <1>1, <2>1, Calls
    <3> QED BY <1>1, <3>1, <3>2, PathType DEF Frame
  <2>6. Path(schema)[Place(n)] = rest \o Report
    <3> HIDE DEF rest
    <3>1. \A r, u, v \in Seq(Obj \cup {None}) : (r \o u) \o v = r \o (u \o v)
      BY ConcatAssociative
    <3>2. Path(schema)[Top.node] = rest \o k
      BY <2>4 DEF rest
    <3>3. (rest \o k) \o report = rest \o (k \o report)
      BY <1>2, <2>4, <2>5, <3>1
    <3> QED BY <2>3, <2>4, <3>2, <3>3
  <2>7. rest = IF stack' = << >> THEN << >> ELSE Path(schema)[Top'.node]
    <3>1. CASE Nested
      <4>1. /\ Len(stack') # 0 /\ Len(stack') \in 1..(Len(stack) - 1)
            /\ Len(stack') = Len(stack) - 1
        <5>1. \A l \in Nat : l > 1 => l - 1 # 0 /\ l - 1 \in 1..(l - 1)
          OBVIOUS
        <5> QED BY <1>2, <2>1, <3>1, <5>1 DEF Nested
      <4>2. stack'[Len(stack')] = stack[Len(stack) - 1]
        BY <2>1, <4>1
      <4> QED BY <2>1, <3>1, <4>1, <4>2 DEF Top, Caller
    <3>2. CASE ~Nested
      <4>1. Len(stack') = 0
        <5>1. Len(stack') \in Nat /\ ~(Len(stack) > 1)
          BY <2>1, <3>2 DEF Nested
        <5> QED BY <1>2, <2>1, <5>1
      <4>2. stack' = << >>
        BY <2>1, <4>1
      <4> QED BY <3>2, <4>2
    <3> QED BY <3>1, <3>2
  <2> HIDE DEF rest
  <2>8. Place(n)' = Place(n)
    BY <2>1 DEF Place
  <2> QED BY <1>2, <2>1, <2>2, <2>3, <2>6, <2>7, <2>8 DEF ReportInv
<1>6. CASE Create
  <2>1. /\ stack # << >> /\ schema' = schema /\ report' = report /\ ~failed
        /\ failed' = (Written.fault \in {"outkey", "options", "pattern"})
        /\ \E a \in Addr :
             /\ stack' \in Seq(Frame) /\ Len(stack') = Len(stack)
             /\ stack'[Len(stack)] = [node |-> Top.node, rc |-> a, next |-> 1]
    BY <1>6, Creation
  <2>2. Top'.node = Top.node /\ stack' # << >>
    BY <1>2, <2>1 DEF Top
  <2>3. report = << >>
    BY <1>1, <2>1 DEF ReportInv
  <2>4. CASE ~failed'
    BY <2>1, <2>3, <2>4 DEF ReportInv
  <2>5. CASE failed'
    <3>1. schema[Top.node].fault # "none" /\ schema[Top.node].fault # "element"
      BY <1>3, <2>1, <2>5
    <3>2. PICK n \in Node : n = Top.node
      BY <1>3, <2>1
    <3>3. Place(n)' = n
      BY <2>1, <3>1, <3>2 DEF Place
    <3> QED BY <1>3, <1>4, <2>1, <2>2, <2>3, <2>5, <3>1, <3>2, <3>3 DEF ReportInv
  <2> QED BY <2>4, <2>5
<1>7. CASE FormatError
  <2>1. /\ failed' = TRUE /\ schema' = schema /\ stack' = stack /\ report' = report
        /\ stack # << >> /\ report = << >>
    BY <1>1, <1>7 DEF FormatError, Descending, Compiling, ReportInv, TypeOK
  <2>2. Top' = Top
    BY <2>1 DEF Top
  <2>3. PICK n \in Node : schema[n].fault # "none" /\ Place(n) = Top.node
    <3>1. CASE Written.fault \in {"items", "properties"}
      <4>1. schema[Top.node].fault # "none" /\ Place(Top.node) = Top.node
        BY <1>3, <2>1, <3>1 DEF Place
      <4> QED BY <1>3, <2>1, <4>1
    <3>2. CASE Top.next \in DOMAIN Written.children /\ schema[Property].fault = "element"
      <4>1. Property \in Node /\ Parent(schema, Property) = Top.node
        BY <1>1, <1>3, <2>1, <3>2, ChildOf DEF Property
      <4> QED BY <3>2, <4>1 DEF Place
    <3> QED BY <1>7, <3>1, <3>2 DEF FormatError
  <2>4. Place(n)' = Place(n)
    BY <2>1 DEF Place
  <2> QED BY <1>3, <1>4, <2>1, <2>2, <2>3, <2>4 DEF ReportInv
<1>8. CASE CompileItems \/ CompileProperty
  <2>1. ~failed /\ failed' = failed /\ report' = report
    BY <1>8, Calling
  <2> QED BY <1>1, <2>1 DEF ReportInv
<1>9. CASE Return
  <2>1. ~failed /\ failed' = failed /\ report' = report
    BY <1>9, Returning, ReturningLast
  <2> QED BY <1>1, <2>1 DEF ReportInv
<1>10. CASE FreeRoot
  <2>1. ~failed /\ failed' = failed /\ report' = report
    BY <1>1, <1>10 DEF FreeRoot, RootInv
  <2> QED BY <1>1, <2>1 DEF ReportInv
<1>11. CASE Quiet
  BY <1>11, QuietStep DEF TreeInv
<1> QED BY <1>5, <1>6, <1>7, <1>8, <1>9, <1>10, <1>11, Steps

----------------------------------------------------------------------------
(* The invariant, and what it says.                                        *)

LEMMA TreeInit == Init => TreeInv
PROOF
<1> SUFFICES ASSUME Init PROVE TreeInv
  OBVIOUS
<1>1. /\ phase = "compiling" /\ failed = FALSE /\ report = << >> /\ schema \in Schemas
      /\ stack = <<[node |-> Root, rc |-> None, next |-> 1]>>
      /\ \A a \in Addr : elem[a] = None
  BY DEF Init
<1>2. Len(stack) = 1 /\ stack # << >> /\ stack[1] = [node |-> Root, rc |-> None, next |-> 1]
  BY <1>1
<1>3. CallsInv
  <2>1. schema[Root].children \in Seq(Node) /\ Root \in Node
    BY <1>1, CompileAssumption DEF SchemaNode
  <2>2. 1 <= Len(schema[Root].children) + 1
    BY <2>1
  <2> QED BY <1>1, <1>2, <2>2 DEF CallsInv
<1>4. CallElementsInv
  BY <1>2 DEF CallElementsInv
<1>5. ElementsInv /\ RootInv /\ ElementsHaveOneOwner /\ HeldInv
  BY <1>1 DEF ElementsInv, RootInv, ElementsHaveOneOwner, HeldInv
<1>6. ReportInv
  BY <1>1 DEF ReportInv
<1> QED BY <1>3, <1>4, <1>5, <1>6 DEF TreeInv

LEMMA TreeNext == IInv /\ TreeInv /\ [Next]_vars => TreeInv'
BY CallsStep, CallElementsStep, ElementsStep, RootElementStep, OneOwnerStep, HeldStep, ReportStep
DEF TreeInv

LEMMA TreeInvariance == Spec => [](IInv /\ TreeInv)
PROOF
<1>1. Init => IInv /\ TreeInv
  BY InitInv, TreeInit
<1>2. IInv /\ TreeInv /\ [Next]_vars => (IInv /\ TreeInv)'
  BY NextInv, TreeNext
<1> QED BY <1>1, <1>2, PTL DEF Spec

\* No element is freed twice and no pointer to a child dangles: the children of
\* an element are allocated and are no other element's, no call's and not the
\* command's (tjv_ValidationElementFree and the error paths of
\* tjv_ValidationCompile).
THEOREM OneOwner == Spec => []ElementsHaveOneOwner
PROOF
<1>1. TreeInv => ElementsHaveOneOwner
  BY DEF TreeInv
<1> QED BY <1>1, TreeInvariance, PTL

\* After a failed compilation or the deletion of the handle, an element that is
\* still allocated is in the format of a json that is an array item: all others
\* were freed, whatever went wrong and whenever it did.
THEOREM Leaks == Spec => []OnlyJsonItemsLeak
PROOF
<1>1. IInv /\ TreeInv => OnlyJsonItemsLeak
  <2> SUFFICES ASSUME IInv, TreeInv, phase = "over", NEW a \in Addr, elem[a] # None
               PROVE  Lost(a)
    BY DEF OnlyJsonItemsLeak, Lost
  <2>1. stack = << >>
    BY DEF IInv, TypeOK
  <2>2. ~Held(a)
    BY <2>1 DEF Held
  <2> QED BY <2>2 DEF TreeInv, HeldInv
<1> QED BY <1>1, TreeInvariance, PTL

\* What a call under way or the command reaches, it frees.
LEMMA HeldIsKept ==
  ASSUME IInv, TreeInv, NEW a \in Addr, elem[a] # None
  PROVE  Kept(a) \/ Lost(a)
PROOF
<1>1. Held(a) \/ Lost(a)
  BY DEF TreeInv, HeldInv
<1>2. stack \in Seq(Frame)
  BY DEF IInv, TypeOK
<1>3. ASSUME NEW i \in 1..Len(stack), stack[i].rc # None, a \in Reach(Follows, stack[i].rc)
      PROVE  Kept(a)
  <2>1. i \in DOMAIN stack /\ stack[i] \in Frame
    BY <1>2
  <2>2. stack[i].rc \in Addr
    BY <1>3, <2>1 DEF Frame
  <2>3. a \in Freed(stack[i].rc)
    BY <1>3, FreedIsReach
  <2> QED BY <2>1, <2>2, <2>3 DEF Kept
<1>4. ASSUME phase = "compiled", a \in Reach(Follows, root) PROVE Kept(a)
  <2>1. root \in Addr /\ a \in Freed(root)
    BY <1>4, FreedIsReach DEF TreeInv, RootInv
  <2> QED BY <1>4, <2>1 DEF Kept
<1> QED BY <1>1, <1>3, <1>4 DEF Held

\* No path through success or failure forgets a reference: a call under way or
\* the command still finds the element that holds it, or holds it itself, but for
\* the keys list and the format of a json that is an array item
\* (tjvCompile.c:138-236, 239).
THEOREM ReferencesAreReleased == Spec => []NoForgottenReference
PROOF
<1>1. IInv /\ TreeInv => NoForgottenReference
  <2> SUFFICES ASSUME IInv, TreeInv, NEW o \in Object, NEW h \in refs[o] PROVE Owned(o, h)
    BY DEF NoForgottenReference
  <2>1. HasOwner(o, h) /\ Len(stack) \in Nat /\ h \in Holder
    BY DEF IInv, OwnersInv, TypeOK
  <2>2. CASE h \in {Script, Thread}
    BY <2>2 DEF Owned
  <2>3. CASE h \notin {Script, Thread}
    <3>1. h[1] \in Addr
      BY <2>1, <2>3 DEF Holder
    <3>2. elem[h[1]] # None => Kept(h[1]) \/ Lost(h[1])
      BY <3>1, HeldIsKept
    <3>3. \A i \in 1..Len(stack) : i < Len(stack) => i \in 1..(Len(stack) - 1)
      BY <2>1
    <3> QED BY <2>1, <2>3, <3>2, <3>3 DEF HasOwner, Owned
  <2> QED BY <2>2, <2>3
<1> QED BY <1>1, TreeInvariance, PTL

\* A compiled schema is that of the nodes: for each child of a node there is one
\* child of its element, with the key, the outkey and the flag of the node.
THEOREM AsWritten == Spec => []CompiledAsWritten
PROOF
<1>1. IInv /\ TreeInv => CompiledAsWritten
  <2> SUFFICES ASSUME IInv, TreeInv, phase = "compiled", NEW a \in Addr, elem[a] # None
               PROVE  LET e == elem[a] n == e.node w == schema[n]
                      IN /\ n = Root <=> a = root
                         /\ {elem[b].node : b \in e.kids} = ToSet(w.children)
                         /\ \A b, c \in e.kids : elem[b].node = elem[c].node => b = c
                         /\ e.outkey = w.outkey
                         /\ n # Root /\ ~IsItem(schema, n) => e.key = w.key
                         /\ e.flag = IF IsItem(schema, n) /\ w.type # "array" THEN "skip"
                                     ELSE IF w.type # "json" \/ w.form = "none" THEN "none"
                                     ELSE IF w.form = "items" THEN "array" ELSE "object"
    BY DEF CompiledAsWritten
  <2>1. TypeOK /\ ElementsInv /\ RootInv /\ stack = << >>
    BY DEF IInv, TreeInv, TypeOK
  <2>2. Finished(a)
    BY <2>1 DEF Finished
  <2> DEFINE n == elem[a].node
             w == schema[n]
  <2>3. /\ w.fault = "none" /\ elem[a].flag = Final(n)
        /\ KidNodes(elem, a) = ToSet(w.children)
        /\ n = Root => a = root
    BY <2>1, <2>2 DEF ElementsInv
  <2>4. a = root => n = Root
    BY <2>1 DEF RootInv
  <2>5. /\ \A b, c \in elem[a].kids : elem[b].node = elem[c].node => b = c
        /\ elem[a].outkey = w.outkey
        /\ n # Root /\ ~IsItem(schema, n) => elem[a].key = w.key
    BY <2>1, <2>3 DEF ElementsInv
  <2>6. w \in SchemaNode
    BY <2>1 DEF TypeOK, Element
  <2>7. elem[a].flag = IF IsItem(schema, n) /\ w.type # "array" THEN "skip"
                       ELSE IF w.type # "json" \/ w.form = "none" THEN "none"
                       ELSE IF w.form = "items" THEN "array" ELSE "object"
    BY <2>3, <2>6 DEF Final, Flag, SchemaNode
  <2> QED BY <2>3, <2>4, <2>5, <2>7 DEF KidNodes
<1> QED BY <1>1, TreeInvariance, PTL

\* The message of a failed compilation has the keys of the properties on the way
\* to the fault, outermost first (tjv_ValidationCompileProperties).
THEOREM PathsOfErrors == Spec => []ErrorNamesThePath
PROOF
<1>1. IInv /\ TreeInv => ErrorNamesThePath
  <2> SUFFICES ASSUME IInv, TreeInv, failed, phase = "over"
               PROVE  \E n \in Node :
                        /\ schema[n].fault # "none"
                        /\ report = Path(schema)[IF schema[n].fault = "element"
                                                THEN Parent(schema, n) ELSE n]
    BY DEF ErrorNamesThePath
  <2>1. TypeOK /\ ReportInv /\ stack = << >> /\ report \in Seq(Obj \cup {None})
    BY DEF IInv, TreeInv, TypeOK
  <2>2. PICK n \in Node : schema[n].fault # "none" /\ Path(schema)[Place(n)] = << >> \o report
    BY <2>1 DEF ReportInv
  <2>3. report = Path(schema)[Place(n)]
    BY <2>1, <2>2, ConcatEmptySeq
  <2> QED BY <2>2, <2>3 DEF Place
<1> QED BY <1>1, TreeInvariance, PTL

=============================================================================
