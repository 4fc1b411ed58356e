----------------------------- MODULE SeqLemmas -----------------------------
(***************************************************************************)
(* What the sequence operators of the models do.  Handles: Tcl puts a new  *)
(* trace in front (<<a>> \o s) and Tcl_UntraceVar takes the first matching *)
(* one out (RemoveFirst).  Validate: the call stack is pushed, popped and  *)
(* changed at its top.                                                     *)
(***************************************************************************)
EXTENDS Integers, Sequences, SequencesExt, SequenceTheorems,
        FiniteSetTheorems, WellFoundedInduction, TLAPS

\* Induction over the naturals, for sets: a set of naturals has a least element,
\* and one that has 0 and every successor has them all.
LEMMA LeastNatural ==
  ASSUME NEW S, S \subseteq Nat, S # {}
  PROVE  \E m \in S : \A k \in S : m <= k
PROOF
<1> DEFINE Less == {ss \in Nat \X Nat : ss[1] < ss[2]}
<1>1. IsWellFoundedOn(Less, Nat)
  BY NatLessThanWellFounded DEF OpToRel
<1> HIDE DEF Less
<1>2. PICK m \in S : \A k \in S : ~ (<<k, m>> \in Less)
  BY <1>1, WFMin
<1>3. ASSUME NEW k \in S PROVE m <= k
  <2>1. k \in Nat /\ m \in Nat /\ <<k, m>> \notin Less
    BY <1>2
  <2>2. ~(k < m)
    BY <2>1 DEF Less
  <2> QED BY <2>1, <2>2
<1> QED BY <1>2, <1>3

LEMMA CountingUp ==
  ASSUME NEW S, 0 \in S, \A n \in Nat : n \in S => n + 1 \in S
  PROVE  Nat \subseteq S
PROOF
<1> DEFINE T == Nat \ S
<1> SUFFICES ASSUME T # {} PROVE FALSE
  OBVIOUS
<1>1. PICK m \in T : \A k \in T : m <= k
  BY LeastNatural
<1>2. m \in Nat /\ m # 0 /\ m - 1 \in Nat /\ m - 1 \notin T
  BY <1>1
<1> QED BY <1>2

\* Min of a non-empty set of naturals is its least element: of the intervals
\* 0..x that end in the set, one has no other strictly inside it.
LEMMA MinIsElement ==
  ASSUME NEW T, T \subseteq Nat, T # {}
  PROVE  Min(T) \in T /\ \A y \in T : Min(T) <= y
PROOF
<1> DEFINE Below == {0..x : x \in T}
<1>1. Below \subseteq FiniteSubsetsOf(Nat) /\ Below # {}
  <2>1. ASSUME NEW x \in T PROVE 0..x \in FiniteSubsetsOf(Nat)
    <3>1. x \in Int /\ 0 \in Int /\ 0..x \subseteq Nat
      OBVIOUS
    <3>2. IsFiniteSet(0..x)
      BY <3>1, FS_Interval
    <3> QED BY <3>1, <3>2 DEF FiniteSubsetsOf
  <2> QED BY <2>1
<1>2. IsWellFoundedOn(StrictSubsetOrdering(Nat), FiniteSubsetsOf(Nat))
  BY FS_StrictSubsetOrderingWellFounded
<1>3. \E I \in Below :
        \A J \in Below : ~ (<<J, I>> \in StrictSubsetOrdering(Nat))
  <2> HIDE DEF Below
  <2> QED BY <1>1, <1>2, WFMin
<1>4. PICK m \in T :
        \A y \in T : ~ (<<0..y, 0..m>> \in StrictSubsetOrdering(Nat))
  BY <1>3
<1>5. \A y \in T : m <= y
  <2> SUFFICES ASSUME NEW y \in T, y < m PROVE FALSE
    OBVIOUS
  <2>1. 0..y \subseteq 0..m /\ m \in 0..m /\ m \notin 0..y
    OBVIOUS
  <2>2. 0..y \in SUBSET Nat /\ 0..m \in SUBSET Nat /\ 0..y # 0..m
    BY <2>1
  <2>3. <<0..y, 0..m>> \in StrictSubsetOrdering(Nat)
    BY <2>1, <2>2, Zenon DEF StrictSubsetOrdering
  <2> QED BY <1>4, <2>3
<1> QED BY <1>5 DEF Min

\* Max of a non-empty set of naturals that has a bound is one of its elements.
LEMMA MaxIsElement ==
  ASSUME NEW n \in Nat, NEW T, T \subseteq 0..n, T # {}
  PROVE  Max(T) \in T
PROOF
<1> DEFINE Down == {n - x : x \in T}
<1>1. Down \subseteq Nat /\ Down # {}
  <2>1. ASSUME NEW x \in T PROVE n - x \in Nat
    <3>1. x \in 0..n
      OBVIOUS
    <3> QED BY <3>1
  <2> QED BY <2>1
<1>2. PICK d \in Down : \A y \in Down : d <= y
  <2> HIDE DEF Down
  <2> QED BY <1>1, MinIsElement
<1>3. PICK m \in T : d = n - m
  OBVIOUS
<1>4. \A y \in T : y <= m
  <2> SUFFICES ASSUME NEW y \in T PROVE y <= m
    OBVIOUS
  <2>1. n - y \in Down
    OBVIOUS
  <2>2. n - m <= n - y
    BY <1>2, <1>3, <2>1
  <2> QED BY <2>2
<1> QED BY <1>4 DEF Max

\* Taking out an element that is not there changes nothing.
LEMMA RemoveFirstAbsent ==
  ASSUME NEW S, NEW s \in Seq(S), NEW x, x \notin ToSet(s)
  PROVE  RemoveFirst(s, x) = s
BY DEF RemoveFirst, ToSet

\* Taking out an element that is there cuts the sequence at its first index.
LEMMA RemoveFirstPresent ==
  ASSUME NEW S, NEW s \in Seq(S), NEW x \in ToSet(s)
  PROVE  \E k \in 1..Len(s) :
           /\ s[k] = x
           /\ RemoveFirst(s, x) \in Seq(S)
           /\ Len(RemoveFirst(s, x)) = Len(s) - 1
           /\ \A j \in 1..Len(s)-1 :
                RemoveFirst(s, x)[j] = IF j < k THEN s[j] ELSE s[j+1]
PROOF
<1> DEFINE I == {i \in 1..Len(s) : s[i] = x}
<1>1. I # {} /\ I \subseteq Nat
  BY DEF ToSet
<1>2. SelectInSeq(s, LAMBDA v : v = x) = Min(I)
  BY <1>1 DEF SelectInSeq
<1>3. Min(I) \in I
  <2> HIDE DEF I
  <2> QED BY <1>1, MinIsElement
<1>4. PICK k \in 1..Len(s) :
        /\ s[k] = x
        /\ SelectInSeq(s, LAMBDA v : v = x) = k
  BY <1>2, <1>3
<1>5. RemoveFirst(s, x) = SubSeq(s, 1, k-1) \o SubSeq(s, k+1, Len(s))
  BY <1>4 DEF RemoveFirst, RemoveAt
<1>6. /\ SubSeq(s, 1, k-1) \in Seq(S)
      /\ Len(SubSeq(s, 1, k-1)) = k-1
      /\ \A j \in 1..k-1 : SubSeq(s, 1, k-1)[j] = s[j]
  OBVIOUS
<1>7. /\ SubSeq(s, k+1, Len(s)) \in Seq(S)
      /\ Len(SubSeq(s, k+1, Len(s))) = Len(s) - k
      /\ \A j \in 1..Len(s)-k : SubSeq(s, k+1, Len(s))[j] = s[k+j]
  OBVIOUS
<1>8. /\ RemoveFirst(s, x) \in Seq(S)
      /\ Len(RemoveFirst(s, x)) = Len(s) - 1
      /\ \A j \in 1..Len(s)-1 :
           RemoveFirst(s, x)[j] = IF j < k THEN s[j] ELSE s[j+1]
  <2> DEFINE u == SubSeq(s, 1, k-1)
             w == SubSeq(s, k+1, Len(s))
  <2> HIDE DEF u, w
  <2>1. u \in Seq(S) /\ w \in Seq(S) /\ Len(u) = k-1 /\ Len(w) = Len(s) - k
    BY <1>6, <1>7 DEF u, w
  <2>2. u \o w \in Seq(S) /\ Len(u \o w) = Len(s) - 1
    <3>1. (k-1) + (Len(s) - k) = Len(s) - 1
      OBVIOUS
    <3>2. u \o w \in Seq(S) /\ Len(u \o w) = Len(u) + Len(w)
      BY <2>1, ConcatProperties
    <3> QED BY <2>1, <3>1, <3>2
  <2>3. ASSUME NEW j \in 1..Len(s)-1
        PROVE  (u \o w)[j] = IF j < k THEN s[j] ELSE s[j+1]
    <3>1. (u \o w)[j] = IF j <= Len(u) THEN u[j] ELSE w[j - Len(u)]
      BY <2>1, ConcatProperties
    <3>2. CASE j < k
      BY <1>6, <2>1, <3>1, <3>2 DEF u
    <3>3. CASE ~(j < k)
      <4>1. j - (k-1) \in 1..Len(s)-k /\ k + (j - (k-1)) = j+1
        BY <3>3
      <4>2. w[j - (k-1)] = s[j+1]
        BY <1>7, <4>1 DEF w
      <4> QED BY <2>1, <3>1, <3>3, <4>2
    <3> QED BY <3>2, <3>3
  <2>4. RemoveFirst(s, x) = u \o w
    BY <1>5 DEF u, w
  <2> QED BY <2>2, <2>3, <2>4
<1> QED BY <1>4, <1>8

\* Taking out the first occurrence of x leaves a sequence over the same set
\* that has lost no element but possibly x and gained none.
LEMMA RemoveFirstElements ==
  ASSUME NEW S, NEW s \in Seq(S), NEW x
  PROVE  /\ RemoveFirst(s, x) \in Seq(S)
         /\ ToSet(RemoveFirst(s, x)) \subseteq ToSet(s)
         /\ ToSet(s) \ {x} \subseteq ToSet(RemoveFirst(s, x))
PROOF
<1>1. CASE x \notin ToSet(s)
  BY <1>1, RemoveFirstAbsent
<1>2. CASE x \in ToSet(s)
  <2> DEFINE r == RemoveFirst(s, x)
  <2>1. PICK k \in 1..Len(s) :
          /\ s[k] = x
          /\ r \in Seq(S)
          /\ Len(r) = Len(s) - 1
          /\ \A j \in 1..Len(s)-1 : r[j] = IF j < k THEN s[j] ELSE s[j+1]
    BY <1>2, RemoveFirstPresent
  <2> HIDE DEF r
  <2>2. ToSet(r) \subseteq ToSet(s)
    <3>1. ASSUME NEW j \in 1..Len(s)-1 PROVE r[j] \in ToSet(s)
      <4>1. j \in 1..Len(s) /\ j+1 \in 1..Len(s)
        OBVIOUS
      <4>2. s[j] \in ToSet(s) /\ s[j+1] \in ToSet(s)
        BY <4>1 DEF ToSet
      <4> QED BY <2>1, <4>2
    <3>2. DOMAIN r = 1..Len(s)-1
      BY <2>1
    <3> QED BY <3>1, <3>2 DEF ToSet
  <2>3. ASSUME NEW y \in ToSet(s), y # x PROVE y \in ToSet(r)
    <3>1. PICK i \in 1..Len(s) : s[i] = y
      BY DEF ToSet
    <3>2. CASE i < k
      <4>1. i \in 1..Len(s)-1 /\ r[i] = y
        BY <2>1, <3>1, <3>2
      <4> QED BY <2>1, <4>1 DEF ToSet
    <3>3. CASE i > k
      <4>1. i-1 \in 1..Len(s)-1 /\ r[i-1] = y
        BY <2>1, <3>1, <3>3
      <4> QED BY <2>1, <4>1 DEF ToSet
    <3> QED BY <2>1, <2>3, <3>1, <3>2, <3>3
  <2> QED BY <2>1, <2>2, <2>3 DEF r
<1> QED BY <1>1, <1>2

\* In a sequence without repetition the only occurrence goes.
LEMMA RemoveFirstInjective ==
  ASSUME NEW S, NEW s \in Seq(S), NEW x, IsInjective(s)
  PROVE  /\ IsInjective(RemoveFirst(s, x))
         /\ x \notin ToSet(RemoveFirst(s, x))
PROOF
<1>1. CASE x \notin ToSet(s)
  BY <1>1, RemoveFirstAbsent
<1>2. CASE x \in ToSet(s)
  <2> DEFINE r == RemoveFirst(s, x)
  <2>1. PICK k \in 1..Len(s) :
          /\ s[k] = x
          /\ r \in Seq(S)
          /\ Len(r) = Len(s) - 1
          /\ \A j \in 1..Len(s)-1 : r[j] = IF j < k THEN s[j] ELSE s[j+1]
    BY <1>2, RemoveFirstPresent
  <2> HIDE DEF r
  <2>2. \A i, j \in 1..Len(s) : s[i] = s[j] => i = j
    BY DEF IsInjective
  <2>3. ASSUME NEW i \in 1..Len(s)-1, NEW j \in 1..Len(s)-1, r[i] = r[j]
        PROVE  i = j
    <3> DEFINE at(m) == IF m < k THEN m ELSE m + 1
    <3>1. at(i) \in 1..Len(s) /\ at(j) \in 1..Len(s)
      OBVIOUS
    <3>2. r[i] = s[at(i)] /\ r[j] = s[at(j)]
      BY <2>1
    <3>3. at(i) = at(j)
      BY <2>2, <2>3, <3>1, <3>2
    <3> QED BY <3>3
  <2>4. ASSUME NEW j \in 1..Len(s)-1 PROVE r[j] # x
    <3>1. CASE j < k
      BY <2>1, <2>2, <3>1
    <3>2. CASE ~(j < k)
      <4>1. j + 1 \in 1..Len(s) /\ j + 1 # k /\ r[j] = s[j + 1]
        BY <2>1, <3>2
      <4> QED BY <2>1, <2>2, <4>1
    <3> QED BY <3>1, <3>2
  <2>5. DOMAIN r = 1..Len(s)-1
    BY <2>1
  <2>6. IsInjective(r)
    BY <2>3, <2>5 DEF IsInjective
  <2>7. x \notin ToSet(r)
    BY <2>4, <2>5 DEF ToSet
  <2> QED BY <2>6, <2>7 DEF r
<1> QED BY <1>1, <1>2

\* A new element in front of a sequence.
LEMMA PushFront ==
  ASSUME NEW S, NEW s \in Seq(S), NEW x \in S
  PROVE  /\ <<x>> \o s \in Seq(S)
         /\ <<x>> \o s # << >>
         /\ ToSet(<<x>> \o s) = {x} \cup ToSet(s)
         /\ IsInjective(s) /\ x \notin ToSet(s) => IsInjective(<<x>> \o s)
PROOF
<1> DEFINE r == <<x>> \o s
<1>1. r \in Seq(S) /\ Len(r) = Len(s) + 1 /\ Len(s) \in Nat
  OBVIOUS
<1>2. r[1] = x /\ \A i \in 1..Len(s) : r[i+1] = s[i]
  OBVIOUS
<1> HIDE DEF r
<1>3. \A i \in 2..Len(r) : i-1 \in 1..Len(s) /\ r[i] = s[i-1]
  BY <1>1, <1>2
<1>4. ToSet(r) = {x} \cup ToSet(s)
  <2>1. ASSUME NEW j \in 1..Len(r) PROVE r[j] \in {x} \cup ToSet(s)
    <3>1. CASE j = 1
      BY <1>2, <3>1
    <3>2. CASE j # 1
      <4>1. j \in 2..Len(r)
        BY <1>1, <3>2
      <4> QED BY <1>3, <4>1 DEF ToSet
    <3> QED BY <3>1, <3>2
  <2>2. x \in ToSet(r)
    BY <1>1, <1>2 DEF ToSet
  <2>3. ASSUME NEW i \in 1..Len(s) PROVE s[i] \in ToSet(r)
    <3>1. i+1 \in 1..Len(r) /\ r[i+1] = s[i]
      BY <1>1, <1>2
    <3> QED BY <1>1, <3>1 DEF ToSet
  <2>4. DOMAIN r = 1..Len(r) /\ DOMAIN s = 1..Len(s)
    BY <1>1
  <2>5. ToSet(r) \subseteq {x} \cup ToSet(s)
    BY <2>1, <2>4 DEF ToSet
  <2>6. ToSet(s) \subseteq ToSet(r)
    BY <2>3, <2>4 DEF ToSet
  <2> QED BY <2>2, <2>5, <2>6
<1>5. ASSUME IsInjective(s), x \notin ToSet(s) PROVE IsInjective(r)
  <2>1. \A i, j \in 1..Len(s) : s[i] = s[j] => i = j
    BY <1>5 DEF IsInjective
  <2>2. \A i \in 1..Len(s) : s[i] # x
    BY <1>5 DEF ToSet
  <2> SUFFICES ASSUME NEW i \in 1..Len(r), NEW j \in 1..Len(r), r[i] = r[j]
               PROVE  i = j
    BY <1>1 DEF IsInjective
  <2>3. CASE i = 1 \/ j = 1
    <3>1. ASSUME NEW m \in 2..Len(r) PROVE r[m] # x
      BY <1>3, <2>2
    <3> QED BY <1>1, <1>2, <2>3, <3>1
  <2>4. CASE i # 1 /\ j # 1
    <3>1. i \in 2..Len(r) /\ j \in 2..Len(r)
      BY <1>1, <2>4
    <3>2. i-1 = j-1
      BY <1>3, <2>1, <3>1
    <3> QED BY <3>1, <3>2
  <2> QED BY <2>3, <2>4
<1> QED BY <1>1, <1>4, <1>5 DEF r

\* The first element of a sequence leaves it.
LEMMA PopFront ==
  ASSUME NEW S, NEW s \in Seq(S), s # << >>
  PROVE  /\ Head(s) \in ToSet(s) /\ Head(s) \in S
         /\ Tail(s) \in Seq(S)
         /\ ToSet(Tail(s)) \subseteq ToSet(s)
         /\ ToSet(s) \ {Head(s)} \subseteq ToSet(Tail(s))
         /\ IsInjective(s) =>
              IsInjective(Tail(s)) /\ Head(s) \notin ToSet(Tail(s))
PROOF
<1>1. Len(s) \in Nat \ {0} /\ Head(s) = s[1]
  OBVIOUS
<1>2. /\ Tail(s) \in Seq(S) /\ Len(Tail(s)) = Len(s) - 1
      /\ \A i \in 1..Len(s)-1 : Tail(s)[i] = s[i+1]
  OBVIOUS
<1> DEFINE t == Tail(s)
<1>3. t \in Seq(S) /\ Len(t) = Len(s) - 1 /\ \A i \in 1..Len(s)-1 : t[i] = s[i+1]
  BY <1>2
<1> HIDE DEF t
<1>4. Head(s) \in ToSet(s) /\ Head(s) \in S
  BY <1>1 DEF ToSet
<1>5. ToSet(t) \subseteq ToSet(s)
  BY <1>1, <1>3 DEF ToSet
<1>6. ASSUME NEW i \in 2..Len(s) PROVE s[i] \in ToSet(t)
  <2>1. i-1 \in 1..Len(t) /\ t[i-1] = s[i]
    BY <1>1, <1>3
  <2> QED BY <1>3, <2>1 DEF ToSet
<1>7. ToSet(s) \ {Head(s)} \subseteq ToSet(t)
  BY <1>1, <1>6 DEF ToSet
<1>8. ASSUME IsInjective(s) PROVE IsInjective(t) /\ Head(s) \notin ToSet(t)
  <2>1. \A i, j \in 1..Len(s) : s[i] = s[j] => i = j
    BY <1>8 DEF IsInjective
  <2>2. ASSUME NEW i \in 1..Len(t), NEW j \in 1..Len(t), t[i] = t[j]
        PROVE  i = j
    BY <1>1, <1>3, <2>1, <2>2
  <2>3. ASSUME NEW i \in 1..Len(t) PROVE t[i] # s[1]
    BY <1>1, <1>3, <2>1
  <2> QED BY <1>1, <1>3, <2>2, <2>3 DEF IsInjective, ToSet
<1> QED BY <1>3, <1>4, <1>5, <1>7, <1>8 DEF t

----------------------------------------------------------------------------
(* Stacks.                                                                 *)

\* Changing one element of a sequence keeps its length and the others.
LEMMA ChangeOne ==
  ASSUME NEW S, NEW s \in Seq(S), NEW i \in DOMAIN s, NEW x \in S
  PROVE  LET t == [s EXCEPT ![i] = x] IN
         /\ t \in Seq(S) /\ Len(t) = Len(s) /\ t[i] = x
         /\ \A k \in DOMAIN s : k # i => t[k] = s[k]
BY ExceptSeq

\* Pushing onto a stack whose top is changed in the same step.
LEMMA PushOne ==
  ASSUME NEW S, NEW s \in Seq(S), s # << >>, NEW x \in S, NEW y \in S
  PROVE  LET t == Append([s EXCEPT ![Len(s)] = x], y) IN
         /\ t \in Seq(S) /\ Len(t) = Len(s) + 1 /\ t[Len(s)] = x /\ t[Len(s) + 1] = y
         /\ \A k \in 1..(Len(s) - 1) : t[k] = s[k]
PROOF
<1> DEFINE u == [s EXCEPT ![Len(s)] = x]
<1>1. Len(s) \in DOMAIN s /\ Len(s) \in Nat /\ DOMAIN s = 1..Len(s)
  OBVIOUS
<1>2. u \in Seq(S) /\ Len(u) = Len(s) /\ u[Len(s)] = x /\ \A k \in DOMAIN s : k # Len(s) => u[k] = s[k]
  BY <1>1, ChangeOne
<1> HIDE DEF u
<1>3. /\ Append(u, y) \in Seq(S) /\ Len(Append(u, y)) = Len(u) + 1
      /\ Append(u, y)[Len(u) + 1] = y
      /\ \A k \in 1..Len(u) : Append(u, y)[k] = u[k]
  BY <1>2, AppendProperties
<1>4. Append(u, y)[Len(s)] = x
  BY <1>1, <1>2, <1>3
<1>6. ASSUME NEW k \in 1..(Len(s) - 1) PROVE Append(u, y)[k] = s[k]
  <2>1. Len(u) = Len(s) /\ DOMAIN s = 1..Len(s) /\ Len(s) \in Nat
    BY <1>1, <1>2
  <2>2. k \in 1..Len(s) /\ k # Len(s)
    BY <2>1
  <2>3. k \in 1..Len(u) /\ k \in DOMAIN s /\ k # Len(s)
    BY <2>1, <2>2, Zenon
  <2> QED BY <1>2, <1>3, <2>3, Zenon
<1>5. Append(u, y) = Append([s EXCEPT ![Len(s)] = x], y)
  BY DEF u
<1> QED BY <1>2, <1>3, <1>4, <1>5, <1>6

\* What is left under the top of a stack.
LEMMA FrontOf ==
  ASSUME NEW S, NEW s \in Seq(S), s # << >>
  PROVE  /\ Front(s) \in Seq(S) /\ Len(Front(s)) = Len(s) - 1
         /\ \A k \in 1..(Len(s) - 1) : Front(s)[k] = s[k]
PROOF
<1>1. Len(s) \in Nat /\ Len(s) # 0 /\ 1 \in Int /\ Len(s) - 1 \in Int
  OBVIOUS
<1>2. \A i \in 1..(Len(s) - 1) : s[i] \in S
  OBVIOUS
<1> DEFINE t == SubSeq(s, 1, Len(s) - 1)
<1>3. /\ t \in Seq(S)
      /\ Len(t) = IF 1 <= Len(s) - 1 THEN (Len(s) - 1) - 1 + 1 ELSE 0
      /\ \A i \in 1..((Len(s) - 1) - 1 + 1) : t[i] = s[1 + i - 1]
  BY <1>1, <1>2, SubSeqProperties
<1>4. Front(s) = t
  BY DEF Front
<1> HIDE DEF t
<1>5. ASSUME NEW k \in 1..(Len(s) - 1) PROVE t[k] = s[k]
  <2>1. k \in 1..((Len(s) - 1) - 1 + 1) /\ 1 + k - 1 = k
    BY <1>1
  <2> QED BY <1>3, <2>1
<1> QED BY <1>1, <1>3, <1>4, <1>5

\* What flattening a sequence of sequences yields, part by part.
LEMMA FlattenSteps ==
  ASSUME NEW S, NEW s \in Seq(Seq(S))
  PROVE  \E F : /\ F[0] = << >>
                /\ \A k \in 0..Len(s) : F[k] \in Seq(S) /\ FlattenSeq(SubSeq(s, 1, k)) = F[k]
                /\ \A k \in 1..Len(s) : F[k] = F[k - 1] \o s[k]
PROOF
<1> DEFINE Sums(F, k) == /\ F[0] = << >>
                         /\ \A i \in 0..k : F[i] \in Seq(S)
                         /\ \A i \in 1..k : F[i] = F[i - 1] \o s[i]
<1> DEFINE K == {k \in Nat : k <= Len(s) => \E F : Sums(F, k)}
<1>0. Len(s) \in Nat /\ DOMAIN s = 1..Len(s) /\ \A i \in 1..Len(s) : s[i] \in Seq(S)
  OBVIOUS
<1>1. 0 \in K
  <2>1. Sums([i \in {0} |-> << >>], 0)
    OBVIOUS
  <2> HIDE DEF Sums
  <2> QED BY <2>1
<1>2. ASSUME NEW k \in Nat, k \in K PROVE k + 1 \in K
  <2> HIDE DEF Sums
  <2> SUFFICES ASSUME k + 1 <= Len(s) PROVE \E F : Sums(F, k + 1)
    OBVIOUS
  <2>1. PICK F : Sums(F, k)
    BY <1>0, <1>2
  <2> USE DEF Sums
  <2> DEFINE G == [i \in 0..(k + 1) |-> IF i = k + 1 THEN F[k] \o s[k + 1] ELSE F[i]]
  <2>2. F[k] \o s[k + 1] \in Seq(S)
    BY <1>0, <2>1
  <2>3. \A i \in 0..k : G[i] = F[i]
    OBVIOUS
  <2>4. G[k + 1] = F[k] \o s[k + 1]
    <3>1. k + 1 \in 0..(k + 1)
      OBVIOUS
    <3> QED BY <3>1
  <2> HIDE DEF G
  <2>5. \A i \in 0..(k + 1) : i \in 0..k \/ i = k + 1
    OBVIOUS
  <2>6. \A i \in 1..(k + 1) : (i \in 1..k /\ i - 1 \in 0..k /\ i \in 0..k) \/ (i = k + 1 /\ i - 1 = k)
    OBVIOUS
  <2>7. k \in 0..k /\ 0 \in 0..k
    OBVIOUS
  <2>8. G[0] = << >>
    BY <2>1, <2>3, <2>7
  <2>9. ASSUME NEW i \in 0..(k + 1) PROVE G[i] \in Seq(S)
    BY <2>1, <2>2, <2>3, <2>4, <2>5
  <2>10. ASSUME NEW i \in 1..(k + 1) PROVE G[i] = G[i - 1] \o s[i]
    <3>1. CASE i \in 1..k /\ i - 1 \in 0..k /\ i \in 0..k
      BY <3>1, <2>1, <2>3
    <3>2. CASE i = k + 1 /\ i - 1 = k
      BY <3>2, <2>3, <2>4, <2>7
    <3> QED BY <2>6, <3>1, <3>2
  <2>11. Sums(G, k + 1)
    BY <2>8, <2>9, <2>10
  <2> HIDE DEF Sums
  <2> QED BY <2>11
<1>3. PICK F : Sums(F, Len(s))
  <2> HIDE DEF Sums
  <2>1. Nat \subseteq K
    <3> HIDE DEF K
    <3> QED BY <1>1, <1>2, CountingUp
  <2> QED BY <1>0, <2>1
<1>4. ASSUME NEW k \in 0..Len(s) PROVE FlattenSeq(SubSeq(s, 1, k)) = F[k]
  <2> DEFINE t == SubSeq(s, 1, k)
  <2>1. t \in Seq(Seq(S)) /\ Len(t) = k /\ \A i \in 1..k : t[i] = s[i]
    BY <1>0
  <2>2. k \in Nat /\ \A i \in 1..k : i \in 1..Len(s) /\ i - 1 \in 0..Len(s)
    BY <1>0
  <2> HIDE DEF t
  <2>3. CASE k = 0
    <3>1. FlattenSeq(t) = t
      BY <2>1, <2>3 DEF FlattenSeq
    <3>2. t = << >>
      BY <2>1, <2>3, EmptySeq
    <3> QED BY <3>1, <3>2, <1>3, <2>3 DEF t
  <2>4. CASE k # 0
    <3> DEFINE Body(f) == [i \in 1..Len(t) |-> IF i = 1 THEN t[i] ELSE f[i - 1] \o t[i]]
    <3> DEFINE g == [i \in 1..Len(t) |-> F[i]]
    <3> DEFINE h == CHOOSE f : f = Body(f)
    <3>1. g = Body(g)
      <4>1. ASSUME NEW i \in 1..Len(t) PROVE F[i] = IF i = 1 THEN t[i] ELSE g[i - 1] \o t[i]
        <5>1. i \in 1..k /\ t[i] = s[i] /\ i \in 1..Len(s) /\ s[i] \in Seq(S)
          BY <2>1, <2>2, <1>0
        <5>2. F[i] = F[i - 1] \o s[i]
          BY <5>1, <1>3
        <5>3. CASE i = 1
          <6>1. F[i - 1] = << >>
            BY <5>3, <1>3
          <6>2. F[i] = s[i]
            BY <6>1, <5>1, <5>2, ConcatEmptySeq
          <6> QED BY <5>3, <6>2, <5>1
        <5>4. CASE i # 1
          <6>1. i - 1 \in 1..Len(t)
            BY <5>4, <2>1, <2>2
          <6> QED BY <6>1, <5>4, <5>2, <5>1
        <5> QED BY <5>3, <5>4
      <4> QED BY <4>1
    <3>2. h = Body(h)
      <4> HIDE DEF g, Body
      <4> QED BY <3>1
    <3>3. FlattenSeq(t) = h[Len(t)]
      BY <2>1, <2>4 DEF FlattenSeq
    <3> HIDE DEF h
    <3>4. \A i \in 1..k : h[i] = IF i = 1 THEN t[i] ELSE h[i - 1] \o t[i]
      BY <3>2, <2>1
    <3> HIDE DEF g, Body
    <3> DEFINE L == {i \in Nat : i \in 1..k => h[i] = F[i]}
    <3>5. 0 \in L
      OBVIOUS
    <3>6. ASSUME NEW i \in Nat, i \in L PROVE i + 1 \in L
      <4> SUFFICES ASSUME i + 1 \in 1..k PROVE h[i + 1] = F[i + 1]
        OBVIOUS
      <4>1. i + 1 \in 1..Len(s) /\ t[i + 1] = s[i + 1] /\ s[i + 1] \in Seq(S)
        BY <2>1, <2>2, <1>0
      <4>2. F[i + 1] = F[i] \o s[i + 1]
        <5>1. F[i + 1] = F[(i + 1) - 1] \o s[i + 1]
          BY <4>1, <1>3
        <5>2. (i + 1) - 1 = i
          OBVIOUS
        <5> QED BY <5>1, <5>2
      <4>3. CASE i = 0
        <5>1. F[i] = << >>
          BY <4>3, <1>3
        <5>2. F[i + 1] = s[i + 1]
          BY <5>1, <4>1, <4>2, ConcatEmptySeq
        <5> QED BY <5>2, <4>1, <4>3, <3>4
      <4>4. CASE i # 0
        <5>1. i \in 1..k /\ (i + 1) - 1 = i /\ i + 1 # 1
          BY <4>4, <2>2
        <5>2. h[i] = F[i]
          BY <5>1, <3>6
        <5>3. h[i + 1] = h[i] \o t[i + 1]
          BY <5>1, <3>4
        <5> QED BY <5>2, <5>3, <4>1, <4>2
      <4> QED BY <4>3, <4>4
    <3>7. Nat \subseteq L
      <4> HIDE DEF L
      <4> QED BY <3>5, <3>6, CountingUp
    <3>8. k \in 1..k
      BY <2>2, <2>4
    <3> QED BY <3>3, <3>7, <3>8, <2>1, <2>2 DEF t
  <2> QED BY <2>3, <2>4
<1> QED BY <1>3, <1>4

\* The first parts flattened: nothing, one part more, and all of them.
LEMMA FlattenParts ==
  ASSUME NEW S, NEW s \in Seq(Seq(S))
  PROVE  /\ FlattenSeq(SubSeq(s, 1, 0)) = << >>
         /\ \A k \in 0..Len(s) : FlattenSeq(SubSeq(s, 1, k)) \in Seq(S)
         /\ \A k \in 0..Len(s) : k + 1 <= Len(s) =>
              FlattenSeq(SubSeq(s, 1, k + 1)) = FlattenSeq(SubSeq(s, 1, k)) \o s[k + 1]
         /\ FlattenSeq(SubSeq(s, 1, Len(s))) = FlattenSeq(s)
         /\ FlattenSeq(s) \in Seq(S)
PROOF
<1>0. Len(s) \in Nat
  OBVIOUS
<1>1. PICK F : /\ F[0] = << >>
               /\ \A k \in 0..Len(s) : F[k] \in Seq(S) /\ FlattenSeq(SubSeq(s, 1, k)) = F[k]
               /\ \A k \in 1..Len(s) : F[k] = F[k - 1] \o s[k]
  BY FlattenSteps
<1>2. 0 \in 0..Len(s) /\ Len(s) \in 0..Len(s)
  BY <1>0
<1>3. SubSeq(s, 1, Len(s)) = s
  OBVIOUS
<1>4. ASSUME NEW k \in 0..Len(s), k + 1 <= Len(s)
      PROVE  FlattenSeq(SubSeq(s, 1, k + 1)) = FlattenSeq(SubSeq(s, 1, k)) \o s[k + 1]
  <2>1. k + 1 \in 0..Len(s) /\ k + 1 \in 1..Len(s) /\ (k + 1) - 1 = k
    BY <1>4, <1>0
  <2> QED BY <2>1, <1>1
<1> QED BY <1>1, <1>2, <1>3, <1>4

=============================================================================
