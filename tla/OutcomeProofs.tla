--------------------------- MODULE OutcomeProofs ---------------------------
(***************************************************************************)
(* For every schema and every value: a validation without errors returns   *)
(* what the schema says the value stores.                                  *)
(***************************************************************************)
EXTENDS MeaningProofs

----------------------------------------------------------------------------
(* What is left of the values stored one after the other.                  *)

\* Whether the i-th value is taken, t telling which of those before it are.
Takes(s, t, i) ==
  \A h \in 1..(i - 1) :
    t[h] /\ IsStrictPrefix(s[h][1], s[i][1]) /\ ~Opens(s[h][2])
      => \E m \in (h + 1)..(i - 1) : t[m] /\ IsPrefix(s[m][1], s[h][1])
Taken(s) == CHOOSE t : t = [i \in DOMAIN s |-> Takes(s, t, i)]
Stands(s) ==
  {i \in DOMAIN s : /\ Taken(s)[i]
                    /\ ~ \E m \in (i + 1)..Len(s) : Taken(s)[m] /\ IsPrefix(s[m][1], s[i][1])}

LEMMA DictOfStands ==
  \A s : Dict(s) = [k \in {s[i][1] : i \in Stands(s)} |->
                      s[CHOOSE i \in Stands(s) : s[i][1] = k][2]]
BY DEF Dict, Stands, Taken, Takes

LEMMA TakesSame ==
  ASSUME NEW s, NEW t, NEW u, NEW i \in Nat, \A h \in 1..(i - 1) : t[h] = u[h]
  PROVE  Takes(s, t, i) = Takes(s, u, i)
PROOF
<1>1. \A h \in 1..(i - 1) : \A m \in (h + 1)..(i - 1) : m \in 1..(i - 1)
  OBVIOUS
<1> QED BY <1>1 DEF Takes

\* A value that is stored is taken or not on account of those before it.
LEMMA TakenDefined ==
  ASSUME NEW S, NEW s \in Seq(S)
  PROVE  /\ Taken(s) = [i \in 1..Len(s) |-> Takes(s, Taken(s), i)]
         /\ DOMAIN s = 1..Len(s) /\ Len(s) \in Nat
PROOF
<1>0. DOMAIN s = 1..Len(s) /\ Len(s) \in Nat
  OBVIOUS
<1> PICK n \in Nat : n = Len(s)
  BY <1>0
<1> DEFINE Fits(t, k) == t = [i \in 1..n |-> IF i <= k THEN Takes(s, t, i) ELSE FALSE]
<1> DEFINE K == {k \in Nat : \E t : Fits(t, k)}
<1>1. 0 \in K
  <2> DEFINE t == [i \in 1..n |-> FALSE]
  <2>1. \A i \in 1..n : ~(i <= 0)
    OBVIOUS
  <2>2. Fits(t, 0)
    BY <2>1
  <2> HIDE DEF Fits, t
  <2> QED BY <2>2
<1>2. ASSUME NEW k \in Nat, k \in K PROVE k + 1 \in K
  <2>1. PICK t : Fits(t, k)
    <3> HIDE DEF Fits
    <3> QED BY <1>2
  <2> DEFINE u == [i \in 1..n |-> IF i <= k + 1 THEN Takes(s, t, i) ELSE FALSE]
  <2>2. ASSUME NEW i \in 1..n, i <= k + 1 PROVE Takes(s, t, i) = Takes(s, u, i)
    <3>1. ASSUME NEW h \in 1..(i - 1) PROVE t[h] = u[h]
      <4>1. h \in 1..n /\ h <= k /\ h <= k + 1
        BY <2>2
      <4>2. t[h] = Takes(s, t, h)
        BY <2>1, <4>1
      <4> QED BY <4>1, <4>2
    <3> HIDE DEF u
    <3> QED BY <3>1, TakesSame
  <2>3. u = [i \in 1..n |-> IF i <= k + 1 THEN Takes(s, u, i) ELSE FALSE]
    <3> DEFINE w == [i \in 1..n |-> IF i <= k + 1 THEN Takes(s, u, i) ELSE FALSE]
    <3>1. \A i \in 1..n : u[i] = w[i]
      BY <2>2
    <3>2. u = [i \in 1..n |-> u[i]] /\ w = [i \in 1..n |-> w[i]]
      OBVIOUS
    <3> HIDE DEF u, w
    <3>3. u = w
      BY <3>1, <3>2
    <3> QED BY <3>3 DEF w
  <2> HIDE DEF u
  <2>4. Fits(u, k + 1)
    BY <2>3
  <2> HIDE DEF Fits
  <2> QED BY <2>4
<1>3. PICK t : Fits(t, n)
  <2> HIDE DEF Fits
  <2>1. \A m \in Nat : m \in K => m + 1 \in K
    BY <1>2
  <2>2. Nat \subseteq K
    <3> HIDE DEF K
    <3> QED BY <1>1, <2>1, CountingUp
  <2> QED BY <2>2
<1>4. \A i \in 1..n : i <= n
  OBVIOUS
<1>5. t = [i \in 1..n |-> Takes(s, t, i)]
  BY <1>3, <1>4
<1>6. t = [i \in DOMAIN s |-> Takes(s, t, i)]
  BY <1>0, <1>5
<1>7. Taken(s) = [i \in DOMAIN s |-> Takes(s, Taken(s), i)]
  BY <1>6 DEF Taken
<1> QED BY <1>0, <1>7

\* Values under key lists; an outkey is a key list and so a prefix of itself.
IsStores(s) == s \in Seq(ToSet(s)) /\ \A i \in DOMAIN s : IsPrefix(s[i][1], s[i][1])

\* One more value: those before it are taken as they were.
LEMMA TakenBefore ==
  ASSUME NEW S, NEW s \in Seq(S), NEW x \in S
  PROVE  LET t == Append(s, x) IN
         /\ t \in Seq(S) /\ Len(t) = Len(s) + 1 /\ t[Len(s) + 1] = x
         /\ \A i \in 1..Len(s) : t[i] = s[i]
         /\ \A i \in 1..Len(s) : Taken(t)[i] = Taken(s)[i]
PROOF
<1> DEFINE t == Append(s, x)
<1>1. /\ t \in Seq(S) /\ Len(t) = Len(s) + 1 /\ t[Len(s) + 1] = x
      /\ \A i \in 1..Len(s) : t[i] = s[i]
  OBVIOUS
<1> PICK n \in Nat : n = Len(s)
  OBVIOUS
<1> HIDE DEF t
<1>2. /\ Taken(s) = [i \in 1..n |-> Takes(s, Taken(s), i)]
      /\ Taken(t) = [i \in 1..(n + 1) |-> Takes(t, Taken(t), i)]
  BY <1>1, TakenDefined
<1>3. ASSUME NEW i \in 1..n, NEW u PROVE Takes(t, u, i) = Takes(s, u, i)
  <2>1. t[i] = s[i]
    BY <1>1
  <2>2. \A h \in 1..(i - 1) : t[h] = s[h]
    BY <1>1
  <2>3. \A h \in 1..(i - 1) : \A m \in (h + 1)..(i - 1) : t[m] = s[m]
    BY <1>1
  <2> QED BY <2>1, <2>2, <2>3 DEF Takes
<1> DEFINE D == {i \in 1..n : Taken(t)[i] # Taken(s)[i]}
<1>4. D = {}
  <2> SUFFICES ASSUME D # {} PROVE FALSE
    OBVIOUS
  <2>1. PICK m \in D : \A i \in D : m <= i
    <3>1. D \subseteq Nat
      OBVIOUS
    <3> HIDE DEF D
    <3> QED BY <3>1, LeastNatural
  <2>2. m \in 1..n /\ m \in 1..(n + 1)
    OBVIOUS
  <2>3. ASSUME NEW h \in 1..(m - 1) PROVE Taken(t)[h] = Taken(s)[h]
    <3>1. h \in 1..n /\ ~(m <= h)
      BY <2>2
    <3> QED BY <2>1, <3>1
  <2>4. Takes(t, Taken(t), m) = Takes(t, Taken(s), m)
    BY <2>2, <2>3, TakesSame
  <2>5. Takes(t, Taken(s), m) = Takes(s, Taken(s), m)
    BY <1>3, <2>2
  <2>6. Taken(t)[m] = Takes(t, Taken(t), m) /\ Taken(s)[m] = Takes(s, Taken(s), m)
    BY <1>2, <2>2
  <2> QED BY <2>1, <2>4, <2>5, <2>6
<1>5. \A i \in 1..n : Taken(t)[i] = Taken(s)[i]
  BY <1>4
<1> QED BY <1>1, <1>5 DEF t

\* Only one value stands under a key list.
LEMMA StandsApart ==
  ASSUME NEW s, IsStores(s), NEW i \in Stands(s), NEW j \in Stands(s), s[i][1] = s[j][1]
  PROVE  i = j
PROOF
<1>1. DOMAIN s = 1..Len(s) /\ Len(s) \in Nat
  BY DEF IsStores
<1>2. ASSUME NEW k \in Stands(s), NEW m \in Stands(s), s[k][1] = s[m][1] PROVE ~(k < m)
  <2>1. k \in 1..Len(s) /\ m \in 1..Len(s) /\ Taken(s)[m]
    BY <1>1 DEF Stands
  <2>2. IsPrefix(s[m][1], s[k][1])
    BY <1>1, <1>2, <2>1 DEF IsStores
  <2>3. k < m => m \in (k + 1)..Len(s)
    BY <2>1
  <2> QED BY <2>1, <2>2, <2>3 DEF Stands
<1>3. ~(i < j) /\ ~(j < i)
  BY <1>2
<1>4. i \in 1..Len(s) /\ j \in 1..Len(s)
  BY <1>1 DEF Stands
<1> QED BY <1>1, <1>3, <1>4

LEMMA DictValues ==
  ASSUME NEW s, IsStores(s)
  PROVE  /\ DOMAIN Dict(s) = {s[i][1] : i \in Stands(s)}
         /\ \A i \in Stands(s) : Dict(s)[s[i][1]] = s[i][2]
         /\ Dict(s) = [k \in DOMAIN Dict(s) |-> Dict(s)[k]]
PROOF
<1> DEFINE D == {s[i][1] : i \in Stands(s)}
           V(k) == s[CHOOSE i \in Stands(s) : s[i][1] = k][2]
<1>1. Dict(s) = [k \in D |-> V(k)]
  BY DictOfStands
<1>2. ASSUME NEW i \in Stands(s) PROVE Dict(s)[s[i][1]] = s[i][2]
  <2> DEFINE j == CHOOSE j \in Stands(s) : s[j][1] = s[i][1]
  <2>1. j \in Stands(s) /\ s[j][1] = s[i][1]
    OBVIOUS
  <2>2. j = i
    <3> HIDE DEF j
    <3> QED BY <2>1, StandsApart
  <2>3. V(s[i][1]) = s[j][2]
    OBVIOUS
  <2>4. s[i][1] \in D
    OBVIOUS
  <2> HIDE DEF V, D, j
  <2>5. Dict(s)[s[i][1]] = V(s[i][1])
    BY <1>1, <2>4
  <2> QED BY <2>2, <2>3, <2>5
<1>3. DOMAIN Dict(s) = D /\ Dict(s) = [k \in D |-> Dict(s)[k]]
  BY <1>1
<1> QED BY <1>2, <1>3

\* Nothing stored.
LEMMA DictOfNothing == Dict(<< >>) = Empty /\ IsStores(<< >>)
PROOF
<1>1. IsStores(<< >>)
  BY DEF IsStores
<1>2. Stands(<< >>) = {}
  BY DEF Stands
<1>3. \A D : D = {} => [k \in D |-> (<< >>)[CHOOSE i \in D : (<< >>)[i][1] = k][2]] = [k \in {} |-> None]
  OBVIOUS
<1>4. Dict(<< >>) = [k \in {} |-> None]
  BY <1>2, DictOfStands
<1> QED BY <1>1, <1>4 DEF Empty

\* What stands after one more value has been stored.
LEMMA StandsGrow ==
  ASSUME NEW S, NEW s \in Seq(S), NEW x \in S
  PROVE  LET t == Append(s, x)
             n == Len(s)
             blocked == \E h \in Stands(s) : IsStrictPrefix(s[h][1], x[1]) /\ ~Opens(s[h][2])
         IN  Stands(t) = IF blocked THEN Stands(s)
                         ELSE {i \in Stands(s) : ~IsPrefix(x[1], s[i][1])} \cup {n + 1}
PROOF
<1> DEFINE t == Append(s, x)
           blocked == \E h \in Stands(s) : IsStrictPrefix(s[h][1], x[1]) /\ ~Opens(s[h][2])
<1>1. /\ t \in Seq(S) /\ Len(t) = Len(s) + 1 /\ t[Len(s) + 1] = x
      /\ \A i \in 1..Len(s) : t[i] = s[i]
      /\ \A i \in 1..Len(s) : Taken(t)[i] = Taken(s)[i]
  BY TakenBefore
<1> PICK n \in Nat : n = Len(s)
  OBVIOUS
<1> HIDE DEF t
<1>2. /\ Taken(t) = [i \in 1..(n + 1) |-> Takes(t, Taken(t), i)]
      /\ DOMAIN s = 1..n /\ DOMAIN t = 1..(n + 1) /\ Len(t) = n + 1
  BY <1>1, TakenDefined
<1>3. \A h \in 1..n : h \in Stands(s) <=>
        Taken(s)[h] /\ ~ \E m \in (h + 1)..n : Taken(s)[m] /\ IsPrefix(s[m][1], s[h][1])
  BY <1>2 DEF Stands
<1>4. \A h \in 1..n : \A m \in (h + 1)..n : m \in 1..n
  OBVIOUS
<1>5. Taken(t)[n + 1] <=> ~blocked
  <2>1. n + 1 \in 1..(n + 1) /\ (n + 1) - 1 = n
    OBVIOUS
  <2>2. Taken(t)[n + 1] = Takes(t, Taken(t), n + 1)
    BY <1>2, <2>1
  <2>3. Takes(t, Taken(t), n + 1) <=>
          \A h \in 1..n :
            Taken(s)[h] /\ IsStrictPrefix(s[h][1], x[1]) /\ ~Opens(s[h][2])
              => \E m \in (h + 1)..n : Taken(s)[m] /\ IsPrefix(s[m][1], s[h][1])
    BY <1>1, <1>4, <2>1 DEF Takes
  <2>4. Stands(s) \subseteq 1..n
    BY <1>2 DEF Stands
  <2>5. (\A h \in 1..n :
            Taken(s)[h] /\ IsStrictPrefix(s[h][1], x[1]) /\ ~Opens(s[h][2])
              => \E m \in (h + 1)..n : Taken(s)[m] /\ IsPrefix(s[m][1], s[h][1]))
          <=> ~blocked
    BY <1>3, <2>4
  <2> QED BY <2>2, <2>3, <2>5
<1>6. ASSUME NEW i \in 1..n
      PROVE  i \in Stands(t) <=> i \in Stands(s) /\ ~(Taken(t)[n + 1] /\ IsPrefix(x[1], s[i][1]))
  <2>1. i \in 1..(n + 1) /\ (i + 1)..(n + 1) = ((i + 1)..n) \cup {n + 1}
    OBVIOUS
  <2>2. i \in Stands(t) <=>
          Taken(t)[i] /\ ~ \E m \in (i + 1)..(n + 1) : Taken(t)[m] /\ IsPrefix(t[m][1], t[i][1])
    BY <1>2, <2>1 DEF Stands
  <2>3. \A m \in (i + 1)..n : m \in 1..n /\ t[m] = s[m] /\ Taken(t)[m] = Taken(s)[m]
    BY <1>1, <1>4
  <2>4. t[i] = s[i] /\ Taken(t)[i] = Taken(s)[i] /\ t[n + 1] = x
    BY <1>1
  <2> QED BY <1>3, <2>1, <2>2, <2>3, <2>4
<1>7. n + 1 \in Stands(t) <=> Taken(t)[n + 1]
  <2>1. n + 1 \in 1..(n + 1) /\ ((n + 1) + 1)..(n + 1) = {}
    OBVIOUS
  <2> QED BY <1>2, <2>1 DEF Stands
<1>8. Stands(t) \subseteq 1..(n + 1) /\ Stands(s) \subseteq 1..n
  BY <1>2 DEF Stands
<1>9. \A i \in 1..(n + 1) : i \in 1..n \/ i = n + 1
  OBVIOUS
<1>10. n + 1 \notin 1..n
  OBVIOUS
<1> HIDE DEF blocked
<1>11. CASE blocked
  <2>1. Stands(t) = Stands(s)
    BY <1>5, <1>6, <1>7, <1>8, <1>9, <1>10, <1>11
  <2> QED BY <1>11, <2>1 DEF t, blocked
<1>12. CASE ~blocked
  <2>1. Stands(t) = {i \in Stands(s) : ~IsPrefix(x[1], s[i][1])} \cup {n + 1}
    BY <1>5, <1>6, <1>7, <1>8, <1>9, <1>10, <1>12
  <2> QED BY <1>12, <2>1 DEF t, blocked
<1> QED BY <1>11, <1>12

LEMMA StoresAppend ==
  ASSUME NEW s, IsStores(s), NEW x, IsPrefix(x[1], x[1])
  PROVE  /\ IsStores(Append(s, x)) /\ s \in Seq(ToSet(s) \cup {x}) /\ x \in ToSet(s) \cup {x}
PROOF
<1> DEFINE t == Append(s, x)
           S == ToSet(s) \cup {x}
<1>1. s \in Seq(S) /\ x \in S
  BY DEF IsStores
<1> HIDE DEF S
<1>2. /\ t \in Seq(S) /\ DOMAIN t = 1..(Len(s) + 1) /\ t[Len(s) + 1] = x
      /\ \A i \in 1..Len(s) : t[i] = s[i]
      /\ DOMAIN s = 1..Len(s) /\ Len(s) \in Nat
  BY <1>1
<1>3. \A i \in 1..(Len(s) + 1) : i \in 1..Len(s) \/ i = Len(s) + 1
  BY <1>2
<1> HIDE DEF t
<1>4. \A i \in DOMAIN t : IsPrefix(t[i][1], t[i][1])
  BY <1>2, <1>3 DEF IsStores
<1>5. t \in Seq(ToSet(t))
  BY <1>2, OverItsElements
<1> QED BY <1>1, <1>4, <1>5 DEF IsStores, S, t

\* Storing one more value is what Put does to the dictionary.
LEMMA DictGrows ==
  ASSUME NEW s, IsStores(s), NEW x, IsPrefix(x[1], x[1])
  PROVE  Dict(Append(s, x)) = Put(Dict(s), x[1], x[2])
PROOF
<1> DEFINE t == Append(s, x)
           blocked == \E h \in Stands(s) : IsStrictPrefix(s[h][1], x[1]) /\ ~Opens(s[h][2])
<1>1. IsStores(t)
  BY StoresAppend
<1> DEFINE S == ToSet(s) \cup {x}
<1>2. s \in Seq(S) /\ x \in S
  BY StoresAppend
<1> HIDE DEF S
<1>3. /\ Len(t) = Len(s) + 1 /\ t[Len(s) + 1] = x /\ \A i \in 1..Len(s) : t[i] = s[i]
  BY <1>2, TakenBefore
<1> PICK n \in Nat : n = Len(s)
  BY <1>2
<1>4. Stands(t) = IF blocked THEN Stands(s)
                  ELSE {i \in Stands(s) : ~IsPrefix(x[1], s[i][1])} \cup {n + 1}
  BY <1>2, StandsGrow
<1>5. Stands(s) \subseteq 1..n
  BY <1>2 DEF Stands
<1> HIDE DEF t
<1>6. /\ DOMAIN Dict(s) = {s[i][1] : i \in Stands(s)}
      /\ \A i \in Stands(s) : Dict(s)[s[i][1]] = s[i][2]
      /\ Dict(s) = [k \in DOMAIN Dict(s) |-> Dict(s)[k]]
  BY DictValues
<1>7. /\ DOMAIN Dict(t) = {t[i][1] : i \in Stands(t)}
      /\ \A i \in Stands(t) : Dict(t)[t[i][1]] = t[i][2]
      /\ Dict(t) = [k \in DOMAIN Dict(t) |-> Dict(t)[k]]
  BY <1>1, DictValues
<1>8. blocked <=> \E k \in DOMAIN Dict(s) : IsStrictPrefix(k, x[1]) /\ ~Opens(Dict(s)[k])
  BY <1>6
<1> HIDE DEF blocked
<1>9. CASE blocked
  <2>1. Stands(t) = Stands(s) /\ \A i \in Stands(s) : t[i] = s[i]
    BY <1>3, <1>4, <1>5, <1>9
  <2>2. DOMAIN Dict(t) = DOMAIN Dict(s) /\ \A k \in DOMAIN Dict(s) : Dict(t)[k] = Dict(s)[k]
    BY <1>6, <1>7, <2>1
  <2>3. Dict(t) = Dict(s)
    BY <1>6, <1>7, <2>2
  <2> QED BY <1>8, <1>9, <2>3 DEF Put, t
<1>10. CASE ~blocked
  <2> DEFINE D == {l \in DOMAIN Dict(s) : ~IsPrefix(x[1], l)} \cup {x[1]}
             new == [k \in D |-> IF k = x[1] THEN x[2] ELSE Dict(s)[k]]
  <2>1. /\ Stands(t) = {i \in Stands(s) : ~IsPrefix(x[1], s[i][1])} \cup {n + 1}
        /\ \A i \in Stands(s) : t[i] = s[i]
    BY <1>3, <1>4, <1>5, <1>10
  <2>2. t[n + 1] = x
    BY <1>3
  <2>3. DOMAIN Dict(t) = D
    BY <1>6, <1>7, <2>1, <2>2
  <2>4. ASSUME NEW k \in D PROVE Dict(t)[k] = IF k = x[1] THEN x[2] ELSE Dict(s)[k]
    <3>1. CASE k = x[1]
      BY <1>7, <2>1, <2>2, <3>1
    <3>2. CASE k # x[1]
      <4>1. PICK i \in Stands(s) : k = s[i][1] /\ ~IsPrefix(x[1], s[i][1])
        BY <1>6, <3>2
      <4>2. i \in Stands(t) /\ t[i] = s[i]
        BY <2>1, <4>1
      <4> QED BY <1>6, <1>7, <3>2, <4>1, <4>2
    <3> QED BY <3>1, <3>2
  <2>5. Dict(t) = new
    <3> HIDE DEF D
    <3> QED BY <1>7, <2>3, <2>4
  <2>6. Put(Dict(s), x[1], x[2]) = new
    BY <1>8, <1>10 DEF Put
  <2> QED BY <2>5, <2>6 DEF t
<1> QED BY <1>9, <1>10

----------------------------------------------------------------------------
(* What a question's answer stores.                                        *)

LEMMA StoresOver ==
  ASSUME NEW S, \A x \in S : IsPrefix(x[1], x[1]), NEW s \in Seq(S)
  PROVE  IsStores(s)
PROOF
<1>1. \A i \in DOMAIN s : s[i] \in S
  OBVIOUS
<1> QED BY <1>1, OverItsElements DEF IsStores

LEMMA StoresElements ==
  ASSUME NEW s, IsStores(s)
  PROVE  s \in Seq(ToSet(s)) /\ \A x \in ToSet(s) : IsPrefix(x[1], x[1])
BY DEF IsStores, ToSet

\* Values stored one after the other.
LEMMA StoresJoin ==
  ASSUME NEW a, NEW b, IsStores(a), IsStores(b)
  PROVE  IsStores(a \o b)
PROOF
<1> DEFINE S == ToSet(a) \cup ToSet(b)
<1>1. \A x \in S : IsPrefix(x[1], x[1])
  BY StoresElements
<1>2. a \in Seq(S) /\ b \in Seq(S)
  BY StoresElements
<1> HIDE DEF S
<1>3. a \o b \in Seq(S)
  BY <1>2
<1> QED BY <1>1, <1>3, StoresOver

LEMMA JoinedStores ==
  ASSUME NEW a, NEW b, NEW c, IsStores(a), IsStores(b), IsStores(c)
  PROVE  (a \o b) \o c = a \o (b \o c) /\ a \o << >> = a /\ << >> \o a = a
PROOF
<1> DEFINE S == ToSet(a) \cup ToSet(b) \cup ToSet(c)
<1>1. a \in Seq(S) /\ b \in Seq(S) /\ c \in Seq(S)
  BY StoresElements
<1> HIDE DEF S
<1>2. a \o << >> = a /\ << >> \o a = a
  BY <1>1, ConcatEmptySeq
<1>3. \A x, y, z \in Seq(S) : (x \o y) \o z = x \o (y \o z)
  OBVIOUS
<1> QED BY <1>1, <1>2, <1>3

LEMMA OwnType ==
  ASSUME NEW q \in Question, NEW v
  PROVE  IsStores(Own(q, v))
PROOF
<1>1. q.ve.outkey # None => IsPrefix(q.ve.outkey, q.ve.outkey)
  <2>1. q.ve.outkey # None => q.ve.outkey \in Seq(ToSet(q.ve.outkey))
    BY ViewType, ValidateAssumption
  <2>2. \A S : \A s \in Seq(S) : Len(s) <= Len(s)
    OBVIOUS
  <2> QED BY <2>1, <2>2 DEF IsPrefix
<1>2. CASE q.ve.outkey = None
  BY <1>2, DictOfNothing DEF Own
<1>3. CASE q.ve.outkey # None
  <2> DEFINE x == <<q.ve.outkey, v>>
  <2>1. IsPrefix(x[1], x[1]) /\ Own(q, v) = <<x>>
    BY <1>1, <1>3 DEF Own
  <2> HIDE DEF x
  <2>2. <<x>> \in Seq({x}) /\ \A y \in {x} : IsPrefix(y[1], y[1])
    BY <2>1
  <2> QED BY <2>1, <2>2, StoresOver
<1> QED BY <1>2, <1>3

LEMMA StoresThenOwn ==
  ASSUME NEW q \in Question, NEW a, NEW b, IsStores(a), IsStores(b), NEW v
  PROVE  (a \o b) \o Own(q, v) = a \o (b \o Own(q, v))
PROOF
<1>1. IsStores(Own(q, v))
  BY OwnType
<1> DEFINE c == Own(q, v)
<1> HIDE DEF c
<1>2. (a \o b) \o c = a \o (b \o c)
  BY <1>1, JoinedStores DEF c
<1> QED BY <1>2 DEF c

\* Lists of lists, whatever is in them.
LEMMA FlattenLists ==
  ASSUME NEW T, NEW s \in Seq(T), \A i \in DOMAIN s : s[i] \in Seq(ToSet(s[i]))
  PROVE  LET S == UNION {ToSet(s[i]) : i \in DOMAIN s} IN
         /\ FlattenSeq(SubSeq(s, 1, 0)) = << >>
         /\ \A k \in 0..Len(s) : FlattenSeq(SubSeq(s, 1, k)) \in Seq(S)
         /\ \A k \in 0..Len(s) : k + 1 <= Len(s) =>
              FlattenSeq(SubSeq(s, 1, k + 1)) = FlattenSeq(SubSeq(s, 1, k)) \o s[k + 1]
         /\ FlattenSeq(SubSeq(s, 1, Len(s))) = FlattenSeq(s)
         /\ FlattenSeq(s) \in Seq(S)
PROOF
<1> DEFINE S == UNION {ToSet(s[i]) : i \in DOMAIN s}
<1>1. ASSUME NEW i \in DOMAIN s PROVE s[i] \in Seq(S)
  <2>1. ToSet(s[i]) \subseteq S /\ s[i] \in Seq(ToSet(s[i]))
    OBVIOUS
  <2>2. \A A, B : A \subseteq B => \A t \in Seq(A) : t \in Seq(B)
    OBVIOUS
  <2> HIDE DEF S
  <2> QED BY <2>1, <2>2
<1> HIDE DEF S
<1>2. s \in Seq(Seq(S))
  <2>1. DOMAIN s = 1..Len(s) /\ Len(s) \in Nat /\ s = [i \in 1..Len(s) |-> s[i]]
    OBVIOUS
  <2> QED BY <1>1, <2>1
<1> QED BY <1>2, FlattenParts DEF S

\* Lists of stored values.
LEMMA FlattenStores ==
  ASSUME NEW T, NEW s \in Seq(T), \A i \in DOMAIN s : IsStores(s[i])
  PROVE  /\ FlattenSeq(SubSeq(s, 1, 0)) = << >>
         /\ \A k \in 0..Len(s) : IsStores(FlattenSeq(SubSeq(s, 1, k)))
         /\ \A k \in 0..Len(s) : k + 1 <= Len(s) =>
              FlattenSeq(SubSeq(s, 1, k + 1)) = FlattenSeq(SubSeq(s, 1, k)) \o s[k + 1]
         /\ FlattenSeq(SubSeq(s, 1, Len(s))) = FlattenSeq(s)
         /\ IsStores(FlattenSeq(s))
PROOF
<1> DEFINE S == UNION {ToSet(s[i]) : i \in DOMAIN s}
<1>1. \A i \in DOMAIN s : s[i] \in Seq(ToSet(s[i]))
  BY StoresElements
<1>2. \A x \in S : IsPrefix(x[1], x[1])
  BY StoresElements
<1>3. /\ FlattenSeq(SubSeq(s, 1, 0)) = << >>
      /\ \A k \in 0..Len(s) : FlattenSeq(SubSeq(s, 1, k)) \in Seq(S)
      /\ \A k \in 0..Len(s) : k + 1 <= Len(s) =>
           FlattenSeq(SubSeq(s, 1, k + 1)) = FlattenSeq(SubSeq(s, 1, k)) \o s[k + 1]
      /\ FlattenSeq(SubSeq(s, 1, Len(s))) = FlattenSeq(s)
      /\ FlattenSeq(s) \in Seq(S)
  BY <1>1, FlattenLists
<1> HIDE DEF S
<1>4. \A t \in Seq(S) : IsStores(t)
  BY <1>2, StoresOver
<1> QED BY <1>3, <1>4

LEMMA ListOver ==
  ASSUME NEW n \in Nat, NEW s, s = [i \in 1..n |-> s[i]]
  PROVE  s \in Seq(ToSet(s)) /\ Len(s) = n /\ DOMAIN s = 1..n
PROOF
<1>1. DOMAIN s = 1..n
  OBVIOUS
<1>2. \A i \in 1..n : s[i] \in ToSet(s)
  BY <1>1 DEF ToSet
<1> DEFINE T == ToSet(s)
<1>3. \A i \in 1..n : s[i] \in T
  BY <1>2
<1> HIDE DEF T
<1>4. s \in [1..n -> T]
  BY <1>1, <1>3
<1>5. s \in Seq(T) /\ Len(s) = n
  BY <1>4
<1> QED BY <1>1, <1>5 DEF T

\* What the properties store, and the dictionaries of the items.
LEMMA PropertyStoresType ==
  ASSUME NEW q \in Question, NEW S, \A p \in Question : Smaller(p, q) => IsStores(S[p])
  PROVE  /\ Len(PropertyStores(S, q)) = Len(q.ve.children)
         /\ PropertyStores(S, q) \in Seq(ToSet(PropertyStores(S, q)))
         /\ DOMAIN PropertyStores(S, q) = 1..Len(q.ve.children) /\ Len(q.ve.children) \in Nat
         /\ \A i \in DOMAIN PropertyStores(S, q) : IsStores(PropertyStores(S, q)[i])
PROOF
<1> DEFINE s == PropertyStores(S, q)
<1>1. q.ve.children \in Seq(Element)
  BY ViewType, ValidateAssumption
<1>2. DOMAIN q.ve.children = 1..Len(q.ve.children) /\ Len(q.ve.children) \in Nat
  BY <1>1
<1>3. s = [i \in 1..Len(q.ve.children) |-> s[i]]
  BY <1>2 DEF PropertyStores
<1>4. ASSUME NEW i \in DOMAIN q.ve.children PROVE IsStores(s[i])
  <2>1. Property(View(q), q.ve.children[i]) # None => IsStores(S[AskProperty(q, i)])
    BY AskPropertyType
  <2>2. IsStores(<< >>)
    BY DictOfNothing
  <2> QED BY <2>1, <2>2 DEF PropertyStores
<1> HIDE DEF s
<1>5. s \in Seq(ToSet(s)) /\ Len(s) = Len(q.ve.children) /\ DOMAIN s = 1..Len(q.ve.children)
  BY <1>2, <1>3, ListOver
<1> QED BY <1>2, <1>4, <1>5 DEF s

LEMMA ItemRowsType ==
  ASSUME NEW q \in Question, NEW S
  PROVE  /\ Len(ItemRows(S, q)) = Len(Items(View(q)))
         /\ ItemRows(S, q) \in Seq(ToSet(ItemRows(S, q)))
         /\ DOMAIN ItemRows(S, q) = 1..Len(Items(View(q))) /\ Len(Items(View(q))) \in Nat
         /\ \A i \in DOMAIN ItemRows(S, q) :
              ItemRows(S, q)[i] \in Seq(ToSet(ItemRows(S, q)[i]))
PROOF
<1> DEFINE s == ItemRows(S, q)
<1>2. DOMAIN Items(View(q)) = 1..Len(Items(View(q))) /\ Len(Items(View(q))) \in Nat
  BY ItemsType
<1>3. s = [i \in 1..Len(Items(View(q))) |-> s[i]]
  BY <1>2 DEF ItemRows
<1>4. ASSUME NEW i \in DOMAIN Items(View(q)) PROVE s[i] \in Seq(ToSet(s[i]))
  <2> DEFINE d == Dict(S[AskItem(q, i)])
  <2>1. s[i] = IF d = Empty THEN << >> ELSE <<d>>
    BY DEF ItemRows
  <2> HIDE DEF d, s
  <2>2. << >> \in Seq({d}) /\ <<d>> \in Seq({d})
    OBVIOUS
  <2>3. s[i] \in Seq({d})
    BY <2>1, <2>2
  <2> QED BY <2>3, OverItsElements
<1> HIDE DEF s
<1>5. s \in Seq(ToSet(s)) /\ Len(s) = Len(Items(View(q))) /\ DOMAIN s = 1..Len(Items(View(q)))
  BY <1>2, <1>3, ListOver
<1> QED BY <1>2, <1>4, <1>5 DEF s

LEMMA StoresOfType ==
  ASSUME NEW q \in Question, NEW S, \A p \in Question : Smaller(p, q) => IsStores(S[p])
  PROVE  IsStores(PartStores(S, q)) /\ IsStores(StoresOf(S, q))
PROOF
<1>1. IsStores(<< >>) /\ \A v : IsStores(Own(q, v))
  BY DictOfNothing, OwnType
<1>2. IsStores(FlattenSeq(PropertyStores(S, q)))
  BY PropertyStoresType, FlattenStores
<1>3. \A a, b : IsStores(a) /\ IsStores(b) => IsStores(a \o b)
  BY StoresJoin
<1>4. IsStores(PartStores(S, q))
  BY <1>1, <1>2, <1>3 DEF PartStores
<1>5. IsStores(IF q.ve.type = "json" /\ q.json = None THEN Own(q, <<"tcl", q.tcl>>) ELSE << >>)
  BY <1>1
<1> QED BY <1>3, <1>4, <1>5 DEF StoresOf

LEMMA StoresOfSmaller ==
  ASSUME NEW q \in Question, NEW S, NEW W,
         \A p \in Question : Smaller(p, q) => S[p] = W[p]
  PROVE  StoresOf(S, q) = StoresOf(W, q)
PROOF
<1>1. PropertyStores(S, q) = PropertyStores(W, q)
  <2>1. ASSUME NEW i \in DOMAIN q.ve.children, Property(View(q), q.ve.children[i]) # None
        PROVE  S[AskProperty(q, i)] = W[AskProperty(q, i)]
    BY <2>1, AskPropertyType
  <2> QED BY <2>1 DEF PropertyStores
<1>2. ASSUME q.ve.children # << >> PROVE ItemRows(S, q) = ItemRows(W, q)
  <2>1. ASSUME NEW i \in DOMAIN Items(View(q)) PROVE S[AskItem(q, i)] = W[AskItem(q, i)]
    BY <1>2, AskItemType
  <2> QED BY <2>1 DEF ItemRows
<1>3. PartStores(S, q) = PartStores(W, q)
  BY <1>1, <1>2 DEF PartStores
<1> QED BY <1>3 DEF StoresOf

\* This recursive function, too, is what its definition says it is.
LEMMA StoresDefined ==
  \A q \in Question : Stores[q] = StoresOf(Stores, q)
PROOF
<1> DEFINE Fits(g, k) == \A q \in Question : Depth[q.ve] < k => g[q] = StoresOf(g, q)
<1> DEFINE K == {k \in Nat : \E g : Fits(g, k)}
<1>1. 0 \in K
  BY DepthType
<1>2. ASSUME NEW k \in Nat, k \in K PROVE k + 1 \in K
  <2>1. PICK g : Fits(g, k)
    <3> HIDE DEF Fits
    <3> QED BY <1>2
  <2> DEFINE h == [q \in Question |-> IF Depth[q.ve] = k THEN StoresOf(g, q) ELSE g[q]]
  <2>2. ASSUME NEW q \in Question, Depth[q.ve] < k + 1 PROVE h[q] = StoresOf(h, q)
    <3>1. Depth[q.ve] = k \/ Depth[q.ve] < k
      BY <2>2, DepthType
    <3>2. h[q] = StoresOf(g, q)
      BY <2>1, <3>1
    <3>3. ASSUME NEW p \in Question, Smaller(p, q) PROVE g[p] = h[p]
      <4>1. Depth[p.ve] # k
        BY <3>3, <2>2, DepthType DEF Smaller
      <4> QED BY <4>1
    <3> HIDE DEF h
    <3>4. StoresOf(g, q) = StoresOf(h, q)
      BY <3>3, StoresOfSmaller
    <3> QED BY <3>2, <3>4
  <2> HIDE DEF h
  <2>3. Fits(h, k + 1)
    BY <2>2
  <2> HIDE DEF Fits
  <2> QED BY <2>3
<1>3. \A k \in Nat : \E g : Fits(g, k)
  <2> HIDE DEF Fits
  <2>1. \A n \in Nat : n \in K => n + 1 \in K
    BY <1>2
  <2>2. Nat \subseteq K
    <3> HIDE DEF K
    <3> QED BY <1>1, <2>1, CountingUp
  <2> QED BY <2>2
<1> DEFINE G == [k \in Nat |-> CHOOSE g : Fits(g, k)]
<1>4. \A k \in Nat : Fits(G[k], k)
  <2> HIDE DEF Fits
  <2> QED BY <1>3
<1> HIDE DEF G
<1>5. ASSUME NEW j \in Nat, NEW k \in Nat, NEW q \in Question, Depth[q.ve] < j, Depth[q.ve] < k
      PROVE  G[j][q] = G[k][q]
  <2> DEFINE D == {Depth[p.ve] : p \in {r \in Question : Depth[r.ve] < j /\ Depth[r.ve] < k
                                                           /\ G[j][r] # G[k][r]}}
  <2> SUFFICES ASSUME D # {} PROVE FALSE
    BY <1>5
  <2>1. D \subseteq Nat
    BY DepthType
  <2>2. PICK m \in D : \A n \in D : m <= n
    <3> HIDE DEF D
    <3> QED BY <2>1, LeastNatural
  <2>3. PICK p \in Question : /\ m = Depth[p.ve] /\ Depth[p.ve] < j /\ Depth[p.ve] < k
                              /\ G[j][p] # G[k][p]
    OBVIOUS
  <2>4. ASSUME NEW r \in Question, Smaller(r, p) PROVE G[j][r] = G[k][r]
    <3>1. Depth[r.ve] \in Nat /\ Depth[p.ve] \in Nat /\ Depth[r.ve] < Depth[p.ve]
      BY <2>4, DepthType DEF Smaller
    <3>2. Depth[r.ve] \notin D
      <4> HIDE DEF D
      <4> QED BY <2>2, <2>3, <3>1
    <3>3. Depth[r.ve] < j /\ Depth[r.ve] < k
      BY <2>3, <3>1
    <3> QED BY <3>2, <3>3
  <2>5. StoresOf(G[j], p) = StoresOf(G[k], p)
    BY <2>4, StoresOfSmaller
  <2>6. G[j][p] = StoresOf(G[j], p) /\ G[k][p] = StoresOf(G[k], p)
    BY <1>4, <2>3
  <2> QED BY <2>3, <2>5, <2>6
<1> DEFINE F == [q \in Question |-> G[Depth[q.ve] + 1][q]]
<1>6. ASSUME NEW q \in Question PROVE G[Depth[q.ve] + 1][q] = StoresOf(F, q)
  <2> DEFINE k == Depth[q.ve] + 1
  <2>1. k \in Nat /\ Depth[q.ve] < k
    BY DepthType
  <2>2. ASSUME NEW p \in Question, Smaller(p, q) PROVE G[k][p] = F[p]
    <3>1. Depth[p.ve] + 1 \in Nat /\ Depth[p.ve] < Depth[p.ve] + 1 /\ Depth[p.ve] < k
      BY <2>2, DepthType DEF Smaller
    <3>2. F[p] = G[Depth[p.ve] + 1][p]
      OBVIOUS
    <3> HIDE DEF F, k
    <3> QED BY <1>5, <2>1, <3>1, <3>2
  <2> HIDE DEF F, k
  <2>3. StoresOf(G[k], q) = StoresOf(F, q)
    BY <2>2, StoresOfSmaller
  <2>4. G[k][q] = StoresOf(G[k], q)
    BY <1>4, <2>1
  <2> QED BY <2>3, <2>4 DEF k
<1>7. F = [q \in Question |-> StoresOf(F, q)]
  BY <1>6
<1>8. Stores = [q \in Question |-> StoresOf(Stores, q)]
  <2> HIDE DEF F
  <2> QED BY <1>7 DEF Stores
<1> QED BY <1>8

LEMMA StoresType ==
  \A q \in Question : IsStores(Stores[q])
PROOF
<1> DEFINE D == {Depth[p.ve] : p \in {r \in Question : ~IsStores(Stores[r])}}
<1> SUFFICES ASSUME D # {} PROVE FALSE
  OBVIOUS
<1>1. D \subseteq Nat
  BY DepthType
<1>2. PICK m \in D : \A n \in D : m <= n
  <2> HIDE DEF D
  <2> QED BY <1>1, LeastNatural
<1>3. PICK p \in Question : m = Depth[p.ve] /\ ~IsStores(Stores[p])
  OBVIOUS
<1>4. ASSUME NEW r \in Question, Smaller(r, p) PROVE IsStores(Stores[r])
  <2>1. Depth[r.ve] \in Nat /\ Depth[p.ve] \in Nat /\ Depth[r.ve] < Depth[p.ve]
    BY <1>4, DepthType DEF Smaller
  <2>2. Depth[r.ve] \notin D
    <3> HIDE DEF D
    <3> QED BY <1>2, <1>3, <2>1
  <2> QED BY <2>2
<1> QED BY <1>3, <1>4, StoresOfType, StoresDefined

----------------------------------------------------------------------------
(* The calls of a validation and what is stored.                           *)

\* What the first k properties store; the dictionaries of the first k items.
FirstStores(q, k) == FlattenSeq(SubSeq(PropertyStores(Stores, q), 1, k))
FirstRows(q, k) == FlattenSeq(SubSeq(ItemRows(Stores, q), 1, k))

\* What the call f for q has stored when it is not waiting for another call.
Given(f, q) ==
  CASE f.stage = "enter" -> << >>
    [] f.stage = "loop" -> IF Shape(f) = "object" THEN FirstStores(q, f.pos) ELSE << >>
    [] f.stage = "leave" -> PartStores(Stores, q)

\* It has an outcome to store to, where s was stored before.
Stored(f, q, s, os) == f.out # 0 => os[f.out].dict = Dict(s \o Given(f, q))

\* An array has the items' dictionaries unless nobody wants them.
Rows(f, q, os) ==
  f.stage = "loop" /\ Shape(f) # "object" =>
    IF f.item # 0 THEN os[f.item].list = FirstRows(q, f.index)
    ELSE f.out = 0 \/ f.ve.outkey = None

\* A call that f makes stores to the outcome out, where s2 is stored by then.
Passes(f, q, s, out, s2) ==
  IF Shape(f) = "object" THEN out = f.out /\ s2 = s \o FirstStores(q, f.pos - 1)
  ELSE out = f.item /\ s2 = << >>

\* The calls have stored what their questions say, st before each of them.
Holds(g, st, fs, os) ==
  /\ fs[1].out = 1 /\ st[1] = << >>
  /\ \A i \in 1..Len(fs) :
       /\ IsStores(st[i])
       /\ i = Len(fs) \/ Shape(fs[i]) # "object" => Stored(fs[i], g[i].q, st[i], os)
       /\ Rows(fs[i], g[i].q, os)
  /\ \A i \in 1..(Len(fs) - 1) : Passes(fs[i], g[i].q, st[i], fs[i + 1].out, st[i + 1])

Records(os) == \A m \in DOMAIN os : DOMAIN os[m] = {"dict", "list"}

\* What holds of the outcomes as long as there is no error.
OutcomeInv ==
  errors = << >> =>
    /\ Records(outcomes)
    /\ frames = << >> => outcomes[1].dict = Dict(Stores[TheQuestion])
    /\ reply # None => reply = <<"outcome", outcomes[1].dict>>
    /\ \A g \in Seq(Ghost) :
         frames # << >> /\ Follows(g, frames, errors, TheQuestion)
           => \E st : Holds(g, st, frames, outcomes)

----------------------------------------------------------------------------
(* The questions of calls are determined by them.                          *)

LEMMA SameQuestions ==
  ASSUME NEW n \in Nat, n # 0, NEW fs, NEW fs2, fs # << >>, fs2 # << >>,
         Len(fs) \in Nat, Len(fs2) \in Nat, n <= Len(fs), n <= Len(fs2),
         \A i \in 1..(n - 1) : fs2[i] = fs[i],
         NEW g \in Seq(Ghost), NEW g2 \in Seq(Ghost), NEW es, NEW es2, NEW q0,
         Follows(g, fs, es, q0), Follows(g2, fs2, es2, q0)
  PROVE  \A i \in 1..n : g2[i].q = g[i].q
PROOF
<1>1. g[1].q = q0 /\ g2[1].q = q0
  BY DEF Follows
<1>2. ASSUME NEW i \in 1..(n - 1), g2[i].q = g[i].q PROVE g2[i + 1].q = g[i + 1].q
  <2>1. i \in 1..(Len(fs) - 1) /\ i \in 1..(Len(fs2) - 1)
    OBVIOUS
  <2>2. Waits(fs[i], g[i].q, g[i + 1].q) /\ Waits(fs2[i], g2[i].q, g2[i + 1].q)
    BY <2>1 DEF Follows
  <2>3. Waits(fs[i], g[i].q, g2[i + 1].q)
    BY <1>2, <2>2
  <2> QED BY <2>2, <2>3 DEF Waits
<1> DEFINE Same(i) == i \in 1..n => g2[i].q = g[i].q
           K == {i \in Nat : Same(i)}
<1>3. 0 \in K
  OBVIOUS
<1>4. ASSUME NEW i \in Nat, i \in K PROVE i + 1 \in K
  <2>1. CASE i = 0
    <3>1. Same(i + 1)
      BY <1>1, <2>1
    <3> HIDE DEF Same
    <3> QED BY <3>1
  <2>2. CASE i # 0
    <3>1. Same(i)
      BY <1>4
    <3>2. i + 1 \in 1..n => i \in 1..(n - 1) /\ i \in 1..n
      BY <2>2
    <3>3. Same(i + 1)
      BY <1>2, <3>1, <3>2
    <3> HIDE DEF Same
    <3> QED BY <3>3
  <2> QED BY <2>1, <2>2
<1>5. Nat \subseteq K
  <2>1. \A i \in Nat : i \in K => i + 1 \in K
    BY <1>4
  <2> HIDE DEF K
  <2> QED BY <1>3, <2>1, CountingUp
<1>6. \A i \in 1..n : i \in Nat
  OBVIOUS
<1> QED BY <1>5, <1>6

LEMMA InnermostStores ==
  ASSUME TypeOK, ErrorsInv, OutcomeInv, frames # << >>, errors = << >>
  PROVE  \E g \in Seq(Ghost), n \in Nat \ {0}, q \in Question :
           Innermost(g, n, q) /\ \E st : Holds(g, st, frames, outcomes)
PROOF
<1>1. PICK g \in Seq(Ghost), n \in Nat \ {0}, q \in Question : Innermost(g, n, q)
  BY InnermostCall
<1>2. \E st : Holds(g, st, frames, outcomes)
  BY <1>1 DEF Innermost, OutcomeInv
<1> QED BY <1>1, <1>2

----------------------------------------------------------------------------
(* Where calls store.                                                      *)

\* A pointer to an outcome points to one.
LEMMA Pointers ==
  ASSUME TypeOK, Nested
  PROVE  /\ DOMAIN outcomes = 1..Len(outcomes) /\ Len(outcomes) \in Nat /\ 1 \in DOMAIN outcomes
         /\ \A i \in DOMAIN frames :
              /\ frames[i].item = 0 \/ frames[i].item \in DOMAIN outcomes
              /\ frames[i].out = 0 \/ frames[i].out \in DOMAIN outcomes
PROOF
<1>1. /\ DOMAIN outcomes = 1..Len(outcomes) /\ Len(outcomes) \in Nat /\ 1 \in DOMAIN outcomes
  BY DEF TypeOK
<1>2. \A i \in DOMAIN frames : frames[i].item = 0 \/ frames[i].item \in DOMAIN outcomes
  BY <1>1 DEF Nested, Within
<1>3. frames \in Seq(Frame)
  BY DEF TypeOK
<1>4. ASSUME NEW i \in DOMAIN frames, NEW k \in 1..(i - 1) PROVE k \in DOMAIN frames
  BY <1>3
<1>5. ASSUME NEW i \in DOMAIN frames PROVE frames[i].out = 0 \/ frames[i].out \in DOMAIN outcomes
  <2>1. CASE frames[i].out \in {0, 1}
    BY <1>1, <2>1
  <2>2. CASE \E k \in 1..(i - 1) : frames[k].item = frames[i].out
    BY <1>2, <1>4, <2>2
  <2> QED BY <2>1, <2>2 DEF Nested, Reachable
<1> QED BY <1>1, <1>2, <1>5

\* No call further in stores to the outcome an array is to store to.
LEMMA ArraysOutcomeIsApart ==
  ASSUME TypeOK, Nested, NEW g, NEW st, NEW os, Holds(g, st, frames, os),
         NEW i \in DOMAIN frames, Shape(frames[i]) # "object",
         NEW j \in DOMAIN frames, i < j
  PROVE  frames[j].out = 0 \/ frames[j].out # frames[i].out
PROOF
<1>1. frames \in Seq(Frame)
  BY DEF TypeOK
<1> PICK n \in Nat : n = Len(frames)
  BY <1>1
<1>2. DOMAIN frames = 1..n
  BY <1>1
<1> DEFINE From(m) == m \in (i + 1)..n =>
                        \E k \in i..(m - 1) : frames[k].item = frames[m].out
           K == {m \in Nat : From(m)}
<1>3. ASSUME NEW m \in i..(n - 1)
      PROVE  frames[m + 1].out = IF Shape(frames[m]) = "object" THEN frames[m].out ELSE frames[m].item
  <2>1. m \in 1..(n - 1)
    BY <1>2
  <2>2. Passes(frames[m], g[m].q, st[m], frames[m + 1].out, st[m + 1])
    BY <2>1 DEF Holds
  <2> QED BY <2>2 DEF Passes
<1>4. 0 \in K
  BY <1>2
<1>5. ASSUME NEW m \in Nat, m \in K PROVE m + 1 \in K
  <2>1. ASSUME m + 1 \in (i + 1)..n
        PROVE  \E k \in i..((m + 1) - 1) : frames[k].item = frames[m + 1].out
    <3>1. m \in i..(n - 1) /\ (m + 1) - 1 = m /\ i \in Nat
      BY <1>2, <2>1
    <3>2. CASE Shape(frames[m]) # "object"
      <4>1. m \in i..((m + 1) - 1)
        BY <3>1
      <4> QED BY <1>3, <3>1, <3>2, <4>1
    <3>3. CASE Shape(frames[m]) = "object"
      <4>1. m # i /\ m \in (i + 1)..n
        BY <1>2, <3>1, <3>3
      <4>2. PICK k \in i..(m - 1) : frames[k].item = frames[m].out
        BY <1>5, <4>1
      <4>3. k \in i..((m + 1) - 1)
        BY <3>1
      <4> QED BY <1>3, <3>1, <3>3, <4>2, <4>3
    <3> QED BY <3>2, <3>3
  <2>2. From(m + 1)
    BY <2>1
  <2> HIDE DEF From
  <2> QED BY <2>2
<1>6. From(j)
  <2>1. \A m \in Nat : m \in K => m + 1 \in K
    BY <1>5
  <2>2. Nat \subseteq K
    <3> HIDE DEF K
    <3> QED BY <1>4, <2>1, CountingUp
  <2>3. j \in Nat
    BY <1>2
  <2>4. j \in K
    BY <2>2, <2>3
  <2> HIDE DEF From
  <2> QED BY <2>4
<1>7. PICK k \in i..(j - 1) : frames[k].item = frames[j].out
  BY <1>2, <1>6
<1>8. k \in DOMAIN frames /\ i <= k
  BY <1>2
<1>9. frames[k].item \in {0} \cup 2..Len(outcomes)
  BY <1>8 DEF Nested, Within
<1>10. CASE frames[i].out \in {0, 1}
  BY <1>7, <1>9, <1>10
<1>11. CASE \E l \in 1..(i - 1) : frames[l].item = frames[i].out
  <2>1. PICK l \in 1..(i - 1) : frames[l].item = frames[i].out
    BY <1>11
  <2>2. l \in DOMAIN frames /\ l < k
    BY <1>2, <1>8
  <2>3. frames[l].item # 0 /\ frames[k].item # 0 => frames[l].item < frames[k].item
    BY <1>8, <2>2 DEF Nested, Ordered
  <2>4. frames[l].item \in {0} \cup 2..Len(outcomes) /\ Len(outcomes) \in Nat
    BY <2>2, Pointers DEF Nested, Within
  <2> QED BY <1>7, <1>9, <2>1, <2>3, <2>4
<1> QED BY <1>10, <1>11 DEF Nested, Reachable

\* The item_outcome of a call is neither that of a call further out nor the
\* outcome that one or the call itself stores to.
LEMMA ItemIsApart ==
  ASSUME TypeOK, Nested, NEW i \in DOMAIN frames, NEW j \in DOMAIN frames, i <= j,
         frames[j].item # 0
  PROVE  frames[i].out # frames[j].item /\ (i # j => frames[i].item # frames[j].item)
PROOF
<1>1. frames \in Seq(Frame)
  BY DEF TypeOK
<1> PICK n \in Nat : n = Len(frames)
  BY <1>1
<1>2. DOMAIN frames = 1..n
  BY <1>1
<1>3. \A k \in DOMAIN frames : frames[k].item \in {0} \cup 2..Len(outcomes)
  BY DEF Nested, Within
<1>4. Len(outcomes) \in Nat
  BY Pointers
<1>5. ASSUME NEW k \in DOMAIN frames, k < j PROVE frames[k].item # frames[j].item
  <2>1. frames[k].item # 0 => frames[k].item < frames[j].item
    BY <1>5 DEF Nested, Ordered
  <2> QED BY <1>3, <1>4, <2>1
<1>6. CASE frames[i].out \in {0, 1}
  BY <1>2, <1>3, <1>4, <1>5, <1>6
<1>7. CASE \E k \in 1..(i - 1) : frames[k].item = frames[i].out
  <2>1. PICK k \in 1..(i - 1) : frames[k].item = frames[i].out
    BY <1>7
  <2>2. k \in DOMAIN frames /\ k < j
    BY <1>2
  <2> QED BY <1>2, <1>5, <2>1, <2>2
<1> QED BY <1>6, <1>7 DEF Nested, Reachable

\* The innermost call's item_outcome is the one allocated last.
LEMMA InnermostItemIsLast ==
  ASSUME TypeOK, Nested, frames # << >>, Top.item # 0
  PROVE  Top.item = Len(outcomes) /\ Len(outcomes) \in Nat /\ Len(outcomes) >= 2
PROOF
<1> PICK n \in Nat : n = Len(frames) /\ n \in DOMAIN frames
  BY TopType
<1>1. DOMAIN frames = 1..n
  BY DEF TypeOK
<1>2. \A k \in DOMAIN frames : frames[k].item \in {0} \cup 2..Len(outcomes)
  BY DEF Nested, Within
<1> PICK m \in Nat : m = Len(outcomes)
  BY Pointers
<1>3. frames[n].item \in 2..m /\ m \in 2..m
  BY <1>2 DEF Top
<1>4. PICK k \in DOMAIN frames : frames[k].item = m
  BY <1>3 DEF Nested, Owned
<1>5. ASSUME k # n PROVE FALSE
  <2>1. k < n
    BY <1>1, <1>5
  <2>2. frames[k].item < frames[n].item
    BY <1>3, <1>4, <2>1 DEF Nested, Ordered
  <2> QED BY <1>3, <1>4, <2>2
<1> QED BY <1>3, <1>4, <1>5 DEF Top

----------------------------------------------------------------------------
(* What the steps do to the outcomes.                                      *)

\* A value stored.
LEMMA AddOutcomeEffect ==
  ASSUME NEW os, Records(os), NEW f, NEW v, f.out = 0 \/ f.out \in DOMAIN os
  PROVE  /\ Records(AddOutcome(os, f, v)) /\ DOMAIN AddOutcome(os, f, v) = DOMAIN os
         /\ \A m \in DOMAIN os : AddOutcome(os, f, v)[m].list = os[m].list
         /\ \A m \in DOMAIN os : f.out = 0 \/ m # f.out =>
              AddOutcome(os, f, v)[m].dict = os[m].dict
         /\ f.out # 0 =>
              AddOutcome(os, f, v)[f.out].dict =
                IF f.ve.outkey = None THEN os[f.out].dict ELSE Put(os[f.out].dict, f.ve.outkey, v)
PROOF
<1>1. CASE f.ve.outkey = None \/ f.out = 0
  BY <1>1 DEF AddOutcome
<1>2. CASE ~(f.ve.outkey = None \/ f.out = 0)
  <2> DEFINE d == Put(os[f.out].dict, f.ve.outkey, v)
             x == [os[f.out] EXCEPT !.dict = d]
             t == [os EXCEPT ![f.out] = x]
  <2>1. AddOutcome(os, f, v) = t
    BY <1>2 DEF AddOutcome
  <2>2. f.out \in DOMAIN os /\ DOMAIN os[f.out] = {"dict", "list"}
    BY <1>2 DEF Records
  <2> HIDE DEF d
  <2>3. x.dict = d /\ x.list = os[f.out].list /\ DOMAIN x = {"dict", "list"}
    BY <2>2
  <2> HIDE DEF x
  <2>4. DOMAIN t = DOMAIN os /\ t[f.out] = x /\ \A m \in DOMAIN os : m # f.out => t[m] = os[m]
    BY <2>2
  <2> HIDE DEF t
  <2>5. Records(t)
    BY <2>3, <2>4 DEF Records
  <2>6. \A m \in DOMAIN os : t[m].list = os[m].list
    BY <2>3, <2>4
  <2>7. \A m \in DOMAIN os : f.out = 0 \/ m # f.out => t[m].dict = os[m].dict
    BY <1>2, <2>4
  <2>8. t[f.out].dict = d
    BY <2>3, <2>4
  <2> QED BY <1>2, <2>1, <2>4, <2>5, <2>6, <2>7, <2>8 DEF d
<1> QED BY <1>1, <1>2

\* The call stores a value under its own outkey, after those of s.
LEMMA OwnStored ==
  ASSUME NEW os, Records(os), NEW f, f.out # 0, f.out \in DOMAIN os,
         NEW q \in Question, f.ve = q.ve, NEW s, IsStores(s), os[f.out].dict = Dict(s), NEW v
  PROVE  AddOutcome(os, f, v)[f.out].dict = Dict(s \o Own(q, v))
PROOF
<1>1. AddOutcome(os, f, v)[f.out].dict =
        IF q.ve.outkey = None THEN Dict(s) ELSE Put(Dict(s), q.ve.outkey, v)
  BY AddOutcomeEffect
<1>2. CASE q.ve.outkey = None
  <2>1. Own(q, v) = << >> /\ s \o << >> = s
    BY <1>2, JoinedStores DEF Own
  <2> QED BY <1>1, <1>2, <2>1
<1>3. CASE q.ve.outkey # None
  <2> DEFINE x == <<q.ve.outkey, v>>
  <2>1. x[1] = q.ve.outkey /\ x[2] = v /\ Own(q, v) = <<x>>
    BY <1>3 DEF Own
  <2> HIDE DEF x
  <2>2. IsPrefix(x[1], x[1])
    <3>1. IsStores(<<x>>)
      BY <2>1, OwnType
    <3>2. 1 \in DOMAIN <<x>> /\ <<x>>[1] = x
      OBVIOUS
    <3> QED BY <3>1, <3>2 DEF IsStores
  <2>3. Dict(Append(s, x)) = Put(Dict(s), x[1], x[2])
    BY <2>2, DictGrows
  <2>4. Append(s, x) = s \o <<x>>
    BY DEF IsStores
  <2> QED BY <1>1, <1>3, <2>1, <2>3, <2>4
<1> QED BY <1>2, <1>3

\* An item's dictionary collected.
LEMMA CollectEffect ==
  ASSUME NEW os, Records(os), NEW item, item = 0 \/ item \in DOMAIN os
  PROVE  /\ Records(Collect(os, item)) /\ DOMAIN Collect(os, item) = DOMAIN os
         /\ \A m \in DOMAIN os : item = 0 \/ m # item => Collect(os, item)[m] = os[m]
         /\ item # 0 =>
              /\ Collect(os, item)[item].dict = Empty
              /\ Collect(os, item)[item].list =
                   IF os[item].dict = Empty THEN os[item].list
                   ELSE Append(os[item].list, os[item].dict)
PROOF
<1>1. CASE item = 0 \/ os[item].dict = Empty
  BY <1>1 DEF Collect
<1>2. CASE ~(item = 0 \/ os[item].dict = Empty)
  <2> DEFINE l == Append(os[item].list, os[item].dict)
             x == [dict |-> Empty, list |-> l]
             t == [os EXCEPT ![item] = x]
  <2>1. Collect(os, item) = t
    BY <1>2 DEF Collect
  <2>2. x.dict = Empty /\ x.list = l /\ DOMAIN x = {"dict", "list"}
    OBVIOUS
  <2> HIDE DEF x, l
  <2>3. DOMAIN t = DOMAIN os /\ t[item] = x /\ \A m \in DOMAIN os : m # item => t[m] = os[m]
    BY <1>2
  <2> HIDE DEF t
  <2>4. Records(t)
    BY <2>2, <2>3 DEF Records
  <2> QED BY <1>2, <2>1, <2>2, <2>3, <2>4 DEF l
<1> QED BY <1>1, <1>2

\* The step leaves to the first k calls what they stored and collected.
Spared(fs, k, os, os2) ==
  \A i \in 1..k :
    /\ Shape(fs[i]) # "object" /\ fs[i].out # 0 => os2[fs[i].out].dict = os[fs[i].out].dict
    /\ fs[i].item # 0 => os2[fs[i].item].list = os[fs[i].item].list

\* Storing does, os being what is left of the outcomes.
LEMMA StoringSpares ==
  ASSUME TypeOK, Nested, frames # << >>, NEW os, Records(os), Top.out = 0 \/ Top.out \in DOMAIN os,
         NEW g, NEW st, Holds(g, st, frames, outcomes), NEW k \in Nat, k < Len(frames), NEW v,
         \A i \in 1..k : /\ frames[i].out = 0 \/ frames[i].out \in DOMAIN os
                         /\ frames[i].item = 0 \/ frames[i].item \in DOMAIN os
  PROVE  Spared(frames, k, os, AddOutcome(os, Top, v))
PROOF
<1> PICK n \in Nat : n = Len(frames) /\ n \in DOMAIN frames
  BY TopType
<1> DEFINE t == AddOutcome(os, Top, v)
<1>1. DOMAIN frames = 1..n /\ Top = frames[n]
  BY DEF TypeOK, Top
<1>2. /\ \A m \in DOMAIN os : t[m].list = os[m].list
      /\ \A m \in DOMAIN os : Top.out = 0 \/ m # Top.out => t[m].dict = os[m].dict
  BY AddOutcomeEffect
<1> HIDE DEF t
<1>3. ASSUME NEW i \in 1..k
      PROVE  /\ Shape(frames[i]) # "object" /\ frames[i].out # 0 =>
                  t[frames[i].out].dict = os[frames[i].out].dict
             /\ frames[i].item # 0 => t[frames[i].item].list = os[frames[i].item].list
  <2>1. i \in DOMAIN frames /\ i < n
    BY <1>1
  <2>2. Shape(frames[i]) # "object" => Top.out = 0 \/ Top.out # frames[i].out
    BY <1>1, <2>1, ArraysOutcomeIsApart
  <2> QED BY <1>2, <2>2
<1> QED BY <1>3 DEF Spared, t

\* The first n calls go on as they were, but for the innermost of them.
LEMMA StillHolds ==
  ASSUME NEW n \in Nat \ {0}, NEW fs, Len(fs) \in Nat, n <= Len(fs),
         NEW g, NEW st, NEW os, Holds(g, st, fs, os),
         NEW fs2, Len(fs2) = n, \A i \in 1..(n - 1) : fs2[i] = fs[i], fs2[n].out = fs[n].out,
         NEW g2, \A i \in 1..n : g2[i].q = g[i].q,
         NEW os2, Spared(fs, n - 1, os, os2),
         Stored(fs2[n], g[n].q, st[n], os2), Rows(fs2[n], g[n].q, os2)
  PROVE  Holds(g2, st, fs2, os2)
PROOF
<1>1. fs2[1].out = 1 /\ st[1] = << >>
  <2>1. fs[1].out = 1 /\ st[1] = << >>
    BY DEF Holds
  <2>2. n # 1 => 1 \in 1..(n - 1)
    OBVIOUS
  <2> QED BY <2>1, <2>2
<1>2. ASSUME NEW i \in 1..n
      PROVE  /\ IsStores(st[i])
             /\ i = n \/ Shape(fs2[i]) # "object" => Stored(fs2[i], g2[i].q, st[i], os2)
             /\ Rows(fs2[i], g2[i].q, os2)
  <2>1. i \in 1..Len(fs) /\ (i # n => i \in 1..(n - 1) /\ i # Len(fs))
    OBVIOUS
  <2>2. IsStores(st[i])
    BY <2>1 DEF Holds
  <2>3. CASE i = n
    BY <2>2, <2>3
  <2>4. CASE i # n
    <3>1. fs2[i] = fs[i] /\ g2[i].q = g[i].q
      BY <2>1, <2>4
    <3>2. /\ Shape(fs[i]) # "object" => Stored(fs[i], g[i].q, st[i], os)
          /\ Rows(fs[i], g[i].q, os)
      BY <2>1, <2>4 DEF Holds
    <3>3. /\ Shape(fs[i]) # "object" /\ fs[i].out # 0 => os2[fs[i].out].dict = os[fs[i].out].dict
          /\ fs[i].item # 0 => os2[fs[i].item].list = os[fs[i].item].list
      BY <2>1, <2>4 DEF Spared
    <3>4. Shape(fs[i]) # "object" => Stored(fs[i], g[i].q, st[i], os2)
      BY <3>2, <3>3 DEF Stored
    <3>5. Rows(fs[i], g[i].q, os2)
      BY <3>2, <3>3 DEF Rows
    <3> QED BY <2>2, <2>4, <3>1, <3>4, <3>5
  <2> QED BY <2>3, <2>4
<1>3. ASSUME NEW i \in 1..(n - 1)
      PROVE  Passes(fs2[i], g2[i].q, st[i], fs2[i + 1].out, st[i + 1])
  <2>1. i \in 1..n /\ i \in 1..(Len(fs) - 1) /\ i + 1 \in 1..n
    OBVIOUS
  <2>2. fs2[i + 1].out = fs[i + 1].out
    <3>1. CASE i + 1 = n
      BY <3>1
    <3>2. CASE i + 1 # n
      <4>1. i + 1 \in 1..(n - 1)
        BY <3>2
      <4> QED BY <4>1
    <3> QED BY <3>1, <3>2
  <2>3. Passes(fs[i], g[i].q, st[i], fs[i + 1].out, st[i + 1])
    BY <2>1 DEF Holds
  <2> QED BY <2>1, <2>2, <2>3
<1> QED BY <1>1, <1>2, <1>3 DEF Holds

\* The innermost call makes another one.
LEMMA CallHolds ==
  ASSUME NEW n \in Nat \ {0}, NEW fs, Len(fs) = n,
         NEW g, NEW st, NEW os, Holds(g, st, fs, os),
         NEW fs2, Len(fs2) = n + 1, \A i \in 1..(n - 1) : fs2[i] = fs[i], fs2[n].out = fs[n].out,
         NEW g2, \A i \in 1..n : g2[i].q = g[i].q,
         Shape(fs2[n]) # "object" => Stored(fs2[n], g[n].q, st[n], os),
         Rows(fs2[n], g[n].q, os),
         NEW s2, IsStores(s2), Passes(fs2[n], g[n].q, st[n], fs2[n + 1].out, s2),
         Stored(fs2[n + 1], g2[n + 1].q, s2, os), Rows(fs2[n + 1], g2[n + 1].q, os)
  PROVE  \E st2 : Holds(g2, st2, fs2, os)
PROOF
<1> DEFINE st2 == [i \in 1..(n + 1) |-> IF i = n + 1 THEN s2 ELSE st[i]]
<1>1. st2[n + 1] = s2 /\ \A i \in 1..n : st2[i] = st[i]
  OBVIOUS
<1> HIDE DEF st2
<1>2. fs2[1].out = 1 /\ st2[1] = << >>
  <2>1. fs[1].out = 1 /\ st[1] = << >>
    BY DEF Holds
  <2>2. 1 \in 1..n /\ (n # 1 => 1 \in 1..(n - 1))
    OBVIOUS
  <2> QED BY <1>1, <2>1, <2>2
<1>3. ASSUME NEW i \in 1..(n + 1)
      PROVE  /\ IsStores(st2[i])
             /\ i = n + 1 \/ Shape(fs2[i]) # "object" => Stored(fs2[i], g2[i].q, st2[i], os)
             /\ Rows(fs2[i], g2[i].q, os)
  <2>1. i = n + 1 \/ i = n \/ i \in 1..(n - 1)
    OBVIOUS
  <2>2. CASE i = n + 1
    BY <1>1, <2>2
  <2>3. CASE i = n
    <3>1. i \in 1..n /\ IsStores(st[i]) /\ i # n + 1
      BY <2>3 DEF Holds
    <3> QED BY <1>1, <2>3, <3>1
  <2>4. CASE i \in 1..(n - 1)
    <3>1. i \in 1..n /\ i # n /\ i # n + 1
      BY <2>4
    <3>2. fs2[i] = fs[i] /\ g2[i].q = g[i].q /\ st2[i] = st[i]
      BY <1>1, <2>4, <3>1
    <3>3. /\ IsStores(st[i]) /\ Rows(fs[i], g[i].q, os)
          /\ Shape(fs[i]) # "object" => Stored(fs[i], g[i].q, st[i], os)
      BY <3>1 DEF Holds
    <3> QED BY <3>1, <3>2, <3>3
  <2> QED BY <2>1, <2>2, <2>3, <2>4
<1>4. ASSUME NEW i \in 1..n
      PROVE  Passes(fs2[i], g2[i].q, st2[i], fs2[i + 1].out, st2[i + 1])
  <2>1. CASE i = n
    BY <1>1, <2>1
  <2>2. CASE i # n
    <3>1. i \in 1..(n - 1) /\ i + 1 \in 1..n
      BY <2>2
    <3>2. fs2[i + 1].out = fs[i + 1].out
      <4>1. i + 1 = n \/ i + 1 \in 1..(n - 1)
        BY <3>1
      <4> QED BY <4>1
    <3>3. Passes(fs[i], g[i].q, st[i], fs[i + 1].out, st[i + 1])
      BY <3>1 DEF Holds
    <3> QED BY <1>1, <3>1, <3>2, <3>3
  <2> QED BY <2>1, <2>2
<1>5. Holds(g2, st2, fs2, os)
  <2>1. (n + 1) - 1 = n
    OBVIOUS
  <2> QED BY <1>2, <1>3, <1>4, <2>1 DEF Holds
<1> QED BY <1>5

\* It is enough to say what the calls have stored for the same questions.
LEMMA OutcomesFollow ==
  ASSUME TypeOK, NEW g \in Seq(Ghost), NEW n \in Nat \ {0}, NEW q \in Question,
         Innermost(g, n, q), UNCHANGED <<root, input, reply>>,
         Records(outcomes'), frames' # << >>, Len(frames') \in Nat,
         NEW m \in Nat \ {0}, m <= n, m <= Len(frames'),
         \A k \in 1..(m - 1) : frames'[k] = frames[k],
         \A g2 \in Seq(Ghost) :
           Len(g2) = Len(frames') /\ Follows(g2, frames', errors', TheQuestion)
             /\ (\A k \in 1..m : g2[k].q = g[k].q)
             => \E st : Holds(g2, st, frames', outcomes')
  PROVE  OutcomeInv'
PROOF
<1>1. TheQuestion' = TheQuestion /\ reply' = None
  BY DEF TheQuestion, Innermost
<1>2. frames # << >> /\ Len(frames) = n /\ Follows(g, frames, errors, TheQuestion)
  BY DEF Innermost
<1>3. ASSUME NEW g2 \in Seq(Ghost), Follows(g2, frames', errors', TheQuestion')
      PROVE  \E st : Holds(g2, st, frames', outcomes')
  <2>1. Follows(g2, frames', errors', TheQuestion)
    BY <1>1, <1>3
  <2>2. \A fs2, es2 :
          /\ fs2 # << >> /\ Len(fs2) \in Nat /\ m <= Len(fs2)
          /\ \A k \in 1..(m - 1) : fs2[k] = frames[k]
          /\ Follows(g2, fs2, es2, TheQuestion)
          => \A k \in 1..m : g2[k].q = g[k].q
    <3>1. m <= Len(frames) /\ Len(frames) \in Nat
      BY <1>2
    <3> QED BY <1>2, <3>1, SameQuestions, ZenonT(60)
  <2>3. \A k \in 1..m : g2[k].q = g[k].q
    BY <2>1, <2>2
  <2>4. Len(g2) = Len(frames')
    BY <2>1 DEF Follows
  <2> QED BY <2>1, <2>3, <2>4
<1> QED BY <1>1, <1>3 DEF OutcomeInv

\* The innermost call becomes f.
LEMMA StoresOn ==
  ASSUME TypeOK, NEW g \in Seq(Ghost), NEW n \in Nat \ {0}, NEW q \in Question,
         Innermost(g, n, q), NEW st, Holds(g, st, frames, outcomes),
         NEW f \in Frame, SetTop(f), f.out = Top.out, UNCHANGED <<root, input, reply>>,
         Records(outcomes'), Spared(frames, n - 1, outcomes, outcomes'),
         Stored(f, q, st[n], outcomes'), Rows(f, q, outcomes')
  PROVE  OutcomeInv'
PROOF
<1>1. /\ frames \in Seq(Frame) /\ frames # << >> /\ Len(frames) = n
      /\ frames' = [frames EXCEPT ![n] = f] /\ q = g[n].q /\ Top = frames[n]
  BY DEF TypeOK, SetTop, Innermost, Top
<1>2. n \in DOMAIN frames
  BY <1>1
<1>3. /\ Len(frames') = n /\ frames'[n] = f /\ frames' \in Seq(Frame)
      /\ \A k \in 1..(n - 1) : frames'[k] = frames[k]
  <2>1. /\ frames' \in Seq(Frame) /\ Len(frames') = Len(frames) /\ frames'[n] = f
        /\ \A k \in DOMAIN frames : k # n => frames'[k] = frames[k]
    BY <1>1, <1>2, ChangeOne
  <2>2. \A k \in 1..(n - 1) : k \in DOMAIN frames /\ k # n
    BY <1>1
  <2> QED BY <1>1, <2>1, <2>2
<1>4. frames' # << >> /\ Len(frames') \in Nat /\ n <= n /\ n <= Len(frames')
  BY <1>3
<1>5. \A fs2, os2, g2 :
        /\ Len(fs2) = n /\ (\A k \in 1..(n - 1) : fs2[k] = frames[k]) /\ fs2[n].out = frames[n].out
        /\ \A k \in 1..n : g2[k].q = g[k].q
        /\ Spared(frames, n - 1, outcomes, os2)
        /\ Stored(fs2[n], g[n].q, st[n], os2) /\ Rows(fs2[n], g[n].q, os2)
        => Holds(g2, st, fs2, os2)
  <2>1. Len(frames) \in Nat /\ n <= Len(frames)
    BY <1>1
  <2> QED BY <2>1, StillHolds, ZenonT(60)
<1>6. Stored(frames'[n], g[n].q, st[n], outcomes') /\ Rows(frames'[n], g[n].q, outcomes')
  BY <1>1, <1>3
<1>7. frames'[n].out = frames[n].out
  BY <1>1, <1>3
<1>8. \A g2 \in Seq(Ghost) :
        (\A k \in 1..n : g2[k].q = g[k].q) => Holds(g2, st, frames', outcomes')
  BY <1>3, <1>5, <1>6, <1>7
<1> QED BY <1>3, <1>4, <1>8, OutcomesFollow

\* It has stored all there is to store.
LEMMA StoresAll ==
  ASSUME TypeOK, NEW g \in Seq(Ghost), NEW n \in Nat \ {0}, NEW q \in Question,
         Innermost(g, n, q), NEW st, Holds(g, st, frames, outcomes), NEW item \in Nat,
         SetTop([Top EXCEPT !.stage = "leave", !.item = item]), UNCHANGED <<root, input, reply>>,
         Records(outcomes'), Spared(frames, n - 1, outcomes, outcomes'),
         Top.out # 0 => outcomes'[Top.out].dict = Dict(st[n] \o PartStores(Stores, q))
  PROVE  OutcomeInv'
PROOF
<1> DEFINE f == [Top EXCEPT !.stage = "leave", !.item = item]
<1>1. Top \in Frame
  BY TopType DEF Innermost
<1>2. f \in Frame /\ f.stage = "leave" /\ f.out = Top.out
  BY <1>1 DEF Frame, FrameRecord
<1>3. SetTop(f)
  OBVIOUS
<1> HIDE DEF f
<1>4. Stored(f, q, st[n], outcomes')
  BY <1>2 DEF Stored, Given
<1>5. Rows(f, q, outcomes')
  BY <1>2 DEF Rows
<1> QED BY <1>2, <1>3, <1>4, <1>5, StoresOn

\* A call that ends where it began, and has stored all that its value stores.
LEMMA StoresAtOnce ==
  ASSUME TypeOK, Nested, NEW g \in Seq(Ghost), NEW n \in Nat \ {0}, NEW q \in Question,
         Innermost(g, n, q), NEW st, Holds(g, st, frames, outcomes), Records(outcomes),
         Top.stage = "enter", Leaving, UNCHANGED <<root, input, reply>>,
         \/ PartStores(Stores, q) = << >> /\ outcomes' = outcomes
         \/ \E v : PartStores(Stores, q) = Own(q, v) /\ outcomes' = AddOutcome(outcomes, Top, v)
  PROVE  OutcomeInv'
PROOF
<1>1. Top \in Frame /\ Top.item \in Nat /\ frames # << >> /\ Len(frames) = n /\ Top = frames[n]
  BY TopType DEF Innermost, Top
<1>2. SetTop([Top EXCEPT !.stage = "leave", !.item = Top.item])
  <2>1. [Top EXCEPT !.stage = "leave"] = [Top EXCEPT !.stage = "leave", !.item = Top.item]
    BY <1>1 DEF Frame, FrameRecord
  <2> QED BY <2>1 DEF Leaving
<1>3. Top.out = 0 \/ Top.out \in DOMAIN outcomes
  BY <1>1, TopType, Pointers
<1>4. q = g[n].q /\ Top.ve = q.ve
  BY DEF Innermost, Asks
<1>5. IsStores(st[n]) /\ (Top.out # 0 => outcomes[Top.out].dict = Dict(st[n]))
  <2>1. n \in 1..Len(frames)
    BY <1>1
  <2>2. IsStores(st[n]) /\ Stored(Top, q, st[n], outcomes)
    BY <1>1, <1>4, <2>1 DEF Holds
  <2>3. st[n] \o << >> = st[n]
    BY <2>2, JoinedStores
  <2> QED BY <2>2, <2>3 DEF Stored, Given
<1>6. CASE PartStores(Stores, q) = << >> /\ outcomes' = outcomes
  <2>1. Records(outcomes') /\ Spared(frames, n - 1, outcomes, outcomes')
    BY <1>6 DEF Spared
  <2>2. st[n] \o << >> = st[n]
    BY <1>5, JoinedStores
  <2>3. Top.out # 0 => outcomes'[Top.out].dict = Dict(st[n] \o PartStores(Stores, q))
    BY <1>5, <1>6, <2>2
  <2> QED BY <1>1, <1>2, <2>1, <2>3, StoresAll
<1>7. CASE \E v : PartStores(Stores, q) = Own(q, v) /\ outcomes' = AddOutcome(outcomes, Top, v)
  <2>1. PICK v : PartStores(Stores, q) = Own(q, v) /\ outcomes' = AddOutcome(outcomes, Top, v)
    BY <1>7
  <2>2. Records(outcomes')
    BY <1>3, <2>1, AddOutcomeEffect
  <2>3. Spared(frames, n - 1, outcomes, outcomes')
    <3>1. n - 1 \in Nat /\ n - 1 < Len(frames) /\ \A i \in 1..(n - 1) : i \in DOMAIN frames
      BY <1>1 DEF TypeOK
    <3> QED BY <1>1, <1>3, <2>1, <3>1, Pointers, StoringSpares
  <2>4. Top.out # 0 => outcomes'[Top.out].dict = Dict(st[n] \o PartStores(Stores, q))
    BY <1>3, <1>4, <1>5, <2>1, OwnStored
  <2> QED BY <1>1, <1>2, <2>2, <2>3, <2>4, StoresAll
<1> QED BY <1>6, <1>7

----------------------------------------------------------------------------
(* Every step keeps what is stored.                                        *)

\* An error ends the interest in what is stored.
LEMMA ErrorReported ==
  ASSUME TypeOK, ErrorsInv, frames # << >>, NEW keyword, NEW key, Report(keyword, key)
  PROVE  OutcomeInv'
PROOF
<1>1. PICK g \in Seq(Ghost), n \in Nat \ {0}, q \in Question : Innermost(g, n, q)
  BY InnermostCall
<1>2. errors \in Seq(Message)
  BY <1>1, ErrorsType
<1> DEFINE m == [keyword |-> keyword, path |-> Path, key |-> key]
<1>3. errors' = Append(errors, m)
  BY DEF Report
<1> HIDE DEF m
<1>4. errors' # << >>
  BY <1>2, <1>3
<1> QED BY <1>4 DEF OutcomeInv

LEMMA ErrorsReported ==
  ASSUME errors' = errors, errors # << >>
  PROVE  OutcomeInv'
BY DEF OutcomeInv

\* What is known of the innermost call.
LEMMA InnermostStored ==
  ASSUME TypeOK, Nested, NEW g \in Seq(Ghost), NEW n \in Nat \ {0}, NEW q \in Question,
         Innermost(g, n, q), NEW st, Holds(g, st, frames, outcomes)
  PROVE  /\ Top \in Frame /\ Top = frames[n] /\ Len(frames) = n /\ n \in DOMAIN frames
         /\ Asks(Top, q) /\ Top.ve = q.ve
         /\ Top.out = 0 \/ Top.out \in DOMAIN outcomes
         /\ Top.item = 0 \/ Top.item \in DOMAIN outcomes
         /\ IsStores(st[n]) /\ st[n] \o << >> = st[n]
         /\ Stored(Top, q, st[n], outcomes) /\ Rows(Top, q, outcomes)
         /\ Top.out # 0 /\ Given(Top, q) = << >> => outcomes[Top.out].dict = Dict(st[n])
PROOF
<1>1. Top \in Frame /\ Top = frames[n] /\ Len(frames) = n /\ n \in DOMAIN frames
  BY TopType DEF Innermost, Top
<1>2. Asks(Top, q) /\ Top.ve = q.ve /\ q = g[n].q
  BY DEF Innermost, Asks
<1>3. /\ Top.out = 0 \/ Top.out \in DOMAIN outcomes
      /\ Top.item = 0 \/ Top.item \in DOMAIN outcomes
  BY <1>1, Pointers
<1>4. IsStores(st[n]) /\ Stored(Top, q, st[n], outcomes) /\ Rows(Top, q, outcomes)
  <2>1. n \in 1..Len(frames)
    BY <1>1
  <2> QED BY <1>1, <1>2, <2>1 DEF Holds
<1>5. st[n] \o << >> = st[n]
  BY <1>4, JoinedStores
<1>6. Top.out # 0 /\ Given(Top, q) = << >> => outcomes[Top.out].dict = Dict(st[n])
  BY <1>4, <1>5 DEF Stored
<1> QED BY <1>1, <1>2, <1>3, <1>4, <1>5, <1>6

LEMMA ParseJsonOutcome ==
  ASSUME TypeOK, Nested, ErrorsInv, OutcomeInv, ParseJson
  PROVE  OutcomeInv'
PROOF
<1>1. /\ frames # << >> /\ Top.stage = "enter" /\ Top.ve.type = "json" /\ Top.json = None
      /\ \/ Report("type", None)
         \/ Top.tcl.json # None /\ SetTop([Top EXCEPT !.json = Top.tcl.json]) /\ errors' = errors
      /\ UNCHANGED <<root, input, reply>> /\ outcomes' = outcomes
  BY DEF ParseJson, At
<1>2. CASE Report("type", None)
  BY <1>1, <1>2, ErrorReported
<1>3. CASE errors' = errors /\ errors # << >>
  BY <1>3, ErrorsReported
<1>4. CASE /\ Top.tcl.json # None /\ SetTop([Top EXCEPT !.json = Top.tcl.json])
           /\ errors' = errors /\ errors = << >>
  <2>1. PICK g \in Seq(Ghost), n \in Nat \ {0}, q \in Question :
          Innermost(g, n, q) /\ \E st : Holds(g, st, frames, outcomes)
    BY <1>1, <1>4, InnermostStores
  <2>2. PICK st : Holds(g, st, frames, outcomes)
    BY <2>1
  <2> DEFINE f == [Top EXCEPT !.json = Top.tcl.json]
  <2>3. Top \in Frame /\ Top.tcl \in TclValue
    BY <1>1, TopType
  <2>4. Top.tcl.json \in Json
    BY <1>4, <2>3, ValidateAssumption
  <2>5. f \in Frame /\ f.stage = "enter" /\ f.out = Top.out
    BY <1>1, <2>3, <2>4 DEF Frame, FrameRecord
  <2>6. SetTop(f)
    BY <1>4
  <2> HIDE DEF f
  <2>7. Stored(Top, q, st[n], outcomes)
    BY <2>1, <2>2, InnermostStored
  <2>8. Stored(f, q, st[n], outcomes')
    BY <1>1, <2>5, <2>7 DEF Stored, Given
  <2>9. Rows(f, q, outcomes')
    BY <2>5 DEF Rows
  <2>10. Records(outcomes') /\ Spared(frames, n - 1, outcomes, outcomes')
    BY <1>1, <1>4 DEF OutcomeInv, Spared
  <2> QED BY <1>1, <2>1, <2>2, <2>5, <2>6, <2>8, <2>9, <2>10, StoresOn
<1> QED BY <1>1, <1>2, <1>3, <1>4

LEMMA AcceptOutcome ==
  ASSUME TypeOK, Nested, ErrorsInv, OutcomeInv, Accept
  PROVE  OutcomeInv'
PROOF
<1>1. /\ frames # << >> /\ Checks /\ (Shape(Top) \in {"none", "skip"} \/ IsNull) /\ Leaving
      /\ errors' = errors /\ UNCHANGED <<root, input, reply>> /\ outcomes' = outcomes
  BY DEF Accept, Checks, At
<1>2. CASE errors # << >>
  BY <1>1, <1>2, ErrorsReported
<1>3. CASE errors = << >>
  <2>1. PICK g \in Seq(Ghost), n \in Nat \ {0}, q \in Question :
          Innermost(g, n, q) /\ \E st : Holds(g, st, frames, outcomes)
    BY <1>1, <1>3, InnermostStores
  <2>2. PICK st : Holds(g, st, frames, outcomes)
    BY <2>1
  <2>3. Asks(Top, q)
    BY <2>1 DEF Innermost
  <2>4. Top.json = Document(q) /\ Top.stage = "enter" /\ (IsNull <=> Absent(View(q)))
    BY <1>1, <2>3, Looked
  <2>5. Ignored(q)
    BY <1>1, <2>3, <2>4, SeesTheSame DEF Ignored
  <2>6. PartStores(Stores, q) = << >>
    BY <2>5 DEF PartStores
  <2>7. Records(outcomes)
    BY <1>3 DEF OutcomeInv
  <2> QED BY <1>1, <2>1, <2>2, <2>4, <2>6, <2>7, StoresAtOnce
<1> QED BY <1>2, <1>3

LEMMA ValidateScalarOutcome ==
  ASSUME TypeOK, Nested, ErrorsInv, OutcomeInv, ValidateScalar
  PROVE  OutcomeInv'
PROOF
<1>1. /\ frames # << >> /\ Checks /\ ~IsNull /\ Shape(Top) \in Scalar /\ Leaving
      /\ \/ outcomes' = AddOutcome(outcomes, Top, Result(Top)) /\ errors' = errors
         \/ Report(Fault(Top), None)
      /\ UNCHANGED <<root, input, reply>>
  BY DEF ValidateScalar, Checks, At
<1>2. CASE Report(Fault(Top), None)
  BY <1>1, <1>2, ErrorReported
<1>3. CASE errors' = errors /\ errors # << >>
  BY <1>3, ErrorsReported
<1>4. CASE /\ outcomes' = AddOutcome(outcomes, Top, Result(Top))
           /\ errors' = errors /\ errors = << >>
  <2>1. PICK g \in Seq(Ghost), n \in Nat \ {0}, q \in Question :
          Innermost(g, n, q) /\ \E st : Holds(g, st, frames, outcomes)
    BY <1>1, <1>4, InnermostStores
  <2>2. PICK st : Holds(g, st, frames, outcomes)
    BY <2>1
  <2>3. Asks(Top, q)
    BY <2>1 DEF Innermost
  <2>4. Top.json = Document(q) /\ Top.stage = "enter" /\ ~Absent(View(q))
    BY <1>1, <2>3, Looked
  <2>5. Shape(View(q)) \in Scalar /\ Result(View(q)) = Result(Top)
    BY <1>1, <2>3, <2>4, SeesTheSame
  <2>6. ~Ignored(q)
    BY <2>4, <2>5 DEF Ignored, Scalar
  <2>7. PartStores(Stores, q) = Own(q, Result(Top))
    BY <2>5, <2>6 DEF PartStores
  <2>8. Records(outcomes)
    BY <1>4 DEF OutcomeInv
  <2> QED BY <1>1, <1>4, <2>1, <2>2, <2>4, <2>7, <2>8, StoresAtOnce
<1> QED BY <1>1, <1>2, <1>3, <1>4

\* What the first properties store: none, one more, all of them.
LEMMA FirstStoresGrow ==
  ASSUME NEW q \in Question
  PROVE  LET n == Len(q.ve.children) IN
         /\ n \in Nat /\ DOMAIN q.ve.children = 1..n
         /\ FirstStores(q, 0) = << >>
         /\ \A k \in 0..n : IsStores(FirstStores(q, k))
         /\ \A k \in 0..n : k + 1 <= n =>
              /\ FirstStores(q, k + 1) = FirstStores(q, k) \o PropertyStores(Stores, q)[k + 1]
              /\ IsStores(PropertyStores(Stores, q)[k + 1])
         /\ FirstStores(q, n) = FlattenSeq(PropertyStores(Stores, q))
PROOF
<1> DEFINE s == PropertyStores(Stores, q)
<1>1. /\ Len(s) = Len(q.ve.children) /\ s \in Seq(ToSet(s))
      /\ DOMAIN s = 1..Len(q.ve.children) /\ Len(q.ve.children) \in Nat
      /\ \A i \in DOMAIN s : IsStores(s[i])
  BY PropertyStoresType, StoresType
<1>2. \A k : FirstStores(q, k) = FlattenSeq(SubSeq(s, 1, k))
  BY DEF FirstStores
<1>3. DOMAIN q.ve.children = 1..Len(q.ve.children)
  BY ViewType, ValidateAssumption
<1> HIDE DEF s
<1>4. /\ FlattenSeq(SubSeq(s, 1, 0)) = << >>
      /\ \A k \in 0..Len(s) : IsStores(FlattenSeq(SubSeq(s, 1, k)))
      /\ \A k \in 0..Len(s) : k + 1 <= Len(s) =>
           FlattenSeq(SubSeq(s, 1, k + 1)) = FlattenSeq(SubSeq(s, 1, k)) \o s[k + 1]
      /\ FlattenSeq(SubSeq(s, 1, Len(s))) = FlattenSeq(s)
  BY <1>1, FlattenStores
<1> PICK n \in Nat : n = Len(q.ve.children)
  BY <1>1
<1>5. \A k \in 0..n : IsStores(FirstStores(q, k))
  BY <1>1, <1>2, <1>4
<1>6. ASSUME NEW k \in 0..n, k + 1 <= n
      PROVE  FirstStores(q, k + 1) = FirstStores(q, k) \o s[k + 1] /\ IsStores(s[k + 1])
  <2>1. k + 1 \in 1..n
    BY <1>6
  <2> QED BY <1>1, <1>2, <1>4, <1>6, <2>1
<1>7. FirstStores(q, 0) = << >> /\ FirstStores(q, n) = FlattenSeq(s)
  BY <1>1, <1>2, <1>4
<1> QED BY <1>1, <1>3, <1>5, <1>6, <1>7 DEF s

\* The dictionaries of the first items.
LEMMA FirstRowsGrow ==
  ASSUME NEW q \in Question
  PROVE  LET n == Len(Items(View(q))) IN
         /\ n \in Nat /\ DOMAIN Items(View(q)) = 1..n
         /\ FirstRows(q, 0) = << >>
         /\ \A k \in 0..n : FirstRows(q, k) \in Seq(ToSet(FirstRows(q, k)))
         /\ \A k \in 0..n : k + 1 <= n =>
              FirstRows(q, k + 1) = FirstRows(q, k) \o ItemRows(Stores, q)[k + 1]
         /\ FirstRows(q, n) = FlattenSeq(ItemRows(Stores, q))
PROOF
<1> DEFINE s == ItemRows(Stores, q)
<1>1. /\ Len(s) = Len(Items(View(q))) /\ s \in Seq(ToSet(s))
      /\ Len(Items(View(q))) \in Nat
      /\ \A i \in DOMAIN s : s[i] \in Seq(ToSet(s[i]))
  BY ItemRowsType
<1>2. \A k : FirstRows(q, k) = FlattenSeq(SubSeq(s, 1, k))
  BY DEF FirstRows
<1>3. DOMAIN Items(View(q)) = 1..Len(Items(View(q)))
  BY ItemsType
<1> HIDE DEF s
<1> DEFINE S == UNION {ToSet(s[i]) : i \in DOMAIN s}
<1>4. /\ FlattenSeq(SubSeq(s, 1, 0)) = << >>
      /\ \A k \in 0..Len(s) : FlattenSeq(SubSeq(s, 1, k)) \in Seq(S)
      /\ \A k \in 0..Len(s) : k + 1 <= Len(s) =>
           FlattenSeq(SubSeq(s, 1, k + 1)) = FlattenSeq(SubSeq(s, 1, k)) \o s[k + 1]
      /\ FlattenSeq(SubSeq(s, 1, Len(s))) = FlattenSeq(s)
  BY <1>1, FlattenLists
<1> HIDE DEF S
<1>5. \A k \in 0..Len(s) : FirstRows(q, k) \in Seq(ToSet(FirstRows(q, k)))
  BY <1>2, <1>4, OverItsElements
<1> QED BY <1>1, <1>2, <1>3, <1>4, <1>5 DEF s

LEMMA EnterObjectOutcome ==
  ASSUME TypeOK, Nested, ErrorsInv, OutcomeInv, EnterObject
  PROVE  OutcomeInv'
PROOF
<1>1. /\ frames # << >> /\ Checks /\ Shape(Top) = "object"
      /\ \/ SetTop([Top EXCEPT !.stage = "loop"]) /\ errors' = errors
         \/ Report("type", None)
      /\ UNCHANGED <<root, input, reply>> /\ outcomes' = outcomes
  BY DEF EnterObject, Checks, At
<1>2. CASE Report("type", None)
  BY <1>1, <1>2, ErrorReported
<1>3. CASE errors' = errors /\ errors # << >>
  BY <1>3, ErrorsReported
<1>4. CASE SetTop([Top EXCEPT !.stage = "loop"]) /\ errors = << >>
  <2>1. PICK g \in Seq(Ghost), n \in Nat \ {0}, q \in Question :
          Innermost(g, n, q) /\ \E st : Holds(g, st, frames, outcomes)
    BY <1>1, <1>4, InnermostStores
  <2>2. PICK st : Holds(g, st, frames, outcomes)
    BY <2>1
  <2>3. Top \in Frame /\ Asks(Top, q) /\ Top.stage = "enter" /\ Top.pos = 0
    BY <1>1, <2>1, <2>2, InnermostStored, Looked DEF Asks
  <2> DEFINE f == [Top EXCEPT !.stage = "loop"]
  <2>4. /\ f \in Frame /\ f.stage = "loop" /\ f.out = Top.out /\ f.pos = 0 /\ f.ve = Top.ve
        /\ f.tcl = Top.tcl /\ f.flag = Top.flag
    BY <2>3 DEF Frame, FrameRecord
  <2>5. SetTop(f)
    BY <1>4
  <2> HIDE DEF f
  <2>6. Shape(f) = "object"
    BY <1>1, <2>4 DEF Shape
  <2>7. Given(f, q) = << >> /\ Given(Top, q) = << >>
    BY <2>3, <2>4, <2>6, FirstStoresGrow DEF Given
  <2>8. Stored(Top, q, st[n], outcomes)
    BY <2>1, <2>2, InnermostStored
  <2>9. Stored(f, q, st[n], outcomes')
    BY <1>1, <2>4, <2>7, <2>8 DEF Stored
  <2>10. Rows(f, q, outcomes')
    BY <2>6 DEF Rows
  <2>11. Records(outcomes') /\ Spared(frames, n - 1, outcomes, outcomes')
    BY <1>1, <1>4 DEF OutcomeInv, Spared
  <2> QED BY <1>1, <2>1, <2>2, <2>4, <2>5, <2>9, <2>10, <2>11, StoresOn
<1> QED BY <1>1, <1>2, <1>3, <1>4

\* An array that collects has an outcome of its own from now on.
LEMMA Allocated ==
  ASSUME TypeOK, Nested, Records(outcomes), outcomes' = Append(outcomes, NewOutcome)
  PROVE  /\ Records(outcomes') /\ outcomes'[Len(outcomes) + 1].list = << >>
         /\ \A m \in DOMAIN outcomes : outcomes'[m] = outcomes[m]
         /\ \A k \in Nat : k <= Len(frames) => Spared(frames, k, outcomes, outcomes')
PROOF
<1> PICK m \in Nat : m = Len(outcomes)
  BY Pointers
<1>1. NewOutcome.list = << >> /\ DOMAIN NewOutcome = {"dict", "list"}
  BY DEF NewOutcome
<1> DEFINE S == ToSet(outcomes) \cup {NewOutcome}
<1>2. outcomes \in Seq(S) /\ NewOutcome \in S
  BY DEF TypeOK
<1> HIDE DEF S
<1>3. /\ DOMAIN outcomes' = 1..(m + 1) /\ outcomes'[m + 1] = NewOutcome
      /\ \A l \in 1..m : outcomes'[l] = outcomes[l]
      /\ DOMAIN outcomes = 1..m
  BY <1>2
<1>4. Records(outcomes')
  <2>1. \A l \in 1..(m + 1) : l \in 1..m \/ l = m + 1
    OBVIOUS
  <2> QED BY <1>1, <1>3, <2>1 DEF Records
<1>5. ASSUME NEW k \in Nat, k <= Len(frames) PROVE Spared(frames, k, outcomes, outcomes')
  <2>1. \A i \in 1..k : i \in DOMAIN frames
    BY <1>5 DEF TypeOK
  <2>2. ASSUME NEW i \in 1..k
        PROVE  /\ frames[i].out # 0 => outcomes'[frames[i].out] = outcomes[frames[i].out]
               /\ frames[i].item # 0 => outcomes'[frames[i].item] = outcomes[frames[i].item]
    BY <1>3, <2>1, Pointers
  <2> QED BY <2>2 DEF Spared
<1> QED BY <1>1, <1>3, <1>4, <1>5

LEMMA EnterArrayOutcome ==
  ASSUME TypeOK, Nested, ErrorsInv, OutcomeInv, EnterArray
  PROVE  OutcomeInv'
PROOF
<1> DEFINE collects == Top.out # 0 /\ Top.ve.outkey # None
           item == IF collects THEN Len(outcomes) + 1 ELSE 0
           f == [Top EXCEPT !.stage = "loop", !.index = 0, !.item = item]
<1>1. /\ frames # << >> /\ Checks /\ ~IsNull /\ Shape(Top) = "array"
      /\ \/ Report("type", None)
         \/ /\ RightForm(Top) /\ Top.ve.children = << >> /\ Leaving
            /\ errors' = errors /\ outcomes' = outcomes
         \/ /\ SetTop(f) /\ errors' = errors
            /\ outcomes' = IF collects THEN Append(outcomes, NewOutcome) ELSE outcomes
      /\ UNCHANGED <<root, input, reply>>
  BY DEF EnterArray, Checks, At, RightForm
<1>2. CASE Report("type", None)
  BY <1>1, <1>2, ErrorReported
<1>3. CASE errors' = errors /\ errors # << >>
  BY <1>3, ErrorsReported
<1>4. ASSUME errors = << >>, errors' = errors, Top.ve.children = << >>, Leaving, outcomes' = outcomes
      PROVE  OutcomeInv'
  <2>1. PICK g \in Seq(Ghost), n \in Nat \ {0}, q \in Question :
          Innermost(g, n, q) /\ \E st : Holds(g, st, frames, outcomes)
    BY <1>1, <1>4, InnermostStores
  <2>2. PICK st : Holds(g, st, frames, outcomes)
    BY <2>1
  <2>3. Asks(Top, q) /\ Top.ve = q.ve
    BY <2>1 DEF Innermost, Asks
  <2>4. Top.json = Document(q) /\ Top.stage = "enter" /\ ~Absent(View(q))
    BY <1>1, <2>3, Looked
  <2>5. Shape(View(q)) = "array"
    BY <1>1, <2>3, <2>4, SeesTheSame
  <2>6. PartStores(Stores, q) = << >>
    BY <1>4, <2>3, <2>5 DEF PartStores, Scalar
  <2>7. Records(outcomes)
    BY <1>4 DEF OutcomeInv
  <2> QED BY <1>1, <1>4, <2>1, <2>2, <2>4, <2>6, <2>7, StoresAtOnce
<1>5. ASSUME errors = << >>, errors' = errors, SetTop(f),
             outcomes' = IF collects THEN Append(outcomes, NewOutcome) ELSE outcomes
      PROVE  OutcomeInv'
  <2>1. PICK g \in Seq(Ghost), n \in Nat \ {0}, q \in Question :
          Innermost(g, n, q) /\ \E st : Holds(g, st, frames, outcomes)
    BY <1>1, <1>5, InnermostStores
  <2>2. PICK st : Holds(g, st, frames, outcomes)
    BY <2>1
  <2>3. /\ Top \in Frame /\ Asks(Top, q) /\ Top.stage = "enter" /\ Len(frames) = n
        /\ Top.out = 0 \/ Top.out \in DOMAIN outcomes
    BY <1>1, <2>1, <2>2, InnermostStored, Looked
  <2>4. item \in Nat /\ (collects => item # 0)
    BY Pointers
  <2> HIDE DEF item
  <2>5. /\ f \in Frame /\ f.stage = "loop" /\ f.out = Top.out /\ f.index = 0 /\ f.ve = Top.ve
        /\ f.tcl = Top.tcl /\ f.flag = Top.flag /\ f.item = item
    BY <2>3, <2>4 DEF Frame, FrameRecord
  <2>6. SetTop(f)
    BY <1>5
  <2> HIDE DEF f
  <2>7. Shape(f) = "array"
    BY <1>1, <2>5 DEF Shape
  <2>8. Given(f, q) = << >> /\ Given(Top, q) = << >>
    BY <2>3, <2>5, <2>7 DEF Given
  <2>9. Stored(Top, q, st[n], outcomes)
    BY <2>1, <2>2, InnermostStored
  <2>10. n - 1 \in Nat /\ n - 1 <= Len(frames)
    BY <2>3
  <2>11. Records(outcomes)
    BY <1>5 DEF OutcomeInv
  <2>12. CASE collects
    <3>1. outcomes' = Append(outcomes, NewOutcome) /\ item = Len(outcomes) + 1
      BY <1>5, <2>12 DEF item
    <3>2. /\ Records(outcomes') /\ outcomes'[item].list = << >>
          /\ \A m \in DOMAIN outcomes : outcomes'[m] = outcomes[m]
          /\ Spared(frames, n - 1, outcomes, outcomes')
      BY <2>10, <2>11, <3>1, Allocated
    <3>3. Stored(f, q, st[n], outcomes')
      BY <2>3, <2>5, <2>8, <2>9, <3>2 DEF Stored
    <3>4. Rows(f, q, outcomes')
      BY <2>4, <2>5, <2>12, <3>2, FirstRowsGrow DEF Rows
    <3> HIDE DEF collects
    <3> QED BY <1>1, <2>1, <2>2, <2>5, <2>6, <3>2, <3>3, <3>4, StoresOn
  <2>13. CASE ~collects
    <3>1. outcomes' = outcomes /\ item = 0
      BY <1>5, <2>13 DEF item
    <3>2. Records(outcomes') /\ Spared(frames, n - 1, outcomes, outcomes')
      BY <2>11, <3>1 DEF Spared
    <3>3. Stored(f, q, st[n], outcomes')
      BY <2>5, <2>8, <2>9, <3>1 DEF Stored
    <3>4. Rows(f, q, outcomes')
      BY <2>5, <2>13, <3>1 DEF Rows
    <3> HIDE DEF collects
    <3> QED BY <1>1, <2>1, <2>2, <2>5, <2>6, <3>2, <3>3, <3>4, StoresOn
  <2> QED BY <2>12, <2>13
<1> HIDE DEF f, collects
<1> QED BY <1>1, <1>2, <1>3, <1>4, <1>5

LEMMA LeaveObjectOutcome ==
  ASSUME TypeOK, Nested, ErrorsInv, OutcomeInv, LeaveObject
  PROVE  OutcomeInv'
PROOF
<1>1. /\ frames # << >> /\ Top.stage = "loop" /\ Shape(Top) = "object"
      /\ Top.pos = Len(Top.ve.children) /\ Leaving /\ errors' = errors
      /\ outcomes' = IF Top.json = None THEN AddOutcome(outcomes, Top, <<"tcl", Top.tcl>>) ELSE outcomes
      /\ UNCHANGED <<root, input, reply>>
  BY DEF LeaveObject, At
<1>2. CASE errors # << >>
  BY <1>1, <1>2, ErrorsReported
<1>3. CASE errors = << >>
  <2>1. PICK g \in Seq(Ghost), n \in Nat \ {0}, q \in Question :
          Innermost(g, n, q) /\ \E st : Holds(g, st, frames, outcomes)
    BY <1>1, <1>3, InnermostStores
  <2>2. PICK st : Holds(g, st, frames, outcomes)
    BY <2>1
  <2>3. /\ Top \in Frame /\ Asks(Top, q) /\ Len(frames) = n /\ Top.ve = q.ve
        /\ Top.out = 0 \/ Top.out \in DOMAIN outcomes
        /\ IsStores(st[n]) /\ Stored(Top, q, st[n], outcomes)
    BY <2>1, <2>2, InnermostStored
  <2>4. Walks(q) /\ Top.json = Document(q) /\ Top.tcl = q.tcl /\ View(q).json = Document(q)
    BY <1>1, <2>3, ViewOf DEF Asks
  <2>5. Shape(View(q)) = "object"
    BY <1>1, <2>3, <2>4, SeesTheSame
  <2> DEFINE s == FlattenSeq(PropertyStores(Stores, q))
             v == <<"tcl", q.tcl>>
  <2>6. Given(Top, q) = s /\ IsStores(s)
    <3>1. Given(Top, q) = FirstStores(q, Top.pos)
      BY <1>1 DEF Given
    <3>2. Len(q.ve.children) \in 0..Len(q.ve.children)
      BY FirstStoresGrow
    <3> QED BY <1>1, <2>3, <3>1, <3>2, FirstStoresGrow
  <2>7. PartStores(Stores, q) = s \o (IF Top.json = None THEN Own(q, v) ELSE << >>)
    BY <2>4, <2>5 DEF PartStores, Walks, Scalar
  <2> HIDE DEF s, v
  <2>8. /\ IsStores(st[n] \o s) /\ s \o << >> = s
        /\ \A w : (st[n] \o s) \o Own(q, w) = st[n] \o (s \o Own(q, w))
    <3>1. \A w : IsStores(Own(q, w))
      BY OwnType
    <3>2. IsStores(st[n] \o s)
      BY <2>3, <2>6, StoresJoin
    <3>3. s \o << >> = s
      BY <2>6, JoinedStores
    <3>5. \A a, b, w : IsStores(a) /\ IsStores(b) => (a \o b) \o Own(q, w) = a \o (b \o Own(q, w))
      BY StoresThenOwn
    <3> DEFINE a == st[n]
    <3>6. IsStores(a) /\ IsStores(s)
      BY <2>3, <2>6
    <3> HIDE DEF a
    <3>7. \A w : (a \o s) \o Own(q, w) = a \o (s \o Own(q, w))
      BY <3>5, <3>6
    <3> QED BY <3>2, <3>3, <3>7 DEF a
  <2>9. Top.out # 0 => outcomes[Top.out].dict = Dict(st[n] \o s)
    BY <2>3, <2>6 DEF Stored
  <2>10. Records(outcomes)
    BY <1>3 DEF OutcomeInv
  <2>11. SetTop([Top EXCEPT !.stage = "leave", !.item = Top.item]) /\ Top.item \in Nat
    <3>1. [Top EXCEPT !.stage = "leave"] = [Top EXCEPT !.stage = "leave", !.item = Top.item]
      BY <2>3 DEF Frame, FrameRecord
    <3> QED BY <1>1, <3>1, TopType DEF Leaving
  <2>12. CASE Top.json # None
    <3>1. Records(outcomes') /\ Spared(frames, n - 1, outcomes, outcomes')
      BY <1>1, <2>10, <2>12 DEF Spared
    <3>2. Top.out # 0 => outcomes'[Top.out].dict = Dict(st[n] \o PartStores(Stores, q))
      BY <1>1, <2>7, <2>8, <2>9, <2>12
    <3> QED BY <1>1, <2>1, <2>2, <2>11, <3>1, <3>2, StoresAll
  <2>13. CASE Top.json = None
    <3>1. outcomes' = AddOutcome(outcomes, Top, v)
      BY <1>1, <2>4, <2>13 DEF v
    <3>2. Records(outcomes')
      BY <2>3, <2>10, <3>1, AddOutcomeEffect
    <3>3. Spared(frames, n - 1, outcomes, outcomes')
      <4>1. n - 1 \in Nat /\ n - 1 < Len(frames) /\ \A i \in 1..(n - 1) : i \in DOMAIN frames
        BY <2>3 DEF TypeOK
      <4> QED BY <1>1, <2>2, <2>3, <2>10, <3>1, <4>1, Pointers, StoringSpares
    <3>4. ASSUME Top.out # 0
          PROVE  outcomes'[Top.out].dict = Dict(st[n] \o PartStores(Stores, q))
      <4>1. outcomes'[Top.out].dict = Dict((st[n] \o s) \o Own(q, v))
        BY <2>3, <2>8, <2>9, <2>10, <3>1, <3>4, OwnStored
      <4> QED BY <2>7, <2>8, <2>13, <4>1
    <3> QED BY <1>1, <2>1, <2>2, <2>11, <3>2, <3>3, <3>4, StoresAll
  <2> QED BY <2>12, <2>13
<1> QED BY <1>2, <1>3

\* The array's item_outcome is released: nobody else stores or collects in it.
LEMMA Released ==
  ASSUME TypeOK, Nested, frames # << >>, Top.item # 0, Records(outcomes)
  PROVE  LET os == Front(outcomes) IN
         /\ Records(os) /\ Last(outcomes) = outcomes[Top.item]
         /\ Top.out = 0 \/ (Top.out \in DOMAIN os /\ os[Top.out] = outcomes[Top.out])
         /\ \A i \in 1..(Len(frames) - 1) :
              /\ frames[i].out = 0 \/ frames[i].out \in DOMAIN os
              /\ frames[i].item = 0 \/ frames[i].item \in DOMAIN os
         /\ Spared(frames, Len(frames) - 1, outcomes, os)
PROOF
<1> DEFINE os == Front(outcomes)
<1> PICK n \in Nat : n = Len(frames) /\ n \in DOMAIN frames
  BY TopType
<1> PICK m \in Nat : m = Len(outcomes)
  BY Pointers
<1>1. Top.item = m /\ m >= 2 /\ Top = frames[n] /\ DOMAIN frames = 1..n
  BY InnermostItemIsLast DEF Top, TypeOK
<1>2. /\ DOMAIN os = 1..(m - 1) /\ \A l \in 1..(m - 1) : os[l] = outcomes[l]
      /\ DOMAIN outcomes = 1..m
  <2>1. outcomes \in Seq(ToSet(outcomes)) /\ outcomes # << >>
    BY DEF TypeOK
  <2>2. PICK k \in Nat : k + 1 = m /\ k = m - 1
    BY <1>1
  <2>3. os \in Seq(ToSet(outcomes)) /\ Len(os) = k /\ \A l \in 1..k : os[l] = outcomes[l]
    BY <2>1, <2>2, FrontOf
  <2> QED BY <2>1, <2>2, <2>3
<1> HIDE DEF os
<1>3. ASSUME NEW i \in 1..n
      PROVE  /\ frames[i].out = 0 \/ frames[i].out \in DOMAIN os
             /\ i # n => frames[i].item = 0 \/ frames[i].item \in DOMAIN os
  <2>1. i \in DOMAIN frames /\ i <= n
    BY <1>1
  <2>2. frames[i].out # m /\ (i # n => frames[i].item # m)
    BY <1>1, <2>1, ItemIsApart
  <2>3. /\ frames[i].out = 0 \/ frames[i].out \in 1..m
        /\ frames[i].item = 0 \/ frames[i].item \in 1..m
    BY <1>2, <2>1, Pointers
  <2>4. \A l \in 1..m : l # m => l \in DOMAIN os
    BY <1>2
  <2> QED BY <2>2, <2>3, <2>4
<1>4. \A l \in DOMAIN os : os[l] = outcomes[l] /\ l \in DOMAIN outcomes
  BY <1>2
<1>5. \A i \in 1..(n - 1) : i \in 1..n /\ i # n
  OBVIOUS
<1>6. Records(os)
  BY <1>4 DEF Records
<1>7. Spared(frames, n - 1, outcomes, os)
  BY <1>3, <1>4, <1>5 DEF Spared
<1>8. Last(outcomes) = outcomes[Top.item]
  BY <1>1 DEF Last
<1>9. n \in 1..n
  BY <1>1
<1> QED BY <1>1, <1>3, <1>4, <1>5, <1>6, <1>7, <1>8, <1>9 DEF os

LEMMA LeaveArrayOutcome ==
  ASSUME TypeOK, Nested, ErrorsInv, OutcomeInv, LeaveArray
  PROVE  OutcomeInv'
PROOF
<1>1. /\ frames # << >> /\ Top.stage = "loop" /\ Shape(Top) = "array"
      /\ Top.index = Len(Items(Top)) /\ SetTop([Top EXCEPT !.stage = "leave", !.item = 0])
      /\ outcomes' = IF Top.item = 0 THEN outcomes
                     ELSE AddOutcome(Front(outcomes), Top, <<"list", Last(outcomes).list>>)
      /\ errors' = errors /\ UNCHANGED <<root, input, reply>>
  BY DEF LeaveArray, At
<1>2. CASE errors # << >>
  BY <1>1, <1>2, ErrorsReported
<1>3. CASE errors = << >>
  <2>1. PICK g \in Seq(Ghost), n \in Nat \ {0}, q \in Question :
          Innermost(g, n, q) /\ \E st : Holds(g, st, frames, outcomes)
    BY <1>1, <1>3, InnermostStores
  <2>2. PICK st : Holds(g, st, frames, outcomes)
    BY <2>1
  <2>3. /\ Top \in Frame /\ Asks(Top, q) /\ Len(frames) = n /\ Top.ve = q.ve
        /\ IsStores(st[n]) /\ Rows(Top, q, outcomes) /\ st[n] \o << >> = st[n]
    BY <2>1, <2>2, InnermostStored
  <2>4. Top.out # 0 => outcomes[Top.out].dict = Dict(st[n])
    <3>1. Given(Top, q) = << >>
      BY <1>1 DEF Given
    <3> QED BY <2>1, <2>2, <3>1, InnermostStored
  <2>5. Walks(q) /\ Top.json = Document(q)
    BY <1>1, <2>3 DEF Asks
  <2>6. Shape(View(q)) = "array" /\ Items(Top) = Items(View(q))
    BY <1>1, <2>3, <2>5, SeesTheSame
  <2> DEFINE v == <<"list", FlattenSeq(ItemRows(Stores, q))>>
  <2>7. PartStores(Stores, q) = Own(q, v)
    BY <2>5, <2>6 DEF PartStores, Walks, Scalar
  <2>8. Records(outcomes) /\ 0 \in Nat
    BY <1>3 DEF OutcomeInv
  <2>9. CASE Top.item = 0
    <3>1. Records(outcomes') /\ Spared(frames, n - 1, outcomes, outcomes')
      BY <1>1, <2>8, <2>9 DEF Spared
    <3>2. Top.out # 0 => PartStores(Stores, q) = << >>
      <4>1. Top.out = 0 \/ Top.ve.outkey = None
        BY <1>1, <2>3, <2>9 DEF Rows
      <4> QED BY <2>3, <2>7, <4>1 DEF Own
    <3>3. Top.out # 0 => outcomes'[Top.out].dict = Dict(st[n] \o PartStores(Stores, q))
      BY <1>1, <2>3, <2>4, <2>9, <3>2
    <3> HIDE DEF v
    <3> QED BY <1>1, <2>1, <2>2, <2>8, <3>1, <3>3, StoresAll
  <2>10. CASE Top.item # 0
    <3> DEFINE os == Front(outcomes)
    <3>1. /\ Records(os) /\ Last(outcomes) = outcomes[Top.item]
          /\ Top.out = 0 \/ (Top.out \in DOMAIN os /\ os[Top.out] = outcomes[Top.out])
          /\ \A i \in 1..(n - 1) :
               /\ frames[i].out = 0 \/ frames[i].out \in DOMAIN os
               /\ frames[i].item = 0 \/ frames[i].item \in DOMAIN os
          /\ Spared(frames, n - 1, outcomes, os)
      BY <1>1, <2>3, <2>8, <2>10, Released
    <3>2. outcomes[Top.item].list = FlattenSeq(ItemRows(Stores, q))
      <4>1. outcomes[Top.item].list = FirstRows(q, Top.index)
        BY <1>1, <2>3, <2>10 DEF Rows
      <4> QED BY <1>1, <2>6, <4>1, FirstRowsGrow
    <3>3. outcomes' = AddOutcome(os, Top, v)
      BY <1>1, <2>10, <3>1, <3>2
    <3> HIDE DEF os, v
    <3>4. Records(outcomes')
      BY <3>1, <3>3, AddOutcomeEffect
    <3>5. Spared(frames, n - 1, outcomes, outcomes')
      <4>1. n - 1 \in Nat /\ n - 1 < Len(frames)
        BY <2>3
      <4>2. Spared(frames, n - 1, os, outcomes')
        BY <1>1, <2>2, <3>1, <3>3, <4>1, StoringSpares
      <4> QED BY <3>1, <4>2 DEF Spared
    <3>6. ASSUME Top.out # 0
          PROVE  outcomes'[Top.out].dict = Dict(st[n] \o PartStores(Stores, q))
      <4>1. os[Top.out].dict = Dict(st[n]) /\ Top.out \in DOMAIN os
        BY <2>4, <3>1, <3>6
      <4> QED BY <2>3, <2>7, <3>1, <3>3, <3>6, <4>1, OwnStored
    <3> QED BY <1>1, <2>1, <2>2, <2>8, <3>4, <3>5, <3>6, StoresAll
  <2> QED BY <2>9, <2>10
<1> QED BY <1>2, <1>3

\* The innermost call becomes f and calls for what a part stores, s2 being what
\* the outcome holds that it passes on.
LEMMA StoresCall ==
  ASSUME TypeOK, NEW g \in Seq(Ghost), NEW n \in Nat \ {0}, NEW q \in Question,
         Innermost(g, n, q), NEW st, Holds(g, st, frames, outcomes),
         NEW f \in Frame, f.out = Top.out,
         NEW c, NEW role, NEW v, NEW out, Call(f, c, role, v, out),
         Records(outcomes), outcomes' = outcomes, UNCHANGED <<root, input, reply>>,
         Shape(f) # "object" => Stored(f, q, st[n], outcomes), Rows(f, q, outcomes),
         NEW s2, IsStores(s2), Passes(f, q, st[n], out, s2),
         out # 0 => outcomes[out].dict = Dict(s2)
  PROVE  OutcomeInv'
PROOF
<1> DEFINE f1 == [f EXCEPT !.next = n + 1]
           h == IF f.json = None THEN NewFrame(c, role, v, None, out)
                ELSE NewFrame(c, role, None, v, out)
<1>1. /\ frames # << >> /\ Len(frames) = n /\ frames \in Seq(Frame)
      /\ q = g[n].q /\ Top = frames[n]
  BY DEF Innermost, TypeOK, Top
<1>2. frames' = Append([frames EXCEPT ![n] = f1], h)
  BY <1>1 DEF Call
<1>3. h.stage = "enter" /\ h.out = out
  BY DEF NewFrame
<1>4. /\ f1.ve = f.ve /\ f1.flag = f.flag /\ f1.tcl = f.tcl /\ f1.stage = f.stage
      /\ f1.pos = f.pos /\ f1.index = f.index /\ f1.out = f.out /\ f1.item = f.item
  BY DEF Frame, FrameRecord
<1> HIDE DEF f1, h
<1>5. Shape(f1) = Shape(f)
  BY <1>4 DEF Shape
<1>6. Given(f1, q) = Given(f, q)
  BY <1>4, <1>5 DEF Given
<1>7. Shape(f1) # "object" => Stored(f1, q, st[n], outcomes)
  BY <1>4, <1>5, <1>6 DEF Stored
<1>8. Rows(f1, q, outcomes)
  BY <1>4, <1>5 DEF Rows
<1>9. Passes(f1, q, st[n], h.out, s2)
  BY <1>3, <1>4, <1>5 DEF Passes
<1>10. \A p : Stored(h, p, s2, outcomes) /\ Rows(h, p, outcomes)
  <2>1. s2 \o << >> = s2
    BY JoinedStores
  <2> QED BY <1>3, <2>1 DEF Stored, Given, Rows
<1> DEFINE S == Frame \cup {f1, h}
<1>11. frames \in Seq(S) /\ f1 \in S /\ h \in S
  BY <1>1
<1> HIDE DEF S
<1>12. /\ Len(frames') = n + 1 /\ frames'[n] = f1 /\ frames'[n + 1] = h
       /\ \A k \in 1..(n - 1) : frames'[k] = frames[k]
       /\ frames' \in Seq(S)
  BY <1>1, <1>2, <1>11, PushOne
<1>13. frames' # << >> /\ Len(frames') \in Nat /\ n <= n /\ n <= Len(frames')
  BY <1>12
<1>14. \A fs2, g2 :
         /\ Len(fs2) = n + 1 /\ (\A k \in 1..(n - 1) : fs2[k] = frames[k])
         /\ fs2[n].out = frames[n].out
         /\ \A k \in 1..n : g2[k].q = g[k].q
         /\ Shape(fs2[n]) # "object" => Stored(fs2[n], g[n].q, st[n], outcomes)
         /\ Rows(fs2[n], g[n].q, outcomes)
         /\ Passes(fs2[n], g[n].q, st[n], fs2[n + 1].out, s2)
         /\ Stored(fs2[n + 1], g2[n + 1].q, s2, outcomes) /\ Rows(fs2[n + 1], g2[n + 1].q, outcomes)
         => \E st2 : Holds(g2, st2, fs2, outcomes)
  BY <1>1, CallHolds, ZenonT(60)
<1>15. frames'[n].out = frames[n].out
  BY <1>1, <1>4, <1>12
<1>16. /\ Shape(frames'[n]) # "object" => Stored(frames'[n], g[n].q, st[n], outcomes)
       /\ Rows(frames'[n], g[n].q, outcomes)
       /\ Passes(frames'[n], g[n].q, st[n], frames'[n + 1].out, s2)
  BY <1>1, <1>7, <1>8, <1>9, <1>12
<1>17. \A g2 : Stored(frames'[n + 1], g2[n + 1].q, s2, outcomes) /\ Rows(frames'[n + 1], g2[n + 1].q, outcomes)
  BY <1>10, <1>12
<1>18. \A g2 \in Seq(Ghost) :
         (\A k \in 1..n : g2[k].q = g[k].q) => \E st2 : Holds(g2, st2, frames', outcomes')
  BY <1>12, <1>14, <1>15, <1>16, <1>17
<1> QED BY <1>12, <1>13, <1>18, OutcomesFollow

LEMMA NextPropertyOutcome ==
  ASSUME TypeOK, Nested, ErrorsInv, OutcomeInv, NextProperty
  PROVE  OutcomeInv'
PROOF
<1> DEFINE c == Top.ve.children[Top.pos + 1]
           f == [Top EXCEPT !.pos = @ + 1]
<1>1. /\ frames # << >> /\ Top.stage = "loop" /\ Shape(Top) = "object"
      /\ Top.pos < Len(Top.ve.children)
      /\ \/ Report("required", c.key)
         \/ Property(Top, c) = None /\ SetTop(f) /\ errors' = errors
         \/ /\ Property(Top, c) # None /\ Call(f, c, "property", Property(Top, c), f.out)
            /\ errors' = errors
      /\ UNCHANGED <<root, input, reply>> /\ outcomes' = outcomes
  BY DEF NextProperty, At, Property
<1>2. CASE Report("required", c.key)
  <2> HIDE DEF c
  <2> QED BY <1>1, <1>2, ErrorReported
<1>3. CASE errors' = errors /\ errors # << >>
  BY <1>3, ErrorsReported
<1>4. ASSUME errors' = errors, errors = << >>,
             \/ Property(Top, c) = None /\ SetTop(f)
             \/ Property(Top, c) # None /\ Call(f, c, "property", Property(Top, c), f.out)
      PROVE  OutcomeInv'
  <2>1. PICK g \in Seq(Ghost), n \in Nat \ {0}, q \in Question :
          Innermost(g, n, q) /\ \E st : Holds(g, st, frames, outcomes)
    BY <1>1, <1>4, InnermostStores
  <2>2. PICK st : Holds(g, st, frames, outcomes)
    BY <2>1
  <2>3. /\ Top \in Frame /\ Asks(Top, q) /\ Len(frames) = n /\ Top.ve = q.ve
        /\ Top.out = 0 \/ Top.out \in DOMAIN outcomes
        /\ IsStores(st[n]) /\ Stored(Top, q, st[n], outcomes)
    BY <2>1, <2>2, InnermostStored
  <2>4. /\ Walks(q) /\ Top.json = Document(q) /\ Top.pos \in 0..Len(q.ve.children)
    BY <1>1, <2>3 DEF Asks
  <2>5. Property(Top, c) = Property(View(q), c)
    BY <1>1, <2>3, <2>4, SeesTheSame
  <2>6. /\ Len(q.ve.children) \in Nat /\ DOMAIN q.ve.children = 1..Len(q.ve.children)
    BY FirstStoresGrow
  <2>7. /\ Top.pos + 1 \in DOMAIN q.ve.children /\ c = q.ve.children[Top.pos + 1]
        /\ Top.pos + 1 <= Len(q.ve.children) /\ Top.pos + 1 \in Nat /\ (Top.pos + 1) - 1 = Top.pos
    BY <1>1, <2>3, <2>4, <2>6
  <2>8. /\ f \in Frame /\ f.stage = "loop" /\ f.out = Top.out /\ f.pos = Top.pos + 1
        /\ f.ve = Top.ve /\ f.tcl = Top.tcl /\ f.flag = Top.flag
    BY <1>1, <2>3, <2>7 DEF Frame, FrameRecord
  <2>9. \/ Property(View(q), c) = None /\ SetTop(f)
        \/ Property(View(q), c) # None /\ Call(f, c, "property", Property(Top, c), f.out)
    BY <1>4, <2>5
  <2> HIDE DEF f
  <2>10. Shape(f) = "object"
    BY <1>1, <2>8 DEF Shape
  <2> DEFINE s == FirstStores(q, Top.pos)
  <2>11. /\ Given(Top, q) = s /\ IsStores(s) /\ s \o << >> = s
         /\ Given(f, q) = s \o PropertyStores(Stores, q)[Top.pos + 1]
    <3>1. IsStores(FirstStores(q, Top.pos))
      BY <2>4, FirstStoresGrow
    <3>2. FirstStores(q, Top.pos + 1) = FirstStores(q, Top.pos) \o PropertyStores(Stores, q)[Top.pos + 1]
      BY <2>4, <2>7, FirstStoresGrow
    <3>3. s \o << >> = s
      BY <3>1, JoinedStores
    <3> QED BY <1>1, <2>8, <2>10, <3>1, <3>2, <3>3 DEF Given
  <2>12. Records(outcomes)
    BY <1>4 DEF OutcomeInv
  <2>13. Rows(f, q, outcomes)
    BY <2>10 DEF Rows
  <2>14. CASE Property(View(q), c) = None /\ SetTop(f)
    <3>1. PropertyStores(Stores, q)[Top.pos + 1] = << >>
      BY <2>7, <2>14 DEF PropertyStores
    <3>2. Stored(f, q, st[n], outcomes')
      BY <1>1, <2>3, <2>8, <2>11, <3>1 DEF Stored
    <3>3. Rows(f, q, outcomes')
      BY <1>1, <2>13
    <3>4. Records(outcomes') /\ Spared(frames, n - 1, outcomes, outcomes')
      BY <1>1, <2>12 DEF Spared
    <3> HIDE DEF c, s
    <3> QED BY <1>1, <2>1, <2>2, <2>8, <2>14, <3>2, <3>3, <3>4, StoresOn
  <2>15. CASE Call(f, c, "property", Property(Top, c), f.out)
    <3> DEFINE v == Property(Top, c)
               s2 == st[n] \o s
    <3>1. Call(f, c, "property", v, f.out)
      BY <2>15
    <3>2. IsStores(s2)
      BY <2>3, <2>11, StoresJoin
    <3>3. Passes(f, q, st[n], f.out, s2)
      BY <2>7, <2>8, <2>10 DEF Passes
    <3>4. f.out # 0 => outcomes[f.out].dict = Dict(s2)
      BY <2>3, <2>8, <2>11 DEF Stored
    <3> HIDE DEF c, v, s, s2
    <3> QED BY <1>1, <2>1, <2>2, <2>8, <2>10, <2>12, <2>13, <3>1, <3>2, <3>3, <3>4, StoresCall
  <2> QED BY <2>9, <2>14, <2>15
<1> HIDE DEF c, f
<1> QED BY <1>1, <1>2, <1>3, <1>4

LEMMA NextItemOutcome ==
  ASSUME TypeOK, Nested, ItemsStartAfresh, ErrorsInv, OutcomeInv, NextItem
  PROVE  OutcomeInv'
PROOF
<1> DEFINE c == Top.ve.children[1]
           v == Items(Top)[Top.index + 1]
<1>1. /\ frames # << >> /\ Top.stage = "loop" /\ Shape(Top) = "array"
      /\ Call(Top, c, "item", v, Top.item)
      /\ errors' = errors /\ UNCHANGED <<root, input, reply>> /\ outcomes' = outcomes
  BY DEF NextItem, At
<1> HIDE DEF c, v
<1>2. CASE errors # << >>
  BY <1>1, <1>2, ErrorsReported
<1>3. CASE errors = << >>
  <2>1. PICK g \in Seq(Ghost), n \in Nat \ {0}, q \in Question :
          Innermost(g, n, q) /\ \E st : Holds(g, st, frames, outcomes)
    BY <1>1, <1>3, InnermostStores
  <2>2. PICK st : Holds(g, st, frames, outcomes)
    BY <2>1
  <2>3. Top \in Frame /\ Stored(Top, q, st[n], outcomes) /\ Rows(Top, q, outcomes)
    BY <2>1, <2>2, InnermostStored
  <2>4. Passes(Top, q, st[n], Top.item, << >>)
    BY <1>1 DEF Passes
  <2>5. IsStores(<< >>) /\ (Top.item # 0 => outcomes[Top.item].dict = Dict(<< >>))
    BY <1>1, DictOfNothing DEF ItemsStartAfresh
  <2>6. Records(outcomes)
    BY <1>3 DEF OutcomeInv
  <2> QED BY <1>1, <2>1, <2>2, <2>3, <2>4, <2>5, <2>6, StoresCall
<1> QED BY <1>2, <1>3

\* A call that ends has stored all that its question stores, with the text of a json.
LEMMA TextStored ==
  ASSUME TypeOK, Nested, errors = << >>, Records(outcomes),
         NEW g \in Seq(Ghost), NEW n \in Nat \ {0}, NEW q \in Question, Innermost(g, n, q),
         NEW st, Holds(g, st, frames, outcomes), Top.stage = "leave"
  PROVE  LET os == IF Top.ve.type = "json" /\ Top.tcl # None /\ Top.json # None
                     THEN AddOutcome(outcomes, Top, <<"tcl", Top.tcl>>) ELSE outcomes
         IN  /\ Records(os) /\ DOMAIN os = DOMAIN outcomes
             /\ Spared(frames, n - 1, outcomes, os)
             /\ Top.out # 0 => os[Top.out].dict = Dict(st[n] \o Stores[q])
PROOF
<1> DEFINE text == Top.ve.type = "json" /\ Top.tcl # None /\ Top.json # None
           v == <<"tcl", q.tcl>>
           s == PartStores(Stores, q)
           a == st[n]
<1>1. /\ Top \in Frame /\ Asks(Top, q) /\ Len(frames) = n /\ Top.ve = q.ve
      /\ Top.out = 0 \/ Top.out \in DOMAIN outcomes
      /\ IsStores(a) /\ Stored(Top, q, a, outcomes)
  BY InnermostStored
<1>2. Top.json = Document(q) /\ Top.tcl = q.tcl
  BY <1>1 DEF Asks
<1>3. Violations[q] = << >>
  <2>1. errors = g[n].before \o Violations[q] /\ g[n].before \in Seq(Message)
    BY DEF Innermost, Found
  <2>2. Violations[q] \in Seq(Message)
    BY ViolationsType
  <2>3. \A x, y \in Seq(Message) : x \o y = << >> => y = << >>
    OBVIOUS
  <2> QED BY <2>1, <2>2, <2>3
<1>4. text <=> q.ve.type = "json" /\ q.json = None
  <2>1. ~Unparsed(q)
    <3>1. Unparsed(q) => Violations[q] = Wrong(q, "type", None)
      BY ViolationsDefined DEF ErrorsOf
    <3>2. Wrong(q, "type", None) # << >>
      BY DEF Wrong
    <3> QED BY <1>3, <3>1, <3>2
  <2>2. q.tcl = None <=> q.json # None
    BY ViewType
  <2>3. q.ve.type = "json" => Document(q) # None
    BY <2>1 DEF Unparsed
  <2> QED BY <1>1, <1>2, <2>2, <2>3
<1>5. IsStores(s)
  BY StoresType, StoresOfType
<1>6. Stores[q] = s \o (IF text THEN Own(q, v) ELSE << >>)
  BY <1>4, StoresDefined DEF StoresOf
<1>7. Top.out # 0 => outcomes[Top.out].dict = Dict(a \o s)
  BY <1>1 DEF Stored, Given
<1> HIDE DEF v, s, a
<1>8. IsStores(a \o s) /\ s \o << >> = s
  <2>1. IsStores(a \o s)
    BY <1>1, <1>5, StoresJoin
  <2>2. s \o << >> = s
    BY <1>5, JoinedStores
  <2> QED BY <2>1, <2>2
<1>9. CASE ~text
  <2>1. Spared(frames, n - 1, outcomes, outcomes)
    BY DEF Spared
  <2>2. Stores[q] = s
    BY <1>6, <1>8, <1>9
  <2> QED BY <1>7, <1>9, <2>1, <2>2 DEF a
<1>10. CASE text
  <2> DEFINE os == AddOutcome(outcomes, Top, <<"tcl", Top.tcl>>)
  <2>1. os = AddOutcome(outcomes, Top, v)
    BY <1>2 DEF v
  <2>2. Records(os) /\ DOMAIN os = DOMAIN outcomes
    BY <1>1, AddOutcomeEffect
  <2>3. Spared(frames, n - 1, outcomes, os)
    <3>1. n - 1 \in Nat /\ n - 1 < Len(frames) /\ \A i \in 1..(n - 1) : i \in DOMAIN frames
      BY <1>1 DEF TypeOK
    <3>2. frames # << >>
      BY DEF Innermost
    <3> HIDE DEF os
    <3> QED BY <1>1, <2>1, <3>1, <3>2, Pointers, StoringSpares
  <2>4. ASSUME Top.out # 0 PROVE os[Top.out].dict = Dict(a \o Stores[q])
    <3> HIDE DEF os
    <3>1. os[Top.out].dict = Dict((a \o s) \o Own(q, v))
      BY <1>1, <1>7, <1>8, <2>1, <2>4, OwnStored
    <3>2. (a \o s) \o Own(q, v) = a \o (s \o Own(q, v))
      BY <1>1, <1>5, StoresThenOwn
    <3> QED BY <1>6, <1>10, <3>1, <3>2
  <2> HIDE DEF os
  <2>5. (IF text THEN os ELSE outcomes) = os
    BY <1>10
  <2> QED BY <1>10, <2>2, <2>3, <2>4, <2>5 DEF a, os
<1> QED BY <1>9, <1>10

\* The command's outcome when its only call ends.
LEMMA LastLeaves ==
  ASSUME TypeOK, Nested, OutcomeInv, errors = << >>, errors' = errors, UNCHANGED <<root, input, reply>>,
         NEW g \in Seq(Ghost), NEW q \in Question, Innermost(g, 1, q),
         NEW st, Holds(g, st, frames, outcomes), Top.stage = "leave", frames' = << >>,
         outcomes' = IF Top.ve.type = "json" /\ Top.tcl # None /\ Top.json # None
                     THEN AddOutcome(outcomes, Top, <<"tcl", Top.tcl>>) ELSE outcomes
  PROVE  OutcomeInv'
PROOF
<1>1. /\ Records(outcomes')
      /\ Top.out # 0 => outcomes'[Top.out].dict = Dict(st[1] \o Stores[q])
  <2>1. Records(outcomes)
    BY DEF OutcomeInv
  <2>2. 1 \in Nat \ {0}
    OBVIOUS
  <2> QED BY <2>1, <2>2, TextStored
<1>2. frames[1].out = 1 /\ st[1] = << >> /\ Top = frames[1]
  BY DEF Holds, Innermost, Top
<1>3. q = TheQuestion /\ TheQuestion' = TheQuestion
  BY DEF Innermost, Follows, TheQuestion
<1>4. << >> \o Stores[q] = Stores[q]
  BY StoresType, JoinedStores
<1>5. outcomes'[1].dict = Dict(Stores[TheQuestion])
  <2>1. Dict(st[1] \o Stores[q]) = Dict(Stores[TheQuestion])
    BY <1>2, <1>3, <1>4
  <2>2. Top.out = 1
    BY <1>2
  <2> QED BY <1>1, <2>1, <2>2
<1>6. reply' = None
  BY DEF Innermost
<1> QED BY <1>1, <1>3, <1>5, <1>6 DEF OutcomeInv

\* The caller of the call that ends has what that one stored, or has it among
\* the dictionaries of its items.
LEMMA CallerStores ==
  ASSUME TypeOK, Quiet, Nested, Records(outcomes),
         NEW m \in Nat \ {0}, Len(frames) = m + 1, NEW g, NEW st, Holds(g, st, frames, outcomes),
         NEW q \in Question, q = g[m].q, NEW p \in Question, Asks(frames[m], q), Waits(frames[m], q, p),
         NEW os, Records(os), DOMAIN os = DOMAIN outcomes, Spared(frames, m, outcomes, os),
         frames[m + 1].out # 0 => os[frames[m + 1].out].dict = Dict(st[m + 1] \o Stores[p]),
         frames[m + 1].out = 0 => os = outcomes,
         NEW f, f.ve = frames[m].ve, f.tcl = frames[m].tcl, f.flag = frames[m].flag,
         f.stage = "loop", f.out = frames[m].out, f.item = frames[m].item, f.pos = frames[m].pos,
         Shape(frames[m]) # "object" => f.index = frames[m].index + 1
  PROVE  LET os2 == Collect(os, frames[m].item) IN
         /\ Records(os2) /\ Spared(frames, m - 1, outcomes, os2)
         /\ Stored(f, q, st[m], os2) /\ Rows(f, q, os2)
PROOF
<1> DEFINE caller == frames[m]
           os2 == Collect(os, frames[m].item)
<1>1. m \in 1..Len(frames) /\ m \in 1..(Len(frames) - 1) /\ m # Len(frames) /\ m \in 1..m
      /\ m \in DOMAIN frames /\ DOMAIN frames = 1..(m + 1)
  BY DEF TypeOK
<1>2. /\ IsStores(st[m]) /\ Rows(frames[m], q, outcomes)
      /\ Shape(frames[m]) # "object" => Stored(frames[m], q, st[m], outcomes)
      /\ Passes(frames[m], q, st[m], frames[m + 1].out, st[m + 1])
  BY <1>1 DEF Holds
<1>3. Shape(f) = Shape(caller) /\ caller.stage = "loop"
  BY DEF Shape, Waits
<1>4. IsStores(Stores[p])
  BY StoresType
<1>5. CASE Shape(frames[m]) = "object"
  <2>1. frames[m].item = 0
    BY <1>1, <1>5 DEF Quiet, Settled
  <2>2. os2 = os
    BY <2>1 DEF Collect
  <2>3. Spared(frames, m - 1, outcomes, os)
    BY DEF Spared
  <2>4. Rows(f, q, os)
    BY <1>3, <1>5 DEF Rows
  <2>5. frames[m + 1].out = frames[m].out /\ st[m + 1] = st[m] \o FirstStores(q, frames[m].pos - 1)
    BY <1>2, <1>5 DEF Passes
  <2>6. /\ frames[m].pos \in 1..Len(q.ve.children) /\ p = AskProperty(q, frames[m].pos)
        /\ Property(View(q), q.ve.children[frames[m].pos]) # None
    BY <1>5 DEF Waits
  <2>7. PICK k \in Nat : k = frames[m].pos - 1 /\ k + 1 = frames[m].pos /\ k \in 0..Len(q.ve.children)
                         /\ k + 1 <= Len(q.ve.children)
    <3>1. Len(q.ve.children) \in Nat
      BY FirstStoresGrow
    <3> QED BY <2>6, <3>1
  <2>8. PropertyStores(Stores, q)[k + 1] = Stores[p]
    <3>1. k + 1 \in DOMAIN q.ve.children
      BY <2>6, <2>7, FirstStoresGrow
    <3> QED BY <2>6, <2>7, <3>1 DEF PropertyStores
  <2>9. FirstStores(q, k + 1) = FirstStores(q, k) \o Stores[p] /\ IsStores(FirstStores(q, k))
    BY <2>7, <2>8, FirstStoresGrow
  <2>10. Given(f, q) = FirstStores(q, k) \o Stores[p]
    BY <1>3, <1>5, <2>7, <2>9 DEF Given
  <2>11. (st[m] \o FirstStores(q, k)) \o Stores[p] = st[m] \o (FirstStores(q, k) \o Stores[p])
    <3> DEFINE a == st[m]
               b == FirstStores(q, k)
               c == Stores[p]
    <3>1. IsStores(a) /\ IsStores(b) /\ IsStores(c)
      BY <1>2, <1>4, <2>9
    <3> HIDE DEF a, b, c
    <3> DEFINE S == ToSet(a) \cup ToSet(b) \cup ToSet(c)
    <3>2. a \in Seq(S) /\ b \in Seq(S) /\ c \in Seq(S)
      BY <3>1, StoresElements
    <3> HIDE DEF S
    <3>3. (a \o b) \o c = a \o (b \o c)
      BY <3>2
    <3> QED BY <3>3 DEF a, b, c
  <2>12. Stored(f, q, st[m], os)
    <3>1. ASSUME f.out # 0 PROVE os[f.out].dict = Dict(st[m] \o Given(f, q))
      <4>1. os[f.out].dict = Dict((st[m] \o FirstStores(q, k)) \o Stores[p])
        BY <2>5, <2>7, <3>1
      <4> QED BY <2>10, <2>11, <4>1
    <3> QED BY <3>1 DEF Stored
  <2> QED BY <2>2, <2>3, <2>4, <2>12
<1>6. CASE Shape(frames[m]) # "object"
  <2>1. frames[m + 1].out = frames[m].item /\ st[m + 1] = << >>
    BY <1>2, <1>6 DEF Passes
  <2>2. /\ Shape(frames[m]) # "object" /\ frames[m].out # 0
             => os[frames[m].out].dict = outcomes[frames[m].out].dict
        /\ frames[m].item # 0 => os[frames[m].item].list = outcomes[frames[m].item].list
    BY <1>1 DEF Spared
  <2>3. Given(f, q) = << >> /\ Given(frames[m], q) = << >>
    BY <1>3, <1>6 DEF Given
  <2>4. frames[m].item = 0 \/ frames[m].item \in DOMAIN os
    BY <1>1, Pointers
  <2>5. frames[m].out = 0 \/ frames[m].out \in DOMAIN os
    BY <1>1, Pointers
  <2>6. /\ Records(os2)
        /\ \A l \in DOMAIN os : frames[m].item = 0 \/ l # frames[m].item => os2[l] = os[l]
        /\ frames[m].item # 0 =>
             os2[frames[m].item].list =
               IF os[frames[m].item].dict = Empty THEN os[frames[m].item].list
               ELSE Append(os[frames[m].item].list, os[frames[m].item].dict)
    BY <2>4, CollectEffect
  <2> HIDE DEF os2
  <2>7. ASSUME NEW i \in 1..m
        PROVE  /\ frames[i].out # 0 => os2[frames[i].out] = os[frames[i].out]
               /\ i # m /\ frames[i].item # 0 => os2[frames[i].item] = os[frames[i].item]
    <3>1. i \in DOMAIN frames /\ i <= m
      BY <1>1
    <3>2. frames[m].item # 0 =>
            frames[i].out # frames[m].item /\ (i # m => frames[i].item # frames[m].item)
      BY <1>1, <3>1, ItemIsApart
    <3>3. /\ frames[i].out = 0 \/ frames[i].out \in DOMAIN os
          /\ frames[i].item = 0 \/ frames[i].item \in DOMAIN os
      BY <3>1, Pointers
    <3> QED BY <2>6, <3>2, <3>3
  <2>8. Spared(frames, m - 1, outcomes, os2)
    <3>1. \A i \in 1..(m - 1) : i \in 1..m /\ i # m
      OBVIOUS
    <3> QED BY <2>7, <3>1 DEF Spared
  <2>9. Stored(f, q, st[m], os2)
    <3>1. Stored(frames[m], q, st[m], outcomes)
      BY <1>2, <1>6
    <3>2. frames[m].out # 0 => os2[frames[m].out].dict = outcomes[frames[m].out].dict
      BY <1>1, <1>6, <2>2, <2>7
    <3> QED BY <2>3, <3>1, <3>2 DEF Stored
  <2>10. CASE frames[m].item = 0
    <3>1. f.out = 0 \/ f.ve.outkey = None
      BY <1>2, <1>3, <1>6, <2>10 DEF Rows
    <3>2. Rows(f, q, os2)
      BY <2>10, <3>1 DEF Rows
    <3> QED BY <2>6, <2>8, <2>9, <3>2 DEF os2
  <2>11. CASE frames[m].item # 0
    <3>1. outcomes[frames[m].item].list = FirstRows(q, frames[m].index)
      BY <1>2, <1>3, <1>6, <2>11 DEF Rows
    <3>2. frames[m].index \in 0..(Len(Items(View(q))) - 1) /\ p = AskItem(q, frames[m].index + 1)
      BY <1>6 DEF Waits
    <3>3. PICK k \in Nat : k = frames[m].index /\ k \in 0..Len(Items(View(q)))
                           /\ k + 1 <= Len(Items(View(q)))
      <4>1. Len(Items(View(q))) \in Nat
        BY FirstRowsGrow
      <4> QED BY <3>2, <4>1
    <3> DEFINE d == Dict(Stores[p])
    <3>4. ItemRows(Stores, q)[k + 1] = IF d = Empty THEN << >> ELSE <<d>>
      <4>1. k + 1 \in DOMAIN Items(View(q))
        BY <3>3, FirstRowsGrow
      <4> QED BY <3>2, <3>3, <4>1 DEF ItemRows
    <3>5. /\ FirstRows(q, k + 1) = FirstRows(q, k) \o ItemRows(Stores, q)[k + 1]
          /\ FirstRows(q, k) \in Seq(ToSet(FirstRows(q, k)))
      BY <3>3, FirstRowsGrow
    <3>6. os[frames[m].item].dict = d
      <4>1. << >> \o Stores[p] = Stores[p]
        BY <1>4, JoinedStores
      <4> QED BY <2>1, <2>11, <4>1
    <3> HIDE DEF d
    <3>7. FirstRows(q, k + 1) = IF d = Empty THEN FirstRows(q, k) ELSE Append(FirstRows(q, k), d)
      <4> DEFINE r == FirstRows(q, k)
      <4>1. r \in Seq(ToSet(r))
        BY <3>5
      <4> HIDE DEF r
      <4>2. r \o << >> = r /\ r \o <<d>> = Append(r, d)
        BY <4>1, ConcatEmptySeq
      <4> QED BY <3>4, <3>5, <4>2 DEF r
    <3>8. os2[frames[m].item].list = FirstRows(q, k + 1)
      BY <2>2, <2>6, <2>11, <3>1, <3>3, <3>6, <3>7
    <3>9. Rows(f, q, os2)
      BY <1>6, <2>11, <3>3, <3>8 DEF Rows
    <3> QED BY <2>6, <2>8, <2>9, <3>9 DEF os2
  <2> QED BY <2>10, <2>11
<1> QED BY <1>5, <1>6

LEMMA LeaveOutcome ==
  ASSUME TypeOK, Quiet, Nested, ErrorsInv, OutcomeInv, Leave
  PROVE  OutcomeInv'
PROOF
<1> DEFINE turned(m) == [frames[m] EXCEPT !.next = 0,
                           !.index = IF Shape(frames[m]) = "array" THEN @ + 1 ELSE @]
           os == IF Top.ve.type = "json" /\ Top.tcl # None /\ Top.json # None
                   THEN AddOutcome(outcomes, Top, <<"tcl", Top.tcl>>) ELSE outcomes
<1>1. /\ frames # << >> /\ Top.stage = "leave" /\ frames \in Seq(Frame)
      /\ errors' = errors /\ UNCHANGED <<root, input, reply>>
  BY DEF Leave, At, TypeOK
<1>2. CASE errors # << >>
  BY <1>1, <1>2, ErrorsReported
<1>3. ASSUME errors = << >> PROVE OutcomeInv'
  <2>1. PICK g \in Seq(Ghost), n \in Nat \ {0}, q \in Question :
          Innermost(g, n, q) /\ \E st : Holds(g, st, frames, outcomes)
    BY <1>1, <1>3, InnermostStores
  <2>2. PICK st : Holds(g, st, frames, outcomes)
    BY <2>1
  <2>3. Len(frames) = n /\ Len(g) = n /\ q = g[n].q /\ Follows(g, frames, errors, TheQuestion)
    BY <2>1 DEF Innermost
  <2>4. \/ n = 1 /\ frames' = << >> /\ outcomes' = os
        \/ /\ n # 1 /\ frames' = [Front(frames) EXCEPT ![n - 1] = turned(n - 1)]
           /\ outcomes' = Collect(os, frames[n - 1].item)
    <3>1. \/ Len(frames) - 1 = 0 /\ frames' = << >> /\ outcomes' = os
          \/ /\ Len(frames) - 1 > 0
             /\ frames' = [Front(frames) EXCEPT ![Len(frames) - 1] = turned(Len(frames) - 1)]
             /\ outcomes' = Collect(os, frames[Len(frames) - 1].item)
      BY DEF Leave
    <3>2. (Len(frames) - 1 = 0 => n = 1) /\ (Len(frames) - 1 > 0 => n # 1)
      BY <2>3
    <3> HIDE DEF turned, os
    <3> QED BY <2>3, <3>1, <3>2
  <2>5. CASE n = 1 /\ frames' = << >> /\ outcomes' = os
    <3>1. Innermost(g, 1, q)
      BY <2>1, <2>5
    <3> QED BY <1>1, <1>3, <2>2, <2>5, <3>1, LastLeaves
  <2>6. ASSUME n # 1, frames' = [Front(frames) EXCEPT ![n - 1] = turned(n - 1)],
               outcomes' = Collect(os, frames[n - 1].item)
        PROVE  OutcomeInv'
    <3>1. PICK m \in Nat \ {0} : m = n - 1 /\ m + 1 = n
      <4>1. n - 1 \in Nat \ {0} /\ (n - 1) + 1 = n
        BY <2>6
      <4> QED BY <4>1
    <3>2. m \in 1..n /\ m + 1 \in 1..n /\ m \in 1..(n - 1) /\ m <= n /\ Top = frames[m + 1]
      BY <2>3, <3>1 DEF Top
    <3> DEFINE p == g[m].q
    <3>3. Asks(frames[m], p) /\ Waits(frames[m], p, q) /\ p \in Question /\ frames[m] \in Frame
      <4>1. Asks(frames[m], p) /\ Waits(frames[m], p, q)
        BY <2>3, <3>1, <3>2 DEF Follows
      <4>2. p \in Question
        BY <2>3, <3>2, GhostType
      <4>3. frames[m] \in Frame
        BY <1>1, <2>3, <3>2, ElementOfSeq
      <4> QED BY <4>1, <4>2, <4>3
    <3>4. Shape(frames[m]) # "object" => Shape(frames[m]) = "array"
      BY <3>3, SeesTheSame DEF Waits, Asks, Walks
    <3> DEFINE f == turned(m)
    <3>5. /\ f.ve = frames[m].ve /\ f.tcl = frames[m].tcl /\ f.flag = frames[m].flag
          /\ f.stage = "loop" /\ f.out = frames[m].out /\ f.item = frames[m].item
          /\ f.pos = frames[m].pos
          /\ Shape(frames[m]) # "object" => f.index = frames[m].index + 1
      BY <3>3, <3>4 DEF Frame, FrameRecord, Waits
    <3>6. frames' = [Front(frames) EXCEPT ![m] = f] /\ outcomes' = Collect(os, frames[m].item)
      BY <2>6, <3>1
    <3>7. /\ Records(outcomes) /\ Records(os) /\ DOMAIN os = DOMAIN outcomes
          /\ Spared(frames, m, outcomes, os)
          /\ frames[m + 1].out # 0 => os[frames[m + 1].out].dict = Dict(st[m + 1] \o Stores[q])
      <4>1. Records(outcomes)
        BY <1>3 DEF OutcomeInv
      <4>2. /\ Records(os) /\ DOMAIN os = DOMAIN outcomes
            /\ Spared(frames, n - 1, outcomes, os)
            /\ Top.out # 0 => os[Top.out].dict = Dict(st[n] \o Stores[q])
        BY <1>1, <1>3, <2>1, <2>2, <4>1, TextStored
      <4> HIDE DEF os
      <4> QED BY <3>1, <3>2, <4>1, <4>2
    <3>8. frames[m + 1].out = 0 => os = outcomes
      BY <3>2 DEF AddOutcome
    <3> HIDE DEF f, os, p
    <3>9. /\ Records(outcomes') /\ Spared(frames, m - 1, outcomes, outcomes')
          /\ Stored(f, p, st[m], outcomes') /\ Rows(f, p, outcomes')
      <4>1. Len(frames) = m + 1 /\ p = g[m].q
        BY <2>3, <3>1 DEF p
      <4> QED BY <2>2, <3>3, <3>5, <3>6, <3>7, <3>8, <4>1, CallerStores
    <3> DEFINE S == Frame \cup {f}
    <3>10. frames \in Seq(S) /\ f \in S
      BY <1>1
    <3> HIDE DEF S
    <3>11. /\ Front(frames) \in Seq(S) /\ Len(Front(frames)) = m
           /\ \A k \in 1..m : Front(frames)[k] = frames[k]
      BY <1>1, <2>3, <3>1, <3>10, FrontOf
    <3>12. /\ Len(frames') = m /\ frames'[m] = f
           /\ \A k \in DOMAIN Front(frames) : k # m => frames'[k] = Front(frames)[k]
      <4>1. m \in DOMAIN Front(frames)
        BY <3>11
      <4> QED BY <3>6, <3>10, <3>11, <4>1, ChangeOne
    <3>13. \A k \in 1..(m - 1) : frames'[k] = frames[k]
      <4>1. DOMAIN Front(frames) = 1..m
        BY <3>11
      <4>2. \A k \in 1..(m - 1) : k \in 1..m /\ k # m
        OBVIOUS
      <4> QED BY <3>11, <3>12, <4>1, <4>2
    <3>14. frames' # << >> /\ Len(frames') \in Nat /\ m <= Len(frames')
      <4>1. frames' # << >>
        BY <3>12
      <4> QED BY <3>12, <4>1
    <3>15. \A fs2, os2, g2 :
             /\ Len(fs2) = m /\ (\A k \in 1..(m - 1) : fs2[k] = frames[k])
             /\ fs2[m].out = frames[m].out
             /\ \A k \in 1..m : g2[k].q = g[k].q
             /\ Spared(frames, m - 1, outcomes, os2)
             /\ Stored(fs2[m], g[m].q, st[m], os2) /\ Rows(fs2[m], g[m].q, os2)
             => Holds(g2, st, fs2, os2)
      <4>1. Len(frames) \in Nat /\ m <= Len(frames)
        BY <2>3, <3>2
      <4> QED BY <2>2, <4>1, StillHolds, ZenonT(60)
    <3>16. /\ Stored(frames'[m], g[m].q, st[m], outcomes') /\ Rows(frames'[m], g[m].q, outcomes')
           /\ frames'[m].out = frames[m].out
      BY <3>5, <3>9, <3>12 DEF p
    <3>17. \A g2 \in Seq(Ghost) :
             (\A k \in 1..m : g2[k].q = g[k].q) => Holds(g2, st, frames', outcomes')
      BY <3>9, <3>12, <3>13, <3>15, <3>16
    <3> QED BY <1>1, <2>1, <3>2, <3>9, <3>13, <3>14, <3>17, OutcomesFollow
  <2> QED BY <2>4, <2>5, <2>6
<1> QED BY <1>2, <1>3

\* A command that starts has stored nothing.
LEMMA BeginsEmpty ==
  ASSUME NEW r, NEW v, NEW g, NEW q0,
         NEW fs, fs = <<NewFrame(r, "root", v, None, 1)>>, NEW os, os = <<NewOutcome>>
  PROVE  Records(os) /\ \E st : Holds(g, st, fs, os)
PROOF
<1>1. /\ Len(fs) = 1 /\ fs[1].out = 1 /\ fs[1].stage = "enter" /\ Len(os) = 1 /\ DOMAIN os = {1}
      /\ os[1].dict = Empty /\ DOMAIN os[1] = {"dict", "list"}
  BY DEF NewFrame, NewOutcome
<1> DEFINE st == << << >> >>
<1>2. st[1] = << >>
  OBVIOUS
<1> HIDE DEF st
<1>3. Records(os)
  BY <1>1 DEF Records
<1>4. IsStores(st[1]) /\ Dict(<< >>) = Empty
  BY <1>2, DictOfNothing
<1>5. Stored(fs[1], g[1].q, st[1], os)
  <2>1. Given(fs[1], g[1].q) = << >>
    BY <1>1 DEF Given
  <2>2. << >> \o << >> = << >>
    OBVIOUS
  <2> QED BY <1>1, <1>2, <1>4, <2>1, <2>2 DEF Stored
<1>6. Rows(fs[1], g[1].q, os)
  BY <1>1 DEF Rows
<1>7. \A i \in 1..1 : i = 1
  OBVIOUS
<1>8. \A i \in 1..(1 - 1) : FALSE
  OBVIOUS
<1>9. Holds(g, st, fs, os)
  BY <1>1, <1>2, <1>4, <1>5, <1>6, <1>7, <1>8 DEF Holds
<1> QED BY <1>3, <1>9

LEMMA InitOutcome ==
  ASSUME Init
  PROVE  OutcomeInv
PROOF
<1>1. frames = <<NewFrame(root, "root", input, None, 1)>> /\ outcomes = <<NewOutcome>> /\ reply = None
  BY DEF Init
<1>2. Records(outcomes) /\ \A g \in Seq(Ghost) : \E st : Holds(g, st, frames, outcomes)
  BY <1>1, BeginsEmpty
<1>3. frames # << >>
  BY <1>1
<1> QED BY <1>1, <1>2, <1>3 DEF OutcomeInv

LEMMA AgainOutcome ==
  ASSUME Again
  PROVE  OutcomeInv'
PROOF
<1>1. /\ frames' = <<NewFrame(root, "root", input', None, 1)>> /\ outcomes' = <<NewOutcome>>
      /\ reply' = None
  BY DEF Again
<1>2. Records(outcomes') /\ \A g \in Seq(Ghost) : \E st : Holds(g, st, frames', outcomes')
  BY <1>1, BeginsEmpty
<1>3. frames' # << >>
  BY <1>1
<1> QED BY <1>1, <1>2, <1>3 DEF OutcomeInv

LEMMA ReplyOutcome ==
  ASSUME OutcomeInv, Reply
  PROVE  OutcomeInv'
PROOF
<1>1. /\ frames = << >> /\ frames' = frames /\ errors' = errors /\ outcomes' = outcomes
      /\ errors = << >> => reply' = <<"outcome", outcomes[1].dict>>
      /\ TheQuestion' = TheQuestion
  BY DEF Reply, TheQuestion
<1> QED BY <1>1 DEF OutcomeInv

\* Every step keeps what is stored.
LEMMA NextOutcomeInv == IInv /\ ErrorsInv /\ OutcomeInv /\ [Next]_vars => OutcomeInv'
PROOF
<1> SUFFICES ASSUME IInv, ErrorsInv, OutcomeInv, [Next]_vars PROVE OutcomeInv'
  OBVIOUS
<1>1. TypeOK /\ Quiet /\ Nested /\ ItemsStartAfresh
  BY DEF IInv
<1>2. CASE ParseJson
  BY <1>1, <1>2, ParseJsonOutcome
<1>3. CASE Accept
  BY <1>1, <1>3, AcceptOutcome
<1>4. CASE ValidateScalar
  BY <1>1, <1>4, ValidateScalarOutcome
<1>5. CASE EnterObject
  BY <1>1, <1>5, EnterObjectOutcome
<1>6. CASE NextProperty
  BY <1>1, <1>6, NextPropertyOutcome
<1>7. CASE LeaveObject
  BY <1>1, <1>7, LeaveObjectOutcome
<1>8. CASE EnterArray
  BY <1>1, <1>8, EnterArrayOutcome
<1>9. CASE NextItem
  BY <1>1, <1>9, NextItemOutcome
<1>10. CASE LeaveArray
  BY <1>1, <1>10, LeaveArrayOutcome
<1>11. CASE Leave
  BY <1>1, <1>11, LeaveOutcome
<1>12. CASE Reply
  BY <1>12, ReplyOutcome
<1>13. CASE Again
  BY <1>13, AgainOutcome
<1>14. CASE UNCHANGED vars
  <2>1. /\ frames' = frames /\ errors' = errors /\ TheQuestion' = TheQuestion
        /\ outcomes' = outcomes /\ reply' = reply
    BY <1>14 DEF vars, TheQuestion
  <2> QED BY <2>1 DEF OutcomeInv
<1> QED BY <1>2, <1>3, <1>4, <1>5, <1>6, <1>7, <1>8, <1>9, <1>10, <1>11, <1>12, <1>13, <1>14
        DEF Next, Step

\* A validation without errors returns exactly what the schema says its value
\* stores: each valid value that has an outkey under that key list, a later one
\* in the place of an earlier one, and for an array with an outkey the list of
\* the dictionaries of its items, none of which reaches another item's or the
\* command's (ADD_OUTCOME and the item_outcome of tjvValidateTcl.c:83-118).
THEOREM OutcomeExact == Spec => []OutcomeIsExact
PROOF
<1>1. Init => OutcomeInv /\ ErrorsInv
  BY InitOutcome, InitErrors
<1>2. IInv /\ ErrorsInv /\ OutcomeInv /\ [Next]_vars => OutcomeInv' /\ ErrorsInv'
  BY NextOutcomeInv, NextErrors
<1>3. ErrorsInv /\ OutcomeInv => OutcomeIsExact
  BY DEF ErrorsInv, OutcomeInv, OutcomeIsExact
<1> QED BY <1>1, <1>2, <1>3, Inductive, PTL DEF Spec

=============================================================================
