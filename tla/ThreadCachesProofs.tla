------------------------- MODULE ThreadCachesProofs -------------------------
(***************************************************************************)
(* Proofs about ThreadCaches, for any number of threads, types, elements   *)
(* and objects.  Two arguments that hardly meet: the mutex and the flag    *)
(* make the procedures registered once (Locked, Listed), and every cache   *)
(* and element has a reference to what it points at (CachesHold,           *)
(* ElementsHold, OnlyCached).  Released joins them: the thread that        *)
(* registered the release of patterns has it still to do, or has done it   *)
(* and compiles no more.                                                   *)
(***************************************************************************)
EXTENDS ThreadCaches, SeqLemmas

\* Who is between lock and unlock has the mutex, and registers only what no
\* one has registered; a load that has begun is one of those the bound allows.
Locked ==
  \A t \in Thread :
    /\ pc[t] \in {"lock", "check", "register", "unlock"} => loads[t] < MaxLoads
    /\ pc[t] \in {"check", "register", "unlock"} => mutex[file[t]] = t
    /\ pc[t] = "register" => ~ initialized[file[t]]

\* What runs at a thread's exit was registered in it, and no thread lists a
\* file twice.
Listed ==
  \A t \in Thread :
    /\ IsInjective(handlers[t])
    /\ \A f \in ToSet(handlers[t]) : initialized[f] /\ registrar[f] = t
    /\ pc[t] = "dead" => handlers[t] = << >>

CachesHold ==
  \A t \in Thread, k \in Key : cache[t][k] # None =>
    /\ content[cache[t][k]] = k
    /\ CacheOf(t, k) \in refs[cache[t][k]]

ElementsHold ==
  \A e \in Element : element[e] # None =>
    /\ content[element[e].pattern] = element[e].type
    /\ e \in refs[element[e].pattern]

\* A thread has no pattern but the one it has cached for the type.
OnlyCached ==
  \A t \in Thread, k \in Type, o \in Object :
    CacheOf(t, k) \in refs[o] => cache[t][k] = o

\* The thread that registered the release of patterns has it to do or has
\* done it for good.
Released ==
  \A t \in Thread : registrar["compile"] = t =>
    \/ "compile" \in ToSet(handlers[t])
    \/ /\ pc[t] \in {"exiting", "dead"}
       /\ \A k \in Type : cache[t][k] = None

\* Who reports errors has the strings.
Reporting == \A t \in Thread : pc[t] = "reporting" => cache[t][Strings] # None

ObjectInv == CachesHold /\ ElementsHold /\ OnlyCached

IInv == TypeOK /\ Locked /\ Listed /\ ObjectInv /\ Released /\ Reporting


----------------------------------------------------------------------------
(* Objects and their owners.                                               *)

\* No owner is mistaken for another.
LEMMA OwnersDiffer ==
  ASSUME NEW t \in Thread, NEW k \in Key
  PROVE  /\ CacheOf(t, k) \in Owner
         /\ \A e \in Element : CacheOf(t, k) # e
         /\ \A u \in Thread : CacheOf(t, k) # u
         /\ \A u \in Thread, l \in Key : CacheOf(t, k) = CacheOf(u, l) => t = u /\ k = l
PROOF
<1>1. CacheOf(t, k) \in Thread \X Key
  BY DEF CacheOf
<1>2. CacheOf(t, k) \notin Element \cup Thread
  BY <1>1, ThreadCachesAssumption DEF Key
<1>3. \A u \in Thread, l \in Key : CacheOf(t, k) = CacheOf(u, l) => t = u /\ k = l
  BY DEF CacheOf
<1> QED BY <1>1, <1>2, <1>3 DEF Owner

\* The constants that stand for "nothing" are not keys or objects.
LEMMA NothingIsNone ==
  /\ None \notin Key /\ None \notin Object /\ None \notin Element /\ None \notin Thread
  /\ Type \subseteq Key /\ Strings \in Key /\ Strings \notin Type
BY ThreadCachesAssumption DEF Key

\* What Counted leaves of an object that keeps an owner.
LEMMA CountedKeeps ==
  ASSUME TypeOK, NEW new \in [Object -> SUBSET Owner], Counted(new)
  PROVE  /\ refs' = new /\ refs' \in [Object -> SUBSET Owner]
         /\ content' \in [Object -> Key \cup {None}]
         /\ \A o \in Object : new[o] # {} => content'[o] = content[o]
BY DEF TypeOK, Counted

\* Using the thread's object for a key keeps what others hold, and gives the
\* new owners an object of that key.
LEMMA UseEffect ==
  ASSUME TypeOK, ObjectInv, NEW t \in Thread, NEW k \in Key, NEW o \in Object,
         NEW owners \in SUBSET Element, Use(t, k, o, owners)
  PROVE  /\ cache' \in [Thread -> [Key -> Object \cup {None}]]
         /\ content' \in [Object -> Key \cup {None}]
         /\ refs' \in [Object -> SUBSET Owner]
         /\ CachesHold' /\ OnlyCached'
         /\ cache'[t][k] = o /\ content'[o] = k /\ owners \subseteq refs'[o]
         /\ \A u \in Thread, l \in Key :
              cache'[u][l] = IF u = t /\ l = k THEN o ELSE cache[u][l]
         /\ \A x \in Object : content[x] # None => content'[x] = content[x]
         /\ \A x \in Object : refs[x] \subseteq refs'[x]
PROOF
<1>1. refs' = [refs EXCEPT ![o] = @ \cup {CacheOf(t, k)} \cup owners]
  BY DEF Use, TakenBy
<1>2. CacheOf(t, k) \in Owner /\ owners \subseteq Owner
  BY OwnersDiffer DEF Owner
<1>3. refs \in [Object -> SUBSET Owner] /\ content \in [Object -> Key \cup {None}]
      /\ cache \in [Thread -> [Key -> Object \cup {None}]]
  BY DEF TypeOK
<1>4. /\ refs' \in [Object -> SUBSET Owner]
      /\ \A x \in Object : refs'[x] = IF x = o THEN refs[x] \cup {CacheOf(t, k)} \cup owners
                                      ELSE refs[x]
  BY <1>1, <1>2, <1>3
<1>5. /\ cache' \in [Thread -> [Key -> Object \cup {None}]]
      /\ \A u \in Thread, l \in Key :
           cache'[u][l] = IF u = t /\ l = k THEN o ELSE cache[u][l]
  <2>1. CASE cache[t][k] = o /\ UNCHANGED <<cache, content>>
    BY <1>3, <2>1
  <2>2. CASE cache' = [cache EXCEPT ![t][k] = o]
    BY <1>3, <2>2
  <2> QED BY <2>1, <2>2 DEF Use
<1>6. /\ content' \in [Object -> Key \cup {None}] /\ content'[o] = k
      /\ \A x \in Object : content[x] # None => content'[x] = content[x]
  <2>1. CASE cache[t][k] = o /\ UNCHANGED <<cache, content>>
    <3>1. content[o] = k
      BY <2>1, NothingIsNone DEF ObjectInv, CachesHold
    <3> QED BY <1>3, <2>1, <3>1
  <2>2. CASE content[o] = None /\ content' = [content EXCEPT ![o] = k]
    BY <1>3, <2>2
  <2> QED BY <2>1, <2>2 DEF Use
<1>7. CachesHold'
  <2> SUFFICES ASSUME NEW u \in Thread, NEW l \in Key, cache'[u][l] # None
               PROVE  /\ content'[cache'[u][l]] = l
                      /\ CacheOf(u, l) \in refs'[cache'[u][l]]
    BY DEF CachesHold
  <2>1. CASE u = t /\ l = k
    BY <1>4, <1>5, <1>6, <2>1
  <2>2. CASE ~ (u = t /\ l = k)
    <3>1. cache'[u][l] = cache[u][l] /\ cache[u][l] \in Object
      BY <1>3, <1>5, <2>2
    <3>2. content[cache[u][l]] = l /\ CacheOf(u, l) \in refs[cache[u][l]] /\ l # None
      BY <3>1, NothingIsNone DEF ObjectInv, CachesHold
    <3> QED BY <1>4, <1>6, <3>1, <3>2
  <2> QED BY <2>1, <2>2
<1>8. OnlyCached'
  <2> SUFFICES ASSUME NEW u \in Thread, NEW l \in Type, NEW x \in Object, CacheOf(u, l) \in refs'[x]
               PROVE  cache'[u][l] = x
    BY DEF OnlyCached
  <2>1. l \in Key
    BY NothingIsNone
  <2>2. CASE CacheOf(u, l) \in refs[x]
    <3>1. cache[u][l] = x
      BY <2>2 DEF ObjectInv, OnlyCached
    <3>2. CASE u = t /\ l = k
      <4>1. cache[t][k] = o
        BY <3>1, <3>2, NothingIsNone DEF Use
      <4> QED BY <1>5, <2>1, <3>1, <3>2, <4>1
    <3>3. CASE ~ (u = t /\ l = k)
      BY <1>5, <2>1, <3>1, <3>3
    <3> QED BY <3>2, <3>3
  <2>3. CASE CacheOf(u, l) \notin refs[x]
    <3>1. x = o /\ (CacheOf(u, l) = CacheOf(t, k) \/ CacheOf(u, l) \in owners)
      BY <1>4, <2>3
    <3>2. u = t /\ l = k
      BY <2>1, <3>1, OwnersDiffer
    <3> QED BY <1>5, <2>1, <3>1, <3>2
  <2> QED BY <2>2, <2>3
<1> QED BY <1>4, <1>5, <1>6, <1>7, <1>8

\* Compiling an element gives it its type's pattern, and keeps the others'.
LEMMA CompileObjects ==
  ASSUME TypeOK, ObjectInv, NEW t \in Thread, NEW k \in Type, NEW e \in Element, Compile(t, k, e)
  PROVE  /\ TypeOK' /\ ObjectInv'
         /\ \A u \in Thread, l \in Key : u # t \/ l = Strings => cache'[u][l] = cache[u][l]
PROOF
<1>1. PICK o \in Object :
        /\ Use(t, k, o, {e})
        /\ element' = [element EXCEPT ![e] = [thread |-> t, type |-> k, pattern |-> o]]
  BY DEF Compile
<1>2. k \in Key /\ k # Strings /\ {e} \in SUBSET Element
  BY NothingIsNone
<1>3. /\ cache' \in [Thread -> [Key -> Object \cup {None}]]
      /\ content' \in [Object -> Key \cup {None}]
      /\ refs' \in [Object -> SUBSET Owner]
      /\ CachesHold' /\ OnlyCached'
      /\ content'[o] = k /\ e \in refs'[o]
      /\ \A u \in Thread, l \in Key :
           cache'[u][l] = IF u = t /\ l = k THEN o ELSE cache[u][l]
      /\ \A x \in Object : content[x] # None => content'[x] = content[x]
      /\ \A x \in Object : refs[x] \subseteq refs'[x]
  BY <1>1, <1>2, UseEffect
<1>4. element \in [Element -> [thread : Thread, type : Type, pattern : Object] \cup {None}]
  BY DEF TypeOK
<1>5. /\ element' \in [Element -> [thread : Thread, type : Type, pattern : Object] \cup {None}]
      /\ element'[e].pattern = o /\ element'[e].type = k
      /\ \A d \in Element : d # e => element'[d] = element[d]
  BY <1>1, <1>4
<1>6. TypeOK'
  BY <1>3, <1>5 DEF TypeOK, Compile, loading
<1>7. ElementsHold'
  <2> SUFFICES ASSUME NEW d \in Element, element'[d] # None
               PROVE  /\ content'[element'[d].pattern] = element'[d].type
                      /\ d \in refs'[element'[d].pattern]
    BY DEF ElementsHold
  <2>1. CASE d = e
    BY <1>3, <1>5, <2>1
  <2>2. CASE d # e
    <3>1. element'[d] = element[d] /\ element[d].pattern \in Object /\ element[d].type \in Key
      BY <1>4, <1>5, <2>2, NothingIsNone
    <3>2. content[element[d].pattern] = element[d].type /\ d \in refs[element[d].pattern]
      BY <3>1 DEF ObjectInv, ElementsHold
    <3>3. content[element[d].pattern] # None
      BY <3>1, <3>2, NothingIsNone
    <3> QED BY <1>3, <3>1, <3>2, <3>3
  <2> QED BY <2>1, <2>2
<1>8. \A u \in Thread, l \in Key : u # t \/ l = Strings => cache'[u][l] = cache[u][l]
  BY <1>2, <1>3
<1> QED BY <1>3, <1>6, <1>7, <1>8 DEF ObjectInv

\* A step that only takes owners away keeps the references of those it leaves
\* in their place.
LEMMA OthersKeepTheirs ==
  ASSUME TypeOK, ObjectInv, NEW new \in [Object -> SUBSET Owner],
         refs' = new, cache' \in [Thread -> [Key -> Object \cup {None}]],
         \A o \in Object : new[o] # {} => content'[o] = content[o],
         \A t \in Thread, k \in Key : cache'[t][k] # None =>
           cache'[t][k] = cache[t][k] /\ CacheOf(t, k) \in new[cache[t][k]],
         \A e \in Element : element'[e] # None =>
           element'[e] = element[e] /\ e \in new[element[e].pattern],
         \A t \in Thread, k \in Type, o \in Object : CacheOf(t, k) \in new[o] =>
           CacheOf(t, k) \in refs[o] /\ cache'[t][k] = cache[t][k]
  PROVE  ObjectInv'
PROOF
<1>1. CachesHold'
  <2> SUFFICES ASSUME NEW t \in Thread, NEW k \in Key, cache'[t][k] # None
               PROVE  /\ content'[cache'[t][k]] = k
                      /\ CacheOf(t, k) \in refs'[cache'[t][k]]
    BY DEF CachesHold
  <2>1. cache'[t][k] = cache[t][k] /\ cache[t][k] \in Object /\ CacheOf(t, k) \in new[cache[t][k]]
    BY DEF TypeOK
  <2>2. content[cache[t][k]] = k
    BY <2>1 DEF ObjectInv, CachesHold
  <2> QED BY <2>1, <2>2
<1>2. ElementsHold'
  <2> SUFFICES ASSUME NEW e \in Element, element'[e] # None
               PROVE  /\ content'[element'[e].pattern] = element'[e].type
                      /\ e \in refs'[element'[e].pattern]
    BY DEF ElementsHold
  <2>1. element'[e] = element[e] /\ element[e].pattern \in Object /\ e \in new[element[e].pattern]
    BY DEF TypeOK
  <2>2. content[element[e].pattern] = element[e].type
    BY <2>1 DEF ObjectInv, ElementsHold
  <2> QED BY <2>1, <2>2
<1>3. OnlyCached'
  BY DEF ObjectInv, OnlyCached
<1> QED BY <1>1, <1>2, <1>3 DEF ObjectInv

\* Freeing an element takes only its own reference.
LEMMA DeleteObjects ==
  ASSUME TypeOK, ObjectInv, NEW e \in Element, Delete(e)
  PROVE  TypeOK' /\ ObjectInv' /\ cache' = cache
PROOF
<1> DEFINE new == [refs EXCEPT ![element[e].pattern] = @ \ {e}]
<1>1. /\ element \in [Element -> [thread : Thread, type : Type, pattern : Object] \cup {None}]
      /\ refs \in [Object -> SUBSET Owner]
      /\ cache \in [Thread -> [Key -> Object \cup {None}]] /\ cache' = cache
      /\ element[e] # None
      /\ Counted(new)
      /\ element' = [element EXCEPT ![e] = None]
  BY DEF TypeOK, Delete
<1>2. /\ new \in [Object -> SUBSET Owner]
      /\ \A o \in Object : refs[o] \ {e} \subseteq new[o] /\ new[o] \subseteq refs[o]
  BY <1>1
<1> HIDE DEF new
<1>3. /\ refs' = new /\ refs' \in [Object -> SUBSET Owner]
      /\ content' \in [Object -> Key \cup {None}]
      /\ \A o \in Object : new[o] # {} => content'[o] = content[o]
  BY <1>1, <1>2, CountedKeeps
<1>4. TypeOK'
  BY <1>1, <1>3 DEF TypeOK, Delete, loading
<1>5. ASSUME NEW t \in Thread, NEW k \in Key, cache'[t][k] # None
      PROVE  cache'[t][k] = cache[t][k] /\ CacheOf(t, k) \in new[cache[t][k]]
  <2>1. CacheOf(t, k) \in refs[cache[t][k]] /\ cache[t][k] \in Object
    BY <1>1, <1>5 DEF ObjectInv, CachesHold
  <2> QED BY <1>1, <1>2, <2>1, OwnersDiffer
<1>6. ASSUME NEW d \in Element, element'[d] # None
      PROVE  element'[d] = element[d] /\ d \in new[element[d].pattern]
  <2>1. d # e /\ element'[d] = element[d] /\ element[d].pattern \in Object
    BY <1>1, <1>6
  <2>2. d \in refs[element[d].pattern]
    BY <1>6, <2>1 DEF ObjectInv, ElementsHold
  <2> QED BY <1>2, <2>1, <2>2
<1>7. \A t \in Thread, k \in Type, o \in Object : CacheOf(t, k) \in new[o] =>
        CacheOf(t, k) \in refs[o] /\ cache'[t][k] = cache[t][k]
  BY <1>1, <1>2
<1>8. ObjectInv'
  BY <1>1, <1>2, <1>3, <1>5, <1>6, <1>7, OthersKeepTheirs
<1> QED BY <1>1, <1>4, <1>8

\* Making an outcome takes a reference of the thread's, or gives it to the
\* strings; forgetting one takes it.
LEMMA OutcomeObjects ==
  ASSUME TypeOK, ObjectInv, NEW t \in Thread, CombineDetails(t) \/ Forget(t),
         cache[t][Strings] # None \/ Forget(t)
  PROVE  TypeOK' /\ ObjectInv' /\ cache' = cache
PROOF
<1>1. /\ element \in [Element -> [thread : Thread, type : Type, pattern : Object] \cup {None}]
      /\ refs \in [Object -> SUBSET Owner] /\ content \in [Object -> Key \cup {None}]
      /\ cache \in [Thread -> [Key -> Object \cup {None}]] /\ cache' = cache
      /\ element' = element /\ outcome \in [Thread -> Object \cup {None}]
  BY DEF TypeOK, CombineDetails, Forget
<1>2. t \in Owner /\ cache[t][Strings] \in Object \cup {None}
  BY <1>1, NothingIsNone DEF Owner
<1>3. PICK new \in [Object -> SUBSET Owner] :
        /\ refs' = new
        /\ content' \in [Object -> Key \cup {None}]
        /\ \A o \in Object : new[o] # {} => content'[o] = content[o]
        /\ \A o \in Object : refs[o] \ {t} \subseteq new[o] /\ new[o] \subseteq refs[o] \cup {t}
  <2>1. CASE CombineDetails(t)
    <3> DEFINE new == [o \in Object |-> IF o = cache[t][Strings] THEN refs[o] \cup {t}
                                                                 ELSE refs[o] \ {t}]
    <3>1. new \in [Object -> SUBSET Owner]
      BY <1>1, <1>2
    <3>2. refs' = new /\ content' = [o \in Object |-> IF refs'[o] = {} THEN None ELSE content[o]]
      BY <2>1 DEF CombineDetails
    <3>3. \A o \in Object : refs[o] \ {t} \subseteq new[o] /\ new[o] \subseteq refs[o] \cup {t}
      OBVIOUS
    <3> HIDE DEF new
    <3> QED BY <1>1, <3>1, <3>2, <3>3
  <2>2. CASE Forget(t)
    <3> DEFINE new == [refs EXCEPT ![outcome[t]] = @ \ {t}]
    <3>1. new \in [Object -> SUBSET Owner] /\ Counted(new)
      BY <1>1, <2>2 DEF Forget
    <3>2. \A o \in Object : refs[o] \ {t} \subseteq new[o] /\ new[o] \subseteq refs[o] \cup {t}
      BY <1>1
    <3> HIDE DEF new
    <3> QED BY <3>1, <3>2, CountedKeeps
  <2> QED BY <2>1, <2>2
<1>4. TypeOK'
  <2>1. outcome' \in [Thread -> Object \cup {None}]
    BY <1>1, <1>2 DEF CombineDetails, Forget
  <2>2. pc' \in [Thread -> Status]
    BY DEF TypeOK, CombineDetails, Forget, Goes, Status
  <2> QED BY <1>1, <1>3, <2>1, <2>2 DEF TypeOK, CombineDetails, Forget, loading
<1>5. ASSUME NEW u \in Thread, NEW k \in Key, cache'[u][k] # None
      PROVE  cache'[u][k] = cache[u][k] /\ CacheOf(u, k) \in new[cache[u][k]]
  <2>1. CacheOf(u, k) \in refs[cache[u][k]] /\ cache[u][k] \in Object /\ CacheOf(u, k) # t
    BY <1>1, <1>5, OwnersDiffer DEF ObjectInv, CachesHold
  <2> QED BY <1>1, <1>3, <2>1
<1>6. ASSUME NEW d \in Element, element'[d] # None
      PROVE  element'[d] = element[d] /\ d \in new[element[d].pattern]
  <2>1. d # t /\ element'[d] = element[d] /\ element[d].pattern \in Object
    BY <1>1, <1>6, ThreadCachesAssumption
  <2>2. d \in refs[element[d].pattern]
    BY <1>6, <2>1 DEF ObjectInv, ElementsHold
  <2> QED BY <1>3, <2>1, <2>2
<1>7. ASSUME NEW u \in Thread, NEW k \in Type, NEW o \in Object, CacheOf(u, k) \in new[o]
      PROVE  CacheOf(u, k) \in refs[o] /\ cache'[u][k] = cache[u][k]
  <2>1. CacheOf(u, k) # t
    BY OwnersDiffer, NothingIsNone
  <2> QED BY <1>1, <1>3, <1>7, <2>1
<1>8. ObjectInv'
  BY <1>1, <1>3, <1>5, <1>6, <1>7, OthersKeepTheirs
<1> QED BY <1>1, <1>4, <1>8


\* An exit procedure takes the patterns of its thread out of its cache and
\* out of the reference counts together; the strings it only forgets.
LEMMA HandlerObjects ==
  ASSUME TypeOK, ObjectInv, NEW t \in Thread, RunHandler(t)
  PROVE  /\ TypeOK' /\ ObjectInv'
         /\ \A u \in Thread, k \in Key : u # t => cache'[u][k] = cache[u][k]
         /\ \A k \in Type : cache'[t][k] = cache[t][k] \/ cache'[t][k] = None
         /\ Head(handlers[t]) = "compile" => \A k \in Type : cache'[t][k] = None
PROOF
<1>1. /\ element \in [Element -> [thread : Thread, type : Type, pattern : Object] \cup {None}]
      /\ refs \in [Object -> SUBSET Owner] /\ content \in [Object -> Key \cup {None}]
      /\ cache \in [Thread -> [Key -> Object \cup {None}]]
      /\ element' = element /\ handlers \in [Thread -> Seq(File)]
  BY DEF TypeOK, RunHandler
<1>2. handlers' \in [Thread -> Seq(File)]
  <2>1. Tail(handlers[t]) \in Seq(File)
    BY <1>1, PopFront DEF RunHandler
  <2> QED BY <1>1, <2>1 DEF RunHandler
<1>3. CASE ReleasePatterns(t) /\ Head(handlers[t]) = "compile"
  <2> DEFINE new == Dropped(t)
             mine == {CacheOf(t, k) : k \in Type}
  <2>1. /\ new \in [Object -> SUBSET Owner] /\ Counted(new)
        /\ \A o \in Object : new[o] = refs[o] \ mine
    BY <1>1, <1>3 DEF Dropped, ReleasePatterns
  <2> HIDE DEF new
  <2>2. /\ refs' = new /\ refs' \in [Object -> SUBSET Owner]
        /\ content' \in [Object -> Key \cup {None}]
        /\ \A o \in Object : new[o] # {} => content'[o] = content[o]
    BY <2>1, CountedKeeps
  <2>3. /\ cache' \in [Thread -> [Key -> Object \cup {None}]]
        /\ \A k \in Type : cache'[t][k] = None
        /\ cache'[t][Strings] = cache[t][Strings]
        /\ \A u \in Thread : u # t => cache'[u] = cache[u]
    <3>1. cache' = [cache EXCEPT ![t] = [k \in Key |-> IF k = Strings THEN @[k] ELSE None]]
      BY <1>3 DEF ReleasePatterns
    <3> QED BY <1>1, <3>1, NothingIsNone
  <2>4. \A u \in Thread, k \in Key : u # t \/ k = Strings => CacheOf(u, k) \notin mine
    <3> SUFFICES ASSUME NEW u \in Thread, NEW k \in Key, u # t \/ k = Strings, NEW l \in Type
                 PROVE  CacheOf(u, k) # CacheOf(t, l)
      OBVIOUS
    <3>1. l \in Key /\ l # Strings
      BY NothingIsNone
    <3> QED BY <3>1, OwnersDiffer
  <2>5. \A d \in Element : d \notin mine
    BY OwnersDiffer, NothingIsNone
  <2>6. \A l \in Type : CacheOf(t, l) \in mine
    OBVIOUS
  <2> HIDE DEF mine
  <2>7. ASSUME NEW u \in Thread, NEW k \in Key, cache'[u][k] # None
        PROVE  cache'[u][k] = cache[u][k] /\ CacheOf(u, k) \in new[cache[u][k]]
    <3>1. u # t \/ k = Strings
      BY <2>3, <2>7 DEF Key
    <3>2. cache'[u][k] = cache[u][k]
      BY <2>3, <3>1
    <3>3. CacheOf(u, k) \in refs[cache[u][k]] /\ cache[u][k] \in Object
      BY <1>1, <2>7, <3>2 DEF ObjectInv, CachesHold
    <3> QED BY <2>1, <2>4, <3>1, <3>2, <3>3
  <2>8. ASSUME NEW d \in Element, element'[d] # None
        PROVE  element'[d] = element[d] /\ d \in new[element[d].pattern]
    <3>1. element'[d] = element[d] /\ element[d].pattern \in Object
      BY <1>1, <2>8
    <3>2. d \in refs[element[d].pattern]
      BY <2>8, <3>1 DEF ObjectInv, ElementsHold
    <3> QED BY <2>1, <2>5, <3>1, <3>2
  <2>9. ASSUME NEW u \in Thread, NEW k \in Type, NEW o \in Object, CacheOf(u, k) \in new[o]
        PROVE  CacheOf(u, k) \in refs[o] /\ cache'[u][k] = cache[u][k]
    <3>1. CacheOf(u, k) \in refs[o] /\ u # t
      BY <2>1, <2>6, <2>9
    <3> QED BY <2>3, <3>1
  <2>10. ObjectInv'
    BY <2>1, <2>2, <2>3, <2>7, <2>8, <2>9, OthersKeepTheirs
  <2>11. TypeOK'
    BY <1>1, <1>2, <2>2, <2>3 DEF TypeOK, RunHandler
  <2> QED BY <2>3, <2>10, <2>11
<1>4. CASE ReleaseStrings(t) /\ Head(handlers[t]) # "compile"
  <2>1. /\ cache' \in [Thread -> [Key -> Object \cup {None}]]
        /\ cache'[t][Strings] = None
        /\ \A u \in Thread, k \in Key : u # t \/ k # Strings => cache'[u][k] = cache[u][k]
    BY <1>1, <1>4, NothingIsNone DEF ReleaseStrings
  <2>2. content' = content /\ refs' = refs
    BY <1>4 DEF ReleaseStrings
  <2>3. ASSUME NEW u \in Thread, NEW k \in Key, cache'[u][k] # None
        PROVE  cache'[u][k] = cache[u][k] /\ CacheOf(u, k) \in refs[cache[u][k]]
    BY <2>1, <2>3 DEF ObjectInv, CachesHold
  <2>4. \A d \in Element : element'[d] # None =>
          element'[d] = element[d] /\ d \in refs[element[d].pattern]
    BY <1>1 DEF ObjectInv, ElementsHold
  <2>5. \A u \in Thread, k \in Type, o \in Object : CacheOf(u, k) \in refs[o] =>
          CacheOf(u, k) \in refs[o] /\ cache'[u][k] = cache[u][k]
    BY <2>1, NothingIsNone
  <2>6. ObjectInv'
    BY <1>1, <2>1, <2>2, <2>3, <2>4, <2>5, OthersKeepTheirs
  <2>7. TypeOK'
    BY <1>1, <1>2, <2>1, <2>2 DEF TypeOK, RunHandler
  <2> QED BY <1>4, <2>1, <2>6, <2>7, NothingIsNone
<1> QED BY <1>3, <1>4 DEF RunHandler

\* Generating a message leaves the thread with strings.
LEMMA GenerateObjects ==
  ASSUME TypeOK, ObjectInv, NEW t \in Thread, Generate(t)
  PROVE  /\ TypeOK' /\ ObjectInv' /\ cache'[t][Strings] # None
         /\ \A u \in Thread, k \in Key : u # t \/ k # Strings => cache'[u][k] = cache[u][k]
PROOF
<1>1. PICK o \in Object : Use(t, Strings, o, {})
  BY DEF Generate, FirstUse
<1>2. Strings \in Key /\ {} \in SUBSET Element
  BY NothingIsNone
<1>3. /\ cache' \in [Thread -> [Key -> Object \cup {None}]]
      /\ content' \in [Object -> Key \cup {None}]
      /\ refs' \in [Object -> SUBSET Owner]
      /\ CachesHold' /\ OnlyCached'
      /\ cache'[t][Strings] = o
      /\ \A u \in Thread, l \in Key :
           cache'[u][l] = IF u = t /\ l = Strings THEN o ELSE cache[u][l]
      /\ \A x \in Object : content[x] # None => content'[x] = content[x]
      /\ \A x \in Object : refs[x] \subseteq refs'[x]
  BY <1>1, <1>2, UseEffect
<1>4. pc' \in [Thread -> Status]
  BY DEF TypeOK, Generate, Goes, Status
<1>5. TypeOK'
  BY <1>3, <1>4 DEF TypeOK, Generate, loading
<1>6. ElementsHold'
  <2> SUFFICES ASSUME NEW d \in Element, element'[d] # None
               PROVE  /\ content'[element'[d].pattern] = element'[d].type
                      /\ d \in refs'[element'[d].pattern]
    BY DEF ElementsHold
  <2>1. element'[d] = element[d] /\ element[d].pattern \in Object /\ element[d].type \in Key
    BY NothingIsNone DEF TypeOK, Generate
  <2>2. content[element[d].pattern] = element[d].type /\ d \in refs[element[d].pattern]
    BY <2>1 DEF ObjectInv, ElementsHold
  <2>3. content[element[d].pattern] # None
    BY <2>1, <2>2, NothingIsNone
  <2> QED BY <1>3, <2>1, <2>2, <2>3
<1> QED BY <1>3, <1>5, <1>6, NothingIsNone DEF ObjectInv

----------------------------------------------------------------------------
(* Loading.                                                                *)

\* A step that moves one thread and neither loads nor touches an object.
LEMMA MoveTypes ==
  ASSUME TypeOK, NEW t \in Thread, NEW from, NEW to \in Status, Goes(t, from, to)
  PROVE  /\ pc' \in [Thread -> Status] /\ pc[t] = from /\ pc'[t] = to
         /\ \A u \in Thread : u # t => pc'[u] = pc[u]
BY DEF TypeOK, Goes

\* The parts of the invariant that are about loading.
LoadInv == Locked /\ Listed

\* A step that leaves the loading variables alone, and brings no thread into
\* the initialisation or out of its death.
LEMMA LoadingAside ==
  ASSUME TypeOK, LoadInv, UNCHANGED <<loads, loading>>,
         \A u \in Thread : pc'[u] # pc[u] =>
           pc'[u] \in {"idle", "reporting", "exiting"} \/ (pc'[u] = "dead" /\ handlers[u] = << >>)
  PROVE  LoadInv'
PROOF
<1>1. file' = file /\ loads' = loads /\ mutex' = mutex /\ initialized' = initialized
      /\ handlers' = handlers /\ registrar' = registrar
  BY DEF loading
<1>2. Locked'
  BY <1>1 DEF LoadInv, Locked
<1>3. Listed'
  BY <1>1 DEF LoadInv, Listed
<1> QED BY <1>2, <1>3 DEF LoadInv

\* The mutex is taken when it is free, and what is under it stays with its
\* thread until the unlock.
LEMMA LoadsLocked ==
  ASSUME TypeOK, LoadInv, NEW t \in Thread, Load(t) \/ Loads(t)
  PROVE  TypeOK' /\ LoadInv' /\ (Released => Released')
PROOF
<1>1. /\ pc \in [Thread -> Status] /\ file \in [Thread -> File] /\ file[t] \in File
      /\ mutex \in [File -> Thread \cup {None}] /\ initialized \in [File -> BOOLEAN]
      /\ handlers \in [Thread -> Seq(File)] /\ registrar \in [File -> Thread \cup {None}]
      /\ loads \in [Thread -> 0..MaxLoads] /\ MaxLoads \in Nat
  BY ThreadCachesAssumption DEF TypeOK
<1>2. {"idle", "lock", "check", "register", "unlock"} \subseteq Status
      /\ "compile" \in File /\ "message" \in File
  BY DEF Status, File
<1>3. UNCHANGED objects
  BY DEF Load, Loads, Lock, Check, Register, Unlock
<1>4. CASE Load(t)
  <2>1. pc[t] = "idle" /\ pc'[t] = "lock" /\ pc' \in [Thread -> Status]
        /\ \A u \in Thread : u # t => pc'[u] = pc[u]
    BY <1>2, <1>4, MoveTypes DEF Load
  <2>2. file' = [file EXCEPT ![t] = "compile"]
        /\ UNCHANGED <<loads, mutex, initialized, handlers, registrar>>
    BY <1>4 DEF Load
  <2>3. TypeOK'
    BY <1>1, <1>2, <1>3, <2>1, <2>2 DEF TypeOK, objects
  <2>4. Locked'
    BY <1>1, <1>4, <2>1, <2>2 DEF LoadInv, Locked, Load
  <2>5. Listed'
    BY <2>1, <2>2 DEF LoadInv, Listed
  <2>6. Released => Released'
    BY <1>3, <2>1, <2>2 DEF Released, objects
  <2> QED BY <2>3, <2>4, <2>5, <2>6 DEF LoadInv
<1>5. CASE Lock(t)
  <2>1. pc[t] = "lock" /\ pc'[t] = "check" /\ pc' \in [Thread -> Status]
        /\ \A u \in Thread : u # t => pc'[u] = pc[u]
    BY <1>2, <1>5, MoveTypes DEF Lock
  <2>2. mutex' = [mutex EXCEPT ![file[t]] = t] /\ mutex[file[t]] = None
        /\ UNCHANGED <<file, loads, initialized, handlers, registrar>>
    BY <1>5 DEF Lock, Free
  <2>3. TypeOK'
    BY <1>1, <1>3, <2>1, <2>2 DEF TypeOK, objects
  <2>4. Locked'
    <3> SUFFICES ASSUME NEW u \in Thread
                 PROVE  /\ pc'[u] \in {"lock", "check", "register", "unlock"} => loads'[u] < MaxLoads
                        /\ pc'[u] \in {"check", "register", "unlock"} => mutex'[file'[u]] = u
                        /\ pc'[u] = "register" => ~ initialized'[file'[u]]
      BY DEF Locked
    <3>1. CASE u = t
      BY <1>1, <2>1, <2>2, <3>1 DEF LoadInv, Locked
    <3>2. CASE u # t
      BY <1>1, <2>1, <2>2, <3>2, NothingIsNone DEF LoadInv, Locked
    <3> QED BY <3>1, <3>2
  <2>5. Listed'
    BY <2>1, <2>2 DEF LoadInv, Listed
  <2>6. Released => Released'
    BY <1>3, <2>1, <2>2 DEF Released, objects
  <2> QED BY <2>3, <2>4, <2>5, <2>6 DEF LoadInv
<1>6. CASE Check(t)
  <2>1. Checked(file[t]) \in {"register", "unlock"}
        /\ (Checked(file[t]) = "register" => ~ initialized[file[t]])
    BY DEF Checked
  <2>2. Goes(t, "check", Checked(file[t])) /\ Checked(file[t]) \in Status
    BY <1>2, <1>6, <2>1 DEF Check
  <2>3. pc[t] = "check" /\ pc'[t] = Checked(file[t]) /\ pc' \in [Thread -> Status]
        /\ \A u \in Thread : u # t => pc'[u] = pc[u]
    BY <2>2, MoveTypes
  <2>4. UNCHANGED <<file, mutex, loads, initialized, handlers, registrar>>
    BY <1>6 DEF Check, loading
  <2>5. TypeOK'
    BY <1>1, <1>3, <2>3, <2>4 DEF TypeOK, objects
  <2>6. Locked'
    <3> SUFFICES ASSUME NEW u \in Thread
                 PROVE  /\ pc'[u] \in {"lock", "check", "register", "unlock"} => loads'[u] < MaxLoads
                        /\ pc'[u] \in {"check", "register", "unlock"} => mutex[file[u]] = u
                        /\ pc'[u] = "register" => ~ initialized[file[u]]
      BY <2>4 DEF Locked
    <3>1. CASE u = t
      BY <2>1, <2>3, <2>4, <3>1 DEF LoadInv, Locked
    <3>2. CASE u # t
      BY <2>3, <2>4, <3>2 DEF LoadInv, Locked
    <3> QED BY <3>1, <3>2
  <2>7. Listed'
    <3> SUFFICES ASSUME NEW u \in Thread, pc'[u] = "dead" PROVE handlers[u] = << >>
      BY <2>4 DEF LoadInv, Listed
    <3> QED BY <2>1, <2>3 DEF LoadInv, Listed
  <2>8. Released => Released'
    BY <1>3, <2>3, <2>4 DEF Released, objects
  <2> QED BY <2>5, <2>6, <2>7, <2>8 DEF LoadInv
<1>7. CASE Register(t)
  <2> DEFINE f == file[t]
             new == <<f>> \o handlers[t]
  <2>1. pc[t] = "register" /\ pc'[t] = "unlock" /\ pc' \in [Thread -> Status]
        /\ \A u \in Thread : u # t => pc'[u] = pc[u]
    BY <1>2, <1>7, MoveTypes DEF Register
  <2>2. /\ handlers' = [handlers EXCEPT ![t] = new]
        /\ initialized' = [initialized EXCEPT ![f] = TRUE]
        /\ registrar' = [registrar EXCEPT ![f] = t]
        /\ UNCHANGED <<file, loads, mutex>>
    BY <1>7 DEF Register
  <2>3. ~ initialized[f] /\ mutex[f] = t
    BY <2>1 DEF LoadInv, Locked
  <2>4. \A u \in Thread : f \notin ToSet(handlers[u])
    BY <2>3 DEF LoadInv, Listed
  <2>5. new \in Seq(File) /\ ToSet(new) = {f} \cup ToSet(handlers[t]) /\ IsInjective(new)
    <3>1. handlers[t] \in Seq(File) /\ f \in File /\ IsInjective(handlers[t])
      BY <1>1 DEF LoadInv, Listed
    <3> QED BY <2>4, <3>1, PushFront
  <2> HIDE DEF new
  <2>6. /\ handlers' \in [Thread -> Seq(File)] /\ handlers'[t] = new
        /\ \A u \in Thread : u # t => handlers'[u] = handlers[u]
        /\ \A g \in File : registrar'[g] = IF g = f THEN t ELSE registrar[g]
        /\ \A g \in File : initialized'[g] = IF g = f THEN TRUE ELSE initialized[g]
        /\ registrar' \in [File -> Thread \cup {None}] /\ initialized' \in [File -> BOOLEAN]
    BY <1>1, <2>2, <2>5
  <2>7. TypeOK'
    BY <1>1, <1>3, <2>1, <2>2, <2>6 DEF TypeOK, objects
  <2>8. Locked'
    <3> SUFFICES ASSUME NEW u \in Thread
                 PROVE  /\ pc'[u] \in {"lock", "check", "register", "unlock"} => loads'[u] < MaxLoads
                        /\ pc'[u] \in {"check", "register", "unlock"} => mutex[file[u]] = u
                        /\ pc'[u] = "register" => ~ initialized'[file[u]]
      BY <2>2 DEF Locked
    <3>1. CASE u = t
      BY <2>1, <2>2, <2>3, <3>1 DEF LoadInv, Locked
    <3>2. CASE u # t
      <4>1. pc[u] \in {"check", "register", "unlock"} => mutex[file[u]] = u
        BY DEF LoadInv, Locked
      <4>2. pc[u] = "register" => ~ initialized[file[u]] /\ file[u] \in File /\ file[u] # f
        BY <1>1, <2>3, <3>2, <4>1 DEF LoadInv, Locked
      <4> QED BY <2>1, <2>2, <2>6, <3>2, <4>1, <4>2 DEF LoadInv, Locked
    <3> QED BY <3>1, <3>2
  <2>9. Listed'
    <3> SUFFICES ASSUME NEW u \in Thread
                 PROVE  /\ IsInjective(handlers'[u])
                        /\ \A g \in ToSet(handlers'[u]) : initialized'[g] /\ registrar'[g] = u
                        /\ pc'[u] = "dead" => handlers'[u] = << >>
      BY DEF Listed
    <3>1. ToSet(handlers[u]) \subseteq File
      BY <1>1 DEF ToSet
    <3>2. CASE u = t
      <4>1. ASSUME NEW g \in {f} \cup ToSet(handlers[t])
            PROVE  initialized'[g] /\ registrar'[g] = t
        <5>1. CASE g = f
          BY <1>1, <2>6, <5>1
        <5>2. CASE g # f
          <6>1. g \in File /\ initialized[g] /\ registrar[g] = t
            BY <3>1, <3>2, <5>2 DEF LoadInv, Listed
          <6> QED BY <2>6, <5>2, <6>1
        <5> QED BY <5>1, <5>2
      <4> QED BY <2>1, <2>5, <2>6, <3>2, <4>1
    <3>3. CASE u # t
      <4>1. ASSUME NEW g \in ToSet(handlers[u])
            PROVE  initialized'[g] /\ registrar'[g] = u
        <5>1. g \in File /\ g # f /\ initialized[g] /\ registrar[g] = u
          BY <2>4, <3>1 DEF LoadInv, Listed
        <5> QED BY <2>6, <5>1
      <4>2. handlers'[u] = handlers[u] /\ pc'[u] = pc[u]
        BY <2>1, <2>6, <3>3
      <4> QED BY <4>1, <4>2 DEF LoadInv, Listed
    <3> QED BY <3>2, <3>3
  <2>10. ASSUME Released PROVE Released'
    <3> SUFFICES ASSUME NEW u \in Thread, registrar'["compile"] = u
                 PROVE  \/ "compile" \in ToSet(handlers'[u])
                        \/ /\ pc'[u] \in {"exiting", "dead"}
                           /\ \A k \in Type : cache'[u][k] = None
      BY DEF Released
    <3>1. CASE f = "compile"
      BY <1>2, <2>5, <2>6, <3>1
    <3>2. CASE f # "compile"
      <4>1. registrar["compile"] = u
        BY <1>2, <2>6, <3>2
      <4>2. \/ "compile" \in ToSet(handlers[u])
            \/ pc[u] \in {"exiting", "dead"} /\ \A k \in Type : cache[u][k] = None
        BY <2>10, <4>1 DEF Released
      <4> QED BY <1>3, <2>1, <2>5, <2>6, <4>2 DEF objects
    <3> QED BY <3>1, <3>2
  <2> QED BY <2>7, <2>8, <2>9, <2>10 DEF LoadInv
<1>8. CASE Unlock(t)
  <2> DEFINE to == IF file[t] = "compile" THEN "lock" ELSE "idle"
  <2>1. to \in {"lock", "idle"}
    OBVIOUS
  <2>2. Goes(t, "unlock", to)
    BY <1>8 DEF Unlock
  <2> HIDE DEF to
  <2>3. pc[t] = "unlock" /\ pc'[t] = to /\ pc' \in [Thread -> Status]
        /\ \A u \in Thread : u # t => pc'[u] = pc[u]
    BY <1>2, <2>1, <2>2, MoveTypes
  <2>4. /\ mutex' = [mutex EXCEPT ![file[t]] = None]
        /\ file' = [file EXCEPT ![t] = "message"]
        /\ UNCHANGED <<initialized, handlers, registrar>>
    BY <1>8 DEF Unlock
  <2>5. /\ loads' \in [Thread -> 0..MaxLoads]
        /\ to = "lock" => loads'[t] < MaxLoads
        /\ \A u \in Thread : u # t => loads'[u] = loads[u]
    <3>1. loads' = [loads EXCEPT ![t] = IF file[t] = "message" THEN @ + 1 ELSE @]
      BY <1>8 DEF Unlock, Provided
    <3>2. loads[t] < MaxLoads /\ loads[t] \in 0..MaxLoads
      BY <1>1, <2>3 DEF LoadInv, Locked
    <3>3. to = "lock" => file[t] # "message"
      BY DEF to
    <3>4. loads[t] + 1 \in 0..MaxLoads
      BY <1>1, <3>2
    <3> QED BY <1>1, <3>1, <3>2, <3>3, <3>4
  <2>6. TypeOK'
    BY <1>1, <1>2, <1>3, <2>3, <2>4, <2>5 DEF TypeOK, objects
  <2>7. Locked'
    <3> SUFFICES ASSUME NEW u \in Thread
                 PROVE  /\ pc'[u] \in {"lock", "check", "register", "unlock"} => loads'[u] < MaxLoads
                        /\ pc'[u] \in {"check", "register", "unlock"} => mutex'[file'[u]] = u
                        /\ pc'[u] = "register" => ~ initialized[file'[u]]
      BY <2>4 DEF Locked
    <3>1. CASE u = t
      BY <2>1, <2>3, <2>5, <3>1
    <3>2. CASE u # t
      <4>1. mutex[file[t]] = t
        BY <2>3 DEF LoadInv, Locked
      <4>2. pc[u] \in {"check", "register", "unlock"} => mutex[file[u]] = u /\ file[u] # file[t]
        BY <3>2, <4>1 DEF LoadInv, Locked
      <4> QED BY <1>1, <2>3, <2>4, <2>5, <3>2, <4>2 DEF LoadInv, Locked
    <3> QED BY <3>1, <3>2
  <2>8. Listed'
    BY <2>1, <2>3, <2>4 DEF LoadInv, Listed
  <2>9. Released => Released'
    BY <1>3, <2>1, <2>3, <2>4 DEF Released, objects
  <2> QED BY <2>6, <2>7, <2>8, <2>9 DEF LoadInv
<1> QED BY <1>4, <1>5, <1>6, <1>7, <1>8 DEF Loads


----------------------------------------------------------------------------
(* The invariant.                                                          *)

\* It holds at first.
LEMMA InitIInv == Init => IInv
PROOF
<1> SUFFICES ASSUME Init PROVE IInv
  OBVIOUS
<1>1. TypeOK
  <2>1. 0 \in 0..MaxLoads /\ << >> \in Seq(File)
    BY ThreadCachesAssumption
  <2>2. /\ pc \in [Thread -> Status] /\ file \in [Thread -> File] /\ loads \in [Thread -> 0..MaxLoads]
        /\ handlers \in [Thread -> Seq(File)]
    BY <2>1 DEF Init, Status, File
  <2>3. /\ mutex \in [File -> Thread \cup {None}] /\ initialized \in [File -> BOOLEAN]
        /\ registrar \in [File -> Thread \cup {None}]
    BY DEF Init
  <2>4. /\ cache \in [Thread -> [Key -> Object \cup {None}]]
        /\ outcome \in [Thread -> Object \cup {None}] /\ content \in [Object -> Key \cup {None}]
        /\ element \in [Element -> [thread : Thread, type : Type, pattern : Object] \cup {None}]
    BY DEF Init
  <2>5. refs \in [Object -> SUBSET Owner]
    BY DEF Init
  <2> QED BY <2>2, <2>3, <2>4, <2>5 DEF TypeOK
<1>2. Locked
  BY DEF Init, Locked
<1>3. Listed
  <2>1. \A t \in Thread : handlers[t] = << >>
    BY DEF Init
  <2>2. ToSet(<< >>) = {} /\ IsInjective(<< >>)
    BY DEF ToSet, IsInjective
  <2> QED BY <2>1, <2>2 DEF Init, Listed
<1>4. ObjectInv
  BY NothingIsNone DEF Init, ObjectInv, CachesHold, ElementsHold, OnlyCached
<1>5. Released /\ Reporting
  BY NothingIsNone DEF Init, Released, Reporting, File
<1> QED BY <1>1, <1>2, <1>3, <1>4, <1>5 DEF IInv

\* Every step keeps it.
LEMMA NextIInv == IInv /\ [Next]_vars => IInv'
PROOF
<1> SUFFICES ASSUME IInv, [Next]_vars PROVE IInv'
  OBVIOUS
<1>1. TypeOK /\ LoadInv /\ ObjectInv /\ Released /\ Reporting
  BY DEF IInv, LoadInv
<1>2. {"idle", "reporting", "exiting", "dead"} \subseteq Status
  BY DEF Status
<1>3. Type \subseteq Key /\ Strings \in Key /\ Strings \notin Type
  BY NothingIsNone
<1>4. ASSUME NEW t \in Thread, Load(t) \/ Loads(t) PROVE IInv'
  <2>1. TypeOK' /\ LoadInv' /\ Released'
    BY <1>1, <1>4, LoadsLocked
  <2>2. UNCHANGED objects
    BY <1>4 DEF Load, Loads, Lock, Check, Register, Unlock
  <2>3. ObjectInv'
    BY <1>1, <2>2 DEF objects, ObjectInv, CachesHold, ElementsHold, OnlyCached
  <2>4. Reporting'
    <3>1. Checked(file[t]) # "reporting"
      BY DEF Checked
    <3> QED BY <1>1, <1>4, <2>2, <3>1
            DEF objects, Reporting, TypeOK, Load, Loads, Lock, Check, Register, Unlock, Goes
  <2> QED BY <2>1, <2>3, <2>4 DEF IInv, LoadInv
<1>5. ASSUME NEW t \in Thread, Generate(t) PROVE IInv'
  <2>1. /\ TypeOK' /\ ObjectInv' /\ cache'[t][Strings] # None
        /\ \A u \in Thread, k \in Key : u # t \/ k # Strings => cache'[u][k] = cache[u][k]
    BY <1>1, <1>5, GenerateObjects
  <2>2. pc[t] = "idle" /\ pc'[t] = "reporting" /\ \A u \in Thread : u # t => pc'[u] = pc[u]
    BY <1>1, <1>2, <1>5, MoveTypes DEF Generate
  <2>3. UNCHANGED <<loads, loading>>
    BY <1>5 DEF Generate
  <2>4. LoadInv'
    BY <1>1, <2>2, <2>3, LoadingAside
  <2>5. Released'
    BY <1>1, <1>3, <2>1, <2>2, <2>3 DEF Released, loading
  <2>6. Reporting'
    BY <1>1, <1>3, <2>1, <2>2 DEF Reporting
  <2> QED BY <2>1, <2>4, <2>5, <2>6 DEF IInv, LoadInv
<1>6. ASSUME NEW t \in Thread, Combine(t) \/ Exit(t) \/ Die(t) PROVE IInv'
  <2>1. PICK from, to \in {"idle", "reporting", "exiting", "dead"} :
          /\ Goes(t, from, to) /\ to # "reporting"
          /\ to = "idle" => from = "reporting"
          /\ to = "dead" => from = "exiting"
          /\ to = "exiting" => from = "idle"
    BY <1>6 DEF Combine, Exit, Die
  <2>2. UNCHANGED <<loads, loading, objects>>
    BY <1>6 DEF Combine, Exit, Die
  <2>3. to \in Status
    BY <1>2
  <2>4. pc' \in [Thread -> Status] /\ pc[t] = from /\ pc'[t] = to
        /\ \A u \in Thread : u # t => pc'[u] = pc[u]
    BY <1>1, <2>1, <2>3, MoveTypes
  <2>5. to = "dead" => handlers[t] = << >>
    BY <1>1, <1>6, <2>1, <2>4 DEF Combine, Exit, Die, Goes, TypeOK
  <2>6. TypeOK'
    BY <1>1, <2>2, <2>4 DEF TypeOK, loading, objects
  <2>7. LoadInv'
    BY <1>1, <2>2, <2>4, <2>5, LoadingAside
  <2>8. ObjectInv'
    BY <1>1, <2>2 DEF objects, ObjectInv, CachesHold, ElementsHold, OnlyCached
  <2>9. Released'
    BY <1>1, <2>1, <2>2, <2>4 DEF objects, loading, Released
  <2>10. Reporting'
    BY <1>1, <2>1, <2>2, <2>4 DEF objects, Reporting
  <2> QED BY <2>6, <2>7, <2>8, <2>9, <2>10 DEF IInv, LoadInv
<1>7. ASSUME NEW t \in Thread, CombineDetails(t) \/ Forget(t) PROVE IInv'
  <2>1. UNCHANGED <<loads, loading>>
    BY <1>7 DEF CombineDetails, Forget
  <2>2. \/ pc' = pc
        \/ pc[t] = "reporting" /\ pc'[t] = "idle" /\ \A u \in Thread : u # t => pc'[u] = pc[u]
    BY <1>1, <1>2, <1>7, MoveTypes DEF CombineDetails, Forget
  <2>3. cache[t][Strings] # None \/ Forget(t)
    BY <1>1, <1>7 DEF CombineDetails, Goes, Reporting
  <2>4. TypeOK' /\ ObjectInv' /\ cache' = cache
    BY <1>1, <1>7, <2>3, OutcomeObjects
  <2>5. LoadInv'
    BY <1>1, <2>1, <2>2, LoadingAside
  <2>6. Released'
    BY <1>1, <2>1, <2>2, <2>4 DEF loading, Released
  <2>7. Reporting'
    BY <1>1, <2>2, <2>4 DEF Reporting
  <2> QED BY <2>4, <2>5, <2>6, <2>7 DEF IInv, LoadInv
<1>8. ASSUME NEW t \in Thread, RunHandler(t) PROVE IInv'
  <2>1. /\ TypeOK' /\ ObjectInv'
        /\ \A u \in Thread, k \in Key : u # t => cache'[u][k] = cache[u][k]
        /\ \A k \in Type : cache'[t][k] = cache[t][k] \/ cache'[t][k] = None
        /\ Head(handlers[t]) = "compile" => \A k \in Type : cache'[t][k] = None
    BY <1>1, <1>8, HandlerObjects
  <2>2. /\ pc[t] = "exiting" /\ handlers[t] # << >> /\ handlers[t] \in Seq(File)
        /\ handlers' = [handlers EXCEPT ![t] = Tail(@)]
        /\ UNCHANGED <<pc, file, loads, mutex, initialized, registrar>>
    BY <1>1, <1>8 DEF RunHandler, TypeOK
  <2>3. /\ ToSet(Tail(handlers[t])) \subseteq ToSet(handlers[t])
        /\ ToSet(handlers[t]) \ {Head(handlers[t])} \subseteq ToSet(Tail(handlers[t]))
        /\ IsInjective(handlers[t]) => IsInjective(Tail(handlers[t]))
    BY <2>2, PopFront
  <2>4. handlers'[t] = Tail(handlers[t]) /\ \A u \in Thread : u # t => handlers'[u] = handlers[u]
    BY <1>1, <2>2 DEF TypeOK
  <2>5. Locked'
    BY <1>1, <2>2 DEF LoadInv, Locked
  <2>6. Listed'
    <3> SUFFICES ASSUME NEW u \in Thread
                 PROVE  /\ IsInjective(handlers'[u])
                        /\ \A f \in ToSet(handlers'[u]) : initialized[f] /\ registrar[f] = u
                        /\ pc[u] = "dead" => handlers'[u] = << >>
      BY <2>2 DEF Listed
    <3>1. CASE u = t
      BY <1>1, <2>2, <2>3, <2>4, <3>1 DEF LoadInv, Listed
    <3>2. CASE u # t
      BY <1>1, <2>4, <3>2 DEF LoadInv, Listed
    <3> QED BY <3>1, <3>2
  <2>7. Released'
    <3> SUFFICES ASSUME NEW u \in Thread, registrar["compile"] = u
                 PROVE  \/ "compile" \in ToSet(handlers'[u])
                        \/ /\ pc[u] \in {"exiting", "dead"}
                           /\ \A k \in Type : cache'[u][k] = None
      BY <2>2 DEF Released
    <3>1. \/ "compile" \in ToSet(handlers[u])
          \/ pc[u] \in {"exiting", "dead"} /\ \A k \in Type : cache[u][k] = None
      BY <1>1 DEF Released
    <3>2. CASE u = t
      BY <2>1, <2>2, <2>3, <2>4, <3>1, <3>2
    <3>3. CASE u # t
      BY <1>3, <2>1, <2>4, <3>1, <3>3
    <3> QED BY <3>2, <3>3
  <2>8. Reporting'
    BY <1>1, <1>3, <2>1, <2>2 DEF Reporting
  <2> QED BY <2>1, <2>5, <2>6, <2>7, <2>8 DEF IInv
<1>9. ASSUME NEW t \in Thread, NEW k \in Type, NEW e \in Element, Compile(t, k, e) PROVE IInv'
  <2>1. /\ TypeOK' /\ ObjectInv'
        /\ \A u \in Thread, l \in Key : u # t \/ l = Strings => cache'[u][l] = cache[u][l]
    BY <1>1, <1>9, CompileObjects
  <2>2. pc[t] = "idle" /\ UNCHANGED <<pc, loads, loading>>
    BY <1>9 DEF Compile, Ready
  <2>3. LoadInv'
    BY <1>1, <2>2, LoadingAside
  <2>4. Released'
    BY <1>1, <1>3, <2>1, <2>2 DEF loading, Released
  <2>5. Reporting'
    BY <1>1, <1>3, <2>1, <2>2 DEF Reporting
  <2> QED BY <2>1, <2>3, <2>4, <2>5 DEF IInv, LoadInv
<1>10. ASSUME NEW e \in Element, Delete(e) PROVE IInv'
  <2>1. TypeOK' /\ ObjectInv' /\ cache' = cache
    BY <1>1, <1>10, DeleteObjects
  <2>2. UNCHANGED <<pc, loads, loading>>
    BY <1>10 DEF Delete
  <2>3. LoadInv'
    BY <1>1, <2>2, LoadingAside
  <2>4. Released' /\ Reporting'
    BY <1>1, <2>1, <2>2 DEF loading, Released, Reporting
  <2> QED BY <2>1, <2>3, <2>4 DEF IInv, LoadInv
<1>11. CASE UNCHANGED vars
  BY <1>11 DEF vars, IInv, TypeOK, Locked, Listed, ObjectInv, CachesHold, ElementsHold,
               OnlyCached, Released, Reporting
<1>12. CASE Next
  BY <1>4, <1>5, <1>6, <1>7, <1>8, <1>9, <1>10, <1>12 DEF Next
<1> QED BY <1>11, <1>12

\* It is an invariant of the specification.
LEMMA Invariant == Spec => []IInv
BY InitIInv, NextIInv, PTL DEF Spec

----------------------------------------------------------------------------
(* The theorems.                                                           *)

\* The variables keep their types (the data of src/tjvCompile.c and
\* src/tjvMessage.c that outlives a command).
THEOREM ThreadTypes == Spec => []TypeOK
PROOF
<1>1. IInv => TypeOK
  BY DEF IInv
<1> QED BY <1>1, Invariant, PTL

\* The mutex and the flag register each procedure once, in one thread,
\* however many threads load the package at once (tjv_MessageInit,
\* tjv_ValidationCompileInit).
THEOREM ProceduresAreRegisteredOnce == Spec => []RegisteredOnce
PROOF
<1>1. IInv => RegisteredOnce
  <2> SUFFICES ASSUME IInv, NEW t \in Thread, NEW u \in Thread,
                      NEW i \in DOMAIN handlers[t], NEW j \in DOMAIN handlers[u],
                      handlers[t][i] = handlers[u][j]
               PROVE  t = u /\ i = j
    BY DEF RegisteredOnce
  <2>1. handlers[t][i] \in ToSet(handlers[t]) /\ handlers[u][j] \in ToSet(handlers[u])
    <3>1. \A v \in Thread : handlers[v] \in Seq(File)
      BY DEF IInv, TypeOK
    <3> QED BY <3>1 DEF ToSet
  <2>2. t = u
    BY <2>1 DEF IInv, Listed
  <2>3. IsInjective(handlers[t])
    BY DEF IInv, Listed
  <2> QED BY <2>2, <2>3 DEF IsInjective
<1> QED BY <1>1, Invariant, PTL

\* An element's pattern lives as long as the element, whatever exit procedures
\* have run (tjv_ValidationCompile, tjv_ValidationCompileThreadExitProc).
THEOREM PatternsOutliveTheirCache == Spec => []PatternsAlive
PROOF
<1>1. IInv => PatternsAlive
  BY DEF IInv, ObjectInv, ElementsHold, PatternsAlive
<1> QED BY <1>1, Invariant, PTL

\* tjv_MessageCombineDetails finds the strings made.
THEOREM StringsAreReady == Spec => []StringsReady
PROOF
<1>1. IInv => StringsReady
  BY NothingIsNone DEF IInv, ObjectInv, CachesHold, Reporting, StringsReady
<1> QED BY <1>1, Invariant, PTL

\* The one thread in which tjv_ValidationCompileThreadExitProc is registered
\* leaves no pattern behind.
THEOREM RegistrarReleases == Spec => []RegistrarReleasesPatterns
PROOF
<1>1. IInv => RegistrarReleasesPatterns
  <2> SUFFICES ASSUME IInv, NEW t \in Thread, registrar["compile"] = t, pc[t] = "dead",
                      NEW k \in Type, NEW o \in Object, CacheOf(t, k) \in refs[o]
               PROVE  FALSE
    BY DEF RegistrarReleasesPatterns
  <2>1. cache[t][k] = o
    BY DEF IInv, ObjectInv, OnlyCached
  <2>2. handlers[t] = << >>
    BY DEF IInv, Listed
  <2>3. ToSet(handlers[t]) = {}
    BY <2>2 DEF ToSet
  <2>4. cache[t][k] = None
    BY <2>3 DEF IInv, Released
  <2> QED BY <2>1, <2>4, NothingIsNone
<1> QED BY <1>1, Invariant, PTL

=============================================================================
