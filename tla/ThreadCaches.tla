---------------------------- MODULE ThreadCaches ----------------------------
(***************************************************************************)
(* What each thread keeps between commands, and who releases it            *)
(* (src/tjvCompile.c, src/tjvMessage.c, Tjv_Init in src/library.c).        *)
(*                                                                         *)
(* A thread keeps the compiled pattern of each predefined type and the     *)
(* strings of error messages, made when a command first needs them.        *)
(* Loading the package registers the two procedures that release them when *)
(* a thread exits; a flag per process, guarded by a mutex, makes that      *)
(* happen once.  Elements of compiled schemas and outcome dictionaries     *)
(* take references of their own.  As in Compile, a reference count is the  *)
(* set of the owners it counts.                                            *)
(***************************************************************************)
EXTENDS Naturals, Sequences, SequencesExt

CONSTANTS
  Thread,
  Type,      \* the predefined types
  Strings,   \* the key of the message strings among a thread's caches
  Element,   \* the elements that compiled schemas can have
  Object,    \* the addresses of Tcl objects
  None,      \* NULL
  MaxLoads   \* bound: how often a thread loads the package, once per interpreter

ASSUME ThreadCachesAssumption ==
  /\ None \notin Thread /\ None \notin Element /\ None \notin Object /\ None \notin Type
  /\ Strings \notin Type /\ Strings # None
  \* the owners of references can be told apart
  /\ Element \cap Thread = {}
  /\ (Thread \X (Type \cup {Strings})) \cap (Element \cup Thread) = {}
  /\ MaxLoads \in Nat

\* The two source files that keep something, each with a mutex and a flag.
File == {"compile", "message"}
Key == Type \cup {Strings}

\* The owners of references: a thread's cache, an element, a thread's outcome.
CacheOf(t, k) == <<t, k>>
Owner == (Thread \X Key) \cup Element \cup Thread

VARIABLES
  pc,           \* per thread: what it is doing
  file,         \* per thread: whose initialisation it runs
  loads,        \* per thread: the loads it has completed
  mutex,        \* per file: the thread that has the mutex, or None
  initialized,  \* per file: the procedure is registered
  handlers,     \* per thread: the files whose procedure runs when it exits
  cache,        \* per thread and key: the cached object, or None
  element,      \* per element: its thread, type and pattern, or None
  outcome,      \* per thread: the string objects in its last outcome, or None
  content,      \* per object: what it was made for, None when it is free
  refs,         \* per object: the owners its reference count counts
  registrar     \* history, per file: the thread that registered the procedure

vars == <<pc, file, loads, mutex, initialized, handlers, cache, element, outcome,
          content, refs, registrar>>
loading == <<file, mutex, initialized, handlers, registrar>>
objects == <<cache, element, outcome, content, refs>>

Status == {"idle", "lock", "check", "register", "unlock", "reporting", "exiting", "dead"}

Init ==
  /\ pc = [t \in Thread |-> "idle"] /\ file = [t \in Thread |-> "compile"]
  /\ loads = [t \in Thread |-> 0]
  /\ mutex = [f \in File |-> None] /\ initialized = [f \in File |-> FALSE]
  /\ handlers = [t \in Thread |-> << >>] /\ registrar = [f \in File |-> None]
  /\ cache = [t \in Thread |-> [k \in Key |-> None]]
  /\ element = [e \in Element |-> None] /\ outcome = [t \in Thread |-> None]
  /\ content = [o \in Object |-> None] /\ refs = [o \in Object |-> {}]

Goes(t, from, to) == pc[t] = from /\ pc' = [pc EXCEPT ![t] = to]

----------------------------------------------------------------------------
(* Loading the package: tjv_ValidationCompileInit, then tjv_MessageInit.   *)

Load(t) ==
  /\ loads[t] < MaxLoads
  /\ Goes(t, "idle", "lock")
  /\ file' = [file EXCEPT ![t] = "compile"]
  /\ UNCHANGED <<loads, mutex, initialized, handlers, registrar, objects>>

\* Fault: the mutex is not waited for.
NoMutex(f) == TRUE

Free(f) == mutex[f] = None

Lock(t) ==
  /\ Free(file[t])
  /\ Goes(t, "lock", "check")
  /\ mutex' = [mutex EXCEPT ![file[t]] = t]
  /\ UNCHANGED <<file, loads, initialized, handlers, registrar, objects>>

\* Fault: the second thread returns without unlocking.
ReturnsLocked(f) == IF initialized[f] THEN "idle" ELSE "register"

Checked(f) == IF initialized[f] THEN "unlock" ELSE "register"

Check(t) ==
  /\ Goes(t, "check", Checked(file[t]))
  /\ UNCHANGED <<loads, loading, objects>>

\* Tcl_CreateThreadExitHandler: the last procedure registered runs first.
Register(t) ==
  /\ Goes(t, "register", "unlock")
  /\ handlers' = [handlers EXCEPT ![t] = <<file[t]>> \o @]
  /\ initialized' = [initialized EXCEPT ![file[t]] = TRUE]
  /\ registrar' = [registrar EXCEPT ![file[t]] = t]
  /\ UNCHANGED <<file, loads, mutex, objects>>

\* Fault: the package is provided after either initialisation.
ProvidedAtOnce(f) == TRUE

Provided(f) == f = "message"

Unlock(t) ==
  /\ Goes(t, "unlock", IF file[t] = "compile" THEN "lock" ELSE "idle")
  /\ mutex' = [mutex EXCEPT ![file[t]] = None]
  /\ file' = [file EXCEPT ![t] = "message"]
  /\ loads' = [loads EXCEPT ![t] = IF Provided(file[t]) THEN @ + 1 ELSE @]
  /\ UNCHANGED <<initialized, handlers, registrar, objects>>

----------------------------------------------------------------------------
(* Commands.                                                               *)

\* References are taken and dropped; an object without any is freed.
Counted(new) ==
  /\ refs' = new
  /\ content' = [o \in Object |-> IF new[o] = {} THEN None ELSE content[o]]

\* Fault: the compiled pattern is kept without a reference.
BorrowedBy(t, k, o, owners) == [refs EXCEPT ![o] = @ \cup {CacheOf(t, k)}]

TakenBy(t, k, o, owners) == [refs EXCEPT ![o] = @ \cup {CacheOf(t, k)} \cup owners]

\* The thread's object for a key: the cached one, or one that is made and
\* cached now.  Others own it too: owners.
Use(t, k, o, owners) ==
  \/ /\ cache[t][k] = o
     /\ refs' = TakenBy(t, k, o, owners)
     /\ UNCHANGED <<cache, content>>
  \/ /\ cache[t][k] = None /\ content[o] = None
     /\ cache' = [cache EXCEPT ![t][k] = o]
     /\ content' = [content EXCEPT ![o] = k]
     /\ refs' = TakenBy(t, k, o, owners)

Ready(t) == pc[t] = "idle" /\ loads[t] > 0

\* An element of a predefined type is compiled.
Compile(t, k, e) ==
  /\ Ready(t) /\ element[e] = None
  /\ \E o \in Object :
       /\ Use(t, k, o, {e})
       /\ element' = [element EXCEPT ![e] = [thread |-> t, type |-> k, pattern |-> o]]
  /\ UNCHANGED <<pc, loads, loading, outcome>>

\* The element is freed: its handle is deleted, at the latest with the
\* interpreter when the thread exits.
Delete(e) ==
  /\ element[e] # None /\ pc[element[e].thread] \in {"idle", "exiting"}
  /\ Counted([refs EXCEPT ![element[e].pattern] = @ \ {e}])
  /\ element' = [element EXCEPT ![e] = None]
  /\ UNCHANGED <<pc, loads, loading, cache, outcome>>

\* Fault: the strings are made by the first outcome, not by the first message.
LaterUse(t, o) == UNCHANGED <<cache, content, refs>>

FirstUse(t, o) == Use(t, Strings, o, {})

\* tjv_MessageGenerate, for the first error of a validation.
Generate(t) ==
  /\ Ready(t) /\ Goes(t, "idle", "reporting")
  /\ \E o \in Object : FirstUse(t, o)
  /\ UNCHANGED <<loads, loading, element, outcome>>

\* tjv_MessageCombine: the message is all that is left of the error.
Combine(t) ==
  /\ Goes(t, "reporting", "idle")
  /\ UNCHANGED <<loads, loading, objects>>

\* tjv_MessageCombineDetails: the strings are the keys of the outcome, which
\* takes the place of the last one.
CombineDetails(t) ==
  /\ Goes(t, "reporting", "idle")
  /\ outcome' = [outcome EXCEPT ![t] = cache[t][Strings]]
  /\ refs' = [o \in Object |-> IF o = cache[t][Strings] THEN refs[o] \cup {t} ELSE refs[o] \ {t}]
  /\ content' = [o \in Object |-> IF refs'[o] = {} THEN None ELSE content[o]]
  /\ UNCHANGED <<loads, loading, cache, element>>

\* The script forgets the outcome, at the latest with its interpreter.
Forget(t) ==
  /\ outcome[t] # None /\ pc[t] \in {"idle", "exiting"}
  /\ Counted([refs EXCEPT ![outcome[t]] = @ \ {t}])
  /\ outcome' = [outcome EXCEPT ![t] = None]
  /\ UNCHANGED <<pc, loads, loading, cache, element>>

----------------------------------------------------------------------------
(* The thread exits: Tcl calls the procedures registered in it.            *)

Exit(t) ==
  /\ Goes(t, "idle", "exiting")
  /\ UNCHANGED <<loads, loading, objects>>

\* Fault: the pattern is replaced before it is released, as strings are.
DroppedOfNone(t) == refs

\* tjv_ValidationCompileThreadExitProc releases each cached pattern.
Dropped(t) == [o \in Object |-> refs[o] \ {CacheOf(t, k) : k \in Type}]

ReleasePatterns(t) ==
  /\ Counted(Dropped(t))
  /\ cache' = [cache EXCEPT ![t] = [k \in Key |-> IF k = Strings THEN @[k] ELSE None]]

\* tjv_MessageThreadExitProc releases a new object in the place of each string.
ReleaseStrings(t) ==
  /\ cache' = [cache EXCEPT ![t][Strings] = None]
  /\ UNCHANGED <<content, refs>>

RunHandler(t) ==
  /\ pc[t] = "exiting" /\ handlers[t] # << >>
  /\ handlers' = [handlers EXCEPT ![t] = Tail(@)]
  /\ IF Head(handlers[t]) = "compile" THEN ReleasePatterns(t) ELSE ReleaseStrings(t)
  /\ UNCHANGED <<pc, file, loads, mutex, initialized, registrar, element, outcome>>

\* Nothing of its interpreters is left.
Die(t) ==
  /\ handlers[t] = << >> /\ outcome[t] = None
  /\ \A e \in Element : element[e] # None => element[e].thread # t
  /\ Goes(t, "exiting", "dead")
  /\ UNCHANGED <<loads, loading, objects>>

Loads(t) == Lock(t) \/ Check(t) \/ Register(t) \/ Unlock(t)

Next ==
  \/ \E t \in Thread :
       \/ Load(t) \/ Loads(t) \/ Generate(t) \/ Combine(t) \/ CombineDetails(t) \/ Forget(t)
       \/ Exit(t) \/ RunHandler(t) \/ Die(t)
       \/ \E k \in Type, e \in Element : Compile(t, k, e)
  \/ \E e \in Element : Delete(e)

\* Threads that load the package are scheduled, and get the mutex in the end.
Spec == Init /\ [][Next]_vars /\ \A t \in Thread : WF_vars(Loads(t))

----------------------------------------------------------------------------
(* Properties.                                                             *)

TypeOK ==
  /\ pc \in [Thread -> Status] /\ file \in [Thread -> File]
  /\ loads \in [Thread -> 0..MaxLoads]
  /\ mutex \in [File -> Thread \cup {None}] /\ initialized \in [File -> BOOLEAN]
  /\ handlers \in [Thread -> Seq(File)]
  /\ registrar \in [File -> Thread \cup {None}]
  /\ cache \in [Thread -> [Key -> Object \cup {None}]]
  /\ element \in [Element -> [thread : Thread, type : Type, pattern : Object] \cup {None}]
  /\ outcome \in [Thread -> Object \cup {None}]
  /\ content \in [Object -> Key \cup {None}]
  /\ refs \in [Object -> SUBSET Owner]

\* No use after free: the pattern of an element, whose compiled form it matches
\* with, is alive and still that of its type, also after its thread's exit
\* procedure has dropped the cache (tjvCompile.c:605-607, 819).
PatternsAlive ==
  \A e \in Element : element[e] # None => content[element[e].pattern] = element[e].type

\* An outcome's keys are there when they are used: tjv_MessageCombineDetails
\* does not make the strings, it relies on a message before it (tjvMessage.c:216).
StringsReady ==
  \A t \in Thread :
    pc[t] = "reporting" => /\ cache[t][Strings] # None
                           /\ content[cache[t][Strings]] = Strings

\* However many threads load the package at once, one procedure per file is
\* registered, in one thread.
RegisteredOnce ==
  \A t, u \in Thread : \A i \in DOMAIN handlers[t], j \in DOMAIN handlers[u] :
    handlers[t][i] = handlers[u][j] => t = u /\ i = j

\* The thread whose exit releases the patterns leaves none behind.
RegistrarReleasesPatterns ==
  \A t \in Thread : registrar["compile"] = t /\ pc[t] = "dead" =>
    \A k \in Type, o \in Object : CacheOf(t, k) \notin refs[o]

\* Whoever starts to load the package gets it loaded: nobody waits for the
\* mutex for ever, or for himself.
LoadsEnd == \A t \in Thread : pc[t] = "lock" ~> pc[t] = "idle"

\* What a thread's storage holds is released when the thread completes.
PatternsReleased ==
  \A t \in Thread : pc[t] = "dead" =>
    \A k \in Type, o \in Object : CacheOf(t, k) \notin refs[o]

\* The same of the strings, for the thread that registered their procedure.
StringsReleased ==
  \A t \in Thread : registrar["message"] = t /\ pc[t] = "dead" =>
    \A o \in Object : CacheOf(t, Strings) \notin refs[o]

=============================================================================
