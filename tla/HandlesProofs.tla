--------------------------- MODULE HandlesProofs ---------------------------
(***************************************************************************)
(* Theorems about Handles, for every set of addresses and names and every  *)
(* call depth.                                                             *)
(***************************************************************************)
EXTENDS Handles, SeqLemmas

\* A write leaves a value of the right type behind and keeps everything else.
LEMMA WriteType ==
  ASSUME TypeOK, NEW f \in Frame, NEW v \in VarName, NEW x \in Addr \cup {Data},
         NEW heap, Write(f, v, x, heap)
  PROVE  /\ value' \in [Frame -> [VarName -> Addr \cup {Unset, Data}]]
         /\ ub' \in BOOLEAN
         /\ \A g \in Frame, w \in VarName :
              \/ value'[g][w] = value[g][w]
              \/ g = f /\ w = v /\ value'[g][w] \in Addr \cup {x}
         /\ traces[f][v] # << >> /\ value[f][v] \in Addr => value'[f][v] \in Addr
PROOF
<1>1. traces[f][v] \in Seq(Addr)
  BY DEF TypeOK
<1>2. CASE value' = value /\ ub' = TRUE
  BY <1>2 DEF TypeOK
<1>3. CASE /\ traces[f][v] = << >>
           /\ value' = [value EXCEPT ![f][v] = x]
           /\ ub' = ub
  BY <1>3 DEF TypeOK
<1>4. CASE /\ traces[f][v] # << >>
           /\ value' = [value EXCEPT ![f][v] = Head(traces[f][v])]
           /\ ub' = ub
  <2>1. Head(traces[f][v]) \in Addr
    BY <1>1, <1>4, PopFront
  <2> QED BY <1>4, <2>1 DEF TypeOK
<1> QED BY <1>2, <1>3, <1>4 DEF Write

\* The delete callback frees its handler and takes its trace off one list.
LEMMA DeleteEffect ==
  ASSUME TypeOK, NEW a \in Addr, Delete(a)
  PROVE  /\ trace_var' = [trace_var EXCEPT ![a] = Free]
         /\ trace_var' \in [Addr -> VarName \cup {NoVar, Free}]
         /\ traces' \in [Frame -> [VarName -> Seq(Addr)]]
         /\ \A f \in Frame, v \in VarName :
              traces'[f][v] = IF v = trace_var[a] /\ f = Scope(v)
                                THEN RemoveFirst(traces[f][v], a)
                                ELSE traces[f][v]
PROOF
<1>1. trace_var' = [trace_var EXCEPT ![a] = Free]
  BY DEF Delete
<1>2. trace_var' \in [Addr -> VarName \cup {NoVar, Free}]
  BY <1>1 DEF TypeOK
<1>3. CASE trace_var[a] \in VarName
  <2> DEFINE v == trace_var[a]
             s == RemoveFirst(traces[Scope(v)][v], a)
  <2>1. Scope(v) \in Frame
    BY <1>3, HandlesAssumption DEF Scope, TypeOK, Frame
  <2>2. s \in Seq(Addr)
    <3>1. traces[Scope(v)][v] \in Seq(Addr)
      BY <1>3, <2>1 DEF TypeOK
    <3> QED BY <3>1, RemoveFirstElements
  <2>3. traces' = [traces EXCEPT ![Scope(v)][v] = s]
    BY <1>3 DEF Delete
  <2> HIDE DEF s
  <2>4. traces' \in [Frame -> [VarName -> Seq(Addr)]]
    BY <1>3, <2>1, <2>2, <2>3 DEF TypeOK
  <2>5. \A f \in Frame, w \in VarName :
          traces'[f][w] = IF w = v /\ f = Scope(w) THEN s ELSE traces[f][w]
    BY <1>3, <2>1, <2>3 DEF TypeOK
  <2> QED BY <1>1, <1>2, <2>4, <2>5 DEF s
<1>4. CASE trace_var[a] \notin VarName
  BY <1>1, <1>2, <1>4 DEF Delete, TypeOK
<1> QED BY <1>3, <1>4

\* What an unset does to the three components it touches.
LEMMA ForgetEffect ==
  ASSUME TypeOK, NEW f \in Frame, NEW v \in VarName, Forget(f, v)
  PROVE  /\ value' \in [Frame -> [VarName -> Addr \cup {Unset, Data}]]
         /\ traces' \in [Frame -> [VarName -> Seq(Addr)]]
         /\ detached' \in Seq(Addr)
         /\ detached' = traces[f][v]
         /\ \A g \in Frame, w \in VarName :
              IF g = f /\ w = v
                THEN traces'[g][w] = << >>
                ELSE traces'[g][w] = traces[g][w] /\ value'[g][w] = value[g][w]
PROOF
<1>1. << >> \in Seq(Addr)
  OBVIOUS
<1>2. traces' = [traces EXCEPT ![f][v] = << >>] /\ detached' = traces[f][v]
  BY DEF Forget
<1>3. value' = [value EXCEPT ![f][v] = Unset]
  BY DEF Forget
<1>4. traces' \in [Frame -> [VarName -> Seq(Addr)]] /\ detached' \in Seq(Addr)
  BY <1>1, <1>2 DEF TypeOK
<1>5. value' \in [Frame -> [VarName -> Addr \cup {Unset, Data}]]
  BY <1>3 DEF TypeOK
<1>6. \A g \in Frame, w \in VarName :
        traces'[g][w] = IF g = f /\ w = v THEN << >> ELSE traces[g][w]
  BY <1>2 DEF TypeOK
<1>7. \A g \in Frame, w \in VarName :
        ~(g = f /\ w = v) => value'[g][w] = value[g][w]
  BY <1>3 DEF TypeOK
<1> QED BY <1>2, <1>4, <1>5, <1>6, <1>7

----------------------------------------------------------------------------
(* Type correctness.                                                       *)

\* The names a frame can hold are names, whatever frame they resolve in.
LEMMA ScopeType ==
  ASSUME TypeOK, NEW v
  PROVE  Scope(v) \in Frame /\ NamesOf(Scope(v)) \subseteq VarName
BY HandlesAssumption DEF TypeOK, Scope, Frame, NamesOf

\* The initial state has the right shape.
LEMMA TypeInit == Init => TypeOK
PROOF
<1> SUFFICES ASSUME Init PROVE TypeOK
  OBVIOUS
<1>1. << >> \in Seq(Addr)
  OBVIOUS
<1>2. traces \in [Frame -> [VarName -> Seq(Addr)]] /\ detached \in Seq(Addr)
  BY <1>1 DEF Init
<1>3. /\ trace_var \in [Addr -> VarName \cup {NoVar, Free}]
      /\ value \in [Frame -> [VarName -> Addr \cup {Unset, Data}]]
  BY DEF Init
<1>4. depth \in Frame
  BY HandlesAssumption DEF Init, Frame
<1>5. ub \in BOOLEAN
  BY DEF Init
<1> QED BY <1>2, <1>3, <1>4, <1>5 DEF TypeOK

\* Every operation keeps the shape of the state.
LEMMA TypeStep == TypeOK /\ [Next]_vars => TypeOK'
PROOF
<1> SUFFICES ASSUME TypeOK, [Next]_vars PROVE TypeOK'
  OBVIOUS
<1>1. ASSUME NEW a \in Addr, CompileUnbound(a) PROVE TypeOK'
  BY <1>1 DEF CompileUnbound, TypeOK
<1>2. ASSUME NEW a \in Addr, NEW v \in VarName, CompileBound(a, v)
      PROVE  TypeOK'
  <2>1. /\ trace_var' = [trace_var EXCEPT ![a] = v]
        /\ Write(Scope(v), v, a, trace_var')
        /\ traces' = [traces EXCEPT ![Scope(v)][v] = <<a>> \o traces[Scope(v)][v]]
        /\ UNCHANGED <<detached, depth>>
    BY <1>2 DEF CompileBound
  <2>2. Scope(v) \in Frame
    BY ScopeType
  <2>3. <<a>> \o traces[Scope(v)][v] \in Seq(Addr)
    <3>1. traces[Scope(v)][v] \in Seq(Addr)
      BY <2>2 DEF TypeOK
    <3> QED BY <3>1, PushFront
  <2>4. traces' \in [Frame -> [VarName -> Seq(Addr)]]
    BY <2>1, <2>2, <2>3 DEF TypeOK
  <2>5. /\ value' \in [Frame -> [VarName -> Addr \cup {Unset, Data}]]
        /\ ub' \in BOOLEAN
    BY <2>1, <2>2, WriteType
  <2> QED BY <2>1, <2>4, <2>5 DEF TypeOK
<1>3. ASSUME NEW a \in Addr, NEW v \in VarName, CompileUnresolved(a, v)
      PROVE  TypeOK'
  BY <1>3 DEF CompileUnresolved, TypeOK
<1>4. ASSUME NEW a \in Addr, Destroy(a) PROVE TypeOK'
  <2>1. Delete(a) /\ UNCHANGED <<value, detached, depth, ub>>
    BY <1>4 DEF Destroy
  <2> QED BY <2>1, DeleteEffect DEF TypeOK
<1>5. ASSUME NEW v \in VarName, NEW f \in Frame, NEW x \in Addr \cup {Data},
             Write(f, v, x, trace_var),
             UNCHANGED <<trace_var, traces, detached, depth>>
      PROVE  TypeOK'
  BY <1>5, WriteType DEF TypeOK
<1>6. ASSUME NEW v \in VarName, NEW f \in Frame, Forget(f, v),
             UNCHANGED <<trace_var, depth, ub>>
      PROVE  TypeOK'
  BY <1>6, ForgetEffect DEF TypeOK
<1>7. CASE Call
  BY <1>7, HandlesAssumption DEF Call, TypeOK, Frame
<1>8. CASE Return
  BY <1>8, HandlesAssumption DEF Return, TypeOK, Frame
<1>9. CASE FireUnset
  <2>1. detached # << >> /\ UNCHANGED <<value, depth>>
    BY <1>9 DEF FireUnset
  <2>2. Head(detached) \in Addr /\ Tail(detached) \in Seq(Addr)
    BY <2>1, PopFront DEF TypeOK
  <2>3. CASE /\ Delete(Head(detached))
             /\ detached' = Tail(detached)
             /\ ub' = ub
    BY <2>1, <2>2, <2>3, DeleteEffect DEF TypeOK
  <2>4. CASE ub' = TRUE /\ UNCHANGED <<trace_var, traces, detached>>
    BY <2>1, <2>4 DEF TypeOK
  <2> QED BY <1>9, <2>3, <2>4 DEF FireUnset
<1>10. CASE UNCHANGED vars
  BY <1>10 DEF vars, TypeOK
<1>11. ASSUME NEW v \in VarName, ValidateInline(v) PROVE TypeOK'
  BY <1>5, <1>11, ScopeType DEF ValidateInline
<1>12. ASSUME NEW a \in Addr, NEW v \in VarName, Validate(a, v) PROVE TypeOK'
  BY <1>5, <1>12, ScopeType DEF Validate
<1>13. ASSUME NEW f \in Frame, NEW v \in VarName, NEW x \in Addr \cup {Data},
              SetVar(f, v, x)
       PROVE  TypeOK'
  BY <1>5, <1>13 DEF SetVar
<1>14. ASSUME NEW f \in Frame, NEW v \in VarName, UnsetVar(f, v) PROVE TypeOK'
  BY <1>6, <1>14 DEF UnsetVar
<1>15. ASSUME NEW v \in VarName, DropLocal(v) PROVE TypeOK'
  BY <1>6, <1>15 DEF DropLocal
<1> QED BY <1>1, <1>2, <1>3, <1>4, <1>7, <1>8, <1>9, <1>10, <1>11, <1>12,
           <1>13, <1>14, <1>15 DEF Next

\* The state always has the shape the code gives it.
THEOREM TypeCorrect == Spec => []TypeOK
BY TypeInit, TypeStep, PTL DEF Spec

----------------------------------------------------------------------------
(* Ownership, whatever scripts do: also when a handle is destroyed from     *)
(* another frame.                                                          *)

\* What compiling onto a variable does to the trace lists.
LEMMA CompileBoundEffect ==
  ASSUME TypeOK, NEW a \in Addr, NEW v \in VarName, CompileBound(a, v)
  PROVE  /\ trace_var[a] = Free
         /\ trace_var' = [trace_var EXCEPT ![a] = v]
         /\ detached = << >> /\ detached' = << >>
         /\ Scope(v) \in Frame
         /\ \A f \in Frame, w \in VarName :
              traces'[f][w] = IF f = Scope(v) /\ w = v
                                THEN <<a>> \o traces[f][w]
                                ELSE traces[f][w]
PROOF
<1>1. Scope(v) \in Frame
  BY ScopeType
<1>2. traces' = [traces EXCEPT ![Scope(v)][v] = <<a>> \o traces[Scope(v)][v]]
  BY DEF CompileBound
<1>3. \A f \in Frame, w \in VarName :
        traces'[f][w] = IF f = Scope(v) /\ w = v
                          THEN <<a>> \o traces[f][w]
                          ELSE traces[f][w]
  BY <1>1, <1>2 DEF TypeOK
<1>4. /\ trace_var[a] = Free
      /\ trace_var' = [trace_var EXCEPT ![a] = v]
      /\ detached = << >> /\ detached' = << >>
  BY DEF CompileBound, Idle, Live
<1> QED BY <1>1, <1>3, <1>4

\* The lists after a delete: nothing gained, only the deleted handler lost.
LEMMA DeleteElements ==
  ASSUME TypeOK, NEW a \in Addr, Delete(a), NEW f \in Frame, NEW v \in VarName
  PROVE  /\ ToSet(traces'[f][v]) \subseteq ToSet(traces[f][v])
         /\ ToSet(traces[f][v]) \ {a} \subseteq ToSet(traces'[f][v])
         /\ traces'[f][v] # << >> => traces[f][v] # << >>
PROOF
<1>1. traces[f][v] \in Seq(Addr)
  BY DEF TypeOK
<1>2. \/ traces'[f][v] = traces[f][v]
      \/ traces'[f][v] = RemoveFirst(traces[f][v], a)
  BY DeleteEffect
<1>3. traces[f][v] = << >> => RemoveFirst(traces[f][v], a) = << >>
  <2>1. ASSUME traces[f][v] = << >> PROVE a \notin ToSet(traces[f][v])
    BY <2>1 DEF ToSet
  <2> QED BY <1>1, <2>1, RemoveFirstAbsent
<1> QED BY <1>1, <1>2, <1>3, RemoveFirstElements

\* No step loses track of a bound handle.
LEMMA WatchedStep ==
  TypeOK /\ OwnedHandleIsWatched /\ [Next]_vars => OwnedHandleIsWatched'
PROOF
<1> SUFFICES ASSUME TypeOK, OwnedHandleIsWatched, [Next]_vars,
                    NEW b \in Addr, trace_var'[b] \in VarName \ Unresolvable
             PROVE  Watched(b)'
  BY DEF OwnedHandleIsWatched
<1> DEFINE w == trace_var'[b]
<1>1. ASSUME trace_var[b] = w
      PROVE  \/ b \in ToSet(detached)
             \/ \E g \in Frame : b \in ToSet(traces[g][w])
  BY <1>1 DEF OwnedHandleIsWatched, Watched
<1>2. CASE /\ UNCHANGED <<traces, detached>>
           /\ trace_var[b] = w
  BY <1>1, <1>2 DEF Watched
<1>3. ASSUME NEW a \in Addr, NEW v \in VarName, CompileBound(a, v)
      PROVE  Watched(b)'
  <2>1. /\ trace_var' = [trace_var EXCEPT ![a] = v]
        /\ detached = << >> /\ Scope(v) \in Frame
        /\ \A f \in Frame, u \in VarName :
             traces'[f][u] = IF f = Scope(v) /\ u = v
                               THEN <<a>> \o traces[f][u]
                               ELSE traces[f][u]
    BY <1>3, CompileBoundEffect
  <2>2. CASE a = b
    <3>1. w = v /\ traces'[Scope(v)][v] = <<a>> \o traces[Scope(v)][v]
      BY <2>1, <2>2 DEF TypeOK
    <3>2. traces[Scope(v)][v] \in Seq(Addr)
      BY <2>1 DEF TypeOK
    <3> QED BY <2>1, <2>2, <3>1, <3>2, PushFront DEF Watched
  <2>3. CASE a # b
    <3>1. trace_var[b] = w /\ ToSet(detached) = {}
      BY <2>1, <2>3 DEF TypeOK, ToSet
    <3>2. PICK g \in Frame : b \in ToSet(traces[g][w])
      BY <1>1, <3>1
    <3>3. w \in VarName /\ traces[g][w] \in Seq(Addr)
      BY DEF TypeOK
    <3>4. \/ traces'[g][w] = traces[g][w]
          \/ traces'[g][w] = <<a>> \o traces[g][w]
      <4> HIDE DEF w
      <4> QED BY <2>1, <3>3, Zenon
    <3>5. b \in ToSet(traces'[g][w])
      BY <3>2, <3>3, <3>4, PushFront
    <3> QED BY <3>5 DEF Watched
  <2> QED BY <2>2, <2>3
<1>4. ASSUME NEW a \in Addr, Delete(a),
             \/ UNCHANGED detached
             \/ /\ detached # << >> /\ a = Head(detached)
                /\ detached' = Tail(detached)
      PROVE  Watched(b)'
  <2>1. trace_var' = [trace_var EXCEPT ![a] = Free]
    BY <1>4, DeleteEffect
  <2>2. b # a /\ trace_var[b] = w /\ w \in VarName
    BY <2>1, HandlesAssumption DEF TypeOK
  <2>3. CASE b \in ToSet(detached)
    <3>1. detached \in Seq(Addr)
      BY DEF TypeOK
    <3> QED BY <1>4, <2>2, <2>3, <3>1, PopFront DEF Watched
  <2>4. ASSUME NEW g \in Frame, b \in ToSet(traces[g][w]) PROVE Watched(b)'
    BY <1>4, <2>2, <2>4, DeleteElements DEF Watched
  <2> QED BY <1>1, <2>2, <2>3, <2>4
<1>5. ASSUME NEW f \in Frame, NEW v \in VarName, Forget(f, v),
             detached = << >>, UNCHANGED trace_var
      PROVE  Watched(b)'
  <2>1. trace_var[b] = w /\ w \in VarName /\ ToSet(detached) = {}
    BY <1>5 DEF ToSet
  <2>2. PICK g \in Frame : b \in ToSet(traces[g][w])
    BY <1>1, <2>1
  <2>3. \/ b \in ToSet(detached')
        \/ b \in ToSet(traces'[g][w])
    BY <1>5, <2>1, <2>2, ForgetEffect
  <2> QED BY <2>3 DEF Watched
<1>6. ASSUME NEW a \in Addr, CompileUnbound(a) PROVE Watched(b)'
  <2>1. trace_var[b] = w
    BY <1>6, HandlesAssumption DEF CompileUnbound, TypeOK
  <2> QED BY <1>2, <1>6, <2>1 DEF CompileUnbound
<1>7. ASSUME NEW a \in Addr, NEW v \in VarName, CompileUnresolved(a, v)
      PROVE  Watched(b)'
  <2>1. trace_var[b] = w
    BY <1>7 DEF CompileUnresolved, TypeOK
  <2> QED BY <1>2, <1>7, <2>1 DEF CompileUnresolved
<1>8. ASSUME NEW a \in Addr, Destroy(a) PROVE Watched(b)'
  BY <1>4, <1>8 DEF Destroy
<1>9. CASE FireUnset
  <2>1. detached # << >>
    BY <1>9 DEF FireUnset
  <2>2. Head(detached) \in Addr
    BY <2>1, PopFront DEF TypeOK
  <2>3. CASE Delete(Head(detached)) /\ detached' = Tail(detached)
    BY <1>4, <2>1, <2>2, <2>3
  <2>4. CASE UNCHANGED <<trace_var, traces, detached>>
    BY <1>2, <2>4
  <2> QED BY <1>9, <2>3, <2>4 DEF FireUnset
<1>10. ASSUME NEW f \in Frame, NEW v \in VarName, UnsetVar(f, v)
       PROVE  Watched(b)'
  BY <1>5, <1>10 DEF UnsetVar, Idle
<1>11. ASSUME NEW v \in VarName, DropLocal(v) PROVE Watched(b)'
  BY <1>5, <1>11 DEF DropLocal
<1>12. CASE UNCHANGED <<trace_var, traces, detached>>
  BY <1>2, <1>12
<1> QED BY <1>3, <1>6, <1>7, <1>8, <1>9, <1>10, <1>11, <1>12
        DEF Next, vars, Validate, ValidateInline, SetVar, Call, Return

\* No handle is bound yet in the initial state.
LEMMA WatchedInit == Init => OwnedHandleIsWatched
BY HandlesAssumption DEF Init, OwnedHandleIsWatched

\* A handle bound to a variable is freed with it at the latest: its unset
\* callback stays on a variable of that name until it is taken to be run.
THEOREM HandlesAreWatched == Spec => []OwnedHandleIsWatched
BY TypeCorrect, WatchedInit, WatchedStep, PTL DEF Spec

\* No step leaves script data in a variable that has a handle bound to it.
LEMMA ReadOnlyStep ==
  TypeOK /\ BoundVariableHoldsAName /\ [Next]_vars => BoundVariableHoldsAName'
PROOF
<1> SUFFICES ASSUME TypeOK, BoundVariableHoldsAName, [Next]_vars,
                    NEW g \in Frame, NEW w \in VarName, traces'[g][w] # << >>
             PROVE  value'[g][w] \in Addr
  BY DEF BoundVariableHoldsAName
<1>1. traces[g][w] # << >> => value[g][w] \in Addr
  BY DEF BoundVariableHoldsAName
<1>2. CASE UNCHANGED <<traces, value>>
  BY <1>1, <1>2
<1>3. ASSUME NEW f \in Frame, NEW v \in VarName, NEW x \in Addr \cup {Data},
             Write(f, v, x, trace_var), UNCHANGED traces
      PROVE  value'[g][w] \in Addr
  <2>1. CASE g = f /\ w = v
    BY <1>1, <1>3, <2>1, WriteType
  <2>2. CASE ~(g = f /\ w = v)
    BY <1>1, <1>3, <2>2, WriteType
  <2> QED BY <2>1, <2>2
<1>4. ASSUME NEW a \in Addr, NEW v \in VarName, CompileBound(a, v)
      PROVE  value'[g][w] \in Addr
  <2>1. /\ Scope(v) \in Frame
        /\ Write(Scope(v), v, a, trace_var')
        /\ \A f \in Frame, u \in VarName :
             traces'[f][u] = IF f = Scope(v) /\ u = v
                               THEN <<a>> \o traces[f][u]
                               ELSE traces[f][u]
    BY <1>4, CompileBoundEffect DEF CompileBound
  <2>2. CASE g = Scope(v) /\ w = v
    <3>1. CASE traces[g][w] = << >>
      <4>1. value' = [value EXCEPT ![g][w] = a]
        BY <2>1, <2>2, <3>1 DEF Write
      <4> QED BY <4>1 DEF TypeOK
    <3>2. CASE traces[g][w] # << >>
      BY <1>1, <2>1, <2>2, <3>2, WriteType
    <3> QED BY <3>1, <3>2
  <2>3. CASE ~(g = Scope(v) /\ w = v)
    <3>1. traces'[g][w] = traces[g][w]
      BY <2>1, <2>3
    <3>2. value'[g][w] = value[g][w]
      BY <2>1, <2>3, WriteType
    <3> QED BY <1>1, <3>1, <3>2
  <2> QED BY <2>2, <2>3
<1>5. ASSUME NEW a \in Addr, Delete(a), UNCHANGED value
      PROVE  value'[g][w] \in Addr
  BY <1>1, <1>5, DeleteElements
<1>6. ASSUME NEW f \in Frame, NEW v \in VarName, Forget(f, v)
      PROVE  value'[g][w] \in Addr
  <2>1. ~(g = f /\ w = v)
    BY <1>6, ForgetEffect
  <2>2. traces'[g][w] = traces[g][w] /\ value'[g][w] = value[g][w]
    BY <1>6, <2>1, ForgetEffect
  <2> QED BY <1>1, <2>2
<1>7. CASE FireUnset
  <2>1. Head(detached) \in Addr /\ UNCHANGED value
    BY <1>7, PopFront DEF FireUnset, TypeOK
  <2> QED BY <1>2, <1>5, <1>7, <2>1 DEF FireUnset
<1>8. ASSUME NEW a \in Addr, Destroy(a) PROVE value'[g][w] \in Addr
  BY <1>5, <1>8 DEF Destroy
<1>9. ASSUME NEW v \in VarName, ValidateInline(v) PROVE value'[g][w] \in Addr
  <2>1. Scope(v) \in Frame
    BY ScopeType
  <2> QED BY <1>3, <1>9, <2>1 DEF ValidateInline
<1>10. ASSUME NEW a \in Addr, NEW v \in VarName, Validate(a, v)
       PROVE  value'[g][w] \in Addr
  <2>1. Scope(v) \in Frame
    BY ScopeType
  <2> QED BY <1>3, <1>10, <2>1 DEF Validate
<1>11. ASSUME NEW f \in Frame, NEW v \in VarName, NEW x \in Addr \cup {Data},
              SetVar(f, v, x)
       PROVE  value'[g][w] \in Addr
  BY <1>3, <1>11 DEF SetVar
<1>12. ASSUME NEW f \in Frame, NEW v \in VarName, UnsetVar(f, v)
       PROVE  value'[g][w] \in Addr
  BY <1>6, <1>12 DEF UnsetVar
<1>13. ASSUME NEW v \in VarName, DropLocal(v) PROVE value'[g][w] \in Addr
  BY <1>6, <1>13 DEF DropLocal
<1>14. ASSUME NEW a \in Addr, NEW v \in VarName,
              CompileUnbound(a) \/ CompileUnresolved(a, v)
       PROVE  value'[g][w] \in Addr
  BY <1>2, <1>14 DEF CompileUnbound, CompileUnresolved
<1>15. CASE Call \/ Return \/ UNCHANGED vars
  BY <1>2, <1>15 DEF Call, Return, vars
<1>16. ASSUME NEW a \in Addr, CompileUnbound(a) PROVE value'[g][w] \in Addr
  BY <1>2, <1>16 DEF CompileUnbound
<1> QED BY <1>4, <1>7, <1>8, <1>9, <1>10, <1>11, <1>12, <1>13, <1>14, <1>15,
           <1>16 DEF Next

\* No variable has a trace yet in the initial state.
LEMMA ReadOnlyInit == Init => BoundVariableHoldsAName
BY DEF Init, BoundVariableHoldsAName

\* A bound variable always names a handle, whatever is written to it.
THEOREM BoundVariableIsReadOnly == Spec => []BoundVariableHoldsAName
BY TypeCorrect, ReadOnlyInit, ReadOnlyStep, PTL DEF Spec

----------------------------------------------------------------------------
(* Memory safety, when every handle is destroyed where its variable's name *)
(* resolves to the variable.                                               *)

\* The inductive invariant: what a trace carries is allocated and bound to
\* that name, and is carried only once.
Safe == NoUseAfterFree /\ NoDanglingTrace /\ TracedOnce
IInv == TypeOK /\ Safe

\* The initial state has no trace and no callback.
LEMMA SafetyInit == Init => Safe
BY DEF Init, Safe, NoUseAfterFree, NoDanglingTrace, TracedOnce, ToSet, IsInjective

\* The callback a write runs has a live handler.
LEMMA WriteIsSafe ==
  ASSUME IInv, NEW f \in Frame, NEW v \in VarName, NEW x, NEW heap,
         Write(f, v, x, heap),
         \A a \in ToSet(traces[f][v]) : heap[a] # Free
  PROVE  ~ub'
PROOF
<1>1. traces[f][v] # << >> => Head(traces[f][v]) \in ToSet(traces[f][v])
  BY PopFront DEF IInv, Safe, TypeOK
<1> QED BY <1>1 DEF Write, IInv, Safe, NoUseAfterFree

\* Under the invariant a handler's address is nowhere among the live traces of
\* a name it is not bound to, nor anywhere when it is free.
LEMMA BoundOnlyOnce ==
  ASSUME IInv, NEW a \in Addr
  PROVE  /\ trace_var[a] = Free => a \notin ToSet(detached)
         /\ \A f \in Frame, v \in VarName :
              a \in ToSet(traces[f][v]) => v = trace_var[a] /\ v # Free
PROOF
<1>1. Free \notin VarName
  BY HandlesAssumption
<1>2. ASSUME a \in ToSet(detached) PROVE trace_var[a] \in VarName
  BY <1>2 DEF IInv, Safe, TracedOnce
<1>3. ASSUME NEW f \in Frame, NEW v \in VarName, a \in ToSet(traces[f][v])
      PROVE  v = trace_var[a]
  BY <1>3 DEF IInv, Safe, NoDanglingTrace
<1> QED BY <1>1, <1>2, <1>3

\* A delete whose handler has no trace out of reach leaves no trace of it.
LEMMA DeleteIsClean ==
  ASSUME IInv, NEW a \in Addr, Delete(a), detached' \in Seq(Addr),
         \A f \in Frame, v \in VarName :
           v = trace_var[a] /\ a \in ToSet(traces[f][v]) => f = Scope(v),
         IsInjective(detached'), ToSet(detached') \subseteq ToSet(detached),
         a \notin ToSet(detached')
  PROVE  NoDanglingTrace' /\ TracedOnce'
PROOF
<1>1. TypeOK
  BY DEF IInv
<1>2. /\ trace_var' = [trace_var EXCEPT ![a] = Free]
      /\ \A f \in Frame, v \in VarName :
           traces'[f][v] = IF v = trace_var[a] /\ f = Scope(v)
                             THEN RemoveFirst(traces[f][v], a)
                             ELSE traces[f][v]
  BY <1>1, DeleteEffect
<1>3. \A b \in Addr : b # a => trace_var'[b] = trace_var[b]
  BY <1>1, <1>2 DEF TypeOK
<1>4. ASSUME NEW f \in Frame, NEW v \in VarName
      PROVE  /\ ToSet(traces'[f][v]) \subseteq ToSet(traces[f][v])
             /\ ToSet(traces[f][v]) \subseteq Addr
             /\ a \notin ToSet(traces'[f][v])
             /\ IsInjective(traces'[f][v])
  <2>1. traces[f][v] \in Seq(Addr) /\ IsInjective(traces[f][v])
    BY DEF IInv, Safe, TypeOK, TracedOnce
  <2>2. ToSet(traces[f][v]) \subseteq Addr
    BY <2>1 DEF ToSet
  <2>3. ToSet(traces'[f][v]) \subseteq ToSet(traces[f][v])
    BY <1>1, DeleteElements
  <2>4. CASE v = trace_var[a] /\ f = Scope(v)
    <3>1. traces'[f][v] = RemoveFirst(traces[f][v], a)
      BY <1>2, <2>4
    <3>2. /\ IsInjective(RemoveFirst(traces[f][v], a))
          /\ a \notin ToSet(RemoveFirst(traces[f][v], a))
      BY <2>1, RemoveFirstInjective
    <3> QED BY <2>2, <2>3, <3>1, <3>2
  <2>5. CASE ~(v = trace_var[a] /\ f = Scope(v))
    <3>1. traces'[f][v] = traces[f][v]
      BY <1>2, <2>5
    <3>2. a \notin ToSet(traces[f][v])
      BY <2>5, BoundOnlyOnce
    <3> QED BY <2>1, <2>2, <3>1, <3>2
  <2> QED BY <2>2, <2>3, <2>4, <2>5
<1>5. NoDanglingTrace'
  <2> SUFFICES ASSUME NEW f \in Frame, NEW v \in VarName,
                      NEW b \in ToSet(traces'[f][v])
               PROVE  trace_var'[b] = v
    BY DEF NoDanglingTrace
  <2>1. b \in Addr /\ b # a /\ b \in ToSet(traces[f][v])
    BY <1>4
  <2> QED BY <1>3, <2>1 DEF IInv, Safe, NoDanglingTrace
<1>6. TracedOnce'
  <2>1. ASSUME NEW b \in ToSet(detached') PROVE trace_var'[b] \in VarName
    <3>1. b \in Addr /\ b # a /\ b \in ToSet(detached)
      BY <2>1 DEF ToSet
    <3> QED BY <1>3, <3>1 DEF IInv, Safe, TracedOnce
  <2>2. ASSUME NEW f \in Frame, NEW v \in VarName
        PROVE  /\ IsInjective(traces'[f][v])
               /\ ToSet(detached') \cap ToSet(traces'[f][v]) = {}
               /\ \A g \in Frame :
                    f # g => ToSet(traces'[f][v]) \cap ToSet(traces'[g][v]) = {}
    <3>1. /\ ToSet(detached) \cap ToSet(traces[f][v]) = {}
          /\ \A g \in Frame :
               f # g => ToSet(traces[f][v]) \cap ToSet(traces[g][v]) = {}
      BY DEF IInv, Safe, TracedOnce
    <3>2. \A g \in Frame : ToSet(traces'[g][v]) \subseteq ToSet(traces[g][v])
      BY <1>4
    <3>3. IsInjective(traces'[f][v])
      BY <1>4
    <3>4. ToSet(detached') \cap ToSet(traces'[f][v]) = {}
      BY <3>1, <3>2
    <3> QED BY <3>1, <3>2, <3>3, <3>4
  <2> QED BY <2>1, <2>2 DEF TracedOnce
<1> QED BY <1>5, <1>6

\* Binding a fresh handler.
LEMMA CompileIsClean ==
  ASSUME IInv, NEW a \in Addr, NEW v \in VarName, CompileBound(a, v)
  PROVE  Safe'
PROOF
<1>1. TypeOK
  BY DEF IInv
<1>2. /\ trace_var[a] = Free
      /\ trace_var' = [trace_var EXCEPT ![a] = v]
      /\ detached = << >> /\ detached' = << >>
      /\ Scope(v) \in Frame
      /\ \A f \in Frame, w \in VarName :
           traces'[f][w] = IF f = Scope(v) /\ w = v
                             THEN <<a>> \o traces[f][w]
                             ELSE traces[f][w]
  BY <1>1, CompileBoundEffect
<1>3. /\ trace_var'[a] = v /\ v # Free
      /\ \A b \in Addr : b # a => trace_var'[b] = trace_var[b]
  BY <1>1, <1>2, HandlesAssumption DEF TypeOK
<1>4. ASSUME NEW f \in Frame, NEW w \in VarName
      PROVE  /\ a \notin ToSet(traces[f][w])
             /\ ToSet(traces[f][w]) \subseteq Addr
             /\ IsInjective(traces'[f][w])
             /\ ToSet(traces'[f][w]) = IF f = Scope(v) /\ w = v
                                        THEN {a} \cup ToSet(traces[f][w])
                                        ELSE ToSet(traces[f][w])
  <2>1. traces[f][w] \in Seq(Addr) /\ IsInjective(traces[f][w])
    BY DEF IInv, Safe, TypeOK, TracedOnce
  <2>2. ToSet(traces[f][w]) \subseteq Addr
    BY <2>1 DEF ToSet
  <2>3. a \notin ToSet(traces[f][w])
    BY <1>2, BoundOnlyOnce
  <2>4. CASE f = Scope(v) /\ w = v
    <3>1. traces'[f][w] = <<a>> \o traces[f][w]
      BY <1>2, <2>4
    <3> QED BY <2>1, <2>2, <2>3, <2>4, <3>1, PushFront
  <2>5. CASE ~(f = Scope(v) /\ w = v)
    <3>1. traces'[f][w] = traces[f][w]
      BY <1>2, <2>5
    <3> QED BY <2>1, <2>2, <2>3, <2>5, <3>1
  <2> QED BY <2>4, <2>5
<1>5. NoUseAfterFree'
  <2>1. \A b \in ToSet(traces[Scope(v)][v]) : trace_var'[b] # Free
    <3> SUFFICES ASSUME NEW b \in ToSet(traces[Scope(v)][v])
                 PROVE  trace_var'[b] # Free
      OBVIOUS
    <3>1. b \in Addr /\ b # a /\ trace_var[b] = v
      BY <1>2, <1>4 DEF IInv, Safe, NoDanglingTrace
    <3> QED BY <1>3, <3>1
  <2>2. Write(Scope(v), v, a, trace_var')
    BY DEF CompileBound
  <2>3. ~ub'
    BY <1>2, <2>1, <2>2, WriteIsSafe
  <2> QED BY <2>3 DEF Safe, NoUseAfterFree
<1>6. NoDanglingTrace'
  <2> SUFFICES ASSUME NEW f \in Frame, NEW w \in VarName,
                      NEW b \in ToSet(traces'[f][w])
               PROVE  trace_var'[b] = w
    BY DEF NoDanglingTrace
  <2>1. CASE b = a
    BY <1>3, <1>4, <2>1
  <2>2. CASE b # a
    <3>1. b \in Addr /\ b \in ToSet(traces[f][w])
      BY <1>4, <2>2
    <3> QED BY <1>3, <2>2, <3>1 DEF IInv, Safe, NoDanglingTrace
  <2> QED BY <2>1, <2>2
<1>7. TracedOnce'
  <2>1. IsInjective(detached') /\ ToSet(detached') = {}
    BY <1>2 DEF IsInjective, ToSet
  <2>2. ASSUME NEW f \in Frame, NEW w \in VarName, NEW g \in Frame, f # g
        PROVE  ToSet(traces'[f][w]) \cap ToSet(traces'[g][w]) = {}
    <3>1. ToSet(traces[f][w]) \cap ToSet(traces[g][w]) = {}
      BY <2>2 DEF IInv, Safe, TracedOnce
    <3> QED BY <1>4, <2>2, <3>1
  <2> QED BY <1>4, <2>1, <2>2 DEF TracedOnce
<1> QED BY <1>5, <1>6, <1>7 DEF Safe

\* Moving the traces of one variable to the callbacks that are about to run.
LEMMA ForgetIsClean ==
  ASSUME IInv, NEW f \in Frame, NEW v \in VarName, Forget(f, v),
         detached = << >>, UNCHANGED <<trace_var, ub>>
  PROVE  Safe'
PROOF
<1>1. TypeOK
  BY DEF IInv
<1>2. /\ detached' = traces[f][v]
      /\ traces'[f][v] = << >>
      /\ \A g \in Frame, w \in VarName :
           ~(g = f /\ w = v) => traces'[g][w] = traces[g][w]
  BY <1>1, ForgetEffect
<1>3. ToSet(traces'[f][v]) = {} /\ IsInjective(traces'[f][v])
  BY <1>2 DEF ToSet, IsInjective
<1>4. NoDanglingTrace'
  <2> SUFFICES ASSUME NEW g \in Frame, NEW w \in VarName,
                      NEW b \in ToSet(traces'[g][w])
               PROVE  trace_var'[b] = w
    BY DEF NoDanglingTrace
  <2>1. b \in ToSet(traces[g][w])
    BY <1>2, <1>3
  <2> QED BY <2>1 DEF IInv, Safe, NoDanglingTrace
<1>5. TracedOnce'
  <2>1. /\ IsInjective(detached')
        /\ \A b \in ToSet(detached') : trace_var'[b] \in VarName
    BY <1>2 DEF IInv, Safe, TracedOnce, NoDanglingTrace
  <2>2. ASSUME NEW g \in Frame, NEW w \in VarName
        PROVE  ToSet(detached') \cap ToSet(traces'[g][w]) = {}
    <3>1. CASE w # v
      BY <1>2, <3>1 DEF IInv, Safe, NoDanglingTrace
    <3>2. CASE w = v /\ g # f
      BY <1>2, <3>2 DEF IInv, Safe, TracedOnce
    <3>3. CASE w = v /\ g = f
      BY <1>3, <3>3
    <3> QED BY <3>1, <3>2, <3>3
  <2>3. ASSUME NEW g \in Frame, NEW w \in VarName
        PROVE  IsInjective(traces'[g][w])
    BY <1>2, <1>3 DEF IInv, Safe, TracedOnce
  <2>4. ASSUME NEW g \in Frame, NEW w \in VarName, NEW h \in Frame, g # h
        PROVE  ToSet(traces'[g][w]) \cap ToSet(traces'[h][w]) = {}
    <3>1. ToSet(traces[g][w]) \cap ToSet(traces[h][w]) = {}
      BY <2>4 DEF IInv, Safe, TracedOnce
    <3> QED BY <1>2, <1>3, <3>1
  <2> QED BY <2>1, <2>2, <2>3, <2>4 DEF TracedOnce
<1> QED BY <1>4, <1>5 DEF IInv, Safe, NoUseAfterFree

\* A new handler without a trace.
LEMMA UntracedIsClean ==
  ASSUME IInv, NEW a \in Addr, trace_var[a] = Free, NEW x,
         trace_var' = [trace_var EXCEPT ![a] = x],
         UNCHANGED <<traces, detached, ub>>
  PROVE  Safe'
PROOF
<1>1. \A b \in Addr : b # a => trace_var'[b] = trace_var[b]
  BY DEF IInv, Safe, TypeOK
<1>2. a \notin ToSet(detached)
  BY BoundOnlyOnce
<1>3. \A f \in Frame, v \in VarName : a \notin ToSet(traces[f][v])
  BY BoundOnlyOnce
<1>4. \A b \in ToSet(detached) : b \in Addr /\ trace_var'[b] = trace_var[b]
  BY <1>1, <1>2 DEF IInv, Safe, TypeOK, ToSet
<1>5. ASSUME NEW f \in Frame, NEW v \in VarName, NEW b \in ToSet(traces[f][v])
      PROVE  trace_var'[b] = trace_var[b]
  <2>1. traces[f][v] \in Seq(Addr)
    BY DEF IInv, Safe, TypeOK
  <2>2. b \in Addr
    BY <2>1 DEF ToSet
  <2> QED BY <1>1, <1>3, <2>2
<1> QED BY <1>4, <1>5 DEF IInv, Safe, NoUseAfterFree, NoDanglingTrace, TracedOnce

\* Every operation keeps the traces clean, provided handles are destroyed in
\* the scope of their variable.
LEMMA SafetyStep ==
  ASSUME ~CrossScope, IInv, [Next]_vars
  PROVE  Safe'
PROOF
<1>1. TypeOK /\ Safe
  BY DEF IInv
<1>2. CASE UNCHANGED <<trace_var, traces, detached, ub>>
  BY <1>1, <1>2 DEF Safe, NoUseAfterFree, NoDanglingTrace, TracedOnce
<1>3. ASSUME NEW f \in Frame, NEW v \in VarName, NEW x,
             Write(f, v, x, trace_var), UNCHANGED <<trace_var, traces, detached>>
      PROVE  Safe'
  <2>1. \A a \in ToSet(traces[f][v]) : trace_var[a] # Free
    BY HandlesAssumption DEF IInv, Safe, NoDanglingTrace
  <2>2. ~ub'
    BY <1>3, <2>1, WriteIsSafe
  <2> QED BY <1>1, <1>3, <2>2 DEF Safe, NoUseAfterFree, NoDanglingTrace, TracedOnce
<1>4. ASSUME NEW a \in Addr, Destroy(a) PROVE Safe'
  <2>1. Delete(a) /\ UNCHANGED <<detached, ub>> /\ detached = << >> /\ InScope(a)
    BY <1>4 DEF Destroy, Idle
  <2>2. /\ detached' \in Seq(Addr) /\ IsInjective(detached')
        /\ ToSet(detached') \subseteq ToSet(detached) /\ a \notin ToSet(detached')
    BY <1>1, <2>1 DEF Safe, TypeOK, TracedOnce, ToSet
  <2>3. NoDanglingTrace' /\ TracedOnce'
    BY <2>1, <2>2, DeleteIsClean DEF InScope
  <2> QED BY <1>1, <2>1, <2>3 DEF Safe, NoUseAfterFree
<1>5. CASE FireUnset
  <2> DEFINE a == Head(detached)
  <2>1. detached # << >> /\ detached \in Seq(Addr) /\ IsInjective(detached)
    BY <1>1, <1>5 DEF FireUnset, Safe, TypeOK, TracedOnce
  <2>2. /\ a \in Addr /\ a \in ToSet(detached)
        /\ Tail(detached) \in Seq(Addr) /\ IsInjective(Tail(detached))
        /\ ToSet(Tail(detached)) \subseteq ToSet(detached)
        /\ a \notin ToSet(Tail(detached))
    BY <2>1, PopFront
  <2>3. Live(a)
    BY <2>2, BoundOnlyOnce DEF Live
  <2>4. Delete(a) /\ detached' = Tail(detached) /\ ub' = ub
    BY <1>5, <2>3 DEF FireUnset
  <2>5. \A f \in Frame, v \in VarName : a \notin ToSet(traces[f][v])
    BY <1>1, <2>2 DEF Safe, TracedOnce
  <2> HIDE DEF a
  <2>6. NoDanglingTrace' /\ TracedOnce'
    BY <2>2, <2>4, <2>5, DeleteIsClean
  <2> QED BY <1>1, <2>4, <2>6 DEF Safe, NoUseAfterFree
<1>6. ASSUME NEW a \in Addr, CompileUnbound(a) PROVE Safe'
  BY <1>6, UntracedIsClean DEF CompileUnbound, Live
<1>7. ASSUME NEW a \in Addr, NEW v \in VarName, CompileUnresolved(a, v)
      PROVE  Safe'
  BY <1>7, UntracedIsClean DEF CompileUnresolved, Live
<1>8. ASSUME NEW a \in Addr, NEW v \in VarName, CompileBound(a, v) PROVE Safe'
  BY <1>8, CompileIsClean
<1>9. ASSUME NEW f \in Frame, NEW v \in VarName, UnsetVar(f, v) PROVE Safe'
  BY <1>9, ForgetIsClean DEF UnsetVar, Idle
<1>10. ASSUME NEW v \in VarName, DropLocal(v) PROVE Safe'
  BY <1>10, ForgetIsClean DEF DropLocal
<1>11. ASSUME NEW v \in VarName, ValidateInline(v) PROVE Safe'
  BY <1>1, <1>3, <1>11, ScopeType DEF ValidateInline
<1>12. ASSUME NEW a \in Addr, NEW v \in VarName, Validate(a, v) PROVE Safe'
  BY <1>1, <1>3, <1>12, ScopeType DEF Validate
<1>13. ASSUME NEW f \in Frame, NEW v \in VarName, NEW x \in Addr \cup {Data},
              SetVar(f, v, x)
       PROVE  Safe'
  BY <1>3, <1>13 DEF SetVar
<1>14. CASE Call \/ Return \/ UNCHANGED vars
  BY <1>2, <1>14 DEF Call, Return, vars
<1> QED BY <1>4, <1>5, <1>6, <1>7, <1>8, <1>9, <1>10, <1>11, <1>12, <1>13, <1>14
        DEF Next

\* If no script destroys a handle outside the scope its variable's name
\* resolves in, no callback ever runs with a freed handler, no trace outlives
\* its handler or is taken over with its address, and none is run twice.
THEOREM TracesAreSafe ==
  ASSUME ~CrossScope
  PROVE  Spec => []NoUseAfterFree /\ []NoDanglingTrace /\ []TracedOnce
PROOF
<1>1. Init => IInv
  BY TypeInit, SafetyInit DEF IInv
<1>2. IInv /\ [Next]_vars => IInv'
  BY SafetyStep, TypeStep DEF IInv
<1>3. IInv => NoUseAfterFree /\ NoDanglingTrace /\ TracedOnce
  BY DEF IInv, Safe
<1> QED BY <1>1, <1>2, <1>3, PTL DEF Spec

\* Under the same condition every trace carries a handler that is allocated
\* and bound to that name.
THEOREM NoTraceDangles ==
  ASSUME ~CrossScope
  PROVE  Spec => []NoDanglingTrace
BY TracesAreSafe, PTL

\* Under the same condition no handler is in two trace lists, or twice in one.
THEOREM HandlersAreTracedOnce ==
  ASSUME ~CrossScope
  PROVE  Spec => []TracedOnce
BY TracesAreSafe, PTL

\* Under the same condition the callbacks of one variable's unset leave every
\* other variable's traces alone.
THEOREM UnsetIsLocal ==
  ASSUME ~CrossScope
  PROVE  Spec => UnsetLeavesOtherTraces
PROOF
<1>1. IInv /\ [Next]_vars => [detached # << >> => traces' = traces]_vars
  <2> SUFFICES ASSUME IInv, Next, detached # << >> PROVE traces' = traces
    OBVIOUS
  <2>1. FireUnset
    BY DEF Next, CompileUnbound, CompileBound, CompileUnresolved, Destroy,
           Validate, ValidateInline, SetVar, UnsetVar, Call, Return, DropLocal,
           Idle
  <2> DEFINE a == Head(detached)
  <2>2. a \in Addr /\ a \in ToSet(detached)
    BY PopFront DEF IInv, Safe, TypeOK
  <2>3. CASE Delete(a)
    <3>1. ASSUME NEW f \in Frame, NEW v \in VarName
          PROVE  traces'[f][v] = traces[f][v]
      <4>1. traces[f][v] \in Seq(Addr) /\ a \notin ToSet(traces[f][v])
        BY <2>2 DEF IInv, Safe, TypeOK, TracedOnce
      <4>2. RemoveFirst(traces[f][v], a) = traces[f][v]
        BY <4>1, RemoveFirstAbsent
      <4> QED BY <2>2, <2>3, <4>2, DeleteEffect DEF IInv
    <3>2. /\ traces' \in [Frame -> [VarName -> Seq(Addr)]]
          /\ traces \in [Frame -> [VarName -> Seq(Addr)]]
      BY <2>2, <2>3, DeleteEffect DEF IInv, Safe, TypeOK
    <3> QED BY <3>1, <3>2
  <2>4. CASE UNCHANGED traces
    BY <2>4
  <2> QED BY <2>1, <2>3, <2>4 DEF FireUnset
<1>2. Init => IInv
  BY TypeInit, SafetyInit DEF IInv
<1>3. IInv /\ [Next]_vars => IInv'
  BY SafetyStep, TypeStep DEF IInv
<1> QED BY <1>1, <1>2, <1>3, PTL DEF Spec, UnsetLeavesOtherTraces

----------------------------------------------------------------------------
(* Handles implements the registry that scripts are promised.              *)

\* A step that touches no trace and no handler is none of the registry's.
LEMMA RegistryStutters ==
  ASSUME UNCHANGED <<trace_var, traces, detached>>
  PROVE  UNCHANGED Registry!vars
PROOF
<1>1. LiveHandles' = LiveHandles
  BY DEF LiveHandles, Live
<1>2. \A a : VariablesOf(a)' = VariablesOf(a)
  BY DEF VariablesOf
<1>3. [a \in Addr |-> VariablesOf(a)]' = [a \in Addr |-> VariablesOf(a)]
  BY <1>2
<1> QED BY <1>1, <1>3 DEF Registry!vars

\* The registry's variables are empty at first.
LEMMA RegistryInit == Init => Registry!Init
PROOF
<1> SUFFICES ASSUME Init PROVE Registry!Init
  OBVIOUS
<1>1. LiveHandles = {} /\ ToSet(detached) = {}
  BY DEF Init, LiveHandles, Live, ToSet
<1>2. \A a \in Addr : VariablesOf(a) = {}
  BY DEF Init, VariablesOf, ToSet
<1> QED BY <1>1, <1>2 DEF Registry!Init

\* A handle without a trace is new in the registry.
LEMMA UntracedIsCompile ==
  ASSUME IInv, NEW a \in Addr, trace_var[a] = Free, NEW x \in VarName \cup {NoVar},
         trace_var' = [trace_var EXCEPT ![a] = x],
         UNCHANGED <<traces, detached>>, detached = << >>
  PROVE  Registry!Compile(a)
PROOF
<1>1. x # Free /\ trace_var \in [Addr -> VarName \cup {NoVar, Free}]
  BY HandlesAssumption DEF IInv, TypeOK
<1>2. LiveHandles' = LiveHandles \cup {a} /\ a \notin LiveHandles
  BY <1>1 DEF LiveHandles, Live
<1>3. \A b : VariablesOf(b)' = VariablesOf(b)
  BY DEF VariablesOf
<1>4. VariablesOf(a) = {}
  <2>1. \A f \in Frame, v \in VarName : a \notin ToSet(traces[f][v])
    BY BoundOnlyOnce
  <2> QED BY <2>1 DEF VariablesOf
<1>5. ToSet(detached) = {} /\ ToSet(detached)' = ToSet(detached)
  BY DEF ToSet
<1> DEFINE owner == [b \in Addr |-> VariablesOf(b)]
<1>6. owner' = [owner EXCEPT ![a] = {}]
  BY <1>3, <1>4
<1> QED BY <1>2, <1>5, <1>6 DEF Registry!Compile

\* A handle that gets a trace is new, and bound to that variable.
LEMMA BoundIsCompile ==
  ASSUME IInv, NEW a \in Addr, NEW v \in VarName, CompileBound(a, v)
  PROVE  Registry!Compile(a)
PROOF
<1>1. /\ trace_var[a] = Free
      /\ trace_var' = [trace_var EXCEPT ![a] = v]
      /\ detached = << >> /\ detached' = << >>
      /\ Scope(v) \in Frame
      /\ \A f \in Frame, w \in VarName :
           traces'[f][w] = IF f = Scope(v) /\ w = v THEN <<a>> \o traces[f][w] ELSE traces[f][w]
  BY CompileBoundEffect DEF IInv
<1>2. v # Free /\ trace_var \in [Addr -> VarName \cup {NoVar, Free}]
  BY HandlesAssumption DEF IInv, TypeOK
<1>3. LiveHandles' = LiveHandles \cup {a} /\ a \notin LiveHandles
  BY <1>1, <1>2 DEF LiveHandles, Live
<1>4. ASSUME NEW f \in Frame, NEW w \in VarName
      PROVE  ToSet(traces'[f][w]) = IF f = Scope(v) /\ w = v
                                      THEN {a} \cup ToSet(traces[f][w]) ELSE ToSet(traces[f][w])
  <2>1. traces[f][w] \in Seq(Addr)
    BY DEF IInv, TypeOK
  <2>2. ToSet(<<a>> \o traces[f][w]) = {a} \cup ToSet(traces[f][w])
    BY <2>1, PushFront
  <2> QED BY <1>1, <2>2
<1>5. \A f \in Frame, w \in VarName : a \notin ToSet(traces[f][w])
  BY <1>1, BoundOnlyOnce
<1>6. ASSUME NEW b \in Addr
      PROVE  VariablesOf(b)' = IF b = a THEN {<<Scope(v), v>>} ELSE VariablesOf(b)
  <2>1. VariablesOf(b)' = {x \in Frame \X VarName : b \in ToSet(traces'[x[1]][x[2]])}
    BY DEF VariablesOf
  <2>2. \A x \in Frame \X VarName : x[1] \in Frame /\ x[2] \in VarName /\ x = <<x[1], x[2]>>
    OBVIOUS
  <2>3. \A x \in Frame \X VarName :
          b \in ToSet(traces'[x[1]][x[2]]) <=>
            \/ b = a /\ x = <<Scope(v), v>>
            \/ b \in ToSet(traces[x[1]][x[2]])
    <3> SUFFICES ASSUME NEW f \in Frame, NEW w \in VarName
                 PROVE  b \in ToSet(traces'[f][w]) <=>
                          \/ b = a /\ <<f, w>> = <<Scope(v), v>>
                          \/ b \in ToSet(traces[f][w])
      BY <2>2
    <3>1. CASE f = Scope(v) /\ w = v
      <4>1. ToSet(traces'[f][w]) = {a} \cup ToSet(traces[f][w])
        BY <1>4, <3>1
      <4> QED BY <3>1, <4>1
    <3>2. CASE ~(f = Scope(v) /\ w = v)
      <4>1. ToSet(traces'[f][w]) = ToSet(traces[f][w])
        BY <1>4, <3>2
      <4>2. <<f, w>> # <<Scope(v), v>>
        BY <3>2
      <4> QED BY <4>1, <4>2
    <3> QED BY <3>1, <3>2
  <2>4. CASE b = a
    <3>1. \A x \in Frame \X VarName : b \notin ToSet(traces[x[1]][x[2]])
      BY <1>5, <2>2, <2>4
    <3>2. <<Scope(v), v>> \in Frame \X VarName
      BY <1>1
    <3> QED BY <2>1, <2>3, <2>4, <3>1, <3>2
  <2>5. CASE b # a
    BY <2>1, <2>3, <2>5 DEF VariablesOf
  <2> QED BY <2>4, <2>5
<1>7. ToSet(detached) = {} /\ ToSet(detached)' = ToSet(detached)
  BY <1>1 DEF ToSet
<1> DEFINE owner == [b \in Addr |-> VariablesOf(b)]
<1>8. owner' = [owner EXCEPT ![a] = {<<Scope(v), v>>}]
  <2>1. owner' = [b \in Addr |-> IF b = a THEN {<<Scope(v), v>>} ELSE VariablesOf(b)]
    BY <1>6
  <2> QED BY <2>1
<1>9. <<Scope(v), v>> \in Frame \X VarName
  BY <1>1
<1> HIDE DEF owner
<1>10. \E vs \in {{}} \cup {{w} : w \in Frame \X VarName} : owner' = [owner EXCEPT ![a] = vs]
  BY <1>8, <1>9
<1> QED BY <1>3, <1>7, <1>10 DEF Registry!Compile, owner

\* A deletion frees one handle and takes no other off its variable.
LEMMA DeleteFrees ==
  ASSUME IInv, NEW a \in Addr, Live(a), Delete(a),
         \A f \in Frame, v \in VarName : a \notin ToSet(traces'[f][v])
  PROVE  /\ LiveHandles' = LiveHandles \ {a} /\ a \in LiveHandles
         /\ \A b \in Addr : VariablesOf(b)' = IF b = a THEN {} ELSE VariablesOf(b)
PROOF
<1>1. trace_var' = [trace_var EXCEPT ![a] = Free] /\ TypeOK
      /\ trace_var \in [Addr -> VarName \cup {NoVar, Free}]
  BY DeleteEffect DEF IInv, TypeOK
<1>2. LiveHandles' = LiveHandles \ {a} /\ a \in LiveHandles
  BY <1>1 DEF LiveHandles, Live
<1>3. \A f \in Frame, v \in VarName :
        \A b : b # a => (b \in ToSet(traces'[f][v]) <=> b \in ToSet(traces[f][v]))
  BY <1>1, DeleteElements
<1>4. \A x \in Frame \X VarName : x[1] \in Frame /\ x[2] \in VarName
  OBVIOUS
<1>5. \A b : VariablesOf(b)' = {x \in Frame \X VarName : b \in ToSet(traces'[x[1]][x[2]])}
  BY DEF VariablesOf
<1>6. ASSUME NEW b \in Addr, b # a PROVE VariablesOf(b)' = VariablesOf(b)
  <2>1. \A x \in Frame \X VarName : b \in ToSet(traces'[x[1]][x[2]]) <=> b \in ToSet(traces[x[1]][x[2]])
    BY <1>3, <1>4, <1>6
  <2> QED BY <1>5, <2>1 DEF VariablesOf
<1>7. VariablesOf(a)' = {}
  BY <1>4, <1>5
<1> QED BY <1>2, <1>6, <1>7

\* A destroy is the registry's.
LEMMA DestroyIsDestroy ==
  ASSUME ~CrossScope, IInv, NEW a \in Addr, Destroy(a), Safe'
  PROVE  Registry!Destroy(a)
PROOF
<1>1. Delete(a) /\ Live(a) /\ UNCHANGED detached /\ detached = << >>
  BY DEF Destroy, Idle
<1>2. TypeOK /\ TypeOK'
  BY TypeStep DEF IInv, Next
<1>3. trace_var'[a] = Free
  BY <1>1, <1>2, DeleteEffect DEF TypeOK
<1>4. \A f \in Frame, v \in VarName : a \notin ToSet(traces'[f][v])
  BY <1>3, HandlesAssumption DEF Safe, NoDanglingTrace
<1>5. /\ LiveHandles' = LiveHandles \ {a} /\ a \in LiveHandles
      /\ \A b \in Addr : VariablesOf(b)' = IF b = a THEN {} ELSE VariablesOf(b)
  BY <1>1, <1>4, DeleteFrees
<1> DEFINE owner == [b \in Addr |-> VariablesOf(b)]
<1>6. owner' = [owner EXCEPT ![a] = {}]
  <2>1. owner' = [b \in Addr |-> IF b = a THEN {} ELSE VariablesOf(b)]
    BY <1>5
  <2> QED BY <2>1
<1>7. ToSet(detached) = {} /\ ToSet(detached)' = ToSet(detached)
  BY <1>1 DEF ToSet
<1> QED BY <1>5, <1>6, <1>7 DEF Registry!Destroy

\* The end of a variable is the registry's.
LEMMA ForgetIsEnd ==
  ASSUME IInv, NEW f \in Frame, NEW v \in VarName, Forget(f, v), detached = << >>,
         UNCHANGED trace_var
  PROVE  Registry!End(<<f, v>>)
PROOF
<1>1. /\ detached' = traces[f][v]
      /\ \A g \in Frame, w \in VarName :
           IF g = f /\ w = v THEN traces'[g][w] = << >> ELSE traces'[g][w] = traces[g][w]
  BY ForgetEffect DEF IInv
<1>2. \A x \in Frame \X VarName : x[1] \in Frame /\ x[2] \in VarName /\ x = <<x[1], x[2]>>
  OBVIOUS
<1>3. <<f, v>> \in Frame \X VarName
  OBVIOUS
<1>4. ToSet(detached) = {} /\ ToSet(detached)' = ToSet(traces[f][v]) /\ ToSet(<< >>) = {}
  BY <1>1 DEF ToSet
<1>5. traces[f][v] \in Seq(Addr)
  BY DEF IInv, TypeOK
<1>6. ToSet(traces[f][v]) = {a \in Addr : <<f, v>> \in VariablesOf(a)}
  <2>1. ToSet(traces[f][v]) \subseteq Addr
    BY <1>5 DEF ToSet
  <2>2. \A a : <<f, v>> \in VariablesOf(a) <=> a \in ToSet(traces[f][v])
    BY <1>3 DEF VariablesOf
  <2> QED BY <2>1, <2>2
<1>7. ASSUME NEW a \in Addr PROVE VariablesOf(a)' = VariablesOf(a) \ {<<f, v>>}
  <2>1. VariablesOf(a)' = {x \in Frame \X VarName : a \in ToSet(traces'[x[1]][x[2]])}
    BY DEF VariablesOf
  <2>2. \A x \in Frame \X VarName :
          a \in ToSet(traces'[x[1]][x[2]]) <=> a \in ToSet(traces[x[1]][x[2]]) /\ x # <<f, v>>
    BY <1>1, <1>2, <1>4
  <2> QED BY <2>1, <2>2 DEF VariablesOf
<1>8. LiveHandles' = LiveHandles
  BY DEF LiveHandles, Live
<1> DEFINE owner == [b \in Addr |-> VariablesOf(b)]
<1>9. owner' = [b \in Addr |-> owner[b] \ {<<f, v>>}]
  BY <1>7
<1>10. ToSet(detached)' = {a \in Addr : <<f, v>> \in owner[a]}
  BY <1>4, <1>6
<1> QED BY <1>3, <1>4, <1>8, <1>9, <1>10 DEF Registry!End

\* The unset callback is the registry's handle following its variable.
LEMMA FireUnsetFollows ==
  ASSUME IInv, FireUnset
  PROVE  \E a \in Addr : Registry!Follow(a)
PROOF
<1> DEFINE a == Head(detached)
<1>1. TypeOK /\ detached \in Seq(Addr) /\ detached # << >> /\ IsInjective(detached)
  BY DEF IInv, Safe, TypeOK, TracedOnce, FireUnset
<1>2. /\ a \in Addr /\ a \in ToSet(detached)
      /\ ToSet(Tail(detached)) \subseteq ToSet(detached)
      /\ ToSet(detached) \ {a} \subseteq ToSet(Tail(detached))
      /\ a \notin ToSet(Tail(detached))
  BY <1>1, PopFront
<1>3. Live(a)
  BY <1>2, BoundOnlyOnce DEF Live
<1>4. Delete(a) /\ detached' = Tail(detached)
  BY <1>3 DEF FireUnset
<1>5. \A f \in Frame, v \in VarName : a \notin ToSet(traces[f][v])
  BY <1>2 DEF IInv, Safe, TracedOnce
<1> HIDE DEF a
<1>6. \A f \in Frame, v \in VarName : a \notin ToSet(traces'[f][v])
  BY <1>1, <1>2, <1>4, <1>5, DeleteElements
<1>7. /\ LiveHandles' = LiveHandles \ {a} /\ a \in LiveHandles
      /\ \A b \in Addr : VariablesOf(b)' = IF b = a THEN {} ELSE VariablesOf(b)
  BY <1>2, <1>3, <1>4, <1>6, DeleteFrees
<1>8. VariablesOf(a) = {}
  BY <1>5 DEF VariablesOf
<1>9. \A b \in Addr : VariablesOf(b)' = VariablesOf(b)
  BY <1>7, <1>8
<1>10. [b \in Addr |-> VariablesOf(b)]' = [b \in Addr |-> VariablesOf(b)]
  BY <1>9
<1>11. ToSet(detached)' = ToSet(detached) \ {a}
  <2>1. ToSet(detached)' = ToSet(Tail(detached))
    BY <1>4 DEF ToSet
  <2> QED BY <1>2, <2>1
<1> QED BY <1>2, <1>7, <1>10, <1>11 DEF Registry!Follow

\* Every step of the handles is a step of the registry, or none.
LEMMA RegistryStep ==
  ASSUME ~CrossScope, IInv, [Next]_vars
  PROVE  [Registry!Next]_(Registry!vars)
PROOF
<1>1. Safe'
  BY SafetyStep
<1>2. CASE UNCHANGED <<trace_var, traces, detached>>
  BY <1>2, RegistryStutters
<1>3. ASSUME NEW a \in Addr, CompileUnbound(a) PROVE Registry!Next
  <2>1. Registry!Compile(a)
    BY <1>3, UntracedIsCompile DEF CompileUnbound, Live, Idle
  <2> QED BY <2>1 DEF Registry!Next
<1>4. ASSUME NEW a \in Addr, NEW v \in VarName, CompileUnresolved(a, v) PROVE Registry!Next
  <2>1. Registry!Compile(a)
    BY <1>4, UntracedIsCompile DEF CompileUnresolved, Live, Idle
  <2> QED BY <2>1 DEF Registry!Next
<1>5. ASSUME NEW a \in Addr, NEW v \in VarName, CompileBound(a, v) PROVE Registry!Next
  BY <1>5, BoundIsCompile DEF Registry!Next
<1>6. ASSUME NEW a \in Addr, Destroy(a) PROVE Registry!Next
  BY <1>1, <1>6, DestroyIsDestroy DEF Registry!Next
<1>7. ASSUME NEW f \in Frame, NEW v \in VarName, UnsetVar(f, v) PROVE Registry!Next
  <2>1. Registry!End(<<f, v>>)
    BY <1>7, ForgetIsEnd DEF UnsetVar, Idle
  <2> QED BY <2>1 DEF Registry!Next
<1>8. ASSUME NEW v \in VarName, DropLocal(v) PROVE Registry!Next
  <2>1. PICK f \in Frame : Forget(f, v)
    BY <1>8 DEF DropLocal
  <2>2. Registry!End(<<f, v>>)
    BY <1>8, <2>1, ForgetIsEnd DEF DropLocal
  <2> QED BY <2>2 DEF Registry!Next
<1>9. CASE FireUnset
  BY <1>9, FireUnsetFollows DEF Registry!Next
<1>10. ASSUME NEW v \in VarName, ValidateInline(v) PROVE UNCHANGED <<trace_var, traces, detached>>
  BY <1>10 DEF ValidateInline
<1>11. ASSUME NEW a \in Addr, NEW v \in VarName, Validate(a, v)
       PROVE  UNCHANGED <<trace_var, traces, detached>>
  BY <1>11 DEF Validate
<1>12. ASSUME NEW f \in Frame, NEW v \in VarName, NEW x \in Addr \cup {Data}, SetVar(f, v, x)
       PROVE  UNCHANGED <<trace_var, traces, detached>>
  BY <1>12 DEF SetVar
<1>13. CASE Call \/ Return \/ UNCHANGED vars
  BY <1>2, <1>13 DEF Call, Return, vars
<1> QED BY <1>2, <1>3, <1>4, <1>5, <1>6, <1>7, <1>8, <1>9, <1>10, <1>11, <1>12, <1>13
        DEF Next

\* If no script destroys a handle outside its variable's scope, handles come
\* and go exactly as in the registry: nothing that happens to one handle, its
\* traces or its variable frees another or unbinds it.
THEOREM HandlesImplementRegistry ==
  ASSUME ~CrossScope
  PROVE  Spec => Registry!Safety
PROOF
<1>1. Init => IInv
  BY TypeInit, SafetyInit DEF IInv
<1>2. IInv /\ [Next]_vars => IInv'
  BY SafetyStep, TypeStep DEF IInv
<1>3. IInv /\ [Next]_vars => [Registry!Next]_(Registry!vars)
  BY RegistryStep
<1> QED BY <1>1, <1>2, <1>3, RegistryInit, PTL DEF Spec, Registry!Safety
=============================================================================
