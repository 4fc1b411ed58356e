------------------------------ MODULE Handles ------------------------------
(***************************************************************************)
(* The life of compiled schema handles (src/library.c).                    *)
(*                                                                         *)
(* ::tjv::compile allocates a handler, registers a Tcl command named after *)
(* the handler's address and, when a variable is named, stores the command *)
(* name in that variable and hangs a write/unset trace on it whose         *)
(* clientData is the handler.  The handler dies with its command: by       *)
(* "$h destroy", or by the unset callback of the bound variable.           *)
(*                                                                         *)
(* Tcl itself (variables, frames, trace lists) is external and modelled as *)
(* the code uses it: a frame per procedure call, a trace list per variable *)
(* with the most recent trace first, a write that stops at the first       *)
(* callback returning an error, an unset that first detaches the trace     *)
(* list and then runs the callbacks one after the other.                   *)
(***************************************************************************)
EXTENDS Naturals, Sequences, SequencesExt

CONSTANTS
  Addr,           \* addresses the allocator can return for a handler
  VarName,        \* variable names that scripts use
  QualifiedName,  \* the names that start with ::, which live in frame 1
  Unresolvable,   \* the names in a namespace that does not exist
  MaxDepth,       \* bound: frames on the Tcl call stack (frame 1 is global)
  CrossScope,     \* may a script destroy a handle from another frame than
                  \* the one its variable is in?
  NoVar,          \* h->trace_var = NULL: the handle is bound to no variable
  Free,           \* no handler is allocated at the address
  Unset,          \* the variable does not exist
  Data            \* a value that names no handle

ASSUME HandlesAssumption ==
  /\ QualifiedName \subseteq VarName
  /\ Unresolvable \subseteq QualifiedName
  /\ MaxDepth \in Nat \ {0}
  /\ CrossScope \in BOOLEAN
  /\ NoVar \notin VarName /\ Free \notin VarName /\ NoVar # Free
  /\ Unset \notin Addr /\ Data \notin Addr /\ Unset # Data

VARIABLES
  trace_var,  \* per address: the bound name, NoVar, or Free
  value,      \* per frame and name: the value
  traces,     \* per frame and name: the clientData of its tjv traces
  detached,   \* callbacks of an unset under way that still have to run
  depth,      \* the current frame
  ub          \* a callback was entered with a freed handler

vars == <<trace_var, value, traces, detached, depth, ub>>

Frame == 1..MaxDepth
Live(a) == trace_var[a] # Free

\* The frame a name resolves in when code runs in the current frame.
Scope(v) == IF v \in QualifiedName THEN 1 ELSE depth

\* The names of the variables that frame f can hold.
NamesOf(f) == IF f = 1 THEN VarName \ Unresolvable ELSE VarName \ QualifiedName

\* A procedure has returned and its locals are still being deleted.
Unwinding == \E f \in Frame, v \in VarName : f > depth /\ value[f][v] # Unset

\* A script command can start: no callback is running, nothing is corrupted.
Idle == detached = << >> /\ ~Unwinding /\ ~ub

Init ==
  /\ trace_var = [a \in Addr |-> Free]
  /\ value = [f \in Frame |-> [v \in VarName |-> Unset]]
  /\ traces = [f \in Frame |-> [v \in VarName |-> << >>]]
  /\ detached = << >>
  /\ depth = 1
  /\ ub = FALSE

----------------------------------------------------------------------------
(* What the callbacks do.                                                  *)

\* Faults: the trace does not restore the value; it restores the name of the
\* variable in place of the name of the handle.
WriteNotRestored(f, v, x, heap) ==
  /\ value' = [value EXCEPT ![f][v] = x]
  /\ ub' = (traces[f][v] # << >> /\ heap[Head(traces[f][v])] = Free)
WriteRestoresVarName(f, v, x, heap) ==
  /\ value' = [value EXCEPT ![f][v] = IF traces[f][v] = << >> THEN x ELSE v]
  /\ ub' = (traces[f][v] # << >> /\ heap[Head(traces[f][v])] = Free)

\* A write of x to variable v of frame f.  The first write callback puts the
\* name of its handle back and returns "readonly variable", which ends the
\* walk of the trace list.  heap is the allocator's state at the write.
Write(f, v, x, heap) ==
  LET callbacks == traces[f][v] IN
  \/ /\ callbacks = << >>
     /\ value' = [value EXCEPT ![f][v] = x]
     /\ ub' = ub
  \/ /\ callbacks # << >>
     /\ heap[Head(callbacks)] # Free
     /\ value' = [value EXCEPT ![f][v] = Head(callbacks)]
     /\ ub' = ub
  \/ /\ callbacks # << >>
     /\ heap[Head(callbacks)] = Free
     /\ value' = value
     /\ ub' = TRUE

\* Faults: the trace stays behind; it is looked up in the global frame; the
\* traces are taken off without comparing clientData.
DeleteWithoutUntrace(a) ==
  trace_var' = [trace_var EXCEPT ![a] = Free] /\ traces' = traces
DeleteGlobally(a) ==
  /\ trace_var' = [trace_var EXCEPT ![a] = Free]
  /\ traces' = IF trace_var[a] \in VarName
                 THEN [traces EXCEPT ![1][trace_var[a]] = RemoveFirst(@, a)]
                 ELSE traces
DeleteAllTraces(a) ==
  /\ trace_var' = [trace_var EXCEPT ![a] = Free]
  /\ traces' = IF trace_var[a] \in VarName
                 THEN [traces EXCEPT ![Scope(trace_var[a])][trace_var[a]] = << >>]
                 ELSE traces

\* The command delete callback of the handler at a: the trace is looked up by
\* the variable's name in the frame that is current now; a name that does not
\* resolve, or whose list has no such trace, is ignored.
Delete(a) ==
  LET v == trace_var[a] IN
  /\ traces' = IF v \in VarName
                 THEN [traces EXCEPT ![Scope(v)][v] = RemoveFirst(@, a)]
                 ELSE traces
  /\ trace_var' = [trace_var EXCEPT ![a] = Free]

\* Unset variable v of frame f: Tcl forgets the value, detaches the traces.
Forget(f, v) ==
  /\ value' = [value EXCEPT ![f][v] = Unset]
  /\ detached' = traces[f][v]
  /\ traces' = [traces EXCEPT ![f][v] = << >>]

----------------------------------------------------------------------------
(* Commands of the extension.                                              *)

\* ::tjv::compile without a variable.
CompileUnbound(a) ==
  /\ Idle /\ ~Live(a)
  /\ trace_var' = [trace_var EXCEPT ![a] = NoVar]
  /\ UNCHANGED <<value, traces, detached, depth, ub>>

\* Fault: the new trace is registered twice.
CompileTracesTwice(a, v) ==
  /\ Idle /\ ~Live(a) /\ v \in NamesOf(Scope(v))
  /\ trace_var' = [trace_var EXCEPT ![a] = v]
  /\ Write(Scope(v), v, a, trace_var')
  /\ traces' = [traces EXCEPT ![Scope(v)][v] = <<a, a>> \o @]
  /\ UNCHANGED <<detached, depth>>

\* ::tjv::compile with the name v: the variable is assigned first, which runs
\* the callbacks it already has, then the new trace goes in front of them.
CompileBound(a, v) ==
  /\ Idle /\ ~Live(a) /\ v \in NamesOf(Scope(v))
  /\ trace_var' = [trace_var EXCEPT ![a] = v]
  /\ Write(Scope(v), v, a, trace_var')
  /\ traces' = [traces EXCEPT ![Scope(v)][v] = <<a>> \o @]
  /\ UNCHANGED <<detached, depth>>

\* ::tjv::compile with a name in a missing namespace: neither the assignment
\* nor the trace succeeds and neither result is looked at.
CompileUnresolved(a, v) ==
  /\ Idle /\ ~Live(a) /\ v \in Unresolvable
  /\ trace_var' = [trace_var EXCEPT ![a] = v]
  /\ UNCHANGED <<value, traces, detached, depth, ub>>

\* The trace of the handler at a is on a variable that a's name reaches from
\* the current frame, or on none.
InScope(a) ==
  \A f \in Frame, v \in VarName :
    v = trace_var[a] /\ a \in ToSet(traces[f][v]) => f = Scope(v)

\* "$h destroy", or any other deletion of the command.
Destroy(a) ==
  /\ Idle /\ Live(a)
  /\ CrossScope \/ InScope(a)
  /\ Delete(a)
  /\ UNCHANGED <<value, detached, depth, ub>>

\* "$h validate value out" and "::tjv::validate $h value out": the outcome or
\* the error dictionary is assigned to out.  Without out no state changes.
Validate(a, out) ==
  /\ Idle /\ Live(a) /\ out \in NamesOf(Scope(out))
  /\ Write(Scope(out), out, Data, trace_var)
  /\ UNCHANGED <<trace_var, traces, detached, depth>>

\* "::tjv::validate schema value out": the schema is compiled, used and freed
\* inside the command and never becomes a handle.
ValidateInline(out) ==
  /\ Idle /\ out \in NamesOf(Scope(out))
  /\ Write(Scope(out), out, Data, trace_var)
  /\ UNCHANGED <<trace_var, traces, detached, depth>>

----------------------------------------------------------------------------
(* The script around them.                                                 *)

\* A write to a variable of any active frame (upvar reaches the others).
SetVar(f, v, x) ==
  /\ Idle /\ f <= depth /\ v \in NamesOf(f)
  /\ Write(f, v, x, trace_var)
  /\ UNCHANGED <<trace_var, traces, detached, depth>>

\* unset of a variable of any active frame.
UnsetVar(f, v) ==
  /\ Idle /\ f <= depth /\ value[f][v] # Unset
  /\ Forget(f, v)
  /\ UNCHANGED <<trace_var, depth, ub>>

Call ==
  /\ Idle /\ depth < MaxDepth
  /\ depth' = depth + 1
  /\ UNCHANGED <<trace_var, value, traces, detached, ub>>

\* A return makes the caller current before the locals are deleted.
Return ==
  /\ Idle /\ depth > 1
  /\ depth' = depth - 1
  /\ UNCHANGED <<trace_var, value, traces, detached, ub>>

DropLocal(v) ==
  /\ detached = << >> /\ ~ub
  /\ \E f \in Frame :
       /\ f > depth /\ value[f][v] # Unset
       /\ Forget(f, v)
  /\ UNCHANGED <<trace_var, depth, ub>>

\* Faults: the unset callback looks its variable up and stands down when the
\* current frame has none of that name; it leaves the command alone.
FireUnsetIfResolved ==
  /\ detached # << >> /\ ~ub
  /\ LET a == Head(detached) IN
       IF value[Scope(trace_var[a])][trace_var[a]] = Unset
         THEN trace_var' = trace_var /\ traces' = traces ELSE Delete(a)
  /\ detached' = Tail(detached)
  /\ UNCHANGED <<value, depth, ub>>
FireUnsetKeepsCommand ==
  /\ detached # << >> /\ ~ub
  /\ detached' = Tail(detached)
  /\ UNCHANGED <<trace_var, value, traces, depth, ub>>

\* The unset callback of the next detached trace deletes the command.
FireUnset ==
  /\ detached # << >> /\ ~ub
  /\ \/ /\ Live(Head(detached))
        /\ Delete(Head(detached))
        /\ detached' = Tail(detached)
        /\ ub' = ub
     \/ /\ ~Live(Head(detached))
        /\ ub' = TRUE
        /\ UNCHANGED <<trace_var, traces, detached>>
  /\ UNCHANGED <<value, depth>>

Next ==
  \/ \E a \in Addr :
       \/ CompileUnbound(a)
       \/ Destroy(a)
       \/ \E v \in VarName :
            \/ CompileBound(a, v)
            \/ CompileUnresolved(a, v)
            \/ Validate(a, v)
  \/ \E v \in VarName : ValidateInline(v) \/ DropLocal(v)
  \/ \E f \in Frame, v \in VarName :
       UnsetVar(f, v) \/ \E x \in Addr \cup {Data} : SetVar(f, v, x)
  \/ Call \/ Return \/ FireUnset

\* Tcl runs the callbacks of an unset, and deletes the locals of a procedure,
\* to the end before it runs another command.  Nothing else is promised.
Fairness ==
  /\ WF_vars(FireUnset)
  /\ WF_vars(\E v \in VarName : DropLocal(v))

Spec == Init /\ [][Next]_vars /\ Fairness

----------------------------------------------------------------------------
(* Properties.                                                             *)

\* The state has the shape the code gives it.
TypeOK ==
  /\ trace_var \in [Addr -> VarName \cup {NoVar, Free}]
  /\ value \in [Frame -> [VarName -> Addr \cup {Unset, Data}]]
  /\ traces \in [Frame -> [VarName -> Seq(Addr)]]
  /\ detached \in Seq(Addr)
  /\ depth \in Frame
  /\ ub \in BOOLEAN

\* No trace callback is ever entered with a handler that was freed: the delete
\* callback removes the trace before ckfree (library.c:336-345), whatever
\* sequence of compile, destroy, set, unset, call and return came before.
NoUseAfterFree == ~ub

\* Every trace on a variable carries a handler that is allocated and bound to
\* a variable of that name: a trace of an earlier owner of the address, which
\* the allocator may hand out again, is never taken for the new one's.
NoDanglingTrace ==
  \A f \in Frame, v \in VarName :
    \A a \in ToSet(traces[f][v]) : trace_var[a] = v

\* The unset callback of the handler at a runs, now or with its variable.
Watched(a) ==
  \/ a \in ToSet(detached)
  \/ \E f \in Frame : a \in ToSet(traces[f][trace_var[a]])

\* A handle bound to a variable is destroyed with it, so its trace is on a
\* variable of that name or is waiting to run: no sequence of rebinding,
\* writes and unsets leaves a bound handle that nothing will free.
OwnedHandleIsWatched ==
  \A a \in Addr : trace_var[a] \in VarName \ Unresolvable => Watched(a)

\* A handler hangs on one variable, once, or waits once in the callbacks of an
\* unset: no trace runs twice and no second trace survives the handler.
TracedOnce ==
  /\ IsInjective(detached)
  /\ \A a \in ToSet(detached) : trace_var[a] \in VarName
  /\ \A f \in Frame, v \in VarName :
       /\ IsInjective(traces[f][v])
       /\ ToSet(detached) \cap ToSet(traces[f][v]) = {}
       /\ \A g \in Frame :
            f # g => ToSet(traces[f][v]) \cap ToSet(traces[g][v]) = {}

\* A variable with a handle bound to it is read-only: after any write, by the
\* script, by a validation's outcome or by another compile, it names a handle.
BoundVariableHoldsAName ==
  \A f \in Frame, v \in VarName :
    traces[f][v] # << >> => value[f][v] \in Addr

\* "If the variable is deleted, the handle will be destroyed" (readme.md:145):
\* once an unset has taken the trace of a handle off, the handle is freed.
UnsetReleasesHandle ==
  \A a \in Addr : a \in ToSet(detached) ~> ~Live(a)

\* "On exiting the procedure, the local variable will be deleted, and the
\* handle will be deleted along with it" (readme.md:145).
ReturnReleasesHandle ==
  \A a \in Addr, f \in Frame, v \in VarName :
    (a \in ToSet(traces[f][v]) /\ f > depth) ~> ~Live(a)

\* While the callbacks of one variable's unset run, the delete callback looks up
\* the bound name in the frame that is current by then: it never takes a trace
\* off another variable that happens to have the same name there.
UnsetLeavesOtherTraces ==
  [][detached # << >> => traces' = traces]_vars

\* The registry of handles that the traces and callbacks amount to: a handle's
\* variable is the one its trace is on.
LiveHandles == {a \in Addr : Live(a)}
VariablesOf(a) == {x \in Frame \X VarName : a \in ToSet(traces[x[1]][x[2]])}

Registry == INSTANCE HandleRegistry WITH
  Handle <- Addr, Variable <- Frame \X VarName,
  live <- LiveHandles, owner <- [a \in Addr |-> VariablesOf(a)], doomed <- ToSet(detached)

\* Handles come and go as scripts are promised: a handle is freed by its own
\* destroy or after the end of its own variable, and by nothing that happens
\* to other handles, however the traces on the same or on other variables lie.
ImplementsRegistry == Registry!Spec

\* "the handle will also be assigned to the specified variable"
\* (readme.md:145): a bound variable names the handle bound to it last.
BoundVariableNamesItsHandle ==
  \A f \in Frame, v \in VarName :
    traces[f][v] # << >> => value[f][v] = Head(traces[f][v])
=============================================================================
