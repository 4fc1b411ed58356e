--------------------------- MODULE HandleRegistry ---------------------------
(***************************************************************************)
(* What scripts are promised of handles (readme.md:139-147): a handle is   *)
(* there from its compilation until it is destroyed or its variable ends,  *)
(* and then only its own variable's end takes it along.  There are no      *)
(* traces, callbacks or scopes here; Handles implements this.              *)
(***************************************************************************)
CONSTANTS
  Handle,
  Variable

VARIABLES
  live,    \* the handles that exist
  owner,   \* per handle: the variable it is bound to, as a set of at most one
  doomed   \* the handles whose variable has ended, and which will follow

vars == <<live, owner, doomed>>

Init ==
  /\ live = {} /\ doomed = {}
  /\ owner = [h \in Handle |-> {}]

\* ::tjv::compile, with or without a variable.
Compile(h) ==
  /\ doomed = {} /\ h \notin live
  /\ live' = live \cup {h}
  /\ \E vs \in {{}} \cup {{v} : v \in Variable} : owner' = [owner EXCEPT ![h] = vs]
  /\ UNCHANGED doomed

\* "$h destroy".
Destroy(h) ==
  /\ doomed = {} /\ h \in live
  /\ live' = live \ {h}
  /\ owner' = [owner EXCEPT ![h] = {}]
  /\ UNCHANGED doomed

\* A variable is unset, or goes with its procedure.
End(v) ==
  /\ doomed = {}
  /\ doomed' = {h \in Handle : v \in owner[h]}
  /\ owner' = [h \in Handle |-> owner[h] \ {v}]
  /\ UNCHANGED live

\* A handle follows its variable, before anything else is done.
Follow(h) ==
  /\ h \in doomed
  /\ live' = live \ {h} /\ doomed' = doomed \ {h}
  /\ UNCHANGED owner

Next ==
  \/ \E h \in Handle : Compile(h) \/ Destroy(h) \/ Follow(h)
  \/ \E v \in Variable : End(v)

Safety == Init /\ [][Next]_vars

Spec == Safety /\ WF_vars(\E h \in Handle : Follow(h))

=============================================================================
