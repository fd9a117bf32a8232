-------------------------- MODULE LiveSelection --------------------------
(***************************************************************************)
(* What the linker promises whenever it selects a part of its input by     *)
(* following references: sections in garbage collection, archive members   *)
(* and shared objects in symbol resolution.  Whatever the threads do, it   *)
(* selects things one by one, only live ones, never takes one back, and    *)
(* succeeds only when it has selected everything that is live.             *)
(***************************************************************************)
CONSTANTS
  Required,  \* what is selected to begin with
  Live       \* what the output needs

VARIABLES
  loaded,    \* what has been selected so far
  outcome    \* "Running", then "Ok" or "Err"

Init ==
  /\ loaded = Required
  /\ outcome = "Running"

Select(x) ==
  /\ outcome = "Running"
  /\ loaded' = loaded \cup {x}
  /\ UNCHANGED outcome

Succeed ==
  /\ outcome = "Running"
  /\ loaded = Live
  /\ outcome' = "Ok"
  /\ UNCHANGED loaded

Fail ==
  /\ outcome = "Running"
  /\ outcome' = "Err"
  /\ UNCHANGED loaded

Next ==
  \/ \E x \in Live : Select(x)
  \/ Succeed
  \/ Fail

vars == <<loaded, outcome>>

Spec == Init /\ [][Next]_vars

==========================================================================
