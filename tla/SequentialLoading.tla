------------------------- MODULE SequentialLoading -------------------------
(***************************************************************************)
(* What loading the inputs promises: the files, and the error, that one    *)
(* thread finds which opens the files of the command line in order.  It    *)
(* opens no file twice, what a script asks for at the script's place, and  *)
(* dependent libraries after everything else, in the order in which they   *)
(* were asked for.                                                         *)
(***************************************************************************)
EXTENDS Sequences

CONSTANT NoPath  \* no file was found

VARIABLES
  inputs,  \* the files of the command line, constant
  files,   \* what each file holds, constant
  agenda,  \* files to open next, in order
  later,   \* dependent libraries to open when the agenda is empty
  seen,    \* files that were opened
  loaded,  \* what they held
  result   \* of loading, and whether a file was changed meanwhile

vars == <<inputs, files, agenda, later, seen, loaded, result>>

Init ==
  /\ agenda = inputs /\ later = << >>
  /\ seen = {} /\ loaded = << >>
  /\ result = [state |-> "none"]

Error(p) == [state |-> "error", path |-> p]

Missing == \E i \in DOMAIN inputs : inputs[i] = NoPath

(* A name on the command line leads nowhere: nothing is opened.            *)
Reject ==
  /\ result.state = "none" /\ Missing
  /\ agenda' = << >>
  /\ result' = Error(NoPath)
  /\ UNCHANGED <<inputs, files, later, seen, loaded>>

Opens(p) == result.state = "none" /\ ~Missing /\ agenda # << >> /\ p = Head(agenda)

Skip(p) ==
  /\ Opens(p) /\ p \in seen
  /\ agenda' = Tail(agenda)
  /\ UNCHANGED <<inputs, files, later, seen, loaded, result>>

Load(p) ==
  /\ Opens(p) /\ p \notin seen /\ ~files[p].fails
  /\ seen' = seen \cup {p}
  /\ loaded' = loaded \o files[p].records
  /\ IF files[p].script
     THEN agenda' = files[p].asks \o Tail(agenda) /\ UNCHANGED later
     ELSE agenda' = Tail(agenda) /\ later' = later \o files[p].asks
  /\ UNCHANGED <<inputs, files, result>>

(* The first error ends it.                                                *)
Fail(p) ==
  /\ Opens(p) /\ p \notin seen /\ files[p].fails
  /\ seen' = seen \cup {p}
  /\ result' = Error(p)
  /\ UNCHANGED <<inputs, files, agenda, later, loaded>>

LoadLater ==
  /\ result.state = "none" /\ ~Missing
  /\ agenda = << >> /\ later # << >>
  /\ agenda' = <<Head(later)>>
  /\ later' = Tail(later)
  /\ UNCHANGED <<inputs, files, seen, loaded, result>>

Finish ==
  /\ result.state = "none" /\ ~Missing
  /\ agenda = << >> /\ later = << >>
  /\ result' = [state |-> "loaded"]
  /\ UNCHANGED <<inputs, files, agenda, later, seen, loaded>>

(* A file has changed since it was opened.                                 *)
Refuse ==
  /\ result.state # "none"
  /\ result' = [state |-> "changed"]
  /\ UNCHANGED <<inputs, files, agenda, later, seen, loaded>>

Next ==
  \/ Reject
  \/ \E p \in DOMAIN files : Skip(p) \/ Load(p) \/ Fail(p)
  \/ LoadLater
  \/ Finish
  \/ Refuse

Spec == Init /\ [][Next]_vars
==========================================================================
