--------------------------- MODULE LoadingOrder ---------------------------
(***************************************************************************)
(* InputLoading implements SequentialLoading: whatever the threads that    *)
(* open the files did, extraction finds what one thread would have found   *)
(* that opens them in order.                                               *)
(*                                                                         *)
(* What a file yields depends on the modifiers of whoever claims it, hence *)
(* the two agree where all who ask for a file ask with the same modifiers. *)
(***************************************************************************)
EXTENDS InputLoading

CONSTANT OpenedWith  \* the modifiers of the files that are opened, by world

ModifiersOf(p) == OpenedWith[world][p]
Reached == DOMAIN OpenedWith[world]

(* The inputs a file asks for.                                             *)
AskedBy(p) == Asks(world.files[p], ModifiersOf(p))

OnCommandLine(p) == \E i \in DOMAIN world.inputs : PathOf(world.inputs[i]) = p

(* OpenedWith names the modifiers of the first input of a path and, for a  *)
(* path that is not on the command line, of everybody who asks for it.     *)
ModifiersAgree ==
  /\ Reached \subseteq Path
  /\ \A p \in Reached : ModifiersOf(p) \in Modifiers
  /\ \A i \in FirstInputs : LET p == PathOf(world.inputs[i]) IN
       p # NoPath => p \in Reached /\ ModifiersOf(p) = world.inputs[i].modifiers
  /\ \A p \in Reached : \A i \in DOMAIN AskedBy(p) : LET q == PathOf(AskedBy(p)[i]) IN
       q # NoPath => q \in Reached /\ (OnCommandLine(q) \/ ModifiersOf(q) = AskedBy(p)[i].modifiers)

---------------------------------------------------------------------------
(* The files of the command line, in the order in which they appear first. *)
FirstAt(n) == CHOOSE i \in FirstInputs : LoadIndex(i) = n - 1

FirstPaths == [n \in 1 .. Cardinality(FirstInputs) |-> PathOf(world.inputs[FirstAt(n)])]

(* Records without the version of the file they were read from.            *)
Contents(records) ==
  [i \in DOMAIN records |->
     [path |-> records[i].path, kind |-> records[i].kind, modifiers |-> records[i].modifiers]]

(* What a file holds for one thread that opens it.                         *)
Holds(p) ==
  LET f == world.files[p]
      modifiers == ModifiersOf(p)
      asks == Asks(f, modifiers)
      paths == [i \in DOMAIN asks |-> PathOf(asks[i])]
  IN  [fails |-> OpenFails(f, modifiers) \/ \E i \in DOMAIN asks : paths[i] = NoPath,
       script |-> f.kind = "script",
       asks |-> paths,
       records |-> Contents(Records(p, f, modifiers))]

PathsAt(indexes) == [i \in DOMAIN indexes |-> FileAt(indexes[i]).path]

(* The calls of extract_file that may still find something: before the     *)
(* files are extracted those for the command line, in the last pass none.  *)
Agenda ==
  IF phase \in {"start", "open"} THEN FirstPaths
  ELSE IF pass = 3 THEN << >>
  ELSE PathsAt(work)

Sequential ==
  INSTANCE SequentialLoading
  WITH inputs <- FirstPaths,
       files <- [p \in Reached |-> Holds(p)],
       agenda <- Agenda,
       later <- PathsAt(pending),
       seen <- {FileAt(i).path : i \in taken},
       loaded <- Contents(loaded)

(* "Put files into a deterministic order.  That order will be the order    *)
(* we'd find them if we just processed command-line arguments in order,    *)
(* recursively processing any files that those files pulled in": the       *)
(* inputs, their modifiers and the error that is reported are those of     *)
(* SequentialLoading, step by step.                                        *)
LoadsAsInSequence == Sequential!Spec
==========================================================================
