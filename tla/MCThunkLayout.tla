---------------------------- MODULE MCThunkLayout ----------------------------
(***************************************************************************)
(* Seven objects of 0 to 2 instructions behind two instructions of other   *)
(* code, a branch range of 8 with a margin of 4: up to three blocks.       *)
(* Symbol 1 is a function of the first object, 2 one of the last, 3 one of *)
(* the last that is called through the PLT, 4 comes from a shared library. *)
(***************************************************************************)
EXTENDS ThunkLayout

MCHome == <<1, N, N, 0>>
MCHasPlt == <<FALSE, FALSE, TRUE, TRUE>>

\* All branch to one or two symbols; the other code branches to all of them.
AllTo(targets) == (0..N) \X targets

MCRefChoices == {AllTo({s, t}) : s, t \in Symbols}

\* Only the first and the last object branch.
Few == {(({0, 1, N}) \X {s}) : s \in Symbols}

MCAllRefChoices == MCRefChoices \cup Few

\* The hypotheses of the theorems hold in this instance.
ASSUME MCAssumption == GeneratedCodeFits /\ FewTargets

=============================================================================
