---------------------------- MODULE MCGcGraph ----------------------------
(***************************************************************************)
(* Two small links for the traversal of GcGraph.                           *)
(***************************************************************************)
EXTENDS GcGraph

Rel(s, f) == [symbol |-> s, flags |-> f, undefined |-> FALSE, fails |-> FALSE]
Direct(s) == Rel(s, {"DIRECT"})

---------------------------------------------------------------------------
(* A link that succeeds, against a shared object.  a_ctor must be loaded   *)
(* and asks for the sections between __start_set and __stop_set: b_set is  *)
(* live only through them, and a_main through b_set.  Both objects use the *)
(* common symbol c.  The shared object asks for f, which a_main refers to, *)
(* and for the hidden symbol dead to be exported: b_dead is not live.  It  *)
(* defines the weak symbol w and the strong symbol v at one address; both  *)
(* need a copy relocation, and the frame of a_main refers to the           *)
(* personality routine w.                                                  *)
LinkGroup == {"a", "b", "so", "syn"}
LinkSection == {"a_ctor", "a_main", "b_f", "b_set", "b_dead"}
LinkSymbol == {"main", "f", "dead", "c", "start", "v", "w"}

LinkSectionGroup ==
  [x \in LinkSection |-> IF x \in {"a_ctor", "a_main"} THEN "a" ELSE "b"]
LinkSlot ==
  [x \in LinkSection |-> CASE x = "a_ctor" -> "MustLoad" [] x = "b_set" -> "StartStop"
                           [] OTHER -> "Unloaded"]
LinkSectionOutput == [x \in LinkSection |-> IF x = "b_set" THEN "set" ELSE "text"]

LinkSymbolGroup ==
  [s \in LinkSymbol |-> CASE s \in {"main", "c"} -> "a" [] s \in {"f", "dead"} -> "b"
                          [] s \in {"v", "w"} -> "so"
                          [] s = "start" -> "syn"]
LinkSymbolKind ==
  [s \in LinkSymbol |-> CASE s = "c" -> "Common" [] s = "start" -> "StartStop"
                          [] s \in {"v", "w"} -> "Dynamic"
                          [] OTHER -> "Section"]
LinkSymbolSection ==
  [s \in LinkSymbol |-> CASE s = "f" -> "b_f" [] s = "dead" -> "b_dead" [] OTHER -> "a_main"]
LinkSymbolOutput == [s \in LinkSymbol |-> "set"]
LinkSymbolAddress == [s \in LinkSymbol |-> IF s \in {"v", "w"} THEN 8 ELSE 0]

LinkRelocations ==
  [x \in LinkSection |->
     CASE x = "a_ctor" -> <<Rel("start", {"GOT"})>>
       [] x = "a_main" -> <<Direct("c"), Rel("w", {"DIRECT", "COPY_RELOCATION"}), Direct("f")>>
       [] x = "b_f" -> <<Rel("c", {"GOT"}), Rel("v", {"GOT"}), Rel("v", {"DIRECT", "COPY_RELOCATION"})>>
       [] x = "b_set" -> <<Direct("main")>>
       [] x = "b_dead" -> <<Direct("f")>>]
LinkFrames == [x \in LinkSection |-> IF x = "a_main" THEN <<Rel("w", {"GOT"})>> ELSE << >>]

LinkRootSections == [g \in LinkGroup |-> IF g = "a" THEN <<"a_ctor">> ELSE << >>]
LinkRootReferences == [g \in LinkGroup |-> << >>]
LinkExports == [g \in LinkGroup |-> << >>]
LinkExportRequests == [g \in LinkGroup |-> IF g = "so" THEN <<"f", "dead">> ELSE << >>]

---------------------------------------------------------------------------
(* A link that fails.  The prelude references main and f.  main has a      *)
(* relocation that cannot be applied; f refers to aux, which refers to the *)
(* undefined symbol u, and to a section that is discarded; the activation  *)
(* of b may fail.  Which of the errors are met depends on the schedule.    *)
BadGroup == {"prelude", "a", "b", "syn"}
BadSection == {"a_main", "a_aux", "b_f", "b_gone"}
BadSymbol == {"main", "aux", "f", "gone", "u"}

BadSectionGroup == [x \in BadSection |-> IF x \in {"a_main", "a_aux"} THEN "a" ELSE "b"]
BadSlot == [x \in BadSection |-> IF x = "b_gone" THEN "Discard" ELSE "Unloaded"]
BadSectionOutput == [x \in BadSection |-> "text"]

BadSymbolGroup == [s \in BadSymbol |-> IF s \in {"f", "gone"} THEN "b" ELSE "a"]
BadSymbolKind == [s \in BadSymbol |-> IF s = "u" THEN "Other" ELSE "Section"]
BadSymbolSection ==
  [s \in BadSymbol |-> CASE s = "aux" -> "a_aux" [] s = "f" -> "b_f" [] s = "gone" -> "b_gone"
                         [] OTHER -> "a_main"]
BadSymbolOutput == [s \in BadSymbol |-> "set"]
BadSymbolAddress == [s \in BadSymbol |-> 0]

BadRelocations ==
  [x \in BadSection |->
     CASE x = "a_main" -> <<[Direct("f") EXCEPT !.fails = TRUE]>>
       [] x = "a_aux" -> <<[Direct("u") EXCEPT !.undefined = TRUE]>>
       [] x = "b_f" -> <<Direct("aux"), Direct("gone")>>
       [] OTHER -> << >>]
BadFrames == [x \in BadSection |-> << >>]

BadRootSections == [g \in BadGroup |-> << >>]
BadRootReferences == [g \in BadGroup |-> IF g = "prelude" THEN <<"main", "f">> ELSE << >>]
BadExports == [g \in BadGroup |-> IF g = "b" THEN <<"f", "gone">> ELSE << >>]
BadExportRequests == [g \in BadGroup |-> << >>]

---------------------------------------------------------------------------
(* The theorem about common symbols applies to the first of these links.   *)
ASSUME LinkAssumption == Section = LinkSection => CommonReferencesFlagged

==========================================================================
