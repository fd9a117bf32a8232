--------------------------- MODULE Reachability ---------------------------
(***************************************************************************)
(* The nodes of a directed graph that can be reached from a set of roots,  *)
(* defined without recursion: a node is reachable when no set that is      *)
(* closed under the edges and holds the roots leaves it out.               *)
(***************************************************************************)
ClosedUnder(C, root, edge) ==
  /\ root \subseteq C
  /\ \A e \in edge : e[1] \in C => e[2] \in C

Reachable(node, root, edge) ==
  {x \in node : \A C \in SUBSET node : ClosedUnder(C, root, edge) => x \in C}

==========================================================================
