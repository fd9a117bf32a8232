------------------------------ MODULE MCLtoLink ------------------------------
(***************************************************************************)
(* File 1 is an object, 2 an archive member, 3 an IR file, 4 an IR archive *)
(* member.  Each may define, define weakly, refer to or ignore two names.  *)
(***************************************************************************)
EXTENDS LtoLink

\* Something defines the entry point, though not the archive member, and the IR
\* file is not empty.
AllWorlds ==
  {w \in [Files -> [Names -> Roles]] :
     /\ \E f \in Files : w[f][EntryName] \in {"weak", "strong"}
     /\ w[2][EntryName] \in {"none", "ref"}
     /\ \E n \in Names : w[3][n] # "none"}

\* No name is defined weakly in one file and strongly in another: that case is
\* the subject of MCMixedWorlds.  The IR archive member does not define what generated
\* code may call: such a member would be loaded after code generation.
MCWorlds ==
  {w \in AllWorlds :
     /\ \A n \in Libcalls : w[4][n] \notin {"weak", "strong"}
     /\ \A n \in Names : ~\E f, g \in Files : w[f][n] = "weak" /\ w[g][n] = "strong"}

\* Only the object and the IR file matter.
MCMixedWorlds ==
  {w \in AllWorlds : \A n \in Names : w[2][n] = "none" /\ w[4][n] = "none"}

\* The theorems about references apply to the first set of links.
ASSUME MCAssumption == Worlds = MCWorlds => StrengthsAgree /\ RuntimeApart
=============================================================================
