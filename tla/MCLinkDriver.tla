--------------------------- MODULE MCLinkDriver ---------------------------
(***************************************************************************)
(* Invocations for LinkDriver.                                             *)
(***************************************************************************)
EXTENDS LinkDriver

(* A file that is in use exists. *)
Plausible == {o \in Option : (o.busy \/ o.pinned) => o.exists}

(* All invocations, without the three kinds that do not do what is         *)
(* promised: warnings are not fatal in a child, a single thread does not   *)
(* update in place, and a file that cannot be renamed is overwritten.      *)
SoundOptions ==
  {o \in Plausible : /\ ~(o.fork /\ o.fatalWarnings)
                     /\ ~(o.mode = "UpdateInPlace" /\ ~o.background)
                     /\ ~(o.mode = "UnlinkAndReplace" /\ o.pinned)}

(* The default invocation: fork, several threads, no output file yet. *)
DefaultOptions ==
  {o \in Option : /\ o.fork /\ o.background /\ o.mode = "UnlinkAndReplace"
                  /\ ~o.fatalWarnings /\ ~o.exists /\ ~o.busy /\ ~o.pinned}

(* The same with --fatal-warnings. *)
FatalOptions == {[o EXCEPT !.fatalWarnings = TRUE] : o \in DefaultOptions}

==========================================================================
