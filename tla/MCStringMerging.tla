------------------------- MODULE MCStringMerging -------------------------
(***************************************************************************)
(* String merging from the input sections to the addresses of references.  *)
(***************************************************************************)
EXTENDS StringSplit

MCString == {"a", "b", "e", "cc", "long"}
MCLength == [s \in MCString |-> CASE s = "cc" -> 2 [] s = "long" -> 5 [] OTHER -> 1]
MCBucketOf == [s \in MCString |-> IF s \in {"a", "cc"} THEN 0 ELSE 1]

Strings(ss) == [strings |-> ss, is_string |-> TRUE, terminated |-> TRUE]
Constant(s) == [strings |-> <<s>>, is_string |-> FALSE, terminated |-> TRUE]
Broken(ss) == [strings |-> ss, is_string |-> TRUE, terminated |-> FALSE]

(* Strings repeated within and across groups; a string that is longer than *)
(* a group, and a constant; a string without terminator; a bucket that     *)
(* grows past its limit.                                                   *)
MCSectionLists == {
  <<Strings(<<"a", "cc", "b">>), Strings(<<"b", "cc">>)>>,
  <<Strings(<<"a", "long", "b">>), Constant("a"), Strings(<<"b">>)>>,
  <<Strings(<<"b">>), Constant("long"), Strings(<<"a">>)>>,
  <<Strings(<<"cc", "cc">>), Broken(<<"b">>), Strings(<<"a">>)>>,
  <<Strings(<<"b", "long">>), Strings(<<"e">>)>> }

MCInputs == {GroupsOf(secs) : secs \in MCSectionLists}
==========================================================================
