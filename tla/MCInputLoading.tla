-------------------------- MODULE MCInputLoading --------------------------
(***************************************************************************)
(* Instances of InputLoading and of the order of its inputs.               *)
(***************************************************************************)
EXTENDS LoadingOrder

CONSTANTS file_a, file_b, file_c, file_d, file_e, file_f

Mods(as_needed, lazy, shared) ==
  [as_needed |-> as_needed, archive_semantics |-> lazy, allow_shared |-> shared]
Plain == Mods(FALSE, FALSE, TRUE)
Static == Mods(FALSE, FALSE, FALSE)
Lazy == Mods(FALSE, TRUE, TRUE)

In(spec) == [spec |-> spec, modifiers |-> Plain]
InStatic(spec) == [spec |-> spec, modifiers |-> Static]
InLazy(spec) == [spec |-> spec, modifiers |-> Lazy]

Leaf(kind) == [kind |-> kind, refs |-> << >>, members |-> << >>]
Ref(spec) == [spec |-> spec, as_needed |-> FALSE]
NeededRef(spec) == [spec |-> spec, as_needed |-> TRUE]
With(kind, refs) == [kind |-> kind, refs |-> refs, members |-> << >>]
Of(kind, members) == [kind |-> kind, refs |-> << >>, members |-> members]

(* The library -lx: file_d where shared libraries are allowed, file_e      *)
(* elsewhere; -ly leads nowhere.                                           *)
Specs == {file_a, file_b, file_c, file_d, file_e, file_f, "x", "y"}
Names ==
  [s \in Specs |-> IF s = "x" THEN [shared |-> file_d, other |-> file_e]
                   ELSE IF s = "y" THEN [shared |-> NoPath, other |-> NoPath]
                   ELSE [shared |-> NoPath, other |-> s]]

Build(inputs, partial, fa, fb, fc, fd, fe, ff) ==
  [inputs |-> inputs, found |-> Names, partial |-> partial,
   files |-> [p \in Path |-> IF p = file_a THEN fa ELSE IF p = file_b THEN fb ELSE IF p = file_c THEN fc
                             ELSE IF p = file_d THEN fd ELSE IF p = file_e THEN fe ELSE ff]]

object == Leaf("object")

(* Two scripts share a file, ask for each other and for a file of the      *)
(* command line.                                                           *)
Scripts == Build(<<In(file_a), In(file_b), In(file_c), In(file_b)>>, FALSE,
                 With("script", <<Ref(file_d), Ref(file_c), Ref(file_b)>>), With("script", <<Ref(file_e), Ref(file_d), Ref(file_a)>>),
                 object, object, Of("archive", <<"object", "ir">>), object)

Script == Build(<<In(file_a), In(file_b)>>, FALSE,
                With("script", <<Ref(file_c)>>), object, object, object, object, object)

(* Dependent libraries, of an object that a dependent script leads to too. *)
Dependent == Build(<<In(file_a), In(file_b)>>, FALSE,
                   With("object", <<Ref(file_c), Ref("x")>>), object,
                   With("script", <<Ref(file_e)>>), Leaf("dynamic"), With("object", <<Ref(file_f), Ref(file_d)>>), Leaf("stub"))

(* The same with -r, and as if between --start-lib and --end-lib.          *)
Partial == [Dependent EXCEPT !.partial = TRUE]
LazyObjects == [Dependent EXCEPT !.inputs = <<InLazy(file_a), In(file_b)>>]

(* A thin archive with a member that is an input as well.                  *)
Thin == Build(<<In(file_a), In(file_b)>>, FALSE,
              Of("thin", <<file_c, file_b>>), object, Leaf("malformed"), object, object, object)
Archives == [Thin EXCEPT !.files[file_a] = Of("archive", <<"object", "object">>)]

(* Errors: a name that leads nowhere in the middle of a script, and a file *)
(* that cannot be opened; a dynamic object in a static link.               *)
Broken == Build(<<In(file_a), In(file_b)>>, FALSE,
                With("script", <<Ref(file_c), Ref("y"), Ref(file_d)>>), Leaf("unreadable"),
                With("script", <<Ref(file_e)>>), object, object, object)
StaticLink == Build(<<In(file_c), InStatic(file_b), InStatic("x")>>, FALSE,
                    object, With("object", <<Ref(file_a)>>), With("script", <<NeededRef(file_d)>>),
                    Leaf("dynamic"), Leaf("dynamic"), object)
NoLibrary == [Broken EXCEPT !.inputs = <<In("y")>>]

AllWorlds == {Scripts, Script, Dependent, Partial, LazyObjects, Archives, Broken, StaticLink, NoLibrary,
              [Thin EXCEPT !.inputs = <<In(file_b), In(file_a)>>]}

ThinOnly == {Thin}

(* Two scripts ask for a file with different modifiers.                    *)
Conflict == {Build(<<In(file_a), In(file_b)>>, FALSE, With("script", <<Ref(file_c)>>), With("script", <<NeededRef(file_c)>>),
                   object, object, object, object)}

(* The modifiers with which each file is opened: those of the first input  *)
(* that leads to it, elsewhere those of the only ones who ask for it.      *)
MCOpenedWith ==
  [w \in AllWorlds |->
     LET path(i) == LET found == w.found[w.inputs[i].spec] IN
                    IF w.inputs[i].modifiers.allow_shared /\ found.shared # NoPath THEN found.shared ELSE found.other
         asking(p) == {i \in DOMAIN w.inputs : path(i) = p}
     IN  [p \in Path |->
            IF asking(p) # {} THEN w.inputs[CHOOSE i \in asking(p) : \A j \in asking(p) : i <= j].modifiers
            ELSE IF w # StaticLink THEN Plain
            ELSE IF p = file_d THEN Mods(TRUE, FALSE, TRUE) ELSE Static]]
==========================================================================
