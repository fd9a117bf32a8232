------------------------ MODULE MCSymbolResolution ------------------------
(***************************************************************************)
(* Small links for SymbolResolution.                                       *)
(***************************************************************************)
EXTENDS SymbolResolution

Sym(f, n, d, strength) ==
  [file |-> f, name |-> n, defined |-> d, strength |-> strength, size |-> 0, hidden |-> FALSE,
   version |-> None, default |-> TRUE, comdat |-> FALSE]

Def(f, n) == Sym(f, n, TRUE, "Strong")
WeakDef(f, n) == Sym(f, n, TRUE, "Weak")
CommonDef(f, n, size) == [Sym(f, n, TRUE, "Common") EXCEPT !.size = size]
Ref(f, n) == Sym(f, n, FALSE, "Strong")
WeakRef(f, n) == Sym(f, n, FALSE, "Weak")
Hidden(s) == [s EXCEPT !.hidden = TRUE]
Comdat(s) == [s EXCEPT !.comdat = TRUE]
NotDefault(s) == [s EXCEPT !.default = FALSE]
Versioned(s, v) == [s EXCEPT !.version = v]

---------------------------------------------------------------------------
(* An object main.o, an archive of a1.o and a2.o, the as-needed shared     *)
(* object lib.so, an object b.o and an archive of a3.o.  main.o pulls in   *)
(* a1.o through foo, which pulls in a2.o; b.o pulls in lib.so.  foo is     *)
(* weak in a1.o, strong in lib.so and b.o, where it is hidden; bar is      *)
(* common; nobody defines u; a3.o is not needed; dup is defined twice;     *)
(* a1.o and b.o both need a2.o; lib.so refers to an old version of p.      *)
MixFile == {"pre", "main", "a1", "a2", "lib", "b", "a3", "syn"}
MixOptional == {"a1", "a2", "lib", "a3"}
MixTable == <<
  Ref("pre", "main"),
  Def("main", "main"), Comdat(Def("main", "dup")), Def("main", "h"),
  Versioned(Def("main", "p"), "V1"), NotDefault(Versioned(Def("main", "p"), "V0")),
  Ref("main", "foo"), WeakRef("main", "opt"), Ref("main", "u"), Ref("main", "__start_set"),
  WeakDef("a1", "foo"), Ref("a1", "bar"),
  CommonDef("a2", "bar", 4), WeakDef("a2", "opt"), Def("a2", "x"), WeakRef("a2", "u"),
  Def("lib", "s"), Def("lib", "foo"), Versioned(Ref("lib", "p"), "V0"),
  Hidden(Def("b", "foo")), CommonDef("b", "bar", 8), Def("b", "dup"),
  Ref("b", "x"), Ref("b", "s"), Hidden(Ref("b", "h")),
  Def("a3", "foo"), Def("a3", "opt"),
  Def("syn", "__start_set")>>

---------------------------------------------------------------------------
(* main.o refers to foo weakly.  The first definition is in an archive     *)
(* member that nobody needs, the second in the object b.o.                 *)
WeakFile == {"pre", "main", "a1", "b", "syn"}
WeakTable == <<Ref("pre", "main"), Def("main", "main"), WeakRef("main", "foo"),
               Def("a1", "foo"), Def("b", "foo")>>

---------------------------------------------------------------------------
(* Two shared objects define foo@@V, and b.o defines foo.                  *)
VersionFile == {"pre", "main", "lib1", "lib2", "b", "syn"}
VersionTable == <<Ref("pre", "main"), Def("main", "main"), Ref("main", "foo"),
                  Versioned(Def("lib1", "foo"), "V"), Versioned(Def("lib2", "foo"), "V"),
                  WeakDef("b", "foo")>>

---------------------------------------------------------------------------
(* Two shared objects define foo under different versions, each of them    *)
(* the default, and a third one refers to that of the second.              *)
TwinFile == {"pre", "main", "lib1", "lib2", "lib3", "syn"}
TwinTable == <<Ref("pre", "main"), Def("main", "main"),
               Versioned(Def("lib1", "foo"), "V1"), Versioned(Def("lib2", "foo"), "V2"),
               Versioned(Ref("lib3", "foo"), "V2")>>

---------------------------------------------------------------------------
(* A shared object has more symbols than fit in a chunk, and its third     *)
(* symbol is a reference to r@V2.                                          *)
ChunkFile == {"pre", "main", "lib1", "lib2", "syn"}
ChunkTable == <<Ref("pre", "main"), Def("main", "main"),
                Versioned(Def("lib1", "p"), "V1"), Versioned(Def("lib1", "r"), "V2"),
                Versioned(Ref("lib2", "p"), "V1"), Def("lib2", "q"),
                Versioned(Ref("lib2", "r"), "V2")>>

---------------------------------------------------------------------------
(* main.o refers to foo as a hidden symbol; a.o defines it weakly, b.o     *)
(* strongly.                                                               *)
HiddenFile == {"pre", "main", "a", "b", "syn"}
HiddenTable == <<Ref("pre", "main"), Def("main", "main"), Hidden(Ref("main", "foo")),
                 WeakDef("a", "foo"), Def("b", "foo")>>

---------------------------------------------------------------------------
(* main.o refers to foo as a weak hidden symbol, b.o as an ordinary one;   *)
(* only a shared object defines it.                                        *)
SharedFile == {"pre", "main", "b", "lib", "syn"}
SharedTable == <<Ref("pre", "main"), Def("main", "main"), Hidden(WeakRef("main", "foo")),
                 Ref("b", "foo"), Def("lib", "foo")>>

---------------------------------------------------------------------------
(* The first of these links is one to which every theorem about references *)
(* applies.                                                                *)
ASSUME MixAssumption ==
  SymbolTable = MixTable =>
    /\ WeakDefinitionsNeeded /\ ReferencesUnversioned /\ HiddenNamesAgree
    /\ SharedObjectsFitChunk /\ SeparateVersions

==========================================================================
