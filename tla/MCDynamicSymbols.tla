------------------------- MODULE MCDynamicSymbols -------------------------
(***************************************************************************)
(* Links for DynamicSymbols: executables and shared objects of up to four  *)
(* groups.  Names 1 to 6 have hashes that share buckets and, for 5 and 6,  *)
(* every bit but the lowest, which .gnu.hash uses to end a chain.          *)
(***************************************************************************)
EXTENDS DynamicSymbols

Def(file, name, ver, hidden, export) ==
    [file |-> file, name |-> name, kind |-> "def", ver |-> ver, hidden |-> hidden,
     addr |-> 0, canonical |-> TRUE, export |-> export]
Plain(file, name) == Def(file, name, 1, FALSE, TRUE)
Weak(file, name) == [Plain(file, name) EXCEPT !.kind = "weak", !.export = FALSE]
Dyn(file, name, ver, addr) ==
    [Plain(file, name) EXCEPT !.kind = "shared", !.ver = ver, !.addr = addr, !.export = FALSE]
Overridden(s) == [s EXCEPT !.canonical = FALSE]

Activate(f) == Request("activate", f)
Export(s) == Request("export", s)
Load(s) == Request("load", s)
Copy(s) == Request("copy", s)
Abi(s) == Request("abi", s)

NamesHash == <<3, 65, 130, 5, 8, 9>>
NamesSysv == <<1, 2, 3, 1, 2, 2>>

Kinds == [prelude |-> "prelude", o1 |-> "object", o2 |-> "object",
          s1 |-> "shared", s2 |-> "shared", ld |-> "script"]
NoVerdefs == [s1 |-> << >>, s2 |-> << >>]

World(groups, syms, verdefs, versions, style, requests) ==
    [groups |-> <<<<"prelude">>>> \o groups,
     kind |-> [f \in {"prelude"} \cup UNION {ToSet(groups[i]) : i \in DOMAIN groups} |-> Kinds[f]],
     syms |-> syms, verdefs |-> verdefs, versions |-> versions,
     gnu |-> NamesHash, sysv |-> NamesSysv, style |-> style, requests |-> requests]

Both == {"gnu", "sysv"}
Styles == {Both, {"gnu"}}
OwnVersions == <<[name |-> "A", parent |-> 0], [name |-> "B", parent |-> 2]>>

\* Two shared objects ask an executable for the symbols they share with it;
\* a variable with an alias is copied, two libraries have a version of one
\* name.
Executables ==
    {World(<<<<"o1", "s1">>, <<"s2">>, <<"o2">>>>,
           <<Plain("o1", 1), Def("o1", 2, 1, FALSE, e), Weak("o1", 3),
             Dyn("s1", 4, 3, 8), Overridden(Dyn("s1", 1, 2, 8)), Dyn("s1", 5, 3, 8),
             Dyn("s1", 6, 2, 16), Dyn("s2", 3, 2, 0), Plain("o2", 5)>>,
           [s1 |-> <<"V1", "V2">>, s2 |-> <<"V1">>], << >>, style,
           {Export(1), Export(2), Load(4), Copy(4)} \cup more) :
       e \in BOOLEAN, style \in Styles,
       more \in {{}, {Load(3), Load(7), Load(8)}, {Abi(7), Load(8)},
                 {Load(7), Export(7), Load(6), Copy(6)}}}

\* A shared object with versions of its own: two versions of one name, one
\* of them hidden, a symbol of --defsym, and imports.
SharedObjects ==
    {World(<<<<"o1">>, <<"s1">>, <<"s2">>>>,
           <<Plain("prelude", 6), Def("o1", 1, 2, TRUE, TRUE), Def("o1", 1, 3, FALSE, TRUE),
             Def("o1", 5, 1, FALSE, TRUE), Def("o1", 2, 2, FALSE, TRUE), Weak("o1", 4),
             Dyn("s1", 3, v, 8), Dyn("s2", 4, 2, 8)>>,
           [s1 |-> <<"V1", "V2">>, s2 |-> <<"V1">>], versions, style,
           {Activate("o1"), Export(4), Load(6), Load(7)} \cup more) :
       v \in {1, 2, 3}, versions \in {OwnVersions}, style \in Styles,
       more \in {{}, {Load(1), Load(8)}}}

\* Nothing has a version; symbols of a linker script are exported.
Unversioned ==
    {World(<<<<"o1">>, <<"ld">>, <<"s1">>>>,
           <<Plain("o1", 1), Plain("o1", 2), Plain("ld", 3), Plain("ld", 4), Dyn("s1", 5, 1, 8)>>,
           NoVerdefs, << >>, style, {Activate("ld"), Load(5)} \cup more) :
       style \in Styles, more \in {{}, {Export(1), Export(2)}, {Copy(5), Export(2)}}}

\* Only .hash, with exports in the order of the file; and no exports.
Few ==
    {World(<<<<"o1">>, <<"s1">>>>,
           <<Plain("o1", 2), Plain("o1", 6), Plain("o1", 5), Dyn("s1", 1, 2, 8)>>,
           [s1 |-> <<"V1">>], << >>, style, requests) :
       style \in Styles \cup {{"sysv"}},
       requests \in {{}, {Load(4)}, {Activate("o1"), Load(4)}, {Activate("o1"), Load(4), Copy(4)}}}

MCWorlds == Executables \cup SharedObjects \cup Unversioned \cup Few

\* Not among MCWorlds: a linker script in an output with versions.
MCScriptWorlds ==
    {World(<<<<"o1">>, <<"ld">>>>,
           <<Def("o1", 2, 2, FALSE, TRUE), Def("o1", 3, 3, FALSE, TRUE), Plain("ld", 1)>>,
           NoVerdefs, OwnVersions, Both, {Activate("o1"), Activate("ld")})}

\* Not among MCWorlds: only .hash, and exports asked for by two files.
MCSysvWorlds ==
    {World(<<<<"o1">>, <<"s1">>, <<"s2">>>>, <<Plain("o1", 1), Plain("o1", 2)>>,
           NoVerdefs, << >>, {"sysv"}, {Export(1), Export(2)})}

\* Not among MCWorlds: two versions of one name, asked for by two files.
MCTwinWorlds ==
    {World(<<<<"o1">>, <<"s1">>, <<"s2">>>>,
           <<Def("o1", 1, 2, TRUE, TRUE), Def("o1", 1, 3, FALSE, TRUE)>>,
           NoVerdefs, OwnVersions, {"gnu"}, {Export(1), Export(2)})}

\* Not among MCWorlds: an alias of a copied variable is an old version of a
\* name whose new version is another variable.
MCAliasWorlds ==
    {World(<<<<"o1">>, <<"s1">>>>,
           <<Dyn("s1", 1, 3, 8), Dyn("s1", 2, 2, 8), Dyn("s1", 2, 3, 16)>>,
           [s1 |-> <<"V1", "V2">>], << >>, Both, {Load(1), Copy(1)})}

ASSUME MCAssumption == Worlds = MCWorlds => ScriptsUnversioned
===========================================================================
