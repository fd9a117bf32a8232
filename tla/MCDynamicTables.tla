------------------------- MODULE MCDynamicTables -------------------------
(***************************************************************************)
(* Links for DynamicTables.  Words are 4 bytes and a bitmap has 3 slots,   *)
(* so that a run of a few pointers crosses the limit of a bitmap.          *)
(***************************************************************************)
EXTENDS DynamicTables

Rel(sym, type, off, local, form) ==
    [sym |-> sym, type |-> type, off |-> off, local |-> local, form |-> form]
Sec(group, write, exec, base, rels) ==
    [group |-> group, write |-> write, exec |-> exec, base |-> base, size |-> 64,
     rev |-> FALSE, rels |-> rels]
Sym(group, def, ask) == [group |-> group, def |-> def, ask |-> ask]
Link(kind, relrOn, relax, groups, syms, secs) ==
    [kind |-> kind, relr |-> relrOn, relax |-> relax, copy |-> TRUE,
     groups |-> groups, syms |-> syms, secs |-> secs]

Local == {"NON_INTERPOSABLE"}
Static == {"static", "static-pie"}
Kinds == Static \cup {"dynamic", "pie", "shared"}

\* The symbols that an output of a kind can have: flags, requests, and the
\* flags of a referring symbol.
Class(def, ask, local) == [def |-> def, ask |-> ask, local |-> local]
Classes(kind) ==
    {Class(Local, {}, {}), Class(Local \cup {"DOWNGRADE_TO_LOCAL"}, {}, {}),
     Class(Local \cup {"ABSOLUTE"}, {}, {}), Class(Local \cup {"IFUNC"}, {}, {}),
     Class(Local, {"DIRECT"}, {})}
      \cup (IF kind \in Static THEN {}
            ELSE {Class({"DYNAMIC"}, {}, {}), Class({"DYNAMIC", "FUNCTION"}, {}, {}),
                  Class({"DYNAMIC", "ABSOLUTE"}, {}, {}),
                  Class(Local, {"EXPORT_DYNAMIC"}, {})})
      \cup (IF kind # "shared" THEN {}
            ELSE {Class({}, {"EXPORT_DYNAMIC"}, l) : l \in {{}, Local}}
                   \cup {Class({"IFUNC"}, {"EXPORT_DYNAMIC"}, {})})

TlsClasses(kind) ==
    {Class(Local, {}, {})}
      \cup (IF kind \in Static THEN {} ELSE {Class({"DYNAMIC"}, {}, {})})
      \cup (IF kind # "shared" THEN {} ELSE {Class({}, {"EXPORT_DYNAMIC"}, {})})

\* Two references from code in one group and one from data in the other to
\* a symbol, among two plain symbols that have GOT entries of their own.
Referring(kind, relrOn, relax, c, types, data, form) ==
    Link(kind, relrOn, relax, 2,
         <<Sym(1, Local, {}), Sym(1, c.def, c.ask), Sym(1, Local, {}), Sym(2, Local, {})>>,
         <<Sec(1, FALSE, TRUE, 0,
               <<Rel(1, "GOTPCRELX", 0, {}, FALSE), Rel(2, types[1], 8, c.local, form),
                 Rel(2, types[2], 16, c.local, form), Rel(3, "GOTPCRELX", 24, {}, FALSE)>>),
           Sec(2, TRUE, FALSE, 400,
               data \o <<Rel(4, "GOTPCRELX", 40, {}, FALSE)>>)>>)

CodeTypes == {"PC32", "PLT32", "GOTPCRELX"}
TlsTypes == {"GOTTPOFF", "TLSGD", "TLSLD", "TLSDESC"}

SymbolWorlds ==
    UNION {
        {Referring(kind, relrOn, relax, c, types, <<Rel(2, "64", 0, c.local, FALSE)>>, form) :
            c \in Classes(kind), types \in CodeTypes \X CodeTypes}
        \cup
        {Referring(kind, relrOn, relax, c, types, <<>>, form) :
            c \in TlsClasses(kind), types \in TlsTypes \X TlsTypes} :
        kind \in Kinds, relrOn \in BOOLEAN, relax \in BOOLEAN, form \in BOOLEAN}

\* Pointers in data: every choice of offsets of one section, followed by a
\* second section of the same group.
Offsets == <<0, 4, 8, 12, 16, 20, 24, 29, 34>>
Pointers(offs) ==
    SelectSeq([i \in DOMAIN Offsets |-> Rel(1, "64", Offsets[i], {}, FALSE)],
              LAMBDA r : r.off \in offs)
PointerWorlds ==
    {Link(kind, TRUE, TRUE, 1, <<Sym(1, Local, {})>>,
          <<Sec(1, TRUE, FALSE, 400, Pointers(a)), Sec(1, TRUE, FALSE, 440, Pointers(b))>>) :
        kind \in {"pie", "shared"}, a \in SUBSET Range(Offsets), b \in {{}, {0}, {0, 4, 24}}}

\* Many GOT entries that RELR bitmaps cover, in two groups.
GotWorlds ==
    {Link("shared", TRUE, FALSE, 2,
          [s \in 1 .. n |-> Sym(1 + (s % 2), IF s = odd THEN Local \cup {"DOWNGRADE_TO_LOCAL"} ELSE Local, {})],
          <<Sec(1, FALSE, TRUE, 0, [s \in 1 .. n |-> Rel(s, "GOTPCRELX", 8 * s, {}, FALSE)])>>) :
        n \in 1 .. 8, odd \in 0 .. 3}

MCWorlds == SymbolWorlds \cup PointerWorlds \cup GotWorlds

\* A thread-local variable that is exported and bound locally.
MCTlsWorlds ==
    {Referring("shared", FALSE, TRUE, Class(Local, {"EXPORT_DYNAMIC"}, {}),
               <<"TLSGD", "TLSGD">>, <<>>, form) : form \in BOOLEAN}

\* Pointers of a .ctors section, which is written in reverse.
MCReversedWorlds ==
    {Link("pie", TRUE, TRUE, 1, <<Sym(1, Local, {})>>,
          <<[Sec(1, TRUE, FALSE, 400, Pointers({0, 4, 8})) EXCEPT !.rev = TRUE, !.size = 12]>>)}

=============================================================================
