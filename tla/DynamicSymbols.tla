-------------------------- MODULE DynamicSymbols --------------------------
(***************************************************************************)
(* The symbols that the dynamic loader sees: .dynsym, .gnu.version,        *)
(* .gnu.version_r, .gnu.version_d, .gnu.hash and .hash.  Groups of files   *)
(* collect definitions to export and versions they need while the graph is *)
(* traversed, in an order that depends on the schedule (layout.rs); the    *)
(* definitions are merged and sorted, the tables sized, indexes given out  *)
(* (elf.rs), and every group writes its slice of each table                *)
(* (elf_writer.rs).  A relocation, a version and a hash chain name an      *)
(* entry by its number only.                                               *)
(*                                                                         *)
(* One link is a record of Worlds:                                         *)
(*   groups    the files of each group, the prelude first;                 *)
(*   kind      of each file: prelude, object, shared, script;              *)
(*   syms      symbols in the order of their ids: file, name (a number, in *)
(*             the order of the bytes), kind (def, weak: undefined and     *)
(*             weak, shared: defined by a shared object), ver, the index   *)
(*             of the version in the file (shared) or in the version       *)
(*             script, hidden, if that is not the default version, addr,   *)
(*             whether the symbol is canonical and whether it can be       *)
(*             exported;                                                   *)
(*   verdefs   of each shared object, the names of its versions from 2 on; *)
(*   versions  of the version script, without the base version: records of *)
(*             a name and the index of the parent or 0;                    *)
(*   gnu, sysv the hashes of the names;                                    *)
(*   style     the hash tables wanted, a subset of {"gnu", "sysv"};        *)
(*   requests  what the traversal asks of files: records of op and on.     *)
(***************************************************************************)
EXTENDS Integers, Sequences, FiniteSets, FiniteSetsExt, SequencesExt

CONSTANTS Worlds,
          ChunkSizes     \* sizes of the chunks in which definitions are written

ASSUME ChunksArePositive == ChunkSizes # {} /\ ChunkSizes \subseteq Nat \ {0}

\* A link as symbol resolution leaves it: a file is in one place of a group,
\* only canonical symbols are asked for and only variables of shared objects
\* are copied, and no symbol has the version VER_NDX_LOCAL.
IsLink(w) ==
    LET Number == DOMAIN w.syms
        Symbol == [file : DOMAIN w.kind, name : Nat, kind : {"def", "weak", "shared"},
                   ver : Nat \ {0}, hidden : BOOLEAN, addr : Nat,
                   canonical : BOOLEAN, export : BOOLEAN]
    IN  /\ IsFiniteSet(DOMAIN w.kind)
        /\ w.groups \in Seq(Seq(DOMAIN w.kind))
        /\ \A f \in DOMAIN w.kind : \E g \in DOMAIN w.groups : Contains(w.groups[g], f)
        /\ \A g \in DOMAIN w.groups : IsInjective(w.groups[g])
        /\ w.syms \in Seq(Symbol)
        /\ \A s \in Number :
              /\ w.syms[s].kind = "shared" <=> w.kind[w.syms[s].file] = "shared"
              /\ w.kind[w.syms[s].file] = "prelude" => w.syms[s].kind = "def"
        /\ \A f \in DOMAIN w.kind : w.kind[f] = "shared" => w.verdefs[f] \in Seq(STRING)
        /\ w.versions \in Seq([name : STRING, parent : Nat])
        /\ \A r \in w.requests : r.op \in {"export", "load", "copy"} =>
              /\ r.on \in Number /\ w.syms[r.on].canonical
              /\ r.op = "copy" => w.syms[r.on].kind = "shared"

ASSUME WorldsAreLinks == \A w \in Worlds : IsLink(w)

VARIABLES
    world,        \* the link
    phase,        \* "graph", "merge", "size", "index", "assign", "write", "done"; "broken"
    todo,         \* requests that have not been handled
    flags,        \* per_symbol_flags, without what the definition sets
    needed,       \* symbol_versions_needed of each file, as a set of indexes
    copies,       \* the addresses in copy_relocations of each file
    defs,         \* dynamic_symbol_definitions of each group
    definitions,  \* the merged dynamic_symbol_definitions
    mem,          \* mem_sizes of each group, in entries
    base,         \* next_gnu_version_r_index as each file has seen it
    res,          \* dynamic_symbol_index of each symbol, or 0
    out,          \* what each group has written, or << >>
    hash          \* the contents of .gnu.hash and .hash

vars == <<world, phase, todo, flags, needed, copies, defs, definitions, mem,
          base, res, out, hash>>

graph == <<todo, needed, copies>>

VER_NDX_GLOBAL == 1
Special(v) == v \in {0, VER_NDX_GLOBAL}

Syms == DOMAIN world.syms
Sym(s) == world.syms[s]
Files == DOMAIN world.kind
Groups == DOMAIN world.groups
Epilogue == Len(world.groups) + 1
GroupOf(f) == CHOOSE g \in Groups : Contains(world.groups[g], f)
Shared(f) == world.kind[f] = "shared"

\* Numbers in ascending order.
Ascending(S) ==
    [k \in 1 .. Cardinality(S) |-> CHOOSE x \in S : Cardinality({y \in S : y < x}) = k - 1]

\* The symbols of a file that satisfy a condition, in the order of their ids.
SymsOf(f, Test(_)) == Ascending({s \in Syms : Sym(s).file = f /\ Test(s)})

\* Files in the order in which passes over all groups meet them.
FilesInOrder == FlattenSeq(world.groups)
Before(f) == LET at == CHOOSE i \in DOMAIN FilesInOrder : FilesInOrder[i] = f
             IN  {FilesInOrder[i] : i \in 1 .. at - 1}

Init ==
    /\ world \in Worlds
    /\ phase = "graph"
    /\ todo = world.requests
    /\ flags = [s \in Syms |-> {}]
    /\ needed = [f \in Files |-> {}]
    /\ copies = [f \in Files |-> {}]
    /\ defs = [g \in Groups |-> << >>]
    /\ definitions = << >>
    /\ mem = << >>
    /\ base = [f \in Files |-> 0]
    /\ res = [s \in Syms |-> 0]
    /\ out = [g \in 1 .. Epilogue |-> << >>]
    /\ hash = << >>

(***************************************************************************)
(* The traversal.  A file's own exports are added when it is activated,    *)
(* before its group handles the requests of other files.                   *)
(***************************************************************************)
Request(op, on) == [op |-> op, on |-> on]
Handled(r) == phase = "graph" /\ r \in todo /\ todo' = todo \ {r}
Activated(f) ==
    \A h \in ToSet(world.groups[GroupOf(f)]) : Request("activate", h) \notin todo

\* can_export_symbol
CanExport(s) == Sym(s).kind = "def" /\ Sym(s).canonical /\ Sym(s).export

\* load_non_hidden_symbols and InternalSymbols::activate_symbols
ActivateFile(f) ==
    /\ Handled(Request("activate", f))
    /\ LET new == SymsOf(f, LAMBDA s : CanExport(s) /\ "EXPORT_DYNAMIC" \notin flags[s])
       IN  /\ defs' = [defs EXCEPT ![GroupOf(f)] = @ \o new]
           /\ flags' = [s \in Syms |-> flags[s] \cup
                          IF Contains(new, s) THEN {"EXPORT_DYNAMIC"} ELSE {}]
    /\ UNCHANGED <<world, phase, needed, copies, definitions, mem, base, res, out, hash>>

\* A shared object's request is heard only by a regular object.
ExportDynamic(s) ==
    LET f == Sym(s).file
        new == world.kind[f] = "object" /\ CanExport(s) /\ "EXPORT_DYNAMIC" \notin flags[s]
    IN  /\ Activated(f)
        /\ Handled(Request("export", s))
        /\ defs' = IF new THEN [defs EXCEPT ![GroupOf(f)] = Append(@, s)] ELSE defs
        /\ flags' = IF new THEN [flags EXCEPT ![s] = @ \cup {"EXPORT_DYNAMIC"}] ELSE flags
        /\ UNCHANGED <<world, phase, needed, copies, definitions, mem, base, res, out, hash>>

MarkVersionAsNeeded(s) ==
    needed' = IF Shared(Sym(s).file) /\ ~Special(Sym(s).ver)
              THEN [needed EXCEPT ![Sym(s).file] = @ \cup {Sym(s).ver}]
              ELSE needed

LoadSymbol(s) ==
    /\ Activated(Sym(s).file)
    /\ Handled(Request("load", s))
    /\ flags' = [flags EXCEPT ![s] = @ \cup {"DIRECT"}]
    /\ MarkVersionAsNeeded(s)
    /\ UNCHANGED <<world, phase, copies, defs, definitions, mem, base, res, out, hash>>

\* load_glibc_abi_dt_relr_version: the version is needed, the symbol is not.
LoadAbiVersion(s) ==
    /\ Handled(Request("abi", s))
    /\ MarkVersionAsNeeded(s)
    /\ UNCHANGED <<world, phase, flags, copies, defs, definitions, mem, base, res, out, hash>>

CopyRelocateSymbol(s) ==
    /\ Activated(Sym(s).file)
    /\ Handled(Request("copy", s))
    /\ flags' = [flags EXCEPT ![s] = @ \cup {"COPY_RELOCATION"}]
    /\ copies' = [copies EXCEPT ![Sym(s).file] = @ \cup {Sym(s).addr}]
    /\ UNCHANGED <<world, phase, needed, defs, definitions, mem, base, res, out, hash>>

\* finalise_copy_relocations: every canonical symbol at the address of a
\* copy is exported, referenced or not.
Aliases(f) ==
    IF Shared(f)
    THEN SymsOf(f, LAMBDA s : Sym(s).canonical /\ Sym(s).addr \in copies[f])
    ELSE << >>

FinaliseCopyRelocations ==
    /\ phase = "graph" /\ todo = {}
    /\ defs' = [g \in Groups |->
                  defs[g] \o FlattenSeq([i \in DOMAIN world.groups[g] |->
                                           Aliases(world.groups[g][i])])]
    /\ flags' = [s \in Syms |-> flags[s] \cup
                   IF Contains(Aliases(Sym(s).file), s) THEN {"COPY_RELOCATION"} ELSE {}]
    /\ phase' = "merge"
    /\ UNCHANGED <<world, graph, definitions, mem, base, res, out, hash>>

(***************************************************************************)
(* Merging and sorting.  The sort is not stable.                           *)
(***************************************************************************)
NextPowerOfTwo(n) == Min({p \in {2^k : k \in 0 .. n} : p >= n})

GnuBuckets(n) == NextPowerOfTwo(n \div 2)
SysvBuckets(n) == NextPowerOfTwo(Max({n \div 2, 1}))

Hash(s) == world.gnu[Sym(s).name]

\* Bug: without the bucket.
SortsByName(s, t, n) == Sym(s).name <= Sym(t).name

SortsBefore(s, t, n) ==
    LET b(x) == Hash(x) % GnuBuckets(n)
    IN  b(s) < b(t) \/ (b(s) = b(t) /\ Sym(s).name <= Sym(t).name)

\* Bug: sorted only if there is no other hash table.
OrdersAlone(seq) ==
    IF world.style # {"gnu"} THEN {seq}
    ELSE {SetToSortSeq(ToSet(seq), LAMBDA s, t : SortsBefore(s, t, Len(seq)))}

Orders(seq) ==
    IF "gnu" \notin world.style THEN {seq}
    ELSE {[i \in DOMAIN seq |-> seq[p[i]]] :
            p \in {q \in SetToSeqs(DOMAIN seq) :
                     \A i \in 1 .. Len(seq) - 1 :
                        SortsBefore(seq[q[i]], seq[q[i + 1]], Len(seq))}}

\* append_prelude_defsym_dynamic_symbols
PreludeDefinitions(seq) ==
    SymsOf("prelude", LAMBDA s : Sym(s).canonical /\ Sym(s).export /\ ~Contains(seq, s))

MergeDynamicSymbolDefinitions ==
    /\ phase = "merge"
    /\ LET all == FlattenSeq(defs)
       IN  definitions' \in Orders(all \o PreludeDefinitions(all))
    /\ phase' = "size"
    /\ UNCHANGED <<world, graph, flags, defs, mem, base, res, out, hash>>

(***************************************************************************)
(* Sizes.                                                                  *)
(***************************************************************************)
HasResolution(s) == flags[s] # {}
Dynamic(s) == Sym(s).kind \in {"shared", "weak"}

\* finalise_sizes_for_symbol, for canonical symbols: a copy is a definition.
EntryReserved(s) ==
    /\ Sym(s).canonical /\ Dynamic(s) /\ HasResolution(s)
    /\ "COPY_RELOCATION" \notin flags[s]

\* File::finalise_sizes_dynamic: the versions of the file that are needed.
VersionCount(f) ==
    IF Shared(f) THEN Cardinality({i \in DOMAIN world.verdefs[f] : i + 1 \in needed[f]}) ELSE 0
VerneedSize(f) == IF VersionCount(f) = 0 THEN 0 ELSE 1 + VersionCount(f)

\* version_count of the script: with the base version, or none.
ScriptVersions == IF world.versions = << >> THEN 0 ELSE Len(world.versions) + 1
ParentCount == Cardinality({i \in DOMAIN world.versions : world.versions[i].parent > 0})

DynsymSize(g) ==
    IF g = Epilogue THEN Len(definitions)
    ELSE MapThenSumSet(LAMBDA f : (IF world.kind[f] = "prelude" THEN 1 ELSE 0)
                                    + Len(SymsOf(f, EntryReserved)),
                       ToSet(world.groups[g]))

FinaliseSizes ==
    /\ phase = "size"
    /\ mem' = [g \in 1 .. Epilogue |->
                 [dynsym    |-> DynsymSize(g),
                  versym    |-> DynsymSize(g),
                  version_r |-> IF g = Epilogue THEN 0
                                ELSE MapThenSumSet(VerneedSize, ToSet(world.groups[g])),
                  version_d |-> IF g = Epilogue THEN 2 * ScriptVersions + ParentCount ELSE 0]]
    /\ phase' = "index"
    /\ UNCHANGED <<world, graph, flags, defs, definitions, base, res, out, hash>>

(***************************************************************************)
(* Version indexes and symbol indexes.                                     *)
(***************************************************************************)
\* Bug: after the base version, whatever the output defines.
FirstVersionAlways == VER_NDX_GLOBAL + 1

FirstVersion == VER_NDX_GLOBAL + Max({1, ScriptVersions})

ApplyNonAddressableIndexes ==
    LET unused == ScriptVersions = 0 /\ \A f \in Files : VersionCount(f) = 0
    IN  /\ phase = "index"
        /\ base' = [f \in Files |-> FirstVersion + MapThenSumSet(VersionCount, Before(f))]
        /\ mem' = IF unused THEN [g \in DOMAIN mem |-> [mem[g] EXCEPT !.versym = 0]] ELSE mem
        /\ phase' = "assign"
        /\ UNCHANGED <<world, graph, flags, defs, definitions, res, out, hash>>

\* compute_start_offsets_by_group
Start(g) == MapThenSumSet(LAMBDA h : mem[h].dynsym, 1 .. g - 1)

\* finalise_layout_dynamic, and create_symbol_resolution for objects.
TakesIndex(s) ==
    /\ HasResolution(s)
    /\ \/ Shared(Sym(s).file) /\ "COPY_RELOCATION" \notin flags[s]
       \/ ~Shared(Sym(s).file) /\ Dynamic(s)

\* take_dynsym_index, after the null entry in the prelude.
IndexesTaken(g) ==
    FlattenSeq([i \in DOMAIN world.groups[g] |-> SymsOf(world.groups[g][i], TakesIndex)])

UndefinedIndex(s) ==
    LET g == GroupOf(Sym(s).file)
        null == IF Contains(world.groups[g], "prelude") THEN 1 ELSE 0
    IN  Start(g) + null + SelectInSeq(IndexesTaken(g), LAMBDA t : t = s) - 1

\* update_dynamic_symbol_resolutions overwrites with the place of a definition.
DefinitionIndex(s) == Start(Epilogue) + SelectLastInSeq(definitions, LAMBDA t : t = s) - 1

FinaliseLayout ==
    /\ phase = "assign"
    /\ res' = [s \in Syms |->
                 IF Contains(definitions, s) /\ HasResolution(s) THEN DefinitionIndex(s)
                 ELSE IF TakesIndex(s) THEN UndefinedIndex(s) ELSE 0]
    /\ phase' = "write"
    /\ UNCHANGED <<world, graph, flags, defs, definitions, mem, base, out, hash>>

(***************************************************************************)
(* Writing.                                                                *)
(***************************************************************************)
GnuVersionEnabled == \E g \in DOMAIN mem : mem[g].versym > 0
Versym(ndx, hidden) == [ndx |-> ndx, hidden |-> hidden]
Global == Versym(VER_NDX_GLOBAL, FALSE)
Unwritten == Versym(0, FALSE)

\* compute_version_mapping and copy_symbol_version
OutputVersion(f, v) ==
    IF Special(v) THEN v
    ELSE IF v \in needed[f] THEN base[f] + Cardinality({w \in needed[f] : w < v})
    ELSE VER_NDX_GLOBAL

\* is_last_verneed: the part of .gnu.version_r is full after this file.
IsLastVerneed(f) ==
    MapThenSumSet(VerneedSize, Before(f) \cup {f})
      = MapThenSumSet(LAMBDA g : mem[g].version_r, DOMAIN mem)

Verneed(f) ==
    IF VersionCount(f) = 0 THEN << >>
    ELSE LET used == Ascending({i \in DOMAIN world.verdefs[f] :
                                   OutputVersion(f, i + 1) # VER_NDX_GLOBAL})
         IN  <<[lib |-> f, next |-> ~IsLastVerneed(f),
                aux |-> [k \in DOMAIN used |-> [ndx |-> OutputVersion(f, used[k] + 1),
                                                name |-> world.verdefs[f][used[k]]]]]>>

\* Bug: a copied symbol is written as undefined, too.
WritesCopies(s) ==
    HasResolution(s) /\ (Shared(Sym(s).file) \/ Dynamic(s))

\* write_dynamic_file: what the library defines and the output does not copy.
WritesImport(s) == HasResolution(s) /\ "COPY_RELOCATION" \notin flags[s]

\* write_object: weak symbols that no library defines.
WritesUndefined(s) == HasResolution(s) /\ Dynamic(s)

WritesEntry(s) == IF Shared(Sym(s).file) THEN WritesImport(s) ELSE WritesUndefined(s)

\* The prelude writes the null entry.
FileEntries(f) ==
    IF world.kind[f] = "prelude" THEN <<[sym |-> 0, defined |-> FALSE]>>
    ELSE LET written == SymsOf(f, WritesEntry)
         IN  [i \in DOMAIN written |-> [sym |-> written[i], defined |-> FALSE]]

FileVersyms(f) ==
    IF world.kind[f] = "prelude" THEN <<Global>>
    ELSE LET written == SymsOf(f, WritesEntry)
         IN  [i \in DOMAIN written |->
                IF Shared(f) THEN Versym(OutputVersion(f, Sym(written[i]).ver), FALSE) ELSE Global]

\* The entries of .gnu.version_r and .gnu.version_d.
VerneedEntries(needs) == MapThenSumSet(LAMBDA i : 1 + Len(needs[i].aux), DOMAIN needs)
VerdefEntries(verdefs) ==
    MapThenSumSet(LAMBDA i : 2 + (IF verdefs[i].parent > 0 THEN 1 ELSE 0), DOMAIN verdefs)

\* An allocation that is too small or too large is an error.
Exhausts(w, m) ==
    /\ Len(w.dynsym) = m.dynsym
    /\ Len(w.versym) = m.versym
    /\ VerneedEntries(w.needs) = m.version_r
    /\ VerdefEntries(w.verdefs) = m.version_d

AllWritten == \A g \in DOMAIN out' : out'[g] # << >>

Write(g, w) ==
    /\ phase = "write" /\ out[g] = << >>
    /\ out' = [out EXCEPT ![g] = w]
    /\ phase' = IF ~Exhausts(w, mem[g]) THEN "broken" ELSE IF AllWritten THEN "done" ELSE phase
    /\ UNCHANGED <<world, graph, flags, defs, definitions, mem, base, res>>

WriteGroup(g) ==
    LET files == world.groups[g]
        All(op(_)) == FlattenSeq([i \in DOMAIN files |-> op(files[i])])
    IN  /\ Write(g, [dynsym |-> All(FileEntries),
                     versym |-> IF GnuVersionEnabled THEN All(FileVersyms) ELSE << >>,
                     needs |-> All(Verneed),
                     verdefs |-> << >>])
        /\ UNCHANGED hash

\* write_dynamic_symbol_definitions: each chunk has its own slice of
\* .gnu.version; a symbol of a linker script writes no version to it.
DefinitionVersym(s) ==
    IF Shared(Sym(s).file) THEN Versym(OutputVersion(Sym(s).file, Sym(s).ver), FALSE)
    ELSE Versym(Sym(s).ver, Sym(s).hidden)

ChunkVersyms(chunk) ==
    LET written == Ascending({i \in DOMAIN chunk : world.kind[Sym(chunk[i]).file] # "script"})
    IN  [i \in DOMAIN chunk |->
           IF i <= Len(written) THEN DefinitionVersym(chunk[written[i]]) ELSE Unwritten]

DefinitionVersyms(size) ==
    LET n == Len(definitions)
        Chunk(k) == SubSeq(definitions, (k - 1) * size + 1, Min({k * size, n}))
    IN  FlattenSeq([k \in 1 .. (n + size - 1) \div size |-> ChunkVersyms(Chunk(k))])

\* write_verdef: the base version and those of the script.
Verdefs ==
    IF ScriptVersions = 0 THEN << >>
    ELSE [i \in 1 .. ScriptVersions |->
            [ndx |-> VER_NDX_GLOBAL + i - 1, base |-> i = 1,
             name |-> IF i = 1 THEN "" ELSE world.versions[i - 1].name,
             parent |-> IF i = 1 THEN 0 ELSE world.versions[i - 1].parent]]

\* write_gnu_hash_tables.  A bucket is overwritten by a later chain.
BloomBits(h) == {h % 64, (h \div 64) % 64}

GnuHashTable ==
    LET n == Len(definitions)
        b(i) == Hash(definitions[i]) % GnuBuckets(n)
        Ends(i) == i = n \/ b(i + 1) # b(i)
        Chains(k) == {i \in 1 .. n : b(i) = k /\ (i = 1 \/ Ends(i - 1))}
    IN  [symbol_base |-> Start(Epilogue),
         bloom |-> UNION {BloomBits(Hash(definitions[i])) : i \in 1 .. n},
         buckets |-> [k \in 0 .. GnuBuckets(n) - 1 |->
                        IF Chains(k) = {} THEN 0 ELSE Start(Epilogue) + Max(Chains(k)) - 1],
         chains |-> [i \in 1 .. n |-> [hash |-> Hash(definitions[i]) \div 2, last |-> Ends(i)]]]

\* allocate_sysv_hash and write_sysv_hash_table; without definitions there
\* is no table.
SysvHashTable ==
    LET n == Len(definitions)
        b(i) == world.sysv[Sym(definitions[i]).name] % SysvBuckets(n)
        In(k) == {i \in 1 .. n : b(i) = k}
        Later(i) == {j \in i + 1 .. n : b(j) = b(i)}
        At(S) == IF S = {} THEN 0 ELSE Start(Epilogue) + Min(S) - 1
    IN  [buckets |-> [k \in 0 .. SysvBuckets(n) - 1 |-> At(In(k))],
         chains |-> [x \in 0 .. Start(Epilogue) + n - 1 |->
                       IF x < Start(Epilogue) THEN 0 ELSE At(Later(x - Start(Epilogue) + 1))]]

WriteEpilogue ==
    /\ \E size \in ChunkSizes :
         Write(Epilogue, [dynsym |-> [i \in DOMAIN definitions |->
                                        [sym |-> definitions[i], defined |-> TRUE]],
                          versym |-> IF mem[Epilogue].versym = 0 THEN << >>
                                     ELSE DefinitionVersyms(size),
                          needs |-> << >>,
                          verdefs |-> Verdefs])
    /\ hash' = [gnu |-> IF "gnu" \in world.style THEN GnuHashTable ELSE << >>,
                sysv |-> IF "sysv" \in world.style /\ definitions # << >>
                         THEN SysvHashTable ELSE << >>]

Next ==
    \/ \E f \in Files : ActivateFile(f)
    \/ \E s \in Syms : ExportDynamic(s)
    \/ \E s \in Syms : LoadSymbol(s)
    \/ \E s \in Syms : LoadAbiVersion(s)
    \/ \E s \in Syms : CopyRelocateSymbol(s)
    \/ FinaliseCopyRelocations
    \/ MergeDynamicSymbolDefinitions
    \/ FinaliseSizes
    \/ ApplyNonAddressableIndexes
    \/ FinaliseLayout
    \/ \E g \in Groups : WriteGroup(g)
    \/ WriteEpilogue

Spec == Init /\ [][Next]_vars

(***************************************************************************)
(* The dynamic loader (external): the tables as it reads them, and the     *)
(* lookup of a name with a version through either hash table.              *)
(***************************************************************************)
Done == phase = "done"
Dynsym == FlattenSeq([g \in DOMAIN out |-> out[g].dynsym])
Versyms == FlattenSeq([g \in DOMAIN out |-> out[g].versym])
Entry(i) == Dynsym[i + 1]

\* Records of .gnu.version_r are followed up to the first without a next.
NeedsRead ==
    LET all == FlattenSeq([g \in DOMAIN out |-> out[g].needs])
        end == SelectInSeq(all, LAMBDA n : ~n.next)
    IN  {all[i] : i \in 1 .. end}

\* What a version index stands for: the library, or "" for this output.
Meanings(ndx) ==
    {[lib |-> "", name |-> d.name] :
        d \in {v \in ToSet(out[Epilogue].verdefs) : v.ndx = ndx /\ ~v.base}}
      \cup UNION {{[lib |-> n.lib, name |-> a.name] : a \in {x \in ToSet(n.aux) : x.ndx = ndx}} :
                     n \in NeedsRead}

\* check_match of the loader: want is the name of a version or "".
Matches(i, name, want) ==
    /\ Entry(i).defined /\ Sym(Entry(i).sym).name = name
    /\ \/ Versyms = << >>
       \/ LET v == Versyms[i + 1]
          IN  IF want = "" THEN v.ndx < 3
              ELSE \/ \E m \in Meanings(v.ndx) : m.name = want
                   \/ Meanings(v.ndx) = {} /\ ~v.hidden

FirstOf(hits) == IF hits = {} THEN 0 ELSE Min(hits)

GnuLookup(name, want) ==
    LET t == hash.gnu
        h == world.gnu[name]
        first == t.buckets[h % Cardinality(DOMAIN t.buckets)]
        Link(i) == t.chains[i - t.symbol_base + 1]
    IN  IF ~(BloomBits(h) \subseteq t.bloom) \/ first = 0 THEN 0
        ELSE FirstOf({i \in first .. Len(Dynsym) - 1 :
                        /\ \A j \in first .. i - 1 : ~Link(j).last
                        /\ Link(i).hash = h \div 2
                        /\ Matches(i, name, want)})

SysvLookup(name, want) ==
    IF hash.sysv = << >> THEN 0
    ELSE LET t == hash.sysv
             first == t.buckets[world.sysv[name] % Cardinality(DOMAIN t.buckets)]
             walk[k \in 0 .. Len(Dynsym)] ==
                 IF k = 0 THEN first ELSE IF walk[k - 1] = 0 THEN 0 ELSE t.chains[walk[k - 1]]
             hits == {k \in DOMAIN walk : walk[k] # 0 /\ Matches(walk[k], name, want)}
         IN  IF hits = {} THEN 0 ELSE walk[Min(hits)]

Lookup(style, name, want) ==
    IF style = "gnu" THEN GnuLookup(name, want) ELSE SysvLookup(name, want)

(***************************************************************************)
(* What a symbol is, from the inputs alone.                                *)
(***************************************************************************)
VersionName(s) ==
    LET v == Sym(s).ver
    IN  IF Special(v) THEN ""
        ELSE IF Shared(Sym(s).file) THEN world.verdefs[Sym(s).file][v - 1]
        ELSE world.versions[v - 1].name

\* Symbols of a shared object at one address are the same variable.
Storage(s) ==
    IF Shared(Sym(s).file) THEN <<Sym(s).file, Sym(s).addr>> ELSE <<"", s>>

Requested(op) == {r.on : r \in {q \in world.requests : q.op = op}}

MustExport ==
    {s \in Syms :
       \/ CanExport(s) /\ Sym(s).file \in Requested("activate")
       \/ CanExport(s) /\ s \in Requested("export") /\ world.kind[Sym(s).file] = "object"
       \/ Sym(s).canonical /\ Sym(s).export /\ Sym(s).file = "prelude"
       \/ Sym(s).canonical /\ \E c \in Requested("copy") : Storage(c) = Storage(s)}

---------------------------------------------------------------------------
(* The loader finds what the output holds and nothing else.  Every symbol  *)
(* that must be exported is found through each hash table, under its name  *)
(* and version and as the right variable, and the index in its resolution, *)
(* which relocations use, is that of its own entry; a name and version of  *)
(* a shared object is found only if the output has a copy of the variable. *)
(* Merging, sorting, numbering and the writers of three tables agree for   *)
(* every order in which exports were requested.                            *)
ExportsFound ==
    Done =>
        /\ \A s \in MustExport :
              HasResolution(s) => Entry(res[s]) = [sym |-> s, defined |-> TRUE]
        /\ \A s \in Syms, style \in world.style :
              LET i == Lookup(style, Sym(s).name, VersionName(s))
              IN  /\ s \in MustExport => i # 0 /\ Storage(Entry(i).sym) = Storage(s)
                  /\ Shared(Sym(s).file) /\ Sym(s).canonical /\ s \notin MustExport => i = 0

(* Every symbol that the output takes from elsewhere has an undefined      *)
(* entry at the index its relocations use, and the version there stands    *)
(* for the version it has in its own library and for nothing else, neither *)
(* another library's nor one that the output defines.                      *)
ImportsBound ==
    Done => \A s \in Syms :
        (HasResolution(s) /\ s \notin MustExport /\ Dynamic(s)) =>
            /\ Entry(res[s]) = [sym |-> s, defined |-> FALSE]
            /\ Versyms = << >> => VersionName(s) = ""
            /\ Versyms # << >> =>
                 Meanings(Versyms[res[s] + 1].ndx) =
                     IF VersionName(s) = "" THEN {}
                     ELSE {[lib |-> Sym(s).file, name |-> VersionName(s)]}

(* What layout reserves in each table is what the writers fill, slice by   *)
(* slice, with versions or without: no writer fails and no entry of        *)
(* .gnu.version is left as it was.                                         *)
TablesFilled ==
    /\ phase # "broken"
    /\ Done => \A i \in DOMAIN Versyms : Versyms[i] # Unwritten

\* The order of the exported symbols that the inputs determine: for .gnu.hash
\* by bucket, name and symbol, otherwise by file and symbol.
InputOrder ==
    LET n == Cardinality(MustExport)
        Given(s, t) == IF Sym(s).file = "prelude" THEN Sym(t).file = "prelude" /\ s < t
                       ELSE Sym(t).file = "prelude" \/ s < t
        Sorted(s, t) == SortsBefore(s, t, n) /\ (SortsBefore(t, s, n) => s < t)
    IN  IF "gnu" \in world.style THEN SetToSortSeq(MustExport, Sorted)
        ELSE SetToSortSeq(MustExport, Given)

(* The output is the same for every schedule: the entries of exported      *)
(* symbols, each with its name, version and variable, come in the order    *)
(* that the inputs determine.  The code does not keep this promise of its  *)
(* plan: nothing sorts the entries for .hash alone, and the sort for       *)
(* .gnu.hash leaves two versions of one name in either order.              *)
OrderFollowsInputs == Done => definitions = InputOrder

NamesUnique == \A s, t \in MustExport : Sym(s).name = Sym(t).name => s = t

(* What the code keeps: in an output with .gnu.hash whose exported names   *)
(* are unique, as create_gnu_hash_layout supposes, the entries come in one *)
(* order, no matter in which order shared objects asked for exports and    *)
(* what other hash table there is.                                         *)
OrderDetermined == ("gnu" \in world.style /\ NamesUnique) => OrderFollowsInputs

---------------------------------------------------------------------------
\* The hypothesis of the theorem about TablesFilled: a link with a linker
\* script has no symbol versions.
ScriptsUnversioned ==
    \A w \in Worlds :
        (\E f \in DOMAIN w.kind : w.kind[f] = "script") =>
            /\ w.versions = << >>
            /\ \A s \in DOMAIN w.syms : w.syms[s].kind = "shared" => Special(w.syms[s].ver)
===========================================================================
