--------------------------- MODULE DynamicTables ---------------------------
(***************************************************************************)
(* The tables that the dynamic loader reads: .got, .plt.got, .rela.plt,    *)
(* .rela.dyn and .relr.dyn.  Each of them is sized while relocations are   *)
(* scanned (elf.rs), gets its addresses when symbols are resolved, and is  *)
(* filled by a writer that walks the same relocations and symbols again    *)
(* (elf_writer.rs).  The three passes decide separately what an entry      *)
(* needs; nothing but their agreement makes an instruction refer to the    *)
(* entry that the writer fills.                                            *)
(*                                                                         *)
(* One link is a record of Worlds:                                         *)
(*   kind, relr, relax, copy   the output kind and three options;          *)
(*   groups                    the number of groups of input files;        *)
(*   syms                      canonical symbols in the order of their     *)
(*                             ids: their group, the flags symbol_db.rs    *)
(*                             gives them (def), and the flags that roots  *)
(*                             and exports add (ask);                      *)
(*   secs                      loaded sections: group, write, exec, the    *)
(*                             address base, size, whether the contents    *)
(*                             are reversed (rev), and the relocations.    *)
(* A relocation has a symbol, an x86-64 type, an offset, the flags of the  *)
(* referring symbol (local), and whether its instruction has a form that   *)
(* can be relaxed (form).                                                  *)
(***************************************************************************)
EXTENDS Integers, Sequences, FiniteSets, FiniteSetsExt, SequencesExt

CONSTANTS Worlds,
          WordBytes,     \* RELR_TYPE_BYTE_SIZE and GOT_ENTRY_SIZE, 8 in the code
          BitmapSlots    \* RELR_BITMAP_SLOTS, 63 in the code

ASSUME WordsAreEven == WordBytes \in Nat \ {0} /\ WordBytes % 2 = 0
ASSUME BitmapsHoldSlots == BitmapSlots \in Nat \ {0}

VARIABLES
    world,     \* the link
    phase,     \* "load", "size", "assign", "write", "done"; "rejected", "broken"
    flags,     \* per_symbol_flags: for each symbol a set of ValueFlags
    asked,     \* symbols whose root and export requests have been handled
    loaded,    \* for each section, the number of relocations scanned
    enc,       \* for each section, its RelrEncoder
    tlsld,     \* uses_tlsld
    mem,       \* mem_sizes of each group, in entries
    res,       \* for each symbol, the addresses of its Resolution
    todo,      \* what the writer has left to do
    used,      \* entries each group's TableWriter has taken
    wenc,      \* the RelrEncoder of the TableWriter
    image,     \* words of the output: a set of records [at, mode, value]
    dyn,       \* .rela.dyn and .rela.plt: a sequence of relocations
    relr       \* .relr.dyn of each group

vars == <<world, phase, flags, asked, loaded, enc, tlsld, mem, res, todo,
          used, wenc, image, dyn, relr>>

loading == <<asked, loaded, enc, tlsld>>
writing == <<used, wenc, image, dyn, relr>>

Syms == DOMAIN world.syms
Secs == DOMAIN world.secs
Prelude == 0
Epilogue == world.groups + 1
Groups == Prelude .. Epilogue

Tables == {"GOT", "GOT_RELR", "PLT_GOT", "RELA_PLT", "RELA_DYN_RELATIVE",
           "RELA_DYN_GENERAL", "RELR_DYN"}

(***************************************************************************)
(* OutputKind.                                                             *)
(***************************************************************************)
Relocatable == world.kind \in {"static-pie", "pie", "shared"}
StaticExecutable == world.kind \in {"static", "static-pie"}
SharedObject == world.kind = "shared"
Executable == ~SharedObject

(***************************************************************************)
(* ValueFlags.                                                             *)
(***************************************************************************)
Requirements == {"DIRECT", "GOT", "PLT", "GOT_TLS_MODULE", "GOT_TLS_OFFSET",
                 "GOT_TLS_DESCRIPTOR", "EXPORT_DYNAMIC", "COPY_RELOCATION",
                 "IFUNC_GOT_FOR_ADDRESS"}
HasResolution(f) == f \cap Requirements # {}
Interposable(f) == "NON_INTERPOSABLE" \notin f
IsAddress(f) == f \cap {"IFUNC", "DYNAMIC", "ABSOLUTE"} = {}
IsTls(f) == f \cap {"GOT_TLS_OFFSET", "GOT_TLS_MODULE", "GOT_TLS_DESCRIPTOR"} # {}
HasDynamicSymbol(f) ==
    "DYNAMIC" \in f \/ ("EXPORT_DYNAMIC" \in f /\ Interposable(f))

GotRelrEligible(f) ==
    /\ world.relr /\ Relocatable
    /\ IsAddress(f) /\ ~HasDynamicSymbol(f)
    /\ "DOWNGRADE_TO_LOCAL" \notin f

(***************************************************************************)
(* The kind of a relocation: that of its type, or the one an x86-64        *)
(* relaxation gives it.  A relaxation that is not mandatory is applied     *)
(* only with --relax.                                                      *)
(***************************************************************************)
RawKind(t) ==
    CASE t = "64"        -> "Absolute"
      [] t = "PC32"      -> "Relative"
      [] t = "PLT32"     -> "PltRelative"
      [] t = "GOTPCRELX" -> "GotRelative"
      [] t = "GOTTPOFF"  -> "GotTpOff"
      [] t = "TLSGD"     -> "TlsGd"
      [] t = "TLSLD"     -> "TlsLd"
      [] t = "TLSDESC"   -> "TlsDesc"

\* new_relaxation: the kind after relaxation and whether it is mandatory, or
\* the empty set.
Relaxations(r, f, exec) ==
    LET local == ~Interposable(f)
        known == \/ "ABSOLUTE" \in f /\ "DYNAMIC" \notin f
                 \/ IsAddress(f) /\ ~Relocatable
        To(kind, must) == {[kind |-> kind, must |-> must]}
    IN  CASE "IFUNC" \in f ->
               IF r.type = "PC32" THEN To("PltRelative", TRUE) ELSE {}
          [] "IFUNC" \notin f /\ ~exec -> {}
          [] OTHER ->
               CASE r.type = "PLT32" /\ local -> To("Relative", StaticExecutable)
                 [] r.type = "GOTPCRELX" /\ r.form /\ known ->
                      To("Absolute", StaticExecutable)
                 [] r.type = "GOTPCRELX" /\ r.form /\ ~known /\ local ->
                      To("Relative", StaticExecutable)
                 [] r.type = "GOTTPOFF" /\ r.form /\ Executable /\ local ->
                      To("TpOff", FALSE)
                 [] r.type \in {"TLSGD", "TLSDESC"} /\ r.form /\ Executable /\ local ->
                      To("TpOff", StaticExecutable)
                 [] r.type \in {"TLSGD", "TLSDESC"} /\ r.form /\ Executable /\ ~local ->
                      To("GotTpOff", FALSE)
                 [] r.type = "TLSLD" /\ r.form /\ Executable ->
                      To("None", StaticExecutable)
                 [] OTHER -> {}

Kind(r, f, exec) ==
    LET applied == {x \in Relaxations(r, f, exec) : world.relax \/ x.must}
    IN  IF applied = {} THEN RawKind(r.type) ELSE (CHOOSE x \in applied : TRUE).kind

TlsKinds == {"GotTpOff", "TlsGd", "TlsLd", "TlsDesc", "TpOff"}

\* layout::resolution_flags
FlagsOfKind(k) ==
    CASE k = "PltRelative" -> {"PLT", "GOT"}
      [] k = "GotRelative" -> {"GOT"}
      [] k = "GotTpOff"    -> {"GOT_TLS_OFFSET"}
      [] k = "TlsGd"       -> {"GOT_TLS_MODULE"}
      [] k = "TlsDesc"     -> {"GOT_TLS_DESCRIPTOR"}
      [] k \in {"Absolute", "Relative", "TpOff"} -> {"DIRECT"}
      [] OTHER -> {}

\* The flags a relocation is judged by: those of the definition, and
\* NON_INTERPOSABLE if the referring symbol has it (ValueFlags::merge).
Merged(r) == flags[r.sym] \cup (r.local \cap {"NON_INTERPOSABLE"})

(***************************************************************************)
(* RelrEncoder.  An entry of .relr.dyn is an address, or a bitmap of the   *)
(* BitmapSlots words that follow.  The encoder holds the start of the      *)
(* window that the next bitmap entry covers, and the bits set in it.       *)
(***************************************************************************)
NoRun == [run |-> "none", start |-> 0, bits |-> {}]
Address(a) == [type |-> "address", at |-> a, bits |-> {}]
Bitmap(b) == [type |-> "bitmap", at |-> 0, bits |-> b]

\* RelrBitmap::after and RelrBitmap::next
AfterLate(a) == a + 2 * WordBytes
After(a) == a + WordBytes

NextWindow(start) == start + BitmapSlots * WordBytes
InWindow(start, a) ==
    /\ a >= start /\ a < NextWindow(start)
    /\ (a - start) % WordBytes = 0
Bit(start, a) == (a - start) \div WordBytes

\* RelrEncoder::encode: the new state, the entry and whether it is a new one.
Encode(e, a) ==
    LET fresh == [state |-> [run |-> "address", start |-> After(a), bits |-> {}],
                  entry |-> Address(a), new |-> TRUE]
        Into(start, bits, new) ==
            LET all == bits \cup {Bit(start, a)}
            IN  [state |-> [run |-> "bitmap", start |-> start, bits |-> all],
                 entry |-> Bitmap(all), new |-> new]
    IN  CASE e.run = "address" /\ InWindow(e.start, a) -> Into(e.start, {}, TRUE)
          [] e.run = "bitmap" /\ InWindow(e.start, a) -> Into(e.start, e.bits, FALSE)
          [] e.run = "bitmap" /\ InWindow(NextWindow(e.start), a) ->
               Into(NextWindow(e.start), {}, TRUE)
          [] OTHER -> fresh

(***************************************************************************)
(* Scanning.  process_relocation counts the dynamic relocation that a word *)
(* of the section itself needs, and adds to the flags of the symbol.       *)
(***************************************************************************)

\* materialize_relocation_requirements: what is allocated for the relocation.
\* "reject" is an error reported to the user.
Allocates(r, f, k, sec) ==
    LET direct == "DIRECT" \in FlagsOfKind(k) /\ Interposable(f)
    IN  CASE k \in TlsKinds -> "nothing"
          [] k \notin TlsKinds /\ direct ->
               CASE SharedObject /\ r.type = "PC32" -> "reject"
                 [] ~(SharedObject /\ r.type = "PC32") /\ sec.write -> "general"
                 [] ~(SharedObject /\ r.type = "PC32") /\ ~sec.write
                      /\ f \cap {"FUNCTION", "ABSOLUTE"} = {} /\ ~world.copy -> "reject"
                 [] OTHER -> "nothing"
          [] k = "Absolute" /\ ~direct /\ "IFUNC" \in f /\ sec.write /\ Relocatable -> "general"
          [] k = "Absolute" /\ ~direct /\ IsAddress(f) /\ Relocatable ->
               CASE ~sec.write -> "reject"
                 [] sec.write /\ world.relr /\ r.off % 2 = 0 -> "relr"
                 [] OTHER -> "relative"
          [] OTHER -> "nothing"

\* A GOT-relative reference to an ifunc needs an entry of its own, with the
\* address of the PLT entry.
NeedsEqualEntry(f, own) == "IFUNC" \in f /\ "GOT" \in own /\ ~Relocatable

\* The flags the relocation adds, ifunc handling included.
Adds(r, f, k, sec) ==
    LET own == FlagsOfKind(k)
        fixed == k \notin TlsKinds /\ "DIRECT" \in own /\ Interposable(f) /\ ~sec.write
        base == CASE fixed /\ "FUNCTION" \in f -> (own \ {"DIRECT"}) \cup {"PLT", "GOT"}
                  [] fixed /\ f \cap {"FUNCTION", "ABSOLUTE"} = {} -> own \cup {"COPY_RELOCATION"}
                  [] OTHER -> own
        stub == IF "IFUNC" \in f /\ ~StaticExecutable THEN {"GOT", "PLT"} ELSE {}
        equal == IF NeedsEqualEntry(f, base) THEN {"IFUNC_GOT_FOR_ADDRESS"} ELSE {}
    IN  base \cup stub \cup equal

\* note_relocation_symbol_reference: in a static executable an ifunc gets
\* its PLT entry from the reference that makes the symbol live.
AddsFirst(r, f) ==
    IF ~HasResolution(flags[r.sym]) /\ "IFUNC" \in f /\ StaticExecutable
    THEN {"GOT", "PLT"} ELSE {}

LoadRelocation(n) ==
    /\ phase = "load"
    /\ loaded[n] < Len(world.secs[n].rels)
    /\ LET sec == world.secs[n]
           r == sec.rels[loaded[n] + 1]
           f == Merged(r)
           k == Kind(r, f, sec.exec)
           what == Allocates(r, f, k, sec)
           e == Encode(enc[n], r.off)
           Count(t) == [mem EXCEPT ![sec.group][t] = @ + 1]
       IN  /\ loaded' = [loaded EXCEPT ![n] = @ + 1]
           /\ phase' = IF what = "reject" THEN "rejected" ELSE phase
           /\ flags' = [flags EXCEPT ![r.sym] = @ \cup Adds(r, f, k, sec) \cup AddsFirst(r, f)]
           /\ tlsld' = (tlsld \/ k = "TlsLd")
           /\ enc' = IF what = "relr" THEN [enc EXCEPT ![n] = e.state] ELSE enc
           /\ mem' = CASE what = "general"  -> Count("RELA_DYN_GENERAL")
                       [] what = "relative" -> Count("RELA_DYN_RELATIVE")
                       [] what = "relr" /\ e.new -> Count("RELR_DYN")
                       [] OTHER -> mem
    /\ UNCHANGED <<world, asked, res, todo, writing>>

\* Roots (entry point, --undefined, linker script expressions) add DIRECT,
\* exports add EXPORT_DYNAMIC.
Request(s) ==
    /\ phase = "load"
    /\ s \notin asked
    /\ asked' = asked \cup {s}
    /\ flags' = [flags EXCEPT ![s] = @ \cup world.syms[s].ask]
    /\ UNCHANGED <<world, phase, loaded, enc, tlsld, mem, res, todo, writing>>

(***************************************************************************)
(* Sizes.  Every canonical symbol gets what its flags ask for, the prelude *)
(* the pair of GOT entries for TLSLD, the group of a shared object the     *)
(* copy relocations, and last the epilogue the RELR entries that cover the *)
(* words of GOT_RELR.                                                      *)
(***************************************************************************)
One(b) == IF b THEN 1 ELSE 0

\* allocate_resolution
AllocateResolution(f) ==
    LET got == "GOT" \in f /\ ~IsTls(f)
        ifunc == "IFUNC" \in f
        relative == got /\ ~ifunc /\ ~HasDynamicSymbol(f) /\ IsAddress(f) /\ Relocatable
        equal == "IFUNC_GOT_FOR_ADDRESS" \in f
        offset == "GOT_TLS_OFFSET" \in f
        module == "GOT_TLS_MODULE" \in f
        descriptor == "GOT_TLS_DESCRIPTOR" \in f
    IN  [GOT |-> One(got /\ ~GotRelrEligible(f)) + One(equal) + One(offset)
                   + 2 * One(module) + 2 * One(descriptor),
         GOT_RELR |-> One(got /\ GotRelrEligible(f)),
         PLT_GOT |-> One(got /\ "PLT" \in f),
         RELA_PLT |-> One(got /\ ifunc),
         RELA_DYN_GENERAL |->
             One(got /\ ~ifunc /\ HasDynamicSymbol(f))
               + One(offset /\ (Interposable(f) \/ SharedObject))
               + One(module /\ (~Executable \/ "DYNAMIC" \in f))
               + One(module /\ HasDynamicSymbol(f)) + One(descriptor),
         RELA_DYN_RELATIVE |-> One(relative /\ ~world.relr)
                                 + One(equal /\ Relocatable /\ ~world.relr),
         RELR_DYN |-> One(relative /\ world.relr /\ ~GotRelrEligible(f))
                        + One(equal /\ Relocatable /\ world.relr)]

SymsOf(g) == {s \in Syms : world.syms[s].group = g}
Copied(g) == {s \in SymsOf(g) : "COPY_RELOCATION" \in flags[s]}

\* got_relr_bitmap_relr_count
GotRelrCount(n) ==
    IF n = 0 THEN 0 ELSE 1 + (n - 1 + BitmapSlots - 1) \div BitmapSlots

FinaliseSizes ==
    /\ phase = "load"
    /\ asked = Syms
    /\ \A n \in Secs : loaded[n] = Len(world.secs[n].rels)
    /\ LET symbols(g, t) ==
               MapThenSumSet(LAMBDA s : AllocateResolution(flags[s])[t], SymsOf(g))
           extra(g, t) ==
               CASE t = "RELA_DYN_GENERAL" ->
                      Cardinality(Copied(g)) + One(g = Prelude /\ tlsld /\ ~Executable)
                 [] t = "GOT" -> 2 * One(g = Prelude /\ tlsld)
                 [] OTHER -> 0
           gotRelr == MapThenSumSet(LAMBDA g : symbols(g, "GOT_RELR"), Groups)
           late(g, t) == IF world.relr /\ g = Epilogue /\ t = "RELR_DYN"
                         THEN GotRelrCount(gotRelr) ELSE 0
       IN  mem' = [g \in Groups |-> [t \in Tables |->
                      mem[g][t] + symbols(g, t) + extra(g, t) + late(g, t)]]
    /\ phase' = "assign"
    /\ UNCHANGED <<world, flags, loading, res, todo, writing>>

(***************************************************************************)
(* Addresses.  A table is the concatenation of the parts of the groups;    *)
(* create_resolution takes the next entries of the group's part.           *)
(***************************************************************************)
GotBase == 1000 * WordBytes
GotRelrBase == 2000 * WordBytes
PltBase == 3000 * WordBytes
Missing == -1

Start(g, t) == MapThenSumSet(LAMBDA h : mem[h][t], 0 .. g - 1)

\* create_resolution: the GOT entries it takes and from which part.
GotSlots(f) ==
    CASE "PLT" \in f -> IF "IFUNC_GOT_FOR_ADDRESS" \in f THEN 2 ELSE 1
      [] "PLT" \notin f /\ IsTls(f) ->
           One("GOT_TLS_OFFSET" \in f) + 2 * One("GOT_TLS_MODULE" \in f)
             + 2 * One("GOT_TLS_DESCRIPTOR" \in f)
      [] "PLT" \notin f /\ ~IsTls(f) /\ "GOT" \in f -> 1
      [] OTHER -> 0
GotPart(f) == IF ~IsTls(f) /\ GotRelrEligible(f) /\ GotSlots(f) = 1
              THEN "GOT_RELR" ELSE "GOT"

Resolution(s) ==
    LET f == flags[s]
        g == world.syms[s].group
        before == {q \in SymsOf(g) : q < s}
        taken(t) == MapThenSumSet(
            LAMBDA q : IF GotPart(flags[q]) = t THEN GotSlots(flags[q]) ELSE 0, before)
        tls == IF g = Prelude /\ tlsld /\ GotPart(f) = "GOT" THEN 2 ELSE 0
        base == IF GotPart(f) = "GOT" THEN GotBase ELSE GotRelrBase
        plts == Cardinality({q \in before : "PLT" \in flags[q]})
    IN  [got |-> IF GotSlots(f) = 0 THEN Missing
                 ELSE base + WordBytes * (Start(g, GotPart(f)) + tls + taken(GotPart(f))),
         plt |-> IF "PLT" \in f THEN PltBase + Start(g, "PLT_GOT") + plts ELSE Missing]

\* The order in which the writer of a group works: relocations of its
\* sections, copy relocations, symbols, and the check at the end.
JobsOf(g) ==
    LET Job(what, n, i) == [what |-> what, group |-> g, n |-> n, i |-> i]
        secs == SelectSeq([n \in 1 .. Len(world.secs) |-> n],
                          LAMBDA n : world.secs[n].group = g)
        InOrder(S) == SelectSeq([s \in 1 .. Len(world.syms) |-> s], LAMBDA s : s \in S)
        All(what, seq) == [i \in DOMAIN seq |-> Job(what, seq[i], 0)]
        rels(n) == [i \in 1 .. Len(world.secs[n].rels) |-> Job("relocation", n, i)]
    IN  (IF g = Prelude /\ tlsld THEN <<Job("tlsld", 0, 0)>> ELSE <<>>)
          \o FlattenSeq([i \in 1 .. Len(secs) |-> rels(secs[i])])
          \o All("copy", InOrder(Copied(g))) \o All("symbol", InOrder(SymsOf(g)))
          \o (IF g = Epilogue THEN <<Job("bitmap", 0, 0)>> ELSE <<>>)
          \o <<Job("validate", 0, 0)>>

AssignAddresses ==
    /\ phase = "assign"
    /\ res' = [s \in Syms |-> Resolution(s)]
    /\ todo' = FlattenSeq([i \in 1 .. world.groups + 2 |-> JobsOf(i - 1)])
    /\ phase' = "write"
    /\ UNCHANGED <<world, flags, loading, mem, writing>>

(***************************************************************************)
(* Writing.  Groups are written in parallel into disjoint parts of the     *)
(* tables, so that one order of the groups stands for all.  The words and  *)
(* the dynamic relocations that a step writes are one effect; an entry     *)
(* that the group has not got stops the link.  A word is absolute, or      *)
(* relative to the place it is at.                                         *)
(***************************************************************************)
Word(at, mode, value) == [at |-> at, mode |-> mode, value |-> value]
Reloc(table, at, how, sym, value) ==
    [table |-> table, at |-> at, how |-> how, sym |-> sym, value |-> value]

\* relr_dyn of a TableWriter
RelrOpen(g) == world.relr /\ mem[g]["RELR_DYN"] > 0

\* update_dynamic_symbol_resolutions, take_dynsym_index
HasIndex(f) == f \cap {"DYNAMIC", "EXPORT_DYNAMIC", "COPY_RELOCATION"} # {}

\* The raw value of a resolution, and value_with_addend.
RawValue(s) ==
    LET f == flags[s]
    IN  CASE "DYNAMIC" \in f /\ "PLT" \in f -> <<"plt", s>>
          [] "DYNAMIC" \in f /\ "PLT" \notin f /\ "COPY_RELOCATION" \in f -> <<"copy", s>>
          [] f \cap {"PLT", "COPY_RELOCATION"} = {} /\ "DYNAMIC" \in f -> <<"zero", s>>
          [] "DYNAMIC" \notin f /\ "ABSOLUTE" \in f -> <<"absolute", s>>
          [] OTHER -> <<"address", s>>
Value(s) == IF "IFUNC" \in flags[s] THEN <<"plt", s>> ELSE RawValue(s)

\* write_relr_entry_flat: the content of the word, and its relocation.
Flat(g, at, value) ==
    IF RelrOpen(g)
    THEN [word |-> value, rel |-> Reloc("RELR_DYN", at, "relr", 0, value)]
    ELSE [word |-> <<"zero", 0>>,
          rel |-> Reloc("RELA_DYN_RELATIVE", at, "relative", 0, value)]

\* process_resolution for a symbol: a sequence of GOT entries, each with
\* the part it is taken from, its content and the relocations for it.
GotEntries(s, f, g, at) ==
    LET general(a, how, q, v) == <<Reloc("RELA_DYN_GENERAL", a, how, q, v)>>
        zero == <<"zero", 0>>
        Entry(part, word, rels) == [part |-> part, word |-> word, rels |-> rels]
        index == IF HasIndex(f) THEN s ELSE 0
        TlsOffset ==
            CASE HasDynamicSymbol(f) -> Entry("GOT", zero, general(at, "tpoff", s, zero))
              [] ~HasDynamicSymbol(f) /\ RawValue(s)[1] = "absolute" -> Entry("GOT", zero, <<>>)
              [] ~HasDynamicSymbol(f) /\ RawValue(s)[1] # "absolute" /\ Executable ->
                   Entry("GOT", <<"tpoff", s>>, <<>>)
              [] OTHER -> Entry("GOT", zero, general(at, "tpoff", 0, <<"tpoff", s>>))
        modAt == at + WordBytes * One("GOT_TLS_OFFSET" \in f)
        TlsModule ==
            IF Executable /\ "DYNAMIC" \notin f THEN Entry("GOT", <<"module", 1>>, <<>>)
            ELSE Entry("GOT", zero, general(modAt, "dtpmod", index, zero))
        TlsModuleOffset ==
            CASE HasIndex(f) /\ Interposable(f) ->
                   Entry("GOT", zero, general(modAt + WordBytes, "dtpoff", s, zero))
              [] HasIndex(f) /\ ~Interposable(f) -> Entry("GOT", zero, <<>>)
              [] OTHER -> Entry("GOT", <<"dtpoff", s>>, <<>>)
        descAt == modAt + 2 * WordBytes * One("GOT_TLS_MODULE" \in f)
        TlsDescriptor ==
            <<Entry("GOT", zero, <<>>),
              Entry("GOT", zero, general(descAt, "tlsdesc", index,
                                         IF HasIndex(f) THEN zero ELSE <<"dtpoff", s>>))>>
        part == IF GotRelrEligible(f) THEN "GOT_RELR" ELSE "GOT"
        Own ==
            CASE "DYNAMIC" \in f \/ (HasDynamicSymbol(f) /\ "IFUNC" \notin f) ->
                   Entry(part, zero, general(at, "symbol", s, zero))
              [] "DYNAMIC" \notin f /\ "IFUNC" \in f ->
                   Entry(part, zero, <<Reloc("RELA_PLT", at, "irelative", s, RawValue(s))>>)
              [] ~HasDynamicSymbol(f) /\ IsAddress(f) /\ Relocatable /\ part = "GOT" ->
                   LET w == Flat(g, at, RawValue(s)) IN Entry(part, w.word, <<w.rel>>)
              [] OTHER -> Entry(part, RawValue(s), <<>>)
        Equal ==
            LET w == Flat(g, at + WordBytes, <<"plt", s>>)
            IN  IF Relocatable THEN Entry("GOT", w.word, <<w.rel>>)
                ELSE Entry("GOT", <<"plt", s>>, <<>>)
    IN  CASE at = Missing -> <<>>
          [] at # Missing /\ IsTls(f) ->
               (IF "GOT_TLS_OFFSET" \in f THEN <<TlsOffset>> ELSE <<>>)
                 \o (IF "GOT_TLS_MODULE" \in f THEN <<TlsModule, TlsModuleOffset>> ELSE <<>>)
                 \o (IF "GOT_TLS_DESCRIPTOR" \in f THEN TlsDescriptor ELSE <<>>)
          [] OTHER -> <<Own>> \o (IF "IFUNC_GOT_FOR_ADDRESS" \in f THEN <<Equal>> ELSE <<>>)

\* What one step of the writer does: an error, GOT entries in their order,
\* PLT entries, words elsewhere, relocations elsewhere, and the entry that
\* write_address_relocation packs.
Nothing == [error |-> "none", got |-> <<>>, plt |-> <<>>, words |-> {},
            rels |-> <<>>, packed |-> {}]

\* write_section_reversed moves the last word of the section to its start.
Place(sec, r) ==
    IF sec.rev THEN sec.base + sec.size - r.off - WordBytes ELSE sec.base + r.off

\* reset_relr_run before every section
RunKept(i) == wenc
RunAt(i) == IF i = 1 THEN NoRun ELSE wenc

\* write_absolute_relocation, and write_address_relocation in its fourth branch
AbsoluteEffect(r, f, sec, i) ==
    LET at == Place(sec, r)
        At(value) == [Nothing EXCEPT !.words = {Word(at, "absolute", value)}]
        zero == <<"zero", 0>>
        general(how, sym, value) ==
            [At(zero) EXCEPT !.rels = <<Reloc("RELA_DYN_GENERAL", at, how, sym, value)>>]
    IN  CASE {"DYNAMIC", "ABSOLUTE"} \subseteq f /\ ~sec.write -> At(zero)
          [] sec.write /\ Interposable(f) ->
               IF HasIndex(flags[r.sym]) THEN general("symbol", r.sym, zero)
               ELSE [Nothing EXCEPT !.error = "broken"]
          [] sec.write /\ ~Interposable(f) /\ "IFUNC" \in f /\ Relocatable ->
               general("irelative", r.sym, RawValue(r.sym))
          [] "IFUNC" \in f /\ ~(sec.write /\ Relocatable) /\ res[r.sym].plt = Missing ->
               [Nothing EXCEPT !.error = "broken"]
          [] Relocatable /\ "ABSOLUTE" \notin f /\ ~(sec.write /\ Interposable(f))
               /\ ~(sec.write /\ "IFUNC" \in f) ->
               IF RelrOpen(sec.group) /\ at % 2 = 0
               THEN [At(Value(r.sym)) EXCEPT !.packed = {Encode(RunAt(i), at)}]
               ELSE [At(zero) EXCEPT !.rels =
                        <<Reloc("RELA_DYN_RELATIVE", at, "relative", 0, Value(r.sym))>>]
          [] OTHER -> At(Value(r.sym))

\* The GOT entry an instruction refers to: got_address_for_relocation,
\* tlsgd_got_address, tls_descriptor_got_address, got_address.
GotAddress(k, s) ==
    LET f == flags[s]
        skip == CASE k = "GotRelative" -> One("IFUNC_GOT_FOR_ADDRESS" \in f)
                  [] k = "TlsGd" -> One("GOT_TLS_OFFSET" \in f)
                  [] k = "TlsDesc" -> One("GOT_TLS_OFFSET" \in f) + 2 * One("GOT_TLS_MODULE" \in f)
                  [] OTHER -> 0
    IN  res[s].got + WordBytes * skip

\* apply_relocation: the kind is decided again, from the final flags.
RelocationEffect(job) ==
    LET sec == world.secs[job.n]
        r == sec.rels[job.i]
        f == Merged(r)
        k == Kind(r, f, sec.exec)
        at == Place(sec, r)
        Relative(value) == [Nothing EXCEPT !.words = {Word(at, "relative", value)}]
        broken == [Nothing EXCEPT !.error = "broken"]
    IN  CASE r.type = "PC32" /\ Relocatable /\ (Interposable(f) \/ "DYNAMIC" \in f)
               /\ f \cap {"COPY_RELOCATION", "PLT"} = {} ->
               [Nothing EXCEPT !.error = "rejected"]
          [] k = "Absolute" -> AbsoluteEffect(r, f, sec, job.i)
          [] k = "PltRelative" \/ (k = "Relative" /\ "IFUNC" \in f) ->
               IF res[r.sym].plt = Missing THEN broken ELSE Relative(<<"plt", r.sym>>)
          [] k \in {"GotRelative", "GotTpOff", "TlsGd", "TlsDesc"} ->
               IF res[r.sym].got = Missing THEN broken
               ELSE Relative(<<"entry", GotAddress(k, r.sym)>>)
          [] k = "TlsLd" -> IF tlsld THEN Relative(<<"entry", GotBase>>) ELSE broken
          [] k = "TpOff" -> [Nothing EXCEPT !.words = {Word(at, "absolute", <<"tpoff", r.sym>>)}]
          [] k = "None" -> Nothing
          [] OTHER -> Relative(Value(r.sym))

\* process_resolution
SymbolEffect(job) ==
    LET s == job.n
        f == flags[s]
        got == GotEntries(s, f, job.group, res[s].got)
        jump == <<"entry", res[s].got - res[s].plt>>
    IN  CASE "GOT_TLS_DESCRIPTOR" \in f /\ StaticExecutable -> [Nothing EXCEPT !.error = "rejected"]
          [] res[s].got # Missing /\ ~IsTls(f) /\ HasDynamicSymbol(f) /\ ~HasIndex(f) ->
               [Nothing EXCEPT !.error = "broken"]
          [] OTHER ->
               [Nothing EXCEPT
                   !.got = got,
                   !.plt = IF got = <<>> \/ IsTls(f) \/ res[s].plt = Missing
                           THEN <<>> ELSE <<jump>>]

\* write_plt_got_entries: the pair of entries that TLSLD relocations share.
TlsldEffect ==
    LET Entry(word, rels) == [part |-> "GOT", word |-> word, rels |-> rels]
        module == IF Executable THEN Entry(<<"module", 1>>, <<>>)
                  ELSE Entry(<<"zero", 0>>,
                             <<Reloc("RELA_DYN_GENERAL", GotBase, "dtpmod", 0, <<"zero", 0>>)>>)
    IN  [Nothing EXCEPT
            !.got = <<module, Entry(<<IF Executable THEN "block" ELSE "zero", 0>>, <<>>)>>]

\* write_copy_relocation_for_symbol
CopyEffect(job) ==
    [Nothing EXCEPT
        !.rels = <<Reloc("RELA_DYN_GENERAL", 0, "copy", job.n, RawValue(job.n))>>]

(***************************************************************************)
(* A step of the writer takes the entries it needs from the group's parts  *)
(* of the tables.                                                          *)
(***************************************************************************)
AllRels(e) == e.rels \o FlattenSeq([i \in DOMAIN e.got |-> e.got[i].rels])
Needs(e, t) ==
    CASE t = "GOT"      -> Cardinality({i \in DOMAIN e.got : e.got[i].part = "GOT"})
      [] t = "GOT_RELR" -> Cardinality({i \in DOMAIN e.got : e.got[i].part = "GOT_RELR"})
      [] t = "PLT_GOT"  -> Len(e.plt)
      [] OTHER -> Cardinality({i \in DOMAIN AllRels(e) : AllRels(e)[i].table = t})
                    + One(t = "RELR_DYN" /\ \E x \in e.packed : x.new)
Fits(e, g) == \A t \in Tables : used[g][t] + Needs(e, t) <= mem[g][t]

\* Where the entry that the writer takes next is, whatever the symbol's
\* resolution says.
GotWords(e, g) ==
    {Word((IF e.got[i].part = "GOT" THEN GotBase ELSE GotRelrBase)
            + WordBytes * (Start(g, e.got[i].part) + used[g][e.got[i].part]
                 + Cardinality({j \in 1 .. i - 1 : e.got[j].part = e.got[i].part})),
          "absolute", e.got[i].word) : i \in DOMAIN e.got}
PltWords(e, g) ==
    {Word(PltBase + Start(g, "PLT_GOT") + used[g]["PLT_GOT"], "jump", e.plt[i]) :
        i \in DOMAIN e.plt}

Write(e, g) ==
    \/ /\ e.error # "none"
       /\ phase' = e.error
       /\ UNCHANGED <<todo, writing>>
    \/ /\ e.error = "none" /\ ~Fits(e, g)
       /\ phase' = "broken"
       /\ UNCHANGED <<todo, writing>>
    \/ /\ e.error = "none" /\ Fits(e, g)
       /\ used' = [used EXCEPT ![g] = [t \in Tables |-> @[t] + Needs(e, t)]]
       /\ image' = image \cup e.words \cup GotWords(e, g) \cup PltWords(e, g)
       /\ dyn' = dyn \o SelectSeq(AllRels(e), LAMBDA x : x.table # "RELR_DYN")
       /\ LET flat == SelectSeq(AllRels(e), LAMBDA x : x.table = "RELR_DYN")
              mine == relr[g]
          IN  relr' = [relr EXCEPT ![g] =
                 CASE \E x \in e.packed : x.new ->
                        Append(mine, (CHOOSE x \in e.packed : TRUE).entry)
                   [] \E x \in e.packed : ~x.new ->
                        [mine EXCEPT ![Len(mine)] = (CHOOSE x \in e.packed : TRUE).entry]
                   [] OTHER -> mine \o [i \in DOMAIN flat |-> Address(flat[i].at)]]
       /\ wenc' = IF e.packed = {} THEN wenc ELSE (CHOOSE x \in e.packed : TRUE).state
       /\ todo' = Tail(todo)
       /\ phase' = phase

Current(what) == phase = "write" /\ todo # <<>> /\ Head(todo).what = what

fixed == <<world, flags, loading, mem, res>>

WriteRelocation ==
    /\ Current("relocation")
    /\ Write(RelocationEffect(Head(todo)), Head(todo).group)
    /\ UNCHANGED fixed

WriteTlsld ==
    /\ Current("tlsld")
    /\ Write(TlsldEffect, Prelude)
    /\ UNCHANGED fixed

WriteCopyRelocation ==
    /\ Current("copy")
    /\ Write(CopyEffect(Head(todo)), Head(todo).group)
    /\ UNCHANGED fixed

WriteResolution ==
    /\ Current("symbol")
    /\ Write(SymbolEffect(Head(todo)), Head(todo).group)
    /\ UNCHANGED fixed

\* write_got_relr_bitmap: an address entry for the first word of GOT_RELR
\* and bitmaps for the rest.
WriteGotRelrBitmap ==
    /\ Current("bitmap")
    /\ LET n == Start(Epilogue + 1, "GOT_RELR")
           bitmaps == GotRelrCount(n) - 1
           slots(i) == IF i < bitmaps THEN BitmapSlots ELSE n - 1 - (bitmaps - 1) * BitmapSlots
           entries == <<Address(GotRelrBase)>>
                        \o [i \in 1 .. bitmaps |-> Bitmap(0 .. slots(i) - 1)]
           total == IF n = 0 \/ ~RelrOpen(Epilogue) THEN 0 ELSE Len(entries)
           fits == used[Epilogue]["RELR_DYN"] + total <= mem[Epilogue]["RELR_DYN"]
       IN  /\ phase' = IF fits THEN phase ELSE "broken"
           /\ used' = [used EXCEPT ![Epilogue]["RELR_DYN"] = @ + total]
           /\ relr' = IF total = 0 THEN relr
                      ELSE [relr EXCEPT ![Epilogue] = @ \o entries]
    /\ todo' = Tail(todo)
    /\ UNCHANGED <<fixed, wenc, image, dyn>>

\* validate_empty: the tables that the code checks.
Validated == {"GOT", "GOT_RELR", "RELA_DYN_RELATIVE", "RELA_DYN_GENERAL", "RELR_DYN"}

ValidateEmpty ==
    /\ Current("validate")
    /\ LET g == Head(todo).group
           empty == \A t \in Validated : used[g][t] = mem[g][t]
       IN  phase' = CASE ~empty -> "broken"
                      [] empty /\ Len(todo) = 1 -> "done"
                      [] OTHER -> phase
    /\ todo' = Tail(todo)
    /\ UNCHANGED <<fixed, writing>>

Init ==
    /\ world \in Worlds
    /\ phase = "load"
    /\ flags = [s \in Syms |-> world.syms[s].def]
    /\ asked = {s \in Syms : world.syms[s].ask = {}}
    /\ loaded = [n \in Secs |-> 0]
    /\ enc = [n \in Secs |-> NoRun]
    /\ tlsld = FALSE
    /\ mem = [g \in Groups |-> [t \in Tables |-> 0]]
    /\ res = [s \in Syms |-> [got |-> Missing, plt |-> Missing]]
    /\ todo = <<>>
    /\ used = [g \in Groups |-> [t \in Tables |-> 0]]
    /\ wenc = NoRun
    /\ image = {}
    /\ dyn = <<>>
    /\ relr = [g \in Groups |-> <<>>]

Next ==
    \/ \E n \in Secs : LoadRelocation(n)
    \/ \E s \in Syms : Request(s)
    \/ FinaliseSizes
    \/ AssignAddresses
    \/ WriteRelocation
    \/ WriteTlsld
    \/ WriteCopyRelocation
    \/ WriteResolution
    \/ WriteGotRelrBitmap
    \/ ValidateEmpty

Spec == Init /\ [][Next]_vars

(***************************************************************************)
(* The dynamic loader, as the ELF specification has it: what a word of the *)
(* image holds once the dynamic relocations have been applied.  This is    *)
(* the reference against which the tables are judged.                      *)
(***************************************************************************)

\* The addresses that a sequence of RELR entries stands for.
Decode(entries) ==
    LET step(d, e) ==
            IF e.type = "address"
            THEN [at |-> e.at + WordBytes, all |-> d.all \o <<e.at>>]
            ELSE [at |-> d.at + BitmapSlots * WordBytes,
                  all |-> d.all \o SelectSeq([i \in 1 .. BitmapSlots |-> d.at + WordBytes * (i - 1)],
                                             LAMBDA a : Bit(d.at, a) \in e.bits)]
    IN  FoldLeft(step, [at |-> 0, all |-> <<>>], entries).all

Relocated(a) ==
    {dyn[i] : i \in {j \in DOMAIN dyn : dyn[j].at = a /\ dyn[j].how # "copy"}}
Packed(a) ==
    LET all == Decode(FlattenSeq([i \in 1 .. world.groups + 2 |-> relr[i - 1]]))
    IN  Cardinality({i \in DOMAIN all : all[i] = a})
Times(a) ==
    Cardinality({j \in DOMAIN dyn : dyn[j].at = a /\ dyn[j].how # "copy"}) + Packed(a)

Moves(value) == Relocatable /\ value[1] \in {"address", "plt", "copy"}
Wrong == <<"wrong", 0>>

\* The word at an address at run time.
RuntimeAt(a) ==
    LET words == {w \in image : w.at = a}
        content == (CHOOSE w \in words : TRUE).value
        d == CHOOSE x \in Relocated(a) : TRUE
    IN  CASE Cardinality(words) # 1 \/ Times(a) > 1 -> Wrong
          [] Cardinality(words) = 1 /\ Times(a) = 0 ->
               IF Moves(content) THEN Wrong ELSE content
          [] Cardinality(words) = 1 /\ Packed(a) = 1 /\ Times(a) = 1 ->
               IF Moves(content) THEN content ELSE Wrong
          [] OTHER ->
               CASE d.how = "relative" -> d.value
                 [] d.how = "symbol" -> <<"lookup", d.sym>>
                 [] d.sym # 0 \/ d.how = "dtpmod" -> <<d.how, d.sym>>
                 [] OTHER -> d.value

\* Following a pointer into .plt.got leads to the content of the GOT entry
\* that the stub jumps through.
Follow(value) ==
    LET words == {w \in image : w.at = res[value[2]].plt}
        jump == (CHOOSE w \in words : TRUE).value
    IN  CASE value[1] # "plt" -> value
          [] value[1] = "plt" /\ Cardinality(words) = 1 ->
               RuntimeAt(res[value[2]].plt + jump[2])
          [] OTHER -> Wrong

\* What a relocation leads to.
WordAt(a) == CHOOSE w \in image : w.at = a
Seen(r, sec) ==
    LET w == WordAt(Place(sec, r))
    IN  CASE w.mode = "absolute" -> RuntimeAt(w.at)
          [] w.mode = "relative" /\ w.value[1] = "entry" -> RuntimeAt(w.value[2])
          [] OTHER -> w.value

\* What it may lead to: the definition, or the one the loader finds.
Means(r) ==
    LET s == r.sym
        d == world.syms[s].def
    IN  CASE "IFUNC" \in d -> {<<"irelative", s>>, <<"lookup", s>>}
          [] {"DYNAMIC", "ABSOLUTE"} \subseteq d -> {<<"lookup", s>>, <<"zero", 0>>, <<"zero", s>>}
          [] "DYNAMIC" \in d /\ "ABSOLUTE" \notin d -> {<<"lookup", s>>, <<"copy", s>>}
          [] "DYNAMIC" \notin d /\ "ABSOLUTE" \in d -> {<<"absolute", s>>}
          [] IsAddress(d) /\ Interposable(d) /\ r.local = {} -> {<<"lookup", s>>}
          [] IsAddress(d) /\ Interposable(d) /\ r.local # {} -> {<<"lookup", s>>, <<"address", s>>}
          [] OTHER -> {<<"address", s>>, <<"lookup", s>>}

\* The offset from the thread pointer, and the pair of module and offset.
TlsMeans(r, sec) ==
    LET s == r.sym
        k == Kind(r, Merged(r), sec.exec)
        a == WordAt(Place(sec, r)).value[2]
        pair == <<RuntimeAt(a), RuntimeAt(a + WordBytes)>>
    IN  CASE k = "GotTpOff" -> RuntimeAt(a) \in {<<"tpoff", s>>}
          [] k = "TpOff" -> RuntimeAt(Place(sec, r)) = <<"tpoff", s>>
          [] k = "TlsGd" ->
               pair \in {<< <<"dtpmod", s>>, <<"dtpoff", s>> >>,
                         << <<"dtpmod", 0>>, <<"dtpoff", s>> >>,
                         << <<"module", 1>>, <<"dtpoff", s>> >>}
          [] k = "TlsLd" ->
               pair \in {<< <<"dtpmod", 0>>, <<"zero", 0>> >>,
                         << <<"module", 1>>, <<"block", 0>> >>}
          [] k = "TlsDesc" -> RuntimeAt(a) \in {<<"tlsdesc", s>>, <<"dtpoff", s>>}
          [] OTHER -> TRUE

(***************************************************************************)
(* Properties.                                                             *)
(***************************************************************************)

\* The tables are exactly as large as the writer needs: no link ends with
\* the internal errors "Insufficient ... allocation" and "Allocated too
\* much space", for want of a GOT or PLT address, or for want of a dynamic
\* symbol index.  The sizes come from the relocations in the order in which
\* the graph traversal met them, the entries from the final flags.
TablesMatch == phase # "broken"

\* In an output that is not relocatable, all references that take the
\* address of an ifunc see the same address, that of its PLT entry, whether
\* the address comes from the instruction, from data or from the GOT.
IfuncOneAddress ==
    ~Relocatable =>
        \A n \in Secs : \A i \in DOMAIN world.secs[n].rels :
            LET sec == world.secs[n]
                r == sec.rels[i]
            IN  "IFUNC" \in world.syms[r.sym].def => Seen(r, sec) = <<"plt", r.sym>>

\* Every relocation of a finished output leads, once the loader has applied
\* .rela.dyn, .rela.plt and .relr.dyn, to the symbol it names: the GOT and
\* PLT entries that instructions refer to are the ones the writer filled,
\* every link-time address in a relocatable output is adjusted exactly
\* once, the bitmaps of .relr.dyn cover no other word, and an ifunc has one
\* address.
LoaderValues ==
    phase = "done" =>
        /\ \A n \in Secs : \A i \in DOMAIN world.secs[n].rels :
              LET sec == world.secs[n]
                  r == sec.rels[i]
                  k == Kind(r, Merged(r), sec.exec)
              IN  IF k \in TlsKinds \cup {"None"} THEN TlsMeans(r, sec)
                  ELSE Follow(Seen(r, sec)) \in Means(r)
        /\ IfuncOneAddress

=============================================================================
