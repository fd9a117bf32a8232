------------------------- MODULE SymbolResolution -------------------------
(***************************************************************************)
(* Symbol resolution and the selection of archive members: resolution.rs   *)
(* with the symbol tables of symbol_db.rs.                                 *)
(*                                                                         *)
(* Phase "Resolve": the undefined symbols of every loaded file are looked  *)
(* up by tasks, one per chunk of a file's symbols.  A strong reference to  *)
(* a file that was not needed so far, an archive member or an as-needed    *)
(* shared object, requests it; an AtomicTake per file decides which task   *)
(* loads it.  Phase "Alternatives": for each name that is defined several  *)
(* times a definition is selected, in parallel for the buckets of the      *)
(* symbol tables, and stored as the definition of all of them.  Phase      *)
(* "Canonicalise": the references that stay undefined are merged by name.  *)
(*                                                                         *)
(* A symbol's definition is found in two steps, from a reference to the    *)
(* definition its lookup found and from there to the one selected.         *)
(***************************************************************************)
EXTENDS Naturals, Sequences, FiniteSets, Reachability

CONSTANTS
  File,            \* input files
  Prelude,         \* the file of the entry symbol and --undefined
  Synthetic,       \* the file of the __start_ and __stop_ symbols
  Dynamic,         \* the files that are shared objects
  Optional,        \* archive members and as-needed shared objects
  NumSymbols,      \* symbol ids are 1..NumSymbols, in the order of the files
  SymbolTable,     \* the symbols of the input, by id
  None,            \* no file, no version
  ChunkSize,       \* MAX_SYMBOLS_PER_WORK_ITEM
  MaybeMalformed   \* symbols that may turn out to be unreadable

Undefined == 0
Symbol == 1..NumSymbols

SymbolStrength == {"Strong", "Weak", "Common"}

Input == SymbolTable
FileOf(s) == Input[s].file
Name(s) == Input[s].name
IsDefined(s) == Input[s].defined
IsHidden(s) == Input[s].hidden
Version(s) == Input[s].version
IsDynamic(s) == FileOf(s) \in Dynamic

Object == File \ {Prelude, Synthetic}

ASSUME FileAssumption ==
  /\ IsFiniteSet(File)
  /\ Prelude \in File /\ Synthetic \in File
  /\ None \notin File
  /\ Dynamic \in SUBSET Object
  /\ Optional \in SUBSET Object

ASSUME SymbolTableAssumption ==
  /\ NumSymbols \in Nat
  /\ DOMAIN SymbolTable = Symbol
  /\ \A s \in Symbol :
       /\ FileOf(s) \in File
       /\ IsDefined(s) \in BOOLEAN /\ IsHidden(s) \in BOOLEAN
       /\ Input[s].strength \in SymbolStrength
       /\ Input[s].size \in Nat
       /\ Input[s].default \in BOOLEAN
       /\ Input[s].comdat \in BOOLEAN
       /\ IsHidden(s) => Version(s) = None /\ FileOf(s) # Prelude
       /\ FileOf(s) = Synthetic => IsDefined(s)
  /\ \A s, t, u \in Symbol : s < t /\ t < u /\ FileOf(s) = FileOf(u) => FileOf(t) = FileOf(s)
  /\ ChunkSize \in Nat \ {0}
  /\ MaybeMalformed \in SUBSET Symbol

VARIABLES
  malformed,       \* the input: symbols that cannot be read
  allowMultiple,   \* the input: --allow-multiple-definition
  phase,           \* what link_for_arch is doing
  definitions,     \* symbol_definitions, without the undefined symbol 0
  available,       \* optional files whose definitions were not taken
  loads,           \* how often a file was pushed on Outputs.loaded
  todo,            \* symbols a chunk's task has not resolved yet
  want,            \* the file a task is about to take
  undefined,       \* Outputs.undefined_symbols
  localised,       \* symbols with the flag DOWNGRADE_TO_LOCAL
  stores,          \* per name: definitions still to be stored, and as what
  failed,          \* an error was reported
  outcome          \* "Running", then "Ok" or "Err"

resolveVars == <<definitions, available, loads, todo, want, undefined, localised>>
inputVars == <<malformed, allowMultiple>>
vars == <<inputVars, phase, resolveVars, stores, failed, outcome>>

---------------------------------------------------------------------------
(* The symbol tables.  A definition is found by its plain name unless it   *)
(* has a version that is not the default, and by name and version if it    *)
(* has one.                                                                *)

Least(S) == CHOOSE s \in S : \A t \in S : s <= t

Definitions(n, v) ==
  {s \in Symbol :
     /\ IsDefined(s) /\ Name(s) = n /\ FileOf(s) # Synthetic
     /\ IF v = None THEN Input[s].default ELSE Version(s) = v}

Key == {<<Name(s), v>> : s \in Symbol, v \in {None} \cup {Version(t) : t \in Symbol}}

(* SymbolPrioritySelector: strong before common before weak; the largest   *)
(* common symbol, otherwise the first.                                     *)
Best(S) ==
  LET of(strength) == {s \in S : Input[s].strength = strength}
      largest == {s \in of("Common") :
                    \A t \in of("Common") : Input[t].size <= Input[s].size}
  IN CASE of("Strong") # {} -> Least(of("Strong"))
       [] of("Strong") = {} /\ of("Common") # {} -> Least(largest)
       [] of("Strong") = {} /\ of("Common") = {} /\ S # {} -> Least(S)
       [] OTHER -> Undefined

(* The place of a symbol in its file, and the chunk it belongs to; the     *)
(* prelude is one chunk.                                                   *)
Offset == [s \in Symbol |-> Cardinality({t \in Symbol : FileOf(t) = FileOf(s) /\ t < s})]
ChunkOf(s) == <<FileOf(s), IF FileOf(s) \in Object THEN Offset[s] \div ChunkSize ELSE 0>>
Chunk == {ChunkOf(s) : s \in Symbol}

(* Bug: the version a reference asks for is ignored. *)
ReferenceVersionNone(s) == None

(* raw_symbol_name: a reference of a shared object gets its version from   *)
(* the version table, which is read at the symbol's index in the chunk;    *)
(* the table has a name only for references.                               *)
ReferenceVersion(s) ==
  IF IsDynamic(s)
    THEN LET t == CHOOSE t \in Symbol :
                    FileOf(t) = FileOf(s) /\ Offset[t] = Offset[s] % ChunkSize
         IN IF IsDefined(t) THEN None ELSE Version(t)
    ELSE Version(s)

(* SymbolDb::get: the first definition in the table.  A reference that is  *)
(* not of default visibility does not see shared objects.                  *)
Get(s) ==
  LET found == Definitions(Name(s), IF FileOf(s) = Prelude THEN None ELSE ReferenceVersion(s))
  IN CASE found = {} -> Undefined
       [] found # {} /\ IsHidden(s) /\ IsDynamic(Least(found)) ->
            Best({t \in found : ~IsDynamic(t)})
       [] OTHER -> Least(found)

(* What a chunk's task goes through: neither what is defined, nor hidden   *)
(* symbols of shared objects.                                              *)
LooksElsewhere(s) == ~IsDefined(s) /\ ~(IsDynamic(s) /\ IsHidden(s))

Unresolved(c) == {s \in Symbol : ChunkOf(s) = c /\ LooksElsewhere(s)}

IsLoaded(f) == f \in {Prelude, Synthetic} \/ loads[f] > 0

Init ==
  /\ malformed \in SUBSET MaybeMalformed
  /\ allowMultiple \in BOOLEAN
  /\ phase = "Resolve"
  /\ definitions = [s \in Symbol |-> IF IsDefined(s) THEN s ELSE Undefined]
  /\ available = Optional
  /\ loads = [f \in Object |-> IF f \in Optional THEN 0 ELSE 1]
  /\ todo = [c \in Chunk |-> IF c[1] \in Optional THEN {} ELSE Unresolved(c)]
  /\ want = [c \in Chunk |-> None]
  /\ undefined = {}
  /\ localised = {}
  /\ stores = [k \in Key |-> [state |-> "Waiting", left |-> {}, as |-> Undefined]]
  /\ failed = FALSE
  /\ outcome = "Running"

---------------------------------------------------------------------------
(* Phase "Resolve".                                                        *)

Resolving(c) == phase = "Resolve" /\ want[c] = None /\ todo[c] # {}

(* References of the prelude are by name, whatever else they are. *)
IsStrongReference(s) == FileOf(s) = Prelude \/ Input[s].strength # "Weak"

(* Shared objects do not activate shared objects. *)
RequestsFile(s, t) ==
  IsStrongReference(s) /\ FileOf(t) # FileOf(s) /\ ~(IsDynamic(s) /\ IsDynamic(t))

(* Whether s may turn out to be undefined, depending on which files are    *)
(* loaded: a weak reference, or one that found nothing.                    *)
MayStayUndefined(s, t) ==
  /\ FileOf(s) # Prelude
  /\ \/ t = Undefined
     \/ (~IsStrongReference(s) \/ FileOf(t) = FileOf(s)) /\ FileOf(t) # Prelude

(* Bug: the visibility of a reference is forgotten. *)
ResolveSymbolVisible(c) ==
  /\ Resolving(c)
  /\ LET s == Least(todo[c])
         t == Get(s)
     IN /\ s \notin malformed
        /\ definitions' = [definitions EXCEPT ![s] = t]
        /\ UNCHANGED localised
        /\ undefined' =
             IF MayStayUndefined(s, t)
               THEN undefined \cup
                      {[symbol |-> s, ignore |-> IF t = Undefined THEN None ELSE FileOf(t)]}
               ELSE undefined
        /\ want' = IF t # Undefined /\ RequestsFile(s, t) /\ FileOf(t) \in available
                     THEN [want EXCEPT ![c] = FileOf(t)]
                     ELSE want
        /\ todo' = [todo EXCEPT ![c] = @ \ {s}]
  /\ UNCHANGED <<inputVars, phase, available, loads, stores, failed, outcome>>

(* resolve_symbol: look up the next symbol of the chunk.  The file that    *)
(* defines it is requested if its definitions were not taken so far.       *)
ResolveSymbol(c) ==
  /\ Resolving(c)
  /\ LET s == Least(todo[c])
         t == Get(s)
     IN /\ s \notin malformed
        /\ definitions' = [definitions EXCEPT ![s] = t]
        /\ localised' = IF t # Undefined /\ IsHidden(s) THEN localised \cup {t} ELSE localised
        /\ undefined' =
             IF MayStayUndefined(s, t)
               THEN undefined \cup
                      {[symbol |-> s, ignore |-> IF t = Undefined THEN None ELSE FileOf(t)]}
               ELSE undefined
        /\ want' = IF t # Undefined /\ RequestsFile(s, t) /\ FileOf(t) \in available
                     THEN [want EXCEPT ![c] = FileOf(t)]
                     ELSE want
        /\ todo' = [todo EXCEPT ![c] = @ \ {s}]
  /\ UNCHANGED <<inputVars, phase, available, loads, stores, failed, outcome>>

(* Bug: two tasks that found the file available both load it. *)
TakeFileTwice(c) ==
  /\ want[c] # None
  /\ want' = [want EXCEPT ![c] = None]
  /\ available' = available \ {want[c]}
  /\ loads' = [loads EXCEPT ![want[c]] = @ + 1]
  /\ todo' = [d \in Chunk |-> IF d[1] = want[c] THEN Unresolved(d) ELSE todo[d]]
  /\ UNCHANGED <<inputVars, phase, definitions, undefined, localised, stores, failed, outcome>>

(* Bug: the loser of the race tries again. *)
TakeFileRetry(c) ==
  /\ want[c] # None
  /\ IF want[c] \in available
       THEN /\ want' = [want EXCEPT ![c] = None]
            /\ available' = available \ {want[c]}
            /\ loads' = [loads EXCEPT ![want[c]] = @ + 1]
            /\ todo' = [d \in Chunk |-> IF d[1] = want[c] THEN Unresolved(d) ELSE todo[d]]
       ELSE UNCHANGED <<want, available, loads, todo>>
  /\ UNCHANGED <<inputVars, phase, definitions, undefined, localised, stores, failed, outcome>>

(* try_request_file_id after its first look: whoever takes the file's      *)
(* definitions loads it and spawns a task per chunk.                       *)
TakeFile(c) ==
  /\ want[c] # None
  /\ want' = [want EXCEPT ![c] = None]
  /\ IF want[c] \in available
       THEN /\ available' = available \ {want[c]}
            /\ loads' = [loads EXCEPT ![want[c]] = @ + 1]
            /\ todo' = [d \in Chunk |-> IF d[1] = want[c] THEN Unresolved(d) ELSE todo[d]]
       ELSE UNCHANGED <<available, loads, todo>>
  /\ UNCHANGED <<inputVars, phase, definitions, undefined, localised, stores, failed, outcome>>

(* A symbol that cannot be read ends its task with an error. *)
ResolveError(c) ==
  /\ Resolving(c)
  /\ Least(todo[c]) \in malformed
  /\ failed' = TRUE
  /\ todo' = [todo EXCEPT ![c] = {}]
  /\ UNCHANGED <<inputVars, phase, definitions, available, loads, want, undefined, localised, stores, outcome>>

(* Bug: the phase ends while a file is still being requested. *)
EndResolveEarly ==
  /\ phase = "Resolve"
  /\ \A c \in Chunk : todo[c] = {}
  /\ IF failed
       THEN phase' = "Done" /\ outcome' = "Err"
       ELSE phase' = "Alternatives" /\ UNCHANGED outcome
  /\ UNCHANGED <<inputVars, resolveVars, stores, failed>>

(* The scope ends when every task has. *)
EndResolve ==
  /\ phase = "Resolve"
  /\ \A c \in Chunk : todo[c] = {} /\ want[c] = None
  /\ IF failed
       THEN phase' = "Done" /\ outcome' = "Err"
       ELSE phase' = "Alternatives" /\ UNCHANGED outcome
  /\ UNCHANGED <<inputVars, resolveVars, stores, failed>>

---------------------------------------------------------------------------
(* Phase "Alternatives": process_alternatives, for the names that have     *)
(* more than one definition.                                               *)

Alternatives(k) == Definitions(k[1], k[2])

HasAlternatives(k) == \E s, t \in Alternatives(k) : s # t

(* select_symbol: definitions in loaded objects come before those in       *)
(* loaded shared objects, of which the first is taken.                     *)
Candidates(k) ==
  {s \in Alternatives(k) : FileOf(s) \in Object \ Dynamic /\ IsLoaded(FileOf(s))}

SharedCandidates(k) == {s \in Alternatives(k) : IsDynamic(s) /\ IsLoaded(FileOf(s))}

(* Bug: definitions in files that were not loaded count, too. *)
SelectSymbolUnloaded(k) ==
  LET regular == {s \in Alternatives(k) : ~IsDynamic(s)}
  IN IF regular # {} THEN Best(regular) ELSE Least(Alternatives(k))

SelectSymbol(k) ==
  CASE Candidates(k) # {} -> Best(Candidates(k))
    [] Candidates(k) = {} /\ SharedCandidates(k) # {} -> Least(SharedCandidates(k))
    [] OTHER -> Least(Alternatives(k))

(* Bug: one COMDAT definition is enough. *)
DuplicateStrongLenient(k) ==
  LET strong == {s \in Candidates(k) : Input[s].strength = "Strong"}
  IN ~allowMultiple /\ \E s \in strong : \E t \in strong \ {s} :
       s = Least(strong) /\ ~Input[s].comdat /\ ~Input[t].comdat

(* Two strong definitions are an error unless both are in COMDAT groups.   *)
DuplicateStrong(k) ==
  LET strong == {s \in Candidates(k) : Input[s].strength = "Strong"}
  IN ~allowMultiple /\ \E s \in strong : \E t \in strong \ {s} :
       s = Least(strong) /\ (~Input[s].comdat \/ ~Input[t].comdat)

SelectAlternative(k) ==
  /\ phase = "Alternatives"
  /\ stores[k].state = "Waiting"
  /\ HasAlternatives(k)
  /\ IF DuplicateStrong(k)
       THEN /\ failed' = TRUE
            /\ stores' = [stores EXCEPT ![k].state = "Done"]
       ELSE /\ stores' = [stores EXCEPT ![k] = [state |-> "Storing", left |-> Alternatives(k),
                                                as |-> SelectSymbol(k)]]
            /\ UNCHANGED failed
  /\ UNCHANGED <<inputVars, phase, resolveVars, outcome>>

(* update_definition, an atomic store for each of the definitions. *)
UpdateDefinition(k) ==
  /\ stores[k].state = "Storing" /\ stores[k].left # {}
  /\ LET s == Least(stores[k].left)
     IN /\ definitions' = [definitions EXCEPT ![s] = stores[k].as]
        /\ stores' = [stores EXCEPT ![k] = [state |-> "Storing", left |-> @.left \ {s},
                                               as |-> @.as]]
  /\ UNCHANGED <<inputVars, phase, available, loads, todo, want, undefined, localised, failed, outcome>>

(* handle_non_default_visibility: one hidden definition hides them all,    *)
(* but not those of shared objects.                                        *)
MergeVisibility(k) ==
  /\ stores[k].state = "Storing" /\ stores[k].left = {}
  /\ localised' = IF \E s \in Alternatives(k) : IsHidden(s)
                    THEN localised \cup {s \in Alternatives(k) : ~IsDynamic(s)}
                    ELSE localised
  /\ stores' = [stores EXCEPT ![k].state = "Done"]
  /\ UNCHANGED <<inputVars, phase, definitions, available, loads, todo, want, undefined, failed, outcome>>

EndAlternatives ==
  /\ phase = "Alternatives"
  /\ \A k \in Key : HasAlternatives(k) => stores[k].state = "Done"
  /\ IF failed
       THEN phase' = "Done" /\ outcome' = "Err"
       ELSE phase' = "Canonicalise" /\ UNCHANGED outcome
  /\ UNCHANGED <<inputVars, resolveVars, stores, failed>>

---------------------------------------------------------------------------
(* Phase "Canonicalise": canonicalise_undefined_symbols.                   *)

(* SymbolDb::definition. *)
Definition(s) ==
  IF definitions[s] = Undefined THEN Undefined ELSE definitions[definitions[s]]

(* A reference with a definition in a file that was loaded is defined      *)
(* after all.                                                              *)
StillUndefined ==
  {u.symbol : u \in {r \in undefined : r.ignore = None \/ ~IsLoaded(r.ignore)}}

SameName(s) ==
  {t \in StillUndefined : Name(t) = Name(s) /\ ReferenceVersion(t) = ReferenceVersion(s)}

(* The last symbol that refers to a name stands for it. *)
Representative(s) == CHOOSE t \in SameName(s) : \A u \in SameName(s) : u <= t

StartStop(n) == {t \in Symbol : FileOf(t) = Synthetic /\ Name(t) = n}

(* Bug: every reference stands for itself. *)
CanonicalSelf(s) == s

(* What the definition of s becomes.  The representative of a versioned    *)
(* name keeps what its lookup found. *)
Canonical(s) ==
  CASE ReferenceVersion(s) = None /\ StartStop(Name(s)) # {} -> Least(StartStop(Name(s)))
    [] ReferenceVersion(s) # None /\ s = Representative(s) -> definitions[s]
    [] OTHER -> Representative(s)

(* The definitions that hidden references hide although the references are *)
(* not bound to them. *)
HiddenByReference ==
  {Definition(Least(Definitions(Name(s), None) \cup StartStop(Name(s)))) :
     s \in {t \in StillUndefined :
              /\ IsHidden(t) /\ ReferenceVersion(t) = None
              /\ Definitions(Name(t), None) \cup StartStop(Name(t)) # {}
              /\ StartStop(Name(t)) = {} \/ t # Representative(t)}}

Canonicalise ==
  /\ phase = "Canonicalise"
  /\ definitions' = [s \in Symbol |-> IF s \in StillUndefined THEN Canonical(s) ELSE definitions[s]]
  /\ localised' = localised \cup HiddenByReference
  /\ phase' = "Done"
  /\ outcome' = "Ok"
  /\ UNCHANGED <<inputVars, available, loads, todo, want, undefined, stores, failed>>

(* The program goes on to layout, or stops with the error. *)
Finished == phase = "Done" /\ UNCHANGED vars

---------------------------------------------------------------------------

ChunkStep(c) == ResolveSymbol(c) \/ TakeFile(c) \/ ResolveError(c)
NameStep(k) == SelectAlternative(k) \/ UpdateDefinition(k) \/ MergeVisibility(k)

Next ==
  \/ \E c \in Chunk : ChunkStep(c)
  \/ EndResolve
  \/ \E k \in Key : NameStep(k)
  \/ EndAlternatives
  \/ Canonicalise
  \/ Finished

(* The thread pool runs every task that is ready. *)
Fairness ==
  /\ \A c \in Chunk : WF_vars(ChunkStep(c))
  /\ \A k \in Key : WF_vars(NameStep(k))
  /\ WF_vars(EndResolve) /\ WF_vars(EndAlternatives) /\ WF_vars(Canonicalise)

Spec == Init /\ [][Next]_vars /\ Fairness

---------------------------------------------------------------------------
(* Properties. *)

(* "Push won't fail because we allocated enough space for all the objects" *)
(* (work_items_do): however many tasks request a file, it is pushed on the *)
(* bounded queue once, and exactly when its definitions have been taken.   *)
LoadedOnce == \A f \in Object : loads[f] = IF f \in available THEN 0 ELSE 1

(* The references and definitions of one name in loaded objects. *)
References(k) ==
  {s \in Symbol : /\ ~IsDefined(s) /\ Name(s) = k[1] /\ Version(s) = k[2]
                  /\ FileOf(s) \in Object \ Dynamic /\ IsLoaded(FileOf(s))}

Beats(s, t) ==
  LET a == Input[s].strength
      b == Input[t].strength
  IN CASE a # b -> a = "Strong" \/ b = "Weak"
       [] a = b /\ a = "Common" /\ Input[s].size # Input[t].size ->
            Input[s].size > Input[t].size
       [] OTHER -> s < t

(* The documentation of resolve_alternative_symbol_definitions and the     *)
(* comment in select_symbol: a reference in a loaded object, weak or not,  *)
(* is bound to the first strong definition in a loaded object, failing     *)
(* that the largest common one, failing that the first; to a shared object *)
(* only if no loaded object defines the name, and not if it is hidden.     *)
BindsToSelected ==
  outcome = "Ok" =>
    \A k \in Key : \A s \in References(k) :
      LET d == Definition(s)
      IN IF Candidates(k) # {}
           THEN d \in Candidates(k) /\ \A t \in Candidates(k) \ {d} : Beats(d, t)
           ELSE SharedCandidates(k) # {} /\ ~IsHidden(s) => d \in SharedCandidates(k)

(* References that no loaded file defines are one symbol: they agree on    *)
(* it, it is nobody's definition, and the file that is responsible for it, *)
(* and will hold its GOT or PLT entry, is loaded.                          *)
UndefinedReferencesMerged ==
  outcome = "Ok" =>
    \A k \in Key : (\A d \in Alternatives(k) : ~IsLoaded(FileOf(d))) =>
      \A s, t \in References(k) :
        LET d == Definition(s)
        IN /\ d = Definition(t)
           /\ d # Undefined /\ IsLoaded(FileOf(d))
           /\ IsDefined(d) => FileOf(d) = Synthetic

(* A link with two strong definitions of a name in loaded objects is       *)
(* refused, unless they are COMDAT or the user allows it.                  *)
DuplicatesRejected ==
  outcome = "Ok" /\ ~allowMultiple =>
    \A k \in Key : \A s, t \in Candidates(k) :
      s # t /\ Input[s].strength = "Strong" /\ Input[t].strength = "Strong" =>
        Input[s].comdat /\ Input[t].comdat

(* The comment in resolve_symbol: "If the undefined reference has          *)
(* non-default visibility, the definition must be downgraded so it cannot  *)
(* leak into dynsym".                                                      *)
HiddenReferencesStayLocal ==
  outcome = "Ok" =>
    \A k \in Key : \A s \in References(k) :
      IsHidden(s) /\ Definition(s) \in Candidates(k) => Definition(s) \in localised

(* The comment in handle_non_default_visibility: "symbols from shared      *)
(* libraries must not be downgraded".                                      *)
SharedSymbolsNotLocalised == \A s \in localised : ~IsDynamic(s)

(* A reference of a loaded shared object to a versioned symbol is bound,   *)
(* after alternatives have been selected, to a definition of that version  *)
(* if there is one.                                                        *)
ReferencesKeepVersion ==
  outcome = "Ok" =>
    \A s \in Symbol :
      IsDynamic(s) /\ IsLoaded(FileOf(s)) /\ ~IsDefined(s) /\ Version(s) # None
        /\ Definitions(Name(s), Version(s)) # {}
      => Definition(s) \in Definitions(Name(s), Version(s))

(* Resolution ends, with an error or without. *)
Terminates == <>(outcome # "Running")

(* The files a link needs: what it was given, and whatever defines a       *)
(* symbol first that a file it needs refers to strongly.                   *)
FileRequest ==
  {<<FileOf(s), FileOf(Get(s))>> :
     s \in {r \in Symbol : LooksElsewhere(r) /\ Get(r) # Undefined /\ RequestsFile(r, Get(r))}}

NeededFiles == Reachable(File, File \ Optional, FileRequest)

LoadedFiles == {f \in File : IsLoaded(f)}

Promise ==
  INSTANCE LiveSelection
    WITH Required <- File \ Optional, Live <- NeededFiles, loaded <- LoadedFiles

(* Whatever the order in which tasks run and race for files, the files     *)
(* loaded are exactly the ones the link needs. *)
LoadsExactlyNeeded == Promise!Spec

---------------------------------------------------------------------------
(* What a link must look like for the properties above to hold of every    *)
(* schedule.  The theorems assume these of the constants.                  *)

(* The first definition of a weak reference does not request its file.     *)
(* The hypothesis that the link needs that file anyway; without it the     *)
(* reference stays undefined although other files may define the name.     *)
WeakDefinitionsNeeded ==
  \A s \in Symbol :
    LooksElsewhere(s) /\ Get(s) # Undefined /\ ~IsStrongReference(s) => FileOf(Get(s)) \in NeededFiles

(* The hypothesis that objects do not ask for a version, as compilers      *)
(* write them.                                                             *)
ReferencesUnversioned ==
  \A s \in Symbol : ~IsDefined(s) /\ FileOf(s) \in Object \ Dynamic => Version(s) = None

(* The hypothesis that a hidden reference finds one definition only, or    *)
(* that one of those it finds is hidden as well.                           *)
HiddenNamesAgree ==
  \A s \in Symbol : \A k \in Key :
    /\ ~IsDefined(s) /\ FileOf(s) \in Object \ Dynamic /\ IsHidden(s)
    /\ Name(s) = k[1] /\ Version(s) = k[2] /\ HasAlternatives(k)
    => \E t \in Alternatives(k) : IsHidden(t)

(* The version table of a shared object is read at the index of a symbol   *)
(* in its chunk.  The hypothesis that shared objects are one chunk each.   *)
SharedObjectsFitChunk == \A s \in Symbol : IsDynamic(s) => Offset[s] < ChunkSize

(* A definition with a default version is found under its name and under   *)
(* its name and version.  The hypothesis that names with several           *)
(* definitions do not overlap; without it two threads store what they      *)
(* selected for a definition that both names have.                         *)
SeparateVersions ==
  \A j, k \in Key :
    HasAlternatives(j) /\ Alternatives(j) \cap Alternatives(k) # {} => Alternatives(j) = Alternatives(k)

==========================================================================
