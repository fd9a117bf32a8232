# Verification of reld

reld is a parallel linker (a Rust fork of wild). This directory holds TLA+ models
of the parts of it where threads, processes and failures meet, the TLC runs that
check them, and TLAPS proofs of what holds for every input. Source paths are
relative to `src/crates/reld-core/src/` unless they start with `src/`.

## 1. The system

One invocation (`subprocess.rs`, `lib.rs`) forks a child that links while the
parent waits on a pipe, or links in its own process. `Linker::link_for_arch` runs
the phases:

1. `FileLoader::load_inputs` opens, maps and parses the input files in parallel and
   offers files with IR to the linker plugin (`input_data.rs`, `fs.rs`,
   `linker_plugins.rs`);
2. `SymbolDb` is filled with the symbols of every file, in buckets by name
   (`symbol_db.rs`);
3. `resolve_symbols_and_select_archive_entries` looks up undefined symbols in
   parallel and loads the archive members they need; `resolve_alternative_symbol_definitions`
   selects among several definitions; `canonicalise_undefined_symbols` merges
   what stays undefined (`resolution.rs`). With a plugin the code it generates is
   one more input and this phase runs a second time;
4. `layout::compute` finds the sections that are needed (`find_required_sections`,
   in parallel, groups of files sending each other work), merges strings, plans
   thunks, sizes the tables that relocations need, assigns addresses, and ends
   with `Output::set_size`, which creates the output file in the background
   (`layout.rs`, `elf.rs`, `string_merging.rs`, `thunks.rs`, `file_writer.rs`);
5. `write_output_file` fills and flushes the file (`elf_writer.rs`, `file_writer.rs`);
6. `verify_inputs_unchanged` compares modification times, then the dependency
   file is written and the parent is told.

| component | state | operations | interaction | hard | correct means |
|---|---|---|---|---|---|
| input loading, `input_data.rs` | claimed paths and indexes, files opened, loaded inputs | claim, open, ask for more, record, extract, verify | tasks share a map of paths and spawn each other | who claims a path first, errors in the middle, files changing | each path once, inputs in the order one thread would find, what was used is verified |
| symbol resolution, `resolution.rs`, `symbol_db.rs` | `symbol_definitions`, files not taken, undefined symbols, visibility flags | look up, take a file, select an alternative, store, merge visibility, canonicalise | tasks race with `AtomicTake`; atomic stores from parallel buckets | interleaving, stale lookups, chunk boundaries | each file once, exactly the needed ones, references bound as documented whatever the schedule |
| linker plugins and LTO, `linker_plugins.rs` | claimed files, definitions bound to IR, two thread-local errors | claim, report resolutions, take generated code, resolve again, disable IR | foreign code calls back into the linker | a second resolution over the state of the first, errors in callbacks | everything bound to machine code, nothing dropped that code refers to, no failure lost |
| graph traversal, `layout.rs` | group states, worker slots, symbol flags, section slots | activate, take and park work, load sections and symbols, export, copy-relocate | tasks post to each other's slots under a mutex; atomic `fetch_or` on flags; concurrent queues | interleaving, partial failure, termination | one owner per group, no lost work, exactly the live sections |
| string merging, `string_merging.rs` | groups of input sections, a pool of vectors, slots between input and bucket tasks, bucket maps, offset maps | split, reserve, spawn, publish, merge, return | atomics on the pool, one slot per group and bucket | lost wake-ups, a pool that runs dry, bounded queue, order | ends complete, pool balanced, each reference at the same bytes, no schedule visible |
| thunks, `thunks.rs` | blocks, owners, the symbols of each block | measure, cut into blocks, decide by a margin, place | decided before the thunks have a size, used by the parallel writer | boundaries of ranges | no branch out of range |
| allocation and writing of tables, `elf.rs`, `layout.rs`, `elf_writer.rs` | sizes per group, addresses per symbol, words and dynamic relocations | scan, size, assign, write | three passes decide separately what an entry needs | the passes must agree; RELR encoding at the limits of a bitmap | tables exactly filled, the loader computes what each relocation means |
| dynamic symbols, `layout.rs`, `elf.rs`, `elf_writer.rs` | definitions per group, versions needed per file, one sorted list, indexes | export, need a version, copy, merge, sort, number, write | groups collect in parallel; layout, three writers and the loader know an entry by its number | order depends on the schedule; passes and chunks must agree | the loader finds what is exported and only that, with the right version |
| driver, output file, subprocess: `lib.rs`, `file_writer.rs`, `fs.rs`, `subprocess.rs`, `platforms/platform_unix.rs` | processes, pipe, output path, mapping, modification times | fork, open, link, rename, create, write, flush, verify, notify, wait | pipe, exit status, channel from the background task, file system | crashes, partial failure, files changing underneath | success means a complete and consistent output; the old file is treated as promised; the invocation ends |
| parsers, scripts, arguments, relocation tables, Mach-O, debug information, bridge, diagnostics | none shared | sequential | called by the above | the text, not the control | not modelled |

`PROJECT.json` lists all components with their files, and the reason where one is
not modelled.

## 2. Modules

| module | models |
|---|---|
| `Reachability` | reachability in a directed graph, without recursion |
| `LiveSelection` | abstract specification: things are selected one by one, only live ones, never taken back, and success means that exactly the live ones are selected |
| `InputLoading` | `FileLoader`: parallel opening, extraction in order, verification |
| `SequentialLoading` | abstract specification: one thread opens the files of the command line in order, each once, what a script asks for at its place, dependent libraries last, up to the first error |
| `LoadingOrder` | the refinement mapping: `InputLoading` implements `SequentialLoading` |
| `SymbolResolution` | resolution, alternatives, canonicalisation; implements `LiveSelection` over files |
| `LtoLink` | a link with a plugin: claiming, two rounds of resolution, callbacks that fail |
| `GcGraph` | `find_required_sections`; implements `LiveSelection` over sections |
| `StringMerging` | the tasks and queues of `add_input_sections` |
| `StringSplit` | how sections are divided into groups and strings, and what merging has to make of them; extends `StringMerging` |
| `ThunkLayout` | `ThunkLayoutBuilder` and the use of thunks by the writer |
| `DynamicTables` | `.got`, `.plt.got`, `.rela.plt`, `.rela.dyn`, `.relr.dyn`: allocation, addresses, writing, and what the loader makes of them |
| `DynamicSymbols` | `.dynsym`, `.gnu.version`, `.gnu.version_r`, `.gnu.version_d`, `.gnu.hash`, `.hash`: collection, sorting, numbering, writing, and the lookups of the loader |
| `LinkDriver` | one invocation: processes, inputs, output file |
| `MC...` | instances for TLC |
| `GcGraph_proofs`, `DynamicSymbols_proofs`, `InputLoading_proofs`, `SymbolResolution_proofs`, `LtoLink_proofs`, `StringMerging_proofs`, `ThunkLayout_proofs`, `LinkDriver_proofs` | theorems |

### GcGraph

A step is one access to shared state: a `fetch_or`, a critical section of a
slot's mutex, a push or pop of a queue. What the owner of a group still has to do
for the file it activates, or the item it works on, is the sequence `frame[g]` of
operations, computed from the handler (`ActivationOps`, `WorkOps`) and executed
one by one (`ReferenceSymbol`, `SendLocal`, `SendRemote`, `LoadSymbol`,
`ExportSymbol`, `DrainStartStop`, `MarkLoaded`, `CopyRelocate`).

* `act[g]` follows `activate_group`: `ActivateFile`, then `DelayProcessing` for the
  synthetic symbols or `StartProcessing`, then `CountDown` of
  `activations_remaining`, and `PopDelayed` by the task that reaches zero.
* `runner[g]`, `local[g]`, `worker[g]` and `work[g]` are `do_pending_work`, its local
  stack and the worker slot: `TakeWork`, then `Park` or `SwapWork` under the mutex;
  `RunSpawned` starts the task that took a parked worker.
* `flags`, `slot`, `startStop`, `commonAllocs`, `dynsyms` and `copyInfo` are what loading
  leaves behind; `errors` and `undefinedRefs` decide what `Finish` returns.

Abstractions: a group holds one file; a relocation is its symbol, the flags it
adds, whether it is to an undefined symbol and whether it fails; resolution flags
are four; the sizes that sections accumulate are left out (those of the dynamic
tables are in `DynamicTables`); memory is sequentially consistent.

### SymbolResolution

Symbols are numbered in the order of the files, as in the code. A task per chunk
of a file's symbols resolves them in order (`ResolveSymbol`, `ResolveError`);
`want[c]` holds the file between the look at `AtomicTake` and the taking
(`TakeFile`). For each name with several definitions `SelectAlternative` selects,
`UpdateDefinition` stores one definition per step, and `MergeVisibility` follows;
buckets run in parallel, and every order of names is allowed. `Canonicalise` is
sequential in the code and one step here. `Definition` takes the two steps of
`SymbolDb::definition`.

Abstractions: protected visibility and interposition, linker-script redirects and
stub libraries are left out; GNU unique symbols count as weak; the entry symbol is
a reference like `--undefined`; hidden references have no version.

### LtoLink

`ExtractRegular` and `ClaimFile` go through the inputs in order, as `extract_all`
does. `LoadPlugin` is `LoadedPlugin::new` for the first file with IR, whose `onload` may leave a
message for the first call. A claim that fails is put aside (`rejected`) and further files are
offered; `FirstInputs` is where `create_lto_input_groups` finds it and fails. `FirstInputs`, `FirstResolve` and `FirstAlternatives` are the first round.
`Codegen` is `all_symbols_read`: the plugin is told a `Resolution` for each of its
definitions and returns any object that is consistent with it (`GeneratedRoles`):
what prevails for non-IR code must be there, what only IR refers to may be
dropped, references are those that are left or that code generation introduces.
`SecondInputs`, `SecondResolve` and `SecondAlternatives` add that object, resolve
what it refers to, disable IR and select again among the first definition and the
new ones, since the map of alternatives was drained. Every call into the plugin
has any outcome of `Behaviours`; `CallbackFails` and `AfterCall` are
`with_callbacks`, `check_for_errors` and the thread locals `ERROR` and
`ERROR_MESSAGE`.

Abstractions: a round is one step, its races being the subject of
`SymbolResolution`; `--wrap`, versions and shared objects are left out; what the plugin generates
is an object, not another file with IR.

### InputLoading

`BeginLoading` gives the command line its indexes; `OpenFile` is
`process_open_file_request`, `LoadInput` one call of `load_input` by a file that
asks for others (a script, or dependent libraries of an object), `RecordFile` and
`RecordError` what a task leaves; `EndScope` builds `files_by_index` and panics
where the code does. `ExtractFile` and `NextPass` are `extract_file` and the three
passes of `extract_all`. `ChangeFile` is another process, the last step
`verify_inputs_unchanged`.

`LoadingOrder` maps this to `SequentialLoading`. What a file holds is what it yields
when it is opened with the modifiers `OpenedWith` names; the agenda of the single
thread is the paths of the calls of `extract_file` still to be made, its later
list the pending dependent libraries. Opening files in parallel is a stutter; so is the
third pass, since nothing is left for it. `LoadsAsInSequence` is the whole of
`SequentialLoading!Spec`: the inputs, their modifiers, their order and the error
that is reported.

Abstractions: a file is its kind, what it asks for and its members; the search
for a library is the file it finds; scripts are the inputs they name.

### StringMerging and StringSplit

`available`, `stored` and `held` are the pool (`ReusePool`), `spawned` counts input
tasks that have not started, `slot[<<g, b>>]` is the hand-over of the strings of
group `g` to bucket `b`, `next[b]` and `bucket[b]` the state of a bucket. A step is
one atomic access: `LoadAvailable`, `ReserveAndSpawn` or `LoseReservation` are the
spawning loop and its compare-and-exchange; `ProcessInputSectionGroup` splits a
group, `PublishStrings` hands one vector over; `TakeStrings`, `WaitForStrings`,
`ProcessSplitOutput`, `ReturnStrings`, `FinishBucket` are the bucket task;
`FinaliseSection` is the end of the scope; `FindString` and `OutputAddress` are the
translation of a reference (`find_string`, `unnamed_address`). `StringMerging` takes groups as
they come; what it needs of them is the assumption `WellSplit`: strings lie apart in the
input, and identical ones go to one bucket.

`StringSplit` has where the groups come from. `StringStart` and `StartInputOffset` are the linear
offsets of strings and sections, padded to blocks of the offset map
(`MapBlockSize`); `FillGroup` is the inner loop of `split_sections` and `PushGroup` the outer one;
`SplitGroup` and `ProcessInputSection` find the strings that start in the range of a group,
also in a section that the group shares with its neighbours. Its property speaks of the
sections alone: a reference from the start of any section to any byte of a string leads to
that byte (`ReferencesFollowed`), and each bucket has its strings in the order of
the input (`BucketInInputOrder`), so that neither the schedule nor the size of a
group shows in the output.

Abstractions: a string is a name with a length and a bucket; the compressed
representation of the offset map is a map.

### ThunkLayout

`NewBuilder` decides whether thunks are needed at all, `ScanRelocations` collects
what the traversal flags, `CollectRange`, the actions of `AssignStep` and
`ProcessRefs` are `ThunkLayoutBuilder::build`, one iteration of a loop per step;
`LayoutObject` gives code and thunks their addresses, and `WriteBranches` checks each
relocation as the writer does, at the first and the last instruction of its object.

Abstractions: the unit is an instruction; one primary part; other code, the PLT in
it, precedes the primary part and is one block; instructions of a thunk are left out.

### DynamicTables

The model follows one link through the passes. `LoadRelocation` is
`process_relocation` with the x86-64 relaxation, flags and allocation of each
relocation (`Relaxations`, `Allocates`, `Adds`) and layout's `RelrEncoder`;
`Request` adds what roots and exports ask for; `FinaliseSizes` is
`allocate_resolution` for each symbol, the prelude, copy relocations and the
epilogue; `AssignAddresses` is `create_resolution`; the writer's actions walk
symbols and sections again, take entries from each group's part and fail where
`TableWriter` runs out, and `ValidateEmpty` fails where entries are left over. `image`, `dyn` and
`relr` are what is in the file; the loader's definitions (external: the ABI) apply
them, and `LoaderValues` compares each relocated word and GOT entry with what the
relocation means.

Abstractions: x86-64; a table is a number of entries; addresses of input sections
are given. Words have 4 bytes and a bitmap 3 slots, so that a few pointers cross
the limit.

### DynamicSymbols

During the traversal (`ActivateFile`, `ExportDynamic`, `LoadSymbol`, `LoadAbiVersion`,
`CopyRelocateSymbol`) each group appends definitions to export and notes the versions
it needs, in any order of the requests; `FinaliseCopyRelocations` adds the aliases of
copied variables. `MergeDynamicSymbolDefinitions` concatenates and sorts, with any
result an unstable sort may have; `FinaliseSizes` counts; `ApplyNonAddressableIndexes`
numbers versions and drops `.gnu.version` if nothing has one; `FinaliseLayout` gives
symbols their indexes, those of definitions overwriting the others. `WriteGroup` and
`WriteEpilogue` write each group's part, definitions in chunks of any size of
`ChunkSizes` (the code has at least ten per chunk), and `Exhausts` is the error for
an allocation that does not fit. Which symbols get an undefined entry is decided three
times, as in the code: `EntryReserved`, `TakesIndex`, `WritesEntry`. The lookups
(external: the System V ABI and the versions of glibc) read only what was written.

`IsLink` says what symbol resolution hands to these passes, and TLC evaluates it for every
instance. Abstractions: names are numbers with given hashes; strings and addresses of the entries
are left out, an entry is its symbol and whether it is defined; protected and local
symbols are symbols that cannot be exported.

### LinkDriver

`step` is the program counter of the linking process, `creator` that of the
background task of `Output::set_size`, `remover` that of the task that deletes the
renamed file; `child`, `pipe` and `exit` are what the parent sees. A file is an
inode, "Old" or "New", with a content; `output` and `aside` are the two paths.
`LoadInputs` begins the loading: `OpenInput` and `ParseInput` take place in parallel for each file
and may fail, and `ExtractAll` fills `loaded_files` in order up to the first error. Only those files
are compared by `VerifyInputsUnchanged`. `ReceiveOutput` waits for the background task, and fails when
that has ended without sending; the parent's read of the pipe ends with a byte or when no process has
its other end open any more (`writers`). Every fallible step has an alternative that fails. `ChangeInput` is another
process that modifies an input, and `Kill` a signal. The options of an invocation
include what it finds: whether the output exists, is being executed, and is in a
directory in which it cannot be renamed or removed (`pinned`).

Abstractions: resolution, layout and writing are one step each; a modification
always changes the time stamp; setting the executable bit, the invocation log and
other platforms are left out; reads happen when a phase runs, so that bytes of
two versions are seen when a change falls between two phases.

## 3. Runs

| run | result | shows |
|---|---|---|
| `LoadInputs` | pass | nine command lines with scripts that name each other, dependent libraries, archives, thin archives, `-r`, static links and errors, and any one file changing at any time (`MaxChanges`): `EveryIndexRecorded`, `LoadedInputsVerified`, the refinement of `SequentialLoading` (`LoadsAsInSequence`), `Terminates` |
| `ResMix` | pass | objects, archive members and an as-needed shared object with 28 symbols, with and without `--allow-multiple-definition` and a malformed symbol: eight properties, among them the refinement of `LiveSelection` (`LoadsExactlyNeeded`) |
| `LtoLinks` | pass | an object, an archive member, an IR file and an IR member with every choice of definitions of two names, every outcome of loading the plugin and of each call: `BoundToCode`, `NonIrReferencesReported`, `FailuresPropagate` |
| `GcLink` | pass | two objects, the synthetic symbols and a shared object; a common and a `__start_` symbol, exports against references, copy relocations at one address, exception frames: `OneOwner`, `NoStrandedWork`, `ResolvedSymbolsHaveHome`, `CopyRelocationsRecorded`, `KeepsExactlyLive` (refinement of `LiveSelection`), `Terminates` |
| `GcErrors` | pass | errors in an activation, a relocation, a discarded section, an undefined symbol, met or dropped as the schedule has it: whether the link fails does not depend on the schedule (`FailuresReported`) |
| `MergeStrings` | pass | five lists of sections: strings repeated across groups, longer than a group, without terminator, a bucket past its limit: `ScopeEndsComplete`, `PoolBalanced`, `ReferencesReachTheirString`, `StringsMerged`, `EndsUnlessSpawning` |
| `MergeStraddle` | violation | the same with buckets of one byte less: a reference into a string that ends beyond the limit leads to another string |
| `Thunks` | pass | all sizes of seven objects, fourteen ways to branch: `EveryBranchReaches`, `BlockInReach` |
| `Tables` | pass | about seven thousand links: `TablesMatch`, `LoaderValues` |
| `DynSyms` | pass | forty-six executables and shared objects with copies and aliases, versions of their own and of two libraries, `--defsym`, script symbols, no exports, each style of hash table, every order of requests: `ExportsFound`, `ImportsBound`, `TablesFilled`, and for outputs with `.gnu.hash` and unique names `OrderDetermined` |
| `DriverLink` | pass | all option combinations without the exceptions below, two inputs of which any may fail to open or to parse: `SuccessMeansComplete`, `SuccessMeansConsistent`, `ChangedInputsReported`, `ReplacementModeRespected`, `Terminates` |
| `DriverKilled` | violation | a child killed by a signal is taken for a success |

The violations are described, with the lines they contradict, under `findings`
in `PROJECT.json`.

**Bounds.** The graph instances are the smallest in which every operation races
with every other one it can race with: three groups besides the synthetic one (a
requester, an owner, and a third party whose activation is late), two references
to each interesting symbol, and a start/stop section in another group than the
reference. In `ResMix` two tasks request one member, members need members, and a
name has strong, weak, common, hidden, unloaded and shared definitions; chunks of
three symbols make every file of more than three symbols several tasks. `DriverLink`
has two inputs, each changed at most once (`MaxChanges`): a second change of a file
can only keep the time stamp different, and the theorems cover any number.
`LoadInputs` has six files, enough for two scripts that share a file, name each other
and a file of the command line. `MergeStrings` has two buckets and a pool for two
tasks, so that reservations fail; the theorems cover any number. In `Thunks` the range
is 8 and the margin 4, so that seven objects of 0 to 2 instructions need up to three
blocks, with objects of size zero and blocks that are placed by the last object.
In `Tables` each symbol class is referenced twice from code, in two ways, and once
from data, between symbols with entries of their own, so that an entry too many or too
few moves another one. `DynSyms` has six names whose hashes collide in a bucket, and in
all bits but the one that ends a chain, up to five exports, so that there are several
buckets and several chunks, and two libraries with a version of the same name.

**Exceptions in the passing runs.** A passing run leaves out the kinds of link in which
the code does something else than it says; section 5 lists them, with the
instances that show them. They are excluded by `SoundOptions` (`DriverLink`),
`MCWorlds` of `MCLtoLink`, of `MCDynamicTables` and of `MCDynamicSymbols`, `AllWorlds` of `MCInputLoading`, by
the tables of `MCSymbolResolution`, by `BucketLimit` in `MergeStrings`, and by `Killable`.

**Deadlock** is checked where the model has a final step that stutters; in `Tables`
and `DynSyms` a link simply ends when it is written, rejected or broken.

**Fairness.** `GcGraph`, `SymbolResolution` and `InputLoading`: weak fairness of each task
(of the only possible steps in `InputLoading`), since rayon runs every spawned task
and tasks never wait for each other; and of the step that ends the scope.
`StringMerging`: the same, and nothing more. The loop that spawns input tasks ends only when it finds
the pool empty or loses a race; one that spawns in lockstep with a thread that runs each task at
once, finds no group left and gives the vectors back, never sees that. `EndsUnlessSpawning` leaves this one run and no other;
section 5 says more. `LinkDriver`: weak fairness of the linking
process, of the background task and of the parent; none for `Kill`, for `ChangeInput`,
nor for the removal of the renamed file, which nobody waits for. `LtoLink`,
`ThunkLayout`, `DynamicTables` and `DynamicSymbols` are sequences of passes and make no
claim of liveness.

## 4. Theorems

All are proved for every value of the constants, under the named assumptions of
the modules (finite sets, well-typed tables), which TLC evaluates on each instance.
Some theorems have hypotheses about the link besides; each excludes a disagreement
of section 5. They are defined at the end of the module they are about, and
`MCGcGraph`, `MCSymbolResolution`, `MCLtoLink`, `MCThunkLayout` and `MCDynamicSymbols` assume them of the
instances of the runs, so that TLC evaluates them and no theorem is about links that do not exist.

**GcGraph_proofs.** `GcTypeCorrect`, `GcOneOwner`, `GcNoStrandedWork`,
`GcSyntheticAfterActivation` and `GcAllGroupsReturned` follow from `GcInvariant`:
`Spec => [](TypeOK /\ IInv)`. Ownership is not inductive alone: the delayed group is
safe only because `activations_remaining` is exactly the number of groups whose
tasks have still to count down (`Counting`), because a task at zero is the one that
empties the queue (`DelayedPending`), and because only owners have frames and local
work (`QueuesOwned`). `IInvNext` has a step per action; the actions that only work
through a frame share the lemma `QuietStepIInv`.

`GcKeepsExactlyLive` is the refinement: `Spec => Promise!Spec`, the
traversal loads live sections only and, when it succeeds, all of them. It follows
from `GcLiveInvariant`. Work moves between frames, local stacks and worker slots in
every action, so the invariant speaks of `Ops`, all operations left in any frame, and
`Queued`, all items in any queue, and a set of lemmas says what each action takes from and
adds to the two. `OnlyNeeded`: whatever is in them is reachable from the roots.
`NothingForgotten`: unless an error was met, whatever a loaded section, a root or an
activated file asks for is loaded, or is in one of them, or is on its way between
`fetch_or` and the request (`Between`); for a start/stop symbol the sections that
wait for it are where the one that drains them finds them (`Handover`, `DrainsLate`).
`GcCopyRelocationsRecorded` adds `CopyInv`: whoever sets `COPY_RELOCATION` first leaves a
request that is under way or recorded. `GcResolvedSymbolsHaveHome` needs that a
common symbol is allocated once: the request for it is at one place of one
queue at any time (`AtOnePlace`), because only the task that finds its flags empty
sends it. That is where the hypothesis comes from: `CommonReferencesFlagged`, since a
relocation for which `resolution_flags` (`layout.rs:3112`) returns nothing leaves them empty.
`GcFailuresReported` has two directions. If the traversal ends well, no live section fails: until an error is met
each relocation of a loaded section is still to be processed or has left its mark, an undefined
reference or a request for a copy (`ReportInv`), and what is live was loaded (`GcLiveInvariant`). If
nothing live fails, nothing that is at work does (`FailFree`), since it is all reachable from the roots.

**InputLoading_proofs.** `InputInvariant` says who holds a load index: at any time exactly one
of a waiting request, a running task and a recorded file (`HeldOnce`, `AllHeld`), of
which `InputEveryIndexRecorded`, `InputNeverPanics` (building `files_by_index` never
indexes past its end) and `InputOpenedOnce` are consequences; the last needs
`Claimed`, that the map of paths names the holder. `InputLoadedInputsVerified`: every record kept by
extraction has its file, in the version that was opened, among the files that are
verified (`Backed`), through the three passes and through archives whose members are
extracted one by one.

`InputLoadsAsInSequence` is the refinement: `Spec /\ ModifiersAgree => LoadsAsInSequence`.
It follows from `SequenceInv`, which adds two halves to the invariant above. `OpeningOrder`, while
files are opened: the files of the command line have the first indexes (`InputOrder`), every
request carries the modifiers of its path (`RequestOrder`), an index handed out for a path is
held with that path (`ClaimHeld`), what a task has asked for so far, together with what it will
ask for, is what the file asks for, in order, with the indexes the map of paths knows
(`AllInOrder`), and a file is asked for by one with a smaller index (`Origin`). `ExtractionOrder`:
every file the passes have not taken yet waits in the list of work or behind a file in it
(`Coming`), so that all are taken when the third pass begins: whoever asked for a file was itself
extracted, by induction over the indexes. That is why the safety net of the third pass
finds nothing. One step per action maps to a step or
a stutter of `SequentialLoading`; only extraction and the last step map to steps.
`ModifiersAgree` is needed, because whoever claims a path first decides how it is
opened; it is a formula about the command line and the files, true of all
command lines of `LoadInputs`, and false of `Conflict` in section 5.

**SymbolResolution_proofs.** `ResLoadedOnce`: what tasks want is optional, and a file
has been loaded exactly if it is not available any more (`LoadInv`).
`ResDuplicatesRejected`: files are loaded in the first phase only, so that a name
examined afterwards has no duplicates or the link fails (`DuplicateInv`); that a set
of symbols has a least element comes from the well-foundedness of the naturals
(`LeastSymbol`). `ResLoadsExactlyNeeded` is the refinement of `LiveSelection`, from
`ResNeededInvariant`: only needed files are loaded or wanted, and a request of a loaded
file is on somebody's list, in somebody's hands, or honoured. What references are bound to
takes `ResBindInvariant` (a reference a chunk has gone past has the definition its
lookup found and is on the list of those that may stay undefined, until
canonicalisation, of which `Final` is the result) and `SelectInv` (a definition stands
for itself until the one selected for its name is stored, whichever bucket comes
first). From them, under hypotheses:

| theorem | assumes | because |
|---|---|---|
| `ResBindsToSelected` | `SeparateVersions`, `WeakDefinitionsNeeded` | two buckets would store into one definition; a weak reference does not load the file of the first definition |
| `ResUndefinedReferencesMerged` | `ReferencesUnversioned` | the representative of references with a version does not stand for itself |
| `ResHiddenReferencesStayLocal` | `HiddenNamesAgree` | a hidden reference marks what it finds, not what is selected |
| `ResReferencesKeepVersion` | `SharedObjectsFitChunk`, `WeakDefinitionsNeeded`, `SeparateVersions` | versions beyond the first chunk are read at the wrong index; the second step to a definition may lead to another version |

The instances of section 5 violate the properties without them.

**LtoLink_proofs.** `LtoFailuresPropagate`, for a plugin that reports the failure of its
callbacks: whatever went wrong during the claims was put aside or, if `onload` reported it, is taken by
the next call, which is sure to come; past the claims neither thread local is set (`CallbackInv`). `LtoBoundToCode` follows from
`LtoLinkInvariant`, which goes along with the link. After the first round what is loaded is closed
under lookups, what code refers to is marked, and every definition stands for the
first one that is loaded (`FirstRound`, `Selected`); the generated object defines only what prevails
in IR, all of it that is marked, and refers to none of it (`Generated`), hence changes
no lookup. Before the last selection a name that code refers to
either is one whose definitions are all in IR and in the generated object, so that
disabling IR makes the latter win (`FromIr`), or is not examined again and bound
to code (`Settled`). `LtoNonIrReferencesReported` is the part up to code generation. Both need
`StrengthsAgree`; `RuntimeApart`, for the first one, says what must hold of members
that are loaded only because generated code calls them.

**StringMerging_proofs.** `MergeTypeCorrect`, `MergePoolBalanced` and
`MergeScopeEndsComplete` follow from `IInv`, four parts that need each other:
`HandOverInv` (the slot of a group and bucket says exactly which of the two parties
has come, and a vector is held exactly between being taken from the pool and being
returned), `BoundsInv`, `PoolInv` (available, reserved and held vectors add up; the
reserved ones are `NumBuckets` for each task that has not started, a product hidden
behind `Reserved` and its lemma `ReservedStep`), and `ProgressInv`: while groups are
left there is a task to process one, a vector whose return makes somebody look at
the pool, or somebody about to look at it or who has seen it full. The last part is
why nobody gives up too early: whoever loses a race loses it to one of these.
`ErrorInv`, that a group which failed has reported it, is a second induction, and
`CompleteAtEnd` draws the conclusion. Each action has a lemma; `QuietStep` and `SameHandOver`
carry what an action does not touch.

`MergeStringsMerged` is about what the tasks compute. Its invariant `ContentInv` has four parts:
a bucket is always what taking the groups before `next[b]` in order would
make it, whatever order the groups were split in (`OrderInv`, from the hand-over: a slot
holds the vector of its own group); the strings in a bucket lie one behind the other, each once
(`BucketsInv`); each string of a group that was taken has exactly one entry in the offset map, the
place of its first occurrence (`RecordedInv`); the buckets lie behind one another in the
section (`FinalInv`). From these, identical strings share a place, different ones do not overlap
(`PlacesApart`), and `find_string`'s backward search finds the string a reference
points into, because strings lie apart in the input (`WellSplit`). The premise that a bucket ends below
`BucketLimit` is what the first attempt to prove this without it lacked: see `MergeStraddle`.

The last part is about `StringSplit`, for any sections, any size of a block and of a group. Each
recursive function is shown to exist (`RecursionExists`) before it is unfolded. A group
fits the sections (`GroupFits`): it begins in its first section and ends in its last one, at
the end of a section or within one that is made of strings. `FillGroup` makes such a group
(`FillGroupFits`), each further one begins where the last one ended (`PushGroupChain`), and there are
no more groups than bytes, so the groups divide the offsets into consecutive ranges
(`GroupsPartition`). A group has exactly the strings that start in its range, in order
(`SplitGroupHolds`); the delicate point is that sections which are not made of strings are taken
without looking at the range, which is right because they are never divided
(`TakenInRange`). `SplitEachStringOnce` puts this together, and `SplitsWell` proves of every list of
sections what `WellSplit` assumes of the groups. In a bucket that takes the strings in
ascending order, each one follows those that occur before it (`AddStringInOrder`); with
`MergeStringsMerged` this gives `MergeReferencesReachTheirString`, under the premise
`BucketsInLimit`.

**ThunkLayout_proofs.** `BlocksAreInReach` and `BlocksAreApart`: for any number of
objects that are each smaller than the branch range. The invariant says, for the
loop of `assign_thunk_blocks` at object `i`, that the ranges collected are contiguous
(`Ranges`), that owners own different blocks at least a range apart (`Owners`), that
the last block placed is at `prevPos` (`Previous`), that every object before `i`, or
before the one that waits, has an owner in reach (`Settled`), and that the objects
of a block waiting to be placed are all within the range of its first (`Waiting`).
`BranchesReach` carries this on to the writer: `EveryBranchReaches` wherever the thunks of a
block, with the code of its owner, fit in the margin (`MarginSuffices`);
`BranchesToFewTargetsReach` replaces this state predicate by one on the inputs
(`FewTargets`). Three more invariants are needed. `Blocks`: the first block follows the
non-primary code (`FirstPlaced`), and no other block lies between an object and a later
owner of its block (`NextBlock`). `Requested`: a branch from an object was shown to be in
range, or its symbol has a thunk in the object's block. `Layout`: without an owner
between two objects their addresses are as far apart as their ranges, and thunks lie
behind their owner (`Laid`). As blocks are a range apart, at most one lies between objects that are
within a branch range of each other (`Gap`), so that the margin of one block covers it. That
the sum of the sizes is a function of the number of objects is proved on the way
(`SumExists`), by the least number for which it would not be.

**DynamicSymbols_proofs.** `SymbolsTablesFilled` compares the two sides of every table.
Layout adds up numbers over the set of the files of a group, with `MapThenSumSet`; a
writer appends one sequence per file, with `FlattenSeq`. Neither operator has library facts,
so the first part proves that a sum over a finite set exists and may take its elements
in any order (`SumsExist`, `SumsFacts`), that `FlattenSeq` is its parts appended one by one
(`FlattenFacts`), and from both that the length of the written sequence is the sum
(`FlattenLength`), also for the table whose records have different sizes (`FlattenRuns`). What
is added is equal file by file because `EntryReserved` and `WritesEntry` agree
(`SameEntries`): the one asks for canonical symbols, the other does not, so `LinkInv` says that the traversal gives flags
to canonical symbols only, and copies only variables of shared objects. For
`.gnu.version_r` it is that a needed version never gets the index `VER_NDX_GLOBAL`, by which
the writer leaves out the others (`VerneedFacts`; `BaseInv`: every file numbers its versions from 2 at
least). Definitions are written in chunks, of which the first `k` have `k * size` symbols or
all (`DefinitionVersymsFacts`). `ReserveInv` carries the sizes from `FinaliseSizes` to the writers, with
`.gnu.version` dropped if nothing is versioned (`Unused`). The hypothesis, `ScriptsUnversioned`, is
where the theorem meets the exception of section 5: the invariant then gives an
output with a linker script no versions, so `.gnu.version` is dropped and its
chunks are never written (`VersionsWithoutScripts`).

**LinkDriver_proofs.** `DriverTypeCorrect`; and, if no forked child is killed,
`DriverSuccessMeansComplete`, `DriverSuccessIsFinal`, `DriverSuccessMeansConsistent` and
`DriverChangedInputsReported`. The invariant has four parts: `ProcessInv` (who has
ended and who is told what), `OutputInv` (the file being written is the one at the
output path, and one party creates it), `SuccessInv` (once success is certain the output
is complete and nobody can write it), `InputInv` (the bytes used lie between the
recorded and the current version; all inputs are loaded when linking starts; after
verification the bytes of the loaded ones are of the recorded version). `DriverFatalWarningsFail` and `DriverReplacementModeRespected` hold
under the assumptions that exclude the exceptions below; they say exactly
which invocations are safe.

**Only model-checked:** `Terminates` of four modules and `EndsUnlessSpawning`, since liveness and anything with `ENABLED` is beyond
the prover; `TablesMatch` and `LoaderValues` of `DynamicTables`, and `ExportsFound`, `ImportsBound`
and `OrderDetermined` of `DynamicSymbols`, which compare the contents, not only the sizes, of what
several passes and the loader compute: each needs an induction over data per fold, and
`OrderDetermined` facts about sorting besides.

## 5. Disagreements between the code and what it says

Each was met while modelling or proving. Two are runs of their own (`DriverKilled`,
`MergeStraddle`); the others can be seen by giving the named instance to the constants of the run of
the same module.

* `MCSymbolResolution`, instance `Weak...` (`File <- WeakFile`, `SymbolTable <- WeakTable`
  and so on), `BindsToSelected`: a weak reference stays undefined although a loaded object
  defines the name, because an unloaded archive member is the first definition.
* `Version...`: two shared objects with `foo@@V` and a weak `foo` in an object; which one
  is bound depends on the schedule.
* `Chunk...` with `ChunkSize = 2`, `ReferencesKeepVersion`: the version of a reference beyond
  the first chunk (5000 symbols, `resolution.rs:512`) of a shared object is read at the
  wrong index.
* `Twin...` with `ChunkSize = 9`, `ReferencesKeepVersion`: two shared objects define `foo@@V1` and
  `foo@@V2`. Both are alternatives under the name `foo`, and the one selected replaces the other
  (`symbol_db.rs:1263`); a third shared object's reference to `foo@V2` finds the second
  one in its first step and `foo@@V1` in the next (`symbol_db.rs:815`), so that its version is lost.
  `SeparateVersions` excludes this.
* `Hidden...`, `HiddenReferencesStayLocal`: a hidden reference marks another definition
  than the one selected. `Shared...`, `SharedSymbolsNotLocalised`: a weak hidden
  reference marks a symbol of a shared object as local.
* From the proof of `ResUndefinedReferencesMerged`, not from a run: of the references that ask
  for the same version of a name and stay undefined, the last one stands for the
  others but is not made to stand for itself (`resolution.rs:1136`, against line 1115
  for names without a version): it keeps what its own lookup found, which can be
  the undefined symbol.
* `MCLinkDriver`, with the invariant `ChangedOpenedInputsReported` added to `DriverLink.cfg`: "We want
  inputs-changed errors to take precedence over all other errors" (`lib.rs:278`), but
  `verify_inputs_unchanged` goes through `loaded_files` only (`input_data.rs:391`), which extraction
  fills up to its first error (`input_data.rs:457`). Of a file that changed while it was being parsed, so that
  parsing failed, the error of the parser is shown, and the same goes for files after it.
* `MCStringMerging`, with `<>(merged.state \in {"done", "error"})` for `EndsUnlessSpawning`: the run that
  property leaves out. When no group is left, `LoadAvailable`, `ReserveAndSpawn` and, by another thread,
  `FindNoGroup` of the task just spawned may repeat for ever. Each round needs the other thread to run
  the task and give its vectors back before the loop looks at the pool again, so that this ends sooner or
  later on a real machine; nothing in the code says when.
* `MCLinkDriver`, `Options <- FatalOptions`, `FatalWarningsFail`: `--fatal-warnings` has no effect
  in a forked link. Also outside `SoundOptions`: `UpdateInPlace` with a single thread,
  where `delete_old_output` removes the file regardless of the mode
  (`file_writer.rs:215` against `fs.rs:32`); `UnlinkAndReplace` in a directory where the
  rename fails, whose result is dropped so that the old file is truncated
  (`file_writer.rs:167` against `fs.rs:28`).
* `MergeStraddle`, from the proof of `MergeStringsMerged`, which did not go through
  without a premise: `BucketOffset::new` rejects a string that starts at `1 << 28` or later,
  not one that starts below and ends above (`string_merging.rs:905`); for a reference to
  what lies above, `find_string` adds the distance to the packed offset
  (`string_merging.rs:1159`), which carries into the number of the bucket.
* `MCInputLoading`, `Worlds <- Conflict`, `LoadsAsInSequence`: two scripts name a file with
  different modifiers and those of the one that claims it first win, against the
  determinism of `docs/plan/00-OVERVIEW.md:71`; `ModifiersAgree` excludes this. `Worlds <- ThinOnly`,
  `OpenedInputsVerified`: a thin archive itself is not in `loaded_files` and never verified.
* `MCLtoLink`, `Worlds <- MCMixedWorlds`, `NonIrReferencesReported`: `HAS_NON_IR_REF` is set on the
  first definition of a name (`resolution.rs:951`) and asked of the one that prevails
  (`linker_plugins.rs:984`); with a weak definition in an object and a strong one in IR
  the plugin is told that only IR refers to it. From reading, not from a run: the names
  of `--undefined` (`Forced`) are not marked either. From the proof of `LtoBoundToCode`,
  and seen with three names: an archive member that is loaded in the second round,
  because generated code calls it, may refer to a name that only IR defines and that the plugin was
  told nothing but IR refers to; if the plugin drops it the reference stays bound
  to the disabled IR file (`RuntimeApart` excludes this). `PluginObeys = FALSE`, `FailuresPropagate`: an `ERROR` set by a callback
  is not looked at when the plugin returns success, and ends a later call.
* `MCDynamicTables`, `Worlds <- MCReversedWorlds`, `TablesMatch`: the pointers of a `.ctors` section
  are written in reverse, so that the writer's RELR encoder meets descending
  addresses where layout counted ascending ones (`elf_writer.rs:1060`).
* The same, `Worlds <- MCTlsWorlds`, `LoaderValues`: `process_got_tls_mod_and_offset` stores
  offset 0 for every symbol with a dynamic symbol index and writes a `DTPOFF` relocation
  only if it is interposable (`elf_writer.rs:978`); a thread-local variable that is
  exported but bound locally (protected, `-Bsymbolic`) is taken for the start of the TLS
  block, although the pair is there "to store the module number and offset within the
  module" (`value_flags.rs:72`).
* `MCDynamicSymbols`, `Worlds <- MCScriptWorlds`, `TablesFilled` and `ExportsFound`: a
  definition by a linker script writes no version (`elf_writer.rs:5760`; its neighbours
  do), so that in an output with versions those of the symbols after it in the chunk
  are shifted and the last is left as it was. With `OrderFollowsInputs`
  for `OrderDetermined`, `Worlds <- MCSysvWorlds`: "the epilogue will sort all dynamic symbols"
  (`layout.rs:1242`), but with `--hash-style=sysv` alone nothing sorts them, and their order is that in which
  shared objects happened to ask for them, against `docs/plan/00-OVERVIEW.md:71`. `Worlds <- MCTwinWorlds` (and
  `MCWorlds` itself): "Tie-break by name for determinism. We can use an unstable sort because names
  should be unique" (`elf.rs:4736`); two versions of one name are not, and come in either
  order. `Worlds <- MCAliasWorlds`,
  `ExportsFound`: an alias of a copied variable is exported although nothing marked its
  version as needed (`elf.rs:6281`), gets the global version, and answers for another
  version of its name. From reading: the comment at `elf_writer.rs:5032` says that the
  version of symbol 0 "needs to be set as local" and the code writes the global one.
* Left out of `MCWorlds` of `MCDynamicTables`, from reading both sides: layout asks whether
  the offset of a pointer is even (`elf.rs:5868`), the writer whether its address is
  (`elf_writer.rs:1284`); a PC-relative reference from a writable section to an
  interposable symbol allocates a dynamic relocation that is never written; a
  pointer in a read-only section to an ifunc or a dynamic symbol of a relocatable output
  ends in an internal error; an ifunc of a static executable that is first requested by the entry,
  `--undefined` or an export gets no PLT entry; a hidden undefined weak thread-local
  variable allocates an entry in a shared object that is not written; an executable that exports
  a thread-local variable and does not relax general-dynamic accesses has the offset
  zero of `MCTlsWorlds`.
* `MCGcGraph`: the instances have no relocation without resolution flags
  (`RelocationKind::None`, `AbsoluteLowPart`, `TlsLd`) that comes before another reference
  to the same common symbol: such a relocation requests the symbol and leaves its
  flags empty, the next one requests it again, and `load_symbol` reserves the
  common's space twice (`elf.rs:5918`, `layout.rs:1080`); adding it to `LinkRelocations`
  violates `ResolvedSymbolsHaveHome`.
* `ThunkLayout` rests on assumptions the code does not check: `ObjectsFit` (no object is
  as large as the range) and that non-primary code precedes the primary part. Only
  executable bytes of the input count for the decision to have thunks, generated ones do
  not (`GeneratedCodeFits`). From the proof of `BranchesReach`, and seen with `Sizes = {0, 1, 3}`,
  `MinBranchRange = 6`, `MaxThunkBytes = 2`: when a block is placed behind an object because that object
  is out of range of the block's first (`thunks.rs:436`), its own code lies between the two, so
  that not the thunks alone but the thunks and the owner's code must fit in
  `MAXIMUM_THUNK_BYTES_PER_BLOCK`. Where these fail a branch is reported as out of range; it is never written
  wrongly.

## 6. Not modelled

The models cover the parts where several threads, processes or passes must agree;
by lines this is about a tenth of the program. What is left:

* parsers (object formats, archives, arguments, linker and version scripts, globs,
  expressions): a model abstracts the text away, which is where they are hard;
* relocation tables and instruction encodings of five architectures, and Mach-O: data
  and sequential emission, compared with other linkers byte by byte by the
  repository's tests;
* sections that a linker script sorts, which the epilogue copies and relocates
  (`elf_writer.rs:5430`): `DynamicTables` relocates each section in its own group;
* `.symtab`, exception frames, headers and `-r` output: see the plan; debug information, `.gdb_index`, SFrame: transformations of one
  section;
* segments and addresses of output sections: sequential arithmetic, see the plan;
* the bridge to platform linkers: the behaviour is the other program's;
* save-dir, diagnostics, tracing, timing, test tools.

## 7. Plan

1. `.symtab` and `.strtab`, what layout reserves against what the writer emits, and
   `DynamicSymbols` composed with `GcGraph`.
2. `SectionLayout`: addresses and file offsets of sections, segments, alignment, TLS and
   RELRO.
3. Protected visibility and definitions by linker scripts in `SymbolResolution`.
4. Proofs: the counting half of `TablesMatch`, that the writer takes no more entries than layout reserved, from the
   sums of `DynamicSymbols_proofs`; that versions and indexes of `DynamicSymbols` agree.
