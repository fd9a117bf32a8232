----------------------------- MODULE GcGraph -----------------------------
(***************************************************************************)
(* The parallel graph traversal that decides which input sections are      *)
(* linked: find_required_sections of layout.rs.                            *)
(*                                                                         *)
(* Input files are divided into groups.  A group's state (GroupState) is   *)
(* owned by one task at a time.  While nobody runs it, it is parked in its *)
(* worker slot; a task that needs something from another group pushes a    *)
(* work item on that group's slot and, if it found the worker parked,      *)
(* takes it and spawns a task to run it.  Loading a section walks its      *)
(* relocations; the first reference to a symbol, decided by an atomic      *)
(* fetch_or on the symbol's flags, sends a request to the symbol's group.  *)
(*                                                                         *)
(* A step here is one access to shared state: a fetch_or, a critical       *)
(* section of a slot's mutex, a push or pop of a concurrent queue.  What   *)
(* the owner of a group still has to do for the file it activates or the   *)
(* item it works on is the sequence frame[g] of operations.                *)
(*                                                                         *)
(* A group holds one file here: files of one group share an owner, and the *)
(* file index only says which of them an item is for.                      *)
(***************************************************************************)
EXTENDS Naturals, Sequences, FiniteSets, Reachability

CONSTANTS
  Group,           \* indices of worker_slots
  Synthetic,       \* the group of the SyntheticSymbols file
  Section,         \* input sections
  Symbol,          \* canonical symbol ids
  OutputSection,   \* output sections a __start_/__stop_ symbol can name
  Address,         \* places in shared objects at which they define data
  None,            \* not a symbol
  SectionGroup,    \* the group of a section's file
  InitialSlot,     \* a section's SectionSlot when the traversal starts
  SectionOutput,   \* the output section a section goes to
  SymbolGroup,     \* the group of the file that defines a symbol
  SymbolKind,      \* how the file that defines it handles a request for it
  SymbolSection,   \* the section a symbol of kind "Section" is defined in
  SymbolOutput,    \* the output section a "StartStop" symbol delimits
  SymbolAddress,   \* the address of a "Dynamic" symbol
  WeakSymbols,     \* the dynamic symbols that are weak
  Relocations,     \* what a section's relocations ask for, in order
  FrameRelocations,\* likewise for the exception frames of a section
  RootSections,    \* the sections a file's activation queues, in order
  RootReferences,  \* symbols an activation references: entry, -u, defsym
  Exports,         \* symbols load_non_hidden_symbols exports
  ExportRequests,  \* symbols a shared object asks to have exported
  Exportable,      \* symbols that can_export_symbol accepts
  FailingGroups,   \* groups whose activation may end with an error
  ErrorOnUnresolved\* undefined symbols are errors, not warnings

ValueFlag == {"DIRECT", "GOT", "EXPORT_DYNAMIC", "COPY_RELOCATION"}

SlotState == {"MustLoad", "Unloaded", "StartStop", "Discard", "Loaded"}

WorkItem ==
  [kind : {"LoadSection"}, on : Section] \cup
  [kind : {"LoadGlobalSymbol", "CopyRelocateSymbol", "ExportDynamic"}, on : Symbol]

Relocation ==
  [symbol : Symbol, flags : SUBSET ValueFlag, undefined : BOOLEAN, fails : BOOLEAN]

(* The operations of a frame.  Each is one step of the group's owner.      *)
Op ==
  [do : {"reference"}, rel : Relocation] \cup
  [do : {"send"}, item : WorkItem] \cup
  [do : {"export"}, symbol : Symbol] \cup
  [do : {"load"}, symbol : Symbol] \cup
  [do : {"copy"}, symbol : Symbol] \cup
  [do : {"drain"}, output : OutputSection] \cup
  [do : {"loaded"}, section : Section] \cup
  [do : {"fail"}]

ASSUME GroupAssumption ==
  /\ IsFiniteSet(Group)
  /\ Synthetic \in Group

ASSUME SectionAssumption ==
  /\ SectionGroup \in [Section -> Group \ {Synthetic}]
  /\ InitialSlot \in [Section -> SlotState \ {"Loaded"}]
  /\ SectionOutput \in [Section -> OutputSection]
  /\ Relocations \in [Section -> Seq(Relocation)]
  /\ FrameRelocations \in [Section -> Seq(Relocation)]
  /\ Section \cap Symbol = {}

ASSUME SymbolAssumption ==
  /\ None \notin Symbol
  /\ SymbolGroup \in [Symbol -> Group]
  /\ SymbolKind \in [Symbol -> {"Section", "Common", "Dynamic", "StartStop", "Other"}]
  /\ SymbolSection \in [Symbol -> Section]
  /\ SymbolOutput \in [Symbol -> OutputSection]
  /\ SymbolAddress \in [Symbol -> Address]
  /\ \A s \in Symbol : SymbolKind[s] = "Section" => SectionGroup[SymbolSection[s]] = SymbolGroup[s]
  /\ \A s \in Symbol : SymbolKind[s] = "StartStop" <=> SymbolGroup[s] = Synthetic

(* The scan of a file's sections queues the ones it must load, and only    *)
(* those.  An object exports symbols it defines itself.                    *)
ASSUME RootAssumption ==
  /\ RootSections \in [Group -> Seq(Section)]
  /\ \A g \in Group : {RootSections[g][i] : i \in DOMAIN RootSections[g]}
                        = {x \in Section : SectionGroup[x] = g /\ InitialSlot[x] = "MustLoad"}
  /\ RootReferences \in [Group -> Seq(Symbol)]
  /\ ExportRequests \in [Group -> Seq(Symbol)]
  /\ Exports \in [Group -> Seq(Symbol)]
  /\ \A g \in Group : \A i \in DOMAIN Exports[g] :
       SymbolGroup[Exports[g][i]] = g /\ SymbolKind[Exports[g][i]] \in {"Section", "Common"}
  /\ Exportable \in SUBSET Symbol
  /\ FailingGroups \in SUBSET (Group \ {Synthetic})
  /\ RootReferences[Synthetic] = << >> /\ ExportRequests[Synthetic] = << >>
  /\ ErrorOnUnresolved \in BOOLEAN

VARIABLES
  act,             \* where each group's activation task is
  frame,           \* operations left of the file activation or item at hand
  local,           \* LocalWorkQueue.local_work, a stack
  runner,          \* the do_pending_work task of each group
  work,            \* WorkerSlot.work
  worker,          \* WorkerSlot.worker is Some
  delayed,         \* the ArrayQueue delay_processing
  remaining,       \* activations_remaining
  flags,           \* per_symbol_flags, the resolution flags
  slot,            \* ObjectLayoutState.sections
  startStop,       \* start_stop_sections
  commonAllocs,    \* how often a common symbol's size was allocated
  dynsyms,         \* how often a symbol was added to the dynamic symbols
  copyInfo,        \* CopyRelocationInfo.symbol_id per address
  errors,          \* number of errors reported
  undefinedRefs,   \* symbols in undefined_references
  outcome,         \* what find_required_sections returned
  groupStates      \* the groups whose state it returned

sharedVars == <<work, worker, delayed, remaining>>
symbolVars == <<flags, startStop, commonAllocs, dynsyms, copyInfo, undefinedRefs>>
resultVars == <<errors, outcome, groupStates>>
vars == <<act, frame, local, runner, sharedVars, slot, symbolVars, resultVars>>

Init ==
  /\ act = [g \in Group |-> "Queued"]
  /\ frame = [g \in Group |-> << >>]
  /\ local = [g \in Group |-> << >>]
  /\ runner = [g \in Group |-> "Idle"]
  /\ work = [g \in Group |-> << >>]
  /\ worker = [g \in Group |-> FALSE]
  /\ delayed = << >>
  /\ remaining = Cardinality(Group)
  /\ flags = [s \in Symbol |-> {}]
  /\ slot = InitialSlot
  /\ startStop = [o \in OutputSection |-> {}]
  /\ commonAllocs = [s \in Symbol |-> 0]
  /\ dynsyms = [s \in Symbol |-> 0]
  /\ copyInfo = [a \in Address |-> None]
  /\ errors = 0
  /\ undefinedRefs = {}
  /\ outcome = "Running"
  /\ groupStates = {}

---------------------------------------------------------------------------
(* Work items and what handling them amounts to.                           *)

LoadSection(x) == [kind |-> "LoadSection", on |-> x]
LoadGlobalSymbol(s) == [kind |-> "LoadGlobalSymbol", on |-> s]
CopyRelocateSymbol(s) == [kind |-> "CopyRelocateSymbol", on |-> s]
ExportDynamic(s) == [kind |-> "ExportDynamic", on |-> s]

ItemGroup(item) ==
  IF item.kind = "LoadSection" THEN SectionGroup[item.on] ELSE SymbolGroup[item.on]

Send(item) == [do |-> "send", item |-> item]

Reference(s, f) ==
  [do |-> "reference",
   rel |-> [symbol |-> s, flags |-> f, undefined |-> FALSE, fails |-> FALSE]]

(* What a file's activation does after the scan of its sections. *)
ActivationOps(g) ==
  [i \in 1..Len(RootReferences[g]) |-> Reference(RootReferences[g][i], {"DIRECT"})]
  \o [i \in 1..Len(Exports[g]) |-> [do |-> "export", symbol |-> Exports[g][i]]]
  \o [i \in 1..Len(ExportRequests[g]) |-> Send(ExportDynamic(ExportRequests[g][i]))]

(* A file that cannot be parsed fails somewhere on the way. *)
ActivationOutcomes(g) ==
  {ActivationOps(g)} \cup
  {SubSeq(ActivationOps(g), 1, n) \o <<[do |-> "fail"]>> :
     n \in IF g \in FailingGroups THEN 0..Len(ActivationOps(g)) ELSE {}}

(* handle_symbol_request: what a file does when a symbol it defines is     *)
(* first needed depends on the kind of file and symbol.                    *)
SymbolRequestOps(s) ==
  CASE SymbolKind[s] \in {"Section", "Common"} -> <<[do |-> "load", symbol |-> s]>>
    [] SymbolKind[s] = "StartStop" -> <<[do |-> "drain", output |-> SymbolOutput[s]]>>
    [] OTHER -> << >>

ReferenceAll(rels) == [i \in 1..Len(rels) |-> [do |-> "reference", rel |-> rels[i]]]

(* handle_section_load_request: a section that was loaded before is left   *)
(* alone; a discarded one is an error.                                     *)
SectionLoadOps(x) ==
  CASE slot[x] = "Loaded" -> << >>
    [] slot[x] = "Discard" -> <<[do |-> "fail"]>>
    [] OTHER -> ReferenceAll(Relocations[x])
                \o <<[do |-> "loaded", section |-> x]>>
                \o ReferenceAll(FrameRelocations[x])

ExportDynamicOps(s) ==
  IF SymbolKind[s] \in {"Section", "Common"}
    THEN <<[do |-> "export", symbol |-> s]>>
    ELSE << >>

CopyRelocateOps(s) ==
  IF SymbolKind[s] = "Dynamic"
    THEN <<[do |-> "copy", symbol |-> s]>>
    ELSE <<[do |-> "fail"]>>

WorkOps(item) ==
  CASE item.kind = "LoadSection" -> SectionLoadOps(item.on)
    [] item.kind = "LoadGlobalSymbol" -> SymbolRequestOps(item.on)
    [] item.kind = "ExportDynamic" -> ExportDynamicOps(item.on)
    [] item.kind = "CopyRelocateSymbol" -> CopyRelocateOps(item.on)

---------------------------------------------------------------------------
(* Activation tasks: GroupActivationInputs::activate_group.                *)

(* Bug: the sections eligible for __start_/__stop_ are not published. *)
ActivateFileUnpublished(g) ==
  /\ act[g] = "Queued"
  /\ act' = [act EXCEPT ![g] = "Files"]
  /\ local' = [local EXCEPT ![g] = [i \in 1..Len(RootSections[g]) |->
                                       LoadSection(RootSections[g][i])]]
  /\ \E ops \in ActivationOutcomes(g) : frame' = [frame EXCEPT ![g] = ops]
  /\ UNCHANGED <<runner, sharedVars, slot, symbolVars, resultVars>>

(* The scan of the file's sections: the ones that must be loaded go on the *)
(* local queue, the ones a __start_/__stop_ symbol may keep alive are      *)
(* published in start_stop_sections.                                       *)
ActivateFile(g) ==
  /\ act[g] = "Queued"
  /\ act' = [act EXCEPT ![g] = "Files"]
  /\ local' = [local EXCEPT ![g] = [i \in 1..Len(RootSections[g]) |->
                                       LoadSection(RootSections[g][i])]]
  /\ startStop' = [o \in OutputSection |->
                      startStop[o] \cup {x \in Section : /\ SectionGroup[x] = g
                                                         /\ slot[x] = "StartStop"
                                                         /\ SectionOutput[x] = o}]
  /\ \E ops \in ActivationOutcomes(g) : frame' = [frame EXCEPT ![g] = ops]
  /\ UNCHANGED <<runner, sharedVars, slot, flags, commonAllocs, dynsyms, copyInfo,
                 undefinedRefs, resultVars>>

(* The synthetic symbols are not processed before every group has been     *)
(* activated: their group waits in delay_processing.                       *)
DelayProcessing(g) ==
  /\ act[g] = "Files" /\ frame[g] = << >>
  /\ g = Synthetic
  /\ delayed' = Append(delayed, g)
  /\ act' = [act EXCEPT ![g] = "Count"]
  /\ UNCHANGED <<frame, local, runner, work, worker, remaining, slot, symbolVars, resultVars>>

(* Every other activation task goes on to process its group itself. *)
StartProcessing(g) ==
  /\ act[g] = "Files" /\ frame[g] = << >>
  /\ g # Synthetic
  /\ runner' = [runner EXCEPT ![g] = "Running"]
  /\ act' = [act EXCEPT ![g] = "Pending"]
  /\ UNCHANGED <<frame, local, sharedVars, slot, symbolVars, resultVars>>

(* fetch_sub on activations_remaining; the last task sees zero. *)
CountDown(g) ==
  /\ act[g] = "Count"
  /\ remaining' = remaining - 1
  /\ act' = [act EXCEPT ![g] = IF remaining = 1 THEN "Last" ELSE "Done"]
  /\ UNCHANGED <<frame, local, runner, work, worker, delayed, slot, symbolVars, resultVars>>

(* The last task processes what was delayed, and looks for more after it. *)
PopDelayed(g) ==
  /\ act[g] = "Last"
  /\ IF delayed = << >>
       THEN /\ act' = [act EXCEPT ![g] = "Done"]
            /\ UNCHANGED <<runner, delayed>>
       ELSE /\ act' = [act EXCEPT ![g] = "Draining"]
            /\ runner' = [runner EXCEPT ![Head(delayed)] = "Running"]
            /\ delayed' = Tail(delayed)
  /\ UNCHANGED <<frame, local, work, worker, remaining, slot, symbolVars, resultVars>>

---------------------------------------------------------------------------
(* Tasks that run a group: GroupState::do_pending_work.                    *)

(* A task spawned by send_work gets a thread. *)
RunSpawned(g) ==
  /\ runner[g] = "Spawned"
  /\ runner' = [runner EXCEPT ![g] = "Running"]
  /\ UNCHANGED <<act, frame, local, sharedVars, slot, symbolVars, resultVars>>

Idle(g) == runner[g] = "Running" /\ frame[g] = << >>

(* Bug: the item is looked at, not popped. *)
TakeWorkPeek(g) ==
  /\ Idle(g)
  /\ local[g] # << >>
  /\ frame' = [frame EXCEPT ![g] = WorkOps(local[g][Len(local[g])])]
  /\ UNCHANGED <<act, local, runner, sharedVars, slot, symbolVars, resultVars>>

(* The owner takes the most recent item of its local queue. *)
TakeWork(g) ==
  /\ Idle(g)
  /\ local[g] # << >>
  /\ frame' = [frame EXCEPT ![g] = WorkOps(local[g][Len(local[g])])]
  /\ local' = [local EXCEPT ![g] = SubSeq(local[g], 1, Len(local[g]) - 1)]
  /\ UNCHANGED <<act, runner, sharedVars, slot, symbolVars, resultVars>>

(* do_pending_work returns: to the activation task that called it, if one  *)
(* did, which then goes on to count down, or to the task that drains       *)
(* delay_processing.                                                       *)
Return(g) ==
  /\ runner' = [runner EXCEPT ![g] = "Idle"]
  /\ act' = [h \in Group |->
               CASE h = g /\ act[h] = "Pending" -> "Count"
                 [] g = Synthetic /\ act[h] = "Draining" -> "Last"
                 [] OTHER -> act[h]]

(* Bug: the worker is parked without another look at its slot. *)
ParkUnchecked(g) ==
  /\ Idle(g)
  /\ local[g] = << >>
  /\ worker' = [worker EXCEPT ![g] = TRUE]
  /\ Return(g)
  /\ UNCHANGED <<frame, local, work, delayed, remaining, slot, symbolVars, resultVars>>

(* With the slot's lock held: nothing was posted, so the worker is parked. *)
Park(g) ==
  /\ Idle(g)
  /\ local[g] = << >>
  /\ work[g] = << >>
  /\ worker' = [worker EXCEPT ![g] = TRUE]
  /\ Return(g)
  /\ UNCHANGED <<frame, local, work, delayed, remaining, slot, symbolVars, resultVars>>

(* With the slot's lock held: something was posted, the owner takes it. *)
SwapWork(g) ==
  /\ Idle(g)
  /\ local[g] = << >>
  /\ work[g] # << >>
  /\ local' = [local EXCEPT ![g] = work[g]]
  /\ work' = [work EXCEPT ![g] = << >>]
  /\ UNCHANGED <<act, frame, runner, worker, delayed, remaining, slot, symbolVars, resultVars>>

---------------------------------------------------------------------------
(* Operations of the task that owns group g.                               *)

Next_(g) == Tail(frame[g])

Doing(g, op) == frame[g] # << >> /\ Head(frame[g]).do = op

(* Bug: a symbol is requested again whenever a reference adds a flag. *)
ReferenceSymbolPerFlag(g) ==
  /\ Doing(g, "reference")
  /\ LET rel == Head(frame[g]).rel
     IN /\ flags' = [flags EXCEPT ![rel.symbol] = @ \cup rel.flags]
        /\ frame' = [frame EXCEPT ![g] =
              (IF rel.flags \subseteq flags[rel.symbol] THEN << >>
                 ELSE <<Send(LoadGlobalSymbol(rel.symbol))>>)
              \o Next_(g)]
  /\ UNCHANGED <<act, local, runner, sharedVars, slot, startStop, commonAllocs, dynsyms,
                 copyInfo, undefinedRefs, resultVars>>

(* Bug: a copy relocation is only requested with the first reference. *)
ReferenceSymbolCopyOnce(g) ==
  /\ Doing(g, "reference")
  /\ LET rel == Head(frame[g]).rel
     IN /\ flags' = [flags EXCEPT ![rel.symbol] = @ \cup rel.flags]
        /\ frame' = [frame EXCEPT ![g] =
              (IF flags[rel.symbol] # {} THEN << >>
                 ELSE <<Send(LoadGlobalSymbol(rel.symbol))>>
                      \o (IF "COPY_RELOCATION" \in rel.flags
                            THEN <<Send(CopyRelocateSymbol(rel.symbol))>> ELSE << >>))
              \o Next_(g)]
  /\ UNCHANGED <<act, local, runner, sharedVars, slot, startStop, commonAllocs, dynsyms,
                 copyInfo, undefinedRefs, resultVars>>

(* process_relocation and the prelude's references: fetch_or sets the      *)
(* flags and returns the previous ones.  Whoever found no resolution flag  *)
(* requests the symbol.  A relocation that cannot be applied is an error   *)
(* found before its symbol is touched.                                     *)
ReferenceSymbol(g) ==
  /\ Doing(g, "reference")
  /\ LET rel == Head(frame[g]).rel
         previous == flags[rel.symbol]
     IN IF rel.fails
          THEN /\ frame' = [frame EXCEPT ![g] = <<[do |-> "fail"]>>]
               /\ UNCHANGED <<flags, undefinedRefs>>
          ELSE /\ flags' = [flags EXCEPT ![rel.symbol] = @ \cup rel.flags]
               /\ undefinedRefs' = IF rel.undefined THEN undefinedRefs \cup {rel.symbol}
                                                    ELSE undefinedRefs
               /\ frame' = [frame EXCEPT ![g] =
                     (IF previous = {} THEN <<Send(LoadGlobalSymbol(rel.symbol))>> ELSE << >>)
                     \o (IF "COPY_RELOCATION" \in rel.flags \ previous
                           THEN <<Send(CopyRelocateSymbol(rel.symbol))>> ELSE << >>)
                     \o Next_(g)]
  /\ UNCHANGED <<act, local, runner, sharedVars, slot, startStop, commonAllocs, dynsyms,
                 copyInfo, resultVars>>

(* LocalWorkQueue::send_work: an item for one's own group goes on the      *)
(* local queue. *)
SendLocal(g) ==
  /\ Doing(g, "send")
  /\ ItemGroup(Head(frame[g]).item) = g
  /\ local' = [local EXCEPT ![g] = Append(@, Head(frame[g]).item)]
  /\ frame' = [frame EXCEPT ![g] = Next_(g)]
  /\ UNCHANGED <<act, runner, sharedVars, slot, symbolVars, resultVars>>

(* Bug: the worker is looked at, not taken, so that two tasks may run it. *)
SendRemoteShared(g) ==
  /\ Doing(g, "send")
  /\ LET item == Head(frame[g]).item
         to == ItemGroup(item)
     IN /\ to # g
        /\ work' = [work EXCEPT ![to] = Append(@, item)]
        /\ runner' = IF worker[to] THEN [runner EXCEPT ![to] = "Spawned"] ELSE runner
  /\ frame' = [frame EXCEPT ![g] = Next_(g)]
  /\ UNCHANGED <<act, local, worker, delayed, remaining, slot, symbolVars, resultVars>>

(* GraphResources::send_work: with the slot's lock held, take the worker   *)
(* if it is parked and post the item; a task is spawned for a worker that  *)
(* was taken. *)
SendRemote(g) ==
  /\ Doing(g, "send")
  /\ LET item == Head(frame[g]).item
         to == ItemGroup(item)
     IN /\ to # g
        /\ worker' = [worker EXCEPT ![to] = FALSE]
        /\ work' = [work EXCEPT ![to] = Append(@, item)]
        /\ runner' = IF worker[to] THEN [runner EXCEPT ![to] = "Spawned"] ELSE runner
  /\ frame' = [frame EXCEPT ![g] = Next_(g)]
  /\ UNCHANGED <<act, local, delayed, remaining, slot, symbolVars, resultVars>>

(* load_symbol of an object: queue the section that holds the symbol, or   *)
(* allocate the symbol if it is common. *)
LoadSymbolEffect(g, s) ==
  IF SymbolKind[s] = "Section"
    THEN /\ local' = [local EXCEPT ![g] = Append(@, LoadSection(SymbolSection[s]))]
         /\ UNCHANGED commonAllocs
    ELSE /\ commonAllocs' = [commonAllocs EXCEPT ![s] = @ + 1]
         /\ UNCHANGED local

LoadSymbol(g) ==
  /\ Doing(g, "load")
  /\ LoadSymbolEffect(g, Head(frame[g]).symbol)
  /\ frame' = [frame EXCEPT ![g] = Next_(g)]
  /\ UNCHANGED <<act, runner, sharedVars, slot, flags, startStop, dynsyms, copyInfo,
                 undefinedRefs, resultVars>>

(* Hidden and local symbols and those of discarded sections stay private. *)
CanExport(s) ==
  /\ s \in Exportable
  /\ SymbolKind[s] = "Section" => slot[SymbolSection[s]] # "Discard"

(* export_dynamic and load_non_hidden_symbols: a symbol that may be        *)
(* exported is loaded if this is its first resolution flag, and joins the  *)
(* dynamic symbols if it was not exported before. *)
ExportSymbol(g) ==
  /\ Doing(g, "export")
  /\ LET s == Head(frame[g]).symbol
     IN IF CanExport(s)
          THEN /\ flags' = [flags EXCEPT ![s] = @ \cup {"EXPORT_DYNAMIC"}]
               /\ IF flags[s] = {}
                    THEN LoadSymbolEffect(g, s)
                    ELSE UNCHANGED <<local, commonAllocs>>
               /\ dynsyms' = IF "EXPORT_DYNAMIC" \in flags[s]
                               THEN dynsyms
                               ELSE [dynsyms EXCEPT ![s] = @ + 1]
          ELSE UNCHANGED <<flags, local, commonAllocs, dynsyms>>
  /\ frame' = [frame EXCEPT ![g] = Next_(g)]
  /\ UNCHANGED <<act, runner, sharedVars, slot, startStop, copyInfo, undefinedRefs, resultVars>>

(* load_symbol of the synthetic symbols: pop every section recorded for    *)
(* the output section and request it. *)
DrainStartStop(g) ==
  /\ Doing(g, "drain")
  /\ LET o == Head(frame[g]).output
     IN \/ /\ startStop[o] = {}
           /\ frame' = [frame EXCEPT ![g] = Next_(g)]
           /\ UNCHANGED startStop
        \/ \E x \in startStop[o] :
             /\ startStop' = [startStop EXCEPT ![o] = @ \ {x}]
             /\ frame' = [frame EXCEPT ![g] = <<Send(LoadSection(x))>> \o @]
  /\ UNCHANGED <<act, local, runner, sharedVars, slot, flags, commonAllocs, dynsyms,
                 copyInfo, undefinedRefs, resultVars>>

(* load_section, once the relocations are processed: the slot becomes      *)
(* Loaded. *)
MarkLoaded(g) ==
  /\ Doing(g, "loaded")
  /\ slot' = [slot EXCEPT ![Head(frame[g]).section] = "Loaded"]
  /\ frame' = [frame EXCEPT ![g] = Next_(g)]
  /\ UNCHANGED <<act, local, runner, sharedVars, symbolVars, resultVars>>

(* CopyRelocationInfo::add_symbol: the first symbol at an address is       *)
(* replaced by any later one that is not weak. *)
AddSymbol(current, s) == IF current = None \/ s \notin WeakSymbols THEN s ELSE current

CopyRelocate(g) ==
  /\ Doing(g, "copy")
  /\ LET s == Head(frame[g]).symbol
     IN copyInfo' = [copyInfo EXCEPT ![SymbolAddress[s]] = AddSymbol(@, s)]
  /\ frame' = [frame EXCEPT ![g] = Next_(g)]
  /\ UNCHANGED <<act, local, runner, sharedVars, slot, flags, startStop, commonAllocs,
                 dynsyms, undefinedRefs, resultVars>>

(* A file's activation fails: the error is recorded and the group is       *)
(* processed all the same. *)
ActivationError(g) ==
  /\ Doing(g, "fail")
  /\ act[g] = "Files"
  /\ errors' = errors + 1
  /\ frame' = [frame EXCEPT ![g] = << >>]
  /\ UNCHANGED <<act, local, runner, sharedVars, slot, symbolVars, outcome, groupStates>>

(* Bug: the result of do_work is dropped, and the group with it. *)
WorkErrorDropped(g) ==
  /\ Doing(g, "fail")
  /\ runner[g] = "Running"
  /\ frame' = [frame EXCEPT ![g] = << >>]
  /\ local' = [local EXCEPT ![g] = << >>]
  /\ Return(g)
  /\ UNCHANGED <<sharedVars, slot, symbolVars, resultVars>>

(* An item fails: the error is reported and do_pending_work returns        *)
(* without parking the worker, whose group is gone with its queue. *)
WorkError(g) ==
  /\ Doing(g, "fail")
  /\ runner[g] = "Running"
  /\ errors' = errors + 1
  /\ frame' = [frame EXCEPT ![g] = << >>]
  /\ local' = [local EXCEPT ![g] = << >>]
  /\ Return(g)
  /\ UNCHANGED <<sharedVars, slot, symbolVars, outcome, groupStates>>

---------------------------------------------------------------------------
(* The scope ends when every task has: find_required_sections reports the  *)
(* undefined symbols, returns an error if there is one, and otherwise the  *)
(* workers it finds parked. *)
AllTasksDone == \A g \in Group : act[g] = "Done" /\ runner[g] = "Idle"

LinkFails == errors > 0 \/ (ErrorOnUnresolved /\ undefinedRefs # {})

ParkedWorkers == {g \in Group : worker[g]}

Finish ==
  /\ outcome = "Running"
  /\ AllTasksDone
  /\ IF LinkFails
       THEN outcome' = "Err" /\ UNCHANGED <<worker, groupStates>>
       ELSE /\ outcome' = "Ok"
            /\ groupStates' = ParkedWorkers
            /\ worker' = [g \in Group |-> FALSE]
  /\ UNCHANGED <<act, frame, local, runner, work, delayed, remaining, slot, symbolVars, errors>>

(* The program goes on to other phases. *)
Finished == outcome # "Running" /\ UNCHANGED vars

TaskStep(g) ==
  \/ ActivateFile(g) \/ DelayProcessing(g) \/ StartProcessing(g)
  \/ CountDown(g) \/ PopDelayed(g)
  \/ RunSpawned(g) \/ TakeWork(g) \/ Park(g) \/ SwapWork(g)
  \/ ReferenceSymbol(g) \/ SendLocal(g) \/ SendRemote(g) \/ LoadSymbol(g) \/ ExportSymbol(g)
  \/ DrainStartStop(g) \/ MarkLoaded(g) \/ CopyRelocate(g)
  \/ ActivationError(g) \/ WorkError(g)

Next == (\E g \in Group : TaskStep(g)) \/ Finish \/ Finished

(* The thread pool runs every task that is ready, and a running task does  *)
(* not stop between two of its steps. *)
Fairness == (\A g \in Group : WF_vars(TaskStep(g))) /\ WF_vars(Finish)

Spec == Init /\ [][Next]_vars /\ Fairness

---------------------------------------------------------------------------
(* Properties. *)

(* Every variable has its type. *)
TypeOK ==
  /\ act \in [Group -> {"Queued", "Files", "Pending", "Count", "Last", "Draining", "Done"}]
  /\ frame \in [Group -> Seq(Op)]
  /\ local \in [Group -> Seq(WorkItem)]
  /\ runner \in [Group -> {"Idle", "Spawned", "Running"}]
  /\ work \in [Group -> Seq(WorkItem)]
  /\ worker \in [Group -> BOOLEAN]
  /\ delayed \in Seq({Synthetic})
  /\ remaining \in 0..Cardinality(Group)
  /\ flags \in [Symbol -> SUBSET ValueFlag]
  /\ slot \in [Section -> SlotState]
  /\ startStop \in [OutputSection -> SUBSET Section]
  /\ commonAllocs \in [Symbol -> Nat]
  /\ dynsyms \in [Symbol -> Nat]
  /\ copyInfo \in [Address -> Symbol \cup {None}]
  /\ errors \in Nat
  /\ undefinedRefs \in SUBSET Symbol
  /\ outcome \in {"Running", "Ok", "Err"}
  /\ groupStates \in SUBSET Group

HeldByActivation(g) == act[g] \in {"Queued", "Files"}
HeldByQueue(g) == g = Synthetic /\ delayed # << >>
HeldByTask(g) == runner[g] # "Idle"

(* A group's state is in one place: with its activation task, in the       *)
(* delay queue, with one do_pending_work task, or parked in its slot.  Two *)
(* tasks never work on one group, although any task may post work to it    *)
(* and take its worker.                                                    *)
OneOwner ==
  \A g \in Group :
    /\ HeldByActivation(g) => ~HeldByQueue(g) /\ ~HeldByTask(g) /\ ~worker[g]
    /\ HeldByQueue(g) => ~HeldByTask(g) /\ ~worker[g]
    /\ HeldByTask(g) => ~worker[g]

(* Work posted to a group is never stranded: a parked worker has nothing   *)
(* posted to its slot, nothing on its local queue and no item half done,   *)
(* and as long as no error was reported every group still has an owner.    *)
NoStrandedWork ==
  \A g \in Group :
    /\ worker[g] => work[g] = << >> /\ local[g] = << >> /\ frame[g] = << >>
    /\ errors = 0 /\ outcome = "Running" =>
          HeldByActivation(g) \/ HeldByQueue(g) \/ HeldByTask(g) \/ worker[g]

(* The comment in activate_group: the synthetic symbols are not processed  *)
(* until every group has been activated, so that start_stop_sections is    *)
(* complete when a __start_ or __stop_ symbol drains it.                   *)
SyntheticAfterActivation ==
  HeldByTask(Synthetic) \/ worker[Synthetic] => \A g \in Group : ~HeldByActivation(g)

(* When the traversal succeeds, no group was lost on the way: the states   *)
(* returned are those of all groups, so that group_states[0] is the        *)
(* prelude, and all work has been done.                                    *)
AllGroupsReturned ==
  outcome = "Ok" =>
    /\ groupStates = Group
    /\ \A g \in Group : work[g] = << >> /\ local[g] = << >> /\ frame[g] = << >>

(* The inductive strengthening of the ownership properties: who may have a *)
(* frame or a local queue, what activations_remaining counts, and that the *)
(* delay queue is emptied by the task that counts down to zero.            *)
Counted(g) == act[g] \in {"Queued", "Files", "Pending", "Count"}

Counting ==
  /\ remaining = Cardinality({g \in Group : Counted(g)})
  /\ \A g \in Group : act[g] = "Last" => remaining = 0
  /\ HeldByTask(Synthetic) \/ worker[Synthetic] => remaining = 0

QueuesOwned ==
  \A g \in Group :
    /\ frame[g] # << >> => act[g] = "Files" \/ runner[g] = "Running"
    /\ local[g] # << >> => act[g] = "Files" \/ HeldByQueue(g) \/ HeldByTask(g)
    /\ act[g] = "Pending" => runner[g] = "Running" /\ g # Synthetic

DelayedPending ==
  delayed # << >> => /\ Len(delayed) = 1
                     /\ remaining > 0 \/ \E g \in Group : act[g] = "Last"

Ended == outcome # "Running" => AllTasksDone

IInv ==
  /\ OneOwner /\ NoStrandedWork /\ Counting /\ QueuesOwned /\ DelayedPending /\ Ended
  /\ AllGroupsReturned

(* finalise_layout relies on it ("Symbol is in a section that we didn't    *)
(* load"): after a successful traversal, a symbol with a resolution is in  *)
(* a loaded section, or was allocated exactly once if it is common.        *)
ResolvedSymbolsHaveHome ==
  /\ \A s \in Symbol : commonAllocs[s] <= 1
  /\ outcome = "Ok" =>
       \A s \in Symbol : flags[s] # {} =>
         /\ SymbolKind[s] = "Section" => slot[SymbolSection[s]] = "Loaded"
         /\ SymbolKind[s] = "Common" => commonAllocs[s] = 1

(* When the traversal has succeeded, every address for which a relocation  *)
(* asked for a copy has a symbol recorded, one that was asked for, and not *)
(* a weak one if a strong one was asked for too, in whatever order the     *)
(* requests arrived.                                                       *)
CopyRelocationsRecorded ==
  outcome = "Ok" =>
    \A a \in Address :
      LET asked == {s \in Symbol : SymbolAddress[s] = a /\ "COPY_RELOCATION" \in flags[s]}
      IN IF asked = {}
           THEN copyInfo[a] = None
           ELSE /\ copyInfo[a] \in asked
                /\ asked \subseteq WeakSymbols \/ copyInfo[a] \notin WeakSymbols

(* Every task ends and find_required_sections returns, with an error or    *)
(* without: no group waits for another.                                    *)
Terminates == <>(outcome # "Running")

(* The graph of what the link needs, and the promise to keep exactly what  *)
(* is reachable in it, whatever the schedule.                              *)
RequestedBy(x) ==
  {Relocations[x][i].symbol : i \in DOMAIN Relocations[x]} \cup
  {FrameRelocations[x][i].symbol : i \in DOMAIN FrameRelocations[x]}

Root ==
  {x \in Section : InitialSlot[x] = "MustLoad"} \cup
  {s \in Symbol : \E g \in Group :
     \/ \E i \in DOMAIN RootReferences[g] : RootReferences[g][i] = s
     \/ /\ s \in Exportable /\ SymbolKind[s] \in {"Section", "Common"}
        /\ SymbolKind[s] = "Section" => InitialSlot[SymbolSection[s]] # "Discard"
        /\ \/ \E i \in DOMAIN Exports[g] : Exports[g][i] = s
           \/ \E i \in DOMAIN ExportRequests[g] : ExportRequests[g][i] = s}

Edge ==
  {e \in Section \X Symbol : e[2] \in RequestedBy(e[1])} \cup
  {e \in Symbol \X Section :
     \/ SymbolKind[e[1]] = "Section" /\ SymbolSection[e[1]] = e[2]
     \/ /\ SymbolKind[e[1]] = "StartStop" /\ InitialSlot[e[2]] = "StartStop"
        /\ SectionOutput[e[2]] = SymbolOutput[e[1]]}

LiveSections == Section \cap Reachable(Section \cup Symbol, Root, Edge)

Loaded == {x \in Section : slot[x] = "Loaded"}

Promise == INSTANCE LiveSelection WITH Required <- {}, Live <- LiveSections, loaded <- Loaded

KeepsExactlyLive == Promise!Spec

(* A relocation that cannot be applied, refers to nothing, or asks for a   *)
(* copy of what no shared object defines.                                  *)
FailingRelocation(rel) ==
  \/ rel.fails
  \/ rel.undefined /\ ErrorOnUnresolved
  \/ "COPY_RELOCATION" \in rel.flags /\ SymbolKind[rel.symbol] # "Dynamic"

FailingSections ==
  {x \in LiveSections :
     \/ InitialSlot[x] = "Discard"
     \/ \E i \in DOMAIN Relocations[x] : FailingRelocation(Relocations[x][i])
     \/ \E i \in DOMAIN FrameRelocations[x] : FailingRelocation(FrameRelocations[x][i])}

(* Whether find_required_sections fails does not depend on the schedule,   *)
(* although the first error of a group drops all the work left in it, and  *)
(* with it the errors that work would have met: a live section that cannot *)
(* be loaded always fails the link, and nothing else does but a file whose *)
(* activation may.                                                         *)
FailuresReported ==
  /\ outcome = "Ok" => FailingSections = {}
  /\ outcome = "Err" => FailingSections # {} \/ FailingGroups # {}

(* What a link must look like for common symbols to be allocated once: no  *)
(* relocation to one leaves its flags empty, as resolution_flags does for  *)
(* relocations that need no resolution.                                    *)
CommonReferencesFlagged ==
  \A x \in Section :
    /\ \A i \in DOMAIN Relocations[x] :
         SymbolKind[Relocations[x][i].symbol] = "Common" => Relocations[x][i].flags # {}
    /\ \A i \in DOMAIN FrameRelocations[x] :
         SymbolKind[FrameRelocations[x][i].symbol] = "Common" => FrameRelocations[x][i].flags # {}

==========================================================================
