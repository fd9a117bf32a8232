------------------------------- MODULE LtoLink -------------------------------
(***************************************************************************)
(* A link with a linker plugin (linker_plugins.rs and the parts of         *)
(* symbol_db.rs and resolution.rs that serve it).                          *)
(*                                                                         *)
(* Files with intermediate code (IR) are offered to the plugin one by one. *)
(* Symbols are resolved, the plugin is told which of its definitions       *)
(* prevail and whether anything but IR refers to them, it hands back an    *)
(* object Out with machine code, Out is added as one more input, symbols   *)
(* are resolved again, and the IR files are disabled.  What was bound to   *)
(* IR in the first round must be bound to machine code after the second.   *)
(*                                                                         *)
(* A symbol is <<file, name>>.  Regular objects are numbered before IR     *)
(* files, as their groups are created first; Out comes last.  How parallel *)
(* tasks race within a round is the subject of SymbolResolution: here a    *)
(* round is one step.  --wrap, versions and shared objects are left out.   *)
(***************************************************************************)
EXTENDS Integers, FiniteSets, Reachability

CONSTANTS
  NumRegular, NumIr, \* files: regular ones first
  Optional,          \* the files with archive semantics
  Names,
  EntryName,         \* the entry symbol
  Forced,            \* names given with --undefined
  Libcalls,          \* names generated code may refer to on its own
  Worlds,            \* what the files may be: functions from Files and Names to Roles
  PluginObeys        \* the plugin reports failure when a callback does

Roles == {"none", "ref", "weak", "strong"}

Files == 1..(NumRegular + NumIr)
IrFiles == (NumRegular + 1)..(NumRegular + NumIr)
Out == NumRegular + NumIr + 1
AllFiles == 1..Out

ASSUME WorldAssumption ==
  /\ NumRegular \in Nat /\ NumIr \in Nat /\ Optional \subseteq Files
  /\ EntryName \in Names /\ Forced \subseteq Names /\ Libcalls \subseteq Names
  /\ Worlds \subseteq [Files -> [Names -> Roles]]
  /\ PluginObeys \in BOOLEAN

VARIABLES
  pc,
  plugin,    \* LinkerPlugin.store
  role,      \* what each file does with each name; Out has none before codegen
  next,      \* the file that is extracted next
  known,     \* files in the symbol database, or on the way to it
  rejected,  \* lto_objects has an error
  loaded,    \* files that are not ResolvedFile::NotLoaded
  def,       \* symbol_definitions; None for a symbol that is undefined
  alts,      \* names whose alternative_definitions are still to be processed
  nonIr,     \* symbols with HAS_NON_IR_REF
  reported,  \* per IR symbol: the resolution the plugin was given
  disabled,  \* LtoInput::enabled is false
  error,     \* the thread local ERROR
  message,   \* the thread local ERROR_MESSAGE
  failed     \* something failed in the plugin or a callback: what must not be forgotten

resultVars == <<error, message, failed>>

vars == <<pc, plugin, role, next, known, rejected, loaded, def, alts, nonIr, reported, disabled,
          resultVars>>

Symbols == AllFiles \X Names

None == <<0, 0>>

Defines(f, n) == role[f][n] \in {"weak", "strong"}

Refers(f, n) == role[f][n] = "ref"

Definers(n) == {f \in known : Defines(f, n)}

Least(files) == CHOOSE f \in files : \A g \in files : f <= g

\* name_to_id holds the first definition that was added.
Lookup(n) == IF Definers(n) = {} THEN None ELSE <<Least(Definers(n)), n>>

\* SymbolDb::definition: two steps, as the first may have been replaced since.
Definition(s) ==
  IF s = None \/ def[s] = None THEN None ELSE def[def[s]]

Init ==
  /\ pc = "claim" /\ plugin = "Unloaded"
  /\ \E w \in Worlds :
       role = [f \in AllFiles |-> IF f = Out THEN [n \in Names |-> "none"] ELSE w[f]]
  /\ next = 1
  /\ known = {} /\ rejected = FALSE /\ loaded = {}
  /\ def = [s \in Symbols |-> None]
  /\ alts = {} /\ nonIr = {}
  /\ reported = [s \in Symbols |-> "Unknown"]
  /\ disabled = FALSE
  /\ error = FALSE /\ message = FALSE /\ failed = FALSE

-----------------------------------------------------------------------------
(* Calls into the plugin. *)

\* What a hook of the plugin may do: report an error through the message
\* callback, have a callback fail (a library name that is not UTF-8 sets ERROR,
\* a panic sets ERROR_MESSAGE), and return a status.  A plugin that obeys the
\* interface returns an error when a callback did.
Behaviours ==
  {b \in [says : BOOLEAN, badLibrary : BOOLEAN, panics : BOOLEAN, ok : BOOLEAN] :
     PluginObeys => ((b.badLibrary \/ b.panics) => ~b.ok)}

\* with_callbacks: a call fails if its status says so or if there is a message of
\* an error, from this call or from an earlier one.
CallbackFailsOnStatus(b) == ~b.ok

CallbackFails(b) == ~b.ok \/ message \/ b.says \/ b.panics

\* Which of the two thread locals a call leaves set.  An error of a callback hides
\* the message, which stays, unless check_for_errors has taken it before.
AfterCall(b, checked) ==
  LET err == error \/ b.badLibrary
      msg == message \/ b.says \/ b.panics
  IN  /\ error' = (err /\ b.ok /\ ~(checked /\ msg))
      /\ message' = (err /\ ~b.ok /\ msg)
      /\ failed' = (failed \/ b.says \/ b.badLibrary \/ b.panics \/ ~b.ok)

\* extract_all: regular files are just parsed; an IR file is offered to the
\* plugin, on one thread and in order.
ExtractRegular ==
  /\ pc = "claim" /\ next \in Files \ IrFiles
  /\ known' = known \cup {next}
  /\ next' = next + 1
  /\ UNCHANGED <<pc, plugin, role, rejected, loaded, def, alts, nonIr, reported, disabled,
                 resultVars>>

\* LoadedPlugin::new, for the first IR file, or for the next one if it failed.
\* What onload returns is ignored, and its messages are left for the first call.
LoadPlugin ==
  /\ pc = "claim" /\ next \in IrFiles
  /\ plugin = "Unloaded"
  /\ \/ \E says \in BOOLEAN :
          /\ plugin' = "Loaded"
          /\ message' = (message \/ says)
          /\ failed' = (failed \/ says)
          /\ UNCHANGED <<next, rejected>>
     \/ /\ rejected' = TRUE /\ failed' = TRUE
        /\ next' = next + 1
        /\ UNCHANGED <<plugin, message>>
  /\ UNCHANGED <<pc, role, known, loaded, def, alts, nonIr, reported, disabled, error>>

\* add_record and process_input: a file that is not claimed is skipped in an
\* archive.  An error is kept in place of the file, and the next one is offered.
ClaimFile ==
  /\ pc = "claim" /\ next \in IrFiles
  /\ plugin = "Loaded"
  /\ next' = next + 1
  /\ \E b \in Behaviours, claims \in BOOLEAN :
       /\ AfterCall(b, TRUE)
       /\ known' = IF claims /\ ~CallbackFails(b) THEN known \cup {next} ELSE known
       /\ rejected' = (rejected \/ CallbackFails(b) \/ (~claims /\ next \notin Optional))
  /\ UNCHANGED <<pc, plugin, role, loaded, def, alts, nonIr, reported, disabled>>

-----------------------------------------------------------------------------
(* Symbols. *)

DefinedSymbols(files) == {s \in files \X Names : Defines(s[1], s[2])}

\* SymbolDb::add_inputs for `files`: a definition stands for itself, and every
\* definition of a name after the first is noted as an alternative.
AddInputs(files) ==
  /\ def' = [s \in Symbols |-> IF s \in DefinedSymbols(files) THEN s ELSE def[s]]
  /\ alts' = alts \cup {n \in Names : /\ \E f \in files : Defines(f, n)
                                      /\ Cardinality(Definers(n)) > 1}

\* create_lto_input_groups, in add_inputs, returns the first error of a claim.
FirstInputs ==
  /\ pc = "claim" /\ next = Out
  /\ \/ /\ ~rejected
        /\ AddInputs(known)
        /\ pc' = "resolve1"
     \/ /\ rejected
        /\ pc' = "error"
        /\ UNCHANGED <<def, alts>>
  /\ UNCHANGED <<plugin, role, next, known, rejected, loaded, nonIr, reported, disabled, resultVars>>

\* The names that a file makes a round look up, the prelude's for file 0.
LookedUp(f) ==
  IF f = 0 THEN {EntryName} \cup Forced ELSE {n \in Names : Refers(f, n)}

\* resolve_symbol requests the file of the first definition of each name.
Requests(f) == {Lookup(n)[1] : n \in {m \in LookedUp(f) : Lookup(m) # None}}

\* The files a round loads when it starts from `start`, with 0 for the prelude.
Closure(start) ==
  Reachable(0..Out, start, UNION {{f} \X Requests(f) : f \in 0..Out})

\* The names a file marks as referenced by something other than IR.
MarksWithoutEntry(f) ==
  IF f \in IrFiles \cup {0} THEN {} ELSE LookedUp(f)

Marks(f) ==
  IF f = 0 THEN {EntryName} ELSE IF f \in IrFiles THEN {} ELSE LookedUp(f)

\* resolve_symbols_and_select_archive_entries: files already loaded are not
\* processed again, those that were not may be loaded now.
Resolve(start) ==
  LET new == Closure(start) \ (loaded \cup {0})
      processed == new \cup (start \cap {0})
  IN  /\ loaded' = loaded \cup new
      /\ def' = [s \in Symbols |-> IF s[1] \in new /\ Refers(s[1], s[2])
                                   THEN Lookup(s[2]) ELSE def[s]]
      /\ nonIr' = nonIr \cup {Lookup(n) : n \in {m \in UNION {Marks(f) : f \in processed} :
                                                   Lookup(m) # None}}

FirstResolve ==
  /\ pc = "resolve1"
  /\ Resolve({0} \cup (known \ Optional))
  /\ pc' = "alternatives1"
  /\ UNCHANGED <<plugin, role, next, known, rejected, alts, reported, disabled, resultVars>>

\* symbol_strength
StrengthIgnoringDisabled(f, n) ==
  IF f \notin loaded THEN "none" ELSE role[f][n]

Strength(f, n) ==
  IF f \notin loaded \/ (f \in IrFiles /\ disabled) THEN "none" ELSE role[f][n]

\* select_symbol over the files that define a name: a second strong definition
\* is an error, else the strong one, else the first weak one, else the first.
StrongOnes(files, n) == {f \in files : Strength(f, n) = "strong"}
WeakOnes(files, n) == {f \in files : Strength(f, n) = "weak"}

Select(files, n) ==
  IF StrongOnes(files, n) # {} THEN Least(StrongOnes(files, n))
  ELSE IF WeakOnes(files, n) # {} THEN Least(WeakOnes(files, n))
  ELSE Least(files)

\* The definitions of a name that a round compares: the second round has the
\* first one and those that came with Out, as the map was drained.
Compared(n, files) == {Lookup(n)[1]} \cup {f \in files : Defines(f, n)}

\* resolve_alternative_symbol_definitions
Alternatives(files) ==
  /\ def' = [s \in Symbols |->
               IF s[2] \in alts /\ s[1] \in Compared(s[2], files)
               THEN <<Select(Compared(s[2], files), s[2]), s[2]>> ELSE def[s]]
  /\ alts' = {}

Duplicates(files) ==
  \E n \in alts : Cardinality(StrongOnes(Compared(n, files), n)) > 1

FirstAlternatives ==
  /\ pc = "alternatives1"
  /\ IF Duplicates(known)
       THEN pc' = "error" /\ UNCHANGED <<def, alts>>
       ELSE /\ Alternatives(known)
            /\ pc' = IF loaded \cap IrFiles = {} THEN "done" ELSE "codegen"
  /\ UNCHANGED <<plugin, role, next, known, rejected, loaded, nonIr, reported, disabled, resultVars>>

-----------------------------------------------------------------------------
(* all_symbols_read. *)

\* get_symbol_resolution for a definition in a loaded IR file.
Resolution(s) ==
  LET d == Definition(Lookup(s[2])) IN
  IF d[1] # s[1] THEN "Preempted"
  ELSE IF d \in nonIr THEN "PrevailingDef" ELSE "PrevailingDefIronly"

IrDefinitions == {s \in DefinedSymbols(IrFiles) : s[1] \in loaded}

NamesReported(answers) == {s[2] : s \in {t \in IrDefinitions : Resolution(t) \in answers}}

\* What the plugin may return: all definitions that prevail, those that only
\* IR refers to at its discretion, and references that are left or that code
\* generation introduces.
GeneratedRoles ==
  LET must == NamesReported({"PrevailingDef"})
      may == NamesReported({"PrevailingDef", "PrevailingDefIronly"})
      irRefs == {n \in Names : \E f \in IrFiles \cap loaded : Refers(f, n)}
      outside == (irRefs \cup Libcalls) \ may
      prevailing(n) == role[Definition(Lookup(n))[1]][n]
  IN  {r \in [Names -> Roles] :
         \A n \in Names : /\ r[n] \in {"weak", "strong"} => n \in may /\ r[n] = prevailing(n)
                          /\ r[n] = "ref" => n \in outside
                          /\ n \in must => r[n] \in {"weak", "strong"}}

Codegen ==
  /\ pc = "codegen"
  /\ reported' = [s \in Symbols |-> IF s \in IrDefinitions THEN Resolution(s) ELSE reported[s]]
  /\ \E b \in Behaviours :
       /\ AfterCall(b, FALSE)
       /\ IF CallbackFails(b)
            THEN pc' = "error" /\ UNCHANGED <<role, known>>
            ELSE /\ \E r \in GeneratedRoles : role' = [role EXCEPT ![Out] = r]
                 /\ known' = known \cup {Out}
                 /\ pc' = "inputs2"
  /\ UNCHANGED <<plugin, next, rejected, loaded, def, alts, nonIr, disabled>>

SecondInputs ==
  /\ pc = "inputs2"
  /\ AddInputs({Out})
  /\ pc' = "resolve2"
  /\ UNCHANGED <<plugin, role, next, known, rejected, loaded, nonIr, reported, disabled, resultVars>>

SecondResolve ==
  /\ pc = "resolve2"
  /\ Resolve({Out})
  /\ disabled' = TRUE
  /\ pc' = "alternatives2"
  /\ UNCHANGED <<plugin, role, next, known, rejected, alts, reported, resultVars>>

SecondAlternatives ==
  /\ pc = "alternatives2"
  /\ IF Duplicates({Out})
       THEN pc' = "error" /\ UNCHANGED <<def, alts>>
       ELSE Alternatives({Out}) /\ pc' = "done"
  /\ UNCHANGED <<plugin, role, next, known, rejected, loaded, nonIr, reported, disabled, resultVars>>

Ended == pc \in {"done", "error"} /\ UNCHANGED vars

Next == \/ ExtractRegular \/ LoadPlugin \/ ClaimFile \/ FirstInputs \/ FirstResolve \/ FirstAlternatives
        \/ Codegen \/ SecondInputs \/ SecondResolve \/ SecondAlternatives \/ Ended

Spec == Init /\ [][Next]_vars

-----------------------------------------------------------------------------
(* Properties. *)

Code == loaded \ IrFiles

\* After the second round, what the loaded objects and the entry point refer to
\* is code: a symbol of a loaded object that defines the name, and the same one
\* for all of them - whatever the plugin made of the definitions it was told to
\* keep or might drop, and however the names were bound while IR was in play.
ReferredTo(n) == n = EntryName \/ \E f \in Code : Refers(f, n)

BoundToCode ==
  (pc = "done" /\ loaded \cap IrFiles # {}) =>
    \A n \in Names :
      (ReferredTo(n) /\ Lookup(n) # None) =>
        LET d == Definition(Lookup(n)) IN
        /\ d[1] \in Code /\ Defines(d[1], n)
        /\ \A g \in Code : role[g][n] # "none" => Definition(<<g, n>>) = d

\* A prevailing definition in IR that an object or the entry point refers to is
\* reported as such, not as one the plugin may drop or make local.
NonIrReferencesReported ==
  pc = "inputs2" =>
    \A s \in IrDefinitions :
      (/\ \/ s[2] = EntryName
          \/ \E f \in loaded \ IrFiles : role[f][s[2]] = "ref"
       /\ reported[s] # "Preempted") => reported[s] = "PrevailingDef"

\* "If the plugin reported an error to us, but then returned a successful return
\* code, still propagate the error": a link in which loading the plugin or a call
\* into it went wrong does not get past the claims, and not past code generation:
\* not when the status says success, nor when the error hides in a thread local
\* until another call takes it.
FailuresPropagate == failed => pc \in {"claim", "error"}

-----------------------------------------------------------------------------
(* What a link must look like for the properties above to hold whatever    *)
(* the plugin does.  The theorems assume these of the constants.           *)

\* No name is defined weakly in one file and strongly in another.  The definition
\* that is looked up first would be marked, and another one would prevail.
StrengthsAgree ==
  \A w \in Worlds, n \in Names, f, g \in Files : ~(w[f][n] = "weak" /\ w[g][n] = "strong")

\* Archive members that code generation brings in, and those that they bring in,
\* are not IR and do not refer to what the plugin may have dropped: what only IR
\* refers to.
RequiredObjects == Files \ (IrFiles \cup Optional)

Kept(w) == {EntryName} \cup {n \in Names : \E f \in RequiredObjects : w[f][n] = "ref"}

RuntimeApart ==
  \A w \in Worlds : \E runtime \in SUBSET (Optional \ IrFiles) :
    \A n \in Names, f \in Files : w[f][n] \in {"weak", "strong"} =>
      /\ n \in Libcalls => f \in runtime \/ f \notin Optional
      /\ \A g \in runtime :
           w[g][n] = "ref" /\ n \notin Kept(w) => f \in runtime \cup RequiredObjects

=============================================================================
