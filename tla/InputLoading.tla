--------------------------- MODULE InputLoading ---------------------------
(***************************************************************************)
(* FileLoader of input_data.rs: opening the input files in parallel, and   *)
(* putting what they hold into the order of the command line.              *)
(*                                                                         *)
(* Every path is opened once.  The files of the command line have the load *)
(* indexes of their positions; a linker script, or an object that names    *)
(* dependent libraries, asks for more files, and whoever asks first for a  *)
(* path claims the next index and spawns the task that opens it.  When all *)
(* tasks have ended the files are extracted by one thread: the command     *)
(* line in order, what a script asked for at the script's place, dependent *)
(* libraries after everything else.  At the end of the link the files are  *)
(* compared with what they were when they were opened.                     *)
(*                                                                         *)
(* A file is its kind, the inputs it asks for and its members.  How a name *)
(* is searched for is reduced to the files that are found.                 *)
(***************************************************************************)
EXTENDS Integers, Sequences, FiniteSets, SequencesExt

CONSTANTS
  Path,        \* the files
  InputSpec,   \* what an input can be specified by: a path or a library name
  NoPath,      \* no file was found
  Worlds,      \* command lines and the files they reach
  MaxChanges   \* bound on the files that somebody changes during the link

Modifiers == [as_needed : BOOLEAN, archive_semantics : BOOLEAN, allow_shared : BOOLEAN]

Input == [spec : InputSpec, modifiers : Modifiers]

(* "unreadable" cannot be opened or identified, "malformed" is an object   *)
(* that cannot be parsed, "ir" is compiler IR.                             *)
FileKind == {"unreadable", "object", "dynamic", "malformed", "ir",
             "archive", "thin", "script", "stub"}

(* refs: what a script or an object's .deplibs names; members: the kinds   *)
(* of an archive's members, the paths of a thin archive's.                 *)
Refs == Seq([spec : InputSpec, as_needed : BOOLEAN])
File == [kind : FileKind \ {"thin"}, refs : Refs, members : Seq(FileKind)]
          \cup [kind : {"thin"}, refs : Refs, members : Seq(Path)]

(* found: the shared library and the other file each spec leads to.        *)
World == [inputs : Seq(Input),
          files : [Path -> File],
          found : [InputSpec -> [shared : Path \cup {NoPath}, other : Path \cup {NoPath}]],
          partial : BOOLEAN]

ASSUME WorldAssumption ==
  /\ Worlds \subseteq World
  /\ NoPath \notin Path \cup Nat
  /\ MaxChanges \in Nat

VARIABLES
  world,         \* the command line and the files, constant
  version,       \* how often each file has been changed
  phase,         \* start, open, extract, verify, end
  claimed,       \* path_to_load_index
  next_index,    \* next_file_load_index
  requests,      \* OpenFileRequests that no thread has started on
  running,       \* files that are open and still ask for others
  files,         \* TemporaryState::files
  arena,         \* the files that were opened, inputs_arena
  initial_count, \* number of files of the command line
  pass,          \* the pass of extract_all
  work,          \* calls of extract_file the pass still makes, in order
  pending,       \* dependent libraries to extract
  taken,         \* indexes whose entry of files_by_index was taken
  loaded,        \* LoadedInputs, its lists as one
  loaded_files,  \* FileLoader::loaded_files
  has_dynamic,   \* FileLoader::has_dynamic
  result         \* of load_inputs and then of the link

opening == <<claimed, next_index, requests, running, files, arena, initial_count>>
extraction == <<pass, work, pending, taken, loaded, loaded_files, has_dynamic>>
vars == <<world, version, phase, opening, extraction, result>>

(* A file as it was when it was opened.                                    *)
Opened(p) == [path |-> p, version |-> version[p]]

(* Input::path: a shared library only where one is allowed.                *)
PathOf(input) ==
  LET found == world.found[input.spec]
  IN  IF input.modifiers.allow_shared /\ found.shared # NoPath THEN found.shared ELSE found.other

Init ==
  /\ world \in Worlds
  /\ version = [p \in Path |-> 0]
  /\ phase = "start"
  /\ claimed = [p \in Path |-> NoPath]
  /\ next_index = 0 /\ initial_count = 0
  /\ requests = {} /\ running = {} /\ files = {} /\ arena = {}
  /\ pass = 1 /\ work = << >> /\ pending = << >> /\ taken = {}
  /\ loaded = << >> /\ loaded_files = << >> /\ has_dynamic = FALSE
  /\ result = [state |-> "none"]

Failed(p) == [state |-> "error", path |-> p]

---------------------------------------------------------------------------
(* load_inputs up to the scope: a request for each path, in the order in   *)
(* which the paths appear first.                                           *)
FirstInputs ==
  {i \in DOMAIN world.inputs : \A j \in 1 .. i - 1 : PathOf(world.inputs[j]) # PathOf(world.inputs[i])}

LoadIndex(i) == Cardinality({j \in FirstInputs : j < i})

BeginLoading ==
  /\ phase = "start"
  /\ IF \E i \in DOMAIN world.inputs : PathOf(world.inputs[i]) = NoPath
     THEN /\ phase' = "verify"
          /\ result' = Failed(NoPath)
          /\ UNCHANGED opening
     ELSE /\ phase' = "open"
          /\ initial_count' = Cardinality(FirstInputs)
          /\ next_index' = Cardinality(FirstInputs)
          /\ requests' = {[index |-> LoadIndex(i), path |-> PathOf(world.inputs[i]),
                           modifiers |-> world.inputs[i].modifiers] : i \in FirstInputs}
          /\ claimed' = [p \in Path |->
               IF \E i \in FirstInputs : PathOf(world.inputs[i]) = p
               THEN LoadIndex(CHOOSE i \in FirstInputs : PathOf(world.inputs[i]) = p)
               ELSE NoPath]
          /\ UNCHANGED <<running, files, arena, result>>
  /\ UNCHANGED <<world, version, extraction>>

(* Modifiers of dependent libraries: those of the last input.              *)
DeplibModifiers ==
  LET last == world.inputs[Len(world.inputs)].modifiers
  IN  [last EXCEPT !.archive_semantics = FALSE]

(* process_input refuses a file: an archive's member that is no object, a  *)
(* dynamic object where only static ones are allowed.                      *)
Refused(kind, modifiers, in_archive) ==
  /\ kind # "ir"
  /\ \/ in_archive /\ kind \notin {"object", "malformed"}
     \/ kind = "dynamic" /\ ~modifiers.allow_shared

(* process_archive and process_thin_archive: what the members yield, in    *)
(* their order; a thin archive's are files of their own.                   *)
MemberKind(f, i) == IF f.kind = "thin" THEN world.files[f.members[i]].kind ELSE f.members[i]

OpenFails(f, modifiers) ==
  \/ f.kind = "unreadable"
  \/ f.kind \notin {"archive", "thin", "script", "stub"} /\ Refused(f.kind, modifiers, FALSE)
  \/ f.kind \in {"archive", "thin"} /\ \E i \in DOMAIN f.members :
       \/ MemberKind(f, i) \in {"unreadable", "archive", "thin", "script", "stub"}
       \/ Refused(MemberKind(f, i), modifiers, f.kind = "archive")

(* What extraction adds to the loaded inputs: the file or its members.     *)
Records(p, f, modifiers) ==
  IF f.kind \in {"archive", "thin"}
  THEN [i \in DOMAIN f.members |->
          [path |-> IF f.kind = "thin" THEN f.members[i] ELSE p,
           kind |-> MemberKind(f, i),
           version |-> IF f.kind = "thin" THEN version[f.members[i]] ELSE version[p],
           modifiers |-> IF f.kind = "thin" THEN [modifiers EXCEPT !.archive_semantics = TRUE] ELSE modifiers]]
  ELSE <<[path |-> p, kind |-> f.kind, version |-> version[p], modifiers |-> modifiers]>>

(* The inputs an open file asks for: those of a script, and the dependent  *)
(* libraries of an object that is linked unconditionally and not with -r.  *)
Asks(f, modifiers) ==
  IF f.kind = "script"
  THEN [i \in DOMAIN f.refs |->
          [spec |-> f.refs[i].spec,
           modifiers |-> [modifiers EXCEPT !.as_needed = @ \/ f.refs[i].as_needed]]]
  ELSE IF f.kind \in {"object", "dynamic"} /\ ~world.partial /\ ~modifiers.archive_semantics
  THEN [i \in DOMAIN f.refs |-> [spec |-> f.refs[i].spec, modifiers |-> DeplibModifiers]]
  ELSE << >>

(* A task that ends without recording the error.                           *)
DropError(request) == UNCHANGED files

(* process_and_record_open_file_request, for a request that failed.        *)
RecordError(request) ==
  files' = files \cup {[index |-> request.index, path |-> request.path, error |-> TRUE]}

(* process_open_file_request: open and identify the file and parse it or   *)
(* its members.                                                            *)
OpenFile(r) ==
  LET f == world.files[r.path]
      members == IF f.kind = "thin" THEN ToSet(f.members) ELSE {}
  IN  /\ phase = "open"
      /\ r \in requests
      /\ requests' = requests \ {r}
      /\ arena' = IF f.kind = "unreadable" THEN arena
                  ELSE arena \cup {Opened(p) : p \in {r.path} \cup members}
      /\ IF OpenFails(f, r.modifiers)
         THEN RecordError(r) /\ UNCHANGED running
         ELSE /\ running' = running \cup
                   {[index |-> r.index, path |-> r.path, records |-> Records(r.path, f, r.modifiers),
                     input_files |-> IF f.kind = "thin" THEN [i \in DOMAIN f.members |-> Opened(f.members[i])]
                                     ELSE <<Opened(r.path)>>,
                     asks |-> Asks(f, r.modifiers), indexes |-> << >>]}
              /\ UNCHANGED files
      /\ UNCHANGED <<world, version, phase, claimed, next_index, initial_count, extraction, result>>

(* load_input for the next file asked for: the index of whoever claimed    *)
(* the path, or the next index and a new task.  A name that leads nowhere  *)
(* ends the task; what it asked for before stays requested.                *)
LoadInput(t) ==
  /\ phase = "open"
  /\ t \in running /\ t.asks # << >>
  /\ LET input == Head(t.asks)
         p == PathOf(input)
         index == IF claimed[p] = NoPath THEN next_index ELSE claimed[p]
     IN  IF p = NoPath
         THEN /\ running' = running \ {t}
              /\ RecordError(t)
              /\ UNCHANGED <<claimed, next_index, requests>>
         ELSE /\ running' = (running \ {t}) \cup
                   {[t EXCEPT !.asks = Tail(@), !.indexes = Append(@, index)]}
              /\ claimed' = [claimed EXCEPT ![p] = index]
              /\ IF claimed[p] = NoPath
                 THEN /\ next_index' = next_index + 1
                      /\ requests' = requests \cup
                           {[index |-> index, path |-> p, modifiers |-> input.modifiers]}
                 ELSE UNCHANGED <<next_index, requests>>
              /\ UNCHANGED files
  /\ UNCHANGED <<world, version, phase, arena, initial_count, extraction, result>>

(* process_and_record_open_file_request, for a file that was loaded.       *)
RecordFile(t) ==
  /\ phase = "open"
  /\ t \in running /\ t.asks = << >>
  /\ running' = running \ {t}
  /\ files' = files \cup
       {[index |-> t.index, path |-> t.path, error |-> FALSE,
         records |-> t.records, input_files |-> t.input_files, indexes |-> t.indexes]}
  /\ UNCHANGED <<world, version, phase, claimed, next_index, requests, arena, initial_count, extraction, result>>

(* The end of the scope: files_by_index has one entry per recorded file,   *)
(* and an index beyond it panics.                                          *)
EndScope ==
  /\ phase = "open"
  /\ requests = {} /\ running = {}
  /\ IF \E f \in files : f.index >= Cardinality(files)
     THEN /\ phase' = "end"
          /\ result' = [state |-> "panic"]
          /\ UNCHANGED work
     ELSE /\ phase' = "extract"
          /\ work' = [i \in 1 .. initial_count |-> i - 1]
          /\ UNCHANGED result
  /\ UNCHANGED <<world, version, opening, pass, pending, taken, loaded, loaded_files, has_dynamic>>

---------------------------------------------------------------------------
FileAt(i) == CHOOSE f \in files : f.index = i

IsScript(f) == world.files[f.path].kind = "script"

(* Archives whose file is not remembered.                                  *)
InputFilesOfLoaded(f) == IF world.files[f.path].kind = "archive" THEN << >> ELSE f.input_files

(* What extract_file adds to loaded_files: the file itself, of a thin      *)
(* archive its members.                                                    *)
InputFilesOf(f) == f.input_files

(* A script whose files wait until everything else was extracted.          *)
ScriptLast(f, rest) == rest \o f.indexes

(* A script's files are extracted at the script's place.                   *)
ScriptInPlace(f, rest) == f.indexes \o rest

(* Dependent libraries go to the end of the queue.                         *)
Deplibs(f) == IF IsScript(f) THEN << >> ELSE f.indexes

(* extract_file.                                                           *)
ExtractFile ==
  /\ phase = "extract"
  /\ work # << >>
  /\ LET i == Head(work)
         f == FileAt(i)
     IN  \/ /\ i \in taken
            /\ work' = Tail(work)
            /\ UNCHANGED <<phase, result, pending, taken, loaded, loaded_files, has_dynamic>>
         \/ /\ i \notin taken /\ f.error
            /\ taken' = taken \cup {i}
            /\ phase' = "verify"
            /\ result' = Failed(f.path)
            /\ UNCHANGED <<work, pending, loaded, loaded_files, has_dynamic>>
         \/ /\ i \notin taken /\ ~f.error
            /\ taken' = taken \cup {i}
            /\ loaded' = loaded \o f.records
            /\ loaded_files' = loaded_files \o InputFilesOf(f)
            /\ work' = IF IsScript(f) THEN ScriptInPlace(f, Tail(work)) ELSE Tail(work)
            /\ pending' = pending \o Deplibs(f)
            /\ has_dynamic' = (has_dynamic \/ world.files[f.path].kind \in {"dynamic", "stub"})
            /\ UNCHANGED <<phase, result>>
  /\ UNCHANGED <<world, version, opening, pass>>

(* A queue that is looked at and not popped.                               *)
PeekPending == pending

(* The queue of dependent libraries without its first.                     *)
PopPending == Tail(pending)

(* extract_all: dependent libraries one after the other, then the safety   *)
(* net over all indexes.                                                   *)
NextPass ==
  /\ phase = "extract"
  /\ work = << >>
  /\ \/ /\ pass < 3 /\ pending # << >>
        /\ pass' = 2
        /\ work' = <<Head(pending)>>
        /\ pending' = PopPending
        /\ UNCHANGED <<phase, result>>
     \/ /\ pass < 3 /\ pending = << >>
        /\ pass' = 3
        /\ work' = [i \in 1 .. Cardinality(files) |-> i - 1]
        /\ UNCHANGED <<phase, result, pending>>
     \/ /\ pass = 3
        /\ phase' = "verify"
        /\ result' = [state |-> "loaded"]
        /\ UNCHANGED <<pass, work, pending>>
  /\ UNCHANGED <<world, version, opening, taken, loaded, loaded_files, has_dynamic>>

---------------------------------------------------------------------------
(* Somebody changes a file while the link runs.                            *)
ChangeFile(p) ==
  /\ phase \in {"open", "extract", "verify"}
  /\ version[p] = 0
  /\ Cardinality({q \in Path : version[q] > 0}) < MaxChanges
  /\ version' = [version EXCEPT ![p] = 1]
  /\ UNCHANGED <<world, phase, opening, extraction, result>>

(* verify_inputs_unchanged; an input that changed takes precedence over    *)
(* any other error.                                                        *)
VerifyInputsUnchanged ==
  /\ phase = "verify"
  /\ phase' = "end"
  /\ result' = IF \E i \in DOMAIN loaded_files : loaded_files[i] # Opened(loaded_files[i].path)
               THEN [state |-> "changed"] ELSE result
  /\ UNCHANGED <<world, version, opening, extraction>>

Ended ==
  /\ phase = "end"
  /\ UNCHANGED vars

Step ==
  \/ BeginLoading
  \/ \E r \in requests : OpenFile(r)
  \/ \E t \in running : LoadInput(t)
  \/ \E t \in running : RecordFile(t)
  \/ EndScope
  \/ ExtractFile
  \/ NextPass
  \/ VerifyInputsUnchanged

Next == Step \/ (\E p \in Path : ChangeFile(p)) \/ Ended

(* The threads of the pool go on as long as there is something to do.      *)
Spec == Init /\ [][Next]_vars /\ WF_vars(Step)

---------------------------------------------------------------------------
(* Every index that was handed out is recorded once, whatever failed, so   *)
(* that the files can be put in order by their indexes.                    *)
EveryIndexRecorded ==
  phase \notin {"start", "open"} =>
    /\ {f.index : f \in files} = 0 .. next_index - 1
    /\ Cardinality(files) = next_index

(* A link that succeeds has used no object, member, script or library that *)
(* changed between the moment it was opened and the verification.          *)
LoadedInputsVerified ==
  phase = "end" /\ result.state = "loaded" =>
    \A i \in DOMAIN loaded : loaded[i].version = version[loaded[i].path]

(* verify_inputs_unchanged checks all our input files: each file that was  *)
(* opened for a link that succeeds is the one that was verified.           *)
OpenedInputsVerified ==
  phase = "end" /\ result.state = "loaded" => arena \subseteq ToSet(loaded_files)

(* Loading ends, also when scripts ask for each other.                     *)
Terminates == <>(phase = "end")
==========================================================================
