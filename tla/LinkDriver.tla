---------------------------- MODULE LinkDriver ----------------------------
(***************************************************************************)
(* The life of one invocation: subprocess.rs, which forks the process that *)
(* links and waits for it, Linker::link_for_arch in lib.rs, which orders   *)
(* the phases and checks that the inputs did not change, and the output    *)
(* file of file_writer.rs and fs.rs, created by a background task while    *)
(* the old file, which may be in use, is moved out of the way.             *)
(*                                                                         *)
(* Of loading, what decides which files are compared at the end is kept:   *)
(* files are opened and parsed in any order, and extracted in theirs.      *)
(* Resolution, layout and the contents of the output are one step each.    *)
(***************************************************************************)
EXTENDS Naturals, FiniteSets

CONSTANTS
  NumInputs,     \* input files, numbered in the order in which they are extracted
  MaxChanges,    \* bound: how often others modify an input file
  Options,       \* the invocations considered, a subset of Option
  Killable       \* whether the linking process may be killed: in the child, and in-process

FileReplacementMode == {"UnlinkAndReplace", "UpdateInPlace", "UpdateInPlaceWithFallback"}

(* The command line, and what the invocation finds: whether the output     *)
(* file exists, is being executed, and is in a directory in which it can   *)
(* be neither renamed nor removed.                                         *)
Option ==
  [fork : BOOLEAN, background : BOOLEAN, mode : FileReplacementMode, fatalWarnings : BOOLEAN,
   exists : BOOLEAN, busy : BOOLEAN, pinned : BOOLEAN]

ASSUME DriverAssumption ==
  /\ NumInputs \in Nat
  /\ MaxChanges \in Nat
  /\ Options \in SUBSET Option
  /\ Killable \in SUBSET {"Child", "InProcess"}

None == "None"
Input == 1..NumInputs
Version == 1..(MaxChanges + 1)
NotOpened == 0
Inode == {"Old", "New"}

VARIABLES
  options,     \* the command line and its surroundings
  version,     \* the modification time of the input files
  recorded,    \* OsInputFile.modification_time
  seen,        \* the versions of an input file whose bytes were used
  files,       \* what opening and parsing an input file has led to
  loaded,      \* FileLoader.loaded_files
  warned,      \* warning_count > 0
  step,        \* what the linking process does next
  linker,      \* where it links: "Child", "InProcess"
  result,      \* what load_inputs_and_link returned
  reported,    \* the error that was reported
  child,       \* the exit status of the child
  pipe,        \* the pipe from the child to the parent
  writers,     \* the processes that have its writing end open
  exit,        \* the exit status of the invocation
  creator,     \* what the task that creates the output file does next
  channel,     \* sized_output_recv
  remover,     \* the task that removes the old file
  output,      \* the file at the output path
  aside,       \* the file at the path with the extension "delete"
  handle,      \* the file opened for output
  mapped,      \* the output file is mapped for writing
  content      \* what the files contain

pipeVars == <<pipe, writers>>
processVars == <<step, linker, result, reported, child, pipeVars, exit>>
loadVars == <<recorded, files, loaded>>
inputVars == <<version, seen, warned, loadVars>>
fileVars == <<creator, channel, remover, output, aside, handle, mapped, content>>
vars == <<options, inputVars, processVars, fileVars>>

Status == {"Running", "Success", "Failure", "Signal"}
FileState == {"Unopened", "Opened", "Parsed", "Error"}
Step == {"Fork", "Load", "Open", "Link", "Layout", "DeleteOld", "Create", "Receive", "Write", "Flush",
         "Verify", "DependencyFile", "Notify", "Warnings", "Shutdown", "Ended"}

Init ==
  /\ options \in Options
  /\ version = [i \in Input |-> 1]
  /\ recorded = [i \in Input |-> NotOpened]
  /\ seen = [i \in Input |-> {}]
  /\ warned = FALSE
  /\ files = [i \in Input |-> "Unopened"]
  /\ loaded = {}
  /\ step = "Fork" /\ linker = None /\ result = None /\ reported = None
  /\ child = "Running" /\ pipe = "Empty" /\ writers = {} /\ exit = "Running"
  /\ creator = "Idle" /\ channel = "Empty" /\ remover = "Idle"
  /\ output = IF options.exists THEN "Old" ELSE None
  /\ aside = None /\ handle = None /\ mapped = FALSE
  /\ content = [f \in Inode |-> IF f = "Old" THEN "Original" ELSE "Blank"]

---------------------------------------------------------------------------
(* Processes.                                                              *)

(* The linking process ends, and with it its ends of the pipe. Its status  *)
(* is that of the invocation unless it was forked.                         *)
EndProcess(status) ==
  /\ step' = "Ended"
  /\ IF linker = "Child"
       THEN /\ child' = status
            /\ writers' = writers \ {"Child"}
            /\ UNCHANGED <<pipe, exit>>
       ELSE /\ exit' = status
            /\ UNCHANGED <<child, pipeVars>>

(* Bug: the parent does not close its copy of the writing end. *)
ForkKeepsWriter ==
  /\ step = "Fork"
  /\ \/ /\ options.fork
        /\ step' = "Load" /\ linker' = "Child"
        /\ writers' = {"Parent", "Child"}
        /\ UNCHANGED <<reported, child, pipe, exit>>
     \/ /\ step' = "Load" /\ linker' = "InProcess"
        /\ UNCHANGED <<reported, child, pipeVars, exit>>
     \/ /\ options.fork
        /\ reported' = "Link"
        /\ EndProcess("Failure")
        /\ UNCHANGED linker
  /\ UNCHANGED <<options, inputVars, result, fileVars>>

(* run_in_subprocess: link in a child, or here if told to or if there can  *)
(* be no child; without a pipe nothing is linked. The parent closes its    *)
(* copy of the writing end before it reads.                                *)
Fork ==
  /\ step = "Fork"
  /\ \/ /\ options.fork
        /\ step' = "Load" /\ linker' = "Child"
        /\ writers' = {"Child"}
        /\ UNCHANGED <<reported, child, pipe, exit>>
     \/ /\ step' = "Load" /\ linker' = "InProcess"
        /\ UNCHANGED <<reported, child, pipeVars, exit>>
     \/ /\ options.fork
        /\ reported' = "Link"
        /\ EndProcess("Failure")
        /\ UNCHANGED linker
  /\ UNCHANGED <<options, inputVars, result, fileVars>>

(* wait_for_child_done: a byte on the pipe is success. *)
ReadPipe ==
  /\ linker = "Child" /\ exit = "Running"
  /\ pipe = "Byte"
  /\ exit' = "Success"
  /\ UNCHANGED <<options, inputVars, step, linker, result, reported, child, pipeVars, fileVars>>

(* WEXITSTATUS: the exit code of a process, and zero if it was killed. *)
ExitCode(status) == IF status = "Failure" THEN "Failure" ELSE "Success"

(* If nobody can write to the pipe any more, the read ends without a byte, *)
(* and the status of the child decides once it has ended.                  *)
WaitForChild ==
  /\ linker = "Child" /\ exit = "Running"
  /\ pipe = "Empty" /\ writers = {} /\ child # "Running"
  /\ exit' = ExitCode(child)
  /\ UNCHANGED <<options, inputVars, step, linker, result, reported, child, pipeVars, fileVars>>

(* The linking process is killed: by the user, for want of memory, or by   *)
(* an access to a mapped file that was truncated.                          *)
Kill ==
  /\ linker \in Killable
  /\ step # "Ended"
  /\ EndProcess("Signal")
  /\ UNCHANGED <<options, inputVars, linker, result, reported, fileVars>>

---------------------------------------------------------------------------
(* Inputs.                                                                 *)

(* Others modify an input file. *)
ChangeInput(i) ==
  /\ exit = "Running"
  /\ version[i] <= MaxChanges
  /\ version' = [version EXCEPT ![i] = @ + 1]
  /\ UNCHANGED <<options, loadVars, seen, warned, processVars, fileVars>>

(* load_inputs: the paths of the command line have been found. *)
LoadInputs ==
  /\ step = "Load"
  /\ step' = "Open"
  /\ UNCHANGED <<options, inputVars, linker, result, reported, child, pipeVars, exit, fileVars>>

(* Bug: the time is noted when the bytes have been used. *)
OpenInputLate(i) ==
  /\ \/ step = "Open" /\ files[i] = "Unopened" /\ files' = [files EXCEPT ![i] = "Opened"]
     \/ step = "Write" /\ UNCHANGED files
  /\ recorded' = [recorded EXCEPT ![i] = version[i]]
  /\ UNCHANGED <<options, version, seen, warned, loaded, processVars, fileVars>>

(* open_input: the modification time of a file is noted, then the file is  *)
(* mapped, unless there is an error.                                       *)
OpenInput(i) ==
  /\ step = "Open"
  /\ files[i] = "Unopened"
  /\ \/ /\ recorded' = [recorded EXCEPT ![i] = version[i]]
        /\ files' = [files EXCEPT ![i] = "Opened"]
     \/ /\ files' = [files EXCEPT ![i] = "Error"]
        /\ UNCHANGED recorded
  /\ UNCHANGED <<options, version, seen, warned, loaded, processVars, fileVars>>

(* process_open_file_request: a file is identified and parsed, which may   *)
(* fail for what its bytes are. An error in an object or in a member of an *)
(* archive is kept in its place, and is one of resolution.                 *)
ParseInput(i) ==
  /\ step = "Open"
  /\ files[i] = "Opened"
  /\ seen' = [seen EXCEPT ![i] = @ \cup {version[i]}]
  /\ \E state \in {"Parsed", "Error"} : files' = [files EXCEPT ![i] = state]
  /\ UNCHANGED <<options, version, warned, recorded, loaded, processVars, fileVars>>

(* Bytes are read from the mapped files when they are needed. *)
ReadInputs ==
  seen' = [i \in Input |-> seen[i] \cup (IF recorded[i] = NotOpened THEN {} ELSE {version[i]})]

(* Symbol resolution and layout, which may warn. *)
ResolveAndLayout ==
  /\ step = "Link"
  /\ step' = "Layout"
  /\ ReadInputs
  /\ warned' \in {warned, TRUE}
  /\ UNCHANGED <<options, version, loadVars, linker, result, reported, child, pipeVars, exit, fileVars>>

(* An error in load_inputs_and_link, wherever it is, ends it. *)
Fail ==
  /\ result' = "Err"
  /\ step' = "Verify"
  /\ UNCHANGED <<linker, reported, child, pipeVars, exit>>

(* extract_all: once all files were opened or failed, the list of loaded   *)
(* files is filled in their order, up to the first error, which is that of *)
(* load_inputs.                                                            *)
ExtractAll ==
  /\ step = "Open"
  /\ \A i \in Input : files[i] \in {"Parsed", "Error"}
  /\ loaded' = {i \in Input : \A j \in 1..i : files[j] = "Parsed"}
  /\ \/ /\ loaded' = Input
        /\ step' = "Link"
        /\ UNCHANGED <<linker, result, reported, child, pipeVars, exit>>
     \/ loaded' # Input /\ Fail
  /\ UNCHANGED <<options, version, seen, warned, recorded, files, fileVars>>

(* An error before a file is opened, or after all were loaded and before   *)
(* the size of the output is known, which what the input files contain may *)
(* have caused.                                                            *)
LinkError ==
  /\ step \in {"Load", "Link", "Layout"}
  /\ Fail
  /\ ReadInputs
  /\ UNCHANGED <<options, version, loadVars, warned, fileVars>>

---------------------------------------------------------------------------
(* The output file.                                                        *)

Alive == step # "Ended"

(* Output::set_size: the file is created in the background if there is     *)
(* more than one thread. Writing the layout, which follows, may fail.      *)
SetSize ==
  /\ step = "Layout"
  /\ IF options.background
       THEN creator' = IF options.mode = "UnlinkAndReplace" THEN "Rename" ELSE "Open"
       ELSE UNCHANGED creator
  /\ \/ /\ step' = IF options.background THEN "Receive" ELSE "DeleteOld"
        /\ UNCHANGED <<linker, result, reported, child, pipeVars, exit>>
     \/ Fail
  /\ UNCHANGED <<options, inputVars, channel, remover, output, aside, handle, mapped, content>>

(* Bug: the old file stays where it is. *)
RenameOldSkipped ==
  /\ creator = "Rename" /\ Alive
  /\ creator' = "Open"
  /\ UNCHANGED <<options, inputVars, processVars, channel, remover, output, aside, handle, mapped, content>>

(* The old file is renamed, and removed by a task of its own. Whether the  *)
(* renaming worked does not matter.                                        *)
RenameOld ==
  /\ creator = "Rename" /\ Alive
  /\ creator' = "Open"
  /\ IF output # None /\ ~options.pinned
       THEN /\ aside' = output
            /\ output' = None
            /\ remover' = "Remove"
       ELSE UNCHANGED <<aside, output, remover>>
  /\ UNCHANGED <<options, inputVars, processVars, channel, handle, mapped, content>>

RemoveOld ==
  /\ remover = "Remove" /\ Alive
  /\ remover' = "Done"
  /\ aside' = None
  /\ UNCHANGED <<options, inputVars, processVars, creator, channel, output, handle, mapped, content>>

(* delete_old_output, when there is a single thread. *)
DeleteOldOutput ==
  /\ step = "DeleteOld"
  /\ step' = "Create"
  /\ output' = IF options.pinned THEN output ELSE None
  /\ UNCHANGED <<options, inputVars, linker, result, reported, child, pipeVars, exit,
                 creator, channel, remover, aside, handle, mapped, content>>

(* create_output opens f: a new file if there is none or, where the mode   *)
(* allows it, if the old one is being executed; otherwise the old one,     *)
(* which is truncated or not.                                              *)
OpenOutput(f) ==
  \/ /\ f = "New"
     /\ \/ output = None
        \/ options.busy /\ options.mode = "UpdateInPlaceWithFallback" /\ ~options.pinned
     /\ output' = "New"
     /\ UNCHANGED content
  \/ /\ f = "Old"
     /\ output = "Old" /\ ~options.busy
     /\ content' = [content EXCEPT !["Old"] =
                      IF options.mode = "UnlinkAndReplace" THEN "Blank" ELSE "Stale"]
     /\ UNCHANGED output

(* The file may be mapped, or if that fails or is not wanted, a buffer is  *)
(* used.                                                                   *)
CreateOutput ==
  \E f \in Inode, asMap \in BOOLEAN :
    /\ OpenOutput(f)
    /\ handle' = f
    /\ mapped' = asMap

(* The file cannot be opened, or be prepared after it was opened. *)
CreateOutputFails ==
  /\ \/ UNCHANGED <<output, content>>
     \/ \E f \in Inode : OpenOutput(f)
  /\ UNCHANGED <<handle, mapped>>

(* The background task hands over the file. *)
SendOutput ==
  /\ creator = "Open" /\ Alive
  /\ creator' = "Done"
  /\ \/ CreateOutput /\ channel' = "Ok"
     \/ CreateOutputFails /\ channel' = "Err"
  /\ UNCHANGED <<options, inputVars, processVars, remover, aside>>

(* wait_for_sized_output: recv waits until there is a message or the task  *)
(* that had the sender has ended, which is an error.                       *)
ReceiveOutput ==
  /\ step = "Receive"
  /\ channel # "Empty" \/ creator = "Done"
  /\ \/ channel = "Ok" /\ step' = "Write" /\ UNCHANGED <<linker, result, reported, child, pipeVars, exit>>
     \/ channel # "Ok" /\ Fail
  /\ UNCHANGED <<options, inputVars, fileVars>>

(* create_file_non_lazily. *)
CreateFile ==
  /\ step = "Create"
  /\ \/ CreateOutput /\ step' = "Write" /\ UNCHANGED <<linker, result, reported, child, pipeVars, exit>>
     \/ CreateOutputFails /\ Fail
  /\ UNCHANGED <<options, inputVars, creator, channel, remover, aside>>

(* write_fn fills the file, or the buffer, copying from the input files. *)
WriteOutput ==
  /\ step = "Write"
  /\ ReadInputs
  /\ \/ /\ step' = "Flush"
        /\ content' = IF mapped THEN [content EXCEPT ![handle] = "Complete"] ELSE content
        /\ UNCHANGED <<linker, result, reported, child, pipeVars, exit, mapped>>
     \/ /\ Fail
        /\ content' = IF mapped THEN [content EXCEPT ![handle] = "Stale"] ELSE content
        /\ mapped' = FALSE
  /\ UNCHANGED <<options, version, loadVars, warned, creator, channel, remover, output, aside, handle>>

(* Bug: a buffer that cannot be written is forgotten. *)
FlushOutputUnwritten ==
  /\ step = "Flush"
  /\ step' = "Verify" /\ result' = "Ok"
  /\ \/ content' = [content EXCEPT ![handle] = "Complete"]
     \/ ~mapped /\ UNCHANGED content
  /\ mapped' = FALSE
  /\ UNCHANGED <<options, inputVars, linker, reported, child, pipeVars, exit,
                 creator, channel, remover, output, aside, handle>>

(* The trace is closed, the buffer written or the file unmapped by finish, *)
(* and maybe_diff called: each but the unmapping may fail.                 *)
FlushOutput ==
  /\ step = "Flush"
  /\ \/ /\ step' = "Verify" /\ result' = "Ok"
        /\ content' = [content EXCEPT ![handle] = "Complete"]
        /\ UNCHANGED <<linker, reported, child, pipeVars, exit>>
     \/ /\ Fail
        /\ \/ UNCHANGED content
           \/ content' = [content EXCEPT ![handle] = "Complete"]
           \/ ~mapped /\ content' = [content EXCEPT ![handle] = "Stale"]
  /\ mapped' = FALSE
  /\ UNCHANGED <<options, inputVars, creator, channel, remover, output, aside, handle>>

---------------------------------------------------------------------------
(* The end of the link.                                                    *)

(* Bug: an error of the link is reported first. *)
VerifyInputsUnchangedLast ==
  /\ step = "Verify"
  /\ IF result = "Err"
       THEN reported' = "Link" /\ EndProcess("Failure")
       ELSE IF \E i \in loaded : recorded[i] # version[i]
              THEN reported' = "Changed" /\ EndProcess("Failure")
              ELSE step' = "DependencyFile" /\ UNCHANGED <<reported, child, pipeVars, exit>>
  /\ UNCHANGED <<options, inputVars, linker, result, fileVars>>

(* verify_inputs_unchanged, whatever the result of the link: that a loaded *)
(* file changed takes precedence over other errors.                        *)
VerifyInputsUnchanged ==
  /\ step = "Verify"
  /\ IF \E i \in loaded : recorded[i] # version[i]
       THEN reported' = "Changed" /\ EndProcess("Failure")
       ELSE IF result = "Err"
              THEN reported' = "Link" /\ EndProcess("Failure")
              ELSE step' = "DependencyFile" /\ UNCHANGED <<reported, child, pipeVars, exit>>
  /\ UNCHANGED <<options, inputVars, linker, result, fileVars>>

(* The dependency file and the traces, which may fail, follow a link that  *)
(* succeeded.                                                              *)
WriteDependencyFile ==
  /\ step = "DependencyFile"
  /\ \/ /\ step' = IF linker = "Child" THEN "Notify" ELSE "Warnings"
        /\ UNCHANGED <<reported, child, pipeVars, exit>>
     \/ reported' = "Link" /\ EndProcess("Failure")
  /\ UNCHANGED <<options, inputVars, linker, result, fileVars>>

(* ParentNotifier::notify_done; the child then cleans up. *)
NotifyDone ==
  /\ step = "Notify"
  /\ pipe' = "Byte"
  /\ writers' = writers \ {"Child"}
  /\ step' = "Shutdown"
  /\ UNCHANGED <<options, inputVars, linker, result, reported, child, exit, fileVars>>

Shutdown ==
  /\ step = "Shutdown"
  /\ EndProcess("Success")
  /\ UNCHANGED <<options, inputVars, linker, result, reported, fileVars>>

(* The end of run, after a link in this process. *)
CheckWarnings ==
  /\ step = "Warnings"
  /\ IF options.fatalWarnings /\ warned
       THEN reported' = "Warnings" /\ EndProcess("Failure")
       ELSE EndProcess("Success") /\ UNCHANGED reported
  /\ UNCHANGED <<options, inputVars, linker, result, fileVars>>

(* Both processes are gone. *)
Finished == exit # "Running" /\ step = "Ended" /\ UNCHANGED vars

---------------------------------------------------------------------------

LinkerStep ==
  \/ LoadInputs \/ (\E i \in Input : OpenInput(i) \/ ParseInput(i)) \/ ExtractAll \/ ResolveAndLayout \/ LinkError \/ SetSize
  \/ DeleteOldOutput \/ CreateFile \/ ReceiveOutput \/ WriteOutput \/ FlushOutput
  \/ VerifyInputsUnchanged \/ WriteDependencyFile \/ NotifyDone \/ Shutdown \/ CheckWarnings

CreatorStep == RenameOld \/ SendOutput
ParentStep == Fork \/ ReadPipe \/ WaitForChild

Next ==
  \/ ParentStep
  \/ LinkerStep
  \/ CreatorStep
  \/ RemoveOld
  \/ Kill
  \/ \E i \in Input : ChangeInput(i)
  \/ Finished

(* Processes and threads run; nobody has to kill them or modify inputs.    *)
Fairness == WF_vars(ParentStep) /\ WF_vars(LinkerStep) /\ WF_vars(CreatorStep)

Spec == Init /\ [][Next]_vars /\ Fairness

---------------------------------------------------------------------------
(* Properties.                                                             *)

(* The variables have their types; a file that is mapped is open. *)
TypeOK ==
  /\ options \in Options
  /\ version \in [Input -> Version]
  /\ recorded \in [Input -> Version \cup {NotOpened}]
  /\ seen \in [Input -> SUBSET Version]
  /\ warned \in BOOLEAN
  /\ files \in [Input -> FileState]
  /\ loaded \in SUBSET Input
  /\ step \in Step
  /\ linker \in {None, "Child", "InProcess"}
  /\ result \in {None, "Ok", "Err"}
  /\ reported \in {None, "Link", "Changed", "Warnings"}
  /\ child \in Status /\ exit \in Status
  /\ pipe \in {"Empty", "Byte"}
  /\ writers \in SUBSET {"Parent", "Child"}
  /\ creator \in {"Idle", "Rename", "Open", "Done"}
  /\ channel \in {"Empty", "Ok", "Err"}
  /\ remover \in {"Idle", "Remove", "Done"}
  /\ output \in Inode \cup {None} /\ aside \in Inode \cup {None} /\ handle \in Inode \cup {None}
  /\ mapped \in BOOLEAN
  /\ mapped => handle # None
  /\ content \in [Inode -> {"Original", "Blank", "Stale", "Complete"}]

(* The documentation of Linker::run and of wait_for_child_done: an         *)
(* invocation that succeeds, wherever it linked, leaves an output file     *)
(* that is complete and not mapped any more.                               *)
SuccessMeansComplete ==
  exit = "Success" => output # None /\ content[output] = "Complete" /\ ~mapped

(* verify_inputs_unchanged: an output that was made from two versions of   *)
(* an input is never reported as a success.                                *)
SuccessMeansConsistent ==
  exit = "Success" => \A i \in Input : Cardinality(seen[i]) = 1

(* The comment in link_for_arch: "We want inputs-changed errors to take    *)
(* precedence over all other errors". An error that a change of a file in  *)
(* loaded_files may have caused is not shown as another one, wherever in   *)
(* resolution, layout or writing it occurs. *)
ChangedInputsReported ==
  reported # None /\ (\E i \in loaded : \E v \in seen[i] : v # recorded[i]) => reported = "Changed"

(* The same for every file that was opened, as the comment reads. It does  *)
(* not hold: a file whose own parsing failed, and those after it, are not  *)
(* in loaded_files.                                                        *)
ChangedOpenedInputsReported ==
  reported # None /\ (\E i \in Input : \E v \in seen[i] : v # recorded[i]) => reported = "Changed"

(* --fatal-warnings, "Treat linker warnings as errors". *)
FatalWarningsFail == exit = "Success" => ~(options.fatalWarnings /\ warned)

(* The documentation of FileReplacementMode: with UnlinkAndReplace, hard   *)
(* links to the old file are not affected; with UpdateInPlace they are     *)
(* updated; a file in use is never written to.                             *)
ReplacementModeRespected ==
  /\ options.mode = "UnlinkAndReplace" \/ options.busy => content["Old"] = "Original"
  /\ exit = "Success" /\ options.mode = "UpdateInPlace" /\ options.exists => output = "Old"

(* Once the invocation has reported success, the cleaning up that goes on  *)
(* in the child does not touch the output. *)
SuccessIsFinal == [][exit = "Success" => UNCHANGED <<output, content, mapped>>]_vars

(* The invocation ends, whichever of its processes and threads fail. *)
Terminates == <>(exit # "Running")

==========================================================================
