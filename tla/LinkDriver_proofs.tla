------------------------- MODULE LinkDriver_proofs -------------------------
(***************************************************************************)
(* Proofs about LinkDriver, for any number of input files and changes.     *)
(***************************************************************************)
EXTENDS LinkDriver, TLAPS, FiniteSetTheorems

(* The parts of TypeOK: the inputs, the processes and the output file. *)
InputTypes ==
  /\ options \in Options
  /\ version \in [Input -> Version]
  /\ recorded \in [Input -> Version \cup {NotOpened}]
  /\ seen \in [Input -> SUBSET Version]
  /\ warned \in BOOLEAN
  /\ files \in [Input -> FileState]
  /\ loaded \in SUBSET Input

ProcessTypes ==
  /\ step \in Step
  /\ linker \in {None, "Child", "InProcess"}
  /\ result \in {None, "Ok", "Err"}
  /\ reported \in {None, "Link", "Changed", "Warnings"}
  /\ child \in Status /\ exit \in Status
  /\ pipe \in {"Empty", "Byte"}
  /\ writers \in SUBSET {"Parent", "Child"}

OutputTypes ==
  /\ creator \in {"Idle", "Rename", "Open", "Done"}
  /\ channel \in {"Empty", "Ok", "Err"}
  /\ remover \in {"Idle", "Remove", "Done"}
  /\ output \in Inode \cup {None} /\ aside \in Inode \cup {None} /\ handle \in Inode \cup {None}
  /\ mapped \in BOOLEAN
  /\ mapped => handle # None
  /\ content \in [Inode -> {"Original", "Blank", "Stale", "Complete"}]

LEMMA TypeParts == TypeOK <=> InputTypes /\ ProcessTypes /\ OutputTypes
  BY DEF TypeOK, InputTypes, ProcessTypes, OutputTypes

(* The variables are well typed initially. *)
LEMMA TypeInit == Init => TypeOK
<1> SUFFICES ASSUME Init PROVE TypeOK
  OBVIOUS
<1>1. InputTypes
  <2>1. version \in [Input -> Version] /\ recorded \in [Input -> Version \cup {NotOpened}]
    BY DriverAssumption DEF Init, Version
  <2>2. options \in Options /\ warned \in BOOLEAN
    BY DEF Init
  <2>3. seen \in [Input -> SUBSET Version] /\ files \in [Input -> FileState] /\ loaded \in SUBSET Input
    BY DEF Init, FileState
  <2> QED BY <2>1, <2>2, <2>3 DEF InputTypes
<1>2. ProcessTypes
  BY DEF Init, ProcessTypes, Status, Step, None
<1>3. OutputTypes
  BY DEF Init, OutputTypes, Inode, None
<1> QED BY <1>1, <1>2, <1>3, TypeParts

(* The versions of an input that were read are versions. *)
LEMMA ReadType ==
  TypeOK /\ ReadInputs => seen' \in [Input -> SUBSET Version]
  BY DEF TypeOK, ReadInputs, Version, NotOpened

(* Every step keeps them so. *)
LEMMA TypeStep ==
  TypeOK /\ [Next]_vars => TypeOK'
<1> SUFFICES ASSUME TypeOK, [Next]_vars PROVE TypeOK'
  OBVIOUS
<1> InputTypes /\ ProcessTypes /\ OutputTypes
  BY TypeParts
<1>a. SUFFICES InputTypes' /\ ProcessTypes' /\ OutputTypes'
  BY DEF TypeOK, InputTypes, ProcessTypes, OutputTypes
<1> USE DEF vars, inputVars, loadVars, processVars, pipeVars, fileVars, FileState, Status, Step, Inode, None, Version, NotOpened
<1>1. CASE Fork
  <2>1. InputTypes'
    BY <1>1 DEF InputTypes, Fork, EndProcess
  <2>2. ProcessTypes'
    BY <1>1 DEF ProcessTypes, Fork, EndProcess
  <2>3. OutputTypes'
    BY <1>1 DEF OutputTypes, Fork, EndProcess
  <2> QED BY <2>1, <2>2, <2>3
<1>2. CASE ReadPipe
  <2>1. InputTypes'
    BY <1>2 DEF InputTypes, ReadPipe
  <2>2. ProcessTypes'
    BY <1>2 DEF ProcessTypes, ReadPipe
  <2>3. OutputTypes'
    BY <1>2 DEF OutputTypes, ReadPipe
  <2> QED BY <2>1, <2>2, <2>3
<1>3. CASE WaitForChild
  <2>1. InputTypes'
    BY <1>3 DEF InputTypes, WaitForChild, ExitCode
  <2>2. ProcessTypes'
    BY <1>3 DEF ProcessTypes, WaitForChild, ExitCode
  <2>3. OutputTypes'
    BY <1>3 DEF OutputTypes, WaitForChild, ExitCode
  <2> QED BY <2>1, <2>2, <2>3
<1>4. CASE ResolveAndLayout
  <2>1. warned' \in BOOLEAN
    BY <1>4, Zenon DEF ResolveAndLayout, InputTypes
  <2>2. InputTypes'
    BY <1>4, <2>1, ReadType DEF InputTypes, ResolveAndLayout
  <2>3. ProcessTypes'
    BY <1>4 DEF ProcessTypes, ResolveAndLayout
  <2>4. OutputTypes'
    BY <1>4 DEF OutputTypes, ResolveAndLayout
  <2> QED BY <2>2, <2>3, <2>4
<1>5. CASE LinkError
  <2>1. InputTypes'
    BY <1>5 DEF InputTypes, LinkError, Fail, ReadInputs
  <2>2. ProcessTypes'
    BY <1>5 DEF ProcessTypes, LinkError, Fail, ReadInputs
  <2>3. OutputTypes'
    BY <1>5 DEF OutputTypes, LinkError, Fail, ReadInputs
  <2> QED BY <2>1, <2>2, <2>3
<1>6. CASE SetSize
  <2>1. InputTypes'
    BY <1>6 DEF InputTypes, SetSize, Fail
  <2>2. ProcessTypes'
    BY <1>6 DEF ProcessTypes, SetSize, Fail
  <2>3. OutputTypes'
    BY <1>6 DEF OutputTypes, SetSize, Fail
  <2> QED BY <2>1, <2>2, <2>3
<1>7. CASE DeleteOldOutput
  <2>1. InputTypes'
    BY <1>7 DEF InputTypes, DeleteOldOutput
  <2>2. ProcessTypes'
    BY <1>7 DEF ProcessTypes, DeleteOldOutput
  <2>3. OutputTypes'
    BY <1>7 DEF OutputTypes, DeleteOldOutput
  <2> QED BY <2>1, <2>2, <2>3
<1>8. CASE CreateFile
  <2>1. InputTypes'
    BY <1>8 DEF InputTypes, CreateFile, CreateOutput, CreateOutputFails, OpenOutput, Fail
  <2>2. ProcessTypes'
    BY <1>8 DEF ProcessTypes, CreateFile, CreateOutput, CreateOutputFails, OpenOutput, Fail
  <2>3. OutputTypes'
    BY <1>8 DEF OutputTypes, CreateFile, CreateOutput, CreateOutputFails, OpenOutput, Fail
  <2> QED BY <2>1, <2>2, <2>3
<1>9. CASE ReceiveOutput
  <2>1. InputTypes'
    BY <1>9 DEF InputTypes, ReceiveOutput, Fail
  <2>2. ProcessTypes'
    BY <1>9 DEF ProcessTypes, ReceiveOutput, Fail
  <2>3. OutputTypes'
    BY <1>9 DEF OutputTypes, ReceiveOutput, Fail
  <2> QED BY <2>1, <2>2, <2>3
<1>10. CASE WriteOutput
  <2>1. content' \in [Inode -> {"Original", "Blank", "Stale", "Complete"}]
    BY <1>10 DEF WriteOutput, OutputTypes
  <2>2. mapped' \in BOOLEAN /\ (mapped' => mapped) /\ handle' = handle
    <3>1. mapped' = FALSE \/ UNCHANGED mapped
      BY <1>10 DEF WriteOutput, OutputTypes
    <3>2. mapped \in BOOLEAN /\ handle' = handle
      BY <1>10 DEF WriteOutput, OutputTypes
    <3>3. CASE mapped' = FALSE
      BY <3>2, <3>3, Zenon
    <3>4. CASE UNCHANGED mapped
      BY <3>2, <3>4, Zenon
    <3> QED BY <3>1, <3>3, <3>4, Zenon
  <2>3. step' \in Step /\ result' \in {None, "Ok", "Err"}
    BY <1>10 DEF WriteOutput, Fail, ProcessTypes
  <2>4. UNCHANGED <<linker, reported, child, pipeVars, exit, options, version, loadVars, warned,
                 creator, channel, remover, output, aside>>
    BY <1>10 DEF WriteOutput, Fail
  <2>5. seen' \in [Input -> SUBSET Version]
    BY <1>10, ReadType DEF WriteOutput
  <2> HIDE DEF Step
  <2>6. InputTypes'
    BY <2>4, <2>5 DEF InputTypes
  <2>7. ProcessTypes'
    BY <2>3, <2>4 DEF ProcessTypes
  <2>8. OutputTypes'
    BY <2>1, <2>2, <2>4 DEF OutputTypes
  <2> QED BY <2>6, <2>7, <2>8
<1>11. CASE FlushOutput
  <2>1. content' \in [Inode -> {"Original", "Blank", "Stale", "Complete"}]
    BY <1>11 DEF FlushOutput, OutputTypes
  <2>2. mapped' \in BOOLEAN /\ (mapped' => mapped) /\ handle' = handle
    BY <1>11, Zenon DEF FlushOutput, OutputTypes
  <2>3. step' \in Step /\ result' \in {None, "Ok", "Err"}
    BY <1>11 DEF FlushOutput, Fail, ProcessTypes
  <2>4. UNCHANGED <<linker, reported, child, pipeVars, exit, options, version, loadVars, warned,
                 creator, channel, remover, output, aside>>
    BY <1>11 DEF FlushOutput, Fail
  <2>5. seen' \in [Input -> SUBSET Version]
    BY <1>11 DEF FlushOutput, InputTypes
  <2> HIDE DEF Step
  <2>6. InputTypes'
    BY <2>4, <2>5 DEF InputTypes
  <2>7. ProcessTypes'
    BY <2>3, <2>4 DEF ProcessTypes
  <2>8. OutputTypes'
    BY <2>1, <2>2, <2>4 DEF OutputTypes
  <2> QED BY <2>6, <2>7, <2>8
<1>12. CASE VerifyInputsUnchanged
  <2>1. InputTypes'
    BY <1>12 DEF InputTypes, VerifyInputsUnchanged, EndProcess
  <2>2. ProcessTypes'
    BY <1>12 DEF ProcessTypes, VerifyInputsUnchanged, EndProcess
  <2>3. OutputTypes'
    BY <1>12 DEF OutputTypes, VerifyInputsUnchanged, EndProcess
  <2> QED BY <2>1, <2>2, <2>3
<1>13. CASE WriteDependencyFile
  <2>1. InputTypes'
    BY <1>13 DEF InputTypes, WriteDependencyFile, EndProcess
  <2>2. ProcessTypes'
    BY <1>13 DEF ProcessTypes, WriteDependencyFile, EndProcess
  <2>3. OutputTypes'
    BY <1>13 DEF OutputTypes, WriteDependencyFile, EndProcess
  <2> QED BY <2>1, <2>2, <2>3
<1>14. CASE NotifyDone
  <2>1. InputTypes'
    BY <1>14 DEF InputTypes, NotifyDone
  <2>2. ProcessTypes'
    BY <1>14 DEF ProcessTypes, NotifyDone
  <2>3. OutputTypes'
    BY <1>14 DEF OutputTypes, NotifyDone
  <2> QED BY <2>1, <2>2, <2>3
<1>15. CASE Shutdown
  <2>1. InputTypes'
    BY <1>15 DEF InputTypes, Shutdown, EndProcess
  <2>2. ProcessTypes'
    BY <1>15 DEF ProcessTypes, Shutdown, EndProcess
  <2>3. OutputTypes'
    BY <1>15 DEF OutputTypes, Shutdown, EndProcess
  <2> QED BY <2>1, <2>2, <2>3
<1>16. CASE CheckWarnings
  <2>1. InputTypes'
    BY <1>16 DEF InputTypes, CheckWarnings, EndProcess
  <2>2. ProcessTypes'
    BY <1>16 DEF ProcessTypes, CheckWarnings, EndProcess
  <2>3. OutputTypes'
    BY <1>16 DEF OutputTypes, CheckWarnings, EndProcess
  <2> QED BY <2>1, <2>2, <2>3
<1>17. CASE RenameOld
  <2>1. InputTypes'
    BY <1>17 DEF InputTypes, RenameOld
  <2>2. ProcessTypes'
    BY <1>17 DEF ProcessTypes, RenameOld
  <2>3. OutputTypes'
    BY <1>17 DEF OutputTypes, RenameOld
  <2> QED BY <2>1, <2>2, <2>3
<1>18. CASE SendOutput
  <2>1. InputTypes'
    BY <1>18 DEF InputTypes, SendOutput, CreateOutput, CreateOutputFails, OpenOutput
  <2>2. ProcessTypes'
    BY <1>18 DEF ProcessTypes, SendOutput, CreateOutput, CreateOutputFails, OpenOutput
  <2>3. OutputTypes'
    BY <1>18 DEF OutputTypes, SendOutput, CreateOutput, CreateOutputFails, OpenOutput
  <2> QED BY <2>1, <2>2, <2>3
<1>19. CASE RemoveOld
  <2>1. InputTypes'
    BY <1>19 DEF InputTypes, RemoveOld
  <2>2. ProcessTypes'
    BY <1>19 DEF ProcessTypes, RemoveOld
  <2>3. OutputTypes'
    BY <1>19 DEF OutputTypes, RemoveOld
  <2> QED BY <2>1, <2>2, <2>3
<1>20. CASE Kill
  <2>1. InputTypes'
    BY <1>20 DEF InputTypes, Kill, EndProcess
  <2>2. ProcessTypes'
    BY <1>20 DEF ProcessTypes, Kill, EndProcess
  <2>3. OutputTypes'
    BY <1>20 DEF OutputTypes, Kill, EndProcess
  <2> QED BY <2>1, <2>2, <2>3
<1>21. ASSUME NEW i \in Input, OpenInput(i) PROVE InputTypes' /\ ProcessTypes' /\ OutputTypes'
  <2>1. InputTypes'
    BY <1>21 DEF InputTypes, OpenInput
  <2>2. ProcessTypes'
    BY <1>21 DEF ProcessTypes, OpenInput
  <2>3. OutputTypes'
    BY <1>21 DEF OutputTypes, OpenInput
  <2> QED BY <2>1, <2>2, <2>3
<1>22. ASSUME NEW i \in Input, ChangeInput(i) PROVE InputTypes' /\ ProcessTypes' /\ OutputTypes'
  <2>1. InputTypes'
    BY <1>22, DriverAssumption DEF InputTypes, ChangeInput
  <2>2. ProcessTypes'
    BY <1>22 DEF ProcessTypes, ChangeInput
  <2>3. OutputTypes'
    BY <1>22 DEF OutputTypes, ChangeInput
  <2> QED BY <2>1, <2>2, <2>3
<1>23. CASE LoadInputs
  <2>1. InputTypes'
    BY <1>23 DEF InputTypes, LoadInputs
  <2>2. ProcessTypes'
    BY <1>23 DEF ProcessTypes, LoadInputs
  <2>3. OutputTypes'
    BY <1>23 DEF OutputTypes, LoadInputs
  <2> QED BY <2>1, <2>2, <2>3
<1>24. ASSUME NEW i \in Input, ParseInput(i) PROVE InputTypes' /\ ProcessTypes' /\ OutputTypes'
  <2>1. InputTypes'
    BY <1>24 DEF InputTypes, ParseInput
  <2>2. ProcessTypes'
    BY <1>24 DEF ProcessTypes, ParseInput
  <2>3. OutputTypes'
    BY <1>24 DEF OutputTypes, ParseInput
  <2> QED BY <2>1, <2>2, <2>3
<1>25. CASE ExtractAll
  <2>1. InputTypes'
    BY <1>25 DEF InputTypes, ExtractAll, Fail
  <2>2. ProcessTypes'
    BY <1>25 DEF ProcessTypes, ExtractAll, Fail
  <2>3. OutputTypes'
    BY <1>25 DEF OutputTypes, ExtractAll, Fail
  <2> QED BY <2>1, <2>2, <2>3
<1>26. CASE UNCHANGED vars
  <2>1. InputTypes'
    BY <1>26 DEF InputTypes
  <2>2. ProcessTypes'
    BY <1>26 DEF ProcessTypes
  <2>3. OutputTypes'
    BY <1>26 DEF OutputTypes
  <2> QED BY <2>1, <2>2, <2>3
<1> QED
  BY <1>1, <1>2, <1>3, <1>4, <1>5, <1>6, <1>7, <1>8, <1>9, <1>10, <1>11, <1>12,
     <1>13, <1>14, <1>15, <1>16, <1>17, <1>18, <1>19, <1>20, <1>21, <1>22, <1>23, <1>24, <1>25, <1>26
  DEF Next, ParentStep, LinkerStep, CreatorStep, Finished

(* The variables have their types and a mapped file is open, whatever the  *)
(* interleaving of the processes and the tasks.                            *)
THEOREM DriverTypeCorrect == Spec => []TypeOK
  BY TypeInit, TypeStep, PTL DEF Spec

---------------------------------------------------------------------------
(* The processes.                                                          *)

Early == {"Fork", "Load", "Open", "Link", "Layout"}
Verified == {"DependencyFile", "Notify", "Warnings", "Shutdown"}

(* Where the processes are: who has ended, and who is still to be told.    *)
ProcessInv ==
  /\ step = "Fork" => linker = None
  /\ linker = "Child" => options.fork
  /\ step \in {"Notify", "Shutdown"} => linker = "Child"
  /\ step = "Warnings" => linker # "Child"
  /\ step # "Ended" => child = "Running" /\ reported = None
  /\ pipe = "Byte" => step \in {"Shutdown", "Ended"}
  /\ linker = "Child" /\ writers = {} => step \in {"Shutdown", "Ended"}
  /\ writers \subseteq {"Child"}
  /\ exit # "Running" /\ linker # "Child" => step = "Ended"
  /\ exit # "Running" /\ linker = "Child" => pipe = "Byte" \/ writers = {}
  /\ linker # "Child" => pipe = "Empty" /\ writers = {} /\ child = "Running"

LEMMA ProcessInit == Init => ProcessInv
  BY DEF Init, ProcessInv, None

(* Every step keeps the processes in order. *)
LEMMA ProcessStep ==
  TypeOK /\ ProcessInv /\ [Next]_vars => ProcessInv'
<1> SUFFICES ASSUME TypeOK, ProcessInv, [Next]_vars PROVE ProcessInv'
  OBVIOUS
<1> USE DEF vars, inputVars, loadVars, processVars, pipeVars, fileVars, TypeOK, ProcessInv, Status, Step, None
<1>1. CASE Fork
  BY <1>1 DEF Fork, EndProcess
<1>2. CASE ReadPipe
  BY <1>2 DEF ReadPipe
<1>3. CASE WaitForChild
  BY <1>3 DEF WaitForChild, ExitCode
<1>4. CASE ResolveAndLayout
  BY <1>4 DEF ResolveAndLayout, ReadInputs
<1>5. CASE LinkError
  BY <1>5 DEF LinkError, Fail, ReadInputs
<1>6. CASE SetSize
  BY <1>6 DEF SetSize, Fail
<1>7. CASE DeleteOldOutput
  BY <1>7 DEF DeleteOldOutput
<1>8. CASE CreateFile
  BY <1>8 DEF CreateFile, CreateOutput, CreateOutputFails, OpenOutput, Fail
<1>9. CASE ReceiveOutput
  BY <1>9 DEF ReceiveOutput, Fail
<1>10. CASE WriteOutput
  BY <1>10 DEF WriteOutput, ReadInputs, Fail
<1>11. CASE FlushOutput
  BY <1>11 DEF FlushOutput, Fail
<1>12. CASE VerifyInputsUnchanged
  BY <1>12 DEF VerifyInputsUnchanged, EndProcess
<1>13. CASE WriteDependencyFile
  BY <1>13 DEF WriteDependencyFile, EndProcess
<1>14. CASE NotifyDone
  BY <1>14 DEF NotifyDone
<1>15. CASE Shutdown
  BY <1>15 DEF Shutdown, EndProcess
<1>16. CASE CheckWarnings
  BY <1>16 DEF CheckWarnings, EndProcess
<1>17. CASE RenameOld
  BY <1>17 DEF RenameOld
<1>18. CASE SendOutput
  BY <1>18 DEF SendOutput, CreateOutput, CreateOutputFails, OpenOutput
<1>19. CASE RemoveOld
  BY <1>19 DEF RemoveOld
<1>20. CASE Kill
  BY <1>20 DEF Kill, EndProcess
<1>21. ASSUME NEW i \in Input, OpenInput(i) PROVE ProcessInv'
  BY <1>21 DEF OpenInput
<1>22. ASSUME NEW i \in Input, ChangeInput(i) PROVE ProcessInv'
  BY <1>22 DEF ChangeInput
<1>23. CASE LoadInputs
  BY <1>23 DEF LoadInputs
<1>24. ASSUME NEW i \in Input, ParseInput(i) PROVE ProcessInv'
  BY <1>24 DEF ParseInput
<1>25. CASE ExtractAll
  BY <1>25 DEF ExtractAll, Fail
<1>26. CASE UNCHANGED vars
  BY <1>26
<1> QED
  BY <1>1, <1>2, <1>3, <1>4, <1>5, <1>6, <1>7, <1>8, <1>9, <1>10, <1>11, <1>12,
     <1>13, <1>14, <1>15, <1>16, <1>17, <1>18, <1>19, <1>20, <1>21, <1>22, <1>23, <1>24, <1>25, <1>26
  DEF Next, ParentStep, LinkerStep, CreatorStep, Finished

---------------------------------------------------------------------------
(* The output file.                                                        *)

(* The link has been done: by what the linking process does next, or by    *)
(* what it told its parent.                                                *)
Succeeded ==
  \/ step \in Verified \/ (step = "Verify" /\ result = "Ok")
  \/ exit = "Success" \/ child = "Success" \/ pipe = "Byte"

(* The file is created once, by the background task or by the linking      *)
(* process, and the one that is written is the one at the output path.     *)
OutputInv ==
  /\ step \in Early \cup {"DeleteOld", "Create"} => creator = "Idle" /\ channel = "Empty"
  /\ creator \in {"Idle", "Rename", "Open"} => channel = "Empty"
  /\ step \in {"Write", "Flush"} \/ channel = "Ok" => handle # None /\ output = handle
  /\ step \in {"Write", "Flush"} => creator \in {"Idle", "Done"}
  /\ step \in {"Receive", "Write", "Flush"} \cup Early \cup {"DeleteOld", "Create"} => result = None
  /\ step \in Verified => result = "Ok"
  /\ step = "Verify" => result # None
  /\ child # "Signal"

(* What makes success hold: the output is complete and nobody writes it.   *)
SuccessInv ==
  Succeeded => /\ output # None /\ content[output] = "Complete" /\ ~mapped
               /\ creator \in {"Idle", "Done"}
               /\ step \in Verified \cup {"Verify", "Ended"}

LEMMA OutputInit == Init => OutputInv /\ SuccessInv
  BY DEF Init, OutputInv, SuccessInv, Succeeded, Verified, None

(* Every step keeps the file that is written at the output path, if no     *)
(* child is killed.                                                        *)
LEMMA OutputStep ==
  "Child" \notin Killable /\ TypeOK /\ ProcessInv /\ OutputInv /\ [Next]_vars => OutputInv'
<1> SUFFICES ASSUME "Child" \notin Killable, TypeOK, ProcessInv, OutputInv, [Next]_vars PROVE OutputInv'
  OBVIOUS
<1> USE DEF vars, inputVars, loadVars, processVars, pipeVars, fileVars, TypeOK, ProcessInv, OutputInv, Status, Step, None, Inode, Early, Verified, Alive
<1>1. CASE Fork
  BY <1>1 DEF Fork, EndProcess
<1>2. CASE ReadPipe
  BY <1>2 DEF ReadPipe
<1>3. CASE WaitForChild
  BY <1>3 DEF WaitForChild, ExitCode
<1>4. CASE ResolveAndLayout
  BY <1>4 DEF ResolveAndLayout, ReadInputs
<1>5. CASE LinkError
  BY <1>5 DEF LinkError, Fail, ReadInputs
<1>6. CASE SetSize
  BY <1>6 DEF SetSize, Fail
<1>7. CASE DeleteOldOutput
  BY <1>7 DEF DeleteOldOutput
<1>8. CASE CreateFile
  BY <1>8 DEF CreateFile, CreateOutput, CreateOutputFails, OpenOutput, Fail
<1>9. CASE ReceiveOutput
  BY <1>9 DEF ReceiveOutput, Fail
<1>10. CASE WriteOutput
  BY <1>10 DEF WriteOutput, ReadInputs, Fail
<1>11. CASE FlushOutput
  BY <1>11 DEF FlushOutput, Fail
<1>12. CASE VerifyInputsUnchanged
  BY <1>12 DEF VerifyInputsUnchanged, EndProcess
<1>13. CASE WriteDependencyFile
  BY <1>13 DEF WriteDependencyFile, EndProcess
<1>14. CASE NotifyDone
  BY <1>14 DEF NotifyDone
<1>15. CASE Shutdown
  BY <1>15 DEF Shutdown, EndProcess
<1>16. CASE CheckWarnings
  BY <1>16 DEF CheckWarnings, EndProcess
<1>17. CASE RenameOld
  BY <1>17 DEF RenameOld
<1>18. CASE SendOutput
  BY <1>18 DEF SendOutput, CreateOutput, CreateOutputFails, OpenOutput
<1>19. CASE RemoveOld
  BY <1>19 DEF RemoveOld
<1>20. CASE Kill
  BY <1>20 DEF Kill, EndProcess
<1>21. ASSUME NEW i \in Input, OpenInput(i) PROVE OutputInv'
  BY <1>21 DEF OpenInput
<1>22. ASSUME NEW i \in Input, ChangeInput(i) PROVE OutputInv'
  BY <1>22 DEF ChangeInput
<1>23. CASE LoadInputs
  BY <1>23 DEF LoadInputs
<1>24. ASSUME NEW i \in Input, ParseInput(i) PROVE OutputInv'
  BY <1>24 DEF ParseInput
<1>25. CASE ExtractAll
  BY <1>25 DEF ExtractAll, Fail
<1>26. CASE UNCHANGED vars
  BY <1>26
<1> QED
  BY <1>1, <1>2, <1>3, <1>4, <1>5, <1>6, <1>7, <1>8, <1>9, <1>10, <1>11, <1>12,
     <1>13, <1>14, <1>15, <1>16, <1>17, <1>18, <1>19, <1>20, <1>21, <1>22, <1>23, <1>24, <1>25, <1>26
  DEF Next, ParentStep, LinkerStep, CreatorStep, Finished

(* Every step of a link that was done leaves the output alone.             *)
LEMMA SuccessStep ==
  "Child" \notin Killable /\ TypeOK /\ ProcessInv /\ OutputInv /\ SuccessInv /\ [Next]_vars => SuccessInv'
<1> SUFFICES ASSUME "Child" \notin Killable, TypeOK, ProcessInv, OutputInv, SuccessInv, [Next]_vars PROVE SuccessInv'
  OBVIOUS
<1> USE DEF vars, inputVars, loadVars, processVars, pipeVars, fileVars, TypeOK, ProcessInv, OutputInv, SuccessInv, Succeeded, Status, Step, None, Inode, Early, Verified, Alive
<1>1. CASE Fork
  BY <1>1 DEF Fork, EndProcess
<1>2. CASE ReadPipe
  BY <1>2 DEF ReadPipe
<1>3. CASE WaitForChild
  BY <1>3 DEF WaitForChild, ExitCode
<1>4. CASE ResolveAndLayout
  BY <1>4 DEF ResolveAndLayout, ReadInputs
<1>5. CASE LinkError
  BY <1>5 DEF LinkError, Fail, ReadInputs
<1>6. CASE SetSize
  BY <1>6 DEF SetSize, Fail
<1>7. CASE DeleteOldOutput
  BY <1>7 DEF DeleteOldOutput
<1>8. CASE CreateFile
  BY <1>8 DEF CreateFile, CreateOutput, CreateOutputFails, OpenOutput, Fail
<1>9. CASE ReceiveOutput
  BY <1>9 DEF ReceiveOutput, Fail
<1>10. CASE WriteOutput
  BY <1>10 DEF WriteOutput, ReadInputs, Fail
<1>11. CASE FlushOutput
  BY <1>11 DEF FlushOutput, Fail
<1>12. CASE VerifyInputsUnchanged
  BY <1>12 DEF VerifyInputsUnchanged, EndProcess
<1>13. CASE WriteDependencyFile
  BY <1>13 DEF WriteDependencyFile, EndProcess
<1>14. CASE NotifyDone
  BY <1>14 DEF NotifyDone
<1>15. CASE Shutdown
  BY <1>15 DEF Shutdown, EndProcess
<1>16. CASE CheckWarnings
  BY <1>16 DEF CheckWarnings, EndProcess
<1>17. CASE RenameOld
  BY <1>17 DEF RenameOld
<1>18. CASE SendOutput
  BY <1>18 DEF SendOutput, CreateOutput, CreateOutputFails, OpenOutput
<1>19. CASE RemoveOld
  BY <1>19 DEF RemoveOld
<1>20. CASE Kill
  BY <1>20 DEF Kill, EndProcess
<1>21. ASSUME NEW i \in Input, OpenInput(i) PROVE SuccessInv'
  BY <1>21 DEF OpenInput
<1>22. ASSUME NEW i \in Input, ChangeInput(i) PROVE SuccessInv'
  BY <1>22 DEF ChangeInput
<1>23. CASE LoadInputs
  BY <1>23 DEF LoadInputs
<1>24. ASSUME NEW i \in Input, ParseInput(i) PROVE SuccessInv'
  BY <1>24 DEF ParseInput
<1>25. CASE ExtractAll
  BY <1>25 DEF ExtractAll, Fail
<1>26. CASE UNCHANGED vars
  BY <1>26
<1> QED
  BY <1>1, <1>2, <1>3, <1>4, <1>5, <1>6, <1>7, <1>8, <1>9, <1>10, <1>11, <1>12,
     <1>13, <1>14, <1>15, <1>16, <1>17, <1>18, <1>19, <1>20, <1>21, <1>22, <1>23, <1>24, <1>25, <1>26
  DEF Next, ParentStep, LinkerStep, CreatorStep, Finished


(* An invocation whose child is not killed and that succeeds leaves a      *)
(* complete output, which is not mapped any more.                          *)
THEOREM DriverSuccessMeansComplete ==
  ASSUME "Child" \notin Killable
  PROVE  Spec => []SuccessMeansComplete
<1>1. TypeOK /\ ProcessInv /\ OutputInv /\ SuccessInv /\ [Next]_vars
        => (TypeOK /\ ProcessInv /\ OutputInv /\ SuccessInv)'
  BY TypeStep, ProcessStep, OutputStep, SuccessStep
<1>2. SuccessInv => SuccessMeansComplete
  BY DEF SuccessInv, Succeeded, SuccessMeansComplete
<1> QED
  BY <1>1, <1>2, TypeInit, ProcessInit, OutputInit, PTL DEF Spec

(* Nothing touches the output of such an invocation after it reported      *)
(* success, whatever the child still does.                                 *)
THEOREM DriverSuccessIsFinal ==
  ASSUME "Child" \notin Killable
  PROVE  Spec => SuccessIsFinal
<1>1. TypeOK /\ ProcessInv /\ OutputInv /\ SuccessInv /\ [Next]_vars
        => (TypeOK /\ ProcessInv /\ OutputInv /\ SuccessInv)'
  BY TypeStep, ProcessStep, OutputStep, SuccessStep
<1>2. TypeOK /\ SuccessInv /\ [Next]_vars
        => [exit = "Success" => UNCHANGED <<output, content, mapped>>]_vars
  <2> SUFFICES ASSUME TypeOK, SuccessInv, Next, exit = "Success"
               PROVE  UNCHANGED <<output, content, mapped>>
    OBVIOUS
  <2>1. creator \in {"Idle", "Done"} /\ step \in Verified \cup {"Verify", "Ended"}
    BY DEF SuccessInv, Succeeded
  <2>2. CASE ParentStep
    BY <2>2 DEF ParentStep, Fork, ReadPipe, WaitForChild, fileVars
  <2>3. CASE LinkerStep
    BY <2>1, <2>3
    DEF LinkerStep, Verified, LoadInputs, OpenInput, ParseInput, ExtractAll, ResolveAndLayout, LinkError, SetSize, DeleteOldOutput,
        CreateFile, ReceiveOutput, WriteOutput, FlushOutput, VerifyInputsUnchanged,
        WriteDependencyFile, NotifyDone, Shutdown, CheckWarnings, fileVars
  <2>4. CASE CreatorStep \/ RemoveOld
    BY <2>1, <2>4 DEF CreatorStep, RenameOld, SendOutput, RemoveOld
  <2>5. CASE Kill \/ (\E i \in Input : ChangeInput(i)) \/ Finished
    BY <2>5 DEF Kill, ChangeInput, Finished, vars, fileVars
  <2> QED BY <2>2, <2>3, <2>4, <2>5 DEF Next
<1> QED
  BY <1>1, <1>2, TypeInit, ProcessInit, OutputInit, PTL DEF Spec, SuccessIsFinal

---------------------------------------------------------------------------
(* The input files.                                                        *)

(* What was read of an input file was there when it was opened or was      *)
(* written later; the linking starts when all were loaded, and what was    *)
(* verified was read at one version.                                       *)
InputInv ==
  /\ \A i \in Input : files[i] = "Unopened" => recorded[i] = NotOpened
  /\ \A i \in Input : files[i] \in {"Opened", "Parsed"} => recorded[i] # NotOpened
  /\ \A i \in Input : recorded[i] <= version[i]
  /\ \A i \in Input : \A v \in seen[i] :
       recorded[i] # NotOpened /\ recorded[i] <= v /\ v <= version[i]
  /\ step \in {"Fork", "Load"} => \A i \in Input : files[i] = "Unopened"
  /\ step \in {"Fork", "Load", "Open"} => loaded = {}
  /\ step \in {"Link", "Layout", "DeleteOld", "Create", "Receive", "Write", "Flush"}
     \/ (step = "Verify" /\ result = "Ok") =>
       loaded = Input /\ \A i \in Input : recorded[i] # NotOpened
  /\ step = "Flush" \/ (step = "Verify" /\ result = "Ok") => \A i \in Input : seen[i] # {}
  /\ step \in Verified \/ exit = "Success" \/ child = "Success" \/ pipe = "Byte" =>
       \A i \in Input : seen[i] = {recorded[i]}
  /\ reported \in {"Link", "Warnings"} => \A i \in loaded : \A v \in seen[i] : v = recorded[i]

LEMMA InputInit == Init => InputInv
  BY DEF Init, InputInv, Verified, NotOpened, None

(* Every step keeps the account of the inputs. *)
LEMMA InputStep ==
  "Child" \notin Killable /\ TypeOK /\ ProcessInv /\ OutputInv /\ InputInv /\ [Next]_vars => InputInv'
<1> SUFFICES ASSUME "Child" \notin Killable, TypeOK, ProcessInv, OutputInv, InputInv, [Next]_vars PROVE InputInv'
  OBVIOUS
<1> USE DEF vars, inputVars, loadVars, processVars, pipeVars, fileVars, TypeOK, ProcessInv, OutputInv, InputInv, Version, NotOpened, Status, Step, None, Early, Verified
<1>1. CASE Fork
  BY <1>1, DriverAssumption DEF Fork, EndProcess
<1>2. CASE ReadPipe
  BY <1>2, DriverAssumption DEF ReadPipe
<1>3. CASE WaitForChild
  BY <1>3, DriverAssumption DEF WaitForChild, ExitCode
<1>4. CASE ResolveAndLayout
  BY <1>4, DriverAssumption DEF ResolveAndLayout, ReadInputs
<1>5. CASE LinkError
  BY <1>5, DriverAssumption DEF LinkError, Fail, ReadInputs
<1>6. CASE SetSize
  BY <1>6, DriverAssumption DEF SetSize, Fail
<1>7. CASE DeleteOldOutput
  BY <1>7, DriverAssumption DEF DeleteOldOutput
<1>8. CASE CreateFile
  BY <1>8, DriverAssumption DEF CreateFile, CreateOutput, CreateOutputFails, OpenOutput, Fail
<1>9. CASE ReceiveOutput
  BY <1>9, DriverAssumption DEF ReceiveOutput, Fail
<1>10. CASE WriteOutput
  BY <1>10, DriverAssumption DEF WriteOutput, ReadInputs, Fail
<1>11. CASE FlushOutput
  BY <1>11, DriverAssumption DEF FlushOutput, Fail
<1>12. CASE VerifyInputsUnchanged
  BY <1>12, DriverAssumption DEF VerifyInputsUnchanged, EndProcess
<1>13. CASE WriteDependencyFile
  BY <1>13, DriverAssumption DEF WriteDependencyFile, EndProcess
<1>14. CASE NotifyDone
  BY <1>14, DriverAssumption DEF NotifyDone
<1>15. CASE Shutdown
  BY <1>15, DriverAssumption DEF Shutdown, EndProcess
<1>16. CASE CheckWarnings
  BY <1>16, DriverAssumption DEF CheckWarnings, EndProcess
<1>17. CASE RenameOld
  BY <1>17, DriverAssumption DEF RenameOld
<1>18. CASE SendOutput
  BY <1>18, DriverAssumption DEF SendOutput, CreateOutput, CreateOutputFails, OpenOutput
<1>19. CASE RemoveOld
  BY <1>19, DriverAssumption DEF RemoveOld
<1>20. CASE Kill
  BY <1>20, DriverAssumption DEF Kill, EndProcess
<1>21. ASSUME NEW i \in Input, OpenInput(i) PROVE InputInv'
  BY <1>21, DriverAssumption DEF OpenInput
<1>22. ASSUME NEW i \in Input, ChangeInput(i) PROVE InputInv'
  BY <1>22, DriverAssumption DEF ChangeInput
<1>23. CASE LoadInputs
  BY <1>23, DriverAssumption DEF LoadInputs
<1>24. ASSUME NEW i \in Input, ParseInput(i) PROVE InputInv'
  BY <1>24, DriverAssumption DEF ParseInput
<1>25. CASE ExtractAll
  <2>1. UNCHANGED <<recorded, seen, version, files, exit, child, pipe, reported>>
    BY <1>25 DEF ExtractAll, Fail
  <2>2. step = "Open" /\ (step' = "Link" \/ (step' = "Verify" /\ result' = "Err")) /\ reported = None
    BY <1>25 DEF ExtractAll, Fail
  <2>3. ASSUME step' = "Link" PROVE loaded' = Input /\ \A i \in Input : recorded'[i] # NotOpened
    <3>1. loaded' = Input
      BY <1>25, <2>3 DEF ExtractAll, Fail
    <3>2. ASSUME NEW i \in Input PROVE recorded'[i] # NotOpened
      <4>1. i \in {k \in Input : \A j \in 1..k : files[j] = "Parsed"}
        BY <1>25, <3>1 DEF ExtractAll
      <4>2. i \in 1..i
        BY DriverAssumption DEF Input
      <4>3. files[i] = "Parsed"
        BY <4>1, <4>2
      <4> QED BY <2>1, <4>3
    <3> QED BY <3>1, <3>2
  <2> QED BY <2>1, <2>2, <2>3
<1>26. CASE UNCHANGED vars
  BY <1>26, DriverAssumption
<1> QED
  BY <1>1, <1>2, <1>3, <1>4, <1>5, <1>6, <1>7, <1>8, <1>9, <1>10, <1>11, <1>12,
     <1>13, <1>14, <1>15, <1>16, <1>17, <1>18, <1>19, <1>20, <1>21, <1>22, <1>23, <1>24, <1>25, <1>26
  DEF Next, ParentStep, LinkerStep, CreatorStep, Finished

(* The state of one such link in which its inputs are accounted for. *)
LinkInv == TypeOK /\ ProcessInv /\ OutputInv /\ InputInv

LEMMA LinkInvariant ==
  ASSUME "Child" \notin Killable
  PROVE  Spec => []LinkInv
<1>1. Init => LinkInv
  BY TypeInit, ProcessInit, OutputInit, InputInit DEF LinkInv
<1>2. LinkInv /\ [Next]_vars => LinkInv'
  BY TypeStep, ProcessStep, OutputStep, InputStep DEF LinkInv
<1> QED BY <1>1, <1>2, PTL DEF Spec

(* If no child is killed, success means that every input was used at one   *)
(* version, the one that verify_inputs_unchanged compared, however often   *)
(* others modified it and whenever they did.                               *)
THEOREM DriverSuccessMeansConsistent ==
  ASSUME "Child" \notin Killable
  PROVE  Spec => []SuccessMeansConsistent
<1>1. LinkInv => SuccessMeansConsistent
  <2> SUFFICES ASSUME InputInv, exit = "Success", NEW i \in Input
               PROVE  Cardinality(seen[i]) = 1
    BY DEF LinkInv, SuccessMeansConsistent
  <2>1. seen[i] = {recorded[i]}
    BY DEF InputInv
  <2> QED BY <2>1, FS_Singleton
<1> QED BY <1>1, LinkInvariant, PTL

(* If no child is killed, an error that a modification of a loaded file    *)
(* may have caused is reported as that modification.                       *)
THEOREM DriverChangedInputsReported ==
  ASSUME "Child" \notin Killable
  PROVE  Spec => []ChangedInputsReported
<1>1. LinkInv => ChangedInputsReported
  BY DEF LinkInv, TypeOK, InputInv, ChangedInputsReported
<1> QED BY <1>1, LinkInvariant, PTL

---------------------------------------------------------------------------
(* Warnings.                                                               *)

(* A link in this process that succeeds had no warning that is fatal. *)
WarningInv == exit = "Success" /\ linker # "Child" => ~(options.fatalWarnings /\ warned)

(* Every step keeps it so. *)
LEMMA WarningStep ==
  TypeOK /\ ProcessInv /\ WarningInv /\ [Next]_vars => WarningInv'
<1> SUFFICES ASSUME TypeOK, ProcessInv, WarningInv, [Next]_vars PROVE WarningInv'
  OBVIOUS
<1> USE DEF vars, inputVars, loadVars, processVars, pipeVars, fileVars, TypeOK, ProcessInv, WarningInv, Status, Step, None
<1>1. CASE Fork
  BY <1>1 DEF Fork, EndProcess
<1>2. CASE ReadPipe
  BY <1>2 DEF ReadPipe
<1>3. CASE WaitForChild
  BY <1>3 DEF WaitForChild, ExitCode
<1>4. CASE ResolveAndLayout
  BY <1>4 DEF ResolveAndLayout, ReadInputs
<1>5. CASE LinkError
  BY <1>5 DEF LinkError, Fail, ReadInputs
<1>6. CASE SetSize
  BY <1>6 DEF SetSize, Fail
<1>7. CASE DeleteOldOutput
  BY <1>7 DEF DeleteOldOutput
<1>8. CASE CreateFile
  BY <1>8 DEF CreateFile, CreateOutput, CreateOutputFails, OpenOutput, Fail
<1>9. CASE ReceiveOutput
  BY <1>9 DEF ReceiveOutput, Fail
<1>10. CASE WriteOutput
  BY <1>10 DEF WriteOutput, ReadInputs, Fail
<1>11. CASE FlushOutput
  BY <1>11 DEF FlushOutput, Fail
<1>12. CASE VerifyInputsUnchanged
  BY <1>12 DEF VerifyInputsUnchanged, EndProcess
<1>13. CASE WriteDependencyFile
  BY <1>13 DEF WriteDependencyFile, EndProcess
<1>14. CASE NotifyDone
  BY <1>14 DEF NotifyDone
<1>15. CASE Shutdown
  BY <1>15 DEF Shutdown, EndProcess
<1>16. CASE CheckWarnings
  BY <1>16 DEF CheckWarnings, EndProcess
<1>17. CASE RenameOld
  BY <1>17 DEF RenameOld
<1>18. CASE SendOutput
  BY <1>18 DEF SendOutput, CreateOutput, CreateOutputFails, OpenOutput
<1>19. CASE RemoveOld
  BY <1>19 DEF RemoveOld
<1>20. CASE Kill
  BY <1>20 DEF Kill, EndProcess
<1>21. ASSUME NEW i \in Input, OpenInput(i) PROVE WarningInv'
  BY <1>21 DEF OpenInput
<1>22. ASSUME NEW i \in Input, ChangeInput(i) PROVE WarningInv'
  BY <1>22 DEF ChangeInput
<1>23. CASE LoadInputs
  BY <1>23 DEF LoadInputs
<1>24. ASSUME NEW i \in Input, ParseInput(i) PROVE WarningInv'
  BY <1>24 DEF ParseInput
<1>25. CASE ExtractAll
  BY <1>25 DEF ExtractAll, Fail
<1>26. CASE UNCHANGED vars
  BY <1>26
<1> QED
  BY <1>1, <1>2, <1>3, <1>4, <1>5, <1>6, <1>7, <1>8, <1>9, <1>10, <1>11, <1>12,
     <1>13, <1>14, <1>15, <1>16, <1>17, <1>18, <1>19, <1>20, <1>21, <1>22, <1>23, <1>24, <1>25, <1>26
  DEF Next, ParentStep, LinkerStep, CreatorStep, Finished

(* Where no invocation that may fork asks for it, --fatal-warnings works.  *)
THEOREM DriverFatalWarningsFail ==
  ASSUME \A o \in Options : ~(o.fork /\ o.fatalWarnings)
  PROVE  Spec => []FatalWarningsFail
<1>1. Init => WarningInv
  BY DEF Init, WarningInv
<1>2. TypeOK /\ ProcessInv /\ WarningInv => FatalWarningsFail
  BY DEF TypeOK, ProcessInv, WarningInv, FatalWarningsFail
<1> QED
  BY <1>1, <1>2, TypeInit, TypeStep, ProcessInit, ProcessStep, WarningStep, PTL DEF Spec

---------------------------------------------------------------------------
(* Replacement of the old file.                                            *)

(* The old file is out of the way before a file is opened where it must    *)
(* not be written, and is never moved where it must be.                    *)
ReplacementInv ==
  /\ creator = "Rename" => options.mode = "UnlinkAndReplace"
  /\ step \in {"DeleteOld", "Create"} => ~options.background
  /\ options.mode = "UnlinkAndReplace" /\ (creator \in {"Open", "Done"} \/ step = "Create") =>
       output # "Old"
  /\ options.mode = "UnlinkAndReplace" \/ options.busy =>
       content["Old"] = "Original" /\ handle # "Old"
  /\ options.mode = "UpdateInPlace" /\ options.exists => output = "Old"

LEMMA ReplacementInit == Init => ReplacementInv
  BY DEF Init, ReplacementInv, Inode, None

(* The old file can be renamed and removed where the mode asks for it. *)
DirectoryWritable == \A o \in Options : o.mode = "UnlinkAndReplace" => ~o.pinned

(* A file is updated in place by more than one thread. *)
InPlaceInBackground == \A o \in Options : o.mode = "UpdateInPlace" => o.background

(* Every step keeps the old file where the mode wants it, when it can be   *)
(* moved and a single thread does not update in place.                     *)
LEMMA ReplacementStep ==
  DirectoryWritable /\ InPlaceInBackground /\ TypeOK /\ ReplacementInv /\ [Next]_vars => ReplacementInv'
<1> SUFFICES ASSUME DirectoryWritable, InPlaceInBackground, TypeOK, ReplacementInv, [Next]_vars PROVE ReplacementInv'
  OBVIOUS
<1> USE DEF vars, inputVars, loadVars, processVars, pipeVars, fileVars, TypeOK, ReplacementInv, DirectoryWritable, InPlaceInBackground, Status, Step, None, Inode, Alive
<1>1. CASE Fork
  BY <1>1 DEF Fork, EndProcess
<1>2. CASE ReadPipe
  BY <1>2 DEF ReadPipe
<1>3. CASE WaitForChild
  BY <1>3 DEF WaitForChild, ExitCode
<1>4. CASE ResolveAndLayout
  BY <1>4 DEF ResolveAndLayout, ReadInputs
<1>5. CASE LinkError
  BY <1>5 DEF LinkError, Fail, ReadInputs
<1>6. CASE SetSize
  BY <1>6 DEF SetSize, Fail
<1>7. CASE DeleteOldOutput
  BY <1>7 DEF DeleteOldOutput
<1>8. CASE CreateFile
  BY <1>8 DEF CreateFile, CreateOutput, CreateOutputFails, OpenOutput, Fail
<1>9. CASE ReceiveOutput
  BY <1>9 DEF ReceiveOutput, Fail
<1>10. CASE WriteOutput
  BY <1>10 DEF WriteOutput, ReadInputs, Fail
<1>11. CASE FlushOutput
  BY <1>11 DEF FlushOutput, Fail
<1>12. CASE VerifyInputsUnchanged
  BY <1>12 DEF VerifyInputsUnchanged, EndProcess
<1>13. CASE WriteDependencyFile
  BY <1>13 DEF WriteDependencyFile, EndProcess
<1>14. CASE NotifyDone
  BY <1>14 DEF NotifyDone
<1>15. CASE Shutdown
  BY <1>15 DEF Shutdown, EndProcess
<1>16. CASE CheckWarnings
  BY <1>16 DEF CheckWarnings, EndProcess
<1>17. CASE RenameOld
  BY <1>17 DEF RenameOld
<1>18. CASE SendOutput
  BY <1>18 DEF SendOutput, CreateOutput, CreateOutputFails, OpenOutput
<1>19. CASE RemoveOld
  BY <1>19 DEF RemoveOld
<1>20. CASE Kill
  BY <1>20 DEF Kill, EndProcess
<1>21. ASSUME NEW i \in Input, OpenInput(i) PROVE ReplacementInv'
  BY <1>21 DEF OpenInput
<1>22. ASSUME NEW i \in Input, ChangeInput(i) PROVE ReplacementInv'
  BY <1>22 DEF ChangeInput
<1>23. CASE LoadInputs
  BY <1>23 DEF LoadInputs
<1>24. ASSUME NEW i \in Input, ParseInput(i) PROVE ReplacementInv'
  BY <1>24 DEF ParseInput
<1>25. CASE ExtractAll
  BY <1>25 DEF ExtractAll, Fail
<1>26. CASE UNCHANGED vars
  BY <1>26
<1> QED
  BY <1>1, <1>2, <1>3, <1>4, <1>5, <1>6, <1>7, <1>8, <1>9, <1>10, <1>11, <1>12,
     <1>13, <1>14, <1>15, <1>16, <1>17, <1>18, <1>19, <1>20, <1>21, <1>22, <1>23, <1>24, <1>25, <1>26
  DEF Next, ParentStep, LinkerStep, CreatorStep, Finished

(* The mode of replacement does to the old file what it promises, where    *)
(* the directory lets it and the file is created in the background.        *)
THEOREM DriverReplacementModeRespected ==
  ASSUME DirectoryWritable, InPlaceInBackground
  PROVE  Spec => []ReplacementModeRespected
<1>1. ReplacementInv => ReplacementModeRespected
  BY DEF ReplacementInv, ReplacementModeRespected
<1> QED
  BY <1>1, TypeInit, TypeStep, ReplacementInit, ReplacementStep, PTL DEF Spec

==========================================================================
