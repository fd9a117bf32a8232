-------------------------- MODULE GcGraph_proofs --------------------------
(***************************************************************************)
(* Proofs about GcGraph, for every set of groups, sections and symbols.    *)
(***************************************************************************)
EXTENDS GcGraph, TLAPS, FiniteSetTheorems, SequenceTheorems

(* A queue of one element is empty once that element is popped. *)
LEMMA TailOfOne ==
  ASSUME NEW S, NEW q \in Seq(S), Len(q) = 1
  PROVE  Tail(q) = << >>
  <1>1. Tail(q) \in Seq(S) /\ Len(Tail(q)) = 0
    BY EmptySeq, HeadTailProperties, SMTT(60)
  <1> QED BY <1>1, EmptySeq

(* Handling an item yields operations: the sequences built by ActivationOps *)
(* and WorkOps are sequences of operations.                                *)
LEMMA ConcatType ==
  ASSUME NEW S, NEW s \in Seq(S), NEW t \in Seq(S)
  PROVE  s \o t \in Seq(S)
  OBVIOUS

LEMMA OneOpType ==
  ASSUME NEW op \in Op
  PROVE  <<op>> \in Seq(Op)
  OBVIOUS

LEMMA NoOpType == << >> \in Seq(Op)
  OBVIOUS

LEMMA OpConstructors ==
  /\ [do |-> "fail"] \in Op
  /\ \A s \in Symbol : /\ [do |-> "export", symbol |-> s] \in Op
                       /\ [do |-> "load", symbol |-> s] \in Op
                       /\ [do |-> "copy", symbol |-> s] \in Op
  /\ \A o \in OutputSection : [do |-> "drain", output |-> o] \in Op
  /\ \A x \in Section : [do |-> "loaded", section |-> x] \in Op
  /\ \A x \in Section : Send(LoadSection(x)) \in Op
  /\ \A s \in Symbol : /\ Send(LoadGlobalSymbol(s)) \in Op
                       /\ Send(CopyRelocateSymbol(s)) \in Op
                       /\ Send(ExportDynamic(s)) \in Op
  BY DEF Op, Send, WorkItem, LoadSection, LoadGlobalSymbol, CopyRelocateSymbol, ExportDynamic

LEMMA ReferenceAllType ==
  ASSUME NEW rels \in Seq(Relocation)
  PROVE  ReferenceAll(rels) \in Seq(Op)
  BY DEF ReferenceAll, Op

LEMMA ActivationOpsType ==
  ASSUME NEW g \in Group
  PROVE  ActivationOps(g) \in Seq(Op)
<1>1. [i \in 1..Len(RootReferences[g]) |-> Reference(RootReferences[g][i], {"DIRECT"})] \in Seq(Op)
  BY RootAssumption DEF Op, Reference, Relocation, ValueFlag
<1>2. [i \in 1..Len(Exports[g]) |-> [do |-> "export", symbol |-> Exports[g][i]]] \in Seq(Op)
  BY RootAssumption DEF Op
<1>3. [i \in 1..Len(ExportRequests[g]) |-> Send(ExportDynamic(ExportRequests[g][i]))] \in Seq(Op)
  BY RootAssumption DEF Op, Send, ExportDynamic, WorkItem
<1> QED BY <1>1, <1>2, <1>3, ConcatType DEF ActivationOps

LEMMA ActivationOutcomesType ==
  ASSUME NEW g \in Group, NEW ops \in ActivationOutcomes(g)
  PROVE  ops \in Seq(Op)
<1>1. ActivationOps(g) \in Seq(Op)
  BY ActivationOpsType
<1>2. ASSUME NEW n \in 0..Len(ActivationOps(g))
      PROVE  SubSeq(ActivationOps(g), 1, n) \o <<[do |-> "fail"]>> \in Seq(Op)
  <2>1. SubSeq(ActivationOps(g), 1, n) \in Seq(Op)
    BY <1>1
  <2> QED BY <2>1, OpConstructors, OneOpType, ConcatType
<1> QED BY <1>1, <1>2 DEF ActivationOutcomes

LEMMA SectionLoadOpsType ==
  ASSUME TypeOK, NEW x \in Section
  PROVE  SectionLoadOps(x) \in Seq(Op)
<1>1. ReferenceAll(Relocations[x]) \in Seq(Op) /\ ReferenceAll(FrameRelocations[x]) \in Seq(Op)
  BY ReferenceAllType, SectionAssumption
<1>2. <<[do |-> "loaded", section |-> x]>> \in Seq(Op)
  BY DEF Op
<1>3. ReferenceAll(Relocations[x]) \o <<[do |-> "loaded", section |-> x]>>
        \o ReferenceAll(FrameRelocations[x]) \in Seq(Op)
  BY <1>1, <1>2, ConcatType
<1>4. << >> \in Seq(Op) /\ <<[do |-> "fail"]>> \in Seq(Op)
  BY DEF Op
<1> QED BY <1>3, <1>4 DEF SectionLoadOps

LEMMA WorkOpsType ==
  ASSUME TypeOK, NEW item \in WorkItem
  PROVE  WorkOps(item) \in Seq(Op)
<1>1. CASE item.kind = "LoadSection"
  <2>1. item.on \in Section
    BY <1>1 DEF WorkItem
  <2> QED BY <1>1, <2>1, SectionLoadOpsType DEF WorkOps
<1>2. CASE item.kind # "LoadSection"
  <2>1. item.on \in Symbol /\ item.kind \in {"LoadGlobalSymbol", "CopyRelocateSymbol", "ExportDynamic"}
    BY <1>2 DEF WorkItem
  <2>2. SymbolRequestOps(item.on) \in Seq(Op)
    BY <2>1, SymbolAssumption, OpConstructors, OneOpType, NoOpType DEF SymbolRequestOps
  <2>3. ExportDynamicOps(item.on) \in Seq(Op)
    BY <2>1, OpConstructors, OneOpType, NoOpType DEF ExportDynamicOps
  <2>4. CopyRelocateOps(item.on) \in Seq(Op)
    BY <2>1, OpConstructors, OneOpType, NoOpType DEF CopyRelocateOps
  <2> QED BY <2>1, <2>2, <2>3, <2>4 DEF WorkOps
<1> QED BY <1>1, <1>2

---------------------------------------------------------------------------
(* Types. *)

(* The counter holds a number of groups, and is positive while a task has  *)
(* still to count down.                                                    *)
LEMMA CountedSet ==
  ASSUME TypeOK, Counting
  PROVE  /\ IsFiniteSet({g \in Group : Counted(g)})
         /\ remaining \in Nat
         /\ \A g \in Group : Counted(g) => remaining > 0
         /\ remaining > 0 => \E g \in Group : Counted(g)
<1> DEFINE C == {g \in Group : Counted(g)}
<1>1. IsFiniteSet(C)
  BY GroupAssumption, FS_Subset
<1>2. Cardinality(C) \in Nat
  BY <1>1, FS_CardinalityType
<1>3. Cardinality(C) = 0 <=> C = {}
  BY <1>1, FS_EmptySet
<1> QED BY <1>1, <1>2, <1>3 DEF Counting

LEMMA TypeInit == Init => TypeOK
<1> SUFFICES ASSUME Init PROVE TypeOK
  OBVIOUS
<1>1. Cardinality(Group) \in Nat
  BY GroupAssumption, FS_CardinalityType
<1>2. slot \in [Section -> SlotState]
  BY SectionAssumption DEF Init
<1> QED BY <1>1, <1>2 DEF Init, TypeOK

LEMMA FrameStepType ==
  ASSUME TypeOK, NEW g \in Group, frame[g] # << >>
  PROVE  Next_(g) \in Seq(Op) /\ Head(frame[g]) \in Op
  BY DEF TypeOK, Next_

(* What the operation at the head of a frame carries. *)
LEMMA OpFields ==
  ASSUME NEW op \in Op
  PROVE  /\ op.do = "reference" => op.rel \in Relocation
         /\ op.do = "send" => op.item \in WorkItem
         /\ op.do \in {"export", "load", "copy"} => op.symbol \in Symbol
         /\ op.do = "drain" => op.output \in OutputSection
         /\ op.do = "loaded" => op.section \in Section
  BY DEF Op

LEMMA TypeNext ==
  ASSUME TypeOK, Counting, [Next]_vars
  PROVE  TypeOK'
<1> USE DEF TypeOK, sharedVars, symbolVars, resultVars
<1>1. ASSUME NEW g \in Group, ActivateFile(g) PROVE TypeOK'
  <2>1. \A ops \in ActivationOutcomes(g) : ops \in Seq(Op)
    BY ActivationOutcomesType
  <2>2. [i \in 1..Len(RootSections[g]) |-> LoadSection(RootSections[g][i])] \in Seq(WorkItem)
    BY RootAssumption DEF LoadSection, WorkItem
  <2>3. frame' \in [Group -> Seq(Op)] /\ local' \in [Group -> Seq(WorkItem)]
    BY <1>1, <2>1, <2>2 DEF ActivateFile
  <2>4. startStop' \in [OutputSection -> SUBSET Section]
    BY <1>1 DEF ActivateFile
  <2> QED BY <1>1, <2>3, <2>4 DEF ActivateFile
<1>2. ASSUME NEW g \in Group, DelayProcessing(g) PROVE TypeOK'
  BY <1>2 DEF DelayProcessing
<1>3. ASSUME NEW g \in Group, StartProcessing(g) PROVE TypeOK'
  BY <1>3 DEF StartProcessing
<1>4. ASSUME NEW g \in Group, CountDown(g) PROVE TypeOK'
  <2>1. remaining > 0
    BY <1>4, CountedSet DEF CountDown, Counted
  <2>2. Cardinality(Group) \in Nat
    BY GroupAssumption, FS_CardinalityType
  <2>3. remaining' \in 0..Cardinality(Group)
    BY <1>4, <2>1, <2>2 DEF CountDown
  <2> QED BY <1>4, <2>3 DEF CountDown
<1>5. ASSUME NEW g \in Group, PopDelayed(g) PROVE TypeOK'
  <2>1. CASE delayed = << >>
    BY <1>5, <2>1 DEF PopDelayed
  <2>2. CASE delayed # << >>
    <3>1. Head(delayed) = Synthetic /\ Tail(delayed) \in Seq({Synthetic})
      BY <2>2
    <3> QED BY <1>5, <2>2, <3>1, GroupAssumption DEF PopDelayed
  <2> QED BY <2>1, <2>2
<1>6. ASSUME NEW g \in Group, RunSpawned(g) PROVE TypeOK'
  BY <1>6 DEF RunSpawned
<1>7. ASSUME NEW g \in Group, TakeWork(g) PROVE TypeOK'
  <2>1. local[g] \in Seq(WorkItem) /\ Len(local[g]) \in 1..Len(local[g])
    BY <1>7 DEF TakeWork
  <2>2. local[g][Len(local[g])] \in WorkItem
    BY <2>1
  <2>3. SubSeq(local[g], 1, Len(local[g]) - 1) \in Seq(WorkItem)
    BY <2>1
  <2>4. WorkOps(local[g][Len(local[g])]) \in Seq(Op)
    BY <2>2, WorkOpsType
  <2> QED BY <1>7, <2>3, <2>4 DEF TakeWork
<1>8. ASSUME NEW g \in Group, Park(g) PROVE TypeOK'
  BY <1>8 DEF Park, Return
<1>9. ASSUME NEW g \in Group, SwapWork(g) PROVE TypeOK'
  BY <1>9 DEF SwapWork
<1>10. ASSUME NEW g \in Group, ReferenceSymbol(g) PROVE TypeOK'
  <2> DEFINE rel == Head(frame[g]).rel
             previous == flags[rel.symbol]
             request == IF previous = {} THEN <<Send(LoadGlobalSymbol(rel.symbol))>> ELSE << >>
             copy == IF "COPY_RELOCATION" \in rel.flags \ previous
                       THEN <<Send(CopyRelocateSymbol(rel.symbol))>> ELSE << >>
  <2>1. Next_(g) \in Seq(Op) /\ Head(frame[g]) \in Op
    BY <1>10, FrameStepType DEF ReferenceSymbol, Doing
  <2>2. rel \in Relocation
    BY <1>10, <2>1, OpFields DEF ReferenceSymbol, Doing
  <2>3. rel.symbol \in Symbol /\ rel.flags \in SUBSET ValueFlag
    BY <2>2 DEF Relocation
  <2>4. request \in Seq(Op) /\ copy \in Seq(Op)
    BY <2>3, OpConstructors, OneOpType, NoOpType
  <2>5. request \o copy \o Next_(g) \in Seq(Op)
    BY <2>1, <2>4, ConcatType
  <2>6. <<[do |-> "fail"]>> \in Seq(Op)
    BY OpConstructors, OneOpType
  <2>7. frame' \in [Group -> Seq(Op)]
    BY <1>10, <2>5, <2>6 DEF ReferenceSymbol
  <2>8. flags' \in [Symbol -> SUBSET ValueFlag] /\ undefinedRefs' \in SUBSET Symbol
    <3>1. flags[rel.symbol] \cup rel.flags \in SUBSET ValueFlag
      BY <2>3
    <3>2. CASE rel.fails
      BY <1>10, <3>2 DEF ReferenceSymbol
    <3>3. CASE ~rel.fails
      <4>1. flags' = [flags EXCEPT ![rel.symbol] = @ \cup rel.flags]
        BY <1>10, <3>3 DEF ReferenceSymbol
      <4>2. flags' \in [Symbol -> SUBSET ValueFlag]
        BY <2>3, <3>1, <4>1
      <4>3. undefinedRefs' \in {undefinedRefs, undefinedRefs \cup {rel.symbol}}
        BY <1>10, <3>3 DEF ReferenceSymbol
      <4> QED BY <2>3, <4>2, <4>3
    <3> QED BY <3>2, <3>3
  <2> QED BY <1>10, <2>7, <2>8 DEF ReferenceSymbol
<1>11. ASSUME NEW g \in Group, SendLocal(g) PROVE TypeOK'
  <2>1. Next_(g) \in Seq(Op) /\ Head(frame[g]).item \in WorkItem
    BY <1>11, FrameStepType, OpFields DEF SendLocal, Doing
  <2> QED BY <1>11, <2>1 DEF SendLocal
<1>12. ASSUME NEW g \in Group, SendRemote(g) PROVE TypeOK'
  <2>1. Next_(g) \in Seq(Op) /\ Head(frame[g]).item \in WorkItem
    BY <1>12, FrameStepType, OpFields DEF SendRemote, Doing
  <2>2. worker' \in [Group -> BOOLEAN]
    BY <1>12 DEF SendRemote
  <2>3. runner' \in [Group -> {"Idle", "Spawned", "Running"}]
    BY <1>12 DEF SendRemote
  <2>4. work' \in [Group -> Seq(WorkItem)]
    <3> DEFINE to == ItemGroup(Head(frame[g]).item)
    <3>1. work' = [work EXCEPT ![to] = Append(@, Head(frame[g]).item)]
      BY <1>12 DEF SendRemote
    <3>2. to \in Group => Append(work[to], Head(frame[g]).item) \in Seq(WorkItem)
      BY <2>1
    <3> HIDE DEF to
    <3> QED BY <3>1, <3>2
  <2>5. frame' \in [Group -> Seq(Op)]
    BY <1>12, <2>1 DEF SendRemote
  <2> QED BY <1>12, <2>2, <2>3, <2>4, <2>5 DEF SendRemote
<1>13. ASSUME NEW g \in Group, NEW s \in Symbol, LoadSymbolEffect(g, s)
       PROVE  /\ local' \in [Group -> Seq(WorkItem)]
              /\ commonAllocs' \in [Symbol -> Nat]
  <2>1. LoadSection(SymbolSection[s]) \in WorkItem
    BY SymbolAssumption DEF LoadSection, WorkItem
  <2>2. CASE SymbolKind[s] = "Section"
    <3>1. Append(local[g], LoadSection(SymbolSection[s])) \in Seq(WorkItem)
      BY <2>1
    <3> QED BY <1>13, <2>2, <3>1 DEF LoadSymbolEffect
  <2>3. CASE SymbolKind[s] # "Section"
    <3>1. commonAllocs[s] + 1 \in Nat
      OBVIOUS
    <3> QED BY <1>13, <2>3, <3>1 DEF LoadSymbolEffect
  <2> QED BY <2>2, <2>3
<1>14. ASSUME NEW g \in Group, LoadSymbol(g) PROVE TypeOK'
  <2>1. Next_(g) \in Seq(Op) /\ Head(frame[g]).symbol \in Symbol
    BY <1>14, FrameStepType, OpFields DEF LoadSymbol, Doing
  <2> QED BY <1>13, <1>14, <2>1 DEF LoadSymbol
<1>15. ASSUME NEW g \in Group, ExportSymbol(g) PROVE TypeOK'
  <2>1. Next_(g) \in Seq(Op) /\ Head(frame[g]).symbol \in Symbol
    BY <1>15, FrameStepType, OpFields DEF ExportSymbol, Doing
  <2>2. local' \in [Group -> Seq(WorkItem)] /\ commonAllocs' \in [Symbol -> Nat]
    BY <1>13, <1>15, <2>1 DEF ExportSymbol
  <2>3. flags' \in [Symbol -> SUBSET ValueFlag]
    <3>1. CASE CanExport(Head(frame[g]).symbol)
      <4>1. flags' = [flags EXCEPT ![Head(frame[g]).symbol] = @ \cup {"EXPORT_DYNAMIC"}]
        BY <1>15, <3>1, Zenon DEF ExportSymbol
      <4> QED BY <2>1, <4>1 DEF ValueFlag
    <3>2. CASE ~CanExport(Head(frame[g]).symbol)
      BY <1>15, <3>2 DEF ExportSymbol
    <3> QED BY <3>1, <3>2
  <2>4. dynsyms' \in [Symbol -> Nat]
    <3>1. CASE CanExport(Head(frame[g]).symbol)
      <4>1. dynsyms' = IF "EXPORT_DYNAMIC" \in flags[Head(frame[g]).symbol]
                        THEN dynsyms
                        ELSE [dynsyms EXCEPT ![Head(frame[g]).symbol] = @ + 1]
        BY <1>15, <3>1, Zenon DEF ExportSymbol
      <4> QED BY <2>1, <4>1
    <3>2. CASE ~CanExport(Head(frame[g]).symbol)
      BY <1>15, <3>2 DEF ExportSymbol
    <3> QED BY <3>1, <3>2
  <2> QED BY <1>15, <2>1, <2>2, <2>3, <2>4 DEF ExportSymbol
<1>16. ASSUME NEW g \in Group, DrainStartStop(g) PROVE TypeOK'
  <2>1. Next_(g) \in Seq(Op) /\ Head(frame[g]).output \in OutputSection
    BY <1>16, FrameStepType, OpFields DEF DrainStartStop, Doing
  <2>2. \A x \in Section : <<Send(LoadSection(x))>> \o frame[g] \in Seq(Op)
    BY OpConstructors, OneOpType, ConcatType
  <2>3. frame' \in [Group -> Seq(Op)] /\ startStop' \in [OutputSection -> SUBSET Section]
    <3> DEFINE o == Head(frame[g]).output
    <3>1. CASE frame' = [frame EXCEPT ![g] = Next_(g)] /\ UNCHANGED startStop
      BY <2>1, <3>1
    <3>2. ASSUME NEW x \in startStop[o],
                 startStop' = [startStop EXCEPT ![o] = @ \ {x}],
                 frame' = [frame EXCEPT ![g] = <<Send(LoadSection(x))>> \o @]
          PROVE  frame' \in [Group -> Seq(Op)] /\ startStop' \in [OutputSection -> SUBSET Section]
      <4>1. x \in Section
        BY <2>1
      <4>2. <<Send(LoadSection(x))>> \o frame[g] \in Seq(Op)
        BY <2>2, <4>1
      <4>3. frame' \in [Group -> Seq(Op)]
        BY <3>2, <4>2
      <4>4. startStop' \in [OutputSection -> SUBSET Section]
        BY <2>1, <3>2
      <4> QED BY <4>3, <4>4
    <3> QED BY <1>16, <3>1, <3>2 DEF DrainStartStop
  <2> QED BY <1>16, <2>3 DEF DrainStartStop
<1>17. ASSUME NEW g \in Group, MarkLoaded(g) PROVE TypeOK'
  <2>1. Next_(g) \in Seq(Op) /\ Head(frame[g]).section \in Section
    BY <1>17, FrameStepType, OpFields DEF MarkLoaded, Doing
  <2> QED BY <1>17, <2>1 DEF MarkLoaded, SlotState
<1>18. ASSUME NEW g \in Group, CopyRelocate(g) PROVE TypeOK'
  <2>1. Next_(g) \in Seq(Op) /\ Head(frame[g]).symbol \in Symbol
    BY <1>18, FrameStepType, OpFields DEF CopyRelocate, Doing
  <2> QED BY <1>18, <2>1 DEF CopyRelocate, AddSymbol
<1>19. ASSUME NEW g \in Group, ActivationError(g) PROVE TypeOK'
  BY <1>19 DEF ActivationError
<1>20. ASSUME NEW g \in Group, WorkError(g) PROVE TypeOK'
  BY <1>20 DEF WorkError, Return
<1>21. CASE Finish
  BY <1>21 DEF Finish, LinkFails, ParkedWorkers
<1>22. CASE UNCHANGED vars
  BY <1>22 DEF vars
<1> QED BY <1>1, <1>2, <1>3, <1>4, <1>5, <1>6, <1>7, <1>8, <1>9, <1>10, <1>11, <1>12,
           <1>14, <1>15, <1>16, <1>17, <1>18, <1>19, <1>20, <1>21, <1>22
        DEF Next, TaskStep, Finished

---------------------------------------------------------------------------
(* The ownership of groups. *)

LEMMA IInvInit == Init => IInv
<1> SUFFICES ASSUME Init PROVE IInv
  OBVIOUS
<1>1. {g \in Group : Counted(g)} = Group
  BY DEF Init, Counted
<1>2. Counting
  BY <1>1, GroupAssumption DEF Init, Counting, HeldByTask
<1>3. OneOwner /\ NoStrandedWork
  BY GroupAssumption DEF Init, OneOwner, NoStrandedWork, HeldByActivation, HeldByQueue, HeldByTask
<1>4. QueuesOwned /\ DelayedPending /\ Ended /\ AllGroupsReturned
  BY DEF Init, QueuesOwned, DelayedPending, Ended, AllGroupsReturned
<1> QED BY <1>2, <1>3, <1>4 DEF IInv

(* Most operations of an owner touch its own frame and local queue only,   *)
(* as far as ownership is concerned.                                       *)
QuietStep(g) ==
  /\ frame[g] # << >>
  /\ \A h \in Group \ {g} : frame'[h] = frame[h] /\ local'[h] = local[h]
  /\ UNCHANGED <<act, runner, sharedVars, resultVars>>

LEMMA QuietStepIInv ==
  ASSUME TypeOK, IInv, NEW g \in Group, QuietStep(g)
  PROVE  IInv'
<1> USE DEF QuietStep, sharedVars, resultVars, HeldByActivation, HeldByQueue, HeldByTask
<1>1. OneOwner'
  BY DEF IInv, OneOwner
<1>2. act[g] = "Files" \/ runner[g] = "Running"
  BY DEF IInv, QueuesOwned
<1>3. ~worker[g]
  BY <1>2 DEF IInv, OneOwner
<1>4. NoStrandedWork'
  BY <1>3 DEF IInv, NoStrandedWork
<1>5. Counting'
  BY DEF IInv, Counting, Counted
<1>6. QueuesOwned'
  BY <1>2 DEF IInv, QueuesOwned
<1>7. DelayedPending'
  BY DEF IInv, DelayedPending
<1>8. Ended'
  BY DEF IInv, Ended, AllTasksDone
<1>9. AllGroupsReturned'
  BY DEF IInv, AllGroupsReturned
<1> QED BY <1>1, <1>4, <1>5, <1>6, <1>7, <1>8, <1>9 DEF IInv

(* While a group is held by a task or its activation, the traversal has    *)
(* not returned.                                                           *)
LEMMA StillRunning ==
  ASSUME TypeOK, IInv, NEW g \in Group, act[g] # "Done" \/ runner[g] # "Idle"
  PROVE  outcome = "Running"
  BY DEF IInv, Ended, AllTasksDone, TypeOK

(* A step that changes no group's membership in the counted set, nor the   *)
(* counter, keeps the count right.                                         *)
LEMMA SameCount ==
  ASSUME IInv, remaining' = remaining, \A h \in Group : Counted(h)' = Counted(h)
  PROVE  remaining' = Cardinality({h \in Group : Counted(h)})'
<1>1. {h \in Group : Counted(h)}' = {h \in Group : Counted(h)}
  OBVIOUS
<1> QED BY <1>1 DEF IInv, Counting

LEMMA IInvNext ==
  ASSUME TypeOK, IInv, [Next]_vars, TypeOK'
  PROVE  IInv'
<1> USE DEF sharedVars, symbolVars, resultVars, HeldByActivation, HeldByQueue, HeldByTask
<1>1. ASSUME NEW g \in Group, ActivateFile(g) PROVE IInv'
  <2> USE <1>1 DEF ActivateFile
  <2>1. outcome = "Running" /\ ~worker[g] /\ runner[g] = "Idle"
    BY StillRunning DEF IInv, OneOwner, TypeOK
  <2>2. \A h \in Group : Counted(h)' = Counted(h)
    BY DEF Counted, TypeOK
  <2>3. Counting'
    BY <2>2, SameCount DEF IInv, Counting, TypeOK
  <2>4. OneOwner' /\ NoStrandedWork'
    BY <2>1 DEF IInv, OneOwner, NoStrandedWork, TypeOK
  <2>5. QueuesOwned'
    BY <2>1 DEF IInv, QueuesOwned, TypeOK
  <2>6. DelayedPending' /\ Ended' /\ AllGroupsReturned'
    BY <2>1 DEF IInv, DelayedPending, Ended, AllGroupsReturned, TypeOK
  <2> QED BY <2>3, <2>4, <2>5, <2>6 DEF IInv
<1>2. ASSUME NEW g \in Group, DelayProcessing(g) PROVE IInv'
  <2> USE <1>2 DEF DelayProcessing
  <2>1. outcome = "Running" /\ ~worker[g] /\ runner[g] = "Idle" /\ delayed = << >>
    BY StillRunning DEF IInv, OneOwner, TypeOK
  <2>2. \A h \in Group : Counted(h)' = Counted(h)
    BY DEF Counted, TypeOK
  <2>3. Counting'
    BY <2>2, SameCount DEF IInv, Counting, TypeOK
  <2>4. delayed' = <<Synthetic>> /\ delayed' # << >> /\ Len(delayed') = 1
    BY <2>1
  <2>5. OneOwner' /\ NoStrandedWork'
    BY <2>1, <2>4 DEF IInv, OneOwner, NoStrandedWork, TypeOK
  <2>6. QueuesOwned'
    BY <2>1, <2>4 DEF IInv, QueuesOwned, TypeOK
  <2>7. remaining > 0
    BY CountedSet DEF IInv, Counted
  <2>8. DelayedPending' /\ Ended' /\ AllGroupsReturned'
    BY <2>1, <2>4, <2>7 DEF IInv, DelayedPending, Ended, AllGroupsReturned, TypeOK
  <2> QED BY <2>3, <2>5, <2>6, <2>8 DEF IInv
<1>3. ASSUME NEW g \in Group, StartProcessing(g) PROVE IInv'
  <2> USE <1>3 DEF StartProcessing
  <2>1. outcome = "Running" /\ ~worker[g] /\ runner[g] = "Idle"
    BY StillRunning DEF IInv, OneOwner, TypeOK
  <2>2. \A h \in Group : Counted(h)' = Counted(h)
    BY DEF Counted, TypeOK
  <2>3. Counting'
    BY <2>2, SameCount DEF IInv, Counting, TypeOK
  <2>4. OneOwner' /\ NoStrandedWork'
    BY <2>1 DEF IInv, OneOwner, NoStrandedWork, TypeOK
  <2>5. QueuesOwned'
    BY <2>1 DEF IInv, QueuesOwned, TypeOK
  <2>6. DelayedPending' /\ Ended' /\ AllGroupsReturned'
    BY <2>1 DEF IInv, DelayedPending, Ended, AllGroupsReturned, TypeOK
  <2> QED BY <2>3, <2>4, <2>5, <2>6 DEF IInv
<1>4. ASSUME NEW g \in Group, CountDown(g) PROVE IInv'
  <2> USE <1>4 DEF CountDown
  <2>1. outcome = "Running"
    BY StillRunning
  <2>2. Counted(g) /\ remaining \in Nat /\ remaining > 0
    BY CountedSet DEF IInv, Counted
  <2>3. {h \in Group : Counted(h)}' = {h \in Group : Counted(h)} \ {g}
    BY DEF Counted, TypeOK
  <2>4. Cardinality({h \in Group : Counted(h)} \ {g}) = remaining - 1
    BY <2>2, CountedSet, FS_RemoveElement DEF IInv, Counting
  <2>5. Counting'
    <3>1. remaining' = Cardinality({h \in Group : Counted(h)})'
      BY <2>3, <2>4
    <3>2. ASSUME NEW h \in Group, act'[h] = "Last" PROVE remaining' = 0
      <4>1. act[h] # "Last"
        BY <2>2 DEF IInv, Counting
      <4>2. h = g
        BY <3>2, <4>1 DEF TypeOK
      <4>3. remaining = 1
        BY <3>2, <4>2 DEF TypeOK
      <4> QED BY <4>3
    <3>3. ~(HeldByTask(Synthetic) \/ worker[Synthetic])'
      BY <2>2 DEF IInv, Counting
    <3> QED BY <3>1, <3>2, <3>3 DEF Counting
  <2>6. OneOwner' /\ NoStrandedWork'
    BY DEF IInv, OneOwner, NoStrandedWork, TypeOK
  <2>7. QueuesOwned'
    BY DEF IInv, QueuesOwned, TypeOK
  <2>8. DelayedPending'
    <3>1. CASE remaining = 1
      BY <3>1 DEF IInv, DelayedPending, TypeOK
    <3>2. CASE remaining # 1
      BY <2>2, <3>2 DEF IInv, DelayedPending, TypeOK
    <3> QED BY <3>1, <3>2
  <2>9. Ended' /\ AllGroupsReturned'
    BY <2>1 DEF IInv, Ended, AllGroupsReturned
  <2> QED BY <2>5, <2>6, <2>7, <2>8, <2>9 DEF IInv
<1>5. ASSUME NEW g \in Group, PopDelayed(g) PROVE IInv'
  <2> USE <1>5 DEF PopDelayed
  <2>1. outcome = "Running" /\ remaining = 0
    BY StillRunning DEF IInv, Counting
  <2>2. \A h \in Group : Counted(h)' = Counted(h)
    BY DEF Counted, TypeOK
  <2>3. Counting'
    BY <2>1, <2>2, SameCount DEF Counting
  <2>4. CASE delayed = << >>
    <3>1. OneOwner' /\ NoStrandedWork'
      BY <2>4, ZenonT(60) DEF IInv, OneOwner, NoStrandedWork, TypeOK
    <3>2. QueuesOwned' /\ DelayedPending'
      BY <2>4 DEF IInv, QueuesOwned, DelayedPending, TypeOK
    <3>3. Ended' /\ AllGroupsReturned'
      BY <2>1, <2>4 DEF IInv, Ended, AllGroupsReturned
    <3> QED BY <2>3, <3>1, <3>2, <3>3 DEF IInv
  <2>5. CASE delayed # << >>
    <3>1. Head(delayed) = Synthetic /\ Len(delayed) = 1
      BY <2>5 DEF IInv, DelayedPending, TypeOK
    <3>2. Tail(delayed) = << >>
      BY <3>1, TailOfOne DEF TypeOK
    <3>3. ~worker[Synthetic] /\ ~HeldByActivation(Synthetic) /\ runner[Synthetic] = "Idle"
      BY <2>5, GroupAssumption DEF IInv, OneOwner
    <3>4. /\ delayed' = << >>
          /\ runner' = [runner EXCEPT ![Synthetic] = "Running"]
          /\ act' = [act EXCEPT ![g] = "Draining"]
      BY <2>5, <3>1, <3>2
    <3>5. OneOwner' /\ NoStrandedWork'
      BY <3>3, <3>4, GroupAssumption DEF IInv, OneOwner, NoStrandedWork, TypeOK
    <3>6. QueuesOwned' /\ DelayedPending'
      BY <3>4, GroupAssumption DEF IInv, QueuesOwned, DelayedPending, TypeOK
    <3>7. Ended' /\ AllGroupsReturned'
      BY <2>1 DEF IInv, Ended, AllGroupsReturned
    <3> QED BY <2>3, <3>5, <3>6, <3>7 DEF IInv
  <2> QED BY <2>4, <2>5
<1>6. ASSUME NEW g \in Group, RunSpawned(g) PROVE IInv'
  <2> USE <1>6 DEF RunSpawned
  <2>1. outcome = "Running"
    BY StillRunning
  <2>2. \A h \in Group : Counted(h)' = Counted(h)
    BY DEF Counted
  <2>3. Counting'
    <3>1. remaining' = Cardinality({h \in Group : Counted(h)})'
      BY <2>2, SameCount
    <3>2. HeldByTask(Synthetic)' => HeldByTask(Synthetic)
      BY GroupAssumption DEF TypeOK
    <3> QED BY <3>1, <3>2 DEF IInv, Counting
  <2>4. OneOwner' /\ NoStrandedWork' /\ QueuesOwned'
    BY DEF IInv, OneOwner, NoStrandedWork, QueuesOwned, TypeOK
  <2>5. DelayedPending' /\ Ended' /\ AllGroupsReturned'
    BY <2>1 DEF IInv, DelayedPending, Ended, AllGroupsReturned
  <2> QED BY <2>3, <2>4, <2>5 DEF IInv
<1>7. ASSUME NEW g \in Group, TakeWork(g) PROVE IInv'
  <2> USE <1>7 DEF TakeWork, Idle
  <2>1. outcome = "Running" /\ ~worker[g]
    BY StillRunning DEF IInv, OneOwner
  <2>2. Counting' /\ OneOwner' /\ DelayedPending' /\ Ended'
    BY DEF IInv, Counting, Counted, OneOwner, DelayedPending, Ended, AllTasksDone
  <2>3. NoStrandedWork'
    BY <2>1 DEF IInv, NoStrandedWork, TypeOK
  <2>4. QueuesOwned'
    BY DEF IInv, QueuesOwned, TypeOK
  <2>5. AllGroupsReturned'
    BY <2>1 DEF AllGroupsReturned
  <2> QED BY <2>2, <2>3, <2>4, <2>5 DEF IInv
<1>8. ASSUME NEW g \in Group, Park(g) PROVE IInv'
  <2> USE <1>8 DEF Park, Idle, Return
  <2>1. outcome = "Running" /\ ~worker[g] /\ ~HeldByActivation(g) /\ ~HeldByQueue(g)
    BY StillRunning DEF IInv, OneOwner
  <2>2. \A h \in Group : Counted(h)' = Counted(h)
    BY DEF Counted, TypeOK
  <2>3. g = Synthetic => remaining = 0
    BY DEF IInv, Counting
  <2>4. \A h \in Group : /\ act[h] = "Last" => act'[h] = "Last"
                         /\ act'[h] = "Last" => act[h] = "Last" \/ g = Synthetic
    BY DEF TypeOK
  <2>5. Counting'
    <3>1. remaining' = Cardinality({h \in Group : Counted(h)})'
      BY <2>2, SameCount
    <3>2. \A h \in Group : act'[h] = "Last" => remaining' = 0
      BY <2>3, <2>4 DEF IInv, Counting
    <3>3. (~HeldByTask(Synthetic)' /\ ~worker'[Synthetic]) \/ remaining = 0
      BY <2>3, GroupAssumption DEF IInv, Counting, TypeOK
    <3> QED BY <3>1, <3>2, <3>3 DEF Counting
  <2>6. OneOwner'
    BY <2>1 DEF IInv, OneOwner, TypeOK
  <2>7. NoStrandedWork'
    BY <2>1 DEF IInv, NoStrandedWork, TypeOK
  <2>8. QueuesOwned'
    BY DEF IInv, QueuesOwned, TypeOK
  <2>9. DelayedPending'
    BY <2>4 DEF IInv, DelayedPending
  <2>10. Ended' /\ AllGroupsReturned'
    BY <2>1 DEF Ended, AllGroupsReturned
  <2> QED BY <2>5, <2>6, <2>7, <2>8, <2>9, <2>10 DEF IInv
<1>9. ASSUME NEW g \in Group, SwapWork(g) PROVE IInv'
  <2> USE <1>9 DEF SwapWork, Idle
  <2>1. outcome = "Running" /\ ~worker[g]
    BY StillRunning DEF IInv, OneOwner
  <2>2. Counting' /\ OneOwner' /\ DelayedPending' /\ Ended'
    BY DEF IInv, Counting, Counted, OneOwner, DelayedPending, Ended, AllTasksDone
  <2>3. NoStrandedWork'
    BY <2>1 DEF IInv, NoStrandedWork, TypeOK
  <2>4. QueuesOwned'
    BY DEF IInv, QueuesOwned, TypeOK
  <2>5. AllGroupsReturned'
    BY <2>1 DEF AllGroupsReturned
  <2> QED BY <2>2, <2>3, <2>4, <2>5 DEF IInv
<1>10. ASSUME NEW g \in Group, ReferenceSymbol(g) PROVE IInv'
  <2>1. QuietStep(g)
    <3>1. \A h \in Group \ {g} : frame'[h] = frame[h]
      BY <1>10 DEF ReferenceSymbol, TypeOK
    <3> QED BY <1>10, <3>1 DEF QuietStep, ReferenceSymbol, Doing
  <2> QED BY <2>1, QuietStepIInv
<1>11. ASSUME NEW g \in Group, SendLocal(g) PROVE IInv'
  <2>1. QuietStep(g)
    BY <1>11 DEF QuietStep, SendLocal, Doing, TypeOK
  <2> QED BY <2>1, QuietStepIInv
<1>12. ASSUME NEW g \in Group, SendRemote(g) PROVE IInv'
  <2> DEFINE to == ItemGroup(Head(frame[g]).item)
  <2> USE <1>12 DEF SendRemote, Doing
  <2>1. act[g] = "Files" \/ runner[g] = "Running"
    BY DEF IInv, QueuesOwned
  <2>2. outcome = "Running" /\ ~worker[g]
    BY <2>1, StillRunning DEF IInv, OneOwner
  <2>3. to # g /\ worker' = [worker EXCEPT ![to] = FALSE]
    OBVIOUS
  <2>4. \A h \in Group : h # to => work'[h] = work[h] /\ worker'[h] = worker[h] /\ runner'[h] = runner[h]
    BY DEF TypeOK
  <2>5. \A h \in Group : h # g => frame'[h] = frame[h]
    BY DEF TypeOK
  <2>6. to \in Group =>
          /\ worker'[to] = FALSE
          /\ worker[to] => runner'[to] = "Spawned"
          /\ ~worker[to] => runner'[to] = runner[to]
    BY DEF TypeOK
  <2> HIDE <1>12 DEF to, SendRemote
  <2>7. UNCHANGED <<act, local, delayed, remaining, slot, symbolVars, resultVars>>
    BY <1>12 DEF SendRemote
  <2>8. Counting'
    <3>1. \A h \in Group : Counted(h)' = Counted(h)
      BY <2>7 DEF Counted
    <3>2. remaining' = Cardinality({h \in Group : Counted(h)})'
      BY <2>7, <3>1, SameCount
    <3>3. \A h \in Group : act'[h] = "Last" => remaining' = 0
      BY <2>7 DEF IInv, Counting
    <3>4. (HeldByTask(Synthetic) \/ worker[Synthetic])' => remaining' = 0
      BY <2>4, <2>6, <2>7, GroupAssumption DEF IInv, Counting
    <3> QED BY <3>2, <3>3, <3>4 DEF Counting
  <2>9. OneOwner'
    BY <2>4, <2>6, <2>7 DEF IInv, OneOwner
  <2>10. NoStrandedWork'
    BY <2>2, <2>4, <2>5, <2>6, <2>7 DEF IInv, NoStrandedWork
  <2>11. QueuesOwned'
    BY <2>1, <2>3, <2>4, <2>5, <2>6, <2>7 DEF IInv, QueuesOwned, OneOwner
  <2>12. DelayedPending' /\ Ended' /\ AllGroupsReturned'
    BY <2>2, <2>7 DEF IInv, DelayedPending, Ended, AllGroupsReturned
  <2> QED BY <2>8, <2>9, <2>10, <2>11, <2>12 DEF IInv
<1>13. ASSUME NEW g \in Group, LoadSymbol(g) PROVE IInv'
  <2>1. QuietStep(g)
    BY <1>13 DEF QuietStep, LoadSymbol, LoadSymbolEffect, Doing, TypeOK
  <2> QED BY <2>1, QuietStepIInv
<1>14. ASSUME NEW g \in Group, ExportSymbol(g) PROVE IInv'
  <2>1. \A h \in Group \ {g} : local'[h] = local[h]
    BY <1>14, ZenonT(60) DEF ExportSymbol, LoadSymbolEffect, TypeOK
  <2>2. QuietStep(g)
    BY <1>14, <2>1 DEF QuietStep, ExportSymbol, Doing, TypeOK
  <2> QED BY <2>2, QuietStepIInv
<1>15. ASSUME NEW g \in Group, DrainStartStop(g) PROVE IInv'
  <2>1. \A h \in Group \ {g} : frame'[h] = frame[h]
    BY <1>15 DEF DrainStartStop, TypeOK
  <2>2. QuietStep(g)
    BY <1>15, <2>1 DEF QuietStep, DrainStartStop, Doing
  <2> QED BY <2>2, QuietStepIInv
<1>16. ASSUME NEW g \in Group, MarkLoaded(g) PROVE IInv'
  <2>1. QuietStep(g)
    BY <1>16 DEF QuietStep, MarkLoaded, Doing, TypeOK
  <2> QED BY <2>1, QuietStepIInv
<1>17. ASSUME NEW g \in Group, CopyRelocate(g) PROVE IInv'
  <2>1. QuietStep(g)
    BY <1>17 DEF QuietStep, CopyRelocate, Doing, TypeOK
  <2> QED BY <2>1, QuietStepIInv
<1>18. ASSUME NEW g \in Group, ActivationError(g) PROVE IInv'
  <2> USE <1>18 DEF ActivationError
  <2>1. outcome = "Running" /\ errors' > 0
    BY StillRunning DEF TypeOK
  <2>2. Counting' /\ OneOwner' /\ DelayedPending' /\ Ended'
    BY DEF IInv, Counting, Counted, OneOwner, DelayedPending, Ended, AllTasksDone
  <2>3. NoStrandedWork' /\ QueuesOwned'
    BY <2>1 DEF IInv, NoStrandedWork, QueuesOwned, TypeOK
  <2>4. AllGroupsReturned'
    BY <2>1 DEF AllGroupsReturned
  <2> QED BY <2>2, <2>3, <2>4 DEF IInv
<1>19. ASSUME NEW g \in Group, WorkError(g) PROVE IInv'
  <2> USE <1>19 DEF WorkError, Return
  <2>1. outcome = "Running" /\ ~worker[g] /\ ~HeldByActivation(g) /\ errors' > 0
    BY StillRunning DEF IInv, OneOwner, TypeOK
  <2>2. \A h \in Group : Counted(h)' = Counted(h)
    BY DEF Counted, TypeOK
  <2>10. g = Synthetic => remaining = 0
    BY DEF IInv, Counting
  <2>3. \A h \in Group : /\ act[h] = "Last" => act'[h] = "Last"
                         /\ act'[h] = "Last" => act[h] = "Last" \/ g = Synthetic
    BY DEF TypeOK
  <2>4. Counting'
    <3>1. remaining' = Cardinality({h \in Group : Counted(h)})'
      BY <2>2, SameCount
    <3>2. \A h \in Group : act'[h] = "Last" => remaining' = 0
      BY <2>3, <2>10 DEF IInv, Counting
    <3>3. (~HeldByTask(Synthetic)' /\ ~worker'[Synthetic]) \/ remaining = 0
      BY <2>10, GroupAssumption DEF IInv, Counting, TypeOK
    <3> QED BY <3>1, <3>2, <3>3 DEF Counting
  <2>5. OneOwner'
    BY <2>1 DEF IInv, OneOwner, TypeOK
  <2>6. NoStrandedWork'
    BY <2>1 DEF IInv, NoStrandedWork, TypeOK
  <2>7. QueuesOwned'
    BY DEF IInv, QueuesOwned, TypeOK
  <2>8. DelayedPending'
    BY <2>3 DEF IInv, DelayedPending
  <2>9. Ended' /\ AllGroupsReturned'
    BY <2>1 DEF Ended, AllGroupsReturned
  <2> QED BY <2>4, <2>5, <2>6, <2>7, <2>8, <2>9 DEF IInv
<1>20. CASE Finish
  <2> USE <1>20 DEF Finish, LinkFails, ParkedWorkers, AllTasksDone
  <2>1. \A g \in Group : ~Counted(g) /\ act[g] # "Last"
    BY DEF Counted
  <2>2. delayed = << >>
    BY <2>1, CountedSet DEF IInv, DelayedPending
  <2>3. Counting'
    <3>1. \A h \in Group : Counted(h)' = Counted(h)
      BY DEF Counted
    <3> QED BY <3>1, SameCount, GroupAssumption DEF IInv, Counting
  <2>4. OneOwner' /\ QueuesOwned' /\ DelayedPending' /\ Ended'
    BY DEF IInv, OneOwner, QueuesOwned, DelayedPending, Ended
  <2>5. NoStrandedWork'
    BY DEF IInv, NoStrandedWork
  <2>6. outcome' = "Ok" => errors = 0 /\ groupStates' = {g \in Group : worker[g]}
    BY DEF TypeOK
  <2>7. AllGroupsReturned'
    BY <2>2, <2>6 DEF IInv, NoStrandedWork, AllGroupsReturned
  <2> QED BY <2>3, <2>4, <2>5, <2>7 DEF IInv
<1>21. CASE UNCHANGED vars
  BY <1>21 DEF vars, IInv, OneOwner, NoStrandedWork, Counting, Counted, QueuesOwned,
               DelayedPending, Ended, AllTasksDone, AllGroupsReturned
<1> QED BY <1>1, <1>2, <1>3, <1>4, <1>5, <1>6, <1>7, <1>8, <1>9, <1>10, <1>11, <1>12,
           <1>13, <1>14, <1>15, <1>16, <1>17, <1>18, <1>19, <1>20, <1>21
        DEF Next, TaskStep, Finished

---------------------------------------------------------------------------
(* Type correctness and the inductive invariant hold in every reachable    *)
(* state.  They are proved together: that activations_remaining does not   *)
(* go below zero is a matter of what it counts.                            *)
THEOREM GcInvariant == Spec => [](TypeOK /\ IInv)
<1>1. Init => TypeOK /\ IInv
  BY TypeInit, IInvInit
<1>2. TypeOK /\ IInv /\ [Next]_vars => TypeOK' /\ IInv'
  <2> SUFFICES ASSUME TypeOK, IInv, [Next]_vars PROVE TypeOK' /\ IInv'
    OBVIOUS
  <2>1. TypeOK'
    BY TypeNext DEF IInv
  <2> QED BY <2>1, IInvNext
<1> QED BY <1>1, <1>2, PTL DEF Spec

(* Every variable of the traversal keeps its type; in particular the       *)
(* unsigned counter activations_remaining never wraps around.              *)
THEOREM GcTypeCorrect == Spec => []TypeOK
  BY GcInvariant, PTL

(* No two tasks ever own one group's state. *)
THEOREM GcOneOwner == Spec => []OneOwner
<1>1. IInv => OneOwner
  BY DEF IInv
<1> QED BY <1>1, GcInvariant, PTL

(* Work posted to a group is never left behind with a parked worker, and   *)
(* without an error no group's state disappears.                           *)
THEOREM GcNoStrandedWork == Spec => []NoStrandedWork
<1>1. IInv => NoStrandedWork
  BY DEF IInv
<1> QED BY <1>1, GcInvariant, PTL

(* A successful traversal returns the state of every group, with all work  *)
(* done.                                                                   *)
THEOREM GcAllGroupsReturned == Spec => []AllGroupsReturned
<1>1. IInv => AllGroupsReturned
  BY DEF IInv
<1> QED BY <1>1, GcInvariant, PTL

(* The synthetic symbols are processed only after the activation of every  *)
(* group: the task that sees the counter reach zero is the last to have    *)
(* been activated.                                                         *)
THEOREM GcSyntheticAfterActivation == Spec => []SyntheticAfterActivation
<1>1. TypeOK /\ IInv => SyntheticAfterActivation
  <2> SUFFICES ASSUME TypeOK, IInv, HeldByTask(Synthetic) \/ worker[Synthetic],
                      NEW g \in Group
               PROVE  ~HeldByActivation(g)
    BY DEF SyntheticAfterActivation
  <2>1. remaining = 0
    BY DEF IInv, Counting
  <2>2. Counted(g) => remaining > 0
    BY CountedSet DEF IInv
  <2> QED BY <2>1, <2>2 DEF Counted, HeldByActivation
<1> QED BY <1>1, GcInvariant, PTL

---------------------------------------------------------------------------
(***************************************************************************)
(* The traversal keeps exactly the live sections: it implements            *)
(* LiveSelection, for every input and every schedule.                      *)
(*                                                                         *)
(* Two invariants carry the proof.  OnlyNeeded says that whatever is       *)
(* queued anywhere is reachable from the roots; NothingForgotten says that *)
(* whatever a loaded section or a root asks for is loaded or is queued     *)
(* somewhere, as long as no error was met.  Both speak of the set of all   *)
(* operations and the set of all work items, wherever they are.            *)
(*                                                                         *)
(* With them come the results for what the requests leave behind: the      *)
(* copy relocations that are recorded, and the common symbols, for which   *)
(* it takes a third invariant: a request is in one place at a time.        *)
(***************************************************************************)

(* The elements of a queue after the operations on it. *)

LEMMA RangeOfEmpty == Range(<< >>) = {}
  BY DEF Range

LEMMA RangeOfOne ==
  ASSUME NEW e
  PROVE  Range(<<e>>) = {e}
  BY DEF Range

LEMMA RangeAppend ==
  ASSUME NEW S, NEW q \in Seq(S), NEW e \in S
  PROVE  Range(Append(q, e)) = Range(q) \cup {e}
<1>1. Append(q, e) \in Seq(S) /\ Len(Append(q, e)) = Len(q) + 1
  OBVIOUS
<1>2. \A i \in 1..Len(q) : Append(q, e)[i] = q[i]
  OBVIOUS
<1>3. Append(q, e)[Len(q) + 1] = e
  OBVIOUS
<1>4. Range(q) = {q[i] : i \in 1..Len(q)}
  BY RangeEquality
<1>5. Range(Append(q, e)) = {Append(q, e)[i] : i \in 1..(Len(q) + 1)}
  BY <1>1, RangeEquality
<1>6. 1..(Len(q) + 1) = 1..Len(q) \cup {Len(q) + 1}
  OBVIOUS
<1> QED BY <1>2, <1>3, <1>4, <1>5, <1>6

LEMMA RangeTail ==
  ASSUME NEW S, NEW q \in Seq(S), q # << >>
  PROVE  Range(q) = {Head(q)} \cup Range(Tail(q))
<1>1. Tail(q) \in Seq(S) /\ Len(Tail(q)) = Len(q) - 1 /\ Len(q) \in Nat \ {0}
  OBVIOUS
<1>2. \A i \in 1..Len(Tail(q)) : i + 1 \in 1..Len(q) /\ Tail(q)[i] = q[i + 1]
  OBVIOUS
<1>3. Range(q) = {q[i] : i \in 1..Len(q)} /\ Range(Tail(q)) = {Tail(q)[i] : i \in 1..Len(Tail(q))}
  BY <1>1, RangeEquality
<1>4. Head(q) = q[1] /\ 1 \in 1..Len(q)
  OBVIOUS
<1>5. ASSUME NEW e \in Range(q) PROVE e = Head(q) \/ e \in Range(Tail(q))
  <2>1. PICK i \in 1..Len(q) : e = q[i]
    BY <1>3
  <2>2. CASE i = 1
    BY <1>4, <2>1, <2>2
  <2>3. CASE i # 1
    <3>1. i - 1 \in 1..Len(Tail(q)) /\ Tail(q)[i - 1] = q[i]
      BY <1>1, <2>3
    <3> QED BY <1>3, <2>1, <3>1
  <2> QED BY <2>2, <2>3
<1>6. Head(q) \in Range(q) /\ Range(Tail(q)) \subseteq Range(q)
  BY <1>2, <1>3, <1>4
<1> QED BY <1>5, <1>6

LEMMA RangeFront ==
  ASSUME NEW S, NEW q \in Seq(S), q # << >>
  PROVE  /\ SubSeq(q, 1, Len(q) - 1) \in Seq(S)
         /\ Range(q) = {q[Len(q)]} \cup Range(SubSeq(q, 1, Len(q) - 1))
<1> DEFINE f == SubSeq(q, 1, Len(q) - 1)
<1>1. Len(q) \in Nat \ {0}
  OBVIOUS
<1>2. f \in Seq(S) /\ Len(f) = Len(q) - 1
  <2>1. \A i \in 1..(Len(q) - 1) : q[i] \in S
    BY <1>1
  <2>2. \A n \in Nat : n \in Int /\ (IF 1 <= n THEN n - 1 + 1 ELSE 0) = n
    OBVIOUS
  <2>3. Len(q) - 1 \in Nat
    BY <1>1
  <2>4. f \in Seq(S) /\ Len(f) = IF 1 <= Len(q) - 1 THEN (Len(q) - 1) - 1 + 1 ELSE 0
    BY <2>1, <2>2, <2>3, SubSeqProperties
  <2> QED BY <2>2, <2>3, <2>4
<1>3. \A i \in 1..Len(f) : f[i] = q[i]
  BY <1>1, <1>2
<1>4. Range(q) = {q[i] : i \in 1..Len(q)} /\ Range(f) = {f[i] : i \in 1..Len(f)}
  BY <1>2, RangeEquality
<1>5. 1..Len(q) = 1..Len(f) \cup {Len(q)}
  BY <1>1, <1>2
<1> HIDE DEF f
<1>6. Range(q) = {q[Len(q)]} \cup Range(f)
  <2>1. \A e \in Range(q) : e = q[Len(q)] \/ e \in Range(f)
    BY <1>3, <1>4, <1>5
  <2>2. \A e \in Range(f) : e \in Range(q)
    BY <1>3, <1>4, <1>5
  <2>3. q[Len(q)] \in Range(q)
    BY <1>4, <1>5
  <2> QED BY <2>1, <2>2, <2>3
<1> QED BY <1>2, <1>6 DEF f

---------------------------------------------------------------------------
(* What is left to do, wherever it is: the operations of all frames and    *)
(* the items of all queues.                                                *)
Ops == UNION {Range(frame[g]) : g \in Group}
Queued == UNION {Range(local[g]) \cup Range(work[g]) : g \in Group}

Pending(item) == item \in Queued \/ Send(item) \in Ops

LEMMA OpsAfter ==
  ASSUME TypeOK, NEW g \in Group, NEW q \in Seq(Op), frame' = [frame EXCEPT ![g] = q]
  PROVE  /\ Range(q) \subseteq Ops'
         /\ Ops' \subseteq Ops \cup Range(q)
         /\ Ops \subseteq Ops' \cup Range(frame[g])
<1>1. frame'[g] = q /\ \A h \in Group \ {g} : frame'[h] = frame[h]
  BY DEF TypeOK
<1> QED BY <1>1 DEF Ops

(* The owner of a group does the operation at the head of its frame and    *)
(* puts others in its place.                                               *)
LEMMA PopOp ==
  ASSUME TypeOK, NEW g \in Group, frame[g] # << >>, NEW new \in Seq(Op),
         frame' = [frame EXCEPT ![g] = new \o Next_(g)]
  PROVE  /\ Range(new) \subseteq Ops'
         /\ Ops' \subseteq Ops \cup Range(new)
         /\ Ops \subseteq Ops' \cup {Head(frame[g])}
         /\ Head(frame[g]) \in Ops
<1>1. frame[g] \in Seq(Op) /\ Next_(g) \in Seq(Op)
  BY FrameStepType DEF TypeOK
<1>2. Range(frame[g]) = {Head(frame[g])} \cup Range(Next_(g))
  BY <1>1, RangeTail DEF Next_
<1>3. new \o Next_(g) \in Seq(Op) /\ Range(new \o Next_(g)) = Range(new) \cup Range(Next_(g))
  BY <1>1, RangeConcatenation, ConcatType
<1>4. /\ Range(new \o Next_(g)) \subseteq Ops'
      /\ Ops' \subseteq Ops \cup Range(new \o Next_(g))
      /\ Ops \subseteq Ops' \cup Range(frame[g])
  BY <1>3, OpsAfter
<1>5. Range(frame[g]) \subseteq Ops
  BY DEF Ops
<1> QED BY <1>2, <1>3, <1>4, <1>5

LEMMA PopLastOp ==
  ASSUME TypeOK, NEW g \in Group, frame[g] # << >>, frame' = [frame EXCEPT ![g] = Next_(g)]
  PROVE  /\ Ops' \subseteq Ops
         /\ Ops \subseteq Ops' \cup {Head(frame[g])}
         /\ Head(frame[g]) \in Ops
<1>1. Next_(g) \in Seq(Op)
  BY FrameStepType
<1>2. << >> \o Next_(g) = Next_(g)
  BY <1>1
<1>3. frame' = [frame EXCEPT ![g] = << >> \o Next_(g)]
  BY <1>2
<1> QED BY <1>3, PopOp, NoOpType, RangeOfEmpty

LEMMA SameOps ==
  ASSUME frame' = frame
  PROVE  Ops' = Ops
  BY DEF Ops

LEMMA SameQueued ==
  ASSUME local' = local, work' = work
  PROVE  Queued' = Queued
  BY DEF Queued

LEMMA QueueLocal ==
  ASSUME TypeOK, NEW g \in Group, NEW item \in WorkItem,
         local' = [local EXCEPT ![g] = Append(@, item)], work' = work
  PROVE  Queued' = Queued \cup {item}
<1>1. local'[g] = Append(local[g], item) /\ \A h \in Group \ {g} : local'[h] = local[h]
  BY DEF TypeOK
<1>2. Range(local'[g]) = Range(local[g]) \cup {item}
  BY <1>1, RangeAppend DEF TypeOK
<1> QED BY <1>1, <1>2 DEF Queued

LEMMA QueueWork ==
  ASSUME TypeOK, NEW g \in Group, NEW item \in WorkItem,
         work' = [work EXCEPT ![g] = Append(@, item)], local' = local
  PROVE  Queued' = Queued \cup {item}
<1>1. work'[g] = Append(work[g], item) /\ \A h \in Group \ {g} : work'[h] = work[h]
  BY DEF TypeOK
<1>2. Range(work'[g]) = Range(work[g]) \cup {item}
  BY <1>1, RangeAppend DEF TypeOK
<1> QED BY <1>1, <1>2 DEF Queued

---------------------------------------------------------------------------
(* The changes each step makes to them. *)

LoadedOp(x) == [do |-> "loaded", section |-> x]
LoadOp(s) == [do |-> "load", symbol |-> s]
ExportOp(s) == [do |-> "export", symbol |-> s]
DrainOp(o) == [do |-> "drain", output |-> o]
CopyOp(s) == [do |-> "copy", symbol |-> s]
FailOp == [do |-> "fail"]

(* The steps that hand a group from one task to another, and those that    *)
(* move its posted items to its local queue, leave the work as it is.      *)
Handover ==
  /\ Ops' = Ops
  /\ Queued' = Queued
  /\ \A g \in Group : act'[g] = "Queued" <=> act[g] = "Queued"
  /\ UNCHANGED <<slot, symbolVars, errors>>

LEMMA HandoverSteps ==
  ASSUME TypeOK, NEW g \in Group,
         \/ DelayProcessing(g) \/ StartProcessing(g) \/ CountDown(g) \/ PopDelayed(g)
         \/ RunSpawned(g) \/ Park(g) \/ SwapWork(g)
  PROVE  Handover
<1> USE DEF sharedVars, symbolVars, resultVars, Handover
<1>1. CASE DelayProcessing(g)
  BY <1>1, SameOps, SameQueued DEF DelayProcessing, TypeOK
<1>2. CASE StartProcessing(g)
  BY <1>2, SameOps, SameQueued DEF StartProcessing, TypeOK
<1>3. CASE CountDown(g)
  BY <1>3, SameOps, SameQueued DEF CountDown, TypeOK
<1>4. CASE PopDelayed(g)
  <2>1. frame' = frame /\ local' = local /\ work' = work /\ UNCHANGED <<slot, symbolVars, errors>>
    BY <1>4 DEF PopDelayed
  <2>2. \A h \in Group : act'[h] = "Queued" <=> act[h] = "Queued"
    BY <1>4 DEF PopDelayed, TypeOK
  <2> QED BY <2>1, <2>2, SameOps, SameQueued
<1>5. CASE RunSpawned(g)
  BY <1>5, SameOps, SameQueued DEF RunSpawned, TypeOK
<1>6. CASE Park(g)
  BY <1>6, SameOps, SameQueued DEF Park, Return, TypeOK
<1>7. CASE SwapWork(g)
  <2> USE <1>7 DEF SwapWork
  <2>1. \A h \in Group \ {g} : local'[h] = local[h] /\ work'[h] = work[h]
    BY DEF TypeOK
  <2>2. local'[g] = work[g] /\ work'[g] = << >> /\ local[g] = << >>
    BY DEF TypeOK
  <2>3. Queued' = Queued
    BY <2>1, <2>2 DEF Queued
  <2> QED BY <2>3, SameOps
<1> QED BY <1>1, <1>2, <1>3, <1>4, <1>5, <1>6, <1>7

LEMMA ActivateDelta ==
  ASSUME TypeOK, IInv, NEW g \in Group, ActivateFile(g)
  PROVE  /\ \E ops \in ActivationOutcomes(g) : Ops' = Ops \cup Range(ops)
         /\ Queued' = Queued \cup {LoadSection(x) : x \in Range(RootSections[g])}
<1> USE DEF ActivateFile
<1>1. runner[g] = "Idle" /\ ~HeldByQueue(g)
  BY DEF IInv, OneOwner, HeldByActivation, HeldByTask
<1>2. frame[g] = << >> /\ local[g] = << >>
  BY <1>1 DEF IInv, QueuesOwned, HeldByTask
<1>3. PICK ops \in ActivationOutcomes(g) : frame' = [frame EXCEPT ![g] = ops]
  OBVIOUS
<1>4. Ops' = Ops \cup Range(ops)
  BY <1>2, <1>3, OpsAfter, ActivationOutcomesType, RangeOfEmpty
<1>5. RootSections[g] \in Seq(Section)
  BY RootAssumption
<1>6. Range(local'[g]) = {LoadSection(x) : x \in Range(RootSections[g])}
  <2>1. local'[g] = [i \in 1..Len(RootSections[g]) |-> LoadSection(RootSections[g][i])]
    BY DEF TypeOK
  <2>2. Range(RootSections[g]) = {RootSections[g][i] : i \in 1..Len(RootSections[g])}
    BY <1>5, RangeEquality
  <2> HIDE DEF ActivateFile
  <2>3. \A q : q = [i \in 1..Len(RootSections[g]) |-> LoadSection(RootSections[g][i])] =>
                 Range(q) = {LoadSection(RootSections[g][i]) : i \in 1..Len(RootSections[g])}
    BY Zenon DEF Range
  <2> QED BY <2>1, <2>2, <2>3
<1>7. \A h \in Group \ {g} : local'[h] = local[h]
  BY DEF TypeOK
<1>9. work' = work
  BY DEF sharedVars
<1> HIDE DEF ActivateFile
<1>8. Queued' = Queued \cup {LoadSection(x) : x \in Range(RootSections[g])}
  BY <1>2, <1>6, <1>7, <1>9, RangeOfEmpty DEF Queued
<1> QED BY <1>4, <1>8

LEMMA TakeDelta ==
  ASSUME TypeOK, NEW g \in Group, TakeWork(g)
  PROVE  \E item \in WorkItem :
           /\ item \in Range(local[g]) /\ item \in Queued
           /\ Ops' = Ops \cup Range(WorkOps(item))
           /\ Queued' \subseteq Queued
           /\ Queued \subseteq Queued' \cup {item}
<1> USE DEF TakeWork, Idle
<1> DEFINE item == local[g][Len(local[g])]
<1>1. local[g] \in Seq(WorkItem) /\ local[g] # << >> /\ Len(local[g]) \in 1..Len(local[g])
  BY DEF TypeOK
<1>2. item \in WorkItem
  BY <1>1
<1>3. Range(local[g]) = {item} \cup Range(local'[g])
  <2>1. local'[g] = SubSeq(local[g], 1, Len(local[g]) - 1)
    BY DEF TypeOK
  <2> QED BY <1>1, <2>1, RangeFront
<1>4. \A h \in Group \ {g} : local'[h] = local[h]
  BY DEF TypeOK
<1>5. Queued' \subseteq Queued /\ Queued \subseteq Queued' \cup {item} /\ item \in Queued
  BY <1>3, <1>4 DEF Queued, sharedVars
<1>6. WorkOps(item) \in Seq(Op)
  BY <1>2, WorkOpsType
<1>7. Ops' = Ops \cup Range(WorkOps(item))
  BY <1>6, OpsAfter, RangeOfEmpty
<1> HIDE DEF item
<1> QED BY <1>2, <1>3, <1>5, <1>7

LEMMA SendDelta ==
  ASSUME TypeOK, NEW g \in Group, SendLocal(g) \/ SendRemote(g)
  PROVE  \E item \in WorkItem :
           /\ Send(item) \in Ops
           /\ Ops' \subseteq Ops
           /\ Ops \subseteq Ops' \cup {Send(item)}
           /\ Queued' = Queued \cup {item}
<1> DEFINE item == Head(frame[g]).item
<1>1. Doing(g, "send") /\ frame' = [frame EXCEPT ![g] = Next_(g)]
  BY DEF SendLocal, SendRemote
<1>2. item \in WorkItem /\ Head(frame[g]) \in Op
  BY <1>1, FrameStepType, OpFields DEF Doing
<1>3. Head(frame[g]) = Send(item)
  BY <1>1, <1>2 DEF Doing, Op, Send
<1>4. Ops' \subseteq Ops /\ Ops \subseteq Ops' \cup {Send(item)} /\ Send(item) \in Ops
  BY <1>1, <1>3, PopLastOp DEF Doing
<1>5. ItemGroup(item) \in Group
  BY <1>2, SectionAssumption, SymbolAssumption DEF ItemGroup, WorkItem
<1>6. Queued' = Queued \cup {item}
  <2>1. CASE SendLocal(g)
    BY <1>2, <2>1, QueueLocal DEF SendLocal, sharedVars
  <2>2. CASE SendRemote(g)
    <3>1. work' = [work EXCEPT ![ItemGroup(item)] = Append(@, item)] /\ local' = local
      BY <2>2 DEF SendRemote
    <3> QED BY <1>2, <1>5, <3>1, QueueWork
  <2> QED BY <2>1, <2>2
<1> HIDE DEF item
<1> QED BY <1>2, <1>4, <1>6

ReferenceOp(rel) == [do |-> "reference", rel |-> rel]

LEMMA ReferenceDelta ==
  ASSUME TypeOK, NEW g \in Group, ReferenceSymbol(g)
  PROVE  \E rel \in Relocation :
           /\ ReferenceOp(rel) \in Ops
           /\ \/ /\ rel.fails
                 /\ FailOp \in Ops'
                 /\ Ops' \subseteq Ops \cup {FailOp}
                 /\ flags' = flags
              \/ /\ ~rel.fails
                 /\ undefinedRefs' = undefinedRefs \cup (IF rel.undefined THEN {rel.symbol} ELSE {})
                 /\ flags' = [flags EXCEPT ![rel.symbol] = @ \cup rel.flags]
                 /\ Ops \subseteq Ops' \cup {ReferenceOp(rel)}
                 /\ flags[rel.symbol] = {} => Send(LoadGlobalSymbol(rel.symbol)) \in Ops'
                 /\ "COPY_RELOCATION" \in rel.flags \ flags[rel.symbol] =>
                      Send(CopyRelocateSymbol(rel.symbol)) \in Ops'
                 /\ \A op \in Ops' \ Ops :
                      \/ op = Send(LoadGlobalSymbol(rel.symbol)) /\ flags[rel.symbol] = {}
                      \/ /\ op = Send(CopyRelocateSymbol(rel.symbol))
                         /\ "COPY_RELOCATION" \in rel.flags
           /\ Queued' = Queued
<1> DEFINE rel == Head(frame[g]).rel
           request == IF flags[rel.symbol] = {}
                        THEN <<Send(LoadGlobalSymbol(rel.symbol))>> ELSE << >>
           copy == IF "COPY_RELOCATION" \in rel.flags \ flags[rel.symbol]
                     THEN <<Send(CopyRelocateSymbol(rel.symbol))>> ELSE << >>
<1>1. Doing(g, "reference") /\ frame[g] # << >>
  BY DEF ReferenceSymbol, Doing
<1>2. rel \in Relocation /\ Head(frame[g]) \in Op
  BY <1>1, FrameStepType, OpFields DEF Doing
<1>3. Head(frame[g]) = ReferenceOp(rel)
  BY <1>1, <1>2 DEF Doing, Op, ReferenceOp
<1>4. Queued' = Queued
  BY SameQueued DEF ReferenceSymbol, sharedVars
<1>5. Head(frame[g]) \in Ops
  <2>1. Range(frame[g]) = {Head(frame[g])} \cup Range(Tail(frame[g]))
    BY <1>1, RangeTail DEF TypeOK
  <2> QED BY <2>1 DEF Ops
<1>6. CASE rel.fails
  <2>1. frame' = [frame EXCEPT ![g] = <<FailOp>>] /\ flags' = flags
    BY <1>6 DEF ReferenceSymbol, FailOp
  <2>2. <<FailOp>> \in Seq(Op)
    BY OpConstructors, OneOpType DEF FailOp
  <2>3. FailOp \in Ops' /\ Ops' \subseteq Ops \cup {FailOp}
    BY <2>1, <2>2, OpsAfter, RangeOfOne
  <2> HIDE DEF rel
  <2> QED BY <1>2, <1>3, <1>4, <1>5, <1>6, <2>1, <2>3
<1>7. CASE ~rel.fails
  <2>1. /\ frame' = [frame EXCEPT ![g] = (request \o copy) \o Next_(g)]
        /\ flags' = [flags EXCEPT ![rel.symbol] = @ \cup rel.flags]
    BY <1>7 DEF ReferenceSymbol
  <2>8. undefinedRefs' = undefinedRefs \cup (IF rel.undefined THEN {rel.symbol} ELSE {})
    <3>1. undefinedRefs' = IF rel.undefined THEN undefinedRefs \cup {rel.symbol} ELSE undefinedRefs
      BY <1>7 DEF ReferenceSymbol
    <3> HIDE DEF rel
    <3> QED BY <3>1
  <2>2. rel.symbol \in Symbol
    BY <1>2 DEF Relocation
  <2>3. request \in Seq(Op) /\ copy \in Seq(Op)
    BY <2>2, OpConstructors, OneOpType, NoOpType
  <2>4. Range(request \o copy) = Range(request) \cup Range(copy) /\ request \o copy \in Seq(Op)
    <3> HIDE DEF request, copy
    <3> QED BY <2>3, RangeConcatenation, ConcatType
  <2>5. /\ Range(request) = IF flags[rel.symbol] = {}
                              THEN {Send(LoadGlobalSymbol(rel.symbol))} ELSE {}
        /\ Range(copy) = IF "COPY_RELOCATION" \in rel.flags \ flags[rel.symbol]
                           THEN {Send(CopyRelocateSymbol(rel.symbol))} ELSE {}
    BY RangeOfOne, RangeOfEmpty
  <2>6. /\ Range(request \o copy) \subseteq Ops'
        /\ Ops' \subseteq Ops \cup Range(request \o copy)
        /\ Ops \subseteq Ops' \cup {Head(frame[g])}
    BY <1>1, <2>1, <2>4, PopOp
  <2> HIDE DEF rel, request, copy
  <2>7. \A op \in Ops' \ Ops :
          \/ op = Send(LoadGlobalSymbol(rel.symbol)) /\ flags[rel.symbol] = {}
          \/ op = Send(CopyRelocateSymbol(rel.symbol)) /\ "COPY_RELOCATION" \in rel.flags
    BY <2>4, <2>5, <2>6
  <2> QED BY <1>2, <1>3, <1>4, <1>5, <1>7, <2>1, <2>4, <2>5, <2>6, <2>7, <2>8
<1> QED BY <1>6, <1>7

LEMMA LoadEffectDelta ==
  ASSUME TypeOK, NEW g \in Group, NEW s \in Symbol, LoadSymbolEffect(g, s), work' = work
  PROVE  Queued' = Queued \cup (IF SymbolKind[s] = "Section"
                                  THEN {LoadSection(SymbolSection[s])} ELSE {})
<1>1. CASE SymbolKind[s] = "Section"
  <2>1. LoadSection(SymbolSection[s]) \in WorkItem
    BY SymbolAssumption DEF LoadSection, WorkItem
  <2> QED BY <1>1, <2>1, QueueLocal DEF LoadSymbolEffect
<1>2. CASE SymbolKind[s] # "Section"
  BY <1>2, SameQueued DEF LoadSymbolEffect
<1> QED BY <1>1, <1>2

LEMMA LoadDelta ==
  ASSUME TypeOK, NEW g \in Group, LoadSymbol(g)
  PROVE  \E s \in Symbol :
           /\ LoadOp(s) \in Ops
           /\ Ops' \subseteq Ops
           /\ Ops \subseteq Ops' \cup {LoadOp(s)}
           /\ LoadSymbolEffect(g, s)
           /\ Queued' = Queued \cup (IF SymbolKind[s] = "Section"
                                       THEN {LoadSection(SymbolSection[s])} ELSE {})
<1> DEFINE s == Head(frame[g]).symbol
<1>1. Doing(g, "load") /\ frame[g] # << >> /\ frame' = [frame EXCEPT ![g] = Next_(g)]
  BY DEF LoadSymbol, Doing
<1>2. s \in Symbol /\ Head(frame[g]) \in Op
  BY <1>1, FrameStepType, OpFields DEF Doing
<1>3. Head(frame[g]) = LoadOp(s)
  BY <1>1, <1>2 DEF Doing, Op, LoadOp
<1>4. Ops' \subseteq Ops /\ Ops \subseteq Ops' \cup {LoadOp(s)} /\ LoadOp(s) \in Ops
  BY <1>1, <1>3, PopLastOp
<1>5. LoadSymbolEffect(g, s) /\ work' = work
  BY DEF LoadSymbol, sharedVars
<1> HIDE DEF s
<1> QED BY <1>2, <1>4, <1>5, LoadEffectDelta

LEMMA ExportDelta ==
  ASSUME TypeOK, NEW g \in Group, ExportSymbol(g)
  PROVE  \E s \in Symbol :
           /\ ExportOp(s) \in Ops
           /\ Ops' \subseteq Ops
           /\ Ops \subseteq Ops' \cup {ExportOp(s)}
           /\ \/ /\ CanExport(s) /\ flags[s] = {}
                 /\ flags' = [flags EXCEPT ![s] = @ \cup {"EXPORT_DYNAMIC"}]
                 /\ LoadSymbolEffect(g, s)
                 /\ Queued' = Queued \cup (IF SymbolKind[s] = "Section"
                                             THEN {LoadSection(SymbolSection[s])} ELSE {})
              \/ /\ CanExport(s) /\ flags[s] # {}
                 /\ flags' = [flags EXCEPT ![s] = @ \cup {"EXPORT_DYNAMIC"}]
                 /\ Queued' = Queued /\ commonAllocs' = commonAllocs
              \/ /\ ~CanExport(s) /\ flags' = flags
                 /\ Queued' = Queued /\ commonAllocs' = commonAllocs
<1> DEFINE s == Head(frame[g]).symbol
<1>1. Doing(g, "export") /\ frame[g] # << >> /\ frame' = [frame EXCEPT ![g] = Next_(g)]
  BY DEF ExportSymbol, Doing
<1>2. s \in Symbol /\ Head(frame[g]) \in Op
  BY <1>1, FrameStepType, OpFields DEF Doing
<1>3. Head(frame[g]) = ExportOp(s)
  BY <1>1, <1>2 DEF Doing, Op, ExportOp
<1>4. Ops' \subseteq Ops /\ Ops \subseteq Ops' \cup {ExportOp(s)} /\ ExportOp(s) \in Ops
  BY <1>1, <1>3, PopLastOp
<1>5. work' = work
  BY DEF ExportSymbol, sharedVars
<1>6. CASE CanExport(s) /\ flags[s] = {}
  <2>1. LoadSymbolEffect(g, s) /\ flags' = [flags EXCEPT ![s] = @ \cup {"EXPORT_DYNAMIC"}]
    BY <1>6, Zenon DEF ExportSymbol
  <2> HIDE DEF s
  <2> QED BY <1>2, <1>4, <1>5, <1>6, <2>1, LoadEffectDelta
<1>7. CASE CanExport(s) /\ flags[s] # {}
  <2>1. /\ UNCHANGED <<local, commonAllocs>>
        /\ flags' = [flags EXCEPT ![s] = @ \cup {"EXPORT_DYNAMIC"}]
    BY <1>7, Zenon DEF ExportSymbol
  <2> HIDE DEF s
  <2> QED BY <1>2, <1>4, <1>5, <1>7, <2>1, SameQueued
<1>8. CASE ~CanExport(s)
  <2>1. UNCHANGED <<flags, local, commonAllocs>>
    BY <1>8 DEF ExportSymbol
  <2> HIDE DEF s
  <2> QED BY <1>2, <1>4, <1>5, <1>8, <2>1, SameQueued
<1> QED BY <1>6, <1>7, <1>8

LEMMA DrainDelta ==
  ASSUME TypeOK, NEW g \in Group, DrainStartStop(g)
  PROVE  \E o \in OutputSection :
           /\ DrainOp(o) \in Ops
           /\ Queued' = Queued
           /\ \/ /\ startStop[o] = {} /\ startStop' = startStop
                 /\ Ops' \subseteq Ops
                 /\ Ops \subseteq Ops' \cup {DrainOp(o)}
              \/ \E x \in startStop[o] :
                   /\ startStop' = [startStop EXCEPT ![o] = @ \ {x}]
                   /\ Ops' = Ops \cup {Send(LoadSection(x))}
<1> DEFINE o == Head(frame[g]).output
<1>1. Doing(g, "drain") /\ frame[g] # << >>
  BY DEF DrainStartStop, Doing
<1>2. o \in OutputSection /\ Head(frame[g]) \in Op
  BY <1>1, FrameStepType, OpFields DEF Doing
<1>3. Head(frame[g]) = DrainOp(o)
  BY <1>1, <1>2 DEF Doing, Op, DrainOp
<1>4. Queued' = Queued
  BY SameQueued DEF DrainStartStop, sharedVars
<1>5. Head(frame[g]) \in Ops
  <2>1. Range(frame[g]) = {Head(frame[g])} \cup Range(Tail(frame[g]))
    BY <1>1, RangeTail DEF TypeOK
  <2> QED BY <2>1 DEF Ops
<1>6. CASE startStop[o] = {} /\ frame' = [frame EXCEPT ![g] = Next_(g)] /\ startStop' = startStop
  <2>1. Ops' \subseteq Ops /\ Ops \subseteq Ops' \cup {DrainOp(o)}
    BY <1>1, <1>3, <1>6, PopLastOp
  <2> HIDE DEF o
  <2> QED BY <1>2, <1>3, <1>4, <1>5, <1>6, <2>1
<1>7. ASSUME NEW x \in startStop[o],
             startStop' = [startStop EXCEPT ![o] = @ \ {x}],
             frame' = [frame EXCEPT ![g] = <<Send(LoadSection(x))>> \o @]
      PROVE  Ops' = Ops \cup {Send(LoadSection(x))}
  <2>1. x \in Section /\ frame[g] \in Seq(Op)
    BY <1>2 DEF TypeOK
  <2>2. <<Send(LoadSection(x))>> \in Seq(Op)
    BY <2>1, OpConstructors, OneOpType
  <2>3. /\ <<Send(LoadSection(x))>> \o frame[g] \in Seq(Op)
        /\ Range(<<Send(LoadSection(x))>> \o frame[g])
             = Range(<<Send(LoadSection(x))>>) \cup Range(frame[g])
    BY <2>1, <2>2, RangeConcatenation, ConcatType, ZenonT(60)
  <2>4. Range(<<Send(LoadSection(x))>>) = {Send(LoadSection(x))}
    BY RangeOfOne
  <2>5. frame' = [frame EXCEPT ![g] = <<Send(LoadSection(x))>> \o frame[g]]
    BY <1>7
  <2>6. Range(frame[g]) \subseteq Ops
    BY DEF Ops
  <2> HIDE DEF o
  <2> QED BY <2>3, <2>4, <2>5, <2>6, OpsAfter
<1>8. CASE \E x \in startStop[o] :
             /\ startStop' = [startStop EXCEPT ![o] = @ \ {x}]
             /\ frame' = [frame EXCEPT ![g] = <<Send(LoadSection(x))>> \o @]
  <2> HIDE DEF o
  <2> QED BY <1>2, <1>3, <1>4, <1>5, <1>7, <1>8
<1>9. \/ startStop[o] = {} /\ frame' = [frame EXCEPT ![g] = Next_(g)] /\ startStop' = startStop
      \/ \E x \in startStop[o] :
           /\ startStop' = [startStop EXCEPT ![o] = @ \ {x}]
           /\ frame' = [frame EXCEPT ![g] = <<Send(LoadSection(x))>> \o @]
  BY DEF DrainStartStop
<1> QED BY <1>6, <1>8, <1>9

LEMMA MarkDelta ==
  ASSUME TypeOK, NEW g \in Group, MarkLoaded(g)
  PROVE  \E x \in Section :
           /\ LoadedOp(x) \in Ops
           /\ Ops' \subseteq Ops
           /\ Ops \subseteq Ops' \cup {LoadedOp(x)}
           /\ slot' = [slot EXCEPT ![x] = "Loaded"]
           /\ Queued' = Queued
<1> DEFINE x == Head(frame[g]).section
<1>1. Doing(g, "loaded") /\ frame[g] # << >> /\ frame' = [frame EXCEPT ![g] = Next_(g)]
  BY DEF MarkLoaded, Doing
<1>2. x \in Section /\ Head(frame[g]) \in Op
  BY <1>1, FrameStepType, OpFields DEF Doing
<1>3. Head(frame[g]) = LoadedOp(x)
  BY <1>1, <1>2 DEF Doing, Op, LoadedOp
<1>4. Ops' \subseteq Ops /\ Ops \subseteq Ops' \cup {LoadedOp(x)} /\ LoadedOp(x) \in Ops
  BY <1>1, <1>3, PopLastOp
<1>5. slot' = [slot EXCEPT ![x] = "Loaded"] /\ Queued' = Queued
  BY SameQueued DEF MarkLoaded, sharedVars
<1> HIDE DEF x
<1> QED BY <1>2, <1>4, <1>5

LEMMA CopyDelta ==
  ASSUME TypeOK, NEW g \in Group, CopyRelocate(g)
  PROVE  \E s \in Symbol :
           /\ CopyOp(s) \in Ops
           /\ Ops' \subseteq Ops
           /\ Ops \subseteq Ops' \cup {CopyOp(s)}
           /\ copyInfo' = [copyInfo EXCEPT ![SymbolAddress[s]] = AddSymbol(@, s)]
           /\ Queued' = Queued
<1> DEFINE s == Head(frame[g]).symbol
<1>1. Doing(g, "copy") /\ frame[g] # << >> /\ frame' = [frame EXCEPT ![g] = Next_(g)]
  BY DEF CopyRelocate, Doing
<1>2. s \in Symbol /\ Head(frame[g]) \in Op
  BY <1>1, FrameStepType, OpFields DEF Doing
<1>3. Head(frame[g]) = CopyOp(s)
  BY <1>1, <1>2 DEF Doing, Op, CopyOp
<1>4. Ops' \subseteq Ops /\ Ops \subseteq Ops' \cup {CopyOp(s)} /\ CopyOp(s) \in Ops
  BY <1>1, <1>3, PopLastOp
<1>5. /\ copyInfo' = [copyInfo EXCEPT ![SymbolAddress[s]] = AddSymbol(@, s)]
      /\ Queued' = Queued
  BY SameQueued DEF CopyRelocate, sharedVars
<1> HIDE DEF s
<1> QED BY <1>2, <1>4, <1>5

(* An error drops what its task was at, and is counted. *)
LEMMA ErrorDelta ==
  ASSUME TypeOK, NEW g \in Group, ActivationError(g) \/ WorkError(g)
  PROVE  /\ Ops' \subseteq Ops
         /\ Queued' \subseteq Queued
         /\ errors' # 0
         /\ UNCHANGED <<slot, symbolVars>>
<1>1. frame' = [frame EXCEPT ![g] = << >>] /\ errors' = errors + 1 /\ UNCHANGED <<slot, symbolVars>>
  BY DEF ActivationError, WorkError
<1>2. Ops' \subseteq Ops
  BY <1>1, OpsAfter, NoOpType, RangeOfEmpty
<1>3. work' = work /\ \A h \in Group : local'[h] = local[h] \/ local'[h] = << >>
  BY DEF ActivationError, WorkError, sharedVars, TypeOK
<1>4. Queued' \subseteq Queued
  BY <1>3, RangeOfEmpty DEF Queued
<1> QED BY <1>1, <1>2, <1>4 DEF TypeOK

---------------------------------------------------------------------------
(* The operations that activating a file and handling an item amount to.   *)

LEMMA OpsConcat ==
  ASSUME NEW a \in Seq(Op), NEW b \in Seq(Op)
  PROVE  a \o b \in Seq(Op) /\ Range(a \o b) = Range(a) \cup Range(b)
  BY RangeConcatenation

LEMMA ActivationRange ==
  ASSUME NEW g \in Group
  PROVE  Range(ActivationOps(g)) =
           {Reference(s, {"DIRECT"}) : s \in Range(RootReferences[g])}
           \cup {ExportOp(s) : s \in Range(Exports[g])}
           \cup {Send(ExportDynamic(s)) : s \in Range(ExportRequests[g])}
<1> DEFINE a == [i \in 1..Len(RootReferences[g]) |-> Reference(RootReferences[g][i], {"DIRECT"})]
           b == [i \in 1..Len(Exports[g]) |-> [do |-> "export", symbol |-> Exports[g][i]]]
           c == [i \in 1..Len(ExportRequests[g]) |-> Send(ExportDynamic(ExportRequests[g][i]))]
<1>1. /\ RootReferences[g] \in Seq(Symbol) /\ Exports[g] \in Seq(Symbol)
      /\ ExportRequests[g] \in Seq(Symbol)
  BY RootAssumption
<1>2. a \in Seq(Op) /\ b \in Seq(Op) /\ c \in Seq(Op)
  BY <1>1 DEF Op, Reference, Relocation, ValueFlag, Send, ExportDynamic, WorkItem
<1>3. Range(a) = {Reference(s, {"DIRECT"}) : s \in Range(RootReferences[g])}
  <2>1. Range(RootReferences[g]) = {RootReferences[g][i] : i \in 1..Len(RootReferences[g])}
    BY <1>1, RangeEquality
  <2>2. Range(a) = {Reference(RootReferences[g][i], {"DIRECT"}) : i \in 1..Len(RootReferences[g])}
    BY Zenon DEF Range
  <2> QED BY <2>1, <2>2
<1>4. Range(b) = {ExportOp(s) : s \in Range(Exports[g])}
  <2>1. Range(Exports[g]) = {Exports[g][i] : i \in 1..Len(Exports[g])}
    BY <1>1, RangeEquality
  <2>2. Range(b) = {ExportOp(Exports[g][i]) : i \in 1..Len(Exports[g])}
    BY Zenon DEF Range, ExportOp
  <2> QED BY <2>1, <2>2
<1>5. Range(c) = {Send(ExportDynamic(s)) : s \in Range(ExportRequests[g])}
  <2>1. Range(ExportRequests[g]) = {ExportRequests[g][i] : i \in 1..Len(ExportRequests[g])}
    BY <1>1, RangeEquality
  <2>2. Range(c) = {Send(ExportDynamic(ExportRequests[g][i])) : i \in 1..Len(ExportRequests[g])}
    BY Zenon DEF Range
  <2> QED BY <2>1, <2>2
<1>6. ActivationOps(g) = (a \o b) \o c
  BY DEF ActivationOps
<1> HIDE DEF a, b, c
<1>7. Range((a \o b) \o c) = Range(a) \cup Range(b) \cup Range(c)
  <2>1. a \o b \in Seq(Op) /\ Range(a \o b) = Range(a) \cup Range(b)
    BY <1>2, OpsConcat
  <2>2. Range((a \o b) \o c) = Range(a \o b) \cup Range(c)
    BY <1>2, <2>1, OpsConcat
  <2> QED BY <2>1, <2>2
<1> QED BY <1>3, <1>4, <1>5, <1>6, <1>7

(* A file is activated completely, or its activation ends in a failure. *)
LEMMA OutcomesRange ==
  ASSUME NEW g \in Group, NEW ops \in ActivationOutcomes(g)
  PROVE  \/ Range(ops) = Range(ActivationOps(g))
         \/ FailOp \in Range(ops) /\ Range(ops) \subseteq Range(ActivationOps(g)) \cup {FailOp}
<1>1. ActivationOps(g) \in Seq(Op)
  BY ActivationOpsType
<1>2. ASSUME NEW n \in 0..Len(ActivationOps(g)), ops = SubSeq(ActivationOps(g), 1, n) \o <<FailOp>>
      PROVE  FailOp \in Range(ops) /\ Range(ops) \subseteq Range(ActivationOps(g)) \cup {FailOp}
  <2> DEFINE f == SubSeq(ActivationOps(g), 1, n)
  <2>1. f \in Seq(Op) /\ <<FailOp>> \in Seq(Op)
    BY <1>1, OpConstructors, OneOpType DEF FailOp
  <2>2. Range(f) \subseteq Range(ActivationOps(g))
    <3>1. Len(f) = n /\ \A i \in 1..n : f[i] = ActivationOps(g)[i]
      BY <1>1
    <3>2. Range(f) = {f[i] : i \in 1..Len(f)}
      BY <2>1, RangeEquality
    <3>3. Range(ActivationOps(g)) = {ActivationOps(g)[i] : i \in 1..Len(ActivationOps(g))}
      BY <1>1, RangeEquality
    <3>4. Len(ActivationOps(g)) \in Nat /\ 1..n \subseteq 1..Len(ActivationOps(g))
      BY <1>1
    <3> HIDE DEF f
    <3> QED BY <3>1, <3>2, <3>3, <3>4
  <2> HIDE DEF f
  <2>3. Range(f \o <<FailOp>>) = Range(f) \cup {FailOp}
    BY <2>1, OpsConcat, RangeOfOne, ZenonT(60)
  <2> QED BY <1>2, <2>2, <2>3 DEF f
<1> QED BY <1>2 DEF ActivationOutcomes, FailOp

LEMMA ReferenceAllRange ==
  ASSUME NEW rels \in Seq(Relocation)
  PROVE  Range(ReferenceAll(rels)) = {ReferenceOp(rel) : rel \in Range(rels)}
<1>1. Range(rels) = {rels[i] : i \in 1..Len(rels)}
  BY RangeEquality
<1>2. Range(ReferenceAll(rels)) = {ReferenceOp(rels[i]) : i \in 1..Len(rels)}
  BY Zenon DEF Range, ReferenceAll, ReferenceOp
<1> QED BY <1>1, <1>2

RelocationsOf(x) == Range(Relocations[x]) \cup Range(FrameRelocations[x])

LEMMA SectionLoadRange ==
  ASSUME TypeOK, NEW x \in Section
  PROVE  /\ slot[x] = "Loaded" => Range(SectionLoadOps(x)) = {}
         /\ slot[x] = "Discard" => Range(SectionLoadOps(x)) = {FailOp}
         /\ slot[x] \notin {"Loaded", "Discard"} =>
              Range(SectionLoadOps(x)) =
                {ReferenceOp(rel) : rel \in RelocationsOf(x)} \cup {LoadedOp(x)}
<1>1. CASE slot[x] = "Loaded"
  BY <1>1, RangeOfEmpty DEF SectionLoadOps
<1>2. CASE slot[x] = "Discard"
  <2>1. SectionLoadOps(x) = <<FailOp>>
    BY <1>2 DEF SectionLoadOps, FailOp
  <2> QED BY <1>2, <2>1, RangeOfOne
<1>3. CASE slot[x] \notin {"Loaded", "Discard"}
  <2> DEFINE a == ReferenceAll(Relocations[x])
             b == ReferenceAll(FrameRelocations[x])
  <2>1. a \in Seq(Op) /\ b \in Seq(Op)
    BY ReferenceAllType, SectionAssumption
  <2>2. /\ Range(a) = {ReferenceOp(rel) : rel \in Range(Relocations[x])}
        /\ Range(b) = {ReferenceOp(rel) : rel \in Range(FrameRelocations[x])}
    BY ReferenceAllRange, SectionAssumption
  <2>3. <<LoadedOp(x)>> \in Seq(Op)
    BY OpConstructors, OneOpType DEF LoadedOp
  <2>4. SectionLoadOps(x) = (a \o <<LoadedOp(x)>>) \o b
    BY <1>3 DEF SectionLoadOps, LoadedOp
  <2> HIDE DEF a, b
  <2>5. Range((a \o <<LoadedOp(x)>>) \o b) = Range(a) \cup {LoadedOp(x)} \cup Range(b)
    <3>1. /\ a \o <<LoadedOp(x)>> \in Seq(Op)
          /\ Range(a \o <<LoadedOp(x)>>) = Range(a) \cup Range(<<LoadedOp(x)>>)
      BY <2>1, <2>3, OpsConcat
    <3>2. Range((a \o <<LoadedOp(x)>>) \o b) = Range(a \o <<LoadedOp(x)>>) \cup Range(b)
      BY <2>1, <3>1, OpsConcat
    <3>3. Range(<<LoadedOp(x)>>) = {LoadedOp(x)}
      BY RangeOfOne
    <3> QED BY <3>1, <3>2, <3>3
  <2> QED BY <1>3, <2>2, <2>4, <2>5 DEF RelocationsOf
<1> QED BY <1>1, <1>2, <1>3

LEMMA SymbolRequestRange ==
  ASSUME NEW s \in Symbol
  PROVE  /\ SymbolKind[s] \in {"Section", "Common"} => Range(SymbolRequestOps(s)) = {LoadOp(s)}
         /\ SymbolKind[s] = "StartStop" => Range(SymbolRequestOps(s)) = {DrainOp(SymbolOutput[s])}
         /\ SymbolKind[s] \in {"Dynamic", "Other"} => Range(SymbolRequestOps(s)) = {}
<1>1. CASE SymbolKind[s] \in {"Section", "Common"}
  <2>1. SymbolRequestOps(s) = <<LoadOp(s)>>
    BY <1>1 DEF SymbolRequestOps, LoadOp
  <2> QED BY <1>1, <2>1, RangeOfOne
<1>2. CASE SymbolKind[s] = "StartStop"
  <2>1. SymbolRequestOps(s) = <<DrainOp(SymbolOutput[s])>>
    BY <1>2 DEF SymbolRequestOps, DrainOp
  <2> QED BY <1>2, <2>1, RangeOfOne
<1>3. CASE SymbolKind[s] \in {"Dynamic", "Other"}
  BY <1>3, RangeOfEmpty DEF SymbolRequestOps
<1> QED BY <1>1, <1>2, <1>3

LEMMA ExportDynamicRange ==
  ASSUME NEW s \in Symbol
  PROVE  Range(ExportDynamicOps(s)) =
           IF SymbolKind[s] \in {"Section", "Common"} THEN {ExportOp(s)} ELSE {}
  BY RangeOfOne, RangeOfEmpty DEF ExportDynamicOps, ExportOp

LEMMA CopyRelocateRange ==
  ASSUME NEW s \in Symbol
  PROVE  Range(CopyRelocateOps(s)) = {IF SymbolKind[s] = "Dynamic" THEN CopyOp(s) ELSE FailOp}
  BY RangeOfOne DEF CopyRelocateOps, CopyOp, FailOp

(* Which items there are, and the operations of each. *)
LEMMA ItemKinds ==
  ASSUME NEW item \in WorkItem
  PROVE  \/ \E x \in Section : item = LoadSection(x) /\ WorkOps(item) = SectionLoadOps(x)
         \/ \E s \in Symbol : item = LoadGlobalSymbol(s) /\ WorkOps(item) = SymbolRequestOps(s)
         \/ \E s \in Symbol : item = ExportDynamic(s) /\ WorkOps(item) = ExportDynamicOps(s)
         \/ \E s \in Symbol : item = CopyRelocateSymbol(s) /\ WorkOps(item) = CopyRelocateOps(s)
<1>1. CASE item.kind = "LoadSection"
  <2>1. item.on \in Section /\ item = LoadSection(item.on)
    BY <1>1 DEF WorkItem, LoadSection
  <2> QED BY <1>1, <2>1 DEF WorkOps
<1>2. CASE item.kind = "LoadGlobalSymbol"
  <2>1. item.on \in Symbol /\ item = LoadGlobalSymbol(item.on)
    BY <1>2 DEF WorkItem, LoadGlobalSymbol
  <2> QED BY <1>2, <2>1 DEF WorkOps
<1>3. CASE item.kind = "ExportDynamic"
  <2>1. item.on \in Symbol /\ item = ExportDynamic(item.on)
    BY <1>3 DEF WorkItem, ExportDynamic
  <2> QED BY <1>3, <2>1 DEF WorkOps
<1>4. CASE item.kind = "CopyRelocateSymbol"
  <2>1. item.on \in Symbol /\ item = CopyRelocateSymbol(item.on)
    BY <1>4 DEF WorkItem, CopyRelocateSymbol
  <2> QED BY <1>4, <2>1 DEF WorkOps
<1> QED BY <1>1, <1>2, <1>3, <1>4 DEF WorkItem

---------------------------------------------------------------------------
(* Reachability in the graph of the link. *)
Node == Section \cup Symbol

Needed == Reachable(Node, Root, Edge)

LEMMA GraphTyped == Root \subseteq Node /\ Edge \subseteq Node \X Node
  BY DEF Root, Edge, Node

LEMMA NeededRoot == Root \subseteq Needed
  BY GraphTyped DEF Needed, Reachable, ClosedUnder

LEMMA NeededEdge ==
  ASSUME NEW e \in Edge, e[1] \in Needed
  PROVE  e[2] \in Needed
<1>1. e[2] \in Node
  BY GraphTyped
<1> QED BY <1>1 DEF Needed, Reachable, ClosedUnder

LEMMA NeededLeast ==
  ASSUME NEW C \in SUBSET Node, ClosedUnder(C, Root, Edge)
  PROVE  Needed \subseteq C
  BY DEF Needed, Reachable

LEMMA NeededTyped == Needed \subseteq Node
  BY DEF Needed, Reachable

LEMMA RequestedSymbols ==
  ASSUME NEW x \in Section
  PROVE  /\ RequestedBy(x) = {rel.symbol : rel \in RelocationsOf(x)}
         /\ RelocationsOf(x) \subseteq Relocation
<1>1. Relocations[x] \in Seq(Relocation) /\ FrameRelocations[x] \in Seq(Relocation)
  BY SectionAssumption
<1>2. RelocationsOf(x) \subseteq Relocation
  BY <1>1, RangeOfSeq DEF RelocationsOf
<1> QED BY <1>2 DEF RequestedBy, RelocationsOf, Range

(* What a needed section requests is needed; so are the section that holds *)
(* a needed symbol and the sections a needed symbol delimits.              *)
LEMMA NeededNext ==
  /\ \A x \in Section \cap Needed : \A rel \in RelocationsOf(x) : rel.symbol \in Needed
  /\ \A s \in Symbol \cap Needed : SymbolKind[s] = "Section" => SymbolSection[s] \in Needed
  /\ \A s \in Symbol \cap Needed : \A x \in Section :
       /\ SymbolKind[s] = "StartStop" /\ InitialSlot[x] = "StartStop"
       /\ SectionOutput[x] = SymbolOutput[s]
       => x \in Needed
<1>1. ASSUME NEW x \in Section \cap Needed, NEW rel \in RelocationsOf(x) PROVE rel.symbol \in Needed
  <2>1. rel.symbol \in Symbol /\ rel.symbol \in RequestedBy(x)
    BY RequestedSymbols DEF Relocation
  <2>2. <<x, rel.symbol>> \in Edge
    BY <2>1 DEF Edge
  <2> QED BY <2>2, NeededEdge
<1>2. ASSUME NEW s \in Symbol \cap Needed, SymbolKind[s] = "Section" PROVE SymbolSection[s] \in Needed
  <2>1. <<s, SymbolSection[s]>> \in Edge
    BY <1>2, SymbolAssumption DEF Edge
  <2> QED BY <2>1, NeededEdge
<1>3. ASSUME NEW s \in Symbol \cap Needed, NEW x \in Section,
             SymbolKind[s] = "StartStop", InitialSlot[x] = "StartStop",
             SectionOutput[x] = SymbolOutput[s]
      PROVE  x \in Needed
  <2>1. <<s, x>> \in Edge
    BY <1>3 DEF Edge
  <2> QED BY <2>1, NeededEdge
<1> QED BY <1>1, <1>2, <1>3

(* The symbols that exports make roots. *)
Offered(s) ==
  /\ SymbolKind[s] \in {"Section", "Common"}
  /\ \E g \in Group : s \in Range(Exports[g]) \cup Range(ExportRequests[g])

MayExport(s) ==
  s \in Exportable /\ (SymbolKind[s] = "Section" => InitialSlot[SymbolSection[s]] # "Discard")

LEMMA RootSymbols ==
  /\ \A x \in Section : InitialSlot[x] = "MustLoad" => x \in Needed
  /\ \A g \in Group : \A s \in Range(RootReferences[g]) : s \in Needed
  /\ \A s \in Symbol : Offered(s) /\ MayExport(s) => s \in Needed
<1>1. ASSUME NEW g \in Group PROVE /\ Range(RootReferences[g]) \subseteq Symbol
                                   /\ Range(RootReferences[g]) = {RootReferences[g][i] : i \in DOMAIN RootReferences[g]}
                                   /\ Range(Exports[g]) = {Exports[g][i] : i \in DOMAIN Exports[g]}
                                   /\ Range(ExportRequests[g]) = {ExportRequests[g][i] : i \in DOMAIN ExportRequests[g]}
  BY RootAssumption, RangeOfSeq DEF Range
<1>2. \A x \in Section : InitialSlot[x] = "MustLoad" => x \in Root
  BY DEF Root
<1>3. \A g \in Group : \A s \in Range(RootReferences[g]) : s \in Root
  BY <1>1 DEF Root
<1>4. ASSUME NEW s \in Symbol, Offered(s), MayExport(s) PROVE s \in Root
  <2>1. PICK g \in Group : s \in Range(Exports[g]) \/ s \in Range(ExportRequests[g])
    BY <1>4 DEF Offered
  <2>2. \/ \E i \in DOMAIN Exports[g] : Exports[g][i] = s
        \/ \E i \in DOMAIN ExportRequests[g] : ExportRequests[g][i] = s
    BY <1>1, <2>1
  <2> QED BY <1>4, <2>2 DEF Root, Offered, MayExport
<1> QED BY <1>2, <1>3, <1>4, NeededRoot

---------------------------------------------------------------------------
(* Only what is needed is asked for: every item and operation names        *)
(* something reachable, whoever posted it; a section is loaded only if it  *)
(* is reachable; the sections in start_stop_sections are those that the    *)
(* scan found eligible.                                                    *)
ItemNeeded(item) ==
  /\ item.kind \in {"LoadSection", "LoadGlobalSymbol"} => item.on \in Needed
  /\ item.kind = "ExportDynamic" => \E g \in Group : item.on \in Range(ExportRequests[g])

OpNeeded(op) ==
  /\ op.do = "reference" => op.rel.symbol \in Needed
  /\ op.do = "send" => ItemNeeded(op.item)
  /\ op.do = "export" => Offered(op.symbol)
  /\ op.do = "load" => op.symbol \in Needed
  /\ op.do = "drain" => \E s \in Symbol \cap Needed :
                          SymbolKind[s] = "StartStop" /\ SymbolOutput[s] = op.output
  /\ op.do = "loaded" => op.section \in Needed /\ InitialSlot[op.section] # "Discard"

SlotsSound ==
  \A x \in Section : IF slot[x] = "Loaded"
                       THEN x \in Needed /\ InitialSlot[x] # "Discard"
                       ELSE slot[x] = InitialSlot[x]

StartStopSound ==
  \A o \in OutputSection : \A x \in startStop[o] :
    InitialSlot[x] = "StartStop" /\ SectionOutput[x] = o

OnlyNeeded ==
  /\ \A op \in Ops : OpNeeded(op)
  /\ \A item \in Queued : ItemNeeded(item)
  /\ SlotsSound
  /\ StartStopSound

LEMMA OnlyNeededInit == Init => OnlyNeeded
<1> SUFFICES ASSUME Init PROVE OnlyNeeded
  OBVIOUS
<1>1. Ops = {} /\ Queued = {}
  BY RangeOfEmpty DEF Init, Ops, Queued
<1>2. SlotsSound /\ StartStopSound
  BY SectionAssumption DEF Init, SlotsSound, StartStopSound
<1> QED BY <1>1, <1>2 DEF OnlyNeeded

(* A step that adds only needed operations and items. *)
LEMMA OnlyNeededStep ==
  ASSUME OnlyNeeded,
         \A op \in Ops' \ Ops : OpNeeded(op),
         \A item \in Queued' \ Queued : ItemNeeded(item),
         UNCHANGED <<slot, startStop>>
  PROVE  OnlyNeeded'
  BY DEF OnlyNeeded, SlotsSound, StartStopSound

LEMMA FailNeeded == OpNeeded(FailOp)
  BY DEF OpNeeded, FailOp

LEMMA SendNeeded ==
  ASSUME NEW item
  PROVE  OpNeeded(Send(item)) <=> ItemNeeded(item)
  BY DEF OpNeeded, Send

LEMMA SectionItemNeeded ==
  ASSUME NEW x
  PROVE  ItemNeeded(LoadSection(x)) <=> x \in Needed
  BY DEF ItemNeeded, LoadSection

LEMMA SymbolItemNeeded ==
  ASSUME NEW s
  PROVE  /\ ItemNeeded(LoadGlobalSymbol(s)) <=> s \in Needed
         /\ ItemNeeded(CopyRelocateSymbol(s))
         /\ ItemNeeded(ExportDynamic(s)) <=> \E g \in Group : s \in Range(ExportRequests[g])
  BY DEF ItemNeeded, LoadGlobalSymbol, CopyRelocateSymbol, ExportDynamic

LEMMA OpsNeeded ==
  /\ \A rel : OpNeeded(ReferenceOp(rel)) <=> rel.symbol \in Needed
  /\ \A s : OpNeeded(ExportOp(s)) <=> Offered(s)
  /\ \A s : OpNeeded(LoadOp(s)) <=> s \in Needed
  /\ \A s : OpNeeded(CopyOp(s))
  /\ \A o : OpNeeded(DrainOp(o)) <=> \E s \in Symbol \cap Needed :
                                       SymbolKind[s] = "StartStop" /\ SymbolOutput[s] = o
  /\ \A x : OpNeeded(LoadedOp(x)) <=> x \in Needed /\ InitialSlot[x] # "Discard"
  BY DEF OpNeeded, ReferenceOp, ExportOp, LoadOp, CopyOp, DrainOp, LoadedOp

(* Handling a needed item adds only needed operations. *)
LEMMA WorkOpsNeeded ==
  ASSUME TypeOK, SlotsSound, NEW item \in WorkItem, ItemNeeded(item)
  PROVE  \A op \in Range(WorkOps(item)) : OpNeeded(op)
<1>1. ASSUME NEW x \in Section, item = LoadSection(x)
      PROVE  \A op \in Range(SectionLoadOps(x)) : OpNeeded(op)
  <2>1. x \in Needed
    BY <1>1, SectionItemNeeded
  <2>2. CASE slot[x] \in {"Loaded", "Discard"}
    BY <2>2, SectionLoadRange, FailNeeded
  <2>3. CASE slot[x] \notin {"Loaded", "Discard"}
    <3>1. InitialSlot[x] # "Discard"
      BY <2>3 DEF SlotsSound
    <3>2. \A rel \in RelocationsOf(x) : OpNeeded(ReferenceOp(rel))
      BY <2>1, NeededNext, OpsNeeded
    <3> QED BY <2>1, <2>3, <3>1, <3>2, SectionLoadRange, OpsNeeded
  <2> QED BY <2>2, <2>3
<1>2. ASSUME NEW s \in Symbol, item = LoadGlobalSymbol(s)
      PROVE  \A op \in Range(SymbolRequestOps(s)) : OpNeeded(op)
  <2>1. s \in Needed
    BY <1>2, SymbolItemNeeded
  <2>2. SymbolKind[s] = "StartStop" => OpNeeded(DrainOp(SymbolOutput[s]))
    BY <2>1, OpsNeeded
  <2>3. OpNeeded(LoadOp(s))
    BY <2>1, OpsNeeded
  <2> QED BY <2>2, <2>3, SymbolRequestRange, SymbolAssumption
<1>3. ASSUME NEW s \in Symbol, item = ExportDynamic(s)
      PROVE  \A op \in Range(ExportDynamicOps(s)) : OpNeeded(op)
  <2>1. \E g \in Group : s \in Range(ExportRequests[g])
    BY <1>3, SymbolItemNeeded
  <2> QED BY <2>1, ExportDynamicRange, OpsNeeded DEF Offered
<1>4. ASSUME NEW s \in Symbol
      PROVE  \A op \in Range(CopyRelocateOps(s)) : OpNeeded(op)
  BY CopyRelocateRange, FailNeeded, OpsNeeded
<1> QED BY <1>1, <1>2, <1>3, <1>4, ItemKinds

LEMMA CanExportInitially ==
  ASSUME TypeOK, SlotsSound, NEW s \in Symbol
  PROVE  CanExport(s) <=> MayExport(s)
  BY SymbolAssumption DEF CanExport, MayExport, SlotsSound

LEMMA HandoverNeeded ==
  ASSUME OnlyNeeded, Handover
  PROVE  OnlyNeeded'
  BY OnlyNeededStep DEF Handover, symbolVars

LEMMA OnlyNeededNext ==
  ASSUME TypeOK, IInv, OnlyNeeded, [Next]_vars
  PROVE  OnlyNeeded'
<1> USE DEF symbolVars
<1>1. ASSUME NEW g \in Group, ActivateFile(g) PROVE OnlyNeeded'
  <2>1. PICK ops \in ActivationOutcomes(g) : Ops' = Ops \cup Range(ops)
    BY <1>1, ActivateDelta
  <2>2. \A op \in Range(ActivationOps(g)) : OpNeeded(op)
    <3>1. \A s \in Range(RootReferences[g]) : OpNeeded(Reference(s, {"DIRECT"}))
      BY RootSymbols DEF OpNeeded, Reference
    <3>2. \A s \in Range(Exports[g]) : OpNeeded(ExportOp(s))
      BY RootAssumption, OpsNeeded DEF Offered, Range
    <3>3. \A s \in Range(ExportRequests[g]) : OpNeeded(Send(ExportDynamic(s)))
      BY SendNeeded, SymbolItemNeeded
    <3> QED BY <3>1, <3>2, <3>3, ActivationRange
  <2>3. \A op \in Ops' \ Ops : OpNeeded(op)
    BY <2>1, <2>2, OutcomesRange, FailNeeded
  <2>4. \A x \in Range(RootSections[g]) : ItemNeeded(LoadSection(x))
    <3>1. \A x \in Range(RootSections[g]) : x \in Section /\ InitialSlot[x] = "MustLoad"
      BY RootAssumption DEF Range
    <3> QED BY <3>1, RootSymbols, SectionItemNeeded
  <2>5. \A item \in Queued' \ Queued : ItemNeeded(item)
    BY <1>1, <2>4, ActivateDelta
  <2>6. slot' = slot /\ StartStopSound'
    BY <1>1 DEF ActivateFile, OnlyNeeded, StartStopSound, SlotsSound
  <2> QED BY <2>3, <2>5, <2>6 DEF OnlyNeeded, SlotsSound
<1>2. ASSUME NEW g \in Group,
             \/ DelayProcessing(g) \/ StartProcessing(g) \/ CountDown(g) \/ PopDelayed(g)
             \/ RunSpawned(g) \/ Park(g) \/ SwapWork(g)
      PROVE  OnlyNeeded'
  BY <1>2, HandoverSteps, HandoverNeeded
<1>3. ASSUME NEW g \in Group, TakeWork(g) PROVE OnlyNeeded'
  <2>1. PICK item \in WorkItem : item \in Queued /\ Ops' = Ops \cup Range(WorkOps(item))
                                 /\ Queued' \subseteq Queued
    BY <1>3, TakeDelta
  <2>2. \A op \in Range(WorkOps(item)) : OpNeeded(op)
    BY <2>1, WorkOpsNeeded DEF OnlyNeeded
  <2>3. UNCHANGED <<slot, startStop>>
    BY <1>3 DEF TakeWork
  <2> QED BY <2>1, <2>2, <2>3, OnlyNeededStep
<1>4. ASSUME NEW g \in Group, ReferenceSymbol(g) PROVE OnlyNeeded'
  <2>1. PICK rel \in Relocation :
          /\ ReferenceOp(rel) \in Ops
          /\ \A op \in Ops' \ Ops : op \in {FailOp, Send(LoadGlobalSymbol(rel.symbol)),
                                           Send(CopyRelocateSymbol(rel.symbol))}
          /\ Queued' = Queued
    BY <1>4, ReferenceDelta
  <2>2. rel.symbol \in Needed
    BY <2>1, OpsNeeded DEF OnlyNeeded
  <2>3. \A op \in Ops' \ Ops : OpNeeded(op)
    BY <2>1, <2>2, FailNeeded, SendNeeded, SymbolItemNeeded
  <2>4. UNCHANGED <<slot, startStop>>
    BY <1>4 DEF ReferenceSymbol
  <2> QED BY <2>1, <2>3, <2>4, OnlyNeededStep
<1>5. ASSUME NEW g \in Group, SendLocal(g) \/ SendRemote(g) PROVE OnlyNeeded'
  <2>1. PICK item \in WorkItem : Send(item) \in Ops /\ Ops' \subseteq Ops /\ Queued' = Queued \cup {item}
    BY <1>5, SendDelta
  <2>2. ItemNeeded(item)
    BY <2>1, SendNeeded DEF OnlyNeeded
  <2>3. UNCHANGED <<slot, startStop>>
    BY <1>5 DEF SendLocal, SendRemote
  <2> QED BY <2>1, <2>2, <2>3, OnlyNeededStep
<1>6. ASSUME NEW s \in Symbol \cap Needed, SymbolKind[s] = "Section"
      PROVE  ItemNeeded(LoadSection(SymbolSection[s]))
  BY <1>6, NeededNext, SectionItemNeeded
<1>7. ASSUME NEW g \in Group, LoadSymbol(g) PROVE OnlyNeeded'
  <2>1. PICK s \in Symbol :
          /\ LoadOp(s) \in Ops
          /\ Ops' \subseteq Ops
          /\ Queued' = Queued \cup (IF SymbolKind[s] = "Section"
                                      THEN {LoadSection(SymbolSection[s])} ELSE {})
    BY <1>7, LoadDelta
  <2>2. s \in Needed
    BY <2>1, OpsNeeded DEF OnlyNeeded
  <2>3. \A item \in Queued' \ Queued : ItemNeeded(item)
    BY <1>6, <2>1, <2>2
  <2>4. UNCHANGED <<slot, startStop>>
    BY <1>7 DEF LoadSymbol
  <2> QED BY <2>1, <2>3, <2>4, OnlyNeededStep
<1>8. ASSUME NEW g \in Group, ExportSymbol(g) PROVE OnlyNeeded'
  <2>1. PICK s \in Symbol :
          /\ ExportOp(s) \in Ops
          /\ Ops' \subseteq Ops
          /\ \A item \in Queued' \ Queued :
               CanExport(s) /\ SymbolKind[s] = "Section" /\ item = LoadSection(SymbolSection[s])
    BY <1>8, ExportDelta
  <2>2. CanExport(s) => s \in Needed
    BY <2>1, CanExportInitially, RootSymbols, OpsNeeded DEF OnlyNeeded
  <2>3. \A item \in Queued' \ Queued : ItemNeeded(item)
    BY <1>6, <2>1, <2>2
  <2>4. UNCHANGED <<slot, startStop>>
    BY <1>8 DEF ExportSymbol
  <2> QED BY <2>1, <2>3, <2>4, OnlyNeededStep
<1>9. ASSUME NEW g \in Group, DrainStartStop(g) PROVE OnlyNeeded'
  <2>1. PICK o \in OutputSection :
          /\ DrainOp(o) \in Ops
          /\ Queued' = Queued
          /\ \/ startStop' = startStop /\ Ops' \subseteq Ops
             \/ \E x \in startStop[o] :
                  /\ startStop' = [startStop EXCEPT ![o] = @ \ {x}]
                  /\ Ops' = Ops \cup {Send(LoadSection(x))}
    BY <1>9, DrainDelta
  <2>2. slot' = slot
    BY <1>9 DEF DrainStartStop
  <2>3. CASE startStop' = startStop /\ Ops' \subseteq Ops
    BY <2>1, <2>2, <2>3, OnlyNeededStep
  <2>4. ASSUME NEW x \in startStop[o],
               startStop' = [startStop EXCEPT ![o] = @ \ {x}],
               Ops' = Ops \cup {Send(LoadSection(x))}
        PROVE  OnlyNeeded'
    <3>1. x \in Section /\ InitialSlot[x] = "StartStop" /\ SectionOutput[x] = o
      BY DEF OnlyNeeded, StartStopSound, TypeOK
    <3>2. x \in Needed
      BY <2>1, <3>1, NeededNext, OpsNeeded DEF OnlyNeeded
    <3>3. OpNeeded(Send(LoadSection(x)))
      BY <3>2, SendNeeded, SectionItemNeeded
    <3>4. \A p \in OutputSection : startStop'[p] \subseteq startStop[p]
      BY <2>4 DEF TypeOK
    <3> QED BY <2>1, <2>2, <2>4, <3>3, <3>4 DEF OnlyNeeded, SlotsSound, StartStopSound
  <2> QED BY <2>1, <2>3, <2>4
<1>10. ASSUME NEW g \in Group, MarkLoaded(g) PROVE OnlyNeeded'
  <2>1. PICK x \in Section :
          /\ LoadedOp(x) \in Ops
          /\ Ops' \subseteq Ops
          /\ slot' = [slot EXCEPT ![x] = "Loaded"]
          /\ Queued' = Queued
    BY <1>10, MarkDelta
  <2>2. x \in Needed /\ InitialSlot[x] # "Discard"
    BY <2>1, OpsNeeded DEF OnlyNeeded
  <2>3. SlotsSound'
    BY <2>1, <2>2 DEF OnlyNeeded, SlotsSound, TypeOK
  <2>4. startStop' = startStop
    BY <1>10 DEF MarkLoaded
  <2> QED BY <2>1, <2>3, <2>4 DEF OnlyNeeded, StartStopSound
<1>11. ASSUME NEW g \in Group, CopyRelocate(g) PROVE OnlyNeeded'
  <2>1. Ops' \subseteq Ops /\ Queued' = Queued
    BY <1>11, CopyDelta
  <2>2. UNCHANGED <<slot, startStop>>
    BY <1>11 DEF CopyRelocate
  <2> QED BY <2>1, <2>2, OnlyNeededStep
<1>12. ASSUME NEW g \in Group, ActivationError(g) \/ WorkError(g) PROVE OnlyNeeded'
  BY <1>12, ErrorDelta, OnlyNeededStep
<1>13. CASE Finish \/ UNCHANGED vars
  <2>1. frame' = frame /\ local' = local /\ work' = work /\ UNCHANGED <<slot, startStop>>
    BY <1>13 DEF Finish, vars, sharedVars
  <2> QED BY <2>1, SameOps, SameQueued, OnlyNeededStep
<1> QED BY <1>1, <1>2, <1>3, <1>4, <1>5, <1>7, <1>8, <1>9, <1>10, <1>11, <1>12, <1>13
        DEF Next, TaskStep, Finished

---------------------------------------------------------------------------
(* The synthetic symbols are drained late.  A request for a symbol is only *)
(* ever in the queues of the symbol's group, so that only the owner of the *)
(* synthetic group drains; by then every group has been activated.         *)
SymbolsAtHome ==
  \A g \in Group : \A s \in Symbol :
    LoadGlobalSymbol(s) \in Range(local[g]) \cup Range(work[g]) => SymbolGroup[s] = g

DrainsLate ==
  (\E o \in OutputSection : DrainOp(o) \in Ops) => \A g \in Group : act[g] # "Queued"

LEMMA SectionItemsDiffer ==
  ASSUME NEW x, NEW s
  PROVE  LoadSection(x) # LoadGlobalSymbol(s)
<1>1. LoadSection(x).kind # LoadGlobalSymbol(s).kind
  BY DEF LoadSection, LoadGlobalSymbol
<1> QED BY <1>1

LEMMA SymbolsAtHomeStep ==
  ASSUME SymbolsAtHome,
         \A g \in Group : \A s \in Symbol :
           LoadGlobalSymbol(s) \in Range(local'[g]) \cup Range(work'[g]) =>
             LoadGlobalSymbol(s) \in Range(local[g]) \cup Range(work[g]) \/ SymbolGroup[s] = g
  PROVE  SymbolsAtHome'
  BY DEF SymbolsAtHome

LEMMA SymbolsAtHomeNext ==
  ASSUME TypeOK, SymbolsAtHome, [Next]_vars
  PROVE  SymbolsAtHome'
<1> USE DEF sharedVars
<1>1. ASSUME NEW g \in Group, ActivateFile(g) PROVE SymbolsAtHome'
  <2>1. \A h \in Group \ {g} : local'[h] = local[h]
    BY <1>1 DEF ActivateFile, TypeOK
  <2>2. local'[g] = [i \in 1..Len(RootSections[g]) |-> LoadSection(RootSections[g][i])]
    BY <1>1 DEF ActivateFile, TypeOK
  <2>3. \A s : LoadGlobalSymbol(s) \notin Range(local'[g])
    BY <2>2, SectionItemsDiffer DEF Range
  <2>4. work' = work
    BY <1>1 DEF ActivateFile
  <2> QED BY <2>1, <2>3, <2>4, SymbolsAtHomeStep
<1>2. ASSUME UNCHANGED <<local, work>> PROVE SymbolsAtHome'
  BY <1>2 DEF SymbolsAtHome
<1>3. ASSUME NEW g \in Group, SwapWork(g) PROVE SymbolsAtHome'
  <2>1. \A h \in Group \ {g} : local'[h] = local[h] /\ work'[h] = work[h]
    BY <1>3 DEF SwapWork, TypeOK
  <2>2. local'[g] = work[g] /\ work'[g] = << >>
    BY <1>3 DEF SwapWork, TypeOK
  <2> QED BY <2>1, <2>2, RangeOfEmpty, SymbolsAtHomeStep
<1>4. ASSUME NEW g \in Group, TakeWork(g) PROVE SymbolsAtHome'
  <2>1. \A h \in Group \ {g} : local'[h] = local[h]
    BY <1>4 DEF TakeWork, TypeOK
  <2>2. local'[g] = SubSeq(local[g], 1, Len(local[g]) - 1) /\ local[g] # << >> /\ work' = work
    BY <1>4 DEF TakeWork, TypeOK
  <2>3. local[g] \in Seq(WorkItem)
    BY DEF TypeOK
  <2>4. Range(local'[g]) \subseteq Range(local[g])
    BY <2>2, <2>3, RangeFront
  <2> QED BY <2>1, <2>2, <2>4, SymbolsAtHomeStep
<1>5. ASSUME NEW g \in Group, SendLocal(g) \/ SendRemote(g) PROVE SymbolsAtHome'
  <2> DEFINE item == Head(frame[g]).item
             to == ItemGroup(item)
  <2>1. Doing(g, "send")
    BY <1>5 DEF SendLocal, SendRemote
  <2>2. item \in WorkItem
    BY <2>1, FrameStepType, OpFields DEF Doing
  <2>3. to \in Group
    BY <2>2, SectionAssumption, SymbolAssumption DEF ItemGroup, WorkItem
  <2>4. \A s : item = LoadGlobalSymbol(s) => SymbolGroup[s] = to
    BY DEF ItemGroup, LoadGlobalSymbol
  <2>5. \/ local' = [local EXCEPT ![to] = Append(@, item)] /\ work' = work
        \/ work' = [work EXCEPT ![to] = Append(@, item)] /\ local' = local
    BY <1>5 DEF SendLocal, SendRemote
  <2> HIDE DEF item, to
  <2>6. CASE local' = [local EXCEPT ![to] = Append(@, item)] /\ work' = work
    <3>1. \A h \in Group \ {to} : local'[h] = local[h]
      BY <2>6 DEF TypeOK
    <3>2. local'[to] = Append(local[to], item) /\ local[to] \in Seq(WorkItem)
      BY <2>3, <2>6 DEF TypeOK
    <3>3. Range(local'[to]) = Range(local[to]) \cup {item}
      BY <2>2, <3>2, RangeAppend
    <3> QED BY <2>4, <2>6, <3>1, <3>3, SymbolsAtHomeStep
  <2>7. CASE work' = [work EXCEPT ![to] = Append(@, item)] /\ local' = local
    <3>1. \A h \in Group \ {to} : work'[h] = work[h]
      BY <2>7 DEF TypeOK
    <3>2. work'[to] = Append(work[to], item) /\ work[to] \in Seq(WorkItem)
      BY <2>3, <2>7 DEF TypeOK
    <3>3. Range(work'[to]) = Range(work[to]) \cup {item}
      BY <2>2, <3>2, RangeAppend
    <3> QED BY <2>4, <2>7, <3>1, <3>3, SymbolsAtHomeStep
  <2> QED BY <2>5, <2>6, <2>7
<1>6. ASSUME NEW g \in Group, NEW s \in Symbol, LoadSymbolEffect(g, s), work' = work
      PROVE  SymbolsAtHome'
  <2>1. CASE SymbolKind[s] = "Section"
    <3>1. local' = [local EXCEPT ![g] = Append(@, LoadSection(SymbolSection[s]))]
      BY <1>6, <2>1 DEF LoadSymbolEffect
    <3>2. \A h \in Group \ {g} : local'[h] = local[h]
      BY <3>1 DEF TypeOK
    <3>3. local'[g] = Append(local[g], LoadSection(SymbolSection[s])) /\ local[g] \in Seq(WorkItem)
      BY <3>1 DEF TypeOK
    <3>4. LoadSection(SymbolSection[s]) \in WorkItem
      BY SymbolAssumption DEF LoadSection, WorkItem
    <3>5. Range(local'[g]) = Range(local[g]) \cup {LoadSection(SymbolSection[s])}
      BY <3>3, <3>4, RangeAppend
    <3> QED BY <1>6, <3>2, <3>5, SectionItemsDiffer, SymbolsAtHomeStep
  <2>2. CASE SymbolKind[s] # "Section"
    BY <1>2, <1>6, <2>2 DEF LoadSymbolEffect
  <2> QED BY <2>1, <2>2
<1>7. ASSUME NEW g \in Group, LoadSymbol(g) PROVE SymbolsAtHome'
  BY <1>6, <1>7, LoadDelta DEF LoadSymbol
<1>8. ASSUME NEW g \in Group, ExportSymbol(g) PROVE SymbolsAtHome'
  <2>1. work' = work
    BY <1>8 DEF ExportSymbol
  <2>2. Head(frame[g]).symbol \in Symbol
    BY <1>8, FrameStepType, OpFields DEF ExportSymbol, Doing
  <2>3. local' = local \/ LoadSymbolEffect(g, Head(frame[g]).symbol)
    BY <1>8 DEF ExportSymbol
  <2> QED BY <1>2, <1>6, <2>1, <2>2, <2>3
<1>9. ASSUME NEW g \in Group, ActivationError(g) \/ WorkError(g) PROVE SymbolsAtHome'
  <2>1. work' = work /\ \A h \in Group : local'[h] = local[h] \/ local'[h] = << >>
    BY <1>9 DEF ActivationError, WorkError, TypeOK
  <2> QED BY <2>1, RangeOfEmpty, SymbolsAtHomeStep
<1>10. ASSUME NEW g \in Group,
              \/ DelayProcessing(g) \/ StartProcessing(g) \/ CountDown(g) \/ PopDelayed(g)
              \/ RunSpawned(g) \/ Park(g) \/ ReferenceSymbol(g) \/ DrainStartStop(g)
              \/ MarkLoaded(g) \/ CopyRelocate(g)
       PROVE  UNCHANGED <<local, work>>
  BY <1>10 DEF DelayProcessing, StartProcessing, CountDown, PopDelayed, RunSpawned, Park,
               ReferenceSymbol, DrainStartStop, MarkLoaded, CopyRelocate
<1>11. CASE Finish \/ UNCHANGED vars
  BY <1>2, <1>11 DEF Finish, vars
<1> QED BY <1>1, <1>2, <1>3, <1>4, <1>5, <1>7, <1>8, <1>9, <1>10, <1>11
        DEF Next, TaskStep, Finished

LEMMA AllActivated ==
  ASSUME TypeOK, IInv, HeldByTask(Synthetic), NEW g \in Group
  PROVE  act[g] # "Queued"
<1>1. remaining = 0
  BY DEF IInv, Counting
<1>2. Counted(g) => remaining > 0
  BY CountedSet DEF IInv
<1> QED BY <1>1, <1>2 DEF Counted

(* No group is queued for activation a second time. *)
LEMMA ActivationsLast ==
  ASSUME TypeOK, [Next]_vars, NEW g \in Group, act'[g] = "Queued"
  PROVE  act[g] = "Queued"
<1>1. ASSUME NEW h \in Group, TaskStep(h) PROVE act[g] = "Queued"
  <2>1. CASE ActivateFile(h)
    BY <2>1 DEF ActivateFile, TypeOK
  <2>2. CASE \/ DelayProcessing(h) \/ StartProcessing(h) \/ CountDown(h) \/ PopDelayed(h)
             \/ RunSpawned(h) \/ Park(h) \/ SwapWork(h)
    BY <2>2, HandoverSteps DEF Handover
  <2>3. CASE \/ TakeWork(h) \/ ReferenceSymbol(h) \/ SendLocal(h) \/ SendRemote(h) \/ LoadSymbol(h)
             \/ ExportSymbol(h) \/ DrainStartStop(h) \/ MarkLoaded(h) \/ CopyRelocate(h)
             \/ ActivationError(h)
    BY <2>3 DEF TakeWork, ReferenceSymbol, SendLocal, SendRemote, LoadSymbol, ExportSymbol,
                DrainStartStop, MarkLoaded, CopyRelocate, ActivationError
  <2>4. CASE WorkError(h)
    BY <2>4 DEF WorkError, Return, TypeOK
  <2> QED BY <1>1, <2>1, <2>2, <2>3, <2>4 DEF TaskStep
<1>2. CASE Finish \/ UNCHANGED vars
  BY <1>2 DEF Finish, vars
<1> QED BY <1>1, <1>2 DEF Next, Finished

LEMMA DrainOpsDiffer ==
  ASSUME NEW o
  PROVE  /\ DrainOp(o) # FailOp
         /\ \A item : DrainOp(o) # Send(item)
         /\ \A s : DrainOp(o) # LoadOp(s) /\ DrainOp(o) # ExportOp(s) /\ DrainOp(o) # CopyOp(s)
         /\ \A x : DrainOp(o) # LoadedOp(x)
         /\ \A rel : DrainOp(o) # ReferenceOp(rel)
<1>1. DrainOp(o).do = "drain"
  BY DEF DrainOp
<1>2. /\ FailOp.do # "drain"
      /\ \A item : Send(item).do # "drain"
      /\ \A s : LoadOp(s).do # "drain" /\ ExportOp(s).do # "drain" /\ CopyOp(s).do # "drain"
      /\ \A x : LoadedOp(x).do # "drain"
      /\ \A rel : ReferenceOp(rel).do # "drain"
  BY DEF FailOp, Send, LoadOp, ExportOp, CopyOp, LoadedOp, ReferenceOp
<1> QED BY <1>1, <1>2

LEMMA ReferenceIsOp ==
  ASSUME NEW s, NEW f
  PROVE  \E rel : Reference(s, f) = ReferenceOp(rel) /\ rel.symbol = s /\ rel.flags = f
  BY DEF Reference, ReferenceOp

LEMMA DrainsLateNext ==
  ASSUME TypeOK, IInv, SymbolsAtHome, DrainsLate, [Next]_vars
  PROVE  DrainsLate'
<1> SUFFICES ASSUME NEW o \in OutputSection, DrainOp(o) \in Ops'
             PROVE  DrainOp(o) \in Ops \/ \A g \in Group : act[g] # "Queued"
  BY ActivationsLast DEF DrainsLate
<1>1. ASSUME NEW g \in Group, ActivateFile(g) PROVE DrainOp(o) \in Ops
  <2>1. PICK ops \in ActivationOutcomes(g) : Ops' = Ops \cup Range(ops)
    BY <1>1, ActivateDelta
  <2>2. DrainOp(o) \notin Range(ActivationOps(g))
    BY ActivationRange, DrainOpsDiffer, ReferenceIsOp
  <2> QED BY <2>1, <2>2, OutcomesRange, DrainOpsDiffer
<1>2. ASSUME NEW g \in Group,
             \/ DelayProcessing(g) \/ StartProcessing(g) \/ CountDown(g) \/ PopDelayed(g)
             \/ RunSpawned(g) \/ Park(g) \/ SwapWork(g)
      PROVE  DrainOp(o) \in Ops
  BY <1>2, HandoverSteps DEF Handover
<1>3. ASSUME NEW g \in Group, TakeWork(g)
      PROVE  DrainOp(o) \in Ops \/ \A h \in Group : act[h] # "Queued"
  <2>1. PICK item \in WorkItem : item \in Range(local[g]) /\ Ops' = Ops \cup Range(WorkOps(item))
    BY <1>3, TakeDelta
  <2>2. CASE DrainOp(o) \in Range(WorkOps(item))
    <3>1. \A x \in Section : DrainOp(o) \notin Range(SectionLoadOps(x))
      <4> TAKE x \in Section
      <4>1. CASE slot[x] \in {"Loaded", "Discard"}
        BY <4>1, SectionLoadRange, DrainOpsDiffer
      <4>2. CASE slot[x] \notin {"Loaded", "Discard"}
        BY <4>2, SectionLoadRange, DrainOpsDiffer
      <4> QED BY <4>1, <4>2
    <3>2. \A s \in Symbol : /\ DrainOp(o) \notin Range(ExportDynamicOps(s))
                            /\ DrainOp(o) \notin Range(CopyRelocateOps(s))
      BY ExportDynamicRange, CopyRelocateRange, DrainOpsDiffer
    <3>3. PICK s \in Symbol : item = LoadGlobalSymbol(s) /\ WorkOps(item) = SymbolRequestOps(s)
      BY <2>2, <3>1, <3>2, ItemKinds
    <3>4. SymbolKind[s] = "StartStop"
      BY <2>2, <3>3, SymbolRequestRange, SymbolAssumption, DrainOpsDiffer
    <3>5. g = Synthetic
      BY <2>1, <3>3, <3>4, SymbolAssumption DEF SymbolsAtHome
    <3>6. HeldByTask(Synthetic)
      BY <1>3, <3>5 DEF TakeWork, Idle, HeldByTask
    <3> QED BY <3>6, AllActivated
  <2> QED BY <2>1, <2>2
<1>4. ASSUME NEW g \in Group,
             \/ ReferenceSymbol(g) \/ SendLocal(g) \/ SendRemote(g) \/ LoadSymbol(g)
             \/ ExportSymbol(g) \/ DrainStartStop(g) \/ MarkLoaded(g) \/ CopyRelocate(g)
             \/ ActivationError(g) \/ WorkError(g)
      PROVE  DrainOp(o) \in Ops
  <2>1. CASE ReferenceSymbol(g)
    <3>1. \A op \in Ops' \ Ops : op = FailOp \/ \E item : op = Send(item)
      BY <2>1, ReferenceDelta
    <3> QED BY <3>1, DrainOpsDiffer
  <2>2. CASE DrainStartStop(g)
    <3>1. \A op \in Ops' \ Ops : \E item : op = Send(item)
      BY <2>2, DrainDelta
    <3> QED BY <3>1, DrainOpsDiffer
  <2>3. CASE SendLocal(g) \/ SendRemote(g)
    BY <2>3, SendDelta
  <2>4. CASE LoadSymbol(g)
    BY <2>4, LoadDelta
  <2>5. CASE ExportSymbol(g)
    BY <2>5, ExportDelta
  <2>6. CASE MarkLoaded(g)
    BY <2>6, MarkDelta
  <2>7. CASE CopyRelocate(g)
    BY <2>7, CopyDelta
  <2>8. CASE ActivationError(g) \/ WorkError(g)
    BY <2>8, ErrorDelta
  <2> QED BY <1>4, <2>1, <2>2, <2>3, <2>4, <2>5, <2>6, <2>7, <2>8
<1>5. CASE Finish \/ UNCHANGED vars
  <2>1. frame' = frame
    BY <1>5 DEF Finish, vars
  <2> QED BY <2>1, SameOps
<1> QED BY <1>1, <1>2, <1>3, <1>4, <1>5 DEF Next, TaskStep, Finished

---------------------------------------------------------------------------
(* Nothing is forgotten.  As long as no error was met, a section that is   *)
(* needed so far is loaded, being loaded or queued (Coming); a symbol that *)
(* was asked for is queued, or what it stands for is coming (Handled).     *)
Clean == errors = 0 /\ FailOp \notin Ops

Coming(x) == Pending(LoadSection(x)) \/ LoadedOp(x) \in Ops \/ slot[x] = "Loaded"

Between(s) ==
  {x \in Section : InitialSlot[x] = "StartStop" /\ SectionOutput[x] = SymbolOutput[s]}

Handled(s) ==
  \/ Pending(LoadGlobalSymbol(s))
  \/ /\ SymbolKind[s] = "Section" => LoadOp(s) \in Ops \/ Coming(SymbolSection[s])
     /\ SymbolKind[s] = "StartStop" =>
          DrainOp(SymbolOutput[s]) \in Ops \/ \A x \in Between(s) : Coming(x)

Referenced(s) == Handled(s) \/ \E op \in Ops : op.do = "reference" /\ op.rel.symbol = s

(* What the activation of a group leaves behind. *)
Activated(g) ==
  /\ \A x \in Section : SectionGroup[x] = g =>
       /\ InitialSlot[x] = "MustLoad" => Coming(x)
       /\ InitialSlot[x] = "StartStop" => x \in startStop[SectionOutput[x]] \/ Coming(x)
  /\ \A s \in Range(RootReferences[g]) : Referenced(s)
  /\ \A s \in Range(Exports[g]) : MayExport(s) => ExportOp(s) \in Ops \/ Handled(s)
  /\ \A s \in Range(ExportRequests[g]) :
       MayExport(s) /\ SymbolKind[s] \in {"Section", "Common"} =>
         Pending(ExportDynamic(s)) \/ ExportOp(s) \in Ops \/ Handled(s)

NothingForgotten ==
  /\ \A g \in Group : act[g] # "Queued" => Activated(g)
  /\ \A s \in Symbol : flags[s] # {} => Handled(s)
  /\ \A x \in Section : slot[x] = "Loaded" \/ LoadedOp(x) \in Ops =>
       \A s \in RequestedBy(x) : Referenced(s)

(* The parts of operations and items tell them apart. *)
LEMMA OpParts ==
  /\ FailOp.do = "fail"
  /\ \A i : Send(i).do = "send" /\ Send(i).item = i
  /\ \A s : LoadOp(s).do = "load" /\ LoadOp(s).symbol = s
  /\ \A s : ExportOp(s).do = "export" /\ ExportOp(s).symbol = s
  /\ \A s : CopyOp(s).do = "copy" /\ CopyOp(s).symbol = s
  /\ \A o : DrainOp(o).do = "drain" /\ DrainOp(o).output = o
  /\ \A x : LoadedOp(x).do = "loaded" /\ LoadedOp(x).section = x
  /\ \A rel : ReferenceOp(rel).do = "reference" /\ ReferenceOp(rel).rel = rel
  BY DEF FailOp, Send, LoadOp, ExportOp, CopyOp, DrainOp, LoadedOp, ReferenceOp

LEMMA ItemParts ==
  /\ \A x : LoadSection(x).kind = "LoadSection" /\ LoadSection(x).on = x
  /\ \A s : LoadGlobalSymbol(s).kind = "LoadGlobalSymbol" /\ LoadGlobalSymbol(s).on = s
  /\ \A s : CopyRelocateSymbol(s).kind = "CopyRelocateSymbol" /\ CopyRelocateSymbol(s).on = s
  /\ \A s : ExportDynamic(s).kind = "ExportDynamic" /\ ExportDynamic(s).on = s
  BY DEF LoadSection, LoadGlobalSymbol, CopyRelocateSymbol, ExportDynamic

(* A step that keeps track of what was coming and what was handled. *)
Tracks ==
  /\ \A x \in Section : Coming(x) => Coming(x)'
  /\ \A s \in Symbol : Handled(s) => Handled(s)'

(* A step that also keeps, or replaces by what they stand for, the         *)
(* references and exports that are under way, and answers for what is new. *)
Carries ==
  /\ Tracks
  /\ \A op \in Ops : op.do = "reference" => op \in Ops' \/ Handled(op.rel.symbol)'
  /\ \A s \in Symbol : MayExport(s) /\ ExportOp(s) \in Ops => ExportOp(s) \in Ops' \/ Handled(s)'
  /\ \A s \in Symbol : SymbolKind[s] \in {"Section", "Common"} /\ Pending(ExportDynamic(s)) =>
       Pending(ExportDynamic(s))' \/ ExportOp(s) \in Ops'
  /\ \A x \in Section : x \in startStop[SectionOutput[x]] =>
       x \in startStop'[SectionOutput[x]] \/ Coming(x)'
  /\ \A s \in Symbol : flags'[s] # {} => flags[s] # {} \/ Handled(s)'
  /\ \A x \in Section : slot'[x] = "Loaded" \/ LoadedOp(x) \in Ops' =>
       \/ slot[x] = "Loaded" \/ LoadedOp(x) \in Ops
       \/ \A s \in RequestedBy(x) : Referenced(s)'
  /\ \A g \in Group : act'[g] # "Queued" => act[g] # "Queued" \/ Activated(g)'

LEMMA CarriesForgetsNothing ==
  ASSUME NothingForgotten, Carries
  PROVE  NothingForgotten'
<1>1. ASSUME NEW s \in Symbol, Referenced(s) PROVE Referenced(s)'
  BY <1>1 DEF Referenced, Carries, Tracks
<1>2. ASSUME NEW g \in Group, act'[g] # "Queued" PROVE Activated(g)'
  <2>1. CASE Activated(g)'
    BY <2>1
  <2>2. CASE Activated(g)
    <3>0. /\ Range(RootReferences[g]) \subseteq Symbol /\ Range(Exports[g]) \subseteq Symbol
          /\ Range(ExportRequests[g]) \subseteq Symbol
      BY RootAssumption, RangeOfSeq
    <3>1. \A x \in Section : SectionGroup[x] = g =>
            /\ InitialSlot[x] = "MustLoad" => Coming(x)'
            /\ InitialSlot[x] = "StartStop" => x \in startStop'[SectionOutput[x]] \/ Coming(x)'
      BY <2>2 DEF Activated, Carries, Tracks
    <3>2. \A s \in Range(RootReferences[g]) : Referenced(s)'
      BY <1>1, <2>2, <3>0 DEF Activated
    <3>3. \A s \in Range(Exports[g]) : MayExport(s) => ExportOp(s) \in Ops' \/ Handled(s)'
      BY <2>2, <3>0 DEF Activated, Carries, Tracks
    <3>4. \A s \in Range(ExportRequests[g]) :
            MayExport(s) /\ SymbolKind[s] \in {"Section", "Common"} =>
              Pending(ExportDynamic(s))' \/ ExportOp(s) \in Ops' \/ Handled(s)'
      BY <2>2, <3>0 DEF Activated, Carries, Tracks
    <3> QED BY <3>1, <3>2, <3>3, <3>4 DEF Activated, MayExport
  <2> QED BY <1>2, <2>1, <2>2 DEF Carries, NothingForgotten
<1>3. \A s \in Symbol : flags'[s] # {} => Handled(s)'
  BY DEF NothingForgotten, Carries, Tracks
<1>4. ASSUME NEW x \in Section, slot'[x] = "Loaded" \/ LoadedOp(x) \in Ops', NEW s \in RequestedBy(x)
      PROVE  Referenced(s)'
  <2>1. s \in Symbol
    BY RequestedSymbols DEF Relocation
  <2> QED BY <1>1, <1>4, <2>1 DEF NothingForgotten, Carries
<1> QED BY <1>2, <1>3, <1>4 DEF NothingForgotten, RequestedBy

(* What a step has to do for the items and operations that make something  *)
(* come or handle it. *)
LEMMA TracksParts ==
  ASSUME \A x \in Section : Pending(LoadSection(x)) => Coming(x)',
         \A s \in Symbol : Pending(LoadGlobalSymbol(s)) => Handled(s)',
         \A x \in Section : LoadedOp(x) \in Ops \/ slot[x] = "Loaded" => Coming(x)',
         \A s \in Symbol : SymbolKind[s] = "Section" /\ LoadOp(s) \in Ops =>
           LoadOp(s) \in Ops' \/ Coming(SymbolSection[s])',
         \A s \in Symbol : SymbolKind[s] = "StartStop" /\ DrainOp(SymbolOutput[s]) \in Ops =>
           DrainOp(SymbolOutput[s]) \in Ops' \/ \A x \in Between(s) : Coming(x)'
  PROVE  Tracks
<1>1. ASSUME NEW x \in Section, Coming(x) PROVE Coming(x)'
  BY <1>1 DEF Coming
<1>2. ASSUME NEW s \in Symbol, Handled(s) PROVE Handled(s)'
  <2>1. CASE Pending(LoadGlobalSymbol(s))
    BY <2>1
  <2>2. CASE /\ SymbolKind[s] = "Section" => LoadOp(s) \in Ops \/ Coming(SymbolSection[s])
             /\ SymbolKind[s] = "StartStop" =>
                  DrainOp(SymbolOutput[s]) \in Ops \/ \A x \in Between(s) : Coming(x)
    <3>1. SymbolKind[s] = "Section" => LoadOp(s) \in Ops' \/ Coming(SymbolSection[s])'
      BY <1>1, <2>2, SymbolAssumption
    <3>2. SymbolKind[s] = "StartStop" =>
            DrainOp(SymbolOutput[s]) \in Ops' \/ \A x \in Between(s) : Coming(x)'
      BY <1>1, <2>2 DEF Between
    <3> QED BY <3>1, <3>2 DEF Handled, Between
  <2> QED BY <1>2, <2>1, <2>2 DEF Handled
<1> QED BY <1>1, <1>2 DEF Tracks

(* The step of an owner that does one operation, other than draining,      *)
(* loading a symbol or marking a section, and takes no item from a queue.  *)
LEMMA TracksOneOp ==
  ASSUME NEW head, Ops \subseteq Ops' \cup {head}, Queued \subseteq Queued', slot' = slot,
         \/ head.do \in {"reference", "export", "copy", "fail"}
         \/ \E item : head = Send(item) /\ item \in Queued'
  PROVE  Tracks /\ \A item : Pending(item) => Pending(item)'
<1>1. \A item : Pending(item) => Pending(item)'
  BY OpParts DEF Pending
<1>2. /\ \A x : LoadedOp(x) \in Ops => LoadedOp(x) \in Ops'
      /\ \A s : LoadOp(s) \in Ops => LoadOp(s) \in Ops'
      /\ \A o : DrainOp(o) \in Ops => DrainOp(o) \in Ops'
  BY OpParts
<1>3. \A x \in Section : Pending(LoadSection(x)) => Coming(x)'
  BY <1>1 DEF Coming
<1>4. \A s \in Symbol : Pending(LoadGlobalSymbol(s)) => Handled(s)'
  BY <1>1 DEF Handled
<1>5. \A x \in Section : LoadedOp(x) \in Ops \/ slot[x] = "Loaded" => Coming(x)'
  BY <1>2 DEF Coming
<1> QED BY <1>1, <1>2, <1>3, <1>4, <1>5, TracksParts

(* Errors are never taken back: a state without one comes from a state     *)
(* without one. *)
LEMMA CleanBefore ==
  ASSUME TypeOK, IInv, [Next]_vars, Clean'
  PROVE  Clean
<1>1. ASSUME NEW g \in Group, ActivateFile(g) PROVE Clean
  BY <1>1, ActivateDelta DEF Clean, ActivateFile, resultVars
<1>2. ASSUME NEW g \in Group,
             \/ DelayProcessing(g) \/ StartProcessing(g) \/ CountDown(g) \/ PopDelayed(g)
             \/ RunSpawned(g) \/ Park(g) \/ SwapWork(g)
      PROVE  Clean
  BY <1>2, HandoverSteps DEF Handover, Clean
<1>3. ASSUME NEW g \in Group, TakeWork(g) PROVE Clean
  BY <1>3, TakeDelta DEF Clean, TakeWork, resultVars
<1>4. ASSUME NEW g \in Group, ReferenceSymbol(g) PROVE Clean
  <2>1. FailOp \in Ops => FailOp \in Ops'
    BY <1>4, ReferenceDelta, OpParts
  <2> QED BY <1>4, <2>1 DEF Clean, ReferenceSymbol, resultVars
<1>5. ASSUME NEW g \in Group, SendLocal(g) \/ SendRemote(g) PROVE Clean
  <2>1. FailOp \in Ops => FailOp \in Ops'
    BY <1>5, SendDelta, OpParts
  <2> QED BY <1>5, <2>1 DEF Clean, SendLocal, SendRemote, resultVars
<1>6. ASSUME NEW g \in Group, LoadSymbol(g) PROVE Clean
  <2>1. FailOp \in Ops => FailOp \in Ops'
    BY <1>6, LoadDelta, OpParts
  <2> QED BY <1>6, <2>1 DEF Clean, LoadSymbol, resultVars
<1>7. ASSUME NEW g \in Group, ExportSymbol(g) PROVE Clean
  <2>1. FailOp \in Ops => FailOp \in Ops'
    BY <1>7, ExportDelta, OpParts
  <2> QED BY <1>7, <2>1 DEF Clean, ExportSymbol, resultVars
<1>8. ASSUME NEW g \in Group, DrainStartStop(g) PROVE Clean
  <2>1. FailOp \in Ops => FailOp \in Ops'
    BY <1>8, DrainDelta, OpParts
  <2> QED BY <1>8, <2>1 DEF Clean, DrainStartStop, resultVars
<1>9. ASSUME NEW g \in Group, MarkLoaded(g) PROVE Clean
  <2>1. FailOp \in Ops => FailOp \in Ops'
    BY <1>9, MarkDelta, OpParts
  <2> QED BY <1>9, <2>1 DEF Clean, MarkLoaded, resultVars
<1>10. ASSUME NEW g \in Group, CopyRelocate(g) PROVE Clean
  <2>1. FailOp \in Ops => FailOp \in Ops'
    BY <1>10, CopyDelta, OpParts
  <2> QED BY <1>10, <2>1 DEF Clean, CopyRelocate, resultVars
<1>11. ASSUME NEW g \in Group, ActivationError(g) \/ WorkError(g) PROVE Clean
  BY <1>11, ErrorDelta DEF Clean
<1>12. CASE Finish \/ UNCHANGED vars
  BY <1>12, SameOps DEF Clean, Finish, vars, resultVars
<1> QED BY <1>1, <1>2, <1>3, <1>4, <1>5, <1>6, <1>7, <1>8, <1>9, <1>10, <1>11, <1>12
        DEF Next, TaskStep, Finished

(* A step of an owner that does one operation and leaves the rest alone    *)
(* carries everything over, if it answers for that operation.              *)
LEMMA CarriesOneOp ==
  ASSUME Tracks, NEW head,
         Ops \subseteq Ops' \cup {head},
         \A item : Pending(item) => Pending(item)',
         \A op \in Ops' \ Ops : op.do # "loaded",
         head.do = "reference" => head \in Ops' \/ Handled(head.rel.symbol)',
         \A s \in Symbol : head = ExportOp(s) /\ MayExport(s) => Handled(s)',
         \A s \in Symbol : flags'[s] # {} => flags[s] # {} \/ Handled(s)',
         UNCHANGED <<act, slot, startStop>>
  PROVE  Carries
<1>1. \A op \in Ops : op.do = "reference" => op \in Ops' \/ Handled(op.rel.symbol)'
  OBVIOUS
<1>2. \A s \in Symbol : MayExport(s) /\ ExportOp(s) \in Ops => ExportOp(s) \in Ops' \/ Handled(s)'
  OBVIOUS
<1>3. \A x : LoadedOp(x) \in Ops' => LoadedOp(x) \in Ops
  BY OpParts
<1> QED BY <1>1, <1>2, <1>3 DEF Carries

LEMMA CarriesHandover ==
  ASSUME Ops' = Ops, Queued' = Queued, UNCHANGED <<slot, flags, startStop>>,
         \A g \in Group : act'[g] = "Queued" <=> act[g] = "Queued"
  PROVE  Carries
<1>1. Tracks /\ \A item : Pending(item) => Pending(item)'
  BY TracksOneOp, OpParts
<1>2. \A x : LoadedOp(x) \in Ops' => LoadedOp(x) \in Ops
  OBVIOUS
<1> QED BY <1>1, <1>2 DEF Carries

LEMMA CarriesActivate ==
  ASSUME TypeOK, IInv, SlotsSound, NEW g \in Group, ActivateFile(g), FailOp \notin Ops'
  PROVE  Carries
<1>1. PICK ops \in ActivationOutcomes(g) : Ops' = Ops \cup Range(ops)
  BY ActivateDelta
<1>2. Ops' = Ops \cup Range(ActivationOps(g))
  BY <1>1, OutcomesRange
<1>3. Queued' = Queued \cup {LoadSection(x) : x \in Range(RootSections[g])}
  BY ActivateDelta
<1>4. slot' = slot /\ flags' = flags
  BY DEF ActivateFile
<1>5. Tracks /\ \A item : Pending(item) => Pending(item)'
  BY <1>2, <1>3, <1>4, TracksOneOp, OpParts
<1>6. Activated(g)'
  <2>1. ASSUME NEW x \in Section, SectionGroup[x] = g, InitialSlot[x] = "MustLoad" PROVE Coming(x)'
    <3>1. x \in Range(RootSections[g])
      BY <2>1, RootAssumption DEF Range
    <3> QED BY <1>3, <3>1 DEF Coming, Pending
  <2>2. ASSUME NEW x \in Section, SectionGroup[x] = g, InitialSlot[x] = "StartStop"
        PROVE  x \in startStop'[SectionOutput[x]] \/ Coming(x)'
    <3>1. CASE slot[x] = "Loaded"
      BY <1>4, <3>1 DEF Coming
    <3>2. CASE slot[x] # "Loaded"
      <4>1. slot[x] = "StartStop" /\ SectionOutput[x] \in OutputSection
        BY <2>2, <3>2, SectionAssumption DEF SlotsSound
      <4> QED BY <2>2, <4>1 DEF ActivateFile
    <3> QED BY <3>1, <3>2
  <2>3. ASSUME NEW s \in Range(RootReferences[g]) PROVE Referenced(s)'
    <3>1. Reference(s, {"DIRECT"}) \in Ops'
      BY <1>2, ActivationRange
    <3>2. Reference(s, {"DIRECT"}).do = "reference" /\ Reference(s, {"DIRECT"}).rel.symbol = s
      BY DEF Reference
    <3> QED BY <3>1, <3>2 DEF Referenced
  <2>4. \A s \in Range(Exports[g]) : ExportOp(s) \in Ops'
    BY <1>2, ActivationRange
  <2>5. \A s \in Range(ExportRequests[g]) : Pending(ExportDynamic(s))'
    BY <1>2, ActivationRange DEF Pending
  <2> QED BY <2>1, <2>2, <2>3, <2>4, <2>5 DEF Activated
<1>7. \A h \in Group : act'[h] # "Queued" => act[h] # "Queued" \/ Activated(h)'
  BY <1>6 DEF ActivateFile, TypeOK
<1>8. \A x : LoadedOp(x) \notin Range(ActivationOps(g))
  BY ActivationRange, ReferenceIsOp, OpParts
<1>9. \A x \in Section : x \in startStop[SectionOutput[x]] => x \in startStop'[SectionOutput[x]]
  BY SectionAssumption DEF ActivateFile, TypeOK
<1> QED BY <1>2, <1>4, <1>5, <1>7, <1>8, <1>9 DEF Carries

(* An item that is taken from a queue is answered by the operations it     *)
(* turns into. *)
LEMMA CarriesTake ==
  ASSUME TypeOK, NEW g \in Group, TakeWork(g), FailOp \notin Ops'
  PROVE  Carries
<1>1. PICK item \in WorkItem :
        /\ Ops' = Ops \cup Range(WorkOps(item))
        /\ Queued \subseteq Queued' \cup {item}
  BY TakeDelta
<1>2. UNCHANGED <<act, slot, flags, startStop>>
  BY DEF TakeWork, symbolVars
<1>3. \A i : Pending(i) => Pending(i)' \/ i = item
  BY <1>1 DEF Pending
<1>4. \A x \in Section : item = LoadSection(x) =>
        /\ Coming(x)'
        /\ WorkOps(item) = SectionLoadOps(x)
        /\ LoadedOp(x) \in Ops' \ Ops => \A s \in RequestedBy(x) : Referenced(s)'
  <2> SUFFICES ASSUME NEW x \in Section, item = LoadSection(x)
               PROVE  /\ Coming(x)'
                      /\ WorkOps(item) = SectionLoadOps(x)
                      /\ LoadedOp(x) \in Ops' \ Ops => \A s \in RequestedBy(x) : Referenced(s)'
    OBVIOUS
  <2>1. WorkOps(item) = SectionLoadOps(x)
    BY ItemParts DEF WorkOps
  <2>2. CASE slot[x] = "Loaded"
    <3>1. Ops' = Ops
      BY <1>1, <2>1, <2>2, SectionLoadRange
    <3> QED BY <1>2, <2>1, <2>2, <3>1 DEF Coming
  <2>3. CASE slot[x] = "Discard"
    BY <1>1, <2>1, <2>3, SectionLoadRange
  <2>4. CASE slot[x] \notin {"Loaded", "Discard"}
    <3>1. LoadedOp(x) \in Ops' /\ \A rel \in RelocationsOf(x) : ReferenceOp(rel) \in Ops'
      BY <1>1, <2>1, <2>4, SectionLoadRange
    <3>2. \A s \in RequestedBy(x) : Referenced(s)'
      BY <3>1, RequestedSymbols, OpParts DEF Referenced
    <3> QED BY <2>1, <3>1, <3>2 DEF Coming
  <2> QED BY <2>2, <2>3, <2>4
<1>5. \A s \in Symbol : item = LoadGlobalSymbol(s) =>
        Handled(s)' /\ \A x : LoadedOp(x) \notin Range(WorkOps(item))
  <2> SUFFICES ASSUME NEW s \in Symbol, item = LoadGlobalSymbol(s)
               PROVE  Handled(s)' /\ \A x : LoadedOp(x) \notin Range(WorkOps(item))
    OBVIOUS
  <2>1. WorkOps(item) = SymbolRequestOps(s)
    BY ItemParts DEF WorkOps
  <2>2. CASE SymbolKind[s] \in {"Section", "Common"}
    BY <1>1, <2>1, <2>2, SymbolRequestRange, OpParts DEF Handled
  <2>3. CASE SymbolKind[s] = "StartStop"
    BY <1>1, <2>1, <2>3, SymbolRequestRange, OpParts DEF Handled
  <2>4. CASE SymbolKind[s] \in {"Dynamic", "Other"}
    BY <1>1, <2>1, <2>4, SymbolRequestRange DEF Handled
  <2> QED BY <2>2, <2>3, <2>4, SymbolAssumption
<1>6. \A s \in Symbol : item = ExportDynamic(s) =>
        /\ SymbolKind[s] \in {"Section", "Common"} => ExportOp(s) \in Ops'
        /\ \A x : LoadedOp(x) \notin Range(WorkOps(item))
  <2> SUFFICES ASSUME NEW s \in Symbol, item = ExportDynamic(s)
               PROVE  /\ SymbolKind[s] \in {"Section", "Common"} => ExportOp(s) \in Ops'
                      /\ \A x : LoadedOp(x) \notin Range(WorkOps(item))
    OBVIOUS
  <2>1. WorkOps(item) = ExportDynamicOps(s)
    BY ItemParts DEF WorkOps
  <2> QED BY <1>1, <2>1, ExportDynamicRange, OpParts
<1>7. \A s \in Symbol : item = CopyRelocateSymbol(s) =>
        \A x : LoadedOp(x) \notin Range(WorkOps(item))
  <2> SUFFICES ASSUME NEW s \in Symbol, item = CopyRelocateSymbol(s)
               PROVE  \A x : LoadedOp(x) \notin Range(WorkOps(item))
    OBVIOUS
  <2>1. WorkOps(item) = CopyRelocateOps(s)
    BY ItemParts DEF WorkOps
  <2> QED BY <2>1, CopyRelocateRange, OpParts
<1>8. Tracks
  <2>1. \A x \in Section : Pending(LoadSection(x)) => Coming(x)'
    BY <1>3, <1>4 DEF Coming
  <2>2. \A s \in Symbol : Pending(LoadGlobalSymbol(s)) => Handled(s)'
    BY <1>3, <1>5 DEF Handled
  <2>3. \A x \in Section : LoadedOp(x) \in Ops \/ slot[x] = "Loaded" => Coming(x)'
    BY <1>1, <1>2 DEF Coming
  <2>4. Ops \subseteq Ops'
    BY <1>1
  <2> QED BY <2>1, <2>2, <2>3, <2>4, TracksParts
<1>9. \A s \in Symbol : SymbolKind[s] \in {"Section", "Common"} /\ Pending(ExportDynamic(s)) =>
        Pending(ExportDynamic(s))' \/ ExportOp(s) \in Ops'
  BY <1>3, <1>6
<1>10. ASSUME NEW x \in Section, LoadedOp(x) \in Ops' \ Ops
       PROVE  \A s \in RequestedBy(x) : Referenced(s)'
  <2>1. LoadedOp(x) \in Range(WorkOps(item))
    BY <1>1, <1>10
  <2>2. PICK y \in Section : item = LoadSection(y) /\ WorkOps(item) = SectionLoadOps(y)
    BY <1>5, <1>6, <1>7, <2>1, ItemKinds
  <2>3. y = x
    <3>1. CASE slot[y] = "Loaded"
      BY <2>1, <2>2, <3>1, SectionLoadRange
    <3>2. CASE slot[y] = "Discard"
      BY <2>1, <2>2, <3>2, SectionLoadRange, OpParts
    <3>3. CASE slot[y] \notin {"Loaded", "Discard"}
      BY <2>1, <2>2, <3>3, SectionLoadRange, OpParts
    <3> QED BY <3>1, <3>2, <3>3
  <2> QED BY <1>4, <1>10, <2>2, <2>3
<1>11. Ops \subseteq Ops'
  BY <1>1
<1> QED BY <1>2, <1>8, <1>9, <1>10, <1>11 DEF Carries

(* Whoever finds the flags of a symbol empty requests it; whoever finds    *)
(* them set relies on the one who set them.                                *)
LEMMA CarriesReference ==
  ASSUME TypeOK, NothingForgotten, NEW g \in Group, ReferenceSymbol(g), FailOp \notin Ops'
  PROVE  Carries
<1>1. PICK rel \in Relocation :
        /\ flags' = [flags EXCEPT ![rel.symbol] = @ \cup rel.flags]
        /\ Ops \subseteq Ops' \cup {ReferenceOp(rel)}
        /\ flags[rel.symbol] = {} => Send(LoadGlobalSymbol(rel.symbol)) \in Ops'
        /\ \A op \in Ops' \ Ops : \E item : op = Send(item)
        /\ Queued' = Queued
  BY ReferenceDelta
<1>2. UNCHANGED <<act, slot, startStop>>
  BY DEF ReferenceSymbol
<1>3. Tracks /\ \A item : Pending(item) => Pending(item)'
  BY <1>1, <1>2, TracksOneOp, OpParts
<1>4. rel.symbol \in Symbol
  BY DEF Relocation
<1>5. Handled(rel.symbol)'
  <2>1. CASE flags[rel.symbol] = {}
    <3>1. Pending(LoadGlobalSymbol(rel.symbol))'
      BY <1>1, <2>1 DEF Pending
    <3> QED BY <3>1 DEF Handled
  <2>2. CASE flags[rel.symbol] # {}
    BY <1>3, <1>4, <2>2 DEF NothingForgotten, Tracks
  <2> QED BY <2>1, <2>2
<1>6. \A s \in Symbol : flags'[s] # {} => flags[s] # {} \/ Handled(s)'
  <2>1. \A s \in Symbol : flags'[s] = flags[s] \/ s = rel.symbol
    BY <1>1 DEF TypeOK
  <2> QED BY <1>5, <2>1
<1>7. \A op \in Ops' \ Ops : op.do # "loaded"
  BY <1>1, OpParts
<1>8. /\ ReferenceOp(rel).do = "reference" /\ ReferenceOp(rel).rel.symbol = rel.symbol
      /\ \A s : ReferenceOp(rel) # ExportOp(s)
  BY OpParts
<1>9. Handled(ReferenceOp(rel).rel.symbol)'
  BY <1>5, OpParts
<1> QED BY <1>1, <1>2, <1>3, <1>6, <1>7, <1>8, <1>9, CarriesOneOp

LEMMA CarriesSend ==
  ASSUME TypeOK, NEW g \in Group, SendLocal(g) \/ SendRemote(g)
  PROVE  Carries
<1>1. PICK item \in WorkItem :
        Ops' \subseteq Ops /\ Ops \subseteq Ops' \cup {Send(item)} /\ Queued' = Queued \cup {item}
  BY SendDelta
<1>2. UNCHANGED <<act, slot, flags, startStop>>
  BY DEF SendLocal, SendRemote, symbolVars
<1>3. Tracks /\ \A i : Pending(i) => Pending(i)'
  BY <1>1, <1>2, TracksOneOp
<1>4. Send(item).do = "send" /\ \A s : Send(item) # ExportOp(s)
  BY OpParts
<1> QED BY <1>1, <1>2, <1>3, <1>4, CarriesOneOp

LEMMA CarriesCopy ==
  ASSUME TypeOK, NEW g \in Group, CopyRelocate(g)
  PROVE  Carries
<1>1. PICK s \in Symbol : Ops' \subseteq Ops /\ Ops \subseteq Ops' \cup {CopyOp(s)} /\ Queued' = Queued
  BY CopyDelta
<1>2. UNCHANGED <<act, slot, flags, startStop>>
  BY DEF CopyRelocate
<1>3. CopyOp(s).do = "copy" /\ \A t : CopyOp(s) # ExportOp(t)
  BY OpParts
<1>4. Tracks /\ \A i : Pending(i) => Pending(i)'
  BY <1>1, <1>2, <1>3, TracksOneOp
<1> QED BY <1>1, <1>2, <1>3, <1>4, CarriesOneOp

LEMMA CarriesLoad ==
  ASSUME TypeOK, NEW g \in Group, LoadSymbol(g)
  PROVE  Carries
<1>1. PICK s \in Symbol :
        /\ Ops' \subseteq Ops
        /\ Ops \subseteq Ops' \cup {LoadOp(s)}
        /\ Queued' = Queued \cup (IF SymbolKind[s] = "Section"
                                    THEN {LoadSection(SymbolSection[s])} ELSE {})
  BY LoadDelta
<1>2. UNCHANGED <<act, slot, flags, startStop>>
  BY DEF LoadSymbol
<1>3. LoadOp(s).do = "load" /\ \A t : LoadOp(s) # ExportOp(t)
  BY OpParts
<1>4. \A i : Pending(i) => Pending(i)'
  BY <1>1, <1>3, OpParts DEF Pending
<1>5. /\ \A x : LoadedOp(x) \in Ops => LoadedOp(x) \in Ops'
      /\ \A t : LoadOp(t) \in Ops => LoadOp(t) \in Ops' \/ t = s
      /\ \A o : DrainOp(o) \in Ops => DrainOp(o) \in Ops'
  BY <1>1, OpParts
<1>6. SymbolKind[s] = "Section" => Coming(SymbolSection[s])'
  BY <1>1 DEF Coming, Pending
<1>7. \A t \in Symbol : SymbolKind[t] = "Section" /\ LoadOp(t) \in Ops =>
        LoadOp(t) \in Ops' \/ Coming(SymbolSection[t])'
  BY <1>5, <1>6
<1>8. \A x \in Section : /\ Pending(LoadSection(x)) => Coming(x)'
                         /\ LoadedOp(x) \in Ops \/ slot[x] = "Loaded" => Coming(x)'
  BY <1>2, <1>4, <1>5 DEF Coming
<1>9. \A t \in Symbol : Pending(LoadGlobalSymbol(t)) => Handled(t)'
  BY <1>4 DEF Handled
<1>10. Tracks
  BY <1>5, <1>7, <1>8, <1>9, TracksParts
<1> QED BY <1>1, <1>2, <1>3, <1>4, <1>10, CarriesOneOp

LEMMA CarriesExport ==
  ASSUME TypeOK, OnlyNeeded, NothingForgotten, NEW g \in Group, ExportSymbol(g)
  PROVE  Carries
<1>1. PICK s \in Symbol :
        /\ ExportOp(s) \in Ops
        /\ Ops' \subseteq Ops
        /\ Ops \subseteq Ops' \cup {ExportOp(s)}
        /\ \/ /\ CanExport(s) /\ flags[s] = {}
              /\ flags' = [flags EXCEPT ![s] = @ \cup {"EXPORT_DYNAMIC"}]
              /\ Queued' = Queued \cup (IF SymbolKind[s] = "Section"
                                          THEN {LoadSection(SymbolSection[s])} ELSE {})
           \/ /\ CanExport(s) /\ flags[s] # {}
              /\ flags' = [flags EXCEPT ![s] = @ \cup {"EXPORT_DYNAMIC"}]
              /\ Queued' = Queued
           \/ ~CanExport(s) /\ flags' = flags /\ Queued' = Queued
  BY ExportDelta
<1>2. UNCHANGED <<act, slot, startStop>>
  BY DEF ExportSymbol
<1>3. ExportOp(s).do = "export" /\ \A t : ExportOp(s) = ExportOp(t) => s = t
  BY OpParts
<1>4. Tracks /\ \A i : Pending(i) => Pending(i)'
  BY <1>1, <1>2, <1>3, TracksOneOp
<1>5. CanExport(s) => Handled(s)'
  <2> SUFFICES ASSUME CanExport(s) PROVE Handled(s)'
    OBVIOUS
  <2>1. CASE flags[s] = {}
    <3>1. SymbolKind[s] \in {"Section", "Common"}
      BY <1>1, OpsNeeded DEF OnlyNeeded, Offered
    <3>2. SymbolKind[s] = "Section" => Coming(SymbolSection[s])'
      BY <1>1, <2>1 DEF Coming, Pending
    <3> QED BY <3>1, <3>2 DEF Handled
  <2>2. CASE flags[s] # {}
    BY <1>4, <2>2 DEF NothingForgotten, Tracks
  <2> QED BY <2>1, <2>2
<1>6. MayExport(s) => Handled(s)'
  BY <1>5, CanExportInitially DEF OnlyNeeded
<1>7. \A t \in Symbol : flags'[t] # {} => flags[t] # {} \/ Handled(t)'
  <2>1. \A t \in Symbol : flags'[t] = flags[t] \/ (t = s /\ CanExport(s))
    BY <1>1 DEF TypeOK
  <2> QED BY <1>5, <2>1
<1>8. \A t \in Symbol : ExportOp(s) = ExportOp(t) /\ MayExport(t) => Handled(t)'
  BY <1>3, <1>6
<1> QED BY <1>1, <1>2, <1>3, <1>4, <1>7, <1>8, CarriesOneOp

(* By the time a synthetic symbol drains start_stop_sections, every        *)
(* eligible section has been published there or is coming already.         *)
LEMMA CarriesDrain ==
  ASSUME TypeOK, DrainsLate, OnlyNeeded, NothingForgotten, NEW g \in Group, DrainStartStop(g)
  PROVE  Carries
<1>1. PICK o \in OutputSection :
        /\ DrainOp(o) \in Ops
        /\ Queued' = Queued
        /\ \/ /\ startStop[o] = {} /\ startStop' = startStop
              /\ Ops' \subseteq Ops
              /\ Ops \subseteq Ops' \cup {DrainOp(o)}
           \/ \E x \in startStop[o] :
                /\ startStop' = [startStop EXCEPT ![o] = @ \ {x}]
                /\ Ops' = Ops \cup {Send(LoadSection(x))}
  BY DrainDelta
<1>2. UNCHANGED <<act, slot, flags>>
  BY DEF DrainStartStop
<1>3. DrainOp(o).do = "drain"
  BY OpParts
<1>4. Ops \subseteq Ops' \cup {DrainOp(o)}
  BY <1>1
<1>5. \A i : Pending(i) => Pending(i)'
  BY <1>1, <1>3, <1>4, OpParts DEF Pending
<1>6. /\ \A x : LoadedOp(x) \in Ops => LoadedOp(x) \in Ops'
      /\ \A t : LoadOp(t) \in Ops => LoadOp(t) \in Ops'
  BY <1>3, <1>4, OpParts
<1>7. \A x \in Section : Coming(x) => Coming(x)'
  BY <1>2, <1>5, <1>6 DEF Coming
<1>8. \A op \in Ops' \ Ops : op.do # "loaded"
  BY <1>1, OpParts
<1>9. CASE startStop[o] = {} /\ startStop' = startStop
  <2>1. ASSUME NEW s \in Symbol, SymbolOutput[s] = o, NEW x \in Between(s) PROVE Coming(x)'
    <3>1. x \in Section /\ InitialSlot[x] = "StartStop" /\ SectionOutput[x] = o
      BY <2>1 DEF Between
    <3>2. act[SectionGroup[x]] # "Queued" /\ SectionGroup[x] \in Group
      BY <1>1, <3>1, SectionAssumption DEF DrainsLate
    <3>3. Coming(x)
      BY <1>9, <3>1, <3>2 DEF NothingForgotten, Activated
    <3> QED BY <1>7, <3>1, <3>3
  <2>2. \A s \in Symbol : SymbolKind[s] = "StartStop" /\ DrainOp(SymbolOutput[s]) \in Ops =>
          DrainOp(SymbolOutput[s]) \in Ops' \/ \A x \in Between(s) : Coming(x)'
    <3>1. \A p : DrainOp(p) \in Ops => DrainOp(p) \in Ops' \/ p = o
      BY <1>4, OpParts
    <3> QED BY <2>1, <3>1
  <2>3. \A x \in Section : Pending(LoadSection(x)) \/ LoadedOp(x) \in Ops \/ slot[x] = "Loaded" => Coming(x)'
    BY <1>7 DEF Coming
  <2>4. \A s \in Symbol : Pending(LoadGlobalSymbol(s)) => Handled(s)'
    BY <1>5 DEF Handled
  <2>5. Tracks
    BY <1>6, <2>2, <2>3, <2>4, TracksParts
  <2>6. \A t : DrainOp(o) # ExportOp(t)
    BY OpParts
  <2> QED BY <1>2, <1>3, <1>4, <1>5, <1>8, <1>9, <2>5, <2>6, CarriesOneOp
<1>10. ASSUME NEW x \in startStop[o],
              startStop' = [startStop EXCEPT ![o] = @ \ {x}],
              Ops' = Ops \cup {Send(LoadSection(x))}
       PROVE  Carries
  <2>1. Tracks
    BY <1>1, <1>2, <1>10, TracksOneOp, OpParts
  <2>2. Coming(x)'
    BY <1>10 DEF Coming, Pending
  <2>3. \A y \in Section : y \in startStop[SectionOutput[y]] =>
          y \in startStop'[SectionOutput[y]] \/ Coming(y)'
    BY <1>10, <2>2, SectionAssumption DEF TypeOK
  <2>4. Ops \subseteq Ops' /\ \A y : LoadedOp(y) \in Ops' => LoadedOp(y) \in Ops
    BY <1>8, <1>10, OpParts
  <2> QED BY <1>2, <1>5, <2>1, <2>3, <2>4 DEF Carries
<1> QED BY <1>1, <1>9, <1>10

LEMMA CarriesMark ==
  ASSUME TypeOK, NEW g \in Group, MarkLoaded(g)
  PROVE  Carries
<1>1. PICK x \in Section :
        /\ LoadedOp(x) \in Ops
        /\ Ops' \subseteq Ops
        /\ Ops \subseteq Ops' \cup {LoadedOp(x)}
        /\ slot' = [slot EXCEPT ![x] = "Loaded"]
        /\ Queued' = Queued
  BY MarkDelta
<1>2. UNCHANGED <<act, flags, startStop>>
  BY DEF MarkLoaded, symbolVars
<1>3. \A i : Pending(i) => Pending(i)'
  BY <1>1, OpParts DEF Pending
<1>4. \A y \in Section : slot'[y] = IF y = x THEN "Loaded" ELSE slot[y]
  BY <1>1 DEF TypeOK
<1>5. /\ \A y : LoadedOp(y) \in Ops => LoadedOp(y) \in Ops' \/ y = x
      /\ \A s : LoadOp(s) \in Ops => LoadOp(s) \in Ops'
      /\ \A s : ExportOp(s) \in Ops => ExportOp(s) \in Ops'
      /\ \A o : DrainOp(o) \in Ops => DrainOp(o) \in Ops'
      /\ \A op \in Ops : op.do = "reference" => op \in Ops'
  BY <1>1, OpParts
<1>6. \A y \in Section : Pending(LoadSection(y)) \/ LoadedOp(y) \in Ops \/ slot[y] = "Loaded" => Coming(y)'
  BY <1>3, <1>4, <1>5 DEF Coming
<1>7. \A s \in Symbol : Pending(LoadGlobalSymbol(s)) => Handled(s)'
  BY <1>3 DEF Handled
<1>8. Tracks
  BY <1>5, <1>6, <1>7, TracksParts
<1>9. \A y \in Section : slot'[y] = "Loaded" \/ LoadedOp(y) \in Ops' =>
        slot[y] = "Loaded" \/ LoadedOp(y) \in Ops
  BY <1>1, <1>4
<1> QED BY <1>2, <1>3, <1>5, <1>8, <1>9 DEF Carries

(* The inductive invariant of the traversal's meaning: what is at work is  *)
(* needed, and without an error what is needed so far is at work or done.  *)
LiveInv ==
  /\ OnlyNeeded
  /\ SymbolsAtHome
  /\ DrainsLate
  /\ Clean => NothingForgotten

LEMMA LiveInvInit == Init => LiveInv
<1> SUFFICES ASSUME Init PROVE LiveInv
  OBVIOUS
<1>1. Ops = {} /\ Queued = {}
  BY RangeOfEmpty DEF Init, Ops, Queued
<1>2. SymbolsAtHome
  BY RangeOfEmpty DEF Init, SymbolsAtHome
<1>3. NothingForgotten
  BY <1>1, SectionAssumption DEF Init, NothingForgotten, SlotState
<1> QED BY <1>1, <1>2, <1>3, OnlyNeededInit DEF LiveInv, DrainsLate

LEMMA LiveInvNext ==
  ASSUME TypeOK, IInv, LiveInv, [Next]_vars
  PROVE  LiveInv'
<1>1. OnlyNeeded' /\ SymbolsAtHome' /\ DrainsLate'
  BY OnlyNeededNext, SymbolsAtHomeNext, DrainsLateNext DEF LiveInv
<1>2. ASSUME Clean' PROVE NothingForgotten'
  <2>1. Clean /\ NothingForgotten
    BY <1>2, CleanBefore DEF LiveInv
  <2>2. OnlyNeeded /\ SlotsSound /\ DrainsLate /\ FailOp \notin Ops' /\ errors' = 0
    BY <1>2 DEF LiveInv, OnlyNeeded, Clean
  <2>3. ASSUME NEW g \in Group, TaskStep(g) PROVE Carries
    <3>1. CASE \/ DelayProcessing(g) \/ StartProcessing(g) \/ CountDown(g) \/ PopDelayed(g)
               \/ RunSpawned(g) \/ Park(g) \/ SwapWork(g)
      BY <3>1, HandoverSteps, CarriesHandover DEF Handover, symbolVars
    <3>2. CASE ActivationError(g) \/ WorkError(g)
      BY <2>2, <3>2, ErrorDelta
    <3> QED BY <2>1, <2>2, <2>3, <3>1, <3>2, CarriesActivate, CarriesTake, CarriesReference,
               CarriesSend, CarriesLoad, CarriesExport, CarriesDrain, CarriesMark, CarriesCopy
            DEF TaskStep
  <2>4. CASE Finish \/ UNCHANGED vars
    <3>1. UNCHANGED <<act, frame, local, work, slot, flags, startStop>>
      BY <2>4 DEF Finish, vars, sharedVars, symbolVars
    <3> QED BY <2>1, <3>1, SameOps, SameQueued, CarriesHandover, CarriesForgetsNothing
  <2> QED BY <2>1, <2>3, <2>4, CarriesForgetsNothing DEF Next, Finished
<1> QED BY <1>1, <1>2 DEF LiveInv

---------------------------------------------------------------------------
(* When nothing is left to do, what is loaded is closed under the edges of *)
(* the graph, and so holds everything reachable.                           *)
LEMMA AllNeededLoaded ==
  ASSUME TypeOK, NothingForgotten, Ops = {}, Queued = {}, \A g \in Group : act[g] # "Queued"
  PROVE  Section \cap Needed \subseteq Loaded
<1> DEFINE C == Loaded \cup {s \in Symbol : Handled(s)}
<1>1. \A i : ~Pending(i)
  BY DEF Pending
<1>2. \A x \in Section : Coming(x) => x \in Loaded
  BY <1>1 DEF Coming, Loaded
<1>3. \A s \in Symbol : Referenced(s) => Handled(s)
  BY DEF Referenced
<1>4. \A g \in Group : Activated(g)
  BY DEF NothingForgotten
<1>5. Root \subseteq C
  <2>1. ASSUME NEW x \in Section, InitialSlot[x] = "MustLoad" PROVE x \in C
    BY <1>2, <1>4, <2>1, SectionAssumption DEF Activated
  <2>2. ASSUME NEW s \in Symbol, NEW g \in Group, NEW i \in DOMAIN RootReferences[g],
               RootReferences[g][i] = s
        PROVE  s \in C
    <3>1. s \in Range(RootReferences[g])
      BY <2>2 DEF Range
    <3> QED BY <1>3, <1>4, <3>1 DEF Activated
  <2>3. ASSUME NEW s \in Symbol, NEW g \in Group,
               s \in Exportable, SymbolKind[s] \in {"Section", "Common"},
               SymbolKind[s] = "Section" => InitialSlot[SymbolSection[s]] # "Discard",
               \/ \E i \in DOMAIN Exports[g] : Exports[g][i] = s
               \/ \E i \in DOMAIN ExportRequests[g] : ExportRequests[g][i] = s
        PROVE  s \in C
    <3>1. s \in Range(Exports[g]) \/ s \in Range(ExportRequests[g])
      BY <2>3 DEF Range
    <3>2. MayExport(s)
      BY <2>3 DEF MayExport
    <3>3. Handled(s)
      BY <1>1, <1>4, <2>3, <3>1, <3>2 DEF Activated
    <3> QED BY <3>3
  <2> QED BY <2>1, <2>2, <2>3 DEF Root
<1>6. \A e \in Edge : e[1] \in C => e[2] \in C
  <2>1. ASSUME NEW e \in Section \X Symbol, e[2] \in RequestedBy(e[1]), e[1] \in C PROVE e[2] \in C
    <3>1. slot[e[1]] = "Loaded" /\ e[1] \in Section /\ e[2] \in Symbol
      BY <2>1, SectionAssumption DEF Loaded
    <3>2. Referenced(e[2])
      BY <2>1, <3>1 DEF NothingForgotten
    <3> QED BY <1>3, <3>1, <3>2
  <2>2. ASSUME NEW e \in Symbol \X Section, e[1] \in C,
               \/ SymbolKind[e[1]] = "Section" /\ SymbolSection[e[1]] = e[2]
               \/ /\ SymbolKind[e[1]] = "StartStop" /\ InitialSlot[e[2]] = "StartStop"
                  /\ SectionOutput[e[2]] = SymbolOutput[e[1]]
        PROVE  e[2] \in C
    <3>1. e[1] \in Symbol /\ e[2] \in Section /\ Handled(e[1])
      BY <2>2, SectionAssumption DEF Loaded
    <3>2. Coming(e[2])
      BY <1>1, <2>2, <3>1 DEF Handled, Between
    <3> QED BY <1>2, <3>1, <3>2
  <2> QED BY <2>1, <2>2 DEF Edge
<1>7. C \in SUBSET Node
  BY DEF Node, Loaded
<1>8. Needed \subseteq C
  <2>1. ClosedUnder(C, Root, Edge)
    BY <1>5, <1>6 DEF ClosedUnder
  <2> HIDE DEF C
  <2> QED BY <1>7, <2>1, NeededLeast
<1> QED BY <1>8, SectionAssumption

LEMMA LiveIsNeeded == LiveSections = Section \cap Needed
  BY DEF LiveSections, Needed, Node

LEMMA LoadedOnlyNeeded ==
  ASSUME OnlyNeeded
  PROVE  Loaded \subseteq LiveSections
  BY LiveIsNeeded DEF OnlyNeeded, SlotsSound, Loaded

(* Nothing is left to do when the traversal succeeds. *)
LEMMA FinishedClean ==
  ASSUME TypeOK, IInv, IInv', Finish, outcome' = "Ok"
  PROVE  Ops = {} /\ Queued = {} /\ Clean /\ \A g \in Group : act[g] # "Queued"
<1>1. \A g \in Group : work[g] = << >> /\ local[g] = << >> /\ frame[g] = << >>
  BY DEF IInv, AllGroupsReturned, Finish
<1>2. Ops = {} /\ Queued = {}
  BY <1>1, RangeOfEmpty DEF Ops, Queued
<1>3. errors = 0
  BY DEF Finish, LinkFails, TypeOK
<1> QED BY <1>2, <1>3 DEF Clean, Finish, AllTasksDone

(* Every step of the traversal selects a live section, or is no step of    *)
(* the selection; it succeeds only with all of them.                       *)
LEMMA LiveStep ==
  ASSUME TypeOK, IInv, LiveInv, IInv', [Next]_vars
  PROVE  [Promise!Next]_(Promise!vars)
<1> USE DEF Promise!vars
<1>1. ASSUME NEW g \in Group, MarkLoaded(g) PROVE Promise!Next
  <2>1. PICK x \in Section : LoadedOp(x) \in Ops /\ slot' = [slot EXCEPT ![x] = "Loaded"]
    BY <1>1, MarkDelta
  <2>2. x \in LiveSections
    BY <2>1, OpsNeeded, LiveIsNeeded DEF LiveInv, OnlyNeeded
  <2>3. Loaded' = Loaded \cup {x}
    BY <2>1 DEF Loaded, TypeOK
  <2>4. act[g] = "Files" \/ runner[g] = "Running"
    BY <1>1 DEF MarkLoaded, Doing, IInv, QueuesOwned
  <2>5. outcome = "Running" /\ outcome' = outcome
    BY <1>1, <2>4, StillRunning DEF MarkLoaded, resultVars
  <2> QED BY <2>2, <2>3, <2>5 DEF Promise!Next, Promise!Select
<1>2. ASSUME UNCHANGED <<slot, outcome>> PROVE UNCHANGED <<Loaded, outcome>>
  BY <1>2 DEF Loaded
<1>3. ASSUME NEW g \in Group, TaskStep(g), ~MarkLoaded(g) PROVE UNCHANGED <<slot, outcome>>
  <2> USE DEF resultVars
  <2>1. CASE \/ ActivateFile(g) \/ DelayProcessing(g) \/ StartProcessing(g) \/ CountDown(g)
             \/ PopDelayed(g) \/ RunSpawned(g) \/ TakeWork(g) \/ Park(g) \/ SwapWork(g)
    BY <2>1 DEF ActivateFile, DelayProcessing, StartProcessing, CountDown, PopDelayed, RunSpawned,
                TakeWork, Park, SwapWork
  <2>2. CASE \/ ReferenceSymbol(g) \/ SendLocal(g) \/ SendRemote(g) \/ LoadSymbol(g)
             \/ ExportSymbol(g) \/ DrainStartStop(g) \/ CopyRelocate(g)
             \/ ActivationError(g) \/ WorkError(g)
    BY <2>2 DEF ReferenceSymbol, SendLocal, SendRemote, LoadSymbol, ExportSymbol, DrainStartStop,
                CopyRelocate, ActivationError, WorkError
  <2> QED BY <1>3, <2>1, <2>2 DEF TaskStep
<1>4. CASE Finish
  <2>1. Loaded' = Loaded /\ outcome = "Running"
    BY <1>4 DEF Finish, Loaded
  <2>2. CASE outcome' = "Err"
    BY <2>1, <2>2 DEF Promise!Next, Promise!Fail
  <2>3. CASE outcome' = "Ok"
    <3>1. Ops = {} /\ Queued = {} /\ NothingForgotten /\ \A g \in Group : act[g] # "Queued"
      BY <1>4, <2>3, FinishedClean DEF LiveInv
    <3>2. LiveSections \subseteq Loaded
      BY <3>1, AllNeededLoaded, LiveIsNeeded
    <3>3. Loaded = LiveSections
      BY <3>2, LoadedOnlyNeeded DEF LiveInv
    <3> QED BY <2>1, <2>3, <3>3 DEF Promise!Next, Promise!Succeed
  <2> QED BY <1>4, <2>2, <2>3 DEF Finish
<1>5. CASE UNCHANGED vars
  BY <1>2, <1>5 DEF vars, resultVars
<1> QED BY <1>1, <1>2, <1>3, <1>4, <1>5 DEF Next, Finished

(* In every state, only what is reachable from the roots is queued or      *)
(* loaded, requests for a symbol are in the queues of its own group, the   *)
(* synthetic symbols are drained after all activations, and, as long as    *)
(* no error was met, nothing that a root or a loaded section asks for      *)
(* has been forgotten.                                                     *)
THEOREM GcLiveInvariant == Spec => []LiveInv
<1>1. Init => LiveInv
  BY LiveInvInit
<1>2. TypeOK /\ IInv /\ LiveInv /\ [Next]_vars => LiveInv'
  BY LiveInvNext
<1> QED BY <1>1, <1>2, GcInvariant, PTL DEF Spec

(* find_required_sections implements LiveSelection: sections are loaded    *)
(* one by one, only live ones, and when it succeeds it has loaded all of   *)
(* them, for every input, every number of groups and every schedule of     *)
(* the tasks.                                                              *)
THEOREM GcKeepsExactlyLive == Spec => KeepsExactlyLive
<1>1. Init => Promise!Init
  BY SectionAssumption DEF Init, Promise!Init, Loaded, SlotState
<1>2. /\ TypeOK /\ IInv /\ LiveInv /\ [Next]_vars /\ TypeOK' /\ IInv' /\ LiveInv'
      => [Promise!Next]_(Promise!vars)
  BY LiveStep
<1> QED BY <1>1, <1>2, GcInvariant, GcLiveInvariant, PTL DEF Spec, KeepsExactlyLive, Promise!Spec

---------------------------------------------------------------------------
(* Copy relocations.  Whoever adds the COPY_RELOCATION flag to a symbol    *)
(* requests the copy; the request is on its way until the symbol, or one   *)
(* that is preferred to it, is recorded for the address.                   *)
Asked(s) == "COPY_RELOCATION" \in flags[s]

CopyUnderWay(s) == Pending(CopyRelocateSymbol(s)) \/ CopyOp(s) \in Ops

Recorded(s) ==
  /\ copyInfo[SymbolAddress[s]] # None
  /\ s \in WeakSymbols \/ copyInfo[SymbolAddress[s]] \notin WeakSymbols

CopyInv ==
  /\ \A s \in Symbol : CopyUnderWay(s) => Asked(s)
  /\ \A a \in Address : copyInfo[a] # None => SymbolAddress[copyInfo[a]] = a /\ Asked(copyInfo[a])
  /\ Clean => \A s \in Symbol : Asked(s) => CopyUnderWay(s) \/ Recorded(s)

LEMMA CopyStep ==
  ASSUME TypeOK, CopyInv,
         \A s \in Symbol : CopyUnderWay(s)' => CopyUnderWay(s) \/ Asked(s)',
         \A s \in Symbol : Asked(s) => Asked(s)',
         Clean' => /\ Clean
                   /\ \A s \in Symbol : CopyUnderWay(s) => CopyUnderWay(s)'
                   /\ \A s \in Symbol : Asked(s)' => Asked(s) \/ CopyUnderWay(s)',
         copyInfo' = copyInfo
  PROVE  CopyInv'
<1>1. \A s \in Symbol : CopyUnderWay(s)' => Asked(s)'
  BY DEF CopyInv
<1>2. ASSUME NEW a \in Address, copyInfo'[a] # None
      PROVE  SymbolAddress[copyInfo'[a]] = a /\ Asked(copyInfo[a])'
  <2>1. copyInfo[a] \in Symbol /\ Asked(copyInfo[a]) /\ SymbolAddress[copyInfo[a]] = a
    BY <1>2 DEF CopyInv, TypeOK
  <2>2. PICK t \in Symbol : t = copyInfo[a]
    BY <2>1
  <2>3. Asked(t)'
    BY <2>1, <2>2
  <2> QED BY <2>1, <2>2, <2>3 DEF Asked
<1>3. \A s \in Symbol : Recorded(s) => Recorded(s)'
  BY DEF Recorded
<1>4. Clean' => \A s \in Symbol : Asked(s)' => CopyUnderWay(s)' \/ Recorded(s)'
  BY <1>3 DEF CopyInv
<1> QED BY <1>1, <1>2, <1>4 DEF CopyInv, Asked

LEMMA CopyOneOp ==
  ASSUME NEW head, Ops \subseteq Ops' \cup {head}, Queued \subseteq Queued',
         \/ head.do \notin {"copy", "send"}
         \/ \E item : head = Send(item) /\ item \in Queued'
  PROVE  \A s \in Symbol : CopyUnderWay(s) => CopyUnderWay(s)'
  BY OpParts DEF CopyUnderWay, Pending

LEMMA CopyInvNext ==
  ASSUME TypeOK, IInv, CopyInv, [Next]_vars
  PROVE  CopyInv'
<1>0. Clean' => Clean
  BY CleanBefore
<1>1. ASSUME NEW g \in Group, ActivateFile(g) PROVE CopyInv'
  <2>1. PICK ops \in ActivationOutcomes(g) : Ops' = Ops \cup Range(ops)
    BY <1>1, ActivateDelta
  <2>2. Queued' = Queued \cup {LoadSection(x) : x \in Range(RootSections[g])}
    BY <1>1, ActivateDelta
  <2>3. UNCHANGED <<flags, copyInfo>>
    BY <1>1 DEF ActivateFile
  <2>4. \A s : CopyOp(s) \notin Range(ops) /\ Send(CopyRelocateSymbol(s)) \notin Range(ops)
    BY OutcomesRange, ActivationRange, ReferenceIsOp, OpParts, ItemParts
  <2>5. \A s : CopyUnderWay(s)' => CopyUnderWay(s)
    BY <2>1, <2>2, <2>4, ItemParts DEF CopyUnderWay, Pending
  <2>6. \A s : CopyUnderWay(s) => CopyUnderWay(s)'
    BY <2>1, <2>2 DEF CopyUnderWay, Pending
  <2>7. \A s : Asked(s)' <=> Asked(s)
    BY <2>3 DEF Asked
  <2> QED BY <1>0, <2>3, <2>5, <2>6, <2>7, CopyStep
<1>2. ASSUME Ops' = Ops, Queued' = Queued, UNCHANGED <<flags, copyInfo>> PROVE CopyInv'
  <2>1. \A s : /\ CopyUnderWay(s)' <=> CopyUnderWay(s)
               /\ Asked(s)' <=> Asked(s)
    BY <1>2 DEF CopyUnderWay, Pending, Asked
  <2> QED BY <1>0, <1>2, <2>1, CopyStep
<1>3. ASSUME NEW g \in Group, TakeWork(g) PROVE CopyInv'
  <2>1. PICK item \in WorkItem :
          /\ item \in Queued
          /\ Ops' = Ops \cup Range(WorkOps(item))
          /\ Queued' \subseteq Queued
          /\ Queued \subseteq Queued' \cup {item}
    BY <1>3, TakeDelta
  <2>2. UNCHANGED <<flags, copyInfo>>
    BY <1>3 DEF TakeWork, symbolVars
  <2>3. \A s : Asked(s)' <=> Asked(s)
    BY <2>2 DEF Asked
  <2>4. \A s, i : Send(i) \notin Range(WorkOps(item)) /\
                  (CopyOp(s) \in Range(WorkOps(item)) => item = CopyRelocateSymbol(s))
    <3>1. ASSUME NEW x \in Section
          PROVE  \A s, i : Send(i) \notin Range(SectionLoadOps(x)) /\ CopyOp(s) \notin Range(SectionLoadOps(x))
      <4>1. CASE slot[x] \in {"Loaded", "Discard"}
        BY <4>1, SectionLoadRange, OpParts
      <4>2. CASE slot[x] \notin {"Loaded", "Discard"}
        BY <4>2, SectionLoadRange, OpParts
      <4> QED BY <4>1, <4>2
    <3>2. ASSUME NEW t \in Symbol
          PROVE  \A s, i : Send(i) \notin Range(SymbolRequestOps(t)) /\ CopyOp(s) \notin Range(SymbolRequestOps(t))
      BY SymbolRequestRange, SymbolAssumption, OpParts
    <3>3. ASSUME NEW t \in Symbol
          PROVE  \A s, i : Send(i) \notin Range(ExportDynamicOps(t)) /\ CopyOp(s) \notin Range(ExportDynamicOps(t))
      BY ExportDynamicRange, OpParts
    <3>4. ASSUME NEW t \in Symbol
          PROVE  \A s, i : Send(i) \notin Range(CopyRelocateOps(t)) /\ (CopyOp(s) \in Range(CopyRelocateOps(t)) => s = t)
      BY CopyRelocateRange, OpParts
    <3> QED BY <3>1, <3>2, <3>3, <3>4, ItemKinds
  <2>5. \A s \in Symbol : CopyUnderWay(s)' => CopyUnderWay(s)
    BY <2>1, <2>4 DEF CopyUnderWay, Pending
  <2>6. ASSUME Clean', NEW s \in Symbol, CopyUnderWay(s) PROVE CopyUnderWay(s)'
    <3>1. CASE item = CopyRelocateSymbol(s)
      <4>1. WorkOps(item) = CopyRelocateOps(s)
        BY <3>1, ItemParts DEF WorkOps
      <4> QED BY <2>1, <2>6, <4>1, CopyRelocateRange DEF CopyUnderWay, Clean
    <3>2. CASE item # CopyRelocateSymbol(s)
      BY <2>1, <2>6, <3>2 DEF CopyUnderWay, Pending
    <3> QED BY <3>1, <3>2
  <2> QED BY <1>0, <2>2, <2>3, <2>5, <2>6, CopyStep
<1>4. ASSUME NEW g \in Group, ReferenceSymbol(g) PROVE CopyInv'
  <2>0. copyInfo' = copyInfo
    BY <1>4 DEF ReferenceSymbol
  <2>1. PICK rel \in Relocation :
          /\ Queued' = Queued
          /\ \/ /\ FailOp \in Ops'
                /\ Ops' \subseteq Ops \cup {FailOp}
                /\ flags' = flags
             \/ /\ flags' = [flags EXCEPT ![rel.symbol] = @ \cup rel.flags]
                /\ Ops \subseteq Ops' \cup {ReferenceOp(rel)}
                /\ "COPY_RELOCATION" \in rel.flags \ flags[rel.symbol] =>
                     Send(CopyRelocateSymbol(rel.symbol)) \in Ops'
                /\ \A op \in Ops' \ Ops :
                     \/ op = Send(LoadGlobalSymbol(rel.symbol))
                     \/ /\ op = Send(CopyRelocateSymbol(rel.symbol))
                        /\ "COPY_RELOCATION" \in rel.flags
    BY <1>4, ReferenceDelta
  <2>2. CASE FailOp \in Ops' /\ Ops' \subseteq Ops \cup {FailOp} /\ flags' = flags
    <3>1. ~Clean'
      BY <2>2 DEF Clean
    <3>2. \A s \in Symbol : CopyUnderWay(s)' => CopyUnderWay(s)
      BY <2>1, <2>2, OpParts DEF CopyUnderWay, Pending
    <3>3. \A s : Asked(s)' <=> Asked(s)
      BY <2>2 DEF Asked
    <3> QED BY <2>0, <3>1, <3>2, <3>3, CopyStep
  <2>3. CASE /\ flags' = [flags EXCEPT ![rel.symbol] = @ \cup rel.flags]
             /\ Ops \subseteq Ops' \cup {ReferenceOp(rel)}
             /\ "COPY_RELOCATION" \in rel.flags \ flags[rel.symbol] =>
                  Send(CopyRelocateSymbol(rel.symbol)) \in Ops'
             /\ \A op \in Ops' \ Ops :
                  \/ op = Send(LoadGlobalSymbol(rel.symbol))
                  \/ /\ op = Send(CopyRelocateSymbol(rel.symbol))
                     /\ "COPY_RELOCATION" \in rel.flags
    <3>1. rel.symbol \in Symbol
      BY DEF Relocation
    <3>2. \A s \in Symbol : flags'[s] = IF s = rel.symbol THEN flags[s] \cup rel.flags ELSE flags[s]
      BY <2>3, <3>1 DEF TypeOK
    <3>3. \A s \in Symbol : CopyUnderWay(s)' => CopyUnderWay(s) \/ Asked(s)'
      BY <2>1, <2>3, <3>2, OpParts, ItemParts DEF CopyUnderWay, Pending, Asked
    <3>4. \A s \in Symbol : Asked(s) => Asked(s)'
      BY <3>2 DEF Asked
    <3>5. \A s \in Symbol : CopyUnderWay(s) => CopyUnderWay(s)'
      BY <2>1, <2>3, OpParts DEF CopyUnderWay, Pending
    <3>6. \A s \in Symbol : Asked(s)' => Asked(s) \/ CopyUnderWay(s)'
      BY <2>3, <3>2 DEF Asked, CopyUnderWay, Pending
    <3> QED BY <1>0, <2>0, <3>3, <3>4, <3>5, <3>6, CopyStep
  <2> QED BY <2>1, <2>2, <2>3
<1>5. ASSUME NEW g \in Group, SendLocal(g) \/ SendRemote(g) PROVE CopyInv'
  <2>1. PICK item \in WorkItem :
          /\ Send(item) \in Ops
          /\ Ops' \subseteq Ops
          /\ Ops \subseteq Ops' \cup {Send(item)}
          /\ Queued' = Queued \cup {item}
    BY <1>5, SendDelta
  <2>2. UNCHANGED <<flags, copyInfo>>
    BY <1>5 DEF SendLocal, SendRemote, symbolVars
  <2>3. \A s : Asked(s)' <=> Asked(s)
    BY <2>2 DEF Asked
  <2>4. \A s \in Symbol : CopyUnderWay(s)' <=> CopyUnderWay(s)
    BY <2>1, OpParts DEF CopyUnderWay, Pending
  <2> QED BY <1>0, <2>2, <2>3, <2>4, CopyStep
<1>6. ASSUME NEW head, Ops' \subseteq Ops, Ops \subseteq Ops' \cup {head}, Queued \subseteq Queued',
             head.do \notin {"copy", "send"},
             \A item \in Queued' \ Queued : item.kind = "LoadSection",
             \A s \in Symbol : Asked(s)' <=> Asked(s),
             copyInfo' = copyInfo
      PROVE  CopyInv'
  <2>1. \A s \in Symbol : CopyUnderWay(s)' => CopyUnderWay(s)
    BY <1>6, ItemParts DEF CopyUnderWay, Pending
  <2>2. \A s \in Symbol : CopyUnderWay(s) => CopyUnderWay(s)'
    BY <1>6, CopyOneOp
  <2> QED BY <1>0, <1>6, <2>1, <2>2, CopyStep
<1>7. ASSUME NEW g \in Group, LoadSymbol(g) PROVE CopyInv'
  <2>1. PICK s \in Symbol :
          /\ Ops' \subseteq Ops
          /\ Ops \subseteq Ops' \cup {LoadOp(s)}
          /\ Queued \subseteq Queued'
          /\ \A item \in Queued' \ Queued : item = LoadSection(SymbolSection[s])
    BY <1>7, LoadDelta
  <2>2. UNCHANGED <<flags, copyInfo>>
    BY <1>7 DEF LoadSymbol
  <2>3. \A t : Asked(t)' <=> Asked(t)
    BY <2>2 DEF Asked
  <2> QED BY <1>6, <2>1, <2>2, <2>3, OpParts, ItemParts
<1>8. ASSUME NEW g \in Group, ExportSymbol(g) PROVE CopyInv'
  <2>1. PICK s \in Symbol :
          /\ Ops' \subseteq Ops
          /\ Ops \subseteq Ops' \cup {ExportOp(s)}
          /\ Queued \subseteq Queued'
          /\ \A item \in Queued' \ Queued : item = LoadSection(SymbolSection[s])
          /\ flags' = flags \/ flags' = [flags EXCEPT ![s] = @ \cup {"EXPORT_DYNAMIC"}]
    BY <1>8, ExportDelta
  <2>2. copyInfo' = copyInfo
    BY <1>8 DEF ExportSymbol
  <2>3. ASSUME NEW t \in Symbol PROVE Asked(t)' <=> Asked(t)
    <3>1. flags'[t] = flags[t] \/ flags'[t] = flags[t] \cup {"EXPORT_DYNAMIC"}
      BY <2>1 DEF TypeOK
    <3> QED BY <3>1 DEF Asked
  <2> QED BY <1>6, <2>1, <2>2, <2>3, OpParts, ItemParts
<1>9. ASSUME NEW g \in Group, DrainStartStop(g) PROVE CopyInv'
  <2>1. PICK o \in OutputSection :
          /\ Queued' = Queued
          /\ Ops \subseteq Ops' \cup {DrainOp(o)}
          /\ \A op \in Ops' \ Ops : \E x : op = Send(LoadSection(x))
    BY <1>9, DrainDelta
  <2>2. UNCHANGED <<flags, copyInfo>>
    BY <1>9 DEF DrainStartStop
  <2>3. \A s : Asked(s)' <=> Asked(s)
    BY <2>2 DEF Asked
  <2>4. \A s \in Symbol : CopyUnderWay(s)' => CopyUnderWay(s)
    BY <2>1, OpParts, ItemParts DEF CopyUnderWay, Pending
  <2>5. \A s \in Symbol : CopyUnderWay(s) => CopyUnderWay(s)'
    BY <2>1, OpParts DEF CopyUnderWay, Pending
  <2> QED BY <1>0, <2>2, <2>3, <2>4, <2>5, CopyStep
<1>10. ASSUME NEW g \in Group, MarkLoaded(g) PROVE CopyInv'
  <2>1. PICK x \in Section : Ops' \subseteq Ops /\ Ops \subseteq Ops' \cup {LoadedOp(x)} /\ Queued' = Queued
    BY <1>10, MarkDelta
  <2>2. UNCHANGED <<flags, copyInfo>>
    BY <1>10 DEF MarkLoaded, symbolVars
  <2>3. \A t : Asked(t)' <=> Asked(t)
    BY <2>2 DEF Asked
  <2> QED BY <1>6, <2>1, <2>2, <2>3, OpParts
<1>11. ASSUME NEW g \in Group, CopyRelocate(g) PROVE CopyInv'
  <2>1. PICK s \in Symbol :
          /\ CopyOp(s) \in Ops
          /\ Ops' \subseteq Ops
          /\ Ops \subseteq Ops' \cup {CopyOp(s)}
          /\ copyInfo' = [copyInfo EXCEPT ![SymbolAddress[s]] = AddSymbol(@, s)]
          /\ Queued' = Queued
    BY <1>11, CopyDelta
  <2>2. flags' = flags
    BY <1>11 DEF CopyRelocate
  <2>3. \A t : Asked(t)' <=> Asked(t)
    BY <2>2 DEF Asked
  <2>4. \A t \in Symbol : CopyUnderWay(t)' => CopyUnderWay(t)
    BY <2>1 DEF CopyUnderWay, Pending
  <2>5. \A t \in Symbol : CopyUnderWay(t) => CopyUnderWay(t)' \/ t = s
    BY <2>1, OpParts DEF CopyUnderWay, Pending
  <2>6. Asked(s)
    BY <2>1 DEF CopyInv, CopyUnderWay
  <2>7. \A a \in Address : \/ copyInfo'[a] = copyInfo[a]
                           \/ a = SymbolAddress[s] /\ copyInfo'[a] = s
    BY <2>1 DEF TypeOK, AddSymbol
  <2>8. ASSUME NEW a \in Address, copyInfo'[a] # None
        PROVE  SymbolAddress[copyInfo'[a]] = a /\ Asked(copyInfo[a])'
    BY <2>2, <2>6, <2>7, <2>8 DEF CopyInv, Asked
  <2>9. Recorded(s)'
    <3>1. SymbolAddress[s] \in Address
      BY SymbolAssumption
    <3>2. copyInfo'[SymbolAddress[s]] = AddSymbol(copyInfo[SymbolAddress[s]], s)
      BY <2>1, <3>1 DEF TypeOK
    <3> QED BY <3>2, SymbolAssumption DEF Recorded, AddSymbol
  <2>10. ASSUME NEW t \in Symbol, Recorded(t) PROVE Recorded(t)'
    <3>1. SymbolAddress[t] \in Address
      BY SymbolAssumption
    <3>2. CASE copyInfo'[SymbolAddress[t]] = copyInfo[SymbolAddress[t]]
      BY <2>10, <3>2 DEF Recorded
    <3>3. CASE SymbolAddress[t] = SymbolAddress[s] /\ copyInfo'[SymbolAddress[t]] # copyInfo[SymbolAddress[t]]
      <4>1. copyInfo'[SymbolAddress[t]] = AddSymbol(copyInfo[SymbolAddress[t]], s)
        BY <2>1, <3>1, <3>3 DEF TypeOK
      <4>2. s \notin WeakSymbols /\ copyInfo'[SymbolAddress[t]] = s
        BY <2>10, <3>3, <4>1 DEF AddSymbol, Recorded
      <4> QED BY <4>2, SymbolAssumption DEF Recorded
    <3> QED BY <2>7, <3>1, <3>2, <3>3
  <2>11. Clean' => \A t \in Symbol : Asked(t)' => CopyUnderWay(t)' \/ Recorded(t)'
    BY <1>0, <2>3, <2>5, <2>9, <2>10 DEF CopyInv
  <2> QED BY <2>3, <2>4, <2>8, <2>11 DEF CopyInv
<1>12. ASSUME NEW g \in Group, ActivationError(g) \/ WorkError(g) PROVE CopyInv'
  <2>1. Ops' \subseteq Ops /\ Queued' \subseteq Queued /\ ~Clean' /\ UNCHANGED <<flags, copyInfo>>
    BY <1>12, ErrorDelta DEF Clean, symbolVars
  <2>2. \A s : (CopyUnderWay(s)' => CopyUnderWay(s)) /\ (Asked(s)' <=> Asked(s))
    BY <2>1 DEF CopyUnderWay, Pending, Asked
  <2> QED BY <2>1, <2>2, CopyStep
<1>13. CASE Finish \/ UNCHANGED vars
  <2>1. UNCHANGED <<frame, local, work, flags, copyInfo>>
    BY <1>13 DEF Finish, vars, sharedVars, symbolVars
  <2> QED BY <1>2, <2>1, SameOps, SameQueued
<1>14. ASSUME NEW g \in Group,
              \/ DelayProcessing(g) \/ StartProcessing(g) \/ CountDown(g) \/ PopDelayed(g)
              \/ RunSpawned(g) \/ Park(g) \/ SwapWork(g)
       PROVE  CopyInv'
  BY <1>2, <1>14, HandoverSteps DEF Handover, symbolVars
<1> QED BY <1>1, <1>3, <1>4, <1>5, <1>7, <1>8, <1>9, <1>10, <1>11, <1>12, <1>13, <1>14
        DEF Next, TaskStep, Finished

(* A traversal that returned its groups reported no error, and reports     *)
(* none afterwards: all tasks have ended.                                  *)
OkClean == outcome = "Ok" => errors = 0

LEMMA OkCleanNext ==
  ASSUME TypeOK, IInv, OkClean, [Next]_vars
  PROVE  OkClean'
<1>1. CASE Finish
  BY <1>1 DEF Finish, LinkFails, OkClean, TypeOK
<1>2. ASSUME NEW g \in Group, ActivationError(g) \/ WorkError(g) PROVE OkClean'
  <2>1. outcome = "Running" /\ outcome' = outcome
    BY <1>2 DEF ActivationError, WorkError, IInv, Ended, AllTasksDone
  <2> QED BY <2>1 DEF OkClean
<1>3. CASE UNCHANGED <<outcome, errors>>
  BY <1>3 DEF OkClean
<1>4. ASSUME NEW g \in Group, TaskStep(g), ~(ActivationError(g) \/ WorkError(g))
      PROVE  UNCHANGED <<outcome, errors>>
  BY <1>4 DEF TaskStep, ActivateFile, DelayProcessing, StartProcessing, CountDown, PopDelayed,
              RunSpawned, TakeWork, Park, SwapWork, ReferenceSymbol, SendLocal, SendRemote,
              LoadSymbol, ExportSymbol, DrainStartStop, MarkLoaded, CopyRelocate, resultVars
<1> QED BY <1>1, <1>2, <1>3, <1>4 DEF Next, Finished, vars, resultVars

(* After a successful traversal the copy relocation recorded for an        *)
(* address is one that some relocation asked for, and a strong symbol if   *)
(* one was asked for, in whatever order the requests reached the shared    *)
(* object.                                                                 *)
THEOREM GcCopyRelocationsRecorded == Spec => []CopyRelocationsRecorded
<1>1. Init => CopyInv
  <2> SUFFICES ASSUME Init PROVE CopyInv
    OBVIOUS
  <2>1. Ops = {} /\ Queued = {}
    BY RangeOfEmpty DEF Init, Ops, Queued
  <2> QED BY <2>1 DEF Init, CopyInv, CopyUnderWay, Pending, Asked
<1>2. TypeOK /\ IInv /\ CopyInv /\ [Next]_vars => CopyInv'
  BY CopyInvNext
<1>3. TypeOK /\ IInv /\ CopyInv /\ OkClean => CopyRelocationsRecorded
  <2> SUFFICES ASSUME TypeOK, IInv, CopyInv, errors = 0, outcome = "Ok", NEW a \in Address
               PROVE  LET asked == {s \in Symbol : SymbolAddress[s] = a /\ "COPY_RELOCATION" \in flags[s]}
                      IN IF asked = {}
                           THEN copyInfo[a] = None
                           ELSE /\ copyInfo[a] \in asked
                                /\ asked \subseteq WeakSymbols \/ copyInfo[a] \notin WeakSymbols
    BY DEF CopyRelocationsRecorded, OkClean
  <2> DEFINE asked == {s \in Symbol : SymbolAddress[s] = a /\ "COPY_RELOCATION" \in flags[s]}
  <2>1. Ops = {} /\ Queued = {}
    BY RangeOfEmpty DEF Ops, Queued, IInv, AllGroupsReturned
  <2>2. \A s \in Symbol : Asked(s) => Recorded(s)
    BY <2>1 DEF CopyInv, CopyUnderWay, Pending, Clean
  <2>3. copyInfo[a] # None => copyInfo[a] \in asked
    BY DEF CopyInv, Asked, TypeOK
  <2>4. \A s \in asked : copyInfo[a] # None /\ (s \in WeakSymbols \/ copyInfo[a] \notin WeakSymbols)
    BY <2>2 DEF Asked, Recorded
  <2> QED BY <2>3, <2>4
<1>4. Init => OkClean
  BY DEF Init, OkClean
<1>5. TypeOK /\ IInv /\ OkClean /\ [Next]_vars => OkClean'
  BY OkCleanNext
<1> QED BY <1>1, <1>2, <1>3, <1>4, <1>5, GcInvariant, PTL DEF Spec

---------------------------------------------------------------------------
(* Common symbols are allocated once.  A request for a symbol is at one    *)
(* place at a time: on its way in a frame, in a queue, or at work.         *)

Has(q, T) == Range(q) \cap T # {}

Once(q, T) == \A i, j \in DOMAIN q : q[i] \in T /\ q[j] \in T => i = j

(* A queue that has no more requests than it had. *)
Leaner(r, q, T) == (Once(q, T) => Once(r, T)) /\ (Has(r, T) => Has(q, T))

LEMMA HasIndex ==
  ASSUME NEW S, NEW q \in Seq(S), NEW T
  PROVE  /\ DOMAIN q = 1..Len(q) /\ Len(q) \in Nat
         /\ Has(q, T) <=> \E i \in 1..Len(q) : q[i] \in T
<1>1. Range(q) = {q[i] : i \in 1..Len(q)}
  BY RangeEquality
<1> QED BY <1>1 DEF Has

LEMMA NoneIsOnce ==
  ASSUME NEW S, NEW q \in Seq(S), NEW T, ~Has(q, T)
  PROVE  Once(q, T)
  BY HasIndex DEF Once

LEMMA OnceTail ==
  ASSUME NEW S, NEW q \in Seq(S), NEW T, q # << >>
  PROVE  /\ Leaner(Tail(q), q, T)
         /\ Once(q, T) /\ Head(q) \in T => ~Has(Tail(q), T)
         /\ Head(q) \in T => Has(q, T)
<1>1. /\ Tail(q) \in Seq(S) /\ Len(Tail(q)) = Len(q) - 1 /\ Len(q) \in Nat \ {0}
      /\ Head(q) = q[1]
  OBVIOUS
<1>2. \A i \in 1..Len(Tail(q)) : i + 1 \in 1..Len(q) /\ Tail(q)[i] = q[i + 1]
  OBVIOUS
<1>3. Once(q, T) => Once(Tail(q), T)
  <2> SUFFICES ASSUME Once(q, T), NEW i \in 1..Len(Tail(q)), NEW j \in 1..Len(Tail(q)),
                      Tail(q)[i] \in T, Tail(q)[j] \in T
               PROVE  i = j
    BY <1>1, HasIndex DEF Once
  <2>1. i + 1 = j + 1
    BY <1>2, HasIndex DEF Once
  <2> QED BY <2>1
<1>4. Has(Tail(q), T) => Has(q, T)
  <2>1. Range(Tail(q)) \subseteq Range(q)
    BY RangeTail
  <2> QED BY <2>1 DEF Has
<1>5. Once(q, T) /\ Head(q) \in T => ~Has(Tail(q), T)
  <2> SUFFICES ASSUME Once(q, T), Head(q) \in T, Has(Tail(q), T) PROVE FALSE
    OBVIOUS
  <2>1. PICK i \in 1..Len(Tail(q)) : Tail(q)[i] \in T
    BY <1>1, HasIndex
  <2>2. i + 1 = 1
    BY <1>1, <1>2, <2>1, HasIndex DEF Once
  <2> QED BY <2>2
<1>6. Head(q) \in T => Has(q, T)
  BY <1>1, HasIndex
<1> QED BY <1>3, <1>4, <1>5, <1>6 DEF Leaner

LEMMA OnceFront ==
  ASSUME NEW S, NEW q \in Seq(S), NEW T, q # << >>
  PROVE  /\ Leaner(SubSeq(q, 1, Len(q) - 1), q, T)
         /\ Once(q, T) /\ q[Len(q)] \in T => ~Has(SubSeq(q, 1, Len(q) - 1), T)
         /\ q[Len(q)] \in T => Has(q, T)
<1> DEFINE f == SubSeq(q, 1, Len(q) - 1)
<1>1. f \in Seq(S) /\ Len(q) \in Nat \ {0}
  BY RangeFront
<1>2. Len(f) = Len(q) - 1 /\ \A i \in 1..Len(f) : i \in 1..Len(q) /\ i # Len(q) /\ f[i] = q[i]
  <2>1. \A n \in Nat : n \in Int /\ (IF 1 <= n THEN n - 1 + 1 ELSE 0) = n
    OBVIOUS
  <2>2. Len(q) - 1 \in Nat /\ \A i \in 1..(Len(q) - 1) : q[i] \in S
    BY <1>1
  <2>3. /\ Len(f) = IF 1 <= Len(q) - 1 THEN (Len(q) - 1) - 1 + 1 ELSE 0
        /\ \A i \in 1..(Len(q) - 1 - 1 + 1) : f[i] = q[1 + i - 1]
    BY <2>1, <2>2, SubSeqProperties
  <2>4. Len(f) = Len(q) - 1
    BY <2>1, <2>2, <2>3
  <2> QED BY <1>1, <2>3, <2>4
<1> HIDE DEF f
<1>3. DOMAIN f = 1..Len(f) /\ (Has(f, T) <=> \E i \in 1..Len(f) : f[i] \in T)
  BY <1>1, HasIndex
<1>4. DOMAIN q = 1..Len(q) /\ (Has(q, T) <=> \E i \in 1..Len(q) : q[i] \in T)
  BY HasIndex
<1>5. Leaner(f, q, T)
  BY <1>2, <1>3, <1>4 DEF Leaner, Once
<1>6. Once(q, T) /\ q[Len(q)] \in T => ~Has(f, T)
  <2>1. Len(q) \in 1..Len(q)
    BY <1>1
  <2> QED BY <1>2, <1>3, <1>4, <2>1 DEF Once
<1>7. q[Len(q)] \in T => Has(q, T)
  BY <1>1, <1>4
<1> QED BY <1>5, <1>6, <1>7 DEF f

LEMMA OnceAppend ==
  ASSUME NEW S, NEW q \in Seq(S), NEW e \in S, NEW T
  PROVE  /\ e \notin T => Leaner(Append(q, e), q, T)
         /\ ~Has(q, T) => Once(Append(q, e), T)
         /\ Has(Append(q, e), T) <=> Has(q, T) \/ e \in T
<1> DEFINE r == Append(q, e)
<1>1. r \in Seq(S) /\ Len(r) = Len(q) + 1 /\ Len(q) \in Nat
  OBVIOUS
<1>2. r[Len(q) + 1] = e /\ \A i \in 1..Len(r) : i # Len(q) + 1 => i \in 1..Len(q) /\ r[i] = q[i]
  OBVIOUS
<1>3. \A i \in 1..Len(q) : i \in 1..Len(r) /\ r[i] = q[i]
  OBVIOUS
<1> HIDE DEF r
<1>4. DOMAIN r = 1..Len(r) /\ (Has(r, T) <=> \E i \in 1..Len(r) : r[i] \in T)
  BY <1>1, HasIndex
<1>5. DOMAIN q = 1..Len(q) /\ (Has(q, T) <=> \E i \in 1..Len(q) : q[i] \in T)
  BY HasIndex
<1>6. Has(r, T) <=> Has(q, T) \/ e \in T
  BY <1>1, <1>2, <1>3, <1>4, <1>5
<1>7. e \notin T => Leaner(r, q, T)
  BY <1>2, <1>4, <1>5, <1>6 DEF Leaner, Once
<1>8. ~Has(q, T) => Once(r, T)
  BY <1>2, <1>4, <1>5 DEF Once
<1> QED BY <1>6, <1>7, <1>8 DEF r

LEMMA OncePrepend ==
  ASSUME NEW S, NEW q \in Seq(S), NEW e \in S, NEW T
  PROVE  /\ e \notin T => Leaner(<<e>> \o q, q, T)
         /\ ~Has(q, T) => Once(<<e>> \o q, T)
         /\ Has(<<e>> \o q, T) <=> Has(q, T) \/ e \in T
<1> DEFINE r == <<e>> \o q
<1>1. r \in Seq(S) /\ Len(r) = Len(q) + 1 /\ Len(q) \in Nat
  OBVIOUS
<1>2. r[1] = e /\ \A i \in 1..Len(r) : i # 1 => i - 1 \in 1..Len(q) /\ r[i] = q[i - 1]
  OBVIOUS
<1>3. \A i \in 1..Len(q) : i + 1 \in 1..Len(r) /\ r[i + 1] = q[i]
  OBVIOUS
<1> HIDE DEF r
<1>4. DOMAIN r = 1..Len(r) /\ (Has(r, T) <=> \E i \in 1..Len(r) : r[i] \in T)
  BY <1>1, HasIndex
<1>5. DOMAIN q = 1..Len(q) /\ (Has(q, T) <=> \E i \in 1..Len(q) : q[i] \in T)
  BY HasIndex
<1>6. Has(r, T) <=> Has(q, T) \/ e \in T
  BY <1>1, <1>2, <1>3, <1>4, <1>5
<1>7. ASSUME e \notin T, Once(q, T) PROVE Once(r, T)
  <2> SUFFICES ASSUME NEW i \in 1..Len(r), NEW j \in 1..Len(r), r[i] \in T, r[j] \in T
               PROVE  i = j
    BY <1>4 DEF Once
  <2>1. i # 1 /\ j # 1
    BY <1>2, <1>7
  <2>2. i - 1 = j - 1
    BY <1>2, <1>5, <1>7, <2>1 DEF Once
  <2> QED BY <2>2
<1>8. ~Has(q, T) => Once(r, T)
  BY <1>2, <1>4, <1>5 DEF Once
<1> QED BY <1>6, <1>7, <1>8 DEF r, Leaner

---------------------------------------------------------------------------
(* The places a request can be at. *)
Place == {"frame", "local", "work"} \X Group

At(c) ==
  IF c[1] = "frame" THEN frame[c[2]] ELSE IF c[1] = "local" THEN local[c[2]] ELSE work[c[2]]

Request(s) == {Send(LoadGlobalSymbol(s)), LoadOp(s), LoadGlobalSymbol(s)}

UnderWay(s) == \E c \in Place : Has(At(c), Request(s))

AtOnePlace(s) ==
  /\ \A c \in Place : Once(At(c), Request(s))
  /\ \A c, d \in Place : Has(At(c), Request(s)) /\ Has(At(d), Request(s)) => c = d

AllocatedOnce(s) ==
  /\ AtOnePlace(s)
  /\ flags[s] = {} => ~UnderWay(s) /\ commonAllocs[s] = 0
  /\ UnderWay(s) => commonAllocs[s] = 0
  /\ commonAllocs[s] <= 1
  /\ Clean /\ flags[s] # {} => UnderWay(s) \/ commonAllocs[s] = 1

ReferencesFlagged ==
  \A op \in Ops : op.do = "reference" /\ SymbolKind[op.rel.symbol] = "Common" => op.rel.flags # {}

LEMMA PlacesLeaner ==
  ASSUME NEW T,
         \A g \in Group : /\ Leaner(frame'[g], frame[g], T)
                          /\ Leaner(local'[g], local[g], T)
                          /\ Leaner(work'[g], work[g], T)
  PROVE  \A c \in Place : Leaner(At(c)', At(c), T)
  BY DEF Place, At

LEMMA FewerRequests ==
  ASSUME NEW s, AtOnePlace(s),
         \A g \in Group : /\ Leaner(frame'[g], frame[g], Request(s))
                          /\ Leaner(local'[g], local[g], Request(s))
                          /\ Leaner(work'[g], work[g], Request(s))
  PROVE  AtOnePlace(s)' /\ (UnderWay(s)' => UnderWay(s))
<1>1. \A c \in Place : Leaner(At(c)', At(c), Request(s))
  BY PlacesLeaner
<1>2. Request(s)' = Request(s) /\ Place' = Place
  BY DEF Request, Send, LoadGlobalSymbol, LoadOp, Place
<1>3. \A c \in Place : Once(At(c)', Request(s)) /\ (Has(At(c)', Request(s)) => Has(At(c), Request(s)))
  BY <1>1 DEF Leaner, AtOnePlace
<1>4. AtOnePlace(s)'
  BY <1>3 DEF AtOnePlace
<1> QED BY <1>3, <1>4 DEF UnderWay

LEMMA RequestMoved ==
  ASSUME TypeOK', NEW s, NEW d \in Place,
         Once(At(d)', Request(s)),
         \A c \in Place : c # d => ~Has(At(c)', Request(s))
  PROVE  AtOnePlace(s)'
<1>1. ASSUME NEW c \in Place, c # d PROVE Once(At(c)', Request(s))
  <2>1. At(c)' \in Seq(Op) \/ At(c)' \in Seq(WorkItem)
    BY DEF TypeOK, Place, At
  <2> QED BY <1>1, <2>1, NoneIsOnce
<1> QED BY <1>1 DEF AtOnePlace

LEMMA RequestForms ==
  ASSUME NEW s \in Symbol
  PROVE  /\ \A op \in Op : op \in Request(s) <=> op = Send(LoadGlobalSymbol(s)) \/ op = LoadOp(s)
         /\ \A item \in WorkItem : item \in Request(s) <=> item = LoadGlobalSymbol(s)
<1>1. \A op \in Op : "do" \in DOMAIN op
  BY DEF Op
<1>2. \A item \in WorkItem : "do" \notin DOMAIN item
  BY DEF WorkItem
<1>3. LoadGlobalSymbol(s) \in WorkItem
  BY DEF LoadGlobalSymbol, WorkItem
<1>4. Send(LoadGlobalSymbol(s)) \in Op /\ LoadOp(s) \in Op
  BY <1>3 DEF Send, Op, LoadOp
<1> QED BY <1>1, <1>2, <1>3, <1>4 DEF Request

LEMMA UnderWaySets ==
  ASSUME NEW s
  PROVE  /\ UnderWay(s) <=> Request(s) \cap (Ops \cup Queued) # {}
         /\ UnderWay(s)' <=> Request(s) \cap (Ops' \cup Queued') # {}
<1>1. /\ \A g \in Group : /\ <<"frame", g>> \in Place /\ At(<<"frame", g>>) = frame[g]
                          /\ <<"local", g>> \in Place /\ At(<<"local", g>>) = local[g]
                          /\ <<"work", g>> \in Place /\ At(<<"work", g>>) = work[g]
                          /\ At(<<"frame", g>>)' = frame'[g]
                          /\ At(<<"local", g>>)' = local'[g]
                          /\ At(<<"work", g>>)' = work'[g]
      /\ \A c \in Place : \E g \in Group : c \in {<<"frame", g>>, <<"local", g>>, <<"work", g>>}
  BY DEF Place, At
<1>2. UnderWay(s) <=> \E g \in Group : \/ Has(frame[g], Request(s))
                                       \/ Has(local[g], Request(s))
                                       \/ Has(work[g], Request(s))
  BY <1>1, ZenonT(60) DEF UnderWay
<1>3. UnderWay(s)' <=> \E g \in Group : \/ Has(frame'[g], Request(s))
                                        \/ Has(local'[g], Request(s))
                                        \/ Has(work'[g], Request(s))
  BY <1>1, ZenonT(60) DEF UnderWay
<1> QED BY <1>2, <1>3 DEF Has, Ops, Queued

LEMMA LeanerSame ==
  ASSUME NEW q, NEW T
  PROVE  Leaner(q, q, T)
  BY DEF Leaner

LEMMA LeanerNone ==
  ASSUME NEW S, NEW r \in Seq(S), NEW q, NEW T, ~Has(r, T)
  PROVE  Leaner(r, q, T)
  BY NoneIsOnce DEF Leaner

(* A step that moves no request for s and allocates nothing for it. *)
LEMMA AllocatedStep ==
  ASSUME NEW s, AllocatedOnce(s),
         \A g \in Group : /\ Leaner(frame'[g], frame[g], Request(s))
                          /\ Leaner(local'[g], local[g], Request(s))
                          /\ Leaner(work'[g], work[g], Request(s)),
         commonAllocs'[s] = commonAllocs[s],
         flags'[s] = {} <=> flags[s] = {},
         Clean' => Clean /\ (UnderWay(s) => UnderWay(s)')
  PROVE  AllocatedOnce(s)'
<1>1. AtOnePlace(s)' /\ (UnderWay(s)' => UnderWay(s))
  BY FewerRequests DEF AllocatedOnce
<1> QED BY <1>1 DEF AllocatedOnce

(* The owner of a group does an operation that does not concern s. *)
LEMMA AllocatedPop ==
  ASSUME TypeOK, NEW g \in Group, NEW s \in Symbol, AllocatedOnce(s),
         frame[g] # << >>, Head(frame[g]) \notin Request(s),
         frame' = [frame EXCEPT ![g] = Next_(g)],
         \A h \in Group : /\ Leaner(local'[h], local[h], Request(s))
                          /\ Leaner(work'[h], work[h], Request(s)),
         Queued \subseteq Queued',
         commonAllocs'[s] = commonAllocs[s],
         flags'[s] = {} <=> flags[s] = {},
         Clean' => Clean
  PROVE  AllocatedOnce(s)'
<1>1. \A h \in Group : Leaner(frame'[h], frame[h], Request(s))
  <2>1. frame[g] \in Seq(Op) /\ frame'[g] = Tail(frame[g])
    BY DEF TypeOK, Next_
  <2>2. \A h \in Group \ {g} : frame'[h] = frame[h]
    BY DEF TypeOK
  <2> QED BY <2>1, <2>2, OnceTail, LeanerSame
<1>2. Ops \subseteq Ops' \cup {Head(frame[g])}
  BY PopLastOp
<1>3. UnderWay(s) => UnderWay(s)'
  BY <1>2, UnderWaySets
<1> QED BY <1>1, <1>3, AllocatedStep

LEMMA AllocatedMoved ==
  ASSUME NEW s, AllocatedOnce(s), UnderWay(s), AtOnePlace(s)', UnderWay(s)',
         UNCHANGED <<flags, commonAllocs>>
  PROVE  AllocatedOnce(s)'
  BY DEF AllocatedOnce

(* A request that is now in one queue, and nowhere else. *)
LEMMA MovedToFrame ==
  ASSUME TypeOK', NEW s, NEW g \in Group,
         Once(frame'[g], Request(s)), Has(frame'[g], Request(s)),
         \A h \in Group : /\ h # g => ~Has(frame'[h], Request(s))
                          /\ ~Has(local'[h], Request(s)) /\ ~Has(work'[h], Request(s))
  PROVE  AtOnePlace(s)' /\ UnderWay(s)'
<1>1. <<"frame", g>> \in Place /\ At(<<"frame", g>>)' = frame'[g]
  BY DEF Place, At
<1>2. ASSUME NEW c \in Place, c # <<"frame", g>> PROVE ~Has(At(c)', Request(s))
  <2>1. c[2] \in Group /\ (c[1] = "frame" => c[2] # g)
    BY <1>2 DEF Place
  <2> QED BY <2>1 DEF At
<1>3. UnderWay(s)'
  BY <1>1 DEF UnderWay
<1> QED BY <1>1, <1>2, <1>3, RequestMoved

LEMMA MovedToLocal ==
  ASSUME TypeOK', NEW s, NEW g \in Group,
         Once(local'[g], Request(s)), Has(local'[g], Request(s)),
         \A h \in Group : /\ h # g => ~Has(local'[h], Request(s))
                          /\ ~Has(frame'[h], Request(s)) /\ ~Has(work'[h], Request(s))
  PROVE  AtOnePlace(s)' /\ UnderWay(s)'
<1>1. <<"local", g>> \in Place /\ At(<<"local", g>>)' = local'[g]
  BY DEF Place, At
<1>2. ASSUME NEW c \in Place, c # <<"local", g>> PROVE ~Has(At(c)', Request(s))
  <2>1. c[2] \in Group /\ (c[1] = "local" => c[2] # g)
    BY <1>2 DEF Place
  <2> QED BY <2>1 DEF At
<1>3. UnderWay(s)'
  BY <1>1 DEF UnderWay
<1> QED BY <1>1, <1>2, <1>3, RequestMoved

LEMMA MovedToWork ==
  ASSUME TypeOK', NEW s, NEW g \in Group,
         Once(work'[g], Request(s)), Has(work'[g], Request(s)),
         \A h \in Group : /\ h # g => ~Has(work'[h], Request(s))
                          /\ ~Has(frame'[h], Request(s)) /\ ~Has(local'[h], Request(s))
  PROVE  AtOnePlace(s)' /\ UnderWay(s)'
<1>1. <<"work", g>> \in Place /\ At(<<"work", g>>)' = work'[g]
  BY DEF Place, At
<1>2. ASSUME NEW c \in Place, c # <<"work", g>> PROVE ~Has(At(c)', Request(s))
  <2>1. c[2] \in Group /\ c[1] \in {"frame", "local", "work"} /\ (c[1] = "work" => c[2] # g)
    BY <1>2 DEF Place
  <2> QED BY <2>1 DEF At
<1>3. UnderWay(s)'
  BY <1>1 DEF UnderWay
<1> QED BY <1>1, <1>2, <1>3, RequestMoved

(* A queue with a request is the only one. *)
LEMMA OnlyPlace ==
  ASSUME NEW s, AtOnePlace(s), NEW g \in Group
  PROVE  /\ Once(frame[g], Request(s)) /\ Once(local[g], Request(s)) /\ Once(work[g], Request(s))
         /\ Has(frame[g], Request(s)) \/ Has(local[g], Request(s)) \/ Has(work[g], Request(s)) =>
              UnderWay(s)
         /\ Has(frame[g], Request(s)) =>
              \A h \in Group : /\ h # g => ~Has(frame[h], Request(s))
                               /\ ~Has(local[h], Request(s)) /\ ~Has(work[h], Request(s))
         /\ Has(local[g], Request(s)) =>
              \A h \in Group : /\ h # g => ~Has(local[h], Request(s))
                               /\ ~Has(frame[h], Request(s)) /\ ~Has(work[h], Request(s))
         /\ Has(work[g], Request(s)) =>
              \A h \in Group : /\ h # g => ~Has(work[h], Request(s))
                               /\ ~Has(frame[h], Request(s)) /\ ~Has(local[h], Request(s))
<1>1. \A h \in Group : /\ <<"frame", h>> \in Place /\ At(<<"frame", h>>) = frame[h]
                       /\ <<"local", h>> \in Place /\ At(<<"local", h>>) = local[h]
                       /\ <<"work", h>> \in Place /\ At(<<"work", h>>) = work[h]
  BY DEF Place, At
<1>2. \A h : /\ <<"local", h>> # <<"frame", g>> /\ <<"work", h>> # <<"frame", g>>
             /\ <<"frame", h>> # <<"local", g>> /\ <<"work", h>> # <<"local", g>>
             /\ <<"frame", h>> # <<"work", g>> /\ <<"local", h>> # <<"work", g>>
             /\ h # g => /\ <<"frame", h>> # <<"frame", g>> /\ <<"local", h>> # <<"local", g>>
                         /\ <<"work", h>> # <<"work", g>>
  OBVIOUS
<1> QED BY <1>1, <1>2 DEF AtOnePlace, UnderWay

(* The place of the operation at hand is the only one with a request, if   *)
(* it is one; afterwards it is at no place, unless the step puts it there. *)
LEMMA RequestTaken ==
  ASSUME TypeOK, NEW g \in Group, NEW s \in Symbol, AtOnePlace(s),
         frame[g] # << >>, Head(frame[g]) \in Request(s)
  PROVE  /\ UnderWay(s)
         /\ ~Has(Next_(g), Request(s))
         /\ \A h \in Group \ {g} : ~Has(frame[h], Request(s))
         /\ \A h \in Group : ~Has(local[h], Request(s)) /\ ~Has(work[h], Request(s))
<1>1. frame[g] \in Seq(Op)
  BY DEF TypeOK
<1>2. Has(frame[g], Request(s)) /\ (Once(frame[g], Request(s)) => ~Has(Tail(frame[g]), Request(s)))
  BY <1>1, OnceTail
<1> QED BY <1>2, OnlyPlace DEF Next_

LEMMA AllocatedSend ==
  ASSUME TypeOK, TypeOK', NEW g \in Group, SendLocal(g) \/ SendRemote(g),
         NEW s \in Symbol, AllocatedOnce(s), Clean' => Clean
  PROVE  AllocatedOnce(s)'
<1> DEFINE item == Head(frame[g]).item
           T == Request(s)
<1>1. Doing(g, "send") /\ frame[g] # << >> /\ frame' = [frame EXCEPT ![g] = Next_(g)]
  BY DEF SendLocal, SendRemote, Doing
<1>2. item \in WorkItem /\ Head(frame[g]) \in Op
  BY <1>1, FrameStepType, OpFields DEF Doing
<1>3. Head(frame[g]) = Send(item)
  BY <1>1, <1>2 DEF Doing, Op, Send
<1>4. PICK to \in Group : to = ItemGroup(item)
  BY <1>2, SectionAssumption, SymbolAssumption DEF ItemGroup, WorkItem
<1>5. UNCHANGED <<flags, commonAllocs>>
  BY DEF SendLocal, SendRemote, symbolVars
<1>6. Queued \subseteq Queued'
  BY SendDelta
<1>7. \/ local' = [local EXCEPT ![g] = Append(@, item)] /\ work' = work
      \/ work' = [work EXCEPT ![to] = Append(@, item)] /\ local' = local
  BY <1>4 DEF SendLocal, SendRemote, sharedVars
<1> HIDE DEF item
<1>8. Head(frame[g]) \in T <=> item \in T
  BY <1>2, <1>3, RequestForms, OpParts
<1>11. \A h \in Group : local[h] \in Seq(WorkItem) /\ work[h] \in Seq(WorkItem)
  BY DEF TypeOK
<1>9. CASE item \notin T
  <2>1. \A h \in Group : Leaner(local'[h], local[h], T) /\ Leaner(work'[h], work[h], T)
    <3> HIDE DEF T
    <3>1. CASE local' = [local EXCEPT ![g] = Append(@, item)] /\ work' = work
      <4>1. local'[g] = Append(local[g], item) /\ \A h \in Group \ {g} : local'[h] = local[h]
        BY <3>1 DEF TypeOK
      <4>2. Leaner(local'[g], local[g], T)
        BY <1>2, <1>9, <4>1, <1>11, OnceAppend
      <4> QED BY <3>1, <4>1, <4>2, LeanerSame
    <3>2. CASE work' = [work EXCEPT ![to] = Append(@, item)] /\ local' = local
      <4>1. work'[to] = Append(work[to], item) /\ \A h \in Group \ {to} : work'[h] = work[h]
        BY <3>2 DEF TypeOK
      <4>2. Leaner(work'[to], work[to], T)
        BY <1>2, <1>9, <4>1, <1>11, OnceAppend
      <4> QED BY <3>2, <4>1, <4>2, LeanerSame
    <3> QED BY <1>7, <3>1, <3>2
  <2> QED BY <1>1, <1>5, <1>6, <1>8, <1>9, <2>1, AllocatedPop
<1>10. CASE item \in T
  <2>1. /\ UnderWay(s)
        /\ ~Has(Next_(g), T)
        /\ \A h \in Group \ {g} : ~Has(frame[h], T)
        /\ \A h \in Group : ~Has(local[h], T) /\ ~Has(work[h], T)
    BY <1>1, <1>8, <1>10, RequestTaken DEF AllocatedOnce
  <2>2. \A h \in Group : ~Has(frame'[h], T)
    BY <1>1, <2>1 DEF TypeOK
  <2>3. CASE local' = [local EXCEPT ![g] = Append(@, item)] /\ work' = work
    <3>1. local'[g] = Append(local[g], item) /\ \A h \in Group \ {g} : local'[h] = local[h]
      BY <2>3 DEF TypeOK
    <3> HIDE DEF T
    <3>2. Once(local'[g], T) /\ Has(local'[g], T)
      BY <1>2, <1>10, <2>1, <3>1, <1>11, OnceAppend
    <3>3. \A h \in Group : (h # g => ~Has(local'[h], T)) /\ ~Has(work'[h], T)
      BY <2>1, <2>3, <3>1
    <3> QED BY <1>5, <2>1, <2>2, <3>2, <3>3, MovedToLocal, AllocatedMoved DEF T
  <2>4. CASE work' = [work EXCEPT ![to] = Append(@, item)] /\ local' = local
    <3>1. work'[to] = Append(work[to], item) /\ \A h \in Group \ {to} : work'[h] = work[h]
      BY <2>4 DEF TypeOK
    <3> HIDE DEF T
    <3>2. Once(work'[to], T) /\ Has(work'[to], T)
      BY <1>2, <1>10, <2>1, <3>1, <1>11, OnceAppend
    <3>3. \A h \in Group : (h # to => ~Has(work'[h], T)) /\ ~Has(local'[h], T)
      BY <2>1, <2>4, <3>1
    <3> QED BY <1>5, <2>1, <2>2, <3>2, <3>3, MovedToWork, AllocatedMoved DEF T
  <2> QED BY <1>7, <2>3, <2>4
<1> QED BY <1>9, <1>10

LEMMA AllocatedSwap ==
  ASSUME TypeOK, TypeOK', NEW g \in Group, SwapWork(g),
         NEW s \in Symbol, AllocatedOnce(s), Clean' => Clean
  PROVE  AllocatedOnce(s)'
<1> DEFINE T == Request(s)
<1>1. UNCHANGED <<frame, flags, commonAllocs>>
  BY DEF SwapWork, symbolVars
<1>2. /\ local'[g] = work[g] /\ work'[g] = << >> /\ local[g] = << >>
      /\ \A h \in Group \ {g} : local'[h] = local[h] /\ work'[h] = work[h]
  BY DEF SwapWork, TypeOK
<1>3. ~Has(<< >>, T) /\ << >> \in Seq(WorkItem)
  BY RangeOfEmpty DEF Has
<1>4. UnderWay(s) <=> UnderWay(s)'
  BY HandoverSteps, UnderWaySets DEF Handover
<1>6. CASE Has(work[g], T)
  <2>1. /\ UnderWay(s) /\ Once(work[g], T)
        /\ \A h \in Group : /\ h # g => ~Has(work[h], T)
                            /\ ~Has(frame[h], T) /\ ~Has(local[h], T)
    BY <1>6, OnlyPlace DEF AllocatedOnce
  <2> HIDE DEF T
  <2>2. \A h \in Group : /\ h # g => ~Has(local'[h], T)
                         /\ ~Has(frame'[h], T) /\ ~Has(work'[h], T)
    BY <1>1, <1>2, <1>3, <2>1
  <2> QED BY <1>1, <1>2, <1>6, <2>1, <2>2, MovedToLocal, AllocatedMoved DEF T
<1> HIDE DEF T
<1>7. CASE ~Has(work[g], T)
  <2>1. \A h \in Group : Leaner(local'[h], local[h], T) /\ Leaner(work'[h], work[h], T)
    <3>1. work[g] \in Seq(WorkItem)
      BY DEF TypeOK
    <3>2. Leaner(local'[g], local[g], T) /\ Leaner(work'[g], work[g], T)
      BY <1>2, <1>3, <1>7, <3>1, LeanerNone
    <3> QED BY <1>2, <3>2, LeanerSame
  <2> QED BY <1>1, <1>4, <2>1, LeanerSame, AllocatedStep DEF T
<1> QED BY <1>6, <1>7

(* Only the item that requests s leads to the operation that loads it. *)
LEMMA RequestHandled ==
  ASSUME TypeOK, NEW s \in Symbol, SymbolKind[s] = "Common", NEW item \in WorkItem
  PROVE  /\ item \notin Request(s) => ~Has(WorkOps(item), Request(s))
         /\ item \in Request(s) => WorkOps(item) = <<LoadOp(s)>>
<1>1. item \in Request(s) <=> item = LoadGlobalSymbol(s)
  BY RequestForms
<1>2. ASSUME item = LoadGlobalSymbol(s) PROVE WorkOps(item) = <<LoadOp(s)>>
  BY <1>2, ItemParts DEF WorkOps, SymbolRequestOps, LoadOp
<1>3. ASSUME NEW op \in Range(WorkOps(item)), op \in Request(s) PROVE item = LoadGlobalSymbol(s)
  <2>1. op \in Op
    BY WorkOpsType, RangeOfSeq
  <2>2. op = Send(LoadGlobalSymbol(s)) \/ op = LoadOp(s)
    BY <1>3, <2>1, RequestForms
  <2>3. op.do \in {"send", "load"} /\ (op.do = "load" => op.symbol = s)
    BY <2>2, OpParts
  <2>4. ASSUME NEW x \in Section, op \in Range(SectionLoadOps(x)) PROVE FALSE
    <3>1. CASE slot[x] \in {"Loaded", "Discard"}
      BY <2>3, <2>4, <3>1, SectionLoadRange, OpParts
    <3>2. CASE slot[x] \notin {"Loaded", "Discard"}
      BY <2>3, <2>4, <3>2, SectionLoadRange, OpParts
    <3> QED BY <3>1, <3>2
  <2>5. ASSUME NEW t \in Symbol, op \in Range(SymbolRequestOps(t)) PROVE t = s
    BY <2>3, <2>5, SymbolRequestRange, SymbolAssumption, OpParts
  <2>6. ASSUME NEW t \in Symbol, op \in Range(ExportDynamicOps(t)) PROVE FALSE
    BY <2>3, <2>6, ExportDynamicRange, OpParts
  <2>7. ASSUME NEW t \in Symbol, op \in Range(CopyRelocateOps(t)) PROVE FALSE
    BY <2>3, <2>7, CopyRelocateRange, OpParts
  <2> QED BY <1>3, <2>4, <2>5, <2>6, <2>7, ItemKinds
<1> QED BY <1>1, <1>2, <1>3 DEF Has

LEMMA AllocatedTake ==
  ASSUME TypeOK, TypeOK', NEW g \in Group, TakeWork(g),
         NEW s \in Symbol, SymbolKind[s] = "Common", AllocatedOnce(s), Clean' => Clean
  PROVE  AllocatedOnce(s)'
<1> DEFINE item == local[g][Len(local[g])]
           T == Request(s)
<1>1. /\ frame[g] = << >> /\ local[g] \in Seq(WorkItem) /\ local[g] # << >>
      /\ Len(local[g]) \in 1..Len(local[g])
  BY DEF TypeOK, TakeWork, Idle
<1>2. item \in WorkItem
  BY <1>1
<1>3. UNCHANGED <<flags, commonAllocs, work>>
  BY DEF TakeWork, symbolVars, sharedVars
<1>4. /\ frame'[g] = WorkOps(item) /\ \A h \in Group \ {g} : frame'[h] = frame[h]
      /\ local'[g] = SubSeq(local[g], 1, Len(local[g]) - 1)
      /\ \A h \in Group \ {g} : local'[h] = local[h]
  BY DEF TakeWork, TypeOK
<1>5. WorkOps(item) \in Seq(Op)
  BY <1>2, WorkOpsType
<1>6. /\ Leaner(local'[g], local[g], T)
      /\ Once(local[g], T) /\ item \in T => ~Has(local'[g], T)
      /\ item \in T => Has(local[g], T)
  <2> HIDE DEF T
  <2>1. PICK q \in Seq(WorkItem) : q = local[g]
    BY <1>1
  <2>2. /\ Leaner(SubSeq(q, 1, Len(q) - 1), q, T)
        /\ Once(q, T) /\ q[Len(q)] \in T => ~Has(SubSeq(q, 1, Len(q) - 1), T)
        /\ q[Len(q)] \in T => Has(q, T)
    BY <1>1, <2>1, OnceFront
  <2> QED BY <1>4, <2>1, <2>2
<1>7. Ops' = Ops \cup Range(WorkOps(item)) /\ Queued \subseteq Queued' \cup {item}
  <2>1. WorkOps(item) \in Seq(Op) /\ frame' = [frame EXCEPT ![g] = WorkOps(item)]
    BY <1>5 DEF TakeWork
  <2>2. Ops' = Ops \cup Range(WorkOps(item))
    BY <1>1, <2>1, OpsAfter, RangeOfEmpty
  <2>3. Range(local[g]) = {item} \cup Range(local'[g])
    BY <1>1, <1>4, RangeFront
  <2> HIDE DEF item
  <2>4. \A h \in Group : Range(local[h]) \subseteq Range(local'[h]) \cup {item}
    BY <1>4, <2>3
  <2> QED BY <1>3, <2>2, <2>4 DEF Queued
<1> HIDE DEF item
<1>8. CASE item \notin T
  <2>1. \A h \in Group : Leaner(frame'[h], frame[h], T)
    <3>1. ~Has(WorkOps(item), T)
      BY <1>2, <1>8, RequestHandled
    <3> HIDE DEF T
    <3>2. Leaner(frame'[g], frame[g], T)
      BY <1>4, <1>5, <3>1, LeanerNone
    <3> QED BY <1>4, <3>2, LeanerSame
  <2>2. \A h \in Group : Leaner(local'[h], local[h], T) /\ Leaner(work'[h], work[h], T)
    BY <1>3, <1>4, <1>6, LeanerSame
  <2>3. UnderWay(s) => UnderWay(s)'
    BY <1>7, <1>8, UnderWaySets
  <2> QED BY <1>3, <2>1, <2>2, <2>3, AllocatedStep
<1>9. CASE item \in T
  <2>1. WorkOps(item) = <<LoadOp(s)>>
    BY <1>2, <1>9, RequestHandled
  <2>2. Once(frame'[g], T) /\ Has(frame'[g], T)
    <3>1. LoadOp(s) \in Op /\ LoadOp(s) \in T
      BY OpConstructors DEF LoadOp, Request
    <3>2. <<LoadOp(s)>> \o << >> = <<LoadOp(s)>> /\ << >> \in Seq(Op) /\ ~Has(<< >>, T)
      BY RangeOfEmpty DEF Has
    <3> HIDE DEF T
    <3>3. Once(<<LoadOp(s)>>, T)
      BY DEF Once
    <3>4. Has(<<LoadOp(s)>>, T)
      BY <3>1, RangeOfOne DEF Has
    <3> QED BY <1>4, <2>1, <3>3, <3>4
  <2>3. /\ UnderWay(s) /\ Once(local[g], T)
        /\ \A h \in Group : /\ h # g => ~Has(local[h], T)
                            /\ ~Has(frame[h], T) /\ ~Has(work[h], T)
    BY <1>6, <1>9, OnlyPlace DEF AllocatedOnce
  <2>4. \A h \in Group : /\ h # g => ~Has(frame'[h], T)
                         /\ ~Has(local'[h], T) /\ ~Has(work'[h], T)
    <3> HIDE DEF T
    <3> QED BY <1>3, <1>4, <1>6, <1>9, <2>3
  <2> QED BY <1>3, <2>2, <2>3, <2>4, MovedToFrame, AllocatedMoved
<1> QED BY <1>8, <1>9

LEMMA AllocatedReference ==
  ASSUME TypeOK, TypeOK', NEW g \in Group, ReferenceSymbol(g), ReferencesFlagged,
         NEW s \in Symbol, SymbolKind[s] = "Common", AllocatedOnce(s), Clean' => Clean
  PROVE  AllocatedOnce(s)'
<1> DEFINE rel == Head(frame[g]).rel
           T == Request(s)
           request == IF flags[rel.symbol] = {}
                        THEN <<Send(LoadGlobalSymbol(rel.symbol))>> ELSE << >>
           copy == IF "COPY_RELOCATION" \in rel.flags \ flags[rel.symbol]
                     THEN <<Send(CopyRelocateSymbol(rel.symbol))>> ELSE << >>
<1>1. Doing(g, "reference") /\ frame[g] # << >> /\ frame[g] \in Seq(Op)
  BY DEF ReferenceSymbol, Doing, TypeOK
<1>2. rel \in Relocation /\ Head(frame[g]) \in Op
  BY <1>1, FrameStepType, OpFields DEF Doing
<1>3. Head(frame[g]) = ReferenceOp(rel)
  BY <1>1, <1>2 DEF Doing, Op, ReferenceOp
<1>4. UNCHANGED <<local, work, commonAllocs>>
  BY DEF ReferenceSymbol, sharedVars
<1>5. Head(frame[g]) \in Ops
  <2>1. Range(frame[g]) = {Head(frame[g])} \cup Range(Tail(frame[g]))
    BY <1>1, RangeTail
  <2> QED BY <2>1 DEF Ops
<1>6. Next_(g) \in Seq(Op) /\ Leaner(Next_(g), frame[g], T)
  <2> HIDE DEF T
  <2> QED BY <1>1, OnceTail DEF Next_
<1>7. CASE rel.fails
  <2>1. frame' = [frame EXCEPT ![g] = <<FailOp>>] /\ flags' = flags
    BY <1>7 DEF ReferenceSymbol, FailOp
  <2>2. <<FailOp>> \in Seq(Op) /\ ~Has(<<FailOp>>, T)
    <3>1. FailOp \in Op
      BY OpConstructors DEF FailOp
    <3>2. FailOp \notin T
      BY <3>1, RequestForms, OpParts
    <3> QED BY <3>1, <3>2, OneOpType, RangeOfOne DEF Has
  <2>3. ~Clean'
    BY <2>1, <2>2, OpsAfter, RangeOfOne DEF Clean
  <2>4. \A h \in Group : Leaner(frame'[h], frame[h], T)
    <3> HIDE DEF T
    <3>1. frame'[g] = <<FailOp>> /\ \A h \in Group \ {g} : frame'[h] = frame[h]
      BY <2>1 DEF TypeOK
    <3> QED BY <2>2, <3>1, LeanerNone, LeanerSame
  <2> QED BY <1>4, <2>1, <2>3, <2>4, LeanerSame, AllocatedStep
<1>8. CASE ~rel.fails
  <2>0. /\ frame' = [frame EXCEPT ![g] = (request \o copy) \o Next_(g)]
        /\ flags' = [flags EXCEPT ![rel.symbol] = @ \cup rel.flags]
    BY <1>8 DEF ReferenceSymbol
  <2>1. frame' = [frame EXCEPT ![g] = request \o (copy \o Next_(g))] /\ request \o copy \in Seq(Op)
    <3>1. request \in Seq(Op) /\ copy \in Seq(Op)
      BY <1>2, OpConstructors, OneOpType, NoOpType DEF Relocation
    <3> HIDE DEF request, copy
    <3>2. (request \o copy) \o Next_(g) = request \o (copy \o Next_(g))
      BY <1>6, <3>1
    <3> QED BY <2>0, <3>1, <3>2, ConcatType
  <2>2. rel.symbol \in Symbol
    BY <1>2 DEF Relocation
  <2>3. Send(LoadGlobalSymbol(rel.symbol)) \in Op /\ Send(CopyRelocateSymbol(rel.symbol)) \in Op
    BY <2>2, OpConstructors
  <2>4. /\ Send(CopyRelocateSymbol(rel.symbol)) \notin T
        /\ Send(LoadGlobalSymbol(rel.symbol)) \in T <=> rel.symbol = s
    BY <2>3, RequestForms, OpParts, ItemParts
  <2> DEFINE rest == copy \o Next_(g)
  <2>5. rest \in Seq(Op) /\ Leaner(rest, Next_(g), T)
    <3> HIDE DEF T
    <3>1. CASE copy = << >>
      <4>1. << >> \o Next_(g) = Next_(g)
        BY <1>6
      <4> QED BY <1>6, <3>1, <4>1, LeanerSame
    <3>2. CASE copy = <<Send(CopyRelocateSymbol(rel.symbol))>>
      BY <1>6, <2>3, <2>4, <3>2, OncePrepend, OneOpType, ConcatType
    <3> QED BY <3>1, <3>2
  <2>6. Leaner(rest, frame[g], T)
    BY <1>6, <2>5 DEF Leaner
  <2>7. \A h \in Group \ {g} : frame'[h] = frame[h]
    BY <2>1 DEF TypeOK
  <2>8. frame'[g] = request \o rest
    BY <2>1 DEF TypeOK
  <2>9. Ops \subseteq Ops' \cup {Head(frame[g])}
    BY <1>1, <2>0, <2>1, PopOp
  <2>10. Head(frame[g]) \notin T
    BY <1>2, <1>3, RequestForms, OpParts
  <2>11. flags'[s] = IF rel.symbol = s THEN flags[s] \cup rel.flags ELSE flags[s]
    BY <2>0, <2>2 DEF TypeOK
  <2>12. CASE request = << >> \/ rel.symbol # s
    <3>1. Leaner(request \o rest, rest, T)
      <4> HIDE DEF T, rest
      <4>1. CASE request = << >>
        <5>1. request \o rest = rest
          BY <2>5, <4>1
        <5> QED BY <5>1, LeanerSame
      <4>2. CASE request = <<Send(LoadGlobalSymbol(rel.symbol))>> /\ rel.symbol # s
        BY <2>3, <2>4, <2>5, <4>2, OncePrepend
      <4> QED BY <2>12, <4>1, <4>2
    <3>2. \A h \in Group : Leaner(frame'[h], frame[h], T)
      <4>1. Leaner(frame'[g], frame[g], T)
        BY <2>6, <2>8, <3>1 DEF Leaner
      <4> QED BY <2>7, <4>1, LeanerSame
    <3>3. UnderWay(s) => UnderWay(s)'
      BY <1>4, <2>9, <2>10, UnderWaySets, SameQueued
    <3>4. flags'[s] = {} <=> flags[s] = {}
      BY <2>11, <2>12
    <3> QED BY <1>4, <3>2, <3>3, <3>4, LeanerSame, AllocatedStep
  <2>13. CASE flags[s] = {} /\ rel.symbol = s
    <3>1. ~UnderWay(s) /\ commonAllocs[s] = 0
      BY <2>13 DEF AllocatedOnce
    <3>2. \A h \in Group : ~Has(frame[h], T) /\ ~Has(local[h], T) /\ ~Has(work[h], T)
      BY <3>1, OnlyPlace DEF AllocatedOnce
    <3>3. request = <<Send(LoadGlobalSymbol(s))>>
      BY <2>13
    <3>4. Once(frame'[g], T) /\ Has(frame'[g], T)
      <4>1. ~Has(rest, T)
        BY <2>6, <3>2 DEF Leaner
      <4>2. Send(LoadGlobalSymbol(s)) \in Op /\ Send(LoadGlobalSymbol(s)) \in T
        BY <2>3, <2>13 DEF Request
      <4>3. frame'[g] = <<Send(LoadGlobalSymbol(s))>> \o rest /\ rest \in Seq(Op)
        BY <2>5, <2>8, <3>3
      <4> HIDE DEF T, rest
      <4> QED BY <4>1, <4>2, <4>3, OncePrepend
    <3>5. \A h \in Group : /\ h # g => ~Has(frame'[h], T)
                           /\ ~Has(local'[h], T) /\ ~Has(work'[h], T)
      BY <1>4, <2>7, <3>2
    <3>6. AtOnePlace(s)' /\ UnderWay(s)'
      BY <3>4, <3>5, MovedToFrame
    <3>7. flags'[s] # {}
      <4>1. rel.flags # {}
        BY <1>3, <1>5, <2>13, OpParts DEF ReferencesFlagged
      <4> QED BY <2>11, <2>13, <4>1
    <3> QED BY <1>4, <3>1, <3>6, <3>7 DEF AllocatedOnce
  <2> QED BY <2>12, <2>13
<1> QED BY <1>7, <1>8

(* load_symbol for another symbol, or for a section. *)
LEMMA EffectLeaner ==
  ASSUME TypeOK, NEW g \in Group, NEW t \in Symbol, LoadSymbolEffect(g, t),
         NEW s \in Symbol, s # t \/ SymbolKind[t] = "Section"
  PROVE  /\ \A h \in Group : Leaner(local'[h], local[h], Request(s))
         /\ commonAllocs'[s] = commonAllocs[s]
<1>1. CASE SymbolKind[t] = "Section"
  <2>1. local' = [local EXCEPT ![g] = Append(@, LoadSection(SymbolSection[t]))]
    BY <1>1 DEF LoadSymbolEffect
  <2>2. LoadSection(SymbolSection[t]) \in WorkItem
    BY SymbolAssumption DEF LoadSection, WorkItem
  <2>3. LoadSection(SymbolSection[t]) \notin Request(s)
    BY <2>2, RequestForms, SectionItemsDiffer
  <2>4. /\ local'[g] = Append(local[g], LoadSection(SymbolSection[t])) /\ local[g] \in Seq(WorkItem)
        /\ \A h \in Group \ {g} : local'[h] = local[h]
    BY <2>1 DEF TypeOK
  <2>5. Leaner(local'[g], local[g], Request(s))
    BY <2>2, <2>3, <2>4, OnceAppend
  <2>6. commonAllocs' = commonAllocs
    BY <1>1 DEF LoadSymbolEffect
  <2> QED BY <2>4, <2>5, <2>6, LeanerSame
<1>2. CASE SymbolKind[t] # "Section"
  <2>1. commonAllocs' = [commonAllocs EXCEPT ![t] = @ + 1] /\ local' = local
    BY <1>2 DEF LoadSymbolEffect
  <2> QED BY <1>2, <2>1, LeanerSame DEF TypeOK
<1> QED BY <1>1, <1>2

LEMMA AllocatedLoad ==
  ASSUME TypeOK, TypeOK', NEW g \in Group, LoadSymbol(g),
         NEW s \in Symbol, SymbolKind[s] = "Common", AllocatedOnce(s), Clean' => Clean
  PROVE  AllocatedOnce(s)'
<1> DEFINE t == Head(frame[g]).symbol
<1>1. Doing(g, "load") /\ frame[g] # << >> /\ frame' = [frame EXCEPT ![g] = Next_(g)]
  BY DEF LoadSymbol, Doing
<1>2. t \in Symbol /\ Head(frame[g]) \in Op
  BY <1>1, FrameStepType, OpFields DEF Doing
<1>3. Head(frame[g]) = LoadOp(t)
  BY <1>1, <1>2 DEF Doing, Op, LoadOp
<1>4. LoadSymbolEffect(g, t) /\ UNCHANGED <<flags, work>>
  BY DEF LoadSymbol, sharedVars
<1>5. Queued \subseteq Queued'
  BY LoadDelta
<1> HIDE DEF t
<1>6. Head(frame[g]) \in Request(s) <=> t = s
  BY <1>2, <1>3, RequestForms, OpParts
<1>7. CASE t # s
  BY <1>1, <1>2, <1>4, <1>5, <1>6, <1>7, EffectLeaner, LeanerSame, AllocatedPop
<1>8. CASE t = s
  <2>1. commonAllocs' = [commonAllocs EXCEPT ![s] = @ + 1] /\ local' = local
    BY <1>4, <1>8 DEF LoadSymbolEffect
  <2>2. /\ UnderWay(s)
        /\ ~Has(Next_(g), Request(s))
        /\ \A h \in Group \ {g} : ~Has(frame[h], Request(s))
        /\ \A h \in Group : ~Has(local[h], Request(s)) /\ ~Has(work[h], Request(s))
    BY <1>1, <1>6, <1>8, RequestTaken DEF AllocatedOnce
  <2>3. \A h \in Group : ~Has(frame'[h], Request(s)) /\ frame'[h] \in Seq(Op)
    BY <1>1, <2>2 DEF TypeOK
  <2>4. ~UnderWay(s)'
    <3>1. \A h \in Group : ~Has(local'[h], Request(s)) /\ ~Has(work'[h], Request(s))
      BY <1>4, <2>1, <2>2
    <3> QED BY <2>3, <3>1, UnderWaySets DEF Has, Ops, Queued
  <2>5. AtOnePlace(s)'
    <3>1. \A h \in Group : Leaner(frame'[h], frame[h], Request(s))
      BY <2>3, LeanerNone
    <3> QED BY <1>4, <2>1, <3>1, FewerRequests, LeanerSame DEF AllocatedOnce
  <2>6. commonAllocs'[s] = 1 /\ flags'[s] # {}
    BY <1>4, <2>1, <2>2 DEF AllocatedOnce, TypeOK
  <2> QED BY <2>4, <2>5, <2>6 DEF AllocatedOnce
<1> QED BY <1>7, <1>8

LEMMA AllocatedExport ==
  ASSUME TypeOK, TypeOK', NEW g \in Group, ExportSymbol(g),
         NEW s \in Symbol, SymbolKind[s] = "Common", AllocatedOnce(s), Clean' => Clean
  PROVE  AllocatedOnce(s)'
<1> DEFINE t == Head(frame[g]).symbol
<1>1. Doing(g, "export") /\ frame[g] # << >> /\ frame' = [frame EXCEPT ![g] = Next_(g)]
  BY DEF ExportSymbol, Doing
<1>2. t \in Symbol /\ Head(frame[g]) \in Op
  BY <1>1, FrameStepType, OpFields DEF Doing
<1>3. Head(frame[g]) = ExportOp(t)
  BY <1>1, <1>2 DEF Doing, Op, ExportOp
<1>4. work' = work
  BY DEF ExportSymbol, sharedVars
<1>5. Queued \subseteq Queued'
  BY ExportDelta
<1>6. \/ /\ CanExport(t) /\ flags[t] = {} /\ LoadSymbolEffect(g, t)
         /\ flags' = [flags EXCEPT ![t] = @ \cup {"EXPORT_DYNAMIC"}]
      \/ /\ CanExport(t) /\ flags[t] # {} /\ UNCHANGED <<local, commonAllocs>>
         /\ flags' = [flags EXCEPT ![t] = @ \cup {"EXPORT_DYNAMIC"}]
      \/ UNCHANGED <<flags, local, commonAllocs>>
  BY Zenon DEF ExportSymbol
<1> HIDE DEF t
<1>7. Head(frame[g]) \notin Request(s)
  BY <1>2, <1>3, RequestForms, OpParts
<1>8. CASE /\ flags[t] = {} /\ LoadSymbolEffect(g, t)
           /\ flags' = [flags EXCEPT ![t] = @ \cup {"EXPORT_DYNAMIC"}]
  <2>1. CASE t # s
    <3>1. flags'[s] = flags[s]
      BY <1>8, <2>1 DEF TypeOK
    <3> QED BY <1>1, <1>2, <1>4, <1>5, <1>7, <1>8, <2>1, <3>1, EffectLeaner, LeanerSame, AllocatedPop
  <2>2. CASE t = s
    <3>1. commonAllocs' = [commonAllocs EXCEPT ![s] = @ + 1] /\ local' = local
      BY <1>8, <2>2 DEF LoadSymbolEffect
    <3>2. ~UnderWay(s) /\ commonAllocs[s] = 0
      BY <1>8, <2>2 DEF AllocatedOnce
    <3>3. \A h \in Group : Leaner(frame'[h], frame[h], Request(s))
      <4>1. frame[g] \in Seq(Op) /\ frame'[g] = Tail(frame[g])
        BY <1>1 DEF TypeOK, Next_
      <4>2. \A h \in Group \ {g} : frame'[h] = frame[h]
        BY <1>1 DEF TypeOK
      <4> QED BY <1>1, <4>1, <4>2, OnceTail, LeanerSame
    <3>4. AtOnePlace(s)' /\ ~UnderWay(s)'
      BY <1>4, <3>1, <3>2, <3>3, FewerRequests, LeanerSame DEF AllocatedOnce
    <3>5. commonAllocs'[s] = 1
      BY <3>1, <3>2 DEF TypeOK
    <3>6. flags'[s] # {}
      BY <1>8, <2>2 DEF TypeOK
    <3> QED BY <3>4, <3>5, <3>6 DEF AllocatedOnce
  <2> QED BY <2>1, <2>2
<1>9. CASE /\ flags[t] # {} /\ UNCHANGED <<local, commonAllocs>>
           /\ flags' = [flags EXCEPT ![t] = @ \cup {"EXPORT_DYNAMIC"}]
  <2>1. flags'[s] = {} <=> flags[s] = {}
    BY <1>2, <1>9 DEF TypeOK
  <2> QED BY <1>1, <1>4, <1>5, <1>7, <1>9, <2>1, LeanerSame, AllocatedPop
<1>10. CASE UNCHANGED <<flags, local, commonAllocs>>
  BY <1>1, <1>4, <1>5, <1>7, <1>10, LeanerSame, AllocatedPop
<1> QED BY <1>6, <1>8, <1>9, <1>10

LEMMA AllocatedDrain ==
  ASSUME TypeOK, TypeOK', NEW g \in Group, DrainStartStop(g),
         NEW s \in Symbol, AllocatedOnce(s), Clean' => Clean
  PROVE  AllocatedOnce(s)'
<1> DEFINE o == Head(frame[g]).output
<1>1. Doing(g, "drain") /\ frame[g] # << >> /\ frame[g] \in Seq(Op)
  BY DEF DrainStartStop, Doing, TypeOK
<1>2. o \in OutputSection /\ Head(frame[g]) \in Op
  BY <1>1, FrameStepType, OpFields DEF Doing
<1>3. Head(frame[g]) \notin Request(s)
  BY <1>1, <1>2, RequestForms, OpParts DEF Doing
<1>4. UNCHANGED <<local, work, flags, commonAllocs>>
  BY DEF DrainStartStop, sharedVars
<1>5. CASE frame' = [frame EXCEPT ![g] = Next_(g)]
  BY <1>1, <1>3, <1>4, <1>5, SameQueued, LeanerSame, AllocatedPop
<1>6. ASSUME NEW x \in startStop[o], frame' = [frame EXCEPT ![g] = <<Send(LoadSection(x))>> \o @]
      PROVE  AllocatedOnce(s)'
  <2>1. x \in Section /\ Send(LoadSection(x)) \in Op
    BY <1>2, OpConstructors DEF TypeOK
  <2>2. Send(LoadSection(x)) \notin Request(s)
    BY <2>1, RequestForms, OpParts, SectionItemsDiffer
  <2>3. /\ frame'[g] = <<Send(LoadSection(x))>> \o frame[g]
        /\ \A h \in Group \ {g} : frame'[h] = frame[h]
    BY <1>6 DEF TypeOK
  <2>4. \A h \in Group : Leaner(frame'[h], frame[h], Request(s))
    BY <1>1, <2>1, <2>2, <2>3, OncePrepend, LeanerSame, ZenonT(60)
  <2>5. Range(frame[g]) \subseteq Range(frame'[g])
    <3>1. <<Send(LoadSection(x))>> \in Seq(Op)
      BY <2>1
    <3> QED BY <1>1, <2>3, <3>1, OpsConcat
  <2>6. Ops \subseteq Ops'
    BY <2>3, <2>5, ZenonT(60) DEF Ops
  <2>7. UnderWay(s) => UnderWay(s)'
    BY <1>4, <2>6, UnderWaySets, SameQueued
  <2> QED BY <1>4, <2>4, <2>7, LeanerSame, AllocatedStep
<1>7. \/ frame' = [frame EXCEPT ![g] = Next_(g)]
      \/ \E x \in startStop[o] : frame' = [frame EXCEPT ![g] = <<Send(LoadSection(x))>> \o @]
  BY DEF DrainStartStop
<1> QED BY <1>5, <1>6, <1>7

LEMMA AllocatedOther ==
  ASSUME TypeOK, TypeOK', NEW g \in Group, MarkLoaded(g) \/ CopyRelocate(g),
         NEW s \in Symbol, AllocatedOnce(s), Clean' => Clean
  PROVE  AllocatedOnce(s)'
<1>1. /\ Doing(g, "loaded") \/ Doing(g, "copy")
      /\ frame[g] # << >> /\ frame' = [frame EXCEPT ![g] = Next_(g)]
  BY DEF MarkLoaded, CopyRelocate, Doing
<1>2. Head(frame[g]) \in Op
  BY <1>1, FrameStepType DEF Doing
<1>3. Head(frame[g]) \notin Request(s)
  BY <1>1, <1>2, RequestForms, OpParts DEF Doing
<1>4. UNCHANGED <<local, work, flags, commonAllocs>>
  BY DEF MarkLoaded, CopyRelocate, sharedVars, symbolVars
<1> QED BY <1>1, <1>3, <1>4, SameQueued, LeanerSame, AllocatedPop

LEMMA AllocatedError ==
  ASSUME TypeOK, TypeOK', NEW g \in Group, ActivationError(g) \/ WorkError(g),
         NEW s \in Symbol, AllocatedOnce(s)
  PROVE  AllocatedOnce(s)'
<1>1. ~Clean' /\ UNCHANGED <<work, flags, commonAllocs>>
  BY ErrorDelta DEF Clean, ActivationError, WorkError, symbolVars, sharedVars
<1>2. /\ frame' = [frame EXCEPT ![g] = << >>]
      /\ local' = local \/ local' = [local EXCEPT ![g] = << >>]
  BY DEF ActivationError, WorkError
<1>3. ~Has(<< >>, Request(s)) /\ << >> \in Seq(Op)
  BY RangeOfEmpty DEF Has
<1>4. \A h \in Group : /\ frame'[h] = frame[h] \/ frame'[h] = << >>
                       /\ local'[h] = local[h] \/ local'[h] = << >>
  BY <1>2 DEF TypeOK
<1>5. \A h \in Group : /\ Leaner(frame'[h], frame[h], Request(s))
                       /\ Leaner(local'[h], local[h], Request(s))
  BY <1>3, <1>4, LeanerNone, LeanerSame
<1> QED BY <1>1, <1>5, LeanerSame, AllocatedStep

LEMMA AllocatedActivate ==
  ASSUME TypeOK, TypeOK', IInv, NEW g \in Group, ActivateFile(g),
         NEW s \in Symbol, AllocatedOnce(s), Clean' => Clean
  PROVE  AllocatedOnce(s)'
<1>1. PICK ops \in ActivationOutcomes(g) : frame' = [frame EXCEPT ![g] = ops]
  BY DEF ActivateFile
<1>2. ops \in Seq(Op) /\ UNCHANGED <<work, flags, commonAllocs>>
  BY ActivationOutcomesType DEF ActivateFile, sharedVars
<1>3. ~Has(ops, Request(s))
  <2> SUFFICES ASSUME NEW op \in Range(ops), op \in Request(s) PROVE FALSE
    BY DEF Has
  <2>1. op \in Op
    BY <1>2, RangeOfSeq
  <2>2. op = Send(LoadGlobalSymbol(s)) \/ op = LoadOp(s)
    BY <2>1, RequestForms
  <2>3. op \in Range(ActivationOps(g)) \/ op = FailOp
    BY OutcomesRange
  <2> QED BY <2>2, <2>3, ActivationRange, ReferenceIsOp, OpParts, ItemParts
<1>4. /\ frame'[g] = ops /\ \A h \in Group \ {g} : frame'[h] = frame[h]
      /\ \A h \in Group \ {g} : local'[h] = local[h]
  BY <1>1 DEF ActivateFile, TypeOK
<1>5. local'[g] \in Seq(WorkItem) /\ ~Has(local'[g], Request(s))
  <2>1. local'[g] \in Seq(WorkItem)
    BY DEF TypeOK
  <2>2. Range(local'[g]) \subseteq {LoadSection(x) : x \in Range(RootSections[g])}
    <3>1. local'[g] = [i \in 1..Len(RootSections[g]) |-> LoadSection(RootSections[g][i])]
      BY DEF ActivateFile, TypeOK
    <3>2. Range(RootSections[g]) = {RootSections[g][i] : i \in 1..Len(RootSections[g])}
      BY RootAssumption, RangeEquality
    <3>3. \A q : q = [i \in 1..Len(RootSections[g]) |-> LoadSection(RootSections[g][i])] =>
                   Range(q) = {LoadSection(RootSections[g][i]) : i \in 1..Len(RootSections[g])}
      BY Zenon DEF Range
    <3> QED BY <3>1, <3>2, <3>3
  <2>3. Range(local'[g]) \subseteq WorkItem
    BY <2>1, RangeOfSeq
  <2> QED BY <2>1, <2>2, <2>3, RequestForms, SectionItemsDiffer DEF Has
<1>6. \A h \in Group : /\ Leaner(frame'[h], frame[h], Request(s))
                       /\ Leaner(local'[h], local[h], Request(s))
  BY <1>2, <1>3, <1>4, <1>5, LeanerNone, LeanerSame
<1>7. UnderWay(s) => UnderWay(s)'
  BY ActivateDelta, UnderWaySets
<1> QED BY <1>2, <1>6, <1>7, LeanerSame, AllocatedStep

---------------------------------------------------------------------------
(* Only loads of sections and common symbols, and only references that     *)
(* leave a flag, are ever under way.                                       *)

SoundOp(op) ==
  /\ op.do = "load" => SymbolKind[op.symbol] \in {"Section", "Common"}
  /\ op.do = "reference" /\ SymbolKind[op.rel.symbol] = "Common" => op.rel.flags # {}

OpsSound == \A op \in Ops : SoundOp(op)

LEMMA OpsSoundNext ==
  ASSUME CommonReferencesFlagged, TypeOK, IInv, OpsSound, [Next]_vars
  PROVE  OpsSound'
<1> SUFFICES \A op \in Ops' \ Ops : SoundOp(op)
  BY DEF OpsSound, SoundOp
<1>1. ASSUME NEW g \in Group, ActivateFile(g) PROVE \A op \in Ops' \ Ops : SoundOp(op)
  <2>1. PICK ops \in ActivationOutcomes(g) : Ops' = Ops \cup Range(ops)
    BY <1>1, ActivateDelta
  <2>2. SoundOp(FailOp)
    BY OpParts DEF SoundOp
  <2>3. \A s : SoundOp(ExportOp(s)) /\ SoundOp(Send(ExportDynamic(s)))
    BY OpParts DEF SoundOp
  <2>4. \A s : SoundOp(Reference(s, {"DIRECT"}))
    BY DEF SoundOp, Reference
  <2> QED BY <2>1, <2>2, <2>3, <2>4, OutcomesRange, ActivationRange
<1>2. ASSUME NEW g \in Group, TakeWork(g) PROVE \A op \in Ops' \ Ops : SoundOp(op)
  <2>1. PICK item \in WorkItem : Ops' = Ops \cup Range(WorkOps(item))
    BY <1>2, TakeDelta
  <2>2. ASSUME NEW x \in Section PROVE \A op \in Range(SectionLoadOps(x)) : SoundOp(op)
    <3>1. ASSUME NEW rel \in RelocationsOf(x) PROVE SoundOp(ReferenceOp(rel))
      <4>1. SymbolKind[rel.symbol] = "Common" => rel.flags # {}
        BY Zenon DEF CommonReferencesFlagged, RelocationsOf, Range
      <4> QED BY <4>1, OpParts DEF SoundOp
    <3>2. SoundOp(FailOp) /\ SoundOp(LoadedOp(x))
      BY OpParts DEF SoundOp
    <3>3. CASE slot[x] \in {"Loaded", "Discard"}
      BY <3>2, <3>3, SectionLoadRange
    <3>4. CASE slot[x] \notin {"Loaded", "Discard"}
      BY <3>1, <3>2, <3>4, SectionLoadRange
    <3> QED BY <3>3, <3>4
  <2>3. ASSUME NEW s \in Symbol PROVE \A op \in Range(SymbolRequestOps(s)) : SoundOp(op)
    <3>1. SymbolKind[s] \in {"Section", "Common"} => SoundOp(LoadOp(s))
      BY OpParts DEF SoundOp
    <3>2. SoundOp(DrainOp(SymbolOutput[s]))
      BY OpParts DEF SoundOp
    <3> QED BY <3>1, <3>2, SymbolRequestRange, SymbolAssumption
  <2>4. ASSUME NEW s \in Symbol
        PROVE  \A op \in Range(ExportDynamicOps(s)) \cup Range(CopyRelocateOps(s)) : SoundOp(op)
    <3>1. SoundOp(ExportOp(s)) /\ SoundOp(CopyOp(s)) /\ SoundOp(FailOp)
      BY OpParts DEF SoundOp
    <3> QED BY <3>1, ExportDynamicRange, CopyRelocateRange
  <2> QED BY <2>1, <2>2, <2>3, <2>4, ItemKinds
<1>3. ASSUME NEW g \in Group, ReferenceSymbol(g) PROVE \A op \in Ops' \ Ops : SoundOp(op)
  <2>1. \A op \in Ops' \ Ops : op = FailOp \/ \E item : op = Send(item)
    BY <1>3, ReferenceDelta
  <2> QED BY <2>1, OpParts DEF SoundOp
<1>4. ASSUME NEW g \in Group, DrainStartStop(g) PROVE \A op \in Ops' \ Ops : SoundOp(op)
  <2>1. \A op \in Ops' \ Ops : \E item : op = Send(item)
    BY <1>4, DrainDelta
  <2> QED BY <2>1, OpParts DEF SoundOp
<1>5. ASSUME NEW g \in Group, SendLocal(g) \/ SendRemote(g) PROVE Ops' \subseteq Ops
  BY <1>5, SendDelta
<1>6. ASSUME NEW g \in Group, LoadSymbol(g) PROVE Ops' \subseteq Ops
  BY <1>6, LoadDelta
<1>7. ASSUME NEW g \in Group, ExportSymbol(g) PROVE Ops' \subseteq Ops
  BY <1>7, ExportDelta
<1>8. ASSUME NEW g \in Group, MarkLoaded(g) PROVE Ops' \subseteq Ops
  BY <1>8, MarkDelta
<1>9. ASSUME NEW g \in Group, CopyRelocate(g) PROVE Ops' \subseteq Ops
  BY <1>9, CopyDelta
<1>10. ASSUME NEW g \in Group, ActivationError(g) \/ WorkError(g) PROVE Ops' \subseteq Ops
  BY <1>10, ErrorDelta
<1>11. CASE Finish \/ UNCHANGED vars
  BY <1>11, SameOps DEF Finish, vars
<1>12. ASSUME NEW g \in Group,
              \/ DelayProcessing(g) \/ StartProcessing(g) \/ CountDown(g) \/ PopDelayed(g)
              \/ RunSpawned(g) \/ Park(g) \/ SwapWork(g)
       PROVE  Ops' = Ops
  BY <1>12, HandoverSteps DEF Handover
<1> QED BY <1>1, <1>2, <1>3, <1>4, <1>5, <1>6, <1>7, <1>8, <1>9, <1>10, <1>11, <1>12
        DEF Next, TaskStep, Finished

(* What is not common is never allocated. *)
CommonInv ==
  /\ OpsSound
  /\ \A s \in Symbol : IF SymbolKind[s] = "Common" THEN AllocatedOnce(s) ELSE commonAllocs[s] = 0

LEMMA OthersUnallocated ==
  ASSUME TypeOK, OnlyNeeded, OpsSound, [Next]_vars,
         NEW s \in Symbol, SymbolKind[s] # "Common", commonAllocs[s] = 0
  PROVE  commonAllocs'[s] = 0
<1>1. ASSUME NEW g \in Group, NEW t \in Symbol, LoadSymbolEffect(g, t),
             SymbolKind[t] \in {"Section", "Common"}
      PROVE  commonAllocs'[s] = 0
  BY <1>1, EffectLeaner
<1>2. ASSUME NEW g \in Group, LoadSymbol(g) PROVE commonAllocs'[s] = 0
  <2>1. PICK t \in Symbol : LoadOp(t) \in Ops /\ LoadSymbolEffect(g, t)
    BY <1>2, LoadDelta
  <2>2. SymbolKind[t] \in {"Section", "Common"}
    BY <2>1, OpParts DEF OpsSound, SoundOp
  <2> QED BY <1>1, <2>1, <2>2
<1>3. ASSUME NEW g \in Group, ExportSymbol(g) PROVE commonAllocs'[s] = 0
  <2>1. PICK t \in Symbol : /\ ExportOp(t) \in Ops
                            /\ LoadSymbolEffect(g, t) \/ commonAllocs' = commonAllocs
    BY <1>3, ExportDelta
  <2>2. SymbolKind[t] \in {"Section", "Common"}
    BY <2>1, OpsNeeded DEF OnlyNeeded, Offered
  <2> QED BY <1>1, <2>1, <2>2
<1>4. ASSUME NEW g \in Group, TaskStep(g), ~LoadSymbol(g), ~ExportSymbol(g)
      PROVE  commonAllocs' = commonAllocs
  BY <1>4 DEF TaskStep, ActivateFile, DelayProcessing, StartProcessing, CountDown, PopDelayed,
              RunSpawned, TakeWork, Park, SwapWork, ReferenceSymbol, SendLocal, SendRemote,
              DrainStartStop, MarkLoaded, CopyRelocate, ActivationError, WorkError, symbolVars
<1>5. CASE Finish \/ UNCHANGED vars
  BY <1>5 DEF Finish, vars, symbolVars
<1> QED BY <1>2, <1>3, <1>4, <1>5 DEF Next, Finished

LEMMA CommonInvNext ==
  ASSUME CommonReferencesFlagged, TypeOK, TypeOK', IInv, OnlyNeeded, CommonInv, [Next]_vars
  PROVE  CommonInv'
<1>0. Clean' => Clean
  BY CleanBefore
<1>1. OpsSound'
  BY OpsSoundNext DEF CommonInv
<1>2. ASSUME NEW s \in Symbol, SymbolKind[s] # "Common" PROVE commonAllocs'[s] = 0
  BY <1>2, OthersUnallocated DEF CommonInv
<1>3. ASSUME NEW s \in Symbol, SymbolKind[s] = "Common" PROVE AllocatedOnce(s)'
  <2>0. AllocatedOnce(s) /\ ReferencesFlagged
    BY <1>3 DEF CommonInv, OpsSound, SoundOp, ReferencesFlagged
  <2>1. CASE UNCHANGED <<frame, local, work, flags, commonAllocs>>
    <3>1. Ops' = Ops /\ Queued' = Queued
      BY <2>1, SameOps, SameQueued
    <3>2. UnderWay(s) => UnderWay(s)'
      BY <3>1, UnderWaySets
    <3> QED BY <1>0, <2>0, <2>1, <3>2, LeanerSame, AllocatedStep
  <2>2. CASE Finish \/ UNCHANGED vars
    BY <2>1, <2>2 DEF Finish, vars, symbolVars, sharedVars
  <2>3. ASSUME NEW g \in Group, TaskStep(g) PROVE AllocatedOnce(s)'
    <3>1. CASE \/ DelayProcessing(g) \/ StartProcessing(g) \/ CountDown(g) \/ PopDelayed(g)
               \/ RunSpawned(g) \/ Park(g)
      BY <2>1, <3>1 DEF DelayProcessing, StartProcessing, CountDown, PopDelayed, RunSpawned, Park,
                        symbolVars, sharedVars
    <3>2. CASE ActivateFile(g)
      BY <1>0, <2>0, <3>2, AllocatedActivate
    <3>3. CASE TakeWork(g)
      BY <1>0, <1>3, <2>0, <3>3, AllocatedTake
    <3>4. CASE SwapWork(g)
      BY <1>0, <2>0, <3>4, AllocatedSwap
    <3>5. CASE ReferenceSymbol(g)
      BY <1>0, <1>3, <2>0, <3>5, AllocatedReference
    <3>6. CASE SendLocal(g) \/ SendRemote(g)
      BY <1>0, <2>0, <3>6, AllocatedSend
    <3>7. CASE LoadSymbol(g)
      BY <1>0, <1>3, <2>0, <3>7, AllocatedLoad
    <3>8. CASE ExportSymbol(g)
      BY <1>0, <1>3, <2>0, <3>8, AllocatedExport
    <3>9. CASE DrainStartStop(g)
      BY <1>0, <2>0, <3>9, AllocatedDrain
    <3>10. CASE MarkLoaded(g) \/ CopyRelocate(g)
      BY <1>0, <2>0, <3>10, AllocatedOther
    <3>11. CASE ActivationError(g) \/ WorkError(g)
      BY <2>0, <3>11, AllocatedError
    <3> QED BY <2>3, <3>1, <3>2, <3>3, <3>4, <3>5, <3>6, <3>7, <3>8, <3>9, <3>10, <3>11 DEF TaskStep
  <2> QED BY <2>2, <2>3 DEF Next, Finished
<1> QED BY <1>1, <1>2, <1>3 DEF CommonInv

(* What finalise_layout relies on: a symbol with a resolution is in a      *)
(* section that was loaded, and space is allocated for a common symbol     *)
(* exactly once.  The hypothesis is needed: fetch_or with no flag lets     *)
(* the next reference believe that it is the first.  resolution_flags      *)
(* has no flag for four kinds of relocation, so that it depends on the     *)
(* input whether one of them is the first to refer to a common symbol.     *)
THEOREM GcResolvedSymbolsHaveHome ==
  CommonReferencesFlagged => (Spec => []ResolvedSymbolsHaveHome)
<1> SUFFICES ASSUME CommonReferencesFlagged PROVE Spec => []ResolvedSymbolsHaveHome
  OBVIOUS
<1>1. Init => CommonInv
  <2> SUFFICES ASSUME Init PROVE CommonInv
    OBVIOUS
  <2>1. Ops = {} /\ Queued = {}
    BY RangeOfEmpty DEF Init, Ops, Queued
  <2>2. ASSUME NEW s \in Symbol PROVE AllocatedOnce(s) /\ commonAllocs[s] = 0
    <3>1. ~UnderWay(s)
      BY <2>1, UnderWaySets
    <3>2. AtOnePlace(s)
      <4>1. \A c \in Place : At(c) = << >>
        BY DEF Init, Place, At
      <4> QED BY <4>1, RangeOfEmpty DEF AtOnePlace, Once, Has
    <3> QED BY <3>1, <3>2 DEF AllocatedOnce, Init
  <2> QED BY <2>1, <2>2 DEF CommonInv, OpsSound
<1>2. /\ TypeOK /\ IInv /\ LiveInv /\ CommonInv /\ [Next]_vars /\ TypeOK' => CommonInv'
  BY CommonInvNext DEF LiveInv
<1>3. Init => OkClean
  BY DEF Init, OkClean
<1>4. TypeOK /\ IInv /\ OkClean /\ [Next]_vars => OkClean'
  BY OkCleanNext
<1>5. TypeOK /\ IInv /\ LiveInv /\ CommonInv /\ OkClean => ResolvedSymbolsHaveHome
  <2> SUFFICES ASSUME TypeOK, IInv, LiveInv, CommonInv, OkClean PROVE ResolvedSymbolsHaveHome
    OBVIOUS
  <2>1. \A s \in Symbol : commonAllocs[s] <= 1
    BY DEF CommonInv, AllocatedOnce
  <2>2. ASSUME outcome = "Ok", NEW s \in Symbol, flags[s] # {}
        PROVE  /\ SymbolKind[s] = "Section" => slot[SymbolSection[s]] = "Loaded"
               /\ SymbolKind[s] = "Common" => commonAllocs[s] = 1
    <3>1. Ops = {} /\ Queued = {}
      BY <2>2, RangeOfEmpty DEF Ops, Queued, IInv, AllGroupsReturned
    <3>2. Clean /\ ~UnderWay(s) /\ \A i : ~Pending(i)
      BY <2>2, <3>1, UnderWaySets DEF Clean, OkClean, Pending
    <3>3. Handled(s)
      BY <2>2, <3>2 DEF LiveInv, NothingForgotten
    <3>4. SymbolKind[s] = "Section" => slot[SymbolSection[s]] = "Loaded"
      BY <3>1, <3>2, <3>3 DEF Handled, Coming
    <3>5. SymbolKind[s] = "Common" => commonAllocs[s] = 1
      BY <2>2, <3>2 DEF CommonInv, AllocatedOnce
    <3> QED BY <3>4, <3>5
  <2> QED BY <2>1, <2>2 DEF ResolvedSymbolsHaveHome
<1> QED BY <1>1, <1>2, <1>3, <1>4, <1>5, GcInvariant, GcLiveInvariant, PTL DEF Spec

---------------------------------------------------------------------------
(* Failures.  Without an error, each relocation of a section that is       *)
(* loaded, or about to be, is still to be processed or has left its mark.  *)
Answered(rel) ==
  \/ ReferenceOp(rel) \in Ops
  \/ /\ ~rel.fails
     /\ rel.undefined => rel.symbol \in undefinedRefs
     /\ "COPY_RELOCATION" \in rel.flags => Asked(rel.symbol)

ReportInv ==
  /\ Clean => /\ \A x \in Section : slot[x] = "Loaded" \/ LoadedOp(x) \in Ops =>
                   \A rel \in RelocationsOf(x) : Answered(rel)
              /\ \A s \in Symbol : Asked(s) =>
                   Pending(CopyRelocateSymbol(s)) \/ SymbolKind[s] = "Dynamic"
  /\ outcome = "Ok" /\ ErrorOnUnresolved => undefinedRefs = {}

LEMMA RelocationsTyped ==
  ASSUME NEW x \in Section
  PROVE  RelocationsOf(x) \subseteq Relocation
  BY SectionAssumption, RangeOfSeq DEF RelocationsOf

(* A step that keeps what was asked for and answers for what is new.       *)
LEMMA ReportStep ==
  ASSUME ReportInv,
         Clean' =>
           /\ Clean
           /\ \A rel \in Relocation : Answered(rel) => Answered(rel)'
           /\ \A x \in Section : slot'[x] = "Loaded" \/ LoadedOp(x) \in Ops' =>
                \/ slot[x] = "Loaded" \/ LoadedOp(x) \in Ops
                \/ \A rel \in RelocationsOf(x) : Answered(rel)'
           /\ \A s \in Symbol : Pending(CopyRelocateSymbol(s)) =>
                Pending(CopyRelocateSymbol(s))' \/ SymbolKind[s] = "Dynamic"
           /\ \A s \in Symbol : Asked(s)' => Asked(s) \/ Pending(CopyRelocateSymbol(s))',
         outcome' = "Ok" /\ ErrorOnUnresolved => undefinedRefs' = {}
  PROVE  ReportInv'
<1> SUFFICES ASSUME Clean'
             PROVE  /\ \A x \in Section : slot'[x] = "Loaded" \/ LoadedOp(x) \in Ops' =>
                         \A rel \in RelocationsOf(x) : Answered(rel)'
                    /\ \A s \in Symbol : Asked(s)' =>
                         Pending(CopyRelocateSymbol(s))' \/ SymbolKind[s] = "Dynamic"
  BY DEF ReportInv, RelocationsOf
<1>1. ASSUME NEW x \in Section, slot'[x] = "Loaded" \/ LoadedOp(x) \in Ops',
             NEW rel \in RelocationsOf(x)
      PROVE  Answered(rel)'
  <2>1. rel \in Relocation
    BY RelocationsTyped
  <2> QED BY <1>1, <2>1 DEF ReportInv
<1>2. ASSUME NEW s \in Symbol, Asked(s)'
      PROVE  Pending(CopyRelocateSymbol(s))' \/ SymbolKind[s] = "Dynamic"
  BY <1>2 DEF ReportInv
<1> QED BY <1>1, <1>2

(* While a task runs the traversal has not ended. *)
LEMMA TasksRun ==
  ASSUME TypeOK, IInv, NEW g \in Group, TaskStep(g)
  PROVE  outcome' = outcome /\ outcome = "Running"
<1>1. act[g] # "Done" \/ runner[g] # "Idle"
  <2>1. CASE \/ ReferenceSymbol(g) \/ SendLocal(g) \/ SendRemote(g) \/ LoadSymbol(g)
             \/ ExportSymbol(g) \/ DrainStartStop(g) \/ MarkLoaded(g) \/ CopyRelocate(g)
    <3>1. frame[g] # << >>
      BY <2>1 DEF ReferenceSymbol, SendLocal, SendRemote, LoadSymbol, ExportSymbol,
                  DrainStartStop, MarkLoaded, CopyRelocate, Doing
    <3> QED BY <3>1 DEF IInv, QueuesOwned
  <2>2. CASE \/ ActivateFile(g) \/ DelayProcessing(g) \/ StartProcessing(g) \/ CountDown(g)
             \/ PopDelayed(g)
    BY <2>2 DEF ActivateFile, DelayProcessing, StartProcessing, CountDown, PopDelayed
  <2>3. CASE \/ RunSpawned(g) \/ TakeWork(g) \/ Park(g) \/ SwapWork(g)
             \/ ActivationError(g) \/ WorkError(g)
    BY <2>3 DEF RunSpawned, TakeWork, Park, SwapWork, Idle, ActivationError, WorkError
  <2> QED BY <2>1, <2>2, <2>3 DEF TaskStep
<1>2. outcome' = outcome
  BY DEF TaskStep, ActivateFile, DelayProcessing, StartProcessing, CountDown, PopDelayed,
         RunSpawned, TakeWork, Park, SwapWork, ReferenceSymbol, SendLocal, SendRemote,
         LoadSymbol, ExportSymbol, DrainStartStop, MarkLoaded, CopyRelocate, ActivationError,
         WorkError, resultVars
<1> QED BY <1>1, <1>2, StillRunning

LEMMA FailStepFails ==
  ASSUME TypeOK, NEW g \in Group, ActivationError(g) \/ WorkError(g)
  PROVE  FailOp \in Ops
<1>1. frame[g] # << >> /\ Head(frame[g]).do = "fail"
  BY DEF ActivationError, WorkError, Doing
<1>2. Head(frame[g]) \in Op
  BY <1>1, FrameStepType
<1>3. Head(frame[g]) = FailOp
  BY <1>1, <1>2 DEF Op, FailOp
<1>4. Range(frame[g]) = {Head(frame[g])} \cup Range(Tail(frame[g]))
  BY <1>1, RangeTail DEF TypeOK
<1> QED BY <1>3, <1>4 DEF Ops

LEMMA ReportInvInit == Init => ReportInv
<1> SUFFICES ASSUME Init PROVE ReportInv
  OBVIOUS
<1>1. Ops = {} /\ Queued = {}
  BY RangeOfEmpty DEF Init, Ops, Queued
<1>2. \A x \in Section : slot[x] # "Loaded"
  BY SectionAssumption DEF Init, SlotState
<1>3. \A s \in Symbol : ~Asked(s)
  BY DEF Init, Asked
<1>4. outcome # "Ok"
  BY DEF Init
<1> QED BY <1>1, <1>2, <1>3, <1>4 DEF ReportInv

LEMMA ReportInvNext ==
  ASSUME TypeOK, IInv, ReportInv, [Next]_vars
  PROVE  ReportInv'
<1>0. Clean' => Clean
  BY CleanBefore
<1>1. ASSUME NEW g \in Group, TaskStep(g)
      PROVE  outcome' = "Ok" /\ ErrorOnUnresolved => undefinedRefs' = {}
  BY <1>1, TasksRun
<1>2. ASSUME UNCHANGED <<slot, flags, undefinedRefs>>,
             outcome' = "Ok" /\ ErrorOnUnresolved => undefinedRefs' = {},
             Clean' => /\ \A rel \in Relocation : ReferenceOp(rel) \in Ops => ReferenceOp(rel) \in Ops'
                       /\ \A x \in Section : LoadedOp(x) \in Ops' =>
                            \/ slot[x] = "Loaded" \/ LoadedOp(x) \in Ops
                            \/ \A rel \in RelocationsOf(x) : ReferenceOp(rel) \in Ops'
                       /\ \A s \in Symbol : Pending(CopyRelocateSymbol(s)) =>
                            Pending(CopyRelocateSymbol(s))' \/ SymbolKind[s] = "Dynamic"
      PROVE  ReportInv'
  <2>1. \A s : Asked(s)' <=> Asked(s)
    BY <1>2 DEF Asked
  <2>2. ASSUME Clean', NEW rel \in Relocation, Answered(rel) PROVE Answered(rel)'
    BY <1>2, <2>1, <2>2 DEF Answered
  <2>3. ASSUME Clean', NEW x \in Section, slot'[x] = "Loaded" \/ LoadedOp(x) \in Ops'
        PROVE  \/ slot[x] = "Loaded" \/ LoadedOp(x) \in Ops
               \/ \A rel \in RelocationsOf(x) : Answered(rel)'
    BY <1>2, <2>3 DEF Answered
  <2> QED BY <1>0, <1>2, <2>1, <2>2, <2>3, ReportStep
<1>3. ASSUME UNCHANGED <<slot, flags, undefinedRefs, outcome>>, Ops' = Ops, Queued' = Queued
      PROVE  ReportInv'
  <2>1. \A i : Pending(i) => Pending(i)'
    BY <1>3 DEF Pending
  <2>2. outcome' = "Ok" /\ ErrorOnUnresolved => undefinedRefs' = {}
    BY <1>3 DEF ReportInv
  <2> QED BY <1>2, <1>3, <2>1, <2>2
<1>4. ASSUME NEW g \in Group, ActivateFile(g) PROVE ReportInv'
  <2>1. PICK ops \in ActivationOutcomes(g) : Ops' = Ops \cup Range(ops)
    BY <1>4, ActivateDelta
  <2>2. Queued \subseteq Queued'
    BY <1>4, ActivateDelta
  <2>3. \A x : LoadedOp(x) \notin Range(ops)
    BY OutcomesRange, ActivationRange, ReferenceIsOp, OpParts
  <2>4. UNCHANGED <<slot, flags, undefinedRefs>>
    BY <1>4 DEF ActivateFile
  <2>5. \A i : Pending(i) => Pending(i)'
    BY <2>1, <2>2 DEF Pending
  <2> QED BY <1>1, <1>2, <1>4, <2>1, <2>3, <2>4, <2>5 DEF TaskStep
<1>5. ASSUME NEW g \in Group,
             \/ DelayProcessing(g) \/ StartProcessing(g) \/ CountDown(g) \/ PopDelayed(g)
             \/ RunSpawned(g) \/ Park(g) \/ SwapWork(g)
      PROVE  ReportInv'
  <2>1. outcome' = outcome
    BY <1>5, TasksRun DEF TaskStep
  <2> QED BY <1>3, <1>5, <2>1, HandoverSteps DEF Handover, symbolVars
<1>6. ASSUME NEW g \in Group, TakeWork(g) PROVE ReportInv'
  <2>1. PICK item \in WorkItem :
          /\ Ops' = Ops \cup Range(WorkOps(item))
          /\ Queued \subseteq Queued' \cup {item}
    BY <1>6, TakeDelta
  <2>2. UNCHANGED <<slot, flags, undefinedRefs>>
    BY <1>6 DEF TakeWork, symbolVars
  <2>3. ASSUME NEW x \in Section, LoadedOp(x) \in Ops', LoadedOp(x) \notin Ops
        PROVE  \A rel \in RelocationsOf(x) : ReferenceOp(rel) \in Ops'
    <3>1. LoadedOp(x) \in Range(WorkOps(item))
      BY <2>1, <2>3
    <3>2. \A s \in Symbol : /\ LoadedOp(x) \notin Range(SymbolRequestOps(s))
                            /\ LoadedOp(x) \notin Range(ExportDynamicOps(s))
                            /\ LoadedOp(x) \notin Range(CopyRelocateOps(s))
      BY SymbolRequestRange, ExportDynamicRange, CopyRelocateRange, SymbolAssumption, OpParts
    <3>3. PICK y \in Section : WorkOps(item) = SectionLoadOps(y)
      BY <3>1, <3>2, ItemKinds
    <3>4. slot[y] \notin {"Loaded", "Discard"}
      BY <3>1, <3>3, SectionLoadRange, OpParts
    <3>5. x = y
      BY <3>1, <3>3, <3>4, SectionLoadRange, OpParts
    <3> QED BY <2>1, <3>3, <3>4, <3>5, SectionLoadRange
  <2>4. ASSUME Clean', NEW s \in Symbol, Pending(CopyRelocateSymbol(s))
        PROVE  Pending(CopyRelocateSymbol(s))' \/ SymbolKind[s] = "Dynamic"
    <3>1. CASE item = CopyRelocateSymbol(s)
      <4>1. WorkOps(item) = CopyRelocateOps(s)
        BY <3>1, ItemParts DEF WorkOps
      <4> QED BY <2>1, <2>4, <4>1, CopyRelocateRange DEF Clean
    <3>2. CASE item # CopyRelocateSymbol(s)
      BY <2>1, <2>4, <3>2 DEF Pending
    <3> QED BY <3>1, <3>2
  <2> QED BY <1>1, <1>2, <1>6, <2>1, <2>2, <2>3, <2>4 DEF TaskStep
<1>7. ASSUME NEW g \in Group, ReferenceSymbol(g) PROVE ReportInv'
  <2>1. PICK rel \in Relocation :
          /\ Queued' = Queued
          /\ \/ FailOp \in Ops'
             \/ /\ ~rel.fails
                /\ undefinedRefs' = undefinedRefs \cup (IF rel.undefined THEN {rel.symbol} ELSE {})
                /\ flags' = [flags EXCEPT ![rel.symbol] = @ \cup rel.flags]
                /\ Ops \subseteq Ops' \cup {ReferenceOp(rel)}
                /\ "COPY_RELOCATION" \in rel.flags \ flags[rel.symbol] =>
                     Send(CopyRelocateSymbol(rel.symbol)) \in Ops'
                /\ \A op \in Ops' \ Ops : \E item : op = Send(item)
    BY <1>7, ReferenceDelta
  <2>2. CASE FailOp \in Ops'
    BY <1>1, <1>7, <2>2, ReportStep DEF Clean, TaskStep
  <2>3. CASE FailOp \notin Ops'
    <3>1. rel.symbol \in Symbol
      BY DEF Relocation
    <3>2. \A s \in Symbol : flags'[s] = IF s = rel.symbol THEN flags[s] \cup rel.flags ELSE flags[s]
      BY <2>1, <2>3, <3>1 DEF TypeOK
    <3>3. \A s \in Symbol : Asked(s) => Asked(s)'
      BY <3>2 DEF Asked
    <3>4. \A t \in Relocation : ReferenceOp(t) = ReferenceOp(rel) => t = rel
      BY OpParts
    <3>5. Answered(rel)'
      BY <2>1, <2>3, <3>1, <3>2 DEF Answered, Asked
    <3>6. ASSUME NEW t \in Relocation, Answered(t) PROVE Answered(t)'
      <4>1. t.symbol \in Symbol
        BY DEF Relocation
      <4>2. CASE ReferenceOp(t) \in Ops
        BY <2>1, <2>3, <3>4, <3>5, <4>2 DEF Answered
      <4>3. CASE ReferenceOp(t) \notin Ops
        BY <2>1, <2>3, <3>3, <3>6, <4>1, <4>3 DEF Answered
      <4> QED BY <4>2, <4>3
    <3>7. slot' = slot /\ \A x : LoadedOp(x) \in Ops' => LoadedOp(x) \in Ops
      <4>1. slot' = slot
        BY <1>7 DEF ReferenceSymbol
      <4> QED BY <2>1, <2>3, <4>1, OpParts
    <3>8. \A i : Pending(i) => Pending(i)'
      BY <2>1, <2>3, OpParts DEF Pending
    <3>9. \A s \in Symbol : Asked(s)' => Asked(s) \/ Pending(CopyRelocateSymbol(s))'
      BY <2>1, <2>3, <3>2 DEF Asked, Pending
    <3> QED BY <1>0, <1>1, <1>7, <3>6, <3>7, <3>8, <3>9, ReportStep DEF TaskStep
  <2> QED BY <2>2, <2>3
<1>8. ASSUME NEW g \in Group, SendLocal(g) \/ SendRemote(g) PROVE ReportInv'
  <2>1. PICK item \in WorkItem :
          Ops' \subseteq Ops /\ Ops \subseteq Ops' \cup {Send(item)} /\ Queued' = Queued \cup {item}
    BY <1>8, SendDelta
  <2>2. UNCHANGED <<slot, flags, undefinedRefs>>
    BY <1>8 DEF SendLocal, SendRemote, symbolVars
  <2>3. \A i : Pending(i) => Pending(i)'
    BY <2>1, OpParts DEF Pending
  <2>4. \A rel : ReferenceOp(rel) \in Ops => ReferenceOp(rel) \in Ops'
    BY <2>1, OpParts
  <2> QED BY <1>1, <1>2, <1>8, <2>1, <2>2, <2>3, <2>4 DEF TaskStep
<1>9. ASSUME NEW g \in Group, LoadSymbol(g) PROVE ReportInv'
  <2>1. PICK s \in Symbol :
          Ops' \subseteq Ops /\ Ops \subseteq Ops' \cup {LoadOp(s)} /\ Queued \subseteq Queued'
    BY <1>9, LoadDelta
  <2>2. UNCHANGED <<slot, flags, undefinedRefs>>
    BY <1>9 DEF LoadSymbol
  <2>3. \A i : Pending(i) => Pending(i)'
    BY <2>1, OpParts DEF Pending
  <2>4. \A rel : ReferenceOp(rel) \in Ops => ReferenceOp(rel) \in Ops'
    BY <2>1, OpParts
  <2> QED BY <1>1, <1>2, <1>9, <2>1, <2>2, <2>3, <2>4 DEF TaskStep
<1>10. ASSUME NEW g \in Group, ExportSymbol(g) PROVE ReportInv'
  <2>1. PICK s \in Symbol :
          /\ Ops' \subseteq Ops /\ Ops \subseteq Ops' \cup {ExportOp(s)} /\ Queued \subseteq Queued'
          /\ flags' = flags \/ flags' = [flags EXCEPT ![s] = @ \cup {"EXPORT_DYNAMIC"}]
    BY <1>10, ExportDelta
  <2>2. UNCHANGED <<slot, undefinedRefs>>
    BY <1>10 DEF ExportSymbol
  <2>3. \A i : Pending(i) => Pending(i)'
    BY <2>1, OpParts DEF Pending
  <2>4. \A rel : ReferenceOp(rel) \in Ops => ReferenceOp(rel) \in Ops'
    BY <2>1, OpParts
  <2>5. \A t \in Symbol : Asked(t)' <=> Asked(t)
    <3>1. flags' = [t \in Symbol |-> flags'[t]]
            /\ \A t \in Symbol : flags'[t] = flags[t] \/ flags'[t] = flags[t] \cup {"EXPORT_DYNAMIC"}
      BY <2>1 DEF TypeOK
    <3> QED BY <3>1 DEF Asked
  <2>6. \A rel \in Relocation : Answered(rel) => Answered(rel)'
    BY <2>2, <2>4, <2>5 DEF Answered, Relocation
  <2> QED BY <1>0, <1>1, <1>10, <2>1, <2>2, <2>3, <2>5, <2>6, ReportStep DEF TaskStep
<1>11. ASSUME NEW g \in Group, DrainStartStop(g) PROVE ReportInv'
  <2>1. PICK o \in OutputSection :
          /\ Ops \subseteq Ops' \cup {DrainOp(o)} /\ Queued' = Queued
          /\ \A op \in Ops' \ Ops : \E item : op = Send(item)
    BY <1>11, DrainDelta
  <2>2. UNCHANGED <<slot, flags, undefinedRefs>>
    BY <1>11 DEF DrainStartStop
  <2>3. \A i : Pending(i) => Pending(i)'
    BY <2>1, OpParts DEF Pending
  <2>4. \A rel : ReferenceOp(rel) \in Ops => ReferenceOp(rel) \in Ops'
    BY <2>1, OpParts
  <2>5. \A x : LoadedOp(x) \in Ops' => LoadedOp(x) \in Ops
    BY <2>1, OpParts
  <2> QED BY <1>1, <1>2, <1>11, <2>2, <2>3, <2>4, <2>5 DEF TaskStep
<1>12. ASSUME NEW g \in Group, MarkLoaded(g) PROVE ReportInv'
  <2>1. PICK x \in Section :
          /\ LoadedOp(x) \in Ops
          /\ Ops' \subseteq Ops /\ Ops \subseteq Ops' \cup {LoadedOp(x)}
          /\ slot' = [slot EXCEPT ![x] = "Loaded"] /\ Queued' = Queued
    BY <1>12, MarkDelta
  <2>2. UNCHANGED <<flags, undefinedRefs>>
    BY <1>12 DEF MarkLoaded, symbolVars
  <2>3. \A i : Pending(i) => Pending(i)'
    BY <2>1, OpParts DEF Pending
  <2>4. \A rel : ReferenceOp(rel) \in Ops => ReferenceOp(rel) \in Ops'
    BY <2>1, OpParts
  <2>5. \A t : Asked(t)' <=> Asked(t)
    BY <2>2 DEF Asked
  <2>6. \A rel : Answered(rel) => Answered(rel)'
    BY <2>2, <2>4, <2>5 DEF Answered
  <2>7. \A y \in Section : slot'[y] = "Loaded" \/ LoadedOp(y) \in Ops' =>
          slot[y] = "Loaded" \/ LoadedOp(y) \in Ops
    BY <2>1 DEF TypeOK
  <2> QED BY <1>0, <1>1, <1>12, <2>3, <2>5, <2>6, <2>7, ReportStep DEF TaskStep
<1>13. ASSUME NEW g \in Group, CopyRelocate(g) PROVE ReportInv'
  <2>1. PICK s \in Symbol :
          Ops' \subseteq Ops /\ Ops \subseteq Ops' \cup {CopyOp(s)} /\ Queued' = Queued
    BY <1>13, CopyDelta
  <2>2. UNCHANGED <<slot, flags, undefinedRefs>>
    BY <1>13 DEF CopyRelocate
  <2>3. \A i : Pending(i) => Pending(i)'
    BY <2>1, OpParts DEF Pending
  <2>4. \A rel : ReferenceOp(rel) \in Ops => ReferenceOp(rel) \in Ops'
    BY <2>1, OpParts
  <2> QED BY <1>1, <1>2, <1>13, <2>1, <2>2, <2>3, <2>4 DEF TaskStep
<1>14. ASSUME NEW g \in Group, ActivationError(g) \/ WorkError(g) PROVE ReportInv'
  <2>1. ~Clean'
    BY <1>14, ErrorDelta DEF Clean
  <2> QED BY <1>1, <1>14, <2>1, ReportStep DEF TaskStep
<1>15. CASE Finish
  <2>1. UNCHANGED <<frame, local, work, slot, flags, undefinedRefs>>
    BY <1>15 DEF Finish, symbolVars
  <2>2. Ops' = Ops /\ Queued' = Queued
    BY <2>1, SameOps, SameQueued
  <2>3. outcome' = "Ok" /\ ErrorOnUnresolved => undefinedRefs' = {}
    BY <1>15, <2>1 DEF Finish, LinkFails
  <2>4. \A i : Pending(i) => Pending(i)'
    BY <2>2 DEF Pending
  <2> QED BY <1>2, <2>1, <2>2, <2>3, <2>4
<1>16. CASE UNCHANGED vars
  <2>1. UNCHANGED <<frame, local, work, slot, flags, undefinedRefs, outcome>>
    BY <1>16 DEF vars, sharedVars, symbolVars, resultVars
  <2> QED BY <1>3, <2>1, SameOps, SameQueued
<1> QED BY <1>4, <1>5, <1>6, <1>7, <1>8, <1>9, <1>10, <1>11, <1>12, <1>13, <1>14, <1>15, <1>16
        DEF Next, TaskStep, Finished

(* In a link in which no live section fails and no file's activation can,  *)
(* nothing that is at work fails.                                          *)
FailFree ==
  /\ Clean
  /\ \A rel \in Relocation : ReferenceOp(rel) \in Ops => ~FailingRelocation(rel)
  /\ \A s \in Symbol : Pending(CopyRelocateSymbol(s)) => SymbolKind[s] = "Dynamic"
  /\ ErrorOnUnresolved => undefinedRefs = {}
  /\ outcome # "Err"

LEMMA NoFailingRelocation ==
  ASSUME FailingSections = {}, NEW x \in Section, x \in Needed
  PROVE  InitialSlot[x] # "Discard" /\ \A rel \in RelocationsOf(x) : ~FailingRelocation(rel)
<1>1. x \in LiveSections
  BY LiveIsNeeded
<1>2. /\ InitialSlot[x] # "Discard"
      /\ \A i \in DOMAIN Relocations[x] : ~FailingRelocation(Relocations[x][i])
      /\ \A i \in DOMAIN FrameRelocations[x] : ~FailingRelocation(FrameRelocations[x][i])
  BY <1>1 DEF FailingSections
<1> QED BY <1>2 DEF RelocationsOf, Range

(* A step that adds no failure. *)
LEMMA FailFreeStep ==
  ASSUME FailFree, errors' = errors, FailOp \notin Ops', outcome' # "Err",
         undefinedRefs' = undefinedRefs,
         \A rel \in Relocation : ReferenceOp(rel) \in Ops' =>
           ReferenceOp(rel) \in Ops \/ ~FailingRelocation(rel),
         \A s \in Symbol : Pending(CopyRelocateSymbol(s))' => Pending(CopyRelocateSymbol(s))
  PROVE  FailFree'
  BY DEF FailFree, Clean

LEMMA FailFreeNext ==
  ASSUME FailingSections = {}, FailingGroups = {},
         TypeOK, IInv, LiveInv, FailFree, [Next]_vars
  PROVE  FailFree'
<1>1. ASSUME NEW g \in Group, TaskStep(g) PROVE outcome' # "Err"
  BY <1>1, TasksRun
<1>2. ASSUME Ops' \subseteq Ops, Queued' \subseteq Queued, errors' = errors, outcome' # "Err",
             undefinedRefs' = undefinedRefs
      PROVE  FailFree'
  <2>1. \A i : Pending(i)' => Pending(i)
    BY <1>2 DEF Pending
  <2> QED BY <1>2, <2>1, FailFreeStep DEF FailFree, Clean
<1>3. ASSUME NEW g \in Group, ActivateFile(g) PROVE FailFree'
  <2>1. ActivationOutcomes(g) = {ActivationOps(g)}
    BY DEF ActivationOutcomes
  <2>2. /\ Ops' = Ops \cup Range(ActivationOps(g))
        /\ Queued' = Queued \cup {LoadSection(x) : x \in Range(RootSections[g])}
    BY <1>3, <2>1, ActivateDelta
  <2>3. \A s, f : Reference(s, f).do = "reference"
    BY DEF Reference
  <2>4. FailOp \notin Range(ActivationOps(g))
    BY <2>3, ActivationRange, OpParts
  <2>5. ASSUME NEW rel \in Relocation, ReferenceOp(rel) \in Range(ActivationOps(g))
        PROVE  ~FailingRelocation(rel)
    <3>1. PICK s \in Range(RootReferences[g]) : ReferenceOp(rel) = Reference(s, {"DIRECT"})
      BY <2>5, ActivationRange, OpParts
    <3>2. rel = Reference(s, {"DIRECT"}).rel
      BY <3>1, OpParts
    <3>3. ~rel.fails /\ ~rel.undefined /\ rel.flags = {"DIRECT"}
      BY <3>2 DEF Reference
    <3> QED BY <3>3 DEF FailingRelocation
  <2>6. \A s \in Symbol : Pending(CopyRelocateSymbol(s))' => Pending(CopyRelocateSymbol(s))
    <3>1. \A s : Send(CopyRelocateSymbol(s)) \notin Range(ActivationOps(g))
      BY <2>3, ActivationRange, OpParts, ItemParts
    <3> QED BY <2>2, <3>1, ItemParts DEF Pending
  <2>7. errors' = errors /\ undefinedRefs' = undefinedRefs
    BY <1>3 DEF ActivateFile, resultVars
  <2> QED BY <1>1, <1>3, <2>2, <2>4, <2>5, <2>6, <2>7, FailFreeStep DEF TaskStep, FailFree, Clean
<1>4. ASSUME NEW g \in Group,
             \/ DelayProcessing(g) \/ StartProcessing(g) \/ CountDown(g) \/ PopDelayed(g)
             \/ RunSpawned(g) \/ Park(g) \/ SwapWork(g)
      PROVE  FailFree'
  BY <1>1, <1>2, <1>4, HandoverSteps DEF Handover, TaskStep, symbolVars
<1>5. ASSUME NEW g \in Group, TakeWork(g) PROVE FailFree'
  <2>1. PICK item \in WorkItem :
          /\ item \in Queued
          /\ Ops' = Ops \cup Range(WorkOps(item))
          /\ Queued' \subseteq Queued
    BY <1>5, TakeDelta
  <2>2. errors' = errors /\ undefinedRefs' = undefinedRefs
    BY <1>5 DEF TakeWork, symbolVars, resultVars
  <2>3. /\ FailOp \notin Range(WorkOps(item))
        /\ \A i : Send(i) \notin Range(WorkOps(item))
        /\ \A rel \in Relocation : ReferenceOp(rel) \in Range(WorkOps(item)) => ~FailingRelocation(rel)
    <3>1. ASSUME NEW x \in Section, item = LoadSection(x), WorkOps(item) = SectionLoadOps(x)
          PROVE  <2>3!:
      <4>1. x \in Needed
        BY <2>1, <3>1, SectionItemNeeded DEF LiveInv, OnlyNeeded
      <4>2. slot[x] # "Discard" /\ \A rel \in RelocationsOf(x) : ~FailingRelocation(rel)
        BY <4>1, NoFailingRelocation DEF LiveInv, OnlyNeeded, SlotsSound
      <4>3. CASE slot[x] = "Loaded"
        BY <3>1, <4>3, SectionLoadRange
      <4>4. CASE slot[x] # "Loaded"
        <5>1. Range(WorkOps(item)) = {ReferenceOp(rel) : rel \in RelocationsOf(x)} \cup {LoadedOp(x)}
          BY <3>1, <4>2, <4>4, SectionLoadRange
        <5> QED BY <4>2, <5>1, OpParts
      <4> QED BY <4>3, <4>4
    <3>2. ASSUME NEW s \in Symbol, WorkOps(item) = SymbolRequestOps(s) PROVE <2>3!:
      BY <3>2, SymbolRequestRange, SymbolAssumption, OpParts
    <3>3. ASSUME NEW s \in Symbol, WorkOps(item) = ExportDynamicOps(s) PROVE <2>3!:
      BY <3>3, ExportDynamicRange, OpParts
    <3>4. ASSUME NEW s \in Symbol, item = CopyRelocateSymbol(s), WorkOps(item) = CopyRelocateOps(s)
          PROVE  <2>3!:
      <4>1. SymbolKind[s] = "Dynamic"
        BY <2>1, <3>4 DEF FailFree, Pending
      <4> QED BY <3>4, <4>1, CopyRelocateRange, OpParts
    <3> QED BY <3>1, <3>2, <3>3, <3>4, ItemKinds
  <2>4. \A i : Pending(i)' => Pending(i)
    BY <2>1, <2>3 DEF Pending
  <2> QED BY <1>1, <1>5, <2>1, <2>2, <2>3, <2>4, FailFreeStep DEF TaskStep, FailFree, Clean
<1>6. ASSUME NEW g \in Group, ReferenceSymbol(g) PROVE FailFree'
  <2>1. PICK rel \in Relocation :
          /\ ReferenceOp(rel) \in Ops
          /\ \/ rel.fails
             \/ /\ undefinedRefs' = undefinedRefs \cup (IF rel.undefined THEN {rel.symbol} ELSE {})
                /\ \A op \in Ops' \ Ops :
                     \/ op = Send(LoadGlobalSymbol(rel.symbol))
                     \/ /\ op = Send(CopyRelocateSymbol(rel.symbol))
                        /\ "COPY_RELOCATION" \in rel.flags
          /\ Queued' = Queued
    BY <1>6, ReferenceDelta
  <2>2. /\ ~rel.fails
        /\ ErrorOnUnresolved => ~rel.undefined
        /\ "COPY_RELOCATION" \in rel.flags => SymbolKind[rel.symbol] = "Dynamic"
    BY <2>1 DEF FailFree, FailingRelocation
  <2>3. errors' = errors
    BY <1>6 DEF ReferenceSymbol, resultVars
  <2>4. FailOp \notin Ops' /\ \A t : ReferenceOp(t) \in Ops' => ReferenceOp(t) \in Ops
    BY <2>1, <2>2, OpParts DEF FailFree, Clean
  <2>5. \A s \in Symbol : Pending(CopyRelocateSymbol(s))' => SymbolKind[s] = "Dynamic"
    BY <2>1, <2>2, OpParts, ItemParts DEF FailFree, Pending
  <2>6. ErrorOnUnresolved => undefinedRefs' = {}
    BY <2>1, <2>2 DEF FailFree
  <2> QED BY <1>1, <1>6, <2>3, <2>4, <2>5, <2>6 DEF TaskStep, FailFree, Clean
<1>7. ASSUME NEW g \in Group, SendLocal(g) \/ SendRemote(g) PROVE FailFree'
  <2>1. PICK item \in WorkItem :
          Send(item) \in Ops /\ Ops' \subseteq Ops /\ Queued' = Queued \cup {item}
    BY <1>7, SendDelta
  <2>2. errors' = errors /\ undefinedRefs' = undefinedRefs
    BY <1>7 DEF SendLocal, SendRemote, symbolVars, resultVars
  <2>3. \A i : Pending(i)' => Pending(i)
    BY <2>1 DEF Pending
  <2> QED BY <1>1, <1>7, <2>1, <2>2, <2>3, FailFreeStep DEF TaskStep, FailFree, Clean
<1>8. ASSUME NEW g \in Group, NEW x, Ops' \subseteq Ops, Queued' \subseteq Queued \cup {LoadSection(x)},
             errors' = errors, outcome' # "Err", undefinedRefs' = undefinedRefs
      PROVE  FailFree'
  <2>1. \A s : Pending(CopyRelocateSymbol(s))' => Pending(CopyRelocateSymbol(s))
    BY <1>8, ItemParts DEF Pending
  <2> QED BY <1>8, <2>1, FailFreeStep DEF FailFree, Clean
<1>9. ASSUME NEW g \in Group, LoadSymbol(g) PROVE FailFree'
  <2>1. PICK s \in Symbol :
          Ops' \subseteq Ops /\ Queued' \subseteq Queued \cup {LoadSection(SymbolSection[s])}
    BY <1>9, LoadDelta
  <2>2. errors' = errors /\ undefinedRefs' = undefinedRefs
    BY <1>9 DEF LoadSymbol, resultVars
  <2> QED BY <1>1, <1>8, <1>9, <2>1, <2>2 DEF TaskStep
<1>10. ASSUME NEW g \in Group, ExportSymbol(g) PROVE FailFree'
  <2>1. PICK s \in Symbol :
          Ops' \subseteq Ops /\ Queued' \subseteq Queued \cup {LoadSection(SymbolSection[s])}
    BY <1>10, ExportDelta
  <2>2. errors' = errors /\ undefinedRefs' = undefinedRefs
    BY <1>10 DEF ExportSymbol, resultVars
  <2> QED BY <1>1, <1>8, <1>10, <2>1, <2>2 DEF TaskStep
<1>11. ASSUME NEW g \in Group, DrainStartStop(g) PROVE FailFree'
  <2>1. Queued' = Queued /\ \A op \in Ops' \ Ops : \E x : op = Send(LoadSection(x))
    BY <1>11, DrainDelta
  <2>2. errors' = errors /\ undefinedRefs' = undefinedRefs
    BY <1>11 DEF DrainStartStop, resultVars
  <2>3. \A s : Pending(CopyRelocateSymbol(s))' => Pending(CopyRelocateSymbol(s))
    BY <2>1, OpParts, ItemParts DEF Pending
  <2>4. FailOp \notin Ops' /\ \A t : ReferenceOp(t) \in Ops' => ReferenceOp(t) \in Ops
    BY <2>1, OpParts DEF FailFree, Clean
  <2> QED BY <1>1, <1>11, <2>2, <2>3, <2>4, FailFreeStep DEF TaskStep
<1>12. ASSUME NEW g \in Group, MarkLoaded(g) \/ CopyRelocate(g) PROVE FailFree'
  <2>1. Ops' \subseteq Ops /\ Queued' = Queued
    BY <1>12, MarkDelta, CopyDelta
  <2>2. errors' = errors /\ undefinedRefs' = undefinedRefs
    BY <1>12 DEF MarkLoaded, CopyRelocate, symbolVars, resultVars
  <2> QED BY <1>1, <1>2, <1>12, <2>1, <2>2 DEF TaskStep
<1>13. ASSUME NEW g \in Group PROVE ~ActivationError(g) /\ ~WorkError(g)
  BY FailStepFails DEF FailFree, Clean
<1>14. CASE Finish
  <2>1. ~LinkFails
    BY DEF LinkFails, FailFree, Clean
  <2>2. UNCHANGED <<frame, local, work, errors, undefinedRefs>> /\ outcome' = "Ok"
    BY <1>14, <2>1 DEF Finish, symbolVars
  <2> QED BY <1>2, <2>2, SameOps, SameQueued
<1>15. CASE UNCHANGED vars
  <2>1. UNCHANGED <<frame, local, work, errors, undefinedRefs, outcome>>
    BY <1>15 DEF vars, sharedVars, symbolVars, resultVars
  <2> QED BY <1>2, <2>1, SameOps, SameQueued DEF FailFree
<1> QED BY <1>3, <1>4, <1>5, <1>6, <1>7, <1>9, <1>10, <1>11, <1>12, <1>13, <1>14, <1>15
        DEF Next, TaskStep, Finished

(* When the traversal has succeeded every live section is loaded, and all  *)
(* of its relocations were processed without an error.                     *)
LEMMA NothingFailed ==
  ASSUME TypeOK, IInv, LiveInv, OkClean, ReportInv, outcome = "Ok"
  PROVE  FailingSections = {}
<1>1. \A g \in Group : work[g] = << >> /\ local[g] = << >> /\ frame[g] = << >>
  BY DEF IInv, AllGroupsReturned
<1>2. Ops = {} /\ Queued = {}
  BY <1>1, RangeOfEmpty DEF Ops, Queued
<1>3. Clean /\ NothingForgotten
  BY <1>2 DEF OkClean, Clean, LiveInv
<1>4. \A g \in Group : act[g] # "Queued"
  BY DEF IInv, Ended, AllTasksDone
<1>5. LiveSections \subseteq Loaded
  BY <1>2, <1>3, <1>4, AllNeededLoaded, LiveIsNeeded
<1>6. \A s \in Symbol : Asked(s) => SymbolKind[s] = "Dynamic"
  BY <1>2, <1>3 DEF ReportInv, Pending
<1>7. ASSUME NEW x \in LiveSections
      PROVE  InitialSlot[x] # "Discard" /\ \A rel \in RelocationsOf(x) : ~FailingRelocation(rel)
  <2>1. x \in Section /\ slot[x] = "Loaded"
    BY <1>5, LiveIsNeeded DEF Loaded
  <2>2. InitialSlot[x] # "Discard"
    BY <2>1 DEF LiveInv, OnlyNeeded, SlotsSound
  <2>3. ASSUME NEW rel \in RelocationsOf(x) PROVE ~FailingRelocation(rel)
    <3>1. rel.symbol \in Symbol
      BY <2>1, RelocationsTyped DEF Relocation
    <3>2. Answered(rel)
      BY <1>3, <2>1 DEF ReportInv
    <3>3. /\ ~rel.fails
          /\ rel.undefined => ~ErrorOnUnresolved
          /\ "COPY_RELOCATION" \in rel.flags => SymbolKind[rel.symbol] = "Dynamic"
      BY <1>2, <1>6, <3>1, <3>2 DEF Answered, ReportInv
    <3> QED BY <3>3 DEF FailingRelocation
  <2> QED BY <2>2, <2>3
<1> QED BY <1>7 DEF FailingSections, RelocationsOf, Range

(* find_required_sections fails whenever a live section cannot be loaded,  *)
(* and otherwise only if the activation of a file does, for every input    *)
(* and every schedule: no error is lost with the group that met it, and    *)
(* none comes from what the link does not need.                            *)
THEOREM GcFailuresReported == Spec => []FailuresReported
<1>1. Init => ReportInv /\ OkClean
  BY ReportInvInit DEF Init, OkClean
<1>2. TypeOK /\ IInv /\ ReportInv /\ OkClean /\ [Next]_vars => ReportInv' /\ OkClean'
  BY ReportInvNext, OkCleanNext
<1>3. TypeOK /\ IInv /\ LiveInv /\ OkClean /\ ReportInv => (outcome = "Ok" => FailingSections = {})
  BY NothingFailed
<1>4. ASSUME FailingSections = {}, FailingGroups = {} PROVE Spec => []FailuresReported
  <2>1. Init => FailFree
    <3> SUFFICES ASSUME Init PROVE FailFree
      OBVIOUS
    <3>1. Ops = {} /\ Queued = {}
      BY RangeOfEmpty DEF Init, Ops, Queued
    <3> QED BY <3>1 DEF Init, FailFree, Clean, Pending
  <2>2. TypeOK /\ IInv /\ LiveInv /\ FailFree /\ [Next]_vars => FailFree'
    BY <1>4, FailFreeNext
  <2>3. FailFree => FailuresReported
    BY <1>4 DEF FailFree, FailuresReported
  <2> QED BY <2>1, <2>2, <2>3, GcInvariant, GcLiveInvariant, PTL DEF Spec
<1>5. ASSUME ~(FailingSections = {} /\ FailingGroups = {}) PROVE Spec => []FailuresReported
  <2>1. (outcome = "Ok" => FailingSections = {}) => FailuresReported
    BY <1>5 DEF FailuresReported
  <2> QED BY <1>1, <1>2, <1>3, <2>1, GcInvariant, GcLiveInvariant, PTL DEF Spec
<1> QED BY <1>4, <1>5

==========================================================================
