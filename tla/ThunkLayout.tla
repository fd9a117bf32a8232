----------------------------- MODULE ThunkLayout -----------------------------
(***************************************************************************)
(* Range-extension thunks (thunks.rs, and the parts of layout.rs and       *)
(* elf_writer.rs that give thunks their addresses and use them).           *)
(*                                                                         *)
(* A branch reaches a limited range on either side.  The program's code is *)
(* one long run of bytes: first the non-primary parts (Low), then the      *)
(* primary part, object after object.  build() cuts the objects into       *)
(* blocks, one object of each block owns it and carries the thunks of the  *)
(* block after its own code, and a branch that cannot be shown to be in    *)
(* range gets a thunk in the block of its object.  All of this is decided  *)
(* before thunks have a size: MaxThunkBytes is the margin left for them.   *)
(*                                                                         *)
(* The unit of length is one instruction.  An object has an identity, the  *)
(* bytes of it that land in the primary part, and its branches.            *)
(***************************************************************************)
EXTENDS Integers, FiniteSets

CONSTANTS
  N,             \* number of objects, in the order of the output
  Sizes,         \* the post_gc_primary_bytes an object may have
  Discarded,     \* executable input bytes that gc removed
  LowInput,      \* executable input bytes of non-primary parts
  LowGenerated,  \* executable bytes the linker adds to them (PLT)
  MinBranchRange, \* ThunkConfig::min_branch_range
  MaxThunkBytes, \* MAXIMUM_THUNK_BYTES_PER_BLOCK
  ThunkSize,     \* ThunkConfig::thunk_size
  Symbols,       \* symbols that are branched to, in the order of their ids
  Home,          \* the object whose primary section defines a symbol, or 0
  HasPlt,        \* ValueFlags::PLT: branches go through the PLT
  RefChoices     \* sets of <<source, symbol>>: source 0 is the non-primary code

ASSUME SizesAssumption ==
  /\ N \in Nat \ {0}
  /\ Sizes \subseteq Nat
  /\ {Discarded, LowInput, LowGenerated, MinBranchRange, MaxThunkBytes, ThunkSize} \subseteq Nat
  /\ MaxThunkBytes < MinBranchRange
  /\ Symbols \subseteq Nat /\ IsFiniteSet(Symbols)
  /\ Home \in [Symbols -> 0..N]
  /\ HasPlt \in [Symbols -> BOOLEAN]
  /\ \A refs \in RefChoices : refs \subseteq (0..N) \X Symbols

\* No object is as large as the branch range: a block could not serve it.
ASSUME ObjectsFit == \A s \in Sizes : s < MinBranchRange - MaxThunkBytes

VARIABLES
  pc,         \* the phase
  size,       \* post_gc_primary_bytes per object
  refs,       \* the branches of the input, as <<source, symbol>>
  enabled,    \* thunk_layout_builder.is_some()
  flagged,    \* HAS_RANGE_LIMITED_REL: the pairs seen in primary sections
  lowRefs,    \* non_primary_referenced_symbols
  i,          \* the object a loop has reached
  pos,        \* the running offset of a loop
  start, end, \* primary_ranges, thunks not counted
  numBlocks, prevBlock, prevPos,
  pending,    \* the first object that uses the unplaced "next" block, or 0
  block,      \* thunk_block_id per object
  owns,       \* owns_thunk_block per object
  symbols,    \* ThunkBlock::symbols per block
  base,       \* address of the primary code of an object, thunks counted
  thunks      \* address of the first thunk of a block

vars == <<pc, size, refs, enabled, flagged, lowRefs, i, pos, start, end, numBlocks,
          prevBlock, prevPos, pending, block, owns, symbols, base, thunks>>

placing == <<numBlocks, prevBlock, prevPos, pending, block, owns>>

inputs == <<size, refs, enabled>>

Objects == 1..N

BlockIds == 0..(N - 1)

FIRST == 0

NoAddress == -1

Low == LowInput + LowGenerated

\* ThunkLayoutBuilder::branch_range
BranchRange == MinBranchRange - MaxThunkBytes

Larger(a, b) == IF a < b THEN b ELSE a

Smaller(a, b) == IF a < b THEN a ELSE b

\* Code bytes of objects 1 to k.
BytesUpTo(k) ==
  LET sum[o \in 0..N] == IF o = 0 THEN 0 ELSE sum[o - 1] + size[o] IN sum[k]

\* An object without code has no branches.
Branches == {r \in refs : r[1] = 0 \/ size[r[1]] > 0}

Init ==
  /\ pc = "new"
  /\ size \in [Objects -> Sizes]
  /\ \A s \in Symbols : Home[s] # 0 => size[Home[s]] > 0
  /\ refs \in RefChoices
  /\ enabled = FALSE
  /\ flagged = {} /\ lowRefs = {}
  /\ i = 1 /\ pos = Low
  /\ start = [o \in Objects |-> 0] /\ end = [o \in Objects |-> 0]
  /\ numBlocks = 0 /\ prevBlock = FIRST /\ prevPos = 0 /\ pending = 0
  /\ block = [o \in Objects |-> FIRST] /\ owns = [o \in Objects |-> FALSE]
  /\ symbols = [b \in BlockIds |-> {}]
  /\ base = [o \in Objects |-> 0] /\ thunks = [b \in BlockIds |-> NoAddress]

-----------------------------------------------------------------------------
(* Before layout. *)

\* ThunkLayoutBuilder::new: only what the inputs contain is counted.
ExecutableBytes == BytesUpTo(N) + LowInput + Discarded

NeedsThunks == ExecutableBytes >= MinBranchRange

NewBuilder ==
  /\ pc = "new"
  /\ enabled' = NeedsThunks
  /\ pc' = "scan"
  /\ UNCHANGED <<size, refs, flagged, lowRefs, i, pos, start, end, placing, symbols,
                 base, thunks>>

\* handle_thunk_extensions_for_relocation, called for each relocation by the
\* parallel traversal.  It only adds to two sets, so their order is immaterial.
ScanRelocations ==
  /\ pc = "scan"
  /\ flagged' = IF enabled THEN {r \in Branches : r[1] # 0} ELSE {}
  /\ lowRefs' = IF enabled THEN {r[2] : r \in {b \in Branches : b[1] = 0 /\ Home[b[2]] # 0}}
                           ELSE {}
  /\ pc' = IF enabled THEN "ranges" ELSE "layout"
  /\ UNCHANGED <<inputs, i, pos, start, end, placing, symbols, base, thunks>>

-----------------------------------------------------------------------------
(* ThunkLayoutBuilder::build. *)

\* collect_primary_ranges
CollectRange ==
  /\ pc = "ranges"
  /\ start' = [start EXCEPT ![i] = pos]
  /\ end' = [end EXCEPT ![i] = pos + size[i]]
  /\ IF i < N
       THEN pc' = "ranges" /\ i' = i + 1 /\ pos' = pos + size[i]
       ELSE pc' = "assign" /\ i' = 1 /\ pos' = Low
  /\ UNCHANGED <<inputs, flagged, lowRefs, placing, symbols, base, thunks>>

\* The iterations of assign_thunk_blocks over the objects that have code.
NextObject ==
  /\ i' = i + 1
  /\ UNCHANGED <<pc, inputs, flagged, lowRefs, pos, start, end, symbols, base, thunks>>

Assigning == pc = "assign" /\ i \in Objects /\ end[i] > start[i]

SkipEmpty ==
  /\ pc = "assign" /\ i \in Objects /\ end[i] = start[i]
  /\ NextObject
  /\ UNCHANGED placing

\* The thunks of a block follow the code of its owner.
PlacedAt == end[i]

\* The first object owns ThunkBlockId::FIRST.
AssignFirst ==
  /\ Assigning /\ numBlocks = 0
  /\ numBlocks' = 1
  /\ block' = [block EXCEPT ![i] = FIRST]
  /\ owns' = [owns EXCEPT ![i] = TRUE]
  /\ prevBlock' = FIRST
  /\ prevPos' = PlacedAt
  /\ NextObject
  /\ UNCHANGED pending

\* "previous" mode: would the end of this object be too far behind the block?
TooFarBehind == end[i] - prevPos >= BranchRange

AssignPrevious ==
  /\ Assigning /\ numBlocks > 0 /\ pending = 0 /\ ~TooFarBehind
  /\ block' = [block EXCEPT ![i] = prevBlock]
  /\ owns' = [owns EXCEPT ![i] = FALSE]
  /\ NextObject
  /\ UNCHANGED <<numBlocks, prevBlock, prevPos, pending>>

\* The object is the first to use a block whose place is not yet known.
StartNext ==
  /\ Assigning /\ numBlocks > 0 /\ pending = 0 /\ TooFarBehind
  /\ pending' = i
  /\ numBlocks' = numBlocks + 1
  /\ NextObject
  /\ UNCHANGED <<prevBlock, prevPos, block, owns>>

\* "next" mode: the id of the unplaced block, and whether it must be placed now.
NextId == numBlocks - 1

MustPlace == end[i] - start[pending] >= BranchRange

AssignNext ==
  /\ Assigning /\ pending # 0 /\ ~MustPlace
  /\ block' = [block EXCEPT ![i] = NextId]
  /\ owns' = [owns EXCEPT ![i] = FALSE]
  /\ NextObject
  /\ UNCHANGED <<numBlocks, prevBlock, prevPos, pending>>

\* This object becomes the owner.
BlockAfterPlacingOwnerOnly == [block EXCEPT ![i] = NextId]

BlockAfterPlacing == [block EXCEPT ![pending] = NextId, ![i] = NextId]

PlaceNext ==
  /\ Assigning /\ pending # 0 /\ MustPlace
  /\ block' = BlockAfterPlacing
  /\ owns' = [owns EXCEPT ![pending] = FALSE, ![i] = TRUE]
  /\ prevBlock' = NextId
  /\ prevPos' = PlacedAt
  /\ pending' = 0
  /\ NextObject
  /\ UNCHANGED numBlocks

\* After the loop: a block that was not placed goes to the first object using it.
FinishAssign ==
  /\ pc = "assign" /\ i = N + 1
  /\ block' = IF pending = 0 THEN block ELSE [block EXCEPT ![pending] = NextId]
  /\ owns' = IF pending = 0 THEN owns ELSE [owns EXCEPT ![pending] = TRUE]
  /\ pc' = "refs" /\ i' = 1
  /\ UNCHANGED <<inputs, flagged, lowRefs, pos, start, end, numBlocks, prevBlock, prevPos,
                 pending, symbols, base, thunks>>

-----------------------------------------------------------------------------

\* primary_range_for_symbol, for a symbol that is defined in the primary part;
\* through the PLT the branch goes to the non-primary code.
DefStartOfBody(s) == start[Home[s]]

DefStart(s) == IF HasPlt[s] THEN 0 ELSE start[Home[s]]

\* provably_in_range
ProvablyInRange(o, s) ==
  IF Home[s] = 0
  THEN end[o] < BranchRange
  ELSE Larger(end[o], end[Home[s]]) - Smaller(start[o], DefStart(s)) < BranchRange

\* process_primary_part_refs, in parallel over blocks that share nothing, then
\* process_non_primary_part_refs.
ProcessRefs ==
  /\ pc = "refs"
  /\ symbols' =
       [b \in BlockIds |->
          {r[2] : r \in {f \in flagged : /\ block[f[1]] = b
                                         /\ end[f[1]] > start[f[1]]
                                         /\ ~ProvablyInRange(f[1], f[2])}}
          \cup (IF b = FIRST THEN lowRefs ELSE {})]
  /\ pc' = "layout"
  /\ UNCHANGED <<inputs, flagged, lowRefs, i, pos, start, end, placing, base, thunks>>

\* allocate_thunk_block_space reserves this much after an owner's code ...
ThunkBytes(o) == IF owns[o] THEN ThunkSize * Cardinality(symbols[block[o]]) ELSE 0

\* ... and finalise_layout gives the thunks their addresses there.
LayoutObject ==
  /\ pc = "layout"
  /\ base' = [base EXCEPT ![i] = pos]
  /\ thunks' = IF owns[i] THEN [thunks EXCEPT ![block[i]] = pos + size[i]] ELSE thunks
  /\ pos' = pos + size[i] + ThunkBytes(i)
  /\ IF i < N THEN pc' = "layout" /\ i' = i + 1 ELSE pc' = "write" /\ i' = 1
  /\ UNCHANGED <<inputs, flagged, lowRefs, start, end, placing, symbols>>

-----------------------------------------------------------------------------
(* Writing. *)

InRange(value) == -MinBranchRange <= value /\ value < MinBranchRange

\* Where a branch is, and where it goes: its relocation is at the first or at the
\* last instruction of the code.  The non-primary code, the PLT in it, starts at
\* address 0; a function is at the start of its object.
Place(source, last) ==
  IF source = 0 THEN (IF last /\ Low > 0 THEN Low - 1 ELSE 0)
  ELSE base[source] + (IF last THEN size[source] - 1 ELSE 0)

Target(s) == IF HasPlt[s] \/ Home[s] = 0 THEN 0 ELSE base[Home[s]]

ThunkAddress(b, s) == thunks[b] + ThunkSize * Cardinality({t \in symbols[b] : t < s})

BlockFor(source) == IF source = 0 THEN FIRST ELSE block[source]

\* maybe_get_thunk_for_relocation and the check in write_to_buffer.
Reaches(source, s, last) ==
  LET b == BlockFor(source)
  IN  \/ InRange(Target(s) - Place(source, last))
      \/ /\ s \in symbols[b] /\ thunks[b] # NoAddress
         /\ InRange(ThunkAddress(b, s) - Place(source, last))

\* The parallel writer applies every relocation; one that fails ends the link.
WriteBranches ==
  /\ pc = "write"
  /\ pc' = IF \A r \in Branches, last \in BOOLEAN : Reaches(r[1], r[2], last)
             THEN "done" ELSE "error"
  /\ UNCHANGED <<inputs, flagged, lowRefs, i, pos, start, end, placing, symbols, base,
                 thunks>>

Done == pc \in {"done", "error"} /\ UNCHANGED vars

AssignStep == \/ SkipEmpty \/ AssignFirst \/ AssignPrevious \/ StartNext
              \/ AssignNext \/ PlaceNext \/ FinishAssign

Next == \/ NewBuilder \/ ScanRelocations \/ CollectRange \/ AssignStep
        \/ ProcessRefs \/ LayoutObject \/ WriteBranches \/ Done

Spec == Init /\ [][Next]_vars

-----------------------------------------------------------------------------
(* Properties. *)

Assigned == pc \in {"refs", "layout", "write", "done", "error"} /\ enabled

HasCode(o) == size[o] > 0

\* An unplaced branch error would end the link (elf_writer.rs, "Branch relocation
\* out of range"; write_to_buffer, "outside of bounds"): it never comes to that,
\* whatever the sizes of the objects, the blocks they were cut into and the
\* thunks that were then put between them.
EveryBranchReaches == pc # "error"

\* Each block that has an object has exactly one owner, so its thunks are given
\* space, addresses and contents exactly once, and every object of the block is
\* within the branch range of the place of its block - plus, in front of the
\* block, the code of the owner, which the decision to place it did not count.
BlockInReach ==
  Assigned =>
    \A o \in Objects : HasCode(o) =>
      \E w \in Objects :
        /\ HasCode(w) /\ owns[w] /\ block[w] = block[o]
        /\ \A v \in Objects : owns[v] /\ block[v] = block[o] => v = w
        /\ end[o] - end[w] < BranchRange
        /\ end[w] - start[o] < BranchRange + size[w] \/ o = w

\* Two blocks are never closer than a branch range, so at most one block lies
\* between a branch and a target that was shown to be in range: this is why a
\* margin for the thunks of one block is enough.
BlocksApart ==
  Assigned =>
    \A v, w \in Objects : owns[v] /\ owns[w] /\ v < w => end[w] - end[v] >= BranchRange

-----------------------------------------------------------------------------
(* What the code takes for granted when it decides before thunks have a    *)
(* size, and never checks.                                                 *)

\* The code the linker generates is no more than what was counted and then
\* discarded, and the non-primary code is in range of itself.
GeneratedCodeFits == LowGenerated <= Discarded + 1 /\ Low <= MinBranchRange

\* The thunks of a block, and the code of its owner, which lies between them and
\* the other objects of the block, fit in the margin; and the non-primary code
\* reaches the first block.
FitAfter(code, thunkBytes) ==
  code + thunkBytes <= MaxThunkBytes /\ Low + code + thunkBytes < MinBranchRange

MarginSuffices == \A w \in Objects : owns[w] => FitAfter(size[w], ThunkBytes(w))

\* So it is when there are few symbols to branch to.
FewTargets ==
  \A rs \in RefChoices, code \in Sizes :
    FitAfter(code, ThunkSize * Cardinality({r[2] : r \in rs}))

=============================================================================
