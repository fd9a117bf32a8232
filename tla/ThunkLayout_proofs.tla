------------------------- MODULE ThunkLayout_proofs -------------------------
(***************************************************************************)
(* The blocks that assign_thunk_blocks forms, for any number of objects of *)
(* any sizes below the branch range: every object has one block within     *)
(* reach, and blocks are a branch range apart; and what the writer then    *)
(* finds: every branch reaches, while the thunks of a block and the code   *)
(* of its owner fit in the margin.                                         *)
(*                                                                         *)
(* The invariant of the blocks has one part per phase.  Ranges: objects    *)
(* seen so far follow each other without a gap.  Placing: the state of the *)
(* loop, where owners are those of placed blocks, objects before the       *)
(* pending one are settled, and what has been collected for the pending    *)
(* block still fits in one branch range.  Placed: the result, which later  *)
(* phases keep.  Blocks, Requested and Layout, below, carry it on to the   *)
(* addresses.                                                              *)
(***************************************************************************)
EXTENDS ThunkLayout, FiniteSetTheorems, WellFoundedInduction, TLAPS

R == BranchRange

Typed ==
  /\ pc \in {"new", "scan", "ranges", "assign", "refs", "layout", "write", "done", "error"}
  /\ size \in [Objects -> Nat]
  /\ \A o \in Objects : size[o] < R
  /\ enabled \in BOOLEAN
  /\ i \in 1..(N + 1)
  /\ pc \in {"new", "scan"} => i = 1 /\ pos = Low
  /\ pc = "ranges" => pos \in Nat /\ i \in Objects
  /\ start \in [Objects -> Nat]
  /\ end \in [Objects -> Nat]
  /\ numBlocks \in Nat
  /\ prevBlock \in Nat
  /\ prevPos \in Nat
  /\ pending \in 0..N
  /\ block \in [Objects -> Nat]

TypedOwns == owns \in [Objects -> BOOLEAN]

\* The objects before k lie one after the other.
Contiguous(k) ==
  /\ \A o \in Objects : o < k => end[o] = start[o] + size[o]
  /\ \A o \in Objects : o < k /\ o > 1 => start[o] = end[o - 1]

Increasing(k) ==
  \A o, p \in Objects : o < p /\ p < k => end[o] <= start[p]

Ranges ==
  /\ pc = "ranges" => /\ enabled
                      /\ Contiguous(i) /\ Increasing(i)
                      /\ i > 1 => pos = end[i - 1]
  /\ pc = "assign" => enabled
  /\ (enabled /\ pc \notin {"new", "scan", "ranges"}) => Contiguous(N + 1) /\ Increasing(N + 1)

InReachOf(o, w) ==
  /\ HasCode(w) /\ owns[w] /\ block[w] = block[o]
  /\ end[o] - end[w] < R
  /\ end[w] - start[o] < R + size[w] \/ o = w

\* Owners of different objects own different blocks, a branch range apart.
Owners ==
  \A v, w \in Objects : owns[v] /\ owns[w] /\ v < w =>
    block[v] # block[w] /\ end[w] - end[v] >= R

NothingPlaced ==
  /\ numBlocks = 0 /\ pending = 0
  /\ \A o \in Objects : ~owns[o]

Previous ==
  /\ \E w \in Objects : w < i /\ owns[w] /\ HasCode(w) /\ end[w] = prevPos /\ block[w] = prevBlock
  /\ \A v \in Objects : owns[v] => v < i /\ block[v] <= prevBlock /\ end[v] <= prevPos

Settled ==
  \A o \in Objects : o < i /\ HasCode(o) /\ (pending = 0 \/ o < pending) =>
    \E w \in Objects : InReachOf(o, w)

Waiting ==
  /\ pending < i /\ HasCode(pending) /\ ~owns[pending]
  /\ end[pending] - prevPos >= R
  /\ \A o \in Objects : pending <= o /\ o < i => end[o] - start[pending] < R /\ ~owns[o]
  /\ \A o \in Objects : pending < o /\ o < i /\ HasCode(o) => block[o] = numBlocks - 1

Placing ==
  /\ pc \in {"new", "scan", "ranges"} => NothingPlaced
  /\ pc = "assign" =>
       /\ numBlocks = 0 => NothingPlaced /\ \A o \in Objects : o < i => size[o] = 0
       /\ numBlocks > 0 =>
            /\ Owners /\ Previous /\ Settled
            /\ numBlocks = prevBlock + (IF pending = 0 THEN 1 ELSE 2)
            /\ pending # 0 => Waiting

Placed ==
  Assigned => /\ Owners
              /\ \A o \in Objects : HasCode(o) => \E w \in Objects : InReachOf(o, w)

Inv == Typed /\ TypedOwns /\ Ranges /\ Placing /\ Placed

-----------------------------------------------------------------------------

LEMMA RangeFacts == /\ N \in Nat /\ N > 0 /\ R \in Nat /\ R > 0 /\ Low \in Nat
                    /\ \A s \in Sizes : s \in Nat /\ s < R
<1>1. /\ Discarded \in Nat /\ LowInput \in Nat /\ LowGenerated \in Nat
      /\ MinBranchRange \in Nat /\ MaxThunkBytes \in Nat
  BY SizesAssumption
<1>2. N \in Nat /\ N > 0 /\ MaxThunkBytes < MinBranchRange
  BY SizesAssumption
<1>3. \A s \in Sizes : s \in Nat
  BY SizesAssumption
<1> QED BY <1>1, <1>2, <1>3, ObjectsFit DEF R, BranchRange, Low

LEMMA NFacts == N \in Nat /\ N > 0
BY RangeFacts

LEMMA RFacts == R \in Nat /\ R > 0
BY RangeFacts

LEMMA InitInv == Init => Inv
<1> SUFFICES ASSUME Init PROVE Inv
  OBVIOUS
<1>0. size \in [Objects -> Nat] /\ \A o \in Objects : size[o] < R
  BY RangeFacts DEF Init
<1>a. start \in [Objects -> Nat] /\ end \in [Objects -> Nat] /\ block \in [Objects -> Nat]
  BY DEF Init, FIRST
<1>b. i \in 1..(N + 1) /\ pending \in 0..N
  BY RangeFacts DEF Init
<1>c. prevBlock \in Nat /\ prevPos \in Nat /\ numBlocks \in Nat
  BY DEF Init, FIRST
<1>d. pc = "new" /\ i = 1 /\ pos = Low /\ enabled = FALSE
  BY DEF Init
<1>1. Typed
  BY <1>0, <1>a, <1>b, <1>c, <1>d DEF Typed
<1>3. TypedOwns
  BY Zenon DEF Init, TypedOwns
<1>2. Ranges /\ Placing /\ Placed
  BY DEF Init, Ranges, Placing, Placed, NothingPlaced, Assigned
<1> QED BY <1>1, <1>2, <1>3 DEF Inv

\* Steps that touch none of the variables of the invariant but pc, i, pos.
LEMMA BeforeInv == Inv /\ (NewBuilder \/ ScanRelocations) => Inv'
<1> SUFFICES ASSUME Inv, NewBuilder \/ ScanRelocations PROVE Inv'
  OBVIOUS
<1>0. NeedsThunks \in BOOLEAN
  BY DEF NeedsThunks
<1>1. CASE NewBuilder
  BY <1>0, <1>1, RangeFacts DEF NewBuilder, Inv, Typed, TypedOwns, Ranges, Placing, Placed, NothingPlaced, Assigned, inputs, placing, Objects
<1>2. CASE ScanRelocations
  <2>1. Typed' /\ TypedOwns'
    BY <1>2, RangeFacts DEF ScanRelocations, Inv, Typed, TypedOwns, inputs, placing, Objects
  <2>2. Ranges'
    BY <1>2, RangeFacts DEF ScanRelocations, Inv, Typed, Ranges, Placing, NothingPlaced, Contiguous, Increasing, inputs, placing, Objects
  <2>3. Placing' /\ Placed'
    BY <1>2, RangeFacts DEF ScanRelocations, Inv, Typed, Placing, Placed, NothingPlaced, Assigned, inputs, placing, Objects
  <2> QED BY <2>1, <2>2, <2>3 DEF Inv
<1> QED BY <1>1, <1>2

\* One more object is appended to the ranges.
LEMMA CollectInv == Inv /\ CollectRange => Inv'
<1> SUFFICES ASSUME Inv, CollectRange PROVE Inv'
  OBVIOUS
<1>0. enabled /\ enabled' = enabled /\ placing' = placing
  BY DEF Inv, Typed, Ranges, CollectRange, inputs
<1>1. /\ pc = "ranges" /\ i \in Objects /\ pos \in Nat /\ i \in Int
      /\ size' = size /\ size \in [Objects -> Nat] /\ \A o \in Objects : size[o] < R
      /\ start \in [Objects -> Nat] /\ end \in [Objects -> Nat]
  BY DEF Inv, Typed, Ranges, CollectRange, inputs, Objects
<1>t. start' \in [Objects -> Nat] /\ end' \in [Objects -> Nat]
  BY <1>1 DEF CollectRange
<1>p. \A o \in Objects : /\ start'[o] = IF o = i THEN pos ELSE start[o]
                         /\ end'[o] = IF o = i THEN pos + size[i] ELSE end[o]
  BY <1>1 DEF CollectRange
<1>2. \/ i < N /\ pc' = "ranges" /\ i' = i + 1 /\ pos' = pos + size[i]
      \/ i = N /\ pc' = "assign" /\ i' = 1
  BY <1>1, NFacts DEF CollectRange, Objects
<1>3. Contiguous(i) /\ Increasing(i) /\ (i > 1 => pos = end[i - 1])
  BY <1>1 DEF Inv, Ranges
<1>4. Typed'
  <2>1. /\ numBlocks' \in Nat /\ prevBlock' \in Nat /\ prevPos' \in Nat
        /\ pending' \in 0..N /\ block' \in [Objects -> Nat] /\ enabled' \in BOOLEAN
    BY <1>0 DEF Inv, Typed, placing
  <2>2. pos' \in Nat \/ pc' = "assign"
    BY <1>1, <1>2
  <2>3. i' \in 1..(N + 1) /\ (pc' = "ranges" => i' \in Objects)
    <3>1. i \in 1..N /\ N \in Nat /\ N > 0
      BY <1>1, NFacts DEF Objects
    <3>2. CASE i < N /\ pc' = "ranges" /\ i' = i + 1
      BY <3>1, <3>2 DEF Objects
    <3>3. CASE i = N /\ pc' = "assign" /\ i' = 1
      BY <3>1, <3>3 DEF Objects
    <3> QED BY <1>2, <3>2, <3>3
  <2> QED BY <1>1, <1>t, <1>2, <2>1, <2>2, <2>3 DEF Typed
<1>5. \A o \in Objects : o < i + 1 => end'[o] = start'[o] + size[o]
  BY <1>1, <1>p, <1>3 DEF Contiguous, Objects
<1>6. \A o \in Objects : o < i + 1 /\ o > 1 => start'[o] = end'[o - 1]
  <2> TAKE o \in Objects
  <2> HAVE o < i + 1 /\ o > 1
  <2>1. o - 1 \in Objects /\ o - 1 # i /\ end'[o - 1] = end[o - 1]
    <3>1. o \in Int /\ o - 1 \in Objects /\ o - 1 # i
      BY <1>1, NFacts DEF Objects
    <3> QED BY <1>p, <3>1
  <2>2. o = i \/ o < i
    BY <1>1 DEF Objects
  <2> QED BY <1>1, <1>p, <1>3, <2>1, <2>2 DEF Contiguous
<1>9. \A o, p \in Objects : o < p /\ p < i + 1 => end'[o] <= start'[p]
  <2> TAKE o, p \in Objects
  <2> HAVE o < p /\ p < i + 1
  <2>0. o # i /\ end'[o] = end[o] /\ (p = i \/ p < i)
    BY <1>1, <1>p DEF Objects
  <2>1. CASE p < i
    <3>1. start'[p] = start[p]
      BY <1>1, <1>p, <2>1 DEF Objects
    <3> QED BY <1>3, <2>0, <2>1, <3>1 DEF Increasing
  <2>2. CASE p = i
    <3>1. i - 1 \in Objects /\ i - 1 < i /\ (o < i - 1 \/ o = i - 1) /\ end[i - 1] = pos
      <4>1. o \in Int /\ i > 1 /\ i - 1 \in Objects /\ i - 1 < i /\ (o < i - 1 \/ o = i - 1)
        BY <1>1, <2>2, NFacts DEF Objects
      <4> QED BY <4>1, <1>3
    <3>2. o < i - 1 => end[o] <= start[i - 1]
      BY <1>3, <3>1 DEF Increasing
    <3>3. end[i - 1] = start[i - 1] + size[i - 1]
      BY <1>3, <3>1 DEF Contiguous
    <3>4. start'[p] = pos /\ start[i - 1] \in Nat /\ size[i - 1] \in Nat /\ end[o] \in Nat
      BY <1>1, <1>p, <2>2, <3>1
    <3>5. end[o] <= pos
      BY <1>1, <3>1, <3>2, <3>3, <3>4
    <3> QED BY <2>0, <3>4, <3>5
  <2> QED BY <2>0, <2>1, <2>2
<1>7. Ranges'
  <2>1. pc' = "ranges" => Contiguous(i)' /\ Increasing(i)' /\ pos' = end'[i' - 1]
    BY <1>1, <1>2, <1>5, <1>6, <1>9, <1>p DEF Contiguous, Increasing
  <2>2. pc' = "assign" => Contiguous(N + 1)' /\ Increasing(N + 1)'
    BY <1>1, <1>2, <1>5, <1>6, <1>9 DEF Contiguous, Increasing
  <2> QED BY <1>0, <1>2, <2>1, <2>2 DEF Ranges
<1>8. Placing' /\ Placed' /\ TypedOwns'
  <2>1. NothingPlaced /\ NothingPlaced' /\ TypedOwns'
    BY <1>0, <1>1 DEF Inv, Placing, NothingPlaced, TypedOwns, placing, Objects
  <2>2. pc' = "assign" => \A o \in Objects : ~(o < i')
    BY <1>1, <1>2, NFacts DEF Objects
  <2> QED BY <1>2, <2>1, <2>2 DEF Placing, Placed, NothingPlaced, Assigned
<1> QED BY <1>4, <1>7, <1>8 DEF Inv

-----------------------------------------------------------------------------
(* The loop. *)

\* What the ranges give the loop.
LEMMA AssignFacts ==
  ASSUME Inv, pc = "assign"
  PROVE  /\ size \in [Objects -> Nat] /\ start \in [Objects -> Nat] /\ end \in [Objects -> Nat]
         /\ \A o \in Objects : size[o] < R /\ end[o] = start[o] + size[o]
         /\ \A o \in Objects : o > 1 => start[o] = end[o - 1]
         /\ \A o, p \in Objects : o < p => end[o] <= start[p]
<1>1. Contiguous(N + 1) /\ Increasing(N + 1)
  BY DEF Inv, Ranges
<1>2. \A o \in Objects : o < N + 1
  BY NFacts DEF Objects
<1> QED BY <1>1, <1>2 DEF Inv, Typed, Contiguous, Increasing

LEMMA LoopKeeps ==
  ASSUME Inv, pc = "assign", i \in Objects, NextObject
  PROVE  /\ Ranges' /\ Placed' /\ i' = i + 1 /\ i' \in 1..(N + 1) /\ pc' = "assign"
         /\ size' = size /\ start' = start /\ end' = end /\ enabled' = enabled
<1>1. /\ i' = i + 1 /\ pc' = "assign"
      /\ size' = size /\ start' = start /\ end' = end /\ enabled' = enabled
  BY DEF NextObject, inputs
<1>2. i' \in 1..(N + 1)
  BY <1>1, NFacts DEF Objects
<1>3. Ranges'
  BY <1>1 DEF Inv, Ranges, Contiguous, Increasing
<1> QED BY <1>1, <1>2, <1>3 DEF Placed, Assigned

LEMMA SkipInv == Inv /\ SkipEmpty => Inv'
<1> SUFFICES ASSUME Inv, SkipEmpty PROVE Inv'
  OBVIOUS
<1>1. pc = "assign" /\ i \in Objects /\ NextObject /\ end[i] = start[i]
  BY DEF SkipEmpty
<1>2. /\ numBlocks' = numBlocks /\ prevBlock' = prevBlock /\ prevPos' = prevPos
      /\ pending' = pending /\ block' = block /\ owns' = owns
  BY DEF SkipEmpty, placing
<1>3. /\ Ranges' /\ Placed' /\ i' = i + 1 /\ i' \in 1..(N + 1) /\ pc' = "assign"
      /\ size' = size /\ start' = start /\ end' = end /\ enabled' = enabled
  BY <1>1, LoopKeeps
<1>4. size[i] = 0 /\ i \in Int
  BY <1>1, AssignFacts, NFacts DEF Objects
<1>5. Typed' /\ TypedOwns'
  BY <1>2, <1>3 DEF Inv, Typed, TypedOwns
<1>6. \A o \in Objects : o < i + 1 => o < i \/ o = i
  BY <1>4 DEF Objects
<1>7. ASSUME numBlocks = 0
      PROVE  NothingPlaced' /\ \A o \in Objects : o < i' => size'[o] = 0
  BY <1>1, <1>2, <1>3, <1>4, <1>6, <1>7 DEF Inv, Placing, NothingPlaced
<1>8. ASSUME numBlocks > 0
      PROVE  Owners' /\ Previous' /\ Settled' /\ (pending # 0 => Waiting')
  <2>1. Owners /\ Previous /\ Settled /\ (pending # 0 => Waiting)
    BY <1>1, <1>8 DEF Inv, Placing
  <2>2. Owners'
    BY <1>2, <1>3, <2>1 DEF Owners
  <2>3. Previous'
    <3>1. \A o \in Objects : o < i => o < i'
      BY <1>3, <1>4 DEF Objects
    <3> QED BY <1>2, <1>3, <2>1, <3>1 DEF Previous, HasCode
  <2>4. Settled'
    BY <1>2, <1>3, <1>4, <1>6, <2>1 DEF Settled, HasCode, InReachOf
  <2>5. pending # 0 => Waiting'
    <3> SUFFICES ASSUME pending # 0 PROVE Waiting'
      OBVIOUS
    <3>0. Waiting /\ pending \in Objects
      BY <2>1 DEF Inv, Typed, Objects
    <3>1. end[i] - start[pending] < R /\ ~owns[i]
      <4>1. i - 1 \in Objects /\ i > 1 /\ pending <= i - 1 /\ i - 1 < i
        BY <1>1, <1>4, <3>0, NFacts DEF Waiting, Objects
      <4>2. end[i] = end[i - 1]
        BY <1>1, <4>1, AssignFacts
      <4>3. end[i - 1] - start[pending] < R
        BY <3>0, <4>1 DEF Waiting
      <4>4. ~owns[i]
        BY <1>1, <1>4, <2>1 DEF Previous
      <4> QED BY <4>2, <4>3, <4>4
    <3> QED BY <1>2, <1>3, <1>4, <1>6, <3>0, <3>1 DEF Waiting, HasCode, Objects
  <2> QED BY <2>2, <2>3, <2>4, <2>5
<1>9. Placing'
  BY <1>1, <1>2, <1>3, <1>7, <1>8 DEF Inv, Typed, Placing
<1> QED BY <1>3, <1>5, <1>9 DEF Inv

LEMMA FirstInv == Inv /\ AssignFirst => Inv'
<1> SUFFICES ASSUME Inv, AssignFirst PROVE Inv'
  OBVIOUS
<1>1. pc = "assign" /\ i \in Objects /\ NextObject /\ end[i] > start[i] /\ numBlocks = 0
  BY DEF AssignFirst, Assigning
<1>2. /\ numBlocks' = 1 /\ prevBlock' = 0 /\ prevPos' = end[i] /\ pending' = pending
      /\ block' = [block EXCEPT ![i] = 0] /\ owns' = [owns EXCEPT ![i] = TRUE]
  BY DEF AssignFirst, PlacedAt, FIRST
<1>3. /\ Ranges' /\ Placed' /\ i' = i + 1 /\ i' \in 1..(N + 1) /\ pc' = "assign"
      /\ size' = size /\ start' = start /\ end' = end /\ enabled' = enabled
  BY <1>1, LoopKeeps
<1>4. i \in Int /\ HasCode(i) /\ end[i] \in Nat /\ start[i] \in Nat /\ size[i] \in Nat
  BY <1>1, AssignFacts, NFacts DEF Objects, HasCode
<1>6. \A o \in Objects : o < i + 1 => o < i \/ o = i
  BY <1>4 DEF Objects
<1>5. Typed' /\ TypedOwns'
  <2>1. block' \in [Objects -> Nat]
    BY <1>1, <1>2 DEF Inv, Typed
  <2>2. owns' \in [Objects -> BOOLEAN]
    BY <1>1, <1>2 DEF Inv, TypedOwns
  <2> QED BY <1>2, <1>3, <1>4, <2>1, <2>2 DEF Inv, Typed, TypedOwns
<1>7. /\ pending = 0 /\ \A o \in Objects : o < i => size[o] = 0
      /\ \A o \in Objects : ~owns[o]
  BY <1>1 DEF Inv, Placing, NothingPlaced
<1>8. owns'[i] /\ block'[i] = 0 /\ \A o \in Objects : owns'[o] => o = i
  BY <1>1, <1>2, <1>7 DEF Inv, Typed, TypedOwns
<1>9. Owners' /\ Previous' /\ Settled'
  <2>1. Owners'
    BY <1>4, <1>8 DEF Owners
  <2>2. Previous'
    BY <1>1, <1>2, <1>3, <1>4, <1>8 DEF Previous, HasCode
  <2>3. Settled'
    <3>0. PICK k \in Objects : k = i
      BY <1>1
    <3>1. InReachOf(k, k)'
      BY <1>1, <1>3, <1>4, <1>8, <3>0, RFacts DEF InReachOf, HasCode
    <3>2. \A o \in Objects : o < i' /\ size[o] > 0 => o = k
      BY <1>3, <1>6, <1>7, <3>0
    <3> QED BY <1>3, <3>1, <3>2 DEF Settled, HasCode
  <2> QED BY <2>1, <2>2, <2>3
<1> QED BY <1>2, <1>3, <1>5, <1>7, <1>9 DEF Inv, Placing

LEMMA PreviousInv == Inv /\ AssignPrevious => Inv'
<1> SUFFICES ASSUME Inv, AssignPrevious PROVE Inv'
  OBVIOUS
<1>1. /\ pc = "assign" /\ i \in Objects /\ NextObject /\ end[i] > start[i] /\ numBlocks > 0
      /\ pending = 0 /\ ~(end[i] - prevPos >= R)
  BY DEF AssignPrevious, Assigning, TooFarBehind, R
<1>2. /\ numBlocks' = numBlocks /\ prevBlock' = prevBlock /\ prevPos' = prevPos
      /\ pending' = pending
      /\ block' = [block EXCEPT ![i] = prevBlock] /\ owns' = [owns EXCEPT ![i] = FALSE]
  BY DEF AssignPrevious
<1>3. /\ Ranges' /\ Placed' /\ i' = i + 1 /\ i' \in 1..(N + 1) /\ pc' = "assign"
      /\ size' = size /\ start' = start /\ end' = end /\ enabled' = enabled
  BY <1>1, LoopKeeps
<1>4. i \in Int /\ HasCode(i) /\ end[i] \in Nat /\ start[i] \in Nat /\ size[i] \in Nat
  BY <1>1, AssignFacts, NFacts DEF Objects, HasCode
<1>6. \A o \in Objects : o < i + 1 => o < i \/ o = i
  BY <1>4 DEF Objects
<1>5. Typed' /\ TypedOwns'
  <2>1. block' \in [Objects -> Nat]
    BY <1>1, <1>2 DEF Inv, Typed
  <2>2. owns' \in [Objects -> BOOLEAN]
    BY <1>1, <1>2 DEF Inv, TypedOwns
  <2> QED BY <1>2, <1>3, <1>4, <2>1, <2>2 DEF Inv, Typed, TypedOwns
<1>7. Owners /\ Previous /\ Settled /\ numBlocks = prevBlock + 1
  BY <1>1 DEF Inv, Placing
<1>8. /\ \A o \in Objects : owns'[o] <=> owns[o]
      /\ \A o \in Objects : o # i => block'[o] = block[o]
      /\ block'[i] = prevBlock /\ ~owns[i]
  <2>1. ~owns[i]
    BY <1>1, <1>4, <1>7 DEF Previous
  <2> QED BY <1>1, <1>2, <2>1 DEF Inv, Typed, TypedOwns
<1>9. Owners' /\ Previous' /\ Settled'
  <2>1. Owners'
    BY <1>3, <1>7, <1>8 DEF Owners
  <2>2. Previous'
    <3>1. \A o \in Objects : o < i => o < i'
      BY <1>3, <1>4 DEF Objects
    <3> QED BY <1>2, <1>3, <1>7, <1>8, <3>1 DEF Previous, HasCode
  <2>3. Settled'
    <3> SUFFICES ASSUME NEW o \in Objects, o < i + 1, HasCode(o)
                 PROVE  \E w \in Objects : InReachOf(o, w)'
      BY <1>3 DEF Settled, HasCode
    <3>1. CASE o < i
      <4>1. PICK w \in Objects : InReachOf(o, w)
        BY <1>1, <1>7, <3>1 DEF Settled
      <4>2. o # i /\ w # i
        BY <1>4, <1>8, <3>1, <4>1 DEF InReachOf
      <4> QED BY <1>3, <1>8, <4>1, <4>2 DEF InReachOf, HasCode
    <3>2. CASE o = i
      <4>1. PICK w \in Objects : w < i /\ owns[w] /\ HasCode(w) /\ end[w] = prevPos /\ block[w] = prevBlock
        BY <1>7 DEF Previous
      <4>2. end[w] <= start[i] /\ w # i /\ end[w] \in Nat /\ size[w] \in Nat
        BY <1>1, <1>4, <4>1, AssignFacts
      <4>3. end[w] - start[i] < R + size[w] /\ end[i] - end[w] < R
        BY <1>1, <1>4, <4>1, <4>2, RFacts
      <4>4. InReachOf(o, w)'
        BY <1>3, <1>8, <3>2, <4>1, <4>2, <4>3 DEF InReachOf, HasCode
      <4> QED BY <4>4
    <3> QED BY <1>6, <3>1, <3>2
  <2> QED BY <2>1, <2>2, <2>3
<1> QED BY <1>1, <1>2, <1>3, <1>5, <1>7, <1>9 DEF Inv, Placing

LEMMA StartInv == Inv /\ StartNext => Inv'
<1> SUFFICES ASSUME Inv, StartNext PROVE Inv'
  OBVIOUS
<1>1. /\ pc = "assign" /\ i \in Objects /\ NextObject /\ end[i] > start[i] /\ numBlocks > 0
      /\ pending = 0 /\ end[i] - prevPos >= R
  BY DEF StartNext, Assigning, TooFarBehind, R
<1>2. /\ numBlocks' = numBlocks + 1 /\ prevBlock' = prevBlock /\ prevPos' = prevPos
      /\ pending' = i /\ block' = block /\ owns' = owns
  BY DEF StartNext
<1>3. /\ Ranges' /\ Placed' /\ i' = i + 1 /\ i' \in 1..(N + 1) /\ pc' = "assign"
      /\ size' = size /\ start' = start /\ end' = end /\ enabled' = enabled
  BY <1>1, LoopKeeps
<1>4. i \in Int /\ HasCode(i) /\ end[i] \in Nat /\ start[i] \in Nat /\ size[i] \in Nat
  BY <1>1, AssignFacts, NFacts DEF Objects, HasCode
<1>6. \A o \in Objects : o < i + 1 => o < i \/ o = i
  BY <1>4 DEF Objects
<1>5. Typed' /\ TypedOwns'
  <2>1. numBlocks' \in Nat /\ pending' \in 0..N
    BY <1>1, <1>2, NFacts DEF Inv, Typed, Objects
  <2> QED BY <1>2, <1>3, <2>1 DEF Inv, Typed, TypedOwns
<1>7. Owners /\ Previous /\ Settled /\ numBlocks = prevBlock + 1
  BY <1>1 DEF Inv, Placing
<1>8. Owners' /\ Previous'
  <2>1. \A o \in Objects : o < i => o < i'
    BY <1>3, <1>4 DEF Objects
  <2> QED BY <1>2, <1>3, <1>7, <2>1 DEF Owners, Previous, HasCode
<1>9. Settled'
  BY <1>1, <1>2, <1>3, <1>4, <1>7, NFacts DEF Settled, HasCode, InReachOf, Objects
<1>10. Waiting'
  <2>1. ~owns[i]
    BY <1>1, <1>4, <1>7 DEF Previous
  <2>2. end[i] - start[i] < R
    BY <1>1, <1>4, AssignFacts
  <2>3. \A o \in Objects : i <= o /\ o < i + 1 => o = i
    BY <1>4 DEF Objects
  <2>4. \A o \in Objects : ~(i < o /\ o < i + 1)
    BY <1>4 DEF Objects
  <2>5. i < i + 1
    BY <1>4
  <2> QED BY <1>1, <1>2, <1>3, <1>4, <2>1, <2>2, <2>3, <2>4, <2>5 DEF Waiting, HasCode
<1>11. numBlocks' = prevBlock' + 2 /\ numBlocks' > 0 /\ pending' # 0
  BY <1>1, <1>2, <1>7 DEF Inv, Typed, Objects
<1> QED BY <1>3, <1>5, <1>8, <1>9, <1>10, <1>11 DEF Inv, Placing

LEMMA NextInv == Inv /\ AssignNext => Inv'
<1> SUFFICES ASSUME Inv, AssignNext PROVE Inv'
  OBVIOUS
<1>1. /\ pc = "assign" /\ i \in Objects /\ NextObject /\ end[i] > start[i]
      /\ pending # 0 /\ ~(end[i] - start[pending] >= R)
  BY DEF AssignNext, Assigning, MustPlace, R
<1>2. /\ numBlocks' = numBlocks /\ prevBlock' = prevBlock /\ prevPos' = prevPos
      /\ pending' = pending
      /\ block' = [block EXCEPT ![i] = numBlocks - 1] /\ owns' = [owns EXCEPT ![i] = FALSE]
  BY DEF AssignNext, NextId
<1>3. /\ Ranges' /\ Placed' /\ i' = i + 1 /\ i' \in 1..(N + 1) /\ pc' = "assign"
      /\ size' = size /\ start' = start /\ end' = end /\ enabled' = enabled
  BY <1>1, LoopKeeps
<1>4. i \in Int /\ HasCode(i) /\ end[i] \in Nat /\ start[i] \in Nat /\ size[i] \in Nat
  BY <1>1, AssignFacts, NFacts DEF Objects, HasCode
<1>6. \A o \in Objects : o < i + 1 => o < i \/ o = i
  BY <1>4 DEF Objects
<1>7. /\ numBlocks > 0 /\ numBlocks \in Nat /\ pending \in Objects
      /\ Owners /\ Previous /\ Settled /\ Waiting
  BY <1>1 DEF Inv, Typed, Placing, NothingPlaced, Objects
<1>5. Typed' /\ TypedOwns'
  <2>1. block' \in [Objects -> Nat]
    BY <1>1, <1>2, <1>7 DEF Inv, Typed
  <2>2. owns' \in [Objects -> BOOLEAN]
    BY <1>1, <1>2 DEF Inv, TypedOwns
  <2> QED BY <1>2, <1>3, <2>1, <2>2 DEF Inv, Typed, TypedOwns
<1>8. /\ \A o \in Objects : owns'[o] <=> owns[o]
      /\ \A o \in Objects : o # i => block'[o] = block[o]
      /\ block'[i] = numBlocks - 1 /\ ~owns[i]
  <2>1. ~owns[i]
    BY <1>1, <1>4, <1>7 DEF Previous
  <2> QED BY <1>1, <1>2, <2>1 DEF Inv, Typed, TypedOwns
<1>9. Owners'
  BY <1>3, <1>7, <1>8 DEF Owners
<1>10. Previous'
  <2>1. \A o \in Objects : o < i => o < i'
    BY <1>3, <1>4 DEF Objects
  <2> QED BY <1>2, <1>3, <1>7, <1>8, <2>1 DEF Previous, HasCode
<1>11. Settled'
  <2> SUFFICES ASSUME NEW o \in Objects, o < pending, HasCode(o)
               PROVE  \E w \in Objects : InReachOf(o, w)'
    BY <1>2, <1>3, <1>7 DEF Settled, HasCode, Objects
  <2>1. o < i /\ o # i
    BY <1>4, <1>7, NFacts DEF Waiting, Objects
  <2>2. PICK w \in Objects : InReachOf(o, w)
    BY <1>7, <2>1 DEF Settled
  <2>3. w # i
    BY <1>8, <2>2 DEF InReachOf
  <2> QED BY <1>3, <1>8, <2>1, <2>2, <2>3 DEF InReachOf, HasCode
<1>12. Waiting'
  <2>1. pending < i + 1 /\ pending # i
    BY <1>4, <1>7 DEF Waiting, Objects
  <2>2. end[i] - start[pending] < R
    BY <1>1, <1>4, <1>7, AssignFacts, RFacts
  <2> QED BY <1>2, <1>3, <1>6, <1>7, <1>8, <2>1, <2>2 DEF Waiting, HasCode
<1> QED BY <1>1, <1>2, <1>3, <1>5, <1>7, <1>9, <1>10, <1>11, <1>12 DEF Inv, Placing

LEMMA PlaceInv == Inv /\ PlaceNext => Inv'
<1> SUFFICES ASSUME Inv, PlaceNext PROVE Inv'
  OBVIOUS
<1>1. /\ pc = "assign" /\ i \in Objects /\ NextObject /\ end[i] > start[i]
      /\ pending # 0 /\ end[i] - start[pending] >= R
  BY DEF PlaceNext, Assigning, MustPlace, R
<1>2. /\ numBlocks' = numBlocks /\ prevBlock' = numBlocks - 1 /\ prevPos' = end[i]
      /\ pending' = 0
      /\ block' = [block EXCEPT ![pending] = numBlocks - 1, ![i] = numBlocks - 1]
      /\ owns' = [owns EXCEPT ![pending] = FALSE, ![i] = TRUE]
  BY DEF PlaceNext, NextId, BlockAfterPlacing, PlacedAt
<1>3. /\ Ranges' /\ Placed' /\ i' = i + 1 /\ i' \in 1..(N + 1) /\ pc' = "assign"
      /\ size' = size /\ start' = start /\ end' = end /\ enabled' = enabled
  BY <1>1, LoopKeeps
<1>4. i \in Int /\ HasCode(i) /\ end[i] \in Nat /\ start[i] \in Nat /\ size[i] \in Nat
  BY <1>1, AssignFacts, NFacts DEF Objects, HasCode
<1>6. \A o \in Objects : o < i + 1 => o < i \/ o = i
  BY <1>4 DEF Objects
<1>7. /\ numBlocks > 0 /\ numBlocks \in Nat /\ pending \in Objects /\ prevBlock \in Nat
      /\ Owners /\ Previous /\ Settled /\ Waiting /\ numBlocks = prevBlock + 2
      /\ prevPos \in Nat
  BY <1>1 DEF Inv, Typed, Placing, NothingPlaced, Objects
<1>5. Typed' /\ TypedOwns'
  <2>1. block' \in [Objects -> Nat]
    BY <1>1, <1>2, <1>7 DEF Inv, Typed
  <2>2. owns' \in [Objects -> BOOLEAN]
    BY <1>1, <1>2, <1>7 DEF Inv, TypedOwns
  <2>3. pending' \in 0..N
    BY <1>2, NFacts
  <2> QED BY <1>2, <1>3, <1>4, <1>7, <2>1, <2>2, <2>3 DEF Inv, Typed, TypedOwns
<1>8. /\ \A o \in Objects : o # i => (owns'[o] <=> owns[o])
      /\ \A o \in Objects : o # i /\ o # pending => block'[o] = block[o]
      /\ block'[i] = numBlocks - 1 /\ block'[pending] = numBlocks - 1
      /\ ~owns[i] /\ owns'[i] /\ pending # i
  <2>1. ~owns[i] /\ ~owns[pending] /\ pending # i
    BY <1>1, <1>4, <1>7 DEF Previous, Waiting
  <2> QED BY <1>1, <1>2, <1>7, <2>1 DEF Inv, Typed, TypedOwns
<1>o. \A v \in Objects : owns[v] =>
        /\ v < i /\ v # i /\ v # pending /\ block[v] < numBlocks - 1 /\ end[i] - end[v] >= R
        /\ end[v] <= end[i]
  <2> TAKE v \in Objects
  <2> HAVE owns[v]
  <2>1. v < i /\ v # i /\ v # pending /\ block[v] <= prevBlock /\ end[v] <= prevPos
    BY <1>4, <1>7 DEF Previous, Waiting
  <2>2. end[pending] - prevPos >= R /\ end[pending] <= start[i] /\ end[pending] \in Nat
    BY <1>1, <1>7, AssignFacts DEF Waiting
  <2>3. block[v] \in Nat /\ end[v] \in Nat
    BY AssignFacts, <1>1 DEF Inv, Typed
  <2> QED BY <1>1, <1>4, <1>7, <2>1, <2>2, <2>3, RFacts
<1>9. Owners'
  <2> SUFFICES ASSUME NEW v \in Objects, NEW w \in Objects, owns'[v], owns'[w], v < w
               PROVE  block'[v] # block'[w] /\ end[w] - end[v] >= R
    BY <1>3 DEF Owners
  <2>1. CASE w = i
    BY <1>4, <1>7, <1>8, <1>o, <2>1 DEF Inv, Typed, Objects
  <2>2. CASE w # i
    <3>1. owns[w] /\ v # i /\ w < i
      BY <1>4, <1>8, <1>o, <2>2 DEF Objects
    <3>2. owns[v] /\ block'[v] = block[v] /\ block'[w] = block[w]
      BY <1>8, <1>o, <2>2, <3>1
    <3> QED BY <1>7, <3>1, <3>2 DEF Owners
  <2> QED BY <2>1, <2>2
<1>10. Previous'
  <2>1. \A v \in Objects : owns'[v] => v < i + 1 /\ block'[v] <= numBlocks - 1 /\ end[v] <= end[i]
    <3> TAKE v \in Objects
    <3> HAVE owns'[v]
    <3>1. CASE v = i
      BY <1>4, <1>7, <1>8, <3>1
    <3>2. CASE v # i
      <4>1. owns[v] /\ block'[v] = block[v] /\ block[v] \in Nat /\ v \in Int
        BY <1>8, <1>o, <3>2 DEF Inv, Typed, Objects
      <4> QED BY <1>4, <1>7, <1>o, <4>1
    <3> QED BY <3>1, <3>2
  <2>2. i < i + 1
    BY <1>4
  <2> QED BY <1>1, <1>2, <1>3, <1>4, <1>8, <2>1, <2>2 DEF Previous, HasCode
<1>11. Settled'
  <2>0. PICK k \in Objects : k = i
    BY <1>1
  <2> SUFFICES ASSUME NEW o \in Objects, o < i + 1, HasCode(o)
               PROVE  \E w \in Objects : InReachOf(o, w)'
    BY <1>3 DEF Settled, HasCode
  <2>1. CASE o < pending
    <3>1. o < i /\ o # i /\ o # pending
      BY <1>4, <1>7, <2>1 DEF Waiting, Objects
    <3>2. PICK w \in Objects : InReachOf(o, w)
      BY <1>7, <2>1, <3>1 DEF Settled
    <3>3. w # i /\ w # pending
      BY <1>8, <1>o, <3>2 DEF InReachOf
    <3>4. InReachOf(o, w)'
      BY <1>3, <1>8, <3>1, <3>2, <3>3 DEF InReachOf, HasCode
    <3> QED BY <3>4
  <2>2. CASE o = i
    <3>1. InReachOf(k, k)'
      BY <1>1, <1>3, <1>4, <1>8, <2>0, RFacts DEF InReachOf, HasCode
    <3> QED BY <2>0, <2>2, <3>1
  <2>3. CASE pending <= o /\ o < i
    <3>1. block'[o] = numBlocks - 1
      BY <1>4, <1>7, <1>8, <2>3 DEF Waiting, Objects
    <3>2. end[o] <= start[i] /\ start[pending] <= start[o]
      <4>1. end[o] <= start[i]
        BY <1>1, <2>3, AssignFacts
      <4>2. o = pending \/ pending < o
        BY <1>7, <2>3 DEF Objects
      <4>3. pending < o => end[pending] <= start[o]
        BY <1>1, <1>7, AssignFacts
      <4>4. /\ end[pending] = start[pending] + size[pending] /\ size[pending] \in Nat
            /\ start[pending] \in Nat /\ start[o] \in Nat
        BY <1>1, <1>7, AssignFacts
      <4> QED BY <4>1, <4>2, <4>3, <4>4
    <3>3. start[i] - start[pending] < R
      <4>1. i - 1 \in Objects /\ i > 1 /\ pending <= i - 1 /\ i - 1 < i
        BY <1>1, <1>4, <1>7, NFacts DEF Waiting, Objects
      <4>2. end[i - 1] = start[i]
        BY <1>1, <4>1, AssignFacts
      <4>3. end[i - 1] - start[pending] < R
        BY <1>7, <4>1 DEF Waiting
      <4> QED BY <4>2, <4>3
    <3>4. end[i] = start[i] + size[i] /\ end[o] \in Nat /\ start[o] \in Nat /\ start[pending] \in Nat
      BY <1>1, <1>7, AssignFacts
    <3>5. end[o] - end[i] < R /\ end[i] - start[o] < R + size[i]
      BY <1>4, <3>2, <3>3, <3>4, RFacts
    <3>6. InReachOf(o, k)'
      BY <1>3, <1>4, <1>8, <2>0, <3>1, <3>5 DEF InReachOf, HasCode
    <3> QED BY <3>6
  <2>4. o < pending \/ o = i \/ (pending <= o /\ o < i)
    BY <1>4, <1>6, <1>7 DEF Objects
  <2> QED BY <2>1, <2>2, <2>3, <2>4
<1>12. numBlocks' = prevBlock' + 1
  BY <1>2, <1>7
<1> QED BY <1>2, <1>3, <1>5, <1>7, <1>9, <1>10, <1>11, <1>12 DEF Inv, Placing

\* The loop is over; a block that is still pending is given to its first object.
LEMMA FinishInv == Inv /\ FinishAssign => Inv'
<1> SUFFICES ASSUME Inv, FinishAssign PROVE Inv'
  OBVIOUS
<1>1. pc = "assign" /\ i = N + 1 /\ pc' = "refs" /\ i' = 1
  BY DEF FinishAssign
<1>2. /\ size' = size /\ start' = start /\ end' = end /\ enabled' = enabled
      /\ numBlocks' = numBlocks /\ prevBlock' = prevBlock /\ prevPos' = prevPos
      /\ pending' = pending
  BY DEF FinishAssign, inputs
<1>3. Ranges'
  BY <1>1, <1>2 DEF Inv, Ranges, Contiguous, Increasing
<1>4. \A o \in Objects : o < i
  BY <1>1, NFacts DEF Objects
<1>a. i' \in 1..(N + 1)
  BY <1>1, NFacts
<1>5. CASE pending = 0
  <2>1. block' = block /\ owns' = owns
    BY <1>5 DEF FinishAssign
  <2>2. Typed' /\ TypedOwns'
    BY <1>1, <1>2, <1>a, <2>1 DEF Inv, Typed, TypedOwns
  <2>3. CASE numBlocks = 0
    <3>1. \A o \in Objects : ~HasCode(o) /\ ~owns[o]
      BY <1>1, <1>4, <2>3 DEF Inv, Placing, NothingPlaced, HasCode
    <3>2. Placed'
      BY <1>2, <2>1, <3>1 DEF Placed, Owners, HasCode
    <3> QED BY <1>1, <1>3, <2>2, <3>2 DEF Inv, Placing
  <2>4. CASE numBlocks > 0
    <3>1. Owners /\ Settled
      BY <1>1, <2>4 DEF Inv, Placing
    <3>2. Placed'
      BY <1>2, <1>4, <1>5, <2>1, <3>1 DEF Placed, Owners, Settled, HasCode, InReachOf
    <3> QED BY <1>1, <1>3, <2>2, <3>2 DEF Inv, Placing
  <2> QED BY <2>3, <2>4 DEF Inv, Typed
<1>6. CASE pending # 0
  <2>1. /\ block' = [block EXCEPT ![pending] = numBlocks - 1]
        /\ owns' = [owns EXCEPT ![pending] = TRUE]
    BY <1>6 DEF FinishAssign, NextId
  <2>2. /\ numBlocks > 0 /\ numBlocks \in Nat /\ pending \in Objects /\ prevBlock \in Nat
        /\ Owners /\ Previous /\ Settled /\ Waiting /\ numBlocks = prevBlock + 2
        /\ prevPos \in Nat
    BY <1>1, <1>6 DEF Inv, Typed, Placing, NothingPlaced, Objects
  <2>3. Typed' /\ TypedOwns'
    <3>1. block' \in [Objects -> Nat]
      BY <2>1, <2>2 DEF Inv, Typed
    <3>2. owns' \in [Objects -> BOOLEAN]
      BY <2>1, <2>2 DEF Inv, TypedOwns
    <3> QED BY <1>1, <1>2, <1>a, <3>1, <3>2 DEF Inv, Typed, TypedOwns
  <2>4. /\ \A o \in Objects : o # pending => (owns'[o] <=> owns[o]) /\ block'[o] = block[o]
        /\ block'[pending] = numBlocks - 1 /\ owns'[pending] /\ ~owns[pending]
    BY <2>1, <2>2 DEF Inv, Typed, TypedOwns, Waiting
  <2>5. \A v \in Objects : owns[v] =>
          v < pending /\ block[v] < numBlocks - 1 /\ end[pending] - end[v] >= R
    <3> TAKE v \in Objects
    <3> HAVE owns[v]
    <3>1. block[v] <= prevBlock /\ end[v] <= prevPos /\ block[v] \in Nat /\ end[v] \in Nat
      BY <1>1, <2>2, AssignFacts DEF Previous, Inv, Typed
    <3>2. v < pending
      BY <1>4, <2>2 DEF Waiting, Objects
    <3>3. end[pending] \in Nat /\ end[pending] - prevPos >= R
      BY <1>1, <2>2, AssignFacts DEF Waiting
    <3> QED BY <2>2, <3>1, <3>2, <3>3, RFacts
  <2>6. Owners'
    <3> SUFFICES ASSUME NEW v \in Objects, NEW w \in Objects, owns'[v], owns'[w], v < w
                 PROVE  block'[v] # block'[w] /\ end[w] - end[v] >= R
      BY <1>2 DEF Owners
    <3>1. v # pending /\ owns[v] /\ block'[v] = block[v]
      BY <2>2, <2>4, <2>5 DEF Objects
    <3>2. CASE w = pending
      BY <2>2, <2>4, <2>5, <3>1, <3>2 DEF Inv, Typed
    <3>3. CASE w # pending
      BY <2>2, <2>4, <3>1, <3>3 DEF Owners
    <3> QED BY <3>2, <3>3
  <2>7. ASSUME NEW o \in Objects, HasCode(o)
        PROVE  \E w \in Objects : InReachOf(o, w)'
    <3>0. PICK k \in Objects : k = pending
      BY <2>2
    <3>1. CASE o < pending
      <4>1. PICK w \in Objects : InReachOf(o, w)
        BY <1>4, <2>2, <2>7, <3>1 DEF Settled
      <4>2. o # pending /\ w # pending
        BY <2>2, <2>4, <3>1, <4>1 DEF InReachOf, Objects
      <4> QED BY <1>2, <2>4, <4>1, <4>2 DEF InReachOf, HasCode
    <3>2. CASE o = pending
      <4>1. end[k] \in Nat
        BY <1>1, AssignFacts
      <4>2. InReachOf(k, k)'
        BY <1>2, <2>2, <2>4, <3>0, <4>1, RFacts DEF InReachOf, HasCode, Waiting
      <4> QED BY <3>0, <3>2, <4>2
    <3>3. CASE pending < o
      <4>1. block'[o] = numBlocks - 1 /\ o # pending
        BY <1>4, <2>2, <2>4, <2>7, <3>3 DEF Waiting, Objects
      <4>2. end[o] - start[pending] < R
        BY <1>4, <2>2, <3>3 DEF Waiting, Objects
      <4>3. /\ end[pending] <= start[o] /\ end[pending] = start[pending] + size[pending]
            /\ end[o] \in Nat /\ start[o] \in Nat /\ size[pending] \in Nat
            /\ start[pending] \in Nat
        BY <1>1, <2>2, <3>3, AssignFacts
      <4>4. end[o] - end[pending] < R /\ end[pending] - start[o] < R + size[pending]
        BY <4>2, <4>3, RFacts
      <4>5. InReachOf(o, k)'
        BY <1>2, <2>2, <2>4, <3>0, <4>1, <4>4 DEF InReachOf, HasCode, Waiting
      <4> QED BY <4>5
    <3> QED BY <2>2, <3>1, <3>2, <3>3 DEF Objects
  <2>8. Placed'
    BY <1>2, <2>6, <2>7 DEF Placed, HasCode
  <2> QED BY <1>1, <1>3, <2>3, <2>8 DEF Inv, Placing
<1> QED BY <1>5, <1>6

\* The later phases change nothing that the blocks depend on.
LEMMA LaterInv == Inv /\ (ProcessRefs \/ LayoutObject \/ WriteBranches \/ Done) => Inv'
<1> SUFFICES ASSUME Inv, ProcessRefs \/ LayoutObject \/ WriteBranches \/ Done PROVE Inv'
  OBVIOUS
<1>1. /\ size' = size /\ start' = start /\ end' = end /\ enabled' = enabled
      /\ numBlocks' = numBlocks /\ prevBlock' = prevBlock /\ prevPos' = prevPos
      /\ pending' = pending /\ block' = block /\ owns' = owns
  BY DEF ProcessRefs, LayoutObject, WriteBranches, Done, vars, inputs, placing
<1>2. pc \in {"refs", "layout", "write", "done", "error"}
  BY DEF ProcessRefs, LayoutObject, WriteBranches, Done
<1>3. pc' \in {"layout", "write", "done", "error"}
  BY DEF ProcessRefs, LayoutObject, WriteBranches, Done, vars
<1>4. i' \in 1..(N + 1)
  <2>1. CASE LayoutObject
    <3>1. i' = 1 \/ (i < N /\ i' = i + 1)
      BY <2>1 DEF LayoutObject
    <3> QED BY <3>1, NFacts DEF Inv, Typed
  <2>2. CASE ProcessRefs \/ WriteBranches \/ Done
    BY <2>2 DEF ProcessRefs, WriteBranches, Done, vars, Inv, Typed
  <2> QED BY <2>1, <2>2
<1>5. Typed' /\ TypedOwns'
  BY <1>1, <1>2, <1>3, <1>4 DEF Inv, Typed, TypedOwns
<1>6. Ranges'
  BY <1>1, <1>2, <1>3 DEF Inv, Ranges, Contiguous, Increasing
<1>7. Placing'
  BY <1>3 DEF Placing
<1>8. Placed'
  BY <1>1, <1>2, <1>3 DEF Inv, Placed, Assigned, Owners, HasCode, InReachOf
<1> QED BY <1>5, <1>6, <1>7, <1>8 DEF Inv

LEMMA StutterInv == Inv /\ UNCHANGED vars => Inv'
BY DEF vars, Inv, Typed, TypedOwns, Ranges, Placing, Placed, Contiguous, Increasing,
       NothingPlaced, Owners, Previous, Settled, Waiting, Assigned, HasCode, InReachOf

LEMMA StepInv == Inv /\ [Next]_vars => Inv'
BY BeforeInv, CollectInv, SkipInv, FirstInv, PreviousInv, StartInv, NextInv, PlaceInv,
   FinishInv, LaterInv, StutterInv DEF Next, AssignStep

LEMMA InvImplies == Inv => BlockInReach /\ BlocksApart
<1> SUFFICES ASSUME Inv, Assigned PROVE BlockInReach /\ BlocksApart
  BY DEF BlockInReach, BlocksApart
<1>1. Owners /\ \A o \in Objects : HasCode(o) => \E w \in Objects : InReachOf(o, w)
  BY DEF Inv, Placed
<1>2. BlocksApart
  BY <1>1 DEF BlocksApart, Owners, R
<1>3. \A v, w \in Objects : owns[v] /\ owns[w] /\ block[v] = block[w] => v = w
  <2>1. \A v, w \in Objects : v < w \/ w < v \/ v = w
    BY DEF Objects
  <2> QED BY <1>1, <2>1 DEF Owners
<1>4. BlockInReach
  BY <1>1, <1>3 DEF BlockInReach, InReachOf, R
<1> QED BY <1>2, <1>4

\* assign_thunk_blocks: whatever the number of objects and their sizes, each
\* object with code ends up with one block that has one owner, and the block is
\* within a branch range of it (in front of the block: plus the owner's code).
THEOREM BlocksAreInReach == Spec => []BlockInReach
<1>1. Spec => []Inv
  BY InitInv, StepInv, PTL DEF Spec
<1>2. Inv => BlockInReach
  BY InvImplies
<1> QED BY <1>1, <1>2, PTL

\* assign_thunk_blocks: two blocks are never closer than a branch range.
THEOREM BlocksAreApart == Spec => []BlocksApart
<1>1. Spec => []Inv
  BY InitInv, StepInv, PTL DEF Spec
<1>2. Inv => BlocksApart
  BY InvImplies
<1> QED BY <1>1, <1>2, PTL


-----------------------------------------------------------------------------
(* The layout.  What the blocks are good for: between a branch and a target *)
(* that was shown to be in range, or a branch and its block, there are the  *)
(* thunks of one block at most.                                             *)

NoOwners(o, p) == \A v \in Objects : o <= v /\ v < p => ~owns[v]

\* The first object with code owns ThunkBlockId::FIRST, and follows the
\* non-primary code.
FirstPlaced ==
  \E w \in Objects : /\ owns[w] /\ block[w] = FIRST /\ HasCode(w) /\ start[w] = Low
                     /\ NoOwners(1, w)

\* No block lies between an object and the later one that owns its block.
NextBlock(o) ==
  \A w \in Objects : owns[w] /\ block[w] = block[o] /\ o < w => NoOwners(o, w)

Blocks ==
  /\ prevBlock < N /\ block \in [Objects -> BlockIds]
  /\ ~enabled => \A o \in Objects : ~owns[o]
  /\ pc = "ranges" => IF i = 1 THEN pos = Low ELSE start[1] = Low
  /\ pc = "assign" =>
       /\ pos = Low /\ start[1] = Low
       /\ numBlocks < i
       /\ numBlocks = 0 /\ i \in Objects => start[i] = Low
       /\ numBlocks > 0 =>
            /\ FirstPlaced
            /\ \A o \in Objects : o < i /\ HasCode(o) /\ (pending = 0 \/ o < pending) => NextBlock(o)
  /\ pc = "refs" => pos = Low
  /\ Assigned =>
       /\ start[1] = Low
       /\ \A o \in Objects : HasCode(o) => FirstPlaced /\ NextBlock(o)

BranchedTo == {r[2] : r \in refs}

\* Thunks were requested for every branch that may need one.
Requested ==
  /\ refs \in RefChoices /\ size \in [Objects -> Sizes]
  /\ \A s \in Symbols : Home[s] # 0 => size[Home[s]] > 0
  /\ symbols \in [BlockIds -> SUBSET BranchedTo]
  /\ pc = "refs" => enabled
  /\ (enabled /\ pc \notin {"new", "scan"}) =>
       /\ flagged = {r \in Branches : r[1] # 0}
       /\ lowRefs = {r[2] : r \in {b \in Branches : b[1] = 0 /\ Home[b[2]] # 0}}
  /\ (enabled /\ pc \in {"layout", "write", "done", "error"}) =>
       \A r \in Branches :
         IF r[1] = 0 THEN Home[r[2]] # 0 => r[2] \in symbols[FIRST]
         ELSE ProvablyInRange(r[1], r[2]) \/ r[2] \in symbols[block[r[1]]]

\* The objects before k have their addresses: code, then thunks.
After(o) == base[o] + size[o] + ThunkBytes(o)

Laid(k) ==
  /\ pos \in Nat
  /\ IF k = 1 THEN pos = Low ELSE pos = After(k - 1) /\ base[1] = Low
  /\ \A o \in Objects : o < k => base[o] \in Nat /\ Low <= base[o] /\ After(o) <= pos
  /\ \A o \in Objects : o > 1 /\ o < k => base[o] = After(o - 1)
  /\ \A o, p \in Objects : o < p /\ p < k => After(o) <= base[p]
  /\ ~enabled => pos = Low + BytesUpTo(k - 1)
  /\ enabled =>
       /\ \A o, p \in Objects : o <= p /\ p < k /\ NoOwners(o, p) => base[p] - base[o] = start[p] - start[o]
       /\ \A v \in Objects : v < k /\ owns[v] => thunks[block[v]] = base[v] + size[v]

Layout ==
  /\ base \in [Objects -> Int] /\ thunks \in [BlockIds -> Int]
  /\ pc = "refs" => i = 1
  /\ pc # "new" /\ ~enabled => ExecutableBytes < MinBranchRange
  /\ pc = "layout" => i \in Objects /\ Laid(i)
  /\ pc \in {"write", "done", "error"} => Laid(N + 1)

-----------------------------------------------------------------------------

LEMMA BlockIdFacts == FIRST = 0 /\ FIRST \in BlockIds /\ \A b \in Nat : b < N => b \in BlockIds
  BY NFacts DEF FIRST, BlockIds

LEMMA BlocksInit == Init => Blocks
<1> SUFFICES ASSUME Init PROVE Blocks
  OBVIOUS
<1>1. block \in [Objects -> BlockIds] /\ prevBlock < N
  BY BlockIdFacts, NFacts DEF Init
<1>2. pc = "new" /\ \A o \in Objects : ~owns[o]
  BY DEF Init
<1> QED BY <1>1, <1>2 DEF Blocks, Assigned

LEMMA BlocksEarly == Inv /\ Blocks /\ (NewBuilder \/ ScanRelocations \/ CollectRange) => Blocks'
<1> SUFFICES ASSUME Inv, Blocks, NewBuilder \/ ScanRelocations \/ CollectRange PROVE Blocks'
  OBVIOUS
<1>1. pc \in {"new", "scan", "ranges"} /\ UNCHANGED <<block, owns, prevBlock, numBlocks, size>>
  BY DEF NewBuilder, ScanRelocations, CollectRange, placing, inputs
<1>2. NothingPlaced
  BY <1>1 DEF Inv, Placing
<1>3. \A o \in Objects : ~owns'[o]
  BY <1>1, <1>2 DEF NothingPlaced
<1>4. CASE NewBuilder
  BY <1>1, <1>3, <1>4 DEF NewBuilder, Blocks, Assigned
<1>5. CASE ScanRelocations
  <2>1. CASE enabled
    BY <1>1, <1>3, <1>5, <2>1 DEF ScanRelocations, Blocks, Assigned, Inv, Typed, inputs
  <2>2. CASE ~enabled
    BY <1>1, <1>3, <1>5, <2>2 DEF ScanRelocations, Blocks, Assigned, Inv, Typed, inputs
  <2> QED BY <2>1, <2>2
<1>6. CASE CollectRange
  <2>1. /\ pc = "ranges" /\ i \in Objects /\ start \in [Objects -> Nat] /\ 1 \in Objects
        /\ start' = [start EXCEPT ![i] = pos]
        /\ \/ i < N /\ pc' = "ranges" /\ i' = i + 1
           \/ ~(i < N) /\ pc' = "assign" /\ i' = 1 /\ pos' = Low
    <3>1. pc = "ranges" /\ i \in Objects /\ start \in [Objects -> Nat]
      BY <1>6 DEF CollectRange, Inv, Typed
    <3>2. 1 \in Objects
      BY NFacts DEF Objects
    <3>3. /\ start' = [start EXCEPT ![i] = pos]
          /\ \/ i < N /\ pc' = "ranges" /\ i' = i + 1
             \/ ~(i < N) /\ pc' = "assign" /\ i' = 1 /\ pos' = Low
      BY <1>6, Zenon DEF CollectRange
    <3> QED BY <3>1, <3>2, <3>3
  <2>2. start'[1] = Low
    <3>1. CASE i = 1
      BY <2>1, <3>1 DEF Blocks
    <3>2. CASE i # 1
      BY <2>1, <3>2 DEF Blocks
    <3> QED BY <3>1, <3>2
  <2>3. numBlocks' = 0 /\ ~Assigned'
    BY <1>1, <1>2, <2>1 DEF NothingPlaced, Assigned
  <2>4. CASE i < N /\ pc' = "ranges" /\ i' = i + 1
    <3>1. i' # 1
      BY <2>1, <2>4, NFacts DEF Objects
    <3> QED BY <1>1, <1>3, <2>2, <2>3, <2>4, <3>1 DEF Blocks
  <2>5. CASE pc' = "assign" /\ i' = 1 /\ pos' = Low
    BY <1>1, <1>3, <2>2, <2>3, <2>5 DEF Blocks
  <2> QED BY <2>1, <2>4, <2>5
<1> QED BY <1>4, <1>5, <1>6

LEMMA SameOwners ==
  ASSUME size' = size, start' = start, \A w \in Objects : owns'[w] <=> owns[w],
         \A w \in Objects : owns[w] => block'[w] = block[w]
  PROVE  /\ FirstPlaced => FirstPlaced'
         /\ \A o \in Objects : block'[o] = block[o] /\ NextBlock(o) => NextBlock(o)'
<1>1. \A o, p : NoOwners(o, p)' <=> NoOwners(o, p)
  BY DEF NoOwners
<1>2. FirstPlaced => FirstPlaced'
  BY <1>1 DEF FirstPlaced, HasCode
<1> QED BY <1>1, <1>2 DEF NextBlock

\* A block is placed behind all others.
LEMMA NewOwner ==
  ASSUME size' = size, start' = start, NEW x \in Objects, owns'[x],
         \A w \in Objects : w # x => (owns'[w] <=> owns[w]),
         \A w \in Objects : owns[w] => w < x /\ block'[w] = block[w]
  PROVE  /\ FirstPlaced => FirstPlaced'
         /\ \A o \in Objects : block'[o] = block[o] /\ block[o] # block'[x] /\ NextBlock(o) => NextBlock(o)'
<1>1. \A o, p \in Objects : p <= x /\ NoOwners(o, p) => NoOwners(o, p)'
  <2> SUFFICES ASSUME NEW o \in Objects, NEW p \in Objects, p <= x, NoOwners(o, p),
                      NEW v \in Objects, o <= v, v < p
               PROVE  ~owns'[v]
    BY DEF NoOwners
  <2>1. v # x
    BY NFacts DEF Objects
  <2> QED BY <2>1 DEF NoOwners
<1>2. 1 \in Objects /\ \A w \in Objects : w < x => w <= x /\ w # x
  BY NFacts DEF Objects
<1>3. FirstPlaced => FirstPlaced'
  <2> SUFFICES ASSUME FirstPlaced PROVE FirstPlaced'
    OBVIOUS
  <2>1. PICK w \in Objects : /\ owns[w] /\ block[w] = FIRST /\ HasCode(w) /\ start[w] = Low
                             /\ NoOwners(1, w)
    BY DEF FirstPlaced
  <2>2. w < x /\ block'[w] = block[w] /\ w <= x /\ w # x
    BY <1>2, <2>1
  <2>3. NoOwners(1, w)' /\ owns'[w]
    BY <1>1, <1>2, <2>1, <2>2
  <2> QED BY <2>1, <2>2, <2>3 DEF FirstPlaced, HasCode
<1>4. ASSUME NEW o \in Objects, block'[o] = block[o], block[o] # block'[x], NextBlock(o)
      PROVE  NextBlock(o)'
  <2> SUFFICES ASSUME NEW w \in Objects, owns'[w], block'[w] = block'[o], o < w
               PROVE  NoOwners(o, w)'
    BY DEF NextBlock
  <2>1. w # x
    BY <1>4
  <2>2. owns[w] /\ block[w] = block[o] /\ w <= x
    BY <1>2, <1>4, <2>1
  <2> QED BY <1>1, <1>4, <2>2 DEF NextBlock
<1> QED BY <1>3, <1>4

LEMMA BlocksSkip == Inv /\ Blocks /\ SkipEmpty => Blocks'
<1> SUFFICES ASSUME Inv, Blocks, SkipEmpty PROVE Blocks'
  OBVIOUS
<1>1. /\ pc = "assign" /\ i \in Objects /\ NextObject /\ end[i] = start[i]
      /\ numBlocks' = numBlocks /\ prevBlock' = prevBlock /\ pending' = pending
      /\ block' = block /\ owns' = owns /\ pos' = pos
  BY DEF SkipEmpty, placing, NextObject
<1>2. /\ i' = i + 1 /\ pc' = "assign" /\ i \in Nat
      /\ size' = size /\ start' = start /\ enabled' = enabled
  BY <1>1, LoopKeeps, NFacts DEF Objects
<1>3. size[i] = 0
  BY <1>1, AssignFacts
<1>4. \A o \in Objects : o < i + 1 => o < i \/ o = i
  BY <1>2 DEF Objects
<1>5. numBlocks = 0 /\ i + 1 \in Objects => start[i + 1] = Low
  <2> SUFFICES ASSUME numBlocks = 0, i + 1 \in Objects PROVE start[i + 1] = Low
    OBVIOUS
  <2>1. i + 1 > 1 /\ (i + 1) - 1 = i
    BY <1>1, NFacts DEF Objects
  <2>2. start[i + 1] = end[i]
    BY <1>1, <2>1, AssignFacts
  <2> QED BY <1>1, <2>2 DEF Blocks
<1>6. FirstPlaced => FirstPlaced'
  BY <1>1, <1>2, SameOwners
<1>7. \A o \in Objects : NextBlock(o) => NextBlock(o)'
  BY <1>1, <1>2, SameOwners
<1>8. numBlocks' < i'
  BY <1>1, <1>2 DEF Blocks, Inv, Typed
<1>9. \A o \in Objects : o < i' /\ HasCode(o)' => o < i /\ HasCode(o)
  BY <1>2, <1>3, <1>4 DEF HasCode
<1>10. ~Assigned'
  BY <1>2 DEF Assigned
<1> QED BY <1>1, <1>2, <1>5, <1>6, <1>7, <1>8, <1>9, <1>10 DEF Blocks

LEMMA BlocksFirst == Inv /\ Blocks /\ AssignFirst => Blocks'
<1> SUFFICES ASSUME Inv, Blocks, AssignFirst PROVE Blocks'
  OBVIOUS
<1>1. pc = "assign" /\ i \in Objects /\ NextObject /\ end[i] > start[i] /\ numBlocks = 0 /\ pos' = pos
  BY DEF AssignFirst, Assigning, NextObject
<1>2. /\ numBlocks' = 1 /\ prevBlock' = 0 /\ pending' = pending
      /\ block' = [block EXCEPT ![i] = FIRST] /\ owns' = [owns EXCEPT ![i] = TRUE]
  BY DEF AssignFirst, FIRST
<1>3. /\ i' = i + 1 /\ pc' = "assign" /\ i \in Nat /\ i >= 1
      /\ size' = size /\ start' = start /\ end' = end /\ enabled' = enabled
  BY <1>1, LoopKeeps, NFacts DEF Objects
<1>4. HasCode(i) /\ \A o \in Objects : o < i => ~HasCode(o)
  <2>1. size[i] > 0
    BY <1>1, AssignFacts
  <2>2. \A o \in Objects : o < i => size[o] = 0
    BY <1>1 DEF Inv, Placing
  <2> QED BY <2>1, <2>2 DEF HasCode
<1>5. /\ owns'[i] /\ \A o \in Objects : o # i => ~owns'[o]
  BY <1>1, <1>2 DEF Inv, Placing, NothingPlaced, TypedOwns
<1>6. block' \in [Objects -> BlockIds] /\ block'[i] = FIRST /\ prevBlock' < N
  BY <1>1, <1>2, BlockIdFacts, NFacts DEF Blocks
<1>7. \A o, p \in Objects : p <= i => NoOwners(o, p)'
  <2>1. \A v, p \in Objects : v < p /\ p <= i => v # i
    BY <1>3 DEF Objects
  <2> QED BY <1>5, <2>1 DEF NoOwners
<1>8. FirstPlaced'
  <2>1. 1 \in Objects /\ i <= i /\ start[i] = Low
    BY <1>1, <1>3, NFacts DEF Objects, Blocks
  <2> QED BY <1>1, <1>3, <1>4, <1>5, <1>6, <1>7, <2>1 DEF FirstPlaced, HasCode
<1>9. ASSUME NEW o \in Objects PROVE NextBlock(o)'
  <2> SUFFICES ASSUME NEW w \in Objects, owns'[w], o < w PROVE NoOwners(o, w)'
    BY DEF NextBlock
  <2>1. w = i /\ w <= i
    BY <1>3, <1>5
  <2> QED BY <1>7, <2>1
<1>10. enabled' /\ ~Assigned' /\ pos' = Low /\ start'[1] = Low /\ numBlocks' < i' /\ numBlocks' # 0
  BY <1>1, <1>2, <1>3 DEF Assigned, Blocks, Inv, Ranges
<1> QED BY <1>3, <1>6, <1>8, <1>9, <1>10 DEF Blocks

LEMMA LoopFacts ==
  ASSUME Inv, Blocks, pc = "assign", numBlocks > 0
  PROVE  /\ \A w \in Objects : owns[w] => w < i /\ block[w] <= prevBlock
         /\ \A o \in Objects : o < i /\ HasCode(o) /\ (pending = 0 \/ o < pending) =>
              block[o] <= prevBlock /\ NextBlock(o)
         /\ numBlocks = prevBlock + (IF pending = 0 THEN 1 ELSE 2)
         /\ FirstPlaced /\ enabled /\ pos = Low /\ start[1] = Low
         /\ numBlocks \in Nat /\ prevBlock \in Nat /\ numBlocks < i /\ i \in 1..(N + 1)
         /\ block \in [Objects -> BlockIds] /\ \A o \in Objects : block[o] \in Nat
         /\ pending # 0 =>
              /\ pending \in Objects /\ pending < i
              /\ \A o \in Objects : pending <= o /\ o < i => ~owns[o]
              /\ \A o \in Objects : pending < o /\ o < i /\ HasCode(o) => block[o] = numBlocks - 1
<1>1. Owners /\ Previous /\ Settled /\ (pending # 0 => Waiting)
      /\ numBlocks = prevBlock + (IF pending = 0 THEN 1 ELSE 2)
  BY DEF Inv, Placing
<1>2. \A w \in Objects : owns[w] => w < i /\ block[w] <= prevBlock
  BY <1>1 DEF Previous
<1>3. \A o \in Objects : o < i /\ HasCode(o) /\ (pending = 0 \/ o < pending) => block[o] <= prevBlock
  BY <1>1, <1>2 DEF Settled, InReachOf
<1>4. pending # 0 =>
        /\ pending \in Objects /\ pending < i
        /\ \A o \in Objects : pending <= o /\ o < i => ~owns[o]
        /\ \A o \in Objects : pending < o /\ o < i /\ HasCode(o) => block[o] = numBlocks - 1
  BY <1>1 DEF Waiting, Inv, Typed, Objects
<1>5. enabled /\ numBlocks \in Nat /\ prevBlock \in Nat /\ i \in 1..(N + 1)
      /\ \A o \in Objects : block[o] \in Nat
  BY DEF Inv, Ranges, Typed
<1>6. /\ FirstPlaced /\ pos = Low /\ start[1] = Low /\ numBlocks < i /\ block \in [Objects -> BlockIds]
      /\ \A o \in Objects : o < i /\ HasCode(o) /\ (pending = 0 \/ o < pending) => NextBlock(o)
  BY DEF Blocks
<1> QED BY <1>1, <1>2, <1>3, <1>4, <1>5, <1>6

\* The blocks of objects that have got one when no block is placed in this step.
LEMMA BlocksUnplaced ==
  ASSUME Inv, Blocks, AssignPrevious \/ StartNext \/ AssignNext
  PROVE  Blocks'
<1>1. pc = "assign" /\ i \in Objects /\ NextObject /\ pos' = pos /\ numBlocks > 0
  <2>1. pc = "assign" /\ i \in Objects /\ NextObject /\ pos' = pos /\ (numBlocks > 0 \/ pending # 0)
    BY DEF AssignPrevious, StartNext, AssignNext, Assigning, NextObject
  <2>2. numBlocks \in Nat /\ (numBlocks = 0 => pending = 0)
    BY <2>1 DEF Inv, Typed, Placing, NothingPlaced
  <2> QED BY <2>1, <2>2
<1>2. /\ i' = i + 1 /\ pc' = "assign" /\ i \in Nat /\ size' = size /\ start' = start /\ enabled' = enabled
  BY <1>1, LoopKeeps, NFacts DEF Objects
<1>3. /\ \A w \in Objects : owns[w] => w < i /\ block[w] <= prevBlock
      /\ FirstPlaced /\ enabled /\ pos = Low /\ start[1] = Low
      /\ numBlocks \in Nat /\ prevBlock \in Nat /\ numBlocks < i /\ i \in 1..(N + 1)
      /\ block \in [Objects -> BlockIds] /\ prevBlock < N
      /\ numBlocks = prevBlock + (IF pending = 0 THEN 1 ELSE 2)
      /\ pending # 0 => pending \in Objects /\ pending < i
  BY <1>1, LoopFacts DEF Blocks
<1>4. /\ owns' = owns \/ owns' = [owns EXCEPT ![i] = FALSE]
      /\ block' = block \/ \E b \in BlockIds : block' = [block EXCEPT ![i] = b]
      /\ prevBlock' = prevBlock
      /\ \/ numBlocks' = numBlocks /\ pending' = pending
            /\ (pending = 0 => AssignPrevious)
         \/ pending = 0 /\ numBlocks' = numBlocks + 1 /\ pending' = i
  <2>1. CASE AssignPrevious
    <3>1. prevBlock \in BlockIds
      BY <1>3, BlockIdFacts
    <3> QED BY <2>1, <3>1 DEF AssignPrevious
  <2>2. CASE StartNext
    BY <2>2 DEF StartNext
  <2>3. CASE AssignNext
    <3>1. pending # 0 /\ numBlocks - 1 \in Nat /\ numBlocks - 1 < N
      BY <1>1, <1>3, <2>3, NFacts DEF AssignNext, Objects
    <3>2. numBlocks - 1 \in BlockIds
      BY <3>1, BlockIdFacts
    <3> QED BY <2>3, <3>1, <3>2 DEF AssignNext, NextId
  <2> QED BY <2>1, <2>2, <2>3
<1>5. ~owns[i] /\ \A w \in Objects : owns'[w] <=> owns[w]
  BY <1>1, <1>2, <1>3, <1>4 DEF Inv, TypedOwns
<1>6. /\ block' \in [Objects -> BlockIds] /\ \A o \in Objects : o # i => block'[o] = block[o]
  BY <1>1, <1>3, <1>4
<1>7. FirstPlaced' /\ \A o \in Objects : o # i /\ NextBlock(o) => NextBlock(o)'
  BY <1>2, <1>3, <1>5, <1>6, SameOwners
<1>8. \A o \in Objects : o = i => NextBlock(o)'
  BY <1>2, <1>3, <1>5 DEF NextBlock, Objects
<1>9. ASSUME NEW o \in Objects, o < i', HasCode(o)', pending' = 0 \/ o < pending'
      PROVE  NextBlock(o)'
  <2>1. o = i \/ (o < i /\ o # i)
    BY <1>2, <1>9 DEF Objects
  <2>2. HasCode(o)
    BY <1>2, <1>9 DEF HasCode
  <2>3. o # i => (pending = 0 \/ o < pending)
    BY <1>4, <1>9
  <2>4. o # i => NextBlock(o)
    BY <1>1, <2>1, <2>2, <2>3, LoopFacts
  <2> QED BY <1>7, <1>8, <2>1, <2>4
<1>10. /\ enabled' /\ ~Assigned' /\ pos' = Low /\ start'[1] = Low /\ numBlocks' < i' /\ numBlocks' # 0
       /\ prevBlock' < N
  BY <1>1, <1>2, <1>3, <1>4 DEF Assigned
<1> QED BY <1>2, <1>6, <1>7, <1>9, <1>10 DEF Blocks

LEMMA BlocksPlace == Inv /\ Blocks /\ PlaceNext => Blocks'
<1> SUFFICES ASSUME Inv, Blocks, PlaceNext PROVE Blocks'
  OBVIOUS
<1>1. pc = "assign" /\ i \in Objects /\ NextObject /\ pos' = pos /\ pending # 0 /\ numBlocks > 0
  BY DEF PlaceNext, Assigning, NextObject, Inv, Placing, NothingPlaced, Typed
<1> DEFINE b == numBlocks - 1
<1>2. /\ numBlocks' = numBlocks /\ prevBlock' = b /\ pending' = 0
      /\ block' = [block EXCEPT ![pending] = b, ![i] = b]
      /\ owns' = [owns EXCEPT ![pending] = FALSE, ![i] = TRUE]
  BY DEF PlaceNext, NextId, BlockAfterPlacing
<1>3. /\ i' = i + 1 /\ pc' = "assign" /\ i \in Nat /\ size' = size /\ start' = start /\ enabled' = enabled
  BY <1>1, LoopKeeps, NFacts DEF Objects
<1>4. /\ \A w \in Objects : owns[w] => w < i /\ block[w] <= prevBlock
      /\ FirstPlaced /\ enabled /\ pos = Low /\ start[1] = Low
      /\ numBlocks \in Nat /\ prevBlock \in Nat /\ numBlocks < i /\ i \in 1..(N + 1)
      /\ block \in [Objects -> BlockIds] /\ (\A o \in Objects : block[o] \in Nat)
      /\ numBlocks = prevBlock + 2
      /\ pending \in Objects /\ pending < i
      /\ \A o \in Objects : pending <= o /\ o < i => ~owns[o]
      /\ \A o \in Objects : pending < o /\ o < i /\ HasCode(o) => block[o] = b
      /\ \A o \in Objects : o < i /\ HasCode(o) /\ o < pending => block[o] <= prevBlock /\ NextBlock(o)
  BY <1>1, LoopFacts
<1>5. b \in Nat /\ b < N /\ b \in BlockIds /\ b > prevBlock
  <2>1. b \in Nat /\ b < N /\ b > prevBlock
    BY <1>1, <1>4, NFacts DEF Objects
  <2> QED BY <2>1, BlockIdFacts
<1> HIDE DEF b
<1>6. /\ block' \in [Objects -> BlockIds] /\ block'[i] = b /\ block'[pending] = b
      /\ \A o \in Objects : o # i /\ o # pending => block'[o] = block[o]
  BY <1>1, <1>2, <1>4, <1>5
<1>7. ~owns[i] /\ ~owns[pending] /\ pending # i
  BY <1>1, <1>3, <1>4, NFacts DEF Objects
<1>8. owns'[i] /\ \A w \in Objects : w # i => (owns'[w] <=> owns[w])
  BY <1>1, <1>2, <1>4, <1>7 DEF Inv, TypedOwns
<1>9. \A w \in Objects : owns[w] => w < i /\ block'[w] = block[w]
  BY <1>4, <1>6, <1>7
<1>10. /\ FirstPlaced'
       /\ \A o \in Objects : block'[o] = block[o] /\ block[o] # b /\ NextBlock(o) => NextBlock(o)'
  BY <1>1, <1>3, <1>4, <1>6, <1>8, <1>9, NewOwner
<1>11. ASSUME NEW o \in Objects, o < i', HasCode(o)' PROVE NextBlock(o)'
  <2>1. HasCode(o) /\ o \in Nat /\ pending \in Nat
    BY <1>3, <1>4, <1>11 DEF HasCode, Objects
  <2>2. CASE o < pending
    <3>1. block[o] <= prevBlock /\ NextBlock(o) /\ o # i /\ o # pending
      BY <1>3, <1>4, <2>1, <2>2
    <3>2. block[o] # b
      BY <1>4, <1>5, <3>1
    <3> QED BY <1>6, <1>10, <3>1, <3>2
  <2>3. CASE pending <= o
    <3>1. block'[o] = b
      BY <1>3, <1>4, <1>6, <1>11, <2>1, <2>3
    <3> SUFFICES ASSUME NEW w \in Objects, owns'[w], block'[w] = b, o < w PROVE NoOwners(o, w)'
      BY <3>1 DEF NextBlock
    <3>2. w = i
      <4> SUFFICES ASSUME w # i PROVE FALSE
        OBVIOUS
      <4>1. owns[w] /\ block[w] = b /\ block[w] <= prevBlock
        BY <1>4, <1>8, <1>9
      <4> QED BY <1>4, <1>5, <4>1
    <3>3. ASSUME NEW v \in Objects, o <= v, v < i PROVE ~owns'[v]
      <4>1. pending <= v /\ v # i
        BY <1>3, <2>1, <2>3, <3>3 DEF Objects
      <4> QED BY <1>4, <1>8, <3>3, <4>1
    <3> QED BY <3>2, <3>3 DEF NoOwners
  <2> QED BY <2>1, <2>2, <2>3
<1>12. /\ enabled' /\ ~Assigned' /\ pos' = Low /\ start'[1] = Low /\ numBlocks' < i' /\ numBlocks' # 0
       /\ prevBlock' < N
  BY <1>1, <1>2, <1>3, <1>4, <1>5 DEF Assigned
<1> QED BY <1>3, <1>6, <1>10, <1>11, <1>12 DEF Blocks

\* A block that is still unplaced goes to the first object that uses it.
LEMMA BlocksFinish == Inv /\ Blocks /\ FinishAssign => Blocks'
<1> SUFFICES ASSUME Inv, Blocks, FinishAssign PROVE Blocks'
  OBVIOUS
<1>1. /\ pc = "assign" /\ i = N + 1 /\ pc' = "refs" /\ numBlocks' = numBlocks /\ prevBlock' = prevBlock
      /\ size' = size /\ start' = start /\ end' = end /\ enabled' = enabled /\ pos' = pos
      /\ pending' = pending
  BY DEF FinishAssign, inputs
<1>2. enabled /\ pos' = Low /\ start'[1] = Low /\ prevBlock' < N
  BY <1>1 DEF Inv, Ranges, Blocks
<1>3. \A o \in Objects : o < i
  BY <1>1, NFacts DEF Objects
<1>4. CASE numBlocks = 0
  <2>1. pending = 0 /\ \A o \in Objects : ~HasCode(o)
    BY <1>1, <1>3, <1>4 DEF Inv, Placing, NothingPlaced, HasCode
  <2>2. block' = block /\ owns' = owns
    BY <2>1 DEF FinishAssign
  <2> QED BY <1>1, <1>2, <2>1, <2>2 DEF Blocks, HasCode
<1>5. CASE numBlocks > 0
  <2>1. /\ \A w \in Objects : owns[w] => w < i /\ block[w] <= prevBlock
        /\ \A o \in Objects : HasCode(o) /\ (pending = 0 \/ o < pending) =>
             block[o] <= prevBlock /\ NextBlock(o)
        /\ numBlocks = prevBlock + (IF pending = 0 THEN 1 ELSE 2)
        /\ FirstPlaced
        /\ numBlocks \in Nat /\ prevBlock \in Nat /\ numBlocks < i
        /\ block \in [Objects -> BlockIds] /\ \A o \in Objects : block[o] \in Nat
        /\ pending # 0 =>
             /\ pending \in Objects
             /\ \A o \in Objects : pending <= o => ~owns[o]
             /\ \A o \in Objects : pending < o /\ HasCode(o) => block[o] = numBlocks - 1
    BY <1>1, <1>3, <1>5, LoopFacts
  <2>2. CASE pending = 0
    <3>1. block' = block /\ owns' = owns
      BY <2>2 DEF FinishAssign
    <3>2. FirstPlaced' /\ \A o \in Objects : NextBlock(o) => NextBlock(o)'
      BY <1>1, <2>1, <3>1, SameOwners
    <3> QED BY <1>1, <1>2, <2>1, <2>2, <3>1, <3>2 DEF Blocks, HasCode
  <2>3. CASE pending # 0
    <3> DEFINE b == numBlocks - 1
    <3>1. block' = [block EXCEPT ![pending] = b] /\ owns' = [owns EXCEPT ![pending] = TRUE]
      BY <2>3 DEF FinishAssign, NextId
    <3>2. b \in Nat /\ b > prevBlock /\ b \in BlockIds
      <4>1. b \in Nat /\ b < N /\ b > prevBlock
        BY <1>1, <2>1, <2>3, NFacts
      <4> QED BY <4>1, BlockIdFacts
    <3>n. \A o \in Objects : pending < o /\ HasCode(o) => block[o] = b
      BY <2>1, <2>3
    <3> HIDE DEF b
    <3>3. /\ block' \in [Objects -> BlockIds] /\ block'[pending] = b
          /\ \A o \in Objects : o # pending => block'[o] = block[o]
      BY <2>1, <2>3, <3>1, <3>2
    <3>4. /\ owns'[pending] /\ ~owns[pending]
          /\ \A w \in Objects : w # pending => (owns'[w] <=> owns[w])
      <4>1. pending <= pending
        BY <2>1, <2>3 DEF Objects
      <4> QED BY <2>1, <2>3, <3>1, <4>1 DEF Inv, TypedOwns
    <3>5. \A w \in Objects : owns[w] => w < pending /\ block'[w] = block[w]
      <4>1. \A w \in Objects : w < pending \/ pending <= w
        BY <2>1, <2>3 DEF Objects
      <4> QED BY <2>1, <2>3, <3>3, <3>4, <4>1
    <3>6. /\ FirstPlaced'
          /\ \A o \in Objects : block'[o] = block[o] /\ block[o] # b /\ NextBlock(o) => NextBlock(o)'
      BY <1>1, <2>1, <2>3, <3>3, <3>4, <3>5, NewOwner
    <3>7. ASSUME NEW o \in Objects, HasCode(o) PROVE NextBlock(o)'
      <4>1. CASE o < pending
        <5>1. block[o] <= prevBlock /\ NextBlock(o) /\ o # pending /\ block[o] # b
          BY <2>1, <2>3, <3>2, <3>7, <4>1 DEF Objects
        <5> QED BY <3>3, <3>6, <5>1
      <4>2. CASE ~(o < pending)
        <5>0. \A w \in Objects : o < w => w # pending /\ pending <= w
          BY <2>1, <2>3, <4>2 DEF Objects
        <5> SUFFICES ASSUME NEW w \in Objects, owns'[w], o < w PROVE FALSE
          BY DEF NextBlock
        <5> QED BY <2>1, <2>3, <3>4, <5>0
      <4> QED BY <4>1, <4>2
    <3> QED BY <1>1, <1>2, <3>3, <3>6, <3>7 DEF Blocks, HasCode
  <2> QED BY <2>2, <2>3
<1>6. numBlocks = 0 \/ numBlocks > 0
  BY DEF Inv, Typed
<1> QED BY <1>4, <1>5, <1>6

LEMMA BlocksLater ==
  Inv /\ Blocks /\ (ProcessRefs \/ LayoutObject \/ WriteBranches \/ Done \/ UNCHANGED vars) => Blocks'
<1> SUFFICES ASSUME Inv, Blocks,
                    ProcessRefs \/ LayoutObject \/ WriteBranches \/ Done \/ UNCHANGED vars
             PROVE  Blocks'
  OBVIOUS
<1>1. /\ size' = size /\ start' = start /\ enabled' = enabled /\ prevBlock' = prevBlock
      /\ block' = block /\ owns' = owns
  BY DEF ProcessRefs, LayoutObject, WriteBranches, Done, vars, inputs, placing
<1>2. FirstPlaced' <=> FirstPlaced
  BY <1>1 DEF FirstPlaced, NoOwners, HasCode
<1>3. \A o \in Objects : NextBlock(o)' <=> NextBlock(o)
  BY <1>1 DEF NextBlock, NoOwners
<1>4. CASE ProcessRefs \/ LayoutObject \/ WriteBranches \/ Done
  <2>1. /\ pc \in {"refs", "layout", "write", "done", "error"}
        /\ pc' \in {"layout", "write", "done", "error"}
    BY <1>4 DEF ProcessRefs, LayoutObject, WriteBranches, Done, vars
  <2>2. Assigned' <=> Assigned
    BY <1>1, <2>1 DEF Assigned
  <2> QED BY <1>1, <1>2, <1>3, <2>1, <2>2 DEF Blocks, HasCode
<1>5. CASE UNCHANGED vars
  BY <1>1, <1>2, <1>3, <1>5 DEF Blocks, HasCode, vars, Assigned
<1> QED BY <1>4, <1>5

LEMMA BlocksStep == Inv /\ Blocks /\ [Next]_vars => Blocks'
BY BlocksEarly, BlocksSkip, BlocksFirst, BlocksUnplaced, BlocksPlace, BlocksFinish, BlocksLater
   DEF Next, AssignStep

-----------------------------------------------------------------------------

LEMMA BranchFacts ==
  ASSUME refs \in RefChoices, NEW r \in Branches
  PROVE  /\ r[1] \in 0..N /\ r[2] \in Symbols /\ r \in refs
         /\ r[1] # 0 => r[1] \in Objects /\ size[r[1]] > 0
<1>1. r \in refs /\ (r[1] = 0 \/ size[r[1]] > 0)
  BY DEF Branches
<1>2. refs \subseteq (0..N) \X Symbols
  BY SizesAssumption
<1>3. r[1] \in 0..N /\ r[2] \in Symbols
  BY <1>1, <1>2
<1>4. r[1] # 0 => r[1] \in Objects
  BY <1>3, NFacts DEF Objects
<1> QED BY <1>1, <1>3, <1>4

LEMMA RequestedInit == Init => Requested
<1> SUFFICES ASSUME Init PROVE Requested
  OBVIOUS
<1>1. symbols \in [BlockIds -> SUBSET BranchedTo]
  BY DEF Init
<1>2. pc = "new" /\ refs \in RefChoices /\ size \in [Objects -> Sizes] /\ \A s \in Symbols : Home[s] # 0 => size[Home[s]] > 0
  BY DEF Init
<1> QED BY <1>1, <1>2 DEF Requested

\* process_primary_part_refs and process_non_primary_part_refs leave out no
\* branch that is not shown to be in range.
LEMMA RequestedRefs == Inv /\ Blocks /\ Requested /\ ProcessRefs => Requested'
<1> SUFFICES ASSUME Inv, Blocks, Requested, ProcessRefs PROVE Requested'
  OBVIOUS
<1>1. /\ pc = "refs" /\ pc' = "layout" /\ enabled /\ refs \in RefChoices
      /\ refs' = refs /\ size' = size /\ enabled' = enabled /\ flagged' = flagged /\ lowRefs' = lowRefs
      /\ start' = start /\ end' = end /\ block' = block
  BY DEF ProcessRefs, Requested, inputs, placing
<1>2. /\ flagged = {r \in Branches : r[1] # 0}
      /\ lowRefs = {r[2] : r \in {b \in Branches : b[1] = 0 /\ Home[b[2]] # 0}}
  BY <1>1 DEF Requested
<1>3. Branches' = Branches /\ BranchedTo' = BranchedTo
  BY <1>1 DEF Branches, BranchedTo
<1>4. \A b \in BlockIds : symbols'[b] =
        {r[2] : r \in {f \in flagged : /\ block[f[1]] = b
                                       /\ end[f[1]] > start[f[1]]
                                       /\ ~ProvablyInRange(f[1], f[2])}}
        \cup (IF b = FIRST THEN lowRefs ELSE {})
  BY DEF ProcessRefs
<1>5. symbols' \in [BlockIds -> SUBSET BranchedTo]
  <2>1. lowRefs \subseteq BranchedTo
    BY <1>2 DEF Branches, BranchedTo
  <2>2. \A b \in BlockIds : {r[2] : r \in {f \in flagged : /\ block[f[1]] = b
                                       /\ end[f[1]] > start[f[1]]
                                       /\ ~ProvablyInRange(f[1], f[2])}} \subseteq BranchedTo
    BY <1>2 DEF Branches, BranchedTo
  <2>3. \A b \in BlockIds : symbols'[b] \in SUBSET BranchedTo
    BY <1>4, <2>1, <2>2
  <2>4. \E f : symbols' = [b \in BlockIds |-> f[b]]
    <3>1. symbols' = [b \in BlockIds |-> symbols'[b]]
      BY DEF ProcessRefs
    <3> QED BY <3>1
  <2> QED BY <2>3, <2>4
<1>6. ASSUME NEW r \in Branches
      PROVE  IF r[1] = 0 THEN Home[r[2]] # 0 => r[2] \in symbols'[FIRST]
             ELSE ProvablyInRange(r[1], r[2]) \/ r[2] \in symbols'[block[r[1]]]
  <2>1. CASE r[1] = 0
    <3>1. Home[r[2]] # 0 => r[2] \in lowRefs
      BY <1>2, <2>1
    <3>2. lowRefs \subseteq symbols'[FIRST]
      BY <1>4, BlockIdFacts
    <3> QED BY <2>1, <3>1, <3>2
  <2>2. CASE r[1] # 0
    <3>1. r[1] \in Objects /\ size[r[1]] > 0 /\ r \in flagged
      BY <1>1, <1>2, <2>2, BranchFacts
    <3>2. block[r[1]] \in BlockIds
      BY <3>1 DEF Blocks
    <3>3. end[r[1]] > start[r[1]]
      <4>1. r[1] < N + 1
        BY <3>1, NFacts DEF Objects
      <4>2. end[r[1]] = start[r[1]] + size[r[1]]
        BY <1>1, <3>1, <4>1 DEF Inv, Ranges, Contiguous
      <4>3. start[r[1]] \in Nat /\ size[r[1]] \in Nat
        BY <3>1 DEF Inv, Typed
      <4> QED BY <3>1, <4>2, <4>3
    <3>4. ~ProvablyInRange(r[1], r[2]) => r[2] \in symbols'[block[r[1]]]
      BY <1>4, <3>1, <3>2, <3>3
    <3> QED BY <2>2, <3>4
  <2> QED BY <2>1, <2>2
<1>7. \A r \in Branches : ProvablyInRange(r[1], r[2])' <=> ProvablyInRange(r[1], r[2])
  BY <1>1 DEF ProvablyInRange, DefStart
<1>8. (\A s \in Symbols : Home[s] # 0 => size'[Home[s]] > 0) /\ size' \in [Objects -> Sizes]
  BY <1>1 DEF Requested
<1> QED BY <1>1, <1>2, <1>3, <1>5, <1>6, <1>7, <1>8 DEF Requested

LEMMA RequestedStep == Inv /\ Blocks /\ Requested /\ [Next]_vars => Requested'
<1> SUFFICES ASSUME Inv, Blocks, Requested, [Next]_vars PROVE Requested'
  OBVIOUS
<1>1. CASE NewBuilder
  BY <1>1 DEF NewBuilder, Requested, inputs, BranchedTo
<1>2. CASE ScanRelocations
  <2>1. /\ refs' = refs /\ size' = size /\ enabled' = enabled /\ symbols' = symbols
        /\ pc' \in {"ranges", "layout"} /\ (enabled => pc' = "ranges")
    BY <1>2 DEF ScanRelocations, inputs
  <2>2. Branches' = Branches /\ BranchedTo' = BranchedTo
    BY <2>1 DEF Branches, BranchedTo
  <2>3. enabled => /\ flagged' = {r \in Branches : r[1] # 0}
                   /\ lowRefs' = {r[2] : r \in {b \in Branches : b[1] = 0 /\ Home[b[2]] # 0}}
    BY <1>2 DEF ScanRelocations
  <2> QED BY <2>1, <2>2, <2>3 DEF Requested
<1>3. CASE CollectRange \/ AssignStep
  <2>1. /\ refs' = refs /\ size' = size /\ enabled' = enabled /\ symbols' = symbols
        /\ flagged' = flagged /\ lowRefs' = lowRefs
        /\ pc \in {"ranges", "assign"} /\ pc' \in {"ranges", "assign", "refs"}
    BY <1>3 DEF CollectRange, AssignStep, SkipEmpty, AssignFirst, AssignPrevious, StartNext,
                AssignNext, PlaceNext, FinishAssign, NextObject, Assigning, inputs
  <2>2. Branches' = Branches /\ BranchedTo' = BranchedTo
    BY <2>1 DEF Branches, BranchedTo
  <2>3. enabled
    BY <2>1 DEF Inv, Ranges
  <2> QED BY <2>1, <2>2, <2>3 DEF Requested
<1>4. CASE ProcessRefs
  BY <1>4, RequestedRefs
<1>5. CASE LayoutObject \/ WriteBranches \/ Done \/ UNCHANGED vars
  <2>1. /\ refs' = refs /\ size' = size /\ enabled' = enabled /\ symbols' = symbols
        /\ flagged' = flagged /\ lowRefs' = lowRefs /\ start' = start /\ end' = end /\ block' = block
    BY <1>5 DEF LayoutObject, WriteBranches, Done, vars, inputs, placing
  <2>2. Branches' = Branches /\ BranchedTo' = BranchedTo
    BY <2>1 DEF Branches, BranchedTo
  <2>3. \A r \in Branches : ProvablyInRange(r[1], r[2])' <=> ProvablyInRange(r[1], r[2])
    BY <2>1 DEF ProvablyInRange, DefStart
  <2>4. \/ pc \in {"layout", "write", "done", "error"} /\ pc' \in {"layout", "write", "done", "error"}
        \/ pc' = pc
    BY <1>5 DEF LayoutObject, WriteBranches, Done, vars
  <2> QED BY <2>1, <2>2, <2>3, <2>4 DEF Requested
<1> QED BY <1>1, <1>2, <1>3, <1>4, <1>5 DEF Next

-----------------------------------------------------------------------------
(* Lengths. *)

LEMMA LeastNumber ==
  ASSUME NEW S \in SUBSET Nat, S # {}
  PROVE  \E x \in S : \A y \in S : x <= y
<1> DEFINE Lt == {ss \in Nat \X Nat : ss[1] < ss[2]}
<1>1. IsWellFoundedOn(Lt, Nat)
  BY NatLessThanWellFounded DEF OpToRel
<1>2. \E x \in S : \A y \in S : <<y, x>> \notin Lt
  <2> HIDE DEF Lt
  <2> QED BY <1>1, WFMin
<1>3. PICK x \in S : \A y \in S : <<y, x>> \notin Lt
  BY <1>2
<1>4. \A y \in S : x <= y
  <2> TAKE y \in S
  <2>1. x \in Nat /\ y \in Nat
    OBVIOUS
  <2>2. ~(y < x)
    BY <1>3, <2>1
  <2> QED BY <2>1, <2>2
<1> QED BY <1>4

\* The sum is defined for every number of objects.
LEMMA SumExists ==
  ASSUME size \in [Objects -> Nat]
  PROVE  \E f : f = [o \in 0..N |-> IF o = 0 THEN 0 ELSE f[o - 1] + size[o]]
<1> DEFINE Partial(n) == \E g \in [0..n -> Nat] :
                            g[0] = 0 /\ \A o \in 1..n : g[o] = g[o - 1] + size[o]
<1>1. Partial(0)
  <2> DEFINE g == [o \in 0..0 |-> 0]
  <2>1. g \in [0..0 -> Nat] /\ g[0] = 0 /\ \A o \in 1..0 : g[o] = g[o - 1] + size[o]
    OBVIOUS
  <2> QED BY <2>1
<1>2. ASSUME NEW n \in Nat, n < N, Partial(n) PROVE Partial(n + 1)
  <2>1. PICK g \in [0..n -> Nat] : g[0] = 0 /\ \A o \in 1..n : g[o] = g[o - 1] + size[o]
    BY <1>2
  <2>2. size[n + 1] \in Nat /\ g[n] \in Nat
    BY <1>2, NFacts DEF Objects
  <2> DEFINE h == [o \in 0..(n + 1) |-> IF o = n + 1 THEN g[n] + size[n + 1] ELSE g[o]]
  <2>3. h \in [0..(n + 1) -> Nat]
    BY <2>2
  <2>4. h[0] = 0
    BY <2>1
  <2>5. ASSUME NEW o \in 1..(n + 1) PROVE h[o] = h[o - 1] + size[o]
    <3>1. CASE o = n + 1
      <4>1. o - 1 = n /\ n \in 0..(n + 1) /\ n # n + 1
        BY <3>1
      <4>2. h[o - 1] = g[n] /\ h[o] = g[n] + size[n + 1]
        BY <3>1, <4>1
      <4> QED BY <3>1, <4>2
    <3>2. CASE o # n + 1
      <4>1. o \in 1..n /\ o - 1 \in 0..(n + 1) /\ o - 1 # n + 1 /\ o \in 0..(n + 1)
        BY <3>2
      <4>2. h[o] = g[o] /\ h[o - 1] = g[o - 1]
        BY <3>2, <4>1
      <4> QED BY <2>1, <4>1, <4>2
    <3> QED BY <3>1, <3>2
  <2> HIDE DEF h
  <2> QED BY <2>3, <2>4, <2>5
<1>3. Partial(N)
  <2> SUFFICES ASSUME ~Partial(N) PROVE FALSE
    OBVIOUS
  <2> HIDE DEF Partial
  <2> DEFINE Bad == {n \in Nat : n <= N /\ ~Partial(n)}
  <2>1. N \in Bad
    BY NFacts
  <2>2. PICK n \in Bad : \A m \in Bad : n <= m
    <3>1. Bad \in SUBSET Nat /\ Bad # {}
      BY <2>1
    <3> HIDE DEF Bad
    <3> QED BY <3>1, LeastNumber
  <2>3. n # 0
    BY <1>1
  <2>4. n - 1 \in Nat /\ n - 1 < N /\ (n - 1) + 1 = n /\ ~(n <= n - 1)
    BY <2>2, <2>3, NFacts
  <2>5. Partial(n - 1)
    <3>1. n - 1 \notin Bad
      <4> HIDE DEF Bad
      <4> QED BY <2>2, <2>4
    <3>2. n - 1 <= N
      BY <2>4, NFacts
    <3> QED BY <2>4, <3>1, <3>2
  <2>6. Partial((n - 1) + 1)
    BY <1>2, <2>4, <2>5
  <2> QED BY <2>4, <2>6
<1>4. PICK g \in [0..N -> Nat] : g[0] = 0 /\ \A o \in 1..N : g[o] = g[o - 1] + size[o]
  BY <1>3
<1>5. \A o \in 0..N : g[o] = IF o = 0 THEN 0 ELSE g[o - 1] + size[o]
  <2>1. \A o \in 0..N : o = 0 \/ o \in 1..N
    BY NFacts
  <2> QED BY <1>4, <2>1
<1>6. g = [o \in 0..N |-> IF o = 0 THEN 0 ELSE g[o - 1] + size[o]]
  BY <1>4, <1>5
<1> QED BY <1>6

LEMMA BytesFacts ==
  ASSUME size \in [Objects -> Nat]
  PROVE  /\ BytesUpTo(0) = 0
         /\ \A k \in Objects : BytesUpTo(k) = BytesUpTo(k - 1) + size[k]
         /\ \A k \in 0..N : BytesUpTo(k) \in Nat
<1> DEFINE Body(f) == [o \in 0..N |-> IF o = 0 THEN 0 ELSE f[o - 1] + size[o]]
<1> DEFINE F == CHOOSE f : f = Body(f)
<1>1. F = Body(F)
  BY SumExists
<1>2. \A k : BytesUpTo(k) = F[k]
  BY DEF BytesUpTo
<1>3. F[0] = 0 /\ \A k \in 1..N : F[k] = F[k - 1] + size[k]
  <2> HIDE DEF F
  <2>1. 0 \in 0..N /\ \A k \in 1..N : k \in 0..N /\ k # 0
    BY NFacts
  <2> QED BY <1>1, <2>1
<1> HIDE DEF F
<1>4. ASSUME NEW k \in 0..N PROVE F[k] \in Nat
  <2> SUFFICES ASSUME F[k] \notin Nat PROVE FALSE
    OBVIOUS
  <2> DEFINE Bad == {n \in Nat : n <= N /\ F[n] \notin Nat}
  <2>1. k \in Bad
    BY NFacts
  <2>2. PICK n \in Bad : \A m \in Bad : n <= m
    <3>1. Bad \in SUBSET Nat /\ Bad # {}
      BY <2>1
    <3> HIDE DEF Bad
    <3> QED BY <3>1, LeastNumber
  <2>3. n # 0
    BY <1>3
  <2>4. n - 1 \in Nat /\ n - 1 <= N /\ n \in 1..N /\ ~(n <= n - 1)
    BY <2>2, <2>3, NFacts
  <2>5. F[n - 1] \in Nat
    BY <2>2, <2>4
  <2>6. size[n] \in Nat
    BY <2>4 DEF Objects
  <2> QED BY <1>3, <2>4, <2>5, <2>6
<1> QED BY <1>2, <1>3, <1>4 DEF Objects

\* n thunks, and fewer.
LEMMA ThunkLengths ==
  /\ \A n \in Nat : ThunkSize * n \in Nat
  /\ \A m, n \in Nat : m <= n => ThunkSize * m <= ThunkSize * n
<1>1. ThunkSize \in Nat
  BY SizesAssumption
<1>2. ASSUME NEW n \in Nat PROVE ThunkSize * n \in Nat
  BY <1>1
<1>3. ASSUME NEW m \in Nat, NEW n \in Nat, m <= n PROVE ThunkSize * m <= ThunkSize * n
  <2>1. PICK d \in Nat : n = m + d
    BY <1>3
  <2>2. ThunkSize * n = ThunkSize * m + ThunkSize * d
    BY <1>1, <2>1
  <2> QED BY <1>2, <2>2
<1> QED BY <1>2, <1>3

\* The symbols of a block are finite in number, and so are the bytes of its thunks.
LEMMA BlockSymbols ==
  ASSUME Blocks, Requested, NEW o \in Objects
  PROVE  /\ ThunkBytes(o) \in Nat /\ (~owns[o] => ThunkBytes(o) = 0)
         /\ symbols[block[o]] \subseteq Symbols /\ symbols[block[o]] \subseteq BranchedTo
         /\ IsFiniteSet(symbols[block[o]])
<1>1. refs \subseteq (0..N) \X Symbols
  BY SizesAssumption DEF Requested
<1>2. BranchedTo \subseteq Symbols
  BY <1>1 DEF BranchedTo
<1>3. symbols[block[o]] \subseteq BranchedTo
  BY DEF Blocks, Requested
<1>4. IsFiniteSet(symbols[block[o]])
  <2>1. IsFiniteSet(Symbols) /\ symbols[block[o]] \in SUBSET Symbols
    BY <1>2, <1>3, SizesAssumption
  <2> QED BY <2>1, FS_Subset
<1>5. Cardinality(symbols[block[o]]) \in Nat
  BY <1>4, FS_CardinalityType
<1>6. ThunkBytes(o) \in Nat /\ (~owns[o] => ThunkBytes(o) = 0)
  BY <1>5, ThunkLengths DEF ThunkBytes
<1> QED BY <1>2, <1>3, <1>4, <1>6

-----------------------------------------------------------------------------
(* finalise_layout. *)

LEMMA LayoutInit == Init => Layout
BY DEF Init, Layout, NoAddress

LEMMA BytesUnchanged ==
  ASSUME size' = size
  PROVE  (\A k : BytesUpTo(k)' = BytesUpTo(k)) /\ ExecutableBytes' = ExecutableBytes
<1>1. \A k : BytesUpTo(k)' = BytesUpTo(k)
  BY DEF BytesUpTo
<1>2. BytesUpTo(N)' = BytesUpTo(N)
  BY DEF BytesUpTo
<1> QED BY <1>1, <1>2 DEF ExecutableBytes

\* Where the objects lie in the ranges, once there are any.
LEMMA RangeOrder ==
  ASSUME Inv, enabled, pc \notin {"new", "scan", "ranges"}
  PROVE  /\ \A o \in Objects : end[o] = start[o] + size[o]
         /\ \A o \in Objects : o > 1 => start[o] = end[o - 1]
         /\ \A o, p \in Objects : o < p => end[o] <= start[p]
<1>1. Contiguous(N + 1) /\ Increasing(N + 1)
  BY DEF Inv, Ranges
<1>2. \A o \in Objects : o < N + 1
  BY NFacts DEF Objects
<1> QED BY <1>1, <1>2 DEF Contiguous, Increasing

LEMMA LayoutStarts ==
  ASSUME Inv, Blocks, Layout, ScanRelocations \/ ProcessRefs
  PROVE  Layout'
<1>1. /\ size' = size /\ enabled' = enabled /\ i' = i /\ pos' = pos /\ base' = base /\ thunks' = thunks
      /\ pc # "new" /\ pc' \in {"ranges", "layout"} /\ size \in [Objects -> Nat]
  BY DEF ScanRelocations, ProcessRefs, inputs, Inv, Typed
<1>2. i = 1 /\ pos = Low /\ i \in Objects
  BY NFacts DEF ScanRelocations, ProcessRefs, Inv, Typed, Blocks, Layout, Objects
<1>3. Laid(1)'
  <2>1. \A o \in Objects : ~(o < 1)
    BY NFacts DEF Objects
  <2>2. BytesUpTo(1 - 1)' = 0
    <3>1. BytesUpTo(0)' = BytesUpTo(0)
      BY <1>1, BytesUnchanged
    <3> QED BY <1>1, <3>1, BytesFacts
  <2>3. pos' = Low /\ Low \in Nat /\ Low + 0 = Low
    BY <1>1, <1>2, RangeFacts
  <2> QED BY <2>1, <2>2, <2>3 DEF Laid
<1>4. ExecutableBytes' = ExecutableBytes
  BY <1>1, BytesUnchanged
<1> QED BY <1>1, <1>2, <1>3, <1>4 DEF Layout

LEMMA LayoutObjectStep ==
  ASSUME Inv, Blocks, Requested, Layout, LayoutObject
  PROVE  Layout'
<1>1. /\ pc = "layout" /\ size' = size /\ enabled' = enabled /\ start' = start /\ end' = end
      /\ owns' = owns /\ block' = block /\ symbols' = symbols /\ i \in Objects /\ Laid(i)
      /\ size \in [Objects -> Nat] /\ start \in [Objects -> Nat]
      /\ base \in [Objects -> Int] /\ thunks \in [BlockIds -> Int] /\ block \in [Objects -> BlockIds]
  BY DEF LayoutObject, inputs, placing, Layout, Inv, Typed, Blocks
<1>2. PICK k \in Objects : k = i
  BY <1>1
<1>3. /\ base' = [base EXCEPT ![k] = pos]
      /\ thunks' = IF owns[k] THEN [thunks EXCEPT ![block[k]] = pos + size[k]] ELSE thunks
      /\ pos' = pos + size[k] + ThunkBytes(k)
  BY <1>2 DEF LayoutObject
<1>4. k \in Nat /\ k >= 1 /\ k <= N /\ size[k] \in Nat /\ ThunkBytes(k) \in Nat
  <2>1. k \in Nat /\ k >= 1 /\ k <= N
    BY NFacts DEF Objects
  <2>2. ThunkBytes(k) \in Nat
    BY BlockSymbols
  <2> QED BY <1>1, <2>1, <2>2
<1>5. /\ pos \in Nat
      /\ IF k = 1 THEN pos = Low ELSE pos = After(k - 1) /\ base[1] = Low
      /\ \A o \in Objects : o < k => base[o] \in Nat /\ Low <= base[o] /\ After(o) <= pos
      /\ \A o \in Objects : o > 1 /\ o < k => base[o] = After(o - 1)
      /\ \A o, p \in Objects : o < p /\ p < k => After(o) <= base[p]
      /\ ~enabled => pos = Low + BytesUpTo(k - 1)
      /\ enabled =>
           /\ \A o, p \in Objects : o <= p /\ p < k /\ NoOwners(o, p) => base[p] - base[o] = start[p] - start[o]
           /\ \A v \in Objects : v < k /\ owns[v] => thunks[block[v]] = base[v] + size[v]
  BY <1>1, <1>2 DEF Laid
<1>6. /\ base' \in [Objects -> Int] /\ base'[k] = pos
      /\ \A o \in Objects : o # k => base'[o] = base[o]
  BY <1>1, <1>3, <1>5
<1>7. \A o \in Objects : ThunkBytes(o)' = ThunkBytes(o)
  BY <1>1 DEF ThunkBytes
<1>8. After(k)' = pos' /\ \A o \in Objects : o # k => After(o)' = After(o)
  <2>1. \A o \in Objects : After(o)' = base'[o] + size[o] + ThunkBytes(o)
    BY <1>1, <1>7 DEF After
  <2>2. After(k)' = pos'
    BY <1>3, <1>6, <2>1
  <2> QED BY <1>6, <2>1, <2>2 DEF After
<1>9. \A o \in Objects : o < k + 1 <=> (o < k \/ o = k)
  BY <1>4 DEF Objects
<1>10. pos' \in Nat /\ pos <= pos' /\ Low <= pos
  <2>1. pos' \in Nat /\ pos <= pos'
    BY <1>3, <1>4, <1>5
  <2>2. CASE k = 1
    BY <1>5, <2>1, <2>2, RangeFacts
  <2>3. CASE k # 1
    <3>1. k - 1 \in Objects /\ k - 1 < k
      BY <1>4, <2>3, NFacts DEF Objects
    <3>2. pos = base[k - 1] + size[k - 1] + ThunkBytes(k - 1) /\ base[k - 1] \in Nat /\ Low <= base[k - 1]
      BY <1>5, <2>3, <3>1 DEF After
    <3>3. size[k - 1] \in Nat /\ ThunkBytes(k - 1) \in Nat
      BY <1>1, <3>1, BlockSymbols
    <3> QED BY <2>1, <3>2, <3>3, RangeFacts
  <2> QED BY <2>2, <2>3
<1>11. k + 1 # 1 /\ (k + 1) - 1 = k
  BY <1>4
<1>12. \A o \in Objects : o < k + 1 => base'[o] \in Nat /\ Low <= base'[o] /\ After(o)' <= pos'
  <2> TAKE o \in Objects
  <2> HAVE o < k + 1
  <2>1. CASE o = k
    BY <1>5, <1>6, <1>8, <1>10, <2>1
  <2>2. CASE o < k
    <3>1. o # k /\ base'[o] = base[o] /\ After(o)' = After(o)
      BY <1>4, <1>6, <1>8, <2>2
    <3>2. After(o) \in Nat
      <4>1. base[o] \in Nat /\ size[o] \in Nat /\ ThunkBytes(o) \in Nat
        BY <1>1, <1>5, <2>2, BlockSymbols
      <4> QED BY <4>1 DEF After
    <3> QED BY <1>5, <1>10, <2>2, <3>1, <3>2
  <2> QED BY <1>9, <2>1, <2>2
<1>13. base'[1] = Low
  <2>1. 1 \in Objects
    BY NFacts DEF Objects
  <2> QED BY <1>5, <1>6, <2>1
<1>14. \A o \in Objects : o > 1 /\ o < k + 1 => base'[o] = After(o - 1)'
  <2> TAKE o \in Objects
  <2> HAVE o > 1 /\ o < k + 1
  <2>1. o - 1 \in Objects /\ o - 1 # k
    BY <1>4, NFacts DEF Objects
  <2>2. PICK q \in Objects : q = o - 1
    BY <2>1
  <2>3. After(q)' = After(q)
    BY <1>8, <2>1, <2>2
  <2>4. base'[o] = After(q)
    BY <1>4, <1>5, <1>6, <1>9, <2>2
  <2> QED BY <2>2, <2>3, <2>4
<1>15. \A o, p \in Objects : o < p /\ p < k + 1 => After(o)' <= base'[p]
  <2> TAKE o, p \in Objects
  <2> HAVE o < p /\ p < k + 1
  <2>1. o < k /\ o # k
    BY <1>4 DEF Objects
  <2>2. After(o)' = After(o)
    BY <1>8, <2>1
  <2> QED BY <1>4, <1>5, <1>6, <1>9, <2>1, <2>2
<1>16. ~enabled => pos' = Low + BytesUpTo(k)'
  <2> SUFFICES ASSUME ~enabled PROVE pos' = Low + BytesUpTo(k)'
    OBVIOUS
  <2>1. ThunkBytes(k) = 0
    BY BlockSymbols DEF Blocks
  <2>2. BytesUpTo(k)' = BytesUpTo(k) /\ BytesUpTo(k) = BytesUpTo(k - 1) + size[k]
    BY <1>1, BytesUnchanged, BytesFacts
  <2>3. PICK before : before = BytesUpTo(k - 1)
    OBVIOUS
  <2>4. pos = Low + before /\ BytesUpTo(k)' = before + size[k] /\ pos' = pos + size[k]
    BY <1>3, <1>4, <1>5, <2>1, <2>2, <2>3
  <2>5. before \in Int
    <3>1. k - 1 \in 0..N
      BY <1>4, NFacts
    <3> QED BY <1>1, <2>3, <3>1, BytesFacts
  <2> QED BY <1>4, <2>4, <2>5, RangeFacts
<1>17. ASSUME enabled, NEW o \in Objects, NEW p \in Objects, o <= p, p < k + 1, NoOwners(o, p)
       PROVE  base'[p] - base'[o] = start[p] - start[o]
  <2>1. CASE p < k
    <3>1. p # k /\ o # k
      BY <1>4, <1>17, <2>1 DEF Objects
    <3> QED BY <1>5, <1>6, <1>17, <2>1, <3>1
  <2>2. CASE p = k /\ o = k
    BY <1>1, <1>6, <1>5, <2>2
  <2>3. CASE p = k /\ o # k
    <3>1. k - 1 \in Objects /\ k > 1 /\ o <= k - 1 /\ k - 1 < k
      BY <1>4, <1>17, <2>3, NFacts DEF Objects
    <3>2. NoOwners(o, k - 1) /\ ~owns[k - 1]
      <4>1. \A v \in Objects : v < k - 1 => v < k
        BY <1>4 DEF Objects
      <4> QED BY <1>17, <2>3, <3>1, <4>1 DEF NoOwners
    <3>3. base[k - 1] - base[o] = start[k - 1] - start[o]
      BY <1>5, <1>17, <3>1, <3>2
    <3>4. pos = base[k - 1] + size[k - 1] + ThunkBytes(k - 1) /\ ThunkBytes(k - 1) = 0
      BY <1>4, <1>5, <3>1, <3>2, BlockSymbols DEF After
    <3>5. start[k] = end[k - 1] /\ end[k - 1] = start[k - 1] + size[k - 1]
      BY <1>1, <1>17, <3>1, RangeOrder
    <3>6. base'[o] = base[o] /\ base'[p] = pos
      BY <1>6, <2>3
    <3>7. /\ base[k - 1] \in Int /\ base[o] \in Int /\ start[k - 1] \in Nat /\ start[o] \in Nat
          /\ size[k - 1] \in Nat
      BY <1>1, <3>1
    <3> QED BY <2>3, <3>3, <3>4, <3>5, <3>6, <3>7
  <2> QED BY <1>9, <1>17, <2>1, <2>2, <2>3
<1>18. ASSUME enabled, NEW v \in Objects, v < k + 1, owns[v]
       PROVE  thunks'[block[v]] = base'[v] + size[v]
  <2>1. block[v] \in BlockIds /\ block[k] \in BlockIds
    BY <1>1
  <2>2. CASE v = k
    BY <1>1, <1>3, <1>6, <1>18, <2>1, <2>2
  <2>3. CASE v # k
    <3>1. v < k
      BY <1>9, <1>18, <2>3
    <3>2. owns[k] => block[v] # block[k]
      BY <1>1, <1>18, <3>1 DEF Inv, Placed, Assigned, Owners
    <3>3. thunks'[block[v]] = thunks[block[v]]
      BY <1>1, <1>3, <2>1, <3>2
    <3> QED BY <1>5, <1>6, <1>18, <2>3, <3>1, <3>3
  <2> QED BY <2>2, <2>3
<1>19. Laid(k + 1)'
  <2>1. PICK m : m = k + 1
    OBVIOUS
  <2>3. \A o, p : NoOwners(o, p)' <=> NoOwners(o, p)
    BY <1>1 DEF NoOwners
  <2>4. Laid(m)'
    <3>1. m # 1 /\ m - 1 = k
      BY <1>11, <2>1
    <3> QED BY <1>1, <1>8, <1>10, <1>12, <1>13, <1>14, <1>15, <1>16, <1>17, <1>18, <2>1, <2>3, <3>1 DEF Laid
  <2> QED BY <2>1, <2>4
<1>20. thunks' \in [BlockIds -> Int]
  <2>1. pos + size[k] \in Int
    BY <1>4, <1>5
  <2> QED BY <1>1, <1>3, <2>1
<1>21. ExecutableBytes' = ExecutableBytes
  BY <1>1, BytesUnchanged
<1>22. \/ k < N /\ pc' = "layout" /\ i' = k + 1
       \/ k = N /\ pc' = "write"
  BY <1>2, <1>4, NFacts DEF LayoutObject
<1>23. CASE k < N /\ pc' = "layout" /\ i' = k + 1
  <2>1. i' \in Objects
    BY <1>4, <1>23, NFacts DEF Objects
  <2>2. Laid(i)'
    BY <1>19, <1>23
  <2> QED BY <1>1, <1>6, <1>20, <1>21, <1>23, <2>1, <2>2 DEF Layout
<1>24. CASE k = N /\ pc' = "write"
  BY <1>1, <1>6, <1>19, <1>20, <1>21, <1>24 DEF Layout
<1> QED BY <1>22, <1>23, <1>24

LEMMA LayoutStep == Inv /\ Blocks /\ Requested /\ Layout /\ [Next]_vars => Layout'
<1> SUFFICES ASSUME Inv, Blocks, Requested, Layout, [Next]_vars PROVE Layout'
  OBVIOUS
<1>1. CASE NewBuilder
  <2>1. size' = size /\ base' = base /\ thunks' = thunks /\ pc' = "scan" /\ enabled' = NeedsThunks
    BY <1>1 DEF NewBuilder
  <2>2. ExecutableBytes \in Nat /\ MinBranchRange \in Nat
    <3>1. N \in 0..N /\ size \in [Objects -> Nat]
      BY NFacts DEF Inv, Typed
    <3>3. BytesUpTo(N) \in Nat
      BY <3>1, BytesFacts
    <3>2. LowInput \in Nat /\ Discarded \in Nat /\ MinBranchRange \in Nat
      BY SizesAssumption
    <3> QED BY <3>2, <3>3 DEF ExecutableBytes
  <2>3. ~enabled' => ExecutableBytes' < MinBranchRange
    <3>1. ExecutableBytes' = ExecutableBytes
      BY <2>1, BytesUnchanged
    <3>2. ~(ExecutableBytes >= MinBranchRange) => ExecutableBytes < MinBranchRange
      BY <2>2
    <3> QED BY <2>1, <3>1, <3>2, Zenon DEF NeedsThunks
  <2> QED BY <2>1, <2>3 DEF Layout
<1>2. CASE ScanRelocations \/ ProcessRefs
  BY <1>2, LayoutStarts
<1>3. CASE CollectRange \/ AssignStep
  <2>1. /\ size' = size /\ base' = base /\ thunks' = thunks /\ enabled' = enabled
        /\ pc \in {"ranges", "assign"} /\ pc' \in {"ranges", "assign", "refs"}
        /\ pc' = "refs" => i' = 1
    BY <1>3 DEF CollectRange, AssignStep, SkipEmpty, AssignFirst, AssignPrevious, StartNext,
                AssignNext, PlaceNext, FinishAssign, NextObject, Assigning, inputs
  <2> QED BY <2>1, BytesUnchanged DEF Layout
<1>4. CASE LayoutObject
  BY <1>4, LayoutObjectStep
<1>5. CASE WriteBranches \/ Done \/ UNCHANGED vars
  <2>1. UNCHANGED <<size, enabled, i, pos, start, block, owns, symbols, base, thunks>>
    BY <1>5 DEF WriteBranches, Done, vars, inputs, placing
  <2>2. \/ pc \in {"write", "done", "error"} /\ pc' \in {"write", "done", "error"}
        \/ pc' = pc
    BY <1>5 DEF WriteBranches, Done, vars
  <2>3. ASSUME NEW k PROVE Laid(k)' <=> Laid(k)
    <3>1. \A o \in Objects : ThunkBytes(o)' = ThunkBytes(o)
      BY <2>1 DEF ThunkBytes
    <3>2. \A o : After(o)' = After(o)
      BY <2>1 DEF After, ThunkBytes
    <3>3. \A o, p : NoOwners(o, p)' <=> NoOwners(o, p)
      BY <2>1 DEF NoOwners
    <3>4. BytesUpTo(k - 1)' = BytesUpTo(k - 1)
      BY <2>1, BytesUnchanged
    <3> QED BY <2>1, <3>2, <3>3, <3>4 DEF Laid
  <2>4. ExecutableBytes' = ExecutableBytes
    BY <2>1, BytesUnchanged
  <2>5. Laid(N + 1)' <=> Laid(N + 1)
    BY <2>3
  <2>6. Laid(i)' <=> Laid(i)
    <3>1. PICK k : k = i
      OBVIOUS
    <3>2. Laid(k)' <=> Laid(k)
      BY <2>3
    <3> QED BY <2>1, <3>1, <3>2
  <2> QED BY <2>1, <2>2, <2>4, <2>5, <2>6 DEF Layout
<1> QED BY <1>1, <1>2, <1>3, <1>4, <1>5 DEF Next

-----------------------------------------------------------------------------
(* Why branches reach. *)

Final == Inv /\ Blocks /\ Requested /\ Layout /\ pc = "write"

LEMMA FinalFacts ==
  ASSUME Final
  PROVE  /\ pos \in Nat /\ base[1] = Low
         /\ size \in [Objects -> Nat] /\ start \in [Objects -> Nat] /\ end \in [Objects -> Nat]
         /\ \A o \in Objects : size[o] < R /\ base[o] \in Nat /\ Low <= base[o] /\ ThunkBytes(o) \in Nat
         /\ \A o \in Objects : base[o] + size[o] + ThunkBytes(o) <= pos
         /\ \A o, p \in Objects : o < p => base[o] + size[o] + ThunkBytes(o) <= base[p]
         /\ \A o \in Objects : o > 1 => base[o] = base[o - 1] + size[o - 1] + ThunkBytes(o - 1)
<1>1. Laid(N + 1)
  BY DEF Final, Layout
<1>2. N + 1 # 1 /\ \A o \in Objects : o < N + 1
  BY NFacts DEF Objects
<1>3. \A o \in Objects : ThunkBytes(o) \in Nat
  BY BlockSymbols DEF Final
<1>4. /\ size \in [Objects -> Nat] /\ start \in [Objects -> Nat] /\ end \in [Objects -> Nat]
      /\ \A o \in Objects : size[o] < R
  BY DEF Final, Inv, Typed
<1>5. pos \in Nat /\ base[1] = Low /\ \A o \in Objects : base[o] \in Nat /\ Low <= base[o]
  BY <1>1, <1>2 DEF Laid
<1>6. \A o \in Objects : base[o] + size[o] + ThunkBytes(o) <= pos
  BY <1>1, <1>2 DEF Laid, After
<1>7. \A o, p \in Objects : o < p => base[o] + size[o] + ThunkBytes(o) <= base[p]
  BY <1>1, <1>2 DEF Laid, After
<1>8. \A o \in Objects : o > 1 => base[o] = base[o - 1] + size[o - 1] + ThunkBytes(o - 1)
  BY <1>1, <1>2 DEF Laid, After
<1> QED BY <1>3, <1>4, <1>5, <1>6, <1>7, <1>8

LEMMA FinalEnabled ==
  ASSUME Final, enabled
  PROVE  /\ Owners /\ Assigned /\ start[1] = Low /\ 1 \in Objects
         /\ \A o \in Objects : end[o] = start[o] + size[o]
         /\ \A o \in Objects : o > 1 => start[o] = end[o - 1]
         /\ \A o, p \in Objects : o < p => end[o] <= start[p]
         /\ \A o, p \in Objects : o <= p /\ NoOwners(o, p) => base[p] - base[o] = start[p] - start[o]
         /\ \A v \in Objects : owns[v] => thunks[block[v]] = base[v] + size[v]
<1>1. Laid(N + 1)
  BY DEF Final, Layout
<1>2. 1 \in Objects /\ \A o \in Objects : o < N + 1
  BY NFacts DEF Objects
<1>3. Assigned
  BY DEF Final, Assigned
<1>4. Owners /\ start[1] = Low
  BY <1>3 DEF Final, Inv, Placed, Blocks
<1>5. /\ \A o \in Objects : end[o] = start[o] + size[o]
      /\ \A o \in Objects : o > 1 => start[o] = end[o - 1]
      /\ \A o, p \in Objects : o < p => end[o] <= start[p]
  BY RangeOrder DEF Final
<1>6. /\ \A o, p \in Objects : o <= p /\ NoOwners(o, p) => base[p] - base[o] = start[p] - start[o]
      /\ \A v \in Objects : owns[v] => thunks[block[v]] = base[v] + size[v]
  BY <1>1, <1>2 DEF Laid
<1> QED BY <1>2, <1>3, <1>4, <1>5, <1>6

\* The code from an object behind an owner to one with no owner in between.
LEMMA BehindOwner ==
  ASSUME Final, enabled, NEW v \in Objects, NEW p \in Objects, v < p, NoOwners(v + 1, p)
  PROVE  base[p] - base[v] = start[p] - start[v] + ThunkBytes(v)
<1>1. v + 1 \in Objects /\ v + 1 > 1 /\ (v + 1) - 1 = v /\ v + 1 <= p
  BY NFacts DEF Objects
<1>2. PICK q \in Objects : q = v + 1
  BY <1>1
<1>3. base[p] - base[q] = start[p] - start[q]
  BY <1>1, <1>2, FinalEnabled
<1>4. start[q] = start[v] + size[v]
  BY <1>1, <1>2, FinalEnabled
<1>5. base[q] = base[v] + size[v] + ThunkBytes(v)
  BY <1>1, <1>2, FinalFacts
<1>6. /\ base[v] \in Nat /\ base[p] \in Nat /\ start[v] \in Nat /\ start[p] \in Nat
      /\ size[v] \in Nat /\ ThunkBytes(v) \in Nat
  BY FinalFacts
<1> QED BY <1>3, <1>4, <1>5, <1>6

\* The thunks of one block at most come between two objects within a branch range.
LEMMA Gap ==
  ASSUME Final, enabled, MarginSuffices, NEW o \in Objects, NEW p \in Objects, o <= p,
         end[p] - start[o] < R
  PROVE  start[p] - start[o] <= base[p] - base[o]
         /\ base[p] - base[o] <= start[p] - start[o] + MaxThunkBytes
<1>0. MaxThunkBytes \in Nat /\ base[o] \in Nat /\ base[p] \in Nat /\ start[o] \in Nat /\ start[p] \in Nat
  BY FinalFacts, SizesAssumption
<1>1. CASE NoOwners(o, p)
  <2>1. base[p] - base[o] = start[p] - start[o]
    BY <1>1, FinalEnabled
  <2> QED BY <1>0, <2>1
<1>2. CASE ~NoOwners(o, p)
  <2>1. PICK v \in Objects : o <= v /\ v < p /\ owns[v]
    BY <1>2 DEF NoOwners
  <2>2. ASSUME NEW u \in Objects, o <= u, u < p, owns[u], u # v PROVE FALSE
    <3>1. ASSUME NEW a \in Objects, NEW b \in Objects, o <= a, a < b, b < p, owns[a], owns[b]
          PROVE  FALSE
      <4>1. end[b] - end[a] >= R
        BY <3>1, FinalEnabled DEF Owners
      <4>2. end[b] <= start[p] /\ start[p] <= end[p]
        <5>1. end[p] = start[p] + size[p] /\ end[b] <= start[p] /\ size[p] \in Nat
          BY <3>1, FinalEnabled, FinalFacts
        <5> QED BY <1>0, <5>1
      <4>3. start[o] <= end[a]
        <5>1. end[a] = start[a] + size[a] /\ end[o] = start[o] + size[o]
          BY FinalEnabled
        <5>2. o = a \/ o < a
          BY <3>1 DEF Objects
        <5>3. o < a => end[o] <= start[a]
          BY <3>1, FinalEnabled
        <5>4. start[a] \in Nat /\ size[a] \in Nat /\ size[o] \in Nat
          BY FinalFacts
        <5> QED BY <1>0, <5>1, <5>2, <5>3, <5>4
      <4>4. end[a] \in Nat /\ end[b] \in Nat /\ end[p] \in Nat
        BY FinalFacts
      <4> QED BY <1>0, <4>1, <4>2, <4>3, <4>4, RFacts
    <3>2. u < v \/ v < u
      BY <2>2 DEF Objects
    <3> QED BY <2>1, <2>2, <3>1, <3>2
  <2>3. NoOwners(o, v) /\ NoOwners(v + 1, p)
    <3>1. ASSUME NEW u \in Objects, o <= u, u < v PROVE ~owns[u]
      <4>1. u < p /\ u # v
        BY <2>1, <3>1 DEF Objects
      <4> QED BY <2>2, <3>1, <4>1
    <3>2. ASSUME NEW u \in Objects, v + 1 <= u, u < p PROVE ~owns[u]
      <4>1. o <= u /\ u # v
        BY <2>1, <3>2 DEF Objects
      <4> QED BY <2>2, <3>2, <4>1
    <3> QED BY <3>1, <3>2 DEF NoOwners
  <2>4. base[v] - base[o] = start[v] - start[o]
    BY <2>1, <2>3, FinalEnabled
  <2>5. base[p] - base[v] = start[p] - start[v] + ThunkBytes(v)
    BY <2>1, <2>3, BehindOwner
  <2>6. /\ base[v] \in Nat /\ start[v] \in Nat /\ ThunkBytes(v) \in Nat /\ size[v] \in Nat
    BY FinalFacts
  <2>7. size[v] + ThunkBytes(v) <= MaxThunkBytes
    BY <2>1 DEF MarginSuffices, FitAfter
  <2> QED BY <1>0, <2>4, <2>5, <2>6, <2>7
<1> QED BY <1>1, <1>2

\* A thunk lies behind the code of the owner of its block.
LEMMA ThunkPlace ==
  ASSUME Final, enabled, NEW w \in Objects, owns[w], NEW s
  PROVE  /\ thunks[block[w]] # NoAddress /\ ThunkAddress(block[w], s) \in Nat
         /\ base[w] + size[w] <= ThunkAddress(block[w], s)
         /\ ThunkAddress(block[w], s) <= base[w] + size[w] + ThunkBytes(w)
<1> DEFINE all == symbols[block[w]]
           before == {t \in all : t < s}
<1>1. thunks[block[w]] = base[w] + size[w] /\ base[w] \in Nat /\ size[w] \in Nat
  BY FinalEnabled, FinalFacts
<1>2. IsFiniteSet(all)
  BY BlockSymbols DEF Final
<1>3. before \in SUBSET all
  OBVIOUS
<1>4. ThunkBytes(w) = ThunkSize * Cardinality(all)
      /\ ThunkAddress(block[w], s) = thunks[block[w]] + ThunkSize * Cardinality(before)
  BY DEF ThunkBytes, ThunkAddress
<1> HIDE DEF all, before
<1>5. Cardinality(all) \in Nat /\ Cardinality(before) \in Nat /\ Cardinality(before) <= Cardinality(all)
  <2>1. IsFiniteSet(before) /\ Cardinality(before) <= Cardinality(all)
    BY <1>2, <1>3, FS_Subset
  <2> QED BY <1>2, <2>1, FS_CardinalityType
<1>6. PICK x \in Nat, y \in Nat : /\ x = ThunkSize * Cardinality(before)
                                 /\ y = ThunkSize * Cardinality(all) /\ x <= y
  BY <1>5, ThunkLengths
<1>7. ThunkAddress(block[w], s) = base[w] + size[w] + x /\ ThunkBytes(w) = y
  BY <1>1, <1>4, <1>6
<1> QED BY <1>1, <1>6, <1>7 DEF NoAddress

LEMMA RangeNumbers ==
  /\ MinBranchRange \in Nat /\ MaxThunkBytes \in Nat /\ R \in Nat /\ Low \in Nat
  /\ R + MaxThunkBytes = MinBranchRange
<1>1. MinBranchRange \in Nat /\ MaxThunkBytes \in Nat
  BY SizesAssumption
<1> QED BY <1>1, RangeFacts DEF R, BranchRange

\* A branch of an object is at its first or its last instruction.
LEMMA PlaceFacts ==
  ASSUME Final, NEW last \in BOOLEAN
  PROVE  /\ \A o \in Objects : HasCode(o) =>
              /\ Place(o, last) \in Nat /\ base[o] <= Place(o, last) /\ Place(o, last) < base[o] + size[o]
         /\ Place(0, last) \in Nat /\ (Place(0, last) = 0 \/ Place(0, last) < Low)
<1>1. ASSUME NEW o \in Objects, HasCode(o)
      PROVE  Place(o, last) \in Nat /\ base[o] <= Place(o, last) /\ Place(o, last) < base[o] + size[o]
  <2>1. o # 0 /\ base[o] \in Nat /\ size[o] \in Nat /\ size[o] > 0
    <3>1. o # 0
      BY NFacts DEF Objects
    <3>2. base[o] \in Nat /\ size[o] \in Nat
      BY FinalFacts
    <3> QED BY <1>1, <3>1, <3>2 DEF HasCode
  <2>2. Place(o, last) = base[o] + size[o] - 1 \/ Place(o, last) = base[o]
    BY <2>1 DEF Place
  <2> QED BY <2>1, <2>2
<1>2. Low \in Nat /\ (Place(0, last) = 0 \/ (Low > 0 /\ Place(0, last) = Low - 1))
  BY RangeNumbers DEF Place
<1> QED BY <1>1, <1>2

LEMMA HomeFacts ==
  ASSUME Requested, NEW s \in Symbols, Home[s] # 0
  PROVE  Home[s] \in Objects /\ HasCode(Home[s])
<1>1. Home[s] \in 0..N
  BY SizesAssumption
<1>2. Home[s] \in Objects
  BY <1>1, NFacts DEF Objects
<1> QED BY <1>2 DEF Requested, HasCode

\* No thunks: everything is in range of everything.
LEMMA ReachesWithout ==
  ASSUME GeneratedCodeFits, Final, ~enabled, NEW r \in Branches, NEW last \in BOOLEAN
  PROVE  Reaches(r[1], r[2], last)
<1> DEFINE s == r[2]
           source == r[1]
<1>1. s \in Symbols /\ (source = 0 \/ (source \in Objects /\ HasCode(source)))
  BY BranchFacts DEF Final, Requested, HasCode
<1>2. pos = Low + BytesUpTo(N) /\ BytesUpTo(N) + LowInput + Discarded < MinBranchRange
  <2>1. Laid(N + 1) /\ (N + 1) - 1 = N
    BY NFacts DEF Final, Layout
  <2>2. pos = Low + BytesUpTo(N)
    BY <2>1 DEF Laid
  <2> QED BY <2>2 DEF Final, Layout, ExecutableBytes
<1>3. pos \in Nat /\ pos <= MinBranchRange /\ Low <= pos
  <2>1. LowInput \in Nat /\ Discarded \in Nat /\ LowGenerated \in Nat
    BY SizesAssumption
  <2>2. BytesUpTo(N) \in Nat
    <3>1. N \in 0..N /\ size \in [Objects -> Nat]
      BY NFacts DEF Final, Inv, Typed
    <3> QED BY <3>1, BytesFacts
  <2>3. PICK n \in Nat : n = BytesUpTo(N)
    BY <2>2
  <2>4. LowGenerated <= Discarded + 1
    BY DEF GeneratedCodeFits
  <2>5. pos = LowInput + LowGenerated + n /\ n + LowInput + Discarded < MinBranchRange
    BY <1>2, <2>3 DEF Low
  <2>6. Low = LowInput + LowGenerated
    BY DEF Low
  <2> QED BY <2>1, <2>4, <2>5, <2>6, RangeNumbers
<1>4. Target(s) \in Nat /\ (Target(s) = 0 \/ Target(s) < pos)
  <2>1. CASE HasPlt[s] \/ Home[s] = 0
    BY <2>1 DEF Target
  <2>2. CASE ~(HasPlt[s] \/ Home[s] = 0)
    <3>1. Home[s] \in Objects /\ HasCode(Home[s])
      BY <1>1, <2>2, HomeFacts DEF Final
    <3>2. PICK h \in Objects : h = Home[s] /\ HasCode(h)
      BY <3>1
    <3>3. /\ base[h] + size[h] + ThunkBytes(h) <= pos /\ base[h] \in Nat /\ size[h] \in Nat
          /\ ThunkBytes(h) \in Nat /\ size[h] > 0
      BY <3>2, FinalFacts DEF HasCode
    <3>4. Target(s) = base[h]
      BY <2>2, <3>2 DEF Target
    <3> QED BY <1>3, <3>3, <3>4
  <2> QED BY <2>1, <2>2
<1>5. Place(source, last) \in Nat /\ (Place(source, last) = 0 \/ Place(source, last) < pos)
  <2>1. CASE source = 0
    <3>1. Place(0, last) \in Nat /\ (Place(0, last) = 0 \/ Place(0, last) < Low)
      BY PlaceFacts
    <3> QED BY <1>3, <2>1, <3>1, RangeNumbers
  <2>2. CASE source \in Objects /\ HasCode(source)
    <3>1. Place(source, last) \in Nat /\ Place(source, last) < base[source] + size[source]
      BY <2>2, PlaceFacts
    <3>2. /\ base[source] + size[source] + ThunkBytes(source) <= pos /\ base[source] \in Nat
          /\ size[source] \in Nat /\ ThunkBytes(source) \in Nat
      BY <2>2, FinalFacts
    <3> QED BY <1>3, <3>1, <3>2
  <2> QED BY <1>1, <2>1, <2>2
<1>6. MinBranchRange > 0
  BY RangeNumbers, RangeFacts
<1>7. InRange(Target(s) - Place(source, last))
  BY <1>3, <1>4, <1>5, <1>6, RangeNumbers DEF InRange
<1> QED BY <1>7 DEF Reaches

\* A branch of the non-primary code: to itself, or through the first block.
LEMMA ReachesFromLow ==
  ASSUME GeneratedCodeFits, Final, enabled, MarginSuffices,
         NEW r \in Branches, r[1] = 0, NEW last \in BOOLEAN
  PROVE  Reaches(r[1], r[2], last)
<1> DEFINE s == r[2]
<1>1. s \in Symbols
  BY BranchFacts DEF Final, Requested
<1>2. Place(0, last) \in Nat /\ (Place(0, last) = 0 \/ Place(0, last) < Low)
  BY PlaceFacts
<1>3. Low <= MinBranchRange /\ MinBranchRange > 0
  BY RangeNumbers, RangeFacts DEF GeneratedCodeFits
<1>4. CASE HasPlt[s] \/ Home[s] = 0
  <2>1. Target(s) = 0
    BY <1>4 DEF Target
  <2>2. InRange(Target(s) - Place(0, last))
    BY <1>2, <1>3, <2>1, RangeNumbers DEF InRange
  <2> QED BY <2>2 DEF Reaches
<1>5. CASE ~(HasPlt[s] \/ Home[s] = 0)
  <2>1. s \in symbols[FIRST]
    BY <1>5 DEF Final, Requested
  <2>2. Home[s] \in Objects /\ HasCode(Home[s])
    BY <1>1, <1>5, HomeFacts DEF Final
  <2>3. FirstPlaced
    BY <2>2, FinalEnabled DEF Final, Blocks
  <2>4. PICK w \in Objects : /\ owns[w] /\ block[w] = FIRST /\ HasCode(w) /\ start[w] = Low
                             /\ NoOwners(1, w)
    BY <2>3 DEF FirstPlaced
  <2>5. base[w] = Low
    <3>1. 1 \in Objects /\ 1 <= w /\ start[1] = Low /\ base[1] = Low /\ base[w] \in Nat
      <4>1. 1 <= w
        BY DEF Objects
      <4> QED BY <4>1, FinalEnabled, FinalFacts
    <3>2. base[w] - base[1] = start[w] - start[1]
      BY <2>4, <3>1, FinalEnabled
    <3> QED BY <2>4, <3>1, <3>2, RangeNumbers
  <2>6. PICK t \in Nat : /\ t = ThunkAddress(FIRST, s) /\ thunks[FIRST] # NoAddress
                         /\ base[w] + size[w] <= t /\ t <= base[w] + size[w] + ThunkBytes(w)
    BY <2>4, ThunkPlace
  <2>7. Low + size[w] + ThunkBytes(w) < MinBranchRange
    BY <2>4 DEF MarginSuffices, FitAfter
  <2>8. size[w] \in Nat /\ ThunkBytes(w) \in Nat
    BY FinalFacts
  <2>9. InRange(t - Place(0, last))
    BY <1>2, <2>5, <2>6, <2>7, <2>8, RangeNumbers DEF InRange
  <2> QED BY <2>1, <2>6, <2>9 DEF Reaches, BlockFor
<1> QED BY <1>4, <1>5

\* A branch that provably_in_range accepted.
LEMMA ReachesProvably ==
  ASSUME Final, enabled, MarginSuffices, NEW o \in Objects, HasCode(o), NEW s \in Symbols,
         ProvablyInRange(o, s), NEW last \in BOOLEAN
  PROVE  InRange(Target(s) - Place(o, last))
<1>1. /\ Place(o, last) \in Nat /\ base[o] <= Place(o, last) /\ Place(o, last) < base[o] + size[o]
  BY PlaceFacts
<1>2. /\ base[o] \in Nat /\ size[o] \in Nat /\ start[o] \in Nat /\ end[o] = start[o] + size[o] /\ size[o] < R
  BY FinalFacts, FinalEnabled
<1>3. CASE HasPlt[s] \/ Home[s] = 0
  <2>1. Target(s) = 0
    BY <1>3 DEF Target
  <2>2. end[o] < R
    <3>1. CASE Home[s] = 0
      BY <3>1 DEF ProvablyInRange, R
    <3>2. CASE Home[s] # 0
      <4>1. PICK h \in Objects : h = Home[s]
        BY <3>2, HomeFacts DEF Final
      <4>2. Larger(end[o], end[h]) - Smaller(start[o], 0) < R
        BY <1>3, <3>2, <4>1 DEF ProvablyInRange, DefStart, R
      <4>3. end[h] \in Nat
        BY FinalFacts
      <4> QED BY <1>2, <4>2, <4>3, RangeNumbers DEF Larger, Smaller
    <3> QED BY <3>1, <3>2
  <2>3. 1 \in Objects /\ 1 <= o /\ start[1] = Low /\ base[1] = Low
    <3>1. 1 <= o
      BY DEF Objects
    <3> QED BY <3>1, FinalEnabled, FinalFacts
  <2>4. end[o] - start[1] < R
    BY <1>2, <2>2, <2>3, RangeNumbers
  <2>5. base[o] - base[1] <= start[o] - start[1] + MaxThunkBytes
    BY <2>3, <2>4, Gap
  <2> QED BY <1>1, <1>2, <2>1, <2>2, <2>3, <2>5, RangeNumbers DEF InRange
<1>4. CASE ~(HasPlt[s] \/ Home[s] = 0)
  <2>1. PICK h \in Objects : h = Home[s]
    BY <1>4, HomeFacts DEF Final
  <2>2. Target(s) = base[h]
    BY <1>4, <2>1 DEF Target
  <2>3. Larger(end[o], end[h]) - Smaller(start[o], start[h]) < R
    BY <1>4, <2>1 DEF ProvablyInRange, DefStart, R
  <2>4. /\ base[h] \in Nat /\ size[h] \in Nat /\ start[h] \in Nat /\ end[h] = start[h] + size[h]
    BY FinalFacts, FinalEnabled
  <2>5. end[h] - start[o] < R /\ end[o] - start[h] < R
    BY <1>2, <2>3, <2>4, RangeNumbers DEF Larger, Smaller
  <2>6. CASE o <= h
    <3>1. /\ start[h] - start[o] <= base[h] - base[o]
          /\ base[h] - base[o] <= start[h] - start[o] + MaxThunkBytes
      BY <2>5, <2>6, Gap
    <3>2. base[o] <= base[h]
      <4>1. o = h \/ o < h
        BY <2>6 DEF Objects
      <4>2. o < h => base[o] + size[o] + ThunkBytes(o) <= base[h] /\ ThunkBytes(o) \in Nat
        BY FinalFacts
      <4> QED BY <1>2, <2>4, <4>1, <4>2
    <3> QED BY <1>1, <1>2, <2>2, <2>4, <2>5, <3>1, <3>2, RangeNumbers DEF InRange
  <2>7. CASE h <= o
    <3>1. base[o] - base[h] <= start[o] - start[h] + MaxThunkBytes
      BY <2>5, <2>7, Gap
    <3>2. base[h] <= base[o]
      <4>1. o = h \/ h < o
        BY <2>7 DEF Objects
      <4>2. h < o => base[h] + size[h] + ThunkBytes(h) <= base[o] /\ ThunkBytes(h) \in Nat
        BY FinalFacts
      <4> QED BY <1>2, <2>4, <4>1, <4>2
    <3> QED BY <1>1, <1>2, <2>2, <2>4, <2>5, <3>1, <3>2, RangeNumbers, RFacts DEF InRange
  <2> QED BY <2>6, <2>7 DEF Objects
<1> QED BY <1>3, <1>4

\* A branch through the thunk in the block of its object.
LEMMA ReachesThunk ==
  ASSUME Final, enabled, MarginSuffices, NEW o \in Objects, HasCode(o),
         NEW s \in symbols[block[o]], NEW last \in BOOLEAN
  PROVE  thunks[block[o]] # NoAddress /\ InRange(ThunkAddress(block[o], s) - Place(o, last))
<1>1. /\ Place(o, last) \in Nat /\ base[o] <= Place(o, last) /\ Place(o, last) < base[o] + size[o]
  BY PlaceFacts
<1>2. /\ base[o] \in Nat /\ size[o] \in Nat /\ start[o] \in Nat /\ end[o] = start[o] + size[o]
      /\ ThunkBytes(o) \in Nat
  BY FinalFacts, FinalEnabled
<1>3. PICK w \in Objects : InReachOf(o, w)
  BY FinalEnabled DEF Final, Inv, Placed
<1>4. /\ owns[w] /\ block[w] = block[o] /\ HasCode(w) /\ end[o] - end[w] < R
      /\ end[w] - start[o] < R + size[w] \/ o = w
  BY <1>3 DEF InReachOf
<1>5. PICK t \in Nat : /\ t = ThunkAddress(block[o], s) /\ thunks[block[o]] # NoAddress
                       /\ base[w] + size[w] <= t /\ t <= base[w] + size[w] + ThunkBytes(w)
  BY <1>4, ThunkPlace
<1>6. /\ base[w] \in Nat /\ size[w] \in Nat /\ start[w] \in Nat /\ end[w] = start[w] + size[w]
      /\ ThunkBytes(w) \in Nat
  BY FinalFacts, FinalEnabled
<1>7. size[w] + ThunkBytes(w) <= MaxThunkBytes
  BY <1>4 DEF MarginSuffices, FitAfter
<1>8. CASE o = w
  <2>1. InRange(t - Place(o, last))
    BY <1>1, <1>2, <1>5, <1>6, <1>7, <1>8, RangeNumbers, RFacts DEF InRange
  <2> QED BY <1>5, <2>1
<1>9. CASE o < w
  <2>1. NoOwners(o, w)
    BY <1>4, <1>9, FinalEnabled DEF Final, Blocks, NextBlock
  <2>2. base[w] - base[o] = start[w] - start[o]
    BY <1>9, <2>1, FinalEnabled DEF Objects
  <2>3. end[w] - start[o] < R + size[w]
    BY <1>4, <1>9 DEF Objects
  <2>4. base[o] + size[o] + ThunkBytes(o) <= base[w]
    BY <1>9, FinalFacts
  <2>5. InRange(t - Place(o, last))
    BY <1>1, <1>2, <1>5, <1>6, <1>7, <2>2, <2>3, <2>4, RangeNumbers DEF InRange
  <2> QED BY <1>5, <2>5
<1>10. CASE w < o
  <2>1. NoOwners(w + 1, o)
    <3> SUFFICES ASSUME NEW v \in Objects, w + 1 <= v, v < o, owns[v] PROVE FALSE
      BY DEF NoOwners
    <3>1. w < v
      BY DEF Objects
    <3>2. end[v] - end[w] >= R
      BY <1>4, <3>1, FinalEnabled DEF Owners
    <3>3. end[v] <= start[o] /\ end[v] \in Nat
      BY FinalEnabled, FinalFacts
    <3> QED BY <1>2, <1>4, <1>6, <3>2, <3>3, RFacts
  <2>2. base[o] - base[w] = start[o] - start[w] + ThunkBytes(w)
    BY <1>10, <2>1, BehindOwner
  <2>3. base[w] + size[w] + ThunkBytes(w) <= base[o]
    BY <1>10, FinalFacts
  <2>4. InRange(t - Place(o, last))
    BY <1>1, <1>2, <1>4, <1>5, <1>6, <1>7, <2>2, <2>3, RangeNumbers, RFacts DEF InRange
  <2> QED BY <1>5, <2>4
<1> QED BY <1>8, <1>9, <1>10 DEF Objects

LEMMA AllReach ==
  ASSUME GeneratedCodeFits, Final, MarginSuffices, NEW r \in Branches, NEW last \in BOOLEAN
  PROVE  Reaches(r[1], r[2], last)
<1>1. CASE ~enabled
  BY <1>1, ReachesWithout
<1>2. CASE enabled /\ r[1] = 0
  BY <1>2, ReachesFromLow
<1>3. CASE enabled /\ r[1] # 0
  <2>1. r[1] \in Objects /\ HasCode(r[1]) /\ r[2] \in Symbols
    BY <1>3, BranchFacts DEF Final, Requested, HasCode
  <2>2. ProvablyInRange(r[1], r[2]) \/ r[2] \in symbols[block[r[1]]]
    BY <1>3 DEF Final, Requested
  <2>3. CASE ProvablyInRange(r[1], r[2])
    <3>1. InRange(Target(r[2]) - Place(r[1], last))
      BY <1>3, <2>1, <2>3, ReachesProvably
    <3> QED BY <3>1 DEF Reaches
  <2>4. CASE r[2] \in symbols[block[r[1]]]
    <3>1. thunks[block[r[1]]] # NoAddress /\ InRange(ThunkAddress(block[r[1]], r[2]) - Place(r[1], last))
      BY <1>3, <2>1, <2>4, ReachesThunk
    <3> QED BY <1>3, <2>4, <3>1 DEF Reaches, BlockFor
  <2> QED BY <2>2, <2>3, <2>4
<1> QED BY <1>1, <1>2, <1>3

\* Where the margin suffices the writer has met no branch out of range.
WrittenInRange == MarginSuffices => pc # "error"

LEMMA WriteStep ==
  ASSUME GeneratedCodeFits
  PROVE  Inv /\ Blocks /\ Requested /\ Layout /\ WrittenInRange /\ [Next]_vars => WrittenInRange'
<1> SUFFICES ASSUME Inv, Blocks, Requested, Layout, WrittenInRange, [Next]_vars, MarginSuffices'
             PROVE  pc' # "error"
  BY DEF WrittenInRange
<1>1. CASE WriteBranches
  <2>1. pc = "write" /\ UNCHANGED <<size, owns, block, symbols>>
    BY <1>1 DEF WriteBranches, inputs, placing
  <2>2. \A o \in Objects : ThunkBytes(o)' = ThunkBytes(o)
    BY <2>1 DEF ThunkBytes
  <2>3. MarginSuffices
    BY <2>1, <2>2 DEF MarginSuffices, FitAfter
  <2>4. Final
    BY <2>1 DEF Final
  <2>5. \A r \in Branches, last \in BOOLEAN : Reaches(r[1], r[2], last)
    BY <2>3, <2>4, AllReach
  <2> QED BY <1>1, <2>5 DEF WriteBranches
<1>2. CASE Done \/ UNCHANGED vars
  <2>1. pc' = pc /\ UNCHANGED <<size, owns, block, symbols>>
    BY <1>2 DEF Done, vars
  <2>2. \A o \in Objects : ThunkBytes(o)' = ThunkBytes(o)
    BY <2>1 DEF ThunkBytes
  <2>3. MarginSuffices
    BY <2>1, <2>2 DEF MarginSuffices, FitAfter
  <2> QED BY <2>1, <2>3 DEF WrittenInRange
<1>3. CASE NewBuilder \/ ScanRelocations \/ CollectRange \/ ProcessRefs \/ LayoutObject
  BY <1>3 DEF NewBuilder, ScanRelocations, CollectRange, ProcessRefs, LayoutObject
<1>4. CASE AssignStep
  BY <1>4 DEF AssignStep, SkipEmpty, AssignFirst, AssignPrevious, StartNext, AssignNext,
              PlaceNext, FinishAssign, NextObject, Assigning
<1> QED BY <1>1, <1>2, <1>3, <1>4 DEF Next

LEMMA WriteInit == Init => WrittenInRange
BY DEF Init, WrittenInRange

LEMMA FewFit == ASSUME FewTargets PROVE Inv /\ Blocks /\ Requested => MarginSuffices
<1> SUFFICES ASSUME Inv, Blocks, Requested, NEW w \in Objects, owns[w]
             PROVE  FitAfter(size[w], ThunkBytes(w))
  BY DEF MarginSuffices
<1>1. refs \in RefChoices /\ size[w] \in Sizes
  BY DEF Requested
<1>2. FitAfter(size[w], ThunkSize * Cardinality(BranchedTo))
  BY <1>1 DEF FewTargets, BranchedTo
<1>3. IsFiniteSet(BranchedTo) /\ symbols[block[w]] \in SUBSET BranchedTo
  <2>1. refs \subseteq (0..N) \X Symbols
    BY <1>1, SizesAssumption
  <2>2. BranchedTo \in SUBSET Symbols /\ IsFiniteSet(Symbols)
    BY <2>1, SizesAssumption DEF BranchedTo
  <2>3. IsFiniteSet(BranchedTo)
    BY <2>2, FS_Subset
  <2> QED BY <2>3, BlockSymbols
<1>4. /\ IsFiniteSet(symbols[block[w]])
      /\ Cardinality(symbols[block[w]]) <= Cardinality(BranchedTo)
  BY <1>3, FS_Subset
<1>5. Cardinality(symbols[block[w]]) \in Nat /\ Cardinality(BranchedTo) \in Nat
  BY <1>3, <1>4, FS_CardinalityType
<1>6. PICK x \in Nat, y \in Nat : /\ x = ThunkSize * Cardinality(symbols[block[w]])
                                 /\ y = ThunkSize * Cardinality(BranchedTo) /\ x <= y
  BY <1>4, <1>5, ThunkLengths
<1>7. ThunkBytes(w) = x
  BY <1>6 DEF ThunkBytes
<1>8. FitAfter(size[w], y) /\ size[w] \in Nat
  BY <1>2, <1>6 DEF Inv, Typed
<1> QED BY <1>6, <1>7, <1>8, RangeNumbers DEF FitAfter

LEMMA LayoutInvariant == Spec => [](Inv /\ Blocks /\ Requested /\ Layout)
<1>1. Init => Inv /\ Blocks /\ Requested /\ Layout
  BY InitInv, BlocksInit, RequestedInit, LayoutInit
<1>2. Inv /\ Blocks /\ Requested /\ Layout /\ [Next]_vars => (Inv /\ Blocks /\ Requested /\ Layout)'
  BY StepInv, BlocksStep, RequestedStep, LayoutStep
<1> QED BY <1>1, <1>2, PTL DEF Spec

\* write_object: whatever the objects, their sizes and their branches, no branch
\* is out of range while every block's thunks and the code of its owner fit in
\* the margin that was left for them.
THEOREM BranchesReach ==
  ASSUME GeneratedCodeFits
  PROVE  Spec => [](MarginSuffices => EveryBranchReaches)
<1> DEFINE All == Inv /\ Blocks /\ Requested /\ Layout
<1>1. Spec => []All
  BY LayoutInvariant
<1>2. All /\ WrittenInRange /\ [Next]_vars => WrittenInRange'
  BY WriteStep
<1>3. Init => WrittenInRange
  BY WriteInit
<1>4. WrittenInRange => (MarginSuffices => EveryBranchReaches)
  BY DEF WrittenInRange, EveryBranchReaches
<1> HIDE DEF All
<1> QED BY <1>1, <1>2, <1>3, <1>4, PTL DEF Spec

\* The same from the inputs alone: with few targets to branch to the margin does
\* suffice, and no link ends with a branch out of range.
THEOREM BranchesToFewTargetsReach ==
  ASSUME GeneratedCodeFits, FewTargets
  PROVE  Spec => []EveryBranchReaches
<1>1. Spec => []MarginSuffices
  <2>1. Inv /\ Blocks /\ Requested /\ Layout => MarginSuffices
    BY FewFit
  <2> QED BY <2>1, LayoutInvariant, PTL
<1>2. Spec => [](MarginSuffices => EveryBranchReaches)
  BY BranchesReach
<1> QED BY <1>1, <1>2, PTL

=============================================================================
