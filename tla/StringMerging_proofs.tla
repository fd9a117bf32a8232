----------------------- MODULE StringMerging_proofs -----------------------
(***************************************************************************)
(* Theorems about StringMerging and StringSplit, for any number of         *)
(* buckets, any size of the pool, of a block and of a group, and any       *)
(* sections and strings.                                                   *)
(***************************************************************************)
EXTENDS StringSplit, FiniteSetTheorems, NaturalsInduction, WellFoundedInduction, TLAPS

(* The bucket has taken the strings of the group.                          *)
Consumed(g, b) ==
  \/ next[b] > g
  \/ next[b] = g /\ pc[b] \in {"merge", "return", "load", "reserve", "dropped"}

(* The bucket has the vector of the group in its hands.                    *)
Processing(g, b) == next[b] = g /\ pc[b] \in {"merge", "return", "dropped"}

(* Where the hand-over of a vector stands, by the group's progress and the *)
(* bucket's: this is what makes the slot say who comes second.             *)
HandOver(g, b) ==
  /\ Consumed(g, b) => published[g] > b
  /\ slot[<<g, b>>] = "Strings" <=> (published[g] > b /\ ~Consumed(g, b))
  /\ slot[<<g, b>>] = "WaitingForStrings" <=> (next[b] = g /\ pc[b] = "parked")
  /\ <<g, b>> \in held <=> /\ Popped(g) /\ ~groups[g].fails
                           /\ published[g] <= b \/ slot[<<g, b>>] = "Strings" \/ Processing(g, b)
  /\ published[g] > 0 => Popped(g) /\ ~groups[g].fails

HandOverInv == \A g \in GroupIndex, b \in Bucket : HandOver(g, b)

BoundsInv == \A b \in Bucket :
  /\ next[b] <= Len(groups) \/ pc[b] \in {"slot", "finished"}
  /\ pc[b] = "finished" => next[b] > Len(groups)
  /\ pc[b] = "dropped" => error # "none"

(* The vectors that tasks which have not started may take.                 *)
Reserved == NumBuckets * spawned

(* An error only loses vectors.                                            *)
PoolInv ==
  /\ IsFiniteSet(held)
  /\ available + Reserved + Cardinality(held) <= Capacity
  /\ error = "none" => available + Reserved + Cardinality(held) = Capacity
  /\ stored + Cardinality(held) <= Capacity
  /\ \A a \in Actor : pc[a] = "reserve" => seen[a] >= NumBuckets

(* While groups are left there is a task to process one, a vector whose    *)
(* return makes somebody look at the pool, or somebody who is going to     *)
(* look at it or who has seen it full.                                     *)
Witness(a) == pc[a] = "load" \/ (pc[a] = "reserve" /\ seen[a] = Capacity)

ProgressInv ==
  error = "none" /\ popped < Len(groups) =>
    \/ spawned > 0
    \/ held # {}
    \/ \E a \in Actor : Witness(a)

IInv == HandOverInv /\ BoundsInv /\ PoolInv /\ ProgressInv

---------------------------------------------------------------------------
LEMMA ConstantFacts ==
  /\ NumBuckets \in Nat \ {0} /\ SplitParallelism \in Nat \ {0}
  /\ Capacity \in Nat /\ Capacity >= NumBuckets
  /\ Main \notin Bucket
<1>1. NumBuckets \in Nat \ {0} /\ SplitParallelism \in Nat \ {0} /\ Main \notin Bucket
  BY PoolAssumption, StringAssumption
<1>2. NumBuckets * SplitParallelism \in Nat /\ NumBuckets * SplitParallelism >= NumBuckets
  BY <1>1, SMT
<1> QED BY <1>1, <1>2 DEF Capacity

LEMMA TypeFacts ==
  ASSUME TypeOK
  PROVE  /\ groups \in Seq(SectionGroup) /\ Len(groups) \in Nat
         /\ popped \in Nat /\ popped <= Len(groups)
         /\ available \in Nat /\ stored \in Nat /\ spawned \in Nat
         /\ Reserved \in Nat /\ (spawned = 0 => Reserved = 0)
         /\ Bucket \subseteq Nat /\ GroupIndex \subseteq Nat
         /\ \A b \in Bucket : next[b] \in Nat /\ next[b] >= 1 /\ next[b] <= Len(groups) + 1
         /\ \A g \in GroupIndex : published[g] \in Nat /\ published[g] <= NumBuckets
<1>1. groups \in Seq(SectionGroup) BY DEF TypeOK
<1>2. Len(groups) \in Nat BY <1>1
<1>3. NumBuckets \in Nat BY ConstantFacts
<1>4. spawned \in Nat /\ available \in Nat /\ stored \in Nat BY DEF TypeOK
<1>5. Reserved \in Nat /\ (spawned = 0 => Reserved = 0) BY <1>3, <1>4, SMT DEF Reserved
<1>6. popped \in 0 .. Len(groups) BY DEF TypeOK
<1>7. next \in [Bucket -> 1 .. Len(groups) + 1] BY DEF TypeOK
<1>8. published \in [GroupIndex -> 0 .. NumBuckets] BY DEF TypeOK
<1> QED BY <1>1, <1>2, <1>3, <1>4, <1>5, <1>6, <1>7, <1>8, SMTT(60) DEF Bucket, GroupIndex

(* A task more or less.                                                    *)
LEMMA ReservedStep ==
  ASSUME TypeOK
  PROVE  /\ UNCHANGED spawned => Reserved' = Reserved
         /\ spawned' = spawned + 1 => Reserved' = Reserved + NumBuckets
         /\ spawned' = spawned - 1 => Reserved' = Reserved - NumBuckets
         /\ spawned > 0 => Reserved >= NumBuckets
<1>1. NumBuckets \in Nat /\ spawned \in Nat BY ConstantFacts, TypeFacts
<1>2. NumBuckets * (spawned + 1) = NumBuckets * spawned + NumBuckets BY <1>1, SMT
<1>3. NumBuckets * (spawned - 1) = NumBuckets * spawned - NumBuckets BY <1>1, SMT
<1>4. spawned > 0 => NumBuckets * spawned >= NumBuckets BY <1>1, SMT
<1> QED BY <1>2, <1>3, <1>4, Zenon DEF Reserved

(* The numbers of the pool, apart from the rest of the invariant.          *)
LEMMA PoolFacts ==
  ASSUME TypeOK, IInv
  PROVE  /\ IsFiniteSet(held) /\ Cardinality(held) \in Nat
         /\ available + Reserved + Cardinality(held) <= Capacity
         /\ error = "none" => available + Reserved + Cardinality(held) = Capacity
         /\ stored + Cardinality(held) <= Capacity
         /\ \A a \in Actor : pc[a] = "reserve" => seen[a] >= NumBuckets
<1>1. PoolInv BY DEF IInv
<1>2. Cardinality(held) \in Nat BY <1>1, FS_CardinalityType DEF PoolInv
<1> QED BY <1>1, <1>2 DEF PoolInv

LEMMA InitIInv == Init => TypeOK /\ IInv
<1> SUFFICES ASSUME Init PROVE TypeOK /\ IInv OBVIOUS
<1> USE ConstantFacts
<1>1. groups \in Seq(SectionGroup) /\ Len(groups) \in Nat /\ Len(groups) > 0
  BY StringAssumption DEF Init
<1>2. TypeOK
  BY <1>1 DEF Init, TypeOK, Vector, GroupIndex, Actor
<1>3. HandOverInv
  <2> SUFFICES ASSUME NEW g \in GroupIndex, NEW b \in Bucket PROVE HandOver(g, b)
    BY DEF HandOverInv
  <2>1. <<g, b>> \in Vector /\ b \in Actor /\ b # Main BY DEF Vector, Actor
  <2>2. published[g] = 0 /\ next[b] = 1 /\ pc[b] = "parked" /\ held = {} /\ popped = 0
    BY <2>1 DEF Init
  <2>3. slot[<<g, b>>] = IF g = 1 THEN "WaitingForStrings" ELSE "Empty"
    BY <2>1 DEF Init
  <2>4. g \in Nat /\ g >= 1 /\ b \in Nat BY <1>1 DEF GroupIndex, Bucket
  <2> QED BY <2>2, <2>3, <2>4 DEF HandOver, Consumed, Processing, Popped
<1>4. BoundsInv BY <1>1 DEF Init, BoundsInv, Bucket, Actor
<1>5. PoolInv
  <2>1. IsFiniteSet(held) /\ Cardinality(held) = 0 BY FS_EmptySet DEF Init
  <2>2. Reserved = 0 BY DEF Init, Reserved
  <2> QED BY <2>1, <2>2 DEF Init, PoolInv
<1>6. ProgressInv BY DEF Init, ProgressInv, Witness, Actor
<1> QED BY <1>2, <1>3, <1>4, <1>5, <1>6 DEF IInv

(* The hand-over depends only on which of three sets the bucket is in.     *)
LEMMA SameHandOver ==
  ASSUME HandOverInv,
         UNCHANGED <<groups, popped, held, published, slot, next>>,
         \A b \in Bucket : \/ pc'[b] = pc[b]
                            \/ {pc[b], pc'[b]} \subseteq {"load", "reserve"}
                            \/ {pc[b], pc'[b]} \subseteq {"merge", "return", "dropped"}
                            \/ {pc[b], pc'[b]} \subseteq {"slot", "finished"}
  PROVE  HandOverInv'
<1> SUFFICES ASSUME NEW g \in GroupIndex, NEW b \in Bucket PROVE HandOver(g, b)'
  BY DEF HandOverInv, GroupIndex
<1>1. HandOver(g, b) BY DEF HandOverInv
<1>2. (Consumed(g, b)' <=> Consumed(g, b)) /\ (Processing(g, b)' <=> Processing(g, b))
  BY DEF Consumed, Processing
<1>3. pc'[b] = "parked" <=> pc[b] = "parked" OBVIOUS
<1> QED BY <1>1, <1>2, <1>3 DEF HandOver, Popped

---------------------------------------------------------------------------
(* Steps of the spawning loop move an actor between "load", "reserve" and  *)
(* what follows; the hand-over does not depend on which.                   *)
LEMMA LoadAvailableStep ==
  ASSUME TypeOK, IInv, NEW a \in Actor, LoadAvailable(a)
  PROVE  TypeOK' /\ IInv'
<1> USE ConstantFacts, TypeFacts
<1>1. TypeOK' BY DEF TypeOK, LoadAvailable, Vector, GroupIndex, Actor
<1>2. \A c \in Actor : pc'[c] = IF c = a THEN "reserve" ELSE pc[c]
  BY DEF TypeOK, LoadAvailable
<1>3. \A c \in Actor : seen'[c] = IF c = a THEN available ELSE seen[c]
  BY DEF TypeOK, LoadAvailable
<1>4. HandOverInv'
  BY <1>2, SameHandOver DEF LoadAvailable, IInv, Actor
<1>5. BoundsInv'
  <2> SUFFICES ASSUME NEW b \in Bucket
               PROVE  pc'[b] = pc[b] \/ (pc[b] = "load" /\ pc'[b] = "reserve")
    BY DEF LoadAvailable, IInv, BoundsInv
  <2> QED BY <1>2 DEF LoadAvailable, Actor
<1>6. PoolInv'
  BY <1>2, <1>3, ReservedStep DEF LoadAvailable, IInv, PoolInv
<1>7. ProgressInv'
  <2> SUFFICES ASSUME error = "none", popped < Len(groups), spawned = 0, held = {}
               PROVE  \E c \in Actor : Witness(c)'
    BY DEF LoadAvailable, ProgressInv, TypeOK
  <2>1. Cardinality(held) = 0 BY FS_EmptySet
  <2>2. available = Capacity BY <2>1 DEF IInv, PoolInv
  <2> QED BY <2>2, <1>2, <1>3 DEF LoadAvailable, Witness
<1> QED BY <1>1, <1>4, <1>5, <1>6, <1>7 DEF IInv

(* Leaving the loop: the vector the bucket came from is consumed.          *)
LEMMA LeaveSpawningStep ==
  ASSUME TypeOK, IInv, NEW a \in Actor, pc[a] \in {"load", "reserve"}, LeaveSpawning(a),
         UNCHANGED <<groups, popped, available, stored, held, spawned, published, slot,
                     bucket, offsets, error, merged>>
  PROVE  TypeOK' /\ HandOverInv' /\ BoundsInv' /\ PoolInv'
<1> USE ConstantFacts, TypeFacts
<1>1. a # Main => a \in Bucket /\ next[a] <= Len(groups) /\ next[a] \in Nat
  BY DEF Actor, IInv, BoundsInv
<1>2. \A c \in Actor : pc'[c] = IF c = a THEN (IF a = Main THEN "finished" ELSE "slot") ELSE pc[c]
  BY DEF TypeOK, LeaveSpawning
<1>3. \A b \in Bucket : next'[b] = IF b = a THEN next[b] + 1 ELSE next[b]
  BY DEF TypeOK, LeaveSpawning
<1>4. TypeOK'
  <2>1. next' \in [Bucket -> 1 .. Len(groups) + 1]
    <3>1. next \in [Bucket -> 1 .. Len(groups) + 1] BY DEF TypeOK
    <3>2. a # Main => next[a] + 1 \in 1 .. Len(groups) + 1 BY <1>1
    <3> QED BY <3>1, <3>2 DEF LeaveSpawning
  <2>2. pc' \in [Actor -> {"load", "reserve", "slot", "merge", "return", "parked", "dropped", "finished"}]
        /\ pc'[Main] \in {"load", "reserve", "finished"}
    BY DEF TypeOK, LeaveSpawning, Actor
  <2>3. seen' \in [Actor -> Nat] BY DEF TypeOK, LeaveSpawning
  <2> QED BY <2>1, <2>2, <2>3 DEF TypeOK, Vector, GroupIndex
<1>5. HandOverInv'
  <2> SUFFICES ASSUME NEW g \in GroupIndex, NEW b \in Bucket PROVE HandOver(g, b)'
    BY DEF HandOverInv, GroupIndex
  <2>1. HandOver(g, b) BY DEF IInv, HandOverInv
  <2>2. b \in Actor /\ b # Main /\ next[b] \in Nat /\ g \in Nat BY DEF Actor
  <2>3. CASE b # a BY <2>1, <2>2, <2>3, <1>2, <1>3 DEF HandOver, Consumed, Processing, Popped
  <2>4. CASE b = a
    <3>1. pc'[b] = "slot" /\ next'[b] = next[b] + 1 /\ pc[b] \in {"load", "reserve"}
      BY <2>2, <2>4, <1>2, <1>3
    <3>2. Consumed(g, b)' <=> Consumed(g, b) BY <3>1, <2>2 DEF Consumed
    <3>3. ~Processing(g, b) /\ ~Processing(g, b)' BY <3>1 DEF Processing
    <3> QED BY <2>1, <3>1, <3>2, <3>3 DEF HandOver, Popped
  <2> QED BY <2>3, <2>4
<1>6. BoundsInv' BY <1>1, <1>2, <1>3, ZenonT(60) DEF IInv, BoundsInv, Actor, TypeOK
<1>7. PoolInv' BY <1>2, ReservedStep DEF IInv, PoolInv, LeaveSpawning
<1> QED BY <1>4, <1>5, <1>6, <1>7

LEMMA FindPoolEmptyStep ==
  ASSUME TypeOK, IInv, NEW a \in Actor, FindPoolEmpty(a)
  PROVE  TypeOK' /\ IInv'
<1> USE ConstantFacts, TypeFacts
<1>1. TypeOK' /\ HandOverInv' /\ BoundsInv' /\ PoolInv'
  BY LeaveSpawningStep DEF FindPoolEmpty
<1>2. ProgressInv'
  <2> SUFFICES ASSUME error = "none" PROVE spawned > 0 \/ held # {}
    BY DEF FindPoolEmpty, ProgressInv
  <2> SUFFICES ASSUME spawned = 0, held = {} PROVE FALSE OBVIOUS
  <2>1. Cardinality(held) = 0 BY FS_EmptySet
  <2> QED BY <2>1 DEF IInv, PoolInv, FindPoolEmpty
<1> QED BY <1>1, <1>2 DEF IInv

LEMMA LoseReservationStep ==
  ASSUME TypeOK, IInv, NEW a \in Actor, LoseReservation(a)
  PROVE  TypeOK' /\ IInv'
<1> USE ConstantFacts, TypeFacts
<1>1. TypeOK' /\ HandOverInv' /\ BoundsInv' /\ PoolInv'
  BY LeaveSpawningStep DEF LoseReservation
<1>2. \A c \in Actor \ {a} : pc'[c] = pc[c] /\ seen'[c] = seen[c]
  BY DEF TypeOK, LoseReservation, LeaveSpawning
<1>3. ProgressInv'
  <2> SUFFICES ASSUME error = "none", popped < Len(groups), spawned = 0, held = {}
               PROVE  \E c \in Actor : Witness(c)'
    BY DEF LoseReservation, ProgressInv, TypeOK
  <2>1. Cardinality(held) = 0 BY FS_EmptySet
  <2>2. available = Capacity BY <2>1 DEF IInv, PoolInv
  <2>3. PICK c \in Actor : Witness(c) BY DEF IInv, ProgressInv
  <2>4. c # a BY <2>2, <2>3 DEF Witness, LoseReservation
  <2> QED BY <2>3, <2>4, <1>2 DEF Witness
<1> QED BY <1>1, <1>3 DEF IInv

LEMMA ReserveAndSpawnStep ==
  ASSUME TypeOK, IInv, NEW a \in Actor, ReserveAndSpawn(a)
  PROVE  TypeOK' /\ IInv'
<1> USE ConstantFacts, TypeFacts
<1>1. available >= NumBuckets BY DEF IInv, PoolInv, ReserveAndSpawn
<1>2. TypeOK'
  <2>1. available' \in Nat /\ spawned' \in Nat BY <1>1 DEF ReserveAndSpawn
  <2>2. seen' \in [Actor -> Nat] BY DEF TypeOK, ReserveAndSpawn
  <2> QED BY <2>1, <2>2 DEF TypeOK, ReserveAndSpawn, Vector, GroupIndex, Actor
<1>3. \A c \in Actor : pc'[c] = IF c = a THEN "load" ELSE pc[c]
  BY DEF TypeOK, ReserveAndSpawn
<1>4. \A c \in Actor : seen'[c] = IF c = a THEN 0 ELSE seen[c]
  BY DEF TypeOK, ReserveAndSpawn
<1>5. HandOverInv'
  BY <1>3, SameHandOver DEF ReserveAndSpawn, IInv, Actor
<1>6. BoundsInv'
  BY <1>3, SMTT(60) DEF ReserveAndSpawn, IInv, BoundsInv, Actor
<1>7. PoolInv'
  <2>1. Reserved' = Reserved + NumBuckets BY ReservedStep DEF ReserveAndSpawn
  <2>2. Cardinality(held) \in Nat BY FS_CardinalityType DEF IInv, PoolInv
  <2>3. available' = available - NumBuckets /\ UNCHANGED <<held, stored, error>>
    BY DEF ReserveAndSpawn
  <2>4. \A c \in Actor : pc'[c] = "reserve" => seen'[c] >= NumBuckets
    BY <1>3, <1>4 DEF IInv, PoolInv
  <2>5. available' + Reserved' + Cardinality(held') = available + Reserved + Cardinality(held)
    BY <2>1, <2>2, <2>3
  <2> QED BY <2>3, <2>4, <2>5 DEF IInv, PoolInv
<1>8. ProgressInv' BY DEF ReserveAndSpawn, ProgressInv
<1> QED BY <1>2, <1>5, <1>6, <1>7, <1>8 DEF IInv

---------------------------------------------------------------------------
(* Input tasks.                                                            *)
LEMMA FindNoGroupStep ==
  ASSUME TypeOK, IInv, FindNoGroup
  PROVE  TypeOK' /\ IInv'
<1> USE ConstantFacts, TypeFacts
<1>1. TypeOK'
  <2>1. available' \in Nat /\ spawned' \in Nat BY DEF FindNoGroup
  <2> QED BY <2>1 DEF TypeOK, FindNoGroup, Vector, GroupIndex, Actor
<1>2. HandOverInv' BY SameHandOver DEF FindNoGroup, IInv
<1>3. BoundsInv' BY DEF FindNoGroup, IInv, BoundsInv
<1>4. PoolInv'
  <2>1. Reserved' = Reserved - NumBuckets BY ReservedStep DEF FindNoGroup
  <2>2. Cardinality(held) \in Nat BY FS_CardinalityType DEF IInv, PoolInv
  <2>3. available' = available + NumBuckets /\ UNCHANGED <<held, stored, error, pc, seen>>
    BY DEF FindNoGroup
  <2>4. available' + Reserved' + Cardinality(held') = available + Reserved + Cardinality(held)
    BY <2>1, <2>2, <2>3
  <2> QED BY <2>3, <2>4 DEF IInv, PoolInv
<1>5. ProgressInv' BY DEF FindNoGroup, ProgressInv
<1> QED BY <1>1, <1>2, <1>3, <1>4, <1>5 DEF IInv

LEMMA VectorsOfGroup ==
  ASSUME TypeOK, NEW g \in GroupIndex, IsFiniteSet(held), held \cap ({g} \X Bucket) = {}
  PROVE  /\ IsFiniteSet(held \cup ({g} \X Bucket))
         /\ Cardinality(held \cup ({g} \X Bucket)) = Cardinality(held) + NumBuckets
<1>1. IsFiniteSet({g}) /\ Cardinality({g}) = 1
  BY FS_Singleton
<1>2. IsFiniteSet(Bucket) /\ Cardinality(Bucket) = NumBuckets
  <2>1. NumBuckets - 1 \in Int /\ ~(0 > NumBuckets - 1) /\ NumBuckets - 1 - 0 + 1 = NumBuckets
    BY ConstantFacts
  <2>2. IsFiniteSet(0 .. NumBuckets - 1) /\ Cardinality(0 .. NumBuckets - 1) = NumBuckets - 1 - 0 + 1
    BY <2>1, FS_Interval
  <2> QED BY <2>1, <2>2 DEF Bucket
<1>3. IsFiniteSet({g} \X Bucket) /\ Cardinality({g} \X Bucket) = 1 * NumBuckets
  BY <1>1, <1>2, FS_Product
<1>4. Cardinality(held \cap ({g} \X Bucket)) = 0 BY FS_EmptySet
<1>5. Cardinality(held) \in Nat BY FS_CardinalityType
<1>6. /\ IsFiniteSet(held \cup ({g} \X Bucket))
      /\ Cardinality(held \cup ({g} \X Bucket))
           = Cardinality(held) + Cardinality({g} \X Bucket) - Cardinality(held \cap ({g} \X Bucket))
  BY <1>3, FS_Union
<1> QED BY <1>3, <1>4, <1>5, <1>6, ConstantFacts

(* A group that was not popped has handed over nothing and holds nothing.  *)
LEMMA NotPoppedFacts ==
  ASSUME TypeOK, IInv, popped < Len(groups)
  PROVE  /\ popped + 1 \in GroupIndex
         /\ published[popped + 1] = 0
         /\ held \cap ({popped + 1} \X Bucket) = {}
<1> USE ConstantFacts, TypeFacts
<1>1. popped + 1 \in GroupIndex BY DEF GroupIndex
<1>2. 0 \in Bucket BY DEF Bucket
<1>3. ~Popped(popped + 1) BY DEF Popped
<1>4. \A b \in Bucket : HandOver(popped + 1, b) BY <1>1 DEF IInv, HandOverInv
<1>5. ~(published[popped + 1] > 0) BY <1>2, <1>3, <1>4 DEF HandOver
<1>6. published[popped + 1] = 0 BY <1>1, <1>5
<1>7. ASSUME NEW b \in Bucket PROVE <<popped + 1, b>> \notin held
  BY <1>3, <1>4 DEF HandOver
<1> QED BY <1>1, <1>6, <1>7

LEMMA ProcessInputStep ==
  ASSUME TypeOK, IInv, ProcessInputSectionGroup
  PROVE  TypeOK' /\ IInv'
<1> USE ConstantFacts, TypeFacts
<1> DEFINE g == popped + 1
           fails == groups[g].fails
<1>1. /\ spawned > 0 /\ popped < Len(groups) /\ popped' = g /\ spawned' = spawned - 1
      /\ stored' = IF stored < NumBuckets THEN 0 ELSE stored - NumBuckets
      /\ UNCHANGED <<groups, available, published, slot, next, bucket, offsets, pc, seen, merged>>
  BY DEF ProcessInputSectionGroup
<1>2. CASE fails
  <2>1. held' = held /\ error' \in {"unterminated", "too large"}
    BY <1>2 DEF ProcessInputSectionGroup, Push, TypeOK
  <2>2. TypeOK'
    <3>1. popped' \in 0 .. Len(groups) /\ spawned' \in Nat /\ stored' \in Nat BY <1>1
    <3> QED BY <1>1, <2>1, <3>1 DEF TypeOK, Vector, GroupIndex, Actor
  <2>3. HandOverInv'
    <3> SUFFICES ASSUME NEW h \in GroupIndex, NEW b \in Bucket PROVE HandOver(h, b)'
      BY <1>1 DEF HandOverInv, GroupIndex
    <3>1. HandOver(h, b) BY DEF IInv, HandOverInv
    <3>2. Popped(h)' <=> Popped(h) \/ h = g BY <1>1 DEF Popped
    <3>3. (Consumed(h, b)' <=> Consumed(h, b)) /\ (Processing(h, b)' <=> Processing(h, b))
      BY <1>1 DEF Consumed, Processing
    <3>4. h = g => groups[h].fails BY <1>2
    <3> QED BY <1>1, <2>1, <3>1, <3>2, <3>3, <3>4 DEF HandOver
  <2>4. BoundsInv' BY <1>1, <2>1 DEF IInv, BoundsInv
  <2>5. PoolInv'
    <3>1. Reserved' = Reserved - NumBuckets BY <1>1, ReservedStep
    <3>2. stored' <= stored /\ stored' \in Nat BY <1>1
    <3>3. held' = held /\ available' = available BY <1>1, <2>1
    <3>4. available' + Reserved' + Cardinality(held') <= Capacity BY PoolFacts, <3>1, <3>3, SMTT(60)
    <3>5. stored' + Cardinality(held') <= Capacity BY PoolFacts, <3>2, <3>3
    <3>6. error' # "none" BY <2>1
    <3>7. \A a \in Actor : pc'[a] = "reserve" => seen'[a] >= NumBuckets BY <1>1, PoolFacts
    <3>8. IsFiniteSet(held') BY <3>3, PoolFacts
    <3> QED BY <3>4, <3>5, <3>6, <3>7, <3>8 DEF PoolInv
  <2>6. ProgressInv' BY <2>1 DEF ProgressInv
  <2> QED BY <2>2, <2>3, <2>4, <2>5, <2>6 DEF IInv
<1>3. CASE ~fails
  <2>1. held' = held \cup ({g} \X Bucket) /\ error' = error
    BY <1>3 DEF ProcessInputSectionGroup
  <2>2. g \in GroupIndex /\ published[g] = 0 /\ held \cap ({g} \X Bucket) = {}
    BY <1>1, NotPoppedFacts
  <2>3. TypeOK'
    <3>1. popped' \in 0 .. Len(groups) /\ spawned' \in Nat /\ stored' \in Nat BY <1>1
    <3>2. held' \subseteq GroupIndex \X Bucket BY <2>1, <2>2 DEF TypeOK, Vector
    <3> QED BY <1>1, <2>1, <3>1, <3>2 DEF TypeOK, Vector, GroupIndex, Actor
  <2>4. HandOverInv'
    <3> SUFFICES ASSUME NEW h \in GroupIndex, NEW b \in Bucket PROVE HandOver(h, b)'
      BY <1>1 DEF HandOverInv, GroupIndex
    <3>1. HandOver(h, b) BY DEF IInv, HandOverInv
    <3>2. Popped(h)' <=> Popped(h) \/ h = g BY <1>1 DEF Popped
    <3>3. (Consumed(h, b)' <=> Consumed(h, b)) /\ (Processing(h, b)' <=> Processing(h, b))
      BY <1>1 DEF Consumed, Processing
    <3>4. <<h, b>> \in held' <=> <<h, b>> \in held \/ h = g BY <2>1
    <3>5. h = g => published[h] <= b /\ ~groups[h].fails BY <2>2, <1>3
    <3> QED BY <1>1, <3>1, <3>2, <3>3, <3>4, <3>5 DEF HandOver
  <2>5. BoundsInv' BY <1>1, <2>1 DEF IInv, BoundsInv
  <2>6. PoolInv'
    <3>1. Reserved' = Reserved - NumBuckets BY <1>1, ReservedStep
    <3>2. Cardinality(held) \in Nat BY PoolFacts
    <3>3. IsFiniteSet(held') /\ Cardinality(held') = Cardinality(held) + NumBuckets
      BY <2>1, <2>2, PoolFacts, VectorsOfGroup
    <3>4. available' = available /\ error' = error BY <1>1, <2>1
    <3>5. available' + Reserved' + Cardinality(held') = available + Reserved + Cardinality(held)
      BY <3>1, <3>2, <3>3, <3>4
    <3>6. Reserved >= NumBuckets BY <1>1, ReservedStep
    <3>7. stored' + Cardinality(held') <= Capacity
      <4>1. CASE stored < NumBuckets
        <5>1. stored' = 0 BY <1>1, <4>1
        <5> QED BY <5>1, <3>2, <3>3, <3>6, PoolFacts
      <4>2. CASE ~(stored < NumBuckets)
        <5>1. stored' = stored - NumBuckets BY <1>1, <4>2
        <5> QED BY <5>1, <3>2, <3>3, PoolFacts
      <4> QED BY <4>1, <4>2
    <3>8. \A a \in Actor : pc'[a] = "reserve" => seen'[a] >= NumBuckets BY <1>1, PoolFacts
    <3>9. /\ available' + Reserved' + Cardinality(held') <= Capacity
          /\ error' = "none" => available' + Reserved' + Cardinality(held') = Capacity
      BY <3>4, <3>5, PoolFacts
    <3> QED BY <3>3, <3>7, <3>8, <3>9 DEF PoolInv
  <2>7. ProgressInv'
    <3>1. <<g, 0>> \in held' BY <2>1 DEF Bucket
    <3> QED BY <3>1 DEF ProgressInv
  <2> QED BY <2>3, <2>4, <2>5, <2>6, <2>7 DEF IInv
<1> QED BY <1>2, <1>3

---------------------------------------------------------------------------
(* A bucket that moves on without looking at the pool.                     *)
LEMMA QuietStep ==
  ASSUME TypeOK, IInv, NEW b \in Bucket,
         pc[b] \notin {"load", "reserve"}, pc'[b] # "reserve",
         \A c \in Actor : c # b => pc'[c] = pc[c],
         UNCHANGED <<groups, popped, available, stored, held, spawned, seen>>,
         error' = error \/ error' # "none"
  PROVE  PoolInv' /\ ProgressInv'
<1>1. Reserved' = Reserved BY ReservedStep
<1>2. PoolInv'
  <2>1. \A a \in Actor : pc'[a] = "reserve" => seen'[a] >= NumBuckets BY PoolFacts
  <2>2. error' = "none" => available' + Reserved' + Cardinality(held') = Capacity
    BY <1>1, PoolFacts
  <2>3. /\ IsFiniteSet(held') /\ available' + Reserved' + Cardinality(held') <= Capacity
        /\ stored' + Cardinality(held') <= Capacity
    BY <1>1, PoolFacts
  <2> QED BY <2>1, <2>2, <2>3 DEF PoolInv
<1>3. ProgressInv'
  <2> SUFFICES ASSUME error = "none", popped < Len(groups), ~(spawned > 0), held = {}
               PROVE  \E a \in Actor : Witness(a)'
    BY DEF ProgressInv
  <2>1. PICK a \in Actor : Witness(a) BY DEF IInv, ProgressInv
  <2>2. a # b BY <2>1 DEF Witness
  <2> QED BY <2>1, <2>2 DEF Witness
<1> QED BY <1>2, <1>3

LEMMA PublishStringsStep ==
  ASSUME TypeOK, IInv, NEW g \in GroupIndex, PublishStrings(g)
  PROVE  TypeOK' /\ IInv'
<1> USE ConstantFacts, TypeFacts
<1> DEFINE b == published[g]
           waits == slot[<<g, b>>] = "WaitingForStrings"
<1>1. /\ Popped(g) /\ ~groups[g].fails /\ b < NumBuckets
      /\ UNCHANGED <<groups, popped, available, stored, held, spawned,
                     next, bucket, offsets, seen, error, merged>>
  BY DEF PublishStrings
<1>2. b \in Bucket /\ b \in Actor /\ b # Main /\ <<g, b>> \in Vector
  BY <1>1 DEF Bucket, Actor, Vector
<1>3. \A v \in Vector : slot'[v] = IF v = <<g, b>> THEN "Strings" ELSE slot[v]
  BY DEF TypeOK, PublishStrings
<1>4. \A c \in Actor : pc'[c] = IF c = b /\ waits THEN "slot" ELSE pc[c]
  BY DEF TypeOK, PublishStrings
<1>5. \A h \in GroupIndex : published'[h] = IF h = g THEN b + 1 ELSE published[h]
  BY DEF TypeOK, PublishStrings
<1>6. TypeOK'
  <2>1. published' \in [GroupIndex -> 0 .. NumBuckets]
    <3>1. b + 1 \in 0 .. NumBuckets BY <1>1
    <3>2. published \in [GroupIndex -> 0 .. NumBuckets] BY DEF TypeOK
    <3>3. published' = [published EXCEPT ![g] = b + 1] BY DEF PublishStrings
    <3> QED BY <3>1, <3>2, <3>3
  <2>2. slot' \in [Vector -> {"Empty", "WaitingForStrings", "Strings"}]
    BY DEF TypeOK, PublishStrings
  <2>3. pc' \in [Actor -> {"load", "reserve", "slot", "merge", "return", "parked", "dropped", "finished"}]
        /\ pc'[Main] \in {"load", "reserve", "finished"}
    BY <1>2, <1>4 DEF TypeOK, PublishStrings, Actor
  <2> QED BY <1>1, <2>1, <2>2, <2>3 DEF TypeOK, Vector, GroupIndex
<1>7. HandOver(g, b) BY <1>2 DEF IInv, HandOverInv
<1>8. waits => next[b] = g /\ pc[b] = "parked" BY <1>7 DEF HandOver
<1>9. HandOverInv'
  <2> SUFFICES ASSUME NEW h \in GroupIndex, NEW c \in Bucket PROVE HandOver(h, c)'
    BY <1>1 DEF HandOverInv, GroupIndex
  <2>1. HandOver(h, c) BY DEF IInv, HandOverInv
  <2>2. c \in Actor /\ <<h, c>> \in Vector BY DEF Actor, Vector
  <2>3. Popped(h)' <=> Popped(h) BY <1>1 DEF Popped
  <2>4. (Consumed(h, c)' <=> Consumed(h, c)) /\ (Processing(h, c)' <=> Processing(h, c))
    BY <1>1, <1>4, <1>8, <2>2 DEF Consumed, Processing
  <2>5. CASE h = g /\ c = b
    <3>1. ~Consumed(h, c) /\ published'[h] > c /\ slot'[<<h, c>>] = "Strings"
      BY <1>3, <1>5, <1>7, <2>2, <2>5 DEF HandOver
    <3>2. ~(next'[c] = h /\ pc'[c] = "parked") BY <1>1, <1>4, <1>7, <2>2, <2>5 DEF HandOver
    <3>3. <<h, c>> \in held' /\ Popped(h)' /\ ~groups'[h].fails
      BY <1>1, <1>7, <2>3, <2>5 DEF HandOver
    <3> QED BY <2>4, <3>1, <3>2, <3>3 DEF HandOver
  <2>6. CASE ~(h = g /\ c = b)
    <3>1. slot'[<<h, c>>] = slot[<<h, c>>] BY <1>3, <2>2, <2>6
    <3>2. (published'[h] > c <=> published[h] > c) /\ (published'[h] <= c <=> published[h] <= c)
      <4>1. CASE h # g BY <1>5, <4>1
      <4>2. CASE h = g
        <5>1. published'[h] = published[h] + 1 /\ c # published[h] BY <1>5, <2>6, <4>2
        <5>2. c \in Nat /\ published[h] \in Nat OBVIOUS
        <5> QED BY <5>1, <5>2
      <4> QED BY <4>1, <4>2
    <3>3. (next'[c] = h /\ pc'[c] = "parked") <=> (next[c] = h /\ pc[c] = "parked")
      BY <1>1, <1>4, <1>8, <2>2, <2>6
    <3>4. published'[h] > 0 => Popped(h) /\ ~groups[h].fails
      BY <1>1, <1>5, <2>1 DEF HandOver
    <3>5. groups' = groups /\ held' = held BY <1>1
    <3> QED BY <2>1, <2>3, <2>4, <3>1, <3>2, <3>3, <3>4, <3>5 DEF HandOver
  <2> QED BY <2>5, <2>6
<1>10. BoundsInv' BY <1>1, <1>4, <1>8 DEF IInv, BoundsInv, Actor
<1>11. PoolInv' /\ ProgressInv'
  <2>1. CASE waits
    <3>1. pc[b] = "parked" /\ pc'[b] = "slot" BY <1>2, <1>4, <1>8, <2>1
    <3>2. \A c \in Actor : c # b => pc'[c] = pc[c] BY <1>4
    <3> QED BY <1>1, <1>2, <3>1, <3>2, QuietStep
  <2>2. CASE ~waits
    <3>1. \A c \in Actor : pc'[c] = pc[c] BY <1>4, <2>2
    <3>2. Reserved' = Reserved BY <1>1, ReservedStep
    <3>3. PoolInv' BY <1>1, <3>1, <3>2 DEF IInv, PoolInv
    <3>4. ProgressInv' BY <1>1, <3>1 DEF IInv, ProgressInv, Witness
    <3> QED BY <3>3, <3>4
  <2> QED BY <2>1, <2>2
<1> QED BY <1>6, <1>9, <1>10, <1>11 DEF IInv

---------------------------------------------------------------------------
(* Bucket tasks.                                                           *)
LEMMA SlotStep ==
  ASSUME TypeOK, IInv, NEW b \in Bucket, TakeStrings(b) \/ WaitForStrings(b)
  PROVE  TypeOK' /\ IInv'
<1> USE ConstantFacts, TypeFacts
<1> DEFINE g == next[b]
           takes == slot[<<g, b>>] = "Strings"
<1>1. /\ pc[b] = "slot" /\ g \in GroupIndex
      /\ UNCHANGED <<groups, popped, available, stored, held, spawned, published,
                     next, bucket, offsets, seen, error, merged>>
  BY DEF TakeStrings, WaitForStrings, GroupIndex
<1>2. b \in Actor /\ b # Main /\ <<g, b>> \in Vector BY <1>1 DEF Actor, Vector
<1>3. \A v \in Vector : slot'[v] = IF v = <<g, b>> THEN (IF takes THEN "Empty" ELSE "WaitingForStrings")
                                   ELSE slot[v]
  BY DEF TypeOK, TakeStrings, WaitForStrings
<1>4. \A c \in Actor : pc'[c] = IF c = b THEN (IF takes THEN "merge" ELSE "parked") ELSE pc[c]
  BY DEF TypeOK, TakeStrings, WaitForStrings
<1>5. TypeOK'
  <2>1. slot' \in [Vector -> {"Empty", "WaitingForStrings", "Strings"}]
    BY DEF TypeOK, TakeStrings, WaitForStrings
  <2>2. pc' \in [Actor -> {"load", "reserve", "slot", "merge", "return", "parked", "dropped", "finished"}]
        /\ pc'[Main] \in {"load", "reserve", "finished"}
    BY <1>2 DEF TypeOK, TakeStrings, WaitForStrings, Actor
  <2> QED BY <1>1, <2>1, <2>2 DEF TypeOK, Vector, GroupIndex
<1>6. HandOverInv'
  <2> SUFFICES ASSUME NEW h \in GroupIndex, NEW c \in Bucket PROVE HandOver(h, c)'
    BY <1>1 DEF HandOverInv, GroupIndex
  <2>1. HandOver(h, c) BY DEF IInv, HandOverInv
  <2>2. c \in Actor /\ <<h, c>> \in Vector BY DEF Actor, Vector
  <2>3. Popped(h)' <=> Popped(h) BY <1>1 DEF Popped
  <2>4. CASE c = b /\ h = g
    <3>1. pc[c] = "slot" /\ next[c] = h /\ next'[c] = h BY <1>1, <2>4
    <3>2. ~Consumed(h, c) BY <3>1 DEF Consumed
    <3>3. CASE takes
      <4>1. pc'[c] = "merge" /\ slot'[<<h, c>>] = "Empty" /\ published[h] > c
        BY <1>3, <1>4, <2>1, <2>2, <2>4, <3>3 DEF HandOver
      <4>2. Consumed(h, c)' /\ Processing(h, c)' BY <3>1, <4>1 DEF Consumed, Processing
      <4>3. slot[<<h, c>>] = "Strings" BY <2>4, <3>3
      <4> QED BY <1>1, <2>1, <2>3, <3>1, <4>1, <4>2, <4>3 DEF HandOver
    <3>4. CASE ~takes
      <4>1. pc'[c] = "parked" /\ slot'[<<h, c>>] = "WaitingForStrings" /\ slot[<<h, c>>] # "Strings"
        BY <1>3, <1>4, <2>2, <2>4, <3>4
      <4>2. ~Consumed(h, c)' /\ ~Processing(h, c)' /\ ~Processing(h, c)
        BY <3>1, <4>1 DEF Consumed, Processing
      <4> QED BY <1>1, <2>1, <2>3, <3>1, <3>2, <4>1, <4>2 DEF HandOver
    <3> QED BY <3>3, <3>4
  <2>5. CASE ~(c = b /\ h = g)
    <3>1. slot'[<<h, c>>] = slot[<<h, c>>] BY <1>3, <2>2, <2>5
    <3>2. c = b => next[c] # h BY <2>5
    <3>3. /\ Consumed(h, c)' <=> Consumed(h, c)
          /\ Processing(h, c)' <=> Processing(h, c)
          /\ (next'[c] = h /\ pc'[c] = "parked") <=> (next[c] = h /\ pc[c] = "parked")
      BY <1>1, <1>4, <2>2, <3>2 DEF Consumed, Processing
    <3> QED BY <1>1, <2>1, <2>3, <3>1, <3>3 DEF HandOver
  <2> QED BY <2>4, <2>5
<1>7. BoundsInv' BY <1>1, <1>4, SMTT(60) DEF IInv, BoundsInv, Actor, GroupIndex
<1>8. PoolInv' /\ ProgressInv'
  <2>1. pc[b] = "slot" /\ pc'[b] \in {"merge", "parked"} BY <1>1, <1>2, <1>4
  <2>2. \A c \in Actor : c # b => pc'[c] = pc[c] BY <1>4
  <2> QED BY <1>1, <2>1, <2>2, QuietStep
<1> QED BY <1>5, <1>6, <1>7, <1>8 DEF IInv

LEMMA FinishBucketStep ==
  ASSUME TypeOK, IInv, NEW b \in Bucket, FinishBucket(b)
  PROVE  TypeOK' /\ IInv'
<1> USE ConstantFacts, TypeFacts
<1>1. /\ pc[b] = "slot" /\ next[b] > Len(groups)
      /\ UNCHANGED <<groups, popped, available, stored, held, spawned, published, slot,
                     next, bucket, offsets, seen, error, merged>>
  BY DEF FinishBucket
<1>2. \A c \in Actor : pc'[c] = IF c = b THEN "finished" ELSE pc[c] BY DEF TypeOK, FinishBucket
<1>3. b \in Actor /\ b # Main BY DEF Actor
<1>4. TypeOK' BY <1>1, <1>3 DEF TypeOK, FinishBucket, Vector, GroupIndex, Actor
<1>5. HandOverInv'
  <2>1. \A c \in Bucket : pc'[c] = pc[c] \/ {pc[c], pc'[c]} \subseteq {"slot", "finished"}
    BY <1>1, <1>2 DEF Actor
  <2> QED BY <1>1, <2>1, SameHandOver DEF IInv
<1>6. BoundsInv' BY <1>1, <1>2 DEF IInv, BoundsInv, Actor
<1>7. PoolInv' /\ ProgressInv'
  <2>1. pc'[b] = "finished" BY <1>2, <1>3
  <2>2. \A c \in Actor : c # b => pc'[c] = pc[c] BY <1>2
  <2> QED BY <1>1, <2>1, <2>2, QuietStep
<1> QED BY <1>4, <1>5, <1>6, <1>7 DEF IInv

(* Whatever the strings are, the bucket goes on or is dropped with an      *)
(* error.                                                                  *)
LEMMA ProcessSplitOutputStep ==
  ASSUME TypeOK, IInv, NEW b \in Bucket, ProcessSplitOutput(b)
  PROVE  TypeOK' /\ IInv'
<1> USE ConstantFacts, TypeFacts
<1>1. /\ pc[b] = "merge"
      /\ UNCHANGED <<groups, popped, available, stored, held, spawned, published, slot,
                     next, seen, merged>>
  BY DEF ProcessSplitOutput
<1>2. \/ Push("too large") /\ pc' = [pc EXCEPT ![b] = "dropped"]
      \/ pc' = [pc EXCEPT ![b] = "return"] /\ error' = error
  BY Zenon DEF ProcessSplitOutput
<1>3. /\ error' = error \/ error' # "none"
      /\ error' \in {"none", "unterminated", "too large"}
      /\ error # "none" => error' # "none"
  BY <1>2 DEF Push, TypeOK
<1>4. /\ pc'[b] \in {"return", "dropped"}
      /\ pc'[b] = "dropped" => error' # "none"
      /\ \A c \in Actor : c # b => pc'[c] = pc[c]
  BY <1>2 DEF Push, TypeOK, Actor
<1>5. b \in Actor /\ b # Main BY DEF Actor
<1>6. TypeOK'
  <2>1. pc' \in [Actor -> {"load", "reserve", "slot", "merge", "return", "parked", "dropped", "finished"}]
        /\ pc'[Main] \in {"load", "reserve", "finished"}
    BY <1>2, <1>5 DEF TypeOK, Actor
  <2> QED BY <1>1, <1>3, <2>1 DEF TypeOK, Vector, GroupIndex
<1>7. HandOverInv'
  <2>1. \A c \in Bucket : pc'[c] = pc[c] \/ {pc[c], pc'[c]} \subseteq {"merge", "return", "dropped"}
    BY <1>1, <1>4 DEF Actor
  <2> QED BY <1>1, <2>1, SameHandOver DEF IInv
<1>8. BoundsInv' BY <1>1, <1>3, <1>4 DEF IInv, BoundsInv, Actor
<1>9. PoolInv' /\ ProgressInv' BY <1>1, <1>3, <1>4, QuietStep
<1> QED BY <1>6, <1>7, <1>8, <1>9 DEF IInv

LEMMA ReturnStringsStep ==
  ASSUME TypeOK, IInv, NEW b \in Bucket, ReturnStrings(b)
  PROVE  TypeOK' /\ IInv'
<1> USE ConstantFacts, TypeFacts
<1> DEFINE g == next[b]
<1>1. /\ pc[b] = "return" /\ stored' = stored + 1 /\ available' = available + 1
      /\ held' = held \ {<<g, b>>}
      /\ UNCHANGED <<groups, popped, spawned, published, slot,
                     next, bucket, offsets, seen, error, merged>>
  BY DEF ReturnStrings
<1>2. \A c \in Actor : pc'[c] = IF c = b THEN "load" ELSE pc[c] BY DEF TypeOK, ReturnStrings
<1>3. b \in Actor /\ b # Main /\ g \in GroupIndex
  <2>1. g <= Len(groups) BY <1>1 DEF IInv, BoundsInv
  <2> QED BY <2>1 DEF Actor, GroupIndex
<1>4. HandOver(g, b) BY <1>3 DEF IInv, HandOverInv
<1>5. published[g] > b /\ slot[<<g, b>>] # "Strings" /\ <<g, b>> \in held
  <2>1. Consumed(g, b) /\ Processing(g, b) BY <1>1 DEF Consumed, Processing
  <2>2. published[g] > b /\ slot[<<g, b>>] # "Strings" BY <1>4, <2>1 DEF HandOver
  <2>3. published[g] > 0 BY <1>3, <2>2
  <2> QED BY <1>4, <2>1, <2>2, <2>3 DEF HandOver
<1>6. TypeOK'
  <2>1. stored' \in Nat /\ available' \in Nat BY <1>1
  <2>2. held' \subseteq Vector BY <1>1 DEF TypeOK
  <2>3. pc' \in [Actor -> {"load", "reserve", "slot", "merge", "return", "parked", "dropped", "finished"}]
        /\ pc'[Main] \in {"load", "reserve", "finished"}
    BY <1>3 DEF TypeOK, ReturnStrings, Actor
  <2> QED BY <1>1, <2>1, <2>2, <2>3 DEF TypeOK, Vector, GroupIndex
<1>7. HandOverInv'
  <2> SUFFICES ASSUME NEW h \in GroupIndex, NEW c \in Bucket PROVE HandOver(h, c)'
    BY <1>1 DEF HandOverInv, GroupIndex
  <2>1. HandOver(h, c) BY DEF IInv, HandOverInv
  <2>2. c \in Actor BY DEF Actor
  <2>3. Popped(h)' <=> Popped(h) BY <1>1 DEF Popped
  <2>4. Consumed(h, c)' <=> Consumed(h, c) BY <1>1, <1>2, <2>2 DEF Consumed
  <2>5. pc'[c] = "parked" <=> pc[c] = "parked" BY <1>1, <1>2, <2>2
  <2>6. CASE c = b /\ h = g
    <3>1. ~Processing(h, c)' BY <1>2, <2>2, <2>6 DEF Processing
    <3>2. <<h, c>> \notin held' BY <1>1, <2>6
    <3>3. ~(published[h] <= c) BY <1>5, <2>6
    <3>4. slot[<<h, c>>] # "Strings" BY <1>5, <2>6
    <3> QED BY <1>1, <2>1, <2>3, <2>4, <2>5, <3>1, <3>2, <3>3, <3>4 DEF HandOver
  <2>7. CASE ~(c = b /\ h = g)
    <3>1. Processing(h, c)' <=> Processing(h, c) BY <1>1, <1>2, <2>2, <2>7 DEF Processing
    <3>2. <<h, c>> \in held' <=> <<h, c>> \in held BY <1>1, <2>7
    <3> QED BY <1>1, <2>1, <2>3, <2>4, <2>5, <3>1, <3>2 DEF HandOver
  <2> QED BY <2>6, <2>7
<1>8. BoundsInv'
  <2>1. g <= Len(groups) BY <1>3 DEF GroupIndex
  <2> QED BY <1>1, <1>2, <2>1 DEF IInv, BoundsInv, Actor
<1>9. PoolInv'
  <2>1. Reserved' = Reserved BY <1>1, ReservedStep
  <2>2. IsFiniteSet(held') /\ Cardinality(held') = Cardinality(held) - 1
    BY <1>1, <1>5, PoolFacts, FS_RemoveElement
  <2>3. Cardinality(held) \in Nat BY PoolFacts
  <2>4. /\ available' + Reserved' + Cardinality(held') = available + Reserved + Cardinality(held)
        /\ stored' + Cardinality(held') = stored + Cardinality(held)
    <3>1. available' = available + 1 /\ stored' = stored + 1 BY <1>1
    <3>2. available \in Nat /\ stored \in Nat /\ Reserved \in Nat OBVIOUS
    <3>3. available + 1 + Reserved + (Cardinality(held) - 1) = available + Reserved + Cardinality(held)
      BY <2>3, <3>2
    <3>4. stored + 1 + (Cardinality(held) - 1) = stored + Cardinality(held)
      BY <2>3, <3>2
    <3> QED BY <2>1, <2>2, <3>1, <3>3, <3>4, Zenon
  <2>5. \A a \in Actor : pc'[a] = "reserve" => seen'[a] >= NumBuckets BY <1>1, <1>2, PoolFacts
  <2>6. error' = error BY <1>1
  <2>7. /\ available' + Reserved' + Cardinality(held') <= Capacity
        /\ error' = "none" => available' + Reserved' + Cardinality(held') = Capacity
        /\ stored' + Cardinality(held') <= Capacity
    BY <2>4, <2>6, PoolFacts
  <2> QED BY <2>2, <2>5, <2>7 DEF PoolInv
<1>10. ProgressInv' BY <1>2, <1>3 DEF ProgressInv, Witness
<1> QED BY <1>6, <1>7, <1>8, <1>9, <1>10 DEF IInv

LEMMA SameStep ==
  ASSUME TypeOK, IInv,
         UNCHANGED <<groups, popped, available, stored, held, spawned, published, slot,
                     next, bucket, offsets, pc, seen, error>>
  PROVE  TypeOK' /\ IInv'
<1>1. TypeOK' BY DEF TypeOK, Vector, GroupIndex, Actor
<1>2. HandOverInv' BY SameHandOver DEF IInv
<1>3. BoundsInv' BY DEF IInv, BoundsInv
<1>4. PoolInv' BY ReservedStep DEF IInv, PoolInv
<1>5. ProgressInv' BY DEF IInv, ProgressInv, Witness
<1> QED BY <1>1, <1>2, <1>3, <1>4, <1>5 DEF IInv

LEMMA NextStep == TypeOK /\ IInv /\ [Next]_vars => TypeOK' /\ IInv'
<1> SUFFICES ASSUME TypeOK, IInv, [Next]_vars PROVE TypeOK' /\ IInv' OBVIOUS
<1>1. CASE \E a \in Actor : Spawning(a)
  BY <1>1, LoadAvailableStep, FindPoolEmptyStep, ReserveAndSpawnStep, LoseReservationStep, Zenon
  DEF Spawning
<1>2. CASE FindNoGroup BY <1>2, FindNoGroupStep
<1>3. CASE ProcessInputSectionGroup BY <1>3, ProcessInputStep
<1>4. CASE \E g \in GroupIndex : PublishStrings(g) BY <1>4, PublishStringsStep
<1>5. CASE \E b \in Bucket : BucketTask(b)
  BY <1>5, SlotStep, FinishBucketStep, ProcessSplitOutputStep, ReturnStringsStep, Zenon
  DEF BucketTask
<1>6. CASE FinaliseSection BY <1>6, SameStep, Zenon DEF FinaliseSection
<1>7. CASE Ended \/ UNCHANGED vars BY <1>7, SameStep DEF Ended, vars
<1> QED BY <1>1, <1>2, <1>3, <1>4, <1>5, <1>6, <1>7 DEF Next

---------------------------------------------------------------------------
LEMMA Inductive == Spec => [](TypeOK /\ IInv)
BY InitIInv, NextStep, PTL DEF Spec

(* A group with a string that has no terminator leaves an error behind.    *)
ErrorInv == \A g \in GroupIndex : Popped(g) /\ groups[g].fails => error # "none"

LEMMA ErrorsReported == Spec => []ErrorInv
<1>1. Init => ErrorInv BY DEF Init, ErrorInv, Popped, GroupIndex
<1>2. TypeOK /\ ErrorInv /\ [Next]_vars => ErrorInv'
  <2> SUFFICES ASSUME TypeOK, ErrorInv, [Next]_vars PROVE ErrorInv' OBVIOUS
  <2>1. CASE ProcessInputSectionGroup
    <3> SUFFICES ASSUME NEW g \in GroupIndex, Popped(g)', groups[g].fails PROVE error' # "none"
      BY <2>1 DEF ErrorInv, GroupIndex, ProcessInputSectionGroup
    <3>1. CASE g = popped + 1
      BY <2>1, <3>1 DEF ProcessInputSectionGroup, Push
    <3>2. CASE g # popped + 1
      <4>1. Popped(g)
        BY <2>1, <3>2, TypeFacts DEF Popped, ProcessInputSectionGroup
      <4>2. error # "none" BY <4>1 DEF ErrorInv
      <4> QED BY <2>1, <4>2 DEF ProcessInputSectionGroup, Push
    <3> QED BY <3>1, <3>2
  <2>2. CASE UNCHANGED <<groups, popped>> /\ (error = "none" \/ error' = error)
    BY <2>2 DEF ErrorInv, GroupIndex, Popped
  <2>3. CASE \E a \in Actor : Spawning(a)
    BY <2>2, <2>3, Zenon DEF Spawning, LoadAvailable, FindPoolEmpty, ReserveAndSpawn, LoseReservation
  <2>4. CASE FindNoGroup BY <2>2, <2>4 DEF FindNoGroup
  <2>5. CASE \E g \in GroupIndex : PublishStrings(g) BY <2>2, <2>5, Zenon DEF PublishStrings
  <2>6. ASSUME NEW b \in Bucket, BucketTask(b)
        PROVE  UNCHANGED <<groups, popped>> /\ (error = "none" \/ error' = error)
    <3>1. CASE ProcessSplitOutput(b)
      <4>1. error = "none" \/ error' = error BY <3>1, Zenon DEF ProcessSplitOutput, Push
      <4> QED BY <3>1, <4>1, Zenon DEF ProcessSplitOutput
    <3> QED BY <2>6, <3>1, Zenon DEF BucketTask, TakeStrings, WaitForStrings, FinishBucket, ReturnStrings
  <2>7. CASE \E b \in Bucket : BucketTask(b) BY <2>2, <2>6, <2>7, Zenon
  <2>8. CASE FinaliseSection BY <2>2, <2>8 DEF FinaliseSection
  <2>9. CASE Ended \/ UNCHANGED vars BY <2>2, <2>9 DEF Ended, vars
  <2> QED BY <2>1, <2>3, <2>4, <2>5, <2>7, <2>8, <2>9 DEF Next
<1> QED BY <1>1, <1>2, Inductive, PTL DEF Spec

(* The state of add_input_sections keeps its shape: counters never go      *)
(* below zero, and a bucket never moves past the end of the groups.        *)
THEOREM MergeTypeCorrect == Spec => []TypeOK
BY Inductive, PTL

(* ReusePool: however many sections, buckets and tasks there are and in    *)
(* whatever order they run, the reserved, the used and the available       *)
(* vectors add up to the pool until an error loses some, and the queue of  *)
(* stored vectors never overflows.                                         *)
THEOREM MergePoolBalanced == Spec => []PoolBalanced
<1>1. TypeOK /\ IInv => PoolBalanced
  BY PoolFacts, TypeFacts DEF PoolBalanced, Reserved
<1> QED BY <1>1, Inductive, PTL

LEMMA CompleteAtEnd ==
  ASSUME TypeOK, IInv, ErrorInv, ScopeOver, error = "none"
  PROVE  popped = Len(groups) /\ \A b \in Bucket : pc[b] = "finished"
<1> USE ConstantFacts, TypeFacts
<1>1. \A b \in Bucket : pc[b] \in {"parked", "finished"}
  BY DEF ScopeOver, IInv, BoundsInv
<1>2. \A a \in Actor : ~Witness(a) BY <1>1 DEF Witness, Actor, ScopeOver
<1>3. ASSUME NEW g \in GroupIndex, NEW b \in Bucket, ~(next[b] > g)
      PROVE  ~Popped(g)
  <2>1. pc[b] = "parked" /\ next[b] \in GroupIndex
    BY <1>1, <1>3 DEF IInv, BoundsInv, GroupIndex
  <2>2. HandOver(next[b], b) BY <2>1 DEF IInv, HandOverInv
  <2>3. ~Consumed(next[b], b) BY <2>1 DEF Consumed
  <2>4. slot[<<next[b], b>>] = "WaitingForStrings" BY <2>1, <2>2 DEF HandOver
  <2>5. ~(published[next[b]] > b) BY <2>2, <2>3, <2>4 DEF HandOver
  <2>6. published[next[b]] # NumBuckets BY <2>1, <2>5 DEF Bucket
  <2>7. ~Popped(next[b]) BY <2>1, <2>6 DEF ScopeOver, ErrorInv
  <2> QED BY <1>3, <2>7 DEF Popped
<1>4. ASSUME NEW g \in GroupIndex, NEW b \in Bucket
      PROVE  <<g, b>> \notin held
  <2>1. HandOver(g, b) BY DEF IInv, HandOverInv
  <2>2. CASE next[b] > g
    <3>1. Consumed(g, b) BY <2>2 DEF Consumed
    <3>2. published[g] > b /\ slot[<<g, b>>] # "Strings" BY <2>1, <3>1 DEF HandOver
    <3>3. ~Processing(g, b) BY <1>1 DEF Processing
    <3>4. ~(published[g] <= b) BY <3>2
    <3> QED BY <2>1, <3>2, <3>3, <3>4 DEF HandOver
  <2>3. CASE ~(next[b] > g)
    <3>1. ~Popped(g) BY <1>3, <2>3
    <3> QED BY <2>1, <3>1 DEF HandOver
  <2> QED BY <2>2, <2>3
<1>5. held = {} BY <1>4 DEF TypeOK, Vector
<1>6. ~(popped < Len(groups))
  <2>1. ~(spawned > 0) BY DEF ScopeOver
  <2> QED BY <1>2, <1>5, <2>1 DEF IInv, ProgressInv
<1>7. popped = Len(groups) BY <1>6
<1>8. ASSUME NEW b \in Bucket PROVE pc[b] = "finished"
  <2>1. CASE next[b] \in GroupIndex
    <3>1. ~(next[b] > next[b]) /\ Popped(next[b]) BY <1>7, <2>1 DEF GroupIndex, Popped
    <3> QED BY <1>3, <2>1, <3>1
  <2>2. CASE next[b] \notin GroupIndex
    <3>1. next[b] > Len(groups) BY <2>2 DEF GroupIndex
    <3> QED BY <1>1, <3>1 DEF IInv, BoundsInv
  <2> QED BY <2>1, <2>2
<1> QED BY <1>7, <1>8

(* When the scope of add_input_sections is left without an error every     *)
(* group was popped and every bucket finished: no group is left because    *)
(* nobody was there to spawn a task for it, and no bucket stays parked in  *)
(* a slot.                                                                 *)
THEOREM MergeScopeEndsComplete == Spec => []ScopeEndsComplete
<1>1. TypeOK /\ IInv /\ ErrorInv => ScopeEndsComplete BY CompleteAtEnd DEF ScopeEndsComplete
<1> QED BY <1>1, Inductive, ErrorsReported, PTL

---------------------------------------------------------------------------
LEMMA LeastNumber ==
  ASSUME NEW S \in SUBSET Nat, S # {}
  PROVE  \E x \in S : \A y \in S : x <= y
<1> DEFINE Lt == {ss \in Nat \X Nat : ss[1] < ss[2]}
<1>1. IsWellFoundedOn(Lt, Nat) BY NatLessThanWellFounded DEF OpToRel
<1>2. \E x \in S : \A y \in S : <<y, x>> \notin Lt
  <2> HIDE DEF Lt
  <2> QED BY <1>1, WFMin
<1>3. PICK x \in S : \A y \in S : <<y, x>> \notin Lt BY <1>2
<1>4. ASSUME NEW y \in S PROVE x <= y
  <2>1. x \in Nat /\ y \in Nat OBVIOUS
  <2>2. ~(y < x) BY <1>3, <2>1
  <2> QED BY <2>1, <2>2
<1> QED BY <1>4

(* A set of numbers that holds zero and the successor of each of its       *)
(* elements below m holds all of them.                                     *)
LEMMA UpTo ==
  ASSUME NEW m \in Nat, NEW S, 0 \in S, \A n \in 0 .. m : n \in S /\ n < m => n + 1 \in S
  PROVE  \A n \in 0 .. m : n \in S
<1> SUFFICES ASSUME NEW k \in 0 .. m, k \notin S PROVE FALSE OBVIOUS
<1> DEFINE Bad == {n \in Nat : n <= m /\ n \notin S}
<1>1. Bad \in SUBSET Nat /\ Bad # {}
  <2>1. k \in Bad OBVIOUS
  <2> QED BY <2>1
<1>2. PICK n \in Bad : \A j \in Bad : n <= j
  <2> HIDE DEF Bad
  <2> QED BY <1>1, LeastNumber
<1>3. n \in Nat /\ n <= m /\ n \notin S /\ n # 0 BY <1>2
<1>4. n - 1 \in Nat /\ n - 1 <= m /\ n - 1 < m /\ ~(n <= n - 1) BY <1>3
<1>5. n - 1 \notin Bad
  <2> HIDE DEF Bad
  <2> QED BY <1>2, <1>4
<1>6. n - 1 \in S BY <1>4, <1>5
<1>7. (n - 1) + 1 \in S BY <1>4, <1>6
<1> QED BY <1>3, <1>7

(* A recursive function on the numbers up to m exists.  The rule is given  *)
(* as a function of the value before and the number.                       *)
Follows(f, m, base, rule) ==
  f[0] = base /\ \A n \in 1 .. m : f[n] = rule[<<f[n - 1], n>>]

LEMMA RecursionExists ==
  ASSUME NEW m \in Nat, NEW T, NEW base \in T, NEW rule \in [T \X (1 .. m) -> T]
  PROVE  \E f \in [0 .. m -> T] : Follows(f, m, base, rule)
<1> DEFINE Partial(k) == \E f \in [0 .. k -> T] :
                           f[0] = base /\ \A n \in 1 .. k : f[n] = rule[<<f[n - 1], n>>]
           S == {k \in 0 .. m : Partial(k)}
<1>1. Partial(0)
  <2> DEFINE f == [n \in 0 .. 0 |-> base]
  <2>1. f \in [0 .. 0 -> T] /\ f[0] = base /\ \A n \in 1 .. 0 : f[n] = rule[<<f[n - 1], n>>]
    OBVIOUS
  <2> QED BY <2>1
<1>2. ASSUME NEW k \in 0 .. m, k < m, Partial(k) PROVE Partial(k + 1)
  <2>1. PICK f \in [0 .. k -> T] :
          f[0] = base /\ \A n \in 1 .. k : f[n] = rule[<<f[n - 1], n>>]
    BY <1>2
  <2>2. f[k] \in T /\ k + 1 \in 1 .. m BY <1>2
  <2> DEFINE v == rule[<<f[k], k + 1>>]
             h == [n \in 0 .. k + 1 |-> IF n = k + 1 THEN v ELSE f[n]]
  <2>3. v \in T BY <2>2
  <2>4. h \in [0 .. k + 1 -> T]
    <3> HIDE DEF v
    <3> QED BY <2>3
  <2>5. h[0] = base BY <2>1
  <2>6. ASSUME NEW n \in 1 .. k + 1 PROVE h[n] = rule[<<h[n - 1], n>>]
    <3>1. CASE n = k + 1
      <4>1. n - 1 = k /\ k \in 0 .. k + 1 /\ k # k + 1 /\ n \in 0 .. k + 1 BY <3>1
      <4>2. h[n - 1] = f[k] /\ h[n] = v BY <3>1, <4>1
      <4> QED BY <3>1, <4>2
    <3>2. CASE n # k + 1
      <4>1. n \in 1 .. k /\ n \in 0 .. k + 1 /\ n - 1 \in 0 .. k + 1 /\ n - 1 # k + 1 BY <3>2
      <4>2. h[n] = f[n] /\ h[n - 1] = f[n - 1] BY <3>2, <4>1
      <4> QED BY <2>1, <4>1, <4>2
    <3> QED BY <3>1, <3>2
  <2> HIDE DEF h
  <2> QED BY <2>4, <2>5, <2>6
<1> HIDE DEF Partial
<1>3. 0 \in S BY <1>1
<1>4. \A k \in 0 .. m : k \in S /\ k < m => k + 1 \in S BY <1>2
<1>5. m \in 0 .. m OBVIOUS
<1>6. m \in S
  <2> HIDE DEF S
  <2> QED BY <1>3, <1>4, <1>5, UpTo
<1>7. Partial(m) BY <1>6
<1> QED BY <1>7 DEF Partial, Follows
---------------------------------------------------------------------------
(* The contents of a bucket.                                               *)
Entry == [string : String, offset : Nat]
BucketState == [strings : Seq(Entry), next_offset : Nat]
End(e) == e.offset + Length[e.string]

(* Each string once, the strings one after the other.                      *)
Sound(bk) ==
  /\ bk \in BucketState
  /\ \A i, j \in DOMAIN bk.strings : bk.strings[i].string = bk.strings[j].string => i = j
  /\ \A i \in DOMAIN bk.strings : End(bk.strings[i]) <= bk.next_offset
  /\ \A i, j \in DOMAIN bk.strings : i < j => End(bk.strings[i]) <= bk.strings[j].offset

(* What was in the bucket stays where it was.                              *)
Grown(bk, new) ==
  \A i \in DOMAIN bk.strings : i \in DOMAIN new.strings /\ new.strings[i] = bk.strings[i]

Contents(bk) == {bk.strings[i].string : i \in DOMAIN bk.strings}

LEMMA EndType ==
  ASSUME NEW e \in Entry
  PROVE  /\ e.string \in String /\ e.offset \in Nat /\ Length[e.string] \in Nat
         /\ Length[e.string] > 0 /\ End(e) \in Nat /\ e.offset < End(e)
<1>1. e.string \in String /\ e.offset \in Nat BY DEF Entry
<1>2. Length[e.string] \in Nat \ {0} BY <1>1, StringAssumption
<1> QED BY <1>1, <1>2 DEF End

LEMMA SoundFacts ==
  ASSUME NEW bk, Sound(bk)
  PROVE  /\ bk.strings \in Seq(Entry) /\ bk.next_offset \in Nat
         /\ Len(bk.strings) \in Nat /\ DOMAIN bk.strings = 1 .. Len(bk.strings)
         /\ \A i \in DOMAIN bk.strings : bk.strings[i] \in Entry
<1>1. bk.strings \in Seq(Entry) /\ bk.next_offset \in Nat BY DEF Sound, BucketState
<1> QED BY <1>1

LEMMA EmptyBucketSound == Sound([strings |-> << >>, next_offset |-> 0])
<1>1. << >> \in Seq(Entry) /\ DOMAIN << >> = {} OBVIOUS
<1>2. [strings |-> << >>, next_offset |-> 0] \in BucketState BY <1>1 DEF BucketState
<1> QED BY <1>1, <1>2 DEF Sound

LEMMA AddStringFacts ==
  ASSUME NEW bk, Sound(bk), NEW s \in String
  PROVE  /\ Sound(AddString(bk, s))
         /\ Grown(bk, AddString(bk, s))
         /\ Contents(AddString(bk, s)) = Contents(bk) \cup {s}
         /\ bk.next_offset <= AddString(bk, s).next_offset
<1> DEFINE new == AddString(bk, s)
           e == [string |-> s, offset |-> bk.next_offset]
           n == Len(bk.strings)
<1>1. /\ bk.strings \in Seq(Entry) /\ bk.next_offset \in Nat
      /\ n \in Nat /\ DOMAIN bk.strings = 1 .. n
      /\ \A i \in DOMAIN bk.strings : bk.strings[i] \in Entry
  BY SoundFacts
<1>2. e \in Entry BY <1>1 DEF Entry
<1>3. CASE Known(bk, s) # {}
  <2>1. new = bk BY <1>3 DEF AddString
  <2>2. s \in Contents(bk) BY <1>3 DEF Known, Contents
  <2> QED BY <1>1, <2>1, <2>2 DEF Grown
<1>4. CASE Known(bk, s) = {}
  <2>1. new = [strings |-> Append(bk.strings, e), next_offset |-> bk.next_offset + Length[s]]
    BY <1>4 DEF AddString
  <2>2. \A i \in DOMAIN bk.strings : bk.strings[i].string # s BY <1>4 DEF Known
  <2>3. new.strings = Append(bk.strings, e) /\ new.next_offset = bk.next_offset + Length[s] BY <2>1
  <2>4. e.string = s /\ e.offset = bk.next_offset OBVIOUS
  <2> HIDE DEF new, e
  <2>5. /\ new.strings \in Seq(Entry)
        /\ DOMAIN new.strings = 1 .. n + 1
        /\ new.strings[n + 1] = e
        /\ \A i \in 1 .. n : new.strings[i] = bk.strings[i]
    BY <1>1, <1>2, <2>3
  <2>6. Length[s] \in Nat /\ Length[s] > 0 /\ End(e) = bk.next_offset + Length[s]
    BY <1>2, <2>4, EndType DEF End
  <2>7. new.next_offset \in Nat /\ bk.next_offset <= new.next_offset /\ End(e) = new.next_offset
    BY <1>1, <2>3, <2>6
  <2>8. new \in BucketState
    <3>1. new = [strings |-> new.strings, next_offset |-> new.next_offset] BY <2>1, <2>3
    <3> QED BY <2>5, <2>7, <3>1 DEF BucketState
  <2>9. Grown(bk, new) BY <1>1, <2>5 DEF Grown
  <2>10. Contents(new) = Contents(bk) \cup {s}
    <3>1. ASSUME NEW t \in Contents(new) PROVE t \in Contents(bk) \cup {s}
      <4>1. PICK i \in 1 .. n + 1 : t = new.strings[i].string BY <2>5, <3>1 DEF Contents
      <4>2. i = n + 1 \/ i \in 1 .. n BY <1>1
      <4> QED BY <1>1, <2>4, <2>5, <4>1, <4>2 DEF Contents
    <3>2. ASSUME NEW t \in Contents(bk) PROVE t \in Contents(new)
      <4>1. PICK i \in 1 .. n : t = bk.strings[i].string BY <1>1 DEF Contents
      <4>2. i \in DOMAIN new.strings /\ new.strings[i] = bk.strings[i] BY <1>1, <2>5
      <4> QED BY <4>1, <4>2 DEF Contents
    <3>3. s \in Contents(new)
      <4>1. n + 1 \in DOMAIN new.strings BY <1>1, <2>5
      <4> QED BY <2>4, <2>5, <4>1 DEF Contents
    <3> QED BY <3>1, <3>2, <3>3
  <2>11. ASSUME NEW i \in DOMAIN new.strings, NEW j \in DOMAIN new.strings,
                new.strings[i].string = new.strings[j].string
         PROVE  i = j
    <3>1. (i = n + 1 \/ i \in 1 .. n) /\ (j = n + 1 \/ j \in 1 .. n) BY <1>1, <2>5
    <3>2. CASE i \in 1 .. n /\ j \in 1 .. n
      BY <1>1, <2>5, <2>11, <3>2 DEF Sound
    <3> QED BY <1>1, <2>2, <2>4, <2>5, <2>11, <3>1, <3>2
  <2>12. ASSUME NEW i \in DOMAIN new.strings PROVE End(new.strings[i]) <= new.next_offset
    <3>1. i = n + 1 \/ i \in 1 .. n BY <1>1, <2>5
    <3>2. CASE i \in 1 .. n
      <4>1. End(bk.strings[i]) <= bk.next_offset BY <1>1, <3>2 DEF Sound
      <4>2. End(bk.strings[i]) \in Nat BY <1>1, <3>2, EndType
      <4>3. new.strings[i] = bk.strings[i] BY <2>5, <3>2
      <4> QED BY <1>1, <2>7, <4>1, <4>2, <4>3
    <3>3. CASE i = n + 1 BY <2>5, <2>7, <3>3
    <3> QED BY <3>1, <3>2, <3>3
  <2>13. ASSUME NEW i \in DOMAIN new.strings, NEW j \in DOMAIN new.strings, i < j
         PROVE  End(new.strings[i]) <= new.strings[j].offset
    <3>1. i \in 1 .. n /\ (j = n + 1 \/ j \in 1 .. n) BY <1>1, <2>5, <2>13
    <3>2. new.strings[i] = bk.strings[i] BY <2>5, <3>1
    <3>3. CASE j = n + 1
      <4>1. End(bk.strings[i]) <= bk.next_offset BY <1>1, <3>1 DEF Sound
      <4> QED BY <2>4, <2>5, <3>2, <3>3, <4>1
    <3>4. CASE j \in 1 .. n
      <4>1. new.strings[j] = bk.strings[j] BY <2>5, <3>4
      <4> QED BY <1>1, <2>13, <3>1, <3>2, <3>4, <4>1 DEF Sound
    <3> QED BY <3>1, <3>3, <3>4
  <2> QED BY <2>7, <2>8, <2>9, <2>10, <2>11, <2>12, <2>13 DEF Sound, new
<1> QED BY <1>3, <1>4

LEMMA GrownTransitive ==
  ASSUME NEW a, NEW b, NEW c, Grown(a, b), Grown(b, c)
  PROVE  Grown(a, c)
BY DEF Grown

(* AddStrings goes through the vector one string at a time.                *)
LEMMA AddStringsUnfold ==
  ASSUME NEW bk, Sound(bk), NEW strings \in Seq(StringToMerge)
  PROVE  \E after :
           /\ after[0] = bk
           /\ \A n \in 1 .. Len(strings) : after[n] = AddString(after[n - 1], strings[n].string)
           /\ AddStrings(bk, strings) = after[Len(strings)]
<1> DEFINE m == Len(strings)
           T == {k \in BucketState : Sound(k)}
           rule == [p \in T \X (1 .. m) |-> AddString(p[1], strings[p[2]].string)]
           Body(f) == [n \in 0 .. m |-> IF n = 0 THEN bk ELSE AddString(f[n - 1], strings[n].string)]
           F == CHOOSE f : f = Body(f)
<1>1. m \in Nat OBVIOUS
<1>2. \A n \in 1 .. m : strings[n].string \in String
  <2>1. \A n \in 1 .. m : strings[n] \in StringToMerge OBVIOUS
  <2> QED BY <2>1 DEF StringToMerge
<1>3. bk \in T BY DEF Sound
<1>4. rule \in [T \X (1 .. m) -> T]
  <2> SUFFICES ASSUME NEW p \in T \X (1 .. m) PROVE AddString(p[1], strings[p[2]].string) \in T
    OBVIOUS
  <2>1. Sound(p[1]) /\ p[2] \in 1 .. m OBVIOUS
  <2>2. strings[p[2]].string \in String BY <1>2, <2>1
  <2>3. Sound(AddString(p[1], strings[p[2]].string)) BY <2>1, <2>2, AddStringFacts
  <2> QED BY <2>3 DEF Sound
<1>5. PICK f \in [0 .. m -> T] : Follows(f, m, bk, rule)
  <2> HIDE DEF rule, T, m
  <2> QED BY <1>1, <1>3, <1>4, RecursionExists
<1>6. f = Body(f)
  <2>1. ASSUME NEW n \in 0 .. m PROVE f[n] = Body(f)[n]
    <3>1. CASE n = 0 BY <1>5, <3>1 DEF Follows
    <3>2. CASE n # 0
      <4>1. n \in 1 .. m /\ n - 1 \in 0 .. m BY <1>1, <3>2
      <4>2. f[n - 1] \in T BY <1>5, <4>1
      <4>3. rule[<<f[n - 1], n>>] = AddString(f[n - 1], strings[n].string) BY <4>1, <4>2
      <4> HIDE DEF rule
      <4> QED BY <1>5, <3>2, <4>1, <4>3 DEF Follows
    <3> QED BY <3>1, <3>2
  <2> QED BY <1>5, <2>1
<1>7. F = Body(F) BY <1>6
<1>8. AddStrings(bk, strings) = F[m] BY DEF AddStrings
<1>9. F[0] = bk /\ \A n \in 1 .. m : F[n] = AddString(F[n - 1], strings[n].string)
  <2> HIDE DEF F
  <2>1. 0 \in 0 .. m /\ \A n \in 1 .. m : n \in 0 .. m /\ n # 0 BY <1>1
  <2> HIDE DEF m
  <2> QED BY <1>7, <2>1
<1> HIDE DEF F
<1> QED BY <1>8, <1>9

StringsIn(strings) == {strings[i].string : i \in DOMAIN strings}

LEMMA AddStringsFacts ==
  ASSUME NEW bk, Sound(bk), NEW strings \in Seq(StringToMerge)
  PROVE  /\ Sound(AddStrings(bk, strings))
         /\ Grown(bk, AddStrings(bk, strings))
         /\ Contents(AddStrings(bk, strings)) = Contents(bk) \cup StringsIn(strings)
<1> DEFINE m == Len(strings)
<1>1. PICK after :
        /\ after[0] = bk
        /\ \A n \in 1 .. m : after[n] = AddString(after[n - 1], strings[n].string)
        /\ AddStrings(bk, strings) = after[m]
  BY AddStringsUnfold
<1>2. m \in Nat /\ DOMAIN strings = 1 .. m OBVIOUS
<1>3. \A n \in 1 .. m : strings[n].string \in String
  <2>1. \A n \in 1 .. m : strings[n] \in StringToMerge OBVIOUS
  <2> QED BY <2>1 DEF StringToMerge
<1> DEFINE Before(n) == {strings[i].string : i \in 1 .. n}
           Right(n) == /\ Sound(after[n])
                       /\ Grown(bk, after[n])
                       /\ Contents(after[n]) = Contents(bk) \cup Before(n)
           S == {n \in 0 .. m : Right(n)}
<1>4. Right(0)
  <2>1. Before(0) = {} OBVIOUS
  <2> QED BY <1>1, <2>1 DEF Grown
<1>5. ASSUME NEW n \in 0 .. m, n < m, Right(n) PROVE Right(n + 1)
  <2> DEFINE s == strings[n + 1].string
  <2>1. n + 1 \in 1 .. m /\ (n + 1) - 1 = n BY <1>2, <1>5
  <2>2. s \in String BY <1>3, <2>1
  <2>3. after[n + 1] = AddString(after[n], s) BY <1>1, <2>1
  <2>4. Before(n + 1) = Before(n) \cup {s}
    <3>1. 1 .. n + 1 = 1 .. n \cup {n + 1} BY <1>2
    <3> QED BY <3>1
  <2> HIDE DEF s, Before
  <2>5. /\ Sound(AddString(after[n], s)) /\ Grown(after[n], AddString(after[n], s))
        /\ Contents(AddString(after[n], s)) = Contents(after[n]) \cup {s}
    BY <1>5, <2>2, AddStringFacts
  <2>6. Grown(bk, AddString(after[n], s)) BY <1>5, <2>5, GrownTransitive
  <2> QED BY <1>5, <2>3, <2>4, <2>5, <2>6
<1> HIDE DEF Right
<1>6. 0 \in S BY <1>2, <1>4
<1>7. \A n \in 0 .. m : n \in S /\ n < m => n + 1 \in S BY <1>2, <1>5
<1>8. m \in S
  <2>1. m \in 0 .. m BY <1>2
  <2> HIDE DEF S
  <2> QED BY <1>2, <1>6, <1>7, <2>1, UpTo
<1>9. Right(m) BY <1>8
<1>10. Before(m) = StringsIn(strings) BY <1>2 DEF StringsIn
<1> QED BY <1>1, <1>9, <1>10 DEF Right

LEMMA SplitFacts ==
  ASSUME TypeOK, NEW g \in GroupIndex, NEW b \in Bucket
  PROVE  /\ groups[g].strings[b] \in Seq(StringToMerge)
         /\ DOMAIN groups[g].strings[b] = 1 .. Len(groups[g].strings[b])
         /\ \A i \in DOMAIN groups[g].strings[b] :
              /\ groups[g].strings[b][i] \in StringToMerge
              /\ groups[g].strings[b][i] \in StringsOf(groups, b)
<1>1. groups[g] \in SectionGroup /\ g \in DOMAIN groups
  <2>1. groups \in Seq(SectionGroup) /\ g \in 1 .. Len(groups) BY DEF TypeOK, GroupIndex
  <2> QED BY <2>1
<1>2. groups[g].strings[b] \in Seq(StringToMerge)
  <2>1. groups[g].strings \in [Bucket -> Seq(StringToMerge)] BY <1>1 DEF SectionGroup
  <2> QED BY <2>1, Zenon
<1>3. \A i \in DOMAIN groups[g].strings[b] : groups[g].strings[b][i] \in StringsOf(groups, b)
  BY <1>1 DEF StringsOf
<1> HIDE DEF StringToMerge
<1> QED BY <1>2, <1>3

(* BucketAfter goes through the groups one at a time.                      *)
LEMMA BucketAfterUnfold ==
  ASSUME TypeOK, NEW b \in Bucket
  PROVE  /\ BucketAfter(groups, b)[0] = [strings |-> << >>, next_offset |-> 0]
         /\ \A n \in GroupIndex :
              BucketAfter(groups, b)[n] = AddStrings(BucketAfter(groups, b)[n - 1], groups[n].strings[b])
<1> DEFINE empty == [strings |-> << >>, next_offset |-> 0]
           m == Len(groups)
           T == {k \in BucketState : Sound(k)}
           rule == [p \in T \X (1 .. m) |-> AddStrings(p[1], groups[p[2]].strings[b])]
           Body(f) == [n \in 0 .. m |-> IF n = 0 THEN [strings |-> << >>, next_offset |-> 0]
                                        ELSE AddStrings(f[n - 1], groups[n].strings[b])]
           F == CHOOSE f : f = Body(f)
<1>1. m \in Nat /\ GroupIndex = 1 .. m BY TypeFacts DEF GroupIndex
<1>2. \A n \in 1 .. m : groups[n].strings[b] \in Seq(StringToMerge)
  <2> HIDE DEF m
  <2> QED BY <1>1, SplitFacts
<1>3. empty \in T BY EmptyBucketSound DEF Sound
<1>4. rule \in [T \X (1 .. m) -> T]
  <2> SUFFICES ASSUME NEW p \in T \X (1 .. m) PROVE AddStrings(p[1], groups[p[2]].strings[b]) \in T
    OBVIOUS
  <2>1. Sound(p[1]) /\ p[2] \in 1 .. m OBVIOUS
  <2>2. groups[p[2]].strings[b] \in Seq(StringToMerge) BY <1>2, <2>1
  <2>3. Sound(AddStrings(p[1], groups[p[2]].strings[b])) BY <2>1, <2>2, AddStringsFacts
  <2> QED BY <2>3 DEF Sound
<1>5. PICK f \in [0 .. m -> T] : Follows(f, m, empty, rule)
  <2> HIDE DEF rule, T, m, empty
  <2> QED BY <1>1, <1>3, <1>4, RecursionExists
<1>6. f = Body(f)
  <2>1. ASSUME NEW n \in 0 .. m PROVE f[n] = Body(f)[n]
    <3>1. CASE n = 0 BY <1>5, <3>1 DEF Follows
    <3>2. CASE n # 0
      <4>1. n \in 1 .. m /\ n - 1 \in 0 .. m BY <1>1, <3>2
      <4>2. f[n - 1] \in T BY <1>5, <4>1
      <4>3. rule[<<f[n - 1], n>>] = AddStrings(f[n - 1], groups[n].strings[b]) BY <4>1, <4>2
      <4> HIDE DEF rule
      <4> QED BY <1>5, <3>2, <4>1, <4>3 DEF Follows
    <3> QED BY <3>1, <3>2
  <2> QED BY <1>5, <2>1
<1>7. F = Body(F) BY <1>6
<1>8. BucketAfter(groups, b) = F BY DEF BucketAfter
<1>9. F[0] = empty /\ \A n \in 1 .. m : F[n] = AddStrings(F[n - 1], groups[n].strings[b])
  <2> HIDE DEF F
  <2>1. 0 \in 0 .. m /\ \A n \in 1 .. m : n \in 0 .. m /\ n # 0 BY <1>1
  <2> HIDE DEF m
  <2> QED BY <1>7, <2>1
<1> HIDE DEF F
<1> QED BY <1>1, <1>8, <1>9

(* A string of a bucket has one offset there, and keeps it.                *)
LEMMA OffsetFacts ==
  ASSUME NEW bk, Sound(bk), NEW s \in Contents(bk)
  PROVE  /\ OffsetIn(bk, s) \in Nat /\ s \in String
         /\ OffsetIn(bk, s) + Length[s] <= bk.next_offset
         /\ \E i \in DOMAIN bk.strings : bk.strings[i].string = s /\ OffsetIn(bk, s) = bk.strings[i].offset
<1>1. Known(bk, s) # {} BY DEF Known, Contents
<1> DEFINE i == CHOOSE k \in Known(bk, s) : TRUE
<1>2. i \in Known(bk, s) BY <1>1
<1>3. OffsetIn(bk, s) = bk.strings[i].offset BY DEF OffsetIn
<1> HIDE DEF i
<1>4. i \in DOMAIN bk.strings /\ bk.strings[i].string = s BY <1>2 DEF Known
<1>5. bk.strings[i] \in Entry BY <1>4, SoundFacts
<1>6. End(bk.strings[i]) <= bk.next_offset BY <1>4 DEF Sound
<1>7. s \in String /\ bk.strings[i].offset \in Nat BY <1>4, <1>5, EndType
<1>8. bk.strings[i].offset + Length[s] <= bk.next_offset BY <1>4, <1>6 DEF End
<1> QED BY <1>3, <1>4, <1>7, <1>8

LEMMA SameOffset ==
  ASSUME NEW bk, Sound(bk), NEW new, Sound(new), Grown(bk, new), NEW s \in Contents(bk)
  PROVE  s \in Contents(new) /\ OffsetIn(new, s) = OffsetIn(bk, s)
<1>1. PICK i \in DOMAIN bk.strings : bk.strings[i].string = s /\ OffsetIn(bk, s) = bk.strings[i].offset
  BY OffsetFacts
<1>2. i \in DOMAIN new.strings /\ new.strings[i] = bk.strings[i] BY DEF Grown
<1>3. s \in Contents(new) BY <1>1, <1>2 DEF Contents
<1>4. PICK j \in DOMAIN new.strings : new.strings[j].string = s /\ OffsetIn(new, s) = new.strings[j].offset
  BY <1>3, OffsetFacts
<1>5. i = j BY <1>1, <1>2, <1>4 DEF Sound
<1> QED BY <1>1, <1>2, <1>3, <1>4, <1>5

(* Different strings of a bucket do not overlap.                           *)
LEMMA OffsetsApart ==
  ASSUME NEW bk, Sound(bk), NEW s \in Contents(bk), NEW t \in Contents(bk), s # t
  PROVE  \/ OffsetIn(bk, s) + Length[s] <= OffsetIn(bk, t)
         \/ OffsetIn(bk, t) + Length[t] <= OffsetIn(bk, s)
<1>1. PICK i \in DOMAIN bk.strings : bk.strings[i].string = s /\ OffsetIn(bk, s) = bk.strings[i].offset
  BY OffsetFacts
<1>2. PICK j \in DOMAIN bk.strings : bk.strings[j].string = t /\ OffsetIn(bk, t) = bk.strings[j].offset
  BY OffsetFacts
<1>3. i < j \/ j < i
  <2>1. DOMAIN bk.strings = 1 .. Len(bk.strings) /\ Len(bk.strings) \in Nat BY SoundFacts
  <2>2. i # j BY <1>1, <1>2
  <2> QED BY <2>1, <2>2
<1>4. CASE i < j
  <2>1. End(bk.strings[i]) <= bk.strings[j].offset BY <1>4 DEF Sound
  <2> QED BY <1>1, <1>2, <2>1 DEF End
<1>5. CASE j < i
  <2>1. End(bk.strings[j]) <= bk.strings[i].offset BY <1>5 DEF Sound
  <2> QED BY <1>1, <1>2, <2>1 DEF End
<1> QED BY <1>3, <1>4, <1>5

(* The buckets follow each other in the section.                           *)
LEMMA StartFacts ==
  ASSUME \A b \in Bucket : bucket[b].next_offset \in Nat
  PROVE  /\ \A b \in Bucket : BucketStart[b] \in Nat
         /\ \A b, c \in Bucket : b < c => BucketStart[b] + bucket[b].next_offset <= BucketStart[c]
<1> DEFINE m == NumBuckets - 1
           size == [b \in 0 .. m |-> bucket[b].next_offset]
           rule == [p \in Nat \X (1 .. m) |-> p[1] + size[p[2] - 1]]
           Body(f) == [n \in Bucket |-> IF n = 0 THEN 0 ELSE f[n - 1] + bucket[n - 1].next_offset]
           F == CHOOSE f : f = Body(f)
<1>1. m \in Nat /\ Bucket = 0 .. m BY ConstantFacts DEF Bucket
<1>2. \A n \in 1 .. m : n - 1 \in 0 .. m /\ n \in 0 .. m /\ n # 0 BY <1>1
<1>3. \A b \in 0 .. m : size[b] \in Nat /\ size[b] = bucket[b].next_offset BY <1>1
<1> HIDE DEF m, size
<1>4. rule \in [Nat \X (1 .. m) -> Nat]
  <2> SUFFICES ASSUME NEW p \in Nat \X (1 .. m) PROVE p[1] + size[p[2] - 1] \in Nat OBVIOUS
  <2>1. p[1] \in Nat /\ size[p[2] - 1] \in Nat BY <1>2, <1>3
  <2> QED BY <2>1
<1>5. PICK f \in [0 .. m -> Nat] : Follows(f, m, 0, rule)
  <2> HIDE DEF rule
  <2> QED BY <1>1, <1>4, RecursionExists
<1>6. f = Body(f)
  <2>1. ASSUME NEW n \in 0 .. m PROVE f[n] = Body(f)[n]
    <3>1. CASE n = 0 BY <1>1, <1>5, <3>1 DEF Follows
    <3>2. CASE n # 0
      <4>1. n \in 1 .. m /\ n - 1 \in 0 .. m BY <1>1, <3>2
      <4>2. f[n - 1] \in Nat BY <1>5, <4>1
      <4>3. rule[<<f[n - 1], n>>] = f[n - 1] + size[n - 1] BY <4>1, <4>2
      <4>4. size[n - 1] = bucket[n - 1].next_offset BY <1>3, <4>1
      <4> HIDE DEF rule
      <4> QED BY <1>1, <1>5, <3>2, <4>1, <4>3, <4>4 DEF Follows
    <3> QED BY <3>1, <3>2
  <2> QED BY <1>1, <1>5, <2>1
<1>7. F = Body(F) BY <1>6
<1>8. \A b \in Bucket : BucketStart[b] = F[b] BY DEF BucketStart
<1>9. F[0] = 0 /\ \A n \in 1 .. m : F[n] = F[n - 1] + size[n - 1]
  <2> HIDE DEF F
  <2>1. 0 \in 0 .. m BY <1>1
  <2> QED BY <1>1, <1>2, <1>3, <1>7, <2>1
<1> HIDE DEF F
<1>10. \A n \in 0 .. m : F[n] \in Nat
  <2> DEFINE S == {n \in 0 .. m : F[n] \in Nat}
  <2>1. 0 \in S BY <1>1, <1>9
  <2>2. ASSUME NEW n \in 0 .. m, n \in S, n < m PROVE n + 1 \in S
    <3>1. n + 1 \in 1 .. m /\ n + 1 \in 0 .. m /\ (n + 1) - 1 = n BY <1>1, <2>2
    <3> QED BY <1>3, <1>9, <2>2, <3>1
  <2> HIDE DEF S
  <2>3. \A n \in 0 .. m : n \in S BY <1>1, <2>1, <2>2, UpTo
  <2> QED BY <2>3 DEF S
<1>11. ASSUME NEW b \in 0 .. m PROVE \A n \in 0 .. m : b < n => F[b] + size[b] <= F[n]
  <2> DEFINE S == {n \in 0 .. m : b < n => F[b] + size[b] <= F[n]}
  <2>1. 0 \in S BY <1>1
  <2>2. ASSUME NEW n \in 0 .. m, n \in S, n < m PROVE n + 1 \in S
    <3>1. n + 1 \in 1 .. m /\ n + 1 \in 0 .. m /\ (n + 1) - 1 = n BY <1>1, <2>2
    <3>2. F[n + 1] = F[n] + size[n] BY <1>9, <3>1
    <3>3. F[n] \in Nat /\ size[n] \in Nat /\ F[b] \in Nat /\ size[b] \in Nat BY <1>3, <1>10
    <3>4. ASSUME b < n + 1 PROVE F[b] + size[b] <= F[n + 1]
      <4>1. b = n \/ b < n BY <3>4
      <4>2. CASE b = n BY <3>2, <3>3, <4>2
      <4>3. CASE b < n
        <5>1. F[b] + size[b] <= F[n] BY <2>2, <4>3
        <5> QED BY <3>2, <3>3, <5>1
      <4> QED BY <4>1, <4>2, <4>3
    <3> QED BY <3>1, <3>4
  <2> HIDE DEF S
  <2>3. \A n \in 0 .. m : n \in S BY <1>1, <2>1, <2>2, UpTo
  <2> QED BY <2>3 DEF S
<1> QED BY <1>1, <1>3, <1>8, <1>10, <1>11

---------------------------------------------------------------------------
(* Packing the bucket and the offset into one number, and unpacking them.  *)
LEMMA Unpack ==
  ASSUME NEW b \in Bucket, NEW r \in Nat, r < BucketLimit
  PROVE  /\ b * BucketLimit + r \in Nat
         /\ (b * BucketLimit + r) % (NumBuckets * BucketLimit) = b * BucketLimit + r
         /\ (b * BucketLimit + r) \div BucketLimit = b
         /\ (b * BucketLimit + r) % BucketLimit = r
<1>1. BucketLimit \in Nat /\ BucketLimit > 0 /\ NumBuckets \in Nat /\ b \in Nat /\ b < NumBuckets
  BY PoolAssumption DEF Bucket
<1> DEFINE L == BucketLimit
           v == b * L + r
<1>2. b * L \in Nat /\ NumBuckets * L \in Nat BY <1>1, SMT
<1>3. (b + 1) * L = b * L + L BY <1>1, SMT
<1>4. (b + 1) * L <= NumBuckets * L BY <1>1, SMT
<1>5. v \in Nat /\ v < NumBuckets * L BY <1>1, <1>2, <1>3, <1>4
<1>6. NumBuckets * L > 0 BY <1>1, <1>2, <1>5
<1>7. v % (NumBuckets * L) = v BY <1>2, <1>5, <1>6, SMT
<1>8. v \div L = b BY <1>1, <1>2, SMT
<1>9. v % L = r BY <1>1, <1>2, SMT
<1> QED BY <1>5, <1>7, <1>8, <1>9

---------------------------------------------------------------------------
(* What the buckets hold and what is recorded, at any time.                *)

(* The bucket has merged the strings of the group.                         *)
Merged(g, b) == next[b] > g \/ (next[b] = g /\ pc[b] \in {"return", "load", "reserve"})

(* The number of groups whose strings the bucket has merged.               *)
MergedCount(b) == IF Merged(next[b], b) THEN next[b] ELSE next[b] - 1

OrderInv == \A b \in Bucket : bucket[b] = BucketAfter(groups, b)[MergedCount(b)]

Recording(b, x) == [at |-> x.at, output |-> BucketOffset(OffsetIn(bucket[b], x.string), b)]

HasPlace(b, x) ==
  x.string \in Contents(bucket[b]) /\ OffsetIn(bucket[b], x.string) < BucketLimit

BucketsInv ==
  /\ bucket \in [Bucket -> BucketState]
  /\ \A b \in Bucket : Sound(bucket[b])
  /\ \A b \in Bucket : Contents(bucket[b]) \subseteq {x.string : x \in StringsOf(groups, b)}

RecordedInv ==
  /\ \A g \in GroupIndex, b \in Bucket : Merged(g, b) =>
       \A i \in DOMAIN groups[g].strings[b] :
         /\ HasPlace(b, groups[g].strings[b][i])
         /\ Recording(b, groups[g].strings[b][i]) \in offsets
  /\ \A rec \in offsets : \E b \in Bucket : \E x \in StringsOf(groups, b) :
       HasPlace(b, x) /\ rec = Recording(b, x)

FinalInv ==
  merged.state = "done" =>
    /\ \A b \in Bucket : pc[b] = "finished"
    /\ merged.bucket_offsets = BucketStart

ContentInv == groups \in Inputs /\ BucketsInv /\ OrderInv /\ RecordedInv /\ FinalInv

(* What a step that merges nothing does to a bucket.                       *)
Moves(b) ==
  \/ /\ next'[b] = next[b]
     /\ pc'[b] \in {"return", "load", "reserve"} <=> pc[b] \in {"return", "load", "reserve"}
  \/ /\ next'[b] = next[b] + 1
     /\ pc[b] \in {"return", "load", "reserve"} /\ pc'[b] = "slot"

LEMMA MovesMerged ==
  ASSUME NEW g \in Nat, NEW b, next[b] \in Nat, Moves(b), Merged(g, b)'
  PROVE  Merged(g, b)
BY DEF Moves, Merged

LEMMA MovesCount ==
  ASSUME TypeOK, NEW b \in Bucket, Moves(b)
  PROVE  MergedCount(b)' = MergedCount(b)
<1>1. next[b] \in Nat BY TypeFacts
<1>2. Merged(next[b], b) <=> pc[b] \in {"return", "load", "reserve"} BY <1>1 DEF Merged
<1>3. next'[b] \in Nat BY <1>1 DEF Moves
<1>4. Merged(next[b], b)' <=> pc'[b] \in {"return", "load", "reserve"} BY <1>3 DEF Merged
<1> QED BY <1>1, <1>2, <1>4 DEF MergedCount, Moves

LEMMA QuietContent ==
  ASSUME TypeOK, ContentInv, UNCHANGED <<groups, bucket, offsets>>,
         \A b \in Bucket : Moves(b), FinalInv'
  PROVE  ContentInv'
<1>1. BucketsInv' BY DEF ContentInv, BucketsInv
<1>2. ASSUME NEW g \in GroupIndex, NEW b \in Bucket, Merged(g, b)' PROVE Merged(g, b)
  BY <1>2, TypeFacts, MovesMerged
<1>3. RecordedInv'
  BY <1>2 DEF ContentInv, RecordedInv, GroupIndex, HasPlace, Recording
<1>4. OrderInv' BY MovesCount DEF ContentInv, OrderInv
<1> QED BY <1>1, <1>3, <1>4 DEF ContentInv

LEMMA InitContent == Init => ContentInv
<1> SUFFICES ASSUME Init PROVE ContentInv OBVIOUS
<1>1. \A b \in Bucket : bucket[b] = [strings |-> << >>, next_offset |-> 0] BY DEF Init
<1>2. \A b \in Bucket : Sound(bucket[b]) BY <1>1, EmptyBucketSound
<1>3. \A b \in Bucket : Contents(bucket[b]) = {} BY <1>1 DEF Contents
<1>4. bucket \in [Bucket -> BucketState]
  <2>1. [strings |-> << >>, next_offset |-> 0] \in BucketState BY EmptyBucketSound DEF Sound
  <2> QED BY <2>1 DEF Init
<1>5. \A g \in GroupIndex, b \in Bucket : ~Merged(g, b)
  <2> SUFFICES ASSUME NEW g \in GroupIndex, NEW b \in Bucket PROVE ~Merged(g, b) OBVIOUS
  <2>1. next[b] = 1 /\ b \in Actor /\ b # Main BY ConstantFacts DEF Init, Actor
  <2>2. pc[b] = "parked" BY <2>1 DEF Init
  <2>3. g \in Nat /\ g >= 1
    <3>1. Len(groups) \in Nat BY StringAssumption DEF Init
    <3> QED BY <3>1 DEF GroupIndex
  <2> QED BY <2>1, <2>2, <2>3 DEF Merged
<1>6. RecordedInv BY <1>5 DEF RecordedInv, Init
<1>7. FinalInv BY DEF FinalInv, Init
<1>8. groups \in Inputs BY DEF Init
<1>9. OrderInv
  <2> SUFFICES ASSUME NEW b \in Bucket PROVE bucket[b] = BucketAfter(groups, b)[MergedCount(b)]
    BY DEF OrderInv
  <2>1. next[b] = 1 /\ 1 \in GroupIndex
    <3>1. Len(groups) \in Nat /\ Len(groups) # 0 BY StringAssumption DEF Init
    <3> QED BY <3>1 DEF Init, GroupIndex
  <2>2. MergedCount(b) = 0 BY <1>5, <2>1 DEF MergedCount
  <2> QED BY <1>1, <2>2, InitIInv, BucketAfterUnfold
<1> QED BY <1>2, <1>3, <1>4, <1>6, <1>7, <1>8, <1>9 DEF ContentInv, BucketsInv

(* A string that has a place in a bucket keeps it when the bucket grows.   *)
LEMMA KeepsPlace ==
  ASSUME NEW c \in Bucket, NEW x, HasPlace(c, x), Sound(bucket[c]), Sound(bucket'[c]),
         Grown(bucket[c], bucket'[c])
  PROVE  /\ x.string \in Contents(bucket'[c])
         /\ OffsetIn(bucket'[c], x.string) = OffsetIn(bucket[c], x.string)
         /\ OffsetIn(bucket'[c], x.string) < BucketLimit
BY SameOffset DEF HasPlace

LEMMA ProcessContent ==
  ASSUME TypeOK, IInv, ContentInv, NEW b \in Bucket, ProcessSplitOutput(b)
  PROVE  ContentInv'
<1> DEFINE g == next[b]
           strings == groups[g].strings[b]
           bk == AddStrings(bucket[b], strings)
           placed == {[at |-> strings[i].at,
                       output |-> BucketOffset(OffsetIn(bk, strings[i].string), b)] : i \in DOMAIN strings}
<1>1. /\ pc[b] = "merge"
      /\ UNCHANGED <<groups, next, merged>>
      /\ \/ /\ pc' = [pc EXCEPT ![b] = "dropped"]
            /\ UNCHANGED <<bucket, offsets>>
         \/ /\ \A i \in DOMAIN strings : ~(OffsetIn(bk, strings[i].string) >= BucketLimit)
            /\ bucket' = [bucket EXCEPT ![b] = bk]
            /\ offsets' = offsets \cup placed
            /\ pc' = [pc EXCEPT ![b] = "return"]
  BY Zenon DEF ProcessSplitOutput
<1>2. merged.state # "done" BY <1>1 DEF ContentInv, FinalInv
<1>3. FinalInv' BY <1>1, <1>2 DEF FinalInv
<1>4. g \in GroupIndex /\ g \in Nat
  <2>1. g <= Len(groups) BY <1>1 DEF IInv, BoundsInv
  <2> QED BY <2>1, TypeFacts DEF GroupIndex
<1>5. \A c \in Bucket : pc'[c] = IF c = b THEN pc'[b] ELSE pc[c]
  BY <1>1 DEF TypeOK, Actor
<1>6. CASE pc' = [pc EXCEPT ![b] = "dropped"] /\ UNCHANGED <<bucket, offsets>>
  <2>1. pc'[b] = "dropped" BY <1>6 DEF TypeOK, Actor
  <2>2. \A c \in Bucket : Moves(c) BY <1>1, <1>5, <2>1 DEF Moves
  <2> QED BY <1>1, <1>3, <1>6, <2>2, QuietContent
<1>7. CASE /\ \A i \in DOMAIN strings : ~(OffsetIn(bk, strings[i].string) >= BucketLimit)
           /\ bucket' = [bucket EXCEPT ![b] = bk]
           /\ offsets' = offsets \cup placed
           /\ pc' = [pc EXCEPT ![b] = "return"]
  <2>1. /\ strings \in Seq(StringToMerge)
        /\ \A i \in DOMAIN strings : strings[i] \in StringToMerge /\ strings[i] \in StringsOf(groups, b)
    BY <1>4, SplitFacts
  <2>2. /\ Sound(bk) /\ Grown(bucket[b], bk)
        /\ Contents(bk) = Contents(bucket[b]) \cup StringsIn(strings)
    BY <2>1, AddStringsFacts DEF ContentInv, BucketsInv
  <2> HIDE DEF bk, strings
  <2>3. \A c \in Bucket : bucket'[c] = IF c = b THEN bk ELSE bucket[c]
    BY <1>7 DEF ContentInv, BucketsInv
  <2>4. \A c \in Bucket : Sound(bucket'[c]) /\ Sound(bucket[c]) /\ Grown(bucket[c], bucket'[c])
    <3> SUFFICES ASSUME NEW c \in Bucket
                 PROVE  Sound(bucket'[c]) /\ Sound(bucket[c]) /\ Grown(bucket[c], bucket'[c])
      OBVIOUS
    <3>1. Sound(bucket[c]) BY DEF ContentInv, BucketsInv
    <3>2. Grown(bucket[c], bucket[c]) BY DEF Grown
    <3> QED BY <2>2, <2>3, <3>1, <3>2
  <2>5. \A i \in DOMAIN strings : OffsetIn(bk, strings[i].string) < BucketLimit
    <3> SUFFICES ASSUME NEW i \in DOMAIN strings PROVE OffsetIn(bk, strings[i].string) < BucketLimit
      OBVIOUS
    <3>1. strings[i].string \in Contents(bk) BY <2>2 DEF StringsIn
    <3>2. OffsetIn(bk, strings[i].string) \in Nat BY <2>2, <3>1, OffsetFacts
    <3>3. BucketLimit \in Nat BY PoolAssumption
    <3>4. ~(OffsetIn(bk, strings[i].string) >= BucketLimit) BY <1>7
    <3> QED BY <3>2, <3>3, <3>4
  <2>6. ASSUME NEW i \in DOMAIN strings
        PROVE  HasPlace(b, strings[i])' /\ Recording(b, strings[i])' \in placed
    <3>1. PICK x : x = strings[i] OBVIOUS
    <3>2. x.string \in Contents(bk) /\ OffsetIn(bk, x.string) < BucketLimit
      BY <2>2, <2>5, <3>1 DEF StringsIn
    <3>3. HasPlace(b, x)' BY <2>3, <3>2 DEF HasPlace
    <3>4. Recording(b, x)' = [at |-> x.at, output |-> BucketOffset(OffsetIn(bk, x.string), b)]
      BY <2>3 DEF Recording
    <3>5. strings' = strings BY <1>1 DEF strings
    <3> QED BY <3>1, <3>3, <3>4, <3>5
  <2>7. ASSUME NEW c \in Bucket, NEW x, HasPlace(c, x)
        PROVE  HasPlace(c, x)' /\ Recording(c, x)' = Recording(c, x)
    <3>1. /\ x.string \in Contents(bucket'[c])
          /\ OffsetIn(bucket'[c], x.string) = OffsetIn(bucket[c], x.string)
          /\ OffsetIn(bucket'[c], x.string) < BucketLimit
      BY <2>4, <2>7, KeepsPlace
    <3> QED BY <3>1 DEF HasPlace, Recording
  <2>8. BucketsInv'
    <3>1. bucket' \in [Bucket -> BucketState]
      BY <1>7, <2>2 DEF ContentInv, BucketsInv, Sound
    <3>2. ASSUME NEW c \in Bucket
          PROVE  Contents(bucket'[c]) \subseteq {x.string : x \in StringsOf(groups, c)}
      <4>1. Contents(bucket[c]) \subseteq {x.string : x \in StringsOf(groups, c)}
        BY DEF ContentInv, BucketsInv
      <4>2. StringsIn(strings) \subseteq {x.string : x \in StringsOf(groups, b)}
        BY <2>1 DEF StringsIn
      <4> QED BY <2>2, <2>3, <4>1, <4>2
    <3> QED BY <1>1, <2>4, <3>1, <3>2 DEF BucketsInv
  <2>9. ASSUME NEW h \in GroupIndex, NEW c \in Bucket, Merged(h, c)',
               NEW i \in DOMAIN groups[h].strings[c]
        PROVE  HasPlace(c, groups[h].strings[c][i])' /\ Recording(c, groups[h].strings[c][i])' \in offsets'
    <3>1. CASE h = g /\ c = b
      <4>1. i \in DOMAIN strings BY <2>9, <3>1 DEF strings
      <4>2. HasPlace(b, strings[i])' /\ Recording(b, strings[i])' \in placed BY <2>6, <4>1
      <4> QED BY <1>1, <1>7, <3>1, <4>2 DEF strings
    <3>2. CASE ~(h = g /\ c = b)
      <4>1. Merged(h, c) BY <1>1, <1>5, <2>9, <3>2 DEF Merged
      <4>2. PICK x : x = groups[h].strings[c][i] OBVIOUS
      <4>3. HasPlace(c, x) /\ Recording(c, x) \in offsets
        BY <2>9, <4>1, <4>2 DEF ContentInv, RecordedInv
      <4>4. HasPlace(c, x)' /\ Recording(c, x)' \in offsets' BY <1>7, <2>7, <4>3
      <4>5. groups'[h].strings[c][i] = x BY <1>1, <4>2
      <4> QED BY <4>4, <4>5
    <3> QED BY <3>1, <3>2
  <2>10. ASSUME NEW rec \in offsets'
         PROVE  \E c \in Bucket : \E x \in StringsOf(groups, c) :
                  HasPlace(c, x)' /\ rec = Recording(c, x)'
    <3>1. CASE rec \in offsets
      <4>1. PICK c \in Bucket : \E x \in StringsOf(groups, c) : HasPlace(c, x) /\ rec = Recording(c, x)
        BY <3>1 DEF ContentInv, RecordedInv
      <4>2. PICK x \in StringsOf(groups, c) : HasPlace(c, x) /\ rec = Recording(c, x) BY <4>1
      <4> QED BY <2>7, <4>2
    <3>2. CASE rec \in placed
      <4>1. PICK i \in DOMAIN strings :
              rec = [at |-> strings[i].at, output |-> BucketOffset(OffsetIn(bk, strings[i].string), b)]
        BY <3>2
      <4>2. PICK x : x = strings[i] OBVIOUS
      <4>3. x \in StringsOf(groups, b) BY <2>1, <4>2
      <4>4. strings' = strings BY <1>1 DEF strings
      <4>5. HasPlace(b, x)' BY <2>6, <4>2, <4>4
      <4>6. rec = Recording(b, x)' BY <2>3, <4>1, <4>2 DEF Recording
      <4> QED BY <4>3, <4>5, <4>6
    <3> QED BY <1>7, <3>1, <3>2
  <2>11. RecordedInv'
    <3>1. GroupIndex' = GroupIndex BY <1>1 DEF GroupIndex
    <3>2. \A rec \in offsets' : \E c \in Bucket : \E x \in StringsOf(groups, c)' :
            HasPlace(c, x)' /\ rec = Recording(c, x)'
      BY <1>1, <2>10
    <3>3. \A h \in GroupIndex', c \in Bucket : Merged(h, c)' =>
            \A i \in DOMAIN groups'[h].strings[c] :
              HasPlace(c, groups[h].strings[c][i])' /\ Recording(c, groups[h].strings[c][i])' \in offsets'
      BY <1>1, <2>9, <3>1
    <3> QED BY <3>2, <3>3 DEF RecordedInv
  <2>12. ASSUME NEW c \in Bucket PROVE bucket'[c] = BucketAfter(groups, c)[MergedCount(c)']
    <3>1. bucket[c] = BucketAfter(groups, c)[MergedCount(c)] BY DEF ContentInv, OrderInv
    <3>2. next[c] \in Nat BY TypeFacts
    <3>3. CASE c = b
      <4>1. pc'[c] = "return" BY <1>7, <3>3 DEF TypeOK, Actor
      <4>2. MergedCount(c)' = g BY <1>1, <3>3, <4>1 DEF MergedCount, Merged
      <4>3. MergedCount(c) = g - 1 BY <1>1, <3>2, <3>3 DEF MergedCount, Merged
      <4>4. bk = AddStrings(bucket[b], groups[g].strings[b]) BY DEF bk, strings
      <4>5. BucketAfter(groups, b)[g] = AddStrings(BucketAfter(groups, b)[g - 1], groups[g].strings[b])
        BY <1>4, BucketAfterUnfold
      <4> QED BY <2>3, <3>1, <3>3, <4>2, <4>3, <4>4, <4>5
    <3>4. CASE c # b
      <4>1. Moves(c) BY <1>1, <1>5, <3>4 DEF Moves
      <4> QED BY <2>3, <3>1, <3>4, <4>1, MovesCount
    <3> QED BY <3>3, <3>4
  <2>13. OrderInv' BY <1>1, <2>12 DEF OrderInv
  <2> QED BY <1>1, <1>3, <2>8, <2>11, <2>13 DEF ContentInv
<1> QED BY <1>1, <1>6, <1>7

LEMMA QuietMove ==
  ASSUME TypeOK, ContentInv, UNCHANGED <<groups, bucket, offsets, merged>>,
         \A b \in Bucket : Moves(b) /\ (pc[b] = "finished" => pc'[b] = "finished")
  PROVE  ContentInv'
<1>1. FinalInv' BY DEF ContentInv, FinalInv, BucketStart
<1> QED BY <1>1, QuietContent

LEMMA SpawningContent ==
  ASSUME TypeOK, ContentInv, NEW a \in Actor, Spawning(a)
  PROVE  ContentInv'
<1>1. UNCHANGED <<groups, bucket, offsets, merged>>
  BY Zenon DEF Spawning, LoadAvailable, FindPoolEmpty, ReserveAndSpawn, LoseReservation
<1>2. pc[a] \in {"load", "reserve"}
  BY Zenon DEF Spawning, LoadAvailable, FindPoolEmpty, ReserveAndSpawn, LoseReservation
<1>3. \/ pc' \in {[pc EXCEPT ![a] = "load"], [pc EXCEPT ![a] = "reserve"]} /\ next' = next
      \/ LeaveSpawning(a)
  BY Zenon DEF Spawning, LoadAvailable, FindPoolEmpty, ReserveAndSpawn, LoseReservation
<1>4. \A b \in Bucket : b \in Actor /\ b # Main BY ConstantFacts DEF Actor
<1>5. ASSUME NEW b \in Bucket PROVE Moves(b) /\ (pc[b] = "finished" => pc'[b] = "finished")
  <2>1. CASE b # a
    <3>1. pc'[b] = pc[b] /\ next'[b] = next[b]
      BY <1>3, <1>4, <2>1 DEF LeaveSpawning, TypeOK
    <3> QED BY <3>1 DEF Moves
  <2>2. CASE b = a
    <3>1. pc[b] # "finished" BY <1>2, <2>2
    <3>2. CASE pc' \in {[pc EXCEPT ![a] = "load"], [pc EXCEPT ![a] = "reserve"]} /\ next' = next
      <4>1. pc'[a] \in {"load", "reserve"} BY <3>2 DEF TypeOK
      <4>2. pc'[b] \in {"return", "load", "reserve"} /\ pc[b] \in {"return", "load", "reserve"}
        BY <1>2, <2>2, <4>1
      <4> QED BY <3>1, <3>2, <4>2 DEF Moves
    <3>3. CASE LeaveSpawning(a)
      <4>1. pc'[b] = "slot" /\ next'[b] = next[b] + 1
        BY <1>4, <2>2, <3>3 DEF LeaveSpawning, TypeOK
      <4> QED BY <1>2, <2>2, <3>1, <4>1 DEF Moves
    <3> QED BY <1>3, <3>2, <3>3
  <2> QED BY <2>1, <2>2
<1> QED BY <1>1, <1>5, QuietMove

LEMMA PublishContent ==
  ASSUME TypeOK, IInv, ContentInv, NEW g \in GroupIndex, PublishStrings(g)
  PROVE  ContentInv'
<1>1. /\ UNCHANGED <<groups, bucket, offsets, merged, next>>
      /\ published[g] < NumBuckets
      /\ pc' = IF slot[<<g, published[g]>>] = "WaitingForStrings"
               THEN [pc EXCEPT ![published[g]] = "slot"] ELSE pc
  BY Zenon DEF PublishStrings
<1>2. published[g] \in Bucket BY <1>1, TypeFacts, ConstantFacts DEF Bucket
<1>3. ASSUME NEW b \in Bucket PROVE Moves(b) /\ (pc[b] = "finished" => pc'[b] = "finished")
  <2>1. pc'[b] = pc[b] \/ (b = published[g] /\ slot[<<g, b>>] = "WaitingForStrings" /\ pc'[b] = "slot")
    BY <1>1, <1>2 DEF TypeOK, Actor
  <2>2. slot[<<g, b>>] = "WaitingForStrings" => pc[b] = "parked" BY DEF IInv, HandOverInv, HandOver
  <2> QED BY <1>1, <2>1, <2>2 DEF Moves
<1> QED BY <1>1, <1>3, QuietMove

LEMMA BucketTaskContent ==
  ASSUME TypeOK, IInv, ContentInv, NEW b \in Bucket, BucketTask(b)
  PROVE  ContentInv'
<1>1. CASE ProcessSplitOutput(b) BY <1>1, ProcessContent
<1>2. CASE ~ProcessSplitOutput(b)
  <2>1. /\ UNCHANGED <<groups, bucket, offsets, merged, next>>
        /\ \/ pc[b] = "slot" /\ pc' \in {[pc EXCEPT ![b] = "merge"], [pc EXCEPT ![b] = "parked"],
                                         [pc EXCEPT ![b] = "finished"]}
           \/ pc[b] = "return" /\ pc' = [pc EXCEPT ![b] = "load"]
    BY <1>2, Zenon DEF BucketTask, TakeStrings, WaitForStrings, FinishBucket, ReturnStrings
  <2>2. ASSUME NEW c \in Bucket PROVE Moves(c) /\ (pc[c] = "finished" => pc'[c] = "finished")
    BY <2>1 DEF Moves, TypeOK, Actor
  <2> QED BY <2>1, <2>2, QuietMove
<1> QED BY <1>1, <1>2

LEMMA FinaliseContent ==
  ASSUME TypeOK, ContentInv, FinaliseSection
  PROVE  ContentInv'
<1>1. UNCHANGED <<groups, bucket, offsets, pc, next>> BY DEF FinaliseSection
<1>2. FinalInv'
  <2> SUFFICES ASSUME merged'.state = "done"
               PROVE  (\A b \in Bucket : pc[b] = "finished") /\ merged'.bucket_offsets = BucketStart
    BY <1>1 DEF FinalInv, BucketStart
  <2>1. merged' = IF error # "none" THEN [state |-> "error"]
                  ELSE IF \E b \in Bucket : pc[b] # "finished" THEN [state |-> "panic"]
                  ELSE [state |-> "done", bucket_offsets |-> BucketStart]
    BY DEF FinaliseSection
  <2>2. merged' # [state |-> "error"] /\ merged' # [state |-> "panic"] OBVIOUS
  <2>3. ~(\E b \in Bucket : pc[b] # "finished") BY <2>1, <2>2
  <2>4. merged' = [state |-> "done", bucket_offsets |-> BucketStart] BY <2>1, <2>2
  <2> QED BY <2>3, <2>4
<1>3. \A b \in Bucket : Moves(b) BY <1>1 DEF Moves
<1> QED BY <1>1, <1>2, <1>3, QuietContent

LEMMA ContentStep ==
  ASSUME TypeOK, IInv, ContentInv, [Next]_vars
  PROVE  ContentInv'
<1>1. CASE \E a \in Actor : Spawning(a) BY <1>1, SpawningContent
<1>2. CASE FindNoGroup \/ ProcessInputSectionGroup \/ Ended \/ UNCHANGED vars
  <2>1. UNCHANGED <<groups, bucket, offsets, merged, next, pc>>
    BY <1>2, Zenon DEF FindNoGroup, ProcessInputSectionGroup, Ended, vars
  <2>2. \A b \in Bucket : Moves(b) /\ (pc[b] = "finished" => pc'[b] = "finished")
    BY <2>1 DEF Moves
  <2> QED BY <2>1, <2>2, QuietMove
<1>3. CASE \E g \in GroupIndex : PublishStrings(g) BY <1>3, PublishContent
<1>4. CASE \E b \in Bucket : BucketTask(b) BY <1>4, BucketTaskContent
<1>5. CASE FinaliseSection BY <1>5, FinaliseContent
<1> QED BY <1>1, <1>2, <1>3, <1>4, <1>5 DEF Next

LEMMA ContentsCorrect == Spec => []ContentInv
BY InitContent, ContentStep, Inductive, PTL DEF Spec

---------------------------------------------------------------------------
(* The section when all is merged.                                         *)
LEMMA AllPlaced ==
  ASSUME TypeOK, IInv, ContentInv, merged.state = "done",
         NEW b \in Bucket, NEW x \in StringsOf(groups, b)
  PROVE  /\ x.string \in String /\ x.at \in Nat
         /\ Length[x.string] \in Nat /\ Length[x.string] > 0
         /\ HasPlace(b, x) /\ Recording(b, x) \in offsets
<1>1. PICK g \in DOMAIN groups : x \in {groups[g].strings[b][i] : i \in DOMAIN groups[g].strings[b]}
  BY DEF StringsOf
<1>2. PICK i \in DOMAIN groups[g].strings[b] : x = groups[g].strings[b][i] BY <1>1
<1>3. g \in GroupIndex
  <2>1. groups \in Seq(SectionGroup) BY DEF TypeOK
  <2> QED BY <2>1 DEF GroupIndex
<1>4. x \in StringToMerge BY <1>2, <1>3, SplitFacts
<1>5. x.string \in String /\ x.at \in Nat BY <1>4 DEF StringToMerge
<1>6. Length[x.string] \in Nat \ {0} BY <1>5, StringAssumption
<1>7. Merged(g, b)
  <2>1. next[b] > Len(groups) BY DEF ContentInv, FinalInv, IInv, BoundsInv
  <2>2. next[b] > g BY <1>3, <2>1, TypeFacts DEF GroupIndex
  <2> QED BY <2>2 DEF Merged
<1>8. HasPlace(b, x) /\ Recording(b, x) \in offsets
  BY <1>2, <1>3, <1>7 DEF ContentInv, RecordedInv
<1> QED BY <1>5, <1>6, <1>8

(* Every bucket has merged every group, in order.                          *)
LEMMA AllInOrder ==
  ASSUME TypeOK, IInv, ContentInv, merged.state = "done"
  PROVE  MergedInOrder
<1> SUFFICES ASSUME NEW b \in Bucket PROVE bucket[b] = BucketAfter(groups, b)[Len(groups)]
  BY DEF MergedInOrder
<1>1. pc[b] = "finished" /\ next[b] > Len(groups)
  BY DEF ContentInv, FinalInv, IInv, BoundsInv
<1>2. next[b] \in Nat /\ Len(groups) \in Nat /\ next[b] <= Len(groups) + 1 BY TypeFacts
<1>3. next[b] = Len(groups) + 1 /\ next[b] - 1 = Len(groups) BY <1>1, <1>2
<1>4. ~Merged(next[b], b) BY <1>1, <1>2 DEF Merged
<1>5. MergedCount(b) = Len(groups) BY <1>3, <1>4, Zenon DEF MergedCount
<1> QED BY <1>5 DEF ContentInv, OrderInv

LEMMA PlaceFacts ==
  ASSUME TypeOK, IInv, ContentInv, merged.state = "done",
         NEW b \in Bucket, NEW x \in StringsOf(groups, b)
  PROVE  /\ OffsetIn(bucket[b], x.string) \in Nat
         /\ bucket[b].next_offset \in Nat
         /\ OffsetIn(bucket[b], x.string) + Length[x.string] <= bucket[b].next_offset
         /\ BucketStart[b] \in Nat
         /\ Place(b, x.string) = BucketStart[b] + OffsetIn(bucket[b], x.string)
         /\ Place(b, x.string) \in Nat
<1>1. \A c \in Bucket : Sound(bucket[c]) BY DEF ContentInv, BucketsInv
<1>2. \A c \in Bucket : bucket[c].next_offset \in Nat BY <1>1, SoundFacts
<1>3. x.string \in Contents(bucket[b]) BY AllPlaced DEF HasPlace
<1>4. /\ OffsetIn(bucket[b], x.string) \in Nat
      /\ OffsetIn(bucket[b], x.string) + Length[x.string] <= bucket[b].next_offset
  BY <1>1, <1>3, OffsetFacts
<1>5. BucketStart[b] \in Nat BY <1>2, StartFacts
<1>6. Place(b, x.string) = BucketStart[b] + OffsetIn(bucket[b], x.string)
  BY DEF Place, ContentInv, FinalInv
<1> QED BY <1>2, <1>4, <1>5, <1>6

LEMMA PlacesApart ==
  ASSUME TypeOK, IInv, ContentInv, merged.state = "done"
  PROVE  StringsApart
<1> SUFFICES ASSUME NEW b \in Bucket, NEW c \in Bucket,
                    NEW x \in StringsOf(groups, b), NEW y \in StringsOf(groups, c),
                    x.string # y.string
             PROVE  \/ Place(b, x.string) + Length[x.string] <= Place(c, y.string)
                    \/ Place(c, y.string) + Length[y.string] <= Place(b, x.string)
  BY DEF StringsApart
<1>1. \A d \in Bucket : Sound(bucket[d]) BY DEF ContentInv, BucketsInv
<1>2. \A d \in Bucket : bucket[d].next_offset \in Nat BY <1>1, SoundFacts
<1>3. Length[x.string] \in Nat /\ Length[y.string] \in Nat BY AllPlaced
<1>4. ASSUME NEW d \in Bucket, NEW e \in Bucket, d < e,
             NEW u \in StringsOf(groups, d), NEW v \in StringsOf(groups, e)
      PROVE  Place(d, u.string) + Length[u.string] <= Place(e, v.string)
  <2>1. BucketStart[d] + bucket[d].next_offset <= BucketStart[e] BY <1>2, <1>4, StartFacts
  <2>2. /\ OffsetIn(bucket[d], u.string) \in Nat
        /\ bucket[d].next_offset \in Nat
        /\ OffsetIn(bucket[d], u.string) + Length[u.string] <= bucket[d].next_offset
        /\ BucketStart[d] \in Nat
        /\ Place(d, u.string) = BucketStart[d] + OffsetIn(bucket[d], u.string)
    BY PlaceFacts
  <2>3. /\ OffsetIn(bucket[e], v.string) \in Nat
        /\ BucketStart[e] \in Nat
        /\ Place(e, v.string) = BucketStart[e] + OffsetIn(bucket[e], v.string)
    BY PlaceFacts
  <2>4. Length[u.string] \in Nat BY AllPlaced
  <2> QED BY <2>1, <2>2, <2>3, <2>4
<1>5. CASE b = c
  <2>1. x.string \in Contents(bucket[b]) /\ y.string \in Contents(bucket[b])
    BY <1>5, AllPlaced DEF HasPlace
  <2>2. \/ OffsetIn(bucket[b], x.string) + Length[x.string] <= OffsetIn(bucket[b], y.string)
        \/ OffsetIn(bucket[b], y.string) + Length[y.string] <= OffsetIn(bucket[b], x.string)
    BY <1>1, <2>1, OffsetsApart
  <2>3. /\ Place(b, x.string) = BucketStart[b] + OffsetIn(bucket[b], x.string)
        /\ Place(b, y.string) = BucketStart[b] + OffsetIn(bucket[b], y.string)
        /\ OffsetIn(bucket[b], x.string) \in Nat /\ OffsetIn(bucket[b], y.string) \in Nat
        /\ BucketStart[b] \in Nat
    BY <1>5, PlaceFacts
  <2> QED BY <1>3, <1>5, <2>2, <2>3
<1>6. CASE b < c BY <1>4, <1>6
<1>7. CASE c < b BY <1>4, <1>7
<1>8. b \in Nat /\ c \in Nat BY TypeFacts
<1> QED BY <1>5, <1>6, <1>7, <1>8

(* What find_string finds for a reference into a string: the place that    *)
(* was recorded for that very string.                                      *)
LEMMA RecordedOnce ==
  ASSUME TypeOK, IInv, ContentInv, merged.state = "done",
         NEW b \in Bucket, NEW x \in StringsOf(groups, b),
         NEW rec \in offsets, rec.at >= x.at, rec.at < x.at + Length[x.string]
  PROVE  rec = Recording(b, x)
<1>1. PICK c \in Bucket : \E y \in StringsOf(groups, c) : rec = Recording(c, y)
  BY DEF ContentInv, RecordedInv
<1>2. PICK y \in StringsOf(groups, c) : rec = Recording(c, y) BY <1>1
<1>3. rec.at = y.at BY <1>2 DEF Recording
<1>4. /\ \/ x = y
         \/ x.at + Length[x.string] <= y.at
         \/ y.at + Length[y.string] <= x.at
      /\ x.string = y.string => b = c
  BY WellSplitAssumption DEF ContentInv, WellSplit
<1>5. /\ x.at \in Nat /\ Length[x.string] \in Nat
      /\ y.at \in Nat /\ Length[y.string] \in Nat /\ Length[y.string] > 0
  BY AllPlaced
<1>6. x = y BY <1>3, <1>4, <1>5
<1> QED BY <1>2, <1>4, <1>6

LEMMA ReferencesReach ==
  ASSUME TypeOK, IInv, ContentInv, merged.state = "done",
         NEW b \in Bucket, bucket[b].next_offset <= BucketLimit
  PROVE  ReferencesFollow(b)
<1> SUFFICES ASSUME NEW x \in StringsOf(groups, b), NEW start \in 0 .. x.at,
                    NEW o \in x.at .. x.at + Length[x.string] - 1
             PROVE  OutputAddress(start, o - start) = Place(b, x.string) + (o - x.at)
  BY DEF ReferencesFollow
<1> DEFINE from == x.at - start
           found == {p \in 0 .. o - start : \E r \in offsets : r.at = start + p}
           off == OffsetIn(bucket[b], x.string)
<1>1. /\ x.at \in Nat /\ Length[x.string] \in Nat /\ Length[x.string] > 0
      /\ Recording(b, x) \in offsets
  BY AllPlaced
<1>2. start \in Nat /\ o \in Nat /\ from \in Nat /\ start <= x.at /\ x.at <= o /\ o < x.at + Length[x.string]
  BY <1>1
<1>3. Recording(b, x).at = x.at /\ Recording(b, x).output = BucketOffset(off, b) BY DEF Recording
<1>4. from \in found
  <2>1. from \in 0 .. o - start BY <1>1, <1>2
  <2>2. Recording(b, x).at = start + from BY <1>1, <1>2, <1>3
  <2> QED BY <1>1, <2>1, <2>2
<1>5. ASSUME NEW p \in found PROVE from >= p
  <2>1. PICK r \in offsets : r.at = start + p BY <1>5
  <2>2. p \in Nat /\ p <= o - start BY <1>5
  <2>3. SUFFICES ASSUME p > from PROVE FALSE BY <1>2, <2>2
  <2>4. r.at >= x.at /\ r.at < x.at + Length[x.string] BY <1>1, <1>2, <2>1, <2>2, <2>3
  <2>5. r.at = x.at BY <1>3, <2>4, RecordedOnce
  <2> QED BY <1>1, <1>2, <2>1, <2>2, <2>3, <2>5
<1>6. Max(found) = from
  <2>1. \A p \in found : p \in Nat OBVIOUS
  <2> HIDE DEF found
  <2>2. ASSUME NEW m \in found, \A p \in found : m >= p PROVE m = from
    <3>1. m >= from /\ from >= m BY <1>4, <1>5, <2>2
    <3> QED BY <1>2, <2>1, <3>1
  <2> HIDE DEF from
  <2> QED BY <1>4, <1>5, <2>2 DEF Max
<1>7. (CHOOSE r \in offsets : r.at = start + from) = Recording(b, x)
  <2>1. start + from = x.at BY <1>1, <1>2
  <2>2. \E r \in offsets : r.at = start + from BY <1>1, <1>3, <2>1
  <2>3. ASSUME NEW r \in offsets, r.at = start + from PROVE r = Recording(b, x)
    <3>1. r.at >= x.at /\ r.at < x.at + Length[x.string] BY <1>1, <2>1, <2>3
    <3> QED BY <3>1, RecordedOnce
  <2> HIDE DEF from
  <2> QED BY <2>2, <2>3
<1>8. FindString(start, o - start)
        = (BucketOffset(off, b) + ((o - start) - from)) % (NumBuckets * BucketLimit)
  <2> HIDE DEF from, off
  <2>1. FindString(start, o - start)
          = ((CHOOSE r \in offsets : r.at = start + Max(found)).output + ((o - start) - Max(found)))
            % (NumBuckets * BucketLimit)
    BY DEF FindString
  <2> HIDE DEF found
  <2> QED BY <1>3, <1>6, <1>7, <2>1
<1>9. (o - start) - from = o - x.at BY <1>1, <1>2
<1>10. off \in Nat /\ off + Length[x.string] <= BucketLimit
  <2>1. off \in Nat /\ bucket[b].next_offset \in Nat /\ off + Length[x.string] <= bucket[b].next_offset
    BY PlaceFacts
  <2>2. BucketLimit \in Nat BY PoolAssumption
  <2> QED BY <1>1, <2>1, <2>2
<1> DEFINE r == off + (o - x.at)
<1>11. r \in Nat /\ r < BucketLimit
  <2>1. BucketLimit \in Nat BY PoolAssumption
  <2> HIDE DEF off
  <2> QED BY <1>1, <1>2, <1>10, <2>1
<1>12. BucketOffset(off, b) + (o - x.at) = b * BucketLimit + r
  <2>1. b * BucketLimit \in Nat
    <3>1. b \in Nat /\ BucketLimit \in Nat BY PoolAssumption, TypeFacts
    <3> QED BY <3>1, SMT
  <2> HIDE DEF off
  <2> QED BY <1>1, <1>2, <1>10, <2>1 DEF BucketOffset
<1> HIDE DEF r
<1>13. /\ (b * BucketLimit + r) % (NumBuckets * BucketLimit) = b * BucketLimit + r
       /\ (b * BucketLimit + r) \div BucketLimit = b
       /\ (b * BucketLimit + r) % BucketLimit = r
  BY <1>11, Unpack
<1>14. FindString(start, o - start) = b * BucketLimit + r
  <2> HIDE DEF off, from
  <2> QED BY <1>8, <1>9, <1>12, <1>13
<1>15. OutputAddress(start, o - start) = merged.bucket_offsets[b] + r
  <2>1. OutputAddress(start, o - start)
          = merged.bucket_offsets[FindString(start, o - start) \div BucketLimit]
            + (FindString(start, o - start) % BucketLimit)
    BY DEF OutputAddress
  <2> QED BY <1>13, <1>14, <2>1
<1>16. merged.bucket_offsets[b] = BucketStart[b] BY DEF ContentInv, FinalInv
<1>17. BucketStart[b] \in Nat /\ Place(b, x.string) = BucketStart[b] + off BY PlaceFacts
<1> QED
  <2>1. BucketStart[b] + (off + (o - x.at)) = (BucketStart[b] + off) + (o - x.at)
    <3> HIDE DEF off
    <3> QED BY <1>1, <1>2, <1>10, <1>17
  <2> QED BY <1>15, <1>16, <1>17, <2>1 DEF r

(* add_input_sections and find_string, whatever the strings, the buckets   *)
(* and the schedule: the section is what taking the groups in order gives, *)
(* identical strings share a place, different ones do not overlap, and a   *)
(* reference to a string or into it is translated to the same byte at that *)
(* place, unless the bucket ends beyond the offsets BucketOffset can       *)
(* represent.                                                              *)
THEOREM MergeStringsMerged == Spec => []StringsMerged
<1>1. TypeOK /\ IInv /\ ContentInv => StringsMerged
  BY AllInOrder, PlacesApart, ReferencesReach DEF StringsMerged
<1> QED BY <1>1, Inductive, ContentsCorrect, PTL

---------------------------------------------------------------------------
(* Where the strings of a section and the sections lie.                    *)
LEMMA SectionFacts ==
  ASSUME NEW sec \in InputSection
  PROVE  /\ sec.strings \in Seq(String) /\ Len(sec.strings) \in Nat /\ Len(sec.strings) > 0
         /\ DOMAIN sec.strings = 1 .. Len(sec.strings)
         /\ \A k \in DOMAIN sec.strings :
              sec.strings[k] \in String /\ Length[sec.strings[k]] \in Nat /\ Length[sec.strings[k]] > 0
         /\ sec.is_string \in BOOLEAN /\ sec.terminated \in BOOLEAN
         /\ ~sec.is_string => Len(sec.strings) = 1
<1>1. sec \in [strings : Seq(String), is_string : BOOLEAN, terminated : BOOLEAN]
      /\ sec.strings # << >> /\ (~sec.is_string => Len(sec.strings) = 1)
  BY DEF InputSection
<1>2. sec.strings \in Seq(String) /\ sec.is_string \in BOOLEAN /\ sec.terminated \in BOOLEAN BY <1>1
<1>3. Len(sec.strings) > 0 BY <1>1, <1>2
<1>4. \A k \in DOMAIN sec.strings : sec.strings[k] \in String BY <1>2
<1>5. \A k \in DOMAIN sec.strings : Length[sec.strings[k]] \in Nat \ {0} BY <1>4, StringAssumption
<1> QED BY <1>1, <1>2, <1>3, <1>4, <1>5

LEMMA StringStartUnfold ==
  ASSUME NEW sec \in InputSection
  PROVE  \E size :
           /\ size[0] = 0
           /\ \A n \in 1 .. Len(sec.strings) : size[n] = size[n - 1] + Length[sec.strings[n]]
           /\ \A k : StringStart(sec, k) = size[k - 1]
<1> DEFINE m == Len(sec.strings)
           rule == [p \in Nat \X (1 .. m) |-> p[1] + Length[sec.strings[p[2]]]]
           Body(f) == [n \in 0 .. m |-> IF n = 0 THEN 0 ELSE f[n - 1] + Length[sec.strings[n]]]
           F == CHOOSE f : f = Body(f)
<1>1. m \in Nat /\ \A n \in 1 .. m : Length[sec.strings[n]] \in Nat BY SectionFacts
<1>2. rule \in [Nat \X (1 .. m) -> Nat]
  <2> SUFFICES ASSUME NEW p \in Nat \X (1 .. m) PROVE p[1] + Length[sec.strings[p[2]]] \in Nat
    OBVIOUS
  <2>1. p[1] \in Nat /\ p[2] \in 1 .. m OBVIOUS
  <2> QED BY <1>1, <2>1
<1>3. PICK f \in [0 .. m -> Nat] : Follows(f, m, 0, rule)
  <2> HIDE DEF rule, m
  <2> QED BY <1>1, <1>2, RecursionExists
<1>4. f = Body(f)
  <2>1. ASSUME NEW n \in 0 .. m PROVE f[n] = Body(f)[n]
    <3>1. CASE n = 0 BY <1>3, <3>1 DEF Follows
    <3>2. CASE n # 0
      <4>1. n \in 1 .. m /\ n - 1 \in 0 .. m BY <1>1, <3>2
      <4>2. f[n - 1] \in Nat BY <1>3, <4>1
      <4>3. rule[<<f[n - 1], n>>] = f[n - 1] + Length[sec.strings[n]] BY <4>1, <4>2
      <4> HIDE DEF rule
      <4> QED BY <1>3, <3>2, <4>1, <4>3 DEF Follows
    <3> QED BY <3>1, <3>2
  <2> QED BY <1>3, <2>1
<1>5. F = Body(F) BY <1>4
<1>6. \A k : StringStart(sec, k) = F[k - 1] BY DEF StringStart
<1>7. F[0] = 0 /\ \A n \in 1 .. m : F[n] = F[n - 1] + Length[sec.strings[n]]
  <2> HIDE DEF F
  <2>1. 0 \in 0 .. m /\ \A n \in 1 .. m : n \in 0 .. m /\ n # 0 BY <1>1
  <2> HIDE DEF m
  <2> QED BY <1>5, <2>1
<1> HIDE DEF F
<1> QED BY <1>6, <1>7

(* Sums of lengths grow.                                                   *)
LEMMA SumsGrow ==
  ASSUME NEW m \in Nat, NEW size, size[0] = 0, NEW step, \A n \in 1 .. m : step[n] \in Nat,
         \A n \in 1 .. m : size[n] = size[n - 1] + step[n]
  PROVE  /\ \A n \in 0 .. m : size[n] \in Nat
         /\ \A i \in 1 .. m, j \in 0 .. m : i <= j => size[i - 1] + step[i] <= size[j]
<1>1. \A n \in 0 .. m : size[n] \in Nat
  <2> DEFINE S == {n \in 0 .. m : size[n] \in Nat}
  <2>1. 0 \in S OBVIOUS
  <2>2. ASSUME NEW n \in 0 .. m, n \in S, n < m PROVE n + 1 \in S
    <3>1. n + 1 \in 1 .. m /\ (n + 1) - 1 = n BY <2>2
    <3>2. size[n + 1] = size[n] + step[n + 1] /\ step[n + 1] \in Nat /\ size[n] \in Nat BY <2>2, <3>1
    <3> QED BY <3>1, <3>2
  <2>3. \A n \in 0 .. m : n \in S
    <3> HIDE DEF S
    <3> QED BY <2>1, <2>2, UpTo
  <2> QED BY <2>3
<1>2. ASSUME NEW i \in 1 .. m PROVE \A j \in 0 .. m : i <= j => size[i - 1] + step[i] <= size[j]
  <2> DEFINE S == {n \in 0 .. m : i <= n => size[i - 1] + step[i] <= size[n]}
  <2>1. 0 \in S OBVIOUS
  <2>2. ASSUME NEW n \in 0 .. m, n \in S, n < m PROVE n + 1 \in S
    <3>1. n + 1 \in 1 .. m /\ (n + 1) - 1 = n /\ n + 1 \in 0 .. m BY <2>2
    <3>2. size[n + 1] = size[n] + step[n + 1] /\ step[n + 1] \in Nat /\ size[n] \in Nat BY <1>1, <3>1
    <3>3. CASE i = n + 1
      <4>1. size[i - 1] + step[i] = size[n + 1] BY <3>1, <3>2, <3>3
      <4>2. size[n + 1] \in Nat BY <3>2
      <4> QED BY <3>1, <4>1, <4>2
    <3>4. CASE i <= n
      <4>1. size[i - 1] + step[i] <= size[n] BY <2>2, <3>4
      <4>2. i - 1 \in 0 .. m /\ size[i - 1] \in Nat /\ step[i] \in Nat BY <1>1
      <4> QED BY <3>1, <3>2, <4>1, <4>2
    <3>5. CASE i > n + 1 BY <3>1, <3>5
    <3> QED BY <3>3, <3>4, <3>5
  <2>3. \A n \in 0 .. m : n \in S
    <3> HIDE DEF S
    <3> QED BY <2>1, <2>2, UpTo
  <2> QED BY <2>3
<1> QED BY <1>1, <1>2

LEMMA StringStartFacts ==
  ASSUME NEW sec \in InputSection
  PROVE  /\ StringStart(sec, 1) = 0
         /\ \A k \in DOMAIN sec.strings :
              /\ StringStart(sec, k) \in Nat
              /\ StringStart(sec, k) + Length[sec.strings[k]] <= DataLen(sec)
         /\ \A j, k \in DOMAIN sec.strings :
              j < k => StringStart(sec, j) + Length[sec.strings[j]] <= StringStart(sec, k)
         /\ DataLen(sec) \in Nat /\ DataLen(sec) > 0
<1> DEFINE m == Len(sec.strings)
           step == [n \in 1 .. m |-> Length[sec.strings[n]]]
<1>1. PICK size :
        /\ size[0] = 0
        /\ \A n \in 1 .. m : size[n] = size[n - 1] + Length[sec.strings[n]]
        /\ \A k : StringStart(sec, k) = size[k - 1]
  BY StringStartUnfold
<1>2. m \in Nat /\ m > 0 /\ DOMAIN sec.strings = 1 .. m
      /\ \A n \in 1 .. m : Length[sec.strings[n]] \in Nat /\ Length[sec.strings[n]] > 0
  BY SectionFacts
<1>3. \A n \in 1 .. m : step[n] = Length[sec.strings[n]] OBVIOUS
<1>4. /\ \A n \in 0 .. m : size[n] \in Nat
      /\ \A i \in 1 .. m, j \in 0 .. m : i <= j => size[i - 1] + step[i] <= size[j]
  <2>1. \A n \in 1 .. m : step[n] \in Nat /\ size[n] = size[n - 1] + step[n] BY <1>1, <1>2, <1>3
  <2> HIDE DEF step, m
  <2> QED BY <1>1, <1>2, <2>1, SumsGrow
<1> HIDE DEF step, m
<1>5. StringStart(sec, 1) = 0
  <2>1. 1 - 1 = 0 OBVIOUS
  <2> QED BY <1>1, <2>1
<1>6. DataLen(sec) = size[m]
  <2>1. (m + 1) - 1 = m BY <1>2
  <2> QED BY <1>1, <2>1 DEF DataLen, m
<1>7. ASSUME NEW k \in DOMAIN sec.strings
      PROVE  /\ StringStart(sec, k) \in Nat
             /\ StringStart(sec, k) + Length[sec.strings[k]] <= DataLen(sec)
  <2>1. k \in 1 .. m /\ k - 1 \in 0 .. m /\ m \in 0 .. m /\ k <= m BY <1>2
  <2> QED BY <1>1, <1>3, <1>4, <1>6, <2>1
<1>8. ASSUME NEW j \in DOMAIN sec.strings, NEW k \in DOMAIN sec.strings, j < k
      PROVE  StringStart(sec, j) + Length[sec.strings[j]] <= StringStart(sec, k)
  <2>1. j \in 1 .. m /\ k - 1 \in 0 .. m /\ j <= k - 1 BY <1>2, <1>8
  <2> QED BY <1>1, <1>3, <1>4, <2>1
<1>9. DataLen(sec) \in Nat /\ DataLen(sec) > 0
  <2>1. 1 \in 1 .. m /\ m \in 0 .. m /\ 1 <= m /\ 1 - 1 = 0 /\ 0 \in 0 .. m BY <1>2
  <2>2. size[0] + step[1] <= size[m] BY <1>4, <2>1
  <2>3. size[m] \in Nat /\ step[1] \in Nat /\ step[1] > 0 BY <1>2, <1>3, <1>4, <2>1
  <2> QED BY <1>1, <1>6, <2>2, <2>3
<1> QED BY <1>5, <1>7, <1>8, <1>9

LEMMA PaddedLenFacts ==
  ASSUME NEW sec \in InputSection
  PROVE  PaddedLen(sec) \in Nat /\ DataLen(sec) <= PaddedLen(sec) /\ PaddedLen(sec) < DataLen(sec) + MapBlockSize
<1>1. DataLen(sec) \in Nat BY StringStartFacts
<1>2. MapBlockSize \in Nat /\ MapBlockSize > 0 BY SplitAssumption
<1>3. PICK d \in Nat : d = DataLen(sec) BY <1>1
<1>4. PICK s \in Nat : s = MapBlockSize BY <1>2
<1>5. PaddedLen(sec) = ((d + s - 1) \div s) * s BY <1>3, <1>4 DEF PaddedLen
<1>6. s > 0 BY <1>2, <1>4
<1> DEFINE x == d + s - 1
           q == x \div s
           r == x % s
<1>7. x \in Nat BY <1>6
<1>8. q \in Nat /\ r \in 0 .. s - 1 /\ x = q * s + r
  <2> HIDE DEF x
  <2> QED BY <1>6, <1>7, SMT
<1>9. q * s \in Nat
  <2> HIDE DEF q
  <2> QED BY <1>8, SMT
<1>10. PICK y \in Nat : y = q * s BY <1>9
<1>11. x = y + r /\ r \in 0 .. s - 1 BY <1>8, <1>10
<1>12. d <= y /\ y < d + s
  <2> HIDE DEF q, r
  <2> QED BY <1>6, <1>11
<1> QED BY <1>3, <1>4, <1>5, <1>10, <1>12

LEMMA StartOffsetUnfold ==
  ASSUME NEW secs \in Seq(InputSection)
  PROVE  \E size :
           /\ size[0] = 0
           /\ \A n \in 1 .. Len(secs) : size[n] = size[n - 1] + PaddedLen(secs[n])
           /\ \A i : StartInputOffset(secs, i) = size[i - 1]
<1> DEFINE m == Len(secs)
           rule == [p \in Nat \X (1 .. m) |-> p[1] + PaddedLen(secs[p[2]])]
           Body(f) == [n \in 0 .. m |-> IF n = 0 THEN 0 ELSE f[n - 1] + PaddedLen(secs[n])]
           F == CHOOSE f : f = Body(f)
<1>1. m \in Nat /\ \A n \in 1 .. m : PaddedLen(secs[n]) \in Nat
  <2>1. m \in Nat /\ \A n \in 1 .. m : secs[n] \in InputSection OBVIOUS
  <2> QED BY <2>1, PaddedLenFacts
<1>2. rule \in [Nat \X (1 .. m) -> Nat]
  <2> SUFFICES ASSUME NEW p \in Nat \X (1 .. m) PROVE p[1] + PaddedLen(secs[p[2]]) \in Nat
    OBVIOUS
  <2>1. p[1] \in Nat /\ p[2] \in 1 .. m OBVIOUS
  <2> QED BY <1>1, <2>1
<1>3. PICK f \in [0 .. m -> Nat] : Follows(f, m, 0, rule)
  <2> HIDE DEF rule, m
  <2> QED BY <1>1, <1>2, RecursionExists
<1>4. f = Body(f)
  <2>1. ASSUME NEW n \in 0 .. m PROVE f[n] = Body(f)[n]
    <3>1. CASE n = 0 BY <1>3, <3>1 DEF Follows
    <3>2. CASE n # 0
      <4>1. n \in 1 .. m /\ n - 1 \in 0 .. m BY <1>1, <3>2
      <4>2. f[n - 1] \in Nat BY <1>3, <4>1
      <4>3. rule[<<f[n - 1], n>>] = f[n - 1] + PaddedLen(secs[n]) BY <4>1, <4>2
      <4> HIDE DEF rule
      <4> QED BY <1>3, <3>2, <4>1, <4>3 DEF Follows
    <3> QED BY <3>1, <3>2
  <2> QED BY <1>3, <2>1
<1>5. F = Body(F) BY <1>4
<1>6. \A i : StartInputOffset(secs, i) = F[i - 1] BY DEF StartInputOffset
<1>7. F[0] = 0 /\ \A n \in 1 .. m : F[n] = F[n - 1] + PaddedLen(secs[n])
  <2> HIDE DEF F
  <2>1. 0 \in 0 .. m /\ \A n \in 1 .. m : n \in 0 .. m /\ n # 0 BY <1>1
  <2> HIDE DEF m
  <2> QED BY <1>5, <2>1
<1> HIDE DEF F
<1> QED BY <1>6, <1>7

(* Sections lie one behind the other, each with at least a byte.           *)
LEMMA StartOffsetFacts ==
  ASSUME NEW secs \in Seq(InputSection)
  PROVE  /\ Len(secs) \in Nat /\ DOMAIN secs = 1 .. Len(secs)
         /\ StartInputOffset(secs, 1) = 0
         /\ \A i \in 1 .. Len(secs) + 1 : StartInputOffset(secs, i) \in Nat
         /\ \A i \in 1 .. Len(secs) :
              /\ secs[i] \in InputSection
              /\ StartInputOffset(secs, i + 1) = StartInputOffset(secs, i) + PaddedLen(secs[i])
              /\ StartInputOffset(secs, i) < StartInputOffset(secs, i + 1)
         /\ \A i, j \in 1 .. Len(secs) + 1 : i <= j => StartInputOffset(secs, i) <= StartInputOffset(secs, j)
<1> DEFINE m == Len(secs)
           step == [n \in 1 .. m |-> PaddedLen(secs[n])]
           start(i) == StartInputOffset(secs, i)
<1>1. PICK size :
        /\ size[0] = 0
        /\ \A n \in 1 .. m : size[n] = size[n - 1] + PaddedLen(secs[n])
        /\ \A i : start(i) = size[i - 1]
  BY StartOffsetUnfold
<1>2. m \in Nat /\ DOMAIN secs = 1 .. m /\ \A n \in 1 .. m : secs[n] \in InputSection OBVIOUS
<1>3. \A n \in 1 .. m : step[n] = PaddedLen(secs[n]) /\ step[n] \in Nat /\ step[n] > 0
  <2> TAKE n \in 1 .. m
  <2>1. DataLen(secs[n]) \in Nat /\ DataLen(secs[n]) > 0 /\ PaddedLen(secs[n]) \in Nat
        /\ DataLen(secs[n]) <= PaddedLen(secs[n])
    BY <1>2, StringStartFacts, PaddedLenFacts
  <2> QED BY <2>1
<1>4. /\ \A n \in 0 .. m : size[n] \in Nat
      /\ \A i \in 1 .. m, j \in 0 .. m : i <= j => size[i - 1] + step[i] <= size[j]
  <2>1. \A n \in 1 .. m : step[n] \in Nat /\ size[n] = size[n - 1] + step[n] BY <1>1, <1>3
  <2> HIDE DEF step, m
  <2> QED BY <1>1, <1>2, <2>1, SumsGrow
<1> HIDE DEF step, m, start
<1>5. start(1) = 0
  <2>1. 1 - 1 = 0 OBVIOUS
  <2> QED BY <1>1, <2>1
<1>6. ASSUME NEW i \in 1 .. m + 1 PROVE start(i) \in Nat
  <2>1. i - 1 \in 0 .. m BY <1>2
  <2> QED BY <1>1, <1>4, <2>1
<1>7. ASSUME NEW i \in 1 .. m PROVE start(i + 1) = start(i) + PaddedLen(secs[i]) /\ start(i) < start(i + 1)
  <2>1. (i + 1) - 1 = i /\ i \in 1 .. m + 1 /\ i + 1 \in 1 .. m + 1 BY <1>2
  <2>2. start(i + 1) = start(i) + PaddedLen(secs[i]) BY <1>1, <2>1
  <2>3. start(i) \in Nat BY <1>6, <2>1
  <2> QED BY <1>3, <2>2, <2>3
<1>8. ASSUME NEW i \in 1 .. m + 1, NEW j \in 1 .. m + 1, i <= j PROVE start(i) <= start(j)
  <2>1. CASE i = j BY <1>6, <2>1
  <2>2. CASE i < j
    <3>1. i \in 1 .. m /\ i - 1 \in 0 .. m /\ j - 1 \in 0 .. m /\ i <= j - 1 BY <1>2, <2>2
    <3>2. size[i - 1] + step[i] <= size[j - 1] /\ size[i - 1] \in Nat /\ size[j - 1] \in Nat /\ step[i] \in Nat
      BY <1>3, <1>4, <3>1
    <3> QED BY <1>1, <3>2
  <2> QED BY <1>2, <1>8, <2>1, <2>2
<1> QED BY <1>2, <1>5, <1>6, <1>7, <1>8 DEF start, m

---------------------------------------------------------------------------
(* A group is a range of offsets in consecutive sections.  It begins and   *)
(* ends at the end of a section or within one that is made of strings.     *)
GroupFits(secs, g) ==
  /\ g = [first |-> g.first, last |-> g.last, start |-> g.start, end |-> g.end, end_section |-> g.end_section]
  /\ g.first \in 1 .. Len(secs) /\ g.last \in g.first .. Len(secs)
  /\ g.start \in Nat /\ g.end \in Nat /\ g.end_section \in BOOLEAN
  /\ StartInputOffset(secs, g.first) <= g.start /\ g.start < StartInputOffset(secs, g.first + 1)
  /\ g.start > StartInputOffset(secs, g.first) => secs[g.first].is_string
  /\ g.start < g.end /\ StartInputOffset(secs, g.last) < g.end
  /\ g.end_section => g.end = StartInputOffset(secs, g.last + 1)
  /\ ~g.end_section => g.end < StartInputOffset(secs, g.last + 1) /\ secs[g.last].is_string

RangeGroup == [first : Nat, last : Nat, start : Nat, end : Nat, end_section : BOOLEAN]

LEMMA FillGroupFits ==
  ASSUME NEW secs \in Seq(InputSection), NEW i \in 1 .. Len(secs), NEW start \in Nat,
         StartInputOffset(secs, i) <= start, start < StartInputOffset(secs, i + 1),
         start > StartInputOffset(secs, i) => secs[i].is_string
  PROVE  /\ GroupFits(secs, FillGroup(secs, i, start))
         /\ FillGroup(secs, i, start).first = i /\ FillGroup(secs, i, start).start = start
<1> DEFINE m == Len(secs)
           S(j) == StartInputOffset(secs, j)
           taken(j) == S(j + 1) - start
           Stops == {j \in i .. m : taken(j) >= TargetGroupSize \/ j = m}
           last == Min(Stops)
           divided == taken(last) > TargetGroupSize /\ secs[last].is_string
           g == FillGroup(secs, i, start)
<1>1. /\ m \in Nat /\ i \in Nat /\ i <= m
      /\ \A j \in 1 .. m + 1 : S(j) \in Nat
      /\ \A j \in 1 .. m : secs[j] \in InputSection /\ S(j) < S(j + 1)
      /\ \A j, k \in 1 .. m + 1 : j <= k => S(j) <= S(k)
  BY StartOffsetFacts
<1>2. TargetGroupSize \in Nat /\ TargetGroupSize > 0 BY SplitAssumption
<1>3. g = [first |-> i, last |-> last, start |-> start,
           end |-> IF divided THEN start + TargetGroupSize ELSE start + taken(last),
           end_section |-> ~divided]
  BY DEF FillGroup
<1>4. last \in Stops /\ \A j \in Stops : last <= j
  <2>1. m \in Stops /\ Stops \in SUBSET Nat BY <1>1
  <2>2. \E x \in Stops : \A y \in Stops : x <= y
    <3> HIDE DEF Stops
    <3> QED BY <2>1, LeastNumber
  <2> HIDE DEF Stops
  <2> QED BY <2>2 DEF Min
<1>5. last \in Nat /\ i <= last /\ last <= m /\ (taken(last) >= TargetGroupSize \/ last = m) BY <1>1, <1>4
<1>6. i < last => taken(last - 1) < TargetGroupSize
  <2> SUFFICES ASSUME i < last PROVE taken(last - 1) < TargetGroupSize OBVIOUS
  <2>1. last - 1 \in i .. m /\ ~(last <= last - 1) /\ last - 1 # m BY <1>1, <1>5
  <2>2. last - 1 \notin Stops BY <1>4, <2>1
  <2>3. (last - 1) + 1 \in 1 .. m + 1 BY <1>1, <1>5, <2>1
  <2>4. S((last - 1) + 1) \in Nat BY <1>1, <2>3
  <2>5. taken(last - 1) \in Int BY <2>4
  <2> HIDE DEF taken, last
  <2> QED BY <1>2, <2>1, <2>2, <2>5
<1> HIDE DEF last, Stops
<1>7. S(last) \in Nat /\ S(last + 1) \in Nat /\ S(last) < S(last + 1) /\ S(i) <= S(last) /\ S(i + 1) <= S(last + 1)
  <2>1. last \in 1 .. m /\ last \in 1 .. m + 1 /\ last + 1 \in 1 .. m + 1 /\ i \in 1 .. m + 1
        /\ i + 1 \in 1 .. m + 1 /\ i + 1 <= last + 1
    BY <1>1, <1>5
  <2> QED BY <1>1, <1>5, <2>1
<1>8. i < last => S(last) < start + TargetGroupSize
  <2> SUFFICES ASSUME i < last PROVE S(last) < start + TargetGroupSize OBVIOUS
  <2>1. (last - 1) + 1 = last BY <1>5
  <2>2. S(last) - start < TargetGroupSize BY <1>6, <2>1
  <2> HIDE DEF S
  <2> QED BY <1>2, <1>7, <2>2
<1>9. divided \in BOOLEAN /\ divided => secs[last].is_string /\ S(last + 1) - start > TargetGroupSize OBVIOUS
<1>10. PICK e : e = (IF divided THEN start + TargetGroupSize ELSE start + taken(last)) OBVIOUS
<1>11. divided => e = start + TargetGroupSize BY <1>10
<1>12. ~divided => e = start + (S(last + 1) - start) BY <1>10
<1>13. PICK d \in BOOLEAN : d <=> divided OBVIOUS
<1>14. /\ g.first = i /\ g.last = last /\ g.start = start /\ g.end = e /\ g.end_section = ~divided
       /\ g = [first |-> i, last |-> last, start |-> start, end |-> e, end_section |-> ~divided]
  BY <1>3, <1>10
<1> DEFINE a == S(last)  b == S(last + 1)  c == S(i + 1)
<1>15. a \in Nat /\ b \in Nat /\ a < b BY <1>7
<1>16. start < b
  <2>1. S(i + 1) \in Nat
    <3>1. i + 1 \in 1 .. m + 1 BY <1>1
    <3> QED BY <1>1, <3>1
  <2>2. start < S(i + 1) /\ S(i + 1) <= S(last + 1) /\ S(last + 1) \in Nat BY <1>7
  <2> HIDE DEF S
  <2> QED BY <2>1, <2>2
<1>17. e \in Nat /\ start < e /\ a < e /\ (~divided => e = b) /\ (divided => e < b)
  <2>1. CASE divided
    <3>1. e = start + TargetGroupSize /\ b - start > TargetGroupSize BY <1>9, <1>11, <2>1
    <3>2. i = last => a <= start BY DEF S
    <3>3. i < last => a < start + TargetGroupSize BY <1>8
    <3> HIDE DEF a, b, divided
    <3> QED BY <1>2, <1>5, <1>15, <2>1, <3>1, <3>2, <3>3
  <2>2. CASE ~divided
    <3>1. e = start + (b - start) BY <1>12, <2>2
    <3> HIDE DEF a, b, divided
    <3> QED BY <1>15, <1>16, <2>2, <3>1
  <2> QED BY <2>1, <2>2
<1>18. last \in i .. m /\ i \in 1 .. m BY <1>1, <1>5
<1>19. (~divided) \in BOOLEAN /\ (divided => secs[last].is_string) BY <1>9
<1> HIDE DEF divided, g
<1> QED BY <1>14, <1>17, <1>18, <1>19 DEF GroupFits, S, m, a, b, g

LEMMA GroupFacts ==
  ASSUME NEW secs \in Seq(InputSection), NEW g, GroupFits(secs, g)
  PROVE  /\ g.first \in 1 .. Len(secs) /\ g.last \in 1 .. Len(secs) /\ g.first <= g.last
         /\ g.start \in Nat /\ g.end \in Nat /\ g.start < g.end
         /\ g.end_section \in BOOLEAN /\ g \in RangeGroup
         /\ SectionAfter(g) \in 1 .. Len(secs) + 1
         /\ g.end <= TotalInputSize(secs)
<1>1. Len(secs) \in Nat BY StartOffsetFacts
<1>2. /\ g = [first |-> g.first, last |-> g.last, start |-> g.start, end |-> g.end, end_section |-> g.end_section]
      /\ g.first \in 1 .. Len(secs) /\ g.last \in g.first .. Len(secs)
      /\ g.start \in Nat /\ g.end \in Nat /\ g.end_section \in BOOLEAN /\ g.start < g.end
  BY DEF GroupFits
<1>3. g.last \in 1 .. Len(secs) /\ g.first <= g.last /\ g.first \in Nat /\ g.last \in Nat BY <1>1, <1>2
<1>4. g \in RangeGroup BY <1>2, <1>3 DEF RangeGroup
<1>5. SectionAfter(g) \in 1 .. Len(secs) + 1 BY <1>1, <1>2, <1>3 DEF SectionAfter
<1>6. g.end <= TotalInputSize(secs)
  <2>1. /\ g.last + 1 \in 1 .. Len(secs) + 1 /\ Len(secs) + 1 \in 1 .. Len(secs) + 1 /\ g.last + 1 <= Len(secs) + 1
    BY <1>1, <1>3
  <2>2. /\ StartInputOffset(secs, g.last + 1) <= StartInputOffset(secs, Len(secs) + 1)
        /\ StartInputOffset(secs, g.last + 1) \in Nat /\ StartInputOffset(secs, Len(secs) + 1) \in Nat
    BY <2>1, StartOffsetFacts
  <2>3. g.end <= StartInputOffset(secs, g.last + 1)
    <3>1. CASE g.end_section BY <2>2, <3>1 DEF GroupFits
    <3>2. CASE ~g.end_section BY <1>2, <2>2, <3>2 DEF GroupFits
    <3> QED BY <1>2, <3>1, <3>2
  <2> QED BY <1>2, <2>2, <2>3 DEF TotalInputSize
<1> QED BY <1>2, <1>3, <1>4, <1>5, <1>6

LEMMA NextGroupFits ==
  ASSUME NEW secs \in Seq(InputSection), NEW g, GroupFits(secs, g), SectionAfter(g) <= Len(secs)
  PROVE  LET new == FillGroup(secs, SectionAfter(g), g.end)
         IN  GroupFits(secs, new) /\ new.first = SectionAfter(g) /\ new.start = g.end
<1> DEFINE i == SectionAfter(g)
<1>1. Len(secs) \in Nat /\ g.end \in Nat /\ g.last \in 1 .. Len(secs) /\ g.end_section \in BOOLEAN
      /\ i \in 1 .. Len(secs) + 1
  BY GroupFacts, StartOffsetFacts
<1>2. i \in 1 .. Len(secs) BY <1>1
<1>3. StartInputOffset(secs, i) < StartInputOffset(secs, i + 1) /\ StartInputOffset(secs, i) \in Nat
  <2>1. i \in 1 .. Len(secs) + 1 BY <1>1
  <2> HIDE DEF i
  <2> QED BY <1>2, <2>1, StartOffsetFacts
<1>4. /\ StartInputOffset(secs, i) <= g.end /\ g.end < StartInputOffset(secs, i + 1)
      /\ g.end > StartInputOffset(secs, i) => secs[i].is_string
  <2>1. CASE g.end_section
    <3>1. i = g.last + 1 /\ g.end = StartInputOffset(secs, i) BY <2>1 DEF SectionAfter, GroupFits
    <3>2. \A e \in Nat : e <= e /\ ~(e > e) OBVIOUS
    <3> HIDE DEF i
    <3>3. g.end <= g.end /\ ~(g.end > g.end) BY <1>1, <3>2
    <3> QED BY <1>3, <3>1, <3>3
  <2>2. CASE ~g.end_section
    <3>1. /\ i = g.last /\ StartInputOffset(secs, i) < g.end /\ g.end < StartInputOffset(secs, i + 1)
          /\ secs[i].is_string
      BY <2>2 DEF SectionAfter, GroupFits
    <3> HIDE DEF i
    <3> QED BY <1>1, <1>3, <3>1
  <2> QED BY <1>1, <2>1, <2>2
<1> HIDE DEF i
<1>5. /\ GroupFits(secs, FillGroup(secs, i, g.end))
      /\ FillGroup(secs, i, g.end).first = i /\ FillGroup(secs, i, g.end).start = g.end
  BY <1>1, <1>2, <1>4, FillGroupFits
<1> QED BY <1>5 DEF i

---------------------------------------------------------------------------
(* The groups follow each other without a gap.                             *)
Chain(secs, split) ==
  /\ split \in Seq(RangeGroup) /\ split # << >>
  /\ \A n \in DOMAIN split : GroupFits(secs, split[n])
  /\ split[1].first = 1 /\ split[1].start = 0
  /\ \A n \in 1 .. Len(split) - 1 :
       split[n + 1].first = SectionAfter(split[n]) /\ split[n + 1].start = split[n].end

LastOf(split) == split[Len(split)]

LEMMA ChainFacts ==
  ASSUME NEW secs, NEW split, Chain(secs, split)
  PROVE  /\ Len(split) \in Nat /\ Len(split) > 0 /\ DOMAIN split = 1 .. Len(split)
         /\ GroupFits(secs, LastOf(split))
<1>1. split \in Seq(RangeGroup) /\ split # << >> BY DEF Chain
<1>2. Len(split) \in Nat /\ Len(split) > 0 /\ DOMAIN split = 1 .. Len(split) BY <1>1
<1>3. Len(split) \in DOMAIN split BY <1>2
<1> QED BY <1>2, <1>3 DEF Chain, LastOf

LEMMA FirstGroupChain ==
  ASSUME NEW secs \in Seq(InputSection), secs # << >>
  PROVE  Chain(secs, <<FillGroup(secs, 1, 0)>>)
<1> DEFINE g == FillGroup(secs, 1, 0)
<1>1. 1 \in 1 .. Len(secs) /\ 0 \in Nat
  <2>1. Len(secs) \in Nat /\ Len(secs) # 0 OBVIOUS
  <2> QED BY <2>1
<1>2. StartInputOffset(secs, 1) = 0 /\ StartInputOffset(secs, 1) < StartInputOffset(secs, 1 + 1)
  BY <1>1, StartOffsetFacts
<1>3. GroupFits(secs, g) /\ g.first = 1 /\ g.start = 0
  <2>1. StartInputOffset(secs, 1) <= 0 /\ ~(0 > StartInputOffset(secs, 1)) /\ 0 < StartInputOffset(secs, 1 + 1)
    BY <1>2
  <2> QED BY <1>1, <2>1, FillGroupFits
<1>4. g \in RangeGroup BY <1>3, GroupFacts
<1> HIDE DEF g
<1> DEFINE split == <<g>>
<1>5. split \in Seq(RangeGroup) /\ split # << >> /\ DOMAIN split = {1} /\ split[1] = g /\ Len(split) = 1 BY <1>4
<1>6. \A n \in DOMAIN split : GroupFits(secs, split[n]) BY <1>3, <1>5
<1>7. 1 .. Len(split) - 1 = {} BY <1>5
<1> HIDE DEF split
<1> QED BY <1>3, <1>5, <1>6, <1>7 DEF Chain, split, g

LEMMA PushGroupChain ==
  ASSUME NEW secs \in Seq(InputSection), NEW r, Chain(secs, r)
  PROVE  /\ Chain(secs, PushGroup(secs, r))
         /\ SectionAfter(LastOf(r)) > Len(secs) => PushGroup(secs, r) = r
         /\ SectionAfter(LastOf(r)) <= Len(secs) => LastOf(r).end < LastOf(PushGroup(secs, r)).end
<1> DEFINE m == Len(r)
           g == LastOf(r)
           h == FillGroup(secs, SectionAfter(g), g.end)
           new == PushGroup(secs, r)
<1>1. m \in Nat /\ m > 0 /\ DOMAIN r = 1 .. m /\ GroupFits(secs, g) BY ChainFacts
<1>2. SectionAfter(g) \in 1 .. Len(secs) + 1 /\ Len(secs) \in Nat BY <1>1, GroupFacts, StartOffsetFacts
<1>3. new = IF SectionAfter(g) > Len(secs) THEN r ELSE Append(r, h) BY DEF PushGroup, LastOf
<1>4. CASE SectionAfter(g) > Len(secs)
  <2>1. new = r BY <1>3, <1>4
  <2>2. ~(SectionAfter(g) <= Len(secs)) BY <1>2, <1>4
  <2> QED BY <2>1, <2>2
<1>5. CASE ~(SectionAfter(g) > Len(secs))
  <2>1. SectionAfter(g) <= Len(secs) BY <1>2, <1>5
  <2>2. GroupFits(secs, h) /\ h.first = SectionAfter(g) /\ h.start = g.end BY <1>1, <2>1, NextGroupFits
  <2>3. h \in RangeGroup /\ h.start < h.end BY <2>2, GroupFacts
  <2>4. r \in Seq(RangeGroup) BY DEF Chain
  <2>5. new = Append(r, h) BY <1>3, <1>5
  <2> HIDE DEF h, new
  <2>6. new \in Seq(RangeGroup) /\ Len(new) = m + 1 /\ DOMAIN new = 1 .. m + 1 /\ new[m + 1] = h
        /\ \A n \in 1 .. m : new[n] = r[n]
    BY <2>3, <2>4, <2>5
  <2>7. new # << >>
    <3>1. m + 1 \in DOMAIN new BY <1>1, <2>6
    <3> QED BY <3>1
  <2>8. \A n \in DOMAIN new : GroupFits(secs, new[n])
    <3> SUFFICES ASSUME NEW n \in 1 .. m + 1 PROVE GroupFits(secs, new[n]) BY <2>6
    <3>1. n = m + 1 \/ n \in 1 .. m BY <1>1
    <3> QED BY <1>1, <2>2, <2>6, <3>1 DEF Chain
  <2>9. new[1].first = 1 /\ new[1].start = 0
    <3>1. 1 \in 1 .. m BY <1>1
    <3> QED BY <2>6, <3>1 DEF Chain
  <2>13. \A k \in 1 .. m : k # m => k \in 1 .. m - 1 /\ k + 1 \in 1 .. m
    <3>1. \A q \in Nat : \A k \in 1 .. q : k # q => k \in 1 .. q - 1 /\ k + 1 \in 1 .. q OBVIOUS
    <3> QED BY <1>1, <3>1, Zenon
  <2>10. ASSUME NEW n \in 1 .. Len(new) - 1
         PROVE  new[n + 1].first = SectionAfter(new[n]) /\ new[n + 1].start = new[n].end
    <3>1. n \in 1 .. m /\ new[n] = r[n] BY <1>1, <2>6
    <3>2. CASE n = m BY <2>2, <2>6, <3>1, <3>2 DEF LastOf
    <3>3. CASE n # m
      <4>1. n \in 1 .. m - 1 /\ n + 1 \in 1 .. m BY <2>13, <3>1, <3>3
      <4>2. new[n + 1] = r[n + 1] BY <2>6, <4>1
      <4> QED BY <3>1, <4>1, <4>2 DEF Chain
    <3> QED BY <3>2, <3>3
  <2>11. Chain(secs, new) BY <2>6, <2>7, <2>8, <2>9, <2>10 DEF Chain
  <2>12. LastOf(new) = h BY <2>6 DEF LastOf
  <2> QED BY <1>5, <2>2, <2>3, <2>11, <2>12 DEF new
<1> QED BY <1>4, <1>5

LEMMA SplitSectionsUnfold ==
  ASSUME NEW secs \in Seq(InputSection), secs # << >>
  PROVE  \E after :
           /\ after[0] = <<FillGroup(secs, 1, 0)>>
           /\ \A n \in 1 .. TotalInputSize(secs) : after[n] = PushGroup(secs, after[n - 1])
           /\ SplitSections(secs) = after[TotalInputSize(secs)]
<1> DEFINE m == TotalInputSize(secs)
           first == <<FillGroup(secs, 1, 0)>>
           T == {s \in Seq(RangeGroup) : Chain(secs, s)}
           rule == [p \in T \X (1 .. m) |-> PushGroup(secs, p[1])]
           Body(f) == [n \in 0 .. m |-> IF n = 0 THEN <<FillGroup(secs, 1, 0)>> ELSE PushGroup(secs, f[n - 1])]
           F == CHOOSE f : f = Body(f)
<1>1. m \in Nat
  <2>1. Len(secs) + 1 \in 1 .. Len(secs) + 1
    <3>1. Len(secs) \in Nat OBVIOUS
    <3> QED BY <3>1
  <2> QED BY <2>1, StartOffsetFacts DEF TotalInputSize
<1>2. first \in T
  <2>1. Chain(secs, first) BY FirstGroupChain
  <2> QED BY <2>1 DEF Chain
<1>3. rule \in [T \X (1 .. m) -> T]
  <2> SUFFICES ASSUME NEW p \in T \X (1 .. m) PROVE PushGroup(secs, p[1]) \in T
    OBVIOUS
  <2>1. Chain(secs, p[1]) OBVIOUS
  <2>2. Chain(secs, PushGroup(secs, p[1])) BY <2>1, PushGroupChain
  <2> QED BY <2>2 DEF Chain
<1>4. PICK f \in [0 .. m -> T] : Follows(f, m, first, rule)
  <2> HIDE DEF rule, T, m, first
  <2> QED BY <1>1, <1>2, <1>3, RecursionExists
<1>5. f = Body(f)
  <2>1. ASSUME NEW n \in 0 .. m PROVE f[n] = Body(f)[n]
    <3>1. CASE n = 0 BY <1>4, <3>1 DEF Follows
    <3>2. CASE n # 0
      <4>1. n \in 1 .. m /\ n - 1 \in 0 .. m
        <5> HIDE DEF m
        <5> QED BY <1>1, <3>2
      <4>2. f[n - 1] \in T BY <1>4, <4>1
      <4>3. rule[<<f[n - 1], n>>] = PushGroup(secs, f[n - 1]) BY <4>1, <4>2
      <4>4. f[n] = rule[<<f[n - 1], n>>] BY <1>4, <4>1 DEF Follows
      <4>5. Body(f)[n] = PushGroup(secs, f[n - 1]) BY <3>2
      <4> QED BY <4>3, <4>4, <4>5
    <3> QED BY <3>1, <3>2
  <2> QED BY <1>4, <2>1
<1>6. F = Body(F) BY <1>5
<1>7. SplitSections(secs) = F[m] BY DEF SplitSections
<1>8. F[0] = first /\ \A n \in 1 .. m : F[n] = PushGroup(secs, F[n - 1])
  <2> HIDE DEF F
  <2>1. 0 \in 0 .. m /\ \A n \in 1 .. m : n \in 0 .. m /\ n # 0
    <3> HIDE DEF m
    <3> QED BY <1>1
  <2> HIDE DEF m
  <2> QED BY <1>6, <2>1
<1> HIDE DEF F
<1> QED BY <1>7, <1>8

(* The groups are a chain from the first byte of the sections to the last. *)
LEMMA SplitSectionsFacts ==
  ASSUME NEW secs \in Seq(InputSection), secs # << >>
  PROVE  /\ Chain(secs, SplitSections(secs))
         /\ LastOf(SplitSections(secs)).end = TotalInputSize(secs)
<1> DEFINE m == TotalInputSize(secs)
<1>1. PICK after :
        /\ after[0] = <<FillGroup(secs, 1, 0)>>
        /\ \A n \in 1 .. m : after[n] = PushGroup(secs, after[n - 1])
        /\ SplitSections(secs) = after[m]
  BY SplitSectionsUnfold
<1>2. m \in Nat /\ Len(secs) \in Nat
  <2>1. Len(secs) + 1 \in 1 .. Len(secs) + 1 /\ Len(secs) \in Nat
    <3>1. Len(secs) \in Nat OBVIOUS
    <3> QED BY <3>1
  <2> QED BY <2>1, StartOffsetFacts DEF TotalInputSize
<1> DEFINE Goes(n) == /\ Chain(secs, after[n])
                      /\ SectionAfter(LastOf(after[n])) > Len(secs) \/ LastOf(after[n]).end > n
           S == {n \in 0 .. m : Goes(n)}
<1>3. Goes(0)
  <2>1. Chain(secs, after[0]) BY <1>1, FirstGroupChain
  <2>2. GroupFits(secs, LastOf(after[0])) BY <2>1, ChainFacts
  <2>3. LastOf(after[0]).end \in Nat /\ LastOf(after[0]).start \in Nat
        /\ LastOf(after[0]).start < LastOf(after[0]).end
    BY <2>2, GroupFacts
  <2>4. LastOf(after[0]).end > 0 BY <2>3
  <2> QED BY <2>1, <2>4
<1>4. ASSUME NEW n \in 0 .. m, n < m, Goes(n) PROVE Goes(n + 1)
  <2>1. after[n + 1] = PushGroup(secs, after[n])
    <3>1. n + 1 \in 1 .. m /\ (n + 1) - 1 = n
      <4> HIDE DEF m
      <4> QED BY <1>2, <1>4
    <3> QED BY <1>1, <3>1
  <2>2. Chain(secs, after[n]) BY <1>4
  <2>3. /\ Chain(secs, after[n + 1])
        /\ SectionAfter(LastOf(after[n])) > Len(secs) => after[n + 1] = after[n]
        /\ SectionAfter(LastOf(after[n])) <= Len(secs) => LastOf(after[n]).end < LastOf(after[n + 1]).end
    BY <2>1, <2>2, PushGroupChain
  <2>4. GroupFits(secs, LastOf(after[n])) /\ GroupFits(secs, LastOf(after[n + 1]))
    BY <2>2, <2>3, ChainFacts
  <2>5. LastOf(after[n]).end \in Nat /\ LastOf(after[n + 1]).end \in Nat
        /\ SectionAfter(LastOf(after[n])) \in 1 .. Len(secs) + 1
    BY <2>4, GroupFacts
  <2>6. CASE SectionAfter(LastOf(after[n])) > Len(secs) BY <2>3, <2>6
  <2>7. CASE ~(SectionAfter(LastOf(after[n])) > Len(secs))
    <3>1. SectionAfter(LastOf(after[n])) <= Len(secs) BY <1>2, <2>5, <2>7
    <3>2. LastOf(after[n]).end > n /\ LastOf(after[n]).end < LastOf(after[n + 1]).end BY <1>4, <2>3, <2>7, <3>1
    <3>3. LastOf(after[n + 1]).end > n + 1
      <4>1. n \in Nat OBVIOUS
      <4>2. \A a, b, c \in Nat : a > c /\ a < b => b > c + 1 OBVIOUS
      <4> QED BY <2>5, <3>2, <4>1, <4>2
    <3> QED BY <2>3, <3>3
  <2> QED BY <2>6, <2>7
<1> HIDE DEF Goes
<1>5. 0 \in S
  <2> HIDE DEF m
  <2> QED BY <1>2, <1>3
<1>6. \A n \in 0 .. m : n \in S /\ n < m => n + 1 \in S
  <2> HIDE DEF m
  <2> QED BY <1>2, <1>4
<1>7. Goes(m)
  <2>1. m \in 0 .. m
    <3> HIDE DEF m
    <3> QED BY <1>2
  <2>2. m \in S
    <3> HIDE DEF S, m
    <3> QED BY <1>2, <1>5, <1>6, <2>1, UpTo
  <2> QED BY <2>2
<1> DEFINE g == LastOf(after[m])
<1>8. Chain(secs, after[m]) /\ (SectionAfter(g) > Len(secs) \/ g.end > m) BY <1>7 DEF Goes
<1>9. GroupFits(secs, g) BY <1>8, ChainFacts
<1>10. /\ g.end \in Nat /\ g.end <= m /\ g.end_section \in BOOLEAN /\ g.last \in 1 .. Len(secs)
  BY <1>9, GroupFacts
<1>11. SectionAfter(g) > Len(secs)
  <2>1. ~(g.end > m)
    <3> HIDE DEF g, m
    <3> QED BY <1>2, <1>10
  <2> QED BY <1>8, <2>1
<1>12. g.end_section /\ g.last = Len(secs)
  <2> HIDE DEF g
  <2>1. CASE g.end_section
    <3>1. SectionAfter(g) = g.last + 1 BY <2>1 DEF SectionAfter
    <3> QED BY <1>2, <1>10, <1>11, <2>1, <3>1
  <2>2. CASE ~g.end_section
    <3>1. SectionAfter(g) = g.last BY <2>2 DEF SectionAfter
    <3> QED BY <1>2, <1>10, <1>11, <3>1
  <2> QED BY <2>1, <2>2
<1>13. g.end = m BY <1>9, <1>12 DEF GroupFits, TotalInputSize
<1> QED BY <1>1, <1>8, <1>13

(* Every offset of the sections is in a group, and the groups come in the  *)
(* order of their offsets: a partition.                                    *)
LEMMA GroupsPartition ==
  ASSUME NEW secs \in Seq(InputSection), secs # << >>
  PROVE  LET split == SplitSections(secs)
         IN  /\ \A m, n \in DOMAIN split : m < n => split[m].end <= split[n].start
             /\ \A o \in 0 .. TotalInputSize(secs) - 1 : \E n \in DOMAIN split : InRange(split[n], o)
<1>1. PICK split : split = SplitSections(secs) OBVIOUS
<1> DEFINE k == Len(split)
<1>2. Chain(secs, split) /\ LastOf(split).end = TotalInputSize(secs) BY <1>1, SplitSectionsFacts
<1>3. k \in Nat /\ k > 0 /\ DOMAIN split = 1 .. k BY <1>2, ChainFacts
<1>4. \A n \in 1 .. k : split[n].start \in Nat /\ split[n].end \in Nat /\ split[n].start < split[n].end
  <2> TAKE n \in 1 .. k
  <2>1. GroupFits(secs, split[n]) BY <1>2, <1>3 DEF Chain
  <2> QED BY <2>1, GroupFacts
<1>5. \A n \in 1 .. k - 1 : split[n + 1].start = split[n].end BY <1>2 DEF Chain
<1> HIDE DEF k
<1>6. ASSUME NEW m \in 1 .. k PROVE \A n \in 0 .. k : m < n => split[m].end <= split[n].start
  <2> DEFINE S == {n \in 0 .. k : m < n => split[m].end <= split[n].start}
  <2>1. 0 \in S BY <1>3
  <2>2. ASSUME NEW n \in 0 .. k, n \in S, n < k PROVE n + 1 \in S
    <3>1. n + 1 \in 1 .. k /\ n \in Nat /\ m \in Nat /\ n + 1 \in 0 .. k BY <1>3, <2>2
    <3>2. CASE n = m
      <4>1. n \in 1 .. k - 1 BY <1>3, <2>2, <3>2
      <4>2. split[n + 1].start = split[m].end /\ split[m].end \in Nat BY <1>4, <1>5, <3>2, <4>1
      <4> QED BY <3>1, <4>2
    <3>3. CASE m < n
      <4>1. n \in 1 .. k - 1 /\ n \in 1 .. k BY <1>3, <2>2, <3>3
      <4>2. split[n + 1].start = split[n].end BY <1>5, <4>1
      <4>3. split[m].end <= split[n].start BY <2>2, <3>3
      <4>4. split[n].start < split[n].end /\ split[n].start \in Nat /\ split[n].end \in Nat /\ split[m].end \in Nat
        BY <1>4, <4>1
      <4>5. split[m].end <= split[n + 1].start
        <5>1. \A a, b, c \in Nat : a <= b /\ b < c => a <= c OBVIOUS
        <5> QED BY <4>2, <4>3, <4>4, <5>1
      <4> QED BY <3>1, <4>5
    <3>4. CASE n < m
      <4>1. ~(m < n + 1) BY <3>1, <3>4
      <4> QED BY <3>1, <4>1
    <3> QED BY <3>1, <3>2, <3>3, <3>4
  <2>3. \A n \in 0 .. k : n \in S
    <3> HIDE DEF S
    <3> QED BY <1>3, <2>1, <2>2, UpTo
  <2> QED BY <2>3
<1>7. \A m, n \in 1 .. k : m < n => split[m].end <= split[n].start
  <2>1. \A n \in 1 .. k : n \in 0 .. k BY <1>3
  <2> QED BY <1>6, <2>1
<1>8. ASSUME NEW o \in 0 .. TotalInputSize(secs) - 1 PROVE \E n \in 1 .. k : InRange(split[n], o)
  <2>1. TotalInputSize(secs) \in Nat /\ o \in Nat /\ o < TotalInputSize(secs)
    <3>1. TotalInputSize(secs) \in Nat
      <4>1. k \in 1 .. k BY <1>3
      <4> QED BY <1>2, <1>4, <4>1 DEF LastOf, k
    <3> QED BY <3>1
  <2> DEFINE Ends == {n \in Nat : n \in 1 .. k /\ o < split[n].end}
  <2>2. Ends \in SUBSET Nat /\ k \in Ends
    <3>1. k \in 1 .. k /\ k \in Nat BY <1>3
    <3>2. o < split[k].end BY <1>2, <2>1 DEF LastOf, k
    <3> QED BY <3>1, <3>2
  <2>3. PICK n \in Ends : \A j \in Ends : n <= j
    <3>1. Ends # {} BY <2>2
    <3> HIDE DEF Ends
    <3> QED BY <2>2, <3>1, LeastNumber
  <2>4. n \in 1 .. k /\ o < split[n].end BY <2>3
  <2>5. split[n].start <= o
    <3>1. CASE n = 1
      <4>1. split[1].start = 0 BY <1>2 DEF Chain
      <4> QED BY <2>1, <3>1, <4>1
    <3>2. CASE n # 1
      <4>1. n - 1 \in 1 .. k /\ n - 1 \in 1 .. k - 1 /\ (n - 1) + 1 = n /\ ~(n <= n - 1) /\ n - 1 \in Nat
        BY <1>3, <2>4, <3>2
      <4>2. n - 1 \notin Ends
        <5> HIDE DEF Ends
        <5> QED BY <2>3, <4>1
      <4>3. ~(o < split[n - 1].end) BY <4>1, <4>2
      <4>4. split[n - 1].end \in Nat /\ split[n].start = split[n - 1].end
        <5>1. split[n - 1].end \in Nat BY <1>4, <4>1
        <5>2. split[(n - 1) + 1].start = split[n - 1].end BY <1>5, <4>1
        <5> QED BY <4>1, <5>1, <5>2
      <4> QED BY <2>1, <4>3, <4>4
    <3> QED BY <3>1, <3>2
  <2> QED BY <2>4, <2>5 DEF InRange
<1> QED BY <1>1, <1>3, <1>7, <1>8

---------------------------------------------------------------------------
(* The strings of the sections, by section and position.                   *)
StringAt(secs, i, k) == [string |-> secs[i].strings[k], at |-> At(secs, i, k)]

LEMMA StringAtFacts ==
  ASSUME NEW secs \in Seq(InputSection), NEW i \in DOMAIN secs, NEW k \in DOMAIN secs[i].strings
  PROVE  /\ StringAt(secs, i, k) \in StringToMerge /\ StringAt(secs, i, k) \in AllStrings(secs)
         /\ secs[i].strings[k] \in String /\ Length[secs[i].strings[k]] \in Nat /\ Length[secs[i].strings[k]] > 0
         /\ At(secs, i, k) \in Nat /\ At(secs, i, k) >= StartInputOffset(secs, i)
         /\ At(secs, i, k) + Length[secs[i].strings[k]] <= StartInputOffset(secs, i + 1)
<1>1. /\ secs[i] \in InputSection
      /\ StartInputOffset(secs, i + 1) = StartInputOffset(secs, i) + PaddedLen(secs[i])
      /\ StartInputOffset(secs, i) \in Nat
  <2>1. i \in 1 .. Len(secs) /\ i \in 1 .. Len(secs) + 1
    <3>1. Len(secs) \in Nat /\ DOMAIN secs = 1 .. Len(secs) BY StartOffsetFacts
    <3> QED BY <3>1
  <2> QED BY <2>1, StartOffsetFacts
<1>2. secs[i].strings[k] \in String /\ Length[secs[i].strings[k]] \in Nat /\ Length[secs[i].strings[k]] > 0
  BY <1>1, SectionFacts
<1>3. StringStart(secs[i], k) \in Nat
      /\ StringStart(secs[i], k) + Length[secs[i].strings[k]] <= DataLen(secs[i]) /\ DataLen(secs[i]) \in Nat
  BY <1>1, StringStartFacts
<1>4. PaddedLen(secs[i]) \in Nat /\ DataLen(secs[i]) <= PaddedLen(secs[i]) BY <1>1, PaddedLenFacts
<1>5. \A s, t, l, d, p, e \in Nat : t + l <= d /\ d <= p /\ e = s + p => (s + t) \in Nat /\ s + t >= s /\ (s + t) + l <= e
  OBVIOUS
<1>6. StartInputOffset(secs, i + 1) \in Nat BY <1>1, <1>4
<1>7. /\ At(secs, i, k) \in Nat /\ At(secs, i, k) >= StartInputOffset(secs, i)
      /\ At(secs, i, k) + Length[secs[i].strings[k]] <= StartInputOffset(secs, i + 1)
  BY <1>1, <1>2, <1>3, <1>4, <1>5, <1>6, Zenon DEF At
<1>8. StringAt(secs, i, k) \in StringToMerge BY <1>2, <1>7 DEF StringAt, StringToMerge
<1>9. StringAt(secs, i, k) \in AllStrings(secs) BY DEF StringAt, AllStrings
<1> QED BY <1>2, <1>7, <1>8, <1>9

LEMMA AllStringsFacts ==
  ASSUME NEW secs \in Seq(InputSection), NEW x \in AllStrings(secs)
  PROVE  \E i \in DOMAIN secs : \E k \in DOMAIN secs[i].strings : x = StringAt(secs, i, k)
BY DEF AllStrings, StringAt

(* Strings lie one behind the other.                                       *)
LEMMA StringsInOrder ==
  ASSUME NEW secs \in Seq(InputSection),
         NEW i \in DOMAIN secs, NEW k \in DOMAIN secs[i].strings,
         NEW j \in DOMAIN secs, NEW l \in DOMAIN secs[j].strings, i < j \/ (i = j /\ k < l)
  PROVE  At(secs, i, k) + Length[secs[i].strings[k]] <= At(secs, j, l)
<1> DEFINE len == Length[secs[i].strings[k]]
<1>1. /\ At(secs, i, k) \in Nat /\ len \in Nat /\ At(secs, i, k) + len <= StartInputOffset(secs, i + 1)
      /\ At(secs, j, l) \in Nat /\ At(secs, j, l) >= StartInputOffset(secs, j)
  BY StringAtFacts
<1>2. CASE i < j
  <2>1. i + 1 \in 1 .. Len(secs) + 1 /\ j \in 1 .. Len(secs) + 1 /\ i + 1 <= j
    <3>1. Len(secs) \in Nat /\ DOMAIN secs = 1 .. Len(secs) BY StartOffsetFacts
    <3> QED BY <1>2, <3>1
  <2>2. StartInputOffset(secs, i + 1) <= StartInputOffset(secs, j)
        /\ StartInputOffset(secs, i + 1) \in Nat /\ StartInputOffset(secs, j) \in Nat
    BY <2>1, StartOffsetFacts
  <2>3. \A a, v, s, t, e \in Nat : a + v <= s /\ s <= t /\ e >= t => a + v <= e OBVIOUS
  <2>4. At(secs, i, k) + len <= At(secs, j, l)
    <3> HIDE DEF len
    <3> QED BY <1>1, <2>2, <2>3, Zenon
  <2> QED BY <2>4
<1>3. CASE i = j /\ k < l
  <2>1. secs[i] \in InputSection /\ StartInputOffset(secs, i) \in Nat
    <3>1. Len(secs) \in Nat /\ DOMAIN secs = 1 .. Len(secs) BY StartOffsetFacts
    <3>2. i \in 1 .. Len(secs) + 1 BY <3>1
    <3> QED BY <3>1, <3>2, StartOffsetFacts
  <2>2. l \in DOMAIN secs[i].strings BY <1>3
  <2>3. StringStart(secs[i], k) + len <= StringStart(secs[i], l)
        /\ StringStart(secs[i], k) \in Nat /\ StringStart(secs[i], l) \in Nat
    BY <1>3, <2>1, <2>2, StringStartFacts
  <2>4. At(secs, i, k) = StartInputOffset(secs, i) + StringStart(secs[i], k)
        /\ At(secs, j, l) = StartInputOffset(secs, i) + StringStart(secs[i], l)
    BY <1>3 DEF At
  <2> HIDE DEF len
  <2>5. \A s, t, u, v \in Nat : t + v <= u => (s + t) + v <= s + u OBVIOUS
  <2>6. (StartInputOffset(secs, i) + StringStart(secs[i], k)) + len
          <= StartInputOffset(secs, i) + StringStart(secs[i], l)
    BY <1>1, <2>1, <2>3, <2>5, Zenon
  <2>7. At(secs, i, k) + len <= At(secs, j, l) BY <2>4, <2>6, Zenon
  <2> QED BY <2>7 DEF len
<1> QED BY <1>2, <1>3

(* Two strings are the same one or lie apart.                              *)
LEMMA StringsLieApart ==
  ASSUME NEW secs \in Seq(InputSection), NEW x \in AllStrings(secs), NEW y \in AllStrings(secs)
  PROVE  \/ x = y
         \/ x.at + Length[x.string] <= y.at
         \/ y.at + Length[y.string] <= x.at
<1>1. PICK i \in DOMAIN secs : \E k \in DOMAIN secs[i].strings : x = StringAt(secs, i, k) BY AllStringsFacts
<1>2. PICK k \in DOMAIN secs[i].strings : x = StringAt(secs, i, k) BY <1>1
<1>3. PICK j \in DOMAIN secs : \E l \in DOMAIN secs[j].strings : y = StringAt(secs, j, l) BY AllStringsFacts
<1>4. PICK l \in DOMAIN secs[j].strings : y = StringAt(secs, j, l) BY <1>3
<1>5. x.at = At(secs, i, k) /\ x.string = secs[i].strings[k] BY <1>2 DEF StringAt
<1>6. y.at = At(secs, j, l) /\ y.string = secs[j].strings[l] BY <1>4 DEF StringAt
<1>7. i \in Nat /\ j \in Nat /\ k \in Nat /\ l \in Nat
  <2>1. DOMAIN secs = 1 .. Len(secs) /\ Len(secs) \in Nat /\ secs[i] \in InputSection /\ secs[j] \in InputSection
    BY StartOffsetFacts
  <2>2. DOMAIN secs[i].strings = 1 .. Len(secs[i].strings) /\ DOMAIN secs[j].strings = 1 .. Len(secs[j].strings)
        /\ Len(secs[i].strings) \in Nat /\ Len(secs[j].strings) \in Nat
    BY <2>1, SectionFacts
  <2> QED BY <2>1, <2>2
<1>8. i < j \/ (i = j /\ k < l) \/ j < i \/ (j = i /\ l < k) \/ (i = j /\ k = l) BY <1>7
<1>9. CASE i < j \/ (i = j /\ k < l) BY <1>5, <1>6, <1>9, StringsInOrder
<1>10. CASE j < i \/ (j = i /\ l < k) BY <1>5, <1>6, <1>10, StringsInOrder
<1>11. CASE i = j /\ k = l BY <1>2, <1>4, <1>11
<1> QED BY <1>8, <1>9, <1>10, <1>11

---------------------------------------------------------------------------
(* The vectors hold the strings of S, each in the bucket of its hash, in   *)
(* the order of their offsets.                                             *)
Vectors == [Bucket -> Seq(StringToMerge)]

Holds(vectors, S) ==
  /\ vectors \in Vectors /\ S \subseteq StringToMerge
  /\ \A b \in Bucket : \A n \in DOMAIN vectors[b] :
       vectors[b][n] \in S /\ BucketOf[vectors[b][n].string] = b
  /\ \A x \in S : \E n \in DOMAIN vectors[BucketOf[x.string]] : vectors[BucketOf[x.string]][n] = x
  /\ \A b \in Bucket : \A m, n \in DOMAIN vectors[b] : m < n => vectors[b][m].at < vectors[b][n].at

LEMMA InsertDataType ==
  ASSUME NEW vectors \in Vectors, NEW x \in StringToMerge
  PROVE  /\ InsertData(vectors, x) \in Vectors
         /\ BucketOf[x.string] \in Bucket
         /\ InsertData(vectors, x)[BucketOf[x.string]] = Append(vectors[BucketOf[x.string]], x)
         /\ \A b \in Bucket : b # BucketOf[x.string] => InsertData(vectors, x)[b] = vectors[b]
<1>1. BucketOf[x.string] \in Bucket
  <2>1. x.string \in String BY DEF StringToMerge
  <2> QED BY <2>1, SplitAssumption
<1>2. PICK c \in Bucket : c = BucketOf[x.string] BY <1>1
<1>3. InsertData(vectors, x) = [vectors EXCEPT ![c] = Append(@, x)] BY <1>2 DEF InsertData
<1>4. \A b \in Bucket : vectors[b] \in Seq(StringToMerge) BY DEF Vectors
<1>5. Append(vectors[c], x) \in Seq(StringToMerge) BY <1>4
<1>6. DOMAIN vectors = Bucket BY DEF Vectors
<1> HIDE DEF StringToMerge
<1>7. [vectors EXCEPT ![c] = Append(@, x)] \in Vectors BY <1>5 DEF Vectors
<1>8. [vectors EXCEPT ![c] = Append(@, x)][c] = Append(vectors[c], x) BY <1>6
<1>9. \A b \in Bucket : b # c => [vectors EXCEPT ![c] = Append(@, x)][b] = vectors[b] BY <1>6
<1> QED BY <1>2, <1>3, <1>7, <1>8, <1>9

LEMMA InsertDataHolds ==
  ASSUME NEW vectors, NEW S, Holds(vectors, S), NEW x \in StringToMerge, \A y \in S : y.at < x.at
  PROVE  Holds(InsertData(vectors, x), S \cup {x})
<1>1. PICK new : new = InsertData(vectors, x) OBVIOUS
<1>2. PICK c : c = BucketOf[x.string] OBVIOUS
<1>3. vectors \in Vectors BY DEF Holds
<1>4. /\ new \in Vectors /\ c \in Bucket /\ new[c] = Append(vectors[c], x)
      /\ \A b \in Bucket : b # c => new[b] = vectors[b]
  BY <1>1, <1>2, <1>3, InsertDataType
<1>5. vectors[c] \in Seq(StringToMerge) BY <1>3, <1>4 DEF Vectors
<1> DEFINE k == Len(vectors[c])
<1>6. /\ k \in Nat /\ DOMAIN vectors[c] = 1 .. k /\ DOMAIN new[c] = 1 .. k + 1
      /\ new[c][k + 1] = x /\ \A n \in 1 .. k : new[c][n] = vectors[c][n]
  <2> HIDE DEF StringToMerge
  <2> QED BY <1>4, <1>5
<1> HIDE DEF k
<1>7. \A n \in 1 .. k + 1 : n = k + 1 \/ n \in 1 .. k BY <1>6
<1>8. ASSUME NEW b \in Bucket, NEW n \in DOMAIN new[b]
      PROVE  new[b][n] \in S \cup {x} /\ BucketOf[new[b][n].string] = b
  <2>1. CASE b = c
    <3>1. n = k + 1 \/ n \in 1 .. k BY <1>6, <1>7, <2>1
    <3>2. CASE n = k + 1 BY <1>2, <1>6, <2>1, <3>2
    <3>3. CASE n \in 1 .. k
      <4>1. new[b][n] = vectors[b][n] /\ n \in DOMAIN vectors[b] BY <1>6, <2>1, <3>3
      <4> QED BY <4>1 DEF Holds
    <3> QED BY <3>1, <3>2, <3>3
  <2>2. CASE b # c
    <3>1. new[b] = vectors[b] BY <1>4, <2>2
    <3> QED BY <3>1 DEF Holds
  <2> QED BY <2>1, <2>2
<1>9. ASSUME NEW y \in S \cup {x}
      PROVE  \E n \in DOMAIN new[BucketOf[y.string]] : new[BucketOf[y.string]][n] = y
  <2>1. CASE y = x
    <3>1. k + 1 \in DOMAIN new[c] BY <1>6
    <3> QED BY <1>2, <1>6, <2>1, <3>1
  <2>2. CASE y \in S
    <3>1. PICK n \in DOMAIN vectors[BucketOf[y.string]] : vectors[BucketOf[y.string]][n] = y
      BY <2>2 DEF Holds
    <3>2. CASE BucketOf[y.string] = c
      <4>1. n \in DOMAIN new[c] /\ new[c][n] = y
        <5>1. n \in 1 .. k BY <1>6, <3>1, <3>2
        <5>2. n \in 1 .. k + 1 BY <1>6, <5>1
        <5> QED BY <1>6, <3>1, <3>2, <5>1, <5>2
      <4> QED BY <3>2, <4>1
    <3>3. CASE BucketOf[y.string] # c
      <4>1. BucketOf[y.string] \in Bucket
        <5>1. y \in StringToMerge BY <2>2 DEF Holds
        <5> QED BY <1>3, <5>1, InsertDataType
      <4>2. new[BucketOf[y.string]] = vectors[BucketOf[y.string]] BY <1>4, <3>3, <4>1
      <4> QED BY <3>1, <4>2
    <3> QED BY <3>2, <3>3
  <2> QED BY <2>1, <2>2
<1>10. ASSUME NEW b \in Bucket, NEW m \in DOMAIN new[b], NEW n \in DOMAIN new[b], m < n
       PROVE  new[b][m].at < new[b][n].at
  <2>1. CASE b # c
    <3>1. new[b] = vectors[b] BY <1>4, <2>1
    <3> QED BY <1>10, <3>1 DEF Holds
  <2>2. CASE b = c
    <3>1. m \in 1 .. k + 1 /\ n \in 1 .. k + 1 BY <1>6, <2>2
    <3>2. m \in 1 .. k /\ (n = k + 1 \/ n \in 1 .. k) BY <1>6, <1>10, <3>1
    <3>3. new[b][m] = vectors[b][m] /\ m \in DOMAIN vectors[b] BY <1>6, <2>2, <3>2
    <3>4. CASE n = k + 1
      <4>1. vectors[b][m] \in S BY <3>3 DEF Holds
      <4> QED BY <1>6, <2>2, <3>3, <3>4, <4>1
    <3>5. CASE n \in 1 .. k
      <4>1. new[b][n] = vectors[b][n] /\ n \in DOMAIN vectors[b] BY <1>6, <2>2, <3>5
      <4> QED BY <1>10, <3>3, <4>1 DEF Holds
    <3> QED BY <3>2, <3>4, <3>5
  <2> QED BY <2>1, <2>2
<1>11. Holds(new, S \cup {x}) BY <1>4, <1>8, <1>9, <1>10 DEF Holds
<1> QED BY <1>1, <1>11

---------------------------------------------------------------------------
(* process_input_section takes the strings of a section one after the      *)
(* other: those in the range of the group, and what is not made of strings.*)
InGroup(secs, g, i, k) == ~secs[i].is_string \/ InRange(g, At(secs, i, k))

LEMMA ProcessUnfold ==
  ASSUME NEW secs \in Seq(InputSection), NEW i \in DOMAIN secs, NEW g, NEW vectors \in Vectors
  PROVE  \E after :
           /\ after[0] = vectors
           /\ \A k \in 1 .. Len(secs[i].strings) :
                /\ InGroup(secs, g, i, k) => after[k] = InsertData(after[k - 1], StringAt(secs, i, k))
                /\ ~InGroup(secs, g, i, k) => after[k] = after[k - 1]
           /\ ProcessInputSection(secs, i, g, vectors) = after[Len(secs[i].strings)]
<1> DEFINE m == Len(secs[i].strings)
           Step(v, k) == IF secs[i].is_string /\ ~InRange(g, At(secs, i, k)) THEN v
                         ELSE InsertData(v, [string |-> secs[i].strings[k], at |-> At(secs, i, k)])
           rule == [p \in Vectors \X (1 .. m) |-> Step(p[1], p[2])]
           Body(f) == [k \in 0 .. m |->
                         IF k = 0 THEN vectors
                         ELSE IF secs[i].is_string /\ ~InRange(g, At(secs, i, k)) THEN f[k - 1]
                         ELSE InsertData(f[k - 1], [string |-> secs[i].strings[k], at |-> At(secs, i, k)])]
           F == CHOOSE f : f = Body(f)
<1>1. m \in Nat /\ DOMAIN secs[i].strings = 1 .. m
  <2>1. secs[i] \in InputSection OBVIOUS
  <2> QED BY <2>1, SectionFacts
<1>2. rule \in [Vectors \X (1 .. m) -> Vectors]
  <2> SUFFICES ASSUME NEW p \in Vectors \X (1 .. m) PROVE Step(p[1], p[2]) \in Vectors
    OBVIOUS
  <2>1. p[1] \in Vectors /\ p[2] \in 1 .. m OBVIOUS
  <2>2. StringAt(secs, i, p[2]) \in StringToMerge BY <1>1, <2>1, StringAtFacts
  <2>3. InsertData(p[1], StringAt(secs, i, p[2])) \in Vectors BY <2>1, <2>2, InsertDataType
  <2> QED BY <2>1, <2>3 DEF StringAt
<1>3. PICK f \in [0 .. m -> Vectors] : Follows(f, m, vectors, rule)
  <2> HIDE DEF rule, m
  <2> QED BY <1>1, <1>2, RecursionExists
<1> DEFINE Rec(h) == [k \in 0 .. m |-> IF k = 0 THEN vectors ELSE Step(h[k - 1], k)]
<1>4. \A h : Body(h) = Rec(h) OBVIOUS
<1>5. f = Body(f)
  <2>1. ASSUME NEW n \in 0 .. m PROVE f[n] = Rec(f)[n]
    <3> HIDE DEF Step
    <3>1. CASE n = 0 BY <1>3, <3>1 DEF Follows
    <3>2. CASE n # 0
      <4>1. n \in 1 .. m /\ n - 1 \in 0 .. m
        <5> HIDE DEF m
        <5> QED BY <1>1, <3>2
      <4>2. f[n - 1] \in Vectors BY <1>3, <4>1
      <4>3. rule[<<f[n - 1], n>>] = Step(f[n - 1], n) BY <4>1, <4>2
      <4>4. f[n] = rule[<<f[n - 1], n>>] BY <1>3, <4>1 DEF Follows
      <4>5. Rec(f)[n] = Step(f[n - 1], n) BY <3>2
      <4> QED BY <4>3, <4>4, <4>5
    <3> QED BY <3>1, <3>2
  <2>2. f = Rec(f)
    <3> HIDE DEF Step
    <3> QED BY <1>3, <2>1
  <2> QED BY <1>4, <2>2
<1>6. F = Body(F) BY <1>5
<1>7. ProcessInputSection(secs, i, g, vectors) = F[m] BY DEF ProcessInputSection
<1>8. F = Rec(F) BY <1>4, <1>6
<1>9. F[0] = vectors /\ \A k \in 1 .. m : F[k] = Step(F[k - 1], k)
  <2> HIDE DEF F, Step
  <2>1. 0 \in 0 .. m /\ \A k \in 1 .. m : k \in 0 .. m /\ k # 0
    <3> HIDE DEF m
    <3> QED BY <1>1
  <2> HIDE DEF m
  <2> QED BY <1>8, <2>1
<1> HIDE DEF F
<1>10. ASSUME NEW k \in 1 .. m
       PROVE  /\ InGroup(secs, g, i, k) => Step(F[k - 1], k) = InsertData(F[k - 1], StringAt(secs, i, k))
              /\ ~InGroup(secs, g, i, k) => Step(F[k - 1], k) = F[k - 1]
  BY Zenon DEF InGroup, StringAt
<1> HIDE DEF Step
<1> QED BY <1>7, <1>9, <1>10

(* The strings of a group up to the k-th one of section i.                 *)
TakenUpTo(secs, g, i, k) ==
  {x \in AllStrings(secs) : \E j \in DOMAIN secs : \E l \in DOMAIN secs[j].strings :
     /\ x = StringAt(secs, j, l)
     /\ g.first <= j /\ InGroup(secs, g, j, l)
     /\ j < i \/ (j = i /\ l <= k)}

LEMMA TakenNext ==
  ASSUME NEW secs \in Seq(InputSection), NEW g, NEW i \in DOMAIN secs, g.first <= i,
         NEW k \in Nat, k + 1 \in DOMAIN secs[i].strings
  PROVE  /\ InGroup(secs, g, i, k + 1) =>
              /\ TakenUpTo(secs, g, i, k + 1) = TakenUpTo(secs, g, i, k) \cup {StringAt(secs, i, k + 1)}
              /\ \A y \in TakenUpTo(secs, g, i, k) : y.at < StringAt(secs, i, k + 1).at
         /\ ~InGroup(secs, g, i, k + 1) => TakenUpTo(secs, g, i, k + 1) = TakenUpTo(secs, g, i, k)
<1> DEFINE new == StringAt(secs, i, k + 1)
<1>1. \A j \in DOMAIN secs : \A l \in DOMAIN secs[j].strings : l \in Nat
  <2> TAKE j \in DOMAIN secs
  <2>1. secs[j] \in InputSection OBVIOUS
  <2> QED BY <2>1, SectionFacts
<1>2. \A l \in Nat : l <= k + 1 <=> (l <= k \/ l = k + 1) OBVIOUS
<1>3. ASSUME NEW x \in TakenUpTo(secs, g, i, k) PROVE x \in TakenUpTo(secs, g, i, k + 1)
  <2>1. PICK j \in DOMAIN secs : \E l \in DOMAIN secs[j].strings :
          /\ x = StringAt(secs, j, l) /\ g.first <= j /\ InGroup(secs, g, j, l) /\ (j < i \/ (j = i /\ l <= k))
    BY DEF TakenUpTo
  <2>2. PICK l \in DOMAIN secs[j].strings :
          /\ x = StringAt(secs, j, l) /\ g.first <= j /\ InGroup(secs, g, j, l) /\ (j < i \/ (j = i /\ l <= k))
    BY <2>1
  <2>3. j < i \/ (j = i /\ l <= k + 1) BY <1>1, <1>2, <2>2
  <2> QED BY <2>2, <2>3, Zenon DEF TakenUpTo
<1>4. ASSUME NEW x \in TakenUpTo(secs, g, i, k + 1), x \notin TakenUpTo(secs, g, i, k)
      PROVE  x = new /\ InGroup(secs, g, i, k + 1)
  <2>1. PICK j \in DOMAIN secs : \E l \in DOMAIN secs[j].strings :
          /\ x = StringAt(secs, j, l) /\ g.first <= j /\ InGroup(secs, g, j, l) /\ (j < i \/ (j = i /\ l <= k + 1))
    BY DEF TakenUpTo
  <2>2. PICK l \in DOMAIN secs[j].strings :
          /\ x = StringAt(secs, j, l) /\ g.first <= j /\ InGroup(secs, g, j, l) /\ (j < i \/ (j = i /\ l <= k + 1))
    BY <2>1
  <2>3. x \in AllStrings(secs) BY DEF TakenUpTo
  <2>4. ~(j < i \/ (j = i /\ l <= k)) BY <1>4, <2>2, <2>3, Zenon DEF TakenUpTo
  <2>5. j = i /\ l = k + 1 BY <1>1, <1>2, <2>2, <2>4
  <2> QED BY <2>2, <2>5
<1>5. InGroup(secs, g, i, k + 1) => new \in TakenUpTo(secs, g, i, k + 1)
  <2>1. new \in AllStrings(secs) BY StringAtFacts
  <2>2. k + 1 <= k + 1 OBVIOUS
  <2> QED BY <2>1, <2>2, Zenon DEF TakenUpTo
<1>6. ASSUME NEW y \in TakenUpTo(secs, g, i, k) PROVE y.at < new.at
  <2>1. PICK j \in DOMAIN secs : \E l \in DOMAIN secs[j].strings :
          y = StringAt(secs, j, l) /\ (j < i \/ (j = i /\ l <= k))
    BY DEF TakenUpTo
  <2>2. PICK l \in DOMAIN secs[j].strings : y = StringAt(secs, j, l) /\ (j < i \/ (j = i /\ l <= k))
    BY <2>1
  <2>3. j < i \/ (j = i /\ l < k + 1) BY <1>1, <2>2
  <2>4. At(secs, j, l) + Length[secs[j].strings[l]] <= At(secs, i, k + 1) BY <2>3, StringsInOrder
  <2>5. At(secs, j, l) \in Nat /\ Length[secs[j].strings[l]] \in Nat /\ Length[secs[j].strings[l]] > 0
        /\ At(secs, i, k + 1) \in Nat
    BY StringAtFacts
  <2>6. At(secs, j, l) < At(secs, i, k + 1)
    <3>1. \A a, l1, b \in Nat : a + l1 <= b /\ l1 > 0 => a < b OBVIOUS
    <3> QED BY <2>4, <2>5, <3>1, Zenon
  <2> QED BY <2>2, <2>6 DEF StringAt
<1> HIDE DEF new
<1> QED BY <1>3, <1>4, <1>5, <1>6 DEF new

LEMMA ProcessHolds ==
  ASSUME NEW secs \in Seq(InputSection), NEW g, NEW i \in DOMAIN secs, g.first <= i,
         NEW vectors, Holds(vectors, TakenUpTo(secs, g, i, 0))
  PROVE  Holds(ProcessInputSection(secs, i, g, vectors), TakenUpTo(secs, g, i + 1, 0))
<1> DEFINE m == Len(secs[i].strings)
<1>1. vectors \in Vectors BY DEF Holds
<1>2. PICK after :
        /\ after[0] = vectors
        /\ \A k \in 1 .. m :
             /\ InGroup(secs, g, i, k) => after[k] = InsertData(after[k - 1], StringAt(secs, i, k))
             /\ ~InGroup(secs, g, i, k) => after[k] = after[k - 1]
        /\ ProcessInputSection(secs, i, g, vectors) = after[m]
  BY <1>1, ProcessUnfold
<1>3. \A j \in DOMAIN secs : /\ j \in Nat /\ DOMAIN secs[j].strings = 1 .. Len(secs[j].strings)
                             /\ Len(secs[j].strings) \in Nat
  <2> TAKE j \in DOMAIN secs
  <2>1. secs[j] \in InputSection /\ j \in Nat OBVIOUS
  <2> QED BY <2>1, SectionFacts
<1>4. m \in Nat /\ DOMAIN secs[i].strings = 1 .. m BY <1>3
<1> DEFINE Goes(k) == Holds(after[k], TakenUpTo(secs, g, i, k))
           S == {k \in 0 .. m : Goes(k)}
<1>5. Goes(0) BY <1>2
<1>6. ASSUME NEW k \in 0 .. m, k < m, Goes(k) PROVE Goes(k + 1)
  <2>1. k \in Nat /\ k + 1 \in 1 .. m /\ (k + 1) - 1 = k
    <3> HIDE DEF m
    <3> QED BY <1>4, <1>6
  <2>2. k + 1 \in DOMAIN secs[i].strings BY <1>4, <2>1
  <2>3. StringAt(secs, i, k + 1) \in StringToMerge BY <2>2, StringAtFacts
  <2>4. CASE InGroup(secs, g, i, k + 1)
    <3>1. after[k + 1] = InsertData(after[k], StringAt(secs, i, k + 1)) BY <1>2, <2>1, <2>4
    <3>2. /\ TakenUpTo(secs, g, i, k + 1) = TakenUpTo(secs, g, i, k) \cup {StringAt(secs, i, k + 1)}
          /\ \A y \in TakenUpTo(secs, g, i, k) : y.at < StringAt(secs, i, k + 1).at
      BY <2>1, <2>2, <2>4, TakenNext
    <3>3. Holds(InsertData(after[k], StringAt(secs, i, k + 1)),
                TakenUpTo(secs, g, i, k) \cup {StringAt(secs, i, k + 1)})
      BY <1>6, <2>3, <3>2, InsertDataHolds
    <3> QED BY <3>1, <3>2, <3>3
  <2>5. CASE ~InGroup(secs, g, i, k + 1)
    <3>1. after[k + 1] = after[k] BY <1>2, <2>1, <2>5
    <3>2. TakenUpTo(secs, g, i, k + 1) = TakenUpTo(secs, g, i, k) BY <2>1, <2>2, <2>5, TakenNext
    <3> QED BY <1>6, <3>1, <3>2
  <2> QED BY <2>4, <2>5
<1> HIDE DEF Goes
<1>7. Goes(m)
  <2> HIDE DEF m
  <2>1. 0 \in S BY <1>4, <1>5
  <2>2. \A k \in 0 .. m : k \in S /\ k < m => k + 1 \in S BY <1>4, <1>6
  <2>3. m \in 0 .. m BY <1>4
  <2>4. m \in S
    <3> HIDE DEF S
    <3> QED BY <1>4, <2>1, <2>2, <2>3, UpTo
  <2> QED BY <2>4
<1>8. TakenUpTo(secs, g, i, m) = TakenUpTo(secs, g, i + 1, 0)
  <2>1. ASSUME NEW j \in DOMAIN secs, NEW l \in DOMAIN secs[j].strings
        PROVE  (j < i \/ (j = i /\ l <= m)) <=> (j < i + 1 \/ (j = i + 1 /\ l <= 0))
    <3>1. j \in Nat /\ i \in Nat /\ l \in Nat /\ ~(l <= 0) /\ (j = i => l <= m)
      <4>1. DOMAIN secs[j].strings = 1 .. Len(secs[j].strings) /\ Len(secs[j].strings) \in Nat BY <1>3
      <4> QED BY <1>3, <4>1
    <3> HIDE DEF m
    <3> QED BY <3>1
  <2> HIDE DEF m
  <2> QED BY <2>1 DEF TakenUpTo
<1> QED BY <1>2, <1>7, <1>8 DEF Goes

---------------------------------------------------------------------------
(* process_input_section_group goes through the sections of a group.       *)
LEMMA ProcessType ==
  ASSUME NEW secs \in Seq(InputSection), NEW i \in DOMAIN secs, NEW g, NEW vectors \in Vectors
  PROVE  ProcessInputSection(secs, i, g, vectors) \in Vectors
<1> DEFINE m == Len(secs[i].strings)
<1>1. PICK after :
        /\ after[0] = vectors
        /\ \A k \in 1 .. m :
             /\ InGroup(secs, g, i, k) => after[k] = InsertData(after[k - 1], StringAt(secs, i, k))
             /\ ~InGroup(secs, g, i, k) => after[k] = after[k - 1]
        /\ ProcessInputSection(secs, i, g, vectors) = after[m]
  BY ProcessUnfold
<1>2. m \in Nat /\ DOMAIN secs[i].strings = 1 .. m
  <2>1. secs[i] \in InputSection OBVIOUS
  <2> QED BY <2>1, SectionFacts
<1> DEFINE S == {k \in 0 .. m : after[k] \in Vectors}
<1>3. 0 \in S
  <2> HIDE DEF m
  <2> QED BY <1>1, <1>2
<1>4. ASSUME NEW k \in 0 .. m, k \in S, k < m PROVE k + 1 \in S
  <2>1. k + 1 \in 1 .. m /\ (k + 1) - 1 = k /\ k + 1 \in 0 .. m
    <3> HIDE DEF m
    <3> QED BY <1>2, <1>4
  <2>2. StringAt(secs, i, k + 1) \in StringToMerge BY <1>2, <2>1, StringAtFacts
  <2>3. after[k] \in Vectors BY <1>4
  <2>4. InsertData(after[k], StringAt(secs, i, k + 1)) \in Vectors BY <2>2, <2>3, InsertDataType
  <2>5. after[k + 1] \in Vectors BY <1>1, <2>1, <2>3, <2>4
  <2> HIDE DEF m
  <2> QED BY <2>1, <2>5
<1>5. m \in S
  <2> HIDE DEF m
  <2>1. m \in 0 .. m BY <1>2
  <2> HIDE DEF S
  <2> QED BY <1>2, <1>3, <1>4, <2>1, UpTo
<1> QED BY <1>1, <1>5

LEMMA SplitGroupUnfold ==
  ASSUME NEW secs \in Seq(InputSection), NEW g, GroupFits(secs, g)
  PROVE  \E after :
           /\ after[0] = [b \in Bucket |-> << >>]
           /\ \A n \in 1 .. g.last - g.first + 1 :
                after[n] = ProcessInputSection(secs, g.first + n - 1, g, after[n - 1])
           /\ SplitGroup(secs, g).strings = after[g.last - g.first + 1]
<1> DEFINE m == g.last - g.first + 1
           empty == [b \in Bucket |-> << >>]
           rule == [p \in Vectors \X (1 .. m) |-> ProcessInputSection(secs, g.first + p[2] - 1, g, p[1])]
           Body(f) == [n \in 0 .. m |-> IF n = 0 THEN [b \in Bucket |-> << >>]
                                        ELSE ProcessInputSection(secs, g.first + n - 1, g, f[n - 1])]
           F == CHOOSE f : f = Body(f)
<1>1. /\ m \in Nat /\ \A n \in 1 .. m : g.first + n - 1 \in DOMAIN secs
  <2>1. g.first \in 1 .. Len(secs) /\ g.last \in 1 .. Len(secs) /\ g.first <= g.last /\ Len(secs) \in Nat
        /\ DOMAIN secs = 1 .. Len(secs)
    BY GroupFacts, StartOffsetFacts
  <2>2. \A len \in Nat : \A a, b \in 1 .. len :
          a <= b => b - a + 1 \in Nat /\ \A n \in 1 .. b - a + 1 : a + n - 1 \in 1 .. len
    OBVIOUS
  <2> QED BY <2>1, <2>2, Zenon
<1>2. empty \in Vectors
  <2>1. << >> \in Seq(StringToMerge)
    <3> HIDE DEF StringToMerge
    <3> QED OBVIOUS
  <2> HIDE DEF StringToMerge
  <2> QED BY <2>1 DEF Vectors
<1>3. rule \in [Vectors \X (1 .. m) -> Vectors]
  <2> SUFFICES ASSUME NEW p \in Vectors \X (1 .. m)
               PROVE  ProcessInputSection(secs, g.first + p[2] - 1, g, p[1]) \in Vectors
    OBVIOUS
  <2>1. p[1] \in Vectors /\ p[2] \in 1 .. m OBVIOUS
  <2>2. g.first + p[2] - 1 \in DOMAIN secs BY <1>1, <2>1
  <2> QED BY <2>1, <2>2, ProcessType
<1>4. PICK f \in [0 .. m -> Vectors] : Follows(f, m, empty, rule)
  <2> HIDE DEF rule, m, empty
  <2> QED BY <1>1, <1>2, <1>3, RecursionExists
<1>5. f = Body(f)
  <2>1. ASSUME NEW n \in 0 .. m PROVE f[n] = Body(f)[n]
    <3>1. CASE n = 0 BY <1>4, <3>1 DEF Follows
    <3>2. CASE n # 0
      <4>1. n \in 1 .. m /\ n - 1 \in 0 .. m
        <5> HIDE DEF m
        <5> QED BY <1>1, <3>2
      <4>2. f[n - 1] \in Vectors BY <1>4, <4>1
      <4>3. rule[<<f[n - 1], n>>] = ProcessInputSection(secs, g.first + n - 1, g, f[n - 1]) BY <4>1, <4>2
      <4>4. f[n] = rule[<<f[n - 1], n>>] BY <1>4, <4>1 DEF Follows
      <4>5. Body(f)[n] = ProcessInputSection(secs, g.first + n - 1, g, f[n - 1]) BY <3>2
      <4> QED BY <4>3, <4>4, <4>5
    <3> QED BY <3>1, <3>2
  <2> QED BY <1>4, <2>1
<1>6. F = Body(F) BY <1>5
<1>7. SplitGroup(secs, g).strings = F[m] BY DEF SplitGroup
<1>8. F[0] = empty /\ \A n \in 1 .. m : F[n] = ProcessInputSection(secs, g.first + n - 1, g, F[n - 1])
  <2> HIDE DEF F
  <2>1. 0 \in 0 .. m /\ \A n \in 1 .. m : n \in 0 .. m /\ n # 0
    <3> HIDE DEF m
    <3> QED BY <1>1
  <2> HIDE DEF m
  <2> QED BY <1>6, <2>1
<1> HIDE DEF F
<1> QED BY <1>7, <1>8

(* The strings of the sections that start in the range of the group.       *)
StringsInRange(secs, g) == {x \in AllStrings(secs) : InRange(g, x.at)}

(* A string that starts in the range of a group is in one of its sections; *)
(* a section that is not made of strings is in the range as a whole.       *)
LEMMA TakenInRange ==
  ASSUME NEW secs \in Seq(InputSection), NEW g, GroupFits(secs, g)
  PROVE  TakenUpTo(secs, g, g.last + 1, 0) = StringsInRange(secs, g)
<1> DEFINE S(j) == StartInputOffset(secs, j)
<1>1. /\ g.first \in 1 .. Len(secs) /\ g.last \in 1 .. Len(secs) /\ g.first <= g.last
      /\ g.start \in Nat /\ g.end \in Nat /\ g.end_section \in BOOLEAN
      /\ Len(secs) \in Nat /\ DOMAIN secs = 1 .. Len(secs)
  BY GroupFacts, StartOffsetFacts
<1>2. /\ \A j \in 1 .. Len(secs) + 1 : S(j) \in Nat
      /\ \A j, k \in 1 .. Len(secs) + 1 : j <= k => S(j) <= S(k)
  BY StartOffsetFacts
<1>3. /\ g.first \in 1 .. Len(secs) + 1 /\ g.first + 1 \in 1 .. Len(secs) + 1
      /\ g.last \in 1 .. Len(secs) + 1 /\ g.last + 1 \in 1 .. Len(secs) + 1
      /\ \A j \in DOMAIN secs : j \in 1 .. Len(secs) + 1 /\ j + 1 \in 1 .. Len(secs) + 1 /\ j \in Nat
  <2>1. \A len \in Nat : \A j \in 1 .. len : j \in 1 .. len + 1 /\ j + 1 \in 1 .. len + 1 /\ j \in Nat
    OBVIOUS
  <2> QED BY <1>1, <2>1, Zenon
<1>4. /\ S(g.first) <= g.start /\ g.start < S(g.first + 1)
      /\ g.start > S(g.first) => secs[g.first].is_string
      /\ S(g.last) < g.end /\ g.end <= S(g.last + 1)
  <2>1. g.end <= S(g.last + 1)
    <3>1. S(g.last + 1) \in Nat BY <1>2, <1>3
    <3>2. CASE g.end_section BY <1>1, <3>1, <3>2 DEF GroupFits
    <3>3. CASE ~g.end_section BY <1>1, <3>1, <3>3 DEF GroupFits
    <3> QED BY <1>1, <3>2, <3>3
  <2> QED BY <2>1 DEF GroupFits
<1>5. ASSUME NEW j \in DOMAIN secs, NEW l \in DOMAIN secs[j].strings
      PROVE  /\ InRange(g, At(secs, j, l)) => g.first <= j /\ j <= g.last
             /\ g.first <= j /\ j <= g.last /\ ~secs[j].is_string => InRange(g, At(secs, j, l))
  <2>1. /\ At(secs, j, l) \in Nat /\ At(secs, j, l) >= S(j)
        /\ Length[secs[j].strings[l]] \in Nat /\ Length[secs[j].strings[l]] > 0
        /\ At(secs, j, l) + Length[secs[j].strings[l]] <= S(j + 1)
    BY StringAtFacts
  <2>2. S(j) \in Nat /\ S(j + 1) \in Nat /\ S(g.first) \in Nat /\ S(g.first + 1) \in Nat
        /\ S(g.last) \in Nat /\ S(g.last + 1) \in Nat
    BY <1>2, <1>3
  <2>3. At(secs, j, l) < S(j + 1)
    <3>1. \A a, n, b \in Nat : a + n <= b /\ n > 0 => a < b OBVIOUS
    <3> HIDE DEF S
    <3> QED BY <2>1, <2>2, <3>1, Zenon
  <2>4. j \in Nat /\ g.first \in Nat /\ g.last \in Nat BY <1>1
  <2>5. j < g.first => S(j + 1) <= S(g.first)
    <3>1. j < g.first => j + 1 <= g.first BY <2>4
    <3> HIDE DEF S
    <3> QED BY <1>2, <1>3, <3>1
  <2>6. g.last < j => S(g.last + 1) <= S(j)
    <3>1. g.last < j => g.last + 1 <= j BY <2>4
    <3> HIDE DEF S
    <3> QED BY <1>2, <1>3, <3>1
  <2>7. ASSUME InRange(g, At(secs, j, l)) PROVE g.first <= j /\ j <= g.last
    <3>1. g.start <= At(secs, j, l) /\ At(secs, j, l) < g.end BY <2>7 DEF InRange
    <3>2. \A a, s, e, f \in Nat : ~(f <= s /\ s <= a /\ a < e /\ e <= f) OBVIOUS
    <3>3. \A a, l1, e, f \in Nat : ~(e <= l1 /\ l1 <= f /\ a >= f /\ a < e) OBVIOUS
    <3> HIDE DEF S
    <3>4. ~(j < g.first) BY <1>1, <1>4, <2>1, <2>2, <2>3, <2>5, <3>1, <3>2, Zenon
    <3>5. ~(g.last < j) BY <1>1, <1>4, <2>1, <2>2, <2>6, <3>1, <3>3, Zenon
    <3> QED BY <2>4, <3>4, <3>5
  <2>8. ASSUME g.first <= j, j <= g.last, ~secs[j].is_string PROVE InRange(g, At(secs, j, l))
    <3>1. At(secs, j, l) = S(j)
      <4>1. secs[j] \in InputSection OBVIOUS
      <4>2. l = 1 BY <2>8, <4>1, SectionFacts
      <4>3. StringStart(secs[j], 1) = 0 BY <4>1, StringStartFacts
      <4> HIDE DEF InputSection
      <4> QED BY <2>2, <4>2, <4>3 DEF At
    <3>2. S(j) <= S(g.last) BY <1>2, <1>3, <2>8
    <3>5. \A a, b, e \in Nat : a <= b /\ b < e => a < e OBVIOUS
    <3>6. At(secs, j, l) < g.end
      <4> HIDE DEF S
      <4> QED BY <1>1, <1>4, <2>2, <3>1, <3>2, <3>5, Zenon
    <3>3. CASE j = g.first
      <4>1. ~(g.start > S(g.first)) BY <1>4, <2>8, <3>3
      <4>2. \A a, b \in Nat : ~(a > b) => a <= b OBVIOUS
      <4> HIDE DEF S
      <4>3. g.start <= S(j) BY <1>1, <2>2, <3>3, <4>1, <4>2, Zenon
      <4> QED BY <3>1, <3>6, <4>3, Zenon DEF InRange
    <3>4. CASE j # g.first
      <4>1. g.first + 1 <= j BY <2>4, <2>8, <3>4
      <4>2. S(g.first + 1) <= S(j) BY <1>2, <1>3, <4>1
      <4>3. \A a, b, e \in Nat : a < b /\ b <= e => a <= e OBVIOUS
      <4> HIDE DEF S
      <4>4. g.start <= S(j) BY <1>1, <1>4, <2>2, <4>2, <4>3, Zenon
      <4> QED BY <3>1, <3>6, <4>4, Zenon DEF InRange
    <3> QED BY <3>3, <3>4
  <2> QED BY <2>7, <2>8
<1>6. ASSUME NEW j \in DOMAIN secs, NEW l \in DOMAIN secs[j].strings
      PROVE  (g.first <= j /\ InGroup(secs, g, j, l) /\ (j < g.last + 1 \/ (j = g.last + 1 /\ l <= 0)))
             <=> InRange(g, At(secs, j, l))
  <2>1. secs[j] \in InputSection /\ j \in Nat /\ g.last \in Nat BY <1>1
  <2>2. l \in Nat /\ ~(l <= 0) BY <2>1, SectionFacts
  <2>3. (j < g.last + 1 \/ (j = g.last + 1 /\ l <= 0)) <=> j <= g.last BY <2>1, <2>2
  <2> QED BY <1>5, <2>3, Zenon DEF InGroup
<1>7. ASSUME NEW x \in TakenUpTo(secs, g, g.last + 1, 0) PROVE x \in StringsInRange(secs, g)
  <2>1. PICK j \in DOMAIN secs : \E l \in DOMAIN secs[j].strings :
          /\ x = StringAt(secs, j, l) /\ g.first <= j /\ InGroup(secs, g, j, l)
          /\ j < g.last + 1 \/ (j = g.last + 1 /\ l <= 0)
    BY DEF TakenUpTo
  <2>2. PICK l \in DOMAIN secs[j].strings :
          /\ x = StringAt(secs, j, l) /\ g.first <= j /\ InGroup(secs, g, j, l)
          /\ j < g.last + 1 \/ (j = g.last + 1 /\ l <= 0)
    BY <2>1
  <2>3. InRange(g, At(secs, j, l)) BY <1>6, <2>2, Zenon
  <2>4. x \in AllStrings(secs) /\ x.at = At(secs, j, l) BY <2>2, StringAtFacts DEF StringAt
  <2> QED BY <2>3, <2>4 DEF StringsInRange
<1>8. ASSUME NEW x \in StringsInRange(secs, g) PROVE x \in TakenUpTo(secs, g, g.last + 1, 0)
  <2>1. x \in AllStrings(secs) /\ InRange(g, x.at) BY DEF StringsInRange
  <2>2. PICK j \in DOMAIN secs : \E l \in DOMAIN secs[j].strings : x = StringAt(secs, j, l)
    BY <2>1, AllStringsFacts
  <2>3. PICK l \in DOMAIN secs[j].strings : x = StringAt(secs, j, l) BY <2>2
  <2>4. InRange(g, At(secs, j, l)) BY <2>1, <2>3 DEF StringAt
  <2>5. g.first <= j /\ InGroup(secs, g, j, l) /\ (j < g.last + 1 \/ (j = g.last + 1 /\ l <= 0))
    BY <1>6, <2>4, Zenon
  <2> QED BY <2>1, <2>3, <2>5, Zenon DEF TakenUpTo
<1> QED BY <1>7, <1>8

(* What a group has when it is split.                                      *)
LEMMA SplitGroupHolds ==
  ASSUME NEW secs \in Seq(InputSection), NEW g, GroupFits(secs, g)
  PROVE  /\ Holds(SplitGroup(secs, g).strings, StringsInRange(secs, g))
         /\ SplitGroup(secs, g) \in SectionGroup
<1> DEFINE m == g.last - g.first + 1
<1>1. PICK after :
        /\ after[0] = [b \in Bucket |-> << >>]
        /\ \A n \in 1 .. m : after[n] = ProcessInputSection(secs, g.first + n - 1, g, after[n - 1])
        /\ SplitGroup(secs, g).strings = after[m]
  BY SplitGroupUnfold
<1>2. /\ g.first \in 1 .. Len(secs) /\ g.last \in 1 .. Len(secs) /\ g.first <= g.last /\ Len(secs) \in Nat
      /\ DOMAIN secs = 1 .. Len(secs)
  BY GroupFacts, StartOffsetFacts
<1>3. m \in Nat /\ g.first + m = g.last + 1 /\ g.first \in Nat BY <1>2
<1> DEFINE Goes(n) == Holds(after[n], TakenUpTo(secs, g, g.first + n, 0))
           S == {n \in 0 .. m : Goes(n)}
<1>4. Goes(0)
  <2>1. TakenUpTo(secs, g, g.first + 0, 0) = {}
    <3> SUFFICES ASSUME NEW x \in TakenUpTo(secs, g, g.first + 0, 0) PROVE FALSE OBVIOUS
    <3>1. PICK j \in DOMAIN secs : \E l \in DOMAIN secs[j].strings :
            g.first <= j /\ (j < g.first + 0 \/ (j = g.first + 0 /\ l <= 0))
      BY DEF TakenUpTo
    <3>2. PICK l \in DOMAIN secs[j].strings : g.first <= j /\ (j < g.first + 0 \/ (j = g.first + 0 /\ l <= 0))
      BY <3>1
    <3>3. secs[j] \in InputSection /\ j \in Nat BY <1>2
    <3>4. l \in Nat /\ ~(l <= 0) BY <3>3, SectionFacts
    <3> QED BY <1>3, <3>2, <3>3, <3>4
  <2> DEFINE empty == [b \in Bucket |-> << >>]
  <2>2. empty \in Vectors /\ \A b \in Bucket : DOMAIN empty[b] = {}
    <3>1. << >> \in Seq(StringToMerge) /\ DOMAIN << >> = {}
      <4> HIDE DEF StringToMerge
      <4> QED OBVIOUS
    <3> HIDE DEF StringToMerge
    <3> QED BY <3>1 DEF Vectors
  <2>3. after[0] = empty BY <1>1
  <2> HIDE DEF empty
  <2> QED BY <2>1, <2>2, <2>3 DEF Holds
<1>5. ASSUME NEW n \in 0 .. m, n < m, Goes(n) PROVE Goes(n + 1)
  <2>1. /\ n + 1 \in 1 .. m /\ (n + 1) - 1 = n /\ g.first + (n + 1) - 1 = g.first + n
        /\ (g.first + n) + 1 = g.first + (n + 1) /\ g.first <= g.first + n /\ g.first + n \in DOMAIN secs
    <3>1. \A len \in Nat : \A a, b \in 1 .. len : a <= b =>
            \A q \in 0 .. b - a + 1 : q < b - a + 1 =>
              /\ q + 1 \in 1 .. b - a + 1 /\ (q + 1) - 1 = q /\ a + (q + 1) - 1 = a + q
              /\ (a + q) + 1 = a + (q + 1) /\ a <= a + q /\ a + q \in 1 .. len
      OBVIOUS
    <3> QED BY <1>2, <1>5, <3>1, Zenon
  <2>2. after[n + 1] = ProcessInputSection(secs, g.first + n, g, after[n])
    <3>1. after[n + 1] = ProcessInputSection(secs, g.first + (n + 1) - 1, g, after[(n + 1) - 1]) BY <1>1, <2>1
    <3> QED BY <2>1, <3>1
  <2>3. Holds(ProcessInputSection(secs, g.first + n, g, after[n]), TakenUpTo(secs, g, (g.first + n) + 1, 0))
    BY <1>5, <2>1, ProcessHolds
  <2> QED BY <2>1, <2>2, <2>3
<1> HIDE DEF Goes
<1>6. Goes(m)
  <2> HIDE DEF m
  <2>1. 0 \in S BY <1>3, <1>4
  <2>2. \A n \in 0 .. m : n \in S /\ n < m => n + 1 \in S BY <1>3, <1>5
  <2>3. m \in 0 .. m BY <1>3
  <2>4. m \in S
    <3> HIDE DEF S
    <3> QED BY <1>3, <2>1, <2>2, <2>3, UpTo
  <2> QED BY <2>4
<1>7. Holds(SplitGroup(secs, g).strings, TakenUpTo(secs, g, g.last + 1, 0))
  <2> HIDE DEF m
  <2> QED BY <1>1, <1>3, <1>6 DEF Goes
<1>8. Holds(SplitGroup(secs, g).strings, StringsInRange(secs, g)) BY <1>7, TakenInRange
<1>9. PICK v : v = SplitGroup(secs, g).strings OBVIOUS
<1>10. SplitGroup(secs, g) = [strings |-> v,
                              fails |-> \E i \in g.first .. g.last : Unterminated(secs, i, g)]
  BY <1>9 DEF SplitGroup
<1>11. v \in [Bucket -> Seq(StringToMerge)] BY <1>8, <1>9 DEF Holds, Vectors
<1> HIDE DEF StringToMerge
<1>12. PICK f \in BOOLEAN : f = (\E i \in g.first .. g.last : Unterminated(secs, i, g)) OBVIOUS
<1> QED BY <1>8, <1>10, <1>11, <1>12 DEF SectionGroup

---------------------------------------------------------------------------
LEMMA GroupsOfFacts ==
  ASSUME NEW secs \in Seq(InputSection)
  PROVE  /\ GroupsOf(secs) \in Seq(SectionGroup)
         /\ DOMAIN GroupsOf(secs) = DOMAIN SplitSections(secs)
         /\ \A n \in DOMAIN GroupsOf(secs) :
              /\ GroupFits(secs, SplitSections(secs)[n])
              /\ Holds(GroupsOf(secs)[n].strings, StringsInRange(secs, SplitSections(secs)[n]))
<1>1. PICK split : split = SplitSections(secs) OBVIOUS
<1>2. GroupsOf(secs) = [g \in DOMAIN split |-> SplitGroup(secs, split[g])] BY <1>1 DEF GroupsOf
<1>3. \E k \in Nat : DOMAIN split = 1 .. k /\ \A n \in 1 .. k : GroupFits(secs, split[n])
  <2>1. CASE secs = << >>
    <3>1. split = << >> BY <1>1, <2>1 DEF SplitSections
    <3>2. DOMAIN split = 1 .. 0 /\ \A n \in 1 .. 0 : FALSE BY <3>1
    <3> QED BY <3>2
  <2>2. CASE secs # << >>
    <3>1. Chain(secs, split) BY <1>1, <2>2, SplitSectionsFacts
    <3>2. Len(split) \in Nat /\ DOMAIN split = 1 .. Len(split) BY <3>1, ChainFacts
    <3> QED BY <3>1, <3>2 DEF Chain
  <2> QED BY <2>1, <2>2
<1>4. PICK k \in Nat : DOMAIN split = 1 .. k /\ \A n \in 1 .. k : GroupFits(secs, split[n]) BY <1>3
<1>5. \A n \in 1 .. k : /\ SplitGroup(secs, split[n]) \in SectionGroup
                        /\ Holds(SplitGroup(secs, split[n]).strings, StringsInRange(secs, split[n]))
  BY <1>4, SplitGroupHolds
<1>6. \A n \in 1 .. k : GroupsOf(secs)[n] = SplitGroup(secs, split[n]) BY <1>2, <1>4
<1>7. GroupsOf(secs) \in Seq(SectionGroup)
  <2> DEFINE gs == [g \in 1 .. k |-> SplitGroup(secs, split[g])]
  <2> HIDE DEF SectionGroup
  <2>1. gs \in Seq(SectionGroup) BY <1>5
  <2> QED BY <1>2, <1>4, <2>1
<1> QED BY <1>1, <1>2, <1>4, <1>5, <1>6, <1>7

LEMMA InputFits ==
  ASSUME NEW secs \in Seq(InputSection), NEW x \in AllStrings(secs)
  PROVE  x \in StringToMerge /\ x.at \in 0 .. TotalInputSize(secs) - 1 /\ secs # << >>
<1>1. PICK i \in DOMAIN secs : \E k \in DOMAIN secs[i].strings : x = StringAt(secs, i, k) BY AllStringsFacts
<1>2. PICK k \in DOMAIN secs[i].strings : x = StringAt(secs, i, k) BY <1>1
<1>3. /\ x \in StringToMerge
      /\ At(secs, i, k) \in Nat
      /\ Length[secs[i].strings[k]] \in Nat /\ Length[secs[i].strings[k]] > 0
      /\ At(secs, i, k) + Length[secs[i].strings[k]] <= StartInputOffset(secs, i + 1)
  BY <1>2, StringAtFacts
<1>4. /\ i + 1 \in 1 .. Len(secs) + 1 /\ Len(secs) + 1 \in 1 .. Len(secs) + 1 /\ i + 1 <= Len(secs) + 1
  <2>1. DOMAIN secs = 1 .. Len(secs) /\ Len(secs) \in Nat BY StartOffsetFacts
  <2> QED BY <2>1
<1>5. /\ StartInputOffset(secs, i + 1) <= TotalInputSize(secs)
      /\ StartInputOffset(secs, i + 1) \in Nat /\ TotalInputSize(secs) \in Nat
  BY <1>4, StartOffsetFacts DEF TotalInputSize
<1>6. At(secs, i, k) \in 0 .. TotalInputSize(secs) - 1
  <2>1. \A a, l, e, t \in Nat : a + l <= e /\ l > 0 /\ e <= t => a \in 0 .. t - 1 OBVIOUS
  <2> QED BY <1>3, <1>5, <2>1, Zenon
<1>7. secs # << >> OBVIOUS
<1> QED BY <1>2, <1>3, <1>6, <1>7 DEF StringAt

(* split_sections and process_input_section_group, whatever the sections   *)
(* and the size of a group: each string of the sections is in the vector   *)
(* of exactly one group and bucket, the bucket its hash names, and going   *)
(* through the groups and a bucket's vectors one meets the strings in the  *)
(* order of the input, however a group boundary divides a section or a     *)
(* string.                                                                 *)
THEOREM SplitEachStringOnce ==
  ASSUME NEW secs \in Seq(InputSection), NEW b \in Bucket
  PROVE  LET gs == GroupsOf(secs)
         IN  /\ StringsOf(gs, b) = {x \in AllStrings(secs) : BucketOf[x.string] = b}
             /\ \A m, n \in DOMAIN gs :
                  \A i \in DOMAIN gs[m].strings[b], j \in DOMAIN gs[n].strings[b] :
                    m < n \/ (m = n /\ i < j) => gs[m].strings[b][i].at < gs[n].strings[b][j].at
<1>1. PICK gs : gs = GroupsOf(secs) OBVIOUS
<1>2. PICK split : split = SplitSections(secs) OBVIOUS
<1>3. /\ gs \in Seq(SectionGroup) /\ DOMAIN gs = DOMAIN split
      /\ \A n \in DOMAIN gs : GroupFits(secs, split[n]) /\ Holds(gs[n].strings, StringsInRange(secs, split[n]))
  BY <1>1, <1>2, GroupsOfFacts
<1>4. ASSUME NEW n \in DOMAIN gs, NEW i \in DOMAIN gs[n].strings[b]
      PROVE  /\ gs[n].strings[b][i] \in AllStrings(secs) /\ BucketOf[gs[n].strings[b][i].string] = b
             /\ InRange(split[n], gs[n].strings[b][i].at)
  BY <1>3 DEF Holds, StringsInRange
<1>5. ASSUME NEW x \in StringsOf(gs, b) PROVE x \in AllStrings(secs) /\ BucketOf[x.string] = b
  <2>1. PICK n \in DOMAIN gs : x \in {gs[n].strings[b][i] : i \in DOMAIN gs[n].strings[b]} BY DEF StringsOf
  <2> QED BY <1>4, <2>1
<1>6. ASSUME NEW x \in AllStrings(secs), BucketOf[x.string] = b PROVE x \in StringsOf(gs, b)
  <2>1. x.at \in 0 .. TotalInputSize(secs) - 1 /\ secs # << >> BY InputFits
  <2>2. PICK n \in DOMAIN split : InRange(split[n], x.at) BY <1>2, <2>1, GroupsPartition
  <2>3. x \in StringsInRange(secs, split[n]) BY <2>2 DEF StringsInRange
  <2>4. \E i \in DOMAIN gs[n].strings[b] : gs[n].strings[b][i] = x BY <1>3, <1>6, <2>3 DEF Holds
  <2> QED BY <1>3, <2>4 DEF StringsOf
<1>7. ASSUME NEW m \in DOMAIN gs, NEW n \in DOMAIN gs,
             NEW i \in DOMAIN gs[m].strings[b], NEW j \in DOMAIN gs[n].strings[b],
             m < n \/ (m = n /\ i < j)
      PROVE  gs[m].strings[b][i].at < gs[n].strings[b][j].at
  <2> DEFINE x == gs[m].strings[b][i]
             y == gs[n].strings[b][j]
  <2>1. CASE m = n /\ i < j BY <1>3, <2>1 DEF Holds
  <2>2. CASE m < n
    <3>1. InRange(split[m], x.at) /\ InRange(split[n], y.at) /\ x \in AllStrings(secs) /\ y \in AllStrings(secs)
      BY <1>4
    <3>2. x.at \in Nat /\ y.at \in Nat /\ secs # << >>
      <4>1. x \in StringToMerge /\ y \in StringToMerge /\ secs # << >> BY <3>1, InputFits
      <4> HIDE DEF x, y
      <4> QED BY <4>1 DEF StringToMerge
    <3>3. split[m].end <= split[n].start BY <1>2, <1>3, <2>2, <3>2, GroupsPartition
    <3>4. split[m].end \in Nat /\ split[n].start \in Nat BY <1>3, GroupFacts
    <3>5. x.at < split[m].end /\ split[n].start <= y.at BY <3>1 DEF InRange
    <3>6. \A a, c, d, e \in Nat : a < c /\ c <= d /\ d <= e => a < e OBVIOUS
    <3> HIDE DEF x, y
    <3>7. x.at < y.at BY <3>2, <3>3, <3>4, <3>5, <3>6, Zenon
    <3> QED BY <3>7 DEF x, y
  <2> QED BY <1>7, <2>1, <2>2
<1> QED BY <1>1, <1>5, <1>6, <1>7

(* What add_input_sections takes for granted of the groups it is given     *)
(* holds of those the sections are divided into.                           *)
THEOREM SplitsWell ==
  ASSUME NEW secs \in Seq(InputSection)
  PROVE  GroupsOf(secs) \in Seq(SectionGroup) /\ WellSplit(GroupsOf(secs))
<1>1. GroupsOf(secs) \in Seq(SectionGroup) BY GroupsOfFacts
<1>2. ASSUME NEW b \in Bucket, NEW c \in Bucket,
             NEW x \in StringsOf(GroupsOf(secs), b), NEW y \in StringsOf(GroupsOf(secs), c)
      PROVE  /\ \/ x = y
                \/ x.at + Length[x.string] <= y.at
                \/ y.at + Length[y.string] <= x.at
             /\ x.string = y.string => b = c
  <2>1. x \in AllStrings(secs) /\ BucketOf[x.string] = b BY SplitEachStringOnce
  <2>2. y \in AllStrings(secs) /\ BucketOf[y.string] = c BY SplitEachStringOnce
  <2> QED BY <2>1, <2>2, StringsLieApart
<1> QED BY <1>1, <1>2 DEF WellSplit

---------------------------------------------------------------------------
(* A bucket that took the strings of P has them in the order in which P    *)
(* has each one first.                                                     *)
InOrder(bk, P) ==
  /\ Contents(bk) = {x.string : x \in P}
  /\ \A m, n \in DOMAIN bk.strings : m < n =>
       \E x \in P : /\ x.string = bk.strings[m].string
                    /\ \A y \in P : y.string = bk.strings[n].string => x.at < y.at

LEMMA AddStringInOrder ==
  ASSUME NEW bk, Sound(bk), NEW P \in SUBSET StringToMerge, InOrder(bk, P),
         NEW z \in StringToMerge, \A y \in P : y.at < z.at
  PROVE  InOrder(AddString(bk, z.string), P \cup {z})
<1> DEFINE s == z.string
           e == [string |-> s, offset |-> bk.next_offset]
           k == Len(bk.strings)
<1>1. PICK new : new = AddString(bk, s) OBVIOUS
<1>2. s \in String BY DEF StringToMerge
<1>3. Contents(new) = Contents(bk) \cup {s} BY <1>1, <1>2, AddStringFacts
<1>4. Contents(new) = {x.string : x \in P \cup {z}} BY <1>3 DEF InOrder
<1>5. /\ k \in Nat /\ DOMAIN bk.strings = 1 .. k /\ bk.strings \in Seq(Entry) /\ bk.next_offset \in Nat
  BY SoundFacts
<1>6. ASSUME NEW m \in DOMAIN bk.strings, NEW n \in DOMAIN bk.strings, m < n
      PROVE  \E x \in P \cup {z} :
               /\ x.string = bk.strings[m].string
               /\ \A y \in P \cup {z} : y.string = bk.strings[n].string => x.at < y.at
  <2>1. PICK x \in P : /\ x.string = bk.strings[m].string
                       /\ \A y \in P : y.string = bk.strings[n].string => x.at < y.at
    BY <1>6 DEF InOrder
  <2>2. x.at < z.at OBVIOUS
  <2> QED BY <2>1, <2>2
<1>7. CASE Known(bk, s) # {}
  <2>1. new = bk BY <1>1, <1>7 DEF AddString
  <2> QED BY <1>1, <1>4, <1>6, <2>1 DEF InOrder
<1>8. CASE Known(bk, s) = {}
  <2>1. new = [strings |-> Append(bk.strings, e), next_offset |-> bk.next_offset + Length[s]]
    BY <1>1, <1>8 DEF AddString
  <2>2. new.strings = Append(bk.strings, e) BY <2>1
  <2>3. e \in Entry /\ e.string = s BY <1>2, <1>5 DEF Entry
  <2> HIDE DEF e
  <2>4. DOMAIN new.strings = 1 .. k + 1 /\ new.strings[k + 1] = e
        /\ \A n \in 1 .. k : new.strings[n] = bk.strings[n]
    <3> HIDE DEF Entry
    <3> QED BY <1>5, <2>2, <2>3
  <2>5. \A y \in P : y.string # s
    <3>1. s \notin Contents(bk) BY <1>8 DEF Known, Contents
    <3> QED BY <3>1 DEF InOrder
  <2> HIDE DEF k
  <2>6. ASSUME NEW m \in 1 .. k + 1, NEW n \in 1 .. k + 1, m < n
        PROVE  \E x \in P \cup {z} :
                 /\ x.string = new.strings[m].string
                 /\ \A y \in P \cup {z} : y.string = new.strings[n].string => x.at < y.at
    <3>1. m \in 1 .. k /\ (n = k + 1 \/ n \in 1 .. k) BY <1>5, <2>6
    <3>2. new.strings[m] = bk.strings[m] BY <2>4, <3>1
    <3>3. CASE n \in 1 .. k
      <4>1. new.strings[n] = bk.strings[n] BY <2>4, <3>3
      <4> QED BY <1>5, <1>6, <2>6, <3>1, <3>2, <3>3, <4>1
    <3>4. CASE n = k + 1
      <4>1. bk.strings[m].string \in Contents(bk) BY <1>5, <3>1 DEF Contents
      <4>2. PICK x \in P : x.string = bk.strings[m].string BY <4>1 DEF InOrder
      <4>3. new.strings[n].string = s BY <2>3, <2>4, <3>4
      <4>4. x.at < z.at OBVIOUS
      <4> QED BY <2>5, <3>2, <4>2, <4>3, <4>4
    <3> QED BY <3>1, <3>3, <3>4
  <2> QED BY <1>1, <1>4, <2>4, <2>6 DEF InOrder
<1> QED BY <1>7, <1>8

LEMMA AddStringsInOrder ==
  ASSUME NEW bk, Sound(bk), NEW P \in SUBSET StringToMerge, InOrder(bk, P),
         NEW strings \in Seq(StringToMerge),
         \A i \in DOMAIN strings : \A y \in P : y.at < strings[i].at,
         \A i, j \in DOMAIN strings : i < j => strings[i].at < strings[j].at
  PROVE  InOrder(AddStrings(bk, strings), P \cup {strings[i] : i \in DOMAIN strings})
<1> DEFINE m == Len(strings)
           Upto(n) == P \cup {strings[i] : i \in 1 .. n}
<1>1. PICK after :
        /\ after[0] = bk
        /\ \A n \in 1 .. m : after[n] = AddString(after[n - 1], strings[n].string)
        /\ AddStrings(bk, strings) = after[m]
  BY AddStringsUnfold
<1>2. m \in Nat /\ DOMAIN strings = 1 .. m /\ \A n \in 1 .. m : strings[n] \in StringToMerge
  <2> HIDE DEF StringToMerge
  <2> QED OBVIOUS
<1> DEFINE Goes(n) == Sound(after[n]) /\ InOrder(after[n], Upto(n))
           S == {n \in 0 .. m : Goes(n)}
<1>3. Goes(0)
  <2>1. Upto(0) = P OBVIOUS
  <2> QED BY <1>1, <2>1
<1>4. ASSUME NEW n \in 0 .. m, n < m, Goes(n) PROVE Goes(n + 1)
  <2> DEFINE z == strings[n + 1]
  <2>1. n + 1 \in 1 .. m /\ (n + 1) - 1 = n /\ 1 .. n + 1 = 1 .. n \cup {n + 1}
        /\ \A i \in 1 .. n : i \in 1 .. m /\ i < n + 1
    <3> HIDE DEF m
    <3> QED BY <1>2, <1>4
  <2>2. z \in StringToMerge /\ z.string \in String BY <1>2, <2>1 DEF StringToMerge
  <2>3. after[n + 1] = AddString(after[n], z.string) BY <1>1, <2>1
  <2>4. Upto(n + 1) = Upto(n) \cup {z} BY <2>1
  <2>5. Upto(n) \in SUBSET StringToMerge
    <3> HIDE DEF StringToMerge
    <3> QED BY <1>2, <2>1
  <2>6. \A y \in Upto(n) : y.at < z.at
    <3> TAKE y \in Upto(n)
    <3>1. CASE y \in P BY <1>2, <2>1, <3>1
    <3>2. CASE y \in {strings[i] : i \in 1 .. n}
      <4>1. PICK i \in 1 .. n : y = strings[i] BY <3>2
      <4> QED BY <1>2, <2>1, <4>1
    <3> QED BY <3>1, <3>2
  <2> HIDE DEF z, Upto
  <2>7. InOrder(AddString(after[n], z.string), Upto(n) \cup {z}) BY <1>4, <2>2, <2>5, <2>6, AddStringInOrder
  <2>8. Sound(AddString(after[n], z.string)) BY <1>4, <2>2, AddStringFacts
  <2> QED BY <2>3, <2>4, <2>7, <2>8
<1> HIDE DEF Goes
<1>5. Goes(m)
  <2> HIDE DEF m
  <2>1. 0 \in S BY <1>2, <1>3
  <2>2. \A n \in 0 .. m : n \in S /\ n < m => n + 1 \in S BY <1>2, <1>4
  <2>3. m \in 0 .. m BY <1>2
  <2>4. m \in S
    <3> HIDE DEF S
    <3> QED BY <1>2, <2>1, <2>2, <2>3, UpTo
  <2> QED BY <2>4
<1> QED BY <1>1, <1>2, <1>5 DEF Goes

(* The strings of the first n groups that go to a bucket.                  *)
StringsUpTo(gs, b, n) ==
  UNION {{gs[m].strings[b][i] : i \in DOMAIN gs[m].strings[b]} : m \in 1 .. n}

LEMMA BucketsInOrder ==
  ASSUME TypeOK, NEW b \in Bucket,
         \A m, n \in GroupIndex : \A i \in DOMAIN groups[m].strings[b], j \in DOMAIN groups[n].strings[b] :
           m < n \/ (m = n /\ i < j) => groups[m].strings[b][i].at < groups[n].strings[b][j].at
  PROVE  InOrder(BucketAfter(groups, b)[Len(groups)], StringsOf(groups, b))
<1>1. PICK gs : gs = groups OBVIOUS
<1>2. PICK after : after = BucketAfter(groups, b) OBVIOUS
<1> DEFINE m == Len(gs)
<1>3. m \in Nat /\ GroupIndex = 1 .. m /\ DOMAIN gs = 1 .. m
  <2>1. gs \in Seq(SectionGroup) BY <1>1, TypeFacts
  <2> HIDE DEF SectionGroup
  <2> QED BY <1>1, <2>1 DEF GroupIndex
<1>4. /\ after[0] = [strings |-> << >>, next_offset |-> 0]
      /\ \A n \in 1 .. m : after[n] = AddStrings(after[n - 1], gs[n].strings[b])
  BY <1>1, <1>2, <1>3, BucketAfterUnfold
<1>5. \A n \in 1 .. m : /\ gs[n].strings[b] \in Seq(StringToMerge)
                        /\ \A i \in DOMAIN gs[n].strings[b] : gs[n].strings[b][i] \in StringToMerge
  BY <1>1, <1>3, SplitFacts
<1>6. \A p, n \in 1 .. m : \A i \in DOMAIN gs[p].strings[b], j \in DOMAIN gs[n].strings[b] :
        p < n \/ (p = n /\ i < j) => gs[p].strings[b][i].at < gs[n].strings[b][j].at
  BY <1>1, <1>3
<1> HIDE DEF m
<1> DEFINE Goes(n) == Sound(after[n]) /\ InOrder(after[n], StringsUpTo(gs, b, n))
           S == {n \in 0 .. m : Goes(n)}
<1>7. Goes(0)
  <2>1. StringsUpTo(gs, b, 0) = {}
    <3>1. 1 .. 0 = {} OBVIOUS
    <3> QED BY <3>1 DEF StringsUpTo
  <2>2. DOMAIN after[0].strings = {} BY <1>4
  <2>3. Contents(after[0]) = {} BY <2>2 DEF Contents
  <2> QED BY <1>4, <2>1, <2>2, <2>3, EmptyBucketSound DEF InOrder
<1>8. ASSUME NEW n \in 0 .. m, n < m, Goes(n) PROVE Goes(n + 1)
  <2>1. n + 1 \in 1 .. m /\ (n + 1) - 1 = n /\ 1 .. n + 1 = 1 .. n \cup {n + 1}
        /\ \A p \in 1 .. n : p \in 1 .. m /\ p < n + 1
    BY <1>3, <1>8
  <2>2. PICK strings : strings = gs[n + 1].strings[b] OBVIOUS
  <2>3. PICK P : P = StringsUpTo(gs, b, n) OBVIOUS
  <2>4. strings \in Seq(StringToMerge) BY <1>5, <2>1, <2>2
  <2>5. \A y \in P : \E p \in 1 .. n : \E i \in DOMAIN gs[p].strings[b] : y = gs[p].strings[b][i]
    BY <2>3 DEF StringsUpTo
  <2>6. P \in SUBSET StringToMerge
    <3> HIDE DEF StringToMerge
    <3> QED BY <1>5, <2>1, <2>5
  <2>7. \A i \in DOMAIN strings : \A y \in P : y.at < strings[i].at
    BY <1>6, <2>1, <2>2, <2>5
  <2>8. \A i, j \in DOMAIN strings : i < j => strings[i].at < strings[j].at
    BY <1>6, <2>1, <2>2
  <2>9. after[n + 1] = AddStrings(after[n], strings) BY <1>4, <2>1, <2>2
  <2>10. StringsUpTo(gs, b, n + 1) = P \cup {strings[i] : i \in DOMAIN strings}
    BY <2>1, <2>2, <2>3 DEF StringsUpTo
  <2>11. Sound(after[n]) /\ InOrder(after[n], P) BY <1>8, <2>3
  <2>12. InOrder(AddStrings(after[n], strings), P \cup {strings[i] : i \in DOMAIN strings})
    BY <2>4, <2>6, <2>7, <2>8, <2>11, AddStringsInOrder
  <2>13. Sound(AddStrings(after[n], strings)) BY <2>4, <2>11, AddStringsFacts
  <2> QED BY <2>9, <2>10, <2>12, <2>13
<1> HIDE DEF Goes
<1>9. Goes(m)
  <2>1. 0 \in S BY <1>3, <1>7
  <2>2. \A n \in 0 .. m : n \in S /\ n < m => n + 1 \in S BY <1>3, <1>8
  <2>3. m \in 0 .. m BY <1>3
  <2>4. m \in S
    <3> HIDE DEF S
    <3> QED BY <1>3, <2>1, <2>2, <2>3, UpTo
  <2> QED BY <2>4
<1>10. StringsUpTo(gs, b, m) = StringsOf(gs, b) BY <1>3 DEF StringsUpTo, StringsOf
<1> QED BY <1>1, <1>2, <1>9, <1>10 DEF Goes, m

LEMMA FirstAtFacts ==
  ASSUME NEW secs \in Seq(InputSection), NEW s, NEW y \in AllStrings(secs), y.string = s
  PROVE  /\ \E x \in AllStrings(secs) : x.string = s /\ FirstAt(secs, s) = x.at
         /\ \A x \in AllStrings(secs) : x.string = s => FirstAt(secs, s) <= x.at
         /\ FirstAt(secs, s) \in Nat
<1> DEFINE ats == {x.at : x \in {z \in AllStrings(secs) : z.string = s}}
<1>1. \A x \in AllStrings(secs) : x.at \in Nat BY InputFits DEF StringToMerge
<1>2. ats \in SUBSET Nat /\ y.at \in ats BY <1>1
<1>3. FirstAt(secs, s) \in ats /\ \A a \in ats : FirstAt(secs, s) <= a
  <2>1. \E x \in ats : \A a \in ats : x <= a
    <3>1. ats # {} BY <1>2
    <3> HIDE DEF ats
    <3> QED BY <1>2, <3>1, LeastNumber
  <2>2. FirstAt(secs, s) = Min(ats) BY DEF FirstAt
  <2> HIDE DEF ats
  <2> QED BY <2>1, <2>2 DEF Min
<1>4. PICK f : f = FirstAt(secs, s) OBVIOUS
<1>5. \E x \in AllStrings(secs) : x.string = s /\ f = x.at BY <1>3, <1>4
<1>6. \A x \in AllStrings(secs) : x.string = s => f <= x.at BY <1>3, <1>4
<1> QED BY <1>2, <1>3, <1>4, <1>5, <1>6

(* Every bucket ends within the offsets that BucketOffset can represent.   *)
BucketsInLimit == \A b \in Bucket : bucket[b].next_offset <= BucketLimit

(* merge_strings and find_string, from the input sections to the merged    *)
(* one, whatever the sections, the sizes of groups, the buckets and the    *)
(* schedule: as long as no bucket ends beyond the limit, every reference   *)
(* into an input section leads to the same byte of its string, and each    *)
(* bucket has its strings in the order in which the input has them first.  *)
THEOREM MergeReferencesReachTheirString ==
  Spec => [](BucketsInLimit => ReferencesReachTheirString)
<1>1. TypeOK /\ IInv /\ ContentInv => (BucketsInLimit => ReferencesReachTheirString)
  <2> SUFFICES ASSUME TypeOK, IInv, ContentInv, BucketsInLimit, merged.state = "done",
                      NEW secs \in SectionLists, groups = GroupsOf(secs)
               PROVE  ReferencesFollowed(secs) /\ \A b \in Bucket : BucketInInputOrder(secs, b)
    BY DEF ReferencesReachTheirString
  <2>1. secs \in Seq(InputSection) BY SplitAssumption
  <2>2. ASSUME NEW b \in Bucket
        PROVE  /\ StringsOf(groups, b) = {x \in AllStrings(secs) : BucketOf[x.string] = b}
               /\ \A m, n \in DOMAIN groups :
                    \A i \in DOMAIN groups[m].strings[b], j \in DOMAIN groups[n].strings[b] :
                      m < n \/ (m = n /\ i < j) => groups[m].strings[b][i].at < groups[n].strings[b][j].at
    BY <2>1, SplitEachStringOnce
  <2>3. ReferencesFollowed(secs)
    <3> SUFFICES ASSUME NEW i \in DOMAIN secs, NEW k \in DOMAIN secs[i].strings,
                        NEW o \in 0 .. Length[secs[i].strings[k]] - 1
                 PROVE  OutputAddress(StartInputOffset(secs, i), StringStart(secs[i], k) + o)
                          = Place(BucketOf[secs[i].strings[k]], secs[i].strings[k]) + o
      BY DEF ReferencesFollowed
    <3> DEFINE s == secs[i].strings[k]
               b == BucketOf[s]
               x == StringAt(secs, i, k)
               start == StartInputOffset(secs, i)
               ss == StringStart(secs[i], k)
    <3>1. x \in AllStrings(secs) /\ Length[s] \in Nat /\ s \in String BY <2>1, StringAtFacts
    <3>2. b \in Bucket BY <3>1, SplitAssumption
    <3>3. x.string = s /\ x.at = start + ss BY DEF StringAt, At
    <3>4. x \in StringsOf(groups, b) BY <2>2, <3>1, <3>2, <3>3
    <3>5. start \in Nat /\ ss \in Nat
      <4>1. secs[i] \in InputSection /\ i \in 1 .. Len(secs) + 1
        <5>1. DOMAIN secs = 1 .. Len(secs) /\ Len(secs) \in Nat /\ secs[i] \in InputSection BY <2>1, StartOffsetFacts
        <5> QED BY <5>1
      <4> QED BY <2>1, <4>1, StartOffsetFacts, StringStartFacts
    <3>6. ReferencesFollow(b) BY <3>2, ReferencesReach DEF BucketsInLimit
    <3> DEFINE at == x.at + o
    <3>7. start \in 0 .. x.at /\ at \in x.at .. x.at + Length[x.string] - 1
          /\ at - start = ss + o /\ at - x.at = o
      <4>1. \A p, q, len \in Nat : \A r \in 0 .. len - 1 :
              /\ p \in 0 .. p + q /\ (p + q) + r \in (p + q) .. (p + q) + len - 1
              /\ ((p + q) + r) - p = q + r /\ ((p + q) + r) - (p + q) = r
        OBVIOUS
      <4>2. o \in 0 .. Length[s] - 1 OBVIOUS
      <4>3. Length[x.string] = Length[s] BY <3>3
      <4> HIDE DEF s, x, start, ss
      <4>4. /\ start \in 0 .. start + ss
            /\ (start + ss) + o \in (start + ss) .. (start + ss) + Length[s] - 1
            /\ ((start + ss) + o) - start = ss + o /\ ((start + ss) + o) - (start + ss) = o
        <5>1. PICK p \in Nat : p = start BY <3>5
        <5>2. PICK q \in Nat : q = ss BY <3>5
        <5>3. PICK len \in Nat : len = Length[s] BY <3>1
        <5>4. o \in 0 .. len - 1 BY <4>2, <5>3, Zenon
        <5>5. /\ p \in 0 .. p + q /\ (p + q) + o \in (p + q) .. (p + q) + len - 1
              /\ ((p + q) + o) - p = q + o /\ ((p + q) + o) - (p + q) = o
          BY <4>1, <5>4
        <5> QED BY <5>1, <5>2, <5>3, <5>5, Zenon
      <4> QED BY <3>3, <4>3, <4>4, Zenon
    <3>8. OutputAddress(start, at - start) = Place(b, x.string) + (at - x.at)
      <4> HIDE DEF s, b, x, start, at
      <4> QED BY <3>4, <3>6, <3>7 DEF ReferencesFollow
    <3>9. OutputAddress(start, ss + o) = Place(b, s) + o
      <4> HIDE DEF s, b, x, start, at, ss
      <4> QED BY <3>3, <3>7, <3>8
    <3> QED BY <3>9
  <2>4. ASSUME NEW b \in Bucket PROVE BucketInInputOrder(secs, b)
    <3> DEFINE P == {x \in AllStrings(secs) : BucketOf[x.string] = b}
    <3>1. PICK bk : bk = bucket[b] OBVIOUS
    <3>2. InOrder(bk, P)
      <4>1. DOMAIN groups = GroupIndex
        <5>1. groups \in Seq(SectionGroup) BY TypeFacts
        <5> HIDE DEF SectionGroup
        <5> QED BY <5>1 DEF GroupIndex
      <4>2. InOrder(BucketAfter(groups, b)[Len(groups)], StringsOf(groups, b))
        BY <2>2, <4>1, BucketsInOrder
      <4>3. bucket[b] = BucketAfter(groups, b)[Len(groups)] BY AllInOrder DEF MergedInOrder
      <4> QED BY <2>2, <3>1, <4>2, <4>3
    <3>3. {bk.strings[n].string : n \in DOMAIN bk.strings} = {x.string : x \in P}
      BY <3>2 DEF InOrder, Contents
    <3>4. ASSUME NEW m \in DOMAIN bk.strings, NEW n \in DOMAIN bk.strings, m < n
          PROVE  FirstAt(secs, bk.strings[m].string) < FirstAt(secs, bk.strings[n].string)
      <4> DEFINE s == bk.strings[m].string
                 t == bk.strings[n].string
      <4>1. PICK x \in P : x.string = s /\ \A y \in P : y.string = t => x.at < y.at
        BY <3>2, <3>4 DEF InOrder
      <4>2. FirstAt(secs, s) <= x.at /\ FirstAt(secs, s) \in Nat
        BY <2>1, <4>1, FirstAtFacts
      <4>3. PICK z \in P : z.string = t
        <5>1. t \in {w.string : w \in P} BY <3>3
        <5> QED BY <5>1
      <4>4. PICK y \in AllStrings(secs) : y.string = t /\ FirstAt(secs, t) = y.at
        BY <2>1, <4>3, FirstAtFacts
      <4>5. y \in P BY <4>3, <4>4
      <4>6. x.at < y.at BY <4>1, <4>4, <4>5
      <4>7. x.at \in Nat /\ y.at \in Nat BY <2>1, InputFits DEF StringToMerge
      <4>8. \A a, c, d \in Nat : a <= c /\ c < d => a < d OBVIOUS
      <4> HIDE DEF s, t
      <4>9. FirstAt(secs, s) < FirstAt(secs, t) BY <4>2, <4>4, <4>6, <4>7, <4>8, Zenon
      <4> QED BY <4>9 DEF s, t
    <3> QED BY <3>1, <3>3, <3>4 DEF BucketInInputOrder
  <2> QED BY <2>3, <2>4
<1> QED BY <1>1, Inductive, ContentsCorrect, PTL

===========================================================================
