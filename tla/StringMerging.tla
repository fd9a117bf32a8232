-------------------------- MODULE StringMerging --------------------------
(***************************************************************************)
(* The parallel merging of identical strings, add_input_sections of        *)
(* string_merging.rs, for one output section.                              *)
(*                                                                         *)
(* Input tasks split a group of input sections into strings and hash them  *)
(* into one vector per bucket.  Bucket tasks insert those vectors into the *)
(* bucket's map, group after group.  A vector is handed over through the   *)
(* slot of its group and bucket: whoever comes second, the input task with *)
(* the strings or the bucket that waits for them, makes the bucket go on.  *)
(* Input tasks are spawned only for vectors reserved from a pool that is   *)
(* shared by all sections; returning a vector lets the bucket task try to  *)
(* spawn more.                                                             *)
(*                                                                         *)
(* A step is one access to shared state: an atomic operation on the pool's *)
(* counter, a critical section of a slot's mutex, a pop of the queue of    *)
(* groups.  What a task computes on data that only it holds is part of the *)
(* step before it.                                                         *)
(***************************************************************************)
EXTENDS Integers, Sequences, FiniteSets, FiniteSetsExt

CONSTANTS
  NumBuckets,       \* MERGE_STRING_BUCKETS
  SplitParallelism, \* how many input tasks the pool has vectors for
  BucketLimit,      \* offsets a BucketOffset can represent, 1 << 28
  String,           \* the distinct strings, terminators included
  Length,           \* their lengths in bytes
  Inputs,           \* the input groups of the sections that are merged
  Main              \* the thread that spawns the first tasks

Bucket == 0 .. NumBuckets - 1

(* ReusePool::new(MERGE_STRING_BUCKETS * split_parallelism)                *)
Capacity == NumBuckets * SplitParallelism

(* StringToMerge: a string and the input offset whose output is recorded.  *)
StringToMerge == [string : String, at : Nat]

(* A SectionGroup by what splitting it yields: the vector of each bucket,  *)
(* and whether it ends with a string that has no terminator.               *)
SectionGroup == [strings : [Bucket -> Seq(StringToMerge)], fails : BOOLEAN]

(* The strings of the groups that go to a bucket.                          *)
StringsOf(gs, b) ==
  UNION {{gs[g].strings[b][i] : i \in DOMAIN gs[g].strings[b]} : g \in DOMAIN gs}

(* What splitting guarantees: the strings lie apart in the input, and      *)
(* identical strings go to the same bucket, the one their hash names.      *)
WellSplit(gs) ==
  \A b, c \in Bucket : \A x \in StringsOf(gs, b), y \in StringsOf(gs, c) :
    /\ \/ x = y
       \/ x.at + Length[x.string] <= y.at
       \/ y.at + Length[y.string] <= x.at
    /\ x.string = y.string => b = c

ASSUME PoolAssumption ==
  /\ NumBuckets \in Nat \ {0}
  /\ SplitParallelism \in Nat \ {0}
  /\ BucketLimit \in Nat \ {0}

ASSUME StringAssumption ==
  /\ Length \in [String -> Nat \ {0}]
  /\ Inputs \subseteq Seq(SectionGroup)
  /\ Main \notin Bucket

ASSUME WellSplitAssumption == \A gs \in Inputs : WellSplit(gs)

(* Those who run the spawning loop.                                        *)
Actor == Bucket \cup {Main}

VARIABLES
  groups,       \* the input groups, constant
  popped,       \* number of groups popped from the queue unprocessed
  available,    \* ReusePool::available
  stored,       \* number of vectors in ReusePool::string_vecs
  held,         \* the vectors taken and not returned, by group and bucket
  spawned,      \* input tasks that were spawned and have not started
  published,    \* number of buckets an input task has handed vectors to
  slot,         \* strings_by_bucket_and_group
  next,         \* MergeStringsSectionBucket::next_input_group_index
  bucket,       \* the strings and next_offset of each bucket
  offsets,      \* string_offsets and overflowed_string_offsets
  pc,           \* where the bucket tasks and the main thread are
  seen,         \* the value of available each actor loaded, 0 outside try_reserve
  error,        \* the queue of errors, which holds one
  merged        \* what add_input_sections ended with

vars == <<groups, popped, available, stored, held, spawned, published, slot,
          next, bucket, offsets, pc, seen, error, merged>>

GroupIndex == 1 .. Len(groups)
Vector == GroupIndex \X Bucket
Popped(g) == g <= popped

TypeOK ==
  /\ groups \in Seq(SectionGroup)
  /\ popped \in 0 .. Len(groups)
  /\ available \in Nat /\ stored \in Nat /\ spawned \in Nat
  /\ held \subseteq Vector
  /\ published \in [GroupIndex -> 0 .. NumBuckets]
  /\ slot \in [Vector -> {"Empty", "WaitingForStrings", "Strings"}]
  /\ next \in [Bucket -> 1 .. Len(groups) + 1]
  /\ pc \in [Actor -> {"load", "reserve", "slot", "merge", "return", "parked", "dropped", "finished"}]
  /\ pc[Main] \in {"load", "reserve", "finished"}
  /\ seen \in [Actor -> Nat]
  /\ error \in {"none", "unterminated", "too large"}

---------------------------------------------------------------------------
(* create_split_resources: every bucket waits in its slot of the first     *)
(* group.  The vectors that earlier sections left in the pool are reused.  *)
Init ==
  /\ groups \in Inputs
  /\ groups # << >>
  /\ popped = 0
  /\ available = Capacity
  /\ stored \in {0, Capacity}
  /\ held = {}
  /\ spawned = 0
  /\ published = [g \in GroupIndex |-> 0]
  /\ slot = [v \in Vector |-> IF v[1] = 1 THEN "WaitingForStrings" ELSE "Empty"]
  /\ next = [b \in Bucket |-> 1]
  /\ bucket = [b \in Bucket |-> [strings |-> << >>, next_offset |-> 0]]
  /\ offsets = {}
  /\ pc = [a \in Actor |-> IF a = Main THEN "load" ELSE "parked"]
  /\ seen = [a \in Actor |-> 0]
  /\ error = "none"
  /\ merged = [state |-> "running"]

(* ArrayQueue::new(1): a second error is dropped.                          *)
Push(e) == error' = IF error = "none" THEN e ELSE error

---------------------------------------------------------------------------
(* try_spawn_input_processing.  The main thread is done when it cannot     *)
(* reserve any more; a bucket goes on to its next group.                   *)
LeaveSpawning(a) ==
  /\ pc' = [pc EXCEPT ![a] = IF a = Main THEN "finished" ELSE "slot"]
  /\ next' = IF a = Main THEN next ELSE [next EXCEPT ![a] = @ + 1]
  /\ seen' = [seen EXCEPT ![a] = 0]

(* try_reserve, the load.                                                  *)
LoadAvailable(a) ==
  /\ pc[a] = "load"
  /\ available >= NumBuckets
  /\ seen' = [seen EXCEPT ![a] = available]
  /\ pc' = [pc EXCEPT ![a] = "reserve"]
  /\ UNCHANGED <<groups, popped, available, stored, held, spawned, published, slot,
                 next, bucket, offsets, error, merged>>

FindPoolEmpty(a) ==
  /\ pc[a] = "load"
  /\ available < NumBuckets
  /\ LeaveSpawning(a)
  /\ UNCHANGED <<groups, popped, available, stored, held, spawned, published, slot,
                 bucket, offsets, error, merged>>

(* try_reserve, the compare_exchange, and the spawn of the task it allows. *)
ReserveAndSpawn(a) ==
  /\ pc[a] = "reserve"
  /\ available = seen[a]
  /\ available' = available - NumBuckets
  /\ spawned' = spawned + 1
  /\ pc' = [pc EXCEPT ![a] = "load"]
  /\ seen' = [seen EXCEPT ![a] = 0]
  /\ UNCHANGED <<groups, popped, stored, held, published, slot,
                 next, bucket, offsets, error, merged>>

LoseReservation(a) ==
  /\ pc[a] = "reserve"
  /\ available # seen[a]
  /\ LeaveSpawning(a)
  /\ UNCHANGED <<groups, popped, available, stored, held, spawned, published, slot,
                 bucket, offsets, error, merged>>

---------------------------------------------------------------------------
(* A reservation that is not given back.                                   *)
FindNoGroupKept ==
  /\ spawned > 0
  /\ popped = Len(groups)
  /\ spawned' = spawned - 1
  /\ UNCHANGED <<groups, popped, available, stored, held, published, slot,
                 next, bucket, offsets, pc, seen, error, merged>>

(* An input task that finds no group gives its reservation back.           *)
FindNoGroup ==
  /\ spawned > 0
  /\ popped = Len(groups)
  /\ spawned' = spawned - 1
  /\ available' = available + NumBuckets
  /\ UNCHANGED <<groups, popped, stored, held, published, slot,
                 next, bucket, offsets, pc, seen, error, merged>>

(* process_input_section_group up to the hand-over: pop a group, take a    *)
(* vector for each bucket, from the pool while it has any, and split the   *)
(* group's sections.  A string without terminator ends the task; its       *)
(* vectors are dropped and never return to the pool.                       *)
ProcessInputSectionGroup ==
  /\ spawned > 0
  /\ popped < Len(groups)
  /\ LET g == popped + 1
     IN  /\ popped' = g
         /\ IF groups[g].fails
            THEN Push("unterminated") /\ UNCHANGED held
            ELSE held' = held \cup ({g} \X Bucket) /\ UNCHANGED error
  /\ stored' = IF stored < NumBuckets THEN 0 ELSE stored - NumBuckets
  /\ spawned' = spawned - 1
  /\ UNCHANGED <<groups, available, published, slot, next, bucket, offsets, pc, seen, merged>>

(* A hand-over that forgets the bucket it finds in the slot.               *)
PublishStringsSilently(g) ==
  /\ Popped(g) /\ ~groups[g].fails
  /\ published[g] < NumBuckets
  /\ slot' = [slot EXCEPT ![<<g, published[g]>>] = "Strings"]
  /\ published' = [published EXCEPT ![g] = @ + 1]
  /\ UNCHANGED <<groups, popped, available, stored, held, spawned,
                 next, bucket, offsets, pc, seen, error, merged>>

(* The hand-over to the next bucket: swap the strings into the slot and,   *)
(* if the bucket was waiting there, spawn a task for it.                   *)
PublishStrings(g) ==
  /\ Popped(g) /\ ~groups[g].fails
  /\ published[g] < NumBuckets
  /\ LET b == published[g]
     IN  /\ slot' = [slot EXCEPT ![<<g, b>>] = "Strings"]
         /\ pc' = IF slot[<<g, b>>] = "WaitingForStrings" THEN [pc EXCEPT ![b] = "slot"] ELSE pc
  /\ published' = [published EXCEPT ![g] = @ + 1]
  /\ UNCHANGED <<groups, popped, available, stored, held, spawned,
                 next, bucket, offsets, seen, error, merged>>

---------------------------------------------------------------------------
(* work_with_bucket: take the strings of the next group, or wait for them  *)
(* in the slot, or put the bucket with the finished ones.                  *)
TakeStrings(b) ==
  /\ pc[b] = "slot"
  /\ next[b] <= Len(groups)
  /\ slot[<<next[b], b>>] = "Strings"
  /\ slot' = [slot EXCEPT ![<<next[b], b>>] = "Empty"]
  /\ pc' = [pc EXCEPT ![b] = "merge"]
  /\ UNCHANGED <<groups, popped, available, stored, held, spawned, published,
                 next, bucket, offsets, seen, error, merged>>

WaitForStrings(b) ==
  /\ pc[b] = "slot"
  /\ next[b] <= Len(groups)
  /\ slot[<<next[b], b>>] # "Strings"
  /\ slot' = [slot EXCEPT ![<<next[b], b>>] = "WaitingForStrings"]
  /\ pc' = [pc EXCEPT ![b] = "parked"]
  /\ UNCHANGED <<groups, popped, available, stored, held, spawned, published,
                 next, bucket, offsets, seen, error, merged>>

FinishBucket(b) ==
  /\ pc[b] = "slot"
  /\ next[b] > Len(groups)
  /\ pc' = [pc EXCEPT ![b] = "finished"]
  /\ UNCHANGED <<groups, popped, available, stored, held, spawned, published, slot,
                 next, bucket, offsets, seen, error, merged>>

(* add_string: the offset of a string in its bucket, a new one if no       *)
(* identical string was added before.                                      *)
Known(bk, s) == {i \in DOMAIN bk.strings : bk.strings[i].string = s}

(* A string that is counted without its terminator.                        *)
AddStringShort(bk, s) ==
  IF Known(bk, s) # {}
    THEN bk
    ELSE [strings |-> Append(bk.strings, [string |-> s, offset |-> bk.next_offset]),
          next_offset |-> bk.next_offset + Length[s] - 1]

(* add_string.                                                             *)
AddString(bk, s) ==
  IF Known(bk, s) # {}
    THEN bk
    ELSE [strings |-> Append(bk.strings, [string |-> s, offset |-> bk.next_offset]),
          next_offset |-> bk.next_offset + Length[s]]

OffsetIn(bk, s) == bk.strings[CHOOSE i \in Known(bk, s) : TRUE].offset

(* A bucket after the first n strings of a vector.                         *)
AddStrings(bk, strings) ==
  LET after[n \in 0 .. Len(strings)] ==
        IF n = 0 THEN bk ELSE AddString(after[n - 1], strings[n].string)
  IN  after[Len(strings)]

(* What a bucket holds when it takes the groups one after the other.       *)
BucketAfter(gs, b) ==
  LET after[n \in 0 .. Len(gs)] ==
        IF n = 0 THEN [strings |-> << >>, next_offset |-> 0]
        ELSE AddStrings(after[n - 1], gs[n].strings[b])
  IN  after

(* BucketOffset::new: the bucket's number in the bits above the offset.    *)
BucketOffset(offset, b) == b * BucketLimit + offset

(* process_split_output: record where each string of the vector went.      *)
ProcessSplitOutput(b) ==
  /\ pc[b] = "merge"
  /\ LET strings == groups[next[b]].strings[b]
         bk == AddStrings(bucket[b], strings)
         placed == {[at |-> strings[i].at,
                     output |-> BucketOffset(OffsetIn(bk, strings[i].string), b)] : i \in DOMAIN strings}
     IN  IF \E i \in DOMAIN strings : OffsetIn(bk, strings[i].string) >= BucketLimit
         THEN /\ Push("too large")
              /\ pc' = [pc EXCEPT ![b] = "dropped"]
              /\ UNCHANGED <<bucket, offsets>>
         ELSE /\ bucket' = [bucket EXCEPT ![b] = bk]
              /\ offsets' = offsets \cup placed
              /\ pc' = [pc EXCEPT ![b] = "return"]
              /\ UNCHANGED error
  /\ UNCHANGED <<groups, popped, available, stored, held, spawned, published, slot,
                 next, seen, merged>>

(* A bucket that goes on without trying to spawn input tasks.              *)
ReturnStringsOnly(b) ==
  /\ pc[b] = "return"
  /\ stored' = stored + 1
  /\ available' = available + 1
  /\ held' = held \ {<<next[b], b>>}
  /\ pc' = [pc EXCEPT ![b] = "slot"]
  /\ next' = [next EXCEPT ![b] = @ + 1]
  /\ UNCHANGED <<groups, popped, spawned, published, slot,
                 bucket, offsets, seen, error, merged>>

(* return_strings_to_merge; the spawning loop follows.                     *)
ReturnStrings(b) ==
  /\ pc[b] = "return"
  /\ stored' = stored + 1
  /\ available' = available + 1
  /\ held' = held \ {<<next[b], b>>}
  /\ pc' = [pc EXCEPT ![b] = "load"]
  /\ UNCHANGED <<groups, popped, spawned, published, slot,
                 next, bucket, offsets, seen, error, merged>>

---------------------------------------------------------------------------
(* The scope is over when no task is left: none to start, none running.    *)
ScopeOver ==
  /\ spawned = 0
  /\ \A g \in GroupIndex : Popped(g) => (groups[g].fails \/ published[g] = NumBuckets)
  /\ pc[Main] = "finished"
  /\ \A b \in Bucket : pc[b] \in {"parked", "dropped", "finished"}

(* The starting offset of each bucket in the section.                      *)
BucketStart ==
  [b \in Bucket |->
     LET upTo[n \in Bucket] == IF n = 0 THEN 0 ELSE upTo[n - 1] + bucket[n - 1].next_offset
     IN  upTo[b]]

(* The end of add_input_sections.  The buckets are indexed, which panics   *)
(* when one of them did not finish.                                        *)
FinaliseSection ==
  /\ merged.state = "running"
  /\ ScopeOver
  /\ merged' = IF error # "none" THEN [state |-> "error"]
               ELSE IF \E b \in Bucket : pc[b] # "finished" THEN [state |-> "panic"]
               ELSE [state |-> "done", bucket_offsets |-> BucketStart]
  /\ UNCHANGED <<groups, popped, available, stored, held, spawned, published, slot,
                 next, bucket, offsets, pc, seen, error>>

Ended ==
  /\ merged.state # "running"
  /\ UNCHANGED vars

Spawning(a) ==
  \/ LoadAvailable(a)
  \/ FindPoolEmpty(a)
  \/ ReserveAndSpawn(a)
  \/ LoseReservation(a)

BucketTask(b) ==
  \/ TakeStrings(b)
  \/ WaitForStrings(b)
  \/ FinishBucket(b)
  \/ ProcessSplitOutput(b)
  \/ ReturnStrings(b)

Next ==
  \/ \E a \in Actor : Spawning(a)
  \/ FindNoGroup
  \/ ProcessInputSectionGroup
  \/ \E g \in GroupIndex : PublishStrings(g)
  \/ \E b \in Bucket : BucketTask(b)
  \/ FinaliseSection
  \/ Ended

(* Tasks that were spawned run, and a running task goes on. Nothing says   *)
(* which of two threads is faster.                                         *)
Fairness ==
  /\ \A a \in Actor : WF_vars(Spawning(a))
  /\ WF_vars(FindNoGroup)
  /\ WF_vars(ProcessInputSectionGroup)
  /\ WF_vars(\E g \in GroupIndex : PublishStrings(g))
  /\ \A b \in Bucket : WF_vars(BucketTask(b))
  /\ WF_vars(FinaliseSection)

Spec == Init /\ [][Next]_vars /\ Fairness

---------------------------------------------------------------------------
(* find_string without the search for the string around an offset.         *)
FindStringAt(start, offset) ==
  IF \E x \in offsets : x.at = start + offset
  THEN (CHOOSE x \in offsets : x.at = start + offset).output
  ELSE 0

(* find_string: the recorded offset of the string at a linear offset or,   *)
(* searching backwards within the section, of the one that contains it.    *)
(* The sum is one of u32, whose values are the offsets of all buckets.     *)
FindString(start, offset) ==
  LET found == {o \in 0 .. offset : \E x \in offsets : x.at = start + o}
      from == Max(found)
      output == (CHOOSE x \in offsets : x.at = start + from).output
  IN  (output + (offset - from)) % (NumBuckets * BucketLimit)

(* unnamed_address: BucketOffset's two parts, and the bucket's address.    *)
OutputAddress(start, offset) ==
  LET bo == FindString(start, offset)
  IN  merged.bucket_offsets[bo \div BucketLimit] + (bo % BucketLimit)

---------------------------------------------------------------------------
(* The scope ends with an error or with all of the work done.  Nothing     *)
(* waits for a group or a bucket: a task is spawned only by somebody who   *)
(* leaves the spawning loop when he finds too few vectors or loses a race, *)
(* and a bucket parked in a slot is woken only by the task that fills it.  *)
ScopeEndsComplete ==
  ScopeOver /\ error = "none" => /\ popped = Len(groups)
                                 /\ \A b \in Bucket : pc[b] = "finished"

(* ReusePool: the vectors are reserved, in use or available until an error *)
(* loses some, so that all of them are available again for the next        *)
(* section, as merge_strings asserts; and the queue of stored vectors has  *)
(* room for each one that is returned, as return_strings_to_merge asserts. *)
PoolBalanced ==
  /\ error = "none" => available + NumBuckets * spawned + Cardinality(held) = Capacity
  /\ stored + Cardinality(held) <= Capacity

(* The address of a string in the merged section.                          *)
Place(b, s) == merged.bucket_offsets[b] + OffsetIn(bucket[b], s)

MergedInOrder == \A b \in Bucket : bucket[b] = BucketAfter(groups, b)[Len(groups)]

StringsApart ==
  \A b, c \in Bucket : \A x \in StringsOf(groups, b), y \in StringsOf(groups, c) :
    \/ x.string = y.string
    \/ Place(b, x.string) + Length[x.string] <= Place(c, y.string)
    \/ Place(c, y.string) + Length[y.string] <= Place(b, x.string)

ReferencesFollow(b) ==
  \A x \in StringsOf(groups, b) :
    \A start \in 0 .. x.at, o \in x.at .. x.at + Length[x.string] - 1 :
      OutputAddress(start, o - start) = Place(b, x.string) + (o - x.at)

(* The merged section is the one that taking the groups in order would     *)
(* give, whatever order the tasks ran in.  It has one place for identical  *)
(* strings and places that do not overlap for different ones, and          *)
(* find_string translates each reference to a string or into it to the     *)
(* same byte at that place, from wherever its section starts, in every     *)
(* bucket that ends within the offsets BucketOffset can represent.         *)
StringsMerged ==
  merged.state = "done" =>
    /\ MergedInOrder
    /\ StringsApart
    /\ \A b \in Bucket : bucket[b].next_offset <= BucketLimit => ReferencesFollow(b)

(* The task a runs the loop of try_spawn_input_processing.                 *)
InSpawningLoop(a) == pc[a] \in {"load", "reserve"}

(* add_input_sections returns, with an error or with the merged section,   *)
(* whoever is faster. The one exception is a thread that stays in the      *)
(* spawning loop when there are no groups left, in lockstep with others    *)
(* that run what it spawns and give the vectors back.                      *)
EndsUnlessSpawning ==
  \/ <>(merged.state \in {"done", "error"})
  \/ \E a \in Actor : <>[](popped = Len(groups) /\ InSpawningLoop(a))
==========================================================================
