--------------------------- MODULE StringSplit ---------------------------
(***************************************************************************)
(* How string_merging.rs divides the input sections of an output section   *)
(* into groups and which strings it finds in each group; and what merging  *)
(* has to do with them, told of the sections alone.                        *)
(*                                                                         *)
(* A section is the sequence of its strings; a string is known by its      *)
(* identity and its length, the terminator included.  Offsets are linear:  *)
(* the sections of an output section are laid out one after the other,     *)
(* each one padded to a multiple of the block size of the offset map.      *)
(***************************************************************************)
EXTENDS StringMerging

CONSTANTS
  MapBlockSize,    \* MAP_BLOCK_SIZE
  TargetGroupSize, \* the group size, a multiple of the block size
  BucketOf,        \* the hash of a string modulo the number of buckets
  SectionLists     \* the input sections of an output section

(* A StringMergeInputSection.  Its last string may lack the terminator; a  *)
(* section that is not made of strings is one slice.                       *)
InputSection ==
  {sec \in [strings : Seq(String), is_string : BOOLEAN, terminated : BOOLEAN] :
     sec.strings # << >> /\ (~sec.is_string => Len(sec.strings) = 1)}

ASSUME SplitAssumption ==
  /\ MapBlockSize \in Nat \ {0}
  /\ TargetGroupSize \in Nat \ {0}
  /\ TargetGroupSize % MapBlockSize = 0
  /\ BucketOf \in [String -> Bucket]
  /\ SectionLists \subseteq Seq(InputSection)

(* Where the k-th string of a section starts.                              *)
StringStart(sec, k) ==
  LET size[n \in 0 .. Len(sec.strings)] ==
        IF n = 0 THEN 0 ELSE size[n - 1] + Length[sec.strings[n]]
  IN  size[k - 1]

DataLen(sec) == StringStart(sec, Len(sec.strings) + 1)
PaddedLen(sec) == ((DataLen(sec) + MapBlockSize - 1) \div MapBlockSize) * MapBlockSize

(* start_input_offset, of group_merge_string_sections_by_output; behind    *)
(* the last section, total_input_size.                                     *)
StartInputOffset(secs, i) ==
  LET size[n \in 0 .. Len(secs)] ==
        IF n = 0 THEN 0 ELSE size[n - 1] + PaddedLen(secs[n])
  IN  size[i - 1]

TotalInputSize(secs) == StartInputOffset(secs, Len(secs) + 1)

---------------------------------------------------------------------------
(* The inner loop of split_sections: a group that starts at offset start,  *)
(* in section i, takes sections until they fill its size or end.  The last *)
(* one is divided if it is made of strings and has more than remains.      *)
FillGroup(secs, i, start) ==
  LET taken(j) == StartInputOffset(secs, j + 1) - start
      last == Min({j \in i .. Len(secs) : taken(j) >= TargetGroupSize \/ j = Len(secs)})
      divided == taken(last) > TargetGroupSize /\ secs[last].is_string
  IN  [first |-> i, last |-> last, start |-> start,
       end |-> IF divided THEN start + TargetGroupSize ELSE start + taken(last),
       end_section |-> ~divided]

(* A divided section is the first one of the next group.                   *)
SectionAfter(group) == IF group.end_section THEN group.last + 1 ELSE group.last

(* The outer loop.  Each group has at least one byte.                      *)
PushGroup(secs, result) ==
  LET group == result[Len(result)]
  IN  IF SectionAfter(group) > Len(secs) THEN result
      ELSE Append(result, FillGroup(secs, SectionAfter(group), group.end))

SplitSections(secs) ==
  LET after[n \in 0 .. TotalInputSize(secs)] ==
        IF n = 0 THEN <<FillGroup(secs, 1, 0)>> ELSE PushGroup(secs, after[n - 1])
  IN  IF secs = << >> THEN << >> ELSE after[TotalInputSize(secs)]

---------------------------------------------------------------------------
(* The linear offset of a string.                                          *)
At(secs, i, k) == StartInputOffset(secs, i) + StringStart(secs[i], k)

InRange(group, offset) == group.start <= offset /\ offset < group.end

(* insert_data                                                             *)
InsertData(buckets, x) == [buckets EXCEPT ![BucketOf[x.string]] = Append(@, x)]

(* process_input_section: the strings of a section that start in the range *)
(* of a group, skipping the rest of a string that starts before it.        *)
ProcessInputSection(secs, i, group, buckets) ==
  LET after[k \in 0 .. Len(secs[i].strings)] ==
        IF k = 0 THEN buckets
        ELSE IF secs[i].is_string /\ ~InRange(group, At(secs, i, k)) THEN after[k - 1]
        ELSE InsertData(after[k - 1], [string |-> secs[i].strings[k], at |-> At(secs, i, k)])
  IN  after[Len(secs[i].strings)]

(* take_string_hashed fails on a string without terminator.                *)
Unterminated(secs, i, group) ==
  /\ secs[i].is_string /\ ~secs[i].terminated
  /\ InRange(group, At(secs, i, Len(secs[i].strings)))

(* process_input_section_group: the vectors of a group.                    *)
SplitGroup(secs, group) ==
  LET sections == group.last - group.first + 1
      after[n \in 0 .. sections] ==
        IF n = 0 THEN [b \in Bucket |-> << >>]
        ELSE ProcessInputSection(secs, group.first + n - 1, group, after[n - 1])
  IN  [strings |-> after[sections],
       fails |-> \E i \in group.first .. group.last : Unterminated(secs, i, group)]

GroupsOf(secs) ==
  LET split == SplitSections(secs)
  IN  [g \in DOMAIN split |-> SplitGroup(secs, split[g])]

---------------------------------------------------------------------------
(* All strings of the sections, and where one of them occurs first.        *)
AllStrings(secs) ==
  UNION {{[string |-> secs[i].strings[k], at |-> At(secs, i, k)] : k \in DOMAIN secs[i].strings} :
           i \in DOMAIN secs}

FirstAt(secs, s) == Min({x.at : x \in {y \in AllStrings(secs) : y.string = s}})

(* A reference into an input section is translated to the same byte of the *)
(* string it points into, wherever groups divide the section.              *)
ReferencesFollowed(secs) ==
  \A i \in DOMAIN secs : \A k \in DOMAIN secs[i].strings :
    LET s == secs[i].strings[k]
    IN  \A o \in 0 .. Length[s] - 1 :
          OutputAddress(StartInputOffset(secs, i), StringStart(secs[i], k) + o) = Place(BucketOf[s], s) + o

(* A bucket has the strings whose hashes name it, in the order in which    *)
(* the input has them first.                                               *)
BucketInInputOrder(secs, b) ==
  LET ss == bucket[b].strings
  IN  /\ {ss[n].string : n \in DOMAIN ss} = {x.string : x \in {y \in AllStrings(secs) : BucketOf[y.string] = b}}
      /\ \A m, n \in DOMAIN ss : m < n => FirstAt(secs, ss[m].string) < FirstAt(secs, ss[n].string)

(* merge_strings, find_string: every reference into a merged section, to   *)
(* the start of a string or into it, leads to the same byte of the same    *)
(* string, and the strings come in an order that depends neither on the    *)
(* schedule of the tasks nor on how the sections were divided into groups. *)
ReferencesReachTheirString ==
  merged.state = "done" =>
    \A secs \in SectionLists : groups = GroupsOf(secs) =>
      /\ ReferencesFollowed(secs)
      /\ \A b \in Bucket : BucketInInputOrder(secs, b)
==========================================================================
