------------------------ MODULE InputLoading_proofs ------------------------
(***************************************************************************)
(* Proofs about InputLoading: every load index that is handed out ends in  *)
(* one recorded file, so that putting the files in order by their indexes  *)
(* cannot panic, and a link that succeeds used only inputs that did not    *)
(* change between their opening and the verification.                      *)
(*                                                                         *)
(* The first rests on an invariant about who holds an index: at any time   *)
(* exactly one of a waiting request, a running task and a recorded file.   *)
(* The second rests on what extract_file keeps: for each record that goes  *)
(* into the loaded inputs, the file it was read from, as it was when it    *)
(* was opened, is among the files that will be verified.                   *)
(*                                                                         *)
(* That loading implements SequentialLoading rests on two more: each file  *)
(* got the indexes of the paths it asked for, in their order, whoever      *)
(* claimed them (OpeningOrder), and extract_all reaches every file before  *)
(* its last pass, which therefore finds nothing (ExtractionOrder).         *)
(***************************************************************************)
EXTENDS LoadingOrder, TLAPS, FiniteSetTheorems, NaturalsInduction, WellFoundedInduction

Version == 0 .. 1
Index == 0 .. next_index - 1

InputFile == [path : Path, version : Version]
Record == [path : Path, kind : FileKind, version : Version, modifiers : Modifiers]

Request == [index : Nat, path : Path, modifiers : Modifiers]
Task == [index : Nat, path : Path, records : Seq(Record), input_files : Seq(InputFile),
         asks : Seq(Input), indexes : Seq(Nat)]
FailedFile == [index : Nat, path : Path, error : {TRUE}]
GoodFile == [index : Nat, path : Path, error : {FALSE}, records : Seq(Record),
             input_files : Seq(InputFile), indexes : Seq(Nat)]

(* The type invariant of FileLoader and the state it shares with its       *)
(* tasks.                                                                  *)
TypeOK ==
  /\ world \in World
  /\ version \in [Path -> Version]
  /\ phase \in {"start", "open", "extract", "verify", "end"}
  /\ claimed \in [Path -> Nat \cup {NoPath}]
  /\ next_index \in Nat
  /\ initial_count \in Nat
  /\ requests \subseteq Request
  /\ running \subseteq Task
  /\ files \subseteq FailedFile \cup GoodFile
  /\ work \in Seq(Nat)
  /\ pending \in Seq(Nat)
  /\ loaded \in Seq(Record)
  /\ loaded_files \in Seq(InputFile)

(* Indexes that are spoken of have been handed out.                        *)
Known ==
  /\ initial_count <= next_index
  /\ next_index > 0 => world.inputs # << >>
  /\ \A p \in Path : claimed[p] # NoPath => claimed[p] \in Index
  /\ \A r \in requests : r.index \in Index
  /\ \A t \in running : t.index \in Index /\ \A i \in DOMAIN t.indexes : t.indexes[i] \in Index
  /\ \A f \in files : f.index \in Index
  /\ \A f \in files : ~f.error => \A i \in DOMAIN f.indexes : f.indexes[i] \in Index
  /\ \A i \in DOMAIN work : work[i] \in Index
  /\ \A i \in DOMAIN pending : pending[i] \in Index

(* No two hold the same index, and each index has somebody who holds it.   *)
HeldOnce ==
  /\ \A x, y \in requests : x.index = y.index => x = y
  /\ \A x, y \in running : x.index = y.index => x = y
  /\ \A x, y \in files : x.index = y.index => x = y
  /\ \A x \in requests : \A y \in running \cup files : x.index # y.index
  /\ \A x \in running : \A y \in files : x.index # y.index

AllHeld == \A i \in Index : \E x \in requests \cup running \cup files : x.index = i

(* When nothing has begun there is nothing to hold, and once the scope has *)
(* ended no task is left.                                                  *)
Phases ==
  /\ phase = "start" => next_index = 0
  /\ phase \notin {"start", "open"} => requests = {} /\ running = {}

(* Each record was read from one of the files, as that file was opened.    *)
Backed(records, input_files) ==
  \A i \in DOMAIN records : \E j \in DOMAIN input_files :
    input_files[j] = [path |-> records[i].path, version |-> records[i].version]

AllBacked ==
  /\ \A t \in running : Backed(t.records, t.input_files)
  /\ \A f \in files : ~f.error => Backed(f.records, f.input_files)
  /\ Backed(loaded, loaded_files)

(* What was verified has not changed since.                                *)
Verified ==
  phase = "end" /\ result.state = "loaded" =>
    \A i \in DOMAIN loaded_files : loaded_files[i].version = version[loaded_files[i].path]

(* path_to_load_index says which index a path that was asked for has.      *)
Claimed == \A x \in requests \cup running \cup files : claimed[x.path] = x.index

IInv == TypeOK /\ Known /\ HeldOnce /\ AllHeld /\ Phases /\ AllBacked /\ Verified

(* files_by_index is never indexed beyond its end.                         *)
NeverPanics == result.state # "panic"

(* No path is opened a second time, whoever asks for it.                   *)
OpenedOnce ==
  \A x, y \in requests \cup running \cup files : x.path = y.path => x = y

---------------------------------------------------------------------------
(* What makes the order of the inputs that of one thread.                  *)
Lists(s, x) == \E k \in DOMAIN s : s[k] = x

(* An open file asks for its inputs in their order, and the indexes it got *)
(* are those of the paths.                                                 *)
Answered(p, indexes) ==
  \A k \in DOMAIN indexes :
    /\ k \in DOMAIN AskedBy(p)
    /\ PathOf(AskedBy(p)[k]) # NoPath
    /\ indexes[k] = claimed[PathOf(AskedBy(p)[k])]

RequestOrder == \A r \in requests : r.path \in Reached /\ r.modifiers = ModifiersOf(r.path)

TaskInOrder(t) ==
  /\ t.path \in Reached
  /\ ~OpenFails(world.files[t.path], ModifiersOf(t.path))
  /\ Contents(t.records) = Holds(t.path).records
  /\ Answered(t.path, t.indexes)
  /\ Len(t.indexes) + Len(t.asks) = Len(AskedBy(t.path))
  /\ \A k \in DOMAIN t.asks : t.asks[k] = AskedBy(t.path)[Len(t.indexes) + k]

FileInOrder(f) ==
  /\ f.path \in Reached
  /\ f.error <=> Holds(f.path).fails
  /\ ~f.error => /\ Contents(f.records) = Holds(f.path).records
                 /\ Len(f.indexes) = Len(AskedBy(f.path))
                 /\ Answered(f.path, f.indexes)

AllInOrder ==
  /\ \A t \in running : TaskInOrder(t)
  /\ \A f \in files : FileInOrder(f)

(* An index that was handed out for a path is held with that path.         *)
ClaimHeld ==
  \A q \in Path : claimed[q] # NoPath => \E x \in requests \cup running \cup files : x.path = q

(* The files of the command line have the first indexes.                   *)
InputOrder ==
  phase \in {"open", "extract"} =>
    /\ \A i \in DOMAIN world.inputs : PathOf(world.inputs[i]) # NoPath
    /\ initial_count = Cardinality(FirstInputs)
    /\ \A i \in FirstInputs : claimed[PathOf(world.inputs[i])] = LoadIndex(i)

(* Whoever asks for a file first has a smaller index; it may have failed   *)
(* since.                                                                  *)
Origin ==
  \A i \in Index : i >= initial_count =>
    \/ \E t \in running : t.index < i /\ Lists(t.indexes, i)
    \/ \E f \in files : f.index < i /\ (f.error \/ Lists(f.indexes, i))

OpeningOrder == RequestOrder /\ AllInOrder /\ ClaimHeld /\ InputOrder /\ Origin

(* Every file that is yet to be extracted waits behind one of the files    *)
(* extract_all will visit, so the safety net of the last pass catches      *)
(* nothing.                                                                *)
Coming(i) == i \in taken \/ Lists(work, i)

ExtractionOrder ==
  /\ pass \in {1, 2, 3} /\ taken \subseteq Index
  /\ phase \in {"start", "open"} =>
       result = [state |-> "none"] /\ pass = 1 /\ taken = {} /\ work = << >> /\ pending = << >> /\ loaded = << >>
  /\ phase = "extract" =>
       /\ result = [state |-> "none"]
       /\ \A i \in taken : ~FileAt(i).error
       /\ pass # 3 => /\ \A i \in Index : i < initial_count => Coming(i)
                      /\ \A i \in taken : \A k \in DOMAIN FileAt(i).indexes :
                           Coming(FileAt(i).indexes[k]) \/ Lists(pending, FileAt(i).indexes[k])
       /\ pass = 3 => taken = Index /\ pending = << >>
  /\ phase \in {"verify", "end"} => result.state # "none"

(* With ModifiersAgree, which speaks of constants.                         *)
SequenceInv == IInv /\ Claimed /\ ModifiersAgree /\ OpeningOrder /\ ExtractionOrder

---------------------------------------------------------------------------
(* The elements of a finite set of numbers, each with the number of those  *)
(* below it: a bijection to the first numbers.                             *)
LEMMA Ranks ==
  ASSUME NEW S, S \subseteq Nat, IsFiniteSet(S)
  PROVE  /\ Cardinality(S) \in Nat
         /\ \A i \in S : Cardinality({j \in S : j < i}) \in 0 .. Cardinality(S) - 1
         /\ \A i, k \in S : Cardinality({j \in S : j < i}) = Cardinality({j \in S : j < k}) => i = k
         /\ \A n \in 0 .. Cardinality(S) - 1 : \E i \in S : Cardinality({j \in S : j < i}) = n
<1> DEFINE B(i) == {j \in S : j < i}
           c == Cardinality(S)
           T == 0 .. c - 1
           rank == [i \in S |-> Cardinality(B(i))]
<1>1. c \in Nat
  BY FS_CardinalityType
<1>2. \A i \in S : IsFiniteSet(B(i)) /\ Cardinality(B(i)) \in Nat
  <2> TAKE i \in S
  <2>1. B(i) \in SUBSET S
    OBVIOUS
  <2>2. IsFiniteSet(B(i))
    BY <2>1, FS_Subset
  <2> QED BY <2>2, FS_CardinalityType
<1>3. \A i \in S : Cardinality(B(i)) \in T
  <2> TAKE i \in S
  <2>1. B(i) \in SUBSET S /\ i \notin B(i)
    OBVIOUS
  <2>2. Cardinality(B(i)) <= c /\ c # Cardinality(B(i))
    BY <2>1, FS_Subset
  <2> QED BY <2>2, <1>1, <1>2
<1>4. \A i, k \in S : i < k => Cardinality(B(i)) # Cardinality(B(k))
  <2> TAKE i, k \in S
  <2> HAVE i < k
  <2>1. i \in B(k) /\ i \notin B(i)
    OBVIOUS
  <2>2. ASSUME NEW j \in S, j < i
        PROVE  j < k
    <3>1. i \in Nat /\ j \in Nat /\ k \in Nat
      OBVIOUS
    <3> QED BY <2>2, <3>1
  <2>3. B(i) \in SUBSET B(k)
    BY <2>2
  <2> QED BY <2>1, <2>3, <1>2, FS_Subset
<1>5. \A i, k \in S : Cardinality(B(i)) = Cardinality(B(k)) => i = k
  BY <1>4
<1>6. rank \in Injection(S, T)
  BY <1>3, <1>5 DEF Injection, IsInjective
<1>7. IsFiniteSet(T) /\ Cardinality(T) = c
  <2> HIDE DEF c
  <2> QED BY <1>1, FS_Interval
<1> HIDE DEF T, rank
<1>8. rank \in Surjection(S, T)
  BY <1>6, <1>7, FS_Injection
<1>9. \A n \in T : \E i \in S : Cardinality(B(i)) = n
  BY <1>8 DEF Surjection, rank
<1> QED BY <1>1, <1>3, <1>5, <1>9 DEF T

(* As many records as there are indexes, when each index has exactly one.  *)
LEMMA OnePerIndex ==
  ASSUME NEW S, NEW n \in Nat,
         \A x \in S : x.index \in 0 .. n - 1,
         \A x, y \in S : x.index = y.index => x = y,
         \A i \in 0 .. n - 1 : \E x \in S : x.index = i
  PROVE  IsFiniteSet(S) /\ Cardinality(S) = n
<1> DEFINE T == 0 .. n - 1
           at == [x \in S |-> x.index]
<1>1. at \in Injection(S, T)
  BY DEF Injection, IsInjective
<1>2. at \in Surjection(S, T)
  BY DEF Surjection
<1>3. IsFiniteSet(T) /\ Cardinality(T) = n
  BY FS_Interval
<1> HIDE DEF T, at
<1> QED BY <1>1, <1>2, <1>3, FS_Injection

(* What was read from the files a list names stays backed when lists are   *)
(* joined.                                                                 *)
LEMMA JoinBacked ==
  ASSUME NEW a \in Seq(Record), NEW b \in Seq(Record),
         NEW c \in Seq(InputFile), NEW d \in Seq(InputFile),
         Backed(a, c), Backed(b, d)
  PROVE  Backed(a \o b, c \o d)
<1> SUFFICES ASSUME NEW i \in DOMAIN (a \o b)
             PROVE  \E j \in DOMAIN (c \o d) :
                      (c \o d)[j] = [path |-> (a \o b)[i].path, version |-> (a \o b)[i].version]
  BY DEF Backed
<1>1. CASE i \in 1 .. Len(a)
  <2>0. i \in DOMAIN a
    BY <1>1
  <2>1. PICK j \in DOMAIN c : c[j] = [path |-> a[i].path, version |-> a[i].version]
    BY <2>0, Zenon DEF Backed
  <2>2. (a \o b)[i] = a[i] /\ j \in DOMAIN (c \o d) /\ (c \o d)[j] = c[j]
    BY <1>1
  <2> QED BY <2>1, <2>2
<1>2. CASE i \notin 1 .. Len(a)
  <2>1. i - Len(a) \in DOMAIN b /\ (a \o b)[i] = b[i - Len(a)]
    BY <1>2
  <2>2. PICK j \in DOMAIN d : d[j] = [path |-> b[i - Len(a)].path, version |-> b[i - Len(a)].version]
    BY <2>1 DEF Backed
  <2>3. Len(c) + j \in DOMAIN (c \o d) /\ (c \o d)[Len(c) + j] = d[j]
    OBVIOUS
  <2> QED BY <2>1, <2>2, <2>3
<1> QED BY <1>1, <1>2

(* Numbers of a range stay in the range when lists are joined.             *)
LEMMA JoinIndexes ==
  ASSUME NEW a \in Seq(Nat), NEW b \in Seq(Nat), NEW S,
         \A i \in DOMAIN a : a[i] \in S,
         \A i \in DOMAIN b : b[i] \in S
  PROVE  a \o b \in Seq(Nat) /\ \A i \in DOMAIN (a \o b) : (a \o b)[i] \in S
<1>1. a \o b \in Seq(Nat)
  OBVIOUS
<1>2. ASSUME NEW i \in DOMAIN (a \o b)
      PROVE  (a \o b)[i] \in S
  <2>1. CASE i \in 1 .. Len(a)
    BY <2>1
  <2>2. CASE i \notin 1 .. Len(a)
    <3>1. i - Len(a) \in DOMAIN b /\ (a \o b)[i] = b[i - Len(a)]
      BY <2>2
    <3> QED BY <3>1
  <2> QED BY <2>1, <2>2
<1> QED BY <1>1, <1>2

(* The elements of a list.                                                 *)
LEMMA Elements ==
  ASSUME NEW S, NEW s \in Seq(S)
  PROVE  \A i \in DOMAIN s : s[i] \in S
OBVIOUS

(* The list without its first.                                             *)
LEMMA TailIndexes ==
  ASSUME NEW a \in Seq(Nat), a # << >>, NEW S,
         \A i \in DOMAIN a : a[i] \in S
  PROVE  /\ Head(a) \in Nat /\ Head(a) \in S
         /\ Tail(a) \in Seq(Nat) /\ \A i \in DOMAIN Tail(a) : Tail(a)[i] \in S
<1>1. Len(a) > 0 /\ Tail(a) \in Seq(Nat) /\ Len(Tail(a)) = Len(a) - 1
  OBVIOUS
<1>2. \A i \in DOMAIN Tail(a) : i + 1 \in DOMAIN a /\ Tail(a)[i] = a[i + 1]
  OBVIOUS
<1>3. Head(a) = a[1] /\ 1 \in DOMAIN a
  OBVIOUS
<1> QED BY <1>1, <1>2, <1>3

---------------------------------------------------------------------------
(* What the operators of the model yield.                                  *)
LEMMA PathOfType ==
  ASSUME TypeOK, NEW input \in Input
  PROVE  PathOf(input) \in Path \cup {NoPath}
<1>1. world.found[input.spec] \in [shared : Path \cup {NoPath}, other : Path \cup {NoPath}]
  BY DEF TypeOK, World, Input
<1> QED BY <1>1 DEF PathOf

LEMMA FileType ==
  ASSUME TypeOK, NEW p \in Path
  PROVE  /\ world.files[p].kind \in FileKind
         /\ world.files[p].refs \in Refs
         /\ world.files[p].kind = "thin" => world.files[p].members \in Seq(Path)
         /\ world.files[p].kind # "thin" => world.files[p].members \in Seq(FileKind)
<1>1. world.files[p] \in File
  BY DEF TypeOK, World
<1> DEFINE f == world.files[p]
<1> HIDE DEF f
<1>2. f \in File
  BY <1>1 DEF f
<1>3. CASE f \in [kind : FileKind \ {"thin"}, refs : Refs, members : Seq(FileKind)]
  BY <1>3 DEF f
<1>4. CASE f \in [kind : {"thin"}, refs : Refs, members : Seq(Path)]
  BY <1>4 DEF f, FileKind
<1> QED BY <1>2, <1>3, <1>4 DEF File

LEMMA AsksType ==
  ASSUME TypeOK, world.inputs # << >>, NEW p \in Path, NEW modifiers \in Modifiers
  PROVE  Asks(world.files[p], modifiers) \in Seq(Input)
<1> DEFINE f == world.files[p]
<1> HIDE DEF f
<1>1. f.refs \in Refs
  BY FileType DEF f
<1>2. \A i \in DOMAIN f.refs : f.refs[i].spec \in InputSpec /\ f.refs[i].as_needed \in BOOLEAN
  <2>1. \A i \in DOMAIN f.refs : f.refs[i] \in [spec : InputSpec, as_needed : BOOLEAN]
    BY <1>1, Elements DEF Refs
  <2> QED BY <2>1, Zenon
<1>3. DeplibModifiers \in Modifiers
  <2>1. world.inputs \in Seq(Input)
    BY DEF TypeOK, World
  <2>2. world.inputs[Len(world.inputs)] \in Input
    BY <2>1
  <2> QED BY <2>2 DEF DeplibModifiers, Input, Modifiers
<1>4. \A i \in DOMAIN f.refs :
        [modifiers EXCEPT !.as_needed = @ \/ f.refs[i].as_needed] \in Modifiers
  BY <1>2 DEF Modifiers
<1>5. \A i \in DOMAIN f.refs :
        [spec |-> f.refs[i].spec,
         modifiers |-> [modifiers EXCEPT !.as_needed = @ \/ f.refs[i].as_needed]] \in Input
  BY <1>2, <1>4 DEF Input
<1>6. \A i \in DOMAIN f.refs : [spec |-> f.refs[i].spec, modifiers |-> DeplibModifiers] \in Input
  BY <1>2, <1>3 DEF Input
<1>7. DOMAIN f.refs = 1 .. Len(f.refs) /\ Len(f.refs) \in Nat
  BY <1>1 DEF Refs
<1>8. Asks(f, modifiers) \in Seq(Input)
  BY <1>5, <1>6, <1>7 DEF Asks
<1> QED BY <1>8 DEF f

(* The files extraction remembers for a file that was opened.              *)
OpenedFiles(p) ==
  IF world.files[p].kind = "thin"
  THEN [i \in DOMAIN world.files[p].members |-> Opened(world.files[p].members[i])]
  ELSE <<Opened(p)>>

LEMMA RecordsBacked ==
  ASSUME TypeOK, NEW p \in Path, NEW modifiers \in Modifiers
  PROVE  /\ Records(p, world.files[p], modifiers) \in Seq(Record)
         /\ OpenedFiles(p) \in Seq(InputFile)
         /\ Backed(Records(p, world.files[p], modifiers), OpenedFiles(p))
<1> DEFINE f == world.files[p]
           records == Records(p, f, modifiers)
           opened == OpenedFiles(p)
<1>1. \A q \in Path : Opened(q) \in InputFile /\ world.files[q].kind \in FileKind /\ version[q] \in Version
  BY FileType DEF TypeOK, Opened, InputFile, Version
<1>2. CASE f.kind = "thin"
  <2>1. f.members \in Seq(Path)
    BY <1>2, FileType
  <2>2. [modifiers EXCEPT !.archive_semantics = TRUE] \in Modifiers
    BY DEF Modifiers
  <2> DEFINE m == [modifiers EXCEPT !.archive_semantics = TRUE]
  <2>3. records = [i \in DOMAIN f.members |->
                     [path |-> f.members[i], kind |-> world.files[f.members[i]].kind,
                      version |-> version[f.members[i]], modifiers |-> m]]
    BY <1>2 DEF Records, MemberKind
  <2>4. opened = [i \in DOMAIN f.members |-> Opened(f.members[i])]
    BY <1>2 DEF OpenedFiles
  <2> HIDE DEF records, opened, m, f
  <2>5. DOMAIN f.members = 1 .. Len(f.members) /\ Len(f.members) \in Nat
        /\ \A i \in DOMAIN f.members : f.members[i] \in Path
    BY <2>1
  <2>6. records \in Seq(Record)
    BY <1>1, <2>2, <2>3, <2>5 DEF Record, m
  <2>7. opened \in Seq(InputFile)
    BY <1>1, <2>4, <2>5
  <2>8. Backed(records, opened)
    BY <2>3, <2>4 DEF Backed, Opened
  <2> QED BY <2>6, <2>7, <2>8 DEF records, opened, f
<1>3. CASE f.kind = "archive"
  <2>1. f.members \in Seq(FileKind)
    BY <1>3, FileType
  <2>3. records = [i \in DOMAIN f.members |->
                     [path |-> p, kind |-> f.members[i], version |-> version[p], modifiers |-> modifiers]]
    BY <1>3 DEF Records, MemberKind
  <2>4. opened = <<[path |-> p, version |-> version[p]]>>
    BY <1>3 DEF OpenedFiles, Opened
  <2> HIDE DEF records, opened, f
  <2>5. DOMAIN f.members = 1 .. Len(f.members) /\ Len(f.members) \in Nat
        /\ \A i \in DOMAIN f.members : f.members[i] \in FileKind
    BY <2>1
  <2>6. records \in Seq(Record)
    BY <1>1, <2>3, <2>5 DEF Record
  <2>7. opened \in Seq(InputFile)
    BY <1>1, <2>4 DEF InputFile
  <2>8. Backed(records, opened)
    BY <2>3, <2>4 DEF Backed
  <2> QED BY <2>6, <2>7, <2>8 DEF records, opened, f
<1>4. CASE f.kind \notin {"thin", "archive"}
  <2>3. records = <<[path |-> p, kind |-> f.kind, version |-> version[p], modifiers |-> modifiers]>>
    BY <1>4 DEF Records
  <2>4. opened = <<[path |-> p, version |-> version[p]]>>
    BY <1>4 DEF OpenedFiles, Opened
  <2>5. f.kind \in FileKind
    BY <1>1
  <2> HIDE DEF records, opened, f
  <2>6. records \in Seq(Record)
    BY <1>1, <2>3, <2>5 DEF Record
  <2>7. opened \in Seq(InputFile)
    BY <1>1, <2>4 DEF InputFile
  <2>8. Backed(records, opened)
    BY <2>3, <2>4 DEF Backed
  <2> QED BY <2>6, <2>7, <2>8 DEF records, opened, f
<1> QED BY <1>2, <1>3, <1>4

(* One file for each index, once no request and no task is left.           *)
LEMMA OneFilePerIndex ==
  ASSUME TypeOK, Known, HeldOnce, AllHeld, requests = {}, running = {}
  PROVE  /\ {f.index : f \in files} = Index
         /\ IsFiniteSet(files) /\ Cardinality(files) = next_index
         /\ \A i \in Index : FileAt(i) \in files /\ FileAt(i).index = i
<1>1. \A x \in files : x.index \in 0 .. next_index - 1
  BY DEF Known, Index
<1>2. \A x, y \in files : x.index = y.index => x = y
  BY DEF HeldOnce
<1>3. \A i \in 0 .. next_index - 1 : \E x \in files : x.index = i
  BY DEF AllHeld, Index
<1>4. IsFiniteSet(files) /\ Cardinality(files) = next_index
  BY <1>1, <1>2, <1>3, OnePerIndex DEF TypeOK
<1>5. {f.index : f \in files} = Index
  BY <1>1, <1>3 DEF Index
<1>6. \A i \in Index : FileAt(i) \in files /\ FileAt(i).index = i
  BY <1>3 DEF FileAt, Index
<1> QED BY <1>4, <1>5, <1>6

LEMMA InitIInv == Init => IInv
<1> SUFFICES ASSUME Init PROVE IInv
  OBVIOUS
<1>1. TypeOK
  BY WorldAssumption DEF Init, TypeOK, Version
<1>2. Known /\ HeldOnce /\ AllHeld /\ Phases
  BY DEF Init, Known, HeldOnce, AllHeld, Phases, Index
<1>3. AllBacked /\ Verified
  BY DEF Init, AllBacked, Backed, Verified
<1> QED BY <1>1, <1>2, <1>3 DEF IInv

---------------------------------------------------------------------------
(* One lemma per action: it preserves the invariant.                       *)

(* The first input of each path gets the next index, so the indexes of the *)
(* requests are the first numbers, each once.                              *)
LEMMA BeginLoadingIInv ==
  ASSUME IInv, BeginLoading
  PROVE  IInv'
<1> USE DEF IInv
<1>1. Index = {} /\ next_index = 0 /\ requests = {} /\ running = {} /\ files = {}
  <2>1. next_index = 0
    BY DEF BeginLoading, Phases
  <2>2. Index = {}
    BY <2>1 DEF Index
  <2> QED BY <2>1, <2>2 DEF Known
<1>2. work' = work /\ pending' = pending /\ loaded' = loaded /\ loaded_files' = loaded_files
      /\ world' = world /\ version' = version /\ running' = running /\ files' = files
  BY DEF BeginLoading, extraction, opening
<1>3. work = << >> /\ pending = << >>
  <2>1. \A s \in Seq(Nat) : (\A i \in DOMAIN s : s[i] \in {}) => s = << >>
    OBVIOUS
  <2> QED BY <1>1, <2>1 DEF Known, TypeOK
<1>4. AllBacked' /\ Verified'
  <2>1. phase' # "end"
    BY DEF BeginLoading
  <2> QED BY <1>2, <2>1 DEF AllBacked, Verified, Backed
<1>5. CASE \E i \in DOMAIN world.inputs : PathOf(world.inputs[i]) = NoPath
  <2>1. phase' = "verify" /\ opening' = opening
    BY <1>5 DEF BeginLoading
  <2>2. TypeOK'
    BY <1>2, <2>1 DEF TypeOK, opening
  <2>3. Known' /\ HeldOnce' /\ AllHeld' /\ Phases'
    BY <1>1, <1>2, <1>3, <2>1 DEF Known, HeldOnce, AllHeld, Phases, opening, Index
  <2> QED BY <1>4, <2>2, <2>3
<1>6. CASE \A i \in DOMAIN world.inputs : PathOf(world.inputs[i]) # NoPath
  <2> DEFINE S == FirstInputs
             n == Cardinality(S)
             at(i) == [index |-> LoadIndex(i), path |-> PathOf(world.inputs[i]),
                       modifiers |-> world.inputs[i].modifiers]
  <2>1. world.inputs \in Seq(Input)
    BY DEF TypeOK, World
  <2>2. \A i \in DOMAIN world.inputs :
          PathOf(world.inputs[i]) \in Path /\ world.inputs[i].modifiers \in Modifiers
    <3>1. \A i \in DOMAIN world.inputs : world.inputs[i] \in Input
      BY <2>1, Elements
    <3>2. \A i \in DOMAIN world.inputs : PathOf(world.inputs[i]) \in Path
      BY <1>6, <3>1, PathOfType
    <3>3. \A i \in DOMAIN world.inputs : world.inputs[i].modifiers \in Modifiers
      BY <3>1 DEF Input
    <3> QED BY <3>2, <3>3
  <2>3. S \subseteq DOMAIN world.inputs
    BY DEF FirstInputs
  <2>4. S \subseteq Nat /\ IsFiniteSet(S)
    <3>1. DOMAIN world.inputs = 1 .. Len(world.inputs) /\ Len(world.inputs) \in Nat
      BY <2>1
    <3>2. IsFiniteSet(1 .. Len(world.inputs))
      BY <3>1, FS_Interval
    <3>3. IsFiniteSet(S)
      BY <2>3, <3>1, <3>2, FS_Subset
    <3> QED BY <2>3, <3>1, <3>3
  <2>5. /\ n \in Nat
        /\ \A i \in S : LoadIndex(i) \in 0 .. n - 1
        /\ \A i, k \in S : LoadIndex(i) = LoadIndex(k) => i = k
        /\ \A x \in 0 .. n - 1 : \E i \in S : LoadIndex(i) = x
    BY <2>4, Ranks, Zenon DEF LoadIndex
  <2>6. /\ phase' = "open" /\ initial_count' = n /\ next_index' = n
        /\ requests' = {at(i) : i \in S}
        /\ claimed' = [p \in Path |->
               IF \E i \in S : PathOf(world.inputs[i]) = p
               THEN LoadIndex(CHOOSE i \in S : PathOf(world.inputs[i]) = p)
               ELSE NoPath]
    BY <1>6 DEF BeginLoading
  <2> HIDE DEF S, n
  <2>7. Index' = 0 .. n - 1
    BY <2>6 DEF Index
  <2>8. \A i \in S : at(i) \in Request /\ at(i).index = LoadIndex(i)
    BY <2>2, <2>3, <2>5 DEF Request
  <2>9. \A p \in Path : claimed'[p] # NoPath => claimed'[p] \in 0 .. n - 1
    BY <2>5, <2>6
  <2>10. TypeOK'
    <3>1. claimed' \in [Path -> Nat \cup {NoPath}]
      BY <2>5, <2>6, <2>9
    <3>2. requests' \subseteq Request
      BY <2>6, <2>8
    <3> QED BY <1>2, <2>5, <2>6, <3>1, <3>2 DEF TypeOK
  <2>11. \A r \in requests' : r.index \in 0 .. n - 1
    BY <2>5, <2>6, <2>8
  <2>12. next_index' > 0 => world'.inputs # << >>
    <3>1. n > 0 => S # {}
      BY FS_EmptySet DEF n
    <3> QED BY <1>2, <2>3, <2>6, <3>1
  <2>13. Known'
    BY <1>1, <1>2, <1>3, <2>5, <2>6, <2>7, <2>9, <2>11, <2>12 DEF Known
  <2>14. HeldOnce'
    <3>1. \A x, y \in requests' : x.index = y.index => x = y
      BY <2>5, <2>6, <2>8
    <3> QED BY <1>1, <1>2, <3>1 DEF HeldOnce
  <2>15. AllHeld'
    BY <2>5, <2>6, <2>7, <2>8, ZenonT(60) DEF AllHeld
  <2>16. Phases'
    BY <2>6 DEF Phases
  <2> QED BY <1>4, <2>10, <2>13, <2>14, <2>15, <2>16
<1> QED BY <1>5, <1>6

(* A request becomes a task or a failed file with its index.               *)
LEMMA OpenFileIInv ==
  ASSUME IInv, NEW r \in requests, OpenFile(r)
  PROVE  IInv'
<1> USE DEF IInv
<1> DEFINE f == world.files[r.path]
<1>1. /\ phase = "open" /\ phase' = phase /\ requests' = requests \ {r}
      /\ world' = world /\ version' = version /\ claimed' = claimed /\ next_index' = next_index
      /\ initial_count' = initial_count /\ work' = work /\ pending' = pending /\ loaded' = loaded
      /\ loaded_files' = loaded_files /\ result' = result
  BY DEF OpenFile, extraction
<1>2. Index' = Index
  BY <1>1 DEF Index
<1>3. r \in Request /\ r.index \in Index /\ r.path \in Path /\ r.modifiers \in Modifiers
  BY DEF TypeOK, Known, Request
<1>4. Verified' /\ Phases'
  BY <1>1 DEF Verified, Phases
<1>5. CASE OpenFails(f, r.modifiers)
  <2> DEFINE x == [index |-> r.index, path |-> r.path, error |-> TRUE]
  <2>1. files' = files \cup {x} /\ running' = running
    BY <1>5, Zenon DEF OpenFile, RecordError
  <2>2. x \in FailedFile /\ x.index = r.index /\ x.error
    BY <1>3 DEF Request, FailedFile
  <2> HIDE DEF x
  <2>3. TypeOK'
    BY <1>1, <2>1, <2>2 DEF TypeOK
  <2>4. Known'
    BY <1>1, <1>2, <1>3, <2>1, <2>2 DEF Known
  <2>5. HeldOnce'
    BY <1>1, <2>1, <2>2 DEF HeldOnce
  <2>6. AllHeld'
    BY <1>1, <1>2, <2>1, <2>2 DEF AllHeld
  <2>7. AllBacked'
    BY <1>1, <2>1, <2>2 DEF AllBacked
  <2> QED BY <1>4, <2>3, <2>4, <2>5, <2>6, <2>7
<1>6. CASE ~OpenFails(f, r.modifiers)
  <2> DEFINE t == [index |-> r.index, path |-> r.path, records |-> Records(r.path, f, r.modifiers),
                   input_files |-> OpenedFiles(r.path), asks |-> Asks(f, r.modifiers), indexes |-> << >>]
  <2>1. files' = files /\ running' = running \cup {t}
    BY <1>6, Zenon DEF OpenFile, OpenedFiles
  <2>2. next_index > 0
    BY <1>3 DEF Index, TypeOK
  <2>3. Asks(f, r.modifiers) \in Seq(Input)
    BY <1>3, <2>2, AsksType DEF Known
  <2>4. /\ Records(r.path, f, r.modifiers) \in Seq(Record)
        /\ OpenedFiles(r.path) \in Seq(InputFile)
        /\ Backed(Records(r.path, f, r.modifiers), OpenedFiles(r.path))
    BY <1>3, RecordsBacked
  <2>5. /\ t \in Task /\ t.index = r.index /\ t.indexes = << >>
        /\ Backed(t.records, t.input_files)
    BY <1>3, <2>3, <2>4 DEF Task, Request
  <2> HIDE DEF t
  <2>6. TypeOK'
    BY <1>1, <2>1, <2>5 DEF TypeOK
  <2>7. Known'
    BY <1>1, <1>2, <1>3, <2>1, <2>5 DEF Known
  <2>8. HeldOnce'
    BY <1>1, <2>1, <2>5 DEF HeldOnce
  <2>9. AllHeld'
    BY <1>1, <1>2, <2>1, <2>5 DEF AllHeld
  <2>10. AllBacked'
    BY <1>1, <2>1, <2>5 DEF AllBacked
  <2> QED BY <1>4, <2>6, <2>7, <2>8, <2>9, <2>10
<1> QED BY <1>5, <1>6

(* A task becomes a recorded file with its index.                          *)
LEMMA RecordFileIInv ==
  ASSUME IInv, NEW t \in running, RecordFile(t)
  PROVE  IInv'
<1> USE DEF IInv
<1> DEFINE x == [index |-> t.index, path |-> t.path, error |-> FALSE,
                 records |-> t.records, input_files |-> t.input_files, indexes |-> t.indexes]
<1>1. /\ phase = "open" /\ phase' = phase /\ requests' = requests
      /\ world' = world /\ version' = version /\ claimed' = claimed /\ next_index' = next_index
      /\ initial_count' = initial_count /\ work' = work /\ pending' = pending /\ loaded' = loaded
      /\ loaded_files' = loaded_files /\ result' = result
      /\ running' = running \ {t} /\ files' = files \cup {x}
  BY DEF RecordFile, extraction
<1>2. Index' = Index
  BY <1>1 DEF Index
<1>3. t \in Task /\ t.index \in Index /\ Backed(t.records, t.input_files)
      /\ \A i \in DOMAIN t.indexes : t.indexes[i] \in Index
  BY DEF TypeOK, Known, AllBacked
<1>4. /\ x \in GoodFile /\ x.index = t.index /\ Backed(x.records, x.input_files)
      /\ \A i \in DOMAIN x.indexes : x.indexes[i] \in Index
  BY <1>3 DEF Task, GoodFile
<1> HIDE DEF x
<1>5. TypeOK'
  BY <1>1, <1>4 DEF TypeOK
<1>6. Known'
  BY <1>1, <1>2, <1>3, <1>4 DEF Known
<1>7. HeldOnce'
  BY <1>1, <1>4 DEF HeldOnce
<1>8. AllHeld'
  BY <1>1, <1>2, <1>4 DEF AllHeld
<1>9. AllBacked'
  BY <1>1, <1>4 DEF AllBacked
<1>10. Verified' /\ Phases'
  BY <1>1 DEF Verified, Phases
<1> QED BY <1>5, <1>6, <1>7, <1>8, <1>9, <1>10

(* A task learns the index of a path, claiming the next one when it is the *)
(* first to ask for the path, or fails with its own index.                 *)
LEMMA LoadInputIInv ==
  ASSUME IInv, NEW t \in running, LoadInput(t)
  PROVE  IInv'
<1> USE DEF IInv
<1> DEFINE input == Head(t.asks)
           p == PathOf(input)
           index == IF claimed[p] = NoPath THEN next_index ELSE claimed[p]
<1>1. /\ phase = "open" /\ phase' = phase /\ world' = world /\ version' = version
      /\ initial_count' = initial_count /\ work' = work /\ pending' = pending /\ loaded' = loaded
      /\ loaded_files' = loaded_files /\ result' = result
  BY DEF LoadInput, extraction
<1>2. t \in Task /\ t.index \in Index /\ Backed(t.records, t.input_files)
      /\ \A i \in DOMAIN t.indexes : t.indexes[i] \in Index
  BY DEF TypeOK, Known, AllBacked
<1>3. Verified' /\ Phases'
  BY <1>1 DEF Verified, Phases, LoadInput
<1>4. t.asks \in Seq(Input) /\ t.asks # << >> /\ t.indexes \in Seq(Nat)
  BY <1>2 DEF Task, LoadInput
<1>5. input \in Input /\ Tail(t.asks) \in Seq(Input)
  BY <1>4
<1>6. p \in Path \cup {NoPath}
  BY <1>5, PathOfType
<1>7. CASE p = NoPath
  <2> DEFINE x == [index |-> t.index, path |-> t.path, error |-> TRUE]
  <2>1. /\ files' = files \cup {x} /\ running' = running \ {t} /\ requests' = requests
        /\ claimed' = claimed /\ next_index' = next_index
    BY <1>7, Zenon DEF LoadInput, RecordError
  <2>2. x \in FailedFile /\ x.index = t.index /\ x.error
    BY <1>2 DEF Task, FailedFile
  <2> HIDE DEF x
  <2>3. Index' = Index
    BY <2>1 DEF Index
  <2>4. TypeOK'
    BY <1>1, <2>1, <2>2 DEF TypeOK
  <2>5. Known'
    BY <1>1, <1>2, <2>1, <2>2, <2>3 DEF Known
  <2>6. HeldOnce'
    BY <2>1, <2>2 DEF HeldOnce
  <2>7. AllHeld'
    BY <2>1, <2>2, <2>3 DEF AllHeld
  <2>8. AllBacked'
    BY <1>1, <2>1, <2>2 DEF AllBacked
  <2> QED BY <1>3, <2>4, <2>5, <2>6, <2>7, <2>8
<1>8. CASE p # NoPath
  <2> DEFINE u == [t EXCEPT !.asks = Tail(@), !.indexes = Append(@, index)]
             q == [index |-> index, path |-> p, modifiers |-> input.modifiers]
  <2>1. /\ running' = (running \ {t}) \cup {u}
        /\ claimed' = [claimed EXCEPT ![p] = index]
        /\ files' = files
        /\ claimed[p] = NoPath => next_index' = next_index + 1 /\ requests' = requests \cup {q}
        /\ claimed[p] # NoPath => next_index' = next_index /\ requests' = requests
    BY <1>8, Zenon DEF LoadInput
  <2>2. p \in Path
    BY <1>6, <1>8
  <2>3. next_index \in Nat /\ index \in Nat /\ index \in Index'
        /\ \A i \in Index : i \in Index'
    BY <2>1, <2>2 DEF TypeOK, Known, Index
  <2>4. q \in Request /\ q.index = index
    BY <1>5, <2>2, <2>3 DEF Request, Input
  <2>5. /\ u.index = t.index /\ u.path = t.path /\ u.records = t.records
        /\ u.input_files = t.input_files
        /\ u.asks = Tail(t.asks) /\ u.indexes = Append(t.indexes, index)
    BY <1>2 DEF Task
  <2>6. Append(t.indexes, index) \in Seq(Nat)
    BY <1>4, <2>3
  <2>7. u \in Task
    BY <1>2, <1>5, <2>3, <2>6 DEF Task
  <2>8. \A i \in DOMAIN u.indexes : u.indexes[i] \in Index'
    <3> DEFINE s == t.indexes
    <3> HIDE DEF s, index
    <3>1. s \in Seq(Nat) /\ index \in Nat /\ \A i \in DOMAIN s : s[i] \in Index'
      BY <1>2, <1>4, <2>3 DEF s
    <3>2. \A i \in DOMAIN Append(s, index) : Append(s, index)[i] \in Index'
      BY <3>1, <2>3
    <3> QED BY <2>5, <3>2 DEF s
  <2> HIDE DEF u, q, p, index, input
  <2>9. claimed[p] = NoPath => index = next_index
    BY DEF index
  <2>10. claimed' \in [Path -> Nat \cup {NoPath}] /\ claimed'[p] = index
         /\ \A o \in Path \ {p} : claimed'[o] = claimed[o]
    BY <2>1, <2>2, <2>3 DEF TypeOK
  <2>11. requests' \subseteq requests \cup {q} /\ next_index' \in Nat /\ next_index <= next_index'
    BY <2>1, <2>3
  <2>12. TypeOK'
    BY <1>1, <2>1, <2>4, <2>7, <2>10, <2>11 DEF TypeOK
  <2>13. Known'
    <3>1. \A r \in requests' : r.index \in Index'
      BY <2>3, <2>4, <2>11 DEF Known
    <3>2. \A y \in running' : y.index \in Index' /\ \A i \in DOMAIN y.indexes : y.indexes[i] \in Index'
      BY <1>2, <2>1, <2>3, <2>5, <2>8 DEF Known
    <3>3. \A o \in Path : claimed'[o] # NoPath => claimed'[o] \in Index'
      BY <2>3, <2>10 DEF Known
    <3>4. initial_count' <= next_index' /\ (next_index' > 0 => world'.inputs # << >>)
      <4>1. next_index > 0
        BY <1>2, <2>3 DEF Index
      <4> QED BY <1>1, <2>3, <2>11, <4>1 DEF Known, TypeOK
    <3> QED BY <1>1, <2>1, <2>3, <3>1, <3>2, <3>3, <3>4 DEF Known
  <2>14. HeldOnce'
    <3>1. CASE claimed[p] # NoPath
      BY <2>1, <2>5, <3>1 DEF HeldOnce
    <3>2. CASE claimed[p] = NoPath
      <4>1. q.index \notin Index
        BY <2>3, <2>4, <2>9, <3>2 DEF Index
      <4>2. \A x \in requests \cup running \cup files : x.index # q.index
        BY <4>1 DEF Known
      <4> QED BY <2>1, <2>5, <3>2, <4>2 DEF HeldOnce
    <3> QED BY <3>1, <3>2
  <2>15. AllHeld'
    <3>1. CASE claimed[p] # NoPath
      <4>1. Index' = Index
        BY <2>1, <3>1 DEF Index
      <4> QED BY <2>1, <2>5, <3>1, <4>1 DEF AllHeld
    <3>2. CASE claimed[p] = NoPath
      <4>1. \A i \in Index' : i \in Index \/ i = q.index
        BY <2>1, <2>3, <2>4, <2>9, <3>2 DEF Index
      <4>2. \A i \in Index : \E x \in requests' \cup running' \cup files' : x.index = i
        BY <2>1, <2>5, <3>2 DEF AllHeld
      <4> QED BY <2>1, <3>2, <4>1, <4>2 DEF AllHeld
    <3> QED BY <3>1, <3>2
  <2>16. AllBacked'
    BY <1>1, <1>2, <2>1, <2>5 DEF AllBacked
  <2> QED BY <1>3, <2>12, <2>13, <2>14, <2>15, <2>16
<1> QED BY <1>7, <1>8

(* The scope ends when nobody holds an index any more but the files: there *)
(* are as many as indexes, and none lies beyond them.                      *)
LEMMA EndScopeIInv ==
  ASSUME IInv, EndScope
  PROVE  IInv' /\ result' = result
<1> USE DEF IInv
<1>1. /\ requests = {} /\ running = {} /\ world' = world /\ version' = version /\ opening' = opening
      /\ pending' = pending /\ loaded' = loaded /\ loaded_files' = loaded_files
  BY DEF EndScope
<1>2. /\ claimed' = claimed /\ next_index' = next_index /\ requests' = {} /\ running' = {}
      /\ files' = files /\ initial_count' = initial_count /\ Index' = Index
  BY <1>1 DEF opening, Index
<1>3. Cardinality(files) = next_index
  BY <1>1, OneFilePerIndex
<1>4. ~ \E f \in files : f.index >= Cardinality(files)
  BY <1>3 DEF Known, TypeOK, Index
<1>5. phase' = "extract" /\ work' = [i \in 1 .. initial_count |-> i - 1] /\ result' = result
  BY <1>4, Zenon DEF EndScope
<1>6. work' \in Seq(Nat) /\ \A i \in DOMAIN work' : work'[i] \in Index
  BY <1>5 DEF TypeOK, Known, Index
<1>7. TypeOK'
  BY <1>1, <1>2, <1>5, <1>6 DEF TypeOK
<1>8. Known'
  BY <1>1, <1>2, <1>6 DEF Known
<1>9. HeldOnce' /\ AllHeld' /\ Phases'
  BY <1>1, <1>2, <1>5 DEF HeldOnce, AllHeld, Phases
<1>10. AllBacked' /\ Verified'
  BY <1>1, <1>2, <1>5 DEF AllBacked, Verified
<1> QED BY <1>5, <1>7, <1>8, <1>9, <1>10

(* extract_file moves what a file yields to the loaded inputs, together    *)
(* with the files that it was read from.                                   *)
LEMMA ExtractFileIInv ==
  ASSUME IInv, ExtractFile
  PROVE  IInv'
<1> USE DEF IInv
<1> DEFINE i == Head(work)
           f == FileAt(i)
<1>1. phase = "extract" /\ world' = world /\ version' = version /\ opening' = opening /\ work # << >>
  BY DEF ExtractFile
<1>2. /\ claimed' = claimed /\ next_index' = next_index /\ requests' = requests /\ running' = running
      /\ files' = files /\ initial_count' = initial_count /\ Index' = Index
  BY <1>1 DEF opening, Index
<1>3. requests = {} /\ running = {}
  BY <1>1 DEF Phases
<1>4. HeldOnce' /\ AllHeld'
  BY <1>2 DEF HeldOnce, AllHeld
<1>5. i \in Index /\ Tail(work) \in Seq(Nat) /\ \A k \in DOMAIN Tail(work) : Tail(work)[k] \in Index
  BY <1>1, TailIndexes DEF TypeOK, Known
<1>6. f \in files
  BY <1>3, <1>5, OneFilePerIndex
<1>7. CASE /\ i \in taken
           /\ work' = Tail(work)
           /\ UNCHANGED <<phase, result, pending, taken, loaded, loaded_files, has_dynamic>>
  <2>1. TypeOK' /\ Phases'
    BY <1>1, <1>2, <1>3, <1>5, <1>7 DEF TypeOK, Phases
  <2>2. Known'
    BY <1>1, <1>2, <1>3, <1>5, <1>7 DEF Known
  <2>3. AllBacked' /\ Verified'
    BY <1>1, <1>2, <1>7 DEF AllBacked, Verified
  <2> QED BY <1>4, <2>1, <2>2, <2>3
<1>8. CASE /\ phase' = "verify"
           /\ UNCHANGED <<work, pending, loaded, loaded_files, has_dynamic>>
  <2>1. TypeOK' /\ Phases'
    BY <1>1, <1>2, <1>3, <1>8 DEF TypeOK, Phases
  <2>2. Known'
    BY <1>1, <1>2, <1>3, <1>8 DEF Known
  <2>3. AllBacked' /\ Verified'
    BY <1>1, <1>2, <1>8 DEF AllBacked, Verified
  <2> QED BY <1>4, <2>1, <2>2, <2>3
<1>9. CASE /\ i \notin taken /\ ~f.error
           /\ taken' = taken \cup {i}
           /\ loaded' = loaded \o f.records
           /\ loaded_files' = loaded_files \o InputFilesOf(f)
           /\ work' = IF IsScript(f) THEN ScriptInPlace(f, Tail(work)) ELSE Tail(work)
           /\ pending' = pending \o Deplibs(f)
           /\ has_dynamic' = (has_dynamic \/ world.files[f.path].kind \in {"dynamic", "stub"})
           /\ UNCHANGED <<phase, result>>
  <2> HIDE DEF f, i
  <2>1. f \in GoodFile /\ Backed(f.records, f.input_files)
        /\ \A k \in DOMAIN f.indexes : f.indexes[k] \in Index
    <3>1. f \notin FailedFile
      BY <1>9 DEF FailedFile
    <3> QED BY <1>6, <1>9, <3>1 DEF TypeOK, Known, AllBacked
  <2>2. f.records \in Seq(Record) /\ f.input_files \in Seq(InputFile) /\ f.indexes \in Seq(Nat)
    BY <2>1 DEF GoodFile
  <2>3. loaded' \in Seq(Record) /\ loaded_files' \in Seq(InputFile)
    BY <1>9, <2>2 DEF TypeOK, InputFilesOf
  <2>4. Backed(loaded', loaded_files')
    BY <1>9, <2>1, <2>2, JoinBacked DEF TypeOK, AllBacked, InputFilesOf
  <2>5. work' \in Seq(Nat) /\ \A k \in DOMAIN work' : work'[k] \in Index
    <3>1. /\ f.indexes \o Tail(work) \in Seq(Nat)
          /\ \A k \in DOMAIN (f.indexes \o Tail(work)) : (f.indexes \o Tail(work))[k] \in Index
      BY <1>5, <2>1, <2>2, JoinIndexes
    <3>2. work' = f.indexes \o Tail(work) \/ work' = Tail(work)
      BY <1>9 DEF ScriptInPlace
    <3> QED BY <1>5, <3>1, <3>2, Zenon
  <2>6. pending' \in Seq(Nat) /\ \A k \in DOMAIN pending' : pending'[k] \in Index
    <3>1. Deplibs(f) \in Seq(Nat) /\ \A k \in DOMAIN Deplibs(f) : Deplibs(f)[k] \in Index
      BY <2>1, <2>2 DEF Deplibs
    <3>2. pending \in Seq(Nat) /\ \A k \in DOMAIN pending : pending[k] \in Index
      BY DEF TypeOK, Known
    <3>3. /\ pending \o Deplibs(f) \in Seq(Nat)
          /\ \A k \in DOMAIN (pending \o Deplibs(f)) : (pending \o Deplibs(f))[k] \in Index
      BY <3>1, <3>2, JoinIndexes
    <3>4. pending' = pending \o Deplibs(f)
      BY <1>9
    <3> QED BY <3>3, <3>4, Zenon
  <2>7. phase' = phase /\ result' = result
    BY <1>9
  <2>8. TypeOK' /\ Phases'
    BY <1>1, <1>2, <1>3, <2>3, <2>5, <2>6, <2>7 DEF TypeOK, Phases
  <2>9. Known'
    BY <1>1, <1>2, <1>3, <2>5, <2>6 DEF Known
  <2>10. AllBacked' /\ Verified'
    BY <1>1, <1>2, <2>4, <2>7 DEF AllBacked, Verified
  <2> QED BY <1>4, <2>8, <2>9, <2>10
<1> QED BY <1>7, <1>8, <1>9, Zenon DEF ExtractFile

(* The passes of extract_all, the last one over all indexes.               *)
LEMMA NextPassIInv ==
  ASSUME IInv, NextPass
  PROVE  IInv'
<1> USE DEF IInv
<1>1. phase = "extract" /\ world' = world /\ version' = version /\ opening' = opening
      /\ loaded' = loaded /\ loaded_files' = loaded_files
  BY DEF NextPass
<1>2. /\ claimed' = claimed /\ next_index' = next_index /\ requests' = requests /\ running' = running
      /\ files' = files /\ initial_count' = initial_count /\ Index' = Index
  BY <1>1 DEF opening, Index
<1>3. requests = {} /\ running = {}
  BY <1>1 DEF Phases
<1>4. HeldOnce' /\ AllHeld' /\ AllBacked'
  BY <1>1, <1>2 DEF HeldOnce, AllHeld, AllBacked
<1>5. phase' \in {"extract", "verify"}
  BY <1>1 DEF NextPass
<1>6. /\ work' \in Seq(Nat) /\ \A k \in DOMAIN work' : work'[k] \in Index
      /\ pending' \in Seq(Nat) /\ \A k \in DOMAIN pending' : pending'[k] \in Index
  <2>1. /\ pending \in Seq(Nat) /\ \A k \in DOMAIN pending : pending[k] \in Index
        /\ work \in Seq(Nat) /\ \A k \in DOMAIN work : work[k] \in Index
    BY DEF TypeOK, Known
  <2>2. CASE pending # << >> /\ work' = <<Head(pending)>> /\ pending' = Tail(pending)
    <3>1. /\ Head(pending) \in Nat /\ Head(pending) \in Index
          /\ Tail(pending) \in Seq(Nat) /\ \A k \in DOMAIN Tail(pending) : Tail(pending)[k] \in Index
      BY <2>1, <2>2, TailIndexes
    <3>2. work' \in Seq(Nat) /\ \A k \in DOMAIN work' : work'[k] \in Index
      BY <2>2, <3>1
    <3> QED BY <2>2, <3>1, <3>2, Zenon
  <2>3. CASE work' = [i \in 1 .. Cardinality(files) |-> i - 1] /\ pending' = pending
    <3>1. Cardinality(files) = next_index
      BY <1>3, OneFilePerIndex
    <3>2. work' \in Seq(Nat) /\ \A k \in DOMAIN work' : work'[k] \in Index
      BY <2>3, <3>1 DEF TypeOK, Index
    <3> QED BY <2>1, <2>3, <3>2
  <2>4. CASE work' = work /\ pending' = pending
    BY <2>1, <2>4
  <2> QED BY <2>2, <2>3, <2>4 DEF NextPass, PopPending
<1>7. TypeOK' /\ Phases'
  BY <1>1, <1>2, <1>3, <1>5, <1>6 DEF TypeOK, Phases
<1>8. Known'
  BY <1>1, <1>2, <1>3, <1>6 DEF Known
<1>9. Verified'
  BY <1>5 DEF Verified
<1> QED BY <1>4, <1>7, <1>8, <1>9

(* Somebody changes a file; the files that were verified no longer matter. *)
LEMMA ChangeFileIInv ==
  ASSUME IInv, NEW p \in Path, ChangeFile(p)
  PROVE  IInv'
<1> USE DEF IInv
<1>1. /\ phase' = phase /\ phase # "end" /\ world' = world /\ opening' = opening
      /\ work' = work /\ pending' = pending /\ loaded' = loaded /\ loaded_files' = loaded_files
      /\ version' = [version EXCEPT ![p] = 1]
  BY DEF ChangeFile, extraction
<1>2. /\ claimed' = claimed /\ next_index' = next_index /\ requests' = requests /\ running' = running
      /\ files' = files /\ initial_count' = initial_count /\ Index' = Index
  BY <1>1 DEF opening, Index
<1>3. TypeOK'
  BY <1>1, <1>2 DEF TypeOK, Version
<1>4. Known' /\ HeldOnce' /\ AllHeld' /\ Phases'
  BY <1>1, <1>2 DEF Known, HeldOnce, AllHeld, Phases
<1>5. AllBacked' /\ Verified'
  BY <1>1, <1>2 DEF AllBacked, Verified
<1> QED BY <1>3, <1>4, <1>5

(* The verification ends a link that loaded its inputs successfully only   *)
(* when each file it remembers is the one that was opened.                 *)
LEMMA VerifyIInv ==
  ASSUME IInv, VerifyInputsUnchanged
  PROVE  IInv'
<1> USE DEF IInv
<1>1. /\ phase = "verify" /\ phase' = "end" /\ world' = world /\ opening' = opening /\ version' = version
      /\ work' = work /\ pending' = pending /\ loaded' = loaded /\ loaded_files' = loaded_files
  BY DEF VerifyInputsUnchanged, extraction
<1>2. /\ claimed' = claimed /\ next_index' = next_index /\ requests' = requests /\ running' = running
      /\ files' = files /\ initial_count' = initial_count /\ Index' = Index
  BY <1>1 DEF opening, Index
<1>3. TypeOK' /\ Known' /\ HeldOnce' /\ AllHeld' /\ Phases' /\ AllBacked'
  BY <1>1, <1>2 DEF TypeOK, Known, HeldOnce, AllHeld, Phases, AllBacked
<1>4. Verified'
  <2> SUFFICES ASSUME result'.state = "loaded", NEW i \in DOMAIN loaded_files
               PROVE  loaded_files[i].version = version[loaded_files[i].path]
    BY <1>1 DEF Verified
  <2>1. loaded_files[i] = Opened(loaded_files[i].path)
    BY DEF VerifyInputsUnchanged
  <2> QED BY <2>1 DEF Opened
<1> QED BY <1>3, <1>4

LEMMA NextIInv == IInv /\ [Next]_vars => IInv'
<1> SUFFICES ASSUME IInv, [Next]_vars PROVE IInv'
  OBVIOUS
<1>1. CASE UNCHANGED vars
  <2>1. /\ world' = world /\ version' = version /\ phase' = phase /\ work' = work /\ pending' = pending
        /\ loaded' = loaded /\ loaded_files' = loaded_files /\ result' = result
        /\ claimed' = claimed /\ next_index' = next_index /\ requests' = requests /\ running' = running
        /\ files' = files /\ initial_count' = initial_count
    BY <1>1 DEF vars, opening, extraction
  <2>2. Index' = Index
    BY <2>1 DEF Index
  <2> QED BY <2>1, <2>2 DEF IInv, TypeOK, Known, HeldOnce, AllHeld, Phases, AllBacked, Verified
<1>2. CASE Step
  BY <1>2, BeginLoadingIInv, OpenFileIInv, LoadInputIInv, RecordFileIInv, EndScopeIInv,
     ExtractFileIInv, NextPassIInv, VerifyIInv DEF Step
<1>3. CASE \E p \in Path : ChangeFile(p)
  BY <1>3, ChangeFileIInv
<1>4. CASE Ended
  BY <1>1, <1>4 DEF Ended
<1> QED BY <1>1, <1>2, <1>3, <1>4 DEF Next

---------------------------------------------------------------------------
(* The inductive invariant of loading, of whatever threads, scripts,       *)
(* dependent libraries and errors there are.                               *)
THEOREM InputInvariant == Spec => []IInv
<1> QED BY InitIInv, NextIInv, PTL DEF Spec

(* Every index load_input and load_inputs hand out is that of one recorded *)
(* file when extraction begins, also of a file that failed to open and of  *)
(* one whose script named a library that does not exist.                   *)
THEOREM InputEveryIndexRecorded == Spec => []EveryIndexRecorded
<1>1. IInv => EveryIndexRecorded
  BY OneFilePerIndex DEF IInv, EveryIndexRecorded, Phases, Index
<1> QED BY <1>1, InputInvariant, PTL

(* A link that succeeds used no object, member, script or library that     *)
(* changed between its opening and verify_inputs_unchanged.                *)
THEOREM InputLoadedInputsVerified == Spec => []LoadedInputsVerified
<1>1. IInv => LoadedInputsVerified
  <2> SUFFICES ASSUME IInv, phase = "end", result.state = "loaded", NEW i \in DOMAIN loaded
               PROVE  loaded[i].version = version[loaded[i].path]
    BY DEF LoadedInputsVerified
  <2>1. Backed(loaded, loaded_files)
    BY DEF IInv, AllBacked
  <2>2. PICK j \in DOMAIN loaded_files :
          loaded_files[j] = [path |-> loaded[i].path, version |-> loaded[i].version]
    BY <2>1, Zenon DEF Backed
  <2>3. loaded_files[j].version = version[loaded_files[j].path]
    BY DEF IInv, Verified
  <2> QED BY <2>2, <2>3
<1> QED BY <1>1, InputInvariant, PTL

(* Sorting the files by their indexes cannot index beyond their number.    *)
THEOREM InputNeverPanics == Spec => []NeverPanics
<1>1. Init => NeverPanics
  BY DEF Init, NeverPanics
<1>2. IInv /\ NeverPanics /\ [Next]_vars => NeverPanics'
  <2> SUFFICES ASSUME IInv, NeverPanics, [Next]_vars PROVE NeverPanics'
    OBVIOUS
  <2>1. CASE UNCHANGED result
    BY <2>1 DEF NeverPanics
  <2>2. CASE BeginLoading
    BY <2>1, <2>2 DEF BeginLoading, Failed, NeverPanics
  <2>3. CASE EndScope
    BY <2>1, <2>3, EndScopeIInv
  <2>4. CASE ExtractFile
    BY <2>1, <2>4 DEF ExtractFile, Failed, NeverPanics
  <2>5. CASE NextPass
    BY <2>1, <2>5 DEF NextPass, NeverPanics
  <2>6. CASE VerifyInputsUnchanged
    BY <2>1, <2>6 DEF VerifyInputsUnchanged, NeverPanics
  <2>7. CASE \E r \in requests : OpenFile(r)
    BY <2>1, <2>7 DEF OpenFile
  <2>8. CASE \E t \in running : LoadInput(t)
    BY <2>1, <2>8 DEF LoadInput
  <2>9. CASE \E t \in running : RecordFile(t)
    BY <2>1, <2>9 DEF RecordFile
  <2>10. CASE (\E p \in Path : ChangeFile(p)) \/ Ended \/ UNCHANGED vars
    BY <2>1, <2>10 DEF ChangeFile, Ended, vars
  <2> QED BY <2>2, <2>3, <2>4, <2>5, <2>6, <2>7, <2>8, <2>9, <2>10 DEF Next, Step
<1> QED BY <1>1, <1>2, InputInvariant, PTL DEF Spec

(* path_to_load_index stays true: an index is claimed once, by the task    *)
(* that spawns the request.                                                *)
LEMMA NextClaimed == IInv /\ Claimed /\ [Next]_vars => Claimed'
<1> SUFFICES ASSUME IInv, Claimed, [Next]_vars PROVE Claimed'
  OBVIOUS
<1> USE DEF IInv
<1>1. CASE UNCHANGED opening
  BY <1>1 DEF Claimed, opening
<1>2. CASE BeginLoading
  <2>1. CASE \E i \in DOMAIN world.inputs : PathOf(world.inputs[i]) = NoPath
    BY <1>1, <1>2, <2>1 DEF BeginLoading
  <2>2. CASE \A i \in DOMAIN world.inputs : PathOf(world.inputs[i]) # NoPath
    <3> DEFINE S == FirstInputs
               path(i) == PathOf(world.inputs[i])
    <3>1. world.inputs \in Seq(Input)
      BY DEF TypeOK, World
    <3>2. \A i \in DOMAIN world.inputs : path(i) \in Path
      <4>1. \A i \in DOMAIN world.inputs : world.inputs[i] \in Input
        BY <3>1, Elements
      <4> QED BY <2>2, <4>1, PathOfType
    <3>3. S \subseteq DOMAIN world.inputs /\ S \subseteq Nat
      BY <3>1 DEF FirstInputs
    <3>4. \A i, k \in S : i < k => path(i) # path(k)
      <4> TAKE i, k \in S
      <4> HAVE i < k
      <4>1. i \in 1 .. k - 1
        <5>1. i \in 1 .. Len(world.inputs) /\ k \in Nat /\ Len(world.inputs) \in Nat
          BY <3>1, <3>3
        <5> QED BY <5>1
      <4> QED BY <4>1 DEF FirstInputs
    <3>5. \A i, k \in S : path(i) = path(k) => i = k
      BY <3>3, <3>4
    <3>6. /\ requests' = {[index |-> LoadIndex(i), path |-> path(i),
                           modifiers |-> world.inputs[i].modifiers] : i \in S}
          /\ claimed' = [p \in Path |->
               IF \E i \in S : path(i) = p THEN LoadIndex(CHOOSE i \in S : path(i) = p) ELSE NoPath]
          /\ running' = running /\ files' = files
      BY <1>2, <2>2 DEF BeginLoading
    <3>7. running = {} /\ files = {}
      <4>1. Index = {}
        BY <1>2 DEF BeginLoading, Phases, Index
      <4> QED BY <4>1 DEF Known
    <3> HIDE DEF S, path
    <3>8. \A i \in S : claimed'[path(i)] = LoadIndex(i)
      <4> TAKE i \in S
      <4>1. path(i) \in Path
        BY <3>2, <3>3
      <4>2. (CHOOSE k \in S : path(k) = path(i)) = i
        BY <3>5
      <4> QED BY <3>6, <4>1, <4>2
    <3>9. \A x \in requests' : claimed'[x.path] = x.index
      BY <3>6, <3>8
    <3> QED BY <3>6, <3>7, <3>9 DEF Claimed
  <2> QED BY <2>1, <2>2
<1>3. ASSUME NEW r \in requests, OpenFile(r)
      PROVE  Claimed'
  <2>1. claimed' = claimed /\ requests' = requests \ {r}
    BY <1>3 DEF OpenFile
  <2>2. \A x \in files' : x \in files \/ x = [index |-> r.index, path |-> r.path, error |-> TRUE]
    BY <1>3 DEF OpenFile, RecordError
  <2>3. \A x \in running' : x \in running \/ (x.index = r.index /\ x.path = r.path)
    BY <1>3 DEF OpenFile
  <2> QED BY <2>1, <2>2, <2>3 DEF Claimed
<1>4. ASSUME NEW t \in running, LoadInput(t)
      PROVE  Claimed'
  <2> DEFINE input == Head(t.asks)
             p == PathOf(input)
             index == IF claimed[p] = NoPath THEN next_index ELSE claimed[p]
  <2>1. t \in Task /\ t.asks \in Seq(Input) /\ t.asks # << >>
    BY <1>4 DEF TypeOK, Task, LoadInput
  <2>2. p \in Path \cup {NoPath}
    <3>1. input \in Input
      BY <2>1
    <3> QED BY <3>1, PathOfType
  <2>3. CASE p = NoPath
    <3>1. /\ files' = files \cup {[index |-> t.index, path |-> t.path, error |-> TRUE]}
          /\ running' = running \ {t} /\ requests' = requests /\ claimed' = claimed
      BY <1>4, <2>3, Zenon DEF LoadInput, RecordError
    <3> QED BY <3>1 DEF Claimed
  <2>4. CASE p # NoPath
    <3> DEFINE u == [t EXCEPT !.asks = Tail(@), !.indexes = Append(@, index)]
               q == [index |-> index, path |-> p, modifiers |-> input.modifiers]
    <3>1. /\ running' = (running \ {t}) \cup {u}
          /\ claimed' = [claimed EXCEPT ![p] = index]
          /\ files' = files
          /\ claimed[p] = NoPath => requests' = requests \cup {q}
          /\ claimed[p] # NoPath => requests' = requests
      BY <1>4, <2>4, Zenon DEF LoadInput
    <3>2. u.index = t.index /\ u.path = t.path /\ q.index = index /\ q.path = p
      BY <2>1 DEF Task
    <3> HIDE DEF u, q, p
    <3>3. \A x \in requests \cup running \cup files : x.path \in Path /\ x.index \in Nat
      BY DEF TypeOK, Request, Task, FailedFile, GoodFile
    <3>4. \A o \in Path : claimed[o] # NoPath => claimed'[o] = claimed[o]
      BY <2>2, <2>4, <3>1 DEF TypeOK
    <3>5. \A x \in requests \cup running \cup files : claimed'[x.path] = x.index
      BY <3>3, <3>4, WorldAssumption DEF Claimed
    <3>6. claimed'[p] = index
      BY <2>2, <2>4, <3>1 DEF TypeOK
    <3> QED BY <3>1, <3>2, <3>5, <3>6 DEF Claimed
  <2> QED BY <2>3, <2>4
<1>5. ASSUME NEW t \in running, RecordFile(t)
      PROVE  Claimed'
  BY <1>5 DEF RecordFile, Claimed
<1>6. CASE EndScope \/ ExtractFile \/ NextPass \/ VerifyInputsUnchanged
  BY <1>1, <1>6 DEF EndScope, ExtractFile, NextPass, VerifyInputsUnchanged
<1>7. CASE (\E p \in Path : ChangeFile(p)) \/ Ended \/ UNCHANGED vars
  BY <1>1, <1>7 DEF ChangeFile, Ended, vars
<1> QED BY <1>2, <1>3, <1>4, <1>5, <1>6, <1>7 DEF Next, Step

(* Of the tasks that race for a path only the one that claims it spawns a  *)
(* request: no file is opened twice, not even one that is an input, in a   *)
(* script and a dependent library.                                         *)
THEOREM InputOpenedOnce == Spec => []OpenedOnce
<1>1. Init => Claimed
  BY DEF Init, Claimed
<1>2. IInv /\ Claimed => OpenedOnce
  BY DEF IInv, HeldOnce, Claimed, OpenedOnce
<1> QED BY <1>1, <1>2, NextClaimed, InputInvariant, PTL DEF Spec

---------------------------------------------------------------------------
(* Every set of numbers has a least one.                                   *)
LEMMA LeastNumber ==
  ASSUME NEW S \in SUBSET Nat, S # {}
  PROVE  \E x \in S : \A y \in S : x <= y
<1> DEFINE Lt == {ss \in Nat \X Nat : ss[1] < ss[2]}
<1>1. IsWellFoundedOn(Lt, Nat)
  BY NatLessThanWellFounded DEF OpToRel
<1>2. \E x \in S : \A y \in S : <<y, x>> \notin Lt
  <2> HIDE DEF Lt
  <2> QED BY <1>1, WFMin
<1>3. PICK x \in S : \A y \in S : <<y, x>> \notin Lt
  BY <1>2
<1>4. ASSUME NEW y \in S PROVE x <= y
  <2>1. x \in Nat /\ y \in Nat
    OBVIOUS
  <2>2. ~(y < x)
    BY <1>3, <2>1
  <2> QED BY <2>1, <2>2
<1> QED BY <1>4

(* The inputs of the command line: each path has a first one, and these    *)
(* have the first numbers as their indexes.                                *)
LEMMA FirstInputsFacts ==
  ASSUME TypeOK
  PROVE  /\ FirstInputs \subseteq DOMAIN world.inputs
         /\ Cardinality(FirstInputs) \in Nat
         /\ \A i \in FirstInputs : LoadIndex(i) \in 0 .. Cardinality(FirstInputs) - 1
         /\ \A i, k \in FirstInputs : LoadIndex(i) = LoadIndex(k) => i = k
         /\ \A n \in 0 .. Cardinality(FirstInputs) - 1 : \E i \in FirstInputs : LoadIndex(i) = n
         /\ \A i, k \in FirstInputs : PathOf(world.inputs[i]) = PathOf(world.inputs[k]) => i = k
         /\ \A i \in DOMAIN world.inputs :
              \E k \in FirstInputs : PathOf(world.inputs[k]) = PathOf(world.inputs[i])
<1> DEFINE S == FirstInputs
           path(i) == PathOf(world.inputs[i])
<1>1. DOMAIN world.inputs = 1 .. Len(world.inputs) /\ Len(world.inputs) \in Nat
  BY DEF TypeOK, World
<1>2. S \subseteq DOMAIN world.inputs /\ S \subseteq Nat
  BY <1>1 DEF FirstInputs
<1>3. IsFiniteSet(S)
  <2>1. IsFiniteSet(1 .. Len(world.inputs))
    BY <1>1, FS_Interval
  <2> QED BY <1>1, <1>2, <2>1, FS_Subset
<1>4. /\ Cardinality(S) \in Nat
      /\ \A i \in S : LoadIndex(i) \in 0 .. Cardinality(S) - 1
      /\ \A i, k \in S : LoadIndex(i) = LoadIndex(k) => i = k
      /\ \A x \in 0 .. Cardinality(S) - 1 : \E i \in S : LoadIndex(i) = x
  <2> HIDE DEF S
  <2> QED BY <1>2, <1>3, Ranks, Zenon DEF LoadIndex, S
<1>5. \A i, k \in S : i < k => path(i) # path(k)
  <2> TAKE i, k \in S
  <2> HAVE i < k
  <2>1. i \in 1 .. k - 1
    BY <1>1, <1>2
  <2> QED BY <2>1 DEF FirstInputs
<1>6. \A i, k \in S : path(i) = path(k) => i = k
  BY <1>2, <1>5
<1>7. ASSUME NEW i \in DOMAIN world.inputs
      PROVE  \E k \in S : path(k) = path(i)
  <2> DEFINE T == {k \in DOMAIN world.inputs : path(k) = path(i)}
  <2>1. T \in SUBSET Nat /\ T # {}
    <3>1. i \in T
      OBVIOUS
    <3> QED BY <1>1, <3>1
  <2> HIDE DEF T
  <2>2. PICK k \in T : \A j \in T : k <= j
    BY <2>1, LeastNumber
  <2>3. k \in DOMAIN world.inputs /\ path(k) = path(i)
    BY DEF T
  <2>4. \A j \in 1 .. k - 1 : path(j) # path(k)
    <3> TAKE j \in 1 .. k - 1
    <3>1. j \in DOMAIN world.inputs /\ ~(k <= j)
      BY <1>1, <2>3
    <3>2. j \notin T
      BY <2>2, <3>1
    <3> QED BY <2>3, <3>1, <3>2 DEF T
  <2>5. k \in S
    BY <2>3, <2>4 DEF FirstInputs
  <2> QED BY <2>3, <2>5
<1> QED BY <1>2, <1>4, <1>6, <1>7

(* What the files hold does not change, and does not depend on their       *)
(* versions.                                                               *)
Plain(p, f, modifiers) ==
  IF f.kind \in {"archive", "thin"}
  THEN [i \in DOMAIN f.members |->
          [path |-> IF f.kind = "thin" THEN f.members[i] ELSE p,
           kind |-> MemberKind(f, i),
           modifiers |-> IF f.kind = "thin" THEN [modifiers EXCEPT !.archive_semantics = TRUE] ELSE modifiers]]
  ELSE <<[path |-> p, kind |-> f.kind, modifiers |-> modifiers]>>

LEMMA ContentsOfRecords ==
  ASSUME NEW p, NEW f, NEW modifiers
  PROVE  Contents(Records(p, f, modifiers)) = Plain(p, f, modifiers)
<1>1. CASE f.kind \in {"archive", "thin"}
  BY <1>1 DEF Contents, Records, Plain
<1>2. CASE f.kind \notin {"archive", "thin"}
  <2>1. Records(p, f, modifiers) = <<[path |-> p, kind |-> f.kind, version |-> version[p], modifiers |-> modifiers]>>
    BY <1>2 DEF Records
  <2>2. Plain(p, f, modifiers) = <<[path |-> p, kind |-> f.kind, modifiers |-> modifiers]>>
    BY <1>2 DEF Plain
  <2> QED BY <2>1, <2>2 DEF Contents
<1> QED BY <1>1, <1>2

(* The same of the next state.                                             *)
LEMMA ContentsOfRecordsNext ==
  ASSUME NEW p, world' = world
  PROVE  Contents(Records(p, world.files[p], ModifiersOf(p)))' = Plain(p, world.files[p], ModifiersOf(p))
<1> DEFINE f == world.files[p]
           m == ModifiersOf(p)
           lazy == [m EXCEPT !.archive_semantics = TRUE]
<1>1. PICK r : r = Records(p, f, m)'
  OBVIOUS
<1>2. m' = m /\ f' = f
  BY DEF ModifiersOf
<1>3. Contents(Records(p, f, m))' =
        [i \in DOMAIN r |-> [path |-> r[i].path, kind |-> r[i].kind, modifiers |-> r[i].modifiers]]
  BY <1>1 DEF Contents
<1>4. CASE f.kind \in {"archive", "thin"}
  <2>1. r = [i \in DOMAIN f.members |->
               [path |-> IF f.kind = "thin" THEN f.members[i] ELSE p,
                kind |-> MemberKind(f, i),
                version |-> IF f.kind = "thin" THEN version'[f.members[i]] ELSE version'[p],
                modifiers |-> IF f.kind = "thin" THEN lazy ELSE m]]
    BY <1>1, <1>2, <1>4 DEF Records, MemberKind
  <2>2. Plain(p, f, m) =
          [i \in DOMAIN f.members |->
             [path |-> IF f.kind = "thin" THEN f.members[i] ELSE p,
              kind |-> MemberKind(f, i),
              modifiers |-> IF f.kind = "thin" THEN lazy ELSE m]]
    BY <1>4 DEF Plain
  <2>3. DOMAIN r = DOMAIN f.members
    BY <2>1
  <2>4. \A i \in DOMAIN r : /\ r[i].path = IF f.kind = "thin" THEN f.members[i] ELSE p
                            /\ r[i].kind = MemberKind(f, i)
                            /\ r[i].modifiers = IF f.kind = "thin" THEN lazy ELSE m
    BY <2>1
  <2> HIDE DEF f, m, lazy
  <2>5. [i \in DOMAIN r |-> [path |-> r[i].path, kind |-> r[i].kind, modifiers |-> r[i].modifiers]]
          = Plain(p, f, m)
    BY <2>2, <2>3, <2>4
  <2> QED BY <1>3, <2>5 DEF f, m
<1>5. CASE f.kind \notin {"archive", "thin"}
  <2>1. r = <<[path |-> p, kind |-> f.kind, version |-> version'[p], modifiers |-> m]>>
    BY <1>1, <1>2, <1>5 DEF Records
  <2>2. Plain(p, f, m) = <<[path |-> p, kind |-> f.kind, modifiers |-> m]>>
    BY <1>5 DEF Plain
  <2> HIDE DEF f, m, lazy
  <2>3. [i \in DOMAIN r |-> [path |-> r[i].path, kind |-> r[i].kind, modifiers |-> r[i].modifiers]]
          = Plain(p, f, m)
    BY <2>1, <2>2
  <2> QED BY <1>3, <2>3 DEF f, m
<1> QED BY <1>4, <1>5

LEMMA SameWorld ==
  ASSUME world' = world
  PROVE  /\ Reached' = Reached /\ FirstInputs' = FirstInputs /\ FirstPaths' = FirstPaths
         /\ ModifiersAgree' = ModifiersAgree
         /\ \A i : LoadIndex(i)' = LoadIndex(i)
         /\ \A input : PathOf(input)' = PathOf(input)
         /\ \A p : ModifiersOf(p)' = ModifiersOf(p) /\ AskedBy(p)' = AskedBy(p) /\ Holds(p)' = Holds(p)
<1>1. Reached' = Reached /\ \A p : ModifiersOf(p)' = ModifiersOf(p)
  BY DEF Reached, ModifiersOf
<1>2. \A input : PathOf(input)' = PathOf(input)
  BY DEF PathOf
<1>3. FirstInputs' = FirstInputs
  BY <1>2 DEF FirstInputs
<1>4. \A i : LoadIndex(i)' = LoadIndex(i)
  BY <1>3 DEF LoadIndex
<1>5. FirstPaths' = FirstPaths
  <2>1. \A n : FirstAt(n)' = FirstAt(n)
    BY <1>3, <1>4, Zenon DEF FirstAt
  <2> QED BY <1>2, <1>3, <2>1 DEF FirstPaths
<1>6. DeplibModifiers' = DeplibModifiers
  BY DEF DeplibModifiers
<1>7. \A f, m : Asks(f, m)' = Asks(f, m)
  BY <1>6 DEF Asks
<1>8. \A p : AskedBy(p)' = AskedBy(p)
  BY <1>1, <1>7 DEF AskedBy
<1>9. \A p : OnCommandLine(p)' = OnCommandLine(p)
  BY <1>2 DEF OnCommandLine
<1>10. ModifiersAgree' = ModifiersAgree
  BY <1>1, <1>2, <1>3, <1>8, <1>9 DEF ModifiersAgree
<1>11. ASSUME NEW p
       PROVE  Holds(p)' = Holds(p)
  <2> DEFINE f == world.files[p]
             m == ModifiersOf(p)
             asks == Asks(f, m)
             paths == [i \in DOMAIN asks |-> PathOf(asks[i])]
  <2>1. f' = f /\ m' = m /\ asks' = asks /\ paths' = paths
    BY <1>1, <1>2, <1>7
  <2>3. Contents(Records(p, f, m)) = Plain(p, f, m)
    BY ContentsOfRecords
  <2>4. Contents(Records(p, f, m))' = Plain(p, f, m)
    BY ContentsOfRecordsNext, <1>1
  <2>5. Holds(p) = [fails |-> OpenFails(f, m) \/ \E i \in DOMAIN asks : paths[i] = NoPath,
                    script |-> f.kind = "script", asks |-> paths, records |-> Contents(Records(p, f, m))]
    BY DEF Holds
  <2>6. Holds(p)' = [fails |-> OpenFails(f, m)' \/ \E i \in DOMAIN asks' : paths'[i] = NoPath,
                     script |-> f'.kind = "script", asks |-> paths', records |-> Contents(Records(p, f, m))']
    BY DEF Holds
  <2>7. OpenFails(f, m)' = OpenFails(f, m)
    BY <2>1 DEF OpenFails, MemberKind, Refused
  <2> HIDE DEF f, m, asks, paths
  <2> QED BY <2>1, <2>3, <2>4, <2>5, <2>6, <2>7
<1> QED BY <1>1, <1>2, <1>3, <1>4, <1>5, <1>8, <1>10, <1>11

(* An answer stays true: a path that is claimed keeps its index.           *)
LEMMA AnsweredKept ==
  ASSUME world' = world, \A o : claimed[o] # NoPath => claimed'[o] = claimed[o],
         NEW p, NEW s \in Seq(Nat), Answered(p, s)
  PROVE  Answered(p, s)'
<1>1. \A k \in DOMAIN s : s[k] # NoPath
  BY WorldAssumption
<1>2. AskedBy(p)' = AskedBy(p) /\ \A input : PathOf(input)' = PathOf(input)
  BY SameWorld
<1> QED BY <1>1, <1>2 DEF Answered

(* What ModifiersAgree says of a file that was reached.                    *)
LEMMA ReachedFile ==
  ASSUME IInv, ModifiersAgree, world.inputs # << >>, NEW p \in Reached
  PROVE  /\ p \in Path /\ ModifiersOf(p) \in Modifiers
         /\ AskedBy(p) \in Seq(Input)
<1>1. p \in Path /\ ModifiersOf(p) \in Modifiers
  BY DEF ModifiersAgree
<1> QED BY <1>1, AsksType DEF AskedBy, IInv

LEMMA InitSequenceInv == Init /\ ModifiersAgree => SequenceInv
<1> SUFFICES ASSUME Init, ModifiersAgree PROVE SequenceInv
  OBVIOUS
<1>1. IInv
  BY InitIInv
<1>2. Claimed
  BY DEF Init, Claimed
<1>3. OpeningOrder
  BY DEF Init, OpeningOrder, RequestOrder, AllInOrder, ClaimHeld, InputOrder, Origin, Index
<1>4. ExtractionOrder
  BY DEF Init, ExtractionOrder
<1> QED BY <1>1, <1>2, <1>3, <1>4 DEF SequenceInv

(* Opening a file of the command line.                                     *)
LEMMA BeginLoadingOrder ==
  ASSUME SequenceInv, BeginLoading
  PROVE  OpeningOrder'
<1> USE DEF SequenceInv, IInv
<1>1. Index = {} /\ next_index = 0 /\ requests = {} /\ running = {} /\ files = {}
  <2>1. next_index = 0
    BY DEF BeginLoading, Phases
  <2>2. Index = {}
    BY <2>1 DEF Index
  <2> QED BY <2>1, <2>2 DEF Known
<1>2. world' = world /\ version' = version /\ running' = {} /\ files' = {}
  BY <1>1 DEF BeginLoading, opening
<1>3. AllInOrder'
  BY <1>2 DEF AllInOrder
<1>4. CASE \E i \in DOMAIN world.inputs : PathOf(world.inputs[i]) = NoPath
  <2>1. phase' = "verify" /\ requests' = {} /\ claimed' = claimed /\ next_index' = next_index
    BY <1>1, <1>4 DEF BeginLoading, opening
  <2>2. \A q \in Path : claimed[q] = NoPath
    BY <1>1 DEF Known
  <2>3. RequestOrder' /\ ClaimHeld' /\ InputOrder'
    BY <2>1, <2>2 DEF RequestOrder, ClaimHeld, InputOrder
  <2>4. Origin'
    <3>1. Index' = {}
      BY <1>1, <2>1 DEF Index
    <3> QED BY <3>1 DEF Origin
  <2> QED BY <1>3, <2>3, <2>4 DEF OpeningOrder
<1>5. CASE \A i \in DOMAIN world.inputs : PathOf(world.inputs[i]) # NoPath
  <2> DEFINE S == FirstInputs
             n == Cardinality(S)
             path(i) == PathOf(world.inputs[i])
  <2>1. /\ phase' = "open" /\ initial_count' = n /\ next_index' = n
        /\ requests' = {[index |-> LoadIndex(i), path |-> path(i),
                         modifiers |-> world.inputs[i].modifiers] : i \in S}
        /\ claimed' = [p \in Path |->
               IF \E i \in S : path(i) = p THEN LoadIndex(CHOOSE i \in S : path(i) = p) ELSE NoPath]
    BY <1>5 DEF BeginLoading
  <2>2. /\ S \subseteq DOMAIN world.inputs /\ n \in Nat
        /\ \A i, k \in S : path(i) = path(k) => i = k
    BY FirstInputsFacts
  <2>3. \A i \in S : path(i) # NoPath /\ path(i) \in Reached /\ path(i) \in Path
                     /\ ModifiersOf(path(i)) = world.inputs[i].modifiers
    BY <1>5, <2>2 DEF ModifiersAgree
  <2>4. /\ FirstInputs' = FirstInputs /\ Reached' = Reached
        /\ \A i : LoadIndex(i)' = LoadIndex(i)
        /\ \A input : PathOf(input)' = PathOf(input)
        /\ \A p : ModifiersOf(p)' = ModifiersOf(p)
    BY <1>2, SameWorld
  <2>5. \A i \in S : claimed'[path(i)] = LoadIndex(i)
    <3> TAKE i \in S
    <3> HIDE DEF S, path
    <3>1. (CHOOSE k \in S : path(k) = path(i)) = i
      BY <2>2
    <3> QED BY <2>1, <2>3, <3>1
  <2>6. InputOrder'
    BY <1>2, <1>5, <2>1, <2>4, <2>5 DEF InputOrder
  <2> HIDE DEF S, path, n
  <2>7. RequestOrder'
    BY <2>1, <2>3, <2>4 DEF RequestOrder
  <2>8. ClaimHeld'
    <3> SUFFICES ASSUME NEW q \in Path, claimed'[q] # NoPath
                 PROVE  \E x \in requests' : x.path = q
      BY DEF ClaimHeld
    <3>1. PICK i \in S : path(i) = q
      BY <2>1
    <3> DEFINE x == [index |-> LoadIndex(i), path |-> path(i), modifiers |-> world.inputs[i].modifiers]
    <3>2. x \in requests' /\ x.path = q
      BY <2>1, <3>1
    <3> QED BY <3>2, Zenon
  <2>9. Origin'
    <3>1. \A i \in Index' : ~(i >= initial_count')
      BY <2>1, <2>2 DEF Index
    <3> QED BY <3>1 DEF Origin
  <2> QED BY <1>3, <2>6, <2>7, <2>8, <2>9 DEF OpeningOrder
<1> QED BY <1>4, <1>5

LEMMA HoldsFacts ==
  ASSUME NEW p
  PROVE  /\ Holds(p).fails <=> \/ OpenFails(world.files[p], ModifiersOf(p))
                               \/ \E i \in DOMAIN AskedBy(p) : PathOf(AskedBy(p)[i]) = NoPath
         /\ Holds(p).script <=> world.files[p].kind = "script"
         /\ Holds(p).asks = [i \in DOMAIN AskedBy(p) |-> PathOf(AskedBy(p)[i])]
         /\ Holds(p).records = Contents(Records(p, world.files[p], ModifiersOf(p)))
<1> DEFINE f == world.files[p]
           m == ModifiersOf(p)
           asks == AskedBy(p)
           paths == [i \in DOMAIN asks |-> PathOf(asks[i])]
           fails == OpenFails(f, m) \/ \E i \in DOMAIN asks : paths[i] = NoPath
           script == f.kind = "script"
           records == Contents(Records(p, f, m))
<1>1. Holds(p) = [fails |-> fails, script |-> script, asks |-> paths, records |-> records]
  BY DEF Holds, AskedBy
<1>2. fails <=> OpenFails(f, m) \/ \E i \in DOMAIN asks : PathOf(asks[i]) = NoPath
  <2> HIDE DEF f, m, asks
  <2> QED OBVIOUS
<1>3. fails \in BOOLEAN /\ script \in BOOLEAN
  OBVIOUS
<1> HIDE DEF fails, script, paths, records
<1>4. /\ Holds(p).fails = fails /\ Holds(p).script = script
      /\ Holds(p).asks = paths /\ Holds(p).records = records
  BY <1>1
<1> QED BY <1>2, <1>3, <1>4 DEF paths, records, script

LEMMA InOrderKept ==
  ASSUME IInv, world' = world, \A o : claimed[o] # NoPath => claimed'[o] = claimed[o]
  PROVE  /\ \A t \in running : TaskInOrder(t) => TaskInOrder(t)'
         /\ \A f \in files : FileInOrder(f) => FileInOrder(f)'
<1>1. /\ Reached' = Reached
      /\ \A p : ModifiersOf(p)' = ModifiersOf(p) /\ AskedBy(p)' = AskedBy(p) /\ Holds(p)' = Holds(p)
  BY SameWorld
<1>2. ASSUME NEW t \in running, TaskInOrder(t)
      PROVE  TaskInOrder(t)'
  <2>1. t.indexes \in Seq(Nat)
    BY DEF IInv, TypeOK, Task
  <2>2. Answered(t.path, t.indexes)'
    BY <1>2, <2>1, AnsweredKept DEF TaskInOrder
  <2>3. OpenFails(world.files[t.path], ModifiersOf(t.path))' = OpenFails(world.files[t.path], ModifiersOf(t.path))
    BY <1>1 DEF OpenFails, MemberKind, Refused
  <2> QED BY <1>1, <1>2, <2>2, <2>3 DEF TaskInOrder
<1>3. ASSUME NEW f \in files, FileInOrder(f)
      PROVE  FileInOrder(f)'
  <2>1. CASE f.error
    BY <1>1, <1>3, <2>1 DEF FileInOrder
  <2>2. CASE ~f.error
    <3>1. f \in GoodFile
      BY <2>2 DEF IInv, TypeOK, FailedFile
    <3>2. f.indexes \in Seq(Nat)
      BY <3>1 DEF GoodFile
    <3>3. Answered(f.path, f.indexes)'
      BY <1>3, <2>2, <3>2, AnsweredKept DEF FileInOrder
    <3> QED BY <1>1, <1>3, <2>2, <3>3 DEF FileInOrder
  <2> QED BY <2>1, <2>2
<1> QED BY <1>2, <1>3

(* The task has the inputs of the file still to ask for.                   *)
LEMMA OpenFileOrder ==
  ASSUME SequenceInv, NEW r \in requests, OpenFile(r)
  PROVE  OpeningOrder'
<1> USE DEF SequenceInv, IInv
<1> DEFINE p == r.path
           f == world.files[p]
<1>1. /\ phase = "open" /\ phase' = phase /\ requests' = requests \ {r}
      /\ world' = world /\ claimed' = claimed /\ next_index' = next_index
      /\ initial_count' = initial_count
  BY DEF OpenFile
<1>2. Index' = Index
  BY <1>1 DEF Index
<1>3. /\ Reached' = Reached /\ FirstInputs' = FirstInputs
      /\ \A i : LoadIndex(i)' = LoadIndex(i)
      /\ \A input : PathOf(input)' = PathOf(input)
      /\ \A q : ModifiersOf(q)' = ModifiersOf(q) /\ AskedBy(q)' = AskedBy(q) /\ Holds(q)' = Holds(q)
  BY <1>1, SameWorld
<1>4. p \in Reached /\ r.modifiers = ModifiersOf(p)
  BY DEF OpeningOrder, RequestOrder
<1>5. RequestOrder' /\ InputOrder'
  BY <1>1, <1>3 DEF OpeningOrder, RequestOrder, InputOrder
<1>6. /\ \A t \in running : TaskInOrder(t)'
      /\ \A g \in files : FileInOrder(g)'
  BY <1>1, InOrderKept DEF OpeningOrder, AllInOrder
<1>7. CASE OpenFails(f, r.modifiers)
  <2> DEFINE x == [index |-> r.index, path |-> p, error |-> TRUE]
  <2>1. files' = files \cup {x} /\ running' = running
    BY <1>7, Zenon DEF OpenFile, RecordError
  <2>2. x.path = p /\ x.error
    OBVIOUS
  <2> HIDE DEF x
  <2>3. FileInOrder(x)'
    <3>1. Holds(p).fails
      BY <1>4, <1>7, HoldsFacts
    <3> QED BY <1>3, <1>4, <2>2, <3>1 DEF FileInOrder
  <2>4. AllInOrder'
    BY <1>6, <2>1, <2>3 DEF AllInOrder
  <2>5. ClaimHeld'
    BY <1>1, <2>1, <2>2 DEF OpeningOrder, ClaimHeld
  <2>6. Origin'
    BY <1>1, <1>2, <2>1 DEF OpeningOrder, Origin, Lists
  <2> QED BY <1>5, <2>4, <2>5, <2>6 DEF OpeningOrder
<1>8. CASE ~OpenFails(f, r.modifiers)
  <2>0. PICK t :
          t = [index |-> r.index, path |-> p, records |-> Records(p, f, r.modifiers),
               input_files |-> OpenedFiles(p), asks |-> Asks(f, r.modifiers), indexes |-> << >>]
    OBVIOUS
  <2>1. files' = files /\ running' = running \cup {t}
    BY <1>8, <2>0, Zenon DEF OpenFile, OpenedFiles
  <2>2. /\ t.path = p /\ t.records = Records(p, f, ModifiersOf(p)) /\ t.asks = AskedBy(p)
        /\ t.indexes = << >>
    BY <1>4, <2>0 DEF AskedBy
  <2>3. TaskInOrder(t)'
    <3>1. Contents(t.records) = Holds(p).records
      <4>1. Contents(t.records) = Contents(Records(p, world.files[p], ModifiersOf(p)))
        BY <2>2
      <4>2. Holds(p).records = Contents(Records(p, world.files[p], ModifiersOf(p)))
        BY HoldsFacts
      <4> QED BY <4>1, <4>2
    <3>2. OpenFails(f, ModifiersOf(p))' = OpenFails(f, ModifiersOf(p))
      BY <1>1, <1>3 DEF OpenFails, MemberKind, Refused
    <3>3. Answered(p, t.indexes)'
      BY <2>2 DEF Answered
    <3>4. AskedBy(p) \in Seq(Input)
      <4>1. r.index \in Index
        BY DEF Known
      <4>2. next_index > 0
        BY <4>1 DEF Index, TypeOK
      <4> QED BY <1>4, <4>2, ReachedFile DEF Known
    <3>5. /\ Len(t.indexes) + Len(t.asks) = Len(AskedBy(p))
          /\ \A k \in DOMAIN t.asks : t.asks[k] = AskedBy(p)[Len(t.indexes) + k]
      BY <2>2, <3>4
    <3> QED BY <1>3, <1>4, <1>8, <2>2, <3>1, <3>2, <3>3, <3>5 DEF TaskInOrder
  <2>4. AllInOrder'
    BY <1>6, <2>1, <2>3 DEF AllInOrder
  <2>5. ClaimHeld'
    BY <1>1, <2>1, <2>2 DEF OpeningOrder, ClaimHeld
  <2>6. Origin'
    BY <1>1, <1>2, <2>1 DEF OpeningOrder, Origin, Lists
  <2> QED BY <1>5, <2>4, <2>5, <2>6 DEF OpeningOrder
<1> QED BY <1>7, <1>8

(* A task that has asked for everything found every path.                  *)
LEMMA RecordFileOrder ==
  ASSUME SequenceInv, NEW t \in running, RecordFile(t)
  PROVE  OpeningOrder'
<1> USE DEF SequenceInv, IInv
<1> DEFINE x == [index |-> t.index, path |-> t.path, error |-> FALSE,
                 records |-> t.records, input_files |-> t.input_files, indexes |-> t.indexes]
           p == t.path
<1>1. /\ phase = "open" /\ phase' = phase /\ requests' = requests
      /\ world' = world /\ claimed' = claimed /\ next_index' = next_index
      /\ initial_count' = initial_count /\ t.asks = << >>
      /\ running' = running \ {t} /\ files' = files \cup {x}
  BY DEF RecordFile
<1>2. Index' = Index
  BY <1>1 DEF Index
<1>3. /\ Reached' = Reached /\ FirstInputs' = FirstInputs
      /\ \A i : LoadIndex(i)' = LoadIndex(i)
      /\ \A input : PathOf(input)' = PathOf(input)
      /\ \A q : ModifiersOf(q)' = ModifiersOf(q) /\ AskedBy(q)' = AskedBy(q) /\ Holds(q)' = Holds(q)
  BY <1>1, SameWorld
<1>4. RequestOrder' /\ InputOrder'
  BY <1>1, <1>3 DEF OpeningOrder, RequestOrder, InputOrder
<1>5. /\ \A y \in running : TaskInOrder(y)'
      /\ \A g \in files : FileInOrder(g)'
  BY <1>1, InOrderKept DEF OpeningOrder, AllInOrder
<1>6. /\ TaskInOrder(t)
      /\ x.path = p /\ x.index = t.index /\ ~x.error /\ x.indexes = t.indexes /\ x.records = t.records
  BY DEF OpeningOrder, AllInOrder
<1>7. t.indexes \in Seq(Nat)
  BY DEF TypeOK, Task
<1>8. AskedBy(p) \in Seq(Input)
  <2>1. t.index \in Index
    BY DEF Known
  <2>2. next_index > 0
    BY <2>1 DEF Index, TypeOK
  <2> QED BY <1>6, <2>2, ReachedFile DEF Known, TaskInOrder
<1> HIDE DEF x
<1>9. FileInOrder(x)'
  <2>1. Len(t.indexes) = Len(AskedBy(p))
    BY <1>1, <1>6, <1>7, <1>8 DEF TaskInOrder
  <2>2. \A k \in DOMAIN AskedBy(p) : PathOf(AskedBy(p)[k]) # NoPath
    BY <1>6, <1>7, <1>8, <2>1 DEF TaskInOrder, Answered
  <2>3. ~Holds(p).fails
    BY <1>6, <2>2, HoldsFacts DEF TaskInOrder
  <2>4. Answered(p, x.indexes)'
    BY <1>5, <1>6 DEF TaskInOrder
  <2>5. Contents(x.records) = Holds(p).records /\ p \in Reached
    BY <1>6 DEF TaskInOrder
  <2> QED BY <1>3, <1>6, <2>1, <2>3, <2>4, <2>5 DEF FileInOrder
<1>10. AllInOrder'
  BY <1>1, <1>5, <1>9 DEF AllInOrder
<1>11. ClaimHeld'
  BY <1>1, <1>6 DEF OpeningOrder, ClaimHeld
<1>12. Origin'
  BY <1>1, <1>2, <1>6 DEF OpeningOrder, Origin, Lists
<1> QED BY <1>4, <1>10, <1>11, <1>12 DEF OpeningOrder

(* Who asks for a path that nobody has claimed asks with the modifiers the *)
(* path is opened with, and has a smaller index than the path gets.        *)
LEMMA LoadInputOrder ==
  ASSUME SequenceInv, NEW t \in running, LoadInput(t)
  PROVE  OpeningOrder'
<1> USE DEF SequenceInv, IInv
<1> DEFINE input == Head(t.asks)
           p == PathOf(input)
           index == IF claimed[p] = NoPath THEN next_index ELSE claimed[p]
           n == Len(t.indexes)
           asked == AskedBy(t.path)
<1>1. /\ phase = "open" /\ phase' = phase /\ world' = world
      /\ initial_count' = initial_count
  BY DEF LoadInput
<1>2. t \in Task /\ t.index \in Index /\ TaskInOrder(t)
  BY DEF TypeOK, Known, OpeningOrder, AllInOrder
<1>3. t.asks \in Seq(Input) /\ t.asks # << >> /\ t.indexes \in Seq(Nat)
  BY <1>2 DEF Task, LoadInput
<1>4. input \in Input /\ Tail(t.asks) \in Seq(Input) /\ Len(Tail(t.asks)) = Len(t.asks) - 1
      /\ \A k \in DOMAIN Tail(t.asks) : k + 1 \in DOMAIN t.asks /\ Tail(t.asks)[k] = t.asks[k + 1]
  BY <1>3
<1>5. p \in Path \cup {NoPath}
  BY <1>4, PathOfType
<1>6. asked \in Seq(Input)
  <2>1. next_index > 0
    BY <1>2 DEF Index, TypeOK
  <2> QED BY <1>2, <2>1, ReachedFile DEF Known, TaskInOrder
<1>7. n \in Nat /\ n + 1 \in DOMAIN asked /\ asked[n + 1] = input
      /\ Len(t.indexes) + Len(t.asks) = Len(asked)
  <2>1. 1 \in DOMAIN t.asks /\ input = t.asks[1] /\ Len(t.asks) \in Nat \ {0} /\ Len(asked) \in Nat
    BY <1>3, <1>6
  <2>2. Len(t.indexes) \in Nat
    BY <1>3
  <2>3. Len(t.indexes) + Len(t.asks) = Len(asked) /\ t.asks[1] = asked[Len(t.indexes) + 1]
    BY <1>2, <2>1 DEF TaskInOrder
  <2>4. Len(t.indexes) + 1 \in 1 .. Len(asked) /\ DOMAIN asked = 1 .. Len(asked)
    <3>1. \A a, b, c \in Nat : b # 0 /\ a + b = c => a + 1 \in 1 .. c
      OBVIOUS
    <3>2. Len(t.indexes) + 1 \in 1 .. Len(asked)
      BY <2>1, <2>2, <2>3, <3>1
    <3> QED BY <1>6, <3>2
  <2> QED BY <2>1, <2>2, <2>3, <2>4
<1>8. /\ Reached' = Reached /\ FirstInputs' = FirstInputs
      /\ \A i : LoadIndex(i)' = LoadIndex(i)
      /\ \A x : PathOf(x)' = PathOf(x)
      /\ \A q : ModifiersOf(q)' = ModifiersOf(q) /\ AskedBy(q)' = AskedBy(q) /\ Holds(q)' = Holds(q)
  BY <1>1, SameWorld
<1>9. CASE p = NoPath
  <2> DEFINE x == [index |-> t.index, path |-> t.path, error |-> TRUE]
  <2>1. /\ files' = files \cup {x} /\ running' = running \ {t} /\ requests' = requests
        /\ claimed' = claimed /\ next_index' = next_index
    BY <1>9, Zenon DEF LoadInput, RecordError
  <2>2. x.path = t.path /\ x.index = t.index /\ x.error
    OBVIOUS
  <2> HIDE DEF x
  <2>3. Index' = Index
    BY <2>1 DEF Index
  <2>4. RequestOrder' /\ InputOrder'
    BY <1>1, <1>8, <2>1 DEF OpeningOrder, RequestOrder, InputOrder
  <2>5. FileInOrder(x)'
    <3>1. Holds(t.path).fails
      BY <1>7, <1>9, HoldsFacts
    <3> QED BY <1>2, <1>8, <2>2, <3>1 DEF FileInOrder, TaskInOrder
  <2>6. AllInOrder'
    BY <1>1, <2>1, <2>5, InOrderKept DEF OpeningOrder, AllInOrder
  <2>7. ClaimHeld'
    BY <2>1, <2>2 DEF OpeningOrder, ClaimHeld
  <2>8. Origin'
    BY <1>1, <2>1, <2>2, <2>3 DEF OpeningOrder, Origin, Lists
  <2> QED BY <2>4, <2>6, <2>7, <2>8 DEF OpeningOrder
<1>10. CASE p # NoPath
  <2> DEFINE q == [index |-> index, path |-> p, modifiers |-> input.modifiers]
  <2>0. PICK u : u = [t EXCEPT !.asks = Tail(@), !.indexes = Append(@, index)]
    OBVIOUS
  <2>1. /\ running' = (running \ {t}) \cup {u}
        /\ claimed' = [claimed EXCEPT ![p] = index]
        /\ files' = files
        /\ claimed[p] = NoPath => next_index' = next_index + 1 /\ requests' = requests \cup {q}
        /\ claimed[p] # NoPath => next_index' = next_index /\ requests' = requests
    BY <1>10, <2>0, Zenon DEF LoadInput
  <2>2. p \in Path /\ index \in Nat /\ next_index \in Nat
    BY <1>5, <1>10 DEF TypeOK, Known, Index
  <2>3. /\ u.index = t.index /\ u.path = t.path /\ u.records = t.records
        /\ u.asks = Tail(t.asks) /\ u.indexes = Append(t.indexes, index)
    BY <1>2, <2>0 DEF Task
  <2>4. /\ u.indexes \in Seq(Nat) /\ DOMAIN u.indexes = 1 .. n + 1 /\ Len(u.indexes) = n + 1
        /\ u.indexes[n + 1] = index /\ \A k \in 1 .. n : u.indexes[k] = t.indexes[k]
        /\ DOMAIN t.indexes = 1 .. n
    <3> HIDE DEF index
    <3> QED BY <1>3, <2>2, <2>3
  <2>5. claimed'[p] = index /\ \A o \in Path \ {p} : claimed'[o] = claimed[o]
    BY <2>1, <2>2 DEF TypeOK
  <2>6. \A o : claimed[o] # NoPath => claimed'[o] = claimed[o]
    <3> HIDE DEF p
    <3> QED BY <2>1, <2>5, <2>2 DEF TypeOK
  <2>7. \A o \in Path : claimed'[o] # NoPath => claimed[o] # NoPath \/ o = p
    BY <2>5
  <2>8. claimed[p] = NoPath => p \in Reached /\ input.modifiers = ModifiersOf(p)
    <3> SUFFICES ASSUME claimed[p] = NoPath
                 PROVE  p \in Reached /\ input.modifiers = ModifiersOf(p)
      OBVIOUS
    <3>1. ~OnCommandLine(p)
      <4> SUFFICES ASSUME NEW i \in DOMAIN world.inputs, PathOf(world.inputs[i]) = p
                   PROVE  FALSE
        BY DEF OnCommandLine
      <4>1. PICK k \in FirstInputs : PathOf(world.inputs[k]) = p
        BY FirstInputsFacts
      <4>2. claimed[p] = LoadIndex(k)
        BY <1>1, <4>1 DEF OpeningOrder, InputOrder
      <4>3. LoadIndex(k) \in Nat
        BY <4>1, FirstInputsFacts
      <4> QED BY <4>2, <4>3, WorldAssumption
    <3>2. t.path \in Reached
      BY <1>2 DEF TaskInOrder
    <3> QED BY <1>7, <1>10, <3>1, <3>2 DEF ModifiersAgree
  <2> HIDE DEF p, index, input, n, asked
  <2>9. RequestOrder'
    <3>1. \A r \in requests : r.path \in Reached' /\ r.modifiers = ModifiersOf(r.path)'
      BY <1>8 DEF OpeningOrder, RequestOrder
    <3>2. q.path = p /\ q.modifiers = input.modifiers
      OBVIOUS
    <3> QED BY <1>8, <2>1, <2>8, <3>1, <3>2 DEF RequestOrder
  <2>10. InputOrder'
    <3>1. \A i \in FirstInputs : LoadIndex(i) # NoPath
      BY FirstInputsFacts, WorldAssumption
    <3> QED BY <1>1, <1>8, <2>6, <3>1 DEF OpeningOrder, InputOrder
  <2>11. TaskInOrder(u)'
    <3>1. Answered(t.path, t.indexes)'
      BY <1>1, <1>2, <1>3, <2>6, AnsweredKept DEF TaskInOrder
    <3>2. \A k \in 1 .. n : /\ k \in DOMAIN asked
                           /\ PathOf(asked[k]) # NoPath
                           /\ u.indexes[k] = claimed'[PathOf(asked[k])]
      BY <1>8, <2>4, <3>1 DEF Answered, asked
    <3>3. n + 1 \in DOMAIN asked /\ PathOf(asked[n + 1]) = p
      BY <1>7 DEF p
    <3>4. \A k \in DOMAIN u.indexes : k \in 1 .. n \/ k = n + 1
      BY <1>7, <2>4
    <3>5. Answered(u.path, u.indexes)'
      <4>1. \A k \in DOMAIN u.indexes : /\ k \in DOMAIN asked
                                       /\ PathOf(asked[k]) # NoPath
                                       /\ u.indexes[k] = claimed'[PathOf(asked[k])]
        BY <1>10, <2>4, <2>5, <3>2, <3>3, <3>4
      <4> QED BY <1>8, <2>3, <4>1 DEF Answered, asked
    <3>6. Len(u.indexes) + Len(u.asks) = Len(asked)
      <4>1. Len(t.asks) \in Nat /\ n \in Nat /\ n = Len(t.indexes)
        BY <1>3 DEF n
      <4>2. Len(u.asks) = Len(t.asks) - 1
        BY <1>4, <2>3
      <4>3. n + Len(t.asks) = Len(asked)
        BY <1>7, <4>1
      <4>4. \A a, b, c \in Nat : a + b = c => (a + 1) + (b - 1) = c
        OBVIOUS
      <4>5. PICK b \in Nat : b = Len(t.asks)
        BY <4>1
      <4>6. PICK c \in Nat : c = Len(asked)
        BY <1>6
      <4>7. n + b = c
        BY <4>3, <4>5, <4>6
      <4>8. (n + 1) + (b - 1) = c
        BY <4>1, <4>4, <4>7
      <4> QED BY <2>4, <4>2, <4>5, <4>6, <4>8
    <3>7. \A k \in DOMAIN u.asks : u.asks[k] = asked[Len(u.indexes) + k]
      <4> SUFFICES ASSUME NEW k \in DOMAIN u.asks
                   PROVE  u.asks[k] = asked[Len(u.indexes) + k]
        OBVIOUS
      <4>1. k + 1 \in DOMAIN t.asks /\ u.asks[k] = t.asks[k + 1] /\ k \in Nat
        BY <1>4, <2>3
      <4>2. t.asks[k + 1] = asked[n + (k + 1)]
        BY <1>2, <4>1 DEF TaskInOrder, asked, n
      <4>3. n + (k + 1) = Len(u.indexes) + k
        BY <1>7, <2>4, <4>1
      <4> QED BY <4>1, <4>2, <4>3
    <3>8. OpenFails(world.files[t.path], ModifiersOf(t.path))' = OpenFails(world.files[t.path], ModifiersOf(t.path))
      BY <1>1, <1>8 DEF OpenFails, MemberKind, Refused
    <3>9. /\ t.path \in Reached /\ Contents(t.records) = Holds(t.path).records
          /\ ~OpenFails(world.files[t.path], ModifiersOf(t.path))
      BY <1>2 DEF TaskInOrder
    <3>10. Contents(u.records) = Holds(t.path).records
      BY <2>3, <3>9
    <3> QED BY <1>8, <2>3, <3>5, <3>6, <3>7, <3>8, <3>9, <3>10 DEF TaskInOrder, asked
  <2>12. AllInOrder'
    BY <1>1, <2>1, <2>6, <2>11, InOrderKept DEF OpeningOrder, AllInOrder
  <2>13. ClaimHeld'
    <3> SUFFICES ASSUME NEW o \in Path, claimed'[o] # NoPath
                 PROVE  \E x \in requests' \cup running' \cup files' : x.path = o
      BY DEF ClaimHeld
    <3>1. CASE claimed[o] # NoPath
      <4>1. PICK x \in requests \cup running \cup files : x.path = o
        BY <3>1 DEF OpeningOrder, ClaimHeld
      <4> QED BY <2>1, <2>3, <4>1
    <3>2. CASE claimed[o] = NoPath
      <4>1. o = p /\ q.path = p /\ q \in requests'
        BY <2>1, <2>7, <3>2
      <4> QED BY <4>1, Zenon
    <3> QED BY <3>1, <3>2
  <2>14. Origin'
    <3>1. \A i : Lists(t.indexes, i) => Lists(u.indexes, i)
      BY <1>7, <2>4 DEF Lists
    <3>2. \A i \in Index : i >= initial_count' =>
            \/ \E y \in running' : y.index < i /\ Lists(y.indexes, i)
            \/ \E f \in files' : f.index < i /\ (f.error \/ Lists(f.indexes, i))
      BY <1>1, <2>1, <2>3, <3>1 DEF OpeningOrder, Origin
    <3>3. CASE claimed[p] # NoPath
      <4>1. Index' = Index
        BY <2>1, <3>3 DEF Index
      <4> QED BY <3>2, <4>1 DEF Origin
    <3>4. CASE claimed[p] = NoPath
      <4>1. index = next_index
        BY <3>4 DEF index
      <4>2. \A i \in Index' : i \in Index \/ i = next_index
        BY <2>1, <2>2, <3>4 DEF Index
      <4>3. u.index < next_index /\ Lists(u.indexes, next_index) /\ u \in running'
        <5>1. n + 1 \in DOMAIN u.indexes
          BY <1>7, <2>4
        <5> QED BY <1>2, <2>1, <2>2, <2>3, <2>4, <4>1, <5>1 DEF Lists, Index
      <4> QED BY <3>2, <4>2, <4>3 DEF Origin
    <3> QED BY <3>3, <3>4
  <2> QED BY <2>9, <2>10, <2>12, <2>13, <2>14 DEF OpeningOrder
<1> QED BY <1>9, <1>10

(* The other steps leave the files and their indexes alone.                *)
LEMMA OtherOrder ==
  ASSUME SequenceInv, world' = world, opening' = opening,
         phase' \in {"open", "extract"} => phase \in {"open", "extract"}
  PROVE  OpeningOrder'
<1> USE DEF SequenceInv
<1>1. /\ claimed' = claimed /\ next_index' = next_index /\ requests' = requests /\ running' = running
      /\ files' = files /\ initial_count' = initial_count /\ Index' = Index
  BY DEF opening, Index
<1>2. /\ Reached' = Reached /\ FirstInputs' = FirstInputs
      /\ \A i : LoadIndex(i)' = LoadIndex(i)
      /\ \A input : PathOf(input)' = PathOf(input)
      /\ \A q : ModifiersOf(q)' = ModifiersOf(q)
  BY SameWorld
<1>3. RequestOrder' /\ InputOrder'
  BY <1>1, <1>2 DEF OpeningOrder, RequestOrder, InputOrder
<1>4. AllInOrder'
  BY <1>1, InOrderKept DEF OpeningOrder, AllInOrder
<1>5. ClaimHeld' /\ Origin'
  BY <1>1 DEF OpeningOrder, ClaimHeld, Origin, Lists
<1> QED BY <1>3, <1>4, <1>5 DEF OpeningOrder

LEMMA NextOpeningOrder == SequenceInv /\ [Next]_vars => OpeningOrder'
<1> SUFFICES ASSUME SequenceInv, [Next]_vars PROVE OpeningOrder'
  OBVIOUS
<1>1. CASE EndScope \/ ExtractFile \/ NextPass \/ VerifyInputsUnchanged
  <2>1. world' = world /\ opening' = opening
    BY <1>1 DEF EndScope, ExtractFile, NextPass, VerifyInputsUnchanged
  <2>2. phase' \in {"open", "extract"} => phase \in {"open", "extract"}
    BY <1>1 DEF EndScope, ExtractFile, NextPass, VerifyInputsUnchanged
  <2> QED BY <2>1, <2>2, OtherOrder
<1>2. CASE (\E p \in Path : ChangeFile(p)) \/ Ended \/ UNCHANGED vars
  <2>1. world' = world /\ opening' = opening /\ phase' = phase
    BY <1>2 DEF ChangeFile, Ended, vars
  <2> QED BY <2>1, OtherOrder
<1> QED BY <1>1, <1>2, BeginLoadingOrder, OpenFileOrder, LoadInputOrder, RecordFileOrder DEF Next, Step

(* What is known of the files once the scope has ended.                    *)
LEMMA FilesInOrder ==
  ASSUME SequenceInv, requests = {}, running = {}
  PROVE  /\ \A i \in Index : FileAt(i) \in files /\ FileAt(i).index = i /\ FileInOrder(FileAt(i))
         /\ \A i, j \in Index : FileAt(i).path = FileAt(j).path => i = j
         /\ \A q \in Path : claimed[q] # NoPath => claimed[q] \in Index /\ FileAt(claimed[q]).path = q
         /\ \A i \in Index : ~FileAt(i).error =>
              /\ FileAt(i).indexes \in Seq(Nat)
              /\ FileAt(i).records \in Seq(Record)
              /\ \A k \in DOMAIN FileAt(i).indexes : FileAt(i).indexes[k] \in Index
<1> USE DEF SequenceInv, IInv
<1>1. \A i \in Index : FileAt(i) \in files /\ FileAt(i).index = i
  BY OneFilePerIndex
<1>2. \A i \in Index : FileInOrder(FileAt(i))
  BY <1>1 DEF OpeningOrder, AllInOrder
<1>3. \A i \in Index : claimed[FileAt(i).path] = i
  BY <1>1 DEF Claimed
<1>4. \A q \in Path : claimed[q] # NoPath => claimed[q] \in Index /\ FileAt(claimed[q]).path = q
  <2> SUFFICES ASSUME NEW q \in Path, claimed[q] # NoPath
               PROVE  claimed[q] \in Index /\ FileAt(claimed[q]).path = q
    OBVIOUS
  <2>1. PICK f \in files : f.path = q
    BY DEF OpeningOrder, ClaimHeld
  <2>2. f.index = claimed[q] /\ claimed[q] \in Index
    BY <2>1 DEF Claimed, Known
  <2>3. FileAt(claimed[q]) = f
    BY <1>1, <2>2 DEF HeldOnce
  <2> QED BY <2>1, <2>2, <2>3
<1>5. ASSUME NEW i \in Index, ~FileAt(i).error
      PROVE  /\ FileAt(i).indexes \in Seq(Nat)
             /\ FileAt(i).records \in Seq(Record)
             /\ \A k \in DOMAIN FileAt(i).indexes : FileAt(i).indexes[k] \in Index
  <2>1. PICK f : f = FileAt(i)
    OBVIOUS
  <2>2. f \in files /\ ~f.error
    BY <1>1, <1>5, <2>1
  <2>3. f \in GoodFile
    BY <2>2 DEF TypeOK, FailedFile
  <2>4. f.indexes \in Seq(Nat) /\ f.records \in Seq(Record)
    BY <2>3 DEF GoodFile
  <2>5. \A k \in DOMAIN f.indexes : f.indexes[k] \in Index
    BY <2>2 DEF Known
  <2> QED BY <2>1, <2>4, <2>5
<1> QED BY <1>1, <1>2, <1>3, <1>4, <1>5

LEMMA ListsTail ==
  ASSUME NEW s \in Seq(Nat), s # << >>, NEW x, Lists(s, x)
  PROVE  x = Head(s) \/ Lists(Tail(s), x)
<1>1. PICK k \in DOMAIN s : s[k] = x
  BY DEF Lists
<1>2. CASE k = 1
  BY <1>1, <1>2
<1>3. CASE k # 1
  <2>1. k - 1 \in DOMAIN Tail(s) /\ Tail(s)[k - 1] = s[k]
    BY <1>3
  <2> QED BY <1>1, <2>1 DEF Lists
<1> QED BY <1>2, <1>3

LEMMA ListsJoin ==
  ASSUME NEW s \in Seq(Nat), NEW t \in Seq(Nat), NEW x, Lists(s, x) \/ Lists(t, x)
  PROVE  Lists(s \o t, x)
<1>1. CASE Lists(s, x)
  <2>1. PICK k \in DOMAIN s : s[k] = x
    BY <1>1 DEF Lists
  <2>2. k \in DOMAIN (s \o t) /\ (s \o t)[k] = x
    BY <2>1
  <2> QED BY <2>2 DEF Lists
<1>2. CASE Lists(t, x)
  <2>1. PICK k \in DOMAIN t : t[k] = x
    BY <1>2 DEF Lists
  <2>2. Len(s) + k \in DOMAIN (s \o t) /\ (s \o t)[Len(s) + k] = x
    BY <2>1
  <2> QED BY <2>2 DEF Lists
<1> QED BY <1>1, <1>2

(* When the dependent libraries are used up every file was extracted: the  *)
(* first one that was not would have been asked for by one that was.       *)
LEMMA AllTaken ==
  ASSUME SequenceInv, phase = "extract", pass # 3, work = << >>, pending = << >>
  PROVE  taken = Index
<1> USE DEF SequenceInv
<1>1. requests = {} /\ running = {}
  BY DEF IInv, Phases
<1>2. taken \subseteq Index
  BY DEF ExtractionOrder
<1>3. \A x : Coming(x) \/ Lists(pending, x) => x \in taken
  BY DEF Coming, Lists
<1> DEFINE Bad == Index \ taken
<1>4. ASSUME Bad # {}
      PROVE  FALSE
  <2>1. Bad \in SUBSET Nat
    BY DEF Index, IInv, TypeOK
  <2>2. PICK m \in Bad : \A j \in Bad : m <= j
    <3> HIDE DEF Bad
    <3> QED BY <1>4, <2>1, LeastNumber
  <2>3. m \in Index /\ m \notin taken /\ m \in Nat /\ initial_count \in Nat
    BY <2>1 DEF IInv, TypeOK
  <2>4. m >= initial_count
    <3>1. m < initial_count => m \in taken
      BY <1>3, <2>3 DEF ExtractionOrder
    <3> QED BY <2>3, <3>1
  <2>5. PICK f \in files : f.index < m /\ (f.error \/ Lists(f.indexes, m))
    BY <1>1, <2>3, <2>4 DEF OpeningOrder, Origin
  <2>6. f.index \in Index /\ FileAt(f.index) = f
    <3>1. f.index \in Index
      BY DEF IInv, Known
    <3>2. FileAt(f.index) \in files /\ FileAt(f.index).index = f.index
      BY <1>1, <3>1, FilesInOrder
    <3> QED BY <3>1, <3>2 DEF IInv, HeldOnce
  <2>7. f.index \in taken
    <3>1. f.index \in Nat /\ ~(m <= f.index)
      BY <2>3, <2>5, <2>6 DEF Index, IInv, TypeOK
    <3> QED BY <2>2, <2>6, <3>1
  <2>8. ~f.error
    BY <2>6, <2>7 DEF ExtractionOrder
  <2>9. PICK k \in DOMAIN f.indexes : f.indexes[k] = m
    BY <2>5, <2>8 DEF Lists
  <2>10. Coming(f.indexes[k]) \/ Lists(pending, f.indexes[k])
    BY <2>6, <2>7 DEF ExtractionOrder
  <2> QED BY <1>3, <2>3, <2>9, <2>10
<1> QED BY <1>2, <1>4

LEMMA ExtractFileExtraction ==
  ASSUME SequenceInv, ExtractFile
  PROVE  ExtractionOrder'
<1> USE DEF SequenceInv
<1>0. PICK i : i = Head(work)
  OBVIOUS
<1>1. phase = "extract" /\ work # << >> /\ pass' = pass /\ opening' = opening
  BY DEF ExtractFile
<1>2. files' = files /\ initial_count' = initial_count /\ Index' = Index /\ \A j : FileAt(j)' = FileAt(j)
  BY <1>1 DEF opening, Index, FileAt
<1>3. requests = {} /\ running = {}
  BY <1>1 DEF IInv, Phases
<1>4. work \in Seq(Nat) /\ pending \in Seq(Nat) /\ i \in Index /\ Tail(work) \in Seq(Nat)
  BY <1>0, <1>1, TailIndexes DEF IInv, TypeOK, Known
<1>5. /\ pass \in {1, 2, 3} /\ taken \subseteq Index /\ result = [state |-> "none"]
      /\ \A j \in taken : ~FileAt(j).error
      /\ pass # 3 => /\ \A j \in Index : j < initial_count => Coming(j)
                     /\ \A j \in taken : \A k \in DOMAIN FileAt(j).indexes :
                          Coming(FileAt(j).indexes[k]) \/ Lists(pending, FileAt(j).indexes[k])
      /\ pass = 3 => taken = Index /\ pending = << >>
  BY <1>1 DEF ExtractionOrder
<1>6. \A j : Lists(work, j) => j = i \/ Lists(Tail(work), j)
  BY <1>0, <1>1, <1>4, ListsTail
<1>7. CASE /\ i \in taken
           /\ work' = Tail(work)
           /\ UNCHANGED <<phase, result, pending, taken>>
  <2>1. \A j : Coming(j) => Coming(j)'
    BY <1>6, <1>7 DEF Coming, Lists
  <2>2. \A j : Lists(pending, j)' = Lists(pending, j)
    BY <1>7 DEF Lists
  <2> QED BY <1>1, <1>2, <1>5, <1>7, <2>1, <2>2 DEF ExtractionOrder
<1>8. CASE /\ i \notin taken
           /\ taken' = taken \cup {i}
           /\ phase' = "verify"
           /\ result' = Failed(FileAt(i).path)
           /\ UNCHANGED <<work, pending>>
  <2>1. result'.state # "none"
    BY <1>8 DEF Failed
  <2>2. taken' \subseteq Index'
    BY <1>2, <1>4, <1>5, <1>8
  <2> QED BY <1>1, <1>5, <1>8, <2>1, <2>2 DEF ExtractionOrder
<1>9. CASE /\ i \notin taken /\ ~FileAt(i).error
           /\ taken' = taken \cup {i}
           /\ work' = IF IsScript(FileAt(i)) THEN ScriptInPlace(FileAt(i), Tail(work)) ELSE Tail(work)
           /\ pending' = pending \o Deplibs(FileAt(i))
           /\ UNCHANGED <<phase, result>>
  <2>0. PICK s : s = FileAt(i).indexes
    OBVIOUS
  <2>1. s \in Seq(Nat)
    BY <1>3, <1>4, <1>9, <2>0, FilesInOrder
  <2>2. pass # 3
    BY <1>4, <1>5, <1>9
  <2>3. \A j : Lists(Tail(work), j) => Lists(work, j)'
    <3> SUFFICES ASSUME NEW j, Lists(Tail(work), j) PROVE Lists(work', j)
      BY DEF Lists
    <3>1. work' = s \o Tail(work) \/ work' = Tail(work)
      BY <1>9, <2>0 DEF ScriptInPlace
    <3>2. Lists(s \o Tail(work), j)
      BY <1>4, <2>1, ListsJoin
    <3> QED BY <3>1, <3>2
  <2>4. \A j : Lists(pending, j) => Lists(pending, j)'
    <3> SUFFICES ASSUME NEW j, Lists(pending, j) PROVE Lists(pending', j)
      BY DEF Lists
    <3>1. Deplibs(FileAt(i)) \in Seq(Nat)
      BY <2>0, <2>1 DEF Deplibs
    <3>2. Lists(pending \o Deplibs(FileAt(i)), j)
      BY <1>4, <3>1, ListsJoin
    <3> QED BY <1>9, <3>2
  <2>5. \A j : Coming(j) => Coming(j)'
    BY <1>6, <1>9, <2>3 DEF Coming
  <2>6. \A k \in DOMAIN s : Lists(work, s[k])' \/ Lists(pending, s[k])'
    <3> SUFFICES ASSUME NEW k \in DOMAIN s PROVE Lists(work', s[k]) \/ Lists(pending', s[k])
      BY DEF Lists
    <3>1. Lists(s, s[k])
      BY DEF Lists
    <3>2. CASE IsScript(FileAt(i))
      <4>1. work' = s \o Tail(work)
        BY <1>9, <2>0, <3>2 DEF ScriptInPlace
      <4>2. Lists(s \o Tail(work), s[k])
        BY <1>4, <2>1, <3>1, ListsJoin
      <4> QED BY <4>1, <4>2
    <3>3. CASE ~IsScript(FileAt(i))
      <4>1. pending' = pending \o s
        BY <1>9, <2>0, <3>3 DEF Deplibs
      <4>2. Lists(pending \o s, s[k])
        BY <1>4, <2>1, <3>1, ListsJoin
      <4> QED BY <4>1, <4>2
    <3> QED BY <3>2, <3>3
  <2>7. \A j \in taken' : \A k \in DOMAIN FileAt(j)'.indexes :
          Coming(FileAt(j).indexes[k])' \/ Lists(pending, FileAt(j).indexes[k])'
    <3> SUFFICES ASSUME NEW j \in taken', NEW k \in DOMAIN FileAt(j).indexes
                 PROVE  Coming(FileAt(j).indexes[k])' \/ Lists(pending, FileAt(j).indexes[k])'
      BY <1>2
    <3>1. PICK x : x = FileAt(j).indexes[k]
      OBVIOUS
    <3>2. Coming(x)' \/ Lists(pending, x)'
      <4>1. CASE j = i
        BY <2>0, <2>6, <3>1, <4>1 DEF Coming
      <4>2. CASE j # i
        <5>1. Coming(x) \/ Lists(pending, x)
          BY <1>5, <1>9, <2>2, <3>1, <4>2
        <5> QED BY <2>4, <2>5, <5>1
      <4> QED BY <4>1, <4>2
    <3>3. FileAt(j)'.indexes[k] = x
      BY <1>2, <3>1
    <3> QED BY <3>2, <3>3 DEF Coming, Lists
  <2>8. taken' \subseteq Index' /\ \A j \in taken' : ~FileAt(j)'.error
    BY <1>2, <1>4, <1>5, <1>9
  <2>9. \A j \in Index' : j < initial_count' => Coming(j)'
    BY <1>2, <1>5, <2>2, <2>5
  <2>10. pass' # 3 /\ pass' \in {1, 2, 3} /\ result' = [state |-> "none"] /\ phase' = "extract"
    BY <1>1, <1>5, <1>9, <2>2
  <2> QED BY <2>7, <2>8, <2>9, <2>10 DEF ExtractionOrder
<1> QED BY <1>0, <1>7, <1>8, <1>9, Zenon DEF ExtractFile

LEMMA NextPassExtraction ==
  ASSUME SequenceInv, NextPass
  PROVE  ExtractionOrder'
<1> USE DEF SequenceInv
<1>1. phase = "extract" /\ work = << >> /\ opening' = opening /\ taken' = taken
  BY DEF NextPass
<1>2. files' = files /\ initial_count' = initial_count /\ Index' = Index /\ \A j : FileAt(j)' = FileAt(j)
  BY <1>1 DEF opening, Index, FileAt
<1>3. /\ pass \in {1, 2, 3} /\ taken \subseteq Index /\ result = [state |-> "none"]
      /\ \A j \in taken : ~FileAt(j).error
      /\ pass # 3 => /\ \A j \in Index : j < initial_count => Coming(j)
                     /\ \A j \in taken : \A k \in DOMAIN FileAt(j).indexes :
                          Coming(FileAt(j).indexes[k]) \/ Lists(pending, FileAt(j).indexes[k])
      /\ pass = 3 => taken = Index /\ pending = << >>
  BY <1>1 DEF ExtractionOrder
<1>4. CASE /\ pass < 3 /\ pending # << >>
           /\ pass' = 2 /\ work' = <<Head(pending)>> /\ pending' = Tail(pending)
           /\ UNCHANGED <<phase, result>>
  <2>1. pending \in Seq(Nat)
    BY DEF IInv, TypeOK
  <2>2. \A j : Coming(j) => j \in taken
    BY <1>1 DEF Coming, Lists
  <2>3. \A j : Lists(pending, j) => Lists(work, j)' \/ Lists(pending, j)'
    <3> SUFFICES ASSUME NEW j, Lists(pending, j) PROVE Lists(work', j) \/ Lists(pending', j)
      BY DEF Lists
    <3>1. j = Head(pending) \/ Lists(Tail(pending), j)
      BY <1>4, <2>1, ListsTail
    <3>2. Lists(<<Head(pending)>>, Head(pending))
      <4>1. 1 \in DOMAIN <<Head(pending)>> /\ <<Head(pending)>>[1] = Head(pending)
        OBVIOUS
      <4> QED BY <4>1 DEF Lists
    <3> QED BY <1>4, <3>1, <3>2
  <2>4. \A j \in taken' : \A k \in DOMAIN FileAt(j)'.indexes :
          Coming(FileAt(j).indexes[k])' \/ Lists(pending, FileAt(j).indexes[k])'
    <3> SUFFICES ASSUME NEW j \in taken, NEW k \in DOMAIN FileAt(j).indexes
                 PROVE  Coming(FileAt(j).indexes[k])' \/ Lists(pending, FileAt(j).indexes[k])'
      BY <1>1, <1>2
    <3>1. PICK x : x = FileAt(j).indexes[k]
      OBVIOUS
    <3>2. Coming(x) \/ Lists(pending, x)
      BY <1>3, <1>4, <3>1
    <3>3. x \in taken \/ Lists(work, x)' \/ Lists(pending, x)'
      BY <2>2, <2>3, <3>2
    <3>4. FileAt(j)'.indexes[k] = x
      BY <1>2, <3>1
    <3> QED BY <1>1, <3>3, <3>4 DEF Coming, Lists
  <2>5. \A j \in Index : j < initial_count => j \in taken
    BY <1>3, <1>4, <2>2
  <2> QED BY <1>1, <1>2, <1>3, <1>4, <2>4, <2>5 DEF ExtractionOrder, Coming
<1>5. CASE /\ pass < 3 /\ pending = << >>
           /\ pass' = 3
           /\ UNCHANGED <<phase, result, pending>>
  <2>1. pass # 3
    BY <1>3, <1>5
  <2>2. taken = Index
    BY <1>1, <1>5, <2>1, AllTaken
  <2> QED BY <1>1, <1>2, <1>3, <1>5, <2>2 DEF ExtractionOrder
<1>6. CASE /\ phase' = "verify" /\ result' = [state |-> "loaded"]
           /\ UNCHANGED <<pass, work, pending>>
  BY <1>1, <1>2, <1>3, <1>6 DEF ExtractionOrder
<1> QED BY <1>4, <1>5, <1>6, Zenon DEF NextPass, PopPending

LEMMA NextExtractionOrder == SequenceInv /\ [Next]_vars => ExtractionOrder'
<1> SUFFICES ASSUME SequenceInv, [Next]_vars PROVE ExtractionOrder'
  OBVIOUS
<1> USE DEF SequenceInv
<1>1. CASE BeginLoading
  <2>1. /\ phase = "start" /\ extraction' = extraction
        /\ \/ phase' = "verify" /\ result'.state # "none"
           \/ phase' = "open" /\ result' = result
    BY <1>1 DEF BeginLoading, Failed
  <2> QED BY <2>1 DEF ExtractionOrder, extraction
<1>2. CASE \/ \E r \in requests : OpenFile(r)
           \/ \E t \in running : LoadInput(t) \/ RecordFile(t)
  <2>1. phase = "open" /\ phase' = "open" /\ extraction' = extraction /\ result' = result
    BY <1>2 DEF OpenFile, LoadInput, RecordFile
  <2> QED BY <2>1 DEF ExtractionOrder, extraction
<1>3. CASE EndScope
  <2>1. /\ phase = "open" /\ opening' = opening /\ result' = result
        /\ pass' = pass /\ pending' = pending /\ taken' = taken /\ loaded' = loaded
    BY <1>3, EndScopeIInv DEF EndScope
  <2>2. /\ pass = 1 /\ taken = {} /\ pending = << >> /\ result = [state |-> "none"]
    BY <2>1 DEF ExtractionOrder
  <2>3. phase' = "extract" /\ work' = [i \in 1 .. initial_count |-> i - 1]
    BY <1>3, <2>1, <2>2, Zenon DEF EndScope
  <2>4. Index' = Index /\ initial_count' = initial_count /\ Index \subseteq Nat
    BY <2>1 DEF opening, Index, IInv, TypeOK
  <2>5. \A i \in Index' : i < initial_count' => Coming(i)'
    <3> SUFFICES ASSUME NEW i \in Index, i < initial_count PROVE Lists(work', i)
      BY <2>4 DEF Coming, Lists
    <3>1. initial_count \in Nat /\ i \in Nat
      BY <2>4 DEF IInv, TypeOK
    <3>2. i + 1 \in DOMAIN work' /\ work'[i + 1] = i
      BY <2>3, <3>1
    <3> QED BY <3>2 DEF Lists
  <2> QED BY <2>1, <2>2, <2>3, <2>5 DEF ExtractionOrder
<1>4. CASE VerifyInputsUnchanged
  <2>1. /\ phase = "verify" /\ phase' = "end" /\ extraction' = extraction /\ opening' = opening
        /\ result' = [state |-> "changed"] \/ result' = result
    BY <1>4 DEF VerifyInputsUnchanged
  <2>2. result'.state # "none"
    BY <2>1 DEF ExtractionOrder
  <2> QED BY <2>1, <2>2 DEF ExtractionOrder, extraction, opening, Index
<1>5. CASE (\E p \in Path : ChangeFile(p)) \/ Ended \/ UNCHANGED vars
  <2>1. phase' = phase /\ extraction' = extraction /\ opening' = opening /\ result' = result
    BY <1>5 DEF ChangeFile, Ended, vars
  <2>2. /\ files' = files /\ initial_count' = initial_count /\ Index' = Index
        /\ work' = work /\ pending' = pending /\ taken' = taken /\ pass' = pass /\ loaded' = loaded
    BY <2>1 DEF opening, extraction, Index
  <2> QED BY <2>1, <2>2 DEF ExtractionOrder, Coming, Lists, FileAt
<1> QED BY <1>1, <1>2, <1>3, <1>4, <1>5, ExtractFileExtraction, NextPassExtraction DEF Next, Step

LEMMA NextSequenceInv == SequenceInv /\ [Next]_vars => SequenceInv'
<1> SUFFICES ASSUME SequenceInv, [Next]_vars PROVE SequenceInv'
  OBVIOUS
<1>1. world' = world
  BY DEF Next, Step, vars, BeginLoading, OpenFile, LoadInput, RecordFile, EndScope, ExtractFile, NextPass,
     VerifyInputsUnchanged, ChangeFile, Ended
<1>2. ModifiersAgree'
  BY <1>1, SameWorld DEF SequenceInv
<1> QED BY <1>2, NextIInv, NextClaimed, NextOpeningOrder, NextExtractionOrder DEF SequenceInv

---------------------------------------------------------------------------
(* What the abstract state is made of: lists whose elements are mapped.    *)
Mapped(f, s) == [i \in DOMAIN s |-> f[s[i]]]

LEMMA MapJoin ==
  ASSUME NEW S, NEW f, NEW s \in Seq(S), NEW t \in Seq(S)
  PROVE  Mapped(f, s \o t) = Mapped(f, s) \o Mapped(f, t)
<1> DEFINE a == [i \in DOMAIN s |-> f[s[i]]]
           b == [i \in DOMAIN t |-> f[t[i]]]
           c == [i \in DOMAIN (s \o t) |-> f[(s \o t)[i]]]
           T == {f[x] : x \in S}
<1>1. /\ s \o t \in Seq(S) /\ Len(s \o t) = Len(s) + Len(t)
      /\ DOMAIN s = 1 .. Len(s) /\ DOMAIN t = 1 .. Len(t) /\ DOMAIN (s \o t) = 1 .. Len(s) + Len(t)
      /\ Len(s) \in Nat /\ Len(t) \in Nat
  OBVIOUS
<1>2. a \in Seq(T) /\ Len(a) = Len(s) /\ b \in Seq(T) /\ Len(b) = Len(t)
  <2>1. a \in [1 .. Len(s) -> T] /\ b \in [1 .. Len(t) -> T]
    BY <1>1
  <2> HIDE DEF a, b, T
  <2> QED BY <1>1, <2>1
<1>3. DOMAIN c = 1 .. Len(s) + Len(t)
  BY <1>1
<1>4. ASSUME NEW i \in 1 .. Len(s) + Len(t)
      PROVE  c[i] = (a \o b)[i]
  <2>1. c[i] = f[(s \o t)[i]]
    BY <1>1
  <2>2. CASE i <= Len(s)
    <3>1. i \in DOMAIN s /\ (s \o t)[i] = s[i]
      BY <1>1, <2>2
    <3>2. a[i] = f[s[i]]
      BY <3>1
    <3> HIDE DEF a, b, c
    <3>3. (a \o b)[i] = a[i]
      BY <1>1, <1>2, <2>2
    <3> QED BY <2>1, <3>1, <3>2, <3>3
  <2>3. CASE ~(i <= Len(s))
    <3>1. i - Len(s) \in DOMAIN t /\ (s \o t)[i] = t[i - Len(s)]
      BY <1>1, <2>3
    <3>2. b[i - Len(s)] = f[t[i - Len(s)]]
      BY <3>1
    <3> HIDE DEF a, b, c
    <3>3. (a \o b)[i] = b[i - Len(s)]
      BY <1>1, <1>2, <2>3
    <3> QED BY <2>1, <3>1, <3>2, <3>3
  <2> QED BY <2>2, <2>3
<1>5. c = [i \in 1 .. Len(s) + Len(t) |-> c[i]]
  BY <1>3
<1> HIDE DEF a, b, c, T
<1>6. a \o b = [i \in 1 .. Len(s) + Len(t) |-> (a \o b)[i]]
  <2>1. \A x, y \in Seq(T) : x \o y \in Seq(T) /\ Len(x \o y) = Len(x) + Len(y)
    OBVIOUS
  <2>2. \A x \in Seq(T) : x = [i \in 1 .. Len(x) |-> x[i]]
    OBVIOUS
  <2>3. a \o b \in Seq(T)
    BY <1>2, <2>1
  <2>4. Len(a \o b) = Len(s) + Len(t)
    BY <1>2, <2>1
  <2> QED BY <2>2, <2>3, <2>4
<1>7. c = a \o b
  BY <1>4, <1>5, <1>6
<1> QED BY <1>7 DEF a, b, c, Mapped

LEMMA PathsAtFacts ==
  /\ PathsAt(<< >>) = << >>
  /\ \A s, t \in Seq(Nat) : PathsAt(s \o t) = PathsAt(s) \o PathsAt(t)
  /\ \A i \in Nat : PathsAt(<<i>>) = <<FileAt(i).path>>
  /\ \A s \in Seq(Nat) : s # << >> =>
       /\ PathsAt(s) # << >> /\ Head(PathsAt(s)) = FileAt(Head(s)).path
       /\ Tail(PathsAt(s)) = PathsAt(Tail(s))
<1> DEFINE f == [i \in Nat |-> FileAt(i).path]
           T == {FileAt(i).path : i \in Nat}
<1>1. f \in [Nat -> T]
  OBVIOUS
<1>2. ASSUME NEW s \in Seq(Nat)
      PROVE  /\ PathsAt(s) = Mapped(f, s)
             /\ DOMAIN s = 1 .. Len(s) /\ Len(s) \in Nat /\ PathsAt(s) \in Seq(T) /\ Len(PathsAt(s)) = Len(s)
  <2>1. DOMAIN s = 1 .. Len(s) /\ Len(s) \in Nat /\ \A i \in DOMAIN s : s[i] \in Nat
    OBVIOUS
  <2>2. PathsAt(s) = Mapped(f, s)
    BY <2>1 DEF PathsAt, Mapped
  <2>3. PathsAt(s) \in [1 .. Len(s) -> T]
    BY <1>1, <2>1, <2>2 DEF Mapped
  <2> HIDE DEF f, T
  <2>4. PathsAt(s) \in Seq(T) /\ Len(PathsAt(s)) = Len(s)
    BY <2>1, <2>3
  <2> QED BY <2>1, <2>2, <2>4
<1>3. PathsAt(<< >>) = << >>
  BY DEF PathsAt
<1>4. ASSUME NEW s \in Seq(Nat), NEW t \in Seq(Nat)
      PROVE  PathsAt(s \o t) = PathsAt(s) \o PathsAt(t)
  <2>1. s \o t \in Seq(Nat)
    OBVIOUS
  <2>2. PathsAt(s) = Mapped(f, s) /\ PathsAt(t) = Mapped(f, t) /\ PathsAt(s \o t) = Mapped(f, s \o t)
    BY <1>2, <2>1
  <2> HIDE DEF f, T
  <2>3. PICK g : g = f
    OBVIOUS
  <2>4. Mapped(g, s \o t) = Mapped(g, s) \o Mapped(g, t)
    BY MapJoin
  <2> QED BY <2>2, <2>3, <2>4
<1>5. ASSUME NEW i \in Nat
      PROVE  PathsAt(<<i>>) = <<FileAt(i).path>>
  BY DEF PathsAt
<1>6. ASSUME NEW s \in Seq(Nat), s # << >>
      PROVE  /\ PathsAt(s) # << >> /\ Head(PathsAt(s)) = FileAt(Head(s)).path
             /\ Tail(PathsAt(s)) = PathsAt(Tail(s))
  <2>1. s = <<Head(s)>> \o Tail(s) /\ Head(s) \in Nat /\ Tail(s) \in Seq(Nat) /\ <<Head(s)>> \in Seq(Nat)
    BY <1>6
  <2> DEFINE h == FileAt(Head(s)).path
             r == PathsAt(Tail(s))
  <2>2. PathsAt(s) = <<h>> \o r
    <3>1. PathsAt(<<Head(s)>> \o Tail(s)) = PathsAt(<<Head(s)>>) \o PathsAt(Tail(s))
      BY <1>4, <2>1
    <3> QED BY <1>5, <2>1, <3>1
  <2>3. r \in Seq(T) /\ h \in T
    BY <1>2, <2>1
  <2> HIDE DEF h, r, T
  <2>4. <<h>> \o r # << >> /\ Head(<<h>> \o r) = h /\ Tail(<<h>> \o r) = r
    BY <2>3
  <2> QED BY <2>2, <2>4 DEF h, r
<1> QED BY <1>3, <1>4, <1>5, <1>6

LEMMA ContentsJoin ==
  ASSUME NEW a \in Seq(Record), NEW b \in Seq(Record)
  PROVE  Contents(a \o b) = Contents(a) \o Contents(b)
<1> DEFINE f == [r \in Record |-> [path |-> r.path, kind |-> r.kind, modifiers |-> r.modifiers]]
           T == {f[r] : r \in Record}
<1>1. f \in [Record -> T]
  OBVIOUS
<1>2. ASSUME NEW s \in Seq(Record)
      PROVE  Contents(s) = Mapped(f, s)
  <2>1. \A i \in DOMAIN s : s[i] \in Record
    BY Elements
  <2> QED BY <2>1 DEF Contents, Mapped
<1>3. a \o b \in Seq(Record)
  OBVIOUS
<1>4. Contents(a) = Mapped(f, a) /\ Contents(b) = Mapped(f, b) /\ Contents(a \o b) = Mapped(f, a \o b)
  BY <1>2, <1>3
<1> HIDE DEF f, T
<1>5. Mapped(f, a \o b) = Mapped(f, a) \o Mapped(f, b)
  BY MapJoin
<1> QED BY <1>4, <1>5

LEMMA FirstAtFacts ==
  ASSUME TypeOK
  PROVE  /\ \A n \in 1 .. Cardinality(FirstInputs) : FirstAt(n) \in FirstInputs /\ LoadIndex(FirstAt(n)) = n - 1
         /\ \A i \in FirstInputs : LoadIndex(i) + 1 \in 1 .. Cardinality(FirstInputs) /\ FirstAt(LoadIndex(i) + 1) = i
<1> DEFINE c == Cardinality(FirstInputs)
<1>0. c \in Nat
  BY FirstInputsFacts
<1>1. ASSUME NEW n \in 1 .. c
      PROVE  FirstAt(n) \in FirstInputs /\ LoadIndex(FirstAt(n)) = n - 1
  <2>1. n - 1 \in 0 .. c - 1
    BY <1>0
  <2>2. \E i \in FirstInputs : LoadIndex(i) = n - 1
    BY <2>1, FirstInputsFacts
  <2> QED BY <2>2 DEF FirstAt
<1>2. ASSUME NEW i \in FirstInputs
      PROVE  LoadIndex(i) + 1 \in 1 .. c /\ FirstAt(LoadIndex(i) + 1) = i
  <2>1. LoadIndex(i) \in 0 .. c - 1
    BY FirstInputsFacts
  <2>2. LoadIndex(i) + 1 \in 1 .. c /\ (LoadIndex(i) + 1) - 1 = LoadIndex(i)
    BY <1>0, <2>1
  <2>3. FirstAt(LoadIndex(i) + 1) \in FirstInputs /\ LoadIndex(FirstAt(LoadIndex(i) + 1)) = LoadIndex(i)
    BY <1>1, <2>2
  <2> QED BY <2>2, <2>3, FirstInputsFacts
<1> QED BY <1>1, <1>2

(* A name that leads nowhere is missing among the first inputs too.        *)
LEMMA MissingPath ==
  ASSUME TypeOK
  PROVE  Sequential!Missing <=> \E i \in DOMAIN world.inputs : PathOf(world.inputs[i]) = NoPath
<1>1. ASSUME NEW i \in DOMAIN world.inputs, PathOf(world.inputs[i]) = NoPath
      PROVE  Sequential!Missing
  <2>1. PICK k \in FirstInputs : PathOf(world.inputs[k]) = NoPath
    BY <1>1, FirstInputsFacts
  <2>2. LoadIndex(k) + 1 \in DOMAIN FirstPaths /\ FirstPaths[LoadIndex(k) + 1] = NoPath
    BY <2>1, FirstAtFacts DEF FirstPaths
  <2> QED BY <2>2 DEF Sequential!Missing
<1>2. ASSUME Sequential!Missing
      PROVE  \E i \in DOMAIN world.inputs : PathOf(world.inputs[i]) = NoPath
  <2>1. PICK n \in DOMAIN FirstPaths : FirstPaths[n] = NoPath
    BY <1>2 DEF Sequential!Missing
  <2>2. n \in 1 .. Cardinality(FirstInputs) /\ PathOf(world.inputs[FirstAt(n)]) = NoPath
    BY <2>1 DEF FirstPaths
  <2>3. FirstAt(n) \in DOMAIN world.inputs
    BY <2>2, FirstAtFacts, FirstInputsFacts
  <2> QED BY <2>2, <2>3
<1> QED BY <1>1, <1>2

(* When the files are put in order those of the command line come first.   *)
LEMMA FirstPathsAt ==
  ASSUME SequenceInv, phase = "open", requests = {}, running = {}
  PROVE  PathsAt([i \in 1 .. initial_count |-> i - 1]) = FirstPaths
<1> USE DEF SequenceInv, IInv
<1>1. /\ initial_count = Cardinality(FirstInputs) /\ initial_count \in Nat
      /\ \A i \in DOMAIN world.inputs : PathOf(world.inputs[i]) # NoPath
      /\ \A i \in FirstInputs : claimed[PathOf(world.inputs[i])] = LoadIndex(i)
  BY DEF OpeningOrder, InputOrder, TypeOK
<1>2. ASSUME NEW n \in 1 .. initial_count
      PROVE  FileAt(n - 1).path = PathOf(world.inputs[FirstAt(n)])
  <2>1. FirstAt(n) \in FirstInputs /\ LoadIndex(FirstAt(n)) = n - 1
    BY <1>1, FirstAtFacts
  <2> DEFINE q == PathOf(world.inputs[FirstAt(n)])
  <2>2. FirstAt(n) \in DOMAIN world.inputs /\ q # NoPath
    BY <1>1, <2>1, FirstInputsFacts
  <2>3. world.inputs[FirstAt(n)] \in Input
    <3>1. world.inputs \in Seq(Input)
      BY DEF TypeOK, World
    <3> QED BY <2>2, <3>1, Elements
  <2>4. q \in Path
    BY <2>2, <2>3, PathOfType
  <2>5. claimed[q] = n - 1 /\ n - 1 \in Nat
    BY <1>1, <2>1
  <2>6. claimed[q] # NoPath
    BY <2>5, WorldAssumption
  <2>7. FileAt(claimed[q]).path = q
    BY <2>4, <2>6, FilesInOrder
  <2> QED BY <2>5, <2>7
<1>3. PathsAt([i \in 1 .. initial_count |-> i - 1]) = [n \in 1 .. initial_count |-> FileAt(n - 1).path]
  BY DEF PathsAt
<1> QED BY <1>1, <1>2, <1>3 DEF FirstPaths

(* The indexes a file has got are those of the paths it asks for.          *)
LEMMA AskedPaths ==
  ASSUME SequenceInv, requests = {}, running = {}, NEW i \in Index, ~FileAt(i).error
  PROVE  Holds(FileAt(i).path).asks = PathsAt(FileAt(i).indexes)
<1> USE DEF SequenceInv, IInv
<1> DEFINE p == FileAt(i).path
           s == FileAt(i).indexes
<1>1. /\ p \in Reached /\ Len(s) = Len(AskedBy(p)) /\ Answered(p, s) /\ s \in Seq(Nat)
  BY FilesInOrder DEF FileInOrder
<1>2. AskedBy(p) \in Seq(Input)
  <2>1. next_index > 0
    BY DEF Index, TypeOK
  <2> QED BY <1>1, <2>1, ReachedFile DEF Known
<1>3. DOMAIN s = DOMAIN AskedBy(p)
  BY <1>1, <1>2
<1>4. ASSUME NEW k \in DOMAIN s
      PROVE  FileAt(s[k]).path = PathOf(AskedBy(p)[k])
  <2> DEFINE q == PathOf(AskedBy(p)[k])
  <2>1. q # NoPath /\ s[k] = claimed[q]
    BY <1>1 DEF Answered
  <2>2. AskedBy(p)[k] \in Input
    BY <1>2, <1>3, Elements
  <2>3. q \in Path
    BY <2>1, <2>2, PathOfType
  <2>4. s[k] \in Nat
    BY <1>1, Elements
  <2>5. claimed[q] # NoPath
    BY <2>1, <2>4, WorldAssumption
  <2>6. FileAt(claimed[q]).path = q
    BY <2>3, <2>5, FilesInOrder
  <2> QED BY <2>1, <2>6
<1>5. Holds(p).asks = [k \in DOMAIN AskedBy(p) |-> PathOf(AskedBy(p)[k])]
  BY HoldsFacts
<1> HIDE DEF p, s
<1>6. Holds(p).asks = PathsAt(s)
  BY <1>3, <1>4, <1>5 DEF PathsAt
<1> QED BY <1>6 DEF p, s

---------------------------------------------------------------------------
(* Every step of loading is one of the thread that opens the files in      *)
(* order, or none of its business.                                         *)

(* While the files are opened the thread has not begun.                    *)
LEMMA OpeningStep ==
  ASSUME SequenceInv, world' = world, phase \in {"start", "open"}, phase' \in {"start", "open"},
         extraction' = extraction, result' = result
  PROVE  UNCHANGED Sequential!vars
<1>1. /\ pending = << >> /\ pending' = << >> /\ taken = {} /\ taken' = {} /\ loaded' = loaded
  BY DEF SequenceInv, ExtractionOrder, extraction
<1>2. FirstPaths' = FirstPaths /\ Agenda' = Agenda /\ [p \in Reached |-> Holds(p)]' = [p \in Reached |-> Holds(p)]
  BY SameWorld DEF Agenda
<1>3. PathsAt(pending)' = PathsAt(pending)
  BY <1>1 DEF PathsAt
<1>4. {FileAt(i).path : i \in taken}' = {FileAt(i).path : i \in taken}
  BY <1>1
<1>5. Contents(loaded)' = Contents(loaded)
  BY <1>1 DEF Contents
<1> QED BY <1>2, <1>3, <1>4, <1>5 DEF Sequential!vars

LEMMA BeginLoadingStep ==
  ASSUME SequenceInv, BeginLoading
  PROVE  [Sequential!Next]_Sequential!vars
<1>1. phase = "start" /\ world' = world /\ extraction' = extraction
  BY DEF BeginLoading
<1>2. CASE \E i \in DOMAIN world.inputs : PathOf(world.inputs[i]) = NoPath
  <2>1. phase' = "verify" /\ result' = Failed(NoPath)
    BY <1>2 DEF BeginLoading
  <2>2. /\ pending = << >> /\ pending' = << >> /\ taken = {} /\ taken' = {} /\ loaded' = loaded
        /\ work' = << >> /\ pass' = 1 /\ result = [state |-> "none"]
    BY <1>1 DEF SequenceInv, ExtractionOrder, extraction
  <2>3. FirstPaths' = FirstPaths /\ [p \in Reached |-> Holds(p)]' = [p \in Reached |-> Holds(p)]
    BY <1>1, SameWorld
  <2>4. Agenda' = << >>
    BY <2>1, <2>2 DEF Agenda, PathsAt
  <2>5. PathsAt(pending)' = PathsAt(pending)
    BY <2>2 DEF PathsAt
  <2>6. {FileAt(i).path : i \in taken}' = {FileAt(i).path : i \in taken} /\ Contents(loaded)' = Contents(loaded)
    BY <2>2 DEF Contents
  <2>7. Sequential!Missing
    BY <1>2, MissingPath DEF SequenceInv, IInv
  <2>8. Sequential!Reject
    BY <2>1, <2>2, <2>3, <2>4, <2>5, <2>6, <2>7 DEF Sequential!Reject, Sequential!Error, Failed
  <2> QED BY <2>8 DEF Sequential!Next
<1>3. CASE ~ \E i \in DOMAIN world.inputs : PathOf(world.inputs[i]) = NoPath
  <2>1. phase' = "open" /\ result' = result
    BY <1>3 DEF BeginLoading
  <2> QED BY <1>1, <2>1, OpeningStep
<1> QED BY <1>2, <1>3

LEMMA EndScopeStep ==
  ASSUME SequenceInv, EndScope
  PROVE  UNCHANGED Sequential!vars
<1>1. /\ phase = "open" /\ requests = {} /\ running = {} /\ world' = world /\ opening' = opening
      /\ pending' = pending /\ taken' = taken /\ loaded' = loaded /\ result' = result /\ pass' = pass
  BY EndScopeIInv DEF EndScope, SequenceInv
<1>2. pass = 1 /\ taken = {} /\ pending = << >> /\ result = [state |-> "none"]
  BY <1>1 DEF SequenceInv, ExtractionOrder
<1>3. phase' = "extract" /\ work' = [i \in 1 .. initial_count |-> i - 1]
  BY <1>1, <1>2, Zenon DEF EndScope
<1>4. FirstPaths' = FirstPaths /\ [p \in Reached |-> Holds(p)]' = [p \in Reached |-> Holds(p)]
  BY <1>1, SameWorld
<1>5. \A j : FileAt(j)' = FileAt(j)
  BY <1>1 DEF FileAt, opening
<1>6. Agenda' = PathsAt([i \in 1 .. initial_count |-> i - 1])
  BY <1>1, <1>2, <1>3, <1>5 DEF Agenda, PathsAt
<1>7. Agenda = FirstPaths
  BY <1>1 DEF Agenda
<1>8. Agenda' = Agenda
  BY <1>1, <1>6, <1>7, FirstPathsAt
<1>9. /\ PathsAt(pending)' = PathsAt(pending)
      /\ {FileAt(i).path : i \in taken}' = {FileAt(i).path : i \in taken} /\ Contents(loaded)' = Contents(loaded)
  BY <1>1, <1>2, <1>5 DEF Contents, PathsAt
<1> QED BY <1>1, <1>4, <1>8, <1>9 DEF Sequential!vars

(* What holds of the abstract state during extraction.                     *)
LEMMA ExtractingFacts ==
  ASSUME SequenceInv, phase = "extract"
  PROVE  /\ requests = {} /\ running = {} /\ result = [state |-> "none"] /\ ~Sequential!Missing
         /\ Agenda = IF pass = 3 THEN << >> ELSE PathsAt(work)
         /\ work \in Seq(Nat) /\ pending \in Seq(Nat) /\ taken \subseteq Index /\ Index \subseteq Nat
         /\ pass = 3 => taken = Index /\ pending = << >>
<1>1. requests = {} /\ running = {}
  BY DEF SequenceInv, IInv, Phases
<1>2. ~Sequential!Missing
  BY MissingPath DEF SequenceInv, IInv, OpeningOrder, InputOrder
<1>3. work \in Seq(Nat) /\ pending \in Seq(Nat) /\ Index \subseteq Nat
  BY DEF SequenceInv, IInv, TypeOK, Index
<1> QED BY <1>1, <1>2, <1>3 DEF SequenceInv, ExtractionOrder, Agenda

LEMMA ExtractFileStep ==
  ASSUME SequenceInv, ExtractFile
  PROVE  [Sequential!Next]_Sequential!vars
<1>0. PICK i : i = Head(work)
  OBVIOUS
<1>1. phase = "extract" /\ work # << >> /\ world' = world /\ opening' = opening /\ pass' = pass
  BY DEF ExtractFile
<1>2. PICK f : f = FileAt(i)
  OBVIOUS
<1>3. PICK p : p = f.path
  OBVIOUS
<1>4. /\ requests = {} /\ running = {} /\ result = [state |-> "none"] /\ ~Sequential!Missing
      /\ Agenda = IF pass = 3 THEN << >> ELSE PathsAt(work)
      /\ work \in Seq(Nat) /\ pending \in Seq(Nat) /\ taken \subseteq Index /\ Index \subseteq Nat
      /\ pass = 3 => taken = Index /\ pending = << >>
  BY <1>1, ExtractingFacts
<1>5. i \in Index /\ Tail(work) \in Seq(Nat)
  BY <1>0, <1>1, TailIndexes DEF SequenceInv, IInv, TypeOK, Known
<1>6. /\ FirstPaths' = FirstPaths /\ [q \in Reached |-> Holds(q)]' = [q \in Reached |-> Holds(q)]
      /\ \A j : FileAt(j)' = FileAt(j)
  BY <1>1, SameWorld DEF FileAt, opening
<1>7. \A s : PathsAt(s)' = PathsAt(s)
  BY <1>6 DEF PathsAt
<1>8. FileInOrder(f) /\ p \in Reached
  BY <1>2, <1>3, <1>4, <1>5, FilesInOrder DEF FileInOrder
<1>9. p \in {FileAt(j).path : j \in taken} <=> i \in taken
  <2>1. \A j \in taken : FileAt(j).path = p => j = i
    BY <1>2, <1>3, <1>4, <1>5, FilesInOrder
  <2> QED BY <1>2, <1>3, <2>1
<1>10. PathsAt(work) # << >> /\ Head(PathsAt(work)) = p /\ Tail(PathsAt(work)) = PathsAt(Tail(work))
  BY <1>0, <1>1, <1>2, <1>3, <1>4, PathsAtFacts
<1>11. pass # 3 => Sequential!Opens(p)
  BY <1>4, <1>10 DEF Sequential!Opens
<1>12. CASE /\ i \in taken
            /\ work' = Tail(work)
            /\ UNCHANGED <<phase, result, pending, taken, loaded>>
  <2>1. /\ PathsAt(pending)' = PathsAt(pending)
        /\ {FileAt(j).path : j \in taken}' = {FileAt(j).path : j \in taken} /\ Contents(loaded)' = Contents(loaded)
    BY <1>6, <1>12 DEF PathsAt, Contents
  <2>2. CASE pass = 3
    <3>1. Agenda' = Agenda
      BY <1>1, <1>4, <1>12, <2>2 DEF Agenda
    <3> QED BY <1>6, <1>12, <2>1, <3>1 DEF Sequential!vars
  <2>3. CASE pass # 3
    <3>1. Agenda' = PathsAt(Tail(work))
      BY <1>1, <1>6, <1>12, <2>3 DEF Agenda, PathsAt
    <3>2. Agenda' = Tail(Agenda)
      BY <1>4, <1>10, <2>3, <3>1
    <3>3. Sequential!Skip(p)
      BY <1>6, <1>9, <1>11, <1>12, <2>1, <2>3, <3>2 DEF Sequential!Skip
    <3> QED BY <1>8, <3>3 DEF Sequential!Next
  <2> QED BY <2>2, <2>3
<1>13. CASE /\ i \notin taken /\ f.error
            /\ taken' = taken \cup {i}
            /\ phase' = "verify"
            /\ result' = Failed(f.path)
            /\ UNCHANGED <<work, pending, loaded>>
  <2>1. pass # 3
    BY <1>4, <1>5, <1>13
  <2>2. /\ PathsAt(pending)' = PathsAt(pending) /\ Contents(loaded)' = Contents(loaded)
    BY <1>6, <1>13 DEF PathsAt, Contents
  <2>3. Agenda' = Agenda
    BY <1>1, <1>4, <1>6, <1>13, <2>1 DEF Agenda, PathsAt
  <2>4. {FileAt(j).path : j \in taken}' = {FileAt(j).path : j \in taken} \cup {p}
    BY <1>2, <1>3, <1>6, <1>13
  <2>5. [q \in Reached |-> Holds(q)][p].fails
    BY <1>3, <1>8, <1>13 DEF FileInOrder
  <2>6. Sequential!Fail(p)
    BY <1>3, <1>6, <1>9, <1>11, <1>13, <2>1, <2>2, <2>3, <2>4, <2>5
       DEF Sequential!Fail, Sequential!Error, Failed
  <2> QED BY <1>8, <2>6 DEF Sequential!Next
<1>14. CASE /\ i \notin taken /\ ~f.error
            /\ taken' = taken \cup {i}
            /\ loaded' = loaded \o f.records
            /\ work' = IF IsScript(f) THEN ScriptInPlace(f, Tail(work)) ELSE Tail(work)
            /\ pending' = pending \o Deplibs(f)
            /\ UNCHANGED <<phase, result>>
  <2>1. pass # 3
    BY <1>4, <1>5, <1>14
  <2>2. f.indexes \in Seq(Nat) /\ f.records \in Seq(Record) /\ Holds(p).asks = PathsAt(f.indexes)
    BY <1>2, <1>3, <1>4, <1>5, <1>14, FilesInOrder, AskedPaths
  <2>3. Holds(p).records = Contents(f.records) /\ ~Holds(p).fails
    BY <1>3, <1>8, <1>14 DEF FileInOrder
  <2>4. Holds(p).script <=> IsScript(f)
    BY <1>3, HoldsFacts DEF IsScript
  <2>5. Contents(loaded)' = Contents(loaded) \o Holds(p).records
    <3>1. loaded \in Seq(Record)
      BY DEF SequenceInv, IInv, TypeOK
    <3>2. PICK l : l = loaded
      OBVIOUS
    <3>3. Contents(l \o f.records) = Contents(l) \o Contents(f.records)
      BY <2>2, <3>1, <3>2, ContentsJoin
    <3>4. Contents(loaded)' = Contents(l \o f.records)
      BY <1>14, <3>2 DEF Contents
    <3> QED BY <2>3, <3>2, <3>3, <3>4
  <2>6. {FileAt(j).path : j \in taken}' = {FileAt(j).path : j \in taken} \cup {p}
    BY <1>2, <1>3, <1>6, <1>14
  <2>7. Agenda' = PathsAt(work')
    BY <1>1, <1>6, <1>14, <2>1 DEF Agenda, PathsAt
  <2>8. PathsAt(pending)' = PathsAt(pending')
    BY <1>6 DEF PathsAt
  <2>9. CASE IsScript(f)
    <3>1. work' = f.indexes \o Tail(work)
      BY <1>14, <2>9 DEF ScriptInPlace
    <3>2. Agenda' = PathsAt(f.indexes) \o Tail(Agenda)
      BY <1>4, <1>5, <1>10, <2>1, <2>2, <2>7, <3>1, PathsAtFacts
    <3>3. pending' = pending
      BY <1>4, <1>14, <2>9 DEF Deplibs
    <3>4. Sequential!Load(p)
      BY <1>6, <1>8, <1>9, <1>11, <1>14, <2>1, <2>2, <2>3, <2>4, <2>5, <2>6, <2>8, <2>9, <3>2, <3>3
         DEF Sequential!Load
    <3> QED BY <1>8, <3>4 DEF Sequential!Next
  <2>10. CASE ~IsScript(f)
    <3>1. work' = Tail(work) /\ pending' = pending \o f.indexes
      BY <1>14, <2>10 DEF Deplibs
    <3>2. Agenda' = Tail(Agenda)
      BY <1>4, <1>10, <2>1, <2>7, <3>1
    <3>3. PathsAt(pending)' = PathsAt(pending) \o PathsAt(f.indexes)
      BY <1>4, <2>2, <2>8, <3>1, PathsAtFacts
    <3>4. Sequential!Load(p)
      BY <1>6, <1>8, <1>9, <1>11, <1>14, <2>1, <2>2, <2>3, <2>4, <2>5, <2>6, <2>10, <3>2, <3>3
         DEF Sequential!Load
    <3> QED BY <1>8, <3>4 DEF Sequential!Next
  <2> QED BY <2>9, <2>10
<1> QED BY <1>0, <1>2, <1>12, <1>13, <1>14, Zenon DEF ExtractFile

LEMMA NextPassStep ==
  ASSUME SequenceInv, NextPass
  PROVE  [Sequential!Next]_Sequential!vars
<1>1. /\ phase = "extract" /\ work = << >> /\ world' = world /\ opening' = opening
      /\ taken' = taken /\ loaded' = loaded
  BY DEF NextPass
<1>2. /\ result = [state |-> "none"] /\ ~Sequential!Missing
      /\ Agenda = IF pass = 3 THEN << >> ELSE PathsAt(work)
      /\ work \in Seq(Nat) /\ pending \in Seq(Nat)
      /\ pass = 3 => taken = Index /\ pending = << >>
  BY <1>1, ExtractingFacts
<1>3. /\ FirstPaths' = FirstPaths /\ [q \in Reached |-> Holds(q)]' = [q \in Reached |-> Holds(q)]
      /\ \A j : FileAt(j)' = FileAt(j)
  BY <1>1, SameWorld DEF FileAt, opening
<1>4. /\ {FileAt(j).path : j \in taken}' = {FileAt(j).path : j \in taken}
      /\ Contents(loaded)' = Contents(loaded)
  BY <1>1, <1>3 DEF Contents
<1>5. Agenda = << >> /\ PathsAt(<< >>) = << >>
  BY <1>1, <1>2, PathsAtFacts
<1>6. CASE /\ pass < 3 /\ pending # << >>
           /\ pass' = 2 /\ work' = <<Head(pending)>> /\ pending' = Tail(pending)
           /\ UNCHANGED <<phase, result>>
  <2>1. /\ PathsAt(pending) # << >> /\ Head(PathsAt(pending)) = FileAt(Head(pending)).path
        /\ Tail(PathsAt(pending)) = PathsAt(Tail(pending))
        /\ PathsAt(<<Head(pending)>>) = <<FileAt(Head(pending)).path>>
    <3>1. Head(pending) \in Nat
      BY <1>2, <1>6
    <3> QED BY <1>2, <1>6, <3>1, PathsAtFacts
  <2>2. Agenda' = PathsAt(<<Head(pending)>>)
    BY <1>1, <1>3, <1>6 DEF Agenda, PathsAt
  <2>3. PathsAt(pending)' = PathsAt(Tail(pending))
    BY <1>3, <1>6 DEF PathsAt
  <2>4. Sequential!LoadLater
    BY <1>2, <1>3, <1>4, <1>5, <1>6, <2>1, <2>2, <2>3 DEF Sequential!LoadLater
  <2> QED BY <2>4 DEF Sequential!Next
<1>7. CASE /\ pass < 3 /\ pending = << >>
           /\ pass' = 3
           /\ UNCHANGED <<phase, result, pending>>
  <2>1. Agenda' = << >>
    BY <1>1, <1>7 DEF Agenda
  <2>2. PathsAt(pending)' = PathsAt(pending)
    BY <1>3, <1>7 DEF PathsAt
  <2> QED BY <1>3, <1>4, <1>5, <1>7, <2>1, <2>2 DEF Sequential!vars
<1>8. CASE /\ pass = 3
           /\ phase' = "verify" /\ result' = [state |-> "loaded"]
           /\ UNCHANGED <<pass, work, pending>>
  <2>1. Agenda' = << >>
    BY <1>8 DEF Agenda
  <2>2. PathsAt(pending)' = PathsAt(pending) /\ PathsAt(pending) = << >>
    BY <1>2, <1>3, <1>5, <1>8 DEF PathsAt
  <2>3. Sequential!Finish
    BY <1>2, <1>3, <1>4, <1>5, <1>8, <2>1, <2>2 DEF Sequential!Finish
  <2> QED BY <2>3 DEF Sequential!Next
<1> QED BY <1>6, <1>7, <1>8, Zenon DEF NextPass, PopPending

(* A file that changes, or has, is none of the thread's business until the *)
(* link is refused.                                                        *)
LEMMA SameInputs ==
  ASSUME world' = world, opening' = opening, extraction' = extraction,
         phase' \in {"start", "open"} <=> phase \in {"start", "open"}
  PROVE  /\ FirstPaths' = FirstPaths /\ [q \in Reached |-> Holds(q)]' = [q \in Reached |-> Holds(q)]
         /\ Agenda' = Agenda /\ PathsAt(pending)' = PathsAt(pending)
         /\ {FileAt(j).path : j \in taken}' = {FileAt(j).path : j \in taken}
         /\ Contents(loaded)' = Contents(loaded)
<1>1. files' = files /\ pass' = pass /\ work' = work /\ pending' = pending /\ taken' = taken /\ loaded' = loaded
  BY DEF opening, extraction
<1>2. FirstPaths' = FirstPaths /\ [q \in Reached |-> Holds(q)]' = [q \in Reached |-> Holds(q)]
  BY SameWorld
<1>3. \A j : FileAt(j)' = FileAt(j)
  BY <1>1 DEF FileAt
<1>4. PathsAt(pending)' = PathsAt(pending) /\ PathsAt(work)' = PathsAt(work)
  BY <1>1, <1>3 DEF PathsAt
<1>5. Agenda' = Agenda
  BY <1>1, <1>2, <1>4 DEF Agenda
<1> QED BY <1>1, <1>2, <1>3, <1>4, <1>5 DEF Contents

LEMMA InitSequential == Init => Sequential!Init
<1> SUFFICES ASSUME Init PROVE Sequential!Init
  OBVIOUS
<1>1. /\ phase = "start" /\ pending = << >> /\ taken = {} /\ loaded = << >> /\ result = [state |-> "none"]
  BY DEF Init
<1> QED BY <1>1 DEF Sequential!Init, Agenda, PathsAt, Contents

LEMMA NextSequential == SequenceInv /\ [Next]_vars => [Sequential!Next]_Sequential!vars
<1> SUFFICES ASSUME SequenceInv, [Next]_vars PROVE [Sequential!Next]_Sequential!vars
  OBVIOUS
<1>1. CASE \/ \E r \in requests : OpenFile(r)
           \/ \E t \in running : LoadInput(t) \/ RecordFile(t)
  <2>1. phase = "open" /\ phase' = "open" /\ extraction' = extraction /\ result' = result /\ world' = world
    BY <1>1 DEF OpenFile, LoadInput, RecordFile
  <2> QED BY <2>1, OpeningStep
<1>2. CASE VerifyInputsUnchanged
  <2>1. /\ phase = "verify" /\ phase' = "end" /\ world' = world /\ opening' = opening /\ extraction' = extraction
        /\ result' = [state |-> "changed"] \/ result' = result
    BY <1>2 DEF VerifyInputsUnchanged
  <2>2. result.state # "none"
    BY <2>1 DEF SequenceInv, ExtractionOrder
  <2>3. Sequential!Refuse \/ UNCHANGED Sequential!vars
    BY <2>1, <2>2, SameInputs DEF Sequential!Refuse, Sequential!vars
  <2> QED BY <2>3 DEF Sequential!Next
<1>3. CASE (\E p \in Path : ChangeFile(p)) \/ Ended \/ UNCHANGED vars
  <2>1. phase' = phase /\ world' = world /\ opening' = opening /\ extraction' = extraction /\ result' = result
    BY <1>3 DEF ChangeFile, Ended, vars
  <2>2. UNCHANGED Sequential!vars
    BY <2>1, SameInputs DEF Sequential!vars
  <2> QED BY <2>2
<1> QED BY <1>1, <1>2, <1>3, BeginLoadingStep, EndScopeStep, ExtractFileStep, NextPassStep DEF Next, Step

(* Whatever order the threads of the pool open the files in, and whoever   *)
(* of them claims an index first, extraction finds the inputs of the       *)
(* command line, of its scripts and dependent libraries, and the first     *)
(* error, as one thread would that opens the files in order: step by step, *)
(* for every command line whose inputs agree on how a file is opened.      *)
THEOREM InputLoadsAsInSequence == Spec /\ ModifiersAgree => LoadsAsInSequence
<1>1. Spec /\ ModifiersAgree => []SequenceInv
  BY InitSequenceInv, NextSequenceInv, PTL DEF Spec
<1> QED BY <1>1, InitSequential, NextSequential, PTL DEF Spec, LoadsAsInSequence, Sequential!Spec
=============================================================================
