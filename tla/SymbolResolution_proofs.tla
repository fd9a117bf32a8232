---------------------- MODULE SymbolResolution_proofs ----------------------
(***************************************************************************)
(* Proofs about SymbolResolution, for any symbol tables and archives.      *)
(***************************************************************************)
EXTENDS SymbolResolution, TLAPS, WellFoundedInduction, FiniteSetTheorems

LEMMA SymbolNumbers ==
  /\ NumSymbols \in Nat /\ Symbol \subseteq Nat
  /\ \A s \in Symbol : s \in Nat /\ s >= 1 /\ s <= NumSymbols
<1>1. NumSymbols \in Nat
  BY SymbolTableAssumption, Zenon
<1> QED BY <1>1 DEF Symbol

LEMMA SymbolSizes == \A s \in Symbol : Input[s].size \in Nat /\ Input[s].strength \in SymbolStrength
  BY SymbolTableAssumption, Zenon

(* A set of symbols that is not empty has a first one. *)
LEMMA LeastSymbol ==
  ASSUME NEW S \in SUBSET Symbol, S # {}
  PROVE  Least(S) \in S /\ \A t \in S : Least(S) <= t
<1>1. S \subseteq Nat
  BY SymbolNumbers DEF Symbol
<1> DEFINE R == {ss \in Nat \X Nat : ss[1] < ss[2]}
<1>2. IsWellFoundedOn(R, Nat)
  BY NatLessThanWellFounded DEF OpToRel
<1>3. \E x \in S : \A y \in S : <<y, x>> \notin R
  <2> HIDE DEF R
  <2> QED BY <1>1, <1>2, WFMin
<1>4. \E x \in S : \A y \in S : x <= y
  <2>1. PICK x \in S : \A y \in S : <<y, x>> \notin R
    BY <1>3
  <2>2. ASSUME NEW y \in S PROVE x <= y
    <3>1. x \in Nat /\ y \in Nat
      BY <1>1
    <3>2. ~(y < x)
      BY <2>1, <3>1
    <3> QED BY <3>1, <3>2
  <2> QED BY <2>2
<1> QED BY <1>4 DEF Least

(* ... and a last one. *)
LEMMA GreatestSymbol ==
  ASSUME NEW S \in SUBSET Symbol, S # {}
  PROVE  \E s \in S : \A t \in S : t <= s
<1>1. \A s \in S : s \in Nat /\ s >= 1 /\ s <= NumSymbols
  BY SymbolNumbers DEF Symbol
<1> DEFINE R == {ss \in Nat \X Nat : ss[1] < ss[2]}
           U == {n \in Nat : \A s \in S : s <= n}
<1>2. IsWellFoundedOn(R, Nat)
  BY NatLessThanWellFounded DEF OpToRel
<1>3. NumSymbols \in U /\ U \subseteq Nat
  BY <1>1, SymbolNumbers
<1>4. PICK m \in U : \A n \in U : <<n, m>> \notin R
  <2>1. \E m \in U : \A n \in U : <<n, m>> \notin R
    <3> HIDE DEF R, U
    <3> QED BY <1>2, <1>3, WFMin
  <2> QED BY <2>1
<1>5. m \in S
  <2> SUFFICES ASSUME m \notin S PROVE FALSE
    OBVIOUS
  <2>1. m \in Nat /\ \A s \in S : s \in Nat /\ s >= 1 /\ s < m
    BY <1>1, <1>4
  <2>2. m - 1 \in Nat /\ m - 1 < m /\ \A s \in S : s <= m - 1
    BY <2>1
  <2>3. m - 1 \in U
    BY <2>2
  <2>4. <<m - 1, m>> \in R
    BY <2>1, <2>2
  <2> QED BY <1>4, <2>3, <2>4
<1> QED BY <1>4, <1>5

---------------------------------------------------------------------------
(* Loading.                                                                *)

(* Tasks only want files that can be taken or were, and what has been      *)
(* taken has been loaded.                                                  *)
LoadInv ==
  /\ available \in SUBSET Optional
  /\ want \in [Chunk -> Optional \cup {None}]
  /\ loads \in [Object -> Nat]
  /\ LoadedOnce

LEMMA LoadInit == Init => LoadInv
  BY FileAssumption DEF Init, LoadInv, LoadedOnce, Object

(* The first to take a file loads it and the others do not. *)
LEMMA TakeFileLoads ==
  ASSUME LoadInv, NEW c \in Chunk, TakeFile(c)
  PROVE  LoadInv'
<1>1. want[c] \in Optional /\ want' \in [Chunk -> Optional \cup {None}]
  BY DEF TakeFile, LoadInv
<1>2. want[c] \in Object
  BY <1>1, FileAssumption
<1>3. CASE want[c] \in available
  <2>1. available' = available \ {want[c]} /\ loads' = [loads EXCEPT ![want[c]] = @ + 1]
    BY <1>3 DEF TakeFile
  <2>2. loads[want[c]] = 0
    BY <1>2, <1>3 DEF LoadInv, LoadedOnce
  <2> QED BY <1>1, <1>2, <2>1, <2>2 DEF LoadInv, LoadedOnce
<1>4. CASE want[c] \notin available
  BY <1>1, <1>4 DEF TakeFile, LoadInv, LoadedOnce
<1> QED BY <1>3, <1>4

LEMMA ResolveSymbolLoads ==
  ASSUME LoadInv, NEW c \in Chunk, ResolveSymbol(c)
  PROVE  LoadInv'
<1> DEFINE t == Get(Least(todo[c]))
<1>1. want' = want \/ (FileOf(t) \in available /\ want' = [want EXCEPT ![c] = FileOf(t)])
  BY DEF ResolveSymbol
<1>2. UNCHANGED <<available, loads>>
  BY DEF ResolveSymbol
<1> HIDE DEF t
<1> QED BY <1>1, <1>2 DEF LoadInv, LoadedOnce

LEMMA LoadStep == LoadInv /\ [Next]_vars => LoadInv'
<1> SUFFICES ASSUME LoadInv, [Next]_vars PROVE LoadInv'
  OBVIOUS
<1>1. ASSUME UNCHANGED <<available, want, loads>> PROVE LoadInv'
  BY <1>1 DEF LoadInv, LoadedOnce
<1>2. ASSUME NEW c \in Chunk, ChunkStep(c) PROVE LoadInv'
  <2>1. CASE ResolveSymbol(c)
    BY <2>1, ResolveSymbolLoads
  <2>2. CASE TakeFile(c)
    BY <2>2, TakeFileLoads
  <2>3. CASE ResolveError(c)
    BY <1>1, <2>3 DEF ResolveError
  <2> QED BY <1>2, <2>1, <2>2, <2>3 DEF ChunkStep
<1>3. CASE EndResolve \/ EndAlternatives \/ Canonicalise \/ Finished \/ UNCHANGED vars
  BY <1>1, <1>3 DEF EndResolve, EndAlternatives, Canonicalise, Finished, vars, resolveVars
<1>4. ASSUME NEW k \in Key, NameStep(k) PROVE LoadInv'
  BY <1>1, <1>4 DEF NameStep, SelectAlternative, UpdateDefinition, MergeVisibility, resolveVars
<1> QED BY <1>2, <1>3, <1>4 DEF Next

(* However many tasks request a file, in whatever order, it is pushed on   *)
(* the bounded queue of loaded files once.                                 *)
THEOREM ResLoadedOnce == Spec => []LoadedOnce
<1>1. LoadInv => LoadedOnce
  BY DEF LoadInv
<1> QED BY <1>1, LoadInit, LoadStep, PTL DEF Spec

---------------------------------------------------------------------------
(* Duplicate definitions.                                                  *)

(* Files are loaded in the first phase only; a name that was examined      *)
(* afterwards has no duplicates, or the link will fail.                    *)
DuplicateInv ==
  /\ phase # "Resolve" => \A c \in Chunk : want[c] = None /\ todo[c] = {}
  /\ \A k \in Key : stores[k].state \in {"Waiting", "Storing", "Done"}
  /\ DOMAIN stores = Key
  /\ phase = "Resolve" => \A k \in Key : stores[k].state = "Waiting"
  /\ \A k \in Key : stores[k].state # "Waiting" => failed \/ ~DuplicateStrong(k)
  /\ phase = "Canonicalise" \/ outcome = "Ok" =>
       \A k \in Key : HasAlternatives(k) => ~DuplicateStrong(k)
  /\ outcome = "Ok" => phase = "Done"

LEMMA DuplicateInit == Init => DuplicateInv
  BY DEF Init, DuplicateInv

(* What is a duplicate depends on the files loaded and on the option. *)
LEMMA DuplicatesStable ==
  ASSUME UNCHANGED <<loads, allowMultiple>>
  PROVE  \A k \in Key : DuplicateStrong(k)' <=> DuplicateStrong(k)
  BY DEF DuplicateStrong, Candidates, IsLoaded

LEMMA DuplicateStep == DuplicateInv /\ [Next]_vars => DuplicateInv'
<1> SUFFICES ASSUME DuplicateInv, [Next]_vars PROVE DuplicateInv'
  OBVIOUS
<1> USE DEF DuplicateInv
<1>1. ASSUME NEW c \in Chunk, ChunkStep(c) PROVE DuplicateInv'
  <2>1. phase = "Resolve" /\ UNCHANGED <<phase, stores, outcome>>
    BY <1>1 DEF ChunkStep, ResolveSymbol, TakeFile, ResolveError, Resolving
  <2> QED BY <2>1
<1>2. CASE EndResolve
  <2>1. \A k \in Key : DuplicateStrong(k)' <=> DuplicateStrong(k)
    BY <1>2, DuplicatesStable DEF EndResolve, inputVars, resolveVars
  <2> HIDE DEF DuplicateStrong
  <2> QED BY <1>2, <2>1 DEF EndResolve, resolveVars
<1>3. ASSUME NEW k \in Key, NameStep(k) PROVE DuplicateInv'
  <2>1. \A j \in Key : DuplicateStrong(j)' <=> DuplicateStrong(j)
    BY <1>3, DuplicatesStable
    DEF NameStep, SelectAlternative, UpdateDefinition, MergeVisibility, inputVars, resolveVars
  <2>2. phase = "Alternatives" \/ stores[k].state = "Storing"
    BY <1>3 DEF NameStep, SelectAlternative, UpdateDefinition, MergeVisibility
  <2>3. UNCHANGED <<phase, outcome, want, todo>>
    BY <1>3 DEF NameStep, SelectAlternative, UpdateDefinition, MergeVisibility, resolveVars
  <2>4. CASE SelectAlternative(k)
    <3>1. phase = "Alternatives"
      BY <2>4 DEF SelectAlternative
    <3>2. CASE DuplicateStrong(k)
      <4>1. failed' = TRUE /\ stores' = [stores EXCEPT ![k].state = "Done"]
        BY <2>4, <3>2 DEF SelectAlternative
      <4> QED BY <2>1, <2>3, <3>1, <4>1
    <3>3. CASE ~DuplicateStrong(k)
      <4>1. /\ failed' = failed
            /\ stores' = [stores EXCEPT ![k] = [state |-> "Storing", left |-> Alternatives(k),
                                                as |-> SelectSymbol(k)]]
        BY <2>4, <3>3 DEF SelectAlternative
      <4>2. DOMAIN stores' = Key /\ stores'[k].state = "Storing"
            /\ \A j \in Key \ {k} : stores'[j] = stores[j]
        BY <4>1
      <4> QED BY <2>1, <2>3, <3>1, <3>3, <4>1, <4>2
    <3> QED BY <3>2, <3>3
  <2>5. CASE UpdateDefinition(k)
    <3>1. PICK s : stores' = [stores EXCEPT ![k] = [state |-> "Storing", left |-> @.left \ {s},
                                                    as |-> @.as]]
      BY <2>5 DEF UpdateDefinition
    <3>2. stores[k].state = "Storing" /\ failed' = failed
      BY <2>5 DEF UpdateDefinition
    <3>3. DOMAIN stores' = Key /\ \A j \in Key : stores'[j].state = stores[j].state
      BY <3>1, <3>2
    <3> QED BY <2>1, <2>3, <3>2, <3>3
  <2>6. CASE MergeVisibility(k)
    BY <2>1, <2>2, <2>3, <2>6 DEF MergeVisibility
  <2> QED BY <1>3, <2>4, <2>5, <2>6 DEF NameStep
<1>4. CASE EndAlternatives
  <2>1. \A k \in Key : DuplicateStrong(k)' <=> DuplicateStrong(k)
    BY <1>4, DuplicatesStable DEF EndAlternatives, inputVars, resolveVars
  <2> QED BY <1>4, <2>1 DEF EndAlternatives, resolveVars
<1>5. CASE Canonicalise
  <2>1. \A k \in Key : DuplicateStrong(k)' <=> DuplicateStrong(k)
    BY <1>5, DuplicatesStable DEF Canonicalise, inputVars
  <2> QED BY <1>5, <2>1 DEF Canonicalise
<1>6. CASE Finished \/ UNCHANGED vars
  <2>1. \A k \in Key : DuplicateStrong(k)' <=> DuplicateStrong(k)
    BY <1>6, DuplicatesStable DEF Finished, vars, inputVars, resolveVars
  <2> QED BY <1>6, <2>1 DEF Finished, vars, resolveVars
<1> QED BY <1>1, <1>2, <1>3, <1>4, <1>5, <1>6 DEF Next

(* A link that succeeds without --allow-multiple-definition has no two     *)
(* strong definitions of a name in loaded objects that are not both COMDAT.*)
THEOREM ResDuplicatesRejected == Spec => []DuplicatesRejected
<1>1. DuplicateInv => DuplicatesRejected
  <2> SUFFICES ASSUME DuplicateInv, outcome = "Ok", ~allowMultiple,
                      NEW k \in Key, NEW s \in Candidates(k), NEW t \in Candidates(k), s # t,
                      Input[s].strength = "Strong", Input[t].strength = "Strong"
               PROVE  Input[s].comdat /\ Input[t].comdat
    BY DEF DuplicatesRejected
  <2> DEFINE strong == {u \in Candidates(k) : Input[u].strength = "Strong"}
             m == Least(strong)
  <2>1. strong \in SUBSET Symbol /\ s \in strong /\ t \in strong
    BY DEF Candidates, Alternatives, Definitions
  <2>2. m \in strong
    BY <2>1, LeastSymbol
  <2>3. HasAlternatives(k)
    BY DEF HasAlternatives, Candidates
  <2>4. \A u \in strong \ {m} : Input[m].comdat /\ Input[u].comdat
    <3>1. ~DuplicateStrong(k)
      BY <2>3 DEF DuplicateInv
    <3> QED BY <2>2, <3>1 DEF DuplicateStrong
  <2> HIDE DEF strong, m
  <2> QED BY <2>1, <2>4
<1> QED BY <1>1, DuplicateInit, DuplicateStep, PTL DEF Spec

---------------------------------------------------------------------------
(* Files that are needed.                                                  *)

(* Of a set of symbols that is not empty one has the largest size. *)
LEMMA LargestSymbol ==
  ASSUME NEW S \in SUBSET Symbol, S # {}
  PROVE  \E s \in S : \A t \in S : Input[t].size <= Input[s].size
<1> DEFINE size(s) == Input[s].size
           Upto(m) == {s \in S : s <= m}
           Good(m) == Upto(m) # {} => \E s \in Upto(m) : \A t \in Upto(m) : size(t) <= size(s)
           bad == {m \in Nat : ~Good(m)}
           R == {ss \in Nat \X Nat : ss[1] < ss[2]}
<1>1. \A s \in S : s \in Nat /\ s >= 1 /\ s <= NumSymbols /\ size(s) \in Nat
  <2> TAKE s \in S
  <2> HIDE DEF bad, Good, Upto, R
  <2>1. s \in Nat /\ s >= 1 /\ s <= NumSymbols
    BY SymbolNumbers
  <2>2. Input[s].size \in Nat
    BY SymbolSizes
  <2> QED BY <2>1, <2>2
<1>2. IsWellFoundedOn(R, Nat)
  BY NatLessThanWellFounded DEF OpToRel
<1>3. bad = {}
  <2> SUFFICES ASSUME bad # {} PROVE FALSE
    OBVIOUS
  <2>1. bad \subseteq Nat
    OBVIOUS
  <2>2. \E m \in bad : \A n \in bad : <<n, m>> \notin R
    <3> HIDE DEF R, bad
    <3> QED BY <1>2, <2>1, WFMin
  <2>3. PICK m \in bad : \A n \in bad : <<n, m>> \notin R
    BY <2>2
  <2>4. m \in Nat /\ ~Good(m)
    OBVIOUS
  <2>5. PICK x \in Upto(m) : TRUE
    BY <2>4
  <2>6. m >= 1 /\ m - 1 \in Nat
    BY <1>1, <2>4, <2>5
  <2>7. Good(m - 1)
    <3>1. <<m - 1, m>> \in R
      BY <2>4, <2>6
    <3>2. m - 1 \notin bad
      BY <2>3, <3>1
    <3> QED BY <2>6, <3>2
  <2>8. \A s \in Upto(m) : s = m \/ s \in Upto(m - 1)
    <3> TAKE s \in Upto(m)
    <3>1. s \in S /\ s \in Nat /\ s <= m
      BY <1>1
    <3>2. s = m \/ s <= m - 1
      <4> HIDE DEF bad, Good, Upto
      <4> QED BY <2>4, <2>6, <3>1
    <3> QED BY <3>1, <3>2
  <2>9. \A s \in Upto(m - 1) : s \in Upto(m)
    <3> TAKE s \in Upto(m - 1)
    <3>1. s \in S /\ s \in Nat /\ s <= m - 1
      BY <1>1
    <3>2. s <= m
      <4> HIDE DEF bad, Good, Upto
      <4> QED BY <2>4, <2>6, <3>1
    <3> QED BY <3>1, <3>2
  <2>10. CASE Upto(m - 1) = {}
    <3>1. \A s \in Upto(m) : s = m
      BY <2>8, <2>10
    <3>2. \A t \in Upto(m) : t = x /\ size(t) <= size(x)
      BY <1>1, <2>5, <3>1
    <3> QED BY <2>4, <2>5, <3>2
  <2>11. CASE Upto(m - 1) # {}
    <3> HIDE DEF bad
    <3>1. PICK y \in Upto(m - 1) : \A t \in Upto(m - 1) : size(t) <= size(y)
      BY <2>7, <2>11
    <3>2. y \in Upto(m) /\ size(y) \in Nat
      BY <1>1, <2>9, <3>1
    <3>3. CASE m \in Upto(m) /\ size(y) <= size(m)
      <4>1. size(m) \in Nat
        BY <1>1, <3>3
      <4>2. \A t \in Upto(m) : size(t) <= size(m)
        BY <1>1, <2>8, <3>1, <3>2, <3>3, <4>1
      <4> QED BY <2>4, <3>3, <4>2
    <3>4. CASE ~(m \in Upto(m) /\ size(y) <= size(m))
      <4>1. \A t \in Upto(m) : size(t) <= size(y)
        <5> TAKE t \in Upto(m)
        <5>1. CASE t = m
          <6>1. size(m) \in Nat /\ m \in Upto(m)
            BY <1>1, <5>1
          <6> QED BY <3>2, <3>4, <5>1, <6>1
        <5> QED BY <2>8, <3>1, <5>1
      <4> QED BY <2>4, <3>2, <4>1
    <3> QED BY <3>3, <3>4
  <2> QED BY <2>10, <2>11
<1>4. Good(NumSymbols)
  <2>1. NumSymbols \in Nat
    BY SymbolTableAssumption
  <2> QED BY <1>3, <2>1
<1>5. \A s \in S : s \in Upto(NumSymbols)
  BY <1>1
<1> QED BY <1>4, <1>5

(* What SymbolPrioritySelector selects is one of its candidates. *)
LEMMA BestSymbol ==
  ASSUME NEW S \in SUBSET Symbol
  PROVE  /\ S # {} => Best(S) \in S
         /\ S = {} => Best(S) = Undefined
<1> DEFINE of(strength) == {s \in S : Input[s].strength = strength}
           largest == {s \in of("Common") : \A t \in of("Common") : Input[t].size <= Input[s].size}
<1>1. CASE of("Strong") # {}
  <2>1. Best(S) = Least(of("Strong"))
    BY <1>1, Zenon DEF Best
  <2>2. of("Strong") \in SUBSET Symbol
    OBVIOUS
  <2>3. Least(of("Strong")) \in of("Strong")
    BY <1>1, <2>2, LeastSymbol
  <2> QED BY <1>1, <2>1, <2>3
<1>2. CASE of("Strong") = {} /\ of("Common") # {}
  <2>1. Best(S) = Least(largest)
    BY <1>2, Zenon DEF Best
  <2>2. of("Common") \in SUBSET Symbol /\ largest \in SUBSET Symbol
    OBVIOUS
  <2>3. largest # {}
    BY <1>2, <2>2, LargestSymbol
  <2>4. Least(largest) \in largest
    BY <2>2, <2>3, LeastSymbol
  <2> QED BY <1>2, <2>1, <2>4
<1>3. CASE of("Strong") = {} /\ of("Common") = {} /\ S # {}
  <2>1. Best(S) = Least(S)
    BY <1>3, Zenon DEF Best
  <2> QED BY <1>3, <2>1, LeastSymbol
<1>4. CASE S = {}
  BY <1>4, Zenon DEF Best
<1> QED BY <1>1, <1>2, <1>3, <1>4

(* A lookup finds nothing, or one of the definitions of the name. *)
LEMMA GetSymbol ==
  ASSUME NEW s \in Symbol, Get(s) # Undefined
  PROVE  /\ Get(s) \in Symbol /\ FileOf(Get(s)) \in File
         /\ Get(s) \in Definitions(Name(s), IF FileOf(s) = Prelude THEN None ELSE ReferenceVersion(s))
<1> DEFINE found == Definitions(Name(s), IF FileOf(s) = Prelude THEN None ELSE ReferenceVersion(s))
           regular == {t \in found : ~IsDynamic(t)}
<1>1. found \in SUBSET Symbol /\ regular \in SUBSET Symbol /\ regular \subseteq found
  BY DEF Definitions
<1>2. found # {}
  BY Zenon DEF Get
<1>3. Get(s) = Best(regular) \/ Get(s) = Least(found)
  BY <1>2, Zenon DEF Get
<1>4. Get(s) \in found
  <2>1. Least(found) \in found
    BY <1>1, <1>2, LeastSymbol
  <2>2. Best(regular) \in regular \/ Best(regular) = Undefined
    BY <1>1, BestSymbol
  <2> HIDE DEF found, regular
  <2> QED BY <1>1, <1>3, <2>1, <2>2
<1> HIDE DEF found, regular
<1>5. Get(s) \in Symbol
  BY <1>1, <1>4
<1>6. FileOf(Get(s)) \in File
  BY <1>5, SymbolTableAssumption
<1> QED BY <1>4, <1>5, <1>6 DEF found

(* The files needed are closed under requests, and the least such set. *)
LEMMA RequestTyped == FileRequest \subseteq File \X File
<1>1. \A s \in Symbol : Get(s) # Undefined => FileOf(s) \in File /\ FileOf(Get(s)) \in File
  BY GetSymbol, SymbolTableAssumption
<1> QED BY <1>1 DEF FileRequest

LEMMA NeededRequired == File \ Optional \subseteq NeededFiles
  BY DEF NeededFiles, Reachable, ClosedUnder

LEMMA NeededRequest ==
  ASSUME NEW e \in FileRequest, e[1] \in NeededFiles
  PROVE  e[2] \in NeededFiles
<1>1. e[2] \in File
  BY RequestTyped
<1> QED BY <1>1 DEF NeededFiles, Reachable, ClosedUnder

LEMMA NeededLeast ==
  ASSUME NEW C \in SUBSET File, ClosedUnder(C, File \ Optional, FileRequest)
  PROVE  NeededFiles \subseteq C
  BY DEF NeededFiles, Reachable

(* The symbols that may request a file. *)
Requests(s) == LooksElsewhere(s) /\ Get(s) # Undefined /\ RequestsFile(s, Get(s))

LEMMA RequestsNeeded ==
  ASSUME NEW s \in Symbol, Requests(s), FileOf(s) \in NeededFiles
  PROVE  FileOf(Get(s)) \in NeededFiles
<1>1. <<FileOf(s), FileOf(Get(s))>> \in FileRequest
  BY Zenon DEF FileRequest, Requests
<1> QED BY <1>1, NeededRequest

(* The tasks have nothing else to do than the lookups of loaded files, and *)
(* want files that are needed.                                             *)
OnlyNeeded ==
  /\ \A c \in Chunk : \A s \in todo[c] : s \in Unresolved(c) /\ IsLoaded(FileOf(s))
  /\ LoadedFiles \subseteq NeededFiles
  /\ \A c \in Chunk : want[c] # None => want[c] \in NeededFiles

(* A file that was requested is loaded, or the request is under way.       *)
Honoured(s) ==
  \/ s \in todo[ChunkOf(s)]
  \/ IsLoaded(FileOf(Get(s)))
  \/ want[ChunkOf(s)] = FileOf(Get(s))

NothingForgotten ==
  failed \/ \A s \in Symbol : Requests(s) /\ IsLoaded(FileOf(s)) => Honoured(s)

(* The inductive invariant.                                                *)
NeededInv ==
  /\ LoadInv
  /\ DuplicateInv
  /\ DOMAIN todo = Chunk
  /\ phase # "Done" => outcome = "Running"
  /\ OnlyNeeded
  /\ NothingForgotten
  /\ phase \in {"Alternatives", "Canonicalise"} \/ outcome = "Ok" =>
       NeededFiles \subseteq LoadedFiles

LEMMA ChunkTyped == \A s \in Symbol : ChunkOf(s) \in Chunk /\ ChunkOf(s)[1] = FileOf(s)
  BY DEF Chunk, ChunkOf

LEMMA LoadedRequired ==
  ASSUME LoadInv, NEW f \in File
  PROVE  /\ f \in Optional => (IsLoaded(f) <=> f \notin available)
         /\ f \notin Optional => IsLoaded(f)
<1>1. CASE f \in {Prelude, Synthetic}
  BY <1>1, FileAssumption DEF IsLoaded, Object
<1>2. CASE f \in Object
  BY <1>2, FileAssumption DEF LoadInv, LoadedOnce, IsLoaded, Object
<1> QED BY <1>1, <1>2 DEF Object

LEMMA NeededInit == Init => NeededInv
<1> SUFFICES ASSUME Init PROVE NeededInv
  OBVIOUS
<1>1. LoadInv /\ DuplicateInv
  BY LoadInit, DuplicateInit
<1>2. DOMAIN todo = Chunk /\ phase = "Resolve" /\ outcome = "Running"
  BY DEF Init
<1>3. \A f \in File : IsLoaded(f) <=> f \notin Optional
  BY <1>1, LoadedRequired DEF Init
<1>4. OnlyNeeded
  <2>1. ASSUME NEW c \in Chunk, NEW s \in todo[c] PROVE s \in Unresolved(c) /\ IsLoaded(FileOf(s))
    <3>1. c[1] \notin Optional /\ s \in Unresolved(c)
      BY DEF Init
    <3>2. FileOf(s) = c[1] /\ FileOf(s) \in File
      BY <3>1, ChunkTyped, SymbolTableAssumption DEF Unresolved
    <3> QED BY <1>3, <3>1, <3>2
  <2>2. LoadedFiles \subseteq NeededFiles
    BY <1>3, NeededRequired DEF LoadedFiles
  <2> QED BY <2>1, <2>2 DEF OnlyNeeded, Init
<1>5. NothingForgotten
  <2> SUFFICES ASSUME NEW s \in Symbol, Requests(s), IsLoaded(FileOf(s)) PROVE s \in todo[ChunkOf(s)]
    BY DEF NothingForgotten, Honoured
  <2>1. FileOf(s) \notin Optional
    BY <1>3, SymbolTableAssumption
  <2>2. s \in Unresolved(ChunkOf(s))
    BY DEF Unresolved, Requests
  <2> QED BY <2>1, <2>2, ChunkTyped DEF Init
<1> QED BY <1>1, <1>2, <1>4, <1>5 DEF NeededInv

(* Loading and the lookups are over when the second phase begins. *)
LEMMA NeededUnchanged ==
  ASSUME NeededInv, UNCHANGED <<loads, todo, want>>, failed => failed'
  PROVE  /\ OnlyNeeded' /\ NothingForgotten'
         /\ LoadedFiles' = LoadedFiles
<1>1. \A f : IsLoaded(f)' <=> IsLoaded(f)
  BY DEF IsLoaded
<1>2. LoadedFiles' = LoadedFiles
  BY <1>1 DEF LoadedFiles
<1>3. OnlyNeeded'
  BY <1>1, <1>2 DEF NeededInv, OnlyNeeded
<1>4. NothingForgotten'
  BY <1>1 DEF NeededInv, NothingForgotten, Honoured
<1> QED BY <1>2, <1>3, <1>4

LEMMA ResolveSymbolNeeded ==
  ASSUME NeededInv, NEW c \in Chunk, ResolveSymbol(c)
  PROVE  OnlyNeeded' /\ NothingForgotten'
<1> DEFINE s == Least(todo[c])
           t == Get(s)
<1>1. todo[c] \in SUBSET Symbol /\ todo[c] # {}
  BY DEF ResolveSymbol, Resolving, NeededInv, OnlyNeeded, Unresolved
<1>2. s \in todo[c]
  BY <1>1, LeastSymbol
<1>3. s \in Symbol /\ ChunkOf(s) = c /\ LooksElsewhere(s) /\ IsLoaded(FileOf(s)) /\ FileOf(s) \in File
  BY <1>2, SymbolTableAssumption DEF NeededInv, OnlyNeeded, Unresolved
<1>4. /\ UNCHANGED <<loads, available, failed>>
      /\ want[c] = None
      /\ todo' = [todo EXCEPT ![c] = @ \ {s}]
      /\ want' = IF t # Undefined /\ RequestsFile(s, t) /\ FileOf(t) \in available
                   THEN [want EXCEPT ![c] = FileOf(t)] ELSE want
  BY DEF ResolveSymbol, Resolving
<1>5. \A f : IsLoaded(f)' <=> IsLoaded(f)
  BY <1>4 DEF IsLoaded
<1>6. \A d \in Chunk : todo'[d] \subseteq todo[d] /\ (d # c => want'[d] = want[d])
  BY <1>4 DEF NeededInv, LoadInv
<1>7. want'[c] = None \/ (Requests(s) /\ want'[c] = FileOf(t))
  BY <1>3, <1>4 DEF NeededInv, LoadInv, Requests
<1>8. OnlyNeeded'
  <2>1. FileOf(s) \in NeededFiles
    BY <1>3 DEF NeededInv, OnlyNeeded, LoadedFiles
  <2>2. want'[c] # None => want'[c] \in NeededFiles
    BY <1>3, <1>7, <2>1, RequestsNeeded
  <2>3. LoadedFiles' \subseteq NeededFiles
    BY <1>5 DEF NeededInv, OnlyNeeded, LoadedFiles
  <2> QED BY <1>5, <1>6, <2>2, <2>3 DEF NeededInv, OnlyNeeded
<1>9. NothingForgotten'
  <2> SUFFICES ASSUME ~failed', NEW r \in Symbol, Requests(r), IsLoaded(FileOf(r))' PROVE Honoured(r)'
    BY DEF NothingForgotten
  <2>1. Honoured(r) /\ ChunkOf(r) \in Chunk
    BY <1>4, <1>5, ChunkTyped DEF NeededInv, NothingForgotten
  <2>2. CASE r = s
    <3>1. CASE FileOf(t) \in available
      <4>1. want' = [want EXCEPT ![c] = FileOf(t)]
        BY <1>4, <2>2, <3>1 DEF Requests
      <4> QED BY <1>3, <2>2, <4>1 DEF Honoured, NeededInv, LoadInv
    <3>2. CASE FileOf(t) \notin available
      <4>1. FileOf(t) \in File
        BY <1>3, <2>2, GetSymbol DEF Requests
      <4>2. IsLoaded(FileOf(t))
        BY <3>2, <4>1, LoadedRequired DEF NeededInv
      <4> QED BY <1>5, <2>2, <4>2 DEF Honoured
    <3> QED BY <3>1, <3>2
  <2>3. CASE r # s
    <3>1. r \in todo[ChunkOf(r)] => r \in todo'[ChunkOf(r)]
      BY <1>4, <2>1, <2>3 DEF NeededInv
    <3>2. want[ChunkOf(r)] = FileOf(Get(r)) => want'[ChunkOf(r)] = FileOf(Get(r))
      <4>1. FileOf(Get(r)) # None
        BY GetSymbol, FileAssumption DEF Requests
      <4> QED BY <1>4, <1>6, <2>1, <4>1
    <3> QED BY <1>5, <2>1, <3>1, <3>2 DEF Honoured
  <2> QED BY <2>2, <2>3
<1> QED BY <1>8, <1>9

LEMMA TakeFileNeeded ==
  ASSUME NeededInv, NEW c \in Chunk, TakeFile(c)
  PROVE  /\ OnlyNeeded' /\ NothingForgotten'
         /\ \/ LoadedFiles' = LoadedFiles
            \/ \E f \in NeededFiles : LoadedFiles' = LoadedFiles \cup {f}
         /\ DOMAIN todo' = Chunk
<1> DEFINE f == want[c]
<1>1. f \in NeededFiles /\ f \in Optional /\ f \in Object /\ f \in File
  BY FileAssumption DEF TakeFile, NeededInv, OnlyNeeded, LoadInv, Object
<1>2. want' = [want EXCEPT ![c] = None] /\ failed' = failed
  BY DEF TakeFile
<1>3. CASE f \in available
  <2>1. /\ loads' = [loads EXCEPT ![f] = @ + 1]
        /\ todo' = [d \in Chunk |-> IF d[1] = f THEN Unresolved(d) ELSE todo[d]]
    BY <1>3 DEF TakeFile
  <2>2. \A g \in File : IsLoaded(g)' <=> IsLoaded(g) \/ g = f
    BY <1>1, <2>1, FileAssumption DEF NeededInv, LoadInv, IsLoaded, Object
  <2>3. LoadedFiles' = LoadedFiles \cup {f}
    BY <1>1, <2>2 DEF LoadedFiles
  <2>4. ASSUME NEW d \in Chunk, NEW s \in todo'[d] PROVE s \in Unresolved(d) /\ IsLoaded(FileOf(s))'
    <3>1. s \in Unresolved(d) /\ (d[1] = f \/ IsLoaded(FileOf(s)))
      BY <2>1 DEF NeededInv, OnlyNeeded
    <3>2. s \in Symbol /\ d[1] = FileOf(s) /\ FileOf(s) \in File
      BY <3>1, ChunkTyped, SymbolTableAssumption DEF Unresolved
    <3> QED BY <2>2, <3>1, <3>2
  <2>5. OnlyNeeded'
    BY <1>1, <1>2, <2>3, <2>4 DEF NeededInv, OnlyNeeded, LoadInv
  <2>6. NothingForgotten'
    <3> SUFFICES ASSUME ~failed', NEW r \in Symbol, Requests(r), IsLoaded(FileOf(r))'
                 PROVE  Honoured(r)'
      BY DEF NothingForgotten
    <3>1. /\ ChunkOf(r) \in Chunk /\ ChunkOf(r)[1] = FileOf(r)
          /\ FileOf(r) \in File /\ FileOf(Get(r)) \in File
      BY ChunkTyped, SymbolTableAssumption, GetSymbol DEF Requests
    <3>2. CASE FileOf(r) = f
      <4>1. r \in Unresolved(ChunkOf(r))
        BY DEF Unresolved, Requests
      <4> QED BY <2>1, <3>1, <3>2, <4>1 DEF Honoured
    <3>3. CASE FileOf(r) # f
      <4>1. Honoured(r)
        BY <1>2, <2>2, <3>1, <3>3 DEF NeededInv, NothingForgotten
      <4>2. r \in todo[ChunkOf(r)] => r \in todo'[ChunkOf(r)]
        BY <2>1, <3>1, <3>3
      <4>3. want[ChunkOf(r)] = FileOf(Get(r)) =>
              want'[ChunkOf(r)] = FileOf(Get(r)) \/ FileOf(Get(r)) = f
        BY <1>2, <3>1 DEF NeededInv, LoadInv
      <4> QED BY <2>2, <3>1, <4>1, <4>2, <4>3 DEF Honoured
    <3> QED BY <3>2, <3>3
  <2> QED BY <1>1, <2>1, <2>3, <2>5, <2>6
<1>4. CASE f \notin available
  <2>1. UNCHANGED <<loads, todo>>
    BY <1>4 DEF TakeFile
  <2>2. \A g : IsLoaded(g)' <=> IsLoaded(g)
    BY <2>1 DEF IsLoaded
  <2>3. LoadedFiles' = LoadedFiles
    BY <2>2 DEF LoadedFiles
  <2>4. OnlyNeeded'
    BY <1>2, <2>1, <2>2, <2>3 DEF NeededInv, OnlyNeeded, LoadInv
  <2>5. IsLoaded(f)
    BY <1>1, <1>4, LoadedRequired DEF NeededInv
  <2>6. NothingForgotten'
    <3> SUFFICES ASSUME ~failed', NEW r \in Symbol, Requests(r), IsLoaded(FileOf(r))'
                 PROVE  Honoured(r)'
      BY DEF NothingForgotten
    <3>1. ChunkOf(r) \in Chunk /\ Honoured(r)
      BY <1>2, <2>2, ChunkTyped DEF NeededInv, NothingForgotten
    <3>2. want[ChunkOf(r)] = FileOf(Get(r)) =>
            want'[ChunkOf(r)] = FileOf(Get(r)) \/ FileOf(Get(r)) = f
      BY <1>2, <3>1 DEF NeededInv, LoadInv
    <3> QED BY <2>1, <2>2, <2>5, <3>1, <3>2 DEF Honoured
  <2> QED BY <2>1, <2>3, <2>4, <2>6 DEF NeededInv
<1> QED BY <1>3, <1>4

(* When every task has ended without an error, everything needed is        *)
(* loaded.                                                                 *)
LEMMA AllNeededLoaded ==
  ASSUME NeededInv, EndResolve, ~failed
  PROVE  NeededFiles \subseteq LoadedFiles
<1>1. File \ Optional \subseteq LoadedFiles
  BY LoadedRequired DEF NeededInv, LoadedFiles
<1>2. ASSUME NEW e \in FileRequest, e[1] \in LoadedFiles PROVE e[2] \in LoadedFiles
  <2>1. PICK s \in Symbol : Requests(s) /\ e = <<FileOf(s), FileOf(Get(s))>>
    BY Zenon DEF FileRequest, Requests
  <2>2. FileOf(Get(s)) \in File /\ FileOf(Get(s)) # None /\ ChunkOf(s) \in Chunk
    BY <2>1, GetSymbol, ChunkTyped, FileAssumption DEF Requests
  <2>3. Honoured(s)
    BY <1>2, <2>1 DEF NeededInv, NothingForgotten, LoadedFiles
  <2>4. todo[ChunkOf(s)] = {} /\ want[ChunkOf(s)] = None
    BY <2>2 DEF EndResolve
  <2>5. IsLoaded(FileOf(Get(s)))
    BY <2>2, <2>3, <2>4 DEF Honoured
  <2> QED BY <2>1, <2>2, <2>5 DEF LoadedFiles
<1>3. ClosedUnder(LoadedFiles, File \ Optional, FileRequest) /\ LoadedFiles \in SUBSET File
  BY <1>1, <1>2 DEF ClosedUnder, LoadedFiles
<1> QED BY <1>3, NeededLeast

LEMMA NeededStep == NeededInv /\ [Next]_vars => NeededInv'
<1> SUFFICES ASSUME NeededInv, [Next]_vars PROVE NeededInv'
  OBVIOUS
<1>1. LoadInv' /\ DuplicateInv'
  BY LoadStep, DuplicateStep DEF NeededInv
<1>2. ASSUME NEW c \in Chunk, ChunkStep(c) PROVE NeededInv'
  <2>1. phase = "Resolve" /\ UNCHANGED <<phase, outcome>>
    BY <1>2 DEF ChunkStep, ResolveSymbol, TakeFile, ResolveError, Resolving, NeededInv, DuplicateInv
  <2>2. CASE ResolveSymbol(c)
    <3>1. DOMAIN todo' = Chunk
      BY <2>2 DEF ResolveSymbol, NeededInv
    <3> QED BY <1>1, <2>1, <2>2, <3>1, ResolveSymbolNeeded DEF NeededInv
  <2>3. CASE TakeFile(c)
    BY <1>1, <2>1, <2>3, TakeFileNeeded DEF NeededInv
  <2>4. CASE ResolveError(c)
    <3>1. /\ failed' /\ UNCHANGED <<loads, want>>
          /\ todo' = [todo EXCEPT ![c] = {}]
      BY <2>4 DEF ResolveError
    <3>2. OnlyNeeded'
      BY <3>1 DEF NeededInv, OnlyNeeded, LoadedFiles, IsLoaded
    <3> QED BY <1>1, <2>1, <3>1, <3>2 DEF NeededInv, NothingForgotten
  <2> QED BY <1>2, <2>2, <2>3, <2>4 DEF ChunkStep
<1>3. CASE EndResolve
  <2>1. OnlyNeeded' /\ NothingForgotten' /\ LoadedFiles' = LoadedFiles
    BY <1>3, NeededUnchanged DEF EndResolve, resolveVars
  <2>2. CASE failed
    BY <1>1, <1>3, <2>1, <2>2 DEF EndResolve, NeededInv, resolveVars
  <2>3. CASE ~failed
    BY <1>1, <1>3, <2>1, <2>3, AllNeededLoaded DEF EndResolve, NeededInv, resolveVars
  <2> QED BY <2>2, <2>3
<1>4. ASSUME NEW k \in Key, NameStep(k) PROVE NeededInv'
  <2>1. UNCHANGED <<loads, todo, want, phase, outcome>> /\ (failed => failed')
    BY <1>4 DEF NameStep, SelectAlternative, UpdateDefinition, MergeVisibility, resolveVars
  <2> QED BY <1>1, <2>1, NeededUnchanged DEF NeededInv
<1>5. CASE EndAlternatives \/ Canonicalise
  <2>1. UNCHANGED <<loads, todo, want, failed>>
    BY <1>5 DEF EndAlternatives, Canonicalise, resolveVars
  <2>2. /\ phase \in {"Alternatives", "Canonicalise"}
        /\ phase' # "Done" => outcome' = outcome
    BY <1>5 DEF EndAlternatives, Canonicalise
  <2>3. outcome = "Running"
    BY <2>2 DEF NeededInv
  <2> QED BY <1>1, <2>1, <2>2, <2>3, NeededUnchanged DEF NeededInv
<1>6. CASE Finished \/ UNCHANGED vars
  <2>1. UNCHANGED <<loads, todo, want, failed, phase, outcome>>
    BY <1>6 DEF Finished, vars, resolveVars
  <2> QED BY <1>1, <2>1, NeededUnchanged DEF NeededInv
<1> QED BY <1>2, <1>3, <1>4, <1>5, <1>6 DEF Next

(* In every state only needed files are loaded or requested, and, unless   *)
(* an error was met, no request of a loaded file has been forgotten.       *)
THEOREM ResNeededInvariant == Spec => []NeededInv
  BY NeededInit, NeededStep, PTL DEF Spec

(* Resolution implements LiveSelection: files are loaded one by one, only  *)
(* needed ones, and when it succeeds it has loaded all of them, for all    *)
(* archives and symbol tables and whichever task wins which file.          *)
THEOREM ResLoadsExactlyNeeded == Spec => LoadsExactlyNeeded
<1>1. Init => Promise!Init
  <2> SUFFICES ASSUME Init PROVE Promise!Init
    OBVIOUS
  <2>1. \A f \in File : IsLoaded(f) <=> f \notin Optional
    BY LoadInit, LoadedRequired DEF Init
  <2> QED BY <2>1 DEF Promise!Init, LoadedFiles, Init
<1>2. NeededInv /\ [Next]_vars => [Promise!Next]_(Promise!vars)
  <2> SUFFICES ASSUME NeededInv, [Next]_vars PROVE [Promise!Next]_(Promise!vars)
    OBVIOUS
  <2> USE DEF Promise!vars
  <2>1. ASSUME UNCHANGED loads PROVE LoadedFiles' = LoadedFiles
    BY <2>1 DEF LoadedFiles, IsLoaded
  <2>2. ASSUME NEW c \in Chunk, ChunkStep(c) PROVE [Promise!Next]_(Promise!vars)
    <3>1. CASE TakeFile(c)
      <4>1. outcome = "Running" /\ outcome' = outcome
        BY <3>1 DEF TakeFile, NeededInv, DuplicateInv
      <4> QED BY <3>1, <4>1, TakeFileNeeded DEF Promise!Next, Promise!Select
    <3>2. CASE ResolveSymbol(c) \/ ResolveError(c)
      <4>1. UNCHANGED <<loads, outcome>>
        BY <3>2 DEF ResolveSymbol, ResolveError
      <4> QED BY <2>1, <4>1
    <3> QED BY <2>2, <3>1, <3>2 DEF ChunkStep
  <2>3. ASSUME NEW k \in Key, NameStep(k) PROVE UNCHANGED <<loads, outcome>>
    BY <2>3 DEF NameStep, SelectAlternative, UpdateDefinition, MergeVisibility, resolveVars
  <2>4. CASE EndResolve \/ EndAlternatives
    <3>1. UNCHANGED loads /\ phase # "Done" /\ (outcome' = outcome \/ outcome' = "Err")
      BY <2>4 DEF EndResolve, EndAlternatives, resolveVars
    <3>2. outcome = "Running"
      BY <3>1 DEF NeededInv
    <3> QED BY <2>1, <3>1, <3>2 DEF Promise!Next, Promise!Fail
  <2>5. CASE Canonicalise
    <3>1. UNCHANGED loads /\ phase = "Canonicalise" /\ outcome' = "Ok"
      BY <2>5 DEF Canonicalise
    <3>2. outcome = "Running" /\ LoadedFiles = NeededFiles
      BY <3>1 DEF NeededInv, OnlyNeeded
    <3> QED BY <2>1, <3>1, <3>2 DEF Promise!Next, Promise!Succeed
  <2>6. CASE Finished \/ UNCHANGED vars
    BY <2>1, <2>6 DEF Finished, vars, resolveVars
  <2> QED BY <2>1, <2>2, <2>3, <2>4, <2>5, <2>6 DEF Next
<1> QED BY <1>1, <1>2, ResNeededInvariant, PTL DEF Spec, LoadsExactlyNeeded, Promise!Spec

---------------------------------------------------------------------------
(* What lookups leave behind.                                              *)

(* The file whose loading makes a reference defined after all.             *)
Ignored(s) == IF Get(s) = Undefined THEN None ELSE FileOf(Get(s))

Looked(s) == LooksElsewhere(s) /\ IsLoaded(FileOf(s))

(* A lookup is done: its result is the definition until references are     *)
(* merged, it is on the list of references that may stay undefined, and    *)
(* has hidden what it found.                                               *)
Resolved(s) ==
  /\ outcome # "Ok" => definitions[s] = Get(s)
  /\ MayStayUndefined(s, Get(s)) => [symbol |-> s, ignore |-> Ignored(s)] \in undefined
  /\ Get(s) # Undefined /\ IsHidden(s) => Get(s) \in localised

LookedUp == failed \/ \A s \in Symbol : Looked(s) => s \in todo[ChunkOf(s)] \/ Resolved(s)

(* Only lookups put references on the list. *)
UndefinedSound ==
  \A r \in undefined : /\ r.symbol \in Symbol /\ Looked(r.symbol)
                       /\ r.ignore = Ignored(r.symbol)
                       /\ MayStayUndefined(r.symbol, Get(r.symbol))

(* Names with several definitions are examined in the second phase; their  *)
(* visibility has been merged when they are done.                          *)
StoresSound ==
  /\ \A k \in Key : stores[k].state # "Waiting" => HasAlternatives(k)
  /\ phase # "Alternatives" => \A k \in Key : stores[k].state # "Storing"
  /\ \A k \in Key : stores[k].state = "Storing" =>
       stores[k].left \subseteq Alternatives(k) /\ stores[k].as = SelectSymbol(k)
  /\ phase = "Canonicalise" \/ outcome = "Ok" =>
       ~failed /\ \A k \in Key : HasAlternatives(k) => stores[k].state = "Done"
  /\ \A k \in Key : stores[k].state = "Done" /\ (\E s \in Alternatives(k) : IsHidden(s)) =>
       failed \/ {s \in Alternatives(k) : ~IsDynamic(s)} \subseteq localised

(* What a reference is bound to at the end. *)
Final(s) ==
  CASE ReferenceVersion(s) = None /\ StartStop(Name(s)) # {} -> Least(StartStop(Name(s)))
    [] ReferenceVersion(s) # None /\ s = Representative(s) -> Get(s)
    [] OTHER -> Representative(s)

Merged ==
  outcome = "Ok" =>
    \A s \in Symbol : Looked(s) =>
      definitions[s] = IF s \in StillUndefined THEN Final(s) ELSE Get(s)

BindInv ==
  /\ definitions \in [Symbol -> Symbol \cup {Undefined}]
  /\ \A s \in Symbol : FileOf(s) = Synthetic => definitions[s] = s
  /\ LookedUp
  /\ UndefinedSound
  /\ StoresSound
  /\ Merged

LEMMA GetTyped == \A s \in Symbol : Get(s) \in Symbol \cup {Undefined}
  BY GetSymbol

(* What is selected is one of the alternatives, and depends only on which  *)
(* files are loaded.                                                       *)
LEMMA SelectedSymbol ==
  ASSUME NEW k \in Key, HasAlternatives(k)
  PROVE  SelectSymbol(k) \in Alternatives(k) /\ SelectSymbol(k) \in Symbol
<1>1. /\ Alternatives(k) \in SUBSET Symbol /\ Alternatives(k) # {}
      /\ Candidates(k) \subseteq Alternatives(k) /\ SharedCandidates(k) \subseteq Alternatives(k)
  BY DEF Alternatives, Definitions, HasAlternatives, Candidates, SharedCandidates
<1>2. CASE Candidates(k) # {}
  <2>1. SelectSymbol(k) = Best(Candidates(k))
    BY <1>2, Zenon DEF SelectSymbol
  <2>2. Candidates(k) \in SUBSET Symbol
    BY <1>1
  <2>3. Best(Candidates(k)) \in Candidates(k)
    BY <1>2, <2>2, BestSymbol
  <2> QED BY <1>1, <2>1, <2>3
<1>3. CASE Candidates(k) = {} /\ SharedCandidates(k) # {}
  <2>1. SelectSymbol(k) = Least(SharedCandidates(k))
    BY <1>3, Zenon DEF SelectSymbol
  <2>2. SharedCandidates(k) \in SUBSET Symbol
    BY <1>1
  <2>3. Least(SharedCandidates(k)) \in SharedCandidates(k)
    BY <1>3, <2>2, LeastSymbol
  <2> QED BY <1>1, <2>1, <2>3
<1>4. CASE Candidates(k) = {} /\ SharedCandidates(k) = {}
  <2>1. SelectSymbol(k) = Least(Alternatives(k))
    BY <1>4, Zenon DEF SelectSymbol
  <2> QED BY <1>1, <2>1, LeastSymbol
<1> QED BY <1>2, <1>3, <1>4

LEMMA SelectStable ==
  ASSUME UNCHANGED loads
  PROVE  \A k \in Key : SelectSymbol(k)' = SelectSymbol(k)
<1>1. \A k \in Key : Candidates(k)' = Candidates(k) /\ SharedCandidates(k)' = SharedCandidates(k)
  BY DEF Candidates, SharedCandidates, IsLoaded
<1> QED BY <1>1 DEF SelectSymbol

LEMMA BindInit == Init => BindInv
<1> SUFFICES ASSUME Init PROVE BindInv
  OBVIOUS
<1>1. definitions \in [Symbol -> Symbol \cup {Undefined}]
  BY DEF Init
<1>2. \A s \in Symbol : FileOf(s) = Synthetic => definitions[s] = s
  BY SymbolTableAssumption DEF Init
<1>3. LookedUp
  <2> SUFFICES ASSUME NEW s \in Symbol, Looked(s) PROVE s \in todo[ChunkOf(s)]
    BY DEF LookedUp
  <2>1. FileOf(s) \in File /\ FileOf(s) \notin Optional
    BY LoadInit, LoadedRequired, SymbolTableAssumption DEF Looked, Init
  <2>2. s \in Unresolved(ChunkOf(s))
    BY DEF Unresolved, Looked
  <2> QED BY <2>1, <2>2, ChunkTyped DEF Init
<1>4. UndefinedSound /\ StoresSound /\ Merged
  BY DEF Init, UndefinedSound, StoresSound, Merged
<1> QED BY <1>1, <1>2, <1>3, <1>4 DEF BindInv

(* Whatever else happens, a step that leaves lookups alone keeps them.     *)
LEMMA BindUnchanged ==
  ASSUME BindInv, UNCHANGED <<loads, todo, undefined>>, failed => failed',
         localised \subseteq localised', outcome = "Ok" => outcome' = "Ok",
         \A s \in Symbol : ~IsDefined(s) => definitions'[s] = definitions[s]
  PROVE  LookedUp' /\ UndefinedSound'
<1>1. \A s : Looked(s)' <=> Looked(s)
  BY DEF Looked, IsLoaded
<1>2. LookedUp'
  <2> SUFFICES ASSUME ~failed', NEW s \in Symbol, Looked(s)', s \notin todo'[ChunkOf(s)]
               PROVE  Resolved(s)'
    BY DEF LookedUp
  <2>1. Resolved(s) /\ ~IsDefined(s)
    BY <1>1 DEF BindInv, LookedUp, Looked, LooksElsewhere
  <2> QED BY <2>1 DEF Resolved
<1>3. UndefinedSound'
  BY <1>1 DEF BindInv, UndefinedSound
<1> QED BY <1>2, <1>3

LEMMA ResolveSymbolBinds ==
  ASSUME NeededInv, BindInv, NEW c \in Chunk, ResolveSymbol(c)
  PROVE  BindInv'
<1> DEFINE s == Least(todo[c])
           t == Get(s)
           new == [symbol |-> s, ignore |-> Ignored(s)]
<1>1. todo[c] \in SUBSET Symbol /\ todo[c] # {}
  BY DEF ResolveSymbol, Resolving, NeededInv, OnlyNeeded, Unresolved
<1>2. s \in todo[c]
  BY <1>1, LeastSymbol
<1>3. s \in Symbol /\ ChunkOf(s) = c /\ Looked(s) /\ ~IsDefined(s)
  BY <1>2 DEF NeededInv, OnlyNeeded, Unresolved, Looked, LooksElsewhere
<1>4. /\ UNCHANGED <<loads, failed, phase, stores, outcome>>
      /\ todo' = [todo EXCEPT ![c] = @ \ {s}]
      /\ definitions' = [definitions EXCEPT ![s] = t]
      /\ localised' = IF t # Undefined /\ IsHidden(s) THEN localised \cup {t} ELSE localised
      /\ undefined' = IF MayStayUndefined(s, t) THEN undefined \cup {new} ELSE undefined
  BY Zenon DEF ResolveSymbol, Ignored
<1>5. phase = "Resolve" /\ outcome = "Running"
  BY DEF ResolveSymbol, Resolving, NeededInv
<1>6. \A r : Looked(r)' <=> Looked(r)
  BY <1>4 DEF Looked, IsLoaded
<1>7. t \in Symbol \cup {Undefined}
  BY <1>3, GetTyped
<1> HIDE DEF s
<1>8. definitions' \in [Symbol -> Symbol \cup {Undefined}]
  BY <1>3, <1>4, <1>7 DEF BindInv
<1>9. \A r \in Symbol : FileOf(r) = Synthetic => definitions'[r] = r
  BY <1>3, <1>4, SymbolTableAssumption DEF BindInv
<1>10. LookedUp'
  <2> SUFFICES ASSUME ~failed', NEW r \in Symbol, Looked(r)', r \notin todo'[ChunkOf(r)]
               PROVE  Resolved(r)'
    BY DEF LookedUp
  <2>1. CASE r = s
    <3>1. definitions'[s] = Get(s)
      BY <1>3, <1>4 DEF BindInv
    <3>2. MayStayUndefined(s, Get(s)) => new \in undefined'
      BY <1>4
    <3>3. Get(s) # Undefined /\ IsHidden(s) => Get(s) \in localised'
      BY <1>4
    <3> QED BY <2>1, <3>1, <3>2, <3>3 DEF Resolved
  <2>2. CASE r # s
    <3>1. r \notin todo[ChunkOf(r)]
      BY <1>4, <2>2, ChunkTyped DEF NeededInv
    <3>2. Resolved(r)
      BY <1>4, <1>6, <3>1 DEF BindInv, LookedUp
    <3>3. definitions'[r] = definitions[r] /\ undefined \subseteq undefined' /\ localised \subseteq localised'
      BY <1>3, <1>4, <2>2 DEF BindInv
    <3> QED BY <1>4, <3>2, <3>3 DEF Resolved
  <2> QED BY <2>1, <2>2
<1>11. UndefinedSound'
  <2>1. \A r \in undefined' : r \in undefined \/ (r = new /\ MayStayUndefined(s, Get(s)))
    <3>1. CASE MayStayUndefined(s, t)
      BY <1>4, <3>1
    <3>2. CASE ~MayStayUndefined(s, t)
      BY <1>4, <3>2
    <3> QED BY <3>1, <3>2
  <2>2. new.symbol = s /\ new.ignore = Ignored(s)
    OBVIOUS
  <2> HIDE DEF new
  <2>3. ASSUME NEW r \in undefined
        PROVE  /\ r.symbol \in Symbol /\ Looked(r.symbol)' /\ r.ignore = Ignored(r.symbol)
               /\ MayStayUndefined(r.symbol, Get(r.symbol))
    BY <1>6 DEF BindInv, UndefinedSound
  <2>4. ASSUME NEW q, q = s PROVE q \in Symbol /\ Looked(q)'
    BY <1>3, <1>6, <2>4
  <2>5. ASSUME NEW r \in undefined', r = new, MayStayUndefined(s, Get(s))
        PROVE  /\ r.symbol \in Symbol /\ Looked(r.symbol)' /\ r.ignore = Ignored(r.symbol)
               /\ MayStayUndefined(r.symbol, Get(r.symbol))
    BY <2>2, <2>4, <2>5
  <2> QED BY <2>1, <2>3, <2>5 DEF UndefinedSound
<1>12. StoresSound'
  BY <1>4, <1>5 DEF BindInv, StoresSound, NeededInv, DuplicateInv
<1>13. Merged'
  BY <1>4, <1>5 DEF Merged
<1> QED BY <1>8, <1>9, <1>10, <1>11, <1>12, <1>13 DEF BindInv

LEMMA TakeFileBinds ==
  ASSUME NeededInv, BindInv, NEW c \in Chunk, TakeFile(c)
  PROVE  BindInv'
<1> DEFINE f == want[c]
<1>1. UNCHANGED <<definitions, undefined, localised, stores, failed, outcome, phase>>
  BY DEF TakeFile
<1>2. phase = "Resolve" /\ outcome = "Running"
  BY DEF TakeFile, NeededInv, DuplicateInv
<1>3. f \in Object /\ f \in File
  BY FileAssumption DEF TakeFile, NeededInv, LoadInv, Object
<1>4. StoresSound' /\ Merged'
  BY <1>1, <1>2 DEF BindInv, StoresSound, Merged
<1>5. CASE f \in available
  <2>1. /\ loads' = [loads EXCEPT ![f] = @ + 1]
        /\ todo' = [d \in Chunk |-> IF d[1] = f THEN Unresolved(d) ELSE todo[d]]
    BY <1>5 DEF TakeFile
  <2>2. \A g \in File : IsLoaded(g)' <=> IsLoaded(g) \/ g = f
    BY <1>3, <2>1, FileAssumption DEF NeededInv, LoadInv, IsLoaded, Object
  <2>3. UndefinedSound'
    BY <1>1, <2>2, SymbolTableAssumption DEF BindInv, UndefinedSound, Looked
  <2>4. LookedUp'
    <3> SUFFICES ASSUME ~failed', NEW r \in Symbol, Looked(r)', r \notin todo'[ChunkOf(r)]
                 PROVE  Resolved(r)'
      BY DEF LookedUp
    <3>1. FileOf(r) \in File /\ r \in Unresolved(ChunkOf(r))
      BY SymbolTableAssumption DEF Unresolved, Looked
    <3>2. FileOf(r) # f /\ r \notin todo[ChunkOf(r)]
      BY <2>1, <3>1, ChunkTyped
    <3>3. Resolved(r)
      BY <1>1, <2>2, <3>1, <3>2 DEF BindInv, LookedUp, Looked
    <3> QED BY <1>1, <3>3 DEF Resolved
  <2> QED BY <1>1, <1>4, <2>3, <2>4 DEF BindInv
<1>6. CASE f \notin available
  <2>1. UNCHANGED <<loads, todo>>
    BY <1>6 DEF TakeFile
  <2>2. LookedUp' /\ UndefinedSound'
    BY <1>1, <2>1, BindUnchanged
  <2> QED BY <1>1, <1>4, <2>2 DEF BindInv
<1> QED BY <1>5, <1>6

(* The fields of the names that a step does not concern stay as they are. *)
LEMMA NameStepBinds ==
  ASSUME NeededInv, BindInv, NEW k \in Key, NameStep(k)
  PROVE  BindInv'
<1>1. UNCHANGED <<loads, todo, undefined, phase, outcome>> /\ (failed => failed')
  BY DEF NameStep, SelectAlternative, UpdateDefinition, MergeVisibility, resolveVars
<1>2. phase = "Alternatives"
  BY DEF NameStep, SelectAlternative, UpdateDefinition, MergeVisibility, BindInv, StoresSound
<1>3. outcome = "Running" /\ DOMAIN stores = Key
  BY <1>2 DEF NeededInv, DuplicateInv
<1>4. Merged'
  BY <1>1, <1>3 DEF Merged
<1>5. CASE SelectAlternative(k)
  <2>1. UNCHANGED <<definitions, localised>> /\ HasAlternatives(k)
    BY <1>5 DEF SelectAlternative, resolveVars
  <2>2. LookedUp' /\ UndefinedSound'
    BY <1>1, <2>1, BindUnchanged
  <2>3. /\ \A j \in Key \ {k} : stores'[j] = stores[j]
        /\ \/ failed' /\ stores'[k].state = "Done"
           \/ /\ stores'[k].state = "Storing" /\ stores'[k].left = Alternatives(k)
              /\ stores'[k].as = SelectSymbol(k)
    <3>1. CASE DuplicateStrong(k)
      <4>1. failed' = TRUE /\ stores' = [stores EXCEPT ![k].state = "Done"]
        BY <1>5, <3>1 DEF SelectAlternative
      <4>2. stores'[k].state = "Done" /\ \A j \in Key \ {k} : stores'[j] = stores[j]
        BY <1>3, <4>1
      <4> QED BY <4>1, <4>2
    <3>2. CASE ~DuplicateStrong(k)
      <4>1. stores' = [stores EXCEPT ![k] = [state |-> "Storing", left |-> Alternatives(k),
                                             as |-> SelectSymbol(k)]]
        BY <1>5, <3>2 DEF SelectAlternative
      <4> QED BY <1>3, <4>1
    <3> QED BY <3>1, <3>2
  <2>4. StoresSound'
    BY <1>1, <1>2, <1>3, <2>1, <2>3, SelectStable DEF BindInv, StoresSound
  <2> QED BY <1>4, <2>1, <2>2, <2>4 DEF BindInv
<1>6. CASE UpdateDefinition(k)
  <2> DEFINE s == Least(stores[k].left)
  <2>1. /\ UNCHANGED <<localised, failed>> /\ stores[k].state = "Storing" /\ stores[k].left # {}
        /\ definitions' = [definitions EXCEPT ![s] = stores[k].as]
        /\ stores' = [stores EXCEPT ![k] = [state |-> "Storing", left |-> @.left \ {s}, as |-> @.as]]
    BY <1>6 DEF UpdateDefinition
  <2>2. /\ \A j \in Key \ {k} : stores'[j] = stores[j]
        /\ stores'[k].state = "Storing" /\ stores'[k].as = stores[k].as
        /\ stores'[k].left \subseteq stores[k].left
    BY <1>3, <2>1
  <2>3. HasAlternatives(k) /\ stores[k].left \subseteq Alternatives(k) /\ stores[k].as = SelectSymbol(k)
    BY <2>1 DEF BindInv, StoresSound
  <2>4. Alternatives(k) \in SUBSET Symbol /\ stores[k].left \in SUBSET Symbol
    BY <2>3 DEF Alternatives, Definitions
  <2>5. s \in stores[k].left
    BY <2>1, <2>4, LeastSymbol
  <2>6. s \in Symbol /\ IsDefined(s) /\ FileOf(s) # Synthetic
    BY <2>3, <2>5 DEF Alternatives, Definitions
  <2> HIDE DEF s
  <2>7. definitions' \in [Symbol -> Symbol \cup {Undefined}]
    BY <2>1, <2>3, <2>6, SelectedSymbol DEF BindInv
  <2>8. \A r \in Symbol \ {s} : definitions'[r] = definitions[r]
    BY <2>1, <2>6 DEF BindInv
  <2>9. \A r \in Symbol : FileOf(r) = Synthetic => definitions'[r] = r
    BY <2>6, <2>8 DEF BindInv
  <2>10. LookedUp' /\ UndefinedSound'
    BY <1>1, <2>1, <2>6, <2>8, BindUnchanged
  <2>11. StoresSound'
    BY <1>1, <1>2, <1>3, <2>1, <2>2, <2>3, SelectStable DEF BindInv, StoresSound
  <2> QED BY <1>4, <2>7, <2>9, <2>10, <2>11 DEF BindInv
<1>7. CASE MergeVisibility(k)
  <2>1. /\ UNCHANGED <<definitions, failed>> /\ stores[k].state = "Storing"
        /\ stores' = [stores EXCEPT ![k].state = "Done"]
        /\ localised' = IF \E s \in Alternatives(k) : IsHidden(s)
                          THEN localised \cup {s \in Alternatives(k) : ~IsDynamic(s)}
                          ELSE localised
    BY <1>7 DEF MergeVisibility
  <2>2. /\ \A j \in Key \ {k} : stores'[j] = stores[j]
        /\ stores'[k].state = "Done"
    BY <1>3, <2>1
  <2>3. localised \subseteq localised'
    BY <2>1
  <2>4. LookedUp' /\ UndefinedSound'
    BY <1>1, <2>1, <2>3, BindUnchanged
  <2>5. StoresSound'
    BY <1>1, <1>2, <1>3, <2>1, <2>2, <2>3, SelectStable DEF BindInv, StoresSound
  <2> QED BY <1>4, <2>1, <2>4, <2>5 DEF BindInv
<1> QED BY <1>5, <1>6, <1>7 DEF NameStep

LEMMA CanonicaliseBinds ==
  ASSUME NeededInv, BindInv, Canonicalise
  PROVE  BindInv'
<1>1. /\ phase = "Canonicalise" /\ phase' = "Done" /\ outcome' = "Ok"
      /\ UNCHANGED <<loads, todo, want, undefined, stores, failed>>
      /\ localised \subseteq localised'
      /\ definitions' = [s \in Symbol |-> IF s \in StillUndefined THEN Canonical(s) ELSE definitions[s]]
  BY DEF Canonicalise
<1>2. outcome = "Running" /\ ~failed /\ \A c \in Chunk : todo[c] = {}
  BY <1>1 DEF NeededInv, DuplicateInv, BindInv, StoresSound
<1>3. \A s : IsLoaded(s)' <=> IsLoaded(s)
  BY <1>1 DEF IsLoaded
<1>4. \A s : Looked(s)' <=> Looked(s)
  BY <1>3 DEF Looked
<1>5. StillUndefined' = StillUndefined
  BY <1>1, <1>3 DEF StillUndefined
<1>6. \A s \in StillUndefined : s \in Symbol /\ Looked(s) /\ ~IsDefined(s)
  BY DEF BindInv, UndefinedSound, StillUndefined, Looked, LooksElsewhere
<1>7. ASSUME NEW s \in Symbol, Looked(s) PROVE Resolved(s) /\ definitions[s] = Get(s)
  BY <1>2, <1>7, ChunkTyped DEF BindInv, LookedUp, Resolved
<1>8. ASSUME NEW s \in StillUndefined
      PROVE  Canonical(s) = Final(s) /\ Canonical(s) \in Symbol \cup {Undefined}
  <2>1. definitions[s] = Get(s)
    BY <1>6, <1>7
  <2>2. Canonical(s) = Final(s)
    BY <2>1 DEF Canonical, Final
  <2>3. SameName(s) \in SUBSET Symbol /\ s \in SameName(s)
    BY <1>6 DEF SameName
  <2>4. Representative(s) \in SameName(s)
    BY <2>3, GreatestSymbol DEF Representative
  <2>5. StartStop(Name(s)) # {} => Least(StartStop(Name(s))) \in Symbol
    BY LeastSymbol DEF StartStop
  <2>6. \/ StartStop(Name(s)) # {} /\ Final(s) = Least(StartStop(Name(s)))
        \/ Final(s) = Get(s)
        \/ Final(s) = Representative(s)
    BY Zenon DEF Final
  <2> QED BY <1>6, <2>2, <2>3, <2>4, <2>5, <2>6, GetTyped
<1>9. definitions' \in [Symbol -> Symbol \cup {Undefined}]
  BY <1>1, <1>8 DEF BindInv
<1>10. \A s \in Symbol : FileOf(s) = Synthetic => definitions'[s] = s
  BY <1>1, <1>6, SymbolTableAssumption DEF BindInv
<1>11. LookedUp'
  <2> SUFFICES ASSUME NEW s \in Symbol, Looked(s) PROVE Resolved(s)'
    BY <1>4 DEF LookedUp
  <2>1. Resolved(s)
    BY <1>7
  <2> QED BY <1>1, <2>1 DEF Resolved
<1>12. UndefinedSound'
  BY <1>1, <1>4 DEF BindInv, UndefinedSound
<1>13. StoresSound'
  BY <1>1, <1>2, SelectStable DEF BindInv, StoresSound
<1>14. Merged'
  <2> SUFFICES ASSUME NEW s \in Symbol, Looked(s)
               PROVE  definitions'[s] = IF s \in StillUndefined THEN Final(s)' ELSE Get(s)
    BY <1>4, <1>5 DEF Merged
  <2>1. Final(s)' = Final(s)
    BY <1>5 DEF Final, Representative, SameName
  <2>2. CASE s \in StillUndefined
    BY <1>1, <1>8, <2>1, <2>2
  <2>3. CASE s \notin StillUndefined
    BY <1>1, <1>7, <2>3
  <2> QED BY <2>2, <2>3
<1> QED BY <1>9, <1>10, <1>11, <1>12, <1>13, <1>14 DEF BindInv

LEMMA BindStep == NeededInv /\ BindInv /\ [Next]_vars => BindInv'
<1> SUFFICES ASSUME NeededInv, BindInv, [Next]_vars PROVE BindInv'
  OBVIOUS
<1>1. ASSUME NEW c \in Chunk, ResolveError(c) PROVE BindInv'
  <2>1. /\ failed' /\ phase = "Resolve"
        /\ UNCHANGED <<definitions, localised, undefined, loads, stores, outcome, phase>>
    BY <1>1 DEF ResolveError, Resolving
  <2>2. outcome = "Running"
    BY <2>1 DEF NeededInv
  <2>3. UndefinedSound'
    BY <2>1 DEF BindInv, UndefinedSound, Looked, IsLoaded
  <2>4. LookedUp' /\ StoresSound' /\ Merged'
    BY <2>1, <2>2, SelectStable DEF BindInv, LookedUp, StoresSound, Merged
  <2> QED BY <2>1, <2>3, <2>4 DEF BindInv
<1>2. CASE EndResolve \/ EndAlternatives
  <2>1. /\ UNCHANGED <<definitions, localised, undefined, loads, todo, stores, failed>>
        /\ phase \in {"Resolve", "Alternatives"}
        /\ IF failed THEN phase' = "Done" /\ outcome' = "Err"
                     ELSE phase' \in {"Alternatives", "Canonicalise"} /\ outcome' = outcome
        /\ phase' = "Canonicalise" => phase = "Alternatives"
        /\ phase = "Alternatives" => \A k \in Key : HasAlternatives(k) => stores[k].state = "Done"
    BY <1>2 DEF EndResolve, EndAlternatives, resolveVars
  <2>2. outcome = "Running"
    BY <2>1 DEF NeededInv
  <2>3. LookedUp' /\ UndefinedSound'
    BY <2>1, <2>2, BindUnchanged
  <2>4. \A k \in Key : stores[k].state # "Storing"
    BY <2>1 DEF BindInv, StoresSound
  <2>5. StoresSound'
    BY <2>1, <2>2, <2>4 DEF BindInv, StoresSound
  <2>6. Merged'
    BY <2>1, <2>2 DEF Merged
  <2> QED BY <2>1, <2>3, <2>5, <2>6 DEF BindInv
<1>3. CASE Finished \/ UNCHANGED vars
  <2>1. UNCHANGED <<definitions, localised, undefined, loads, todo, stores, failed, phase, outcome>>
    BY <1>3 DEF Finished, vars, resolveVars
  <2>2. LookedUp' /\ UndefinedSound'
    BY <2>1, BindUnchanged
  <2>3. StoresSound'
    BY <2>1, SelectStable DEF BindInv, StoresSound
  <2>4. Merged'
    BY <2>1 DEF BindInv, Merged, Final, Representative, SameName, StillUndefined, Looked, IsLoaded
  <2> QED BY <2>1, <2>2, <2>3, <2>4 DEF BindInv
<1> QED BY <1>1, <1>2, <1>3, ResolveSymbolBinds, TakeFileBinds, NameStepBinds, CanonicaliseBinds
        DEF Next, ChunkStep

(* Once a chunk has gone past a reference its definition is what the       *)
(* lookup found, it is on the list of references that may stay undefined   *)
(* if it may, and the rest of resolution keeps both.                       *)
THEOREM ResBindInvariant == Spec => []BindInv
  BY ResNeededInvariant, BindInit, BindStep, PTL DEF Spec

---------------------------------------------------------------------------
(* What a successful link says about references.                           *)

(* At the end every lookup of a loaded file has been made, and the files   *)
(* loaded are those needed.                                                *)
LEMMA FinalLookups ==
  ASSUME NeededInv, BindInv, outcome = "Ok"
  PROVE  /\ \A f \in NeededFiles : IsLoaded(f)
         /\ \A s \in Symbol : Looked(s) => Resolved(s)
<1>1. phase = "Done" /\ ~failed
  BY DEF NeededInv, DuplicateInv, BindInv, StoresSound
<1>2. \A c \in Chunk : todo[c] = {}
  BY <1>1 DEF NeededInv, DuplicateInv
<1>3. \A f \in NeededFiles : IsLoaded(f)
  BY DEF NeededInv, LoadedFiles
<1>4. \A s \in Symbol : Looked(s) => Resolved(s)
  BY <1>1, <1>2, ChunkTyped DEF BindInv, LookedUp
<1> QED BY <1>3, <1>4

LEMMA DefinedAfterAll ==
  ASSUME NeededInv, BindInv, outcome = "Ok", WeakDefinitionsNeeded,
         NEW s \in Symbol, Looked(s), Get(s) # Undefined
  PROVE  s \notin StillUndefined /\ definitions[s] = Get(s)
<1>1. s \notin StillUndefined
  <2> SUFFICES ASSUME s \in StillUndefined PROVE FALSE
    OBVIOUS
  <2>1. PICK r \in undefined : r.symbol = s /\ (r.ignore = None \/ ~IsLoaded(r.ignore))
    BY Zenon DEF StillUndefined
  <2>2. r.ignore = FileOf(Get(s)) /\ MayStayUndefined(s, Get(s))
    BY <2>1 DEF BindInv, UndefinedSound, Ignored
  <2>3. FileOf(Get(s)) \in File /\ FileOf(Get(s)) # None
    BY GetSymbol, FileAssumption
  <2>4. ~IsStrongReference(s) \/ FileOf(Get(s)) = FileOf(s)
    BY <2>2 DEF MayStayUndefined
  <2>5. FileOf(Get(s)) \in NeededFiles \/ FileOf(Get(s)) = FileOf(s)
    BY <2>4 DEF WeakDefinitionsNeeded, Looked
  <2>6. IsLoaded(FileOf(Get(s)))
    BY <2>5, FinalLookups DEF Looked
  <2> QED BY <2>1, <2>2, <2>3, <2>6
<1> QED BY <1>1 DEF BindInv, Merged

(* References of regular objects are looked up under their own version. *)
LEMMA ReferenceFacts ==
  ASSUME NEW k \in Key, NEW s \in References(k)
  PROVE  /\ s \in Symbol /\ Looked(s) /\ ReferenceVersion(s) = k[2] /\ Name(s) = k[1]
         /\ FileOf(s) # Prelude /\ ~IsDynamic(s) /\ IsLoaded(FileOf(s))
         /\ Definitions(Name(s), ReferenceVersion(s)) = Alternatives(k)
  BY DEF References, Looked, LooksElsewhere, ReferenceVersion, IsDynamic, Object, Alternatives

LEMMA UndefinedMerged ==
  ASSUME ReferencesUnversioned, NeededInv, BindInv, outcome = "Ok",
         NEW k \in Key, \A d \in Alternatives(k) : ~IsLoaded(FileOf(d)),
         NEW s \in References(k)
  PROVE  /\ s \in StillUndefined
         /\ IF StartStop(k[1]) # {}
              THEN /\ Definition(s) = Least(StartStop(k[1]))
                   /\ Definition(s) \in Symbol /\ FileOf(Definition(s)) = Synthetic
              ELSE /\ Definition(s) = Representative(s) /\ Definition(s) \in SameName(s)
<1> DEFINE t == Get(s)
<1>1. /\ s \in Symbol /\ Looked(s) /\ ReferenceVersion(s) = k[2] /\ Name(s) = k[1]
      /\ FileOf(s) # Prelude /\ ~IsDynamic(s) /\ IsLoaded(FileOf(s))
      /\ Definitions(Name(s), ReferenceVersion(s)) = Alternatives(k)
  BY ReferenceFacts
<1>2. ReferenceVersion(s) = None
  BY <1>1 DEF ReferencesUnversioned, References, ReferenceVersion
<1>3. t = Undefined \/ ~IsLoaded(FileOf(t))
  <2>1. t # Undefined => t \in Alternatives(k)
    BY <1>1, GetSymbol
  <2> QED BY <2>1
<1>4. MayStayUndefined(s, t)
  <2> SUFFICES ASSUME t # Undefined PROVE ~IsStrongReference(s) /\ FileOf(t) # Prelude
    BY <1>1 DEF MayStayUndefined
  <2>1. FileOf(t) # FileOf(s) /\ FileOf(t) # Prelude
    BY <1>1, <1>3 DEF IsLoaded
  <2>2. ASSUME IsStrongReference(s) PROVE FALSE
    <3>1. Requests(s)
      BY <1>1, <2>1, <2>2 DEF Requests, RequestsFile, Looked
    <3>2. FileOf(s) \in NeededFiles
      BY <1>1, SymbolTableAssumption DEF NeededInv, OnlyNeeded, LoadedFiles
    <3>3. FileOf(t) \in NeededFiles
      BY <1>1, <3>1, <3>2, RequestsNeeded
    <3> QED BY <1>3, <3>3, FinalLookups
  <2> QED BY <2>1, <2>2
<1>5. s \in StillUndefined
  <2> DEFINE r == [symbol |-> s, ignore |-> Ignored(s)]
  <2>1. r \in undefined
    BY <1>1, <1>4, FinalLookups DEF Resolved
  <2>2. r.symbol = s /\ (r.ignore = None \/ ~IsLoaded(r.ignore))
    BY <1>3 DEF Ignored
  <2> HIDE DEF r
  <2> QED BY <2>1, <2>2 DEF StillUndefined
<1>6. CASE StartStop(k[1]) # {}
  <2>1. Final(s) = Least(StartStop(k[1]))
    BY <1>1, <1>2, <1>6, Zenon DEF Final
  <2>2. StartStop(k[1]) \in SUBSET Symbol
    BY DEF StartStop
  <2>3. Final(s) \in StartStop(k[1])
    BY <1>6, <2>1, <2>2, LeastSymbol
  <2>4. Final(s) \in Symbol /\ FileOf(Final(s)) = Synthetic /\ Final(s) # Undefined
    BY <2>3, SymbolNumbers DEF StartStop, Symbol, Undefined
  <2>5. definitions[s] = Final(s)
    BY <1>1, <1>5 DEF BindInv, Merged
  <2>6. definitions[Final(s)] = Final(s)
    BY <2>4 DEF BindInv
  <2> QED BY <1>5, <1>6, <2>1, <2>4, <2>5, <2>6 DEF Definition
<1>7. CASE StartStop(k[1]) = {}
  <2> DEFINE rep == Representative(s)
  <2>1. SameName(s) \in SUBSET Symbol /\ s \in SameName(s)
    BY <1>5 DEF SameName, StillUndefined, BindInv, UndefinedSound
  <2>2. rep \in SameName(s)
    BY <2>1, GreatestSymbol DEF Representative
  <2>3. /\ rep \in StillUndefined /\ rep \in Symbol /\ Name(rep) = k[1] /\ ReferenceVersion(rep) = None
        /\ SameName(rep) = SameName(s)
    BY <1>1, <1>2, <2>1, <2>2 DEF SameName
  <2>4. Looked(rep)
    BY <2>3 DEF StillUndefined, BindInv, UndefinedSound
  <2>5. Representative(rep) = rep
    BY <2>3 DEF Representative
  <2> HIDE DEF rep
  <2>6. Final(s) = rep
    <3>1. Final(s) = Representative(s)
      BY <1>1, <1>2, <1>7, Zenon DEF Final
    <3> QED BY <3>1 DEF rep
  <2>7. Final(rep) = rep
    <3>1. Final(rep) = Representative(rep)
      BY <1>7, <2>3, Zenon DEF Final
    <3> QED BY <2>5, <3>1
  <2>8. definitions[s] = rep /\ definitions[rep] = rep /\ rep # Undefined
    BY <1>1, <1>5, <2>3, <2>4, <2>6, <2>7, SymbolNumbers DEF BindInv, Merged, Symbol, Undefined
  <2> QED BY <1>5, <1>7, <2>2, <2>8 DEF Definition, rep
<1> QED BY <1>6, <1>7

(* References that no loaded file defines become one symbol, of a file     *)
(* that is loaded, or the linker's own __start_ or __stop_ symbol; for all *)
(* inputs in which objects do not ask for versions.                        *)
THEOREM ResUndefinedReferencesMerged ==
  ASSUME ReferencesUnversioned
  PROVE  Spec => []UndefinedReferencesMerged
<1>1. NeededInv /\ BindInv => UndefinedReferencesMerged
  <2> SUFFICES ASSUME NeededInv, BindInv, outcome = "Ok", NEW k \in Key,
                      \A d \in Alternatives(k) : ~IsLoaded(FileOf(d)),
                      NEW s \in References(k), NEW t \in References(k)
               PROVE  /\ Definition(s) = Definition(t)
                      /\ Definition(s) # Undefined /\ IsLoaded(FileOf(Definition(s)))
                      /\ IsDefined(Definition(s)) => FileOf(Definition(s)) = Synthetic
    BY DEF UndefinedReferencesMerged
  <2>1. CASE StartStop(k[1]) # {}
    <3>1. Definition(s) = Definition(t) /\ Definition(s) \in Symbol /\ FileOf(Definition(s)) = Synthetic
      BY <2>1, UndefinedMerged
    <3> QED BY <3>1, SymbolNumbers DEF IsLoaded, Symbol, Undefined
  <2>2. CASE StartStop(k[1]) = {}
    <3>1. /\ Definition(s) = Representative(s) /\ Definition(s) \in SameName(s)
          /\ Definition(t) = Representative(t)
      BY <2>2, UndefinedMerged
    <3>2. SameName(s) = SameName(t)
      BY ReferenceFacts DEF SameName
    <3>3. Definition(s) = Definition(t)
      BY <3>1, <3>2 DEF Representative
    <3>4. Definition(s) \in Symbol /\ Looked(Definition(s))
      BY <3>1 DEF SameName, StillUndefined, BindInv, UndefinedSound
    <3> QED BY <3>3, <3>4, SymbolNumbers DEF Looked, LooksElsewhere, Symbol, Undefined
  <2> QED BY <2>1, <2>2
<1> QED BY <1>1, ResNeededInvariant, ResBindInvariant, PTL

(* A definition that a hidden reference is bound to has been downgraded,   *)
(* by the lookup or when the visibility of its alternatives was merged.    *)
THEOREM ResHiddenReferencesStayLocal ==
  ASSUME HiddenNamesAgree
  PROVE  Spec => []HiddenReferencesStayLocal
<1>1. NeededInv /\ BindInv => HiddenReferencesStayLocal
  <2> SUFFICES ASSUME NeededInv, BindInv, outcome = "Ok", NEW k \in Key, NEW s \in References(k),
                      IsHidden(s), NEW d, d \in Candidates(k)
               PROVE  d \in localised
    BY DEF HiddenReferencesStayLocal
  <2>1. d \in Alternatives(k) /\ d \in Symbol /\ ~IsDynamic(d)
    BY DEF Candidates, Alternatives, Definitions, IsDynamic
  <2>2. CASE HasAlternatives(k)
    <3>1. \E t \in Alternatives(k) : IsHidden(t)
      BY <2>2 DEF HiddenNamesAgree, References
    <3>2. stores[k].state = "Done" /\ ~failed
      BY <2>2 DEF BindInv, StoresSound
    <3>3. {t \in Alternatives(k) : ~IsDynamic(t)} \subseteq localised
      BY <3>1, <3>2 DEF BindInv, StoresSound
    <3> QED BY <2>1, <3>3
  <2>3. CASE ~HasAlternatives(k)
    <3>1. Alternatives(k) = {d}
      BY <2>1, <2>3 DEF HasAlternatives
    <3>2. /\ s \in Symbol /\ Looked(s) /\ FileOf(s) # Prelude
          /\ Definitions(Name(s), ReferenceVersion(s)) = {d}
      BY <3>1, ReferenceFacts
    <3>3. Least({d}) = d
      BY <2>1, LeastSymbol
    <3>4. Get(s) = d
      BY <2>1, <3>2, <3>3, Zenon DEF Get
    <3>5. d # Undefined
      BY <2>1, SymbolNumbers DEF Symbol, Undefined
    <3> QED BY <3>2, <3>4, <3>5, FinalLookups DEF Resolved
  <2> QED BY <2>2, <2>3
<1> QED BY <1>1, ResNeededInvariant, ResBindInvariant, PTL

---------------------------------------------------------------------------
LEMMA OffsetsDiffer ==
  ASSUME NEW s \in Symbol, NEW t \in Symbol, FileOf(s) = FileOf(t), s < t
  PROVE  Offset[s] \in Nat /\ Offset[t] \in Nat /\ Offset[s] # Offset[t]
<1> DEFINE before(u) == {r \in Symbol : FileOf(r) = FileOf(u) /\ r < u}
<1>1. IsFiniteSet(Symbol)
  BY FS_Interval, SymbolNumbers DEF Symbol
<1>2. before(t) \in SUBSET Symbol /\ before(s) \in SUBSET Symbol
  OBVIOUS
<1>3. IsFiniteSet(before(t)) /\ IsFiniteSet(before(s))
  BY <1>1, <1>2, FS_Subset
<1>4. s \in Nat /\ t \in Nat /\ \A r \in Symbol : r \in Nat
  BY SymbolNumbers DEF Symbol
<1>5. before(s) \subseteq before(t)
  <2>1. \A r \in before(s) : r \in Symbol /\ FileOf(r) = FileOf(t) /\ r < t
    BY <1>4
  <2> QED BY <2>1
<1>6. s \in before(t) /\ s \notin before(s)
  BY <1>4
<1>7. Offset[s] = Cardinality(before(s)) /\ Offset[t] = Cardinality(before(t))
  BY DEF Offset
<1>8. Cardinality(before(t)) # Cardinality(before(s))
  <2> HIDE DEF before
  <2> QED BY <1>3, <1>5, <1>6, FS_Subset
<1>9. Cardinality(before(t)) \in Nat /\ Cardinality(before(s)) \in Nat
  <2> HIDE DEF before
  <2> QED BY <1>3, FS_CardinalityType
<1> QED BY <1>7, <1>8, <1>9

LEMMA OffsetType == \A s \in Symbol : Offset[s] \in Nat
<1> TAKE s \in Symbol
<1> DEFINE before == {r \in Symbol : FileOf(r) = FileOf(s) /\ r < s}
<1>1. IsFiniteSet(Symbol)
  BY FS_Interval, SymbolNumbers DEF Symbol
<1>2. Offset[s] = Cardinality(before) /\ before \in SUBSET Symbol
  BY DEF Offset
<1> HIDE DEF before
<1> QED BY <1>1, <1>2, FS_Subset, FS_CardinalityType

LEMMA VersionRead ==
  ASSUME SharedObjectsFitChunk, NEW s \in Symbol, ~IsDefined(s), IsDynamic(s)
  PROVE  ReferenceVersion(s) = Version(s)
<1> DEFINE t == CHOOSE t \in Symbol : FileOf(t) = FileOf(s) /\ Offset[t] = Offset[s] % ChunkSize
<1>1. Offset[s] % ChunkSize = Offset[s]
  <2>1. Offset[s] \in Nat /\ ChunkSize \in Nat \ {0} /\ Offset[s] < ChunkSize
    BY OffsetType, SymbolTableAssumption DEF SharedObjectsFitChunk
  <2> QED BY <2>1
<1>2. t \in Symbol /\ FileOf(t) = FileOf(s) /\ Offset[t] = Offset[s]
  <2>1. \E r \in Symbol : FileOf(r) = FileOf(s) /\ Offset[r] = Offset[s] % ChunkSize
    BY <1>1
  <2>2. t \in Symbol /\ FileOf(t) = FileOf(s) /\ Offset[t] = Offset[s] % ChunkSize
    BY <2>1, Zenon
  <2> QED BY <1>1, <2>2
<1>3. ReferenceVersion(s) = IF IsDefined(t) THEN None ELSE Version(t)
  BY Zenon DEF ReferenceVersion
<1> HIDE DEF t
<1>4. t = s
  <2>1. s \in Nat /\ t \in Nat
    BY <1>2, SymbolNumbers DEF Symbol
  <2>2. ~(s < t) /\ ~(t < s)
    BY <1>2, OffsetsDiffer
  <2> QED BY <2>1, <2>2
<1> QED BY <1>3, <1>4, Zenon

---------------------------------------------------------------------------
(* Selection.                                                              *)

(* The selector's choice beats every other candidate. *)
LEMMA BestBeats ==
  ASSUME NEW S \in SUBSET Symbol, S # {}
  PROVE  \A t \in S \ {Best(S)} : Beats(Best(S), t)
<1> DEFINE of(strength) == {s \in S : Input[s].strength = strength}
           largest == {s \in of("Common") : \A t \in of("Common") : Input[t].size <= Input[s].size}
           b == Best(S)
<1> SUFFICES ASSUME NEW t \in S, t # b PROVE Beats(b, t)
  BY Zenon
<1>1. /\ t \in Nat /\ Input[t].size \in Nat /\ Input[t].strength \in SymbolStrength
      /\ b \in S /\ b \in Nat /\ Input[b].size \in Nat /\ Input[b].strength \in SymbolStrength
  <2>1. b \in S
    BY BestSymbol
  <2>2. \A u \in S : u \in Nat /\ Input[u].size \in Nat /\ Input[u].strength \in SymbolStrength
    BY SymbolNumbers, SymbolSizes
  <2> HIDE DEF b
  <2> QED BY <2>1, <2>2
<1>2. ASSUME Input[b].strength = Input[t].strength, Input[b].strength # "Common", b < t
      PROVE  Beats(b, t)
  BY <1>2, Zenon DEF Beats
<1>3. ASSUME Input[b].strength # Input[t].strength,
             Input[b].strength = "Strong" \/ Input[t].strength = "Weak"
      PROVE  Beats(b, t)
  BY <1>3, Zenon DEF Beats
<1>4. ASSUME Input[b].strength = "Common", Input[t].strength = "Common",
             \/ Input[b].size > Input[t].size
             \/ Input[b].size = Input[t].size /\ b < t
      PROVE  Beats(b, t)
  <2>1. CASE Input[b].size > Input[t].size
    <3>1. Input[b].size # Input[t].size
      <4> HIDE DEF b
      <4> QED BY <1>1, <2>1
    <3>2. Beats(b, t) = (Input[b].size > Input[t].size)
      BY <1>4, <3>1, Zenon DEF Beats
    <3> QED BY <2>1, <3>2
  <2>2. CASE Input[b].size = Input[t].size /\ b < t
    BY <1>4, <2>2, Zenon DEF Beats
  <2> QED BY <1>4, <2>1, <2>2
<1>5. CASE of("Strong") # {}
  <2>1. b = Least(of("Strong"))
    BY <1>5, Zenon DEF Best
  <2>2. of("Strong") \in SUBSET Symbol
    OBVIOUS
  <2>3. b \in of("Strong") /\ \A u \in of("Strong") : b <= u
    BY <1>5, <2>1, <2>2, LeastSymbol
  <2>4. Input[b].strength = "Strong" /\ (Input[t].strength = "Strong" => b <= t)
    BY <2>3
  <2> HIDE DEF b
  <2> QED BY <1>1, <1>2, <1>3, <2>4
<1>6. CASE of("Strong") = {} /\ of("Common") # {}
  <2>1. b = Least(largest)
    BY <1>6, Zenon DEF Best
  <2>2. of("Common") \in SUBSET Symbol /\ largest \in SUBSET Symbol
    OBVIOUS
  <2>3. largest # {}
    BY <1>6, <2>2, LargestSymbol
  <2>4. b \in largest /\ \A u \in largest : b <= u
    BY <2>1, <2>2, <2>3, LeastSymbol
  <2>5. /\ Input[b].strength = "Common" /\ Input[t].strength # "Strong"
        /\ \A u \in of("Common") : Input[u].size <= Input[b].size
    BY <1>6, <2>4
  <2>6. CASE Input[t].strength = "Common"
    <3>1. t \in of("Common") /\ Input[t].size <= Input[b].size
      BY <2>5, <2>6
    <3>2. CASE Input[t].size = Input[b].size
      <4>1. t \in largest
        BY <2>5, <3>1, <3>2
      <4>2. b <= t
        BY <2>4, <4>1
      <4>3. b < t
        <5> HIDE DEF b
        <5> QED BY <1>1, <4>2
      <4> QED BY <1>4, <2>5, <2>6, <3>2, <4>3
    <3>3. CASE Input[t].size # Input[b].size
      <4>1. Input[b].size > Input[t].size
        <5> HIDE DEF b
        <5> QED BY <1>1, <3>1, <3>3
      <4> QED BY <1>4, <2>5, <2>6, <4>1
    <3> QED BY <3>2, <3>3
  <2>7. CASE Input[t].strength # "Common"
    <3>1. Input[t].strength = "Weak"
      BY <1>1, <2>5, <2>7 DEF SymbolStrength
    <3> QED BY <1>3, <2>5, <3>1
  <2> QED BY <2>6, <2>7
<1>7. CASE of("Strong") = {} /\ of("Common") = {}
  <2>1. b = Least(S)
    BY <1>7, Zenon DEF Best
  <2>2. b \in S /\ b <= t
    BY <2>1, LeastSymbol
  <2>3. Input[b].strength = "Weak" /\ Input[t].strength = "Weak"
    BY <1>1, <1>7 DEF SymbolStrength
  <2>4. b < t
    <3> HIDE DEF b
    <3> QED BY <1>1, <2>2
  <2> QED BY <1>2, <2>3, <2>4
<1> QED BY <1>5, <1>6, <1>7

(* Definitions stand for themselves until the one that was selected is     *)
(* stored for all of them.                                                 *)
SelectInv ==
  /\ phase = "Resolve" => \A s \in Symbol : IsDefined(s) => definitions[s] = s
  /\ \A k \in Key : \A t \in Alternatives(k) :
       definitions[t] = t \/ (HasAlternatives(k) /\ definitions[t] = SelectSymbol(k))
  /\ \A k \in Key : stores[k].state = "Storing" =>
       \A t \in Alternatives(k) : t \in stores[k].left \/ definitions[t] = SelectSymbol(k)
  /\ \A k \in Key : stores[k].state = "Done" =>
       failed \/ \A t \in Alternatives(k) : definitions[t] = SelectSymbol(k)

LEMMA SelectInit == Init => SelectInv
  BY DEF Init, SelectInv, Alternatives, Definitions

LEMMA SameAlternatives ==
  ASSUME NEW j \in Key, NEW k \in Key, Alternatives(j) = Alternatives(k)
  PROVE  SelectSymbol(j) = SelectSymbol(k) /\ (HasAlternatives(j) <=> HasAlternatives(k))
<1>1. Candidates(j) = Candidates(k) /\ SharedCandidates(j) = SharedCandidates(k)
  BY DEF Candidates, SharedCandidates
<1> QED BY <1>1 DEF SelectSymbol, HasAlternatives

(* While names wait and definitions stand for themselves, files may still  *)
(* be loaded.                                                              *)
LEMMA SelectResolving ==
  ASSUME SelectInv, phase = "Resolve", \A k \in Key : stores'[k].state = "Waiting",
         \A s \in Symbol : IsDefined(s) => definitions'[s] = definitions[s]
  PROVE  SelectInv'
<1>1. \A s \in Symbol : IsDefined(s) => definitions'[s] = s
  BY DEF SelectInv
<1>2. \A k \in Key : \A t \in Alternatives(k) : t \in Symbol /\ IsDefined(t)
  BY DEF Alternatives, Definitions
<1> QED BY <1>1, <1>2 DEF SelectInv

LEMMA SelectUnchanged ==
  ASSUME SelectInv, UNCHANGED <<loads, stores>>, failed => failed', phase # "Resolve" => phase' # "Resolve",
         \A s \in Symbol : IsDefined(s) => definitions'[s] = definitions[s]
  PROVE  SelectInv'
<1>1. \A k \in Key : \A t \in Alternatives(k) : t \in Symbol /\ IsDefined(t)
  BY DEF Alternatives, Definitions
<1> QED BY <1>1, SelectStable DEF SelectInv

LEMMA SelectNameStep ==
  ASSUME SeparateVersions, NeededInv, BindInv, SelectInv, NEW k \in Key, NameStep(k)
  PROVE  SelectInv'
<1>1. UNCHANGED <<loads, phase>> /\ (failed => failed')
  BY DEF NameStep, SelectAlternative, UpdateDefinition, MergeVisibility, resolveVars
<1>2. phase = "Alternatives" /\ DOMAIN stores = Key
  BY DEF NameStep, SelectAlternative, UpdateDefinition, MergeVisibility, BindInv, StoresSound,
         NeededInv, DuplicateInv
<1>3. CASE SelectAlternative(k)
  <2>1. definitions' = definitions
    BY <1>3 DEF SelectAlternative, resolveVars
  <2>2. /\ \A j \in Key \ {k} : stores'[j] = stores[j]
        /\ \/ failed' /\ stores'[k].state = "Done"
           \/ stores'[k].state = "Storing" /\ stores'[k].left = Alternatives(k)
    <3>1. CASE DuplicateStrong(k)
      <4>1. failed' = TRUE /\ stores' = [stores EXCEPT ![k].state = "Done"]
        BY <1>3, <3>1 DEF SelectAlternative
      <4>2. stores'[k].state = "Done" /\ \A j \in Key \ {k} : stores'[j] = stores[j]
        BY <1>2, <4>1
      <4> QED BY <4>1, <4>2
    <3>2. CASE ~DuplicateStrong(k)
      <4>1. stores' = [stores EXCEPT ![k] = [state |-> "Storing", left |-> Alternatives(k),
                                             as |-> SelectSymbol(k)]]
        BY <1>3, <3>2 DEF SelectAlternative
      <4> QED BY <1>2, <4>1
    <3> QED BY <3>1, <3>2
  <2> QED BY <1>1, <1>2, <2>1, <2>2, SelectStable DEF SelectInv
<1>4. CASE UpdateDefinition(k)
  <2> DEFINE s == Least(stores[k].left)
  <2>1. /\ UNCHANGED failed /\ stores[k].state = "Storing" /\ stores[k].left # {}
        /\ definitions' = [definitions EXCEPT ![s] = stores[k].as]
        /\ stores' = [stores EXCEPT ![k] = [state |-> "Storing", left |-> @.left \ {s}, as |-> @.as]]
    BY <1>4 DEF UpdateDefinition
  <2>2. /\ \A j \in Key \ {k} : stores'[j] = stores[j]
        /\ stores'[k].state = "Storing" /\ stores'[k].left = stores[k].left \ {s}
    BY <1>2, <2>1
  <2>3. HasAlternatives(k) /\ stores[k].left \subseteq Alternatives(k) /\ stores[k].as = SelectSymbol(k)
    BY <2>1 DEF BindInv, StoresSound
  <2>4. Alternatives(k) \in SUBSET Symbol /\ stores[k].left \in SUBSET Symbol
    BY <2>3 DEF Alternatives, Definitions
  <2>5. s \in stores[k].left
    BY <2>1, <2>4, LeastSymbol
  <2> HIDE DEF s
  <2>6. /\ \A r \in Symbol \ {s} : definitions'[r] = definitions[r]
        /\ definitions'[s] = SelectSymbol(k)
    BY <2>1, <2>3, <2>4, <2>5 DEF BindInv
  <2>7. ASSUME NEW j \in Key, s \in Alternatives(j)
        PROVE  HasAlternatives(j) /\ SelectSymbol(j) = SelectSymbol(k)
    <3>1. Alternatives(k) = Alternatives(j)
      BY <2>3, <2>5, <2>7 DEF SeparateVersions
    <3> QED BY <2>3, <3>1, SameAlternatives
  <2>8. \A j \in Key : \A t \in Alternatives(j) : t \in Symbol
    BY DEF Alternatives, Definitions
  <2>9. \A j \in Key : \A t \in Alternatives(j) :
          definitions'[t] = definitions[t] \/ (HasAlternatives(j) /\ definitions'[t] = SelectSymbol(j))
    BY <2>6, <2>7, <2>8
  <2>10. \A j \in Key : \A t \in Alternatives(j) :
           definitions[t] = SelectSymbol(j) => definitions'[t] = SelectSymbol(j)
    BY <2>9
  <2>11. \A t \in Alternatives(k) :
           t \in stores'[k].left \/ t = s \/ t \notin stores[k].left
    BY <2>2
  <2>12. SelectInv!2'
    BY <1>1, <2>9, SelectStable DEF SelectInv
  <2>13. ASSUME NEW j \in Key, stores'[j].state = "Storing", NEW t \in Alternatives(j)
         PROVE  t \in stores'[j].left \/ definitions'[t] = SelectSymbol(j)
    <3>1. CASE j = k
      BY <2>1, <2>6, <2>10, <2>11, <3>1 DEF SelectInv
    <3>2. CASE j # k
      BY <2>2, <2>10, <2>13, <3>2 DEF SelectInv
    <3> QED BY <3>1, <3>2
  <2>14. ASSUME NEW j \in Key, stores'[j].state = "Done", ~failed', NEW t \in Alternatives(j)
         PROVE  definitions'[t] = SelectSymbol(j)
    BY <2>1, <2>2, <2>10, <2>14 DEF SelectInv
  <2> QED BY <1>1, <1>2, <2>12, <2>13, <2>14, SelectStable DEF SelectInv
<1>5. CASE MergeVisibility(k)
  <2>1. /\ UNCHANGED <<definitions, failed>> /\ stores[k].state = "Storing" /\ stores[k].left = {}
        /\ stores' = [stores EXCEPT ![k].state = "Done"]
    BY <1>5 DEF MergeVisibility
  <2>2. /\ \A j \in Key \ {k} : stores'[j] = stores[j]
        /\ stores'[k].state = "Done"
    BY <1>2, <2>1
  <2> QED BY <1>1, <1>2, <2>1, <2>2, SelectStable DEF SelectInv
<1> QED BY <1>3, <1>4, <1>5 DEF NameStep

LEMMA SelectStep ==
  ASSUME SeparateVersions
  PROVE  NeededInv /\ BindInv /\ SelectInv /\ [Next]_vars => SelectInv'
<1> SUFFICES ASSUME NeededInv, BindInv, SelectInv, [Next]_vars PROVE SelectInv'
  OBVIOUS
<1>1. ASSUME NEW c \in Chunk, ChunkStep(c) PROVE SelectInv'
  <2>1. phase = "Resolve" /\ UNCHANGED <<phase, stores>>
    BY <1>1 DEF ChunkStep, ResolveSymbol, TakeFile, ResolveError, Resolving, NeededInv, DuplicateInv
  <2>2. \A k \in Key : stores[k].state = "Waiting"
    BY <2>1 DEF NeededInv, DuplicateInv
  <2>3. \A s \in Symbol : IsDefined(s) => definitions'[s] = definitions[s]
    <3>1. CASE ResolveSymbol(c)
      <4> DEFINE r == Least(todo[c])
      <4>1. todo[c] \in SUBSET Symbol /\ todo[c] # {}
        BY <3>1 DEF ResolveSymbol, Resolving, NeededInv, OnlyNeeded, Unresolved
      <4>2. r \in todo[c]
        BY <4>1, LeastSymbol
      <4>3. ~IsDefined(r)
        BY <4>2 DEF NeededInv, OnlyNeeded, Unresolved, LooksElsewhere
      <4>4. definitions' = [definitions EXCEPT ![r] = Get(r)]
        BY <3>1 DEF ResolveSymbol
      <4> HIDE DEF r
      <4> QED BY <4>3, <4>4 DEF BindInv
    <3>2. CASE TakeFile(c) \/ ResolveError(c)
      BY <3>2 DEF TakeFile, ResolveError
    <3> QED BY <1>1, <3>1, <3>2 DEF ChunkStep
  <2> QED BY <2>1, <2>2, <2>3, SelectResolving
<1>2. CASE EndResolve \/ EndAlternatives \/ Finished \/ UNCHANGED vars
  <2>1. UNCHANGED <<loads, stores, failed, definitions>> /\ (phase # "Resolve" => phase' # "Resolve")
    BY <1>2 DEF EndResolve, EndAlternatives, Finished, vars, resolveVars
  <2> QED BY <2>1, SelectUnchanged
<1>3. CASE Canonicalise
  <2>1. \A s \in StillUndefined : ~IsDefined(s)
    BY DEF BindInv, UndefinedSound, StillUndefined, Looked, LooksElsewhere
  <2>2. /\ UNCHANGED <<loads, stores, failed>> /\ phase' = "Done"
        /\ definitions' = [s \in Symbol |-> IF s \in StillUndefined THEN Canonical(s) ELSE definitions[s]]
    BY <1>3 DEF Canonicalise
  <2>3. \A s \in Symbol : IsDefined(s) => definitions'[s] = definitions[s]
    BY <2>1, <2>2
  <2> QED BY <2>2, <2>3, SelectUnchanged
<1> QED BY <1>1, <1>2, <1>3, SelectNameStep DEF Next

(* A reference in a loaded object is bound to the first strong definition  *)
(* in a loaded object, failing that the largest common one, failing that   *)
(* the first, and to a shared object only if no loaded object defines it:  *)
(* for all inputs in which the names of versioned definitions do not       *)
(* overlap and weak references find definitions in needed files.           *)
THEOREM ResBindsToSelected ==
  ASSUME SeparateVersions, WeakDefinitionsNeeded
  PROVE  Spec => []BindsToSelected
<1>1. NeededInv /\ BindInv /\ SelectInv => BindsToSelected
  <2> SUFFICES ASSUME NeededInv, BindInv, SelectInv, outcome = "Ok", NEW k \in Key, NEW s \in References(k)
               PROVE  IF Candidates(k) # {}
                        THEN /\ Definition(s) \in Candidates(k)
                             /\ \A t \in Candidates(k) \ {Definition(s)} : Beats(Definition(s), t)
                        ELSE SharedCandidates(k) # {} /\ ~IsHidden(s) => Definition(s) \in SharedCandidates(k)
    BY Zenon DEF BindsToSelected
  <2> DEFINE t == Get(s)
             regular == {d \in Alternatives(k) : ~IsDynamic(d)}
  <2>1. /\ s \in Symbol /\ Looked(s) /\ FileOf(s) # Prelude
        /\ Definitions(Name(s), ReferenceVersion(s)) = Alternatives(k)
    BY ReferenceFacts
  <2>2. /\ Alternatives(k) \in SUBSET Symbol /\ regular \in SUBSET Symbol
        /\ Candidates(k) \subseteq regular /\ SharedCandidates(k) \subseteq Alternatives(k)
    BY DEF Alternatives, Definitions, Candidates, SharedCandidates, IsDynamic
  <2>3. ASSUME Candidates(k) # {} \/ (SharedCandidates(k) # {} /\ ~IsHidden(s))
        PROVE  t \in Alternatives(k)
    <3>1. Alternatives(k) # {} /\ Least(Alternatives(k)) \in Alternatives(k)
      BY <2>2, <2>3, LeastSymbol
    <3>2. (t = Best(regular) /\ IsHidden(s)) \/ t = Least(Alternatives(k))
      BY <2>1, <3>1, Zenon DEF Get
    <3>3. IsHidden(s) => Best(regular) \in regular
      BY <2>2, <2>3, BestSymbol
    <3> HIDE DEF regular
    <3> QED BY <3>1, <3>2, <3>3 DEF regular
  <2>4. ASSUME t \in Alternatives(k)
        PROVE  Definition(s) = IF HasAlternatives(k) THEN SelectSymbol(k) ELSE t
    <3>1. t \in Symbol /\ t # Undefined
      BY <2>2, <2>4, SymbolNumbers DEF Symbol, Undefined
    <3>2. definitions[s] = t
      BY <2>1, <3>1, DefinedAfterAll
    <3>3. Definition(s) = definitions[t]
      BY <3>1, <3>2 DEF Definition
    <3>4. CASE HasAlternatives(k)
      <4>1. stores[k].state = "Done" /\ ~failed
        BY <3>4 DEF BindInv, StoresSound
      <4> QED BY <2>4, <3>3, <3>4, <4>1 DEF SelectInv
    <3>5. CASE ~HasAlternatives(k)
      BY <2>4, <3>3, <3>5 DEF SelectInv
    <3> QED BY <3>4, <3>5
  <2>5. ASSUME t \in Alternatives(k), ~HasAlternatives(k) PROVE Alternatives(k) = {t}
    BY <2>5 DEF HasAlternatives
  <2> HIDE DEF t, regular
  <2>6. CASE Candidates(k) # {}
    <3>1. CASE HasAlternatives(k)
      <4>1. Definition(s) = Best(Candidates(k))
        BY <2>3, <2>4, <2>6, <3>1, Zenon DEF SelectSymbol
      <4>2. Candidates(k) \in SUBSET Symbol
        BY <2>2
      <4>3. Best(Candidates(k)) \in Candidates(k)
        BY <2>6, <4>2, BestSymbol
      <4> QED BY <2>6, <4>1, <4>2, <4>3, BestBeats
    <3>2. CASE ~HasAlternatives(k)
      <4>1. Definition(s) = t /\ Alternatives(k) = {t}
        BY <2>3, <2>4, <2>5, <2>6, <3>2
      <4>2. Candidates(k) = {t}
        BY <2>2, <2>6, <4>1 DEF regular
      <4> QED BY <2>6, <4>1, <4>2
    <3> QED BY <3>1, <3>2
  <2>7. CASE Candidates(k) = {} /\ SharedCandidates(k) # {} /\ ~IsHidden(s)
    <3>1. CASE HasAlternatives(k)
      <4>1. Definition(s) = Least(SharedCandidates(k))
        BY <2>3, <2>4, <2>7, <3>1, Zenon DEF SelectSymbol
      <4>2. SharedCandidates(k) \in SUBSET Symbol
        BY <2>2
      <4> QED BY <2>7, <4>1, <4>2, LeastSymbol
    <3>2. CASE ~HasAlternatives(k)
      <4>1. Definition(s) = t /\ Alternatives(k) = {t}
        BY <2>3, <2>4, <2>5, <2>7, <3>2
      <4> QED BY <2>2, <2>7, <4>1
    <3> QED BY <3>1, <3>2
  <2> QED BY <2>6, <2>7
<1>2. NeededInv /\ BindInv /\ SelectInv /\ [Next]_vars => SelectInv'
  BY SelectStep
<1> QED BY <1>1, <1>2, SelectInit, ResNeededInvariant, ResBindInvariant, PTL DEF Spec
---------------------------------------------------------------------------
(* A versioned reference of a shared object is bound to a definition of    *)
(* that version if there is one: the version is read at the right place,   *)
(* weak references find what is loaded, and where alternatives replace the *)
(* definition that was found, they have the same version.                  *)
THEOREM ResReferencesKeepVersion ==
  ASSUME SharedObjectsFitChunk, WeakDefinitionsNeeded, SeparateVersions
  PROVE  Spec => []ReferencesKeepVersion
<1>1. NeededInv /\ BindInv /\ SelectInv => ReferencesKeepVersion
  <2> SUFFICES ASSUME NeededInv, BindInv, SelectInv, outcome = "Ok", NEW s \in Symbol,
                      IsDynamic(s), IsLoaded(FileOf(s)), ~IsDefined(s), Version(s) # None,
                      Definitions(Name(s), Version(s)) # {}
               PROVE  Definition(s) \in Definitions(Name(s), Version(s))
    BY DEF ReferencesKeepVersion
  <2>1. ~IsHidden(s) /\ FileOf(s) # Prelude /\ Looked(s)
    BY SymbolTableAssumption, FileAssumption DEF Looked, LooksElsewhere, IsDynamic, Object
  <2>2. ReferenceVersion(s) = Version(s)
    BY VersionRead
  <2> DEFINE found == Definitions(Name(s), Version(s))
             k == <<Name(s), Version(s)>>
  <2>3. Get(s) = Least(found)
    BY <2>1, <2>2, Zenon DEF Get
  <2>4. found \in SUBSET Symbol
    BY DEF Definitions
  <2>5. Get(s) \in found /\ Get(s) \in Symbol
    <3> HIDE DEF found
    <3> QED BY <2>3, <2>4, LeastSymbol DEF found
  <2>6. Get(s) # Undefined
    BY <2>5, SymbolNumbers DEF Symbol, Undefined
  <2>7. definitions[s] = Get(s)
    BY <2>1, <2>6, DefinedAfterAll
  <2>8. Definition(s) = definitions[Get(s)]
    BY <2>6, <2>7 DEF Definition
  <2>9. k \in Key /\ Alternatives(k) = found
    BY DEF Key, Alternatives
  <2> HIDE DEF found, k
  <2>10. definitions[Get(s)] = Get(s) \/ (HasAlternatives(k) /\ definitions[Get(s)] = SelectSymbol(k))
    BY <2>5, <2>9 DEF SelectInv
  <2>11. HasAlternatives(k) => SelectSymbol(k) \in found
    BY <2>9, SelectedSymbol
  <2> QED BY <2>5, <2>8, <2>10, <2>11 DEF found
<1>2. NeededInv /\ BindInv /\ SelectInv /\ [Next]_vars => SelectInv'
  BY SelectStep
<1> QED BY <1>1, <1>2, SelectInit, ResNeededInvariant, ResBindInvariant, PTL DEF Spec
==========================================================================
