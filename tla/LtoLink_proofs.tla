--------------------------- MODULE LtoLink_proofs ---------------------------
(***************************************************************************)
(* Proofs about LtoLink, for any number of files and names, and whatever   *)
(* the plugin makes of the resolutions it is told.                         *)
(*                                                                         *)
(* The argument about references follows the link.  The first round        *)
(* selects, for each name, the first loaded definition (FirstRound,        *)
(* Selected); the plugin defines what was selected in IR and refers to     *)
(* nothing it could define (Generated); so that after the second round     *)
(* has looked up its names each one either goes from IR to the generated   *)
(* object or is settled already (Ready).                                   *)
(***************************************************************************)
EXTENDS LtoLink, TLAPS, FiniteSetTheorems, WellFoundedInduction

---------------------------------------------------------------------------
(* Failures in callbacks.                                                  *)

\* What went wrong is an error in lto_objects, except for a message of onload, which
\* the next call takes; past the claims neither thread local is set.
CallbackInv ==
  /\ pc = "claim" => \/ rejected
                     \/ ~error /\ ~message /\ ~failed
                     \/ ~error /\ message /\ next \in IrFiles /\ plugin = "Loaded"
  /\ pc \notin {"claim", "error"} => ~failed /\ ~error /\ ~message

\* After a call that did not fail nothing is left behind.
LEMMA CallStep ==
  ASSUME PluginObeys = TRUE, ~error, message \/ ~failed, NEW b \in Behaviours,
         NEW checked \in BOOLEAN, AfterCall(b, checked), ~CallbackFails(b)
  PROVE  ~failed' /\ ~error' /\ ~message'
<1>1. b.says \in BOOLEAN /\ b.badLibrary \in BOOLEAN /\ b.panics \in BOOLEAN /\ b.ok \in BOOLEAN
  BY Zenon DEF Behaviours
<1>2. b.ok /\ ~b.says /\ ~b.panics /\ ~message /\ ~failed
  BY Zenon DEF CallbackFails
<1>3. ~b.badLibrary
  BY <1>2, Zenon DEF Behaviours
<1> QED BY <1>2, <1>3, Zenon DEF AfterCall

\* If the plugin reports failure when a callback failed, no failure gets past the
\* claims or past code generation: neither one that is reported without a status,
\* nor one that is left in a thread local, nor a message from onload.
THEOREM LtoFailuresPropagate ==
  ASSUME PluginObeys
  PROVE  Spec => []FailuresPropagate
<1>0. PluginObeys = TRUE
  BY WorldAssumption
<1>1. Init => CallbackInv
  BY DEF Init, CallbackInv
<1>2. CallbackInv /\ [Next]_vars => CallbackInv'
  <2> SUFFICES ASSUME CallbackInv, [Next]_vars PROVE CallbackInv'
    OBVIOUS
  <2> USE DEF resultVars
  <2>1. CASE ExtractRegular
    <3>1. pc = "claim" /\ pc' = "claim" /\ next \notin IrFiles /\ UNCHANGED <<rejected, error, message, failed>>
      BY <2>1 DEF ExtractRegular
    <3> QED BY <3>1, Zenon DEF CallbackInv
  <2>2. CASE LoadPlugin
    <3>1. pc = "claim" /\ pc' = "claim" /\ next \in IrFiles /\ plugin = "Unloaded" /\ error' = error
      BY <2>2 DEF LoadPlugin
    <3>2. CASE rejected' = TRUE
      BY <3>1, <3>2, Zenon DEF CallbackInv
    <3>3. CASE \E says \in BOOLEAN :
                 /\ plugin' = "Loaded" /\ message' = (message \/ says) /\ failed' = (failed \/ says)
                 /\ UNCHANGED <<next, rejected>>
      <4>1. PICK says \in BOOLEAN :
                 /\ plugin' = "Loaded" /\ message' = (message \/ says) /\ failed' = (failed \/ says)
                 /\ UNCHANGED <<next, rejected>>
        BY <3>3
      <4>2. rejected \/ (~error /\ ~message /\ ~failed)
        BY <3>1 DEF CallbackInv
      <4>3. rejected' \/ (~error' /\ ~message' /\ ~failed') \/ (~error' /\ message')
        BY <3>1, <4>1, <4>2, Zenon
      <4> QED BY <3>1, <4>1, <4>3 DEF CallbackInv
    <3> QED BY <2>2, <3>2, <3>3 DEF LoadPlugin
  <2>3. CASE ClaimFile
    <3>1. pc = "claim" /\ pc' = "claim"
      BY <2>3 DEF ClaimFile
    <3>2. PICK b \in Behaviours, claims \in BOOLEAN :
            /\ AfterCall(b, TRUE)
            /\ rejected' = (rejected \/ CallbackFails(b) \/ (~claims /\ next \notin Optional))
      BY <2>3 DEF ClaimFile
    <3>3. CASE rejected \/ CallbackFails(b)
      <4>1. rejected'
        BY <3>2, <3>3, Zenon
      <4> QED BY <3>1, <4>1, Zenon DEF CallbackInv
    <3>4. CASE ~rejected /\ ~CallbackFails(b)
      <4>1. ~error /\ (message \/ ~failed)
        BY <3>1, <3>4, Zenon DEF CallbackInv
      <4>2. ~failed' /\ ~error' /\ ~message'
        BY <1>0, <3>2, <3>4, <4>1, CallStep, Zenon
      <4> QED BY <3>1, <4>2, Zenon DEF CallbackInv
    <3> QED BY <3>3, <3>4
  <2>4. CASE FirstInputs
    <3>1. pc = "claim" /\ next = Out /\ UNCHANGED <<error, message, failed>>
      BY <2>4 DEF FirstInputs
    <3>2. next \notin IrFiles
      BY <3>1, WorldAssumption DEF IrFiles, Out
    <3>3. CASE pc' = "error"
      BY <3>3 DEF CallbackInv
    <3>4. CASE ~rejected /\ pc' = "resolve1"
      BY <3>1, <3>2, <3>4, Zenon DEF CallbackInv
    <3> QED BY <2>4, <3>3, <3>4 DEF FirstInputs
  <2>5. CASE Codegen
    <3>1. pc = "codegen" /\ ~failed /\ ~error /\ ~message
      BY <2>5 DEF Codegen, CallbackInv
    <3>2. PICK b \in Behaviours : AfterCall(b, FALSE) /\ (CallbackFails(b) => pc' = "error")
                                 /\ pc' \in {"inputs2", "error"}
      BY <2>5 DEF Codegen
    <3>3. CASE CallbackFails(b)
      BY <3>2, <3>3 DEF CallbackInv
    <3>4. CASE ~CallbackFails(b)
      <4>1. ~failed' /\ ~error' /\ ~message'
        BY <1>0, <3>1, <3>2, <3>4, CallStep, Zenon
      <4> QED BY <3>2, <4>1 DEF CallbackInv
    <3> QED BY <3>3, <3>4
  <2>6. CASE UNCHANGED <<error, message, failed>> /\ pc \notin {"claim", "error"} /\ pc' # "claim"
    BY <2>6 DEF CallbackInv
  <2>7. CASE \/ FirstResolve \/ FirstAlternatives \/ SecondInputs \/ SecondResolve \/ SecondAlternatives
    BY <2>6, <2>7 DEF FirstResolve, FirstAlternatives, SecondInputs, SecondResolve, SecondAlternatives
  <2>8. CASE Ended \/ UNCHANGED vars
    BY <2>8 DEF Ended, vars, CallbackInv
  <2> QED BY <2>1, <2>2, <2>3, <2>4, <2>5, <2>7, <2>8 DEF Next
<1>3. CallbackInv => FailuresPropagate
  BY DEF CallbackInv, FailuresPropagate
<1> QED BY <1>1, <1>2, <1>3, PTL DEF Spec

---------------------------------------------------------------------------
(* Files and names.                                                        *)

LEMMA FileNumbers ==
  /\ Out \in Nat /\ Out >= 1 /\ Out \in AllFiles /\ Out \notin Files /\ Out \notin IrFiles
  /\ Files \subseteq AllFiles /\ IrFiles \subseteq Files
  /\ \A f \in AllFiles : f \in Files \/ f = Out
  /\ \A f \in AllFiles : f \in Nat /\ f # 0
  /\ \A f \in Files : f < Out
  /\ \A f \in Files \ IrFiles, g \in IrFiles : f < g
  /\ IsFiniteSet(AllFiles)
<1>1. NumRegular \in Nat /\ NumIr \in Nat
  BY WorldAssumption
<1>2. IsFiniteSet(AllFiles)
  BY <1>1, FS_Interval DEF AllFiles, Out
<1> QED BY <1>1, <1>2 DEF Files, AllFiles, IrFiles, Out

\* A set of files that is not empty has a first one.
LEMMA LeastFile ==
  ASSUME NEW S \in SUBSET AllFiles, S # {}
  PROVE  Least(S) \in S /\ \A g \in S : Least(S) <= g
<1>1. S \subseteq Nat
  BY FileNumbers
<1> DEFINE R == {ss \in Nat \X Nat : ss[1] < ss[2]}
<1>2. IsWellFoundedOn(R, Nat)
  BY NatLessThanWellFounded DEF OpToRel
<1>3. \E x \in S : \A y \in S : <<y, x>> \notin R
  <2> HIDE DEF R
  <2> QED BY <1>1, <1>2, WFMin
<1>4. PICK x \in S : \A y \in S : <<y, x>> \notin R
  BY <1>3
<1>5. \A y \in S : x <= y
  <2> TAKE y \in S
  <2>1. x \in Nat /\ y \in Nat
    BY <1>1
  <2>2. ~(y < x)
    BY <1>4, <2>1
  <2> QED BY <2>1, <2>2
<1> QED BY <1>4, <1>5 DEF Least

LEMMA LeastUnique ==
  ASSUME NEW S \in SUBSET AllFiles, NEW x \in S, \A g \in S : x <= g
  PROVE  Least(S) = x
<1>1. Least(S) \in S /\ Least(S) <= x /\ x <= Least(S)
  BY LeastFile
<1>2. Least(S) \in Nat /\ x \in Nat
  BY <1>1, FileNumbers
<1> QED BY <1>1, <1>2

LEMMA LookupFacts ==
  ASSUME known \subseteq AllFiles, NEW n
  PROVE  /\ Definers(n) \in SUBSET AllFiles
         /\ Lookup(n) = None <=> Definers(n) = {}
         /\ Lookup(n) # None =>
              /\ Lookup(n) = <<Least(Definers(n)), n>>
              /\ Least(Definers(n)) \in Definers(n)
              /\ Lookup(n)[1] = Least(Definers(n)) /\ Lookup(n)[2] = n
              /\ \A g \in Definers(n) : Lookup(n)[1] <= g
<1>1. Definers(n) \in SUBSET AllFiles
  BY DEF Definers
<1>2. CASE Definers(n) = {}
  BY <1>1, <1>2 DEF Lookup
<1>3. CASE Definers(n) # {}
  <2>1. Least(Definers(n)) \in Definers(n) /\ \A g \in Definers(n) : Least(Definers(n)) <= g
    BY <1>1, <1>3, LeastFile
  <2>2. Lookup(n) = <<Least(Definers(n)), n>>
    BY <1>3 DEF Lookup
  <2>3. Least(Definers(n)) # 0
    BY <1>1, <2>1, FileNumbers
  <2> QED BY <1>1, <1>3, <2>1, <2>2, <2>3 DEF None
<1> QED BY <1>2, <1>3


---------------------------------------------------------------------------
(* The invariant.                                                          *)

WorldInv ==
  /\ role \in [AllFiles -> [Names -> Roles]]
  /\ \E w \in Worlds : \A f \in Files : role[f] = w[f]
  /\ known \subseteq AllFiles /\ loaded \subseteq known
  /\ def \in [Symbols -> Symbols \cup {None}]
  /\ alts \subseteq Names

\* What was extracted: required files are never skipped.
KnownInv ==
  /\ pc = "claim" =>
       /\ next \in 1..Out /\ known \subseteq {f \in Files : f < next}
       /\ ~rejected => \A f \in Files \ Optional : f < next => f \in known
  /\ pc \in {"resolve1", "alternatives1", "codegen"} => known \subseteq Files
  /\ pc \in {"inputs2", "resolve2", "alternatives2"} => Out \in known
  /\ pc \in {"resolve1", "alternatives1", "codegen", "inputs2", "resolve2", "alternatives2"} =>
       Files \ Optional \subseteq known
  /\ pc \in {"claim", "resolve1"} => loaded = {}
  /\ pc \in {"claim", "codegen", "inputs2"} => alts = {}
  /\ pc \in {"claim", "resolve1", "alternatives1", "codegen", "inputs2", "resolve2"} => ~disabled
  /\ pc = "alternatives2" => disabled

\* After the first round of lookups: what is loaded is closed, what code refers
\* to is marked, and references are bound to what the lookup finds.
FirstRound ==
  pc \in {"alternatives1", "codegen", "inputs2", "resolve2"} =>
    /\ loaded \subseteq Files /\ Files \ Optional \subseteq loaded
    /\ \A f \in loaded \cup {0} : \A n \in LookedUp(f) : Lookup(n) # None => Lookup(n)[1] \in loaded
    /\ \A f \in loaded \cup {0} : \A n \in Marks(f) : Lookup(n) # None => Lookup(n) \in nonIr

ReferencesBound ==
  pc \in {"alternatives1", "codegen", "inputs2", "resolve2", "alternatives2"} =>
    \A f \in loaded, n \in Names : Refers(f, n) => def[<<f, n>>] = Lookup(n)

\* The definitions of a name that came with the inputs, and the one that the
\* first round selects: the first that is loaded.
InputDefiners(n) == Definers(n) \ {Out}

Chosen(n) ==
  IF InputDefiners(n) \cap loaded = {} THEN Least(InputDefiners(n))
  ELSE Least(InputDefiners(n) \cap loaded)

Selected ==
  /\ pc \in {"resolve1", "alternatives1"} =>
       /\ \A n \in Names : \A f \in Definers(n) : def[<<f, n>>] = <<f, n>>
       /\ alts = {n \in Names : Cardinality(Definers(n)) > 1}
  /\ pc \in {"codegen", "inputs2", "resolve2"} =>
       \A n \in Names : \A f \in InputDefiners(n) : def[<<f, n>>] = <<Chosen(n), n>>

\* What the plugin defines and refers to.
PrevailsInIr(n) == InputDefiners(n) # {} /\ Chosen(n) \in IrFiles \cap loaded

Generated ==
  pc \in {"inputs2", "resolve2"} =>
    \A n \in Names :
      /\ Defines(Out, n) => PrevailsInIr(n)
      /\ Refers(Out, n) => /\ ~PrevailsInIr(n)
                           /\ n \in Libcalls \/ \E f \in IrFiles \cap loaded : Refers(f, n)
      /\ PrevailsInIr(n) /\ <<Chosen(n), n>> \in nonIr => Defines(Out, n)

GeneratedAdded ==
  /\ pc \in {"resolve2", "alternatives2"} => alts = {n \in Names : Defines(Out, n)}
  /\ pc = "resolve2" => \A n \in Names : Defines(Out, n) => def[<<Out, n>>] = <<Out, n>>

\* What the second selection starts from: a name that code refers to goes from IR
\* to the generated object, or all its definitions stand for one in code already.
FromIr(n) ==
  n \in alts /\ Lookup(n)[1] \in IrFiles /\ Defines(Out, n) /\ Definers(n) \subseteq IrFiles \cup {Out}

Settled(n) ==
  /\ n \notin alts
  /\ \E x \in Code : Defines(x, n) /\ \A g \in Definers(n) : def[<<g, n>>] = <<x, n>>

Ready ==
  pc = "alternatives2" =>
    /\ Out \in loaded
    /\ \A n \in Names : ReferredTo(n) /\ Lookup(n) # None => FromIr(n) \/ Settled(n)

LinkInv ==
  /\ WorldInv /\ KnownInv /\ FirstRound /\ ReferencesBound /\ Selected
  /\ Generated /\ GeneratedAdded /\ Ready /\ NonIrReferencesReported /\ BoundToCode

---------------------------------------------------------------------------
(* Rounds of lookups.                                                      *)

\* What a set of files needs when it is closed under lookups.
ClosedFiles(S) == \A f \in S : \A n \in LookedUp(f) : Lookup(n) # None => Lookup(n)[1] \in S

\* A round loads the smallest closed set that has the files it starts from.
LEMMA ClosureFacts ==
  ASSUME known \subseteq AllFiles, NEW start \in SUBSET (0..Out)
  PROVE  /\ start \subseteq Closure(start) /\ Closure(start) \subseteq 0..Out
         /\ ClosedFiles(Closure(start))
         /\ \A S \in SUBSET (0..Out) : start \subseteq S /\ ClosedFiles(S) => Closure(start) \subseteq S
<1> DEFINE node == 0..Out
           edge == UNION {{f} \X Requests(f) : f \in node}
<1>1. ASSUME NEW f, NEW n \in LookedUp(f), Lookup(n) # None
      PROVE  Lookup(n)[1] \in Requests(f) /\ Lookup(n)[1] \in node
  <2>1. Lookup(n)[1] \in AllFiles
    BY <1>1, LookupFacts
  <2> QED BY <1>1, <2>1, FileNumbers DEF Requests, AllFiles
<1>2. \A f, g : <<f, g>> \in edge <=> f \in node /\ g \in Requests(f)
  OBVIOUS
<1>3. \A e \in edge : e = <<e[1], e[2]>>
  OBVIOUS
<1>4. ASSUME NEW C \in SUBSET node
      PROVE  ClosedUnder(C, start, edge) <=> start \subseteq C /\ ClosedFiles(C)
  <2> HIDE DEF edge
  <2>1. ASSUME ClosedUnder(C, start, edge), NEW f \in C, NEW n \in LookedUp(f), Lookup(n) # None
        PROVE  Lookup(n)[1] \in C
    <3>1. <<f, Lookup(n)[1]>> \in edge
      BY <1>1, <1>2, <2>1
    <3>2. \A e \in edge : e[1] \in C => e[2] \in C
      BY <2>1 DEF ClosedUnder
    <3>3. <<f, Lookup(n)[1]>>[1] = f /\ <<f, Lookup(n)[1]>>[2] = Lookup(n)[1]
      OBVIOUS
    <3> QED BY <2>1, <3>1, <3>2, <3>3
  <2>2. ASSUME ClosedFiles(C), NEW e \in edge, e[1] \in C PROVE e[2] \in C
    <3>1. e[2] \in Requests(e[1])
      BY <1>2, <1>3
    <3>2. PICK n \in LookedUp(e[1]) : Lookup(n) # None /\ e[2] = Lookup(n)[1]
      BY <3>1 DEF Requests
    <3> QED BY <2>2, <3>2 DEF ClosedFiles
  <2> QED BY <2>1, <2>2 DEF ClosedUnder, ClosedFiles
<1> DEFINE C == Closure(start)
<1>5. C = {x \in node : \A S \in SUBSET node : start \subseteq S /\ ClosedFiles(S) => x \in S}
  <2>1. C = {x \in node : \A S \in SUBSET node : ClosedUnder(S, start, edge) => x \in S}
    BY DEF Closure, Reachable
  <2> HIDE DEF C, edge
  <2> QED BY <1>4, <2>1
<1> HIDE DEF C, edge
<1>6. C \subseteq node /\ start \subseteq C
  BY <1>5
<1>7. ClosedFiles(C)
  <2> SUFFICES ASSUME NEW f \in C, NEW n \in LookedUp(f), Lookup(n) # None PROVE Lookup(n)[1] \in C
    BY DEF ClosedFiles
  <2>1. ASSUME NEW S \in SUBSET node, start \subseteq S, ClosedFiles(S) PROVE Lookup(n)[1] \in S
    BY <1>5, <2>1 DEF ClosedFiles
  <2> QED BY <1>1, <1>5, <2>1
<1>8. \A S \in SUBSET node : start \subseteq S /\ ClosedFiles(S) => C \subseteq S
  BY <1>5
<1> QED BY <1>6, <1>7, <1>8 DEF C

\* What names stand for depends on the files that are known and on their symbols.
LEMMA SameNames ==
  ASSUME UNCHANGED <<role, known>>
  PROVE  /\ \A f, n : Defines(f, n)' = Defines(f, n) /\ Refers(f, n)' = Refers(f, n)
         /\ \A n : Definers(n)' = Definers(n) /\ InputDefiners(n)' = InputDefiners(n)
         /\ \A n : Lookup(n)' = Lookup(n)
         /\ \A f : LookedUp(f)' = LookedUp(f) /\ Marks(f)' = Marks(f)
<1>1. \A f, n : Defines(f, n)' = Defines(f, n) /\ Refers(f, n)' = Refers(f, n)
  BY DEF Defines, Refers
<1>2. \A n : Definers(n)' = Definers(n)
  BY DEF Definers, Defines
<1>3. \A f : LookedUp(f)' = LookedUp(f)
  BY DEF LookedUp, Refers
<1> QED BY <1>1, <1>2, <1>3 DEF Lookup, InputDefiners, Marks

LEMMA SameChosen ==
  ASSUME UNCHANGED <<role, known, loaded>>
  PROVE  \A n : Chosen(n)' = Chosen(n) /\ PrevailsInIr(n)' = PrevailsInIr(n)
  BY SameNames DEF Chosen, PrevailsInIr

\* Definitions are symbols, and distinct from references.
LEMMA Typed ==
  ASSUME WorldInv
  PROVE  /\ \A f \in AllFiles, n \in Names : <<f, n>> \in Symbols /\ <<f, n>> # None
         /\ \A n \in Names : Lookup(n) \in Symbols \cup {None}
         /\ \A f, n : ~(Defines(f, n) /\ Refers(f, n))
         /\ \A n : Definers(n) \subseteq AllFiles /\ InputDefiners(n) \subseteq Files
<1>1. \A f \in AllFiles, n \in Names : <<f, n>> \in Symbols /\ <<f, n>> # None
  BY FileNumbers DEF Symbols, None
<1>2. known \subseteq AllFiles
  BY DEF WorldInv
<1>3. \A n \in Names : Lookup(n) \in Symbols \cup {None}
  BY <1>1, <1>2, LookupFacts
<1>4. \A f, n : ~(Defines(f, n) /\ Refers(f, n))
  BY DEF Defines, Refers
<1>5. \A n : Definers(n) \subseteq AllFiles /\ InputDefiners(n) \subseteq Files
  BY <1>2, FileNumbers DEF Definers, InputDefiners
<1> QED BY <1>1, <1>3, <1>4, <1>5

LEMMA StopInv ==
  ASSUME WorldInv', pc' = "error"
  PROVE  LinkInv'
  BY DEF LinkInv, KnownInv, FirstRound, ReferencesBound, Selected, Generated, GeneratedAdded, Ready,
         NonIrReferencesReported, BoundToCode

---------------------------------------------------------------------------
(* Extraction.                                                             *)

LEMMA InitInv == Init => LinkInv
<1> SUFFICES ASSUME Init PROVE LinkInv
  OBVIOUS
<1>1. PICK w \in Worlds : role = [f \in AllFiles |-> IF f = Out THEN [n \in Names |-> "none"] ELSE w[f]]
  BY DEF Init
<1>2. w \in [Files -> [Names -> Roles]]
  BY WorldAssumption
<1>3. \A f \in Files : role[f] = w[f]
  BY <1>1, FileNumbers
<1>4. role \in [AllFiles -> [Names -> Roles]]
  <2>1. [n \in Names |-> "none"] \in [Names -> Roles]
    BY DEF Roles
  <2>2. \A f \in AllFiles : f # Out => w[f] \in [Names -> Roles]
    BY <1>2, FileNumbers
  <2> QED BY <1>1, <2>1, <2>2
<1>5. def \in [Symbols -> Symbols \cup {None}]
  BY DEF Init
<1>6. WorldInv
  BY <1>3, <1>4, <1>5 DEF Init, WorldInv
<1>7. KnownInv
  BY FileNumbers DEF Init, KnownInv, Files
<1> QED BY <1>6, <1>7 DEF Init, LinkInv, FirstRound, ReferencesBound, Selected, Generated,
           GeneratedAdded, Ready, NonIrReferencesReported, BoundToCode

LEMMA ClaimStep ==
  ASSUME LinkInv, ExtractRegular \/ LoadPlugin \/ ClaimFile
  PROVE  LinkInv'
<1>1. /\ pc = "claim" /\ pc' = "claim" /\ next \in Files
      /\ UNCHANGED <<role, loaded, def, alts, disabled>>
      /\ \/ next' = next /\ UNCHANGED <<known, rejected>>
         \/ /\ next' = next + 1
            /\ known' = known \cup {next} \/ known' = known
            /\ ~rejected' => ~rejected /\ (known' = known \cup {next} \/ next \in Optional)
  <2>1. CASE ExtractRegular
    BY <2>1 DEF ExtractRegular
  <2>2. CASE LoadPlugin
    <3>1. pc = "claim" /\ pc' = pc /\ next \in Files /\ UNCHANGED <<role, known, loaded, def, alts, disabled>>
      BY <2>2, FileNumbers DEF LoadPlugin
    <3>2. UNCHANGED <<next, rejected>> \/ (rejected' = TRUE /\ next' = next + 1)
      BY <2>2 DEF LoadPlugin
    <3> QED BY <3>1, <3>2
  <2>3. CASE ClaimFile
    <3>1. PICK b \in Behaviours, claims \in BOOLEAN :
            /\ known' = IF claims /\ ~CallbackFails(b) THEN known \cup {next} ELSE known
            /\ rejected' = (rejected \/ CallbackFails(b) \/ (~claims /\ next \notin Optional))
      BY <2>3 DEF ClaimFile
    <3>2. /\ pc = "claim" /\ pc' = pc /\ next \in Files /\ next' = next + 1
          /\ UNCHANGED <<role, loaded, def, alts, disabled>>
      BY <2>3, FileNumbers DEF ClaimFile
    <3>3. CASE claims /\ ~CallbackFails(b)
      <4>1. ~rejected' => ~rejected
        BY <3>1, Zenon
      <4> QED BY <3>1, <3>2, <3>3, <4>1
    <3>4. CASE ~(claims /\ ~CallbackFails(b))
      <4>1. known' = known
        BY <3>1, <3>4
      <4>2. ~rejected' => ~rejected /\ next \in Optional
        BY <3>1, <3>4, Zenon
      <4> QED BY <3>2, <4>1, <4>2
    <3> QED BY <3>3, <3>4
  <2> QED BY <2>1, <2>2, <2>3
<1>2. loaded = {} /\ known \subseteq Files /\ next \in Nat
  BY <1>1, FileNumbers DEF LinkInv, KnownInv
<1>3. known' \subseteq AllFiles
  <2>1. \A f \in known' : f \in Files
    BY <1>1, <1>2
  <2> QED BY <2>1, FileNumbers
<1>4. WorldInv'
  BY <1>1, <1>2, <1>3 DEF LinkInv, WorldInv
<1>5. CASE next' = next /\ UNCHANGED <<known, rejected>>
  <2>1. KnownInv'
    BY <1>1, <1>5 DEF LinkInv, KnownInv
  <2> QED BY <1>1, <1>4, <2>1 DEF LinkInv, FirstRound, ReferencesBound, Selected, Generated,
             GeneratedAdded, Ready, NonIrReferencesReported, BoundToCode
<1>6. CASE /\ next' = next + 1
           /\ known' = known \cup {next} \/ known' = known
           /\ ~rejected' => ~rejected /\ (known' = known \cup {next} \/ next \in Optional)
  <2>1. next' = next + 1 /\ next' \in 1..Out
    BY <1>1, <1>2, <1>6, FileNumbers
  <2>2. known' \subseteq {f \in Files : f < next'}
    <3> SUFFICES ASSUME NEW f \in known' PROVE f \in Files /\ f < next'
      OBVIOUS
    <3>1. f = next \/ f \in known
      BY <1>1, <1>6
    <3>2. f \in Files /\ (f = next \/ f < next)
      BY <1>1, <3>1 DEF LinkInv, KnownInv
    <3> QED BY <1>2, <2>1, <3>2, FileNumbers
  <2>3. ~rejected' => \A f \in Files \ Optional : f < next' => f \in known'
    <3> SUFFICES ASSUME ~rejected', NEW f \in Files \ Optional, f < next' PROVE f \in known'
      OBVIOUS
    <3>1. f < next \/ f = next
      BY <1>2, <2>1, FileNumbers
    <3> QED BY <1>1, <1>6, <3>1 DEF LinkInv, KnownInv
  <2>4. KnownInv'
    BY <1>1, <1>2, <1>6, <2>1, <2>2, <2>3 DEF LinkInv, KnownInv
  <2> QED BY <1>1, <1>4, <1>6, <2>4 DEF LinkInv, FirstRound, ReferencesBound, Selected, Generated,
             GeneratedAdded, Ready, NonIrReferencesReported, BoundToCode
<1> QED BY <1>1, <1>5, <1>6

---------------------------------------------------------------------------
(* The first round.                                                        *)

LEMMA FirstInputsStep ==
  ASSUME LinkInv, FirstInputs
  PROVE  LinkInv'
<1>0. CASE rejected /\ pc' = "error" /\ UNCHANGED <<def, alts>>
  <2>1. WorldInv'
    BY <1>0 DEF LinkInv, WorldInv, FirstInputs
  <2> QED BY <1>0, <2>1, StopInv
<1> SUFFICES ASSUME ~rejected, pc' = "resolve1", AddInputs(known)
             PROVE  LinkInv'
  BY <1>0 DEF FirstInputs
<1>1. /\ pc = "claim" /\ next = Out /\ pc' = "resolve1"
      /\ UNCHANGED <<role, known, loaded, disabled>>
      /\ def' = [s \in Symbols |-> IF s \in DefinedSymbols(known) THEN s ELSE def[s]]
      /\ alts' = alts \cup {n \in Names : /\ \E f \in known : Defines(f, n)
                                          /\ Cardinality(Definers(n)) > 1}
  BY DEF FirstInputs, AddInputs
<1>2. loaded = {} /\ known \subseteq Files /\ alts = {} /\ Files \ Optional \subseteq known /\ ~disabled
  BY <1>1, FileNumbers DEF LinkInv, KnownInv
<1>3. WorldInv'
  BY <1>1 DEF LinkInv, WorldInv
<1>4. KnownInv'
  BY <1>1, <1>2 DEF KnownInv
<1>5. ASSUME NEW n \in Names, NEW f \in Definers(n)
      PROVE  def'[<<f, n>>] = <<f, n>>
  <2>1. <<f, n>> \in Symbols
    BY <1>5, Typed DEF LinkInv
  <2>2. <<f, n>> \in DefinedSymbols(known)
    BY DEF DefinedSymbols, Definers
  <2> QED BY <1>1, <2>1, <2>2
<1>6. alts' = {n \in Names : Cardinality(Definers(n)) > 1}
  <2>1. ASSUME NEW n \in Names, Cardinality(Definers(n)) > 1
        PROVE  \E f \in known : Defines(f, n)
    <3>1. Definers(n) # {}
      BY <2>1, FS_EmptySet
    <3> QED BY <3>1 DEF Definers
  <2> QED BY <1>1, <1>2, <2>1
<1>7. Selected'
  BY <1>1, <1>5, <1>6, SameNames DEF Selected
<1> QED BY <1>1, <1>3, <1>4, <1>7 DEF LinkInv, FirstRound, ReferencesBound, Generated, GeneratedAdded,
           Ready, NonIrReferencesReported, BoundToCode

LEMMA FirstResolveStep ==
  ASSUME LinkInv, FirstResolve
  PROVE  LinkInv'
<1> DEFINE start == {0} \cup (known \ Optional)
           C == Closure(start)
           new == C \ (loaded \cup {0})
<1>1. /\ pc = "resolve1" /\ pc' = "alternatives1" /\ UNCHANGED <<role, known, alts, disabled>>
      /\ loaded' = loaded \cup new
      /\ def' = [s \in Symbols |-> IF s[1] \in new /\ Refers(s[1], s[2]) THEN Lookup(s[2]) ELSE def[s]]
      /\ nonIr' = nonIr \cup {Lookup(n) : n \in {m \in UNION {Marks(f) : f \in new \cup (start \cap {0})} :
                                                   Lookup(m) # None}}
  BY DEF FirstResolve, Resolve
<1>2. loaded = {} /\ known \subseteq Files /\ ~disabled /\ Files \ Optional \subseteq known
  BY <1>1 DEF LinkInv, KnownInv
<1>3. start \in SUBSET (0..Out)
  <2>1. \A f \in known : f \in AllFiles
    BY <1>2, FileNumbers
  <2> QED BY <2>1, FileNumbers DEF AllFiles
<1>4. start \subseteq C /\ C \subseteq 0..Out /\ ClosedFiles(C)
      /\ \A S \in SUBSET (0..Out) : start \subseteq S /\ ClosedFiles(S) => C \subseteq S
  <2> HIDE DEF start
  <2> QED BY <1>3, ClosureFacts DEF LinkInv, WorldInv
<1>5. C \subseteq known \cup {0}
  <2>1. ClosedFiles(known \cup {0})
    BY LookupFacts DEF ClosedFiles, Definers, LinkInv, WorldInv
  <2>2. known \cup {0} \in SUBSET (0..Out)
    BY <1>2, FileNumbers
  <2> QED BY <1>4, <2>1, <2>2
<1> HIDE DEF C
<1>6. loaded' = C \ {0} /\ loaded' \subseteq known /\ loaded' \cup {0} = C /\ new = loaded'
  BY <1>1, <1>2, <1>4, <1>5, FileNumbers
<1>7. WorldInv'
  <2>1. def' \in [Symbols -> Symbols \cup {None}]
    <3>1. \A s \in Symbols : s[2] \in Names
      BY DEF Symbols
    <3>2. \A s \in Symbols : Lookup(s[2]) \in Symbols \cup {None}
      BY <3>1, Typed DEF LinkInv
    <3> HIDE DEF new
    <3> QED BY <1>1, <3>2 DEF LinkInv, WorldInv
  <2> QED BY <1>1, <1>6, <2>1 DEF LinkInv, WorldInv
<1>8. KnownInv'
  BY <1>1, <1>2 DEF KnownInv
<1>9. FirstRound'
  <2>1. loaded' \subseteq Files /\ Files \ Optional \subseteq loaded'
    BY <1>2, <1>4, <1>6, FileNumbers
  <2>2. ASSUME NEW f \in loaded' \cup {0}, NEW n \in LookedUp(f), Lookup(n) # None
        PROVE  Lookup(n)[1] \in loaded'
    <3>1. Lookup(n)[1] \in C
      BY <1>4, <1>6, <2>2 DEF ClosedFiles
    <3>2. Lookup(n)[1] # 0
      BY <2>2, LookupFacts, FileNumbers DEF LinkInv, WorldInv
    <3> QED BY <1>6, <3>1, <3>2
  <2>3. ASSUME NEW f \in loaded' \cup {0}, NEW n \in Marks(f), Lookup(n) # None
        PROVE  Lookup(n) \in nonIr'
    <3>1. f \in new \cup (start \cap {0})
      BY <1>6
    <3> HIDE DEF new, start
    <3>2. n \in {m \in UNION {Marks(g) : g \in new \cup (start \cap {0})} : Lookup(m) # None}
      BY <2>3, <3>1
    <3> QED BY <1>1, <3>2
  <2> QED BY <1>1, <2>1, <2>2, <2>3, SameNames DEF FirstRound
<1>10. ReferencesBound'
  <2> SUFFICES ASSUME NEW f \in loaded', NEW n \in Names, Refers(f, n) PROVE def'[<<f, n>>] = Lookup(n)
    BY <1>1, SameNames DEF ReferencesBound
  <2>1. <<f, n>> \in Symbols
    BY <1>6, <1>7, Typed DEF LinkInv, WorldInv
  <2> QED BY <1>1, <1>6, <2>1
<1>11. Selected'
  <2> SUFFICES ASSUME NEW n \in Names, NEW f \in Definers(n) PROVE def'[<<f, n>>] = def[<<f, n>>]
    BY <1>1, SameNames DEF Selected, LinkInv
  <2>1. <<f, n>> \in Symbols /\ ~Refers(f, n)
    BY Typed DEF LinkInv, Definers
  <2> QED BY <1>1, <2>1
<1> QED BY <1>1, <1>7, <1>8, <1>9, <1>10, <1>11 DEF LinkInv, Generated, GeneratedAdded,
           Ready, NonIrReferencesReported, BoundToCode

\* With the same strength everywhere the first loaded definition is selected.
LEMMA SelectFirst ==
  ASSUME StrengthsAgree, WorldInv, ~disabled, NEW n \in Names,
         Definers(n) # {}, Out \notin known
  PROVE  Select(Definers(n), n) = Chosen(n) /\ Chosen(n) \in Definers(n)
         /\ InputDefiners(n) = Definers(n)
<1> DEFINE D == Definers(n)
<1>1. D \in SUBSET AllFiles /\ D \subseteq Files /\ InputDefiners(n) = D /\ D # {}
  BY Typed DEF Definers, InputDefiners
<1>2. \A f \in D : role[f][n] \in {"weak", "strong"}
  BY DEF Definers, Defines
<1>3. \A f, g \in D : ~(role[f][n] = "weak" /\ role[g][n] = "strong")
  BY <1>1 DEF WorldInv, StrengthsAgree
<1>4. \A f : Strength(f, n) = IF f \in loaded THEN role[f][n] ELSE "none"
  BY DEF Strength
<1>5. CASE D \cap loaded = {}
  <2>1. StrongOnes(D, n) = {} /\ WeakOnes(D, n) = {}
    BY <1>4, <1>5 DEF StrongOnes, WeakOnes
  <2> QED BY <1>1, <1>5, <2>1, LeastFile DEF Select, Chosen
<1>6. CASE D \cap loaded # {}
  <2>1. \/ StrongOnes(D, n) = D \cap loaded
        \/ StrongOnes(D, n) = {} /\ WeakOnes(D, n) = D \cap loaded
    BY <1>2, <1>3, <1>4 DEF StrongOnes, WeakOnes
  <2>2. Select(D, n) = Least(D \cap loaded)
    BY <1>6, <2>1 DEF Select
  <2>3. Least(D \cap loaded) \in D
    BY <1>1, <1>6, LeastFile
  <2> QED BY <1>1, <1>6, <2>2, <2>3 DEF Chosen
<1> QED BY <1>5, <1>6

LEMMA FirstAlternativesStep ==
  ASSUME StrengthsAgree, LinkInv, FirstAlternatives
  PROVE  LinkInv'
<1>1. /\ pc = "alternatives1" /\ UNCHANGED <<role, next, known, loaded, nonIr, disabled>>
      /\ \/ pc' = "error" /\ UNCHANGED <<def, alts>>
         \/ Alternatives(known) /\ pc' = IF loaded \cap IrFiles = {} THEN "done" ELSE "codegen"
  BY DEF FirstAlternatives
<1>2. known \subseteq Files /\ ~disabled /\ Out \notin known
  BY <1>1, FileNumbers DEF LinkInv, KnownInv
<1>3. CASE pc' = "error" /\ UNCHANGED <<def, alts>>
  <2>1. WorldInv'
    BY <1>1, <1>3 DEF LinkInv, WorldInv
  <2> QED BY <1>3, <2>1, StopInv
<1>4. CASE Alternatives(known) /\ pc' = IF loaded \cap IrFiles = {} THEN "done" ELSE "codegen"
  <2>1. /\ alts' = {}
        /\ def' = [s \in Symbols |-> IF s[2] \in alts /\ s[1] \in Compared(s[2], known)
                                     THEN <<Select(Compared(s[2], known), s[2]), s[2]>> ELSE def[s]]
    BY <1>4 DEF Alternatives
  <2>2. ASSUME NEW n \in Names, Definers(n) # {}
        PROVE  Compared(n, known) = Definers(n) /\ Select(Compared(n, known), n) = Chosen(n)
    <3>1. Lookup(n)[1] \in Definers(n)
      BY <2>2, LookupFacts DEF LinkInv, WorldInv
    <3>2. Compared(n, known) = Definers(n)
      BY <3>1 DEF Compared, Definers
    <3> QED BY <1>2, <2>2, <3>2, SelectFirst DEF LinkInv
  <2>3. ASSUME NEW n \in Names, n \in alts PROVE Definers(n) # {}
    <3>1. Cardinality(Definers(n)) > 1
      BY <1>1, <2>3 DEF LinkInv, Selected
    <3> QED BY <3>1, FS_EmptySet
  <2>4. WorldInv'
    <3>1. \A s \in Symbols : s[2] \in alts =>
             <<Select(Compared(s[2], known), s[2]), s[2]>> \in Symbols
      <4> SUFFICES ASSUME NEW s \in Symbols, s[2] \in alts
                   PROVE  <<Select(Compared(s[2], known), s[2]), s[2]>> \in Symbols
        OBVIOUS
      <4>1. s[2] \in Names
        BY DEF Symbols
      <4>2. Select(Compared(s[2], known), s[2]) = Chosen(s[2]) /\ Chosen(s[2]) \in Definers(s[2])
        BY <1>2, <2>2, <2>3, <4>1, SelectFirst DEF LinkInv
      <4> QED BY <4>1, <4>2, Typed DEF LinkInv
    <3>2. def' \in [Symbols -> Symbols \cup {None}]
      BY <2>1, <3>1 DEF LinkInv, WorldInv
    <3> QED BY <1>1, <2>1, <3>2 DEF LinkInv, WorldInv
  <2>5. KnownInv'
    BY <1>1, <1>4, <2>1 DEF LinkInv, KnownInv
  <2>6. ASSUME NEW n \in Names, NEW f \in InputDefiners(n)
        PROVE  def'[<<f, n>>] = <<Chosen(n), n>>
    <3>1. f \in Definers(n) /\ <<f, n>> \in Symbols
      BY Typed DEF LinkInv, InputDefiners
    <3>2. CASE n \in alts
      BY <2>1, <2>2, <3>1, <3>2
    <3>3. CASE n \notin alts
      <4>1. ~(Cardinality(Definers(n)) > 1)
        BY <1>1, <3>3 DEF LinkInv, Selected
      <4>2. IsFiniteSet(Definers(n))
        BY FileNumbers, Typed, FS_Subset DEF LinkInv
      <4>3. \A g \in Definers(n) : g = f
        <5>1. Cardinality(Definers(n)) \in Nat /\ Cardinality(Definers(n)) # 0
          BY <3>1, <4>2, FS_CardinalityType, FS_EmptySet
        <5>2. Cardinality(Definers(n)) = 1
          BY <4>1, <5>1
        <5> QED BY <3>1, <4>2, <5>2, FS_Singleton
      <4>4. Chosen(n) \in Definers(n)
        BY <1>2, <3>1, SelectFirst DEF LinkInv
      <4>5. Chosen(n) = f
        BY <4>3, <4>4
      <4>6. def[<<f, n>>] = <<f, n>>
        BY <1>1, <3>1 DEF LinkInv, Selected
      <4> QED BY <2>1, <3>1, <3>3, <4>5, <4>6
    <3> QED BY <3>2, <3>3
  <2>7. Selected'
    BY <1>1, <1>4, <2>6, SameNames, SameChosen DEF Selected
  <2>8. FirstRound'
    BY <1>1, <1>4, SameNames DEF LinkInv, FirstRound
  <2>9. ReferencesBound'
    <3> SUFFICES ASSUME NEW f \in loaded, NEW n \in Names, Refers(f, n) PROVE def'[<<f, n>>] = Lookup(n)
      BY <1>1, SameNames DEF ReferencesBound
    <3>1. <<f, n>> \in Symbols /\ f \notin Definers(n)
      BY Typed DEF LinkInv, WorldInv, Definers
    <3>2. def[<<f, n>>] = Lookup(n)
      BY <1>1 DEF LinkInv, ReferencesBound
    <3> QED BY <2>1, <2>2, <2>3, <3>1, <3>2
  <2>10. NonIrReferencesReported' /\ BoundToCode'
    BY <1>1, <1>4 DEF NonIrReferencesReported, BoundToCode
  <2> QED BY <1>1, <1>4, <2>4, <2>5, <2>7, <2>8, <2>9, <2>10 DEF LinkInv, Generated, GeneratedAdded, Ready
<1> QED BY <1>1, <1>3, <1>4

---------------------------------------------------------------------------
(* Code generation.                                                        *)

LEMMA ChosenDefines ==
  ASSUME WorldInv, NEW n \in Names, InputDefiners(n) # {}
  PROVE  /\ Chosen(n) \in InputDefiners(n) /\ Chosen(n) \in Files /\ Defines(Chosen(n), n)
         /\ InputDefiners(n) \cap loaded # {} => Chosen(n) \in loaded
         /\ \A f \in InputDefiners(n) \cap loaded : Chosen(n) <= f
<1>1. InputDefiners(n) \in SUBSET AllFiles /\ InputDefiners(n) \cap loaded \in SUBSET AllFiles
  BY Typed, FileNumbers
<1>2. Chosen(n) \in InputDefiners(n)
  BY <1>1, LeastFile DEF Chosen
<1>3. Chosen(n) \in Files /\ Defines(Chosen(n), n)
  BY <1>2, Typed DEF InputDefiners, Definers
<1>4. /\ InputDefiners(n) \cap loaded # {} => Chosen(n) \in loaded
      /\ \A f \in InputDefiners(n) \cap loaded : Chosen(n) <= f
  BY <1>1, LeastFile DEF Chosen
<1> QED BY <1>2, <1>3, <1>4

\* The lookup finds the first definition, also when the generated object has one.
LEMMA LookupFirst ==
  ASSUME WorldInv, NEW n \in Names, InputDefiners(n) # {}
  PROVE  /\ Lookup(n) # None /\ Lookup(n) = <<Least(InputDefiners(n)), n>>
         /\ Lookup(n)[1] = Least(InputDefiners(n))
         /\ Least(InputDefiners(n)) \in InputDefiners(n)
         /\ \A f \in InputDefiners(n) : Least(InputDefiners(n)) <= f
<1>1. InputDefiners(n) \in SUBSET AllFiles /\ Definers(n) \in SUBSET AllFiles
      /\ InputDefiners(n) \subseteq Definers(n)
  BY Typed, FileNumbers DEF InputDefiners
<1> DEFINE m == Least(InputDefiners(n))
<1>2. m \in InputDefiners(n) /\ \A f \in InputDefiners(n) : m <= f
  BY <1>1, LeastFile
<1>3. m \in Files /\ m < Out
  BY <1>2, Typed, FileNumbers
<1>4. \A f \in Definers(n) : m <= f
  <2> TAKE f \in Definers(n)
  <2>1. CASE f = Out
    <3>1. m \in Nat /\ Out \in Nat
      BY <1>3, FileNumbers
    <3> HIDE DEF m
    <3> QED BY <1>3, <2>1, <3>1
  <2>2. CASE f # Out
    BY <1>2, <2>2 DEF InputDefiners
  <2> QED BY <2>1, <2>2
<1> HIDE DEF m
<1>5. Least(Definers(n)) = m
  BY <1>1, <1>2, <1>4, LeastUnique
<1>6. Lookup(n) = <<m, n>> /\ Lookup(n) # None
  BY <1>1, <1>2, <1>5, LookupFacts DEF Lookup, WorldInv
<1> QED BY <1>2, <1>6 DEF m

LEMMA PrevailingDefinition ==
  ASSUME LinkInv, pc \in {"codegen", "inputs2", "resolve2"}, NEW n \in Names, InputDefiners(n) # {}
  PROVE  Definition(Lookup(n)) = <<Chosen(n), n>>
<1>1. Lookup(n) = <<Least(InputDefiners(n)), n>> /\ Lookup(n) # None
      /\ Least(InputDefiners(n)) \in InputDefiners(n)
  BY LookupFirst DEF LinkInv
<1>2. def[Lookup(n)] = <<Chosen(n), n>>
  BY <1>1 DEF LinkInv, Selected
<1>3. Chosen(n) \in InputDefiners(n) /\ Chosen(n) \in AllFiles
  BY ChosenDefines, FileNumbers DEF LinkInv
<1>4. def[<<Chosen(n), n>>] = <<Chosen(n), n>>
  BY <1>3 DEF LinkInv, Selected
<1>5. <<Chosen(n), n>> # None
  BY <1>3, Typed DEF LinkInv
<1> QED BY <1>1, <1>2, <1>4, <1>5 DEF Definition

\* What the plugin is told.
LEMMA ResolutionFacts ==
  ASSUME LinkInv, pc = "codegen", NEW s \in IrDefinitions
  PROVE  /\ s[2] \in Names /\ s = <<s[1], s[2]>> /\ s[1] \in IrFiles \cap loaded
         /\ s[1] \in InputDefiners(s[2])
         /\ Resolution(s) = IF Chosen(s[2]) # s[1] THEN "Preempted"
                            ELSE IF s \in nonIr THEN "PrevailingDef" ELSE "PrevailingDefIronly"
<1>1. s \in IrFiles \X Names /\ Defines(s[1], s[2]) /\ s[1] \in loaded
  BY DEF IrDefinitions, DefinedSymbols
<1>2. s[1] \in IrFiles /\ s[2] \in Names /\ s = <<s[1], s[2]>>
  BY <1>1
<1>3. s[1] \in InputDefiners(s[2])
  <2>1. s[1] \in known /\ s[1] # Out
    BY <1>1, <1>2, FileNumbers DEF LinkInv, WorldInv
  <2> QED BY <1>1, <2>1 DEF InputDefiners, Definers
<1>4. Definition(Lookup(s[2])) = <<Chosen(s[2]), s[2]>>
  <2> DEFINE n == s[2]
  <2>1. n \in Names /\ InputDefiners(n) # {}
    BY <1>2, <1>3
  <2> HIDE DEF n
  <2>2. Definition(Lookup(n)) = <<Chosen(n), n>>
    BY <2>1, PrevailingDefinition
  <2> QED BY <2>2 DEF n
<1>5. Definition(Lookup(s[2]))[1] = Chosen(s[2])
  BY <1>4
<1>6. Chosen(s[2]) = s[1] => Definition(Lookup(s[2])) = s
  BY <1>2, <1>4
<1>7. Resolution(s) = IF Chosen(s[2]) # s[1] THEN "Preempted"
                      ELSE IF s \in nonIr THEN "PrevailingDef" ELSE "PrevailingDefIronly"
  BY <1>5, <1>6, Zenon DEF Resolution
<1> QED BY <1>1, <1>2, <1>3, <1>7

LEMMA ReportedNames ==
  ASSUME LinkInv, pc = "codegen", NEW n \in Names
  PROVE  /\ n \in NamesReported({"PrevailingDef", "PrevailingDefIronly"}) <=> PrevailsInIr(n)
         /\ n \in NamesReported({"PrevailingDef"}) <=> PrevailsInIr(n) /\ <<Chosen(n), n>> \in nonIr
<1>1. \A A : n \in NamesReported(A) <=> \E s \in IrDefinitions : s[2] = n /\ Resolution(s) \in A
  BY DEF NamesReported
<1>2. ASSUME NEW s \in IrDefinitions, s[2] = n, Resolution(s) \in {"PrevailingDef", "PrevailingDefIronly"}
      PROVE  /\ PrevailsInIr(n) /\ s = <<Chosen(n), n>>
             /\ Resolution(s) = "PrevailingDef" <=> <<Chosen(n), n>> \in nonIr
  <2>1. /\ s = <<s[1], n>> /\ s[1] \in IrFiles \cap loaded /\ s[1] \in InputDefiners(n)
        /\ Resolution(s) = IF Chosen(n) # s[1] THEN "Preempted"
                           ELSE IF s \in nonIr THEN "PrevailingDef" ELSE "PrevailingDefIronly"
    BY <1>2, ResolutionFacts
  <2>2. Chosen(n) = s[1]
    BY <1>2, <2>1
  <2> QED BY <2>1, <2>2 DEF PrevailsInIr
<1>3. ASSUME PrevailsInIr(n)
      PROVE  /\ <<Chosen(n), n>> \in IrDefinitions
             /\ Resolution(<<Chosen(n), n>>) =
                  IF <<Chosen(n), n>> \in nonIr THEN "PrevailingDef" ELSE "PrevailingDefIronly"
  <2> DEFINE s == <<Chosen(n), n>>
  <2>1. s \in IrDefinitions
    BY <1>3, ChosenDefines DEF PrevailsInIr, IrDefinitions, DefinedSymbols, LinkInv
  <2>2. s[1] = Chosen(n) /\ s[2] = n
    OBVIOUS
  <2> HIDE DEF s
  <2>3. Resolution(s) = IF s \in nonIr THEN "PrevailingDef" ELSE "PrevailingDefIronly"
    BY <2>1, <2>2, ResolutionFacts
  <2> QED BY <2>1, <2>3 DEF s
<1>4. ASSUME PrevailsInIr(n)
      PROVE  /\ n \in NamesReported({"PrevailingDef", "PrevailingDefIronly"})
             /\ <<Chosen(n), n>> \in nonIr => n \in NamesReported({"PrevailingDef"})
  <2>1. <<Chosen(n), n>>[2] = n
    OBVIOUS
  <2> QED BY <1>1, <1>3, <1>4, <2>1
<1>5. n \in NamesReported({"PrevailingDef", "PrevailingDefIronly"}) => PrevailsInIr(n)
  BY <1>1, <1>2
<1>6. n \in NamesReported({"PrevailingDef"}) => PrevailsInIr(n) /\ <<Chosen(n), n>> \in nonIr
  BY <1>1, <1>2
<1> QED BY <1>4, <1>5, <1>6

\* What the plugin makes of it.
LEMMA GeneratedFacts ==
  ASSUME LinkInv, pc = "codegen", NEW r \in GeneratedRoles
  PROVE  /\ r \in [Names -> Roles]
         /\ \A n \in Names :
              /\ r[n] \in {"weak", "strong"} => PrevailsInIr(n)
              /\ r[n] = "ref" => /\ ~PrevailsInIr(n)
                                 /\ n \in Libcalls \/ \E f \in IrFiles \cap loaded : Refers(f, n)
              /\ PrevailsInIr(n) /\ <<Chosen(n), n>> \in nonIr => r[n] \in {"weak", "strong"}
<1> DEFINE must == NamesReported({"PrevailingDef"})
           may == NamesReported({"PrevailingDef", "PrevailingDefIronly"})
           irRefs == {n \in Names : \E f \in IrFiles \cap loaded : Refers(f, n)}
<1>1. \A n \in Names : (n \in may <=> PrevailsInIr(n))
                       /\ (n \in must <=> PrevailsInIr(n) /\ <<Chosen(n), n>> \in nonIr)
  BY ReportedNames
<1>2. /\ r \in [Names -> Roles]
      /\ \A n \in Names : /\ r[n] \in {"weak", "strong"} => n \in may
                          /\ r[n] = "ref" => n \in (irRefs \cup Libcalls) \ may
                          /\ n \in must => r[n] \in {"weak", "strong"}
  BY Zenon DEF GeneratedRoles
<1>3. \A n \in irRefs : \E f \in IrFiles \cap loaded : Refers(f, n)
  OBVIOUS
<1> HIDE DEF must, may, irRefs
<1>4. ASSUME NEW n \in Names
      PROVE  /\ r[n] \in {"weak", "strong"} => PrevailsInIr(n)
             /\ r[n] = "ref" => /\ ~PrevailsInIr(n)
                                /\ n \in Libcalls \/ \E f \in IrFiles \cap loaded : Refers(f, n)
             /\ PrevailsInIr(n) /\ <<Chosen(n), n>> \in nonIr => r[n] \in {"weak", "strong"}
  <2>1. (n \in may <=> PrevailsInIr(n)) /\ (n \in must <=> PrevailsInIr(n) /\ <<Chosen(n), n>> \in nonIr)
    BY <1>1
  <2>2. /\ r[n] \in {"weak", "strong"} => n \in may
        /\ n \in must => r[n] \in {"weak", "strong"}
        /\ r[n] = "ref" => n \in (irRefs \cup Libcalls) \ may
    BY <1>2, Zenon
  <2>3. r[n] = "ref" => n \notin may /\ (n \in irRefs \/ n \in Libcalls)
    BY <2>2, Zenon
  <2> QED BY <1>3, <2>1, <2>2, <2>3
<1> QED BY <1>2, <1>4

\* A definition that is looked up and loaded is the one that is selected.
LEMMA LoadedLookup ==
  ASSUME WorldInv, NEW n \in Names, InputDefiners(n) # {}, Lookup(n)[1] \in loaded
  PROVE  Chosen(n) = Lookup(n)[1] /\ Lookup(n) = <<Chosen(n), n>>
<1>1. Lookup(n) = <<Lookup(n)[1], n>> /\ Lookup(n)[1] \in InputDefiners(n)
      /\ \A f \in InputDefiners(n) : Lookup(n)[1] <= f
  BY LookupFirst
<1>2. Chosen(n) \in InputDefiners(n) /\ Chosen(n) <= Lookup(n)[1]
  BY <1>1, ChosenDefines
<1>3. Lookup(n)[1] <= Chosen(n)
  BY <1>1, <1>2
<1>4. Lookup(n)[1] \in Nat /\ Chosen(n) \in Nat
  BY <1>1, <1>2, Typed, FileNumbers
<1>5. Chosen(n) = Lookup(n)[1]
  BY <1>2, <1>3, <1>4
<1> QED BY <1>1, <1>5

\* The generated object changes neither what lookups find nor what was selected.
LEMMA OutAdded ==
  ASSUME LinkInv, pc = "codegen", NEW r \in GeneratedRoles,
         role' = [role EXCEPT ![Out] = r], known' = known \cup {Out}, loaded' = loaded
  PROVE  /\ \A f \in Files, n \in Names : Defines(f, n)' = Defines(f, n) /\ Refers(f, n)' = Refers(f, n)
         /\ \A f \in Files \cup {0} : LookedUp(f)' = LookedUp(f) /\ Marks(f)' = Marks(f)
         /\ \A n \in Names : /\ role'[Out][n] = r[n]
                             /\ InputDefiners(n)' = InputDefiners(n) /\ Lookup(n)' = Lookup(n)
                             /\ Chosen(n)' = Chosen(n) /\ PrevailsInIr(n)' = PrevailsInIr(n)
<1>1. role \in [AllFiles -> [Names -> Roles]] /\ known \subseteq Files /\ Out \notin known
  BY FileNumbers DEF LinkInv, WorldInv, KnownInv
<1>2. role'[Out] = r /\ \A f \in Files : role'[f] = role[f]
  BY <1>1, FileNumbers
<1>3. \A f \in Files, n \in Names : Defines(f, n)' = Defines(f, n) /\ Refers(f, n)' = Refers(f, n)
  BY <1>2 DEF Defines, Refers
<1>4. \A f \in Files \cup {0} : LookedUp(f)' = LookedUp(f)
  <2>1. \A f \in Files : LookedUp(f)' = LookedUp(f)
    BY <1>3 DEF LookedUp
  <2>2. LookedUp(0)' = LookedUp(0)
    BY DEF LookedUp
  <2> QED BY <2>1, <2>2
<1>5. \A f \in Files \cup {0} : Marks(f)' = Marks(f)
  BY <1>4 DEF Marks
<1>6. ASSUME NEW n \in Names
      PROVE  /\ InputDefiners(n)' = InputDefiners(n) /\ Lookup(n)' = Lookup(n)
             /\ Chosen(n)' = Chosen(n) /\ PrevailsInIr(n)' = PrevailsInIr(n)
  <2>1. \A f \in known : Defines(f, n)' = Defines(f, n)
    BY <1>1, <1>3
  <2>2. InputDefiners(n)' = InputDefiners(n) /\ InputDefiners(n) = Definers(n)
    BY <1>1, <2>1 DEF InputDefiners, Definers
  <2>3. Definers(n)' = Definers(n) \/ Definers(n)' = Definers(n) \cup {Out}
    BY <1>1, <2>1 DEF Definers
  <2>4. Chosen(n)' = Chosen(n) /\ PrevailsInIr(n)' = PrevailsInIr(n)
    BY <2>2 DEF Chosen, PrevailsInIr
  <2>5. Definers(n)' # Definers(n) => InputDefiners(n) # {}
    <3> SUFFICES ASSUME Definers(n)' # Definers(n) PROVE InputDefiners(n) # {}
      OBVIOUS
    <3>1. Out \in Definers(n)'
      BY <2>3
    <3>2. r[n] \in {"weak", "strong"}
      BY <1>2, <3>1 DEF Definers, Defines
    <3> QED BY <3>2, GeneratedFacts DEF PrevailsInIr
  <2>6. Lookup(n)' = Lookup(n)
    <3>1. CASE Definers(n)' = Definers(n)
      BY <3>1 DEF Lookup
    <3>2. CASE Definers(n)' # Definers(n)
      <4> DEFINE m == Least(Definers(n))
                 S == Definers(n) \cup {Out}
      <4>1. m \in Definers(n) /\ (\A f \in Definers(n) : m <= f) /\ Definers(n) # {}
        BY <2>2, <2>5, <3>2, LookupFirst DEF LinkInv
      <4>2. S \in SUBSET AllFiles /\ Definers(n) \subseteq Files
        BY <2>2, Typed, FileNumbers DEF LinkInv
      <4> HIDE DEF m
      <4>3. m <= Out
        <5>1. m \in Files
          BY <4>1, <4>2
        <5>2. m \in Nat /\ m < Out /\ Out \in Nat
          BY <5>1, FileNumbers
        <5> QED BY <5>2
      <4>4. m \in S /\ \A f \in S : m <= f
        BY <4>1, <4>3
      <4>5. Definers(n)' = S /\ S # {}
        BY <2>3, <3>2
      <4> HIDE DEF S
      <4>6. Least(S) = m
        BY <4>2, <4>4, LeastUnique
      <4>7. Lookup(n)' = <<m, n>>
        BY <4>5, <4>6 DEF Lookup
      <4>8. Lookup(n) = <<m, n>>
        BY <4>1 DEF Lookup, m
      <4> QED BY <4>7, <4>8
    <3> QED BY <3>1, <3>2
  <2> QED BY <2>2, <2>4, <2>6
<1> QED BY <1>2, <1>3, <1>4, <1>5, <1>6

LEMMA CodegenStep ==
  ASSUME LinkInv, Codegen
  PROVE  LinkInv'
<1>1. /\ pc = "codegen" /\ UNCHANGED <<next, loaded, def, alts, nonIr, disabled>>
      /\ reported' = [s \in Symbols |-> IF s \in IrDefinitions THEN Resolution(s) ELSE reported[s]]
      /\ \/ pc' = "error" /\ UNCHANGED <<role, known>>
         \/ /\ \E r \in GeneratedRoles : role' = [role EXCEPT ![Out] = r]
            /\ known' = known \cup {Out} /\ pc' = "inputs2"
  BY DEF Codegen
<1>2. CASE pc' = "error" /\ UNCHANGED <<role, known>>
  <2>1. WorldInv'
    BY <1>1, <1>2 DEF LinkInv, WorldInv
  <2> QED BY <1>2, <2>1, StopInv
<1>3. CASE /\ \E r \in GeneratedRoles : role' = [role EXCEPT ![Out] = r]
           /\ known' = known \cup {Out} /\ pc' = "inputs2"
  <2>1. PICK r \in GeneratedRoles : role' = [role EXCEPT ![Out] = r]
    BY <1>3
  <2>2. loaded \subseteq Files /\ alts = {} /\ ~disabled /\ Files \ Optional \subseteq known
    BY <1>1 DEF LinkInv, FirstRound, KnownInv
  <2>3. /\ \A f \in Files, n \in Names : Defines(f, n)' = Defines(f, n) /\ Refers(f, n)' = Refers(f, n)
        /\ \A f \in Files \cup {0} : LookedUp(f)' = LookedUp(f) /\ Marks(f)' = Marks(f)
    BY <1>1, <1>3, <2>1, OutAdded
  <2>4. \A n \in Names : /\ role'[Out][n] = r[n]
                         /\ InputDefiners(n)' = InputDefiners(n) /\ Lookup(n)' = Lookup(n)
                         /\ Chosen(n)' = Chosen(n) /\ PrevailsInIr(n)' = PrevailsInIr(n)
    BY <1>1, <1>3, <2>1, OutAdded
  <2>5. WorldInv'
    <3>1. role' \in [AllFiles -> [Names -> Roles]] /\ \A f \in Files : role'[f] = role[f]
      BY <1>1, <2>1, GeneratedFacts, FileNumbers DEF LinkInv, WorldInv
    <3>2. known' \subseteq AllFiles /\ loaded' \subseteq known'
      BY <1>1, <1>3, FileNumbers DEF LinkInv, WorldInv
    <3>3. \E w \in Worlds : \A f \in Files : role'[f] = w[f]
      BY <3>1 DEF LinkInv, WorldInv
    <3> QED BY <1>1, <3>1, <3>2, <3>3 DEF LinkInv, WorldInv
  <2>6. KnownInv'
    BY <1>1, <1>3, <2>2 DEF KnownInv
  <2>7. \A f \in loaded \cup {0} : LookedUp(f) \subseteq Names /\ Marks(f) \subseteq Names
    BY WorldAssumption DEF LookedUp, Marks
  <2>8. FirstRound'
    <3>1. ASSUME NEW f \in loaded \cup {0}, NEW n \in LookedUp(f)', Lookup(n)' # None
          PROVE  Lookup(n)'[1] \in loaded
      <4>1. n \in LookedUp(f) /\ n \in Names
        BY <2>2, <2>3, <2>7, <3>1
      <4>2. Lookup(n)' = Lookup(n)
        BY <2>4, <4>1
      <4> QED BY <1>1, <3>1, <4>1, <4>2 DEF LinkInv, FirstRound
    <3>2. ASSUME NEW f \in loaded \cup {0}, NEW n \in Marks(f)', Lookup(n)' # None
          PROVE  Lookup(n)' \in nonIr
      <4>1. n \in Marks(f) /\ n \in Names
        BY <2>2, <2>3, <2>7, <3>2
      <4>2. Lookup(n)' = Lookup(n)
        BY <2>4, <4>1
      <4> QED BY <1>1, <3>2, <4>1, <4>2 DEF LinkInv, FirstRound
    <3>3. Files \ Optional \subseteq loaded
      BY <1>1 DEF LinkInv, FirstRound
    <3> QED BY <1>1, <2>2, <3>1, <3>2, <3>3 DEF FirstRound
  <2>9. ReferencesBound'
    <3> SUFFICES ASSUME NEW f \in loaded, NEW n \in Names, Refers(f, n)'
                 PROVE  def'[<<f, n>>] = Lookup(n)'
      BY <1>1 DEF ReferencesBound
    <3>1. Refers(f, n) /\ Lookup(n)' = Lookup(n)
      BY <2>2, <2>3, <2>4
    <3> QED BY <1>1, <3>1 DEF LinkInv, ReferencesBound
  <2>10. Selected'
    <3> SUFFICES ASSUME NEW n \in Names, NEW f \in InputDefiners(n)'
                 PROVE  def'[<<f, n>>] = <<Chosen(n)', n>>
      BY <1>3 DEF Selected
    <3>1. f \in InputDefiners(n) /\ Chosen(n)' = Chosen(n)
      BY <2>4
    <3> QED BY <1>1, <3>1 DEF LinkInv, Selected
  <2>11. Generated'
    <3> SUFFICES ASSUME NEW n \in Names
                 PROVE  /\ Defines(Out, n)' => PrevailsInIr(n)'
                        /\ Refers(Out, n)' =>
                             /\ ~PrevailsInIr(n)'
                             /\ n \in Libcalls \/ \E f \in IrFiles \cap loaded : Refers(f, n)'
                        /\ PrevailsInIr(n)' /\ <<Chosen(n)', n>> \in nonIr => Defines(Out, n)'
      BY <1>1 DEF Generated
    <3>1. Defines(Out, n)' = (r[n] \in {"weak", "strong"}) /\ Refers(Out, n)' = (r[n] = "ref")
      BY <2>4 DEF Defines, Refers
    <3>2. /\ r[n] \in {"weak", "strong"} => PrevailsInIr(n)
          /\ r[n] = "ref" => /\ ~PrevailsInIr(n)
                             /\ n \in Libcalls \/ \E f \in IrFiles \cap loaded : Refers(f, n)
          /\ PrevailsInIr(n) /\ <<Chosen(n), n>> \in nonIr => r[n] \in {"weak", "strong"}
      BY <1>1, GeneratedFacts
    <3>3. \A f \in IrFiles \cap loaded : Refers(f, n)' = Refers(f, n)
      BY <2>2, <2>3
    <3> QED BY <2>4, <3>1, <3>2, <3>3
  <2>12. NonIrReferencesReported'
    <3> SUFFICES ASSUME NEW s \in IrDefinitions',
                        s[2] = EntryName \/ \E f \in loaded \ IrFiles : Refers(f, s[2])',
                        reported'[s] # "Preempted"
                 PROVE  reported'[s] = "PrevailingDef"
      BY <1>1 DEF NonIrReferencesReported, Refers
    <3>1. s \in IrDefinitions
      <4>1. s \in IrFiles \X Names /\ Defines(s[1], s[2])' /\ s[1] \in loaded
        BY <1>1 DEF IrDefinitions, DefinedSymbols
      <4>2. s[1] \in Files /\ s[2] \in Names
        BY <2>2, <4>1
      <4>3. Defines(s[1], s[2])
        BY <2>3, <4>1, <4>2
      <4> QED BY <4>1, <4>3 DEF IrDefinitions, DefinedSymbols
    <3>2. PICK n \in Names : n = s[2]
      BY <1>1, <3>1, ResolutionFacts
    <3>3. /\ s = <<s[1], n>> /\ s[1] \in InputDefiners(n)
          /\ Resolution(s) = IF Chosen(n) # s[1] THEN "Preempted"
                             ELSE IF s \in nonIr THEN "PrevailingDef" ELSE "PrevailingDefIronly"
      BY <1>1, <3>1, <3>2, ResolutionFacts
    <3>4. s \in Symbols
      <4>1. s[1] \in AllFiles
        BY <3>3, Typed, FileNumbers DEF LinkInv
      <4> QED BY <3>2, <3>3, <4>1, Typed DEF LinkInv
    <3>5. reported'[s] = Resolution(s)
      BY <1>1, <3>1, <3>4
    <3>6. Chosen(n) = s[1]
      BY <3>3, <3>5
    <3>7. \E f \in loaded \cup {0} : n \in LookedUp(f) /\ n \in Marks(f)
      <4>1. CASE n = EntryName
        BY <4>1 DEF LookedUp, Marks
      <4>2. CASE \E f \in loaded \ IrFiles : Refers(f, n)'
        <5>1. PICK f \in loaded \ IrFiles : Refers(f, n)'
          BY <4>2
        <5>2. Refers(f, n) /\ f # 0
          BY <2>2, <2>3, <5>1, FileNumbers
        <5> QED BY <5>1, <5>2 DEF LookedUp, Marks
      <4> QED BY <3>2, <4>1, <4>2
    <3>8. Lookup(n) # None
      BY <3>3, LookupFirst DEF LinkInv
    <3>9. Lookup(n) \in nonIr /\ Lookup(n)[1] \in loaded
      BY <1>1, <3>7, <3>8 DEF LinkInv, FirstRound
    <3>10. Lookup(n) = <<Chosen(n), n>>
      BY <3>3, <3>9, LoadedLookup DEF LinkInv
    <3> QED BY <3>3, <3>5, <3>6, <3>9, <3>10
  <2> QED BY <1>3, <2>5, <2>6, <2>8, <2>9, <2>10, <2>11, <2>12 DEF LinkInv, GeneratedAdded, Ready,
             BoundToCode
<1> QED BY <1>1, <1>2, <1>3

---------------------------------------------------------------------------
(* The second round.                                                       *)

LEMMA SecondInputsStep ==
  ASSUME LinkInv, SecondInputs
  PROVE  LinkInv'
<1>1. /\ pc = "inputs2" /\ pc' = "resolve2" /\ UNCHANGED <<role, known, loaded, nonIr, disabled>>
      /\ def' = [s \in Symbols |-> IF s \in DefinedSymbols({Out}) THEN s ELSE def[s]]
      /\ alts' = alts \cup {n \in Names : /\ \E f \in {Out} : Defines(f, n)
                                          /\ Cardinality(Definers(n)) > 1}
  BY DEF SecondInputs, AddInputs
<1>2. /\ alts = {} /\ ~disabled /\ Out \in known /\ Files \ Optional \subseteq known
      /\ loaded \subseteq Files
  BY <1>1 DEF LinkInv, KnownInv, FirstRound
<1>3. WorldInv'
  BY <1>1 DEF LinkInv, WorldInv
<1>4. KnownInv'
  BY <1>1, <1>2 DEF KnownInv
<1>5. FirstRound'
  BY <1>1, SameNames DEF LinkInv, FirstRound
<1>6. ASSUME NEW f \in Files, NEW n \in Names PROVE def'[<<f, n>>] = def[<<f, n>>]
  <2>1. <<f, n>> \in Symbols /\ f # Out
    BY Typed, FileNumbers DEF LinkInv
  <2>2. <<f, n>> \notin DefinedSymbols({Out})
    BY <2>1 DEF DefinedSymbols
  <2> QED BY <1>1, <2>1, <2>2
<1>7. ReferencesBound'
  BY <1>1, <1>2, <1>6, SameNames DEF LinkInv, ReferencesBound
<1>8. Selected'
  <2> SUFFICES ASSUME NEW n \in Names, NEW f \in InputDefiners(n)
               PROVE  def'[<<f, n>>] = <<Chosen(n), n>>
    BY <1>1, SameNames, SameChosen DEF Selected
  <2>1. f \in Files
    BY Typed DEF LinkInv
  <2> QED BY <1>1, <1>6, <2>1 DEF LinkInv, Selected
<1>9. Generated'
  BY <1>1, SameNames, SameChosen DEF LinkInv, Generated
<1>10. ASSUME NEW n \in Names, Defines(Out, n) PROVE Cardinality(Definers(n)) > 1
  <2>1. PICK g : g \in InputDefiners(n)
    BY <1>1, <1>10 DEF LinkInv, Generated, PrevailsInIr
  <2>2. g \in Definers(n) /\ Out \in Definers(n) /\ g # Out
    BY <1>2, <1>10, <2>1 DEF InputDefiners, Definers
  <2>3. IsFiniteSet(Definers(n))
    BY FileNumbers, Typed, FS_Subset DEF LinkInv
  <2>4. Cardinality(Definers(n)) \in Nat /\ Cardinality(Definers(n)) # 0
    BY <2>2, <2>3, FS_CardinalityType, FS_EmptySet
  <2>5. Cardinality(Definers(n)) # 1
    BY <2>2, <2>3, FS_Singleton
  <2> QED BY <2>4, <2>5
<1>11. GeneratedAdded'
  <2>1. alts' = {n \in Names : Defines(Out, n)}
    BY <1>1, <1>2, <1>10
  <2>2. ASSUME NEW n \in Names, Defines(Out, n) PROVE def'[<<Out, n>>] = <<Out, n>>
    <3>1. <<Out, n>> \in Symbols
      BY Typed, FileNumbers DEF LinkInv
    <3>2. <<Out, n>> \in DefinedSymbols({Out})
      BY <2>2 DEF DefinedSymbols
    <3> QED BY <1>1, <3>1, <3>2
  <2> QED BY <2>1, <2>2, <1>1, SameNames DEF GeneratedAdded
<1> QED BY <1>1, <1>3, <1>4, <1>5, <1>7, <1>8, <1>9, <1>11 DEF LinkInv, Ready,
           NonIrReferencesReported, BoundToCode

\* Names that are known to the inputs, or to nobody: the plugin defines no new ones.
LEMMA NothingNew ==
  ASSUME LinkInv, pc \in {"inputs2", "resolve2"}, NEW n \in Names, Lookup(n) # None
  PROVE  /\ InputDefiners(n) # {} /\ Lookup(n)[1] \in InputDefiners(n)
         /\ InputDefiners(n) \subseteq Files
<1>1. Definers(n) # {}
  BY LookupFacts DEF LinkInv, WorldInv
<1>2. PICK f : f \in Definers(n)
  BY <1>1
<1>3. InputDefiners(n) # {}
  <2>1. CASE f = Out
    BY <1>2, <2>1 DEF LinkInv, Generated, PrevailsInIr, Definers
  <2>2. CASE f # Out
    BY <1>2, <2>2 DEF InputDefiners
  <2> QED BY <2>1, <2>2
<1> QED BY <1>3, LookupFirst, Typed DEF LinkInv

\* What the second round may load besides the generated object: members of the
\* runtime, which are not IR.
LEMMA RuntimeLoaded ==
  ASSUME RuntimeApart, LinkInv, pc = "resolve2"
  PROVE  \E runtime \in SUBSET (Optional \ IrFiles) :
           /\ Closure({Out}) \subseteq loaded \cup {0, Out} \cup runtime
           /\ \A f \in runtime, n \in Names : Refers(f, n) =>
                \/ n = EntryName \/ \E g \in loaded \ IrFiles : Refers(g, n)
                \/ InputDefiners(n) \cap IrFiles = {}
<1>1. PICK w \in Worlds : \A f \in Files : role[f] = w[f]
  BY DEF LinkInv, WorldInv
<1>2. PICK runtime \in SUBSET (Optional \ IrFiles) :
        \A n \in Names, f \in Files : w[f][n] \in {"weak", "strong"} =>
          /\ n \in Libcalls => f \in runtime \/ f \notin Optional
          /\ \A g \in runtime :
               w[g][n] = "ref" /\ n \notin Kept(w) => f \in runtime \cup RequiredObjects
  BY DEF RuntimeApart
<1>3. /\ runtime \subseteq Files /\ RequiredObjects \subseteq loaded \ IrFiles
      /\ Files \ Optional \subseteq loaded /\ loaded \subseteq Files
  BY WorldAssumption DEF LinkInv, FirstRound, RequiredObjects
<1>4. ASSUME NEW n \in Names, n \in Kept(w)
      PROVE  n = EntryName \/ \E g \in loaded \ IrFiles : Refers(g, n)
  <2>1. CASE n = EntryName
    BY <2>1
  <2>2. CASE \E g \in RequiredObjects : w[g][n] = "ref"
    <3>1. PICK g \in RequiredObjects : w[g][n] = "ref"
      BY <2>2
    <3>2. g \in Files /\ g \in loaded \ IrFiles
      BY <1>3
    <3> QED BY <1>1, <3>1, <3>2 DEF Refers
  <2> QED BY <1>4, <2>1, <2>2 DEF Kept
<1>5. ASSUME NEW n \in Names, NEW d \in InputDefiners(n)
      PROVE  d \in Files /\ w[d][n] \in {"weak", "strong"}
  <2>1. d \in Files /\ Defines(d, n)
    BY Typed DEF LinkInv, InputDefiners, Definers
  <2> QED BY <1>1, <2>1 DEF Defines
<1>6. ASSUME NEW f \in runtime, NEW n \in Names, Refers(f, n), n \notin Kept(w), NEW d \in InputDefiners(n)
      PROVE  d \in runtime \cup RequiredObjects
  <2>1. w[f][n] = "ref"
    BY <1>1, <1>3, <1>6 DEF Refers
  <2> QED BY <1>2, <1>5, <1>6, <2>1
<1>7. ASSUME NEW f \in runtime, NEW n \in Names, Refers(f, n)
      PROVE  \/ n = EntryName \/ \E g \in loaded \ IrFiles : Refers(g, n)
             \/ InputDefiners(n) \cap IrFiles = {}
  <2>1. CASE n \in Kept(w)
    BY <1>4, <2>1
  <2>2. CASE n \notin Kept(w)
    <3>1. \A d \in InputDefiners(n) : d \notin IrFiles
      BY <1>6, <1>7, <2>2 DEF RequiredObjects
    <3> QED BY <3>1
  <2> QED BY <2>1, <2>2
<1> DEFINE S == loaded \cup {0, Out} \cup runtime
<1>8. ASSUME NEW n \in Names, Lookup(n) # None, n \in LookedUp(0) \/ \E g \in loaded : Refers(g, n)
      PROVE  Lookup(n)[1] \in loaded
  <2>1. CASE n \in LookedUp(0)
    BY <1>8, <2>1 DEF LinkInv, FirstRound
  <2>2. CASE \E g \in loaded : Refers(g, n)
    <3>1. PICK g \in loaded : Refers(g, n)
      BY <2>2
    <3>2. g # 0
      BY <1>3, FileNumbers
    <3>3. n \in LookedUp(g)
      BY <3>1, <3>2 DEF LookedUp
    <3> QED BY <1>8, <3>3 DEF LinkInv, FirstRound
  <2> QED BY <1>8, <2>1, <2>2
<1>9. ClosedFiles(S)
  <2> SUFFICES ASSUME NEW f \in S, NEW n \in LookedUp(f), Lookup(n) # None
               PROVE  Lookup(n)[1] \in S
    BY DEF ClosedFiles
  <2>0. n \in Names
    BY WorldAssumption DEF LookedUp
  <2>1. Lookup(n)[1] \in InputDefiners(n)
    BY <2>0, NothingNew
  <2>2. f # 0 => Refers(f, n)
    BY DEF LookedUp
  <2>3. CASE f \in loaded \cup {0}
    BY <1>8, <2>0, <2>2, <2>3
  <2>4. CASE f = Out
    <3>1. Refers(Out, n)
      BY <2>2, <2>4, FileNumbers
    <3>2. n \in Libcalls \/ \E g \in IrFiles \cap loaded : Refers(g, n)
      BY <2>0, <3>1 DEF LinkInv, Generated
    <3>3. CASE n \in Libcalls
      <4>1. Lookup(n)[1] \in runtime \/ Lookup(n)[1] \notin Optional
        BY <1>2, <1>5, <2>0, <2>1, <3>3
      <4>2. Lookup(n)[1] \in Files
        BY <1>5, <2>0, <2>1
      <4> QED BY <1>3, <4>1, <4>2
    <3>4. CASE \E g \in IrFiles \cap loaded : Refers(g, n)
      BY <1>8, <2>0, <3>4
    <3> QED BY <3>2, <3>3, <3>4
  <2>5. CASE f \in runtime
    <3>1. Refers(f, n)
      BY <1>3, <2>2, <2>5, FileNumbers
    <3>2. CASE n \in Kept(w)
      <4>1. n \in LookedUp(0) \/ \E g \in loaded : Refers(g, n)
        BY <1>4, <2>0, <3>2 DEF LookedUp
      <4> QED BY <1>8, <2>0, <4>1
    <3>3. CASE n \notin Kept(w)
      BY <1>3, <1>6, <2>0, <2>1, <2>5, <3>1, <3>3
    <3> QED BY <3>2, <3>3
  <2> QED BY <2>3, <2>4, <2>5
<1>10. S \in SUBSET (0..Out) /\ {Out} \in SUBSET (0..Out)
  <2>1. \A f \in Files : f \in 0..Out
    BY FileNumbers
  <2> QED BY <1>3, <2>1, FileNumbers
<1>11. Closure({Out}) \subseteq S
  <2> HIDE DEF S
  <2>1. \A T \in SUBSET (0..Out) : {Out} \subseteq T /\ ClosedFiles(T) => Closure({Out}) \subseteq T
    BY <1>10, ClosureFacts DEF LinkInv, WorldInv
  <2>2. {Out} \subseteq S
    BY DEF S
  <2> QED BY <1>9, <1>10, <2>1, <2>2
<1> QED BY <1>7, <1>11

LEMMA SecondResolveStep ==
  ASSUME RuntimeApart, LinkInv, SecondResolve
  PROVE  LinkInv'
<1> DEFINE C == Closure({Out})
           new == C \ (loaded \cup {0})
<1>1. /\ pc = "resolve2" /\ pc' = "alternatives2" /\ disabled' = TRUE
      /\ UNCHANGED <<role, known, alts>> /\ loaded' = loaded \cup new
      /\ def' = [s \in Symbols |-> IF s[1] \in new /\ Refers(s[1], s[2]) THEN Lookup(s[2]) ELSE def[s]]
  BY DEF SecondResolve, Resolve
<1>2. /\ loaded \subseteq Files /\ Out \in known /\ Files \ Optional \subseteq known
      /\ known \subseteq AllFiles
      /\ alts = {n \in Names : Defines(Out, n)}
  BY <1>1 DEF LinkInv, KnownInv, FirstRound, GeneratedAdded, WorldInv
<1>3. {Out} \subseteq C /\ C \subseteq 0..Out /\ ClosedFiles(C)
      /\ \A S \in SUBSET (0..Out) : {Out} \subseteq S /\ ClosedFiles(S) => C \subseteq S
  <2>1. {Out} \in SUBSET (0..Out)
    BY FileNumbers
  <2> QED BY <1>2, <2>1, ClosureFacts
<1>4. C \subseteq known \cup {0}
  <2>1. ClosedFiles(known \cup {0})
    BY <1>2, LookupFacts DEF ClosedFiles, Definers
  <2>2. known \cup {0} \in SUBSET (0..Out)
    <3>1. \A f \in AllFiles : f \in 0..Out
      BY FileNumbers DEF AllFiles
    <3> QED BY <1>2, <3>1, FileNumbers
  <2> QED BY <1>2, <1>3, <2>1, <2>2
<1>5. PICK runtime \in SUBSET (Optional \ IrFiles) :
        /\ C \subseteq loaded \cup {0, Out} \cup runtime
        /\ \A f \in runtime, n \in Names : Refers(f, n) =>
             \/ n = EntryName \/ \E g \in loaded \ IrFiles : Refers(g, n)
             \/ InputDefiners(n) \cap IrFiles = {}
  BY <1>1, RuntimeLoaded
<1> HIDE DEF C
<1>6. /\ loaded' \subseteq known /\ Out \in new /\ Out \in loaded' /\ C \subseteq loaded' \cup {0}
      /\ new \subseteq {Out} \cup runtime /\ new \cap IrFiles = {}
  <2>1. Out \in new
    BY <1>2, <1>3, FileNumbers
  <2>2. new \subseteq {Out} \cup runtime
    BY <1>5
  <2>3. new \cap IrFiles = {}
    BY <2>2, FileNumbers
  <2> QED BY <1>1, <1>4, <2>1, <2>2, <2>3 DEF LinkInv, WorldInv
<1>7. WorldInv'
  <2>1. def' \in [Symbols -> Symbols \cup {None}]
    <3>1. \A s \in Symbols : s[2] \in Names
      BY DEF Symbols
    <3>2. \A s \in Symbols : Lookup(s[2]) \in Symbols \cup {None}
      BY <3>1, Typed DEF LinkInv
    <3> HIDE DEF new
    <3> QED BY <1>1, <3>2 DEF LinkInv, WorldInv
  <2> QED BY <1>1, <1>6, <2>1 DEF LinkInv, WorldInv
<1>8. KnownInv'
  BY <1>1, <1>2 DEF KnownInv
<1>9. ReferencesBound'
  <2> SUFFICES ASSUME NEW f \in loaded', NEW n \in Names, Refers(f, n) PROVE def'[<<f, n>>] = Lookup(n)
    BY <1>1, SameNames DEF ReferencesBound
  <2>1. <<f, n>> \in Symbols
    BY <1>2, <1>6, Typed DEF LinkInv
  <2>2. CASE f \in new
    BY <1>1, <2>1, <2>2
  <2>3. CASE f \in loaded
    BY <1>1, <2>1, <2>3 DEF LinkInv, ReferencesBound
  <2> HIDE DEF new
  <2> QED BY <1>1, <2>2, <2>3
<1>10. GeneratedAdded'
  BY <1>1, <1>2, SameNames DEF GeneratedAdded
<1>11. ASSUME NEW n \in Names, InputDefiners(n) # {}, ~PrevailsInIr(n), Lookup(n)[1] \in loaded'
       PROVE  Settled(n)'
  <2>1. n \notin alts /\ ~Defines(Out, n)
    BY <1>1, <1>2, <1>11 DEF LinkInv, Generated
  <2>2. Definers(n) = InputDefiners(n)
    BY <2>1 DEF InputDefiners, Definers
  <2>3. Chosen(n) \in InputDefiners(n) /\ Defines(Chosen(n), n)
    BY <1>11, ChosenDefines DEF LinkInv
  <2>4. Chosen(n) \in loaded' \ IrFiles
    <3>1. CASE InputDefiners(n) \cap loaded # {}
      BY <1>1, <1>11, <3>1, ChosenDefines DEF PrevailsInIr, LinkInv
    <3>2. CASE InputDefiners(n) \cap loaded = {}
      <4>1. Chosen(n) = Lookup(n)[1]
        BY <1>11, <3>2, LookupFirst DEF Chosen, LinkInv
      <4>2. Chosen(n) \in new
        BY <1>1, <1>11, <2>3, <3>2, <4>1
      <4> QED BY <1>6, <1>11, <4>1, <4>2
    <3> QED BY <3>1, <3>2
  <2>5. ASSUME NEW g \in Definers(n) PROVE def'[<<g, n>>] = <<Chosen(n), n>>
    <3>1. <<g, n>> \in Symbols /\ ~Refers(g, n)
      BY Typed DEF LinkInv, Definers
    <3>2. def[<<g, n>>] = <<Chosen(n), n>>
      BY <1>1, <2>2 DEF LinkInv, Selected
    <3> QED BY <1>1, <3>1, <3>2
  <2>6. PICK x : x = Chosen(n)
    OBVIOUS
  <2>7. Definers(n)' = Definers(n) /\ Defines(x, n)' = Defines(x, n) /\ alts' = alts
    BY <1>1, SameNames
  <2>8. x \in Code' /\ Defines(x, n)' /\ \A g \in Definers(n)' : def'[<<g, n>>] = <<x, n>>
    BY <2>3, <2>4, <2>5, <2>6, <2>7 DEF Code
  <2> QED BY <2>1, <2>7, <2>8 DEF Settled
<1>12. ASSUME NEW n \in Names, InputDefiners(n) # {}, Lookup(n) # None, Lookup(n)[1] \in loaded,
              Lookup(n) \in nonIr
       PROVE  FromIr(n)' \/ Settled(n)'
  <2>1. Lookup(n) = <<Chosen(n), n>> /\ Chosen(n) = Lookup(n)[1]
    BY <1>12, LoadedLookup DEF LinkInv
  <2>2. CASE PrevailsInIr(n)
    <3>1. Defines(Out, n) /\ n \in alts
      BY <1>1, <1>2, <1>12, <2>1, <2>2 DEF LinkInv, Generated
    <3>2. Lookup(n)[1] \in IrFiles
      BY <2>1, <2>2 DEF PrevailsInIr
    <3>3. Definers(n) \subseteq IrFiles \cup {Out}
      <4> SUFFICES ASSUME NEW f \in Definers(n), f # Out, f \notin IrFiles PROVE FALSE
        OBVIOUS
      <4>1. f \in InputDefiners(n) /\ f \in Files
        BY Typed DEF LinkInv, InputDefiners
      <4>2. Lookup(n)[1] <= f
        BY <1>12, <4>1, LookupFirst DEF LinkInv
      <4>3. f < Lookup(n)[1]
        BY <3>2, <4>1, FileNumbers
      <4>4. f \in Nat /\ Lookup(n)[1] \in Nat
        BY <3>2, <4>1, FileNumbers
      <4> QED BY <4>2, <4>3, <4>4
    <3> QED BY <1>1, <3>1, <3>2, <3>3, SameNames DEF FromIr
  <2>3. CASE ~PrevailsInIr(n)
    BY <1>1, <1>11, <1>12, <2>3
  <2> QED BY <2>2, <2>3
<1>13. Ready'
  <2> SUFFICES ASSUME NEW n \in Names, ReferredTo(n)', Lookup(n) # None
               PROVE  FromIr(n)' \/ Settled(n)'
    BY <1>1, <1>6, SameNames DEF Ready
  <2>1. InputDefiners(n) # {}
    BY <1>1, NothingNew
  <2>2. CASE n = EntryName \/ \E f \in loaded \ IrFiles : Refers(f, n)
    <3>1. \E f \in loaded \cup {0} : n \in LookedUp(f) /\ n \in Marks(f)
      <4>1. CASE n = EntryName
        BY <4>1 DEF LookedUp, Marks
      <4>2. CASE \E f \in loaded \ IrFiles : Refers(f, n)
        <5>1. PICK f \in loaded \ IrFiles : Refers(f, n)
          BY <4>2
        <5>2. f # 0
          BY <1>2, FileNumbers
        <5> QED BY <5>1, <5>2 DEF LookedUp, Marks
      <4> QED BY <2>2, <4>1, <4>2
    <3>2. Lookup(n) \in nonIr /\ Lookup(n)[1] \in loaded
      BY <1>1, <3>1 DEF LinkInv, FirstRound
    <3> QED BY <1>12, <2>1, <3>2
  <2>3. CASE ~(n = EntryName \/ \E f \in loaded \ IrFiles : Refers(f, n))
    <3>1. PICK f \in Code' : Refers(f, n)
      BY <1>1, <2>3, SameNames DEF ReferredTo
    <3>2. f \in new
      BY <1>1, <2>3, <3>1 DEF Code
    <3>3. ~PrevailsInIr(n)
      <4>1. CASE f = Out
        BY <1>1, <3>1, <4>1 DEF LinkInv, Generated
      <4>2. CASE f \in runtime
        <5>1. InputDefiners(n) \cap IrFiles = {}
          BY <1>5, <2>3, <3>1, <4>2
        <5> QED BY <2>1, <5>1, ChosenDefines DEF PrevailsInIr, LinkInv
      <4> QED BY <1>6, <3>2, <4>1, <4>2
    <3>4. Lookup(n)[1] \in loaded'
      <4>1. f \in C /\ n \in LookedUp(f)
        BY <3>1, <3>2 DEF LookedUp
      <4>2. Lookup(n)[1] \in C
        BY <1>3, <4>1 DEF ClosedFiles
      <4>3. Lookup(n)[1] # 0
        BY <1>2, LookupFacts, FileNumbers
      <4> QED BY <1>6, <4>2, <4>3
    <3> QED BY <1>11, <2>1, <3>3, <3>4
  <2> QED BY <2>2, <2>3
<1> QED BY <1>1, <1>7, <1>8, <1>9, <1>10, <1>13 DEF LinkInv, FirstRound, Selected, Generated,
           NonIrReferencesReported, BoundToCode

LEMMA SecondAlternativesStep ==
  ASSUME LinkInv, SecondAlternatives
  PROVE  LinkInv'
<1>1. /\ pc = "alternatives2" /\ UNCHANGED <<role, next, known, loaded, nonIr, disabled>>
      /\ \/ pc' = "error" /\ UNCHANGED <<def, alts>>
         \/ Alternatives({Out}) /\ pc' = "done"
  BY DEF SecondAlternatives
<1>2. /\ Out \in known /\ disabled /\ Out \in loaded /\ alts = {n \in Names : Defines(Out, n)}
      /\ known \subseteq AllFiles /\ loaded \subseteq known
  BY <1>1 DEF LinkInv, KnownInv, Ready, GeneratedAdded, WorldInv
<1>3. CASE pc' = "error" /\ UNCHANGED <<def, alts>>
  <2>1. WorldInv'
    BY <1>1, <1>3 DEF LinkInv, WorldInv
  <2> QED BY <1>3, <2>1, StopInv
<1>4. CASE Alternatives({Out}) /\ pc' = "done"
  <2>1. /\ alts' = {}
        /\ def' = [s \in Symbols |-> IF s[2] \in alts /\ s[1] \in Compared(s[2], {Out})
                                     THEN <<Select(Compared(s[2], {Out}), s[2]), s[2]>> ELSE def[s]]
    BY <1>4 DEF Alternatives
  <2>2. ASSUME NEW n \in alts
        PROVE  /\ n \in Names /\ Lookup(n) = <<Lookup(n)[1], n>> /\ Lookup(n)[1] \in Definers(n)
               /\ Out \in Definers(n) /\ Compared(n, {Out}) = {Lookup(n)[1], Out}
    <3>1. n \in Names /\ Out \in Definers(n) /\ Defines(Out, n)
      BY <1>2 DEF Definers
    <3>2. Lookup(n) = <<Lookup(n)[1], n>> /\ Lookup(n)[1] \in Definers(n)
      BY <1>2, <3>1, LookupFacts
    <3> QED BY <3>1, <3>2 DEF Compared
  <2>3. ASSUME NEW n \in alts PROVE Select(Compared(n, {Out}), n) \in AllFiles
    <3> DEFINE S == Compared(n, {Out})
    <3>1. S \in SUBSET AllFiles /\ S # {}
      BY <1>2, <2>2, FileNumbers DEF Definers
    <3> HIDE DEF S
    <3>2. StrongOnes(S, n) \in SUBSET AllFiles /\ WeakOnes(S, n) \in SUBSET AllFiles
      BY <3>1 DEF StrongOnes, WeakOnes
    <3>3. \A T \in SUBSET AllFiles : T # {} => Least(T) \in AllFiles
      BY LeastFile
    <3>4. Select(S, n) \in AllFiles
      BY <3>1, <3>2, <3>3 DEF Select
    <3> QED BY <3>4 DEF S
  <2>4. WorldInv'
    <3>1. \A s \in Symbols : s[2] \in alts => <<Select(Compared(s[2], {Out}), s[2]), s[2]>> \in Symbols
      BY <2>2, <2>3 DEF Symbols
    <3>2. def' \in [Symbols -> Symbols \cup {None}]
      BY <2>1, <3>1 DEF LinkInv, WorldInv
    <3> QED BY <1>1, <2>1, <3>2 DEF LinkInv, WorldInv
  <2>5. ASSUME NEW n \in Names, ReferredTo(n), Lookup(n) # None
        PROVE  \E x \in Code : /\ Defines(x, n) /\ def'[Lookup(n)] = <<x, n>>
                               /\ \A g \in Definers(n) \ IrFiles : def'[<<g, n>>] = <<x, n>>
    <3>1. FromIr(n) \/ Settled(n)
      BY <1>1, <2>5 DEF LinkInv, Ready
    <3>2. \A g \in Definers(n) : <<g, n>> \in Symbols
      BY Typed DEF LinkInv
    <3>3. Lookup(n) = <<Lookup(n)[1], n>> /\ Lookup(n)[1] \in Definers(n)
      BY <1>2, <2>5, LookupFacts
    <3>4. CASE FromIr(n)
      <4>1. /\ n \in alts /\ Lookup(n)[1] \in IrFiles /\ Defines(Out, n) /\ Out \in Definers(n)
            /\ Definers(n) \subseteq IrFiles \cup {Out}
        BY <2>2, <3>4 DEF FromIr
      <4>2. Compared(n, {Out}) = {Lookup(n)[1], Out}
        BY <2>2, <4>1
      <4>3. Strength(Lookup(n)[1], n) = "none" /\ Strength(Out, n) \in {"weak", "strong"}
        BY <1>2, <4>1, FileNumbers DEF Strength, Defines
      <4>4. Select({Lookup(n)[1], Out}, n) = Out
        <5> DEFINE S == {Lookup(n)[1], Out}
        <5>1. \/ StrongOnes(S, n) = {Out}
              \/ StrongOnes(S, n) = {} /\ WeakOnes(S, n) = {Out}
          BY <4>3 DEF StrongOnes, WeakOnes
        <5>2. Least({Out}) = Out
          BY DEF Least
        <5> HIDE DEF S
        <5>3. Select(S, n) = Out
          BY <5>1, <5>2 DEF Select
        <5> QED BY <5>3 DEF S
      <4>5. def'[<<Lookup(n)[1], n>>] = <<Out, n>> /\ def'[<<Out, n>>] = <<Out, n>>
        BY <2>1, <3>2, <3>3, <4>1, <4>2, <4>4
      <4>6. Out \in Code
        BY <1>2, FileNumbers DEF Code
      <4> QED BY <3>3, <4>1, <4>5, <4>6
    <3>5. CASE Settled(n)
      <4>1. PICK x \in Code : Defines(x, n) /\ \A g \in Definers(n) : def[<<g, n>>] = <<x, n>>
        BY <3>5 DEF Settled
      <4>2. \A g \in Definers(n) : def'[<<g, n>>] = def[<<g, n>>]
        BY <2>1, <3>2, <3>5 DEF Settled
      <4> QED BY <3>3, <4>1, <4>2
    <3> QED BY <3>1, <3>4, <3>5
  <2>6. ASSUME NEW n \in Names, NEW g \in Code, Refers(g, n) PROVE def'[<<g, n>>] = Lookup(n)
    <3>1. g \in loaded /\ <<g, n>> \in Symbols
      BY <1>2, Typed DEF LinkInv, Code
    <3>2. n \in alts => g \notin Compared(n, {Out})
      BY <2>2, <2>6, Typed DEF LinkInv, Definers
    <3>3. def[<<g, n>>] = Lookup(n)
      BY <1>1, <2>6, <3>1 DEF LinkInv, ReferencesBound
    <3> QED BY <2>1, <3>1, <3>2, <3>3
  <2>7. BoundToCode'
    <3>1. Code' = Code /\ \A n : ReferredTo(n)' = ReferredTo(n)
      BY <1>1, SameNames DEF Code, ReferredTo
    <3>2. /\ \A n : Lookup(n)' = Lookup(n)
          /\ \A f, n : Defines(f, n)' = Defines(f, n) /\ role'[f][n] = role[f][n]
      BY <1>1, SameNames
    <3>3. ASSUME NEW n \in Names, ReferredTo(n), Lookup(n) # None
          PROVE  \E x \in Code : /\ Defines(x, n) /\ Definition(Lookup(n))' = <<x, n>>
                                 /\ \A g \in Code : role[g][n] # "none" => Definition(<<g, n>>)' = <<x, n>>
      <4>1. PICK x \in Code : /\ Defines(x, n) /\ def'[Lookup(n)] = <<x, n>>
                              /\ \A g \in Definers(n) \ IrFiles : def'[<<g, n>>] = <<x, n>>
        BY <2>5, <3>3
      <4>2. \A g \in Code : g \in known /\ g \in AllFiles /\ g \notin IrFiles
        BY <1>2 DEF Code
      <4>3. x \in Definers(n) \ IrFiles
        BY <4>1, <4>2 DEF Definers
      <4>4. def'[<<x, n>>] = <<x, n>> /\ <<x, n>> # None
        BY <4>1, <4>2, <4>3, Typed DEF LinkInv
      <4>5. Definition(Lookup(n))' = <<x, n>>
        BY <3>2, <3>3, <4>1, <4>4 DEF Definition
      <4>6. ASSUME NEW g \in Code, role[g][n] # "none" PROVE Definition(<<g, n>>)' = <<x, n>>
        <5>1. <<g, n>> # None
          BY <4>2, Typed DEF LinkInv
        <5>2. Refers(g, n) \/ Defines(g, n)
          BY <4>2, <4>6 DEF Refers, Defines, LinkInv, WorldInv, Roles
        <5>3. CASE Refers(g, n)
          <6>1. def'[<<g, n>>] = Lookup(n)
            BY <2>6, <5>3
          <6> QED BY <3>3, <4>1, <5>1, <6>1 DEF Definition
        <5>4. CASE Defines(g, n)
          <6>1. g \in Definers(n) \ IrFiles
            BY <4>2, <5>4 DEF Definers
          <6>2. def'[<<g, n>>] = <<x, n>>
            BY <4>1, <6>1
          <6> QED BY <4>4, <5>1, <6>2 DEF Definition
        <5> QED BY <5>2, <5>3, <5>4
      <4> QED BY <4>1, <4>5, <4>6
    <3>4. ASSUME NEW n \in Names, ReferredTo(n)', Lookup(n)' # None
          PROVE  /\ Definition(Lookup(n))'[1] \in Code' /\ Defines(Definition(Lookup(n))[1], n)'
                 /\ \A g \in Code' : role'[g][n] # "none" => Definition(<<g, n>>)' = Definition(Lookup(n))'
      <4>1. ReferredTo(n) /\ Lookup(n) # None
        BY <3>1, <3>2, <3>4
      <4>2. PICK x \in Code : /\ Defines(x, n) /\ Definition(Lookup(n))' = <<x, n>>
                              /\ \A g \in Code : role[g][n] # "none" => Definition(<<g, n>>)' = <<x, n>>
        BY <3>3, <4>1
      <4>3. Definition(Lookup(n))'[1] = x /\ Defines(x, n)'
        BY <3>2, <4>2
      <4> QED BY <3>1, <3>2, <4>2, <4>3
    <3> QED BY <3>4, Zenon DEF BoundToCode
  <2>8. KnownInv'
    BY <1>4 DEF KnownInv
  <2> QED BY <1>4, <2>4, <2>7, <2>8 DEF LinkInv, FirstRound, ReferencesBound, Selected, Generated,
             GeneratedAdded, Ready, NonIrReferencesReported
<1> QED BY <1>1, <1>3, <1>4

---------------------------------------------------------------------------
(* The theorems.                                                           *)

LEMMA LinkStutter ==
  ASSUME LinkInv, Ended \/ UNCHANGED vars
  PROVE  LinkInv'
<1>1. UNCHANGED vars
  BY DEF Ended
<1>2. UNCHANGED <<pc, role, next, known, rejected, loaded, def, alts, nonIr, reported, disabled>>
  BY <1>1 DEF vars
<1>3. /\ \A f, n : Defines(f, n)' = Defines(f, n) /\ Refers(f, n)' = Refers(f, n)
      /\ \A n : Definers(n)' = Definers(n) /\ InputDefiners(n)' = InputDefiners(n)
      /\ \A n : Lookup(n)' = Lookup(n)
      /\ \A f : LookedUp(f)' = LookedUp(f) /\ Marks(f)' = Marks(f)
      /\ \A n : Chosen(n)' = Chosen(n) /\ PrevailsInIr(n)' = PrevailsInIr(n)
  BY <1>2, SameNames, SameChosen
<1>4. Code' = Code /\ (\A n : ReferredTo(n)' = ReferredTo(n)) /\ \A s : Definition(s)' = Definition(s)
  BY <1>2, <1>3 DEF Code, ReferredTo, Definition
<1>5. WorldInv' /\ KnownInv'
  BY <1>2 DEF LinkInv, WorldInv, KnownInv
<1>6. FirstRound' /\ ReferencesBound' /\ Selected' /\ Generated' /\ GeneratedAdded'
  BY <1>2, <1>3 DEF LinkInv, FirstRound, ReferencesBound, Selected, Generated, GeneratedAdded
<1>7. Ready'
  <2>1. \A n : FromIr(n)' = FromIr(n)
    BY <1>2, <1>3 DEF FromIr
  <2>2. \A n : Settled(n)' = Settled(n)
    BY <1>2, <1>3, <1>4 DEF Settled
  <2> QED BY <1>2, <1>3, <1>4, <2>1, <2>2 DEF LinkInv, Ready
<1>8. NonIrReferencesReported'
  <2>1. IrDefinitions' = IrDefinitions
    BY <1>2, <1>3 DEF IrDefinitions, DefinedSymbols
  <2> QED BY <1>2, <2>1 DEF LinkInv, NonIrReferencesReported
<1>9. BoundToCode'
  <2>1. BoundToCode
    BY DEF LinkInv
  <2>2. \A n : Definition(Lookup(n))' = Definition(Lookup(n))
    BY <1>3, <1>4
  <2>3. \A f, n : Definition(<<f, n>>)' = Definition(<<f, n>>)
    BY <1>4
  <2>4. \A n : Defines(Definition(Lookup(n))[1], n)' = Defines(Definition(Lookup(n))[1], n)
    BY <1>2, <2>2 DEF Defines
  <2> QED BY <1>2, <1>3, <1>4, <2>1, <2>2, <2>3, <2>4 DEF BoundToCode
<1> QED BY <1>5, <1>6, <1>7, <1>8, <1>9 DEF LinkInv

\* The steps up to the second round need to know nothing of the runtime.
LEMMA EarlyStep ==
  ASSUME StrengthsAgree, LinkInv, [Next]_vars, ~SecondResolve
  PROVE  LinkInv'
  BY ClaimStep, FirstInputsStep, FirstResolveStep, FirstAlternativesStep, CodegenStep,
     SecondInputsStep, SecondAlternativesStep, LinkStutter DEF Next

\* LinkInv is inductive.
THEOREM LtoLinkInvariant ==
  ASSUME StrengthsAgree, RuntimeApart
  PROVE  Spec => []LinkInv
<1>1. Init => LinkInv
  BY InitInv
<1>2. LinkInv /\ [Next]_vars => LinkInv'
  BY EarlyStep, SecondResolveStep
<1> QED BY <1>1, <1>2, PTL DEF Spec

\* What the objects and the entry point refer to is bound to code in the end,
\* whichever of the definitions it may drop the plugin drops.
THEOREM LtoBoundToCode ==
  ASSUME StrengthsAgree, RuntimeApart
  PROVE  Spec => []BoundToCode
<1>1. LinkInv => BoundToCode
  BY DEF LinkInv
<1> QED BY <1>1, LtoLinkInvariant, PTL

\* The plugin is told of every prevailing definition that something other than IR
\* refers to.
THEOREM LtoNonIrReferencesReported ==
  ASSUME StrengthsAgree
  PROVE  Spec => []NonIrReferencesReported
<1> DEFINE Before == pc \in {"claim", "resolve1", "alternatives1", "codegen", "inputs2", "resolve2"}
           Inv == Before => LinkInv
<1>1. Init => Inv
  BY InitInv
<1>2. Inv /\ [Next]_vars => Inv'
  <2> SUFFICES ASSUME Inv, [Next]_vars, Before' PROVE LinkInv'
    OBVIOUS
  <2>1. Before /\ ~SecondResolve
    BY DEF Next, ExtractRegular, LoadPlugin, ClaimFile, FirstInputs, FirstResolve, FirstAlternatives, Codegen,
           SecondInputs, SecondResolve, SecondAlternatives, Ended, vars
  <2> QED BY <2>1, EarlyStep
<1>3. Inv => NonIrReferencesReported
  BY DEF LinkInv, NonIrReferencesReported
<1> QED BY <1>1, <1>2, <1>3, PTL DEF Spec

==========================================================================
