----------------------- MODULE DynamicSymbols_proofs -----------------------
(***************************************************************************)
(* What layout reserves for the dynamic symbols is what the writers fill,  *)
(* for every link and every size of the chunks.                            *)
(*                                                                         *)
(* Both sides are sums.  Layout adds up numbers over the set of the files  *)
(* of a group, the writer appends one sequence per file: the first part    *)
(* has the facts about sums over sets and about flattened sequences, the   *)
(* second compares the two for each table.                                 *)
(***************************************************************************)
EXTENDS DynamicSymbols, FiniteSetTheorems, NaturalsInduction, WellFoundedInduction, TLAPS

---------------------------------------------------------------------------
LEMMA LeastNumber ==
  ASSUME NEW S \in SUBSET Nat, S # {}
  PROVE  \E x \in S : \A y \in S : x <= y
<1> DEFINE Lt == {ss \in Nat \X Nat : ss[1] < ss[2]}
<1>1. IsWellFoundedOn(Lt, Nat) BY NatLessThanWellFounded DEF OpToRel
<1>2. \E x \in S : \A y \in S : <<y, x>> \notin Lt
  <2> HIDE DEF Lt
  <2> QED BY <1>1, WFMin
<1>3. PICK x \in S : \A y \in S : <<y, x>> \notin Lt BY <1>2
<1>4. ASSUME NEW y \in S PROVE x <= y
  <2>1. x \in Nat /\ y \in Nat OBVIOUS
  <2>2. ~(y < x) BY <1>3, <2>1
  <2> QED BY <2>1, <2>2
<1> QED BY <1>4

(* A set of numbers that holds zero and the successor of each of its       *)
(* elements below m holds all of them.                                     *)
LEMMA UpTo ==
  ASSUME NEW m \in Nat, NEW S, 0 \in S, \A n \in 0 .. m : n \in S /\ n < m => n + 1 \in S
  PROVE  \A n \in 0 .. m : n \in S
<1> SUFFICES ASSUME NEW k \in 0 .. m, k \notin S PROVE FALSE OBVIOUS
<1> DEFINE Bad == {n \in Nat : n <= m /\ n \notin S}
<1>1. Bad \in SUBSET Nat /\ Bad # {}
  <2>1. k \in Bad OBVIOUS
  <2> QED BY <2>1
<1>2. PICK n \in Bad : \A j \in Bad : n <= j
  <2> HIDE DEF Bad
  <2> QED BY <1>1, LeastNumber
<1>3. n \in Nat /\ n <= m /\ n \notin S /\ n # 0 BY <1>2
<1>4. n - 1 \in Nat /\ n - 1 <= m /\ n - 1 < m /\ ~(n <= n - 1) BY <1>3
<1>5. n - 1 \notin Bad
  <2> HIDE DEF Bad
  <2> QED BY <1>2, <1>4
<1>6. n - 1 \in S BY <1>4, <1>5
<1>7. (n - 1) + 1 \in S BY <1>4, <1>6
<1> QED BY <1>3, <1>7

(* A recursive function on the numbers up to m exists.  The rule is given  *)
(* as a function of the value before and the number.                       *)
Follows(f, m, first, rule) ==
  f[0] = first /\ \A n \in 1 .. m : f[n] = rule[<<f[n - 1], n>>]

LEMMA RecursionExists ==
  ASSUME NEW m \in Nat, NEW T, NEW first \in T, NEW rule \in [T \X (1 .. m) -> T]
  PROVE  \E f \in [0 .. m -> T] : Follows(f, m, first, rule)
<1> DEFINE Partial(k) == \E f \in [0 .. k -> T] :
                           f[0] = first /\ \A n \in 1 .. k : f[n] = rule[<<f[n - 1], n>>]
           S == {k \in 0 .. m : Partial(k)}
<1>1. Partial(0)
  <2> DEFINE f == [n \in 0 .. 0 |-> first]
  <2>1. f \in [0 .. 0 -> T] /\ f[0] = first /\ \A n \in 1 .. 0 : f[n] = rule[<<f[n - 1], n>>]
    OBVIOUS
  <2> QED BY <2>1
<1>2. ASSUME NEW k \in 0 .. m, k < m, Partial(k) PROVE Partial(k + 1)
  <2>1. PICK f \in [0 .. k -> T] :
          f[0] = first /\ \A n \in 1 .. k : f[n] = rule[<<f[n - 1], n>>]
    BY <1>2
  <2>2. f[k] \in T /\ k + 1 \in 1 .. m BY <1>2
  <2> DEFINE v == rule[<<f[k], k + 1>>]
             h == [n \in 0 .. k + 1 |-> IF n = k + 1 THEN v ELSE f[n]]
  <2>3. v \in T BY <2>2
  <2>4. h \in [0 .. k + 1 -> T]
    <3> HIDE DEF v
    <3> QED BY <2>3
  <2>5. h[0] = first BY <2>1
  <2>6. ASSUME NEW n \in 1 .. k + 1 PROVE h[n] = rule[<<h[n - 1], n>>]
    <3>1. CASE n = k + 1
      <4>1. n - 1 = k /\ k \in 0 .. k + 1 /\ k # k + 1 /\ n \in 0 .. k + 1 BY <3>1
      <4>2. h[n - 1] = f[k] /\ h[n] = v BY <3>1, <4>1
      <4> QED BY <3>1, <4>2
    <3>2. CASE n # k + 1
      <4>1. n \in 1 .. k /\ n \in 0 .. k + 1 /\ n - 1 \in 0 .. k + 1 /\ n - 1 # k + 1 BY <3>2
      <4>2. h[n] = f[n] /\ h[n - 1] = f[n - 1] BY <3>2, <4>1
      <4> QED BY <2>1, <4>1, <4>2
    <3> QED BY <3>1, <3>2
  <2> HIDE DEF h
  <2> QED BY <2>4, <2>5, <2>6
<1> HIDE DEF Partial
<1>3. 0 \in S BY <1>1
<1>4. \A k \in 0 .. m : k \in S /\ k < m => k + 1 \in S BY <1>2
<1>5. m \in 0 .. m OBVIOUS
<1>6. m \in S
  <2> HIDE DEF S
  <2> QED BY <1>3, <1>4, <1>5, UpTo
<1>7. Partial(m) BY <1>6
<1> QED BY <1>7 DEF Partial, Follows
---------------------------------------------------------------------------
(* Sums over finite sets: a function with the sum of each subset.          *)
Picked(s) == CHOOSE x \in s : TRUE
SumRule(F, w, s) == IF s = {} THEN 0 ELSE w[Picked(s)] + F[s \ {Picked(s)}]
Sums(F, S, w) == F = [s \in SUBSET S |-> SumRule(F, w, s)]

LEMMA PickedFacts ==
  ASSUME NEW S, IsFiniteSet(S), NEW s \in SUBSET S, s # {}
  PROVE  /\ Picked(s) \in s
         /\ \A x \in s : /\ s \ {x} \in SUBSET S
                         /\ Cardinality(s \ {x}) = Cardinality(s) - 1
         /\ Cardinality(s) \in Nat \ {0}
<1>1. IsFiniteSet(s) BY FS_Subset
<1>2. \A x \in s : Cardinality(s \ {x}) = Cardinality(s) - 1 BY <1>1, FS_RemoveElement
<1>3. Cardinality(s) \in Nat /\ Cardinality(s) # 0 BY <1>1, FS_CardinalityType, FS_EmptySet
<1> QED BY <1>2, <1>3 DEF Picked

LEMMA SumsExist ==
  ASSUME NEW S, IsFiniteSet(S), NEW w \in [S -> Nat]
  PROVE  \E F : Sums(F, S, w)
<1> DEFINE m == Cardinality(S)
           Partial(n) == \E F \in [SUBSET S -> Nat] :
                            \A s \in SUBSET S : Cardinality(s) <= n => F[s] = SumRule(F, w, s)
           P == {n \in 0 .. m : Partial(n)}
<1>1. m \in Nat BY FS_CardinalityType
<1>2. 0 \in P
  <2> DEFINE F == [s \in SUBSET S |-> 0]
  <2>1. F \in [SUBSET S -> Nat] OBVIOUS
  <2>2. ASSUME NEW s \in SUBSET S, Cardinality(s) <= 0 PROVE F[s] = SumRule(F, w, s)
    <3>1. s = {} BY <2>2, PickedFacts
    <3> QED BY <3>1 DEF SumRule
  <2>3. Partial(0)
    <3> HIDE DEF F
    <3> QED BY <2>1, <2>2
  <2> QED BY <1>1, <2>3
<1>3. ASSUME NEW n \in 0 .. m, n \in P, n < m PROVE n + 1 \in P
  <2>1. PICK F \in [SUBSET S -> Nat] :
          \A s \in SUBSET S : Cardinality(s) <= n => F[s] = SumRule(F, w, s)
    BY <1>3
  <2> DEFINE G == [s \in SUBSET S |-> SumRule(F, w, s)]
  <2>2. G \in [SUBSET S -> Nat]
    <3> SUFFICES ASSUME NEW s \in SUBSET S PROVE SumRule(F, w, s) \in Nat OBVIOUS
    <3>1. CASE s = {} BY <3>1 DEF SumRule
    <3>2. CASE s # {}
      <4>1. Picked(s) \in S /\ s \ {Picked(s)} \in SUBSET S BY <3>2, PickedFacts
      <4>2. w[Picked(s)] \in Nat /\ F[s \ {Picked(s)}] \in Nat BY <4>1
      <4> QED BY <3>2, <4>2 DEF SumRule
    <3> QED BY <3>1, <3>2
  <2>3. ASSUME NEW s \in SUBSET S, Cardinality(s) <= n + 1 PROVE G[s] = SumRule(G, w, s)
    <3>1. CASE s = {} BY <3>1 DEF SumRule
    <3>2. CASE s # {}
      <4> DEFINE r == s \ {Picked(s)}
      <4>1. r \in SUBSET S /\ Cardinality(r) = Cardinality(s) - 1 /\ Cardinality(s) \in Nat
        BY <3>2, PickedFacts
      <4>2. Cardinality(r) <= n BY <2>3, <4>1
      <4>3. F[r] = SumRule(F, w, r) BY <2>1, <4>1, <4>2
      <4>4. G[r] = F[r] BY <4>1, <4>3
      <4> QED BY <3>2, <4>4 DEF SumRule
    <3> QED BY <3>1, <3>2
  <2>4. Partial(n + 1)
    <3> HIDE DEF G
    <3> QED BY <2>2, <2>3
  <2> QED BY <1>1, <1>3, <2>4
<1>4. m \in P
  <2> HIDE DEF P, m
  <2>1. m \in 0 .. m BY <1>1
  <2> QED BY <1>1, <1>2, <1>3, <2>1, UpTo
<1>5. PICK F \in [SUBSET S -> Nat] :
        \A s \in SUBSET S : Cardinality(s) <= m => F[s] = SumRule(F, w, s)
  BY <1>4
<1>6. \A s \in SUBSET S : F[s] = SumRule(F, w, s) BY <1>5, FS_Subset
<1>7. F = [s \in SUBSET S |-> SumRule(F, w, s)] BY <1>5, <1>6
<1> QED BY <1>7 DEF Sums

(* The sum does not depend on the order in which elements are taken.       *)
Splits(F, w, s) == \A x \in s : F[s] = w[x] + F[s \ {x}]

LEMMA SumsFacts ==
  ASSUME NEW S, IsFiniteSet(S), NEW w \in [S -> Nat], NEW F, Sums(F, S, w)
  PROVE  /\ F \in [SUBSET S -> Nat]
         /\ F[{}] = 0
         /\ \A s \in SUBSET S : Splits(F, w, s)
<1> DEFINE m == Cardinality(S)
           Good(s) == F[s] \in Nat /\ \A x \in s : F[s] = w[x] + F[s \ {x}]
           P == {n \in 0 .. m : \A s \in SUBSET S : Cardinality(s) <= n => Good(s)}
<1>1. m \in Nat BY FS_CardinalityType
<1>2. \A s \in SUBSET S : F[s] = SumRule(F, w, s) BY Zenon DEF Sums
<1>3. F[{}] = 0 BY <1>2 DEF SumRule
<1>4. 0 \in P
  <2>1. \A s \in SUBSET S : Cardinality(s) <= 0 => s = {} BY PickedFacts
  <2> QED BY <1>1, <1>3, <2>1
<1>5. ASSUME NEW n \in 0 .. m, n \in P, n < m PROVE n + 1 \in P
  <2>1. ASSUME NEW s \in SUBSET S, Cardinality(s) <= n + 1, s # {} PROVE Good(s)
    <3> DEFINE p == Picked(s)
    <3>1. p \in s /\ p \in S BY <2>1, PickedFacts
    <3>2. F[s] = w[p] + F[s \ {p}] BY <1>2, <2>1 DEF SumRule
    <3>3. \A x \in s : s \ {x} \in SUBSET S /\ Cardinality(s \ {x}) <= n BY <2>1, PickedFacts
    <3>4. \A x \in s : Good(s \ {x}) BY <1>5, <3>3
    <3>5. \A x \in S : w[x] \in Nat OBVIOUS
    <3>6. F[s] \in Nat BY <3>1, <3>2, <3>4, <3>5
    <3>7. ASSUME NEW x \in s PROVE F[s] = w[x] + F[s \ {x}]
      <4>1. CASE x = p BY <3>2, <4>1
      <4>2. CASE x # p
        <5>1. x \in s \ {p} /\ p \in s \ {x} BY <3>1, <4>2
        <5>2. (s \ {p}) \ {x} = (s \ {x}) \ {p} OBVIOUS
        <5>3. F[s \ {p}] = w[x] + F[(s \ {p}) \ {x}] BY <3>1, <3>4, <5>1
        <5>4. F[s \ {x}] = w[p] + F[(s \ {x}) \ {p}] BY <3>4, <5>1
        <5>5. F[(s \ {x}) \ {p}] \in Nat
          <6>1. F[s \ {x}] \in Nat /\ w[p] \in Nat BY <3>1, <3>4, <3>5
          <6>2. PICK t \in SUBSET S : t = s \ {x} /\ p \in t BY <3>3, <5>1
          <6>3. t \ {p} \in SUBSET S /\ Cardinality(t \ {p}) = Cardinality(t) - 1
                  /\ Cardinality(t) \in Nat
            <7> HIDE DEF p
            <7>1. t # {} BY <6>2
            <7>2. \A y \in t : t \ {y} \in SUBSET S /\ Cardinality(t \ {y}) = Cardinality(t) - 1
              BY <7>1, PickedFacts
            <7>3. Cardinality(t) \in Nat BY <7>1, PickedFacts
            <7> QED BY <6>2, <7>2, <7>3
          <6>4. Cardinality(t) <= n BY <3>3, <6>2
          <6>5. Cardinality(t \ {p}) <= n BY <6>3, <6>4
          <6>6. F[t \ {p}] \in Nat BY <1>5, <6>3, <6>5
          <6> QED BY <6>2, <6>6
        <5>6. w[x] \in Nat /\ w[p] \in Nat BY <3>1, <3>5
        <5>7. F[s \ {p}] = w[x] + F[(s \ {x}) \ {p}]
          <6> HIDE DEF p
          <6> QED BY <5>2, <5>3
        <5> QED BY <3>2, <5>4, <5>5, <5>6, <5>7
      <4> QED BY <4>1, <4>2
    <3> QED BY <3>6, <3>7
  <2>2. Good({}) BY <1>3
  <2>3. \A s \in SUBSET S : Cardinality(s) <= n + 1 => Good(s)
    <3> HIDE DEF Good
    <3> QED BY <2>1, <2>2
  <2>4. n + 1 \in 0 .. m
    <3> HIDE DEF m
    <3> QED BY <1>1, <1>5
  <2> HIDE DEF Good, m
  <2> QED BY <2>3, <2>4
<1>6. m \in P
  <2> HIDE DEF P, m
  <2>1. m \in 0 .. m BY <1>1
  <2> QED BY <1>1, <1>4, <1>5, <2>1, UpTo
<1>7. \A s \in SUBSET S : Good(s) BY <1>6, FS_Subset
<1>8. F = [s \in SUBSET S |-> F[s]] BY <1>2 DEF Sums
<1>9. F \in [SUBSET S -> Nat]
  <2>1. \A s \in SUBSET S : F[s] \in Nat BY <1>7
  <2> QED BY <1>8, <2>1
<1>10. \A s \in SUBSET S : Splits(F, w, s) BY <1>7, Zenon DEF Splits
<1> QED BY <1>3, <1>9, <1>10

---------------------------------------------------------------------------
(* Sequences.                                                              *)
LEMMA RankExists ==
  ASSUME NEW n \in Nat, NEW S \in SUBSET (1 .. n)
  PROVE  \A k \in 1 .. Cardinality(S) : \E x \in S : Cardinality({y \in S : y < x}) = k - 1
<1> DEFINE Ranked(A) == \A k \in 1 .. Cardinality(A) :
                           \E x \in A : Cardinality({y \in A : y < x}) = k - 1
           P == {t \in 0 .. n : \A A \in SUBSET (1 .. t) : Ranked(A)}
<1>1. 0 \in P
  <2>1. \A A \in SUBSET (1 .. 0) : A = {} OBVIOUS
  <2>2. Ranked({}) BY FS_EmptySet
  <2>3. \A A \in SUBSET (1 .. 0) : Ranked(A)
    <3> HIDE DEF Ranked
    <3> QED BY <2>1, <2>2
  <2> QED BY <2>3
<1>2. ASSUME NEW t \in 0 .. n, t \in P, t < n PROVE t + 1 \in P
  <2>1. ASSUME NEW A \in SUBSET (1 .. t + 1) PROVE Ranked(A)
    <3>1. CASE t + 1 \notin A
      <4>1. A \in SUBSET (1 .. t) BY <3>1
      <4> QED BY <1>2, <4>1
    <3>2. CASE t + 1 \in A
      <4> DEFINE B == A \ {t + 1}
      <4>1. B \in SUBSET (1 .. t) OBVIOUS
      <4>2. Ranked(B) BY <1>2, <4>1
      <4>3. IsFiniteSet(A)
        <5>1. IsFiniteSet(1 .. t + 1) BY FS_Interval
        <5> QED BY <5>1, FS_Subset
      <4>4. Cardinality(B) = Cardinality(A) - 1 /\ Cardinality(A) \in Nat
        BY <3>2, <4>3, FS_RemoveElement, FS_CardinalityType
      <4>5. ASSUME NEW k \in 1 .. Cardinality(A)
            PROVE  \E x \in A : Cardinality({y \in A : y < x}) = k - 1
        <5>1. CASE k = Cardinality(A)
          <6>1. \A y \in A : y < t + 1 <=> y # t + 1 OBVIOUS
          <6>2. {y \in A : y < t + 1} = B BY <6>1
          <6> QED BY <3>2, <4>4, <5>1, <6>2
        <5>2. CASE k # Cardinality(A)
          <6>1. k \in 1 .. Cardinality(B)
            <7> HIDE DEF B
            <7> QED BY <4>4, <5>2
          <6>2. PICK x \in B : Cardinality({y \in B : y < x}) = k - 1 BY <4>2, <6>1
          <6>3. x \in A /\ {y \in B : y < x} = {y \in A : y < x} OBVIOUS
          <6> QED BY <6>2, <6>3
        <5> QED BY <5>1, <5>2
      <4> QED BY <4>5
    <3> QED BY <3>1, <3>2
  <2> HIDE DEF Ranked
  <2> QED BY <1>2, <2>1
<1>3. n \in P
  <2> HIDE DEF P
  <2>1. n \in 0 .. n OBVIOUS
  <2> QED BY <1>1, <1>2, <2>1, UpTo
<1>4. Ranked(S) BY <1>3
<1> QED BY <1>4

LEMMA AscendingFacts ==
  ASSUME NEW n \in Nat, NEW S \in SUBSET (1 .. n)
  PROVE  /\ Ascending(S) \in Seq(S)
         /\ Len(Ascending(S)) = Cardinality(S)
         /\ Cardinality(S) \in 0 .. n
<1>1. IsFiniteSet(1 .. n) /\ Cardinality(1 .. n) = n BY FS_Interval
<1>2. Cardinality(S) \in 0 .. n
  <2>1. Cardinality(S) <= n BY <1>1, FS_Subset
  <2>2. Cardinality(S) \in Nat BY <1>1, FS_Subset, FS_CardinalityType
  <2> QED BY <2>1, <2>2
<1>3. \A k \in 1 .. Cardinality(S) :
        (CHOOSE x \in S : Cardinality({y \in S : y < x}) = k - 1) \in S
  BY RankExists
<1>4. Ascending(S) \in [1 .. Cardinality(S) -> S] BY <1>3 DEF Ascending
<1> QED BY <1>2, <1>4

(* A flattened sequence is built from the left.                            *)
Flattens(f, q) ==
  f[0] = << >> /\ \A n \in 1 .. Len(q) : f[n] = f[n - 1] \o q[n]

LEMMA FlattenFacts ==
  ASSUME NEW T, NEW q \in Seq(Seq(T))
  PROVE  \E f \in [0 .. Len(q) -> Seq(T)] : Flattens(f, q) /\ FlattenSeq(q) = f[Len(q)]
<1> DEFINE m == Len(q)
           rule == [x \in Seq(T) \X (1 .. m) |-> x[1] \o q[x[2]]]
           Body(h) == [i \in 1 .. m |-> IF i = 1 THEN q[i] ELSE h[i - 1] \o q[i]]
           F == CHOOSE h : h = Body(h)
<1>1. m \in Nat /\ \A i \in 1 .. m : q[i] \in Seq(T) OBVIOUS
<1>2. rule \in [Seq(T) \X (1 .. m) -> Seq(T)] BY <1>1
<1>3. PICK f \in [0 .. m -> Seq(T)] : Follows(f, m, << >>, rule)
  <2> HIDE DEF rule, m
  <2>1. << >> \in Seq(T) OBVIOUS
  <2> QED BY <1>1, <1>2, <2>1, RecursionExists
<1>4. f[0] = << >> /\ \A n \in 1 .. m : f[n] = f[n - 1] \o q[n]
  <2>1. f[0] = << >> BY <1>3 DEF Follows
  <2>2. ASSUME NEW n \in 1 .. m PROVE f[n] = f[n - 1] \o q[n]
    <3>1. n - 1 \in 0 .. m
      <4> HIDE DEF m
      <4> QED BY <1>1
    <3>2. f[n - 1] \in Seq(T) BY <1>3, <3>1
    <3>3. rule[<<f[n - 1], n>>] = f[n - 1] \o q[n] BY <3>2
    <3> QED BY <1>3, <3>3 DEF Follows
  <2> QED BY <2>1, <2>2
<1>5. CASE m = 0
  <2>1. q = << >> BY <1>5
  <2>2. FlattenSeq(q) = << >> BY <1>5, <2>1 DEF FlattenSeq
  <2> QED BY <1>3, <1>4, <1>5, <2>2 DEF Flattens
<1>6. CASE m # 0
  <2> DEFINE g == [i \in 1 .. m |-> f[i]]
  <2>1. g = Body(g)
    <3>1. ASSUME NEW i \in 1 .. m PROVE f[i] = IF i = 1 THEN q[i] ELSE g[i - 1] \o q[i]
      <4>1. CASE i = 1
        <5>1. q[1] \in Seq(T) BY <1>1, <4>1
        <5>2. f[1] = << >> \o q[1]
          <6> HIDE DEF m
          <6>1. 1 \in 1 .. m /\ 1 - 1 = 0 BY <4>1
          <6> QED BY <1>4, <6>1
        <5> QED BY <4>1, <5>1, <5>2
      <4>2. CASE i # 1
        <5>1. i - 1 \in 1 .. m
          <6> HIDE DEF m
          <6> QED BY <1>1, <4>2
        <5>2. g[i - 1] = f[i - 1] BY <5>1
        <5> QED BY <1>4, <4>2, <5>2
      <4> QED BY <4>1, <4>2
    <3> QED BY <3>1
  <2>2. F = Body(F) BY <2>1
  <2>3. FlattenSeq(q) = F[m] BY <1>6, Zenon DEF FlattenSeq
  <2> DEFINE h == [i \in 0 .. m |-> IF i = 0 THEN << >> ELSE F[i]]
  <2>4. \A i \in 1 .. m : F[i] = f[i]
    <3> DEFINE P == {i \in 0 .. m : i = 0 \/ F[i] = f[i]}
    <3>1. 0 \in P BY <1>1
    <3>2. ASSUME NEW i \in 0 .. m, i \in P, i < m PROVE i + 1 \in P
      <4>1. i + 1 \in 1 .. m /\ (i + 1) - 1 = i /\ i + 1 \in 0 .. m
        <5> HIDE DEF m, P
        <5> QED BY <1>1, <3>2
      <4>2. F[i + 1] = IF i + 1 = 1 THEN q[i + 1] ELSE F[(i + 1) - 1] \o q[i + 1]
        <5> HIDE DEF F
        <5> QED BY <2>2, <4>1
      <4>3. f[i + 1] = f[i] \o q[i + 1] BY <1>4, <4>1
      <4>4. F[i + 1] = f[i + 1]
        <5>1. CASE i = 0
          <6>1. q[i + 1] \in Seq(T) BY <1>1, <4>1
          <6>2. F[i + 1] = q[i + 1]
            <7> HIDE DEF F
            <7> QED BY <4>2, <5>1
          <6>3. f[i + 1] = << >> \o q[i + 1] BY <1>4, <4>3, <5>1
          <6> QED BY <6>1, <6>2, <6>3
        <5>2. CASE i # 0
          <6>1. F[i] = f[i] BY <3>2, <5>2
          <6>2. i + 1 # 1
            <7> HIDE DEF m, P
            <7> QED BY <1>1, <5>2
          <6> HIDE DEF F
          <6> QED BY <4>1, <4>2, <4>3, <6>1, <6>2
        <5> QED BY <5>1, <5>2
      <4> HIDE DEF F, m
      <4> QED BY <4>1, <4>4
    <3>3. \A i \in 0 .. m : i \in P
      <4> HIDE DEF P, m
      <4> QED BY <1>1, <3>1, <3>2, UpTo
    <3>4. \A i \in 1 .. m : i # 0 /\ i \in 0 .. m
      <4> HIDE DEF m, P
      <4> QED BY <1>1
    <3> HIDE DEF F, m
    <3> QED BY <3>3, <3>4
  <2>5. m \in 1 .. m
    <3> HIDE DEF m
    <3> QED BY <1>1, <1>6
  <2>6. FlattenSeq(q) = f[m] BY <2>3, <2>4, <2>5
  <2> QED BY <1>3, <1>4, <2>6 DEF Flattens
<1> QED BY <1>5, <1>6

LEMMA FlattenType ==
  ASSUME NEW T, NEW q \in Seq(Seq(T))
  PROVE  FlattenSeq(q) \in Seq(T)
<1>1. Len(q) \in 0 .. Len(q) OBVIOUS
<1> QED BY <1>1, FlattenFacts

(* The sum over the first elements of a sequence without repetitions.      *)
Initial(x, n) == {x[i] : i \in 1 .. n}

LEMMA InitialSum ==
  ASSUME NEW X, NEW x \in Seq(X), IsInjective(x), NEW w \in [ToSet(x) -> Nat],
         NEW F, Sums(F, ToSet(x), w)
  PROVE  /\ F[Initial(x, 0)] = 0
         /\ \A n \in 1 .. Len(x) : F[Initial(x, n)] = w[x[n]] + F[Initial(x, n - 1)]
         /\ \A n \in 0 .. Len(x) : F[Initial(x, n)] \in Nat
         /\ Initial(x, Len(x)) = ToSet(x)
<1> DEFINE m == Len(x)
           S == ToSet(x)
<1>1. m \in Nat /\ DOMAIN x = 1 .. m /\ \A n \in 1 .. m : x[n] \in X OBVIOUS
<1>2. Initial(x, m) = S BY DEF Initial, ToSet
<1>3. IsFiniteSet(S)
  <2> DEFINE P == {n \in 0 .. m : IsFiniteSet(Initial(x, n))}
  <2>1. Initial(x, 0) = {} BY DEF Initial
  <2>2. 0 \in P
    <3>1. IsFiniteSet(Initial(x, 0)) BY <2>1, FS_EmptySet
    <3> QED BY <1>1, <3>1
  <2>3. ASSUME NEW n \in 0 .. m, n \in P, n < m PROVE n + 1 \in P
    <3>1. \A i : i \in 1 .. n + 1 <=> i \in 1 .. n \/ i = n + 1
      <4> HIDE DEF P, m
      <4> QED BY <1>1
    <3>2. Initial(x, n + 1) = Initial(x, n) \cup {x[n + 1]} BY <3>1 DEF Initial
    <3>3. IsFiniteSet(Initial(x, n + 1)) BY <2>3, <3>2, FS_AddElement
    <3>4. n + 1 \in 0 .. m
      <4> HIDE DEF P, m
      <4> QED BY <1>1, <2>3
    <3> QED BY <3>3, <3>4
  <2>4. m \in P
    <3> HIDE DEF P, m
    <3>1. m \in 0 .. m BY <1>1
    <3> QED BY <1>1, <2>2, <2>3, <3>1, UpTo
  <2> QED BY <1>2, <2>4
<1>4. /\ F \in [SUBSET S -> Nat] /\ F[{}] = 0
      /\ \A s \in SUBSET S : Splits(F, w, s)
  <2>1. w \in [S -> Nat] /\ Sums(F, S, w) OBVIOUS
  <2> HIDE DEF S
  <2>2. F \in [SUBSET S -> Nat] BY <1>3, <2>1, SumsFacts
  <2>3. F[{}] = 0 BY <1>3, <2>1, SumsFacts
  <2>4. \A s \in SUBSET S : Splits(F, w, s) BY <1>3, <2>1, SumsFacts
  <2> QED BY <2>2, <2>3, <2>4
<1>5. \A n \in 0 .. m : Initial(x, n) \in SUBSET S BY DEF Initial, ToSet
<1>6. Initial(x, 0) = {} BY DEF Initial
<1>7. ASSUME NEW n \in 1 .. m PROVE F[Initial(x, n)] = w[x[n]] + F[Initial(x, n - 1)]
  <2>1. n \in 0 .. m /\ n - 1 \in 0 .. m BY <1>1
  <2>2. x[n] \in Initial(x, n) BY DEF Initial
  <2>3. Initial(x, n) \ {x[n]} = Initial(x, n - 1)
    <3>1. \A i \in 1 .. n : i # n <=> i \in 1 .. n - 1 BY <1>1
    <3>2. \A i \in 1 .. n - 1 : i \in 1 .. n BY <1>1
    <3>3. \A i \in 1 .. n : x[i] = x[n] => i = n
      <4>1. \A i \in 1 .. n : i \in DOMAIN x BY <1>1
      <4> QED BY <1>1, <4>1 DEF IsInjective
    <3> QED BY <3>1, <3>2, <3>3 DEF Initial
  <2>4. Initial(x, n) \in SUBSET S BY <1>5, <2>1
  <2> HIDE DEF S, m
  <2>5. F[Initial(x, n)] = w[x[n]] + F[Initial(x, n) \ {x[n]}] BY <1>4, <2>2, <2>4, Zenon DEF Splits
  <2> QED BY <2>3, <2>5
<1> QED BY <1>2, <1>4, <1>5, <1>6, <1>7

(* The length of a flattened sequence is the sum of the lengths.           *)
HasLengths(q, x, w) == Len(q) = Len(x) /\ \A i \in 1 .. Len(x) : Len(q[i]) = w[x[i]]

LEMMA FlattenLength ==
  ASSUME NEW X, NEW x \in Seq(X), IsInjective(x), NEW w \in [ToSet(x) -> Nat],
         NEW F, Sums(F, ToSet(x), w),
         NEW T, NEW q \in Seq(Seq(T)), HasLengths(q, x, w)
  PROVE  Len(FlattenSeq(q)) = F[ToSet(x)]
<1>0. Len(q) = Len(x) /\ \A i \in 1 .. Len(x) : Len(q[i]) = w[x[i]] BY DEF HasLengths
<1> USE <1>0
<1> DEFINE m == Len(x)
<1>1. m \in Nat OBVIOUS
<1>2. PICK f \in [0 .. m -> Seq(T)] : Flattens(f, q) /\ FlattenSeq(q) = f[m]
  BY FlattenFacts
<1>3. /\ F[Initial(x, 0)] = 0
      /\ \A n \in 1 .. m : F[Initial(x, n)] = w[x[n]] + F[Initial(x, n - 1)]
      /\ \A n \in 0 .. m : F[Initial(x, n)] \in Nat
      /\ Initial(x, m) = ToSet(x)
  BY InitialSum
<1> DEFINE P == {n \in 0 .. m : Len(f[n]) = F[Initial(x, n)]}
<1>4. 0 \in P BY <1>1, <1>2, <1>3 DEF Flattens
<1>5. ASSUME NEW n \in 0 .. m, n \in P, n < m PROVE n + 1 \in P
  <2>1. n + 1 \in 1 .. m /\ (n + 1) - 1 = n /\ n + 1 \in 0 .. m
    <3> HIDE DEF P, m
    <3> QED BY <1>1, <1>5
  <2>2. f[n] \in Seq(T) /\ q[n + 1] \in Seq(T)
    <3>1. \A i \in 1 .. m : q[i] \in Seq(T) OBVIOUS
    <3>2. n \in 0 .. m OBVIOUS
    <3> HIDE DEF m, P
    <3> QED BY <1>2, <2>1, <3>1, <3>2
  <2>3. f[n + 1] = f[n] \o q[n + 1] BY <1>2, <2>1 DEF Flattens
  <2>4. Len(f[n + 1]) = Len(f[n]) + Len(q[n + 1])
    <3> HIDE DEF m, P
    <3> QED BY <2>2, <2>3
  <2>5. F[Initial(x, n + 1)] = w[x[n + 1]] + F[Initial(x, n)]
    <3> HIDE DEF m, P
    <3> QED BY <1>3, <2>1
  <2>6. Len(q[n + 1]) = w[x[n + 1]] BY <2>1
  <2>7. Len(f[n]) = F[Initial(x, n)] BY <1>5
  <2>8. Len(f[n]) \in Nat /\ Len(q[n + 1]) \in Nat BY <2>2
  <2>9. Len(f[n + 1]) = F[Initial(x, n + 1)]
    <3> HIDE DEF m, P
    <3> QED BY <2>4, <2>5, <2>6, <2>7, <2>8
  <2> QED BY <2>1, <2>9
<1>6. m \in P
  <2> HIDE DEF P, m
  <2>1. m \in 0 .. m BY <1>1
  <2> QED BY <1>1, <1>4, <1>5, <2>1, UpTo
<1> QED BY <1>2, <1>3, <1>6

(* The sum over the places of a sequence, place by place.                  *)
Runs(g, s, v) ==
  /\ g \in [0 .. Len(s) -> Nat] /\ g[0] = 0
  /\ \A k \in 1 .. Len(s) : g[k] = g[k - 1] + v[s[k]]

LEMMA RunsSum ==
  ASSUME NEW T, NEW s \in Seq(T), NEW v \in [T -> Nat], NEW g, Runs(g, s, v),
         NEW F, Sums(F, DOMAIN s, [i \in DOMAIN s |-> v[s[i]]])
  PROVE  F[DOMAIN s] = g[Len(s)]
<1> DEFINE m == Len(s)
           w == [i \in 1 .. m |-> v[s[i]]]
<1>1. m \in Nat /\ DOMAIN s = 1 .. m /\ w \in [1 .. m -> Nat] OBVIOUS
<1>2. IsFiniteSet(1 .. m) BY FS_Interval
<1>3. /\ F[{}] = 0
      /\ \A d \in SUBSET (1 .. m) : Splits(F, w, d)
  <2>1. Sums(F, 1 .. m, w) BY <1>1
  <2> HIDE DEF w, m
  <2>2. w \in [1 .. m -> Nat] BY <1>1
  <2> DEFINE D == 1 .. m
  <2>3. IsFiniteSet(D) /\ Sums(F, D, w) /\ w \in [D -> Nat] BY <1>2, <2>1, <2>2
  <2>4. F[{}] = 0 /\ \A d \in SUBSET D : Splits(F, w, d)
    <3> HIDE DEF D
    <3> QED BY <2>3, SumsFacts
  <2> QED BY <2>4
<1> DEFINE P == {n \in 0 .. m : F[1 .. n] = g[n]}
<1>4. 0 \in P
  <2>1. 1 .. 0 = {} OBVIOUS
  <2> QED BY <1>1, <1>3, <2>1 DEF Runs
<1>5. ASSUME NEW n \in 0 .. m, n \in P, n < m PROVE n + 1 \in P
  <2>1. n + 1 \in 1 .. m /\ (n + 1) - 1 = n /\ n + 1 \in 0 .. m
    <3> HIDE DEF P, m
    <3> QED BY <1>1, <1>5
  <2>2. 1 .. n + 1 \in SUBSET (1 .. m) /\ n + 1 \in 1 .. n + 1
          /\ (1 .. n + 1) \ {n + 1} = 1 .. n
    <3> HIDE DEF P, m
    <3> QED BY <1>1, <2>1
  <2>3. F[1 .. n + 1] = w[n + 1] + F[1 .. n]
    <3> DEFINE d == 1 .. n + 1
               y == n + 1
    <3>1. d \in SUBSET (1 .. m) /\ y \in d /\ d \ {y} = 1 .. n BY <2>2
    <3> HIDE DEF w, P, m, d, y
    <3>2. F[d] = w[y] + F[d \ {y}] BY <1>3, <3>1, Zenon DEF Splits
    <3>3. F[d] = w[y] + F[1 .. n] BY <3>1, <3>2
    <3> USE DEF d, y
    <3> QED BY <3>3
  <2>4. g[n + 1] = g[n] + v[s[n + 1]]
    <3> HIDE DEF P
    <3> QED BY <2>1 DEF Runs
  <2>5. w[n + 1] = v[s[n + 1]] /\ v[s[n + 1]] \in Nat BY <2>1
  <2>6. g[n] \in Nat BY DEF Runs
  <2>7. F[1 .. n] = g[n] BY <1>5
  <2>8. F[1 .. n + 1] = g[n + 1]
    <3> HIDE DEF w, P, m
    <3> QED BY <2>3, <2>4, <2>5, <2>6, <2>7
  <2> QED BY <2>1, <2>8
<1>6. m \in P
  <2> HIDE DEF P, m
  <2>1. m \in 0 .. m BY <1>1
  <2> QED BY <1>1, <1>4, <1>5, <2>1, UpTo
<1> QED BY <1>1, <1>6

(* One element or none for each element of another sequence.               *)
RunsTo(s, v, total) == \E g : Runs(g, s, v) /\ g[Len(s)] = total

HasSizes(q, x, w, T, v) ==
  /\ Len(q) = Len(x)
  /\ \A i \in 1 .. Len(x) : \/ q[i] = << >> /\ w[x[i]] = 0
                            \/ \E t \in T : q[i] = <<t>> /\ w[x[i]] = v[t]

LEMMA FlattenRuns ==
  ASSUME NEW X, NEW x \in Seq(X), IsInjective(x), NEW w \in [ToSet(x) -> Nat],
         NEW F, Sums(F, ToSet(x), w),
         NEW T, NEW v \in [T -> Nat], NEW q \in Seq(Seq(T)),
         HasSizes(q, x, w, T, v)
  PROVE  RunsTo(FlattenSeq(q), v, F[ToSet(x)])
<1>0. /\ Len(q) = Len(x)
      /\ \A i \in 1 .. Len(x) : \/ q[i] = << >> /\ w[x[i]] = 0
                               \/ \E t \in T : q[i] = <<t>> /\ w[x[i]] = v[t]
  BY DEF HasSizes
<1> USE <1>0
<1> DEFINE m == Len(x)
<1>1. m \in Nat OBVIOUS
<1>2. PICK f \in [0 .. m -> Seq(T)] : Flattens(f, q) /\ FlattenSeq(q) = f[m]
  BY FlattenFacts
<1>3. /\ F[Initial(x, 0)] = 0
      /\ \A n \in 1 .. m : F[Initial(x, n)] = w[x[n]] + F[Initial(x, n - 1)]
      /\ \A n \in 0 .. m : F[Initial(x, n)] \in Nat
      /\ Initial(x, m) = ToSet(x)
  BY InitialSum
<1> DEFINE Good(n) == \E g : Runs(g, f[n], v) /\ g[Len(f[n])] = F[Initial(x, n)]
           P == {n \in 0 .. m : Good(n)}
<1>4. 0 \in P
  <2> DEFINE g == [k \in 0 .. 0 |-> 0]
  <2>1. f[0] = << >> BY <1>2 DEF Flattens
  <2>2. Runs(g, f[0], v) /\ g[Len(f[0])] = 0 BY <2>1 DEF Runs
  <2> HIDE DEF g
  <2> QED BY <1>1, <1>3, <2>2
<1>5. ASSUME NEW n \in 0 .. m, n \in P, n < m PROVE n + 1 \in P
  <2>1. n + 1 \in 1 .. m /\ (n + 1) - 1 = n /\ n + 1 \in 0 .. m
    <3> HIDE DEF P, m
    <3> QED BY <1>1, <1>5
  <2>2. f[n + 1] = f[n] \o q[n + 1] BY <1>2, <2>1 DEF Flattens
  <2>3. f[n] \in Seq(T)
    <3>1. n \in 0 .. m OBVIOUS
    <3> HIDE DEF m, P
    <3> QED BY <1>2, <3>1
  <2>4. F[Initial(x, n + 1)] = w[x[n + 1]] + F[Initial(x, n)]
    <3> HIDE DEF m, P
    <3> QED BY <1>3, <2>1
  <2>5. F[Initial(x, n)] \in Nat BY <1>3
  <2>6. PICK g : Runs(g, f[n], v) /\ g[Len(f[n])] = F[Initial(x, n)] BY <1>5
  <2>7. CASE q[n + 1] = << >> /\ w[x[n + 1]] = 0
    <3>1. f[n + 1] = f[n] BY <2>2, <2>3, <2>7
    <3>2. F[Initial(x, n + 1)] = F[Initial(x, n)]
      <4> HIDE DEF m, P
      <4> QED BY <2>4, <2>5, <2>7
    <3>3. Good(n + 1) BY <2>6, <3>1, <3>2
    <3> HIDE DEF Good
    <3> QED BY <2>1, <3>3
  <2>8. ASSUME NEW t \in T, q[n + 1] = <<t>>, w[x[n + 1]] = v[t] PROVE n + 1 \in P
    <3> DEFINE s == f[n]
               l == Len(s)
               h == [k \in 0 .. l + 1 |-> IF k = l + 1 THEN g[l] + v[t] ELSE g[k]]
    <3>1. f[n + 1] = Append(s, t) BY <2>2, <2>3, <2>8
    <3>2. l \in Nat /\ s \in Seq(T) BY <2>3
    <3>3. g \in [0 .. l -> Nat] /\ g[0] = 0 /\ \A k \in 1 .. l : g[k] = g[k - 1] + v[s[k]]
      BY <2>6 DEF Runs
    <3>4. v[t] \in Nat OBVIOUS
    <3>5. Len(Append(s, t)) = l + 1 /\ Append(s, t)[l + 1] = t
            /\ \A k \in 1 .. l : Append(s, t)[k] = s[k]
      BY <3>2
    <3>6. Runs(h, Append(s, t), v)
      <4> HIDE DEF s, l, P
      <4>1. h \in [0 .. l + 1 -> Nat] BY <3>2, <3>3, <3>4
      <4>2. h[0] = 0 BY <3>2, <3>3
      <4>3. ASSUME NEW k \in 1 .. l + 1 PROVE h[k] = h[k - 1] + v[Append(s, t)[k]]
        <5>1. CASE k = l + 1
          <6>1. k - 1 = l /\ l \in 0 .. l + 1 /\ l # l + 1 /\ k \in 0 .. l + 1 BY <3>2, <5>1
          <6>2. h[k - 1] = g[l] /\ h[k] = g[l] + v[t] BY <5>1, <6>1
          <6> QED BY <3>5, <5>1, <6>2
        <5>2. CASE k # l + 1
          <6>1. k \in 1 .. l /\ k - 1 \in 0 .. l + 1 /\ k - 1 # l + 1 /\ k \in 0 .. l + 1
            BY <3>2, <5>2
          <6>2. h[k - 1] = g[k - 1] /\ h[k] = g[k] BY <5>2, <6>1
          <6> QED BY <3>3, <3>5, <6>1, <6>2
        <5> QED BY <5>1, <5>2
      <4> HIDE DEF h
      <4> QED BY <3>5, <4>1, <4>2, <4>3 DEF Runs
    <3>7. h[Len(f[n + 1])] = F[Initial(x, n + 1)]
      <4>1. h[l + 1] = g[l] + v[t]
        <5> HIDE DEF l, P
        <5>1. l + 1 \in 0 .. l + 1 BY <3>2
        <5> QED BY <5>1
      <4>2. g[l] = F[Initial(x, n)] BY <2>6
      <4> HIDE DEF h, l, P, m
      <4> QED BY <2>4, <2>5, <2>8, <3>1, <3>4, <3>5, <4>1, <4>2
    <3>8. Good(n + 1)
      <4> HIDE DEF h
      <4> QED BY <3>1, <3>6, <3>7
    <3> HIDE DEF Good
    <3> QED BY <2>1, <3>8
  <2> QED BY <2>1, <2>7, <2>8
<1>6. m \in P
  <2> HIDE DEF P, m
  <2>1. m \in 0 .. m BY <1>1
  <2> QED BY <1>1, <1>4, <1>5, <2>1, UpTo
<1> QED BY <1>2, <1>3, <1>6 DEF RunsTo

---------------------------------------------------------------------------
(* Chunks.                                                                 *)
LEMMA MinOfTwo ==
  ASSUME NEW a \in Int, NEW b \in Int
  PROVE  Min({a, b}) = IF a <= b THEN a ELSE b
<1>1. \E y \in {a, b} : \A z \in {a, b} : y <= z OBVIOUS
<1>2. Min({a, b}) \in {a, b} /\ \A z \in {a, b} : Min({a, b}) <= z BY <1>1 DEF Min
<1> QED BY <1>2

LEMMA ChunkCount ==
  ASSUME NEW n \in Nat, NEW size \in Nat \ {0}
  PROVE  /\ (n + size - 1) \div size \in Nat
         /\ ((n + size - 1) \div size) * size >= n
         /\ \A k \in 1 .. (n + size - 1) \div size : (k - 1) * size \in Nat /\ (k - 1) * size < n
<1> DEFINE a == n + size - 1
           m == a \div size
           r == a % size
<1>1. a \in Nat /\ size > 0 OBVIOUS
<1>2. m \in Nat /\ r \in 0 .. size - 1 /\ a = size * m + r
  <2> HIDE DEF a
  <2> QED BY <1>1
<1>3. size * m = m * size
  <2> HIDE DEF m
  <2> QED BY <1>2
<1>4. m * size >= n
  <2>1. m * size = a - r BY <1>2, <1>3
  <2> HIDE DEF m, r
  <2> QED BY <1>2, <2>1
<1>5. ASSUME NEW k \in 1 .. m PROVE (k - 1) * size \in Nat /\ (k - 1) * size < n
  <2> HIDE DEF m, r
  <2>1. k - 1 \in Nat /\ m - k \in Nat BY <1>2
  <2>2. (k - 1) * size \in Nat /\ (m - k) * size \in Nat BY <2>1
  <2>3. m * size = (k - 1) * size + (m - k) * size + size BY <1>2, <2>1
  <2>4. m * size <= a BY <1>2, <1>3
  <2> QED BY <1>1, <2>2, <2>3, <2>4
<1> QED BY <1>2, <1>4, <1>5

---------------------------------------------------------------------------
(* The sums of layout and of the writers.                                  *)
EntryCount(f) == (IF world.kind[f] = "prelude" THEN 1 ELSE 0) + Len(SymsOf(f, EntryReserved))

LEMMA DynsymSum ==
  ASSUME NEW g, g # Epilogue, NEW S, S = ToSet(world.groups[g]), IsFiniteSet(S),
         \A f \in S : EntryCount(f) \in Nat
  PROVE  \E F : Sums(F, S, [f \in S |-> EntryCount(f)]) /\ DynsymSize(g) = F[S]
<1> DEFINE w == [f \in S |-> EntryCount(f)]
           E(f) == (IF world.kind[f] = "prelude" THEN 1 ELSE 0) + Len(SymsOf(f, EntryReserved))
           Body(h) == [s \in SUBSET S |-> IF s = {} THEN 0
                         ELSE E(CHOOSE x \in s : TRUE) + h[s \ {CHOOSE x \in s : TRUE}]]
           G == CHOOSE h : h = Body(h)
<1>1. PICK F : Sums(F, S, w)
  <2>1. w \in [S -> Nat] OBVIOUS
  <2> HIDE DEF w
  <2> QED BY <2>1, SumsExist
<1>2. ASSUME NEW h, NEW s \in SUBSET S PROVE SumRule(h, w, s) = Body(h)[s]
  <2>1. CASE s = {} BY <2>1 DEF SumRule
  <2>2. CASE s # {}
    <3>1. Picked(s) \in S BY <2>2, PickedFacts
    <3>2. w[Picked(s)] = E(Picked(s)) BY <3>1 DEF EntryCount
    <3> HIDE DEF w, E
    <3>3. Body(h)[s] = E(Picked(s)) + h[s \ {Picked(s)}] BY <2>2 DEF Picked
    <3>4. SumRule(h, w, s) = w[Picked(s)] + h[s \ {Picked(s)}] BY <2>2 DEF SumRule
    <3> QED BY <3>2, <3>3, <3>4
  <2> QED BY <2>1, <2>2
<1>3. ASSUME NEW h PROVE [s \in SUBSET S |-> SumRule(h, w, s)] = Body(h)
  <2> HIDE DEF w, E
  <2> QED BY <1>2
<1> HIDE DEF w, Body
<1>4. F = Body(F) BY <1>1, <1>3 DEF Sums
<1>5. G = Body(G) BY <1>4
<1>6. Sums(G, S, w) BY <1>3, <1>5 DEF Sums
<1> USE DEF w, Body
<1>7. DynsymSize(g) = G[S] BY Zenon DEF DynsymSize, MapThenSumSet, MapThenFoldSet
<1> HIDE DEF G
<1> QED BY <1>6, <1>7, Zenon

LEMMA VerneedSum ==
  ASSUME NEW S, IsFiniteSet(S), \A f \in S : VerneedSize(f) \in Nat
  PROVE  \E F : Sums(F, S, [f \in S |-> VerneedSize(f)]) /\ MapThenSumSet(VerneedSize, S) = F[S]
<1> DEFINE w == [f \in S |-> VerneedSize(f)]
           E(f) == VerneedSize(f)
           Body(h) == [s \in SUBSET S |-> IF s = {} THEN 0
                         ELSE E(CHOOSE x \in s : TRUE) + h[s \ {CHOOSE x \in s : TRUE}]]
           G == CHOOSE h : h = Body(h)
<1>1. PICK F : Sums(F, S, w)
  <2>1. w \in [S -> Nat] OBVIOUS
  <2> HIDE DEF w
  <2> QED BY <2>1, SumsExist
<1>2. ASSUME NEW h, NEW s \in SUBSET S PROVE SumRule(h, w, s) = Body(h)[s]
  <2>1. CASE s = {} BY <2>1 DEF SumRule
  <2>2. CASE s # {}
    <3>1. Picked(s) \in S BY <2>2, PickedFacts
    <3>2. w[Picked(s)] = E(Picked(s)) BY <3>1
    <3> HIDE DEF w, E
    <3>3. Body(h)[s] = E(Picked(s)) + h[s \ {Picked(s)}] BY <2>2 DEF Picked
    <3>4. SumRule(h, w, s) = w[Picked(s)] + h[s \ {Picked(s)}] BY <2>2 DEF SumRule
    <3> QED BY <3>2, <3>3, <3>4
  <2> QED BY <2>1, <2>2
<1>3. ASSUME NEW h PROVE [s \in SUBSET S |-> SumRule(h, w, s)] = Body(h)
  <2> HIDE DEF w, E
  <2> QED BY <1>2
<1> HIDE DEF w, Body
<1>4. F = Body(F) BY <1>1, <1>3 DEF Sums
<1>5. G = Body(G) BY <1>4
<1>6. Sums(G, S, w) BY <1>3, <1>5 DEF Sums
<1> USE DEF w, Body
<1>7. MapThenSumSet(VerneedSize, S) = G[S] BY Zenon DEF MapThenSumSet, MapThenFoldSet
<1> HIDE DEF G
<1> QED BY <1>6, <1>7, Zenon

LEMMA VersionSum ==
  ASSUME NEW S, IsFiniteSet(S), \A f \in S : VersionCount(f) \in Nat
  PROVE  \E F : Sums(F, S, [f \in S |-> VersionCount(f)]) /\ MapThenSumSet(VersionCount, S) = F[S]
<1> DEFINE w == [f \in S |-> VersionCount(f)]
           E(f) == VersionCount(f)
           Body(h) == [s \in SUBSET S |-> IF s = {} THEN 0
                         ELSE E(CHOOSE x \in s : TRUE) + h[s \ {CHOOSE x \in s : TRUE}]]
           G == CHOOSE h : h = Body(h)
<1>1. PICK F : Sums(F, S, w)
  <2>1. w \in [S -> Nat] OBVIOUS
  <2> HIDE DEF w
  <2> QED BY <2>1, SumsExist
<1>2. ASSUME NEW h, NEW s \in SUBSET S PROVE SumRule(h, w, s) = Body(h)[s]
  <2>1. CASE s = {} BY <2>1 DEF SumRule
  <2>2. CASE s # {}
    <3>1. Picked(s) \in S BY <2>2, PickedFacts
    <3>2. w[Picked(s)] = E(Picked(s)) BY <3>1
    <3> HIDE DEF w, E
    <3>3. Body(h)[s] = E(Picked(s)) + h[s \ {Picked(s)}] BY <2>2 DEF Picked
    <3>4. SumRule(h, w, s) = w[Picked(s)] + h[s \ {Picked(s)}] BY <2>2 DEF SumRule
    <3> QED BY <3>2, <3>3, <3>4
  <2> QED BY <2>1, <2>2
<1>3. ASSUME NEW h PROVE [s \in SUBSET S |-> SumRule(h, w, s)] = Body(h)
  <2> HIDE DEF w, E
  <2> QED BY <1>2
<1> HIDE DEF w, Body
<1>4. F = Body(F) BY <1>1, <1>3 DEF Sums
<1>5. G = Body(G) BY <1>4
<1>6. Sums(G, S, w) BY <1>3, <1>5 DEF Sums
<1> USE DEF w, Body
<1>7. MapThenSumSet(VersionCount, S) = G[S] BY Zenon DEF MapThenSumSet, MapThenFoldSet
<1> HIDE DEF G
<1> QED BY <1>6, <1>7, Zenon

LEMMA NeedsSum ==
  ASSUME NEW needs, NEW S, S = DOMAIN needs, IsFiniteSet(S),
         \A i \in S : 1 + Len(needs[i].aux) \in Nat
  PROVE  \E F : Sums(F, S, [i \in S |-> 1 + Len(needs[i].aux)]) /\ VerneedEntries(needs) = F[S]
<1> DEFINE w == [i \in S |-> 1 + Len(needs[i].aux)]
           E(i) == 1 + Len(needs[i].aux)
           Body(h) == [s \in SUBSET S |-> IF s = {} THEN 0
                         ELSE E(CHOOSE x \in s : TRUE) + h[s \ {CHOOSE x \in s : TRUE}]]
           G == CHOOSE h : h = Body(h)
<1>1. PICK F : Sums(F, S, w)
  <2>1. w \in [S -> Nat] OBVIOUS
  <2> HIDE DEF w
  <2> QED BY <2>1, SumsExist
<1>2. ASSUME NEW h, NEW s \in SUBSET S PROVE SumRule(h, w, s) = Body(h)[s]
  <2>1. CASE s = {} BY <2>1 DEF SumRule
  <2>2. CASE s # {}
    <3>1. Picked(s) \in S BY <2>2, PickedFacts
    <3>2. w[Picked(s)] = E(Picked(s)) BY <3>1
    <3> HIDE DEF w, E
    <3>3. Body(h)[s] = E(Picked(s)) + h[s \ {Picked(s)}] BY <2>2 DEF Picked
    <3>4. SumRule(h, w, s) = w[Picked(s)] + h[s \ {Picked(s)}] BY <2>2 DEF SumRule
    <3> QED BY <3>2, <3>3, <3>4
  <2> QED BY <2>1, <2>2
<1>3. ASSUME NEW h PROVE [s \in SUBSET S |-> SumRule(h, w, s)] = Body(h)
  <2> HIDE DEF w, E
  <2> QED BY <1>2
<1> HIDE DEF w, Body
<1>4. F = Body(F) BY <1>1, <1>3 DEF Sums
<1>5. G = Body(G) BY <1>4
<1>6. Sums(G, S, w) BY <1>3, <1>5 DEF Sums
<1> USE DEF w, Body
<1>7. VerneedEntries(needs) = G[S] BY Zenon DEF VerneedEntries, MapThenSumSet, MapThenFoldSet
<1> HIDE DEF G
<1> QED BY <1>6, <1>7, Zenon

LEMMA VerdefsSum ==
  ASSUME NEW verdefs, NEW S, S = DOMAIN verdefs, IsFiniteSet(S),
         \A i \in S : verdefs[i].parent \in Nat
  PROVE  \E F : /\ Sums(F, S, [i \in S |-> 2 + (IF verdefs[i].parent > 0 THEN 1 ELSE 0)])
                /\ VerdefEntries(verdefs) = F[S]
<1> DEFINE w == [i \in S |-> 2 + (IF verdefs[i].parent > 0 THEN 1 ELSE 0)]
           E(i) == 2 + (IF verdefs[i].parent > 0 THEN 1 ELSE 0)
           Body(h) == [s \in SUBSET S |-> IF s = {} THEN 0
                         ELSE E(CHOOSE x \in s : TRUE) + h[s \ {CHOOSE x \in s : TRUE}]]
           G == CHOOSE h : h = Body(h)
<1>1. PICK F : Sums(F, S, w)
  <2>1. w \in [S -> Nat] OBVIOUS
  <2> HIDE DEF w
  <2> QED BY <2>1, SumsExist
<1>2. ASSUME NEW h, NEW s \in SUBSET S PROVE SumRule(h, w, s) = Body(h)[s]
  <2>1. CASE s = {} BY <2>1 DEF SumRule
  <2>2. CASE s # {}
    <3>1. Picked(s) \in S BY <2>2, PickedFacts
    <3>2. w[Picked(s)] = E(Picked(s)) BY <3>1
    <3> HIDE DEF w, E
    <3>3. Body(h)[s] = E(Picked(s)) + h[s \ {Picked(s)}] BY <2>2 DEF Picked
    <3>4. SumRule(h, w, s) = w[Picked(s)] + h[s \ {Picked(s)}] BY <2>2 DEF SumRule
    <3> QED BY <3>2, <3>3, <3>4
  <2> QED BY <2>1, <2>2
<1>3. ASSUME NEW h PROVE [s \in SUBSET S |-> SumRule(h, w, s)] = Body(h)
  <2> HIDE DEF w, E
  <2> QED BY <1>2
<1> HIDE DEF w, Body
<1>4. F = Body(F) BY <1>1, <1>3 DEF Sums
<1>5. G = Body(G) BY <1>4
<1>6. Sums(G, S, w) BY <1>3, <1>5 DEF Sums
<1> USE DEF w, Body
<1>7. VerdefEntries(verdefs) = G[S] BY Zenon DEF VerdefEntries, MapThenSumSet, MapThenFoldSet
<1> HIDE DEF G
<1> QED BY <1>6, <1>7, Zenon

---------------------------------------------------------------------------
(* A link.                                                                 *)
LEMMA WorldFacts ==
  ASSUME world \in Worlds
  PROVE  /\ IsFiniteSet(Files)
         /\ world.groups \in Seq(Seq(Files))
         /\ Len(world.groups) \in Nat /\ Groups = 1 .. Len(world.groups)
         /\ Epilogue = Len(world.groups) + 1
         /\ \A g \in Groups : world.groups[g] \in Seq(Files) /\ IsInjective(world.groups[g])
         /\ \A f \in Files : \E g \in Groups : Contains(world.groups[g], f)
         /\ Len(world.syms) \in Nat /\ Syms = 1 .. Len(world.syms)
         /\ \A s \in Syms : /\ Sym(s).file \in Files
                            /\ Sym(s).kind \in {"def", "weak", "shared"}
                            /\ Sym(s).ver \in Nat \ {0}
                            /\ Sym(s).hidden \in BOOLEAN
                            /\ Sym(s).canonical \in BOOLEAN
                            /\ (Sym(s).kind = "shared" <=> Shared(Sym(s).file))
                            /\ (world.kind[Sym(s).file] = "prelude" => Sym(s).kind = "def")
         /\ \A f \in Files : Shared(f) => world.verdefs[f] \in Seq(STRING)
         /\ world.versions \in Seq([name : STRING, parent : Nat])
         /\ \A r \in world.requests : r.op \in {"export", "load", "copy"} =>
               r.on \in Syms /\ Sym(r.on).canonical /\ (r.op = "copy" => Sym(r.on).kind = "shared")
<1>1. IsLink(world) BY WorldsAreLinks
<1> DEFINE R == [file : DOMAIN world.kind, name : Nat, kind : {"def", "weak", "shared"},
                 ver : Nat \ {0}, hidden : BOOLEAN, addr : Nat,
                 canonical : BOOLEAN, export : BOOLEAN]
<1>2. world.syms \in Seq(R) BY <1>1 DEF IsLink
<1>3. Len(world.syms) \in Nat /\ Syms = 1 .. Len(world.syms) /\ \A s \in Syms : Sym(s) \in R
  <2> HIDE DEF R
  <2> QED BY <1>2 DEF Syms, Sym
<1>4. \A s \in Syms : /\ Sym(s).file \in Files
                     /\ Sym(s).kind \in {"def", "weak", "shared"}
                     /\ Sym(s).ver \in Nat \ {0}
                     /\ Sym(s).hidden \in BOOLEAN
                     /\ Sym(s).canonical \in BOOLEAN
  BY <1>3 DEF Files
<1>5. world.groups \in Seq(Seq(Files)) BY <1>1 DEF IsLink, Files
<1>6. /\ Len(world.groups) \in Nat /\ Groups = 1 .. Len(world.groups)
      /\ \A g \in Groups : world.groups[g] \in Seq(Files)
  BY <1>5 DEF Groups
<1>7. /\ IsFiniteSet(Files)
      /\ \A g \in Groups : IsInjective(world.groups[g])
      /\ \A f \in Files : \E g \in Groups : Contains(world.groups[g], f)
      /\ \A f \in Files : Shared(f) => world.verdefs[f] \in Seq(STRING)
      /\ world.versions \in Seq([name : STRING, parent : Nat])
  BY <1>1 DEF IsLink, Files, Groups, Shared
<1>8. \A s \in Syms : /\ (Sym(s).kind = "shared" <=> Shared(Sym(s).file))
                     /\ (world.kind[Sym(s).file] = "prelude" => Sym(s).kind = "def")
  BY <1>1 DEF IsLink, Syms, Sym, Shared
<1>9. \A r \in world.requests : r.op \in {"export", "load", "copy"} =>
        r.on \in Syms /\ Sym(r.on).canonical /\ (r.op = "copy" => Sym(r.on).kind = "shared")
  BY <1>1 DEF IsLink, Syms, Sym
<1>10. Epilogue = Len(world.groups) + 1 BY DEF Epilogue
<1>11. \A s \in Syms : /\ Sym(s).file \in Files
                      /\ Sym(s).kind \in {"def", "weak", "shared"}
                      /\ Sym(s).ver \in Nat \ {0}
                      /\ Sym(s).hidden \in BOOLEAN
                      /\ Sym(s).canonical \in BOOLEAN
                      /\ (Sym(s).kind = "shared" <=> Shared(Sym(s).file))
                      /\ (world.kind[Sym(s).file] = "prelude" => Sym(s).kind = "def")
  <2> HIDE DEF R
  <2> QED BY <1>4, <1>8
<1>12. Len(world.syms) \in Nat /\ Syms = 1 .. Len(world.syms) BY <1>3
<1>13. Len(world.groups) \in Nat /\ Groups = 1 .. Len(world.groups) BY <1>6
<1>14. \A g \in Groups : world.groups[g] \in Seq(Files) /\ IsInjective(world.groups[g])
  BY <1>6, <1>7
<1> HIDE DEF R
<1>15. IsFiniteSet(Files) /\ \A f \in Files : \E g \in Groups : Contains(world.groups[g], f)
  BY <1>7, Zenon
<1>16. /\ \A f \in Files : Shared(f) => world.verdefs[f] \in Seq(STRING)
       /\ world.versions \in Seq([name : STRING, parent : Nat])
  BY <1>7
<1> QED BY <1>5, <1>9, <1>10, <1>11, <1>12, <1>13, <1>14, <1>15, <1>16, Zenon

(* What is in a part is in the whole.                                      *)
LEMMA ConcatContains ==
  ASSUME NEW T, NEW a \in Seq(T), NEW b \in Seq(T), NEW e, Contains(a, e) \/ Contains(b, e)
  PROVE  Contains(a \o b, e)
<1>1. CASE Contains(a, e)
  <2>1. PICK i \in 1 .. Len(a) : a[i] = e BY <1>1 DEF Contains
  <2>2. i \in 1 .. Len(a \o b) OBVIOUS
  <2>3. (a \o b)[i] = a[i] OBVIOUS
  <2> QED BY <2>1, <2>2, <2>3 DEF Contains
<1>2. CASE Contains(b, e)
  <2>1. PICK i \in 1 .. Len(b) : b[i] = e BY <1>2 DEF Contains
  <2>2. Len(a) + i \in 1 .. Len(a \o b) OBVIOUS
  <2>3. (a \o b)[Len(a) + i] = b[i] OBVIOUS
  <2> QED BY <2>1, <2>2, <2>3 DEF Contains
<1> QED BY <1>1, <1>2

(* Every element of the parts is in the flattened sequence.                *)
LEMMA FlattenCovers ==
  ASSUME NEW T, NEW q \in Seq(Seq(T)), NEW j \in 1 .. Len(q), NEW e, Contains(q[j], e)
  PROVE  Contains(FlattenSeq(q), e)
<1> DEFINE m == Len(q)
<1>1. m \in Nat /\ j \in 1 .. m /\ \A i \in 1 .. m : q[i] \in Seq(T) OBVIOUS
<1>2. PICK f \in [0 .. m -> Seq(T)] : Flattens(f, q) /\ FlattenSeq(q) = f[m]
  BY FlattenFacts
<1> DEFINE P == {n \in 0 .. m : n < j \/ Contains(f[n], e)}
<1>3. 0 \in P BY <1>1
<1>4. ASSUME NEW n \in 0 .. m, n \in P, n < m PROVE n + 1 \in P
  <2>1. n + 1 \in 1 .. m /\ (n + 1) - 1 = n /\ n + 1 \in 0 .. m /\ n \in 0 .. m
    <3> HIDE DEF P, m
    <3> QED BY <1>1, <1>4
  <2>2. f[n] \in Seq(T) /\ q[n + 1] \in Seq(T)
    <3> HIDE DEF P, m
    <3> QED BY <1>1, <1>2, <2>1
  <2>3. f[n + 1] = f[n] \o q[n + 1] BY <1>2, <2>1 DEF Flattens
  <2>4. CASE n + 1 < j BY <2>1, <2>4
  <2>5. CASE n + 1 = j
    <3>1. Contains(f[n] \o q[n + 1], e)
      <4>1. Contains(q[n + 1], e) BY <2>5
      <4> HIDE DEF P, m
      <4> QED BY <2>2, <4>1, ConcatContains
    <3> QED BY <2>1, <2>3, <3>1
  <2>6. CASE j < n + 1
    <3>1. ~(n < j)
      <4> HIDE DEF P
      <4> QED BY <1>1, <2>1, <2>6
    <3>2. Contains(f[n] \o q[n + 1], e)
      <4>1. Contains(f[n], e) BY <1>4, <3>1
      <4> HIDE DEF P, m
      <4> QED BY <2>2, <4>1, ConcatContains
    <3> QED BY <2>1, <2>3, <3>2
  <2>7. n + 1 < j \/ n + 1 = j \/ j < n + 1
    <3> HIDE DEF P, m
    <3> QED BY <1>1, <2>1
  <2> QED BY <2>4, <2>5, <2>6, <2>7
<1>5. m \in P
  <2> HIDE DEF P, m
  <2>1. m \in 0 .. m BY <1>1
  <2> QED BY <1>1, <1>3, <1>4, <2>1, UpTo
<1>6. Contains(f[m], e)
  <2>1. ~(m < j)
    <3> HIDE DEF P, m
    <3> QED BY <1>1
  <2> QED BY <1>5, <2>1
<1> QED BY <1>2, <1>6

---------------------------------------------------------------------------
(* What the traversal leaves behind: only canonical symbols have flags,    *)
(* only variables of shared objects are copied, and a version is needed    *)
(* only if a symbol has it.                                                *)
Flag == {"EXPORT_DYNAMIC", "DIRECT", "COPY_RELOCATION"}

LinkInv ==
  /\ world \in Worlds
  /\ todo \subseteq world.requests
  /\ flags \in [Syms -> SUBSET Flag]
  /\ \A s \in Syms : flags[s] # {} => Sym(s).canonical
  /\ \A s \in Syms : "COPY_RELOCATION" \in flags[s] => Sym(s).kind = "shared"
  /\ needed \in [Files -> SUBSET Nat]
  /\ \A f \in Files : needed[f] # {} =>
        \E s \in Syms : Sym(s).kind = "shared" /\ ~Special(Sym(s).ver)
  /\ defs \in [Groups -> Seq(Syms)]
  /\ definitions \in Seq(Syms)

LEMMA SelectedSymbols ==
  ASSUME world \in Worlds, NEW S \in SUBSET Syms
  PROVE  /\ Ascending(S) \in Seq(S)
         /\ Len(Ascending(S)) = Cardinality(S)
         /\ Cardinality(S) \in Nat
  BY WorldFacts, AscendingFacts

LEMMA CountFacts ==
  ASSUME LinkInv, NEW f \in Files
  PROVE  /\ EntryCount(f) \in Nat
         /\ VersionCount(f) \in Nat
         /\ VerneedSize(f) \in Nat
<1>1. world \in Worlds BY DEF LinkInv
<1>2. Len(SymsOf(f, EntryReserved)) \in Nat
  <2> DEFINE S == {s \in Syms : Sym(s).file = f /\ EntryReserved(s)}
  <2>1. SymsOf(f, EntryReserved) = Ascending(S) BY DEF SymsOf
  <2>2. S \in SUBSET Syms OBVIOUS
  <2> HIDE DEF S
  <2> QED BY <1>1, <2>1, <2>2, SelectedSymbols
<1>3. VersionCount(f) \in Nat
  <2>1. CASE Shared(f)
    <3> DEFINE D == DOMAIN world.verdefs[f]
               S == {i \in D : i + 1 \in needed[f]}
    <3>1. D = 1 .. Len(world.verdefs[f]) /\ Len(world.verdefs[f]) \in Nat
      BY <1>1, <2>1, WorldFacts
    <3>2. IsFiniteSet(D) BY <3>1, FS_Interval
    <3>3. IsFiniteSet(S) BY <3>2, FS_Subset
    <3>4. VersionCount(f) = Cardinality(S) BY <2>1 DEF VersionCount
    <3> QED BY <3>3, <3>4, FS_CardinalityType
  <2>2. CASE ~Shared(f) BY <2>2 DEF VersionCount
  <2> QED BY <2>1, <2>2
<1>4. VerneedSize(f) \in Nat BY <1>3 DEF VerneedSize
<1> QED BY <1>2, <1>3, <1>4 DEF EntryCount

(* The entries that layout counts are those that the writer writes.        *)
LEMMA SameEntries ==
  ASSUME LinkInv, NEW f \in Files, world.kind[f] # "prelude"
  PROVE  SymsOf(f, WritesEntry) = SymsOf(f, EntryReserved)
<1>1. world \in Worlds BY DEF LinkInv
<1>2. ASSUME NEW s \in Syms, Sym(s).file = f
      PROVE  WritesEntry(s) <=> EntryReserved(s)
  <2>1. Sym(s).kind \in {"def", "weak", "shared"} /\ (Sym(s).kind = "shared" <=> Shared(f))
    BY <1>1, <1>2, WorldFacts
  <2>2. /\ flags[s] # {} => Sym(s).canonical
        /\ "COPY_RELOCATION" \in flags[s] => Sym(s).kind = "shared"
    BY DEF LinkInv
  <2> QED BY <1>2, <2>1, <2>2
       DEF WritesEntry, WritesImport, WritesUndefined, EntryReserved, HasResolution, Dynamic
<1>3. {s \in Syms : Sym(s).file = f /\ WritesEntry(s)}
        = {s \in Syms : Sym(s).file = f /\ EntryReserved(s)}
  BY <1>2
<1> QED BY <1>3 DEF SymsOf

LEMMA PreludeEntries ==
  ASSUME LinkInv, NEW f \in Files, world.kind[f] = "prelude"
  PROVE  EntryCount(f) = 1
<1>1. world \in Worlds BY DEF LinkInv
<1> DEFINE S == {s \in Syms : Sym(s).file = f /\ EntryReserved(s)}
<1>2. S = {}
  <2>1. \A s \in Syms : Sym(s).file = f => Sym(s).kind = "def" BY <1>1, WorldFacts
  <2> QED BY <2>1 DEF EntryReserved, Dynamic
<1>3. Len(Ascending(S)) = 0
  <2>1. S \in SUBSET Syms OBVIOUS
  <2> HIDE DEF S
  <2> QED BY <1>1, <1>2, <2>1, SelectedSymbols, FS_EmptySet
<1>4. SymsOf(f, EntryReserved) = Ascending(S) BY DEF SymsOf
<1> QED BY <1>3, <1>4 DEF EntryCount

EntryRecord == [sym : Nat, defined : BOOLEAN]
WrittenVersym == [ndx : Nat \ {0}, hidden : BOOLEAN]

LEMMA WrittenSymbols ==
  ASSUME LinkInv, NEW f \in Files
  PROVE  /\ SymsOf(f, WritesEntry) \in Seq({s \in Syms : Sym(s).file = f})
         /\ world.kind[f] # "prelude" => Len(SymsOf(f, WritesEntry)) = EntryCount(f)
<1>1. world \in Worlds BY DEF LinkInv
<1> DEFINE S == {s \in Syms : Sym(s).file = f /\ WritesEntry(s)}
           R == {s \in Syms : Sym(s).file = f}
<1>2. SymsOf(f, WritesEntry) = Ascending(S) BY DEF SymsOf
<1>3. S \in SUBSET Syms /\ S \subseteq R OBVIOUS
<1>4. SymsOf(f, WritesEntry) \in Seq(R)
  <2> HIDE DEF S, R
  <2>1. Ascending(S) \in Seq(S) BY <1>1, <1>3, SelectedSymbols
  <2> QED BY <1>2, <1>3, <2>1
<1>5. world.kind[f] # "prelude" => Len(SymsOf(f, WritesEntry)) = EntryCount(f)
  <2>1. Len(SymsOf(f, EntryReserved)) \in Nat
    <3> DEFINE E == {s \in Syms : Sym(s).file = f /\ EntryReserved(s)}
    <3>1. SymsOf(f, EntryReserved) = Ascending(E) BY DEF SymsOf
    <3>2. E \in SUBSET Syms OBVIOUS
    <3> HIDE DEF E
    <3> QED BY <1>1, <3>1, <3>2, SelectedSymbols
  <2>2. world.kind[f] # "prelude" => SymsOf(f, WritesEntry) = SymsOf(f, EntryReserved)
    BY SameEntries
  <2> QED BY <2>1, <2>2 DEF EntryCount
<1> QED BY <1>4, <1>5

LEMMA FileEntriesFacts ==
  ASSUME LinkInv, NEW f \in Files
  PROVE  FileEntries(f) \in Seq(EntryRecord) /\ Len(FileEntries(f)) = EntryCount(f)
<1>1. CASE world.kind[f] = "prelude"
  <2>1. FileEntries(f) = <<[sym |-> 0, defined |-> FALSE]>> BY <1>1 DEF FileEntries
  <2> QED BY <1>1, <2>1, PreludeEntries DEF EntryRecord
<1>2. CASE world.kind[f] # "prelude"
  <2> DEFINE q == SymsOf(f, WritesEntry)
             R == {s \in Syms : Sym(s).file = f}
  <2>1. q \in Seq(Syms) /\ Len(q) = EntryCount(f)
    <3>1. q \in Seq(R) /\ Len(q) = EntryCount(f) BY <1>2, WrittenSymbols
    <3>2. R \subseteq Syms OBVIOUS
    <3> HIDE DEF q, R
    <3> QED BY <3>1, <3>2
  <2>2. FileEntries(f) = [i \in DOMAIN q |-> [sym |-> q[i], defined |-> FALSE]]
    BY <1>2 DEF FileEntries
  <2>3. \A s \in Syms : s \in Nat
    <3>1. world \in Worlds BY DEF LinkInv
    <3> QED BY <3>1, WorldFacts
  <2> HIDE DEF q
  <2>4. \A i \in 1 .. Len(q) : q[i] \in Nat BY <2>1, <2>3
  <2>5. DOMAIN q = 1 .. Len(q) /\ Len(q) \in Nat BY <2>1
  <2>6. FileEntries(f) \in [1 .. Len(q) -> EntryRecord] BY <2>2, <2>4, <2>5 DEF EntryRecord
  <2> QED BY <2>1, <2>5, <2>6
<1> QED BY <1>1, <1>2

(* The indexes of versions that the writer gives to symbols.               *)
BaseInv == base \in [Files -> Nat] /\ \A f \in Files : base[f] >= 2

LEMMA OutputVersionFacts ==
  ASSUME LinkInv, BaseInv, NEW f \in Files, NEW v \in Nat \ {0}
  PROVE  /\ OutputVersion(f, v) \in Nat \ {0}
         /\ v >= 2 => (OutputVersion(f, v) # VER_NDX_GLOBAL <=> v \in needed[f])
<1> DEFINE W == {x \in needed[f] : x < v}
<1>1. needed[f] \in SUBSET Nat BY DEF LinkInv
<1>2. W \subseteq 0 .. v BY <1>1
<1>3. Cardinality(W) \in Nat
  <2> HIDE DEF W
  <2>1. IsFiniteSet(0 .. v) BY FS_Interval
  <2>2. IsFiniteSet(W) BY <1>2, <2>1, FS_Subset
  <2> QED BY <2>2, FS_CardinalityType
<1>4. OutputVersion(f, v) = IF Special(v) THEN v
                            ELSE IF v \in needed[f] THEN base[f] + Cardinality(W)
                            ELSE VER_NDX_GLOBAL
  BY DEF OutputVersion
<1>5. base[f] \in Nat /\ base[f] >= 2 BY DEF BaseInv
<1> HIDE DEF W
<1> QED BY <1>3, <1>4, <1>5 DEF Special, VER_NDX_GLOBAL

LEMMA FileVersymsFacts ==
  ASSUME LinkInv, BaseInv, NEW f \in Files
  PROVE  FileVersyms(f) \in Seq(WrittenVersym) /\ Len(FileVersyms(f)) = EntryCount(f)
<1>1. Global \in WrittenVersym BY DEF Global, Versym, VER_NDX_GLOBAL, WrittenVersym
<1>2. CASE world.kind[f] = "prelude"
  <2>1. FileVersyms(f) = <<Global>> BY <1>2 DEF FileVersyms
  <2> QED BY <1>1, <1>2, <2>1, PreludeEntries
<1>3. CASE world.kind[f] # "prelude"
  <2> DEFINE q == SymsOf(f, WritesEntry)
             R == {s \in Syms : Sym(s).file = f}
             V(s) == IF Shared(f) THEN Versym(OutputVersion(f, Sym(s).ver), FALSE) ELSE Global
  <2>1. q \in Seq(Syms) /\ Len(q) = EntryCount(f)
    <3>1. q \in Seq(R) /\ Len(q) = EntryCount(f) BY <1>3, WrittenSymbols
    <3>2. R \subseteq Syms OBVIOUS
    <3> HIDE DEF q, R
    <3> QED BY <3>1, <3>2
  <2>2. FileVersyms(f) = [i \in DOMAIN q |-> V(q[i])] BY <1>3 DEF FileVersyms
  <2>3. \A s \in Syms : V(s) \in WrittenVersym
    <3> SUFFICES ASSUME NEW s \in Syms PROVE V(s) \in WrittenVersym OBVIOUS
    <3>1. world \in Worlds BY DEF LinkInv
    <3>2. Sym(s).ver \in Nat \ {0} BY <3>1, WorldFacts
    <3>3. OutputVersion(f, Sym(s).ver) \in Nat \ {0} BY <3>2, OutputVersionFacts
    <3>4. Versym(OutputVersion(f, Sym(s).ver), FALSE) \in WrittenVersym
      BY <3>3 DEF Versym, WrittenVersym
    <3> QED BY <1>1, <3>4
  <2> HIDE DEF q, V
  <2>4. DOMAIN q = 1 .. Len(q) /\ Len(q) \in Nat /\ \A i \in 1 .. Len(q) : q[i] \in Syms
    BY <2>1
  <2>5. FileVersyms(f) \in [1 .. Len(q) -> WrittenVersym] BY <2>2, <2>3, <2>4
  <2> QED BY <2>1, <2>4, <2>5
<1> QED BY <1>2, <1>3

(* A file writes at most one record of .gnu.version_r, of the size that    *)
(* layout reserves.                                                        *)
LEMMA VerneedFacts ==
  ASSUME LinkInv, BaseInv, NEW f \in Files
  PROVE  \/ Verneed(f) = << >> /\ VerneedSize(f) = 0
         \/ \E t : Verneed(f) = <<t>> /\ 1 + Len(t.aux) = VerneedSize(f)
<1>1. world \in Worlds BY DEF LinkInv
<1>2. CASE VersionCount(f) = 0 BY <1>2 DEF Verneed, VerneedSize
<1>3. CASE VersionCount(f) # 0
  <2> DEFINE D == DOMAIN world.verdefs[f]
             A == {i \in D : OutputVersion(f, i + 1) # VER_NDX_GLOBAL}
             B == {i \in D : i + 1 \in needed[f]}
             used == Ascending(A)
             X(k) == [ndx |-> OutputVersion(f, used[k] + 1), name |-> world.verdefs[f][used[k]]]
             aux == [k \in DOMAIN used |-> X(k)]
             t == [lib |-> f, next |-> ~IsLastVerneed(f), aux |-> aux]
  <2>1. Shared(f) /\ VersionCount(f) = Cardinality(B) BY <1>3 DEF VersionCount
  <2>2. D = 1 .. Len(world.verdefs[f]) /\ Len(world.verdefs[f]) \in Nat
    BY <1>1, <2>1, WorldFacts
  <2>3. A = B
    <3> HIDE DEF D
    <3>1. \A i \in D : i + 1 \in Nat \ {0} /\ i + 1 >= 2 BY <2>2
    <3> QED BY <3>1, OutputVersionFacts
  <2>4. used \in Seq(A) /\ Len(used) = Cardinality(A)
    <3>1. A \in SUBSET D OBVIOUS
    <3> HIDE DEF A, D
    <3> QED BY <2>2, <3>1, AscendingFacts
  <2>5. Verneed(f) = <<t>>
    <3> HIDE DEF used, D
    <3>1. used = Ascending(A) BY DEF used
    <3> HIDE DEF A
    <3>2. A = {i \in DOMAIN world.verdefs[f] : OutputVersion(f, i + 1) # VER_NDX_GLOBAL}
      BY DEF A, D
    <3> QED BY <1>3, <3>1, <3>2, Zenon DEF Verneed
  <2>6. Len(aux) = Cardinality(A)
    <3> HIDE DEF A, D, used, X
    <3>1. DOMAIN used = 1 .. Len(used) /\ Len(used) \in Nat BY <2>4
    <3> QED BY <2>4, <3>1
  <2>7. VerneedSize(f) = 1 + VersionCount(f) BY <1>3 DEF VerneedSize
  <2>8. t.aux = aux OBVIOUS
  <2>9. 1 + Len(t.aux) = VerneedSize(f)
    <3> HIDE DEF t, aux, A, B, D
    <3> QED BY <2>1, <2>3, <2>6, <2>7, <2>8
  <2> HIDE DEF t
  <2> QED BY <2>5, <2>9
<1> QED BY <1>2, <1>3

(* The bases of versions are numbers.                                      *)
LEMMA BeforeFacts ==
  ASSUME LinkInv, NEW f \in Files
  PROVE  Before(f) \subseteq Files /\ IsFiniteSet(Before(f))
<1>1. world \in Worlds BY DEF LinkInv
<1> DEFINE at == CHOOSE i \in DOMAIN FilesInOrder : FilesInOrder[i] = f
<1>2. FilesInOrder \in Seq(Files) BY <1>1, WorldFacts, FlattenType DEF FilesInOrder
<1>3. Contains(FilesInOrder, f)
  <2>1. PICK g \in Groups : Contains(world.groups[g], f) BY <1>1, WorldFacts
  <2>2. g \in 1 .. Len(world.groups) BY <1>1, WorldFacts
  <2>3. world.groups \in Seq(Seq(Files)) BY <1>1, WorldFacts
  <2> QED BY <2>1, <2>2, <2>3, FlattenCovers DEF FilesInOrder
<1>4. \E i \in DOMAIN FilesInOrder : FilesInOrder[i] = f BY <1>2, <1>3 DEF Contains
<1>5. at \in DOMAIN FilesInOrder BY <1>4
<1>6. Before(f) = {FilesInOrder[i] : i \in 1 .. at - 1} BY DEF Before
<1> HIDE DEF at
<1>7. Before(f) \subseteq Files BY <1>2, <1>5, <1>6
<1>8. IsFiniteSet(Files) BY <1>1, WorldFacts
<1> QED BY <1>7, <1>8, FS_Subset

LEMMA VersionsBefore ==
  ASSUME LinkInv, NEW f \in Files
  PROVE  MapThenSumSet(VersionCount, Before(f)) \in Nat
<1> DEFINE S == Before(f)
<1>1. IsFiniteSet(S) /\ \A h \in S : VersionCount(h) \in Nat BY BeforeFacts, CountFacts
<1> DEFINE w == [h \in S |-> VersionCount(h)]
<1>2. w \in [S -> Nat] BY <1>1
<1>3. PICK F : Sums(F, S, w) /\ MapThenSumSet(VersionCount, S) = F[S]
  <2> HIDE DEF S
  <2> QED BY <1>1, VersionSum
<1> HIDE DEF w, S
<1>4. F \in [SUBSET S -> Nat] BY <1>1, <1>2, <1>3, SumsFacts
<1>5. S \in SUBSET S OBVIOUS
<1>6. F[S] \in Nat BY <1>4, <1>5
<1>7. MapThenSumSet(VersionCount, S) \in Nat BY <1>3, <1>6, Zenon
<1> QED BY <1>7 DEF S

LEMMA FirstVersionFacts ==
  ASSUME world \in Worlds
  PROVE  FirstVersion \in Nat /\ FirstVersion >= 2 /\ ScriptVersions \in Nat
<1>1. Len(world.versions) \in Nat BY WorldFacts
<1>2. ScriptVersions \in Nat BY <1>1 DEF ScriptVersions
<1>3. Max({1, ScriptVersions}) = IF ScriptVersions <= 1 THEN 1 ELSE ScriptVersions
  BY <1>2 DEF Max
<1> QED BY <1>2, <1>3 DEF FirstVersion, VER_NDX_GLOBAL

---------------------------------------------------------------------------
(* The slices of the groups.                                               *)
Parts(x, h) == [i \in DOMAIN x |-> h[x[i]]]

IsParts(q, x, h, Q) ==
  /\ q \in Seq(Q) /\ Len(q) = Len(x)
  /\ \A i \in 1 .. Len(x) : q[i] = h[x[i]]

LEMMA PartsFacts ==
  ASSUME NEW X, NEW x \in Seq(X), NEW Q, NEW h \in [X -> Q]
  PROVE  IsParts(Parts(x, h), x, h, Q)
<1>1. \A i \in 1 .. Len(x) : x[i] \in X OBVIOUS
<1>2. Parts(x, h) \in [1 .. Len(x) -> Q] BY <1>1 DEF Parts
<1>3. \A i \in 1 .. Len(x) : Parts(x, h)[i] = h[x[i]] BY DEF Parts
<1> QED BY <1>2, <1>3 DEF IsParts

LEMMA GroupLength ==
  ASSUME LinkInv, NEW g \in Groups, NEW T, NEW h \in [Files -> Seq(T)],
         \A f \in Files : Len(h[f]) = EntryCount(f),
         NEW q, q = Parts(world.groups[g], h)
  PROVE  FlattenSeq(q) \in Seq(T) /\ Len(FlattenSeq(q)) = DynsymSize(g)
<1>1. world \in Worlds BY DEF LinkInv
<1> DEFINE x == world.groups[g]
           S == ToSet(x)
           w == [f \in S |-> EntryCount(f)]
<1>2. x \in Seq(Files) /\ IsInjective(x) /\ g # Epilogue BY <1>1, WorldFacts
<1>3. S \subseteq Files
  <2> HIDE DEF x
  <2> QED BY <1>2 DEF ToSet
<1>4. IsFiniteSet(S) BY <1>1, <1>3, WorldFacts, FS_Subset
<1>5. \A f \in S : EntryCount(f) \in Nat BY <1>3, CountFacts
<1>6. w \in [S -> Nat] BY <1>5
<1>7. PICK F : Sums(F, S, w) /\ DynsymSize(g) = F[S] BY <1>2, <1>4, <1>5, DynsymSum
<1>8. q \in Seq(Seq(T)) /\ Len(q) = Len(x) /\ \A i \in 1 .. Len(x) : q[i] = h[x[i]]
  <2>1. q = Parts(x, h) OBVIOUS
  <2>2. PICK Q : Q = Seq(T) OBVIOUS
  <2>3. h \in [Files -> Q] BY <2>2
  <2> HIDE DEF x
  <2>4. x \in Seq(Files) BY <1>2
  <2>5. IsParts(q, x, h, Q) BY <2>1, <2>3, <2>4, PartsFacts, Zenon
  <2> QED BY <2>2, <2>5 DEF IsParts
<1>9. \A i \in 1 .. Len(x) : Len(q[i]) = w[x[i]]
  <2> SUFFICES ASSUME NEW i \in 1 .. Len(x) PROVE Len(q[i]) = w[x[i]] OBVIOUS
  <2>1. x[i] \in S
    <3> HIDE DEF x
    <3> QED BY <1>2 DEF ToSet
  <2> HIDE DEF x, S
  <2> QED BY <1>3, <1>8, <2>1
<1>10. FlattenSeq(q) \in Seq(T) BY <1>8, FlattenType
<1>11. Len(FlattenSeq(q)) = F[S]
  <2>1. x \in Seq(Files) /\ IsInjective(x) BY <1>2
  <2>2. w \in [ToSet(x) -> Nat] BY <1>6
  <2>3. Sums(F, ToSet(x), w) BY <1>7
  <2>4. q \in Seq(Seq(T)) BY <1>8
  <2>5. HasLengths(q, x, w) BY <1>8, <1>9 DEF HasLengths
  <2> HIDE DEF w, x
  <2>6. Len(FlattenSeq(q)) = F[ToSet(x)]
    BY <2>1, <2>2, <2>3, <2>4, <2>5, FlattenLength
  <2> QED BY <2>6
<1> QED BY <1>7, <1>10, <1>11

LEMMA GroupEntries ==
  ASSUME LinkInv, NEW g \in Groups
  PROVE  Len(FlattenSeq([i \in DOMAIN world.groups[g] |-> FileEntries(world.groups[g][i])]))
           = DynsymSize(g)
<1> DEFINE h == [f \in Files |-> FileEntries(f)]
           x == world.groups[g]
<1>1. h \in [Files -> Seq(EntryRecord)] BY FileEntriesFacts
<1>2. \A f \in Files : Len(h[f]) = EntryCount(f) BY FileEntriesFacts
<1>3. x \in Seq(Files) BY WorldFacts DEF LinkInv
<1>4. Parts(x, h) = [i \in DOMAIN x |-> FileEntries(x[i])]
  <2> HIDE DEF x
  <2>1. \A i \in DOMAIN x : x[i] \in Files BY <1>3
  <2> QED BY <2>1 DEF Parts
<1> HIDE DEF h
<1> QED BY <1>1, <1>2, <1>4, GroupLength

LEMMA GroupVersyms ==
  ASSUME LinkInv, BaseInv, NEW g \in Groups, NEW q,
         q = FlattenSeq([i \in DOMAIN world.groups[g] |-> FileVersyms(world.groups[g][i])])
  PROVE  q \in Seq(WrittenVersym) /\ Len(q) = DynsymSize(g)
<1> DEFINE h == [f \in Files |-> FileVersyms(f)]
           x == world.groups[g]
<1>1. h \in [Files -> Seq(WrittenVersym)] BY FileVersymsFacts
<1>2. \A f \in Files : Len(h[f]) = EntryCount(f) BY FileVersymsFacts
<1>3. x \in Seq(Files) BY WorldFacts DEF LinkInv
<1>4. Parts(x, h) = [i \in DOMAIN x |-> FileVersyms(x[i])]
  <2> HIDE DEF x
  <2>1. \A i \in DOMAIN x : x[i] \in Files BY <1>3
  <2> QED BY <2>1 DEF Parts
<1> HIDE DEF h
<1> QED BY <1>1, <1>2, <1>4, GroupLength

LEMMA GroupNeeds ==
  ASSUME LinkInv, BaseInv, NEW g \in Groups, NEW needs,
         needs = FlattenSeq([i \in DOMAIN world.groups[g] |-> Verneed(world.groups[g][i])])
  PROVE  VerneedEntries(needs) = MapThenSumSet(VerneedSize, ToSet(world.groups[g]))
<1>1. world \in Worlds BY DEF LinkInv
<1> DEFINE x == world.groups[g]
           S == ToSet(x)
           w == [f \in S |-> VerneedSize(f)]
           T == {t \in {Verneed(f)[1] : f \in S} : 1 + Len(t.aux) \in Nat}
           v == [t \in T |-> 1 + Len(t.aux)]
           q == [i \in DOMAIN x |-> Verneed(x[i])]
           r == FlattenSeq(q)
<1>2. x \in Seq(Files) /\ IsInjective(x) BY <1>1, WorldFacts
<1>3. S \subseteq Files
  <2> HIDE DEF x
  <2> QED BY <1>2 DEF ToSet
<1>4. IsFiniteSet(S) BY <1>1, <1>3, WorldFacts, FS_Subset
<1>5. \A f \in S : VerneedSize(f) \in Nat BY <1>3, CountFacts
<1>6. w \in [S -> Nat] BY <1>5
<1>7. PICK F : Sums(F, S, w) /\ MapThenSumSet(VerneedSize, S) = F[S] BY <1>4, <1>5, VerneedSum
<1>8. v \in [T -> Nat] OBVIOUS
<1>9. DOMAIN x = 1 .. Len(x) /\ Len(x) \in Nat /\ \A i \in 1 .. Len(x) : x[i] \in S
  <2> HIDE DEF x
  <2> QED BY <1>2 DEF ToSet
<1>10. \A i \in 1 .. Len(x) : \/ q[i] = << >> /\ w[x[i]] = 0
                              \/ \E t \in T : q[i] = <<t>> /\ w[x[i]] = v[t]
  <2> SUFFICES ASSUME NEW i \in 1 .. Len(x)
               PROVE  \/ q[i] = << >> /\ w[x[i]] = 0
                      \/ \E t \in T : q[i] = <<t>> /\ w[x[i]] = v[t]
    OBVIOUS
  <2>1. PICK f \in S : f = x[i] BY <1>9
  <2>2. q[i] = Verneed(f) /\ w[x[i]] = VerneedSize(f) BY <1>9, <2>1
  <2>3. CASE Verneed(f) = << >> /\ VerneedSize(f) = 0 BY <2>2, <2>3
  <2>4. CASE \E t : Verneed(f) = <<t>> /\ 1 + Len(t.aux) = VerneedSize(f)
    <3>1. PICK t : Verneed(f) = <<t>> /\ 1 + Len(t.aux) = VerneedSize(f) BY <2>4
    <3>2. t = Verneed(f)[1] BY <3>1
    <3>3. 1 + Len(t.aux) \in Nat BY <1>5, <3>1
    <3> HIDE DEF S
    <3>4. t \in T BY <3>2, <3>3
    <3>5. v[t] = VerneedSize(f) BY <3>1, <3>4
    <3> HIDE DEF T, v, w, q, x
    <3> QED BY <2>2, <3>1, <3>4, <3>5
  <2> QED BY <1>3, <2>3, <2>4, VerneedFacts
<1>11. q \in Seq(Seq(T)) /\ Len(q) = Len(x)
  <2>1. \A i \in 1 .. Len(x) : q[i] \in Seq(T)
    <3> SUFFICES ASSUME NEW i \in 1 .. Len(x) PROVE q[i] \in Seq(T) OBVIOUS
    <3> HIDE DEF T, q, v, w, x
    <3>1. CASE q[i] = << >> BY <3>1
    <3>2. CASE \E t \in T : q[i] = <<t>>
      <4>1. PICK t \in T : q[i] = <<t>> BY <3>2
      <4> QED BY <4>1
    <3> QED BY <1>10, <3>1, <3>2
  <2>2. q = [i \in 1 .. Len(x) |-> q[i]] BY <1>9
  <2> HIDE DEF T, q
  <2>3. q \in [1 .. Len(x) -> Seq(T)] BY <2>1, <2>2
  <2> HIDE DEF x
  <2> QED BY <1>9, <2>3
<1>12. PICK G : Runs(G, r, v) /\ G[Len(r)] = F[S]
  <2>1. w \in [ToSet(x) -> Nat] /\ Sums(F, ToSet(x), w) BY <1>6, <1>7
  <2>2. HasSizes(q, x, w, T, v)
    <3> HIDE DEF w, T, v, q, x
    <3> QED BY <1>10, <1>11 DEF HasSizes
  <2> HIDE DEF w, T, v, q, x
  <2>3. RunsTo(FlattenSeq(q), v, F[ToSet(x)])
    BY <1>2, <1>8, <1>11, <2>1, <2>2, FlattenRuns, Zenon
  <2> QED BY <2>3 DEF RunsTo
<1>13. r \in Seq(T)
  <2> HIDE DEF T, q
  <2> QED BY <1>11, FlattenType
<1>14. needs = r OBVIOUS
<1> HIDE DEF x, q, r, w
<1>15. DOMAIN r = 1 .. Len(r) /\ Len(r) \in Nat /\ \A i \in 1 .. Len(r) : r[i] \in T
  <2> HIDE DEF T
  <2> QED BY <1>13
<1>16. \A i \in DOMAIN r : 1 + Len(r[i].aux) \in Nat /\ v[r[i]] = 1 + Len(r[i].aux)
  <2> SUFFICES ASSUME NEW i \in DOMAIN r
               PROVE  1 + Len(r[i].aux) \in Nat /\ v[r[i]] = 1 + Len(r[i].aux)
    OBVIOUS
  <2>1. PICK t \in T : t = r[i] BY <1>15
  <2>2. 1 + Len(t.aux) \in Nat /\ v[t] = 1 + Len(t.aux) BY <2>1
  <2> HIDE DEF T, v
  <2> QED BY <2>1, <2>2
<1> DEFINE D == DOMAIN r
<1>17. IsFiniteSet(D) BY <1>15, FS_Interval
<1>18. PICK H : /\ Sums(H, D, [i \in D |-> 1 + Len(needs[i].aux)])
               /\ VerneedEntries(needs) = H[D]
  <2>1. D = DOMAIN needs /\ \A i \in D : 1 + Len(needs[i].aux) \in Nat
    <3> HIDE DEF T, v
    <3> QED BY <1>14, <1>16
  <2> HIDE DEF T, v, D, S
  <2> QED BY <1>17, <2>1, NeedsSum, Zenon
<1>19. [i \in D |-> 1 + Len(needs[i].aux)] = [i \in D |-> v[r[i]]]
  <2> HIDE DEF T, v
  <2> QED BY <1>14, <1>16
<1>20. H[D] = G[Len(r)]
  <2>1. Sums(H, D, [i \in D |-> v[r[i]]]) BY <1>18, <1>19, Zenon
  <2> HIDE DEF T, v
  <2> QED BY <1>8, <1>12, <1>13, <2>1, RunsSum
<1>21. DOMAIN needs = D BY <1>14
<1>22. ToSet(world.groups[g]) = S BY DEF x
<1> HIDE DEF T, v, S, D
<1> QED BY <1>7, <1>12, <1>18, <1>20, <1>21, <1>22, Zenon

---------------------------------------------------------------------------
(* The definitions, in chunks.                                             *)
NoScripts == \A f \in Files : world.kind[f] # "script"

LEMMA DefinitionVersymFacts ==
  ASSUME LinkInv, BaseInv, NEW s \in Syms
  PROVE  DefinitionVersym(s) \in WrittenVersym
<1>1. world \in Worlds BY DEF LinkInv
<1>2. Sym(s).file \in Files /\ Sym(s).ver \in Nat \ {0} /\ Sym(s).hidden \in BOOLEAN
  BY <1>1, WorldFacts
<1>3. OutputVersion(Sym(s).file, Sym(s).ver) \in Nat \ {0} BY <1>2, OutputVersionFacts
<1> QED BY <1>2, <1>3 DEF DefinitionVersym, Versym, WrittenVersym

LEMMA ChunkVersymsFacts ==
  ASSUME LinkInv, BaseInv, NoScripts, NEW c \in Seq(Syms)
  PROVE  ChunkVersyms(c) \in Seq(WrittenVersym) /\ Len(ChunkVersyms(c)) = Len(c)
<1>1. world \in Worlds BY DEF LinkInv
<1> DEFINE A == {i \in DOMAIN c : world.kind[Sym(c[i]).file] # "script"}
           used == Ascending(A)
<1>2. DOMAIN c = 1 .. Len(c) /\ Len(c) \in Nat /\ \A i \in 1 .. Len(c) : c[i] \in Syms OBVIOUS
<1>3. A = 1 .. Len(c)
  <2>1. \A i \in 1 .. Len(c) : Sym(c[i]).file \in Files BY <1>1, <1>2, WorldFacts
  <2> QED BY <1>2, <2>1 DEF NoScripts
<1>4. used \in Seq(1 .. Len(c)) /\ Len(used) = Len(c)
  <2>1. Cardinality(1 .. Len(c)) = Len(c)
    <3>1. PICK k \in Nat : k = Len(c) BY <1>2, Zenon
    <3>2. Cardinality(1 .. k) = IF 1 > k THEN 0 ELSE k - 1 + 1 BY FS_Interval
    <3> QED BY <3>1, <3>2
  <2> HIDE DEF A
  <2>2. A \in SUBSET (1 .. Len(c)) BY <1>3
  <2>3. used \in Seq(A) /\ Len(used) = Cardinality(A) BY <1>2, <2>2, AscendingFacts
  <2> HIDE DEF used
  <2> QED BY <1>3, <2>1, <2>3
<1>5. ChunkVersyms(c)
        = [i \in DOMAIN c |-> IF i <= Len(used) THEN DefinitionVersym(c[used[i]]) ELSE Unwritten]
  BY DEF ChunkVersyms
<1> HIDE DEF A, used
<1>6. \A i \in 1 .. Len(c) : used[i] \in 1 .. Len(c)
  <2>1. PICK T : T = 1 .. Len(c) OBVIOUS
  <2>2. used \in Seq(T) /\ DOMAIN used = 1 .. Len(c) BY <1>4, <2>1
  <2>3. \A i \in DOMAIN used : used[i] \in T BY <2>2
  <2> QED BY <2>1, <2>2, <2>3
<1>7. \A i \in 1 .. Len(c) : DefinitionVersym(c[used[i]]) \in WrittenVersym
  BY <1>2, <1>6, DefinitionVersymFacts
<1>8. ChunkVersyms(c) \in [1 .. Len(c) -> WrittenVersym] BY <1>2, <1>4, <1>5, <1>7
<1> QED BY <1>2, <1>8

LEMMA DefinitionVersymsFacts ==
  ASSUME LinkInv, BaseInv, NoScripts, NEW size \in ChunkSizes
  PROVE  /\ DefinitionVersyms(size) \in Seq(WrittenVersym)
         /\ Len(DefinitionVersyms(size)) = Len(definitions)
<1>1. world \in Worlds BY DEF LinkInv
<1>2. size \in Nat \ {0} BY ChunksArePositive
<1>3. definitions \in Seq(Syms) BY DEF LinkInv
<1> DEFINE n == Len(definitions)
           m == (n + size - 1) \div size
           Chunk(k) == SubSeq(definitions, (k - 1) * size + 1, Min({k * size, n}))
           q == [k \in 1 .. m |-> ChunkVersyms(Chunk(k))]
           To(k) == IF k * size <= n THEN k * size ELSE n
<1>4. n \in Nat BY <1>3
<1>5. /\ m \in Nat /\ m * size >= n
      /\ \A k \in 1 .. m : (k - 1) * size \in Nat /\ (k - 1) * size < n
  <2> HIDE DEF n
  <2> QED BY <1>2, <1>4, ChunkCount
<1>6. DefinitionVersyms(size) = FlattenSeq(q) BY DEF DefinitionVersyms
<1> HIDE DEF n, m
<1>7. ASSUME NEW k \in 1 .. m
      PROVE  /\ Chunk(k) \in Seq(Syms)
             /\ To(k - 1) = (k - 1) * size
             /\ Len(Chunk(k)) = To(k) - To(k - 1)
             /\ To(k) \in Nat /\ To(k - 1) \in Nat
  <2>1. k - 1 \in Nat /\ k \in Nat BY <1>5
  <2>2. PICK a \in Nat : a = (k - 1) * size BY <1>5
  <2>3. k * size = a + size BY <1>2, <2>1, <2>2
  <2>4. a < n BY <1>5, <2>2
  <2>5. Min({k * size, n}) = To(k) /\ To(k) \in Nat /\ a < To(k) /\ To(k) <= n
    BY <1>2, <1>4, <2>2, <2>3, <2>4, MinOfTwo
  <2>6. To(k - 1) = a
    <3>1. a <= n BY <1>4, <2>4
    <3> QED BY <2>2, <3>1
  <2> HIDE DEF To
  <2>7. PICK b \in Nat : b = To(k) BY <2>5
  <2>8. Chunk(k) = SubSeq(definitions, a + 1, b) BY <2>2, <2>5, <2>7
  <2>9. a + 1 \in 1 .. n /\ b <= n /\ a < b BY <1>4, <2>4, <2>5, <2>7
  <2>10. SubSeq(definitions, a + 1, b) \in Seq(Syms) /\ Len(SubSeq(definitions, a + 1, b)) = b - a
    BY <1>3, <2>9 DEF n
  <2> HIDE DEF Chunk
  <2> QED BY <2>2, <2>6, <2>7, <2>8, <2>10
<1>8. ASSUME NEW k \in 1 .. m
      PROVE  q[k] \in Seq(WrittenVersym) /\ Len(q[k]) = To(k) - To(k - 1)
  <2>1. Chunk(k) \in Seq(Syms) /\ Len(Chunk(k)) = To(k) - To(k - 1) BY <1>7
  <2> HIDE DEF Chunk, To
  <2>2. q[k] = ChunkVersyms(Chunk(k)) OBVIOUS
  <2> QED BY <2>1, <2>2, ChunkVersymsFacts
<1>9. q \in Seq(Seq(WrittenVersym)) /\ Len(q) = m
  <2>1. PICK Q : Q = Seq(WrittenVersym) OBVIOUS
  <2>2. q = [k \in 1 .. m |-> q[k]] OBVIOUS
  <2>3. \A k \in 1 .. m : q[k] \in Q BY <1>8, <2>1
  <2> HIDE DEF q
  <2>4. q \in [1 .. m -> Q] BY <2>2, <2>3
  <2>5. q \in Seq(Q) /\ Len(q) = m BY <1>5, <2>4
  <2> QED BY <2>1, <2>5
<1> HIDE DEF q
<1>10. PICK f \in [0 .. m -> Seq(WrittenVersym)] : Flattens(f, q) /\ FlattenSeq(q) = f[m]
  BY <1>9, FlattenFacts
<1> DEFINE P == {k \in 0 .. m : Len(f[k]) = To(k)}
<1>11. 0 \in P
  <2>1. 0 * size = 0 /\ 0 <= n BY <1>2, <1>4
  <2>2. To(0) = 0 BY <2>1
  <2>3. f[0] = << >> BY <1>9, <1>10 DEF Flattens
  <2>4. 0 \in 0 .. m BY <1>5
  <2> QED BY <2>2, <2>3, <2>4
<1>12. ASSUME NEW k \in 0 .. m, k \in P, k < m PROVE k + 1 \in P
  <2> HIDE DEF To
  <2>1. k + 1 \in 1 .. m /\ (k + 1) - 1 = k /\ k + 1 \in 0 .. m
    <3> HIDE DEF P
    <3> QED BY <1>5, <1>12
  <2>2. f[k + 1] = f[k] \o q[k + 1] BY <1>9, <1>10, <2>1 DEF Flattens
  <2>3. q[k + 1] \in Seq(WrittenVersym) /\ Len(q[k + 1]) = To(k + 1) - To(k) BY <1>8, <2>1
  <2>4. To(k + 1) \in Nat /\ To(k) \in Nat BY <1>7, <2>1
  <2>5. Len(f[k]) = To(k) BY <1>12
  <2>6. f[k] \in Seq(WrittenVersym) BY <1>10
  <2> HIDE DEF P
  <2>7. Len(f[k + 1]) = To(k + 1)
    <3>1. PICK a \in Seq(WrittenVersym) : a = f[k] BY <2>6
    <3>2. PICK b \in Seq(WrittenVersym) : b = q[k + 1] BY <2>3
    <3>3. Len(a \o b) = Len(a) + Len(b) OBVIOUS
    <3>4. f[k + 1] = a \o b BY <2>2, <3>1, <3>2
    <3>5. Len(a) = To(k) /\ Len(b) = To(k + 1) - To(k) BY <2>3, <2>5, <3>1, <3>2
    <3>6. PICK i \in Nat, j \in Nat : i = To(k) /\ j = To(k + 1) BY <2>4, Zenon
    <3>7. Len(f[k + 1]) = j BY <3>3, <3>4, <3>5, <3>6
    <3> QED BY <3>6, <3>7
  <2> QED BY <2>1, <2>7 DEF P
<1>13. m \in P
  <2> HIDE DEF P
  <2>1. m \in 0 .. m BY <1>5
  <2> QED BY <1>5, <1>11, <1>12, <2>1, UpTo
<1>14. To(m) = n BY <1>2, <1>4, <1>5
<1>15. f[m] \in Seq(WrittenVersym) /\ Len(f[m]) = n BY <1>5, <1>10, <1>13, <1>14
<1> QED BY <1>6, <1>10, <1>15 DEF n

LEMMA NoEntries == VerneedEntries(<< >>) = 0 /\ VerdefEntries(<< >>) = 0
<1> DEFINE z == << >>
           S == DOMAIN z
<1>1. S = {} OBVIOUS
<1>2. IsFiniteSet(S) BY <1>1, FS_EmptySet
<1>3. PICK F : Sums(F, S, [i \in S |-> 1 + Len(z[i].aux)]) /\ VerneedEntries(z) = F[S]
  BY <1>1, <1>2, NeedsSum
<1>4. PICK G : /\ Sums(G, S, [i \in S |-> 2 + (IF z[i].parent > 0 THEN 1 ELSE 0)])
              /\ VerdefEntries(z) = G[S]
  BY <1>1, <1>2, VerdefsSum
<1>5. ASSUME NEW H, NEW w, Sums(H, S, w) PROVE H[S] = 0
  <2> HIDE DEF S
  <2> QED BY <1>1, <1>5 DEF Sums, SumRule
<1> HIDE DEF S
<1>6. F[S] = 0 /\ G[S] = 0 BY <1>3, <1>4, <1>5
<1> QED BY <1>3, <1>4, <1>6

(* A version with a parent has one entry more.                             *)
LEMMA VerdefsCount ==
  ASSUME world \in Worlds
  PROVE  VerdefEntries(Verdefs) = 2 * ScriptVersions + ParentCount
<1>1. world.versions \in Seq([name : STRING, parent : Nat]) BY WorldFacts
<1>2. CASE world.versions = << >>
  <2>1. ScriptVersions = 0 /\ Verdefs = << >> BY <1>2 DEF ScriptVersions, Verdefs
  <2>2. ParentCount = 0
    <3>1. {i \in DOMAIN world.versions : world.versions[i].parent > 0} = {} BY <1>2
    <3> QED BY <3>1, FS_EmptySet DEF ParentCount
  <2> QED BY <2>1, <2>2, NoEntries
<1>3. CASE world.versions # << >>
  <2> DEFINE n == Len(world.versions)
             m == n + 1
             V(i) == [ndx |-> VER_NDX_GLOBAL + i - 1, base |-> i = 1,
                      name |-> IF i = 1 THEN "" ELSE world.versions[i - 1].name,
                      parent |-> IF i = 1 THEN 0 ELSE world.versions[i - 1].parent]
             D == 1 .. m
             E(k) == {i \in 1 .. k - 1 : world.versions[i].parent > 0}
  <2>1. n \in Nat /\ m \in Nat /\ DOMAIN world.versions = 1 .. n /\ n = m - 1 BY <1>1
  <2>2. \A i \in 1 .. n : world.versions[i].parent \in Nat
    <3> DEFINE R == [name : STRING, parent : Nat]
    <3>1. \A r \in R : r.parent \in Nat OBVIOUS
    <3>2. world.versions \in Seq(R) BY <1>1
    <3> HIDE DEF R
    <3>3. PICK q \in Seq(R) : q = world.versions BY <3>2
    <3>4. \A i \in 1 .. Len(q) : q[i] \in R OBVIOUS
    <3> QED BY <3>1, <3>3, <3>4
  <2>3. ScriptVersions = m BY <1>3 DEF ScriptVersions
  <2>4. Verdefs = [i \in 1 .. m |-> V(i)]
    <3>1. ScriptVersions # 0 BY <2>1, <2>3
    <3>2. Verdefs = [i \in 1 .. ScriptVersions |-> V(i)] BY <3>1, Zenon DEF Verdefs
    <3> HIDE DEF V, m
    <3> QED BY <2>3, <3>2
  <2>5. PICK verdefs : verdefs = Verdefs OBVIOUS
  <2>6. \A i \in D : verdefs[i].parent = IF i = 1 THEN 0 ELSE world.versions[i - 1].parent
    <3> SUFFICES ASSUME NEW i \in D
                 PROVE  verdefs[i].parent = IF i = 1 THEN 0 ELSE world.versions[i - 1].parent
      OBVIOUS
    <3>1. V(i).parent = IF i = 1 THEN 0 ELSE world.versions[i - 1].parent OBVIOUS
    <3> HIDE DEF V, m
    <3>2. verdefs[i] = V(i) BY <2>4, <2>5
    <3> QED BY <3>1, <3>2
  <2>7. DOMAIN verdefs = D
    <3> HIDE DEF V, m
    <3> QED BY <2>4, <2>5
  <2> HIDE DEF V, n, m
  <2>8. \A i \in D : verdefs[i].parent \in Nat
    <3>1. \A i \in D : i # 1 => i - 1 \in 1 .. n BY <2>1
    <3> QED BY <2>2, <2>6, <3>1
  <2>9. IsFiniteSet(D) BY <2>1, FS_Interval
  <2> DEFINE w == [i \in D |-> 2 + (IF verdefs[i].parent > 0 THEN 1 ELSE 0)]
  <2>10. PICK F : Sums(F, D, w) /\ VerdefEntries(verdefs) = F[D]
    <3> HIDE DEF D
    <3> QED BY <2>7, <2>8, <2>9, VerdefsSum
  <2>11. w \in [D -> Nat] BY <2>8
  <2>12. F[{}] = 0 /\ \A d \in SUBSET D : Splits(F, w, d)
    <3> HIDE DEF w, D
    <3> QED BY <2>9, <2>10, <2>11, SumsFacts
  <2> DEFINE P == {k \in 0 .. m : F[1 .. k] = 2 * k + Cardinality(E(k))}
  <2>13. \A k \in 0 .. m : IsFiniteSet(E(k)) /\ Cardinality(E(k)) \in Nat
    <3> SUFFICES ASSUME NEW k \in 0 .. m
                 PROVE  IsFiniteSet(E(k)) /\ Cardinality(E(k)) \in Nat
      OBVIOUS
    <3>0. k - 1 \in Int BY <2>1
    <3>1. IsFiniteSet(1 .. k - 1) BY <3>0, FS_Interval
    <3>2. IsFiniteSet(E(k)) BY <3>1, FS_Subset
    <3> QED BY <3>2, FS_CardinalityType
  <2>14. 0 \in P
    <3>1. 1 .. 0 = {} /\ E(0) = {} BY <2>1
    <3>2. 0 \in 0 .. m BY <2>1
    <3>3. Cardinality(E(0)) = 0 BY <3>1, FS_EmptySet
    <3> HIDE DEF E
    <3> QED BY <2>12, <3>1, <3>2, <3>3
  <2>15. ASSUME NEW k \in 0 .. m, k \in P, k < m PROVE k + 1 \in P
    <3>1. k + 1 \in D /\ k + 1 \in 0 .. m /\ (k + 1) - 1 = k
      <4> HIDE DEF P
      <4> QED BY <2>1, <2>15
    <3>2. 1 .. k + 1 \in SUBSET D /\ k + 1 \in 1 .. k + 1
            /\ (1 .. k + 1) \ {k + 1} = 1 .. k
      <4> HIDE DEF P
      <4> QED BY <2>1, <3>1
    <3>3. F[1 .. k + 1] = w[k + 1] + F[1 .. k]
      <4> HIDE DEF w, D, P
      <4>1. Splits(F, w, 1 .. k + 1) BY <2>12, <3>2, Zenon
      <4>2. F[1 .. k + 1] = w[k + 1] + F[(1 .. k + 1) \ {k + 1}] BY <3>2, <4>1 DEF Splits
      <4> QED BY <3>2, <4>2
    <3>4. w[k + 1] = 2 + (IF verdefs[k + 1].parent > 0 THEN 1 ELSE 0) BY <3>1
    <3>5. F[1 .. k] = 2 * k + Cardinality(E(k)) BY <2>15
    <3>6. Cardinality(E(k + 1))
            = Cardinality(E(k)) + (IF verdefs[k + 1].parent > 0 THEN 1 ELSE 0)
      <4>1. CASE k = 0
        <5>1. E(k + 1) = {} /\ E(k) = {} BY <4>1
        <5>2. verdefs[k + 1].parent = 0 BY <2>6, <3>1, <4>1
        <5> HIDE DEF E
        <5> QED BY <5>1, <5>2, FS_EmptySet
      <4>2. CASE k # 0 /\ world.versions[k].parent > 0
        <5>1. E(k + 1) = E(k) \cup {k} /\ k \notin E(k) BY <2>1, <3>1, <4>2
        <5>2. verdefs[k + 1].parent = world.versions[k].parent
          BY <2>6, <3>1, <4>2
        <5>3. IsFiniteSet(E(k)) /\ Cardinality(E(k)) \in Nat BY <2>13
        <5> HIDE DEF E
        <5>4. Cardinality(E(k) \cup {k}) = Cardinality(E(k)) + 1 BY <5>1, <5>3, FS_AddElement
        <5> QED BY <4>2, <5>1, <5>2, <5>3, <5>4
      <4>3. CASE k # 0 /\ ~(world.versions[k].parent > 0)
        <5>1. E(k + 1) = E(k) BY <2>1, <3>1, <4>3
        <5>2. verdefs[k + 1].parent = world.versions[k].parent
          BY <2>6, <3>1, <4>3
        <5>3. Cardinality(E(k)) \in Nat BY <2>13
        <5> HIDE DEF E
        <5> QED BY <4>3, <5>1, <5>2, <5>3
      <4> QED BY <4>1, <4>2, <4>3
    <3>7. Cardinality(E(k)) \in Nat BY <2>13
    <3>8. F[1 .. k + 1] = 2 * (k + 1) + Cardinality(E(k + 1))
      <4> HIDE DEF E, w, P
      <4>1. PICK c \in Nat : c = Cardinality(E(k)) BY <3>7
      <4>2. PICK d \in {0, 1} : d = IF verdefs[k + 1].parent > 0 THEN 1 ELSE 0 OBVIOUS
      <4>3. F[1 .. k + 1] = 2 + d + (2 * k + c) BY <3>3, <3>4, <3>5, <4>1, <4>2
      <4>4. Cardinality(E(k + 1)) = c + d BY <3>6, <4>1, <4>2
      <4> QED BY <4>3, <4>4
    <3> HIDE DEF E
    <3> QED BY <3>1, <3>8
  <2>16. m \in P
    <3> HIDE DEF P, D
    <3>1. m \in 0 .. m BY <2>1
    <3> QED BY <2>1, <2>14, <2>15, <3>1, UpTo
  <2>17. Cardinality(E(m)) = ParentCount BY <2>1 DEF ParentCount
  <2> HIDE DEF E, w
  <2> QED BY <2>3, <2>5, <2>10, <2>16, <2>17
<1> QED BY <1>2, <1>3

---------------------------------------------------------------------------
(* What layout reserves, with versions or without.                         *)
Reserved(versioned) ==
  [g \in 1 .. Epilogue |->
     [dynsym    |-> DynsymSize(g),
      versym    |-> IF versioned THEN DynsymSize(g) ELSE 0,
      version_r |-> IF g = Epilogue THEN 0 ELSE MapThenSumSet(VerneedSize, ToSet(world.groups[g])),
      version_d |-> IF g = Epilogue THEN 2 * ScriptVersions + ParentCount ELSE 0]]

LEMMA GroupFits ==
  ASSUME LinkInv, BaseInv, NEW versioned \in BOOLEAN, mem = Reserved(versioned),
         NEW g \in Groups, NEW written, NEW versyms,
         versyms = FlattenSeq([i \in DOMAIN world.groups[g] |-> FileVersyms(world.groups[g][i])]),
         written.dynsym
           = FlattenSeq([i \in DOMAIN world.groups[g] |-> FileEntries(world.groups[g][i])]),
         written.versym = IF GnuVersionEnabled THEN versyms ELSE << >>,
         written.needs
           = FlattenSeq([i \in DOMAIN world.groups[g] |-> Verneed(world.groups[g][i])]),
         written.verdefs = << >>
  PROVE  Exhausts(written, mem[g]) /\ written.versym \in Seq(WrittenVersym)
<1>1. world \in Worlds BY DEF LinkInv
<1>2. g # Epilogue /\ g \in 1 .. Epilogue BY <1>1, WorldFacts
<1>3. /\ mem[g].dynsym = DynsymSize(g)
      /\ mem[g].versym = IF versioned THEN DynsymSize(g) ELSE 0
      /\ mem[g].version_r = MapThenSumSet(VerneedSize, ToSet(world.groups[g]))
      /\ mem[g].version_d = 0
  BY <1>2 DEF Reserved
<1>4. DOMAIN mem = 1 .. Epilogue BY DEF Reserved
<1>5. versyms \in Seq(WrittenVersym) /\ Len(versyms) = DynsymSize(g) BY GroupVersyms
<1>6. DynsymSize(g) \in Nat BY <1>5
<1>7. Len(written.dynsym) = mem[g].dynsym BY <1>3, GroupEntries
<1>8. GnuVersionEnabled \/ mem[g].versym = 0
  <2>1. mem[g].versym \in Nat BY <1>3, <1>6
  <2>2. GnuVersionEnabled \/ ~(mem[g].versym > 0) BY <1>2, <1>4 DEF GnuVersionEnabled
  <2> QED BY <2>1, <2>2
<1>9. GnuVersionEnabled => versioned
  <2>1. ASSUME ~versioned PROVE \A h \in DOMAIN mem : mem[h].versym = 0 BY <1>4, <2>1 DEF Reserved
  <2> QED BY <2>1 DEF GnuVersionEnabled
<1>10. Len(written.versym) = mem[g].versym /\ written.versym \in Seq(WrittenVersym)
  <2>1. CASE GnuVersionEnabled BY <1>3, <1>5, <1>9, <2>1
  <2>2. CASE ~GnuVersionEnabled
    <3>1. written.versym = << >> BY <2>2
    <3> QED BY <1>8, <2>2, <3>1
  <2> QED BY <2>1, <2>2
<1>11. VerneedEntries(written.needs) = mem[g].version_r BY <1>3, GroupNeeds
<1>12. VerdefEntries(written.verdefs) = mem[g].version_d BY <1>3, NoEntries
<1> QED BY <1>7, <1>10, <1>11, <1>12 DEF Exhausts

LEMMA EpilogueFits ==
  ASSUME LinkInv, BaseInv, NEW versioned \in BOOLEAN, mem = Reserved(versioned),
         versioned => NoScripts, NEW size \in ChunkSizes, NEW written,
         written.dynsym
           = [i \in DOMAIN definitions |-> [sym |-> definitions[i], defined |-> TRUE]],
         written.versym = IF mem[Epilogue].versym = 0 THEN << >> ELSE DefinitionVersyms(size),
         written.needs = << >>, written.verdefs = Verdefs
  PROVE  Exhausts(written, mem[Epilogue]) /\ written.versym \in Seq(WrittenVersym)
<1>1. world \in Worlds BY DEF LinkInv
<1>2. Epilogue \in 1 .. Epilogue BY <1>1, WorldFacts
<1>3. /\ mem[Epilogue].dynsym = Len(definitions)
      /\ mem[Epilogue].versym = IF versioned THEN Len(definitions) ELSE 0
      /\ mem[Epilogue].version_r = 0
      /\ mem[Epilogue].version_d = 2 * ScriptVersions + ParentCount
  <2>1. DynsymSize(Epilogue) = Len(definitions) BY Zenon DEF DynsymSize
  <2> QED BY <1>2, <2>1 DEF Reserved
<1>4. Len(definitions) \in Nat /\ DOMAIN definitions = 1 .. Len(definitions) BY DEF LinkInv
<1>5. Len(written.dynsym) = mem[Epilogue].dynsym BY <1>3, <1>4
<1>6. Len(written.versym) = mem[Epilogue].versym /\ written.versym \in Seq(WrittenVersym)
  <2>1. CASE mem[Epilogue].versym = 0
    <3>1. written.versym = << >> BY <2>1
    <3> QED BY <2>1, <3>1
  <2>2. CASE mem[Epilogue].versym # 0
    <3>1. versioned /\ mem[Epilogue].versym = Len(definitions) BY <1>3, <2>2
    <3> QED BY <2>2, <3>1, DefinitionVersymsFacts
  <2> QED BY <2>1, <2>2
<1>7. VerneedEntries(written.needs) = mem[Epilogue].version_r BY <1>3, NoEntries
<1>8. VerdefEntries(written.verdefs) = mem[Epilogue].version_d BY <1>1, <1>3, VerdefsCount
<1> QED BY <1>5, <1>6, <1>7, <1>8 DEF Exhausts

(* Nothing that the sizes depend on changes once they are reserved.        *)
Unused == ScriptVersions = 0 /\ \A f \in Files : VersionCount(f) = 0

LEMMA ReservedAgain ==
  ASSUME world' = world, flags' = flags, needed' = needed, definitions' = definitions
  PROVE  /\ \A versioned : Reserved(versioned)' = Reserved(versioned)
         /\ Unused' = Unused
<1>1. ASSUME NEW g PROVE DynsymSize(g)' = DynsymSize(g)
  BY SMT DEF DynsymSize, Epilogue, SymsOf, EntryReserved, Syms, Sym, Dynamic, HasResolution,
             MapThenSumSet, MapThenFoldSet, Ascending
<1>2. ASSUME NEW g
      PROVE  MapThenSumSet(VerneedSize, ToSet(world.groups[g]))'
               = MapThenSumSet(VerneedSize, ToSet(world.groups[g]))
  BY SMT DEF VerneedSize, VersionCount, Shared, MapThenSumSet, MapThenFoldSet, ToSet
<1>3. Epilogue' = Epilogue /\ ScriptVersions' = ScriptVersions /\ ParentCount' = ParentCount
  BY DEF Epilogue, ScriptVersions, ParentCount
<1>4. ASSUME NEW versioned PROVE Reserved(versioned)' = Reserved(versioned)
  BY <1>1, <1>2, <1>3, SMT DEF Reserved
<1>5. Unused' = Unused BY DEF Unused, ScriptVersions, Files, VersionCount, Shared
<1> QED BY <1>4, <1>5

---------------------------------------------------------------------------
(* The traversal and the merge.                                            *)
Link == <<world, todo, flags, needed, defs, definitions>>

LEMMA LinkUnchanged ==
  ASSUME LinkInv, UNCHANGED Link
  PROVE  LinkInv'
  BY SMT DEF LinkInv, Link, Syms, Sym, Files, Groups, Special

FlagsInv ==
  /\ flags \in [Syms -> SUBSET Flag]
  /\ \A s \in Syms : flags[s] # {} => Sym(s).canonical
  /\ \A s \in Syms : "COPY_RELOCATION" \in flags[s] => Sym(s).kind = "shared"

NeededInv ==
  /\ needed \in [Files -> SUBSET Nat]
  /\ \A f \in Files : needed[f] # {} =>
        \E s \in Syms : Sym(s).kind = "shared" /\ ~Special(Sym(s).ver)

LEMMA LinkStep ==
  ASSUME LinkInv, world' = world, todo' \subseteq todo, FlagsInv', NeededInv',
         defs' \in [Groups -> Seq(Syms)], definitions' \in Seq(Syms)
  PROVE  LinkInv'
<1>1. /\ Syms' = Syms /\ Files' = Files /\ Groups' = Groups
      /\ \A s : Sym(s)' = Sym(s)
  BY DEF Syms, Sym, Files, Groups
<1>2. world' \in Worlds /\ todo' \subseteq world'.requests BY DEF LinkInv
<1>3. defs' \in [Groups' -> Seq(Syms')] /\ definitions' \in Seq(Syms') BY <1>1
<1>4. LinkInv <=> /\ world \in Worlds /\ todo \subseteq world.requests
                 /\ FlagsInv /\ NeededInv
                 /\ defs \in [Groups -> Seq(Syms)] /\ definitions \in Seq(Syms)
  BY DEF LinkInv, FlagsInv, NeededInv
<1>5. LinkInv' <=> /\ world' \in Worlds /\ todo' \subseteq world'.requests
                  /\ FlagsInv' /\ NeededInv'
                  /\ defs' \in [Groups' -> Seq(Syms')] /\ definitions' \in Seq(Syms')
  BY Zenon DEF LinkInv, FlagsInv, NeededInv
<1> QED BY <1>2, <1>3, <1>5

LEMMA LinkParts ==
  ASSUME LinkInv
  PROVE  /\ FlagsInv /\ NeededInv
         /\ defs \in [Groups -> Seq(Syms)] /\ definitions \in Seq(Syms)
         /\ world' = world =>
               /\ flags' = flags => FlagsInv'
               /\ needed' = needed => NeededInv'
<1>1. /\ FlagsInv /\ NeededInv
      /\ defs \in [Groups -> Seq(Syms)] /\ definitions \in Seq(Syms)
  BY DEF LinkInv, FlagsInv, NeededInv
<1>2. world' = world /\ flags' = flags => FlagsInv' BY <1>1 DEF FlagsInv, Syms, Sym
<1>3. world' = world /\ needed' = needed => NeededInv'
  BY <1>1 DEF NeededInv, Syms, Sym, Files, Special
<1> QED BY <1>1, <1>2, <1>3

(* Symbols of a file, chosen by a condition.                               *)
LEMMA ChosenSymbols ==
  ASSUME world \in Worlds, NEW S \in SUBSET Syms
  PROVE  /\ Ascending(S) \in Seq(Syms)
         /\ \A s : Contains(Ascending(S), s) => s \in S
<1>1. PICK q : q = Ascending(S) OBVIOUS
<1>2. q \in Seq(S) BY <1>1, SelectedSymbols
<1>3. q \in Seq(Syms) BY <1>2
<1>4. \A s : Contains(q, s) => s \in S BY <1>2 DEF Contains
<1> QED BY <1>1, <1>3, <1>4

LEMMA ActivateFileLink ==
  ASSUME LinkInv, NEW f \in Files, ActivateFile(f)
  PROVE  LinkInv'
<1>1. world \in Worlds BY DEF LinkInv
<1> DEFINE S == {s \in Syms : Sym(s).file = f /\ CanExport(s) /\ "EXPORT_DYNAMIC" \notin flags[s]}
<1>2. PICK new : /\ new = Ascending(S)
                /\ defs' = [defs EXCEPT ![GroupOf(f)] = @ \o new]
                /\ flags' = [s \in Syms |-> flags[s] \cup
                               IF Contains(new, s) THEN {"EXPORT_DYNAMIC"} ELSE {}]
  BY DEF ActivateFile, SymsOf
<1>3. UNCHANGED <<world, needed, definitions>> /\ todo' \subseteq todo
  BY DEF ActivateFile, Handled
<1>4. new \in Seq(Syms) /\ \A s \in Syms : Contains(new, s) => s \in S
  <2>1. S \in SUBSET Syms OBVIOUS
  <2> HIDE DEF S
  <2> QED BY <1>1, <1>2, <2>1, ChosenSymbols
<1>5. \A s \in S : Sym(s).canonical BY DEF CanExport
<1> HIDE DEF S
<1>6. defs' \in [Groups -> Seq(Syms)]
  <2>1. defs \in [Groups -> Seq(Syms)] BY DEF LinkInv
  <2>2. PICK g : g = GroupOf(f) OBVIOUS
  <2>3. defs' = [h \in Groups |-> IF h = g THEN defs[g] \o new ELSE defs[h]]
    BY <1>2, <2>1, <2>2
  <2>4. ASSUME NEW h \in Groups PROVE (IF h = g THEN defs[g] \o new ELSE defs[h]) \in Seq(Syms)
    <3>1. defs[h] \in Seq(Syms) BY <2>1
    <3> QED BY <1>4, <3>1
  <2> QED BY <2>3, <2>4
<1>7. flags' \in [Syms -> SUBSET Flag]
  <2>1. flags \in [Syms -> SUBSET Flag] BY DEF LinkInv
  <2> QED BY <1>2, <2>1 DEF Flag
<1>8. /\ \A s \in Syms : flags'[s] # {} => Sym(s).canonical
      /\ \A s \in Syms : "COPY_RELOCATION" \in flags'[s] => Sym(s).kind = "shared"
  BY <1>2, <1>4, <1>5 DEF LinkInv
<1>9. FlagsInv' BY <1>3, <1>7, <1>8 DEF FlagsInv, Syms, Sym
<1>10. NeededInv' /\ definitions' \in Seq(Syms) BY <1>3, LinkParts
<1> QED BY <1>3, <1>6, <1>9, <1>10, LinkStep

LEMMA RequestedSymbol ==
  ASSUME LinkInv, NEW s, NEW op, Handled(Request(op, s))
  PROVE  /\ op \in {"export", "load", "copy"} => Sym(s).canonical
         /\ op = "copy" => Sym(s).kind = "shared"
         /\ todo' \subseteq todo
<1>1. world \in Worlds BY DEF LinkInv
<1>2. Request(op, s) \in world.requests /\ todo' \subseteq todo BY DEF LinkInv, Handled
<1>3. Request(op, s).op = op /\ Request(op, s).on = s BY DEF Request
<1> QED BY <1>1, <1>2, <1>3, WorldFacts

LEMMA ExportDynamicLink ==
  ASSUME LinkInv, NEW s \in Syms, ExportDynamic(s)
  PROVE  LinkInv'
<1>1. Sym(s).canonical /\ todo' \subseteq todo BY RequestedSymbol DEF ExportDynamic
<1>2. UNCHANGED <<world, needed, definitions>> BY DEF ExportDynamic
<1>3. /\ flags' = flags \/ flags' = [flags EXCEPT ![s] = @ \cup {"EXPORT_DYNAMIC"}]
      /\ defs' = defs \/ defs' = [defs EXCEPT ![GroupOf(Sym(s).file)] = Append(@, s)]
  BY DEF ExportDynamic
<1>4. defs' \in [Groups -> Seq(Syms)]
  <2>1. defs \in [Groups -> Seq(Syms)] BY DEF LinkInv
  <2> QED BY <1>3, <2>1
<1>5. flags' \in [Syms -> SUBSET Flag]
  <2>1. flags \in [Syms -> SUBSET Flag] BY DEF LinkInv
  <2> QED BY <1>3, <2>1 DEF Flag
<1>6. /\ \A t \in Syms : flags'[t] # {} => Sym(t).canonical
      /\ \A t \in Syms : "COPY_RELOCATION" \in flags'[t] => Sym(t).kind = "shared"
  <2>1. /\ flags \in [Syms -> SUBSET Flag]
        /\ \A t \in Syms : flags[t] # {} => Sym(t).canonical
        /\ \A t \in Syms : "COPY_RELOCATION" \in flags[t] => Sym(t).kind = "shared"
    BY DEF LinkInv
  <2> SUFFICES ASSUME NEW t \in Syms
               PROVE  /\ flags'[t] # {} => Sym(t).canonical
                      /\ "COPY_RELOCATION" \in flags'[t] => Sym(t).kind = "shared"
    OBVIOUS
  <2>2. \/ flags'[t] = flags[t]
        \/ t = s /\ flags'[t] = flags[t] \cup {"EXPORT_DYNAMIC"}
    BY <1>3, <2>1
  <2> QED BY <1>1, <2>1, <2>2
<1>7. FlagsInv' BY <1>2, <1>5, <1>6 DEF FlagsInv, Syms, Sym
<1>8. NeededInv' /\ definitions' \in Seq(Syms) BY <1>2, LinkParts
<1> QED BY <1>1, <1>2, <1>4, <1>7, <1>8, LinkStep

(* A version that becomes needed is that of a symbol.                      *)
LEMMA MarkedVersions ==
  ASSUME LinkInv, NEW s \in Syms, MarkVersionAsNeeded(s)
  PROVE  /\ needed' \in [Files -> SUBSET Nat]
         /\ \A f \in Files : needed'[f] # {} =>
               \E t \in Syms : Sym(t).kind = "shared" /\ ~Special(Sym(t).ver)
<1>1. world \in Worlds BY DEF LinkInv
<1>2. Sym(s).ver \in Nat /\ (Sym(s).kind = "shared" <=> Shared(Sym(s).file))
  BY <1>1, WorldFacts
<1>3. needed \in [Files -> SUBSET Nat] BY DEF LinkInv
<1>4. \A f \in Files : needed[f] # {} =>
        \E t \in Syms : Sym(t).kind = "shared" /\ ~Special(Sym(t).ver)
  BY DEF LinkInv
<1>5. CASE Shared(Sym(s).file) /\ ~Special(Sym(s).ver)
  <2>1. needed' = [needed EXCEPT ![Sym(s).file] = @ \cup {Sym(s).ver}]
    BY <1>5 DEF MarkVersionAsNeeded
  <2>2. needed' \in [Files -> SUBSET Nat] BY <1>2, <1>3, <2>1
  <2>3. Sym(s).kind = "shared" /\ ~Special(Sym(s).ver) BY <1>2, <1>5
  <2> QED BY <2>2, <2>3
<1>6. CASE ~(Shared(Sym(s).file) /\ ~Special(Sym(s).ver))
  <2>1. needed' = needed BY <1>6 DEF MarkVersionAsNeeded
  <2> QED BY <1>3, <1>4, <2>1
<1> QED BY <1>5, <1>6

LEMMA LoadSymbolLink ==
  ASSUME LinkInv, NEW s \in Syms, LoadSymbol(s)
  PROVE  LinkInv'
<1>1. Sym(s).canonical /\ todo' \subseteq todo BY RequestedSymbol DEF LoadSymbol
<1>2. UNCHANGED <<world, defs, definitions>> BY DEF LoadSymbol
<1>3. flags' = [flags EXCEPT ![s] = @ \cup {"DIRECT"}] BY DEF LoadSymbol
<1>4. /\ needed' \in [Files -> SUBSET Nat]
      /\ \A f \in Files : needed'[f] # {} =>
            \E t \in Syms : Sym(t).kind = "shared" /\ ~Special(Sym(t).ver)
  BY MarkedVersions DEF LoadSymbol
<1>5. flags' \in [Syms -> SUBSET Flag]
  <2>1. flags \in [Syms -> SUBSET Flag] BY DEF LinkInv
  <2> QED BY <1>3, <2>1 DEF Flag
<1>6. /\ \A t \in Syms : flags'[t] # {} => Sym(t).canonical
      /\ \A t \in Syms : "COPY_RELOCATION" \in flags'[t] => Sym(t).kind = "shared"
  BY <1>1, <1>3 DEF LinkInv
<1>7. FlagsInv' BY <1>2, <1>5, <1>6 DEF FlagsInv, Syms, Sym
<1>8. NeededInv' BY <1>2, <1>4 DEF NeededInv, Files, Syms, Sym, Special
<1>9. defs' \in [Groups -> Seq(Syms)] /\ definitions' \in Seq(Syms) BY <1>2, LinkParts
<1> QED BY <1>1, <1>2, <1>7, <1>8, <1>9, LinkStep

LEMMA LoadAbiVersionLink ==
  ASSUME LinkInv, NEW s \in Syms, LoadAbiVersion(s)
  PROVE  LinkInv'
<1>1. todo' \subseteq todo BY RequestedSymbol DEF LoadAbiVersion
<1>2. UNCHANGED <<world, flags, defs, definitions>> BY DEF LoadAbiVersion
<1>3. /\ needed' \in [Files -> SUBSET Nat]
      /\ \A f \in Files : needed'[f] # {} =>
            \E t \in Syms : Sym(t).kind = "shared" /\ ~Special(Sym(t).ver)
  BY MarkedVersions DEF LoadAbiVersion
<1>4. NeededInv' BY <1>2, <1>3 DEF NeededInv, Files, Syms, Sym, Special
<1>5. /\ FlagsInv'
      /\ defs' \in [Groups -> Seq(Syms)] /\ definitions' \in Seq(Syms)
  BY <1>2, LinkParts
<1> QED BY <1>1, <1>2, <1>4, <1>5, LinkStep

LEMMA CopyRelocateSymbolLink ==
  ASSUME LinkInv, NEW s \in Syms, CopyRelocateSymbol(s)
  PROVE  LinkInv'
<1>1. Sym(s).canonical /\ Sym(s).kind = "shared" /\ todo' \subseteq todo
  BY RequestedSymbol DEF CopyRelocateSymbol
<1>2. UNCHANGED <<world, needed, defs, definitions>> BY DEF CopyRelocateSymbol
<1>3. flags' = [flags EXCEPT ![s] = @ \cup {"COPY_RELOCATION"}] BY DEF CopyRelocateSymbol
<1>4. flags' \in [Syms -> SUBSET Flag]
  <2>1. flags \in [Syms -> SUBSET Flag] BY DEF LinkInv
  <2> QED BY <1>3, <2>1 DEF Flag
<1>5. /\ \A t \in Syms : flags'[t] # {} => Sym(t).canonical
      /\ \A t \in Syms : "COPY_RELOCATION" \in flags'[t] => Sym(t).kind = "shared"
  BY <1>1, <1>3 DEF LinkInv
<1>6. FlagsInv' BY <1>2, <1>4, <1>5 DEF FlagsInv, Syms, Sym
<1>7. /\ NeededInv'
      /\ defs' \in [Groups -> Seq(Syms)] /\ definitions' \in Seq(Syms)
  BY <1>2, LinkParts
<1> QED BY <1>1, <1>2, <1>6, <1>7, LinkStep

LEMMA AliasesFacts ==
  ASSUME LinkInv, NEW f
  PROVE  /\ Aliases(f) \in Seq(Syms)
         /\ \A s \in Syms : Contains(Aliases(f), s) =>
               Sym(s).canonical /\ Sym(s).kind = "shared"
<1>1. world \in Worlds BY DEF LinkInv
<1>2. CASE ~Shared(f)
  <2>1. Aliases(f) = << >> BY <1>2 DEF Aliases
  <2>2. \A s : ~Contains(Aliases(f), s) BY <2>1 DEF Contains
  <2> QED BY <2>1, <2>2
<1>3. CASE Shared(f)
  <2> DEFINE S == {s \in Syms : Sym(s).file = f /\ Sym(s).canonical /\ Sym(s).addr \in copies[f]}
  <2>1. Aliases(f) = Ascending(S) BY <1>3 DEF Aliases, SymsOf
  <2>2. \A s \in S : Sym(s).canonical /\ Sym(s).kind = "shared" BY <1>1, <1>3, WorldFacts
  <2>3. S \in SUBSET Syms OBVIOUS
  <2> HIDE DEF S
  <2> QED BY <1>1, <2>1, <2>2, <2>3, ChosenSymbols
<1> QED BY <1>2, <1>3

LEMMA FinaliseCopyRelocationsLink ==
  ASSUME LinkInv, FinaliseCopyRelocations
  PROVE  LinkInv'
<1>1. world \in Worlds BY DEF LinkInv
<1>2. UNCHANGED <<world, todo, needed, definitions>> BY DEF FinaliseCopyRelocations, graph
<1> DEFINE x(g) == world.groups[g]
           new(g) == FlattenSeq([i \in DOMAIN x(g) |-> Aliases(x(g)[i])])
<1>3. defs' = [g \in Groups |-> defs[g] \o new(g)] BY DEF FinaliseCopyRelocations
<1>4. flags' = [s \in Syms |-> flags[s] \cup
                 IF Contains(Aliases(Sym(s).file), s) THEN {"COPY_RELOCATION"} ELSE {}]
  BY DEF FinaliseCopyRelocations
<1>5. ASSUME NEW g \in Groups PROVE defs[g] \o new(g) \in Seq(Syms)
  <2>1. PICK y \in Seq(Files) : y = x(g) BY <1>1, WorldFacts
  <2>2. PICK T : T = Seq(Syms) OBVIOUS
  <2>3. \A i \in 1 .. Len(y) : Aliases(y[i]) \in T BY <2>2, AliasesFacts
  <2>4. DOMAIN y = 1 .. Len(y) /\ Len(y) \in Nat OBVIOUS
  <2>5. [i \in DOMAIN y |-> Aliases(y[i])] \in [1 .. Len(y) -> T] BY <2>3, <2>4
  <2>6. [i \in DOMAIN y |-> Aliases(y[i])] \in Seq(T) BY <2>4, <2>5
  <2>7. FlattenSeq([i \in DOMAIN y |-> Aliases(y[i])]) \in Seq(Syms) BY <2>2, <2>6, FlattenType
  <2> HIDE DEF x
  <2>8. new(g) \in Seq(Syms) BY <2>1, <2>7
  <2>9. defs[g] \in Seq(Syms) BY DEF LinkInv
  <2> HIDE DEF new
  <2> QED BY <2>8, <2>9
<1>6. defs' \in [Groups -> Seq(Syms)]
  <2> HIDE DEF new
  <2> QED BY <1>3, <1>5
<1>7. FlagsInv'
  <2>1. /\ flags \in [Syms -> SUBSET Flag]
        /\ \A s \in Syms : flags[s] # {} => Sym(s).canonical
        /\ \A s \in Syms : "COPY_RELOCATION" \in flags[s] => Sym(s).kind = "shared"
    BY DEF LinkInv
  <2>2. flags' \in [Syms -> SUBSET Flag] BY <1>4, <2>1 DEF Flag
  <2>3. ASSUME NEW s \in Syms
        PROVE  /\ flags'[s] # {} => Sym(s).canonical
               /\ "COPY_RELOCATION" \in flags'[s] => Sym(s).kind = "shared"
    <3>1. CASE Contains(Aliases(Sym(s).file), s) BY <3>1, AliasesFacts
    <3>2. CASE ~Contains(Aliases(Sym(s).file), s)
      <4>1. flags'[s] = flags[s] BY <1>4, <3>2
      <4> QED BY <2>1, <4>1
    <3> QED BY <3>1, <3>2
  <2> QED BY <1>2, <2>2, <2>3 DEF FlagsInv, Syms, Sym
<1>8. NeededInv' /\ definitions' \in Seq(Syms) BY <1>2, LinkParts
<1> QED BY <1>2, <1>6, <1>7, <1>8, LinkStep

LEMMA OrdersType ==
  ASSUME NEW q \in Seq(Syms), NEW d \in Orders(q)
  PROVE  d \in Seq(Syms)
<1>1. CASE "gnu" \notin world.style BY <1>1 DEF Orders
<1>2. CASE "gnu" \in world.style
  <2> DEFINE D == DOMAIN q
  <2>1. PICK p \in SetToSeqs(D) : d = [i \in D |-> q[p[i]]] BY <1>2 DEF Orders
  <2>2. D = 1 .. Len(q) /\ Len(q) \in Nat /\ \A i \in D : q[i] \in Syms OBVIOUS
  <2> HIDE DEF D
  <2>3. Cardinality(D) = Len(q)
    <3>1. PICK k \in Nat : k = Len(q) BY <2>2, Zenon
    <3>2. Cardinality(1 .. k) = IF 1 > k THEN 0 ELSE k - 1 + 1 BY FS_Interval
    <3> QED BY <2>2, <3>1, <3>2
  <2>4. p \in [1 .. Cardinality(D) -> D] BY DEF SetToSeqs
  <2>5. \A i \in D : p[i] \in D BY <2>2, <2>3, <2>4
  <2>6. d \in [1 .. Len(q) -> Syms] BY <2>1, <2>2, <2>5
  <2> QED BY <2>2, <2>6
<1> QED BY <1>1, <1>2

LEMMA MergeDynamicSymbolDefinitionsLink ==
  ASSUME LinkInv, MergeDynamicSymbolDefinitions
  PROVE  LinkInv'
<1>1. world \in Worlds BY DEF LinkInv
<1>2. UNCHANGED <<world, todo, flags, needed, defs>>
  BY DEF MergeDynamicSymbolDefinitions, graph
<1> DEFINE all == FlattenSeq(defs)
           more == PreludeDefinitions(all)
<1>3. definitions' \in Orders(all \o more) BY DEF MergeDynamicSymbolDefinitions
<1>4. all \in Seq(Syms)
  <2>1. Len(world.groups) \in Nat /\ Groups = 1 .. Len(world.groups) BY <1>1, WorldFacts
  <2>2. PICK T : T = Seq(Syms) OBVIOUS
  <2>3. defs \in [1 .. Len(world.groups) -> T] BY <2>1, <2>2 DEF LinkInv
  <2>4. defs \in Seq(T) BY <2>1, <2>3
  <2> QED BY <2>2, <2>4, FlattenType
<1>5. more \in Seq(Syms)
  <2> HIDE DEF all
  <2> DEFINE S == {s \in Syms : Sym(s).file = "prelude" /\ Sym(s).canonical /\ Sym(s).export
                                 /\ ~Contains(all, s)}
  <2>1. more = Ascending(S) BY DEF PreludeDefinitions, SymsOf
  <2>2. S \in SUBSET Syms OBVIOUS
  <2> HIDE DEF S
  <2> QED BY <1>1, <2>1, <2>2, ChosenSymbols
<1> HIDE DEF all, more
<1>6. all \o more \in Seq(Syms) BY <1>4, <1>5
<1>7. definitions' \in Seq(Syms) BY <1>3, <1>6, OrdersType
<1>8. FlagsInv' /\ NeededInv' /\ defs' \in [Groups -> Seq(Syms)] BY <1>2, LinkParts
<1> QED BY <1>2, <1>7, <1>8, LinkStep

---------------------------------------------------------------------------
(* The inductive invariant: while the tables are written, what is reserved *)
(* is Reserved, with room for versions unless they are unused, and what is *)
(* written has versions throughout.                                        *)
ReserveInv ==
  /\ phase = "index" => mem = Reserved(TRUE)
  /\ phase \in {"assign", "write", "done"} => BaseInv /\ mem = Reserved(~Unused)

WriteInv ==
  /\ phase # "broken"
  /\ DOMAIN out = 1 .. Epilogue
  /\ \A g \in 1 .. Epilogue : out[g] # << >> => out[g].versym \in Seq(WrittenVersym)
  /\ phase = "done" => \A g \in 1 .. Epilogue : out[g] # << >>

TablesInv == LinkInv /\ ReserveInv /\ WriteInv

LEMMA InitInv == Init => TablesInv
<1> SUFFICES ASSUME Init PROVE TablesInv OBVIOUS
<1>1. world \in Worlds /\ todo \subseteq world.requests BY DEF Init
<1>2. flags = [s \in Syms |-> {}] /\ needed = [f \in Files |-> {}] BY DEF Init
<1>3. FlagsInv /\ NeededInv BY <1>2 DEF FlagsInv, NeededInv
<1>4. defs \in [Groups -> Seq(Syms)] /\ definitions \in Seq(Syms) BY DEF Init
<1>5. LinkInv BY <1>1, <1>3, <1>4, Zenon DEF LinkInv, FlagsInv, NeededInv
<1>6. phase = "graph" /\ out = [g \in 1 .. Epilogue |-> << >>] BY DEF Init
<1> QED BY <1>5, <1>6 DEF TablesInv, ReserveInv, WriteInv

(* Until the tables are written, a step has only to keep the link.         *)
LEMMA EarlierStep ==
  ASSUME TablesInv, LinkInv', ReserveInv', world' = world, out' = out,
         phase' \in {"graph", "merge", "size", "index", "assign", "write"}
  PROVE  TablesInv'
<1>1. Epilogue' = Epilogue BY DEF Epilogue
<1>2. WriteInv' BY <1>1 DEF TablesInv, WriteInv
<1> QED BY <1>2 DEF TablesInv

LEMMA TraversalStep ==
  ASSUME TablesInv, LinkInv', world' = world, out' = out,
         phase' \in {"graph", "merge", "size"}
  PROVE  TablesInv'
<1>1. phase' # "index" /\ phase' \notin {"assign", "write", "done"} OBVIOUS
<1>2. ReserveInv' BY <1>1, Zenon DEF ReserveInv
<1> QED BY <1>2, EarlierStep

LEMMA FinaliseSizesStep ==
  ASSUME TablesInv, FinaliseSizes
  PROVE  TablesInv'
<1>1. UNCHANGED Link /\ UNCHANGED out /\ phase' = "index" BY DEF FinaliseSizes, graph, Link
<1>2. LinkInv' BY <1>1, LinkUnchanged DEF TablesInv
<1>3. mem' = Reserved(TRUE) BY DEF FinaliseSizes, Reserved
<1>4. \A versioned : Reserved(versioned)' = Reserved(versioned) BY <1>1, ReservedAgain DEF Link
<1>5. mem' = Reserved(TRUE)' BY <1>3, <1>4, Zenon
<1>6. phase' \notin {"assign", "write", "done"} BY <1>1
<1>7. ReserveInv' BY <1>5, <1>6, Zenon DEF ReserveInv
<1> QED BY <1>1, <1>2, <1>7, EarlierStep DEF Link

LEMMA ApplyNonAddressableIndexesStep ==
  ASSUME TablesInv, ApplyNonAddressableIndexes
  PROVE  TablesInv'
<1>1. UNCHANGED Link /\ UNCHANGED out /\ phase' = "assign" /\ phase = "index"
  BY DEF ApplyNonAddressableIndexes, graph, Link
<1>2. LinkInv /\ world \in Worlds BY DEF TablesInv, LinkInv
<1>3. LinkInv' BY <1>1, <1>2, LinkUnchanged
<1>4. mem = Reserved(TRUE) BY <1>1 DEF TablesInv, ReserveInv
<1>5. mem' = IF Unused THEN [g \in DOMAIN mem |-> [mem[g] EXCEPT !.versym = 0]] ELSE mem
  BY Zenon DEF ApplyNonAddressableIndexes, Unused
<1>6. mem' = Reserved(~Unused)
  <2>1. CASE ~Unused
    <3>1. (~Unused) = TRUE BY <2>1
    <3>2. mem' = Reserved(TRUE) BY <1>4, <1>5, <2>1, Zenon
    <3> QED BY <3>1, <3>2, Zenon
  <2>2. CASE Unused
    <3>1. DOMAIN mem = 1 .. Epilogue BY <1>4 DEF Reserved
    <3>2. ASSUME NEW g \in 1 .. Epilogue
          PROVE  [mem[g] EXCEPT !.versym = 0] = Reserved(FALSE)[g]
      BY <1>4, <3>2 DEF Reserved
    <3>3. Reserved(FALSE) = [g \in 1 .. Epilogue |-> Reserved(FALSE)[g]] BY DEF Reserved
    <3>4. mem' = Reserved(FALSE) BY <1>5, <2>2, <3>1, <3>2, <3>3
    <3>5. (~Unused) = FALSE BY <2>2
    <3>6. Reserved(~Unused) = Reserved(FALSE) BY <3>5, Zenon
    <3> HIDE DEF Reserved, Unused
    <3> QED BY <3>4, <3>6, Zenon
  <2> QED BY <2>1, <2>2
<1>7. \A versioned : Reserved(versioned)' = Reserved(versioned) BY <1>1, ReservedAgain DEF Link
<1>8. Unused' = Unused BY <1>1, ReservedAgain DEF Link
<1>9. BaseInv'
  <2>1. base' = [f \in Files |-> FirstVersion + MapThenSumSet(VersionCount, Before(f))]
    BY DEF ApplyNonAddressableIndexes
  <2>2. \A f \in Files : MapThenSumSet(VersionCount, Before(f)) \in Nat BY <1>2, VersionsBefore
  <2>3. FirstVersion \in Nat /\ FirstVersion >= 2 BY <1>2, FirstVersionFacts
  <2>4. Files' = Files BY <1>1 DEF Files, Link
  <2>5. ASSUME NEW f \in Files PROVE base'[f] \in Nat /\ base'[f] >= 2
    <3>1. PICK n \in Nat : n = MapThenSumSet(VersionCount, Before(f)) BY <2>2
    <3>2. base'[f] = FirstVersion + n BY <2>1, <3>1
    <3> QED BY <2>3, <3>2
  <2>6. base' = [f \in Files |-> base'[f]] BY <2>1
  <2> QED BY <2>4, <2>5, <2>6 DEF BaseInv
<1>10. ReserveInv' BY <1>1, <1>6, <1>7, <1>8, <1>9 DEF ReserveInv
<1> QED BY <1>1, <1>3, <1>10, EarlierStep DEF Link

LEMMA ReserveUnchanged ==
  ASSUME ReserveInv, phase \in {"assign", "write", "done"}, UNCHANGED <<Link, mem, base>>
  PROVE  BaseInv' /\ mem' = Reserved(~Unused)'
<1>1. BaseInv /\ mem = Reserved(~Unused) BY DEF ReserveInv
<1>2. BaseInv' BY <1>1 DEF BaseInv, Link, Files
<1>3. /\ \A versioned : Reserved(versioned)' = Reserved(versioned)
      /\ Unused' = Unused
  BY ReservedAgain DEF Link
<1> QED BY <1>1, <1>2, <1>3

LEMMA FinaliseLayoutStep ==
  ASSUME TablesInv, FinaliseLayout
  PROVE  TablesInv'
<1>1. UNCHANGED <<Link, mem, base, out>> /\ phase' = "write" /\ phase = "assign"
  BY DEF FinaliseLayout, graph, Link
<1>2. LinkInv' BY <1>1, LinkUnchanged DEF TablesInv
<1>3. BaseInv' /\ mem' = Reserved(~Unused)' BY <1>1, ReserveUnchanged DEF TablesInv
<1>4. ReserveInv' BY <1>1, <1>3 DEF ReserveInv
<1> QED BY <1>1, <1>2, <1>4, EarlierStep DEF Link

LEMMA WriteStep ==
  ASSUME TablesInv, NEW g \in 1 .. Epilogue, NEW written, Write(g, written),
         Exhausts(written, mem[g]), written.versym \in Seq(WrittenVersym)
  PROVE  TablesInv'
<1>1. UNCHANGED <<Link, mem, base>> /\ phase = "write" BY DEF Write, graph, Link
<1>2. out' = [out EXCEPT ![g] = written] BY DEF Write
<1>3. phase' \in {"write", "done"} /\ (phase' = "done" => AllWritten) BY <1>1 DEF Write
<1>4. LinkInv' BY <1>1, LinkUnchanged DEF TablesInv
<1>5. BaseInv' /\ mem' = Reserved(~Unused)' BY <1>1, ReserveUnchanged DEF TablesInv
<1>6. ReserveInv' BY <1>3, <1>5 DEF ReserveInv
<1>7. Epilogue' = Epilogue BY <1>1 DEF Epilogue, Link
<1>8. DOMAIN out' = 1 .. Epilogue BY <1>2 DEF TablesInv, WriteInv
<1>9. \A h \in 1 .. Epilogue : out'[h] # << >> => out'[h].versym \in Seq(WrittenVersym)
  BY <1>2 DEF TablesInv, WriteInv
<1>10. phase' = "done" => \A h \in 1 .. Epilogue : out'[h] # << >> BY <1>3, <1>8 DEF AllWritten
<1>11. phase' # "broken" BY <1>3
<1>12. WriteInv' BY <1>7, <1>8, <1>9, <1>10, <1>11 DEF WriteInv
<1> QED BY <1>4, <1>6, <1>12 DEF TablesInv

LEMMA WriteGroupStep ==
  ASSUME TablesInv, NEW g \in Groups, WriteGroup(g)
  PROVE  TablesInv'
<1>1. LinkInv /\ world \in Worlds BY DEF TablesInv, LinkInv
<1>2. g \in 1 .. Epilogue BY <1>1, WorldFacts
<1> DEFINE versyms == FlattenSeq([i \in DOMAIN world.groups[g] |->
                                    FileVersyms(world.groups[g][i])])
           w == [dynsym |-> FlattenSeq([i \in DOMAIN world.groups[g] |->
                                          FileEntries(world.groups[g][i])]),
                 versym |-> IF GnuVersionEnabled THEN versyms ELSE << >>,
                 needs |-> FlattenSeq([i \in DOMAIN world.groups[g] |->
                                         Verneed(world.groups[g][i])]),
                 verdefs |-> << >>]
<1>3. Write(g, w) BY DEF WriteGroup
<1>4. BaseInv /\ mem = Reserved(~Unused) BY <1>3 DEF Write, TablesInv, ReserveInv
<1>5. Exhausts(w, mem[g]) /\ w.versym \in Seq(WrittenVersym)
  <2>1. PICK b \in BOOLEAN : b = ~Unused OBVIOUS
  <2>2. mem = Reserved(b) BY <1>4, <2>1
  <2>3. PICK written : written = w OBVIOUS
  <2>4. /\ written.dynsym
            = FlattenSeq([i \in DOMAIN world.groups[g] |-> FileEntries(world.groups[g][i])])
        /\ written.versym = IF GnuVersionEnabled THEN versyms ELSE << >>
        /\ written.needs
            = FlattenSeq([i \in DOMAIN world.groups[g] |-> Verneed(world.groups[g][i])])
        /\ written.verdefs = << >>
    BY <2>3
  <2>5. Exhausts(written, mem[g]) /\ written.versym \in Seq(WrittenVersym)
    BY <1>1, <1>4, <2>2, <2>4, GroupFits
  <2> QED BY <2>3, <2>5
<1> HIDE DEF w
<1> QED BY <1>2, <1>3, <1>5, WriteStep

(* A linker script only in an output without versions.                     *)
LEMMA VersionsWithoutScripts ==
  ASSUME ScriptsUnversioned, LinkInv, ~Unused
  PROVE  NoScripts
<1> SUFFICES ASSUME NEW f \in Files, world.kind[f] = "script" PROVE Unused
  BY DEF NoScripts
<1>1. world \in Worlds BY DEF LinkInv
<1>2. /\ world.versions = << >>
      /\ \A s \in Syms : Sym(s).kind = "shared" => Special(Sym(s).ver)
  BY <1>1 DEF ScriptsUnversioned, Files, Syms, Sym
<1>3. ScriptVersions = 0 BY <1>2 DEF ScriptVersions
<1>4. \A h \in Files : needed[h] = {} BY <1>2 DEF LinkInv
<1>5. ASSUME NEW h \in Files PROVE VersionCount(h) = 0
  <2>1. {i \in DOMAIN world.verdefs[h] : i + 1 \in needed[h]} = {} BY <1>4
  <2> QED BY <2>1, FS_EmptySet DEF VersionCount
<1> QED BY <1>3, <1>5 DEF Unused

LEMMA WriteEpilogueStep ==
  ASSUME ScriptsUnversioned, TablesInv, WriteEpilogue
  PROVE  TablesInv'
<1>1. LinkInv /\ world \in Worlds BY DEF TablesInv, LinkInv
<1>2. Epilogue \in 1 .. Epilogue BY <1>1, WorldFacts
<1>3. PICK size \in ChunkSizes :
        Write(Epilogue, [dynsym |-> [i \in DOMAIN definitions |->
                                       [sym |-> definitions[i], defined |-> TRUE]],
                         versym |-> IF mem[Epilogue].versym = 0 THEN << >>
                                    ELSE DefinitionVersyms(size),
                         needs |-> << >>,
                         verdefs |-> Verdefs])
  BY Zenon DEF WriteEpilogue
<1> DEFINE w == [dynsym |-> [i \in DOMAIN definitions |->
                               [sym |-> definitions[i], defined |-> TRUE]],
                 versym |-> IF mem[Epilogue].versym = 0 THEN << >> ELSE DefinitionVersyms(size),
                 needs |-> << >>,
                 verdefs |-> Verdefs]
<1>4. Write(Epilogue, w) BY <1>3
<1>5. BaseInv /\ mem = Reserved(~Unused) BY <1>4 DEF Write, TablesInv, ReserveInv
<1>6. Exhausts(w, mem[Epilogue]) /\ w.versym \in Seq(WrittenVersym)
  <2>1. PICK b \in BOOLEAN : b = ~Unused OBVIOUS
  <2>2. mem = Reserved(b) /\ (b => NoScripts) BY <1>1, <1>5, <2>1, VersionsWithoutScripts
  <2>3. PICK written : written = w OBVIOUS
  <2>4. /\ written.dynsym
            = [i \in DOMAIN definitions |-> [sym |-> definitions[i], defined |-> TRUE]]
        /\ written.versym = IF mem[Epilogue].versym = 0 THEN << >> ELSE DefinitionVersyms(size)
        /\ written.needs = << >> /\ written.verdefs = Verdefs
    BY <2>3
  <2>5. Exhausts(written, mem[Epilogue]) /\ written.versym \in Seq(WrittenVersym)
    BY <1>1, <1>5, <2>2, <2>4, EpilogueFits
  <2> QED BY <2>3, <2>5
<1> HIDE DEF w
<1> QED BY <1>2, <1>4, <1>6, WriteStep

LEMMA NextInv ==
  ASSUME ScriptsUnversioned, TablesInv, [Next]_vars
  PROVE  TablesInv'
<1>1. LinkInv BY DEF TablesInv
<1>2. ASSUME NEW f \in Files, ActivateFile(f) PROVE TablesInv'
  <2>1. LinkInv' BY <1>1, <1>2, ActivateFileLink
  <2>2. phase' = "graph" /\ UNCHANGED <<world, out>> BY <1>2 DEF ActivateFile, Handled
  <2> QED BY <2>1, <2>2, TraversalStep
<1>3. ASSUME NEW s \in Syms, ExportDynamic(s) PROVE TablesInv'
  <2>1. LinkInv' BY <1>1, <1>3, ExportDynamicLink
  <2>2. phase' = "graph" /\ UNCHANGED <<world, out>> BY <1>3 DEF ExportDynamic, Handled
  <2> QED BY <2>1, <2>2, TraversalStep
<1>4. ASSUME NEW s \in Syms, LoadSymbol(s) PROVE TablesInv'
  <2>1. LinkInv' BY <1>1, <1>4, LoadSymbolLink
  <2>2. phase' = "graph" /\ UNCHANGED <<world, out>> BY <1>4 DEF LoadSymbol, Handled
  <2> QED BY <2>1, <2>2, TraversalStep
<1>5. ASSUME NEW s \in Syms, LoadAbiVersion(s) PROVE TablesInv'
  <2>1. LinkInv' BY <1>1, <1>5, LoadAbiVersionLink
  <2>2. phase' = "graph" /\ UNCHANGED <<world, out>> BY <1>5 DEF LoadAbiVersion, Handled
  <2> QED BY <2>1, <2>2, TraversalStep
<1>6. ASSUME NEW s \in Syms, CopyRelocateSymbol(s) PROVE TablesInv'
  <2>1. LinkInv' BY <1>1, <1>6, CopyRelocateSymbolLink
  <2>2. phase' = "graph" /\ UNCHANGED <<world, out>> BY <1>6 DEF CopyRelocateSymbol, Handled
  <2> QED BY <2>1, <2>2, TraversalStep
<1>7. CASE FinaliseCopyRelocations
  <2>1. LinkInv' BY <1>1, <1>7, FinaliseCopyRelocationsLink
  <2>2. phase' = "merge" /\ UNCHANGED <<world, out>> BY <1>7 DEF FinaliseCopyRelocations
  <2> QED BY <2>1, <2>2, TraversalStep
<1>8. CASE MergeDynamicSymbolDefinitions
  <2>1. LinkInv' BY <1>1, <1>8, MergeDynamicSymbolDefinitionsLink
  <2>2. phase' = "size" /\ UNCHANGED <<world, out>> BY <1>8 DEF MergeDynamicSymbolDefinitions
  <2> QED BY <2>1, <2>2, TraversalStep
<1>9. CASE UNCHANGED vars
  <2>1. UNCHANGED <<Link, mem, base, out>> /\ UNCHANGED phase BY <1>9 DEF vars, Link
  <2>2. LinkInv' BY <1>1, <2>1, LinkUnchanged
  <2>3. ReserveInv'
    <3>1. CASE phase \in {"assign", "write", "done"}
      <4>1. BaseInv' /\ mem' = Reserved(~Unused)' BY <2>1, <3>1, ReserveUnchanged DEF TablesInv
      <4>2. phase' # "index" BY <2>1, <3>1
      <4> QED BY <4>1, <4>2, Zenon DEF ReserveInv
    <3>2. CASE phase \notin {"assign", "write", "done"}
      <4>1. \A versioned : Reserved(versioned)' = Reserved(versioned)
        BY <2>1, ReservedAgain DEF Link
      <4>2. phase' \notin {"assign", "write", "done"} BY <2>1, <3>2
      <4>3. phase' = phase /\ mem' = mem BY <2>1
      <4>4. phase = "index" => mem = Reserved(TRUE) BY DEF TablesInv, ReserveInv
      <4>5. phase' = "index" => mem' = Reserved(TRUE)' BY <4>1, <4>3, <4>4, Zenon
      <4> QED BY <4>2, <4>5, Zenon DEF ReserveInv
    <3> QED BY <3>1, <3>2
  <2>4. WriteInv'
    <3>1. Epilogue' = Epilogue BY <2>1 DEF Epilogue, Link
    <3> QED BY <2>1, <3>1 DEF TablesInv, WriteInv
  <2> QED BY <2>2, <2>3, <2>4 DEF TablesInv
<1> QED BY <1>2, <1>3, <1>4, <1>5, <1>6, <1>7, <1>8, <1>9, FinaliseSizesStep,
           ApplyNonAddressableIndexesStep, FinaliseLayoutStep, WriteGroupStep, WriteEpilogueStep
        DEF Next

(* Every entry of the written versions is that of a symbol.                *)
LEMMA InvFills == TablesInv => TablesFilled
<1> SUFFICES ASSUME TablesInv PROVE TablesFilled OBVIOUS
<1>1. phase # "broken" BY DEF TablesInv, WriteInv
<1>2. ASSUME Done, NEW i \in DOMAIN Versyms PROVE Versyms[i] # Unwritten
  <2>1. world \in Worlds /\ phase = "done" BY <1>2 DEF TablesInv, LinkInv, Done
  <2>2. PICK n \in Nat : n = Epilogue BY <2>1, WorldFacts
  <2>3. PICK T : T = Seq(WrittenVersym) OBVIOUS
  <2>4. DOMAIN out = 1 .. n /\ \A g \in 1 .. n : out[g].versym \in T
    BY <2>1, <2>2, <2>3 DEF TablesInv, WriteInv
  <2>5. [g \in DOMAIN out |-> out[g].versym] \in [1 .. n -> T] BY <2>4
  <2>6. [g \in DOMAIN out |-> out[g].versym] \in Seq(T) BY <2>2, <2>5
  <2>7. Versyms \in Seq(WrittenVersym) BY <2>3, <2>6, FlattenType DEF Versyms
  <2>8. Versyms[i] \in WrittenVersym BY <1>2, <2>7
  <2> QED BY <2>8 DEF WrittenVersym, Unwritten, Versym
<1> QED BY <1>1, <1>2 DEF TablesFilled

(* What layout reserves for the dynamic symbols is what the writers fill   *)
(* (finalise_sizes, apply_non_addressable_indexes and the writers of       *)
(* elf_writer.rs): for every link in which symbols of linker scripts only  *)
(* meet outputs without versions, every schedule of the traversal and      *)
(* every size of the chunks, no writer fails and no entry of .gnu.version  *)
(* is left unwritten.                                                      *)
THEOREM SymbolsTablesFilled ==
  ASSUME ScriptsUnversioned
  PROVE  Spec => []TablesFilled
<1>1. Init => TablesInv BY InitInv
<1>2. TablesInv /\ [Next]_vars => TablesInv' BY NextInv
<1>3. TablesInv => TablesFilled BY InvFills
<1> QED BY <1>1, <1>2, <1>3, PTL DEF Spec
===========================================================================
