----------------------------- MODULE SumTheorems -----------------------------
(* What the sum of a function over a finite set is: nothing over the empty   *)
(* set, and one value more with each element added, in whatever order the    *)
(* fold takes them.  Stock and balances are such sums.  The inductions are   *)
(* stated for sets, whose smallest missing member refutes them.              *)
EXTENDS Functions, FiniteSetTheorems, WellFoundedInduction, TLAPS

-----------------------------------------------------------------------------
(* Induction *)

Less == {ss \in Nat \X Nat : ss[1] < ss[2]}

LEMMA SmallestMember ==
    ASSUME NEW T \in SUBSET Nat, T # {}
    PROVE  \E x \in T : \A y \in T : x <= y
<1>1. IsWellFoundedOn(Less, Nat)
  BY NatLessThanWellFounded DEF OpToRel, Less
<1>2. PICK x \in T : \A y \in T : <<y, x>> \notin Less
  BY <1>1, WFMin
<1>3. \A y \in T : y < x => <<y, x>> \in Less
  BY DEF Less
<1>4. x \in Nat /\ \A y \in T : y \in Nat /\ ~(y < x)
  BY <1>2, <1>3
<1>5. \A y \in T : x <= y
  BY <1>4
<1> QED BY <1>5

(* A set of numbers that holds 0 and with each number the next holds all. *)
THEOREM NumbersByInduction ==
    ASSUME NEW T \in SUBSET Nat, 0 \in T, \A n \in T : n + 1 \in T
    PROVE  T = Nat
<1> SUFFICES ASSUME Nat \ T # {} PROVE FALSE
  OBVIOUS
<1>1. PICK x \in Nat \ T : \A y \in Nat \ T : x <= y
  BY SmallestMember
<1>2. x - 1 \in Nat /\ ~(x <= x - 1)
  OBVIOUS
<1>3. x - 1 \in T
  BY <1>1, <1>2
<1> QED BY <1>1, <1>3

-----------------------------------------------------------------------------
(* Sums *)

Chosen(s) == CHOOSE x \in s : TRUE

(* g is the recursive function of the fold, on the sets in D. *)
Folding(g, f, D) ==
    g = [s \in D |-> IF s = {} THEN 0 ELSE f[Chosen(s)] + g[s \ {Chosen(s)}]]

LEMMA ChosenIsMember ==
    ASSUME NEW s, s # {}
    PROVE  Chosen(s) \in s
BY DEF Chosen

LEMMA SumIsFold ==
    ASSUME NEW f, NEW S
    PROVE  SumFunctionOnSet(f, S) = (CHOOSE g : Folding(g, f, SUBSET S))[S]
BY DEF SumFunctionOnSet, FoldFunctionOnSet, MapThenFoldSet, Chosen, Folding

(* The recursion is well founded over a finite set. *)
LEMMA FoldExists ==
    ASSUME NEW f, NEW S, IsFiniteSet(S)
    PROVE  \E g : Folding(g, f, SUBSET S)
<1> DEFINE Small(n) == {s \in SUBSET S : Cardinality(s) <= n}
           T == {n \in Nat : \E g : Folding(g, f, Small(n))}
<1>1. \A s \in SUBSET S : IsFiniteSet(s) /\ Cardinality(s) \in Nat
  BY FS_Subset, FS_CardinalityType
<1>2. 0 \in T
  <2>1. \A s \in Small(0) : s = {}
    BY <1>1, FS_EmptySet
  <2>2. Folding([s \in Small(0) |-> 0], f, Small(0))
    BY <2>1 DEF Folding
  <2> QED BY <2>2
<1>3. ASSUME NEW n \in T PROVE n + 1 \in T
  <2>1. PICK g : Folding(g, f, Small(n))
    OBVIOUS
  <2> DEFINE Value(h, s) == IF s = {} THEN 0 ELSE f[Chosen(s)] + h[s \ {Chosen(s)}]
             h == [s \in Small(n + 1) |-> Value(g, s)]
  <2>2. n \in Nat
    OBVIOUS
  <2>3. \A s \in Small(n) : s \in Small(n + 1) /\ g[s] = Value(g, s)
    <3>1. \A s \in Small(n) : s \in Small(n + 1)
      BY <1>1, <2>2
    <3>2. \A s \in Small(n) : g[s] = Value(g, s)
      BY <2>1 DEF Folding
    <3> QED BY <3>1, <3>2
  <2>4. \A s \in Small(n) : h[s] = g[s]
    BY <2>3
  <2>5. ASSUME NEW s \in Small(n + 1), s # {}
        PROVE  s \ {Chosen(s)} \in Small(n)
    <3>1. Cardinality(s \ {Chosen(s)}) = Cardinality(s) - 1
      BY <1>1, <2>5, ChosenIsMember, FS_RemoveElement
    <3> QED BY <1>1, <2>2, <2>5, <3>1
  <2>6. \A s \in Small(n + 1) : h[s] = Value(h, s)
    BY <2>4, <2>5
  <2>7. h = [s \in Small(n + 1) |-> Value(h, s)]
    BY <2>6
  <2>8. Folding(h, f, Small(n + 1))
    BY <2>7 DEF Folding
  <2> HIDE DEF h, Small
  <2>9. \E k : Folding(k, f, Small(n + 1))
    BY <2>8
  <2>10. n + 1 \in Nat
    BY <2>2
  <2> QED BY <2>9, <2>10
<1>4. T = Nat
  BY <1>2, <1>3, NumbersByInduction
<1>5. Cardinality(S) \in T /\ SUBSET S = Small(Cardinality(S))
  BY <1>1, <1>4, FS_Subset, FS_CardinalityType
<1> QED BY <1>5

(* Folds over two sets agree on the parts they share. *)
LEMMA FoldsAgree ==
    ASSUME NEW f, NEW S, IsFiniteSet(S), NEW A \in SUBSET S, NEW g, NEW h,
           Folding(g, f, SUBSET S), Folding(h, f, SUBSET A)
    PROVE  g[A] = h[A]
<1> DEFINE T == {n \in Nat : \A s \in SUBSET A : Cardinality(s) = n => g[s] = h[s]}
<1>1. \A s \in SUBSET A : IsFiniteSet(s) /\ Cardinality(s) \in Nat
  BY FS_Subset, FS_CardinalityType
<1>2. \A s \in SUBSET A :
        /\ g[s] = IF s = {} THEN 0 ELSE f[Chosen(s)] + g[s \ {Chosen(s)}]
        /\ h[s] = IF s = {} THEN 0 ELSE f[Chosen(s)] + h[s \ {Chosen(s)}]
  BY DEF Folding
<1>3. 0 \in T
  BY <1>1, <1>2, FS_EmptySet
<1>4. ASSUME NEW n \in T PROVE n + 1 \in T
  <2>1. ASSUME NEW s \in SUBSET A, Cardinality(s) = n + 1 PROVE g[s] = h[s]
    <3>1. s # {} /\ n \in Nat
      BY <2>1, FS_EmptySet
    <3>2. Cardinality(s \ {Chosen(s)}) = Cardinality(s) - 1
      BY <1>1, <3>1, ChosenIsMember, FS_RemoveElement
    <3>3. Cardinality(s \ {Chosen(s)}) = n
      BY <2>1, <3>1, <3>2
    <3>4. g[s \ {Chosen(s)}] = h[s \ {Chosen(s)}]
      BY <3>3
    <3> QED BY <1>2, <3>1, <3>4
  <2> QED BY <2>1
<1>5. T = Nat
  BY <1>3, <1>4, NumbersByInduction
<1>6. Cardinality(A) \in T
  BY <1>1, <1>5
<1> QED BY <1>6

THEOREM SumOverEmptySet ==
    ASSUME NEW f
    PROVE  SumFunctionOnSet(f, {}) = 0
<1> DEFINE g == CHOOSE g : Folding(g, f, SUBSET {})
<1>1. Folding(g, f, SUBSET {})
  BY FoldExists, FS_EmptySet
<1> QED BY <1>1, SumIsFold DEF Folding

(* The element the fold takes first. *)
LEMMA SumTakesChosen ==
    ASSUME NEW f, NEW S, IsFiniteSet(S), S # {}
    PROVE  SumFunctionOnSet(f, S) = f[Chosen(S)] + SumFunctionOnSet(f, S \ {Chosen(S)})
<1> DEFINE A == S \ {Chosen(S)}
           g == CHOOSE g : Folding(g, f, SUBSET S)
           h == CHOOSE h : Folding(h, f, SUBSET A)
<1>1. IsFiniteSet(A)
  BY FS_RemoveElement
<1>2. Folding(g, f, SUBSET S)
  BY FoldExists
<1>3. Folding(h, f, SUBSET A)
  BY <1>1, FoldExists
<1>4. g[A] = h[A]
  <2> HIDE DEF g, h
  <2>1. A \in SUBSET S
    OBVIOUS
  <2> HIDE DEF A
  <2> QED BY <1>2, <1>3, <2>1, FoldsAgree
<1>5. g[S] = f[Chosen(S)] + g[A]
  BY <1>2 DEF Folding
<1>6. SumFunctionOnSet(f, S) = g[S] /\ SumFunctionOnSet(f, A) = h[A]
  BY SumIsFold
<1> QED BY <1>4, <1>5, <1>6

THEOREM SumIsInt ==
    ASSUME NEW f, NEW S, IsFiniteSet(S), \A x \in S : f[x] \in Int
    PROVE  SumFunctionOnSet(f, S) \in Int
<1> DEFINE T == {n \in Nat : \A s \in SUBSET S :
                               Cardinality(s) = n => SumFunctionOnSet(f, s) \in Int}
<1>1. \A s \in SUBSET S : IsFiniteSet(s) /\ Cardinality(s) \in Nat
  BY FS_Subset, FS_CardinalityType
<1>2. 0 \in T
  <2>1. \A s \in SUBSET S : Cardinality(s) = 0 => s = {}
    BY <1>1, FS_EmptySet
  <2> QED BY <2>1, SumOverEmptySet
<1>3. ASSUME NEW n \in T PROVE n + 1 \in T
  <2>1. ASSUME NEW s \in SUBSET S, Cardinality(s) = n + 1
        PROVE  SumFunctionOnSet(f, s) \in Int
    <3>1. s # {} /\ n \in Nat /\ IsFiniteSet(s)
      BY <1>1, <2>1, FS_EmptySet
    <3>2. Cardinality(s \ {Chosen(s)}) = Cardinality(s) - 1
      BY <3>1, ChosenIsMember, FS_RemoveElement
    <3>3. Cardinality(s \ {Chosen(s)}) = n
      BY <2>1, <3>1, <3>2
    <3>4. SumFunctionOnSet(f, s \ {Chosen(s)}) \in Int
      BY <3>3
    <3>5. f[Chosen(s)] \in Int
      BY <3>1, ChosenIsMember
    <3> QED BY <3>1, <3>4, <3>5, SumTakesChosen
  <2> QED BY <2>1
<1>4. T = Nat
  BY <1>2, <1>3, NumbersByInduction
<1>5. Cardinality(S) \in T
  BY <1>1, <1>4
<1> QED BY <1>5

(* The order in which the fold takes the elements does not matter. *)
LEMMA SumTakesAny ==
    ASSUME NEW f, NEW S, IsFiniteSet(S), \A x \in S : f[x] \in Int
    PROVE  \A x \in S : SumFunctionOnSet(f, S) = SumFunctionOnSet(f, S \ {x}) + f[x]
<1> DEFINE Sum(s) == SumFunctionOnSet(f, s)
           T == {n \in Nat : \A s \in SUBSET S : Cardinality(s) = n =>
                               \A x \in s : Sum(s) = Sum(s \ {x}) + f[x]}
<1>1. \A s \in SUBSET S : IsFiniteSet(s) /\ Cardinality(s) \in Nat /\ Sum(s) \in Int
  BY FS_Subset, FS_CardinalityType, SumIsInt
<1> HIDE DEF Sum
<1>2. 0 \in T
  <2>1. \A s \in SUBSET S : Cardinality(s) = 0 => s = {}
    BY <1>1, FS_EmptySet
  <2> QED BY <2>1
<1>3. ASSUME NEW n \in T PROVE n + 1 \in T
  <2>1. ASSUME NEW s \in SUBSET S, Cardinality(s) = n + 1, NEW x \in s
        PROVE  Sum(s) = Sum(s \ {x}) + f[x]
    <3> DEFINE c == Chosen(s)
    <3>1. c \in s /\ n \in Nat
      BY ChosenIsMember
    <3>2. Sum(s) = f[c] + Sum(s \ {c})
      BY <1>1, SumTakesChosen DEF Sum
    <3>3. CASE x = c
      BY <1>1, <3>1, <3>2, <3>3
    <3>4. CASE x # c
      <4>1. /\ Cardinality(s \ {c}) = Cardinality(s) - 1
            /\ Cardinality(s \ {x}) = Cardinality(s) - 1
        BY <1>1, <3>1, FS_RemoveElement
      <4>2. Cardinality(s \ {c}) = n /\ Cardinality(s \ {x}) = n
        BY <2>1, <3>1, <4>1
      <4>3. Sum(s \ {c}) = Sum((s \ {c}) \ {x}) + f[x]
        BY <3>1, <3>4, <4>2
      <4>4. Sum(s \ {x}) = Sum((s \ {x}) \ {c}) + f[c]
        BY <3>1, <3>4, <4>2
      <4>5. Sum((s \ {c}) \ {x}) = Sum((s \ {x}) \ {c})
        <5>1. (s \ {c}) \ {x} = (s \ {x}) \ {c}
          OBVIOUS
        <5> QED BY <5>1
      <4>6. Sum((s \ {x}) \ {c}) \in Int /\ f[x] \in Int /\ f[c] \in Int
        BY <1>1, <3>1
      <4> HIDE DEF c
      <4> QED BY <3>2, <4>3, <4>4, <4>5, <4>6
    <3> QED BY <3>3, <3>4
  <2> QED BY <2>1
<1>4. T = Nat
  BY <1>2, <1>3, NumbersByInduction
<1>5. Cardinality(S) \in T
  BY <1>1, <1>4
<1> QED BY <1>5 DEF Sum

THEOREM SumWithElement ==
    ASSUME NEW f, NEW S, IsFiniteSet(S), NEW x, x \notin S,
           \A y \in S \cup {x} : f[y] \in Int
    PROVE  SumFunctionOnSet(f, S \cup {x}) = SumFunctionOnSet(f, S) + f[x]
<1>1. IsFiniteSet(S \cup {x}) /\ (S \cup {x}) \ {x} = S
  BY FS_AddElement
<1> QED BY <1>1, SumTakesAny
=============================================================================
