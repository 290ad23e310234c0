---------------------------- MODULE FoldTheorems ----------------------------
(***************************************************************************)
(* What the proofs of the other modules need of sums and of recursions     *)
(* along a sequence.                                                       *)
(*                                                                         *)
(* A sum over a function (SumFunction of the library) is a recursion over  *)
(* the subsets of its domain.  That the recursion is well founded, that    *)
(* its order does not matter, and that a sum changes by what one of its    *)
(* terms changes, is shown by induction over the size of a set: the sizes  *)
(* with the wanted property are a set that contains 0 and with a number    *)
(* its successor, so it is Nat, because a non-empty set of naturals has a  *)
(* least element (WFMin).                                                  *)
(***************************************************************************)
EXTENDS Integers, Sequences, FiniteSets, Functions, FiniteSetTheorems, SequenceTheorems,
        WellFoundedInduction, TLAPS

(* Induction, for a set of numbers. *)
LEMMA SetInduction ==
    ASSUME NEW S \in SUBSET Nat, 0 \in S, \A n \in S : n + 1 \in S
    PROVE  S = Nat
<1> DEFINE T == Nat \ S
<1> SUFFICES ASSUME T # {} PROVE FALSE
  OBVIOUS
<1>1. PICK x \in T : \A y \in T : ~(<<y, x>> \in OpToRel(<, Nat))
  <2>1. T \subseteq Nat
    OBVIOUS
  <2> HIDE DEF T
  <2> QED
    BY <2>1, WFMin, NatLessThanWellFounded
<1>2. x - 1 \in S
  <2>1. x \in Nat /\ x # 0
    OBVIOUS
  <2>2. x - 1 \in Nat
    BY <2>1
  <2>3. <<x - 1, x>> \in OpToRel(<, Nat)
    BY <2>1, <2>2 DEF OpToRel
  <2> QED
    BY <2>2, <2>3, <1>1
<1> QED
  BY <1>2

-----------------------------------------------------------------------------
(* Sums.  SumOver is the recursion behind SumFunction: the sums of f over all
   subsets of S, each of which takes the element that CHOOSE gives it first. *)
First(s) == CHOOSE x \in s : TRUE
SumOver(f, S) ==
    LET iter[s \in SUBSET S] ==
          IF s = {} THEN 0
          ELSE LET x == First(s)
               IN  f[x] + iter[s \ {x}]
    IN  iter
Total(f, S) == SumOver(f, S)[S]

LEMMA SumIsTotal == \A f : SumFunction(f) = Total(f, DOMAIN f)
BY DEF SumFunction, SumFunctionOnSet, FoldFunctionOnSet, MapThenFoldSet, Total, SumOver, First

LEMMA FirstIn == \A s : s # {} => First(s) \in s
BY DEF First

(* The recursion is well founded, because it goes to smaller subsets. *)
LEMMA SumOverDef ==
    ASSUME NEW f, NEW S, IsFiniteSet(S)
    PROVE  \A s \in SUBSET S :
              SumOver(f, S)[s] = IF s = {} THEN 0
                                 ELSE f[First(s)] + SumOver(f, S)[s \ {First(s)}]
<1> DEFINE Small(k) == {s \in SUBSET S : Cardinality(s) <= k}
           Next1(g, s) == IF s = {} THEN 0 ELSE f[First(s)] + g[s \ {First(s)}]
           Eqn(g, k) == g = [s \in Small(k) |-> Next1(g, s)]
           P == {k \in Nat : \E g : Eqn(g, k)}
<1>0. ASSUME NEW s \in SUBSET S
      PROVE  /\ IsFiniteSet(s) /\ Cardinality(s) \in Nat
             /\ s # {} => /\ First(s) \in s /\ s \ {First(s)} \in SUBSET S
                          /\ Cardinality(s \ {First(s)}) = Cardinality(s) - 1
             /\ Cardinality(s) = 0 <=> s = {}
             /\ Cardinality(s) <= Cardinality(S)
  BY FS_Subset, FS_CardinalityType, FS_RemoveElement, FS_EmptySet, FirstIn
<1>1. 0 \in P
  <2> DEFINE g == [s \in Small(0) |-> 0]
  <2>1. ASSUME NEW s \in Small(0) PROVE s = {}
    <3>1. Cardinality(s) \in Nat /\ Cardinality(s) <= 0 /\ (Cardinality(s) = 0 <=> s = {})
      BY <1>0
    <3> QED
      BY <3>1
  <2>2. Eqn(g, 0)
    BY <2>1
  <2> QED
    BY <2>2
<1>2. ASSUME NEW k \in P PROVE k + 1 \in P
  <2>1. PICK g : Eqn(g, k)
    OBVIOUS
  <2> DEFINE h == [s \in Small(k + 1) |-> Next1(g, s)]
  <2>2. \A s \in Small(k) : g[s] = Next1(g, s)
    BY <2>1
  <2>3. ASSUME NEW s \in Small(k + 1) PROVE h[s] = Next1(h, s)
    <3>1. CASE s = {}
      BY <3>1
    <3>2. CASE s # {}
      <4> DEFINE t == s \ {First(s)}
      <4>1. t \in Small(k) /\ t \in Small(k + 1)
        BY <1>0, <3>2
      <4>2. h[t] = Next1(g, t)
        BY <4>1
      <4>3. h[t] = g[t]
        BY <4>1, <4>2, <2>2
      <4>4. h[s] = f[First(s)] + g[t] /\ Next1(h, s) = f[First(s)] + h[t]
        BY <3>2
      <4> QED
        BY <4>3, <4>4
    <3> QED
      BY <3>1, <3>2
  <2>4. Eqn(h, k + 1)
    <3>1. h = [s \in Small(k + 1) |-> Next1(h, s)]
      <4>1. h = [s \in Small(k + 1) |-> h[s]]
        OBVIOUS
      <4> HIDE DEF h, Small, Next1
      <4> QED
        BY <4>1, <2>3
    <3> QED
      BY <3>1
  <2>5. k + 1 \in Nat
    OBVIOUS
  <2> HIDE DEF h, Eqn
  <2> QED
    BY <2>4, <2>5
<1>3. P = Nat
  <2> HIDE DEF P
  <2> QED
    BY <1>1, <1>2, SetInduction DEF P
<1>4. PICK g : Eqn(g, Cardinality(S))
  BY <1>0, <1>3
<1>5. Small(Cardinality(S)) = SUBSET S
  BY <1>0
<1>6. g = [s \in SUBSET S |-> IF s = {} THEN 0 ELSE f[First(s)] + g[s \ {First(s)}]]
  BY <1>4, <1>5
<1>7. SumOver(f, S) = [s \in SUBSET S |->
              IF s = {} THEN 0 ELSE f[First(s)] + SumOver(f, S)[s \ {First(s)}]]
  BY <1>6 DEF SumOver
<1> QED
  BY <1>7

(* What is left of a finite set, and how large it is. *)
LEMMA SumWithout ==
    ASSUME NEW S, IsFiniteSet(S), NEW x \in S
    PROVE  /\ IsFiniteSet(S \ {x}) /\ Cardinality(S \ {x}) \in Nat
           /\ Cardinality(S) = Cardinality(S \ {x}) + 1
<1>1. IsFiniteSet(S \ {x}) /\ Cardinality(S \ {x}) = Cardinality(S) - 1
  BY FS_RemoveElement
<1>2. Cardinality(S) \in Nat /\ Cardinality(S \ {x}) \in Nat
  BY <1>1, FS_CardinalityType
<1> QED
  BY <1>1, <1>2

(* The sum over a subset is the same wherever it is taken. *)
LEMMA SumOverPart ==
    ASSUME NEW f, NEW S, IsFiniteSet(S), NEW T \in SUBSET S
    PROVE  SumOver(f, S)[T] = Total(f, T)
<1> DEFINE P == {k \in Nat : \A A \in SUBSET S : \A B \in SUBSET A :
                   Cardinality(B) = k => SumOver(f, A)[B] = SumOver(f, B)[B]}
<1>0. ASSUME NEW A \in SUBSET S, NEW B \in SUBSET A
      PROVE  /\ IsFiniteSet(A) /\ IsFiniteSet(B) /\ Cardinality(B) \in Nat
             /\ (Cardinality(B) = 0 <=> B = {})
             /\ SumOver(f, A)[B] = IF B = {} THEN 0
                                   ELSE f[First(B)] + SumOver(f, A)[B \ {First(B)}]
  <2>1. /\ IsFiniteSet(A) /\ IsFiniteSet(B) /\ Cardinality(B) \in Nat
        /\ (Cardinality(B) = 0 <=> B = {})
    BY FS_Subset, FS_CardinalityType, FS_EmptySet
  <2> QED
    BY <2>1, SumOverDef
<1>1. 0 \in P
  <2> SUFFICES ASSUME NEW A \in SUBSET S, NEW B \in SUBSET A, Cardinality(B) = 0
               PROVE  SumOver(f, A)[B] = SumOver(f, B)[B]
    OBVIOUS
  <2>1. B = {} /\ B \in SUBSET S /\ B \in SUBSET B
    BY <1>0
  <2>2. SumOver(f, A)[B] = 0 /\ SumOver(f, B)[B] = 0
    BY <1>0, <2>1
  <2> QED
    BY <2>2
<1>2. ASSUME NEW k \in P PROVE k + 1 \in P
  <2>1. /\ k \in Nat /\ k + 1 \in Nat /\ k + 1 # 0
        /\ \A A \in SUBSET S : \A B \in SUBSET A :
              Cardinality(B) = k => SumOver(f, A)[B] = SumOver(f, B)[B]
    OBVIOUS
  <2>2. ASSUME NEW A \in SUBSET S, NEW B \in SUBSET A, Cardinality(B) = k + 1
        PROVE  SumOver(f, A)[B] = SumOver(f, B)[B]
    <3> HIDE DEF P
    <3> DEFINE C == B \ {First(B)}
    <3>1. B # {} /\ First(B) \in B /\ IsFiniteSet(B)
      BY <1>0, <2>1, <2>2, FirstIn
    <3>2. Cardinality(C) = k
      <4>1. Cardinality(C) \in Nat /\ Cardinality(B) = Cardinality(C) + 1
        BY <3>1, SumWithout
      <4> QED
        BY <4>1, <2>1, <2>2
    <3>3. C \in SUBSET A /\ C \in SUBSET B /\ B \in SUBSET S /\ C \in SUBSET S
      OBVIOUS
    <3>4. /\ SumOver(f, A)[B] = f[First(B)] + SumOver(f, A)[C]
          /\ SumOver(f, B)[B] = f[First(B)] + SumOver(f, B)[C]
      BY <1>0, <3>1, <3>3
    <3>5. SumOver(f, A)[C] = SumOver(f, C)[C] /\ SumOver(f, B)[C] = SumOver(f, C)[C]
      BY <2>1, <3>2, <3>3
    <3> QED
      BY <3>4, <3>5
  <2> QED
    BY <2>1, <2>2
<1>3. P = Nat
  <2> HIDE DEF P
  <2> QED
    BY <1>1, <1>2, SetInduction DEF P
<1>4. S \in SUBSET S /\ Cardinality(T) \in Nat
  BY <1>0
<1> QED
  BY <1>3, <1>4 DEF Total

LEMMA TotalDef ==
    ASSUME NEW f, NEW S, IsFiniteSet(S)
    PROVE  Total(f, S) = IF S = {} THEN 0 ELSE f[First(S)] + Total(f, S \ {First(S)})
<1>2. S \ {First(S)} \in SUBSET S /\ S \in SUBSET S
  OBVIOUS
<1>3. SumOver(f, S)[S \ {First(S)}] = Total(f, S \ {First(S)})
  BY <1>2, SumOverPart
<1>4. SumOver(f, S)[S] = IF S = {} THEN 0 ELSE f[First(S)] + SumOver(f, S)[S \ {First(S)}]
  BY <1>2, SumOverDef
<1> QED
  BY <1>3, <1>4 DEF Total

(* A sum of numbers is a number, and depends on the values over the set alone. *)
LEMMA TotalSame ==
    ASSUME NEW f, NEW g, NEW S, IsFiniteSet(S),
           \A x \in S : f[x] \in Nat /\ g[x] = f[x]
    PROVE  Total(f, S) \in Nat /\ Total(g, S) = Total(f, S)
<1> DEFINE P == {k \in Nat : \A T \in SUBSET S :
                   Cardinality(T) = k => Total(f, T) \in Nat /\ Total(g, T) = Total(f, T)}
<1>0. ASSUME NEW T \in SUBSET S
      PROVE  /\ IsFiniteSet(T) /\ Cardinality(T) \in Nat /\ (Cardinality(T) = 0 <=> T = {})
             /\ Total(f, T) = IF T = {} THEN 0 ELSE f[First(T)] + Total(f, T \ {First(T)})
             /\ Total(g, T) = IF T = {} THEN 0 ELSE g[First(T)] + Total(g, T \ {First(T)})
  <2>1. /\ IsFiniteSet(T) /\ Cardinality(T) \in Nat /\ (Cardinality(T) = 0 <=> T = {})
    BY FS_Subset, FS_CardinalityType, FS_EmptySet
  <2> QED
    BY <2>1, TotalDef
<1>1. 0 \in P
  <2> SUFFICES ASSUME NEW T \in SUBSET S, Cardinality(T) = 0
               PROVE  Total(f, T) \in Nat /\ Total(g, T) = Total(f, T)
    OBVIOUS
  <2>1. Total(f, T) = 0 /\ Total(g, T) = 0
    BY <1>0
  <2> QED
    BY <2>1
<1>2. ASSUME NEW k \in P PROVE k + 1 \in P
  <2>1. /\ k \in Nat /\ k + 1 \in Nat /\ k + 1 # 0
        /\ \A T \in SUBSET S :
              Cardinality(T) = k => Total(f, T) \in Nat /\ Total(g, T) = Total(f, T)
    OBVIOUS
  <2>2. ASSUME NEW T \in SUBSET S, Cardinality(T) = k + 1
        PROVE  Total(f, T) \in Nat /\ Total(g, T) = Total(f, T)
    <3> HIDE DEF P
    <3> DEFINE C == T \ {First(T)}
    <3>1. T # {} /\ First(T) \in T /\ IsFiniteSet(T) /\ First(T) \in S
      BY <1>0, <2>1, <2>2, FirstIn
    <3>2. Cardinality(C) = k /\ C \in SUBSET S
      <4>1. Cardinality(C) \in Nat /\ Cardinality(T) = Cardinality(C) + 1
        BY <3>1, SumWithout
      <4> QED
        BY <4>1, <2>1, <2>2
    <3>3. Total(f, C) \in Nat /\ Total(g, C) = Total(f, C)
      BY <2>1, <3>2
    <3>4. Total(f, T) = f[First(T)] + Total(f, C) /\ Total(g, T) = g[First(T)] + Total(g, C)
      BY <1>0, <3>1
    <3> QED
      BY <3>1, <3>3, <3>4
  <2> QED
    BY <2>1, <2>2
<1>3. P = Nat
  <2> HIDE DEF P
  <2> QED
    BY <1>1, <1>2, SetInduction DEF P
<1>4. S \in SUBSET S /\ Cardinality(S) \in Nat
  BY <1>0
<1> QED
  BY <1>3, <1>4

(* Any element may be taken first. *)
LEMMA TotalTake ==
    ASSUME NEW f, NEW S, IsFiniteSet(S), \A x \in S : f[x] \in Nat, NEW x \in S
    PROVE  Total(f, S) = f[x] + Total(f, S \ {x}) /\ Total(f, S \ {x}) \in Nat
<1> DEFINE P == {k \in Nat : \A T \in SUBSET S : \A y \in T :
                   Cardinality(T) = k => Total(f, T) = f[y] + Total(f, T \ {y})}
<1>0. ASSUME NEW T \in SUBSET S
      PROVE  /\ IsFiniteSet(T) /\ Cardinality(T) \in Nat /\ (Cardinality(T) = 0 <=> T = {})
             /\ Total(f, T) \in Nat
             /\ Total(f, T) = IF T = {} THEN 0 ELSE f[First(T)] + Total(f, T \ {First(T)})
  <2>1. /\ IsFiniteSet(T) /\ Cardinality(T) \in Nat /\ (Cardinality(T) = 0 <=> T = {})
    BY FS_Subset, FS_CardinalityType, FS_EmptySet
  <2>2. Total(f, T) \in Nat
    BY <2>1, TotalSame
  <2> QED
    BY <2>1, <2>2, TotalDef
<1>1. 0 \in P
  BY <1>0
<1>2. ASSUME NEW k \in P PROVE k + 1 \in P
  <2>1. /\ k \in Nat /\ k + 1 \in Nat
        /\ \A T \in SUBSET S : \A y \in T :
              Cardinality(T) = k => Total(f, T) = f[y] + Total(f, T \ {y})
    OBVIOUS
  <2>2. ASSUME NEW T \in SUBSET S, NEW y \in T, Cardinality(T) = k + 1
        PROVE  Total(f, T) = f[y] + Total(f, T \ {y})
    <3> HIDE DEF P
    <3> DEFINE c == First(T)
    <3>1. T # {} /\ c \in T /\ IsFiniteSet(T) /\ c \in S
      BY <1>0, <2>2, FirstIn
    <3>2. Total(f, T) = f[c] + Total(f, T \ {c})
      BY <1>0, <3>1
    <3>3. CASE y = c
      BY <3>2, <3>3
    <3>4. CASE y # c
      <4>1. y \in T \ {c} /\ c \in T \ {y} /\ T \ {c} \in SUBSET S /\ T \ {y} \in SUBSET S
        BY <3>1, <3>4
      <4>2. Cardinality(T \ {c}) = k /\ Cardinality(T \ {y}) = k
        <5>1. /\ Cardinality(T \ {c}) \in Nat /\ Cardinality(T) = Cardinality(T \ {c}) + 1
              /\ Cardinality(T \ {y}) \in Nat /\ Cardinality(T) = Cardinality(T \ {y}) + 1
          BY <3>1, SumWithout
        <5> QED
          BY <5>1, <2>1, <2>2
      <4>3. /\ Total(f, T \ {c}) = f[y] + Total(f, (T \ {c}) \ {y})
            /\ Total(f, T \ {y}) = f[c] + Total(f, (T \ {y}) \ {c})
        BY <2>1, <4>1, <4>2
      <4>4. (T \ {c}) \ {y} = (T \ {y}) \ {c} /\ (T \ {y}) \ {c} \in SUBSET S
        OBVIOUS
      <4>5. Total(f, (T \ {y}) \ {c}) \in Nat /\ f[c] \in Nat /\ f[y] \in Nat
        BY <1>0, <3>1, <4>4
      <4> HIDE DEF c
      <4> QED
        BY <3>2, <4>3, <4>4, <4>5
    <3> QED
      BY <3>3, <3>4
  <2> QED
    BY <2>1, <2>2
<1>3. P = Nat
  <2> HIDE DEF P
  <2> QED
    BY <1>1, <1>2, SetInduction DEF P
<1>4. S \in SUBSET S /\ Cardinality(S) \in Nat /\ S \ {x} \in SUBSET S
  BY <1>0
<1> QED
  BY <1>0, <1>3, <1>4

(* The sum of a function with values in Nat over its finite domain: what a change
   of one value does to it. *)
LEMMA SumChanges ==
    ASSUME NEW D, IsFiniteSet(D), NEW f \in [D -> Nat], NEW g \in [D -> Nat], NEW x \in D,
           \A y \in D \ {x} : g[y] = f[y]
    PROVE  /\ SumFunction(f) \in Nat /\ SumFunction(g) \in Nat
           /\ SumFunction(g) + f[x] = SumFunction(f) + g[x]
           /\ f[x] <= SumFunction(f)
<1>1. SumFunction(f) = Total(f, D) /\ SumFunction(g) = Total(g, D)
  <2>1. DOMAIN f = D /\ DOMAIN g = D
    OBVIOUS
  <2> QED
    BY <2>1, SumIsTotal
<1>2. /\ Total(f, D) = f[x] + Total(f, D \ {x}) /\ Total(f, D \ {x}) \in Nat
      /\ Total(g, D) = g[x] + Total(g, D \ {x}) /\ Total(g, D \ {x}) \in Nat
  <2>1. (\A y \in D : f[y] \in Nat) /\ (\A y \in D : g[y] \in Nat)
    OBVIOUS
  <2>2. Total(f, D) = f[x] + Total(f, D \ {x}) /\ Total(f, D \ {x}) \in Nat
    BY <2>1, TotalTake
  <2>3. Total(g, D) = g[x] + Total(g, D \ {x}) /\ Total(g, D \ {x}) \in Nat
    BY <2>1, TotalTake
  <2> QED
    BY <2>2, <2>3
<1>3. Total(g, D \ {x}) = Total(f, D \ {x})
  <2>1. IsFiniteSet(D \ {x})
    BY SumWithout
  <2> QED
    BY <2>1, TotalSame
<1>4. f[x] \in Nat /\ g[x] \in Nat
  OBVIOUS
<1> QED
  BY <1>1, <1>2, <1>3, <1>4

LEMMA SumIsNumber ==
    ASSUME NEW D, IsFiniteSet(D), NEW f \in [D -> Nat]
    PROVE  SumFunction(f) \in Nat
<1>1. SumFunction(f) = Total(f, D)
  <2>1. DOMAIN f = D
    OBVIOUS
  <2> QED
    BY <2>1, SumIsTotal
<1> QED
  BY <1>1, TotalSame

LEMMA SumOfNothing ==
    ASSUME NEW D, IsFiniteSet(D), NEW f \in [D -> Nat], \A x \in D : f[x] = 0
    PROVE  SumFunction(f) = 0
<1> DEFINE P == {k \in Nat : \A T \in SUBSET D : Cardinality(T) = k => Total(f, T) = 0}
<1>0. ASSUME NEW T \in SUBSET D
      PROVE  /\ IsFiniteSet(T) /\ Cardinality(T) \in Nat /\ (Cardinality(T) = 0 <=> T = {})
             /\ Total(f, T) = IF T = {} THEN 0 ELSE f[First(T)] + Total(f, T \ {First(T)})
  <2>1. /\ IsFiniteSet(T) /\ Cardinality(T) \in Nat /\ (Cardinality(T) = 0 <=> T = {})
    BY FS_Subset, FS_CardinalityType, FS_EmptySet
  <2> QED
    BY <2>1, TotalDef
<1>1. 0 \in P
  BY <1>0
<1>2. ASSUME NEW k \in P PROVE k + 1 \in P
  <2>1. /\ k \in Nat /\ k + 1 \in Nat /\ k + 1 # 0
        /\ \A T \in SUBSET D : Cardinality(T) = k => Total(f, T) = 0
    OBVIOUS
  <2>2. ASSUME NEW T \in SUBSET D, Cardinality(T) = k + 1 PROVE Total(f, T) = 0
    <3> HIDE DEF P
    <3> DEFINE C == T \ {First(T)}
    <3>1. T # {} /\ First(T) \in T /\ IsFiniteSet(T) /\ First(T) \in D
      BY <1>0, <2>1, <2>2, FirstIn
    <3>2. Cardinality(C) = k /\ C \in SUBSET D
      <4>1. Cardinality(C) \in Nat /\ Cardinality(T) = Cardinality(C) + 1
        BY <3>1, SumWithout
      <4> QED
        BY <4>1, <2>1, <2>2
    <3>3. Total(f, C) = 0 /\ f[First(T)] = 0
      BY <2>1, <3>1, <3>2
    <3>4. Total(f, T) = f[First(T)] + Total(f, C)
      BY <1>0, <3>1
    <3> QED
      BY <3>3, <3>4
  <2> QED
    BY <2>1, <2>2
<1>3. P = Nat
  <2> HIDE DEF P
  <2> QED
    BY <1>1, <1>2, SetInduction DEF P
<1>4. D \in SUBSET D /\ Cardinality(D) \in Nat
  BY <1>0
<1>5. Total(f, D) = 0
  BY <1>3, <1>4
<1>6. DOMAIN f = D
  OBVIOUS
<1> QED
  BY <1>5, <1>6, SumIsTotal

(* The sum of a queue, as it grows and shrinks. *)
LEMMA SumOfQueue ==
    ASSUME NEW q \in Seq(Nat)
    PROVE  /\ SumFunction(q) \in Nat
           /\ \A n \in Nat : SumFunction(Append(q, n)) = SumFunction(q) + n
           /\ q # <<>> => SumFunction(q) = Head(q) + SumFunction(Tail(q))
<1> DEFINE N == Len(q)
<1>1. N \in Nat /\ DOMAIN q = 1..N /\ IsFiniteSet(1..N) /\ q \in [1..N -> Nat]
      /\ \A i \in 1..N : q[i] \in Nat
  <2>1. N \in Nat /\ DOMAIN q = 1..N /\ q \in [1..N -> Nat]
    BY LenProperties
  <2>2. 1 \in Int /\ N \in Int
    BY <2>1
  <2> HIDE DEF N
  <2>3. IsFiniteSet(1..N)
    BY <2>2, FS_Interval
  <2> QED
    BY <2>1, <2>3
<1>2. SumFunction(q) = Total(q, 1..N) /\ SumFunction(q) \in Nat
  BY <1>1, SumIsTotal, SumIsNumber
<1>3. ASSUME NEW n \in Nat PROVE SumFunction(Append(q, n)) = SumFunction(q) + n
  <2> DEFINE p == Append(q, n)
  <2>1. /\ p \in Seq(Nat) /\ Len(p) = N + 1 /\ p[N + 1] = n
        /\ \A i \in 1..N : p[i] = q[i]
    BY AppendProperties
  <2>2. DOMAIN p = 1..(N + 1) /\ \A i \in 1..(N + 1) : p[i] \in Nat
    BY <2>1, <1>1, LenProperties
  <2>3. IsFiniteSet(1..(N + 1)) /\ N + 1 \in 1..(N + 1) /\ (1..(N + 1)) \ {N + 1} = 1..N
    <3>1. N \in Nat
      BY <1>1
    <3> HIDE DEF N
    <3>2. 1 \in Int /\ N + 1 \in Int
      BY <3>1
    <3>3. IsFiniteSet(1..(N + 1))
      BY <3>2, FS_Interval
    <3>4. N + 1 \in 1..(N + 1) /\ (1..(N + 1)) \ {N + 1} = 1..N
      BY <3>1
    <3> QED
      BY <3>3, <3>4
  <2> HIDE DEF p, N
  <2>4. Total(p, 1..(N + 1)) = p[N + 1] + Total(p, (1..(N + 1)) \ {N + 1})
    <3> DEFINE A == 1..(N + 1)
               m == N + 1
    <3>1. IsFiniteSet(A) /\ m \in A /\ \A i \in A : p[i] \in Nat
      BY <2>2, <2>3
    <3> HIDE DEF A, m
    <3>2. Total(p, A) = p[m] + Total(p, A \ {m})
      BY ONLY <3>1, TotalTake
    <3> QED
      BY <3>2 DEF A, m
  <2>5. Total(p, 1..N) = Total(q, 1..N)
    BY <2>1, <1>1, TotalSame
  <2>6. SumFunction(p) = Total(p, 1..(N + 1))
    BY <2>2, SumIsTotal
  <2>7. SumFunction(p) = n + SumFunction(q)
    BY <2>1, <2>3, <2>4, <2>5, <2>6, <1>2
  <2> QED
    BY <2>7, <1>2 DEF p
<1>4. ASSUME q # <<>> PROVE SumFunction(q) = Head(q) + SumFunction(Tail(q))
  <2> DEFINE p == Tail(q)
  <2>1. N \in Nat \ {0}
    BY <1>4, EmptySeq
  <2>2. /\ p \in Seq(Nat) /\ Len(p) = N - 1 /\ Head(q) = q[1]
        /\ \A i \in 1..(N - 1) : p[i] = q[i + 1]
    BY <1>4, <2>1, HeadTailProperties
  <2>3. DOMAIN p = 1..(N - 1)
    BY <2>2, LenProperties
  <2> HIDE DEF p, N
  <2> DEFINE P == {k \in Nat : k <= N - 1 => Total(p, 1..k) = Total(q, 2..(k + 1))}
  <2>4. 0 \in P
    <3>1. 1..0 = {} /\ 2..1 = {} /\ IsFiniteSet({})
      BY FS_EmptySet
    <3>2. Total(p, {}) = 0 /\ Total(q, {}) = 0
      BY <3>1, TotalDef
    <3> QED
      BY <3>1, <3>2
  <2>5. ASSUME NEW k \in P PROVE k + 1 \in P
    <3>0. k \in Nat
      OBVIOUS
    <3> SUFFICES ASSUME k + 1 <= N - 1
                 PROVE  Total(p, 1..(k + 1)) = Total(q, 2..(k + 2))
      OBVIOUS
    <3>1. Total(p, 1..k) = Total(q, 2..(k + 1))
      <4>1. k <= N - 1
        BY <3>0, <2>1
      <4> QED
        BY <4>1
    <3>2. /\ IsFiniteSet(1..(k + 1)) /\ k + 1 \in 1..(k + 1)
          /\ (1..(k + 1)) \ {k + 1} = 1..k
          /\ IsFiniteSet(2..(k + 2)) /\ k + 2 \in 2..(k + 2)
          /\ (2..(k + 2)) \ {k + 2} = 2..(k + 1)
      <4>1. 1 \in Int /\ 2 \in Int /\ k + 1 \in Int /\ k + 2 \in Int
        BY <3>0
      <4>2. IsFiniteSet(1..(k + 1))
        BY <4>1, FS_Interval
      <4>3. IsFiniteSet(2..(k + 2))
        BY <4>1, FS_Interval
      <4>4. k + 1 \in 1..(k + 1) /\ (1..(k + 1)) \ {k + 1} = 1..k
        BY <3>0
      <4>5. k + 2 \in 2..(k + 2) /\ (2..(k + 2)) \ {k + 2} = 2..(k + 1)
        BY <3>0
      <4> QED
        BY <4>2, <4>3, <4>4, <4>5
    <3> HIDE DEF P
    <3>3. p[k + 1] = q[k + 2]
      <4>1. k + 1 \in 1..(N - 1) /\ (k + 1) + 1 = k + 2
        BY <3>0, <2>1
      <4> QED
        BY <4>1, <2>2
    <3>4. \A i \in 1..(k + 1) : p[i] \in Nat
      <4>1. \A i \in 1..(k + 1) : i \in 1..(N - 1)
        BY <3>0, <2>1
      <4>2. \A i \in 1..(N - 1) : p[i] \in Nat
        BY <2>2, <2>3
      <4> QED
        BY <4>1, <4>2
    <3>5. \A i \in 2..(k + 2) : q[i] \in Nat
      <4>1. \A i \in 2..(k + 2) : i \in 1..N
        BY <3>0, <2>1
      <4> QED
        BY <4>1, <1>1
    <3> DEFINE A == 1..(k + 1)
               B == 2..(k + 2)
               a == k + 1
               b == k + 2
    <3>6. /\ IsFiniteSet(A) /\ a \in A /\ (\A i \in A : p[i] \in Nat) /\ A \ {a} = 1..k
          /\ IsFiniteSet(B) /\ b \in B /\ (\A i \in B : q[i] \in Nat) /\ B \ {b} = 2..(k + 1)
          /\ p[a] = q[b]
      BY <3>2, <3>3, <3>4, <3>5
    <3> HIDE DEF A, B, a, b
    <3>7. Total(p, A) = p[a] + Total(p, A \ {a})
      <4>1. IsFiniteSet(A) /\ a \in A /\ \A i \in A : p[i] \in Nat
        BY <3>6
      <4> QED
        BY ONLY <4>1, TotalTake
    <3>8. Total(q, B) = q[b] + Total(q, B \ {b})
      BY <3>6, TotalTake
    <3>9. Total(p, A) = Total(q, B)
      BY <3>1, <3>6, <3>7, <3>8
    <3> QED
      BY <3>9 DEF A, B
  <2>6. P = Nat
    <3> HIDE DEF P
    <3> QED
      BY <2>4, <2>5, SetInduction DEF P
  <2>7. Total(p, 1..(N - 1)) = Total(q, 2..N)
    <3>1. N - 1 \in P /\ N - 1 \in Nat /\ (N - 1) + 1 = N
      BY <2>1, <2>6
    <3> QED
      BY <3>1
  <2>8. 1 \in 1..N /\ (1..N) \ {1} = 2..N
    BY <2>1
  <2>9. Total(q, 1..N) = q[1] + Total(q, (1..N) \ {1})
    BY <2>8, <1>1, TotalTake
  <2>10. SumFunction(p) = Total(p, 1..(N - 1))
    BY <2>3, SumIsTotal
  <2> QED
    BY <2>2, <2>7, <2>8, <2>9, <2>10, <1>2 DEF p
<1> QED
  BY <1>2, <1>3, <1>4

(* A sum over a part of the terms. *)
LEMMA TotalPart ==
    ASSUME NEW f, NEW S, IsFiniteSet(S), \A x \in S : f[x] \in Nat, NEW T \in SUBSET S
    PROVE  Total(f, T) \in Nat /\ Total(f, S) \in Nat /\ Total(f, T) <= Total(f, S)
<1> DEFINE P == {k \in Nat : \A U \in SUBSET S :
                   Cardinality(S \ U) = k => Total(f, U) <= Total(f, S)}
<1>0. ASSUME NEW U \in SUBSET S
      PROVE  /\ IsFiniteSet(U) /\ IsFiniteSet(S \ U) /\ Cardinality(S \ U) \in Nat
             /\ (Cardinality(S \ U) = 0 <=> S \ U = {}) /\ Total(f, U) \in Nat
  <2>1. IsFiniteSet(U) /\ IsFiniteSet(S \ U)
    BY FS_Subset
  <2>2. Cardinality(S \ U) \in Nat /\ (Cardinality(S \ U) = 0 <=> S \ U = {})
    BY <2>1, FS_CardinalityType, FS_EmptySet
  <2>3. \A x \in U : f[x] \in Nat /\ f[x] = f[x]
    OBVIOUS
  <2>4. Total(f, U) \in Nat
    BY <2>1, <2>3, TotalSame
  <2> QED
    BY <2>1, <2>2, <2>4
<1>1. 0 \in P
  <2>1. ASSUME NEW U \in SUBSET S, Cardinality(S \ U) = 0 PROVE Total(f, U) <= Total(f, S)
    <3>1. U = S
      BY <2>1, <1>0
    <3>2. Total(f, U) \in Nat
      BY <1>0
    <3> QED
      BY <3>1, <3>2
  <2> QED
    BY <2>1
<1>2. ASSUME NEW k \in P PROVE k + 1 \in P
  <2>1. ASSUME NEW U \in SUBSET S, Cardinality(S \ U) = k + 1 PROVE Total(f, U) <= Total(f, S)
    <3>1. k \in Nat /\ Cardinality(S \ U) # 0
      BY <2>1
    <3>2. PICK x \in S \ U : TRUE
      BY <3>1, <1>0
    <3> DEFINE V == U \cup {x}
    <3>3. V \in SUBSET S /\ S \ V = (S \ U) \ {x} /\ V \ {x} = U
      BY <3>2
    <3>4. Cardinality((S \ U) \ {x}) = k
      <4>1. Cardinality(S \ U) = Cardinality((S \ U) \ {x}) + 1 /\ Cardinality((S \ U) \ {x}) \in Nat
        BY <1>0, <3>2, SumWithout
      <4> QED
        BY <4>1, <2>1, <3>1
    <3>5. Total(f, V) <= Total(f, S)
      BY <3>3, <3>4
    <3>6. Total(f, V) = f[x] + Total(f, U)
      <4>1. IsFiniteSet(V) /\ (\A y \in V : f[y] \in Nat) /\ x \in V
        BY <3>2, <3>3, <1>0
      <4> HIDE DEF V
      <4>2. Total(f, V) = f[x] + Total(f, V \ {x})
        BY <4>1, TotalTake
      <4> QED
        BY <4>2, <3>3
    <3>7. f[x] \in Nat /\ Total(f, U) \in Nat /\ Total(f, V) \in Nat /\ Total(f, S) \in Nat
      BY <1>0, <3>2, <3>3
    <3> QED
      BY <3>5, <3>6, <3>7
  <2> QED
    BY <2>1
<1>3. P = Nat
  <2>1. P \in SUBSET Nat
    OBVIOUS
  <2> HIDE DEF P
  <2> QED
    BY <2>1, <1>1, <1>2, SetInduction
<1> QED
  BY <1>0, <1>3

LEMMA SumPart ==
    ASSUME NEW S, IsFiniteSet(S), NEW f \in [S -> Nat], NEW T \in SUBSET S
    PROVE  /\ SumFunction(f) \in Nat /\ SumFunction([y \in T |-> f[y]]) \in Nat
           /\ SumFunction([y \in T |-> f[y]]) <= SumFunction(f)
<1> DEFINE g == [y \in T |-> f[y]]
<1>1. SumFunction(f) = Total(f, S) /\ SumFunction(g) = Total(g, T)
  <2>1. DOMAIN f = S /\ DOMAIN g = T
    OBVIOUS
  <2> HIDE DEF g
  <2> QED
    BY <2>1, SumIsTotal
<1>2. Total(g, T) = Total(f, T)
  <2>1. IsFiniteSet(T) /\ \A x \in T : f[x] \in Nat /\ g[x] = f[x]
    BY FS_Subset
  <2> HIDE DEF g
  <2> QED
    BY <2>1, TotalSame
<1>3. \A x \in S : f[x] \in Nat
  OBVIOUS
<1> QED
  BY <1>1, <1>2, <1>3, TotalPart

(* A sum with one more term. *)
LEMMA SumWith ==
    ASSUME NEW S, IsFiniteSet(S), NEW x, x \notin S, NEW f \in [S \cup {x} -> Nat]
    PROVE  /\ SumFunction(f) \in Nat /\ SumFunction([y \in S |-> f[y]]) \in Nat
           /\ SumFunction(f) = SumFunction([y \in S |-> f[y]]) + f[x]
<1> DEFINE g == [y \in S |-> f[y]]
           U == S \cup {x}
<1>0. IsFiniteSet(U) /\ U \ {x} = S /\ x \in U
  BY FS_AddElement
<1>1. SumFunction(f) = Total(f, U) /\ SumFunction(g) = Total(g, S)
  <2>1. DOMAIN f = U /\ DOMAIN g = S
    OBVIOUS
  <2> HIDE DEF g
  <2> QED
    BY <2>1, SumIsTotal
<1>2. Total(g, S) = Total(f, S)
  <2>1. \A y \in S : f[y] \in Nat /\ g[y] = f[y]
    OBVIOUS
  <2> HIDE DEF g
  <2> QED
    BY <2>1, TotalSame
<1>3. \A y \in U : f[y] \in Nat
  OBVIOUS
<1>4. Total(f, U) = f[x] + Total(f, S) /\ Total(f, S) \in Nat
  <2> HIDE DEF U
  <2>1. Total(f, U) = f[x] + Total(f, U \ {x}) /\ Total(f, U \ {x}) \in Nat
    BY <1>0, <1>3, TotalTake
  <2> QED
    BY <2>1, <1>0
<1>5. f[x] \in Nat
  BY <1>0, <1>3
<1> QED
  BY <1>1, <1>2, <1>4, <1>5

(* No sum is more than the number of its terms times the largest. *)
LEMMA SumBound ==
    ASSUME NEW S, IsFiniteSet(S), NEW f \in [S -> Nat], NEW M \in Nat, \A x \in S : f[x] <= M
    PROVE  SumFunction(f) \in Nat /\ SumFunction(f) <= Cardinality(S) * M
<1> DEFINE P == {k \in Nat : \A T \in SUBSET S :
                   Cardinality(T) = k => Total(f, T) <= k * M}
<1>0. ASSUME NEW T \in SUBSET S
      PROVE  /\ IsFiniteSet(T) /\ Cardinality(T) \in Nat /\ (Cardinality(T) = 0 <=> T = {})
             /\ Total(f, T) \in Nat
             /\ Total(f, T) = IF T = {} THEN 0 ELSE f[First(T)] + Total(f, T \ {First(T)})
  <2>1. /\ IsFiniteSet(T) /\ Cardinality(T) \in Nat /\ (Cardinality(T) = 0 <=> T = {})
    BY FS_Subset, FS_CardinalityType, FS_EmptySet
  <2>2. \A x \in S : f[x] \in Nat
    OBVIOUS
  <2> QED
    BY <2>1, <2>2, TotalDef, TotalPart
<1>1. 0 \in P
  <2>1. ASSUME NEW T \in SUBSET S, Cardinality(T) = 0 PROVE Total(f, T) <= 0 * M
    <3>0. T = {}
      BY <2>1, <1>0
    <3>1. Total(f, T) = 0
      BY <3>0, <1>0
    <3>2. 0 * M = 0
      OBVIOUS
    <3> QED
      BY <3>1, <3>2
  <2> QED
    BY <2>1
<1>2. ASSUME NEW k \in P PROVE k + 1 \in P
  <2>1. ASSUME NEW T \in SUBSET S, Cardinality(T) = k + 1 PROVE Total(f, T) <= (k + 1) * M
    <3> DEFINE x == First(T)
    <3>0. k \in Nat /\ Cardinality(T) # 0
      BY <2>1
    <3>1. k \in Nat /\ T # {}
      BY <3>0, <1>0
    <3>2. x \in T
      BY <3>1, FirstIn
    <3>3. T \ {x} \in SUBSET S /\ Cardinality(T \ {x}) = k
      <4>1. Cardinality(T) = Cardinality(T \ {x}) + 1 /\ Cardinality(T \ {x}) \in Nat
        BY <1>0, <3>2, SumWithout
      <4> QED
        BY <4>1, <2>1, <3>1
    <3>4. Total(f, T \ {x}) <= k * M
      BY <3>3
    <3>5. Total(f, T) = f[x] + Total(f, T \ {x}) /\ Total(f, T \ {x}) \in Nat
      BY <3>1, <3>3, <1>0
    <3>6. f[x] \in Nat /\ f[x] <= M /\ k * M \in Nat /\ (k + 1) * M = k * M + M
      BY <3>1, <3>2
    <3> HIDE DEF x
    <3> QED
      BY <3>4, <3>5, <3>6
  <2> QED
    BY <2>1, <1>2
<1>3. P = Nat
  <2>1. P \in SUBSET Nat
    OBVIOUS
  <2> HIDE DEF P
  <2> QED
    BY <2>1, <1>1, <1>2, SetInduction
<1>4. SumFunction(f) = Total(f, S)
  <2>1. DOMAIN f = S
    OBVIOUS
  <2> QED
    BY <2>1, SumIsTotal
<1>5. S \in SUBSET S
  OBVIOUS
<1>6. Cardinality(S) \in Nat /\ Total(f, S) \in Nat
  BY <1>0, <1>5
<1> QED
  BY <1>3, <1>4, <1>5, <1>6

(* A sum whose terms are no more than those of another. *)
LEMMA SumMonotone ==
    ASSUME NEW S, IsFiniteSet(S), NEW f \in [S -> Nat], NEW g \in [S -> Nat],
           \A x \in S : f[x] <= g[x]
    PROVE  SumFunction(f) \in Nat /\ SumFunction(g) \in Nat /\ SumFunction(f) <= SumFunction(g)
<1> DEFINE P == {k \in Nat : \A T \in SUBSET S :
                   Cardinality(T) = k => Total(f, T) <= Total(g, T)}
<1>0. ASSUME NEW T \in SUBSET S
      PROVE  /\ IsFiniteSet(T) /\ Cardinality(T) \in Nat /\ (Cardinality(T) = 0 <=> T = {})
             /\ Total(f, T) \in Nat /\ Total(g, T) \in Nat
             /\ Total(f, T) = IF T = {} THEN 0 ELSE f[First(T)] + Total(f, T \ {First(T)})
             /\ Total(g, T) = IF T = {} THEN 0 ELSE g[First(T)] + Total(g, T \ {First(T)})
  <2>1. /\ IsFiniteSet(T) /\ Cardinality(T) \in Nat /\ (Cardinality(T) = 0 <=> T = {})
    BY FS_Subset, FS_CardinalityType, FS_EmptySet
  <2>2. \A x \in S : f[x] \in Nat /\ g[x] \in Nat
    OBVIOUS
  <2>3. Total(f, T) \in Nat /\ Total(g, T) \in Nat
    BY <2>2, TotalPart
  <2> QED
    BY <2>1, <2>3, TotalDef
<1>1. 0 \in P
  <2>1. ASSUME NEW T \in SUBSET S, Cardinality(T) = 0 PROVE Total(f, T) <= Total(g, T)
    <3>1. T = {}
      BY <2>1, <1>0
    <3>2. Total(f, T) = 0 /\ Total(g, T) = 0
      BY <3>1, <1>0
    <3> QED
      BY <3>2
  <2> QED
    BY <2>1
<1>2. ASSUME NEW k \in P PROVE k + 1 \in P
  <2>1. ASSUME NEW T \in SUBSET S, Cardinality(T) = k + 1 PROVE Total(f, T) <= Total(g, T)
    <3> DEFINE x == First(T)
    <3>0. k \in Nat /\ Cardinality(T) # 0
      BY <2>1
    <3>1. k \in Nat /\ T # {}
      BY <3>0, <1>0
    <3>2. x \in T
      BY <3>1, FirstIn
    <3>3. T \ {x} \in SUBSET S /\ Cardinality(T \ {x}) = k
      <4>1. Cardinality(T) = Cardinality(T \ {x}) + 1 /\ Cardinality(T \ {x}) \in Nat
        BY <1>0, <3>2, SumWithout
      <4> QED
        BY <4>1, <2>1, <3>1
    <3>4. Total(f, T \ {x}) <= Total(g, T \ {x})
      BY <3>3
    <3>5. /\ Total(f, T) = f[x] + Total(f, T \ {x}) /\ Total(f, T \ {x}) \in Nat
          /\ Total(g, T) = g[x] + Total(g, T \ {x}) /\ Total(g, T \ {x}) \in Nat
      BY <3>1, <3>3, <1>0
    <3>6. f[x] \in Nat /\ g[x] \in Nat /\ f[x] <= g[x]
      BY <3>2
    <3> HIDE DEF x
    <3> QED
      BY <3>4, <3>5, <3>6
  <2> QED
    BY <2>1, <1>2
<1>3. P = Nat
  <2>1. P \in SUBSET Nat
    OBVIOUS
  <2> HIDE DEF P
  <2> QED
    BY <2>1, <1>1, <1>2, SetInduction
<1>4. SumFunction(f) = Total(f, S) /\ SumFunction(g) = Total(g, S)
  <2>1. DOMAIN f = S /\ DOMAIN g = S
    OBVIOUS
  <2> QED
    BY <2>1, SumIsTotal
<1>5. S \in SUBSET S
  OBVIOUS
<1>6. Cardinality(S) \in Nat /\ Total(f, S) \in Nat /\ Total(g, S) \in Nat
  BY <1>0, <1>5
<1> QED
  BY <1>3, <1>4, <1>5, <1>6

-----------------------------------------------------------------------------
(* A recursion along 1..N, whose steps are those of F on the set V, has a
   solution. *)
Folds1(g, N, V, init, F) ==
    g \in [0..N -> V] /\ g[0] = init /\ \A n \in 1..N : g[n] = F[<<g[n - 1], n>>]

LEMMA FoldExists ==
    ASSUME NEW N \in Nat, NEW V, NEW init \in V, NEW F \in [V \X (1..N) -> V]
    PROVE  \E g : Folds1(g, N, V, init, F)
<1> DEFINE Sol(g, k) == g \in [0..k -> V] /\ g[0] = init
                           /\ \A n \in 1..k : g[n] = F[<<g[n - 1], n>>]
           P == {k \in Nat : k <= N => \E g : Sol(g, k)}
<1>1. 0 \in P
  <2>1. Sol([n \in 0..0 |-> init], 0)
    OBVIOUS
  <2> QED
    BY <2>1
<1>2. ASSUME NEW k \in P PROVE k + 1 \in P
  <2> SUFFICES ASSUME k + 1 <= N PROVE \E g : Sol(g, k + 1)
    OBVIOUS
  <2>1. k \in Nat /\ k <= N /\ k + 1 \in 1..N
    OBVIOUS
  <2>2. PICK g : Sol(g, k)
    BY <2>1
  <2> DEFINE v == F[<<g[k], k + 1>>]
             h == [n \in 0..(k + 1) |-> IF n = k + 1 THEN v ELSE g[n]]
  <2>3. v \in V
    BY <2>1, <2>2
  <2>4. h \in [0..(k + 1) -> V] /\ h[0] = init
    BY <2>1, <2>2, <2>3
  <2>5. ASSUME NEW n \in 1..(k + 1) PROVE h[n] = F[<<h[n - 1], n>>]
    <3>1. CASE n = k + 1
      <4>1. h[n] = v /\ h[n - 1] = g[k]
        BY <3>1, <2>1
      <4> QED
        BY <4>1, <3>1
    <3>2. CASE n \in 1..k
      <4>1. h[n] = g[n] /\ h[n - 1] = g[n - 1]
        BY <3>2, <2>1
      <4> QED
        BY <4>1, <3>2, <2>2
    <3> QED
      BY <3>1, <3>2, <2>1
  <2> HIDE DEF h
  <2> QED
    BY <2>4, <2>5
<1>3. P = Nat
  <2>1. P \in SUBSET Nat
    OBVIOUS
  <2> HIDE DEF P
  <2> QED
    BY <2>1, <1>1, <1>2, SetInduction
<1>4. N \in P
  BY <1>3
<1> QED
  BY <1>4 DEF Folds1
=============================================================================
