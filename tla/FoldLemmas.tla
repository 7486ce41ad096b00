------------------------------ MODULE FoldLemmas ------------------------------
(***************************************************************************)
(* What the provers need of a loop or a sum that the models write as a     *)
(* fold over a set: MapThenFoldSet and FoldLeft of the community modules   *)
(* are the Fold of this module, and a module that uses one instantiates    *)
(* this one with the operator it folds with.                               *)
(*                                                                         *)
(* The induction theorems of the library take the property as an operator, *)
(* which an instance cannot give them.  The two proved first take a set.   *)
(***************************************************************************)
EXTENDS Integers, FiniteSets, FiniteSetTheorems, WellFoundedInduction, TLAPS

CONSTANTS Op(_, _),   \* the operator folded with
          Pick(_)     \* the element of a set that is folded last

\* g is the recursive function of a fold over the subsets of S.
Folds(g, base, f, S) ==
  g = [T \in SUBSET S |->
         IF T = {} THEN base ELSE LET x == Pick(T) IN Op(f[x], g[T \ {x}])]

Fold(base, f, S) == (CHOOSE g : Folds(g, base, f, S))[S]

\* The sets that can be folded.
Foldable(S) == IsFiniteSet(S) /\ \A T \in SUBSET S : T # {} => Pick(T) \in T

\* Steps with the values f has on S stay in V, and their order does not matter.
Closed(f, S, V) == \A x \in S, v \in V : Op(f[x], v) \in V
AnyOrder(f, S, V) == \A x, y \in S, v \in V : Op(f[x], Op(f[y], v)) = Op(f[y], Op(f[x], v))

-----------------------------------------------------------------------------

\* The order of the natural numbers, as the set of pairs that the library
\* proves well-founded.
LEMMA NatLess == OpToRel(<, Nat) = {r \in Nat \X Nat : r[1] < r[2]}
BY Zenon DEF OpToRel

\* A set of numbers has a least one.
LEMMA LeastOfNaturals ==
  ASSUME NEW S \in SUBSET Nat, S # {}
  PROVE  \E m \in S : \A k \in S : m <= k
<1>1. PICK m \in S : \A k \in S : <<k, m>> \notin OpToRel(<, Nat)
  BY NatLessThanWellFounded, WFMin, Zenon
<1>2. ASSUME NEW k \in S, k < m PROVE FALSE
  <2>1. <<k, m>> \in {r \in Nat \X Nat : r[1] < r[2]}
    BY <1>2
  <2> QED BY <1>1, <2>1, NatLess, Zenon
<1> QED BY <1>2

\* Induction over the natural numbers, with a set for the property: an operator
\* could not be instantiated.
LEMMA NatInduct ==
  ASSUME NEW P, 0 \in P, \A n \in Nat : n \in P => n + 1 \in P
  PROVE  \A n \in Nat : n \in P
<1>1. SUFFICES ASSUME NEW n \in Nat, n \notin P PROVE FALSE
  OBVIOUS
<1>2. PICK m \in {k \in Nat : k \notin P} : \A k \in {k \in Nat : k \notin P} : m <= k
  BY <1>1, LeastOfNaturals
<1>3. m # 0 /\ m - 1 \in Nat
  BY <1>2
<1>4. m - 1 \notin P
  BY <1>3
<1> QED BY <1>2, <1>3, <1>4

\* Induction over the subsets of a finite set, with a set C of the subsets the
\* property holds of.
LEMMA SetInduct ==
  ASSUME NEW S, IsFiniteSet(S), NEW C, {} \in C,
         \A T \in SUBSET S : T # {} /\ (\A x \in T : T \ {x} \in C) => T \in C
  PROVE  \A T \in SUBSET S : T \in C
<1>. DEFINE P == {n \in Nat : \A T \in SUBSET S : Cardinality(T) = n => T \in C}
<1>1. \A T \in SUBSET S : IsFiniteSet(T) /\ Cardinality(T) \in Nat
  BY FS_Subset, FS_CardinalityType
<1>2. 0 \in P
  BY <1>1, FS_EmptySet
<1>3. ASSUME NEW n \in Nat, n \in P  PROVE n + 1 \in P
  <2>1. SUFFICES ASSUME NEW T \in SUBSET S, Cardinality(T) = n + 1  PROVE T \in C
    OBVIOUS
  <2>2. T # {}
    BY <2>1, FS_EmptySet
  <2>3. ASSUME NEW x \in T  PROVE T \ {x} \in C
    <3>1. Cardinality(T \ {x}) = Cardinality(T) - 1
      BY <1>1, FS_RemoveElement
    <3>. QED
      BY <3>1, <2>1, <1>3
  <2>. QED
    BY <2>2, <2>3
<1>4. \A n \in Nat : n \in P
  <2>. HIDE DEF P
  <2>. QED BY <1>2, <1>3, NatInduct, Zenon
<1>. QED
  BY <1>1, <1>4

\* A part of a set that can be folded can be folded.
LEMMA FoldableLess ==
  ASSUME NEW S, Foldable(S), NEW T \in SUBSET S
  PROVE  Foldable(T)
BY FS_Subset DEF Foldable

\* The recursive functions of the folds over two sets agree on what is in both.
LEMMA FoldsAgree ==
  ASSUME NEW base, NEW f, NEW S, NEW U, Foldable(S),
         NEW g, Folds(g, base, f, S), NEW h, Folds(h, base, f, U)
  PROVE  \A T \in SUBSET (S \cap U) : g[T] = h[T]
<1>. DEFINE C == {T \in SUBSET (S \cap U) : g[T] = h[T]}
<1>1. {} \in C
  BY DEF Folds
<1>2. ASSUME NEW T \in SUBSET (S \cap U), T # {}, \A x \in T : T \ {x} \in C
      PROVE  T \in C
  <2>1. Pick(T) \in T
    BY <1>2 DEF Foldable
  <2>2. g[T \ {Pick(T)}] = h[T \ {Pick(T)}]
    BY <2>1, <1>2
  <2>3. g[T] = Op(f[Pick(T)], g[T \ {Pick(T)}])
    BY <1>2 DEF Folds
  <2>4. h[T] = Op(f[Pick(T)], h[T \ {Pick(T)}])
    BY <1>2 DEF Folds
  <2>. QED
    BY <2>2, <2>3, <2>4
<1>3. IsFiniteSet(S \cap U)
  BY FS_Subset DEF Foldable
<1>4. \A T \in SUBSET (S \cap U) : T \in C
  <2>1. PICK Z : Z = S \cap U
    OBVIOUS
  <2>. HIDE DEF C
  <2>2. IsFiniteSet(Z) /\ \A T \in SUBSET Z : T # {} /\ (\A x \in T : T \ {x} \in C) => T \in C
    BY <1>2, <1>3, <2>1
  <2>. QED BY <1>1, <2>1, <2>2, SetInduct, Zenon
<1>. QED
  BY <1>4

\* A set that can be folded has such a recursive function.
LEMMA FoldExists ==
  ASSUME NEW base, NEW f, NEW S, Foldable(S)
  PROVE  \E g : Folds(g, base, f, S)
<1>. DEFINE C == {T \in SUBSET S : \E g : Folds(g, base, f, T)}
<1>1. {} \in C
  <2>. DEFINE g == [T \in SUBSET {} |-> base]
  <2>1. Folds(g, base, f, {})
    BY DEF Folds
  <2>. QED
    BY <2>1
<1>2. ASSUME NEW T \in SUBSET S, T # {}, \A x \in T : T \ {x} \in C  PROVE T \in C
  <2>. DEFINE Part(x) == CHOOSE g : Folds(g, base, f, T \ {x})
  <2>1. \A x \in T : Folds(Part(x), base, f, T \ {x})
    BY <1>2
  <2>. DEFINE g == [U \in SUBSET T |->
                IF U = {} THEN base
                ELSE Op(f[Pick(U)], Part(Pick(U))[U \ {Pick(U)}])]
  <2>. HIDE DEF Part
  <2>2. ASSUME NEW x \in T, NEW U \in SUBSET (T \ {x})  PROVE g[U] = Part(x)[U]
    <3>1. CASE U = {}
      BY <3>1, <2>1 DEF Folds
    <3>2. CASE U # {}
      <4>1. PICK y : y = Pick(U)
        OBVIOUS
      <4>2. y \in U /\ y \in T /\ U \ {y} \in SUBSET ((T \ {y}) \cap (T \ {x}))
        BY <3>2, <4>1 DEF Foldable
      <4>3. g[U] = Op(f[y], Part(y)[U \ {y}])
        BY <3>2, <4>1
      <4>4. Part(x)[U] = Op(f[y], Part(x)[U \ {y}])
        BY <3>2, <2>1, <4>1 DEF Folds
      <4>5. Foldable(T \ {y})
        BY FoldableLess
      <4>6. Part(y)[U \ {y}] = Part(x)[U \ {y}]
        <5>1. Folds(Part(y), base, f, T \ {y}) /\ Folds(Part(x), base, f, T \ {x})
          BY <2>1, <4>2
        <5>2. \A R \in SUBSET ((T \ {y}) \cap (T \ {x})) : Part(y)[R] = Part(x)[R]
          BY <5>1, <4>5, FoldsAgree, SMTT(20)
        <5>. QED
          BY <5>2, <4>2
      <4>. QED
        BY <4>3, <4>4, <4>6
    <3>. QED
      BY <3>1, <3>2
  <2>3. ASSUME NEW U \in SUBSET T, U # {}
        PROVE  g[U] = Op(f[Pick(U)], g[U \ {Pick(U)}])
    <3>1. PICK y : y = Pick(U)
      OBVIOUS
    <3>2. y \in T /\ U \ {y} \in SUBSET (T \ {y})
      BY <2>3, <3>1 DEF Foldable
    <3>3. g[U \ {y}] = Part(y)[U \ {y}]
      BY <2>2, <3>2
    <3>. QED
      BY <3>1, <3>3, <2>3
  <2>4. g[{}] = base
    OBVIOUS
  <2>5. Folds(g, base, f, T)
    BY <2>3, <2>4 DEF Folds
  <2>. QED
    BY <2>5
<1>3. S \in C
  <2>1. IsFiniteSet(S)
    BY DEF Foldable
  <2>. HIDE DEF C
  <2>2. \A T \in SUBSET S : T \in C
    BY <2>1, <1>1, <1>2, SetInduct, Zenon
  <2>. QED
    BY <2>2
<1>. QED
  BY <1>3

\* So has one with a bound a greatest.
LEMMA GreatestOf ==
  ASSUME NEW k \in Nat, NEW S \in SUBSET (1 .. k), S # {}
  PROVE  \E n \in S : \A j \in S : j <= n
<1> DEFINE Bounds == {b \in Nat : \A j \in S : j <= b}
<1>1. k \in Bounds /\ Bounds \in SUBSET Nat
  OBVIOUS
<1>2. PICK b \in Bounds : \A c \in Bounds : b <= c
  <2> HIDE DEF Bounds
  <2> QED BY <1>1, LeastOfNaturals
<1>3. b \in S
  <2> SUFFICES ASSUME b \notin S PROVE FALSE
    OBVIOUS
  <2>1. PICK j \in S : TRUE
    OBVIOUS
  <2>2. b \in Nat /\ \A i \in S : i \in Nat /\ 1 <= i /\ i <= b /\ i # b
    BY <1>2
  <2>3. b - 1 \in Nat /\ \A i \in S : i <= b - 1
    BY <2>1, <2>2
  <2> QED BY <1>2, <2>3
<1> QED BY <1>2, <1>3

\* Folds that take the numbers from 1 to k in their order.
LEMMA GreatestLast ==
  ASSUME NEW k \in Nat,
         \A S \in SUBSET (1 .. k) : Pick(S) = CHOOSE i \in S : \A j \in S : i >= j
  PROVE  /\ Foldable(1 .. k)
         /\ \A S \in SUBSET (1 .. k) : S # {} => \A j \in S : j <= Pick(S)
<1>1. ASSUME NEW S \in SUBSET (1 .. k), S # {}
      PROVE  Pick(S) \in S /\ \A j \in S : j <= Pick(S)
  <2>1. PICK n \in S : \A j \in S : j <= n
    BY <1>1, GreatestOf
  <2>2. \A j \in S : n >= j
    BY <2>1
  <2>5. PICK p : p = Pick(S)
    OBVIOUS
  <2>6. p \in S /\ \A j \in S : p >= j
    <3>1. p = CHOOSE i \in S : \A j \in S : i >= j
      BY <2>5
    <3> QED BY <2>2, <3>1, Zenon
  <2>7. \A j \in S : j \in Int
    OBVIOUS
  <2>8. \A j \in S : j <= p
    BY <2>6, <2>7
  <2> QED BY <2>5, <2>6, <2>8
<1>2. IsFiniteSet(1 .. k)
  BY FS_Interval
<1> QED BY <1>1, <1>2, Zenon DEF Foldable

\* The fold over nothing is its base: the initial value of each loop and sum of
\* the code.
THEOREM FoldEmpty ==
  ASSUME NEW base, NEW f
  PROVE  Fold(base, f, {}) = base
<1>1. Foldable({})
  BY FS_EmptySet DEF Foldable
<1>. QED
  BY <1>1, FoldExists DEF Fold, Folds

\* A fold takes the picked element last, after the fold over the others: one
\* turn of the loop.
THEOREM FoldPick ==
  ASSUME NEW base, NEW f, NEW S, Foldable(S), S # {}
  PROVE  /\ Pick(S) \in S
         /\ Fold(base, f, S) = Op(f[Pick(S)], Fold(base, f, S \ {Pick(S)}))
<1>1. PICK x : x = Pick(S)
  OBVIOUS
<1>2. x \in S
  BY <1>1 DEF Foldable
<1>3. PICK g : g = CHOOSE e : Folds(e, base, f, S)
  OBVIOUS
<1>4. PICK h : h = CHOOSE e : Folds(e, base, f, S \ {x})
  OBVIOUS
<1>5. Folds(g, base, f, S) /\ Folds(h, base, f, S \ {x})
  <2>1. Foldable(S \ {x})
    BY FoldableLess
  <2>. QED
    BY <1>3, <1>4, <2>1, FoldExists
<1>6. g[S \ {x}] = h[S \ {x}]
  <2>1. \A T \in SUBSET (S \cap (S \ {x})) : g[T] = h[T]
    BY <1>5, FoldsAgree
  <2>. QED
    BY <2>1
<1>7. g[S] = Op(f[x], g[S \ {x}])
  BY <1>1, <1>5 DEF Folds
<1>. QED
  BY <1>1, <1>2, <1>3, <1>4, <1>6, <1>7 DEF Fold

\* The same for every part of a set that can be folded.
LEMMA FoldPicks ==
  ASSUME NEW base, NEW f, NEW S, Foldable(S)
  PROVE  \A T \in SUBSET S : T # {} =>
           Pick(T) \in T /\ Fold(base, f, T) = Op(f[Pick(T)], Fold(base, f, T \ {Pick(T)}))
<1>1. SUFFICES ASSUME NEW T \in SUBSET S, T # {}
      PROVE  Pick(T) \in T /\ Fold(base, f, T) = Op(f[Pick(T)], Fold(base, f, T \ {Pick(T)}))
  OBVIOUS
<1>2. Foldable(T)
  BY FoldableLess
<1>. QED
  BY <1>1, <1>2, FoldPick, Zenon

\* What holds of the base and is kept by each step holds of the fold.
THEOREM FoldIn ==
  ASSUME NEW base, NEW f, NEW S, Foldable(S), NEW V, base \in V, Closed(f, S, V)
  PROVE  Fold(base, f, S) \in V
<1>. DEFINE C == {T \in SUBSET S : Fold(base, f, T) \in V}
<1>1. {} \in C
  BY FoldEmpty
<1>2. ASSUME NEW T \in SUBSET S, T # {}, \A x \in T : T \ {x} \in C  PROVE T \in C
  <2>1. Foldable(T)
    BY FoldableLess
  <2>2. /\ Pick(T) \in T
        /\ Fold(base, f, T) = Op(f[Pick(T)], Fold(base, f, T \ {Pick(T)}))
    BY <1>2, <2>1, FoldPick, Zenon
  <2>. QED
    BY <1>2, <2>2 DEF Closed
<1>3. S \in C
  <2>1. IsFiniteSet(S)
    BY DEF Foldable
  <2>. HIDE DEF C
  <2>2. \A T \in SUBSET S : T \in C
    BY <2>1, <1>1, <1>2, SetInduct, Zenon
  <2>. QED
    BY <2>2
<1>. QED
  BY <1>3

\* Only the values at the elements of the set matter.
THEOREM FoldSame ==
  ASSUME NEW base, NEW f, NEW h, NEW S, Foldable(S), \A x \in S : f[x] = h[x]
  PROVE  Fold(base, f, S) = Fold(base, h, S)
<1>. DEFINE C == {T \in SUBSET S : Fold(base, f, T) = Fold(base, h, T)}
<1>1. {} \in C
  BY FoldEmpty
<1>2. ASSUME NEW T \in SUBSET S, T # {}, \A x \in T : T \ {x} \in C  PROVE T \in C
  <2>1. Foldable(T)
    BY FoldableLess
  <2>2. Pick(T) \in T
    BY <2>1, <1>2 DEF Foldable
  <2>3. Fold(base, f, T \ {Pick(T)}) = Fold(base, h, T \ {Pick(T)})
    BY <2>2, <1>2
  <2>4. Fold(base, f, T) = Op(f[Pick(T)], Fold(base, f, T \ {Pick(T)}))
    BY <2>1, <1>2, FoldPick
  <2>5. Fold(base, h, T) = Op(h[Pick(T)], Fold(base, h, T \ {Pick(T)}))
    BY <2>1, <1>2, FoldPick
  <2>. QED
    BY <2>2, <2>3, <2>4, <2>5
<1>3. S \in C
  <2>1. IsFiniteSet(S)
    BY DEF Foldable
  <2>. HIDE DEF C
  <2>2. \A T \in SUBSET S : T \in C
    BY <2>1, <1>1, <1>2, SetInduct, Zenon
  <2>. QED
    BY <2>2
<1>. QED
  BY <1>3

\* When the order of the steps does not matter, any element may come last.
THEOREM FoldAny ==
  ASSUME NEW base, NEW f, NEW S, Foldable(S), NEW V, base \in V,
         Closed(f, S, V), AnyOrder(f, S, V)
  PROVE  \A x \in S : Fold(base, f, S) = Op(f[x], Fold(base, f, S \ {x}))
<1>. DEFINE C == {T \in SUBSET S : \A y \in T :
                    Fold(base, f, T) = Op(f[y], Fold(base, f, T \ {y}))}
<1>0. \A T \in SUBSET S : T # {} =>
        Pick(T) \in T /\ Fold(base, f, T) = Op(f[Pick(T)], Fold(base, f, T \ {Pick(T)}))
  BY FoldPicks, Zenon
<1>1. {} \in C
  OBVIOUS
<1>2. ASSUME NEW T \in SUBSET S, T # {}, \A y \in T : T \ {y} \in C  PROVE T \in C
  <2>1. SUFFICES ASSUME NEW y \in T
                 PROVE  Fold(base, f, T) = Op(f[y], Fold(base, f, T \ {y}))
    OBVIOUS
  <2>2. PICK z : z = Pick(T)
    OBVIOUS
  <2>3. z \in T /\ Fold(base, f, T) = Op(f[z], Fold(base, f, T \ {z}))
    BY <2>2, <1>0
  <2>4. CASE y = z
    BY <2>3, <2>4
  <2>5. CASE y # z
    <3>1. PICK R : R = T \ {y, z}
      OBVIOUS
    <3>2. (T \ {z}) \ {y} = R /\ (T \ {y}) \ {z} = R /\ R \in SUBSET S
      BY <3>1
    <3>3. Fold(base, f, T \ {z}) = Op(f[y], Fold(base, f, R))
      <4>1. T \ {z} \in C /\ y \in T \ {z}
        BY <1>2, <2>3, <2>5
      <4>. QED
        BY <4>1, <3>2
    <3>4. Fold(base, f, T \ {y}) = Op(f[z], Fold(base, f, R))
      <4>1. T \ {y} \in C /\ z \in T \ {y}
        BY <1>2, <2>3, <2>5
      <4>. QED
        BY <4>1, <3>2
    <3>5. Fold(base, f, R) \in V
      <4>1. Foldable(R)
        BY <3>2, FoldableLess
      <4>2. Closed(f, R, V)
        BY <3>2 DEF Closed
      <4>. QED
        BY <4>1, <4>2, FoldIn
    <3>. QED
      BY <2>3, <3>3, <3>4, <3>5 DEF AnyOrder
  <2>. QED
    BY <2>4, <2>5
<1>3. S \in C
  <2>1. IsFiniteSet(S)
    BY DEF Foldable
  <2>. HIDE DEF C
  <2>2. \A T \in SUBSET S : T \in C
    BY <2>1, <1>1, <1>2, SetInduct, Zenon
  <2>. QED
    BY <2>2
<1>. QED
  BY <1>3
=============================================================================
