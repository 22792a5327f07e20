----------------------------- MODULE FoldLemmas -----------------------------
(***************************************************************************)
(* Facts about the sums and concatenations of the community modules, for   *)
(* all finite sets and sequences.  They are proved by induction, which is  *)
(* stated for sets here: P holds of every number if the set of numbers of  *)
(* which it holds is closed under the successor.  At the end, what adding  *)
(* does to a remainder.                                                    *)
(***************************************************************************)
EXTENDS Integers, FiniteSets, SequencesExt, FiniteSetTheorems, SequenceTheorems,
        WellFoundedInduction, TLAPS

(***************************************************************************)
(* Induction.                                                              *)
(***************************************************************************)

\* Induction over finite sets by strict inclusion.
LEMMA FiniteSetInduction ==
    ASSUME NEW S, IsFiniteSet(S), NEW F,
           \A T \in SUBSET S : (\A U \in SUBSET T : U # T => U \in F) => T \in F
    PROVE  \A T \in SUBSET S : T \in F
<1> SUFFICES ASSUME NEW R \in SUBSET S, R \notin F PROVE FALSE
  OBVIOUS
<1> DEFINE Bad == (SUBSET S) \ F
<1>1. Bad \subseteq FiniteSubsetsOf(S) /\ R \in Bad
  BY FS_FiniteSubsetsOfFinite
<1>2. PICK T \in Bad : \A U \in Bad : ~(<<U, T>> \in StrictSubsetOrdering(S))
  <2> HIDE DEF Bad
  <2>1. QED  BY <1>1, FS_StrictSubsetOrderingWellFounded, WFMin
<1>3. ASSUME NEW U \in SUBSET T, U # T PROVE U \in F
  <2>1. <<U, T>> \in StrictSubsetOrdering(S)
    BY <1>3 DEF StrictSubsetOrdering
  <2>2. QED  BY <1>2, <2>1
<1>4. QED  BY <1>2, <1>3

\* Induction over the natural numbers.
LEMMA NatSetInduction ==
    ASSUME NEW N, 0 \in N, \A n \in Nat : n \in N => n + 1 \in N
    PROVE  \A n \in Nat : n \in N
<1> SUFFICES ASSUME NEW k \in Nat, k \notin N PROVE FALSE
  OBVIOUS
<1> DEFINE K == 0 .. k
           F == {T \in SUBSET K : \A m \in K : T = 0 .. m => m \in N}
<1>1. IsFiniteSet(K)
  BY FS_Interval
<1>2. ASSUME NEW T \in SUBSET K, \A U \in SUBSET T : U # T => U \in F
      PROVE  T \in F
  <2> SUFFICES ASSUME NEW m \in K, T = 0 .. m PROVE m \in N
    OBVIOUS
  <2>1. CASE m = 0
    BY <2>1
  <2>2. CASE m > 0
    <3>1. 0 .. (m - 1) \in SUBSET T /\ 0 .. (m - 1) # T /\ m - 1 \in K
      BY <2>2
    <3>2. 0 .. (m - 1) \in F
      BY <1>2, <3>1
    <3>3. m - 1 \in Nat /\ m - 1 \in N
      BY <2>2, <3>1, <3>2
    <3>4. QED  BY <3>3
  <2>3. QED  BY <2>1, <2>2
<1>3. K \in F
  <2> HIDE DEF F, K
  <2>1. \A T \in SUBSET K : (\A U \in SUBSET T : U # T => U \in F) => T \in F
    BY <1>2
  <2>2. \A T \in SUBSET K : T \in F
    BY <1>1, <2>1, FiniteSetInduction
  <2>3. QED  BY <2>2
<1>4. QED  BY <1>3

\* A set of natural numbers that is not empty has a least element.
LEMMA LeastNatural ==
    ASSUME NEW S \in SUBSET Nat, S # {}
    PROVE  \E n \in S : \A m \in S : n <= m
<1> SUFFICES ASSUME \A n \in S : \E m \in S : ~(n <= m) PROVE FALSE
  OBVIOUS
<1> DEFINE N == {k \in Nat : \A m \in 0 .. k : m \notin S}
<1>1. 0 \in N
  <2>1. 0 \notin S
    OBVIOUS
  <2>2. QED  BY <2>1
<1>2. ASSUME NEW k \in Nat, k \in N PROVE k + 1 \in N
  <2>1. \A m \in S : k + 1 <= m
    <3>1. \A m \in S : m \in Nat /\ m \notin 0 .. k
      BY <1>2
    <3>2. QED  BY <3>1
  <2>2. k + 1 \notin S
    BY <2>1
  <2>3. \A m \in 0 .. k + 1 : m \in 0 .. k \/ m = k + 1
    OBVIOUS
  <2>4. QED  BY <1>2, <2>2, <2>3
<1>3. \A k \in Nat : k \in N
  <2> HIDE DEF N
  <2>1. QED  BY <1>1, <1>2, NatSetInduction
<1>4. \A k \in Nat : k \notin S
  <2>1. \A k \in Nat : k \in 0 .. k
    OBVIOUS
  <2>2. QED  BY <1>3, <2>1
<1>5. QED  BY <1>4

\* The greatest of numbers up to n, if n is one of them.
LEMMA LastIsMax ==
    ASSUME NEW n \in Nat, NEW T \in SUBSET (1 .. n), n \in T
    PROVE  Max(T) = n
  <1>1. \A y \in T : n >= y
    OBVIOUS
  <1>2. \A x \in T : (\A y \in T : x >= y) => x = n
    <2>1. \A x \in T : x \in Int /\ n >= x
      OBVIOUS
    <2> QED BY <2>1
  <1>3. Max(T) \in T /\ \A y \in T : Max(T) >= y
    BY <1>1, Zenon DEF Max
  <1> QED BY <1>2, <1>3

(***************************************************************************)
(* Sums over finite sets.                                                  *)
(***************************************************************************)
Chosen(S) == CHOOSE x \in S : TRUE
Summable(f, S) == IsFiniteSet(S) /\ \A x \in S : f[x] \in Int

\* iter is the function that MapThenFoldSet defines recursively.
Iterates(iter, f, S) ==
    iter = [s \in SUBSET S |-> IF s = {} THEN 0 ELSE f[Chosen(s)] + iter[s \ {Chosen(s)}]]

LEMMA IterUnique ==
    ASSUME NEW f, NEW S, NEW T, IsFiniteSet(S), NEW g, NEW h, Iterates(g, f, S), Iterates(h, f, T)
    PROVE  \A U \in SUBSET S : U \subseteq T => g[U] = h[U]
<1> DEFINE F == {U \in SUBSET S : U \subseteq T => g[U] = h[U]}
<1>1. ASSUME NEW U \in SUBSET S, \A V \in SUBSET U : V # U => V \in F
      PROVE  U \in F
  <2> SUFFICES ASSUME U \subseteq T PROVE g[U] = h[U]
    OBVIOUS
  <2>1. CASE U = {}
    BY <2>1 DEF Iterates
  <2>2. CASE U # {}
    <3>1. Chosen(U) \in U
      BY <2>2 DEF Chosen
    <3>2. g[U \ {Chosen(U)}] = h[U \ {Chosen(U)}]
      BY <1>1, <3>1
    <3>3. /\ g[U] = f[Chosen(U)] + g[U \ {Chosen(U)}]
          /\ h[U] = f[Chosen(U)] + h[U \ {Chosen(U)}]
      BY <2>2 DEF Iterates
    <3>4. QED  BY <3>2, <3>3
  <2>3. QED  BY <2>1, <2>2
<1>2. \A U \in SUBSET S : U \in F
  <2> HIDE DEF F
  <2>1. QED  BY <1>1, FiniteSetInduction
<1>3. QED  BY <1>2

LEMMA IterExists ==
    ASSUME NEW f, NEW S, Summable(f, S)
    PROVE  \E h \in [SUBSET S -> Int] : Iterates(h, f, S)
<1> DEFINE F == {T \in SUBSET S : \E h \in [SUBSET T -> Int] : Iterates(h, f, T)}
<1>1. ASSUME NEW T \in SUBSET S, \A U \in SUBSET T : U # T => U \in F
      PROVE  T \in F
  <2> DEFINE below(U) == CHOOSE h \in [SUBSET U -> Int] : Iterates(h, f, U)
             top == IF T = {} THEN 0 ELSE f[Chosen(T)] + below(T \ {Chosen(T)})[T \ {Chosen(T)}]
             iter == [s \in SUBSET T |-> IF s = T THEN top ELSE below(s)[s]]
  <2>1. ASSUME NEW U \in SUBSET T, U # T
        PROVE  below(U) \in [SUBSET U -> Int] /\ Iterates(below(U), f, U)
    BY <1>1, <2>1
  <2>2. T # {} => Chosen(T) \in T
    BY DEF Chosen
  <2>3. top \in Int
    <3>1. CASE T # {}
      <4>1. T \ {Chosen(T)} \in SUBSET T /\ T \ {Chosen(T)} # T
        BY <2>2, <3>1
      <4>2. below(T \ {Chosen(T)})[T \ {Chosen(T)}] \in Int
        BY <2>1, <4>1
      <4>3. f[Chosen(T)] \in Int
        BY <2>2, <3>1 DEF Summable
      <4>4. QED  BY <3>1, <4>2, <4>3
    <3>2. QED  BY <3>1
  <2>4. iter \in [SUBSET T -> Int]
    <3> HIDE DEF top, below
    <3>1. \A s \in SUBSET T : s # T => below(s)[s] \in Int
      BY <2>1
    <3>2. QED  BY <2>3, <3>1
  <2>5. ASSUME NEW s \in SUBSET T
        PROVE  iter[s] = IF s = {} THEN 0 ELSE f[Chosen(s)] + iter[s \ {Chosen(s)}]
    <3> DEFINE r == s \ {Chosen(s)}
    <3> HIDE DEF below
    <3>1. CASE s = {}
      <4>1. CASE s = T
        BY <3>1, <4>1
      <4>2. CASE s # T
        BY <2>1, <3>1, <4>2 DEF Iterates
      <4>3. QED  BY <4>1, <4>2
    <3>2. CASE s # {}
      <4>1. Chosen(s) \in s /\ r \in SUBSET s /\ r # s
        BY <3>2 DEF Chosen
      <4>2. r \in SUBSET T /\ r # T
        BY <4>1
      <4>3. iter[r] = below(r)[r]
        BY <4>2
      <4>4. CASE s = T
        <5>1. iter[s] = f[Chosen(s)] + below(r)[r]
          BY <3>2, <4>4
        <5>2. QED  BY <3>2, <4>3, <5>1
      <4>5. CASE s # T
        <5>1. iter[s] = below(s)[s]
          BY <4>5
        <5>2. below(s)[s] = f[Chosen(s)] + below(s)[r]
          BY <2>1, <3>2, <4>5 DEF Iterates
        <5>3. IsFiniteSet(s)
          BY FS_Subset DEF Summable
        <5>4. below(s)[r] = below(r)[r]
          <6>0. PICK g, h : g = below(s) /\ h = below(r)
            OBVIOUS
          <6>1. Iterates(g, f, s) /\ Iterates(h, f, r)
            BY <2>1, <4>2, <4>5, <6>0
          <6>2. \A U \in SUBSET s : U \subseteq r => g[U] = h[U]
            BY <5>3, <6>1, IterUnique
          <6>3. QED  BY <4>1, <6>0, <6>2
        <5>5. QED  BY <3>2, <4>3, <5>1, <5>2, <5>4
      <4>6. QED  BY <4>4, <4>5
    <3>3. QED  BY <3>1, <3>2
  <2>6. Iterates(iter, f, T)
    <3> HIDE DEF iter, below, top
    <3>1. iter = [s \in SUBSET T |-> iter[s]]
      BY <2>4
    <3>2. QED  BY <2>5, <3>1 DEF Iterates
  <2>7. QED  BY <2>4, <2>6
<1>2. S \in F
  <2> HIDE DEF F
  <2>1. QED  BY <1>1, FiniteSetInduction DEF Summable
<1>3. QED  BY <1>2

LEMMA SumIsIter ==
    ASSUME NEW f, NEW S, Summable(f, S)
    PROVE  \E h \in [SUBSET S -> Int] : SumFunctionOnSet(f, S) = h[S] /\ Iterates(h, f, S)
<1> DEFINE h == CHOOSE iter : Iterates(iter, f, S)
<1>1. PICK g \in [SUBSET S -> Int] : Iterates(g, f, S)
  BY IterExists
<1>2. Iterates(h, f, S)
  BY <1>1, Zenon
<1>3. SumFunctionOnSet(f, S) = h[S]
  BY Zenon DEF SumFunctionOnSet, FoldFunctionOnSet, MapThenFoldSet, Iterates, Chosen
<1>4. DOMAIN h = SUBSET S
  BY <1>2 DEF Iterates
<1>5. \A U \in SUBSET S : h[U] = g[U]
  BY <1>1, <1>2, IterUnique DEF Summable
<1>6. h \in [SUBSET S -> Int]
  <2> HIDE DEF h
  <2>1. h = [U \in SUBSET S |-> h[U]]
    BY <1>2 DEF Iterates
  <2>2. QED  BY <1>5, <2>1
<1>7. QED  BY <1>2, <1>3, <1>6

LEMMA SumEmpty == \A f : SumFunctionOnSet(f, {}) = 0
<1> SUFFICES ASSUME NEW f PROVE SumFunctionOnSet(f, {}) = 0
  OBVIOUS
<1>1. Summable(f, {})
  BY FS_EmptySet DEF Summable
<1>2. PICK h : SumFunctionOnSet(f, {}) = h[{}] /\ Iterates(h, f, {})
  BY <1>1, SumIsIter
<1>3. QED  BY <1>2 DEF Iterates

LEMMA SumType ==
    ASSUME NEW f, NEW S, Summable(f, S)
    PROVE  SumFunctionOnSet(f, S) \in Int
<1>1. PICK h \in [SUBSET S -> Int] : SumFunctionOnSet(f, S) = h[S]
  BY SumIsIter
<1>2. QED  BY <1>1

\* The recursion takes out the chosen element first ...
LEMMA SumChosen ==
    ASSUME NEW f, NEW S, Summable(f, S), S # {}
    PROVE  SumFunctionOnSet(f, S) = f[Chosen(S)] + SumFunctionOnSet(f, S \ {Chosen(S)})
<1> DEFINE R == S \ {Chosen(S)}
<1>1. Summable(f, R)
  BY FS_Subset DEF Summable
<1>2. PICK h : SumFunctionOnSet(f, S) = h[S] /\ Iterates(h, f, S)
  BY SumIsIter
<1>3. PICK g : SumFunctionOnSet(f, R) = g[R] /\ Iterates(g, f, R)
  BY <1>1, SumIsIter
<1>4. h[S] = f[Chosen(S)] + h[R]
  BY <1>2 DEF Iterates
<1>5. h[R] = g[R]
  BY <1>1, <1>2, <1>3, IterUnique DEF Summable
<1>6. QED  BY <1>2, <1>3, <1>4, <1>5

\* ... but any element may be taken out.
LEMMA SumRemove ==
    ASSUME NEW f, NEW S, Summable(f, S), NEW x \in S
    PROVE  SumFunctionOnSet(f, S) = f[x] + SumFunctionOnSet(f, S \ {x})
<1> DEFINE Sum(T) == SumFunctionOnSet(f, T)
           F == {T \in SUBSET S : \A y \in T : Sum(T) = f[y] + Sum(T \ {y})}
<1>0. \A T \in SUBSET S : Summable(f, T)
  BY FS_Subset DEF Summable
<1>1. ASSUME NEW T \in SUBSET S, \A U \in SUBSET T : U # T => U \in F
      PROVE  T \in F
  <2> SUFFICES ASSUME NEW y \in T PROVE Sum(T) = f[y] + Sum(T \ {y})
    OBVIOUS
  <2> DEFINE c == Chosen(T)
  <2>1. c \in T
    BY DEF Chosen
  <2>2. Sum(T) = f[c] + Sum(T \ {c})
    BY <1>0, SumChosen
  <2>3. CASE y = c
    BY <2>2, <2>3
  <2>4. CASE y # c
    <3> HIDE DEF Sum, c
    <3>1. Sum(T \ {c}) = f[y] + Sum((T \ {c}) \ {y})
      BY <1>1, <2>1, <2>4
    <3>2. Sum(T \ {y}) = f[c] + Sum((T \ {y}) \ {c})
      BY <1>1, <2>1, <2>4
    <3>3. (T \ {c}) \ {y} = (T \ {y}) \ {c}
      OBVIOUS
    <3>4. Sum((T \ {y}) \ {c}) \in Int /\ f[c] \in Int /\ f[y] \in Int
      BY <1>0, <2>1, SumType DEF Summable, Sum
    <3>5. Sum(T) = f[c] + (f[y] + Sum((T \ {y}) \ {c}))
      BY <2>2, <3>1, <3>3
    <3>6. QED  BY <3>2, <3>4, <3>5
  <2>5. QED  BY <2>3, <2>4
<1>2. S \in F
  <2> HIDE DEF F
  <2>1. QED  BY <1>1, FiniteSetInduction DEF Summable
<1>3. QED  BY <1>2

LEMMA SumInsert ==
    ASSUME NEW f, NEW S, NEW x, Summable(f, S), f[x] \in Int, x \notin S
    PROVE  SumFunctionOnSet(f, S \cup {x}) = f[x] + SumFunctionOnSet(f, S)
<1>1. Summable(f, S \cup {x})
  BY FS_AddElement DEF Summable
<1>2. (S \cup {x}) \ {x} = S
  OBVIOUS
<1>3. QED  BY <1>1, <1>2, SumRemove

\* Induction over a finite set, element by element.
LEMMA ElementInduction ==
    ASSUME NEW S, IsFiniteSet(S), NEW F, {} \in F,
           \A T \in SUBSET S : T \in F => \A x \in S \ T : T \cup {x} \in F
    PROVE  S \in F
<1>1. ASSUME NEW T \in SUBSET S, \A U \in SUBSET T : U # T => U \in F
      PROVE  T \in F
  <2>1. CASE T = {}
    BY <2>1
  <2>2. CASE T # {}
    <3>1. PICK x : x \in T
      BY <2>2
    <3>2. T \ {x} \in SUBSET T /\ T \ {x} # T /\ T \ {x} \in SUBSET S /\ x \in S \ (T \ {x})
      BY <3>1
    <3>3. (T \ {x}) \cup {x} \in F
      BY <1>1, <3>2
    <3>4. (T \ {x}) \cup {x} = T
      BY <3>1
    <3>5. QED  BY <3>3, <3>4
  <2>3. QED  BY <2>1, <2>2
<1>2. QED  BY <1>1, FiniteSetInduction

\* What is summed decides the sum.
LEMMA SumAgree ==
    ASSUME NEW f, NEW g, NEW S, Summable(f, S), \A x \in S : f[x] = g[x]
    PROVE  SumFunctionOnSet(f, S) = SumFunctionOnSet(g, S)
<1> DEFINE F == {T \in SUBSET S : SumFunctionOnSet(f, T) = SumFunctionOnSet(g, T)}
<1>1. {} \in F
  BY SumEmpty
<1>2. ASSUME NEW T \in SUBSET S, T \in F, NEW x \in S \ T PROVE T \cup {x} \in F
  <2>1. Summable(f, T) /\ Summable(g, T) /\ f[x] \in Int /\ g[x] \in Int
    BY FS_Subset DEF Summable
  <2>2. /\ SumFunctionOnSet(f, T \cup {x}) = f[x] + SumFunctionOnSet(f, T)
        /\ SumFunctionOnSet(g, T \cup {x}) = g[x] + SumFunctionOnSet(g, T)
    BY <2>1, SumInsert
  <2>3. QED  BY <1>2, <2>2
<1>3. S \in F
  <2> HIDE DEF F
  <2>1. QED  BY <1>1, <1>2, ElementInduction DEF Summable
<1>4. QED  BY <1>3

LEMMA SumPlus ==
    ASSUME NEW f, NEW g, NEW h, NEW S, Summable(f, S), Summable(g, S),
           \A x \in S : h[x] = f[x] + g[x]
    PROVE  SumFunctionOnSet(h, S) = SumFunctionOnSet(f, S) + SumFunctionOnSet(g, S)
<1> DEFINE F == {T \in SUBSET S : SumFunctionOnSet(h, T) = SumFunctionOnSet(f, T) + SumFunctionOnSet(g, T)}
<1>1. {} \in F
  BY SumEmpty
<1>2. ASSUME NEW T \in SUBSET S, T \in F, NEW x \in S \ T PROVE T \cup {x} \in F
  <2>1. /\ Summable(f, T) /\ Summable(g, T) /\ Summable(h, T)
        /\ f[x] \in Int /\ g[x] \in Int /\ h[x] \in Int
    BY FS_Subset DEF Summable
  <2>2. /\ SumFunctionOnSet(f, T \cup {x}) = f[x] + SumFunctionOnSet(f, T)
        /\ SumFunctionOnSet(g, T \cup {x}) = g[x] + SumFunctionOnSet(g, T)
        /\ SumFunctionOnSet(h, T \cup {x}) = h[x] + SumFunctionOnSet(h, T)
    BY <2>1, SumInsert
  <2>3. SumFunctionOnSet(f, T) \in Int /\ SumFunctionOnSet(g, T) \in Int
    BY <2>1, SumType
  <2>4. QED  BY <1>2, <2>1, <2>2, <2>3
<1>3. S \in F
  <2> HIDE DEF F
  <2>1. QED  BY <1>1, <1>2, ElementInduction DEF Summable
<1>4. QED  BY <1>3

\* A common factor.
LEMMA SumTimes ==
    ASSUME NEW f, NEW h, NEW z \in Int, NEW S, Summable(f, S), \A x \in S : h[x] = f[x] * z
    PROVE  SumFunctionOnSet(h, S) = SumFunctionOnSet(f, S) * z
<1> DEFINE F == {T \in SUBSET S : SumFunctionOnSet(h, T) = SumFunctionOnSet(f, T) * z}
<1>1. {} \in F
  BY SumEmpty
<1>2. ASSUME NEW T \in SUBSET S, T \in F, NEW x \in S \ T PROVE T \cup {x} \in F
  <2>1. Summable(f, T) /\ f[x] \in Int /\ h[x] = f[x] * z
    BY FS_Subset DEF Summable
  <2>2. h[x] \in Int /\ Summable(h, T)
    <3>1. \A i \in Int : i * z \in Int
      OBVIOUS
    <3>2. QED  BY <2>1, <3>1 DEF Summable
  <2>3. /\ SumFunctionOnSet(f, T \cup {x}) = f[x] + SumFunctionOnSet(f, T)
        /\ SumFunctionOnSet(h, T \cup {x}) = h[x] + SumFunctionOnSet(h, T)
    BY <2>1, <2>2, SumInsert
  <2>4. SumFunctionOnSet(f, T) \in Int
    BY <2>1, SumType
  <2>5. \A i, j \in Int : (i + j) * z = i * z + j * z
    OBVIOUS
  <2>6. SumFunctionOnSet(h, T \cup {x}) = SumFunctionOnSet(f, T \cup {x}) * z
    BY <1>2, <2>1, <2>3, <2>4, <2>5
  <2>7. QED  BY <2>6
<1>3. S \in F
  <2> HIDE DEF F
  <2>1. QED  BY <1>1, <1>2, ElementInduction DEF Summable
<1>4. QED  BY <1>3

\* Zeros may be left out.
LEMMA SumZeros ==
    ASSUME NEW f, NEW S, NEW R \in SUBSET S, Summable(f, S), \A x \in S \ R : f[x] = 0
    PROVE  SumFunctionOnSet(f, S) = SumFunctionOnSet(f, R)
<1> DEFINE F == {T \in SUBSET S : SumFunctionOnSet(f, T) = SumFunctionOnSet(f, T \cap R)}
<1>1. {} \in F
  OBVIOUS
<1>2. ASSUME NEW T \in SUBSET S, T \in F, NEW x \in S \ T PROVE T \cup {x} \in F
  <2>1. Summable(f, T) /\ Summable(f, T \cap R) /\ f[x] \in Int /\ x \notin T \cap R
    BY FS_Subset DEF Summable
  <2>2. /\ SumFunctionOnSet(f, T \cup {x}) = f[x] + SumFunctionOnSet(f, T)
        /\ SumFunctionOnSet(f, (T \cap R) \cup {x}) = f[x] + SumFunctionOnSet(f, T \cap R)
    BY <2>1, SumInsert
  <2>3. SumFunctionOnSet(f, T) \in Int
    BY <2>1, SumType
  <2>4. CASE x \in R
    <3>1. (T \cup {x}) \cap R = (T \cap R) \cup {x}
      BY <2>4
    <3>2. QED  BY <1>2, <2>2, <3>1
  <2>5. CASE x \notin R
    <3>1. (T \cup {x}) \cap R = T \cap R
      BY <2>5
    <3>2. f[x] = 0
      BY <2>5
    <3>3. SumFunctionOnSet(f, T \cup {x}) = SumFunctionOnSet(f, T \cap R)
      BY <1>2, <2>2, <2>3, <3>2
    <3>4. QED  BY <3>1, <3>3
  <2>6. QED  BY <2>4, <2>5
<1>3. S \in F
  <2> HIDE DEF F
  <2>1. QED  BY <1>1, <1>2, ElementInduction DEF Summable
<1>4. S \cap R = R
  OBVIOUS
<1>5. QED  BY <1>3, <1>4

\* The sum over two sets that share no element.
LEMMA SumDisjoint ==
    ASSUME NEW f, NEW S, NEW T, Summable(f, S), Summable(f, T), S \cap T = {}
    PROVE  SumFunctionOnSet(f, S \cup T) = SumFunctionOnSet(f, S) + SumFunctionOnSet(f, T)
<1> DEFINE F == {U \in SUBSET T :
                   SumFunctionOnSet(f, S \cup U) = SumFunctionOnSet(f, S) + SumFunctionOnSet(f, U)}
<1>0. SumFunctionOnSet(f, S) \in Int
  BY SumType
<1>1. {} \in F
  <2>1. S \cup {} = S
    OBVIOUS
  <2>2. QED  BY <1>0, <2>1, SumEmpty
<1>2. ASSUME NEW U \in SUBSET T, U \in F, NEW x \in T \ U PROVE U \cup {x} \in F
  <2>1. Summable(f, U) /\ f[x] \in Int /\ x \notin S \cup U
    BY FS_Subset DEF Summable
  <2>2. Summable(f, S \cup U)
    BY <2>1, FS_Union DEF Summable
  <2>3. /\ SumFunctionOnSet(f, U \cup {x}) = f[x] + SumFunctionOnSet(f, U)
        /\ SumFunctionOnSet(f, (S \cup U) \cup {x}) = f[x] + SumFunctionOnSet(f, S \cup U)
    BY <2>1, <2>2, SumInsert
  <2>4. SumFunctionOnSet(f, U) \in Int
    BY <2>1, SumType
  <2>5. S \cup (U \cup {x}) = (S \cup U) \cup {x}
    OBVIOUS
  <2>6. SumFunctionOnSet(f, (S \cup U) \cup {x})
          = SumFunctionOnSet(f, S) + SumFunctionOnSet(f, U \cup {x})
    BY <1>0, <1>2, <2>1, <2>3, <2>4
  <2>7. QED  BY <2>5, <2>6
<1>3. T \in F
  <2> HIDE DEF F
  <2>1. QED  BY <1>1, <1>2, ElementInduction DEF Summable
<1>4. QED  BY <1>3

\* A sum may be taken group by group: h[v] is the sum of the elements that
\* g maps to v.
Grouped(f, S, g, V, h) ==
    /\ Summable(f, S) /\ IsFiniteSet(V)
    /\ \A x \in S : g[x] \in V
    /\ \A v \in V : h[v] = SumFunctionOnSet(f, {x \in S : g[x] = v})

LEMMA SumGrouped ==
    ASSUME NEW f, NEW S, NEW g, NEW V, NEW h, Grouped(f, S, g, V, h)
    PROVE  SumFunctionOnSet(f, S) = SumFunctionOnSet(h, V)
<1> USE DEF Grouped
<1> DEFINE part(U) == {x \in S : g[x] \in U}
           F == {U \in SUBSET V : SumFunctionOnSet(h, U) = SumFunctionOnSet(f, part(U))}
<1>0. \A R \in SUBSET S : Summable(f, R)
  BY FS_Subset DEF Summable
<1>1. {} \in F
  <2>1. part({}) = {}
    OBVIOUS
  <2>2. QED  BY <2>1, SumEmpty
<1>2. ASSUME NEW U \in SUBSET V, U \in F, NEW v \in V \ U PROVE U \cup {v} \in F
  <2> DEFINE group == {x \in S : g[x] = v}
  <2>1. part(U \cup {v}) = part(U) \cup group /\ part(U) \cap group = {}
    OBVIOUS
  <2>2. Summable(f, part(U)) /\ Summable(f, group)
    BY <1>0
  <2>3. h[v] = SumFunctionOnSet(f, group)
    OBVIOUS
  <2>4. SumFunctionOnSet(h, U) = SumFunctionOnSet(f, part(U))
    BY <1>2
  <2> HIDE DEF part, group, F
  <2>5. SumFunctionOnSet(f, part(U) \cup group)
          = SumFunctionOnSet(f, part(U)) + SumFunctionOnSet(f, group)
    BY <2>1, <2>2, SumDisjoint
  <2>6. /\ SumFunctionOnSet(f, part(U)) \in Int /\ SumFunctionOnSet(f, group) \in Int
    BY <2>2, SumType
  <2>7. Summable(h, U) /\ h[v] \in Int
    <3>1. ASSUME NEW u \in V PROVE h[u] \in Int
      <4>1. Summable(f, {x \in S : g[x] = u})
        BY <1>0
      <4>2. QED  BY <4>1, SumType
    <3>2. QED  BY <3>1, FS_Subset DEF Summable
  <2>8. SumFunctionOnSet(h, U \cup {v}) = h[v] + SumFunctionOnSet(h, U)
    BY <2>7, SumInsert
  <2>9. SumFunctionOnSet(h, U \cup {v}) = SumFunctionOnSet(f, part(U \cup {v}))
    <3>1. SumFunctionOnSet(f, part(U \cup {v}))
            = SumFunctionOnSet(f, part(U)) + SumFunctionOnSet(f, group)
      BY <2>1, <2>5, Zenon
    <3>2. SumFunctionOnSet(h, U \cup {v})
            = SumFunctionOnSet(f, group) + SumFunctionOnSet(f, part(U))
      BY <2>3, <2>4, <2>8, Zenon
    <3>3. \A i, j \in Int : i + j = j + i
      OBVIOUS
    <3>4. SumFunctionOnSet(f, group) + SumFunctionOnSet(f, part(U))
            = SumFunctionOnSet(f, part(U)) + SumFunctionOnSet(f, group)
      BY <2>6, <3>3
    <3>5. QED  BY <3>1, <3>2, <3>4, Zenon
  <2>10. QED  BY <2>9 DEF F
<1>3. V \in F
  <2> HIDE DEF F
  <2>1. QED  BY <1>1, <1>2, ElementInduction
<1>4. part(V) = S
  OBVIOUS
<1>5. QED  BY <1>3, <1>4

(***************************************************************************)
(* The concatenation of a sequence of sequences.                           *)
(***************************************************************************)

\* h is the function that FlattenSeq defines recursively.
Flattens(h, e, n) == h = [i \in 1 .. n |-> IF i = 1 THEN e[i] ELSE h[i - 1] \o e[i]]

Agree(g, h, n) == \A i \in 1 .. n : g[i] = h[i]

LEMMA FlattensUnique ==
    ASSUME NEW m \in Nat, NEW n \in Nat, m <= n, NEW e, NEW d, Agree(e, d, m),
           NEW g, NEW h, Flattens(g, e, m), Flattens(h, d, n)
    PROVE  Agree(g, h, m)
<1> USE DEF Agree
<1> DEFINE N == {i \in Nat : i \in 1 .. m => g[i] = h[i]}
<1>1. 0 \in N
  OBVIOUS
<1>2. ASSUME NEW i \in Nat, i \in N PROVE i + 1 \in N
  <2> SUFFICES ASSUME i + 1 \in 1 .. m PROVE g[i + 1] = h[i + 1]
    OBVIOUS
  <2>1. /\ g[i + 1] = IF i + 1 = 1 THEN e[i + 1] ELSE g[i] \o e[i + 1]
        /\ h[i + 1] = IF i + 1 = 1 THEN d[i + 1] ELSE h[i] \o d[i + 1]
    <3>1. i + 1 \in 1 .. m /\ i + 1 \in 1 .. n /\ (i + 1) - 1 = i
      OBVIOUS
    <3>2. /\ g[i + 1] = IF i + 1 = 1 THEN e[i + 1] ELSE g[(i + 1) - 1] \o e[i + 1]
          /\ h[i + 1] = IF i + 1 = 1 THEN d[i + 1] ELSE h[(i + 1) - 1] \o d[i + 1]
      BY <3>1, Zenon DEF Flattens
    <3>3. QED  BY <3>1, <3>2
  <2>2. i + 1 # 1 => g[i] = h[i]
    BY <1>2
  <2>3. QED  BY <2>1, <2>2
<1>3. \A i \in Nat : i \in N
  <2> HIDE DEF N
  <2>1. QED  BY <1>1, <1>2, NatSetInduction
<1>4. QED  BY <1>3

LEMMA FlattensExists ==
    ASSUME NEW X, NEW n \in Nat, NEW e \in [1 .. n -> Seq(X)]
    PROVE  \E h \in [1 .. n -> Seq(X)] : Flattens(h, e, n)
<1> DEFINE N == {k \in Nat : k <= n => \E h \in [1 .. k -> Seq(X)] : Flattens(h, e, k)}
<1>1. 0 \in N
  <2>1. [i \in 1 .. 0 |-> << >>] \in [1 .. 0 -> Seq(X)]
    OBVIOUS
  <2>2. Flattens([i \in 1 .. 0 |-> << >>], e, 0)
    BY DEF Flattens
  <2>3. QED  BY <2>1, <2>2
<1>2. ASSUME NEW k \in Nat, k \in N PROVE k + 1 \in N
  <2> SUFFICES ASSUME k + 1 <= n
               PROVE  \E h \in [1 .. k + 1 -> Seq(X)] : Flattens(h, e, k + 1)
    OBVIOUS
  <2>1. PICK g \in [1 .. k -> Seq(X)] : Flattens(g, e, k)
    BY <1>2
  <2> DEFINE last == IF k = 0 THEN e[1] ELSE g[k] \o e[k + 1]
             h == [i \in 1 .. k + 1 |-> IF i = k + 1 THEN last ELSE g[i]]
  <2>2. last \in Seq(X)
    <3>1. CASE k = 0
      BY <3>1
    <3>2. CASE k # 0
      <4>1. g[k] \in Seq(X) /\ e[k + 1] \in Seq(X)
        BY <3>2
      <4>2. QED  BY <3>2, <4>1
    <3>3. QED  BY <3>1, <3>2
  <2>3. h \in [1 .. k + 1 -> Seq(X)]
    <3> HIDE DEF last
    <3>1. QED  BY <2>2
  <2>4. ASSUME NEW i \in 1 .. k + 1
        PROVE  h[i] = IF i = 1 THEN e[i] ELSE h[i - 1] \o e[i]
    <3>1. CASE i = k + 1
      BY <3>1
    <3>2. CASE i # k + 1
      <4>1. i \in 1 .. k /\ h[i] = g[i] /\ (i # 1 => h[i - 1] = g[i - 1])
        BY <3>2
      <4>2. g[i] = IF i = 1 THEN e[i] ELSE g[i - 1] \o e[i]
        BY <2>1, <4>1 DEF Flattens
      <4>3. QED  BY <4>1, <4>2
    <3>3. QED  BY <3>1, <3>2
  <2>5. Flattens(h, e, k + 1)
    <3>1. h = [i \in 1 .. k + 1 |-> h[i]]
      OBVIOUS
    <3> HIDE DEF h
    <3>2. QED  BY <2>4, <3>1 DEF Flattens
  <2>6. QED  BY <2>3, <2>5
<1>3. \A k \in Nat : k \in N
  <2> HIDE DEF N
  <2>1. QED  BY <1>1, <1>2, NatSetInduction
<1>4. QED  BY <1>3

LEMMA FlattenEmpty == FlattenSeq(<< >>) = << >>
BY DEF FlattenSeq

LEMMA FlattenIsLast ==
    ASSUME NEW X, NEW n \in Nat \ {0}, NEW e \in [1 .. n -> Seq(X)]
    PROVE  \E h \in [1 .. n -> Seq(X)] : Flattens(h, e, n) /\ FlattenSeq(e) = h[n]
<1> DEFINE f == CHOOSE h : Flattens(h, e, n)
<1>1. PICK g \in [1 .. n -> Seq(X)] : Flattens(g, e, n)
  BY FlattensExists
<1>2. Flattens(f, e, n)
  BY <1>1, Zenon
<1>3. Len(e) = n /\ n # 0
  OBVIOUS
<1>4. FlattenSeq(e) = f[n]
  BY <1>3, Zenon DEF FlattenSeq, Flattens
<1>5. f \in [1 .. n -> Seq(X)]
  <2> HIDE DEF f
  <2>1. Agree(f, g, n)
    <3>1. n <= n /\ n \in Nat /\ Agree(e, e, n)
      BY DEF Agree
    <3>2. QED  BY <1>1, <1>2, <3>1, FlattensUnique
  <2>2. f = [i \in 1 .. n |-> f[i]]
    BY <1>2 DEF Flattens
  <2>3. QED  BY <2>1, <2>2 DEF Agree
<1>6. QED  BY <1>2, <1>4, <1>5

LEMMA FlattenType ==
    ASSUME NEW X, NEW n \in Nat, NEW e \in [1 .. n -> Seq(X)]
    PROVE  FlattenSeq(e) \in Seq(X)
<1>1. CASE n = 0
  <2>1. e = << >>
    BY <1>1
  <2>2. FlattenSeq(e) = << >>
    BY <2>1, FlattenEmpty, Zenon
  <2>3. QED  BY <2>2
<1>2. CASE n # 0
  <2>1. PICK h \in [1 .. n -> Seq(X)] : FlattenSeq(e) = h[n]
    BY <1>2, FlattenIsLast
  <2>2. QED  BY <1>2, <2>1
<1>3. QED  BY <1>1, <1>2

\* One more sequence at the end.
LEMMA FlattenStep ==
    ASSUME NEW X, NEW n \in Nat, NEW e \in [1 .. n + 1 -> Seq(X)]
    PROVE  FlattenSeq(e) = FlattenSeq([i \in 1 .. n |-> e[i]]) \o e[n + 1]
<1> DEFINE d == [i \in 1 .. n |-> e[i]]
<1>1. d \in [1 .. n -> Seq(X)] /\ n + 1 \in Nat \ {0}
  OBVIOUS
<1>2. PICK h \in [1 .. n + 1 -> Seq(X)] : Flattens(h, e, n + 1) /\ FlattenSeq(e) = h[n + 1]
  BY <1>1, FlattenIsLast
<1>3. CASE n = 0
  <2>1. h[1] = e[1] /\ e[1] \in Seq(X)
    BY <1>2, <1>3 DEF Flattens
  <2>2. d = << >>
    BY <1>3
  <2>3. << >> \o e[1] = e[1]
    BY <2>1
  <2>4. FlattenSeq(d) = << >>
    BY <2>2, FlattenEmpty, Zenon
  <2>5. QED  BY <1>2, <1>3, <2>1, <2>3, <2>4
<1>4. CASE n # 0
  <2>1. PICK g \in [1 .. n -> Seq(X)] : Flattens(g, d, n) /\ FlattenSeq(d) = g[n]
    BY <1>1, <1>4, FlattenIsLast
  <2>2. Agree(d, e, n)
    BY DEF Agree
  <2>3. g[n] = h[n]
    <3> HIDE DEF d
    <3>1. Agree(g, h, n)
      <4>1. n \in Nat /\ n + 1 \in Nat /\ n <= n + 1 /\ Flattens(g, d, n) /\ Flattens(h, e, n + 1)
        BY <1>2, <2>1
      <4>2. QED  BY <4>1, <2>2, FlattensUnique
    <3>2. QED  BY <1>4, <3>1 DEF Agree
  <2>4. h[n + 1] = h[n] \o e[n + 1]
    <3>1. n + 1 \in 1 .. n + 1 /\ n + 1 # 1 /\ (n + 1) - 1 = n
      BY <1>4
    <3>2. h[n + 1] = IF n + 1 = 1 THEN e[n + 1] ELSE h[(n + 1) - 1] \o e[n + 1]
      BY <1>2, <3>1 DEF Flattens
    <3>3. QED  BY <3>1, <3>2
  <2>5. QED  BY <1>2, <2>1, <2>3, <2>4
<1>5. QED  BY <1>3, <1>4

(***************************************************************************)
(* Sequences.                                                              *)
(***************************************************************************)
LEMMA SameElements ==
    \A S : \A s, t \in Seq(S) : Len(s) = Len(t) /\ (\A i \in 1 .. Len(s) : s[i] = t[i]) => s = t
OBVIOUS

\* Concatenation under a name that the provers do not take apart.
Cat(a, b) == a \o b

LEMMA CatType == \A X : \A a, b \in Seq(X) : Cat(a, b) \in Seq(X)
BY DEF Cat

LEMMA CatAssociative ==
    \A X : \A a, b, c \in Seq(X) : Cat(Cat(a, b), c) = Cat(a, Cat(b, c))
BY DEF Cat

LEMMA CatMiddle ==
    \A X : \A a, b, c, d \in Seq(X) : Cat(Cat(a, b), Cat(c, d)) = Cat(a, Cat(Cat(b, c), d))
<1> SUFFICES ASSUME NEW X, NEW a \in Seq(X), NEW b \in Seq(X), NEW c \in Seq(X), NEW d \in Seq(X)
             PROVE  Cat(Cat(a, b), Cat(c, d)) = Cat(a, Cat(Cat(b, c), d))
  OBVIOUS
<1>1. Cat(c, d) \in Seq(X)
  BY CatType
<1>2. Cat(Cat(a, b), Cat(c, d)) = Cat(a, Cat(b, Cat(c, d)))
  BY <1>1, CatAssociative
<1>3. Cat(Cat(b, c), d) = Cat(b, Cat(c, d))
  BY CatAssociative
<1>4. QED  BY <1>2, <1>3, Zenon

LEMMA CatEmpty ==
    \A X : << >> \in Seq(X) /\ \A a \in Seq(X) : Cat(a, << >>) = a /\ Cat(<< >>, a) = a
BY DEF Cat

\* Short sequences.
LEMMA CatPair == \A a, b : Cat(<<a>>, <<b>>) = <<a, b>>
<1> SUFFICES ASSUME NEW a, NEW b PROVE Cat(<<a>>, <<b>>) = <<a, b>>
  OBVIOUS
<1> DEFINE s == <<a>> \o <<b>>
           t == <<a, b>>
<1>1. s \in Seq({a, b}) /\ t \in Seq({a, b})
  OBVIOUS
<1>2. Len(s) = 2 /\ Len(t) = 2 /\ s[1] = t[1] /\ s[2] = t[2]
  OBVIOUS
<1> HIDE DEF s, t
<1>3. \A i \in 1 .. Len(s) : s[i] = t[i]
  BY <1>2
<1>4. s = t
  BY <1>1, <1>2, <1>3, SameElements
<1>5. QED  BY <1>4 DEF s, t, Cat

LEMMA CatTriple == \A a, b, c : Cat(<<a>>, <<b, c>>) = <<a, b, c>>
<1> SUFFICES ASSUME NEW a, NEW b, NEW c PROVE Cat(<<a>>, <<b, c>>) = <<a, b, c>>
  OBVIOUS
<1> DEFINE s == <<a>> \o <<b, c>>
           t == <<a, b, c>>
<1>1. s \in Seq({a, b, c}) /\ t \in Seq({a, b, c})
  OBVIOUS
<1>2. Len(s) = 3 /\ Len(t) = 3 /\ s[1] = t[1] /\ s[2] = t[2] /\ s[3] = t[3]
  OBVIOUS
<1> HIDE DEF s, t
<1>3. \A i \in 1 .. Len(s) : s[i] = t[i]
  BY <1>2
<1>4. s = t
  BY <1>1, <1>2, <1>3, SameElements
<1>5. QED  BY <1>4 DEF s, t, Cat

LEMMA CatPairs == \A a, b, c, d : Cat(<<a, b>>, <<c, d>>) = Cat(<<a>>, <<b, c, d>>)
BY DEF Cat

LEMMA FlattenLast ==
    ASSUME NEW X, NEW n \in Nat, NEW e \in [1 .. n + 1 -> Seq(X)]
    PROVE  FlattenSeq(e) = Cat(FlattenSeq([i \in 1 .. n |-> e[i]]), e[n + 1])
BY FlattenStep DEF Cat

\* The first sequence, then the others.
LEMMA FlattenFirst ==
    ASSUME NEW X, NEW n \in Nat
    PROVE  \A e \in [1 .. n + 1 -> Seq(X)] :
              FlattenSeq(e) = Cat(e[1], FlattenSeq([i \in 1 .. n |-> e[i + 1]]))
<1> DEFINE first(e, k) == FlattenSeq(e) = Cat(e[1], FlattenSeq([i \in 1 .. k |-> e[i + 1]]))
           N == {k \in Nat : \A e \in [1 .. k + 1 -> Seq(X)] : first(e, k)}
<1>1. 0 \in N
  <2> SUFFICES ASSUME NEW e \in [1 .. 0 + 1 -> Seq(X)] PROVE first(e, 0)
    OBVIOUS
  <2>1. FlattenSeq(e) = Cat(FlattenSeq([i \in 1 .. 0 |-> e[i]]), e[0 + 1])
    BY FlattenLast
  <2>2. [i \in 1 .. 0 |-> e[i]] = << >> /\ [i \in 1 .. 0 |-> e[i + 1]] = << >>
    OBVIOUS
  <2>3. /\ FlattenSeq([i \in 1 .. 0 |-> e[i]]) = << >>
        /\ FlattenSeq([i \in 1 .. 0 |-> e[i + 1]]) = << >>
    BY <2>2, FlattenEmpty, Zenon
  <2>4. e[1] \in Seq(X)
    OBVIOUS
  <2>5. QED  BY <2>1, <2>3, <2>4, CatEmpty
<1>2. ASSUME NEW k \in Nat, k \in N PROVE k + 1 \in N
  <2> SUFFICES ASSUME NEW e \in [1 .. (k + 1) + 1 -> Seq(X)] PROVE first(e, k + 1)
    <3> HIDE DEF first
    <3>1. QED  OBVIOUS
  <2>0. k + 1 \in Nat
    OBVIOUS
  <2> DEFINE front == [i \in 1 .. k + 1 |-> e[i]]
             middle == [i \in 1 .. k |-> e[i + 1]]
             rest == [i \in 1 .. k + 1 |-> e[i + 1]]
             last == e[(k + 1) + 1]
  <2>1. /\ front \in [1 .. k + 1 -> Seq(X)] /\ middle \in [1 .. k -> Seq(X)]
        /\ rest \in [1 .. k + 1 -> Seq(X)] /\ last \in Seq(X) /\ e[1] \in Seq(X)
    OBVIOUS
  <2>2. FlattenSeq(e) = Cat(FlattenSeq(front), last)
    BY <2>0, FlattenLast, Zenon
  <2>3. FlattenSeq(front) = Cat(front[1], FlattenSeq([i \in 1 .. k |-> front[i + 1]]))
    BY <1>2, <2>1
  <2>4. front[1] = e[1] /\ [i \in 1 .. k |-> front[i + 1]] = middle
    OBVIOUS
  <2>5. FlattenSeq(rest) = Cat(FlattenSeq([i \in 1 .. k |-> rest[i]]), rest[k + 1])
    BY <2>1, FlattenLast
  <2>6. [i \in 1 .. k |-> rest[i]] = middle /\ rest[k + 1] = last
    OBVIOUS
  <2>7. FlattenSeq(middle) \in Seq(X)
    BY <2>1, FlattenType
  <2> HIDE DEF front, middle, rest, last
  <2>8. FlattenSeq(e) = Cat(Cat(e[1], FlattenSeq(middle)), last)
    BY <2>2, <2>3, <2>4
  <2>9. FlattenSeq(e) = Cat(e[1], Cat(FlattenSeq(middle), last))
    BY <2>1, <2>7, <2>8, CatAssociative
  <2>10. QED  BY <2>5, <2>6, <2>9 DEF rest
<1>3. \A k \in Nat : k \in N
  <2> HIDE DEF N
  <2>1. QED  BY <1>1, <1>2, NatSetInduction
<1>4. QED  BY <1>3

LEMMA HeadAndTail ==
    ASSUME NEW Y, NEW s \in Seq(Y), s # << >>
    PROVE  Head(s) = s[1] /\ Tail(s) = [i \in 1 .. Len(s) - 1 |-> s[i + 1]]
<1>1. Len(s) \in Nat /\ Len(s) > 0
  OBVIOUS
<1>2. PICK t \in Seq(Y) : t = Tail(s) /\ Len(t) = Len(s) - 1
  BY HeadTailProperties
<1>3. \A i \in 1 .. Len(s) - 1 : Tail(s)[i] = s[i + 1]
  OBVIOUS
<1>4. t = [i \in 1 .. Len(t) |-> t[i]]
  OBVIOUS
<1>5. QED  BY <1>2, <1>3, <1>4

LEMMA FlattenHead ==
    ASSUME NEW X, NEW s \in Seq(Seq(X)), s # << >>
    PROVE  FlattenSeq(s) = Cat(Head(s), FlattenSeq(Tail(s)))
<1> DEFINE n == Len(s) - 1
           tail == [i \in 1 .. n |-> s[i + 1]]
<1>1. n \in Nat /\ s \in [1 .. n + 1 -> Seq(X)] /\ Head(s) = s[1] /\ Tail(s) = tail
  <2>1. Len(s) \in Nat /\ Len(s) # 0 /\ s \in [1 .. Len(s) -> Seq(X)]
    OBVIOUS
  <2>2. n \in Nat /\ n + 1 = Len(s)
    BY <2>1
  <2>3. Head(s) = s[1] /\ Tail(s) = tail
    BY HeadAndTail
  <2>4. QED  BY <2>1, <2>2, <2>3
<1> HIDE DEF n
<1>2. FlattenSeq(s) = Cat(s[1], FlattenSeq(tail))
  BY <1>1, FlattenFirst
<1>3. QED  BY <1>1, <1>2

LEMMA FlattenSeqType ==
    ASSUME NEW X, NEW s \in Seq(Seq(X))
    PROVE  FlattenSeq(s) \in Seq(X)
<1>1. Len(s) \in Nat /\ s \in [1 .. Len(s) -> Seq(X)]
  OBVIOUS
<1>2. QED  BY <1>1, FlattenType

\* One element each.
LEMMA FlattenSingletons ==
    ASSUME NEW X, NEW n \in Nat
    PROVE  \A f \in [1 .. n -> X] : FlattenSeq([i \in 1 .. n |-> <<f[i]>>]) = f
<1> DEFINE N == {k \in Nat : \A f \in [1 .. k -> X] : FlattenSeq([i \in 1 .. k |-> <<f[i]>>]) = f}
<1>1. 0 \in N
  <2> SUFFICES ASSUME NEW f \in [1 .. 0 -> X] PROVE FlattenSeq([i \in 1 .. 0 |-> <<f[i]>>]) = f
    OBVIOUS
  <2>1. [i \in 1 .. 0 |-> <<f[i]>>] = << >> /\ f = << >>
    OBVIOUS
  <2>2. QED  BY <2>1, FlattenEmpty, Zenon
<1>2. ASSUME NEW k \in Nat, k \in N PROVE k + 1 \in N
  <2> SUFFICES ASSUME NEW f \in [1 .. k + 1 -> X]
               PROVE  FlattenSeq([i \in 1 .. k + 1 |-> <<f[i]>>]) = f
    OBVIOUS
  <2> DEFINE e == [i \in 1 .. k + 1 |-> <<f[i]>>]
             g == [i \in 1 .. k |-> f[i]]
             d == [i \in 1 .. k |-> <<g[i]>>]
  <2>1. e \in [1 .. k + 1 -> Seq(X)] /\ g \in [1 .. k -> X]
    OBVIOUS
  <2>2. FlattenSeq(e) = Cat(FlattenSeq([i \in 1 .. k |-> e[i]]), e[k + 1])
    <3> HIDE DEF e
    <3>1. QED  BY <2>1, FlattenLast
  <2>3. [i \in 1 .. k |-> e[i]] = d /\ e[k + 1] = <<f[k + 1]>>
    OBVIOUS
  <2>4. FlattenSeq(d) = g
    BY <1>2, <2>1
  <2>5. FlattenSeq(e) = Cat(g, <<f[k + 1]>>)
    BY <2>2, <2>3, <2>4
  <2>6. Cat(g, <<f[k + 1]>>) = f
    BY DEF Cat
  <2>7. QED  BY <2>5, <2>6
<1>3. \A k \in Nat : k \in N
  <2> HIDE DEF N
  <2>1. QED  BY <1>1, <1>2, NatSetInduction
<1>4. QED  BY <1>3

\* The length, if all have the same.
LEMMA FlattenLength ==
    ASSUME NEW X, NEW k \in Nat, NEW n \in Nat
    PROVE  \A e \in [1 .. n -> Seq(X)] : (\A i \in 1 .. n : Len(e[i]) = k) => Len(FlattenSeq(e)) = n * k
<1> DEFINE long(e, m) == (\A i \in 1 .. m : Len(e[i]) = k) => Len(FlattenSeq(e)) = m * k
           N == {m \in Nat : \A e \in [1 .. m -> Seq(X)] : long(e, m)}
<1>1. 0 \in N
  <2> SUFFICES ASSUME NEW e \in [1 .. 0 -> Seq(X)] PROVE long(e, 0)
    OBVIOUS
  <2>1. e = << >> /\ Len(<< >>) = 0 * k
    OBVIOUS
  <2>2. FlattenSeq(e) = << >>
    BY <2>1, FlattenEmpty, Zenon
  <2>3. QED  BY <2>1, <2>2
<1>2. ASSUME NEW m \in Nat, m \in N PROVE m + 1 \in N
  <2> SUFFICES ASSUME NEW e \in [1 .. m + 1 -> Seq(X)], \A i \in 1 .. m + 1 : Len(e[i]) = k
               PROVE  Len(FlattenSeq(e)) = (m + 1) * k
    OBVIOUS
  <2> DEFINE front == [i \in 1 .. m |-> e[i]]
  <2>1. front \in [1 .. m -> Seq(X)] /\ \A i \in 1 .. m : Len(front[i]) = k
    OBVIOUS
  <2>2. FlattenSeq(e) = Cat(FlattenSeq(front), e[m + 1])
    BY FlattenLast
  <2>3. PICK all \in Seq(X), last \in Seq(X) : all = FlattenSeq(front) /\ last = e[m + 1]
    <3>1. FlattenSeq(front) \in Seq(X) /\ e[m + 1] \in Seq(X)
      BY <2>1, FlattenType
    <3> HIDE DEF front
    <3>2. QED  BY <3>1
  <2>4. Len(all) = m * k /\ Len(last) = k
    <3>1. Len(FlattenSeq(front)) = m * k
      BY <1>2, <2>1
    <3>2. Len(e[m + 1]) = k
      OBVIOUS
    <3>3. QED  BY <2>3, <3>1, <3>2
  <2>5. Len(Cat(all, last)) = Len(all) + Len(last)
    BY DEF Cat
  <2>6. m * k + k = (m + 1) * k
    OBVIOUS
  <2>7. QED  BY <2>2, <2>3, <2>4, <2>5, <2>6
<1>3. \A m \in Nat : m \in N
  <2> HIDE DEF N
  <2>1. QED  BY <1>1, <1>2, NatSetInduction
<1>4. QED  BY <1>3

\* p is a part of s, or its beginning.
PartOf(p, s, X) == \E a, b \in Seq(X) : s = Cat(a, Cat(p, b))
BeginningOf(p, s, X) == \E b \in Seq(X) : s = Cat(p, b)

LEMMA PartMore ==
    ASSUME NEW X, NEW p \in Seq(X), NEW s \in Seq(X), NEW c \in Seq(X)
    PROVE  /\ PartOf(p, s, X) => PartOf(p, Cat(s, c), X)
           /\ PartOf(p, Cat(s, p), X)
<1>1. ASSUME PartOf(p, s, X) PROVE PartOf(p, Cat(s, c), X)
  <2>1. PICK a \in Seq(X), b \in Seq(X) : s = Cat(a, Cat(p, b))
    BY <1>1 DEF PartOf
  <2>2. Cat(p, b) \in Seq(X) /\ Cat(b, c) \in Seq(X)
    BY CatType
  <2>3. Cat(Cat(a, Cat(p, b)), c) = Cat(a, Cat(Cat(p, b), c))
    BY <2>2, CatAssociative
  <2>4. Cat(Cat(p, b), c) = Cat(p, Cat(b, c))
    BY CatAssociative
  <2>5. QED  BY <2>1, <2>2, <2>3, <2>4 DEF PartOf
<1>2. PartOf(p, Cat(s, p), X)
  <2>1. Cat(s, p) = Cat(s, Cat(p, << >>)) /\ << >> \in Seq(X)
    BY CatEmpty
  <2>2. QED  BY <2>1 DEF PartOf
<1>3. QED  BY <1>1, <1>2

LEMMA BeginningMore ==
    ASSUME NEW X, NEW p \in Seq(X), NEW s \in Seq(X), NEW c \in Seq(X)
    PROVE  /\ BeginningOf(p, s, X) => BeginningOf(p, Cat(s, c), X)
           /\ BeginningOf(p, p, X)
<1>1. ASSUME BeginningOf(p, s, X) PROVE BeginningOf(p, Cat(s, c), X)
  <2>1. PICK b \in Seq(X) : s = Cat(p, b)
    BY <1>1 DEF BeginningOf
  <2>2. Cat(Cat(p, b), c) = Cat(p, Cat(b, c)) /\ Cat(b, c) \in Seq(X)
    BY CatAssociative, CatType
  <2>3. QED  BY <2>1, <2>2 DEF BeginningOf
<1>2. BeginningOf(p, p, X)
  <2>1. p = Cat(p, << >>) /\ << >> \in Seq(X)
    BY CatEmpty
  <2>2. QED  BY <2>1 DEF BeginningOf
<1>3. QED  BY <1>1, <1>2

\* Every one of the sequences is a part of the whole.
LEMMA FlattenParts ==
    ASSUME NEW X, NEW n \in Nat
    PROVE  \A e \in [1 .. n -> Seq(X)] : \A r \in 1 .. n : PartOf(e[r], FlattenSeq(e), X)
<1> DEFINE parts(e, k) == \A r \in 1 .. k : PartOf(e[r], FlattenSeq(e), X)
           N == {k \in Nat : \A e \in [1 .. k -> Seq(X)] : parts(e, k)}
<1>1. 0 \in N
  OBVIOUS
<1>2. ASSUME NEW k \in Nat, k \in N PROVE k + 1 \in N
  <2> SUFFICES ASSUME NEW e \in [1 .. k + 1 -> Seq(X)] PROVE parts(e, k + 1)
    <3> HIDE DEF parts
    <3>1. QED  OBVIOUS
  <2> SUFFICES ASSUME NEW r \in 1 .. k + 1 PROVE PartOf(e[r], FlattenSeq(e), X)
    OBVIOUS
  <2> DEFINE front == [i \in 1 .. k |-> e[i]]
  <2>1. front \in [1 .. k -> Seq(X)]
    OBVIOUS
  <2>2. FlattenSeq(e) = Cat(FlattenSeq(front), e[k + 1])
    BY FlattenLast
  <2>3. PICK all \in Seq(X) : all = FlattenSeq(front)
    BY <2>1, FlattenType
  <2>4. PICK last \in Seq(X), here \in Seq(X) : last = e[k + 1] /\ here = e[r]
    OBVIOUS
  <2>5. CASE r = k + 1
    <3>1. PartOf(last, Cat(all, last), X)
      BY PartMore
    <3>2. QED  BY <2>2, <2>3, <2>4, <2>5, <3>1
  <2>6. CASE r # k + 1
    <3>1. r \in 1 .. k /\ front[r] = e[r]
      BY <2>6
    <3>2. PartOf(here, all, X)
      BY <1>2, <2>1, <2>3, <2>4, <3>1
    <3>3. PartOf(here, Cat(all, last), X)
      BY <3>2, PartMore
    <3>4. QED  BY <2>2, <2>3, <2>4, <3>3
  <2>7. QED  BY <2>5, <2>6
<1>3. \A k \in Nat : k \in N
  <2> HIDE DEF N
  <2>1. QED  BY <1>1, <1>2, NatSetInduction
<1>4. QED  BY <1>3

\* What the first of the sequences give is the beginning of the whole.
LEMMA FlattenBegins ==
    ASSUME NEW X, NEW m \in Nat, NEW n \in Nat
    PROVE  \A e \in [1 .. m + n -> Seq(X)] :
              BeginningOf(FlattenSeq([i \in 1 .. m |-> e[i]]), FlattenSeq(e), X)
<1> DEFINE begins(e) == BeginningOf(FlattenSeq([i \in 1 .. m |-> e[i]]), FlattenSeq(e), X)
           N == {k \in Nat : \A e \in [1 .. m + k -> Seq(X)] : begins(e)}
<1>1. 0 \in N
  <2> SUFFICES ASSUME NEW e \in [1 .. m + 0 -> Seq(X)] PROVE begins(e)
    <3> HIDE DEF begins
    <3>1. QED  OBVIOUS
  <2>1. e \in [1 .. m -> Seq(X)] /\ e = [i \in 1 .. m |-> e[i]]
    OBVIOUS
  <2>2. PICK all \in Seq(X) : all = FlattenSeq(e)
    BY <2>1, FlattenType
  <2>3. BeginningOf(all, all, X)
    BY BeginningMore
  <2>4. QED  BY <2>1, <2>2, <2>3
<1>2. ASSUME NEW k \in Nat, k \in N PROVE k + 1 \in N
  <2> SUFFICES ASSUME NEW e \in [1 .. m + (k + 1) -> Seq(X)] PROVE begins(e)
    <3> HIDE DEF begins
    <3>1. QED  OBVIOUS
  <2> DEFINE front == [i \in 1 .. m + k |-> e[i]]
             start == [i \in 1 .. m |-> e[i]]
  <2>1. /\ front \in [1 .. m + k -> Seq(X)] /\ start \in [1 .. m -> Seq(X)]
        /\ e \in [1 .. (m + k) + 1 -> Seq(X)] /\ m + k \in Nat
    OBVIOUS
  <2>2. FlattenSeq(e) = Cat(FlattenSeq(front), e[(m + k) + 1])
    <3>1. QED  BY <2>1, FlattenLast
  <2>3. [i \in 1 .. m |-> front[i]] = start
    OBVIOUS
  <2> HIDE DEF front, start
  <2>4. BeginningOf(FlattenSeq(start), FlattenSeq(front), X)
    BY <1>2, <2>1, <2>3
  <2>5. PICK last \in Seq(X) : last = e[(m + k) + 1]
    BY <2>1
  <2>6. PICK p \in Seq(X), all \in Seq(X) : p = FlattenSeq(start) /\ all = FlattenSeq(front)
    BY <2>1, FlattenType
  <2>7. BeginningOf(p, Cat(all, last), X)
    BY <2>4, <2>6, BeginningMore
  <2>8. QED  BY <2>2, <2>5, <2>6, <2>7 DEF start
<1>3. \A k \in Nat : k \in N
  <2> HIDE DEF N
  <2>1. QED  BY <1>1, <1>2, NatSetInduction
<1>4. QED  BY <1>3

LEMMA BeginningThrough ==
    ASSUME NEW X, NEW p \in Seq(X), NEW s \in Seq(X), NEW u \in Seq(X),
           BeginningOf(p, s, X), BeginningOf(s, u, X)
    PROVE  BeginningOf(p, u, X)
<1>1. PICK b \in Seq(X) : u = Cat(s, b)
  BY DEF BeginningOf
<1>2. QED  BY <1>1, BeginningMore

LEMMA BeginningIsPrefix ==
    ASSUME NEW X, NEW p \in Seq(X), NEW s \in Seq(X), BeginningOf(p, s, X)
    PROVE  Len(p) <= Len(s) /\ SubSeq(p, 1, Len(p)) = SubSeq(s, 1, Len(p))
<1>1. PICK b \in Seq(X) : s = Cat(p, b)
  BY DEF BeginningOf
<1>2. Len(p) \in Nat /\ Len(b) \in Nat /\ Len(s) = Len(p) + Len(b)
  BY <1>1 DEF Cat
<1>3. \A i \in 1 .. Len(p) : s[i] = p[i]
  BY <1>1 DEF Cat
<1>4. QED  BY <1>2, <1>3

\* The elements of c are those of a, then those of b.
Joined(c, a, b) ==
    /\ Len(c) = Len(a) + Len(b)
    /\ \A i \in 1 .. Len(a) : c[i] = a[i]
    /\ \A i \in 1 .. Len(b) : c[Len(a) + i] = b[i]

LEMMA CatElements ==
    \A X : \A a, b \in Seq(X) : Cat(a, b) \in Seq(X) /\ Joined(Cat(a, b), a, b)
BY DEF Cat, Joined

\* The elements of p follow each other in s.
Within(p, s) ==
    \E n \in Nat : /\ n + Len(p) <= Len(s)
                   /\ \A i \in 1 .. Len(p) : s[n + i] = p[i]

LEMMA PartElements ==
    \A X : \A p, s \in Seq(X) : PartOf(p, s, X) => Within(p, s)
<1> SUFFICES ASSUME NEW X, NEW p \in Seq(X), NEW s \in Seq(X), PartOf(p, s, X)
             PROVE  Within(p, s)
  OBVIOUS
<1>1. PICK a \in Seq(X), b \in Seq(X) : s = Cat(a, Cat(p, b))
  BY DEF PartOf
<1>2. PICK c \in Seq(X) : c = Cat(p, b)
  BY CatType
<1>3. Len(c) >= Len(p) /\ \A i \in 1 .. Len(p) : i \in 1 .. Len(c) /\ c[i] = p[i]
  BY <1>2 DEF Cat
<1>4. s = Cat(a, c)
  BY <1>1, <1>2
<1>5. Len(s) = Len(a) + Len(c) /\ \A i \in 1 .. Len(c) : s[Len(a) + i] = c[i]
  BY <1>4 DEF Cat
<1>6. Len(a) \in Nat /\ Len(c) \in Nat /\ Len(p) \in Nat
  OBVIOUS
<1>7. Len(a) + Len(p) <= Len(s) /\ \A i \in 1 .. Len(p) : s[Len(a) + i] = p[i]
  BY <1>3, <1>5, <1>6
<1>8. QED  BY <1>6, <1>7 DEF Within

(***************************************************************************)
(* Remainders.                                                             *)
(***************************************************************************)

\* What a multiple of w leaves is what was added to it.
LEMMA ModUnique ==
    ASSUME NEW w \in Nat \ {0}, NEW y \in Int, NEW r \in 0 .. w - 1
    PROVE  (w * y + r) % w = r
<1> DEFINE x == w * y + r
           q == x \div w
           s == x % w
<1>1. x \in Int
  OBVIOUS
<1>2. \A a \in Int, b \in Nat \ {0} :
         a % b \in 0 .. b - 1 /\ a \div b \in Int /\ a = b * (a \div b) + (a % b)
  OBVIOUS
<1> HIDE DEF x
<1>3. s \in 0 .. w - 1 /\ q \in Int /\ x = w * q + s
  BY <1>1, <1>2
<1>4. w * y \in Int /\ w * q \in Int /\ x = w * y + r
  BY <1>3 DEF x
<1>5. \A a, b \in Int : a < b => w * a + w <= w * b
  <2>1. \A a, b \in Int : a < b => w * (b - a) >= w
    OBVIOUS
  <2>2. \A a, b \in Int : w * (b - a) = w * b - w * a /\ w * a \in Int /\ w * b \in Int
    OBVIOUS
  <2>3. QED  BY <2>1, <2>2
<1> HIDE DEF q, s
<1>6. ~(y < q) /\ ~(q < y)
  BY <1>3, <1>4, <1>5
<1>7. y = q
  BY <1>3, <1>6
<1>8. QED  BY <1>3, <1>4, <1>7 DEF s, x

\* A multiple of w changes nothing ...
LEMMA ModPlus ==
    ASSUME NEW w \in Nat \ {0}, NEW x \in Int, NEW y \in Int
    PROVE  (w * y + x) % w = x % w
<1>1. x % w \in 0 .. w - 1 /\ x \div w \in Int /\ x = w * (x \div w) + (x % w)
  OBVIOUS
<1> DEFINE q == x \div w
           r == x % w
<1>2. \A a, b, c \in Int : w * a + (w * b + c) = w * (a + b) + c
  OBVIOUS
<1> HIDE DEF q, r
<1>3. r \in 0 .. w - 1 /\ q \in Int /\ x = w * q + r
  BY <1>1 DEF q, r
<1>4. w * y + x = w * (y + q) + r
  BY <1>2, <1>3
<1>5. (w * (y + q) + r) % w = r
  <2>1. y + q \in Int
    BY <1>3
  <2>2. QED  BY <1>3, <2>1, ModUnique
<1>6. QED  BY <1>4, <1>5 DEF r

\* ... so a summand may be reduced first.
LEMMA ModSum ==
    ASSUME NEW w \in Nat \ {0}, NEW x \in Int, NEW y \in Int
    PROVE  ((x % w) + y) % w = (x + y) % w
<1>1. x % w \in 0 .. w - 1 /\ x \div w \in Int /\ x = w * (x \div w) + (x % w)
  OBVIOUS
<1> DEFINE q == x \div w
           r == x % w
<1> HIDE DEF q, r
<1>2. r \in Int /\ q \in Int /\ x = w * q + r
  BY <1>1 DEF q, r
<1>3. w * q \in Int /\ w * q + (r + y) = x + y
  BY <1>2
<1>4. (w * q + (r + y)) % w = (r + y) % w
  <2>1. r + y \in Int
    BY <1>2
  <2>2. QED  BY <1>2, <2>1, ModPlus
<1>5. QED  BY <1>3, <1>4 DEF r
=============================================================================
