---------------------------- MODULE SumTheorems ----------------------------
(***************************************************************************)
(* Facts about SumFunctionOnSet(f, S), the sum of f[x] over the finite set *)
(* S, which the ledgers of the contracts are compared with: the votes of a *)
(* producer, the vote weight, a token's supply, the unpaid blocks.         *)
(*                                                                         *)
(* The community module defines the sum by recursion on the subsets of S.  *)
(* Its unfolding is captured once, by SumUnique: the recursion's value is  *)
(* that of any function of subsets that is 0 on {} and grows by f[x] when  *)
(* x is added (Additive).  Every other fact exhibits such a function.      *)
(* Inductions over subsets are minimal counterexamples (MinimalSubset).    *)
(***************************************************************************)
EXTENDS Functions, FiniteSetTheorems, TLAPS

Additive(s, f, S) ==
    /\ s \in [SUBSET S -> Int]
    /\ s[{}] = 0
    /\ \A T \in SUBSET S : \A x \in S \ T : s[T \cup {x}] = s[T] + f[x]

(* Among the subsets of a finite set that have a property, one is minimal. *)
LEMMA MinimalSubset ==
    ASSUME NEW S, IsFiniteSet(S), NEW Bad, Bad \subseteq SUBSET S, Bad # {}
    PROVE  \E T \in Bad : \A U \in Bad : U \subseteq T => U = T
<1>1. FiniteSubsetsOf(S) = SUBSET S
  BY FS_FiniteSubsetsOfFinite
<1>2. IsWellFoundedOn(StrictSubsetOrdering(S), SUBSET S)
  BY <1>1, FS_StrictSubsetOrderingWellFounded
<1>3. PICK T \in Bad : \A U \in Bad : ~(<<U, T>> \in StrictSubsetOrdering(S))
  BY <1>2, WFMin
<1>4. QED
  BY <1>3 DEF StrictSubsetOrdering

(* The partial sums of an integer function on a finite set exist. *)
LEMMA AdditiveExists ==
    ASSUME NEW S, IsFiniteSet(S), NEW f \in [S -> Int]
    PROVE  \E s : Additive(s, f, S)
<1> DEFINE Good(T) == \E s : Additive(s, f, T)
           Bad == {T \in SUBSET S : ~Good(T)}
<1> SUFFICES ASSUME Bad # {} PROVE FALSE
  OBVIOUS
<1>1. PICK T \in Bad : \A U \in Bad : U \subseteq T => U = T
  <2> HIDE DEF Good
  <2>1. Bad \subseteq SUBSET S
    OBVIOUS
  <2> HIDE DEF Bad
  <2>2. QED BY <2>1, MinimalSubset
<1>2. CASE T = {}
  <2> DEFINE s == [U \in SUBSET T |-> 0]
  <2>1. Additive(s, f, T)
    BY <1>2 DEF Additive
  <2>2. QED BY <1>1, <2>1
<1>3. CASE T # {}
  <2>1. PICK x \in T : TRUE
    BY <1>3
  <2> DEFINE R == T \ {x}
  <2>2. Good(R)
    BY <1>1, <2>1
  <2>3. PICK r : Additive(r, f, R)
    BY <2>2
  <2> DEFINE s == [U \in SUBSET T |-> IF x \in U THEN r[U \ {x}] + f[x] ELSE r[U]]
  <2>4. /\ r \in [SUBSET R -> Int]
        /\ r[{}] = 0
        /\ \A U \in SUBSET R : \A y \in R \ U : r[U \cup {y}] = r[U] + f[y]
    BY <2>3 DEF Additive
  <2>5. \A y \in T : f[y] \in Int
    BY <1>1
  <2> HIDE DEF Good
  <2>6. s \in [SUBSET T -> Int]
    <3>1. \A U \in SUBSET T : (U \ {x}) \in SUBSET R
      OBVIOUS
    <3>2. \A U \in SUBSET T : x \notin U => U \in SUBSET R
      OBVIOUS
    <3> HIDE DEF R
    <3> QED BY <2>1, <2>4, <2>5, <3>1, <3>2
  <2>7. s[{}] = 0
    BY <2>4
  <2>8. ASSUME NEW U \in SUBSET T, NEW y \in T \ U
        PROVE  s[U \cup {y}] = s[U] + f[y]
    <3>1. CASE y = x
      <4>1. (U \cup {y}) \ {x} = U
        BY <3>1, <2>8
      <4>2. QED BY <3>1, <4>1, <2>1
    <3>2. CASE y # x /\ x \in U
      <4>1. (U \cup {y}) \ {x} = (U \ {x}) \cup {y}
        BY <3>2
      <4>2. (U \ {x}) \in SUBSET R /\ y \in R \ (U \ {x})
        BY <3>2
      <4>3. r[(U \ {x}) \cup {y}] = r[U \ {x}] + f[y]
        BY <4>2, <2>4
      <4>4. s[U \cup {y}] = r[(U \ {x}) \cup {y}] + f[x]
        BY <4>1, <3>2
      <4>5. s[U] = r[U \ {x}] + f[x]
        BY <3>2
      <4>6. r[U \ {x}] \in Int /\ f[x] \in Int /\ f[y] \in Int
        BY <4>2, <2>4, <2>5
      <4>7. QED BY <4>3, <4>4, <4>5, <4>6
    <3>3. CASE y # x /\ x \notin U
      <4>1. U \in SUBSET R /\ y \in R \ U
        BY <3>3
      <4>2. QED BY <4>1, <3>3, <2>4
    <3>4. QED BY <3>1, <3>2, <3>3
  <2>9. Additive(s, f, T)
    <3> HIDE DEF s
    <3> QED BY <2>6, <2>7, <2>8 DEF Additive
  <2>10. QED
    <3>1. Good(T)
      BY <2>9 DEF Good
    <3>2. QED BY <3>1, <1>1
<1>4. QED BY <1>2, <1>3

(* The sum of the community module is the last of the partial sums. *)
LEMMA SumUnique ==
    ASSUME NEW S, IsFiniteSet(S), NEW f \in [S -> Int], NEW s, Additive(s, f, S)
    PROVE  SumFunctionOnSet(f, S) = s[S]
<1> DEFINE pick(T) == CHOOSE x \in T : TRUE
           Body(g) == [T \in SUBSET S |->
                          IF T = {} THEN 0 ELSE f[pick(T)] + g[T \ {pick(T)}]]
           iter == CHOOSE g : g = Body(g)
<1>1. SumFunctionOnSet(f, S) = iter[S]
  BY DEF SumFunctionOnSet, FoldFunctionOnSet, MapThenFoldSet
<1>2. \A T \in SUBSET S : T # {} => pick(T) \in T
  OBVIOUS
<1> HIDE DEF pick
<1>3. /\ s \in [SUBSET S -> Int]
      /\ s[{}] = 0
      /\ \A T \in SUBSET S : \A x \in S \ T : s[T \cup {x}] = s[T] + f[x]
  BY DEF Additive
<1>4. ASSUME NEW T \in SUBSET S, T # {}
      PROVE  s[T] = f[pick(T)] + s[T \ {pick(T)}]
  <2>1. pick(T) \in T
    BY <1>2, <1>4
  <2>2. /\ T \ {pick(T)} \in SUBSET S
        /\ pick(T) \in S \ (T \ {pick(T)})
        /\ (T \ {pick(T)}) \cup {pick(T)} = T
    BY <2>1
  <2>3. s[T] = s[T \ {pick(T)}] + f[pick(T)]
    BY <2>2, <1>3
  <2>4. s[T \ {pick(T)}] \in Int /\ f[pick(T)] \in Int
    BY <2>2, <1>3
  <2>5. QED
    BY <2>3, <2>4
<1>5. s = Body(s)
  BY <1>3, <1>4
<1>6. iter = Body(iter)
  <2> HIDE DEF Body
  <2>1. QED
    BY <1>5
<1>7. ASSUME NEW T \in SUBSET S
      PROVE  iter[T] = IF T = {} THEN 0 ELSE f[pick(T)] + iter[T \ {pick(T)}]
  <2> HIDE DEF iter
  <2>1. QED
    BY <1>6
<1> HIDE DEF Body, iter
<1> DEFINE Bad == {T \in SUBSET S : iter[T] # s[T]}
<1>8. Bad = {}
  <2> SUFFICES ASSUME Bad # {} PROVE FALSE
    OBVIOUS
  <2>1. PICK T \in Bad : \A U \in Bad : U \subseteq T => U = T
    <3>1. Bad \subseteq SUBSET S
      OBVIOUS
    <3> HIDE DEF Bad
    <3>2. QED
      BY <3>1, MinimalSubset
  <2>2. T # {}
    BY <2>1, <1>3, <1>7
  <2>3. pick(T) \in T /\ T \ {pick(T)} \in SUBSET S
    BY <2>2, <1>2
  <2>4. T \ {pick(T)} \notin Bad
    BY <2>1, <2>3
  <2>5. iter[T \ {pick(T)}] = s[T \ {pick(T)}]
    BY <2>3, <2>4
  <2>6. iter[T] = s[T]
    BY <2>2, <2>5, <1>4, <1>7
  <2>7. QED
    BY <2>1, <2>6
<1>9. QED
  BY <1>1, <1>8

(* What the other lemmas use: the partial sums, and that the last is the sum. *)
LEMMA PartialSums ==
    ASSUME NEW S, IsFiniteSet(S), NEW f \in [S -> Int]
    PROVE  \E s : /\ s \in [SUBSET S -> Int]
                  /\ s[{}] = 0
                  /\ \A T \in SUBSET S : \A y \in S \ T : s[T \cup {y}] = s[T] + f[y]
                  /\ SumFunctionOnSet(f, S) = s[S]
<1>1. PICK s : Additive(s, f, S)
  BY AdditiveExists
<1>2. SumFunctionOnSet(f, S) = s[S]
  BY <1>1, SumUnique
<1>3. QED
  BY <1>1, <1>2 DEF Additive

(* A sum of integers is an integer. *)
LEMMA SumInt ==
    ASSUME NEW S, IsFiniteSet(S), NEW f \in [S -> Int]
    PROVE  SumFunctionOnSet(f, S) \in Int
<1>1. PICK s : /\ s \in [SUBSET S -> Int]
               /\ SumFunctionOnSet(f, S) = s[S]
  BY PartialSums
<1>2. s[S] \in Int
  BY <1>1
<1>3. QED
  BY <1>1, <1>2

(* A sum of zeros is zero. *)
LEMMA SumZero ==
    ASSUME NEW S, IsFiniteSet(S), NEW f \in [S -> Int], \A x \in S : f[x] = 0
    PROVE  SumFunctionOnSet(f, S) = 0
<1> DEFINE s == [T \in SUBSET S |-> 0]
<1>1. Additive(s, f, S)
  BY DEF Additive
<1>2. SumFunctionOnSet(f, S) = s[S]
  <2> HIDE DEF s
  <2>1. QED
    BY <1>1, SumUnique
<1>3. QED
  BY <1>2

(* Two functions that differ at x only have sums that differ as they do at x. *)
LEMMA SumChangeOne ==
    ASSUME NEW S, IsFiniteSet(S), NEW f \in [S -> Int], NEW g \in [S -> Int], NEW x \in S,
           \A y \in S : y # x => g[y] = f[y]
    PROVE  SumFunctionOnSet(g, S) = SumFunctionOnSet(f, S) - f[x] + g[x]
<1>1. PICK s : /\ s \in [SUBSET S -> Int]
               /\ s[{}] = 0
               /\ \A T \in SUBSET S : \A y \in S \ T : s[T \cup {y}] = s[T] + f[y]
               /\ SumFunctionOnSet(f, S) = s[S]
  BY PartialSums
<1>2. g[x] \in Int
  OBVIOUS
<1> DEFINE r == [T \in SUBSET S |-> IF x \in T THEN s[T] - f[x] + g[x] ELSE s[T]]
<1>3. Additive(r, g, S)
  <2>1. r \in [SUBSET S -> Int] /\ r[{}] = 0
    BY <1>1
  <2>2. ASSUME NEW T \in SUBSET S, NEW y \in S \ T
        PROVE  r[T \cup {y}] = r[T] + g[y]
    <3>1. s[T \cup {y}] = s[T] + f[y]
      BY <1>1
    <3>2. s[T] \in Int /\ f[y] \in Int /\ f[x] \in Int
      BY <1>1
    <3>3. CASE y = x
      BY <3>1, <3>2, <3>3, <1>2
    <3>4. CASE y # x /\ x \in T
      BY <3>1, <3>2, <3>4, <1>2
    <3>5. CASE y # x /\ x \notin T
      BY <3>1, <3>2, <3>5, <1>2
    <3>6. QED
      BY <3>3, <3>4, <3>5
  <2> HIDE DEF r
  <2>3. QED
    BY <2>1, <2>2 DEF Additive
<1>4. SumFunctionOnSet(g, S) = r[S]
  <2> HIDE DEF r
  <2>1. QED
    BY <1>2, <1>3, SumUnique
<1>5. QED
  BY <1>1, <1>4

(* The sum of the pointwise sums of two functions is the sum of their sums. *)
LEMMA SumPlus ==
    ASSUME NEW S, IsFiniteSet(S), NEW f \in [S -> Int], NEW g \in [S -> Int]
    PROVE  SumFunctionOnSet([x \in S |-> f[x] + g[x]], S)
             = SumFunctionOnSet(f, S) + SumFunctionOnSet(g, S)
<1> DEFINE h == [x \in S |-> f[x] + g[x]]
<1>1. PICK s : /\ s \in [SUBSET S -> Int]
               /\ s[{}] = 0
               /\ \A T \in SUBSET S : \A y \in S \ T : s[T \cup {y}] = s[T] + f[y]
               /\ SumFunctionOnSet(f, S) = s[S]
  BY PartialSums
<1>2. PICK r : /\ r \in [SUBSET S -> Int]
               /\ r[{}] = 0
               /\ \A T \in SUBSET S : \A y \in S \ T : r[T \cup {y}] = r[T] + g[y]
               /\ SumFunctionOnSet(g, S) = r[S]
  BY PartialSums
<1>3. h \in [S -> Int] /\ \A y \in S : h[y] = f[y] + g[y]
  OBVIOUS
<1> DEFINE t == [T \in SUBSET S |-> s[T] + r[T]]
<1> HIDE DEF h
<1>4. Additive(t, h, S)
  <2>1. t \in [SUBSET S -> Int] /\ t[{}] = 0
    BY <1>1, <1>2
  <2>2. ASSUME NEW T \in SUBSET S, NEW y \in S \ T
        PROVE  t[T \cup {y}] = t[T] + h[y]
    <3>1. s[T] \in Int /\ r[T] \in Int /\ f[y] \in Int /\ g[y] \in Int
      BY <1>1, <1>2
    <3>2. s[T \cup {y}] = s[T] + f[y] /\ r[T \cup {y}] = r[T] + g[y]
      BY <1>1, <1>2
    <3>3. QED
      BY <3>1, <3>2, <1>3
  <2> HIDE DEF t
  <2>3. QED
    BY <2>1, <2>2 DEF Additive
<1>5. SumFunctionOnSet(h, S) = t[S]
  <2> HIDE DEF t
  <2>1. QED
    BY <1>3, <1>4, SumUnique
<1>6. QED
  BY <1>1, <1>2, <1>5 DEF h

(* A sum of naturals is a natural. *)
LEMMA SumNat ==
    ASSUME NEW S, IsFiniteSet(S), NEW f \in [S -> Nat]
    PROVE  SumFunctionOnSet(f, S) \in Nat
<1>0. f \in [S -> Int]
  OBVIOUS
<1>1. PICK s : /\ s \in [SUBSET S -> Int]
               /\ s[{}] = 0
               /\ \A T \in SUBSET S : \A y \in S \ T : s[T \cup {y}] = s[T] + f[y]
               /\ SumFunctionOnSet(f, S) = s[S]
  BY <1>0, PartialSums
<1> DEFINE Bad == {T \in SUBSET S : s[T] \notin Nat}
<1>2. Bad = {}
  <2> SUFFICES ASSUME Bad # {} PROVE FALSE
    OBVIOUS
  <2>1. PICK T \in Bad : \A U \in Bad : U \subseteq T => U = T
    <3>1. Bad \subseteq SUBSET S
      OBVIOUS
    <3> HIDE DEF Bad
    <3>2. QED
      BY <3>1, MinimalSubset
  <2>2. PICK x \in T : TRUE
    <3>1. s[T] \notin Nat
      BY <2>1
    <3>2. s[{}] \in Nat
      BY <1>1
    <3>3. T # {}
      BY <3>1, <3>2
    <3>4. QED
      BY <3>3
  <2>3. /\ T \ {x} \in SUBSET S
        /\ x \in S \ (T \ {x})
        /\ (T \ {x}) \cup {x} = T
    BY <2>1, <2>2
  <2>4. s[T \ {x}] \in Nat
    BY <2>1, <2>2, <2>3
  <2>5. s[T] = s[T \ {x}] + f[x]
    BY <2>3, <1>1
  <2>6. f[x] \in Nat
    BY <2>3
  <2>7. s[T] \in Nat
    BY <2>4, <2>5, <2>6
  <2>8. QED
    BY <2>1, <2>7
<1>3. s[S] \in Nat
  BY <1>2
<1>4. QED
  BY <1>1, <1>3

(* No summand of a sum of naturals exceeds the sum. *)
LEMMA SumBoundsSummand ==
    ASSUME NEW S, IsFiniteSet(S), NEW f \in [S -> Nat], NEW x \in S
    PROVE  f[x] <= SumFunctionOnSet(f, S)
<1>1. f \in [S -> Int] /\ f[x] \in Nat
  OBVIOUS
<1>2. PICK g \in [S -> Nat] : g[x] = 0 /\ \A y \in S : y # x => g[y] = f[y]
  <2>1. [f EXCEPT ![x] = 0] \in [S -> Nat]
    OBVIOUS
  <2>2. QED
    BY <2>1
<1>3. SumFunctionOnSet(g, S) = SumFunctionOnSet(f, S) - f[x] + g[x]
  <2>1. g \in [S -> Int]
    OBVIOUS
  <2>2. QED
    BY <1>1, <1>2, <2>1, SumChangeOne
<1>4. SumFunctionOnSet(g, S) \in Nat
  BY SumNat
<1>5. SumFunctionOnSet(f, S) \in Int
  BY <1>1, SumInt
<1>6. QED
  BY <1>1, <1>2, <1>3, <1>4, <1>5

(* ... and two of them do together. *)
LEMMA SumBoundsTwo ==
    ASSUME NEW S, IsFiniteSet(S), NEW f \in [S -> Nat], NEW x \in S, NEW y \in S, x # y
    PROVE  f[x] + f[y] <= SumFunctionOnSet(f, S)
<1>1. f \in [S -> Int] /\ f[x] \in Nat /\ f[y] \in Nat
  OBVIOUS
<1>2. PICK g \in [S -> Nat] : g[x] = 0 /\ \A z \in S : z # x => g[z] = f[z]
  <2>1. [f EXCEPT ![x] = 0] \in [S -> Nat]
    OBVIOUS
  <2>2. QED
    BY <2>1
<1>3. SumFunctionOnSet(g, S) = SumFunctionOnSet(f, S) - f[x] + g[x]
  <2>1. g \in [S -> Int]
    OBVIOUS
  <2>2. QED
    BY <1>1, <1>2, <2>1, SumChangeOne
<1>4. f[y] <= SumFunctionOnSet(g, S)
  <2>1. g[y] = f[y]
    BY <1>2
  <2>2. QED
    BY <2>1, SumBoundsSummand
<1>5. SumFunctionOnSet(f, S) \in Int /\ SumFunctionOnSet(g, S) \in Nat
  BY <1>1, SumInt, SumNat
<1>6. QED
  BY <1>1, <1>2, <1>3, <1>4, <1>5

(* A function that is 0 but at one point sums to its value there. *)
LEMMA SumSingle ==
    ASSUME NEW S, IsFiniteSet(S), NEW f \in [S -> Int], NEW x,
           \A y \in S : y # x => f[y] = 0
    PROVE  SumFunctionOnSet(f, S) = IF x \in S THEN f[x] ELSE 0
<1>1. CASE x \notin S
  <2>1. \A y \in S : f[y] = 0
    BY <1>1
  <2>2. SumFunctionOnSet(f, S) = 0
    BY <2>1, SumZero
  <2>3. QED
    BY <1>1, <2>2
<1>2. CASE x \in S
  <2>1. PICK z \in [S -> Int] : \A y \in S : z[y] = 0
    <3>1. [y \in S |-> 0] \in [S -> Int]
      OBVIOUS
    <3>2. QED
      BY <3>1
  <2>2. SumFunctionOnSet(z, S) = 0
    BY <2>1, SumZero
  <2>3. \A y \in S : y # x => f[y] = z[y]
    BY <2>1
  <2>4. SumFunctionOnSet(f, S) = SumFunctionOnSet(z, S) - z[x] + f[x]
    BY <1>2, <2>3, SumChangeOne
  <2>5. z[x] = 0 /\ f[x] \in Int
    BY <1>2, <2>1
  <2>6. QED
    BY <1>2, <2>2, <2>4, <2>5
<1>3. QED
  BY <1>1, <1>2

=============================================================================
