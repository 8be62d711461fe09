----------------------------- MODULE SetLemmas ------------------------------
(* Facts about sets of natural numbers and about sums that the proofs      *)
(* need.  What is said of every finite set is proved from a set that has   *)
(* no smaller counterexample.                                              *)
EXTENDS Integers, Sequences, FiniteSetTheorems, TLAPS

(* A set of naturals that is not empty has a least element.                *)
LEMMA Smallest ==
  ASSUME NEW T \in SUBSET Nat, T # {}
  PROVE \E m \in T : \A k \in T : m <= k
<1> DEFINE I == {0 .. n : n \in T}
<1>1. IsWellFoundedOn(StrictSubsetOrdering(Nat), FiniteSubsetsOf(Nat))
  BY FS_StrictSubsetOrderingWellFounded
<1>2. I \subseteq FiniteSubsetsOf(Nat) /\ I # {}
  <2>1. ASSUME NEW n \in T PROVE 0 .. n \in FiniteSubsetsOf(Nat)
    <3>1. n \in Int /\ 0 \in Int OBVIOUS
    <3>2. IsFiniteSet(0 .. n) BY <3>1, FS_Interval
    <3>3. 0 .. n \in SUBSET Nat OBVIOUS
    <3> QED BY <3>2, <3>3 DEF FiniteSubsetsOf
  <2> QED BY <2>1
<1>3. PICK x \in I : \A y \in I : ~(<<y, x>> \in StrictSubsetOrdering(Nat))
  <2> HIDE DEF I
  <2> QED BY <1>1, <1>2, WFMin
<1>4. PICK m \in T : x = 0 .. m
  OBVIOUS
<1>5. ASSUME NEW k \in T, ~(m <= k) PROVE FALSE
  <2>1. 0 .. k \subseteq 0 .. m /\ 0 .. k # 0 .. m
    <3>1. m \in 0 .. m /\ m \notin 0 .. k BY <1>5
    <3>2. 0 .. k \subseteq 0 .. m BY <1>5
    <3> QED BY <3>1, <3>2
  <2>2. <<0 .. k, 0 .. m>> \in StrictSubsetOrdering(Nat)
    BY <2>1 DEF StrictSubsetOrdering
  <2> QED BY <1>3, <1>4, <2>2
<1> QED BY <1>5

(* A set of numbers up to N that is not empty has a greatest element.      *)
LEMMA Greatest ==
  ASSUME NEW N \in Nat, NEW T \in SUBSET (1 .. N), T # {}
  PROVE  \E m \in T : \A k \in T : k <= m
<1> DEFINE U == {N - i : i \in T}
<1>1. U \in SUBSET Nat /\ U # {}
  <2>1. \A i \in T : N - i \in Nat OBVIOUS
  <2>2. U \subseteq Nat BY <2>1
  <2>3. U # {} OBVIOUS
  <2> QED BY <2>2, <2>3
<1>2. PICK u \in U : \A w \in U : u <= w
  <2> HIDE DEF U
  <2> QED BY <1>1, Smallest
<1>3. PICK m \in T : u = N - m
  OBVIOUS
<1>4. ASSUME NEW k \in T PROVE k <= m
  <2>1. N - m <= N - k
    <3>1. N - k \in U OBVIOUS
    <3> HIDE DEF U
    <3> QED BY <3>1, <1>2, <1>3
  <2>2. k \in Nat /\ m \in Nat OBVIOUS
  <2> HIDE DEF U
  <2> QED BY <2>1, <2>2
<1> QED BY <1>4

(* The elements of a set of numbers up to N can be listed in increasing    *)
(* order: the choice in InOrder of KvClient always exists.                 *)
LEMMA InOrderExists ==
  ASSUME NEW N \in Nat
  PROVE \A P \in SUBSET (1 .. N) : \E f \in [1 .. Cardinality(P) -> P] :
          /\ \A a, b \in 1 .. Cardinality(P) : a < b => f[a] < f[b]
          /\ \A i \in P : \E a \in 1 .. Cardinality(P) : f[a] = i
<1> DEFINE Enum(P) == \E f \in [1 .. Cardinality(P) -> P] :
          /\ \A a, b \in 1 .. Cardinality(P) : a < b => f[a] < f[b]
          /\ \A i \in P : \E a \in 1 .. Cardinality(P) : f[a] = i
          Bad == {n \in Nat : \E P \in SUBSET (1 .. n) : ~Enum(P)}
<1> SUFFICES ASSUME Bad # {} PROVE FALSE
  OBVIOUS
<1>1. PICK n \in Bad : \A k \in Bad : n <= k
  <2> HIDE DEF Bad
  <2>1. Bad \in SUBSET Nat BY DEF Bad
  <2> QED BY <2>1, Smallest
<1>a. n \in Nat /\ \A k \in Nat : k < n => k \notin Bad
  <2>1. n \in Nat OBVIOUS
  <2>2. ASSUME NEW k \in Nat, k < n, k \in Bad PROVE FALSE
    <3> HIDE DEF Bad
    <3>1. n <= k BY <1>1, <2>2
    <3> QED BY <3>1, <2>1, <2>2
  <2> QED BY <2>1, <2>2
<1>2. PICK P \in SUBSET (1 .. n) : ~Enum(P)
  OBVIOUS
<1>3. n \in P
  <2>1. SUFFICES ASSUME n \notin P PROVE FALSE OBVIOUS
  <2>2. CASE n = 0
    <3>1. P = {} BY <2>2
    <3>2. Cardinality(P) = 0 BY <3>1, FS_EmptySet
    <3>3. Enum(P)
      <4>1. [a \in 1 .. 0 |-> a] \in [1 .. Cardinality(P) -> P] BY <3>1, <3>2
      <4> QED BY <4>1, <3>1, <3>2
    <3> QED BY <3>3, <1>2
  <2>3. CASE n # 0
    <3>1. P \in SUBSET (1 .. (n - 1)) BY <2>1, <1>a
    <3>2. n - 1 \in Nat BY <2>3, <1>a
    <3>3. n - 1 \in Bad BY <3>1, <3>2, <1>2
    <3>4. n - 1 < n BY <1>a
    <3> HIDE DEF Bad
    <3> QED BY <3>2, <3>3, <3>4, <1>a
  <2> QED BY <2>2, <2>3
<1> DEFINE Q == P \ {n}
<1>4. n - 1 \in Nat /\ Q \in SUBSET (1 .. (n - 1))
  BY <1>3, <1>a
<1>5. Enum(Q)
  <2>1. n - 1 \notin Bad
    <3>1. n - 1 < n BY <1>a
    <3> HIDE DEF Bad
    <3> QED BY <1>a, <1>4, <3>1
  <2> QED BY <1>4, <2>1
<1>6. IsFiniteSet(P)
  <2>1. n \in Int /\ 1 \in Int BY <1>a
  <2>2. IsFiniteSet(1 .. n) BY <2>1, FS_Interval
  <2> QED BY <2>2, FS_Subset
<1> DEFINE c == Cardinality(P)
<1>7. c \in Nat /\ c >= 1 /\ Cardinality(Q) = c - 1
  <2>1. c \in Nat BY <1>6, FS_CardinalityType
  <2>2. Cardinality(Q) = c - 1 /\ IsFiniteSet(Q) BY <1>6, <1>3, FS_RemoveElement
  <2>3. Cardinality(Q) \in Nat BY <2>2, FS_CardinalityType
  <2> QED BY <2>1, <2>2, <2>3
<1> HIDE DEF c
<1>8. PICK g \in [1 .. (c - 1) -> Q] :
        /\ \A a, b \in 1 .. (c - 1) : a < b => g[a] < g[b]
        /\ \A i \in Q : \E a \in 1 .. (c - 1) : g[a] = i
  BY <1>5, <1>7
<1> DEFINE f == [a \in 1 .. c |-> IF a = c THEN n ELSE g[a]]
<1>9. f \in [1 .. c -> P]
  BY <1>3, <1>7, <1>8
<1>10. \A a, b \in 1 .. c : a < b => f[a] < f[b]
  <2>1. \A a \in 1 .. (c - 1) : g[a] \in 1 .. (n - 1) BY <1>4, <1>8
  <2> QED BY <1>7, <1>8, <2>1
<1>11. \A i \in P : \E a \in 1 .. c : f[a] = i
  BY <1>7, <1>8
<1> QED BY <1>2, <1>9, <1>10, <1>11 DEF c

(* A set that is numbered by another has as many elements.                 *)
LEMMA SameCardinality ==
  ASSUME NEW S, IsFiniteSet(S), NEW T, NEW f \in [S -> T],
         \A x, y \in S : f[x] = f[y] => x = y,
         \A t \in T : \E x \in S : f[x] = t
  PROVE  IsFiniteSet(T) /\ Cardinality(T) = Cardinality(S)
<1>1. f \in Bijection(S, T)
  BY DEF Bijection, Injection, Surjection, IsInjective
<1> QED BY <1>1, FS_Bijection DEF ExistsBijection

-----------------------------------------------------------------------------
(* Sums: SumFunctionOnSet is a fold, and a fold a recursive function.      *)

(* A set of subsets of a finite set has one that contains no other.        *)
LEMMA MinimalSubset ==
  ASSUME NEW S, IsFiniteSet(S), NEW B \in SUBSET (SUBSET S), B # {}
  PROVE  \E T \in B : \A U \in B : U \subseteq T => U = T
<1>1. IsWellFoundedOn(StrictSubsetOrdering(S), FiniteSubsetsOf(S))
  BY FS_StrictSubsetOrderingWellFounded
<1>2. B \subseteq FiniteSubsetsOf(S)
  BY FS_FiniteSubsetsOfFinite
<1>3. PICK T \in B : \A U \in B : ~(<<U, T>> \in StrictSubsetOrdering(S))
  BY <1>1, <1>2, WFMin
<1> QED BY <1>3 DEF StrictSubsetOrdering

(* The equation that defines the fold of SumFunctionOnSet.                 *)
Pick(s) == CHOOSE x \in s : TRUE
SumsUp(g, f, S) ==
  g = [s \in SUBSET S |-> IF s = {} THEN 0 ELSE f[Pick(s)] + g[s \ {Pick(s)}]]
Summing(f, S) == CHOOSE g : SumsUp(g, f, S)

LEMMA SumIsFold ==
  ASSUME NEW f, NEW S
  PROVE  SumFunctionOnSet(f, S) = Summing(f, S)[S]
BY DEF SumFunctionOnSet, FoldFunctionOnSet, MapThenFoldSet, Summing, SumsUp, Pick

LEMMA PickType ==
  ASSUME NEW s, s # {} PROVE Pick(s) \in s
BY DEF Pick

LEMMA SumsUpValue ==
  ASSUME NEW g, NEW f, NEW S, SumsUp(g, f, S), NEW s \in SUBSET S
  PROVE  g[s] = IF s = {} THEN 0 ELSE f[Pick(s)] + g[s \ {Pick(s)}]
<1> DEFINE h == [x \in SUBSET S |-> IF x = {} THEN 0 ELSE f[Pick(x)] + g[x \ {Pick(x)}]]
<1>1. g = h BY DEF SumsUp
<1>2. h[s] = IF s = {} THEN 0 ELSE f[Pick(s)] + g[s \ {Pick(s)}] OBVIOUS
<1> HIDE DEF h
<1> QED BY <1>1, <1>2

LEMMA SumsUpAgree ==
  ASSUME NEW f, NEW S, IsFiniteSet(S), NEW T \in SUBSET S,
         NEW g, SumsUp(g, f, S), NEW h, SumsUp(h, f, T)
  PROVE  g[T] = h[T]
<1> DEFINE Bad == {s \in SUBSET T : g[s] # h[s]}
<1> SUFFICES ASSUME Bad # {} PROVE FALSE
  OBVIOUS
<1>1. PICK s \in Bad : \A u \in Bad : u \subseteq s => u = s
  <2>1. Bad \in SUBSET (SUBSET S) OBVIOUS
  <2> HIDE DEF Bad
  <2> QED BY <2>1, MinimalSubset
<1>2. s \in SUBSET T /\ s \in SUBSET S /\ g[s] # h[s]
  OBVIOUS
<1>3. /\ g[s] = IF s = {} THEN 0 ELSE f[Pick(s)] + g[s \ {Pick(s)}]
      /\ h[s] = IF s = {} THEN 0 ELSE f[Pick(s)] + h[s \ {Pick(s)}]
  BY <1>2, SumsUpValue
<1>4. s # {} /\ g[s \ {Pick(s)}] # h[s \ {Pick(s)}]
  BY <1>2, <1>3
<1>5. s \ {Pick(s)} \in Bad /\ s \ {Pick(s)} # s
  BY <1>2, <1>4, PickType
<1> HIDE DEF Bad
<1> QED BY <1>1, <1>5

LEMMA SumsUpExists ==
  ASSUME NEW f, NEW S, IsFiniteSet(S)
  PROVE  SumsUp(Summing(f, S), f, S)
<1> DEFINE Bad == {T \in SUBSET S : ~\E g : SumsUp(g, f, T)}
<1> SUFFICES ASSUME Bad # {} PROVE FALSE
  BY DEF Summing
<1>1. PICK T \in Bad : \A U \in Bad : U \subseteq T => U = T
  <2>1. Bad \in SUBSET (SUBSET S) OBVIOUS
  <2> HIDE DEF Bad
  <2> QED BY <2>1, MinimalSubset
<1>2. T \in SUBSET S /\ ~\E g : SumsUp(g, f, T)
  OBVIOUS
<1>3. \A U \in SUBSET T : U # T => SumsUp(Summing(f, U), f, U)
  <2> SUFFICES ASSUME NEW U \in SUBSET T, U # T PROVE SumsUp(Summing(f, U), f, U)
    OBVIOUS
  <2>1. U \notin Bad
    <3> HIDE DEF Bad
    <3> QED BY <1>1
  <2>2. \E g : SumsUp(g, f, U) BY <1>2, <2>1
  <2> QED BY <2>2 DEF Summing
<1> DEFINE val(s) == IF s = T
                     THEN IF T = {} THEN 0 ELSE f[Pick(T)] + Summing(f, T \ {Pick(T)})[T \ {Pick(T)}]
                     ELSE Summing(f, s)[s]
           h == [s \in SUBSET T |-> val(s)]
<1>4. ASSUME NEW s \in SUBSET T
      PROVE  val(s) = IF s = {} THEN 0 ELSE f[Pick(s)] + h[s \ {Pick(s)}]
  <2>1. s # {} => s \ {Pick(s)} \in SUBSET T /\ s \ {Pick(s)} # T /\ s \ {Pick(s)} # s
    BY PickType
  <2>2. s # {} => h[s \ {Pick(s)}] = Summing(f, s \ {Pick(s)})[s \ {Pick(s)}]
    BY <2>1
  <2>3. CASE s = T
    BY <2>2, <2>3
  <2>4. CASE s # T /\ s = {}
    <3>1. Summing(f, s)[s] = 0 BY <1>3, <2>4, SumsUpValue
    <3> QED BY <2>4, <3>1
  <2>5. CASE s # T /\ s # {}
    <3> DEFINE u == s \ {Pick(s)}
    <3>1. SumsUp(Summing(f, s), f, s) /\ SumsUp(Summing(f, u), f, u)
      BY <1>3, <2>1, <2>5
    <3>2. IsFiniteSet(s) BY <1>2, FS_Subset
    <3>3. Summing(f, s)[u] = Summing(f, u)[u]
      BY <3>1, <3>2, SumsUpAgree
    <3>4. Summing(f, s)[s] = f[Pick(s)] + Summing(f, s)[u]
      BY <2>5, <3>1, SumsUpValue
    <3> QED BY <2>2, <2>5, <3>3, <3>4
  <2> QED BY <2>3, <2>4, <2>5
<1>5. SumsUp(h, f, T)
  BY <1>4 DEF SumsUp
<1> QED BY <1>2, <1>5

(* The sum over no index, and over one index more.                         *)
LEMMA SumPicked ==
  ASSUME NEW f, NEW S, IsFiniteSet(S)
  PROVE  SumFunctionOnSet(f, S) =
           IF S = {} THEN 0 ELSE f[Pick(S)] + SumFunctionOnSet(f, S \ {Pick(S)})
<1> DEFINE T == S \ {Pick(S)}
<1>1. SumsUp(Summing(f, S), f, S)
  BY SumsUpExists
<1>2. Summing(f, S)[S] = IF S = {} THEN 0 ELSE f[Pick(S)] + Summing(f, S)[T]
  BY <1>1, SumsUpValue
<1>3. IsFiniteSet(T) BY FS_Subset
<1>4. SumsUp(Summing(f, T), f, T) BY <1>3, SumsUpExists
<1>5. Summing(f, S)[T] = Summing(f, T)[T]
  BY <1>1, <1>4, SumsUpAgree
<1> QED BY <1>2, <1>5, SumIsFold

LEMMA SumEmpty == \A f : SumFunctionOnSet(f, {}) = 0
BY SumPicked, FS_EmptySet

LEMMA SumInt ==
  ASSUME NEW f, NEW S, IsFiniteSet(S), \A x \in S : f[x] \in Int
  PROVE  SumFunctionOnSet(f, S) \in Int
<1> DEFINE Bad == {T \in SUBSET S : SumFunctionOnSet(f, T) \notin Int}
<1> SUFFICES ASSUME Bad # {} PROVE FALSE
  OBVIOUS
<1>1. PICK T \in Bad : \A U \in Bad : U \subseteq T => U = T
  <2>1. Bad \in SUBSET (SUBSET S) OBVIOUS
  <2> HIDE DEF Bad
  <2> QED BY <2>1, MinimalSubset
<1>2. T \in SUBSET S /\ SumFunctionOnSet(f, T) \notin Int /\ IsFiniteSet(T)
  BY FS_Subset
<1>3. T # {} /\ Pick(T) \in T
  BY <1>2, SumEmpty, PickType
<1>4. T \ {Pick(T)} \notin Bad
  <2>1. T \ {Pick(T)} \subseteq T /\ T \ {Pick(T)} # T BY <1>3
  <2> HIDE DEF Bad
  <2> QED BY <1>1, <2>1
<1>5. SumFunctionOnSet(f, T \ {Pick(T)}) \in Int
  BY <1>2, <1>4
<1>6. SumFunctionOnSet(f, T) = f[Pick(T)] + SumFunctionOnSet(f, T \ {Pick(T)})
  BY <1>2, <1>3, SumPicked
<1>7. f[Pick(T)] \in Int BY <1>2, <1>3
<1> QED BY <1>2, <1>5, <1>6, <1>7

(* A sum is that of any one of its members and the rest.                   *)
LEMMA SumTake ==
  ASSUME NEW f, NEW S, IsFiniteSet(S), \A x \in S : f[x] \in Int, NEW x \in S
  PROVE  SumFunctionOnSet(f, S) = f[x] + SumFunctionOnSet(f, S \ {x})
<1> DEFINE Bad == {T \in SUBSET S : \E y \in T :
                     SumFunctionOnSet(f, T) # f[y] + SumFunctionOnSet(f, T \ {y})}
<1> SUFFICES ASSUME Bad # {} PROVE FALSE
  OBVIOUS
<1>1. PICK T \in Bad : \A U \in Bad : U \subseteq T => U = T
  <2>1. Bad \in SUBSET (SUBSET S) OBVIOUS
  <2> HIDE DEF Bad
  <2> QED BY <2>1, MinimalSubset
<1>2. PICK y \in T : SumFunctionOnSet(f, T) # f[y] + SumFunctionOnSet(f, T \ {y})
  OBVIOUS
<1>3. PICK p : p = Pick(T)
  OBVIOUS
<1>4. p \in T /\ T \in SUBSET S /\ f[p] \in Int /\ f[y] \in Int
  BY <1>2, <1>3, PickType
<1>5. SumFunctionOnSet(f, T) = f[p] + SumFunctionOnSet(f, T \ {p})
  <2>1. IsFiniteSet(T) BY <1>4, FS_Subset
  <2> QED BY <1>3, <1>4, <2>1, SumPicked
<1>6. p # y
  BY <1>2, <1>5
<1>7. T \ {p} \notin Bad /\ T \ {y} \notin Bad
  <2>1. /\ T \ {p} \subseteq T /\ T \ {p} # T
        /\ T \ {y} \subseteq T /\ T \ {y} # T
    BY <1>4
  <2> HIDE DEF Bad
  <2> QED BY <1>1, <2>1
<1>8. SumFunctionOnSet(f, T \ {p}) = f[y] + SumFunctionOnSet(f, (T \ {p}) \ {y})
  BY <1>4, <1>6, <1>7
<1>9. SumFunctionOnSet(f, T \ {y}) = f[p] + SumFunctionOnSet(f, (T \ {y}) \ {p})
  BY <1>4, <1>6, <1>7
<1>10. (T \ {y}) \ {p} = (T \ {p}) \ {y}
  OBVIOUS
<1>11. SumFunctionOnSet(f, (T \ {p}) \ {y}) \in Int
  <2>1. IsFiniteSet((T \ {p}) \ {y}) BY <1>4, FS_Subset
  <2>2. \A z \in (T \ {p}) \ {y} : f[z] \in Int BY <1>4
  <2> QED BY <2>1, <2>2, SumInt
<1> QED BY <1>2, <1>4, <1>5, <1>8, <1>9, <1>10, <1>11

(* Two functions that agree on the indices have one sum.                   *)
LEMMA SumSame ==
  ASSUME NEW f, NEW g, NEW S, IsFiniteSet(S), \A x \in S : f[x] = g[x]
  PROVE  SumFunctionOnSet(f, S) = SumFunctionOnSet(g, S)
<1> DEFINE Bad == {T \in SUBSET S : SumFunctionOnSet(f, T) # SumFunctionOnSet(g, T)}
<1> SUFFICES ASSUME Bad # {} PROVE FALSE
  OBVIOUS
<1>1. PICK T \in Bad : \A U \in Bad : U \subseteq T => U = T
  <2>1. Bad \in SUBSET (SUBSET S) OBVIOUS
  <2> HIDE DEF Bad
  <2> QED BY <2>1, MinimalSubset
<1>2. T \in SUBSET S /\ SumFunctionOnSet(f, T) # SumFunctionOnSet(g, T) /\ IsFiniteSet(T)
  BY FS_Subset
<1>3. T # {} /\ Pick(T) \in T
  BY <1>2, SumEmpty, PickType
<1>4. T \ {Pick(T)} \notin Bad
  <2>1. T \ {Pick(T)} \subseteq T /\ T \ {Pick(T)} # T BY <1>3
  <2> HIDE DEF Bad
  <2> QED BY <1>1, <2>1
<1>5. SumFunctionOnSet(f, T \ {Pick(T)}) = SumFunctionOnSet(g, T \ {Pick(T)})
  BY <1>2, <1>4
<1>6. f[Pick(T)] = g[Pick(T)] BY <1>2, <1>3
<1> QED BY <1>2, <1>3, <1>5, <1>6, SumPicked

(* What a step that changes one member does to the sum.                    *)
LEMMA SumChange ==
  ASSUME NEW f, NEW g, NEW S, IsFiniteSet(S), NEW x \in S,
         \A y \in S : f[y] \in Int, g[x] \in Int, \A y \in S \ {x} : g[y] = f[y]
  PROVE  SumFunctionOnSet(g, S) = SumFunctionOnSet(f, S) - f[x] + g[x]
<1>1. IsFiniteSet(S \ {x}) BY FS_Subset
<1>2. SumFunctionOnSet(f, S) = f[x] + SumFunctionOnSet(f, S \ {x})
  BY SumTake
<1>3. \A y \in S : g[y] \in Int OBVIOUS
<1>4. SumFunctionOnSet(g, S) = g[x] + SumFunctionOnSet(g, S \ {x})
  BY <1>3, SumTake
<1>5. SumFunctionOnSet(g, S \ {x}) = SumFunctionOnSet(f, S \ {x})
  BY <1>1, SumSame
<1>6. SumFunctionOnSet(f, S \ {x}) \in Int
  BY <1>1, SumInt
<1>7. f[x] \in Int OBVIOUS
<1> QED BY <1>2, <1>4, <1>5, <1>6, <1>7

(* A sum of zeroes.                                                        *)
LEMMA SumZero ==
  ASSUME NEW f, NEW S, IsFiniteSet(S), \A x \in S : f[x] = 0
  PROVE  SumFunctionOnSet(f, S) = 0
<1> DEFINE Bad == {T \in SUBSET S : SumFunctionOnSet(f, T) # 0}
<1> SUFFICES ASSUME Bad # {} PROVE FALSE
  OBVIOUS
<1>1. PICK T \in Bad : \A U \in Bad : U \subseteq T => U = T
  <2>1. Bad \in SUBSET (SUBSET S) OBVIOUS
  <2> HIDE DEF Bad
  <2> QED BY <2>1, MinimalSubset
<1>2. T \in SUBSET S /\ SumFunctionOnSet(f, T) # 0 /\ IsFiniteSet(T)
  BY FS_Subset
<1>3. T # {} /\ Pick(T) \in T
  BY <1>2, SumEmpty, PickType
<1>4. T \ {Pick(T)} \notin Bad
  <2>1. T \ {Pick(T)} \subseteq T /\ T \ {Pick(T)} # T BY <1>3
  <2> HIDE DEF Bad
  <2> QED BY <1>1, <2>1
<1> QED BY <1>2, <1>3, <1>4, SumPicked

(* A member-wise smaller function has a smaller sum.                       *)
LEMMA SumBound ==
  ASSUME NEW f, NEW g, NEW S, IsFiniteSet(S),
         \A x \in S : f[x] \in Int /\ g[x] \in Int /\ f[x] <= g[x]
  PROVE  SumFunctionOnSet(f, S) <= SumFunctionOnSet(g, S)
<1> DEFINE Bad == {T \in SUBSET S : ~(SumFunctionOnSet(f, T) <= SumFunctionOnSet(g, T))}
<1> SUFFICES ASSUME Bad # {} PROVE FALSE
  OBVIOUS
<1>1. PICK T \in Bad : \A U \in Bad : U \subseteq T => U = T
  <2>1. Bad \in SUBSET (SUBSET S) OBVIOUS
  <2> HIDE DEF Bad
  <2> QED BY <2>1, MinimalSubset
<1>2. T \in SUBSET S /\ ~(SumFunctionOnSet(f, T) <= SumFunctionOnSet(g, T)) /\ IsFiniteSet(T)
  BY FS_Subset
<1>3. T # {} /\ Pick(T) \in T
  <2>1. T = {} => SumFunctionOnSet(f, T) = 0 /\ SumFunctionOnSet(g, T) = 0 BY SumEmpty
  <2>2. T # {} BY <1>2, <2>1
  <2> QED BY <2>2, PickType
<1>4. T \ {Pick(T)} \notin Bad
  <2>1. T \ {Pick(T)} \subseteq T /\ T \ {Pick(T)} # T BY <1>3
  <2> HIDE DEF Bad
  <2> QED BY <1>1, <2>1
<1>5. SumFunctionOnSet(f, T \ {Pick(T)}) <= SumFunctionOnSet(g, T \ {Pick(T)})
  BY <1>2, <1>4
<1>6. f[Pick(T)] <= g[Pick(T)] /\ f[Pick(T)] \in Int /\ g[Pick(T)] \in Int
  BY <1>2, <1>3
<1>7. SumFunctionOnSet(f, T \ {Pick(T)}) \in Int /\ SumFunctionOnSet(g, T \ {Pick(T)}) \in Int
  <2>1. IsFiniteSet(T \ {Pick(T)}) BY <1>2, FS_Subset
  <2> QED BY <1>2, <2>1, SumInt
<1>8. /\ SumFunctionOnSet(f, T) = f[Pick(T)] + SumFunctionOnSet(f, T \ {Pick(T)})
      /\ SumFunctionOnSet(g, T) = g[Pick(T)] + SumFunctionOnSet(g, T \ {Pick(T)})
  BY <1>2, <1>3, SumPicked
<1> QED BY <1>2, <1>5, <1>6, <1>7, <1>8

(* SumTake for an interval, from either end.                               *)
LEMMA SumTakeLast ==
  ASSUME NEW f, NEW a \in Int, NEW b \in Int, a <= b, \A i \in a .. b : f[i] \in Int
  PROVE  SumFunctionOnSet(f, a .. b) = f[b] + SumFunctionOnSet(f, a .. b - 1)
<1>1. PICK D : D = a .. b
  OBVIOUS
<1>2. IsFiniteSet(D) BY <1>1, FS_Interval
<1>3. b \in D /\ D \ {b} = a .. b - 1 BY <1>1
<1>4. SumFunctionOnSet(f, D) = f[b] + SumFunctionOnSet(f, D \ {b})
  BY <1>1, <1>2, <1>3, SumTake
<1> QED BY <1>1, <1>3, <1>4

LEMMA SumTakeFirst ==
  ASSUME NEW f, NEW a \in Int, NEW b \in Int, a <= b, \A i \in a .. b : f[i] \in Int
  PROVE  SumFunctionOnSet(f, a .. b) = f[a] + SumFunctionOnSet(f, a + 1 .. b)
<1>1. PICK D : D = a .. b
  OBVIOUS
<1>2. IsFiniteSet(D) BY <1>1, FS_Interval
<1>3. a \in D /\ D \ {a} = a + 1 .. b BY <1>1
<1>4. SumFunctionOnSet(f, D) = f[a] + SumFunctionOnSet(f, D \ {a})
  BY <1>1, <1>2, <1>3, SumTake
<1> QED BY <1>1, <1>3, <1>4

(* Sums over sequences: one element more at the end, one less in front.    *)
LEMMA SumAppend ==
  ASSUME NEW q \in Seq(Int), NEW n \in Int
  PROVE  SumFunction(Append(q, n)) = SumFunction(q) + n
<1> DEFINE L == Len(q)
           a == Append(q, n)
<1>1. L \in Nat /\ DOMAIN q = 1 .. L /\ DOMAIN a = 1 .. L + 1
  OBVIOUS
<1>2. \A i \in 1 .. L : a[i] = q[i] /\ q[i] \in Int
  OBVIOUS
<1>3. a[L + 1] = n /\ L + 1 \in 1 .. L + 1
  OBVIOUS
<1>5. IsFiniteSet(1 .. L)
  BY <1>1, FS_Interval
<1>6. \A i \in 1 .. L + 1 : a[i] \in Int
  BY <1>1, <1>2, <1>3
<1> HIDE DEF a, L
<1>7. SumFunctionOnSet(a, 1 .. L + 1) = n + SumFunctionOnSet(a, 1 .. L)
  <2>1. (L + 1) - 1 = L /\ 1 <= L + 1 BY <1>1
  <2>2. L + 1 \in Int /\ 1 \in Int BY <1>1
  <2> QED BY <1>3, <1>6, <2>1, <2>2, SumTakeLast
<1>8. SumFunctionOnSet(a, 1 .. L) = SumFunctionOnSet(q, 1 .. L)
  BY <1>2, <1>5, SumSame
<1>9. SumFunctionOnSet(q, 1 .. L) \in Int
  BY <1>2, <1>5, SumInt
<1> QED BY <1>1, <1>7, <1>8, <1>9 DEF SumFunction, a

LEMMA SumSeqInt ==
  ASSUME NEW q \in Seq(Int) PROVE SumFunction(q) \in Int
<1>1. PICK D : D = 1 .. Len(q)
  OBVIOUS
<1>2. IsFiniteSet(D) /\ DOMAIN q = D /\ \A i \in D : q[i] \in Int
  BY <1>1, FS_Interval
<1> QED BY <1>2, SumInt DEF SumFunction

LEMMA SumShift ==
  ASSUME NEW f, NEW g, NEW N \in Nat,
         \A i \in 1 .. N : g[i] = f[i + 1] /\ f[i + 1] \in Int
  PROVE  SumFunctionOnSet(g, 1 .. N) = SumFunctionOnSet(f, 2 .. N + 1)
<1> DEFINE Bad == {n \in 0 .. N : SumFunctionOnSet(g, 1 .. n) # SumFunctionOnSet(f, 2 .. n + 1)}
<1> SUFFICES ASSUME Bad # {} PROVE FALSE
  OBVIOUS
<1>1. PICK n \in Bad : \A m \in Bad : n <= m
  <2>1. Bad \in SUBSET Nat OBVIOUS
  <2> HIDE DEF Bad
  <2> QED BY <2>1, Smallest
<1>2. n \in 0 .. N /\ SumFunctionOnSet(g, 1 .. n) # SumFunctionOnSet(f, 2 .. n + 1)
  OBVIOUS
<1>3. n # 0
  <2>1. 1 .. 0 = {} /\ 2 .. 0 + 1 = {} OBVIOUS
  <2> QED BY <1>2, <2>1, SumEmpty
<1>4. n \in Nat /\ n >= 1 /\ n - 1 \in 0 .. N /\ n - 1 < n
  BY <1>2, <1>3
<1>5. n - 1 \notin Bad
  <2> HIDE DEF Bad
  <2>1. ~(n <= n - 1) BY <1>4
  <2> QED BY <1>1, <2>1
<1>6. SumFunctionOnSet(g, 1 .. n - 1) = SumFunctionOnSet(f, 2 .. (n - 1) + 1)
  BY <1>4, <1>5
<1> HIDE DEF Bad
<1>9. (\A i \in 1 .. n : g[i] \in Int) /\ (\A i \in 2 .. n + 1 : f[i] \in Int)
  <2>1. \A i \in 1 .. n : i \in 1 .. N BY <1>2
  <2>2. \A i \in 2 .. n + 1 : i - 1 \in 1 .. N /\ (i - 1) + 1 = i BY <1>2
  <2>3. \A i \in 2 .. n + 1 : f[(i - 1) + 1] \in Int BY <2>2
  <2> QED BY <2>1, <2>2, <2>3
<1>10. SumFunctionOnSet(g, 1 .. n) = g[n] + SumFunctionOnSet(g, 1 .. n - 1)
  BY <1>4, <1>9, SumTakeLast
<1>11. SumFunctionOnSet(f, 2 .. n + 1) = f[n + 1] + SumFunctionOnSet(f, 2 .. (n - 1) + 1)
  <2>1. (n + 1) - 1 = (n - 1) + 1 /\ 2 <= n + 1 /\ n + 1 \in Int BY <1>4
  <2> QED BY <1>9, <2>1, SumTakeLast
<1>12. g[n] = f[n + 1]
  BY <1>2, <1>4
<1> QED BY <1>2, <1>6, <1>10, <1>11, <1>12

LEMMA SumTail ==
  ASSUME NEW q \in Seq(Int), q # <<>>
  PROVE  SumFunction(q) = Head(q) + SumFunction(Tail(q))
<1> DEFINE N == Len(q) - 1
           t == Tail(q)
<1>1. N \in Nat /\ DOMAIN q = 1 .. N + 1 /\ DOMAIN t = 1 .. N
  OBVIOUS
<1>2. \A i \in 1 .. N : t[i] = q[i + 1]
  OBVIOUS
<1>3. \A i \in 1 .. N + 1 : q[i] \in Int
  OBVIOUS
<1>4. Head(q) = q[1] OBVIOUS
<1> HIDE DEF t, N
<1>5. \A i \in 1 .. N : i + 1 \in 1 .. N + 1
  BY <1>1
<1>6. SumFunctionOnSet(t, 1 .. N) = SumFunctionOnSet(q, 2 .. N + 1)
  BY <1>1, <1>2, <1>3, <1>5, SumShift
<1>9. SumFunctionOnSet(q, 1 .. N + 1) = q[1] + SumFunctionOnSet(q, 2 .. N + 1)
  <2>1. 1 <= N + 1 /\ N + 1 \in Int /\ 1 + 1 = 2 BY <1>1
  <2> QED BY <1>3, <2>1, SumTakeFirst
<1> QED BY <1>1, <1>4, <1>6, <1>9 DEF SumFunction, t

(* A sum of naturals is a natural.                                         *)
LEMMA SumNat ==
  ASSUME NEW f, NEW S, IsFiniteSet(S), \A x \in S : f[x] \in Nat
  PROVE  SumFunctionOnSet(f, S) \in Nat
<1> DEFINE z == [x \in S |-> 0]
<1>1. \A x \in S : f[x] \in Int /\ z[x] \in Int /\ z[x] <= f[x]
  OBVIOUS
<1>2. SumFunctionOnSet(z, S) = 0
  BY SumZero
<1> HIDE DEF z
<1>3. SumFunctionOnSet(z, S) <= SumFunctionOnSet(f, S)
  BY <1>1, SumBound
<1>4. SumFunctionOnSet(f, S) \in Int
  BY <1>1, SumInt
<1> QED BY <1>2, <1>3, <1>4

(* Sums are added member by member.                                        *)
LEMMA SumPlus ==
  ASSUME NEW f, NEW g, NEW h, NEW S, IsFiniteSet(S),
         \A x \in S : f[x] \in Int /\ g[x] \in Int /\ h[x] = f[x] + g[x]
  PROVE  SumFunctionOnSet(h, S) = SumFunctionOnSet(f, S) + SumFunctionOnSet(g, S)
<1> DEFINE Bad == {T \in SUBSET S :
                     SumFunctionOnSet(h, T) # SumFunctionOnSet(f, T) + SumFunctionOnSet(g, T)}
<1> SUFFICES ASSUME Bad # {} PROVE FALSE
  OBVIOUS
<1>1. PICK T \in Bad : \A U \in Bad : U \subseteq T => U = T
  <2>1. Bad \in SUBSET (SUBSET S) OBVIOUS
  <2> HIDE DEF Bad
  <2> QED BY <2>1, MinimalSubset
<1>2. /\ T \in SUBSET S /\ IsFiniteSet(T)
      /\ SumFunctionOnSet(h, T) # SumFunctionOnSet(f, T) + SumFunctionOnSet(g, T)
  BY FS_Subset
<1>3. T # {} /\ Pick(T) \in T
  <2>1. T = {} => /\ SumFunctionOnSet(h, T) = 0
                  /\ SumFunctionOnSet(f, T) = 0 /\ SumFunctionOnSet(g, T) = 0
    BY SumEmpty
  <2>2. T # {} BY <1>2, <2>1
  <2> QED BY <2>2, PickType
<1>4. PICK p, U : p = Pick(T) /\ U = T \ {Pick(T)}
  OBVIOUS
<1>5. U \notin Bad /\ U \in SUBSET S /\ IsFiniteSet(U)
  <2>1. U \subseteq T /\ U # T BY <1>3, <1>4
  <2>2. U \in SUBSET S /\ IsFiniteSet(U) BY <1>2, <2>1, FS_Subset
  <2> HIDE DEF Bad
  <2> QED BY <1>1, <2>1, <2>2
<1>6. SumFunctionOnSet(h, U) = SumFunctionOnSet(f, U) + SumFunctionOnSet(g, U)
  BY <1>5
<1>7. /\ SumFunctionOnSet(h, T) = h[p] + SumFunctionOnSet(h, U)
      /\ SumFunctionOnSet(f, T) = f[p] + SumFunctionOnSet(f, U)
      /\ SumFunctionOnSet(g, T) = g[p] + SumFunctionOnSet(g, U)
  BY <1>2, <1>3, <1>4, SumPicked
<1>8. f[p] \in Int /\ g[p] \in Int /\ h[p] = f[p] + g[p]
  BY <1>2, <1>3, <1>4
<1>9. SumFunctionOnSet(f, U) \in Int /\ SumFunctionOnSet(g, U) \in Int
  BY <1>5, SumInt
<1> HIDE DEF Bad
<1> QED BY <1>2, <1>6, <1>7, <1>8, <1>9

(* Numbers up to n add up to so many times n.                              *)
LEMMA SumConstant ==
  ASSUME NEW f, NEW S, IsFiniteSet(S), NEW n \in Nat, \A x \in S : f[x] \in Nat /\ f[x] <= n
  PROVE  SumFunctionOnSet(f, S) <= Cardinality(S) * n
<1> DEFINE Bad == {T \in SUBSET S : ~(SumFunctionOnSet(f, T) <= Cardinality(T) * n)}
<1> SUFFICES ASSUME Bad # {} PROVE FALSE
  OBVIOUS
<1>1. PICK T \in Bad : \A U \in Bad : U \subseteq T => U = T
  <2>1. Bad \in SUBSET (SUBSET S) OBVIOUS
  <2> HIDE DEF Bad
  <2> QED BY <2>1, MinimalSubset
<1>2. /\ T \in SUBSET S /\ IsFiniteSet(T)
      /\ ~(SumFunctionOnSet(f, T) <= Cardinality(T) * n)
  BY FS_Subset
<1>3. T # {} /\ Pick(T) \in T
  <2>1. T = {} => SumFunctionOnSet(f, T) = 0 /\ Cardinality(T) = 0
    BY SumEmpty, FS_EmptySet
  <2>2. 0 <= 0 * n
    OBVIOUS
  <2>3. T # {}
    BY <1>2, <2>1, <2>2
  <2> QED BY <2>3, PickType
<1>4. PICK p, U : p = Pick(T) /\ U = T \ {Pick(T)}
  OBVIOUS
<1>5. U \notin Bad /\ U \in SUBSET S /\ IsFiniteSet(U)
  <2>1. U \subseteq T /\ U # T BY <1>3, <1>4
  <2>2. U \in SUBSET S /\ IsFiniteSet(U) BY <1>2, <2>1, FS_Subset
  <2> HIDE DEF Bad
  <2> QED BY <1>1, <2>1, <2>2
<1>6. SumFunctionOnSet(f, U) <= Cardinality(U) * n
  BY <1>5
<1>7. SumFunctionOnSet(f, T) = f[p] + SumFunctionOnSet(f, U)
  BY <1>2, <1>3, <1>4, SumPicked
<1>8. f[p] \in Nat /\ f[p] <= n
  BY <1>2, <1>3, <1>4
<1>9. SumFunctionOnSet(f, U) \in Nat
  BY <1>5, SumNat
<1>10. Cardinality(U) \in Nat /\ Cardinality(T) = Cardinality(U) + 1
  <2>1. p \notin U /\ T = U \cup {p}
    BY <1>3, <1>4
  <2> QED BY <1>5, <2>1, FS_AddElement, FS_CardinalityType
<1> HIDE DEF Bad
<1>11. PICK c \in Nat : c = Cardinality(U)
  BY <1>10
<1>12. \A x, y \in Nat : x <= n /\ y <= c * n => x + y <= (c + 1) * n
  <2>1. (c + 1) * n = c * n + n
    OBVIOUS
  <2> QED BY <2>1
<1> QED BY <1>2, <1>6, <1>7, <1>8, <1>9, <1>10, <1>11, <1>12

(* The parts of a set add up to the set.                                   *)
LEMMA PartsAddUp ==
  ASSUME NEW S, IsFiniteSet(S), NEW P, IsFiniteSet(P), NEW f \in [P -> S], NEW g,
         \A s \in S : g[s] = Cardinality({i \in P : f[i] = s})
  PROVE  SumFunctionOnSet(g, S) = Cardinality(P)
<1> DEFINE Of(T) == {i \in P : f[i] \in T}
           Bad == {T \in SUBSET S : SumFunctionOnSet(g, T) # Cardinality(Of(T))}
<1>1. \A T \in SUBSET S : IsFiniteSet(Of(T)) /\ Cardinality(Of(T)) \in Nat /\ IsFiniteSet(T)
  BY FS_Subset, FS_CardinalityType
<1>2. \A s \in S : g[s] = Cardinality(Of({s})) /\ g[s] \in Int
  <2> SUFFICES ASSUME NEW s \in S PROVE g[s] = Cardinality(Of({s})) /\ g[s] \in Int
    OBVIOUS
  <2>1. {i \in P : f[i] = s} = Of({s})
    OBVIOUS
  <2>2. g[s] = Cardinality({i \in P : f[i] = s})
    OBVIOUS
  <2>3. g[s] = Cardinality(Of({s}))
    BY <2>1, <2>2
  <2>4. {s} \in SUBSET S
    OBVIOUS
  <2> HIDE DEF Of
  <2>5. Cardinality(Of({s})) \in Nat
    BY <1>1, <2>4
  <2> QED BY <2>3, <2>5
<1>3. Of(S) = P
  OBVIOUS
<1>4. ASSUME Bad # {} PROVE FALSE
  <2>1. PICK T \in Bad : \A U \in Bad : U \subseteq T => U = T
    <3>1. Bad \in SUBSET (SUBSET S)
      OBVIOUS
    <3> HIDE DEF Bad
    <3> QED BY <1>4, <3>1, MinimalSubset
  <2>2. T # {}
    <3>1. Of({}) = {}
      OBVIOUS
    <3>2. Cardinality({}) = 0 /\ SumFunctionOnSet(g, {}) = 0
      BY FS_EmptySet, SumEmpty
    <3> QED BY <3>1, <3>2
  <2>3. PICK s \in T : TRUE
    BY <2>2
  <2>4. PICK U : U = T \ {s}
    OBVIOUS
  <2>5. U \in SUBSET S /\ U \notin Bad /\ s \in S /\ T \in SUBSET S
    BY <2>1, <2>3, <2>4
  <2>6. PICK A, B, C : A = Of({s}) /\ B = Of(U) /\ C = Of(T)
    OBVIOUS
  <2>7. A \cup B = C /\ A \cap B = {}
    BY <2>3, <2>4, <2>6
  <2>8. IsFiniteSet(A) /\ IsFiniteSet(B) /\ Cardinality(A) \in Nat /\ Cardinality(B) \in Nat
    BY <1>1, <2>5, <2>6
  <2>9. Cardinality(A \cup B) = Cardinality(A) + Cardinality(B) - Cardinality(A \cap B)
    BY <2>8, FS_Union
  <2>10. Cardinality(C) = Cardinality(A) + Cardinality(B)
    <3>1. Cardinality(A \cap B) = 0
      BY <2>7, FS_EmptySet
    <3>2. Cardinality(C) = Cardinality(A \cup B)
      BY <2>7
    <3> HIDE DEF Of, Bad
    <3> QED BY ONLY <2>8, <2>9, <3>1, <3>2
  <2>11. SumFunctionOnSet(g, T) = g[s] + SumFunctionOnSet(g, U)
    <3>1. \A x \in T : g[x] \in Int
      BY <1>2, <2>5
    <3>2. IsFiniteSet(T)
      BY <1>1, <2>5
    <3> QED BY <2>3, <2>4, <3>1, <3>2, SumTake
  <2>12. SumFunctionOnSet(g, U) = Cardinality(B)
    BY <2>5, <2>6
  <2>13. g[s] = Cardinality(A)
    BY <1>2, <2>5, <2>6
  <2>14. SumFunctionOnSet(g, T) = Cardinality(C)
    BY <2>10, <2>11, <2>12, <2>13
  <2> QED BY <2>1, <2>6, <2>14
<1> HIDE DEF Of
<1>5. S \notin Bad
  BY <1>4
<1>6. S \in SUBSET S
  OBVIOUS
<1>7. SumFunctionOnSet(g, S) = Cardinality(Of(S))
  BY <1>5, <1>6
<1> QED BY <1>3, <1>7
=============================================================================
