------------------------------ MODULE Workload ------------------------------
(* The workload generator (kvs/loadgen.go, the same file in kv_rdma and in *)
(* baseline): a xorshift generator of words, and the conversion of two     *)
(* words into an operation, a Zipf-distributed key and whether to read it. *)
(* The words have W bits (64 in the code) and a float64 keeps the first P  *)
(* of them (53), rounding to nearest: this decides the values at the edge. *)
(* The other floating-point results are fractions over Scale.              *)
EXTENDS Integers, FiniteSets, FiniteSetsExt, Functions

CONSTANTS
  W, P,
  ShiftA, ShiftB, ShiftC, \* 13, 7, 17
  Records,                \* records, and n of the Zipf generator
  Scale,                  \* of the next three
  Zetan,                  \* zeta(n, theta)
  HalfPow,                \* 1 + 0.5^theta
  Eta,
  Alpha                   \* 1 / (1 - theta)

ASSUME WordAssumption == W \in Nat \ {0} /\ P \in 1 .. W
ASSUME ShiftAssumption == {ShiftA, ShiftB, ShiftC} \subseteq Nat \ {0}
ASSUME ZipfAssumption ==
  /\ {Records, Scale, Zetan, HalfPow, Eta, Alpha} \subseteq Nat \ {0}
  /\ Scale <= HalfPow /\ HalfPow <= Zetan /\ Eta <= Scale

-----------------------------------------------------------------------------
(* Xorshift64: a word is the set of its bits that are 1.                   *)

Bits == 0 .. (W - 1)
Words == SUBSET Bits

Xor(x, y) == (x \ y) \cup (y \ x)
Left(x, n) == {i + n : i \in x} \cap Bits
Right(x, n) == {i - n : i \in x} \cap Bits

Xorshift[x \in Words] ==
  LET y == Xor(x, Left(x, ShiftA))
      z == Xor(y, Right(y, ShiftB))
  IN Xor(z, Left(z, ShiftC))

SeedAsIs(x) == x
Seed(x) == IF x = {} THEN {0} ELSE x

(* math.Pow for an exponent in Nat.                                        *)
Power(b, n) ==
  LET p[k \in Nat] == IF k = 0 THEN 1 ELSE b * p[k - 1]
  IN p[n]

(* The number a word stands for.                                           *)
Number == [x \in Words |-> SumFunctionOnSet([i \in Bits |-> Power(2, i)], x)]

-----------------------------------------------------------------------------
(* float64(v): P significant bits, ties to even.                           *)
Float(v) ==
  LET unit == Min({u \in {Power(2, k) : k \in 0 .. W} : v < u * Power(2, P)})
      q == v \div unit
      r == v % unit
      up == 2 * r > unit \/ (2 * r = unit /\ q % 2 = 1)
  IN (IF up THEN q + 1 ELSE q) * unit

(* ZipfianGenerator.Uint64.  u / One is in the code's u: the largest words *)
(* round up to 2^W, so that u reaches 1 and the result n.                  *)
One == Float(Power(2, W) - 1)

Zipf[v \in 0 .. (Power(2, W) - 1)] ==
  LET u == Float(v)
      base == Eta * u + (Scale - Eta) * One
  IN IF u * Zetan < One * Scale THEN 0
     ELSE IF u * Zetan < One * HalfPow THEN 1
     ELSE (Records * Power(base, Alpha)) \div Power(Scale * One, Alpha)

KeyAsIs(v) == Zipf[v]
Key(v) == Zipf[v] % Records

(* NewWorkload: uint64(p * float64(2^64 - 1)).  For YCSB-C the product is  *)
(* 2^W, which has no uint64: what the conversion gives is the machine's.   *)
Percent(name) == CASE name = "YCSB-A" -> 50 [] name = "YCSB-B" -> 95 [] name = "YCSB-C" -> 100

ReadThresholds(name) ==
  LET t == (Percent(name) * One) \div 100
  IN IF t < Power(2, W) THEN {t} ELSE {Power(2, W - 1), Power(2, W) - 1}

(* Workload.Next: two words are drawn, the first for the key.              *)
NextState(x) == Xorshift[Xorshift[x]]

NextOp(x, threshold) ==
  LET first == Xorshift[x]
  IN [key |-> Key(Number[first]), isRead |-> Number[Xorshift[first]] < threshold]
=============================================================================
