---------------------------- MODULE NumberProofs ----------------------------
(***************************************************************************)
(* What the other proofs need of numbers: induction over them, division,    *)
(* the powers of two and the bits of a number.                              *)
(***************************************************************************)
EXTENDS Binary, FiniteSetTheorems, TLAPS

----------------------------------------------------------------------------
(* Induction and division.                                                   *)

(* A set of numbers has a least one. *)
LEMMA LeastNumber ==
  ASSUME NEW S \in SUBSET Nat, S # {}
  PROVE  \E k \in S : \A l \in S : k <= l
<1> DEFINE Below(k) == 0 .. k - 1
           T == {Below(k) : k \in S}
           R == StrictSubsetOrdering(Nat)
           F == FiniteSubsetsOf(Nat)
<1>1. \A k \in S : Below(k) \in SUBSET Nat /\ IsFiniteSet(Below(k))
  BY FS_Interval
<1>2. T \subseteq F /\ T # {}
  BY <1>1 DEF FiniteSubsetsOf
<1>3. IsWellFoundedOn(R, F)
  BY FS_StrictSubsetOrderingWellFounded
<1>4. PICK x \in T : \A y \in T : ~(<<y, x>> \in R)
  <2> HIDE DEF R, F, T
  <2> QED
    BY <1>2, <1>3, WFMin, Zenon
<1>5. PICK k \in S : x = Below(k)
  BY <1>4
<1>6. ASSUME NEW l \in S, l < k PROVE FALSE
  <2>1. Below(l) \subseteq Below(k) /\ l \in Below(k) /\ l \notin Below(l)
    BY <1>6
  <2>2. <<Below(l), Below(k)>> \in R
    BY <1>1, <2>1 DEF StrictSubsetOrdering
  <2>3. Below(l) \in T
    OBVIOUS
  <2> QED
    BY <1>4, <1>5, <2>2, <2>3
<1> QED
  BY <1>6

(* What holds of 0 and is handed on from each number to the next holds of     *)
(* all numbers up to n. *)
LEMMA UpTo ==
  ASSUME NEW n \in Nat, NEW S, 0 \in S, \A k \in 0 .. n - 1 : k \in S => k + 1 \in S
  PROVE  0 .. n \subseteq S
<1> DEFINE Left == {k \in 0 .. n : k \notin S}
<1> SUFFICES ASSUME Left # {} PROVE FALSE
  OBVIOUS
<1>1. PICK k \in Left : \A l \in Left : k <= l
  <2>1. Left \in SUBSET Nat
    OBVIOUS
  <2> HIDE DEF Left
  <2> QED
    BY <2>1, LeastNumber
<1>2. k # 0 /\ k \in 0 .. n
  OBVIOUS
<1>3. k - 1 \in 0 .. n - 1 /\ k - 1 \notin Left /\ (k - 1) + 1 = k
  BY <1>1, <1>2
<1> QED
  BY <1>2, <1>3

(* Division by a product goes in two steps. *)
LEMMA DivMod ==
  ASSUME NEW p \in Nat \ {0}, NEW v \in Int
  PROVE  v \div p \in Int /\ v % p \in 0 .. p - 1 /\ v = p * (v \div p) + (v % p)
  OBVIOUS

LEMMA DivModUnique ==
  ASSUME NEW p \in Nat \ {0}, NEW q \in Int, NEW r \in 0 .. p - 1, NEW v \in Int, v = p * q + r
  PROVE  v \div p = q /\ v % p = r
  OBVIOUS

LEMMA DivDiv ==
  ASSUME NEW p \in Nat \ {0}, NEW q \in Nat \ {0}, NEW v \in Int
  PROVE  (v \div p) \div q = v \div (p * q)
<1> DEFINE a == v \div p
           r == v % p
           b == a \div q
           s == a % q
           m == p * q
           t == p * s + r
<1>1. a \in Int /\ r \in 0 .. p - 1 /\ v = p * a + r
  BY DivMod
<1>2. b \in Int /\ s \in 0 .. q - 1 /\ a = q * b + s
  <2> HIDE DEF a
  <2> QED
    BY <1>1, DivMod
<1> HIDE DEF a, r, b, s
<1>3. m \in Nat \ {0}
  OBVIOUS
<1>4. t \in 0 .. m - 1
  <2>1. p * s <= p * (q - 1)
    BY <1>2
  <2>2. p * (q - 1) = p * q - p /\ p * s \in Nat
    BY <1>2
  <2> QED
    BY <1>1, <2>1, <2>2
<1>5. v = m * b + t
  <2>1. p * a = m * b + p * s /\ p * a \in Int /\ m * b \in Int /\ p * s \in Int
    BY <1>2
  <2> DEFINE x == p * a
             y == m * b
             z == p * s
  <2> HIDE DEF x, y, z
  <2>2. v = x + r /\ x = y + z /\ x \in Int /\ y \in Int /\ z \in Int /\ r \in Int
    BY <1>1, <2>1 DEF x, y, z
  <2>3. v = y + (z + r)
    BY <2>2
  <2> QED
    BY <2>3 DEF y, z
<1> HIDE DEF m, t
<1>6. v \div m = b
  BY <1>2, <1>3, <1>4, <1>5, DivModUnique
<1> QED
  BY <1>6 DEF m, a, b

(* A further bit of a number. *)
LEMMA NextBit ==
  ASSUME NEW p \in Nat \ {0}, NEW v \in Int
  PROVE  v % (2 * p) = (v % p) + ((v \div p) % 2) * p
<1> DEFINE a == v \div p
           r == v % p
           b == a \div 2
           s == a % 2
           m == 2 * p
           t == r + s * p
<1>1. a \in Int /\ r \in 0 .. p - 1 /\ v = p * a + r
  BY DivMod
<1>2. b \in Int /\ s \in 0 .. 1 /\ a = 2 * b + s
  <2> HIDE DEF a
  <2> QED
    BY <1>1
<1> HIDE DEF a, r, b, s
<1>3. m \in Nat \ {0}
  OBVIOUS
<1>4. t \in 0 .. m - 1
  <2>1. s * p \in 0 .. p
    BY <1>2
  <2> QED
    BY <1>1, <2>1
<1>5. v = m * b + t
  <2>1. p * a = m * b + s * p /\ p * a \in Int /\ m * b \in Int /\ s * p \in Int
    BY <1>2
  <2> DEFINE x == p * a
             y == m * b
             z == s * p
  <2> HIDE DEF x, y, z
  <2>2. v = x + r /\ x = y + z /\ x \in Int /\ y \in Int /\ z \in Int /\ r \in Int
    BY <1>1, <2>1 DEF x, y, z
  <2>3. v = y + (r + z)
    BY <2>2
  <2> QED
    BY <2>3 DEF y, z
<1> HIDE DEF m, t
<1>6. v % m = t
  BY <1>2, <1>3, <1>4, <1>5, DivModUnique
<1> QED
  BY <1>6 DEF m, a, t, s, r

----------------------------------------------------------------------------
(* Powers of two and bits.                                                   *)

(* The powers of two. *)
LEMMA TwoToPowers == TwoTo = [n \in 0 .. 64 |-> IF n = 0 THEN 1 ELSE 2 * TwoTo[n - 1]]
<1> DEFINE IsPower(f, k) == f = [n \in 0 .. k |-> IF n = 0 THEN 1 ELSE 2 * f[n - 1]]
           Known == {k \in 0 .. 64 : \E f : IsPower(f, k)}
<1>1. 0 \in Known
  <2> DEFINE f == [n \in 0 .. 0 |-> 1]
  <2>1. IsPower(f, 0)
    OBVIOUS
  <2>2. 0 \in 0 .. 64
    OBVIOUS
  <2> HIDE DEF IsPower, f
  <2> QED
    BY <2>1, <2>2
<1>2. ASSUME NEW k \in 0 .. 63, k \in Known PROVE k + 1 \in Known
  <2>1. PICK f : IsPower(f, k)
    BY <1>2
  <2> DEFINE g == [n \in 0 .. k + 1 |-> IF n = k + 1 THEN 2 * f[k] ELSE f[n]]
  <2>2. \A n \in 0 .. k + 1 : g[n] = IF n = 0 THEN 1 ELSE 2 * g[n - 1]
    BY <2>1
  <2>3. g = [n \in 0 .. k + 1 |-> g[n]]
    OBVIOUS
  <2> HIDE DEF g
  <2>4. IsPower(g, k + 1)
    BY <2>2, <2>3
  <2>5. k + 1 \in 0 .. 64
    OBVIOUS
  <2> HIDE DEF IsPower
  <2> QED
    BY <2>4, <2>5
<1>3. 64 \in Known
  <2> HIDE DEF Known
  <2> QED
    BY <1>1, <1>2, UpTo
<1>4. TwoTo = CHOOSE f : IsPower(f, 64)
  BY DEF TwoTo
<1>5. IsPower(TwoTo, 64)
  <2>1. \E f : IsPower(f, 64)
    BY <1>3
  <2> HIDE DEF IsPower
  <2> QED
    BY <1>4, <2>1
<1> QED
  BY <1>5

LEMMA TwoToType ==
  /\ TwoTo[0] = 1 /\ \A n \in 0 .. 63 : TwoTo[n + 1] = 2 * TwoTo[n]
  /\ \A n \in 0 .. 64 : TwoTo[n] \in Nat \ {0}
<1>1. TwoTo[0] = 1 /\ \A n \in 0 .. 63 : TwoTo[n + 1] = 2 * TwoTo[n]
  BY TwoToPowers
<1> DEFINE S == {n \in 0 .. 64 : TwoTo[n] \in Nat \ {0}}
<1>2. 0 \in S
  BY <1>1
<1>3. ASSUME NEW k \in 0 .. 63, k \in S PROVE k + 1 \in S
  BY <1>1, <1>3
<1>4. 0 .. 64 \subseteq S
  <2> HIDE DEF S
  <2> QED
    BY <1>2, <1>3, UpTo
<1> QED
  BY <1>1, <1>4

LEMMA TwoToAdd ==
  ASSUME NEW m \in 0 .. 64, NEW n \in 0 .. 64, m + n <= 64
  PROVE  TwoTo[m + n] = TwoTo[m] * TwoTo[n]
<1> DEFINE S == {k \in 0 .. n : TwoTo[m + k] = TwoTo[m] * TwoTo[k]}
<1>1. 0 \in S
  BY TwoToType
<1>2. ASSUME NEW k \in 0 .. n - 1, k \in S PROVE k + 1 \in S
  <2>1. m + k \in 0 .. 63 /\ k \in 0 .. 63 /\ m + (k + 1) = (m + k) + 1
    OBVIOUS
  <2>2. TwoTo[m + (k + 1)] = 2 * TwoTo[m + k] /\ TwoTo[k + 1] = 2 * TwoTo[k]
    BY <2>1, TwoToType
  <2>3. TwoTo[m] \in Nat /\ TwoTo[k] \in Nat
    <3>1. m \in 0 .. 64 /\ k \in 0 .. 64
      OBVIOUS
    <3>2. \A j \in 0 .. 64 : TwoTo[j] \in Nat
      BY TwoToType
    <3> QED
      BY <3>1, <3>2
  <2>4. TwoTo[m + k] = TwoTo[m] * TwoTo[k]
    BY <1>2
  <2>5. TwoTo[m + (k + 1)] = TwoTo[m] * TwoTo[k + 1]
    BY <2>2, <2>3, <2>4
  <2> QED
    BY <2>5
<1>3. n \in S
  <2>1. n \in Nat /\ n \in 0 .. n
    OBVIOUS
  <2> HIDE DEF S
  <2> QED
    BY <1>1, <1>2, <2>1, UpTo
<1> QED
  BY <1>3

(* They grow. *)
LEMMA TwoToGrows ==
  ASSUME NEW m \in 0 .. 64, NEW n \in m .. 64
  PROVE  TwoTo[m] <= TwoTo[n]
<1> DEFINE p == TwoTo[m]
           q == TwoTo[n - m]
<1>1. p \in Nat \ {0} /\ q \in Nat \ {0}
  <2>1. n - m \in 0 .. 64
    OBVIOUS
  <2> QED
    BY <2>1, TwoToType
<1>2. TwoTo[n] = p * q
  <2>1. n - m \in 0 .. 64 /\ m + (n - m) <= 64 /\ m + (n - m) = n
    OBVIOUS
  <2>2. TwoTo[m + (n - m)] = p * q
    BY <2>1, TwoToAdd
  <2> QED
    BY <2>1, <2>2
<1> HIDE DEF p, q
<1>3. p <= p * q
  BY <1>1
<1> QED
  BY <1>2, <1>3 DEF p

(* The bits of a number are bits. *)
LEMMA BitOfType ==
  ASSUME NEW v \in Int, NEW k \in 0 .. 64
  PROVE  BitOf(v, k) \in {0, 1}
<1> DEFINE p == TwoTo[k]
           u == v \div p
<1>1. p \in Nat \ {0}
  BY TwoToType
<1> HIDE DEF p
<1>2. u \in Int
  BY <1>1, DivMod
<1> HIDE DEF u
<1>3. u % 2 \in {0, 1}
  BY <1>2
<1> QED
  BY <1>3 DEF BitOf, u, p

(* The number with some bits is the sum of what they stand for. *)
LEMMA FromBitsSum ==
  ASSUME NEW bits, NEW width \in 0 .. 64
  PROVE  \E sum : /\ sum[0] = 0
                  /\ \A n \in 0 .. width - 1 :
                       sum[n + 1] = sum[n] + bits[n] * TwoTo[n]
                  /\ FromBits(bits, width) = sum[width]
<1> DEFINE IsSum(f, n) ==
             f = [k \in 0 .. n |->
                    IF k = 0 THEN 0
                    ELSE f[k - 1] + bits[k - 1] * TwoTo[k - 1]]
           Known == {n \in 0 .. width : \E f : IsSum(f, n)}
           sum == CHOOSE f : IsSum(f, width)
<1>1. 0 \in Known
  <2> DEFINE f == [k \in 0 .. 0 |-> 0]
  <2>1. IsSum(f, 0)
    OBVIOUS
  <2>2. 0 \in 0 .. width
    OBVIOUS
  <2> HIDE DEF IsSum, f
  <2> QED
    BY <2>1, <2>2
<1>2. ASSUME NEW n \in 0 .. width - 1, n \in Known PROVE n + 1 \in Known
  <2>1. PICK f : IsSum(f, n)
    BY <1>2
  <2> DEFINE x == bits[n] * TwoTo[n]
             g == [k \in 0 .. n + 1 |-> IF k = n + 1 THEN f[n] + x ELSE f[k]]
  <2>2. \A k \in 0 .. n + 1 :
          g[k] = IF k = 0 THEN 0
                 ELSE g[k - 1] + bits[k - 1] * TwoTo[k - 1]
    <3>1. \A k \in 0 .. n : g[k] = f[k]
      OBVIOUS
    <3>2. g[n + 1] = g[n] + bits[(n + 1) - 1] * TwoTo[(n + 1) - 1]
      <4>1. g[n] = f[n] /\ g[n + 1] = f[n] + x /\ (n + 1) - 1 = n
        OBVIOUS
      <4> HIDE DEF g
      <4> QED
        BY <4>1
    <3>3. ASSUME NEW k \in 0 .. n
          PROVE  g[k] = IF k = 0 THEN 0
                        ELSE g[k - 1] + bits[k - 1] * TwoTo[k - 1]
      <4>1. f[k] = IF k = 0 THEN 0
                   ELSE f[k - 1] + bits[k - 1] * TwoTo[k - 1]
        BY <2>1
      <4>2. k # 0 => k - 1 \in 0 .. n
        OBVIOUS
      <4> HIDE DEF g
      <4> QED
        BY <3>1, <4>1, <4>2
    <3> HIDE DEF g
    <3> QED
      BY <3>2, <3>3
  <2>3. g = [k \in 0 .. n + 1 |-> g[k]]
    OBVIOUS
  <2> HIDE DEF g
  <2>4. IsSum(g, n + 1)
    BY <2>2, <2>3
  <2> QED
    BY <2>4
<1>3. IsSum(sum, width)
  <2>1. width \in Known
    <3>1. width \in Nat /\ width \in 0 .. width
      OBVIOUS
    <3> HIDE DEF Known
    <3> QED
      BY <1>1, <1>2, <3>1, UpTo
  <2>2. \E f : IsSum(f, width)
    BY <2>1
  <2> HIDE DEF IsSum
  <2> QED
    BY <2>2
<1>4. FromBits(bits, width) = sum[width]
  BY DEF FromBits
<1> HIDE DEF sum
<1>5. sum[0] = 0 /\ \A n \in 0 .. width - 1 :
        sum[n + 1] = sum[n] + bits[n] * TwoTo[n]
  <2>1. sum[0] = 0
    BY <1>3
  <2>2. ASSUME NEW n \in 0 .. width - 1
        PROVE  sum[n + 1] = sum[n] + bits[n] * TwoTo[n]
    <3>1. (n + 1) - 1 = n /\ n + 1 \in 0 .. width
      OBVIOUS
    <3> QED
      BY <1>3, <3>1
  <2> QED
    BY <2>1, <2>2
<1> QED
  BY <1>4, <1>5

(* Bits taken out of a number, from some place on, are a quotient and a       *)
(* remainder of it. *)
LEMMA FromBitsOf ==
  ASSUME NEW v \in Int, NEW from \in 0 .. 64, NEW bits, NEW width \in 0 .. 64,
         from + width <= 64,
         \A k \in 0 .. width - 1 : bits[k] = BitOf(v, from + k)
  PROVE  FromBits(bits, width) = (v \div TwoTo[from]) % TwoTo[width]
<1> DEFINE u == v \div TwoTo[from]
<1>1. PICK sum : /\ sum[0] = 0
                 /\ \A n \in 0 .. width - 1 :
                      sum[n + 1] = sum[n] + bits[n] * TwoTo[n]
                 /\ FromBits(bits, width) = sum[width]
  BY FromBitsSum
<1>2. sum[0] = 0 /\ \A n \in 0 .. width - 1 :
        sum[n + 1] = sum[n] + bits[n] * TwoTo[n]
  BY <1>1
<1>3. u \in Int /\ \A n \in 0 .. width - 1 : BitOf(v, from + n) = (u \div TwoTo[n]) % 2
  <2>1. TwoTo[from] \in Nat \ {0}
    BY TwoToType
  <2>2. ASSUME NEW n \in 0 .. width - 1 PROVE BitOf(v, from + n) = (u \div TwoTo[n]) % 2
    <3>1. n \in 0 .. 64 /\ from + n <= 64
      OBVIOUS
    <3>2. TwoTo[n] \in Nat \ {0} /\ TwoTo[from + n] = TwoTo[from] * TwoTo[n]
      BY <3>1, TwoToType, TwoToAdd
    <3> QED
      BY <2>1, <3>2, DivDiv DEF BitOf
  <2> QED
    BY <2>1, <2>2, DivMod
<1> DEFINE S == {n \in 0 .. width : sum[n] = u % TwoTo[n]}
<1> HIDE DEF u
<1>4. 0 \in S
  BY <1>2, <1>3, TwoToType
<1>5. ASSUME NEW n \in 0 .. width - 1, n \in S PROVE n + 1 \in S
  <2>1. n \in 0 .. 63 /\ n \in 0 .. 64
    OBVIOUS
  <2>2. TwoTo[n] \in Nat \ {0} /\ TwoTo[n + 1] = 2 * TwoTo[n]
    BY <2>1, TwoToType, Zenon
  <2>3. u % TwoTo[n + 1] = (u % TwoTo[n]) + ((u \div TwoTo[n]) % 2) * TwoTo[n]
    BY <1>3, <2>2, NextBit
  <2>4. sum[n + 1] = (u % TwoTo[n]) + ((u \div TwoTo[n]) % 2) * TwoTo[n]
    BY <1>2, <1>3, <1>5
  <2> QED
    BY <2>3, <2>4
<1>6. width \in S
  <2>1. width \in Nat /\ width \in 0 .. width
    OBVIOUS
  <2> HIDE DEF S
  <2> QED
    BY <1>4, <1>5, <2>1, UpTo
<1> QED
  BY <1>1, <1>6 DEF u

(* A number of some bits is below the power of their number. *)
LEMMA FromBitsRange ==
  ASSUME NEW bits, NEW width \in 0 .. 64,
         \A k \in 0 .. width - 1 : bits[k] \in {0, 1}
  PROVE  FromBits(bits, width) \in 0 .. TwoTo[width] - 1
<1>1. PICK sum : /\ sum[0] = 0
                 /\ \A n \in 0 .. width - 1 :
                      sum[n + 1] = sum[n] + bits[n] * TwoTo[n]
                 /\ FromBits(bits, width) = sum[width]
  BY FromBitsSum
<1> DEFINE S == {n \in 0 .. width : sum[n] \in 0 .. TwoTo[n] - 1}
<1>2. 0 \in S
  BY <1>1, TwoToType
<1>3. ASSUME NEW n \in 0 .. width - 1, n \in S PROVE n + 1 \in S
  <2>1. n \in 0 .. 63 /\ n \in 0 .. 64
    OBVIOUS
  <2>2. TwoTo[n] \in Nat \ {0} /\ TwoTo[n + 1] = 2 * TwoTo[n]
    BY <2>1, TwoToType, Zenon
  <2>3. sum[n + 1] = sum[n] + bits[n] * TwoTo[n]
    BY <1>1
  <2>4. bits[n] * TwoTo[n] \in {0, TwoTo[n]}
    BY <2>2
  <2> QED
    BY <1>3, <2>2, <2>3, <2>4
<1>4. width \in S
  <2>1. width \in Nat /\ width \in 0 .. width
    OBVIOUS
  <2> HIDE DEF S
  <2> QED
    BY <1>2, <1>3, <2>1, UpTo
<1> QED
  BY <1>1, <1>4

----------------------------------------------------------------------------
(* What arithmetic does to the bits.                                         *)

(* A multiple of the divisor. *)
LEMMA DivCarry ==
  ASSUME NEW p \in Nat \ {0}, NEW v \in Int, NEW c \in Int
  PROVE  (v + c * p) \div p = (v \div p) + c /\ (v + c * p) % p = v % p
<1> DEFINE q == v \div p
           r == v % p
           w == v + c * p
<1>1. q \in Int /\ r \in 0 .. p - 1 /\ v = p * q + r
  BY DivMod
<1> HIDE DEF q, r
<1>2. p * (q + c) = p * q + c * p /\ q + c \in Int
  BY <1>1
<1>3. p * q \in Int /\ c * p \in Int
  BY <1>1
<1>4. w = p * (q + c) + r /\ w \in Int
  BY <1>1, <1>2, <1>3
<1> HIDE DEF w
<1>5. w \div p = q + c /\ w % p = r
  BY <1>1, <1>2, <1>4, DivModUnique
<1> QED
  BY <1>5 DEF w, q, r

(* The remainder differs from the number by a multiple of the divisor. *)
LEMMA Remainder ==
  ASSUME NEW p \in Nat \ {0}, NEW v \in Int
  PROVE  \E c \in Int : v % p = v + c * p
<1> DEFINE q == v \div p
           r == v % p
<1>1. q \in Int /\ r \in 0 .. p - 1 /\ v = p * q + r
  BY DivMod
<1> HIDE DEF q, r
<1>2. p * q \in Int /\ (-q) * p = -(p * q) /\ -q \in Int
  BY <1>1
<1>3. r = v + (-q) * p
  BY <1>1, <1>2
<1> QED
  BY <1>2, <1>3 DEF r

(* A multiple of a power does not change the bits below it. *)
LEMMA BitOfCarry ==
  ASSUME NEW n \in 0 .. 64, NEW i \in 0 .. n - 1, NEW v \in Int, NEW c \in Int
  PROVE  BitOf(v + c * TwoTo[n], i) = BitOf(v, i)
<1> DEFINE p == TwoTo[i]
           q == TwoTo[n - i - 1]
           d == c * q
           w == c * TwoTo[n]
<1>1. p \in Nat \ {0} /\ q \in Nat \ {0}
  <2>1. i \in 0 .. 64 /\ n - i - 1 \in 0 .. 64
    OBVIOUS
  <2> QED
    BY <2>1, TwoToType
<1>2. TwoTo[n] = 2 * q * p
  <2>1. n - i - 1 \in 0 .. 63 /\ (n - i - 1) + 1 = n - i
    OBVIOUS
  <2>2. TwoTo[n - i] = 2 * q
    BY <2>1, TwoToType
  <2>3. i \in 0 .. 64 /\ n - i \in 0 .. 64 /\ i + (n - i) <= 64 /\ i + (n - i) = n
    OBVIOUS
  <2>4. TwoTo[i + (n - i)] = p * TwoTo[n - i]
    BY <2>3, TwoToAdd
  <2>5. TwoTo[n] = p * (2 * q)
    BY <2>2, <2>3, <2>4
  <2> HIDE DEF p, q
  <2> QED
    BY <1>1, <2>5
<1> HIDE DEF p, q
<1>3. d \in Int /\ w = (2 * d) * p
  BY <1>1, <1>2
<1> HIDE DEF d, w
<1>4. (v + (2 * d) * p) \div p = (v \div p) + 2 * d
  BY <1>1, <1>3, DivCarry
<1> DEFINE x == v \div p
<1>5. x \in Int
  BY <1>1, DivMod
<1>6. (v + w) \div p = x + 2 * d
  BY <1>3, <1>4
<1> HIDE DEF x
<1>7. (x + 2 * d) % 2 = x % 2
  BY <1>3, <1>5
<1> QED
  BY <1>6, <1>7 DEF BitOf, x, w, p

LEMMA BitOfRemainder ==
  ASSUME NEW n \in 0 .. 64, NEW i \in 0 .. n - 1, NEW v \in Int
  PROVE  BitOf(v % TwoTo[n], i) = BitOf(v, i)
<1>1. TwoTo[n] \in Nat \ {0}
  BY TwoToType
<1>2. PICK c \in Int : v % TwoTo[n] = v + c * TwoTo[n]
  BY <1>1, Remainder
<1>3. BitOf(v + c * TwoTo[n], i) = BitOf(v, i)
  BY BitOfCarry, Zenon
<1> QED
  BY <1>2, <1>3

(* A shift to the right moves the bits down. *)
LEMMA BitOfQuotient ==
  ASSUME NEW s \in 0 .. 64, NEW i \in 0 .. 64 - s, NEW v \in Int
  PROVE  BitOf(v \div TwoTo[s], i) = BitOf(v, i + s)
<1>1. i \in 0 .. 64 /\ s + i <= 64 /\ i + s = s + i
  OBVIOUS
<1>2. TwoTo[s] \in Nat \ {0} /\ TwoTo[i] \in Nat \ {0}
  BY <1>1, TwoToType
<1>3. TwoTo[i + s] = TwoTo[s] * TwoTo[i]
  BY <1>1, TwoToAdd
<1>4. (v \div TwoTo[s]) \div TwoTo[i] = v \div TwoTo[i + s]
  BY <1>2, <1>3, DivDiv
<1> QED
  BY <1>4 DEF BitOf

(* A shift to the left moves them up. *)
LEMMA BitOfProduct ==
  ASSUME NEW s \in 0 .. 64, NEW i \in 0 .. 63, NEW v \in Int
  PROVE  BitOf(v * TwoTo[s], i) = IF i >= s THEN BitOf(v, i - s) ELSE 0
<1> DEFINE p == TwoTo[s]
           w == v * p
<1>1. p \in Nat \ {0}
  BY TwoToType
<1>2. CASE i >= s
  <2>1. w \div p = v /\ w \in Int
    <3>1. 0 \div p = 0 /\ 0 + v * p = w /\ 0 + v = v
      BY <1>1
    <3>2. (0 + v * p) \div p = (0 \div p) + v
      BY <1>1, DivCarry
    <3> QED
      BY <1>1, <3>1, <3>2
  <2>2. i - s \in 0 .. 64 - s /\ (i - s) + s = i
    BY <1>2
  <2> HIDE DEF w
  <2>3. BitOf(w \div TwoTo[s], i - s) = BitOf(w, (i - s) + s)
    BY <2>1, <2>2, BitOfQuotient, Zenon
  <2> HIDE DEF p
  <2>4. w \div TwoTo[s] = v
    BY <2>1 DEF p
  <2>5. BitOf(w, i) = BitOf(v, i - s)
    BY <2>2, <2>3, <2>4
  <2> QED
    BY <1>2, <2>5 DEF w, p
<1>3. CASE ~(i >= s)
  <2>1. i \in 0 .. s - 1 /\ i \in 0 .. 64
    BY <1>3
  <2>2. 0 + v * p = w /\ 0 \in Int
    BY <1>1
  <2>3. BitOf(0 + v * TwoTo[s], i) = BitOf(0, i)
    BY <2>1, <2>2, BitOfCarry, Zenon
  <2>4. BitOf(0, i) = 0
    <3>1. TwoTo[i] \in Nat \ {0}
      BY <2>1, TwoToType
    <3> DEFINE d == TwoTo[i]
    <3> HIDE DEF d
    <3>2. d \in Nat \ {0}
      BY <3>1 DEF d
    <3>3. 0 \div d = 0
      BY <3>2
    <3> QED
      BY <3>3 DEF BitOf, d
  <2> QED
    BY <1>3, <2>2, <2>3, <2>4
<1> QED
  BY <1>2, <1>3

(* The bits from some place on are all the sign of a number that is small     *)
(* enough. *)
LEMMA BitOfHigh ==
  ASSUME NEW n \in 0 .. 64, NEW i \in n .. 64, NEW v \in -TwoTo[n] .. TwoTo[n] - 1
  PROVE  BitOf(v, i) = IF v < 0 THEN 1 ELSE 0
<1> DEFINE p == TwoTo[i]
           m == TwoTo[n]
           q == IF v < 0 THEN -1 ELSE 0
<1>1. p \in Nat \ {0} /\ m \in Nat \ {0} /\ m <= p
  <2>1. i \in 0 .. 64
    OBVIOUS
  <2>2. p \in Nat \ {0} /\ m \in Nat \ {0}
    BY <2>1, TwoToType, Zenon
  <2>3. m <= p
    BY TwoToGrows, Zenon
  <2> QED
    BY <2>2, <2>3
<1>2. v \in -m .. m - 1
  OBVIOUS
<1> HIDE DEF p, m
<1>3. v \in Int /\ v \div p = q
  <2>1. CASE v < 0
    <3>1. v = p * (-1) + (v + p) /\ v + p \in 0 .. p - 1 /\ -1 \in Int /\ v \in Int
      BY <1>1, <1>2, <2>1
    <3>2. v \div p = -1
      BY <1>1, <3>1, DivModUnique
    <3> QED
      BY <2>1, <3>1, <3>2
  <2>2. CASE ~(v < 0)
    <3>1. v = p * 0 + v /\ v \in 0 .. p - 1 /\ 0 \in Int /\ v \in Int
      BY <1>1, <1>2, <2>2
    <3>2. v \div p = 0
      BY <1>1, <3>1, DivModUnique
    <3> QED
      BY <2>2, <3>1, <3>2
  <2> QED
    BY <2>1, <2>2
<1>4. q % 2 = IF v < 0 THEN 1 ELSE 0
  OBVIOUS
<1> HIDE DEF q
<1> QED
  BY <1>3, <1>4 DEF BitOf, p

(* A quotient is as much smaller as the divisor is large, and keeps the sign. *)
LEMMA QuotientRange ==
  ASSUME NEW p \in Nat \ {0}, NEW m \in Nat \ {0}, NEW v \in -(p * m) .. p * m - 1
  PROVE  v \div p \in -m .. m - 1 /\ (v \div p < 0 <=> v < 0)
<1> DEFINE q == v \div p
           r == v % p
           w == p * m
<1>1. v \in Int /\ w \in Int /\ v \in -w .. w - 1
  OBVIOUS
<1> HIDE DEF w
<1>2. q \in Int /\ r \in 0 .. p - 1 /\ v = p * q + r
  BY <1>1, DivMod
<1> HIDE DEF q, r
<1>3. q < m
  <2> SUFFICES ASSUME q >= m PROVE FALSE
    BY <1>2
  <2>1. p * q >= p * m /\ p * q \in Int
    BY <1>2
  <2> QED
    BY <1>1, <1>2, <2>1 DEF w
<1>4. p * q + p = p * (q + 1) /\ p * q \in Int
  BY <1>2
<1>5. -m <= q
  <2> SUFFICES ASSUME q + 1 <= -m PROVE FALSE
    BY <1>2
  <2>1. p * (q + 1) <= p * (-m)
    BY <1>2
  <2>2. p * (-m) = -w
    BY DEF w
  <2> QED
    BY <1>1, <1>2, <1>4, <2>1, <2>2
<1>6. q >= 0 => v >= 0
  <2> SUFFICES ASSUME q >= 0 PROVE v >= 0
    OBVIOUS
  <2>1. p * q >= 0
    BY <1>2
  <2> QED
    BY <1>2, <1>4, <2>1
<1>7. q < 0 => v < 0
  <2> SUFFICES ASSUME q < 0 PROVE v < 0
    OBVIOUS
  <2>1. p * (q + 1) <= 0
    BY <1>2
  <2> QED
    BY <1>2, <1>4, <2>1
<1> QED
  BY <1>1, <1>2, <1>3, <1>5, <1>6, <1>7 DEF q

(* The bits of a number shifted to the right: from above comes the sign. *)
LEMMA BitOfShifted ==
  ASSUME NEW n \in 0 .. 64, NEW s \in 0 .. n, NEW v \in -TwoTo[n] .. TwoTo[n] - 1,
         NEW i \in 0 .. 64
  PROVE  BitOf(v \div TwoTo[s], i) =
           IF i + s < n THEN BitOf(v, i + s) ELSE IF v < 0 THEN 1 ELSE 0
<1>1. s \in 0 .. 64 /\ n - s \in 0 .. 64 /\ s + (n - s) <= 64 /\ s + (n - s) = n
  OBVIOUS
<1>2. /\ TwoTo[n] \in Nat \ {0} /\ TwoTo[s] \in Nat \ {0} /\ TwoTo[n - s] \in Nat \ {0}
      /\ TwoTo[n] = TwoTo[s] * TwoTo[n - s]
  BY <1>1, TwoToType, TwoToAdd
<1>3. v \in Int
  BY <1>2
<1>4. CASE i + s < n
  <2>1. i \in 0 .. 64 - s
    BY <1>4
  <2>2. BitOf(v \div TwoTo[s], i) = BitOf(v, i + s)
    BY <1>1, <1>3, <2>1, BitOfQuotient, Zenon
  <2> QED
    BY <1>4, <2>2
<1>5. CASE ~(i + s < n)
  <2> DEFINE u == v \div TwoTo[s]
  <2>1. u \in -TwoTo[n - s] .. TwoTo[n - s] - 1 /\ (u < 0 <=> v < 0)
    <3> DEFINE p == TwoTo[s]
               m == TwoTo[n - s]
    <3>1. p \in Nat \ {0} /\ m \in Nat \ {0} /\ v \in -(p * m) .. p * m - 1
      BY <1>2
    <3> HIDE DEF p, m
    <3>2. v \div p \in -m .. m - 1 /\ (v \div p < 0 <=> v < 0)
      BY <3>1, QuotientRange
    <3> QED
      BY <3>2 DEF p, m
  <2>2. i \in (n - s) .. 64
    BY <1>5
  <2> HIDE DEF u
  <2>3. BitOf(u, i) = IF u < 0 THEN 1 ELSE 0
    BY <1>1, <2>1, <2>2, BitOfHigh, Zenon
  <2> QED
    BY <1>5, <2>1, <2>3 DEF u
<1> QED
  BY <1>4, <1>5

(* A number made of bits has them. *)
LEMMA BitOfFromBits ==
  ASSUME NEW bits, NEW width \in 0 .. 64, NEW i \in 0 .. width - 1,
         \A k \in 0 .. width - 1 : bits[k] \in {0, 1}
  PROVE  BitOf(FromBits(bits, width), i) = bits[i]
<1>1. PICK sum : /\ sum[0] = 0
                 /\ \A n \in 0 .. width - 1 :
                      sum[n + 1] = sum[n] + bits[n] * TwoTo[n]
                 /\ FromBits(bits, width) = sum[width]
  BY FromBitsSum
<1> DEFINE S == {n \in 0 .. width : /\ sum[n] \in 0 .. TwoTo[n] - 1
                                    /\ \A k \in 0 .. n - 1 : BitOf(sum[n], k) = bits[k]}
<1>2. 0 \in S
  BY <1>1, TwoToType
<1>3. ASSUME NEW n \in 0 .. width - 1, n \in S PROVE n + 1 \in S
  <2> DEFINE t == sum[n]
             b == bits[n]
             p == TwoTo[n]
  <2>1. n \in 0 .. 63 /\ n \in 0 .. 64
    OBVIOUS
  <2>2. p \in Nat \ {0} /\ TwoTo[n + 1] = 2 * p /\ b \in {0, 1} /\ t \in 0 .. p - 1
    <3>1. p \in Nat \ {0} /\ TwoTo[n + 1] = 2 * p
      BY <2>1, TwoToType, Zenon
    <3> QED
      BY <1>3, <3>1
  <2>3. sum[n + 1] = t + b * p
    BY <1>1
  <2>4. \A k \in 0 .. n - 1 : BitOf(t, k) = bits[k]
    BY <1>3
  <2> HIDE DEF t, b, p
  <2>5. t + b * p \in 0 .. 2 * p - 1 /\ t \in Int /\ b \in Int
    BY <2>2
  <2>6. ASSUME NEW k \in 0 .. n - 1 PROVE BitOf(t + b * p, k) = bits[k]
    <3>1. BitOf(t + b * TwoTo[n], k) = BitOf(t, k)
      BY <2>1, <2>5, BitOfCarry, Zenon
    <3> QED
      BY <2>4, <3>1 DEF p
  <2>7. BitOf(t + b * p, n) = b
    <3>1. (t + b * p) \div p = (t \div p) + b
      BY <2>2, <2>5, DivCarry
    <3>2. t \div p = 0
      BY <2>2
    <3>3. (t + b * p) \div p = b
      BY <2>5, <3>1, <3>2
    <3>4. b % 2 = b
      BY <2>2
    <3> QED
      BY <3>3, <3>4 DEF BitOf, p
  <2>8. \A k \in 0 .. (n + 1) - 1 : BitOf(t + b * p, k) = bits[k]
    <3>1. \A k \in 0 .. (n + 1) - 1 : k \in 0 .. n - 1 \/ k = n
      OBVIOUS
    <3> QED
      BY <2>6, <2>7, <3>1 DEF b
  <2>9. n + 1 \in 0 .. width /\ sum[n + 1] \in 0 .. TwoTo[n + 1] - 1
    BY <2>2, <2>3, <2>5
  <2> QED
    BY <2>3, <2>8, <2>9
<1>4. width \in S
  <2>1. width \in Nat /\ width \in 0 .. width
    OBVIOUS
  <2> HIDE DEF S
  <2> QED
    BY <1>2, <1>3, <2>1, UpTo
<1> QED
  BY <1>1, <1>4

----------------------------------------------------------------------------
(* Comparing numbers by their bits.                                          *)

(* A quotient is the next one and a bit. *)
LEMMA QuotientBit ==
  ASSUME NEW i \in 0 .. 63, NEW v \in Int
  PROVE  v \div TwoTo[i] = 2 * (v \div TwoTo[i + 1]) + BitOf(v, i)
<1> DEFINE p == TwoTo[i]
           q == v \div p
<1>1. p \in Nat \ {0} /\ TwoTo[i + 1] = p * 2 /\ i \in 0 .. 64
  BY TwoToType
<1> HIDE DEF p
<1>2. q \in Int
  BY <1>1, DivMod
<1>3. q \div 2 = v \div (p * 2)
  <2>1. 2 \in Nat \ {0} /\ v \in Int /\ p \in Nat \ {0}
    BY <1>1
  <2> QED
    BY <2>1, DivDiv, Zenon
<1> HIDE DEF q
<1>4. q = 2 * (q \div 2) + (q % 2)
  BY <1>2
<1> QED
  BY <1>1, <1>3, <1>4 DEF BitOf, p, q

(* Numbers with the same bits from a place on have the same quotient. *)
LEMMA EqualBits ==
  ASSUME NEW n \in 0 .. 64, NEW i \in 0 .. n,
         NEW x \in 0 .. TwoTo[n] - 1, NEW y \in 0 .. TwoTo[n] - 1,
         \A j \in i .. n - 1 : BitOf(x, j) = BitOf(y, j)
  PROVE  x \div TwoTo[i] = y \div TwoTo[i]
<1> DEFINE S == {k \in 0 .. n - i : x \div TwoTo[n - k] = y \div TwoTo[n - k]}
<1>1. TwoTo[n] \in Nat \ {0} /\ x \in Int /\ y \in Int
  <2>1. TwoTo[n] \in Nat \ {0}
    BY TwoToType, Zenon
  <2> QED
    BY <2>1
<1>2. 0 \in S
  <2> DEFINE p == TwoTo[n]
  <2>1. p \in Nat \ {0} /\ x \in 0 .. p - 1 /\ y \in 0 .. p - 1
    BY <1>1
  <2> HIDE DEF p
  <2>2. x \div p = 0 /\ y \div p = 0
    BY <2>1
  <2>3. n - 0 = n /\ 0 \in 0 .. n - i
    OBVIOUS
  <2> QED
    BY <2>2, <2>3 DEF p
<1>3. ASSUME NEW k \in 0 .. (n - i) - 1, k \in S PROVE k + 1 \in S
  <2> DEFINE j == n - (k + 1)
  <2>1. j \in 0 .. 63 /\ j \in i .. n - 1 /\ j + 1 = n - k /\ k + 1 \in 0 .. n - i
    OBVIOUS
  <2>2. x \div TwoTo[n - k] = y \div TwoTo[n - k]
    BY <1>3
  <2> HIDE DEF j
  <2>3. /\ x \div TwoTo[j] = 2 * (x \div TwoTo[j + 1]) + BitOf(x, j)
        /\ y \div TwoTo[j] = 2 * (y \div TwoTo[j + 1]) + BitOf(y, j)
    BY <1>1, <2>1, QuotientBit, Zenon
  <2>4. BitOf(x, j) = BitOf(y, j)
    BY <2>1
  <2>5. x \div TwoTo[j] = y \div TwoTo[j]
    BY <2>1, <2>2, <2>3, <2>4
  <2> QED
    BY <2>1, <2>5 DEF j
<1>4. n - i \in S
  <2>1. n - i \in Nat /\ n - i \in 0 .. n - i
    OBVIOUS
  <2> HIDE DEF S
  <2> QED
    BY <1>2, <1>3, <2>1, UpTo
<1>5. n - (n - i) = i
  OBVIOUS
<1> QED
  BY <1>4, <1>5

(* The highest bit in which they differ decides which is less. *)
LEMMA LessByBit ==
  ASSUME NEW n \in 0 .. 64, NEW i \in 0 .. n - 1,
         NEW x \in 0 .. TwoTo[n] - 1, NEW y \in 0 .. TwoTo[n] - 1,
         \A j \in i + 1 .. n - 1 : BitOf(x, j) = BitOf(y, j),
         BitOf(x, i) = 0, BitOf(y, i) = 1
  PROVE  x < y
<1> DEFINE p == TwoTo[i]
           h == x \div TwoTo[i + 1]
<1>1. i \in 0 .. 63 /\ i \in 0 .. 64 /\ i + 1 \in 0 .. n /\ i + 1 \in 0 .. 64
  OBVIOUS
<1>2. x \in Int /\ y \in Int /\ p \in Nat \ {0} /\ TwoTo[i + 1] \in Nat \ {0}
  <2>1. TwoTo[n] \in Nat \ {0} /\ p \in Nat \ {0} /\ TwoTo[i + 1] \in Nat \ {0}
    BY <1>1, TwoToType, Zenon
  <2>2. x \in Int /\ y \in Int
    BY <2>1
  <2> QED
    BY <2>1, <2>2
<1>3. h \in Int
  BY <1>2, DivMod
<1>4. y \div TwoTo[i + 1] = h
  <2>1. \A j \in i + 1 .. n - 1 : BitOf(x, j) = BitOf(y, j)
    OBVIOUS
  <2> DEFINE k == i + 1
  <2>2. \A j \in k .. n - 1 : BitOf(x, j) = BitOf(y, j)
    BY <2>1
  <2>3. k \in 0 .. n
    OBVIOUS
  <2> HIDE DEF k
  <2>4. x \div TwoTo[k] = y \div TwoTo[k]
    BY <2>2, <2>3, EqualBits
  <2> QED
    BY <2>4 DEF k
<1>5. x \div p = 2 * h + 0 /\ y \div p = 2 * h + 1
  <2>1. /\ x \div p = 2 * h + BitOf(x, i)
        /\ y \div p = 2 * (y \div TwoTo[i + 1]) + BitOf(y, i)
    BY <1>1, <1>2, QuotientBit
  <2> HIDE DEF p, h
  <2> QED
    BY <1>4, <2>1
<1> DEFINE r == x % p
           s == y % p
           g == 2 * h
           w == p * g
<1>6. g \in Int
  BY <1>3
<1> HIDE DEF p, h
<1>7. r \in 0 .. p - 1 /\ x = p * (x \div p) + r
  BY <1>2, DivMod
<1>8. s \in 0 .. p - 1 /\ y = p * (y \div p) + s
  BY <1>2, DivMod
<1>9. x \div p = g /\ y \div p = g + 1
  BY <1>3, <1>5
<1> HIDE DEF r, s, g
<1>10. p * (g + 1) = p * g + p /\ p * g \in Int
  BY <1>2, <1>6
<1>11. x = w + r /\ y = (w + p) + s /\ w \in Int
  BY <1>7, <1>8, <1>9, <1>10
<1> HIDE DEF w
<1> QED
  BY <1>2, <1>7, <1>8, <1>11
============================================================================
