------------------------------ MODULE WordProofs -----------------------------
(***************************************************************************)
(* Arithmetic the proofs about the components share: induction on a set of *)
(* numbers, sums, powers of two, remainders, digits and patterns, for      *)
(* every word size; and on top of them the scalar ALU and the lanes of the *)
(* two SIMD units, which have no state of their own, against the reference *)
(* arithmetic.                                                             *)
(***************************************************************************)
EXTENDS Alu, Datapath, IsaArith, WellFoundedInduction, TLAPS

-----------------------------------------------------------------------------
(* Induction *)

\* A set with 0 and, with each number, its successor has every number.  The
\* library's induction principles speak of a predicate; this one speaks of
\* a set, which the provers can instantiate.
LEMMA SetInduction ==
  ASSUME NEW T, 0 \in T, \A n \in Nat : n \in T => n + 1 \in T
  PROVE  \A n \in Nat : n \in T
  <1> DEFINE Less == OpToRel(<, Nat)
  <1> SUFFICES ASSUME Nat \ T # {} PROVE FALSE
    OBVIOUS
  <1>1. PICK x \in Nat \ T : \A y \in Nat \ T : ~ (<< y, x >> \in Less)
    BY NatLessThanWellFounded, WFMin
  <1>2. x # 0 /\ x - 1 \in Nat
    OBVIOUS
  <1>3. << x - 1, x >> \in Less
    BY <1>1, <1>2 DEF OpToRel
  <1>4. x - 1 \in T
    BY <1>1, <1>2, <1>3
  <1> QED
    BY <1>2, <1>4

\* The same up to a bound.
LEMMA UpToInduction ==
  ASSUME NEW m \in Nat, NEW T, 0 \in T, \A n \in 0 .. m - 1 : n \in T => n + 1 \in T
  PROVE  \A n \in 0 .. m : n \in T
  <1> DEFINE U == {n \in Nat : n <= m => n \in T}
  <1>1. 0 \in U
    OBVIOUS
  <1>2. \A n \in Nat : n \in U => n + 1 \in U
    OBVIOUS
  <1>3. \A n \in Nat : n \in U
    <2> HIDE DEF U
    <2> QED
      BY <1>1, <1>2, SetInduction
  <1> QED
    BY <1>3

\* The recursive definition of the sums defines them.
LEMMA SumsExist ==
  ASSUME NEW t, NEW size \in Nat
  PROVE  Sums(t, size) = [n \in 0 .. size |-> IF n = 0 THEN 0 ELSE Sums(t, size)[n - 1] + t[n - 1]]
  <1> DEFINE Is(g, n) == g = [k \in 0 .. n |-> IF k = 0 THEN 0 ELSE g[k - 1] + t[k - 1]]
             T == {n \in Nat : \E g : Is(g, n)}
  <1>1. 0 \in T
    <2>1. Is([k \in 0 .. 0 |-> 0], 0)
      OBVIOUS
    <2> QED
      BY <2>1
  <1>2. \A n \in Nat : n \in T => n + 1 \in T
    <2> SUFFICES ASSUME NEW n \in Nat, NEW g, Is(g, n)
                 PROVE  \E h : Is(h, n + 1)
      OBVIOUS
    <2> DEFINE h == [k \in 0 .. n + 1 |-> IF k = n + 1 THEN g[n] + t[n] ELSE g[k]]
    <2>1. \A k \in 0 .. n : g[k] = IF k = 0 THEN 0 ELSE g[k - 1] + t[k - 1]
      OBVIOUS
    <2>2. \A k \in 0 .. n + 1 : h[k] = IF k = 0 THEN 0 ELSE h[k - 1] + t[k - 1]
      BY <2>1
    <2>3. Is(h, n + 1)
      BY <2>2
    <2> QED
      BY <2>3
  <1>3. size \in T
    BY <1>1, <1>2, SetInduction
  <1>4. \E g : Is(g, size)
    BY <1>3
  <1> QED
    BY <1>4 DEF Sums

\* The partial sums of a sequence, one term at a time.
LEMMA SumsStep ==
  ASSUME NEW size \in Nat, NEW t, \A k \in 0 .. size - 1 : t[k] \in Int
  PROVE  /\ Sums(t, size)[0] = 0
         /\ \A n \in 0 .. size - 1 : Sums(t, size)[n + 1] = Sums(t, size)[n] + t[n]
         /\ \A n \in 0 .. size : Sums(t, size)[n] \in Int
  <1> DEFINE s == Sums(t, size)
             T == {n \in 0 .. size : s[n] \in Int}
  <1>1. s = [n \in 0 .. size |-> IF n = 0 THEN 0 ELSE s[n - 1] + t[n - 1]]
    BY SumsExist
  <1> HIDE DEF s
  <1>2. s[0] = 0 /\ \A n \in 0 .. size - 1 : s[n + 1] = s[n] + t[n]
    <2>1. \A n \in 0 .. size : s[n] = IF n = 0 THEN 0 ELSE s[n - 1] + t[n - 1]
      BY <1>1
    <2>2. \A n \in 0 .. size - 1 : n + 1 \in 0 .. size /\ n + 1 # 0 /\ (n + 1) - 1 = n
      OBVIOUS
    <2> QED
      BY <2>1, <2>2
  <1>3. 0 \in T /\ \A n \in 0 .. size - 1 : n \in T => n + 1 \in T
    BY <1>2
  <1>4. \A n \in 0 .. size : n \in T
    <2> HIDE DEF T
    <2> QED
      BY <1>3, UpToInduction
  <1> QED
    BY <1>2, <1>4 DEF s

-----------------------------------------------------------------------------
(* Powers of two *)

\* Where powers of two double, they are positive and outgrow their exponents.
LEMMA PowersUpTo ==
  ASSUME NEW m \in Nat, \A n \in 0 .. m - 1 : 2^(n + 1) = 2 * 2^n
  PROVE  \A n \in 0 .. m : 2^n \in Nat \ {0} /\ n < 2^n
  <1> DEFINE T == {n \in 0 .. m : 2^n \in Nat \ {0} /\ n < 2^n}
  <1>1. 0 \in T
    BY PowersAssumption
  <1>2. \A n \in 0 .. m - 1 : n \in T => n + 1 \in T
    <2> SUFFICES ASSUME NEW n \in 0 .. m - 1, 2^n \in Nat \ {0}, n < 2^n
                 PROVE  n + 1 \in 0 .. m /\ 2^(n + 1) \in Nat \ {0} /\ n + 1 < 2^(n + 1)
      OBVIOUS
    <2>1. 2^(n + 1) = 2 * 2^n
      OBVIOUS
    <2> QED
      BY <2>1
  <1>3. \A n \in 0 .. m : n \in T
    <2> HIDE DEF T
    <2> QED
      BY <1>1, <1>2, UpToInduction
  <1> QED
    BY <1>3

\* The word has a positive number of bits, four times those of a byte.
LEMMA Sizes ==
  /\ XLEN \in Nat /\ ShBits \in 0 .. XLEN - 1 /\ 0 < XLEN
  /\ ByteBits \in Nat /\ 2 <= ByteBits /\ XLEN = 4 * ByteBits
  <1>1. ShBits \in Nat /\ 3 <= ShBits
    BY ShBitsAssumption
  <1>2. \A n \in 0 .. ShBits : 2^(n + 1) = 2 * 2^n
    BY PowersAssumption
  <1>3. \A n \in 0 .. ShBits : 2^n \in Nat \ {0} /\ n < 2^n
    BY <1>1, <1>2, PowersUpTo
  <1>4. XLEN \in Nat /\ ShBits < XLEN
    BY <1>1, <1>3 DEF XLEN
  <1>5. /\ 2^(ShBits - 2) \in Nat \ {0} /\ ShBits - 2 < 2^(ShBits - 2)
        /\ 2^((ShBits - 2) + 1) = 2 * 2^(ShBits - 2) /\ 2^((ShBits - 1) + 1) = 2 * 2^(ShBits - 1)
    <2>1. ShBits - 2 \in 0 .. ShBits /\ ShBits - 1 \in 0 .. ShBits
      BY <1>1
    <2> QED
      BY <2>1, <1>2, <1>3
  <1>6. (ShBits - 2) + 1 = ShBits - 1 /\ (ShBits - 1) + 1 = ShBits
    BY <1>1
  <1>7. XLEN = 4 * 2^(ShBits - 2)
    BY <1>5, <1>6 DEF XLEN
  <1>8. ByteBits = 2^(ShBits - 2)
    BY <1>5, <1>7 DEF ByteBits
  <1> QED
    BY <1>1, <1>4, <1>5, <1>7, <1>8

\* That holds up to one past the width of a word.
LEMMA PowerStep == 
  /\ 2^0 = 1 /\ 2^1 = 2 /\ 2^2 = 4 /\ 2^3 = 8
  /\ \A n \in 0 .. XLEN : 2^(n + 1) = 2 * 2^n
  /\ \A n \in 0 .. XLEN + 1 : 2^n \in Nat \ {0} /\ n < 2^n
  <1>1. 2^0 = 1 /\ \A n \in 0 .. XLEN : 2^(n + 1) = 2 * 2^n
    BY PowersAssumption
  <1>2. XLEN + 1 \in Nat /\ 0 .. (XLEN + 1) - 1 = 0 .. XLEN /\ XLEN >= 8
    BY Sizes
  <1>3. \A n \in 0 .. XLEN + 1 : 2^n \in Nat \ {0} /\ n < 2^n
    BY <1>1, <1>2, PowersUpTo
  <1>4. 0 \in 0 .. XLEN /\ 1 \in 0 .. XLEN /\ 2 \in 0 .. XLEN /\ 0 + 1 = 1 /\ 1 + 1 = 2 /\ 2 + 1 = 3
    BY <1>2, Sizes
  <1>5. 2^1 = 2 * 2^0 /\ 2^2 = 2 * 2^1 /\ 2^3 = 2 * 2^2
    BY <1>1, <1>4
  <1> QED
    BY <1>1, <1>3, <1>5

\* Exponents add.
LEMMA PowerAdd ==
  ASSUME NEW m \in Nat, NEW n \in Nat, m + n <= XLEN + 1
  PROVE  2^(m + n) = 2^m * 2^n
  <1> DEFINE T == {k \in 0 .. n : 2^(m + k) = 2^m * 2^k}
  <1>1. 0 \in T
    <2>1. m + 0 = m /\ m \in 0 .. XLEN + 1
      BY Sizes
    <2> QED
      BY <2>1, PowerStep
  <1>2. \A k \in 0 .. n - 1 : k \in T => k + 1 \in T
    <2> SUFFICES ASSUME NEW k \in 0 .. n - 1, 2^(m + k) = 2^m * 2^k
                 PROVE  2^(m + (k + 1)) = 2^m * 2^(k + 1)
      OBVIOUS
    <2>1. /\ m + (k + 1) = (m + k) + 1 /\ m + k \in 0 .. XLEN /\ k \in 0 .. XLEN
          /\ m \in 0 .. XLEN + 1 /\ k \in 0 .. XLEN + 1
      BY Sizes
    <2>2. 2^((m + k) + 1) = 2 * 2^(m + k) /\ 2^(k + 1) = 2 * 2^k
      BY <2>1, PowerStep
    <2>3. 2^m \in Nat /\ 2^k \in Nat
      BY <2>1, PowerStep
    <2>4. \A a, b \in Nat : 2 * (a * b) = a * (2 * b)
      OBVIOUS
    <2> QED
      BY <2>1, <2>2, <2>3, <2>4
  <1>3. \A k \in 0 .. n : k \in T
    <2> HIDE DEF T
    <2> QED
      BY <1>1, <1>2, UpToInduction
  <1> QED
    BY <1>3

\* The moduli of a byte, a half and a word.
LEMMA Moduli ==
  /\ ByteMod \in Nat \ {0, 1} /\ HalfMod \in Nat \ {0} /\ WordMod \in Nat \ {0}
  /\ HalfMod = ByteMod * ByteMod /\ WordMod = HalfMod * HalfMod
  <1>1. ByteMod \in Nat \ {0, 1}
    BY Sizes, PowerStep DEF ByteMod
  <1>2. HalfMod \in Nat \ {0}
    BY <1>1 DEF HalfMod
  <1>3. WordMod \in Nat \ {0}
    BY <1>2 DEF WordMod
  <1> QED
    BY <1>1, <1>2, <1>3 DEF HalfMod, WordMod

\* A byte has at least one bit.
LEMMA ByteBitsOK == ByteBits \in Nat \ {0}
  BY Sizes

\* A byte takes at least two values.
LEMMA ByteModOK == ByteMod \in Nat \ {0, 1}
  BY Moduli

\* The modulus of a word is two to its width.
LEMMA WordModIsPower ==
  /\ ByteMod = 2^ByteBits /\ HalfMod = 2^(2 * ByteBits) /\ WordMod = 2^XLEN
  /\ \E h \in Nat : ByteMod = 2 * h /\ HalfMod = 2 * (h * ByteMod) /\ WordMod = 2 * (h * ByteMod * HalfMod)
  <1> DEFINE b == ByteBits
  <1>1. b \in Nat /\ b + b <= XLEN + 1 /\ 2 * b = b + b /\ XLEN = (b + b) + (b + b) /\ b - 1 \in Nat
    BY Sizes
  <1> HIDE DEF b
  <1>2. 2^(b + b) = 2^b * 2^b
    BY <1>1, PowerAdd
  <1>3. 2^((b + b) + (b + b)) = 2^(b + b) * 2^(b + b)
    <2>1. b + b \in Nat /\ (b + b) + (b + b) <= XLEN + 1
      BY <1>1, Sizes
    <2> QED
      BY <2>1, PowerAdd
  <1>4. 2^b = ByteMod /\ HalfMod = 2^b * 2^b
    BY DEF b, ByteMod, HalfMod
  <1>5. PICK h \in Nat : ByteMod = 2 * h
    <2>1. b - 1 \in 0 .. XLEN /\ (b - 1) + 1 = b
      BY <1>1, Sizes
    <2>2. 2^((b - 1) + 1) = 2 * 2^(b - 1) /\ 2^(b - 1) \in Nat
      <3>1. b - 1 \in 0 .. XLEN + 1
        BY <2>1, Sizes
      <3> QED
        BY <2>1, <3>1, PowerStep
    <2> QED
      BY <1>4, <2>1, <2>2
  <1>6. \A M, g \in Nat : M = 2 * g => M * M = 2 * (g * M) /\ (M * M) * (M * M) = 2 * (g * M * (M * M))
    OBVIOUS
  <1>7. HalfMod = 2 * (h * ByteMod) /\ WordMod = 2 * (h * ByteMod * HalfMod)
    BY <1>5, <1>6, Moduli
  <1> QED
    BY <1>1, <1>2, <1>3, <1>4, <1>5, <1>7 DEF b, WordMod

\* The powers that place a lane in a word, multiplied out.
LEMMA Powers ==
  /\ 2^0 = 1 /\ 2^1 = 2 /\ 2^2 = 4
  /\ ByteMod^0 = 1 /\ ByteMod^1 = ByteMod /\ ByteMod^2 = HalfMod
  /\ ByteMod^3 = HalfMod * ByteMod /\ ByteMod^4 = WordMod
  /\ HalfMod^0 = 1 /\ HalfMod^1 = HalfMod /\ WordMod^0 = 1
  BY PowersAssumption, PowerStep

-----------------------------------------------------------------------------
(* Remainders *)

\* The quotient and the remainder of a division.
LEMMA DivMod ==
  ASSUME NEW n \in Nat \ {0}, NEW a \in Int
  PROVE  \E q \in Int : \E r \in 0 .. n - 1 : q * n + r = a /\ a % n = r /\ a \div n = q
  <1>1. a \div n \in Int /\ a % n \in 0 .. n - 1
    OBVIOUS
  <1>2. PICK q \in Int, r \in 0 .. n - 1 : q = a \div n /\ r = a % n
    BY <1>1
  <1>3. q * n + r = a
    BY <1>2
  <1> QED
    BY <1>2, <1>3

\* They are the only ones.
LEMMA ModUnique ==
  ASSUME NEW n \in Nat \ {0}, NEW k \in Int, NEW r \in 0 .. n - 1
  PROVE  (k * n + r) % n = r /\ (k * n + r) \div n = k
  OBVIOUS

\* A multiple of the modulus, a remainder taken early in a sum, in a
\* product or by a multiple of the modulus make no difference.
LEMMA ModShift ==
  ASSUME NEW n \in Nat \ {0}, NEW k \in Int, NEW c \in Int
  PROVE  (k * n + c) % n = c % n
  <1>1. PICK q \in Int, r \in 0 .. n - 1 : q * n + r = c /\ c % n = r
    BY DivMod
  <1>2. k * n + (q * n + r) = (k + q) * n + r /\ k + q \in Int
    OBVIOUS
  <1>3. ((k + q) * n + r) % n = r
    BY <1>2, ModUnique
  <1> QED
    BY <1>1, <1>2, <1>3

\* A remainder may be taken before an addition.
LEMMA ModAdd ==
  ASSUME NEW n \in Nat \ {0}, NEW a \in Int, NEW b \in Int
  PROVE  ((a % n) + b) % n = (a + b) % n
  <1>1. PICK q \in Int, r \in 0 .. n - 1 : q * n + r = a /\ a % n = r
    BY DivMod
  <1>2. (q * n + r) + b = q * n + (r + b) /\ r + b \in Int
    OBVIOUS
  <1>3. (q * n + (r + b)) % n = (r + b) % n
    BY <1>2, ModShift
  <1> QED
    BY <1>1, <1>2, <1>3

\* A remainder may be taken before a multiplication.
LEMMA ModMul ==
  ASSUME NEW n \in Nat \ {0}, NEW a \in Int, NEW b \in Int
  PROVE  ((a % n) * b) % n = (a * b) % n
  <1>1. PICK q \in Int, r \in 0 .. n - 1 : q * n + r = a /\ a % n = r
    BY DivMod
  <1>2. (q * n + r) * b = (q * b) * n + r * b /\ q * b \in Int /\ r * b \in Int
    OBVIOUS
  <1>3. ((q * b) * n + r * b) % n = (r * b) % n
    BY <1>2, ModShift
  <1> QED
    BY <1>1, <1>2, <1>3

\* A remainder by a multiple keeps the remainder.
LEMMA ModMod ==
  ASSUME NEW n \in Nat \ {0}, NEW m \in Nat \ {0}, NEW x \in Int
  PROVE  (x % (n * m)) % n = x % n
  <1>1. n * m \in Nat \ {0}
    OBVIOUS
  <1>2. PICK q \in Int, r \in 0 .. n * m - 1 : q * (n * m) + r = x /\ x % (n * m) = r
    BY <1>1, DivMod
  <1>3. q * (n * m) + r = (q * m) * n + r /\ q * m \in Int /\ r \in Int
    BY <1>1
  <1>4. ((q * m) * n + r) % n = r % n
    BY <1>3, ModShift
  <1> QED
    BY <1>2, <1>3, <1>4

\* A number is its quotient and its remainder.
LEMMA Digit ==
  ASSUME NEW n \in Nat \ {0}, NEW x \in Nat
  PROVE  x \div n \in Nat /\ x % n \in 0 .. n - 1 /\ (x \div n) * n + (x % n) = x
  BY SMT

\* Dividing twice, and two digits put together.
LEMMA DivTwice ==
  ASSUME NEW n \in Nat \ {0}, NEW m \in Nat \ {0}, NEW x \in Int
  PROVE  (x \div n) \div m = x \div (n * m)
  <1>1. PICK q \in Int, r \in 0 .. n - 1 : q * n + r = x /\ x \div n = q
    BY DivMod
  <1>2. PICK p \in Int, s \in 0 .. m - 1 : p * m + s = q /\ q \div m = p
    BY DivMod
  <1>3. n * m \in Nat \ {0}
    OBVIOUS
  <1>4. s * n + r \in 0 .. (n * m) - 1
    <2>1. (m - 1 - s) * n >= 0
      OBVIOUS
    <2>2. (m - 1 - s) * n = n * m - n - s * n
      OBVIOUS
    <2>3. s * n \in Nat
      OBVIOUS
    <2> QED
      BY <1>3, <2>1, <2>2, <2>3
  <1>5. p * (n * m) + (s * n + r) = (p * m + s) * n + r
    OBVIOUS
  <1>6. (p * (n * m) + (s * n + r)) \div (n * m) = p
    BY <1>3, <1>4, ModUnique
  <1> QED
    BY <1>1, <1>2, <1>5, <1>6

\* The two low digits of a number are its remainder by the square of the base.
LEMMA TwoDigits ==
  ASSUME NEW n \in Nat \ {0}, NEW x \in Nat
  PROVE  (x % n) + n * ((x \div n) % n) = x % (n * n)
  <1>1. PICK q \in Int, r \in 0 .. n - 1 : q * n + r = x /\ x \div n = q /\ x % n = r
    BY DivMod
  <1>2. PICK p \in Int, s \in 0 .. n - 1 : p * n + s = q /\ q % n = s
    BY DivMod
  <1>3. n * n \in Nat \ {0}
    OBVIOUS
  <1>4. s * n + r \in 0 .. (n * n) - 1
    <2>1. (n - 1 - s) * n >= 0
      OBVIOUS
    <2>2. (n - 1 - s) * n = n * n - n - s * n
      OBVIOUS
    <2>3. s * n \in Nat
      OBVIOUS
    <2> QED
      BY <1>3, <2>1, <2>2, <2>3
  <1>5. p * (n * n) + (s * n + r) = (p * n + s) * n + r /\ s * n + r = r + n * s
    OBVIOUS
  <1>6. (p * (n * n) + (s * n + r)) % (n * n) = s * n + r
    BY <1>3, <1>4, ModUnique
  <1> QED
    BY <1>1, <1>2, <1>5, <1>6

\* Four remainders added and reduced once.
LEMMA SumOfFour ==
  ASSUME NEW n \in Nat \ {0}, NEW p \in Int, NEW q \in Int, NEW r \in Int, NEW s \in Int
  PROVE  ((p % n) + (q % n) + (r % n) + (s % n)) % n = (p + q + r + s) % n
  <1> DEFINE P == p % n
             Q == q % n
             R4 == r % n
             S4 == s % n
  <1>1. P \in Int /\ Q \in Int /\ R4 \in Int /\ S4 \in Int
    OBVIOUS
  <1>a. \A c \in Int : /\ (P + c) % n = (p + c) % n
                       /\ (Q + c) % n = (q + c) % n
                       /\ (R4 + c) % n = (r + c) % n
                       /\ (S4 + c) % n = (s + c) % n
    BY ModAdd
  <1> HIDE DEF P, Q, R4, S4
  <1>b. Q + R4 + S4 \in Int /\ p + R4 + S4 \in Int /\ p + q + S4 \in Int /\ p + q + r \in Int
    BY <1>1
  <1>2. (P + (Q + R4 + S4)) % n = (p + (Q + R4 + S4)) % n
    BY <1>a, <1>b
  <1>3. (Q + (p + R4 + S4)) % n = (q + (p + R4 + S4)) % n
    BY <1>a, <1>b
  <1>4. (R4 + (p + q + S4)) % n = (r + (p + q + S4)) % n
    BY <1>a, <1>b
  <1>5. (S4 + (p + q + r)) % n = (s + (p + q + r)) % n
    BY <1>a, <1>b
  <1>6. /\ P + Q + R4 + S4 = P + (Q + R4 + S4)
        /\ p + (Q + R4 + S4) = Q + (p + R4 + S4)
        /\ q + (p + R4 + S4) = R4 + (p + q + S4)
        /\ r + (p + q + S4) = S4 + (p + q + r)
        /\ s + (p + q + r) = p + q + r + s
    BY <1>1
  <1>7. (P + Q + R4 + S4) % n = (p + q + r + s) % n
    BY <1>2, <1>3, <1>4, <1>5, <1>6
  <1> QED
    BY <1>7 DEF P, Q, R4, S4

\* A number in the signed range of a modulus survives the way through its
\* pattern.
LEMMA SignedOfPattern ==
  ASSUME NEW n \in Nat \ {0}, NEW p \in Int, -n <= 2 * p, 2 * p < n
  PROVE  Signed(p % n, n) = p
  <1>1. CASE 0 <= p
    <2>1. p \in 0 .. n - 1 /\ 0 * n + p = p
      BY <1>1
    <2>2. p % n = p
      BY <2>1, ModUnique
    <2> QED
      BY <2>2 DEF Signed
  <1>2. CASE p < 0
    <2>1. p + n \in 0 .. n - 1 /\ (-1) * n + (p + n) = p
      BY <1>2
    <2>2. p % n = p + n
      BY <2>1, ModUnique
    <2> QED
      BY <2>2 DEF Signed
  <1> QED
    BY <1>1, <1>2

\* The value of a byte, and of a product of two, inside a half.
LEMMA SignedBytes ==
  ASSUME NEW v \in Byte, NEW w \in Byte
  PROVE  LET x == Signed(v, ByteMod)
             y == Signed(w, ByteMod)
         IN  x \in Int /\ y \in Int /\ x * y \in Int /\ -HalfMod <= 2 * (x * y) /\ 2 * (x * y) < HalfMod
  <1> DEFINE x == Signed(v, ByteMod)
             y == Signed(w, ByteMod)
  <1>1. ByteMod \in Nat /\ ByteMod > 0
    BY Moduli
  <1>2. /\ x \in Int /\ -ByteMod <= 2 * x /\ 2 * x <= ByteMod
        /\ y \in Int /\ -ByteMod <= 2 * y /\ 2 * y <= ByteMod
    BY <1>1 DEF Signed, Byte
  <1>3. \A M \in Nat, s \in Int, t \in Int :
          M > 0 /\ -M <= 2 * s /\ 2 * s <= M /\ -M <= 2 * t /\ 2 * t <= M
            => -(M * M) <= 2 * (s * t) /\ 2 * (s * t) < M * M
    <2> SUFFICES ASSUME NEW M \in Nat, NEW s \in Int, NEW t \in Int, M > 0,
                        -M <= 2 * s, 2 * s <= M, -M <= 2 * t, 2 * t <= M
                 PROVE  -(M * M) <= 2 * (s * t) /\ 2 * (s * t) < M * M
      OBVIOUS
    <2>1. (M - 2 * s) * (M + 2 * t) >= 0 /\ (M + 2 * s) * (M - 2 * t) >= 0
      OBVIOUS
    <2>2. (M - 2 * s) * (M - 2 * t) >= 0 /\ (M + 2 * s) * (M + 2 * t) >= 0
      OBVIOUS
    <2>3. M * M > 0
      OBVIOUS
    <2> QED
      BY <2>1, <2>2, <2>3
  <1> HIDE DEF x, y
  <1>4. x * y \in Int
    BY <1>2
  <1> QED
    BY <1>1, <1>2, <1>3, <1>4 DEF HalfMod, x, y

\* Adding and subtracting patterns is adding and subtracting what they
\* stand for.
LEMMA PatternsAdd ==
  ASSUME NEW n \in Nat \ {0}, NEW x \in Int, NEW y \in Int
  PROVE  /\ (Signed(x, n) + Signed(y, n)) % n = (x + y) % n
         /\ (Signed(x, n) - Signed(y, n)) % n = (x - y) % n
  <1>1. PICK c \in Int, d \in Int : Signed(x, n) = c * n + x /\ Signed(y, n) = d * n + y
    <2>1. \A v \in Int : 0 * n + v = v /\ (-1) * n + v = v - n
      OBVIOUS
    <2>2. \A v \in Int : Signed(v, n) = 0 * n + v \/ Signed(v, n) = (-1) * n + v
      BY <2>1 DEF Signed
    <2>3. 0 \in Int /\ -1 \in Int
      OBVIOUS
    <2>4. \A v \in Int : \E c \in Int : Signed(v, n) = c * n + v
      BY <2>2, <2>3
    <2> QED
      BY <2>4
  <1>2. /\ (c * n + x) + (d * n + y) = (c + d) * n + (x + y)
        /\ (c * n + x) - (d * n + y) = (c - d) * n + (x - y)
        /\ c + d \in Int /\ c - d \in Int /\ x + y \in Int /\ x - y \in Int
    OBVIOUS
  <1>3. ((c + d) * n + (x + y)) % n = (x + y) % n /\ ((c - d) * n + (x - y)) % n = (x - y) % n
    BY <1>2, ModShift
  <1> QED
    BY <1>1, <1>2, <1>3

\* A byte lane of a word is a byte.
LEMMA ByteOfIsByte ==
  ASSUME NEW w \in Word, NEW i \in 0 .. 3
  PROVE  ByteOf(w, i) \in Byte
  <1>1. w \in Nat
    BY Moduli DEF Word
  <1>2. \A M \in Nat \ {0} : (w \div (M^i)) % M \in 0 .. M - 1
    BY <1>1
  <1> QED
    BY <1>2, Moduli DEF ByteOf, Byte

\* Two bytes side by side are a half, and four are the word.
LEMMA HalvesOfBytes ==
  ASSUME NEW x \in Word
  PROVE  /\ ByteOf(x, 0) + ByteMod * ByteOf(x, 1) = HalfOf(x, 0)
         /\ ByteOf(x, 2) + ByteMod * ByteOf(x, 3) = HalfOf(x, 1)
         /\ HalfOf(x, 0) = x % HalfMod /\ HalfOf(x, 1) = (x \div HalfMod) % HalfMod
  <1>1. x \in Nat
    BY Moduli DEF Word
  <1>2. x \div 1 = x
    BY <1>1
  <1>3. x \div HalfMod \in Nat
    BY <1>1, Moduli
  <1>4. ByteOf(x, 0) = x % ByteMod /\ ByteOf(x, 1) = (x \div ByteMod) % ByteMod
    BY <1>2, Powers DEF ByteOf
  <1>5. ByteOf(x, 2) = (x \div HalfMod) % ByteMod
    BY Powers DEF ByteOf
  <1>6. ByteOf(x, 3) = ((x \div HalfMod) \div ByteMod) % ByteMod
    <2>1. (x \div HalfMod) \div ByteMod = x \div (HalfMod * ByteMod)
      BY <1>1, Moduli, DivTwice
    <2> QED
      BY <2>1, Powers DEF ByteOf
  <1>7. HalfOf(x, 0) = x % HalfMod /\ HalfOf(x, 1) = (x \div HalfMod) % HalfMod
    BY <1>2, Powers DEF HalfOf
  <1>8. \A y \in Nat : (y % ByteMod) + ByteMod * ((y \div ByteMod) % ByteMod) = y % HalfMod
    BY Moduli, TwoDigits
  <1> QED
    BY <1>1, <1>3, <1>4, <1>5, <1>6, <1>7, <1>8

\* A word is put together from its own bytes.
LEMMA WordOfBytes ==
  ASSUME NEW x \in Word, NEW b, \A k \in 0 .. 3 : b[k] = ByteOf(x, k)
  PROVE  OfBytes(b) = x
  <1> DEFINE M == ByteMod
             lo == b[0] + M * b[1]
             hi == b[2] + M * b[3]
  <1>1. lo = x % HalfMod /\ hi = (x \div HalfMod) % HalfMod
    BY HalvesOfBytes
  <1>2. x \in Nat /\ WordMod = HalfMod * HalfMod /\ x < WordMod
    BY Moduli DEF Word, WordMod
  <1>3. x % WordMod = x
    <2>1. x \in 0 .. WordMod - 1 /\ 0 * WordMod + x = x
      BY <1>2, Moduli
    <2> QED
      BY <2>1, Moduli, ModUnique
  <1>4. (x % HalfMod) + HalfMod * ((x \div HalfMod) % HalfMod) = x
    BY <1>2, <1>3, Moduli, TwoDigits
  <1>5. b[0] \in Nat /\ b[1] \in Nat /\ b[2] \in Nat /\ b[3] \in Nat
    BY ByteOfIsByte, Moduli DEF Byte
  <1>6. \A n, p, q, r, s \in Nat : p + n * (q + n * (r + n * s)) = (p + n * q) + (n * n) * (r + n * s)
    OBVIOUS
  <1>7. OfBytes(b) = lo + (M * M) * hi
    BY <1>5, <1>6, Moduli DEF OfBytes
  <1> HIDE DEF lo, hi
  <1> QED
    BY <1>1, <1>4, <1>7, Moduli

\* Four bytes put together come apart again.
LEMMA BytesOfWord ==
  ASSUME NEW b, \A k \in 0 .. 3 : b[k] \in Byte
  PROVE  OfBytes(b) \in Word /\ \A k \in 0 .. 3 : ByteOf(OfBytes(b), k) = b[k]
  <1> DEFINE M == ByteMod
             w == OfBytes(b)
             v1 == b[1] + M * (b[2] + M * b[3])
             v2 == b[2] + M * b[3]
  <1>1. /\ b[0] \in 0 .. M - 1 /\ b[1] \in 0 .. M - 1 /\ b[2] \in 0 .. M - 1 /\ b[3] \in 0 .. M - 1
    BY DEF Byte
  <1>2. M \in Nat \ {0} /\ HalfMod = M * M /\ HalfMod \in Nat \ {0} /\ WordMod = HalfMod * HalfMod
    BY Moduli
  <1> HIDE DEF M
  <1>3. w = b[0] + M * v1 /\ v1 = b[1] + M * v2 /\ v2 = b[2] + M * b[3]
    BY DEF OfBytes, M
  <1> HIDE DEF w, v1, v2
  <1>4. \A lo \in 0 .. M - 1, hi \in Nat : /\ lo + M * hi \in Nat
                                           /\ (lo + M * hi) % M = lo /\ (lo + M * hi) \div M = hi
    <2> SUFFICES ASSUME NEW lo \in 0 .. M - 1, NEW hi \in Nat
                 PROVE  /\ lo + M * hi \in Nat
                        /\ (lo + M * hi) % M = lo /\ (lo + M * hi) \div M = hi
      OBVIOUS
    <2>1. lo + M * hi = hi * M + lo /\ lo + M * hi \in Nat
      BY <1>2
    <2> QED
      BY <1>2, <2>1, ModUnique
  <1>5. v2 \in Nat /\ v2 % M = b[2] /\ v2 \div M = b[3]
    BY <1>1, <1>3, <1>4
  <1>6. v1 \in Nat /\ v1 % M = b[1] /\ v1 \div M = v2
    BY <1>1, <1>3, <1>4, <1>5
  <1>7. w \in Nat /\ w % M = b[0] /\ w \div M = v1
    BY <1>1, <1>3, <1>4, <1>6
  <1>8. w \div HalfMod = v2
    <2>1. (w \div M) \div M = w \div (M * M)
      BY <1>2, <1>7, DivTwice
    <2> QED
      BY <1>2, <1>6, <1>7, <2>1
  <1>9. w \div (HalfMod * M) = b[3]
    <2>1. (w \div HalfMod) \div M = w \div (HalfMod * M)
      BY <1>2, <1>7, DivTwice
    <2> QED
      BY <1>5, <1>8, <2>1
  <1>10. w < WordMod
    <2>1. \A lo \in 0 .. M - 1, hi \in Nat, n \in Nat : hi < n => lo + M * hi < M * n
      <3> SUFFICES ASSUME NEW lo \in 0 .. M - 1, NEW hi \in Nat, NEW n \in Nat, hi < n
                   PROVE  lo + M * hi < M * n
        OBVIOUS
      <3>1. M * (n - 1 - hi) >= 0 /\ M * (n - 1 - hi) = M * n - M - M * hi
        BY <1>2
      <3> QED
        BY <1>2, <3>1
    <2>2. v2 < M * M
      <3>1. b[3] \in Nat /\ b[3] < M /\ M \in Nat
        BY <1>1, <1>2
      <3>2. b[2] + M * b[3] < M * M
        BY <1>1, <2>1, <3>1
      <3> QED
        BY <1>3, <3>2
    <2>3. M * M \in Nat /\ M * (M * M) \in Nat
      BY <1>2
    <2>4. v1 < M * (M * M)
      BY <1>1, <1>3, <1>5, <2>1, <2>2, <2>3
    <2>5. w < M * (M * (M * M))
      BY <1>1, <1>3, <1>6, <2>1, <2>3, <2>4
    <2>6. M * (M * (M * M)) = (M * M) * (M * M)
      BY <1>2
    <2> QED
      BY <1>2, <2>5, <2>6
  <1>11. /\ ByteOf(w, 0) = (w \div 1) % M /\ ByteOf(w, 1) = (w \div M) % M
         /\ ByteOf(w, 2) = (w \div HalfMod) % M /\ ByteOf(w, 3) = (w \div (HalfMod * M)) % M
    BY Powers DEF ByteOf, M
  <1>12. w \div 1 = w /\ b[3] % M = b[3]
    <2>1. \A x \in 0 .. M - 1 : x % M = x
      BY <1>2
    <2> QED
      BY <1>1, <1>7, <2>1
  <1>13. ByteOf(w, 0) = b[0] /\ ByteOf(w, 1) = b[1] /\ ByteOf(w, 2) = b[2] /\ ByteOf(w, 3) = b[3]
    BY <1>5, <1>6, <1>7, <1>8, <1>9, <1>11, <1>12
  <1>14. w \in Word
    BY <1>2, <1>7, <1>10, Moduli DEF Word
  <1> QED
    BY <1>13, <1>14 DEF w

-----------------------------------------------------------------------------
(* Bits *)

\* A bit of a number is 0 or 1.
LEMMA BitIsBit ==
  ASSUME NEW w \in Int, NEW i \in Nat
  PROVE  Bit(w, i) \in {0, 1}
  BY DEF Bit

\* One more bit of a remainder by a power of two.
LEMMA ModPower ==
  ASSUME NEW w \in Int, NEW n \in 0 .. XLEN
  PROVE  /\ w % 2^(n + 1) = (w % 2^n) + Bit(w, n) * 2^n
         /\ w % 2^n \in 0 .. 2^n - 1 /\ w % 2^0 = 0
  <1> DEFINE P == 2^n
  <1>1. P \in Nat \ {0} /\ 2^(n + 1) = 2 * P
    <2>1. n \in 0 .. XLEN + 1
      BY Sizes
    <2> QED
      BY <2>1, PowerStep
  <1>2. Bit(w, n) = (w \div P) % 2
    BY DEF Bit
  <1> HIDE DEF P
  <1>3. PICK q \in Int, r \in 0 .. P - 1 : q * P + r = w /\ w % P = r /\ w \div P = q
    BY <1>1, DivMod
  <1>4. PICK p \in Int, s \in 0 .. 1 : p * 2 + s = q /\ q % 2 = s
    <2>1. 2 \in Nat \ {0} /\ 0 .. 2 - 1 = 0 .. 1
      OBVIOUS
    <2> QED
      BY <2>1, DivMod
  <1>5. s * P + r \in 0 .. 2 * P - 1 /\ 2 * P \in Nat \ {0}
    <2>1. s = 0 => s * P = 0
      BY <1>1
    <2>2. s = 1 => s * P = P
      BY <1>1
    <2> QED
      BY <1>1, <2>1, <2>2
  <1>6. p * (2 * P) + (s * P + r) = w
    <2>1. p * (2 * P) + (s * P + r) = (p * 2 + s) * P + r
      BY <1>1
    <2> QED
      BY <1>3, <1>4, <2>1
  <1>7. w % (2 * P) = s * P + r
    BY <1>5, <1>6, ModUnique
  <1>8. s * P + r = r + s * P
    BY <1>1
  <1>9. w % 2^0 = 0
    BY PowerStep
  <1> QED
    BY <1>1, <1>2, <1>3, <1>4, <1>7, <1>8, <1>9 DEF P

\* What a function from positions to bits spells, position by position.
Bits == [Positions -> 0 .. 1]
Spelled(b) == Sums([i \in Positions |-> b[i] * 2^i], XLEN)

\* The number a prefix of bits spells, one bit at a time.
LEMMA SpelledStep ==
  ASSUME NEW b \in Bits
  PROVE  /\ Spelled(b)[0] = 0 /\ FromBits(b) = Spelled(b)[XLEN]
         /\ \A n \in Positions : Spelled(b)[n + 1] = Spelled(b)[n] + b[n] * 2^n
         /\ \A n \in 0 .. XLEN : Spelled(b)[n] \in 0 .. 2^n - 1
  <1> DEFINE t == [i \in Positions |-> b[i] * 2^i]
             s == Spelled(b)
             T == {n \in 0 .. XLEN : s[n] \in 0 .. 2^n - 1}
  <1>1. \A n \in Positions : 2^n \in Nat \ {0} /\ b[n] \in 0 .. 1
    <2>1. Positions \subseteq 0 .. XLEN + 1
      BY Sizes DEF Positions
    <2> QED
      BY <2>1, PowerStep DEF Bits
  <1>2. \A n \in Positions : t[n] = b[n] * 2^n /\ t[n] \in Int
    BY <1>1
  <1>3. /\ s[0] = 0 /\ \A n \in Positions : s[n + 1] = s[n] + t[n]
        /\ \A n \in 0 .. XLEN : s[n] \in Int
    <2>1. s = Sums(t, XLEN)
      BY DEF Spelled
    <2> HIDE DEF s, t
    <2> QED
      BY <1>2, <2>1, Sizes, SumsStep DEF Positions
  <1> HIDE DEF s, t
  <1>4. 0 \in T
    BY <1>3, Sizes, PowerStep
  <1>5. \A n \in 0 .. XLEN - 1 : n \in T => n + 1 \in T
    <2> SUFFICES ASSUME NEW n \in 0 .. XLEN - 1, s[n] \in 0 .. 2^n - 1
                 PROVE  n + 1 \in 0 .. XLEN /\ s[n + 1] \in 0 .. 2^(n + 1) - 1
      OBVIOUS
    <2>1. 2^(n + 1) = 2 * 2^n /\ n \in Positions
      BY Sizes, PowerStep DEF Positions
    <2>2. b[n] = 0 => t[n] = 0
      BY <1>1, <1>2, <2>1
    <2>3. b[n] = 1 => t[n] = 2^n
      BY <1>1, <1>2, <2>1
    <2>4. 2^n \in Nat /\ b[n] \in 0 .. 1
      BY <1>1, <2>1
    <2>5. s[n + 1] = s[n] + t[n]
      BY <1>3, <2>1
    <2> QED
      BY <2>1, <2>2, <2>3, <2>4, <2>5, Sizes
  <1>6. \A n \in 0 .. XLEN : n \in T
    <2> HIDE DEF T
    <2> QED
      BY <1>4, <1>5, Sizes, UpToInduction
  <1> QED
    BY <1>2, <1>3, <1>6 DEF s, FromBits, Spelled

\* A word is spelled by its own bits.
LEMMA SpelledWord ==
  ASSUME NEW b \in Bits, NEW w \in Int, \A i \in Positions : Bit(w, i) = b[i]
  PROVE  (\A n \in 0 .. XLEN : Spelled(b)[n] = w % 2^n) /\ FromBits(b) = w % WordMod
  <1> DEFINE T == {n \in 0 .. XLEN : Spelled(b)[n] = w % 2^n}
  <1>1. 0 \in T
    BY SpelledStep, ModPower, Sizes
  <1>2. \A n \in 0 .. XLEN - 1 : n \in T => n + 1 \in T
    <2> SUFFICES ASSUME NEW n \in 0 .. XLEN - 1, Spelled(b)[n] = w % 2^n
                 PROVE  n + 1 \in 0 .. XLEN /\ Spelled(b)[n + 1] = w % 2^(n + 1)
      OBVIOUS
    <2>1. n \in Positions /\ n \in 0 .. XLEN /\ n + 1 \in 0 .. XLEN
      BY Sizes DEF Positions
    <2>2. w % 2^(n + 1) = (w % 2^n) + Bit(w, n) * 2^n
      BY <2>1, ModPower
    <2> QED
      BY <2>1, <2>2, SpelledStep
  <1>3. \A n \in 0 .. XLEN : n \in T
    <2> HIDE DEF T
    <2> QED
      BY <1>1, <1>2, Sizes, UpToInduction
  <1> QED
    BY <1>3, SpelledStep, WordModIsPower, Sizes

\* Two words with the same bits are the same word.
LEMMA SameBits ==
  ASSUME NEW v \in Word, NEW w \in Word, \A i \in Positions : Bit(v, i) = Bit(w, i)
  PROVE  v = w
  <1> DEFINE b == [i \in Positions |-> Bit(w, i)]
  <1>1. v \in Int /\ w \in Int /\ v % WordMod = v /\ w % WordMod = w
    <2>1. \A x \in Word : x \in 0 .. WordMod - 1 /\ 0 * WordMod + x = x
      BY Moduli DEF Word
    <2>2. \A x \in Word : x % WordMod = x
      BY <2>1, Moduli, ModUnique
    <2> QED
      BY <2>2, Moduli DEF Word
  <1>2. b \in Bits
    <2>1. \A i \in Positions : Bit(w, i) \in 0 .. 1
      BY <1>1, BitIsBit, Sizes DEF Positions
    <2> QED
      BY <2>1 DEF Bits
  <1>3. \A i \in Positions : Bit(w, i) = b[i]
    OBVIOUS
  <1> HIDE DEF b
  <1> QED
    BY <1>1, <1>2, <1>3, SpelledWord

\* The bits spelled are the bits of the word.
LEMMA BitOfSpelled ==
  ASSUME NEW b \in Bits
  PROVE  FromBits(b) \in Word /\ \A i \in Positions : Bit(FromBits(b), i) = b[i]
  <1> DEFINE s == Spelled(b)
  <1>1. /\ s[0] = 0 /\ FromBits(b) = s[XLEN]
        /\ \A n \in Positions : s[n + 1] = s[n] + b[n] * 2^n
        /\ \A n \in 0 .. XLEN : s[n] \in 0 .. 2^n - 1
    BY SpelledStep
  <1> HIDE DEF s
  <1>2. FromBits(b) \in Word
    BY <1>1, WordModIsPower, Sizes DEF Word
  <1>3. ASSUME NEW i \in Positions
        PROVE  Bit(FromBits(b), i) = b[i]
    <2> DEFINE P == 2^i
               T == {k \in 0 .. XLEN - 1 - i : \E c \in Nat : s[k + (i + 1)] = c * (2 * P) + (b[i] * P + s[i])}
    <2>1. /\ i \in 0 .. XLEN /\ i \in Nat /\ P \in Nat \ {0} /\ 2^(i + 1) = 2 * P
          /\ b[i] \in 0 .. 1 /\ s[i] \in 0 .. P - 1
      <3>1. i \in 0 .. XLEN /\ i \in 0 .. XLEN + 1 /\ i \in Nat
        BY Sizes DEF Positions
      <3> QED
        BY <1>1, <3>1, PowerStep DEF Bits
    <2> HIDE DEF P
    <2>2. 0 \in T
      <3>1. s[i + 1] = s[i] + b[i] * P
        BY <1>1 DEF P
      <3>2. s[i] + b[i] * P = 0 * (2 * P) + (b[i] * P + s[i]) /\ 0 + (i + 1) = i + 1
        BY <2>1
      <3> QED
        BY <3>1, <3>2, Sizes DEF Positions
    <2>3. \A k \in 0 .. XLEN - 1 - i - 1 : k \in T => k + 1 \in T
      <3> SUFFICES ASSUME NEW k \in 0 .. XLEN - 1 - i - 1, NEW c \in Nat,
                          s[k + (i + 1)] = c * (2 * P) + (b[i] * P + s[i])
                   PROVE  \E d \in Nat : s[(k + 1) + (i + 1)] = d * (2 * P) + (b[i] * P + s[i])
        <4>1. \A k \in 0 .. XLEN - 1 - i - 1 : k + 1 \in 0 .. XLEN - 1 - i
          BY <2>1, Sizes
        <4> QED
          BY <4>1
      <3>1. k + (i + 1) \in Positions /\ (k + 1) + (i + 1) = (k + (i + 1)) + 1 /\ k + (i + 1) <= XLEN + 1
        BY <2>1, Sizes DEF Positions
      <3>2. s[(k + 1) + (i + 1)] = s[k + (i + 1)] + b[k + (i + 1)] * 2^(k + (i + 1))
        BY <1>1, <3>1
      <3>3. 2^(k + (i + 1)) = 2^k * (2 * P) /\ 2^k \in Nat
        <4>1. k \in Nat /\ i + 1 \in Nat /\ k \in 0 .. XLEN + 1
          BY <2>1, Sizes
        <4>2. 2^(k + (i + 1)) = 2^k * 2^(i + 1)
          BY <3>1, <4>1, PowerAdd
        <4> QED
          BY <2>1, <4>1, <4>2, PowerStep
      <3>4. b[k + (i + 1)] \in 0 .. 1
        BY <3>1 DEF Bits
      <3>5. \A x, y, z \in Nat, u \in Nat : (c * x + u) + y * (z * x) = (c + y * z) * x + u
        OBVIOUS
      <3>6. b[i] * P + s[i] \in Nat /\ 2 * P \in Nat /\ b[k + (i + 1)] \in Nat
        BY <2>1, <3>4
      <3>7. s[(k + 1) + (i + 1)] = (c + b[k + (i + 1)] * 2^k) * (2 * P) + (b[i] * P + s[i])
        BY <3>2, <3>3, <3>5, <3>6
      <3>8. c + b[k + (i + 1)] * 2^k \in Nat
        BY <3>3, <3>6
      <3> QED
        BY <3>7, <3>8
    <2>4. XLEN - 1 - i \in T
      <3>1. XLEN - 1 - i \in Nat
        BY <2>1, Sizes DEF Positions
      <3> HIDE DEF T
      <3> QED
        BY <2>2, <2>3, <3>1, UpToInduction
    <2>5. PICK c \in Nat : s[XLEN] = c * (2 * P) + (b[i] * P + s[i])
      <3>1. (XLEN - 1 - i) + (i + 1) = XLEN
        BY <2>1, Sizes
      <3> QED
        BY <2>4, <3>1
    <2>6. s[XLEN] = (2 * c + b[i]) * P + s[i]
      BY <2>1, <2>5
    <2>7. s[XLEN] \div P = 2 * c + b[i]
      <3>1. 2 * c + b[i] \in Int
        BY <2>1
      <3> QED
        BY <2>1, <2>6, <3>1, ModUnique
    <2>8. (2 * c + b[i]) % 2 = b[i]
      BY <2>1
    <2> QED
      BY <1>1, <2>7, <2>8 DEF Bit, P
  <1> QED
    BY <1>2, <1>3

-----------------------------------------------------------------------------
(* The adder *)

\* A bit of a word, and a position's neighbours.
LEMMA BitOfWord ==
  ASSUME NEW w \in Word, NEW i \in Positions
  PROVE  Bit(w, i) \in 0 .. 1 /\ w \in Nat /\ w < WordMod /\ w % WordMod = w
  <1>1. w \in 0 .. WordMod - 1 /\ 0 * WordMod + w = w /\ w \in Nat
    BY Moduli DEF Word
  <1>2. w % WordMod = w
    BY <1>1, Moduli, ModUnique
  <1> QED
    BY <1>1, <1>2, BitIsBit, Sizes, Moduli DEF Positions

\* A full adder adds (alu.v).
LEMMA FullAdder ==
  ASSUME NEW x \in 0 .. 1, NEW y \in 0 .. 1, NEW c \in 0 .. 1
  PROVE  LET f == full_adder(x, y, c)
         IN  f.sum \in 0 .. 1 /\ f.cout \in 0 .. 1 /\ f.sum + 2 * f.cout = x + y + c
  <1> DEFINE f == full_adder(x, y, c)
  <1>1. f = [sum |-> (x + y + c) % 2,
             cout |-> Flag((x = 1 /\ y = 1) \/ (x = 1 /\ c = 1) \/ (y = 1 /\ c = 1))]
    BY DEF full_adder
  <1>2. f.sum = (x + y + c) % 2
    BY <1>1
  <1>3. f.cout = IF (x = 1 /\ y = 1) \/ (x = 1 /\ c = 1) \/ (y = 1 /\ c = 1) THEN 1 ELSE 0
    BY <1>1 DEF Flag
  <1> HIDE DEF f
  <1>4. x \in {0, 1} /\ y \in {0, 1} /\ c \in {0, 1}
    OBVIOUS
  <1>5. f.sum \in 0 .. 1 /\ f.cout \in 0 .. 1 /\ f.sum + 2 * f.cout = x + y + c
    BY <1>2, <1>3, <1>4
  <1> QED
    BY <1>5 DEF f

\* The chain of full adders, and the carry into each.
Chain(a, b, cin) ==
  LET fa[i \in Positions] ==
        full_adder(Bit(a, i), Bit(b, i), IF i = 0 THEN cin ELSE fa[i - 1].cout)
  IN  fa
Carry(a, b, cin, n) == IF n = 0 THEN cin ELSE Chain(a, b, cin)[n - 1].cout

\* The carries of the adder are a function defined by the chain.
LEMMA ChainExists ==
  ASSUME NEW a, NEW b, NEW cin
  PROVE  \A i \in Positions :
           Chain(a, b, cin)[i] = full_adder(Bit(a, i), Bit(b, i), Carry(a, b, cin, i))
  <1> DEFINE Link(g, k) == full_adder(Bit(a, k), Bit(b, k), IF k = 0 THEN cin ELSE g[k - 1].cout)
             Is(g, n) == g = [k \in 0 .. n |-> Link(g, k)]
             T == {n \in Nat : \E g : Is(g, n)}
  <1>1. 0 \in T
    <2> DEFINE h == [k \in 0 .. 0 |-> full_adder(Bit(a, k), Bit(b, k), cin)]
    <2>1. \A k \in 0 .. 0 : h[k] = Link(h, k)
      OBVIOUS
    <2>2. Is(h, 0)
      BY <2>1
    <2> QED
      BY <2>2
  <1>2. \A n \in Nat : n \in T => n + 1 \in T
    <2> SUFFICES ASSUME NEW n \in Nat, NEW g, Is(g, n)
                 PROVE  \E h : Is(h, n + 1)
      OBVIOUS
    <2> DEFINE h == [k \in 0 .. n + 1 |-> IF k = n + 1 THEN Link(g, n + 1) ELSE g[k]]
    <2>1. \A k \in 0 .. n : g[k] = Link(g, k)
      OBVIOUS
    <2>2. \A k \in 0 .. n + 1 : h[k] = Link(h, k)
      <3>1. \A k \in 0 .. n + 1 : k # 0 => k - 1 \in 0 .. n /\ h[k - 1] = g[k - 1]
        OBVIOUS
      <3>2. \A k \in 0 .. n + 1 : Link(h, k) = Link(g, k)
        BY <3>1
      <3>3. \A k \in 0 .. n + 1 : h[k] = Link(g, k)
        BY <2>1
      <3> QED
        BY <3>2, <3>3
    <2>3. h = [k \in 0 .. n + 1 |-> h[k]]
      OBVIOUS
    <2> HIDE DEF h
    <2>4. Is(h, n + 1)
      BY <2>2, <2>3
    <2> QED
      BY <2>4
  <1>3. XLEN - 1 \in T
    <2>1. XLEN - 1 \in Nat
      BY Sizes
    <2> HIDE DEF T
    <2> QED
      BY <1>1, <1>2, <2>1, SetInduction
  <1>4. \E g : Is(g, XLEN - 1)
    BY <1>3
  <1>5. Chain(a, b, cin) = [k \in Positions |-> Link(Chain(a, b, cin), k)]
    BY <1>4 DEF Chain, Positions
  <1> QED
    BY <1>5 DEF Carry

\* The ripple-carry adder adds: the sum of its words and its carry, and the
\* carry out (alu.v).
LEMMA AdderAdds ==
  ASSUME NEW a \in Word, NEW b \in Word, NEW cin \in 0 .. 1
  PROVE  LET r == ripple_carry_adder(a, b, cin)
         IN  /\ r.sum \in Word /\ r.cout \in 0 .. 1
             /\ r.sum + r.cout * WordMod = a + b + cin
  <1> DEFINE fa == Chain(a, b, cin)
             c(n) == Carry(a, b, cin, n)
             U == {n \in 0 .. XLEN - 1 : c(n) \in 0 .. 1}
  <1>1. \A i \in Positions : fa[i] = full_adder(Bit(a, i), Bit(b, i), c(i))
    BY ChainExists
  <1>2. c(0) = cin /\ \A i \in Positions : c(i + 1) = fa[i].cout
    <2>1. \A i \in Positions : i + 1 # 0 /\ (i + 1) - 1 = i
      BY Sizes DEF Positions
    <2> QED
      BY <2>1 DEF Carry
  <1> HIDE DEF fa, c
  <1>3. \A i \in Positions : c(i) \in 0 .. 1 =>
          /\ fa[i].sum \in 0 .. 1 /\ fa[i].cout \in 0 .. 1
          /\ fa[i].sum + 2 * fa[i].cout = Bit(a, i) + Bit(b, i) + c(i)
    BY <1>1, BitOfWord, FullAdder
  <1>4. \A i \in 0 .. XLEN - 1 : i \in U
    <2>1. 0 \in U
      BY <1>2, Sizes
    <2>2. \A i \in 0 .. (XLEN - 1) - 1 : i \in U => i + 1 \in U
      <3>1. \A i \in 0 .. (XLEN - 1) - 1 : i \in Positions /\ i + 1 \in 0 .. XLEN - 1
        BY Sizes DEF Positions
      <3> QED
        BY <1>2, <1>3, <3>1
    <2>3. XLEN - 1 \in Nat
      BY Sizes
    <2> HIDE DEF U
    <2> QED
      BY <2>1, <2>2, <2>3, UpToInduction
  <1>5. \A i \in Positions :
          /\ c(i) \in 0 .. 1 /\ fa[i].sum \in 0 .. 1 /\ c(i + 1) \in 0 .. 1
          /\ fa[i].sum + 2 * c(i + 1) = Bit(a, i) + Bit(b, i) + c(i)
    BY <1>2, <1>3, <1>4 DEF Positions
  <1> DEFINE bits == [i \in Positions |-> fa[i].sum]
             s == Spelled(bits)
             Q(n) == s[n] + c(n) * 2^n = (a % 2^n) + (b % 2^n) + cin
             T == {n \in 0 .. XLEN : Q(n)}
  <1>6. bits \in Bits /\ \A i \in Positions : bits[i] = fa[i].sum
    BY <1>5 DEF Bits
  <1> HIDE DEF bits
  <1>7. /\ s[0] = 0 /\ FromBits(bits) = s[XLEN]
        /\ \A n \in Positions : s[n + 1] = s[n] + bits[n] * 2^n
        /\ \A n \in 0 .. XLEN : s[n] \in 0 .. 2^n - 1
    BY <1>6, SpelledStep
  <1>8. a \in Nat /\ b \in Nat /\ a % WordMod = a /\ b % WordMod = b
    <2>1. 0 \in Positions
      BY Sizes DEF Positions
    <2> QED
      BY <2>1, BitOfWord
  <1> HIDE DEF s
  <1>9. 0 \in T
    <2>1. a % 2^0 = 0 /\ b % 2^0 = 0 /\ 2^0 = 1 /\ 0 \in 0 .. XLEN
      BY <1>8, ModPower, PowerStep, Sizes
    <2> QED
      BY <1>2, <1>7, <2>1
  <1>10. \A n \in 0 .. XLEN - 1 : n \in T => n + 1 \in T
    <2> SUFFICES ASSUME NEW n \in 0 .. XLEN - 1, Q(n)
                 PROVE  Q(n + 1)
      <3>1. \A n \in 0 .. XLEN - 1 : n + 1 \in 0 .. XLEN
        BY Sizes
      <3> QED
        BY <3>1
    <2> DEFINE P == 2^n
    <2>1. n \in Positions /\ n \in 0 .. XLEN /\ n \in 0 .. XLEN + 1
      BY Sizes DEF Positions
    <2>2. P \in Nat /\ 2^(n + 1) = 2 * P
      BY <2>1, PowerStep
    <2>3. /\ a % 2^(n + 1) = (a % P) + Bit(a, n) * P /\ b % 2^(n + 1) = (b % P) + Bit(b, n) * P
          /\ a % P \in Int /\ b % P \in Int
      BY <1>8, <2>1, ModPower
    <2>4. s[n + 1] = s[n] + bits[n] * P /\ s[n] \in Int
      BY <1>7, <2>1
    <2>5. /\ bits[n] + 2 * c(n + 1) = Bit(a, n) + Bit(b, n) + c(n)
          /\ bits[n] \in Int /\ c(n) \in Int /\ c(n + 1) \in Int /\ Bit(a, n) \in Int /\ Bit(b, n) \in Int
      BY <1>5, <1>6, <2>1, BitOfWord
    <2>6. s[n] + c(n) * P = (a % P) + (b % P) + cin
      OBVIOUS
    <2> HIDE DEF P
    <2> DEFINE u == a % P
               v == b % P
               p == Bit(a, n)
               q == Bit(b, n)
               x == bits[n]
               d == c(n)
               e == c(n + 1)
               sn == s[n]
    <2>7. /\ sn \in Int /\ x \in Int /\ d \in Int /\ e \in Int /\ p \in Int /\ q \in Int
          /\ u \in Int /\ v \in Int /\ cin \in Int /\ P \in Int
          /\ x + 2 * e = p + q + d /\ sn + d * P = u + v + cin
      BY <2>2, <2>3, <2>4, <2>5, <2>6
    <2> HIDE DEF u, v, p, q, x, d, e, sn
    <2>8. (sn + x * P) + e * (2 * P) = (u + p * P) + (v + q * P) + cin
      <3>1. x = p + q + d - 2 * e /\ sn = u + v + cin - d * P
        BY <2>7
      <3>2. (p + q + d - 2 * e) * P = p * P + q * P + d * P - e * (2 * P)
        BY <2>7
      <3> QED
        BY <2>7, <3>1, <3>2
    <2> USE DEF u, v, p, q, x, d, e, sn
    <2> QED
      BY <2>2, <2>3, <2>4, <2>8
  <1>11. Q(XLEN)
    <2>1. \A n \in 0 .. XLEN : n \in T
      <3> HIDE DEF T
      <3> QED
        BY <1>9, <1>10, Sizes, UpToInduction
    <2> QED
      BY <2>1, Sizes
  <1>12. s[XLEN] + c(XLEN) * WordMod = a + b + cin
    BY <1>8, <1>11, WordModIsPower
  <1>13. ripple_carry_adder(a, b, cin) = [sum |-> FromBits(bits), cout |-> fa[XLEN - 1].cout]
    BY DEF ripple_carry_adder, bits, fa, Chain
  <1>14. c(XLEN) = fa[XLEN - 1].cout /\ c(XLEN) \in 0 .. 1
    <2>1. XLEN - 1 \in Positions /\ (XLEN - 1) + 1 = XLEN
      BY Sizes DEF Positions
    <2> QED
      BY <1>2, <1>5, <2>1
  <1>15. s[XLEN] \in Word
    BY <1>7, WordModIsPower, Sizes DEF Word
  <1> QED
    BY <1>7, <1>12, <1>13, <1>14, <1>15

-----------------------------------------------------------------------------
(* The barrel shifter *)

\* Division by a power of two keeps a number on its side of zero.
LEMMA DivSmall ==
  ASSUME NEW n \in Nat \ {0}, NEW m \in Nat, NEW z \in Int, -m <= z, z < m
  PROVE  /\ z \div n \in Int
         /\ z < 0 => -m <= z \div n /\ z \div n < 0
         /\ z >= 0 => 0 <= z \div n /\ z \div n < m
  <1>1. PICK q \in Int, r \in 0 .. n - 1 : q * n + r = z /\ z \div n = q
    BY DivMod
  <1>2. z < 0 => q < 0
    <2> SUFFICES ASSUME z < 0, q >= 0 PROVE FALSE
      OBVIOUS
    <2>1. q * n >= 0
      OBVIOUS
    <2> QED
      BY <1>1, <2>1
  <1>3. z >= 0 => q >= 0
    <2> SUFFICES ASSUME z >= 0, q <= -1 PROVE FALSE
      OBVIOUS
    <2>1. (-1 - q) * n >= 0
      OBVIOUS
    <2>2. (-1 - q) * n = -n - q * n
      OBVIOUS
    <2> QED
      BY <1>1, <2>1, <2>2
  <1>4. q >= 0 => q <= z
    <2> SUFFICES ASSUME q >= 0 PROVE q <= z
      OBVIOUS
    <2>1. q * (n - 1) >= 0
      OBVIOUS
    <2>2. q * (n - 1) = q * n - q
      OBVIOUS
    <2> QED
      BY <1>1, <2>1, <2>2
  <1>5. q < 0 => q >= z
    <2> SUFFICES ASSUME q < 0 PROVE q >= z
      OBVIOUS
    <2>1. (-1 - q) * (n - 1) >= 0
      OBVIOUS
    <2>2. (-1 - q) * (n - 1) = -n + 1 - q * n + q
      OBVIOUS
    <2> QED
      BY <1>1, <2>1, <2>2
  <1> QED
    BY <1>1, <1>2, <1>3, <1>4, <1>5

\* A word shifted once: as a number below zero if it is filled with ones,
\* at or above zero if with zeros.
LEMMA ShiftOnce ==
  ASSUME NEW z \in Int, NEW fill \in 0 .. 1, NEW m \in 0 .. XLEN,
         -WordMod <= z, z < WordMod, fill = 1 <=> z < 0
  PROVE  /\ z % WordMod = z + fill * WordMod /\ z % WordMod \in Word
         /\ ShiftIn(z % WordMod, m, fill) = (z \div 2^m) % WordMod
         /\ z \div 2^m \in Int /\ -WordMod <= z \div 2^m /\ z \div 2^m < WordMod
         /\ fill = 1 <=> z \div 2^m < 0
  <1> DEFINE P == 2^m
             K == 2^(XLEN - m)
             d == z \div P
  <1>1. /\ P \in Nat \ {0} /\ K \in Nat \ {0} /\ WordMod = K * P
    <2>1. m \in Nat /\ XLEN - m \in Nat /\ (XLEN - m) + m = XLEN
          /\ m \in 0 .. XLEN + 1 /\ XLEN - m \in 0 .. XLEN + 1
      BY Sizes
    <2>2. 2^((XLEN - m) + m) = 2^(XLEN - m) * 2^m
      BY <2>1, Sizes, PowerAdd
    <2> QED
      BY <2>1, <2>2, PowerStep, WordModIsPower
  <1> HIDE DEF P, K
  <1>2. /\ d \in Int /\ -WordMod <= d /\ d < WordMod
        /\ z < 0 <=> d < 0
    <2>1. WordMod \in Nat
      BY Moduli
    <2>2. /\ d \in Int
          /\ z < 0 => -WordMod <= d /\ d < 0
          /\ z >= 0 => 0 <= d /\ d < WordMod
      BY <1>1, <2>1, DivSmall
    <2> HIDE DEF d
    <2> QED
      BY <2>1, <2>2
  <1>3. \A y \in Int : -WordMod <= y /\ y < 0 => y % WordMod = y + WordMod
    <2> SUFFICES ASSUME NEW y \in Int, -WordMod <= y, y < 0
                 PROVE  y % WordMod = y + WordMod
      OBVIOUS
    <2>1. y + WordMod \in 0 .. WordMod - 1 /\ (-1) * WordMod + (y + WordMod) = y /\ -1 \in Int
      BY Moduli
    <2>2. ((-1) * WordMod + (y + WordMod)) % WordMod = y + WordMod
      BY <2>1, Moduli, ModUnique, ZenonT(30)
    <2> QED
      BY <2>1, <2>2
  <1>4. \A y \in Int : 0 <= y /\ y < WordMod => y % WordMod = y
    <2>1. \A y \in Int : 0 * WordMod + y = y
      BY Moduli
    <2> QED
      BY <2>1, Moduli, ModUnique
  <1>5. \A y \in Int : 1 * y = y /\ 0 * y = 0
    OBVIOUS
  <1>6. fill = 0 \/ fill = 1
    OBVIOUS
  <1>7. z % WordMod = z + fill * WordMod /\ z % WordMod \in Word
    BY <1>3, <1>4, <1>5, <1>6, Moduli DEF Word
  <1>8. WordMod \div P = K
    <2>1. K * P + 0 = WordMod /\ 0 \in 0 .. P - 1 /\ K \in Int
      BY <1>1
    <2> QED
      BY <1>1, <2>1, ModUnique
  <1>9. ShiftIn(z % WordMod, m, fill) = (z % WordMod) \div P + fill * (WordMod - K)
    BY <1>8 DEF ShiftIn, P
  <1>10. (z + WordMod) \div P = d + K
    <2>1. PICK q \in Int, r \in 0 .. P - 1 : q * P + r = z /\ d = q
      BY <1>1, DivMod
    <2>2. (q + K) * P + r = z + WordMod
      BY <1>1, <2>1
    <2>3. q + K \in Int
      BY <1>1
    <2> QED
      BY <1>1, <2>1, <2>2, <2>3, ModUnique, SMTT(30)
  <1>11. ShiftIn(z % WordMod, m, fill) = d % WordMod
    <2>1. CASE fill = 1
      <3>1. ShiftIn(z % WordMod, m, fill) = (d + K) + (WordMod - K)
        <4>1. 1 * (WordMod - K) = WordMod - K
          BY <1>1, Moduli
        <4> QED
          BY <1>3, <1>9, <1>10, <2>1, <4>1
      <3> QED
        BY <1>1, <1>2, <1>3, <2>1, <3>1, Moduli
    <2>2. CASE fill = 0
      <3>1. 0 * (WordMod - K) = 0
        BY <1>1, Moduli
      <3>2. ShiftIn(z % WordMod, m, fill) = d + 0
        BY <1>4, <1>9, <2>2, <3>1
      <3> QED
        BY <1>2, <1>4, <2>2, <3>2
    <2> QED
      BY <1>6, <2>1, <2>2
  <1> QED
    BY <1>2, <1>7, <1>11 DEF P

\* The stages of the barrel shifter.
Stages(x, amt, fill) ==
  LET stage[k \in 0 .. ShBits] ==
        IF k = 0 THEN x
        ELSE IF Bit(amt, k - 1) = 1 THEN ShiftIn(stage[k - 1], 2^(k - 1), fill) ELSE stage[k - 1]
  IN  stage

\* The stages of the shifter are a function defined one by the other.
LEMMA StagesExist ==
  ASSUME NEW x, NEW amt, NEW fill
  PROVE  LET s == Stages(x, amt, fill)
         IN  /\ s[0] = x
             /\ \A k \in 0 .. ShBits - 1 :
                  s[k + 1] = IF Bit(amt, k) = 1 THEN ShiftIn(s[k], 2^k, fill) ELSE s[k]
  <1> DEFINE Move(y, k) == IF Bit(amt, k) = 1 THEN ShiftIn(y, 2^k, fill) ELSE y
             Is(g, n) == g = [k \in 0 .. n |-> IF k = 0 THEN x ELSE Move(g[k - 1], k - 1)]
             T == {n \in Nat : \E g : Is(g, n)}
  <1> HIDE DEF Move
  <1>1. 0 \in T
    <2> DEFINE h == [k \in 0 .. 0 |-> x]
    <2>1. \A k \in 0 .. 0 : h[k] = IF k = 0 THEN x ELSE Move(h[k - 1], k - 1)
      OBVIOUS
    <2>2. Is(h, 0)
      BY <2>1
    <2> QED
      BY <2>2
  <1>2. \A n \in Nat : n \in T => n + 1 \in T
    <2> SUFFICES ASSUME NEW n \in Nat, NEW g, Is(g, n)
                 PROVE  \E h : Is(h, n + 1)
      OBVIOUS
    <2> DEFINE h == [k \in 0 .. n + 1 |-> IF k = n + 1 THEN Move(g[n], n) ELSE g[k]]
    <2>1. \A k \in 0 .. n : g[k] = IF k = 0 THEN x ELSE Move(g[k - 1], k - 1)
      OBVIOUS
    <2>2. \A k \in 0 .. n + 1 : h[k] = IF k = 0 THEN x ELSE Move(h[k - 1], k - 1)
      BY <2>1
    <2>3. h = [k \in 0 .. n + 1 |-> h[k]]
      OBVIOUS
    <2> HIDE DEF h
    <2>4. Is(h, n + 1)
      BY <2>2, <2>3
    <2> QED
      BY <2>4
  <1>3. ShBits \in T
    <2> HIDE DEF T
    <2> QED
      BY <1>1, <1>2, ShBitsAssumption, SetInduction
  <1>4. \E g : Is(g, ShBits)
    BY <1>3
  <1> DEFINE s == Stages(x, amt, fill)
  <1>5. s = [k \in 0 .. ShBits |-> IF k = 0 THEN x ELSE Move(s[k - 1], k - 1)]
    BY <1>4 DEF Stages, Move
  <1> HIDE DEF s
  <1>6. \A k \in 0 .. ShBits : s[k] = IF k = 0 THEN x ELSE Move(s[k - 1], k - 1)
    BY <1>5
  <1>7. \A k \in 0 .. ShBits - 1 : k + 1 \in 0 .. ShBits /\ k + 1 # 0 /\ (k + 1) - 1 = k
    BY ShBitsAssumption
  <1>8. s[0] = x /\ \A k \in 0 .. ShBits - 1 : s[k + 1] = Move(s[k], k)
    <2>1. 0 \in 0 .. ShBits
      BY ShBitsAssumption
    <2> QED
      BY <1>6, <1>7, <2>1
  <1> QED
    BY <1>8 DEF s, Move

\* The stages together divide by the power of two the amount says.
LEMMA StagesShift ==
  ASSUME NEW v \in Int, NEW amt \in 0 .. XLEN - 1, NEW fill \in 0 .. 1,
         -WordMod <= v, v < WordMod, fill = 1 <=> v < 0
  PROVE  Stages(v % WordMod, amt, fill)[ShBits] = (v \div 2^amt) % WordMod
  <1> DEFINE s == Stages(v % WordMod, amt, fill)
             e(k) == amt % 2^k
             Q(k) == s[k] = (v \div 2^e(k)) % WordMod
             T == {k \in 0 .. ShBits : Q(k)}
  <1>1. /\ s[0] = v % WordMod
        /\ \A k \in 0 .. ShBits - 1 :
             s[k + 1] = IF Bit(amt, k) = 1 THEN ShiftIn(s[k], 2^k, fill) ELSE s[k]
    BY StagesExist
  <1> HIDE DEF s
  <1>2. amt \in Int /\ amt \in Nat /\ ShBits \in Nat
    BY Sizes
  <1>3. 0 \in T
    <2>1. e(0) = 0 /\ 2^0 = 1
      BY <1>2, ModPower, PowerStep, Sizes
    <2>2. v \div 1 = v /\ 0 \in 0 .. ShBits
      BY <1>2
    <2>3. 2^e(0) = 1
      BY <2>1
    <2>4. Q(0)
      <3> HIDE DEF e
      <3> QED
        BY <1>1, <2>2, <2>3
    <2> QED
      BY <2>2, <2>4
  <1>4. \A k \in 0 .. ShBits - 1 : k \in T => k + 1 \in T
    <2> SUFFICES ASSUME NEW k \in 0 .. ShBits - 1, Q(k)
                 PROVE  Q(k + 1)
      <3>1. \A k \in 0 .. ShBits - 1 : k + 1 \in 0 .. ShBits
        BY <1>2
      <3> QED
        BY <3>1
    <2>1. k \in 0 .. XLEN /\ k \in 0 .. XLEN + 1 /\ k + 1 \in 0 .. XLEN
      BY Sizes
    <2> DEFINE P == 2^k
               d == v \div 2^e(k)
    <2>2. P \in Nat \ {0} /\ 2^(k + 1) = 2 * P
      BY <2>1, PowerStep
    <2>3. /\ e(k + 1) = e(k) + Bit(amt, k) * P /\ e(k) \in 0 .. P - 1
          /\ Bit(amt, k) \in {0, 1}
      <3>1. k \in Nat
        BY <1>2
      <3> QED
        BY <1>2, <2>1, <3>1, ModPower, BitIsBit
    <2>4. 2 * P <= XLEN
      <3> DEFINE j == ShBits - (k + 1)
      <3>1. j \in Nat /\ (k + 1) + j = ShBits /\ k + 1 \in Nat /\ ShBits <= XLEN + 1 /\ j \in 0 .. XLEN + 1
        BY <1>2, Sizes
      <3>2. 2^((k + 1) + j) = 2^(k + 1) * 2^j
        BY <3>1, PowerAdd
      <3>3. 2^j \in Nat \ {0}
        BY <3>1, PowerStep
      <3> HIDE DEF j
      <3>4. \A x, y \in Nat : y # 0 => x <= x * y
        OBVIOUS
      <3>5. 2 * P \in Nat
        BY <2>2
      <3>6. XLEN = (2 * P) * 2^j
        BY <2>2, <3>1, <3>2 DEF XLEN
      <3> QED
        BY <3>3, <3>4, <3>5, <3>6
    <2>5. /\ e(k) \in 0 .. XLEN /\ P \in 0 .. XLEN /\ e(k) \in Nat /\ P \in Nat /\ e(k) + P <= XLEN + 1
          /\ e(k) \in 0 .. XLEN + 1 /\ P \in 0 .. XLEN + 1
      BY <2>2, <2>3, <2>4, Sizes
    <2>6. d \in Int /\ -WordMod <= d /\ d < WordMod /\ (fill = 1 <=> d < 0)
      BY <2>5, ShiftOnce
    <2>7. s[k] = d % WordMod
      OBVIOUS
    <2>8. CASE Bit(amt, k) = 1
      <3>1. e(k + 1) = e(k) + P
        BY <2>2, <2>3, <2>5, <2>8
      <3>2. 2^(e(k) + P) = 2^e(k) * 2^P
        BY <2>5, PowerAdd
      <3>3. 2^e(k) \in Nat \ {0} /\ 2^P \in Nat \ {0}
        BY <2>5, PowerStep
      <3> HIDE DEF d, e, P
      <3>4. (v \div 2^e(k)) \div 2^P = v \div (2^e(k) * 2^P)
        BY <3>3, DivTwice
      <3>5. s[k + 1] = ShiftIn(d % WordMod, P, fill)
        BY <1>1, <2>7, <2>8 DEF P
      <3>6. ShiftIn(d % WordMod, P, fill) = (d \div 2^P) % WordMod
        BY <2>5, <2>6, ShiftOnce
      <3> QED
        BY <3>1, <3>2, <3>4, <3>5, <3>6 DEF d
    <2>9. CASE Bit(amt, k) = 0
      <3>1. e(k + 1) = e(k)
        BY <2>2, <2>3, <2>5, <2>9
      <3>2. s[k + 1] = s[k]
        BY <1>1, <2>9
      <3> QED
        BY <3>1, <3>2
    <2> QED
      BY <2>3, <2>8, <2>9
  <1>5. Q(ShBits)
    <2>1. \A k \in 0 .. ShBits : k \in T
      <3> HIDE DEF T
      <3> QED
        BY <1>2, <1>3, <1>4, UpToInduction
    <2> QED
      BY <2>1, <1>2
  <1>6. e(ShBits) = amt
    <2>1. 0 * XLEN + amt = amt /\ XLEN \in Nat \ {0}
      BY Sizes
    <2>2. amt % XLEN = amt
      BY <2>1, ModUnique
    <2> QED
      BY <2>2 DEF XLEN
  <1> QED
    BY <1>5, <1>6 DEF s

\* The sign of a word is its highest bit.
LEMMA SignBit ==
  ASSUME NEW w \in Word
  PROVE  Bit(w, XLEN - 1) = (IF 2 * w < WordMod THEN 0 ELSE 1) /\ w \in Nat /\ w < WordMod
  <1> DEFINE P == 2^(XLEN - 1)
  <1>1. P \in Nat \ {0} /\ WordMod = 2 * P
    <2>1. XLEN - 1 \in 0 .. XLEN /\ XLEN - 1 \in 0 .. XLEN + 1 /\ (XLEN - 1) + 1 = XLEN
      BY Sizes
    <2> QED
      BY <2>1, PowerStep, WordModIsPower
  <1>2. w \in Nat /\ w < 2 * P
    BY <1>1 DEF Word
  <1>3. Bit(w, XLEN - 1) = (w \div P) % 2
    BY DEF Bit
  <1> HIDE DEF P
  <1>4. w < P => w \div P = 0
    <2> SUFFICES ASSUME w < P PROVE w \div P = 0
      OBVIOUS
    <2>1. w \in 0 .. P - 1 /\ 0 * P + w = w
      BY <1>1, <1>2
    <2> QED
      BY <1>1, <2>1, ModUnique
  <1>5. w >= P => w \div P = 1
    <2> SUFFICES ASSUME w >= P PROVE w \div P = 1
      OBVIOUS
    <2>1. w - P \in 0 .. P - 1 /\ 1 * P + (w - P) = w /\ 1 \in Int
      BY <1>1, <1>2
    <2>2. (1 * P + (w - P)) \div P = 1
      BY <1>1, <2>1, ModUnique
    <2> QED
      BY <2>1, <2>2
  <1> QED
    BY <1>1, <1>2, <1>3, <1>4, <1>5

\* Reversing the bits of a word moves each to its mirror position.
LEMMA ReversedBits ==
  ASSUME NEW w \in Word
  PROVE  Reversed(w) \in Word /\ \A i \in Positions : Bit(Reversed(w), i) = Bit(w, XLEN - 1 - i)
  <1> DEFINE b == [i \in Positions |-> Bit(w, XLEN - 1 - i)]
  <1>1. \A i \in Positions : XLEN - 1 - i \in Positions
    BY Sizes DEF Positions
  <1>2. b \in Bits
    BY <1>1, BitOfWord DEF Bits
  <1>3. Reversed(w) = FromBits(b) /\ \A i \in Positions : b[i] = Bit(w, XLEN - 1 - i)
    BY DEF Reversed
  <1> HIDE DEF b
  <1> QED
    BY <1>2, <1>3, BitOfSpelled

\* A bit of a word divided by a power of two, reduced by one, or multiplied
\* by one.
LEMMA BitOfDiv ==
  ASSUME NEW w \in Int, NEW s \in Nat, NEW i \in Nat, s + i <= XLEN + 1
  PROVE  Bit(w \div 2^s, i) = Bit(w, s + i)
  <1>1. 2^s \in Nat \ {0} /\ 2^i \in Nat \ {0}
    <2>1. s \in 0 .. XLEN + 1 /\ i \in 0 .. XLEN + 1
      BY Sizes
    <2> QED
      BY <2>1, PowerStep
  <1>2. (w \div 2^s) \div 2^i = w \div (2^s * 2^i)
    BY <1>1, DivTwice
  <1>3. 2^(s + i) = 2^s * 2^i
    BY PowerAdd
  <1> QED
    BY <1>2, <1>3 DEF Bit

\* A remainder by a power of two keeps the bits below it.
LEMMA BitOfMod ==
  ASSUME NEW w \in Int, NEW n \in 0 .. XLEN, NEW i \in 0 .. n - 1
  PROVE  Bit(w % 2^n, i) = Bit(w, i)
  <1> DEFINE P == 2^i
             H == 2^(n - i - 1)
             M == 2^n
  <1>1. P \in Nat \ {0} /\ H \in Nat /\ M \in Nat \ {0} /\ M = (2 * H) * P
    <2>1. /\ i \in Nat /\ n - i - 1 \in Nat /\ (i + 1) + (n - i - 1) = n /\ i + 1 \in Nat /\ i \in 0 .. XLEN
          /\ i \in 0 .. XLEN + 1 /\ n - i - 1 \in 0 .. XLEN + 1 /\ n \in 0 .. XLEN + 1 /\ n <= XLEN + 1
      BY Sizes
    <2>2. 2^((i + 1) + (n - i - 1)) = 2^(i + 1) * 2^(n - i - 1)
      BY <2>1, PowerAdd
    <2>3. 2^(i + 1) = 2 * P /\ P \in Nat \ {0} /\ H \in Nat /\ M \in Nat \ {0}
      BY <2>1, PowerStep
    <2> HIDE DEF P, H, M
    <2>4. M = (2 * P) * H
      BY <2>1, <2>2, <2>3 DEF H, M
    <2>5. (2 * P) * H = (2 * H) * P
      BY <2>3
    <2> QED
      BY <2>3, <2>4, <2>5
  <1>2. Bit(w % M, i) = ((w % M) \div P) % 2 /\ Bit(w, i) = (w \div P) % 2
    BY DEF Bit
  <1> HIDE DEF P, H, M
  <1>3. PICK q \in Int, r \in 0 .. M - 1 : q * M + r = w /\ w % M = r
    BY <1>1, DivMod
  <1>4. PICK d \in Int, t \in 0 .. P - 1 : d * P + t = r /\ r \div P = d
    BY <1>1, DivMod
  <1>5. (q * (2 * H) + d) * P + t = w
    <2>1. (q * (2 * H) + d) * P + t = q * ((2 * H) * P) + (d * P + t)
      BY <1>1
    <2> QED
      BY <1>1, <1>3, <1>4, <2>1
  <1>6. w \div P = q * (2 * H) + d
    <2>1. q * (2 * H) + d \in Int
      BY <1>1
    <2> QED
      BY <1>1, <1>5, <2>1, ModUnique
  <1>7. (q * (2 * H) + d) % 2 = d % 2
    <2>1. q * (2 * H) + d = (q * H) * 2 + d /\ q * H \in Int
      BY <1>1
    <2> QED
      BY <2>1, ModShift
  <1> QED
    BY <1>2, <1>3, <1>4, <1>6, <1>7 DEF M

\* Multiplying by a power of two moves the bits up.
LEMMA BitOfProduct ==
  ASSUME NEW w \in Nat, NEW s \in Nat, NEW i \in Nat, s <= XLEN, i <= XLEN
  PROVE  /\ i < s => Bit(w * 2^s, i) = 0
         /\ i >= s => Bit(w * 2^s, i) = Bit(w, i - s)
  <1>1. CASE i < s
    <2> DEFINE P == 2^i
               H == 2^(s - i - 1)
    <2>1. P \in Nat \ {0} /\ H \in Nat /\ 2^s = (2 * H) * P
      <3>1. /\ s - i - 1 \in Nat /\ (i + 1) + (s - i - 1) = s /\ i + 1 \in Nat /\ i \in 0 .. XLEN
            /\ i \in 0 .. XLEN + 1 /\ s - i - 1 \in 0 .. XLEN + 1 /\ s <= XLEN + 1
        BY <1>1, Sizes
      <3>2. 2^((i + 1) + (s - i - 1)) = 2^(i + 1) * 2^(s - i - 1)
        BY <3>1, PowerAdd
      <3>3. 2^(i + 1) = 2 * P /\ P \in Nat \ {0} /\ H \in Nat
        BY <3>1, PowerStep
      <3>4. (2 * P) * H = (2 * H) * P
        BY <3>3
      <3> QED
        BY <3>1, <3>2, <3>3, <3>4
    <2>2. Bit(w * 2^s, i) = ((w * 2^s) \div P) % 2
      BY DEF Bit
    <2> HIDE DEF P, H
    <2>3. w * ((2 * H) * P) = ((w * H) * 2) * P + 0 /\ w * H \in Nat
      BY <2>1
    <2>4. (((w * H) * 2) * P + 0) \div P = (w * H) * 2
      <3>1. (w * H) * 2 \in Int /\ 0 \in 0 .. P - 1
        BY <2>1, <2>3
      <3> QED
        BY <2>1, <3>1, ModUnique
    <2>5. ((w * H) * 2) % 2 = 0
      BY <2>3
    <2>6. Bit(w * 2^s, i) = 0
      BY <2>1, <2>2, <2>3, <2>4, <2>5
    <2> QED
      BY <1>1, <2>6
  <1>2. CASE i >= s
    <2> DEFINE P == 2^s
               Q == 2^(i - s)
    <2>1. P \in Nat \ {0} /\ Q \in Nat \ {0} /\ 2^i = P * Q
      <3>1. i - s \in Nat /\ s + (i - s) = i /\ s \in 0 .. XLEN + 1 /\ i - s \in 0 .. XLEN + 1 /\ i <= XLEN + 1
        BY <1>2, Sizes
      <3>2. 2^(s + (i - s)) = 2^s * 2^(i - s)
        BY <3>1, PowerAdd
      <3> QED
        BY <3>1, <3>2, PowerStep
    <2>2. Bit(w * P, i) = ((w * P) \div (P * Q)) % 2 /\ Bit(w, i - s) = (w \div Q) % 2
      BY <2>1 DEF Bit
    <2> HIDE DEF P, Q
    <2>3. w * P \in Int /\ w * P + 0 = w * P /\ 0 \in 0 .. P - 1
      BY <2>1
    <2>4. (w * P) \div P = w
      BY <2>1, <2>3, ModUnique
    <2>5. ((w * P) \div P) \div Q = (w * P) \div (P * Q)
      BY <2>1, <2>3, DivTwice
    <2>6. Bit(w * P, i) = Bit(w, i - s)
      BY <2>2, <2>4, <2>5
    <2> QED
      BY <1>2, <2>6 DEF P
  <1> QED
    BY <1>1, <1>2

\* The barrel shifter shifts (alu.v).
LEMMA ShiftsRight ==
  ASSUME NEW a \in Word, NEW sh \in 0 .. XLEN - 1, NEW arithmetic \in BOOLEAN
  PROVE  barrel_shifter(a, sh, FALSE, arithmetic)
           = ((IF arithmetic THEN Signed(a, WordMod) ELSE a) \div 2^sh) % WordMod
  <1> DEFINE v == IF arithmetic THEN Signed(a, WordMod) ELSE a
             fill == IF arithmetic THEN Bit(a, XLEN - 1) ELSE 0
  <1>1. barrel_shifter(a, sh, FALSE, arithmetic) = Stages(a, sh, fill)[ShBits]
    BY DEF barrel_shifter, fill_bit, Stages
  <1>2. /\ v \in Int /\ fill \in 0 .. 1 /\ -WordMod <= v /\ v < WordMod /\ (fill = 1 <=> v < 0)
        /\ v = a \/ v = (-1) * WordMod + a
    BY SignBit, Moduli DEF Signed
  <1> HIDE DEF v, fill
  <1>3. v % WordMod = a
    <2>1. a \in 0 .. WordMod - 1 /\ 0 * WordMod + a = a
      BY Moduli DEF Word
    <2>2. (0 * WordMod + a) % WordMod = a /\ ((-1) * WordMod + a) % WordMod = a
      BY <2>1, Moduli, ModUnique
    <2> QED
      BY <1>2, <2>1, <2>2
  <1> QED
    BY <1>1, <1>2, <1>3, StagesShift DEF v

\* A shift to the left drops the high bits and multiplies the others.
LEMMA ShiftsLeft ==
  ASSUME NEW a \in Word, NEW sh \in 0 .. XLEN - 1
  PROVE  /\ barrel_shifter(a, sh, TRUE, FALSE) = (a % 2^(XLEN - sh)) * 2^sh
         /\ barrel_shifter(a, sh, TRUE, FALSE) \in Word
  <1> DEFINE r == Reversed(a)
             y == r \div 2^sh
             u == (a % 2^(XLEN - sh)) * 2^sh
  <1>1. r \in Word /\ \A i \in Positions : Bit(r, i) = Bit(a, XLEN - 1 - i)
    BY ReversedBits
  <1>2. r \in Nat /\ r < WordMod /\ a \in Nat
    BY <1>1, SignBit
  <1>3. /\ 2^sh \in Nat \ {0} /\ 2^(XLEN - sh) \in Nat \ {0} /\ WordMod = 2^(XLEN - sh) * 2^sh
        /\ sh \in Nat /\ XLEN - sh \in 1 .. XLEN
    <2>1. /\ sh \in Nat /\ XLEN - sh \in Nat /\ (XLEN - sh) + sh = XLEN /\ XLEN - sh \in 1 .. XLEN
          /\ sh \in 0 .. XLEN + 1 /\ XLEN - sh \in 0 .. XLEN + 1
      BY Sizes
    <2>2. 2^((XLEN - sh) + sh) = 2^(XLEN - sh) * 2^sh
      BY <2>1, Sizes, PowerAdd
    <2> QED
      BY <2>1, <2>2, PowerStep, WordModIsPower
  <1>4. barrel_shifter(a, sh, TRUE, FALSE) = Reversed(Stages(r, sh, 0)[ShBits])
    BY DEF barrel_shifter, fill_bit, Stages
  <1> HIDE DEF r
  <1>5. y \in Nat /\ y < 2^(XLEN - sh) /\ y \in Word
    <2> DEFINE P == 2^sh
               K == 2^(XLEN - sh)
    <2> HIDE DEF P, K
    <2>2. P \in Nat \ {0} /\ K \in Nat \ {0} /\ WordMod = K * P /\ r \in Int
      BY <1>2, <1>3 DEF P, K
    <2>1. PICK q \in Int, t \in 0 .. P - 1 : q * P + t = r /\ r \div P = q
      BY <2>2, DivMod
    <2>3. q >= 0
      <3> SUFFICES ASSUME q <= -1 PROVE FALSE
        OBVIOUS
      <3>1. (-1 - q) * P >= 0 /\ (-1 - q) * P = -P - q * P
        BY <2>2
      <3> QED
        BY <1>2, <2>1, <2>2, <3>1
    <2>4. q < K
      <3> SUFFICES ASSUME q >= K PROVE FALSE
        BY <2>2
      <3>1. (q - K) * P >= 0 /\ (q - K) * P = q * P - K * P
        BY <2>2
      <3> QED
        BY <1>2, <2>1, <2>2, <3>1
    <2>5. K <= WordMod
      <3>1. K * (P - 1) >= 0 /\ K * (P - 1) = K * P - K
        BY <2>2
      <3> QED
        BY <2>2, <3>1
    <2> QED
      BY <2>1, <2>2, <2>3, <2>4, <2>5 DEF P, K, Word
  <1>6. Stages(r, sh, 0)[ShBits] = y
    <2>1. r % WordMod = r /\ y % WordMod = y
      <3>1. \A w \in Word : w \in 0 .. WordMod - 1 /\ 0 * WordMod + w = w
        BY Moduli DEF Word
      <3> QED
        BY <1>1, <1>5, <3>1, Moduli, ModUnique
    <2>2. Stages(r % WordMod, sh, 0)[ShBits] = y % WordMod
      <3>1. r \in Int /\ 0 \in 0 .. 1 /\ -WordMod <= r /\ (0 = 1 <=> r < 0)
        BY <1>2, Moduli
      <3> QED
        BY <1>2, <3>1, StagesShift
    <2> QED
      BY <2>1, <2>2
  <1>7. u \in Word
    <2> DEFINE P == 2^sh
               K == 2^(XLEN - sh)
               m == a % K
    <2>1. P \in Nat \ {0} /\ K \in Nat \ {0} /\ WordMod = K * P /\ m \in 0 .. K - 1
      BY <1>2, <1>3
    <2>2. u = m * P
      OBVIOUS
    <2> HIDE DEF P, K, m, u
    <2>3. (K - 1 - m) * P >= 0 /\ (K - 1 - m) * P = K * P - P - m * P /\ m * P >= 0
      BY <2>1
    <2> QED
      BY <2>1, <2>2, <2>3 DEF Word
  <1>8. Reversed(y) \in Word /\ \A i \in Positions : Bit(Reversed(y), i) = Bit(y, XLEN - 1 - i)
    BY <1>5, ReversedBits
  <1>9. ASSUME NEW i \in Positions
        PROVE  Bit(Reversed(y), i) = Bit(u, i)
    <2>1. i \in Nat /\ i <= XLEN /\ sh <= XLEN /\ i < XLEN
      BY Sizes DEF Positions
    <2>2. a % 2^(XLEN - sh) \in Nat
      BY <1>2, <1>3
    <2>3. CASE i < sh
      <3>1. Bit(u, i) = 0
        BY <1>3, <2>1, <2>2, <2>3, BitOfProduct
      <3> DEFINE n == XLEN - 1 - i
                 d == n - (XLEN - sh)
      <3>2. /\ n \in Nat /\ d \in Nat /\ (XLEN - sh) + d = n /\ n <= XLEN + 1 /\ XLEN - sh \in Nat
            /\ n \in 0 .. XLEN + 1 /\ d \in 0 .. XLEN + 1
        BY <1>3, <2>1, <2>3, Sizes
      <3>3. 2^((XLEN - sh) + d) = 2^(XLEN - sh) * 2^d /\ 2^d \in Nat \ {0} /\ 2^n \in Nat \ {0}
        BY <3>2, PowerAdd, PowerStep
      <3>4. 2^(XLEN - sh) <= 2^n
        <4>1. \A k, m \in Nat : m # 0 => k <= k * m
          OBVIOUS
        <4> QED
          BY <1>3, <3>2, <3>3, <4>1
      <3> HIDE DEF n, d, y
      <3>5. y \in 0 .. 2^n - 1 /\ 0 * 2^n + y = y
        BY <1>3, <1>5, <3>3, <3>4
      <3>6. y \div 2^n = 0
        BY <3>3, <3>5, ModUnique
      <3>7. Bit(y, n) = 0
        BY <3>6 DEF Bit
      <3> QED
        BY <1>8, <3>1, <3>7 DEF n
    <2>4. CASE i >= sh
      <3>1. Bit(u, i) = Bit(a % 2^(XLEN - sh), i - sh)
        BY <1>3, <2>1, <2>2, <2>4, BitOfProduct
      <3>2. Bit(a % 2^(XLEN - sh), i - sh) = Bit(a, i - sh)
        <4>1. XLEN - sh \in 0 .. XLEN /\ i - sh \in 0 .. (XLEN - sh) - 1 /\ a \in Int
          BY <1>2, <1>3, <2>1, <2>4, Sizes
        <4> QED
          BY <4>1, BitOfMod
      <3>3. Bit(y, XLEN - 1 - i) = Bit(r, sh + (XLEN - 1 - i))
        <4>1. XLEN - 1 - i \in Nat /\ sh + (XLEN - 1 - i) <= XLEN + 1 /\ r \in Int
          BY <1>2, <1>3, <2>1, <2>4, Sizes
        <4> QED
          BY <1>3, <4>1, BitOfDiv
      <3>4. Bit(r, sh + (XLEN - 1 - i)) = Bit(a, i - sh)
        <4>1. sh + (XLEN - 1 - i) \in Positions /\ XLEN - 1 - (sh + (XLEN - 1 - i)) = i - sh
          BY <1>3, <2>1, <2>4, Sizes DEF Positions
        <4> QED
          BY <1>1, <4>1
      <3> QED
        BY <1>8, <3>1, <3>2, <3>3, <3>4
    <2> QED
      BY <1>3, <2>1, <2>3, <2>4
  <1>10. Reversed(y) = u
    BY <1>7, <1>8, <1>9, SameBits
  <1> QED
    BY <1>4, <1>6, <1>7, <1>10

-----------------------------------------------------------------------------
(* The scalar ALU *)

\* What each operation gives (alu.v).
LEMMA AluSums ==
  ASSUME NEW a \in Word, NEW b \in Word
  PROVE  /\ alu_out(a, b, ADD) = (a + b) % WordMod
         /\ alu_out(a, b, SUB) = (a - b) % WordMod
         /\ alu_out(a, b, SLT) = Flag(Signed(a, WordMod) < Signed(b, WordMod))
         /\ alu_out(a, b, SLTU) = Flag(a < b)
  <1>1. a \in Nat /\ a < WordMod /\ b \in Nat /\ b < WordMod /\ WordMod \in Nat
    BY SignBit, Moduli
  <1>2. BitNot(b) \in Word /\ BitNot(b) = WordMod - 1 - b
    BY <1>1 DEF BitNot, Word
  <1> DEFINE p == ripple_carry_adder(a, b, 0)
             m == ripple_carry_adder(a, BitNot(b), 1)
  <1>3. /\ alu_out(a, b, ADD) = p.sum /\ alu_out(a, b, SUB) = m.sum
        /\ alu_out(a, b, SLT) = slt_result(a, b, m.sum) /\ alu_out(a, b, SLTU) = 1 - m.cout
    BY DEF alu_out, ADD, SUB, AND, OR, XOR, SLL, SRL, SRA, SLT, SLTU, Flag
  <1>4. p.sum \in Word /\ p.cout \in 0 .. 1 /\ p.sum + p.cout * WordMod = a + b + 0
    BY AdderAdds
  <1>5. m.sum \in Word /\ m.cout \in 0 .. 1 /\ m.sum + m.cout * WordMod = a + BitNot(b) + 1
    BY <1>2, AdderAdds
  <1> DEFINE ps == p.sum
             pc == p.cout
             ms == m.sum
             mc == m.cout
  <1>6. /\ ps \in 0 .. WordMod - 1 /\ pc \in {0, 1} /\ ps + pc * WordMod = a + b
        /\ ms \in 0 .. WordMod - 1 /\ mc \in {0, 1} /\ ms + mc * WordMod = a - b + WordMod
    <2>1. ps \in 0 .. WordMod - 1 /\ pc \in {0, 1} /\ ms \in 0 .. WordMod - 1 /\ mc \in {0, 1}
      BY <1>4, <1>5 DEF Word
    <2>2. ps + pc * WordMod = a + b + 0 /\ ms + mc * WordMod = a + (WordMod - 1 - b) + 1
      BY <1>2, <1>4, <1>5
    <2> HIDE DEF ps, pc, ms, mc
    <2> QED
      BY <1>1, <2>1, <2>2
  <1>7. /\ Bit(a, XLEN - 1) = IF 2 * a < WordMod THEN 0 ELSE 1
        /\ Bit(b, XLEN - 1) = IF 2 * b < WordMod THEN 0 ELSE 1
        /\ Bit(ms, XLEN - 1) = IF 2 * ms < WordMod THEN 0 ELSE 1
    BY <1>5, SignBit
  <1>8. slt_result(a, b, ms) = IF Bit(a, XLEN - 1) = Bit(b, XLEN - 1) THEN Bit(ms, XLEN - 1)
                               ELSE Bit(a, XLEN - 1)
    BY DEF slt_result
  <1> HIDE DEF p, m, ps, pc, ms, mc
  <1>9. ps = (a + b) % WordMod
    <2>1. pc * WordMod + ps = a + b /\ pc \in Int
      BY <1>1, <1>6
    <2> QED
      BY <1>1, <1>6, <2>1, Moduli, ModUnique
  <1>10. ms = (a - b) % WordMod
    <2>1. (mc - 1) * WordMod + ms = a - b /\ mc - 1 \in Int
      BY <1>1, <1>6
    <2> QED
      BY <1>1, <1>6, <2>1, Moduli, ModUnique
  <1>11. (mc = 0 => ms = a - b + WordMod) /\ (mc = 1 => ms = a - b)
    BY <1>1, <1>6
  <1>12. 1 - mc = Flag(a < b)
    BY <1>1, <1>6, <1>11 DEF Flag
  <1>13. slt_result(a, b, ms) = Flag(Signed(a, WordMod) < Signed(b, WordMod))
    <2>1. Signed(a, WordMod) = IF 2 * a < WordMod THEN a ELSE a - WordMod
      BY DEF Signed
    <2>2. Signed(b, WordMod) = IF 2 * b < WordMod THEN b ELSE b - WordMod
      BY DEF Signed
    <2>3. (IF Bit(a, XLEN - 1) = Bit(b, XLEN - 1) THEN Bit(ms, XLEN - 1) ELSE Bit(a, XLEN - 1))
            = Flag(Signed(a, WordMod) < Signed(b, WordMod))
      BY <1>1, <1>6, <1>7, <1>11, <2>1, <2>2 DEF Flag
    <2> QED
      BY <1>8, <2>3
  <1> QED
    BY <1>3, <1>9, <1>10, <1>12, <1>13 DEF ps, ms, mc

\* The shifts of the ALU are those of the reference.
LEMMA AluShifts ==
  ASSUME NEW a \in Word, NEW b \in Word
  PROVE  LET sh == b % XLEN
         IN  /\ alu_out(a, b, SLL) = (a % 2^(XLEN - sh)) * 2^sh
             /\ alu_out(a, b, SRL) = (a \div 2^sh) % WordMod
             /\ alu_out(a, b, SRA) = (Signed(a, WordMod) \div 2^sh) % WordMod
             /\ (a % 2^(XLEN - sh)) * 2^sh \in Word
  <1> DEFINE sh == b % XLEN
  <1>1. /\ alu_out(a, b, SLL) = barrel_shifter(a, sh, TRUE, FALSE)
        /\ alu_out(a, b, SRL) = barrel_shifter(a, sh, FALSE, FALSE)
        /\ alu_out(a, b, SRA) = barrel_shifter(a, sh, FALSE, TRUE)
    <2>1. /\ (SLL = SRA) = FALSE /\ (SRL = SLL) = FALSE /\ (SRL = SRA) = FALSE /\ (SRA = SLL) = FALSE
          /\ (SLL = SLL) = TRUE /\ (SRA = SRA) = TRUE
      BY DEF SLL, SRL, SRA
    <2>2. /\ alu_out(a, b, SLL) = barrel_shifter(a, b % XLEN, SLL = SLL, SLL = SRA)
          /\ alu_out(a, b, SRL) = barrel_shifter(a, b % XLEN, SRL = SLL, SRL = SRA)
          /\ alu_out(a, b, SRA) = barrel_shifter(a, b % XLEN, SRA = SLL, SRA = SRA)
      BY DEF alu_out, ADD, SUB, AND, OR, XOR, SLL, SRL, SRA, SLT, SLTU
    <2> QED
      BY <2>1, <2>2
  <1>2. sh \in 0 .. XLEN - 1
    <2>1. b \in Nat
      BY SignBit
    <2> QED
      BY <2>1, Sizes
  <1> HIDE DEF sh
  <1>3. /\ barrel_shifter(a, sh, FALSE, FALSE) = (a \div 2^sh) % WordMod
        /\ barrel_shifter(a, sh, FALSE, TRUE) = (Signed(a, WordMod) \div 2^sh) % WordMod
    BY <1>2, ShiftsRight
  <1>4. /\ barrel_shifter(a, sh, TRUE, FALSE) = (a % 2^(XLEN - sh)) * 2^sh
        /\ barrel_shifter(a, sh, TRUE, FALSE) \in Word
    BY <1>2, ShiftsLeft
  <1> QED
    BY <1>1, <1>3, <1>4 DEF sh

\* The bitwise operations of the ALU are those of the reference.
LEMMA AluBits ==
  ASSUME NEW a \in Word, NEW b \in Word
  PROVE  /\ alu_out(a, b, AND) = BitAnd(a, b) /\ BitAnd(a, b) \in Word
         /\ alu_out(a, b, OR) = BitOr(a, b) /\ BitOr(a, b) \in Word
         /\ alu_out(a, b, XOR) = BitXor(a, b) /\ BitXor(a, b) \in Word
  <1>1. /\ alu_out(a, b, AND) = BitAnd(a, b) /\ alu_out(a, b, OR) = BitOr(a, b)
        /\ alu_out(a, b, XOR) = BitXor(a, b)
    BY DEF alu_out, ADD, SUB, AND, OR, XOR, SLL, SRL, SRA, SLT, SLTU
  <1>2. \A i \in Positions : Bit(a, i) \in {0, 1} /\ Bit(b, i) \in {0, 1}
    BY BitOfWord
  <1>3. \A i \in Positions : /\ Bit(a, i) * Bit(b, i) \in 0 .. 1
                             /\ Flag(Bit(a, i) + Bit(b, i) > 0) \in 0 .. 1
                             /\ (Bit(a, i) + Bit(b, i)) % 2 \in 0 .. 1
    BY <1>2 DEF Flag
  <1>4. /\ [i \in Positions |-> Bit(a, i) * Bit(b, i)] \in Bits
        /\ [i \in Positions |-> Flag(Bit(a, i) + Bit(b, i) > 0)] \in Bits
        /\ [i \in Positions |-> (Bit(a, i) + Bit(b, i)) % 2] \in Bits
    BY <1>3 DEF Bits
  <1> QED
    BY <1>1, <1>4, BitOfSpelled DEF BitAnd, BitOr, BitXor

\* Whatever the operation, the result is a word.
LEMMA AluIsWord ==
  ASSUME NEW a \in Word, NEW b \in Word, NEW ctrl
  PROVE  alu_out(a, b, ctrl) \in Word
  <1>1. 0 \in Word /\ 1 \in Word /\ \A n \in Int : n % WordMod \in Word
    <2>1. WordMod >= 2
      BY WordModIsPower, Moduli
    <2> QED
      BY <2>1, Moduli DEF Word
  <1>2. a \in Int /\ b \in Int /\ a + b \in Int /\ a - b \in Int
    BY SignBit
  <1>3. \A p : Flag(p) \in Word
    BY <1>1 DEF Flag
  <1>4. b % XLEN \in Nat /\ 2^(b % XLEN) \in Nat \ {0}
    <2>1. b % XLEN \in 0 .. XLEN + 1
      BY <1>2, Sizes
    <2> QED
      BY <2>1, PowerStep
  <1>5. a \div 2^(b % XLEN) \in Int /\ Signed(a, WordMod) \div 2^(b % XLEN) \in Int
    <2>1. Signed(a, WordMod) \in Int
      BY <1>2, Moduli DEF Signed
    <2> QED
      BY <1>2, <1>4, <2>1
  <1>6. \A c \in {ADD, SUB, SLT, SLTU} : alu_out(a, b, c) \in Word
    BY <1>1, <1>2, <1>3, AluSums
  <1>7. \A c \in {SLL, SRL, SRA} : alu_out(a, b, c) \in Word
    BY <1>1, <1>5, AluShifts
  <1>8. \A c \in {AND, OR, XOR} : alu_out(a, b, c) \in Word
    BY AluBits
  <1>9. ctrl \notin {ADD, SUB, SLT, SLTU, SLL, SRL, SRA, AND, OR, XOR} => alu_out(a, b, ctrl) = 0
    BY DEF alu_out
  <1> QED
    BY <1>1, <1>6, <1>7, <1>8, <1>9

\* The bitwise operations are those on sets of positions.
LEMMA BitwiseIsRef ==
  ASSUME NEW a \in Word, NEW b \in Word
  PROVE  /\ BitAnd(a, b) = Value(Ones(a) \cap Ones(b))
         /\ BitOr(a, b) = Value(Ones(a) \cup Ones(b))
         /\ BitXor(a, b) = Value(SymDiff(Ones(a), Ones(b)))
  <1>1. \A i \in Positions : Bit(a, i) \in {0, 1} /\ Bit(b, i) \in {0, 1}
    BY BitOfWord
  <1>2. \A i \in Positions : (i \in Ones(a) <=> Bit(a, i) = 1) /\ (i \in Ones(b) <=> Bit(b, i) = 1)
    BY DEF Ones
  <1>3. \A i \in Positions :
          /\ Flag(i \in Ones(a) \cap Ones(b)) = Bit(a, i) * Bit(b, i)
          /\ Flag(i \in Ones(a) \cup Ones(b)) = Flag(Bit(a, i) + Bit(b, i) > 0)
          /\ Flag(i \in SymDiff(Ones(a), Ones(b))) = (Bit(a, i) + Bit(b, i)) % 2
    BY <1>1, <1>2 DEF Flag, SymDiff
  <1>4. /\ [i \in Positions |-> Flag(i \in Ones(a) \cap Ones(b))]
             = [i \in Positions |-> Bit(a, i) * Bit(b, i)]
        /\ [i \in Positions |-> Flag(i \in Ones(a) \cup Ones(b))]
             = [i \in Positions |-> Flag(Bit(a, i) + Bit(b, i) > 0)]
        /\ [i \in Positions |-> Flag(i \in SymDiff(Ones(a), Ones(b)))]
             = [i \in Positions |-> (Bit(a, i) + Bit(b, i)) % 2]
    BY <1>3
  <1> QED
    BY <1>4 DEF Value, BitAnd, BitOr, BitXor

\* The operation an OP instruction asks for.
AluOp(funct3, alt) ==
  CASE funct3 = 0 -> (IF alt THEN SUB ELSE ADD)
    [] funct3 = 1 -> SLL
    [] funct3 = 2 -> SLT
    [] funct3 = 3 -> SLTU
    [] funct3 = 4 -> XOR
    [] funct3 = 5 -> (IF alt THEN SRA ELSE SRL)
    [] funct3 = 6 -> OR
    [] funct3 = 7 -> AND

\* The ALU's result of each operation is the architecture's.
LEMMA AluIsRef ==
  ASSUME NEW a \in Word, NEW b \in Word, NEW funct3 \in 0 .. 7, NEW alt \in BOOLEAN,
         alt => funct3 \in {0, 5}
  PROVE  alu_out(a, b, AluOp(funct3, alt)) = AluRef(funct3, alt, a, b)
  <1> DEFINE c == AluOp(funct3, alt)
             ref == AluRef(funct3, alt, a, b)
             sh == b % XLEN
  <1>1. /\ funct3 = 0 => c = (IF alt THEN SUB ELSE ADD)
        /\ funct3 = 1 => c = SLL
        /\ funct3 = 2 => c = SLT
        /\ funct3 = 3 => c = SLTU
        /\ funct3 = 4 => c = XOR
        /\ funct3 = 5 => c = (IF alt THEN SRA ELSE SRL)
        /\ funct3 = 6 => c = OR
        /\ funct3 = 7 => c = AND
    BY DEF AluOp
  <1>2. /\ funct3 = 0 => ref = (IF alt THEN a - b ELSE a + b) % WordMod
        /\ funct3 = 1 => ref = (a % 2^(XLEN - sh)) * 2^sh
        /\ funct3 = 2 => ref = Flag(Signed(a, WordMod) < Signed(b, WordMod))
        /\ funct3 = 3 => ref = Flag(a < b)
        /\ funct3 = 4 => ref = Value(SymDiff(Ones(a), Ones(b)))
        /\ funct3 = 5 => ref = ((IF alt THEN Signed(a, WordMod) ELSE a) \div 2^sh) % WordMod
        /\ funct3 = 6 => ref = Value(Ones(a) \cup Ones(b))
        /\ funct3 = 7 => ref = Value(Ones(a) \cap Ones(b))
    BY DEF AluRef
  <1> HIDE DEF c, ref
  <1>3. funct3 \in {0, 1, 2, 3, 4, 5, 6, 7}
    OBVIOUS
  <1>4. funct3 \in {0, 2, 3} => alu_out(a, b, c) = ref
    BY <1>1, <1>2, AluSums
  <1>5. funct3 \in {1, 5} => alu_out(a, b, c) = ref
    BY <1>1, <1>2, AluShifts
  <1>6. funct3 \in {4, 6, 7} => alu_out(a, b, c) = ref
    BY <1>1, <1>2, AluBits, BitwiseIsRef, ZenonT(30)
  <1> QED
    BY <1>3, <1>4, <1>5, <1>6 DEF c, ref

-----------------------------------------------------------------------------
(* The packed unit *)

\* A product register holds the pattern of the product of two signed bytes,
\* and widening it gives the pattern of the same product in a word.
LEMMA ProductPattern ==
  ASSUME NEW a \in Word, NEW b \in Word, NEW i \in 0 .. 3
  PROVE  LET p == SByte(a, i) * SByte(b, i)
         IN  /\ p \in Int
             /\ mult_result(a, b, i) = p % HalfMod
             /\ SignExtend(mult_result(a, b, i), HalfMod) = p % WordMod
  <1> DEFINE x == SByte(a, i)
             y == SByte(b, i)
  <1>1. /\ x \in Int /\ y \in Int /\ x * y \in Int
        /\ -HalfMod <= 2 * (x * y) /\ 2 * (x * y) < HalfMod
    BY ByteOfIsByte, SignedBytes DEF SByte
  <1>2. mult_result(a, b, i) = ((x % HalfMod) * (y % HalfMod)) % HalfMod
    BY DEF mult_result, byte_signed, SByte
  <1> HIDE DEF x, y
  <1>3. ((x % HalfMod) * (y % HalfMod)) % HalfMod = (x * y) % HalfMod
    <2>1. y % HalfMod \in Int /\ x % HalfMod \in Int
      BY <1>1, Moduli
    <2>2. ((x % HalfMod) * (y % HalfMod)) % HalfMod = (x * (y % HalfMod)) % HalfMod
      BY <1>1, <2>1, Moduli, ModMul, ZenonT(30)
    <2>3. ((y % HalfMod) * x) % HalfMod = (y * x) % HalfMod
      BY <1>1, Moduli, ModMul
    <2>4. x * (y % HalfMod) = (y % HalfMod) * x /\ y * x = x * y
      BY <1>1, <2>1
    <2> QED
      BY <2>2, <2>3, <2>4
  <1>4. Signed((x * y) % HalfMod, HalfMod) = x * y
    BY <1>1, Moduli, SignedOfPattern
  <1> QED
    BY <1>1, <1>2, <1>3, <1>4 DEF SignExtend, x, y

\* A byte sum through a half is the byte sum.
LEMMA SumPattern ==
  ASSUME NEW a \in Word, NEW b \in Word, NEW i \in 0 .. 3
  PROVE  ((byte_signed(a, i) + byte_signed(b, i)) % HalfMod) % ByteMod
           = (SByte(a, i) + SByte(b, i)) % ByteMod
  <1> DEFINE x == SByte(a, i)
             y == SByte(b, i)
  <1>1. x \in Int /\ y \in Int
    BY ByteOfIsByte, SignedBytes DEF SByte
  <1>2. byte_signed(a, i) = x % HalfMod /\ byte_signed(b, i) = y % HalfMod
    BY DEF byte_signed, SByte
  <1> HIDE DEF x, y
  <1>3. x % HalfMod \in Int /\ y % HalfMod \in Int /\ x + y \in Int
    BY <1>1, Moduli
  <1>4. ((x % HalfMod) + (y % HalfMod)) % HalfMod = (x + (y % HalfMod)) % HalfMod
    BY <1>1, <1>3, Moduli, ModAdd, ZenonT(30)
  <1>5. ((y % HalfMod) + x) % HalfMod = (y + x) % HalfMod
    BY <1>1, Moduli, ModAdd
  <1>6. x + (y % HalfMod) = (y % HalfMod) + x /\ y + x = x + y
    BY <1>1, <1>3
  <1>7. ((x + y) % HalfMod) % ByteMod = (x + y) % ByteMod
    BY <1>3, Moduli, ModMod, ZenonT(30)
  <1>8. ((x % HalfMod) + (y % HalfMod)) % HalfMod = (x + y) % HalfMod
    BY <1>4, <1>5, <1>6
  <1> QED
    BY <1>2, <1>7, <1>8 DEF x, y

\* The one-cycle sum is the architecture's.
LEMMA AddIsRef ==
  ASSUME NEW a \in Word, NEW b \in Word
  PROVE  pvadd_result(a, b) = PackedRef(PVADD, a, b)
  <1>1. [i \in 0 .. 3 |-> ((byte_signed(a, i) + byte_signed(b, i)) % HalfMod) % ByteMod]
          = [i \in 0 .. 3 |-> (SByte(a, i) + SByte(b, i)) % ByteMod]
    BY SumPattern
  <1>2. PackedRef(PVADD, a, b) = OfBytes([i \in 0 .. 3 |-> (SByte(a, i) + SByte(b, i)) % ByteMod])
    BY DEF PackedRef, PVADD
  <1> QED
    BY <1>1, <1>2 DEF pvadd_result

\* The product registers of an operation after its multiplying cycle.
Multiplied(m, ctrl, a, b) ==
  IF ctrl = PVMAC THEN \A i \in 0 .. 3 : m[i] = mult_result(a, b, i)
  ELSE \A i \in 0 .. 1 : m[i] = mult_result(a, b, IF ctrl = PVMUL THEN i ELSE i + 2)

\* Gathering the products of the packed unit gives the reference result.
LEMMA GatherIsRef ==
  ASSUME NEW a \in Word, NEW b \in Word, NEW m, NEW ctrl \in {PVMUL, PVMAC, PVMUL_UPPER},
         Multiplied(m, ctrl, a, b)
  PROVE  gathered(m, ctrl) = PackedRef(ctrl, a, b)
  <1> DEFINE p(i) == SByte(a, i) * SByte(b, i)
  <1>1. \A i \in 0 .. 3 : /\ p(i) \in Int
                          /\ mult_result(a, b, i) = p(i) % HalfMod
                          /\ SignExtend(mult_result(a, b, i), HalfMod) = p(i) % WordMod
    BY ProductPattern
  <1>2. CASE ctrl = PVMAC
    <2>1. m[0] = mult_result(a, b, 0) /\ m[1] = mult_result(a, b, 1)
            /\ m[2] = mult_result(a, b, 2) /\ m[3] = mult_result(a, b, 3)
      BY <1>2 DEF Multiplied
    <2>2. gathered(m, ctrl)
            = ((p(0) % WordMod) + (p(1) % WordMod) + (p(2) % WordMod) + (p(3) % WordMod)) % WordMod
      BY <1>1, <1>2, <2>1 DEF gathered
    <2>3. PackedRef(ctrl, a, b) = (p(0) + p(1) + p(2) + p(3)) % WordMod
      BY <1>2 DEF PackedRef, PVMAC
    <2>4. p(0) \in Int /\ p(1) \in Int /\ p(2) \in Int /\ p(3) \in Int
      BY <1>1
    <2>5. WordMod \in Nat \ {0}
      BY Moduli
    <2> HIDE DEF p
    <2> DEFINE F(n, h, i, j, k) ==
                 ((h % n) + (i % n) + (j % n) + (k % n)) % n = (h + i + j + k) % n
    <2>6. \A n \in Nat \ {0} : \A h, i, j, k \in Int : F(n, h, i, j, k)
      BY SumOfFour, Zenon
    <2> HIDE DEF F
    <2>7. F(WordMod, p(0), p(1), p(2), p(3))
      BY <2>4, <2>5, <2>6
    <2> QED
      BY <2>2, <2>3, <2>7 DEF F
  <1>3. CASE ctrl = PVMUL
    <2>1. m[0] = p(0) % HalfMod /\ m[1] = p(1) % HalfMod
      BY <1>1, <1>3 DEF Multiplied, PVMUL, PVMAC
    <2>2. gathered(m, ctrl) = (p(0) % HalfMod) + (p(1) % HalfMod) * HalfMod
      BY <1>3, <2>1 DEF gathered, PVMUL, PVMAC
    <2>3. PackedRef(ctrl, a, b) = (p(0) % HalfMod) + HalfMod * (p(1) % HalfMod)
      BY <1>3 DEF PackedRef, PVMUL
    <2>4. p(1) % HalfMod \in Int /\ HalfMod \in Int
      BY <1>1, Moduli
    <2> HIDE DEF p
    <2>5. (p(1) % HalfMod) * HalfMod = HalfMod * (p(1) % HalfMod)
      BY <2>4
    <2> QED
      BY <2>2, <2>3, <2>5
  <1>4. CASE ctrl = PVMUL_UPPER
    <2>1. m[0] = p(2) % HalfMod /\ m[1] = p(3) % HalfMod
      BY <1>1, <1>4 DEF Multiplied, PVMUL, PVMAC, PVMUL_UPPER
    <2>2. gathered(m, ctrl) = (p(2) % HalfMod) + (p(3) % HalfMod) * HalfMod
      BY <1>4, <2>1 DEF gathered, PVMUL_UPPER, PVMAC
    <2>3. PackedRef(ctrl, a, b) = (p(2) % HalfMod) + HalfMod * (p(3) % HalfMod)
      BY <1>4 DEF PackedRef, PVMUL_UPPER
    <2>4. p(3) % HalfMod \in Int /\ HalfMod \in Int
      BY <1>1, Moduli
    <2> HIDE DEF p
    <2>5. (p(3) % HalfMod) * HalfMod = HalfMod * (p(3) % HalfMod)
      BY <2>4
    <2> QED
      BY <2>2, <2>3, <2>5
  <1> QED
    BY <1>2, <1>3, <1>4

-----------------------------------------------------------------------------
(* The vector ALU *)

\* The widths: what an element is in bytes, and a lane in values.
LEMMA Widths ==
  ASSUME NEW sew \in 0 .. 2
  PROVE  /\ sew = 0 => 2^sew = 1 /\ LaneMod(sew) = ByteMod /\ LanesPerWord(sew) = 4
         /\ sew = 1 => 2^sew = 2 /\ LaneMod(sew) = HalfMod /\ LanesPerWord(sew) = 2
         /\ sew = 2 => 2^sew = 4 /\ LaneMod(sew) = WordMod /\ LanesPerWord(sew) = 1
         /\ LaneMod(sew) \in Nat \ {0} /\ ByteMod^(2^sew) = LaneMod(sew)
         /\ Elems(2^sew) = Lanes(sew) /\ 8 \div 2^sew = 2 * LanesPerWord(sew)
  <1>1. CASE sew = 0
    <2>1. 2^sew = 1 /\ LaneMod(sew) = ByteMod /\ LanesPerWord(sew) = 4
      BY <1>1, Powers DEF LaneMod, LanesPerWord, SEW_8, SEW_16
    <2> QED
      BY <1>1, <2>1, Powers, Moduli DEF Elems, Lanes
  <1>2. CASE sew = 1
    <2>1. 2^sew = 2 /\ LaneMod(sew) = HalfMod /\ LanesPerWord(sew) = 2
      BY <1>2, Powers DEF LaneMod, LanesPerWord, SEW_8, SEW_16
    <2> QED
      BY <1>2, <2>1, Powers, Moduli DEF Elems, Lanes
  <1>3. CASE sew = 2
    <2>1. 2^sew = 4 /\ LaneMod(sew) = WordMod /\ LanesPerWord(sew) = 1
      BY <1>3, Powers DEF LaneMod, LanesPerWord, SEW_8, SEW_16
    <2> QED
      BY <1>3, <2>1, Powers, Moduli DEF Elems, Lanes
  <1> QED
    BY <1>1, <1>2, <1>3

\* The lanes the hardware cuts out of a register are the elements.
LEMMA LaneIsPattern ==
  ASSUME NEW r \in VWord, NEW sew \in 0 .. 2, NEW i \in Lanes(sew)
  PROVE  /\ Lane(r, sew, i) \in 0 .. LaneMod(sew) - 1
         /\ Pattern(r, 2^sew, i) = Lane(r, sew, i)
  <1>1. r[1] \in Word /\ r[2] \in Word
    BY DEF VWord
  <1>2. CASE sew = 0
    <2>1. 2^sew = 1 /\ LaneMod(sew) = ByteMod /\ LanesPerWord(sew) = 4
      BY <1>2, Widths
    <2>2. i \in 0 .. 7
      BY <2>1 DEF Lanes
    <2>3. Lane(r, sew, i) = ByteOf(r[i \div 4 + 1], i % 4)
      BY <2>1 DEF Lane, ByteOf
    <2>4. i % 4 \in 0 .. 3 /\ i \div 4 + 1 \in {1, 2}
      BY <2>2
    <2>5. r[i \div 4 + 1] \in Word
      BY <1>1, <2>4
    <2>6. Pattern(r, 2^sew, i) = Lane(r, sew, i)
      BY <2>1, <2>3 DEF Pattern, VByte
    <2>7. ByteOf(r[i \div 4 + 1], i % 4) \in Byte
      BY <2>4, <2>5, ByteOfIsByte
    <2> QED
      BY <2>1, <2>3, <2>6, <2>7 DEF Byte
  <1>3. CASE sew = 1
    <2>1. 2^sew = 2 /\ LaneMod(sew) = HalfMod /\ LanesPerWord(sew) = 2
      BY <1>3, Widths
    <2>2. i \in {0, 1, 2, 3}
      BY <2>1 DEF Lanes
    <2>3. Lane(r, sew, i) = HalfOf(r[i \div 2 + 1], i % 2)
      BY <2>1 DEF Lane, HalfOf
    <2>4. Pattern(r, 2^sew, i) = VByte(r, 2 * i) + ByteMod * VByte(r, 2 * i + 1)
      BY <2>1 DEF Pattern
    <2>5. /\ i = 0 => 2 * i = 0 /\ 2 * i + 1 = 1 /\ i \div 2 = 0 /\ i % 2 = 0
          /\ i = 1 => 2 * i = 2 /\ 2 * i + 1 = 3 /\ i \div 2 = 0 /\ i % 2 = 1
          /\ i = 2 => 2 * i = 4 /\ 2 * i + 1 = 5 /\ i \div 2 = 1 /\ i % 2 = 0
          /\ i = 3 => 2 * i = 6 /\ 2 * i + 1 = 7 /\ i \div 2 = 1 /\ i % 2 = 1
      BY <2>2
    <2>6. \A k \in 0 .. 3 : VByte(r, k) = ByteOf(r[1], k) /\ VByte(r, k + 4) = ByteOf(r[2], k)
      BY DEF VByte
    <2>7. /\ VByte(r, 0) = ByteOf(r[1], 0) /\ VByte(r, 1) = ByteOf(r[1], 1)
          /\ VByte(r, 2) = ByteOf(r[1], 2) /\ VByte(r, 3) = ByteOf(r[1], 3)
          /\ VByte(r, 4) = ByteOf(r[2], 0) /\ VByte(r, 5) = ByteOf(r[2], 1)
          /\ VByte(r, 6) = ByteOf(r[2], 2) /\ VByte(r, 7) = ByteOf(r[2], 3)
      BY <2>6
    <2>8. Pattern(r, 2^sew, i) = HalfOf(r[i \div 2 + 1], i % 2)
      BY <1>1, <2>2, <2>4, <2>5, <2>7, HalvesOfBytes
    <2>9. \A w \in Word : HalfOf(w, 0) \in 0 .. HalfMod - 1 /\ HalfOf(w, 1) \in 0 .. HalfMod - 1
      <3>1. \A w \in Word : w \in Nat /\ w \div HalfMod \in Nat
        BY Moduli DEF Word
      <3> QED
        BY <3>1, HalvesOfBytes, Moduli
    <2> QED
      BY <1>1, <2>1, <2>2, <2>3, <2>5, <2>8, <2>9
  <1>4. CASE sew = 2
    <2>1. 2^sew = 4 /\ LaneMod(sew) = WordMod /\ LanesPerWord(sew) = 1
      BY <1>4, Widths
    <2>2. i \in 0 .. 1 /\ i \div 1 = i /\ i % 1 = 0
      BY <2>1 DEF Lanes
    <2>3. r[i + 1] \in Word
      BY <1>1, <2>2
    <2>4. Lane(r, sew, i) = r[i + 1]
      <3>1. Lane(r, sew, i) = (r[i + 1] \div 1) % WordMod
        BY <2>1, <2>2, Powers DEF Lane
      <3>2. \A w \in Word : w \div 1 = w /\ 0 * WordMod + w = w /\ w \in 0 .. WordMod - 1
        BY Moduli DEF Word
      <3>3. \A w \in Word : w % WordMod = w
        BY <3>2, Moduli, ModUnique
      <3> QED
        BY <2>3, <3>1, <3>2, <3>3
    <2>5. Pattern(r, 2^sew, i) = OfBytes([k \in 0 .. 3 |-> VByte(r, 4 * i + k)])
      BY <2>1 DEF Pattern
    <2>6. \A k \in 0 .. 3 : VByte(r, 4 * i + k) = ByteOf(r[i + 1], k)
      <3>1. \A k \in 0 .. 3 : (4 * i + k) \div 4 = i /\ (4 * i + k) % 4 = k
        BY <2>2
      <3> QED
        BY <3>1 DEF VByte
    <2>7. Pattern(r, 2^sew, i) = r[i + 1]
      BY <2>3, <2>5, <2>6, WordOfBytes
    <2> QED
      BY <2>1, <2>3, <2>4, <2>7 DEF Word
  <1> QED
    BY <1>2, <1>3, <1>4

\* An element of the reference is a lane of the unit.
LEMMA ElemIsLane ==
  ASSUME NEW r \in VWord, NEW sew \in 0 .. 2, NEW i \in Lanes(sew)
  PROVE  /\ Elem(r, 2^sew, i) = Signed(Lane(r, sew, i), LaneMod(sew))
         /\ Lane(r, sew, i) \in Int /\ Elem(r, 2^sew, i) \in Int
  <1>1. Elem(r, 2^sew, i) = Signed(Lane(r, sew, i), LaneMod(sew))
    BY LaneIsPattern, Widths DEF Elem
  <1>2. Lane(r, sew, i) \in Int /\ LaneMod(sew) \in Int
    BY LaneIsPattern, Widths
  <1> QED
    BY <1>1, <1>2 DEF Signed

\* Cutting elements into bytes and joining lanes give the same words.
LEMMA PackIsOfElems ==
  ASSUME NEW sew \in 0 .. 2, NEW z, \A i \in Lanes(sew) : z[i] \in Int,
         NEW lane, \A i \in Lanes(sew) : lane[i] = z[i] % LaneMod(sew)
  PROVE  OfElems(z, 2^sew) = Pack(lane, sew)
  <1> DEFINE w == 2^sew
             byte(j) == ByteOf(z[j \div w] % LaneMod(sew), j % w)
             lower == [j \in 0 .. 3 |-> byte(j)]
             upper == [j \in 0 .. 3 |-> byte(j + 4)]
  <1>1. OfElems(z, w) = << OfBytes(lower), OfBytes(upper) >>
    BY Widths DEF OfElems
  <1>2. CASE sew = 0
    <2>1. w = 1 /\ LaneMod(sew) = ByteMod /\ Lanes(sew) = 0 .. 7
      <3>1. 2^sew = 1 /\ LaneMod(sew) = ByteMod /\ LanesPerWord(sew) = 4
        BY <1>2, Widths
      <3> QED
        BY <3>1 DEF Lanes
    <2>2. \A n \in 0 .. ByteMod - 1 : ByteOf(n, 0) = n
      <3>1. \A n \in 0 .. ByteMod - 1 : n \in Nat /\ n \div 1 = n /\ 0 * ByteMod + n = n
        BY Moduli
      <3>2. \A n \in 0 .. ByteMod - 1 : n % ByteMod = n
        BY <3>1, Moduli, ModUnique
      <3> QED
        BY <3>1, <3>2, Powers DEF ByteOf
    <2>3. \A j \in 0 .. 7 : byte(j) = lane[j]
      <3>1. \A j \in 0 .. 7 : byte(j) = ByteOf(z[j] % ByteMod, 0)
        BY <2>1
      <3>2. \A j \in 0 .. 7 : z[j] % ByteMod \in 0 .. ByteMod - 1
        BY <2>1, Moduli
      <3> QED
        BY <2>1, <2>2, <3>1, <3>2
    <2> HIDE DEF byte
    <2>4. lower = [k \in 0 .. 3 |-> lane[4 * 0 + k]] /\ upper = [k \in 0 .. 3 |-> lane[4 * 1 + k]]
      BY <2>3
    <2>5. Pack(lane, sew) = << OfBytes([k \in 0 .. 3 |-> lane[4 * 0 + k]]),
                               OfBytes([k \in 0 .. 3 |-> lane[4 * 1 + k]]) >>
      BY <1>2 DEF Pack, SEW_8, SEW_16
    <2> HIDE DEF lower, upper
    <2> QED
      BY <1>1, <2>4, <2>5, Zenon
  <1>3. CASE sew = 1
    <2>1. w = 2 /\ LaneMod(sew) = HalfMod /\ Lanes(sew) = 0 .. 3
      BY <1>3, Widths, SMTT(30) DEF Lanes
    <2>2. \A i \in 0 .. 3 : lane[i] = z[i] % HalfMod /\ lane[i] \in 0 .. HalfMod - 1
      BY <2>1, Moduli, SMTT(30)
    <2>3. \A n \in 0 .. HalfMod - 1 : ByteOf(n, 0) + ByteMod * ByteOf(n, 1) = n
      <3> SUFFICES ASSUME NEW n \in 0 .. HalfMod - 1
                   PROVE  ByteOf(n, 0) + ByteMod * ByteOf(n, 1) = n
        OBVIOUS
      <3>1. n \in Nat /\ n \div 1 = n /\ 0 * HalfMod + n = n
        BY Moduli
      <3>2. n % HalfMod = n
        BY <3>1, Moduli, ModUnique
      <3>3. ByteOf(n, 0) = n % ByteMod /\ ByteOf(n, 1) = (n \div ByteMod) % ByteMod
        BY <3>1, Powers DEF ByteOf
      <3>4. ByteMod \in Nat \ {0} /\ HalfMod = ByteMod * ByteMod
        BY Moduli
      <3>5. (n % ByteMod) + ByteMod * ((n \div ByteMod) % ByteMod) = n % HalfMod
        BY <3>1, <3>4, TwoDigits
      <3> QED
        BY <3>2, <3>3, <3>5
    <2>4. /\ byte(0) = ByteOf(lane[0], 0) /\ byte(1) = ByteOf(lane[0], 1)
          /\ byte(2) = ByteOf(lane[1], 0) /\ byte(3) = ByteOf(lane[1], 1)
          /\ byte(4) = ByteOf(lane[2], 0) /\ byte(5) = ByteOf(lane[2], 1)
          /\ byte(6) = ByteOf(lane[3], 0) /\ byte(7) = ByteOf(lane[3], 1)
      BY <2>1, <2>2
    <2> HIDE DEF byte
    <2>5. \A j \in 0 .. 7 : byte(j) \in Nat
      <3>1. \A n \in 0 .. HalfMod - 1 : ByteOf(n, 0) \in Nat /\ ByteOf(n, 1) \in Nat
        <4>1. \A n \in 0 .. HalfMod - 1 : n \in Nat /\ n \div 1 = n /\ n \div ByteMod \in Nat
          BY Moduli
        <4> QED
          BY <4>1, Moduli, Powers DEF ByteOf
      <3> QED
        BY <2>2, <2>4, <3>1
    <2>6. /\ byte(0) + ByteMod * byte(1) = lane[0] /\ byte(2) + ByteMod * byte(3) = lane[1]
          /\ byte(4) + ByteMod * byte(5) = lane[2] /\ byte(6) + ByteMod * byte(7) = lane[3]
      BY <2>2, <2>3, <2>4
    <2>7. \A n, p, q, r, s \in Nat : p + n * (q + n * (r + n * s)) = (p + n * q) + (n * n) * (r + n * s)
      OBVIOUS
    <2>8. OfBytes(lower) = lane[0] + HalfMod * lane[1]
      <3>1. /\ lower[0] = byte(0) /\ lower[1] = byte(1)
            /\ lower[2] = byte(2) /\ lower[3] = byte(3)
        OBVIOUS
      <3> HIDE DEF lower
      <3>2. OfBytes(lower) = byte(0) + ByteMod * (byte(1) + ByteMod * (byte(2) + ByteMod * byte(3)))
        BY <3>1 DEF OfBytes
      <3> QED
        BY <2>5, <2>6, <2>7, <3>2, Moduli
    <2>9. OfBytes(upper) = lane[2] + HalfMod * lane[3]
      <3>1. /\ upper[0] = byte(4) /\ upper[1] = byte(5)
            /\ upper[2] = byte(6) /\ upper[3] = byte(7)
        OBVIOUS
      <3> HIDE DEF upper
      <3>2. OfBytes(upper) = byte(4) + ByteMod * (byte(5) + ByteMod * (byte(6) + ByteMod * byte(7)))
        BY <3>1 DEF OfBytes
      <3> QED
        BY <2>5, <2>6, <2>7, <3>2, Moduli
    <2> HIDE DEF lower, upper
    <2>10. Pack(lane, sew) = << lane[0] + HalfMod * lane[1], lane[2] + HalfMod * lane[3] >>
      BY <1>3 DEF Pack, SEW_8, SEW_16
    <2> QED
      BY <1>1, <2>8, <2>9, <2>10
  <1>4. CASE sew = 2
    <2>1. w = 4 /\ LaneMod(sew) = WordMod /\ Lanes(sew) = 0 .. 1
      BY <1>4, Widths DEF Lanes
    <2>2. \A i \in 0 .. 1 : lane[i] = z[i] % WordMod /\ lane[i] \in Word
      BY <2>1, Moduli DEF Word
    <2>3. \A k \in 0 .. 3 : byte(k) = ByteOf(lane[0], k) /\ byte(k + 4) = ByteOf(lane[1], k)
      <3>1. \A k \in 0 .. 3 : /\ k \div 4 = 0 /\ k % 4 = k
                              /\ (k + 4) \div 4 = 1 /\ (k + 4) % 4 = k
        OBVIOUS
      <3> QED
        BY <2>1, <2>2, <3>1
    <2> HIDE DEF byte
    <2>4. OfBytes(lower) = lane[0] /\ OfBytes(upper) = lane[1]
      BY <2>2, <2>3, WordOfBytes
    <2>5. Pack(lane, sew) = << lane[0], lane[1] >>
      BY <1>4 DEF Pack, SEW_8, SEW_16
    <2> HIDE DEF lower, upper
    <2> QED
      BY <1>1, <2>4, <2>5
  <1> QED
    BY <1>2, <1>3, <1>4

\* What the architecture asks of each operation of the vector ALU.
ValuRef(op, sew, a, b) ==
  LET w == 2^sew
      x(i) == Elem(a, w, i)
      y(i) == Elem(b, w, i)
  IN  CASE op = OP_VADD -> OfElems([i \in Elems(w) |-> x(i) + y(i)], w)
        [] op = OP_VSUB -> OfElems([i \in Elems(w) |-> x(i) - y(i)], w)
        [] op = OP_VMUL -> OfElems([i \in Elems(w) |-> x(i) * y(i)], w)
        [] op = OP_VMAC -> << Dot(a, b, w), 0 >>

\* Lane-wise addition and subtraction give the reference result.
LEMMA AddSubIsRef ==
  ASSUME NEW a \in VWord, NEW b \in VWord, NEW sew \in 0 .. 2
  PROVE  /\ vadd_result(a, b, sew) = ValuRef(OP_VADD, sew, a, b)
         /\ vsub_result(a, b, sew) = ValuRef(OP_VSUB, sew, a, b)
  <1> DEFINE w == 2^sew
             n == LaneMod(sew)
             sum == [i \in Elems(w) |-> Elem(a, w, i) + Elem(b, w, i)]
             dif == [i \in Elems(w) |-> Elem(a, w, i) - Elem(b, w, i)]
             add == [i \in Lanes(sew) |-> (Lane(a, sew, i) + Lane(b, sew, i)) % n]
             sub == [i \in Lanes(sew) |-> (Lane(a, sew, i) - Lane(b, sew, i)) % n]
  <1>1. Elems(w) = Lanes(sew) /\ n \in Nat \ {0}
    BY Widths
  <1>2. \A i \in Lanes(sew) :
          /\ Elem(a, w, i) = Signed(Lane(a, sew, i), n) /\ Elem(b, w, i) = Signed(Lane(b, sew, i), n)
          /\ Elem(a, w, i) \in Int /\ Elem(b, w, i) \in Int
          /\ Lane(a, sew, i) \in Int /\ Lane(b, sew, i) \in Int
    BY ElemIsLane
  <1> HIDE DEF n
  <1>3. \A i \in Lanes(sew) : /\ (Elem(a, w, i) + Elem(b, w, i)) % n
                                   = (Lane(a, sew, i) + Lane(b, sew, i)) % n
                              /\ (Elem(a, w, i) - Elem(b, w, i)) % n
                                   = (Lane(a, sew, i) - Lane(b, sew, i)) % n
    <2> SUFFICES ASSUME NEW i \in Lanes(sew)
                 PROVE  /\ (Elem(a, w, i) + Elem(b, w, i)) % n = (Lane(a, sew, i) + Lane(b, sew, i)) % n
                        /\ (Elem(a, w, i) - Elem(b, w, i)) % n = (Lane(a, sew, i) - Lane(b, sew, i)) % n
      OBVIOUS
    <2>1. Lane(a, sew, i) \in Int /\ Lane(b, sew, i) \in Int
      BY <1>2
    <2>2. /\ (Signed(Lane(a, sew, i), n) + Signed(Lane(b, sew, i), n)) % n
               = (Lane(a, sew, i) + Lane(b, sew, i)) % n
          /\ (Signed(Lane(a, sew, i), n) - Signed(Lane(b, sew, i), n)) % n
               = (Lane(a, sew, i) - Lane(b, sew, i)) % n
      BY <1>1, <2>1, PatternsAdd
    <2> QED
      BY <1>2, <2>2, Zenon
  <1>4. \A i \in Lanes(sew) : /\ sum[i] \in Int /\ add[i] = sum[i] % n
                              /\ dif[i] \in Int /\ sub[i] = dif[i] % n
    <2>1. \A i \in Lanes(sew) : /\ sum[i] = Elem(a, w, i) + Elem(b, w, i)
                                /\ dif[i] = Elem(a, w, i) - Elem(b, w, i)
      BY <1>1
    <2>2. \A i \in Lanes(sew) : /\ Elem(a, w, i) + Elem(b, w, i) \in Int
                                /\ Elem(a, w, i) - Elem(b, w, i) \in Int
      BY <1>2
    <2>3. \A i \in Lanes(sew) : /\ add[i] = (Lane(a, sew, i) + Lane(b, sew, i)) % n
                                /\ sub[i] = (Lane(a, sew, i) - Lane(b, sew, i)) % n
      OBVIOUS
    <2> HIDE DEF sum, dif, add, sub, w
    <2> QED
      BY <1>3, <2>1, <2>2, <2>3, Zenon
  <1> HIDE DEF sum, dif, add, sub
  <1>5. OfElems(sum, 2^sew) = Pack(add, sew) /\ OfElems(dif, 2^sew) = Pack(sub, sew)
    BY <1>4, PackIsOfElems DEF n
  <1>6. vadd_result(a, b, sew) = Pack(add, sew) /\ vsub_result(a, b, sew) = Pack(sub, sew)
    BY DEF vadd_result, vsub_result, add, sub, n
  <1>7. ValuRef(OP_VADD, sew, a, b) = OfElems(sum, w) /\ ValuRef(OP_VSUB, sew, a, b) = OfElems(dif, w)
    BY DEF ValuRef, OP_VADD, OP_VSUB, OP_VMUL, OP_VMAC, sum, dif
  <1> QED
    BY <1>5, <1>6, <1>7

\* Every product register the operation reads is of this operation.
Fresh(prod, op, sew, a, b) == \A i \in Lanes(sew) : prod[i] = product(op, sew, a, b, i)

\* The packed products give the reference result.
LEMMA ProductsAreRef ==
  ASSUME NEW a \in VWord, NEW b \in VWord, NEW sew \in 0 .. 2, NEW op \in {OP_VMUL, OP_VMAC},
         NEW prod, Fresh(prod, op, sew, a, b)
  PROVE  packed_products(prod, op, sew) = ValuRef(op, sew, a, b)
  <1> DEFINE w == 2^sew
             n == LaneMod(sew)
             mul == [i \in Elems(w) |-> Elem(a, w, i) * Elem(b, w, i)]
  <1>1. Elems(w) = Lanes(sew) /\ n \in Nat \ {0} /\ 8 \div w = 2 * LanesPerWord(sew)
    BY Widths
  <1>2. \A i \in Lanes(sew) :
          /\ Elem(a, w, i) = Signed(Lane(a, sew, i), n) /\ Elem(b, w, i) = Signed(Lane(b, sew, i), n)
          /\ Elem(a, w, i) \in Int /\ Elem(b, w, i) \in Int
    BY ElemIsLane
  <1>3. CASE op = OP_VMUL
    <2>1. \A i \in Lanes(sew) : prod[i] = (Elem(a, w, i) * Elem(b, w, i)) % n
      BY <1>2, <1>3 DEF Fresh, product
    <2> HIDE DEF n, w
    <2>2. \A i \in Lanes(sew) : mul[i] \in Int /\ prod[i] = mul[i] % n
      <3>1. \A i \in Lanes(sew) : mul[i] = Elem(a, w, i) * Elem(b, w, i)
        BY <1>1
      <3>2. \A i \in Lanes(sew) : Elem(a, w, i) * Elem(b, w, i) \in Int
        BY <1>2
      <3> QED
        BY <2>1, <3>1, <3>2
    <2> HIDE DEF mul
    <2>3. OfElems(mul, 2^sew) = Pack(prod, sew)
      BY <2>2, PackIsOfElems DEF n
    <2>4. ValuRef(op, sew, a, b) = OfElems(mul, 2^sew)
      BY <1>3 DEF ValuRef, OP_VADD, OP_VSUB, OP_VMUL, OP_VMAC, mul, w
    <2> QED
      BY <1>3, <2>3, <2>4 DEF packed_products
  <1>4. CASE op = OP_VMAC
    <2>1. \A i \in Lanes(sew) : prod[i] = Elem(a, w, i) * Elem(b, w, i)
      BY <1>2, <1>4 DEF Fresh, product, OP_VMUL, OP_VMAC
    <2> HIDE DEF n, w
    <2>2. [i \in Lanes(sew) |-> prod[i] % WordMod]
            = [i \in Elems(w) |-> (Elem(a, w, i) * Elem(b, w, i)) % WordMod]
      BY <1>1, <2>1
    <2>3. packed_products(prod, op, sew) = << Dot(a, b, w), 0 >>
      BY <1>1, <1>4, <2>2 DEF packed_products, Dot, OP_VMUL, OP_VMAC
    <2> QED
      BY <1>4, <2>3 DEF ValuRef, OP_VADD, OP_VSUB, OP_VMUL, OP_VMAC, w
  <1> QED
    BY <1>3, <1>4
=============================================================================
