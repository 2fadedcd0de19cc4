------------------------------ MODULE MlpProofs ------------------------------
(***************************************************************************)
(* Proofs about the forward pass, for every network, every image and every *)
(* word size: the five kernels compute the same function of the weights.   *)
(***************************************************************************)
EXTENDS Mlp, WordProofs, TLAPS

-----------------------------------------------------------------------------
(* Bytes and elements *)

\* The pattern of an element put into a vector register.
LEMMA PatternOfElems ==
  ASSUME NEW w \in {1, 2, 4}, NEW e, \A n \in Elems(w) : e[n] \in Int
  PROVE  \A n \in Elems(w) : Pattern(OfElems(e, w), w, n) = e[n] % ByteMod^w
  <1> DEFINE byte(p) == ByteOf(e[p \div w] % ByteMod^w, p % w)
             lower == [p \in 0 .. 3 |-> byte(p)]
             upper == [p \in 0 .. 3 |-> byte(p + 4)]
             r == OfElems(e, w)
  <1>1. r = << OfBytes(lower), OfBytes(upper) >>
    BY DEF OfElems
  <1>2. /\ ByteMod^w \in Nat \ {0} /\ ByteMod^w <= WordMod
        /\ w = 1 => ByteMod^w = ByteMod
        /\ w = 2 => ByteMod^w = HalfMod
        /\ w = 4 => ByteMod^w = WordMod
    <2>1. ByteMod <= HalfMod /\ HalfMod <= WordMod
      <3>1. \A m \in Nat \ {0} : m <= m * m
        OBVIOUS
      <3> QED
        BY <3>1, Moduli
    <2> QED
      BY <2>1, Powers, Moduli
  <1>3. \A p \in 0 .. 7 : /\ p \div w \in Elems(w) /\ p % w \in 0 .. 3
                          /\ e[p \div w] % ByteMod^w \in Word
    <2>1. \A p \in 0 .. 7 : p \div w \in Elems(w) /\ p % w \in 0 .. 3
      BY DEF Elems
    <2>2. \A n \in Elems(w) : e[n] % ByteMod^w \in 0 .. ByteMod^w - 1
      BY <1>2
    <2> QED
      BY <1>2, <2>1, <2>2, Moduli DEF Word
  <1>4. \A p \in 0 .. 7 : byte(p) \in Byte
    BY <1>3, ByteOfIsByte
  <1> HIDE DEF byte
  <1>5. \A k \in 0 .. 3 : /\ lower[k] = byte(k) /\ lower[k] \in Byte
                          /\ upper[k] = byte(k + 4) /\ upper[k] \in Byte
    BY <1>4
  <1> HIDE DEF lower, upper, r
  <1>6. \A k \in 0 .. 3 : ByteOf(r[1], k) = byte(k) /\ ByteOf(r[2], k) = byte(k + 4)
    BY <1>1, <1>5, BytesOfWord
  <1>7. \A p \in 0 .. 7 : VByte(r, p) = byte(p)
    <2> SUFFICES ASSUME NEW p \in 0 .. 7 PROVE VByte(r, p) = byte(p)
      OBVIOUS
    <2>1. CASE p <= 3
      <3>1. p \in 0 .. 3 /\ p \div 4 + 1 = 1 /\ p % 4 = p
        BY <2>1
      <3> QED
        BY <1>6, <3>1 DEF VByte
    <2>2. CASE p >= 4
      <3>1. p - 4 \in 0 .. 3 /\ p \div 4 + 1 = 2 /\ p % 4 = p - 4 /\ (p - 4) + 4 = p
        BY <2>2
      <3> QED
        BY <1>6, <3>1 DEF VByte
    <2> QED
      BY <2>1, <2>2
  <1>8. CASE w = 1
    <2>1. Elems(w) = 0 .. 7
      BY <1>8 DEF Elems
    <2>2. \A n \in 0 .. 7 : Pattern(r, w, n) = byte(n)
      BY <1>7, <1>8 DEF Pattern
    <2>3. \A n \in 0 .. 7 : byte(n) = ByteOf(e[n] % ByteMod, 0)
      <3>1. \A n \in 0 .. 7 : n \div 1 = n /\ n % 1 = 0
        OBVIOUS
      <3> QED
        BY <1>2, <1>8, <3>1 DEF byte
    <2>4. \A x \in Int : ByteOf(x % ByteMod, 0) = x % ByteMod
      <3> SUFFICES ASSUME NEW x \in Int PROVE ByteOf(x % ByteMod, 0) = x % ByteMod
        OBVIOUS
      <3> DEFINE y == x % ByteMod
      <3>1. y \in 0 .. ByteMod - 1
        BY Moduli
      <3> HIDE DEF y
      <3>2. y \div 1 = y /\ 0 * ByteMod + y = y
        BY <3>1, Moduli
      <3>3. y % ByteMod = y
        BY <3>1, <3>2, Moduli, ModUnique
      <3> QED
        BY <3>2, <3>3, Powers DEF ByteOf, y
    <2> QED
      BY <1>2, <1>8, <2>1, <2>2, <2>3, <2>4 DEF r
  <1>9. CASE w = 2
    <2>1. Elems(w) = 0 .. 3
      BY <1>9 DEF Elems
    <2> SUFFICES ASSUME NEW n \in 0 .. 3 PROVE Pattern(r, w, n) = e[n] % HalfMod
      BY <1>2, <1>9, <2>1 DEF r
    <2> DEFINE x == e[n] % HalfMod
    <2>2. 2 * n \in 0 .. 7 /\ 2 * n + 1 \in 0 .. 7
      OBVIOUS
    <2>3. Pattern(r, w, n) = byte(2 * n) + ByteMod * byte(2 * n + 1)
      BY <1>7, <1>9, <2>2 DEF Pattern
    <2>4. byte(2 * n) = ByteOf(x, 0) /\ byte(2 * n + 1) = ByteOf(x, 1)
      <3>1. (2 * n) \div 2 = n /\ (2 * n) % 2 = 0 /\ (2 * n + 1) \div 2 = n /\ (2 * n + 1) % 2 = 1
        OBVIOUS
      <3> QED
        BY <1>2, <1>9, <3>1 DEF byte
    <2>5. x \in 0 .. HalfMod - 1 /\ x \in Word
      <3>1. n \in Elems(w) /\ e[n] \in Int
        BY <2>1
      <3>2. x \in 0 .. HalfMod - 1
        BY <3>1, Moduli
      <3> QED
        BY <1>2, <1>9, <3>2, Moduli DEF Word
    <2> HIDE DEF x
    <2>6. ByteOf(x, 0) + ByteMod * ByteOf(x, 1) = x % HalfMod
      BY <2>5, HalvesOfBytes
    <2>7. x % HalfMod = x
      <3>1. 0 * HalfMod + x = x
        BY <2>5, Moduli
      <3> QED
        BY <2>5, <3>1, Moduli, ModUnique
    <2> QED
      BY <2>3, <2>4, <2>6, <2>7 DEF x
  <1>10. CASE w = 4
    <2>1. Elems(w) = 0 .. 1
      BY <1>10 DEF Elems
    <2> SUFFICES ASSUME NEW n \in 0 .. 1 PROVE Pattern(r, w, n) = e[n] % WordMod
      BY <1>2, <1>10, <2>1 DEF r
    <2> DEFINE x == e[n] % WordMod
               b == [k \in 0 .. 3 |-> VByte(r, 4 * n + k)]
    <2>2. Pattern(r, w, n) = OfBytes(b)
      BY <1>10 DEF Pattern
    <2>3. x \in Word
      <3>1. n \in Elems(w) /\ e[n] \in Int
        BY <2>1
      <3> QED
        BY <3>1, Moduli DEF Word
    <2>4. \A k \in 0 .. 3 : b[k] = ByteOf(x, k)
      <3>1. \A k \in 0 .. 3 : 4 * n + k \in 0 .. 7 /\ (4 * n + k) \div 4 = n /\ (4 * n + k) % 4 = k
        OBVIOUS
      <3>2. \A k \in 0 .. 3 : byte(4 * n + k) = ByteOf(x, k)
        BY <1>2, <1>10, <3>1 DEF byte
      <3> QED
        BY <1>7, <3>1, <3>2
    <2> HIDE DEF x, b
    <2>5. OfBytes(b) = x
      BY <2>3, <2>4, WordOfBytes
    <2> QED
      BY <2>2, <2>5 DEF x
  <1> QED
    BY <1>8, <1>9, <1>10

\* The sum of lanes that are each reduced is the sum of the lanes.
LEMMA LanesReduced ==
  ASSUME NEW n \in Nat \ {0}, NEW size \in {2, 4, 8}, NEW p,
         \A m \in 0 .. size - 1 : p[m] \in Int
  PROVE  /\ LaneSum(p, size) \in Int
         /\ LaneSum([m \in 0 .. size - 1 |-> p[m] % n], size) % n = LaneSum(p, size) % n
  <1> DEFINE q == [m \in 0 .. size - 1 |-> p[m] % n]
             c == [m \in 0 .. size - 1 |-> p[m] \div n]
             C == LaneSum(c, size)
  <1>1. \A m \in 0 .. size - 1 : q[m] \in Int /\ c[m] \in Int /\ p[m] \in Int /\ p[m] = c[m] * n + q[m]
    <2>1. \A x \in Int : x % n \in Int /\ x \div n \in Int /\ x = (x \div n) * n + (x % n)
      <3> SUFFICES ASSUME NEW x \in Int
                   PROVE  x % n \in Int /\ x \div n \in Int /\ x = (x \div n) * n + (x % n)
        OBVIOUS
      <3> QED
        BY DivMod
    <2> QED
      BY <2>1
  <1> HIDE DEF q, c
  <1>2. C \in Int /\ LaneSum(p, size) \in Int /\ LaneSum(q, size) \in Int /\ LaneSum(p, size) = C * n + LaneSum(q, size)
    <2>1. CASE size = 2
      <3>1. \A m \in {0, 1} : q[m] \in Int /\ c[m] \in Int /\ p[m] \in Int /\ p[m] = c[m] * n + q[m]
        BY <1>1, <2>1
      <3>2. \A f : LaneSum(f, size) = f[0] + f[1]
        BY <2>1 DEF LaneSum
      <3> QED
        BY <3>1, <3>2
    <2>2. CASE size = 4
      <3>1. \A m \in {0, 1, 2, 3} : q[m] \in Int /\ c[m] \in Int /\ p[m] \in Int /\ p[m] = c[m] * n + q[m]
        BY <1>1, <2>2
      <3>2. \A f : LaneSum(f, size) = f[0] + f[1] + (f[2] + f[3])
        BY <2>2 DEF LaneSum
      <3> QED
        BY <3>1, <3>2
    <2>3. CASE size = 8
      <3>1. \A m \in {0, 1, 2, 3, 4, 5, 6, 7} :
              q[m] \in Int /\ c[m] \in Int /\ p[m] \in Int /\ p[m] = c[m] * n + q[m]
        BY <1>1, <2>3
      <3>2. \A f : LaneSum(f, size) = (f[0] + f[1] + (f[2] + f[3])) + (f[4] + f[5] + (f[6] + f[7]))
        BY <2>3 DEF LaneSum
      <3> DEFINE low(f) == f[0] + f[1] + (f[2] + f[3])
                 high(f) == f[4] + f[5] + (f[6] + f[7])
      <3>3. low(p) \in Int /\ low(q) \in Int /\ low(c) \in Int /\ low(p) = low(c) * n + low(q)
        <4>1. \A m \in {0, 1, 2, 3} : q[m] \in Int /\ c[m] \in Int /\ p[m] \in Int /\ p[m] = c[m] * n + q[m]
          BY <3>1
        <4> QED
          BY <4>1
      <3>4. high(p) \in Int /\ high(q) \in Int /\ high(c) \in Int /\ high(p) = high(c) * n + high(q)
        <4>1. \A m \in {4, 5, 6, 7} : q[m] \in Int /\ c[m] \in Int /\ p[m] \in Int /\ p[m] = c[m] * n + q[m]
          BY <3>1
        <4> QED
          BY <4>1
      <3>5. \A f : LaneSum(f, size) = low(f) + high(f)
        BY <3>2
      <3> HIDE DEF low, high
      <3> QED
        BY <3>3, <3>4, <3>5
    <2> QED
      BY <2>1, <2>2, <2>3
  <1> HIDE DEF C
  <1>3. (C * n + LaneSum(q, size)) % n = LaneSum(q, size) % n
    BY <1>2, ModShift
  <1> QED
    BY <1>2, <1>3 DEF q

\* The integers an element of w bytes holds.
IsElem(x, w) == x \in Int /\ -ByteMod^w <= 2 * x /\ 2 * x < ByteMod^w

\* The moduli of the three widths.
LEMMA ElemSizes ==
  /\ \A w \in {1, 2, 4} : ByteMod^w \in Nat \ {0, 1}
  /\ ByteMod^1 = ByteMod /\ ByteMod^2 = HalfMod /\ ByteMod^4 = WordMod
  /\ ByteMod <= HalfMod /\ HalfMod <= WordMod
  <1>1. \A m \in Nat \ {0, 1} : m * m \in Nat \ {0, 1} /\ m <= m * m
    <2> SUFFICES ASSUME NEW m \in Nat \ {0, 1} PROVE m * m \in Nat \ {0, 1} /\ m <= m * m
      OBVIOUS
    <2>1. m * m = m * (m - 1) + m /\ m * (m - 1) >= 0
      OBVIOUS
    <2> QED
      BY <2>1
  <1>2. HalfMod \in Nat \ {0, 1} /\ ByteMod <= HalfMod
    BY <1>1, Moduli
  <1>3. WordMod \in Nat \ {0, 1} /\ HalfMod <= WordMod
    BY <1>1, <1>2, Moduli
  <1> QED
    BY <1>2, <1>3, Moduli, Powers

\* What the vector instruction adds is the sum of the products, reduced.
LEMMA DotSums ==
  ASSUME NEW w \in {1, 2, 4}, NEW a, NEW b, NEW k \in Nat,
         \A m \in Elems(w) : IsElem(a[k + m], w) /\ IsElem(b[k + m], w)
  PROVE  LET p == [m \in Elems(w) |-> a[k + m] * b[k + m]]
         IN  /\ LaneSum(p, 8 \div w) \in Int
             /\ Dot(vld(a, k, w), vld(b, k, w), w) = LaneSum(p, 8 \div w) % WordMod
  <1> DEFINE p == [m \in Elems(w) |-> a[k + m] * b[k + m]]
             ea == [m \in Elems(w) |-> a[k + m]]
             eb == [m \in Elems(w) |-> b[k + m]]
             r == OfElems(ea, w)
             s == OfElems(eb, w)
             size == 8 \div w
  <1>1. size \in {2, 4, 8} /\ Elems(w) = 0 .. size - 1
    BY DEF Elems
  <1>2. \A m \in Elems(w) : /\ a[k + m] \in Int /\ b[k + m] \in Int
                            /\ -ByteMod^w <= 2 * a[k + m] /\ 2 * a[k + m] < ByteMod^w
                            /\ -ByteMod^w <= 2 * b[k + m] /\ 2 * b[k + m] < ByteMod^w
    BY DEF IsElem
  <1>3. \A m \in Elems(w) : Pattern(r, w, m) = a[k + m] % ByteMod^w
    <2>1. \A m \in Elems(w) : ea[m] \in Int /\ ea[m] = a[k + m]
      BY <1>2
    <2> HIDE DEF ea
    <2> QED
      BY <2>1, PatternOfElems
  <1>4. \A m \in Elems(w) : Pattern(s, w, m) = b[k + m] % ByteMod^w
    <2>1. \A m \in Elems(w) : eb[m] \in Int /\ eb[m] = b[k + m]
      BY <1>2
    <2> HIDE DEF eb
    <2> QED
      BY <2>1, PatternOfElems
  <1>5. r = vld(a, k, w) /\ s = vld(b, k, w)
    BY DEF vld
  <1> HIDE DEF r, s, size
  <1>6. \A m \in Elems(w) : Elem(r, w, m) = a[k + m] /\ Elem(s, w, m) = b[k + m]
    <2>1. ByteMod^w \in Nat \ {0}
      BY ElemSizes
    <2> DEFINE M == ByteMod^w
    <2> HIDE DEF M
    <2>2. \A x \in Int : -M <= 2 * x /\ 2 * x < M => Signed(x % M, M) = x
      BY <2>1, SignedOfPattern DEF M
    <2> QED
      BY <1>2, <1>3, <1>4, <2>2 DEF Elem, M
  <1>7. \A m \in 0 .. size - 1 : p[m] \in Int /\ p[m] = a[k + m] * b[k + m]
    <2>1. \A m \in Elems(w) : p[m] = a[k + m] * b[k + m]
      OBVIOUS
    <2>2. \A x \in Int, y \in Int : x * y \in Int
      OBVIOUS
    <2> HIDE DEF p
    <2>3. \A m \in Elems(w) : p[m] \in Int /\ p[m] = a[k + m] * b[k + m]
      BY <1>2, <2>1, <2>2
    <2> QED
      BY <1>1, <2>3
  <1> HIDE DEF p
  <1>8. [m \in Elems(w) |-> (Elem(r, w, m) * Elem(s, w, m)) % WordMod] = [m \in 0 .. size - 1 |-> p[m] % WordMod]
    BY <1>1, <1>6, <1>7
  <1>9. /\ LaneSum(p, size) \in Int
        /\ LaneSum([m \in 0 .. size - 1 |-> p[m] % WordMod], size) % WordMod = LaneSum(p, size) % WordMod
    <2>1. WordMod \in Nat \ {0}
      BY Moduli
    <2> QED
      BY <1>1, <1>7, <2>1, LanesReduced, Zenon
  <1>10. Dot(r, s, w) = LaneSum([m \in 0 .. size - 1 |-> p[m] % WordMod], size) % WordMod
    BY <1>8 DEF Dot, size
  <1>11. Dot(r, s, w) = LaneSum(p, size) % WordMod
    BY <1>9, <1>10
  <1> QED
    BY <1>5, <1>9, <1>11 DEF size, p

\* The lanes of one turn take a running sum of products that much further.
LEMMA LanesRun ==
  ASSUME NEW size \in {2, 4, 8}, NEW k \in Nat, NEW s, NEW p,
         \A m \in 0 .. size - 1 : p[m] \in Int /\ s[k + m] \in Int /\ s[(k + m) + 1] = s[k + m] + p[m]
  PROVE  s[k + size] \in Int /\ s[k + size] = s[k] + LaneSum(p, size)
  <1> DEFINE t(m) == s[k + m]
  <1>1. \A m \in 0 .. size - 1 : p[m] \in Int /\ t(m) \in Int /\ t(m + 1) = t(m) + p[m]
    <2>1. \A m \in 0 .. size - 1 : k + (m + 1) = (k + m) + 1
      OBVIOUS
    <2> QED
      BY <2>1
  <1>2. t(0) = s[k] /\ t(size) = s[k + size]
    OBVIOUS
  <1> HIDE DEF t
  <1>3. t(size) \in Int /\ t(size) = t(0) + LaneSum(p, size)
    <2>1. CASE size = 2
      <3>1. p[0] \in Int /\ p[1] \in Int /\ t(0) \in Int /\ t(1) = t(0) + p[0] /\ t(2) = t(1) + p[1]
        BY <1>1, <2>1
      <3> QED
        BY <2>1, <3>1 DEF LaneSum
    <2>2. CASE size = 4
      <3>1. /\ p[0] \in Int /\ p[1] \in Int /\ p[2] \in Int /\ p[3] \in Int /\ t(0) \in Int
            /\ t(1) = t(0) + p[0] /\ t(2) = t(1) + p[1] /\ t(3) = t(2) + p[2] /\ t(4) = t(3) + p[3]
        BY <1>1, <2>2
      <3> QED
        BY <2>2, <3>1 DEF LaneSum
    <2>3. CASE size = 8
      <3>1. /\ p[0] \in Int /\ p[1] \in Int /\ p[2] \in Int /\ p[3] \in Int /\ t(0) \in Int
            /\ p[4] \in Int /\ p[5] \in Int /\ p[6] \in Int /\ p[7] \in Int
            /\ t(1) = t(0) + p[0] /\ t(2) = t(1) + p[1] /\ t(3) = t(2) + p[2] /\ t(4) = t(3) + p[3]
            /\ t(5) = t(4) + p[4] /\ t(6) = t(5) + p[5] /\ t(7) = t(6) + p[6] /\ t(8) = t(7) + p[7]
        BY <1>1, <2>3
      <3>2. LaneSum(p, size) = (p[0] + p[1] + (p[2] + p[3])) + (p[4] + p[5] + (p[6] + p[7]))
        BY <2>3 DEF LaneSum
      <3>3. t(4) \in Int /\ t(4) = t(0) + (p[0] + p[1] + (p[2] + p[3]))
        BY <3>1
      <3>4. t(8) \in Int /\ t(8) = t(4) + (p[4] + p[5] + (p[6] + p[7]))
        BY <3>1, <3>3
      <3> QED
        BY <2>3, <3>1, <3>2, <3>3, <3>4
    <2> QED
      BY <2>1, <2>2, <2>3
  <1> QED
    BY <1>2, <1>3

\* The packed instruction adds four products too.
LEMMA PackedSums ==
  ASSUME NEW a, NEW b, NEW k \in Nat,
         \A m \in 0 .. 3 : IsElem(a[k + m], 1) /\ IsElem(b[k + m], 1)
  PROVE  LET p == [m \in 0 .. 3 |-> a[k + m] * b[k + m]]
         IN  /\ LaneSum(p, 4) \in Int
             /\ PackedRef(2, pack4(a, k), pack4(b, k)) = LaneSum(p, 4) % WordMod
  <1> DEFINE p == [m \in 0 .. 3 |-> a[k + m] * b[k + m]]
             v == pack4(a, k)
             w == pack4(b, k)
  <1>1. \A x : IsElem(x, 1) => x \in Int /\ x % ByteMod \in Byte /\ Signed(x % ByteMod, ByteMod) = x
    <2> SUFFICES ASSUME NEW x, IsElem(x, 1)
                 PROVE  x \in Int /\ x % ByteMod \in Byte /\ Signed(x % ByteMod, ByteMod) = x
      OBVIOUS
    <2>1. ByteMod \in Nat \ {0} /\ x \in Int /\ -ByteMod <= 2 * x /\ 2 * x < ByteMod
      BY ElemSizes, Moduli DEF IsElem
    <2>2. x % ByteMod \in Byte
      BY <2>1 DEF Byte
    <2> QED
      BY <2>1, <2>2, SignedOfPattern
  <1>2. \A m \in 0 .. 3 : SByte(v, m) = a[k + m]
    <2> DEFINE f == [n \in 0 .. 3 |-> a[k + n] % ByteMod]
    <2>1. \A n \in 0 .. 3 : f[n] \in Byte /\ f[n] = a[k + n] % ByteMod
      BY <1>1
    <2>2. v = OfBytes(f)
      BY DEF pack4
    <2> HIDE DEF f, v
    <2>3. \A n \in 0 .. 3 : ByteOf(v, n) = f[n]
      BY <2>1, <2>2, BytesOfWord
    <2> QED
      BY <1>1, <2>1, <2>3 DEF SByte
  <1>3. \A m \in 0 .. 3 : SByte(w, m) = b[k + m]
    <2> DEFINE f == [n \in 0 .. 3 |-> b[k + n] % ByteMod]
    <2>1. \A n \in 0 .. 3 : f[n] \in Byte /\ f[n] = b[k + n] % ByteMod
      BY <1>1
    <2>2. w = OfBytes(f)
      BY DEF pack4
    <2> HIDE DEF f, w
    <2>3. \A n \in 0 .. 3 : ByteOf(w, n) = f[n]
      BY <2>1, <2>2, BytesOfWord
    <2> QED
      BY <1>1, <2>1, <2>3 DEF SByte
  <1> HIDE DEF v, w
  <1>4. \A m \in 0 .. 3 : p[m] \in Int /\ SByte(v, m) * SByte(w, m) = p[m]
    <2>1. \A m \in 0 .. 3 : a[k + m] \in Int /\ b[k + m] \in Int
      BY <1>1
    <2>2. \A x \in Int, y \in Int : x * y \in Int
      OBVIOUS
    <2>3. \A m \in 0 .. 3 : p[m] = a[k + m] * b[k + m]
      OBVIOUS
    <2> HIDE DEF p
    <2> QED
      BY <1>2, <1>3, <2>1, <2>2, <2>3
  <1> HIDE DEF p
  <1>5. PackedRef(2, v, w) = (p[0] + p[1] + p[2] + p[3]) % WordMod
    BY <1>4 DEF PackedRef
  <1>6. LaneSum(p, 4) = p[0] + p[1] + p[2] + p[3] /\ LaneSum(p, 4) \in Int
    <2>1. LaneSum(p, 4) = p[0] + p[1] + (p[2] + p[3])
      BY DEF LaneSum
    <2> QED
      BY <1>4, <2>1
  <1> QED
    BY <1>5, <1>6 DEF v, w, p

\* A sum of int32_t may wrap at every step: only the last wrap counts.
LEMMA Int32Adds ==
  ASSUME NEW x \in Int, NEW y \in Int, NEW z \in Int, (x + y) % WordMod = z % WordMod
  PROVE  Int32(Int32(x) + y) = Int32(z)
  <1> DEFINE W == WordMod
             r == x % W
             e == Int32(x)
  <1>1. W \in Nat \ {0}
    BY Moduli
  <1>2. PICK q \in Int : q * W + r = x /\ r \in Int
    <2>1. PICK q \in Int, c \in 0 .. W - 1 : q * W + c = x /\ x % W = c
      BY <1>1, DivMod
    <2>2. c \in Int /\ r = c
      BY <1>1, <2>1
    <2> HIDE DEF r
    <2> QED
      BY <2>1, <2>2
  <1>3. e = r \/ e = r - W
    BY DEF Int32, Signed
  <1> HIDE DEF W, r, e
  <1>4. PICK c \in Int : e + y = c * W + (x + y)
    <2>1. CASE e = r
      <3>1. -q \in Int /\ e + y = (-q) * W + (x + y)
        BY <1>1, <1>2, <2>1
      <3> QED
        BY <3>1
    <2>2. CASE e = r - W
      <3>1. -q - 1 \in Int /\ e + y = (-q - 1) * W + (x + y)
        BY <1>1, <1>2, <2>2
      <3> QED
        BY <3>1
    <2> QED
      BY <1>3, <2>1, <2>2
  <1>5. (c * W + (x + y)) % W = (x + y) % W
    <2>1. x + y \in Int
      OBVIOUS
    <2> QED
      BY <1>1, <2>1, ModShift
  <1>6. (e + y) % W = z % W
    BY <1>4, <1>5 DEF W
  <1> QED
    BY <1>6 DEF Int32, W, e

\* In range, int32_t is exact; and it is always in range.
LEMMA Int32Exact ==
  ASSUME NEW x \in Int
  PROVE  /\ InRange(x) <=> -WordMod <= 2 * x /\ 2 * x < WordMod
         /\ InRange(x) => Int32(x) = x
         /\ InRange(Int32(x)) /\ Int32(x) \in Int
  <1>1. PICK h \in Nat : WordMod = 2 * h
    <2>1. PICK g \in Nat : WordMod = 2 * (g * ByteMod * HalfMod)
      BY WordModIsPower
    <2>2. g * ByteMod * HalfMod \in Nat
      BY Moduli
    <2> QED
      BY <2>1, <2>2
  <1>2. WordMod \in Nat \ {0} /\ WordMod \div 2 = h
    BY <1>1, Moduli
  <1>3. \A y \in Int : InRange(y) <=> -WordMod <= 2 * y /\ 2 * y < WordMod
    BY <1>1, <1>2 DEF InRange
  <1>4. InRange(x) => Int32(x) = x
    BY <1>2, <1>3, SignedOfPattern DEF Int32
  <1>5. Int32(x) \in Int /\ -WordMod <= 2 * Int32(x) /\ 2 * Int32(x) < WordMod
    <2>1. x % WordMod \in 0 .. WordMod - 1
      BY <1>2
    <2> DEFINE r == x % WordMod
    <2> HIDE DEF r
    <2>2. r \in 0 .. WordMod - 1
      BY <2>1 DEF r
    <2>3. Int32(x) = IF 2 * r < WordMod THEN r ELSE r - WordMod
      BY DEF Int32, Signed, r
    <2> QED
      BY <1>2, <2>2, <2>3
  <1> QED
    BY <1>3, <1>4, <1>5

-----------------------------------------------------------------------------
(* The inductive invariant *)

\* The running sums of a neuron, in exact integers.
Run(a, W, size, n) == Sums([k \in 0 .. size - 1 |-> a[k] * W[k][n]], size)

Types ==
  /\ kernel \in Kernels /\ input \in Inputs /\ layer \in {1, 2, 3}
  /\ hidden \in [0 .. HIDDEN_SIZE - 1 -> 0 .. largest]
  /\ output \in [0 .. OUTPUT_SIZE - 1 -> 0 .. largest]

\* Inside a neuron: whole turns are left, and acc is the sum so far, wrapped.
Partial(size, count, s) ==
  /\ j \in 0 .. count - 1 /\ i \in 0 .. size /\ pred = 0
  /\ \E turns \in 0 .. size : i + turns * lanes[kernel] = size
  /\ acc = Int32(s[i])

Summed ==
  /\ layer = 1 => Partial(INPUT_SIZE, HIDDEN_SIZE, Run(input, W1, INPUT_SIZE, j))
  /\ layer = 2 => Partial(HIDDEN_SIZE, OUTPUT_SIZE, Run(hidden, W2, HIDDEN_SIZE, j))

\* Every neuron behind is the exact sum, wrapped once and clipped.
Finished ==
  /\ \A n \in 0 .. HIDDEN_SIZE - 1 :
       layer > 1 \/ n < j => hidden[n] = relu(Int32(Neuron(input, W1, INPUT_SIZE, n)))
  /\ \A n \in 0 .. OUTPUT_SIZE - 1 :
       layer = 3 \/ (layer = 2 /\ n < j)
       => output[n] = relu(Int32(Neuron(hidden, W2, HIDDEN_SIZE, n)))

\* The search holds the first maximum of what it has seen.
Searched ==
  layer = 3 =>
    /\ j \in 0 .. OUTPUT_SIZE - 1 /\ pred \in 0 .. j
    /\ \A n \in 0 .. j : output[n] <= output[pred] /\ (n < pred => output[n] < output[pred])

MlpInv == Types /\ Summed /\ Finished /\ Searched

-----------------------------------------------------------------------------
(* A turn of the innermost loop *)

\* The lanes and the width of each kernel.
LEMMA KernelLanes ==
  ASSUME kernel \in Kernels
  PROVE  /\ lanes[kernel] \in {1, 2, 4, 8} /\ width[kernel] \in {1, 2, 4}
         /\ kernel = "scalar" => lanes[kernel] = 1 /\ width[kernel] = 1
         /\ kernel = "pvmac" => lanes[kernel] = 4 /\ width[kernel] = 1
         /\ kernel \notin {"scalar", "pvmac"} => lanes[kernel] = 8 \div width[kernel] /\ lanes[kernel] \in {2, 4, 8}
         /\ kernel # "vmac_w" => width[kernel] \in {1, 2}
  BY DEF Kernels, lanes, width

\* What a turn adds is its products, whichever instruction computes them.
LEMMA MacAdds ==
  ASSUME kernel \in Kernels, NEW a, NEW b, NEW k \in Nat, NEW s,
         \A m \in k .. k + lanes[kernel] - 1 :
           /\ IsElem(a[m], width[kernel]) /\ IsElem(b[m], width[kernel])
           /\ s[m] \in Int /\ s[m + 1] = s[m] + a[m] * b[m]
  PROVE  /\ s[k] \in Int /\ mac(a, b, k) \in Int /\ s[k + lanes[kernel]] \in Int
         /\ (s[k] + mac(a, b, k)) % WordMod = s[k + lanes[kernel]] % WordMod
  <1> DEFINE size == lanes[kernel]
             w == width[kernel]
             p == [m \in 0 .. size - 1 |-> a[k + m] * b[k + m]]
  <1>1. size \in {1, 2, 4, 8} /\ w \in {1, 2, 4}
    BY KernelLanes
  <1> HIDE DEF size, w
  <1>2. \A m \in k .. k + size - 1 : /\ a[m] \in Int /\ b[m] \in Int /\ s[m] \in Int
                                     /\ s[m + 1] = s[m] + a[m] * b[m]
    BY DEF size, IsElem
  <1>3. s[k] \in Int
    BY <1>1, <1>2
  <1>4. \A m \in 0 .. size - 1 : IsElem(a[k + m], w) /\ IsElem(b[k + m], w)
    <2>1. \A m \in 0 .. size - 1 : k + m \in k .. k + size - 1
      BY <1>1
    <2> QED
      BY <2>1 DEF size, w
  <1>5. CASE kernel = "scalar"
    <2>1. size = 1 /\ mac(a, b, k) = a[k] * b[k]
      BY <1>5, KernelLanes DEF mac, size
    <2>2. a[k] \in Int /\ b[k] \in Int /\ s[k + 1] = s[k] + a[k] * b[k]
      BY <1>2, <2>1
    <2>3. a[k] * b[k] \in Int
      BY <2>2
    <2>4. s[k] + a[k] * b[k] \in Int
      BY <1>3, <2>3
    <2> QED
      BY <1>3, <2>1, <2>2, <2>3, <2>4 DEF size
  <1>6. CASE kernel # "scalar"
    <2> DEFINE L == LaneSum(p, size)
    <2>1. size \in {2, 4, 8}
      BY <1>6, KernelLanes DEF Kernels, size, lanes
    <2>2. s[k + size] \in Int /\ s[k + size] = s[k] + L
      <3>1. \A m \in 0 .. size - 1 : p[m] = a[k + m] * b[k + m] /\ k + m \in k .. k + size - 1
        BY <2>1
      <3> HIDE DEF p
      <3>2. \A x \in Int, y \in Int : x * y \in Int
        OBVIOUS
      <3>3. \A m \in 0 .. size - 1 : p[m] \in Int /\ s[k + m] \in Int /\ s[(k + m) + 1] = s[k + m] + p[m]
        BY <1>2, <3>1, <3>2
      <3> QED
        BY <2>1, <3>3, LanesRun
    <2>3. L \in Int /\ mac(a, b, k) = L % WordMod
      <3>1. CASE kernel = "pvmac"
        <4>1. size = 4 /\ w = 1
          BY <3>1, KernelLanes DEF size, w
        <4>2. mac(a, b, k) = PackedRef(2, pack4(a, k), pack4(b, k))
          BY <3>1 DEF mac
        <4>3. \A m \in 0 .. 3 : IsElem(a[k + m], 1) /\ IsElem(b[k + m], 1)
          BY <1>4, <4>1
        <4>4. p = [m \in 0 .. 3 |-> a[k + m] * b[k + m]]
          BY <4>1
        <4> HIDE DEF p
        <4>5. LaneSum(p, 4) \in Int /\ PackedRef(2, pack4(a, k), pack4(b, k)) = LaneSum(p, 4) % WordMod
          BY <4>3, <4>4, PackedSums
        <4> QED
          BY <4>1, <4>2, <4>5
      <3>2. CASE kernel # "pvmac"
        <4>1. size = 8 \div w /\ Elems(w) = 0 .. size - 1
          BY <1>6, <3>2, KernelLanes DEF size, w, Elems
        <4>2. mac(a, b, k) = Dot(vld(a, k, w), vld(b, k, w), w)
          BY <1>6, <3>2 DEF mac, w
        <4>3. p = [m \in Elems(w) |-> a[k + m] * b[k + m]]
          BY <4>1
        <4>4. \A m \in Elems(w) : IsElem(a[k + m], w) /\ IsElem(b[k + m], w)
          BY <1>4, <4>1
        <4> HIDE DEF p
        <4>5. LaneSum(p, 8 \div w) \in Int /\ Dot(vld(a, k, w), vld(b, k, w), w) = LaneSum(p, 8 \div w) % WordMod
          BY <1>1, <4>3, <4>4, DotSums
        <4> QED
          BY <4>1, <4>2, <4>5
      <3> QED
        BY <3>1, <3>2
    <2> HIDE DEF L, p
    <2>4. WordMod \in Nat \ {0} /\ L % WordMod \in Int
      BY <2>3, Moduli
    <2>5. ((L % WordMod) + s[k]) % WordMod = (L + s[k]) % WordMod
      BY <1>3, <2>3, <2>4, ModAdd
    <2>6. (L % WordMod) + s[k] = s[k] + (L % WordMod) /\ L + s[k] = s[k] + L
      BY <1>3, <2>3, <2>4
    <2> QED
      BY <1>3, <2>2, <2>3, <2>4, <2>5, <2>6 DEF size
  <1> QED
    BY <1>5, <1>6

\* The sums s run over the products of a and b.
RunsOver(s, a, b, size) ==
  \A m \in 0 .. size - 1 :
    /\ IsElem(a[m], width[kernel]) /\ IsElem(b[m], width[kernel])
    /\ s[m] \in Int /\ s[m + 1] = s[m] + a[m] * b[m]

\* A turn leaves a whole number of turns, and acc the wrapped sum.
LEMMA TurnAdds ==
  ASSUME kernel \in Kernels, NEW size \in Nat, NEW a, NEW b, NEW s, NEW k \in 0 .. size - 1,
         \E turns \in 0 .. size : k + turns * lanes[kernel] = size,
         RunsOver(s, a, b, size)
  PROVE  /\ k + lanes[kernel] \in 0 .. size
         /\ \E turns \in 0 .. size : (k + lanes[kernel]) + turns * lanes[kernel] = size
         /\ Int32(Int32(s[k]) + mac(a, b, k)) = Int32(s[k + lanes[kernel]])
  <1> DEFINE n == lanes[kernel]
  <1>1. n \in {1, 2, 4, 8}
    BY KernelLanes
  <1> HIDE DEF n
  <1>2. PICK turns \in 0 .. size : k + turns * n = size
    BY DEF n
  <1>3. turns - 1 \in 0 .. size /\ (k + n) + (turns - 1) * n = size /\ k + n \in 0 .. size
    BY <1>1, <1>2
  <1>4. \A m \in k .. k + n - 1 : m \in 0 .. size - 1
    BY <1>1, <1>3
  <1>5. /\ s[k] \in Int /\ mac(a, b, k) \in Int /\ s[k + n] \in Int
        /\ (s[k] + mac(a, b, k)) % WordMod = s[k + n] % WordMod
    BY <1>4, MacAdds DEF n, RunsOver
  <1>6. Int32(Int32(s[k]) + mac(a, b, k)) = Int32(s[k + n])
    BY <1>5, Int32Adds
  <1> QED
    BY <1>3, <1>6 DEF n

\* The running sums of a neuron.
LEMMA RunStep ==
  ASSUME NEW size \in Nat, NEW n, NEW a, NEW W,
         \A k \in 0 .. size - 1 : a[k] \in Int /\ W[k][n] \in Int
  PROVE  LET s == Run(a, W, size, n)
         IN  /\ s[0] = 0 /\ \A k \in 0 .. size : s[k] \in Int
             /\ \A k \in 0 .. size - 1 : s[k + 1] = s[k] + a[k] * W[k][n]
             /\ Neuron(a, W, size, n) = s[size]
  <1> DEFINE t == [k \in 0 .. size - 1 |-> a[k] * W[k][n]]
  <1>1. \A k \in 0 .. size - 1 : t[k] \in Int /\ t[k] = a[k] * W[k][n]
    <2>1. \A x \in Int, y \in Int : x * y \in Int
      OBVIOUS
    <2>2. \A k \in 0 .. size - 1 : t[k] = a[k] * W[k][n]
      OBVIOUS
    <2> HIDE DEF t
    <2> QED
      BY <2>1, <2>2
  <1>2. Run(a, W, size, n) = Sums(t, size) /\ Neuron(a, W, size, n) = Sums(t, size)[size]
    BY DEF Run, Neuron
  <1> HIDE DEF t
  <1>3. /\ Sums(t, size)[0] = 0
        /\ \A k \in 0 .. size - 1 : Sums(t, size)[k + 1] = Sums(t, size)[k] + t[k]
        /\ \A k \in 0 .. size : Sums(t, size)[k] \in Int
    BY <1>1, SumsStep
  <1> QED
    BY <1>1, <1>2, <1>3

-----------------------------------------------------------------------------
(* The steps *)

\* Elements of int8_t, and what relu leaves, fit the lanes of every kernel.
LEMMA ElementsFit ==
  ASSUME kernel \in Kernels
  PROVE  /\ largest \in Nat /\ \A x \in Int : relu(x) \in 0 .. largest
         /\ \A x \in Int8 : IsElem(x, width[kernel])
         /\ \A x \in 0 .. largest : IsElem(x, width[kernel])
  <1> DEFINE M == ByteMod^width[kernel]
  <1>1. M \in Nat \ {0, 1} /\ ByteMod <= M /\ ByteMod \in Nat
    BY KernelLanes, ElemSizes, Moduli
  <1>2. largest = M \div 2 - 1
    BY DEF largest
  <1>3. \A x : IsElem(x, width[kernel]) <=> x \in Int /\ -M <= 2 * x /\ 2 * x < M
    BY DEF IsElem
  <1> HIDE DEF M
  <1>4. M \div 2 \in Nat \ {0} /\ 2 * (M \div 2) <= M
    BY <1>1
  <1>5. largest \in Nat
    BY <1>2, <1>4
  <1>6. \A x \in Int : relu(x) \in 0 .. largest
    BY <1>5 DEF relu
  <1>7. \A x \in 0 .. largest : x \in Int /\ -M <= 2 * x /\ 2 * x < M
    BY <1>1, <1>2, <1>4
  <1>8. \A x \in Int8 : x \in Int /\ -M <= 2 * x /\ 2 * x < M
    <2>1. ByteMod \div 2 \in Nat /\ 2 * (ByteMod \div 2) <= ByteMod
      BY <1>1
    <2> QED
      BY <1>1, <2>1 DEF Int8
  <1> QED
    BY <1>3, <1>5, <1>6, <1>7, <1>8

\* The arrays the two layers read.
LEMMA LayerData ==
  ASSUME Types
  PROVE  /\ \A k \in 0 .. INPUT_SIZE - 1 : input[k] \in Int8 /\ IsElem(input[k], width[kernel])
         /\ \A k \in 0 .. HIDDEN_SIZE - 1 : hidden[k] \in 0 .. largest /\ IsElem(hidden[k], width[kernel])
         /\ \A n \in 0 .. HIDDEN_SIZE - 1, k \in 0 .. INPUT_SIZE - 1 :
              W1[k][n] \in Int8 /\ IsElem(W1[k][n], width[kernel]) /\ W1_packed[n][k] = W1[k][n]
         /\ \A n \in 0 .. OUTPUT_SIZE - 1, k \in 0 .. HIDDEN_SIZE - 1 :
              W2[k][n] \in Int8 /\ IsElem(W2[k][n], width[kernel]) /\ W2_packed[n][k] = W2[k][n]
  <1>1. /\ \A x \in Int8 : IsElem(x, width[kernel])
        /\ \A x \in 0 .. largest : IsElem(x, width[kernel])
    BY ElementsFit DEF Types
  <1>2. \A k \in 0 .. INPUT_SIZE - 1 : input[k] \in Int8
    BY ElementsAssumption DEF Types
  <1>3. \A k \in 0 .. HIDDEN_SIZE - 1 : hidden[k] \in 0 .. largest
    BY DEF Types
  <1>4. /\ \A n \in 0 .. HIDDEN_SIZE - 1, k \in 0 .. INPUT_SIZE - 1 :
              W1[k][n] \in Int8 /\ W1_packed[n][k] = W1[k][n]
        /\ \A n \in 0 .. OUTPUT_SIZE - 1, k \in 0 .. HIDDEN_SIZE - 1 :
              W2[k][n] \in Int8 /\ W2_packed[n][k] = W2[k][n]
    BY ElementsAssumption DEF W1_packed, W2_packed
  <1> QED
    BY <1>1, <1>2, <1>3, <1>4

\* The running sums of the two layers.
LEMMA LayerRuns ==
  ASSUME Types
  PROVE  /\ \A n \in 0 .. HIDDEN_SIZE - 1 :
              LET s == Run(input, W1, INPUT_SIZE, n)
              IN  /\ s[0] = 0 /\ \A k \in 0 .. INPUT_SIZE : s[k] \in Int
                  /\ \A k \in 0 .. INPUT_SIZE - 1 : s[k + 1] = s[k] + input[k] * W1[k][n]
                  /\ Neuron(input, W1, INPUT_SIZE, n) = s[INPUT_SIZE]
         /\ \A n \in 0 .. OUTPUT_SIZE - 1 :
              LET s == Run(hidden, W2, HIDDEN_SIZE, n)
              IN  /\ s[0] = 0 /\ \A k \in 0 .. HIDDEN_SIZE : s[k] \in Int
                  /\ \A k \in 0 .. HIDDEN_SIZE - 1 : s[k + 1] = s[k] + hidden[k] * W2[k][n]
                  /\ Neuron(hidden, W2, HIDDEN_SIZE, n) = s[HIDDEN_SIZE]
  <1>1. /\ \A k \in 0 .. INPUT_SIZE - 1 : input[k] \in Int
        /\ \A k \in 0 .. HIDDEN_SIZE - 1 : hidden[k] \in Int
        /\ \A n \in 0 .. HIDDEN_SIZE - 1, k \in 0 .. INPUT_SIZE - 1 : W1[k][n] \in Int
        /\ \A n \in 0 .. OUTPUT_SIZE - 1, k \in 0 .. HIDDEN_SIZE - 1 : W2[k][n] \in Int
    BY LayerData DEF IsElem
  <1>2. INPUT_SIZE \in Nat /\ HIDDEN_SIZE \in Nat
    BY SizesAssumption
  <1> QED
    BY <1>1, <1>2, RunStep

\* A layer is a whole number of turns, and starts from nothing.
LEMMA WholeTurns ==
  ASSUME kernel \in Kernels, NEW size \in Nat, size % 8 = 0
  PROVE  \E turns \in 0 .. size : 0 + turns * lanes[kernel] = size
  <1> DEFINE n == lanes[kernel]
  <1>1. n \in {1, 2, 4, 8}
    BY KernelLanes
  <1> HIDE DEF n
  <1>2. PICK q \in Nat : size = q * 8
    <2>1. PICK q \in Int, r \in 0 .. 8 - 1 : q * 8 + r = size /\ size % 8 = r
      BY DivMod
    <2> QED
      BY <2>1
  <1>3. PICK c \in {1, 2, 4, 8} : c * n = 8
    BY <1>1
  <1>4. q * c \in 0 .. size /\ 0 + (q * c) * n = size
    BY <1>1, <1>2, <1>3
  <1> QED
    BY <1>4 DEF n

\* Zero is zero.
LEMMA Int32OfZero == Int32(0) = 0
  <1>1. InRange(0)
    BY Int32Exact, Moduli
  <1> QED
    BY <1>1, Int32Exact

\* The invariant holds initially.
LEMMA InitHolds == Init => MlpInv
  <1> SUFFICES ASSUME Init PROVE MlpInv
    OBVIOUS
  <1>1. kernel \in Kernels /\ input \in Inputs /\ layer = 1 /\ j = 0 /\ i = 0 /\ acc = 0 /\ pred = 0
    BY DEF Init
  <1>2. largest \in Nat
    BY <1>1, ElementsFit
  <1>3. Types
    BY <1>1, <1>2 DEF Init, Types
  <1>4. INPUT_SIZE \in Nat \ {0} /\ HIDDEN_SIZE \in Nat \ {0} /\ INPUT_SIZE % 8 = 0
    BY SizesAssumption
  <1>5. \E turns \in 0 .. INPUT_SIZE : i + turns * lanes[kernel] = INPUT_SIZE
    BY <1>1, <1>4, WholeTurns
  <1>6. Int32(0) = 0
    BY Int32OfZero
  <1>7. Run(input, W1, INPUT_SIZE, j)[0] = 0
    <2>1. j \in 0 .. HIDDEN_SIZE - 1
      BY <1>1, <1>4
    <2> QED
      BY <1>3, <2>1, LayerRuns
  <1>8. Summed
    BY <1>1, <1>4, <1>5, <1>6, <1>7 DEF Summed, Partial
  <1>9. Finished /\ Searched
    BY <1>1 DEF Finished, Searched
  <1> QED
    BY <1>3, <1>8, <1>9 DEF MlpInv

\* A turn of the innermost loop preserves it.
LEMMA AccumulateStep ==
  ASSUME MlpInv, Accumulate
  PROVE  MlpInv'
  <1> DEFINE n == lanes[kernel]
  <1>1. Types /\ Summed /\ Finished /\ Searched /\ layer \in {1, 2} /\ kernel \in Kernels
    BY DEF MlpInv, Accumulate, Types
  <1>2. /\ kernel' = kernel /\ layer' = layer /\ j' = j /\ input' = input /\ hidden' = hidden
        /\ output' = output /\ pred' = pred /\ i < fan_in /\ i' = i + n
        /\ acc' = Int32(acc + mac(source, weights, i))
    BY DEF Accumulate
  <1>3. Types'
    BY <1>1, <1>2 DEF Types, largest, width
  <1>4. Finished' /\ Searched'
    BY <1>1, <1>2 DEF Finished, Searched, relu, largest
  <1>5. CASE layer = 1
    <2> DEFINE s == Run(input, W1, INPUT_SIZE, j)
               b == W1_packed[j]
    <2>1. /\ j \in 0 .. HIDDEN_SIZE - 1 /\ i \in 0 .. INPUT_SIZE /\ pred = 0 /\ acc = Int32(s[i])
          /\ \E turns \in 0 .. INPUT_SIZE : i + turns * lanes[kernel] = INPUT_SIZE
      BY <1>1, <1>5 DEF Summed, Partial
    <2>2. INPUT_SIZE \in Nat /\ i \in 0 .. INPUT_SIZE - 1
      BY <1>2, <1>5, <2>1, SizesAssumption DEF fan_in
    <2>3. acc' = Int32(Int32(s[i]) + mac(input, b, i))
      BY <1>2, <1>5, <2>1 DEF source, weights
    <2>4. /\ s[0] = 0 /\ \A k \in 0 .. INPUT_SIZE : s[k] \in Int
          /\ \A k \in 0 .. INPUT_SIZE - 1 : s[k + 1] = s[k] + input[k] * W1[k][j]
      BY <1>1, <2>1, LayerRuns
    <2>5. \A k \in 0 .. INPUT_SIZE - 1 : /\ IsElem(input[k], width[kernel]) /\ IsElem(W1[k][j], width[kernel])
                                         /\ b[k] = W1[k][j]
      BY <1>1, <2>1, LayerData
    <2> HIDE DEF s, b
    <2>6. RunsOver(s, input, b, INPUT_SIZE)
      BY <2>2, <2>4, <2>5 DEF RunsOver
    <2>7. /\ i + n \in 0 .. INPUT_SIZE
          /\ \E turns \in 0 .. INPUT_SIZE : (i + n) + turns * n = INPUT_SIZE
          /\ Int32(Int32(s[i]) + mac(input, b, i)) = Int32(s[i + n])
      BY <1>1, <2>1, <2>2, <2>6, TurnAdds
    <2>8. s' = s
      BY <1>2 DEF s, Run
    <2>9. Partial(INPUT_SIZE, HIDDEN_SIZE, s)'
      <3>1. lanes[kernel]' = n
        BY <1>2 DEF lanes
      <3> HIDE DEF n
      <3> QED
        BY <1>2, <2>1, <2>3, <2>7, <2>8, <3>1 DEF Partial
    <2>10. Summed'
      BY <1>2, <1>5, <2>9 DEF Summed, s
    <2> QED
      BY <1>3, <1>4, <2>10 DEF MlpInv
  <1>6. CASE layer = 2
    <2> DEFINE s == Run(hidden, W2, HIDDEN_SIZE, j)
               b == W2_packed[j]
    <2>1. /\ j \in 0 .. OUTPUT_SIZE - 1 /\ i \in 0 .. HIDDEN_SIZE /\ pred = 0 /\ acc = Int32(s[i])
          /\ \E turns \in 0 .. HIDDEN_SIZE : i + turns * lanes[kernel] = HIDDEN_SIZE
      BY <1>1, <1>6 DEF Summed, Partial
    <2>2. HIDDEN_SIZE \in Nat /\ i \in 0 .. HIDDEN_SIZE - 1
      BY <1>2, <1>6, <2>1, SizesAssumption DEF fan_in
    <2>3. acc' = Int32(Int32(s[i]) + mac(hidden, b, i))
      BY <1>2, <1>6, <2>1 DEF source, weights
    <2>4. /\ s[0] = 0 /\ \A k \in 0 .. HIDDEN_SIZE : s[k] \in Int
          /\ \A k \in 0 .. HIDDEN_SIZE - 1 : s[k + 1] = s[k] + hidden[k] * W2[k][j]
      BY <1>1, <2>1, LayerRuns
    <2>5. \A k \in 0 .. HIDDEN_SIZE - 1 : /\ IsElem(hidden[k], width[kernel]) /\ IsElem(W2[k][j], width[kernel])
                                          /\ b[k] = W2[k][j]
      BY <1>1, <2>1, LayerData
    <2> HIDE DEF s, b
    <2>6. RunsOver(s, hidden, b, HIDDEN_SIZE)
      BY <2>2, <2>4, <2>5 DEF RunsOver
    <2>7. /\ i + n \in 0 .. HIDDEN_SIZE
          /\ \E turns \in 0 .. HIDDEN_SIZE : (i + n) + turns * n = HIDDEN_SIZE
          /\ Int32(Int32(s[i]) + mac(hidden, b, i)) = Int32(s[i + n])
      BY <1>1, <2>1, <2>2, <2>6, TurnAdds
    <2>8. s' = s
      BY <1>2 DEF s, Run
    <2>9. Partial(HIDDEN_SIZE, OUTPUT_SIZE, s)'
      <3>1. lanes[kernel]' = n
        BY <1>2 DEF lanes
      <3> HIDE DEF n
      <3> QED
        BY <1>2, <2>1, <2>3, <2>7, <2>8, <3>1 DEF Partial
    <2>10. Summed'
      BY <1>2, <1>6, <2>9 DEF Summed, s
    <2> QED
      BY <1>3, <1>4, <2>10 DEF MlpInv
  <1> QED
    BY <1>1, <1>5, <1>6

\* So does a step of the search.
LEMMA CompareStep ==
  ASSUME MlpInv, Compare
  PROVE  MlpInv'
  <1>1. Types /\ Finished /\ Searched /\ layer = 3
    BY DEF MlpInv, Compare
  <1>2. /\ kernel' = kernel /\ layer' = layer /\ j' = j + 1 /\ input' = input /\ hidden' = hidden
        /\ output' = output /\ j + 1 < OUTPUT_SIZE
        /\ pred' = IF output[j + 1] > output[pred] THEN j + 1 ELSE pred
    BY DEF Compare, better
  <1>3. Types'
    BY <1>1, <1>2 DEF Types, largest, width
  <1>4. Finished'
    BY <1>1, <1>2 DEF Finished, relu, largest
  <1>5. Summed'
    BY <1>1, <1>2 DEF Summed
  <1>6. Searched'
    <2>1. /\ j \in 0 .. OUTPUT_SIZE - 1 /\ pred \in 0 .. j
          /\ \A n \in 0 .. j : output[n] <= output[pred] /\ (n < pred => output[n] < output[pred])
      BY <1>1 DEF Searched
    <2>2. OUTPUT_SIZE \in Nat /\ \A n \in 0 .. OUTPUT_SIZE - 1 : output[n] \in Int
      BY <1>1, SizesAssumption, ElementsFit DEF Types
    <2>3. /\ j + 1 \in 0 .. OUTPUT_SIZE - 1 /\ pred' \in 0 .. j + 1
          /\ \A n \in 0 .. j + 1 : output[n] <= output[pred'] /\ (n < pred' => output[n] < output[pred'])
      BY <1>2, <2>1, <2>2
    <2> QED
      BY <1>2, <2>3 DEF Searched
  <1> QED
    BY <1>3, <1>4, <1>5, <1>6 DEF MlpInv

\* No sum has begun.
LEMMA RunOfNothing ==
  ASSUME NEW a, NEW W, NEW size \in Nat, NEW n
  PROVE  Run(a, W, size, n)[0] = 0
  <1> DEFINE t == [k \in 0 .. size - 1 |-> a[k] * W[k][n]]
  <1>1. Run(a, W, size, n) = Sums(t, size)
    BY DEF Run
  <1> HIDE DEF t
  <1>2. Sums(t, size) = [k \in 0 .. size |-> IF k = 0 THEN 0 ELSE Sums(t, size)[k - 1] + t[k - 1]]
    BY SumsExist
  <1>3. 0 \in 0 .. size
    OBVIOUS
  <1> QED
    BY <1>1, <1>2, <1>3

\* So does the end of a neuron, which may be the end of its layer.
LEMMA EndNeuronStep ==
  ASSUME MlpInv, EndNeuron
  PROVE  MlpInv'
  <1>1. Types /\ Summed /\ Finished /\ Searched /\ layer \in {1, 2} /\ kernel \in Kernels
    BY DEF MlpInv, EndNeuron, Types
  <1>2. /\ kernel' = kernel /\ input' = input /\ pred' = pred /\ acc' = 0 /\ i' = 0 /\ i >= fan_in
        /\ hidden' = (IF layer = 1 THEN [hidden EXCEPT ![j] = relu(acc)] ELSE hidden)
        /\ output' = (IF layer = 2 THEN [output EXCEPT ![j] = relu(acc)] ELSE output)
        /\ j' = (j + 1) % neurons /\ layer' = IF j + 1 = neurons THEN layer + 1 ELSE layer
    BY DEF EndNeuron
  <1>3. /\ INPUT_SIZE \in Nat \ {0} /\ HIDDEN_SIZE \in Nat \ {0} /\ OUTPUT_SIZE \in Nat \ {0}
        /\ \E turns \in 0 .. INPUT_SIZE : 0 + turns * lanes[kernel] = INPUT_SIZE
        /\ \E turns \in 0 .. HIDDEN_SIZE : 0 + turns * lanes[kernel] = HIDDEN_SIZE
    BY <1>1, SizesAssumption, WholeTurns
  <1>4. largest \in Nat /\ \A x \in Int : relu(x) \in 0 .. largest
    BY <1>1, ElementsFit
  <1>5. lanes[kernel]' = lanes[kernel] /\ largest' = largest /\ \A x : relu(x)' = relu(x)
    BY <1>2 DEF lanes, largest, relu
  <1>6. \A count \in Nat \ {0} : \A n \in 0 .. count - 1 :
          /\ n + 1 = count => (n + 1) % count = 0
          /\ n + 1 # count => (n + 1) % count = n + 1
    <2> SUFFICES ASSUME NEW count \in Nat \ {0}, NEW n \in 0 .. count - 1
                 PROVE  /\ n + 1 = count => (n + 1) % count = 0
                        /\ n + 1 # count => (n + 1) % count = n + 1
      OBVIOUS
    <2>1. \A x \in 0 .. count - 1 : x % count = x
      OBVIOUS
    <2>2. count % count = 0
      OBVIOUS
    <2> QED
      BY <2>1, <2>2
  <1>7. CASE layer = 1
    <2> DEFINE s == Run(input, W1, INPUT_SIZE, j)
    <2>1. j \in 0 .. HIDDEN_SIZE - 1 /\ i \in 0 .. INPUT_SIZE /\ pred = 0 /\ acc = Int32(s[i])
      BY <1>1, <1>7 DEF Summed, Partial
    <2>2. i = INPUT_SIZE
      BY <1>2, <1>3, <1>7, <2>1 DEF fan_in
    <2>3. acc = Int32(Neuron(input, W1, INPUT_SIZE, j)) /\ acc \in Int
      <3>1. Neuron(input, W1, INPUT_SIZE, j) = s[INPUT_SIZE]
        BY DEF Run, Neuron
      <3>2. s[INPUT_SIZE] \in Int
        <4>1. INPUT_SIZE \in 0 .. INPUT_SIZE
          BY <1>3
        <4> QED
          BY <1>1, <2>1, <4>1, LayerRuns
      <3> QED
        BY <2>1, <2>2, <3>1, <3>2, Int32Exact
    <2>4. /\ output' = output /\ hidden' = [hidden EXCEPT ![j] = relu(acc)]
          /\ \/ j + 1 = HIDDEN_SIZE /\ j' = 0 /\ layer' = 2
             \/ j + 1 < HIDDEN_SIZE /\ j' = j + 1 /\ layer' = 1
      BY <1>2, <1>3, <1>6, <1>7, <2>1 DEF neurons
    <2>5. Types'
      BY <1>1, <1>2, <1>4, <1>5, <2>1, <2>3, <2>4 DEF Types
    <2>6. Summed'
      <3>1. /\ Run(input', W1, INPUT_SIZE, j')[0] = 0
            /\ Run(hidden', W2, HIDDEN_SIZE, j')[0] = 0
        BY <1>3, RunOfNothing
      <3>2. Run(input, W1, INPUT_SIZE, j)'[0] = 0 /\ Run(hidden, W2, HIDDEN_SIZE, j)'[0] = 0
        BY <3>1 DEF Run
      <3>3. /\ Int32(Run(input, W1, INPUT_SIZE, j)'[0]) = 0
            /\ Int32(Run(hidden, W2, HIDDEN_SIZE, j)'[0]) = 0
        BY <3>2, Int32OfZero
      <3>4. i' = 0 /\ acc' = 0 /\ pred' = 0
        BY <1>2, <2>1
      <3>5. layer' = 1 => Partial(INPUT_SIZE, HIDDEN_SIZE, Run(input, W1, INPUT_SIZE, j))'
        <4>1. layer' = 1 => j' \in 0 .. HIDDEN_SIZE - 1
          BY <1>3, <2>1, <2>4
        <4> QED
          BY <1>3, <1>5, <3>3, <3>4, <4>1 DEF Partial, Int32
      <3>6. layer' = 2 => Partial(HIDDEN_SIZE, OUTPUT_SIZE, Run(hidden, W2, HIDDEN_SIZE, j))'
        <4>1. layer' = 2 => j' \in 0 .. OUTPUT_SIZE - 1
          BY <1>3, <2>1, <2>4
        <4> QED
          BY <1>3, <1>5, <3>3, <3>4, <4>1 DEF Partial, Int32
      <3> QED
        BY <3>5, <3>6 DEF Summed
    <2>7. Finished'
      <3>1. \A n \in 0 .. HIDDEN_SIZE - 1 :
              layer' > 1 \/ n < j' => hidden'[n] = relu(Int32(Neuron(input, W1, INPUT_SIZE, n)))
        <4> SUFFICES ASSUME NEW n \in 0 .. HIDDEN_SIZE - 1, layer' > 1 \/ n < j'
                     PROVE  hidden'[n] = relu(Int32(Neuron(input, W1, INPUT_SIZE, n)))
          OBVIOUS
        <4>1. n = j \/ n < j
          BY <1>3, <2>1, <2>4
        <4>2. CASE n = j
          BY <1>1, <2>1, <2>3, <2>4, <4>2 DEF Types
        <4>3. CASE n < j
          <5>1. hidden'[n] = hidden[n]
            BY <1>1, <2>1, <2>4, <4>3 DEF Types
          <5> QED
            BY <1>1, <4>3, <5>1 DEF Finished
        <4> QED
          BY <4>1, <4>2, <4>3
      <3>2. ~(layer' = 3) /\ \A n \in 0 .. OUTPUT_SIZE - 1 : ~(layer' = 2 /\ n < j')
        BY <1>3, <2>4
      <3>3. \A n : Neuron(input, W1, INPUT_SIZE, n)' = Neuron(input, W1, INPUT_SIZE, n)
        BY <1>2 DEF Neuron
      <3> QED
        BY <1>5, <3>1, <3>2, <3>3 DEF Finished, Int32
    <2>8. Searched'
      BY <2>4 DEF Searched
    <2> QED
      BY <2>5, <2>6, <2>7, <2>8 DEF MlpInv
  <1>8. CASE layer = 2
    <2> DEFINE s == Run(hidden, W2, HIDDEN_SIZE, j)
    <2>1. j \in 0 .. OUTPUT_SIZE - 1 /\ i \in 0 .. HIDDEN_SIZE /\ pred = 0 /\ acc = Int32(s[i])
      BY <1>1, <1>8 DEF Summed, Partial
    <2>2. i = HIDDEN_SIZE
      BY <1>2, <1>3, <1>8, <2>1 DEF fan_in
    <2>3. acc = Int32(Neuron(hidden, W2, HIDDEN_SIZE, j)) /\ acc \in Int
      <3>1. Neuron(hidden, W2, HIDDEN_SIZE, j) = s[HIDDEN_SIZE]
        BY DEF Run, Neuron
      <3>2. s[HIDDEN_SIZE] \in Int
        <4>1. HIDDEN_SIZE \in 0 .. HIDDEN_SIZE
          BY <1>3
        <4> QED
          BY <1>1, <2>1, <4>1, LayerRuns
      <3> QED
        BY <2>1, <2>2, <3>1, <3>2, Int32Exact
    <2>4. /\ hidden' = hidden /\ output' = [output EXCEPT ![j] = relu(acc)]
          /\ \/ j + 1 = OUTPUT_SIZE /\ j' = 0 /\ layer' = 3
             \/ j + 1 < OUTPUT_SIZE /\ j' = j + 1 /\ layer' = 2
      <3>1. neurons = OUTPUT_SIZE
        BY <1>8 DEF neurons
      <3>2. /\ j + 1 = OUTPUT_SIZE => (j + 1) % OUTPUT_SIZE = 0
            /\ j + 1 # OUTPUT_SIZE => (j + 1) % OUTPUT_SIZE = j + 1
        BY <1>3, <1>6, <2>1
      <3>3. j + 1 = OUTPUT_SIZE \/ j + 1 < OUTPUT_SIZE
        BY <1>3, <2>1
      <3> QED
        BY <1>2, <1>8, <3>1, <3>2, <3>3
    <2>5. Types'
      BY <1>1, <1>2, <1>4, <1>5, <2>1, <2>3, <2>4 DEF Types
    <2>6. Summed'
      <3>1. Run(hidden', W2, HIDDEN_SIZE, j')[0] = 0
        BY <1>3, RunOfNothing
      <3>2. Run(hidden, W2, HIDDEN_SIZE, j)'[0] = 0
        BY <3>1 DEF Run
      <3> QED
        BY <1>2, <1>3, <1>5, <2>1, <2>4, <3>2, Int32OfZero DEF Summed, Partial, Int32
    <2>7. Finished'
      <3>1. \A n \in 0 .. OUTPUT_SIZE - 1 :
              layer' = 3 \/ n < j' => output'[n] = relu(Int32(Neuron(hidden, W2, HIDDEN_SIZE, n)))
        <4> SUFFICES ASSUME NEW n \in 0 .. OUTPUT_SIZE - 1, layer' = 3 \/ n < j'
                     PROVE  output'[n] = relu(Int32(Neuron(hidden, W2, HIDDEN_SIZE, n)))
          OBVIOUS
        <4>1. n = j \/ n < j
          BY <1>3, <2>1, <2>4
        <4>2. CASE n = j
          BY <1>1, <2>1, <2>3, <2>4, <4>2 DEF Types
        <4>3. CASE n < j
          <5>1. output'[n] = output[n]
            BY <1>1, <2>1, <2>4, <4>3 DEF Types
          <5> QED
            BY <1>1, <1>8, <4>3, <5>1 DEF Finished
        <4> QED
          BY <4>1, <4>2, <4>3
      <3>2. \A n \in 0 .. HIDDEN_SIZE - 1 : hidden[n] = relu(Int32(Neuron(input, W1, INPUT_SIZE, n)))
        BY <1>1, <1>8 DEF Finished
      <3>3. \A n : /\ Neuron(input, W1, INPUT_SIZE, n)' = Neuron(input, W1, INPUT_SIZE, n)
                   /\ Neuron(hidden, W2, HIDDEN_SIZE, n)' = Neuron(hidden, W2, HIDDEN_SIZE, n)
        BY <1>2, <2>4 DEF Neuron
      <3> QED
        BY <1>5, <2>4, <3>1, <3>2, <3>3 DEF Finished, Int32
    <2>8. Searched'
      <3>1. CASE layer' = 3
        <4>1. j' = 0 /\ pred' = 0
          BY <1>2, <2>1, <2>4, <3>1
        <4>2. output' \in [0 .. OUTPUT_SIZE - 1 -> 0 .. largest] /\ 0 \in 0 .. OUTPUT_SIZE - 1
          BY <1>3, <1>5, <2>5 DEF Types
        <4>3. output'[0] \in Int
          BY <1>4, <4>2
        <4> QED
          BY <1>3, <4>1, <4>3 DEF Searched
      <3> QED
        BY <3>1 DEF Searched
    <2> QED
      BY <2>5, <2>6, <2>7, <2>8 DEF MlpInv
  <1> QED
    BY <1>1, <1>7, <1>8

\* The invariant holds of every run.
LEMMA MlpInvariant == Spec => []MlpInv
  <1>1. Init => MlpInv
    BY InitHolds
  <1>2. MlpInv /\ [Next]_vars => MlpInv'
    <2> SUFFICES ASSUME MlpInv, [Next]_vars PROVE MlpInv'
      OBVIOUS
    <2>1. CASE Accumulate
      BY <2>1, AccumulateStep
    <2>2. CASE EndNeuron
      BY <2>2, EndNeuronStep
    <2>3. CASE Compare
      BY <2>3, CompareStep
    <2>4. CASE UNCHANGED vars
      <3>1. Types' /\ Summed'
        BY <2>4 DEF MlpInv, vars, Types, Summed, Partial, largest, lanes, width, Run
      <3>2. Finished' /\ Searched'
        BY <2>4 DEF MlpInv, vars, Finished, Searched, relu, largest, Neuron
      <3> QED
        BY <3>1, <3>2 DEF MlpInv
    <2> QED
      BY <2>1, <2>2, <2>3, <2>4 DEF Next
  <1> QED
    BY <1>1, <1>2, PTL DEF Spec

-----------------------------------------------------------------------------
(* The theorems *)

\* A sum of bounded terms is bounded.
LEMMA RunBound ==
  ASSUME NEW size \in Nat, NEW c \in Nat, NEW n, NEW a, NEW W,
         \A k \in 0 .. size - 1 : /\ a[k] \in Int /\ W[k][n] \in Int
                                  /\ -c <= a[k] * W[k][n] /\ a[k] * W[k][n] <= c
  PROVE  /\ Neuron(a, W, size, n) \in Int
         /\ -(size * c) <= Neuron(a, W, size, n) /\ Neuron(a, W, size, n) <= size * c
  <1> DEFINE s == Run(a, W, size, n)
             t(k) == a[k] * W[k][n]
             T == {k \in 0 .. size : -(k * c) <= s[k] /\ s[k] <= k * c}
  <1>1. /\ s[0] = 0 /\ \A k \in 0 .. size : s[k] \in Int
        /\ \A k \in 0 .. size - 1 : s[k + 1] = s[k] + t(k)
        /\ Neuron(a, W, size, n) = s[size]
    BY RunStep
  <1>2. \A k \in 0 .. size - 1 : t(k) \in Int /\ -c <= t(k) /\ t(k) <= c
    <2>1. \A x \in Int, y \in Int : x * y \in Int
      OBVIOUS
    <2> QED
      BY <2>1
  <1> HIDE DEF s, t
  <1>3. 0 \in T
    BY <1>1
  <1>4. \A k \in 0 .. size - 1 : k \in T => k + 1 \in T
    <2> SUFFICES ASSUME NEW k \in 0 .. size - 1, k \in T PROVE k + 1 \in T
      OBVIOUS
    <2>1. s[k] \in Int /\ t(k) \in Int /\ s[k + 1] = s[k] + t(k)
      BY <1>1, <1>2
    <2>2. (k + 1) * c = k * c + c /\ k * c \in Nat
      OBVIOUS
    <2>3. -((k + 1) * c) <= s[k + 1] /\ s[k + 1] <= (k + 1) * c
      BY <1>2, <2>1, <2>2
    <2> QED
      BY <2>3
  <1> HIDE DEF T
  <1>5. size \in T
    <2>1. \A k \in 0 .. size : k \in T
      BY <1>3, <1>4, UpToInduction
    <2> QED
      BY <2>1
  <1> QED
    BY <1>1, <1>5 DEF T

\* The sums of the first layer fit int32_t, and those of the second do where
\* its inputs are clipped to two bytes or less.
LEMMA SumsFit ==
  ASSUME Types
  PROVE  /\ \A n \in 0 .. HIDDEN_SIZE - 1 :
              Neuron(input, W1, INPUT_SIZE, n) \in Int /\ InRange(Neuron(input, W1, INPUT_SIZE, n))
         /\ \A n \in 0 .. OUTPUT_SIZE - 1 :
              /\ Neuron(hidden, W2, HIDDEN_SIZE, n) \in Int
              /\ kernel # "vmac_w" => InRange(Neuron(hidden, W2, HIDDEN_SIZE, n))
  <1>1. PICK h \in Nat : ByteMod = 2 * h
    BY WordModIsPower
  <1> DEFINE H == HalfMod
             c1 == h * h
  <1>2. /\ h # 0 /\ Int8 = -h .. h - 1 /\ H = 4 * (h * h) /\ H \in Nat /\ WordMod = H * H
        /\ INPUT_SIZE \in Nat /\ HIDDEN_SIZE \in Nat
        /\ INPUT_SIZE < 2 * H /\ HIDDEN_SIZE < 4 * h
    <2>1. ByteMod \div 2 = h
      BY <1>1
    <2>2. (2 * h) * (2 * h) = 4 * (h * h)
      BY <1>1
    <2> QED
      BY <1>1, <2>1, <2>2, Moduli, SizesAssumption DEF Int8
  <1>3. \A x \in Int8, y \in Int8 : x \in Int /\ y \in Int /\ -(h * h) <= x * y /\ x * y <= h * h
    <2> SUFFICES ASSUME NEW x \in -h .. h - 1, NEW y \in -h .. h - 1
                 PROVE  -(h * h) <= x * y /\ x * y <= h * h
      BY <1>2
    <2>1. (h - x) * (h + y) >= 0 /\ (h + x) * (h - y) >= 0 /\ (h - x) * (h - y) >= 0 /\ (h + x) * (h + y) >= 0
      OBVIOUS
    <2>2. (h - x) * (h + y) = h * h + h * y - x * h - x * y /\ (h + x) * (h - y) = h * h - h * y + x * h - x * y
      OBVIOUS
    <2>3. (h - x) * (h - y) = h * h - h * y - x * h + x * y /\ (h + x) * (h + y) = h * h + h * y + x * h + x * y
      OBVIOUS
    <2> QED
      BY <2>1, <2>2, <2>3
  <1>4. ASSUME NEW n \in 0 .. HIDDEN_SIZE - 1
        PROVE  Neuron(input, W1, INPUT_SIZE, n) \in Int /\ InRange(Neuron(input, W1, INPUT_SIZE, n))
    <2> DEFINE v == Neuron(input, W1, INPUT_SIZE, n)
    <2>1. \A k \in 0 .. INPUT_SIZE - 1 : input[k] \in Int8 /\ W1[k][n] \in Int8
      BY LayerData
    <2>2. c1 \in Nat
      BY <1>1
    <2>3. v \in Int /\ -(INPUT_SIZE * c1) <= v /\ v <= INPUT_SIZE * c1
      BY <1>2, <1>3, <2>1, <2>2, RunBound
    <2>4. 2 * (INPUT_SIZE * c1) < WordMod
      <3>1. WordMod = (2 * H) * (2 * c1) /\ 2 * (INPUT_SIZE * c1) = INPUT_SIZE * (2 * c1)
        BY <1>2
      <3>2. 2 * c1 \in Nat \ {0}
        BY <1>2
      <3>3. \A x \in Nat, y \in Nat, z \in Nat \ {0} : x < y => x * z < y * z
        <4> SUFFICES ASSUME NEW x \in Nat, NEW y \in Nat, NEW z \in Nat \ {0}, x < y PROVE x * z < y * z
          OBVIOUS
        <4>1. (y - x) * z > 0 /\ (y - x) * z = y * z - x * z
          OBVIOUS
        <4> QED
          BY <4>1
      <3>4. 2 * H \in Nat
        BY <1>2
      <3> QED
        BY <1>2, <3>1, <3>2, <3>3, <3>4
    <2> HIDE DEF v, c1
    <2>5. -WordMod <= 2 * v /\ 2 * v < WordMod
      BY <1>2, <2>2, <2>3, <2>4, Moduli
    <2> QED
      BY <2>3, <2>5, Int32Exact DEF v
  <1>5. ASSUME NEW n \in 0 .. OUTPUT_SIZE - 1
        PROVE  /\ Neuron(hidden, W2, HIDDEN_SIZE, n) \in Int
               /\ kernel # "vmac_w" => InRange(Neuron(hidden, W2, HIDDEN_SIZE, n))
    <2> DEFINE v == Neuron(hidden, W2, HIDDEN_SIZE, n)
               M == 2 * (h * h)
               c == M * h
    <2>1. \A k \in 0 .. HIDDEN_SIZE - 1 : hidden[k] \in 0 .. largest /\ W2[k][n] \in Int8 /\ hidden[k] \in Int
      BY LayerData DEF IsElem
    <2>2. v \in Int
      <3>1. HIDDEN_SIZE \in 0 .. HIDDEN_SIZE
        BY <1>2
      <3> QED
        BY <3>1, LayerRuns
    <2>3. ASSUME kernel # "vmac_w" PROVE InRange(v)
      <3>1. largest <= M /\ largest \in Nat /\ M \in Nat
        <4>1. width[kernel] \in {1, 2} /\ kernel \in Kernels
          BY <2>3, KernelLanes DEF Types
        <4>2. ByteMod^width[kernel] \in Nat /\ ByteMod^width[kernel] <= H
          <5>1. /\ width[kernel] = 1 => ByteMod^width[kernel] = ByteMod
                /\ width[kernel] = 2 => ByteMod^width[kernel] = HalfMod
            BY ElemSizes
          <5> QED
            BY <4>1, <5>1, ElemSizes, Moduli
        <4>3. largest \in Nat
          BY <4>1, ElementsFit
        <4>4. largest = ByteMod^width[kernel] \div 2 - 1
          BY DEF largest
        <4>5. \A x \in Nat : x <= H => x \div 2 - 1 <= M
          BY <1>2
        <4> QED
          BY <1>1, <4>2, <4>3, <4>4, <4>5
      <3>2. \A x \in 0 .. largest, y \in Int8 : x \in Int /\ y \in Int /\ -c <= x * y /\ x * y <= c
        <4> SUFFICES ASSUME NEW x \in 0 .. largest, NEW y \in -h .. h - 1
                     PROVE  -c <= x * y /\ x * y <= c
          BY <1>2, <3>1
        <4> HIDE DEF M
        <4>1. x \in Nat /\ x <= M /\ y \in Int
          BY <3>1
        <4>2. (M - x) * h >= 0 /\ x * (h - y) >= 0 /\ x * (h + y) >= 0
          BY <1>1, <3>1, <4>1
        <4>3. /\ (M - x) * h = M * h - x * h /\ x * (h - y) = x * h - x * y
              /\ x * (h + y) = x * h + x * y
          BY <1>1, <3>1, <4>1
        <4> QED
          BY <1>1, <3>1, <4>1, <4>2, <4>3
      <3>3. c \in Nat
        BY <1>1, <3>1
      <3>4. -(HIDDEN_SIZE * c) <= v /\ v <= HIDDEN_SIZE * c
        BY <1>2, <2>1, <3>2, <3>3, RunBound
      <3>5. 2 * (HIDDEN_SIZE * c) < WordMod
        <4>1. WordMod = (4 * h) * (2 * c) /\ 2 * (HIDDEN_SIZE * c) = HIDDEN_SIZE * (2 * c)
          BY <1>2
        <4>2. 2 * c \in Nat \ {0} /\ 4 * h \in Nat
          BY <1>2
        <4>3. \A x \in Nat, y \in Nat, z \in Nat \ {0} : x < y => x * z < y * z
          <5> SUFFICES ASSUME NEW x \in Nat, NEW y \in Nat, NEW z \in Nat \ {0}, x < y PROVE x * z < y * z
            OBVIOUS
          <5>1. (y - x) * z > 0 /\ (y - x) * z = y * z - x * z
            OBVIOUS
          <5> QED
            BY <5>1
        <4> QED
          BY <1>2, <4>1, <4>2, <4>3
      <3> HIDE DEF v, c
      <3>6. -WordMod <= 2 * v /\ 2 * v < WordMod
        BY <1>2, <2>2, <3>3, <3>4, <3>5, Moduli
      <3> QED
        BY <2>2, <3>6, Int32Exact
    <2> QED
      BY <2>2, <2>3
  <1> QED
    BY <1>4, <1>5

\* relu is the clip between zero and the largest element.
LEMMA ReluClips ==
  ASSUME kernel \in Kernels, NEW x \in Int
  PROVE  relu(x) = Clipped(x)
  <1>1. largest \in Nat
    BY ElementsFit
  <1>2. \A p \in Int, q \in Int : /\ Max({p, q}) = (IF p < q THEN q ELSE p)
                                  /\ Min({p, q}) = (IF p > q THEN q ELSE p)
    <2> SUFFICES ASSUME NEW p \in Int, NEW q \in Int
                 PROVE  /\ Max({p, q}) = (IF p < q THEN q ELSE p)
                        /\ Min({p, q}) = (IF p > q THEN q ELSE p)
      OBVIOUS
    <2> DEFINE S2 == {p, q}
               hi == IF p < q THEN q ELSE p
               lo == IF p > q THEN q ELSE p
    <2>1. hi \in S2 /\ \A y \in S2 : hi >= y
      OBVIOUS
    <2>2. lo \in S2 /\ \A y \in S2 : lo <= y
      OBVIOUS
    <2>3. Max(S2) \in S2 /\ \A y \in S2 : Max(S2) >= y
      BY <2>1 DEF Max
    <2>4. Min(S2) \in S2 /\ \A y \in S2 : Min(S2) <= y
      BY <2>2 DEF Min
    <2>5. Max(S2) = hi
      BY <2>1, <2>3
    <2>6. Min(S2) = lo
      BY <2>2, <2>4
    <2> QED
      BY <2>5, <2>6
  <1> QED
    BY <1>1, <1>2 DEF relu, Clipped

\* Every forward function computes the network, whatever the network.
THEOREM ForwardHolds == Spec => []ForwardRight
  <1>1. MlpInv => ForwardRight
    <2> SUFFICES ASSUME MlpInv PROVE ForwardRight
      OBVIOUS
    <2>1. Types /\ Finished /\ kernel \in Kernels
      BY DEF MlpInv, Types
    <2>2. /\ \A n \in 0 .. HIDDEN_SIZE - 1 :
               Neuron(input, W1, INPUT_SIZE, n) \in Int /\ InRange(Neuron(input, W1, INPUT_SIZE, n))
          /\ \A n \in 0 .. OUTPUT_SIZE - 1 :
               /\ Neuron(hidden, W2, HIDDEN_SIZE, n) \in Int
               /\ kernel # "vmac_w" => InRange(Neuron(hidden, W2, HIDDEN_SIZE, n))
      BY <2>1, SumsFit
    <2>3. \A x \in Int : InRange(x) => relu(Int32(x)) = Clipped(x)
      BY <2>1, ReluClips, Int32Exact
    <2> QED
      BY <2>1, <2>2, <2>3 DEF ForwardRight, Finished
  <1> QED
    BY <1>1, MlpInvariant, PTL

\* The class predicted is the first of the largest outputs.
THEOREM PredictsHolds == Spec => []PredictsFirstMaximum
  <1>1. MlpInv => PredictsFirstMaximum
    <2> SUFFICES ASSUME MlpInv, layer = 3, j = OUTPUT_SIZE - 1
                 PROVE  pred = Min({n \in DOMAIN output : \A k \in DOMAIN output : output[k] <= output[n]})
      BY DEF PredictsFirstMaximum
    <2> DEFINE best == {n \in DOMAIN output : \A k \in DOMAIN output : output[k] <= output[n]}
    <2>1. /\ pred \in 0 .. j
          /\ \A n \in 0 .. j : output[n] <= output[pred] /\ (n < pred => output[n] < output[pred])
      BY DEF MlpInv, Searched
    <2>2. DOMAIN output = 0 .. j /\ j \in Nat
      BY SizesAssumption DEF MlpInv, Types
    <2>3. \A n \in 0 .. j : output[n] \in Int
      <3>1. largest \in Nat /\ output \in [0 .. OUTPUT_SIZE - 1 -> 0 .. largest]
        BY ElementsFit DEF MlpInv, Types
      <3> QED
        BY <3>1
    <2>4. pred \in best
      BY <2>1, <2>2
    <2>5. \A n \in best : pred <= n
      BY <2>1, <2>2, <2>3
    <2>6. \A n \in best : n \in Int
      BY <2>2
    <2> HIDE DEF best
    <2>7. Min(best) \in best /\ \A y \in best : Min(best) <= y
      BY <2>4, <2>5 DEF Min
    <2>8. Min(best) = pred
      BY <2>4, <2>5, <2>6, <2>7
    <2> QED
      BY <2>8 DEF best
  <1> QED
    BY <1>1, MlpInvariant, PTL

=============================================================================
