------------------------------ MODULE IsaArith -------------------------------
(***************************************************************************)
(* Reference definitions of the arithmetic a program relies on.  They know *)
(* nothing of adders, shifters, lanes or cycles: a word is a number, a     *)
(* bitwise operation is one on sets of positions, a vector is a sequence   *)
(* of signed elements.                                                     *)
(***************************************************************************)
EXTENDS Words

Ones(a)  == {i \in Positions : Bit(a, i) = 1}
Value(S) == FromBits([i \in Positions |-> Flag(i \in S)])

\* The ten operations of OP and OP-IMM, by funct3.
AluRef(funct3, alt, a, b) ==
  LET sh == b % XLEN
  IN  CASE funct3 = 0 -> (IF alt THEN a - b ELSE a + b) % WordMod
        [] funct3 = 1 -> (a % 2^(XLEN - sh)) * 2^sh
        [] funct3 = 2 -> Flag(Signed(a, WordMod) < Signed(b, WordMod))
        [] funct3 = 3 -> Flag(a < b)
        [] funct3 = 4 -> Value(SymDiff(Ones(a), Ones(b)))
        [] funct3 = 5 -> ((IF alt THEN Signed(a, WordMod) ELSE a) \div 2^sh) % WordMod
        [] funct3 = 6 -> Value(Ones(a) \cup Ones(b))
        [] funct3 = 7 -> Value(Ones(a) \cap Ones(b))

Taken(funct3, a, b) ==
  CASE funct3 = 0 -> a = b
    [] funct3 = 1 -> a # b
    [] funct3 = 4 -> Signed(a, WordMod) < Signed(b, WordMod)
    [] funct3 = 5 -> Signed(a, WordMod) >= Signed(b, WordMod)
    [] funct3 = 6 -> a < b
    [] funct3 = 7 -> a >= b

\* A vector register as eight bytes, and as elements of w bytes.
VByte(r, j)   == ByteOf(r[j \div 4 + 1], j % 4)
Pattern(r, w, i) == CASE w = 1 -> VByte(r, i)
                      [] w = 2 -> VByte(r, 2 * i) + ByteMod * VByte(r, 2 * i + 1)
                      [] w = 4 -> OfBytes([k \in 0 .. 3 |-> VByte(r, 4 * i + k)])
Elem(r, w, i) == Signed(Pattern(r, w, i), ByteMod^w)
Elems(w) == 0 .. (8 \div w) - 1
OfElems(e, w) ==
  LET byte(j) == ByteOf(e[j \div w] % ByteMod^w, j % w)
  IN  << OfBytes([j \in 0 .. 3 |-> byte(j)]), OfBytes([j \in 0 .. 3 |-> byte(j + 4)]) >>
Dot(r, s, w) ==
  LaneSum([i \in Elems(w) |-> (Elem(r, w, i) * Elem(s, w, i)) % WordMod], 8 \div w) % WordMod

SByte(a, i) == Signed(ByteOf(a, i), ByteMod)
PackedRef(funct7, a, b) ==
  LET p(i) == SByte(a, i) * SByte(b, i)
      pair(lo, hi) == (lo % HalfMod) + HalfMod * (hi % HalfMod)
  IN  CASE funct7 = 0 -> OfBytes([i \in 0 .. 3 |-> (SByte(a, i) + SByte(b, i)) % ByteMod])
        [] funct7 = 1 -> pair(p(0), p(1))
        [] funct7 = 2 -> (p(0) + p(1) + p(2) + p(3)) % WordMod
        [] funct7 = 3 -> pair(p(2), p(3))
=============================================================================
