-------------------------------- MODULE Words --------------------------------
(***************************************************************************)
(* The machine words of the core.  The core is 32 bits wide with 8-bit     *)
(* lanes; a check scales both down with ShBits, the width of a shift       *)
(* amount (5 in the Verilog sources), and keeps every ratio: a word is     *)
(* 2^ShBits bits, four bytes, two halves.  A word is the natural number    *)
(* its bits spell; a vector register is a pair of words, low word first.   *)
(***************************************************************************)
EXTENDS Integers, FiniteSetsExt

CONSTANT ShBits

ASSUME ShBitsAssumption == ShBits \in Nat /\ ShBits >= 3

XLEN == 2^ShBits
ByteBits == XLEN \div 4
ByteMod == 2^ByteBits
HalfMod == ByteMod * ByteMod
WordMod == HalfMod * HalfMod

\* The laws of powers the words rest on, which the provers lack.
ASSUME PowersAssumption ==
  /\ 2^0 = 1 /\ \A n \in 0 .. ShBits : 2^(n + 1) = 2 * 2^n
  /\ \A n \in 0 .. XLEN : 2^(n + 1) = 2 * 2^n
  /\ \A m \in {ByteMod, HalfMod, WordMod} : m^0 = 1 /\ m^1 = m
  /\ ByteMod^2 = HalfMod /\ ByteMod^3 = HalfMod * ByteMod /\ ByteMod^4 = WordMod

Byte == 0 .. ByteMod - 1
Word == 0 .. WordMod - 1
VWord == Word \X Word

\* The sums of the first n of the terms t[0] .. t[size - 1], for every n.
Sums(t, size) ==
  LET sum[n \in 0 .. size] == IF n = 0 THEN 0 ELSE sum[n - 1] + t[n - 1]
  IN  sum

\* One bit of a word, and the word spelled by a bit for every position.
Bit(w, i) == (w \div 2^i) % 2
Positions == 0 .. XLEN - 1
FromBits(b) == Sums([i \in Positions |-> b[i] * 2^i], XLEN)[XLEN]

Flag(p) == IF p THEN 1 ELSE 0

\* The Verilog bitwise operators on whole words.
BitNot(a)    == WordMod - 1 - a
BitAnd(a, b) == FromBits([i \in Positions |-> Bit(a, i) * Bit(b, i)])
BitOr(a, b)  == FromBits([i \in Positions |-> Flag(Bit(a, i) + Bit(b, i) > 0)])
BitXor(a, b) == FromBits([i \in Positions |-> (Bit(a, i) + Bit(b, i)) % 2])

\* Two's complement: the integer an unsigned pattern of modulus m stands
\* for, and a pattern of modulus m widened to a word with its sign.
Signed(x, m) == IF 2 * x < m THEN x ELSE x - m
SignExtend(x, m) == Signed(x, m) % WordMod

ByteOf(w, i) == (w \div ByteMod^i) % ByteMod
HalfOf(w, i) == (w \div HalfMod^i) % HalfMod

\* The word whose four byte lanes are b[0] .. b[3].
OfBytes(b) == b[0] + ByteMod * (b[1] + ByteMod * (b[2] + ByteMod * b[3]))

\* The sum of p[0] .. p[n - 1], for the two, four or eight lanes of a vector.
LaneSum(p, n) ==
  LET pair(k) == p[k] + p[k + 1]
      quad(k) == pair(k) + pair(k + 2)
  IN  CASE n = 2 -> pair(0) [] n = 4 -> quad(0) [] n = 8 -> quad(0) + quad(4)
=============================================================================
