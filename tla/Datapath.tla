------------------------------- MODULE Datapath ------------------------------
(***************************************************************************)
(* What the two SIMD units compute within a cycle: the lanes of the vector *)
(* ALU (valu.v) and of the packed unit (vmac.v), without their registers,  *)
(* which the modules Valu and Vmac hold.                                   *)
(***************************************************************************)
EXTENDS Words

-----------------------------------------------------------------------------
(* The vector ALU: lanes of a byte, a half or a word in a pair of words *)

OP_VADD == 0
OP_VSUB == 1
OP_VMUL == 2
OP_VMAC == 3

SEW_8  == 0
SEW_16 == 1
SEW_32 == 2

\* Encoding 3 is no element width; where the adders need one they take 32.
LaneMod(sew)      == CASE sew = SEW_8 -> ByteMod [] sew = SEW_16 -> HalfMod [] OTHER -> WordMod
LanesPerWord(sew) == CASE sew = SEW_8 -> 4 [] sew = SEW_16 -> 2 [] OTHER -> 1
Lanes(sew)        == 0 .. 2 * LanesPerWord(sew) - 1

Lane(v, sew, i) ==
  (v[i \div LanesPerWord(sew) + 1] \div LaneMod(sew)^(i % LanesPerWord(sew))) % LaneMod(sew)

\* The pair of words whose lanes are lane[0], lane[1], ...
Pack(lane, sew) ==
  LET word(w) == CASE sew = SEW_8  -> OfBytes([k \in 0 .. 3 |-> lane[4 * w + k]])
                   [] sew = SEW_16 -> lane[2 * w] + HalfMod * lane[2 * w + 1]
                   [] OTHER        -> lane[w]
  IN  << word(0), word(1) >>

vadd_result(a, b, sew) ==
  Pack([i \in Lanes(sew) |-> (Lane(a, sew, i) + Lane(b, sew, i)) % LaneMod(sew)], sew)
vsub_result(a, b, sew) ==
  Pack([i \in Lanes(sew) |-> (Lane(a, sew, i) - Lane(b, sew, i)) % LaneMod(sew)], sew)

\* A product register: VMUL keeps the low lane, VMAC the signed product.
product(op, sew, a, b, i) ==
  LET p == Signed(Lane(a, sew, i), LaneMod(sew)) * Signed(Lane(b, sew, i), LaneMod(sew))
  IN  IF op = OP_VMUL THEN p % LaneMod(sew) ELSE p

\* The multiplying cycles of an operation, four lanes in each; first with
\* two lanes a cycle for halves.
mul_cycles_by_lanes(sew) == IF sew = SEW_32 THEN 1 ELSE 2
mul_cycles(sew) == IF sew = SEW_8 THEN 2 ELSE 1
\* The lanes of a cycle; first with every cycle on the low half.
multiplied_in_low_half(cycle, sew) == Lanes(sew) \cap (0 .. 3)
multiplied_in(cycle, sew) == Lanes(sew) \cap (4 * cycle .. 4 * cycle + 3)

\* VMUL packs the product registers, VMAC sums them into the low word.
packed_products(prod, op, sew) ==
  IF op = OP_VMUL
  THEN Pack(prod, sew)
  ELSE << LaneSum([i \in Lanes(sew) |-> prod[i] % WordMod], 2 * LanesPerWord(sew)) % WordMod, 0 >>

-----------------------------------------------------------------------------
(* The packed unit: four bytes in a word *)

PVADD == 0
PVMUL == 1
PVMAC == 2
PVMUL_UPPER == 3

\* a<i>_signed: byte i of a word, sign-extended to a half; first without
\* the sign.
byte_signed_no_sign(w, i) == ByteOf(w, i)
byte_signed(w, i) == Signed(ByteOf(w, i), ByteMod) % HalfMod

pvadd_result(a, b) ==
  OfBytes([i \in 0 .. 3 |-> ((byte_signed(a, i) + byte_signed(b, i)) % HalfMod) % ByteMod])

\* Which byte lanes a multiplying cycle takes, one per product register.
multiplied_lanes(ctrl) == CASE ctrl = PVMUL       -> << 0, 1 >>
                            [] ctrl = PVMAC       -> << 0, 1, 2, 3 >>
                            [] ctrl = PVMUL_UPPER -> << 2, 3 >>

mult_result(a, b, i) == (byte_signed(a, i) * byte_signed(b, i)) % HalfMod

\* PVMAC sums the four sign-extended products, PVMUL concatenates two.
gathered(m, ctrl) ==
  IF ctrl = PVMAC
  THEN (SignExtend(m[0], HalfMod) + SignExtend(m[1], HalfMod)
          + SignExtend(m[2], HalfMod) + SignExtend(m[3], HalfMod)) % WordMod
  ELSE m[0] + m[1] * HalfMod
=============================================================================
