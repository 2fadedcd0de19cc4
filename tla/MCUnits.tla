------------------------------- MODULE MCUnits -------------------------------
(***************************************************************************)
(* The data paths of the core next to each other under its protocol: the   *)
(* decoder's immediates, the ALU, the vector ALU and the packed unit, on   *)
(* operands that reach the ends of every range.  Each is compared with a   *)
(* reference that knows nothing of lanes, adders or cycles.                *)
(***************************************************************************)
EXTENDS Valu, Vmac, Asm, UnitDriver, IsaArith

\* The decoder of a wider word, in which an immediate keeps all its bits.
Wide == INSTANCE Decoder WITH ShBits <- 4

\* An operation is one of the unit's, at one of its element widths, on
\* operands of its kind.
ASSUME RequestsAssumption ==
  \A r \in Warmups \cup Requests :
    /\ r.unit = "valu" => /\ r.op \in 0 .. 3 /\ r.sew \in 0 .. 2
                           /\ r.a \in VWord /\ r.b \in VWord
    /\ r.unit = "vmac" => r.op \in 0 .. 3 /\ r.a \in Word /\ r.b \in Word
    /\ r.unit = "alu" => r.a \in Word
    /\ r.unit = "decoder" => r.a \in -2048 .. 2047

Next == /\ DriverStep(IF req.unit = "valu" THEN valu_valid_out ELSE vmac_valid_out)
        /\ ValuStep(start("valu"), req.op, req.sew, req.a, req.b)
        /\ VmacStep(start("vmac"), req.op, req.a, req.b)
Init == ValuInit /\ VmacInit /\ DriverInit
Spec == Init /\ [][Next]_<< valuVars, vmacVars, driverVars >>

\* Narrow words whose lanes are, at one width or another, zero, the least,
\* the greatest and -1.
SampleWords == {0, 127, 128, 170, 27, 136}
SampleVectors == SampleWords \X SampleWords

Request(unit, op, sew, a, b) == [unit |-> unit, op |-> op, sew |-> sew, a |-> a, b |-> b]
MCWarmups == { Request("valu", OP_VMUL, SEW_8, << 170, 27 >>, << 27, 170 >>),
               Request("valu", OP_VMAC, SEW_32, << 128, 127 >>, << 127, 127 >>),
               Request("vmac", PVMAC, 0, 170, 27) }
MCRequests ==
  { Request("valu", op, sew, a, b) : op \in 0 .. 3, sew \in 0 .. 2,
                                     a \in SampleVectors, b \in SampleVectors }
  \cup { Request("vmac", op, 0, a, b) : op \in 0 .. 3, a \in Word,
                                        b \in {0, 27, 127, 128, 170, 255} }
  \cup { Request("alu", 0, 0, a, 0) : a \in Word }
  \cup { Request("decoder", 0, 0, n, 0) : n \in -2048 .. 2047 }

\* The packed operations one after another, on one pair of words.
PackedRequests == { Request("vmac", op, 0, 170, 27) : op \in 0 .. 3 }

-----------------------------------------------------------------------------

\* For every OP instruction the decoder's alu_ctrl and the shared adder and
\* shifter of alu.v give the architecture's result: the borrow and the two
\* signs decide SLT and SLTU at the ends of the range, and a shift keeps or
\* drops the sign as its kind says.
AluCorrect ==
  start("alu") =>
    \A op2 \in Word, funct3 \in 0 .. 7, alt \in BOOLEAN :
      (alt => funct3 \in {0, 5}) =>
        LET f == R(OP, IF alt THEN 32 ELSE 0, 2, 1, funct3, 3)
        IN  alu_out(req.a, op2, alu_control(f)) = AluRef(funct3, alt, req.a, op2)

\* Each immediate the decoder assembles (decoder_control.v:86-98) from the
\* scattered bits of the I, S, B and J formats is the one that was encoded,
\* sign included; n runs over the 12-bit immediates and, with the low bits,
\* over every branch and jump offset.
ImmediatesRight ==
  start("decoder") =>
    LET n == req.a
    IN  /\ Wide!immediate(I(OPIMM, n, 5, 3, 6)) = n % Wide!WordMod
        /\ Wide!immediate(S(n, 6, 5, 1)) = n % Wide!WordMod
        /\ Wide!immediate(B(2 * n, 6, 5, 1)) = (2 * n) % Wide!WordMod
        /\ \A k \in 0 .. 255 :
             Wide!immediate(J(2 * (256 * n + k), 6)) = (2 * (256 * n + k)) % Wide!WordMod

\* A completion pulse comes with the result the architecture defines, for
\* every operation and element width (valu.v:182-355): no lane is left out
\* or taken twice by the two multiplying cycles, no product keeps a stale
\* value of the operation before, and the sum wraps at 32 bits only.
ValuResultRight ==
  phase = "wait" /\ req.unit = "valu" /\ valu_valid_out =>
    LET w == 2^req.sew
        a(i) == Elem(req.a, w, i)
        b(i) == Elem(req.b, w, i)
    IN  valu_result = CASE req.op = OP_VADD -> OfElems([i \in Elems(w) |-> a(i) + b(i)], w)
                        [] req.op = OP_VSUB -> OfElems([i \in Elems(w) |-> a(i) - b(i)], w)
                        [] req.op = OP_VMUL -> OfElems([i \in Elems(w) |-> a(i) * b(i)], w)
                        [] req.op = OP_VMAC -> << Dot(req.a, req.b, w), 0 >>

\* The latencies of DESIGN_DECISIONS.md:96-104 and of the comments at
\* valu.v:183-202: one cycle for VADD and VSUB, three for byte products, two
\* for the wider ones; the pulse is neither early nor late, and none comes
\* while another unit works.
ValuLatency ==
  phase = "wait" =>
    LET documented == IF req.op \in {OP_VADD, OP_VSUB} THEN 1
                      ELSE IF req.sew = SEW_8 THEN 3 ELSE 2
    IN  valu_valid_out <=> req.unit = "valu" /\ age = documented

\* A completion pulse comes with the packed result the architecture defines
\* (vmac.v:62-134): the sign of every byte reaches its product and the sum,
\* and the two PVMULs take the lanes their names say.
VmacResultRight ==
  phase = "wait" /\ req.unit = "vmac" /\ vmac_valid_out =>
    vmac_result = PackedRef(req.op, req.a, req.b)

\* The latencies that the comments at vmac.v:62, 70 and 115 give PVADD and
\* the two PVMULs, and DESIGN_DECISIONS.md:101 PVMAC: one computing cycle for
\* PVADD, two for the products.  The pulse is neither early nor late, and no
\* pulse of the operation before or of this unit comes while another one
\* works.  The older figures of lab7_README.md are LabLatency.
VmacLatency ==
  phase = "wait" =>
    (vmac_valid_out <=> req.unit = "vmac" /\ age = (IF req.op = PVADD THEN 1 ELSE 2))

\* lab7_README.md:41-44 gives PVADD one cycle and PVMUL and PVMUL_UPPER four,
\* from the pulse that starts the unit to the one that ends it (vmac.v:61-131).
\* Its five cycles of PVMAC are struck out in DESIGN_DECISIONS.md:100.
LabLatency ==
  phase = "wait" /\ req.unit = "vmac" /\ vmac_valid_out /\ req.op # PVMAC =>
    age = (IF req.op = PVADD THEN 1 ELSE 4)
=============================================================================
