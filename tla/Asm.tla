--------------------------------- MODULE Asm ---------------------------------
(***************************************************************************)
(* An assembler: the instruction formats as the RISC-V manual and the      *)
(* custom encodings of DESIGN_DECISIONS.md lay them out, from the operands *)
(* to the fields of the word.  It is the inverse the decoder is checked    *)
(* against, and it writes the programs of the runs.                        *)
(***************************************************************************)
EXTENDS Decoder

R(op, f7, b, a, f3, d) ==
  [opcode |-> op, rd |-> d, funct3 |-> f3, rs1 |-> a, rs2 |-> b, funct7 |-> f7]
\* The I, S, B and J formats, from a two's complement immediate.
I(op, imm, a, f3, d) == LET u == imm % 4096 IN R(op, u \div 32, u % 32, a, f3, d)
S(imm, b, a, f3)     == LET u == imm % 4096 IN R(STORE, u \div 32, b, a, f3, u % 32)
B(imm, b, a, f3) ==
  LET u == imm % 8192
  IN  R(BRANCH, (u \div 4096) * 64 + ((u \div 32) % 64), b, a, f3,
        ((u \div 2) % 16) * 2 + ((u \div 2048) % 2))
J(imm, d) ==
  LET u == imm % 2097152
  IN  R(JAL, (u \div 1048576) * 64 + ((u \div 32) % 64),
        ((u \div 2) % 16) * 2 + ((u \div 2048) % 2), (u \div 32768) % 32, (u \div 4096) % 8, d)
\* Vector instructions: operation, element width, vs2, vs1, vd.
VI(op, sew, b, a, d) == R(CUSTOM, sew * 32 + op, b, a, 2, d)
PV(op, b, a, d)      == R(CUSTOM, op, b, a, 1, d)
CTR(write, id, a, d) == R(CUSTOM, IF write THEN 64 ELSE 0, id, a, 0, d)
=============================================================================
