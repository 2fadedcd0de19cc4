-------------------------------- MODULE MCTop --------------------------------
(***************************************************************************)
(* Instances of the system for model checking: a table of instructions and *)
(* the memory images built from it.                                        *)
(* A memory word below Len(InsnTable) encodes that row of the table; any   *)
(* other word is the all-zero instruction.                                 *)
(***************************************************************************)
EXTENDS TopIsa, Asm, Sequences

\* x1, x7 and x9 point at data, x10 at code, x4 at the device page and x5
\* at the two registers there that answer; x2 and x8 hold operands, x3 an
\* instruction.
MCRegs == [i \in 0 .. 31 |-> CASE i = 1 -> 32 [] i = 2 -> 39998 [] i = 3 -> 2
                              [] i = 4 -> 4096 [] i = 5 -> 4100 [] i = 7 -> 40 [] i = 8 -> 36721
                              [] i = 9 -> 48 [] i = 10 -> 20
                              [] OTHER -> 0]

MCRegInits == {MCRegs}

Halt   == J(0, 0)
Ebreak == I(SYSTEM, 1, 0, 0, 0)
AddiX2 == I(OPIMM, -3, 2, 0, 2)

\* Arithmetic on x2, x8 into x6.
Arith == << AddiX2, R(OP, 32, 8, 2, 0, 6), R(OP, 0, 3, 2, 1, 6), R(OP, 32, 3, 2, 5, 6),
            R(OP, 0, 8, 2, 2, 6), I(OPIMM, 1025, 2, 5, 6), I(OPIMM, -7, 8, 3, 6),
            R(OP, 0, 8, 2, 3, 6), R(OP, 0, 8, 2, 4, 6), R(OP, 0, 3, 2, 5, 6), R(OP, 0, 8, 2, 6, 6),
            R(OP, 0, 8, 2, 7, 6), I(OPIMM, 3, 2, 1, 6), I(OPIMM, -7, 8, 4, 6),
            R(LUI, 1, 3, 5, 4, 6), R(AUIPC, 0, 0, 2, 3, 6) >>
Control == << Ebreak, J(8, 6), I(JALR, 13, 0, 0, 6), B(8, 8, 2, 0), B(8, 2, 2, 0), B(8, 8, 2, 4),
              B(8, 1, 8, 7), B(8, 8, 2, 1), B(8, 2, 8, 4), B(8, 8, 2, 5), B(8, 2, 8, 6) >>
\* Loads and stores of every width around x1, of the code itself (the word
\* stored, x3, encodes an instruction of the table) and of the device page.
Memory == << I(LOAD, 3, 1, 0, 2), I(LOAD, 1, 1, 4, 6), I(LOAD, 2, 1, 1, 6), I(LOAD, 3, 7, 5, 6),
             I(LOAD, 4, 1, 2, 8), S(1, 2, 1, 0), S(2, 8, 7, 1), S(4, 2, 1, 2), S(12, 3, 0, 2),
             S(4, 3, 0, 2), S(4, 2, 4, 2), I(LOAD, 0, 4, 4, 6), I(LOAD, 8, 4, 4, 6),
             S(0, 2, 4, 2) >>
Packs == << PV(0, 8, 2, 6), PV(1, 8, 2, 2), PV(2, 8, 2, 6), PV(3, 8, 2, 6) >>
\* A counter write that names a destination register.
CtrWriteRd == CTR(TRUE, 3, 2, 6)
Counters == << CTR(FALSE, 0, 0, 6), CTR(FALSE, 1, 0, 2), CTR(FALSE, 2, 0, 6), CTR(FALSE, 3, 0, 6),
               CTR(TRUE, 0, 3, 0), CTR(TRUE, 1, 3, 0), CtrWriteRd >>
\* CSRRW x0, mepc, x2; CSRRS x6, mepc, x0; CSRRW x0, mtvec, x2.
Csrs == << I(SYSTEM, 833, 2, 1, 0), I(SYSTEM, 833, 0, 2, 6), I(SYSTEM, 773, 2, 1, 0) >>
Reserved == << R(OP, 1, 8, 2, 0, 6), PV(9, 8, 2, 6), R(11, 0, 8, 2, 0, 6), B(8, 8, 2, 2),
               VI(2, 3, 2, 1, 3), VI(8, 0, 2, 1, 3), VI(9, 0, 2, 1, 3), R(CUSTOM, 0, 1, 1, 5, 2) >>
VectorLoads == << VI(4, 0, 0, 1, 1), VI(4, 0, 0, 7, 2) >>
VectorOps == << VI(0, 0, 2, 1, 3), VI(0, 1, 2, 1, 3), VI(0, 2, 2, 1, 3),
                VI(1, 0, 2, 1, 3), VI(1, 1, 2, 1, 3), VI(1, 2, 2, 1, 3),
                VI(2, 0, 2, 1, 3), VI(2, 1, 2, 1, 3), VI(2, 2, 2, 1, 3),
                VI(3, 0, 2, 1, 6), VI(3, 1, 2, 1, 6), VI(3, 2, 2, 1, 6) >>
\* Vector accesses of data, across the end of memory, of the device page
\* and of the code still to be run.
VectorMem == << VI(5, 0, 3, 7, 0), VI(4, 0, 0, 2, 3), VI(5, 0, 2, 4, 0), VI(4, 0, 0, 9, 3),
                VI(5, 0, 3, 10, 0), VI(4, 0, 0, 5, 3), VI(4, 0, 0, 4, 3) >>

\* Row 2, which x3 holds, is ADDI x2, x2, -3.
InsnTable == << Halt >> \o Arith \o Control \o Memory \o Packs \o Counters \o Reserved
               \o VectorLoads \o VectorOps \o VectorMem \o Csrs \o << J(4, 6) >>

\* The words that encode the instructions of a group.
Encoded(group) == { n \in DOMAIN InsnTable : \E i \in DOMAIN group : InsnTable[n] = group[i] }
MCFields(w) == IF w \in DOMAIN InsnTable THEN InsnTable[w] ELSE R(0, 0, 0, 0, 0, 0)

\* A program, then Halt up to the data; words 12 and 13 encode instructions.
Image(p) == [a \in 0 .. 15 |-> CASE a < Len(p)        -> p[a + 1]
                                [] a \in Len(p) .. 7 -> 1
                                [] a = 8  -> 36721 [] a = 9  -> 31273
                                [] a = 10 -> 63715 [] a = 11 -> 7552
                                [] a = 12 -> 2     [] a = 13 -> 3
                                [] OTHER  -> 0]

\* Every pair of scalar instructions, and every pair of instructions after
\* two vector loads one of which uses a vector unit.
IsaPrograms ==
  LET scalar == Encoded(Arith \o Control \o Memory \o Packs \o Counters \o Csrs)
      vector == Encoded(VectorOps \o VectorMem \o Reserved)
      after  == Encoded(VectorOps \o VectorMem \o Packs \o Counters \o Memory)
      load1  == Encoded(<< VectorLoads[1] >>)
      load2  == Encoded(<< VectorLoads[2] >>)
      stop   == Encoded(<< Ebreak >>)
  IN  { Image(<< a, b, c >>) : a \in scalar, b \in scalar, c \in stop }
        \cup { Image(<< a, b, c, d, e >>) : a \in load1, b \in load2, c \in vector,
                                          d \in after, e \in stop }

\* One instruction for every way through EXEC and MEM, and the vector codes
\* that start the vector ALU without naming an operation or a width of it.
UnitInsns == << R(OP, 32, 8, 2, 0, 6), J(4, 6), I(LOAD, 4, 1, 2, 8), S(4, 2, 1, 2), PV(0, 8, 2, 6),
                PV(2, 8, 2, 6), CTR(FALSE, 1, 0, 2), VI(4, 0, 0, 1, 1), VI(5, 0, 3, 7, 0),
                VI(0, 0, 2, 1, 3), VI(2, 0, 2, 1, 3), VI(3, 1, 2, 1, 6), I(LOAD, 0, 4, 4, 6),
                VI(2, 3, 2, 1, 3), VI(8, 0, 2, 1, 3), VI(9, 0, 2, 1, 3) >>
\* The device page: a byte sent, registers stored to and loaded, by the
\* vector unit too.
PageInsns == << S(0, 2, 4, 2), S(4, 2, 4, 2), I(LOAD, 8, 4, 4, 6), I(LOAD, 0, 4, 4, 6),
                VI(5, 0, 2, 4, 0), VI(4, 0, 0, 5, 3), VI(4, 0, 0, 4, 3), I(LOAD, 4, 1, 2, 8) >>
\* Any two of both, and any two of the second after a byte is sent, while
\* the transmitter is still busy with it.
ControlPrograms ==
  LET any  == Encoded(UnitInsns \o PageInsns)
      page == Encoded(PageInsns)
      send == Encoded(<< S(0, 2, 4, 2) >>)
  IN  { Image(<< a, b >>) : a \in any, b \in any }
        \cup { Image(<< a, b, c >>) : a \in send, b \in page, c \in page }
=============================================================================
