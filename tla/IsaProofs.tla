------------------------------- MODULE IsaProofs -----------------------------
(***************************************************************************)
(* The system implements the instruction set, for every program, every     *)
(* content of the register file and every word and memory size.            *)
(***************************************************************************)
EXTENDS TopIsa, TopProofs

-----------------------------------------------------------------------------
(* The instruction set's operators *)

\* The instruction set is an instance of its module; what the instance calls
\* a word, a field or a reference result is what the core's modules do.
LEMMA IsaWords ==
  /\ ISA!WordMod = WordMod /\ ISA!HalfMod = HalfMod /\ ISA!ByteMod = ByteMod
  /\ ISA!Word = Word /\ ISA!VWord = VWord /\ ISA!XLEN = XLEN
  BY DEF ISA!WordMod, ISA!HalfMod, ISA!ByteMod, ISA!ByteBits, ISA!XLEN, ISA!Word, ISA!VWord,
         WordMod, HalfMod, ByteMod, ByteBits, XLEN, Word, VWord

\* The opcodes are the same.
LEMMA IsaOpcodes ==
  /\ ISA!LOAD = LOAD /\ ISA!OPIMM = OPIMM /\ ISA!AUIPC = AUIPC /\ ISA!STORE = STORE
  /\ ISA!OP = OP /\ ISA!LUI = LUI /\ ISA!CUSTOM = CUSTOM /\ ISA!BRANCH = BRANCH
  /\ ISA!JALR = JALR /\ ISA!JAL = JAL /\ ISA!SYSTEM = SYSTEM
  BY DEF ISA!LOAD, ISA!OPIMM, ISA!AUIPC, ISA!STORE, ISA!OP, ISA!LUI, ISA!CUSTOM, ISA!BRANCH,
         ISA!JALR, ISA!JAL, ISA!SYSTEM, LOAD, OPIMM, AUIPC, STORE, OP, LUI, CUSTOM, BRANCH, JALR,
         JAL, SYSTEM

\* So are the three kinds of custom instruction and the vector operations.
LEMMA IsaKinds ==
  ASSUME NEW g
  PROVE  /\ ISA!is_vmac_type(g) <=> is_vmac_type(g)
         /\ ISA!is_vec_type(g) <=> is_vec_type(g)
         /\ ISA!is_rdwrctr_type(g) <=> is_rdwrctr_type(g)
         /\ ISA!vop(g) = vop(g)
         /\ ISA!VOP_VADD = VOP_VADD /\ ISA!VOP_VSUB = VOP_VSUB /\ ISA!VOP_VMUL = VOP_VMUL
         /\ ISA!VOP_VMAC = VOP_VMAC /\ ISA!VOP_VLD = VOP_VLD /\ ISA!VOP_VST = VOP_VST
         /\ ISA!VOP_VMOV_S2V = VOP_VMOV_S2V
  BY DEF ISA!is_vmac_type, ISA!is_vec_type, ISA!is_rdwrctr_type, ISA!vop, ISA!CUSTOM,
         ISA!VOP_VADD, ISA!VOP_VSUB, ISA!VOP_VMUL, ISA!VOP_VMAC, ISA!VOP_VLD, ISA!VOP_VST,
         ISA!VOP_VMOV_S2V, is_vmac_type, is_vec_type, is_rdwrctr_type, vop, CUSTOM,
         VOP_VADD, VOP_VSUB, VOP_VMUL, VOP_VMAC, VOP_VLD, VOP_VST, VOP_VMOV_S2V

\* So is the reading of a word as signed.
LEMMA IsaExtends ==
  ASSUME NEW n, NEW k
  PROVE  ISA!Signed(n, k) = Signed(n, k) /\ ISA!SignExtend(n, k) = SignExtend(n, k)
  BY IsaWords DEF ISA!Signed, ISA!SignExtend, Signed, SignExtend

\* So are the five immediates, the bits of the instruction put in order.
LEMMA IsaImmediates ==
  ASSUME NEW g
  PROVE  /\ ISA!imm_i(g) = imm_i(g) /\ ISA!imm_s(g) = imm_s(g) /\ ISA!imm_b(g) = imm_b(g)
         /\ ISA!imm_u(g) = imm_u(g) /\ ISA!imm_j(g) = imm_j(g)
  BY IsaWords, IsaExtends DEF ISA!imm_i, ISA!imm_s, ISA!imm_b, ISA!imm_u, ISA!imm_j,
         imm_i, imm_s, imm_b, imm_u, imm_j

\* So are the bytes and the bits of a word.
LEMMA IsaBytes ==
  ASSUME NEW w, NEW i
  PROVE  ISA!ByteOf(w, i) = ByteOf(w, i) /\ ISA!OfBytes(w) = OfBytes(w) /\ ISA!Bit(w, i) = Bit(w, i)
  BY IsaWords DEF ISA!ByteOf, ISA!OfBytes, ISA!Bit, ByteOf, OfBytes, Bit

\* So is the word some bits spell.
LEMMA IsaBits ==
  ASSUME NEW w
  PROVE  ISA!FromBits(w) = FromBits(w) /\ ISA!Flag(w) = Flag(w) /\ ISA!Positions = Positions
  BY DEF ISA!FromBits, ISA!Sums, ISA!Positions, ISA!XLEN, ISA!Flag,
         FromBits, Sums, Positions, XLEN, Flag

\* So is the reference of the ten scalar operations.
LEMMA IsaAlu ==
  ASSUME NEW funct3, NEW alt, NEW a, NEW b
  PROVE  ISA!AluRef(funct3, alt, a, b) = AluRef(funct3, alt, a, b)
  BY DEF ISA!AluRef, ISA!Value, ISA!Ones, ISA!FromBits, ISA!Sums, ISA!Positions, ISA!XLEN, ISA!Flag,
         ISA!Bit, ISA!Signed, ISA!WordMod, ISA!HalfMod, ISA!ByteMod, ISA!ByteBits, ISA!SymDiff,
         AluRef, Value, Ones, FromBits, Sums, Positions, XLEN, Flag,
         Bit, Signed, WordMod, HalfMod, ByteMod, ByteBits, SymDiff

\* So is the reference of the branch conditions.
LEMMA IsaBranches ==
  ASSUME NEW funct3, NEW a, NEW b
  PROVE  ISA!Taken(funct3, a, b) = Taken(funct3, a, b)
  BY DEF ISA!Taken, ISA!Signed, ISA!WordMod, ISA!HalfMod, ISA!ByteMod, ISA!ByteBits, ISA!XLEN,
         Taken, Signed, WordMod, HalfMod, ByteMod, ByteBits, XLEN

\* So is the reference of the packed operations.
LEMMA IsaPacked ==
  ASSUME NEW funct7, NEW a, NEW b
  PROVE  ISA!PackedRef(funct7, a, b) = PackedRef(funct7, a, b)
  BY DEF ISA!PackedRef, ISA!SByte, ISA!ByteOf, ISA!OfBytes, ISA!Signed, ISA!WordMod, ISA!HalfMod,
         ISA!ByteMod, ISA!ByteBits, ISA!XLEN,
         PackedRef, SByte, ByteOf, OfBytes, Signed, WordMod, HalfMod, ByteMod, ByteBits, XLEN

\* So are the elements of a vector, the vector of some elements and the dot
\* product.
LEMMA IsaVectors ==
  ASSUME NEW r, NEW s, NEW w, NEW i, NEW e
  PROVE  /\ ISA!Elem(r, w, i) = Elem(r, w, i) /\ ISA!Elems(w) = Elems(w)
         /\ ISA!OfElems(e, w) = OfElems(e, w) /\ ISA!Dot(r, s, w) = Dot(r, s, w)
  BY DEF ISA!Elem, ISA!Elems, ISA!OfElems, ISA!Dot, ISA!Pattern, ISA!VByte, ISA!LaneSum,
         ISA!ByteOf, ISA!OfBytes, ISA!Signed, ISA!WordMod, ISA!HalfMod,
         ISA!ByteMod, ISA!ByteBits, ISA!XLEN,
         Elem, Elems, OfElems, Dot, Pattern, VByte, LaneSum,
         ByteOf, OfBytes, Signed, WordMod, HalfMod, ByteMod, ByteBits, XLEN
-----------------------------------------------------------------------------
(* The instructions, in the core's terms *)

\* The instruction the program is at, its operands, and what it does to the
\* state of the program.
Current == Fields(isa_m[word_index(isa_pc)])
Operand(i) == IF i = 0 THEN 0 ELSE isa_x[i]
OperandV(i) == IF i = 0 THEN << 0, 0 >> ELSE isa_v[i]
Writes(rd, val) == isa_x' = IF rd = 0 THEN isa_x ELSE [isa_x EXCEPT ![rd] = val]
WritesV(rd, val) == isa_v' = IF rd = 0 THEN isa_v ELSE [isa_v EXCEPT ![rd] = val]
GoesTo(target) == isa_pc' = target % WordMod
CountsUp(id) ==
  isa_count' = [i \in 1 .. 3 |-> (isa_count[i] + (IF i \in {1, id} THEN 1 ELSE 0)) % CtrMod]

\* The program's registers are words.
ProgramTyped == /\ isa_x \in [0 .. 31 -> Word] /\ isa_v \in [0 .. 31 -> VWord]
                /\ Current \in Insn

\* What an instruction reads.
LEMMA IsaReads ==
  /\ ISA!f = Current
  /\ \A i : ISA!X(i) = Operand(i) /\ ISA!V(i) = OperandV(i)
  /\ \A a : ISA!Index(a) = word_index(a)
  BY DEF ISA!f, ISA!X, ISA!V, ISA!Index, Current, Operand, OperandV, word_index

\* What an instruction writes to its destination; register 0 stays zero.
LEMMA IsaWrites ==
  ASSUME NEW val
  PROVE  /\ Writes(Current.rd, val) => ISA!Sets(val)
         /\ WritesV(Current.rd, val) => ISA!SetsV(val)
         /\ ProgramTyped /\ val \in Word /\ Writes(Current.rd, val) => ISA!SetsAny
         /\ ProgramTyped /\ val \in VWord /\ WritesV(Current.rd, val) => ISA!SetsAnyV
  <1>1. /\ Writes(Current.rd, val) => ISA!Sets(val)
        /\ WritesV(Current.rd, val) => ISA!SetsV(val)
    BY IsaReads DEF ISA!Sets, ISA!SetsV, Writes, WritesV
  <1>2. ASSUME ProgramTyped, val \in Word, Writes(Current.rd, val) PROVE ISA!SetsAny
    <2>1. Current.rd \in 0 .. 31
      BY <1>2 DEF ProgramTyped, Insn
    <2>2. isa_x'[Current.rd] \in Word
      BY <1>2, <2>1 DEF Writes, ProgramTyped
    <2>3. Writes(Current.rd, isa_x'[Current.rd])
      BY <1>2, <2>1 DEF Writes, ProgramTyped
    <2> QED
      BY <2>2, <2>3, IsaReads, IsaWords DEF ISA!SetsAny, ISA!Sets, Writes
  <1>3. ASSUME ProgramTyped, val \in VWord, WritesV(Current.rd, val) PROVE ISA!SetsAnyV
    <2>1. Current.rd \in 0 .. 31
      BY <1>3 DEF ProgramTyped, Insn
    <2>2. isa_v'[Current.rd] \in VWord
      BY <1>3, <2>1 DEF WritesV, ProgramTyped
    <2>3. WritesV(Current.rd, isa_v'[Current.rd])
      BY <1>3, <2>1 DEF WritesV, ProgramTyped
    <2> QED
      BY <2>2, <2>3, IsaReads, IsaWords DEF ISA!SetsAnyV, ISA!SetsV, WritesV
  <1> QED
    BY <1>1, <1>2, <1>3

\* Where an instruction goes, and what it counts.
LEMMA IsaMoves ==
  ASSUME NEW offset, NEW id
  PROVE  /\ ISA!Step4 <=> GoesTo(isa_pc + 4)
         /\ ISA!Jump(offset) <=> GoesTo(isa_pc + offset)
         /\ ISA!Counts(id) <=> CountsUp(id)
  <1>1. DOMAIN isa_count = 1 .. 3
    BY DEF isa_count
  <1> QED
    BY <1>1, IsaWords DEF ISA!Step4, ISA!Jump, ISA!Counts, GoesTo, CountsUp

\* The registers the core's instructions leave alone.
KeepsAll == isa_v' = isa_v /\ isa_m' = isa_m /\ isa_brk' = isa_brk

\* When OP and OP-IMM are one of the ten operations, and which.
OpDefined(g) ==
  IF g.opcode = OP THEN g.funct7 = 0 \/ (g.funct7 = 32 /\ g.funct3 \in {0, 5})
  ELSE g.funct3 # 5 \/ g.funct7 \in {0, 32}
OpAlt(g) == g.funct7 = 32 /\ (g.opcode = OP \/ g.funct3 = 5)

\* Each of the next lemmas is one action of the instruction set: a change of
\* the program's state that meets these conditions is a step of it.  Here the
\* computations on registers and immediates.
LEMMA DoesComputational ==
  ASSUME ProgramTyped, NEW g, g = Current, g.opcode \in {OP, OPIMM, LUI, AUIPC},
         NEW val \in Word, Writes(g.rd, val),
         g.opcode = LUI => val = imm_u(g),
         g.opcode = AUIPC => val = (isa_pc + imm_u(g)) % WordMod,
         g.opcode = OP /\ OpDefined(g) =>
           val = AluRef(g.funct3, OpAlt(g), Operand(g.rs1), Operand(g.rs2)),
         g.opcode = OPIMM /\ OpDefined(g) =>
           val = AluRef(g.funct3, OpAlt(g), Operand(g.rs1), imm_i(g)),
         GoesTo(isa_pc + 4), CountsUp(1), KeepsAll
  PROVE  ISA!Next
  <1>1. ISA!Sets(val) /\ ISA!SetsAny /\ ISA!Step4 /\ ISA!Counts(1)
    BY IsaWrites, IsaMoves
  <1>2. ISA!f = g /\ \A i : ISA!X(i) = Operand(i)
    BY IsaReads
  <1>3. ISA!imm_u(g) = imm_u(g) /\ ISA!imm_i(g) = imm_i(g) /\ ISA!WordMod = WordMod
    BY IsaImmediates, IsaWords
  <1>4. \A a, b : ISA!AluRef(g.funct3, OpAlt(g), a, b) = AluRef(g.funct3, OpAlt(g), a, b)
    BY IsaAlu
  <1>5. OP # OPIMM /\ OP # LUI /\ OP # AUIPC /\ OPIMM # LUI /\ OPIMM # AUIPC /\ LUI # AUIPC
    BY DEF OP, OPIMM, LUI, AUIPC
  <1>6. ISA!Computational
    <2>1. CASE g.opcode = LUI
      BY <1>1, <1>2, <1>3, <1>5, <2>1, IsaOpcodes DEF ISA!Computational, KeepsAll
    <2>2. CASE g.opcode = AUIPC
      BY <1>1, <1>2, <1>3, <1>5, <2>2, IsaOpcodes DEF ISA!Computational, KeepsAll
    <2>3. CASE g.opcode = OP
      BY <1>1, <1>2, <1>3, <1>4, <1>5, <2>3, IsaOpcodes DEF ISA!Computational, KeepsAll, OpDefined, OpAlt
    <2>4. CASE g.opcode = OPIMM
      BY <1>1, <1>2, <1>3, <1>4, <1>5, <2>4, IsaOpcodes DEF ISA!Computational, KeepsAll, OpDefined, OpAlt
    <2> QED
      BY <2>1, <2>2, <2>3, <2>4
  <1> QED
    BY <1>6 DEF ISA!Next

\* Branches; an undefined condition may go either way.
LEMMA DoesBranch ==
  ASSUME NEW g, g = Current, g.opcode = BRANCH,
         g.funct3 \in {2, 3} => GoesTo(isa_pc + imm_b(g)) \/ GoesTo(isa_pc + 4),
         g.funct3 \notin {2, 3} => GoesTo(IF Taken(g.funct3, Operand(g.rs1), Operand(g.rs2))
                                          THEN isa_pc + imm_b(g) ELSE isa_pc + 4),
         isa_x' = isa_x, CountsUp(1), KeepsAll
  PROVE  ISA!Next
  <1>1. /\ ISA!Step4 <=> GoesTo(isa_pc + 4)
        /\ ISA!Jump(ISA!imm_b(g)) <=> GoesTo(isa_pc + imm_b(g))
        /\ ISA!Counts(1)
    BY IsaMoves, IsaImmediates
  <1>2. ISA!f = g /\ \A i : ISA!X(i) = Operand(i)
    BY IsaReads
  <1>3. ISA!Taken(g.funct3, Operand(g.rs1), Operand(g.rs2))
          = Taken(g.funct3, Operand(g.rs1), Operand(g.rs2))
    BY IsaBranches
  <1>4. ISA!Branch
    BY <1>1, <1>2, <1>3, IsaOpcodes DEF ISA!Branch, KeepsAll
  <1> QED
    BY <1>4 DEF ISA!Next

\* Jumps, which leave the return address.
LEMMA DoesJump ==
  ASSUME NEW g, g = Current, g.opcode \in {JAL, JALR},
         Writes(g.rd, (isa_pc + 4) % WordMod),
         g.opcode = JAL => GoesTo(isa_pc + imm_j(g)),
         g.opcode = JALR => LET t == (Operand(g.rs1) + imm_i(g)) % WordMod IN isa_pc' = t - (t % 2),
         CountsUp(1), KeepsAll
  PROVE  ISA!Next
  <1>1. /\ ISA!Jump(ISA!imm_j(g)) <=> GoesTo(isa_pc + imm_j(g))
        /\ ISA!Sets((isa_pc + 4) % WordMod) /\ ISA!Counts(1)
    BY IsaMoves, IsaImmediates, IsaWrites
  <1>2. ISA!f = g /\ \A i : ISA!X(i) = Operand(i)
    BY IsaReads
  <1>3. ISA!imm_i(g) = imm_i(g) /\ ISA!WordMod = WordMod
    BY IsaImmediates, IsaWords
  <1>4. ISA!Jumps
    BY <1>1, <1>2, <1>3, IsaOpcodes DEF ISA!Jumps, KeepsAll
  <1> QED
    BY <1>4 DEF ISA!Next

\* The bytes of a memory word an access of n bytes at an address takes.
SizeOf(funct3) == CASE funct3 % 4 = 0 -> 1 [] funct3 % 4 = 1 -> 2 [] OTHER -> 4
FirstLane(a, n) == (a - (a % n)) % 4
BytesOf(w, a, n) == OfBytes([i \in 0 .. 3 |-> IF i < n THEN ByteOf(w, FirstLane(a, n) + i) ELSE 0])
Stored(w, a, n, val) ==
  OfBytes([i \in 0 .. 3 |-> IF i \in FirstLane(a, n) .. FirstLane(a, n) + n - 1
                            THEN ByteOf(val, i - FirstLane(a, n)) ELSE ByteOf(w, i)])

\* How many bytes an access moves.
LEMMA IsaSize ==
  ASSUME NEW funct3
  PROVE  ISA!Size(funct3) = SizeOf(funct3)
  BY DEF ISA!Size, SizeOf

\* What a load takes from memory.
LEMMA IsaLoads ==
  ASSUME NEW mm, NEW a, NEW n
  PROVE  ISA!BytesAt(mm, a, n) = BytesOf(mm[word_index(a)], a, n)
  BY IsaReads, IsaBytes DEF ISA!BytesAt, BytesOf, FirstLane

\* What a store leaves in memory.
LEMMA IsaStores ==
  ASSUME NEW mm, NEW a, NEW n, NEW val
  PROVE  ISA!StoreAt(mm, a, n, val)
           = [mm EXCEPT ![word_index(a)] = Stored(mm[word_index(a)], a, n, val)]
  BY IsaReads, IsaBytes DEF ISA!StoreAt, Stored, FirstLane

\* Loads; a load from the device page may return anything.
LEMMA DoesLoad ==
  ASSUME ProgramTyped, NEW g, g = Current, g.opcode = LOAD, NEW val \in Word, Writes(g.rd, val),
         NEW a, a = (Operand(g.rs1) + imm_i(g)) % WordMod,
         ~is_uart(a) =>
           LET n == SizeOf(g.funct3)
               raw == BytesOf(isa_m[word_index(a)], a, n)
           IN  val = IF g.funct3 < 4 THEN SignExtend(raw, ByteMod^n) ELSE raw,
         GoesTo(isa_pc + 4), CountsUp(2), KeepsAll
  PROVE  ISA!Next
  <1>1. ISA!Sets(val) /\ ISA!SetsAny /\ ISA!Step4 /\ ISA!Counts(2)
    BY IsaWrites, IsaMoves
  <1>2. ISA!f = g /\ ISA!X(g.rs1) = Operand(g.rs1)
    BY IsaReads
  <1>3. ISA!imm_i(g) = imm_i(g) /\ ISA!WordMod = WordMod /\ ISA!ByteMod = ByteMod
    BY IsaImmediates, IsaWords
  <1>4. ISA!Size(g.funct3) = SizeOf(g.funct3)
    BY IsaSize
  <1>5. ISA!BytesAt(isa_m, a, SizeOf(g.funct3)) = BytesOf(isa_m[word_index(a)], a, SizeOf(g.funct3))
    BY IsaLoads
  <1>6. \A n, k : ISA!SignExtend(n, k) = SignExtend(n, k)
    BY IsaExtends
  <1>7. ISA!Load
    BY <1>1, <1>2, <1>3, <1>4, <1>5, <1>6, IsaOpcodes DEF ISA!Load, KeepsAll, is_uart
  <1> QED
    BY <1>7 DEF ISA!Next

\* Stores.
LEMMA DoesStore ==
  ASSUME NEW g, g = Current, g.opcode = STORE, NEW a, a = (Operand(g.rs1) + imm_s(g)) % WordMod,
         isa_m' = [isa_m EXCEPT ![word_index(a)] =
                     Stored(isa_m[word_index(a)], a, SizeOf(g.funct3), Operand(g.rs2))],
         isa_x' = isa_x, isa_v' = isa_v, isa_brk' = isa_brk,
         GoesTo(isa_pc + 4), CountsUp(3)
  PROVE  ISA!Next
  <1>1. ISA!Step4 /\ ISA!Counts(3)
    BY IsaMoves
  <1>2. ISA!f = g /\ \A i : ISA!X(i) = Operand(i)
    BY IsaReads
  <1>3. ISA!imm_s(g) = imm_s(g) /\ ISA!WordMod = WordMod
    BY IsaImmediates, IsaWords
  <1>4. ISA!Size(g.funct3) = SizeOf(g.funct3)
    BY IsaSize
  <1>5. ISA!StoreAt(isa_m, a, SizeOf(g.funct3), Operand(g.rs2)) = isa_m'
    BY IsaStores
  <1>6. ISA!Store
    BY <1>1, <1>2, <1>3, <1>4, <1>5, IsaOpcodes DEF ISA!Store
  <1> QED
    BY <1>6 DEF ISA!Next

\* Operations on packed words; a reserved one may write anything.
LEMMA DoesPacked ==
  ASSUME ProgramTyped, NEW g, g = Current, is_vmac_type(g), NEW val \in Word, Writes(g.rd, val),
         g.funct7 <= 3 => val = PackedRef(g.funct7, Operand(g.rs1), Operand(g.rs2)),
         GoesTo(isa_pc + 4), CountsUp(1), KeepsAll
  PROVE  ISA!Next
  <1>1. ISA!Sets(val) /\ ISA!SetsAny /\ ISA!Step4 /\ ISA!Counts(1)
    BY IsaWrites, IsaMoves
  <1>2. ISA!f = g /\ \A i : ISA!X(i) = Operand(i)
    BY IsaReads
  <1>3. ISA!PackedRef(g.funct7, Operand(g.rs1), Operand(g.rs2))
          = PackedRef(g.funct7, Operand(g.rs1), Operand(g.rs2))
    BY IsaPacked
  <1>4. ISA!Packed
    BY <1>1, <1>2, <1>3, IsaKinds DEF ISA!Packed, KeepsAll
  <1> QED
    BY <1>4 DEF ISA!Next

\* Vector arithmetic at element widths 1, 2 and 4; the reserved width may
\* write anything.
LEMMA DoesVectorArith ==
  ASSUME ProgramTyped, NEW g, g = Current, is_vec_type(g), vop(g) \in 0 .. 3,
         NEW w, w = 2^(g.funct7 \div 32),
         NEW ref, ref = ValuRef(vop(g), g.funct7 \div 32, OperandV(g.rs1), OperandV(g.rs2)),
         NEW val \in VWord, w # 8 => val = ref,
         vop(g) = VOP_VMAC => Writes(g.rd, val[1]) /\ isa_v' = isa_v,
         vop(g) # VOP_VMAC => WritesV(g.rd, val) /\ isa_x' = isa_x,
         GoesTo(isa_pc + 4), CountsUp(1), isa_m' = isa_m, isa_brk' = isa_brk
  PROVE  ISA!Next
  <1>1. ISA!Step4 /\ ISA!Counts(1)
    BY IsaMoves
  <1>2. ISA!f = g /\ \A i : ISA!V(i) = OperandV(i)
    BY IsaReads
  <1>3. val[1] \in Word
    BY DEF VWord
  <1>4. /\ ISA!is_vec_type(g) /\ ISA!vop(g) = vop(g)
        /\ ISA!VOP_VADD = 0 /\ ISA!VOP_VSUB = 1 /\ ISA!VOP_VMUL = 2 /\ ISA!VOP_VMAC = 3
        /\ VOP_VMAC = 3
    BY IsaKinds DEF VOP_VADD, VOP_VSUB, VOP_VMUL, VOP_VMAC
  <1> DEFINE a == OperandV(g.rs1)
             b == OperandV(g.rs2)
  <1>5. \A r, i : ISA!Elem(r, w, i) = Elem(r, w, i)
    BY IsaVectors
  <1>6. \A e : ISA!OfElems(e, w) = OfElems(e, w)
    BY IsaVectors
  <1>7. ISA!Elems(w) = Elems(w) /\ ISA!Dot(a, b, w) = Dot(a, b, w)
    BY IsaVectors
  <1>8. /\ vop(g) = 0 => ref = OfElems([i \in Elems(w) |-> Elem(a, w, i) + Elem(b, w, i)], w)
        /\ vop(g) = 1 => ref = OfElems([i \in Elems(w) |-> Elem(a, w, i) - Elem(b, w, i)], w)
        /\ vop(g) = 2 => ref = OfElems([i \in Elems(w) |-> Elem(a, w, i) * Elem(b, w, i)], w)
        /\ vop(g) = 3 => ref = << Dot(a, b, w), 0 >>
    BY DEF ValuRef, OP_VADD, OP_VSUB, OP_VMUL, OP_VMAC
  <1>9. CASE vop(g) = 3
    <2>1. ISA!Sets(val[1]) /\ ISA!SetsAny /\ isa_v' = isa_v
      BY <1>3, <1>4, <1>9, IsaWrites
    <2>2. w # 8 => val[1] = Dot(a, b, w)
      BY <1>8, <1>9
    <2>3. ISA!VectorArith
      BY <1>1, <1>2, <1>4, <1>7, <1>9, <2>1, <2>2 DEF ISA!VectorArith
    <2> QED
      BY <2>3 DEF ISA!Next
  <1>10. CASE vop(g) # 3
    <2>1. ISA!SetsV(val) /\ ISA!SetsAnyV /\ isa_x' = isa_x
      BY <1>4, <1>10, IsaWrites
    <2>2. vop(g) \in {0, 1, 2} /\ vop(g) <= 3
      BY <1>10
    <2>3. ISA!VectorArith
      <3>1. CASE w = 8
        BY <1>1, <1>2, <1>4, <1>10, <2>1, <2>2, <3>1 DEF ISA!VectorArith
      <3>2. CASE w # 8 /\ vop(g) = 0
        BY <1>1, <1>2, <1>4, <1>5, <1>6, <1>7, <1>8, <1>10, <2>1, <3>2 DEF ISA!VectorArith
      <3>3. CASE w # 8 /\ vop(g) = 1
        BY <1>1, <1>2, <1>4, <1>5, <1>6, <1>7, <1>8, <1>10, <2>1, <3>3 DEF ISA!VectorArith
      <3>4. CASE w # 8 /\ vop(g) = 2
        BY <1>1, <1>2, <1>4, <1>5, <1>6, <1>7, <1>8, <1>10, <2>1, <3>4 DEF ISA!VectorArith
      <3> QED
        BY <2>2, <3>1, <3>2, <3>3, <3>4
    <2> QED
      BY <2>3 DEF ISA!Next
  <1> QED
    BY <1>9, <1>10

\* Vector loads, two words in a row.
LEMMA DoesVectorLoad ==
  ASSUME ProgramTyped, NEW g, g = Current, is_vec_type(g), vop(g) = VOP_VLD,
         NEW a, a = Operand(g.rs1), NEW next, next = (a + 4) % WordMod,
         NEW val \in VWord, WritesV(g.rd, val),
         ~is_uart(a) /\ ~is_uart(next) => val = << isa_m[word_index(a)], isa_m[word_index(next)] >>,
         isa_x' = isa_x, isa_m' = isa_m, isa_brk' = isa_brk, GoesTo(isa_pc + 4), CountsUp(1)
  PROVE  ISA!Next
  <1>1. ISA!SetsV(val) /\ ISA!SetsAnyV /\ ISA!Step4 /\ ISA!Counts(1)
    BY IsaWrites, IsaMoves
  <1>2. ISA!f = g /\ ISA!X(g.rs1) = a /\ (\A n : ISA!Index(n) = word_index(n))
    BY IsaReads
  <1>3. ISA!is_vec_type(g) /\ ISA!vop(g) = ISA!VOP_VLD /\ ISA!WordMod = WordMod
    BY IsaKinds, IsaWords
  <1>4. ISA!VectorMem
    BY <1>1, <1>2, <1>3 DEF ISA!VectorMem, is_uart
  <1> QED
    BY <1>4 DEF ISA!Next

\* Vector stores; the second word counts where the two fall together.
LEMMA DoesVectorStore ==
  ASSUME NEW g, g = Current, is_vec_type(g), vop(g) = VOP_VST,
         NEW a, a = Operand(g.rs1), NEW next, next = (a + 4) % WordMod,
         NEW m1, m1 = [isa_m EXCEPT ![word_index(a)] =
                         Stored(isa_m[word_index(a)], a, 4, OperandV(g.rs2)[1])],
         isa_m' = [m1 EXCEPT ![word_index(next)] =
                     Stored(m1[word_index(next)], next, 4, OperandV(g.rs2)[2])],
         isa_x' = isa_x, isa_v' = isa_v, isa_brk' = isa_brk, GoesTo(isa_pc + 4), CountsUp(1)
  PROVE  ISA!Next
  <1>1. ISA!Step4 /\ ISA!Counts(1)
    BY IsaMoves
  <1>2. ISA!f = g /\ ISA!X(g.rs1) = a /\ ISA!V(g.rs2) = OperandV(g.rs2)
    BY IsaReads
  <1>3. ISA!is_vec_type(g) /\ ISA!vop(g) = ISA!VOP_VST /\ ISA!WordMod = WordMod
    BY IsaKinds, IsaWords
  <1>4. ISA!StoreAt(isa_m, a, 4, OperandV(g.rs2)[1]) = m1
    BY IsaStores
  <1>5. ISA!StoreAt(m1, next, 4, OperandV(g.rs2)[2]) = isa_m'
    BY IsaStores
  <1>6. ISA!VectorMem
    BY <1>1, <1>2, <1>3, <1>4, <1>5 DEF ISA!VectorMem
  <1> QED
    BY <1>6 DEF ISA!Next

\* The vector operations that have no defined effect.
LEMMA DoesVectorReserved ==
  ASSUME ProgramTyped, NEW g, g = Current, is_vec_type(g), vop(g) > VOP_VST,
         NEW val \in VWord, vop(g) = VOP_VMOV_S2V => WritesV(g.rd, val),
         vop(g) # VOP_VMOV_S2V => isa_v' = isa_v,
         isa_x' = isa_x, isa_m' = isa_m, isa_brk' = isa_brk, GoesTo(isa_pc + 4), CountsUp(1)
  PROVE  ISA!Next
  <1>1. ISA!Step4 /\ ISA!Counts(1) /\ (vop(g) = VOP_VMOV_S2V => ISA!SetsAnyV)
    BY IsaWrites, IsaMoves
  <1>2. ISA!f = g
    BY IsaReads
  <1>3. /\ ISA!is_vec_type(g) /\ ISA!vop(g) = vop(g) /\ ISA!VOP_VST = VOP_VST
        /\ ISA!VOP_VMOV_S2V = VOP_VMOV_S2V
    BY IsaKinds
  <1>4. ISA!VectorReserved
    BY <1>1, <1>2, <1>3 DEF ISA!VectorReserved
  <1> QED
    BY <1>4 DEF ISA!Next

\* Reads and writes of the performance counters.
LEMMA DoesCounter ==
  ASSUME ProgramTyped, NEW g, g = Current, is_rdwrctr_type(g),
         NEW val \in Word, Writes(g.rd, val),
         g.funct7 < 64 => CountsUp(1) /\ (g.rs2 % 4 # 0 => val = isa_count[g.rs2 % 4]),
         g.funct7 >= 64 =>
           isa_count' = [i \in 1 .. 3 |-> ((IF i = g.rs2 % 4 THEN Operand(g.rs1) ELSE isa_count[i])
                                             + Flag(i = 1)) % CtrMod],
         GoesTo(isa_pc + 4), KeepsAll
  PROVE  ISA!Next
  <1>1. ISA!Sets(val) /\ ISA!SetsAny /\ ISA!Step4 /\ (CountsUp(1) => ISA!Counts(1))
    BY IsaWrites, IsaMoves
  <1>2. ISA!f = g /\ ISA!X(g.rs1) = Operand(g.rs1)
    BY IsaReads
  <1>3. DOMAIN isa_count = 1 .. 3
    BY DEF isa_count
  <1>4. ISA!is_rdwrctr_type(g) /\ \A p : ISA!Flag(p) = Flag(p)
    BY IsaKinds, IsaBits
  <1>5. g.funct7 \in 0 .. 127
    BY DEF ProgramTyped, Insn
  <1>6. ISA!Counter
    <2>1. CASE g.funct7 < 64
      BY <1>1, <1>2, <1>4, <2>1 DEF ISA!Counter, KeepsAll
    <2>2. CASE g.funct7 >= 64
      BY <1>1, <1>2, <1>3, <1>4, <2>2 DEF ISA!Counter, KeepsAll
    <2> QED
      BY <1>5, <2>1, <2>2
  <1> QED
    BY <1>6 DEF ISA!Next

\* Environment calls and CSR accesses: any value read, and the break flag.
LEMMA DoesSystem ==
  ASSUME ProgramTyped, NEW g, g = Current, g.opcode = SYSTEM, NEW val \in Word, Writes(g.rd, val),
         isa_brk' = (isa_brk \/ g.funct3 = 0),
         isa_v' = isa_v, isa_m' = isa_m, GoesTo(isa_pc + 4), CountsUp(1)
  PROVE  ISA!Next
  <1>1. ISA!SetsAny /\ ISA!Step4 /\ ISA!Counts(1) /\ ISA!f = g
    BY IsaWrites, IsaMoves, IsaReads
  <1>2. ISA!System
    BY <1>1, IsaOpcodes DEF ISA!System
  <1> QED
    BY <1>2 DEF ISA!Next

\* Words that are no instruction.
LEMMA DoesUndefined ==
  ASSUME ProgramTyped, NEW g, g = Current,
         g.opcode \notin {LOAD, OPIMM, AUIPC, STORE, OP, LUI, BRANCH, JALR, JAL, SYSTEM},
         g.opcode = CUSTOM => g.funct3 > 2,
         NEW val \in Word, Writes(g.rd, val), GoesTo(isa_pc + 4), CountsUp(1), KeepsAll
  PROVE  ISA!Next
  <1>1. ISA!SetsAny /\ ISA!Step4 /\ ISA!Counts(1) /\ ISA!f = g
    BY IsaWrites, IsaMoves, IsaReads
  <1>2. ISA!Undefined
    BY <1>1, IsaOpcodes DEF ISA!Undefined, KeepsAll
  <1> QED
    BY <1>2 DEF ISA!Next

-----------------------------------------------------------------------------
(* The invariant of an instruction under way *)

\* The reset is over, none is to come, and the port is the parallel one.
Running == rst_edges = 0 /\ resets = 0 /\ sim_use_par_txrx = TRUE

\* The instruction in the core has not taken effect yet.
InFlight == cpu_state \in {"DECODE", "EXEC", "MEM"} /\ ~vst_committed

\* It is the one memory holds at its address, even if memory has changed
\* since it was fetched.
FetchedRight == InFlight => insn_reg = mem[word_index(pc_saved)]

\* The latched decoder outputs are those of this instruction.
DecodedRight ==
  cpu_state \in {"EXEC", "MEM"} => \E c \in vmac_controls(insn_fields) : ctl = Decode(insn_fields, c)

\* The operands latched in DECODE are still those the register files hold.
OperandsRight ==
  cpu_state \in {"EXEC", "MEM"} =>
    /\ rdata1_reg = rf_rdata(rs1_index(insn_fields)) /\ rdata2_reg = rf_rdata(insn_fields.rs2)
    /\ vs1_data_reg = vrf_rdata(rs1_index(insn_fields)) /\ vs2_data_reg = vrf_rdata(insn_fields.rs2)

\* The vector ALU: the lanes of the cycles it has counted are multiplied,
\* and with the pulse comes the architecture's result.
ValuRight ==
  LET op == ctl.vec_op % 4
      sew == ctl.vec_sew
  IN  /\ valu_computing /\ op \in {OP_VMUL, OP_VMAC} =>
           \A i \in Lanes(sew) : i < 4 * valu_mul_counter =>
             valu_prod[i] = product(op, sew, vs1_data_reg, vs2_data_reg, i)
      /\ valu_valid_out /\ sew # 3 => valu_result = ValuRef(op, sew, vs1_data_reg, vs2_data_reg)

\* The packed unit: after its multiplying cycle the products are of this
\* operation, and with the pulse comes the architecture's result.
VmacRight ==
  /\ vmac_computing /\ ctl.vmac_ctrl # PVADD /\ vmac_cycle_counter = 1 =>
       Multiplied(vmac_mult_results, ctl.vmac_ctrl, rdata1_reg, rdata2_reg)
  /\ vmac_valid_out => vmac_result = PackedRef(ctl.vmac_ctrl, rdata1_reg, rdata2_reg)

\* The vector load/store unit: the addresses and the words it has moved so
\* far.  A word of the device page may be anything.
second_addr == (vlsu_addr_reg + 4) % WordMod
Holds(word, addr) == is_uart(addr) \/ word = mem[word_index(addr)]

VlsuRight ==
  /\ vlsu_state # "IDLE" \/ vlsu_done =>
       /\ vlsu_addr_reg = rdata1_reg /\ vlsu_is_store_reg = ctl.is_vec_store
       /\ ctl.is_vec_store => vlsu_data_reg = vs2_data_reg
  /\ vlsu_state \in Waiting =>
       /\ vlsu_mem.addr = word_addr(vlsu_state)
       /\ ctl.is_vec_store => /\ vlsu_mem.wdata = vlsu_data_reg[word_of(vlsu_state)]
                              /\ vlsu_mem.wmask = 0 .. 3
  /\ ~ctl.is_vec_store =>
       /\ vlsu_state \in {"REQ_WORD1", "WAIT_WORD1", "COMPLETE"} => Holds(vlsu_data_reg[1], vlsu_addr_reg)
       /\ vlsu_state = "COMPLETE" => Holds(vlsu_data_reg[2], second_addr)
       /\ vlsu_done => Holds(vlsu_load_data[1], vlsu_addr_reg) /\ Holds(vlsu_load_data[2], second_addr)
  /\ ctl.is_vec_store /\ (vlsu_state = "COMPLETE" \/ vlsu_done) =>
       mem[word_index(second_addr)] = vlsu_data_reg[2]

\* A scalar access: the address, and what a store puts on the bus.
MemRight ==
  cpu_state = "MEM" =>
    /\ ctl.mem_read \/ ctl.mem_write
    /\ alu_out_reg = (rf_rdata(insn_fields.rs1) + ctl.imm) % WordMod
    /\ dreq.addr = alu_out_reg
    /\ ctl.mem_write => dreq.wdata = store_data /\ dreq.wmask = store_lanes(alu_out_reg)

\* All of it.
ExecInv == /\ Running /\ FetchedRight /\ DecodedRight /\ OperandsRight
           /\ ValuRight /\ VmacRight /\ VlsuRight /\ MemRight

-----------------------------------------------------------------------------
(* What a clock edge leaves alone *)

\* Without the serial port every request is accepted at once and the answer
\* is the memory's, for the one that waits.
LEMMA Quiet ==
  ASSUME Inv, Running
  PROVE  /\ dmem_req_ready = TRUE /\ rst_edges # 1 /\ rst_edges = 0
         /\ dmem_resp_valid \in BOOLEAN
         /\ dmem_resp_valid <=> (ScalarAwaits \/ VectorAwaits)
         /\ ScalarAwaits => /\ ctl.mem_read /\ dmem_resp_valid
                            /\ dmem_raddr_reg = dreq.addr /\ dmem_addr_reg = dreq.addr
         /\ VectorAwaits => /\ ~vlsu_is_store_reg
                            /\ dmem_raddr_reg = vlsu_mem.addr /\ dmem_addr_reg = vlsu_mem.addr
  <1>1. \A a : ~serial(a)
    BY DEF serial, Running
  <1>2. dmem_req_ready = TRUE
    BY <1>1 DEF dmem_req_ready
  <1>3. \A a : Answered(a)
    BY <1>1 DEF Answered
  <1>4. rst_edges = 0 /\ rst_edges # 1
    BY DEF Running
  <1>5. dmem_resp_valid \in BOOLEAN
    BY <1>1 DEF Inv, ControlTypeOK, dmem_resp_valid
  <1> QED
    BY <1>1, <1>2, <1>3, <1>4, <1>5 DEF Inv, ResponseOwned, VectorLooks

\* The states follow each other, and the instruction under way keeps its
\* address, its word, its decoder outputs and its operands.
LEMMA CoreMoves ==
  ASSUME ClockEdge
  PROVE  /\ cpu_state' = "DECODE" <=> cpu_state = "FETCH"
         /\ cpu_state' = "EXEC" => cpu_state \in {"DECODE", "EXEC"}
         /\ cpu_state' = "MEM" => cpu_state \in {"EXEC", "MEM"}
         /\ cpu_state' = "WB" => cpu_state \in {"EXEC", "MEM"}
         /\ cpu_state' = "FETCH" <=> cpu_state = "WB"
         /\ cpu_state = "FETCH" => CpuFetch(imem_rdata)
         /\ cpu_state = "DECODE" => CpuDecode /\ cpu_state' = "EXEC"
         /\ cpu_state = "WB" => CpuWriteback
         /\ cpu_state = "MEM" => \/ MemAccept(dmem_req_ready)
                                 \/ MemAwait(dmem_req_ready, dmem_resp_valid, dmem_resp_rdata)
         /\ cpu_state = "EXEC" => \/ ExecRdwrctr \/ ExecVectorWait \/ ExecVectorDone
                                  \/ ExecVmacWait \/ ExecVmacDone \/ ExecScalar
         /\ cpu_state \in {"EXEC", "MEM"} =>
              /\ pc_saved' = pc_saved /\ insn_reg' = insn_reg /\ ctl' = ctl
              /\ rdata1_reg' = rdata1_reg /\ rdata2_reg' = rdata2_reg
              /\ vs1_data_reg' = vs1_data_reg /\ vs2_data_reg' = vs2_data_reg
              /\ regs' = regs /\ vregs' = vregs
  <1>1. CpuStep(imem_rdata, dmem_req_ready, dmem_resp_valid, dmem_resp_rdata)
    BY DEF ClockEdge
  <1>2. CASE CpuFetch(imem_rdata)
    BY <1>2 DEF CpuFetch
  <1>3. CASE CpuDecode
    BY <1>3 DEF CpuDecode
  <1>4. CASE CpuWriteback
    BY <1>4 DEF CpuWriteback
  <1>5. CASE ExecRdwrctr
    BY <1>5 DEF ExecRdwrctr, dataRegs, vectorOps, files
  <1>6. CASE ExecVectorWait
    BY <1>6 DEF ExecVectorWait, dataRegs, vectorOps, files
  <1>7. CASE ExecVectorDone
    BY <1>7 DEF ExecVectorDone, dataRegs, vectorOps, files
  <1>8. CASE ExecVmacWait
    BY <1>8 DEF ExecVmacWait, dataRegs, vectorOps, files
  <1>9. CASE ExecVmacDone
    BY <1>9 DEF ExecVmacDone, dataRegs, vectorOps, files
  <1>10. CASE ExecScalar
    BY <1>10 DEF ExecScalar, dataRegs, vectorOps, files
  <1>11. CASE MemAccept(dmem_req_ready)
    BY <1>11 DEF MemAccept, dataRegs, vectorOps, files, after_accept
  <1>12. CASE MemAwait(dmem_req_ready, dmem_resp_valid, dmem_resp_rdata)
    BY <1>12 DEF MemAwait, dataRegs, vectorOps, files
  <1> QED
    BY <1>1, <1>2, <1>3, <1>4, <1>5, <1>6, <1>7, <1>8, <1>9, <1>10, <1>11, <1>12 DEF CpuStep

\* A unit that starts, works or reports does so for the instruction in EXEC.
LEMMA UnitsOwned ==
  ASSUME Inv
  PROVE  /\ vlsu_start_reg \/ vlsu_state # "IDLE" \/ vlsu_done =>
              /\ cpu_state = "EXEC" /\ ~ctl.is_rdwrctr /\ ctl.is_vec_op /\ vec_busy /\ vec_mem_op
              /\ OneOf(vlsu_start_reg, vlsu_state # "IDLE", vlsu_done)
         /\ vec_valid_in_reg \/ valu_computing \/ valu_valid_out =>
              /\ cpu_state = "EXEC" /\ ~ctl.is_rdwrctr /\ ctl.is_vec_op /\ vec_busy /\ ~vec_mem_op
              /\ OneOf(vec_valid_in_reg, valu_computing, valu_valid_out)
         /\ vmac_valid_in_reg \/ vmac_computing \/ vmac_valid_out =>
              /\ cpu_state = "EXEC" /\ ~ctl.is_rdwrctr /\ ~ctl.is_vec_op /\ ctl.is_vmac /\ vmac_busy
              /\ OneOf(vmac_valid_in_reg, vmac_computing, vmac_valid_out)
  <1>1. UnitHandshake
    BY DEF Inv
  <1>2. /\ vlsu_start_reg \in BOOLEAN /\ vlsu_done \in BOOLEAN /\ vec_valid_in_reg \in BOOLEAN
        /\ valu_computing \in BOOLEAN /\ valu_valid_out \in BOOLEAN /\ vmac_valid_in_reg \in BOOLEAN
        /\ vmac_computing \in BOOLEAN /\ vmac_valid_out \in BOOLEAN
    BY DEF Inv, ControlTypeOK
  <1>3. vlsu_start_reg \/ vlsu_state # "IDLE" \/ vlsu_done =>
           OnVector /\ vec_mem_op /\ OneOf(vlsu_start_reg, vlsu_state # "IDLE", vlsu_done)
    BY <1>1, <1>2 DEF UnitHandshake, NoneOf
  <1>4. vec_valid_in_reg \/ valu_computing \/ valu_valid_out =>
           OnVector /\ ~vec_mem_op /\ OneOf(vec_valid_in_reg, valu_computing, valu_valid_out)
    BY <1>1, <1>2 DEF UnitHandshake, NoneOf
  <1>5. vmac_valid_in_reg \/ vmac_computing \/ vmac_valid_out =>
           OnPacked /\ OneOf(vmac_valid_in_reg, vmac_computing, vmac_valid_out)
    BY <1>1, <1>2 DEF UnitHandshake, NoneOf
  <1> QED
    BY <1>3, <1>4, <1>5 DEF OnVector, OnPacked

\* Memory changes only when a store is accepted.
LEMMA MemoryMoves ==
  ASSUME Inv, Running, ClockEdge
  PROVE  /\ mem' = mem \/ mem' = Written(mem, dmem_req)
         /\ cpu_state = "MEM" => mem' = IF dreq.valid /\ dreq.write THEN Written(mem, dreq) ELSE mem
         /\ cpu_state # "MEM" /\ ~(vlsu_state \in Waiting /\ vlsu_is_store_reg) => mem' = mem
         /\ vlsu_state \in Waiting /\ vlsu_is_store_reg => mem' = Written(mem, vlsu_mem)
  <1>1. mem' = IF dmem_req.valid /\ dmem_req.write THEN Written(mem, dmem_req) ELSE mem
    BY DEF ClockEdge, SramStep
  <1>2. cpu_state = "MEM" => dmem_req = dreq
    BY DEF Inv, UnitHandshake, OnVector, vec_mem_active, dmem_req
  <1>3. cpu_state # "MEM" => ~dreq.valid
    BY DEF Inv, BusOwned
  <1>4. vlsu_mem.valid => vlsu_state \in Waiting /\ vlsu_mem.write = vlsu_is_store_reg
    BY DEF Inv, BusOwned, VlsuRequestRight, Waiting
  <1>5. vlsu_state \in Waiting => vlsu_state # "IDLE"
    BY DEF Waiting
  <1>6. vlsu_state \in Waiting /\ vlsu_is_store_reg => /\ vlsu_mem.valid /\ dmem_req = vlsu_mem
                                                      /\ cpu_state = "EXEC"
    <2>1. vlsu_state \in Waiting => vec_mem_active /\ cpu_state = "EXEC"
      BY <1>5, UnitsOwned DEF vec_mem_active
    <2>2. VectorAwaits => ~vlsu_is_store_reg
      BY Quiet
    <2> QED
      BY <2>1, <2>2 DEF VectorAwaits, Waiting, dmem_req
  <1> QED
    BY <1>1, <1>2, <1>3, <1>4, <1>5, <1>6 DEF dmem_req

-----------------------------------------------------------------------------
(* The units work on the instruction's operands *)

\* What the vector ALU holds for an operation op at width sew of a and b.
ValuHolds(op, sew, a, b) ==
  /\ valu_computing /\ op \in {OP_VMUL, OP_VMAC} =>
       \A i \in Lanes(sew) : i < 4 * valu_mul_counter => valu_prod[i] = product(op, sew, a, b, i)
  /\ valu_valid_out /\ sew # 3 => valu_result = ValuRef(op, sew, a, b)

\* A lane is multiplied in one of the cycles the counter counts.
LEMMA LanesMultiplied ==
  ASSUME NEW sew \in 0 .. 3
  PROVE  /\ Lanes(sew) \subseteq 0 .. 7
         /\ \A i \in Lanes(sew) : i < 4 * mul_cycles(sew)
  <1>1. \/ LanesPerWord(sew) = 4 /\ mul_cycles(sew) = 2
        \/ LanesPerWord(sew) \in {1, 2} /\ mul_cycles(sew) = 1
    BY DEF LanesPerWord, mul_cycles, SEW_8, SEW_16
  <1> QED
    BY <1>1 DEF Lanes

\* A step of valu.v:182-361 on operands that do not change.
LEMMA ValuWorks ==
  ASSUME NEW start \in BOOLEAN, NEW op \in 0 .. 3, NEW sew \in 0 .. 3, NEW a \in VWord, NEW b \in VWord,
         valu_computing \in BOOLEAN, valu_mul_counter \in 0 .. 2,
         ValuStep(start, op, sew, a, b), ValuHolds(op, sew, a, b), valu_computing => ~valu_valid_out
  PROVE  ValuHolds(op, sew, a, b)'
  <1>1. CASE ValuStart(start) \/ ValuIdle(start)
    <2>1. ~valu_valid_out' /\ (valu_computing' => valu_mul_counter' = 0)
      BY <1>1 DEF ValuStart, ValuIdle
    <2>2. \A i \in Lanes(sew) : ~(i < 4 * 0)
      BY LanesMultiplied
    <2> QED
      BY <2>1, <2>2 DEF ValuHolds
  <1>2. CASE ValuAddSub(op, sew, a, b)
    <2>1. /\ op \in {OP_VADD, OP_VSUB} /\ valu_computing' = FALSE
          /\ valu_result' = IF op = OP_VADD THEN vadd_result(a, b, sew) ELSE vsub_result(a, b, sew)
      BY <1>2 DEF ValuAddSub
    <2>2. sew # 3 => valu_result' = ValuRef(op, sew, a, b)
      BY <2>1, AddSubIsRef DEF OP_VADD, OP_VSUB
    <2> QED
      BY <2>1, <2>2 DEF ValuHolds
  <1>3. CASE ValuMultiply(op, sew, a, b)
    <2> DEFINE c == valu_mul_counter
    <2>1. /\ op \in {OP_VMUL, OP_VMAC} /\ valu_mul_counter' = c + 1
          /\ valu_computing /\ valu_valid_out' = valu_valid_out
          /\ valu_prod' = [i \in 0 .. 7 |-> IF i \in multiplied_in(c, sew)
                                            THEN product(op, sew, a, b, i) ELSE valu_prod[i]]
      BY <1>3 DEF ValuMultiply
    <2>2. c \in Nat
      OBVIOUS
    <2>3. \A i \in Lanes(sew) : i < 4 * c => valu_prod[i] = product(op, sew, a, b, i)
      BY <2>1 DEF ValuHolds
    <2> HIDE DEF c
    <2>4. ASSUME NEW i \in Lanes(sew), i < 4 * (c + 1)
          PROVE  valu_prod'[i] = product(op, sew, a, b, i)
      <3>1. i \in 0 .. 7
        BY LanesMultiplied
      <3>2. i < 4 * c \/ i \in multiplied_in(c, sew)
        BY <2>2, <2>4, <3>1 DEF multiplied_in
      <3> QED
        BY <2>1, <2>3, <3>1, <3>2
    <2> QED
      BY <2>1, <2>4 DEF ValuHolds
  <1>4. CASE ValuFinish(op, sew)
    <2>1. /\ op \in {OP_VMUL, OP_VMAC} /\ valu_mul_counter = mul_cycles(sew) /\ sew # 3
          /\ valu_result' = packed_products(valu_prod, op, sew)
          /\ valu_computing /\ valu_computing' = FALSE
      BY <1>4 DEF ValuFinish
    <2>2. Fresh(valu_prod, op, sew, a, b)
      BY <2>1, LanesMultiplied DEF ValuHolds, Fresh
    <2>3. valu_result' = ValuRef(op, sew, a, b)
      BY <2>1, <2>2, ProductsAreRef
    <2> QED
      BY <2>1, <2>3 DEF ValuHolds
  <1>5. CASE ValuReservedWidth(op, sew)
    BY <1>5 DEF ValuReservedWidth, ValuHolds
  <1> QED
    BY <1>1, <1>2, <1>3, <1>4, <1>5 DEF ValuStep

\* What the packed unit holds for an operation ctrl of a and b.
VmacHolds(ctrl, a, b) ==
  /\ vmac_computing /\ ctrl # PVADD /\ vmac_cycle_counter = 1 =>
       Multiplied(vmac_mult_results, ctrl, a, b)
  /\ vmac_valid_out => vmac_result = PackedRef(ctrl, a, b)

\* The multiplying cycle fills the product registers its operation reads.
LEMMA MultiplyFills ==
  ASSUME NEW ctrl \in {PVMUL, PVMAC, PVMUL_UPPER}, NEW a, NEW b, VmacMultiply(ctrl, a, b)
  PROVE  Multiplied(vmac_mult_results', ctrl, a, b)
  <1> DEFINE lanes == multiplied_lanes(ctrl)
  <1>1. \A i \in 0 .. 3 : i + 1 \in DOMAIN lanes =>
          vmac_mult_results'[i] = mult_result(a, b, lanes[i + 1])
    BY DEF VmacMultiply
  <1>2. CASE ctrl = PVMUL
    <2>1. lanes = << 0, 1 >>
      BY <1>2 DEF multiplied_lanes, PVMUL, PVMAC, PVMUL_UPPER
    <2> HIDE DEF lanes
    <2>2. /\ 0 + 1 \in DOMAIN lanes /\ lanes[0 + 1] = 0
          /\ 1 + 1 \in DOMAIN lanes /\ lanes[1 + 1] = 1
      BY <2>1
    <2> QED
      BY <1>1, <1>2, <2>2 DEF Multiplied, PVMUL, PVMAC
  <1>3. CASE ctrl = PVMAC
    <2>1. lanes = << 0, 1, 2, 3 >>
      BY <1>3 DEF multiplied_lanes, PVMUL, PVMAC, PVMUL_UPPER
    <2> HIDE DEF lanes
    <2>2. \A i \in 0 .. 3 : i + 1 \in DOMAIN lanes /\ lanes[i + 1] = i
      BY <2>1
    <2> QED
      BY <1>1, <1>3, <2>2 DEF Multiplied
  <1>4. CASE ctrl = PVMUL_UPPER
    <2>1. lanes = << 2, 3 >>
      BY <1>4 DEF multiplied_lanes, PVMUL, PVMAC, PVMUL_UPPER
    <2> HIDE DEF lanes
    <2>2. \A i \in 0 .. 1 : i + 1 \in DOMAIN lanes /\ lanes[i + 1] = i + 2
      BY <2>1
    <2> QED
      BY <1>1, <1>4, <2>2 DEF Multiplied, PVMUL, PVMAC, PVMUL_UPPER
  <1> QED
    BY <1>2, <1>3, <1>4

\* A step of vmac.v:52-141 on operands that do not change.
LEMMA VmacWorks ==
  ASSUME NEW start \in BOOLEAN, NEW ctrl \in 0 .. 3, NEW a \in Word, NEW b \in Word,
         VmacStep(start, ctrl, a, b), VmacHolds(ctrl, a, b)
  PROVE  VmacHolds(ctrl, a, b)'
  <1>1. CASE VmacStart(start)
    BY <1>1 DEF VmacStart, VmacHolds
  <1>2. CASE VmacIdle(start)
    BY <1>2 DEF VmacIdle, VmacHolds
  <1>3. CASE VmacAdd(ctrl, a, b)
    <2>1. vmac_result' = PackedRef(ctrl, a, b) /\ vmac_computing' = FALSE
      BY <1>3, AddIsRef DEF VmacAdd
    <2> QED
      BY <2>1 DEF VmacHolds
  <1>4. CASE VmacMultiply(ctrl, a, b)
    <2>1. ctrl \in {PVMUL, PVMAC, PVMUL_UPPER}
      BY <1>4 DEF VmacMultiply, PVADD, PVMUL, PVMAC, PVMUL_UPPER
    <2>2. Multiplied(vmac_mult_results', ctrl, a, b)
      BY <1>4, <2>1, MultiplyFills
    <2> QED
      BY <1>4, <2>2 DEF VmacHolds, VmacMultiply
  <1>5. CASE VmacGather(ctrl)
    <2>1. ctrl \in {PVMUL, PVMAC, PVMUL_UPPER}
      BY <1>5 DEF VmacGather, PVADD, PVMUL, PVMAC, PVMUL_UPPER
    <2>2. Multiplied(vmac_mult_results, ctrl, a, b)
      BY <1>5 DEF VmacGather, VmacHolds
    <2>3. vmac_result' = gathered(vmac_mult_results, ctrl) /\ ~vmac_computing'
      BY <1>5 DEF VmacGather
    <2>4. vmac_result' = PackedRef(ctrl, a, b)
      BY <2>1, <2>2, <2>3, GatherIsRef
    <2> QED
      BY <2>3, <2>4 DEF VmacHolds
  <1> QED
    BY <1>1, <1>2, <1>3, <1>4, <1>5 DEF VmacStep

\* A unit has nothing to hold while it neither works nor reports.
LEMMA UnitsRight ==
  ASSUME Inv, DataInv, ExecInv, ClockEdge
  PROVE  ValuRight' /\ VmacRight'
  <1>1. /\ ctl.vec_op \in 0 .. 7 /\ ctl.vec_sew \in 0 .. 3 /\ ctl.vmac_ctrl \in 0 .. 3
        /\ vs1_data_reg \in VWord /\ vs2_data_reg \in VWord
        /\ rdata1_reg \in Word /\ rdata2_reg \in Word /\ valu_mul_counter \in 0 .. 2
    BY DEF DataInv, CpuFits, CtlFits, ValuFits
  <1>2. ctl.vec_op % 4 \in 0 .. 3
    BY <1>1
  <1>3. /\ ValuStep(vec_valid_in_reg /\ ~vec_mem_op, ctl.vec_op % 4, ctl.vec_sew,
                    vs1_data_reg, vs2_data_reg)
        /\ VmacStep(vmac_valid_in_reg, ctl.vmac_ctrl, rdata1_reg, rdata2_reg)
    BY DEF ClockEdge, UnitSteps
  <1>4. /\ valu_computing \in BOOLEAN /\ vmac_valid_in_reg \in BOOLEAN
        /\ (vec_valid_in_reg /\ ~vec_mem_op) \in BOOLEAN
        /\ valu_computing => ~valu_valid_out
    BY UnitsOwned DEF Inv, ControlTypeOK, OneOf
  <1>5. ValuHolds(ctl.vec_op % 4, ctl.vec_sew, vs1_data_reg, vs2_data_reg)
    BY DEF ExecInv, ValuRight, ValuHolds
  <1>6. VmacHolds(ctl.vmac_ctrl, rdata1_reg, rdata2_reg)
    BY DEF ExecInv, VmacRight, VmacHolds
  <1>7. UnitsMoved
    BY ClockUnits
  <1>8. ValuRight'
    <2>1. CASE valu_computing' \/ valu_valid_out'
      <3>1. cpu_state = "EXEC"
        BY <1>7, <2>1, UnitsOwned DEF UnitsMoved
      <3>2. ctl' = ctl /\ vs1_data_reg' = vs1_data_reg /\ vs2_data_reg' = vs2_data_reg
        BY <3>1, CoreMoves
      <3> DEFINE op == ctl.vec_op % 4
                 sew == ctl.vec_sew
                 a == vs1_data_reg
                 b == vs2_data_reg
      <3>3. ASSUME NEW o \in 0 .. 3, NEW w \in 0 .. 3, NEW p \in VWord, NEW q \in VWord,
                   ValuStep(vec_valid_in_reg /\ ~vec_mem_op, o, w, p, q), ValuHolds(o, w, p, q)
            PROVE  /\ valu_computing' /\ o \in {OP_VMUL, OP_VMAC} =>
                        \A i \in Lanes(w) : i < 4 * valu_mul_counter' => valu_prod'[i] = product(o, w, p, q, i)
                   /\ valu_valid_out' /\ w # 3 => valu_result' = ValuRef(o, w, p, q)
        <4>1. ValuHolds(o, w, p, q)'
          BY <1>1, <1>4, <3>3, ValuWorks
        <4> QED
          BY <4>1 DEF ValuHolds
      <3>4. /\ valu_computing' /\ op \in {OP_VMUL, OP_VMAC} =>
                 \A i \in Lanes(sew) : i < 4 * valu_mul_counter' => valu_prod'[i] = product(op, sew, a, b, i)
            /\ valu_valid_out' /\ sew # 3 => valu_result' = ValuRef(op, sew, a, b)
        BY <1>1, <1>2, <1>3, <1>5, <3>3
      <3> QED
        BY <3>2, <3>4 DEF ValuRight
    <2> QED
      BY <2>1 DEF ValuRight
  <1>9. VmacRight'
    <2>1. CASE vmac_computing' \/ vmac_valid_out'
      <3>1. cpu_state = "EXEC"
        BY <1>7, <2>1, UnitsOwned DEF UnitsMoved
      <3>2. ctl' = ctl /\ rdata1_reg' = rdata1_reg /\ rdata2_reg' = rdata2_reg
        BY <3>1, CoreMoves
      <3>3. ASSUME NEW o \in 0 .. 3, NEW p \in Word, NEW q \in Word,
                   VmacStep(vmac_valid_in_reg, o, p, q), VmacHolds(o, p, q)
            PROVE  /\ vmac_computing' /\ o # PVADD /\ vmac_cycle_counter' = 1 =>
                        Multiplied(vmac_mult_results', o, p, q)
                   /\ vmac_valid_out' => vmac_result' = PackedRef(o, p, q)
        <4>1. VmacHolds(o, p, q)'
          BY <1>4, <3>3, VmacWorks
        <4> QED
          BY <4>1 DEF VmacHolds
      <3>4. /\ vmac_computing' /\ ctl.vmac_ctrl # PVADD /\ vmac_cycle_counter' = 1 =>
                 Multiplied(vmac_mult_results', ctl.vmac_ctrl, rdata1_reg, rdata2_reg)
            /\ vmac_valid_out' => vmac_result' = PackedRef(ctl.vmac_ctrl, rdata1_reg, rdata2_reg)
        BY <1>1, <1>3, <1>6, <3>3
      <3> QED
        BY <3>2, <3>4 DEF VmacRight
    <2> QED
      BY <2>1 DEF VmacRight
  <1> QED
    BY <1>8, <1>9

\* A store of all four lanes replaces the word.
LEMMA WholeWord ==
  ASSUME NEW old, NEW data \in Word
  PROVE  Masked(old, data, 0 .. 3) = data
  <1> DEFINE b == [i \in 0 .. 3 |-> ByteOf(IF i \in 0 .. 3 THEN data ELSE old, i)]
  <1>1. \A k \in 0 .. 3 : b[k] = ByteOf(data, k)
    OBVIOUS
  <1>2. OfBytes(b) = data
    <2> HIDE DEF b
    <2> QED
      BY <1>1, WordOfBytes
  <1> QED
    BY <1>2 DEF Masked

\* A word's index is one of the array's (sram.v:20-24).
LEMMA IndexFits ==
  ASSUME NEW a \in Word
  PROVE  word_index(a) \in 0 .. MemWords - 1
  <1>1. a \div 4 \in Nat
    BY Ranges DEF Word
  <1> DEFINE q == a \div 4
  <1>2. q % MemWords \in 0 .. MemWords - 1
    <2> HIDE DEF q
    <2> QED
      BY <1>1, MemWordsAssumption DEF q
  <1> QED
    BY <1>2 DEF word_index

\* The addresses of a vector access.
LEMMA VectorAddresses ==
  ASSUME vlsu_addr_reg \in Word
  PROVE  /\ word_addr("WAIT_WORD0") = vlsu_addr_reg /\ word_addr("REQ_WORD0") = vlsu_addr_reg
         /\ word_addr("WAIT_WORD1") = second_addr /\ word_addr("REQ_WORD1") = second_addr
         /\ second_addr \in Word
         /\ word_of("WAIT_WORD0") = 1 /\ word_of("REQ_WORD0") = 1
         /\ word_of("WAIT_WORD1") = 2 /\ word_of("REQ_WORD1") = 2
  <1>1. /\ word_of("WAIT_WORD0") = 1 /\ word_of("REQ_WORD0") = 1
        /\ word_of("WAIT_WORD1") = 2 /\ word_of("REQ_WORD1") = 2
    BY DEF word_of
  <1>2. vlsu_addr_reg \in Nat /\ vlsu_addr_reg < WordMod /\ WordMod \in Nat \ {0}
    BY Ranges DEF Word
  <1>3. (vlsu_addr_reg + 4 * (1 - 1)) % WordMod = vlsu_addr_reg
    <2>1. vlsu_addr_reg + 4 * (1 - 1) = vlsu_addr_reg
      BY <1>2
    <2>2. vlsu_addr_reg % WordMod = vlsu_addr_reg
      BY <1>2, SMT
    <2> QED
      BY <2>1, <2>2
  <1>4. vlsu_addr_reg + 4 * (2 - 1) = vlsu_addr_reg + 4
    BY <1>2
  <1>5. second_addr \in Word
    <2>1. vlsu_addr_reg + 4 \in Int
      BY <1>2
    <2> QED
      BY <2>1, Ranges DEF second_addr
  <1> QED
    BY <1>1, <1>3, <1>4, <1>5 DEF word_addr, second_addr

\* What the vector load/store unit waits for is a word of its instruction.
LEMMA AnswerIsRight ==
  ASSUME Inv, DataInv, ExecInv, vlsu_state \in Waiting, ~vlsu_is_store_reg, dmem_resp_valid
  PROVE  Holds(dmem_resp_rdata, word_addr(vlsu_state))
  <1>1. Running /\ VlsuRight
    BY DEF ExecInv
  <1>2. vlsu_mem.addr = word_addr(vlsu_state)
    BY <1>1 DEF VlsuRight
  <1>3. ~ScalarAwaits
    BY UnitsOwned DEF ScalarAwaits, Waiting
  <1>4. dmem_raddr_reg = vlsu_mem.addr /\ dmem_addr_reg = vlsu_mem.addr
    BY <1>1, <1>3, Quiet
  <1> QED
    BY <1>2, <1>4 DEF Holds, dmem_resp_rdata, sram_dmem_rdata

\* The vector load/store unit: its addresses are the two words of the
\* instruction, and what it has loaded or stored so far is right.
LEMMA VlsuWorks ==
  ASSUME Wide, Inv, DataInv, ExecInv, ClockEdge
  PROVE  VlsuRight'
  <1>1. Running /\ VlsuRight
    BY DEF ExecInv
  <1>2. VlsuStep(vlsu_start_reg, ctl.is_vec_store, rdata1_reg, vs2_data_reg,
                 dmem_req_ready, dmem_resp_valid, dmem_resp_rdata)
    BY DEF ClockEdge, UnitSteps
  <1>3. dmem_req_ready = TRUE
    BY <1>1, Quiet
  <1>4. CASE vlsu_state = "IDLE" /\ ~vlsu_start_reg
    <2>1. vlsu_state' = "IDLE" /\ ~vlsu_done'
      BY <1>4, ClockUnits DEF UnitsMoved, VlsuMoved
    <2> QED
      BY <2>1 DEF VlsuRight, Waiting
  <1>5. CASE vlsu_state # "IDLE" \/ vlsu_start_reg
    <2>1. cpu_state = "EXEC"
      BY <1>5, UnitsOwned
    <2>2. ctl' = ctl /\ rdata1_reg' = rdata1_reg /\ vs2_data_reg' = vs2_data_reg
      BY <2>1, CoreMoves
    <2>3. vlsu_addr_reg \in Word /\ vlsu_data_reg \in VWord /\ vlsu_mem \in BusRequest
      BY DEF DataInv, VlsuFits
    <2>4. ctl.is_vec_store \in BOOLEAN
      BY DEF Inv, ControlTypeOK, ControlFlags
    <2>5. vlsu_addr_reg' = vlsu_addr_reg =>
            second_addr' = second_addr /\ \A s : word_addr(s)' = word_addr(s)
      BY DEF second_addr, word_addr, word_of
    <2>6. CASE VlsuIdle(vlsu_start_reg, ctl.is_vec_store, rdata1_reg, vs2_data_reg)
      <3>1. /\ vlsu_state' = "REQ_WORD0" /\ ~vlsu_done'
            /\ vlsu_addr_reg' = rdata1_reg /\ vlsu_is_store_reg' = ctl.is_vec_store
            /\ vlsu_data_reg' = vs2_data_reg
        BY <1>5, <2>6 DEF VlsuIdle
      <3> QED
        BY <2>2, <3>1 DEF VlsuRight, Waiting
    <2>7. CASE vlsu_state # "IDLE"
      <3>1. ~vlsu_done
        BY <2>7, UnitsOwned DEF OneOf
      <3>2. /\ vlsu_addr_reg = rdata1_reg /\ vlsu_is_store_reg = ctl.is_vec_store
            /\ ctl.is_vec_store => vlsu_data_reg = vs2_data_reg
        BY <1>1, <2>7 DEF VlsuRight
      <3>3. CASE VlsuRequest
        <4>1. vlsu_state \in {"REQ_WORD0", "REQ_WORD1"} /\ vlsu_state \notin Waiting
          BY <3>3 DEF VlsuRequest, Waiting
        <4>2. mem' = mem
          BY <1>1, <2>1, <4>1, MemoryMoves
        <4>3. /\ vlsu_state' = IF vlsu_state = "REQ_WORD0" THEN "WAIT_WORD0" ELSE "WAIT_WORD1"
              /\ ~vlsu_done' /\ vlsu_addr_reg' = vlsu_addr_reg /\ vlsu_data_reg' = vlsu_data_reg
              /\ vlsu_is_store_reg' = vlsu_is_store_reg
              /\ vlsu_mem'.addr = word_addr(vlsu_state)
              /\ vlsu_is_store_reg => vlsu_mem'.wdata = vlsu_data_reg[word_of(vlsu_state)]
                                      /\ vlsu_mem'.wmask = 0 .. 3
          BY <3>1, <3>3 DEF VlsuRequest
        <4>4. /\ word_addr(vlsu_state') = word_addr(vlsu_state)
              /\ word_of(vlsu_state') = word_of(vlsu_state)
          BY <2>3, <4>1, <4>3, VectorAddresses
        <4>5. word_addr(vlsu_state)' = word_addr(vlsu_state')
          BY <4>3 DEF word_addr, word_of
        <4>6. word_of(vlsu_state)' = word_of(vlsu_state')
          BY DEF word_of
        <4>7. ~ctl.is_vec_store /\ vlsu_state' = "WAIT_WORD1" => Holds(vlsu_data_reg[1], vlsu_addr_reg)'
          <5>1. ~ctl.is_vec_store /\ vlsu_state = "REQ_WORD1" => Holds(vlsu_data_reg[1], vlsu_addr_reg)
            BY <1>1 DEF VlsuRight
          <5> QED
            BY <4>1, <4>2, <4>3, <5>1 DEF Holds
        <4> QED
          BY <2>2, <3>2, <4>3, <4>4, <4>5, <4>6, <4>7 DEF VlsuRight, Waiting
      <3>4. CASE VlsuWait(dmem_req_ready, dmem_resp_valid, dmem_resp_rdata)
        <4>1. vlsu_state \in Waiting
          BY <3>4 DEF VlsuWait, Waiting
        <4>2. /\ ~vlsu_done' /\ vlsu_addr_reg' = vlsu_addr_reg
              /\ vlsu_is_store_reg' = vlsu_is_store_reg
              /\ vlsu_mem' = Withdrawn(vlsu_mem)
              /\ vlsu_data_reg' = IF ~vlsu_is_store_reg /\ dmem_resp_valid
                                  THEN [vlsu_data_reg EXCEPT ![word_of(vlsu_state)] = dmem_resp_rdata]
                                  ELSE vlsu_data_reg
              /\ vlsu_state' = IF vlsu_is_store_reg \/ dmem_resp_valid
                               THEN (IF vlsu_state = "WAIT_WORD0" THEN "REQ_WORD1" ELSE "COMPLETE")
                               ELSE vlsu_state
          BY <1>3, <3>1, <3>4 DEF VlsuWait
        <4>3. /\ vlsu_mem.addr = word_addr(vlsu_state)
              /\ ctl.is_vec_store => /\ vlsu_mem.wdata = vlsu_data_reg[word_of(vlsu_state)]
                                     /\ vlsu_mem.wmask = 0 .. 3
          BY <1>1, <4>1 DEF VlsuRight
        <4>4. CASE ctl.is_vec_store
          <5>1. vlsu_state' \in {"REQ_WORD1", "COMPLETE"} /\ vlsu_data_reg' = vlsu_data_reg
            BY <3>2, <4>2, <4>4
          <5>2. mem' = Written(mem, vlsu_mem)
            BY <1>1, <3>2, <4>1, <4>4, MemoryMoves
          <5>3. vlsu_state' = "COMPLETE" => mem'[word_index(second_addr)] = vlsu_data_reg[2]
            <6> SUFFICES ASSUME vlsu_state' = "COMPLETE"
                         PROVE  mem'[word_index(second_addr)] = vlsu_data_reg[2]
              OBVIOUS
            <6>1. vlsu_state = "WAIT_WORD1"
              BY <3>2, <4>1, <4>2, <4>4 DEF Waiting
            <6>2. /\ vlsu_mem.addr = second_addr /\ vlsu_mem.wdata = vlsu_data_reg[2]
                  /\ vlsu_mem.wmask = 0 .. 3 /\ second_addr \in Word
              BY <2>3, <4>3, <4>4, <6>1, VectorAddresses
            <6>3. vlsu_data_reg[2] \in Word
              BY <2>3 DEF VWord
            <6>4. word_index(second_addr) \in 0 .. MemWords - 1
              BY <6>2, IndexFits
            <6>5. mem \in [0 .. MemWords - 1 -> Word]
              BY DEF DataInv, MemFits
            <6>6. mem' = [mem EXCEPT ![word_index(second_addr)] =
                            Masked(mem[word_index(second_addr)], vlsu_data_reg[2], 0 .. 3)]
              BY <5>2, <6>2 DEF Written
            <6> QED
              BY <6>3, <6>4, <6>5, <6>6, WholeWord
          <5> QED
            BY <2>2, <2>5, <3>2, <4>2, <4>4, <5>1, <5>3 DEF VlsuRight, Waiting
        <4>5. CASE ~ctl.is_vec_store
          <5>1. mem' = mem
            BY <1>1, <2>1, <3>2, <4>5, MemoryMoves
          <5>2. \A w, a : (is_uart(a) \/ w = mem'[word_index(a)]) <=> Holds(w, a)
            BY <5>1 DEF Holds
          <5>3. CASE ~dmem_resp_valid
            <6>1. vlsu_state' = vlsu_state /\ vlsu_data_reg' = vlsu_data_reg
              BY <3>2, <4>2, <4>5, <5>3
            <6>2. vlsu_mem'.addr = vlsu_mem.addr
              BY <2>3, <4>2 DEF Withdrawn, BusRequest
            <6>3. word_addr(vlsu_state)' = word_addr(vlsu_state)
              BY <2>5, <4>2, <6>1 DEF word_addr, word_of
            <6>4. vlsu_state = "WAIT_WORD1" => Holds(vlsu_data_reg[1], vlsu_addr_reg)
              BY <1>1, <4>5 DEF VlsuRight
            <6>5. vlsu_state' = "WAIT_WORD1" => Holds(vlsu_data_reg[1], vlsu_addr_reg)'
              BY <4>2, <5>1, <6>1, <6>4 DEF Holds
            <6> QED
              BY <2>2, <3>2, <4>1, <4>2, <4>3, <4>5, <6>1, <6>2, <6>3, <6>5 DEF VlsuRight, Waiting
          <5>4. CASE dmem_resp_valid
            <6>1. Holds(dmem_resp_rdata, word_addr(vlsu_state))
              BY <3>2, <4>1, <4>5, <5>4, AnswerIsRight
            <6>2. CASE vlsu_state = "WAIT_WORD0"
              <7>1. vlsu_state' = "REQ_WORD1" /\ vlsu_data_reg' = [vlsu_data_reg EXCEPT ![1] = dmem_resp_rdata]
                BY <2>3, <3>2, <4>2, <4>5, <5>4, <6>2, VectorAddresses
              <7>2. vlsu_data_reg'[1] = dmem_resp_rdata
                BY <2>3, <7>1 DEF VWord
              <7>3. Holds(dmem_resp_rdata, vlsu_addr_reg)
                BY <2>3, <6>1, <6>2, VectorAddresses
              <7>4. Holds(vlsu_data_reg[1], vlsu_addr_reg)'
                BY <4>2, <5>1, <7>2, <7>3 DEF Holds
              <7> QED
                BY <2>2, <3>2, <4>2, <4>5, <7>1, <7>4 DEF VlsuRight, Waiting
            <6>3. CASE vlsu_state = "WAIT_WORD1"
              <7>1. vlsu_state' = "COMPLETE" /\ vlsu_data_reg' = [vlsu_data_reg EXCEPT ![2] = dmem_resp_rdata]
                BY <2>3, <3>2, <4>2, <4>5, <5>4, <6>3, VectorAddresses
              <7>2. vlsu_data_reg'[2] = dmem_resp_rdata /\ vlsu_data_reg'[1] = vlsu_data_reg[1]
                BY <2>3, <7>1 DEF VWord
              <7>3. Holds(dmem_resp_rdata, second_addr)
                BY <2>3, <6>1, <6>3, VectorAddresses
              <7>4. Holds(vlsu_data_reg[1], vlsu_addr_reg)
                BY <1>1, <4>5, <6>3 DEF VlsuRight
              <7>5. Holds(vlsu_data_reg[1], vlsu_addr_reg)'
                BY <4>2, <5>1, <7>2, <7>4 DEF Holds
              <7>6. Holds(vlsu_data_reg[2], second_addr)'
                BY <2>5, <4>2, <5>1, <7>2, <7>3 DEF Holds
              <7> QED
                BY <2>2, <3>2, <4>2, <4>5, <7>1, <7>5, <7>6 DEF VlsuRight, Waiting
            <6> QED
              BY <4>1, <6>2, <6>3 DEF Waiting
          <5> QED
            BY <5>3, <5>4
        <4> QED
          BY <4>4, <4>5
      <3>5. CASE VlsuComplete
        <4>1. /\ vlsu_state = "COMPLETE" /\ vlsu_state' = "IDLE"
              /\ vlsu_addr_reg' = vlsu_addr_reg /\ vlsu_data_reg' = vlsu_data_reg
              /\ vlsu_is_store_reg' = vlsu_is_store_reg
              /\ ~vlsu_is_store_reg => vlsu_load_data' = vlsu_data_reg
          BY <3>5 DEF VlsuComplete
        <4>2. mem' = mem
          BY <1>1, <2>1, <4>1, MemoryMoves DEF Waiting
        <4>3. ~ctl.is_vec_store => Holds(vlsu_data_reg[1], vlsu_addr_reg) /\ Holds(vlsu_data_reg[2], second_addr)
          BY <1>1, <4>1 DEF VlsuRight
        <4>4. ctl.is_vec_store => mem[word_index(second_addr)] = vlsu_data_reg[2]
          BY <1>1, <4>1 DEF VlsuRight
        <4>5. ~ctl.is_vec_store => Holds(vlsu_load_data[1], vlsu_addr_reg)' /\ Holds(vlsu_load_data[2], second_addr)'
          BY <2>5, <3>2, <4>1, <4>2, <4>3 DEF Holds
        <4>6. ctl.is_vec_store => (mem[word_index(second_addr)] = vlsu_data_reg[2])'
          BY <2>5, <4>1, <4>2, <4>4
        <4> QED
          BY <2>2, <3>2, <4>1, <4>5, <4>6 DEF VlsuRight, Waiting
      <3> QED
        BY <1>2, <2>7, <3>3, <3>4, <3>5 DEF VlsuStep, VlsuIdle
    <2> QED
      BY <1>2, <1>5, <2>6, <2>7 DEF VlsuStep, VlsuRequest, VlsuWait, VlsuComplete
  <1> QED
    BY <1>4, <1>5

-----------------------------------------------------------------------------
(* A clock edge keeps the invariant *)

\* A vector store that has taken effect still has until it leaves EXEC.
LEMMA CommittedStays ==
  ASSUME Inv, Running, ClockEdge, vst_committed
  PROVE  vst_committed' \/ cpu_state' = "WB"
  <1>1. /\ cpu_state = "EXEC" /\ ctl.is_vec_op /\ ctl.is_vec_store
        /\ vlsu_state \in {"REQ_WORD1", "WAIT_WORD1", "COMPLETE"} \/ vlsu_done
    BY DEF vst_committed
  <1>2. ctl' = ctl
    BY <1>1, CoreMoves
  <1>3. ~ctl.is_rdwrctr /\ vec_mem_op /\ OneOf(vlsu_start_reg, vlsu_state # "IDLE", vlsu_done)
    BY <1>1, UnitsOwned
  <1>4. ExecVectorWait \/ ExecVectorDone
    BY <1>1, <1>3, CoreMoves DEF ExecRdwrctr, ExecVmacWait, ExecVmacDone, ExecScalar
  <1>5. CASE vlsu_done
    <2>1. ExecVectorDone
      BY <1>3, <1>4, <1>5 DEF ExecVectorWait, vec_unit_done
    <2> QED
      BY <2>1 DEF ExecVectorDone
  <1>6. CASE ~vlsu_done
    <2>1. ExecVectorWait
      BY <1>3, <1>4, <1>6 DEF ExecVectorDone, vec_unit_done
    <2>2. cpu_state' = "EXEC"
      BY <1>1, <2>1 DEF ExecVectorWait
    <2>3. VlsuStep(vlsu_start_reg, ctl.is_vec_store, rdata1_reg, vs2_data_reg,
                   dmem_req_ready, dmem_resp_valid, dmem_resp_rdata)
      BY DEF ClockEdge, UnitSteps
    <2>4. vlsu_state' \in {"REQ_WORD1", "WAIT_WORD1", "COMPLETE"} \/ vlsu_done'
      BY <1>1, <1>6, <2>3 DEF VlsuStep, VlsuIdle, VlsuRequest, VlsuWait, VlsuComplete
    <2> QED
      BY <1>1, <1>2, <2>2, <2>4 DEF vst_committed
  <1> QED
    BY <1>5, <1>6

\* The acceptance of the first word of a vector store is its taking effect.
LEMMA StoreCommits ==
  ASSUME Inv, ExecInv, ClockEdge, cpu_state = "EXEC", ~vst_committed, ~vst_committed'
  PROVE  ~(vlsu_state \in Waiting /\ vlsu_is_store_reg)
  <1> SUFFICES ASSUME vlsu_state \in Waiting, vlsu_is_store_reg PROVE FALSE
    OBVIOUS
  <1>1. Running /\ VlsuRight
    BY DEF ExecInv
  <1>2. vlsu_state # "IDLE"
    BY DEF Waiting
  <1>3. ctl.is_vec_op /\ ~ctl.is_rdwrctr /\ vec_mem_op /\ ~vlsu_done
    BY <1>2, UnitsOwned DEF OneOf
  <1>4. ctl.is_vec_store
    BY <1>1, <1>2 DEF VlsuRight
  <1>5. vlsu_state = "WAIT_WORD0"
    BY <1>3, <1>4 DEF vst_committed, Waiting
  <1>6. vlsu_state' = "REQ_WORD1"
    <2>1. VlsuStep(vlsu_start_reg, ctl.is_vec_store, rdata1_reg, vs2_data_reg,
                   dmem_req_ready, dmem_resp_valid, dmem_resp_rdata)
      BY DEF ClockEdge, UnitSteps
    <2>2. dmem_req_ready
      BY <1>1, Quiet
    <2> QED
      BY <1>5, <2>1, <2>2 DEF VlsuStep, VlsuIdle, VlsuRequest, VlsuWait, VlsuComplete
  <1>7. cpu_state' = "EXEC" /\ ctl' = ctl
    <2>1. ExecVectorWait
      BY <1>3, CoreMoves DEF ExecRdwrctr, ExecVmacWait, ExecVmacDone, ExecScalar,
         ExecVectorDone, vec_unit_done
    <2> QED
      BY <2>1, CoreMoves DEF ExecVectorWait
  <1> QED
    BY <1>3, <1>4, <1>6, <1>7 DEF vst_committed

\* The instruction in the core is the one in memory: no store comes between
\* its fetch and its own effect.
LEMMA FetchedStep ==
  ASSUME Inv, DataInv, ExecInv, ClockEdge
  PROVE  FetchedRight'
  <1> SUFFICES ASSUME InFlight' PROVE insn_reg' = mem'[word_index(pc_saved)']
    BY DEF FetchedRight, word_index
  <1>1. Running /\ FetchedRight /\ VlsuRight
    BY DEF ExecInv
  <1>2. cpu_state' \in {"DECODE", "EXEC", "MEM"} /\ ~vst_committed'
    BY DEF InFlight
  <1>3. word_index(pc_saved)' = word_index(pc_saved')
    BY DEF word_index
  <1>4. vlsu_state \in Waiting => vlsu_state # "IDLE"
    BY DEF Waiting
  <1>5. CASE cpu_state = "FETCH"
    <2>1. insn_reg' = mem[word_index(imem_addr_reg)] /\ pc_saved' = pc_reg
      BY <1>5, CoreMoves DEF CpuFetch, imem_rdata
    <2>2. imem_addr_reg = pc_reg
      BY <1>1, <1>5, Quiet DEF Inv, FetchCoherent
    <2>3. mem' = mem
      BY <1>1, <1>4, <1>5, MemoryMoves, UnitsOwned
    <2> QED
      BY <1>3, <2>1, <2>2, <2>3
  <1>6. CASE cpu_state = "DECODE"
    <2>1. insn_reg' = insn_reg /\ pc_saved' = pc_saved
      BY <1>6, CoreMoves DEF CpuDecode
    <2>2. mem' = mem
      BY <1>1, <1>4, <1>6, MemoryMoves, UnitsOwned
    <2>3. InFlight
      BY <1>6 DEF InFlight, vst_committed
    <2> QED
      BY <1>1, <1>3, <2>1, <2>2, <2>3 DEF FetchedRight
  <1>7. CASE cpu_state \in {"EXEC", "MEM"}
    <2>1. insn_reg' = insn_reg /\ pc_saved' = pc_saved /\ ctl' = ctl
      BY <1>7, CoreMoves
    <2>2. ~vst_committed
      BY <1>1, <1>2, CommittedStays
    <2>3. mem' = mem
      <3>1. CASE cpu_state = "MEM"
        <4>1. ~(dreq.valid /\ dreq.write)
          <5> SUFFICES ASSUME dreq.valid, dreq.write PROVE FALSE
            OBVIOUS
          <5>1. ~ctl.mem_read
            BY <3>1 DEF Inv, MemConsistent, ControlTypeOK, ControlFlags
          <5>2. MemAccept(dmem_req_ready)
            BY <1>1, <3>1, CoreMoves, Quiet DEF MemAwait
          <5> QED
            BY <1>2, <5>1, <5>2 DEF MemAccept, after_accept
        <4> QED
          BY <1>1, <3>1, <4>1, MemoryMoves
      <3>2. CASE cpu_state = "EXEC"
        <4>1. ~(vlsu_state \in Waiting /\ vlsu_is_store_reg)
          BY <1>2, <2>2, <3>2, StoreCommits
        <4> QED
          BY <1>1, <3>2, <4>1, MemoryMoves
      <3> QED
        BY <1>7, <3>1, <3>2
    <2>4. InFlight
      BY <1>7, <2>2 DEF InFlight
    <2> QED
      BY <1>1, <1>3, <2>1, <2>3, <2>4 DEF FetchedRight
  <1> QED
    BY <1>2, <1>5, <1>6, <1>7, CoreMoves

\* The decoder outputs and the operands are latched on leaving DECODE and
\* kept until WB.
LEMMA LatchedStep ==
  ASSUME Inv, ExecInv, ClockEdge
  PROVE  DecodedRight' /\ OperandsRight'
  <1> SUFFICES ASSUME cpu_state' \in {"EXEC", "MEM"}
               PROVE  DecodedRight' /\ OperandsRight'
    BY DEF DecodedRight, OperandsRight
  <1>1. CASE cpu_state = "DECODE"
    <2>1. CpuDecode
      BY <1>1, CoreMoves
    <2>2. insn_reg' = insn_reg /\ regs' = regs /\ vregs' = vregs
      BY <2>1 DEF CpuDecode, files
    <2>3. insn_fields' = insn_fields
      BY <2>2 DEF insn_fields
    <2>4. /\ \A i : rf_rdata(i)' = rf_rdata(i) /\ vrf_rdata(i)' = vrf_rdata(i)
          /\ rs1_index(insn_fields)' = rs1_index(insn_fields)
      BY <2>2, <2>3 DEF rf_rdata, vrf_rdata, rs1_index, is_u_type
    <2>5. PICK c \in vmac_controls(insn_fields) : ctl' = Decode(insn_fields, c)
      BY <2>1 DEF CpuDecode
    <2>6. vmac_controls(insn_fields)' = vmac_controls(insn_fields) /\ Decode(insn_fields, c)' = Decode(insn_fields, c)
      BY <2>3
    <2>7. DecodedRight'
      BY <2>3, <2>5 DEF DecodedRight
    <2>8. OperandsRight'
      BY <2>1, <2>3, <2>4 DEF CpuDecode, OperandsRight
    <2> QED
      BY <2>7, <2>8
  <1>2. CASE cpu_state \in {"EXEC", "MEM"}
    <2>1. /\ insn_reg' = insn_reg /\ regs' = regs /\ vregs' = vregs /\ ctl' = ctl
          /\ rdata1_reg' = rdata1_reg /\ rdata2_reg' = rdata2_reg
          /\ vs1_data_reg' = vs1_data_reg /\ vs2_data_reg' = vs2_data_reg
      BY <1>2, CoreMoves
    <2>2. insn_fields' = insn_fields
      BY <2>1 DEF insn_fields
    <2>3. DecodedRight'
      BY <1>2, <2>1, <2>2 DEF ExecInv, DecodedRight
    <2>4. OperandsRight'
      BY <1>2, <2>1, <2>2 DEF ExecInv, OperandsRight, rf_rdata, vrf_rdata, rs1_index, is_u_type
    <2> QED
      BY <2>3, <2>4
  <1> QED
    BY <1>1, <1>2, CoreMoves

\* The latched decoder outputs in terms of the instruction.
LEMMA ControlIs ==
  ASSUME NEW g, NEW c
  PROVE  LET d == Decode(g, c)
         IN  /\ d.rd = g.rd /\ d.imm = immediate(g) /\ d.alu_ctrl = alu_control(g)
             /\ d.alu_src2_sel = (is_i_type(g) \/ g.opcode = STORE \/ is_u_type(g))
             /\ d.mem_write = (g.opcode = STORE) /\ d.mem_read = (g.opcode = LOAD)
             /\ d.mem_mask = access_width(g)
             /\ d.mem_sign_extend = (g.opcode = LOAD /\ g.funct3 < 4)
             /\ d.is_branch = (g.opcode = BRANCH) /\ d.branch_if_set = (g.funct3 % 2 = 1)
             /\ d.is_branch_compare = (g.opcode = BRANCH /\ g.funct3 >= 4)
             /\ d.is_jal = (g.opcode = JAL) /\ d.is_jalr = (g.opcode = JALR)
             /\ d.is_auipc = (g.opcode = AUIPC)
             /\ d.reg_write = writes_scalar(g)
             /\ d.ebreak_hit = (g.opcode = SYSTEM /\ g.funct3 = 0)
             /\ d.is_vmac = is_vmac_type(g) /\ d.vmac_ctrl = c
             /\ d.is_rdwrctr = is_rdwrctr_type(g)
             /\ d.rdwrctr_wen = (is_rdwrctr_type(g) /\ g.funct7 >= 64)
             /\ d.rdwrctr_ctr_id = g.rs2 % 4
             /\ d.is_vec_op = is_vec_type(g) /\ d.vec_op = vec_operation(g)
             /\ d.vec_sew = (IF is_vec_type(g) THEN g.funct7 \div 32 ELSE 0)
             /\ d.is_vec_load = is_vec_load_type(g) /\ d.is_vec_store = is_vec_store_type(g)
             /\ d.is_vec_vmac = is_vec_vmac_type(g) /\ d.vec_reg_write = writes_vector(g)
  BY DEF Decode

\* The address and the data of a scalar access stay on the bus.
LEMMA AccessStep ==
  ASSUME Inv, DataInv, ExecInv, ClockEdge
  PROVE  MemRight'
  <1> SUFFICES ASSUME cpu_state' = "MEM" PROVE MemRight'
    BY DEF MemRight
  <1>1. cpu_state \in {"EXEC", "MEM"}
    BY CoreMoves
  <1>2. /\ insn_reg' = insn_reg /\ regs' = regs /\ ctl' = ctl /\ rdata2_reg' = rdata2_reg
    BY <1>1, CoreMoves
  <1>3. /\ insn_fields' = insn_fields /\ store_data' = store_data
        /\ \A a : store_lanes(a)' = store_lanes(a)
        /\ rf_rdata(insn_fields.rs1)' = rf_rdata(insn_fields.rs1)
    BY <1>2 DEF insn_fields, store_data, store_lanes, rf_rdata
  <1>4. store_lanes(alu_out_reg)' = store_lanes(alu_out_reg')
    BY <1>2 DEF store_lanes
  <1>5. CASE cpu_state = "MEM"
    <2>1. alu_out_reg' = alu_out_reg /\ (dreq' = dreq \/ dreq' = Withdrawn(dreq))
      BY <1>5, CoreMoves DEF MemAccept, MemAwait
    <2>2. dreq \in BusRequest
      BY DEF DataInv, CpuFits
    <2>3. dreq'.addr = dreq.addr /\ dreq'.wdata = dreq.wdata /\ dreq'.wmask = dreq.wmask
      BY <2>1, <2>2 DEF Withdrawn, BusRequest
    <2>4. MemRight
      BY DEF ExecInv
    <2> QED
      BY <1>2, <1>3, <1>4, <1>5, <2>1, <2>3, <2>4 DEF MemRight
  <1>6. CASE cpu_state = "EXEC"
    <2>1. ExecScalar
      BY <1>6, CoreMoves DEF ExecRdwrctr, ExecVectorWait, ExecVectorDone, ExecVmacWait, ExecVmacDone
    <2>2. ctl.mem_read \/ ctl.mem_write
      BY <2>1 DEF ExecScalar
    <2>3. PICK k \in alu_controls : /\ alu_out_reg' = alu_out(alu_op1, alu_op2, k)
                                    /\ dreq' = scalar_request(alu_out_reg')
      BY <2>1, <2>2 DEF ExecScalar
    <2>4. PICK c \in vmac_controls(insn_fields) : ctl = Decode(insn_fields, c)
      BY <1>6 DEF ExecInv, DecodedRight
    <2> DEFINE g == insn_fields
    <2>5. /\ ctl.mem_write = (g.opcode = STORE) /\ ctl.mem_read = (g.opcode = LOAD)
          /\ ctl.is_auipc = (g.opcode = AUIPC) /\ ctl.alu_ctrl = alu_control(g)
          /\ ctl.alu_src2_sel = (is_i_type(g) \/ g.opcode = STORE \/ is_u_type(g))
      BY <2>4, ControlIs
    <2> HIDE DEF g
    <2>6. g.opcode \in {LOAD, STORE}
      BY <2>2, <2>5
    <2>7. ctl.alu_ctrl = ADD /\ ctl.alu_src2_sel /\ ~ctl.is_auipc /\ rs1_index(g) = g.rs1
      <3>1. alu_control(g) = ADD
        BY <2>6 DEF alu_control, is_vmac_type, is_vec_type, OP, OPIMM, BRANCH, CUSTOM, LOAD, STORE
      <3>2. ~is_u_type(g) /\ g.opcode # AUIPC /\ (is_i_type(g) \/ g.opcode = STORE)
        BY <2>6 DEF is_i_type, is_u_type, LOAD, STORE, AUIPC, LUI
      <3> QED
        BY <2>5, <3>1, <3>2 DEF rs1_index
    <2>8. k = ADD
      BY <2>3, <2>7 DEF alu_controls, ADD, ALU_X
    <2>9. alu_op1 = rf_rdata(insn_fields.rs1) /\ alu_op2 = ctl.imm
      BY <2>7 DEF alu_op1, alu_op2, g
    <2>10. alu_op1 \in Word /\ alu_op2 \in Word
      BY OperandsFit DEF DataInv
    <2>11. alu_out_reg' = (rf_rdata(insn_fields.rs1) + ctl.imm) % WordMod
      BY <2>3, <2>8, <2>9, <2>10, AluSums
    <2>12. dreq \in BusRequest
      BY DEF DataInv, CpuFits
    <2>13. /\ dreq'.addr = alu_out_reg'
           /\ ctl.mem_write => dreq'.wdata = store_data /\ dreq'.wmask = store_lanes(alu_out_reg')
      BY <2>3, <2>12 DEF scalar_request, BusRequest
    <2> QED
      BY <1>2, <1>3, <1>4, <2>2, <2>11, <2>13 DEF MemRight
  <1> QED
    BY <1>1, <1>5, <1>6

\* The core starts in FETCH, with nothing under way.
LEMMA ExecInit ==
  ASSUME ParModes \subseteq {TRUE}, Init
  PROVE  ExecInv
  <1>1. /\ cpu_state = "FETCH" /\ ~valu_computing /\ ~valu_valid_out
        /\ ~vmac_computing /\ ~vmac_valid_out /\ vlsu_state = "IDLE" /\ ~vlsu_done
    BY DEF Init, CpuInit, ValuInit, VmacInit, VlsuInit
  <1>2. Running
    BY DEF Init, DeviceInit, Running
  <1> QED
    BY <1>1, <1>2 DEF ExecInv, FetchedRight, InFlight, DecodedRight, OperandsRight, ValuRight,
       VmacRight, VlsuRight, MemRight, Waiting

\* Every clock edge keeps the invariant of the instruction under way.
LEMMA ExecStep ==
  ASSUME Wide, Inv, DataInv, ExecInv, ClockEdge
  PROVE  ExecInv'
  <1>1. Running'
    BY DEF ExecInv, Running, ClockEdge, DeviceStep
  <1> QED
    BY <1>1, FetchedStep, LatchedStep, UnitsRight, VlsuWorks, AccessStep DEF ExecInv

\* Without resets every step is a clock edge.
LEMMA NoReset ==
  ASSUME MaxResets = 0, Running, Next
  PROVE  ClockEdge
  BY DEF Running, Next, ResetEdge

-----------------------------------------------------------------------------
(* The program counter, the registers and the counters of the program *)

\* The program-counter adders add (ucrv32.v:139-153).
LEMMA CounterAdds ==
  ASSUME DataInv
  PROVE  /\ pc_plus_4 = (pc_saved + 4) % WordMod
         /\ pc_plus_imm = (pc_saved + ctl.imm) % WordMod
  <1>1. pc_saved \in Word /\ ctl.imm \in Word /\ 4 \in Word
    BY Ranges DEF DataInv, CpuFits, CtlFits
  <1>2. \A a, b \in Word : ripple_carry_adder(a, b, 0).sum = (a + b) % WordMod
    <2> SUFFICES ASSUME NEW a \in Word, NEW b \in Word
                 PROVE  ripple_carry_adder(a, b, 0).sum = (a + b) % WordMod
      OBVIOUS
    <2> DEFINE s == ripple_carry_adder(a, b, 0).sum
               k == ripple_carry_adder(a, b, 0).cout
    <2>1. s \in Word /\ k \in 0 .. 1 /\ s + k * WordMod = a + b + 0
      BY AdderAdds
    <2> HIDE DEF s, k
    <2>2. WordMod \in Nat \ {0} /\ s \in 0 .. WordMod - 1 /\ k \in Int /\ a \in Nat /\ b \in Nat
      BY <2>1, Ranges DEF Word
    <2>3. (k * WordMod + s) % WordMod = s
      BY <2>2, ModUnique
    <2>4. k * WordMod + s = a + b
      BY <2>1, <2>2
    <2> QED
      BY <2>3, <2>4 DEF s
  <1> QED
    BY <1>1, <1>2 DEF pc_plus_4, pc_plus_imm

\* A remainder is its own remainder.
LEMMA ModTwice ==
  ASSUME NEW n \in Nat \ {0}, NEW a \in Int
  PROVE  ((a % n) + 0) % n = a % n
  <1> DEFINE r == a % n
  <1>1. r \in 0 .. n - 1
    BY DivMod
  <1> HIDE DEF r
  <1>2. r + 0 = r /\ r % n = r
    BY <1>1, SMT
  <1> QED
    BY <1>2 DEF r

\* The program's counters, before and after its instruction has retired.
LEMMA CountersAre ==
  ASSUME DataInv, NEW i \in 1 .. 3
  PROVE  /\ ~committed => isa_count[i] = ctr[i]
         /\ ctr[i] \in 0 .. CtrMod - 1 /\ CtrMod \in Nat \ {0} /\ ctr[i] % CtrMod = ctr[i]
         /\ isa_count[i] = (ctr[i] + Flag(i = 1 /\ committed)) % CtrMod
  <1>1. ctr[i] \in 0 .. CtrMod - 1 /\ CtrMod \in Nat \ {0}
    BY CtrModAssumption, Ranges, SMTT(30) DEF DataInv, CpuFits
  <1>2. ctr[i] % CtrMod = ctr[i]
    <2> DEFINE n == ctr[i]
    <2>1. n \in 0 .. CtrMod - 1
      BY <1>1
    <2> HIDE DEF n
    <2>2. n % CtrMod = n
      BY <1>1, <2>1, SMT
    <2> QED
      BY <2>2 DEF n
  <1>3. isa_count[i] = (ctr[i] + Flag(i = 1 /\ committed)) % CtrMod
    BY DEF isa_count, INSN
  <1>4. ~committed => Flag(i = 1 /\ committed) = 0 /\ ctr[i] + 0 = ctr[i]
    BY <1>1 DEF Flag
  <1> QED
    BY <1>1, <1>2, <1>3, <1>4

\* The state of the program while its instruction is under way.
LEMMA Before ==
  ASSUME Inv, DataInv, ExecInv, cpu_state \in {"DECODE", "EXEC", "MEM"}, ~vst_committed
  PROVE  /\ isa_pc = pc_saved /\ isa_m = mem /\ isa_x = regs /\ isa_v = vregs
         /\ isa_brk = break_hit /\ ~committed
         /\ \A i \in 1 .. 3 : isa_count[i] = ctr[i]
         /\ Current = insn_fields /\ insn_fields \in Insn /\ ProgramTyped
         /\ \A i : Operand(i) = rf_rdata(i) /\ OperandV(i) = vrf_rdata(i)
  <1>1. isa_pc = pc_saved /\ isa_m = mem /\ isa_x = regs /\ isa_v = vregs /\ ~committed
    BY DEF isa_pc, isa_m, isa_x, isa_v, committed
  <1>2. isa_brk = break_hit
    BY DEF isa_brk, ebreak_hit, Inv, ControlTypeOK
  <1>3. \A i \in 1 .. 3 : isa_count[i] = ctr[i]
    BY <1>1, CountersAre
  <1>4. insn_reg = mem[word_index(pc_saved)]
    BY DEF ExecInv, FetchedRight, InFlight
  <1>5. Current = insn_fields
    BY <1>1, <1>4 DEF Current, insn_fields
  <1>6. insn_fields \in Insn
    BY OperandsFit DEF DataInv
  <1>7. regs \in [0 .. 31 -> Word] /\ vregs \in [0 .. 31 -> VWord]
    BY DEF DataInv, CpuFits
  <1> QED
    BY <1>1, <1>2, <1>3, <1>5, <1>6, <1>7 DEF ProgramTyped, Operand, OperandV, rf_rdata, vrf_rdata

\* Counting one instruction, and a load or a store with it.
LEMMA CountsOne ==
  ASSUME Inv, DataInv, ~committed, committed',
         NEW id \in 1 .. 3, ctr' = Counted(IF id = 1 THEN {CYCLE} ELSE {CYCLE, id})
  PROVE  CountsUp(id)
  <1> SUFFICES ASSUME NEW i \in 1 .. 3
               PROVE  isa_count'[i] = (isa_count[i] + (IF i \in {1, id} THEN 1 ELSE 0)) % CtrMod
    BY DEF CountsUp, isa_count
  <1>1. isa_count[i] = ctr[i] /\ ctr[i] \in 0 .. CtrMod - 1 /\ CtrMod \in Nat \ {0}
    BY CountersAre
  <1>2. isa_count'[i] = (ctr'[i] + Flag(i = 1)) % CtrMod
    BY DEF isa_count, INSN, Flag
  <1>3. CASE i = id /\ id # 1
    <2>1. ctr'[i] = (ctr[i] + 1) % CtrMod
      BY <1>3 DEF Counted
    <2>2. Flag(i = 1) = 0
      BY <1>3 DEF Flag
    <2>3. ctr[i] + 1 \in Int
      BY <1>1
    <2>4. isa_count'[i] = (ctr[i] + 1) % CtrMod
      BY <1>1, <1>2, <2>1, <2>2, <2>3, ModTwice
    <2> QED
      BY <1>1, <1>3, <2>4
  <1>4. CASE ~(i = id /\ id # 1)
    <2>1. ctr'[i] = ctr[i]
      BY <1>4 DEF Counted, CYCLE
    <2>2. Flag(i = 1) = IF i \in {1, id} THEN 1 ELSE 0
      BY <1>4 DEF Flag
    <2> QED
      BY <1>1, <1>2, <2>1, <2>2
  <1> QED
    BY <1>3, <1>4

\* The state of the program as its instruction enters WB.
LEMMA Retires ==
  ASSUME Inv, DataInv, ExecInv, ClockEdge, cpu_state \in {"EXEC", "MEM"}, cpu_state' = "WB"
  PROVE  /\ isa_pc' = pc_reg' /\ isa_m' = mem' /\ committed' /\ ~vst_committed'
         /\ isa_brk' = (break_hit \/ ctl.ebreak_hit)
         /\ isa_x' = IF ctl.reg_write /\ ctl.rd # 0 THEN [regs EXCEPT ![ctl.rd] = wb_data'] ELSE regs
         /\ isa_v' = IF ctl.vec_reg_write /\ ctl.rd # 0
                     THEN [vregs EXCEPT ![ctl.rd] = vec_result_reg'] ELSE vregs
         /\ wb_data' = (CASE ctl.is_jal \/ ctl.is_jalr -> pc_plus_4
                          [] ctl.mem_read              -> mem_data_extended'
                          [] OTHER                     -> alu_out_reg')
  <1>1. ctl' = ctl /\ regs' = regs /\ vregs' = vregs /\ pc_saved' = pc_saved
    BY CoreMoves
  <1>2. ~vst_committed'
    BY DEF vst_committed
  <1>3. isa_pc' = pc_reg' /\ isa_m' = mem' /\ committed'
    BY <1>2 DEF isa_pc, isa_m, committed
  <1>4. isa_brk' = (break_hit \/ ctl.ebreak_hit)
    <2>1. break_hit' = (break_hit \/ ebreak_hit) /\ ~ebreak_hit
      BY DEF ClockEdge, ebreak_hit
    <2>2. ebreak_hit' = (ctl.ebreak_hit /\ TRUE) /\ ctl.ebreak_hit \in BOOLEAN
      BY <1>1 DEF ebreak_hit, Inv, ControlTypeOK, ControlFlags
    <2> QED
      BY <2>1, <2>2 DEF isa_brk
  <1>5. /\ isa_x' = IF ctl.reg_write /\ ctl.rd # 0 THEN [regs EXCEPT ![ctl.rd] = wb_data'] ELSE regs
        /\ isa_v' = IF ctl.vec_reg_write /\ ctl.rd # 0
                    THEN [vregs EXCEPT ![ctl.rd] = vec_result_reg'] ELSE vregs
    BY <1>1 DEF isa_x, isa_v, RegsWritten, VregsWritten
  <1>6. pc_plus_4' = pc_plus_4
    BY <1>1 DEF pc_plus_4
  <1> QED
    BY <1>1, <1>2, <1>3, <1>4, <1>5, <1>6 DEF wb_data

-----------------------------------------------------------------------------
(* The steps the program does not see *)

\* An edge the program does not see.
ProgramUnchanged == /\ isa_pc' = isa_pc /\ isa_x' = isa_x /\ isa_v' = isa_v
                    /\ isa_m' = isa_m /\ isa_count' = isa_count /\ isa_brk' = isa_brk

\* The cycle counter is not one of the program's.
LEMMA CyclesUnseen ==
  ASSUME ctr' = Counted({CYCLE}), committed' = committed
  PROVE  isa_count' = isa_count
  <1>1. \A i \in 1 .. 3 : ctr'[i] = ctr[i]
    BY DEF Counted, CYCLE
  <1> QED
    BY <1>1 DEF isa_count

\* Fetching and decoding.
LEMMA FrontStutters ==
  ASSUME Inv, DataInv, ExecInv, ClockEdge, cpu_state \in {"FETCH", "DECODE"}
  PROVE  ProgramUnchanged
  <1>1. Running
    BY DEF ExecInv
  <1>2. vlsu_state = "IDLE" /\ ~vlsu_done /\ ~vlsu_start_reg
    BY UnitsOwned
  <1>3. vlsu_state' = "IDLE" /\ ~vlsu_done'
    BY <1>2, ClockUnits DEF UnitsMoved, VlsuMoved
  <1>4. ~vst_committed /\ ~vst_committed'
    BY <1>3 DEF vst_committed
  <1>5. mem' = mem
    BY <1>1, <1>2, MemoryMoves DEF Waiting
  <1>6. /\ cpu_state = "FETCH" => cpu_state' = "DECODE" /\ pc_saved' = pc_reg
        /\ cpu_state = "DECODE" => cpu_state' = "EXEC" /\ pc_saved' = pc_saved
        /\ regs' = regs /\ vregs' = vregs /\ ctr' = Counted({CYCLE})
    BY CoreMoves DEF CpuFetch, CpuDecode, files
  <1>7. committed = FALSE /\ committed' = FALSE
    BY <1>4, <1>6 DEF committed
  <1>8. isa_count' = isa_count
    BY <1>6, <1>7, CyclesUnseen
  <1>9. isa_brk' = isa_brk
    <2>1. break_hit' = (break_hit \/ ebreak_hit) /\ ~ebreak_hit /\ ~ebreak_hit' /\ break_hit \in BOOLEAN
      BY <1>6 DEF ClockEdge, ebreak_hit, Inv, ControlTypeOK
    <2> QED
      BY <2>1 DEF isa_brk
  <1>10. isa_pc' = isa_pc /\ isa_x' = isa_x /\ isa_v' = isa_v /\ isa_m' = isa_m
    BY <1>4, <1>5, <1>6 DEF isa_pc, isa_x, isa_v, isa_m
  <1> QED
    BY <1>8, <1>9, <1>10 DEF ProgramUnchanged

\* Writing back.
LEMMA BackStutters ==
  ASSUME Inv, DataInv, ExecInv, ClockEdge, cpu_state = "WB"
  PROVE  ProgramUnchanged
  <1>1. Running
    BY DEF ExecInv
  <1>2. CpuWriteback
    BY CoreMoves
  <1>3. /\ cpu_state' = "FETCH" /\ pc_reg' = pc_reg /\ regs' = RegsWritten /\ vregs' = VregsWritten
        /\ ctr' = Counted({CYCLE, INSN})
    BY <1>2 DEF CpuWriteback
  <1>4. ~vst_committed /\ ~vst_committed' /\ committed /\ ~committed'
    BY <1>3 DEF vst_committed, committed
  <1>5. mem' = mem
    <2>1. vlsu_state = "IDLE"
      BY UnitsOwned
    <2> QED
      BY <1>1, <2>1, MemoryMoves DEF Waiting
  <1>6. isa_brk' = isa_brk
    <2>1. break_hit' = (break_hit \/ ebreak_hit) /\ ~ebreak_hit'
      BY <1>3 DEF ClockEdge, ebreak_hit
    <2> QED
      BY <2>1 DEF isa_brk
  <1>7. isa_count' = isa_count
    <2> SUFFICES ASSUME NEW i \in 1 .. 3 PROVE isa_count'[i] = isa_count[i]
      BY DEF isa_count
    <2>1. /\ ctr[i] \in 0 .. CtrMod - 1 /\ CtrMod \in Nat \ {0} /\ ctr[i] % CtrMod = ctr[i]
          /\ isa_count[i] = (ctr[i] + Flag(i = 1)) % CtrMod
      BY <1>4, CountersAre DEF Flag
    <2>2. isa_count'[i] = (ctr'[i] + 0) % CtrMod
      BY <1>4 DEF isa_count, INSN, Flag
    <2>3. CASE i = 1
      <3>1. ctr'[i] = (ctr[i] + 1) % CtrMod
        BY <1>3, <2>3 DEF Counted, INSN
      <3>2. ctr[i] + 1 \in Int
        BY <2>1
      <3>3. isa_count'[i] = (ctr[i] + 1) % CtrMod
        BY <2>1, <2>2, <3>1, <3>2, ModTwice
      <3> QED
        BY <2>1, <2>3, <3>3 DEF Flag
    <2>4. CASE i # 1
      <3>1. ctr'[i] = ctr[i]
        BY <1>3, <2>4 DEF Counted, INSN, CYCLE
      <3> QED
        BY <2>1, <2>2, <2>4, <3>1 DEF Flag
    <2> QED
      BY <2>3, <2>4
  <1>8. isa_pc' = isa_pc /\ isa_x' = isa_x /\ isa_v' = isa_v /\ isa_m' = isa_m
    BY <1>3, <1>4, <1>5 DEF isa_pc, isa_x, isa_v, isa_m
  <1> QED
    BY <1>6, <1>7, <1>8 DEF ProgramUnchanged

\* Waiting in EXEC or MEM for an instruction that has not taken effect.
LEMMA WaitStutters ==
  ASSUME Inv, DataInv, ExecInv, ClockEdge, cpu_state \in {"EXEC", "MEM"},
         cpu_state' \in {"EXEC", "MEM"}, ~vst_committed, ~vst_committed'
  PROVE  ProgramUnchanged
  <1>1. /\ pc_saved' = pc_saved /\ insn_reg' = insn_reg /\ regs' = regs /\ vregs' = vregs
    BY CoreMoves
  <1>2. mem' = mem
    <2>2. CASE cpu_state = "MEM"
      <3>1. ~(dreq.valid /\ dreq.write)
        <4> SUFFICES ASSUME dreq.valid, dreq.write PROVE FALSE
          OBVIOUS
        <4>1. ~ctl.mem_read
          BY <2>2 DEF Inv, MemConsistent, ControlTypeOK, ControlFlags
        <4>2. MemAccept(dmem_req_ready)
          BY <2>2, CoreMoves, Quiet DEF MemAwait, ExecInv
        <4> QED
          BY <4>1, <4>2 DEF MemAccept, after_accept
      <3> QED
        BY <2>2, <3>1, MemoryMoves DEF ExecInv
    <2>3. CASE cpu_state = "EXEC"
      <3>1. ~(vlsu_state \in Waiting /\ vlsu_is_store_reg)
        BY <2>3, StoreCommits
      <3> QED
        BY <2>3, <3>1, MemoryMoves DEF ExecInv
    <2> QED
      BY <2>2, <2>3
  <1>3. ctr' = Counted({CYCLE})
    <2>1. CASE cpu_state = "EXEC"
      <3>1. ~ExecRdwrctr
        BY DEF ExecRdwrctr
      <3>2. /\ ExecVectorWait => ctr' = Counted({CYCLE})
            /\ ExecVectorDone => ctr' = Counted({CYCLE})
            /\ ExecVmacWait => ctr' = Counted({CYCLE})
            /\ ExecVmacDone => ctr' = Counted({CYCLE})
            /\ ExecScalar => ctr' = Counted({CYCLE})
        BY DEF ExecVectorWait, ExecVectorDone, ExecVmacWait, ExecVmacDone, ExecScalar
      <3> QED
        BY <2>1, <3>1, <3>2, CoreMoves
    <2>2. CASE cpu_state = "MEM"
      BY <2>2, CoreMoves DEF MemAccept, MemAwait, after_accept
    <2> QED
      BY <2>1, <2>2
  <1>4. committed = FALSE /\ committed' = FALSE
    BY DEF committed
  <1>5. isa_count' = isa_count
    BY <1>3, <1>4, CyclesUnseen
  <1>6. isa_brk' = isa_brk
    <2>1. break_hit' = (break_hit \/ ebreak_hit) /\ ~ebreak_hit /\ ~ebreak_hit' /\ break_hit \in BOOLEAN
      BY DEF ClockEdge, ebreak_hit, Inv, ControlTypeOK
    <2> QED
      BY <2>1 DEF isa_brk
  <1>7. isa_pc' = isa_pc /\ isa_x' = isa_x /\ isa_v' = isa_v /\ isa_m' = isa_m
    BY <1>1, <1>2 DEF isa_pc, isa_x, isa_v, isa_m
  <1> QED
    BY <1>5, <1>6, <1>7 DEF ProgramUnchanged

\* A vector store that has taken effect: its second word, its completion.
LEMMA StoreStutters ==
  ASSUME Inv, DataInv, ExecInv, ClockEdge, vst_committed
  PROVE  ProgramUnchanged
  <1>1. /\ cpu_state = "EXEC" /\ ctl.is_vec_op /\ ctl.is_vec_store
        /\ vlsu_state \in {"REQ_WORD1", "WAIT_WORD1", "COMPLETE"} \/ vlsu_done
    BY DEF vst_committed
  <1>2. Running /\ VlsuRight
    BY DEF ExecInv
  <1>3. /\ pc_saved' = pc_saved /\ regs' = regs /\ vregs' = vregs /\ ctl' = ctl
    BY <1>1, CoreMoves
  <1>4. vst_committed' \/ cpu_state' = "WB"
    BY <1>2, CommittedStays
  <1>5. committed = TRUE /\ committed' = TRUE
    BY <1>4 DEF committed
  <1>6. ~ctl.is_rdwrctr /\ vec_mem_op /\ OneOf(vlsu_start_reg, vlsu_state # "IDLE", vlsu_done)
    BY <1>1, UnitsOwned
  <1>7. ExecVectorWait \/ ExecVectorDone
    BY <1>1, <1>6, CoreMoves DEF ExecRdwrctr, ExecVmacWait, ExecVmacDone, ExecScalar
  <1>8. isa_count' = isa_count
    <2>1. ctr' = Counted({CYCLE})
      BY <1>7 DEF ExecVectorWait, ExecVectorDone
    <2> QED
      BY <1>5, <2>1, CyclesUnseen
  <1>9. PICK c \in vmac_controls(insn_fields) : ctl = Decode(insn_fields, c)
    BY <1>1 DEF ExecInv, DecodedRight
  <1>10. ~ctl.ebreak_hit /\ ~ctl.reg_write /\ ~ctl.vec_reg_write
    <2> DEFINE g == insn_fields
    <2>1. /\ ctl.is_vec_store = is_vec_store_type(g) /\ ctl.reg_write = writes_scalar(g)
          /\ ctl.vec_reg_write = writes_vector(g) /\ ctl.ebreak_hit = (g.opcode = SYSTEM /\ g.funct3 = 0)
      BY <1>9, ControlIs
    <2> HIDE DEF g
    <2>2. is_vec_type(g) /\ vop(g) = 5 /\ g.opcode = 91 /\ g.funct3 = 2
      BY <1>1, <2>1 DEF is_vec_store_type, is_vec_type, CUSTOM, VOP_VST
    <2>3. ~writes_scalar(g)
      BY <2>2 DEF writes_scalar, is_vmac_type, is_rdwrctr_type, is_vec_vmac_type, VOP_VMAC
    <2>4. ~writes_vector(g)
      BY <2>2 DEF writes_vector, VOP_VADD, VOP_VSUB, VOP_VMUL, VOP_VLD, VOP_VMOV_S2V
    <2>5. ~(g.opcode = SYSTEM /\ g.funct3 = 0)
      BY <2>2
    <2> QED
      BY <2>1, <2>3, <2>4, <2>5, Zenon
  <1>11. isa_brk' = isa_brk
    <2>1. break_hit' = (break_hit \/ ebreak_hit) /\ ~ebreak_hit /\ ~ebreak_hit' /\ break_hit \in BOOLEAN
      BY <1>1, <1>3, <1>10 DEF ClockEdge, ebreak_hit, Inv, ControlTypeOK
    <2> QED
      BY <2>1 DEF isa_brk
  <1>12. isa_x' = isa_x /\ isa_v' = isa_v
    BY <1>1, <1>3, <1>10 DEF isa_x, isa_v, RegsWritten, VregsWritten
  <1>13. VlsuStep(vlsu_start_reg, ctl.is_vec_store, rdata1_reg, vs2_data_reg,
                  dmem_req_ready, dmem_resp_valid, dmem_resp_rdata)
    BY DEF ClockEdge, UnitSteps
  <1>14. vlsu_is_store_reg
    BY <1>1, <1>2 DEF VlsuRight
  <1>15. mem \in [0 .. MemWords - 1 -> Word] /\ vlsu_addr_reg \in Word /\ vlsu_data_reg \in VWord
    BY DEF DataInv, MemFits, VlsuFits
  <1> DEFINE k == word_index(second_addr)
             d == vlsu_data_reg[2]
  <1>16. k \in 0 .. MemWords - 1 /\ d \in Word
    BY <1>15, VectorAddresses, IndexFits DEF VWord
  <1>17. isa_m = [mem EXCEPT ![k] = d]
    BY DEF isa_m, second_addr
  <1>18. CASE vlsu_done
    <2>1. ExecVectorDone
      BY <1>6, <1>7, <1>18 DEF ExecVectorWait, vec_unit_done
    <2>2. cpu_state' = "WB" /\ pc_reg' = pc_plus_4
      BY <2>1 DEF ExecVectorDone
    <2>3. ~vst_committed'
      BY <2>2 DEF vst_committed
    <2>4. isa_pc' = isa_pc
      BY <1>1, <2>2, <2>3, CounterAdds DEF isa_pc
    <2>5. mem' = mem
      <3>1. vlsu_state = "IDLE"
        BY <1>6, <1>18 DEF OneOf
      <3> QED
        BY <1>1, <1>2, <3>1, MemoryMoves DEF Waiting
    <2>6. mem[k] = d
      BY <1>1, <1>2, <1>18 DEF VlsuRight
    <2> HIDE DEF k, d
    <2>7. isa_m' = isa_m
      BY <1>15, <1>16, <1>17, <2>3, <2>5, <2>6 DEF isa_m
    <2> QED
      BY <1>8, <1>11, <1>12, <2>4, <2>7 DEF ProgramUnchanged
  <1>19. CASE ~vlsu_done
    <2>1. ExecVectorWait
      BY <1>6, <1>7, <1>19 DEF ExecVectorDone, vec_unit_done
    <2>2. cpu_state' = "EXEC" /\ vst_committed'
      BY <1>1, <1>4, <2>1 DEF ExecVectorWait
    <2>3. isa_pc' = isa_pc
      BY <1>3, <2>2 DEF isa_pc
    <2>4. vlsu_addr_reg' = vlsu_addr_reg /\ vlsu_data_reg' = vlsu_data_reg
      BY <1>1, <1>13, <1>14, <1>19 DEF VlsuStep, VlsuIdle, VlsuRequest, VlsuWait, VlsuComplete
    <2>5. isa_m' = [mem' EXCEPT ![k] = d]
      BY <2>2, <2>4 DEF isa_m, second_addr, word_index
    <2>6. mem' = mem \/ mem' = [mem EXCEPT ![k] = d]
      <3>1. CASE vlsu_state = "WAIT_WORD1"
        <4>1. mem' = Written(mem, vlsu_mem)
          BY <1>2, <1>14, <3>1, MemoryMoves DEF Waiting
        <4>2. vlsu_mem.addr = second_addr /\ vlsu_mem.wdata = d /\ vlsu_mem.wmask = 0 .. 3
          BY <1>1, <1>2, <1>15, <3>1, VectorAddresses DEF VlsuRight, Waiting
        <4>3. Masked(mem[k], d, 0 .. 3) = d
          BY <1>16, WholeWord
        <4> QED
          BY <4>1, <4>2, <4>3 DEF Written
      <3>2. CASE vlsu_state # "WAIT_WORD1"
        BY <1>1, <1>2, <1>19, <3>2, MemoryMoves DEF Waiting
      <3> QED
        BY <3>1, <3>2
    <2> HIDE DEF k, d
    <2>7. isa_m' = isa_m
      BY <1>15, <1>16, <1>17, <2>5, <2>6
    <2> QED
      BY <1>8, <1>11, <1>12, <2>3, <2>7 DEF ProgramUnchanged
  <1> QED
    BY <1>18, <1>19

-----------------------------------------------------------------------------
(* The steps that execute an instruction *)

\* What every instruction that enters WB does.
LEMMA Commits ==
  ASSUME Wide, Inv, DataInv, ExecInv, ClockEdge, cpu_state \in {"EXEC", "MEM"}, cpu_state' = "WB",
         ~vst_committed, NEW g, g = insn_fields, NEW c, ctl = Decode(g, c)
  PROVE  /\ g \in Insn /\ g = Current /\ ProgramTyped
         /\ writes_scalar(g) => Writes(g.rd, wb_data')
         /\ ~writes_scalar(g) => isa_x' = isa_x
         /\ writes_vector(g) => WritesV(g.rd, vec_result_reg')
         /\ ~writes_vector(g) => isa_v' = isa_v
         /\ isa_brk' = (isa_brk \/ (g.opcode = SYSTEM /\ g.funct3 = 0))
         /\ g.opcode # SYSTEM => isa_brk' = isa_brk
         /\ isa_pc' = pc_reg' /\ (pc_reg' = pc_plus_4 => GoesTo(isa_pc + 4))
         /\ isa_m = mem /\ isa_m' = mem' /\ (cpu_state = "EXEC" => isa_m' = isa_m)
         /\ g.opcode \in {JAL, JALR} => wb_data' = (isa_pc + 4) % WordMod
         /\ g.opcode = LOAD => wb_data' = mem_data_extended'
         /\ g.opcode \notin {JAL, JALR, LOAD} => wb_data' = alu_out_reg'
         /\ alu_out_reg' \in Word /\ vec_result_reg' \in VWord /\ mem_data_reg' \in Word
         /\ ctr' = Counted({CYCLE}) => CountsUp(1)
         /\ ctr' = Counted({CYCLE, LOADS}) => CountsUp(2)
         /\ ctr' = Counted({CYCLE, STORES}) => CountsUp(3)
  <1>1. /\ isa_pc = pc_saved /\ isa_m = mem /\ isa_x = regs /\ isa_v = vregs
        /\ isa_brk = break_hit /\ ~committed
        /\ Current = insn_fields /\ insn_fields \in Insn /\ ProgramTyped
    BY Before
  <1>2. /\ isa_pc' = pc_reg' /\ isa_m' = mem' /\ committed' /\ ~vst_committed'
        /\ isa_brk' = (break_hit \/ ctl.ebreak_hit)
        /\ isa_x' = IF ctl.reg_write /\ ctl.rd # 0 THEN [regs EXCEPT ![ctl.rd] = wb_data'] ELSE regs
        /\ isa_v' = IF ctl.vec_reg_write /\ ctl.rd # 0
                    THEN [vregs EXCEPT ![ctl.rd] = vec_result_reg'] ELSE vregs
        /\ wb_data' = (CASE ctl.is_jal \/ ctl.is_jalr -> pc_plus_4
                         [] ctl.mem_read              -> mem_data_extended'
                         [] OTHER                     -> alu_out_reg')
    BY Retires
  <1>3. /\ ctl.rd = g.rd /\ ctl.reg_write = writes_scalar(g) /\ ctl.vec_reg_write = writes_vector(g)
        /\ ctl.ebreak_hit = (g.opcode = SYSTEM /\ g.funct3 = 0)
        /\ ctl.is_jal = (g.opcode = JAL) /\ ctl.is_jalr = (g.opcode = JALR)
        /\ ctl.mem_read = (g.opcode = LOAD)
    BY ControlIs
  <1>4. /\ writes_scalar(g) => Writes(g.rd, wb_data')
        /\ ~writes_scalar(g) => isa_x' = isa_x
    BY <1>1, <1>2, <1>3 DEF Writes
  <1>5. /\ writes_vector(g) => WritesV(g.rd, vec_result_reg')
        /\ ~writes_vector(g) => isa_v' = isa_v
    BY <1>1, <1>2, <1>3 DEF WritesV
  <1>6. break_hit \in BOOLEAN
    BY DEF Inv, ControlTypeOK
  <1>7. /\ isa_brk' = (isa_brk \/ (g.opcode = SYSTEM /\ g.funct3 = 0))
        /\ g.opcode # SYSTEM => isa_brk' = isa_brk
    BY <1>1, <1>2, <1>3, <1>6
  <1>8. pc_plus_4 = (isa_pc + 4) % WordMod
    BY <1>1, CounterAdds
  <1>9. cpu_state = "EXEC" => mem' = mem
    <2>1. cpu_state = "EXEC" => ~(vlsu_state \in Waiting /\ vlsu_is_store_reg)
      BY <1>2, StoreCommits
    <2> QED
      BY <2>1, MemoryMoves DEF ExecInv
  <1>10. DataInv'
    BY EdgeFits
  <1>11. alu_out_reg' \in Word /\ vec_result_reg' \in VWord /\ mem_data_reg' \in Word
    BY <1>10 DEF DataInv, CpuFits
  <1>12. /\ g.opcode \in {JAL, JALR} => wb_data' = (isa_pc + 4) % WordMod
         /\ g.opcode = LOAD => wb_data' = mem_data_extended'
         /\ g.opcode \notin {JAL, JALR, LOAD} => wb_data' = alu_out_reg'
    <2>1. LOAD # JAL /\ LOAD # JALR
      BY DEF LOAD, JAL, JALR
    <2>2. /\ g.opcode \in {JAL, JALR} => (ctl.is_jal \/ ctl.is_jalr) /\ ~ctl.mem_read
          /\ g.opcode = LOAD => ~(ctl.is_jal \/ ctl.is_jalr) /\ ctl.mem_read
          /\ g.opcode \notin {JAL, JALR, LOAD} => ~(ctl.is_jal \/ ctl.is_jalr) /\ ~ctl.mem_read
      BY <1>3, <2>1
    <2> QED
      BY <1>2, <1>8, <2>2
  <1>13. /\ ctr' = Counted({CYCLE}) => CountsUp(1)
         /\ ctr' = Counted({CYCLE, LOADS}) => CountsUp(2)
         /\ ctr' = Counted({CYCLE, STORES}) => CountsUp(3)
    BY <1>1, <1>2, CountsOne DEF LOADS, STORES
  <1>14. pc_reg' = pc_plus_4 => GoesTo(isa_pc + 4)
    BY <1>2, <1>8 DEF GoesTo
  <1> QED
    BY <1>1, <1>2, <1>4, <1>5, <1>7, <1>9, <1>11, <1>12, <1>13, <1>14

\* Reading and writing a performance counter (ucrv32.v:544-558).
LEMMA CounterCommits ==
  ASSUME Wide, Inv, DataInv, ExecInv, ClockEdge, ExecRdwrctr
  PROVE  ISA!Next
  <1>1. /\ cpu_state = "EXEC" /\ ctl.is_rdwrctr /\ cpu_state' = "WB" /\ pc_reg' = pc_plus_4
        /\ ctr' = IF ctl.rdwrctr_wen
                  THEN [Counted({CYCLE}) EXCEPT ![ctl.rdwrctr_ctr_id] = rdata1_reg % CtrMod]
                  ELSE Counted({CYCLE})
        /\ ~ctl.rdwrctr_wen => alu_out_reg' = ctr[ctl.rdwrctr_ctr_id]
    BY DEF ExecRdwrctr
  <1> DEFINE g == insn_fields
  <1>2. PICK c \in vmac_controls(g) : ctl = Decode(g, c)
    BY <1>1 DEF ExecInv, DecodedRight
  <1>3. /\ ctl.is_rdwrctr = is_rdwrctr_type(g) /\ ctl.rdwrctr_ctr_id = g.rs2 % 4
        /\ ctl.rdwrctr_wen = (is_rdwrctr_type(g) /\ g.funct7 >= 64)
        /\ ctl.is_vec_op = is_vec_type(g)
    BY <1>2, ControlIs
  <1>4. is_rdwrctr_type(g) /\ g.opcode = 91 /\ g.funct3 = 0 /\ ~is_vec_type(g)
    <2>1. is_rdwrctr_type(g)
      BY <1>1, <1>3
    <2> HIDE DEF g
    <2> QED
      BY <2>1 DEF is_rdwrctr_type, is_vec_type, CUSTOM
  <1>5. ~vst_committed
    BY <1>3, <1>4 DEF vst_committed
  <1>6. writes_scalar(g) /\ ~writes_vector(g)
    BY <1>4 DEF writes_scalar, writes_vector, BRANCH, STORE
  <1>7. g.opcode \notin {JAL, JALR, LOAD, SYSTEM}
    BY <1>4 DEF JAL, JALR, LOAD, SYSTEM
  <1>8. /\ g \in Insn /\ g = Current /\ ProgramTyped /\ Writes(g.rd, wb_data') /\ isa_v' = isa_v
        /\ isa_brk' = isa_brk /\ isa_m' = isa_m /\ wb_data' = alu_out_reg' /\ alu_out_reg' \in Word
        /\ GoesTo(isa_pc + 4) /\ (ctr' = Counted({CYCLE}) => CountsUp(1)) /\ isa_pc' = pc_reg'
    BY <1>1, <1>2, <1>5, <1>6, <1>7, Commits
  <1>9. /\ \A i \in 1 .. 3 : isa_count[i] = ctr[i]
        /\ Operand(g.rs1) = rf_rdata(g.rs1) /\ ~committed
    BY <1>1, <1>5, Before
  <1> HIDE DEF g
  <1>10. g.rs2 % 4 \in 0 .. 3 /\ g.funct7 \in 0 .. 127
    BY <1>8 DEF Insn
  <1>11. g.funct7 < 64 => CountsUp(1) /\ (g.rs2 % 4 # 0 => wb_data' = isa_count[g.rs2 % 4])
    <2> SUFFICES ASSUME g.funct7 < 64
                 PROVE  CountsUp(1) /\ (g.rs2 % 4 # 0 => wb_data' = isa_count[g.rs2 % 4])
      OBVIOUS
    <2>1. ~(g.funct7 >= 64)
      BY <1>10
    <2>2. ~ctl.rdwrctr_wen
      BY <1>3, <2>1
    <2>3. g.rs2 % 4 # 0 => g.rs2 % 4 \in 1 .. 3
      BY <1>10
    <2> QED
      BY <1>1, <1>3, <1>8, <1>9, <2>2, <2>3
  <1>12. g.funct7 >= 64 =>
           isa_count' = [i \in 1 .. 3 |-> ((IF i = g.rs2 % 4 THEN Operand(g.rs1) ELSE isa_count[i])
                                             + Flag(i = 1)) % CtrMod]
    <2> SUFFICES ASSUME g.funct7 >= 64, NEW i \in 1 .. 3
                 PROVE  isa_count'[i] = ((IF i = g.rs2 % 4 THEN Operand(g.rs1) ELSE isa_count[i])
                                             + Flag(i = 1)) % CtrMod
      BY DEF isa_count
    <2>1. ctl.rdwrctr_wen
      BY <1>3, <1>4
    <2>2. isa_count'[i] = (ctr'[i] + Flag(i = 1)) % CtrMod
      BY <1>1 DEF isa_count, INSN, Flag, committed
    <2>3. rdata1_reg = Operand(g.rs1)
      <3>1. rs1_index(g) = g.rs1
        BY <1>4 DEF rs1_index, is_u_type, LUI, AUIPC
      <3> QED
        BY <1>1, <1>9, <3>1 DEF ExecInv, OperandsRight, g
    <2>4. ctr' = [Counted({CYCLE}) EXCEPT ![g.rs2 % 4] = rdata1_reg % CtrMod]
      BY <1>1, <1>3, <2>1
    <2>5. CASE i = g.rs2 % 4
      <3>1. ctr'[i] = rdata1_reg % CtrMod
        BY <2>4, <2>5 DEF Counted
      <3>2. rdata1_reg \in Int /\ Flag(i = 1) \in Int /\ CtrMod \in Nat \ {0}
        <4>1. rdata1_reg \in Word /\ CtrMod \in Nat \ {0}
          BY CountersAre DEF DataInv, CpuFits
        <4>2. Word \subseteq Int
          BY Ranges DEF Word
        <4> QED
          BY <4>1, <4>2 DEF Flag
      <3>3. ((rdata1_reg % CtrMod) + Flag(i = 1)) % CtrMod = (rdata1_reg + Flag(i = 1)) % CtrMod
        BY <3>2, ModAdd
      <3> QED
        BY <2>2, <2>3, <2>5, <3>1, <3>3
    <2>6. CASE i # g.rs2 % 4
      <3>1. ctr'[i] = ctr[i]
        BY <1>10, <2>4, <2>6 DEF Counted, CYCLE
      <3> QED
        BY <1>9, <2>2, <2>6, <3>1
    <2> QED
      BY <2>5, <2>6
  <1> QED
    BY <1>4, <1>8, <1>11, <1>12, DoesCounter DEF KeepsAll

\* The packed operations (ucrv32.v:600-623).
LEMMA PackedCommits ==
  ASSUME Wide, Inv, DataInv, ExecInv, ClockEdge, ExecVmacDone
  PROVE  ISA!Next
  <1>1. /\ cpu_state = "EXEC" /\ ctl.is_vmac /\ ~ctl.is_vec_op /\ vmac_valid_out
        /\ cpu_state' = "WB" /\ pc_reg' = pc_plus_4
        /\ ctr' = Counted({CYCLE}) /\ alu_out_reg' = vmac_result
    BY DEF ExecVmacDone
  <1> DEFINE g == insn_fields
  <1>2. PICK c \in vmac_controls(g) : ctl = Decode(g, c)
    BY <1>1 DEF ExecInv, DecodedRight
  <1>3. ctl.is_vmac = is_vmac_type(g) /\ ctl.vmac_ctrl = c
    BY <1>2, ControlIs
  <1>4. is_vmac_type(g) /\ g.opcode = 91 /\ g.funct3 = 1
    BY <1>1, <1>3 DEF is_vmac_type, CUSTOM
  <1>5. ~vst_committed
    BY <1>1 DEF vst_committed
  <1>6. writes_scalar(g) /\ ~writes_vector(g)
    BY <1>4 DEF writes_scalar, writes_vector, is_vec_type
  <1>7. g.opcode \notin {JAL, JALR, LOAD, SYSTEM}
    BY <1>4 DEF JAL, JALR, LOAD, SYSTEM
  <1>8. /\ g = Current /\ ProgramTyped /\ Writes(g.rd, wb_data') /\ isa_v' = isa_v
        /\ isa_brk' = isa_brk /\ isa_m' = isa_m /\ wb_data' = alu_out_reg' /\ alu_out_reg' \in Word
        /\ GoesTo(isa_pc + 4) /\ CountsUp(1)
    BY <1>1, <1>2, <1>5, <1>6, <1>7, Commits
  <1>9. /\ rdata1_reg = Operand(g.rs1) /\ rdata2_reg = Operand(g.rs2)
    <2>1. rs1_index(g) = g.rs1
      BY <1>4 DEF rs1_index, is_u_type, LUI, AUIPC
    <2>2. \A i : Operand(i) = rf_rdata(i)
      BY <1>1, <1>5, Before
    <2> QED
      BY <1>1, <2>1, <2>2 DEF ExecInv, OperandsRight
  <1>10. vmac_result = PackedRef(c, rdata1_reg, rdata2_reg)
    BY <1>1, <1>3 DEF ExecInv, VmacRight
  <1>11. g.funct7 <= 3 => c = g.funct7
    BY <1>4 DEF vmac_controls
  <1> HIDE DEF g
  <1>12. g.funct7 <= 3 => wb_data' = PackedRef(g.funct7, Operand(g.rs1), Operand(g.rs2))
    BY <1>1, <1>8, <1>9, <1>10, <1>11
  <1> QED
    BY <1>4, <1>8, <1>12, DoesPacked DEF KeepsAll

\* A vector operation that is not a store (ucrv32.v:560-598).
LEMMA VectorCommits ==
  ASSUME Wide, Inv, DataInv, ExecInv, ClockEdge, ExecVectorDone, ~vst_committed
  PROVE  ISA!Next
  <1>1. /\ cpu_state = "EXEC" /\ ctl.is_vec_op /\ vec_unit_done
        /\ cpu_state' = "WB" /\ pc_reg' = pc_plus_4 /\ ctr' = Counted({CYCLE})
        /\ vec_result_reg' = CASE ctl.is_vec_load                    -> vlsu_load_data
                               [] ~vec_mem_op /\ ~ctl.is_vec_vmac    -> valu_result
                               [] OTHER                              -> vec_result_reg
        /\ alu_out_reg' = IF ~vec_mem_op /\ ctl.is_vec_vmac THEN valu_result[1] ELSE alu_out_reg
    BY DEF ExecVectorDone
  <1> DEFINE g == insn_fields
             sew == g.funct7 \div 32
  <1>2. PICK c \in vmac_controls(g) : ctl = Decode(g, c)
    BY <1>1 DEF ExecInv, DecodedRight
  <1>3. /\ ctl.is_vec_op = is_vec_type(g) /\ ctl.vec_op = vec_operation(g)
        /\ ctl.vec_sew = (IF is_vec_type(g) THEN sew ELSE 0)
        /\ ctl.is_vec_load = is_vec_load_type(g) /\ ctl.is_vec_store = is_vec_store_type(g)
        /\ ctl.is_vec_vmac = is_vec_vmac_type(g)
    BY <1>2, ControlIs
  <1>4. is_vec_type(g)
    BY <1>1, <1>3
  <1>5. g.opcode = 91 /\ g.funct3 = 2
    <2> HIDE DEF g
    <2> QED
      BY <1>4 DEF is_vec_type, CUSTOM
  <1>6. g.opcode \notin {JAL, JALR, LOAD, SYSTEM}
    BY <1>5 DEF JAL, JALR, LOAD, SYSTEM
  <1>7. /\ g \in Insn /\ g = Current /\ ProgramTyped
        /\ writes_scalar(g) => Writes(g.rd, wb_data')
        /\ ~writes_scalar(g) => isa_x' = isa_x
        /\ writes_vector(g) => WritesV(g.rd, vec_result_reg')
        /\ ~writes_vector(g) => isa_v' = isa_v
        /\ isa_brk' = isa_brk /\ isa_m' = isa_m /\ isa_m = mem
        /\ wb_data' = alu_out_reg' /\ alu_out_reg' \in Word
        /\ vec_result_reg' \in VWord /\ GoesTo(isa_pc + 4) /\ CountsUp(1)
    BY <1>1, <1>2, <1>6, Commits
  <1>8. /\ rdata1_reg = Operand(g.rs1)
        /\ vs1_data_reg = OperandV(g.rs1) /\ vs2_data_reg = OperandV(g.rs2)
    <2>1. rs1_index(g) = g.rs1
      BY <1>5 DEF rs1_index, is_u_type, LUI, AUIPC
    <2>2. \A i : Operand(i) = rf_rdata(i) /\ OperandV(i) = vrf_rdata(i)
      BY <1>1, Before
    <2> QED
      BY <1>1, <2>1, <2>2 DEF ExecInv, OperandsRight
  <1>9. /\ valu_valid_out /\ ctl.vec_sew # 3 =>
             valu_result = ValuRef(ctl.vec_op % 4, ctl.vec_sew, vs1_data_reg, vs2_data_reg)
    BY DEF ExecInv, ValuRight
  <1>10. valu_result \in VWord /\ vlsu_load_data \in VWord
    BY DEF DataInv, ValuFits, VlsuFits
  <1>11. ~ctl.is_vec_store
    <2>1. ctl.is_vec_store => vec_mem_op
      BY DEF vec_mem_op
    <2> QED
      BY <1>1, <2>1 DEF vst_committed, vec_unit_done
  <1> DEFINE o == vop(g)
  <1>12. o \in 0 .. 31 /\ sew \in 0 .. 3
    <2>1. g.funct7 \in 0 .. 127
      BY <1>7 DEF Insn
    <2> HIDE DEF g
    <2> QED
      BY <2>1 DEF vop
  <1>13. /\ is_vec_load_type(g) <=> o = 4
         /\ is_vec_store_type(g) <=> o = 5
         /\ is_vec_vmac_type(g) <=> o = 3
         /\ writes_vector(g) <=> o \in {0, 1, 2, 4, 8}
    BY <1>4 DEF is_vec_load_type, is_vec_store_type, is_vec_vmac_type, writes_vector, VOP_VLD, VOP_VST,
       VOP_VMAC, VOP_VADD, VOP_VSUB, VOP_VMUL, VOP_VMOV_S2V
  <1>14. writes_scalar(g) <=> o = 3
    <2>1. ~is_vmac_type(g) /\ ~is_rdwrctr_type(g)
      BY <1>5 DEF is_vmac_type, is_rdwrctr_type
    <2> QED
      BY <1>4, <1>13, <2>1 DEF writes_scalar
  <1>15. o # 5
    BY <1>3, <1>11, <1>13
  <1>16. vec_mem_op <=> o = 4
    BY <1>3, <1>11, <1>13 DEF vec_mem_op
  <1> HIDE DEF g, o
  <1>17. CASE o \in 0 .. 3
    <2>1. valu_valid_out
      BY <1>1, <1>16, <1>17 DEF vec_unit_done
    <2>2. ctl.vec_op % 4 = o /\ ctl.vec_sew = sew
      <3>1. vop(g) <= VOP_VST /\ vop(g) # VOP_VMOV_S2V /\ vop(g) # VOP_VMOV_V2S
        <4>1. o <= 5 /\ o # 8 /\ o # 9
          BY <1>17
        <4> QED
          BY <4>1 DEF VOP_VST, VOP_VMOV_S2V, VOP_VMOV_V2S, o
      <3>2. vec_operation(g) = vop(g)
        BY <1>4, <3>1, Zenon DEF vec_operation
      <3>3. vec_operation(g) = o
        BY <3>2 DEF o
      <3> QED
        BY <1>3, <1>4, <1>17, <3>3
    <2>3. sew # 3 => valu_result = ValuRef(o, sew, OperandV(g.rs1), OperandV(g.rs2))
      BY <1>8, <1>9, <2>1, <2>2
    <2>4. 2^sew # 8 => sew # 3
      BY PowerStep
    <2>5. o = 3 => Writes(g.rd, valu_result[1]) /\ isa_v' = isa_v
      <3> SUFFICES ASSUME o = 3 PROVE Writes(g.rd, valu_result[1]) /\ isa_v' = isa_v
        OBVIOUS
      <3>1. ~vec_mem_op /\ o \notin {0, 1, 2, 4, 8}
        BY <1>16
      <3>2. ctl.is_vec_vmac
        BY <1>3, <1>13
      <3>3. writes_scalar(g) /\ ~writes_vector(g)
        BY <1>13, <1>14, <3>1
      <3>4. alu_out_reg' = valu_result[1]
        BY <1>1, <3>1, <3>2
      <3> QED
        BY <1>7, <3>3, <3>4
    <2>6. o # 3 => WritesV(g.rd, valu_result) /\ isa_x' = isa_x
      <3>1. o # 3 => ~ctl.is_vec_load /\ ~vec_mem_op /\ ~ctl.is_vec_vmac
        BY <1>3, <1>13, <1>16, <1>17
      <3> QED
        BY <1>1, <1>7, <1>13, <1>14, <1>17, <3>1
    <2> HIDE DEF sew
    <2>7. VOP_VMAC = 3
      BY DEF VOP_VMAC
    <2>8. 2^sew # 8 => valu_result = ValuRef(o, sew, OperandV(g.rs1), OperandV(g.rs2))
      BY <2>3, <2>4
    <2> QED
      BY <1>4, <1>7, <1>10, <1>17, <2>5, <2>6, <2>7, <2>8, DoesVectorArith DEF o, sew
  <1>18. CASE o = 4
    <2>1. vlsu_done /\ ctl.is_vec_load
      BY <1>1, <1>3, <1>13, <1>16, <1>18 DEF vec_unit_done
    <2>2. vec_result_reg' = vlsu_load_data
      BY <1>1, <1>16, <1>18, <2>1
    <2>3. /\ vlsu_addr_reg = rdata1_reg
          /\ Holds(vlsu_load_data[1], vlsu_addr_reg) /\ Holds(vlsu_load_data[2], second_addr)
      BY <1>11, <2>1 DEF ExecInv, VlsuRight
    <2>4. WritesV(g.rd, vlsu_load_data) /\ isa_x' = isa_x
      BY <1>7, <1>13, <1>14, <1>18, <2>2
    <2> DEFINE a == Operand(g.rs1)
               next == (a + 4) % WordMod
    <2>5. vlsu_addr_reg = a /\ second_addr = next
      BY <1>8, <2>3 DEF second_addr
    <2> HIDE DEF a, next
    <2>6. ~is_uart(a) /\ ~is_uart(next) =>
            vlsu_load_data = << isa_m[word_index(a)], isa_m[word_index(next)] >>
      BY <1>7, <1>10, <2>3, <2>5 DEF Holds, VWord
    <2>7. vop(g) = VOP_VLD
      BY <1>18 DEF VOP_VLD, o
    <2> QED
      BY <1>4, <1>7, <1>10, <2>4, <2>6, <2>7, DoesVectorLoad DEF a, next
  <1>19. CASE o > 5
    <2>1. isa_x' = isa_x
      BY <1>7, <1>14, <1>19
    <2>2. vop(g) > VOP_VST /\ (vop(g) = VOP_VMOV_S2V <=> o = 8)
      BY <1>19 DEF VOP_VST, VOP_VMOV_S2V, o
    <2>3. (o = 8 => WritesV(g.rd, vec_result_reg')) /\ (o # 8 => isa_v' = isa_v)
      BY <1>7, <1>12, <1>13, <1>19
    <2> QED
      BY <1>4, <1>7, <2>1, <2>2, <2>3, DoesVectorReserved
  <1> QED
    BY <1>12, <1>15, <1>17, <1>18, <1>19

\* A store of four bytes replaces the word.
LEMMA StoredWord ==
  ASSUME NEW w, NEW a \in Word, NEW val \in Word
  PROVE  Stored(w, a, 4, val) = val
  <1>1. FirstLane(a, 4) = 0
    <2>1. a \in Nat
      BY Ranges DEF Word
    <2> QED
      BY <2>1, SMT DEF FirstLane
  <1> DEFINE b == [i \in 0 .. 3 |-> IF i \in FirstLane(a, 4) .. FirstLane(a, 4) + 4 - 1
                                    THEN ByteOf(val, i - FirstLane(a, 4)) ELSE ByteOf(w, i)]
  <1>2. \A i \in 0 .. 3 : b[i] = ByteOf(val, i)
    BY <1>1
  <1> HIDE DEF b
  <1>3. OfBytes(b) = val
    BY <1>2, WordOfBytes
  <1> QED
    BY <1>3 DEF Stored, b

\* A vector store, when its first word is accepted.
LEMMA StoreTakesEffect ==
  ASSUME Wide, Inv, DataInv, ExecInv, ClockEdge, cpu_state = "EXEC", ~vst_committed, vst_committed'
  PROVE  ISA!Next
  <1>1. Running /\ VlsuRight
    BY DEF ExecInv
  <1>2. /\ pc_saved' = pc_saved /\ ctl' = ctl /\ regs' = regs /\ vregs' = vregs
        /\ insn_reg' = insn_reg
    BY CoreMoves
  <1>3. /\ cpu_state' = "EXEC" /\ ctl.is_vec_op /\ ctl.is_vec_store
        /\ vlsu_state' \in {"REQ_WORD1", "WAIT_WORD1", "COMPLETE"} \/ vlsu_done'
    BY <1>2 DEF vst_committed
  <1>4. /\ vlsu_state \notin {"REQ_WORD1", "WAIT_WORD1", "COMPLETE"} /\ ~vlsu_done
    BY <1>3 DEF vst_committed
  <1>5. VlsuStep(vlsu_start_reg, ctl.is_vec_store, rdata1_reg, vs2_data_reg,
                 dmem_req_ready, dmem_resp_valid, dmem_resp_rdata)
    BY DEF ClockEdge, UnitSteps
  <1>6. vlsu_state = "WAIT_WORD0"
    BY <1>3, <1>4, <1>5 DEF VlsuStep, VlsuIdle, VlsuRequest, VlsuWait, VlsuComplete
  <1>7. /\ vlsu_addr_reg = rdata1_reg /\ vlsu_is_store_reg /\ vlsu_data_reg = vs2_data_reg
        /\ vlsu_mem.addr = word_addr("WAIT_WORD0")
        /\ vlsu_mem.wdata = vlsu_data_reg[word_of("WAIT_WORD0")] /\ vlsu_mem.wmask = 0 .. 3
    BY <1>1, <1>3, <1>6 DEF VlsuRight, Waiting
  <1>8. vlsu_addr_reg' = vlsu_addr_reg /\ vlsu_data_reg' = vlsu_data_reg
    BY <1>5, <1>6, <1>7 DEF VlsuStep, VlsuIdle, VlsuRequest, VlsuWait, VlsuComplete
  <1>9. mem' = Written(mem, vlsu_mem)
    BY <1>1, <1>6, <1>7, MemoryMoves DEF Waiting
  <1> DEFINE g == insn_fields
             a == Operand(g.rs1)
             next == (a + 4) % WordMod
             d == OperandV(g.rs2)
  <1>10. PICK c \in vmac_controls(g) : ctl = Decode(g, c)
    BY DEF ExecInv, DecodedRight
  <1>11. /\ ctl.is_vec_store = is_vec_store_type(g) /\ ctl.is_rdwrctr = is_rdwrctr_type(g)
         /\ ctl.ebreak_hit = (g.opcode = SYSTEM /\ g.funct3 = 0)
    BY <1>10, ControlIs
  <1>12. is_vec_type(g) /\ vop(g) = VOP_VST
    BY <1>3, <1>11 DEF is_vec_store_type
  <1>13. /\ isa_pc = pc_saved /\ isa_m = mem /\ isa_x = regs /\ isa_v = vregs
         /\ isa_brk = break_hit /\ ~committed /\ g = Current /\ ProgramTyped
         /\ \A i : Operand(i) = rf_rdata(i) /\ OperandV(i) = vrf_rdata(i)
    BY Before
  <1>14. rdata1_reg = a /\ vs2_data_reg = d
    <2>1. rs1_index(g) = g.rs1
      BY <1>12 DEF rs1_index, is_u_type, is_vec_type, CUSTOM, LUI, AUIPC
    <2> QED
      BY <1>13, <2>1 DEF ExecInv, OperandsRight
  <1>15. /\ isa_pc' = (pc_saved + 4) % WordMod /\ isa_x' = regs /\ isa_v' = vregs
         /\ isa_m' = [mem' EXCEPT ![word_index(next)] = vlsu_data_reg[2]]
    <2>1. cpu_state' # "WB" /\ cpu_state' # "FETCH"
      BY <1>3
    <2>2. isa_pc' = (pc_saved + 4) % WordMod /\ isa_x' = regs /\ isa_v' = vregs
      BY <1>2, <2>1 DEF isa_pc, isa_x, isa_v
    <2>3. isa_m' = [mem' EXCEPT ![word_index((vlsu_addr_reg' + 4) % WordMod)] = vlsu_data_reg'[2]]
      BY DEF isa_m, word_index
    <2> QED
      BY <1>7, <1>8, <1>14, <2>2, <2>3
  <1>16. GoesTo(isa_pc + 4)
    BY <1>13, <1>15 DEF GoesTo
  <1>17. CountsUp(1)
    <2>1. ~ctl.is_rdwrctr /\ ~ctl.is_vmac
      <3>1. ctl.is_rdwrctr = is_rdwrctr_type(g) /\ ctl.is_vmac = is_vmac_type(g)
        BY <1>10, ControlIs
      <3> HIDE DEF g
      <3>2. g.funct3 = 2
        BY <1>12 DEF is_vec_type
      <3>3. ~is_rdwrctr_type(g) /\ ~is_vmac_type(g)
        BY <3>2 DEF is_rdwrctr_type, is_vmac_type
      <3> QED
        BY <3>1, <3>3, Zenon
    <2>2. ExecVectorWait \/ ExecVectorDone
      BY <1>3, <2>1, CoreMoves DEF ExecRdwrctr, ExecVmacWait, ExecVmacDone, ExecScalar
    <2>3. ctr' = Counted({CYCLE})
      BY <2>2 DEF ExecVectorWait, ExecVectorDone
    <2>4. committed'
      BY DEF committed
    <2> QED
      BY <1>13, <2>3, <2>4, CountsOne
  <1>18. isa_brk' = isa_brk
    <2>1. break_hit' = (break_hit \/ ebreak_hit) /\ ~ebreak_hit /\ ~ebreak_hit' /\ break_hit \in BOOLEAN
      BY <1>3 DEF ClockEdge, ebreak_hit, Inv, ControlTypeOK
    <2> QED
      BY <2>1 DEF isa_brk
  <1>19. /\ a \in Word /\ next \in Word /\ d[1] \in Word /\ d[2] \in Word
         /\ mem \in [0 .. MemWords - 1 -> Word]
    <2>1. rdata1_reg \in Word /\ vs2_data_reg \in VWord /\ mem \in [0 .. MemWords - 1 -> Word]
      BY DEF DataInv, CpuFits, MemFits
    <2>2. a \in Word /\ d[1] \in Word /\ d[2] \in Word
      BY <1>14, <2>1 DEF VWord
    <2>3. second_addr = next /\ second_addr \in Word
      BY <1>7, <1>14, <2>2, VectorAddresses DEF second_addr
    <2> QED
      BY <2>1, <2>2, <2>3
  <1>20. word_addr("WAIT_WORD0") = a /\ word_of("WAIT_WORD0") = 1
    BY <1>7, <1>14, <1>19, VectorAddresses
  <1> DEFINE m1 == [isa_m EXCEPT ![word_index(a)] = Stored(isa_m[word_index(a)], a, 4, d[1])]
  <1> HIDE DEF g, a, next, d
  <1>21. mem' = m1
    <2>1. mem' = [mem EXCEPT ![word_index(a)] = Masked(mem[word_index(a)], d[1], 0 .. 3)]
      BY <1>7, <1>9, <1>14, <1>20 DEF Written
    <2>2. Masked(mem[word_index(a)], d[1], 0 .. 3) = d[1]
      BY <1>19, WholeWord
    <2>3. Stored(isa_m[word_index(a)], a, 4, d[1]) = d[1]
      BY <1>19, StoredWord
    <2> QED
      BY <1>13, <2>1, <2>2, <2>3
  <1> HIDE DEF m1
  <1>22. isa_m' = [m1 EXCEPT ![word_index(next)] = Stored(m1[word_index(next)], next, 4, d[2])]
    <2>1. Stored(m1[word_index(next)], next, 4, d[2]) = d[2]
      BY <1>19, StoredWord
    <2> QED
      BY <1>7, <1>14, <1>15, <1>21, <2>1
  <1>23. isa_x' = isa_x /\ isa_v' = isa_v
    BY <1>13, <1>15
  <1> QED
    BY <1>12, <1>13, <1>16, <1>17, <1>18, <1>22, <1>23, DoesVectorStore DEF a, next, d, m1

-----------------------------------------------------------------------------
(* The scalar instructions *)

\* The ALU operation the decoder selects (decoder_control.v:98-155).
LEMMA OperationIs ==
  ASSUME NEW g \in Insn
  PROVE  /\ g.opcode \in {OP, OPIMM} /\ OpDefined(g) =>
              alu_control(g) = AluOp(g.funct3, OpAlt(g)) /\ (OpAlt(g) => g.funct3 \in {0, 5})
         /\ g.opcode = BRANCH =>
              /\ g.funct3 \in {0, 1} => alu_control(g) = SUB
              /\ g.funct3 \in {4, 5} => alu_control(g) = SLT
              /\ g.funct3 \in {6, 7} => alu_control(g) = SLTU
         /\ g.opcode \in {LUI, AUIPC, JALR} => alu_control(g) = ADD
  <1> DEFINE n == g.funct3
             s == g.funct7
  <1>1. n \in {0, 1, 2, 3, 4, 5, 6, 7}
    BY DEF Insn
  <1>2. base_alu_ctrl[n + 1] = AluOp(n, FALSE)
    <2> HIDE DEF n
    <2> QED
      BY <1>1, SMT DEF base_alu_ctrl, AluOp
  <1>3. n \in {0, 5} => alt_alu_ctrl[n + 1] = AluOp(n, TRUE)
    <2> HIDE DEF n
    <2> QED
      BY SMT DEF alt_alu_ctrl, AluOp
  <1>4. n = 5 => SRA = AluOp(n, TRUE)
    <2> HIDE DEF n
    <2> QED
      BY SMT DEF AluOp
  <1>5. /\ OP # OPIMM /\ OP # BRANCH /\ OPIMM # BRANCH
        /\ OP # CUSTOM /\ OPIMM # CUSTOM /\ BRANCH # CUSTOM
        /\ {LUI, AUIPC, JALR} \cap {OP, OPIMM, BRANCH, CUSTOM} = {}
    BY DEF OP, OPIMM, BRANCH, CUSTOM, LUI, AUIPC, JALR
  <1>6. g.opcode # CUSTOM => ~is_vmac_type(g) /\ ~is_vec_type(g)
    BY DEF is_vmac_type, is_vec_type
  <1>7. CASE g.opcode = OP /\ OpDefined(g)
    <2>1. s = 0 \/ (s = 32 /\ n \in {0, 5})
      BY <1>7 DEF OpDefined
    <2>2. OpAlt(g) = (s = 32)
      BY <1>7 DEF OpAlt
    <2>3. CASE s = 0
      <3>1. alu_control(g) = base_alu_ctrl[n + 1]
        BY <1>5, <1>6, <1>7, <2>3 DEF alu_control
      <3>2. OpAlt(g) = FALSE
        <4> HIDE DEF s
        <4>1. ~(s = 32)
          BY <2>3, SMT
        <4> QED
          BY <2>2, <4>1, Zenon
      <3> QED
        BY <1>2, <1>5, <1>7, <3>1, <3>2
    <2>4. CASE s = 32 /\ n \in {0, 5}
      <3>1. alu_control(g) = alt_alu_ctrl[n + 1]
        BY <1>5, <1>6, <1>7, <2>4 DEF alu_control
      <3>2. OpAlt(g) = TRUE
        BY <2>2, <2>4
      <3> QED
        BY <1>3, <1>5, <1>7, <2>4, <3>1, <3>2
    <2> QED
      BY <2>1, <2>3, <2>4
  <1>8. CASE g.opcode = OPIMM /\ OpDefined(g)
    <2>1. n # 5 \/ s \in {0, 32}
      BY <1>5, <1>8 DEF OpDefined
    <2>2. OpAlt(g) = (s = 32 /\ n = 5)
      BY <1>5, <1>8 DEF OpAlt
    <2>3. CASE n # 5 \/ s = 0
      <3>1. alu_control(g) = base_alu_ctrl[n + 1]
        BY <1>5, <1>6, <1>8, <2>3 DEF alu_control
      <3>2. OpAlt(g) = FALSE
        <4> HIDE DEF n, s
        <4>1. ~(s = 32 /\ n = 5)
          BY <2>3, SMT
        <4> QED
          BY <2>2, <4>1, Zenon
      <3> QED
        BY <1>2, <1>5, <1>8, <3>1, <3>2
    <2>4. CASE n = 5 /\ s = 32
      <3>1. alu_control(g) = SRA
        BY <1>5, <1>6, <1>8, <2>4 DEF alu_control
      <3>2. OpAlt(g) = TRUE
        BY <2>2, <2>4
      <3> QED
        BY <1>4, <1>5, <1>8, <2>4, <3>1, <3>2
    <2> QED
      BY <2>1, <2>3, <2>4
  <1>9. CASE g.opcode = BRANCH
    <2>1. alu_control(g) = << SUB, SUB, ALU_X, ALU_X, SLT, SLT, SLTU, SLTU >>[n + 1]
      BY <1>5, <1>6, <1>9 DEF alu_control
    <2> HIDE DEF n
    <2>2. /\ n \in {0, 1} => alu_control(g) = SUB
          /\ n \in {4, 5} => alu_control(g) = SLT
          /\ n \in {6, 7} => alu_control(g) = SLTU
      BY <2>1, SMT
    <2> QED
      BY <1>5, <1>9, <2>2 DEF n
  <1>10. CASE g.opcode \in {LUI, AUIPC, JALR}
    BY <1>5, <1>6, <1>10 DEF alu_control
  <1> QED
    BY <1>5, <1>7, <1>8, <1>9, <1>10

\* The immediate the decoder selects (decoder_control.v:62-96).
LEMMA ImmediateIs ==
  ASSUME NEW g
  PROVE  /\ is_i_type(g) => immediate(g) = imm_i(g)
         /\ g.opcode = STORE => immediate(g) = imm_s(g)
         /\ g.opcode = BRANCH => immediate(g) = imm_b(g)
         /\ is_u_type(g) => immediate(g) = imm_u(g)
         /\ g.opcode = JAL => immediate(g) = imm_j(g)
  <1>1. /\ is_i_type(g) => g.opcode \notin {STORE, BRANCH, JAL} /\ ~is_u_type(g)
        /\ is_u_type(g) => g.opcode \notin {STORE, BRANCH, JAL}
        /\ STORE # BRANCH /\ STORE # JAL /\ BRANCH # JAL
    BY DEF is_i_type, is_u_type, STORE, BRANCH, JAL, OPIMM, LOAD, JALR, SYSTEM, LUI, AUIPC
  <1> QED
    BY <1>1 DEF immediate

\* What a scalar instruction leaves behind in EXEC (ucrv32.v:625-682): the
\* ALU's output, the write it asks for, and the program counter.
ScalarLeft(g) ==
  /\ g \in Insn /\ g = Current /\ ProgramTyped /\ g.opcode \notin {LOAD, STORE}
  /\ ~is_vmac_type(g) /\ ~is_vec_type(g) /\ ~is_rdwrctr_type(g)
  /\ g.opcode # BRANCH => Writes(g.rd, wb_data')
  /\ g.opcode = BRANCH => isa_x' = isa_x
  /\ isa_v' = isa_v /\ isa_m' = isa_m /\ CountsUp(1)
  /\ isa_brk' = (isa_brk \/ (g.opcode = SYSTEM /\ g.funct3 = 0))
  /\ g.opcode # SYSTEM => isa_brk' = isa_brk
  /\ g.opcode \in {JAL, JALR} => wb_data' = (isa_pc + 4) % WordMod
  /\ g.opcode \notin {JAL, JALR} => wb_data' = alu_out_reg'
  /\ alu_out_reg' \in Word /\ isa_pc \in Word
  /\ g.opcode \notin {JAL, JALR, BRANCH} => GoesTo(isa_pc + 4)
  /\ g.opcode = JAL => GoesTo(isa_pc + immediate(g))
  /\ g.opcode = JALR => isa_pc' = alu_out_reg' - (alu_out_reg' % 2)
  /\ g.opcode = BRANCH => IF take_branch(alu_out_reg') THEN GoesTo(isa_pc + immediate(g))
                                                       ELSE GoesTo(isa_pc + 4)
  /\ alu_op1 \in Word /\ alu_op2 \in Word
  /\ alu_control(g) # ALU_X => alu_out_reg' = alu_out(alu_op1, alu_op2, alu_control(g))

\* A scalar instruction leaves EXEC for WB with its result on the write-back
\* bus and the next address in the program counter.
LEMMA ScalarLeaves ==
  ASSUME Wide, Inv, DataInv, ExecInv, ClockEdge, ExecScalar, cpu_state' = "WB",
         NEW g, g = insn_fields, NEW c, ctl = Decode(g, c)
  PROVE  ScalarLeft(g)
  <1>1. /\ cpu_state = "EXEC" /\ ~ctl.is_rdwrctr /\ ~ctl.is_vec_op /\ ~ctl.is_vmac
        /\ ctr' = Counted({CYCLE})
        /\ ~ctl.mem_read /\ ~ctl.mem_write
    BY DEF ExecScalar
  <1>2. PICK k \in alu_controls : /\ alu_out_reg' = alu_out(alu_op1, alu_op2, k)
                                  /\ pc_reg' = scalar_target(alu_out_reg')
    BY DEF ExecScalar
  <1>3. /\ ctl.alu_ctrl = alu_control(g) /\ ctl.imm = immediate(g)
        /\ ctl.is_branch = (g.opcode = BRANCH)
        /\ ctl.is_jal = (g.opcode = JAL) /\ ctl.is_jalr = (g.opcode = JALR)
        /\ ctl.mem_write = (g.opcode = STORE) /\ ctl.mem_read = (g.opcode = LOAD)
        /\ ctl.is_vmac = is_vmac_type(g) /\ ctl.is_vec_op = is_vec_type(g)
        /\ ctl.is_rdwrctr = is_rdwrctr_type(g)
    BY ControlIs
  <1>4. /\ ~is_vmac_type(g) /\ ~is_vec_type(g) /\ ~is_rdwrctr_type(g)
        /\ g.opcode \notin {LOAD, STORE}
    BY <1>1, <1>3, Zenon
  <1>5. ~vst_committed
    BY <1>1 DEF vst_committed
  <1>6. ~writes_vector(g) /\ (writes_scalar(g) <=> g.opcode # BRANCH)
    <2>1. ~is_vec_vmac_type(g)
      BY <1>4 DEF is_vec_vmac_type
    <2> QED
      BY <1>4, <2>1 DEF writes_vector, writes_scalar
  <1>7. /\ g \in Insn /\ g = Current /\ ProgramTyped
        /\ g.opcode # BRANCH => Writes(g.rd, wb_data')
        /\ g.opcode = BRANCH => isa_x' = isa_x
        /\ isa_v' = isa_v /\ isa_m' = isa_m /\ CountsUp(1)
        /\ isa_brk' = (isa_brk \/ (g.opcode = SYSTEM /\ g.funct3 = 0))
        /\ g.opcode # SYSTEM => isa_brk' = isa_brk
        /\ g.opcode \in {JAL, JALR} => wb_data' = (isa_pc + 4) % WordMod
        /\ g.opcode \notin {JAL, JALR, LOAD} => wb_data' = alu_out_reg'
        /\ alu_out_reg' \in Word /\ isa_pc' = pc_reg'
    BY <1>1, <1>5, <1>6, Commits
  <1>8. isa_pc = pc_saved /\ pc_saved \in Word
    BY <1>1, <1>5, Before DEF DataInv, CpuFits
  <1>9. /\ pc_plus_4 = (isa_pc + 4) % WordMod /\ pc_plus_imm = (isa_pc + immediate(g)) % WordMod
    BY <1>3, <1>8, CounterAdds
  <1>10. JAL # JALR /\ JAL # BRANCH /\ JALR # BRANCH
    BY DEF JAL, JALR, BRANCH
  <1>11. /\ g.opcode \notin {JAL, JALR, BRANCH} => pc_reg' = pc_plus_4
         /\ g.opcode = JAL => pc_reg' = pc_plus_imm
         /\ g.opcode = JALR => pc_reg' = alu_out_reg' - (alu_out_reg' % 2)
         /\ g.opcode = BRANCH => pc_reg' = IF take_branch(alu_out_reg') THEN pc_plus_imm ELSE pc_plus_4
    <2>1. g.opcode # BRANCH => ~take_branch(alu_out_reg')
      BY <1>3 DEF take_branch
    <2> QED
      BY <1>1, <1>2, <1>3, <1>10, <2>1 DEF scalar_target
  <1>12. alu_op1 \in Word /\ alu_op2 \in Word
    BY OperandsFit DEF DataInv
  <1>13. alu_control(g) # ALU_X => k = alu_control(g)
    BY <1>2, <1>3 DEF alu_controls
  <1> QED
    BY <1>2, <1>4, <1>7, <1>8, <1>9, <1>11, <1>12, <1>13 DEF ScalarLeft, GoesTo

\* The result of OP, OP-IMM, LUI and AUIPC.
LEMMA ComputationCommits ==
  ASSUME Wide, Inv, DataInv, ExecInv, ClockEdge, ExecScalar, cpu_state' = "WB",
         NEW g, g = insn_fields, NEW c, ctl = Decode(g, c), g.opcode \in {OP, OPIMM, LUI, AUIPC}
  PROVE  ISA!Next
  <1>1. ScalarLeft(g)
    BY ScalarLeaves
  <1>2. /\ g.opcode \notin {JAL, JALR, BRANCH, SYSTEM}
        /\ LUI # AUIPC /\ OP # LUI /\ OP # AUIPC /\ OPIMM # LUI /\ OPIMM # AUIPC
        /\ OP \notin {OPIMM, LOAD, JALR, SYSTEM, STORE} /\ ADD # ALU_X
    BY DEF JAL, JALR, BRANCH, SYSTEM, OP, OPIMM, LUI, AUIPC, LOAD, STORE, ADD, ALU_X
  <1>3. cpu_state = "EXEC" /\ ~vst_committed
    BY DEF ExecScalar, vst_committed
  <1>4. isa_pc = pc_saved /\ \A i : Operand(i) = rf_rdata(i)
    BY <1>3, Before
  <1>5. /\ ctl.is_auipc = (g.opcode = AUIPC) /\ ctl.imm = immediate(g)
        /\ ctl.alu_src2_sel = (is_i_type(g) \/ g.opcode = STORE \/ is_u_type(g))
    BY ControlIs
  <1>6. /\ is_u_type(g) <=> g.opcode \in {LUI, AUIPC}
        /\ g.opcode = OPIMM => is_i_type(g)
        /\ g.opcode = OP => ~is_i_type(g) /\ g.opcode # STORE /\ ~is_u_type(g)
    BY <1>2 DEF is_u_type, is_i_type
  <1>7. /\ g.opcode = LUI => alu_op1 = 0 /\ alu_op2 = imm_u(g)
        /\ g.opcode = AUIPC => alu_op1 = isa_pc /\ alu_op2 = imm_u(g)
        /\ g.opcode = OPIMM => alu_op1 = Operand(g.rs1) /\ alu_op2 = imm_i(g)
        /\ g.opcode = OP => alu_op1 = Operand(g.rs1) /\ alu_op2 = Operand(g.rs2)
    <2>1. rf_rdata(0) = 0
      BY DEF rf_rdata
    <2>2. rs1_index(g) = IF g.opcode \in {LUI, AUIPC} THEN 0 ELSE g.rs1
      BY <1>6 DEF rs1_index
    <2>3. /\ is_u_type(g) => immediate(g) = imm_u(g)
          /\ is_i_type(g) => immediate(g) = imm_i(g)
      BY ImmediateIs
    <2>4. alu_op1 = (IF g.opcode = AUIPC THEN isa_pc ELSE Operand(rs1_index(g)))
      BY <1>4, <1>5 DEF alu_op1
    <2>5. alu_op2 = IF is_i_type(g) \/ g.opcode = STORE \/ is_u_type(g) THEN immediate(g)
                    ELSE Operand(g.rs2)
      BY <1>4, <1>5 DEF alu_op2
    <2> QED
      BY <1>2, <1>4, <1>6, <2>1, <2>2, <2>3, <2>4, <2>5
  <1>8. alu_op1 \in Word /\ alu_op2 \in Word
    BY <1>1 DEF ScalarLeft
  <1>9. g \in Insn /\ g.funct3 \in 0 .. 7
    BY <1>1 DEF ScalarLeft, Insn
  <1>10. g.opcode \in {LUI, AUIPC} => alu_out_reg' = (alu_op1 + alu_op2) % WordMod
    <2>1. g.opcode \in {LUI, AUIPC} => alu_control(g) = ADD
      BY <1>9, OperationIs
    <2>2. alu_out(alu_op1, alu_op2, ADD) = (alu_op1 + alu_op2) % WordMod
      BY <1>8, AluSums
    <2> QED
      BY <1>1, <1>2, <2>1, <2>2 DEF ScalarLeft
  <1>11. g.opcode \in {OP, OPIMM} /\ OpDefined(g) =>
           alu_out_reg' = AluRef(g.funct3, OpAlt(g), alu_op1, alu_op2)
    <2> SUFFICES ASSUME g.opcode \in {OP, OPIMM}, OpDefined(g)
                 PROVE  alu_out_reg' = AluRef(g.funct3, OpAlt(g), alu_op1, alu_op2)
      OBVIOUS
    <2>1. alu_control(g) = AluOp(g.funct3, OpAlt(g)) /\ (OpAlt(g) => g.funct3 \in {0, 5})
      BY <1>9, OperationIs
    <2>2. OpAlt(g) \in BOOLEAN
      BY DEF OpAlt
    <2>3. alu_out(alu_op1, alu_op2, AluOp(g.funct3, OpAlt(g)))
            = AluRef(g.funct3, OpAlt(g), alu_op1, alu_op2)
      BY <1>8, <1>9, <2>1, <2>2, AluIsRef
    <2>4. AluOp(g.funct3, OpAlt(g)) # ALU_X
      <3> DEFINE n == g.funct3
                 t == OpAlt(g)
      <3>1. n \in 0 .. 7 /\ t \in BOOLEAN
        BY <1>9, <2>2
      <3> HIDE DEF n, t
      <3>2. AluOp(n, t) \in {SUB, ADD, SLL, SLT, SLTU, XOR, SRA, SRL, OR, AND}
        BY <3>1 DEF AluOp
      <3>3. ALU_X \notin {SUB, ADD, SLL, SLT, SLTU, XOR, SRA, SRL, OR, AND}
        BY DEF ALU_X, SUB, ADD, SLL, SLT, SLTU, XOR, SRA, SRL, OR, AND
      <3> QED
        BY <3>2, <3>3 DEF n, t
    <2> QED
      BY <1>1, <2>1, <2>3, <2>4 DEF ScalarLeft
  <1>12. /\ wb_data' = alu_out_reg' /\ alu_out_reg' \in Word /\ Writes(g.rd, alu_out_reg')
         /\ ProgramTyped /\ g = Current /\ GoesTo(isa_pc + 4) /\ CountsUp(1) /\ KeepsAll
    BY <1>1, <1>2 DEF ScalarLeft, KeepsAll
  <1>13. g.opcode = LUI => alu_out_reg' = imm_u(g)
    <2>1. \A w \in Word : (0 + w) % WordMod = w
      <3>1. \A w \in Word : w \in Nat /\ w < WordMod /\ WordMod \in Nat \ {0}
        BY Ranges DEF Word
      <3>2. \A w \in Word : 0 + w = w
        BY <3>1
      <3>3. \A w \in Word : w % WordMod = w
        BY <3>1, SMT
      <3> QED
        BY <3>2, <3>3
    <2> QED
      BY <1>7, <1>8, <1>10, <2>1
  <1>14. g.opcode = AUIPC => alu_out_reg' = (isa_pc + imm_u(g)) % WordMod
    BY <1>7, <1>10
  <1>15. /\ g.opcode = OP /\ OpDefined(g) =>
              alu_out_reg' = AluRef(g.funct3, OpAlt(g), Operand(g.rs1), Operand(g.rs2))
         /\ g.opcode = OPIMM /\ OpDefined(g) =>
              alu_out_reg' = AluRef(g.funct3, OpAlt(g), Operand(g.rs1), imm_i(g))
    BY <1>7, <1>11
  <1> QED
    BY <1>12, <1>13, <1>14, <1>15, DoesComputational

\* A jump (ucrv32.v:627-632).
LEMMA JumpCommits ==
  ASSUME Wide, Inv, DataInv, ExecInv, ClockEdge, ExecScalar, cpu_state' = "WB",
         NEW g, g = insn_fields, NEW c, ctl = Decode(g, c), g.opcode \in {JAL, JALR}
  PROVE  ISA!Next
  <1>1. ScalarLeft(g)
    BY ScalarLeaves
  <1>2. g.opcode \notin {BRANCH, SYSTEM} /\ JAL # JALR /\ ADD # ALU_X
    BY DEF JAL, JALR, BRANCH, SYSTEM, ADD, ALU_X
  <1>3. g.opcode = JAL => GoesTo(isa_pc + imm_j(g))
    BY <1>1, ImmediateIs DEF ScalarLeft
  <1>4. g.opcode = JALR => alu_out_reg' = (Operand(g.rs1) + imm_i(g)) % WordMod
    <2> SUFFICES ASSUME g.opcode = JALR PROVE alu_out_reg' = (Operand(g.rs1) + imm_i(g)) % WordMod
      OBVIOUS
    <2>1. is_i_type(g) /\ ~is_u_type(g) /\ g.opcode # AUIPC
      BY DEF is_i_type, is_u_type, JALR, LUI, AUIPC
    <2>2. ~ctl.is_auipc /\ ctl.alu_src2_sel /\ ctl.imm = imm_i(g) /\ rs1_index(g) = g.rs1
      <3>1. /\ ctl.is_auipc = (g.opcode = AUIPC) /\ ctl.imm = immediate(g)
            /\ ctl.alu_src2_sel = (is_i_type(g) \/ g.opcode = STORE \/ is_u_type(g))
        BY ControlIs
      <3>2. immediate(g) = imm_i(g)
        BY <2>1, ImmediateIs
      <3> QED
        BY <2>1, <3>1, <3>2 DEF rs1_index
    <2>3. cpu_state = "EXEC" /\ ~vst_committed
      BY DEF ExecScalar, vst_committed
    <2>4. \A i : Operand(i) = rf_rdata(i)
      BY <2>3, Before
    <2>5. alu_op1 = Operand(g.rs1) /\ alu_op2 = imm_i(g)
      BY <2>2, <2>4 DEF alu_op1, alu_op2
    <2>6. alu_control(g) = ADD
      BY <1>1, OperationIs DEF ScalarLeft
    <2>7. alu_op1 \in Word /\ alu_op2 \in Word /\ alu_out_reg' = alu_out(alu_op1, alu_op2, ADD)
      BY <1>1, <1>2, <2>6 DEF ScalarLeft
    <2> QED
      BY <2>5, <2>7, AluSums
  <1>5. g.opcode = JALR =>
          LET t == (Operand(g.rs1) + imm_i(g)) % WordMod IN isa_pc' = t - (t % 2)
    BY <1>1, <1>4 DEF ScalarLeft
  <1>6. /\ g = Current /\ Writes(g.rd, (isa_pc + 4) % WordMod) /\ CountsUp(1) /\ KeepsAll
    BY <1>1, <1>2 DEF ScalarLeft, KeepsAll
  <1> QED
    BY <1>3, <1>5, <1>6, DoesJump

\* SYSTEM and the unassigned instructions.
LEMMA OtherCommits ==
  ASSUME Wide, Inv, DataInv, ExecInv, ClockEdge, ExecScalar, cpu_state' = "WB",
         NEW g, g = insn_fields, NEW c, ctl = Decode(g, c),
         g.opcode \notin {OP, OPIMM, LUI, AUIPC, JAL, JALR, BRANCH}
  PROVE  ISA!Next
  <1>1. ScalarLeft(g)
    BY ScalarLeaves
  <1>2. /\ g = Current /\ ProgramTyped /\ Writes(g.rd, alu_out_reg') /\ alu_out_reg' \in Word
        /\ GoesTo(isa_pc + 4) /\ CountsUp(1) /\ isa_v' = isa_v /\ isa_m' = isa_m
        /\ g.opcode \notin {LOAD, STORE}
    BY <1>1 DEF ScalarLeft
  <1>3. CASE g.opcode = SYSTEM
    <2>1. isa_brk' = (isa_brk \/ g.funct3 = 0)
      BY <1>1, <1>3 DEF ScalarLeft
    <2> QED
      BY <1>2, <1>3, <2>1, DoesSystem
  <1>4. CASE g.opcode # SYSTEM
    <2>1. isa_brk' = isa_brk
      BY <1>1, <1>4 DEF ScalarLeft
    <2>2. g.opcode = CUSTOM => g.funct3 > 2
      <3>1. g.funct3 \in 0 .. 7
        BY <1>1 DEF ScalarLeft, Insn
      <3>2. g.opcode = CUSTOM => g.funct3 # 0 /\ g.funct3 # 1 /\ g.funct3 # 2
        BY <1>1 DEF ScalarLeft, is_vmac_type, is_vec_type, is_rdwrctr_type
      <3> QED
        BY <3>1, <3>2
    <2> QED
      BY <1>2, <1>4, <2>1, <2>2, DoesUndefined DEF KeepsAll
  <1> QED
    BY <1>3, <1>4

\* A branch (ucrv32.v:155-165): the target is the architecture's, whichever
\* of the three operations compares.
LEMMA BranchCommits ==
  ASSUME Wide, Inv, DataInv, ExecInv, ClockEdge, ExecScalar, cpu_state' = "WB",
         NEW g, g = insn_fields, NEW c, ctl = Decode(g, c), g.opcode = BRANCH
  PROVE  ISA!Next
  <1>1. ScalarLeft(g)
    BY ScalarLeaves
  <1>2. BRANCH # SYSTEM /\ SUB # ALU_X /\ SLT # ALU_X /\ SLTU # ALU_X
    BY DEF BRANCH, SYSTEM, SUB, SLT, SLTU, ALU_X
  <1>3. /\ g = Current /\ isa_x' = isa_x /\ CountsUp(1) /\ KeepsAll
    BY <1>1, <1>2 DEF ScalarLeft, KeepsAll
  <1> DEFINE a == Operand(g.rs1)
             b == Operand(g.rs2)
             out == alu_out_reg'
             n == g.funct3
  <1>4. IF take_branch(out) THEN GoesTo(isa_pc + imm_b(g)) ELSE GoesTo(isa_pc + 4)
    BY <1>1, ImmediateIs DEF ScalarLeft
  <1>5. /\ ctl.is_branch = (g.opcode = BRANCH) /\ ctl.branch_if_set = (n % 2 = 1)
        /\ ctl.is_branch_compare = (g.opcode = BRANCH /\ n >= 4)
        /\ ctl.is_auipc = (g.opcode = AUIPC)
        /\ ctl.alu_src2_sel = (is_i_type(g) \/ g.opcode = STORE \/ is_u_type(g))
    BY ControlIs
  <1>6. alu_op1 = a /\ alu_op2 = b
    <2>1. ~is_i_type(g) /\ g.opcode # STORE /\ ~is_u_type(g) /\ g.opcode # AUIPC
      BY DEF is_i_type, is_u_type, BRANCH, STORE, OPIMM, LOAD, JALR, SYSTEM, LUI, AUIPC
    <2>2. ~ctl.is_auipc /\ ~ctl.alu_src2_sel
      BY <1>5, <2>1, Zenon
    <2>3. rs1_index(g) = g.rs1
      BY <2>1 DEF rs1_index
    <2>4. cpu_state = "EXEC" /\ ~vst_committed
      BY DEF ExecScalar, vst_committed
    <2>5. \A i : Operand(i) = rf_rdata(i)
      BY <2>4, Before
    <2> QED
      BY <2>2, <2>3, <2>5 DEF alu_op1, alu_op2
  <1>7. a \in Word /\ b \in Word /\ n \in 0 .. 7
    BY <1>1, <1>6 DEF ScalarLeft, Insn
  <1>8. /\ n \in {0, 1} => out = (a - b) % WordMod
        /\ n \in {4, 5} => out = Flag(Signed(a, WordMod) < Signed(b, WordMod))
        /\ n \in {6, 7} => out = Flag(a < b)
    <2>1. /\ n \in {0, 1} => alu_control(g) = SUB
          /\ n \in {4, 5} => alu_control(g) = SLT
          /\ n \in {6, 7} => alu_control(g) = SLTU
      BY <1>1, OperationIs DEF ScalarLeft
    <2>2. alu_control(g) # ALU_X => out = alu_out(a, b, alu_control(g))
      BY <1>1, <1>6 DEF ScalarLeft
    <2> HIDE DEF a, b, n, out
    <2> QED
      BY <1>2, <1>7, <2>1, <2>2, AluSums
  <1>9. take_branch(out) <=> ((IF n >= 4 THEN out % 2 = 1 ELSE out = 0) # (n % 2 = 1))
    BY <1>5, Zenon DEF take_branch
  <1> HIDE DEF a, b, out, n
  <1>10. n \notin {2, 3} => (take_branch(out) <=> Taken(n, a, b))
    <2>1. a \in Int /\ b \in Int /\ a \in 0 .. WordMod - 1 /\ b \in 0 .. WordMod - 1
          /\ WordMod \in Nat \ {0} /\ Signed(a, WordMod) \in Int /\ Signed(b, WordMod) \in Int
      BY <1>7, Ranges DEF Word, Signed
    <2>2. CASE n \in {0, 1}
      <3>1. out = 0 <=> a = b
        <4>1. a = b => (a - b) % WordMod = 0
          BY <2>1
        <4>2. (a - b) % WordMod = 0 => a = b
          <5> SUFFICES ASSUME (a - b) % WordMod = 0 PROVE a = b
            OBVIOUS
          <5>1. CASE a >= b
            <6>1. a - b \in 0 .. WordMod - 1
              BY <2>1, <5>1
            <6>2. (a - b) % WordMod = a - b
              BY <2>1, <6>1, SMT
            <6> QED
              BY <2>1, <6>2
          <5>2. CASE a < b
            <6>1. (a - b) + WordMod \in 0 .. WordMod - 1 /\ (-1) * WordMod + ((a - b) + WordMod) = a - b
                  /\ a - b \in Int /\ -1 \in Int
              BY <2>1, <5>2
            <6> DEFINE r == (a - b) + WordMod
            <6>2. ((-1) * WordMod + r) % WordMod = r
              <7> HIDE DEF r
              <7> QED
                BY <2>1, <6>1, ModUnique DEF r
            <6>3. (a - b) % WordMod = (a - b) + WordMod
              BY <6>1, <6>2, Zenon
            <6> QED
              BY <2>1, <5>2, <6>3
          <5> QED
            BY <2>1, <5>1, <5>2
        <4> QED
          BY <1>8, <2>2, <4>1, <4>2
      <3>2. take_branch(out) <=> ((out = 0) # (n % 2 = 1))
        <4>1. ~(n >= 4)
          BY <2>2
        <4> QED
          BY <1>9, <4>1, Zenon
      <3>3. n = 0 => (Taken(n, a, b) <=> a = b) /\ ~(n % 2 = 1)
        BY DEF Taken
      <3>4. n = 1 => (Taken(n, a, b) <=> a # b) /\ n % 2 = 1
        BY DEF Taken
      <3>5. n = 0 \/ n = 1
        BY <2>2
      <3> QED
        BY <3>1, <3>2, <3>3, <3>4, <3>5, Zenon
    <2>3. CASE n \in {4, 5, 6, 7}
      <3> DEFINE less == IF n \in {4, 5} THEN Signed(a, WordMod) < Signed(b, WordMod) ELSE a < b
      <3>1. out = Flag(less)
        BY <1>8, <2>3
      <3>2. (less => out = 1) /\ (~less => out = 0)
        BY <3>1 DEF Flag
      <3>3. /\ n \in {4, 6} => (Taken(n, a, b) <=> less) /\ ~(n % 2 = 1)
            /\ n \in {5, 7} => (Taken(n, a, b) <=> ~less) /\ n % 2 = 1
        <4>1. n = 4 => (Taken(n, a, b) <=> less) /\ ~(n % 2 = 1)
          BY DEF Taken
        <4>2. n = 5 => (Taken(n, a, b) <=> ~less) /\ n % 2 = 1
          BY <2>1 DEF Taken
        <4>3. n = 6 => (Taken(n, a, b) <=> less) /\ ~(n % 2 = 1)
          BY DEF Taken
        <4>4. n = 7 => (Taken(n, a, b) <=> ~less) /\ n % 2 = 1
          BY <2>1 DEF Taken
        <4> QED
          BY <4>1, <4>2, <4>3, <4>4
      <3> HIDE DEF less
      <3>4. (out % 2 = 1) <=> less
        <4>1. 1 % 2 = 1 /\ 0 % 2 # 1
          OBVIOUS
        <4> QED
          BY <3>2, <4>1
      <3>5. take_branch(out) <=> ((out % 2 = 1) # (n % 2 = 1))
        <4>1. n >= 4
          BY <2>3
        <4> QED
          BY <1>9, <4>1, Zenon
      <3>6. n \in {4, 6} \/ n \in {5, 7}
        BY <2>3
      <3> QED
        BY <3>3, <3>4, <3>5, <3>6, Zenon
    <2> QED
      BY <1>7, <2>2, <2>3
  <1>11. n \notin {2, 3} => GoesTo(IF Taken(n, a, b) THEN isa_pc + imm_b(g) ELSE isa_pc + 4)
    BY <1>4, <1>10
  <1>12. n \in {2, 3} => GoesTo(isa_pc + imm_b(g)) \/ GoesTo(isa_pc + 4)
    BY <1>4
  <1> QED
    BY <1>3, <1>11, <1>12, DoesBranch DEF a, b, n

\* A scalar instruction without a memory access takes effect in EXEC.
LEMMA ScalarCommits ==
  ASSUME Wide, Inv, DataInv, ExecInv, ClockEdge, ExecScalar, cpu_state' = "WB"
  PROVE  ISA!Next
  <1>1. PICK c \in vmac_controls(insn_fields) : ctl = Decode(insn_fields, c)
    BY DEF ExecInv, DecodedRight, ExecScalar
  <1> DEFINE g == insn_fields
  <1>2. CASE g.opcode \in {OP, OPIMM, LUI, AUIPC}
    BY <1>1, <1>2, ComputationCommits
  <1>3. CASE g.opcode \in {JAL, JALR}
    BY <1>1, <1>3, JumpCommits
  <1>4. CASE g.opcode = BRANCH
    BY <1>1, <1>4, BranchCommits
  <1>5. CASE g.opcode \notin {OP, OPIMM, LUI, AUIPC, JAL, JALR, BRANCH}
    BY <1>1, <1>5, OtherCommits
  <1> QED
    BY <1>2, <1>3, <1>4, <1>5

-----------------------------------------------------------------------------
(* Loads and stores *)

\* The lane an access starts at.
LEMMA LanesAre ==
  ASSUME NEW a \in Nat
  PROVE  /\ FirstLane(a, 1) = a % 4 /\ FirstLane(a, 4) = 0
         /\ FirstLane(a, 2) = IF (a \div 2) % 2 = 1 THEN 2 ELSE 0
         /\ a % 4 \in 0 .. 3 /\ (a \div 2) % 2 \in 0 .. 1
  <1>1. PICK q \in Int, r \in 0 .. 3 : q * 4 + r = a /\ a % 4 = r
    <2>1. 4 \in Nat \ {0} /\ a \in Int /\ 4 - 1 = 3
      OBVIOUS
    <2> QED
      BY <2>1, DivMod
  <1>2. a % 1 = 0 /\ a - 0 = a
    BY SMT
  <1>3. a - r = q * 4 + 0 /\ (q * 4 + 0) % 4 = 0
    BY <1>1
  <1>4. CASE r \in {0, 1}
    <2>1. a % 2 = r /\ a - r = q * 4 /\ (q * 4) % 4 = 0 /\ a \div 2 = 2 * q /\ (2 * q) % 2 = 0
      BY <1>1, <1>4
    <2> QED
      BY <1>1, <1>2, <1>3, <2>1 DEF FirstLane
  <1>5. CASE r \in {2, 3}
    <2>1. /\ a % 2 = r - 2 /\ a - (r - 2) = q * 4 + 2 /\ (q * 4 + 2) % 4 = 2
          /\ a \div 2 = 2 * q + 1 /\ (2 * q + 1) % 2 = 1
      BY <1>1, <1>5
    <2> QED
      BY <1>1, <1>2, <1>3, <2>1 DEF FirstLane
  <1> QED
    BY <1>4, <1>5

\* The bytes, the halves and the word an access of each size takes.
LEMMA BytesTaken ==
  ASSUME NEW w \in Word, NEW a \in Nat
  PROVE  /\ BytesOf(w, a, 1) = ByteOf(w, a % 4)
         /\ BytesOf(w, a, 2) = HalfOf(w, (a \div 2) % 2)
         /\ BytesOf(w, a, 4) = w
  <1>1. /\ FirstLane(a, 1) = a % 4 /\ FirstLane(a, 4) = 0
        /\ FirstLane(a, 2) = IF (a \div 2) % 2 = 1 THEN 2 ELSE 0
        /\ a % 4 \in 0 .. 3 /\ (a \div 2) % 2 \in 0 .. 1
    BY LanesAre
  <1>2. ByteMod \in Nat /\ \A i \in 0 .. 3 : ByteOf(w, i) \in Nat
    BY Moduli, ByteOfIsByte DEF Byte
  <1> DEFINE p == a % 4
             h == (a \div 2) % 2
  <1> HIDE DEF p, h
  <1>3. BytesOf(w, a, 1) = ByteOf(w, p)
    <2> DEFINE b == [i \in 0 .. 3 |-> IF i < 1 THEN ByteOf(w, p + i) ELSE 0]
    <2>1. b[0] = ByteOf(w, p) /\ b[1] = 0 /\ b[2] = 0 /\ b[3] = 0
      <3>1. p + 0 = p
        BY <1>1 DEF p
      <3> QED
        BY <3>1
    <2>2. BytesOf(w, a, 1) = OfBytes(b)
      BY <1>1 DEF BytesOf, p
    <2> HIDE DEF b
    <2>3. OfBytes(b) = ByteOf(w, p) + ByteMod * (0 + ByteMod * (0 + ByteMod * 0))
      BY <2>1 DEF OfBytes
    <2>4. ByteOf(w, p) \in Nat
      BY <1>1, <1>2 DEF p
    <2> QED
      BY <1>2, <2>2, <2>3, <2>4
  <1>4. BytesOf(w, a, 2) = HalfOf(w, h)
    <2> DEFINE f == IF h = 1 THEN 2 ELSE 0
               b == [i \in 0 .. 3 |-> IF i < 2 THEN ByteOf(w, f + i) ELSE 0]
    <2>1. f \in {0, 2} /\ f + 0 = f
      OBVIOUS
    <2>2. b[0] = ByteOf(w, f) /\ b[1] = ByteOf(w, f + 1) /\ b[2] = 0 /\ b[3] = 0
      <3> HIDE DEF f
      <3> QED
        BY <2>1
    <2>3. BytesOf(w, a, 2) = OfBytes(b)
      BY <1>1 DEF BytesOf, h
    <2> HIDE DEF b
    <2>4. OfBytes(b) = ByteOf(w, f) + ByteMod * (ByteOf(w, f + 1) + ByteMod * (0 + ByteMod * 0))
      <3> HIDE DEF f
      <3> QED
        BY <2>2 DEF OfBytes
    <2>5. h = 0 \/ h = 1
      BY <1>1 DEF h
    <2>6. /\ h = 0 => ByteOf(w, f) + ByteMod * ByteOf(w, f + 1) = HalfOf(w, h)
          /\ h = 1 => ByteOf(w, f) + ByteMod * ByteOf(w, f + 1) = HalfOf(w, h)
      BY HalvesOfBytes
    <2>7. ByteOf(w, f) \in Nat /\ ByteOf(w, f + 1) \in Nat
      BY <1>2, <2>1
    <2> HIDE DEF f
    <2>8. OfBytes(b) = ByteOf(w, f) + ByteMod * ByteOf(w, f + 1)
      BY <1>2, <2>4, <2>7
    <2> QED
      BY <2>3, <2>5, <2>6, <2>8
  <1>5. BytesOf(w, a, 4) = w
    <2> DEFINE b == [i \in 0 .. 3 |-> IF i < 4 THEN ByteOf(w, 0 + i) ELSE 0]
    <2>1. \A i \in 0 .. 3 : b[i] = ByteOf(w, i)
      <3>1. \A i \in 0 .. 3 : 0 + i = i /\ i < 4
        OBVIOUS
      <3> QED
        BY <3>1
    <2>2. BytesOf(w, a, 4) = OfBytes(b)
      BY <1>1 DEF BytesOf
    <2> HIDE DEF b
    <2> QED
      BY <2>1, <2>2, WordOfBytes
  <1> QED
    BY <1>3, <1>4, <1>5 DEF p, h

\* The widths, by funct3 (decoder_control.v:157-173).
LEMMA WidthsAre ==
  ASSUME NEW g \in Insn
  PROVE  \/ access_width(g) = "byte" /\ SizeOf(g.funct3) = 1
         \/ access_width(g) = "half" /\ SizeOf(g.funct3) = 2
         \/ access_width(g) \in {"word", "none"} /\ SizeOf(g.funct3) = 4
  <1> DEFINE n == g.funct3
  <1>1. n \in {0, 1, 2, 3, 4, 5, 6, 7}
    BY DEF Insn
  <1>2. /\ n \in {0, 4} => access_width(g) = "byte"
        /\ n \in {1, 5} => access_width(g) = "half"
        /\ n \in {2, 3, 6, 7} => access_width(g) \in {"word", "none"}
    <2> HIDE DEF n
    <2> QED
      BY DEF access_width, n
  <1> HIDE DEF n
  <1>3. /\ n \in {0, 4} => SizeOf(n) = 1
        /\ n \in {1, 5} => SizeOf(n) = 2
        /\ n \in {2, 3, 6, 7} => SizeOf(n) = 4
    <2>1. /\ n \in {0, 4} => n % 4 = 0
          /\ n \in {1, 5} => n % 4 = 1
          /\ n \in {2, 3, 6, 7} => n % 4 # 0 /\ n % 4 # 1
      BY SMT
    <2>2. 0 # 1
      OBVIOUS
    <2> QED
      BY <2>1, <2>2, Zenon DEF SizeOf
  <1> QED
    BY <1>1, <1>2, <1>3 DEF n

\* What WB takes of a loaded word w (ucrv32.v:365-386) is what the
\* architecture loads.
Extended(mask, sx, w, a) ==
  LET byte == ByteOf(w, a % 4)
      half == HalfOf(w, (a \div 2) % 2)
  IN  CASE mask = "byte" -> IF sx THEN SignExtend(byte, ByteMod) ELSE byte
        [] mask = "half" -> IF sx THEN SignExtend(half, HalfMod) ELSE half
        [] OTHER         -> w

\* What the core extends from a loaded word is what the load means.
LEMMA LoadIsRef ==
  ASSUME NEW g \in Insn, NEW w \in Word, NEW a \in Nat, NEW sx, sx <=> (g.funct3 < 4)
  PROVE  LET n == SizeOf(g.funct3)
             raw == BytesOf(w, a, n)
         IN  Extended(access_width(g), sx, w, a)
               = IF g.funct3 < 4 THEN SignExtend(raw, ByteMod^n) ELSE raw
  <1> DEFINE byte == ByteOf(w, a % 4)
             half == HalfOf(w, (a \div 2) % 2)
             n == SizeOf(g.funct3)
             raw == BytesOf(w, a, n)
             got == Extended(access_width(g), sx, w, a)
  <1>1. got = CASE access_width(g) = "byte" -> IF sx THEN SignExtend(byte, ByteMod) ELSE byte
                [] access_width(g) = "half" -> IF sx THEN SignExtend(half, HalfMod) ELSE half
                [] OTHER                    -> w
    BY DEF Extended
  <1>2. /\ BytesOf(w, a, 1) = byte /\ BytesOf(w, a, 2) = half /\ BytesOf(w, a, 4) = w
    BY BytesTaken
  <1>3. ByteMod^1 = ByteMod /\ ByteMod^2 = HalfMod /\ ByteMod^4 = WordMod
    BY Powers
  <1>4. SignExtend(w, WordMod) = w
    <2>1. w \in Nat /\ w < WordMod /\ WordMod \in Nat \ {0}
      BY Ranges DEF Word
    <2>2. w % WordMod = w
      BY <2>1, SMT
    <2>3. ((-1) * WordMod + w) % WordMod = w % WordMod
      <3>1. -1 \in Int /\ w \in Int
        BY <2>1
      <3> QED
        BY <2>1, <3>1, ModShift
    <2>4. (-1) * WordMod + w = w - WordMod
      BY <2>1
    <2>5. (w - WordMod) % WordMod = w
      BY <2>2, <2>3, <2>4, Zenon
    <2> QED
      BY <2>2, <2>5 DEF SignExtend, Signed
  <1> HIDE DEF byte, half, got
  <1>5. CASE access_width(g) = "byte" /\ n = 1
    <2>1. got = IF sx THEN SignExtend(byte, ByteMod) ELSE byte
      BY <1>1, <1>5
    <2>2. raw = byte /\ ByteMod^n = ByteMod
      BY <1>2, <1>3, <1>5
    <2> HIDE DEF n, raw
    <2> QED
      BY <2>1, <2>2 DEF n, raw, got
  <1>6. CASE access_width(g) = "half" /\ n = 2
    <2>1. got = IF sx THEN SignExtend(half, HalfMod) ELSE half
      BY <1>1, <1>6
    <2>2. raw = half /\ ByteMod^n = HalfMod
      BY <1>2, <1>3, <1>6
    <2> HIDE DEF n, raw
    <2> QED
      BY <2>1, <2>2 DEF n, raw, got
  <1>7. CASE access_width(g) \in {"word", "none"} /\ n = 4
    <2>1. got = w
      BY <1>1, <1>7
    <2>2. raw = w /\ ByteMod^n = WordMod
      BY <1>2, <1>3, <1>7
    <2> HIDE DEF n, raw
    <2> QED
      BY <1>4, <2>1, <2>2 DEF n, raw, got
  <1> QED
    BY <1>5, <1>6, <1>7, WidthsAre

\* A load takes effect when its answer is taken (ucrv32.v:684-706).
LEMMA LoadCommits ==
  ASSUME Wide, Inv, DataInv, ExecInv, ClockEdge, cpu_state = "MEM", cpu_state' = "WB",
         MemAwait(dmem_req_ready, dmem_resp_valid, dmem_resp_rdata)
  PROVE  ISA!Next
  <1>1. /\ ~dreq.valid /\ ctl.mem_read /\ mem_data_reg' = dmem_resp_rdata
        /\ pc_reg' = pc_plus_4 /\ ctr' = Counted({CYCLE, LOADS}) /\ alu_out_reg' = alu_out_reg
    BY DEF MemAwait
  <1>2. PICK c \in vmac_controls(insn_fields) : ctl = Decode(insn_fields, c)
    BY DEF ExecInv, DecodedRight
  <1> DEFINE g == insn_fields
             a == alu_out_reg
             w == dmem_resp_rdata
  <1>3. /\ ctl.mem_read = (g.opcode = LOAD) /\ ctl.imm = immediate(g)
        /\ ctl.mem_mask = access_width(g)
        /\ ctl.mem_sign_extend = (g.opcode = LOAD /\ g.funct3 < 4)
    BY <1>2, ControlIs
  <1>4. g.opcode = LOAD
    BY <1>1, <1>3
  <1>5. ~vst_committed
    BY DEF vst_committed
  <1>6. writes_scalar(g) /\ ~writes_vector(g)
    <2>1. ~is_vec_type(g) /\ g.opcode \notin {BRANCH, STORE}
      BY <1>4 DEF is_vec_type, LOAD, CUSTOM, BRANCH, STORE
    <2> QED
      BY <2>1 DEF writes_scalar, writes_vector
  <1>7. LOAD # SYSTEM
    BY DEF LOAD, SYSTEM
  <1>8. /\ g \in Insn /\ g = Current /\ ProgramTyped /\ Writes(g.rd, wb_data') /\ isa_v' = isa_v
        /\ isa_brk' = isa_brk /\ GoesTo(isa_pc + 4) /\ isa_m = mem /\ isa_m' = mem'
        /\ wb_data' = mem_data_extended' /\ mem_data_reg' \in Word /\ CountsUp(2)
    BY <1>1, <1>2, <1>4, <1>5, <1>6, <1>7, Commits
  <1>9. mem' = mem
    BY <1>1, MemoryMoves DEF ExecInv
  <1>10. a = (Operand(g.rs1) + imm_i(g)) % WordMod
    <2>1. immediate(g) = imm_i(g)
      BY <1>4, ImmediateIs DEF is_i_type
    <2>2. Operand(g.rs1) = rf_rdata(g.rs1)
      BY <1>5, Before
    <2> QED
      BY <1>3, <2>1, <2>2 DEF ExecInv, MemRight
  <1>11. ~is_uart(a) => w = isa_m[word_index(a)]
    <2>1. ScalarAwaits
      BY <1>1 DEF ScalarAwaits
    <2>2. dmem_raddr_reg = a /\ dmem_addr_reg = a
      BY <2>1, Quiet DEF ExecInv, MemRight
    <2> QED
      BY <1>8, <2>2 DEF dmem_resp_rdata, sram_dmem_rdata
  <1>12. wb_data' = Extended(access_width(g), ctl.mem_sign_extend, w, a)
    <2>1. ctl' = ctl
      BY CoreMoves
    <2>2. mem_data_extended' = Extended(ctl'.mem_mask, ctl'.mem_sign_extend, mem_data_reg', alu_out_reg')
      BY DEF mem_data_extended, Extended
    <2> QED
      BY <1>1, <1>3, <1>8, <2>1, <2>2
  <1>13. w \in Word /\ a \in Nat
    <2>1. alu_out_reg \in Word
      BY DEF DataInv, CpuFits
    <2> QED
      BY <1>1, <1>8, <2>1, Ranges DEF Word
  <1>14. ctl.mem_sign_extend <=> (g.funct3 < 4)
    BY <1>3, <1>4
  <1>15. LET n == SizeOf(g.funct3)
             raw == BytesOf(w, a, n)
         IN  wb_data' = IF g.funct3 < 4 THEN SignExtend(raw, ByteMod^n) ELSE raw
    <2> HIDE DEF g, w, a
    <2> QED
      BY <1>8, <1>12, <1>13, <1>14, LoadIsRef
  <1>16. wb_data' \in Word
    <2>1. DataInv'
      BY EdgeFits
    <2>2. (CpuFits => mem_data_extended \in Word)'
      BY ExtendedFits, PTL
    <2> QED
      BY <1>8, <2>1, <2>2 DEF DataInv
  <1> HIDE DEF g, a, w
  <1>17. ~is_uart(a) => LET n == SizeOf(g.funct3)
                            raw == BytesOf(isa_m[word_index(a)], a, n)
                        IN  wb_data' = IF g.funct3 < 4 THEN SignExtend(raw, ByteMod^n) ELSE raw
    BY <1>11, <1>15
  <1> QED
    BY <1>4, <1>8, <1>9, <1>10, <1>16, <1>17, DoesLoad DEF KeepsAll

\* The data of a store, repeated on the lanes it may land on.
LEMMA StoreDataBytes ==
  ASSUME rdata2_reg \in Word
  PROVE  /\ ctl.mem_mask = "byte" => \A i \in 0 .. 3 : ByteOf(store_data, i) = ByteOf(rdata2_reg, 0)
         /\ ctl.mem_mask = "half" =>
              /\ ByteOf(store_data, 0) = ByteOf(rdata2_reg, 0) /\ ByteOf(store_data, 1) = ByteOf(rdata2_reg, 1)
              /\ ByteOf(store_data, 2) = ByteOf(rdata2_reg, 0) /\ ByteOf(store_data, 3) = ByteOf(rdata2_reg, 1)
  <1> DEFINE x == ByteOf(rdata2_reg, 0)
             y == ByteOf(rdata2_reg, 1)
  <1>1. x \in Byte /\ y \in Byte
    BY ByteOfIsByte
  <1>2. ASSUME ctl.mem_mask = "byte", NEW i \in 0 .. 3 PROVE ByteOf(store_data, i) = x
    <2> DEFINE b == [k \in 0 .. 3 |-> x]
    <2>1. store_data = OfBytes(b)
      BY <1>2 DEF store_data
    <2>2. \A k \in 0 .. 3 : b[k] = x
      OBVIOUS
    <2> HIDE DEF b, x
    <2>3. ByteOf(OfBytes(b), i) = b[i]
      BY <1>1, <2>2, BytesOfWord
    <2> QED
      BY <2>1, <2>2, <2>3
  <1>3. ASSUME ctl.mem_mask = "half"
        PROVE  /\ ByteOf(store_data, 0) = x /\ ByteOf(store_data, 1) = y
               /\ ByteOf(store_data, 2) = x /\ ByteOf(store_data, 3) = y
    <2> DEFINE b == [k \in 0 .. 3 |-> IF k \in {0, 2} THEN x ELSE y]
               h == HalfOf(rdata2_reg, 0)
    <2>1. store_data = h * (1 + HalfMod)
      BY <1>3 DEF store_data
    <2>2. b[0] = x /\ b[1] = y /\ b[2] = x /\ b[3] = y
      OBVIOUS
    <2>3. h = x + ByteMod * y
      BY HalvesOfBytes
    <2>4. x \in Nat /\ y \in Nat /\ ByteMod \in Nat /\ HalfMod = ByteMod * ByteMod
      BY <1>1, Moduli DEF Byte
    <2> HIDE DEF b, x, y, h
    <2>5. OfBytes(b) = x + ByteMod * (y + ByteMod * (x + ByteMod * y))
      BY <2>2 DEF OfBytes
    <2>6. \A n, p, q \in Nat : p + n * (q + n * (p + n * q)) = (p + n * q) * (1 + n * n)
      BY SMT
    <2>7. OfBytes(b) = store_data
      BY <2>1, <2>3, <2>4, <2>5, <2>6
    <2>8. \A k \in 0 .. 3 : b[k] \in Byte
      <3>1. \A k \in 0 .. 3 : k = 0 \/ k = 1 \/ k = 2 \/ k = 3
        OBVIOUS
      <3> QED
        BY <1>1, <2>2, <3>1
    <2>9. \A k \in 0 .. 3 : ByteOf(store_data, k) = b[k]
      BY <2>7, <2>8, BytesOfWord
    <2> QED
      BY <2>2, <2>9
  <1> QED
    BY <1>2, <1>3

\* What the SRAM makes of a store's data and lanes (ucrv32.v:327-347,
\* sram.v:27-35) is what the architecture stores.
LEMMA StoreIsRef ==
  ASSUME NEW g \in Insn, ctl.mem_mask = access_width(g), rdata2_reg \in Word,
         NEW a \in Word, NEW old
  PROVE  Masked(old, store_data, store_lanes(a)) = Stored(old, a, SizeOf(g.funct3), rdata2_reg)
  <1> DEFINE n == SizeOf(g.funct3)
             F == FirstLane(a, n)
             lanes == store_lanes(a)
  <1>1. a \in Nat
    BY Ranges DEF Word
  <1>2. /\ FirstLane(a, 1) = a % 4 /\ FirstLane(a, 4) = 0
        /\ FirstLane(a, 2) = IF (a \div 2) % 2 = 1 THEN 2 ELSE 0
        /\ a % 4 \in 0 .. 3 /\ (a \div 2) % 2 \in 0 .. 1
    BY <1>1, LanesAre
  <1>3. ASSUME \A i \in 0 .. 3 : i \in lanes <=> i \in F .. F + n - 1,
               \A i \in 0 .. 3 : i \in lanes => ByteOf(store_data, i) = ByteOf(rdata2_reg, i - F)
        PROVE  Masked(old, store_data, lanes) = Stored(old, a, n, rdata2_reg)
    <2>1. [i \in 0 .. 3 |-> ByteOf(IF i \in lanes THEN store_data ELSE old, i)]
            = [i \in 0 .. 3 |-> IF i \in F .. F + n - 1 THEN ByteOf(rdata2_reg, i - F) ELSE ByteOf(old, i)]
      <3> SUFFICES ASSUME NEW i \in 0 .. 3
                   PROVE  ByteOf(IF i \in lanes THEN store_data ELSE old, i)
                            = IF i \in F .. F + n - 1 THEN ByteOf(rdata2_reg, i - F) ELSE ByteOf(old, i)
        OBVIOUS
      <3> HIDE DEF lanes, F, n
      <3> QED
        BY <1>3
    <2> QED
      BY <2>1, Zenon DEF Masked, Stored
  <1>4. CASE access_width(g) = "byte" /\ n = 1
    <2> DEFINE p == a % 4
    <2>1. lanes = {p} /\ F = p /\ p \in 0 .. 3
      BY <1>2, <1>4 DEF store_lanes
    <2>2. \A i \in 0 .. 3 : ByteOf(store_data, i) = ByteOf(rdata2_reg, 0)
      BY <1>4, StoreDataBytes
    <2> HIDE DEF lanes, F, p
    <2>3. \A i \in 0 .. 3 : i \in lanes <=> i \in F .. F + n - 1
      BY <1>4, <2>1
    <2>4. p - p = 0
      BY <2>1
    <2>5. \A i \in 0 .. 3 : i \in lanes => ByteOf(store_data, i) = ByteOf(rdata2_reg, i - F)
      BY <2>1, <2>2, <2>4
    <2> QED
      BY <1>3, <2>3, <2>5 DEF lanes, F
  <1>5. CASE access_width(g) = "half" /\ n = 2
    <2>1. \/ lanes = {2, 3} /\ F = 2
          \/ lanes = {0, 1} /\ F = 0
      BY <1>2, <1>5 DEF store_lanes
    <2>2. /\ ByteOf(store_data, 0) = ByteOf(rdata2_reg, 0) /\ ByteOf(store_data, 1) = ByteOf(rdata2_reg, 1)
          /\ ByteOf(store_data, 2) = ByteOf(rdata2_reg, 0) /\ ByteOf(store_data, 3) = ByteOf(rdata2_reg, 1)
      BY <1>5, StoreDataBytes
    <2> HIDE DEF lanes, F
    <2>3. \A i \in 0 .. 3 : i \in lanes <=> i \in F .. F + n - 1
      BY <1>5, <2>1
    <2>4. 0 - 0 = 0 /\ 1 - 0 = 1 /\ 2 - 2 = 0 /\ 3 - 2 = 1
      OBVIOUS
    <2>5. \A i \in 0 .. 3 : i \in lanes => ByteOf(store_data, i) = ByteOf(rdata2_reg, i - F)
      BY <2>1, <2>2, <2>4
    <2> QED
      BY <1>3, <2>3, <2>5 DEF lanes, F
  <1>6. CASE access_width(g) \in {"word", "none"} /\ n = 4
    <2>1. lanes = 0 .. 3 /\ store_data = rdata2_reg
      BY <1>6 DEF store_lanes, store_data
    <2>2. Masked(old, rdata2_reg, 0 .. 3) = rdata2_reg
      BY WholeWord
    <2>3. Stored(old, a, 4, rdata2_reg) = rdata2_reg
      BY StoredWord
    <2> QED
      BY <1>6, <2>1, <2>2, <2>3
  <1> QED
    BY <1>4, <1>5, <1>6, WidthsAre

\* A scalar store takes effect when it is accepted (ucrv32.v:684-706).
LEMMA StoreCommitsNow ==
  ASSUME Wide, Inv, DataInv, ExecInv, ClockEdge, cpu_state = "MEM", cpu_state' = "WB",
         MemAccept(dmem_req_ready)
  PROVE  ISA!Next
  <1>1. ~ctl.mem_read /\ dreq.valid
    BY DEF MemAccept, after_accept
  <1>2. pc_reg' = pc_plus_4 /\ ctr' = Counted({CYCLE, STORES})
    BY <1>1 DEF MemAccept
  <1>3. PICK c \in vmac_controls(insn_fields) : ctl = Decode(insn_fields, c)
    BY DEF ExecInv, DecodedRight
  <1> DEFINE g == insn_fields
             a == alu_out_reg
  <1>4. /\ ctl.mem_write = (g.opcode = STORE) /\ ctl.imm = immediate(g)
        /\ ctl.mem_mask = access_width(g)
    BY <1>3, ControlIs
  <1>5. MemRight /\ Running /\ OperandsRight
    BY DEF ExecInv
  <1>6. /\ ctl.mem_write /\ dreq.addr = a /\ dreq.wdata = store_data /\ dreq.wmask = store_lanes(a)
        /\ a = (rf_rdata(g.rs1) + ctl.imm) % WordMod
    BY <1>1, <1>5 DEF MemRight
  <1>7. g.opcode = STORE
    BY <1>4, <1>6
  <1>8. ~vst_committed
    BY DEF vst_committed
  <1>9. ~writes_scalar(g) /\ ~writes_vector(g)
    <2>1. ~is_vec_type(g) /\ ~is_vmac_type(g) /\ ~is_rdwrctr_type(g)
      BY <1>7 DEF is_vec_type, is_vmac_type, is_rdwrctr_type, STORE, CUSTOM
    <2> QED
      BY <1>7, <2>1 DEF writes_scalar, writes_vector, is_vec_vmac_type
  <1>10. STORE # SYSTEM
    BY DEF STORE, SYSTEM
  <1>11. /\ g \in Insn /\ g = Current /\ isa_x' = isa_x /\ isa_v' = isa_v
         /\ isa_brk' = isa_brk /\ GoesTo(isa_pc + 4) /\ isa_m = mem /\ isa_m' = mem' /\ CountsUp(3)
    BY <1>2, <1>3, <1>7, <1>8, <1>9, <1>10, Commits
  <1>12. mem' = Written(mem, dreq)
    <2>1. dreq.write
      <3>1. dreq.write = ~ctl.mem_read /\ ctl.mem_read \in BOOLEAN
        BY <1>1 DEF Inv, MemConsistent, ControlTypeOK, ControlFlags
      <3> QED
        BY <1>1, <3>1
    <2> QED
      BY <1>1, <1>5, <2>1, MemoryMoves
  <1>13. \A i : Operand(i) = rf_rdata(i)
    BY <1>8, Before
  <1>14. a = (Operand(g.rs1) + imm_s(g)) % WordMod
    BY <1>4, <1>6, <1>7, <1>13, ImmediateIs
  <1>15. rdata2_reg = Operand(g.rs2)
    BY <1>5, <1>13 DEF OperandsRight
  <1>16. a \in Word /\ rdata2_reg \in Word
    BY DEF DataInv, CpuFits
  <1>17. \A old : Masked(old, store_data, store_lanes(a)) = Stored(old, a, SizeOf(g.funct3), rdata2_reg)
    <2> HIDE DEF g, a
    <2> QED
      BY <1>4, <1>11, <1>16, StoreIsRef
  <1>18. isa_m' = [isa_m EXCEPT ![word_index(a)] =
                     Stored(isa_m[word_index(a)], a, SizeOf(g.funct3), Operand(g.rs2))]
    <2>1. mem' = [mem EXCEPT ![word_index(a)] = Masked(mem[word_index(a)], store_data, store_lanes(a))]
      BY <1>6, <1>12 DEF Written
    <2> HIDE DEF g, a
    <2> QED
      BY <1>11, <1>15, <1>17, <2>1
  <1> HIDE DEF g, a
  <1> QED
    BY <1>7, <1>11, <1>14, <1>18, DoesStore

-----------------------------------------------------------------------------
(* The refinement *)

\* Every clock edge is one instruction of the program or none.
LEMMA EdgeRefines ==
  ASSUME Wide, Inv, DataInv, ExecInv, ClockEdge
  PROVE  ISA!Next \/ ProgramUnchanged
  <1>1. cpu_state \in {"FETCH", "DECODE", "EXEC", "MEM", "WB"}
    BY DEF Inv, ControlTypeOK, CpuStates
  <1>2. CASE cpu_state \in {"FETCH", "DECODE"}
    BY <1>2, FrontStutters
  <1>3. CASE cpu_state = "WB"
    BY <1>3, BackStutters
  <1>4. CASE vst_committed
    BY <1>4, StoreStutters
  <1>5. CASE cpu_state = "EXEC" /\ ~vst_committed
    <2>1. \/ ExecRdwrctr \/ ExecVectorWait \/ ExecVectorDone
          \/ ExecVmacWait \/ ExecVmacDone \/ ExecScalar
      BY <1>5, CoreMoves
    <2>2. CASE vst_committed'
      BY <1>5, <2>2, StoreTakesEffect
    <2>3. CASE ~vst_committed' /\ cpu_state' \in {"EXEC", "MEM"}
      BY <1>5, <2>3, WaitStutters
    <2>4. CASE cpu_state' = "WB"
      <3>1. ~ExecVectorWait /\ ~ExecVmacWait
        BY <1>5, <2>4 DEF ExecVectorWait, ExecVmacWait
      <3> QED
        BY <1>5, <2>1, <2>4, <3>1, CounterCommits, VectorCommits, PackedCommits, ScalarCommits
    <2>5. cpu_state' \in {"EXEC", "MEM", "WB"}
      BY <1>5, <2>1 DEF ExecRdwrctr, ExecVectorWait, ExecVectorDone, ExecVmacWait, ExecVmacDone, ExecScalar
    <2> QED
      BY <2>2, <2>3, <2>4, <2>5
  <1>6. CASE cpu_state = "MEM"
    <2>1. \/ MemAccept(dmem_req_ready)
          \/ MemAwait(dmem_req_ready, dmem_resp_valid, dmem_resp_rdata)
      BY <1>6, CoreMoves
    <2>2. cpu_state' \in {"MEM", "WB"}
      BY <2>1 DEF MemAccept, MemAwait, after_accept
    <2>3. CASE cpu_state' = "MEM"
      <3>1. ~vst_committed /\ ~vst_committed'
        BY <1>6, <2>3 DEF vst_committed
      <3> QED
        BY <1>6, <2>3, <3>1, WaitStutters
    <2>4. CASE cpu_state' = "WB"
      BY <1>6, <2>1, <2>4, StoreCommitsNow, LoadCommits
    <2> QED
      BY <2>2, <2>3, <2>4
  <1> QED
    BY <1>1, <1>2, <1>3, <1>4, <1>5, <1>6

\* The power-on state is an initial state of the instruction set.
LEMMA InitRefines ==
  ASSUME Init
  PROVE  ISA!Init
  <1>1. /\ cpu_state = "FETCH" /\ pc_reg = 0 /\ ctr = [i \in 0 .. 3 |-> 0]
        /\ regs \in RegInits /\ vregs = [i \in 0 .. 31 |-> << 0, 0 >>]
        /\ mem \in Programs /\ break_hit = FALSE
    BY DEF Init, CpuInit
  <1>2. ~vst_committed /\ ~committed /\ ~ebreak_hit
    BY <1>1 DEF vst_committed, committed, ebreak_hit
  <1>3. isa_pc = 0 /\ isa_x = regs /\ isa_v = vregs /\ isa_m = mem /\ isa_brk = FALSE
    BY <1>1, <1>2 DEF isa_pc, isa_x, isa_v, isa_m, isa_brk
  <1>4. isa_count = [i \in 1 .. 3 |-> 0]
    <2>1. CtrMod \in Nat \ {0}
      BY CtrModAssumption, Moduli
    <2>2. (0 + 0) % CtrMod = 0
      BY <2>1
    <2>3. \A i \in 1 .. 3 : ctr[i] = 0 /\ Flag(i = INSN /\ committed) = 0
      BY <1>1, <1>2 DEF Flag
    <2> QED
      BY <2>2, <2>3 DEF isa_count
  <1>5. isa_x \in [0 .. 31 -> Word] /\ isa_m \in [0 .. MemWords - 1 -> Word]
    BY <1>1, <1>3, RegInitsAssumption, ProgramsAssumption
  <1> QED
    BY <1>1, <1>3, <1>4, <1>5, IsaWords DEF ISA!Init

\* A step that changes nothing keeps the invariant, and the program does not
\* see it.
LEMMA StutterKeeps ==
  ASSUME ExecInv, UNCHANGED vars
  PROVE  ExecInv' /\ ProgramUnchanged
  <1>1. /\ UNCHANGED << cpu_state, pc_reg, pc_saved, insn_reg, rdata1_reg, rdata2_reg, alu_out_reg,
                        mem_data_reg, csr, ctl, ctr, vs1_data_reg, vs2_data_reg, vec_result_reg, dreq,
                        regs, vregs >>
        /\ UNCHANGED << valuVars, vmacVars, vlsuVars, sramVars, break_hit, rst_edges, resets,
                        sim_use_par_txrx >>
    BY DEF vars, cpuVars, dataRegs, vectorOps, files, deviceVars, parVars
  <1>2. vst_committed' = vst_committed /\ insn_fields' = insn_fields
    BY <1>1 DEF vst_committed, insn_fields, vlsuVars
  <1>3. Running' /\ FetchedRight' /\ DecodedRight'
    BY <1>1, <1>2 DEF ExecInv, Running, FetchedRight, InFlight, DecodedRight, sramVars
  <1>4. OperandsRight' /\ MemRight'
    BY <1>1, <1>2 DEF ExecInv, OperandsRight, MemRight, rf_rdata, vrf_rdata, store_data, store_lanes
  <1>5. ValuRight' /\ VmacRight'
    BY <1>1 DEF ExecInv, ValuRight, VmacRight, valuVars, vmacVars
  <1>6. VlsuRight'
    BY <1>1 DEF ExecInv, VlsuRight, Holds, second_addr, word_addr, vlsuVars, sramVars
  <1>7. ProgramUnchanged
    BY <1>1, <1>2 DEF ProgramUnchanged, isa_pc, isa_x, isa_v, isa_m, isa_count, isa_brk, committed,
       RegsWritten, VregsWritten, wb_data, mem_data_extended, pc_plus_4, ebreak_hit, vlsuVars, sramVars
  <1> QED
    BY <1>3, <1>4, <1>5, <1>6, <1>7 DEF ExecInv

\* Whatever the program, on every edge of ucrv32.v and the units below it:
\* while an instruction is in the core, the fetched word, the latched decoder
\* outputs and operands, the partial results of valu.v, vmac.v and vlsu.v and
\* the request on the bus are those of the instruction at its address, though
\* the registers hold what earlier instructions left until they are written.
THEOREM ExecutionIsRight ==
  ASSUME Wide, MaxResets = 0, ParModes \subseteq {TRUE}
  PROVE  Spec => []ExecInv
  <1>1. Init => ExecInv
    BY ExecInit
  <1>2. Inv /\ DataInv /\ ExecInv /\ [Next]_vars => ExecInv'
    <2> SUFFICES ASSUME Inv, DataInv, ExecInv, [Next]_vars PROVE ExecInv'
      OBVIOUS
    <2>1. CASE Next
      <3>1. ClockEdge
        BY <2>1, NoReset DEF ExecInv
      <3> QED
        BY <3>1, ExecStep
    <2>2. CASE UNCHANGED vars
      BY <2>2, StutterKeeps
    <2> QED
      BY <2>1, <2>2
  <1> QED
    BY <1>1, <1>2, Invariance, DataStaysFit, PTL DEF Spec

\* Every behaviour of the clocked system (top.v:1-170, ucrv32.v and all it
\* instantiates) is a behaviour of the instruction set: seen through TopIsa's
\* mapping, an edge is one whole instruction or nothing.  For every program,
\* register content, memory size and word of at least twelve bits; without a
\* reset, which has no counterpart in the instruction set, and with the
\* parallel port that top.cc:328 selects: in serial mode a scalar
\* store to the device page that waits for the UART has written the SRAM
\* before it commits.
THEOREM CoreImplementsIsa ==
  ASSUME Wide, MaxResets = 0, ParModes \subseteq {TRUE}
  PROVE  Spec => ImplementsIsa
  <1>1. Init => ISA!Init
    BY InitRefines
  <1>2. Inv /\ DataInv /\ ExecInv /\ [Next]_vars => [ISA!Next]_(ISA!isaVars)
    <2> SUFFICES ASSUME Inv, DataInv, ExecInv, [Next]_vars PROVE ISA!Next \/ UNCHANGED ISA!isaVars
      OBVIOUS
    <2>1. ISA!Next \/ ProgramUnchanged
      <3>1. CASE Next
        <4>1. ClockEdge
          BY <3>1, NoReset DEF ExecInv
        <4> QED
          BY <4>1, EdgeRefines
      <3>2. CASE UNCHANGED vars
        BY <3>2, StutterKeeps
      <3> QED
        BY <3>1, <3>2
    <2>2. ProgramUnchanged => UNCHANGED ISA!isaVars
      BY DEF ProgramUnchanged, ISA!isaVars
    <2> QED
      BY <2>1, <2>2
  <1> QED
    BY <1>1, <1>2, Invariance, DataStaysFit, ExecutionIsRight, PTL DEF Spec, ImplementsIsa, ISA!Spec
=============================================================================
