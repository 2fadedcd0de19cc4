--------------------------------- MODULE Isa ---------------------------------
(***************************************************************************)
(* What the core promises a program: one whole instruction per step, with  *)
(* the reference arithmetic of IsaArith.  What the sources leave open      *)
(* (reserved encodings, the cycle counter, the device page) is left open   *)
(* here.                                                                   *)
(***************************************************************************)
EXTENDS Decoder, IsaArith

CONSTANTS Fields(_), MemWords, UartPage, CtrMod

VARIABLES
  pc,
  x, v,        \* the scalar and the vector registers
  m,           \* memory, by words
  count,       \* counters: 1 instructions, 2 loads, 3 stores
  brk          \* a break has been executed

isaVars == << pc, x, v, m, count, brk >>

-----------------------------------------------------------------------------
(* Memory *)

\* Memory by bytes.  An access of n bytes is made at the multiple of n at
\* or below its address; memory repeats above its last word.
Index(a) == (a \div 4) % MemWords
BytesAt(mm, a, n) ==
  LET first == (a - (a % n)) % 4
  IN  OfBytes([i \in 0 .. 3 |-> IF i < n THEN ByteOf(mm[Index(a)], first + i) ELSE 0])
StoreAt(mm, a, n, val) ==
  LET first == (a - (a % n)) % 4
  IN  [mm EXCEPT ![Index(a)] =
         OfBytes([i \in 0 .. 3 |-> IF i \in first .. first + n - 1
                                   THEN ByteOf(val, i - first) ELSE ByteOf(@, i)])]

Size(funct3) == CASE funct3 % 4 = 0 -> 1 [] funct3 % 4 = 1 -> 2 [] OTHER -> 4

-----------------------------------------------------------------------------
(* The instructions *)

f == Fields(m[Index(pc)])
X(i) == IF i = 0 THEN 0 ELSE x[i]
V(i) == IF i = 0 THEN << 0, 0 >> ELSE v[i]

Sets(val) == x' = IF f.rd = 0 THEN x ELSE [x EXCEPT ![f.rd] = val]
SetsV(val) == v' = IF f.rd = 0 THEN v ELSE [v EXCEPT ![f.rd] = val]
\* The destination gets a value the architecture does not define.
SetsAny  == Sets(x'[f.rd]) /\ x'[f.rd] \in Word
SetsAnyV == SetsV(v'[f.rd]) /\ v'[f.rd] \in VWord

Step4 == pc' = (pc + 4) % WordMod
Jump(offset) == pc' = (pc + offset) % WordMod
Counts(id) ==
  count' = [i \in DOMAIN count |-> (count[i] + (IF i \in {1, id} THEN 1 ELSE 0)) % CtrMod]

Computational ==
  /\ f.opcode \in {OP, OPIMM, LUI, AUIPC}
  /\ LET b == IF f.opcode = OP THEN X(f.rs2) ELSE imm_i(f)
         defined == IF f.opcode = OP
                    THEN f.funct7 = 0 \/ (f.funct7 = 32 /\ f.funct3 \in {0, 5})
                    ELSE f.funct3 # 5 \/ f.funct7 \in {0, 32}
         alt == f.funct7 = 32 /\ (f.opcode = OP \/ f.funct3 = 5)
     IN  CASE f.opcode = LUI   -> Sets(imm_u(f))
           [] f.opcode = AUIPC -> Sets((pc + imm_u(f)) % WordMod)
           [] f.opcode \in {OP, OPIMM} /\ defined -> Sets(AluRef(f.funct3, alt, X(f.rs1), b))
           [] OTHER -> SetsAny
  /\ Step4 /\ Counts(1) /\ UNCHANGED << v, m, brk >>

Branch ==
  /\ f.opcode = BRANCH
  /\ \/ f.funct3 \in {2, 3} /\ (Jump(imm_b(f)) \/ Step4)
     \/ f.funct3 \notin {2, 3} /\ IF Taken(f.funct3, X(f.rs1), X(f.rs2))
                                  THEN Jump(imm_b(f)) ELSE Step4
  /\ Counts(1) /\ UNCHANGED << x, v, m, brk >>

Jumps ==
  /\ \/ f.opcode = JAL /\ Jump(imm_j(f))
     \/ f.opcode = JALR /\ LET t == (X(f.rs1) + imm_i(f)) % WordMod IN pc' = t - (t % 2)
  /\ Sets((pc + 4) % WordMod)
  /\ Counts(1) /\ UNCHANGED << v, m, brk >>

Load ==
  LET a == (X(f.rs1) + imm_i(f)) % WordMod
      n == Size(f.funct3)
      raw == BytesAt(m, a, n)
  IN  /\ f.opcode = LOAD
      /\ IF a \div 4096 = UartPage THEN SetsAny
         ELSE Sets(IF f.funct3 < 4 THEN SignExtend(raw, ByteMod^n) ELSE raw)
      /\ Step4 /\ Counts(2) /\ UNCHANGED << v, m, brk >>

Store ==
  LET a == (X(f.rs1) + imm_s(f)) % WordMod
  IN  /\ f.opcode = STORE
      /\ m' = StoreAt(m, a, Size(f.funct3), X(f.rs2))
      /\ Step4 /\ Counts(3) /\ UNCHANGED << x, v, brk >>

Packed ==
  /\ is_vmac_type(f)
  /\ IF f.funct7 <= 3 THEN Sets(PackedRef(f.funct7, X(f.rs1), X(f.rs2))) ELSE SetsAny
  /\ Step4 /\ Counts(1) /\ UNCHANGED << v, m, brk >>

\* VADD, VSUB and VMUL by elements; VMAC into a scalar register.
VectorArith ==
  LET w == 2^(f.funct7 \div 32)
      a(i) == Elem(V(f.rs1), w, i)
      b(i) == Elem(V(f.rs2), w, i)
  IN  /\ is_vec_type(f) /\ vop(f) <= VOP_VMAC
      /\ CASE vop(f) = VOP_VMAC -> (IF w = 8 THEN SetsAny ELSE Sets(Dot(V(f.rs1), V(f.rs2), w)))
                                   /\ UNCHANGED v
           [] OTHER -> /\ UNCHANGED x
                       /\ IF w = 8 THEN SetsAnyV
                          ELSE SetsV(OfElems([i \in Elems(w) |->
                                 CASE vop(f) = VOP_VADD -> a(i) + b(i)
                                   [] vop(f) = VOP_VSUB -> a(i) - b(i)
                                   [] vop(f) = VOP_VMUL -> a(i) * b(i)], w))
      /\ Step4 /\ Counts(1) /\ UNCHANGED << m, brk >>

\* A vector access moves the word at the address and the word after it.
VectorMem ==
  LET a == X(f.rs1)
      next == (a + 4) % WordMod
  IN  /\ is_vec_type(f)
      /\ \/ /\ vop(f) = VOP_VLD
            /\ IF UartPage \in {a \div 4096, next \div 4096} THEN SetsAnyV
               ELSE SetsV(<< m[Index(a)], m[Index(next)] >>)
            /\ UNCHANGED m
         \/ /\ vop(f) = VOP_VST
            /\ m' = StoreAt(StoreAt(m, a, 4, V(f.rs2)[1]), next, 4, V(f.rs2)[2])
            /\ UNCHANGED v
      /\ Step4 /\ Counts(1) /\ UNCHANGED << x, brk >>

\* VMOV and the unassigned vector codes.
VectorReserved ==
  /\ is_vec_type(f) /\ vop(f) > VOP_VST
  /\ IF vop(f) = VOP_VMOV_S2V THEN SetsAnyV ELSE UNCHANGED v
  /\ Step4 /\ Counts(1) /\ UNCHANGED << x, m, brk >>

\* Counter 0 counts cycles, which have no meaning here.  A counter write
\* was not meant to have a destination (decoder_control.v:232), but it does
\* write one; what, is left open.
Counter ==
  LET id == f.rs2 % 4
  IN  /\ is_rdwrctr_type(f)
      /\ \/ f.funct7 < 64 /\ Counts(1) /\ IF id = 0 THEN SetsAny ELSE Sets(count[id])
         \/ /\ f.funct7 >= 64 /\ SetsAny
            /\ count' = [i \in DOMAIN count |->
                           ((IF i = id THEN X(f.rs1) ELSE count[i]) + Flag(i = 1)) % CtrMod]
      /\ Step4 /\ UNCHANGED << v, m, brk >>

\* EBREAK, ECALL and the other SYSTEM instructions with funct3 = 0 all stop
\* the program; no other SYSTEM instruction is defined.
System ==
  /\ f.opcode = SYSTEM
  /\ SetsAny
  /\ brk' = (brk \/ f.funct3 = 0)
  /\ Step4 /\ Counts(1) /\ UNCHANGED << v, m >>

Undefined ==
  /\ f.opcode \notin {LOAD, OPIMM, AUIPC, STORE, OP, LUI, BRANCH, JALR, JAL, SYSTEM}
  /\ f.opcode = CUSTOM => f.funct3 > 2
  /\ SetsAny
  /\ Step4 /\ Counts(1) /\ UNCHANGED << v, m, brk >>

Init ==
  /\ pc = 0
  /\ x \in [0 .. 31 -> Word] /\ v = [i \in 0 .. 31 |-> << 0, 0 >>]
  /\ m \in [0 .. MemWords - 1 -> Word]
  /\ count = [i \in 1 .. 3 |-> 0]
  /\ brk = FALSE

Next ==
  \/ Computational \/ Branch \/ Jumps \/ Load \/ Store \/ Packed
  \/ VectorArith \/ VectorMem \/ VectorReserved \/ Counter \/ System \/ Undefined

Spec == Init /\ [][Next]_isaVars
=============================================================================
