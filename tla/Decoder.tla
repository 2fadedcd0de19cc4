------------------------------- MODULE Decoder -------------------------------
(***************************************************************************)
(* The decoder (decoder_control.v).  An instruction is the record of its   *)
(* six R-type fields; every immediate is assembled from those fields, as   *)
(* the wires of the decoder do from the bits they name.                    *)
(***************************************************************************)
EXTENDS Alu

Insn == [opcode : 0 .. 127, rd : 0 .. 31, funct3 : 0 .. 7,
         rs1 : 0 .. 31, rs2 : 0 .. 31, funct7 : 0 .. 127]

LOAD   == 3
OPIMM  == 19
AUIPC  == 23
STORE  == 35
OP     == 51
LUI    == 55
CUSTOM == 91
BRANCH == 99
JALR   == 103
JAL    == 111
SYSTEM == 115

is_i_type(f) == f.opcode \in {OPIMM, LOAD, JALR, SYSTEM}
is_u_type(f) == f.opcode \in {LUI, AUIPC}
is_rdwrctr_type(f) == f.opcode = CUSTOM /\ f.funct3 = 0
is_vmac_type(f)    == f.opcode = CUSTOM /\ f.funct3 = 1
is_vec_type(f)     == f.opcode = CUSTOM /\ f.funct3 = 2

rs1_index(f) == IF is_u_type(f) THEN 0 ELSE f.rs1

imm_i(f) == SignExtend(f.funct7 * 32 + f.rs2, 4096)
imm_s(f) == SignExtend(f.funct7 * 32 + f.rd, 4096)
\* The branch offset with bit 11 left in the place it has in the S format:
imm_b_no_bit_11(f) == SignExtend((f.funct7 \div 64) * 4096 + (f.funct7 % 64) * 32 + f.rd, 8192)
imm_b(f) == SignExtend((f.funct7 \div 64) * 4096 + (f.rd % 2) * 2048
                         + (f.funct7 % 64) * 32 + (f.rd \div 2) * 2, 8192)
imm_u(f) == LET insn_31_12 == ((f.funct7 * 32 + f.rs2) * 32 + f.rs1) * 8 + f.funct3
            IN  (insn_31_12 % (WordMod \div 4096)) * 4096
imm_j(f) == SignExtend((f.funct7 \div 64) * 1048576 + (f.rs1 * 8 + f.funct3) * 4096
                         + (f.rs2 % 2) * 2048 + (f.funct7 % 64) * 32
                         + (f.rs2 \div 2) * 2, 2097152)

immediate(f) == CASE is_i_type(f)       -> imm_i(f)
                  [] f.opcode = STORE   -> imm_s(f)
                  [] f.opcode = BRANCH  -> imm_b(f)
                  [] is_u_type(f)       -> imm_u(f)
                  [] f.opcode = JAL     -> imm_j(f)
                  [] OTHER              -> 0

\* 4'bxxxx: the decoder leaves the operation open, and the ALU may be
\* given any.
ALU_X == 16

\* Row funct3 + 1 of the two tables the decoder reads for OP and OP-IMM.
base_alu_ctrl == << ADD, SLL, SLT, SLTU, XOR, SRL, OR, AND >>
alt_alu_ctrl  == << SUB, ALU_X, ALU_X, ALU_X, ALU_X, SRA, ALU_X, ALU_X >>

alu_control(f) ==
  CASE f.opcode = OP ->
         (CASE f.funct7 = 0  -> base_alu_ctrl[f.funct3 + 1]
            [] f.funct7 = 32 -> alt_alu_ctrl[f.funct3 + 1]
            [] OTHER         -> ALU_X)
    [] f.opcode = OPIMM ->
         (CASE f.funct3 # 5 \/ f.funct7 = 0 -> base_alu_ctrl[f.funct3 + 1]
            [] f.funct3 = 5 /\ f.funct7 = 32 -> SRA
            [] OTHER -> ALU_X)
    [] f.opcode = BRANCH ->
         << SUB, SUB, ALU_X, ALU_X, SLT, SLT, SLTU, SLTU >>[f.funct3 + 1]
    [] is_vmac_type(f) \/ is_vec_type(f) -> ALU_X
    [] OTHER -> ADD

VOP_VADD == 0
VOP_VSUB == 1
VOP_VMUL == 2
VOP_VMAC == 3
VOP_VLD  == 4
VOP_VST  == 5
VOP_VMOV_S2V == 8
VOP_VMOV_V2S == 9

\* funct7[4:0] selects the vector operation, funct7[6:5] the element width.
vop(f) == f.funct7 % 32
vec_operation(f) == CASE ~is_vec_type(f)         -> 0
                      [] vop(f) <= VOP_VST       -> vop(f)
                      [] vop(f) = VOP_VMOV_S2V   -> 6
                      [] vop(f) = VOP_VMOV_V2S   -> 7
                      [] OTHER                   -> 0
is_vec_load_type(f)  == is_vec_type(f) /\ vop(f) = VOP_VLD
is_vec_store_type(f) == is_vec_type(f) /\ vop(f) = VOP_VST
is_vec_vmac_type(f)  == is_vec_type(f) /\ vop(f) = VOP_VMAC
writes_vector(f) ==
  /\ is_vec_type(f)
  /\ vop(f) \in {VOP_VADD, VOP_VSUB, VOP_VMUL, VOP_VLD, VOP_VMOV_S2V}

\* The byte-lane mask, by its width; "none" is the all-zero mask of the
\* reserved encodings, which the load and store paths treat as a word.
access_width(f) == CASE f.funct3 \in {0, 4} -> "byte"
                     [] f.funct3 \in {1, 5} -> "half"
                     [] f.funct3 = 2        -> "word"
                     [] OTHER               -> "none"

writes_scalar(f) ==
  \/ f.opcode \notin {BRANCH, STORE} /\ ~is_vec_type(f)
  \/ is_vmac_type(f)
  \/ is_rdwrctr_type(f) /\ f.funct7 < 64
  \/ is_vec_vmac_type(f)

\* The vector/packed control of a reserved funct7 is 2'bxx.
vmac_controls(f) == CASE ~is_vmac_type(f) -> {0}
                      [] f.funct7 <= 3    -> {f.funct7}
                      [] OTHER            -> 0 .. 3

\* Everything the decoder tells the core about instruction f, with the
\* packed-MAC control already chosen.
Decode(f, vmac_ctrl) ==
  [rd                |-> f.rd,
   imm               |-> immediate(f),
   alu_ctrl          |-> alu_control(f),
   alu_src2_sel      |-> is_i_type(f) \/ f.opcode = STORE \/ is_u_type(f),
   mem_write         |-> f.opcode = STORE,
   mem_read          |-> f.opcode = LOAD,
   mem_mask          |-> access_width(f),
   mem_sign_extend   |-> f.opcode = LOAD /\ f.funct3 < 4,
   is_branch         |-> f.opcode = BRANCH,
   branch_if_set     |-> f.funct3 % 2 = 1,
   is_branch_compare |-> f.opcode = BRANCH /\ f.funct3 >= 4,
   is_jal            |-> f.opcode = JAL,
   is_jalr           |-> f.opcode = JALR,
   is_auipc          |-> f.opcode = AUIPC,
   reg_write         |-> writes_scalar(f),
   ebreak_hit        |-> f.opcode = SYSTEM /\ f.funct3 = 0,
   is_vmac           |-> is_vmac_type(f),
   vmac_ctrl         |-> vmac_ctrl,
   is_rdwrctr        |-> is_rdwrctr_type(f),
   rdwrctr_wen       |-> is_rdwrctr_type(f) /\ f.funct7 >= 64,
   rdwrctr_ctr_id    |-> f.rs2 % 4,
   is_vec_op         |-> is_vec_type(f),
   vec_op            |-> vec_operation(f),
   vec_sew           |-> IF is_vec_type(f) THEN f.funct7 \div 32 ELSE 0,
   is_vec_load       |-> is_vec_load_type(f),
   is_vec_store      |-> is_vec_store_type(f),
   is_vec_vmac       |-> is_vec_vmac_type(f),
   vec_reg_write     |-> writes_vector(f)]
=============================================================================
