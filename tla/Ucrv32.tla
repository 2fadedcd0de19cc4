-------------------------------- MODULE Ucrv32 -------------------------------
(***************************************************************************)
(* The core (ucrv32.v): a five-state machine that takes one instruction at *)
(* a time through FETCH, DECODE, EXEC, MEM and WB, with the register files *)
(* and the three multi-cycle units it instantiates.  One action is what    *)
(* the always block does at one clock edge in one state; the units take    *)
(* their own step at the same edge.  The bus and the fetched word are      *)
(* inputs and come in as parameters.                                       *)
(***************************************************************************)
EXTENDS Decoder, Valu, Vmac, Vlsu

CONSTANTS
  Fields(_),   \* the instruction a memory word encodes
  CtrMod       \* modulus of the performance counters (2^32 in ucrv32.v)

ASSUME FieldsAssumption == \A w \in Word : Fields(w) \in Insn
ASSUME CtrModAssumption == CtrMod \in 1 .. WordMod

VARIABLES
  cpu_state,
  pc_reg, pc_saved, insn_reg,
  rdata1_reg, rdata2_reg, alu_out_reg, mem_data_reg,
  csr,                          \* mtvec, mepc, mcause, mstatus
  ctl,                          \* the decoder outputs latched in DECODE
  ctr,                          \* the performance counters, by ctr_id
  vmac_busy, vmac_valid_in_reg,
  vec_busy, vec_valid_in_reg, vlsu_start_reg,
  vs1_data_reg, vs2_data_reg, vec_result_reg,
  dreq,                         \* dmem_req_*_reg, the scalar bus request
  regs, vregs

dataRegs  == << rdata1_reg, rdata2_reg >>
unitCtl   == << vmac_busy, vmac_valid_in_reg, vec_busy, vec_valid_in_reg, vlsu_start_reg >>
vectorOps == << vs1_data_reg, vs2_data_reg >>
files     == << regs, vregs, csr >>

cpuVars == << cpu_state, pc_reg, pc_saved, insn_reg, dataRegs, alu_out_reg, mem_data_reg,
              ctl, ctr, unitCtl, vectorOps, vec_result_reg, dreq, files >>

CpuStates == {"FETCH", "DECODE", "EXEC", "MEM", "WB"}

CYCLE == 0
INSN  == 1
LOADS == 2
STORES == 3

CsrNames == {"mtvec", "mepc", "mcause", "mstatus"}

\* Register x0 and vector register v0 read as zero.
rf_rdata(i)  == IF i = 0 THEN 0 ELSE regs[i]
vrf_rdata(i) == IF i = 0 THEN << 0, 0 >> ELSE vregs[i]

insn_fields == Fields(insn_reg)

\* The program-counter adders are separate instances of the ALU's adder.
pc_plus_4   == ripple_carry_adder(pc_saved, 4, 0).sum
pc_plus_imm == ripple_carry_adder(pc_saved, ctl.imm, 0).sum

\* Every edge out of reset increments the counters in the set ids; first
\* with no end to the count.
Counted_unbounded(ids) == [i \in 0 .. 3 |-> IF i \in ids THEN ctr[i] + 1 ELSE ctr[i]]
Counted(ids) == [i \in 0 .. 3 |-> IF i \in ids THEN (ctr[i] + 1) % CtrMod ELSE ctr[i]]

\* The data bus belongs to the vector unit while it works for the core.
vec_mem_op == ctl.is_vec_load \/ ctl.is_vec_store
vec_mem_active == vec_mem_op /\ vec_busy
dmem_req == IF vec_mem_active THEN vlsu_mem ELSE dreq

-----------------------------------------------------------------------------

CpuFetch(imem_word) ==
  /\ cpu_state = "FETCH"
  /\ insn_reg' = imem_word
  /\ pc_saved' = pc_reg
  /\ cpu_state' = "DECODE"
  /\ ctr' = Counted({CYCLE})
  /\ UNCHANGED << pc_reg, dataRegs, alu_out_reg, mem_data_reg, ctl, unitCtl, vectorOps,
                  vec_result_reg, dreq, files >>

CpuDecode ==
  /\ cpu_state = "DECODE"
  /\ \E v \in vmac_controls(insn_fields) : ctl' = Decode(insn_fields, v)
  /\ rdata1_reg' = rf_rdata(rs1_index(insn_fields))
  /\ rdata2_reg' = rf_rdata(insn_fields.rs2)
  /\ vs1_data_reg' = vrf_rdata(rs1_index(insn_fields))
  /\ vs2_data_reg' = vrf_rdata(insn_fields.rs2)
  /\ cpu_state' = "EXEC"
  /\ ctr' = Counted({CYCLE})
  /\ UNCHANGED << pc_reg, pc_saved, insn_reg, alu_out_reg, mem_data_reg, unitCtl,
                  vec_result_reg, dreq, files >>

\* A counter write replaces the increment of the same edge.
ExecRdwrctr ==
  LET id == ctl.rdwrctr_ctr_id
  IN  /\ cpu_state = "EXEC"
      /\ ctl.is_rdwrctr
      /\ ctr' = IF ctl.rdwrctr_wen
                THEN [Counted({CYCLE}) EXCEPT ![id] = rdata1_reg % CtrMod]
                ELSE Counted({CYCLE})
      /\ alu_out_reg' = IF ctl.rdwrctr_wen THEN alu_out_reg ELSE ctr[id]
      /\ pc_reg' = pc_plus_4
      /\ cpu_state' = "WB"
      /\ UNCHANGED << pc_saved, insn_reg, dataRegs, mem_data_reg, ctl, unitCtl, vectorOps,
                      vec_result_reg, dreq, files >>

\* The unit a vector instruction waits for.
vec_unit_done == IF vec_mem_op THEN vlsu_done ELSE valu_valid_out

\* The first cycle in EXEC raises busy and the unit's start line for one
\* cycle; the core then stays in EXEC until the unit reports.
ExecVectorWait ==
  /\ cpu_state = "EXEC"
  /\ ~ctl.is_rdwrctr /\ ctl.is_vec_op
  /\ ~vec_unit_done
  /\ vec_busy' = TRUE
  /\ vlsu_start_reg' = IF vec_busy THEN FALSE ELSE vec_mem_op \/ vlsu_start_reg
  /\ vec_valid_in_reg' = IF vec_busy THEN FALSE ELSE ~vec_mem_op \/ vec_valid_in_reg
  /\ ctr' = Counted({CYCLE})
  /\ UNCHANGED << cpu_state, pc_reg, pc_saved, insn_reg, dataRegs, alu_out_reg, mem_data_reg,
                  ctl, vmac_busy, vmac_valid_in_reg, vectorOps, vec_result_reg, dreq, files >>

\* Completion is looked at whether or not this is the starting cycle.
ExecVectorDone ==
  /\ cpu_state = "EXEC"
  /\ ~ctl.is_rdwrctr /\ ctl.is_vec_op
  /\ vec_unit_done
  /\ vec_busy' = FALSE
  /\ vlsu_start_reg' = IF vec_busy \/ vec_mem_op THEN FALSE ELSE vlsu_start_reg
  /\ vec_valid_in_reg' = IF vec_busy \/ ~vec_mem_op THEN FALSE ELSE vec_valid_in_reg
  /\ vec_result_reg' = CASE ctl.is_vec_load                    -> vlsu_load_data
                         [] ~vec_mem_op /\ ~ctl.is_vec_vmac    -> valu_result
                         [] OTHER                              -> vec_result_reg
  /\ alu_out_reg' = IF ~vec_mem_op /\ ctl.is_vec_vmac THEN valu_result[1] ELSE alu_out_reg
  /\ pc_reg' = pc_plus_4
  /\ cpu_state' = "WB"
  /\ ctr' = Counted({CYCLE})
  /\ UNCHANGED << pc_saved, insn_reg, dataRegs, mem_data_reg, ctl, vmac_busy,
                  vmac_valid_in_reg, vectorOps, dreq, files >>

ExecVmacWait ==
  /\ cpu_state = "EXEC"
  /\ ~ctl.is_rdwrctr /\ ~ctl.is_vec_op /\ ctl.is_vmac
  /\ ~vmac_valid_out
  /\ vmac_busy' = TRUE
  /\ vmac_valid_in_reg' = ~vmac_busy
  /\ ctr' = Counted({CYCLE})
  /\ UNCHANGED << cpu_state, pc_reg, pc_saved, insn_reg, dataRegs, alu_out_reg, mem_data_reg,
                  ctl, vec_busy, vec_valid_in_reg, vlsu_start_reg, vectorOps, vec_result_reg,
                  dreq, files >>

ExecVmacDone ==
  /\ cpu_state = "EXEC"
  /\ ~ctl.is_rdwrctr /\ ~ctl.is_vec_op /\ ctl.is_vmac
  /\ vmac_valid_out
  /\ vmac_busy' = FALSE
  /\ vmac_valid_in_reg' = FALSE
  /\ alu_out_reg' = vmac_result
  /\ pc_reg' = pc_plus_4
  /\ cpu_state' = "WB"
  /\ ctr' = Counted({CYCLE})
  /\ UNCHANGED << pc_saved, insn_reg, dataRegs, mem_data_reg, ctl, vec_busy,
                  vec_valid_in_reg, vlsu_start_reg, vectorOps, vec_result_reg, dreq, files >>

-----------------------------------------------------------------------------

\* The operands are read from the register file again, not from the
\* operand registers of DECODE.
alu_op1 == IF ctl.is_auipc THEN pc_saved ELSE rf_rdata(rs1_index(insn_fields))
alu_op2 == IF ctl.alu_src2_sel THEN ctl.imm ELSE rf_rdata(insn_fields.rs2)

alu_controls == IF ctl.alu_ctrl = ALU_X THEN 0 .. 15 ELSE {ctl.alu_ctrl}

take_branch(out) ==
  /\ ctl.is_branch
  /\ (IF ctl.is_branch_compare THEN out % 2 = 1 ELSE out = 0) # ctl.branch_if_set

\* A memory access leaves the counter to the end of MEM.
scalar_target(out) ==
  IF ctl.is_jal \/ take_branch(out) THEN pc_plus_imm
  ELSE IF ctl.is_jalr THEN out - (out % 2)
  ELSE IF ctl.mem_read \/ ctl.mem_write THEN pc_reg
  ELSE pc_plus_4

\* The lanes a store of this width writes at this address, and its data
\* repeated on every lane it may land on (first: on the low lane only).
store_lanes(addr) == CASE ctl.mem_mask = "byte" -> {addr % 4}
                       [] ctl.mem_mask = "half" -> IF (addr \div 2) % 2 = 1 THEN {2, 3} ELSE {0, 1}
                       [] OTHER                 -> 0 .. 3
store_data_low_lane == rdata2_reg
store_data == CASE ctl.mem_mask = "byte" -> OfBytes([i \in 0 .. 3 |-> ByteOf(rdata2_reg, 0)])
                [] ctl.mem_mask = "half" -> HalfOf(rdata2_reg, 0) * (1 + HalfMod)
                [] OTHER                 -> rdata2_reg

scalar_request(addr) ==
  IF ctl.mem_write
  THEN [addr |-> addr, wdata |-> store_data, wmask |-> store_lanes(addr),
        write |-> TRUE, valid |-> TRUE]
  ELSE [dreq EXCEPT !.addr = addr, !.write = FALSE, !.valid = TRUE]

ExecScalar ==
  LET is_mem == ctl.mem_read \/ ctl.mem_write
  IN  /\ cpu_state = "EXEC"
      /\ ~ctl.is_rdwrctr /\ ~ctl.is_vec_op /\ ~ctl.is_vmac
      /\ \E c \in alu_controls :
           LET out == alu_out(alu_op1, alu_op2, c)
           IN  /\ alu_out_reg' = out
               /\ pc_reg' = scalar_target(out)
               /\ dreq' = IF is_mem THEN scalar_request(out) ELSE dreq
      /\ cpu_state' = IF is_mem THEN "MEM" ELSE "WB"
      /\ ctr' = Counted({CYCLE})
      /\ UNCHANGED << pc_saved, insn_reg, dataRegs, mem_data_reg, ctl, unitCtl, vectorOps,
                      vec_result_reg, files >>

\* An accepted store is finished, an accepted load waits for its data;
\* first with a store that skips WB.
after_accept_refetch == IF ctl.mem_read THEN "MEM" ELSE "FETCH"
after_accept == IF ctl.mem_read THEN "MEM" ELSE "WB"

MemAccept(ready) ==
  /\ cpu_state = "MEM"
  /\ dreq.valid /\ ready
  /\ dreq' = Withdrawn(dreq)
  /\ pc_reg' = IF ctl.mem_read THEN pc_reg ELSE pc_plus_4
  /\ cpu_state' = after_accept
  /\ ctr' = Counted(IF ctl.mem_read THEN {CYCLE} ELSE {CYCLE, STORES})
  /\ UNCHANGED << pc_saved, insn_reg, dataRegs, alu_out_reg, mem_data_reg, ctl, unitCtl,
                  vectorOps, vec_result_reg, files >>

MemAwait(ready, resp_valid, resp_rdata) ==
  LET answered == ~dreq.valid /\ ctl.mem_read /\ resp_valid
  IN  /\ cpu_state = "MEM"
      /\ ~(dreq.valid /\ ready)
      /\ mem_data_reg' = IF answered THEN resp_rdata ELSE mem_data_reg
      /\ pc_reg' = IF answered THEN pc_plus_4 ELSE pc_reg
      /\ cpu_state' = IF answered THEN "WB" ELSE "MEM"
      /\ ctr' = Counted(IF answered THEN {CYCLE, LOADS} ELSE {CYCLE})
      /\ UNCHANGED << pc_saved, insn_reg, dataRegs, alu_out_reg, ctl, unitCtl, vectorOps,
                      vec_result_reg, dreq, files >>

-----------------------------------------------------------------------------

mem_data_extended ==
  LET byte == ByteOf(mem_data_reg, alu_out_reg % 4)
      half == HalfOf(mem_data_reg, (alu_out_reg \div 2) % 2)
  IN  CASE ctl.mem_mask = "byte" -> IF ctl.mem_sign_extend THEN SignExtend(byte, ByteMod) ELSE byte
        [] ctl.mem_mask = "half" -> IF ctl.mem_sign_extend THEN SignExtend(half, HalfMod) ELSE half
        [] OTHER                 -> mem_data_reg

wb_data == CASE ctl.is_jal \/ ctl.is_jalr -> pc_plus_4
             [] ctl.mem_read              -> mem_data_extended
             [] OTHER                     -> alu_out_reg

RegsWritten  == IF ctl.reg_write /\ ctl.rd # 0
                THEN [regs EXCEPT ![ctl.rd] = wb_data] ELSE regs
VregsWritten == IF ctl.vec_reg_write /\ ctl.rd # 0
                THEN [vregs EXCEPT ![ctl.rd] = vec_result_reg] ELSE vregs

\* 12'h035, 12'h341, 12'h342 and 12'h300.  Only the immediate selects the
\* register: the opcode is not looked at.
csr_at == [a \in {53, 833, 834, 768} |->
             CASE a = 53 -> "mtvec" [] a = 833 -> "mepc" [] a = 834 -> "mcause"
               [] a = 768 -> "mstatus"]
csr_addr == ctl.imm % 4096

CpuWriteback ==
  /\ cpu_state = "WB"
  /\ regs' = RegsWritten
  /\ vregs' = VregsWritten
  /\ csr' = IF csr_addr \in DOMAIN csr_at
            THEN [csr EXCEPT ![csr_at[csr_addr]] = rdata1_reg] ELSE csr
  /\ ctl' = [ctl EXCEPT !.reg_write = FALSE, !.vec_reg_write = FALSE]
  /\ cpu_state' = "FETCH"
  /\ ctr' = Counted({CYCLE, INSN})
  /\ UNCHANGED << pc_reg, pc_saved, insn_reg, dataRegs, alu_out_reg, mem_data_reg, unitCtl,
                  vectorOps, vec_result_reg, dreq >>

ebreak_hit == ctl.ebreak_hit /\ cpu_state = "WB"

CpuStep(imem_word, ready, resp_valid, resp_rdata) ==
  \/ CpuFetch(imem_word)
  \/ CpuDecode
  \/ ExecRdwrctr
  \/ ExecVectorWait
  \/ ExecVectorDone
  \/ ExecVmacWait
  \/ ExecVmacDone
  \/ ExecScalar
  \/ MemAccept(ready)
  \/ MemAwait(ready, resp_valid, resp_rdata)
  \/ CpuWriteback

\* The units' steps at the same edge, fed from the core's registers.
UnitSteps(ready, resp_valid, resp_rdata) ==
  /\ ValuStep(vec_valid_in_reg /\ ~vec_mem_op, ctl.vec_op % 4, ctl.vec_sew,
              vs1_data_reg, vs2_data_reg)
  /\ VmacStep(vmac_valid_in_reg, ctl.vmac_ctrl, rdata1_reg, rdata2_reg)
  /\ VlsuStep(vlsu_start_reg, ctl.is_vec_store, rdata1_reg, vs2_data_reg,
              ready, resp_valid, resp_rdata)

-----------------------------------------------------------------------------

\* The latched decoder outputs that reset clears; the others keep whatever
\* the last instruction left in them.  (vd_reg is cleared as well; it is
\* only read in WB, where it equals rd_reg, and ctl.rd stands for both.)
CtlReset(c) ==
  [c EXCEPT !.reg_write = FALSE, !.ebreak_hit = FALSE, !.is_vmac = FALSE, !.vmac_ctrl = 0,
            !.is_rdwrctr = FALSE, !.rdwrctr_wen = FALSE, !.rdwrctr_ctr_id = 0,
            !.is_vec_op = FALSE, !.vec_op = 0, !.vec_sew = 0, !.is_vec_load = FALSE,
            !.is_vec_store = FALSE, !.is_vec_vmac = FALSE, !.vec_reg_write = FALSE]

CpuReset ==
  /\ cpu_state' = "FETCH"
  /\ pc_reg' = 0
  /\ dreq' = Withdrawn(dreq)
  /\ ctl' = CtlReset(ctl)
  /\ ctr' = [i \in 0 .. 3 |-> 0]
  /\ csr' = [n \in CsrNames |-> 0]
  /\ vmac_busy' = FALSE /\ vmac_valid_in_reg' = FALSE
  /\ vec_busy' = FALSE /\ vec_valid_in_reg' = FALSE /\ vlsu_start_reg' = FALSE
  /\ vs1_data_reg' = << 0, 0 >> /\ vs2_data_reg' = << 0, 0 >> /\ vec_result_reg' = << 0, 0 >>
  \* The register files have no reset of their own; a reset in WB still
  \* lets that instruction's results in.
  /\ regs' = IF cpu_state = "WB" THEN RegsWritten ELSE regs
  /\ vregs' = IF cpu_state = "WB" THEN VregsWritten ELSE vregs
  /\ UNCHANGED << pc_saved, insn_reg, dataRegs, alu_out_reg, mem_data_reg >>

UnitResets == ValuReset /\ VmacReset /\ VlsuReset
=============================================================================
