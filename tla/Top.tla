--------------------------------- MODULE Top ---------------------------------
(***************************************************************************)
(* The system on chip (top.v): the core, the SRAM behind both of its       *)
(* ports, the devices on one page of addresses and the sticky break flag.  *)
(* One step is one rising edge of clk with resetn high (ClockEdge) or low  *)
(* (ResetEdge); every register of the design moves at that edge.           *)
(***************************************************************************)
EXTENDS Ucrv32, Sram, Devices

CONSTANTS
  ParModes,    \* sim_use_par_txrx as the simulator may leave it: {TRUE} in top.cc
  RxBytes,     \* bytes the host may present on par_rx
  RxLevels,    \* levels the host may drive on rx
  Programs,    \* the memory images the loader may have written
  RegInits,    \* the contents the uninitialised register file may have
  MinReset,    \* the least number of edges resetn is held low for
  MaxResets    \* bound: how often a behaviour is reset

ASSUME ModesAssumption == ParModes \subseteq BOOLEAN
ASSUME RxBytesAssumption == RxBytes \subseteq Byte /\ RxLevels \subseteq {0, 1}
ASSUME ProgramsAssumption == Programs \subseteq [0 .. MemWords - 1 -> Word]
ASSUME RegInitsAssumption == RegInits \subseteq [0 .. 31 -> Word]
\* After one edge the instruction port still shows the word at the old
\* program counter; the second edge makes it show word 0.
ASSUME ResetAssumption == MinReset \in Nat /\ MinReset >= 2 /\ MaxResets \in Nat

VARIABLES
  break_hit,
  dmem_raddr_reg,
  rst_edges,   \* edges of the current reset pulse (up to MinReset), 0 when running
  resets       \* reset pulses so far

vars == << cpuVars, valuVars, vmacVars, vlsuVars, sramVars, deviceVars,
           break_hit, dmem_raddr_reg, rst_edges, resets >>

\* The serial port alone makes the core wait, while it sends.
dmem_req_ready == serial(dmem_req.addr) => uart_req_ready
dmem_resp_valid == IF serial(dmem_raddr_reg) THEN uart_resp_valid ELSE dmem_resp_valid_reg
dmem_resp_rdata == IF is_uart(dmem_raddr_reg) THEN device_rdata(dmem_raddr_reg)
                                              ELSE sram_dmem_rdata

-----------------------------------------------------------------------------

\* dmem_raddr_reg is not reset: it follows the bus at every edge.
RaddrStep(req) ==
  dmem_raddr_reg' = IF req.valid /\ ~req.write THEN req.addr ELSE dmem_raddr_reg

ClockEdge ==
  /\ rst_edges = 0 \/ rst_edges >= MinReset
  /\ rst_edges' = 0
  /\ CpuStep(imem_rdata, dmem_req_ready, dmem_resp_valid, dmem_resp_rdata)
  /\ UnitSteps(dmem_req_ready, dmem_resp_valid, dmem_resp_rdata)
  /\ SramStep(pc_reg, dmem_req)
  /\ RaddrStep(dmem_req)
  /\ \E par_rx_valid \in BOOLEAN, par_rx \in RxBytes, rx \in RxLevels :
       DeviceStep(dmem_req, par_rx_valid, par_rx, rx)
  /\ break_hit' = (break_hit \/ ebreak_hit)
  /\ UNCHANGED resets

\* The SRAM has no reset: it still serves what was on the bus.
ResetEdge ==
  /\ \/ rst_edges = 0 /\ resets < MaxResets /\ resets' = resets + 1
     \/ rst_edges > 0 /\ UNCHANGED resets
  /\ rst_edges' = IF rst_edges < MinReset THEN rst_edges + 1 ELSE rst_edges
  /\ CpuReset
  /\ UnitResets
  /\ SramStep(pc_reg, dmem_req)
  /\ RaddrStep(dmem_req)
  /\ DeviceReset
  /\ break_hit' = FALSE

-----------------------------------------------------------------------------

\* The state the power-on reset leaves: an image in memory, zero in every
\* register that has a reset or an initial value and, as the simulator
\* starts it, in the others; the register file may hold anything.
NopCtl == CtlReset(Decode([opcode |-> OP, rd |-> 0, funct3 |-> 0, rs1 |-> 0, rs2 |-> 0,
                           funct7 |-> 0], 0))

CpuInit ==
  /\ cpu_state = "FETCH"
  /\ pc_reg = 0 /\ pc_saved = 0 /\ insn_reg = 0
  /\ rdata1_reg = 0 /\ rdata2_reg = 0 /\ alu_out_reg = 0 /\ mem_data_reg = 0
  /\ csr = [n \in CsrNames |-> 0]
  /\ ctl = NopCtl
  /\ ctr = [i \in 0 .. 3 |-> 0]
  /\ vmac_busy = FALSE /\ vmac_valid_in_reg = FALSE
  /\ vec_busy = FALSE /\ vec_valid_in_reg = FALSE /\ vlsu_start_reg = FALSE
  /\ vs1_data_reg = << 0, 0 >> /\ vs2_data_reg = << 0, 0 >> /\ vec_result_reg = << 0, 0 >>
  /\ dreq = NoRequest
  /\ regs \in RegInits
  /\ vregs = [i \in 0 .. 31 |-> << 0, 0 >>]

Init ==
  /\ CpuInit /\ ValuInit /\ VmacInit /\ VlsuInit
  /\ mem \in Programs
  /\ imem_addr_reg = 0 /\ dmem_addr_reg = 0 /\ dmem_resp_valid_reg = FALSE
  /\ DeviceInit(ParModes)
  /\ break_hit = FALSE /\ dmem_raddr_reg = 0
  /\ rst_edges = 0 /\ resets = 0

Next == ClockEdge \/ ResetEdge

Spec == Init /\ [][Next]_vars
FairSpec == Spec /\ WF_vars(ClockEdge)

-----------------------------------------------------------------------------
(* Properties *)

ControlFlags == {"alu_src2_sel", "mem_write", "mem_read", "mem_sign_extend", "is_branch",
                 "branch_if_set", "is_branch_compare", "is_jal", "is_jalr", "is_auipc",
                 "reg_write", "ebreak_hit", "is_vmac", "is_rdwrctr", "rdwrctr_wen",
                 "is_vec_op", "is_vec_load", "is_vec_store", "is_vec_vmac", "vec_reg_write"}

\* The control registers.
ControlTypeOK ==
  /\ cpu_state \in CpuStates
  /\ \A n \in ControlFlags : ctl[n] \in BOOLEAN
  /\ vmac_busy \in BOOLEAN /\ vmac_valid_in_reg \in BOOLEAN
  /\ vec_busy \in BOOLEAN /\ vec_valid_in_reg \in BOOLEAN /\ vlsu_start_reg \in BOOLEAN
  /\ valu_computing \in BOOLEAN /\ valu_valid_out \in BOOLEAN
  /\ vmac_computing \in BOOLEAN /\ vmac_valid_out \in BOOLEAN
  /\ vlsu_state \in VlsuStates /\ vlsu_done \in BOOLEAN /\ vlsu_is_store_reg \in BOOLEAN
  /\ vlsu_mem.valid \in BOOLEAN /\ vlsu_mem.write \in BOOLEAN
  /\ dreq.valid \in BOOLEAN /\ dreq.write \in BOOLEAN
  /\ dmem_resp_valid_reg \in BOOLEAN /\ break_hit \in BOOLEAN
  /\ sim_use_par_txrx \in BOOLEAN /\ UartTypeOK
  /\ par_rx_ack \in BOOLEAN /\ par_rx_valid_latch \in BOOLEAN /\ par_tx_valid \in BOOLEAN
  /\ rst_edges \in 0 .. MinReset /\ resets \in 0 .. MaxResets

\* The data registers: every result fits the width of its register.
DataTypeOK ==
  /\ {pc_reg, pc_saved, insn_reg, rdata1_reg, rdata2_reg, alu_out_reg, mem_data_reg} \subseteq Word
  /\ csr \in [CsrNames -> Word] /\ ctr \in [0 .. 3 -> 0 .. CtrMod - 1]
  /\ {vs1_data_reg, vs2_data_reg, vec_result_reg, valu_result, vlsu_load_data, vlsu_data_reg}
       \subseteq VWord
  /\ regs \in [0 .. 31 -> Word] /\ vregs \in [0 .. 31 -> VWord]
  /\ mem \in [0 .. MemWords - 1 -> Word]
  /\ dreq \in BusRequest /\ vlsu_mem \in BusRequest
  /\ valu_mul_counter \in 0 .. 2 /\ valu_prod \in [0 .. 7 -> Int]
  /\ vmac_cycle_counter \in 0 .. 1 /\ vmac_mult_results \in [0 .. 3 -> 0 .. HalfMod - 1]
  /\ {vmac_result, vlsu_addr_reg, imem_addr_reg, dmem_addr_reg, dmem_raddr_reg} \subseteq Word
  /\ {par_rx_latch, par_tx, data_to_send, rx_byte} \subseteq Byte /\ uart_resp_data \in Word
  /\ ctl.imm \in Word /\ ctl.rd \in 0 .. 31 /\ ctl.alu_ctrl \in 0 .. ALU_X
  /\ ctl.vec_op \in 0 .. 7 /\ ctl.vec_sew \in 0 .. 3 /\ ctl.vmac_ctrl \in 0 .. 3
  /\ ctl.rdwrctr_ctr_id \in 0 .. 3 /\ ctl.mem_mask \in {"byte", "half", "word", "none"}

\* Every register holds a value of its width: no sum, product, shift or
\* immediate of the datapath (alu.v, valu.v, vmac.v, decoder_control.v)
\* leaves its register's range.
TypeOK == ControlTypeOK /\ DataTypeOK

\* The instruction FETCH latches (ucrv32.v:480) is the one at pc_reg: the
\* SRAM registers the address, so pc_reg must have settled an edge earlier,
\* on every way back to FETCH and out of a reset.
FetchCoherent ==
  cpu_state = "FETCH" /\ rst_edges # 1 => imem_addr_reg = pc_reg

\* Which unit the core is waiting for in EXEC.
OnVector == cpu_state = "EXEC" /\ ~ctl.is_rdwrctr /\ ctl.is_vec_op /\ vec_busy
OnPacked == cpu_state = "EXEC" /\ ~ctl.is_rdwrctr /\ ~ctl.is_vec_op /\ ctl.is_vmac /\ vmac_busy

OneOf(p, q, r) == (p /\ ~q /\ ~r) \/ (~p /\ q /\ ~r) \/ (~p /\ ~q /\ r)
NoneOf(p, q, r) == ~p /\ ~q /\ ~r

\* The handshake with the three multi-cycle units (ucrv32.v:560-623): a unit
\* the core waits for is in exactly one of starting, working and reporting,
\* and any other unit in none of them.  So no completion pulse is ever lost
\* or left over for the next instruction, which looks at the pulse in the
\* very cycle it raises the start line.
UnitHandshake ==
  /\ IF OnVector /\ ~vec_mem_op THEN OneOf(vec_valid_in_reg, valu_computing, valu_valid_out)
                                 ELSE NoneOf(vec_valid_in_reg, valu_computing, valu_valid_out)
  /\ IF OnVector /\ vec_mem_op THEN OneOf(vlsu_start_reg, vlsu_state # "IDLE", vlsu_done)
                                ELSE NoneOf(vlsu_start_reg, vlsu_state # "IDLE", vlsu_done)
  /\ IF OnPacked THEN OneOf(vmac_valid_in_reg, vmac_computing, vmac_valid_out)
                 ELSE NoneOf(vmac_valid_in_reg, vmac_computing, vmac_valid_out)
  /\ vec_busy => OnVector
  /\ vmac_busy => OnPacked

\* The bus mux (ucrv32.v:349-355) never hides a request: the scalar path
\* drives one only in MEM, when the vector unit does not own the bus, and
\* the vector unit only when it does.
BusOwned ==
  /\ dreq.valid => cpu_state = "MEM" /\ ~vec_mem_active
  /\ vlsu_mem.valid => vec_mem_active /\ vlsu_state \in {"WAIT_WORD0", "WAIT_WORD1"}

ScalarAwaits == cpu_state = "MEM" /\ ~dreq.valid
VectorAwaits == /\ vlsu_state \in {"WAIT_WORD0", "WAIT_WORD1"}
                /\ ~vlsu_mem.valid

\* Looking: a response now would be taken.
VectorLooks == vlsu_state \in {"WAIT_WORD0", "WAIT_WORD1"} /\ ~vlsu_is_store_reg

\* The serial port has no answer for its other registers.
Answered(addr) == serial(addr) => req_addr(addr) \in {RX, STATUS}

\* An answer of the SRAM (sram.v:37) or of the serial port (uart.v:70-92)
\* lasts one cycle and is not held.
\* Away from the serial port it is on the bus exactly while someone waits
\* for it; the serial port also answers requests it makes wait, and writes.
\* Whoever waits has the answer at once, if there is one at all, and finds
\* ready high (vlsu.v:101 looks at both); and an answer anyone can take is
\* for the address that one asked for.
ResponseOwned ==
  rst_edges # 1 =>
    /\ ~serial(dmem_raddr_reg) => (dmem_resp_valid <=> (ScalarAwaits \/ VectorAwaits))
    /\ ScalarAwaits => /\ ctl.mem_read
                       /\ dmem_raddr_reg = dreq.addr /\ dmem_addr_reg = dreq.addr
                       /\ dmem_resp_valid <=> Answered(dreq.addr)
    /\ VectorAwaits => /\ VectorLooks
                       /\ dmem_raddr_reg = vlsu_mem.addr /\ dmem_addr_reg = vlsu_mem.addr
                       /\ dmem_resp_valid <=> Answered(vlsu_mem.addr)
                       /\ dmem_req_ready
    /\ VectorLooks /\ dmem_resp_valid => dmem_raddr_reg = vlsu_mem.addr

\* A load of a register of the serial port that never answers.
Unanswered == \/ ScalarAwaits /\ ~Answered(dreq.addr)
              \/ VectorAwaits /\ ~Answered(vlsu_mem.addr)

\* Every fetched instruction reaches WB, through any mix of units, bus and
\* memory waits and of waits for the transmitter, unless a reset comes
\* first or it loads what never answers (uart.v:75, 85).
EveryInsnRetires ==
  (cpu_state = "DECODE") ~> (cpu_state = "WB" \/ rst_edges > 0 \/ Unanswered)
=============================================================================
