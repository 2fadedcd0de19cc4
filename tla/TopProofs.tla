------------------------------- MODULE TopProofs -----------------------------
(***************************************************************************)
(* Machine-checked proofs about the system: the handshakes, the bus and    *)
(* the instruction port are right for every program, every register        *)
(* content, every word and memory size and every placing of resets.  The   *)
(* data the steps compute is left abstract in that part; the second part   *)
(* shows that every datum keeps the width of its register.                 *)
(***************************************************************************)
EXTENDS Top, UartProofs, TLAPS

RequestFields == {"addr", "wdata", "wmask", "write", "valid"}

\* The record registers have the fields the steps update.
Shapes ==
  /\ ControlFlags \subseteq DOMAIN ctl
  /\ RequestFields \subseteq DOMAIN dreq
  /\ RequestFields \subseteq DOMAIN vlsu_mem

\* Only a vector instruction is a vector memory access, and no instruction
\* both loads and stores.
CtlConsistent ==
  /\ vec_mem_op => ctl.is_vec_op
  /\ ~(ctl.mem_read /\ ctl.mem_write)

\* In MEM the core is on a scalar load or store.
MemConsistent ==
  cpu_state = "MEM" =>
    /\ ~dreq.valid => ctl.mem_read
    /\ dreq.valid => dreq.write = ~ctl.mem_read

\* While reset is held the core stands at the start.
ResetHeld == rst_edges > 0 => cpu_state = "FETCH" /\ pc_reg = 0

\* The vector unit's request says what the unit is doing.
VlsuRequestRight == vlsu_mem.valid => vlsu_mem.write = vlsu_is_store_reg

\* The inductive invariant.
Inv == /\ ControlTypeOK /\ Shapes /\ CtlConsistent /\ MemConsistent /\ ResetHeld
       /\ VlsuRequestRight /\ FetchCoherent /\ UnitHandshake /\ BusOwned /\ ResponseOwned

-----------------------------------------------------------------------------
(* The decoder and the units *)

\* The decoder's flags are Boolean, only a vector instruction is a vector
\* memory access (decoder_control.v:175-189), and no instruction is a load
\* and a store (decoder_control.v:218-229).
LEMMA DecodeFacts ==
  ASSUME NEW f, NEW v
  PROVE  /\ ControlFlags \subseteq DOMAIN Decode(f, v)
         /\ \A n \in ControlFlags : Decode(f, v)[n] \in BOOLEAN
         /\ Decode(f, v).is_vec_load \/ Decode(f, v).is_vec_store => Decode(f, v).is_vec_op
         /\ ~(Decode(f, v).mem_read /\ Decode(f, v).mem_write)
  <1> DEFINE d == Decode(f, v)
  <1>1. ControlFlags \subseteq DOMAIN d
    BY DEF Decode, ControlFlags
  <1>2. d.is_vec_load \/ d.is_vec_store => d.is_vec_op
    BY DEF Decode, is_vec_load_type, is_vec_store_type
  <1>3. ~(d.mem_read /\ d.mem_write)
    <2>1. d.mem_read = (f.opcode = LOAD) /\ d.mem_write = (f.opcode = STORE)
      BY DEF Decode
    <2>2. LOAD # STORE
      BY DEF LOAD, STORE
    <2> QED
      BY <2>1, <2>2
  <1>4. /\ d.alu_src2_sel \in BOOLEAN /\ d.mem_write \in BOOLEAN /\ d.mem_read \in BOOLEAN
        /\ d.mem_sign_extend \in BOOLEAN /\ d.is_branch \in BOOLEAN
        /\ d.branch_if_set \in BOOLEAN /\ d.is_branch_compare \in BOOLEAN
        /\ d.is_jal \in BOOLEAN /\ d.is_jalr \in BOOLEAN /\ d.is_auipc \in BOOLEAN
    BY DEF Decode
  <1>5. /\ d.reg_write \in BOOLEAN /\ d.ebreak_hit \in BOOLEAN /\ d.is_vmac \in BOOLEAN
        /\ d.is_rdwrctr \in BOOLEAN /\ d.rdwrctr_wen \in BOOLEAN
        /\ d.is_vec_op \in BOOLEAN /\ d.is_vec_load \in BOOLEAN
        /\ d.is_vec_store \in BOOLEAN /\ d.is_vec_vmac \in BOOLEAN
        /\ d.vec_reg_write \in BOOLEAN
    BY DEF Decode, writes_scalar, is_vmac_type, is_rdwrctr_type, is_vec_type, is_vec_load_type,
           is_vec_store_type, is_vec_vmac_type, writes_vector
  <1>6. \A n \in ControlFlags : d[n] \in BOOLEAN
    BY <1>4, <1>5 DEF ControlFlags
  <1> QED
    BY <1>1, <1>2, <1>3, <1>6

\* The vector ALU moves a start pulse to computing and computing, sooner or
\* later, to one completion pulse (valu.v:175-179, 182-361).
LEMMA ValuMoves ==
  ASSUME NEW start \in BOOLEAN, NEW op, NEW sew, NEW a, NEW b,
         valu_computing \in BOOLEAN, valu_valid_out \in BOOLEAN,
         ValuStep(start, op, sew, a, b)
  PROVE  /\ valu_computing' \in BOOLEAN /\ valu_valid_out' \in BOOLEAN
         /\ start /\ ~valu_computing => valu_computing' /\ ~valu_valid_out'
         /\ valu_computing /\ ~valu_valid_out => (valu_computing' <=> ~valu_valid_out')
         /\ ~start /\ ~valu_computing => ~valu_computing' /\ ~valu_valid_out'
  <1>1. CASE ValuStart(start)
    BY <1>1 DEF ValuStart
  <1>2. CASE ValuAddSub(op, sew, a, b)
    BY <1>2 DEF ValuAddSub
  <1>3. CASE ValuMultiply(op, sew, a, b)
    BY <1>3 DEF ValuMultiply
  <1>4. CASE ValuFinish(op, sew)
    BY <1>4 DEF ValuFinish
  <1>5. CASE ValuReservedWidth(op, sew)
    BY <1>5 DEF ValuReservedWidth
  <1>6. CASE ValuIdle(start)
    BY <1>6 DEF ValuIdle
  <1> QED
    BY <1>1, <1>2, <1>3, <1>4, <1>5, <1>6 DEF ValuStep

\* The same of the packed unit (vmac.v:52-141).
LEMMA VmacMoves ==
  ASSUME NEW start \in BOOLEAN, NEW ctrl, NEW a, NEW b,
         vmac_computing \in BOOLEAN, vmac_valid_out \in BOOLEAN,
         VmacStep(start, ctrl, a, b)
  PROVE  /\ vmac_computing' \in BOOLEAN /\ vmac_valid_out' \in BOOLEAN
         /\ start /\ ~vmac_computing /\ ~vmac_valid_out => vmac_computing' /\ ~vmac_valid_out'
         /\ vmac_computing /\ ~vmac_valid_out => (vmac_computing' <=> ~vmac_valid_out')
         /\ ~start /\ ~vmac_computing => ~vmac_computing' /\ ~vmac_valid_out'
  <1>1. CASE VmacStart(start)
    BY <1>1 DEF VmacStart
  <1>2. CASE VmacAdd(ctrl, a, b)
    BY <1>2 DEF VmacAdd
  <1>3. CASE VmacMultiply(ctrl, a, b)
    BY <1>3 DEF VmacMultiply
  <1>4. CASE VmacGather(ctrl)
    BY <1>4 DEF VmacGather
  <1>5. CASE VmacIdle(start)
    BY <1>5 DEF VmacIdle
  <1> QED
    BY <1>1, <1>2, <1>3, <1>4, <1>5 DEF VmacStep

-----------------------------------------------------------------------------

\* Reset keeps the flags Boolean and leaves no instruction in the latched
\* decoder outputs (ucrv32.v:440-475).
LEMMA CtlResetFacts ==
  ASSUME NEW c, ControlFlags \subseteq DOMAIN c, \A n \in ControlFlags : c[n] \in BOOLEAN
  PROVE  /\ ControlFlags \subseteq DOMAIN CtlReset(c)
         /\ \A n \in ControlFlags : CtlReset(c)[n] \in BOOLEAN
         /\ ~CtlReset(c).is_vec_load /\ ~CtlReset(c).is_vec_store
         /\ CtlReset(c).mem_read = c.mem_read /\ CtlReset(c).mem_write = c.mem_write
  <1>1. DOMAIN CtlReset(c) = DOMAIN c
    BY DEF CtlReset
  <1>2. "is_vec_load" \in DOMAIN c /\ "is_vec_store" \in DOMAIN c
    BY DEF ControlFlags
  <1>3. ~CtlReset(c).is_vec_load /\ ~CtlReset(c).is_vec_store
    BY <1>2 DEF CtlReset
  <1>4. ASSUME NEW n \in ControlFlags
        PROVE  CtlReset(c)[n] = c[n] \/ CtlReset(c)[n] = FALSE
    BY <1>4 DEF CtlReset, ControlFlags
  <1>5. "mem_read" \in DOMAIN c /\ "mem_write" \in DOMAIN c
    BY DEF ControlFlags
  <1>6. CtlReset(c).mem_read = c.mem_read /\ CtlReset(c).mem_write = c.mem_write
    BY <1>5 DEF CtlReset
  <1> QED
    BY <1>1, <1>3, <1>4, <1>6

\* The state after the power-on reset satisfies the inductive invariant.
LEMMA InitInv == Init => Inv
  <1> SUFFICES ASSUME Init PROVE Inv
    OBVIOUS
  <1> USE DEF Init, CpuInit, ValuInit, VmacInit, VlsuInit, NoRequest, DeviceInit, UartInit,
         ParInit
  <1>1. /\ ControlFlags \subseteq DOMAIN ctl
        /\ \A n \in ControlFlags : ctl[n] \in BOOLEAN
        /\ ~ctl.is_vec_load /\ ~ctl.is_vec_store /\ ~(ctl.mem_read /\ ctl.mem_write)
    BY DecodeFacts, CtlResetFacts DEF NopCtl
  <1>2. ControlTypeOK
    <2>1. rst_edges \in 0 .. MinReset /\ resets \in 0 .. MaxResets
      BY ResetAssumption
    <2>2. sim_use_par_txrx \in BOOLEAN
      BY ModesAssumption
    <2>3. tx_counter \in 0 .. ByteBits - 1 /\ rx_counter \in 0 .. ByteBits - 1
      BY ByteBitsOK
    <2>4. tx_baud_counter \in 0 .. ClockDiv - 1 /\ rx_baud_counter \in 0 .. sample_at
      BY ClockDivAssumption DEF sample_at
    <2>5. UartTypeOK
      BY <2>3, <2>4 DEF UartTypeOK, LineState
    <2> QED
      BY <1>1, <2>1, <2>2, <2>5 DEF ControlTypeOK, CpuStates, VlsuStates
  <1>3. Shapes
    BY <1>1 DEF Shapes, RequestFields
  <1>4. CtlConsistent /\ MemConsistent /\ ResetHeld /\ VlsuRequestRight
    BY <1>1 DEF CtlConsistent, MemConsistent, ResetHeld, VlsuRequestRight, vec_mem_op
  <1>5. FetchCoherent /\ UnitHandshake
    BY DEF FetchCoherent, UnitHandshake, OnVector, OnPacked, OneOf, NoneOf, vec_mem_op
  <1>6. BusOwned /\ ResponseOwned
    BY DEF BusOwned, ResponseOwned, ScalarAwaits, VectorAwaits, VectorLooks, dmem_resp_valid
  <1> QED
    BY <1>2, <1>3, <1>4, <1>5, <1>6 DEF Inv

-----------------------------------------------------------------------------

Waiting == {"WAIT_WORD0", "WAIT_WORD1"}

\* The vector load/store unit: a start pulse makes it leave IDLE, it
\* returns there with one completion pulse, it drives a request from a REQ
\* state until ready, and with ready high it stays in a WAIT state only as
\* a load without an answer.
VlsuMoved(start, ready, resp) ==
  /\ vlsu_state' \in VlsuStates /\ vlsu_done' \in BOOLEAN /\ vlsu_is_store_reg' \in BOOLEAN
  /\ vlsu_mem'.valid \in BOOLEAN /\ vlsu_mem'.write \in BOOLEAN
  /\ RequestFields \subseteq DOMAIN vlsu_mem'
  /\ start /\ vlsu_state = "IDLE" => vlsu_state' # "IDLE" /\ ~vlsu_done'
  /\ vlsu_state # "IDLE" /\ ~vlsu_done => (vlsu_done' <=> vlsu_state' = "IDLE")
  /\ ~start /\ vlsu_state = "IDLE" => vlsu_state' = "IDLE" /\ ~vlsu_done'
  /\ vlsu_mem'.valid => /\ vlsu_state # "IDLE" /\ vlsu_state' \in Waiting
                        /\ vlsu_mem'.write = vlsu_is_store_reg'
  /\ vlsu_state' \in Waiting
       => /\ vlsu_state # "IDLE" /\ vlsu_is_store_reg' = vlsu_is_store_reg
          /\ vlsu_state \in Waiting => vlsu_mem'.addr = vlsu_mem.addr
          /\ ~vlsu_mem'.valid => vlsu_state \in Waiting
          /\ vlsu_state \in Waiting /\ ready => ~vlsu_is_store_reg /\ ~resp
  /\ vlsu_state \in Waiting /\ ~ready => vlsu_state' \in Waiting /\ vlsu_mem' = vlsu_mem
  /\ vlsu_state \in Waiting /\ ready /\ ~vlsu_is_store_reg /\ ~resp
       => vlsu_state' \in Waiting /\ ~vlsu_mem'.valid

VlsuTyped ==
  /\ vlsu_state \in VlsuStates /\ vlsu_done \in BOOLEAN /\ vlsu_is_store_reg \in BOOLEAN
  /\ vlsu_mem.valid \in BOOLEAN /\ vlsu_mem.write \in BOOLEAN
  /\ RequestFields \subseteq DOMAIN vlsu_mem
  /\ vlsu_mem.valid => vlsu_state \in Waiting /\ vlsu_mem.write = vlsu_is_store_reg

\* Every step of vlsu.v:57-151 moves the unit so.
LEMMA VlsuMoves ==
  ASSUME NEW start \in BOOLEAN, NEW is_store \in BOOLEAN, NEW base, NEW data,
         NEW ready \in BOOLEAN, NEW resp \in BOOLEAN, NEW rdata, VlsuTyped,
         VlsuStep(start, is_store, base, data, ready, resp, rdata)
  PROVE  VlsuMoved(start, ready, resp)
  <1> USE DEF VlsuTyped, VlsuMoved, VlsuStates, Waiting, RequestFields
  <1>1. CASE VlsuIdle(start, is_store, base, data)
    BY <1>1 DEF VlsuIdle
  <1>2. CASE VlsuRequest
    BY <1>2 DEF VlsuRequest
  <1>3. CASE VlsuWait(ready, resp, rdata)
    BY <1>3 DEF VlsuWait, Withdrawn
  <1>4. CASE VlsuComplete
    BY <1>4 DEF VlsuComplete
  <1> QED
    BY <1>1, <1>2, <1>3, <1>4 DEF VlsuStep

\* What the three units do at a clock edge, with the inputs the core and
\* the SRAM give them.
UnitsMoved ==
  /\ valu_computing' \in BOOLEAN /\ valu_valid_out' \in BOOLEAN
  /\ vec_valid_in_reg => valu_computing' /\ ~valu_valid_out'
  /\ valu_computing => (valu_computing' <=> ~valu_valid_out')
  /\ ~vec_valid_in_reg /\ ~valu_computing => ~valu_computing' /\ ~valu_valid_out'
  /\ vmac_computing' \in BOOLEAN /\ vmac_valid_out' \in BOOLEAN
  /\ vmac_valid_in_reg => vmac_computing' /\ ~vmac_valid_out'
  /\ vmac_computing => (vmac_computing' <=> ~vmac_valid_out')
  /\ ~vmac_valid_in_reg /\ ~vmac_computing => ~vmac_computing' /\ ~vmac_valid_out'
  /\ VlsuMoved(vlsu_start_reg, dmem_req_ready, dmem_resp_valid)

\* What the three units do at a clock edge, fed from the registers of the core.
LEMMA ClockUnits == ASSUME Inv, ClockEdge PROVE UnitsMoved
  <1>1. /\ valu_computing \in BOOLEAN /\ valu_valid_out \in BOOLEAN
        /\ vmac_computing \in BOOLEAN /\ vmac_valid_out \in BOOLEAN
        /\ vec_valid_in_reg \in BOOLEAN /\ vmac_valid_in_reg \in BOOLEAN
        /\ vlsu_start_reg \in BOOLEAN /\ dmem_resp_valid \in BOOLEAN
        /\ dmem_req_ready \in BOOLEAN /\ ctl.is_vec_store \in BOOLEAN
    BY DEF Inv, ControlTypeOK, ControlFlags, UartTypeOK, dmem_resp_valid, dmem_req_ready
  <1>2. VlsuTyped
    BY DEF Inv, ControlTypeOK, Shapes, BusOwned, Waiting, VlsuTyped, VlsuRequestRight
  <1>3. /\ vec_valid_in_reg => ~vec_mem_op /\ ~valu_computing /\ ~valu_valid_out
        /\ vmac_valid_in_reg => ~vmac_computing /\ ~vmac_valid_out
        /\ valu_computing => ~valu_valid_out
        /\ vmac_computing => ~vmac_valid_out
    BY DEF Inv, UnitHandshake, OneOf, NoneOf
  <1>4. /\ ValuStep(vec_valid_in_reg /\ ~vec_mem_op, ctl.vec_op % 4, ctl.vec_sew,
                    vs1_data_reg, vs2_data_reg)
        /\ VmacStep(vmac_valid_in_reg, ctl.vmac_ctrl, rdata1_reg, rdata2_reg)
        /\ VlsuStep(vlsu_start_reg, ctl.is_vec_store, rdata1_reg, vs2_data_reg,
                    dmem_req_ready, dmem_resp_valid, dmem_resp_rdata)
    BY DEF ClockEdge, UnitSteps
  <1>5. (vec_valid_in_reg /\ ~vec_mem_op) \in BOOLEAN
    OBVIOUS
  <1>6. /\ valu_computing' \in BOOLEAN /\ valu_valid_out' \in BOOLEAN
        /\ vec_valid_in_reg => valu_computing' /\ ~valu_valid_out'
        /\ valu_computing => (valu_computing' <=> ~valu_valid_out')
        /\ ~vec_valid_in_reg /\ ~valu_computing => ~valu_computing' /\ ~valu_valid_out'
    BY <1>1, <1>3, <1>4, <1>5, ValuMoves
  <1>7. /\ vmac_computing' \in BOOLEAN /\ vmac_valid_out' \in BOOLEAN
        /\ vmac_valid_in_reg => vmac_computing' /\ ~vmac_valid_out'
        /\ vmac_computing => (vmac_computing' <=> ~vmac_valid_out')
        /\ ~vmac_valid_in_reg /\ ~vmac_computing => ~vmac_computing' /\ ~vmac_valid_out'
    BY <1>1, <1>3, <1>4, VmacMoves
  <1>8. VlsuMoved(vlsu_start_reg, dmem_req_ready, dmem_resp_valid)
    BY <1>1, <1>2, <1>4, VlsuMoves
  <1> QED
    BY <1>6, <1>7, <1>8 DEF UnitsMoved

-----------------------------------------------------------------------------
(* A clock edge *)

\* No action but the two starts and ends of a wait disturbs the handshake
\* (ucrv32.v:480-707): outside a wait the units are quiet and stay so.
LEMMA HandshakeStep == ASSUME Inv, ClockEdge PROVE UnitHandshake'
  <1>1. UnitHandshake /\ CtlConsistent
    BY DEF Inv
  <1>2. UnitsMoved
    BY ClockUnits
  <1>3. /\ vec_busy \in BOOLEAN /\ vmac_busy \in BOOLEAN
        /\ vec_valid_in_reg \in BOOLEAN /\ vmac_valid_in_reg \in BOOLEAN
        /\ vlsu_start_reg \in BOOLEAN
    BY DEF Inv, ControlTypeOK
  <1> USE <1>1, <1>2, <1>3 DEF CtlConsistent, UnitsMoved, VlsuMoved, UnitHandshake, OnVector,
            OnPacked, OneOf, NoneOf, vec_mem_op, unitCtl
  <1>4. CASE CpuFetch(imem_rdata)
    BY <1>4 DEF CpuFetch
  <1>5. CASE CpuDecode
    BY <1>5 DEF CpuDecode
  <1>6. CASE ExecRdwrctr
    BY <1>6 DEF ExecRdwrctr
  <1>7. CASE ExecVectorWait
    BY <1>7 DEF ExecVectorWait, vec_unit_done
  <1>8. CASE ExecVectorDone
    BY <1>8 DEF ExecVectorDone, vec_unit_done
  <1>9. CASE ExecVmacWait
    BY <1>9 DEF ExecVmacWait
  <1>10. CASE ExecVmacDone
    BY <1>10 DEF ExecVmacDone
  <1>11. CASE ExecScalar
    BY <1>11 DEF ExecScalar
  <1>12. CASE MemAccept(dmem_req_ready)
    BY <1>12 DEF MemAccept, after_accept
  <1>13. CASE MemAwait(dmem_req_ready, dmem_resp_valid, dmem_resp_rdata)
    BY <1>13 DEF MemAwait
  <1>14. CASE CpuWriteback
    BY <1>14 DEF CpuWriteback
  <1> QED
    BY <1>4, <1>5, <1>6, <1>7, <1>8, <1>9, <1>10, <1>11, <1>12, <1>13, <1>14
       DEF ClockEdge, CpuStep

\* The decoder's outputs change only in DECODE, where they are replaced,
\* and in WB, where two of them are cleared.
LEMMA CtlStep ==
  ASSUME Inv, ClockEdge
  PROVE  /\ ControlFlags \subseteq DOMAIN ctl'
         /\ \A n \in ControlFlags : ctl'[n] \in BOOLEAN
         /\ CtlConsistent'
  <1>1. /\ ControlFlags \subseteq DOMAIN ctl
        /\ \A n \in ControlFlags : ctl[n] \in BOOLEAN
        /\ CtlConsistent
    BY DEF Inv, ControlTypeOK, Shapes
  <1>2. CASE CpuDecode
    <2>1. PICK v \in vmac_controls(insn_fields) : ctl' = Decode(insn_fields, v)
      BY <1>2 DEF CpuDecode
    <2> QED
      BY <2>1, DecodeFacts DEF CtlConsistent, vec_mem_op
  <1>3. CASE CpuWriteback
    <2>1. ctl' = [ctl EXCEPT !.reg_write = FALSE, !.vec_reg_write = FALSE]
      BY <1>3 DEF CpuWriteback
    <2>2. DOMAIN ctl' = DOMAIN ctl
      BY <2>1
    <2>3. ASSUME NEW n \in ControlFlags PROVE ctl'[n] = ctl[n] \/ ctl'[n] = FALSE
      BY <1>1, <2>1
    <2>4. /\ ctl'.is_vec_load = ctl.is_vec_load /\ ctl'.is_vec_store = ctl.is_vec_store
          /\ ctl'.is_vec_op = ctl.is_vec_op
          /\ ctl'.mem_read = ctl.mem_read /\ ctl'.mem_write = ctl.mem_write
      BY <1>1, <2>1 DEF ControlFlags
    <2> QED
      BY <1>1, <2>2, <2>3, <2>4 DEF CtlConsistent, vec_mem_op
  <1>4. CASE UNCHANGED ctl
    BY <1>1, <1>4 DEF CtlConsistent, vec_mem_op
  <1> QED
    BY <1>2, <1>3, <1>4 DEF ClockEdge, CpuStep, CpuFetch, ExecRdwrctr, ExecVectorWait,
       ExecVectorDone, ExecVmacWait, ExecVmacDone, ExecScalar, MemAccept, MemAwait

\* The scalar path drives a request from the end of EXEC until it is
\* accepted in MEM (ucrv32.v:625-695), and says there what it is.
LEMMA ScalarRequestStep ==
  ASSUME Inv, ClockEdge
  PROVE  /\ RequestFields \subseteq DOMAIN dreq'
         /\ dreq'.valid \in BOOLEAN /\ dreq'.write \in BOOLEAN
         /\ dreq'.valid => cpu_state' = "MEM"
         /\ MemConsistent'
  <1>1. /\ RequestFields \subseteq DOMAIN dreq
        /\ dreq.valid \in BOOLEAN /\ dreq.write \in BOOLEAN
        /\ ctl.mem_read \in BOOLEAN /\ ctl.mem_write \in BOOLEAN
        /\ dreq.valid => cpu_state = "MEM"
        /\ ~(ctl.mem_read /\ ctl.mem_write)
        /\ MemConsistent
    BY DEF Inv, ControlTypeOK, ControlFlags, Shapes, BusOwned, CtlConsistent
  <1>2. CASE ExecScalar
    <2>1. PICK out : dreq' = IF ctl.mem_read \/ ctl.mem_write THEN scalar_request(out) ELSE dreq
      BY <1>2 DEF ExecScalar
    <2>2. cpu_state = "EXEC" /\ ctl' = ctl
      BY <1>2 DEF ExecScalar
    <2>3. cpu_state' = IF ctl.mem_read \/ ctl.mem_write THEN "MEM" ELSE "WB"
      BY <1>2 DEF ExecScalar
    <2>4. CASE ctl.mem_write
      BY <1>1, <2>1, <2>2, <2>3, <2>4 DEF scalar_request, RequestFields, MemConsistent
    <2>5. CASE ctl.mem_read /\ ~ctl.mem_write
      BY <1>1, <2>1, <2>2, <2>3, <2>5 DEF scalar_request, RequestFields, MemConsistent
    <2>6. CASE ~ctl.mem_read /\ ~ctl.mem_write
      BY <1>1, <2>1, <2>2, <2>3, <2>6 DEF MemConsistent
    <2> QED
      BY <2>4, <2>5, <2>6
  <1>3. CASE MemAccept(dmem_req_ready)
    BY <1>1, <1>3 DEF MemAccept, after_accept, Withdrawn, MemConsistent, RequestFields
  <1>4. CASE MemAwait(dmem_req_ready, dmem_resp_valid, dmem_resp_rdata)
    BY <1>1, <1>4 DEF MemAwait, MemConsistent
  <1>5. CASE cpu_state # "MEM" /\ cpu_state' # "MEM" /\ dreq' = dreq
    BY <1>1, <1>5 DEF MemConsistent
  <1> QED
    BY <1>2, <1>3, <1>4, <1>5 DEF ClockEdge, CpuStep, CpuFetch, CpuDecode, ExecRdwrctr,
       ExecVectorWait, ExecVectorDone, ExecVmacWait, ExecVmacDone, CpuWriteback

\* The bus mux hides no request (ucrv32.v:341-356).
LEMMA BusStep == ASSUME Inv, ClockEdge PROVE BusOwned' /\ VlsuRequestRight'
  <1>1. VlsuMoved(vlsu_start_reg, dmem_req_ready, dmem_resp_valid)
    BY ClockUnits DEF UnitsMoved
  <1>2. dreq'.valid => cpu_state' = "MEM"
    BY ScalarRequestStep
  <1>3. UnitHandshake'
    BY HandshakeStep
  <1>4. vec_mem_active' => cpu_state' = "EXEC"
    BY <1>3 DEF UnitHandshake, OnVector, vec_mem_active
  <1>5. vlsu_state' # "IDLE" => vec_mem_active'
    BY <1>3 DEF UnitHandshake, OnVector, NoneOf, vec_mem_active
  <1> QED
    BY <1>1, <1>2, <1>4, <1>5 DEF BusOwned, VlsuRequestRight, VlsuMoved, Waiting

\* What the memories and the serial port make of the request on the bus.
LEMMA SerialStep ==
  ASSUME Inv, ClockEdge
  PROVE  /\ UartTypeOK' /\ sim_use_par_txrx' = sim_use_par_txrx
         /\ uart_resp_valid' <=> (/\ dmem_req.valid /\ serial(dmem_req.addr)
                                 /\ req_addr(dmem_req.addr) \in {RX, STATUS})
         /\ tx_state = "IDLE" /\ ~(dmem_req.valid /\ dmem_req.write) => tx_state' = "IDLE"
         /\ dmem_resp_valid_reg' <=> (dmem_req.valid /\ ~dmem_req.write)
         /\ dmem_req.valid /\ ~dmem_req.write
              => dmem_addr_reg' = dmem_req.addr /\ dmem_raddr_reg' = dmem_req.addr
         /\ ~(dmem_req.valid /\ ~dmem_req.write)
              => dmem_addr_reg' = dmem_addr_reg /\ dmem_raddr_reg' = dmem_raddr_reg
  <1>1. dmem_req.valid \in BOOLEAN /\ dmem_req.write \in BOOLEAN /\ UartTypeOK
    BY DEF Inv, ControlTypeOK, dmem_req
  <1>2. (dmem_req.valid /\ serial(dmem_req.addr)) \in BOOLEAN
    OBVIOUS
  <1>3. PICK rx \in RxLevels : UartStep(dmem_req.valid /\ serial(dmem_req.addr), dmem_req.write,
                                       dmem_req.addr, dmem_req.wdata, rx)
    BY DEF ClockEdge, DeviceStep
  <1>4. rx \in {0, 1}
    BY RxBytesAssumption
  <1>5. /\ UartTypeOK'
        /\ uart_resp_valid' <=> ((dmem_req.valid /\ serial(dmem_req.addr))
                                   /\ req_addr(dmem_req.addr) \in {RX, STATUS})
        /\ tx_state = "IDLE" /\ ~((dmem_req.valid /\ serial(dmem_req.addr)) /\ dmem_req.write)
             => tx_state' = "IDLE"
    BY <1>1, <1>2, <1>3, <1>4, UartMoves
  <1>6. /\ sim_use_par_txrx' = sim_use_par_txrx
        /\ dmem_resp_valid_reg' <=> (dmem_req.valid /\ ~dmem_req.write)
        /\ dmem_req.valid /\ ~dmem_req.write
             => dmem_addr_reg' = dmem_req.addr /\ dmem_raddr_reg' = dmem_req.addr
        /\ ~(dmem_req.valid /\ ~dmem_req.write)
             => dmem_addr_reg' = dmem_addr_reg /\ dmem_raddr_reg' = dmem_raddr_reg
    BY DEF ClockEdge, SramStep, RaddrStep, DeviceStep
  <1> QED
    BY <1>5, <1>6

\* A load of the vector unit whose request is not accepted yet has only
\* answers to that request before it; one whose request was accepted has
\* its answer, if the address has one (vlsu.v:91-104, 119-132).
LEMMA VectorResponseStep ==
  ASSUME Inv, ClockEdge
  PROVE  /\ VectorAwaits' => /\ VectorLooks'
                             /\ dmem_raddr_reg' = vlsu_mem'.addr
                             /\ dmem_addr_reg' = vlsu_mem'.addr
                             /\ dmem_resp_valid' <=> Answered(vlsu_mem.addr)'
                             /\ dmem_req_ready'
         /\ VectorLooks' /\ dmem_resp_valid' => dmem_raddr_reg' = vlsu_mem'.addr
         /\ vlsu_mem.valid /\ ~vlsu_mem.write /\ ~serial(vlsu_mem.addr) => VectorAwaits'
  <1>1. rst_edges # 1
    BY ResetAssumption DEF ClockEdge
  <1>2. /\ ResponseOwned /\ VlsuRequestRight /\ BusOwned
        /\ vlsu_is_store_reg \in BOOLEAN /\ vlsu_mem.valid \in BOOLEAN /\ vlsu_mem.write \in BOOLEAN
    BY DEF Inv, ControlTypeOK
  <1>3. VlsuMoved(vlsu_start_reg, dmem_req_ready, dmem_resp_valid)
    BY ClockUnits DEF UnitsMoved
  <1>4. /\ vlsu_state # "IDLE" => vec_mem_active /\ dmem_req = vlsu_mem
        /\ vec_mem_active => cpu_state = "EXEC"
    BY DEF Inv, UnitHandshake, OnVector, NoneOf, vec_mem_active, dmem_req
  <1>5. vlsu_state' # "IDLE" => dmem_req' = vlsu_mem'
    BY HandshakeStep DEF UnitHandshake, OnVector, NoneOf, vec_mem_active, dmem_req
  <1>6. \A a : /\ serial(a)' = serial(a)
               /\ Answered(a)' = Answered(a)
    BY SerialStep DEF serial, Answered
  <1>7. vlsu_mem.valid => vlsu_state \in Waiting
    BY <1>2 DEF BusOwned, Waiting
  <1>8. ASSUME vlsu_state \in Waiting, ~vlsu_mem.valid
        PROVE  VectorAwaits
    BY <1>8 DEF VectorAwaits, Waiting
  <1>9. ASSUME VectorLooks', dmem_resp_valid'
        PROVE  dmem_raddr_reg' = vlsu_mem'.addr
    <2>1. vlsu_state # "IDLE" /\ dmem_req = vlsu_mem
      BY <1>3, <1>4, <1>9 DEF VlsuMoved, VectorLooks, Waiting
    <2>2. vlsu_mem.valid
      BY <2>1, <1>9, SerialStep DEF dmem_resp_valid
    <2>3. ~vlsu_mem.write
      BY <2>2, <1>2, <1>3, <1>9 DEF VlsuMoved, VectorLooks, Waiting, VlsuRequestRight
    <2> QED
      BY <2>1, <2>2, <2>3, <1>3, <1>7, <1>9, SerialStep DEF VlsuMoved, VectorLooks, Waiting
  <1>10. ASSUME VectorAwaits'
         PROVE  /\ VectorLooks'
                /\ dmem_raddr_reg' = vlsu_mem'.addr /\ dmem_addr_reg' = vlsu_mem'.addr
                /\ dmem_resp_valid' <=> Answered(vlsu_mem.addr)'
                /\ dmem_req_ready'
    <2>1. /\ vlsu_state' \in Waiting /\ ~vlsu_mem'.valid /\ vlsu_state \in Waiting
          /\ vlsu_state # "IDLE" /\ vlsu_state' # "IDLE"
          /\ vlsu_mem'.addr = vlsu_mem.addr /\ vlsu_is_store_reg' = vlsu_is_store_reg
      BY <1>3, <1>10 DEF VlsuMoved, VectorAwaits, Waiting
    <2>2. dmem_req_ready
      <3>1. CASE vlsu_mem.valid
        BY <2>1, <3>1, <1>3 DEF VlsuMoved
      <3>2. CASE ~vlsu_mem.valid
        BY <1>1, <1>2, <1>8, <2>1, <3>2 DEF ResponseOwned
      <3> QED
        BY <1>2, <3>1, <3>2
    <2>3. ~vlsu_is_store_reg /\ ~dmem_resp_valid
      BY <1>3, <2>1, <2>2 DEF VlsuMoved
    <2>4. VectorLooks'
      BY <2>1, <2>3 DEF VectorLooks, Waiting
    <2>5. dmem_req = vlsu_mem /\ dmem_req' = vlsu_mem'
      BY <1>4, <1>5, <2>1
    <2>6. ~(dmem_req.valid /\ dmem_req.write)
      BY <1>2, <2>3, <2>5 DEF VlsuRequestRight
    <2>7. dmem_req_ready'
      BY <1>6, <2>1, <2>2, <2>5, <2>6, SerialStep DEF dmem_req_ready, uart_req_ready, serial
    <2>8. CASE vlsu_mem.valid
      <3>1. /\ dmem_raddr_reg' = vlsu_mem.addr /\ dmem_addr_reg' = vlsu_mem.addr
            /\ dmem_resp_valid_reg'
            /\ uart_resp_valid' <=> (serial(vlsu_mem.addr) /\ req_addr(vlsu_mem.addr) \in {RX, STATUS})
        BY <2>5, <2>6, <2>8, <1>2, SerialStep
      <3>2. dmem_resp_valid' <=> Answered(vlsu_mem.addr)'
        BY <3>1, <2>1, SerialStep DEF dmem_resp_valid, Answered, serial
      <3> QED
        BY <2>1, <2>4, <2>7, <3>1, <3>2
    <2>9. CASE ~vlsu_mem.valid
      <3>1. /\ VectorAwaits /\ dmem_raddr_reg = vlsu_mem.addr /\ dmem_addr_reg = vlsu_mem.addr
            /\ ~Answered(vlsu_mem.addr)
        BY <1>1, <1>2, <1>8, <2>1, <2>3, <2>9 DEF ResponseOwned
      <3>2. dmem_raddr_reg' = dmem_raddr_reg /\ dmem_addr_reg' = dmem_addr_reg /\ ~uart_resp_valid'
        BY <2>5, <2>9, SerialStep
      <3>3. ~dmem_resp_valid' /\ ~Answered(vlsu_mem.addr)'
        BY <2>1, <3>1, <3>2, SerialStep DEF dmem_resp_valid, Answered, serial
      <3> QED
        BY <2>1, <2>4, <2>7, <3>1, <3>2, <3>3
    <2> QED
      BY <1>2, <2>8, <2>9
  <1>11. ASSUME vlsu_mem.valid, ~vlsu_mem.write, ~serial(vlsu_mem.addr)
         PROVE  VectorAwaits'
    <2>1. vlsu_state \in Waiting /\ ~vlsu_is_store_reg /\ dmem_req = vlsu_mem
      BY <1>2, <1>4, <1>7, <1>11 DEF VlsuRequestRight, Waiting
    <2>2. dmem_req_ready
      BY <2>1, <1>11 DEF dmem_req_ready
    <2>3. ~ScalarAwaits /\ ~VectorAwaits
      BY <1>4, <1>11, <2>1 DEF ScalarAwaits, VectorAwaits, Waiting
    <2>4. ~dmem_resp_valid
      <3>1. VectorLooks
        BY <2>1 DEF VectorLooks, Waiting
      <3> QED
        BY <1>1, <1>2, <1>11, <2>3, <3>1 DEF ResponseOwned
    <2> QED
      BY <1>3, <2>1, <2>2, <2>4 DEF VlsuMoved, VectorAwaits, Waiting
  <1> QED
    BY <1>9, <1>10, <1>11

\* A scalar load waits from the accept of its request, with its answer
\* there in that cycle, if the address has one (ucrv32.v:675-695).
LEMMA ScalarResponseStep ==
  ASSUME Inv, ClockEdge
  PROVE  /\ ScalarAwaits' => /\ ctl'.mem_read
                             /\ dmem_raddr_reg' = dreq'.addr /\ dmem_addr_reg' = dreq'.addr
                             /\ dmem_resp_valid' <=> Answered(dreq.addr)'
         /\ dreq.valid /\ ~dreq.write /\ ~serial(dreq.addr) => ScalarAwaits'
  <1>1. rst_edges # 1
    BY ResetAssumption DEF ClockEdge
  <1>2. /\ ResponseOwned /\ MemConsistent
        /\ RequestFields \subseteq DOMAIN dreq /\ ctl.mem_read \in BOOLEAN
        /\ dreq.valid \in BOOLEAN /\ dreq.write \in BOOLEAN
        /\ dreq.valid => cpu_state = "MEM"
    BY DEF Inv, ControlTypeOK, ControlFlags, Shapes, BusOwned
  <1>3. cpu_state = "MEM" => dmem_req = dreq
    BY DEF Inv, UnitHandshake, OnVector, vec_mem_active, dmem_req
  <1>4. CASE MemAccept(dmem_req_ready)
    <2>1. /\ cpu_state = "MEM" /\ dreq.valid /\ ~dreq'.valid /\ dreq'.addr = dreq.addr
          /\ dreq.write = ~ctl.mem_read /\ ctl' = ctl
          /\ cpu_state' = IF ctl.mem_read THEN "MEM" ELSE "WB"
      BY <1>2, <1>4 DEF MemAccept, after_accept, Withdrawn, MemConsistent, RequestFields
    <2>2. ASSUME ctl.mem_read
          PROVE  /\ dmem_raddr_reg' = dreq.addr /\ dmem_addr_reg' = dreq.addr
                 /\ dmem_resp_valid' <=> Answered(dreq.addr)'
      <3>1. /\ dmem_raddr_reg' = dreq.addr /\ dmem_addr_reg' = dreq.addr /\ dmem_resp_valid_reg'
            /\ uart_resp_valid' <=> (serial(dreq.addr) /\ req_addr(dreq.addr) \in {RX, STATUS})
        BY <1>2, <1>3, <2>1, <2>2, SerialStep
      <3>2. dmem_resp_valid' <=> Answered(dreq.addr)'
        BY <2>1, <3>1, SerialStep DEF dmem_resp_valid, Answered, serial
      <3> QED
        BY <3>1, <3>2
    <2> QED
      BY <1>2, <2>1, <2>2 DEF ScalarAwaits
  <1>5. CASE MemAwait(dmem_req_ready, dmem_resp_valid, dmem_resp_rdata)
    <2>1. /\ cpu_state = "MEM" /\ dreq' = dreq /\ ctl' = ctl /\ ~(dreq.valid /\ dmem_req_ready)
          /\ ~dreq.valid /\ dmem_resp_valid => cpu_state' = "WB"
      BY <1>2, <1>5 DEF MemAwait, MemConsistent
    <2>2. ASSUME dreq.valid, ~serial(dreq.addr) PROVE FALSE
      BY <1>3, <2>1, <2>2 DEF dmem_req_ready
    <2>3. ASSUME ScalarAwaits'
          PROVE  /\ ctl'.mem_read
                 /\ dmem_raddr_reg' = dreq'.addr /\ dmem_addr_reg' = dreq'.addr
                 /\ dmem_resp_valid' <=> Answered(dreq.addr)'
      <3>1. ScalarAwaits /\ ~dmem_resp_valid
        BY <2>1, <2>3 DEF ScalarAwaits
      <3>2. /\ ctl.mem_read /\ dmem_raddr_reg = dreq.addr /\ dmem_addr_reg = dreq.addr
            /\ ~Answered(dreq.addr)
        BY <1>1, <1>2, <3>1 DEF ResponseOwned
      <3>3. dmem_raddr_reg' = dmem_raddr_reg /\ dmem_addr_reg' = dmem_addr_reg /\ ~uart_resp_valid'
        BY <1>3, <3>1, SerialStep DEF ScalarAwaits
      <3>4. ~dmem_resp_valid' /\ ~Answered(dreq.addr)'
        BY <2>1, <3>2, <3>3, SerialStep DEF dmem_resp_valid, Answered, serial
      <3> QED
        BY <2>1, <3>2, <3>3, <3>4
    <2> QED
      BY <2>2, <2>3
  <1>6. CASE ExecScalar
    <2>1. PICK out : dreq' = IF ctl.mem_read \/ ctl.mem_write
                             THEN scalar_request(out) ELSE dreq
      BY <1>6 DEF ExecScalar
    <2>2. /\ cpu_state = "EXEC"
          /\ cpu_state' = IF ctl.mem_read \/ ctl.mem_write THEN "MEM" ELSE "WB"
      BY <1>6 DEF ExecScalar
    <2>3. cpu_state' = "MEM" => dreq'.valid
      BY <1>2, <2>1, <2>2 DEF scalar_request, RequestFields
    <2> QED
      BY <1>2, <2>2, <2>3 DEF ScalarAwaits
  <1>7. CASE cpu_state # "MEM" /\ cpu_state' # "MEM"
    BY <1>2, <1>7 DEF ScalarAwaits
  <1> QED
    BY <1>4, <1>5, <1>6, <1>7 DEF ClockEdge, CpuStep, CpuFetch, CpuDecode, ExecRdwrctr,
       ExecVectorWait, ExecVectorDone, ExecVmacWait, ExecVmacDone, CpuWriteback

\* Every answer finds exactly the requester it is for.
LEMMA ResponseStep == ASSUME Inv, ClockEdge PROVE ResponseOwned'
  <1>1. BusOwned
    BY DEF Inv
  <1>2. /\ dreq.valid => dmem_req = dreq
        /\ vlsu_mem.valid => dmem_req = vlsu_mem
        /\ dmem_req \in {dreq, vlsu_mem}
    BY <1>1 DEF BusOwned, dmem_req
  <1>3. ASSUME ~serial(dmem_raddr_reg)'
        PROVE  dmem_resp_valid' <=> (ScalarAwaits' \/ VectorAwaits')
    <2>1. dmem_resp_valid' <=> (dmem_req.valid /\ ~dmem_req.write)
      BY <1>3, SerialStep DEF dmem_resp_valid
    <2>2. ASSUME dmem_req.valid, ~dmem_req.write PROVE ScalarAwaits' \/ VectorAwaits'
      <3>1. ~serial(dmem_req.addr)
        BY <1>3, <2>2, SerialStep DEF serial
      <3> QED
        BY <1>2, <2>2, <3>1, ScalarResponseStep, VectorResponseStep
    <2>3. ASSUME ScalarAwaits' \/ VectorAwaits' PROVE dmem_resp_valid'
      <3>1. ASSUME ScalarAwaits' PROVE dmem_resp_valid'
        BY <1>3, <3>1, ScalarResponseStep DEF Answered, serial
      <3>2. ASSUME VectorAwaits' PROVE dmem_resp_valid'
        BY <1>3, <3>2, VectorResponseStep DEF Answered, serial
      <3> QED
        BY <2>3, <3>1, <3>2
    <2> QED
      BY <2>1, <2>2, <2>3
  <1> QED
    BY <1>3, ScalarResponseStep, VectorResponseStep DEF ResponseOwned

\* The core enters FETCH only from WB, which leaves pc_reg alone.
LEMMA FetchStep == ASSUME Inv, ClockEdge PROVE FetchCoherent'
  <1>1. imem_addr_reg' = pc_reg
    BY DEF ClockEdge, SramStep
  <1>2. cpu_state' = "FETCH" => pc_reg' = pc_reg
    BY DEF ClockEdge, CpuStep, CpuFetch, CpuDecode, ExecRdwrctr, ExecVectorWait, ExecVectorDone,
       ExecVmacWait, ExecVmacDone, ExecScalar, MemAccept, MemAwait, CpuWriteback, after_accept
  <1> QED
    BY <1>1, <1>2 DEF FetchCoherent

\* A clock edge keeps the ranges of the control registers.
LEMMA TypeStep == ASSUME Inv, ClockEdge PROVE ControlTypeOK' /\ Shapes' /\ ResetHeld'
  <1>1. /\ vmac_busy \in BOOLEAN /\ vmac_valid_in_reg \in BOOLEAN
        /\ vec_busy \in BOOLEAN /\ vec_valid_in_reg \in BOOLEAN /\ vlsu_start_reg \in BOOLEAN
        /\ break_hit \in BOOLEAN /\ resets \in 0 .. MaxResets
    BY DEF Inv, ControlTypeOK
  <1>2. UnitsMoved
    BY ClockUnits
  <1>3. cpu_state' \in CpuStates
    BY DEF ClockEdge, CpuStep, CpuFetch, CpuDecode, ExecRdwrctr, ExecVectorWait, ExecVectorDone,
       ExecVmacWait, ExecVmacDone, ExecScalar, MemAccept, MemAwait, CpuWriteback, CpuStates,
       after_accept
  <1>4. /\ vmac_busy' \in BOOLEAN /\ vmac_valid_in_reg' \in BOOLEAN
        /\ vec_busy' \in BOOLEAN /\ vec_valid_in_reg' \in BOOLEAN /\ vlsu_start_reg' \in BOOLEAN
    BY <1>1 DEF ClockEdge, CpuStep, CpuFetch, CpuDecode, ExecRdwrctr, ExecVectorWait,
       ExecVectorDone, ExecVmacWait, ExecVmacDone, ExecScalar, MemAccept, MemAwait, CpuWriteback,
       unitCtl
  <1>5. dmem_resp_valid_reg' \in BOOLEAN /\ break_hit' \in BOOLEAN
    BY DEF ClockEdge, SramStep
  <1>6. /\ par_rx_ack' \in BOOLEAN /\ par_rx_valid_latch' \in BOOLEAN /\ par_tx_valid' \in BOOLEAN
        /\ sim_use_par_txrx' \in BOOLEAN /\ UartTypeOK'
    <2>1. par_rx_ack' \in BOOLEAN /\ par_rx_valid_latch' \in BOOLEAN
      BY DEF ClockEdge, DeviceStep, ParRxStep
    <2>2. par_tx_valid' \in BOOLEAN
      BY DEF ClockEdge, DeviceStep, ParTxStep
    <2>3. sim_use_par_txrx' \in BOOLEAN
      BY SerialStep DEF Inv, ControlTypeOK
    <2> QED
      BY <2>1, <2>2, <2>3, SerialStep
  <1>7. rst_edges' = 0 /\ resets' = resets
    BY DEF ClockEdge
  <1>8. rst_edges' \in 0 .. MinReset /\ resets' \in 0 .. MaxResets
    BY <1>1, <1>7, ResetAssumption
  <1>9. ControlTypeOK'
    BY <1>2, <1>3, <1>4, <1>5, <1>6, <1>8, CtlStep, ScalarRequestStep
       DEF ControlTypeOK, UnitsMoved, VlsuMoved
  <1>10. Shapes'
    BY <1>2, CtlStep, ScalarRequestStep DEF Shapes, UnitsMoved, VlsuMoved
  <1>11. ResetHeld'
    BY <1>7 DEF ResetHeld
  <1> QED
    BY <1>9, <1>10, <1>11

-----------------------------------------------------------------------------
(* A reset edge, and the theorems *)

\* A reset edge quiets the units and the bus at once; the instruction port
\* and the answer of an access under way take one edge more (sram.v has no
\* reset), which is why MinReset is at least 2.
LEMMA ResetStep == ASSUME Inv, ResetEdge PROVE Inv'
  <1>1. /\ ControlTypeOK /\ Shapes /\ CtlConsistent /\ ResetHeld /\ BusOwned
        /\ rst_edges \in Nat
    BY ResetAssumption DEF Inv, ControlTypeOK
  <1>2. /\ cpu_state' = "FETCH" /\ pc_reg' = 0
        /\ dreq' = [dreq EXCEPT !.valid = FALSE] /\ ctl' = CtlReset(ctl)
        /\ vmac_busy' = FALSE /\ vmac_valid_in_reg' = FALSE
        /\ vec_busy' = FALSE /\ vec_valid_in_reg' = FALSE /\ vlsu_start_reg' = FALSE
    BY DEF ResetEdge, CpuReset, Withdrawn
  <1>3. /\ valu_computing' = FALSE /\ valu_valid_out' = FALSE
        /\ vmac_computing' = FALSE /\ vmac_valid_out' = FALSE
        /\ vlsu_state' = "IDLE" /\ vlsu_done' = FALSE /\ vlsu_is_store_reg' = FALSE
        /\ vlsu_mem' = NoRequest
    BY DEF ResetEdge, UnitResets, ValuReset, VmacReset, VlsuReset
  <1>4. /\ imem_addr_reg' = pc_reg
        /\ dmem_resp_valid_reg' = (dmem_req.valid /\ ~dmem_req.write)
    BY DEF ResetEdge, SramStep
  <1>5. /\ break_hit' = FALSE /\ par_rx_ack' = FALSE /\ par_tx_valid' = FALSE
        /\ par_rx_valid_latch' = par_rx_valid_latch /\ sim_use_par_txrx' = FALSE
    BY DEF ResetEdge, DeviceReset, ParReset
  <1>6. /\ ControlFlags \subseteq DOMAIN ctl'
        /\ \A n \in ControlFlags : ctl'[n] \in BOOLEAN
        /\ CtlConsistent'
    BY <1>1, <1>2, CtlResetFacts DEF ControlTypeOK, Shapes, CtlConsistent, vec_mem_op
  <1>7. /\ RequestFields \subseteq DOMAIN dreq' /\ dreq'.valid = FALSE
        /\ dreq'.write = dreq.write
    BY <1>1, <1>2 DEF Shapes, RequestFields
  <1>8. rst_edges' \in 0 .. MinReset /\ resets' \in 0 .. MaxResets
    BY <1>1, ResetAssumption DEF ResetEdge, ControlTypeOK
  <1>9. UartTypeOK' /\ uart_resp_valid' = FALSE
    <2>1. UartTypeOK /\ UartReset
      BY <1>1 DEF ControlTypeOK, ResetEdge, DeviceReset
    <2>2. tx_counter' \in 0 .. ByteBits - 1 /\ rx_counter' \in 0 .. ByteBits - 1
      BY <2>1, ByteBitsOK DEF UartReset, UartTypeOK
    <2>3. tx_baud_counter' \in 0 .. ClockDiv - 1 /\ rx_baud_counter' \in 0 .. sample_at'
      BY <2>1, ClockDivAssumption DEF UartReset, UartTypeOK, sample_at
    <2> QED
      BY <2>1, <2>2, <2>3 DEF UartReset, UartTypeOK, LineState
  <1>10. ControlTypeOK'
    BY <1>1, <1>2, <1>3, <1>4, <1>5, <1>6, <1>7, <1>8, <1>9
       DEF ControlTypeOK, CpuStates, VlsuStates, NoRequest
  <1>11. Shapes'
    BY <1>3, <1>6, <1>7 DEF Shapes, RequestFields, NoRequest
  <1>12. MemConsistent' /\ ResetHeld' /\ VlsuRequestRight' /\ BusOwned'
    BY <1>2, <1>3, <1>7 DEF MemConsistent, ResetHeld, VlsuRequestRight, BusOwned, NoRequest
  <1>13. UnitHandshake'
    BY <1>2, <1>3 DEF UnitHandshake, OnVector, OnPacked, OneOf, NoneOf
  <1>14. CASE rst_edges = 0
    <2>1. rst_edges' = 1
      BY <1>14, ResetAssumption DEF ResetEdge
    <2> QED
      BY <2>1, <1>6, <1>10, <1>11, <1>12, <1>13 DEF Inv, FetchCoherent, ResponseOwned
  <1>15. CASE rst_edges > 0
    <2>1. cpu_state = "FETCH" /\ pc_reg = 0
      BY <1>1, <1>15 DEF ResetHeld
    <2>2. ~dreq.valid /\ ~vlsu_mem.valid
      BY <2>1 DEF Inv, BusOwned, UnitHandshake, OnVector, vec_mem_active
    <2>3. ~dmem_resp_valid_reg'
      BY <1>4, <2>2 DEF dmem_req
    <2>4. FetchCoherent' /\ ResponseOwned'
      BY <1>2, <1>3, <1>4, <1>9, <2>1, <2>3 DEF FetchCoherent, ResponseOwned, ScalarAwaits,
         VectorAwaits, VectorLooks, dmem_resp_valid
    <2> QED
      BY <2>4, <1>6, <1>10, <1>11, <1>12, <1>13 DEF Inv
  <1> QED
    BY <1>1, <1>14, <1>15

\* Inv is an inductive invariant of the system of top.v, resets included.
THEOREM Invariance == Spec => []Inv
  <1>1. Init => Inv
    BY InitInv
  <1>2. Inv /\ [Next]_vars => Inv'
    <2> SUFFICES ASSUME Inv, [Next]_vars PROVE Inv'
      OBVIOUS
    <2>1. CASE ClockEdge
      BY <2>1, CtlStep, TypeStep, ScalarRequestStep, BusStep, FetchStep, HandshakeStep,
         ResponseStep DEF Inv
    <2>2. CASE ResetEdge
      BY <2>2, ResetStep
    <2>3. CASE UNCHANGED vars
      BY <2>3 DEF vars, cpuVars, valuVars, vmacVars, vlsuVars, sramVars, deviceVars, uartVars, txVars, rxVars,
         sample_at, parVars, dataRegs, unitCtl, vectorOps, files, UartTypeOK, VectorLooks, serial, Answered,
         dmem_req_ready, uart_req_ready, dmem_resp_valid, dmem_req, Inv, ControlTypeOK, Shapes, CtlConsistent, MemConsistent,
         ResetHeld, VlsuRequestRight, FetchCoherent, UnitHandshake, BusOwned, ResponseOwned,
         OnVector, OnPacked, ScalarAwaits, VectorAwaits, vec_mem_op, vec_mem_active
    <2> QED
      BY <2>1, <2>2, <2>3 DEF Next
  <1> QED
    BY <1>1, <1>2, PTL DEF Spec

\* Every control register of top.v and the units it instantiates always
\* holds a value of its range.
THEOREM ControlTypeCorrect == Spec => []ControlTypeOK
  <1>1. Inv => ControlTypeOK
    BY DEF Inv
  <1> QED
    BY <1>1, Invariance, PTL

\* FETCH (ucrv32.v:480) always latches the word at the program counter,
\* after every kind of instruction and after every reset.
THEOREM FetchIsCoherent == Spec => []FetchCoherent
  <1>1. Inv => FetchCoherent
    BY DEF Inv
  <1> QED
    BY <1>1, Invariance, PTL

\* No start or completion pulse of the three units (ucrv32.v:560-623) is
\* ever lost, doubled or left over for a later instruction.
THEOREM HandshakesAreSafe == Spec => []UnitHandshake
  <1>1. Inv => UnitHandshake
    BY DEF Inv
  <1> QED
    BY <1>1, Invariance, PTL

\* The bus mux (ucrv32.v:341-356) never hides a request.
THEOREM BusIsOwned == Spec => []BusOwned
  <1>1. Inv => BusOwned
    BY DEF Inv
  <1> QED
    BY <1>1, Invariance, PTL

\* Every one-cycle answer of the SRAM (sram.v:37) or the serial port
\* (uart.v:70-92) that anyone can take is for the one who takes it, and
\* every requester that waits has its answer, if the address has one.
THEOREM ResponsesAreOwned == Spec => []ResponseOwned
  <1>1. Inv => ResponseOwned
    BY DEF Inv
  <1> QED
    BY <1>1, Invariance, PTL

-----------------------------------------------------------------------------
(* The widths of the data *)

\* Two digits side by side.
LEMMA TwoFit ==
  ASSUME NEW n \in Nat \ {0}, NEW m \in Nat \ {0}, NEW lo \in 0 .. n - 1, NEW hi \in 0 .. m - 1
  PROVE  lo + n * hi \in 0 .. n * m - 1
  <1>1. \A x \in Nat, y \in Nat : x <= y => n * x <= n * y
    BY SMT
  <1>2. n * hi \in Nat /\ n * m \in Nat /\ n * (hi + 1) = n * hi + n
    BY SMT
  <1>3. n * (hi + 1) <= n * m
    <2>1. hi + 1 \in Nat /\ hi + 1 <= m
      OBVIOUS
    <2> QED
      BY <1>1, <2>1
  <1>4. n * hi + n <= n * m
    BY <1>2, <1>3
  <1> QED
    BY <1>2, <1>4

\* The ranges a word is cut into.
LEMMA Ranges ==
  /\ WordMod \in Nat \ {0} /\ WordMod >= 256 /\ 0 \in Word /\ 1 \in Word /\ 4 \in Word
  /\ << 0, 0 >> \in VWord
  /\ \A n \in Int : n % WordMod \in Word /\ n % HalfMod \in 0 .. HalfMod - 1 /\ n % ByteMod \in Byte
  /\ \A n \in 0 .. HalfMod - 1 : n \in Word
  /\ \A n \in Byte : n \in Word
  /\ 4 <= ByteMod /\ 4 * ByteMod <= HalfMod
  <1> DEFINE B == ByteMod
             H == HalfMod
             W == WordMod
  <1>1. B \in Nat /\ H \in Nat /\ W \in Nat /\ H = B * B /\ W = H * H
    BY Moduli
  <1>2. B >= 4
    <2>1. \A n \in 2 .. ByteBits : 2^n >= 4
      <3> DEFINE T == {n \in 0 .. ByteBits : n >= 2 => 2^n >= 4}
      <3>1. ByteBits \in Nat /\ \A n \in 0 .. ByteBits - 1 : n \in 0 .. XLEN /\ n \in 0 .. XLEN + 1
        BY Sizes
      <3>2. 0 \in T
        BY <3>1
      <3>3. \A n \in 0 .. ByteBits - 1 : n \in T => n + 1 \in T
        <4> SUFFICES ASSUME NEW n \in 0 .. ByteBits - 1, n \in T PROVE n + 1 \in T
          OBVIOUS
        <4>1. 2^(n + 1) = 2 * 2^n /\ 2^n \in Nat \ {0} /\ n < 2^n
          BY <3>1, PowerStep
        <4>2. n + 1 >= 2 => 2^n >= 2
          BY <4>1
        <4>3. n + 1 >= 2 => 2^(n + 1) >= 4
          BY <4>1, <4>2
        <4> QED
          BY <3>1, <4>3
      <3> HIDE DEF T
      <3>4. \A n \in 0 .. ByteBits : n \in T
        BY <3>1, <3>2, <3>3, UpToInduction
      <3> QED
        BY <3>1, <3>4 DEF T
    <2>2. ByteBits \in 2 .. ByteBits
      BY Sizes
    <2> QED
      BY <2>1, <2>2 DEF ByteMod
  <1> HIDE DEF B, H, W
  <1>3. \A x \in Nat, y \in Nat, z \in Nat : x <= y => x * z <= y * z
    BY SMT
  <1>4. 4 * B <= H /\ H >= 16
    <2>1. 4 * B <= B * B
      BY <1>1, <1>2, <1>3
    <2> QED
      BY <1>1, <1>2, <2>1
  <1>5. 16 * H <= W /\ W >= 256
    <2>1. 16 * H <= H * H
      BY <1>1, <1>3, <1>4
    <2> QED
      BY <1>1, <1>4, <2>1
  <1>6. \A m \in Nat \ {0} : \A n \in Int : n % m \in 0 .. m - 1
    OBVIOUS
  <1>7. /\ \A n \in Int : n % W \in 0 .. W - 1 /\ n % H \in 0 .. H - 1 /\ n % B \in 0 .. B - 1
        /\ \A n \in 0 .. H - 1 : n \in 0 .. W - 1
        /\ \A n \in 0 .. B - 1 : n \in 0 .. W - 1
    <2>1. W \in Nat \ {0} /\ H \in Nat \ {0} /\ B \in Nat \ {0} /\ H <= W /\ B <= W
      BY <1>1, <1>2, <1>4, <1>5
    <2> QED
      BY <1>6, <2>1
  <1>8. W \in Nat \ {0} /\ 0 \in 0 .. W - 1 /\ 1 \in 0 .. W - 1 /\ 4 \in 0 .. W - 1
    BY <1>1, <1>5
  <1> QED
    BY <1>2, <1>4, <1>5, <1>7, <1>8 DEF B, H, W, Byte, Word, VWord

\* Four bytes side by side are a word.
LEMMA BytesFit ==
  ASSUME NEW b, \A k \in 0 .. 3 : b[k] \in Byte
  PROVE  OfBytes(b) \in Word
  <1> DEFINE B == ByteMod
             p == b[2] + B * b[3]
             q == b[1] + B * p
  <1>1. B \in Nat \ {0} /\ HalfMod \in Nat \ {0} /\ HalfMod = B * B /\ WordMod = HalfMod * HalfMod
    BY Moduli
  <1>2. b[0] \in 0 .. B - 1 /\ b[1] \in 0 .. B - 1 /\ b[2] \in 0 .. B - 1 /\ b[3] \in 0 .. B - 1
    BY DEF Byte
  <1> HIDE DEF B
  <1>3. p \in 0 .. B * B - 1
    BY <1>1, <1>2, TwoFit
  <1> HIDE DEF p
  <1>4. q \in 0 .. B * (B * B) - 1
    BY <1>1, <1>2, <1>3, TwoFit
  <1> HIDE DEF q
  <1>5. B * (B * B) \in Nat \ {0} /\ B * (B * (B * B)) = (B * B) * (B * B)
    BY <1>1, SMT
  <1>6. b[0] + B * q \in 0 .. B * (B * (B * B)) - 1
    BY <1>1, <1>2, <1>4, <1>5, TwoFit
  <1>7. OfBytes(b) = b[0] + B * q
    BY DEF OfBytes, B, p, q
  <1> QED
    BY <1>1, <1>5, <1>6, <1>7 DEF Word

\* The halves of a word.
LEMMA HalfIsHalf ==
  ASSUME NEW w \in Word, NEW i \in 0 .. 1
  PROVE  HalfOf(w, i) \in 0 .. HalfMod - 1
  <1>1. w \in Nat
    BY Moduli DEF Word
  <1>2. \A M \in Nat \ {0} : (w \div (M^i)) % M \in 0 .. M - 1
    BY <1>1
  <1> QED
    BY <1>2, Moduli DEF HalfOf

\* A sign extension is a word, and a value read as signed an integer.
LEMMA ExtendFits ==
  ASSUME NEW x \in Int, NEW m \in Int
  PROVE  SignExtend(x, m) \in Word /\ Signed(x, m) \in Int
  <1>1. Signed(x, m) \in Int
    BY DEF Signed
  <1> QED
    BY <1>1, Ranges DEF SignExtend

\* The lanes of a vector, and the vector packed from lanes.
LEMMA LaneWidths ==
  ASSUME NEW sew \in 0 .. 3
  PROVE  /\ LaneMod(sew) \in Nat \ {0}
         /\ sew = 0 => LaneMod(sew) = ByteMod /\ LanesPerWord(sew) = 4 /\ Lanes(sew) = 0 .. 7
         /\ sew = 1 => LaneMod(sew) = HalfMod /\ LanesPerWord(sew) = 2 /\ Lanes(sew) = 0 .. 3
         /\ sew \in {2, 3} => LaneMod(sew) = WordMod /\ LanesPerWord(sew) = 1 /\ Lanes(sew) = 0 .. 1
  <1>1. CASE sew = 0
    <2>1. LaneMod(sew) = ByteMod /\ LanesPerWord(sew) = 4
      BY <1>1 DEF LaneMod, LanesPerWord, SEW_8, SEW_16
    <2> QED
      BY <1>1, <2>1, Moduli DEF Lanes
  <1>2. CASE sew = 1
    <2>1. LaneMod(sew) = HalfMod /\ LanesPerWord(sew) = 2
      BY <1>2 DEF LaneMod, LanesPerWord, SEW_8, SEW_16
    <2> QED
      BY <1>2, <2>1, Moduli DEF Lanes
  <1>3. CASE sew \in {2, 3}
    <2>1. LaneMod(sew) = WordMod /\ LanesPerWord(sew) = 1
      BY <1>3 DEF LaneMod, LanesPerWord, SEW_8, SEW_16
    <2> QED
      BY <1>3, <2>1, Moduli DEF Lanes
  <1> QED
    BY <1>1, <1>2, <1>3

\* A lane of a vector word has the width of a lane.
LEMMA LaneFits ==
  ASSUME NEW v \in VWord, NEW sew \in 0 .. 3, NEW i \in Lanes(sew)
  PROVE  Lane(v, sew, i) \in 0 .. LaneMod(sew) - 1
  <1>1. v[1] \in Word /\ v[2] \in Word
    BY DEF VWord
  <1>2. i \div LanesPerWord(sew) + 1 \in {1, 2}
    <2>1. CASE sew = 0
      BY <2>1, LaneWidths
    <2>2. CASE sew = 1
      BY <2>2, LaneWidths
    <2>3. CASE sew \in {2, 3}
      BY <2>3, LaneWidths
    <2> QED
      BY <2>1, <2>2, <2>3
  <1>3. v[i \div LanesPerWord(sew) + 1] \in Nat
    BY <1>1, <1>2, Moduli DEF Word
  <1>4. \A x \in Nat : \A k \in Nat : \A M \in Nat \ {0} : (x \div (M^k)) % M \in 0 .. M - 1
    OBVIOUS
  <1>5. LaneMod(sew) \in Nat \ {0} /\ i % LanesPerWord(sew) \in Nat
    BY LaneWidths
  <1> QED
    BY <1>3, <1>4, <1>5 DEF Lane

\* Lanes of their width make a vector word.
LEMMA PackFits ==
  ASSUME NEW sew \in 0 .. 3, NEW lane, \A i \in Lanes(sew) : lane[i] \in 0 .. LaneMod(sew) - 1
  PROVE  Pack(lane, sew) \in VWord
  <1>1. CASE sew = 0
    <2>1. \A i \in 0 .. 7 : lane[i] \in Byte
      BY <1>1, LaneWidths DEF Byte
    <2>2. ASSUME NEW w \in 0 .. 1 PROVE OfBytes([k \in 0 .. 3 |-> lane[4 * w + k]]) \in Word
      <3> DEFINE b == [k \in 0 .. 3 |-> lane[4 * w + k]]
      <3>1. \A k \in 0 .. 3 : 4 * w + k \in 0 .. 7
        OBVIOUS
      <3>2. \A k \in 0 .. 3 : b[k] \in Byte
        BY <2>1, <3>1
      <3> HIDE DEF b
      <3>3. OfBytes(b) \in Word
        BY <3>2, BytesFit
      <3> QED
        BY <3>3 DEF b
    <2>3. Pack(lane, sew) = << OfBytes([k \in 0 .. 3 |-> lane[4 * 0 + k]]),
                               OfBytes([k \in 0 .. 3 |-> lane[4 * 1 + k]]) >>
      BY <1>1 DEF Pack, SEW_8, SEW_16
    <2>4. 0 \in 0 .. 1 /\ 1 \in 0 .. 1
      OBVIOUS
    <2> QED
      BY <2>2, <2>3, <2>4 DEF VWord
  <1>2. CASE sew = 1
    <2>1. \A i \in 0 .. 3 : lane[i] \in 0 .. HalfMod - 1
      BY <1>2, LaneWidths
    <2>2. lane[0] + HalfMod * lane[1] \in Word /\ lane[2] + HalfMod * lane[3] \in Word
      BY <2>1, Moduli, TwoFit DEF Word
    <2>3. Pack(lane, sew) = << lane[0] + HalfMod * lane[1], lane[2] + HalfMod * lane[3] >>
      <3>1. Pack(lane, sew) = << lane[2 * 0] + HalfMod * lane[2 * 0 + 1],
                                 lane[2 * 1] + HalfMod * lane[2 * 1 + 1] >>
        BY <1>2 DEF Pack, SEW_8, SEW_16
      <3>2. 2 * 0 = 0 /\ 2 * 0 + 1 = 1 /\ 2 * 1 = 2 /\ 2 * 1 + 1 = 3
        OBVIOUS
      <3> QED
        BY <3>1, <3>2
    <2> QED
      BY <2>2, <2>3 DEF VWord
  <1>3. CASE sew \in {2, 3}
    <2>1. lane[0] \in Word /\ lane[1] \in Word
      BY <1>3, LaneWidths DEF Word
    <2>2. Pack(lane, sew) = << lane[0], lane[1] >>
      BY <1>3 DEF Pack, SEW_8, SEW_16
    <2> QED
      BY <2>1, <2>2 DEF VWord
  <1> QED
    BY <1>1, <1>2, <1>3

\* The decoder outputs that are not flags.
DataFields == {"imm", "rd", "alu_ctrl", "vec_op", "vec_sew", "vmac_ctrl", "rdwrctr_ctr_id", "mem_mask"}
CtlFits(c) ==
  /\ DataFields \subseteq DOMAIN c
  /\ c.imm \in Word /\ c.rd \in 0 .. 31 /\ c.alu_ctrl \in 0 .. ALU_X
  /\ c.vec_op \in 0 .. 7 /\ c.vec_sew \in 0 .. 3 /\ c.vmac_ctrl \in 0 .. 3
  /\ c.rdwrctr_ctr_id \in 0 .. 3 /\ c.mem_mask \in {"byte", "half", "word", "none"}

\* An upper immediate has twelve zeros below it.
Wide == WordMod >= 4096 /\ NoData \in Word

\* Every output of the decoder has its width (decoder_control.v:98-283).
LEMMA ImmediateFits ==
  ASSUME Wide, NEW f \in Insn
  PROVE  immediate(f) \in Word
  <1> DEFINE f7 == f.funct7
             r2 == f.rs2
             r1 == f.rs1
             rd == f.rd
             f3 == f.funct3
  <1>1. f7 \in 0 .. 127 /\ r2 \in 0 .. 31 /\ r1 \in 0 .. 31 /\ rd \in 0 .. 31 /\ f3 \in 0 .. 7
    BY SMT DEF Insn
  <1> HIDE DEF f7, r2, r1, rd, f3
  <1>2. imm_i(f) \in Word
    <2>1. f7 * 32 + r2 \in Int
      BY <1>1, SMT
    <2>2. SignExtend(f7 * 32 + r2, 4096) \in Word
      BY <2>1, ExtendFits, SMT
    <2> QED
      BY <2>2, SMT DEF imm_i, f7, r2
  <1>3. imm_s(f) \in Word
    <2>1. f7 * 32 + rd \in Int
      BY <1>1, SMT
    <2>2. SignExtend(f7 * 32 + rd, 4096) \in Word
      BY <2>1, ExtendFits, SMT
    <2> QED
      BY <2>2, SMT DEF imm_s, f7, rd
  <1>4. imm_b(f) \in Word
    <2> DEFINE x == (f7 \div 64) * 4096 + (rd % 2) * 2048 + (f7 % 64) * 32 + (rd \div 2) * 2
    <2>1. x \in Int
      BY <1>1, SMT
    <2> HIDE DEF x
    <2>2. SignExtend(x, 8192) \in Word
      BY <2>1, ExtendFits, SMT
    <2> QED
      BY <2>2, SMT DEF imm_b, x, f7, rd
  <1>5. imm_j(f) \in Word
    <2> DEFINE x == (f7 \div 64) * 1048576 + (r1 * 8 + f3) * 4096
                      + (r2 % 2) * 2048 + (f7 % 64) * 32 + (r2 \div 2) * 2
    <2>1. x \in Int
      BY <1>1, SMT
    <2> HIDE DEF x
    <2>2. SignExtend(x, 2097152) \in Word
      BY <2>1, ExtendFits, SMT
    <2> QED
      BY <2>2, SMT DEF imm_j, x, f7, r1, r2, f3
  <1>6. imm_u(f) \in Word
    <2> DEFINE x == ((f7 * 32 + r2) * 32 + r1) * 8 + f3
               K == WordMod \div 4096
    <2>1. x \in Int
      BY <1>1, SMT
    <2>2. WordMod \in Nat /\ WordMod >= 4096
      BY Ranges, SMT DEF Wide
    <2>3. K \in Nat \ {0} /\ K * 4096 <= WordMod
      BY <2>2, SMT
    <2> HIDE DEF x, K
    <2>4. x % K \in 0 .. K - 1
      BY <2>1, <2>3, SMT
    <2>5. (x % K) * 4096 \in 0 .. WordMod - 1
      BY <2>2, <2>3, <2>4, SMT
    <2> QED
      BY <2>5, SMT DEF imm_u, x, K, Word, f7, r1, r2, f3
  <1> QED
    BY <1>2, <1>3, <1>4, <1>5, <1>6, Ranges, SMT DEF immediate

\* The ALU control of every instruction is one of the codes (decoder_control.v).
LEMMA ControlFits ==
  ASSUME NEW f \in Insn
  PROVE  alu_control(f) \in 0 .. ALU_X
  <1>1. f.funct3 \in 0 .. 7 /\ f.funct3 + 1 \in 1 .. 8
    BY DEF Insn
  <1> DEFINE T == << SUB, SUB, ALU_X, ALU_X, SLT, SLT, SLTU, SLTU >>
  <1>2. \A k \in 1 .. 8 : /\ base_alu_ctrl[k] \in 0 .. ALU_X /\ alt_alu_ctrl[k] \in 0 .. ALU_X
                          /\ T[k] \in 0 .. ALU_X
    BY DEF base_alu_ctrl, alt_alu_ctrl, ALU_X, ADD, SUB, SLL, SLT, SLTU, XOR, SRL, SRA, OR, AND
  <1>3. ALU_X \in 0 .. ALU_X /\ ADD \in 0 .. ALU_X /\ SRA \in 0 .. ALU_X
    BY DEF ALU_X, ADD, SRA
  <1>4. /\ base_alu_ctrl[f.funct3 + 1] \in 0 .. ALU_X /\ alt_alu_ctrl[f.funct3 + 1] \in 0 .. ALU_X
        /\ T[f.funct3 + 1] \in 0 .. ALU_X
    BY <1>1, <1>2
  <1> HIDE DEF T
  <1>5. alu_control(f) \in {base_alu_ctrl[f.funct3 + 1], alt_alu_ctrl[f.funct3 + 1], T[f.funct3 + 1],
                            ALU_X, ADD, SRA}
    BY DEF alu_control, T
  <1> QED
    BY <1>3, <1>4, <1>5

\* Every output the decoder latches has its width.
LEMMA DecodeFits ==
  ASSUME Wide, NEW f \in Insn, NEW v \in vmac_controls(f)
  PROVE  CtlFits(Decode(f, v))
  <1> DEFINE d == Decode(f, v)
  <1>1. /\ f.opcode \in 0 .. 127 /\ f.rd \in 0 .. 31 /\ f.funct3 \in 0 .. 7
        /\ f.rs1 \in 0 .. 31 /\ f.rs2 \in 0 .. 31 /\ f.funct7 \in 0 .. 127
    BY DEF Insn
  <1>2. v \in 0 .. 3
    BY <1>1 DEF vmac_controls
  <1>3. vec_operation(f) \in 0 .. 7
    <2>1. vop(f) \in 0 .. 31
      BY <1>1 DEF vop
    <2> QED
      BY <2>1 DEF vec_operation, VOP_VST
  <1>4. f.rs2 % 4 \in 0 .. 3 /\ f.funct7 \div 32 \in 0 .. 3
    BY <1>1
  <1>5. access_width(f) \in {"byte", "half", "word", "none"}
    BY DEF access_width
  <1>6. immediate(f) \in Word /\ alu_control(f) \in 0 .. ALU_X
    BY ImmediateFits, ControlFits
  <1>7. /\ d.imm = immediate(f) /\ d.rd = f.rd /\ d.alu_ctrl = alu_control(f)
        /\ d.vec_op = vec_operation(f) /\ d.vmac_ctrl = v /\ d.rdwrctr_ctr_id = f.rs2 % 4
        /\ d.mem_mask = access_width(f)
        /\ d.vec_sew = IF is_vec_type(f) THEN f.funct7 \div 32 ELSE 0
        /\ DataFields \subseteq DOMAIN d
    BY DEF Decode, DataFields
  <1> HIDE DEF d
  <1>8. CtlFits(d)
    BY <1>1, <1>2, <1>3, <1>4, <1>5, <1>6, <1>7 DEF CtlFits
  <1> QED
    BY <1>8 DEF d

\* A reset of the latched outputs keeps their widths.
LEMMA ResetFits ==
  ASSUME NEW c, CtlFits(c)
  PROVE  CtlFits(CtlReset(c))
  <1> DEFINE d == CtlReset(c)
  <1>1. DOMAIN d = DOMAIN c
    BY DEF CtlReset
  <1>2. /\ "imm" \in DOMAIN c /\ "rd" \in DOMAIN c /\ "alu_ctrl" \in DOMAIN c /\ "vec_op" \in DOMAIN c
        /\ "vec_sew" \in DOMAIN c /\ "vmac_ctrl" \in DOMAIN c /\ "rdwrctr_ctr_id" \in DOMAIN c
        /\ "mem_mask" \in DOMAIN c
    BY DEF CtlFits, DataFields
  <1>3. /\ d.imm = c.imm /\ d.rd = c.rd /\ d.alu_ctrl = c.alu_ctrl /\ d.mem_mask = c.mem_mask
        /\ d.vec_op = 0 /\ d.vec_sew = 0 /\ d.vmac_ctrl = 0 /\ d.rdwrctr_ctr_id = 0
    BY <1>2 DEF CtlReset
  <1> HIDE DEF d
  <1>4. CtlFits(d)
    BY <1>1, <1>3 DEF CtlFits
  <1> QED
    BY <1>4 DEF d

-----------------------------------------------------------------------------
(* The units *)

ValuFits == /\ valu_result \in VWord /\ valu_mul_counter \in 0 .. 2
            /\ valu_prod \in [0 .. 7 -> Int]

\* The product registers a multiplication has filled hold lanes: the ones
\* below four times the counter, of the operation that is running.
ProductsFit(op, sew) ==
  valu_computing /\ op = OP_VMUL =>
    \A i \in Lanes(sew) : i < 4 * valu_mul_counter => valu_prod[i] \in 0 .. LaneMod(sew) - 1

\* The vector ALU's results have the width of its registers (valu.v:182-361).
LEMMA ValuStepFits ==
  ASSUME NEW start \in BOOLEAN, NEW op \in 0 .. 3, NEW sew \in 0 .. 3, NEW a \in VWord, NEW b \in VWord,
         valu_computing \in BOOLEAN, ValuFits, ProductsFit(op, sew), ValuStep(start, op, sew, a, b)
  PROVE  ValuFits' /\ (valu_computing => ProductsFit(op, sew)')
  <1>1. \A i \in Lanes(sew) : Lane(a, sew, i) \in Int /\ Lane(b, sew, i) \in Int
    <2>1. LaneMod(sew) \in Nat
      BY LaneWidths
    <2> QED
      BY <2>1, LaneFits
  <1>2. LaneMod(sew) \in Nat \ {0}
    BY LaneWidths
  <1>3. CASE ValuStart(start)
    BY <1>3 DEF ValuStart, ValuFits
  <1>4. CASE ValuAddSub(op, sew, a, b)
    <2>1. \A n \in Int : n % LaneMod(sew) \in 0 .. LaneMod(sew) - 1
      BY <1>2
    <2>2. vadd_result(a, b, sew) \in VWord
      <3> DEFINE s == [i \in Lanes(sew) |-> (Lane(a, sew, i) + Lane(b, sew, i)) % LaneMod(sew)]
      <3>1. \A i \in Lanes(sew) : s[i] \in 0 .. LaneMod(sew) - 1
        BY <1>1, <2>1
      <3> HIDE DEF s
      <3>2. Pack(s, sew) \in VWord
        BY <3>1, PackFits
      <3> QED
        BY <3>2 DEF vadd_result, s
    <2>3. vsub_result(a, b, sew) \in VWord
      <3> DEFINE s == [i \in Lanes(sew) |-> (Lane(a, sew, i) - Lane(b, sew, i)) % LaneMod(sew)]
      <3>1. \A i \in Lanes(sew) : s[i] \in 0 .. LaneMod(sew) - 1
        BY <1>1, <2>1
      <3> HIDE DEF s
      <3>2. Pack(s, sew) \in VWord
        BY <3>1, PackFits
      <3> QED
        BY <3>2 DEF vsub_result, s
    <2>4. ValuFits'
      BY <1>4, <2>2, <2>3 DEF ValuAddSub, ValuFits
    <2> QED
      BY <1>4, <2>4 DEF ValuAddSub, ProductsFit
  <1>5. CASE ValuMultiply(op, sew, a, b)
    <2>1. /\ valu_computing /\ op \in {2, 3} /\ sew # 3 /\ valu_mul_counter < mul_cycles(sew)
          /\ valu_prod' = [i \in 0 .. 7 |-> IF i \in multiplied_in(valu_mul_counter, sew)
                                            THEN product(op, sew, a, b, i) ELSE valu_prod[i]]
          /\ valu_mul_counter' = valu_mul_counter + 1
          /\ UNCHANGED << valu_computing, valu_result, valu_valid_out >>
      BY <1>5 DEF ValuMultiply, OP_VMUL, OP_VMAC
    <2>2. mul_cycles(sew) \in 1 .. 2 /\ valu_mul_counter \in 0 .. 2
      BY DEF mul_cycles, ValuFits
    <2>3. \A i \in Lanes(sew) : /\ product(op, sew, a, b, i) \in Int
                                /\ op = OP_VMUL => product(op, sew, a, b, i) \in 0 .. LaneMod(sew) - 1
      <3> SUFFICES ASSUME NEW i \in Lanes(sew)
                   PROVE  /\ product(op, sew, a, b, i) \in Int
                          /\ op = OP_VMUL => product(op, sew, a, b, i) \in 0 .. LaneMod(sew) - 1
        OBVIOUS
      <3> DEFINE x == Signed(Lane(a, sew, i), LaneMod(sew))
                 y == Signed(Lane(b, sew, i), LaneMod(sew))
      <3>1. x \in Int /\ y \in Int
        BY <1>1, <1>2, ExtendFits
      <3>2. product(op, sew, a, b, i) = IF op = OP_VMUL THEN (x * y) % LaneMod(sew) ELSE x * y
        BY DEF product
      <3> HIDE DEF x, y
      <3>3. x * y \in Int
        BY <3>1
      <3>4. (x * y) % LaneMod(sew) \in 0 .. LaneMod(sew) - 1
        BY <1>2, <3>3
      <3> QED
        BY <1>2, <3>2, <3>3, <3>4
    <2>4. \A i \in multiplied_in(valu_mul_counter, sew) : i \in Lanes(sew)
      BY DEF multiplied_in
    <2>5. valu_prod' \in [0 .. 7 -> Int]
      <3>1. \A i \in 0 .. 7 : valu_prod[i] \in Int
        BY DEF ValuFits
      <3> QED
        BY <2>1, <2>3, <2>4, <3>1
    <2>6. ValuFits'
      BY <2>1, <2>2, <2>5 DEF ValuFits
    <2>7. ASSUME op = OP_VMUL, NEW i \in Lanes(sew), i < 4 * valu_mul_counter'
          PROVE  valu_prod'[i] \in 0 .. LaneMod(sew) - 1
      <3>1. i \in 0 .. 7
        BY LaneWidths
      <3>2. CASE i \in multiplied_in(valu_mul_counter, sew)
        BY <2>1, <2>3, <2>7, <3>1, <3>2
      <3>3. CASE i \notin multiplied_in(valu_mul_counter, sew)
        <4>1. i < 4 * valu_mul_counter
          BY <2>1, <2>2, <2>7, <3>1, <3>3 DEF multiplied_in
        <4>2. valu_prod'[i] = valu_prod[i]
          BY <2>1, <3>1, <3>3
        <4> QED
          BY <2>1, <2>7, <4>1, <4>2 DEF ProductsFit
      <3> QED
        BY <3>2, <3>3
    <2> QED
      BY <2>6, <2>7 DEF ProductsFit
  <1>6. CASE ValuFinish(op, sew)
    <2>1. /\ valu_computing /\ op \in {2, 3} /\ sew # 3 /\ valu_mul_counter = mul_cycles(sew)
          /\ valu_result' = packed_products(valu_prod, op, sew)
          /\ valu_mul_counter' = 0 /\ ~valu_computing' /\ valu_prod' = valu_prod
      BY <1>6 DEF ValuFinish, OP_VMUL, OP_VMAC
    <2>2. valu_result' \in VWord
      <3>1. CASE op = OP_VMUL
        <4>1. \A i \in Lanes(sew) : i < 4 * valu_mul_counter
          BY <2>1, LaneWidths DEF mul_cycles, SEW_8
        <4>2. \A i \in Lanes(sew) : valu_prod[i] \in 0 .. LaneMod(sew) - 1
          BY <2>1, <3>1, <4>1 DEF ProductsFit
        <4> QED
          BY <2>1, <3>1, <4>2, PackFits DEF packed_products
      <3>2. CASE op # OP_VMUL
        <4> DEFINE p == [i \in Lanes(sew) |-> valu_prod[i] % WordMod]
                   n == 2 * LanesPerWord(sew)
        <4>1. n \in {2, 4, 8} /\ Lanes(sew) = 0 .. n - 1
          <5>1. CASE sew = 0
            <6>1. n = 8 /\ Lanes(sew) = 0 .. 7
              BY <5>1, LaneWidths
            <6> QED
              BY <6>1
          <5>2. CASE sew = 1
            <6>1. n = 4 /\ Lanes(sew) = 0 .. 3
              BY <5>2, LaneWidths
            <6> QED
              BY <6>1
          <5>3. CASE sew = 2
            <6>1. n = 2 /\ Lanes(sew) = 0 .. 1
              BY <5>3, LaneWidths
            <6> QED
              BY <6>1
          <5> QED
            BY <2>1, <5>1, <5>2, <5>3
        <4> HIDE DEF n
        <4>2. \A i \in 0 .. n - 1 : p[i] \in Int
          <5>1. \A i \in 0 .. n - 1 : i \in 0 .. 7
            BY <4>1
          <5>2. \A i \in 0 .. 7 : valu_prod[i] \in Int
            BY DEF ValuFits
          <5>3. \A i \in 0 .. n - 1 : p[i] = valu_prod[i] % WordMod
            BY <4>1
          <5>4. \A m \in Int : m % WordMod \in Int
            BY Moduli
          <5> QED
            BY <5>1, <5>2, <5>3, <5>4
        <4>3. packed_products(valu_prod, op, sew) = << LaneSum(p, n) % WordMod, 0 >>
          BY <3>2 DEF packed_products, n
        <4> HIDE DEF p
        <4>4. LaneSum(p, n) \in Int
          <5>1. CASE n = 2
            BY <4>2, <5>1 DEF LaneSum
          <5>2. CASE n = 4
            BY <4>2, <5>2 DEF LaneSum
          <5>3. CASE n = 8
            BY <4>2, <5>3 DEF LaneSum
          <5> QED
            BY <4>1, <5>1, <5>2, <5>3
        <4>5. LaneSum(p, n) % WordMod \in Word /\ 0 \in Word
          BY <4>4, Ranges
        <4> QED
          BY <2>1, <4>3, <4>5 DEF VWord
      <3> QED
        BY <3>1, <3>2
    <2>3. ValuFits'
      BY <2>1, <2>2 DEF ValuFits
    <2> QED
      BY <2>1, <2>3 DEF ProductsFit
  <1>7. CASE ValuReservedWidth(op, sew)
    BY <1>7 DEF ValuReservedWidth, ValuFits, ProductsFit
  <1>8. CASE ValuIdle(start)
    BY <1>8 DEF ValuIdle, ValuFits
  <1> QED
    BY <1>3, <1>4, <1>5, <1>6, <1>7, <1>8 DEF ValuStep

VmacFits == /\ vmac_result \in Word /\ vmac_cycle_counter \in 0 .. 1
            /\ vmac_mult_results \in [0 .. 3 -> 0 .. HalfMod - 1]

\* The same of the packed unit (vmac.v:52-141).
LEMMA VmacStepFits ==
  ASSUME NEW start \in BOOLEAN, NEW ctrl \in 0 .. 3, NEW a \in Word, NEW b \in Word,
         VmacFits, VmacStep(start, ctrl, a, b)
  PROVE  VmacFits'
  <1>1. \A w \in Word : \A i \in 0 .. 3 : byte_signed(w, i) \in Int
    <2> SUFFICES ASSUME NEW w \in Word, NEW i \in 0 .. 3 PROVE byte_signed(w, i) \in Int
      OBVIOUS
    <2>1. ByteOf(w, i) \in Int /\ ByteMod \in Int
      BY ByteOfIsByte, Moduli DEF Byte
    <2>2. Signed(ByteOf(w, i), ByteMod) \in Int
      BY <2>1, ExtendFits
    <2>3. Signed(ByteOf(w, i), ByteMod) % HalfMod \in 0 .. HalfMod - 1
      BY <2>2, Ranges
    <2> QED
      BY <2>3, Moduli DEF byte_signed
  <1>2. CASE VmacStart(start)
    BY <1>2 DEF VmacStart, VmacFits
  <1>3. CASE VmacAdd(ctrl, a, b)
    <2> DEFINE s == [i \in 0 .. 3 |-> ((byte_signed(a, i) + byte_signed(b, i)) % HalfMod) % ByteMod]
    <2>1. \A i \in 0 .. 3 : s[i] \in Byte
      <3> SUFFICES ASSUME NEW i \in 0 .. 3
                   PROVE  ((byte_signed(a, i) + byte_signed(b, i)) % HalfMod) % ByteMod \in Byte
        OBVIOUS
      <3>1. byte_signed(a, i) + byte_signed(b, i) \in Int
        BY <1>1
      <3>2. (byte_signed(a, i) + byte_signed(b, i)) % HalfMod \in Int
        BY <3>1, Moduli
      <3> QED
        BY <3>2, Ranges
    <2> HIDE DEF s
    <2>2. OfBytes(s) \in Word
      BY <2>1, BytesFit
    <2>3. pvadd_result(a, b) \in Word
      BY <2>2 DEF pvadd_result, s
    <2> QED
      BY <1>3, <2>3 DEF VmacAdd, VmacFits
  <1>4. CASE VmacMultiply(ctrl, a, b)
    <2>1. \A i \in 0 .. 3 : mult_result(a, b, i) \in 0 .. HalfMod - 1
      <3> SUFFICES ASSUME NEW i \in 0 .. 3 PROVE mult_result(a, b, i) \in 0 .. HalfMod - 1
        OBVIOUS
      <3> DEFINE x == byte_signed(a, i)
                 y == byte_signed(b, i)
      <3>1. x \in Int /\ y \in Int
        BY <1>1
      <3> HIDE DEF x, y
      <3>2. x * y \in Int
        BY <3>1
      <3>3. (x * y) % HalfMod \in 0 .. HalfMod - 1
        BY <3>2, Ranges
      <3> QED
        BY <3>3 DEF mult_result, x, y
    <2>2. \A i \in 0 .. 3 : i + 1 \in DOMAIN multiplied_lanes(ctrl) => multiplied_lanes(ctrl)[i + 1] \in 0 .. 3
      <3>1. ctrl # 0
        BY <1>4 DEF VmacMultiply, PVADD
      <3>2. CASE ctrl = 1
        BY <3>2 DEF multiplied_lanes, PVMUL, PVMAC, PVMUL_UPPER
      <3>3. CASE ctrl = 2
        BY <3>3 DEF multiplied_lanes, PVMUL, PVMAC, PVMUL_UPPER
      <3>4. CASE ctrl = 3
        BY <3>4 DEF multiplied_lanes, PVMUL, PVMAC, PVMUL_UPPER
      <3> QED
        BY <3>1, <3>2, <3>3, <3>4
    <2>3. \A i \in 0 .. 3 : vmac_mult_results[i] \in 0 .. HalfMod - 1
      BY DEF VmacFits
    <2>4. /\ vmac_mult_results' =
               [i \in 0 .. 3 |-> IF i + 1 \in DOMAIN multiplied_lanes(ctrl)
                                 THEN mult_result(a, b, multiplied_lanes(ctrl)[i + 1])
                                 ELSE vmac_mult_results[i]]
          /\ vmac_cycle_counter' = 1 /\ vmac_result' = vmac_result
      BY <1>4 DEF VmacMultiply
    <2>5. vmac_mult_results' \in [0 .. 3 -> 0 .. HalfMod - 1]
      BY <2>1, <2>2, <2>3, <2>4
    <2> QED
      BY <2>4, <2>5 DEF VmacFits
  <1>5. CASE VmacGather(ctrl)
    <2> DEFINE m == vmac_mult_results
    <2>1. \A i \in 0 .. 3 : m[i] \in 0 .. HalfMod - 1
      BY DEF VmacFits
    <2>2. gathered(m, ctrl) \in Word
      <3>1. CASE ctrl = PVMAC
        <4>1. \A i \in 0 .. 3 : SignExtend(m[i], HalfMod) \in Int
          <5>1. \A i \in 0 .. 3 : m[i] \in Int
            BY <2>1, Moduli
          <5>2. \A i \in 0 .. 3 : SignExtend(m[i], HalfMod) \in Word
            <6>1. \A x \in Int : SignExtend(x, HalfMod) \in Word
              BY Moduli, ExtendFits
            <6> QED
              BY <5>1, <6>1
          <5> QED
            BY <5>2, Moduli DEF Word
        <4>2. SignExtend(m[0], HalfMod) + SignExtend(m[1], HalfMod)
                + SignExtend(m[2], HalfMod) + SignExtend(m[3], HalfMod) \in Int
          BY <4>1
        <4> QED
          BY <3>1, <4>2, Ranges DEF gathered
      <3>2. CASE ctrl # PVMAC
        <4>1. m[0] \in 0 .. HalfMod - 1 /\ m[1] \in 0 .. HalfMod - 1
          BY <2>1
        <4>2. m[0] + HalfMod * m[1] \in 0 .. HalfMod * HalfMod - 1
          BY <4>1, Moduli, TwoFit
        <4>3. m[1] * HalfMod = HalfMod * m[1]
          BY <4>1, Moduli
        <4> QED
          BY <3>2, <4>2, <4>3, Moduli DEF gathered, Word
      <3> QED
        BY <3>1, <3>2
    <2> QED
      BY <1>5, <2>2 DEF VmacGather, VmacFits
  <1>6. CASE VmacIdle(start)
    BY <1>6 DEF VmacIdle, VmacFits
  <1> QED
    BY <1>2, <1>3, <1>4, <1>5, <1>6 DEF VmacStep

VlsuFits == /\ vlsu_load_data \in VWord /\ vlsu_data_reg \in VWord
            /\ vlsu_addr_reg \in Word /\ vlsu_mem \in BusRequest

\* And of the vector load/store unit (vlsu.v:57-151).
LEMMA VlsuStepFits ==
  ASSUME NEW start \in BOOLEAN, NEW is_store \in BOOLEAN, NEW base \in Word, NEW data \in VWord,
         NEW ready \in BOOLEAN, NEW resp \in BOOLEAN, NEW rdata \in Word,
         vlsu_is_store_reg \in BOOLEAN, VlsuFits,
         VlsuStep(start, is_store, base, data, ready, resp, rdata)
  PROVE  VlsuFits'
  <1>1. CASE VlsuIdle(start, is_store, base, data)
    BY <1>1 DEF VlsuIdle, VlsuFits
  <1>2. CASE VlsuRequest
    <2>1. word_of(vlsu_state) \in {1, 2} /\ 0 \in Word
      BY Ranges DEF word_of
    <2>2. word_addr(vlsu_state) \in Word
      <3>1. vlsu_addr_reg + 4 * (word_of(vlsu_state) - 1) \in Int
        BY <2>1, Moduli DEF VlsuFits, Word
      <3> QED
        BY <3>1, Ranges DEF word_addr
    <2>3. vlsu_data_reg[word_of(vlsu_state)] \in Word
      BY <2>1 DEF VlsuFits, VWord
    <2>4. vlsu_mem' \in BusRequest
      BY <1>2, <2>1, <2>2, <2>3 DEF VlsuRequest, BusRequest
    <2> QED
      BY <1>2, <2>4 DEF VlsuRequest, VlsuFits
  <1>3. CASE VlsuWait(ready, resp, rdata)
    <2>1. vlsu_mem' \in BusRequest
      <3>1. Withdrawn(vlsu_mem) \in BusRequest /\ vlsu_mem \in BusRequest
        BY DEF VlsuFits, Withdrawn, BusRequest
      <3> QED
        BY <1>3, <3>1 DEF VlsuWait
    <2>2. vlsu_data_reg' \in VWord
      <3>1. word_of(vlsu_state) \in {1, 2}
        BY DEF word_of
      <3>2. vlsu_data_reg \in Word \X Word
        BY DEF VlsuFits, VWord
      <3>3. [vlsu_data_reg EXCEPT ![word_of(vlsu_state)] = rdata] \in Word \X Word
        BY <3>1, <3>2
      <3> QED
        BY <1>3, <3>2, <3>3 DEF VlsuWait, VWord
    <2> QED
      BY <1>3, <2>1, <2>2 DEF VlsuWait, VlsuFits
  <1>4. CASE VlsuComplete
    BY <1>4 DEF VlsuComplete, VlsuFits
  <1> QED
    BY <1>1, <1>2, <1>3, <1>4 DEF VlsuStep

-----------------------------------------------------------------------------
(* The memory and the devices *)

MemFits == /\ mem \in [0 .. MemWords - 1 -> Word]
           /\ imem_addr_reg \in Word /\ dmem_addr_reg \in Word /\ dmem_raddr_reg \in Word

\* Byte lanes of two words make a word (sram.v:29-36).
LEMMA SramStepFits ==
  ASSUME MemFits, NEW addr \in Word, NEW req \in BusRequest, SramStep(addr, req), RaddrStep(req)
  PROVE  MemFits'
  <1>1. req.addr \in Word /\ req.wdata \in Word /\ req.wmask \in SUBSET (0 .. 3)
        /\ req.valid \in BOOLEAN /\ req.write \in BOOLEAN
    BY DEF BusRequest
  <1>2. \A old \in Word : Masked(old, req.wdata, req.wmask) \in Word
    <2> SUFFICES ASSUME NEW old \in Word PROVE Masked(old, req.wdata, req.wmask) \in Word
      OBVIOUS
    <2> DEFINE b == [i \in 0 .. 3 |-> ByteOf(IF i \in req.wmask THEN req.wdata ELSE old, i)]
    <2>1. \A i \in 0 .. 3 : b[i] \in Byte
      BY <1>1, ByteOfIsByte
    <2> HIDE DEF b
    <2>2. OfBytes(b) \in Word
      BY <2>1, BytesFit
    <2> QED
      BY <2>2 DEF Masked, b
  <1>3. word_index(req.addr) \in 0 .. MemWords - 1
    <2>1. req.addr \in Nat
      BY <1>1, Moduli DEF Word
    <2>2. \A x \in Nat : \A M \in Nat \ {0} : (x \div 4) % M \in 0 .. M - 1
      OBVIOUS
    <2> QED
      BY <2>1, <2>2, MemWordsAssumption DEF word_index
  <1>4. mem[word_index(req.addr)] \in Word
    BY <1>3 DEF MemFits
  <1>5. Written(mem, req) \in [0 .. MemWords - 1 -> Word]
    <2>1. Masked(mem[word_index(req.addr)], req.wdata, req.wmask) \in Word
      BY <1>2, <1>4
    <2> QED
      BY <1>3, <2>1 DEF MemFits, Written
  <1> QED
    BY <1>1, <1>5 DEF SramStep, RaddrStep, MemFits

DeviceFits == /\ data_to_send \in Byte /\ rx_byte \in Byte /\ uart_resp_data \in Word
              /\ par_rx_latch \in Byte /\ par_tx \in Byte

\* Setting a bit of a byte leaves a byte (uart.v:237).
LEMMA SetBitFits ==
  ASSUME NEW x \in Byte, NEW i \in 0 .. ByteBits - 1, NEW v \in {0, 1}
  PROVE  SetBit(x, i, v) \in Byte
  <1> DEFINE p == 2^i
             k == ByteBits - 1 - i
             K == 2^k
             c == x \div p
             r == x % p
  <1>1. ByteBits \in Nat \ {0} /\ XLEN \in Nat /\ XLEN = 4 * ByteBits /\ i \in Nat /\ k \in Nat
    BY Sizes, ByteBitsOK
  <1>2. p \in Nat \ {0} /\ K \in Nat \ {0}
    <2>1. i \in 0 .. XLEN + 1 /\ k \in 0 .. XLEN + 1
      BY <1>1
    <2> QED
      BY <2>1, PowerStep
  <1>3. ByteMod = p * (2 * K)
    <2>1. i + (k + 1) = ByteBits /\ k + 1 \in Nat /\ i + (k + 1) <= XLEN + 1 /\ k \in 0 .. XLEN
      BY <1>1
    <2>2. 2^(i + (k + 1)) = 2^i * 2^(k + 1)
      BY <1>1, <2>1, PowerAdd
    <2>3. 2^(k + 1) = 2 * 2^k
      BY <2>1, PowerStep
    <2> QED
      BY <2>1, <2>2, <2>3 DEF ByteMod
  <1>4. x \in Nat /\ x < ByteMod /\ Bit(x, i) = c % 2
    BY Moduli DEF Byte, Bit
  <1>5. SetBit(x, i, v) = x + (v - (c % 2)) * p
    BY <1>4 DEF SetBit
  <1> HIDE DEF p, K, k
  <1>6. c \in Nat /\ r \in 0 .. p - 1 /\ x = c * p + r
    BY <1>2, <1>4, Digit
  <1> HIDE DEF c, r
  <1>7. \A y \in Nat, z \in Nat, m \in Nat : y <= z => y * m <= z * m
    BY SMT
  <1>8. c < 2 * K
    <2> SUFFICES ASSUME ~(c < 2 * K) PROVE FALSE
      OBVIOUS
    <2>1. 2 * K \in Nat /\ 2 * K <= c
      BY <1>2, <1>6
    <2>2. (2 * K) * p <= c * p
      BY <1>2, <1>6, <1>7, <2>1
    <2>3. (2 * K) * p = p * (2 * K) /\ c * p \in Nat /\ (2 * K) * p \in Nat
      BY <1>2, <1>6, SMT
    <2> QED
      BY <1>3, <1>4, <1>6, <2>2, <2>3
  <1>9. CASE v = c % 2
    <2>1. SetBit(x, i, v) = x
      <3>1. v - (c % 2) = 0
        BY <1>9
      <3> QED
        BY <1>2, <1>4, <1>5, <3>1
    <2> QED
      BY <2>1
  <1>10. CASE v = 0 /\ c % 2 = 1
    <2>1. c >= 1 /\ SetBit(x, i, v) = x - p
      BY <1>2, <1>4, <1>5, <1>6, <1>10
    <2>2. 1 * p <= c * p
      BY <1>2, <1>6, <1>7, <2>1
    <2>3. c * p \in Nat
      BY <1>2, <1>6
    <2>4. x - p \in Nat /\ x - p < ByteMod
      BY <1>2, <1>4, <1>6, <2>2, <2>3, Moduli
    <2> QED
      BY <2>1, <2>4, Moduli DEF Byte
  <1>11. CASE v = 1 /\ c % 2 = 0
    <2>1. c + 2 <= 2 * K /\ SetBit(x, i, v) = x + p
      <3>1. c + 2 <= 2 * K
        BY <1>2, <1>6, <1>8, <1>11
      <3>2. v - (c % 2) = 1
        BY <1>11
      <3> QED
        BY <1>2, <1>4, <1>5, <3>1, <3>2
    <2>2. (c + 2) * p <= (2 * K) * p
      <3>1. c + 2 \in Nat /\ 2 * K \in Nat
        BY <1>2, <1>6
      <3> QED
        BY <1>2, <1>7, <2>1, <3>1
    <2>3. (c + 2) * p = c * p + 2 * p /\ (2 * K) * p = p * (2 * K) /\ c * p \in Nat
      BY <1>2, <1>6, SMT
    <2>4. x + p < ByteMod /\ x + p \in Nat
      BY <1>2, <1>3, <1>4, <1>6, <2>2, <2>3, Moduli
    <2> QED
      BY <2>1, <2>4, Moduli DEF Byte
  <1> QED
    BY <1>6, <1>9, <1>10, <1>11

\* The bytes and the answers of the ports fit their registers
\* (uart.v:65-95, 104-177, 179-266; top.v:117-144).
LEMMA DeviceStepFits ==
  ASSUME Wide, UartTypeOK, DeviceFits, NEW req \in BusRequest, NEW par_rx_valid \in BOOLEAN,
         NEW par_rx \in Byte, NEW rx \in {0, 1}, DeviceStep(req, par_rx_valid, par_rx, rx)
  PROVE  DeviceFits'
  <1>1. req.addr \in Word /\ req.wdata \in Word /\ req.wdata \in Int
    BY Moduli DEF BusRequest, Word
  <1>2. req.wdata % ByteMod \in Byte /\ 0 \in Byte
    <2>1. req.wdata % ByteMod \in Byte
      BY <1>1, Ranges
    <2>2. 0 \in Byte
      BY Moduli DEF Byte
    <2> QED
      BY <2>1, <2>2
  <1> DEFINE valid == req.valid /\ serial(req.addr)
  <1>3. UartStep(valid, req.write, req.addr, req.wdata, rx)
    BY DEF DeviceStep
  <1> HIDE DEF valid
  <1>4. par_rx_latch' \in Byte /\ par_tx' \in Byte
    BY <1>2 DEF DeviceStep, ParRxStep, ParTxStep, DeviceFits
  <1>5. data_to_send' \in Byte
    BY <1>2, <1>3 DEF UartStep, UartTx, TxIdle, TxHoldBit, TxEndBit, DeviceFits
  <1>6. rx_byte' \in Byte
    <2>1. CASE RxData(rx)
      <3>1. rx_counter \in 0 .. ByteBits - 1 /\ rx_byte \in Byte
        BY DEF UartTypeOK, DeviceFits
      <3>2. SetBit(rx_byte, rx_counter, rx) \in Byte
        BY <3>1, SetBitFits
      <3> QED
        BY <2>1, <3>2 DEF RxData
    <2>2. CASE ~RxData(rx)
      BY <1>2, <1>3, <2>2 DEF UartStep, UartRx, RxIdle, RxCount, RxStart, RxStop, DeviceFits
    <2> QED
      BY <2>1, <2>2
  <1>7. uart_resp_data' \in Word
    <2>1. /\ ByteMod \in Nat /\ HalfMod \in Nat /\ 4 <= ByteMod /\ 4 * ByteMod <= HalfMod
          /\ \A n \in 0 .. HalfMod - 1 : n \in Word
      BY Ranges, Moduli
    <2>2. rx_byte + ByteMod * Flag(rx_byte_valid) \in Word
      <3>1. rx_byte \in 0 .. ByteMod - 1 /\ Flag(rx_byte_valid) \in {0, 1}
        BY DEF DeviceFits, Byte, Flag
      <3>2. rx_byte + ByteMod * Flag(rx_byte_valid) \in 0 .. HalfMod - 1
        BY <2>1, <3>1
      <3> QED
        BY <2>1, <3>2
    <2>3. status \in Word
      <3>1. code(tx_state) \in 0 .. 3 /\ code(rx_state) \in 0 .. 3
        BY CodeIsSmall DEF UartTypeOK
      <3>2. code(rx_state) \in {0, 1, 2, 3}
        BY <3>1
      <3>3. code(tx_state) + ByteMod * code(rx_state) \in 0 .. HalfMod - 1
        BY <2>1, <3>1, <3>2
      <3> QED
        BY <2>1, <3>3 DEF status
    <2>4. NoData \in Word
      BY DEF Wide
    <2> QED
      BY <1>3, <2>2, <2>3, <2>4 DEF UartStep, UartRespond
  <1> QED
    BY <1>4, <1>5, <1>6, <1>7 DEF DeviceFits

\* What the core reads is a word.
LEMMA ReadsFit ==
  ASSUME MemFits, DeviceFits
  PROVE  imem_rdata \in Word /\ dmem_resp_rdata \in Word
  <1>1. \A a \in Word : word_index(a) \in 0 .. MemWords - 1
    <2>1. \A x \in Nat : \A M \in Nat \ {0} : (x \div 4) % M \in 0 .. M - 1
      OBVIOUS
    <2>2. \A a \in Word : a \in Nat
      BY Moduli DEF Word
    <2> QED
      BY <2>1, <2>2, MemWordsAssumption DEF word_index
  <1>2. imem_rdata \in Word /\ sram_dmem_rdata \in Word
    BY <1>1 DEF MemFits, imem_rdata, sram_dmem_rdata
  <1>3. par_rdata(dmem_raddr_reg) \in Word
    <2>1. /\ ByteMod \in Nat /\ HalfMod \in Nat /\ 4 <= ByteMod /\ 4 * ByteMod <= HalfMod
          /\ \A n \in 0 .. HalfMod - 1 : n \in Word
      BY Ranges, Moduli
    <2>2. par_rx_latch \in 0 .. ByteMod - 1 /\ Flag(par_rx_valid_latch) \in {0, 1}
      BY DEF DeviceFits, Byte, Flag
    <2>3. Flag(par_rx_valid_latch) * ByteMod + par_rx_latch \in 0 .. HalfMod - 1
      BY <2>1, <2>2
    <2>4. Flag(par_rx_valid_latch) * ByteMod + par_rx_latch \in Word
      BY <2>1, <2>3
    <2>5. 0 \in Word
      BY Ranges
    <2> QED
      BY <2>4, <2>5, SMT DEF par_rdata
  <1> QED
    BY <1>2, <1>3 DEF dmem_resp_rdata, device_rdata, DeviceFits

-----------------------------------------------------------------------------
(* The core *)

CpuFits ==
  /\ pc_reg \in Word /\ pc_saved \in Word /\ insn_reg \in Word
  /\ rdata1_reg \in Word /\ rdata2_reg \in Word /\ alu_out_reg \in Word /\ mem_data_reg \in Word
  /\ csr \in [CsrNames -> Word] /\ ctr \in [0 .. 3 -> 0 .. CtrMod - 1]
  /\ vs1_data_reg \in VWord /\ vs2_data_reg \in VWord /\ vec_result_reg \in VWord
  /\ regs \in [0 .. 31 -> Word] /\ vregs \in [0 .. 31 -> VWord]
  /\ dreq \in BusRequest /\ CtlFits(ctl)

\* The counters wrap in their width (ucrv32.v:463-474).
LEMMA CountedFits ==
  ASSUME CpuFits, NEW ids
  PROVE  Counted(ids) \in [0 .. 3 -> 0 .. CtrMod - 1]
  <1>1. CtrMod \in Nat \ {0}
    BY CtrModAssumption, Moduli
  <1>2. \A n \in 0 .. CtrMod - 1 : (n + 1) % CtrMod \in 0 .. CtrMod - 1
    BY <1>1
  <1> QED
    BY <1>2 DEF CpuFits, Counted

\* The register files and the adders of the program counter give words.
LEMMA OperandsFit ==
  ASSUME CpuFits
  PROVE  /\ insn_fields \in Insn
         /\ rf_rdata(rs1_index(insn_fields)) \in Word /\ rf_rdata(insn_fields.rs2) \in Word
         /\ vrf_rdata(rs1_index(insn_fields)) \in VWord /\ vrf_rdata(insn_fields.rs2) \in VWord
         /\ pc_plus_4 \in Word /\ pc_plus_imm \in Word
         /\ alu_op1 \in Word /\ alu_op2 \in Word
  <1>1. insn_fields \in Insn
    BY FieldsAssumption DEF CpuFits, insn_fields
  <1>2. insn_fields.rs1 \in 0 .. 31 /\ insn_fields.rs2 \in 0 .. 31
    BY <1>1 DEF Insn
  <1>3. rs1_index(insn_fields) \in 0 .. 31
    BY <1>2 DEF rs1_index
  <1>4. \A i \in 0 .. 31 : rf_rdata(i) \in Word /\ vrf_rdata(i) \in VWord
    BY Ranges DEF rf_rdata, vrf_rdata, CpuFits
  <1>5. pc_plus_4 \in Word /\ pc_plus_imm \in Word
    <2>1. pc_saved \in Word /\ 4 \in Word /\ ctl.imm \in Word /\ 0 \in 0 .. 1
      BY Ranges DEF CpuFits, CtlFits
    <2> QED
      BY <2>1, AdderAdds DEF pc_plus_4, pc_plus_imm
  <1> QED
    BY <1>1, <1>2, <1>3, <1>4, <1>5 DEF alu_op1, alu_op2, CpuFits, CtlFits

\* The request of a load or a store (ucrv32.v:634-664).
LEMMA RequestFits ==
  ASSUME CpuFits, NEW addr \in Word
  PROVE  scalar_request(addr) \in BusRequest
  <1>1. store_data \in Word
    <2>1. rdata2_reg \in Word
      BY DEF CpuFits
    <2>2. CASE ctl.mem_mask = "byte"
      <3> DEFINE b == [i \in 0 .. 3 |-> ByteOf(rdata2_reg, 0)]
      <3>1. \A i \in 0 .. 3 : b[i] \in Byte
        BY <2>1, ByteOfIsByte
      <3> HIDE DEF b
      <3>2. OfBytes(b) \in Word
        BY <3>1, BytesFit
      <3> QED
        BY <2>2, <3>2 DEF store_data, b
    <2>3. CASE ctl.mem_mask = "half"
      <3> DEFINE h == HalfOf(rdata2_reg, 0)
      <3>1. h \in 0 .. HalfMod - 1
        BY <2>1, HalfIsHalf
      <3> HIDE DEF h
      <3>2. h + HalfMod * h \in 0 .. HalfMod * HalfMod - 1
        BY <3>1, Moduli, TwoFit
      <3>3. h * (1 + HalfMod) = h + HalfMod * h
        BY <3>1, Moduli
      <3>4. h * (1 + HalfMod) \in Word
        BY <3>2, <3>3, Moduli DEF Word
      <3>5. ctl.mem_mask # "byte"
        BY <2>3
      <3> QED
        BY <2>3, <3>4, <3>5 DEF store_data, h
    <2>4. CASE ctl.mem_mask \notin {"byte", "half"}
      BY <2>1, <2>4 DEF store_data
    <2> QED
      BY <2>2, <2>3, <2>4
  <1>2. store_lanes(addr) \in SUBSET (0 .. 3)
    <2>1. addr % 4 \in 0 .. 3
      BY Moduli DEF Word
    <2>2. {addr % 4} \in SUBSET (0 .. 3) /\ {0, 1} \in SUBSET (0 .. 3) /\ {2, 3} \in SUBSET (0 .. 3)
          /\ 0 .. 3 \in SUBSET (0 .. 3)
      BY <2>1
    <2>3. store_lanes(addr) \in {{addr % 4}, {0, 1}, {2, 3}, 0 .. 3}
      BY DEF store_lanes
    <2> QED
      BY <2>2, <2>3
  <1>3. CASE ctl.mem_write
    BY <1>1, <1>2, <1>3 DEF scalar_request, BusRequest
  <1>4. CASE ~ctl.mem_write
    <2>1. dreq \in BusRequest
      BY DEF CpuFits
    <2>2. [dreq EXCEPT !.addr = addr, !.write = FALSE, !.valid = TRUE] \in BusRequest
      BY <2>1 DEF BusRequest
    <2> QED
      BY <1>4, <2>2 DEF scalar_request
  <1> QED
    BY <1>3, <1>4

\* A loaded byte or half, extended or not, is a word (ucrv32.v:365-386).
LEMMA ExtendedFits ==
  ASSUME CpuFits
  PROVE  mem_data_extended \in Word
  <1>1. mem_data_reg \in Word /\ alu_out_reg \in Nat
    BY Moduli DEF CpuFits, Word
  <1> DEFINE p == alu_out_reg % 4
             q == (alu_out_reg \div 2) % 2
  <1>2. p \in 0 .. 3 /\ q \in 0 .. 1
    BY <1>1
  <1> HIDE DEF p, q
  <1> DEFINE byte == ByteOf(mem_data_reg, p)
             half == HalfOf(mem_data_reg, q)
  <1>3. byte \in Byte /\ half \in 0 .. HalfMod - 1
    BY <1>1, <1>2, ByteOfIsByte, HalfIsHalf
  <1> HIDE DEF byte, half
  <1>4. byte \in Word /\ half \in Word
    BY <1>3, Ranges
  <1>5. SignExtend(byte, ByteMod) \in Word /\ SignExtend(half, HalfMod) \in Word
    <2>1. byte \in Int /\ half \in Int /\ ByteMod \in Int /\ HalfMod \in Int
      BY <1>3, Moduli DEF Byte
    <2> QED
      BY <2>1, ExtendFits
  <1>6. mem_data_extended \in {byte, half, SignExtend(byte, ByteMod), SignExtend(half, HalfMod), mem_data_reg}
    BY DEF mem_data_extended, byte, half, p, q
  <1> QED
    BY <1>1, <1>4, <1>5, <1>6

\* What WB writes (ucrv32.v:365-418).
LEMMA WritebackFits ==
  ASSUME CpuFits
  PROVE  RegsWritten \in [0 .. 31 -> Word] /\ VregsWritten \in [0 .. 31 -> VWord]
  <1>1. mem_data_extended \in Word
    BY ExtendedFits
  <1>2. wb_data \in Word
    BY <1>1, OperandsFit DEF wb_data, CpuFits
  <1>3. ctl.rd \in 0 .. 31 /\ vec_result_reg \in VWord
    BY DEF CpuFits, CtlFits
  <1> QED
    BY <1>2, <1>3 DEF RegsWritten, VregsWritten, CpuFits

\* No request on the bus, and a request withdrawn, are requests.
LEMMA RestFits ==
  ASSUME NEW r \in BusRequest
  PROVE  NoRequest \in BusRequest /\ Withdrawn(r) \in BusRequest
  BY Ranges DEF NoRequest, Withdrawn, BusRequest

\* Every register the core loads at a clock edge gets a value of its width
\* (ucrv32.v:463-707).
LEMMA CpuStepFits ==
  ASSUME Wide, ControlTypeOK, CpuFits, NEW word \in Word, NEW ready \in BOOLEAN, NEW resp \in BOOLEAN,
         NEW rdata \in Word, valu_result \in VWord, vmac_result \in Word, vlsu_load_data \in VWord,
         CpuStep(word, ready, resp, rdata)
  PROVE  CpuFits'
  <1>1. \A ids : Counted(ids) \in [0 .. 3 -> 0 .. CtrMod - 1]
    BY CountedFits
  <1>2. /\ insn_fields \in Insn
        /\ rf_rdata(rs1_index(insn_fields)) \in Word /\ rf_rdata(insn_fields.rs2) \in Word
        /\ vrf_rdata(rs1_index(insn_fields)) \in VWord /\ vrf_rdata(insn_fields.rs2) \in VWord
        /\ pc_plus_4 \in Word /\ pc_plus_imm \in Word
        /\ alu_op1 \in Word /\ alu_op2 \in Word
    BY OperandsFit
  <1>3. CASE CpuFetch(word)
    BY <1>1, <1>3 DEF CpuFetch, CpuFits, dataRegs, vectorOps, files
  <1>4. CASE CpuDecode
    <2>1. CtlFits(ctl')
      <3>1. PICK v \in vmac_controls(insn_fields) : ctl' = Decode(insn_fields, v)
        BY <1>4 DEF CpuDecode
      <3> QED
        BY <1>2, <3>1, DecodeFits
    <2> QED
      BY <1>1, <1>2, <1>4, <2>1 DEF CpuDecode, CpuFits, files
  <1>5. CASE ExecRdwrctr
    <2>1. ctl.rdwrctr_ctr_id \in 0 .. 3 /\ rdata1_reg \in Nat /\ CtrMod \in Nat \ {0} /\ CtrMod <= WordMod
      BY CtrModAssumption, Moduli DEF CpuFits, CtlFits, Word
    <2>2. rdata1_reg % CtrMod \in 0 .. CtrMod - 1
      BY <2>1
    <2>3. ctr[ctl.rdwrctr_ctr_id] \in 0 .. CtrMod - 1
      BY <2>1 DEF CpuFits
    <2>4. ctr[ctl.rdwrctr_ctr_id] \in Word
      BY <2>1, <2>3, Moduli DEF Word
    <2>5. ctr' \in [0 .. 3 -> 0 .. CtrMod - 1]
      <3>1. Counted({CYCLE}) \in [0 .. 3 -> 0 .. CtrMod - 1]
        BY <1>1
      <3>2. [Counted({CYCLE}) EXCEPT ![ctl.rdwrctr_ctr_id] = rdata1_reg % CtrMod] \in [0 .. 3 -> 0 .. CtrMod - 1]
        BY <2>1, <2>2, <3>1
      <3> QED
        BY <1>5, <3>1, <3>2 DEF ExecRdwrctr
    <2> QED
      BY <1>2, <1>5, <2>4, <2>5 DEF ExecRdwrctr, CpuFits, dataRegs, vectorOps, files
  <1>6. CASE ExecVectorWait
    BY <1>1, <1>6 DEF ExecVectorWait, CpuFits, dataRegs, vectorOps, files
  <1>7. CASE ExecVectorDone
    <2>1. valu_result[1] \in Word
      BY DEF VWord
    <2>2. vec_result_reg' \in VWord
      BY <1>7 DEF ExecVectorDone, CpuFits
    <2> QED
      BY <1>1, <1>2, <1>7, <2>1, <2>2 DEF ExecVectorDone, CpuFits, dataRegs, vectorOps, files
  <1>8. CASE ExecVmacWait
    BY <1>1, <1>8 DEF ExecVmacWait, CpuFits, dataRegs, vectorOps, files
  <1>9. CASE ExecVmacDone
    BY <1>1, <1>2, <1>9 DEF ExecVmacDone, CpuFits, dataRegs, vectorOps, files
  <1>10. CASE ExecScalar
    <2>1. PICK c \in alu_controls :
            /\ alu_out_reg' = alu_out(alu_op1, alu_op2, c)
            /\ pc_reg' = scalar_target(alu_out(alu_op1, alu_op2, c))
            /\ dreq' = IF ctl.mem_read \/ ctl.mem_write
                       THEN scalar_request(alu_out(alu_op1, alu_op2, c)) ELSE dreq
      BY <1>10 DEF ExecScalar
    <2> DEFINE out == alu_out(alu_op1, alu_op2, c)
    <2>2. out \in Word
      BY <1>2, AluIsWord
    <2> HIDE DEF out
    <2>3. scalar_request(out) \in BusRequest
      BY <2>2, RequestFits
    <2>4. out - (out % 2) \in Word
      BY <2>2, Moduli DEF Word
    <2>5. scalar_target(out) \in Word
      BY <1>2, <2>4 DEF scalar_target, CpuFits
    <2>6. alu_out_reg' \in Word /\ pc_reg' \in Word /\ dreq' \in BusRequest
      BY <2>1, <2>2, <2>3, <2>5 DEF out, CpuFits
    <2> QED
      BY <1>1, <1>10, <2>6 DEF ExecScalar, CpuFits, dataRegs, vectorOps, files
  <1>11. CASE MemAccept(ready)
    <2>1. Withdrawn(dreq) \in BusRequest
      BY RestFits DEF CpuFits
    <2> QED
      BY <1>1, <1>2, <1>11, <2>1 DEF MemAccept, CpuFits, dataRegs, vectorOps, files
  <1>12. CASE MemAwait(ready, resp, rdata)
    BY <1>1, <1>2, <1>12 DEF MemAwait, CpuFits, dataRegs, vectorOps, files
  <1>13. CASE CpuWriteback
    <2>1. CtlFits(ctl')
      BY <1>13 DEF CpuWriteback, CpuFits, CtlFits, DataFields
    <2>2. csr' \in [CsrNames -> Word]
      <3>1. csr_addr \in DOMAIN csr_at => csr_at[csr_addr] \in CsrNames
        BY DEF csr_at, CsrNames
      <3> QED
        BY <1>13, <3>1 DEF CpuWriteback, CpuFits
    <2> QED
      BY <1>1, <1>13, <2>1, <2>2, WritebackFits DEF CpuWriteback, CpuFits, dataRegs, vectorOps
  <1> QED
    BY <1>3, <1>4, <1>5, <1>6, <1>7, <1>8, <1>9, <1>10, <1>11, <1>12, <1>13 DEF CpuStep

-----------------------------------------------------------------------------
(* Every register keeps its width *)

\* The inductive invariant of the data: the registers fit, and so do the
\* product registers of the multiplication the vector ALU is in.
DataInv == /\ CpuFits /\ ValuFits /\ VmacFits /\ VlsuFits /\ MemFits /\ DeviceFits
           /\ ProductsFit(ctl.vec_op % 4, ctl.vec_sew)

\* The state after the power-on reset fits.
LEMMA InitFits == ASSUME Wide, Init PROVE DataInv
  <1>1. 0 \in Word /\ << 0, 0 >> \in VWord /\ NoRequest \in BusRequest /\ 0 \in Byte
        /\ CtrMod \in Nat \ {0} /\ HalfMod \in Nat \ {0} /\ NoData \in Word
    <2>1. NoRequest \in BusRequest
      BY Ranges DEF NoRequest, BusRequest
    <2>2. 0 \in Byte
      BY Moduli DEF Byte
    <2> QED
      BY <2>1, <2>2, Ranges, CtrModAssumption, Moduli DEF Wide
  <1>2. CtlFits(NopCtl)
    <2> DEFINE nop == [opcode |-> OP, rd |-> 0, funct3 |-> 0, rs1 |-> 0, rs2 |-> 0, funct7 |-> 0]
    <2>1. nop \in Insn /\ 0 \in vmac_controls(nop)
      BY DEF Insn, OP, vmac_controls
    <2> HIDE DEF nop
    <2>2. CtlFits(CtlReset(Decode(nop, 0)))
      BY <2>1, DecodeFits, ResetFits
    <2> QED
      BY <2>2 DEF nop, NopCtl
  <1>3. CpuFits
    <2>1. regs \in [0 .. 31 -> Word]
      BY RegInitsAssumption DEF Init, CpuInit
    <2>2. csr \in [CsrNames -> Word] /\ ctr \in [0 .. 3 -> 0 .. CtrMod - 1] /\ vregs \in [0 .. 31 -> VWord]
      BY <1>1 DEF Init, CpuInit
    <2> QED
      BY <1>1, <1>2, <2>1, <2>2 DEF Init, CpuInit, CpuFits
  <1>4. ValuFits /\ ProductsFit(ctl.vec_op % 4, ctl.vec_sew)
    BY <1>1 DEF Init, ValuInit, ValuFits, ProductsFit
  <1>5. VmacFits /\ VlsuFits
    BY <1>1 DEF Init, VmacInit, VlsuInit, VmacFits, VlsuFits
  <1>6. MemFits /\ DeviceFits
    BY <1>1, ProgramsAssumption DEF Init, DeviceInit, UartInit, ParInit, MemFits, DeviceFits
  <1> QED
    BY <1>3, <1>4, <1>5, <1>6 DEF DataInv

\* A product register is only kept over an edge in which the core stays in
\* EXEC, on the instruction the product is for: that is the handshake.
LEMMA EdgeFits == ASSUME Wide, Inv, DataInv, ClockEdge PROVE DataInv'
  <1>1. ControlTypeOK /\ UartTypeOK /\ UnitHandshake
    BY DEF Inv, ControlTypeOK
  <1>2. CpuFits /\ ValuFits /\ VmacFits /\ VlsuFits /\ MemFits /\ DeviceFits
        /\ ProductsFit(ctl.vec_op % 4, ctl.vec_sew)
    BY DEF DataInv
  <1>3. imem_rdata \in Word /\ dmem_resp_rdata \in Word
    BY <1>2, ReadsFit
  <1>4. /\ dmem_req_ready \in BOOLEAN /\ dmem_resp_valid \in BOOLEAN
        /\ vec_valid_in_reg \in BOOLEAN /\ vmac_valid_in_reg \in BOOLEAN /\ vlsu_start_reg \in BOOLEAN
        /\ ctl.is_vec_store \in BOOLEAN /\ valu_computing \in BOOLEAN /\ vlsu_is_store_reg \in BOOLEAN
        /\ (vec_valid_in_reg /\ ~vec_mem_op) \in BOOLEAN
    BY <1>1 DEF ControlTypeOK, ControlFlags, UartTypeOK, dmem_resp_valid, dmem_req_ready
  <1>5. dmem_req \in BusRequest /\ pc_reg \in Word
    BY <1>2 DEF dmem_req, CpuFits, VlsuFits
  <1>6. /\ ctl.vec_op % 4 \in 0 .. 3 /\ ctl.vec_sew \in 0 .. 3 /\ ctl.vmac_ctrl \in 0 .. 3
        /\ vs1_data_reg \in VWord /\ vs2_data_reg \in VWord /\ rdata1_reg \in Word /\ rdata2_reg \in Word
    BY <1>2 DEF CpuFits, CtlFits
  <1>7. CpuFits'
    <2>1. CpuStep(imem_rdata, dmem_req_ready, dmem_resp_valid, dmem_resp_rdata)
      BY DEF ClockEdge
    <2>2. valu_result \in VWord /\ vmac_result \in Word /\ vlsu_load_data \in VWord
      BY <1>2 DEF ValuFits, VmacFits, VlsuFits
    <2> QED
      BY <1>1, <1>2, <1>3, <1>4, <2>1, <2>2, CpuStepFits
  <1>8. /\ ValuStep(vec_valid_in_reg /\ ~vec_mem_op, ctl.vec_op % 4, ctl.vec_sew,
                    vs1_data_reg, vs2_data_reg)
        /\ VmacStep(vmac_valid_in_reg, ctl.vmac_ctrl, rdata1_reg, rdata2_reg)
        /\ VlsuStep(vlsu_start_reg, ctl.is_vec_store, rdata1_reg, vs2_data_reg,
                    dmem_req_ready, dmem_resp_valid, dmem_resp_rdata)
    BY DEF ClockEdge, UnitSteps
  <1>9. ValuFits' /\ ProductsFit(ctl.vec_op % 4, ctl.vec_sew)'
    <2> DEFINE op == ctl.vec_op % 4
               sew == ctl.vec_sew
    <2>1. /\ ValuFits'
          /\ valu_computing => (valu_computing' /\ op = OP_VMUL =>
               \A i \in Lanes(sew) : i < 4 * valu_mul_counter' => valu_prod'[i] \in 0 .. LaneMod(sew) - 1)
      BY <1>2, <1>4, <1>6, <1>8, ValuStepFits DEF ProductsFit
    <2>2. CASE valu_computing
      <3>1. cpu_state = "EXEC"
        BY <1>1, <2>2 DEF UnitHandshake, OnVector, NoneOf
      <3>2. ctl' = ctl
        BY <3>1 DEF ClockEdge, CpuStep, CpuFetch, CpuDecode, ExecRdwrctr, ExecVectorWait, ExecVectorDone,
           ExecVmacWait, ExecVmacDone, ExecScalar, MemAccept, MemAwait, CpuWriteback
      <3> QED
        BY <2>1, <2>2, <3>2 DEF ProductsFit
    <2>3. CASE ~valu_computing
      <3>1. valu_computing' => valu_mul_counter' = 0
        BY <1>8, <2>3 DEF ValuStep, ValuStart, ValuAddSub, ValuMultiply, ValuFinish, ValuReservedWidth, ValuIdle
      <3>2. ctl'.vec_sew \in 0 .. 3
        BY <1>7 DEF CpuFits, CtlFits
      <3>3. \A i \in Lanes(ctl'.vec_sew) : i \in Nat
        BY <3>2, LaneWidths
      <3>4. valu_computing' => \A i \in Lanes(ctl'.vec_sew) : ~(i < 4 * valu_mul_counter')
        BY <3>1, <3>3
      <3> QED
        BY <2>1, <3>4 DEF ProductsFit
    <2> QED
      BY <1>4, <2>2, <2>3, <2>1
  <1>10. VmacFits'
    BY <1>2, <1>4, <1>6, <1>8, VmacStepFits
  <1>11. VlsuFits'
    BY <1>2, <1>3, <1>4, <1>6, <1>8, VlsuStepFits, SMTT(30)
  <1>12. MemFits'
    <2>1. SramStep(pc_reg, dmem_req) /\ RaddrStep(dmem_req)
      BY DEF ClockEdge
    <2> QED
      BY <1>2, <1>5, <2>1, SramStepFits
  <1>13. DeviceFits'
    <2>1. PICK par_rx_valid \in BOOLEAN, par_rx \in RxBytes, rx \in RxLevels :
            DeviceStep(dmem_req, par_rx_valid, par_rx, rx)
      BY DEF ClockEdge
    <2>2. par_rx \in Byte /\ rx \in {0, 1}
      BY RxBytesAssumption
    <2> QED
      BY <1>1, <1>2, <1>5, <2>1, <2>2, DeviceStepFits
  <1> QED
    BY <1>7, <1>9, <1>10, <1>11, <1>12, <1>13 DEF DataInv

\* A reset clears or keeps, and lets a write of WB in.
LEMMA ResetKeepsFit == ASSUME Wide, DataInv, ResetEdge PROVE DataInv'
  <1>1. CpuFits /\ ValuFits /\ VmacFits /\ VlsuFits /\ MemFits /\ DeviceFits
    BY DEF DataInv
  <1>2. /\ 0 \in Word /\ << 0, 0 >> \in VWord /\ NoRequest \in BusRequest /\ 0 \in Byte
        /\ Withdrawn(dreq) \in BusRequest /\ CtrMod \in Nat \ {0} /\ NoData \in Word
    <2>1. dreq \in BusRequest
      BY <1>1 DEF CpuFits
    <2>2. 0 \in Byte
      BY Moduli DEF Byte
    <2>3. NoRequest \in BusRequest /\ Withdrawn(dreq) \in BusRequest
      BY <2>1, RestFits
    <2>4. CtrMod \in Nat \ {0}
      BY CtrModAssumption, Moduli
    <2> QED
      BY <2>2, <2>3, <2>4, Ranges DEF Wide
  <1>3. CpuFits'
    <2>1. CpuReset
      BY DEF ResetEdge
    <2>2. CtlFits(ctl')
      BY <1>1, <2>1, ResetFits DEF CpuReset, CpuFits
    <2>3. csr' \in [CsrNames -> Word] /\ ctr' \in [0 .. 3 -> 0 .. CtrMod - 1]
      BY <1>2, <2>1 DEF CpuReset
    <2>4. regs' \in [0 .. 31 -> Word] /\ vregs' \in [0 .. 31 -> VWord]
      BY <1>1, <2>1, WritebackFits DEF CpuReset, CpuFits
    <2> QED
      BY <1>1, <1>2, <2>1, <2>2, <2>3, <2>4 DEF CpuReset, CpuFits, dataRegs
  <1>4. ValuFits' /\ ProductsFit(ctl.vec_op % 4, ctl.vec_sew)'
    BY <1>1, <1>2 DEF ResetEdge, UnitResets, ValuReset, ValuFits, ProductsFit
  <1>5. VmacFits' /\ VlsuFits'
    BY <1>1, <1>2 DEF ResetEdge, UnitResets, VmacReset, VlsuReset, VmacFits, VlsuFits
  <1>6. MemFits'
    <2>1. dmem_req \in BusRequest /\ pc_reg \in Word
      BY <1>1 DEF dmem_req, CpuFits, VlsuFits
    <2>2. SramStep(pc_reg, dmem_req) /\ RaddrStep(dmem_req)
      BY DEF ResetEdge
    <2> QED
      BY <1>1, <2>1, <2>2, SramStepFits
  <1>7. DeviceFits'
    BY <1>1, <1>2 DEF ResetEdge, DeviceReset, ParReset, UartReset, DeviceFits
  <1> QED
    BY <1>3, <1>4, <1>5, <1>6, <1>7 DEF DataInv

\* Every step keeps every datum within its width.
LEMMA DataStaysFit == ASSUME Wide PROVE Spec => []DataInv
  <1>1. Init => DataInv
    BY InitFits
  <1>2. Inv /\ DataInv /\ [Next]_vars => DataInv'
    <2> SUFFICES ASSUME Inv, DataInv, [Next]_vars PROVE DataInv'
      OBVIOUS
    <2>1. CASE ClockEdge
      BY <2>1, EdgeFits
    <2>2. CASE ResetEdge
      BY <2>2, ResetKeepsFit
    <2>3. CASE UNCHANGED vars
      BY <2>3 DEF vars, cpuVars, valuVars, vmacVars, vlsuVars, sramVars, deviceVars, uartVars, txVars,
         rxVars, parVars, dataRegs, vectorOps, files, DataInv, CpuFits, ValuFits, VmacFits, VlsuFits,
         MemFits, DeviceFits, ProductsFit
    <2> QED
      BY <2>1, <2>2, <2>3 DEF Next
  <1> QED
    BY <1>1, <1>2, Invariance, PTL DEF Spec

\* Every register of the design holds a value of its width, whatever the
\* program, the contents of the register file and of memory, the bytes
\* that arrive and the placing of resets, for words of twelve bits and
\* more: no sum, product, shift, immediate, lane or counter of the
\* datapath leaves its register's range.
THEOREM TypeCorrect == ASSUME Wide PROVE Spec => []TypeOK
  <1>1. Inv /\ DataInv => TypeOK
    BY DEF Inv, DataInv, TypeOK, DataTypeOK, CpuFits, ValuFits, VmacFits, VlsuFits, MemFits, DeviceFits,
       CtlFits
  <1> QED
    BY <1>1, Invariance, DataStaysFit, PTL
=============================================================================
