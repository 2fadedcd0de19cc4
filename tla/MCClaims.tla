------------------------------- MODULE MCClaims ------------------------------
(***************************************************************************)
(* What the firmware's tests and the comments of the sources say of the    *)
(* CSRs and of the counters, on programs that exercise them.               *)
(***************************************************************************)
EXTENDS MCTop

Program(insns) ==
  { Image(p) : p \in { q \in [DOMAIN insns -> DOMAIN InsnTable] :
                         \A i \in DOMAIN insns : InsnTable[q[i]] = insns[i] } }

CsrProgram     == Program(<< Csrs[1], Csrs[2] >>)
CounterProgram == Program(<< AddiX2, CtrWriteRd >>)

\* sw/test/main.c:38 reads mepc back with csrr after writing it
\* (read_val2 == test_val2): a CSR read in WB hands the register's value to
\* the destination (ucrv32.v:76-98, 413-418).
CsrReadsBack ==
  cpu_state = "WB" /\ insn_fields.opcode = SYSTEM /\ insn_fields.funct3 = 2
    /\ csr_addr \in DOMAIN csr_at
  => wb_data = csr[csr_at[csr_addr]]

\* decoder_control.v:232 says reg_write takes in the RDWRCTR read and not
\* the write: a counter write leaves every scalar register alone
\* (decoder_control.v:234, ucrv32.v:535-557).
CounterWriteKeepsRegs ==
  cpu_state = "WB" /\ ctl.is_rdwrctr /\ ctl.rdwrctr_wen => RegsWritten = regs
=============================================================================
