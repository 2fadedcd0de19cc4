-------------------------------- MODULE TopIsa -------------------------------
(***************************************************************************)
(* The system implements the instruction set.  An instruction takes effect *)
(* when the core enters WB, with one exception: a vector store takes       *)
(* effect when its first word is written, and its second word is on its    *)
(* way.                                                                    *)
(***************************************************************************)
EXTENDS Top

vst_committed ==
  /\ cpu_state = "EXEC" /\ ctl.is_vec_op /\ ctl.is_vec_store
  /\ vlsu_state \in {"REQ_WORD1", "WAIT_WORD1", "COMPLETE"} \/ vlsu_done

committed == cpu_state = "WB" \/ vst_committed

isa_pc == CASE vst_committed                  -> (pc_saved + 4) % WordMod
            [] cpu_state \in {"FETCH", "WB"}  -> pc_reg
            [] OTHER                          -> pc_saved

isa_m == IF vst_committed
         THEN [mem EXCEPT ![word_index((vlsu_addr_reg + 4) % WordMod)] = vlsu_data_reg[2]]
         ELSE mem

isa_x == IF cpu_state = "WB" THEN RegsWritten ELSE regs
isa_v == IF cpu_state = "WB" THEN VregsWritten ELSE vregs

isa_count == [i \in 1 .. 3 |-> (ctr[i] + Flag(i = INSN /\ committed)) % CtrMod]

isa_brk == break_hit \/ ebreak_hit

ISA == INSTANCE Isa WITH
         pc    <- isa_pc,
         x     <- isa_x,
         v     <- isa_v,
         m     <- isa_m,
         count <- isa_count,
         brk   <- isa_brk

\* Without resets, every behaviour of the core, its units, the bus and the
\* memory (ucrv32.v and everything it instantiates) is a behaviour of the
\* instruction set, whatever the program and whatever order the units'
\* start and completion pulses, the bus mux and the SRAM's one-cycle
\* answers fall in.
ImplementsIsa == ISA!Spec
=============================================================================
