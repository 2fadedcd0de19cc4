--------------------------------- MODULE Sram --------------------------------
(***************************************************************************)
(* The two-ported memory (sram.v).  Both ports register the address and    *)
(* read the array combinationally from the registered address, so a read   *)
(* is answered in the next cycle and sees writes made since.  Neither the  *)
(* array nor these registers are reset.                                    *)
(***************************************************************************)
EXTENDS Words

CONSTANT MemWords      \* 32'h00400000 in sram.v

ASSUME MemWordsAssumption == MemWords \in Nat \ {0}

VARIABLES
  mem,
  imem_addr_reg,
  dmem_addr_reg,
  dmem_resp_valid_reg

sramVars == << mem, imem_addr_reg, dmem_addr_reg, dmem_resp_valid_reg >>

\* addr[23:2]: the low two bits and the bits above the array are ignored.
word_index(addr) == (addr \div 4) % MemWords

imem_rdata == mem[word_index(imem_addr_reg)]
sram_dmem_rdata == mem[word_index(dmem_addr_reg)]

\* A word with the byte lanes of mask taken from data.
Masked(old, data, mask) ==
  OfBytes([i \in 0 .. 3 |-> ByteOf(IF i \in mask THEN data ELSE old, i)])

Written(m, req) ==
  [m EXCEPT ![word_index(req.addr)] = Masked(@, req.wdata, req.wmask)]

\* The same edge with writes answered as well:
SramStep_answers_writes(imem_addr, req) ==
  /\ imem_addr_reg' = imem_addr
  /\ dmem_addr_reg' = IF req.valid /\ ~req.write THEN req.addr ELSE dmem_addr_reg
  /\ dmem_resp_valid_reg' = req.valid
  /\ mem' = IF req.valid /\ req.write THEN Written(mem, req) ELSE mem

\* One clock edge: addr is the instruction address, req the data request.
SramStep(imem_addr, req) ==
  /\ imem_addr_reg' = imem_addr
  /\ dmem_addr_reg' = IF req.valid /\ ~req.write THEN req.addr ELSE dmem_addr_reg
  /\ dmem_resp_valid_reg' = (req.valid /\ ~req.write)
  /\ mem' = IF req.valid /\ req.write THEN Written(mem, req) ELSE mem
=============================================================================
