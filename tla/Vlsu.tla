--------------------------------- MODULE Vlsu --------------------------------
(***************************************************************************)
(* The vector load/store unit (vlsu.v): a 64-bit access as two 32-bit      *)
(* requests on the core's data bus.  A store moves on when its request is  *)
(* accepted, a load when the response arrives while ready is high.         *)
(*                                                                         *)
(* A bus request is a record; its wmask is the set of byte lanes written.  *)
(***************************************************************************)
EXTENDS Words

VARIABLES
  vlsu_state,
  vlsu_done,
  vlsu_load_data,
  vlsu_mem,         \* the registered request: mem_valid, mem_write, ...
  vlsu_addr_reg,
  vlsu_data_reg,
  vlsu_is_store_reg

vlsuVars == << vlsu_state, vlsu_done, vlsu_load_data, vlsu_mem, vlsu_addr_reg,
               vlsu_data_reg, vlsu_is_store_reg >>

VlsuStates == {"IDLE", "REQ_WORD0", "WAIT_WORD0", "REQ_WORD1", "WAIT_WORD1", "COMPLETE"}

BusRequest == [addr : Word, wdata : Word, wmask : SUBSET (0 .. 3),
               write : BOOLEAN, valid : BOOLEAN]
NoRequest == [addr |-> 0, wdata |-> 0, wmask |-> {}, write |-> FALSE, valid |-> FALSE]

\* A request the bus has accepted is taken back; a bug would leave a store's
\* up, which waits for no response.
Withdrawn_loads(req) == IF req.write THEN req ELSE [req EXCEPT !.valid = FALSE]
Withdrawn(req) == [req EXCEPT !.valid = FALSE]

VlsuInit ==
  /\ vlsu_state = "IDLE"
  /\ vlsu_done = FALSE
  /\ vlsu_load_data = << 0, 0 >>
  /\ vlsu_mem = NoRequest
  /\ vlsu_addr_reg = 0
  /\ vlsu_data_reg = << 0, 0 >>
  /\ vlsu_is_store_reg = FALSE

VlsuReset ==
  /\ vlsu_state' = "IDLE"
  /\ vlsu_done' = FALSE
  /\ vlsu_load_data' = << 0, 0 >>
  /\ vlsu_mem' = NoRequest
  /\ vlsu_addr_reg' = 0
  /\ vlsu_data_reg' = << 0, 0 >>
  /\ vlsu_is_store_reg' = FALSE

VlsuIdle(start, is_store, base_addr, store_data) ==
  /\ vlsu_state = "IDLE"
  /\ vlsu_done' = FALSE
  /\ vlsu_state' = IF start THEN "REQ_WORD0" ELSE "IDLE"
  /\ vlsu_addr_reg' = IF start THEN base_addr ELSE vlsu_addr_reg
  /\ vlsu_data_reg' = IF start THEN store_data ELSE vlsu_data_reg
  /\ vlsu_is_store_reg' = IF start THEN is_store ELSE vlsu_is_store_reg
  /\ UNCHANGED << vlsu_load_data, vlsu_mem >>

\* The word of the pair a state works on, and the state after its request.
word_of(state) == IF state \in {"REQ_WORD0", "WAIT_WORD0"} THEN 1 ELSE 2
word_addr(state) == (vlsu_addr_reg + 4 * (word_of(state) - 1)) % WordMod

VlsuRequest ==
  /\ vlsu_state \in {"REQ_WORD0", "REQ_WORD1"}
  /\ vlsu_mem' = [addr  |-> word_addr(vlsu_state),
                  wdata |-> IF vlsu_is_store_reg THEN vlsu_data_reg[word_of(vlsu_state)] ELSE 0,
                  wmask |-> IF vlsu_is_store_reg THEN 0 .. 3 ELSE {},
                  write |-> vlsu_is_store_reg,
                  valid |-> TRUE]
  /\ vlsu_state' = IF vlsu_state = "REQ_WORD0" THEN "WAIT_WORD0" ELSE "WAIT_WORD1"
  /\ UNCHANGED << vlsu_done, vlsu_load_data, vlsu_addr_reg, vlsu_data_reg, vlsu_is_store_reg >>

\* A response is captured whether or not ready is high; only with ready
\* high does it move the unit on.
VlsuWait(ready, resp_valid, resp_rdata) ==
  /\ vlsu_state \in {"WAIT_WORD0", "WAIT_WORD1"}
  /\ vlsu_mem' = IF ready THEN Withdrawn(vlsu_mem) ELSE vlsu_mem
  /\ vlsu_data_reg' = IF ~vlsu_is_store_reg /\ resp_valid
                      THEN [vlsu_data_reg EXCEPT ![word_of(vlsu_state)] = resp_rdata]
                      ELSE vlsu_data_reg
  /\ vlsu_state' = IF ready /\ (vlsu_is_store_reg \/ resp_valid)
                   THEN (IF vlsu_state = "WAIT_WORD0" THEN "REQ_WORD1" ELSE "COMPLETE")
                   ELSE vlsu_state
  /\ UNCHANGED << vlsu_done, vlsu_load_data, vlsu_addr_reg, vlsu_is_store_reg >>

VlsuComplete ==
  /\ vlsu_state = "COMPLETE"
  /\ vlsu_load_data' = IF vlsu_is_store_reg THEN vlsu_load_data ELSE vlsu_data_reg
  /\ vlsu_done' = TRUE
  /\ vlsu_state' = "IDLE"
  /\ UNCHANGED << vlsu_mem, vlsu_addr_reg, vlsu_data_reg, vlsu_is_store_reg >>

VlsuStep(start, is_store, base_addr, store_data, ready, resp_valid, resp_rdata) ==
  \/ VlsuIdle(start, is_store, base_addr, store_data)
  \/ VlsuRequest
  \/ VlsuWait(ready, resp_valid, resp_rdata)
  \/ VlsuComplete
=============================================================================
