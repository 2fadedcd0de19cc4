--------------------------------- MODULE Vmac --------------------------------
(***************************************************************************)
(* The packed-vector unit of the scalar registers (vmac.v): four signed    *)
(* bytes in each operand; PVADD in one computing cycle, the products in    *)
(* two.  Its inputs are registers of the core and come in as parameters.   *)
(***************************************************************************)
EXTENDS Datapath

VARIABLES
  vmac_cycle_counter,
  vmac_computing,
  vmac_mult_results,
  vmac_result,
  vmac_valid_out

vmacVars == << vmac_cycle_counter, vmac_computing, vmac_mult_results, vmac_result,
               vmac_valid_out >>

VmacInit ==
  /\ vmac_cycle_counter = 0
  /\ vmac_computing = FALSE
  /\ vmac_mult_results = [i \in 0 .. 3 |-> 0]
  /\ vmac_result = 0
  /\ vmac_valid_out = FALSE

VmacReset ==
  /\ vmac_cycle_counter' = 0
  /\ vmac_computing' = FALSE
  /\ vmac_result' = 0
  /\ vmac_valid_out' = FALSE
  /\ UNCHANGED vmac_mult_results

\* Unlike the vector ALU, starting leaves valid_out as it is.
VmacStart(valid_in) ==
  /\ valid_in /\ ~vmac_computing
  /\ vmac_computing' = TRUE
  /\ vmac_cycle_counter' = 0
  /\ UNCHANGED << vmac_mult_results, vmac_result, vmac_valid_out >>

VmacAdd(ctrl, a, b) ==
  /\ vmac_computing
  /\ ctrl = PVADD
  /\ vmac_result' = pvadd_result(a, b)
  /\ vmac_valid_out' = TRUE
  /\ vmac_computing' = FALSE
  /\ UNCHANGED << vmac_cycle_counter, vmac_mult_results >>

VmacMultiply(ctrl, a, b) ==
  /\ vmac_computing
  /\ ctrl # PVADD
  /\ vmac_cycle_counter = 0
  /\ vmac_mult_results' =
       [i \in 0 .. 3 |-> IF i + 1 \in DOMAIN multiplied_lanes(ctrl)
                         THEN mult_result(a, b, multiplied_lanes(ctrl)[i + 1])
                         ELSE vmac_mult_results[i]]
  /\ vmac_cycle_counter' = 1
  /\ UNCHANGED << vmac_computing, vmac_result, vmac_valid_out >>

VmacGather(ctrl) ==
  /\ vmac_computing
  /\ ctrl # PVADD
  /\ vmac_cycle_counter = 1
  /\ vmac_result' = gathered(vmac_mult_results, ctrl)
  /\ vmac_valid_out' = TRUE
  /\ vmac_computing' = FALSE
  /\ vmac_cycle_counter' = 0
  /\ UNCHANGED vmac_mult_results

\* With a completion pulse that is not taken back:
VmacIdle_holds_valid(valid_in) ==
  /\ ~valid_in /\ ~vmac_computing
  /\ UNCHANGED vmacVars

VmacIdle(valid_in) ==
  /\ ~valid_in /\ ~vmac_computing
  /\ vmac_valid_out' = FALSE
  /\ UNCHANGED << vmac_cycle_counter, vmac_computing, vmac_mult_results, vmac_result >>

VmacStep(valid_in, ctrl, a, b) ==
  \/ VmacStart(valid_in)
  \/ VmacAdd(ctrl, a, b)
  \/ VmacMultiply(ctrl, a, b)
  \/ VmacGather(ctrl)
  \/ VmacIdle(valid_in)
=============================================================================
