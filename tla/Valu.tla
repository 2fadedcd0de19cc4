--------------------------------- MODULE Valu --------------------------------
(***************************************************************************)
(* The vector ALU (valu.v): 64-bit operands cut into lanes of one byte,    *)
(* one half or one word.  VADD and VSUB take one computing cycle; VMUL and *)
(* VMAC multiply at most four lanes a cycle and need one more cycle to     *)
(* pack or to sum the products.  valid_out is a pulse of one cycle.        *)
(*                                                                         *)
(* The unit's inputs are registers of the core, so its step takes them as  *)
(* parameters.  The five product arrays (mul8, mul16, mul32, mac8_prod..)  *)
(* are one array here: an operation fills the elements it reads.           *)
(***************************************************************************)
EXTENDS Datapath

VARIABLES
  valu_mul_counter,
  valu_computing,
  valu_prod,        \* the product registers
  valu_result,
  valu_valid_out

valuVars == << valu_mul_counter, valu_computing, valu_prod, valu_result, valu_valid_out >>

ValuInit ==
  /\ valu_mul_counter = 0
  /\ valu_computing = FALSE
  /\ valu_prod = [i \in 0 .. 7 |-> 0]
  /\ valu_result = << 0, 0 >>
  /\ valu_valid_out = FALSE

ValuReset ==
  /\ valu_mul_counter' = 0
  /\ valu_computing' = FALSE
  /\ valu_result' = << 0, 0 >>
  /\ valu_valid_out' = FALSE
  /\ UNCHANGED valu_prod

ValuStart(valid_in) ==
  /\ valid_in /\ ~valu_computing
  /\ valu_computing' = TRUE
  /\ valu_mul_counter' = 0
  /\ valu_valid_out' = FALSE
  /\ UNCHANGED << valu_prod, valu_result >>

ValuAddSub(op, sew, a, b) ==
  /\ valu_computing
  /\ op \in {OP_VADD, OP_VSUB}
  /\ valu_result' = IF op = OP_VADD THEN vadd_result(a, b, sew) ELSE vsub_result(a, b, sew)
  /\ valu_valid_out' = TRUE
  /\ valu_computing' = FALSE
  /\ UNCHANGED << valu_mul_counter, valu_prod >>

ValuMultiply(op, sew, a, b) ==
  /\ valu_computing
  /\ op \in {OP_VMUL, OP_VMAC}
  /\ sew # 3 /\ valu_mul_counter < mul_cycles(sew)
  /\ valu_prod' = [i \in 0 .. 7 |-> IF i \in multiplied_in(valu_mul_counter, sew)
                                    THEN product(op, sew, a, b, i) ELSE valu_prod[i]]
  /\ valu_mul_counter' = valu_mul_counter + 1
  /\ UNCHANGED << valu_computing, valu_result, valu_valid_out >>

ValuFinish(op, sew) ==
  /\ valu_computing
  /\ op \in {OP_VMUL, OP_VMAC}
  /\ sew # 3 /\ valu_mul_counter = mul_cycles(sew)
  /\ valu_result' = packed_products(valu_prod, op, sew)
  /\ valu_valid_out' = TRUE
  /\ valu_computing' = FALSE
  /\ valu_mul_counter' = 0
  /\ UNCHANGED valu_prod

\* The unused element width completes at once and leaves the result alone.
ValuReservedWidth(op, sew) ==
  /\ valu_computing
  /\ op \in {OP_VMUL, OP_VMAC} /\ sew = 3
  /\ valu_valid_out' = TRUE
  /\ valu_computing' = FALSE
  /\ UNCHANGED << valu_mul_counter, valu_prod, valu_result >>

ValuIdle(valid_in) ==
  /\ ~valid_in /\ ~valu_computing
  /\ valu_valid_out' = FALSE
  /\ UNCHANGED << valu_mul_counter, valu_computing, valu_prod, valu_result >>

ValuStep(valid_in, op, sew, a, b) ==
  \/ ValuStart(valid_in)
  \/ ValuAddSub(op, sew, a, b)
  \/ ValuMultiply(op, sew, a, b)
  \/ ValuFinish(op, sew)
  \/ ValuReservedWidth(op, sew)
  \/ ValuIdle(valid_in)
=============================================================================
