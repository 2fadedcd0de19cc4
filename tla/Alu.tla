--------------------------------- MODULE Alu ---------------------------------
(***************************************************************************)
(* The scalar ALU (alu.v): one ripple-carry adder shared by ADD, SUB and   *)
(* the two comparisons, and one right-shifting barrel shifter shared by    *)
(* the three shifts.                                                       *)
(***************************************************************************)
EXTENDS Words

ADD  == 0
SUB  == 1
AND  == 2
OR   == 3
XOR  == 4
SLL  == 5
SRL  == 6
SRA  == 7
SLT  == 8
SLTU == 9

full_adder(a, b, cin) ==
  [sum  |-> (a + b + cin) % 2,
   cout |-> Flag((a = 1 /\ b = 1) \/ (a = 1 /\ cin = 1) \/ (b = 1 /\ cin = 1))]

\* A chain of full adders, each fed the carry of the one below it.
ripple_carry_adder(a, b, cin) ==
  LET fa[i \in Positions] ==
        full_adder(Bit(a, i), Bit(b, i), IF i = 0 THEN cin ELSE fa[i - 1].cout)
  IN  [sum |-> FromBits([i \in Positions |-> fa[i].sum]), cout |-> fa[XLEN - 1].cout]

Reversed(w) == FromBits([i \in Positions |-> Bit(w, XLEN - 1 - i)])

\* {{n{fill}}, w[XLEN-1:n]}
ShiftIn(w, n, fill) == w \div 2^n + fill * (WordMod - WordMod \div 2^n)

fill_bit(word, shift_left, arithmetic) ==
  IF arithmetic /\ ~shift_left THEN Bit(word, XLEN - 1) ELSE 0

\* A left shift is a right shift of the reversed word.  Stage k moves the
\* word 2^k places when bit k of the amount is set.
barrel_shifter(data_in, shift_amt, shift_left, arithmetic) ==
  LET shift_data == IF shift_left THEN Reversed(data_in) ELSE data_in
      fill == fill_bit(shift_data, shift_left, arithmetic)
      stage[k \in 0 .. ShBits] ==
        IF k = 0 THEN shift_data
        ELSE IF Bit(shift_amt, k - 1) = 1
             THEN ShiftIn(stage[k - 1], 2^(k - 1), fill)
             ELSE stage[k - 1]
  IN  IF shift_left THEN Reversed(stage[ShBits]) ELSE stage[ShBits]

\* SLT by the sign of the difference alone, wrong where it overflows:
slt_result_no_overflow(op1, op2, diff) == Bit(diff, XLEN - 1)
\* slt_result, from the signs of the difference and of the operands.
slt_result(op1, op2, diff) ==
  LET sign(w) == Bit(w, XLEN - 1)
  IN  IF sign(op1) = sign(op2) THEN sign(diff) ELSE sign(op1)

alu_out(op1, op2, alu_ctrl) ==
  LET subtract == alu_ctrl \in {SUB, SLT, SLTU}
      addsub   == ripple_carry_adder(op1, IF subtract THEN BitNot(op2) ELSE op2,
                                     Flag(subtract))
      shifted  == barrel_shifter(op1, op2 % XLEN, alu_ctrl = SLL, alu_ctrl = SRA)
  IN  CASE alu_ctrl \in {ADD, SUB}      -> addsub.sum
        [] alu_ctrl = AND               -> BitAnd(op1, op2)
        [] alu_ctrl = OR                -> BitOr(op1, op2)
        [] alu_ctrl = XOR               -> BitXor(op1, op2)
        [] alu_ctrl \in {SLL, SRL, SRA} -> shifted
        [] alu_ctrl = SLT               -> slt_result(op1, op2, addsub.sum)
        [] alu_ctrl = SLTU              -> 1 - addsub.cout
        [] OTHER                        -> 0
=============================================================================
