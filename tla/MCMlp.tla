-------------------------------- MODULE MCMlp --------------------------------
(***************************************************************************)
(* A small network with elements at the ends of their range: int8_t has    *)
(* four bits, int16_t eight and int32_t sixteen.                           *)
(***************************************************************************)
EXTENDS Mlp

Weight(a, b) == ((a * b + 3 * a + 5 * b) % 16) - 8

\* Every other neuron of the first layer is as large as it can be, and one
\* of the second weighs them all with the least weight.
MCW1 == [k \in 0 .. INPUT_SIZE - 1 |-> [n \in 0 .. HIDDEN_SIZE - 1 |->
           CASE n % 2 = 0 -> 7
             [] n = 1     -> -8
             [] n = 3     -> (k % 3) - 1
             [] OTHER     -> Weight(k, n)]]
MCW2 == [k \in 0 .. HIDDEN_SIZE - 1 |-> [n \in 0 .. OUTPUT_SIZE - 1 |->
           CASE n = 0 -> Weight(k, 1)
             [] n = 1 -> (k + 1) % 2
             [] n = 2 -> 1 - (k % 3)
             [] n = 3 -> -8]]

\* Images of one value, of two, of a rising edge, and of one bright pixel.
MCInputs ==
  { [k \in 0 .. INPUT_SIZE - 1 |-> v] : v \in {0, 1, 7} }
  \cup { [k \in 0 .. INPUT_SIZE - 1 |-> IF k % m = 0 THEN v ELSE 7 - v] : m \in 2 .. 5, v \in {0, 3} }
  \cup { [k \in 0 .. INPUT_SIZE - 1 |-> IF k < m THEN 7 ELSE 0] : m \in {5, 8, 11} }
  \cup { [k \in 0 .. INPUT_SIZE - 1 |-> IF k = m THEN 7 ELSE 0] : m \in 0 .. INPUT_SIZE - 1 }
=============================================================================
