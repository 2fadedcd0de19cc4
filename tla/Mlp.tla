--------------------------------- MODULE Mlp ---------------------------------
(***************************************************************************)
(* The benchmark the vector extension was built for: the forward pass of a *)
(* two-layer network (sw/mnist-newlib/benchmark_mnist_sew.c), once in C    *)
(* and four times with the custom instructions.  The instructions are what *)
(* Isa promises of them; that the core keeps the promise is the refinement *)
(* TopIsa.  One step is one turn of the innermost loop, or the end of a    *)
(* neuron.  The loops over transposed weights and the ones that pack       *)
(* columns on the fly (benchmark_pvmac.c, benchmark_wide_vec.c) read the   *)
(* same elements.                                                          *)
(***************************************************************************)
EXTENDS IsaArith, Sequences

CONSTANTS
  INPUT_SIZE, HIDDEN_SIZE, OUTPUT_SIZE,
  W1, W2,      \* weights, by input and neuron, as in the header file
  Inputs       \* images: functions from 0 .. INPUT_SIZE - 1 to elements

Int8 == -(ByteMod \div 2) .. (ByteMod \div 2) - 1

\* 784 and 32 are multiples of the most lanes there are, and small enough
\* for the sums of a layer.
ASSUME SizesAssumption ==
  /\ INPUT_SIZE \in Nat \ {0} /\ INPUT_SIZE % 8 = 0 /\ INPUT_SIZE < 2 * HalfMod
  /\ HIDDEN_SIZE \in Nat \ {0} /\ HIDDEN_SIZE % 8 = 0 /\ HIDDEN_SIZE < 2 * ByteMod
  /\ OUTPUT_SIZE \in Nat \ {0}
\* Weights and images are arrays of int8_t.
ASSUME ElementsAssumption ==
  /\ W1 \in [0 .. INPUT_SIZE - 1 -> [0 .. HIDDEN_SIZE - 1 -> Int8]]
  /\ W2 \in [0 .. HIDDEN_SIZE - 1 -> [0 .. OUTPUT_SIZE - 1 -> Int8]]
  /\ Inputs \subseteq [0 .. INPUT_SIZE - 1 -> Int8]

VARIABLES
  kernel,              \* which forward function runs
  layer, j, i, acc,    \* where it is; layer 3 is the search for the maximum
  input, hidden, output,
  pred

vars == << kernel, layer, j, i, acc, input, hidden, output, pred >>

Kernels == {"scalar", "pvmac", "vmac_b", "vmac_h", "vmac_w"}

\* Elements a turn takes, and the bytes of an element.
lanes == [scalar |-> 1, pvmac |-> 4, vmac_b |-> 8, vmac_h |-> 4, vmac_w |-> 2]
width == [scalar |-> 1, pvmac |-> 1, vmac_b |-> 1, vmac_h |-> 2, vmac_w |-> 4]

\* prepare_weights
W1_packed == [n \in 0 .. HIDDEN_SIZE - 1 |-> [k \in 0 .. INPUT_SIZE - 1 |-> W1[k][n]]]
W2_packed == [n \in 0 .. OUTPUT_SIZE - 1 |-> [k \in 0 .. HIDDEN_SIZE - 1 |-> W2[k][n]]]

\* Four consecutive bytes as a word, and eight as a vector register.
pack4(a, k) == OfBytes([b \in 0 .. 3 |-> a[k + b] % ByteMod])
vld(a, k, w) == OfElems([e \in Elems(w) |-> a[k + e]], w)

\* What a turn adds to acc.
mac(a, b, k) ==
  CASE kernel = "scalar" -> a[k] * b[k]
    [] kernel = "pvmac"  -> PackedRef(2, pack4(a, k), pack4(b, k))
    [] OTHER             -> Dot(vld(a, k, width[kernel]), vld(b, k, width[kernel]), width[kernel])

\* A C int32_t.
Int32(n) == Signed(n % WordMod, WordMod)

\* A conversion without the upper clip keeps the low bits only.
relu_no_clip(x) == IF x < 0 THEN 0
                   ELSE Signed(x % ByteMod^width[kernel], ByteMod^width[kernel])
\* relu_int8, and its like for the wider elements, which is no clip for int32.
largest == ByteMod^width[kernel] \div 2 - 1
relu(x) == IF x < 0 THEN 0 ELSE IF x > largest THEN largest ELSE x

-----------------------------------------------------------------------------

Init ==
  /\ kernel \in Kernels /\ input \in Inputs
  /\ layer = 1 /\ j = 0 /\ i = 0 /\ acc = 0 /\ pred = 0
  /\ hidden = [n \in 0 .. HIDDEN_SIZE - 1 |-> 0]
  /\ output = [n \in 0 .. OUTPUT_SIZE - 1 |-> 0]

\* The array a layer reads, its weights, and its sizes.
source  == IF layer = 1 THEN input ELSE hidden
weights == IF layer = 1 THEN W1_packed[j] ELSE W2_packed[j]
fan_in  == IF layer = 1 THEN INPUT_SIZE ELSE HIDDEN_SIZE
neurons == IF layer = 1 THEN HIDDEN_SIZE ELSE OUTPUT_SIZE

Accumulate ==
  /\ layer \in {1, 2} /\ i < fan_in
  /\ acc' = Int32(acc + mac(source, weights, i))
  /\ i' = i + lanes[kernel]
  /\ UNCHANGED << kernel, layer, j, input, hidden, output, pred >>

EndNeuron ==
  /\ layer \in {1, 2} /\ i >= fan_in
  /\ hidden' = IF layer = 1 THEN [hidden EXCEPT ![j] = relu(acc)] ELSE hidden
  /\ output' = IF layer = 2 THEN [output EXCEPT ![j] = relu(acc)] ELSE output
  /\ acc' = 0 /\ i' = 0
  /\ j' = (j + 1) % neurons
  /\ layer' = IF j + 1 = neurons THEN layer + 1 ELSE layer
  /\ UNCHANGED << kernel, input, pred >>

\* A search that takes the last of equals:
better_or_equal(n) == output[n] >= output[pred]
better(n) == output[n] > output[pred]

Compare ==
  /\ layer = 3 /\ j + 1 < OUTPUT_SIZE
  /\ pred' = IF better(j + 1) THEN j + 1 ELSE pred
  /\ j' = j + 1
  /\ UNCHANGED << kernel, layer, i, acc, input, hidden, output >>

Next == Accumulate \/ EndNeuron \/ Compare

Spec == Init /\ [][Next]_vars

-----------------------------------------------------------------------------
(* Properties *)

\* A neuron in exact integers, over whole columns of weights.
Neuron(a, W, size, n) == Sums([k \in 0 .. size - 1 |-> a[k] * W[k][n]], size)[size]
Clipped(v) == Min({Max({v, 0}), largest})
InRange(v) == -(WordMod \div 2) <= v /\ v < WordMod \div 2

\* Every forward function computes the network: each neuron it has finished
\* is the clipped exact sum over all its inputs, whatever the lanes, their
\* signs and their order, as long as the sum fits int32_t.  It always does
\* but for the second layer of VMAC.W, whose inputs are not clipped
\* (benchmark_mnist_sew.c:65-264).
ForwardRight ==
  LET sum1(n) == Neuron(input, W1, INPUT_SIZE, n)
      sum2(n) == Neuron(hidden, W2, HIDDEN_SIZE, n)
  IN  /\ \A n \in 0 .. HIDDEN_SIZE - 1 :
           layer > 1 \/ n < j => InRange(sum1(n)) /\ hidden[n] = Clipped(sum1(n))
      /\ \A n \in 0 .. OUTPUT_SIZE - 1 :
           layer = 3 \/ (layer = 2 /\ n < j)
           => /\ kernel # "vmac_w" => InRange(sum2(n))
              /\ InRange(sum2(n)) => output[n] = Clipped(sum2(n))

\* The class predicted is the first of the largest outputs.
PredictsFirstMaximum ==
  layer = 3 /\ j = OUTPUT_SIZE - 1
  => pred = Min({n \in DOMAIN output : \A k \in DOMAIN output : output[k] <= output[n]})
=============================================================================
