----------------------------- MODULE UnitProofs ------------------------------
(***************************************************************************)
(* Proofs about the data paths under the core's protocol, for every word   *)
(* size, every sequence of operations and every operand.                   *)
(***************************************************************************)
EXTENDS MCUnits, WordProofs, TLAPS

-----------------------------------------------------------------------------
(* The protocol *)

\* The core holds one operation, one of those it may issue.
DriverInv ==
  /\ phase \in {"idle", "start", "wait"}
  /\ req \in Warmups \cup Requests
  /\ age \in Nat /\ (phase = "start" => age = 0)
  /\ phase = "wait" => req.unit \in MultiCycle

\* A unit computes from its start to its pulse, and only for its own
\* operation; in that time age counts the cycles its counter counts.
Busy(unit) == phase = "wait" /\ req.unit = unit

ValuInv ==
  /\ valu_computing \in BOOLEAN /\ valu_valid_out \in BOOLEAN
  /\ valu_computing \/ valu_valid_out => Busy("valu")
  /\ Busy("valu") => valu_computing = ~valu_valid_out
  /\ Busy("valu") /\ valu_computing =>
       IF req.op \in {OP_VADD, OP_VSUB} THEN age = 0
       ELSE valu_mul_counter = age /\ age <= mul_cycles(req.sew)
  /\ valu_valid_out => age = IF req.op \in {OP_VADD, OP_VSUB} THEN 1 ELSE mul_cycles(req.sew) + 1

VmacInv ==
  /\ vmac_computing \in BOOLEAN /\ vmac_valid_out \in BOOLEAN
  /\ vmac_computing \/ vmac_valid_out => Busy("vmac")
  /\ Busy("vmac") => vmac_computing = ~vmac_valid_out
  /\ Busy("vmac") /\ vmac_computing =>
       IF req.op = PVADD THEN age = 0 ELSE vmac_cycle_counter = age /\ age \in {0, 1}
  /\ vmac_valid_out => age = IF req.op = PVADD THEN 1 ELSE 2

unitVars == << valuVars, vmacVars, driverVars >>

\* The core's step, by phase.
LEMMA DriverMoves ==
  ASSUME DriverInv, Next
  PROVE  /\ DriverInv'
         /\ phase = "idle" => phase' # "wait"
         /\ phase = "start" => /\ phase' # "start" /\ req' = req /\ age' = age
                               /\ phase' = "wait" <=> req.unit \in MultiCycle
         /\ phase = "wait" => /\ req' = req
                              /\ LET done == IF req.unit = "valu" THEN valu_valid_out
                                             ELSE vmac_valid_out
                                 IN  /\ done => phase' = "idle"
                                     /\ ~done => phase' = "wait" /\ age' = age + 1
  BY DEF DriverInv, Next, DriverStep, Issue, LowerStart, Await, Rest, driverVars

\* The control of the vector ALU moves as the driver expects.
LEMMA ValuControl ==
  ASSUME DriverInv, ValuInv, Next
  PROVE  ValuInv'
  <1>1. ValuStep(start("valu"), req.op, req.sew, req.a, req.b)
    BY DEF Next
  <1>2. req.unit = "valu" => req.op \in 0 .. 3 /\ req.sew \in 0 .. 2
    BY RequestsAssumption DEF DriverInv
  <1>3. CASE phase = "idle"
    <2>1. ~valu_computing /\ ~start("valu") /\ ~Busy("valu")'
      BY <1>3, DriverMoves DEF ValuInv, Busy, start
    <2>2. valu_computing' = FALSE /\ valu_valid_out' = FALSE
      BY <1>1, <2>1 DEF ValuStep, ValuStart, ValuAddSub, ValuMultiply, ValuFinish,
                        ValuReservedWidth, ValuIdle, ValuInv
    <2> QED
      BY <2>1, <2>2 DEF ValuInv
  <1>4. CASE phase = "start"
    <2>1. ~valu_computing /\ ~valu_valid_out
      BY <1>4 DEF ValuInv, Busy
    <2>2. CASE req.unit = "valu"
      <3>1. ValuStart(TRUE)
        BY <1>1, <1>4, <2>1, <2>2
           DEF start, ValuStep, ValuStart, ValuAddSub, ValuMultiply, ValuFinish,
               ValuReservedWidth, ValuIdle
      <3> QED
        <4>1. Busy("valu")' /\ req' = req /\ age' = 0
          BY <1>4, <2>2, DriverMoves DEF Busy, DriverInv, MultiCycle
        <4>2. valu_computing' = TRUE /\ valu_valid_out' = FALSE /\ valu_mul_counter' = 0
          BY <3>1 DEF ValuStart
        <4>3. 0 <= mul_cycles(req.sew)
          BY DEF mul_cycles
        <4> QED
          BY <4>1, <4>2, <4>3 DEF ValuInv
    <2>3. CASE req.unit # "valu"
      <3>1. valu_computing' = FALSE /\ valu_valid_out' = FALSE
        BY <1>1, <1>4, <2>1, <2>3
           DEF start, ValuStep, ValuStart, ValuAddSub, ValuMultiply, ValuFinish,
               ValuReservedWidth, ValuIdle, ValuInv
      <3> QED
        BY <1>4, <2>3, <3>1, DriverMoves DEF ValuInv, Busy
    <2> QED
      BY <2>2, <2>3
  <1>5. CASE phase = "wait"
    <2>1. ~start("valu")
      BY <1>5 DEF start
    <2>2. CASE ~valu_computing
      <3>1. valu_computing' = FALSE /\ valu_valid_out' = FALSE
        BY <1>1, <2>1, <2>2
           DEF ValuStep, ValuStart, ValuAddSub, ValuMultiply, ValuFinish, ValuReservedWidth,
               ValuIdle, ValuInv
      <3>2. ~Busy("valu")'
        BY <1>5, <2>2, DriverMoves DEF ValuInv, Busy
      <3> QED
        BY <3>1, <3>2 DEF ValuInv
    <2>3. CASE valu_computing
      <3>1. req.unit = "valu" /\ ~valu_valid_out /\ phase' = "wait" /\ req' = req /\ age' = age + 1
        BY <1>5, <2>3, DriverMoves DEF ValuInv, Busy
      <3>2. age \in Nat /\ Busy("valu") /\ Busy("valu")'
        BY <1>5, <3>1 DEF DriverInv, Busy
      <3>3. mul_cycles(req.sew) \in {1, 2}
        BY DEF mul_cycles
      <3>4. CASE ValuAddSub(req.op, req.sew, req.a, req.b)
        <4>1. req.op \in {OP_VADD, OP_VSUB} /\ valu_computing' = FALSE /\ valu_valid_out' = TRUE
          BY <3>4 DEF ValuAddSub
        <4>2. age = 0
          BY <2>3, <3>2, <4>1 DEF ValuInv
        <4> QED
          <5>1. age' = 1 /\ req'.op = req.op
            BY <3>1, <3>2, <4>2
          <5> QED
            BY <3>2, <4>1, <5>1 DEF ValuInv
      <3>5. CASE ValuMultiply(req.op, req.sew, req.a, req.b)
        <4>1. req.op \notin {OP_VADD, OP_VSUB}
          BY <3>5 DEF ValuMultiply, OP_VADD, OP_VSUB, OP_VMUL, OP_VMAC
        <4> QED
          <5>1. /\ valu_computing' = TRUE /\ valu_valid_out' = FALSE
                /\ valu_mul_counter' = valu_mul_counter + 1
                /\ valu_mul_counter < mul_cycles(req.sew)
            BY <2>3, <3>1, <3>5 DEF ValuMultiply, ValuInv
          <5>2. valu_mul_counter = age
            BY <2>3, <3>2, <4>1 DEF ValuInv
          <5>3. age + 1 <= mul_cycles(req.sew)
            BY <3>2, <3>3, <5>1, <5>2
          <5> QED
            BY <3>1, <3>2, <4>1, <5>1, <5>2, <5>3 DEF ValuInv
      <3>6. CASE ValuFinish(req.op, req.sew)
        <4>1. req.op \notin {OP_VADD, OP_VSUB}
          BY <3>6 DEF ValuFinish, OP_VADD, OP_VSUB, OP_VMUL, OP_VMAC
        <4> QED
          BY <2>3, <3>1, <3>2, <3>3, <3>6, <4>1 DEF ValuFinish, ValuInv
      <3> QED
        BY <1>1, <1>2, <2>1, <2>3, <3>1, <3>4, <3>5, <3>6
           DEF ValuStep, ValuStart, ValuReservedWidth, ValuIdle
    <2> QED
      BY <2>2, <2>3 DEF ValuInv
  <1> QED
    BY <1>3, <1>4, <1>5 DEF DriverInv

\* The control of the packed unit moves as the driver expects.
LEMMA VmacControl ==
  ASSUME DriverInv, VmacInv, Next
  PROVE  VmacInv'
  <1>1. VmacStep(start("vmac"), req.op, req.a, req.b)
    BY DEF Next
  <1>2. CASE phase = "idle"
    <2>1. ~vmac_computing /\ ~start("vmac") /\ ~Busy("vmac")'
      BY <1>2, DriverMoves DEF VmacInv, Busy, start
    <2>2. vmac_computing' = FALSE /\ vmac_valid_out' = FALSE
      BY <1>1, <2>1 DEF VmacStep, VmacStart, VmacAdd, VmacMultiply, VmacGather, VmacIdle, VmacInv
    <2> QED
      BY <2>1, <2>2 DEF VmacInv
  <1>3. CASE phase = "start"
    <2>1. ~vmac_computing /\ ~vmac_valid_out
      BY <1>3 DEF VmacInv, Busy
    <2>2. CASE req.unit = "vmac"
      <3>1. VmacStart(TRUE)
        BY <1>1, <1>3, <2>1, <2>2
           DEF start, VmacStep, VmacStart, VmacAdd, VmacMultiply, VmacGather, VmacIdle
      <3>2. Busy("vmac")' /\ req' = req /\ age' = 0
        BY <1>3, <2>2, DriverMoves DEF Busy, DriverInv, MultiCycle
      <3>3. vmac_computing' = TRUE /\ vmac_valid_out' = FALSE /\ vmac_cycle_counter' = 0
        BY <2>1, <3>1 DEF VmacStart, VmacInv
      <3> QED
        BY <3>2, <3>3 DEF VmacInv
    <2>3. CASE req.unit # "vmac"
      <3>1. vmac_computing' = FALSE /\ vmac_valid_out' = FALSE
        BY <1>1, <1>3, <2>1, <2>3
           DEF start, VmacStep, VmacStart, VmacAdd, VmacMultiply, VmacGather, VmacIdle, VmacInv
      <3> QED
        BY <1>3, <2>3, <3>1, DriverMoves DEF VmacInv, Busy
    <2> QED
      BY <2>2, <2>3
  <1>4. CASE phase = "wait"
    <2>1. ~start("vmac")
      BY <1>4 DEF start
    <2>2. CASE ~vmac_computing
      <3>1. vmac_computing' = FALSE /\ vmac_valid_out' = FALSE
        BY <1>1, <2>1, <2>2 DEF VmacStep, VmacStart, VmacAdd, VmacMultiply, VmacGather, VmacIdle, VmacInv
      <3>2. ~Busy("vmac")'
        BY <1>4, <2>2, DriverMoves DEF VmacInv, Busy
      <3> QED
        BY <3>1, <3>2 DEF VmacInv
    <2>3. CASE vmac_computing
      <3>1. req.unit = "vmac" /\ ~vmac_valid_out /\ phase' = "wait" /\ req' = req /\ age' = age + 1
        BY <1>4, <2>3, DriverMoves DEF VmacInv, Busy
      <3>2. age \in Nat /\ Busy("vmac") /\ Busy("vmac")'
        BY <1>4, <3>1 DEF DriverInv, Busy
      <3>3. CASE VmacAdd(req.op, req.a, req.b)
        <4>1. req.op = PVADD /\ vmac_computing' = FALSE /\ vmac_valid_out' = TRUE
          BY <3>3 DEF VmacAdd
        <4>2. age' = 1 /\ req'.op = req.op
          BY <2>3, <3>1, <3>2, <4>1 DEF VmacInv
        <4> QED
          BY <3>2, <4>1, <4>2 DEF VmacInv
      <3>4. CASE VmacMultiply(req.op, req.a, req.b)
        <4>1. /\ req.op # PVADD /\ vmac_cycle_counter = 0 /\ vmac_cycle_counter' = 1
              /\ vmac_computing' = TRUE /\ vmac_valid_out' = FALSE
          BY <2>3, <3>1, <3>4 DEF VmacMultiply, VmacInv
        <4>2. age' = 1 /\ req'.op = req.op
          BY <2>3, <3>1, <3>2, <4>1 DEF VmacInv
        <4> QED
          BY <3>2, <4>1, <4>2 DEF VmacInv
      <3>5. CASE VmacGather(req.op)
        <4>1. /\ req.op # PVADD /\ vmac_cycle_counter = 1
              /\ vmac_computing' = FALSE /\ vmac_valid_out' = TRUE
          BY <3>5 DEF VmacGather
        <4>2. age' = 2 /\ req'.op = req.op
          BY <2>3, <3>1, <3>2, <4>1 DEF VmacInv
        <4> QED
          BY <3>2, <4>1, <4>2 DEF VmacInv
      <3> QED
        BY <1>1, <2>1, <2>3, <3>3, <3>4, <3>5 DEF VmacStep, VmacStart, VmacIdle
    <2> QED
      BY <2>2, <2>3 DEF VmacInv
  <1> QED
    BY <1>2, <1>3, <1>4 DEF DriverInv

ControlInv == DriverInv /\ ValuInv /\ VmacInv

\* The units start idle.
LEMMA ControlStart == Init => ControlInv
  <1> SUFFICES ASSUME Init PROVE ControlInv
    OBVIOUS
  <1>1. DriverInv
    BY DEF Init, DriverInit, DriverInv
  <1>2. ValuInv
    BY DEF Init, DriverInit, ValuInit, ValuInv, Busy
  <1>3. VmacInv
    BY DEF Init, DriverInit, VmacInit, VmacInv, Busy
  <1> QED
    BY <1>1, <1>2, <1>3 DEF ControlInv

\* Every step keeps the control invariant of the two units.
LEMMA ControlStep == ControlInv /\ [Next]_unitVars => ControlInv'
  <1> SUFFICES ASSUME ControlInv, [Next]_unitVars PROVE ControlInv'
    OBVIOUS
  <1>1. CASE Next
    BY <1>1, DriverMoves, ValuControl, VmacControl DEF ControlInv
  <1>2. CASE UNCHANGED unitVars
    BY <1>2 DEF ControlInv, DriverInv, ValuInv, VmacInv, Busy,
                unitVars, valuVars, vmacVars, driverVars
  <1> QED
    BY <1>1, <1>2

\* The vector ALU's pulse comes after the documented number of cycles,
\* never early, never late and never for another unit's operation
\* (valu.v:183-355), for every sequence of operations.
THEOREM ValuLatencyHolds == Spec => []ValuLatency
  <1>1. ControlInv => ValuLatency
    <2> SUFFICES ASSUME ControlInv, phase = "wait"
                 PROVE  valu_valid_out <=>
                          /\ req.unit = "valu"
                          /\ age = IF req.op \in {OP_VADD, OP_VSUB} THEN 1
                                   ELSE IF req.sew = SEW_8 THEN 3 ELSE 2
      BY DEF ValuLatency
    <2>1. mul_cycles(req.sew) = IF req.sew = SEW_8 THEN 2 ELSE 1
      BY DEF mul_cycles
    <2>2. CASE req.unit = "valu" /\ valu_computing
      BY <2>1, <2>2 DEF ControlInv, DriverInv, ValuInv, Busy
    <2>3. CASE valu_valid_out
      BY <2>1, <2>3 DEF ControlInv, DriverInv, ValuInv, Busy
    <2> QED
      BY <2>2, <2>3 DEF ControlInv, ValuInv, Busy
  <1> QED
    BY <1>1, ControlStart, ControlStep, PTL DEF Spec, unitVars

\* The same of the packed-vector unit (vmac.v:45-134).
THEOREM VmacLatencyHolds == Spec => []VmacLatency
  <1>1. ControlInv => VmacLatency
    <2> SUFFICES ASSUME ControlInv, phase = "wait"
                 PROVE  vmac_valid_out <=> /\ req.unit = "vmac"
                                           /\ age = IF req.op = PVADD THEN 1 ELSE 2
      BY DEF VmacLatency
    <2>1. CASE req.unit = "vmac" /\ vmac_computing
      BY <2>1 DEF ControlInv, DriverInv, VmacInv, Busy
    <2>2. CASE vmac_valid_out
      BY <2>2 DEF ControlInv, DriverInv, VmacInv, Busy
    <2> QED
      BY <2>1, <2>2 DEF ControlInv, VmacInv, Busy
  <1> QED
    BY <1>1, ControlStart, ControlStep, PTL DEF Spec, unitVars

-----------------------------------------------------------------------------
(* The packed unit's results *)

\* What the packed unit holds for its operation: after the multiplying
\* cycle every product the sum or the concatenation will read is of this
\* operation, and with the pulse comes the architecture's result.
VmacData ==
  /\ Busy("vmac") /\ vmac_computing /\ req.op # PVADD /\ vmac_cycle_counter = 1
       => Multiplied(vmac_mult_results, req.op, req.a, req.b)
  /\ vmac_valid_out => vmac_result = PackedRef(req.op, req.a, req.b)

\* The multiplying cycle fills the product registers its operation reads.
LEMMA MultiplyFills ==
  ASSUME VmacMultiply(req.op, req.a, req.b), req.op \in {PVMUL, PVMAC, PVMUL_UPPER}
  PROVE  Multiplied(vmac_mult_results', req.op, req.a, req.b)
  <1> DEFINE lanes == multiplied_lanes(req.op)
  <1>1. \A i \in 0 .. 3 : i + 1 \in DOMAIN lanes =>
          vmac_mult_results'[i] = mult_result(req.a, req.b, lanes[i + 1])
    BY DEF VmacMultiply
  <1>2. CASE req.op = PVMUL
    <2>1. lanes = << 0, 1 >>
      BY <1>2 DEF multiplied_lanes, PVMUL, PVMAC, PVMUL_UPPER
    <2> HIDE DEF lanes
    <2>2. /\ 0 + 1 \in DOMAIN lanes /\ lanes[0 + 1] = 0
          /\ 1 + 1 \in DOMAIN lanes /\ lanes[1 + 1] = 1
      BY <2>1
    <2> QED
      BY <1>1, <1>2, <2>2 DEF Multiplied, PVMUL, PVMAC
  <1>3. CASE req.op = PVMAC
    <2>1. lanes = << 0, 1, 2, 3 >>
      BY <1>3 DEF multiplied_lanes, PVMUL, PVMAC, PVMUL_UPPER
    <2> HIDE DEF lanes
    <2>2. \A i \in 0 .. 3 : i + 1 \in DOMAIN lanes /\ lanes[i + 1] = i
      BY <2>1
    <2> QED
      BY <1>1, <1>3, <2>2 DEF Multiplied
  <1>4. CASE req.op = PVMUL_UPPER
    <2>1. lanes = << 2, 3 >>
      BY <1>4 DEF multiplied_lanes, PVMUL, PVMAC, PVMUL_UPPER
    <2> HIDE DEF lanes
    <2>2. \A i \in 0 .. 1 : i + 1 \in DOMAIN lanes /\ lanes[i + 1] = i + 2
      BY <2>1
    <2> QED
      BY <1>1, <1>4, <2>2 DEF Multiplied, PVMUL, PVMAC, PVMUL_UPPER
  <1> QED
    BY <1>2, <1>3, <1>4

\* Every step of the packed unit keeps its products those of its operands.
LEMMA VmacDataStep ==
  ASSUME ControlInv, VmacData, Next
  PROVE  VmacData'
  <1>1. VmacStep(start("vmac"), req.op, req.a, req.b)
    BY DEF Next
  <1>2. ControlInv'
    BY ControlStep
  <1>3. CASE ~vmac_computing
    <2>1. \/ VmacStart(start("vmac"))
          \/ VmacIdle(start("vmac"))
      BY <1>1, <1>3 DEF VmacStep, VmacAdd, VmacMultiply, VmacGather
    <2>2. vmac_valid_out' = FALSE
      <3>1. CASE VmacStart(start("vmac"))
        BY <3>1 DEF VmacStart, start, ControlInv, VmacInv, Busy
      <3> QED
        BY <2>1, <3>1 DEF VmacIdle
    <2>3. ~(vmac_computing' /\ vmac_cycle_counter' = 1)
      BY <1>3, <2>1 DEF VmacStart, VmacIdle
    <2> QED
      BY <2>2, <2>3 DEF VmacData
  <1>4. CASE vmac_computing
    <2>1. phase = "wait" /\ req.unit = "vmac" /\ ~vmac_valid_out
      BY <1>4 DEF ControlInv, VmacInv, Busy
    <2>2. req' = req
      BY <2>1, DriverMoves DEF ControlInv
    <2>3. req.op \in 0 .. 3 /\ req.a \in Word /\ req.b \in Word
      BY <2>1, RequestsAssumption DEF ControlInv, DriverInv
    <2>4. CASE VmacAdd(req.op, req.a, req.b)
      <3>1. req.op = PVADD /\ vmac_result' = pvadd_result(req.a, req.b)
        BY <2>4 DEF VmacAdd
      <3>2. vmac_result' = PackedRef(req.op, req.a, req.b)
        BY <2>3, <3>1, AddIsRef
      <3> QED
        BY <2>2, <3>1, <3>2 DEF VmacData
    <2>5. CASE VmacMultiply(req.op, req.a, req.b)
      <3>1. req.op \in {PVMUL, PVMAC, PVMUL_UPPER}
        BY <2>3, <2>5 DEF VmacMultiply, PVADD, PVMUL, PVMAC, PVMUL_UPPER
      <3>2. ~vmac_valid_out'
        BY <2>1, <2>5 DEF VmacMultiply
      <3> QED
        BY <2>2, <2>5, <3>1, <3>2, MultiplyFills DEF VmacData
    <2>6. CASE VmacGather(req.op)
      <3>1. req.op \in {PVMUL, PVMAC, PVMUL_UPPER}
        BY <2>3, <2>6 DEF VmacGather, PVADD, PVMUL, PVMAC, PVMUL_UPPER
      <3>2. Multiplied(vmac_mult_results, req.op, req.a, req.b)
        BY <1>4, <2>1, <2>6 DEF VmacData, VmacGather, Busy
      <3>3. /\ vmac_result' = gathered(vmac_mult_results, req.op)
            /\ ~vmac_computing'
        BY <2>6 DEF VmacGather
      <3>4. vmac_result' = PackedRef(req.op, req.a, req.b)
        BY <2>3, <3>1, <3>2, <3>3, GatherIsRef
      <3> QED
        BY <2>2, <3>3, <3>4 DEF VmacData
    <2> QED
      BY <1>1, <1>4, <2>4, <2>5, <2>6 DEF VmacStep, VmacStart, VmacIdle
  <1> QED
    BY <1>3, <1>4

\* A completion pulse of the packed unit comes with the result the
\* architecture defines (vmac.v:62-134), for every pair of words and
\* whatever operation was there before.
THEOREM VmacResultHolds == Spec => []VmacResultRight
  <1>1. Init => VmacData
    BY DEF Init, VmacInit, VmacData
  <1>2. ControlInv /\ VmacData /\ [Next]_unitVars => VmacData'
    <2>1. ASSUME ControlInv, VmacData, UNCHANGED unitVars PROVE VmacData'
      BY <2>1 DEF VmacData, Busy, unitVars, vmacVars, driverVars
    <2> QED
      BY <2>1, VmacDataStep
  <1>3. VmacData => VmacResultRight
    BY DEF VmacData, VmacResultRight
  <1> QED
    BY <1>1, <1>2, <1>3, ControlStart, ControlStep, PTL DEF Spec, unitVars

-----------------------------------------------------------------------------
(* The decoder's immediates *)

\* Dividing twice is dividing by the product.
LEMMA DivDiv ==
  ASSUME NEW u \in Nat
  PROVE  /\ (u \div 2) \div 16 = u \div 32
         /\ (u \div 32) \div 64 = u \div 2048
         /\ (u \div 2048) \div 2 = u \div 4096
         /\ (u \div 4096) \div 8 = u \div 32768
         /\ (u \div 32768) \div 32 = u \div 1048576
  BY SMT

\* The bits of an even offset, in the groups the B and J formats keep them
\* in, spell the offset again.
LEMMA BranchBits ==
  ASSUME NEW u \in Nat, u % 2 = 0
  PROVE  (u \div 4096) * 4096 + ((u \div 2048) % 2) * 2048
           + ((u \div 32) % 64) * 32 + ((u \div 2) % 16) * 2 = u
  <1> DEFINE a == u \div 2
             b == u \div 32
             c == u \div 2048
             s == u \div 4096
  <1>1. a \in Nat /\ a * 2 = u
    BY SMT
  <1>2. b \in Nat /\ a % 16 \in 0 .. 15 /\ b * 16 + (a % 16) = a
    BY <1>1, Digit, DivDiv, SMT
  <1>3. c \in Nat /\ b % 64 \in 0 .. 63 /\ c * 64 + (b % 64) = b
    BY <1>2, Digit, DivDiv, SMT
  <1>4. s \in Nat /\ c % 2 \in 0 .. 1 /\ s * 2 + (c % 2) = c
    BY <1>3, Digit, DivDiv, SMT
  <1> HIDE DEF a, b, c, s
  <1>5. s * 4096 + (c % 2) * 2048 + (b % 64) * 32 + (a % 16) * 2 = u
    <2> DEFINE l == a % 16
               m == b % 64
               e == c % 2
    <2> HIDE DEF l, m, e
    <2>1. b * 32 + l * 2 = u
      BY <1>1, <1>2, SMT DEF l
    <2>2. c * 2048 + m * 32 = b * 32
      BY <1>2, <1>3, SMT DEF m
    <2>3. s * 4096 + e * 2048 = c * 2048
      BY <1>3, <1>4, SMT DEF e
    <2>4. l \in Nat /\ m \in Nat /\ e \in Nat
      BY <1>2, <1>3, <1>4, SMT DEF l, m, e
    <2>5. s * 4096 + e * 2048 + m * 32 + l * 2 = u
      BY <1>2, <1>3, <1>4, <2>1, <2>2, <2>3, <2>4, SMT
    <2> QED
      BY <2>5 DEF l, m, e
  <1> QED
    BY <1>5, SMT DEF a, b, c, s

\* The scattered bits of a jump offset add up to the offset.
LEMMA JumpBits ==
  ASSUME NEW u \in Nat, u % 2 = 0
  PROVE  (u \div 1048576) * 1048576 + (((u \div 32768) % 32) * 8 + ((u \div 4096) % 8)) * 4096
           + ((u \div 2048) % 2) * 2048 + ((u \div 32) % 64) * 32 + ((u \div 2) % 16) * 2 = u
  <1> DEFINE low == ((u \div 2048) % 2) * 2048 + ((u \div 32) % 64) * 32 + ((u \div 2) % 16) * 2
             w == u \div 4096
             t == u \div 32768
             s == u \div 1048576
  <1>1. w \in Nat /\ (u \div 2048) % 2 \in Nat /\ (u \div 32) % 64 \in Nat /\ (u \div 2) % 16 \in Nat
    BY SMT
  <1>2. low \in Nat /\ w * 4096 + low = u
    BY <1>1, BranchBits, SMT
  <1>3. t \in Nat /\ w % 8 \in 0 .. 7 /\ t * 8 + (w % 8) = w
    BY <1>1, Digit, DivDiv, SMT
  <1>4. s \in Nat /\ t % 32 \in 0 .. 31 /\ s * 32 + (t % 32) = t
    BY <1>3, Digit, DivDiv, SMT
  <1> HIDE DEF w, t, s
  <1>5. s * 1048576 + ((t % 32) * 8 + (w % 8)) * 4096 + low = u
    <2> DEFINE g == w % 8
               h == t % 32
    <2> HIDE DEF g, h, low
    <2>1. g \in Nat /\ t * 8 + g = w /\ h \in Nat /\ s * 32 + h = t
      BY <1>3, <1>4, SMT DEF g, h
    <2>2. s * 256 + h * 8 + g = w
      <3>1. s * 256 + h * 8 = t * 8
        BY <1>3, <1>4, <2>1, SMT
      <3> QED
        BY <1>1, <1>3, <1>4, <2>1, <3>1, SMT
    <2>3. s * 1048576 + (h * 8 + g) * 4096 = w * 4096
      BY <1>4, <2>1, <2>2, SMT
    <2>4. s * 1048576 + (h * 8 + g) * 4096 + low = u
      <3> DEFINE v == s * 1048576 + (h * 8 + g) * 4096
      <3>1. v = w * 4096
        BY <2>3
      <3> HIDE DEF v
      <3>2. v + low = u
        BY <1>2, <3>1
      <3> QED
        BY <3>2, SMT DEF v
    <2> QED
      BY <2>4 DEF g, h
  <1> QED
    BY <1>1, <1>4, <1>5, SMT DEF w, t, s

\* Two groups of bits side by side in a field come apart again.
LEMMA SplitField ==
  ASSUME NEW hi \in Nat, NEW n \in Nat \ {0}, NEW lo \in 0 .. n - 1
  PROVE  (hi * n + lo) \div n = hi /\ (hi * n + lo) % n = lo
  BY ModUnique

\* The remainder of an even number by an even modulus is even.
LEMMA EvenOffset ==
  ASSUME NEW m \in Int
  PROVE  /\ (2 * m) % 8192 \in Nat /\ ((2 * m) % 8192) % 2 = 0
         /\ (2 * m) % 2097152 \in Nat /\ ((2 * m) % 2097152) % 2 = 0
  <1>1. 2 * m \in Int /\ (2 * m) % 2 = 0
    BY SMT
  <1>2. ((2 * m) % (2 * 4096)) % 2 = (2 * m) % 2 /\ ((2 * m) % (2 * 1048576)) % 2 = (2 * m) % 2
    BY <1>1, ModMod, SMT
  <1>3. 2 * 4096 = 8192 /\ 2 * 1048576 = 2097152
    BY SMT
  <1>4. (2 * m) % 8192 \in Nat /\ (2 * m) % 2097152 \in Nat
    BY <1>1, SMT
  <1> QED
    BY <1>1, <1>2, <1>3, <1>4, SMT

\* The pattern of a number in range, extended with its sign, is the number.
LEMMA ExtendPattern ==
  ASSUME NEW n \in Nat \ {0}, NEW p \in Int, -n <= 2 * p, 2 * p < n
  PROVE  Wide!SignExtend(p % n, n) = p % Wide!WordMod
  <1>1. Wide!Signed(p % n, n) = p
    BY SignedOfPattern DEF Signed, Wide!Signed
  <1> QED
    BY <1>1 DEF Wide!SignExtend

\* At most one arm of the decoder's choice applies.
LEMMA Formats ==
  ASSUME NEW f
  PROVE  /\ f.opcode = 19 => Wide!immediate(f) = Wide!imm_i(f)
         /\ f.opcode = 35 => Wide!immediate(f) = Wide!imm_s(f)
         /\ f.opcode = 99 => Wide!immediate(f) = Wide!imm_b(f)
         /\ f.opcode = 111 => Wide!immediate(f) = Wide!imm_j(f)
  <1>1. f.opcode \in {35, 99, 111} => ~Wide!is_i_type(f) /\ ~Wide!is_u_type(f)
    BY SMT DEF Wide!is_i_type, Wide!is_u_type, Wide!OPIMM, Wide!LOAD, Wide!JALR, Wide!SYSTEM,
               Wide!LUI, Wide!AUIPC
  <1>2. f.opcode = 19 => Wide!is_i_type(f) /\ ~Wide!is_u_type(f)
    BY SMT DEF Wide!is_i_type, Wide!is_u_type, Wide!OPIMM, Wide!LUI, Wide!AUIPC
  <1>3. f.opcode = 19 => Wide!immediate(f) = Wide!imm_i(f)
    BY <1>2, SMT DEF Wide!immediate, Wide!STORE, Wide!BRANCH, Wide!JAL
  <1>4. f.opcode = 35 => Wide!immediate(f) = Wide!imm_s(f)
    BY <1>1, SMT DEF Wide!immediate, Wide!STORE, Wide!BRANCH, Wide!JAL
  <1>5. f.opcode = 99 => Wide!immediate(f) = Wide!imm_b(f)
    BY <1>1, SMT DEF Wide!immediate, Wide!STORE, Wide!BRANCH, Wide!JAL
  <1>6. f.opcode = 111 => Wide!immediate(f) = Wide!imm_j(f)
    BY <1>1, SMT DEF Wide!immediate, Wide!STORE, Wide!BRANCH, Wide!JAL
  <1> QED
    BY <1>3, <1>4, <1>5, <1>6

\* The immediate of an I-type word is the one encoded.
LEMMA ImmediateI ==
  ASSUME NEW n \in Int, -2048 <= n, n < 2048
  PROVE  Wide!immediate(I(OPIMM, n, 5, 3, 6)) = n % Wide!WordMod
  <1> DEFINE u == n % 4096
             f == I(OPIMM, n, 5, 3, 6)
  <1>1. u \in Nat /\ (u \div 32) * 32 + (u % 32) = u
    BY SMT
  <1>2. Wide!SignExtend(u, 4096) = n % Wide!WordMod
    BY ExtendPattern, SMT
  <1>3. f.opcode = 19 /\ f.funct7 = u \div 32 /\ f.rs2 = u % 32
    BY SMT DEF I, R, OPIMM
  <1> HIDE DEF f, u
  <1>4. Wide!immediate(f) = Wide!SignExtend(u, 4096)
    BY <1>1, <1>3, Formats, SMT DEF Wide!imm_i
  <1> QED
    BY <1>2, <1>4 DEF f

\* The immediate of an S-type word is the one encoded.
LEMMA ImmediateS ==
  ASSUME NEW n \in Int, -2048 <= n, n < 2048
  PROVE  Wide!immediate(S(n, 6, 5, 1)) = n % Wide!WordMod
  <1> DEFINE u == n % 4096
             f == S(n, 6, 5, 1)
  <1>1. u \in Nat /\ (u \div 32) * 32 + (u % 32) = u
    BY SMT
  <1>2. Wide!SignExtend(u, 4096) = n % Wide!WordMod
    BY ExtendPattern, SMT
  <1>3. f.opcode = 35 /\ f.funct7 = u \div 32 /\ f.rd = u % 32
    BY SMT DEF S, R, STORE
  <1> HIDE DEF f, u
  <1>4. Wide!immediate(f) = Wide!SignExtend(u, 4096)
    BY <1>1, <1>3, Formats, SMT DEF Wide!imm_s
  <1> QED
    BY <1>2, <1>4 DEF f

\* The immediate of a B-type word is the one encoded.
LEMMA ImmediateB ==
  ASSUME NEW n \in Int, -2048 <= n, n < 2048
  PROVE  Wide!immediate(B(2 * n, 6, 5, 1)) = (2 * n) % Wide!WordMod
  <1> DEFINE u == (2 * n) % 8192
             s == u \div 4096
             e == (u \div 2048) % 2
             m == (u \div 32) % 64
             l == (u \div 2) % 16
             f == B(2 * n, 6, 5, 1)
  <1>1. u \in Nat /\ u % 2 = 0
    BY EvenOffset, SMT
  <1>2. Wide!SignExtend(u, 8192) = (2 * n) % Wide!WordMod
    BY ExtendPattern, SMT
  <1>3. f.opcode = 99 /\ f.funct7 = s * 64 + m /\ f.rd = l * 2 + e
    BY SMT DEF B, R, BRANCH
  <1> HIDE DEF f, u
  <1>4. s * 4096 + e * 2048 + m * 32 + l * 2 = u
    BY <1>1, BranchBits, SMT
  <1>5. s \in Nat /\ m \in 0 .. 63 /\ l \in Nat /\ e \in 0 .. 1
    BY <1>1, SMT
  <1> HIDE DEF s, e, m, l
  <1>6. /\ (s * 64 + m) \div 64 = s /\ (s * 64 + m) % 64 = m
        /\ (l * 2 + e) \div 2 = l /\ (l * 2 + e) % 2 = e
    BY <1>5, SplitField, SMT
  <1>7. Wide!immediate(f) = Wide!SignExtend(s * 4096 + e * 2048 + m * 32 + l * 2, 8192)
    BY <1>3, <1>6, Formats, SMT DEF Wide!imm_b
  <1> QED
    BY <1>2, <1>4, <1>7, SMT DEF f

\* The immediate of a J-type word is the one encoded.
LEMMA ImmediateJ ==
  ASSUME NEW o \in Int, -524288 <= o, o < 524288
  PROVE  Wide!immediate(J(2 * o, 6)) = (2 * o) % Wide!WordMod
  <1> DEFINE u == (2 * o) % 2097152
             s == u \div 1048576
             h == (u \div 32768) % 32
             g == (u \div 4096) % 8
             e == (u \div 2048) % 2
             m == (u \div 32) % 64
             l == (u \div 2) % 16
             f == J(2 * o, 6)
  <1>1. u \in Nat /\ u % 2 = 0
    BY EvenOffset, SMT
  <1>2. Wide!SignExtend(u, 2097152) = (2 * o) % Wide!WordMod
    BY ExtendPattern, SMT
  <1>3. /\ f.opcode = 111 /\ f.funct7 = s * 64 + m /\ f.rs2 = l * 2 + e
        /\ f.rs1 = h /\ f.funct3 = g
    BY SMT DEF J, R, JAL
  <1> HIDE DEF f, u
  <1>4. s * 1048576 + (h * 8 + g) * 4096 + e * 2048 + m * 32 + l * 2 = u
    BY <1>1, JumpBits, SMT
  <1>5. s \in Nat /\ m \in 0 .. 63 /\ l \in Nat /\ e \in 0 .. 1
    BY <1>1, SMT
  <1> HIDE DEF s, h, g, e, m, l
  <1>6. /\ (s * 64 + m) \div 64 = s /\ (s * 64 + m) % 64 = m
        /\ (l * 2 + e) \div 2 = l /\ (l * 2 + e) % 2 = e
    BY <1>5, SplitField, SMT
  <1>7. Wide!immediate(f) = Wide!SignExtend(s * 1048576 + (h * 8 + g) * 4096 + e * 2048
                                              + m * 32 + l * 2, 2097152)
    BY <1>3, <1>6, Formats, SMT DEF Wide!imm_j
  <1> QED
    BY <1>2, <1>4, <1>7, SMT DEF f

\* Every 12-bit immediate and every branch and jump offset comes out of the
\* decoder (decoder_control.v:86-98) as it went into the instruction.
THEOREM ImmediatesHold == Spec => []ImmediatesRight
  <1>1. ControlInv => ImmediatesRight
    <2> SUFFICES ASSUME ControlInv, start("decoder") PROVE ImmediatesRight
      BY DEF ImmediatesRight
    <2> DEFINE n == req.a
    <2>1. n \in Int /\ -2048 <= n /\ n < 2048
      <3>1. n \in -2048 .. 2047
        <4>1. req \in Warmups \cup Requests /\ req.unit = "decoder"
          BY DEF ControlInv, DriverInv, start
        <4>2. \A r \in Warmups \cup Requests : r.unit = "decoder" => r.a \in -2048 .. 2047
          BY RequestsAssumption, SMTT(60)
        <4> QED
          BY <4>1, <4>2, SMTT(60)
      <3> HIDE DEF n
      <3> QED
        BY <3>1, SMT
    <2> HIDE DEF n
    <2>2. Wide!immediate(I(OPIMM, n, 5, 3, 6)) = n % Wide!WordMod
      BY <2>1, ImmediateI, SMT
    <2>3. Wide!immediate(S(n, 6, 5, 1)) = n % Wide!WordMod
      BY <2>1, ImmediateS, SMT
    <2>4. Wide!immediate(B(2 * n, 6, 5, 1)) = (2 * n) % Wide!WordMod
      BY <2>1, ImmediateB, SMT
    <2>5. ASSUME NEW k \in 0 .. 255
          PROVE  Wide!immediate(J(2 * (256 * n + k), 6)) = (2 * (256 * n + k)) % Wide!WordMod
      <3>1. 256 * n + k \in Int /\ -524288 <= 256 * n + k /\ 256 * n + k < 524288
        BY <2>1
      <3> QED
        BY <3>1, ImmediateJ
    <2> QED
      BY <2>2, <2>3, <2>4, <2>5 DEF ImmediatesRight, n
  <1> QED
    BY <1>1, ControlStart, ControlStep, PTL DEF Spec, unitVars

-----------------------------------------------------------------------------
(* The scalar ALU's results *)

\* The operation the decoder selects for an OP instruction.
LEMMA OpControl ==
  ASSUME NEW funct3 \in 0 .. 7, NEW alt \in BOOLEAN, alt => funct3 \in {0, 5}
  PROVE  alu_control(R(OP, IF alt THEN 32 ELSE 0, 2, 1, funct3, 3)) = AluOp(funct3, alt)
  <1> DEFINE f == R(OP, IF alt THEN 32 ELSE 0, 2, 1, funct3, 3)
  <1>1. f.opcode = OP /\ f.funct7 = (IF alt THEN 32 ELSE 0) /\ f.funct3 = funct3
    BY DEF R
  <1> HIDE DEF f
  <1>2. alu_control(f) = IF alt THEN alt_alu_ctrl[funct3 + 1] ELSE base_alu_ctrl[funct3 + 1]
    <2>1. OP # OPIMM /\ OP # BRANCH /\ ~is_vmac_type(f) /\ ~is_vec_type(f)
      BY <1>1 DEF OP, OPIMM, BRANCH, is_vmac_type, is_vec_type, CUSTOM
    <2> QED
      BY <1>1, <2>1 DEF alu_control
  <1>3. funct3 \in {0, 1, 2, 3, 4, 5, 6, 7}
    OBVIOUS
  <1>4. alt => alt_alu_ctrl[funct3 + 1] = IF funct3 = 0 THEN SUB ELSE SRA
    BY DEF alt_alu_ctrl
  <1>5. base_alu_ctrl[funct3 + 1] =
          CASE funct3 = 0 -> ADD [] funct3 = 1 -> SLL [] funct3 = 2 -> SLT [] funct3 = 3 -> SLTU
            [] funct3 = 4 -> XOR [] funct3 = 5 -> SRL [] funct3 = 6 -> OR [] funct3 = 7 -> AND
    BY <1>3 DEF base_alu_ctrl
  <1> QED
    BY <1>2, <1>3, <1>4, <1>5 DEF f, AluOp

\* The shared adder and the shared shifter give the architecture's result of
\* every OP instruction, for every word size and every pair of operands.
THEOREM AluHolds == Spec => []AluCorrect
  <1>1. ControlInv => AluCorrect
    <2> SUFFICES ASSUME ControlInv, start("alu"),
                        NEW op2 \in Word, NEW funct3 \in 0 .. 7, NEW alt \in BOOLEAN,
                        alt => funct3 \in {0, 5}
                 PROVE  alu_out(req.a, op2, alu_control(R(OP, IF alt THEN 32 ELSE 0, 2, 1, funct3, 3)))
                          = AluRef(funct3, alt, req.a, op2)
      BY DEF AluCorrect
    <2>1. req.a \in Word
      BY RequestsAssumption DEF ControlInv, DriverInv, start
    <2> QED
      BY <2>1, AluIsRef, OpControl
  <1> QED
    BY <1>1, ControlStart, ControlStep, PTL DEF Spec, unitVars

-----------------------------------------------------------------------------
(* The vector ALU's results *)

\* What the vector ALU holds for its operation: the lanes of the cycles it
\* has counted are multiplied, whatever the product registers held before,
\* and with the pulse comes the architecture's result.
ValuData ==
  /\ Busy("valu") /\ valu_computing /\ req.op \in {OP_VMUL, OP_VMAC} =>
       \A i \in Lanes(req.sew) : i < 4 * valu_mul_counter =>
         valu_prod[i] = product(req.op, req.sew, req.a, req.b, i)
  /\ valu_valid_out => valu_result = ValuRef(req.op, req.sew, req.a, req.b)

\* Every step of the vector ALU keeps its products those of its operands.
LEMMA ValuDataStep ==
  ASSUME ControlInv, ValuData, Next
  PROVE  ValuData'
  <1>1. ValuStep(start("valu"), req.op, req.sew, req.a, req.b)
    BY DEF Next
  <1>2. \A sew \in 0 .. 2 : Lanes(sew) \subseteq 0 .. 7 /\ \A i \in Lanes(sew) : i < 4 * mul_cycles(sew)
    <2> SUFFICES ASSUME NEW sew \in 0 .. 2
                 PROVE  /\ Lanes(sew) \subseteq 0 .. 7
                        /\ \A i \in Lanes(sew) : i < 4 * mul_cycles(sew)
      OBVIOUS
    <2>1. \/ LanesPerWord(sew) = 4 /\ mul_cycles(sew) = 2
          \/ LanesPerWord(sew) \in {1, 2} /\ mul_cycles(sew) = 1
      BY DEF LanesPerWord, mul_cycles, SEW_8, SEW_16
    <2> QED
      BY <2>1 DEF Lanes
  <1>3. CASE ~valu_computing
    <2>1. \/ ValuStart(start("valu"))
          \/ ValuIdle(start("valu"))
      BY <1>1, <1>3 DEF ValuStep, ValuAddSub, ValuMultiply, ValuFinish, ValuReservedWidth
    <2>2. valu_valid_out' = FALSE
      BY <2>1 DEF ValuStart, ValuIdle
    <2>3. valu_computing' => valu_mul_counter' = 0
      BY <1>3, <2>1 DEF ValuStart, ValuIdle
    <2>4. \A sew \in 0 .. 2 : \A i \in Lanes(sew) : ~(i < 4 * 0)
      BY <1>2
    <2>5. Busy("valu")' => req'.sew \in 0 .. 2
      <3>1. DriverInv'
        BY DriverMoves DEF ControlInv
      <3> QED
        BY <3>1, RequestsAssumption DEF DriverInv, Busy
    <2> QED
      BY <2>2, <2>3, <2>4, <2>5 DEF ValuData
  <1>4. CASE valu_computing
    <2>1. phase = "wait" /\ req.unit = "valu" /\ valu_valid_out = FALSE
      BY <1>4 DEF ControlInv, ValuInv, Busy
    <2>2. req' = req
      BY <2>1, DriverMoves DEF ControlInv
    <2>3. req.op \in 0 .. 3 /\ req.sew \in 0 .. 2 /\ req.a \in VWord /\ req.b \in VWord
      BY <2>1, RequestsAssumption DEF ControlInv, DriverInv
    <2>4. CASE ValuAddSub(req.op, req.sew, req.a, req.b)
      <3>1. /\ req.op \in {OP_VADD, OP_VSUB} /\ valu_computing' = FALSE
            /\ valu_result' = IF req.op = OP_VADD THEN vadd_result(req.a, req.b, req.sew)
                              ELSE vsub_result(req.a, req.b, req.sew)
        BY <2>4 DEF ValuAddSub
      <3>2. valu_result' = ValuRef(req.op, req.sew, req.a, req.b)
        BY <2>3, <3>1, AddSubIsRef DEF OP_VADD, OP_VSUB
      <3> QED
        BY <2>2, <3>1, <3>2 DEF ValuData
    <2>5. CASE ValuMultiply(req.op, req.sew, req.a, req.b)
      <3> DEFINE c == valu_mul_counter
      <3>1. /\ req.op \in {OP_VMUL, OP_VMAC} /\ valu_mul_counter' = c + 1
            /\ valu_valid_out' = FALSE
            /\ valu_prod' = [i \in 0 .. 7 |-> IF i \in multiplied_in(c, req.sew)
                                              THEN product(req.op, req.sew, req.a, req.b, i)
                                              ELSE valu_prod[i]]
        BY <2>1, <2>5 DEF ValuMultiply
      <3>2. c \in Nat
        <4>1. req.op \notin {OP_VADD, OP_VSUB}
          BY <3>1 DEF OP_VADD, OP_VSUB, OP_VMUL, OP_VMAC
        <4> QED
          BY <1>4, <2>1, <4>1 DEF ControlInv, DriverInv, ValuInv, Busy
      <3>3. \A i \in Lanes(req.sew) : i < 4 * c => valu_prod[i] = product(req.op, req.sew, req.a, req.b, i)
        BY <1>4, <2>1, <3>1 DEF ValuData, Busy
      <3> HIDE DEF c
      <3>4. ASSUME NEW i \in Lanes(req.sew), i < 4 * (c + 1)
            PROVE  valu_prod'[i] = product(req.op, req.sew, req.a, req.b, i)
        <4>1. i \in 0 .. 7
          BY <1>2, <2>3
        <4>2. i < 4 * c \/ i \in multiplied_in(c, req.sew)
          BY <3>2, <3>4, <4>1 DEF multiplied_in
        <4> QED
          BY <3>1, <3>3, <4>1, <4>2
      <3> QED
        BY <2>2, <3>1, <3>4 DEF ValuData
    <2>6. CASE ValuFinish(req.op, req.sew)
      <3>1. /\ req.op \in {OP_VMUL, OP_VMAC} /\ valu_mul_counter = mul_cycles(req.sew)
            /\ valu_result' = packed_products(valu_prod, req.op, req.sew)
            /\ valu_computing' = FALSE
        BY <2>6 DEF ValuFinish
      <3>2. Fresh(valu_prod, req.op, req.sew, req.a, req.b)
        BY <1>2, <1>4, <2>1, <2>3, <3>1 DEF ValuData, Fresh, Busy
      <3>3. valu_result' = ValuRef(req.op, req.sew, req.a, req.b)
        BY <2>3, <3>1, <3>2, ProductsAreRef
      <3> QED
        BY <2>2, <3>1, <3>3 DEF ValuData
    <2> QED
      BY <1>1, <1>4, <2>3, <2>4, <2>5, <2>6 DEF ValuStep, ValuStart, ValuReservedWidth, ValuIdle
  <1> QED
    BY <1>3, <1>4 DEF ControlInv, ValuInv

\* A completion pulse of the vector ALU comes with the result the
\* architecture defines (valu.v:182-355), for every operation, element
\* width and pair of vectors and whatever operation was there before: no
\* lane is left out, taken twice or left with an earlier product.
THEOREM ValuResultHolds == Spec => []ValuResultRight
  <1>1. Init => ValuData
    BY DEF Init, ValuInit, ValuData
  <1>2. ControlInv /\ ValuData /\ [Next]_unitVars => ValuData'
    <2>1. ASSUME ControlInv, ValuData, UNCHANGED unitVars PROVE ValuData'
      BY <2>1 DEF ValuData, Busy, unitVars, valuVars, driverVars
    <2> QED
      BY <2>1, ValuDataStep
  <1>3. ValuData => ValuResultRight
    BY DEF ValuData, ValuResultRight, ValuRef
  <1> QED
    BY <1>1, <1>2, <1>3, ControlStart, ControlStep, PTL DEF Spec, unitVars
=============================================================================
