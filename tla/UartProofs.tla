----------------------------- MODULE UartProofs ------------------------------
(***************************************************************************)
(* Proofs about the serial port that hold wherever it stands: behind the   *)
(* core's bus (Top) and behind the firmware's routines (SimHost).          *)
(***************************************************************************)
EXTENDS Uart, WordProofs, TLAPS

\* The serial port's counters stay inside a bit and a byte, and the
\* transmitter leaves IDLE only for a write (uart.v:102-171, 178-266).
LEMMA UartMoves ==
  ASSUME NEW valid \in BOOLEAN, NEW write \in BOOLEAN, NEW addr, NEW data, NEW rx \in {0, 1},
         UartTypeOK, UartStep(valid, write, addr, data, rx)
  PROVE  /\ UartTypeOK'
         /\ uart_resp_valid' <=> (valid /\ req_addr(addr) \in {RX, STATUS})
         /\ tx_state = "IDLE" /\ ~(valid /\ write) => tx_state' = "IDLE"
  <1> USE ClockDivAssumption, ByteBitsOK DEF UartTypeOK, LineState, sample_at
  <1>1. /\ tx_state' \in LineState /\ tx_counter' \in 0 .. ByteBits - 1
        /\ tx_baud_counter' \in 0 .. ClockDiv - 1
        /\ tx_state = "IDLE" /\ ~(valid /\ write) => tx_state' = "IDLE"
    <2>1. CASE TxIdle(valid, write, addr, data)
      BY <2>1 DEF TxIdle
    <2>2. CASE TxHoldBit
      BY <2>2 DEF TxHoldBit
    <2>3. CASE TxEndBit
      BY <2>3 DEF TxEndBit
    <2> QED
      BY <2>1, <2>2, <2>3 DEF UartStep, UartTx
  <1>2. /\ rx_state' \in LineState /\ rx_counter' \in 0 .. ByteBits - 1
        /\ rx_baud_counter' \in 0 .. sample_at'
    <2>1. CASE RxIdle(rx)
      BY <2>1 DEF RxIdle
    <2>2. CASE RxCount
      BY <2>2 DEF RxCount
    <2>3. CASE RxStart(rx)
      BY <2>3 DEF RxStart
    <2>4. CASE RxData(rx)
      BY <2>4 DEF RxData
    <2>5. CASE RxStop(rx)
      BY <2>5 DEF RxStop
    <2> QED
      BY <2>1, <2>2, <2>3, <2>4, <2>5 DEF UartStep, UartRx
  <1>3. rx_line_prev' \in {0, 1} /\ rx_byte_valid' \in BOOLEAN
    BY ZenonT(30) DEF UartStep, UartRx, RxIdle, RxCount, RxStart, RxData, RxStop
  <1>4. uart_resp_valid' = (valid /\ req_addr(addr) \in {RX, STATUS})
    BY DEF UartStep, UartRespond
  <1> QED
    BY <1>1, <1>2, <1>3, <1>4

\* The data registers: the byte being sent stays a byte, and what a read
\* returns is a number.
UartDataOK == data_to_send \in Byte /\ rx_byte \in Int /\ uart_resp_data \in Int

\* The codes of the states are 0 to 3 (uart.v:50-53, 99-102).
LEMMA CodeIsSmall ==
  ASSUME NEW state \in LineState
  PROVE  code(state) \in 0 .. 3
  <1>1. \E i \in 0 .. 3 : LineStates[i + 1] = state
    BY DEF LineStates, LineState
  <1> QED
    BY <1>1 DEF code

\* The data registers of the serial port keep their types, and the line it
\* drives is always 0 or 1 (uart.v:65-95, 104-177, 179-266).
LEMMA UartDataMoves ==
  ASSUME NEW valid \in BOOLEAN, NEW write \in BOOLEAN, NEW addr, NEW data \in Byte,
         NEW rx \in {0, 1},
         UartTypeOK, UartDataOK, UartStep(valid, write, addr, data, rx)
  PROVE  UartDataOK'
  <1> USE ByteModOK, ByteBitsOK
  <1>1. data_to_send' \in Byte
    BY DEF UartStep, UartTx, TxIdle, TxHoldBit, TxEndBit, UartDataOK, Byte
  <1>2. rx_byte' \in Int
    <2>1. CASE RxData(rx)
      <3>1. rx_counter \in Nat /\ rx_byte \in Int /\ rx \in Int
        BY DEF UartTypeOK, UartDataOK
      <3>2. Bit(rx_byte, rx_counter) \in Int
        BY <3>1, BitIsBit
      <3>3. 2^rx_counter \in Int
        BY <3>1
      <3>4. (rx - Bit(rx_byte, rx_counter)) * 2^rx_counter \in Int
        BY <3>1, <3>2, <3>3
      <3> QED
        BY <2>1, <3>1, <3>4 DEF RxData, SetBit
    <2>2. CASE ~RxData(rx)
      BY <2>2 DEF UartStep, UartRx, RxIdle, RxCount, RxStart, RxStop, UartDataOK
    <2> QED
      BY <2>1, <2>2
  <1>3. uart_resp_data' \in Int
    <2>1. ByteMod \in Int /\ rx_byte \in Int /\ Flag(rx_byte_valid) \in Int /\ NoData \in Int
      BY NoDataAssumption DEF UartDataOK, Flag
    <2>2. rx_byte + ByteMod * Flag(rx_byte_valid) \in Int
      BY <2>1
    <2>3. code(tx_state) \in Int /\ code(rx_state) \in Int
      BY CodeIsSmall DEF UartTypeOK
    <2>4. status \in Int
      BY <2>1, <2>3 DEF status
    <2> QED
      BY <2>1, <2>2, <2>4 DEF UartStep, UartRespond
  <1> QED
    BY <1>1, <1>2, <1>3 DEF UartDataOK

\* The transmitter's line.
LEMMA TxIsBit == UartTypeOK /\ UartDataOK => tx \in {0, 1}
  <1> SUFFICES ASSUME UartTypeOK, UartDataOK PROVE tx \in {0, 1}
    OBVIOUS
  <1>1. tx_counter \in Nat /\ data_to_send \in Int
    BY ByteModOK, ByteBitsOK DEF UartTypeOK, UartDataOK, Byte
  <1> QED
    BY <1>1, BitIsBit DEF tx
=============================================================================
