--------------------------------- MODULE Uart --------------------------------
(***************************************************************************)
(* The serial port (uart.v): a register that answers reads, a transmitter  *)
(* and a receiver, each a machine of four states that counts ClockDiv      *)
(* clock cycles per bit.  A frame is a start bit (0), the bits of a byte,  *)
(* lowest first, and a stop bit (1); the line rests at 1.                  *)
(* The bus request is a parameter; so is the level of the line rx.         *)
(* config_loopback is never set, so its branch is left out.                *)
(***************************************************************************)
EXTENDS Words

CONSTANTS
  ClockDiv,    \* CLOCK_DIV, the clock cycles of a bit (434 in uart.v)
  NoData       \* what resp_data shows without an answer (32'hdeadbeef)

\* The start bit is sampled a half bit plus one cycle after its edge, and
\* the counters have ten bits.
ASSUME ClockDivAssumption == ClockDiv \in 3 .. 1024
ASSUME NoDataAssumption == NoData \in Nat

VARIABLES
  uart_resp_valid, uart_resp_data,
  tx_state, tx_counter, tx_baud_counter, data_to_send,
  rx_state, rx_counter, rx_baud_counter, rx_byte, rx_line_prev, rx_byte_valid

txVars == << tx_state, tx_counter, tx_baud_counter, data_to_send >>
rxVars == << rx_state, rx_counter, rx_baud_counter, rx_byte, rx_line_prev, rx_byte_valid >>
uartVars == << uart_resp_valid, uart_resp_data, txVars, rxVars >>

LineStates == << "IDLE", "START", "DATA", "STOP" >>
LineState == {"IDLE", "START", "DATA", "STOP"}
code(state) == CHOOSE i \in 0 .. 3 : LineStates[i + 1] = state

\* req_addr, the low eight bits of the address, and the registers there.
req_addr(addr) == addr % 256
TX     == 0
RX     == 4
STATUS == 8

uart_req_ready == tx_state = "IDLE"
status == code(tx_state) + ByteMod * code(rx_state)

tx == CASE tx_state = "START" -> 0
        [] tx_state = "DATA"  -> Bit(data_to_send, tx_counter)
        [] OTHER              -> 1

-----------------------------------------------------------------------------
(* The register interface *)

\* A request is answered at every edge it is up, a write like a read, and
\* whether or not ready is high; the other registers are never answered.
UartRespond(valid, addr) ==
  /\ uart_resp_valid' = (valid /\ req_addr(addr) \in {RX, STATUS})
  /\ uart_resp_data' =
       CASE valid /\ req_addr(addr) = RX     -> rx_byte + ByteMod * Flag(rx_byte_valid)
         [] valid /\ req_addr(addr) = STATUS -> status
         [] OTHER                            -> NoData

-----------------------------------------------------------------------------
(* The transmitter *)

TxIdle(valid, write, addr, data) ==
  LET send == valid /\ write /\ req_addr(addr) = TX
  IN  /\ tx_state = "IDLE"
      /\ tx_state' = IF send THEN "START" ELSE "IDLE"
      /\ data_to_send' = IF send THEN data % ByteMod ELSE data_to_send
      /\ tx_baud_counter' = IF send THEN 0 ELSE tx_baud_counter
      /\ tx_counter' = IF send THEN 0 ELSE tx_counter

TxHoldBit ==
  /\ tx_state # "IDLE" /\ tx_baud_counter # ClockDiv - 1
  /\ tx_baud_counter' = (tx_baud_counter + 1) % 1024
  /\ UNCHANGED << tx_state, tx_counter, data_to_send >>

\* A transmitter that looks for one data bit too many:
TxEndBit_no_stop ==
  /\ tx_state # "IDLE" /\ tx_baud_counter = ClockDiv - 1
  /\ tx_baud_counter' = 0
  /\ tx_state' = CASE tx_state = "START"                           -> "DATA"
                   [] tx_state = "DATA" /\ tx_counter # ByteBits -> "DATA"
                   [] tx_state = "DATA" /\ tx_counter = ByteBits -> "STOP"
                   [] tx_state = "STOP"                            -> "IDLE"
  /\ tx_counter' = IF tx_state = "DATA" THEN (tx_counter + 1) % ByteBits ELSE tx_counter
  /\ UNCHANGED data_to_send

\* The end of a bit, of START, of each of the data bits and of STOP.
TxEndBit ==
  /\ tx_state # "IDLE" /\ tx_baud_counter = ClockDiv - 1
  /\ tx_baud_counter' = 0
  /\ tx_state' = CASE tx_state = "START"                               -> "DATA"
                   [] tx_state = "DATA" /\ tx_counter # ByteBits - 1 -> "DATA"
                   [] tx_state = "DATA" /\ tx_counter = ByteBits - 1 -> "STOP"
                   [] tx_state = "STOP"                                -> "IDLE"
  /\ tx_counter' = CASE tx_state # "DATA"           -> tx_counter
                     [] tx_counter = ByteBits - 1 -> 0
                     [] OTHER                       -> tx_counter + 1
  /\ UNCHANGED data_to_send

UartTx(valid, write, addr, data) ==
  \/ TxIdle(valid, write, addr, data)
  \/ TxHoldBit
  \/ TxEndBit

-----------------------------------------------------------------------------
(* The receiver *)

RxIdle(rx) ==
  LET falling == rx_line_prev = 1 /\ rx = 0
  IN  /\ rx_state = "IDLE"
      /\ rx_state' = IF falling THEN "START" ELSE "IDLE"
      /\ rx_baud_counter' = IF falling THEN 0 ELSE rx_baud_counter
      /\ rx_byte' = IF falling THEN 0 ELSE rx_byte
      /\ rx_byte_valid' = FALSE
      /\ UNCHANGED rx_counter

\* The cycles of the current bit before it is sampled; a receiver that
\* waited a whole bit for the first sample would be half a bit late.
sample_at_whole == ClockDiv - 1
sample_at == IF rx_state = "START" THEN ClockDiv \div 2 ELSE ClockDiv - 1

RxCount ==
  /\ rx_state # "IDLE" /\ rx_baud_counter # sample_at
  /\ rx_baud_counter' = (rx_baud_counter + 1) % 1024
  /\ rx_byte_valid' = FALSE
  /\ UNCHANGED << rx_state, rx_counter, rx_byte >>

\* The middle of the start bit; a line back at 1 is a framing error.
RxStart(rx) ==
  /\ rx_state = "START" /\ rx_baud_counter = sample_at
  /\ rx_state' = IF rx = 0 THEN "DATA" ELSE "IDLE"
  /\ rx_counter' = IF rx = 0 THEN 0 ELSE rx_counter
  /\ rx_baud_counter' = 0
  /\ rx_byte_valid' = FALSE
  /\ UNCHANGED rx_byte

\* rx_byte with bit i set to v.
SetBit(byte, i, v) == byte + (v - Bit(byte, i)) * 2^i

RxData(rx) ==
  /\ rx_state = "DATA" /\ rx_baud_counter = sample_at
  /\ rx_byte' = SetBit(rx_byte, rx_counter, rx)
  /\ rx_baud_counter' = 0
  /\ rx_state' = IF rx_counter = ByteBits - 1 THEN "STOP" ELSE "DATA"
  /\ rx_counter' = IF rx_counter = ByteBits - 1 THEN rx_counter ELSE rx_counter + 1
  /\ rx_byte_valid' = FALSE

\* rx_byte_valid rises for one cycle, if the stop bit is there.
RxStop(rx) ==
  /\ rx_state = "STOP" /\ rx_baud_counter = sample_at
  /\ rx_state' = "IDLE"
  /\ rx_baud_counter' = 0
  /\ rx_byte_valid' = (rx = 1)
  /\ UNCHANGED << rx_counter, rx_byte >>

UartRx(rx) ==
  /\ rx_line_prev' = rx
  /\ RxIdle(rx) \/ RxCount \/ RxStart(rx) \/ RxData(rx) \/ RxStop(rx)

-----------------------------------------------------------------------------

UartStep(valid, write, addr, data, rx) ==
  /\ UartRespond(valid, addr)
  /\ UartTx(valid, write, addr, data)
  /\ UartRx(rx)

\* tx_counter and tx_baud_counter have no reset.
UartReset ==
  /\ uart_resp_valid' = FALSE /\ uart_resp_data' = NoData
  /\ tx_state' = "IDLE" /\ data_to_send' = 0
  /\ UNCHANGED << tx_counter, tx_baud_counter >>
  /\ rx_state' = "IDLE" /\ rx_baud_counter' = 0 /\ rx_counter' = 0 /\ rx_byte' = 0
  /\ rx_line_prev' = 1 /\ rx_byte_valid' = FALSE

\* After the power-on reset.
UartInit ==
  /\ uart_resp_valid = FALSE /\ uart_resp_data = NoData
  /\ tx_state = "IDLE" /\ data_to_send = 0
  /\ tx_counter = 0 /\ tx_baud_counter = 0
  /\ rx_state = "IDLE" /\ rx_baud_counter = 0 /\ rx_counter = 0 /\ rx_byte = 0
  /\ rx_line_prev = 1 /\ rx_byte_valid = FALSE

\* The control of the port: the counters stay inside a bit and a byte, and
\* the receiver's never passes the point at which it samples.
UartTypeOK ==
  /\ uart_resp_valid \in BOOLEAN /\ rx_byte_valid \in BOOLEAN
  /\ tx_state \in LineState /\ rx_state \in LineState /\ rx_line_prev \in {0, 1}
  /\ tx_counter \in 0 .. ByteBits - 1 /\ rx_counter \in 0 .. ByteBits - 1
  /\ tx_baud_counter \in 0 .. ClockDiv - 1 /\ rx_baud_counter \in 0 .. sample_at
=============================================================================
