------------------------------ MODULE BitDriver ------------------------------
(***************************************************************************)
(* UARTBitDriver (top.cc:97-216), the host's end of the serial line: it    *)
(* drives the design's rx and decodes the design's tx.                     *)
(* The class keeps the cycle at which a bit began and a running count of   *)
(* cycles; only their difference matters, and the model keeps that.  Bit   *)
(* index -1 is idle, 0 the start bit, then the data bits and the stop bit. *)
(***************************************************************************)
EXTENDS Words

CONSTANT CyclesPerBit      \* cycles_per_bit, 50000000 / 115200 in top.cc

ASSUME CyclesPerBitAssumption == CyclesPerBit \in Nat \ {0}

VARIABLES
  drv_tx,      \* tx_byte, tx_bit_index and cycle_counter - tx_bit_start_cycle
  drv_rx,      \* the same of the receiving side
  drv_rx_prev  \* rx_line_prev

driverVars == << drv_tx, drv_rx, drv_rx_prev >>

STOP_BIT == ByteBits + 1

Quiet == [byte |-> 0, index |-> -1, elapsed |-> 0]

DriverInit == drv_tx = Quiet /\ drv_rx = Quiet /\ drv_rx_prev = 1

\* tick
Ticked(d) == IF d.index = -1 THEN d ELSE [d EXCEPT !.elapsed = @ + 1]

is_idle == drv_tx.index = -1

\* start_tx, after the tick of the same cycle
StartTx(byte) == [byte |-> byte, index |-> 0, elapsed |-> 0]

\* The bit after this one, or rest after the stop bit.
NextBit(d) == IF d.index + 1 > STOP_BIT THEN Quiet
              ELSE [d EXCEPT !.index = @ + 1, !.elapsed = 0]

\* get_tx_line: the driver moves on at the end of a bit, then shows a level.
Advanced(d) == IF d.index # -1 /\ d.elapsed >= CyclesPerBit THEN NextBit(d) ELSE d
Level(d) == CASE d.index = 0             -> 0
              [] d.index \in 1 .. ByteBits -> Bit(d.byte, d.index - 1)
              [] OTHER                     -> 1

-----------------------------------------------------------------------------
(* sample_rx *)

\* A falling edge on an idle line begins a frame.
Begun(d, prev, line) ==
  IF d.index = -1 /\ prev = 1 /\ line = 0 THEN [byte |-> 0, index |-> 0, elapsed |-> 0] ELSE d

\* A sample at the end of the bit is a sample of the next one.
in_middle_late(d) == d.elapsed = CyclesPerBit
in_middle(d) == d.elapsed = CyclesPerBit \div 2

framing_error(d, line) ==
  in_middle(d) /\ \/ d.index = 0 /\ line = 1
                  \/ d.index = STOP_BIT /\ line = 0

\* A data bit is or-ed in at the middle of its period.
Sampled(d, line) ==
  IF in_middle(d) /\ d.index \in 1 .. ByteBits /\ line = 1
  THEN [d EXCEPT !.byte = @ + (1 - Bit(@, d.index - 1)) * 2^(d.index - 1)]
  ELSE d

\* The end of the stop bit hands the byte over.
is_complete(d) == d.index = STOP_BIT /\ d.elapsed >= CyclesPerBit

\* The receiving side after a look at the line, from its state after the
\* tick; and the byte it returns, as a sequence of at most one.
RxAfter(d, prev, line) ==
  LET s == Begun(d, prev, line)
  IN  IF s.index = -1 \/ framing_error(s, line) THEN Quiet ELSE Advanced(Sampled(s, line))
RxReturns(d, prev, line) ==
  LET s == Begun(d, prev, line)
  IN  IF s.index # -1 /\ ~framing_error(s, line) /\ is_complete(s)
      THEN << Sampled(s, line).byte >> ELSE << >>
=============================================================================
