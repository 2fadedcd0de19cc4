------------------------------- MODULE ParPort -------------------------------
(***************************************************************************)
(* The parallel port of top.v (top.v:94-144): the registers through which  *)
(* the simulation host exchanges bytes with the program when               *)
(* sim_use_par_txrx is set, in place of the serial port.                   *)
(***************************************************************************)
EXTENDS Words

CONSTANT UartPage      \* addr[31:12] of the device page (20'h10000 in top.v)

ASSUME UartPageAssumption == UartPage \in Nat

VARIABLES par_rx_ack, par_rx_valid_latch, par_rx_latch, par_tx, par_tx_valid

parVars == << par_rx_ack, par_rx_valid_latch, par_rx_latch, par_tx, par_tx_valid >>

is_uart(addr) == addr \div 4096 = UartPage

\* What a read of the page returns: nothing is ever left to send.
par_rdata(raddr) ==
  IF raddr % 4096 = 8 THEN 0 ELSE Flag(par_rx_valid_latch) * ByteMod + par_rx_latch

\* Any read of the page takes the byte the host presents, if any.
ParRxStep(on, req, par_rx_valid, par_rx) ==
  LET take == req.valid /\ ~req.write /\ is_uart(req.addr) /\ on /\ par_rx_valid
  IN  /\ par_rx_ack' = take
      /\ par_rx_valid_latch' = take
      /\ par_rx_latch' = IF take THEN par_rx ELSE 0

ParTxStep(on, req) ==
  LET send == req.valid /\ req.write /\ is_uart(req.addr) /\ on
  IN  /\ par_tx' = IF send THEN req.wdata % ByteMod ELSE par_tx
      /\ par_tx_valid' = send

\* The latches have no reset.
ParReset ==
  /\ par_rx_ack' = FALSE
  /\ UNCHANGED << par_rx_valid_latch, par_rx_latch >>
  /\ par_tx' = 0 /\ par_tx_valid' = FALSE

ParInit ==
  /\ par_rx_ack = FALSE /\ par_rx_valid_latch = FALSE /\ par_rx_latch = 0
  /\ par_tx = 0 /\ par_tx_valid = FALSE
=============================================================================
