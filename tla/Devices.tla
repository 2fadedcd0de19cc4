------------------------------- MODULE Devices -------------------------------
(***************************************************************************)
(* The device page of top.v: the serial port, or the parallel port that    *)
(* stands in for it while sim_use_par_txrx is set.  The simulator sets     *)
(* that register once, after the power-on reset (top.cc:328); any later    *)
(* reset clears it (top.v:19-26).                                          *)
(***************************************************************************)
EXTENDS Uart, ParPort

VARIABLE sim_use_par_txrx

deviceVars == << uartVars, parVars, sim_use_par_txrx >>

\* Addresses the serial port serves.
serial(addr) == is_uart(addr) /\ ~sim_use_par_txrx

\* What the page returns for a read of raddr.
device_rdata(raddr) == IF serial(raddr) THEN uart_resp_data ELSE par_rdata(raddr)

\* One clock edge: req is the request on the bus, the others are the pins.
DeviceStep(req, par_rx_valid, par_rx, rx) ==
  /\ ParRxStep(sim_use_par_txrx, req, par_rx_valid, par_rx)
  /\ ParTxStep(sim_use_par_txrx, req)
  /\ UartStep(req.valid /\ serial(req.addr), req.write, req.addr, req.wdata, rx)
  /\ UNCHANGED sim_use_par_txrx

DeviceReset ==
  /\ ParReset
  /\ UartReset
  /\ sim_use_par_txrx' = FALSE

DeviceInit(modes) ==
  /\ UartInit
  /\ ParInit
  /\ sim_use_par_txrx \in modes
=============================================================================
