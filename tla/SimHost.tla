------------------------------- MODULE SimHost -------------------------------
(***************************************************************************)
(* The simulator's process (top.cc): the main thread, which turns the      *)
(* clock and carries bytes between the terminal and the design, the thread *)
(* that watches for a break, the handler of Ctrl+C, and the shutdown.      *)
(* One pass through the loop of main is one step: it shares with the other *)
(* thread only flags that are read once a pass.                            *)
(***************************************************************************)
EXTENDS Hal, BitDriver, SequencesExt

CONSTANTS
  FifoSize,    \* slots of rx_fifo (256 in top.cc)
  Keys,        \* bytes the terminal may deliver, other than Ctrl+D (4)
  CanStop,     \* whether Ctrl+D and Ctrl+C may be pressed
  ParModes,    \* par_txrx as main leaves it: {TRUE} in top.cc
  MaxTyped     \* bound: bytes queued in a behaviour

ASSUME FifoAssumption == FifoSize \in Nat \ {0, 1}
ASSUME KeysAssumption == Keys \subseteq Byte \ {4} /\ CanStop \in BOOLEAN /\ MaxTyped \in Nat
ASSUME HostModesAssumption == ParModes \subseteq BOOLEAN

VARIABLES
  rx_fifo,               \* slots, rx_fifo_head, rx_fifo_tail
  par_rx, par_rx_valid,  \* the pins the host drives
  main, monitor,         \* where the two threads are
  interrupted, ebreak_hit,
  global_dut,            \* the pointer is not null
  dut_alive,             \* the design it points to has not been deleted
  typed, printed,        \* history: bytes queued, bytes shown
  delivered              \* history: bytes the serial receiver pulsed for

pinVars    == << rx_fifo, par_rx, par_rx_valid >>
threadVars == << main, monitor, interrupted, ebreak_hit, global_dut, dut_alive >>
vars == << deviceVars, halVars, driverVars, pinVars, threadVars, typed, printed, delivered >>

\* auto par_txrx: main copies the register once, and never resets again.
par_txrx == sim_use_par_txrx

-----------------------------------------------------------------------------
(* The receive FIFO *)

\* A test that takes a ring with one byte left for an empty one:
Empty_one_left(f) == f.head = f.tail \/ (f.head + 1) % FifoSize = f.tail
Empty(f)   == f.head = f.tail
Oldest(f)  == f.slot[f.head]
\* A head that is not taken round the ring would leave it.
Dequeue_straight(f) == [f EXCEPT !.head = @ + 1]
Dequeue(f) == [f EXCEPT !.head = (@ + 1) % FifoSize]

is_full(f) == (f.tail + 1) % FifoSize = f.head

\* A byte for a full FIFO is dropped; a bug would go round the ring.
Enqueue_unchecked(f, byte) ==
  [f EXCEPT !.slot[f.tail] = byte, !.tail = (@ + 1) % FifoSize]
Enqueue(f, byte) ==
  IF is_full(f) THEN f
  ELSE [f EXCEPT !.slot[f.tail] = byte, !.tail = (@ + 1) % FifoSize]

Contents(f) == [i \in 1 .. (f.tail - f.head) % FifoSize |-> f.slot[(f.head + i - 1) % FifoSize]]

\* What the terminal delivers in a pass: nothing, or a byte.
ReadTerminal(f) ==
  \/ f = rx_fifo /\ UNCHANGED typed
  \/ /\ Len(typed) < MaxTyped
     /\ \E byte \in Keys :
          /\ f = Enqueue(rx_fifo, byte)
          /\ typed' = IF is_full(rx_fifo) THEN typed ELSE Append(typed, byte)

-----------------------------------------------------------------------------
(* A pass through the loop *)

\* The acknowledged byte is withdrawn, and the next one offered at once.
PresentParallel(f) ==
  LET pending == par_rx_valid /\ ~par_rx_ack
      present == ~pending /\ ~Empty(f)
  IN  /\ par_rx_valid' = (pending \/ present)
      /\ par_rx' = IF present THEN Oldest(f) ELSE par_rx
      /\ rx_fifo' = IF present THEN Dequeue(f) ELSE f
      /\ drv_tx' = Advanced(Ticked(drv_tx))

StartSerial(f) ==
  LET start == is_idle /\ ~Empty(f)
  IN  /\ drv_tx' = Advanced(IF start THEN StartTx(Oldest(f)) ELSE Ticked(drv_tx))
      /\ rx_fifo' = IF start THEN Dequeue(f) ELSE f
      /\ UNCHANGED << par_rx, par_rx_valid >>

\* A host that looks at the design's output before the clock edge:
ShowParallel_early ==
  /\ printed' = IF par_tx_valid THEN Append(printed, par_tx) ELSE printed
  /\ UNCHANGED << drv_rx, drv_rx_prev >>

\* The design's output is looked at after the clock edge.
ShowParallel ==
  /\ printed' = IF par_tx_valid' THEN Append(printed, par_tx') ELSE printed
  /\ UNCHANGED << drv_rx, drv_rx_prev >>

ShowSerial ==
  /\ drv_rx' = RxAfter(Ticked(drv_rx), drv_rx_prev, tx')
  /\ drv_rx_prev' = tx'
  /\ printed' = printed \o RxReturns(Ticked(drv_rx), drv_rx_prev, tx')

running == main = "loop" /\ ~interrupted /\ ~ebreak_hit

Pass(program) ==
  /\ running
  /\ \E f \in {rx_fifo} \cup {Enqueue(rx_fifo, byte) : byte \in Keys} :
       /\ ReadTerminal(f)
       /\ IF par_txrx THEN PresentParallel(f) ELSE StartSerial(f)
  /\ DeviceStep(hreq, par_rx_valid', par_rx', Level(drv_tx'))
  /\ program
  /\ IF par_txrx THEN ShowParallel ELSE ShowSerial
  /\ delivered' = IF rx_byte_valid' THEN Append(delivered, rx_byte') ELSE delivered
  /\ UNCHANGED threadVars

Iterate == Pass(HalStep)
IterateBusy == Pass(HalBusy)

-----------------------------------------------------------------------------
(* The main thread outside the loop *)

designVars == << deviceVars, halVars, driverVars, pinVars, typed, printed, delivered >>

\* The monitor thread runs already; without a trace file main returns.
OpenTrace ==
  /\ main = "opening"
  /\ main' \in {"loop", "ended"}
  /\ UNCHANGED << monitor, interrupted, ebreak_hit, global_dut, dut_alive, designVars >>

LeaveLoop ==
  /\ main = "loop" /\ (interrupted \/ ebreak_hit)
  /\ main' = "leaving"
  /\ UNCHANGED << monitor, interrupted, ebreak_hit, global_dut, dut_alive, designVars >>

\* The pass that reads Ctrl+D breaks off before it touches the design.
CtrlD ==
  /\ running /\ CanStop
  /\ main' = "leaving"
  /\ UNCHANGED << monitor, interrupted, ebreak_hit, global_dut, dut_alive, designVars >>

TellMonitor ==
  /\ main = "leaving"
  /\ interrupted' = TRUE
  /\ main' = "joining"
  /\ UNCHANGED << monitor, ebreak_hit, global_dut, dut_alive, designVars >>

\* A main thread that does not wait for the monitor:
Join_none ==
  /\ main = "joining"
  /\ main' = "deleting"
  /\ UNCHANGED << monitor, interrupted, ebreak_hit, global_dut, dut_alive, designVars >>

Join ==
  /\ main = "joining" /\ monitor = "exited"
  /\ main' = "deleting"
  /\ UNCHANGED << monitor, interrupted, ebreak_hit, global_dut, dut_alive, designVars >>

Delete ==
  /\ main = "deleting"
  /\ dut_alive' = FALSE
  /\ main' = "clearing"
  /\ UNCHANGED << monitor, interrupted, ebreak_hit, global_dut, designVars >>

ClearPointer ==
  /\ main = "clearing"
  /\ global_dut' = FALSE
  /\ main' = "ended"
  /\ UNCHANGED << monitor, interrupted, ebreak_hit, dut_alive, designVars >>

MainStep == \/ OpenTrace \/ Iterate \/ LeaveLoop \/ TellMonitor \/ Join \/ Delete \/ ClearPointer

-----------------------------------------------------------------------------
(* The signal handler and the monitor thread *)

\* signal_handler
CtrlC ==
  /\ main # "ended" /\ CanStop
  /\ interrupted' = TRUE
  /\ UNCHANGED << main, monitor, ebreak_hit, global_dut, dut_alive, designVars >>

MonitorTest ==
  /\ main # "ended" /\ monitor = "test"
  /\ monitor' = IF ~interrupted /\ ~ebreak_hit THEN "sleeping" ELSE "exited"
  /\ UNCHANGED << main, interrupted, ebreak_hit, global_dut, dut_alive, designVars >>

MonitorWake ==
  /\ main # "ended" /\ monitor = "sleeping"
  /\ monitor' = "awake"
  /\ UNCHANGED << main, interrupted, ebreak_hit, global_dut, dut_alive, designVars >>

MonitorCheck ==
  /\ main # "ended" /\ monitor = "awake"
  /\ monitor' = IF global_dut THEN "reading" ELSE "test"
  /\ UNCHANGED << main, interrupted, ebreak_hit, global_dut, dut_alive, designVars >>

\* A monitor that leaves without raising the flag:
MonitorRead_silent ==
  /\ main # "ended" /\ monitor = "reading"
  /\ monitor' = IF break_hit THEN "exited" ELSE "test"
  /\ UNCHANGED << main, interrupted, ebreak_hit, global_dut, dut_alive, designVars >>

MonitorRead ==
  /\ main # "ended" /\ monitor = "reading"
  /\ ebreak_hit' = (ebreak_hit \/ break_hit)
  /\ monitor' = IF break_hit THEN "exited" ELSE "test"
  /\ UNCHANGED << main, interrupted, global_dut, dut_alive, designVars >>

MonitorStep == MonitorTest \/ MonitorWake \/ MonitorCheck \/ MonitorRead

-----------------------------------------------------------------------------

Init ==
  /\ DeviceInit(ParModes) /\ HalInit /\ DriverInit
  /\ rx_fifo = [slot |-> [i \in 0 .. FifoSize - 1 |-> 0], head |-> 0, tail |-> 0]
  /\ par_rx = 0 /\ par_rx_valid = FALSE
  /\ main = "opening" /\ monitor = "test"
  /\ interrupted = FALSE /\ ebreak_hit = FALSE /\ global_dut = TRUE /\ dut_alive = TRUE
  /\ typed = << >> /\ printed = << >> /\ delivered = << >>

Next == MainStep \/ CtrlD \/ CtrlC \/ MonitorStep

Spec == Init /\ [][Next]_vars

\* Both threads are scheduled, sleep(1) ends, and the program gets on.
FairSpec == Spec /\ WF_vars(MainStep) /\ WF_vars(MonitorStep) /\ WF_vars(IterateBusy)

-----------------------------------------------------------------------------
(* Properties *)

HostTypeOK ==
  /\ rx_fifo.head \in 0 .. FifoSize - 1 /\ rx_fifo.tail \in 0 .. FifoSize - 1
  /\ rx_fifo.slot \in [0 .. FifoSize - 1 -> Byte]
  /\ par_rx \in Byte /\ char \in Byte /\ UartTypeOK
  /\ drv_tx.index \in -1 .. STOP_BIT /\ drv_rx.index \in -1 .. STOP_BIT
  /\ drv_tx.elapsed \in 0 .. CyclesPerBit /\ drv_rx.elapsed \in 0 .. CyclesPerBit
  /\ routine \in Routines
  /\ main \in {"opening", "loop", "leaving", "joining", "deleting", "clearing", "ended"}
  /\ monitor \in {"test", "sleeping", "awake", "reading", "exited"}

\* Where a queued byte can be on the parallel way to the program: in the
\* FIFO, on the pins without an acknowledgement yet, in the latch of a load.
OnPins    == IF par_rx_valid /\ ~par_rx_ack THEN << par_rx >> ELSE << >>
InLatch   == IF awaiting /\ par_rx_valid_latch THEN << par_rx_latch >> ELSE << >>

\* For a program that reads characters with getchar only, every byte the
\* FIFO took (top.cc:364-370) is in exactly one place or has been returned
\* by getchar, once and in order: the one-cycle acknowledgement of top.v:123
\* is never missed, and never taken for that of the next byte.
ParallelInputKept ==
  par_txrx => typed = got \o InLatch \o OnPins \o Contents(rx_fifo)

\* The same of the serial way, up to the one-cycle pulse of the receiver
\* (uart.v:249-257): with frames back to back or any distance apart, every
\* byte is sampled right and pulses once.
OnLine == IF rx_state # "IDLE" THEN << drv_tx.byte >> ELSE << >>
SerialInputKept ==
  ~par_txrx => typed = delivered \o OnLine \o Contents(rx_fifo)

\* Every character a program stores in the transmit register is shown on
\* the terminal once and in order, by the parallel port within the pass
\* (top.cc:404-424), by the serial one at the end of its frame, which is
\* decoded in the very cycle the transmitter can take the next one.
Sending == IF tx_state # "IDLE" THEN << data_to_send >> ELSE << >>
OutputKept == sent = printed \o Sending

\* The monitor thread (top.cc:69-82) never looks at a deleted design,
\* whatever ends the run and whenever.
MonitorSafe == monitor = "reading" => dut_alive

\* A break, Ctrl+C or Ctrl+D ends the process: every thread finds out and
\* nobody waits for anybody forever (top.cc:340, 433-435, 69-82).
RunEnds == (break_hit \/ interrupted \/ main = "leaving") ~> (main = "ended")

\* Every byte the FIFO took reaches the program, if it keeps calling
\* getchar and nothing ends the run.
InputArrives ==
  \A n \in 1 .. MaxTyped : (Len(typed) >= n) ~> (Len(got) >= n \/ ~running)

\* sw/test/main.c:5 says of the echo loop "Type characters to echo them
\* back": what the terminal shows is what was typed.
EchoesWhatIsTyped == IsPrefix(printed, typed)
=============================================================================
