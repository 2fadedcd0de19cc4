# A TLA+ model of the RISC-V SIMD core

This directory models the RV32I core with its packed and vector extensions
(`src/*.v`) cycle by cycle, its devices, the Verilator harness that runs it
(`top.cc`), the program loader, and the firmware that depends on them. With TLC, on
small instances, it shows that the core implements its instruction set and never
hangs, that bytes cross the serial and the parallel port intact, that the simulator
always shuts down, and that the benchmark kernels compute the network they should.
With TLAPS, for every program and size, it proves that the control of the core is
coherent (fetch, unit handshakes, bus, responses); that the ALU, both vector units and
the immediates compute what the architecture says; that the clocked system as a whole
implements the instruction set; that bytes cross the parallel and the serial port
intact and the simulator's threads never touch a deleted design; that the loader puts
into memory what the file means and where its checks end; and that all five kernels
compute the network.

## The system

| Part | Source | State | Operations | Talks to |
|---|---|---|---|---|
| core | `ucrv32.v` | 5-state FSM, pc, latched controls, operand registers, register file, four CSRs, four counters, the scalar bus request | one FSM state per clock edge | decoder and ALU (combinational), the three units (start line, completion pulse), the bus |
| decoder | `decoder_control.v` | none | fields to control signals | core |
| ALU | `alu.v` | none | one adder, one shifter, select | core |
| vector ALU | `valu.v` | `computing`, `mul_counter`, product registers, result, `valid_out` | start, add/sub, multiply, finish, idle | core |
| packed unit | `vmac.v` | same shape | start, add, multiply, gather, idle | core |
| vector load/store | `vlsu.v` | 6-state FSM, registered request, data | two 32-bit accesses per instruction | core, bus |
| vector registers | `vreg_file.v` | 32 x 64 bit | two reads, one write | core |
| SRAM | `sram.v` | array, registered addresses, one-cycle response flag | fetch port, data port | bus |
| SoC | `top.v` | break flag, parallel receive/transmit registers, last read address, mode of the device page | address decode, muxes | bus, host |
| UART | `uart.v` | response register, transmitter and receiver, each a state, a bit and a baud counter | answer a register, send, receive | bus, the host's bit driver (in serial mode) |
| host | `top.cc` | receive FIFO, pins, `UARTBitDriver`, the flags `interrupted` and `ebreak_hit`, the design's pointer; two threads and a signal handler | turn the clock, carry bytes, watch for a break, shut down | the pins of `top`, the terminal |
| loader | `sim/libSimHelper.cc`, `top.cc:312` | image, current and highest address; temporary files and streams | read a hex file, copy the image; `load_elf`, `print_imem` | SRAM, outside tools |
| firmware | `sw/test` | the character in hand | `getchar`, `putchar`, `fflush`, `ebreak`, `printint` | device page |
| MNIST kernels | `sw/mnist-newlib` | weights, activations, accumulator | five forward functions | the custom instructions |
| tests, tools | `tests/`, `tools/`, `scripts/` | | | |

What makes the hardware hard to test: everything moves at the same edge, and
nothing is queued. A completion pulse lasts one cycle and is looked at in the same
cycle in which the next start line rises; a memory response lasts one cycle; the
instruction port shows the word at the program counter of one edge ago; the data bus
is switched between two requesters by a busy flag; the resets clear some registers
and not others. What each part must guarantee:

* core and units: a unit that is waited for always reports, exactly once, and no
  report is left over for the next instruction;
* bus and SRAM: no request is hidden by the mux, each read is answered to the one
  who asked, with the address it asked for;
* fetch: the instruction latched is the one at `pc_reg`, also after a store to it;
* data path: the results, lanes, signs and immediates are those of the instruction
  set, and hold at the ends of every range;
* system: every instruction retires; the whole is a behaviour of the instruction set;
* byte paths: no byte the FIFO takes is lost, doubled or reordered on its way in, and
  none the program stores on its way out, although nothing but one-cycle pulses and
  counted cycles hold the two sides together;
* host: whatever ends a run, both threads find out, nobody waits for ever, and the
  design is not read after it is deleted;
* loader: the memory is what the file says, bad files are refused, failed steps clean up;
* firmware: every kernel computes the same exact sums.

`PROJECT.json` lists the hazards at their lines, with the properties that cover them.

## Modules

| Module | Models | Correspondence |
|---|---|---|
| `Words` | Verilog vectors | a word is a number below `WordMod`; a vector register is a pair of words |
| `Alu`, `Decoder` | `alu.v`, `decoder_control.v` | operators with the names of the wires; `4'bxxxx` is a choice |
| `Datapath` | the arithmetic of `valu.v` and `vmac.v` | lanes, products and sums as operators, apart from the registers of the units, so that lemmas about them serve every proof |
| `Valu`, `Vmac`, `Vlsu` | the units | one action per branch of the always block; inputs are parameters; `vlsu_mem` is the record of the registered `mem_*` outputs |
| `Sram` | `sram.v` | `SramStep` is one edge of both ports |
| `Ucrv32` | `ucrv32.v`, `vreg_file.v` | one action per FSM state and branch; `ctl` holds the decoder outputs DECODE latches, `dreq` the registered scalar request, `ctr` the counters |
| `Uart` | `uart.v` | one action per branch of the transmitter and the receiver; `UartRespond` is the register interface |
| `ParPort`, `Devices` | `top.v:94-167` | the parallel port, and the page that is one port or the other |
| `Top` | `top.v` as `top.cc` drives it | `ClockEdge` and `ResetEdge` make all parts step together; the properties of the control |
| `IsaArith`, `Isa` | the promise | one whole instruction per step, with arithmetic defined on numbers, sets of bit positions and sequences of signed elements |
| `TopIsa` | the refinement | an instruction takes effect on entry to WB; a vector store at its first word |
| `Asm` | the encodings | the inverse of the decoder; writes the programs of the runs |
| `UnitDriver` | the core's side of its data paths | one start line, one pulse, one operation after another |
| `MCTop`, `MCClaims`, `MCUnits` | instances | tables of instructions and programs; operands for the data paths |
| `BitDriver` | `UARTBitDriver` of `top.cc` | a record per direction: byte, bit index, cycles since the bit began |
| `Hal` | `sw/test/hal.S` on an abstract core | a routine is a loop of one bus access |
| `SimHost` | `main`, the monitor thread and the signal handler of `top.cc` | composes `Hal`, `Devices` and `BitDriver`; one pass of the loop is one step, the shutdown and the monitor go statement by statement |
| `Loader`, `ElfLoader` | `sim/libSimHelper.cc` | one action per kind of item; one per step that may fail |
| `Printint` | `printint` of `sw/test/print.c` | one action per loop turn |
| `Mlp` | `benchmark_mnist_sew.c` | one action per turn of the inner loop, on the instructions `IsaArith` defines |
| `MCHost`, `MCLoader`, `MCPrintint`, `MCMlp` | instances | programs of routines, hex files, conversions, a network |
| `WordProofs` | | lemmas: induction, powers, remainders, adder, shifter, bits, lanes |
| `UartProofs` | | lemmas: how the serial port moves |
| `TopProofs`, `UnitProofs` | | theorems about the core and about its data paths |
| `IsaProofs` | | the refinement: the system implements the instruction set |
| `HostProofs`, `LoaderProofs`, `MlpProofs` | | theorems about the host, the loaders and the kernels |

Operators whose name is that of another one with a suffix (`Counted_unbounded`,
`VmacIdle_holds_valid`, `slt_result_no_overflow`, ...) are wrong versions of it, each
a plausible slip in the code. No specification uses them; each shows that a property
would notice.

Modelling decisions:

* The device page is modelled in both modes. The simulator selects the parallel port
  before the first instruction (`top.cc:328`); any later reset clears the register and
  leaves the serial port, and so does a board without the simulator. `ParModes` says
  which modes a run starts in. In serial mode `ready` falls while a byte is sent, a
  request is answered at every edge it is up, a store to an answering register is
  answered like a load, and a load of the transmit or configuration register is never
  answered: `EveryInsnRetires` leaves exactly that load out (`Unanswered`).
* In `Top` the host is the environment: at every edge it may or may not present a byte.
  In `SimHost` the core is the abstract one of `Hal`: one request at a time, held until
  `ready`, and a load that then waits for its answer. `BusIsOwned` and
  `ResponsesAreOwned` are the theorems about `Top` that say the real core is like that.
  Which routine is called after which is a constant (`Calls`), so a run covers every
  program of these routines, with any number of other instructions in between.
* A pass through the loop of `main` is one step: it reads the flags it shares with the
  other threads once, at its start, and writes none. `break_hit` is read by the monitor
  thread without a lock; it is a single bit that only rises.
* The signal handler is its assignment to `interrupted`. Its `printf` is left out: what a
  call that is not async-signal-safe does to an interrupted `printf` is the library's.
* A hex file opens or does not, and is a sequence of items (a line without data, an address directive, one
  that does not parse, a token with its number of digits and value). The lines of
  `nm`'s output are records that say whether they contain `_start` and begin with a
  number.
* `Init` is the state after the power-on edge (`top.cc:321-323`): zero wherever there
  is a reset or an initial value and in the registers Verilator starts at zero; the
  scalar register file holds any member of `RegInits`.
* A later reset lasts at least `MinReset` >= 2 edges. After one edge the instruction
  port still shows the word at the old program counter; a one-edge reset in the middle
  of a run would execute it. The power-on reset of one edge is fine, because the
  address register is zero already. The register files, the SRAM and several data
  registers have no reset, and neither have they here; a reset in WB still writes.
* An encoding the decoder leaves open (`4'bxxxx`, `2'bxx`) is a nondeterministic
  choice in the model. `Isa` leaves the result of a reserved encoding open, but not
  its side effects: it retires and touches its destination only.
* Loads of the device page, the cycle counter and the SYSTEM results are open in `Isa`.
  CSRs are not part of it: no instruction reads one.
* `Mlp` uses the instructions as `Isa` promises them; `ImplementsIsa` is the link to
  the hardware. C's `int` wraps, as the compiled code does on this core.
* Trace and debug output are left out.

## Runs

| Run | Module, cfg | Properties | Instance | Distinct states |
|---|---|---|---|---|
| `isa` | `MCTop`, `Isa.cfg` | `TypeOK`, `ImplementsIsa` | every pair of scalar instructions, and two vector loads, a vector or reserved instruction and any vector, packed, counter or memory instruction; no reset | 278 000 |
| `control` | `MCTop`, `Control.cfg` | `FetchCoherent`, `UnitHandshake`, `BusOwned`, `ResponseOwned`, `EveryInsnRetires` | any two of one instruction for every way through EXEC and MEM, three reserved vector codes and every access of the device page, and any two accesses of the page while a byte is sent; both modes; one reset at any edge; with fairness | 113 000 |
| `units` | `MCUnits`, `Units.cfg` | `AluCorrect`, `ImmediatesRight`, `ValuLatency`, `ValuResultRight`, `VmacLatency`, `VmacResultRight` | all pairs of 8-bit operands and ten operations of the ALU; every I, S and B immediate and J offset; 36 x 36 operand vectors, four operations and three widths; every 8-bit word times six samples and four packed operations; each after one of three earlier operations | 326 000 |
| `host_parallel` | `MCHost`, `HostParallel.cfg` | `HostTypeOK`, `ParallelInputKept`, `OutputKept`, `MonitorSafe`, `RunEnds`, `InputArrives` | any program of `getchar`, `putchar` and `ebreak`; FIFO of three slots, four bytes typed, two sent; Ctrl+C and Ctrl+D at any time; with fairness | 176 000 |
| `host_serial` | `MCHost`, `HostSerial.cfg` | `SerialInputKept`, `OutputKept` | two bytes in, two out, at any distance; four cycles per bit, four bits per byte | 588 000 |
| `loader` | `MCLoader`, `Loader.cfg` | `ImageRight`, `WritesInBounds` | every file of at most four items of twelve kinds, that opens or does not | 189 000 |
| `mlp` | `MCMlp`, `Mlp.cfg` | `ForwardRight`, `PredictsFirstMaximum` | a 16-16-4 network with extreme weights, 30 images, five kernels | 24 000 |
| `csr_read`, `counter_write` | `MCClaims` | `CsrReadsBack`, `CounterWriteKeepsRegs` | a short program each | violated |
| `packed_latency` | `MCUnits`, `PackedLatency.cfg` | `LabLatency` | any two packed operations | violated |
| `host_echo` | `MCHost`, `HostEcho.cfg` | `EchoesWhatIsTyped` | the echo loop in parallel mode | violated |
| `print_hex` | `MCPrintint`, `PrintHex.cfg` | `PrintsPattern` | every 16-bit int, `%d` and `%x` | violated |

What they show. `isa`: whatever the order of the units' pulses, the bus mux and the
responses, registers, memory, pc, counters and the break flag change as one
instruction at a time would; this includes stores into code about to be fetched,
misaligned and wrapping addresses, and device-page stores that also land in the SRAM.
`control`: the mechanisms behind it survive a reset at any edge, and no sequence leaves
the core waiting, but a load of a register the serial port does not answer. `units`
gives the data paths far more operands than programs could, and shows that no pulse and
no product register of an earlier operation reaches a later one. `host_parallel`: the
one-cycle acknowledgement is never missed and never counted twice, the FIFO drops only
what does not fit, the join keeps the monitor from the deleted design, and nothing that
ends a run leaves a thread waiting. `host_serial`: both ends of the line sample in the
bit they mean to, also when a frame follows at once. `loader` and `mlp`: the sequential
parts, against definitions that do not follow the code's order.

Five claims of the repository do not hold of the code:

* `csr_read`: `csrr` returns `rs1 + imm`: the write-back mux (`ucrv32.v:413`) has no
  CSR input, and the read itself stores `rs1` in the CSR. `sw/test/main.c:38` expects
  the value written. The same test's `mtvec` is at `0x305` (`sw/test/main.c:20`), the
  core's at `12'h035` (`ucrv32.v:90`), which `csr_at` keeps.
* `counter_write`: `decoder_control.v:232` says a counter write writes no register; the
  first disjunct of `reg_write` lets it, and `rd` gets a stale ALU result. `Isa` leaves
  that value open, so that it covers the programs that name a register there too;
  `rdwrctr.S` names `x0`.
* `packed_latency`: `lab7_README.md:42` and `:44` give PVMUL and PVMUL_UPPER four cycles;
  `vmac.v` multiplies both lanes at once and reports after two, as its own comments say.
* `host_echo`: `sw/test/main.c:5` promises an echo; in parallel mode the status read of
  `fflush` acknowledges and drops the byte the host offers at that moment (`top.v:120`).
  The echo loop is modelled without its constant prompt and newline. `EchoesWhatIsTyped`
  fails in serial mode too (`ParModes = {FALSE}`), for another reason: a received byte
  is visible for one cycle (`uart.v:190`) and the polling `getchar` misses it.
* `print_hex`: `%x` of a negative `int` indexes before the digit table (`print.c:32`);
  `sw/test/main.c:30` prints `0xdeadbeef` with it.

Which document counts for a latency: `ValuLatency` and `VmacLatency` state those of the
comments of `valu.v` and `vmac.v` and of the table at `DESIGN_DECISIONS.md:96-104`, which
agree. `lab7_README.md:41-44` describes an earlier packed unit with one multiplier; the
table strikes out its PVMAC (line 100), and the rest of it is the finding above. The
summary row at `DESIGN_DECISIONS.md:235`, "Single-cycle VMAC", is stale too: lines 92
and 248 of the same document say multi-cycle, as the code is.

Three more observations have no run. The codes of VMOV are decoded
(`decoder_control.v:78`, `:165`) although the design has no such instruction
(`DESIGN_DECISIONS.md:206`): they run as a vector product and a dot product. `Isa`
counts them among the reserved ones; that they retire and touch their destination only
is checked in `isa` and `control` and proved in `IsaProofs`. The sum of the loader's bounds check wraps in
`uint32_t` (`libSimHelper.cc:135`), so `WritesInBounds` holds for files without a
directive just below 2^32, which is what `LoaderProofs` proves. `load_elf` takes the
first line of `nm` that contains `_start` (`libSimHelper.cc:207`), which may be that of
`__bss_start`; no caller uses it.

### Bounds

* `ShBits`: a word has `2^ShBits` bits and four bytes. The Verilog has 5; the system
  runs use 4 (16-bit words, 4-bit bytes), `units` 3 (8-bit words, 2-bit bytes) with a
  16-bit decoder.
  Every ratio of the design is kept (lanes per word, product widths twice the lane,
  shift stages), so sign, carry and packing are exercised at each of their ends.
  J immediates are compared modulo the 16-bit word.
* `MemWords` = 16: small enough that vector accesses wrap and device-page addresses
  alias into it, as they do at `addr[23:2]`.
* `CtrMod` = 8: the counters wrap in every run of more than eight cycles. `control`,
  whose properties read no counter, uses 2.
* `MaxResets` = 1 in `control`; a second reset starts from a state the first
  already reaches. The theorems have no such bound.
* Programs of two or three instructions after their set-up: the control state carries
  nothing over an instruction but the units' and the port's registers, which the pairs
  and triples cover; the theorems cover any length.
* `ClockDiv`, `CyclesPerBit`: 434 in the code. `host_serial` uses 4 so that frames in
  both directions and programs can interleave, with a middle of the bit that is neither
  its first nor its last cycle; `control` and `isa` use 3, the least for which the
  receiver has a middle to sample. Both ends always have the same value, as in the code.
* `NoData` stands for `32'hdeadbeef`: any value with a low byte that is no status.
* `FifoSize` = 3 holds two bytes; with `MaxTyped` = 4 it fills, drops, drains and goes
  round. `MaxSent` = 2: a byte of output and its successor;
  a program that has sent both can only read or break, so that in `host_parallel` every
  program that does not break comes to call `getchar` for ever, as `InputArrives` needs.
* `BufferSize` = 12 bytes and `AddrMod` = 64 in the loader: a file can fill, overrun and
  miss the buffer; `AddrMod` is the 2^32 of the addresses. A byte has four bits there.
* The network has 16 inputs and 16 hidden neurons: two turns of the widest kernel per
  sum; weights are at both ends of `int8_t`, here of four bits, with `int16_t`
  of eight and `int32_t` of sixteen, so that clips and the overflow of VMAC.W occur.
  Images run from zero to the largest element, as pixels between 0 and 1 times 127 do
  (`benchmark_mnist_sew.c:278`); the theorems take any element.
* `CHECK_DEADLOCK FALSE` in the host, loader, firmware and kernel runs: these end.

### Fairness

`Top!FairSpec` assumes weak fairness of `ClockEdge` only: the loop of `top.cc:340-394`
toggles the clock on every iteration with reset high. Nothing is assumed of the host's bytes
or of the resets.

`SimHost!FairSpec` assumes weak fairness of the main thread's steps and of the
monitor's: the operating system schedules both and `sleep(1)` returns. `IterateBusy`
is a pass in which the program gets on with its routine; its fairness says that a
program does not compute for ever between two accesses, which `EveryInsnRetires` allows
it to. Nothing is assumed of the terminal, Ctrl+C or Ctrl+D.

## Proofs

`TopProofs` proves, for every `ShBits`, memory size, program, register content,
counter modulus and number of resets, from the `ASSUME`s of the modules it extends
(the constants have their types; a word encodes some instruction; `MinReset` >= 2):

* `Invariance`: `Spec => []Inv`;
* `ControlTypeCorrect`, `FetchIsCoherent`, `HandshakesAreSafe`, `BusIsOwned`,
  `ResponsesAreOwned`: the control part of `TypeOK` and the four invariants of the
  `control` run, in both modes of the device page.

None of the four is inductive alone. `HandshakesAreSafe` needs to know that the
latched controls are consistent (a vector access is a vector operation, a packed
operation is no vector operation: `CtlConsistent`, from the decoder lemma
`DecodeFacts`); `BusIsOwned` needs the handshake, to know the vector unit works only
while it owns the bus; `ResponsesAreOwned` needs bus ownership, that MEM is entered
for memory instructions only (`MemConsistent`) and that the address on the bus is
kept (`VlsuRequestRight`); `FetchIsCoherent` needs `pc_reg` stable through WB and
that reset holds pc at zero (`ResetHeld`). `Inv` is the conjunction. The proof has
a lemma per unit on how it can move (`ValuMoves`, `VmacMoves`, `VlsuMoves`), one on
the units moving at a clock edge together (`ClockUnits`), and one per conjunct for
the step (`HandshakeStep`, `CtlStep`, `ScalarRequestStep`, `BusStep`,
`ResponseStep`, `FetchStep`, `TypeStep`), with `ResetStep` for the reset edge. The
serial port made `ResponsesAreOwned` the long one: `UartMoves` and `SerialStep` say how
the port's answer follows the request on the bus, `VectorResponseStep` and
`ScalarResponseStep` follow it to each of the requesters. Data values stay unexpanded in
this part.

`TypeCorrect` is the other part of `TypeOK`: every register keeps its width, whatever the
program, the contents of memory and of the register files, the bytes that arrive and the
resets. Its hypothesis `Wide` asks for words of at least twelve bits, which an upper
immediate has to fit above, and that the word the serial port shows without an answer is
one (`32'hdeadbeef` in a word of 32 bits). The invariant is `DataInv` on top of `Inv`. It
is not the list of widths alone: a `vmul` packs its product registers unreduced, so they
must hold lanes of the width that is running (`ProductsFit`), and that is kept only
because a vector ALU that computes implies a core that stays in EXEC with its controls
latched: the widths rest on `UnitHandshake`. There is a lemma per unit (`ValuStepFits`,
`VmacStepFits`, `VlsuStepFits`, `SramStepFits`, `DeviceStepFits`, `CpuStepFits`), over
lemmas on what packing, sign extension, lanes, masks and the decoder yield (`PackFits`,
`ExtendFits`, `LaneFits`, `BytesFit`, `DecodeFits`, `SetBitFits`); `EdgeFits` and
`ResetKeepsFit` put them together.

`UnitProofs` proves the six invariants of the `units` run for every word size and all
operands: `AluHolds`, `ImmediatesHold`, `ValuLatencyHolds`, `ValuResultHolds`,
`VmacLatencyHolds` and `VmacResultHolds`. The ALU is combinational: `AluHolds` follows
from lemmas of `WordProofs` on the ripple-carry adder (`AdderAdds`, by induction over the
carries), on the five-stage shifter (by induction over the stages) and on the bits of a
word. The two units are not: an operation ends cycles after it began, in registers the
one before it has left full. `DriverInv`, `ValuInv` and `VmacInv` say which state the
driver and a unit can be in together and how long the operation has run; `ValuData` and
`VmacData` say which product registers already belong to *this* operation, which is what
the packing or the sum at its end reads.

`HostProofs` proves, for every program, FIFO, input and interleaving:

* `MonitorIsSafe`: `Spec => []MonitorSafe`. `ShutdownInv` adds what the join leaves: from
  the deletion on, the monitor has exited, and the design is alive before it.
* `HostTypes`: the ring's indices, the characters and the counters of port and driver
  stay in their ranges. `HostInv` also bounds the frames in flight (`InFrame`).
* `InputIsKept`: on the parallel port every byte the FIFO took reaches `getchar` once and
  in order, for every program that reads with `getchar` only (`GetcharOnly`: `fflush`
  drops a byte, which is the finding of `host_echo`). `PortInv` and `ProgramInv` follow
  the one byte between the FIFO and the program: it is presented, or in the latch while
  the acknowledgement is up, or in the program's hand. `DequeueTakesOldest` and
  `EnqueueAddsLast` turn the ring into a sequence.
* `OutputIsKept`: on the parallel port every character stored is shown, once, in order.
* `SerialInputIsKept` and `AllOutputIsKept`: on the serial line the same holds of every
  byte in both directions, for every length of a bit, program and distance between
  frames, if both ends count the same number of cycles per bit (`SameRate`; both are 434
  in the code, `top.cc:122` and `uart.v:29`). The two machines share nothing but a wire,
  so the invariants say where one stands in the frame of the other. `LineIn`: the
  receiver is half a bit and one cycle behind the start of the bit the driver holds
  (`Past`) and has the low bits of the byte up to there; it is idle only when the driver
  is, or is in the second half of a stop bit. `LineOut`: the driver's receiving side is
  in the bit and the cycle of the transmitter, and has or-ed in a data bit exactly from
  its middle on. `OneMoreBit` says that what one sample adds is one more low bit.

`IsaProofs` proves the refinement of the `isa` run, `CoreImplementsIsa`:
`Spec => ImplementsIsa`, for every program, register content, memory size, counter modulus
and word of at least twelve bits (`Wide`). Two hypotheses are about the environment, and
the same as the run's: no reset after the first (the instruction set has none), and the
parallel port, which the simulator selects (`top.cc:328`). On the serial port the theorem
would be false: a store to the device page also writes the SRAM below it, at the first
edge it is on the bus, and while the UART is not ready the store has not retired.

* `ExecutionIsRight`: `Spec => []ExecInv`, the invariant of the instruction under way.
  `Inv` and `DataInv` say who may move and how wide things are; `ExecInv` says whose they
  are. The word in `insn_reg` is the one memory holds at `pc_saved` (`FetchedRight`), the
  latched controls are its decoding (`DecodedRight`), the operand registers hold what the
  register files do (`OperandsRight`), the product registers written so far and the
  result under a completion pulse belong to this operation (`ValuRight`, `VmacRight`,
  by the lemmas of `WordProofs` on lanes and products), the two words of a vector access
  are the right ones (`VlsuRight`), and so are the address, the data and the lanes of a
  scalar one (`MemRight`). Each conjunct has its step lemma; each of them needs
  `UnitHandshake`, `BusOwned` or `ResponseOwned` to exclude that something else moves.
* An edge either is invisible to the program (`FrontStutters`, `WaitStutters`,
  `BackStutters`, `StoreStutters`) or commits one instruction: on entry to WB
  (`ScalarCommits`, `LoadCommits`, `StoreCommitsNow`, `CounterCommits`, `PackedCommits`,
  `VectorCommits`), or with the first word of a vector store (`StoreTakesEffect`), where
  the second word is still to be written and the mapping already shows it. `EdgeRefines`
  is the case split. The `Does...` lemmas turn the conditions of a commit into the action
  of `Isa`; the `Isa...` lemmas say that `Isa`'s operators are those of the core's modules
  under the mapping.

`LoaderProofs` proves, for files and buffers of any size in which no address directive
lies within a word of the top of the address space (`ClearOfTheTop`; the `loader` run's
files satisfy it):

* `BoundsHoldBelowTheTop`: every write is in bounds. `ReaderInv` keeps the current
  address below the top.
* `ImageHolds`: `Spec => []ImageRight`. The definition of the image does not read the
  file in order, so the reader needs an invariant that does: `ReadInv` says that the
  buffer is what the items read so far mean and that the reader stands where the next one
  lies, `CopyInv` the same of the words copied. `NextAddr` and `NextByte` carry the
  definition from one item to the next.

It also proves, without a run, `NothingIsLeft`: `load_elf` and `print_imem` clean up, for
all symbol tables and sizes. `CleanInv` says which files and streams exist before each
step (`FilesAt`, `OpenAt`); each failing branch names what it removes, and the sets match.

`MlpProofs` proves `ForwardHolds` and `PredictsHolds`, for every network and image of the
sizes the kernels are written for (`SizesAssumption`: a layer is a whole number of turns
and its sums fit `int32_t`, as with the sizes of the source). `MlpInv` says that the
accumulator is the sum, modulo 2^32, of the elements read so far, and what is known of
the neurons and classes behind. `TurnAdds` shows that a turn of any of the five inner
loops adds the same elements to that sum; `SumsFit` that the wrapped sum is the exact one.

Assumptions. All proofs rest on the `ASSUME`s of the modules, which TLC evaluates in the
runs: types and ranges of the constants, and `PowersAssumption`, the laws of powers of two
up to the word size, which the provers do not know. Induction over data (`SetInduction`,
`UpToInduction`) is derived from the well-foundedness of the naturals; sums, carries and
shifts are recursive functions, shown to exist by it.

Only model-checked: the liveness properties `EveryInsnRetires`, `RunEnds` and
`InputArrives`, which the prover cannot do. Every invariant of the runs, and the
refinement, is a theorem.

## Not modelled, and the plan

* `csr.v` and `efu.v` are empty. `config_loopback` of the UART is never set. The PTY
  branch of `top.cc` is compiled out, and its `use_local_pty` is constantly 1.
* VCD and trace files, messages, the command line: output without feedback.
* The text of hex files below the level of a token; in particular lines longer than the
  255 characters `fgets` takes at a time.
* The floating-point and Q16.16 benchmarks and the matrix product: the same loops with
  arithmetic the extension does not touch. `benchmark_pvmac.c` and
  `benchmark_wide_vec.c` pack the columns of the weights on the fly and read the same
  elements as the kernels modelled. The newlib system calls are one store or a stub.
* `tools/` is a vendored copy of binutils, 2.4 million of the repository's lines of C;
  `scripts/` plots, `tests/` are assembly programs. They are not this system. The
  hardware, the host, the loader and the kernels together are some 4 000 lines, of
  which the definitions here stand for about 2 800.

What could follow: the refinement with resets, for which the instruction set would need
a reset of its own that keeps the register files and memory; and with the serial port,
for which a store to the device page would have to commit in two steps.
