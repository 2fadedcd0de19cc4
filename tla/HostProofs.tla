----------------------------- MODULE HostProofs ------------------------------
(***************************************************************************)
(* Proofs about the simulator's process, for every size of the FIFO, every *)
(* program and every timing of the two threads: the shutdown is safe, and  *)
(* neither port loses, repeats or reorders a byte, on the way in or on the *)
(* way out; on the serial line, when both ends keep the same rate.         *)
(***************************************************************************)
EXTENDS SimHost, UartProofs, SequenceTheorems, TLAPS

-----------------------------------------------------------------------------
(* The shutdown *)

\* Once the main thread is past its join the monitor has exited for good,
\* and only past its join does it delete the design.
ShutdownInv ==
  /\ main \in {"deleting", "clearing"} => monitor = "exited"
  /\ ~dut_alive => monitor = "exited"

\* Every step of the process preserves the invariant: only Delete takes the
\* design away, only Join leads there, and an exited monitor takes no step.
LEMMA ShutdownStep == ShutdownInv /\ [Next]_vars => ShutdownInv'
<1> SUFFICES ASSUME ShutdownInv, [Next]_vars PROVE ShutdownInv'
  OBVIOUS
<1> USE DEF ShutdownInv
<1>1. CASE OpenTrace
  BY <1>1 DEF OpenTrace
<1>2. CASE Iterate
  BY <1>2 DEF Iterate, Pass, threadVars
<1>3. CASE LeaveLoop
  BY <1>3 DEF LeaveLoop
<1>4. CASE TellMonitor
  BY <1>4 DEF TellMonitor
<1>5. CASE Join
  BY <1>5 DEF Join
<1>6. CASE Delete
  BY <1>6 DEF Delete
<1>7. CASE ClearPointer
  BY <1>7 DEF ClearPointer
<1>8. CASE CtrlD
  BY <1>8 DEF CtrlD, running
<1>9. CASE CtrlC
  BY <1>9 DEF CtrlC
<1>10. CASE MonitorTest
  BY <1>10 DEF MonitorTest
<1>11. CASE MonitorWake
  BY <1>11 DEF MonitorWake
<1>12. CASE MonitorCheck
  BY <1>12 DEF MonitorCheck
<1>13. CASE MonitorRead
  BY <1>13 DEF MonitorRead
<1>14. CASE UNCHANGED vars
  BY <1>14 DEF vars, threadVars
<1> QED
  BY <1>1, <1>2, <1>3, <1>4, <1>5, <1>6, <1>7, <1>8, <1>9, <1>10, <1>11, <1>12, <1>13, <1>14
     DEF Next, MainStep, MonitorStep

\* The monitor thread never looks at a deleted design (top.cc:69-82,
\* 433-460).
THEOREM MonitorIsSafe == Spec => []MonitorSafe
<1>1. Init => ShutdownInv
  BY DEF Init, ShutdownInv
<1>2. ShutdownInv => MonitorSafe
  BY DEF ShutdownInv, MonitorSafe
<1> QED
  BY <1>1, <1>2, ShutdownStep, PTL DEF Spec

-----------------------------------------------------------------------------
(* The receive FIFO *)

Fifo == [slot : [0 .. FifoSize - 1 -> Byte], head : 0 .. FifoSize - 1, tail : 0 .. FifoSize - 1]

\* The slot at distance k from slot 0, at most once round the ring.
Around(k) == IF k < FifoSize THEN k ELSE k - FifoSize

\* How far the tail of a ring is ahead of its head.
Ahead(f) == IF f.head <= f.tail THEN f.tail - f.head ELSE f.tail - f.head + FifoSize

\* What % does to the indices of the ring (top.cc:365, 379).
LEMMA RoundTheRing ==
  ASSUME NEW a \in Int
  PROVE  /\ 0 <= a /\ a < FifoSize + FifoSize => a % FifoSize = Around(a)
         /\ -FifoSize <= a /\ a < 0 => a % FifoSize = a + FifoSize
  <1>1. FifoSize \in Int /\ FifoSize > 1
    BY FifoAssumption
  <1>2. \A b \in 0 .. FifoSize - 1 : /\ b % FifoSize = b
                                     /\ (b + FifoSize) % FifoSize = b
                                     /\ (b - FifoSize) % FifoSize = b
    BY <1>1
  <1>3. 0 <= a /\ a < FifoSize => a % FifoSize = a
    BY <1>1, <1>2
  <1>4. ASSUME FifoSize <= a, a < FifoSize + FifoSize PROVE a % FifoSize = a - FifoSize
    <2>1. a - FifoSize \in 0 .. FifoSize - 1 /\ (a - FifoSize) + FifoSize = a
      BY <1>1, <1>4
    <2> QED
      BY <1>2, <2>1
  <1>5. ASSUME -FifoSize <= a, a < 0 PROVE a % FifoSize = a + FifoSize
    <2>1. a + FifoSize \in 0 .. FifoSize - 1 /\ (a + FifoSize) - FifoSize = a
      BY <1>1, <1>5
    <2> QED
      BY <1>2, <2>1
  <1> QED
    BY <1>1, <1>3, <1>4, <1>5 DEF Around

\* An index moved on by one stays in the ring.
LEMMA NextSlot ==
  ASSUME NEW a \in 0 .. FifoSize - 1
  PROVE  /\ (a + 1) % FifoSize = IF a + 1 = FifoSize THEN 0 ELSE a + 1
         /\ (a + 1) % FifoSize \in 0 .. FifoSize - 1
  <1>1. FifoSize \in Nat /\ FifoSize > 1 /\ a + 1 \in Int
    BY FifoAssumption
  <1>2. (a + 1) % FifoSize = IF a + 1 = FifoSize THEN 0 ELSE a + 1
    BY <1>1, RoundTheRing DEF Around
  <1> QED
    BY <1>1, <1>2

\* The bytes waiting in a ring are a sequence shorter than the ring.
LEMMA ContentsIsSeq ==
  ASSUME NEW f \in Fifo
  PROVE  /\ Contents(f) \in Seq(Byte)
         /\ Len(Contents(f)) = Ahead(f) /\ Ahead(f) \in 0 .. FifoSize - 1
         /\ \A i \in 1 .. Ahead(f) : Contents(f)[i] = f.slot[Around(f.head + i - 1)]
  <1>1. /\ FifoSize \in Nat /\ FifoSize > 1
        /\ f.head \in 0 .. FifoSize - 1 /\ f.tail \in 0 .. FifoSize - 1
        /\ f.slot \in [0 .. FifoSize - 1 -> Byte]
    BY FifoAssumption DEF Fifo
  <1>2. (f.tail - f.head) % FifoSize = Ahead(f)
    <2>1. CASE f.head <= f.tail
      <3>1. f.tail - f.head \in Int /\ 0 <= f.tail - f.head /\ f.tail - f.head < FifoSize
        BY <1>1, <2>1
      <3>2. Around(f.tail - f.head) = f.tail - f.head
        BY <3>1 DEF Around
      <3>3. f.tail - f.head < FifoSize + FifoSize
        BY <1>1, <3>1
      <3> QED
        BY <2>1, <3>1, <3>2, <3>3, RoundTheRing DEF Ahead
    <2>2. CASE ~(f.head <= f.tail)
      BY <1>1, <2>2, RoundTheRing DEF Ahead
    <2> QED
      BY <2>1, <2>2
  <1>3. Ahead(f) \in 0 .. FifoSize - 1
    BY <1>1 DEF Ahead
  <1>4. ASSUME NEW i \in 1 .. Ahead(f)
        PROVE  /\ (f.head + i - 1) % FifoSize = Around(f.head + i - 1)
               /\ Around(f.head + i - 1) \in 0 .. FifoSize - 1
    <2>1. f.head + i - 1 \in Int /\ 0 <= f.head + i - 1 /\ f.head + i - 1 < FifoSize + FifoSize
      BY <1>1, <1>3
    <2>2. (f.head + i - 1) % FifoSize = Around(f.head + i - 1)
      BY <2>1, RoundTheRing
    <2>3. Around(f.head + i - 1) \in 0 .. FifoSize - 1
      BY <1>1, <2>1 DEF Around
    <2> QED
      BY <2>2, <2>3
  <1>5. Contents(f) = [i \in 1 .. Ahead(f) |-> f.slot[Around(f.head + i - 1)]]
    BY <1>2, <1>4 DEF Contents
  <1>6. Contents(f) \in [1 .. Ahead(f) -> Byte]
    BY <1>1, <1>4, <1>5
  <1>7. Contents(f) \in Seq(Byte) /\ Len(Contents(f)) = Ahead(f)
    BY <1>3, <1>6, SeqDef
  <1> QED
    BY <1>3, <1>5, <1>7

\* Taking a byte out of the FIFO takes the oldest and keeps the others in
\* order (top.cc:376-385).
LEMMA DequeueTakesOldest ==
  ASSUME NEW f \in Fifo, ~Empty(f)
  PROVE  /\ Dequeue(f) \in Fifo /\ Oldest(f) \in Byte
         /\ Contents(f) = << Oldest(f) >> \o Contents(Dequeue(f))
  <1> DEFINE d  == Dequeue(f)
             cf == Contents(f)
             cd == Contents(d)
             c  == << Oldest(f) >> \o cd
  <1>1. /\ FifoSize \in Nat /\ FifoSize > 1
        /\ f.head \in 0 .. FifoSize - 1 /\ f.tail \in 0 .. FifoSize - 1
        /\ f.slot \in [0 .. FifoSize - 1 -> Byte] /\ f.head # f.tail
    BY FifoAssumption DEF Fifo, Empty
  <1>2. d \in Fifo /\ Oldest(f) \in Byte /\ d.slot = f.slot
    BY <1>1, NextSlot DEF Dequeue, Oldest, Fifo
  <1>3. d.tail = f.tail /\ d.head = IF f.head + 1 = FifoSize THEN 0 ELSE f.head + 1
    BY <1>1, NextSlot DEF Dequeue, Fifo
  <1> HIDE DEF d
  <1>4. cd \in Seq(Byte) /\ cf \in Seq(Byte) /\ Len(cd) = Ahead(d) /\ Len(cf) = Ahead(f)
    BY <1>2, ContentsIsSeq
  <1>5. /\ Ahead(d) \in Nat /\ Ahead(f) \in Nat
        /\ Ahead(f) < FifoSize /\ Ahead(f) = Ahead(d) + 1
    <2>1. Ahead(d) \in 0 .. FifoSize - 1 /\ Ahead(f) \in 0 .. FifoSize - 1
      BY <1>2, ContentsIsSeq
    <2>2. CASE f.head + 1 = FifoSize
      <3>1. Ahead(f) = f.tail - f.head + FifoSize /\ Ahead(d) = f.tail
        BY <1>1, <1>3, <2>2 DEF Ahead
      <3> QED
        BY <1>1, <2>1, <2>2, <3>1
    <2>3. CASE f.head + 1 # FifoSize /\ f.head < f.tail
      <3>1. Ahead(f) = f.tail - f.head /\ Ahead(d) = f.tail - (f.head + 1)
        BY <1>1, <1>3, <2>3 DEF Ahead
      <3> QED
        BY <1>1, <2>1, <3>1
    <2>4. CASE f.head + 1 # FifoSize /\ f.tail < f.head
      <3>1. Ahead(f) = f.tail - f.head + FifoSize /\ Ahead(d) = f.tail - (f.head + 1) + FifoSize
        BY <1>1, <1>3, <2>4 DEF Ahead
      <3> QED
        BY <1>1, <2>1, <3>1, SMTT(30)
    <2> QED
      BY <1>1, <2>2, <2>3, <2>4
  <1>6. << Oldest(f) >> \in Seq(Byte) /\ Len(<< Oldest(f) >>) = 1
    BY <1>2
  <1>7. /\ c \in Seq(Byte) /\ Len(c) = Len(cf)
        /\ \A i \in 1 .. Len(c) : c[i] = IF i = 1 THEN Oldest(f) ELSE cd[i - 1]
    BY <1>4, <1>5, <1>6, ConcatProperties
  <1>8. ASSUME NEW i \in 1 .. Len(cf) PROVE c[i] = cf[i]
    <2>1. cf[i] = f.slot[Around(f.head + i - 1)]
      BY <1>4, ContentsIsSeq
    <2>2. CASE i = 1
      <3>1. Around(f.head + i - 1) = f.head
        BY <1>1, <2>2 DEF Around
      <3> QED
        BY <1>7, <2>1, <2>2, <3>1 DEF Oldest
    <2>3. CASE i # 1
      <3>1. i \in Nat /\ i < FifoSize /\ i - 1 \in 1 .. Ahead(d)
        <4>1. i \in 1 .. Ahead(f)
          BY <1>4
        <4> QED
          BY <1>1, <1>5, <2>3, <4>1
      <3>2. cd[i - 1] = f.slot[Around(d.head + (i - 1) - 1)]
        BY <1>2, <3>1, ContentsIsSeq
      <3>3. Around(d.head + (i - 1) - 1) = Around(f.head + i - 1)
        <4>1. CASE f.head + 1 = FifoSize
          BY <1>1, <1>3, <2>3, <3>1, <4>1 DEF Around
        <4>2. CASE f.head + 1 # FifoSize
          <5>1. d.head = f.head + 1 /\ f.head \in Int /\ i \in Int
            BY <1>1, <1>3, <3>1, <4>2
          <5>2. d.head + (i - 1) - 1 = f.head + i - 1
            BY <5>1
          <5> QED
            BY <5>2
        <4> QED
          BY <4>1, <4>2
      <3> QED
        BY <1>7, <2>1, <2>3, <3>2, <3>3
    <2> QED
      BY <2>2, <2>3
  <1>9. cf = c
    BY <1>4, <1>7, <1>8, SeqEqual
  <1> QED
    BY <1>2, <1>9 DEF d

\* A byte put into a FIFO that is not full comes after all the others, and
\* overwrites none of them (top.cc:364-369).
LEMMA EnqueueAddsLast ==
  ASSUME NEW f \in Fifo, NEW byte \in Byte, ~is_full(f)
  PROVE  /\ Enqueue(f, byte) \in Fifo
         /\ Contents(Enqueue(f, byte)) = Contents(f) \o << byte >>
  <1> DEFINE e  == Enqueue(f, byte)
             cf == Contents(f)
             ce == Contents(e)
             c  == Append(cf, byte)
  <1>1. /\ FifoSize \in Nat /\ FifoSize > 1
        /\ f.head \in 0 .. FifoSize - 1 /\ f.tail \in 0 .. FifoSize - 1
        /\ f.slot \in [0 .. FifoSize - 1 -> Byte]
    BY FifoAssumption DEF Fifo
  <1>2. e \in Fifo /\ e.slot = [f.slot EXCEPT ![f.tail] = byte]
    BY <1>1, NextSlot DEF Enqueue, is_full, Fifo
  <1>3. /\ e.head = f.head /\ e.tail # f.head
        /\ e.tail = IF f.tail + 1 = FifoSize THEN 0 ELSE f.tail + 1
    BY <1>1, NextSlot DEF Enqueue, is_full, Fifo
  <1> HIDE DEF e
  <1>4. ce \in Seq(Byte) /\ cf \in Seq(Byte) /\ Len(ce) = Ahead(e) /\ Len(cf) = Ahead(f)
    BY <1>2, ContentsIsSeq
  <1>5. Ahead(e) \in Nat /\ Ahead(f) \in Nat /\ Ahead(e) = Ahead(f) + 1
    <2>1. CASE f.tail + 1 = FifoSize
      BY <1>1, <1>3, <2>1 DEF Ahead
    <2>2. CASE f.tail + 1 # FifoSize
      BY <1>1, <1>3, <2>2, SMTT(30) DEF Ahead
    <2> QED
      BY <2>1, <2>2
  <1>6. /\ c \in Seq(Byte) /\ Len(c) = Len(cf) + 1
        /\ \A i \in 1 .. Len(cf) : c[i] = cf[i]
        /\ c[Len(cf) + 1] = byte
    BY <1>4, AppendProperties
  <1>7. ASSUME NEW i \in 1 .. Len(ce) PROVE ce[i] = c[i]
    <2>1. ce[i] = e.slot[Around(f.head + i - 1)]
      BY <1>2, <1>3, <1>4, ContentsIsSeq
    <2>2. CASE i = Ahead(f) + 1
      <3>1. Around(f.head + i - 1) = f.tail
        BY <1>1, <2>2, SMTT(30) DEF Around, Ahead
      <3>2. e.slot[f.tail] = byte
        BY <1>1, <1>2
      <3> QED
        BY <1>4, <1>6, <2>1, <2>2, <3>1, <3>2
    <2>3. CASE i # Ahead(f) + 1
      <3>1. i \in Nat /\ i \in 1 .. Ahead(f)
        BY <1>4, <1>5, <2>3
      <3>2. cf[i] = f.slot[Around(f.head + i - 1)]
        BY <3>1, ContentsIsSeq
      <3>3. Around(f.head + i - 1) # f.tail
        BY <1>1, <3>1 DEF Around, Ahead
      <3>4. Around(f.head + i - 1) \in 0 .. FifoSize - 1
        BY <1>1, <3>1, SMTT(30) DEF Around, Ahead
      <3>5. ce[i] = cf[i]
        BY <1>1, <1>2, <2>1, <3>2, <3>3, <3>4
      <3> QED
        BY <1>4, <1>6, <3>1, <3>5
    <2> QED
      BY <2>2, <2>3
  <1>8. ce = c
    BY <1>4, <1>5, <1>6, <1>7, SeqEqual
  <1>9. c = cf \o << byte >>
    BY <1>4, AppendIsConcat
  <1> QED
    BY <1>2, <1>8, <1>9 DEF e

-----------------------------------------------------------------------------
(* The program's requests and the way of a byte *)

BusRequest == [addr : Nat, wdata : Byte, write : BOOLEAN, valid : BOOLEAN]

\* The request a routine has on the bus, or had there last.
RequestOf(r) ==
  \/ r = "getchar" /\ hreq.addr = UartPage * 4096 + RX /\ ~hreq.write
  \/ r = "putchar" /\ hreq.addr = UartPage * 4096 + TX /\ hreq.write
  \/ r = "fflush" /\ hreq.addr = UartPage * 4096 + STATUS /\ ~hreq.write

\* The program has one access at a time under way, that of its routine.
ProgramInv ==
  /\ hreq \in BusRequest
  /\ awaiting \in BOOLEAN /\ routine \in Routines /\ char \in Byte
  /\ hreq.valid => RequestOf(routine) /\ ~awaiting
  /\ awaiting => RequestOf(routine) /\ routine # "putchar"

\* An acknowledgement is for the byte still on the pins, and the load it
\* answers has the byte in the latch.
PortInv ==
  /\ par_rx_valid \in BOOLEAN /\ par_rx \in Byte
  /\ par_rx_ack \in BOOLEAN /\ par_rx_latch \in Byte
  /\ par_rx_valid_latch = par_rx_ack
  /\ par_rx_ack => awaiting /\ par_rx_valid

\* A side of the bit driver is inside a frame and a bit of it.
InFrame(d) ==
  d \in [byte : Int, index : -1 .. STOP_BIT, elapsed : 0 .. CyclesPerBit - 1]

HostInv ==
  /\ rx_fifo \in Fifo
  /\ ProgramInv /\ PortInv
  /\ UartTypeOK /\ UartDataOK
  /\ InFrame(drv_tx) /\ InFrame(drv_rx) /\ drv_rx_prev \in {0, 1}
  /\ sim_use_par_txrx \in BOOLEAN
  /\ typed \in Seq(Byte) /\ got \in Seq(Byte) /\ sent \in Seq(Byte)
  /\ main \in {"opening", "loop", "leaving", "joining", "deleting", "clearing", "ended"}
  /\ monitor \in {"test", "sleeping", "awake", "reading", "exited"}

\* Addresses of the device page.
LEMMA PageFacts ==
  ASSUME NEW o \in {TX, RX, STATUS}
  PROVE  /\ UartPage * 4096 + o \in Nat
         /\ is_uart(UartPage * 4096 + o)
         /\ (UartPage * 4096 + o) % 4096 = o
  BY UartPageAssumption DEF TX, RX, STATUS, is_uart

\* A byte and its valid bit come out of the word a load returns as they
\* went in (top.v:107-111, hal.S).
LEMMA ByteWithFlag ==
  ASSUME NEW b \in Byte, NEW p \in BOOLEAN
  PROVE  /\ Flag(p) * ByteMod + b \in Int
         /\ (Flag(p) * ByteMod + b) % ByteMod = b
         /\ (Flag(p) * ByteMod + b) \div ByteMod = Flag(p)
  <1>1. \A N \in Nat \ {0} : \A a \in 0 .. N - 1, f \in 0 .. 1 :
          f * N + a \in Int /\ (f * N + a) % N = a /\ (f * N + a) \div N = f
    OBVIOUS
  <1>2. Flag(p) \in 0 .. 1 /\ b \in 0 .. ByteMod - 1 /\ ByteMod \in Nat \ {0}
    BY ByteModOK DEF Flag, Byte
  <1> QED
    BY <1>1, <1>2

\* At the end of a bit the driver goes on to the next, or to rest
\* (top.cc:140-152).
InBit(d) == /\ d \in [byte : Int, index : -1 .. STOP_BIT, elapsed : 0 .. CyclesPerBit]
            /\ d.index = -1 => d.elapsed < CyclesPerBit

\* A bit driver that moves on to the next bit is inside its frame.
LEMMA AdvancedFits ==
  ASSUME NEW d, InBit(d)
  PROVE  InFrame(Advanced(d))
  <1> USE CyclesPerBitAssumption, ByteBitsOK
  <1>1. /\ d.byte \in Int /\ d.index \in Int /\ d.elapsed \in Int
        /\ -1 <= d.index /\ d.index <= STOP_BIT /\ 0 <= d.elapsed /\ STOP_BIT \in Nat
        /\ d = [byte |-> d.byte, index |-> d.index, elapsed |-> d.elapsed]
    BY DEF InBit, STOP_BIT
  <1>2. InFrame(Quiet)
    BY DEF InFrame, Quiet, STOP_BIT
  <1>3. CASE d.index # -1 /\ d.elapsed >= CyclesPerBit
    <2>1. CASE d.index + 1 > STOP_BIT
      BY <1>2, <1>3, <2>1 DEF Advanced, NextBit
    <2>2. CASE ~(d.index + 1 > STOP_BIT)
      <3>1. Advanced(d) = [byte |-> d.byte, index |-> d.index + 1, elapsed |-> 0]
        BY <1>1, <1>3, <2>2 DEF Advanced, NextBit
      <3> QED
        BY <1>1, <2>2, <3>1 DEF InFrame
    <2> QED
      BY <2>1, <2>2
  <1>4. CASE d.elapsed < CyclesPerBit
    BY <1>1, <1>4 DEF Advanced, InFrame
  <1> QED
    BY <1>1, <1>3, <1>4 DEF InBit

\* The driver stays inside a frame, and drives a bit (top.cc:97-216).
LEMMA TxDriverMoves ==
  ASSUME NEW d, InFrame(d)
  PROVE  /\ InFrame(Advanced(Ticked(d)))
         /\ \A b \in Byte : InFrame(Advanced(StartTx(b)))
         /\ Level(d) \in {0, 1}
  <1> USE CyclesPerBitAssumption, ByteBitsOK, ByteModOK
  <1>1. InFrame(Advanced(Ticked(d)))
    <2>1. InBit(Ticked(d))
      BY DEF InFrame, InBit, Ticked
    <2> QED
      BY <2>1, AdvancedFits
  <1>2. ASSUME NEW b \in Byte PROVE InFrame(Advanced(StartTx(b)))
    BY DEF InFrame, Advanced, StartTx, NextBit, Quiet, STOP_BIT, Byte
  <1>3. Level(d) \in {0, 1}
    <2>1. CASE d.index \in 1 .. ByteBits
      <3>1. d.byte \in Int /\ d.index - 1 \in Nat /\ d.index # 0
        BY <2>1 DEF InFrame
      <3> QED
        BY <2>1, <3>1, BitIsBit DEF Level
    <2>2. CASE d.index \notin 1 .. ByteBits
      BY <2>2 DEF Level
    <2> QED
      BY <2>1, <2>2
  <1> QED
    BY <1>1, <1>2, <1>3

\* The driver that samples the line of the design stays inside its frame.
LEMMA RxDriverMoves ==
  ASSUME NEW d, InFrame(d), NEW prev, NEW line
  PROVE  InFrame(RxAfter(Ticked(d), prev, line))
  <1> USE CyclesPerBitAssumption, ByteBitsOK
  <1> DEFINE s == Begun(Ticked(d), prev, line)
  <1>1. InBit(s)
    BY DEF InFrame, InBit, Begun, Ticked, STOP_BIT
  <1> HIDE DEF s
  <1>2. InBit(Sampled(s, line))
    <2>1. CASE s.index \in 1 .. ByteBits
      <3>1. s.byte \in Int /\ s.index - 1 \in Nat
        BY <1>1, <2>1 DEF InBit
      <3>2. Bit(s.byte, s.index - 1) \in Int /\ 2^(s.index - 1) \in Int
        BY <3>1, BitIsBit
      <3>3. s.byte + (1 - Bit(s.byte, s.index - 1)) * 2^(s.index - 1) \in Int
        BY <3>1, <3>2
      <3> QED
        BY <1>1, <3>3 DEF Sampled, InBit
    <2>2. CASE s.index \notin 1 .. ByteBits
      BY <1>1, <2>2 DEF Sampled, InBit
    <2> QED
      BY <2>1, <2>2
  <1>3. InFrame(Quiet)
    BY DEF InFrame, Quiet, STOP_BIT
  <1> QED
    BY <1>2, <1>3, AdvancedFits DEF RxAfter, s

-----------------------------------------------------------------------------
(* A pass through the loop, step by step *)

\* What the terminal delivers goes behind what waits already
\* (top.cc:345-370).
LEMMA TerminalMoves ==
  ASSUME HostInv, NEW f, ReadTerminal(f)
  PROVE  /\ f \in Fifo /\ typed' \in Seq(Byte)
         /\ \E new \in Seq(Byte) : /\ typed' = typed \o new
                                   /\ Contents(f) = Contents(rx_fifo) \o new
  <1>1. rx_fifo \in Fifo /\ typed \in Seq(Byte) /\ Contents(rx_fifo) \in Seq(Byte)
    BY ContentsIsSeq DEF HostInv
  <1>2. CASE f = rx_fifo /\ typed' = typed
    <2>1. << >> \in Seq(Byte) /\ typed = typed \o << >> /\ Contents(rx_fifo) = Contents(rx_fifo) \o << >>
      BY <1>1, ConcatEmptySeq, EmptySeq
    <2> QED
      BY <1>1, <1>2, <2>1
  <1>3. ASSUME NEW byte \in Keys, ~is_full(rx_fifo),
               f = Enqueue(rx_fifo, byte), typed' = Append(typed, byte)
        PROVE  /\ f \in Fifo /\ typed' \in Seq(Byte)
               /\ \E new \in Seq(Byte) : /\ typed' = typed \o new
                                         /\ Contents(f) = Contents(rx_fifo) \o new
    <2>1. byte \in Byte /\ << byte >> \in Seq(Byte)
      BY KeysAssumption
    <2>2. typed' = typed \o << byte >> /\ typed' \in Seq(Byte)
      BY <1>1, <1>3, <2>1, AppendIsConcat, AppendProperties
    <2> QED
      BY <1>1, <1>3, <2>1, <2>2, EnqueueAddsLast
  <1> QED
    BY <1>2, <1>3 DEF ReadTerminal, Enqueue

\* Taking the acknowledged byte back and offering the next moves a byte from
\* the FIFO to the pins, or none (top.cc:373-381).
Offered == IF par_rx_valid' THEN << par_rx' >> ELSE << >>

\* Presenting a byte to the parallel port moves it from the FIFO to the pins.
LEMMA PresentMoves ==
  ASSUME HostInv, NEW f \in Fifo, PresentParallel(f)
  PROVE  /\ rx_fifo' \in Fifo /\ par_rx' \in Byte /\ par_rx_valid' \in BOOLEAN
         /\ InFrame(drv_tx')
         /\ OnPins \o Contents(f) = Offered \o Contents(rx_fifo')
  <1>1. InFrame(drv_tx')
    BY TxDriverMoves DEF PresentParallel, HostInv
  <1>2. PortInv
    BY DEF HostInv
  <1>3. CASE par_rx_valid /\ ~par_rx_ack
    BY <1>1, <1>2, <1>3 DEF PresentParallel, OnPins, Offered, PortInv
  <1>4. CASE ~(par_rx_valid /\ ~par_rx_ack) /\ ~Empty(f)
    <2>1. OnPins = << >> /\ Offered = << Oldest(f) >>
      BY <1>4 DEF PresentParallel, OnPins, Offered
    <2>2. Contents(f) = << Oldest(f) >> \o Contents(rx_fifo') /\ rx_fifo' \in Fifo /\ par_rx' \in Byte
      BY <1>4, DequeueTakesOldest DEF PresentParallel
    <2>3. << >> \o Contents(f) = Contents(f)
      BY ContentsIsSeq, ConcatEmptySeq
    <2> QED
      BY <1>1, <1>2, <1>4, <2>1, <2>2, <2>3 DEF PresentParallel, PortInv
  <1>5. CASE ~(par_rx_valid /\ ~par_rx_ack) /\ Empty(f)
    BY <1>1, <1>2, <1>5 DEF PresentParallel, OnPins, Offered, PortInv
  <1> QED
    BY <1>3, <1>4, <1>5

\* Starting a serial frame keeps the FIFO and the driver well formed and the pins as they are.
LEMMA SerialStartMoves ==
  ASSUME HostInv, NEW f \in Fifo, StartSerial(f)
  PROVE  /\ rx_fifo' \in Fifo /\ InFrame(drv_tx')
         /\ par_rx' = par_rx /\ par_rx_valid' = par_rx_valid
  <1>1. InFrame(drv_tx)
    BY DEF HostInv
  <1>2. CASE is_idle /\ ~Empty(f)
    BY <1>1, <1>2, TxDriverMoves, DequeueTakesOldest DEF StartSerial
  <1>3. CASE ~(is_idle /\ ~Empty(f))
    BY <1>1, <1>3, TxDriverMoves DEF StartSerial
  <1> QED
    BY <1>2, <1>3

\* A step of the program keeps its requests in order; what it reads and
\* what it stores are bytes (hal.S).
LEMMA ProgramMoves ==
  ASSUME HostInv, HalStep
  PROVE  ProgramInv' /\ got' \in Seq(Byte) /\ sent' \in Seq(Byte)
  <1>1. ProgramInv /\ got \in Seq(Byte) /\ sent \in Seq(Byte)
    BY DEF HostInv
  <1>2. \A t : Return(t) => routine' \in Routines
    BY <1>1, CallsAssumption DEF Return, ProgramInv
  <1>3. CASE Compute
    BY <1>1, <1>3 DEF Compute, halVars, ProgramInv, RequestOf
  <1>4. CASE Issue
    <2>1. /\ ~awaiting /\ UNCHANGED << routine, awaiting, char, break_hit, got, sent >>
          /\ hreq' \in Accesses
      BY <1>4 DEF Issue
    <2>2. hreq' \in BusRequest /\ RequestOf(routine)' /\ routine \in Routines
      <3>1. CASE routine = "getchar"
        <4>1. hreq' = Access(RX, FALSE, 0) /\ 0 \in Byte
          BY <2>1, <3>1, ByteModOK DEF Accesses, Byte
        <4> QED
          BY <2>1, <3>1, <4>1, PageFacts DEF Access, BusRequest, RequestOf, Routines
      <3>2. CASE routine = "putchar"
        <4>1. PICK c \in {char} \cup Literals : hreq' = Access(TX, TRUE, c)
          BY <2>1, <3>2 DEF Accesses
        <4>2. c \in Byte
          BY <1>1, TextAssumption DEF ProgramInv
        <4> QED
          BY <2>1, <3>2, <4>1, <4>2, PageFacts DEF Access, BusRequest, RequestOf, Routines
      <3>3. CASE routine = "fflush"
        <4>1. hreq' = Access(STATUS, FALSE, 0) /\ 0 \in Byte
          BY <2>1, <3>3, ByteModOK DEF Accesses, Byte
        <4> QED
          BY <2>1, <3>3, <4>1, PageFacts DEF Access, BusRequest, RequestOf, Routines
      <3>4. CASE routine = "ebreak"
        BY <2>1, <3>4 DEF Accesses
      <3> QED
        BY <1>1, <3>1, <3>2, <3>3, <3>4 DEF ProgramInv, Routines
    <2> QED
      BY <1>1, <2>1, <2>2 DEF ProgramInv
  <1>5. CASE Hold
    BY <1>1, <1>5 DEF Hold, halVars, ProgramInv, RequestOf
  <1>6. CASE Stored
    <2>1. sent' \in Seq(Byte)
      BY <1>1, <1>6, AppendProperties DEF Stored, ProgramInv, BusRequest
    <2>2. hreq' \in BusRequest /\ ~hreq'.valid /\ ~awaiting
      BY <1>1, <1>6 DEF Stored, ProgramInv, BusRequest
    <2> QED
      BY <1>1, <1>2, <1>6, <2>1, <2>2 DEF Stored, ProgramInv
  <1>7. CASE LoadAccepted
    <2>1. /\ hreq' \in BusRequest /\ ~hreq'.valid
          /\ hreq'.addr = hreq.addr /\ hreq'.write = hreq.write
      BY <1>1, <1>7 DEF LoadAccepted, ProgramInv, BusRequest
    <2>2. RequestOf(routine) /\ ~hreq.write
      BY <1>1, <1>7 DEF LoadAccepted, ProgramInv
    <2>3. RequestOf(routine)' /\ routine # "putchar"
      BY <1>7, <2>1, <2>2 DEF LoadAccepted, RequestOf
    <2> QED
      BY <1>1, <1>7, <2>1, <2>3 DEF LoadAccepted, ProgramInv
  <1>8. CASE Break
    BY <1>1, <1>8 DEF Break, ProgramInv, RequestOf
  <1>9. CASE Loaded(device_rdata(hreq.addr))
    <2> DEFINE data == device_rdata(hreq.addr)
    <2>1. data \in Int
      BY ByteWithFlag DEF HostInv, PortInv, UartDataOK, device_rdata, par_rdata
    <2>2. data % ByteMod \in Byte
      BY <2>1, ByteModOK DEF Byte
    <2> HIDE DEF data
    <2>3. Loaded(data)
      BY <1>9 DEF data
    <2>4. Append(got, data % ByteMod) \in Seq(Byte)
      BY <1>1, <2>2, AppendProperties
    <2>5. /\ char' \in Byte /\ got' \in Seq(Byte) /\ routine' \in Routines
      BY <1>1, <1>2, <2>2, <2>3, <2>4 DEF Loaded, ProgramInv
    <2>6. awaiting' = FALSE /\ hreq' = hreq /\ ~hreq.valid /\ sent' = sent
      BY <1>1, <2>3 DEF Loaded, ProgramInv
    <2> QED
      BY <1>1, <2>5, <2>6 DEF ProgramInv
  <1> QED
    BY <1>3, <1>4, <1>5, <1>6, <1>7, <1>8, <1>9 DEF HalStep, HalBusy

\* What a load takes off the pins is in the latch when it is answered
\* (top.v:117-131).
LEMMA PortMoves ==
  ASSUME HostInv, HalStep, par_rx' \in Byte, par_rx_valid' \in BOOLEAN,
         ParRxStep(sim_use_par_txrx, hreq, par_rx_valid', par_rx')
  PROVE  /\ PortInv'
         /\ par_rx_ack' => LoadAccepted /\ sim_use_par_txrx /\ par_rx_latch' = par_rx'
         /\ LoadAccepted /\ sim_use_par_txrx => par_rx_ack' = par_rx_valid'
  <1> DEFINE take == /\ hreq.valid /\ ~hreq.write /\ is_uart(hreq.addr)
                     /\ sim_use_par_txrx /\ par_rx_valid'
  <1>1. /\ hreq.valid \in BOOLEAN /\ hreq.write \in BOOLEAN /\ sim_use_par_txrx \in BOOLEAN
        /\ hreq.valid => RequestOf(routine) /\ ~awaiting
    BY DEF HostInv, ProgramInv, BusRequest
  <1>2. /\ par_rx_ack' = take /\ par_rx_valid_latch' = take
        /\ par_rx_latch' = IF take THEN par_rx' ELSE 0
    BY DEF ParRxStep
  <1>3. ASSUME take PROVE LoadAccepted
    BY <1>1, <1>3 DEF HalStep, HalBusy, Compute, Issue, Hold, Stored, Break, Loaded, bus_ready, serial
  <1>4. hreq.valid => is_uart(hreq.addr)
    BY <1>1, PageFacts DEF RequestOf
  <1>5. LoadAccepted => hreq.valid /\ ~hreq.write /\ awaiting' = TRUE
    BY DEF LoadAccepted
  <1>6. 0 \in Byte
    BY ByteModOK DEF Byte
  <1> HIDE DEF take
  <1>7. par_rx_latch' \in Byte
    BY <1>2, <1>6
  <1>8. take \in BOOLEAN /\ (take => par_rx_valid' /\ sim_use_par_txrx)
    BY <1>1 DEF take
  <1>9. PortInv'
    BY <1>2, <1>3, <1>5, <1>7, <1>8 DEF PortInv
  <1>10. LoadAccepted /\ sim_use_par_txrx => take = par_rx_valid'
    BY <1>4, <1>5 DEF take
  <1> QED
    BY <1>2, <1>3, <1>8, <1>9, <1>10

\* A pass through the loop keeps the invariant (top.cc:340-431).
LEMMA PassMoves == HostInv /\ Iterate => HostInv'
  <1> SUFFICES ASSUME HostInv, Iterate PROVE HostInv'
    OBVIOUS
  <1>1. PICK f : ReadTerminal(f) /\ IF par_txrx THEN PresentParallel(f) ELSE StartSerial(f)
    BY DEF Iterate, Pass
  <1>2. f \in Fifo /\ typed' \in Seq(Byte)
    BY <1>1, TerminalMoves
  <1>3. /\ rx_fifo' \in Fifo /\ par_rx' \in Byte /\ par_rx_valid' \in BOOLEAN
        /\ InFrame(drv_tx')
    BY <1>1, <1>2, PresentMoves, SerialStartMoves DEF HostInv, PortInv
  <1>4. ProgramInv' /\ got' \in Seq(Byte) /\ sent' \in Seq(Byte)
    BY ProgramMoves DEF Iterate, Pass
  <1>5. PortInv'
    BY <1>3, PortMoves DEF Iterate, Pass, DeviceStep
  <1>6. /\ UartTypeOK' /\ UartDataOK'
    <2>1. Level(drv_tx') \in {0, 1}
      BY <1>3, TxDriverMoves
    <2>2. /\ hreq.wdata \in Byte /\ hreq.write \in BOOLEAN /\ hreq.valid \in BOOLEAN
          /\ (hreq.valid /\ serial(hreq.addr)) \in BOOLEAN
      BY DEF HostInv, ProgramInv, BusRequest
    <2>3. UartStep(hreq.valid /\ serial(hreq.addr), hreq.write, hreq.addr, hreq.wdata, Level(drv_tx'))
      BY DEF Iterate, Pass, DeviceStep
    <2>4. UartTypeOK /\ UartDataOK
      BY DEF HostInv
    <2>5. UartTypeOK'
      BY <2>1, <2>2, <2>3, <2>4, UartMoves
    <2>6. UartDataOK'
      BY <2>1, <2>2, <2>3, <2>4, UartDataMoves
    <2> QED
      BY <2>5, <2>6
  <1>7. InFrame(drv_rx)' /\ drv_rx_prev' \in {0, 1}
    <2>1. CASE par_txrx
      BY <2>1 DEF Iterate, Pass, ShowParallel, HostInv
    <2>2. CASE ~par_txrx
      <3>1. ShowSerial
        BY <2>2 DEF Iterate, Pass
      <3>2. tx' \in {0, 1}
        <4>1. (UartTypeOK /\ UartDataOK => tx \in {0, 1})'
          BY TxIsBit, PTL
        <4> QED
          BY <1>6, <4>1
      <3> QED
        BY <3>1, <3>2, RxDriverMoves DEF ShowSerial, HostInv
    <2> QED
      BY <2>1, <2>2
  <1>8. UNCHANGED << main, monitor, sim_use_par_txrx >>
    BY DEF Iterate, Pass, threadVars, DeviceStep
  <1> QED
    BY <1>2, <1>3, <1>4, <1>5, <1>6, <1>7, <1>8 DEF HostInv

-----------------------------------------------------------------------------
(* The invariant of the process *)

MainPlaces == {"opening", "loop", "leaving", "joining", "deleting", "clearing", "ended"}
MonitorPlaces == {"test", "sleeping", "awake", "reading", "exited"}

\* Outside a pass the threads move and the design, the program, the FIFO
\* and the histories stay (top.cc:69-95, 340-460).
LEMMA OtherSteps ==
  ASSUME HostInv, [Next]_vars, ~Iterate
  PROVE  UNCHANGED designVars /\ main' \in MainPlaces /\ monitor' \in MonitorPlaces
  <1> USE DEF MainPlaces, MonitorPlaces
  <1>0. main \in MainPlaces /\ monitor \in MonitorPlaces
    BY DEF HostInv
  <1>1. CASE OpenTrace \/ LeaveLoop \/ CtrlD \/ TellMonitor \/ Join \/ Delete \/ ClearPointer
    BY <1>0, <1>1 DEF OpenTrace, LeaveLoop, CtrlD, TellMonitor, Join, Delete, ClearPointer
  <1>2. CASE CtrlC \/ MonitorTest \/ MonitorWake \/ MonitorCheck \/ MonitorRead
    BY <1>0, <1>2 DEF CtrlC, MonitorTest, MonitorWake, MonitorCheck, MonitorRead
  <1>3. CASE UNCHANGED vars
    BY <1>0, <1>3 DEF vars, designVars, threadVars
  <1> QED
    BY <1>1, <1>2, <1>3 DEF Next, MainStep, MonitorStep

\* Every step of the host keeps the inductive invariant.
LEMMA HostStep == HostInv /\ [Next]_vars => HostInv'
  <1> SUFFICES ASSUME HostInv, [Next]_vars PROVE HostInv'
    OBVIOUS
  <1>1. CASE Iterate
    BY <1>1, PassMoves
  <1>2. CASE ~Iterate
    <2>1. UNCHANGED designVars /\ main' \in MainPlaces /\ monitor' \in MonitorPlaces
      BY <1>2, OtherSteps
    <2>2. UNCHANGED deviceVars /\ UNCHANGED halVars /\ UNCHANGED driverVars /\ UNCHANGED pinVars
          /\ UNCHANGED << typed, printed, delivered >>
      BY <2>1 DEF designVars
    <2>3. (UartTypeOK /\ UartDataOK)' /\ sim_use_par_txrx' = sim_use_par_txrx
      BY <2>2 DEF HostInv, deviceVars, uartVars, txVars, rxVars, UartTypeOK, UartDataOK, sample_at
    <2>4. ProgramInv' /\ got' = got /\ sent' = sent
      BY <2>2 DEF HostInv, halVars, ProgramInv, RequestOf
    <2>5. PortInv'
      BY <2>2 DEF HostInv, deviceVars, parVars, halVars, pinVars, PortInv
    <2>6. /\ rx_fifo' = rx_fifo /\ drv_tx' = drv_tx /\ drv_rx' = drv_rx
          /\ drv_rx_prev' = drv_rx_prev /\ typed' = typed
      BY <2>2 DEF pinVars, driverVars
    <2> QED
      BY <2>1, <2>3, <2>4, <2>5, <2>6 DEF HostInv, MainPlaces, MonitorPlaces
  <1> QED
    BY <1>1, <1>2

\* The host starts in the inductive invariant.
LEMMA HostStart == Init => HostInv
  <1> SUFFICES ASSUME Init PROVE HostInv
    OBVIOUS
  <1> USE ByteModOK, ByteBitsOK
  <1>1. 0 \in Byte /\ << >> \in Seq(Byte)
    BY DEF Byte
  <1>2. rx_fifo \in Fifo
    BY <1>1, FifoAssumption DEF Init, Fifo
  <1>3. ProgramInv
    BY <1>1, CallsAssumption DEF Init, HalInit, NoAccess, ProgramInv, BusRequest
  <1>4. PortInv
    BY <1>1 DEF Init, DeviceInit, ParInit, PortInv
  <1>5. UartTypeOK /\ UartDataOK
    <2>1. UartInit
      BY DEF Init, DeviceInit
    <2>2. sample_at = ClockDiv - 1
      BY <2>1 DEF UartInit, sample_at
    <2>3. UartTypeOK
      <3>1. /\ tx_counter \in 0 .. ByteBits - 1 /\ rx_counter \in 0 .. ByteBits - 1
            /\ tx_baud_counter \in 0 .. ClockDiv - 1 /\ rx_baud_counter \in 0 .. ClockDiv - 1
        BY <2>1, ClockDivAssumption DEF UartInit
      <3> QED
        BY <2>1, <2>2, <3>1 DEF UartInit, UartTypeOK, LineState
    <2>4. UartDataOK
      BY <1>1, <2>1, NoDataAssumption DEF UartInit, UartDataOK
    <2> QED
      BY <2>3, <2>4
  <1>6. InFrame(Quiet)
    BY CyclesPerBitAssumption DEF InFrame, Quiet, STOP_BIT
  <1> QED
    BY <1>1, <1>2, <1>3, <1>4, <1>5, <1>6, HostModesAssumption
       DEF Init, DeviceInit, HalInit, DriverInit, HostInv

\* Whatever is typed, whichever program runs and on either port, the FIFO's
\* indices stay in the ring, every character is a byte, and the counters of
\* the serial port and of its driver stay inside a bit and a frame.
THEOREM HostTypes == Spec => []HostTypeOK
  <1>1. ASSUME HostInv PROVE HostTypeOK
    <2>1. /\ rx_fifo.head \in 0 .. FifoSize - 1 /\ rx_fifo.tail \in 0 .. FifoSize - 1
          /\ rx_fifo.slot \in [0 .. FifoSize - 1 -> Byte]
      BY <1>1 DEF HostInv, Fifo
    <2>2. \A d : InFrame(d) => d.index \in -1 .. STOP_BIT /\ d.elapsed \in 0 .. CyclesPerBit
      BY CyclesPerBitAssumption DEF InFrame
    <2>3. InFrame(drv_tx) /\ InFrame(drv_rx)
      BY <1>1 DEF HostInv
    <2>4. /\ par_rx \in Byte /\ char \in Byte /\ UartTypeOK /\ routine \in Routines
          /\ main \in MainPlaces /\ monitor \in MonitorPlaces
      BY <1>1 DEF HostInv, ProgramInv, PortInv, MainPlaces, MonitorPlaces
    <2> QED
      BY <2>1, <2>2, <2>3, <2>4 DEF HostTypeOK, MainPlaces, MonitorPlaces
  <1> QED
    BY <1>1, HostStart, HostStep, PTL DEF Spec

-----------------------------------------------------------------------------
(* The way in *)

\* A program that reads characters with getchar only: fflush reads the page
\* too, and a read of any register takes the byte on the pins.
GetcharOnly == \A r \in DOMAIN Calls : "fflush" \notin Calls[r]

\* Between the pins and the program: a load takes the byte on the pins into
\* the latch, its answer takes it from there, and nothing else touches
\* either (top.v:107-131, hal.S).
LEMMA LatchMoves ==
  ASSUME HostInv, HalStep, sim_use_par_txrx, routine # "fflush",
         par_rx' \in Byte, par_rx_valid' \in BOOLEAN,
         ParRxStep(sim_use_par_txrx, hreq, par_rx_valid', par_rx')
  PROVE  (got \o InLatch) \o Offered = (got \o InLatch)' \o OnPins'
  <1>1. /\ PortInv'
        /\ par_rx_ack' => LoadAccepted /\ par_rx_latch' = par_rx'
        /\ LoadAccepted => par_rx_ack' = par_rx_valid'
    BY PortMoves
  <1>2. ProgramInv /\ PortInv /\ got \in Seq(Byte)
    BY DEF HostInv
  <1>3. << >> \in Seq(Byte) /\ got \o << >> = got
    BY <1>2, ConcatEmptySeq, EmptySeq
  <1>4. CASE LoadAccepted
    <2>1. ~awaiting /\ awaiting' = TRUE /\ got' = got
      BY <1>2, <1>4 DEF LoadAccepted, ProgramInv
    <2>2. InLatch = << >>
      BY <2>1 DEF InLatch
    <2>3. CASE par_rx_valid'
      <3>1. par_rx_ack' /\ par_rx_valid_latch' /\ par_rx_latch' = par_rx'
        BY <1>1, <1>4, <2>3 DEF PortInv
      <3>2. Offered = << par_rx' >> /\ InLatch' = << par_rx' >> /\ OnPins' = << >>
        BY <2>1, <2>3, <3>1 DEF Offered, InLatch, OnPins
      <3>3. got \o << par_rx' >> \in Seq(Byte)
        BY <1>2, ConcatProperties
      <3>4. (got \o << par_rx' >>) \o << >> = got \o << par_rx' >>
        BY <3>3, ConcatEmptySeq
      <3> QED
        BY <1>3, <2>1, <2>2, <3>2, <3>4
    <2>4. CASE ~par_rx_valid'
      <3>1. ~par_rx_ack' /\ ~par_rx_valid_latch'
        BY <1>1, <1>4, <2>4 DEF PortInv
      <3>2. Offered = << >> /\ InLatch' = << >> /\ OnPins' = << >>
        BY <2>1, <2>4, <3>1 DEF Offered, InLatch, OnPins
      <3> QED
        BY <2>1, <2>2, <3>2
    <2> QED
      BY <2>3, <2>4
  <1>5. CASE ~LoadAccepted
    <2>1. ~par_rx_ack' /\ ~par_rx_valid_latch'
      BY <1>1, <1>5 DEF PortInv
    <2>2. OnPins' = Offered /\ InLatch' = << >>
      BY <2>1 DEF OnPins, Offered, InLatch
    <2>3. got' = got \o InLatch
      <3>1. CASE Loaded(device_rdata(hreq.addr))
        <4>1. awaiting /\ routine = "getchar" /\ hreq.addr = UartPage * 4096 + RX
          BY <1>2, <3>1 DEF Loaded, ProgramInv, RequestOf
        <4>2. device_rdata(hreq.addr) = Flag(par_rx_valid_latch) * ByteMod + par_rx_latch
          <5>1. (UartPage * 4096 + RX) % 4096 # 8
            BY PageFacts DEF RX
          <5> QED
            BY <4>1, <5>1 DEF device_rdata, serial, par_rdata
        <4>3. /\ device_rdata(hreq.addr) % ByteMod = par_rx_latch
              /\ device_rdata(hreq.addr) \div ByteMod = Flag(par_rx_valid_latch)
          BY <1>2, <4>2, ByteWithFlag DEF PortInv
        <4>4. CASE par_rx_valid_latch
          <5>1. Flag(par_rx_valid_latch) = 1
            BY <4>4 DEF Flag
          <5>2. got' = Append(got, par_rx_latch)
            BY <3>1, <4>1, <4>3, <5>1 DEF Loaded
          <5>3. InLatch = << par_rx_latch >> /\ par_rx_latch \in Byte
            BY <1>2, <4>1, <4>4 DEF InLatch, PortInv
          <5> QED
            BY <1>2, <5>2, <5>3, AppendIsConcat
        <4>5. CASE ~par_rx_valid_latch
          <5>1. Flag(par_rx_valid_latch) = 0
            BY <4>5 DEF Flag
          <5>2. got' = got
            BY <3>1, <4>1, <4>3, <5>1 DEF Loaded
          <5>3. InLatch = << >>
            BY <4>5 DEF InLatch
          <5> QED
            BY <1>3, <5>2, <5>3
        <4> QED
          BY <4>4, <4>5
      <3>2. CASE Compute \/ Issue \/ Hold \/ Stored \/ Break
        <4>1. ~awaiting /\ got' = got
          BY <1>2, <3>2 DEF Compute, Issue, Hold, Stored, Break, halVars, ProgramInv
        <4>2. InLatch = << >>
          BY <4>1 DEF InLatch
        <4> QED
          BY <1>3, <4>1, <4>2
      <3> QED
        BY <1>5, <3>1, <3>2 DEF HalStep, HalBusy
    <2>4. got' \in Seq(Byte) /\ got' \o << >> = got'
      <3>1. got' \in Seq(Byte)
        BY ProgramMoves
      <3> QED
        BY <3>1, ConcatEmptySeq
    <2> QED
      BY <2>2, <2>3, <2>4
  <1> QED
    BY <1>4, <1>5

\* A pass moves bytes along the parallel way in, and changes neither their
\* order nor their number.
LEMMA InputStep ==
  ASSUME HostInv, Iterate, sim_use_par_txrx, routine # "fflush", ParallelInputKept
  PROVE  ParallelInputKept'
  <1> DEFINE taken == got \o InLatch
  <1>1. PICK f : ReadTerminal(f) /\ PresentParallel(f)
    BY DEF Iterate, Pass, par_txrx
  <1>2. PICK new \in Seq(Byte) : /\ typed' = typed \o new
                                 /\ Contents(f) = Contents(rx_fifo) \o new
    BY <1>1, TerminalMoves
  <1>3. f \in Fifo
    BY <1>1, TerminalMoves
  <1>4. /\ rx_fifo' \in Fifo /\ par_rx' \in Byte /\ par_rx_valid' \in BOOLEAN
        /\ OnPins \o Contents(f) = Offered \o Contents(rx_fifo')
    BY <1>1, <1>3, PresentMoves
  <1>5. taken \o Offered = taken' \o OnPins'
    BY <1>4, LatchMoves DEF Iterate, Pass, DeviceStep
  <1>6. typed = (taken \o OnPins) \o Contents(rx_fifo)
    BY DEF ParallelInputKept, par_txrx
  <1>7. /\ taken \in Seq(Byte) /\ OnPins \in Seq(Byte) /\ Offered \in Seq(Byte)
        /\ Contents(rx_fifo) \in Seq(Byte) /\ Contents(f) \in Seq(Byte)
        /\ Contents(rx_fifo') \in Seq(Byte)
    <2>1. got \in Seq(Byte) /\ rx_fifo \in Fifo /\ PortInv
      BY DEF HostInv
    <2>2. InLatch \in Seq(Byte) /\ OnPins \in Seq(Byte)
      BY <2>1 DEF InLatch, OnPins, PortInv
    <2>3. Offered \in Seq(Byte)
      BY <1>4 DEF Offered
    <2> QED
      BY <1>3, <1>4, <2>1, <2>2, <2>3, ContentsIsSeq, ConcatProperties
  <1> HIDE DEF taken
  <1>8. typed' = ((taken \o OnPins) \o Contents(rx_fifo)) \o new
    BY <1>2, <1>6
  <1>9. taken \o OnPins \in Seq(Byte)
    BY <1>7, ConcatProperties
  <1>10. \A s, t, u \in Seq(Byte) : (s \o t) \o u = s \o (t \o u)
    BY ConcatAssociative
  <1>11. /\ typed' = (taken \o OnPins) \o (Contents(rx_fifo) \o new)
         /\ (taken \o OnPins) \o Contents(f) = taken \o (OnPins \o Contents(f))
         /\ (taken \o Offered) \o Contents(rx_fifo') = taken \o (Offered \o Contents(rx_fifo'))
    <2>1. typed' = (taken \o OnPins) \o (Contents(rx_fifo) \o new)
      BY <1>7, <1>8, <1>9, <1>10, ZenonT(40)
    <2>2. (taken \o OnPins) \o Contents(f) = taken \o (OnPins \o Contents(f))
      <3>1. taken \in Seq(Byte) /\ OnPins \in Seq(Byte) /\ Contents(f) \in Seq(Byte)
        BY <1>7
      <3> QED
        BY <1>10, <3>1, ZenonT(30)
    <2>3. (taken \o Offered) \o Contents(rx_fifo') = taken \o (Offered \o Contents(rx_fifo'))
      <3>1. taken \in Seq(Byte) /\ Offered \in Seq(Byte) /\ Contents(rx_fifo') \in Seq(Byte)
        BY <1>7
      <3> QED
        BY <1>10, <3>1, ZenonT(30)
    <2> QED
      BY <2>1, <2>2, <2>3
  <1>12. typed' = taken \o (Offered \o Contents(rx_fifo'))
    BY <1>2, <1>4, <1>11
  <1>13. typed' = (taken \o Offered) \o Contents(rx_fifo')
    BY <1>11, <1>12
  <1>14. typed' = (taken' \o OnPins') \o Contents(rx_fifo')
    BY <1>5, <1>13
  <1> QED
    BY <1>14 DEF ParallelInputKept, taken, Contents

\* For every FIFO size and every program that reads with getchar only, each
\* byte the FIFO took is returned by getchar once and in order, or is still
\* in exactly one place on the way (top.cc:356-381, top.v:107-131): the
\* one-cycle acknowledgement is never missed and never taken for that of
\* the next byte.
THEOREM InputIsKept ==
  ASSUME GetcharOnly
  PROVE  Spec => []ParallelInputKept
  <1> DEFINE InputInv == HostInv /\ routine # "fflush" /\ ParallelInputKept
  <1>1. Init => InputInv
    <2> SUFFICES ASSUME Init PROVE InputInv
      OBVIOUS
    <2>1. HostInv
      BY HostStart
    <2>2. routine # "fflush"
      BY CallsAssumption DEF Init, HalInit, GetcharOnly
    <2>3. ParallelInputKept
      <3>1. InLatch = << >> /\ OnPins = << >> /\ got = << >> /\ typed = << >>
        BY DEF Init, HalInit, DeviceInit, ParInit, InLatch, OnPins
      <3>2. Contents(rx_fifo) = << >>
        <4>1. Contents(rx_fifo) \in Seq(Byte) /\ Len(Contents(rx_fifo)) = Ahead(rx_fifo)
          BY <2>1, ContentsIsSeq DEF HostInv
        <4>2. Ahead(rx_fifo) = 0
          BY DEF Init, Ahead
        <4> QED
          BY <4>1, <4>2, EmptySeq
      <3> QED
        BY <3>1, <3>2 DEF ParallelInputKept
    <2> QED
      BY <2>1, <2>2, <2>3
  <1>2. InputInv /\ [Next]_vars => InputInv'
    <2> SUFFICES ASSUME InputInv, [Next]_vars PROVE InputInv'
      OBVIOUS
    <2>1. HostInv'
      BY HostStep
    <2>2. CASE Iterate
      <3>1. routine' # "fflush"
        <4>1. routine \in DOMAIN Calls
          BY CallsAssumption DEF HostInv, ProgramInv
        <4>2. \A t : Return(t) => routine' # "fflush"
          BY <4>1 DEF Return, GetcharOnly
        <4> QED
          BY <2>2, <4>2 DEF Iterate, Pass, HalStep, HalBusy, Compute, Issue, Hold, Stored,
                            LoadAccepted, Loaded, Break, halVars
      <3>2. ParallelInputKept'
        <4>1. sim_use_par_txrx' = sim_use_par_txrx
          BY <2>2 DEF Iterate, Pass, DeviceStep
        <4>2. CASE sim_use_par_txrx
          BY <2>2, <4>2, InputStep
        <4>3. CASE ~sim_use_par_txrx
          BY <4>1, <4>3 DEF ParallelInputKept, par_txrx
        <4> QED
          BY <4>2, <4>3
      <3> QED
        BY <2>1, <3>1, <3>2
    <2>3. CASE ~Iterate
      <3>1. UNCHANGED designVars
        BY <2>3, OtherSteps
      <3>2. /\ UNCHANGED << routine, awaiting, got >> /\ UNCHANGED << typed, rx_fifo >>
            /\ UNCHANGED << par_rx, par_rx_valid, par_rx_ack, par_rx_valid_latch, par_rx_latch >>
            /\ UNCHANGED sim_use_par_txrx
        BY <3>1 DEF designVars, halVars, pinVars, deviceVars, parVars
      <3> QED
        BY <2>1, <3>2 DEF ParallelInputKept, par_txrx, InLatch, OnPins, Contents
    <2> QED
      BY <2>2, <2>3
  <1> QED
    BY <1>1, <1>2, PTL DEF Spec

-----------------------------------------------------------------------------
(* The way out *)

\* On the parallel port nothing is ever on its way: what is stored is shown
\* in the same pass, and the serial transmitter never starts.
NothingSending == sim_use_par_txrx => tx_state = "IDLE" /\ sent = printed

\* A pass shows the character the program stores in it, whole, or none
\* (top.v:133-144, top.cc:404-424).
LEMMA OutputStep ==
  ASSUME HostInv, Iterate, sim_use_par_txrx, NothingSending
  PROVE  tx_state' = "IDLE" /\ sent' = printed'
  <1>1. /\ ProgramInv /\ sent \in Seq(Byte) /\ InFrame(drv_tx) /\ UartTypeOK
        /\ sent = printed /\ tx_state = "IDLE"
    BY DEF HostInv, NothingSending
  <1>2. /\ hreq.valid \in BOOLEAN /\ hreq.write \in BOOLEAN /\ hreq.wdata \in Byte
        /\ hreq.valid => is_uart(hreq.addr)
    BY <1>1, PageFacts DEF ProgramInv, BusRequest, RequestOf
  <1>3. ~serial(hreq.addr)
    BY DEF serial
  <1>4. tx_state' = "IDLE"
    BY <1>1, <1>3 DEF Iterate, Pass, DeviceStep, UartStep, UartTx, TxIdle, TxHoldBit, TxEndBit
  <1>5. /\ par_tx_valid' = (hreq.valid /\ hreq.write)
        /\ hreq.valid /\ hreq.write => par_tx' = hreq.wdata % ByteMod
        /\ printed' = IF par_tx_valid' THEN Append(printed, par_tx') ELSE printed
    BY <1>2 DEF Iterate, Pass, DeviceStep, ParTxStep, ShowParallel, par_txrx
  <1>6. hreq.wdata % ByteMod = hreq.wdata
    BY <1>2, ByteModOK DEF Byte
  <1>7. CASE hreq.valid /\ hreq.write
    <2>1. Stored
      BY <1>1, <1>3, <1>7 DEF Iterate, Pass, HalStep, HalBusy, Compute, Issue, Hold, LoadAccepted,
                              Loaded, Break, bus_ready, ProgramInv
    <2> QED
      BY <1>1, <1>4, <1>5, <1>6, <1>7, <2>1 DEF Stored
  <1>8. CASE ~(hreq.valid /\ hreq.write)
    <2>1. sent' = sent
      BY <1>8 DEF Iterate, Pass, HalStep, HalBusy, Compute, Issue, Hold, Stored, LoadAccepted,
                  Loaded, Break, halVars
    <2> QED
      BY <1>1, <1>4, <1>5, <1>8, <2>1
  <1> QED
    BY <1>7, <1>8

\* On the parallel port every character a program stores is shown on the
\* terminal, once, in order and in the pass of its store, for every program.
THEOREM OutputIsKept == Spec => [](par_txrx => OutputKept)
  <1> DEFINE OutputInv == HostInv /\ NothingSending
  <1>1. Init => OutputInv
    BY HostStart DEF Init, HalInit, DeviceInit, UartInit, NothingSending
  <1>2. OutputInv /\ [Next]_vars => OutputInv'
    <2> SUFFICES ASSUME OutputInv, [Next]_vars PROVE OutputInv'
      OBVIOUS
    <2>1. HostInv'
      BY HostStep
    <2>2. CASE Iterate
      <3>1. sim_use_par_txrx' = sim_use_par_txrx
        BY <2>2 DEF Iterate, Pass, DeviceStep
      <3> QED
        BY <2>1, <2>2, <3>1, OutputStep DEF NothingSending
    <2>3. CASE ~Iterate
      <3>1. UNCHANGED designVars
        BY <2>3, OtherSteps
      <3>2. UNCHANGED << sim_use_par_txrx, tx_state, sent, printed >>
        BY <3>1 DEF designVars, halVars, deviceVars, uartVars, txVars
      <3> QED
        BY <2>1, <3>2 DEF NothingSending
    <2> QED
      BY <2>2, <2>3
  <1>3. OutputInv => (par_txrx => OutputKept)
    <2> SUFFICES ASSUME OutputInv, par_txrx PROVE OutputKept
      OBVIOUS
    <2>1. Sending = << >> /\ printed = sent /\ sent \in Seq(Byte)
      BY DEF NothingSending, par_txrx, Sending, HostInv
    <2>2. printed \o << >> = printed
      BY <2>1, ConcatEmptySeq
    <2> QED
      BY <2>1, <2>2 DEF OutputKept
  <1> QED
    BY <1>1, <1>2, <1>3, PTL DEF Spec

-----------------------------------------------------------------------------
(* The serial line, with both ends at the same rate *)

\* top.cc divides the clock by the rate of the line, uart.v names the
\* quotient: 434 cycles of a bit in both.
SameRate == CyclesPerBit = ClockDiv

\* The cycles of half a bit.
Half == ClockDiv \div 2

\* Half a bit and the cycle after it are inside the bit.
LEMMA HalfBit ==
  /\ ClockDiv \in Nat /\ ClockDiv <= 1024
  /\ Half \in Nat /\ 1 <= Half /\ Half + 1 < ClockDiv
  BY ClockDivAssumption, SMT DEF Half

\* The driver in the cycle after: inside its bit, in the next bit, or at
\* rest after the stop bit (top.cc:119-152).
LEMMA DriverTicks ==
  ASSUME NEW d, InFrame(d), d.index # -1
  PROVE  /\ d.elapsed + 1 # CyclesPerBit =>
              Advanced(Ticked(d)) = [byte |-> d.byte, index |-> d.index, elapsed |-> d.elapsed + 1]
         /\ d.elapsed + 1 = CyclesPerBit /\ d.index # STOP_BIT =>
              Advanced(Ticked(d)) = [byte |-> d.byte, index |-> d.index + 1, elapsed |-> 0]
         /\ d.elapsed + 1 = CyclesPerBit /\ d.index = STOP_BIT => Advanced(Ticked(d)) = Quiet
  <1>1. /\ d.index \in Int /\ d.index <= STOP_BIT /\ STOP_BIT \in Int /\ CyclesPerBit \in Int
        /\ d.elapsed \in Int /\ d.elapsed < CyclesPerBit
        /\ d = [byte |-> d.byte, index |-> d.index, elapsed |-> d.elapsed]
    BY CyclesPerBitAssumption, ByteBitsOK DEF InFrame, STOP_BIT
  <1>2. Ticked(d) = [byte |-> d.byte, index |-> d.index, elapsed |-> d.elapsed + 1]
    BY <1>1 DEF Ticked
  <1>3. CASE d.elapsed + 1 # CyclesPerBit
    BY <1>1, <1>2, <1>3 DEF Advanced
  <1>4. CASE d.elapsed + 1 = CyclesPerBit
    <2> DEFINE t == [byte |-> d.byte, index |-> d.index, elapsed |-> d.elapsed + 1]
    <2>1. t.index = d.index /\ t.elapsed >= CyclesPerBit /\ Advanced(Ticked(d)) = NextBit(t)
      BY <1>1, <1>2, <1>4 DEF Advanced
    <2>2. d.index + 1 > STOP_BIT <=> d.index = STOP_BIT
      BY <1>1
    <2>3. CASE d.index = STOP_BIT
      BY <1>4, <2>1, <2>2, <2>3 DEF NextBit
    <2>4. CASE d.index # STOP_BIT
      <3>1. NextBit(t) = [t EXCEPT !.index = @ + 1, !.elapsed = 0]
        BY <2>1, <2>2, <2>4 DEF NextBit
      <3> QED
        BY <1>4, <2>1, <2>4, <3>1
    <2> QED
      BY <2>3, <2>4
  <1> QED
    BY <1>3, <1>4

\* Driver d is half a bit and one cycle past the start of bit k, and b
\* cycles more.
Past(d, k, b) ==
  IF Half + 1 + b < ClockDiv THEN d.index = k /\ d.elapsed = Half + 1 + b
  ELSE d.index = k + 1 /\ d.elapsed = Half + 1 + b - ClockDiv

\* The receiver looks at the frame the driver sends, in the middle of its
\* bits, and has so far the low bits of its byte.
LineIn ==
  /\ drv_tx.byte \in Byte /\ rx_line_prev = Level(drv_tx) /\ delivered \in Seq(Byte)
  /\ rx_state = "IDLE" =>
       drv_tx.index = -1 \/ (drv_tx.index = STOP_BIT /\ drv_tx.elapsed > Half)
  /\ rx_state = "START" =>
       drv_tx.index = 0 /\ drv_tx.elapsed = rx_baud_counter /\ rx_byte = 0
  /\ rx_state = "DATA" =>
       Past(drv_tx, rx_counter, rx_baud_counter) /\ rx_byte = drv_tx.byte % 2^rx_counter
  /\ rx_state = "STOP" => Past(drv_tx, ByteBits, rx_baud_counter) /\ rx_byte = drv_tx.byte

\* A bit set above the low bits of a number is one more of its low bits
\* (uart.v:238).
LEMMA OneMoreBit ==
  ASSUME NEW w \in Byte, NEW k \in 0 .. ByteBits - 1
  PROVE  SetBit(w % 2^k, k, Bit(w, k)) = w % 2^(k + 1)
  <1> DEFINE P == 2^k
             r == w % P
  <1>1. w \in Int /\ k \in 0 .. XLEN /\ k \in 0 .. XLEN + 1 /\ k \in Nat
    BY Sizes, ByteModOK DEF Byte
  <1>2. P \in Nat \ {0}
    BY <1>1, PowerStep
  <1>3. w % 2^(k + 1) = r + Bit(w, k) * P /\ r \in 0 .. P - 1
    BY <1>1, ModPower
  <1>4. Bit(w, k) \in Int
    BY <1>1, BitIsBit
  <1>5. Bit(r, k) = 0
    <2>1. \A n \in Nat \ {0} : \A a \in 0 .. n - 1 : (a \div n) % 2 = 0
      OBVIOUS
    <2> HIDE DEF r, P
    <2>2. (r \div P) % 2 = 0
      BY <1>2, <1>3, <2>1
    <2> QED
      BY <2>2 DEF Bit, P
  <1> HIDE DEF r
  <1>6. SetBit(r, k, Bit(w, k)) = r + (Bit(w, k) - 0) * P
    BY <1>5 DEF SetBit
  <1> HIDE DEF P
  <1>7. r + (Bit(w, k) - 0) * P = r + Bit(w, k) * P
    BY <1>2, <1>3, <1>4
  <1> QED
    BY <1>3, <1>6, <1>7 DEF r, P

\* All the bits of a byte are the byte.
LEMMA WholeByte ==
  ASSUME NEW w \in Byte
  PROVE  w % 2^ByteBits = w /\ w % 2^0 = 0
  <1>1. w \in Int /\ 0 \in 0 .. XLEN
    BY Sizes, ByteModOK DEF Byte
  <1>2. w % 2^0 = 0
    BY <1>1, ModPower
  <1>3. w % ByteMod = w
    BY ByteModOK DEF Byte
  <1> QED
    BY <1>2, <1>3, WordModIsPower

\* What the driver shows on the line (top.cc:154-162).
LEMMA Levels ==
  ASSUME NEW d
  PROVE  /\ d.index = 0 => Level(d) = 0
         /\ d.index = -1 \/ d.index = STOP_BIT => Level(d) = 1
         /\ \A k \in 0 .. ByteBits - 1 : d.index = k + 1 => Level(d) = Bit(d.byte, k)
  <1>1. ByteBits \in Nat /\ ByteBits > 0
    BY ByteBitsOK
  <1>2. d.index = 0 => Level(d) = 0
    BY DEF Level
  <1>3. d.index = -1 \/ d.index = STOP_BIT => Level(d) = 1
    <2>1. d.index = -1 \/ d.index = STOP_BIT => d.index # 0 /\ d.index \notin 1 .. ByteBits
      BY <1>1 DEF STOP_BIT
    <2> QED
      BY <2>1 DEF Level
  <1>4. ASSUME NEW k \in 0 .. ByteBits - 1, d.index = k + 1
        PROVE  Level(d) = Bit(d.byte, k)
    <2>1. d.index # 0 /\ d.index \in 1 .. ByteBits /\ d.index - 1 = k
      BY <1>1, <1>4
    <2> QED
      BY <2>1 DEF Level
  <1> QED
    BY <1>2, <1>3, <1>4

\* The bytes on their way when nothing is taken from the FIFO.
OnTheWay(f) == (delivered \o OnLine) \o Contents(f)

\* With the line at rest, or in the second half of a stop bit, the receiver
\* waits; a byte the driver takes up gives it the edge it waits for
\* (uart.v:192-207, top.cc:383-391).
LEMMA IdleLineMoves ==
  ASSUME SameRate, HostInv, LineIn, rx_state = "IDLE",
         NEW f \in Fifo, StartSerial(f), UartRx(Level(drv_tx')),
         delivered' = IF rx_byte_valid' THEN Append(delivered, rx_byte') ELSE delivered
  PROVE  LineIn' /\ OnTheWay(f) = (delivered' \o OnLine') \o Contents(rx_fifo')
  <1>1. /\ rx_line_prev' = Level(drv_tx') /\ rx_line_prev = Level(drv_tx)
        /\ RxIdle(Level(drv_tx')) /\ drv_tx.byte \in Byte /\ delivered \in Seq(Byte)
    BY DEF UartRx, RxCount, RxStart, RxData, RxStop, LineIn
  <1>2. delivered' = delivered
    BY <1>1 DEF RxIdle
  <1>3. InFrame(drv_tx) /\ drv_tx.index \in Int /\ drv_tx.elapsed \in Int
    BY ByteBitsOK DEF HostInv, InFrame, STOP_BIT
  <1>4. OnLine = << >> /\ delivered \o << >> = delivered
    BY <1>1, ConcatEmptySeq DEF OnLine
  <1>5. CASE is_idle /\ ~Empty(f)
    <2>1. Oldest(f) \in Byte /\ Contents(f) = << Oldest(f) >> \o Contents(Dequeue(f)) /\ Dequeue(f) \in Fifo
      BY <1>5, DequeueTakesOldest
    <2>2. drv_tx' = [byte |-> Oldest(f), index |-> 0, elapsed |-> 0] /\ rx_fifo' = Dequeue(f)
      BY <1>5, CyclesPerBitAssumption DEF StartSerial, StartTx, Advanced
    <2>3. Level(drv_tx') = 0 /\ Level(drv_tx) = 1
      BY <1>5, <2>2, Levels DEF is_idle
    <2>4. rx_state' = "START" /\ rx_baud_counter' = 0 /\ rx_byte' = 0
      BY <1>1, <2>3 DEF RxIdle
    <2>5. LineIn'
      BY <1>1, <1>2, <2>1, <2>2, <2>4 DEF LineIn, Level
    <2>6. OnLine' = << Oldest(f) >>
      BY <2>2, <2>4 DEF OnLine
    <2>7. (delivered \o << Oldest(f) >>) \o Contents(Dequeue(f))
            = delivered \o (<< Oldest(f) >> \o Contents(Dequeue(f)))
      <3>1. delivered \in Seq(Byte) /\ << Oldest(f) >> \in Seq(Byte) /\ Contents(Dequeue(f)) \in Seq(Byte)
        BY <1>1, <2>1, ContentsIsSeq
      <3>2. \A s, t, u \in Seq(Byte) : (s \o t) \o u = s \o (t \o u)
        BY ConcatAssociative
      <3> QED
        BY <3>1, <3>2, Zenon
    <2> QED
      BY <1>2, <1>4, <2>1, <2>2, <2>5, <2>6, <2>7 DEF OnTheWay
  <1>6. CASE ~(is_idle /\ ~Empty(f))
    <2>1. rx_fifo' = f /\ drv_tx' = Advanced(Ticked(drv_tx))
      BY <1>6 DEF StartSerial
    <2>2. /\ drv_tx'.byte \in Byte
          /\ drv_tx'.index = -1 \/ (drv_tx'.index = STOP_BIT /\ drv_tx'.elapsed > Half)
      <3>1. CASE drv_tx.index = -1
        BY <1>1, <2>1, <3>1 DEF Ticked, Advanced
      <3>2. CASE drv_tx.index # -1
        <4>1. drv_tx.index = STOP_BIT /\ drv_tx.elapsed > Half
          BY <3>2 DEF LineIn
        <4>2. CASE drv_tx.elapsed + 1 = CyclesPerBit
          <5>1. drv_tx' = Quiet /\ 0 \in Byte
            BY <1>3, <2>1, <3>2, <4>1, <4>2, DriverTicks, ByteModOK DEF Byte
          <5> QED
            BY <5>1 DEF Quiet
        <4>3. CASE drv_tx.elapsed + 1 # CyclesPerBit
          <5>1. drv_tx' = [byte |-> drv_tx.byte, index |-> drv_tx.index, elapsed |-> drv_tx.elapsed + 1]
            BY <1>3, <2>1, <3>2, <4>3, DriverTicks
          <5>2. drv_tx.elapsed + 1 > Half
            BY <1>3, <4>1, HalfBit
          <5> QED
            BY <1>1, <4>1, <5>1, <5>2
        <4> QED
          BY <4>2, <4>3
      <3> QED
        BY <3>1, <3>2
    <2>3. Level(drv_tx') = 1
      BY <2>2, Levels
    <2>4. rx_state' = "IDLE"
      BY <1>1, <2>3 DEF RxIdle
    <2>5. LineIn'
      BY <1>1, <1>2, <2>2, <2>4 DEF LineIn, Level
    <2> QED
      BY <1>2, <2>1, <2>4, <2>5 DEF OnLine, OnTheWay
  <1> QED
    BY <1>5, <1>6

\* A driver past the middle of bit k goes on; a whole bit later it is past
\* the middle of the next.
LEMMA PastTicks ==
  ASSUME SameRate, NEW d, InFrame(d), NEW k \in 0 .. ByteBits, NEW b \in 0 .. ClockDiv - 1,
         Past(d, k, b)
  PROVE  /\ d.index # -1 /\ Advanced(Ticked(d)).byte = d.byte
         /\ b # ClockDiv - 1 => Past(Advanced(Ticked(d)), k, b + 1)
         /\ b = ClockDiv - 1 => /\ Advanced(Ticked(d)).index = k + 1
                                /\ Advanced(Ticked(d)).elapsed = Half + 1
  <1> DEFINE n == Advanced(Ticked(d))
             i == d.index
             e == d.elapsed
  <1>1. /\ i \in Int /\ e \in Int /\ k \in Int /\ b \in Int /\ 0 <= k /\ 0 <= b
        /\ b <= ClockDiv - 1 /\ STOP_BIT \in Int /\ k < STOP_BIT
    BY ByteBitsOK, HalfBit DEF InFrame, STOP_BIT
  <1>2. CASE Half + 1 + b < ClockDiv
    <2>1. i = k /\ e = Half + 1 + b
      BY <1>2 DEF Past
    <2>2. i # -1 /\ i # STOP_BIT /\ b # ClockDiv - 1
      BY <1>1, <1>2, <2>1, HalfBit
    <2>3. CASE e + 1 = ClockDiv
      <3>1. n = [byte |-> d.byte, index |-> i + 1, elapsed |-> 0]
        BY <2>2, <2>3, DriverTicks DEF SameRate
      <3>2. ~(Half + 1 + (b + 1) < ClockDiv) /\ Half + 1 + (b + 1) - ClockDiv = 0
        BY <1>1, <2>1, <2>3, HalfBit
      <3> QED
        BY <2>1, <2>2, <3>1, <3>2 DEF Past
    <2>4. CASE e + 1 # ClockDiv
      <3>1. n = [byte |-> d.byte, index |-> i, elapsed |-> e + 1]
        BY <2>2, <2>4, DriverTicks DEF SameRate
      <3>2. Half + 1 + (b + 1) < ClockDiv /\ Half + 1 + (b + 1) = e + 1
        BY <1>1, <1>2, <2>1, <2>4, HalfBit
      <3> QED
        BY <2>1, <2>2, <3>1, <3>2 DEF Past
    <2> QED
      BY <2>3, <2>4
  <1>3. CASE ~(Half + 1 + b < ClockDiv)
    <2>1. i = k + 1 /\ e = Half + 1 + b - ClockDiv
      BY <1>3 DEF Past
    <2>2. i # -1 /\ e + 1 # ClockDiv
      BY <1>1, <2>1, HalfBit
    <2>3. n = [byte |-> d.byte, index |-> i, elapsed |-> e + 1]
      BY <2>2, DriverTicks DEF SameRate
    <2>4. ~(Half + 1 + (b + 1) < ClockDiv) /\ Half + 1 + (b + 1) - ClockDiv = e + 1
      BY <1>1, <1>3, <2>1, HalfBit
    <2>5. b = ClockDiv - 1 => e + 1 = Half + 1
      BY <1>1, <2>1, HalfBit
    <2> QED
      BY <2>1, <2>2, <2>3, <2>4, <2>5 DEF Past
  <1> QED
    BY <1>2, <1>3

\* A receiver inside a frame samples every bit while the driver shows it, a
\* half bit and a cycle after its start, and pulses for the byte of the
\* frame at its stop bit (uart.v:209-260).
LEMMA BusyLineMoves ==
  ASSUME SameRate, HostInv, LineIn, rx_state # "IDLE",
         NEW f \in Fifo, StartSerial(f), UartRx(Level(drv_tx')),
         delivered' = IF rx_byte_valid' THEN Append(delivered, rx_byte') ELSE delivered
  PROVE  LineIn' /\ OnTheWay(f) = (delivered' \o OnLine') \o Contents(rx_fifo')
  <1> DEFINE d == drv_tx
             n == Advanced(Ticked(drv_tx))
             b == rx_baud_counter
  <1>1. /\ rx_line_prev' = Level(drv_tx') /\ d.byte \in Byte /\ delivered \in Seq(Byte)
        /\ InFrame(d)
    BY DEF UartRx, LineIn, HostInv
  <1>2. /\ rx_state \in {"START", "DATA", "STOP"} /\ rx_counter \in 0 .. ByteBits - 1
        /\ b \in 0 .. sample_at /\ b \in Int
        /\ rx_state = "START" => sample_at = Half
        /\ rx_state # "START" => sample_at = ClockDiv - 1 /\ b \in 0 .. ClockDiv - 1
    BY HalfBit DEF HostInv, UartTypeOK, LineState, sample_at, Half
  <1>3. b # sample_at => (b + 1) % 1024 = b + 1
    <2>1. b # sample_at => b + 1 \in 0 .. 1023
      <3>1. sample_at \in Int /\ sample_at <= ClockDiv - 1
        BY <1>2, HalfBit
      <3> QED
        BY <1>2, <3>1, HalfBit
    <2> DEFINE c == b + 1
    <2>2. b # sample_at => c \in 0 .. 1023
      BY <2>1
    <2> HIDE DEF c
    <2>3. c \in 0 .. 1023 => c % 1024 = c
      BY SMT
    <2>4. b # sample_at => c % 1024 = c
      BY <2>2, <2>3
    <2> QED
      BY <2>4 DEF c
  <1>4. /\ rx_state = "DATA" => Past(d, rx_counter, b) /\ rx_byte = d.byte % 2^rx_counter
        /\ rx_state = "STOP" => Past(d, ByteBits, b) /\ rx_byte = d.byte
        /\ rx_state = "START" => d.index = 0 /\ d.elapsed = b /\ rx_byte = 0
    BY DEF LineIn
  <1>5. /\ rx_counter \in 0 .. ByteBits /\ ByteBits \in 0 .. ByteBits
        /\ ByteBits - 1 \in Int /\ (ByteBits - 1) + 1 = ByteBits /\ rx_counter \in Int
    BY <1>2, ByteBitsOK
  <1>6. d.index # -1
    <2>1. CASE rx_state = "START"
      BY <1>4, <2>1
    <2>2. CASE rx_state = "DATA"
      BY <1>1, <1>2, <1>4, <1>5, <2>2, PastTicks
    <2>3. CASE rx_state = "STOP"
      BY <1>1, <1>2, <1>4, <1>5, <2>3, PastTicks
    <2> QED
      BY <1>2, <2>1, <2>2, <2>3
  <1>7. drv_tx' = n /\ rx_fifo' = f
    BY <1>6 DEF StartSerial, is_idle
  <1>8. OnLine = << d.byte >>
    BY DEF OnLine
  <1>9. ASSUME LineIn', rx_state' # "IDLE", n.byte = d.byte, ~rx_byte_valid'
        PROVE  OnTheWay(f) = (delivered' \o OnLine') \o Contents(rx_fifo')
    BY <1>7, <1>8, <1>9 DEF OnTheWay, OnLine
  <1> HIDE DEF n, d, b
  <1>10. CASE rx_state = "START"
    <2>1. n = [byte |-> d.byte, index |-> 0, elapsed |-> b + 1]
      <3>1. d.elapsed + 1 # CyclesPerBit
        BY <1>2, <1>4, <1>10, HalfBit DEF SameRate
      <3> QED
        BY <1>1, <1>4, <1>6, <1>10, <3>1, DriverTicks DEF d, n
    <2>2. Level(drv_tx') = 0
      BY <1>7, <2>1, Levels
    <2>3. CASE b # sample_at
      <3>1. rx_state' = "START" /\ rx_baud_counter' = b + 1 /\ rx_byte' = 0 /\ rx_byte_valid' = FALSE
        BY <1>3, <1>4, <1>10, <2>3 DEF UartRx, RxIdle, RxCount, RxStart, RxData, RxStop, b
      <3>2. LineIn'
        BY <1>1, <1>7, <2>1, <3>1 DEF LineIn, Level
      <3> QED
        BY <1>9, <2>1, <3>1, <3>2
    <2>4. CASE b = sample_at
      <3>1. /\ rx_state' = "DATA" /\ rx_counter' = 0 /\ rx_baud_counter' = 0 /\ rx_byte' = 0
            /\ rx_byte_valid' = FALSE
        BY <1>4, <1>10, <2>2, <2>4 DEF UartRx, RxIdle, RxCount, RxStart, RxData, RxStop, b
      <3>2. b = Half /\ Half + 1 + 0 < ClockDiv /\ Half + 1 + 0 = b + 1
        BY <1>2, <1>10, <2>4, HalfBit
      <3>3. Past(n, 0, 0)
        BY <2>1, <3>2 DEF Past
      <3>4. rx_byte' = n.byte % 2^0
        BY <1>1, <2>1, <3>1, WholeByte
      <3>5. LineIn'
        BY <1>1, <1>7, <2>1, <3>1, <3>3, <3>4 DEF LineIn, Level, Past
      <3> QED
        BY <1>9, <2>1, <3>1, <3>5
    <2> QED
      BY <2>3, <2>4
  <1>11. CASE rx_state = "DATA"
    <2>1. /\ n.byte = d.byte
          /\ b # ClockDiv - 1 => Past(n, rx_counter, b + 1)
          /\ b = ClockDiv - 1 => n.index = rx_counter + 1 /\ n.elapsed = Half + 1
      BY <1>1, <1>2, <1>4, <1>5, <1>11, PastTicks DEF n, d
    <2>2. CASE b # sample_at
      <3>1. /\ rx_state' = "DATA" /\ rx_baud_counter' = b + 1 /\ rx_byte' = rx_byte
            /\ rx_counter' = rx_counter /\ rx_byte_valid' = FALSE
        BY <1>3, <1>11, <2>2 DEF UartRx, RxIdle, RxCount, RxStart, RxData, RxStop, b
      <3>2. Past(n, rx_counter, b + 1)
        BY <1>2, <1>11, <2>1, <2>2
      <3>3. LineIn'
        BY <1>1, <1>4, <1>7, <1>11, <2>1, <3>1, <3>2 DEF LineIn, Level, Past
      <3> QED
        BY <1>9, <2>1, <3>1, <3>3
    <2>3. CASE b = sample_at
      <3>1. /\ rx_byte' = SetBit(rx_byte, rx_counter, Level(drv_tx')) /\ rx_baud_counter' = 0
            /\ rx_state' = IF rx_counter = ByteBits - 1 THEN "STOP" ELSE "DATA"
            /\ rx_counter' = IF rx_counter = ByteBits - 1 THEN rx_counter ELSE rx_counter + 1
            /\ rx_byte_valid' = FALSE
        BY <1>11, <2>3 DEF UartRx, RxIdle, RxCount, RxStart, RxData, RxStop, b
      <3>2. n.index = rx_counter + 1 /\ n.elapsed = Half + 1
        BY <1>2, <1>11, <2>1, <2>3
      <3>3. Level(n) = Bit(d.byte, rx_counter)
        BY <1>2, <2>1, <3>2, Levels
      <3>4. rx_byte' = d.byte % 2^(rx_counter + 1)
        BY <1>1, <1>2, <1>4, <1>7, <1>11, <3>1, <3>3, OneMoreBit
      <3>5. Past(n, rx_counter + 1, 0)
        <4>1. Half + 1 + 0 < ClockDiv /\ Half + 1 + 0 = Half + 1
          BY HalfBit
        <4> QED
          BY <3>2, <4>1 DEF Past
      <3>6. LineIn'
        <4>1. CASE rx_counter = ByteBits - 1
          <5>1. rx_byte' = n.byte /\ Past(n, ByteBits, 0) /\ rx_state' = "STOP"
            BY <1>1, <1>5, <2>1, <3>1, <3>4, <3>5, <4>1, WholeByte
          <5> QED
            BY <1>1, <1>7, <2>1, <3>1, <5>1 DEF LineIn, Level, Past
        <4>2. CASE rx_counter # ByteBits - 1
          <5>1. /\ rx_state' = "DATA" /\ rx_counter' = rx_counter + 1
                /\ rx_byte' = n.byte % 2^rx_counter' /\ Past(n, rx_counter', 0)
            BY <2>1, <3>1, <3>4, <3>5, <4>2
          <5> QED
            BY <1>1, <1>7, <2>1, <3>1, <5>1 DEF LineIn, Level, Past
        <4> QED
          BY <4>1, <4>2
      <3> QED
        BY <1>9, <2>1, <3>1, <3>6
    <2> QED
      BY <2>2, <2>3
  <1>12. CASE rx_state = "STOP"
    <2>1. /\ n.byte = d.byte
          /\ b # ClockDiv - 1 => Past(n, ByteBits, b + 1)
          /\ b = ClockDiv - 1 => n.index = STOP_BIT /\ n.elapsed = Half + 1
      BY <1>1, <1>2, <1>4, <1>5, <1>12, PastTicks DEF n, d, STOP_BIT
    <2>2. CASE b # sample_at
      <3>1. /\ rx_state' = "STOP" /\ rx_baud_counter' = b + 1 /\ rx_byte' = rx_byte
            /\ rx_byte_valid' = FALSE
        BY <1>3, <1>12, <2>2 DEF UartRx, RxIdle, RxCount, RxStart, RxData, RxStop, b
      <3>2. Past(n, ByteBits, b + 1)
        BY <1>2, <1>12, <2>1, <2>2
      <3>3. LineIn'
        BY <1>1, <1>4, <1>7, <1>12, <2>1, <3>1, <3>2 DEF LineIn, Level, Past
      <3> QED
        BY <1>9, <2>1, <3>1, <3>3
    <2>3. CASE b = sample_at
      <3>1. n.index = STOP_BIT /\ n.elapsed = Half + 1 /\ Half + 1 > Half
        BY <1>2, <1>12, <2>1, <2>3, HalfBit
      <3>2. Level(drv_tx') = 1
        BY <1>7, <3>1, Levels
      <3>3. rx_state' = "IDLE" /\ rx_byte_valid' = TRUE /\ rx_byte' = d.byte
        BY <1>4, <1>12, <2>3, <3>2 DEF UartRx, RxIdle, RxCount, RxStart, RxData, RxStop, b
      <3>4. delivered' = delivered \o << d.byte >> /\ delivered' \in Seq(Byte)
        BY <1>1, <3>3, AppendIsConcat, AppendProperties
      <3>5. LineIn'
        BY <1>1, <1>7, <2>1, <3>1, <3>3, <3>4 DEF LineIn, Level
      <3>6. OnLine' = << >> /\ delivered' \o << >> = delivered'
        BY <3>3, <3>4, ConcatEmptySeq DEF OnLine
      <3> QED
        BY <1>7, <1>8, <3>4, <3>5, <3>6 DEF OnTheWay
    <2> QED
      BY <2>2, <2>3
  <1> QED
    BY <1>2, <1>10, <1>11, <1>12

\* A pass moves bytes along the serial way in, and changes neither their
\* order, their number nor their bits.
LEMMA SerialInputStep ==
  ASSUME SameRate, HostInv, LineIn, Iterate, ~sim_use_par_txrx, SerialInputKept
  PROVE  LineIn' /\ SerialInputKept'
  <1> DEFINE before == delivered \o OnLine
  <1>1. PICK f : ReadTerminal(f) /\ StartSerial(f)
    BY DEF Iterate, Pass, par_txrx
  <1>2. PICK new \in Seq(Byte) : /\ typed' = typed \o new
                                 /\ Contents(f) = Contents(rx_fifo) \o new
    BY <1>1, TerminalMoves
  <1>3. f \in Fifo
    BY <1>1, TerminalMoves
  <1>4. LineIn' /\ OnTheWay(f) = (delivered' \o OnLine') \o Contents(rx_fifo')
    <2>1. /\ UartRx(Level(drv_tx'))
          /\ delivered' = IF rx_byte_valid' THEN Append(delivered, rx_byte') ELSE delivered
      BY DEF Iterate, Pass, DeviceStep, UartStep
    <2> QED
      BY <1>1, <1>3, <2>1, IdleLineMoves, BusyLineMoves
  <1>5. typed = before \o Contents(rx_fifo)
    BY DEF SerialInputKept, par_txrx
  <1>6. before \in Seq(Byte) /\ Contents(rx_fifo) \in Seq(Byte)
    <2>1. delivered \in Seq(Byte) /\ OnLine \in Seq(Byte) /\ rx_fifo \in Fifo
      BY DEF LineIn, OnLine, HostInv
    <2> QED
      BY <2>1, ContentsIsSeq, ConcatProperties
  <1>7. before \o Contents(f) = (before \o Contents(rx_fifo)) \o new
    <2> HIDE DEF before
    <2>1. \A s, t, u \in Seq(Byte) : (s \o t) \o u = s \o (t \o u)
      BY ConcatAssociative
    <2>2. (before \o Contents(rx_fifo)) \o new = before \o (Contents(rx_fifo) \o new)
      BY <1>6, <2>1, Zenon
    <2> QED
      BY <1>2, <2>2
  <1>8. typed' = (delivered' \o OnLine') \o Contents(rx_fifo')
    BY <1>2, <1>4, <1>5, <1>7 DEF OnTheWay
  <1> QED
    BY <1>4, <1>8 DEF SerialInputKept, Contents

\* With both ends at the same rate, every byte the FIFO took and the driver
\* sent is pulsed for by the receiver once, in order and with its bits
\* right, or is still in the FIFO or on the line, whether frames come back
\* to back or any time apart (top.cc:356-391, uart.v:178-266).
THEOREM SerialInputIsKept ==
  ASSUME SameRate
  PROVE  Spec => []SerialInputKept
  <1> DEFINE Inv == HostInv /\ (~sim_use_par_txrx => LineIn) /\ SerialInputKept
  <1>1. Init => Inv
    <2> SUFFICES ASSUME Init PROVE Inv
      OBVIOUS
    <2>1. HostInv
      BY HostStart
    <2>2. rx_state = "IDLE" /\ rx_line_prev = 1 /\ drv_tx = Quiet /\ delivered = << >> /\ typed = << >>
      BY DEF Init, DeviceInit, UartInit, DriverInit
    <2>3. LineIn
      <3>1. drv_tx.index = -1 /\ drv_tx.byte = 0 /\ 0 \in Byte /\ << >> \in Seq(Byte)
        BY <2>2, ByteModOK DEF Quiet, Byte
      <3>2. Level(drv_tx) = 1
        BY <3>1, Levels
      <3> QED
        BY <2>2, <3>1, <3>2 DEF LineIn
    <2>4. SerialInputKept
      <3>1. Contents(rx_fifo) = << >>
        <4>1. Contents(rx_fifo) \in Seq(Byte) /\ Len(Contents(rx_fifo)) = Ahead(rx_fifo)
          BY <2>1, ContentsIsSeq DEF HostInv
        <4>2. Ahead(rx_fifo) = 0
          BY DEF Init, Ahead
        <4> QED
          BY <4>1, <4>2, EmptySeq
      <3>2. OnLine = << >>
        BY <2>2 DEF OnLine
      <3> QED
        BY <2>2, <3>1, <3>2 DEF SerialInputKept
    <2> QED
      BY <2>1, <2>3, <2>4
  <1>2. Inv /\ [Next]_vars => Inv'
    <2> SUFFICES ASSUME Inv, [Next]_vars PROVE Inv'
      OBVIOUS
    <2>1. HostInv'
      BY HostStep
    <2>2. CASE Iterate
      <3>1. sim_use_par_txrx' = sim_use_par_txrx /\ sim_use_par_txrx \in BOOLEAN
        BY <2>2 DEF Iterate, Pass, DeviceStep, HostInv
      <3>2. CASE ~sim_use_par_txrx
        BY <2>1, <2>2, <3>2, SerialInputStep
      <3>3. CASE sim_use_par_txrx
        BY <2>1, <3>1, <3>3 DEF SerialInputKept, par_txrx
      <3> QED
        BY <3>2, <3>3
    <2>3. CASE ~Iterate
      <3>1. UNCHANGED designVars
        BY <2>3, OtherSteps
      <3>2. /\ UNCHANGED << typed, delivered, rx_fifo, drv_tx, sim_use_par_txrx >>
            /\ UNCHANGED << rx_state, rx_counter, rx_baud_counter, rx_byte, rx_line_prev >>
        BY <3>1 DEF designVars, pinVars, deviceVars, uartVars, rxVars, driverVars
      <3>3. SerialInputKept'
        BY <3>2 DEF SerialInputKept, par_txrx, OnLine, Contents
      <3>4. ~sim_use_par_txrx' => LineIn'
        BY <3>2 DEF LineIn, Past, Level
      <3> QED
        BY <2>1, <3>3, <3>4
    <2> QED
      BY <2>2, <2>3
  <1> QED
    BY <1>1, <1>2, PTL DEF Spec

-----------------------------------------------------------------------------
(* The serial way out *)

\* The driver's receiving side is in the bit the transmitter sends, and has
\* or-ed in the bits whose middle has passed.
LineOut ==
  /\ drv_rx_prev = tx /\ printed \in Seq(Byte)
  /\ tx_state = "IDLE" => drv_rx = Quiet
  /\ tx_state = "START" =>
       tx_counter = 0 /\ drv_rx = [byte |-> 0, index |-> 0, elapsed |-> tx_baud_counter]
  /\ tx_state = "DATA" =>
       drv_rx = [byte |-> IF tx_baud_counter < Half THEN data_to_send % 2^tx_counter
                          ELSE data_to_send % 2^(tx_counter + 1),
                 index |-> tx_counter + 1, elapsed |-> tx_baud_counter]
  /\ tx_state = "STOP" =>
       drv_rx = [byte |-> data_to_send, index |-> STOP_BIT, elapsed |-> tx_baud_counter]

\* A look at the line inside a frame: away from the middle of a bit only
\* the time goes on, and a byte is returned at the end of the stop bit; in
\* the middle a data bit is or-ed in, and the start and stop bits have to
\* be there (top.cc:164-211).
LEMMA DriverLooks ==
  ASSUME SameRate, NEW d, InFrame(d), d.index # -1, NEW prev, NEW line \in {0, 1}
  PROVE  /\ d.elapsed + 1 # Half =>
              /\ RxAfter(Ticked(d), prev, line) = Advanced(Ticked(d))
              /\ RxReturns(Ticked(d), prev, line) =
                   IF d.index = STOP_BIT /\ d.elapsed + 1 = ClockDiv THEN << d.byte >> ELSE << >>
         /\ d.elapsed + 1 = Half =>
              /\ RxReturns(Ticked(d), prev, line) = << >>
              /\ (d.index = 0 /\ line = 0) \/ (d.index = STOP_BIT /\ line = 1) =>
                   RxAfter(Ticked(d), prev, line) =
                     [byte |-> d.byte, index |-> d.index, elapsed |-> Half]
              /\ \A k \in 0 .. ByteBits - 1 : d.index = k + 1 =>
                   RxAfter(Ticked(d), prev, line) =
                     [byte |-> IF line = 1 THEN SetBit(d.byte, k, 1) ELSE d.byte,
                      index |-> d.index, elapsed |-> Half]
  <1> DEFINE t == [byte |-> d.byte, index |-> d.index, elapsed |-> d.elapsed + 1]
  <1>1. /\ d.index \in Int /\ d.index <= STOP_BIT /\ STOP_BIT \in Int /\ ByteBits \in Int /\ ByteBits > 0
        /\ d.elapsed \in Int /\ d.elapsed < ClockDiv /\ STOP_BIT = ByteBits + 1
        /\ d = [byte |-> d.byte, index |-> d.index, elapsed |-> d.elapsed]
    BY CyclesPerBitAssumption, ByteBitsOK DEF InFrame, STOP_BIT, SameRate
  <1>2. Ticked(d) = t
    BY <1>1 DEF Ticked
  <1>3. Begun(t, prev, line) = t /\ t.index = d.index /\ t.elapsed = d.elapsed + 1 /\ t.byte = d.byte
    BY DEF Begun
  <1>4. in_middle(t) <=> d.elapsed + 1 = Half
    BY <1>3 DEF in_middle, Half, SameRate
  <1>5. is_complete(t) <=> d.index = STOP_BIT /\ d.elapsed + 1 = ClockDiv
    BY <1>1, <1>3, HalfBit DEF is_complete, SameRate
  <1> HIDE DEF t
  <1>6. CASE d.elapsed + 1 # Half
    <2>1. ~framing_error(t, line) /\ Sampled(t, line) = t
      BY <1>4, <1>6 DEF framing_error, Sampled
    <2> QED
      BY <1>2, <1>3, <1>5, <1>6, <2>1 DEF RxAfter, RxReturns
  <1>7. CASE d.elapsed + 1 = Half
    <2>1. ~is_complete(t)
      BY <1>1, <1>5, <1>7, HalfBit
    <2>2. RxReturns(t, prev, line) = << >>
      BY <1>3, <2>1 DEF RxReturns
    <2>3. \A w : Advanced([byte |-> w, index |-> d.index, elapsed |-> Half])
                   = [byte |-> w, index |-> d.index, elapsed |-> Half]
      BY HalfBit DEF Advanced, SameRate
    <2>4. t = [byte |-> d.byte, index |-> d.index, elapsed |-> Half]
      BY <1>7 DEF t
    <2>5. ASSUME (d.index = 0 /\ line = 0) \/ (d.index = STOP_BIT /\ line = 1)
          PROVE  RxAfter(t, prev, line) = [byte |-> d.byte, index |-> d.index, elapsed |-> Half]
      <3>1. ~framing_error(t, line) /\ d.index \notin 1 .. ByteBits
        BY <1>1, <1>3, <2>5 DEF framing_error
      <3>2. Sampled(t, line) = t
        BY <1>3, <3>1 DEF Sampled
      <3> QED
        BY <1>3, <2>3, <2>4, <3>1, <3>2 DEF RxAfter
    <2>6. ASSUME NEW k \in 0 .. ByteBits - 1, d.index = k + 1
          PROVE  RxAfter(t, prev, line) = [byte |-> IF line = 1 THEN SetBit(d.byte, k, 1) ELSE d.byte,
                                           index |-> d.index, elapsed |-> Half]
      <3>1. d.index # 0 /\ d.index # STOP_BIT /\ d.index \in 1 .. ByteBits /\ d.index - 1 = k
        BY <1>1, <2>6
      <3>2. ~framing_error(t, line)
        BY <1>3, <3>1 DEF framing_error
      <3>3. Sampled(t, line) = [byte |-> IF line = 1 THEN SetBit(d.byte, k, 1) ELSE d.byte,
                                index |-> d.index, elapsed |-> Half]
        <4>1. CASE line = 1
          <5>1. Sampled(t, line) = [t EXCEPT !.byte = SetBit(d.byte, k, 1)]
            BY <1>3, <1>4, <1>7, <3>1, <4>1 DEF Sampled, SetBit
          <5> QED
            BY <2>4, <4>1, <5>1
        <4>2. CASE line # 1
          BY <2>4, <4>2 DEF Sampled
        <4> QED
          BY <4>1, <4>2
      <3> QED
        BY <1>3, <2>3, <3>2, <3>3 DEF RxAfter
    <2> QED
      BY <1>2, <1>7, <2>2, <2>5, <2>6
  <1> QED
    BY <1>6, <1>7

\* While a frame is sent the driver samples every bit in its middle, and
\* returns the byte in the cycle the transmitter is idle again
\* (uart.v:123-171, top.cc:164-211).
LEMMA BusyOutputMoves ==
  ASSUME SameRate, HostInv, LineOut, tx_state # "IDLE", TxHoldBit \/ TxEndBit, ShowSerial,
         tx' \in {0, 1}
  PROVE  LineOut' /\ printed' \o Sending' = printed \o Sending
  <1> DEFINE d == drv_rx
             b == tx_baud_counter
             k == tx_counter
             w == data_to_send
             after == RxAfter(Ticked(drv_rx), drv_rx_prev, tx')
             returns == RxReturns(Ticked(drv_rx), drv_rx_prev, tx')
  <1>1. /\ InFrame(d) /\ tx_state \in {"START", "DATA", "STOP"} /\ k \in 0 .. ByteBits - 1
        /\ b \in 0 .. ClockDiv - 1 /\ b \in Int /\ k \in Int /\ w \in Byte /\ printed \in Seq(Byte)
    BY HalfBit, ByteBitsOK DEF HostInv, UartTypeOK, UartDataOK, LineState, LineOut
  <1>2. /\ tx_state = "START" => k = 0 /\ d = [byte |-> 0, index |-> 0, elapsed |-> b]
        /\ tx_state = "DATA" => d = [byte |-> IF b < Half THEN w % 2^k ELSE w % 2^(k + 1),
                                     index |-> k + 1, elapsed |-> b]
        /\ tx_state = "STOP" => d = [byte |-> w, index |-> STOP_BIT, elapsed |-> b]
    BY DEF LineOut
  <1>3. ByteBits \in Int /\ ByteBits > 0 /\ STOP_BIT \in Int /\ STOP_BIT = ByteBits + 1
    BY ByteBitsOK DEF STOP_BIT
  <1>4. d.index # -1 /\ d.elapsed = b
    BY <1>1, <1>2, <1>3
  <1>5. drv_rx' = after /\ drv_rx_prev' = tx' /\ printed' = printed \o returns
    BY DEF ShowSerial
  <1>6. Sending = << w >> /\ printed \o << >> = printed
    BY <1>1, ConcatEmptySeq DEF Sending
  <1>7. /\ b + 1 # Half => /\ after = Advanced(Ticked(d))
                           /\ returns = IF d.index = STOP_BIT /\ b + 1 = ClockDiv THEN << d.byte >> ELSE << >>
        /\ b + 1 = Half => returns = << >>
    BY <1>1, <1>4, DriverLooks
  <1>8. ASSUME LineOut', tx_state' # "IDLE", data_to_send' = w, returns = << >>
        PROVE  printed' \o Sending' = printed \o Sending
    BY <1>5, <1>6, <1>8 DEF Sending
  <1>9. CASE b # ClockDiv - 1
    <2>1. /\ tx_state' = tx_state /\ tx_counter' = k /\ data_to_send' = w
          /\ tx_baud_counter' = (b + 1) % 1024
      BY <1>9 DEF TxHoldBit, TxEndBit
    <2>2. tx_baud_counter' = b + 1 /\ b + 1 # ClockDiv
      <3> DEFINE c == b + 1
      <3>1. c \in 0 .. 1023 /\ c # ClockDiv
        BY <1>1, <1>9, HalfBit
      <3>2. tx_baud_counter' = c % 1024
        BY <2>1
      <3> HIDE DEF c
      <3>3. tx_baud_counter' = c
        BY <3>1, <3>2, SMT
      <3> QED
        BY <3>1, <3>3 DEF c
    <2>3. returns = << >>
      BY <1>7, <2>2
    <2>4. b + 1 # Half => after = [byte |-> d.byte, index |-> d.index, elapsed |-> b + 1]
      BY <1>1, <1>4, <1>7, <2>2, DriverTicks DEF SameRate
    <2>5. LineOut'
      <3>1. CASE tx_state = "START"
        <4>1. tx' = 0
          BY <2>1, <3>1 DEF tx
        <4>2. after = [byte |-> 0, index |-> 0, elapsed |-> b + 1]
          <5>1. CASE b + 1 = Half
            BY <1>1, <1>2, <1>4, <3>1, <4>1, <5>1, DriverLooks
          <5>2. CASE b + 1 # Half
            BY <1>2, <2>4, <3>1, <5>2
          <5> QED
            BY <5>1, <5>2
        <4> QED
          BY <1>1, <1>2, <1>5, <1>6, <2>1, <2>2, <2>3, <3>1, <4>2 DEF LineOut
      <3>2. CASE tx_state = "DATA"
        <4>1. tx' = Bit(w, k) /\ w \in Int /\ k \in 0 .. XLEN
          BY <1>1, <2>1, <3>2, Sizes, ByteModOK DEF tx, Byte
        <4>2. after = [byte |-> IF b + 1 < Half THEN w % 2^k ELSE w % 2^(k + 1),
                       index |-> k + 1, elapsed |-> b + 1]
          <5>1. CASE b + 1 = Half
            <6>1. b < Half /\ ~(b + 1 < Half) /\ d.byte = w % 2^k /\ d.index = k + 1
              BY <1>1, <1>2, <3>2, <5>1, HalfBit
            <6>2. after = [byte |-> IF tx' = 1 THEN SetBit(d.byte, k, 1) ELSE d.byte,
                           index |-> k + 1, elapsed |-> b + 1]
              BY <1>1, <1>4, <5>1, <6>1, DriverLooks
            <6>3. CASE tx' = 1
              <7>1. SetBit(w % 2^k, k, 1) = w % 2^(k + 1)
                BY <1>1, <4>1, <6>3, OneMoreBit
              <7> QED
                BY <6>1, <6>2, <6>3, <7>1
            <6>4. CASE tx' = 0
              <7>1. w % 2^(k + 1) = (w % 2^k) + 0 * 2^k /\ w % 2^k \in 0 .. 2^k - 1
                BY <4>1, <6>4, ModPower
              <7>2. 2^k \in Int
                BY <1>1
              <7>3. w % 2^(k + 1) = w % 2^k
                BY <7>1, <7>2
              <7> QED
                BY <6>1, <6>2, <6>4, <7>3
            <6> QED
              BY <6>3, <6>4
          <5>2. CASE b + 1 # Half
            <6>1. b < Half <=> b + 1 < Half
              BY <1>1, <5>2, HalfBit
            <6> QED
              BY <1>2, <2>4, <3>2, <5>2, <6>1
          <5> QED
            BY <5>1, <5>2
        <4> QED
          BY <1>1, <1>5, <1>6, <2>1, <2>2, <2>3, <3>2, <4>2 DEF LineOut
      <3>3. CASE tx_state = "STOP"
        <4>1. tx' = 1
          BY <2>1, <3>3 DEF tx
        <4>2. after = [byte |-> w, index |-> STOP_BIT, elapsed |-> b + 1]
          <5>1. CASE b + 1 = Half
            BY <1>1, <1>2, <1>4, <3>3, <4>1, <5>1, DriverLooks
          <5>2. CASE b + 1 # Half
            BY <1>2, <2>4, <3>3, <5>2
          <5> QED
            BY <5>1, <5>2
        <4> QED
          BY <1>1, <1>5, <1>6, <2>1, <2>2, <2>3, <3>3, <4>2 DEF LineOut
      <3> QED
        BY <1>1, <3>1, <3>2, <3>3
    <2> QED
      BY <1>8, <2>1, <2>3, <2>5
  <1>10. CASE b = ClockDiv - 1
    <2>1. TxEndBit
      BY <1>10 DEF TxHoldBit
    <2>2. b + 1 = ClockDiv /\ b + 1 # Half /\ ~(b < Half) /\ 0 < Half
      BY <1>1, <1>10, HalfBit
    <2>3. tx_baud_counter' = 0 /\ data_to_send' = w
      BY <2>1 DEF TxEndBit
    <2>4. /\ d.index # STOP_BIT => /\ after = [byte |-> d.byte, index |-> d.index + 1, elapsed |-> 0]
                                   /\ returns = << >>
          /\ d.index = STOP_BIT => after = Quiet /\ returns = << d.byte >>
      BY <1>1, <1>4, <1>7, <2>2, DriverTicks DEF SameRate
    <2>5. CASE tx_state = "START"
      <3>1. tx_state' = "DATA" /\ tx_counter' = 0
        BY <1>2, <2>1, <2>5 DEF TxEndBit
      <3>2. after = [byte |-> 0, index |-> 0 + 1, elapsed |-> 0] /\ returns = << >>
        BY <1>2, <1>3, <2>4, <2>5
      <3>3. w % 2^0 = 0
        BY <1>1, WholeByte
      <3>4. LineOut'
        BY <1>1, <1>5, <1>6, <2>2, <2>3, <3>1, <3>2, <3>3 DEF LineOut
      <3> QED
        BY <1>8, <2>3, <3>1, <3>2, <3>4
    <2>6. CASE tx_state = "DATA" /\ k # ByteBits - 1
      <3>1. tx_state' = "DATA" /\ tx_counter' = k + 1
        BY <2>1, <2>6 DEF TxEndBit
      <3>2. d.index = k + 1 /\ d.index # STOP_BIT /\ d.byte = w % 2^(k + 1)
        BY <1>1, <1>2, <1>3, <2>2, <2>6
      <3>3. after = [byte |-> w % 2^(k + 1), index |-> (k + 1) + 1, elapsed |-> 0] /\ returns = << >>
        BY <2>4, <3>2
      <3>4. LineOut'
        BY <1>1, <1>5, <1>6, <2>2, <2>3, <3>1, <3>3 DEF LineOut
      <3> QED
        BY <1>8, <2>3, <3>1, <3>3, <3>4
    <2>7. CASE tx_state = "DATA" /\ k = ByteBits - 1
      <3>1. tx_state' = "STOP"
        BY <2>1, <2>7 DEF TxEndBit
      <3>2. k + 1 = ByteBits /\ d.index = k + 1 /\ d.index # STOP_BIT /\ d.byte = w % 2^(k + 1)
        BY <1>1, <1>2, <1>3, <2>2, <2>7
      <3>3. d.byte = w /\ d.index + 1 = STOP_BIT
        BY <1>1, <1>3, <3>2, WholeByte
      <3>4. after = [byte |-> w, index |-> STOP_BIT, elapsed |-> 0] /\ returns = << >>
        BY <2>4, <3>2, <3>3
      <3>5. LineOut'
        BY <1>1, <1>5, <1>6, <2>2, <2>3, <3>1, <3>4 DEF LineOut
      <3> QED
        BY <1>8, <2>3, <3>1, <3>4, <3>5
    <2>8. CASE tx_state = "STOP"
      <3>1. tx_state' = "IDLE"
        BY <2>1, <2>8 DEF TxEndBit
      <3>2. after = Quiet /\ returns = << w >>
        BY <1>2, <2>4, <2>8
      <3>3. printed \o << w >> \in Seq(Byte)
        BY <1>1, ConcatProperties
      <3>4. LineOut'
        BY <1>5, <3>1, <3>2, <3>3 DEF LineOut
      <3>5. Sending' = << >> /\ (printed \o << w >>) \o << >> = printed \o << w >>
        BY <3>1, <3>3, ConcatEmptySeq DEF Sending
      <3> QED
        BY <1>5, <1>6, <3>2, <3>4, <3>5
    <2> QED
      BY <1>1, <2>5, <2>6, <2>7, <2>8
  <1> QED
    BY <1>9, <1>10

\* On the serial port a store is taken only by an idle transmitter, which
\* starts its frame in that cycle; the driver sees the edge (hal.S:12-16,
\* uart.v:112-122, top.cc:172-178).
LEMMA IdleOutputMoves ==
  ASSUME SameRate, HostInv, LineOut, Iterate, ~sim_use_par_txrx, tx_state = "IDLE", OutputKept
  PROVE  LineOut' /\ OutputKept'
  <1> DEFINE after == RxAfter(Ticked(drv_rx), drv_rx_prev, tx')
             returns == RxReturns(Ticked(drv_rx), drv_rx_prev, tx')
             store == hreq.valid /\ hreq.write
  <1>1. /\ ProgramInv /\ sent \in Seq(Byte) /\ printed \in Seq(Byte) /\ drv_rx = Quiet
        /\ hreq.valid \in BOOLEAN /\ hreq.write \in BOOLEAN /\ hreq.wdata \in Byte
        /\ drv_rx_prev = tx
    BY DEF HostInv, LineOut, ProgramInv, BusRequest
  <1>2. sent = printed /\ tx = 1
    <2>1. Sending = << >> /\ printed \o << >> = printed /\ tx = 1
      BY <1>1, ConcatEmptySeq DEF Sending, tx
    <2> QED
      BY <2>1 DEF OutputKept
  <1>3. drv_rx' = after /\ drv_rx_prev' = tx' /\ printed' = printed \o returns
    BY DEF Iterate, Pass, par_txrx, ShowSerial
  <1>4. TxIdle(hreq.valid /\ serial(hreq.addr), hreq.write, hreq.addr, hreq.wdata)
    BY DEF Iterate, Pass, DeviceStep, UartStep, UartTx, TxHoldBit, TxEndBit
  <1>5. Ticked(drv_rx) = Quiet /\ Quiet.index = -1
    BY <1>1 DEF Ticked, Quiet
  <1>6. CASE store
    <2>1. hreq.addr = UartPage * 4096 + TX
      BY <1>1, <1>6 DEF ProgramInv, RequestOf
    <2>2. serial(hreq.addr) /\ req_addr(hreq.addr) = TX
      <3>1. is_uart(hreq.addr)
        BY <2>1, PageFacts
      <3>2. (UartPage * 4096 + 0) % 256 = 0
        BY UartPageAssumption, SMT
      <3> QED
        BY <2>1, <3>1, <3>2 DEF serial, req_addr, TX
    <2>3. hreq.wdata % ByteMod = hreq.wdata
      BY <1>1, WholeByte, WordModIsPower
    <2>4. /\ tx_state' = "START" /\ data_to_send' = hreq.wdata
          /\ tx_baud_counter' = 0 /\ tx_counter' = 0
      BY <1>4, <1>6, <2>2, <2>3 DEF TxIdle
    <2>5. tx' = 0
      BY <2>4 DEF tx
    <2> DEFINE s == [byte |-> 0, index |-> 0, elapsed |-> 0]
    <2>6. Begun(Ticked(drv_rx), drv_rx_prev, tx') = s
      BY <1>1, <1>2, <1>5, <2>5 DEF Begun
    <2>7. /\ s.index = 0 /\ ~in_middle(s) /\ ~is_complete(s) /\ Advanced(s) = s
      BY HalfBit, ByteBitsOK DEF in_middle, is_complete, Advanced, STOP_BIT, SameRate, Half
    <2> HIDE DEF s
    <2>8. after = s /\ returns = << >>
      BY <2>6, <2>7 DEF RxAfter, RxReturns, framing_error, Sampled
    <2>9. printed' = printed
      BY <1>1, <1>3, <2>8, ConcatEmptySeq
    <2>10. LineOut'
      BY <1>1, <1>3, <2>4, <2>8, <2>9 DEF LineOut, s
    <2>11. sent' = Append(sent, hreq.wdata)
      BY <1>1, <1>6 DEF Iterate, Pass, HalStep, HalBusy, Compute, Issue, Hold, Stored, LoadAccepted,
                        Loaded, Break, bus_ready, uart_req_ready, ProgramInv
    <2>12. sent' = printed \o << hreq.wdata >> /\ Sending' = << hreq.wdata >>
      BY <1>1, <1>2, <2>4, <2>11, AppendIsConcat DEF Sending
    <2> QED
      BY <2>9, <2>10, <2>12 DEF OutputKept
  <1>7. CASE ~store
    <2>1. tx_state' = "IDLE"
      BY <1>4, <1>7 DEF TxIdle
    <2>2. tx' = 1
      BY <2>1 DEF tx
    <2>3. Begun(Ticked(drv_rx), drv_rx_prev, tx') = Quiet
      BY <1>5, <2>2 DEF Begun
    <2>4. after = Quiet /\ returns = << >>
      BY <1>5, <2>3 DEF RxAfter, RxReturns
    <2>5. printed' = printed /\ Sending' = << >> /\ printed \o << >> = printed
      BY <1>1, <1>3, <2>1, <2>4, ConcatEmptySeq DEF Sending
    <2>6. LineOut'
      BY <1>1, <1>3, <2>1, <2>4, <2>5 DEF LineOut
    <2>7. sent' = sent
      BY <1>7 DEF Iterate, Pass, HalStep, HalBusy, Compute, Issue, Hold, Stored, LoadAccepted,
                  Loaded, Break, halVars
    <2> QED
      BY <1>2, <2>5, <2>6, <2>7 DEF OutputKept
  <1> QED
    BY <1>6, <1>7

\* A pass keeps the serial way out.
LEMMA SerialOutputStep ==
  ASSUME SameRate, HostInv, LineOut, Iterate, ~sim_use_par_txrx, OutputKept
  PROVE  LineOut' /\ OutputKept'
  <1>1. CASE tx_state = "IDLE"
    BY <1>1, IdleOutputMoves
  <1>2. CASE tx_state # "IDLE"
    <2>1. (TxHoldBit \/ TxEndBit) /\ ShowSerial
      BY <1>2 DEF Iterate, Pass, par_txrx, DeviceStep, UartStep, UartTx, TxIdle
    <2>2. tx' \in {0, 1}
      <3>1. (UartTypeOK /\ UartDataOK => tx \in {0, 1})'
        BY TxIsBit, PTL
      <3>2. HostInv'
        BY PassMoves
      <3> QED
        BY <3>1, <3>2 DEF HostInv
    <2>3. LineOut' /\ printed' \o Sending' = printed \o Sending
      BY <1>2, <2>1, <2>2, BusyOutputMoves
    <2>4. sent' = sent
      <3>1. ProgramInv /\ (hreq.valid => is_uart(hreq.addr))
        BY PageFacts DEF HostInv, ProgramInv, RequestOf
      <3>2. hreq.valid => ~bus_ready
        BY <1>2, <3>1 DEF bus_ready, serial, uart_req_ready
      <3> QED
        BY <3>2 DEF Iterate, Pass, HalStep, HalBusy, Compute, Issue, Hold, Stored, LoadAccepted,
                    Loaded, Break, halVars
    <2> QED
      BY <2>3, <2>4 DEF OutputKept
  <1> QED
    BY <1>1, <1>2

\* On either port, with both ends of the serial line at the same rate, every
\* character a program stores is shown on the terminal once and in order,
\* or is the one being sent (hal.S:12-16, uart.v:104-171, top.cc:393-424).
THEOREM AllOutputIsKept ==
  ASSUME SameRate
  PROVE  Spec => []OutputKept
  <1> DEFINE Inv == HostInv /\ (~sim_use_par_txrx => LineOut /\ OutputKept)
  <1>1. Init => Inv
    <2> SUFFICES ASSUME Init PROVE Inv
      OBVIOUS
    <2>1. /\ tx_state = "IDLE" /\ drv_rx = Quiet /\ drv_rx_prev = 1
          /\ sent = << >> /\ printed = << >> /\ << >> \in Seq(Byte)
      BY DEF Init, DeviceInit, UartInit, DriverInit, HalInit
    <2>2. tx = 1 /\ Sending = << >>
      BY <2>1 DEF tx, Sending
    <2>3. LineOut
      BY <2>1, <2>2 DEF LineOut
    <2>4. OutputKept
      BY <2>1, <2>2 DEF OutputKept
    <2> QED
      BY <2>3, <2>4, HostStart
  <1>2. Inv /\ [Next]_vars => Inv'
    <2> SUFFICES ASSUME Inv, [Next]_vars PROVE Inv'
      OBVIOUS
    <2>1. HostInv'
      BY HostStep
    <2>2. CASE Iterate
      <3>1. sim_use_par_txrx' = sim_use_par_txrx
        BY <2>2 DEF Iterate, Pass, DeviceStep
      <3> QED
        BY <2>1, <2>2, <3>1, SerialOutputStep
    <2>3. CASE ~Iterate
      <3>1. UNCHANGED designVars
        BY <2>3, OtherSteps
      <3>2. /\ UNCHANGED << sent, printed, drv_rx, drv_rx_prev, sim_use_par_txrx >>
            /\ UNCHANGED << tx_state, tx_counter, tx_baud_counter, data_to_send >>
        BY <3>1 DEF designVars, halVars, deviceVars, uartVars, txVars, driverVars
      <3>3. OutputKept => OutputKept'
        BY <3>2 DEF OutputKept, Sending
      <3>4. LineOut => LineOut'
        BY <3>2 DEF LineOut, tx
      <3> QED
        BY <2>1, <3>2, <3>3, <3>4
    <2> QED
      BY <2>2, <2>3
  <1>3. Spec => [](~par_txrx => OutputKept)
    <2>1. Inv => (~par_txrx => OutputKept)
      BY DEF par_txrx
    <2> QED
      BY <1>1, <1>2, <2>1, PTL DEF Spec
  <1> QED
    BY <1>3, OutputIsKept, PTL
=============================================================================
