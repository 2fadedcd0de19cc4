--------------------------------- MODULE Hal ---------------------------------
(***************************************************************************)
(* The firmware's side of the device page: the routines of hal.S, run by a *)
(* core that keeps one request on the bus at a time, holds it until ready  *)
(* and then, for a load, waits for the answer.  That the core behaves so,  *)
(* and that an access the page answers is answered the cycle after it is   *)
(* accepted, are the theorems BusIsOwned and ResponsesAreOwned about Top.  *)
(* Which routine the program calls after which is a parameter.             *)
(***************************************************************************)
EXTENDS Devices, Sequences

CONSTANTS
  Calls,       \* the routines a program may call after each, and "main" first
  Literals,    \* characters of the program's own text
  MaxSent      \* bound: characters a behaviour writes

Routines == {"getchar", "putchar", "fflush", "ebreak"}

ASSUME CallsAssumption == /\ DOMAIN Calls = {"main"} \cup Routines
                          /\ \A r \in DOMAIN Calls : Calls[r] \subseteq Routines
ASSUME TextAssumption == Literals \subseteq Byte /\ MaxSent \in Nat

VARIABLES
  routine,     \* the routine being run
  hreq,        \* its request on the bus
  awaiting,    \* a load of it has been accepted
  char,        \* the last character getchar returned
  break_hit,
  got, sent    \* history: what getchar returned, what putchar stored

halVars == << routine, hreq, awaiting, char, break_hit, got, sent >>

Access(offset, write, data) ==
  [addr |-> UartPage * 4096 + offset, wdata |-> data, write |-> write, valid |-> TRUE]
NoAccess == [addr |-> 0, wdata |-> 0, write |-> FALSE, valid |-> FALSE]

\* The load or store the routine makes, again and again until it is content.
\* putchar has the character last read or one of the program's own.
Accesses == CASE routine = "getchar" -> {Access(RX, FALSE, 0)}
              [] routine = "putchar" -> {Access(TX, TRUE, c) : c \in {char} \cup Literals}
              [] routine = "fflush"  -> {Access(STATUS, FALSE, 0)}
              [] routine = "ebreak"  -> {}

bus_ready == serial(hreq.addr) => uart_req_ready
answer_valid == serial(hreq.addr) => uart_resp_valid

\* The program goes on to one of the routines it may call next.
Return(total) ==
  \E r \in Calls[routine] : (r = "putchar" => total < MaxSent) /\ routine' = r

-----------------------------------------------------------------------------

\* Instructions that do not touch the page.
Compute ==
  /\ ~hreq.valid /\ ~awaiting
  /\ UNCHANGED halVars

Issue ==
  /\ ~hreq.valid /\ ~awaiting
  /\ hreq' \in Accesses
  /\ UNCHANGED << routine, awaiting, char, break_hit, got, sent >>

Hold ==
  /\ hreq.valid /\ ~bus_ready
  /\ UNCHANGED halVars

Stored ==
  /\ hreq.valid /\ bus_ready /\ hreq.write
  /\ hreq' = [hreq EXCEPT !.valid = FALSE]
  /\ sent' = Append(sent, hreq.wdata)
  /\ Return(Len(sent) + 1)
  /\ UNCHANGED << awaiting, char, break_hit, got >>

LoadAccepted ==
  /\ hreq.valid /\ bus_ready /\ ~hreq.write
  /\ hreq' = [hreq EXCEPT !.valid = FALSE]
  /\ awaiting' = TRUE
  /\ UNCHANGED << routine, char, break_hit, got, sent >>

\* getchar ends at a character with its valid bit, fflush at a status whose
\* low byte is zero; both ask again otherwise.
Loaded(data) ==
  /\ awaiting /\ answer_valid
  /\ awaiting' = FALSE
  /\ \/ /\ routine = "getchar" /\ data \div ByteMod # 0
        /\ char' = data % ByteMod /\ got' = Append(got, data % ByteMod)
        /\ Return(Len(sent))
     \/ /\ routine = "fflush" /\ data % ByteMod = 0
        /\ Return(Len(sent))
        /\ UNCHANGED << char, got >>
     \/ /\ \/ routine = "getchar" /\ data \div ByteMod = 0
           \/ routine = "fflush" /\ data % ByteMod # 0
        /\ UNCHANGED << routine, char, got >>
  /\ UNCHANGED << hreq, break_hit, sent >>

\* ebreak raises the sticky flag; the program then loops at halt.
Break ==
  /\ routine = "ebreak" /\ ~hreq.valid /\ ~awaiting
  /\ break_hit' = TRUE
  /\ UNCHANGED << routine, hreq, awaiting, char, got, sent >>

\* A step of the program, and one in which it gets on.
HalBusy ==
  \/ Issue \/ Hold \/ Stored \/ LoadAccepted \/ Break
  \/ Loaded(device_rdata(hreq.addr))
HalStep == HalBusy \/ Compute

HalInit ==
  /\ routine \in Calls["main"]
  /\ hreq = NoAccess /\ awaiting = FALSE /\ char = 0 /\ break_hit = FALSE
  /\ got = << >> /\ sent = << >>
=============================================================================
