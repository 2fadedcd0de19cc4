------------------------------ MODULE UnitDriver -----------------------------
(***************************************************************************)
(* The core's side of its data paths, on its own: EXEC raises the start    *)
(* line of one unit for one cycle, holds the operands, and looks for the   *)
(* unit's completion pulse at every edge; the decoder and the ALU answer   *)
(* within the cycle.  A first operation leaves the registers of a unit as  *)
(* some earlier instruction would; the second is the one a run is about.   *)
(***************************************************************************)
EXTENDS Naturals

CONSTANTS Warmups, Requests    \* the first and the second operation

VARIABLES
  phase,     \* "idle", "start" or "wait"
  req,       \* the unit, the operation and the operands the core holds for it
  age,       \* computing cycles of the operation so far
  round      \* operations issued

driverVars == << phase, req, age, round >>

MultiCycle == {"valu", "vmac"}

start(unit) == phase = "start" /\ req.unit = unit

DriverInit ==
  /\ phase = "idle"
  /\ req \in Warmups
  /\ age = 0 /\ round = 0

Issue ==
  /\ phase = "idle" /\ round < 2
  /\ req' \in (IF round = 0 THEN Warmups ELSE Requests)
  /\ phase' = "start"
  /\ age' = 0
  /\ round' = round + 1

LowerStart ==
  /\ phase = "start"
  /\ phase' = IF req.unit \in MultiCycle THEN "wait" ELSE "idle"
  /\ UNCHANGED << req, age, round >>

Await(valid_out) ==
  /\ phase = "wait"
  /\ phase' = IF valid_out THEN "idle" ELSE "wait"
  /\ age' = IF valid_out THEN age ELSE age + 1
  /\ UNCHANGED << req, round >>

Rest ==
  /\ phase = "idle" /\ round = 2
  /\ UNCHANGED driverVars

DriverStep(valid_out) == Issue \/ LowerStart \/ Await(valid_out) \/ Rest
=============================================================================
