------------------------------ MODULE MCLoader -------------------------------
(***************************************************************************)
(* Small hex files for Loader.  A byte has four bits and a digit, half a   *)
(* byte, has two.                                                          *)
(***************************************************************************)
EXTENDS Loader

Data(digits, value) == [kind |-> "data", digits |-> digits, value |-> value]
At(address)         == [kind |-> "address", value |-> address]
Bare(kind)          == [kind |-> kind]

\* Tokens of one to eight digits, addresses that go back, overlap, leave
\* gaps and reach the end of the buffer, and lines that are no data.
Items == { Data(1, 3), Data(2, 11), Data(3, 57), Data(4, 202), Data(8, 46649),
           At(0), At(1), At(5), At(9), At(12), Bare("skip"), Bare("bad address") }

MCFiles == UNION { [1 .. n -> Items] : n \in 0 .. 4 }
=============================================================================
