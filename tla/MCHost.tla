------------------------------- MODULE MCHost --------------------------------
(***************************************************************************)
(* Instances of SimHost: which routines of hal.S the program calls after   *)
(* which.                                                                  *)
(***************************************************************************)
EXTENDS SimHost

Program(first, after_getchar, after_putchar, after_fflush) ==
  [r \in {"main"} \cup Routines |->
     CASE r = "main"    -> first
       [] r = "getchar" -> after_getchar
       [] r = "putchar" -> after_putchar
       [] r = "fflush"  -> after_fflush
       [] r = "ebreak"  -> {}]

\* A program that reads and writes as it likes, and may stop.
ReadWrite == LET any == {"getchar", "putchar", "ebreak"} IN Program(any, any, any, {})

\* A program that writes, and now and then waits until all is sent.
Writes == LET any == {"putchar", "fflush"} IN Program({"putchar"}, {}, any, any)

\* The loop of echo, less its constant output.
EchoLoop == Program({"getchar"}, {"putchar"}, {"fflush"}, {"getchar"})
=============================================================================
