------------------------------ MODULE MCPrintint -----------------------------
(***************************************************************************)
(* Every integer of a narrow word, with both conversions of printf.        *)
(***************************************************************************)
EXTENDS Printint

MCFormats == { [base |-> 10, sgn |-> TRUE], [base |-> 16, sgn |-> FALSE] }
=============================================================================
