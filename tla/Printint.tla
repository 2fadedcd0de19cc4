------------------------------- MODULE Printint ------------------------------
(***************************************************************************)
(* printint of sw/test/print.c, the number formatting of the bare-metal    *)
(* firmware: the digits of xx are collected in buf, lowest first, and then *)
(* put out from the end.  A character is the digit it stands for.          *)
(***************************************************************************)
EXTENDS Words, Sequences, SequencesExt

CONSTANT Formats       \* [base, sgn] of the conversions: %d and %x

VARIABLES
  xx, format,          \* the arguments
  neg, x, buf,
  out,                 \* the characters put out
  at                   \* "sign", "digits", "reverse" or "returned"

vars == << xx, format, neg, x, buf, out, at >>

MINUS == -1            \* the character '-'
STRAY == -2            \* whatever lies before the table digits

Int_min == -(WordMod \div 2)
Ints    == Int_min .. -Int_min - 1

\* C divides towards zero, so a remainder has the sign of the dividend.
CQuotient(a, b)  == IF a >= 0 THEN a \div b ELSE -((-a) \div b)
CRemainder(a, b) == a - b * CQuotient(a, b)

\* digits[n]
digit(n) == IF n >= 0 THEN n ELSE STRAY

Init ==
  /\ xx \in Ints /\ format \in Formats
  /\ neg = FALSE /\ x = 0 /\ buf = << >> /\ out = << >> /\ at = "sign"

\* The negation of the least integer overflows; the processor's wraps.
negated == IF xx = Int_min THEN Int_min ELSE -xx
TakeSign ==
  /\ at = "sign"
  /\ neg' = (format.sgn /\ xx < 0)
  /\ x' = IF format.sgn /\ xx < 0 THEN negated ELSE xx
  /\ at' = "digits"
  /\ UNCHANGED << xx, format, buf, out >>

\* The loop runs at least once.
more == x # 0 \/ buf = << >>

TakeDigit ==
  /\ at = "digits" /\ more
  /\ buf' = Append(buf, digit(CRemainder(x, format.base)))
  /\ x' = CQuotient(x, format.base)
  /\ UNCHANGED << xx, format, neg, out, at >>

EndDigits ==
  /\ at = "digits" /\ ~more
  /\ buf' = IF neg THEN Append(buf, MINUS) ELSE buf
  /\ at' = "reverse"
  /\ UNCHANGED << xx, format, neg, x, out >>

PutLast ==
  /\ at = "reverse" /\ buf # << >>
  /\ out' = Append(out, Last(buf))
  /\ buf' = Front(buf)
  /\ UNCHANGED << xx, format, neg, x, at >>

Return ==
  /\ at = "reverse" /\ buf = << >>
  /\ at' = "returned"
  /\ UNCHANGED << xx, format, neg, x, buf, out >>

Next == TakeSign \/ TakeDigit \/ EndDigits \/ PutLast \/ Return

Spec == Init /\ [][Next]_vars

-----------------------------------------------------------------------------
(* Properties *)

\* A numeral: the digits of a base, none of them a leading zero.
IsNumeral(s, base) ==
  /\ s # << >> /\ \A i \in DOMAIN s : s[i] \in 0 .. base - 1
  /\ s[1] = 0 => Len(s) = 1
Spells(s, base) ==
  MapThenSumSet(LAMBDA i : s[i] * base^(Len(s) - i), DOMAIN s)

\* sw/test/main.c:30 prints 0xdeadbeef, a negative int, with
\* "Expected: 0x%x": %x prints the pattern of the word, whatever its sign.
PrintsPattern ==
  at = "returned" /\ ~format.sgn
  => /\ IsNumeral(out, format.base)
     /\ Spells(out, format.base) = xx % WordMod
=============================================================================
