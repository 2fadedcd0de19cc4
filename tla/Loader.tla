-------------------------------- MODULE Loader -------------------------------
(***************************************************************************)
(* How a program gets into the design's memory: init fills the image imem  *)
(* with ebreak instructions, validate_and_load_binary writes a hex file    *)
(* over it (sim/libSimHelper.cc), and main copies the words of the image   *)
(* below the highest address written into the SRAM (top.cc:312-318).       *)
(* A file is a sequence of items in reading order: lines that carry no     *)
(* data, address directives, characters that are no digit, and tokens of a *)
(* number of digits and a value.                                           *)
(***************************************************************************)
EXTENDS Words, Sequences

CONSTANTS
  Files,       \* the hex files, sequences of items
  BufferSize,  \* bytes of imem and of the SRAM (0x1000000)
  AddrMod      \* modulus of current_addr, a uint32_t

ASSUME LoaderAssumption == /\ BufferSize \in Nat \ {0} /\ BufferSize % 4 = 0
                           /\ AddrMod \in Nat /\ AddrMod >= BufferSize

VARIABLES
  file,        \* the file, and the number of its items read
  position,
  imem, current_addr, max_addr,
  outside,     \* addresses written that are not in imem
  phase,       \* "opening", "reading", "copying", "started", "failed" or "unopened"
  copied,      \* i of the copying loop
  sram

vars == << file, position, imem, current_addr, max_addr, outside, phase, copied, sram >>

Unwritten == [k \in 0 .. 3 |-> -1]    \* the bytes of a word the loader leaves alone

\* The bytes of 0x00100073, lowest first.
ebreak_byte(a) == CASE a % 4 = 0 -> 115 [] a % 4 = 2 -> 16 [] OTHER -> 0

bytes_to_write(digits) == IF digits <= 2 THEN 1 ELSE IF digits <= 4 THEN 2 ELSE 4

Init ==
  /\ file \in Files /\ position = 0
  /\ imem = [a \in 0 .. BufferSize - 1 |-> ebreak_byte(a)]
  /\ current_addr = 0 /\ max_addr = 0 /\ outside = {}
  /\ phase = "opening" /\ copied = 0
  /\ sram = [w \in 0 .. BufferSize \div 4 - 1 |-> Unwritten]

-----------------------------------------------------------------------------
(* validate_and_load_binary *)

\* The file opens or it does not, whatever is in it.
OpenFile ==
  /\ phase = "opening"
  /\ phase' \in {"reading", "unopened"}
  /\ UNCHANGED << file, position, imem, current_addr, max_addr, outside, copied, sram >>

Reads(kind) ==
  /\ phase = "reading" /\ position < Len(file)
  /\ file[position + 1].kind = kind
item == file[position + 1]

Fail == /\ phase' = "failed"
        /\ UNCHANGED << file, position, imem, current_addr, max_addr, outside, copied, sram >>

\* An empty line, a comment or a character that is no hex digit.
Skip ==
  /\ Reads("skip")
  /\ position' = position + 1
  /\ UNCHANGED << file, imem, current_addr, max_addr, outside, phase, copied, sram >>

SetAddress ==
  /\ Reads("address")
  /\ current_addr' = item.value
  /\ position' = position + 1
  /\ UNCHANGED << file, imem, max_addr, outside, phase, copied, sram >>

BadAddress == Reads("bad address") /\ Fail

\* The bound is checked in the width of current_addr.
size == bytes_to_write(item.digits)
\* A check that forgets the size of the token:
fits_late == current_addr <= BufferSize
fits == (current_addr + size) % AddrMod <= BufferSize

OutOfBounds == Reads("data") /\ ~fits /\ Fail

\* The bytes of the token, the lowest first.
Stored(a, n, value) ==
  [b \in 0 .. BufferSize - 1 |->
     IF (b - a) % AddrMod < n THEN ByteOf(value, (b - a) % AddrMod) ELSE imem[b]]

StoreToken ==
  LET next == (current_addr + size) % AddrMod
      touched == {(current_addr + k) % AddrMod : k \in 0 .. size - 1}
  IN  /\ Reads("data") /\ fits
      /\ imem' = Stored(current_addr, size, item.value)
      /\ outside' = outside \cup (touched \ DOMAIN imem)
      /\ current_addr' = next
      /\ max_addr' = IF next > max_addr THEN next ELSE max_addr
      /\ position' = position + 1
      /\ UNCHANGED << file, phase, copied, sram >>

\* A file without data is refused.
EndOfFile ==
  /\ phase = "reading" /\ position = Len(file)
  /\ phase' = IF max_addr = 0 THEN "failed" ELSE "copying"
  /\ UNCHANGED << file, position, imem, current_addr, max_addr, outside, copied, sram >>

-----------------------------------------------------------------------------
(* main *)

\* A loop that leaves out a last, partial word:
more_words_whole == copied + 4 <= max_addr /\ copied < BufferSize
more_words == copied < max_addr /\ copied < BufferSize

CopyWord ==
  /\ phase = "copying" /\ more_words
  /\ sram' = [sram EXCEPT ![copied \div 4] = [k \in 0 .. 3 |-> imem[copied + k]]]
  /\ copied' = copied + 4
  /\ UNCHANGED << file, position, imem, current_addr, max_addr, outside, phase >>

Start ==
  /\ phase = "copying" /\ ~more_words
  /\ phase' = "started"
  /\ UNCHANGED << file, position, imem, current_addr, max_addr, outside, copied, sram >>

Next == \/ OpenFile \/ Skip \/ SetAddress \/ BadAddress \/ OutOfBounds \/ StoreToken \/ EndOfFile
        \/ CopyWord \/ Start

Spec == Init /\ [][Next]_vars

-----------------------------------------------------------------------------
(* Properties *)

\* What a hex file means, without reading it in order: an item lies at the
\* address of the last directive before it plus the data in between.
DataItems(s) == {i \in DOMAIN s : s[i].kind = "data"}
ItemSize(s, i) == bytes_to_write(s[i].digits)
DataBefore(s) == Sums([k \in 0 .. Len(s) - 1 |-> IF s[k + 1].kind = "data" THEN ItemSize(s, k + 1) ELSE 0], Len(s))
Directives(s, p) == {k \in 1 .. p : s[k].kind = "address"}
LastDirective(s, p) == IF Directives(s, p) = {} THEN 0 ELSE Max(Directives(s, p))
ItemAddr(s, i) ==
  LET from == LastDirective(s, i - 1)
      base == IF from = 0 THEN 0 ELSE s[from].value
  IN  base + DataBefore(s)[i - 1] - DataBefore(s)[from]
ItemEnd(s, i) == ItemAddr(s, i) + ItemSize(s, i)
Covering(s, a) == {i \in DataItems(s) : ItemAddr(s, i) <= a /\ a < ItemEnd(s, i)}
ImageByte(s, a) ==
  IF Covering(s, a) = {} THEN ebreak_byte(a)
  ELSE LET i == Max(Covering(s, a)) IN ByteOf(s[i].value, a - ItemAddr(s, i))

Valid(s) == /\ DataItems(s) # {}
            /\ \A i \in DOMAIN s : s[i].kind # "bad address"
            /\ \A i \in DataItems(s) : ItemEnd(s, i) <= BufferSize

\* Of the files that open, the design starts exactly on those that are well
\* formed and fit, and then its memory holds the image up to the word of the
\* highest byte: the last item at every address, ebreak in the gaps and in
\* the rest of the last word, whatever the order of the segments
\* (libSimHelper.cc:70-168, top.cc:312-318).
ImageRight ==
  /\ phase = "started" =>
       /\ Valid(file)
       /\ \A w \in DOMAIN sram :
            sram[w] = IF \E i \in DataItems(file) : 4 * w < ItemEnd(file, i)
                      THEN [k \in 0 .. 3 |-> ImageByte(file, 4 * w + k)]
                      ELSE Unwritten
  /\ phase = "failed" => ~Valid(file)

\* The test at libSimHelper.cc:135 keeps every byte of a token inside the
\* buffer, at the very end of it too, for a token of any width at any
\* address.  It adds in the width of an address; the files it is checked on
\* have no directive so near the top of the address space that the sum wraps.
WritesInBounds == outside = {}
=============================================================================
