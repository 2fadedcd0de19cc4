---------------------------- MODULE LoaderProofs -----------------------------
(***************************************************************************)
(* When the loader's bounds check holds, and the memory then holds the     *)
(* image the file means: for every buffer and every set of files in which  *)
(* no address directive lies within a word of the top of the address       *)
(* space.  And the helpers beside it clean up on every path.               *)
(***************************************************************************)
EXTENDS Loader, WordProofs, TLAPS

\* No sum of an address and the size of a token wraps.
ClearOfTheTop ==
  /\ BufferSize + 5 <= AddrMod
  /\ \A s \in Files :
       /\ s \in Seq(UNION {{s[k]} : k \in DOMAIN s})
       /\ \A k \in DOMAIN s : /\ s[k].kind = "address" => s[k].value \in 0 .. AddrMod - 5
                              /\ s[k].kind = "data" => s[k].digits \in Nat

\* The reader's state: a position in the file, and an address that no token
\* can carry past the top.
ReaderInv ==
  /\ file \in Files /\ position \in Nat
  /\ current_addr \in 0 .. AddrMod - 5
  /\ DOMAIN imem = 0 .. BufferSize - 1
  /\ outside = {}

\* A sum below the modulus is not reduced.
LEMMA Unreduced == ASSUME NEW m \in Nat \ {0}, NEW n \in 0 .. m - 1 PROVE n % m = n
  OBVIOUS

\* A token that passes the check is stored inside the buffer.
LEMMA TokenInside ==
  ASSUME ClearOfTheTop, ReaderInv, Reads("data"), fits
  PROVE  /\ size \in 1 .. 4
         /\ (current_addr + size) % AddrMod = current_addr + size
         /\ current_addr + size <= BufferSize
         /\ \A k \in 0 .. size - 1 : (current_addr + k) % AddrMod \in 0 .. BufferSize - 1
<1>1. size \in 1 .. 4 /\ AddrMod \in Nat \ {0} /\ BufferSize \in Nat
  <2>1. position + 1 \in DOMAIN file
    BY DEF ClearOfTheTop, ReaderInv, Reads
  <2>2. item.digits \in Nat
    BY <2>1 DEF ClearOfTheTop, ReaderInv, Reads, item
  <2> QED
    BY <2>2, LoaderAssumption DEF size, bytes_to_write
<1>2. current_addr + size \in 0 .. AddrMod - 1
  BY <1>1 DEF ReaderInv
<1>3. (current_addr + size) % AddrMod = current_addr + size
  BY <1>1, <1>2, Unreduced
<1>4. current_addr + size <= BufferSize
  BY <1>3 DEF fits
<1>5. ASSUME NEW k \in 0 .. size - 1
      PROVE  (current_addr + k) % AddrMod \in 0 .. BufferSize - 1
  <2>1. current_addr + k \in 0 .. AddrMod - 1 /\ current_addr + k \in 0 .. BufferSize - 1
    BY <1>1, <1>4, <1>5 DEF ReaderInv, ClearOfTheTop
  <2> QED
    BY <1>1, <2>1, Unreduced
<1> QED
  BY <1>1, <1>3, <1>4, <1>5

\* Every step of the loader keeps the reader's state.
LEMMA ReaderStep == ClearOfTheTop /\ ReaderInv /\ [Next]_vars => ReaderInv'
<1> SUFFICES ASSUME ClearOfTheTop, ReaderInv, [Next]_vars PROVE ReaderInv'
  OBVIOUS
<1>1. CASE Skip
  BY <1>1 DEF Skip, ReaderInv
<1>2. CASE SetAddress
  <2>1. position + 1 \in DOMAIN file /\ item.value \in 0 .. AddrMod - 5
    <3>1. position + 1 \in DOMAIN file
      BY <1>2 DEF SetAddress, ClearOfTheTop, ReaderInv, Reads
    <3> QED
      BY <1>2, <3>1 DEF SetAddress, ClearOfTheTop, ReaderInv, Reads, item
  <2> QED
    BY <1>2, <2>1 DEF SetAddress, ReaderInv
<1>3. CASE BadAddress \/ OutOfBounds
  BY <1>3 DEF BadAddress, OutOfBounds, Fail, ReaderInv
<1>4. CASE StoreToken
  <2>1. Reads("data") /\ fits
    BY <1>4 DEF StoreToken
  <2>2. current_addr' \in 0 .. AddrMod - 5
    <3>1. size \in 1 .. 4 /\ current_addr' = current_addr + size /\ current_addr' <= BufferSize
      BY <1>4, <2>1, TokenInside DEF StoreToken
    <3> QED
      BY <3>1, LoaderAssumption DEF ReaderInv, ClearOfTheTop
  <2>3. DOMAIN imem' = 0 .. BufferSize - 1
    BY <1>4 DEF StoreToken, Stored
  <2>4. outside' = {}
    BY <1>4, <2>1, TokenInside DEF StoreToken, ReaderInv
  <2> QED
    BY <1>4, <2>2, <2>3, <2>4 DEF StoreToken, ReaderInv
<1>5. CASE EndOfFile
  BY <1>5 DEF EndOfFile, ReaderInv
<1>6. CASE CopyWord
  BY <1>6 DEF CopyWord, ReaderInv
<1>7. CASE Start
  BY <1>7 DEF Start, ReaderInv
<1>8. CASE OpenFile
  BY <1>8 DEF OpenFile, ReaderInv
<1>9. CASE UNCHANGED vars
  BY <1>9 DEF vars, ReaderInv
<1> QED
  BY <1>1, <1>2, <1>3, <1>4, <1>5, <1>6, <1>7, <1>8, <1>9 DEF Next

\* The check keeps every token inside the buffer, for files of any length
\* and buffers of any size, as long as no directive lies within a word of
\* the top (libSimHelper.cc:134-139).  With one that does, it does not.
THEOREM BoundsHoldBelowTheTop == ASSUME ClearOfTheTop PROVE Spec => []WritesInBounds
<1>1. Init => ReaderInv
  BY LoaderAssumption, ClearOfTheTop DEF Init, ReaderInv, ClearOfTheTop
<1>2. ReaderInv /\ [Next]_vars => ReaderInv'
  BY ClearOfTheTop, ReaderStep
<1>3. ReaderInv => WritesInBounds
  BY DEF ReaderInv, WritesInBounds
<1> QED
  BY <1>1, <1>2, <1>3, PTL DEF Spec

-----------------------------------------------------------------------------
(* The image *)

\* What the first p items write at an address.
CoveringUpTo(s, a, p) == {k \in Covering(s, a) : k <= p}
ByteUpTo(s, a, p) ==
  IF CoveringUpTo(s, a, p) = {} THEN ebreak_byte(a)
  ELSE LET k == Max(CoveringUpTo(s, a, p)) IN ByteOf(s[k].value, a - ItemAddr(s, k))

\* The reader is where the next item lies, and what it has read is stored.
ReadInv ==
  /\ position \in 0 .. Len(file)
  /\ LastDirective(file, position) \in {0} \cup Directives(file, position)
  /\ current_addr = ItemAddr(file, position + 1)
  /\ \A k \in 1 .. position : file[k].kind # "bad address"
  /\ \A k \in DataItems(file) : k <= position =>
       /\ ItemAddr(file, k) \in Nat /\ ItemEnd(file, k) <= BufferSize
       /\ 0 < ItemEnd(file, k) /\ ItemEnd(file, k) <= max_addr
  /\ max_addr = 0 \/ \E k \in DataItems(file) : k <= position /\ max_addr = ItemEnd(file, k)
  /\ imem = [a \in 0 .. BufferSize - 1 |-> ByteUpTo(file, a, position)]

\* The words below copied are in the SRAM, and no word at or above max_addr.
CopyInv ==
  /\ phase \in {"opening", "reading", "copying", "started", "failed", "unopened"}
  /\ phase \in {"copying", "started"} => position = Len(file) /\ max_addr # 0
  /\ phase = "started" => copied >= max_addr
  /\ phase = "failed" => ~Valid(file)
  /\ copied \in Nat /\ copied % 4 = 0 /\ copied < max_addr + 4
  /\ phase \in {"opening", "reading", "failed", "unopened"} => copied = 0
  /\ sram = [w \in 0 .. BufferSize \div 4 - 1 |->
               IF 4 * w < copied THEN [k \in 0 .. 3 |-> imem[4 * w + k]] ELSE Unwritten]

ImageInv == ReaderInv /\ ReadInv /\ CopyInv

\* The largest of a set.
LEMMA MaxIs ==
  ASSUME NEW T, NEW m \in T, \A y \in T : y \in Int /\ y <= m
  PROVE  Max(T) = m
  <1>1. Max(T) \in T /\ \A y \in T : Max(T) >= y
    <2>1. \E x \in T : \A y \in T : x >= y
      OBVIOUS
    <2> QED
      BY <2>1 DEF Max
  <1> QED
    BY <1>1

\* A file is a sequence, its tokens have one to four bytes, and the bytes
\* before an item are those before the item before it and its own.
LEMMA FileFacts ==
  ASSUME ClearOfTheTop, NEW s \in Files
  PROVE  /\ Len(s) \in Nat /\ DOMAIN s = 1 .. Len(s)
         /\ \A k \in 1 .. Len(s) : s[k].kind = "address" => s[k].value \in 0 .. AddrMod - 5
         /\ \A k \in DataItems(s) : k \in 1 .. Len(s) /\ s[k].kind = "data" /\ ItemSize(s, k) \in 1 .. 4
         /\ \A k \in 1 .. Len(s) : s[k].kind = "data" => k \in DataItems(s)
         /\ \A k \in 0 .. Len(s) : DataBefore(s)[k] \in Int
         /\ \A k \in 0 .. Len(s) - 1 :
              DataBefore(s)[k + 1] = DataBefore(s)[k] + (IF s[k + 1].kind = "data" THEN ItemSize(s, k + 1) ELSE 0)
  <1>1. Len(s) \in Nat /\ DOMAIN s = 1 .. Len(s)
    BY DEF ClearOfTheTop
  <1>2. \A k \in 1 .. Len(s) : /\ s[k].kind = "address" => s[k].value \in 0 .. AddrMod - 5
                               /\ s[k].kind = "data" => s[k].digits \in Nat
    BY <1>1 DEF ClearOfTheTop
  <1>3. \A k \in 1 .. Len(s) : s[k].kind = "data" => ItemSize(s, k) \in 1 .. 4
    BY <1>2 DEF ItemSize, bytes_to_write
  <1> DEFINE t == [k \in 0 .. Len(s) - 1 |-> IF s[k + 1].kind = "data" THEN ItemSize(s, k + 1) ELSE 0]
  <1>4. \A k \in 0 .. Len(s) - 1 : /\ t[k] = (IF s[k + 1].kind = "data" THEN ItemSize(s, k + 1) ELSE 0)
                                   /\ t[k] \in Int
    <2>1. \A k \in 0 .. Len(s) - 1 : k + 1 \in 1 .. Len(s)
      BY <1>1
    <2> QED
      BY <1>3, <2>1
  <1>5. DataBefore(s) = Sums(t, Len(s))
    BY DEF DataBefore
  <1> HIDE DEF t
  <1>6. /\ \A n \in 0 .. Len(s) - 1 : Sums(t, Len(s))[n + 1] = Sums(t, Len(s))[n] + t[n]
        /\ \A n \in 0 .. Len(s) : Sums(t, Len(s))[n] \in Int
    BY <1>1, <1>4, SumsStep
  <1>7. \A k \in DataItems(s) : k \in 1 .. Len(s) /\ s[k].kind = "data"
    BY <1>1 DEF DataItems
  <1>8. \A k \in 1 .. Len(s) : s[k].kind = "data" => k \in DataItems(s)
    BY <1>1 DEF DataItems
  <1> QED
    BY <1>1, <1>2, <1>3, <1>4, <1>5, <1>6, <1>7, <1>8

\* An item lies at the last directive's address plus the data in between:
\* how that changes from one item to the next.
LEMMA NextAddr ==
  ASSUME ClearOfTheTop, NEW s \in Files, NEW p \in 0 .. Len(s) - 1,
         LastDirective(s, p) \in {0} \cup Directives(s, p)
  PROVE  /\ LastDirective(s, p + 1) \in {0} \cup Directives(s, p + 1)
         /\ s[p + 1].kind = "address" => ItemAddr(s, (p + 1) + 1) = s[p + 1].value
         /\ s[p + 1].kind = "data" => ItemAddr(s, (p + 1) + 1) = ItemAddr(s, p + 1) + ItemSize(s, p + 1)
         /\ s[p + 1].kind \notin {"address", "data"} => ItemAddr(s, (p + 1) + 1) = ItemAddr(s, p + 1)
  <1> DEFINE d == DataBefore(s)
             from(n) == LastDirective(s, n)
             base(n) == IF from(n) = 0 THEN 0 ELSE s[from(n)].value
  <1>1. /\ Len(s) \in Nat /\ p + 1 \in 1 .. Len(s)
        /\ \A k \in 1 .. Len(s) : s[k].kind = "address" => s[k].value \in 0 .. AddrMod - 5
        /\ \A k \in 0 .. Len(s) : d[k] \in Int
        /\ d[p + 1] = d[p] + (IF s[p + 1].kind = "data" THEN ItemSize(s, p + 1) ELSE 0)
        /\ s[p + 1].kind = "data" => ItemSize(s, p + 1) \in 1 .. 4
    BY FileFacts, SMTT(30)
  <1>2. \A n \in Nat : ItemAddr(s, n + 1) = base(n) + d[n] - d[from(n)]
    <2>1. \A n \in Nat : (n + 1) - 1 = n
      OBVIOUS
    <2> QED
      BY <2>1 DEF ItemAddr
  <1>3. AddrMod \in Nat /\ p \in Nat /\ p + 1 \in Nat
    BY <1>1, LoaderAssumption
  <1>4. from(p) \in 0 .. p /\ base(p) \in Int
    BY <1>1, <1>3 DEF Directives
  <1>5. CASE s[p + 1].kind = "address"
    <2>1. p + 1 \in Directives(s, p + 1) /\ \A y \in Directives(s, p + 1) : y \in Int /\ y <= p + 1
      BY <1>1, <1>5 DEF Directives
    <2>2. Max(Directives(s, p + 1)) = p + 1
      BY <2>1, MaxIs
    <2>3. from(p + 1) = p + 1
      BY <2>1, <2>2 DEF LastDirective
    <2>4. base(p + 1) = s[p + 1].value /\ s[p + 1].value \in Int /\ d[p + 1] \in Int
      BY <1>1, <1>3, <1>5, <2>3
    <2> HIDE DEF base, from, d
    <2>5. ItemAddr(s, (p + 1) + 1) = s[p + 1].value
      <3>1. ItemAddr(s, (p + 1) + 1) = base(p + 1) + d[p + 1] - d[from(p + 1)]
        BY <1>2, <1>3
      <3>2. ItemAddr(s, (p + 1) + 1) = s[p + 1].value + d[p + 1] - d[p + 1]
        BY <2>3, <2>4, <3>1
      <3> QED
        BY <2>4, <3>2
    <2> QED
      BY <1>5, <2>1, <2>3, <2>5 DEF from
  <1>6. CASE s[p + 1].kind # "address"
    <2>1. Directives(s, p + 1) = Directives(s, p)
      BY <1>3, <1>6 DEF Directives
    <2>2. from(p + 1) = from(p)
      BY <2>1 DEF LastDirective
    <2>3. base(p + 1) = base(p) /\ LastDirective(s, p + 1) \in {0} \cup Directives(s, p + 1)
      BY <2>1, <2>2
    <2>4. d[p] \in Int /\ d[p + 1] \in Int /\ d[from(p)] \in Int
      <3>1. p \in 0 .. Len(s) /\ p + 1 \in 0 .. Len(s) /\ from(p) \in 0 .. Len(s)
        BY <1>1, <1>3, <1>4
      <3> QED
        BY <1>1, <3>1
    <2> HIDE DEF base, from, d
    <2>5. /\ ItemAddr(s, (p + 1) + 1) = base(p) + d[p + 1] - d[from(p)]
          /\ ItemAddr(s, p + 1) = base(p) + d[p] - d[from(p)]
      BY <1>2, <1>3, <2>2, <2>3
    <2>6. CASE s[p + 1].kind = "data"
      <3>1. d[p + 1] = d[p] + ItemSize(s, p + 1) /\ ItemSize(s, p + 1) \in Int
        BY <1>1, <2>6
      <3>2. ItemAddr(s, (p + 1) + 1) = ItemAddr(s, p + 1) + ItemSize(s, p + 1)
        BY <1>4, <2>4, <2>5, <3>1, SMTT(30)
      <3> QED
        BY <2>3, <2>6, <3>2
    <2>7. CASE s[p + 1].kind # "data"
      <3>1. d[p + 1] = d[p]
        BY <1>1, <2>4, <2>7
      <3> QED
        BY <1>6, <2>3, <2>5, <2>7, <3>1
    <2> QED
      BY <2>6, <2>7
  <1> QED
    BY <1>5, <1>6

\* One more item changes the bytes it covers, to its own, and no others.
LEMMA NextByte ==
  ASSUME ClearOfTheTop, NEW s \in Files, NEW p \in 0 .. Len(s) - 1, NEW a
  PROVE  ByteUpTo(s, a, p + 1) = IF p + 1 \in Covering(s, a)
                                 THEN ByteOf(s[p + 1].value, a - ItemAddr(s, p + 1))
                                 ELSE ByteUpTo(s, a, p)
  <1>1. Len(s) \in Nat /\ \A k \in Covering(s, a) : k \in Int
    BY FileFacts DEF Covering
  <1>2. CASE p + 1 \in Covering(s, a)
    <2>1. p + 1 \in CoveringUpTo(s, a, p + 1) /\ \A y \in CoveringUpTo(s, a, p + 1) : y \in Int /\ y <= p + 1
      BY <1>1, <1>2 DEF CoveringUpTo
    <2>2. Max(CoveringUpTo(s, a, p + 1)) = p + 1
      BY <2>1, MaxIs
    <2> QED
      BY <1>2, <2>1, <2>2 DEF ByteUpTo
  <1>3. CASE p + 1 \notin Covering(s, a)
    <2>1. CoveringUpTo(s, a, p + 1) = CoveringUpTo(s, a, p)
      BY <1>1, <1>3 DEF CoveringUpTo
    <2> QED
      BY <1>3, <2>1 DEF ByteUpTo
  <1> QED
    BY <1>2, <1>3

\* Before the first token the image is the empty one.
LEMMA ImageStart == ClearOfTheTop /\ Init => ImageInv
  <1> SUFFICES ASSUME ClearOfTheTop, Init PROVE ImageInv
    OBVIOUS
  <1>1. ReaderInv
    BY LoaderAssumption DEF Init, ReaderInv, ClearOfTheTop
  <1>2. /\ file \in Files /\ position = 0 /\ current_addr = 0 /\ max_addr = 0 /\ copied = 0 /\ phase = "opening"
        /\ imem = [a \in 0 .. BufferSize - 1 |-> ebreak_byte(a)]
        /\ sram = [w \in 0 .. BufferSize \div 4 - 1 |-> Unwritten]
    BY DEF Init
  <1>3. /\ Len(file) \in Nat /\ \A k \in DataItems(file) : k \in 1 .. Len(file)
        /\ DataBefore(file)[0] \in Int
    BY <1>2, FileFacts
  <1>4. LastDirective(file, 0) = 0
    BY DEF LastDirective, Directives
  <1>5. ItemAddr(file, 0 + 1) = 0
    BY <1>3, <1>4 DEF ItemAddr
  <1>6. \A a : ByteUpTo(file, a, 0) = ebreak_byte(a)
    <2>1. \A a : CoveringUpTo(file, a, 0) = {}
      BY <1>3 DEF CoveringUpTo, Covering
    <2> QED
      BY <2>1 DEF ByteUpTo
  <1>7. ReadInv
    BY <1>2, <1>3, <1>4, <1>5, <1>6 DEF ReadInv
  <1>8. CopyInv
    <2>1. BufferSize \div 4 \in Nat
      BY LoaderAssumption
    <2>2. sram = [w \in 0 .. BufferSize \div 4 - 1 |->
                    IF 4 * w < copied THEN [k \in 0 .. 3 |-> imem[4 * w + k]] ELSE Unwritten]
      BY <1>2, <2>1
    <2>3. 0 % 4 = 0
      OBVIOUS
    <2> QED
      BY <1>2, <2>2, <2>3 DEF CopyInv
  <1> QED
    BY <1>1, <1>7, <1>8 DEF ImageInv

\* Reading an item that stores nothing.
LEMMA SkipImage ==
  ASSUME ClearOfTheTop, ImageInv, Skip \/ SetAddress
  PROVE  ReadInv' /\ CopyInv'
  <1> DEFINE p == position
  <1>1. ReaderInv /\ ReadInv /\ CopyInv /\ file \in Files /\ p \in 0 .. Len(file)
    BY DEF ImageInv, ReaderInv, ReadInv
  <1>2. /\ phase = "reading" /\ p < Len(file) /\ position' = p + 1
        /\ UNCHANGED << file, imem, max_addr, phase, copied, sram >>
        /\ \/ file[p + 1].kind = "skip" /\ current_addr' = current_addr
           \/ file[p + 1].kind = "address" /\ current_addr' = file[p + 1].value
    BY DEF Skip, SetAddress, Reads, item
  <1>3. Len(file) \in Nat /\ p \in 0 .. Len(file) - 1 /\ p + 1 \in 0 .. Len(file)
    BY <1>1, <1>2, FileFacts
  <1>4. /\ LastDirective(file, p + 1) \in {0} \cup Directives(file, p + 1)
        /\ current_addr' = ItemAddr(file, (p + 1) + 1)
    BY <1>1, <1>2, <1>3, NextAddr DEF ReadInv
  <1>5. p + 1 \notin DataItems(file) /\ \A k \in DataItems(file) : k \in 1 .. Len(file)
    BY <1>1, <1>2, FileFacts
  <1>6. \A a : ByteUpTo(file, a, p + 1) = ByteUpTo(file, a, p)
    <2>1. \A a : p + 1 \notin Covering(file, a)
      BY <1>5 DEF Covering
    <2> QED
      BY <1>1, <1>3, <2>1, NextByte
  <1>7. \A k \in 1 .. p + 1 : file[k].kind # "bad address"
    <2>1. \A k \in 1 .. p + 1 : k = p + 1 \/ k \in 1 .. p
      BY <1>3
    <2> QED
      BY <1>1, <1>2, <2>1 DEF ReadInv
  <1>8. \A k \in DataItems(file) : k <= p + 1 <=> k <= p
    BY <1>3, <1>5
  <1>9. ReadInv'
    <2>1. /\ \A k \in DataItems(file) : k <= p + 1 =>
               /\ ItemAddr(file, k) \in Nat /\ ItemEnd(file, k) <= BufferSize
               /\ 0 < ItemEnd(file, k) /\ ItemEnd(file, k) <= max_addr
          /\ max_addr = 0 \/ \E k \in DataItems(file) : k <= p + 1 /\ max_addr = ItemEnd(file, k)
          /\ imem = [a \in 0 .. BufferSize - 1 |-> ByteUpTo(file, a, p + 1)]
      BY <1>1, <1>6, <1>8 DEF ReadInv
    <2> QED
      BY <1>2, <1>3, <1>4, <1>7, <2>1 DEF ReadInv
  <1>10. CopyInv'
    BY <1>1, <1>2 DEF CopyInv
  <1> QED
    BY <1>9, <1>10

\* A file that is refused is not well formed or does not fit.
LEMMA FailImage ==
  ASSUME ClearOfTheTop, ImageInv, BadAddress \/ OutOfBounds
  PROVE  ReadInv' /\ CopyInv'
  <1> DEFINE p == position
             q == p + 1
  <1>1. ReaderInv /\ ReadInv /\ CopyInv /\ file \in Files /\ p \in 0 .. Len(file) /\ p < Len(file) /\ phase = "reading"
    BY DEF ImageInv, ReaderInv, ReadInv, BadAddress, OutOfBounds, Reads
  <1>2. phase' = "failed" /\ UNCHANGED << file, position, imem, current_addr, max_addr, copied, sram >>
    BY DEF BadAddress, OutOfBounds, Fail
  <1>3. Len(file) \in Nat /\ q \in 1 .. Len(file) /\ q \in DOMAIN file
    BY <1>1, FileFacts
  <1>4. ~Valid(file)
    <2>1. CASE BadAddress
      BY <1>3, <2>1 DEF BadAddress, Reads, Valid
    <2>2. CASE OutOfBounds
      <3>1. file[q].kind = "data" /\ ~fits
        BY <2>2 DEF OutOfBounds, Reads
      <3>2. q \in DataItems(file) /\ ItemSize(file, q) \in 1 .. 4
        BY <1>1, <1>3, <3>1, FileFacts
      <3>3. size = ItemSize(file, q) /\ current_addr = ItemAddr(file, q)
        BY <1>1 DEF size, item, ItemSize, ReadInv
      <3>4. current_addr \in 0 .. AddrMod - 5 /\ AddrMod \in Nat \ {0} /\ BufferSize \in Nat
        BY <1>1, LoaderAssumption DEF ReaderInv
      <3>5. (current_addr + size) % AddrMod = current_addr + size
        <4>1. current_addr + size \in 0 .. AddrMod - 1
          BY <3>2, <3>3, <3>4
        <4> QED
          BY <3>4, <4>1, Unreduced
      <3>6. ~(current_addr + size <= BufferSize)
        BY <3>1, <3>5 DEF fits
      <3>7. ~(ItemEnd(file, q) <= BufferSize)
        BY <3>3, <3>6 DEF ItemEnd
      <3> QED
        BY <3>2, <3>7 DEF Valid
    <2> QED
      BY <2>1, <2>2
  <1>5. ReadInv'
    BY <1>1, <1>2 DEF ReadInv
  <1>6. CopyInv'
    BY <1>1, <1>2, <1>4 DEF CopyInv
  <1> QED
    BY <1>5, <1>6

\* The end of the file: something was stored, or there is no data in it.
LEMMA EndImage ==
  ASSUME ClearOfTheTop, ImageInv, EndOfFile
  PROVE  ReadInv' /\ CopyInv'
  <1>1. ReaderInv /\ ReadInv /\ CopyInv /\ file \in Files /\ phase = "reading" /\ position = Len(file)
    BY DEF ImageInv, ReaderInv, EndOfFile
  <1>2. /\ UNCHANGED << file, position, imem, current_addr, max_addr, copied, sram >>
        /\ phase' = IF max_addr = 0 THEN "failed" ELSE "copying"
    BY DEF EndOfFile
  <1>3. max_addr = 0 => DataItems(file) = {}
    <2> SUFFICES ASSUME max_addr = 0, NEW k \in DataItems(file) PROVE FALSE
      OBVIOUS
    <2>1. k \in 1 .. Len(file) /\ Len(file) \in Nat /\ ItemSize(file, k) \in 1 .. 4
      BY <1>1, FileFacts
    <2>2. ItemAddr(file, k) \in Nat /\ 0 < ItemEnd(file, k) /\ ItemEnd(file, k) <= max_addr
      <3>1. k <= position
        BY <1>1, <2>1
      <3> QED
        BY <1>1, <3>1 DEF ReadInv
    <2> QED
      BY <2>1, <2>2 DEF ItemEnd
  <1>4. ReadInv'
    BY <1>1, <1>2 DEF ReadInv
  <1>5. CopyInv'
    BY <1>1, <1>2, <1>3 DEF CopyInv, Valid
  <1> QED
    BY <1>4, <1>5

\* A token is stored where it lies, over what was there.
LEMMA StoreImage ==
  ASSUME ClearOfTheTop, ImageInv, StoreToken
  PROVE  ReadInv' /\ CopyInv'
  <1> DEFINE p == position
             q == p + 1
             A == current_addr
             n == ItemSize(file, q)
  <1>1. /\ ReaderInv /\ ReadInv /\ CopyInv /\ file \in Files /\ p \in 0 .. Len(file) /\ p < Len(file)
        /\ phase = "reading" /\ file[q].kind = "data" /\ Reads("data") /\ fits
    BY DEF ImageInv, ReaderInv, ReadInv, StoreToken, Reads
  <1>2. Len(file) \in Nat /\ p \in 0 .. Len(file) - 1 /\ q \in 1 .. Len(file) /\ n \in 1 .. 4 /\ q \in DataItems(file)
    BY <1>1, FileFacts
  <1>3. size = n /\ A = ItemAddr(file, q)
    BY <1>1 DEF size, item, ItemSize, ReadInv
  <1>4. /\ (A + n) % AddrMod = A + n /\ A + n <= BufferSize
        /\ A \in Nat /\ AddrMod \in Nat \ {0} /\ BufferSize \in Nat /\ BufferSize + 5 <= AddrMod
    BY <1>1, <1>3, TokenInside, LoaderAssumption DEF ReaderInv, ClearOfTheTop
  <1>5. /\ UNCHANGED << file, phase, copied, sram >> /\ position' = q
        /\ current_addr' = A + n /\ max_addr' = IF A + n > max_addr THEN A + n ELSE max_addr
        /\ imem' = Stored(A, n, file[q].value)
    BY <1>3, <1>4 DEF StoreToken, item
  <1>6. ItemEnd(file, q) = A + n
    BY <1>3 DEF ItemEnd
  <1>7. /\ LastDirective(file, q) \in {0} \cup Directives(file, q)
        /\ current_addr' = ItemAddr(file, q + 1)
    BY <1>1, <1>2, <1>3, <1>5, NextAddr DEF ReadInv
  <1>8. \A k \in 1 .. q : file[k].kind # "bad address"
    <2>1. \A k \in 1 .. q : k = q \/ k \in 1 .. p
      BY <1>2
    <2> QED
      BY <1>1, <2>1 DEF ReadInv
  <1>9. \A k \in DataItems(file) : (k <= q <=> k <= p \/ k = q) /\ (k <= p => k # q)
    <2>1. \A k \in DataItems(file) : k \in 1 .. Len(file)
      BY <1>1, FileFacts
    <2> QED
      BY <1>2, <2>1
  <1>10. max_addr \in Nat
    <2>1. \A k \in DataItems(file) : k <= p => ItemEnd(file, k) \in Nat
      <3> SUFFICES ASSUME NEW k \in DataItems(file), k <= p PROVE ItemEnd(file, k) \in Nat
        OBVIOUS
      <3>1. ItemAddr(file, k) \in Nat /\ ItemSize(file, k) \in 1 .. 4
        BY <1>1, FileFacts DEF ReadInv
      <3> QED
        BY <3>1 DEF ItemEnd
    <2>2. CASE max_addr = 0
      BY <2>2
    <2>3. CASE \E k \in DataItems(file) : k <= p /\ max_addr = ItemEnd(file, k)
      BY <2>1, <2>3
    <2>4. max_addr = 0 \/ \E k \in DataItems(file) : k <= p /\ max_addr = ItemEnd(file, k)
      BY <1>1 DEF ReadInv
    <2> QED
      BY <2>2, <2>3, <2>4
  <1>11. \A k \in DataItems(file) : k <= q =>
           /\ ItemAddr(file, k) \in Nat /\ ItemEnd(file, k) <= BufferSize
           /\ 0 < ItemEnd(file, k) /\ ItemEnd(file, k) <= max_addr'
    <2> SUFFICES ASSUME NEW k \in DataItems(file), k <= q
                 PROVE  /\ ItemAddr(file, k) \in Nat /\ ItemEnd(file, k) <= BufferSize
                        /\ 0 < ItemEnd(file, k) /\ ItemEnd(file, k) <= max_addr'
      OBVIOUS
    <2>1. CASE k = q
      <3>1. ItemAddr(file, k) = A /\ ItemEnd(file, k) = A + n
        BY <1>3, <1>6, <2>1
      <3>2. n \in Nat /\ n > 0
        BY <1>2
      <3> HIDE DEF n, A, q
      <3>3. A \in Nat /\ A + n <= BufferSize /\ A + n \in Nat /\ 0 < A + n
        BY <1>4, <3>2
      <3>4. A + n <= max_addr'
        BY <1>5, <1>10, <3>3
      <3> QED
        BY <3>1, <3>3, <3>4
    <2>2. CASE k <= p
      <3>1. /\ ItemAddr(file, k) \in Nat /\ ItemEnd(file, k) <= BufferSize
            /\ 0 < ItemEnd(file, k) /\ ItemEnd(file, k) <= max_addr
        BY <1>1, <2>2 DEF ReadInv
      <3>2. ItemEnd(file, k) \in Nat
        <4>1. ItemSize(file, k) \in 1 .. 4
          BY <1>1, FileFacts
        <4> QED
          BY <3>1, <4>1 DEF ItemEnd
      <3>3. ItemEnd(file, k) <= max_addr'
        BY <1>2, <1>4, <1>5, <1>10, <3>1, <3>2
      <3> QED
        BY <3>1, <3>3
    <2> QED
      BY <1>9, <2>1, <2>2
  <1>12. \E k \in DataItems(file) : k <= q /\ max_addr' = ItemEnd(file, k)
    <2>1. CASE A + n > max_addr
      <3>1. q <= q /\ max_addr' = ItemEnd(file, q)
        BY <1>2, <1>5, <1>6, <2>1
      <3> QED
        BY <1>2, <3>1
    <2>2. CASE ~(A + n > max_addr)
      <3>1. max_addr' = max_addr /\ max_addr # 0
        BY <1>2, <1>4, <1>5, <1>10, <2>2
      <3>2. PICK k \in DataItems(file) : k <= p /\ max_addr = ItemEnd(file, k)
        BY <1>1, <3>1 DEF ReadInv
      <3> QED
        BY <1>9, <3>1, <3>2
    <2> QED
      BY <2>1, <2>2
  <1>13. imem' = [a \in 0 .. BufferSize - 1 |-> ByteUpTo(file, a, q)]
    <2> SUFFICES ASSUME NEW a \in 0 .. BufferSize - 1 PROVE imem'[a] = ByteUpTo(file, a, q)
      BY <1>5 DEF Stored
    <2>1. imem'[a] = IF (a - A) % AddrMod < n THEN ByteOf(file[q].value, (a - A) % AddrMod) ELSE imem[a]
      BY <1>5 DEF Stored
    <2>2. imem[a] = ByteUpTo(file, a, p)
      BY <1>1 DEF ReadInv
    <2>3. q \in Covering(file, a) <=> A <= a /\ a < A + n
      BY <1>2, <1>3, <1>6 DEF Covering
    <2>4. CASE A <= a
      <3>1. (a - A) % AddrMod = a - A
        <4>1. a - A \in 0 .. AddrMod - 1
          BY <1>4, <2>4
        <4> QED
          BY <1>4, <4>1, Unreduced
      <3>2. a - A < n <=> a < A + n
        BY <1>2, <1>4
      <3>3. ByteUpTo(file, a, q) = IF a < A + n THEN ByteOf(file[q].value, a - A) ELSE ByteUpTo(file, a, p)
        BY <1>1, <1>2, <1>3, <2>3, <2>4, NextByte
      <3> QED
        BY <2>1, <2>2, <3>1, <3>2, <3>3
    <2>5. CASE ~(A <= a)
      <3>1. (a - A) % AddrMod = (a - A) + AddrMod
        <4> DEFINE r == (a - A) + AddrMod
                   m == -1
        <4>1. r \in 0 .. AddrMod - 1 /\ m \in Int /\ m * AddrMod + r = a - A
          BY <1>2, <1>4, <2>5
        <4> HIDE DEF r, m
        <4>2. (m * AddrMod + r) % AddrMod = r
          BY <1>4, <4>1, ModUnique
        <4> QED
          BY <4>1, <4>2 DEF r
      <3>2. ~((a - A) + AddrMod < n)
        BY <1>2, <1>4
      <3>3. ByteUpTo(file, a, q) = ByteUpTo(file, a, p)
        BY <1>1, <1>2, <2>3, <2>5, NextByte
      <3> QED
        BY <2>1, <2>2, <3>1, <3>2, <3>3
    <2> QED
      BY <2>4, <2>5
  <1>14. ReadInv'
    <2>1. q \in 0 .. Len(file)
      BY <1>2
    <2> QED
      BY <1>5, <1>7, <1>8, <1>11, <1>12, <1>13, <2>1 DEF ReadInv
  <1>15. CopyInv'
    <2>1. copied = 0 /\ max_addr' \in Nat
      BY <1>1, <1>2, <1>4, <1>5, <1>10 DEF CopyInv
    <2>2. sram = [w \in 0 .. BufferSize \div 4 - 1 |->
                    IF 4 * w < copied THEN [k \in 0 .. 3 |-> imem'[4 * w + k]] ELSE Unwritten]
      <3>1. \A w \in 0 .. BufferSize \div 4 - 1 : ~(4 * w < copied)
        BY <2>1
      <3> QED
        BY <1>1, <3>1 DEF CopyInv
    <2> QED
      BY <1>1, <1>5, <2>1, <2>2 DEF CopyInv
  <1> QED
    BY <1>14, <1>15

\* A word goes to the SRAM, and the copy ends past the last byte written.
LEMMA CopyImage ==
  ASSUME ClearOfTheTop, ImageInv, CopyWord \/ Start
  PROVE  ReadInv' /\ CopyInv'
  <1>1. ReaderInv /\ ReadInv /\ CopyInv /\ file \in Files /\ phase = "copying"
    BY DEF ImageInv, ReaderInv, CopyWord, Start
  <1>2. UNCHANGED << file, position, imem, current_addr, max_addr >>
    BY DEF CopyWord, Start
  <1>3. ReadInv'
    BY <1>1, <1>2 DEF ReadInv
  <1>4. max_addr \in Nat /\ max_addr <= BufferSize /\ BufferSize \in Nat /\ BufferSize % 4 = 0
    <2>1. PICK k \in DataItems(file) : k <= position /\ max_addr = ItemEnd(file, k)
      BY <1>1 DEF ReadInv, CopyInv
    <2>2. ItemAddr(file, k) \in Nat /\ ItemEnd(file, k) <= BufferSize /\ ItemSize(file, k) \in 1 .. 4
      BY <1>1, <2>1, FileFacts DEF ReadInv
    <2> QED
      BY <2>1, <2>2, LoaderAssumption DEF ItemEnd
  <1>5. copied \in Nat /\ copied % 4 = 0 /\ copied < max_addr + 4
    BY <1>1 DEF CopyInv
  <1>6. CASE CopyWord
    <2> DEFINE c == copied \div 4
    <2>1. /\ copied < max_addr /\ copied' = copied + 4 /\ phase' = phase
          /\ sram' = [sram EXCEPT ![c] = [k \in 0 .. 3 |-> imem[copied + k]]]
      BY <1>6 DEF CopyWord, more_words
    <2>2. c \in Nat /\ copied = 4 * c
      BY <1>5
    <2> HIDE DEF c
    <2>3. (copied + 4) % 4 = 0 /\ copied + 4 \in Nat /\ copied + 4 < max_addr + 4
      BY <1>4, <2>1, <2>2
    <2>4. sram' = [w \in 0 .. BufferSize \div 4 - 1 |->
                     IF 4 * w < copied + 4 THEN [k \in 0 .. 3 |-> imem[4 * w + k]] ELSE Unwritten]
      <3>1. BufferSize \div 4 \in Nat /\ c \in 0 .. BufferSize \div 4 - 1
        BY <1>4, <2>1, <2>2
      <3>2. sram = [w \in 0 .. BufferSize \div 4 - 1 |->
                      IF 4 * w < copied THEN [k \in 0 .. 3 |-> imem[4 * w + k]] ELSE Unwritten]
        BY <1>1 DEF CopyInv
      <3>3. \A w \in 0 .. BufferSize \div 4 - 1 :
              sram'[w] = IF 4 * w < copied + 4 THEN [k \in 0 .. 3 |-> imem[4 * w + k]] ELSE Unwritten
        <4> SUFFICES ASSUME NEW w \in 0 .. BufferSize \div 4 - 1
                     PROVE  sram'[w] = IF 4 * w < copied + 4 THEN [k \in 0 .. 3 |-> imem[4 * w + k]] ELSE Unwritten
          OBVIOUS
        <4>1. CASE w = c
          <5>1. 4 * w = copied /\ 4 * w < copied + 4
            BY <2>2, <4>1
          <5>2. sram'[w] = [k \in 0 .. 3 |-> imem[copied + k]]
            BY <2>1, <3>1, <3>2, <4>1
          <5> QED
            BY <5>1, <5>2
        <4>2. CASE w # c
          <5>1. 4 * w < copied + 4 <=> 4 * w < copied
            BY <2>2, <3>1, <4>2
          <5>2. sram'[w] = sram[w]
            BY <2>1, <3>2, <4>2
          <5> QED
            BY <3>2, <5>1, <5>2
        <4> QED
          BY <4>1, <4>2
      <3>4. sram' = [w \in 0 .. BufferSize \div 4 - 1 |-> sram'[w]]
        BY <2>1, <3>2
      <3> QED
        BY <3>3, <3>4
    <2>5. phase' = "copying" /\ position' = Len(file') /\ max_addr' # 0
      BY <1>1, <1>2, <2>1 DEF CopyInv
    <2>6. copied' \in Nat /\ copied' % 4 = 0 /\ copied' < max_addr' + 4
      BY <1>2, <2>1, <2>3
    <2>7. sram' = [w \in 0 .. BufferSize \div 4 - 1 |->
                     IF 4 * w < copied' THEN [k \in 0 .. 3 |-> imem'[4 * w + k]] ELSE Unwritten]
      BY <1>2, <2>1, <2>4
    <2>8. CopyInv'
      BY <2>5, <2>6, <2>7 DEF CopyInv
    <2> QED
      BY <1>3, <2>8
  <1>7. CASE Start
    <2>1. phase' = "started" /\ UNCHANGED << copied, sram >> /\ ~(copied < max_addr /\ copied < BufferSize)
      BY <1>7 DEF Start, more_words
    <2>2. copied >= max_addr
      BY <1>4, <1>5, <2>1
    <2>3. CopyInv'
      BY <1>1, <1>2, <2>1, <2>2 DEF CopyInv
    <2> QED
      BY <1>3, <2>3
  <1> QED
    BY <1>6, <1>7

\* The memory is the image, and only well-formed files get there, for files
\* of any length in a buffer of any size (libSimHelper.cc:70-168,
\* top.cc:312-318), as long as no directive lies within a word of the top.
THEOREM ImageHolds == ASSUME ClearOfTheTop PROVE Spec => []ImageRight
  <1>1. Init => ImageInv
    BY ClearOfTheTop, ImageStart
  <1>2. ImageInv /\ [Next]_vars => ImageInv'
    <2> SUFFICES ASSUME ImageInv, [Next]_vars PROVE ImageInv'
      OBVIOUS
    <2>1. ReaderInv'
      BY ClearOfTheTop, ReaderStep DEF ImageInv
    <2>2. CASE Skip \/ SetAddress
      BY ClearOfTheTop, <2>1, <2>2, SkipImage DEF ImageInv
    <2>3. CASE BadAddress \/ OutOfBounds
      BY ClearOfTheTop, <2>1, <2>3, FailImage DEF ImageInv
    <2>4. CASE StoreToken
      BY ClearOfTheTop, <2>1, <2>4, StoreImage DEF ImageInv
    <2>5. CASE EndOfFile
      BY ClearOfTheTop, <2>1, <2>5, EndImage DEF ImageInv
    <2>6. CASE CopyWord \/ Start
      BY ClearOfTheTop, <2>1, <2>6, CopyImage DEF ImageInv
    <2>7. CASE UNCHANGED vars
      <3>1. UNCHANGED << file, position, imem, current_addr, max_addr, phase, copied, sram >>
        BY <2>7 DEF vars
      <3>2. ReadInv /\ CopyInv
        BY DEF ImageInv
      <3>3. ReadInv'
        BY <3>1, <3>2 DEF ReadInv
      <3>4. CopyInv'
        BY <3>1, <3>2 DEF CopyInv
      <3> QED
        BY <2>1, <3>3, <3>4 DEF ImageInv
    <2>8. CASE OpenFile
      <3>1. /\ UNCHANGED << file, position, imem, current_addr, max_addr, copied, sram >>
            /\ phase = "opening" /\ phase' \in {"reading", "unopened"}
        BY <2>8 DEF OpenFile
      <3>2. ReadInv /\ CopyInv
        BY DEF ImageInv
      <3>3. ReadInv'
        BY <3>1, <3>2 DEF ReadInv
      <3>4. CopyInv'
        BY <3>1, <3>2 DEF CopyInv
      <3> QED
        BY <2>1, <3>3, <3>4 DEF ImageInv
    <2> QED
      BY <2>2, <2>3, <2>4, <2>5, <2>6, <2>7, <2>8 DEF Next
  <1>3. ImageInv => ImageRight
    <2> SUFFICES ASSUME ImageInv PROVE ImageRight
      OBVIOUS
    <2>1. ReaderInv /\ ReadInv /\ CopyInv /\ file \in Files
      BY DEF ImageInv, ReaderInv
    <2>2. phase = "failed" => ~Valid(file)
      BY <2>1 DEF CopyInv
    <2>3. ASSUME phase = "started"
          PROVE  /\ Valid(file)
                 /\ \A w \in DOMAIN sram :
                      sram[w] = IF \E k \in DataItems(file) : 4 * w < ItemEnd(file, k)
                                THEN [k \in 0 .. 3 |-> ImageByte(file, 4 * w + k)]
                                ELSE Unwritten
      <3>1. position = Len(file) /\ max_addr # 0 /\ copied >= max_addr /\ copied < max_addr + 4
            /\ copied \in Nat /\ copied % 4 = 0
        BY <2>1, <2>3 DEF CopyInv
      <3>2. Len(file) \in Nat /\ DOMAIN file = 1 .. Len(file)
        BY ClearOfTheTop, <2>1, FileFacts
      <3>3. \A k \in DataItems(file) : k \in 1 .. Len(file) /\ k <= position /\ ItemSize(file, k) \in 1 .. 4
        BY ClearOfTheTop, <2>1, <3>1, <3>2, FileFacts
      <3>4. PICK top \in DataItems(file) : max_addr = ItemEnd(file, top)
        BY <2>1, <3>1 DEF ReadInv
      <3>5. \A k \in DataItems(file) : ItemEnd(file, k) \in Nat /\ ItemEnd(file, k) <= max_addr
        <4> SUFFICES ASSUME NEW k \in DataItems(file)
                     PROVE  ItemEnd(file, k) \in Nat /\ ItemEnd(file, k) <= max_addr
          OBVIOUS
        <4>1. ItemAddr(file, k) \in Nat /\ ItemEnd(file, k) <= max_addr
          BY <2>1, <3>3 DEF ReadInv
        <4> QED
          BY <3>3, <4>1 DEF ItemEnd
      <3>6. max_addr \in Nat /\ max_addr <= BufferSize /\ BufferSize \in Nat
        <4>1. ItemEnd(file, top) <= BufferSize
          BY <2>1, <3>3 DEF ReadInv
        <4> QED
          BY <3>4, <3>5, <4>1, LoaderAssumption
      <3>7. Valid(file)
        BY <2>1, <3>1, <3>2, <3>3, <3>4 DEF Valid, ReadInv
      <3>8. \A a : ByteUpTo(file, a, position) = ImageByte(file, a)
        <4>1. \A a : CoveringUpTo(file, a, position) = Covering(file, a)
          BY <3>3 DEF CoveringUpTo, Covering
        <4> QED
          BY <4>1 DEF ByteUpTo, ImageByte
      <3>9. ASSUME NEW w \in DOMAIN sram
            PROVE  sram[w] = IF \E k \in DataItems(file) : 4 * w < ItemEnd(file, k)
                             THEN [k \in 0 .. 3 |-> ImageByte(file, 4 * w + k)]
                             ELSE Unwritten
        <4>1. sram = [v \in 0 .. BufferSize \div 4 - 1 |->
                        IF 4 * v < copied THEN [k \in 0 .. 3 |-> imem[4 * v + k]] ELSE Unwritten]
          BY <2>1 DEF CopyInv
        <4>2. w \in 0 .. BufferSize \div 4 - 1 /\ BufferSize \div 4 \in Nat
          BY <3>6, <3>9, <4>1
        <4>3. sram[w] = IF 4 * w < copied THEN [k \in 0 .. 3 |-> imem[4 * w + k]] ELSE Unwritten
          BY <4>1, <4>2
        <4>4. 4 * w < copied <=> 4 * w < max_addr
          BY <3>1, <3>6, <4>2
        <4>5. 4 * w < max_addr <=> \E k \in DataItems(file) : 4 * w < ItemEnd(file, k)
          BY <3>4, <3>5, <3>6, <4>2
        <4>6. \A k \in 0 .. 3 : imem[4 * w + k] = ImageByte(file, 4 * w + k)
          <5>1. \A k \in 0 .. 3 : 4 * w + k \in 0 .. BufferSize - 1
            BY <3>6, <4>2
          <5>2. \A a \in 0 .. BufferSize - 1 : imem[a] = ImageByte(file, a)
            BY <2>1, <3>8 DEF ReadInv
          <5> QED
            BY <5>1, <5>2
        <4> QED
          BY <4>3, <4>4, <4>5, <4>6
      <3> QED
        BY <3>7, <3>9
    <2> QED
      BY <2>2, <2>3 DEF ImageRight
  <1> QED
    BY <1>1, <1>2, <1>3, PTL DEF Spec

-----------------------------------------------------------------------------
(* The helpers that work through temporary files: load_elf and print_imem, *)
(* for every symbol table and every size of the text section.              *)

CONSTANTS Symbols, TextSizes
VARIABLES step, temporary, open, symbols, start_addr, found_start, text_size

Elf == INSTANCE ElfLoader

\* The temporary files and streams that exist at each step: exactly what
\* the branches of that step have to give back.
FilesAt ==
  [s \in {"make text file", "make nm file", "open nm file", "scan", "check start", "objcopy",
          "open text file", "check size", "read text", "make image file", "make listing file",
          "print listing", "done", "failed"} |->
     CASE s \in {"make nm file", "check start", "objcopy", "open text file", "check size",
                 "read text"} -> {"text"}
       [] s \in {"open nm file", "scan"} -> {"text", "nm"}
       [] s = "make listing file" -> {"image"}
       [] s = "print listing" -> {"image", "listing"}
       [] OTHER -> {}]
OpenAt(s) == CASE s = "scan" -> {"nm"} [] s \in {"check size", "read text"} -> {"text"} [] OTHER -> {}

CleanInv == /\ step \in DOMAIN FilesAt
            /\ temporary = FilesAt[step]
            /\ open = OpenAt(step)

\* Every step of either helper keeps the account, one case per action.
LEMMA CleanStep == CleanInv /\ [Elf!Next]_(Elf!vars) => CleanInv'
<1> SUFFICES ASSUME CleanInv, [Elf!Next]_(Elf!vars) PROVE CleanInv'
  OBVIOUS
<1> USE DEF CleanInv, FilesAt, OpenAt, Elf!Goes, Elf!GivesUp
<1>1. CASE Elf!MakeTextFile
  BY <1>1 DEF Elf!MakeTextFile
<1>2. CASE Elf!MakeNmFile
  BY <1>2 DEF Elf!MakeNmFile
<1>3. CASE Elf!OpenNmFile
  BY <1>3 DEF Elf!OpenNmFile
<1>4. CASE Elf!ScanSymbol
  BY <1>4 DEF Elf!ScanSymbol
<1>5. CASE Elf!EndScan
  BY <1>5 DEF Elf!EndScan
<1>6. CASE Elf!CheckStart
  BY <1>6 DEF Elf!CheckStart
<1>7. CASE Elf!Objcopy
  BY <1>7 DEF Elf!Objcopy
<1>8. CASE Elf!OpenTextFile
  BY <1>8 DEF Elf!OpenTextFile
<1>9. CASE Elf!CheckSize
  BY <1>9 DEF Elf!CheckSize
<1>10. CASE Elf!ReadText
  BY <1>10 DEF Elf!ReadText
<1>11. CASE Elf!MakeImageFile
  BY <1>11 DEF Elf!MakeImageFile
<1>12. CASE Elf!MakeListingFile
  BY <1>12 DEF Elf!MakeListingFile
<1>13. CASE Elf!PrintListing
  BY <1>13 DEF Elf!PrintListing
<1>14. CASE UNCHANGED Elf!vars
  BY <1>14 DEF Elf!vars
<1> QED
  BY <1>1, <1>2, <1>3, <1>4, <1>5, <1>6, <1>7, <1>8, <1>9, <1>10, <1>11, <1>12, <1>13, <1>14 DEF Elf!Next

\* However a helper ends, nothing is left (libSimHelper.cc:19-68, 170-291).
THEOREM NothingIsLeft == Elf!Spec => []Elf!NothingLeft
<1>1. Elf!Init => CleanInv
  BY DEF Elf!Init, CleanInv, FilesAt, OpenAt
<1>2. CleanInv => Elf!NothingLeft
  BY DEF CleanInv, FilesAt, OpenAt, Elf!NothingLeft, Elf!ended
<1> QED
  BY <1>1, <1>2, CleanStep, PTL DEF Elf!Spec
=============================================================================
