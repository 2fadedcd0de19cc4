------------------------------ MODULE ElfLoader ------------------------------
(***************************************************************************)
(* The two helpers of sim/libSimHelper.cc that work through temporary      *)
(* files and outside tools: load_elf, which takes the .text section of an  *)
(* executable, and print_imem, which disassembles an image.  Each step may *)
(* fail; what a step that failed leaves behind is the subject here.        *)
(***************************************************************************)
EXTENDS Naturals, Sequences

CONSTANTS
  Symbols,     \* what nm may list: sequences of [matches, defined, address]
  TextSizes,   \* bytes objcopy may leave in the .text section
  BufferSize

VARIABLES
  step,        \* what the helper does next, or how it ended
  temporary,   \* temporary files that exist
  open,        \* streams that are open
  symbols,     \* the lines nm wrote that are still to be read
  start_addr, found_start,
  text_size

vars == << step, temporary, open, symbols, start_addr, found_start, text_size >>
scanVars == << symbols, start_addr, found_start >>

\* 0xFFFFFFFF, which is no address a program starts at.
NotFound == 2^32 - 1

Init ==
  /\ step \in {"make text file", "make image file"}
  /\ temporary = {} /\ open = {}
  /\ symbols = << >> /\ start_addr = NotFound /\ found_start = FALSE
  /\ text_size = 0

\* The helper goes on from one step to the next, or gives up after closing
\* and unlinking what the branch names.
Goes(from, to) == step = from /\ step' = to
GivesUp(from, unlinked, closed) ==
  /\ step = from /\ step' = "failed"
  /\ temporary' = temporary \ unlinked
  /\ open' = open \ closed
  /\ UNCHANGED << scanVars, text_size >>

-----------------------------------------------------------------------------
(* load_elf *)

MakeTextFile ==
  \/ GivesUp("make text file", {}, {})
  \/ /\ Goes("make text file", "make nm file")
     /\ temporary' = temporary \cup {"text"}
     /\ UNCHANGED << open, scanVars, text_size >>

\* nm runs whether or not it succeeds.
MakeNmFile ==
  \/ GivesUp("make nm file", {"text"}, {})
  \/ /\ Goes("make nm file", "open nm file")
     /\ temporary' = temporary \cup {"nm"}
     /\ symbols' \in Symbols
     /\ UNCHANGED << open, start_addr, found_start, text_size >>

OpenNmFile ==
  \/ GivesUp("open nm file", {"text", "nm"}, {})
  \/ /\ Goes("open nm file", "scan")
     /\ open' = open \cup {"nm"}
     /\ UNCHANGED << temporary, scanVars, text_size >>

\* Reading stops at the first line that has "_start" somewhere in it and
\* begins with a number.
is_start_line(s) == s.matches /\ s.defined
ScanSymbol ==
  /\ step = "scan" /\ symbols # << >> /\ ~found_start
  /\ symbols' = Tail(symbols)
  /\ found_start' = is_start_line(Head(symbols))
  /\ start_addr' = IF is_start_line(Head(symbols)) THEN Head(symbols).address ELSE start_addr
  /\ UNCHANGED << step, temporary, open, text_size >>

EndScan ==
  /\ symbols = << >> \/ found_start
  /\ Goes("scan", "check start")
  /\ open' = open \ {"nm"} /\ temporary' = temporary \ {"nm"}
  /\ UNCHANGED << scanVars, text_size >>

CheckStart ==
  \/ (~found_start \/ start_addr # 0) /\ GivesUp("check start", {"text"}, {})
  \/ /\ found_start /\ start_addr = 0
     /\ Goes("check start", "objcopy")
     /\ UNCHANGED << temporary, open, scanVars, text_size >>

Objcopy ==
  \/ GivesUp("objcopy", {"text"}, {})
  \/ /\ Goes("objcopy", "open text file")
     /\ text_size' \in TextSizes
     /\ UNCHANGED << temporary, open, scanVars >>

OpenTextFile ==
  \/ GivesUp("open text file", {"text"}, {})
  \/ /\ Goes("open text file", "check size")
     /\ open' = open \cup {"text"}
     /\ UNCHANGED << temporary, scanVars, text_size >>

text_bad == text_size = 0 \/ text_size % 4 # 0 \/ text_size > BufferSize

CheckSize ==
  \/ text_bad /\ GivesUp("check size", {"text"}, {"text"})
  \/ /\ ~text_bad
     /\ Goes("check size", "read text")
     /\ UNCHANGED << temporary, open, scanVars, text_size >>

ReadText ==
  \/ GivesUp("read text", {"text"}, {"text"})
  \/ /\ Goes("read text", "done")
     /\ open' = open \ {"text"} /\ temporary' = temporary \ {"text"}
     /\ UNCHANGED << scanVars, text_size >>

-----------------------------------------------------------------------------
(* print_imem *)

MakeImageFile ==
  \/ GivesUp("make image file", {}, {})
  \/ /\ Goes("make image file", "make listing file")
     /\ temporary' = temporary \cup {"image"}
     /\ UNCHANGED << open, scanVars, text_size >>

MakeListingFile ==
  \/ GivesUp("make listing file", {"image"}, {})
  \/ /\ Goes("make listing file", "print listing")
     /\ temporary' = temporary \cup {"listing"}
     /\ UNCHANGED << open, scanVars, text_size >>

\* A listing that does not open is passed over.
PrintListing ==
  /\ Goes("print listing", "done")
  /\ temporary' = temporary \ {"image", "listing"}
  /\ UNCHANGED << open, scanVars, text_size >>

Next == \/ MakeTextFile \/ MakeNmFile \/ OpenNmFile \/ ScanSymbol \/ EndScan \/ CheckStart
        \/ Objcopy \/ OpenTextFile \/ CheckSize \/ ReadText
        \/ MakeImageFile \/ MakeListingFile \/ PrintListing

Spec == Init /\ [][Next]_vars

-----------------------------------------------------------------------------
(* Properties *)

ended == step \in {"done", "failed"}

\* However a helper ends, at whichever of its steps, it leaves no temporary
\* file behind and no stream open (libSimHelper.cc:19-68, 170-291).
NothingLeft == ended => temporary = {} /\ open = {}
=============================================================================
