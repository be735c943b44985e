--------------------------- MODULE MacroAllocator ---------------------------
(***************************************************************************)
(* allocate_unique_macros: the compiled macros are laid out one after the  *)
(* other in the pages of the compiler; a macro that does not fit in what   *)
(* is left of a page is cut between two instructions and goes on, through  *)
(* a JUMP, at the start of the next page.  One action per turn of the      *)
(* loops.                                                                  *)
(***************************************************************************)
EXTENDS MacroPages

CONSTANTS
  GlobalFirst, GlobalLast,   \* the sectors the compiler may use
  Controls                   \* the keys and controls of instructions, "" for none

ASSUME GlobalAssumption ==
  /\ GlobalFirst \in Nat /\ GlobalLast \in Nat /\ GlobalFirst <= GlobalLast
  /\ GlobalFirst .. GlobalLast \subseteq Addressable

VARIABLES
  macros,    \* the unique macros, as sequences of instructions
  m,         \* the macro in hand
  tok,       \* its next instruction, 0 between two macros
  split,     \* whether a fragment of it has been placed
  sector,    \* the cursor: the page ...
  offset,    \* ... and the next free byte
  start,     \* where each macro begins
  placed,    \* bytes of macros placed so far
  used,      \* bytes allocated so far, the jumps included
  waste,     \* bytes given up at the ends of pages
  outcome    \* "idle", "busy", "done", "exhausted", "stuck" or "malformed"

cursor == <<m, tok, split, sector, offset>>
ledger == <<start, placed, used, waste>>
allocation == <<macros, cursor, ledger, outcome>>

Global == GlobalFirst .. GlobalLast
Capacity == Cardinality(Global) * PageData

Singles == {"WAIT_FOR_RELEASE", "REPEAT_WHILE_PRESSED", "END"}
Triples == {"ROLLER", "ACPAN", "DELAY", "KEY_DOWN", "KEY_UP", "CONSUMER_DOWN", "CONSUMER_UP"}
End == <<"END", "", 0>>

Instructions == (Singles \union Triples) \X Controls \X Int
Tokens(code) == code \in Seq(Instructions) /\ Len(code) > 0 /\ code[Len(code)] = End

\* The offset in a macro of its n-th instruction.
Before(code, n) ==
  (n - 1) + 2 * Cardinality({j \in 1 .. n - 1 : code[j][1] \notin Singles})
Length(code) == Before(code, Len(code) + 1)

Op(ins) == IF ins = End THEN "END" ELSE IF ins[1] \in Singles THEN "ONE" ELSE "THREE"

Available == PageData - offset
Remaining == Length(macros[m]) - Before(macros[m], tok)

\* The bytes of the instructions tok to e, written from the cursor on.
Extent(e) == Before(macros[m], e + 1) - Before(macros[m], tok)
Written(e, o) ==
  LET b == Before(macros[m], tok) + (o - offset)
      here == {n \in tok .. e : Before(macros[m], n) = b}
  IN  IF here = {} THEN Operand
      ELSE LET n == CHOOSE n \in here : TRUE
           IN  Byte(Op(macros[m][n]), NoPlace, <<m, n>>)

Jump(s) == Byte("JUMP", <<s, 0>>, NoPlace)

AllocationInit ==
  /\ macros = <<>> /\ m = 1 /\ tok = 0 /\ split = FALSE
  /\ sector = GlobalFirst /\ offset = 0
  /\ start = <<>> /\ placed = 0 /\ used = 0 /\ waste = 0
  /\ outcome = "idle"

\* The call: the pages of the compiler start erased.
Allocate(unique) ==
  /\ outcome = "idle"
  /\ macros' = unique
  /\ pages' = [s \in Addressable |-> IF s \in Global THEN ErasedPage ELSE pages[s]]
  /\ outcome' = "busy"
  /\ UNCHANGED <<crc, cursor, ledger>>

GiveUp(why) == outcome' = why /\ UNCHANGED <<memory, macros, cursor, ledger>>

\* (Mutant of BeginMacro: every macro begins a page.)
BeginOnFreshPage ==
  /\ outcome = "busy" /\ tok = 0 /\ m <= Len(macros)
  /\ LET skip == offset > 0
         s == IF skip THEN sector + 1 ELSE sector
         o == IF skip THEN 0 ELSE offset
     IN  IF ~Tokens(macros[m]) THEN GiveUp("malformed")
         ELSE IF s > GlobalLast THEN GiveUp("exhausted")
         ELSE /\ sector' = s /\ offset' = o
              /\ tok' = 1 /\ split' = FALSE
              /\ start' = Append(start, <<s, o>>)
              /\ waste' = IF skip THEN waste + Available ELSE waste
              /\ UNCHANGED <<memory, macros, m, placed, used, outcome>>

\* A macro never begins in the last five bytes of a page.
BeginMacro ==
  /\ outcome = "busy" /\ tok = 0 /\ m <= Len(macros)
  /\ LET skip == offset > PageData - 6
         s == IF skip THEN sector + 1 ELSE sector
         o == IF skip THEN 0 ELSE offset
     IN  IF ~Tokens(macros[m]) THEN GiveUp("malformed")
         ELSE IF s > GlobalLast THEN GiveUp("exhausted")
         ELSE /\ sector' = s /\ offset' = o
              /\ tok' = 1 /\ split' = FALSE
              /\ start' = Append(start, <<s, o>>)
              /\ waste' = IF skip THEN waste + Available ELSE waste
              /\ UNCHANGED <<memory, macros, m, placed, used, outcome>>

PlaceRest ==
  /\ outcome = "busy" /\ tok > 0 /\ Remaining <= Available
  /\ pages' = [pages EXCEPT ![sector] = [o \in Offsets |->
       IF o \in offset .. offset + Remaining - 1
       THEN Written(Len(macros[m]), o) ELSE pages[sector][o]]]
  /\ offset' = offset + Remaining
  /\ placed' = placed + Remaining /\ used' = used + Remaining
  /\ m' = m + 1 /\ tok' = 0
  /\ UNCHANGED <<crc, macros, split, sector, start, waste, outcome>>

\* (Mutant of Fits: a JUMP of four bytes.)
FitsTightly(e) == Extent(e) <= Available - 4

\* The instructions up to e go before the JUMP that ends the page.
Fits(e) == Extent(e) <= Available - 5
LastFit == CHOOSE e \in tok .. Len(macros[m]) - 1 : Fits(e) /\ ~Fits(e + 1)

PlaceFragment ==
  /\ outcome = "busy" /\ tok > 0 /\ Remaining > Available /\ Fits(tok)
  /\ LET e == LastFit
         jump == offset + Extent(e)
     IN  IF sector = GlobalLast THEN GiveUp("exhausted")
         ELSE /\ pages' = [pages EXCEPT ![sector] = [o \in Offsets |->
                   IF o \in offset .. jump - 1 THEN Written(e, o)
                   ELSE IF o = jump THEN Jump(sector + 1)
                   ELSE IF o \in jump + 1 .. jump + 4 THEN Operand
                   ELSE pages[sector][o]]]
              /\ sector' = sector + 1 /\ offset' = 0
              /\ tok' = e + 1 /\ split' = TRUE
              /\ placed' = placed + Extent(e)
              /\ used' = used + Extent(e) + 5
              /\ waste' = waste + PageData - (jump + 5)
              /\ UNCHANGED <<crc, macros, m, start, outcome>>

\* (Mutant of MoveOn: the bytes left behind are not counted.)
MoveOnFree ==
  /\ outcome = "busy" /\ tok > 0 /\ Remaining > Available /\ ~Fits(tok)
  /\ IF split THEN GiveUp("stuck")
     ELSE IF sector = GlobalLast THEN GiveUp("exhausted")
     ELSE /\ sector' = sector + 1 /\ offset' = 0
          /\ start' = [start EXCEPT ![m] = <<sector + 1, 0>>]
          /\ UNCHANGED <<memory, macros, m, tok, split, placed, used, waste, outcome>>

\* Nothing fits before a JUMP: the macro begins on the next page instead.
MoveOn ==
  /\ outcome = "busy" /\ tok > 0 /\ Remaining > Available /\ ~Fits(tok)
  /\ IF split THEN GiveUp("stuck")
     ELSE IF sector = GlobalLast THEN GiveUp("exhausted")
     ELSE /\ sector' = sector + 1 /\ offset' = 0
          /\ start' = [start EXCEPT ![m] = <<sector + 1, 0>>]
          /\ waste' = waste + Available
          /\ UNCHANGED <<memory, macros, m, tok, split, placed, used, outcome>>

\* Every page of the compiler gets its CRC.
Seal ==
  /\ outcome = "busy" /\ tok = 0 /\ m > Len(macros)
  /\ pages' = [s \in Addressable |->
       IF s \in Global
       THEN [o \in Offsets |-> IF o < PageData THEN pages[s][o] ELSE Operand]
       ELSE pages[s]]
  /\ crc' = [s \in Addressable |-> s \in Global \/ crc[s]]
  /\ outcome' = "done"
  /\ UNCHANGED <<macros, cursor, ledger>>

Allocation == BeginMacro \/ PlaceRest \/ PlaceFragment \/ MoveOn \/ Seal

AllocationTypeOK ==
  /\ m \in Nat \ {0} /\ tok \in Nat /\ split \in BOOLEAN
  /\ sector \in Global /\ offset \in 0 .. PageData
  /\ start \in Seq(Global \X (0 .. PageData - 1))
  /\ Len(start) = (IF tok > 0 THEN m ELSE m - 1)
  /\ \A i \in DOMAIN start : Tokens(macros[i])
  /\ tok > 0 => tok <= Len(macros[m])
  /\ placed \in Nat /\ used \in Nat /\ waste \in Nat
  /\ outcome \in {"idle", "busy", "done", "exhausted", "stuck", "malformed"}

\* The counters of the capacity report speak of the pages: the bytes counted as
\* allocated are the ones that are not erased, and what is neither allocated
\* nor wasted is exactly what lies behind the last macro (codec.py:631-663).
StoreIsAccounted ==
  outcome \in {"busy", "done"} =>
    /\ used = Cardinality({a \in Global \X (0 .. PageData - 1) :
                             At(a).src # NoPlace \/ At(a).op # "END"})
    /\ Capacity - used - waste = (GlobalLast - sector) * PageData + Available
    /\ \A s \in Global, o \in 0 .. PageData - 1 :
         s > sector \/ (s = sector /\ o >= offset) => pages[s][o] = Erased

\* The allocator refuses a store only when the macros fill it: a page loses at
\* most seven bytes to its JUMP and to the cut between instructions, the last
\* page at most five; and it never meets the state its RuntimeError is for
\* (codec.py:518-580).
HonestRefusal ==
  /\ outcome # "stuck"
  /\ outcome = "exhausted" =>
       placed + Length(macros[m]) - (IF tok > 0 THEN Before(macros[m], tok) ELSE 0)
         > (GlobalLast - GlobalFirst) * (PageData - 7) + PageData - 5
=============================================================================
