----------------------------- MODULE MacroPages -----------------------------
(***************************************************************************)
(* The macro store of the mouse: the pages that the virtual machine can    *)
(* address, byte by byte.  A byte is what an instruction that starts there *)
(* would be; src names the compiled instruction it belongs to, which only  *)
(* the properties read.                                                    *)
(***************************************************************************)
EXTENDS Integers, Sequences, FiniteSets

CONSTANTS
  Addressable,   \* sectors the virtual machine reads
  PageData,      \* bytes of a page before its CRC
  SectorSize     \* bytes of a page

ASSUME PagesAssumption ==
  /\ IsFiniteSet(Addressable) /\ Addressable \subseteq Nat \ {0}
  /\ PageData \in Nat /\ SectorSize \in Nat
  /\ 8 <= PageData /\ PageData <= SectorSize

VARIABLES
  pages,   \* the bytes, by sector and offset
  crc      \* whether the page ends in its valid CRC

memory == <<pages, crc>>

Offsets == 0 .. SectorSize - 1
NoPlace == <<0, 0>>

\* "END" is 0xFF, which is also what an erased byte reads; "ONE" and "THREE"
\* are the other instructions of one and of three bytes; "BAD" no opcode.
Opcodes == {"END", "ONE", "THREE", "JUMP", "BAD"}
Byte(op, to, src) == [op |-> op, to |-> to, src |-> src]
Erased == Byte("END", NoPlace, NoPlace)
Operand == Byte("BAD", NoPlace, NoPlace)
ErasedPage == [o \in Offsets |-> Erased]
Bytes == [op : Opcodes, to : Nat \X Nat, src : Nat \X Nat]

Size(op) == IF op = "JUMP" THEN 5 ELSE IF op = "THREE" THEN 3 ELSE 1

\* Pages whose CRC is not materialized use all their bytes.
Limit(s) == IF crc[s] THEN PageData ELSE SectorSize
InStore(a) == a[1] \in Addressable /\ a[2] \in 0 .. Limit(a[1]) - 1
At(a) == pages[a[1]][a[2]]

MemoryTypeOK ==
  /\ pages \in [Addressable -> [Offsets -> Bytes]]
  /\ crc \in [Addressable -> BOOLEAN]
=============================================================================
