------------------------------ MODULE PageRead ------------------------------
(***************************************************************************)
(* Reading the memory of the mouse page by page over one handle: read_page *)
(* and its three users.  read_all and setup_device give up at the first    *)
(* read that fails; probe_device goes on with what is left on the same     *)
(* handle.  Before the pages come calls of other functions, whose failures *)
(* are ignored.  A byte of the memory is named by its page and offset.     *)
(***************************************************************************)
EXTENDS HidChannel

CONSTANTS
  Chunk,     \* bytes of an answer
  Sizes,     \* sizes of a page a reader may ask for
  Oob,       \* the pages 1 to Oob are the factory copies a probe reads first
  Last,      \* and the pages up to Last the sectors
  MaxAsks    \* bound: calls of other functions before the pages

ASSUME ReadAssumption ==
  /\ Chunk \in Nat \ {0} /\ Oob \in Nat /\ Last \in Nat /\ Oob < Last
  /\ MaxAsks \in Nat
  /\ Sizes \subseteq {n \in Nat : n >= Chunk}

VARIABLES
  strict,    \* read_all or setup_device, not a probe
  size,      \* bytes of a page
  pc,        \* "ask", "asked", "page", "read", "done" or "refused"
  asks,      \* calls of other functions so far
  page,      \* the page being read
  offset,    \* where its next read begins
  tried,     \* the offsets already asked for
  data,      \* its bytes so far
  images,    \* the pages that were returned
  failed     \* the pages whose read failed

reader == <<strict, size, asks>>
vars == <<channel, strict, size, pc, asks, page, offset, tried, data, images, failed>>

NoByte == <<0, 0>>
Bytes == 0 .. size - 1
Blank == [o \in Bytes |-> NoByte]
Memory(p) == [o \in Bytes |-> <<p, o>>]

Init ==
  /\ ChannelInit
  /\ strict \in BOOLEAN /\ size \in Sizes
  /\ pc = "ask" /\ asks = 0
  /\ page = 1 /\ offset = 0 /\ tried = {} /\ data = Blank
  /\ images = [p \in {} |-> Blank] /\ failed = {}

(***************************************************************************)
(* The name, the protocol, the firmware, the active profile.               *)
(***************************************************************************)
Ask ==
  /\ pc = "ask" /\ asks < MaxAsks
  /\ Request(Report("other", NoByte))
  /\ pc' = "asked" /\ asks' = asks + 1
  /\ UNCHANGED <<strict, size, page, offset, tried, data, images, failed>>

Asked ==
  /\ pc = "asked" /\ (Take \/ Silence)
  /\ pc' = "ask"
  /\ UNCHANGED <<reader, page, offset, tried, data, images, failed>>

BeginPages ==
  /\ pc = "ask" /\ pc' = "page"
  /\ UNCHANGED <<channel, reader, page, offset, tried, data, images, failed>>

(***************************************************************************)
(* read_page.                                                              *)
(***************************************************************************)
\* The next page, or the end.
Proceed(next) ==
  /\ page' = next /\ offset' = 0 /\ tried' = {} /\ data' = Blank
  /\ pc' = IF next > Last THEN "done" ELSE "page"

ReturnPage(bytes) ==
  /\ images' = [p \in DOMAIN images \union {page} |-> IF p = page THEN bytes ELSE images[p]]
  /\ Proceed(page + 1) /\ UNCHANGED failed

\* (Mutant of FailPage: a probe tries the page once more.)
TryPageAgain ==
  /\ failed' = failed \union {page}
  /\ IF strict THEN pc' = "refused" /\ UNCHANGED <<page, offset, tried, data>>
     ELSE Proceed(page)
  /\ UNCHANGED images

\* A probe that fails in the factory copies goes on with the sectors.
FailPage ==
  /\ failed' = failed \union {page}
  /\ IF strict THEN pc' = "refused" /\ UNCHANGED <<page, offset, tried, data>>
     ELSE Proceed(IF page <= Oob THEN Oob + 1 ELSE page + 1)
  /\ UNCHANGED images

\* The last read begins early enough to be a whole one.
Position == IF size - offset < Chunk THEN size - Chunk ELSE offset

AskChunk ==
  /\ pc = "page"
  /\ IF Position \in tried THEN ReturnPage(data) /\ UNCHANGED channel
     ELSE /\ Request(Report("page", <<page, Position>>))
          /\ offset' = Position /\ tried' = tried \union {Position}
          /\ pc' = "read"
          /\ UNCHANGED <<page, data, images, failed>>
  /\ UNCHANGED reader

Filled(place) ==
  [o \in Bytes |-> IF o \in offset .. offset + Chunk - 1
                   THEN <<place[1], place[2] + (o - offset)>> ELSE data[o]]

Receive ==
  /\ pc = "read" /\ Take
  /\ IF ~Answers("page") THEN FailPage
     ELSE LET bytes == Filled(Head(inbox).place) IN
          IF offset + Chunk >= size THEN ReturnPage(bytes)
          ELSE /\ data' = bytes /\ offset' = offset + Chunk /\ pc' = "page"
               /\ UNCHANGED <<page, tried, images, failed>>
  /\ UNCHANGED reader

TimeOut == pc = "read" /\ Silence /\ FailPage /\ UNCHANGED reader

\* The library raises, before or after the request was written.
Raise ==
  /\ pc \in {"page", "read"} /\ FailPage
  /\ UNCHANGED <<channel, reader>>

Environment ==
  /\ pc \notin {"done", "refused"} /\ (Deliver \/ Notify)
  /\ UNCHANGED <<reader, pc, page, offset, tried, data, images, failed>>

Read == Ask \/ Asked \/ BeginPages \/ AskChunk \/ Receive \/ TimeOut \/ Raise
Next == Read \/ Environment

Spec == Init /\ [][Next]_vars
FairSpec == Spec /\ WF_vars(Read)

\* As long as no read of a page has failed on the handle, every page that a
\* reader returns is the page it asked for, whole and byte for byte, although
\* the answers do not say what they answer, may be late and are mixed with
\* other reports (device.py:241-277, LogiHPP20.py:168-190).  read_all and
\* setup_device stop at the first failure, so all their pages are true.
PagesAreTrue ==
  \A p \in DOMAIN images :
    images[p] = Memory(p) \/ (~strict /\ \E q \in failed : q < p)

\* A reader ends, whatever becomes of its calls (device.py:356-375, 439-492).
ReadingEnds == <>(pc \in {"done", "refused"})
=============================================================================
