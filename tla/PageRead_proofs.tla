--------------------------- MODULE PageRead_proofs ---------------------------
(***************************************************************************)
(* PagesAreTrue for every size of a page and of an answer, every number of *)
(* pages, and any number of other reports and calls.  The argument: until  *)
(* a read fails, at most one answer to a read of a page is in flight, and  *)
(* it answers the read the program waits for.                              *)
(***************************************************************************)
EXTENDS PageRead, TLAPS

USE ReadAssumption

Reports == [header : {"page", "other", "notice"}, place : Nat \X Nat]

\* No answer to a read of a page; at most one, which is r.
Clear(s) == \A i \in 1 .. Len(s) : s[i].header # "page"
OnlyOne(s, r) ==
  \A i \in 1 .. Len(s) : s[i].header = "page" =>
    s[i] = r /\ \A j \in 1 .. Len(s) : s[j].header = "page" => j = i

TypeInv ==
  /\ strict \in BOOLEAN /\ size \in Sizes
  /\ pc \in {"ask", "asked", "page", "read", "done", "refused"}
  /\ page \in Nat \ {0} /\ offset \in Nat /\ tried \subseteq Nat
  /\ wire \in Seq(Reports) /\ inbox \in Seq(Reports)
  /\ failed \subseteq Nat

\* Where the next read begins, and that no place is read twice.
CursorInv ==
  /\ pc \in {"ask", "asked"} => offset = 0 /\ tried = {}
  /\ pc \in {"page", "read"} => offset < size
  /\ pc = "page" => \A t \in tried : t + Chunk <= offset
  /\ pc = "read" => offset + Chunk <= size /\ \A t \in tried : t <= offset

\* After a failure a strict reader is at its end, and a probe behind it.
FailedInv ==
  /\ strict /\ failed # {} => pc = "refused"
  /\ pc # "refused" => \A q \in failed : q < page
  /\ pc \in {"ask", "asked"} => failed = {}

FlightInv ==
  failed = {} =>
    IF pc = "read"
    THEN /\ OnlyOne(wire, Report("page", <<page, offset>>))
         /\ OnlyOne(inbox, Report("page", <<page, offset>>))
         /\ Clear(wire) \/ Clear(inbox)
    ELSE Clear(wire) /\ Clear(inbox)

DataInv ==
  failed = {} /\ pc \in {"page", "read"} =>
    \A o \in Bytes : o < offset => data[o] = <<page, o>>

Inv ==
  TypeInv /\ CursorInv /\ FailedInv /\ FlightInv /\ DataInv /\ PagesAreTrue

-----------------------------------------------------------------------------
(* Reports in flight *)

\* A report that answers no read of a page changes nothing.
LEMMA AppendOther ==
  ASSUME NEW s \in Seq(Reports), NEW e \in Reports, e.header # "page", NEW r
  PROVE  /\ Append(s, e) \in Seq(Reports)
         /\ Clear(s) => Clear(Append(s, e))
         /\ OnlyOne(s, r) => OnlyOne(Append(s, e), r)
BY DEF Clear, OnlyOne

\* The first answer to a read is the only one.
LEMMA AppendFirst ==
  ASSUME NEW s \in Seq(Reports), NEW r \in Reports, Clear(s)
  PROVE  Append(s, r) \in Seq(Reports) /\ OnlyOne(Append(s, r), r) /\ OnlyOne(s, r)
BY DEF Clear, OnlyOne

\* What is left when the oldest report is taken.
LEMMA TakeOldest ==
  ASSUME NEW s \in Seq(Reports), s # <<>>, NEW r
  PROVE  /\ Tail(s) \in Seq(Reports) /\ Head(s) \in Reports
         /\ Clear(s) => Clear(Tail(s)) /\ Head(s).header # "page"
         /\ OnlyOne(s, r) => OnlyOne(Tail(s), r)
         /\ OnlyOne(s, r) /\ Head(s).header = "page" => Head(s) = r /\ Clear(Tail(s))
<1>1. /\ Tail(s) \in Seq(Reports) /\ Head(s) = s[1] /\ 1 \in 1 .. Len(s)
      /\ s[1] \in Reports
      /\ Len(Tail(s)) = Len(s) - 1 /\ Len(s) \in Nat \ {0}
      /\ \A i \in 1 .. Len(Tail(s)) : Tail(s)[i] = s[i + 1] /\ i + 1 \in 1 .. Len(s)
  OBVIOUS
<1>2. Clear(s) => Clear(Tail(s)) /\ Head(s).header # "page"
  BY <1>1 DEF Clear
<1>3. OnlyOne(s, r) => OnlyOne(Tail(s), r)
  <2> SUFFICES ASSUME OnlyOne(s, r), NEW i \in 1 .. Len(Tail(s)), Tail(s)[i].header = "page",
                      NEW j \in 1 .. Len(Tail(s)), Tail(s)[j].header = "page"
               PROVE  Tail(s)[i] = r /\ j = i
    BY DEF OnlyOne
  <2> QED
    BY <1>1 DEF OnlyOne
<1>4. OnlyOne(s, r) /\ Head(s).header = "page" => Head(s) = r /\ Clear(Tail(s))
  <2> SUFFICES ASSUME OnlyOne(s, r), s[1].header = "page"
               PROVE  s[1] = r /\ Clear(Tail(s))
    BY <1>1
  <2>1. \A i \in 1 .. Len(s) : s[i].header = "page" => i = 1
    BY <1>1 DEF OnlyOne
  <2> QED
    BY <1>1, <2>1 DEF OnlyOne, Clear
<1> QED
  BY <1>1, <1>2, <1>3, <1>4

-----------------------------------------------------------------------------
(* The steps *)

\* Sizes and the next place to read.
LEMMA Positions ==
  ASSUME TypeInv
  PROVE  /\ size \in Nat /\ size >= Chunk /\ Chunk > 0
         /\ Position \in Nat /\ Position + Chunk <= size
         /\ offset < size => Position <= offset
         /\ Report("page", <<page, Position>>) \in Reports
         /\ Report("other", NoByte) \in Reports /\ Notice \in Reports
BY DEF TypeInv, Position, Report, Reports, Notice, NoByte

\* The invariant holds at the start.
LEMMA InitInv == Init => Inv
BY DEF Init, ChannelInit, Inv, TypeInv, CursorInv, FailedInv, FlightInv, DataInv,
       PagesAreTrue, Clear

\* The variables keep their types.
LEMMA TypeStep ==
  ASSUME Inv, [Next]_vars
  PROVE  TypeInv'
<1> USE DEF TypeInv, reader, Inv
<1>1. CASE Ask \/ Asked \/ BeginPages
  <2>1. CASE Ask
    BY <2>1, Positions, AppendOther DEF Ask, Request, Report
  <2>2. CASE Asked
    BY <2>2, TakeOldest DEF Asked, Take, Silence, channel
  <2> QED
    BY <1>1, <2>1, <2>2 DEF BeginPages, channel
<1>2. CASE AskChunk
  <2>1. CASE Position \in tried
    BY <1>2, <2>1 DEF AskChunk, ReturnPage, Proceed, channel
  <2>2. CASE Position \notin tried
    <3> DEFINE new == Report("page", <<page, Position>>)
    <3>1. wire' = Append(wire, new) \/ wire' = wire
      BY <1>2, <2>2 DEF AskChunk, Request
    <3>2. new \in Reports
      BY Positions
    <3> HIDE DEF new
    <3>3. wire' \in Seq(Reports)
      BY <3>1, <3>2
    <3> QED
      BY <1>2, <2>2, <3>3, Positions DEF AskChunk, Request
  <2> QED
    BY <2>1, <2>2
<1>3. CASE Receive \/ TimeOut \/ Raise
  <2>1. FailPage => /\ page' \in Nat \ {0} /\ offset' \in Nat /\ tried' \subseteq Nat
                    /\ failed' \subseteq Nat
                    /\ pc' \in {"page", "done", "refused"}
    <3>1. CASE strict
      BY <3>1, Positions DEF FailPage
    <3>2. CASE ~strict
      BY <3>2, Positions DEF FailPage, Proceed
    <3> QED
      BY <3>1, <3>2
  <2>2. CASE Receive
    <3>1. wire' \in Seq(Reports) /\ inbox' \in Seq(Reports)
      BY <2>2, TakeOldest DEF Receive, Take
    <3> QED
      BY <2>1, <2>2, <3>1 DEF Receive, ReturnPage, Proceed
  <2> QED
    BY <1>3, <2>1, <2>2 DEF TimeOut, Raise, Silence, channel
<1>4. CASE Environment
  <2>1. Deliver => wire' \in Seq(Reports) /\ inbox' \in Seq(Reports)
    BY TakeOldest DEF Deliver
  <2>2. Notify => wire' \in Seq(Reports) /\ inbox' \in Seq(Reports)
    BY Positions DEF Notify
  <2> QED
    BY <1>4, <2>1, <2>2 DEF Environment
<1>5. CASE UNCHANGED vars
  BY <1>5 DEF vars, channel
<1> QED
  BY <1>1, <1>2, <1>3, <1>4, <1>5 DEF Next, Read

\* The reads of a page go forwards and end with it.
LEMMA CursorStep ==
  ASSUME Inv, [Next]_vars
  PROVE  CursorInv'
<1> USE DEF TypeInv, CursorInv, reader, Inv
<1>0. size' = size
  BY DEF Next, Read, Ask, Asked, BeginPages, AskChunk, Receive, TimeOut, Raise,
         Environment, vars
<1>1. CASE Ask \/ Asked
  BY <1>1 DEF Ask, Asked
<1>6. CASE BeginPages
  BY <1>0, <1>6, Positions DEF BeginPages
<1>2. CASE AskChunk
  <2>1. CASE Position \in tried
    BY <1>0, <1>2, <2>1, Positions DEF AskChunk, ReturnPage, Proceed
  <2>2. CASE Position \notin tried
    <3>1. /\ pc = "page" /\ pc' = "read" /\ offset' = Position
          /\ tried' = tried \union {Position}
      BY <1>2, <2>2 DEF AskChunk
    <3>2. \A t \in tried' : t <= offset'
      BY <3>1, Positions DEF Position
    <3> QED
      BY <1>0, <3>1, <3>2, Positions
  <2> QED
    BY <2>1, <2>2
<1>3. CASE Receive
  <2>1. CASE ~Answers("page")
    BY <1>0, <1>3, <2>1, Positions DEF Receive, FailPage, Proceed
  <2>2. CASE Answers("page") /\ offset + Chunk >= size
    BY <1>0, <1>3, <2>2, Positions DEF Receive, ReturnPage, Proceed
  <2>3. CASE Answers("page") /\ ~(offset + Chunk >= size)
    <3>1. /\ pc = "read" /\ pc' = "page" /\ offset' = offset + Chunk /\ tried' = tried
      BY <1>3, <2>3 DEF Receive
    <3>2. \A t \in tried' : t + Chunk <= offset'
      BY <3>1, Positions
    <3> QED
      BY <1>0, <2>3, <3>1, <3>2, Positions
  <2> QED
    BY <2>1, <2>2, <2>3
<1>4. CASE TimeOut \/ Raise
  BY <1>0, <1>4, Positions DEF TimeOut, Raise, FailPage, Proceed
<1>5. CASE Environment \/ UNCHANGED vars
  BY <1>5 DEF Environment, vars
<1> QED
  BY <1>1, <1>2, <1>3, <1>4, <1>5, <1>6 DEF Next, Read

\* A failure stops a strict reader and moves a probe on.
LEMMA FailedStep ==
  ASSUME Inv, [Next]_vars
  PROVE  FailedInv'
<1> USE DEF TypeInv, FailedInv, reader, Inv
<1>1. CASE Ask \/ Asked \/ BeginPages
  BY <1>1 DEF Ask, Asked, BeginPages
<1>2. CASE AskChunk
  BY <1>2 DEF AskChunk, ReturnPage, Proceed
<1>3. CASE Receive \/ TimeOut \/ Raise
  BY <1>3 DEF Receive, TimeOut, Raise, ReturnPage, FailPage, Proceed
<1>4. CASE Environment
  BY <1>4 DEF Environment
<1>5. CASE UNCHANGED vars
  BY <1>5 DEF vars
<1> QED
  BY <1>1, <1>2, <1>3, <1>4, <1>5 DEF Next, Read

\* Until a read fails, what is in flight answers the read that waits.
LEMMA FlightStep ==
  ASSUME Inv, [Next]_vars
  PROVE  FlightInv'
<1> SUFFICES ASSUME failed' = {} PROVE FlightInv'
  BY DEF FlightInv
<1> USE DEF TypeInv, FlightInv, reader, Inv
<1> DEFINE Current == Report("page", <<page, offset>>)
<1>1. CASE Ask
  <2>1. UNCHANGED failed /\ pc = "ask" /\ pc' = "asked"
    BY <1>1 DEF Ask
  <2> QED
    BY <1>1, <2>1, Positions, AppendOther DEF Ask, Request, Report
<1>2. CASE Asked
  <2>1. UNCHANGED <<failed, wire>> /\ pc = "asked" /\ pc' = "ask"
    BY <1>2 DEF Asked, Take, Silence, channel
  <2> QED
    BY <1>2, <2>1, TakeOldest DEF Asked, Take, Silence, channel
<1>3. CASE BeginPages
  BY <1>3 DEF BeginPages, channel
<1>4. CASE AskChunk
  <2>1. UNCHANGED failed /\ pc = "page" /\ Clear(wire) /\ Clear(inbox)
    BY <1>4 DEF AskChunk, ReturnPage
  <2>2. CASE Position \in tried
    BY <1>4, <2>1, <2>2 DEF AskChunk, ReturnPage, Proceed, channel
  <2>3. CASE Position \notin tried
    <3> DEFINE new == Report("page", <<page, Position>>)
    <3>1. /\ pc' = "read" /\ offset' = Position /\ page' = page /\ inbox' = inbox
          /\ wire' = Append(wire, new) \/ wire' = wire
      BY <1>4, <2>3 DEF AskChunk, Request
    <3>2. /\ OnlyOne(wire, new) /\ OnlyOne(inbox, new)
          /\ OnlyOne(Append(wire, new), new)
      BY <2>1, Positions, AppendFirst
    <3> QED
      BY <2>1, <3>1, <3>2
  <2> QED
    BY <2>2, <2>3
<1>5. CASE Receive
  <2>1. /\ pc = "read" /\ failed = {} /\ wire' = wire /\ inbox # <<>>
        /\ inbox' = Tail(inbox) /\ Answers("page")
    BY <1>5 DEF Receive, Take, FailPage, ReturnPage
  <2>2. Clear(wire') /\ Clear(inbox')
    BY <2>1, TakeOldest DEF Answers
  <2>3. pc' # "read"
    BY <1>5, <2>1 DEF Receive, ReturnPage, Proceed
  <2> QED
    BY <2>2, <2>3
<1>6. CASE TimeOut \/ Raise
  BY <1>6 DEF TimeOut, Raise, FailPage
<1>7. CASE Environment
  <2>1. UNCHANGED <<failed, pc, page, offset>>
    BY <1>7 DEF Environment
  <2>2. CASE Deliver
    <3> DEFINE h == Head(wire)
    <3>1. wire # <<>> /\ wire' = Tail(wire) /\ inbox' = Append(inbox, h) /\ h \in Reports
      BY <2>2, TakeOldest DEF Deliver
    <3>2. CASE h.header # "page"
      <4>1. /\ Clear(wire) => Clear(wire')
            /\ Clear(inbox) => Clear(inbox')
            /\ OnlyOne(wire, Current) => OnlyOne(wire', Current)
            /\ OnlyOne(inbox, Current) => OnlyOne(inbox', Current)
        BY <3>1, <3>2, TakeOldest, AppendOther
      <4> QED
        BY <2>1, <4>1
    <3>3. CASE h.header = "page"
      <4>1. pc = "read" /\ ~Clear(wire) /\ OnlyOne(wire, Current) /\ Clear(inbox)
        BY <2>1, <3>1, <3>3, TakeOldest
      <4>2. h = Current /\ Clear(wire')
        BY <3>1, <3>3, <4>1, TakeOldest
      <4>3. OnlyOne(inbox', Current)
        BY <3>1, <4>1, <4>2, AppendFirst
      <4>4. OnlyOne(wire', Current)
        BY <4>2 DEF Clear, OnlyOne
      <4> QED
        BY <2>1, <4>1, <4>2, <4>3, <4>4
    <3> QED
      BY <3>2, <3>3
  <2>3. CASE Notify
    <3>1. /\ Clear(inbox) => Clear(inbox')
          /\ OnlyOne(inbox, Current) => OnlyOne(inbox', Current)
      BY <2>3, Positions, AppendOther DEF Notify, Notice, Report
    <3> QED
      BY <2>1, <2>3, <3>1 DEF Notify
  <2> QED
    BY <1>7, <2>2, <2>3 DEF Environment
<1>8. CASE UNCHANGED vars
  BY <1>8 DEF vars, channel
<1> QED
  BY <1>1, <1>2, <1>3, <1>4, <1>5, <1>6, <1>7, <1>8 DEF Next, Read

-----------------------------------------------------------------------------
(* What is read *)

\* The answer that is taken is the one of the read, and completes the page up
\* to its end.
LEMMA ReceiveTrue ==
  ASSUME Inv, Receive, failed = {}, Answers("page")
  PROVE  \A o \in Bytes : o < offset + Chunk =>
           Filled(Head(inbox).place)[o] = <<page, o>>
<1>1. Head(inbox) = Report("page", <<page, offset>>)
  BY TakeOldest DEF Receive, Take, Answers, Inv, FlightInv, TypeInv
<1>2. Head(inbox).place = <<page, offset>>
  BY <1>1 DEF Report
<1> QED
  BY <1>2, Positions DEF Filled, Bytes, Inv, DataInv, TypeInv, Receive

\* Bytes that have been read stay as they are.
LEMMA DataStep ==
  ASSUME Inv, [Next]_vars
  PROVE  DataInv'
<1> SUFFICES ASSUME failed' = {}, pc' \in {"page", "read"},
                    NEW o \in Bytes', o < offset'
             PROVE  data'[o] = <<page', o>>
  BY DEF DataInv
<1> USE DEF TypeInv, reader, Inv, DataInv
<1>0. size' = size /\ Bytes' = Bytes /\ failed = {}
  BY DEF Next, Read, Ask, Asked, BeginPages, AskChunk, Receive, TimeOut, Raise,
         ReturnPage, FailPage, Environment, vars, Bytes
<1>1. CASE Ask \/ Asked \/ BeginPages
  BY <1>0, <1>1 DEF Ask, Asked, BeginPages, CursorInv, Bytes
<1>2. CASE AskChunk
  <2>1. CASE Position \in tried
    BY <1>0, <1>2, <2>1 DEF AskChunk, ReturnPage, Proceed, Bytes
  <2>2. CASE Position \notin tried
    <3>1. /\ pc = "page" /\ data' = data /\ page' = page /\ offset' = Position
          /\ Position <= offset
      BY <1>2, <2>2, Positions DEF AskChunk, CursorInv
    <3>2. o \in Bytes /\ o < offset
      BY <1>0, <3>1, Positions DEF Bytes
    <3> QED
      BY <1>0, <3>1, <3>2
  <2> QED
    BY <2>1, <2>2
<1>3. CASE Receive
  <2>1. Answers("page")
    BY <1>0, <1>3 DEF Receive, FailPage
  <2>2. CASE offset + Chunk >= size
    BY <1>0, <1>3, <2>1, <2>2 DEF Receive, ReturnPage, Proceed, Bytes
  <2>3. CASE ~(offset + Chunk >= size)
    <3>1. /\ data' = Filled(Head(inbox).place) /\ offset' = offset + Chunk
          /\ page' = page
      BY <1>3, <2>1, <2>3 DEF Receive
    <3> QED
      BY <1>0, <1>3, <2>1, <3>1, ReceiveTrue
  <2> QED
    BY <2>2, <2>3
<1>4. CASE TimeOut \/ Raise
  BY <1>4 DEF TimeOut, Raise, FailPage
<1>5. CASE Environment \/ UNCHANGED vars
  BY <1>0, <1>5 DEF Environment, vars
<1> QED
  BY <1>1, <1>2, <1>3, <1>4, <1>5 DEF Next, Read

\* A page that is returned before any failure is true.
LEMMA ReturnTrue ==
  ASSUME Inv, NEW bytes, ReturnPage(bytes), size' = size, strict' = strict,
         pc # "refused", failed = {} => bytes = Memory(page)
  PROVE  PagesAreTrue'
<1> SUFFICES ASSUME NEW p \in DOMAIN images', images'[p] # Memory(p)'
             PROVE  ~strict /\ \E q \in failed : q < p
  BY DEF PagesAreTrue, ReturnPage
<1>1. Memory(p)' = Memory(p)
  BY DEF Memory, Bytes
<1>2. /\ p \in DOMAIN images \union {page}
      /\ images'[p] = IF p = page THEN bytes ELSE images[p]
  BY DEF ReturnPage
<1>3. CASE p = page
  <2>1. failed # {}
    BY <1>1, <1>2, <1>3
  <2>2. ~strict /\ \A q \in failed : q < page
    BY <2>1 DEF Inv, FailedInv
  <2> QED
    BY <1>3, <2>1, <2>2
<1>4. CASE p # page
  BY <1>1, <1>2, <1>4 DEF Inv, PagesAreTrue
<1> QED
  BY <1>3, <1>4

\* Every page stays true.
LEMMA TrueStep ==
  ASSUME Inv, [Next]_vars
  PROVE  PagesAreTrue'
<1> USE DEF reader
<1>1. size' = size /\ strict' = strict
  BY DEF Next, Read, Ask, Asked, BeginPages, AskChunk, Receive, TimeOut, Raise,
         Environment, vars
<1>2. Memory(page)' = [o \in Bytes |-> <<page', o>>] /\ \A p : Memory(p)' = Memory(p)
  BY <1>1 DEF Memory, Bytes
<1>3. CASE UNCHANGED images
  <2>1. failed \subseteq failed'
    BY DEF Next, Read, Ask, Asked, BeginPages, AskChunk, Receive, TimeOut, Raise,
           ReturnPage, FailPage, Environment, vars
  <2> QED
    BY <1>1, <1>2, <1>3, <2>1 DEF Inv, PagesAreTrue
<1>4. CASE AskChunk
  <2>1. CASE Position \in tried
    \* No place is read twice, so this is never the way out.
    <3>1. pc = "page" /\ \A t \in tried : t + Chunk <= offset
      BY <1>4 DEF AskChunk, Inv, CursorInv
    <3>2. Position + Chunk <= offset /\ offset < size
      BY <2>1, <3>1 DEF Inv, CursorInv
    <3> QED
      BY <3>2, Positions DEF Position, Inv, TypeInv
  <2>2. CASE Position \notin tried
    BY <1>3, <1>4, <2>2 DEF AskChunk
  <2> QED
    BY <2>1, <2>2
<1>5. CASE Receive
  <2>1. CASE Answers("page") /\ offset + Chunk >= size
    <3> DEFINE bytes == Filled(Head(inbox).place)
    <3>1. ReturnPage(bytes) /\ pc = "read"
      BY <1>5, <2>1 DEF Receive
    <3>2. failed = {} => bytes = Memory(page)
      <4> SUFFICES ASSUME failed = {} PROVE bytes = Memory(page)
        OBVIOUS
      <4>1. \A o \in Bytes : bytes[o] = <<page, o>>
        BY <1>5, <2>1, ReceiveTrue, Positions DEF Bytes, Inv, TypeInv
      <4>2. bytes = [o \in Bytes |-> bytes[o]]
        BY DEF Filled
      <4> QED
        BY <4>1, <4>2 DEF Memory
    <3> QED
      BY <1>1, <3>1, <3>2, ReturnTrue
  <2>2. CASE ~(Answers("page") /\ offset + Chunk >= size)
    BY <1>3, <1>5, <2>2 DEF Receive, FailPage
  <2> QED
    BY <2>1, <2>2
<1>6. CASE Ask \/ Asked \/ BeginPages \/ TimeOut \/ Raise \/ Environment \/ UNCHANGED vars
  BY <1>3, <1>6 DEF Ask, Asked, BeginPages, TimeOut, Raise, FailPage, Environment, vars
<1> QED
  BY <1>4, <1>5, <1>6 DEF Next, Read

-----------------------------------------------------------------------------
(* The theorem *)

\* Every page a reader returns before a read has failed on its handle is the
\* page it asked for, and a reader that stops at a failure returns no other.
THEOREM ReadersAreTrue == Spec => []PagesAreTrue
<1>1. Inv /\ [Next]_vars => Inv'
  BY TypeStep, CursorStep, FailedStep, FlightStep, DataStep, TrueStep DEF Inv
<1>2. Inv => PagesAreTrue
  BY DEF Inv
<1> QED
  BY <1>1, <1>2, InitInv, PTL DEF Spec
-----------------------------------------------------------------------------
(* A reader makes a bounded number of steps *)

\* Those of a page that is read from its beginning, two for every byte at most:
\* a request and its answer, however few bytes further the next read begins.
PageLength == 2 * (size - Chunk) + 2

\* Bytes before the place of the last read of the page.
BytesLeft == IF offset < size - Chunk THEN size - Chunk - offset ELSE 0

\* Steps that do not depend on the pages, by place.
Places == [ask |-> 1, asked |-> 2, page |-> 2, read |-> 1]

AsksLeft == MaxAsks - asks
PagesLeft == (Last - page) * PageLength

StepsLeft ==
  IF pc \in {"done", "refused"} THEN 0
  ELSE IF pc \in {"page", "read"} THEN PagesLeft + 2 * BytesLeft + Places[pc]
  ELSE Last * PageLength + 2 * AsksLeft + Places[pc]

StepsBounded ==
  /\ StepsLeft \in 0 .. Last * PageLength + 2 * MaxAsks + 1
  /\ StepsLeft = 0 <=> pc \in {"done", "refused"}

StepsFall ==
  [][(Read => StepsLeft' < StepsLeft) /\ (Environment => StepsLeft' = StepsLeft)]_vars

\* The pages are counted, and so are the calls before them.
CountInv ==
  /\ pc \in {"ask", "asked", "page", "read"} => page <= Last
  /\ pc \in {"ask", "asked"} => page = 1
  /\ asks \in Nat /\ asks <= MaxAsks /\ (pc = "asked" => asks > 0)

\* A reader leaves the pages behind it and does not come back.
LEMMA CountStep ==
  ASSUME TypeInv, CountInv, [Next]_vars
  PROVE  CountInv'
<1> USE DEF TypeInv, CountInv, reader
<1>1. CASE Ask \/ Asked \/ BeginPages
  BY <1>1 DEF Ask, Asked, BeginPages
<1>2. CASE AskChunk
  BY <1>2 DEF AskChunk, ReturnPage, Proceed
<1>3. CASE Receive \/ TimeOut \/ Raise
  BY <1>3 DEF Receive, TimeOut, Raise, ReturnPage, FailPage, Proceed
<1>4. CASE Environment \/ UNCHANGED vars
  BY <1>4 DEF Environment, vars
<1> QED
  BY <1>1, <1>2, <1>3, <1>4 DEF Next, Read

\* Pages that are left make a natural number of steps, and a page less makes
\* PageLength of them less.
LEMMA Pages ==
  ASSUME NEW k \in Nat, NEW p \in 1 .. Last
  PROVE  /\ Last * k \in Nat /\ (Last - p) * k \in Nat
         /\ (Last - p) * k + k <= Last * k
         /\ p = 1 => (Last - p) * k + k = Last * k
         /\ \A q \in p + 1 .. Last : (Last - q) * k + k <= (Last - p) * k
<1>1. \A m \in Nat : m * k \in Nat /\ (m + 1) * k = (m * k) + k
  OBVIOUS
<1>2. \A m, n \in Nat : m <= n => m * k <= n * k
  <2> SUFFICES ASSUME NEW m \in Nat, NEW n \in Nat, m <= n PROVE m * k <= n * k
    OBVIOUS
  <2>1. PICK d \in Nat : n = m + d
    OBVIOUS
  <2>2. n * k = (m * k) + (d * k) /\ d * k \in Nat /\ m * k \in Nat
    BY <2>1
  <2> QED
    BY <2>2
<1>3. (Last - p) * k + k <= Last * k /\ (p = 1 => (Last - p) * k + k = Last * k)
  <2>1. PICK m \in Nat : m = Last - p
    OBVIOUS
  <2>2. m + 1 <= Last /\ (p = 1 => m + 1 = Last) /\ (m + 1) \in Nat
    BY <2>1
  <2>3. (m + 1) * k <= Last * k
    BY <1>2, <2>2
  <2> QED
    BY <1>1, <2>1, <2>2, <2>3
<1>4. ASSUME NEW q \in p + 1 .. Last PROVE (Last - q) * k + k <= (Last - p) * k
  <2>1. PICK m \in Nat, n \in Nat : m = Last - q /\ n = Last - p
    OBVIOUS
  <2>2. m + 1 <= n /\ (m + 1) \in Nat
    BY <2>1
  <2>3. (m + 1) * k <= n * k
    BY <1>2, <2>2
  <2> QED
    BY <1>1, <2>1, <2>3
<1>5. Last * k \in Nat /\ (Last - p) * k \in Nat
  <2>1. PICK m \in Nat : m = Last - p
    OBVIOUS
  <2> QED
    BY <1>1, <2>1
<1> QED
  BY <1>3, <1>4, <1>5

\* The parts of the measure are natural numbers.
LEMMA Parts ==
  ASSUME TypeInv, CountInv
  PROVE  /\ PageLength \in Nat /\ PageLength >= 2
         /\ BytesLeft \in Nat /\ 2 * BytesLeft + 2 <= PageLength
         /\ AsksLeft \in Nat /\ AsksLeft <= MaxAsks
BY Positions DEF PageLength, BytesLeft, AsksLeft, CountInv, TypeInv

\* The measure is a natural number, and zero when the reader has ended.
LEMMA LeftBounded == TypeInv /\ CountInv => StepsBounded
<1> SUFFICES ASSUME TypeInv, CountInv PROVE StepsBounded
  OBVIOUS
<1>1. PICK k \in Nat : k = PageLength /\ k >= 2
  BY Parts
<1>2. PICK all \in Nat : all = Last * k
  BY <1>1
<1>3. PICK b \in Nat, a \in Nat : b = BytesLeft /\ 2 * b + 2 <= k /\ a = AsksLeft /\ a <= MaxAsks
  BY <1>1, Parts
<1>4. CASE pc \in {"done", "refused"}
  BY <1>1, <1>2, <1>4 DEF StepsLeft, StepsBounded
<1>5. CASE pc \in {"page", "read"}
  <2>1. page \in 1 .. Last
    BY <1>5 DEF TypeInv, CountInv
  <2>2. PICK r \in Nat : r = (Last - page) * k /\ r + k <= all
    BY <1>2, <2>1, Pages
  <2>3. StepsLeft = r + 2 * b + Places[pc] /\ Places[pc] \in 1 .. 2
    BY <1>1, <1>3, <1>5, <2>2 DEF StepsLeft, PagesLeft, Places
  <2> QED
    BY <1>1, <1>2, <1>3, <1>5, <2>2, <2>3 DEF StepsBounded
<1>6. CASE pc \in {"ask", "asked"}
  <2>1. StepsLeft = all + 2 * a + Places[pc]
    BY <1>1, <1>2, <1>3, <1>6 DEF StepsLeft
  <2>2. pc = "asked" => Places[pc] = 2 /\ a < MaxAsks
    BY <1>3, <1>6 DEF Places, AsksLeft, CountInv
  <2> QED
    BY <1>1, <1>2, <1>3, <1>6, <2>1, <2>2 DEF StepsBounded, Places
<1> QED
  BY <1>4, <1>5, <1>6 DEF TypeInv

\* Where a step of the reader leads.
LEMMA Moves ==
  ASSUME Inv, CountInv, Read
  PROVE  /\ size' = size
         /\ \/ pc = "ask" /\ pc' = "asked" /\ asks' = asks + 1
            \/ pc = "asked" /\ pc' = "ask" /\ asks' = asks
            \/ pc = "ask" /\ pc' = "page" /\ page' = page
            \/ /\ pc \in {"page", "read"}
               /\ pc' = "page" /\ page' > page /\ page' \in Nat /\ page' <= Last
               /\ offset' = 0
            \/ pc \in {"page", "read"} /\ pc' \in {"done", "refused"}
            \/ pc = "page" /\ pc' = "read" /\ page' = page /\ offset' = Position
            \/ /\ pc = "read" /\ pc' = "page" /\ page' = page
               /\ offset' = offset + Chunk /\ offset + Chunk < size
<1> USE DEF reader
<1>1. CASE Ask \/ Asked \/ BeginPages
  BY <1>1 DEF Ask, Asked, BeginPages
<1>2. CASE AskChunk
  <2>1. CASE Position \in tried
    BY <1>2, <2>1 DEF AskChunk, ReturnPage, Proceed, Inv, TypeInv, CountInv
  <2>2. CASE Position \notin tried
    BY <1>2, <2>2 DEF AskChunk
  <2> QED
    BY <2>1, <2>2
<1>3. CASE Receive
  <2>1. CASE ~Answers("page")
    BY <1>3, <2>1 DEF Receive, FailPage, Proceed, Inv, TypeInv, CountInv
  <2>2. CASE Answers("page") /\ offset + Chunk >= size
    BY <1>3, <2>2 DEF Receive, ReturnPage, Proceed, Inv, TypeInv, CountInv
  <2>3. CASE Answers("page") /\ ~(offset + Chunk >= size)
    BY <1>3, <2>3, Positions DEF Receive, Inv, TypeInv
  <2> QED
    BY <2>1, <2>2, <2>3
<1>4. CASE TimeOut \/ Raise
  BY <1>4 DEF TimeOut, Raise, FailPage, Proceed, Inv, TypeInv, CountInv
<1> QED
  BY <1>1, <1>2, <1>3, <1>4 DEF Read

\* The same of the next state, and the size of a page stays.
LEMMA NextParts ==
  ASSUME Inv, CountInv, Inv', CountInv', Read
  PROVE  /\ PageLength' = PageLength
         /\ BytesLeft' \in Nat /\ 2 * BytesLeft' + 2 <= PageLength
         /\ AsksLeft' \in Nat /\ PagesLeft \in Int /\ PagesLeft' \in Int
<1>1. size' = size /\ size \in Nat /\ size >= Chunk /\ Chunk \in Nat
  BY Moves, Positions DEF Inv
<1>2. offset' \in Nat /\ asks' \in Nat /\ asks' <= MaxAsks /\ page \in Nat /\ page' \in Nat
  BY DEF Inv, TypeInv, CountInv
<1>3. PICK k \in Nat : k = PageLength /\ k = PageLength'
  BY <1>1 DEF PageLength
<1>4. (Last - page) * k \in Int /\ (Last - page') * k \in Int
  BY <1>2
<1>5. PagesLeft \in Int /\ PagesLeft' \in Int
  BY <1>3, <1>4 DEF PagesLeft
<1>6. BytesLeft' \in Nat /\ 2 * BytesLeft' + 2 <= PageLength
  <2>1. PICK n \in Nat, o \in Nat : n = size /\ n = size' /\ o = offset' /\ n >= Chunk
    BY <1>1, <1>2
  <2>2. BytesLeft' = IF o < n - Chunk THEN n - Chunk - o ELSE 0
    BY <2>1 DEF BytesLeft
  <2>3. PageLength = 2 * (n - Chunk) + 2
    BY <2>1 DEF PageLength
  <2>4. PICK b \in Nat :
          b = (IF o < n - Chunk THEN n - Chunk - o ELSE 0) /\ b <= n - Chunk
    <3>1. n >= Chunk
      BY <2>1
    <3>2. CASE o < n - Chunk
      <4>1. PICK b \in Nat : b = n - Chunk - o
        BY <3>1, <3>2
      <4> QED
        BY <3>2, <4>1
    <3>3. CASE ~(o < n - Chunk)
      BY <3>1, <3>3
    <3> QED
      BY <3>2, <3>3
  <2>5. b = BytesLeft'
    BY <2>2, <2>4
  <2>6. 2 * b + 2 <= 2 * (n - Chunk) + 2
    BY <2>4
  <2> QED
    BY <2>3, <2>5, <2>6
<1>7. AsksLeft' \in Nat
  <2>1. PICK n \in Nat : n = asks' /\ n <= MaxAsks
    BY <1>2
  <2>2. AsksLeft' = MaxAsks - n
    BY <2>1 DEF AsksLeft
  <2>3. n <= MaxAsks
    BY <2>1
  <2>4. MaxAsks - n \in Nat
    BY <2>3
  <2> QED
    BY <2>2, <2>4
<1> QED
  BY <1>3, <1>5, <1>6, <1>7

\* The pages behind a step of the reader.
LEMMA PagesFall ==
  ASSUME Inv, CountInv, Inv', CountInv', Read
  PROVE  /\ pc \in {"page", "read"} => PagesLeft \in Nat
         /\ page' = page => PagesLeft' = PagesLeft
         /\ pc \in {"ask", "asked"} => PagesLeft + PageLength = Last * PageLength
         /\ pc \in {"page", "read"} /\ page' > page /\ page' <= Last =>
              PagesLeft' + PageLength <= PagesLeft
<1>1. PICK k \in Nat : k = PageLength /\ k = PageLength'
  BY Parts, NextParts DEF Inv
<1>2. PagesLeft = (Last - page) * k /\ PagesLeft' = (Last - page') * k
  BY <1>1 DEF PagesLeft
<1>3. page \in Nat \ {0} /\ page' \in Nat
  BY DEF Inv, TypeInv
<1>4. pc \in {"ask", "asked", "page", "read"} => page \in 1 .. Last
  BY <1>3 DEF CountInv
<1>5. page' > page /\ page' <= Last => page' \in page + 1 .. Last
  BY <1>3
<1>6. pc \in {"page", "read"} => (Last - page) * k \in Nat
  BY <1>4, Pages
<1>7. pc \in {"ask", "asked"} => (Last - page) * k + k = Last * k
  BY <1>4, Pages DEF CountInv
<1>8. pc \in {"page", "read"} /\ page' > page /\ page' <= Last =>
        (Last - page') * k + k <= (Last - page) * k
  BY <1>4, <1>5, Pages
<1>9. page' = page => PagesLeft' = PagesLeft
  BY <1>2
<1> QED
  BY <1>1, <1>2, <1>6, <1>7, <1>8, <1>9

\* The bytes before a step of the reader.
LEMMA BytesFall ==
  ASSUME Inv, CountInv, Read
  PROVE  /\ pc = "page" /\ offset' = Position => BytesLeft' = BytesLeft
         /\ /\ pc = "read" /\ offset' = offset + Chunk /\ offset + Chunk < size
            => BytesLeft' < BytesLeft
<1>1. /\ size' = size /\ size \in Nat /\ size >= Chunk /\ Chunk \in Nat /\ Chunk > 0
      /\ offset \in Nat
      /\ pc \in {"page", "read"} => offset < size
      /\ pc = "read" => offset + Chunk <= size
  BY Moves, Positions DEF Inv, TypeInv, CursorInv
<1>2. pc = "page" /\ offset' = Position => BytesLeft' = BytesLeft
  BY <1>1 DEF BytesLeft, Position
<1>3. pc = "read" /\ offset' = offset + Chunk /\ offset + Chunk < size
        => BytesLeft' < BytesLeft
  BY <1>1 DEF BytesLeft
<1> QED
  BY <1>2, <1>3

\* Each step of the reader lowers the measure.
LEMMA StepLowers ==
  ASSUME Inv, CountInv, Inv', CountInv', Read
  PROVE  StepsLeft' < StepsLeft
<1>1. PICK k \in Nat : k = PageLength /\ k = PageLength' /\ k >= 2
  BY Parts, NextParts DEF Inv
<1>2. PICK all \in Int : all = Last * PageLength /\ all = Last * PageLength'
  <2>1. Last * k \in Int
    OBVIOUS
  <2> QED
    BY <1>1, <2>1
<1>3. PICK b \in Nat, a \in Nat :
        b = BytesLeft /\ 2 * b + 2 <= k /\ a = AsksLeft /\ a <= MaxAsks
  BY <1>1, Parts DEF Inv
<1>4. PICK w \in Nat, v \in Nat : w = BytesLeft' /\ 2 * w + 2 <= k /\ v = AsksLeft'
  BY <1>1, NextParts
<1>5. PICK r \in Int, t \in Int : r = PagesLeft /\ t = PagesLeft'
  BY NextParts
<1>6. /\ pc \in {"page", "read"} => r \in Nat
      /\ page' = page => t = r
      /\ pc \in {"ask", "asked"} => r + k = all
      /\ pc \in {"page", "read"} /\ page' > page /\ page' <= Last => t + k <= r
  BY <1>1, <1>2, <1>5, PagesFall
<1>7. /\ pc = "ask" => StepsLeft = all + 2 * a + 1
      /\ pc = "asked" => StepsLeft = all + 2 * a + 2
      /\ pc = "page" => StepsLeft = r + 2 * b + 2
      /\ pc = "read" => StepsLeft = r + 2 * b + 1
  BY <1>2, <1>3, <1>5 DEF StepsLeft, Places
<1>8. /\ pc' = "ask" => StepsLeft' = all + 2 * v + 1
      /\ pc' = "asked" => StepsLeft' = all + 2 * v + 2
      /\ pc' = "page" => StepsLeft' = t + 2 * w + 2
      /\ pc' = "read" => StepsLeft' = t + 2 * w + 1
      /\ pc' \in {"done", "refused"} => StepsLeft' = 0
  BY <1>2, <1>4, <1>5 DEF StepsLeft, Places
<1>9. CASE pc = "ask" /\ pc' = "asked" /\ asks' = asks + 1
  <2>1. v = a - 1
    BY <1>3, <1>4, <1>9 DEF AsksLeft, CountInv
  <2> QED
    BY <1>7, <1>8, <1>9, <2>1
<1>10. CASE pc = "asked" /\ pc' = "ask" /\ asks' = asks
  <2>1. v = a
    BY <1>3, <1>4, <1>10 DEF AsksLeft
  <2> QED
    BY <1>7, <1>8, <1>10, <2>1
<1>11. CASE pc = "ask" /\ pc' = "page" /\ page' = page
  <2>1. StepsLeft = all + 2 * a + 1 /\ StepsLeft' = t + 2 * w + 2 
    BY <1>7, <1>8, <1>11
  <2>2. t + k = all /\ 2 * w + 2 <= k
    BY <1>4, <1>6, <1>11
  <2>3. t + 2 * w + 2 < all + 2 * a + 1
    BY <2>2
  <2> QED
    BY <2>1, <2>3
<1>12. CASE /\ pc \in {"page", "read"}
            /\ pc' = "page" /\ page' > page /\ page' \in Nat /\ page' <= Last
            /\ offset' = 0
  <2>1. /\ StepsLeft = r + 2 * b + 2 \/ StepsLeft = r + 2 * b + 1
        /\ StepsLeft' = t + 2 * w + 2
    BY <1>7, <1>8, <1>12
  <2>2. t + k <= r /\ 2 * w + 2 <= k
    BY <1>4, <1>6, <1>12
  <2>3. t + 2 * w + 2 < r + 2 * b + 1
    BY <2>2
  <2> QED
    BY <2>1, <2>3
<1>13. CASE pc \in {"page", "read"} /\ pc' \in {"done", "refused"}
  BY <1>6, <1>7, <1>8, <1>13
<1>14. CASE pc = "page" /\ pc' = "read" /\ page' = page /\ offset' = Position
  <2>1. w = b
    BY <1>3, <1>4, <1>14, BytesFall
  <2> QED
    BY <1>6, <1>7, <1>8, <1>14, <2>1
<1>15. CASE /\ pc = "read" /\ pc' = "page" /\ page' = page
            /\ offset' = offset + Chunk /\ offset + Chunk < size
  <2>1. w < b
    BY <1>3, <1>4, <1>15, BytesFall
  <2> QED
    BY <1>6, <1>7, <1>8, <1>15, <2>1
<1> QED
  BY <1>9, <1>10, <1>11, <1>12, <1>13, <1>14, <1>15, Moves

\* A reader makes at most as many steps as two for each byte of its pages and two
\* for each call before them: whatever becomes of a call, every step of read_page
\* and of its users brings the reader nearer to its end, and no report that is
\* delivered or that the mouse sends of its own accord takes it back.
THEOREM ReadingIsBounded == Spec => []StepsBounded /\ StepsFall
<1>1. Inv /\ [Next]_vars => Inv'
  BY TypeStep, CursorStep, FailedStep, FlightStep, DataStep, TrueStep DEF Inv
<1>2. Init => CountInv
  BY DEF Init, CountInv
<1>3. Inv /\ CountInv /\ [Next]_vars => CountInv'
  BY CountStep DEF Inv
<1>4. Inv /\ CountInv => StepsBounded
  BY LeftBounded DEF Inv
<1>5. Inv /\ CountInv /\ Inv' /\ CountInv' =>
        [ (Read => StepsLeft' < StepsLeft)
          /\ (Environment => StepsLeft' = StepsLeft)]_vars
  <2>1. Environment => StepsLeft' = StepsLeft
    BY DEF Environment, reader, StepsLeft, PagesLeft, PageLength, BytesLeft, AsksLeft, Places
  <2> QED
    BY <2>1, StepLowers
<1> QED
  BY <1>1, <1>2, <1>3, <1>4, <1>5, InitInv, PTL DEF Spec, StepsFall
=============================================================================
