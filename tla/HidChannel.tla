----------------------------- MODULE HidChannel -----------------------------
(***************************************************************************)
(* One handle of the HID++ library.  A call writes its request and reads   *)
(* the oldest report of the handle, whichever it is: a report with the     *)
(* header of the call is its answer, any other is dropped and the call has *)
(* none.  A header names the function that was called and not its          *)
(* arguments, so all reads of a page have the same one.                    *)
(***************************************************************************)
EXTENDS Integers, Sequences

CONSTANT MaxNotices   \* bound: reports the mouse sends of its own accord

VARIABLES
  wire,      \* answers on their way from the mouse
  inbox,     \* reports the handle has received and nobody has read
  notices    \* reports sent unasked so far

channel == <<wire, inbox, notices>>

\* What was read where; the body of the other answers is left out.
Report(header, place) == [header |-> header, place |-> place]
Notice == Report("notice", <<0, 0>>)

ChannelInit == wire = <<>> /\ inbox = <<>> /\ notices = 0

\* The request is lost, or the mouse answers it, at its own pace.
Request(answer) ==
  /\ \/ wire' = Append(wire, answer)
     \/ UNCHANGED wire
  /\ UNCHANGED <<inbox, notices>>

\* ping_device read something in time.
Take == inbox # <<>> /\ inbox' = Tail(inbox) /\ UNCHANGED <<wire, notices>>
\* (Mutant of Answers: any report will do.)
AnyAnswer(header) == inbox # <<>>
Answers(header) == Head(inbox).header = header

\* ping_device read nothing for five seconds.
Silence == inbox = <<>> /\ UNCHANGED channel

Deliver ==
  /\ wire # <<>>
  /\ inbox' = Append(inbox, Head(wire)) /\ wire' = Tail(wire)
  /\ UNCHANGED notices

\* A button, the battery or the receiver; its software id is 0.
Notify ==
  /\ notices < MaxNotices
  /\ inbox' = Append(inbox, Notice) /\ notices' = notices + 1
  /\ UNCHANGED wire
=============================================================================
