------------------------------- MODULE HpvConn -------------------------------
(***************************************************************************)
(* One open connection of evb inside its event-loop thread: the frame      *)
(* reader hpv_conn_readcb, the event callback hpv_error_cb and             *)
(* hpv_conn_close (evb/evHpv.cpp), with the buffer of evb/hds.cpp.         *)
(*                                                                         *)
(* A frame is a 4-byte total length, mode and opcode, and data, as         *)
(* sendPack() builds it; but the reader looks at the length only, and it   *)
(* may be any int.  To the reader every stream of bytes is a sequence of   *)
(* frames, where one with a length below 4 is its 4 bytes.  The bytes of   *)
(* the peer are numbered from 1, so the input buffer is the interval       *)
(* taken + 1 .. arrived.                                                   *)
(*                                                                         *)
(* The bufferevent defers its callbacks: while phase = "poll" the loop     *)
(* collects what happened in pending, then it runs the read callback and   *)
(* the event callback once each, with all events in one mask.              *)
(*                                                                         *)
(* When the code writes into memory that it does not have, undefined is    *)
(* raised and the model ends.                                              *)
(***************************************************************************)
EXTENDS Integers, Sequences, FiniteSets

CONSTANTS FrameSizes,  \* the lengths that the heads of the peer's frames give:
                       \* ints from which 4 can be taken without overflow
          MaxFrames,   \* frames the peer sends at most
          Window,      \* frames the peer sends before it waits for the first
          BigBuffer,   \* 1024 * 1024 in makeRoom
          MaxRoom      \* the most that realloc() gives, an int

HeadLen == 4

ASSUME ConnAssumption ==
  /\ FrameSizes \subseteq Int
  /\ MaxFrames \in Nat
  /\ Window \in Nat \ {0}
  /\ BigBuffer \in Nat
  /\ MaxRoom \in Nat

VARIABLES sizes,            \* the lengths in the heads of the frames sent so far
          ends,             \* where each of them ends in the stream
          ended,            \* the peer has shut down its side
          arrived, taken,
          reading, writing, \* EV_READ and EV_WRITE are enabled
          output,           \* the output buffer is not empty
          phase, pending,
          status, bodySize, needClose,
          alloc,            \* hdsBuf's capacity
          handled,          \* the bodies given to the parser, as intervals
          closed,           \* why hpv_conn_close has run: at the "end" of the
                            \* stream, or because it was "wanted"
          failed,           \* history: an ERROR event
          undefined

net == <<sizes, ends, ended>>
reader == <<status, bodySize, alloc, handled>>
connVars == <<net, arrived, taken, reading, writing, output, phase, pending,
              reader, needClose, closed, failed, undefined>>

Open == closed = "no"
Live == Open /\ ~undefined
Events == {"EOF", "TIMEOUT", "ERROR"}

\* Where frame i ends in the stream, i = 0 standing for its start.
EndOf(i) == IF i = 0 THEN 0 ELSE ends[i]
Sent == EndOf(Len(ends))
-----------------------------------------------------------------------------
\* doConnectWork()
ConnInit ==
  /\ sizes = <<>> /\ ends = <<>> /\ ended = FALSE
  /\ arrived = 0 /\ taken = 0
  /\ reading = TRUE /\ writing = TRUE /\ output = FALSE
  /\ phase = "poll" /\ pending = {}
  /\ status = "RECV_HEAD" /\ bodySize = 0 /\ needClose = FALSE
  /\ alloc = 0 /\ handled = <<>>
  /\ closed = "no" /\ failed = FALSE /\ undefined = FALSE

(* The peer, for as long as the connection is there *)

PeerSend ==
  /\ Live /\ ~ended
  /\ Len(ends) < MaxFrames
  /\ Len(ends) < Len(handled) + Window
  /\ \E n \in FrameSizes :
       /\ sizes' = Append(sizes, n)
       /\ ends' = Append(ends, Sent + IF n < HeadLen THEN HeadLen ELSE n)
  /\ UNCHANGED <<ended, arrived, taken, reading, writing, output, phase,
                 pending, reader, needClose, closed, failed, undefined>>

PeerEnd ==
  /\ Live /\ ~ended
  /\ ended' = TRUE
  /\ UNCHANGED <<sizes, ends, arrived, taken, reading, writing, output, phase,
                 pending, reader, needClose, closed, failed, undefined>>
-----------------------------------------------------------------------------
(* The bufferevent, while the loop polls *)

Polling == phase = "poll" /\ Live

\* The socket had bytes, any number of those on their way.
Arrive ==
  /\ Polling /\ reading
  /\ \E n \in arrived + 1 .. Sent : arrived' = n
  /\ pending' = pending \cup {"READ"}
  /\ UNCHANGED <<net, taken, reading, writing, output, phase, reader,
                 needClose, closed, failed, undefined>>

\* An event of the reading side disables reading.
ReadEvent(e) ==
  /\ Polling /\ reading
  /\ e = "EOF" => ended /\ arrived = Sent
  /\ reading' = FALSE
  /\ pending' = pending \cup {e}
  /\ failed' = (failed \/ e = "ERROR")
  /\ UNCHANGED <<net, arrived, taken, writing, output, phase, reader,
                 needClose, closed, undefined>>

\* One of the writing side, which is only there while output waits.
WriteEvent(e) ==
  /\ Polling /\ writing /\ output
  /\ e # "EOF"
  /\ writing' = FALSE
  /\ pending' = pending \cup {e}
  /\ failed' = (failed \/ e = "ERROR")
  /\ UNCHANGED <<net, arrived, taken, reading, output, phase, reader,
                 needClose, closed, undefined>>

\* The output buffer is written out; hpv_conn_writecb does nothing.
Flush ==
  /\ Polling /\ writing /\ output
  /\ output' = FALSE
  /\ UNCHANGED <<net, arrived, taken, reading, writing, phase, pending, reader,
                 needClose, closed, failed, undefined>>

RunDeferred ==
  /\ Polling /\ pending # {}
  /\ phase' = "callbacks"
  /\ UNCHANGED <<net, arrived, taken, reading, writing, output, pending,
                 reader, needClose, closed, failed, undefined>>

\* One callback is done; after the last one the loop polls again.
Done(e) ==
  /\ pending' = pending \ e
  /\ phase' = IF pending \subseteq e THEN "poll" ELSE "callbacks"

\* What a protocol or a function of the connection's timer may do to it: write
\* a packet, ask for the connection to be closed.
Application ==
  /\ output' \in {output, TRUE}
  /\ needClose' \in {needClose, TRUE}
-----------------------------------------------------------------------------
(* hpv_conn_readcb *)

Calling == phase = "callbacks" /\ Live

\* bodySize = size - 4
NeededBody(size) == size - HeadLen

\* The length that is read from the input when byte b was the last before.
SizeAt(b) == sizes[CHOOSE k \in 1 .. Len(ends) : EndOf(k - 1) = b]

\* Mutant of MakeRoom: a body that does not fit gets half the room.
MakeHalfRoom(n) == IF alloc >= n THEN alloc ELSE n \div 2

\* makeRoom(): the buffer is empty whenever it is called.
MakeRoom(n) ==
  IF alloc >= n THEN alloc
  ELSE IF n < BigBuffer THEN 2 * n ELSE n + BigBuffer

\* Mutant of Start: a head that an earlier callback has read is forgotten.
StartBehindHead == taken + HeadLen

\* Where the body starts, with the head read now or by an earlier callback.
Start == IF status = "RECV_HEAD" THEN taken + HeadLen ELSE taken

\* The callback has a head, the length of the body that it gives, and the body.
HeadThere == status = "RECV_HEAD" => arrived - taken >= HeadLen
Needed == IF status = "RECV_HEAD" THEN NeededBody(SizeAt(taken)) ELSE bodySize
BodyThere == HeadThere /\ arrived - Start >= Needed

\* Too little has arrived for the head, or after it for the body.
ReadPart ==
  \/ /\ ~HeadThere
     /\ UNCHANGED <<taken, status, bodySize>>
  \/ /\ HeadThere /\ arrived - Start < Needed
     /\ taken' = Start
     /\ status' = "RECV_BODY"
     /\ bodySize' = Needed

\* The body is there: one frame goes to the parser, and writing is enabled.
ReadBody ==
  /\ BodyThere /\ Needed >= 0 /\ MakeRoom(Needed) <= MaxRoom
  /\ taken' = Start + Needed
  /\ status' = "RECV_HEAD"
  /\ bodySize' = Needed
  /\ alloc' = MakeRoom(Needed)
  /\ handled' = Append(handled, <<Start + 1, Start + Needed>>)
  /\ writing' = TRUE

\* A body of less than nothing is always there.  As an unsigned number it is
\* larger than alloc and than what arrived: makeRoom() shrinks the block below
\* its own header, and the whole input is copied behind it.  Nor does anyone
\* look whether realloc() gave the room.
Overrun ==
  /\ BodyThere
  /\ Needed < 0 \/ MakeRoom(Needed) > MaxRoom
  /\ undefined' = TRUE
  /\ UNCHANGED <<taken, reader, writing, output, needClose>>

\* Mutant of ReadCb: the callback returns as soon as it has read a head.
ReadCbHeadFirst ==
  /\ Calling /\ "READ" \in pending
  /\ \/ /\ status = "RECV_HEAD" /\ HeadThere
        /\ status' = "RECV_BODY" /\ bodySize' = Needed /\ taken' = Start
        /\ UNCHANGED <<alloc, handled, writing, output, needClose, undefined>>
     \/ /\ ~(status = "RECV_HEAD" /\ HeadThere) /\ ReadPart
        /\ UNCHANGED <<alloc, handled, writing, output, needClose, undefined>>
     \/ status = "RECV_BODY" /\ ReadBody /\ Application /\ UNCHANGED undefined
     \/ status = "RECV_BODY" /\ Overrun
  /\ Done({"READ"})
  /\ UNCHANGED <<net, arrived, reading, closed, failed>>

ReadCb ==
  /\ Calling /\ "READ" \in pending
  /\ \/ ReadPart /\ UNCHANGED <<alloc, handled, writing, output, needClose, undefined>>
     \/ ReadBody /\ Application /\ UNCHANGED undefined
     \/ Overrun
  /\ Done({"READ"})
  /\ UNCHANGED <<net, arrived, reading, closed, failed>>
-----------------------------------------------------------------------------
(* hpv_error_cb *)

\* EOF: onClose and hpv_conn_close.  With a TIMEOUT in the same mask the code
\* goes on with the connection it has deleted, and may close it again.
OnEof ==
  /\ "EOF" \in pending
  /\ closed' = "end"
  /\ undefined' = ("TIMEOUT" \in pending)
  /\ UNCHANGED <<reading, output, needClose>>

\* Mutant of OnTimeout: reading is not enabled again.
OnTimeoutQuietly ==
  /\ "EOF" \notin pending /\ "TIMEOUT" \in pending
  /\ IF needClose
     THEN closed' = "wanted" /\ UNCHANGED <<reading, output, needClose>>
     ELSE Application /\ UNCHANGED <<reading, closed>>
  /\ UNCHANGED undefined

\* TIMEOUT: close if that was asked for, else run the timer and read on.
OnTimeout ==
  /\ "EOF" \notin pending /\ "TIMEOUT" \in pending
  /\ IF needClose
     THEN closed' = "wanted" /\ UNCHANGED <<reading, output, needClose>>
     ELSE reading' = TRUE /\ Application /\ UNCHANGED closed
  /\ UNCHANGED undefined

\* Any other error: nothing is done.
OnError ==
  /\ pending = {"ERROR"}
  /\ UNCHANGED <<reading, output, needClose, closed, undefined>>

\* Mutant of ErrorCb: it does not wait for the read callback.
ErrorCbFirst ==
  /\ Calling
  /\ OnEof \/ OnTimeout \/ OnError
  /\ Done(Events)
  /\ UNCHANGED <<net, arrived, taken, writing, reader, failed>>

ErrorCb ==
  /\ Calling /\ "READ" \notin pending
  /\ OnEof \/ OnTimeout \/ OnError
  /\ Done(Events)
  /\ UNCHANGED <<net, arrived, taken, writing, reader, failed>>

Callbacks == ReadCb \/ ErrorCb

ConnNext ==
  \/ PeerSend \/ PeerEnd
  \/ Arrive \/ Flush \/ RunDeferred
  \/ \E e \in Events : ReadEvent(e) \/ WriteEvent(e)
  \/ Callbacks

Conn == ConnInit /\ [][ConnNext]_connVars

\* The loop runs, bytes on their way and the end of the stream are noticed, and
\* a connection on which nothing arrives times out.
ConnFairSpec ==
  /\ Conn
  /\ WF_connVars(RunDeferred) /\ WF_connVars(Callbacks)
  /\ SF_connVars(Arrive) /\ SF_connVars(ReadEvent("EOF"))
  /\ WF_connVars(ReadEvent("TIMEOUT"))
-----------------------------------------------------------------------------
\* Each variable keeps to its type.
ConnTypeOK ==
  /\ sizes \in Seq(Int)
  /\ ends \in Seq(Nat)
  /\ Len(ends) = Len(sizes) /\ Len(ends) <= MaxFrames
  /\ ended \in BOOLEAN
  /\ arrived \in Nat /\ taken \in 0 .. arrived
  /\ reading \in BOOLEAN /\ writing \in BOOLEAN /\ output \in BOOLEAN
  /\ phase \in {"poll", "callbacks"}
  /\ pending \subseteq {"READ"} \cup Events
  /\ status \in {"RECV_HEAD", "RECV_BODY"}
  /\ bodySize \in Nat /\ alloc \in Nat
  /\ needClose \in BOOLEAN
  /\ handled \in Seq(Nat \X Nat)
  /\ closed \in {"no", "end", "wanted"}
  /\ failed \in BOOLEAN /\ undefined \in BOOLEAN

\* However the stream is cut into pieces, the parser gets the bodies of the
\* frames, whole, once and in order.
FramesInOrder ==
  /\ ConnTypeOK
  /\ Len(handled) <= Len(ends)
  /\ \A i \in 1 .. Len(handled) :
       handled[i] = <<EndOf(i - 1) + HeadLen + 1, EndOf(i)>>

\* The body copied into hdsBuf always fits, and the buffer never has more than
\* twice the longest body of the connection, or a megabyte more than it.  Memory
\* that is not there is written only for a frame whose length is below 4 or
\* beyond what realloc() gives, or after an EOF and a time-out in one mask; and
\* no such frame ever reaches the parser.
BufferFits ==
  LET Length(b) == b[2] - b[1] + 1
      Longest(n) == \A i \in 1 .. Len(handled) : Length(handled[i]) <= n
      Sound(n) == n >= HeadLen /\ MakeRoom(n - HeadLen) <= MaxRoom
  IN /\ Longest(alloc) /\ alloc <= MaxRoom
     /\ \A n \in 0 .. alloc : Longest(n) => alloc <= 2 * n \/ alloc <= n + BigBuffer
     /\ \A i \in 1 .. Len(handled) : sizes[i] >= HeadLen
     /\ undefined => closed = "end" \/ \E i \in 1 .. Len(sizes) :
                                         i = Len(handled) + 1 /\ ~Sound(sizes[i])

\* The end of the stream costs a peer no frame but the last Window - 1 it sent,
\* and none at all if it waits for each answer: however EOF comes together with
\* the last bytes, every callback for bytes runs before the close.
EndKeepsFrames == closed = "end" => Len(ends) < Len(handled) + Window

Over == ~Live \/ failed

\* The peer's end of the stream closes the connection.
EndCloses == ended ~> Over

\* A connection the application wants closed is closed, unless the peer sends
\* another frame: only a time-out looks at needClose, so a peer that never falls
\* silent is never closed.
NeedCloseCloses ==
  \A n \in 0 .. MaxFrames :
    (needClose /\ Len(ends) = n) ~> (Over \/ Len(ends) > n)

\* A callback reads one frame, and complete frames may be left in the input with
\* no callback to come for them.  But a frame is handled in the end when
\* Window - 1 more have followed it: every frame of a peer that waits for each
\* answer.
SentIsHandled ==
  \A i \in 1 .. MaxFrames :
    (i + Window - 1 <= Len(ends) /\ Open)
      ~> (Len(handled) >= i \/ Over)
=============================================================================
