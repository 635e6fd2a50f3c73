------------------------------- MODULE Framing -------------------------------
(***************************************************************************)
(* orchestrator/proto.py, with the loops that call it: one direction of a  *)
(* connection as the stream of bytes it is.  send_msg writes a header and  *)
(* a payload; recv returns what has arrived, a frame at a time or in       *)
(* pieces; read_msg puts them together.  A read or a send that times out   *)
(* may do so in the middle of a frame, and what its caller does next       *)
(* differs by side:                                                        *)
(*   toServer  worker.py sends, the handler of server.py reads;            *)
(*   toWorker  the handler sends, worker.py reads.                         *)
(***************************************************************************)
EXTENDS Naturals, Sequences, SequencesExt, FiniteSets

CONSTANTS
    HeaderLen,   \* _LEN.size
    Messages,
    PayloadLen,  \* the length of each message's payload
    Heartbeats,  \* the messages whose failed send the worker ignores
    Goodbye,     \* the message of Worker.close
    MaxFrame,    \* the longest payload that a header may declare
    BufferSize,  \* how many bytes the connection holds before send waits
    MaxFrames    \* bound: how many messages are sent, the Goodbye not counted

ASSUME FramingAssumption ==
    /\ HeaderLen \in Nat \ {0} /\ MaxFrame \in Nat \ {0}
    /\ BufferSize \in Nat \ {0} /\ MaxFrames \in Nat
    /\ PayloadLen \in [Messages -> 1 .. MaxFrame]
    /\ Heartbeats \subseteq Messages \ {Goodbye} /\ Goodbye \in Messages

VARIABLES
    side,      \* which direction this is; never changes
    sent,      \* the messages handed to send_msg, in order
    pushed,    \* how many bytes of the last one are in the stream
    senderAt,  \* "idle", "sending", "leaving" (before close) or "closed"
    stream,    \* the bytes on their way: byte o of the frame of sent[i] is <<i, o>>
    readerAt,  \* "header" or "payload" in read_msg, or "ended"
    want,      \* the n of _recv_exact
    got,       \* the chunks of _recv_exact, joined
    read,      \* the messages read_msg has returned, as indices into sent
    torn       \* a read was given up in mid-frame and the next begun in its
               \* place, or a frame was left truncated

senderVars == <<sent, pushed, senderAt>>
readerVars == <<readerAt, want, got, read>>
vars == <<side, senderVars, stream, readerVars, torn>>

FrameLen(i) == HeaderLen + PayloadLen[sent[i]]
Header(i) == [o \in 1 .. HeaderLen |-> <<i, o>>]
Payload(i) == [o \in 1 .. PayloadLen[sent[i]] |-> <<i, HeaderLen + o>>]

Init ==
    /\ side \in {"toServer", "toWorker"}
    /\ sent = <<>> /\ pushed = 0 /\ senderAt = "idle"
    /\ stream = <<>>
    /\ readerAt = "header" /\ want = HeaderLen /\ got = <<>> /\ read = <<>>
    /\ torn = FALSE

-----------------------------------------------------------------------------
(* The sender *)

\* send_msg, before the first byte leaves.
StartSend(m) ==
    /\ \/ senderAt = "idle" /\ (m = Goodbye \/ Len(sent) < MaxFrames)
       \/ senderAt = "leaving" /\ m = Goodbye
    /\ m = Goodbye => side = "toServer"
    /\ sent' = Append(sent, m)
    /\ pushed' = 0
    /\ senderAt' = "sending"
    /\ UNCHANGED <<side, stream, readerVars, torn>>

\* sendall: the next k bytes find room in the connection.  After a Goodbye
\* the socket is closed.
Push(k) ==
    /\ senderAt = "sending"
    /\ pushed + k <= FrameLen(Len(sent))
    /\ Len(stream) + k <= BufferSize
    /\ stream' = stream \o [o \in 1 .. k |-> <<Len(sent), pushed + o>>]
    /\ pushed' = pushed + k
    /\ senderAt' = IF pushed + k < FrameLen(Len(sent)) THEN "sending"
                   ELSE IF Last(sent) = Goodbye THEN "closed" ELSE "idle"
    /\ UNCHANGED <<side, sent, readerVars, torn>>

\* sendall times out, the bytes it has pushed stay.  The progress callback of
\* the worker ignores that; any other failure takes the worker to close, which
\* says Goodbye all the same, and the handler to its finally block.
SendTimesOut ==
    /\ senderAt = "sending"
    /\ Len(stream) = BufferSize
    /\ senderAt' = IF Last(sent) \in Heartbeats /\ side = "toServer" THEN "idle"
                   ELSE IF Last(sent) = Goodbye \/ side = "toWorker" THEN "closed"
                   ELSE "leaving"
    /\ sent' = IF pushed = 0 THEN Front(sent) ELSE sent
    /\ torn' = (torn \/ pushed # 0)
    /\ UNCHANGED <<side, pushed, stream, readerVars>>

\* The process dies; what it has pushed may still be read.
SenderDies ==
    /\ senderAt # "closed"
    /\ senderAt' = "closed"
    /\ sent' = IF senderAt = "sending" /\ pushed = 0 THEN Front(sent) ELSE sent
    /\ torn' = (torn \/ (senderAt = "sending" /\ pushed # 0))
    /\ UNCHANGED <<side, pushed, stream, readerVars>>

-----------------------------------------------------------------------------
(* The reader: _recv_exact and read_msg *)

Reading == readerAt \in {"header", "payload"}
Missing == want - Len(got)
MidFrame == readerAt = "payload" \/ got # <<>>

NextRead == /\ readerAt' = "header" /\ want' = HeaderLen /\ got' = <<>>
ReaderEnds == readerAt' = "ended" /\ want' = 0 /\ got' = <<>>

\* Mutant: _recv_exact is one recv, which may return fewer bytes.
RecvSome_Once(k) ==
    /\ Reading
    /\ k < Missing /\ k <= Len(stream)
    /\ stream' = SubSeq(stream, k + 1, Len(stream))
    /\ IF readerAt = "header"
       THEN readerAt' = "payload" /\ want' \in 1 .. MaxFrame /\ got' = <<>>
       ELSE NextRead
    /\ UNCHANGED <<side, senderVars, read, torn>>

\* recv returns k bytes, and _recv_exact needs more.
RecvSome(k) ==
    /\ Reading
    /\ k < Missing /\ k <= Len(stream)
    /\ got' = got \o SubSeq(stream, 1, k)
    /\ stream' = SubSeq(stream, k + 1, Len(stream))
    /\ UNCHANGED <<side, senderVars, readerAt, want, read, torn>>

\* The bytes with which _recv_exact is complete.
Whole == got \o SubSeq(stream, 1, Missing)

CompleteRead ==
    /\ Missing <= Len(stream)
    /\ stream' = SubSeq(stream, Missing + 1, Len(stream))

\* What four bytes decode to: the length of a payload if they are a header;
\* any number if they come from somewhere in a frame.
Lengths(g) ==
    {PayloadLen[sent[i]] : i \in {j \in 1 .. Len(sent) : g = Header(j)}}
    \cup (IF \E j \in 1 .. Len(sent) : g = Header(j) THEN {} ELSE 0 .. MaxFrame + 1)

\* A length above the cap is a ProtocolError; a length of zero leaves msgpack
\* nothing to decode, which raises as well.
RecvHeader ==
    /\ readerAt = "header"
    /\ CompleteRead
    /\ \E n \in Lengths(Whole) :
          \/ /\ n \in 1 .. MaxFrame
             /\ readerAt' = "payload" /\ want' = n /\ got' = <<>>
          \/ n \notin 1 .. MaxFrame /\ ReaderEnds
    /\ UNCHANGED <<side, senderVars, read, torn>>

\* The payload of a frame decodes to its message, which the caller handles;
\* a Goodbye ends the loop of the handler.
RecvPayload ==
    /\ readerAt = "payload"
    /\ CompleteRead
    /\ \E i \in 1 .. Len(sent) :
          /\ Whole = Payload(i)
          /\ read' = Append(read, i)
          /\ IF sent[i] = Goodbye THEN ReaderEnds ELSE NextRead
    /\ UNCHANGED <<side, senderVars, torn>>

\* Bytes from elsewhere are not a tagged map: unpackb or read_msg raises.
RecvGarbage ==
    /\ readerAt = "payload"
    /\ CompleteRead
    /\ \A i \in 1 .. Len(sent) : Whole # Payload(i)
    /\ ReaderEnds
    /\ UNCHANGED <<side, senderVars, read, torn>>

\* recv returns no bytes: a clean end at a frame boundary, None, and a
\* ConnectionError anywhere else.  Both end the caller.
RecvEof ==
    /\ Reading
    /\ senderAt = "closed" /\ stream = <<>>
    /\ ReaderEnds
    /\ UNCHANGED <<side, senderVars, stream, read, torn>>

\* recv times out: the chunks it had are local to _recv_exact and are gone.
\* The handler reads again; the worker's exception ends connect or run.
ReadTimesOut ==
    /\ Reading
    /\ stream = <<>> /\ senderAt # "closed"
    /\ \/ side = "toServer" /\ NextRead
       \/ side = "toWorker" /\ ReaderEnds
    /\ torn' = (torn \/ (side = "toServer" /\ MidFrame))
    /\ UNCHANGED <<side, senderVars, stream, read>>

\* The caller is done: the worker's loop is over, the handler has raised in
\* its work on the last message, or stop has closed the socket under it.
ReaderLeaves ==
    /\ Reading
    /\ ReaderEnds
    /\ UNCHANGED <<side, senderVars, stream, read, torn>>

-----------------------------------------------------------------------------

ReaderStep ==
    \/ \E k \in 1 .. BufferSize : RecvSome(k)
    \/ RecvHeader \/ RecvPayload \/ RecvGarbage \/ RecvEof

SenderStep ==
    \/ \E m \in Messages : StartSend(m)
    \/ \E k \in 1 .. BufferSize : Push(k)
    \/ SendTimesOut \/ SenderDies

Next == SenderStep \/ ReaderStep \/ ReadTimesOut \/ ReaderLeaves

Spec == Init /\ [][Next]_vars

-----------------------------------------------------------------------------
(* Properties *)

\* Frames of which at least one byte has been pushed.
Posted == IF senderAt = "sending" /\ pushed = 0 THEN Len(sent) - 1 ELSE Len(sent)

Abstract == INSTANCE Channel
            WITH posted <- Posted, delivered <- read, intact <- ~torn,
                 open <- readerAt # "ended"

\* However recv cuts the stream, wherever a read, a send or the peer gives
\* up, and whatever a torn stream makes of its headers: a message is returned
\* only if it was sent, at most once, in order, and on an untorn stream with
\* none left out.
ImplementsChannel == Abstract!Spec

-----------------------------------------------------------------------------
(* What the repository says of the program and the code does not keep *)

\* proto.py:103, of _recv_exact: "Raises ConnectionError only on a partial
\* read (peer vanished mid-frame), which the caller treats the same as a
\* dropped worker".  The handler's own timeout makes a partial read too, with
\* the peer alive, and the handler goes on reading.
PartialReadDropsWorker ==
    [][MidFrame /\ ~MidFrame' => read' # read \/ readerAt' = "ended"]_vars

=============================================================================
