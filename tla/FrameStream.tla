---------------------------- MODULE FrameStream ----------------------------
(***************************************************************************)
(* One direction of an IPC connection: messages are written as frames, a   *)
(* length in four bytes and then the payload; the socket hands them on in  *)
(* pieces of any size; a decoder puts the frames together again.  The      *)
(* writer may die inside a frame, and a writer of another build may allow  *)
(* longer frames than the reader does.  A byte is known by its message and *)
(* by its place in the frame.                                              *)
(***************************************************************************)
EXTENDS Integers, Sequences, SequencesExt

CONSTANTS
  max, writer_max,  \* the longest payload the reader and the writer allow
  READ_CHUNK,       \* the most a read returns
  MaxMessages       \* messages written

VARIABLES
  sent,       \* lengths of the messages written in full
  cut,        \* did the writer die inside a frame?
  open,       \* is the writer's end open?
  wire,       \* bytes on their way
  buf,        \* the decoder's bytes
  poisoned,   \* has the decoder refused a frame?
  got,        \* payloads handed to the reader
  end         \* how reading ended: "none", "eof", "unexpected_eof", "too_large"

vars == <<sent, cut, open, wire, buf, poisoned, got, end>>

HEADER_LEN == 4

Byte(m, len, i) == [msg |-> m, len |-> len, pos |-> i]

\* encode_frame, for a payload within the writer's limit.
encode_frame(m, len) == [i \in 1..(HEADER_LEN + len) |-> Byte(m, len, i)]

Payload(m, len) == [i \in 1..len |-> Byte(m, len, HEADER_LEN + i)]

Init ==
    /\ sent = <<>> /\ cut = FALSE /\ open = TRUE /\ wire = <<>> /\ buf = <<>>
    /\ poisoned = FALSE /\ got = <<>> /\ end = "none"

\* write_message: a payload over the limit is refused before anything is written.
write_message(len) ==
    /\ open /\ Len(sent) < MaxMessages /\ len <= writer_max
    /\ wire' = wire \o encode_frame(Len(sent) + 1, len) /\ sent' = Append(sent, len)
    /\ UNCHANGED <<cut, open, buf, poisoned, got, end>>

\* The writer closes, after a whole frame or inside one.
Close ==
    /\ open /\ open' = FALSE
    /\ UNCHANGED <<sent, cut, wire, buf, poisoned, got, end>>

Die(len, n) ==
    /\ open /\ Len(sent) < MaxMessages /\ len <= writer_max /\ n < HEADER_LEN + len
    /\ wire' = wire \o SubSeq(encode_frame(Len(sent) + 1, len), 1, n)
    /\ cut' = TRUE /\ open' = FALSE
    /\ UNCHANGED <<sent, buf, poisoned, got, end>>

\* ------------------------------------------------------------- the decoder
Declared == buf[1].len
Complete == Len(buf) >= HEADER_LEN /\ Declared <= max /\ Len(buf) >= HEADER_LEN + Declared
Oversize == Len(buf) >= HEADER_LEN /\ Declared > max

\* next_frame: one whole frame is taken off the buffer and the rest is kept.
TakeFrame_drops_rest ==
    /\ end = "none" /\ ~poisoned /\ Complete
    /\ got' = Append(got, SubSeq(buf, HEADER_LEN + 1, HEADER_LEN + Declared))
    /\ buf' = <<>>
    /\ UNCHANGED <<sent, cut, open, wire, poisoned, end>>

TakeFrame ==
    /\ end = "none" /\ ~poisoned /\ Complete
    /\ got' = Append(got, SubSeq(buf, HEADER_LEN + 1, HEADER_LEN + Declared))
    /\ buf' = SubSeq(buf, HEADER_LEN + Declared + 1, Len(buf))
    /\ UNCHANGED <<sent, cut, open, wire, poisoned, end>>

\* next_frame: a declared length over the limit clears the buffer for good.
Poison ==
    /\ end = "none" /\ ~poisoned /\ Oversize
    /\ poisoned' = TRUE /\ buf' = <<>> /\ end' = "too_large"
    /\ UNCHANGED <<sent, cut, open, wire, got>>

\* read_frame: without a whole frame the socket is read again.
Read(n) ==
    /\ end = "none" /\ ~Complete /\ ~Oversize
    /\ n <= Len(wire) /\ buf' = buf \o SubSeq(wire, 1, n) /\ wire' = SubSeq(wire, n + 1, Len(wire))
    /\ UNCHANGED <<sent, cut, open, poisoned, got, end>>

\* read_frame at the end of the stream: bytes of an unfinished frame are an error.
ReadEof ==
    /\ end = "none" /\ ~Complete /\ ~Oversize /\ ~open /\ wire = <<>>
    /\ end' = IF buf = <<>> THEN "eof" ELSE "unexpected_eof"
    /\ UNCHANGED <<sent, cut, open, wire, buf, poisoned, got>>

Next ==
    \/ \E len \in 0..writer_max : write_message(len) \/ \E n \in 1..(HEADER_LEN + writer_max) : Die(len, n)
    \/ Close \/ TakeFrame \/ Poison \/ ReadEof
    \/ \E n \in 1..READ_CHUNK : Read(n)

Spec == Init /\ [][Next]_vars

TypeOK ==
    /\ sent \in Seq(0..writer_max) /\ cut \in BOOLEAN /\ open \in BOOLEAN /\ poisoned \in BOOLEAN
    /\ end \in {"none", "eof", "unexpected_eof", "too_large"}

\* What the reader gets is what was written, message for message and in order, however the
\* stream was cut into pieces; it reads a clean end only when it has got everything, a torn
\* last frame is an error; and it never holds more than a frame and a read beyond it.
FramesArrive ==
    /\ Len(got) <= Len(sent) /\ \A i \in 1..Len(got) : got[i] = Payload(i, sent[i])
    /\ end = "eof" => ~cut /\ Len(got) = Len(sent)
    /\ Len(buf) < HEADER_LEN + max + READ_CHUNK
=============================================================================
