----------------------------- MODULE FcgiWire -----------------------------
(***************************************************************************)
(* The byte work of the FastCGI forwarder, checked input by input: the     *)
(* parameter lengths it encodes, the records it cuts a body frame into,    *)
(* and the response head it finds in a STDOUT stream that arrives in       *)
(* chunks of any size.                                                     *)
(*                                                                         *)
(* The text of a response is a sequence of tokens: "r" and "n" the two     *)
(* bytes of a line break, "h" a header line's text, "s" and "z" a Status   *)
(* line with a code that parses and one with a code that does not.         *)
(***************************************************************************)
EXTENDS Integers, Sequences, SequencesExt, FiniteSetsExt

CONSTANTS Lengths,     \* parameter lengths to encode
          MaxPayload,  \* FCGI_MAX_PAYLOAD
          MaxFrame,    \* bound: length of a body frame
          MaxText,     \* bound: tokens of a response
          MaxHead      \* MAX_HEAD_BYTES

VARIABLES text, fed, buf, found,   \* the response, how much of it was fed, the accumulator
          name, value, pair,       \* a parameter and its encoding
          frame, records           \* a body frame and its records

vars == <<text, fed, buf, found, name, value, pair, frame, records>>

\* ------------------------------------------------------------- the parameters
Bytes4(n) == <<(n \div 16777216) % 256, (n \div 65536) % 256, (n \div 256) % 256, n % 256>>

\* One byte up to 127, else four with the top bit set.
encode_length(n) == IF n <= 127 THEN <<n>> ELSE [Bytes4(n) EXCEPT ![1] = @ + 128]

\* The two lengths, then the bytes of both, which their numbers stand for.
encode_name_value(n, v) == [lengths |-> encode_length(n) \o encode_length(v), name |-> n, value |-> v]

\* How the worker reads a length: the top bit of its first byte tells which form it is.
DecodeLength(s) ==
    IF s = <<>> THEN [length |-> -1, rest |-> <<>>]
    ELSE IF s[1] < 128 THEN [length |-> s[1], rest |-> Tail(s)]
    ELSE IF Len(s) < 4 THEN [length |-> -1, rest |-> <<>>]
    ELSE [length |-> (s[1] - 128) * 16777216 + s[2] * 65536 + s[3] * 256 + s[4],
          rest |-> SubSeq(s, 5, Len(s))]

\* ---------------------------------------------------------------- the records
write_record(len) == [type |-> "stdin", high |-> len \div 256, low |-> len % 256]

\* slice::chunks: full chunks, then the rest; nothing for an empty frame.
Chunked(len) ==
    [i \in 1..((len + MaxPayload - 1) \div MaxPayload) |->
        Min({MaxPayload, len - (i - 1) * MaxPayload})]

EncodeFrame(len) == [i \in DOMAIN Chunked(len) |-> write_record(Chunked(len)[i])]

Decode(record) == record.high * 256 + record.low

\* ------------------------------------------------------------------- the head
TERMINATOR_OVERLAP == 3

At(s, i, pattern) == i + Len(pattern) - 1 <= Len(s) /\ SubSeq(s, i, i + Len(pattern) - 1) = pattern
Terminators(s, from) ==
    {[at |-> i, len |-> Len(p)] : i \in from..Len(s), p \in {<<"r", "n", "r", "n">>, <<"n", "n">>}}

\* The first line break pair at or after a position, if there is one.
find_header_terminator(s, from) ==
    LET hits == {t \in Terminators(s, from) :
                   At(s, t.at, IF t.len = 4 THEN <<"r", "n", "r", "n">> ELSE <<"n", "n">>)}
    IN {t \in hits : \A u \in hits : t.at <= u.at}

\* The last Status line whose code parses; any other line is a header or is skipped.
parse_head(head) ==
    LET lines == {i \in DOMAIN head : head[i] = "s"} IN IF lines = {} THEN "200" ELSE "404"

Pending == [state |-> "pending"]
Complete(s, t) ==
    [state |-> "complete", at |-> t.at, status |-> parse_head(SubSeq(s, 1, t.at - 1)),
     rest |-> SubSeq(s, t.at + t.len, Len(s))]

\* HeadAccumulator::feed: only the new bytes and an overlap are scanned.
feed(chunk) ==
    LET s == buf \o chunk
        hit == find_header_terminator(s, Max({1, Len(buf) - TERMINATOR_OVERLAP + 1}))
    IN IF hit # {} THEN Complete(s, CHOOSE t \in hit : TRUE)
       ELSE IF Len(s) > MaxHead THEN [state |-> "too_large"] ELSE Pending

\* ------------------------------------------------------------------ behaviour
Tokens == {"r", "n", "h", "s", "z"}

Init ==
    /\ \/ /\ text \in UNION {[1..k -> Tokens] : k \in 0..MaxText}
          /\ name = 0 /\ value = 0 /\ frame = 0
       \/ text = <<>> /\ name \in Lengths /\ value \in Lengths /\ frame = 0
       \/ text = <<>> /\ name = 0 /\ value = 0 /\ frame \in 0..MaxFrame
    /\ fed = 0 /\ buf = <<>> /\ found = Pending /\ pair = <<>> /\ records = <<>>

Feed ==
    /\ fed < Len(text) /\ found = Pending
    /\ \E n \in 1..(Len(text) - fed) :
         LET chunk == SubSeq(text, fed + 1, fed + n)
         IN found' = feed(chunk) /\ buf' = buf \o chunk /\ fed' = fed + n
    /\ UNCHANGED <<text, name, value, pair, frame, records>>

EncodePair ==
    /\ pair = <<>> /\ text = <<>> /\ frame = 0 /\ pair' = <<encode_name_value(name, value)>>
    /\ UNCHANGED <<text, fed, buf, found, name, value, frame, records>>

EncodeBody ==
    /\ records = <<>> /\ frame > 0 /\ records' = EncodeFrame(frame)
    /\ UNCHANGED <<text, fed, buf, found, name, value, pair, frame>>

Next == Feed \/ EncodePair \/ EncodeBody

Spec == Init /\ [][Next]_vars

\* ---------------------------------------------------------------- properties
TypeOK == fed \in 0..Len(text) /\ Len(buf) = fed

\* Where the head ends, the status it carries and the body that follows do not depend on
\* how the stream was cut: they are those of the first blank line of the whole text.
HeadAsSent ==
    LET all == find_header_terminator(SubSeq(text, 1, fed), 1)
    IN CASE found.state = "complete" ->
              \A t \in all : found = Complete(SubSeq(text, 1, fed), t) /\ all # {}
         [] found.state = "pending" -> all = {}
         [] OTHER -> fed > MaxHead /\ all = {}

\* The worker reads back the lengths the forwarder encoded, at every boundary of the form.
LengthsArrive ==
    pair # <<>> =>
      LET first == DecodeLength(pair[1].lengths) second == DecodeLength(first.rest)
      IN first.length = name /\ second.length = value /\ second.rest = <<>>

\* A body frame is cut without loss, every record fits, and none is empty: an empty STDIN
\* record would tell PHP that the body is over.
FrameNeverEnds ==
    records # <<>> =>
      /\ FoldSeq(LAMBDA rec, n : Decode(rec) + n, 0, records) = frame
      /\ \A i \in DOMAIN records : Decode(records[i]) \in 1..MaxPayload
============================================================================
