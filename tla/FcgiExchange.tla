--------------------------- MODULE FcgiExchange ---------------------------
(***************************************************************************)
(* One FastCGI exchange of the reverse proxy: a task that writes the       *)
(* request, the forwarder and then a reader task that take the response,   *)
(* the PHP worker (FPM) at the other end of the socket, and the client,    *)
(* which uploads a body, consumes the response and may go away at any      *)
(* time.  The pipes of the socket and the channel to the client are        *)
(* bounded, so every writer can block.                                     *)
(*                                                                         *)
(* A record is its type: "part" is STDOUT that does not complete the head, *)
(* "head" completes it, "head+" does and goes on with data, "data" is      *)
(* STDOUT after it, "bad" one that does not decode or has another id.      *)
(***************************************************************************)
EXTENDS Naturals, Sequences, FiniteSets

CONSTANTS Body,         \* frames of the client's request body
          PipeRoom,     \* records the socket buffers, each way
          ChannelRoom,  \* STDOUT_CHANNEL_RECORDS
          MaxParts,     \* parts before the head passes MAX_HEAD_BYTES
          MaxDiscards,  \* data records a bodyless response may discard
          MaxOut        \* bound: records FPM writes

VARIABLES
  bodyless,             \* hyper gives the response no body (HEAD, 1xx, 204, 304)
  client,               \* "open" or "gone"
  upload, uploadEnd,    \* frames not yet uploaded; "more", "done" or "broken"
  wr, stop, half,       \* the writer task, its stop signal, does it hold its socket half
  toFpm, fromFpm,       \* the socket
  fpm, read, wrote,     \* the worker, the STDIN it has read, the STDOUT data it wrote
  stdin,                \* how STDIN ended for it: "open", "complete", "cut"
  rd, parts, discarded, \* the response side
  response, channel, closed, got, end \* what the client gets

vars == <<bodyless, client, upload, uploadEnd, wr, stop, half, toFpm, fromFpm, fpm, read,
          wrote, stdin, rd, parts, discarded, response, channel, closed, got, end>>

Client == <<client, upload, uploadEnd, got, end>>
Writer == <<wr, half, toFpm>>
Fpm == <<fpm, read, wrote, stdin>>
Reader == <<rd, parts, discarded, response, channel, closed>>

\* ------------------------------------------------------------------ the writer
Room(pipe) == Len(pipe) < PipeRoom
Working == wr \in {"prelude", "body", "term"}

\* A write to a socket whose peer is gone fails; the task goes on to drain the client.
Write(record, next) ==
    /\ half
    /\ \/ /\ fpm # "closed" /\ Room(toFpm)
          /\ toFpm' = Append(toFpm, record) /\ wr' = next /\ half' = (next # "drain")
       \/ /\ fpm = "closed"
          /\ wr' = "drain" /\ half' = FALSE /\ UNCHANGED toFpm

WritePrelude ==
    /\ wr = "prelude" /\ Write("begin", "body")
    /\ UNCHANGED <<bodyless, Client, stop, fromFpm, Fpm, Reader>>

WriteBody ==
    /\ wr = "body" /\ uploadEnd # "broken" /\ upload > 0
    /\ Write("stdin", "body")
    /\ upload' = upload - 1
    /\ uploadEnd' = IF upload' = 0 THEN "done" ELSE uploadEnd
    /\ UNCHANGED <<bodyless, client, stop, fromFpm, Fpm, Reader, got, end>>

BodyFails_terminated ==
    /\ wr = "body" /\ uploadEnd = "broken" /\ Write("term", "drain")
    /\ UNCHANGED <<bodyless, Client, stop, fromFpm, Fpm, Reader>>

\* The client's body broke off: the socket is half-closed, no terminator is written.
BodyFails ==
    /\ wr = "body" /\ uploadEnd = "broken"
    /\ toFpm' = Append(toFpm, "shutdown") /\ wr' = "drain" /\ half' = FALSE
    /\ UNCHANGED <<bodyless, Client, stop, fromFpm, Fpm, Reader>>

WriteEnd ==
    /\ wr = "body" /\ uploadEnd = "done" /\ Write("term", "drain")
    /\ UNCHANGED <<bodyless, Client, stop, fromFpm, Fpm, Reader>>

\* The select's other branch: writing stops where it is, the half is dropped.
Stopped ==
    /\ Working /\ stop
    /\ wr' = "drain" /\ half' = FALSE
    /\ UNCHANGED <<bodyless, Client, stop, toFpm, fromFpm, Fpm, Reader>>

drain_client_body ==
    /\ wr = "drain"
    /\ \/ /\ uploadEnd = "more"
          /\ upload' = upload - 1 /\ uploadEnd' = IF upload' = 0 THEN "done" ELSE "more"
          /\ UNCHANGED wr
       \/ /\ uploadEnd # "more" /\ wr' = "done" /\ UNCHANGED <<upload, uploadEnd>>
    /\ UNCHANGED <<bodyless, client, stop, half, toFpm, fromFpm, Fpm, Reader, got, end>>

\* ------------------------------------------- how the response side leaves the writer

\* WriterHandle::wind_down: stop writing, and let the task live on to drain.
wind_down == stop' = TRUE /\ UNCHANGED <<wr, half>>

Drop_detaches == UNCHANGED <<stop, wr, half>>

\* Dropping the handle: the task is aborted unless it was wound down or has ended.
Drop ==
    /\ UNCHANGED stop
    /\ IF stop \/ wr = "done" THEN UNCHANGED <<wr, half>> ELSE wr' = "aborted" /\ half' = FALSE

\* ------------------------------------------------------------------- forward
Take == Head(fromFpm)
Broken == fromFpm = <<>> /\ fpm = "closed"

Fail == response' = "error" /\ rd' = "ended" /\ Drop

\* The head loop: nothing is on the wire yet, so a failure is still a clean 500.
ReadHead ==
    /\ rd = "head"
    /\ \/ /\ Broken /\ Fail /\ UNCHANGED <<fromFpm, parts, closed, channel>>
       \/ /\ fromFpm # <<>> /\ fromFpm' = Tail(fromFpm)
          /\ CASE Take = "part" ->
                    /\ parts' = parts + 1
                    /\ IF parts' > MaxParts THEN Fail ELSE UNCHANGED <<response, rd, stop, wr, half>>
                    /\ UNCHANGED <<closed, channel>>
               [] Take \in {"head", "head+"} ->
                    /\ IF bodyless
                       THEN rd' = "drain" /\ UNCHANGED <<response, channel>>
                       ELSE /\ rd' = "stream" /\ response' = "head"
                            /\ channel' = IF Take = "head+" THEN <<"data">> ELSE <<>>
                    /\ UNCHANGED <<parts, stop, wr, half, closed>>
               [] Take = "end" ->
                    /\ wind_down /\ rd' = "ended" /\ response' = "head" /\ closed' = TRUE
                    /\ UNCHANGED <<parts, channel>>
               [] Take = "bad" -> Fail /\ UNCHANGED <<parts, closed, channel>>
               [] OTHER -> UNCHANGED <<parts, response, rd, stop, wr, half, closed, channel>>
    /\ UNCHANGED <<bodyless, Client, toFpm, Fpm, discarded>>

\* drain_to_end_request: the script runs to its end, or past the cap the socket is dropped.
drain_to_end_request ==
    /\ rd = "drain"
    /\ \/ /\ Broken /\ Fail /\ UNCHANGED <<fromFpm, discarded, closed>>
       \/ /\ fromFpm # <<>> /\ fromFpm' = Tail(fromFpm)
          /\ discarded' = IF Take = "data" THEN discarded + 1 ELSE discarded
          /\ IF Take = "bad" THEN Fail /\ UNCHANGED closed
             ELSE IF Take = "end" \/ discarded' > MaxDiscards
             THEN wind_down /\ rd' = "ended" /\ response' = "head" /\ closed' = TRUE
             ELSE UNCHANGED <<response, rd, stop, wr, half, closed>>
    /\ UNCHANGED <<bodyless, Client, toFpm, Fpm, parts, channel>>

\* ------------------------------------------------------------- read_response
Ends(frames) == channel' = frames /\ rd' = "ended" /\ closed' = TRUE

\* The backend failed after the head: the client's connection is aborted.
Truncates == Ends(Append(channel, "abort")) /\ Drop

read_response ==
    /\ rd = "stream"
    /\ \/ /\ client = "gone" /\ Ends(channel) /\ Drop
          /\ UNCHANGED <<fromFpm, response>>
       \/ /\ client = "open" /\ Len(channel) < ChannelRoom
          /\ \/ Broken /\ Truncates /\ UNCHANGED fromFpm
             \/ /\ fromFpm # <<>> /\ fromFpm' = Tail(fromFpm)
                /\ CASE Take = "data" ->
                          channel' = Append(channel, "data") /\ UNCHANGED <<rd, closed, stop, wr, half>>
                     [] Take = "bad" -> Truncates
                     [] Take = "end" -> Ends(channel) /\ wind_down
                     [] OTHER -> UNCHANGED <<channel, rd, closed, stop, wr, half>>
          /\ UNCHANGED response
    /\ UNCHANGED <<bodyless, Client, toFpm, Fpm, parts, discarded>>

\* ------------------------------------------------------------------- the client
BreaksOff ==
    /\ uploadEnd = "more" /\ uploadEnd' = "broken"
    /\ UNCHANGED <<bodyless, client, upload, Writer, stop, fromFpm, Fpm, Reader, got, end>>

Consume ==
    /\ client = "open" /\ channel # <<>> /\ end = "none"
    /\ channel' = Tail(channel)
    /\ IF Head(channel) = "abort" THEN end' = "abort" /\ UNCHANGED got
       ELSE got' = got + 1 /\ UNCHANGED end
    /\ UNCHANGED <<bodyless, client, upload, uploadEnd, Writer, stop, fromFpm, Fpm, rd, parts,
                   discarded, response, closed>>

SeesEnd ==
    /\ client = "open" /\ end = "none" /\ channel = <<>>
    /\ \/ response = "error" /\ end' = "error"
       \/ response = "head" /\ closed /\ end' = "clean"
    /\ UNCHANGED <<bodyless, client, upload, uploadEnd, Writer, stop, fromFpm, Fpm, Reader, got>>

\* The connection goes away: hyper drops the request body, and the forwarder with it if
\* the head is not out yet.
Leaves ==
    /\ client = "open" /\ end = "none"
    /\ client' = "gone" /\ uploadEnd' = IF uploadEnd = "more" THEN "broken" ELSE uploadEnd
    /\ IF rd \in {"head", "drain"} THEN rd' = "ended" /\ Drop ELSE UNCHANGED <<rd, stop, wr, half>>
    /\ UNCHANGED <<bodyless, upload, toFpm, fromFpm, Fpm, parts, discarded, response, channel,
                   closed, got, end>>

\* ---------------------------------------------------------------------- FPM
Released == ~half /\ rd = "ended"

FpmReads ==
    /\ fpm = "open" /\ toFpm # <<>> /\ toFpm' = Tail(toFpm)
    /\ read' = IF Head(toFpm) = "stdin" THEN read + 1 ELSE read
    /\ stdin' = CASE Head(toFpm) = "term" -> "complete" [] Head(toFpm) = "shutdown" -> "cut"
                  [] OTHER -> stdin
    /\ fpm' = IF Head(toFpm) = "shutdown" THEN "closed" ELSE fpm
    /\ UNCHANGED <<bodyless, Client, wr, half, stop, fromFpm, wrote, Reader>>

HeadSent == \E i \in 1..Len(wrote) : wrote[i] \in {"head", "head+"}

FpmWrites ==
    /\ fpm = "open" /\ Room(fromFpm) /\ Len(wrote) < MaxOut
    /\ \E k \in {"part", "head", "head+", "data", "stderr", "end", "bad"} :
         /\ k = "data" => HeadSent
         /\ k \in {"part", "head", "head+"} => ~HeadSent
         /\ fromFpm' = Append(fromFpm, k) /\ wrote' = Append(wrote, k)
         /\ fpm' = IF k = "end" THEN "closed" ELSE fpm
    /\ UNCHANGED <<bodyless, Client, Writer, stop, read, stdin, Reader>>

\* The worker is killed, or notices that the proxy closed the socket.
FpmCloses ==
    /\ fpm = "open" /\ fpm' = "closed"
    /\ UNCHANGED <<bodyless, Client, Writer, stop, fromFpm, read, wrote, stdin, Reader>>

Init ==
    /\ bodyless \in BOOLEAN /\ client = "open" /\ upload \in 0..Body
    /\ uploadEnd = IF upload = 0 THEN "done" ELSE "more"
    /\ wr = "prelude" /\ stop = FALSE /\ half = TRUE /\ toFpm = <<>> /\ fromFpm = <<>>
    /\ fpm = "open" /\ read = 0 /\ wrote = <<>> /\ stdin = "open"
    /\ rd = "head" /\ parts = 0 /\ discarded = 0
    /\ response = "none" /\ channel = <<>> /\ closed = FALSE /\ got = 0 /\ end = "none"

WriterStep == WritePrelude \/ WriteBody \/ BodyFails \/ WriteEnd \/ Stopped \/ drain_client_body
ReaderStep == ReadHead \/ drain_to_end_request \/ read_response
ClientStep == BreaksOff \/ Consume \/ SeesEnd \/ Leaves
FpmStep == FpmReads \/ FpmWrites \/ FpmCloses

Next == WriterStep \/ ReaderStep \/ ClientStep \/ FpmStep

\* The proxy's own tasks are scheduled; neither FPM nor the client owes anything.
Fairness == WF_vars(WriterStep) /\ WF_vars(ReaderStep)
Spec == Init /\ [][Next]_vars /\ Fairness

\* ---------------------------------------------------------------- properties
TypeOK ==
    /\ wr \in {"prelude", "body", "term", "drain", "done", "aborted"} /\ upload \in 0..Body
    /\ Len(toFpm) <= PipeRoom + 1 /\ Len(fromFpm) <= PipeRoom /\ Len(channel) <= ChannelRoom + 1
    /\ read \in 0..Body /\ end \in {"none", "clean", "abort", "error"}

\* PHP takes a request body for complete only when it is: the terminator is never written
\* after an upload that broke off.
WholeBodyOrNone == stdin = "complete" => upload = 0 /\ uploadEnd = "done"

\* A response the client sees end cleanly is all of it: the worker ended the request, and
\* every data record before that arrived.
Datas(s) == Cardinality({i \in 1..Len(s) : s[i] \in {"data", "head+"}})
CleanEndIsWhole ==
    (end = "clean" /\ ~bodyless) => wrote # <<>> /\ wrote[Len(wrote)] = "end" /\ got = Datas(wrote)

\* A client that is still uploading when the worker has settled the response gets the
\* response, not a reset: its body is not dropped part-read.
UploadNotReset ==
    (client = "open" /\ wr = "aborted" /\ uploadEnd = "more")
      => response = "error" \/ end = "abort" \/ (channel # <<>> /\ channel[Len(channel)] = "abort")

\* The response side is over, whether it ended, failed or the client left, and the worker,
\* which may never read what was sent to it, is not free yet.
WorkerWaits == rd = "ended" /\ ~Released
============================================================================
