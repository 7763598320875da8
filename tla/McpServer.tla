------------------------------ MODULE McpServer ------------------------------
(***************************************************************************)
(* One `orcker mcp` session: the JSON-RPC state machine of orcker-mcp and  *)
(* the loop around it that reads a line, asks the daemon when it must, and *)
(* writes at most one reply.  The user turns the tools on and off and the  *)
(* daemon stops and starts while the session runs.                         *)
(***************************************************************************)
EXTENDS IpcContract, Naturals

VARIABLES
    daemon,    \* is it up, and is mcp_enabled set
    server,    \* orcker_mcp::Server: initialized and availability; has it seen the gate open
    line,      \* the message being handled, the step it is at, and its replies
    called     \* tool requests that reached the daemon during this call

vars == <<daemon, server, line, called>>

\* ------------------------------------------------------------ tools (tools.rs)
ToolRequest ==
    "list_sites" :> "ListSites" @@ "link_site" :> "Link" @@ "park_directory" :> "Park"
      @@ "list_parked" :> "ListParked" @@ "set_site_secure" :> "SetSecure"
      @@ "add_domain" :> "AddDomain" @@ "remove_domain" :> "RemoveDomain"
      @@ "add_proxy" :> "AddProxy" @@ "remove_proxy" :> "RemoveProxy"
      @@ "add_proxy_rule" :> "AddProxyRule" @@ "remove_proxy_rule" :> "RemoveProxyRule"
      @@ "list_proxies" :> "ListProxies" @@ "set_mail_enabled" :> "SetMailEnabled"
      @@ "list_mails" :> "ListMails" @@ "get_mail" :> "GetMail" @@ "status" :> "Status"
      @@ "diagnose" :> "Diagnose" @@ "job_status" :> "JobStatus"

\* ------------------------------------------------------- messages (protocol.rs)
\* What a line can be.  The first group cannot be attributed to a sender and is answered
\* with a null id; of the others, `id` says whether somebody waits for an answer.
Unreadable == {"too long", "not json", "batch", "scalar"}
Shapes == {"no method", "stray response", "initialize", "ping", "tools/list",
           "tools/call", "bad call", "other method"}

Messages ==
    [shape : Unreadable, id : {FALSE}] \cup [shape : Shapes, id : BOOLEAN]

\* A message that has no usable method, or whose method nobody knows, is answered if
\* somebody waits for it; a notification and a stray response never are.
Silent(msg) == msg.shape = "stray response" \/ (msg.shape \in Shapes /\ ~msg.id)

\* dispatch and tools_call: the arguments are checked before the gate.
Outgoing(msg) ==
    IF Silent(msg) THEN "none"
    ELSE IF msg.shape \in Unreadable \cup {"no method", "other method"} THEN "error"
    ELSE IF msg.shape \in {"initialize", "ping"} THEN "result"
    ELSE IF ~server.init THEN "error"
    ELSE IF msg.shape = "tools/list" THEN "result"
    ELSE IF msg.shape = "bad call" THEN "error"
    ELSE IF server.avail = "enabled" THEN "call" ELSE "blocked"

\* ------------------------------------------------------------------------ state
Blank == [msg |-> [shape |-> "ping", id |-> FALSE], tool |-> "", step |-> "read",
          replies |-> 0, text |-> "", clear |-> FALSE, down |-> FALSE]

\* availability_from: only a status report says anything about the gate.
Availability(read) == IF read = {} THEN "unknown" ELSE IF TRUE \in read THEN "enabled" ELSE "disabled"

\* A probe reads the toggle, or nothing (daemon down, stuck for longer than the bound, or
\* of another version).
Probes == {{}} \cup (IF daemon.up THEN {{daemon.on}} ELSE {})

Init ==
    /\ daemon \in [up : BOOLEAN, on : BOOLEAN]
    /\ \E read \in Probes :
         server = [init |-> FALSE, avail |-> Availability(read), seen |-> TRUE \in read]
    /\ line = Blank
    /\ called = {}

\* ---------------------------------------------------------------- the session loop
\* handle_line, with the reply it decides on by itself.
Handle ==
    /\ line.step = "read"
    /\ called' = {}
    /\ \E msg \in Messages :
         LET out == Outgoing(msg)
         IN  /\ server' = [server EXCEPT !.init = @ \/ (msg.shape = "initialize" /\ msg.id)]
             /\ \E tool \in IF out \in {"call", "blocked"} THEN DOMAIN ToolRequest ELSE {""} :
                  line' = [Blank EXCEPT !.msg = msg, !.tool = tool,
                             !.step = CASE out \in {"error", "result"} -> "write"
                                        [] out = "none" -> "written"
                                        [] out = "call" -> "exchange"
                                        [] out = "blocked" -> "repoll",
                             !.clear = daemon.up /\ daemon.on, !.down = ~daemon.up]
    /\ UNCHANGED daemon

\* The exchange of a tool call: no daemon, an answer in time, or none in time although
\* the daemon has the request.
Exchange ==
    /\ line.step = "exchange"
    /\ \/ /\ called' = called
          /\ line' = [line EXCEPT !.step = "write", !.text = "failed"]
       \/ /\ daemon.up
          /\ called' = called \cup {ToolRequest[line.tool]}
          /\ \E a \in Answers[ToolRequest[line.tool]] :
               line' = [line EXCEPT !.step = "write",
                                    !.text = IF Carried(a) THEN "done" ELSE "failed"]
       \/ /\ daemon.up
          /\ called' = called \cup {ToolRequest[line.tool]}
          /\ line' = [line EXCEPT !.step = "write", !.text = "failed"]
    /\ UNCHANGED <<daemon, server>>

\* repoll: a probe that read nothing leaves the availability alone.
Learn(avail, read) == IF read = {} THEN avail ELSE Availability(read)

Repoll ==
    /\ line.step = "repoll"
    /\ \E read \in Probes :
         LET avail == Learn(server.avail, read)
         IN  /\ server' = [server EXCEPT !.avail = avail, !.seen = @ \/ TRUE \in read]
             /\ line' = IF avail = "enabled" THEN [line EXCEPT !.step = "exchange"]
                        ELSE [line EXCEPT !.step = "write", !.text = avail,
                                          !.clear = @ /\ read # {}]
    /\ UNCHANGED <<daemon, called>>

\* Every reply is flushed; a client that is gone ends the session.
Write ==
    /\ line.step = "write"
    /\ \/ line' = [line EXCEPT !.step = "written", !.replies = @ + 1]
       \/ line' = [line EXCEPT !.step = "ended"]
    /\ UNCHANGED <<daemon, server, called>>

Continue ==
    /\ line.step = "written"
    /\ line' = Blank
    /\ UNCHANGED <<daemon, server, called>>

\* ------------------------------------------------------------------ the environment
\* The user flips the switch; the daemon goes and comes.
Flip ==
    /\ daemon.up
    /\ daemon' = [daemon EXCEPT !.on = ~@]
    /\ line' = [line EXCEPT !.clear = FALSE]
    /\ UNCHANGED <<server, called>>

Bounce ==
    /\ daemon' = [daemon EXCEPT !.up = ~@]
    /\ line' = [line EXCEPT !.clear = FALSE, !.down = FALSE]
    /\ UNCHANGED <<server, called>>

Next == Handle \/ Exchange \/ Repoll \/ Write \/ Continue \/ Flip \/ Bounce

Spec == Init /\ [][Next]_vars

\* ------------------------------------------------------------------------ properties
\* What JSON-RPC asks of a server for a message: one answer where the sender waits or
\* where no sender can be told, none otherwise.
Due(msg) ==
    IF msg.shape \in Unreadable \/ (msg.id /\ msg.shape # "stray response") THEN 1 ELSE 0

\* Every message is answered exactly as often as the protocol asks, before the next line
\* is read: no client is left waiting on an id, and no notification is answered.
EveryIdAnswered == line.step = "written" => line.replies = Due(line.msg)

\* A tool's request reaches the daemon only in a session that has read the toggle as on.
GateHolds == called # {} => server.seen

\* Turning the tools on reaches a running session at its next call: a call is not
\* answered as blocked when the toggle was on and the daemon answering all the while.
EnablingIsNoticed == line.text \in {"disabled", "unknown"} => ~line.clear

\* The guidance of a blocked call never says that the tools are switched off when the
\* daemon was down for the whole call and could not have been asked.
GuidanceIsTrue == line.text = "disabled" => ~line.down
=============================================================================
