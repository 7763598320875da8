--------------------------- MODULE ProxyUpstream ---------------------------
(***************************************************************************)
(* A request the reverse proxy forwards to an upstream over HTTP: a proxy  *)
(* entry or path rule (TCP, then TLS if the target asks for it), or the    *)
(* FrankenPHP backend.  The upstream may be down, may swallow packets, or  *)
(* may die at any moment; an upgrade request turns into a tunnel.          *)
(*                                                                         *)
(* A message's headers are the names it carries and the names its          *)
(* Connection header lists.                                                *)
(***************************************************************************)
EXTENDS Naturals, FiniteSets

VARIABLES
  via, tls,        \* "proxy" or "franken"; is the target https
  host,            \* the upstream: "up", "down" or "silent" (accepts no handshake)
  asks,            \* the client's headers
  stage,           \* where the forwarder is
  passed,          \* the headers the upstream received
  gave,            \* what the upstream answered: a status and headers
  answer,          \* what the client is answered: a status and headers
  ends             \* the two ends of a tunnel: how many are still open

vars == <<via, tls, host, asks, stage, passed, gave, answer, ends>>

Names == {"x", "x-hop", "connection", "te", "upgrade"}
HOP_BY_HOP_FIXED == {"connection", "te"}
Headers == {h \in [names : SUBSET Names, tokens : SUBSET {"x-hop", "upgrade"}] :
              "connection" \in h.names <=> h.tokens # {}}
NoHeaders == [names |-> {}, tokens |-> {}]

is_upgrade(h) == "upgrade" \in h.names /\ "upgrade" \in h.tokens

strip_hop_by_hop_only(h) ==
    [names |-> h.names \ (HOP_BY_HOP_FIXED \cup {"upgrade"} \cup h.tokens), tokens |-> {}]

\* A 101 keeps its Upgrade header and gets a Connection header of its own.
strip_hop_by_hop(h) ==
    [names |-> (h.names \ ((HOP_BY_HOP_FIXED \cup h.tokens) \ {"upgrade"})) \cup {"connection"},
     tokens |-> {"upgrade"}]

\* x-forwarded-*, which replace whatever the client sent.
add_forwarded_headers(h) == [h EXCEPT !.names = @ \cup {"x"}]

Response(status, headers) == [status |-> status, headers |-> headers]
Nothing == Response(0, NoHeaders)
bad_gateway_response == Response(502, NoHeaders)
internal_error_response == Response(500, NoHeaders)

Answer(r) == answer' = r /\ stage' = "answered"

Init ==
    /\ via \in {"proxy", "franken"} /\ tls \in IF via = "proxy" THEN BOOLEAN ELSE {FALSE}
    /\ host \in {"up", "down", "silent"} /\ asks \in Headers
    /\ stage = "connect" /\ passed = NoHeaders /\ gave = Nothing /\ answer = Nothing /\ ends = 0

\* The TCP connect: it succeeds unless the host is down; nothing answers for a silent one.
Connect ==
    /\ stage = "connect" /\ host = "up"
    /\ stage' = IF tls THEN "handshake" ELSE "send"
    /\ UNCHANGED <<via, tls, host, asks, passed, gave, answer, ends>>

ConnectFails ==
    /\ stage = "connect" /\ host = "down"
    /\ Answer(IF via = "proxy" THEN bad_gateway_response ELSE internal_error_response)
    /\ UNCHANGED <<via, tls, host, asks, passed, gave, ends>>

\* UPSTREAM_CONNECT_TIMEOUT bounds the connect and the TLS handshake, each.
TimesOut ==
    /\ stage \in {"connect", "handshake"} /\ host = "silent" /\ via = "proxy"
    /\ Answer(bad_gateway_response)
    /\ UNCHANGED <<via, tls, host, asks, passed, gave, ends>>

\* The certificate is checked against the policy for the target, or the peer goes away.
Handshake ==
    /\ stage = "handshake" /\ host # "silent"
    /\ \/ host = "up" /\ stage' = "send" /\ UNCHANGED answer
       \/ Answer(bad_gateway_response)
    /\ UNCHANGED <<via, tls, host, asks, passed, gave, ends>>

Forwarded == IF via = "proxy" THEN add_forwarded_headers(asks) ELSE asks

Send ==
    /\ stage = "send" /\ host = "up"
    /\ passed' = IF via = "proxy" /\ ~is_upgrade(Forwarded) THEN strip_hop_by_hop_only(Forwarded)
                 ELSE Forwarded
    /\ stage' = "wait"
    /\ UNCHANGED <<via, tls, host, asks, gave, answer, ends>>

\* The request cannot be sent, or no response comes back: a plain request of a proxy is
\* answered 502; an upgrade, and anything to FrankenPHP, is an error of the forwarder.
SendFails ==
    /\ stage \in {"send", "wait"} /\ host = "down" /\ gave = Nothing
    /\ Answer(IF via = "proxy" /\ ~is_upgrade(Forwarded) THEN bad_gateway_response
              ELSE internal_error_response)
    /\ UNCHANGED <<via, tls, host, asks, passed, gave, ends>>

\* The upstream answers; it switches protocols only when it was asked to.
UpstreamAnswers ==
    /\ stage = "wait" /\ host = "up" /\ gave = Nothing
    /\ \E h \in Headers :
         \/ gave' = Response(200, h)
         \/ is_upgrade(passed) /\ is_upgrade(h) /\ gave' = Response(101, h)
    /\ UNCHANGED <<via, tls, host, asks, stage, passed, answer, ends>>

\* tunnel_over: a 101 opens the tunnel, any other answer is passed on as it is.
Upgraded ==
    IF gave.status = 101 THEN Response(101, strip_hop_by_hop(gave.headers))
    ELSE Response(gave.status, strip_hop_by_hop_only(gave.headers))

Relay ==
    /\ stage = "wait" /\ gave # Nothing
    /\ Answer(IF is_upgrade(Forwarded) THEN Upgraded
              ELSE IF via = "proxy" THEN Response(gave.status, strip_hop_by_hop_only(gave.headers))
              ELSE gave)
    /\ ends' = IF answer'.status = 101 THEN 2 ELSE 0
    /\ UNCHANGED <<via, tls, host, asks, passed, gave>>

\* run_tunnel: when one end closes, what is left is copied and the other end is closed.
TunnelEnds ==
    /\ ends > 0 /\ ends' = ends - 1
    /\ UNCHANGED <<via, tls, host, asks, stage, passed, gave, answer>>

UpstreamDies ==
    /\ host # "down" /\ stage \notin {"answered"} /\ host' = "down"
    /\ UNCHANGED <<via, tls, asks, stage, passed, gave, answer, ends>>

UpstreamStalls ==
    /\ host = "up" /\ stage = "handshake" /\ host' = "silent"
    /\ UNCHANGED <<via, tls, asks, stage, passed, gave, answer, ends>>

Step == Connect \/ ConnectFails \/ TimesOut \/ Handshake \/ Send \/ SendFails \/ Relay
Next == Step \/ UpstreamAnswers \/ TunnelEnds \/ UpstreamDies \/ UpstreamStalls

Spec == Init /\ [][Next]_vars /\ WF_vars(Step)

\* ---------------------------------------------------------------- properties
TypeOK == asks \in Headers /\ passed.names \subseteq Names /\ ends \in 0..2

HopByHop(h) == HOP_BY_HOP_FIXED \cup {"upgrade"} \cup h.tokens

\* What concerns one connection stays on it: a proxied exchange passes on no hop-by-hop
\* header, nor one that the Connection header listed, in either direction; the 101 of an
\* upgrade carries exactly its own.
HopByHopStops ==
    /\ (via = "proxy" /\ passed # NoHeaders /\ ~is_upgrade(asks))
         => passed.names \cap HopByHop(asks) = {}
    /\ (via = "proxy" /\ answer.status = 200) => answer.headers.names \cap HopByHop(gave.headers) = {}
    /\ answer.status = 101 => /\ answer.headers.tokens = {"upgrade"}
                              /\ answer.headers.names \cap (HopByHop(gave.headers) \ {"connection", "upgrade"}) = {}

\* The connection to a proxy's upstream is being set up; the host may accept it and then
\* say nothing.
SetUpWaits == via = "proxy" /\ stage \in {"connect", "handshake"}

\* An upstream that goes away before it has answered is a bad gateway.
DeadUpstreamIs502 == (via = "proxy" /\ answer # Nothing /\ gave = Nothing) => answer.status = 502
============================================================================
