----------------------------- MODULE Listeners -----------------------------
(***************************************************************************)
(* The sockets a starting daemon takes: the HTTP and HTTPS pair with its   *)
(* fallback and the DNS responder's UDP and TCP pair,                      *)
(* while other programs take and give back ports between any two attempts; *)
(* and what the DNS responder then answers to whom.  No failure stops the  *)
(* start: what could not be bound is reported as unbound.                  *)
(***************************************************************************)
EXTENDS Integers, FiniteSets

CONSTANTS
  Desired, Fallback,   \* HTTP and HTTPS pairs a configuration may name
  DnsPorts,            \* DNS ports it may name, 0 for any
  AnyPorts,            \* what the system may hand out for port 0
  RETRY_BUDGET,        \* UDP and TCP attempts for port 0
  MaxMoves             \* ports other programs take or give back

VARIABLES
  os, lan, may,              \* the system, LAN mode, and may the daemon bind low ports?
  desired, fallback, dns_port, \* the configuration
  lan_ip,                    \* was the host's LAN address found?
  others,                    \* TCP ports of other programs
  step,
  tried,                     \* outcomes on the desired pair
  again,                     \* outcomes on the fallback pair
  http, https, udp, tcp,     \* sockets held, 0 for none
  attempt, moves

conf == <<os, lan, may, desired, fallback, dns_port, lan_ip>>
vars == <<conf, others, step, tried, again, http, https, udp, tcp, attempt, moves>>

PRIVILEGED_PORT_CEILING == 1024
is_privileged(port) == port # 0 /\ port < PRIVILEGED_PORT_CEILING

\* strip_privileged_desired: macOS never binds a low port, a redirect leads there.
strip_privileged_desired(want, fall) ==
    IF is_privileged(want[1]) \/ is_privileged(want[2]) THEN fall ELSE want

Want == IF os = "macos" THEN strip_privileged_desired(desired, fallback) ELSE desired

is_retry_kind(outcome) == outcome \in {"denied", "in_use", "not_available"}

\* What binding a TCP port may come to; "other" is any further failure.
Outcomes(port) ==
    {"not_available", "other"} \cup
      IF is_privileged(port) /\ ~may THEN {"denied"}
      ELSE IF port \in others \cup {http, https, tcp} THEN {"in_use"} ELSE {"ok"}

Init ==
    /\ os \in {"linux", "macos"} /\ lan \in BOOLEAN /\ may \in BOOLEAN
    /\ desired \in Desired /\ fallback \in Fallback /\ dns_port \in DnsPorts /\ lan_ip \in BOOLEAN
    /\ others = {} /\ step = "http" /\ tried = <<"none", "none">> /\ again = <<"none", "none">>
    /\ http = 0 /\ https = 0 /\ udp = 0 /\ tcp = 0 /\ attempt = 0 /\ moves = 0

OthersMove(port) ==
    /\ moves < MaxMoves /\ step # "up" /\ port \notin {0, http, https, tcp} /\ moves' = moves + 1
    /\ others' = IF port \in others THEN others \ {port} ELSE others \cup {port}
    /\ UNCHANGED <<conf, step, tried, again, http, https, udp, tcp, attempt>>

Taken(port, outcome) == IF outcome = "ok" THEN port ELSE 0

BindHttp == \E o \in Outcomes(Want[1]) :
    /\ step = "http" /\ step' = "https" /\ tried' = [tried EXCEPT ![1] = o] /\ http' = Taken(Want[1], o)
    /\ UNCHANGED <<conf, others, again, https, udp, tcp, attempt, moves>>

BindHttps == \E o \in Outcomes(Want[2]) :
    /\ step = "https" /\ step' = "classify" /\ tried' = [tried EXCEPT ![2] = o] /\ https' = Taken(Want[2], o)
    /\ UNCHANGED <<conf, others, again, http, udp, tcp, attempt, moves>>

BothOk(outcomes) == outcomes[1] = "ok" /\ outcomes[2] = "ok"

\* classify_desired: another port may cure a failure of the retry kinds only.
classify_desired(outcomes) ==
    IF BothOk(outcomes) THEN "keep"
    ELSE IF \A i \in {1, 2} : outcomes[i] = "ok" \/ is_retry_kind(outcomes[i]) THEN "fallback" ELSE "fail"

\* An attempt's sockets are kept as a pair or dropped as a pair.
Settle(outcomes) ==
    http' = (IF BothOk(outcomes) THEN http ELSE 0) /\ https' = (IF BothOk(outcomes) THEN https ELSE 0)

ClassifyDesired_keeps_half ==
    /\ step = "classify"
    /\ step' = IF http # 0 \/ https # 0 THEN "dns" ELSE "fallback"
    /\ UNCHANGED <<conf, others, tried, again, http, https, udp, tcp, attempt, moves>>

ClassifyDesired ==
    /\ step = "classify"
    /\ step' = (IF classify_desired(tried) = "fallback" THEN "fallback" ELSE "dns") /\ Settle(tried)
    /\ UNCHANGED <<conf, others, tried, again, udp, tcp, attempt, moves>>

FallbackHttp == \E o \in Outcomes(fallback[1]) :
    /\ step = "fallback" /\ step' = "fallback_https" /\ again' = [again EXCEPT ![1] = o]
    /\ http' = Taken(fallback[1], o)
    /\ UNCHANGED <<conf, others, tried, https, udp, tcp, attempt, moves>>

FallbackHttps == \E o \in Outcomes(fallback[2]) :
    /\ step = "fallback_https" /\ step' = "classify_fallback" /\ again' = [again EXCEPT ![2] = o]
    /\ https' = Taken(fallback[2], o)
    /\ UNCHANGED <<conf, others, tried, http, udp, tcp, attempt, moves>>

ClassifyFallback ==
    /\ step = "classify_fallback" /\ step' = "dns" /\ Settle(again)
    /\ UNCHANGED <<conf, others, tried, again, udp, tcp, attempt, moves>>

\* What the daemon reports of the web ports: the pair it serves on, or the pair it could not
\* get, which the user is asked to free or change.
web_ports == IF http # 0 /\ https # 0 THEN [bound |-> <<http, https>>, unbound |-> <<0, 0>>]
             ELSE [bound |-> <<0, 0>>, unbound |-> fallback]

\* Bound::bind: the UDP socket first; a failure there ends it.
BindUdp == \E port \in IF dns_port = 0 THEN AnyPorts ELSE {dns_port} : \E ok \in BOOLEAN :
    /\ step = "dns" /\ attempt' = attempt + 1
    /\ ok => may \/ ~is_privileged(port)
    /\ step' = (IF ok THEN "dns_tcp" ELSE "up") /\ udp' = IF ok THEN port ELSE 0
    /\ UNCHANGED <<conf, others, tried, again, http, https, tcp, moves>>

\* Bound::bind: then TCP on the same port; when that is taken, a port the system chose is
\* given back and another one tried, up to the budget.
BindTcp == \E o \in Outcomes(udp) :
    /\ step = "dns_tcp" /\ tcp' = Taken(udp, o)
    /\ step' = IF o # "ok" /\ dns_port = 0 /\ attempt < RETRY_BUDGET THEN "dns" ELSE "up"
    /\ udp' = IF o = "ok" THEN udp ELSE 0
    /\ UNCHANGED <<conf, others, tried, again, http, https, attempt, moves>>

Next ==
    \/ BindHttp \/ BindHttps \/ ClassifyDesired \/ FallbackHttp \/ FallbackHttps \/ ClassifyFallback
    \/ BindUdp \/ BindTcp
    \/ \E port \in AnyPorts \cup UNION {{p[1], p[2]} : p \in Desired \cup Fallback} : OthersMove(port)

Spec == Init /\ [][Next]_vars

-----------------------------------------------------------------------------
(* What the responder answers.  A source is this host, a LAN device or a    *)
(* stranger; a name is the bare TLD, a name below it, a malformed one below *)
(* it, or foreign.                                                          *)

Sources == {"self", "lan", "stranger"}
QNames == {"apex", "below", "malformed", "foreign"}
QTypes == {"A", "AAAA", "Other"}

\* Responder::answer
answer(name, qtype) ==
    CASE name = "foreign" -> "Refused" [] name = "apex" -> "NoData" [] name = "malformed" -> "NxDomain"
      [] OTHER -> CASE qtype = "A" -> "Loopback4" [] qtype = "AAAA" -> "Loopback6" [] OTHER -> "NoData"

\* AnswerAddrs::a_record_for
a_record_for(src) ==
    IF lan /\ src # "self" THEN (IF lan_ip THEN {"lan_ip"} ELSE {}) ELSE {"127.0.0.1"}

\* handle_request: the records and the response code.
handle_request(src, name, qtype) ==
    LET decision == IF lan /\ src = "stranger" THEN "Refused" ELSE answer(name, qtype)
    IN  [records |-> CASE decision = "Loopback4" -> a_record_for(src)
                       [] decision = "Loopback6" -> (IF lan THEN {} ELSE {"::1"})
                       [] OTHER -> {},
         code |-> CASE decision = "NxDomain" -> "NXDomain" [] decision = "Refused" -> "Refused"
                    [] OTHER -> "NoError"]

\* The sources that reach the socket: without LAN mode it is bound on the loopback address.
Reaching == IF lan THEN Sources ELSE {"self"}

-----------------------------------------------------------------------------
TypeOK ==
    /\ others \subseteq Nat /\ {http, https, udp, tcp} \subseteq Nat /\ attempt \in 0..RETRY_BUDGET
    /\ moves \in 0..MaxMoves

\* A start ends with both web sockets on one configured pair or with neither, on macOS
\* never on low ports; it leaves the wanted pair only when a port of it was refused; and DNS
\* has UDP and TCP on one port or holds neither. No half of a pair stays bound.
PairsWhole ==
    /\ step \in {"dns", "dns_tcp", "up"} =>
         /\ web_ports.bound = <<http, https>> /\ <<http, https>> \in {Want, fallback, <<0, 0>>}
         /\ os = "macos" => ~is_privileged(http) /\ ~is_privileged(https)
         /\ <<http, https>> # Want => ~BothOk(tried)
    /\ step = "up" => udp = tcp /\ (dns_port # 0 /\ udp # 0 => udp = dns_port)
    /\ step # "dns_tcp" => udp = tcp

\* Whoever reaches the responder and gets an address can reach the daemon under it: this
\* host its loopback address, a LAN device the LAN address and, when that was not found, no
\* address (never the loopback one, which would be the device itself), a stranger none at all.
AnswersReachable ==
    \A src \in Reaching, name \in QNames, qtype \in QTypes :
      LET r == handle_request(src, name, qtype)
      IN  /\ r.records # {} => name = "below" /\ r.code = "NoError"
          /\ src = "self" => r.records \subseteq {"127.0.0.1", "::1"}
          /\ src = "lan" => r.records \subseteq {"lan_ip"}
          /\ src = "lan" /\ name = "below" /\ qtype = "A" => (r.records = {} <=> ~lan_ip)
          /\ src = "stranger" => r.records = {} /\ r.code = "Refused"
          /\ src = "self" /\ name = "below" /\ qtype = "A" => r.records # {}
=============================================================================
