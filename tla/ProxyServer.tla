---------------------------- MODULE ProxyServer ----------------------------
(***************************************************************************)
(* ProxyServer::serve: the accept loops of the HTTP and HTTPS listeners,   *)
(* the connections they spawn, the shutdown notification, and the store    *)
(* that issues a leaf certificate for a host when a handshake first asks   *)
(* for it.                                                                 *)
(*                                                                         *)
(* The loops, the shutdown task and the connections are tasks of their     *)
(* own, scheduled in any order; a Notify wakes only those that are already *)
(* waiting on it.                                                          *)
(***************************************************************************)
EXTENDS Naturals, FiniteSets

CONSTANTS
  Loops,           \* the accept loops: {"http"}, or {"http", "https"} when TLS is set up
  Conns            \* connections peers may open

VARIABLES
  filter,          \* peer_filter: LAN mode
  signalled,       \* the shutdown future has resolved and notified
  loop,            \* of each loop: "spawned", "accepting", "woken" or "ended"
  serve,           \* "running" or "returned"
  conn,            \* of each connection: where it is
  from,            \* of each connection: the loop it came to
  lan,             \* of each connection: is its source address a LAN address
  issued,          \* how many leaves the authority has issued
  held,            \* of each connection: the leaf it issued or uses, 0 for none
  cache,           \* the store's cached leaf of the one host, 0 for none
  certFile, keyFile \* the leaf whose certificate, whose key, is on disk

vars == <<filter, signalled, loop, serve, conn, from, lan, issued, held, cache, certFile, keyFile>>
network == <<filter, signalled, loop, serve, from, lan>>
store == <<issued, cache, certFile, keyFile>>

Init ==
    /\ filter \in BOOLEAN /\ signalled = FALSE /\ serve = "running"
    /\ loop = [l \in Loops |-> "spawned"]
    /\ conn = [c \in Conns |-> "outside"] /\ from \in [Conns -> Loops] /\ lan \in [Conns -> BOOLEAN]
    /\ issued = 0 /\ held = [c \in Conns |-> 0] /\ cache = 0 /\ certFile = 0 /\ keyFile = 0

\* ------------------------------------------------------------------ the loops
\* The task runs for the first time and creates its Notified future: a notification
\* that was sent before does not reach it.
LoopStarts(l) ==
    /\ loop[l] = "spawned" /\ loop' = [loop EXCEPT ![l] = "accepting"]
    /\ UNCHANGED <<filter, signalled, serve, conn, from, lan, issued, held, cache, certFile, keyFile>>

Shutdown ==
    /\ ~signalled /\ signalled' = TRUE
    /\ loop' = [l \in Loops |-> IF loop[l] = "accepting" THEN "woken" ELSE loop[l]]
    /\ UNCHANGED <<filter, serve, conn, from, lan, issued, held, cache, certFile, keyFile>>

\* The select is biased: a woken loop ends before it accepts anything more.
LoopEnds(l) ==
    /\ loop[l] = "woken" /\ loop' = [loop EXCEPT ![l] = "ended"]
    /\ UNCHANGED <<filter, signalled, serve, conn, from, lan, issued, held, cache, certFile, keyFile>>

is_lan_source(c) == lan[c]

Accept(c) ==
    /\ conn[c] = "outside" /\ loop[from[c]] = "accepting"
    /\ conn' = [conn EXCEPT ![c] = IF filter /\ ~is_lan_source(c) THEN "closed"
                                   ELSE IF from[c] = "https" THEN "handshake" ELSE "serving"]
    /\ UNCHANGED <<filter, signalled, loop, serve, from, lan, issued, held, cache, certFile, keyFile>>

\* serve waits for the loops and for the shutdown task, not for the connections.
Return ==
    /\ serve = "running" /\ signalled /\ \A l \in Loops : loop[l] = "ended"
    /\ serve' = "returned"
    /\ UNCHANGED <<filter, signalled, loop, conn, from, lan, issued, held, cache, certFile, keyFile>>

\* -------------------------------------------------------- the certificate store
\* certified_key: the cached leaf, or a miss.  No lock is held across the issuing.
Lookup(c) ==
    /\ conn[c] = "handshake"
    /\ IF cache # 0 THEN held' = [held EXCEPT ![c] = cache] /\ conn' = [conn EXCEPT ![c] = "serving"]
       ELSE UNCHANGED held /\ conn' = [conn EXCEPT ![c] = "issue"]
    /\ UNCHANGED <<network, store>>

\* The name is not one to issue for, or the client sent none: the handshake fails.
Refuse(c) ==
    /\ conn[c] \in {"handshake", "issue"} /\ conn' = [conn EXCEPT ![c] = "closed"]
    /\ UNCHANGED <<network, store, held>>

\* issue_and_cache, one step for each thing that another handshake can see.
Issue(c) ==
    /\ conn[c] = "issue" /\ conn' = [conn EXCEPT ![c] = "cert"]
    /\ issued' = issued + 1 /\ held' = [held EXCEPT ![c] = issued + 1]
    /\ UNCHANGED <<network, cache, certFile, keyFile>>

WriteCert(c) ==
    /\ conn[c] = "cert" /\ conn' = [conn EXCEPT ![c] = "key"]
    /\ certFile' \in {held[c], certFile}
    /\ UNCHANGED <<network, issued, held, cache, keyFile>>

WriteKey(c) ==
    /\ conn[c] = "key" /\ conn' = [conn EXCEPT ![c] = "cache"]
    /\ keyFile' \in {held[c], keyFile}
    /\ UNCHANGED <<network, issued, held, cache, certFile>>

\* The leaf does not make a certified key: the handshake fails, nothing is cached.
Unparsed(c) ==
    /\ conn[c] = "cache" /\ conn' = [conn EXCEPT ![c] = "closed"]
    /\ UNCHANGED <<network, store, held>>

Cache(c) ==
    /\ conn[c] = "cache" /\ conn' = [conn EXCEPT ![c] = "serving"]
    /\ cache' = held[c]
    /\ UNCHANGED <<network, issued, held, certFile, keyFile>>

\* The client closes, or hyper's own time limit ends the connection.
Close(c) ==
    /\ conn[c] = "serving" /\ conn' = [conn EXCEPT ![c] = "closed"]
    /\ UNCHANGED <<network, store, held>>

Handshakes == \E c \in Conns :
    \/ Lookup(c) \/ Refuse(c) \/ Issue(c) \/ WriteCert(c) \/ WriteKey(c)
    \/ Unparsed(c) \/ Cache(c)
LoopStep == \E l \in Loops : LoopStarts(l) \/ LoopEnds(l)
Next == LoopStep \/ Shutdown \/ Return \/ Handshakes \/ \E c \in Conns : Accept(c) \/ Close(c)

Fairness == WF_vars(LoopStep) /\ WF_vars(Return)
Spec == Init /\ [][Next]_vars /\ Fairness

\* ---------------------------------------------------------------- properties
TypeOK ==
    /\ loop \in [Loops -> {"spawned", "accepting", "woken", "ended"}]
    /\ held \in [Conns -> 0..issued] /\ cache \in 0..issued /\ {certFile, keyFile} \subseteq 0..issued

\* The shutdown resolved before the loop first ran, and its notification was lost on it: it
\* goes on accepting, and serve does not return.
Missed(l) == signalled /\ loop[l] \in {"spawned", "accepting"}

\* The shutdown has resolved, both loops got the notification, and serve has not returned.
ServeWaits == signalled /\ serve # "returned" /\ \A l \in Loops : ~Missed(l)

\* In LAN mode nothing is served to a peer outside it, on either listener, and no leaf is
\* issued because such a peer asked.
FilteredUnserved == \A c \in Conns : (filter /\ ~lan[c]) => conn[c] \in {"outside", "closed"} /\ held[c] = 0
============================================================================
