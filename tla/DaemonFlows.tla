---------------------------- MODULE DaemonFlows -----------------------------
(***************************************************************************)
(* The request path, and everything in the daemon and around it that       *)
(* somebody waits for: a behaviour picks a part and steps it alone.        *)
(* First the parts about which there are theorems, for every value of the  *)
(* constants: the router, the FastCGI exchange, and the three that report  *)
(* to the user, a site's tunnel, the knowledge of updates and the start    *)
(* from the desktop application.  Then the parts that are only             *)
(* model-checked: they use the same variables, v1 to v14, and a part with  *)
(* fewer of them leaves the others at rest.                                *)
(***************************************************************************)
EXTENDS Router, Integers, Sequences, FiniteSetTheorems, TLAPS

CONSTANTS
    Body, PipeRoom, ChannelRoom, MaxParts, MaxDiscards, MaxOut,  \* FcgiExchange
    Clients, max_restart_attempts, Window, MaxRequests,  \* TunnelManager
    Versions, Pre, MaxCommands, MaxBoots,                \* UpdateCheck
    Calls, Ceiling, MaxFlips                             \* DaemonStart

VARIABLES
    part,
    inst, procs, log, driver, spawned, requests,
    feed, running, channel, mem, disk, releases, due, checker, told, commands, boots,
    up, flips, probe, connected, phase, accept, pending, diagnosed, call, poll, host, events,
    bodyless, client, upload, uploadEnd, wr, stop, half, toFpm, fromFpm, fpm, read, wrote, stdin, rd,
    parts, discarded, response, chan, closed, got, end

Fcgi == INSTANCE FcgiExchange WITH channel <- chan
Tunnel == INSTANCE TunnelManager
Check == INSTANCE UpdateCheck WITH cache <- releases, task <- checker
Begin == INSTANCE DaemonStart

NoTunnel == inst = 0 /\ procs = 0 /\ log = 0 /\ driver = 0 /\ spawned = 0 /\ requests = 0
NoCheck ==
    /\ feed = 0 /\ running = 0 /\ channel = 0 /\ mem = 0 /\ disk = 0 /\ releases = 0 /\ due = 0
    /\ checker = 0 /\ told = 0 /\ commands = 0 /\ boots = 0
NoBegin ==
    /\ up = 0 /\ flips = 0 /\ probe = 0 /\ connected = 0 /\ phase = 0 /\ accept = 0 /\ pending = 0
    /\ diagnosed = 0 /\ call = 0 /\ poll = 0 /\ host = 0 /\ events = 0

tunnelVars == <<inst, procs, log, driver, spawned, requests>>
checkVars == <<feed, running, channel, mem, disk, releases, due, checker, told, commands, boots>>
beginVars ==
    <<up, flips, probe, connected, phase, accept, pending, diagnosed, call, poll, host, events>>
fcgiVars ==
    <<bodyless, client, upload, uploadEnd, wr, stop, half, toFpm, fromFpm, fpm, read, wrote, stdin, rd,
      parts, discarded, response, chan, closed, got, end>>
NoFcgi ==
    /\ bodyless = 0 /\ client = 0 /\ upload = 0 /\ uploadEnd = 0 /\ wr = 0 /\ stop = 0 /\ half = 0
    /\ toFpm = 0 /\ fromFpm = 0 /\ fpm = 0 /\ read = 0 /\ wrote = 0 /\ stdin = 0 /\ rd = 0
    /\ parts = 0 /\ discarded = 0 /\ response = 0 /\ chan = 0 /\ closed = 0 /\ got = 0 /\ end = 0
flowVars == <<tunnelVars, checkVars, beginVars, fcgiVars>>

FlowInit ==
    \/ part = "tunnel" /\ Tunnel!Init /\ NoCheck /\ NoBegin /\ NoFcgi
    \/ part = "updates" /\ Check!Init /\ NoTunnel /\ NoBegin /\ NoFcgi
    \/ part = "start" /\ Begin!Init /\ NoTunnel /\ NoCheck /\ NoFcgi
    \/ part = "exchange" /\ Fcgi!Init /\ NoTunnel /\ NoCheck /\ NoBegin

FlowNext ==
    /\ UNCHANGED part
    /\ \/ part = "tunnel" /\ Tunnel!Next /\ UNCHANGED <<checkVars, beginVars, fcgiVars>>
       \/ part = "updates" /\ Check!Next /\ UNCHANGED <<tunnelVars, beginVars, fcgiVars>>
       \/ part = "start" /\ Begin!Next /\ UNCHANGED <<tunnelVars, checkVars, fcgiVars>>
       \/ part = "exchange" /\ Fcgi!Next /\ UNCHANGED <<tunnelVars, checkVars, beginVars>>

FlowSpec == FlowInit /\ [][FlowNext]_<<part, flowVars>>

\* FcgiExchange: PHP takes the body of a request for complete only when it is, a response
\* that the client sees end cleanly is all that PHP wrote, and an upload under way is not
\* reset by a response that has been settled.
FcgiFaithful ==
    part = "exchange" =>
      Fcgi!TypeOK /\ Fcgi!WholeBodyOrNone /\ Fcgi!CleanEndIsWhole /\ Fcgi!UploadNotReset

\* TunnelManager, UpdateCheck, DaemonStart: what the user is told is so. A running tunnel
\* shows its own process's URL and a stopped one has no child left, an offered version is an
\* update of the one that runs, and a connected application shows no failed start.
ReportsTrue ==
    /\ part = "tunnel" => Tunnel!NothingLeftBehind /\ Tunnel!UrlIsOwn
    /\ part = "updates" => Check!TypeOK /\ Check!OffersAreUpdates
    /\ part = "start" => Begin!TypeOK /\ Begin!NoFailureWhileConnected

-----------------------------------------------------------------------------
(* Router, for any names and patterns.  The agreement of the indexes with  *)
(* the claims is inductive once the types are known.                       *)
RouterInv == TypeOK /\ IndexIsClaims

\* The empty router satisfies the invariant.
LEMMA InitInv == Init => RouterInv
BY PatternsAssumption
   DEF Init, RouterInv, TypeOK, IndexIsClaims, domain_owner, Patterns

\* Entering the patterns of a name that is not there, all of them free, keeps the invariant.
LEMMA EnterInv ==
    ASSUME RouterInv, NEW n \in Claimants, NEW effective \in SUBSET Patterns,
           NEW primary \in Patterns,
           insert_with_domains(n, effective, primary) \/ insert_proxy_with_domains(n, effective, primary)
    PROVE  RouterInv'
<1>1. Insertable(n, effective) /\ Enter(n, effective, primary)
  BY DEF insert_with_domains, insert_proxy_with_domains
<1>2. /\ sites' \cup proxies' = sites \cup proxies \cup {n}
      /\ sites \subseteq sites' /\ sites' \subseteq Claimants /\ proxies' \subseteq Claimants
      /\ sites' \cap proxies' = {}
  BY <1>1 DEF RouterInv, TypeOK, Insertable, insert_with_domains, insert_proxy_with_domains
<1>3. TypeOK'
  BY <1>1, <1>2 DEF RouterInv, TypeOK, Enter, Patterns
<1>4. domains[n] = {}
  BY <1>1 DEF RouterInv, IndexIsClaims, Insertable
<1>5. ASSUME NEW d \in Patterns, NEW m \in Claimants
      PROVE  domain_owner(d)' = m <=> d \in domains'[m]
  <2>1. domain_owner(d)' = IF d \in effective THEN n ELSE domain_owner(d)
    BY <1>1 DEF Enter, domain_owner, Patterns
  <2>2. domains'[m] = IF m = n THEN effective ELSE domains[m]
    BY <1>1 DEF RouterInv, TypeOK, Enter
  <2>3. d \in effective => domain_owner(d) = NoOne
    BY <1>1 DEF Insertable, Taken, domain_owner
  <2>4. domain_owner(d) = m <=> d \in domains[m]
    BY DEF RouterInv, IndexIsClaims
  <2>5. NoOne # m
    BY PatternsAssumption
  <2>6. domain_owner(d) # n
    BY <1>4 DEF RouterInv, IndexIsClaims
  <2> QED BY <2>1, <2>2, <2>3, <2>4, <2>5, <2>6
<1>6. \A m \in Claimants : domains'[m] # {} => m \in sites' \cup proxies'
  BY <1>1, <1>2 DEF RouterInv, TypeOK, IndexIsClaims, Enter
<1> QED BY <1>3, <1>5, <1>6 DEF RouterInv, IndexIsClaims

\* Giving back the patterns of a name, whether a site's or a proxy's, keeps the invariant.
LEMMA LeaveInv ==
    ASSUME RouterInv, NEW n \in Claimants, remove(n) \/ remove_proxy(n)
    PROVE  RouterInv'
<1>1. Leave(n)
  BY DEF remove, remove_proxy
<1>2. /\ sites' \cup proxies' = (sites \cup proxies) \ {n}
      /\ sites' \subseteq Claimants /\ proxies' \subseteq Claimants /\ sites' \cap proxies' = {}
  BY DEF RouterInv, TypeOK, remove, remove_proxy
<1>3. TypeOK'
  BY <1>1, <1>2 DEF RouterInv, TypeOK, Leave, Patterns
<1>4. ASSUME NEW d \in Patterns, NEW m \in Claimants
      PROVE  domain_owner(d)' = m <=> d \in domains'[m]
  <2>1. domain_owner(d)' = IF d \in domains[n] /\ domain_owner(d) = n THEN NoOne ELSE domain_owner(d)
    BY <1>1 DEF Leave, domain_owner, Patterns
  <2>2. domains'[m] = IF m = n THEN {} ELSE domains[m]
    BY <1>1 DEF RouterInv, TypeOK, Leave
  <2>3. (domain_owner(d) = m <=> d \in domains[m]) /\ (domain_owner(d) = n <=> d \in domains[n])
    BY DEF RouterInv, IndexIsClaims
  <2>4. NoOne # m
    BY PatternsAssumption
  <2> QED BY <2>1, <2>2, <2>3, <2>4
<1>5. \A m \in Claimants : domains'[m] # {} => m \in sites' \cup proxies'
  BY <1>1, <1>2 DEF RouterInv, TypeOK, IndexIsClaims, Leave
<1> QED BY <1>3, <1>4, <1>5 DEF RouterInv, IndexIsClaims

\* Every step keeps the invariant: attaching rules touches neither claims nor indexes.
LEMMA NextInv == RouterInv /\ [Next]_vars => RouterInv'
<1> SUFFICES ASSUME RouterInv, [Next]_vars PROVE RouterInv'
  OBVIOUS
<1>1. CASE UNCHANGED vars
  BY <1>1 DEF vars, RouterInv, TypeOK, IndexIsClaims, domain_owner
<1>2. ASSUME NEW n \in Claimants, NEW some \in BOOLEAN,
             set_proxy_rules(n, some) \/ set_route_rules(n, some)
      PROVE  RouterInv'
  BY <1>2 DEF set_proxy_rules, set_route_rules, RouterInv, TypeOK, IndexIsClaims, domain_owner
<1> QED BY <1>1, <1>2, EnterInv, LeaveInv DEF Next

\* The indexes of the router agree with the claims for any set of names, patterns and
\* wildcards, after any sequence of inserts, failed inserts and removals.
THEOREM IndexAlwaysClaims == Spec => []IndexIsClaims
<1>1. RouterInv => IndexIsClaims
  BY DEF RouterInv
<1> QED BY InitInv, NextInv, <1>1, PTL DEF Spec

\* A host leads to whoever claims it, by its exact name before any wildcard, and to nobody
\* who has left, whatever was inserted before and after.
THEOREM HostsAlwaysReachOwners == Spec => []HostsReachOwners
<1>1. RouterInv => HostsReachOwners
  <2> SUFFICES ASSUME RouterInv, NEW h \in Exact
               PROVE  /\ \A n \in Claimants : h \in domains[n] => resolve_route(h) = n
                      /\ resolve_route(h) # NoOne =>
                           /\ resolve_route(h) \in sites \cup proxies
                           /\ {h, Covers[h]} \cap domains[resolve_route(h)] # {}
    BY DEF HostsReachOwners
  <2>1. /\ exact[h] \in Claimants \cup {NoOne} /\ domain_owner(h) = exact[h]
        /\ Covers[h] \in Wild \cup {NoOne}
    BY PatternsAssumption DEF RouterInv, TypeOK, domain_owner
  <2>2. \A n \in Claimants : exact[h] = n <=> h \in domains[n]
    BY <2>1 DEF RouterInv, IndexIsClaims, Patterns
  <2>3. ASSUME NEW n \in Claimants, h \in domains[n] PROVE resolve_route(h) = n
    BY <2>2, <2>3, PatternsAssumption DEF resolve_route
  <2>4. ASSUME resolve_route(h) # NoOne
        PROVE  /\ resolve_route(h) \in sites \cup proxies
               /\ {h, Covers[h]} \cap domains[resolve_route(h)] # {}
    <3>1. CASE exact[h] # NoOne
      <4>1. resolve_route(h) = exact[h] /\ exact[h] \in Claimants /\ h \in domains[exact[h]]
        BY <2>1, <2>2, <3>1 DEF resolve_route
      <4> QED BY <4>1 DEF RouterInv, IndexIsClaims
    <3>2. CASE exact[h] = NoOne
      <4>1. Covers[h] \in Wild /\ resolve_route(h) = wildcards[Covers[h]]
        BY <2>1, <2>4, <3>2 DEF resolve_route
      <4>2. resolve_route(h) \in Claimants /\ domain_owner(Covers[h]) = resolve_route(h)
        BY <2>4, <4>1 DEF RouterInv, TypeOK, domain_owner
      <4>3. Covers[h] \in domains[resolve_route(h)]
        BY <4>1, <4>2 DEF RouterInv, IndexIsClaims, Patterns
      <4> QED BY <4>2, <4>3 DEF RouterInv, IndexIsClaims
    <3> QED BY <3>1, <3>2
  <2> QED BY <2>3, <2>4
<1> QED BY InitInv, NextInv, <1>1, PTL DEF Spec

\* The two indexes implement the table of hosts: an insert claims all of its patterns in
\* one step, a removal gives back exactly those of the name, and nothing else changes them.
THEOREM RefinesTable == Spec => ImplementsTable
<1>1. Init => Table!Init
  BY DEF Init, Table!Init, Owners, domain_owner, Patterns
<1>2. RouterInv /\ [Next]_vars => [Table!Next]_Owners
  <2> SUFFICES ASSUME RouterInv, [Next]_vars PROVE [Table!Next]_Owners
    OBVIOUS
  <2>1. CASE UNCHANGED <<exact, wildcards>>
    BY <2>1 DEF Owners, domain_owner
  <2>2. ASSUME NEW n \in Claimants, NEW effective \in SUBSET Patterns,
               Insertable(n, effective), NEW primary, Enter(n, effective, primary)
        PROVE  Table!Next
    <3>1. \A d \in effective : Owners[d] = NoOne
      BY <2>2 DEF Insertable, Taken, Owners, domain_owner
    <3>2. Owners' = [d \in Patterns |-> IF d \in effective THEN n ELSE Owners[d]]
      BY <2>2 DEF Enter, Owners, domain_owner, Patterns
    <3>3. Table!Claim(n, effective)
      BY <3>1, <3>2 DEF Table!Claim
    <3> QED BY <3>3 DEF Table!Next
  <2>3. ASSUME NEW n \in Claimants, Leave(n) PROVE Table!Next
    <3>1. \A d \in Patterns : domain_owner(d) = n <=> d \in domains[n]
      BY DEF RouterInv, IndexIsClaims
    <3>2. Owners' = [d \in Patterns |-> IF Owners[d] = n THEN NoOne ELSE Owners[d]]
      BY <2>3, <3>1 DEF Leave, Owners, domain_owner, Patterns
    <3> QED BY <3>2 DEF Table!Next, Table!Release
  <2> QED
    BY <2>1, <2>2, <2>3
       DEF Next, vars, insert_with_domains, insert_proxy_with_domains, remove, remove_proxy,
           set_proxy_rules, set_route_rules
<1> QED BY InitInv, NextInv, <1>1, <1>2, PTL DEF Spec, ImplementsTable, Table!Spec

-----------------------------------------------------------------------------
(* FcgiExchange, for bodies of any length and pipes of any room.           *)

ASSUME ExchangeAssumption == Body \in Nat /\ PipeRoom \in Nat /\ ChannelRoom \in Nat

\* How often a record is in a pipe.
Count(s, x) == Cardinality({i \in 1 .. Len(s) : s[i] = x})

LEMMA CountNat ==
    ASSUME NEW S, NEW s \in Seq(S), NEW x
    PROVE  IsFiniteSet({i \in 1 .. Len(s) : s[i] = x}) /\ Count(s, x) \in Nat
<1>1. IsFiniteSet(1 .. Len(s))
  <2>1. 1 \in Int /\ Len(s) \in Int OBVIOUS
  <2> QED BY Zenon, <2>1, FS_Interval
<1>2. {i \in 1 .. Len(s) : s[i] = x} \in SUBSET (1 .. Len(s))
  BY Zenon
<1> QED BY Zenon, <1>1, <1>2, FS_Subset, FS_CardinalityType DEF Count

LEMMA CountAppend ==
    ASSUME NEW S, NEW s \in Seq(S), NEW k \in S, NEW x
    PROVE  /\ k = x => Count(Append(s, k), x) = Count(s, x) + 1
           /\ k # x => Count(Append(s, k), x) = Count(s, x)
<1> DEFINE A == {i \in 1 .. Len(s) : s[i] = x}
           B == {i \in 1 .. Len(Append(s, k)) : Append(s, k)[i] = x}
<1>1. B = IF k = x THEN A \cup {Len(s) + 1} ELSE A
  <2>1. Len(Append(s, k)) = Len(s) + 1 /\ Append(s, k)[Len(s) + 1] = k
    OBVIOUS
  <2>2. \A i \in 1 .. Len(s) : Append(s, k)[i] = s[i]
    OBVIOUS
  <2>3. 1 .. (Len(s) + 1) = (1 .. Len(s)) \cup {Len(s) + 1}
    <3>1. Len(s) \in Nat OBVIOUS
    <3> QED BY <3>1
  <2>4. B = {i \in (1 .. Len(s)) \cup {Len(s) + 1} : Append(s, k)[i] = x}
    BY Zenon, <2>1, <2>3
  <2> HIDE DEF B
  <2> QED BY Zenon, <2>1, <2>2, <2>4
<1>2. Len(s) + 1 \notin A
  OBVIOUS
<1>3. IsFiniteSet(A) /\ Cardinality(A) \in Nat
  BY Zenon, CountNat DEF Count
<1> HIDE DEF A, B
<1>4. Cardinality(A \cup {Len(s) + 1}) = Cardinality(A) + 1
  BY Zenon, <1>2, <1>3, FS_AddElement
<1> QED BY Zenon, <1>1, <1>4 DEF Count, A, B

LEMMA CountTail ==
    ASSUME NEW S, NEW s \in Seq(S), s # <<>>, NEW x
    PROVE  Count(s, x) = Count(Tail(s), x) + (IF Head(s) = x THEN 1 ELSE 0)
<1> DEFINE A == {i \in 1 .. Len(s) : s[i] = x}
           B == {i \in 1 .. Len(Tail(s)) : Tail(s)[i] = x}
           f == [i \in B |-> i + 1]
<1>1. Tail(s) \in Seq(S)
  OBVIOUS
<1>2. IsFiniteSet(A) /\ Cardinality(A) \in Nat /\ IsFiniteSet(B) /\ Cardinality(B) \in Nat
  BY Zenon, <1>1, CountNat DEF Count
<1>3. f \in Bijection(B, A \ {1})
  <2>1. Len(Tail(s)) = Len(s) - 1 /\ Len(s) \in Nat /\ Len(s) >= 1
    OBVIOUS
  <2>2. \A i \in 1 .. Len(Tail(s)) : Tail(s)[i] = s[i + 1]
    OBVIOUS
  <2>3. \A i \in B : i \in Nat /\ i + 1 \in A \ {1}
    BY <2>1, <2>2
  <2>4. \A j \in A \ {1} : j \in Nat /\ j - 1 \in B /\ (j - 1) + 1 = j
    BY <2>1, <2>2
  <2> HIDE DEF A, B
  <2>5. \A i, j \in B : i + 1 = j + 1 => i = j
    BY <2>3
  <2>6. f \in [B -> A \ {1}] /\ \A i, j \in B : f[i] = f[j] => i = j
    BY Zenon, <2>3, <2>5
  <2>7. \A j \in A \ {1} : \E i \in B : f[i] = j
    BY Zenon, <2>4
  <2> HIDE DEF f
  <2> QED BY Zenon, <2>6, <2>7 DEF Bijection, Injection, IsInjective, Surjection
<1>4. Cardinality(A \ {1}) = Cardinality(B)
  <2> HIDE DEF A, B, f
  <2>1. ExistsBijection(B, A \ {1})
    BY Zenon, <1>3 DEF ExistsBijection
  <2> QED BY Zenon, <1>2, <2>1, FS_Bijection
<1>5. 1 \in A <=> Head(s) = x
  OBVIOUS
<1>6. Cardinality(A \ {1}) = IF 1 \in A THEN Cardinality(A) - 1 ELSE Cardinality(A)
  <2> HIDE DEF A, B, f
  <2> QED BY Zenon, <1>2, FS_RemoveElement
<1>7. Cardinality(A) = Cardinality(B) + (IF Head(s) = x THEN 1 ELSE 0)
  <2> HIDE DEF A, B, f
  <2> QED BY <1>2, <1>4, <1>5, <1>6
<1> QED BY Zenon, <1>7 DEF Count

ToFpm == {"begin", "stdin", "term", "shutdown"}

UpTypes ==
    /\ upload \in 0 .. Body /\ uploadEnd \in {"more", "done", "broken"}
    /\ wr \in {"prelude", "body", "term", "drain", "done", "aborted"} /\ half \in BOOLEAN
    /\ toFpm \in Seq(ToFpm) /\ fpm \in {"open", "closed"} /\ read \in Nat
    /\ stdin \in {"open", "complete", "cut"}

\* The upload: frames are counted from the client to the worker, and a terminator is on its
\* way only once the last of them has been taken.
UpInv ==
    /\ UpTypes
    /\ Len(toFpm) <= PipeRoom + 1 /\ (wr \in {"prelude", "body"} => half /\ Len(toFpm) <= PipeRoom)
    /\ (uploadEnd = "more" => upload > 0) /\ (uploadEnd = "done" => upload = 0)
    /\ Count(toFpm, "stdin") + read + upload <= Body
    /\ (stdin = "complete" \/ \E i \in 1 .. Len(toFpm) : toFpm[i] = "term") => uploadEnd = "done"

LEMMA UpStarts == ASSUME Fcgi!Init PROVE UpInv
<1>1. Count(<<>>, "stdin") = 0
  <2>1. {i \in 1 .. Len(<<>>) : <<>>[i] = "stdin"} = {} OBVIOUS
  <2> QED BY Zenon, <2>1, FS_EmptySet DEF Count
<1> QED BY <1>1, ExchangeAssumption DEF Fcgi!Init, UpInv, UpTypes

\* The writer is stopped, dropped or goes on to drain, or the worker closes: nothing is
\* taken from the client and nothing moves in the pipe.
LEMMA UpRests ==
    ASSUME UpInv, UNCHANGED <<upload, toFpm, read, stdin>>, fpm' \in {"open", "closed"}, half' \in BOOLEAN,
           (wr' = wr /\ half' = half) \/ wr' \in {"drain", "done", "aborted"},
           uploadEnd' = uploadEnd \/ (uploadEnd = "more" /\ uploadEnd' = "broken")
    PROVE  UpInv'
<1>1. UpTypes'
  BY Zenon DEF UpInv, UpTypes
<1>2. (uploadEnd' = "more" => upload' > 0) /\ (uploadEnd' = "done" => upload' = 0)
  BY Zenon DEF UpInv
<1>3. (stdin' = "complete" \/ \E i \in 1 .. Len(toFpm') : toFpm'[i] = "term") => uploadEnd' = "done"
  BY Zenon DEF UpInv
<1>4. wr' \in {"prelude", "body"} => half' /\ Len(toFpm') <= PipeRoom
  BY Zenon DEF UpInv
<1> QED BY Zenon, <1>1, <1>2, <1>3, <1>4 DEF UpInv

\* A record goes into the pipe, a frame being taken from the client for a STDIN record.
LEMMA UpAppends ==
    ASSUME UpInv, NEW k \in ToFpm, toFpm' = Append(toFpm, k), UNCHANGED <<fpm, read, stdin>>,
           Len(toFpm) <= PipeRoom, wr' \in {"prelude", "body"} => Len(toFpm) < PipeRoom /\ half' = TRUE,
           wr' \in {"prelude", "body", "drain"}, half' \in BOOLEAN,
           IF k = "stdin"
           THEN /\ upload > 0 /\ uploadEnd # "broken" /\ upload' = upload - 1
                /\ uploadEnd' = (IF upload' = 0 THEN "done" ELSE uploadEnd)
           ELSE UNCHANGED <<upload, uploadEnd>>,
           k = "term" => uploadEnd = "done"
    PROVE  UpInv'
<1>1. toFpm' \in Seq(ToFpm) /\ Len(toFpm') = Len(toFpm) + 1 /\ Len(toFpm) \in Nat
  BY DEF UpInv, UpTypes
<1>2. Count(toFpm, "stdin") \in Nat
  BY Zenon, CountNat DEF UpInv, UpTypes
<1>3. Count(toFpm', "stdin") = Count(toFpm, "stdin") + (IF k = "stdin" THEN 1 ELSE 0)
  <2>1. toFpm \in Seq(ToFpm)
    BY Zenon DEF UpInv, UpTypes
  <2>2. /\ k = "stdin" => Count(Append(toFpm, k), "stdin") = Count(toFpm, "stdin") + 1
        /\ k # "stdin" => Count(Append(toFpm, k), "stdin") = Count(toFpm, "stdin")
    BY Zenon, <2>1, CountAppend
  <2> QED BY <1>2, <2>2
<1>4. upload' \in 0 .. Body /\ Count(toFpm', "stdin") + read' + upload' <= Body
  <2>1. upload \in 0 .. Body /\ read \in Nat /\ read' = read /\ Count(toFpm, "stdin") + read + upload <= Body
    BY Zenon DEF UpInv, UpTypes
  <2>2. CASE k = "stdin"
    BY <1>2, <1>3, <2>1, <2>2, ExchangeAssumption
  <2>3. CASE k # "stdin"
    BY <1>2, <1>3, <2>1, <2>3, ExchangeAssumption
  <2> QED BY Zenon, <2>2, <2>3
<1>5. uploadEnd' \in {"more", "done", "broken"} /\ (uploadEnd' = "more" => upload' > 0) /\ (uploadEnd' = "done" => upload' = 0)
  <2>1. CASE k = "stdin"
    <3>1. upload' \in Nat /\ (upload' > 0 <=> upload' # 0)
      BY <1>4, ExchangeAssumption
    <3>2. uploadEnd = "more"
      <4>1. upload # 0 BY <2>1 DEF UpInv, UpTypes
      <4> QED BY Zenon, <2>1, <4>1 DEF UpInv, UpTypes
    <3> QED BY Zenon, <2>1, <3>1, <3>2
  <2>2. CASE k # "stdin"
    BY Zenon, <2>2 DEF UpInv, UpTypes
  <2> QED BY Zenon, <2>1, <2>2
<1>6. (stdin' = "complete" \/ \E i \in 1 .. Len(toFpm') : toFpm'[i] = "term") => uploadEnd' = "done"
  <2>1. uploadEnd = "done" => uploadEnd' = "done"
    BY Zenon
  <2>2. \A i \in 1 .. Len(toFpm') : toFpm'[i] = "term" => k = "term" \/ (i \in 1 .. Len(toFpm) /\ toFpm[i] = "term")
    BY DEF UpInv, UpTypes
  <2> QED BY Zenon, <2>1, <2>2 DEF UpInv
<1>7. Len(toFpm') <= PipeRoom + 1 /\ (wr' \in {"prelude", "body"} => half' /\ Len(toFpm') <= PipeRoom)
  BY <1>1, ExchangeAssumption
<1>8. UpTypes'
  BY Zenon, <1>1, <1>4, <1>5 DEF UpInv, UpTypes
<1> QED BY Zenon, <1>4, <1>5, <1>6, <1>7, <1>8 DEF UpInv

\* A frame is taken from the client, and goes nowhere.
LEMMA UpDiscards ==
    ASSUME UpInv, upload > 0, uploadEnd # "broken", upload' = upload - 1,
           uploadEnd' = (IF upload' = 0 THEN "done" ELSE uploadEnd), UNCHANGED <<toFpm, read, stdin, fpm>>,
           (wr' = wr /\ half' = half) \/ (wr' = "drain" /\ half' \in BOOLEAN)
    PROVE  UpInv'
<1>1. upload \in 0 .. Body /\ read \in Nat /\ Count(toFpm, "stdin") + read + upload <= Body
  BY Zenon DEF UpInv, UpTypes
<1>2. uploadEnd = "more"
  <2>1. upload # 0 BY <1>1
  <2> QED BY Zenon, <2>1 DEF UpInv, UpTypes
<1>3. Count(toFpm, "stdin") \in Nat
  BY Zenon, CountNat DEF UpInv, UpTypes
<1>4. /\ upload' \in 0 .. Body /\ Count(toFpm, "stdin") + read + upload' <= Body
      /\ upload' > 0 <=> upload' # 0
  BY <1>1, <1>3, ExchangeAssumption
<1>5. ~(stdin = "complete" \/ \E i \in 1 .. Len(toFpm) : toFpm[i] = "term")
  BY Zenon, <1>2 DEF UpInv
<1>6. UpTypes'
  BY Zenon, <1>2, <1>4 DEF UpInv, UpTypes
<1>7. (uploadEnd' = "more" => upload' > 0) /\ (uploadEnd' = "done" => upload' = 0)
  BY Zenon, <1>2, <1>4
<1>8. Len(toFpm') <= PipeRoom + 1 /\ (wr' \in {"prelude", "body"} => half' /\ Len(toFpm') <= PipeRoom)
  BY Zenon DEF UpInv
<1> QED BY Zenon, <1>4, <1>5, <1>6, <1>7, <1>8 DEF UpInv, Count

LEMMA UpDrains == ASSUME UpInv, Fcgi!drain_client_body PROVE UpInv'
<1>1. CASE uploadEnd # "more"
  <2>1. UNCHANGED <<upload, uploadEnd, toFpm, read, stdin, fpm, half>> /\ wr' = "done"
    BY Zenon, <1>1 DEF Fcgi!drain_client_body, Fcgi!Fpm
  <2> QED BY Zenon, <2>1, UpRests DEF UpInv, UpTypes
<1>2. CASE uploadEnd = "more"
  <2>1. /\ upload' = upload - 1 /\ uploadEnd' = (IF upload' = 0 THEN "done" ELSE uploadEnd)
        /\ UNCHANGED <<wr, toFpm, read, stdin, fpm, half>> /\ upload > 0
    BY Zenon, <1>2 DEF Fcgi!drain_client_body, Fcgi!Fpm, UpInv
  <2> QED BY Zenon, <1>2, <2>1, UpDiscards
<1> QED BY Zenon, <1>1, <1>2

LEMMA UpTaken == ASSUME UpInv, Fcgi!FpmReads PROVE UpInv'
<1>1. /\ toFpm # <<>> /\ toFpm' = Tail(toFpm) /\ UNCHANGED <<upload, uploadEnd, wr, half>>
      /\ read' = (IF Head(toFpm) = "stdin" THEN read + 1 ELSE read)
      /\ fpm' \in {"open", "closed"}
  BY Zenon DEF Fcgi!FpmReads, Fcgi!Client
<1>2. toFpm \in Seq(ToFpm) /\ toFpm' \in Seq(ToFpm) /\ Len(toFpm') = Len(toFpm) - 1 /\ Len(toFpm) \in Nat
      /\ Head(toFpm) \in ToFpm /\ Head(toFpm) = toFpm[1] /\ 1 \in 1 .. Len(toFpm)
  BY <1>1 DEF UpInv, UpTypes
<1>3. Count(toFpm, "stdin") = Count(toFpm', "stdin") + (IF Head(toFpm) = "stdin" THEN 1 ELSE 0)
  BY Zenon, <1>1, <1>2, CountTail
<1>4. Count(toFpm', "stdin") \in Nat
  BY Zenon, <1>2, CountNat
<1>5. read' \in Nat /\ Count(toFpm', "stdin") + read' + upload' <= Body
  <2>1. upload \in 0 .. Body /\ read \in Nat /\ Count(toFpm, "stdin") + read + upload <= Body
    BY Zenon DEF UpInv, UpTypes
  <2> QED BY <1>1, <1>3, <1>4, <2>1, ExchangeAssumption
<1>6. stdin' = (CASE Head(toFpm) = "term" -> "complete" [] Head(toFpm) = "shutdown" -> "cut" [] OTHER -> stdin)
  BY Zenon DEF Fcgi!FpmReads
<1>7. stdin' \in {"open", "complete", "cut"} /\ (stdin' = "complete" => stdin = "complete" \/ Head(toFpm) = "term")
  <2>1. CASE Head(toFpm) = "term"
    BY Zenon, <1>6, <2>1
  <2>2. CASE Head(toFpm) = "shutdown"
    BY Zenon, <1>6, <2>2
  <2>3. CASE Head(toFpm) # "term" /\ Head(toFpm) # "shutdown"
    BY Zenon, <1>6, <2>3 DEF UpInv, UpTypes
  <2> QED BY Zenon, <2>1, <2>2, <2>3
<1>8. \A i \in 1 .. Len(toFpm') : i + 1 \in 1 .. Len(toFpm) /\ toFpm'[i] = toFpm[i + 1]
  BY <1>1, <1>2
<1>9. (stdin' = "complete" \/ \E i \in 1 .. Len(toFpm') : toFpm'[i] = "term") => uploadEnd' = "done"
  BY Zenon, <1>1, <1>2, <1>7, <1>8 DEF UpInv
<1>10. Len(toFpm') <= PipeRoom + 1 /\ (wr' \in {"prelude", "body"} => half' /\ Len(toFpm') <= PipeRoom)
  <2>1. Len(toFpm) <= PipeRoom + 1 /\ (wr' \in {"prelude", "body"} => half' /\ Len(toFpm) <= PipeRoom)
    BY Zenon, <1>1 DEF UpInv
  <2> QED BY <1>2, <2>1, ExchangeAssumption
<1>11. UpTypes'
  BY Zenon, <1>1, <1>2, <1>5, <1>7 DEF UpInv, UpTypes
<1>12. (uploadEnd' = "more" => upload' > 0) /\ (uploadEnd' = "done" => upload' = 0)
  BY Zenon, <1>1 DEF UpInv
<1> QED BY Zenon, <1>5, <1>9, <1>10, <1>11, <1>12 DEF UpInv

LEMMA UpWrites ==
    ASSUME UpInv,
           Fcgi!WritePrelude \/ Fcgi!WriteBody \/ Fcgi!BodyFails \/ Fcgi!WriteEnd \/ Fcgi!Stopped
    PROVE  UpInv'
<1>0. wr \in {"prelude", "body"} => Len(toFpm) <= PipeRoom
  BY Zenon DEF UpInv
<1>1. CASE Fcgi!WritePrelude
  <2>1. UNCHANGED <<upload, uploadEnd, fpm, read, stdin>> /\ wr = "prelude"
    BY Zenon, <1>1 DEF Fcgi!WritePrelude, Fcgi!Client, Fcgi!Fpm
  <2>2. CASE toFpm' = Append(toFpm, "begin") /\ wr' = "body" /\ half' = TRUE /\ Len(toFpm) < PipeRoom
    <3>1. "begin" \in ToFpm /\ "begin" # "stdin" /\ "begin" # "term"
      BY Zenon DEF ToFpm
    <3> QED BY Zenon, <1>0, <2>1, <2>2, <3>1, UpAppends
  <2>3. CASE toFpm' = toFpm /\ wr' = "drain" /\ half' = FALSE
    BY Zenon, <2>1, <2>3, UpRests DEF UpInv, UpTypes
  <2> QED BY Zenon, <1>1, <2>2, <2>3 DEF Fcgi!WritePrelude, Fcgi!Write, Fcgi!Room
<1>2. CASE Fcgi!WriteBody
  <2>1. /\ UNCHANGED <<fpm, read, stdin>> /\ wr = "body" /\ uploadEnd # "broken" /\ upload > 0
        /\ upload' = upload - 1 /\ uploadEnd' = (IF upload' = 0 THEN "done" ELSE uploadEnd)
    BY Zenon, <1>2 DEF Fcgi!WriteBody, Fcgi!Fpm
  <2>2. CASE toFpm' = Append(toFpm, "stdin") /\ wr' = "body" /\ half' = TRUE /\ Len(toFpm) < PipeRoom
    <3>1. "stdin" \in ToFpm /\ "stdin" # "term"
      BY Zenon DEF ToFpm
    <3> QED BY Zenon, <1>0, <2>1, <2>2, <3>1, UpAppends
  <2>3. CASE toFpm' = toFpm /\ wr' = "drain" /\ half' = FALSE
    BY Zenon, <2>1, <2>3, UpDiscards
  <2> QED BY Zenon, <1>2, <2>2, <2>3 DEF Fcgi!WriteBody, Fcgi!Write, Fcgi!Room
<1>3. CASE Fcgi!BodyFails
  <2>1. /\ UNCHANGED <<upload, uploadEnd, fpm, read, stdin>> /\ wr = "body"
        /\ toFpm' = Append(toFpm, "shutdown") /\ wr' = "drain" /\ half' = FALSE
    BY Zenon, <1>3 DEF Fcgi!BodyFails, Fcgi!Client, Fcgi!Fpm
  <2>2. "shutdown" \in ToFpm /\ "shutdown" # "stdin" /\ "shutdown" # "term"
    BY Zenon DEF ToFpm
  <2> QED BY Zenon, <1>0, <2>1, <2>2, UpAppends
<1>4. CASE Fcgi!WriteEnd
  <2>1. UNCHANGED <<upload, uploadEnd, fpm, read, stdin>> /\ wr = "body" /\ uploadEnd = "done"
    BY Zenon, <1>4 DEF Fcgi!WriteEnd, Fcgi!Client, Fcgi!Fpm
  <2>2. CASE toFpm' = Append(toFpm, "term") /\ wr' = "drain" /\ half' = FALSE /\ Len(toFpm) < PipeRoom
    <3>1. "term" \in ToFpm /\ "term" # "stdin"
      BY Zenon DEF ToFpm
    <3> QED BY Zenon, <1>0, <2>1, <2>2, <3>1, UpAppends
  <2>3. CASE toFpm' = toFpm /\ wr' = "drain" /\ half' = FALSE
    BY Zenon, <2>1, <2>3, UpRests DEF UpInv, UpTypes
  <2> QED BY Zenon, <1>4, <2>2, <2>3 DEF Fcgi!WriteEnd, Fcgi!Write, Fcgi!Room
<1>5. CASE Fcgi!Stopped
  <2>1. UNCHANGED <<upload, uploadEnd, toFpm, fpm, read, stdin>> /\ wr' = "drain" /\ half' = FALSE
    BY Zenon, <1>5 DEF Fcgi!Stopped, Fcgi!Client, Fcgi!Fpm
  <2> QED BY Zenon, <2>1, UpRests DEF UpInv, UpTypes
<1> QED BY Zenon, <1>1, <1>2, <1>3, <1>4, <1>5

\* The response side leaves the writer alone, or aborts it.
Leaving == UNCHANGED <<wr, half>> \/ (wr' = "aborted" /\ half' = FALSE)

LEMMA ReaderLeaves == ASSUME Fcgi!ReaderStep PROVE Leaving /\ UNCHANGED <<upload, uploadEnd, toFpm, read, stdin, fpm>>
<1>1. Fcgi!Drop \/ Fcgi!Fail \/ Fcgi!wind_down \/ Fcgi!Truncates => Leaving
  BY Zenon DEF Fcgi!Drop, Fcgi!Fail, Fcgi!wind_down, Fcgi!Truncates, Leaving
<1>2. UNCHANGED <<wr, half>> => Leaving
  BY Zenon DEF Leaving
<1>3. CASE Fcgi!ReadHead
  <2>1. Leaving
    <3>1. CASE Fcgi!Take = "part"
      BY Zenon, <1>1, <1>2, <1>3, <3>1 DEF Fcgi!ReadHead
    <3>2. CASE Fcgi!Take \in {"head", "head+"}
      BY Zenon, <1>1, <1>2, <1>3, <3>2 DEF Fcgi!ReadHead
    <3>3. CASE Fcgi!Take = "end"
      BY Zenon, <1>1, <1>2, <1>3, <3>3 DEF Fcgi!ReadHead
    <3>4. CASE Fcgi!Take = "bad"
      BY Zenon, <1>1, <1>2, <1>3, <3>4 DEF Fcgi!ReadHead
    <3>5. CASE ~(Fcgi!Take = "part" \/ Fcgi!Take \in {"head", "head+"} \/ Fcgi!Take = "end" \/ Fcgi!Take = "bad")
      BY Zenon, <1>1, <1>2, <1>3, <3>5 DEF Fcgi!ReadHead
    <3> QED BY Zenon, <3>1, <3>2, <3>3, <3>4, <3>5
  <2> QED BY Zenon, <1>3, <2>1 DEF Fcgi!ReadHead, Fcgi!Client, Fcgi!Fpm
<1>4. CASE Fcgi!drain_to_end_request
  BY Zenon, <1>1, <1>2, <1>4 DEF Fcgi!drain_to_end_request, Fcgi!Client, Fcgi!Fpm
<1>5. CASE Fcgi!read_response
  <2>1. Leaving
    <3>1. CASE Fcgi!Take = "data"
      BY Zenon, <1>1, <1>2, <1>5, <3>1 DEF Fcgi!read_response
    <3>2. CASE Fcgi!Take = "bad"
      BY Zenon, <1>1, <1>2, <1>5, <3>2 DEF Fcgi!read_response
    <3>3. CASE Fcgi!Take = "end"
      BY Zenon, <1>1, <1>2, <1>5, <3>3 DEF Fcgi!read_response
    <3>4. CASE ~(Fcgi!Take = "data" \/ Fcgi!Take = "bad" \/ Fcgi!Take = "end")
      BY Zenon, <1>1, <1>2, <1>5, <3>4 DEF Fcgi!read_response
    <3> QED BY Zenon, <3>1, <3>2, <3>3, <3>4
  <2> QED BY Zenon, <1>5, <2>1 DEF Fcgi!read_response, Fcgi!Client, Fcgi!Fpm
<1> QED BY Zenon, <1>3, <1>4, <1>5 DEF Fcgi!ReaderStep

LEMMA UpSteps == ASSUME UpInv, [Fcgi!Next]_fcgiVars PROVE UpInv'
<1>1. CASE Fcgi!WriterStep
  BY Zenon, <1>1, UpWrites, UpDrains DEF Fcgi!WriterStep
<1>2. CASE Fcgi!ReaderStep
  BY Zenon, <1>2, ReaderLeaves, UpRests DEF Leaving, UpInv, UpTypes
<1>3. CASE Fcgi!BreaksOff \/ Fcgi!Consume \/ Fcgi!SeesEnd
  <2>1. UNCHANGED <<upload, toFpm, read, stdin, fpm, wr, half>>
    BY Zenon, <1>3 DEF Fcgi!BreaksOff, Fcgi!Consume, Fcgi!SeesEnd, Fcgi!Writer, Fcgi!Fpm
  <2>2. uploadEnd' = uploadEnd \/ (uploadEnd = "more" /\ uploadEnd' = "broken")
    BY Zenon, <1>3 DEF Fcgi!BreaksOff, Fcgi!Consume, Fcgi!SeesEnd
  <2> QED BY Zenon, <2>1, <2>2, UpRests DEF UpInv, UpTypes
<1>4. CASE Fcgi!Leaves
  <2>1. UNCHANGED <<upload, toFpm, read, stdin, fpm>>
    BY Zenon, <1>4 DEF Fcgi!Leaves, Fcgi!Fpm
  <2>2. uploadEnd' = uploadEnd \/ (uploadEnd = "more" /\ uploadEnd' = "broken")
    BY Zenon, <1>4 DEF Fcgi!Leaves
  <2>3. UNCHANGED <<wr, half>> \/ (wr' = "aborted" /\ half' = FALSE)
    BY Zenon, <1>4 DEF Fcgi!Leaves, Fcgi!Drop
  <2> QED BY Zenon, <2>1, <2>2, <2>3, UpRests DEF UpInv, UpTypes
<1>5. CASE Fcgi!FpmReads
  BY Zenon, <1>5, UpTaken
<1>6. CASE Fcgi!FpmWrites \/ Fcgi!FpmCloses
  <2>1. UNCHANGED <<upload, uploadEnd, toFpm, read, stdin, wr, half>>
    BY Zenon, <1>6 DEF Fcgi!FpmWrites, Fcgi!FpmCloses, Fcgi!Writer, Fcgi!Client
  <2>2. fpm' \in {"open", "closed"}
    BY Zenon, <1>6 DEF Fcgi!FpmWrites, Fcgi!FpmCloses, UpInv, UpTypes
  <2> QED BY Zenon, <2>1, <2>2, UpRests DEF UpInv, UpTypes
<1>7. CASE UNCHANGED fcgiVars
  <2>1. UNCHANGED <<upload, uploadEnd, toFpm, read, stdin, wr, half, fpm>>
    BY Zenon, <1>7 DEF fcgiVars
  <2> QED BY Zenon, <2>1, UpRests DEF UpInv, UpTypes
<1> QED BY Zenon, <1>1, <1>2, <1>3, <1>4, <1>5, <1>6, <1>7 DEF Fcgi!Next, Fcgi!ClientStep, Fcgi!FpmStep

FromFpm == {"part", "head", "head+", "data", "stderr", "end", "bad"}
Heads == {"head", "head+"}

\* How many records the response side has taken, and the data among the first n.
Received == Len(wrote) - Len(fromFpm)
Data(w, n) == Cardinality({i \in 1 .. n : w[i] \in {"data", "head+"}})

LEMMA DataNat ==
    ASSUME NEW w, NEW n \in Nat
    PROVE  IsFiniteSet({i \in 1 .. n : w[i] \in {"data", "head+"}}) /\ Data(w, n) \in Nat
<1>1. IsFiniteSet(1 .. n)
  <2>1. 1 \in Int /\ n \in Int OBVIOUS
  <2> QED BY Zenon, <2>1, FS_Interval
<1>2. {i \in 1 .. n : w[i] \in {"data", "head+"}} \in SUBSET (1 .. n)
  BY Zenon
<1> QED BY Zenon, <1>1, <1>2, FS_Subset, FS_CardinalityType DEF Data

LEMMA DataStep ==
    ASSUME NEW w, NEW n \in Nat
    PROVE  /\ w[n + 1] \in {"data", "head+"} => Data(w, n + 1) = Data(w, n) + 1
           /\ w[n + 1] \notin {"data", "head+"} => Data(w, n + 1) = Data(w, n)
<1> DEFINE A == {i \in 1 .. n : w[i] \in {"data", "head+"}}
           B == {i \in 1 .. (n + 1) : w[i] \in {"data", "head+"}}
<1>1. 1 .. (n + 1) = (1 .. n) \cup {n + 1}
  OBVIOUS
<1>2. B = IF w[n + 1] \in {"data", "head+"} THEN A \cup {n + 1} ELSE A
  <2>1. B = {i \in (1 .. n) \cup {n + 1} : w[i] \in {"data", "head+"}}
    BY Zenon, <1>1
  <2> HIDE DEF B
  <2> QED BY Zenon, <2>1
<1>3. n + 1 \notin A
  OBVIOUS
<1>4. IsFiniteSet(A)
  BY Zenon, DataNat
<1>5. Data(w, n) = Cardinality(A) /\ Data(w, n + 1) = Cardinality(B)
  BY Zenon DEF Data
<1> HIDE DEF A, B
<1>6. Cardinality(A \cup {n + 1}) = Cardinality(A) + 1
  BY Zenon, <1>3, <1>4, FS_AddElement
<1> QED BY Zenon, <1>2, <1>5, <1>6

LEMMA DataSame ==
    ASSUME NEW w, NEW x, NEW n, \A i \in 1 .. n : w[i] = x[i]
    PROVE  Data(w, n) = Data(x, n)
<1>1. {i \in 1 .. n : w[i] \in {"data", "head+"}} = {i \in 1 .. n : x[i] \in {"data", "head+"}}
  BY Zenon
<1> QED BY Zenon, <1>1 DEF Data

LEMMA DataNone ==
    ASSUME NEW w, NEW n, \A i \in 1 .. n : w[i] \notin {"data", "head+"}
    PROVE  Data(w, n) = 0
<1>1. {i \in 1 .. n : w[i] \in {"data", "head+"}} = {}
  BY Zenon
<1> QED BY Zenon, <1>1, FS_EmptySet DEF Data

\* The pipe from the worker: the last records written and not yet taken.  Data follows a
\* head, there is one head, and an end is the last thing a worker writes.
PipeInv ==
    /\ fpm \in {"open", "closed"} /\ fromFpm \in Seq(FromFpm) /\ wrote \in Seq(FromFpm)
    /\ Len(fromFpm) <= Len(wrote) /\ Len(fromFpm) <= PipeRoom
    /\ \A j \in 1 .. Len(fromFpm) : fromFpm[j] = wrote[Received + j]
    /\ \A i \in 1 .. Len(wrote) : wrote[i] = "data" => \E j \in 1 .. Len(wrote) : j < i /\ wrote[j] \in Heads
    /\ \A i, j \in 1 .. Len(wrote) : i < j /\ wrote[i] \in Heads => wrote[j] \notin {"part", "head", "head+"}
    /\ \A i \in 1 .. Len(wrote) : wrote[i] = "end" => i = Len(wrote) /\ fpm = "closed"

LEMMA PipeRests ==
    ASSUME PipeInv, UNCHANGED <<fromFpm, wrote>>, fpm' = fpm \/ fpm' = "closed"
    PROVE  PipeInv' /\ Received' = Received
<1>1. Received' = Received
  BY Zenon DEF Received
<1>2. \A i \in 1 .. Len(wrote') : wrote'[i] = "end" => i = Len(wrote') /\ fpm' = "closed"
  BY Zenon DEF PipeInv
<1> QED BY Zenon, <1>1, <1>2 DEF PipeInv

LEMMA PipeTaken ==
    ASSUME PipeInv, fromFpm # <<>>, fromFpm' = Tail(fromFpm), UNCHANGED <<fpm, wrote>>
    PROVE  /\ PipeInv' /\ Received \in Nat /\ Received' = Received + 1 /\ Received + 1 \in 1 .. Len(wrote)
           /\ Head(fromFpm) = wrote[Received + 1] /\ Head(fromFpm) \in FromFpm
<1>1. fromFpm \in Seq(FromFpm) /\ wrote \in Seq(FromFpm) /\ Len(fromFpm) <= Len(wrote) /\ Len(fromFpm) <= PipeRoom
  BY Zenon DEF PipeInv
<1>2. /\ Len(fromFpm) \in Nat /\ Len(wrote) \in Nat /\ Len(fromFpm') = Len(fromFpm) - 1 /\ Len(fromFpm) >= 1
      /\ fromFpm' \in Seq(FromFpm) /\ Head(fromFpm) = fromFpm[1] /\ Head(fromFpm) \in FromFpm
  BY <1>1
<1>3. Received \in Nat /\ Received' = Received + 1 /\ Received + 1 \in 1 .. Len(wrote) /\ 1 \in 1 .. Len(fromFpm)
  BY <1>1, <1>2 DEF Received
<1>4. Head(fromFpm) = wrote[Received + 1]
  BY Zenon, <1>2, <1>3 DEF PipeInv
<1>5. \A j \in 1 .. Len(fromFpm') : fromFpm'[j] = wrote'[Received' + j]
  <2> TAKE j \in 1 .. Len(fromFpm')
  <2>1. j + 1 \in 1 .. Len(fromFpm) /\ fromFpm'[j] = fromFpm[j + 1] /\ Received' + j = Received + (j + 1)
    BY <1>1, <1>2, <1>3
  <2> QED BY Zenon, <2>1 DEF PipeInv
<1>6. Len(fromFpm') <= Len(wrote') /\ Len(fromFpm') <= PipeRoom
  BY <1>1, <1>2, ExchangeAssumption
<1> QED BY Zenon, <1>2, <1>3, <1>4, <1>5, <1>6 DEF PipeInv

LEMMA PipeGrows ==
    ASSUME PipeInv, Fcgi!FpmWrites
    PROVE  /\ PipeInv' /\ Received' = Received /\ Received \in Nat /\ fpm = "open"
           /\ \A i \in 1 .. Received : i \in 1 .. Len(wrote) /\ wrote'[i] = wrote[i]
<1>1. PICK k \in FromFpm :
         /\ k = "data" => Fcgi!HeadSent
         /\ k \in {"part", "head", "head+"} => ~Fcgi!HeadSent
         /\ fromFpm' = Append(fromFpm, k) /\ wrote' = Append(wrote, k)
         /\ fpm' = IF k = "end" THEN "closed" ELSE fpm
  BY Zenon DEF Fcgi!FpmWrites, FromFpm
<1>2. fpm = "open" /\ Len(fromFpm) < PipeRoom
  BY Zenon DEF Fcgi!FpmWrites, Fcgi!Room
<1>3. fromFpm \in Seq(FromFpm) /\ wrote \in Seq(FromFpm) /\ Len(fromFpm) <= Len(wrote)
  BY Zenon DEF PipeInv
<1>4. /\ Len(fromFpm) \in Nat /\ Len(wrote) \in Nat /\ Len(fromFpm') = Len(fromFpm) + 1
      /\ Len(wrote') = Len(wrote) + 1 /\ fromFpm' \in Seq(FromFpm) /\ wrote' \in Seq(FromFpm)
      /\ wrote'[Len(wrote) + 1] = k /\ fromFpm'[Len(fromFpm) + 1] = k
  BY <1>1, <1>3
<1>5. Received' = Received /\ Received \in Nat /\ Received + (Len(fromFpm) + 1) = Len(wrote) + 1
  BY <1>3, <1>4 DEF Received
<1>6. \A i \in 1 .. Len(wrote) : wrote'[i] = wrote[i]
  BY <1>1, <1>3
<1>7. \A i \in 1 .. Received : i \in 1 .. Len(wrote) /\ wrote'[i] = wrote[i]
  <2>1. \A i \in 1 .. Received : i \in 1 .. Len(wrote)
    BY <1>3, <1>4, <1>5 DEF Received
  <2> QED BY Zenon, <1>6, <2>1
<1>8. \A j \in 1 .. Len(fromFpm') : fromFpm'[j] = wrote'[Received' + j]
  <2> TAKE j \in 1 .. Len(fromFpm')
  <2>1. CASE j = Len(fromFpm) + 1
    BY Zenon, <1>4, <1>5, <2>1
  <2>2. CASE j # Len(fromFpm) + 1
    <3>1. j \in 1 .. Len(fromFpm) /\ fromFpm'[j] = fromFpm[j]
      BY <1>1, <1>3, <1>4, <2>2
    <3>2. Received + j \in 1 .. Len(wrote)
      BY <1>3, <1>4, <3>1 DEF Received
    <3> QED BY Zenon, <1>5, <1>6, <3>1, <3>2 DEF PipeInv
  <2> QED BY Zenon, <2>1, <2>2
<1>9. \A i \in 1 .. Len(wrote') : i \in 1 .. Len(wrote) \/ (i = Len(wrote) + 1 /\ \A j \in 1 .. Len(wrote) : j < i)
  BY <1>4
<1>10. \A i \in 1 .. Len(wrote) : i \in 1 .. Len(wrote') /\ i # Len(wrote) + 1
  BY <1>4
<1>11. \A i \in 1 .. Len(wrote') : wrote'[i] = "data" => \E j \in 1 .. Len(wrote') : j < i /\ wrote'[j] \in Heads
  <2> SUFFICES ASSUME NEW i \in 1 .. Len(wrote'), wrote'[i] = "data"
               PROVE  \E j \in 1 .. Len(wrote') : j < i /\ wrote'[j] \in Heads
    BY Zenon
  <2>1. CASE i \in 1 .. Len(wrote)
    BY Zenon, <1>6, <1>10, <2>1 DEF PipeInv
  <2>2. CASE i = Len(wrote) + 1 /\ \A j \in 1 .. Len(wrote) : j < i
    BY Zenon, <1>1, <1>4, <1>6, <1>10, <2>2 DEF Fcgi!HeadSent, Heads
  <2> QED BY Zenon, <1>9, <2>1, <2>2
<1>12. \A i, j \in 1 .. Len(wrote') : i < j /\ wrote'[i] \in Heads => wrote'[j] \notin {"part", "head", "head+"}
  <2> SUFFICES ASSUME NEW i \in 1 .. Len(wrote'), NEW j \in 1 .. Len(wrote'), i < j, wrote'[i] \in Heads
               PROVE  wrote'[j] \notin {"part", "head", "head+"}
    BY Zenon
  <2>1. i \in 1 .. Len(wrote)
    BY <1>4
  <2>2. CASE j \in 1 .. Len(wrote)
    BY Zenon, <1>6, <2>1, <2>2 DEF PipeInv
  <2>3. CASE j = Len(wrote) + 1
    BY Zenon, <1>1, <1>4, <1>6, <2>1, <2>3 DEF Fcgi!HeadSent, Heads
  <2> QED BY Zenon, <1>9, <2>2, <2>3
<1>13. \A i \in 1 .. Len(wrote') : wrote'[i] = "end" => i = Len(wrote') /\ fpm' = "closed"
  <2> SUFFICES ASSUME NEW i \in 1 .. Len(wrote'), wrote'[i] = "end"
               PROVE  i = Len(wrote') /\ fpm' = "closed"
    BY Zenon
  <2>1. i \notin 1 .. Len(wrote)
    BY Zenon, <1>2, <1>6 DEF PipeInv
  <2> QED BY Zenon, <1>1, <1>4, <1>9, <2>1
<1>14. Len(fromFpm') <= Len(wrote') /\ Len(fromFpm') <= PipeRoom
  BY <1>2, <1>3, <1>4, ExchangeAssumption
<1>15. fpm' \in {"open", "closed"}
  BY Zenon, <1>1, <1>2
<1>16. PipeInv'
  BY Zenon, <1>4, <1>8, <1>11, <1>12, <1>13, <1>14, <1>15 DEF PipeInv
<1> QED BY Zenon, <1>2, <1>5, <1>7, <1>16

AllData(s) == \A i \in 1 .. Len(s) : s[i] = "data"

InHead ==
    /\ response = "none" /\ chan = <<>> /\ got = 0 /\ ~closed /\ end = "none"
    /\ \A i \in 1 .. Received : wrote[i] \notin {"head", "head+", "data"}
InDrain == bodyless /\ response = "none" /\ chan = <<>> /\ ~closed /\ end = "none"
InStream ==
    /\ response = "head" /\ ~closed /\ end = "none"
    /\ AllData(chan) /\ got + Len(chan) = Data(wrote, Received)
    /\ \E i \in 1 .. Len(wrote) : i < Received + 1 /\ wrote[i] \in Heads

\* A response that failed: the client gets an error, or is going to see it aborted.
Failed ==
    \/ response = "error" /\ chan = <<>> /\ end \in {"none", "error"}
    \/ end = "abort"
    \/ end = "none" /\ chan # <<>> /\ chan[Len(chan)] = "abort"

\* A response that did not: all of it is in the channel or with the client.
Whole ==
    /\ wrote # <<>> /\ wrote[Len(wrote)] = "end" /\ response = "head" /\ end \in {"none", "clean"}
    /\ AllData(chan) /\ got + Len(chan) = Data(wrote, Len(wrote)) /\ (end = "clean" => chan = <<>>)

DownTypes ==
    /\ bodyless \in BOOLEAN /\ client \in {"open", "gone"}
    /\ chan \in Seq({"data", "abort"}) /\ Len(chan) <= ChannelRoom + 1
    /\ got \in Nat /\ end \in {"none", "clean", "abort", "error"}

Phase ==
    \/ rd = "head" /\ InHead
    \/ rd = "drain" /\ InDrain
    \/ rd = "stream" /\ InStream
    \/ rd = "ended" /\ (bodyless \/ client = "gone" \/ Failed \/ Whole)

\* The response, by where its reader is; and a writer is aborted under a client that is
\* still there only when the response has failed.
DownInv ==
    /\ PipeInv /\ DownTypes /\ Phase
    /\ client = "gone" => end = "none"
    /\ client = "open" /\ wr = "aborted" => rd = "ended" /\ Failed

LEMMA DownStarts == ASSUME Fcgi!Init PROVE DownInv
<1>1. PipeInv
  BY ExchangeAssumption DEF Fcgi!Init, PipeInv, Received
<1>2. \A i \in 1 .. Received : wrote[i] \notin {"head", "head+", "data"}
  BY DEF Fcgi!Init, Received
<1>3. Phase
  BY Zenon, <1>2 DEF Fcgi!Init, Phase, InHead
<1>4. DownTypes
  BY ExchangeAssumption DEF Fcgi!Init, DownTypes
<1> QED BY Zenon, <1>1, <1>3, <1>4 DEF Fcgi!Init, DownInv

\* The response itself, which the writer and the upload do not touch.
down == <<bodyless, rd, response, chan, closed, got, end>>

LEMMA DownRests ==
    ASSUME DownInv, UNCHANGED <<down, client, fromFpm, wrote>>, fpm' = fpm \/ fpm' = "closed",
           wr' = wr \/ wr' # "aborted"
    PROVE  DownInv'
<1>1. PipeInv' /\ Received' = Received
  BY Zenon, PipeRests DEF DownInv
<1>2. UNCHANGED <<bodyless, rd, response, chan, closed, got, end>>
  BY Zenon DEF down
<1>3. DownTypes'
  BY Zenon, <1>2 DEF DownInv, DownTypes
<1>4. (Failed => Failed') /\ (Whole => Whole') /\ (InHead => InHead') /\ (InDrain => InDrain') /\ (InStream => InStream')
  BY Zenon, <1>1, <1>2 DEF Failed, Whole, InHead, InDrain, InStream, AllData
<1>5. Phase'
  BY Zenon, <1>2, <1>4 DEF DownInv, Phase
<1> QED BY Zenon, <1>1, <1>2, <1>3, <1>4, <1>5 DEF DownInv

\* The worker writes: what has been taken is as it was.
LEMMA DownGrows == ASSUME DownInv, Fcgi!FpmWrites PROVE DownInv'
<1>1. PipeInv' /\ Received' = Received /\ Received \in Nat /\ fpm = "open"
  BY Zenon, PipeGrows DEF DownInv
<1>2. \A i \in 1 .. Received : i \in 1 .. Len(wrote) /\ wrote'[i] = wrote[i]
  BY Zenon, PipeGrows DEF DownInv
<1>3. UNCHANGED <<bodyless, client, rd, response, chan, closed, got, end, wr>>
  BY Zenon DEF Fcgi!FpmWrites, Fcgi!Client, Fcgi!Writer, Fcgi!Reader
<1>4. DownTypes'
  BY Zenon, <1>3 DEF DownInv, DownTypes
<1>5. ~Whole
  <2>1. wrote # <<>> => Len(wrote) \in 1 .. Len(wrote)
    BY DEF DownInv, PipeInv
  <2> QED BY Zenon, <1>1, <2>1 DEF Whole, DownInv, PipeInv
<1>6. (Failed => Failed') /\ (InHead => InHead') /\ (InDrain => InDrain')
  BY Zenon, <1>1, <1>2, <1>3 DEF Failed, InHead, InDrain
<1>7. InStream => InStream'
  <2> HAVE InStream
  <2>1. Data(wrote', Received') = Data(wrote, Received)
    BY Zenon, <1>1, <1>2, DataSame
  <2>2. PICK i \in 1 .. Len(wrote) : i < Received + 1 /\ wrote[i] \in Heads
    BY Zenon DEF InStream
  <2>3. i \in 1 .. Received
    BY <1>1, <2>2
  <2>4. wrote'[i] \in Heads
    BY Zenon, <1>2, <2>2, <2>3
  <2>5. i \in 1 .. Len(wrote') /\ i < Received' + 1
    <3>1. Len(wrote') \in Nat /\ Len(fromFpm') \in Nat
      BY <1>1 DEF PipeInv
    <3>2. Received' = Len(wrote') - Len(fromFpm')
      BY Zenon DEF Received
    <3> QED BY <1>1, <2>3, <3>1, <3>2
  <2> QED BY Zenon, <1>3, <2>1, <2>4, <2>5 DEF InStream, AllData
<1>8. Phase'
  BY Zenon, <1>3, <1>5, <1>6, <1>7 DEF DownInv, Phase
<1> QED BY Zenon, <1>1, <1>3, <1>4, <1>6, <1>8 DEF DownInv

\* The client's side.
LEMMA DownLeaves == ASSUME DownInv, Fcgi!Leaves PROVE DownInv'
<1>1. /\ UNCHANGED <<bodyless, fromFpm, wrote, fpm, response, chan, closed, got, end>> /\ end = "none"
      /\ client' = "gone"
  BY Zenon DEF Fcgi!Leaves, Fcgi!Fpm
<1>2. PipeInv' /\ Received' = Received
  BY Zenon, <1>1, PipeRests DEF DownInv
<1>3. DownTypes'
  BY Zenon, <1>1 DEF DownInv, DownTypes
<1>4. rd' = rd \/ rd' = "ended"
  BY Zenon DEF Fcgi!Leaves
<1>5. rd \in {"head", "drain"} => rd' = "ended"
  BY Zenon DEF Fcgi!Leaves
<1>6. InStream => InStream'
  BY Zenon, <1>1, <1>2 DEF InStream, AllData
<1>7. Phase'
  BY Zenon, <1>1, <1>4, <1>5, <1>6 DEF DownInv, Phase
<1> QED BY Zenon, <1>1, <1>2, <1>3, <1>7 DEF DownInv

LEMMA DownSeesEnd == ASSUME DownInv, Fcgi!SeesEnd PROVE DownInv'
<1>1. /\ UNCHANGED <<bodyless, client, fromFpm, wrote, fpm, rd, response, chan, closed, got, wr>>
      /\ end = "none" /\ client = "open" /\ chan = <<>>
  BY Zenon DEF Fcgi!SeesEnd, Fcgi!Fpm, Fcgi!Reader, Fcgi!Writer
<1>2. (response = "error" /\ end' = "error") \/ (response = "head" /\ closed /\ end' = "clean")
  BY Zenon DEF Fcgi!SeesEnd
<1>3. PipeInv' /\ Received' = Received
  BY Zenon, <1>1, PipeRests DEF DownInv
<1>4. DownTypes'
  BY Zenon, <1>1, <1>2 DEF DownInv, DownTypes
<1>5. Failed => Failed'
  BY Zenon, <1>1, <1>2 DEF Failed
<1>6. Whole => Whole'
  BY Zenon, <1>1, <1>2 DEF Whole, AllData
<1>7. ~InHead /\ ~InDrain /\ ~InStream
  BY Zenon, <1>2 DEF InHead, InDrain, InStream
<1>8. Phase'
  BY Zenon, <1>1, <1>5, <1>6, <1>7 DEF DownInv, Phase
<1> QED BY Zenon, <1>1, <1>3, <1>4, <1>5, <1>8 DEF DownInv

LEMMA DownConsumes == ASSUME DownInv, Fcgi!Consume PROVE DownInv'
<1>1. /\ UNCHANGED <<bodyless, client, fromFpm, wrote, fpm, rd, response, closed, wr>>
      /\ end = "none" /\ client = "open" /\ chan # <<>> /\ chan' = Tail(chan)
  BY Zenon DEF Fcgi!Consume, Fcgi!Fpm, Fcgi!Writer
<1>2. /\ Head(chan) = "abort" => end' = "abort" /\ got' = got
      /\ Head(chan) # "abort" => got' = got + 1 /\ end' = end
  BY Zenon DEF Fcgi!Consume
<1>3. PipeInv' /\ Received' = Received
  BY Zenon, <1>1, PipeRests DEF DownInv
<1>4. chan \in Seq({"data", "abort"}) /\ got \in Nat /\ Len(chan) <= ChannelRoom + 1
  BY Zenon DEF DownInv, DownTypes
<1>5. /\ chan' \in Seq({"data", "abort"}) /\ Len(chan') = Len(chan) - 1 /\ Len(chan) \in Nat /\ Len(chan) >= 1
      /\ Head(chan) = chan[1] /\ 1 \in 1 .. Len(chan)
      /\ \A i \in 1 .. Len(chan') : i + 1 \in 1 .. Len(chan) /\ chan'[i] = chan[i + 1]
  BY <1>1, <1>4
<1>6. got' \in Nat /\ Len(chan') <= ChannelRoom + 1
  BY <1>2, <1>4, <1>5, ExchangeAssumption
<1>7. end' \in {"none", "abort"}
  BY Zenon, <1>1, <1>2
<1>8. DownTypes'
  BY Zenon, <1>1, <1>5, <1>6, <1>7 DEF DownInv, DownTypes
<1>9. AllData(chan) => AllData(chan') /\ end' = "none" /\ got' + Len(chan') = got + Len(chan)
  <2> HAVE AllData(chan)
  <2>1. Head(chan) # "abort"
    BY Zenon, <1>5 DEF AllData
  <2>2. AllData(chan')
    BY Zenon, <1>5 DEF AllData
  <2>3. got' = got + 1 /\ end' = "none"
    BY Zenon, <1>1, <1>2, <2>1
  <2> QED BY <1>4, <1>5, <2>2, <2>3
<1>10. InStream => InStream'
  BY Zenon, <1>1, <1>3, <1>9 DEF InStream
<1>11. Whole => Whole'
  BY Zenon, <1>1, <1>9 DEF Whole
<1>12. Failed => Failed'
  <2> HAVE Failed
  <2>1. chan[Len(chan)] = "abort"
    BY Zenon, <1>1 DEF Failed
  <2>2. CASE Len(chan) = 1
    BY Zenon, <1>2, <1>5, <2>1, <2>2 DEF Failed
  <2>3. CASE Len(chan) # 1
    <3>1. chan' # <<>> /\ Len(chan') \in 1 .. Len(chan') /\ Len(chan') + 1 = Len(chan)
      BY <1>5, <2>3
    <3>2. chan'[Len(chan')] = "abort"
      BY Zenon, <1>5, <2>1, <3>1
    <3> QED BY Zenon, <1>7, <3>1, <3>2 DEF Failed
  <2> QED BY Zenon, <2>2, <2>3
<1>13. ~InHead /\ ~InDrain
  BY Zenon, <1>1 DEF InHead, InDrain
<1>14. Phase'
  BY Zenon, <1>1, <1>10, <1>11, <1>12, <1>13 DEF DownInv, Phase
<1> QED BY Zenon, <1>1, <1>3, <1>8, <1>12, <1>14 DEF DownInv

\* A failure while no head is out: a clean error.
LEMMA DownFails ==
    ASSUME DownInv, PipeInv', rd \in {"head", "drain"}, Fcgi!Fail,
           UNCHANGED <<bodyless, client, chan, got, end>>
    PROVE  DownInv'
<1>1. chan = <<>> /\ end = "none"
  BY Zenon DEF DownInv, Phase, InHead, InDrain
<1>2. rd' = "ended" /\ response' = "error"
  BY Zenon DEF Fcgi!Fail
<1>3. Failed'
  BY Zenon, <1>1, <1>2 DEF Failed
<1>4. DownTypes'
  BY Zenon DEF DownInv, DownTypes
<1>5. Phase'
  BY Zenon, <1>2, <1>3 DEF Phase
<1> QED BY Zenon, <1>1, <1>2, <1>3, <1>4, <1>5 DEF DownInv

\* The response goes on, or has ended well: the writer is not aborted.
LEMMA DownGoesOn ==
    ASSUME DownInv, PipeInv', DownTypes', Phase', rd # "ended", UNCHANGED <<client, wr, end>>
    PROVE  DownInv'
<1>1. ~(client' = "open" /\ wr' = "aborted")
  BY Zenon DEF DownInv
<1> QED BY Zenon, <1>1 DEF DownInv

LEMMA DownReadsHead == ASSUME DownInv, Fcgi!ReadHead PROVE DownInv'
<1>1. /\ UNCHANGED <<bodyless, client, got, end, fpm, wrote>> /\ rd = "head" /\ rd # "ended" /\ rd # "drain" /\ rd # "stream"
  BY Zenon DEF Fcgi!ReadHead, Fcgi!Client, Fcgi!Fpm
<1>2. InHead
  BY Zenon, <1>1 DEF DownInv, Phase
<1>3. CASE Fcgi!Fail /\ UNCHANGED <<fromFpm, chan>>
  <2>1. PipeInv'
    BY Zenon, <1>1, <1>3, PipeRests DEF DownInv
  <2> QED BY Zenon, <1>1, <1>3, <2>1, DownFails
<1>4. CASE fromFpm # <<>> /\ fromFpm' = Tail(fromFpm)
  <2> DEFINE t == Head(fromFpm)
  <2>1. /\ PipeInv' /\ Received \in Nat /\ Received' = Received + 1 /\ Received + 1 \in 1 .. Len(wrote)
        /\ t = wrote[Received + 1] /\ t \in FromFpm
    BY Zenon, <1>1, <1>4, PipeTaken DEF DownInv
  <2>2. \A i \in 1 .. Received' : i \in 1 .. Received \/ i = Received + 1
    BY <2>1
  <2>3. \A i \in 1 .. Received : i \in 1 .. Len(wrote) /\ i < Received + 1
    <3>1. Len(wrote) \in Nat
      BY DEF DownInv, PipeInv
    <3> QED BY <2>1, <3>1
  <2>4. \A i \in 1 .. Len(wrote) : i < Received + 1 => i \in 1 .. Received
    BY <2>1
  <2>5. t # "data"
    <3> SUFFICES ASSUME t = "data" PROVE FALSE
      OBVIOUS
    <3>1. PICK j \in 1 .. Len(wrote) : j < Received + 1 /\ wrote[j] \in Heads
      BY Zenon, <2>1 DEF DownInv, PipeInv
    <3> QED BY Zenon, <1>2, <2>4, <3>1 DEF InHead, Heads
  <2>6. Data(wrote, Received) = 0
    BY Zenon, <1>2, DataNone DEF InHead
  <2>7. Fcgi!Take = t
    BY DEF Fcgi!Take
  <2>8. CASE t = "part" \/ t = "stderr"
    <3>1. Fcgi!Fail \/ UNCHANGED <<response, rd, wr>>
      BY Zenon, <1>4, <2>7, <2>8 DEF Fcgi!ReadHead, Fcgi!Broken
    <3>2. UNCHANGED <<closed, chan>>
      BY Zenon, <1>4, <2>7, <2>8 DEF Fcgi!ReadHead, Fcgi!Broken
    <3>3. CASE Fcgi!Fail
      BY Zenon, <1>1, <2>1, <3>2, <3>3, DownFails
    <3>4. CASE UNCHANGED <<response, rd, wr>>
      <4>1. \A i \in 1 .. Received' : wrote'[i] \notin {"head", "head+", "data"}
        BY Zenon, <1>1, <1>2, <2>1, <2>2, <2>8 DEF InHead
      <4>2. Phase'
        BY Zenon, <1>1, <1>2, <3>2, <3>4, <4>1 DEF Phase, InHead
      <4>3. DownTypes'
        BY Zenon, <1>1, <3>2 DEF DownInv, DownTypes
      <4> QED BY Zenon, <1>1, <2>1, <3>4, <4>2, <4>3, DownGoesOn
    <3> QED BY Zenon, <3>1, <3>3, <3>4
  <2>9. CASE t \in Heads
    <3>1. /\ IF bodyless THEN rd' = "drain" /\ UNCHANGED <<response, chan>>
             ELSE rd' = "stream" /\ response' = "head" /\ chan' = IF t = "head+" THEN <<"data">> ELSE <<>>
          /\ UNCHANGED <<wr, closed>>
      BY Zenon, <1>4, <2>7, <2>9 DEF Fcgi!ReadHead, Fcgi!Broken, Heads
    <3>2. CASE bodyless
      <4>1. rd' = "drain" /\ UNCHANGED <<response, chan>>
        BY Zenon, <3>1, <3>2
      <4>2. Phase'
        BY Zenon, <1>1, <1>2, <3>1, <3>2, <4>1 DEF Phase, InHead, InDrain
      <4>3. DownTypes'
        BY Zenon, <1>1, <4>1 DEF DownInv, DownTypes
      <4> QED BY Zenon, <1>1, <2>1, <3>1, <4>2, <4>3, DownGoesOn
    <3>3. CASE ~bodyless
      <4>1. rd' = "stream" /\ response' = "head" /\ chan' = (IF t = "head+" THEN <<"data">> ELSE <<>>)
        BY Zenon, <3>1, <3>3
      <4>2. /\ chan' \in Seq({"data", "abort"}) /\ Len(chan') <= ChannelRoom + 1
            /\ AllData(chan') /\ (t = "head+" => Len(chan') = 1) /\ (t # "head+" => Len(chan') = 0)
        <5>1. /\ <<"data">> \in Seq({"data", "abort"}) /\ Len(<<"data">>) = 1 /\ 1 <= ChannelRoom + 1
              /\ <<>> \in Seq({"data", "abort"}) /\ Len(<<>>) = 0 /\ 0 <= ChannelRoom + 1
          BY ExchangeAssumption
        <5>2. AllData(<<"data">>) /\ AllData(<<>>)
          BY DEF AllData
        <5>3. CASE t = "head+"
          <6>1. chan' = <<"data">>
            BY Zenon, <4>1, <5>3
          <6> QED BY Zenon, <5>1, <5>2, <5>3, <6>1
        <5>4. CASE t # "head+"
          <6>1. chan' = <<>>
            BY Zenon, <4>1, <5>4
          <6> QED BY Zenon, <5>1, <5>2, <5>4, <6>1
        <5> QED BY Zenon, <5>3, <5>4
      <4>3. (t = "head+" => Data(wrote, Received + 1) = 1) /\ (t # "head+" => Data(wrote, Received + 1) = 0)
        <5>1. /\ t = "head+" => Data(wrote, Received + 1) = Data(wrote, Received) + 1
              /\ t # "head+" => Data(wrote, Received + 1) = Data(wrote, Received)
          BY Zenon, <2>1, <2>5, DataStep
        <5> QED BY <2>6, <5>1
      <4>4. got' + Len(chan') = Data(wrote', Received')
        <5>1. got' = 0
          BY Zenon, <1>1, <1>2 DEF InHead
        <5>2. Len(chan') = Data(wrote', Received')
          BY Zenon, <1>1, <2>1, <4>2, <4>3
        <5>3. Len(chan') \in Nat
          BY <4>2
        <5> QED BY <5>1, <5>2, <5>3
      <4>5. \E i \in 1 .. Len(wrote') : i < Received' + 1 /\ wrote'[i] \in Heads
        <5>1. Received + 1 < Received' + 1
          BY <2>1
        <5> QED BY Zenon, <1>1, <2>1, <2>9, <5>1
      <4>6. InStream'
        BY Zenon, <1>1, <1>2, <3>1, <4>1, <4>2, <4>4, <4>5 DEF InStream, InHead
      <4>7. Phase'
        BY Zenon, <4>1, <4>6 DEF Phase
      <4>8. DownTypes'
        BY Zenon, <1>1, <4>2 DEF DownInv, DownTypes
      <4> QED BY Zenon, <1>1, <2>1, <3>1, <4>7, <4>8, DownGoesOn
    <3> QED BY Zenon, <3>2, <3>3
  <2>10. CASE t = "end"
    <3>1. rd' = "ended" /\ response' = "head" /\ UNCHANGED <<wr, chan>>
      BY Zenon, <1>4, <2>7, <2>10 DEF Fcgi!ReadHead, Fcgi!Broken, Fcgi!wind_down
    <3>2. Received + 1 = Len(wrote)
      BY Zenon, <2>1, <2>10 DEF DownInv, PipeInv
    <3>3. Data(wrote, Len(wrote)) = 0
      <4>1. Data(wrote, Received + 1) = Data(wrote, Received)
        BY Zenon, <2>1, <2>10, DataStep
      <4> QED BY Zenon, <2>6, <3>2, <4>1
    <3>4. wrote # <<>> /\ wrote[Len(wrote)] = "end"
      <4>1. wrote[Len(wrote)] = "end"
        BY Zenon, <2>1, <2>10, <3>2
      <4>2. Len(wrote) # 0
        BY <2>1, <3>2
      <4> QED BY <4>1, <4>2
    <3>5. AllData(<<>>) /\ 0 + Len(<<>>) = 0
      BY DEF AllData
    <3>6. Whole'
      BY Zenon, <1>1, <1>2, <3>1, <3>3, <3>4, <3>5 DEF Whole, InHead
    <3>7. Phase'
      BY Zenon, <3>1, <3>6 DEF Phase
    <3>8. DownTypes'
      BY Zenon, <1>1, <3>1 DEF DownInv, DownTypes
    <3> QED BY Zenon, <1>1, <2>1, <3>1, <3>7, <3>8, DownGoesOn
  <2>11. CASE t = "bad"
    <3>1. Fcgi!Fail /\ UNCHANGED chan
      BY Zenon, <1>4, <2>7, <2>11 DEF Fcgi!ReadHead, Fcgi!Broken
    <3> QED BY Zenon, <1>1, <2>1, <3>1, DownFails
  <2>12. t \in {"part", "stderr", "end", "bad"} \cup Heads
    BY Zenon, <2>1, <2>5 DEF FromFpm, Heads
  <2> HIDE DEF t
  <2> QED BY Zenon, <2>8, <2>9, <2>10, <2>11, <2>12
<1> QED BY Zenon, <1>3, <1>4 DEF Fcgi!ReadHead

LEMMA DownDrains == ASSUME DownInv, Fcgi!drain_to_end_request PROVE DownInv'
<1>1. /\ UNCHANGED <<bodyless, client, got, end, fpm, wrote, chan>> /\ rd = "drain" /\ rd # "ended" /\ rd # "head" /\ rd # "stream"
  BY Zenon DEF Fcgi!drain_to_end_request, Fcgi!Client, Fcgi!Fpm
<1>2. InDrain
  BY Zenon, <1>1 DEF DownInv, Phase
<1>3. PipeInv'
  <2>1. CASE fromFpm' = fromFpm
    BY Zenon, <1>1, <2>1, PipeRests DEF DownInv
  <2>2. CASE fromFpm # <<>> /\ fromFpm' = Tail(fromFpm)
    BY Zenon, <1>1, <2>2, PipeTaken DEF DownInv
  <2> QED BY Zenon, <2>1, <2>2 DEF Fcgi!drain_to_end_request
<1>4. DownTypes'
  BY Zenon, <1>1 DEF DownInv, DownTypes
<1>5. CASE Fcgi!Fail
  BY Zenon, <1>1, <1>3, <1>5, DownFails
<1>6. CASE rd' = "ended" /\ UNCHANGED wr
  <2>1. Phase'
    BY Zenon, <1>1, <1>2, <1>6 DEF Phase, InDrain
  <2> QED BY Zenon, <1>1, <1>3, <1>4, <1>6, <2>1, DownGoesOn
<1>7. CASE UNCHANGED <<response, rd, wr, closed>>
  <2>1. Phase'
    BY Zenon, <1>1, <1>2, <1>7 DEF Phase, InDrain
  <2> QED BY Zenon, <1>1, <1>3, <1>4, <1>7, <2>1, DownGoesOn
<1> QED BY Zenon, <1>5, <1>6, <1>7 DEF Fcgi!drain_to_end_request, Fcgi!wind_down

\* The backend failed behind the head.
LEMMA DownTruncates ==
    ASSUME DownInv, PipeInv', InStream, Len(chan) < ChannelRoom, Fcgi!Truncates,
           UNCHANGED <<bodyless, client, got, end>>, client = "open"
    PROVE  DownInv'
<1>1. chan' = Append(chan, "abort") /\ rd' = "ended"
  BY Zenon DEF Fcgi!Truncates, Fcgi!Ends
<1>2. chan \in Seq({"data", "abort"})
  BY Zenon DEF DownInv, DownTypes
<1>3. chan' \in Seq({"data", "abort"}) /\ Len(chan') <= ChannelRoom + 1 /\ chan' # <<>> /\ chan'[Len(chan')] = "abort"
  BY <1>1, <1>2, ExchangeAssumption
<1>4. Failed'
  BY Zenon, <1>3 DEF Failed, InStream
<1>5. DownTypes'
  BY Zenon, <1>3 DEF DownInv, DownTypes
<1>6. Phase'
  BY Zenon, <1>1, <1>4 DEF Phase
<1> QED BY Zenon, <1>1, <1>4, <1>5, <1>6 DEF DownInv

LEMMA DownStreams == ASSUME DownInv, Fcgi!read_response PROVE DownInv'
<1>1. /\ UNCHANGED <<bodyless, client, got, end, fpm, wrote, response>>
      /\ rd = "stream" /\ rd # "ended" /\ rd # "drain" /\ rd # "head"
  BY Zenon DEF Fcgi!read_response, Fcgi!Client, Fcgi!Fpm
<1>2. InStream
  BY Zenon, <1>1 DEF DownInv, Phase
<1>3. CASE client = "gone"
  <2>1. rd' = "ended" /\ UNCHANGED <<chan, fromFpm>>
    BY Zenon, <1>3 DEF Fcgi!read_response, Fcgi!Ends
  <2>2. PipeInv'
    BY Zenon, <1>1, <2>1, PipeRests DEF DownInv
  <2>3. DownTypes'
    BY Zenon, <1>1, <2>1 DEF DownInv, DownTypes
  <2>4. Phase'
    BY Zenon, <1>1, <1>3, <2>1 DEF Phase
  <2> QED BY Zenon, <1>1, <1>3, <2>2, <2>3, <2>4 DEF DownInv
<1>4. CASE client = "open" /\ Len(chan) < ChannelRoom /\ Fcgi!Truncates /\ UNCHANGED fromFpm
  <2>1. PipeInv'
    BY Zenon, <1>1, <1>4, PipeRests DEF DownInv
  <2> QED BY Zenon, <1>1, <1>2, <1>4, <2>1, DownTruncates
<1>5. CASE client = "open" /\ Len(chan) < ChannelRoom /\ fromFpm # <<>> /\ fromFpm' = Tail(fromFpm)
  <2> DEFINE t == Head(fromFpm)
  <2>1. /\ PipeInv' /\ Received \in Nat /\ Received' = Received + 1 /\ Received + 1 \in 1 .. Len(wrote)
        /\ t = wrote[Received + 1] /\ t \in FromFpm
    BY Zenon, <1>1, <1>5, PipeTaken DEF DownInv
  <2>2. t \in {"data", "stderr", "end", "bad"}
    <3>1. t \notin {"part", "head", "head+"}
      BY Zenon, <1>2, <2>1 DEF InStream, DownInv, PipeInv
    <3> QED BY Zenon, <2>1, <3>1 DEF FromFpm
  <2>3. Fcgi!Take = t
    BY DEF Fcgi!Take
  <2>4. /\ t = "data" => Data(wrote, Received + 1) = Data(wrote, Received) + 1
        /\ t \in {"stderr", "end"} => Data(wrote, Received + 1) = Data(wrote, Received)
    BY Zenon, <2>1, DataStep
  <2>5. \E i \in 1 .. Len(wrote') : i < Received' + 1 /\ wrote'[i] \in Heads
    <3>1. PICK i \in 1 .. Len(wrote) : i < Received + 1 /\ wrote[i] \in Heads
      BY Zenon, <1>2 DEF InStream
    <3>2. i < Received' + 1
      BY <2>1, <3>1
    <3> QED BY Zenon, <1>1, <3>1, <3>2
  <2>6. chan \in Seq({"data", "abort"}) /\ got \in Nat /\ got + Len(chan) = Data(wrote, Received) /\ AllData(chan)
    BY Zenon, <1>2 DEF DownInv, DownTypes, InStream
  <2>7. CASE t = "data"
    <3>1. chan' = Append(chan, "data") /\ UNCHANGED <<rd, closed, wr>>
      BY Zenon, <1>5, <2>3, <2>7 DEF Fcgi!read_response, Fcgi!Broken
    <3>2. /\ chan' \in Seq({"data", "abort"}) /\ Len(chan') <= ChannelRoom + 1 /\ AllData(chan')
          /\ Len(chan') = Len(chan) + 1 /\ Len(chan) \in Nat
      BY <1>5, <2>6, <3>1, ExchangeAssumption DEF AllData
    <3>3. got' + Len(chan') = Data(wrote', Received')
      <4>1. got + (Len(chan) + 1) = Data(wrote, Received) + 1
        BY <2>6, <3>2
      <4> QED BY Zenon, <1>1, <2>1, <2>4, <2>7, <3>2, <4>1
    <3>4. InStream'
      BY Zenon, <1>1, <1>2, <2>5, <3>1, <3>2, <3>3 DEF InStream
    <3>5. Phase'
      BY Zenon, <1>1, <3>1, <3>4 DEF Phase
    <3>6. DownTypes'
      BY Zenon, <1>1, <3>2 DEF DownInv, DownTypes
    <3> QED BY Zenon, <1>1, <2>1, <3>1, <3>5, <3>6, DownGoesOn
  <2>8. CASE t = "stderr"
    <3>1. UNCHANGED <<chan, rd, closed, wr>>
      BY Zenon, <1>5, <2>3, <2>8 DEF Fcgi!read_response, Fcgi!Broken
    <3>2. got' + Len(chan') = Data(wrote', Received')
      BY Zenon, <1>1, <2>1, <2>4, <2>6, <2>8, <3>1
    <3>3. InStream'
      BY Zenon, <1>1, <1>2, <2>5, <3>1, <3>2 DEF InStream, AllData
    <3>4. Phase'
      BY Zenon, <1>1, <3>1, <3>3 DEF Phase
    <3>5. DownTypes'
      BY Zenon, <1>1, <3>1 DEF DownInv, DownTypes
    <3> QED BY Zenon, <1>1, <2>1, <3>1, <3>4, <3>5, DownGoesOn
  <2>9. CASE t = "end"
    <3>1. UNCHANGED <<chan, wr>> /\ rd' = "ended"
      BY Zenon, <1>5, <2>3, <2>9 DEF Fcgi!read_response, Fcgi!Broken, Fcgi!Ends, Fcgi!wind_down
    <3>2. Received + 1 = Len(wrote)
      BY Zenon, <2>1, <2>9 DEF DownInv, PipeInv
    <3>3. got' + Len(chan') = Data(wrote', Len(wrote'))
      BY Zenon, <1>1, <2>4, <2>6, <2>9, <3>1, <3>2
    <3>4. wrote # <<>> /\ wrote[Len(wrote)] = "end"
      <4>1. wrote[Len(wrote)] = "end"
        BY Zenon, <2>1, <2>9, <3>2
      <4>2. Len(wrote) # 0
        BY <2>1, <3>2
      <4> QED BY <4>1, <4>2
    <3>5. Whole'
      BY Zenon, <1>1, <1>2, <2>6, <3>1, <3>3, <3>4 DEF Whole, InStream, AllData
    <3>6. Phase'
      BY Zenon, <3>1, <3>5 DEF Phase
    <3>7. DownTypes'
      BY Zenon, <1>1, <3>1 DEF DownInv, DownTypes
    <3> QED BY Zenon, <1>1, <2>1, <3>1, <3>6, <3>7, DownGoesOn
  <2>10. CASE t = "bad"
    <3>1. Fcgi!Truncates
      BY Zenon, <1>5, <2>3, <2>10 DEF Fcgi!read_response, Fcgi!Broken
    <3> QED BY Zenon, <1>1, <1>2, <1>5, <2>1, <3>1, DownTruncates
  <2> HIDE DEF t
  <2> QED BY Zenon, <2>2, <2>7, <2>8, <2>9, <2>10
<1> QED BY Zenon, <1>3, <1>4, <1>5 DEF Fcgi!read_response

LEMMA DownSteps == ASSUME DownInv, [Fcgi!Next]_fcgiVars PROVE DownInv'
<1>1. CASE Fcgi!WriterStep
  <2>1. UNCHANGED <<down, client, fromFpm, wrote, fpm>>
    BY Zenon, <1>1 DEF Fcgi!WriterStep, Fcgi!WritePrelude, Fcgi!WriteBody, Fcgi!BodyFails, Fcgi!WriteEnd,
       Fcgi!Stopped, Fcgi!drain_client_body, Fcgi!Client, Fcgi!Fpm, Fcgi!Reader, down
  <2>2. wr' = wr \/ wr' # "aborted"
    <3>1. wr' = wr \/ wr' \in {"body", "drain", "done"}
      BY Zenon, <1>1 DEF Fcgi!WriterStep, Fcgi!WritePrelude, Fcgi!WriteBody, Fcgi!BodyFails, Fcgi!WriteEnd,
         Fcgi!Stopped, Fcgi!drain_client_body, Fcgi!Write
    <3> QED BY Zenon, <3>1
  <2> QED BY Zenon, <2>1, <2>2, DownRests
<1>2. CASE Fcgi!ReaderStep
  BY Zenon, <1>2, DownReadsHead, DownDrains, DownStreams DEF Fcgi!ReaderStep
<1>3. CASE Fcgi!BreaksOff \/ Fcgi!FpmReads \/ Fcgi!FpmCloses \/ UNCHANGED fcgiVars
  <2>1. UNCHANGED <<down, client, fromFpm, wrote, wr>>
    BY Zenon, <1>3 DEF Fcgi!BreaksOff, Fcgi!FpmReads, Fcgi!FpmCloses, Fcgi!Writer, Fcgi!Fpm, Fcgi!Reader,
       Fcgi!Client, down, fcgiVars
  <2>2. fpm' = fpm \/ fpm' = "closed"
    BY Zenon, <1>3 DEF Fcgi!BreaksOff, Fcgi!FpmReads, Fcgi!FpmCloses, Fcgi!Fpm, fcgiVars
  <2> QED BY Zenon, <2>1, <2>2, DownRests
<1>4. CASE Fcgi!Consume \/ Fcgi!SeesEnd \/ Fcgi!Leaves \/ Fcgi!FpmWrites
  BY Zenon, <1>4, DownConsumes, DownSeesEnd, DownLeaves, DownGrows
<1> QED BY Zenon, <1>1, <1>2, <1>3, <1>4 DEF Fcgi!Next, Fcgi!ClientStep, Fcgi!FpmStep

LEMMA UpAndDownFaithful ==
    ASSUME UpInv, DownInv
    PROVE  Fcgi!TypeOK /\ Fcgi!WholeBodyOrNone /\ Fcgi!CleanEndIsWhole /\ Fcgi!UploadNotReset
<1>1. read \in 0 .. Body
  <2>1. read \in Nat /\ upload \in 0 .. Body /\ Count(toFpm, "stdin") + read + upload <= Body
    BY Zenon DEF UpInv, UpTypes
  <2>2. Count(toFpm, "stdin") \in Nat
    BY Zenon, CountNat DEF UpInv, UpTypes
  <2> QED BY <2>1, <2>2, ExchangeAssumption
<1>2. Fcgi!TypeOK
  BY Zenon, <1>1 DEF Fcgi!TypeOK, UpInv, UpTypes, DownInv, DownTypes, PipeInv
<1>3. Fcgi!WholeBodyOrNone
  BY Zenon DEF Fcgi!WholeBodyOrNone, UpInv
<1>4. Fcgi!CleanEndIsWhole
  <2> SUFFICES ASSUME end = "clean", ~bodyless
               PROVE  wrote # <<>> /\ wrote[Len(wrote)] = "end" /\ got = Fcgi!Datas(wrote)
    BY Zenon DEF Fcgi!CleanEndIsWhole
  <2>1. Whole
    BY Zenon DEF DownInv, Phase, InHead, InDrain, InStream, Failed
  <2>2. chan = <<>> /\ got + Len(chan) = Data(wrote, Len(wrote)) /\ got \in Nat
    BY Zenon, <2>1 DEF Whole, DownInv, DownTypes
  <2>3. got = Data(wrote, Len(wrote))
    <3>1. got + Len(chan) = got
      BY <2>2
    <3> QED BY Zenon, <2>2, <3>1
  <2>4. Fcgi!Datas(wrote) = Data(wrote, Len(wrote))
    BY Zenon DEF Data, Fcgi!Datas, Cardinality, Fcgi!Cardinality
  <2> QED BY Zenon, <2>1, <2>3, <2>4 DEF Whole
<1>5. Fcgi!UploadNotReset
  BY Zenon DEF Fcgi!UploadNotReset, DownInv, Failed
<1> QED BY Zenon, <1>2, <1>3, <1>4, <1>5

ExchangeInv == part = "exchange" => UpInv /\ DownInv

\* FcgiExchange: PHP takes the body of a request for complete only when it is, a response
\* that the client sees end cleanly is all that PHP wrote, and an upload under way is not
\* reset by a response that has been settled, whatever the sizes of the body and the buffers.
THEOREM ExchangeAlwaysFaithful == FlowSpec => []FcgiFaithful
<1>1. FlowInit => ExchangeInv
  BY Zenon, UpStarts, DownStarts DEF FlowInit, ExchangeInv
<1>2. ExchangeInv /\ [FlowNext]_<<part, flowVars>> => ExchangeInv'
  <2> SUFFICES ASSUME ExchangeInv, [FlowNext]_<<part, flowVars>>, part' = "exchange" PROVE (UpInv /\ DownInv)'
    BY Zenon DEF ExchangeInv
  <2>1. part = "exchange"
    BY Zenon DEF FlowNext, flowVars
  <2>2. [Fcgi!Next]_fcgiVars
    BY Zenon, <2>1 DEF FlowNext, flowVars
  <2> QED BY Zenon, <2>1, <2>2, UpSteps, DownSteps DEF ExchangeInv
<1>3. ExchangeInv => FcgiFaithful
  BY Zenon, UpAndDownFaithful DEF ExchangeInv, FcgiFaithful
<1> QED BY <1>1, <1>2, <1>3, PTL DEF FlowSpec

-----------------------------------------------------------------------------
(* TunnelManager, for any number of clients, attempts and checks.          *)

ASSUME TunnelAssumption == max_restart_attempts \in Nat

InstType ==
    [state : {"None", "Stopped", "Starting", "Failed", "Running"}, attempts : Nat, pid : Nat,
     pending : {"None", "EnsureRequested", "SpawnSucceeded", "HealthCheckTick", "HealthCheckOk",
                "WindowElapsed", "Crashed", "BackoffElapsed"},
     child : Nat, url : Nat, checks : Nat]

TunnelTypes ==
    /\ inst \in InstType /\ spawned \in Nat /\ log \in Nat /\ 0 \notin procs /\ procs \subseteq Nat
    /\ driver \in [Clients -> {"idle", "driving", "failing"}]

\* While a child is waited for, the logfile is empty or holds that child's URL; once the
\* URL has been read, it is the child's, and the child is the process on record.
ShapeOf(i, l) ==
    /\ i.state # "Stopped"
    /\ i.state = "None" => i = Tunnel!NoInstance
    /\ i.state = "Failed" => i.pending = "BackoffElapsed" /\ i.child = 0
    /\ i.state = "Running" => i.pending = "HealthCheckOk" /\ i.pid = i.child /\ i.url = i.child
    /\ i.state = "Starting" =>
          \/ i.pending = "SpawnSucceeded" /\ l \in {0, i.child}
          \/ i.pending = "HealthCheckTick" /\ i.pid = i.child /\ l \in {0, i.child}
          \/ i.pending = "HealthCheckOk" /\ i.pid = i.child /\ i.url = i.child
          \/ i.pending = "WindowElapsed"
          \/ i.pending = "Crashed" /\ i.child = 0
          \/ i.pending = "BackoffElapsed" /\ i.child = 0

\* Whoever started an instance drives it until it runs or is gone.
Driven(i, d) == i.state \in {"None", "Running"} \/ \E c \in Clients : d[c] # "idle"

TunnelInv ==
    TunnelTypes /\ ShapeOf(inst, log) /\ procs \subseteq {inst.child} /\ Driven(inst, driver)

LEMMA TunnelTrue == ASSUME TunnelInv PROVE Tunnel!NothingLeftBehind /\ Tunnel!UrlIsOwn
BY Zenon DEF TunnelInv, ShapeOf, Driven, Tunnel!NothingLeftBehind, Tunnel!UrlIsOwn

LEMMA NoInstanceFits == Tunnel!NoInstance \in InstType /\ Tunnel!NoInstance.state = "None" /\ Tunnel!NoInstance.child = 0
<1>1. 0 \in Nat OBVIOUS
<1> QED BY Zenon, <1>1 DEF Tunnel!NoInstance, InstType

LEMMA TunnelStarts == ASSUME Tunnel!Init PROVE TunnelInv
<1>1. 0 \in Nat OBVIOUS
<1> QED BY Zenon, <1>1, NoInstanceFits DEF Tunnel!Init, TunnelInv, TunnelTypes, ShapeOf, Driven

\* What the supervisor asks for next, by where the instance is.
Asks(i, l, t) ==
    /\ t.attempts \in Nat /\ t.pid \in Nat
    /\ \/ t.action = "HealthCheck" /\ t.state = "Starting" /\ t.pid = i.child /\ l \in {0, i.child}
       \/ t.action = "Spawn" /\ t.state = "Starting" /\ i.child = 0 /\ i.pending = "BackoffElapsed"
       \/ t.action = "Kill" /\ t.state = "Starting" /\ i.pending = "WindowElapsed"
       \/ t.action = "Backoff" /\ t.state = "Failed" /\ i.child = 0
       \/ t.action = "EmitError" /\ t.state = "Failed" /\ i.pending = "BackoffElapsed" /\ i.child = 0
       \/ t.action = "None" /\ t.state = i.state /\ t.pid = i.pid
       \/ /\ t.action = "None" /\ t.state = "Running" /\ t.pid = i.pid
          /\ i.pending = "HealthCheckOk" /\ i.pid = i.child /\ i.url = i.child

LEMMA TransitionAsks ==
    ASSUME NEW i \in InstType, NEW l, ShapeOf(i, l), i.state # "None"
    PROVE  Asks(i, l, Tunnel!transition(i))
<1> DEFINE t == Tunnel!transition(i)
<1>1. /\ i.attempts \in Nat /\ i.pid \in Nat /\ i.child \in Nat /\ 0 \in Nat /\ 1 \in Nat
      /\ i.attempts + 1 \in Nat /\ i.state \in {"None", "Stopped", "Starting", "Failed", "Running"}
  <2>1. i.attempts \in Nat /\ i.pid \in Nat /\ i.child \in Nat /\ i.state \in {"None", "Stopped", "Starting", "Failed", "Running"}
    BY Zenon DEF InstType
  <2> QED BY <2>1
<1>0. t = Tunnel!transition(i) OBVIOUS
<1> HIDE DEF t
<1>a. SUFFICES Asks(i, l, t) BY Zenon, <1>0
<1>2. CASE i.state = "Running"
  <2>1. t = Tunnel!To("Running", i.attempts, i.pid, "None")
    BY Zenon, <1>2 DEF t, Tunnel!transition
  <2>2. t.state = "Running" /\ t.attempts = i.attempts /\ t.pid = i.pid /\ t.action = "None"
    BY Zenon, <2>1 DEF Tunnel!To
  <2> QED BY Zenon, <1>1, <1>2, <2>2 DEF Asks
<1>3. CASE i.state = "Failed"
  <2>1. i.pending = "BackoffElapsed" /\ i.child = 0
    BY Zenon, <1>3 DEF ShapeOf
  <2>2. \/ t = Tunnel!To("Starting", i.attempts + 1, 0, "Spawn")
        \/ t = Tunnel!To("Failed", i.attempts, 0, "EmitError")
    <3>1. i.attempts < max_restart_attempts <=> ~(i.attempts >= max_restart_attempts)
      BY <1>1, TunnelAssumption
    <3>2. CASE ~(i.attempts < max_restart_attempts) /\ i.attempts >= max_restart_attempts
      BY Zenon, <1>3, <2>1, <3>2 DEF t, Tunnel!transition
    <3>3. CASE i.attempts < max_restart_attempts /\ ~(i.attempts >= max_restart_attempts)
      BY Zenon, <1>3, <2>1, <3>3 DEF t, Tunnel!transition
    <3> QED BY Zenon, <3>1, <3>2, <3>3
  <2>3. \/ t.state = "Starting" /\ t.attempts = i.attempts + 1 /\ t.pid = 0 /\ t.action = "Spawn"
        \/ t.state = "Failed" /\ t.attempts = i.attempts /\ t.pid = 0 /\ t.action = "EmitError"
    BY <2>2 DEF Tunnel!To
  <2> QED BY Zenon, <1>1, <1>3, <2>1, <2>3 DEF Asks
<1>4. CASE i.state = "Starting" /\ i.pending = "SpawnSucceeded" /\ l \in {0, i.child}
  <2>1. t = Tunnel!To("Starting", i.attempts, i.child, "HealthCheck")
    BY Zenon, <1>4 DEF t, Tunnel!transition
  <2>2. t.state = "Starting" /\ t.attempts = i.attempts /\ t.pid = i.child /\ t.action = "HealthCheck"
    BY Zenon, <2>1 DEF Tunnel!To
  <2> QED BY Zenon, <1>1, <1>4, <2>2 DEF Asks
<1>5. CASE i.state = "Starting" /\ i.pending = "HealthCheckTick" /\ i.pid = i.child /\ l \in {0, i.child}
  <2>1. t = Tunnel!To("Starting", i.attempts, i.pid, "HealthCheck")
    BY Zenon, <1>5 DEF t, Tunnel!transition
  <2>2. t.state = "Starting" /\ t.attempts = i.attempts /\ t.pid = i.pid /\ t.action = "HealthCheck"
    BY Zenon, <2>1 DEF Tunnel!To
  <2> QED BY Zenon, <1>1, <1>5, <2>2 DEF Asks
<1>6. CASE i.state = "Starting" /\ i.pending = "HealthCheckOk" /\ i.pid = i.child /\ i.url = i.child
  <2>1. t = Tunnel!To("Running", 0, i.pid, "None") \/ t = Tunnel!To("Starting", i.attempts, i.pid, "None")
    BY Zenon, <1>6 DEF t, Tunnel!transition
  <2>2. \/ t.state = "Running" /\ t.attempts = 0 /\ t.pid = i.pid /\ t.action = "None"
        \/ t.state = "Starting" /\ t.attempts = i.attempts /\ t.pid = i.pid /\ t.action = "None"
    BY <2>1 DEF Tunnel!To
  <2> QED BY Zenon, <1>1, <1>6, <2>2 DEF Asks
<1>7. CASE i.state = "Starting" /\ i.pending = "WindowElapsed"
  <2>1. t = Tunnel!To("Starting", i.attempts, i.pid, "Kill")
    BY Zenon, <1>7 DEF t, Tunnel!transition
  <2>2. t.state = "Starting" /\ t.attempts = i.attempts /\ t.pid = i.pid /\ t.action = "Kill"
    BY Zenon, <2>1 DEF Tunnel!To
  <2> QED BY Zenon, <1>1, <1>7, <2>2 DEF Asks
<1>8. CASE i.state = "Starting" /\ i.pending = "Crashed" /\ i.child = 0
  <2>1. t = Tunnel!To("Failed", i.attempts, 0, "Backoff")
    BY Zenon, <1>8 DEF t, Tunnel!transition
  <2>2. t.state = "Failed" /\ t.attempts = i.attempts /\ t.pid = 0 /\ t.action = "Backoff"
    BY Zenon, <2>1 DEF Tunnel!To
  <2> QED BY Zenon, <1>1, <1>8, <2>2 DEF Asks
<1>9. CASE i.state = "Starting" /\ i.pending = "BackoffElapsed" /\ i.child = 0
  <2>1. t = Tunnel!To("Starting", i.attempts, i.pid, "None")
    BY Zenon, <1>9 DEF t, Tunnel!transition
  <2>2. t.state = "Starting" /\ t.attempts = i.attempts /\ t.pid = i.pid /\ t.action = "None"
    BY Zenon, <2>1 DEF Tunnel!To
  <2> QED BY Zenon, <1>1, <1>9, <2>2 DEF Asks
<1> QED BY Zenon, <1>1, <1>2, <1>3, <1>4, <1>5, <1>6, <1>7, <1>8, <1>9 DEF ShapeOf

LEMMA MovedFields ==
    ASSUME NEW i \in InstType, NEW t, t.attempts \in Nat, t.pid \in Nat,
           t.state \in {"None", "Stopped", "Starting", "Failed", "Running"}, NEW m, m = Tunnel!Moved(i, t)
    PROVE  /\ m \in InstType /\ m.state = t.state /\ m.pid = t.pid
           /\ m.pending = i.pending /\ m.child = i.child /\ m.url = i.url /\ m.checks = i.checks
BY Zenon DEF Tunnel!Moved, InstType

\* A spawn into an instance without a live child: the new process is the only one, and
\* the logfile it will write its URL to is empty.
LEMMA SpawnKept ==
    ASSUME TunnelInv, NEW c \in Clients, NEW i \in InstType, i.state = "Starting", procs = {},
           Tunnel!do_spawn(c, i)
    PROVE  TunnelInv'
<1>1. spawned + 1 \in Nat /\ spawned + 1 # 0 /\ 0 \in Nat
  BY DEF TunnelInv, TunnelTypes
<1> DEFINE n == spawned + 1
<1>2. inst' = [i EXCEPT !.child = n, !.pending = "SpawnSucceeded", !.checks = 0]
      /\ log' = 0 /\ spawned' = n /\ procs' = procs \cup {n} /\ driver' = [driver EXCEPT ![c] = "driving"]
  BY Zenon DEF Tunnel!do_spawn, Tunnel!build_cmd, Tunnel!Drive
<1>3. n \in Nat /\ n # 0 BY Zenon, <1>1
<1> HIDE DEF n
<1>4. inst' \in InstType /\ inst'.state = "Starting" /\ inst'.child = n /\ inst'.pending = "SpawnSucceeded"
  BY Zenon, <1>1, <1>2, <1>3 DEF InstType
<1>5. driver' \in [Clients -> {"idle", "driving", "failing"}] /\ driver'[c] # "idle"
  BY Zenon, <1>2 DEF TunnelInv, TunnelTypes
<1>6. TunnelTypes'
  BY Zenon, <1>1, <1>2, <1>3, <1>4, <1>5 DEF TunnelTypes
<1>7. ShapeOf(inst', log')
  BY Zenon, <1>2, <1>4 DEF ShapeOf
<1>8. Driven(inst', driver') /\ procs' \subseteq {inst'.child}
  BY Zenon, <1>2, <1>4, <1>5 DEF Driven
<1> QED BY Zenon, <1>6, <1>7, <1>8 DEF TunnelInv

\* Without a live child there is no process at all.
LEMMA NoOrphans ==
    ASSUME TunnelInv, inst.child = 0 \/ inst.child \notin procs
    PROVE  procs = {}
BY Zenon DEF TunnelInv, TunnelTypes

LEMMA StopKept ==
    ASSUME TunnelInv, Tunnel!stop, driver' \in [Clients -> {"idle", "driving", "failing"}]
    PROVE  TunnelInv'
<1>1. inst' = Tunnel!NoInstance /\ procs' = procs \ {inst.child} /\ log' = log /\ spawned' = spawned
  BY Zenon DEF Tunnel!stop, Tunnel!graceful_reap
<1>2. inst' \in InstType /\ inst'.state = "None" /\ procs' = {}
  BY Zenon, <1>1, NoInstanceFits DEF TunnelInv
<1> QED BY Zenon, <1>1, <1>2 DEF TunnelInv, TunnelTypes, ShapeOf, Driven

LEMMA BeginKept == ASSUME TunnelInv, NEW c \in Clients, Tunnel!begin(c) PROVE TunnelInv'
<1> DEFINE fresh == [Tunnel!NoInstance EXCEPT !.state = "Stopped", !.pending = "EnsureRequested"]
           first == Tunnel!Moved(fresh, Tunnel!transition(fresh))
<1>1. CASE Tunnel!Busy(inst) /\ UNCHANGED <<inst, procs, log, driver, spawned>>
  BY Zenon, <1>1 DEF TunnelInv, TunnelTypes
<1>2. CASE ~Tunnel!Busy(inst) /\ inst' = Tunnel!NoInstance /\ log' = 0 /\ UNCHANGED <<procs, driver, spawned>>
  <2>1. procs = {}
    <3>1. CASE Tunnel!Registered(inst)
      BY Zenon, <1>2, <3>1, NoOrphans DEF Tunnel!Busy
    <3>2. CASE ~Tunnel!Registered(inst)
      BY Zenon, <3>2, NoOrphans, NoInstanceFits DEF Tunnel!Registered, TunnelInv, ShapeOf
    <3> QED BY Zenon, <3>1, <3>2
  <2>2. 0 \in Nat OBVIOUS
  <2> QED BY Zenon, <1>2, <2>1, <2>2, NoInstanceFits DEF TunnelInv, TunnelTypes, ShapeOf, Driven
<1>3. CASE ~Tunnel!Busy(inst) /\ Tunnel!do_spawn(c, first)
  <2>1. procs = {}
    <3>1. CASE Tunnel!Registered(inst)
      BY Zenon, <1>3, <3>1, NoOrphans DEF Tunnel!Busy
    <3>2. CASE ~Tunnel!Registered(inst)
      BY Zenon, <3>2, NoOrphans, NoInstanceFits DEF Tunnel!Registered, TunnelInv, ShapeOf
    <3> QED BY Zenon, <3>1, <3>2
  <2>2. fresh.state = "Stopped" /\ fresh.pending = "EnsureRequested"
    BY Zenon DEF Tunnel!NoInstance
  <2>3. Tunnel!transition(fresh) = Tunnel!To("Starting", 1, 0, "Spawn")
    <3> HIDE DEF fresh
    <3> QED BY Zenon, <2>2 DEF Tunnel!transition
  <2>4. fresh \in InstType
    BY Zenon, NoInstanceFits DEF InstType
  <2>5. first \in InstType /\ first.state = "Starting"
    <3> DEFINE t == Tunnel!transition(fresh)
    <3> HIDE DEF fresh
    <3>1. t.state = "Starting" /\ t.attempts \in Nat /\ t.pid \in Nat
      BY <2>3 DEF Tunnel!To
    <3> HIDE DEF t
    <3> QED BY Zenon, <2>4, <3>1, MovedFields DEF t
  <2> HIDE DEF first
  <2> QED BY Zenon, <1>3, <2>1, <2>5, SpawnKept
<1> QED BY Zenon, <1>1, <1>2, <1>3 DEF Tunnel!begin

\* A step of advance that leaves the processes and the logfile alone and moves the
\* instance to a state of the same shape.
LEMMA MoveKept ==
    ASSUME TunnelInv, NEW c \in Clients, inst' \in InstType, ShapeOf(inst', log), inst'.child = inst.child,
           \/ driver' = driver /\ driver[c] = "driving"
           \/ driver' = [driver EXCEPT ![c] = "failing"]
           \/ driver' = [driver EXCEPT ![c] = "idle"] /\ inst'.state = "Running",
           UNCHANGED <<log, spawned, procs>>
    PROVE  TunnelInv'
<1>1. driver' \in [Clients -> {"idle", "driving", "failing"}] /\ Driven(inst', driver')
  BY Zenon DEF TunnelInv, TunnelTypes, Driven
<1> QED BY Zenon, <1>1 DEF TunnelInv, TunnelTypes

LEMMA AdvanceKept == ASSUME TunnelInv, NEW c \in Clients, Tunnel!Advance(c) PROVE TunnelInv'
<1> DEFINE t == Tunnel!transition(inst)
           i == Tunnel!Moved(inst, t)
<1>1. inst \in InstType /\ ShapeOf(inst, log) /\ inst.state # "None" /\ driver[c] = "driving"
  BY Zenon DEF TunnelInv, TunnelTypes, Tunnel!Advance, Tunnel!Registered
<1>2. Asks(inst, log, t)
  BY Zenon, <1>1, TransitionAsks
<1>3. t.attempts \in Nat /\ t.pid \in Nat /\ t.state \in {"None", "Stopped", "Starting", "Failed", "Running"}
  BY Zenon, <1>1, <1>2 DEF Asks, InstType
<1>4. \/ t.action = "Spawn" /\ (Tunnel!do_spawn(c, i) \/ Tunnel!SpawnFails(c, i))
      \/ t.action = "HealthCheck" /\ Tunnel!do_health_check(c, i)
      \/ t.action = "Kill" /\ (Tunnel!do_kill(c, i) \/ Tunnel!KillFails(c, i))
      \/ /\ t.action = "Backoff" /\ inst' = [i EXCEPT !.pending = "BackoffElapsed"]
         /\ UNCHANGED <<log, spawned, procs, driver>>
      \/ /\ t.action \in {"None", "EmitError"} /\ inst' = i
         /\ Tunnel!Drive(c, IF t.action = "None" /\ i.state = "Running" THEN "idle" ELSE "failing")
         /\ UNCHANGED <<log, spawned, procs>>
  BY Zenon DEF Tunnel!Advance
<1> HIDE DEF t
<1>5. /\ i \in InstType /\ i.state = t.state /\ i.pid = t.pid
      /\ i.pending = inst.pending /\ i.child = inst.child /\ i.url = inst.url /\ i.checks = inst.checks
  BY Zenon, <1>1, <1>3, MovedFields
<1> HIDE DEF i
<1>6. CASE t.action = "Spawn"
  <2>1. t.state = "Starting" /\ inst.child = 0 /\ inst.pending = "BackoffElapsed"
    BY Zenon, <1>2, <1>6 DEF Asks
  <2>2. procs = {}
    BY Zenon, <2>1, NoOrphans
  <2>3. CASE Tunnel!do_spawn(c, i)
    BY Zenon, <1>5, <2>1, <2>2, <2>3, SpawnKept
  <2>4. CASE Tunnel!SpawnFails(c, i)
    <3>1. inst' = i /\ log' = 0 /\ procs' = {} /\ spawned' = spawned /\ driver' = [driver EXCEPT ![c] = "failing"]
      BY Zenon, <2>2, <2>4 DEF Tunnel!SpawnFails, Tunnel!build_cmd, Tunnel!Drive
    <3>2. 0 \in Nat OBVIOUS
    <3>3. ShapeOf(inst', log')
      BY Zenon, <1>5, <2>1, <3>1 DEF ShapeOf
    <3>4. driver' \in [Clients -> {"idle", "driving", "failing"}] /\ driver'[c] # "idle"
      BY Zenon, <3>1 DEF TunnelInv, TunnelTypes
    <3> QED BY Zenon, <1>5, <3>1, <3>2, <3>3, <3>4 DEF TunnelInv, TunnelTypes, Driven
  <2> QED BY Zenon, <1>4, <1>6, <2>3, <2>4
<1>7. CASE t.action = "HealthCheck"
  <2>1. t.state = "Starting" /\ i.pid = i.child /\ log \in {0, inst.child} /\ i.state = "Starting"
    BY Zenon, <1>2, <1>5, <1>7 DEF Asks
  <2>2. Tunnel!do_health_check(c, i)
    BY Zenon, <1>4, <1>7
  <2>3. UNCHANGED <<log, spawned, procs, driver>>
    BY Zenon, <2>2 DEF Tunnel!do_health_check
  <2>4. CASE i.child # 0 /\ i.child \notin procs /\ inst' = [i EXCEPT !.child = 0, !.pending = "Crashed"]
    <3>1. procs = {}
      BY Zenon, <1>5, <2>4, NoOrphans
    <3>2. 0 \in Nat OBVIOUS
    <3>3. inst' \in InstType /\ inst'.state = "Starting" /\ inst'.child = 0 /\ inst'.pending = "Crashed"
      BY Zenon, <1>5, <2>1, <2>4, <3>2 DEF InstType
    <3> QED BY Zenon, <1>1, <2>3, <3>1, <3>3 DEF TunnelInv, TunnelTypes, ShapeOf, Driven
  <2>5. CASE log # 0 /\ inst' = [i EXCEPT !.url = log, !.pending = "HealthCheckOk"]
    <3>1. /\ inst' \in InstType /\ inst'.state = "Starting" /\ inst'.child = i.child /\ inst'.url = log
          /\ inst'.pid = i.pid /\ inst'.pending = "HealthCheckOk"
      BY Zenon, <1>5, <2>1, <2>5 DEF InstType, TunnelInv, TunnelTypes
    <3>2. log = i.child
      BY Zenon, <1>5, <2>1, <2>5
    <3>3. ShapeOf(inst', log)
      BY Zenon, <2>1, <3>1, <3>2 DEF ShapeOf
    <3> QED BY Zenon, <1>1, <1>5, <2>3, <3>1, <3>3, MoveKept
  <2>6. CASE \E late \in {"HealthCheckTick", "WindowElapsed"} :
                inst' = [i EXCEPT !.pending = late, !.checks = i.checks + 1]
    <3>1. PICK late \in {"HealthCheckTick", "WindowElapsed"} :
              inst' = [i EXCEPT !.pending = late, !.checks = i.checks + 1]
      BY Zenon, <2>6
    <3>2. i.checks + 1 \in Nat
      <4>1. i.checks \in Nat BY Zenon, <1>5 DEF InstType
      <4> QED BY <4>1
    <3>3. /\ inst' \in InstType /\ inst'.state = "Starting" /\ inst'.child = i.child
          /\ inst'.pid = i.pid /\ inst'.pending = late
      BY Zenon, <1>5, <2>1, <3>1, <3>2 DEF InstType
    <3>4. ShapeOf(inst', log)
      BY Zenon, <1>5, <2>1, <3>1, <3>3 DEF ShapeOf
    <3> QED BY Zenon, <1>1, <1>5, <2>3, <3>3, <3>4, MoveKept
  <2>7. \A late : [i EXCEPT !.pending = late, !.checks = @ + 1] = [i EXCEPT !.pending = late, !.checks = i.checks + 1]
    BY <1>5 DEF InstType
  <2> QED BY Zenon, <2>2, <2>4, <2>5, <2>6, <2>7 DEF Tunnel!do_health_check
<1>8. CASE t.action = "Kill"
  <2>1. i.state = "Starting" /\ i.pending = "WindowElapsed"
    BY Zenon, <1>2, <1>5, <1>8 DEF Asks
  <2>2. 0 \in Nat OBVIOUS
  <2>3. CASE Tunnel!do_kill(c, i)
    <3>1. /\ procs' = procs \ {inst.child} /\ inst' = [i EXCEPT !.child = 0, !.pending = "Crashed"]
          /\ UNCHANGED <<log, spawned, driver>>
      BY Zenon, <1>5, <2>3 DEF Tunnel!do_kill, Tunnel!graceful_reap
    <3>2. procs' = {}
      BY Zenon, <3>1 DEF TunnelInv
    <3>3. inst' \in InstType /\ inst'.state = "Starting" /\ inst'.child = 0 /\ inst'.pending = "Crashed"
      BY Zenon, <1>5, <2>1, <2>2, <3>1 DEF InstType
    <3> QED BY Zenon, <1>1, <3>1, <3>2, <3>3 DEF TunnelInv, TunnelTypes, ShapeOf, Driven
  <2>4. CASE Tunnel!KillFails(c, i)
    <3>1. /\ i.child \notin procs /\ inst' = [i EXCEPT !.child = 0] /\ UNCHANGED <<log, spawned, procs>>
          /\ driver' = [driver EXCEPT ![c] = "failing"]
      BY Zenon, <2>4 DEF Tunnel!KillFails, Tunnel!Drive
    <3>2. procs = {}
      BY Zenon, <1>5, <3>1, NoOrphans
    <3>3. inst' \in InstType /\ inst'.state = "Starting" /\ inst'.child = 0 /\ inst'.pending = "WindowElapsed"
      BY Zenon, <1>5, <2>1, <2>2, <3>1 DEF InstType
    <3>4. driver' \in [Clients -> {"idle", "driving", "failing"}] /\ driver'[c] # "idle"
      BY Zenon, <3>1 DEF TunnelInv, TunnelTypes
    <3> QED BY Zenon, <3>1, <3>2, <3>3, <3>4 DEF TunnelInv, TunnelTypes, ShapeOf, Driven
  <2> QED BY Zenon, <1>4, <1>8, <2>3, <2>4
<1>9. CASE t.action = "Backoff"
  <2>1. i.state = "Failed" /\ i.child = 0
    BY Zenon, <1>2, <1>5, <1>9 DEF Asks
  <2>2. inst' = [i EXCEPT !.pending = "BackoffElapsed"] /\ UNCHANGED <<log, spawned, procs, driver>>
    BY Zenon, <1>4, <1>9
  <2>3. inst' \in InstType /\ inst'.state = "Failed" /\ inst'.child = 0 /\ inst'.pending = "BackoffElapsed"
    BY Zenon, <1>5, <2>1, <2>2 DEF InstType
  <2>4. ShapeOf(inst', log)
    BY Zenon, <2>3 DEF ShapeOf
  <2> QED BY Zenon, <1>1, <1>5, <2>1, <2>2, <2>3, <2>4, MoveKept
<1>10. CASE t.action \in {"None", "EmitError"}
  <2>1. /\ inst' = i /\ UNCHANGED <<log, spawned, procs>>
        /\ Tunnel!Drive(c, IF t.action = "None" /\ i.state = "Running" THEN "idle" ELSE "failing")
    BY Zenon, <1>4, <1>10
  <2>2. ShapeOf(i, log)
    <3>1. CASE t.action = "EmitError"
      BY Zenon, <1>2, <1>5, <3>1 DEF Asks, ShapeOf
    <3>2. CASE t.state = "Running" /\ t.pid = inst.pid /\ inst.pending = "HealthCheckOk" /\ inst.pid = inst.child /\ inst.url = inst.child
      BY Zenon, <1>5, <3>2 DEF ShapeOf
    <3>3. CASE t.state = inst.state /\ t.pid = inst.pid
      BY Zenon, <1>1, <1>5, <3>3 DEF ShapeOf
    <3> QED BY Zenon, <1>2, <1>10, <3>1, <3>2, <3>3 DEF Asks
  <2>3. \/ driver' = [driver EXCEPT ![c] = "failing"]
        \/ driver' = [driver EXCEPT ![c] = "idle"] /\ inst'.state = "Running"
    BY Zenon, <2>1 DEF Tunnel!Drive
  <2> QED BY Zenon, <1>5, <2>1, <2>2, <2>3, MoveKept
<1> QED BY Zenon, <1>4, <1>6, <1>7, <1>8, <1>9, <1>10

LEMMA TunnelKept == ASSUME TunnelInv, [Tunnel!Next]_(Tunnel!vars) PROVE TunnelInv'
<1>1. CASE UNCHANGED Tunnel!vars
  BY Zenon, <1>1 DEF Tunnel!vars, TunnelInv, TunnelTypes
<1>2. ASSUME NEW c \in Clients, Tunnel!Gone(c) PROVE TunnelInv'
  <2>1. driver' \in [Clients -> {"idle", "driving", "failing"}] /\ UNCHANGED <<inst, procs, log, spawned>> /\ inst.state = "None"
    BY Zenon, <1>2 DEF TunnelInv, TunnelTypes, Tunnel!Gone, Tunnel!Drive, Tunnel!Registered
  <2> QED BY Zenon, <2>1 DEF TunnelInv, TunnelTypes, Driven
<1>3. ASSUME NEW c \in Clients, Tunnel!FailStop(c) \/ Tunnel!StopTunnel(c) PROVE TunnelInv'
  <2>1. driver' \in [Clients -> {"idle", "driving", "failing"}]
    BY Zenon, <1>3 DEF TunnelInv, TunnelTypes, Tunnel!FailStop, Tunnel!StopTunnel, Tunnel!Drive
  <2> QED BY Zenon, <1>3, <2>1, StopKept DEF Tunnel!FailStop, Tunnel!StopTunnel
<1>4. ASSUME NEW p \in procs, Tunnel!Exits(p) PROVE TunnelInv'
  BY Zenon, <1>4 DEF TunnelInv, TunnelTypes, Tunnel!Exits
<1>5. ASSUME NEW p \in procs, Tunnel!Connects(p) PROVE TunnelInv'
  <2>1. log = 0 /\ log' = p /\ UNCHANGED <<inst, procs, driver, spawned>> /\ p = inst.child /\ p \in Nat
    BY Zenon, <1>5 DEF Tunnel!Connects, TunnelInv, TunnelTypes
  <2>2. ShapeOf(inst, p)
    BY Zenon, <2>1 DEF ShapeOf, TunnelInv
  <2> QED BY Zenon, <2>1, <2>2 DEF TunnelInv, TunnelTypes
<1> QED BY Zenon, <1>1, <1>2, <1>3, <1>4, <1>5, BeginKept, AdvanceKept DEF Tunnel!Next

-----------------------------------------------------------------------------
(* UpdateCheck, for any versions of which one is the newest.               *)

ASSUME VersionsAssumption ==
    /\ Versions \subseteq Nat \ {0} /\ 1 \in Versions
    /\ \E top \in Versions : \A v \in Versions : v <= top

\* A non-empty set of versions has a highest.
LEMMA HighestIsOne ==
    ASSUME NEW S, S \subseteq Versions
    PROVE  Check!Highest(S) \in S \cup {0} /\ (Check!Highest(S) # 0 => Check!Highest(S) \in S)
<1>1. CASE S = {}
  BY Zenon, <1>1 DEF Check!Highest, Check!None
<1>2. CASE S # {}
  <2>1. PICK top \in Versions : \A v \in Versions : v <= top
    BY Zenon, VersionsAssumption
  <2> DEFINE below == {top - v : v \in S}
             less == {p \in Nat \X Nat : p[1] < p[2]}
  <2>2. below \subseteq Nat /\ below # {}
    <3>1. ASSUME NEW v \in S PROVE top - v \in Nat
      BY <2>1, VersionsAssumption
    <3> QED BY Zenon, <1>2, <3>1
  <2>3. IsWellFoundedOn(less, Nat)
    BY Zenon, NatLessThanWellFounded DEF OpToRel
  <2> HIDE DEF below
  <2>4. PICK x \in below : \A y \in below : ~(<<y, x>> \in less)
    BY Zenon, <2>2, <2>3, WFMin
  <2>5. PICK v \in S : x = top - v
    BY Zenon DEF below
  <2>6. \A w \in S : w <= v
    <3> SUFFICES ASSUME NEW w \in S PROVE w <= v
      OBVIOUS
    <3>1. top - w \in below
      BY Zenon DEF below
    <3>2. ~(<<top - w, x>> \in less)
      BY Zenon, <2>4, <3>1
    <3>3. top - w \in Nat /\ x \in Nat
      BY Zenon, <2>2, <3>1
    <3>4. ~(top - w < x)
      BY <3>2, <3>3
    <3> QED BY <2>1, <2>5, <3>4, VersionsAssumption
  <2>7. Check!Highest(S) \in S
    BY Zenon, <1>2, <2>6 DEF Check!Highest
  <2> QED BY Zenon, <2>7
<1> QED BY Zenon, <1>1, <1>2

\* A snapshot, or what a client is told: an offer is an update of the version it is for.
Offers(s) ==
    /\ s.target \in Versions \cup {0} /\ s.channel \in Check!Channels
    /\ s.target # 0 => s.target > s.current /\ (s.channel = "stable" => s.target \notin Pre)
    /\ s.ahead => s.current \in Pre

TaskType == [at : {"idle", "fetch", "fetched"}, channel : Check!Channels, got : SUBSET Versions]

CheckInv ==
    /\ feed \subseteq Versions /\ releases \subseteq Versions /\ running \in Versions
    /\ channel \in Check!Channels
    /\ Offers(mem) /\ Offers(disk) /\ Offers(told)
    /\ checker \in [Check!Tasks -> TaskType]

LEMMA NothingOffered == Offers(Check!NoSnapshot) /\ Check!Idle \in TaskType
BY DEF Offers, Check!NoSnapshot, Check!None, Check!Channels, Check!Idle, TaskType

LEMMA DecisionOffers ==
    ASSUME NEW found \in SUBSET Versions, NEW ch \in Check!Channels, NEW v \in Versions
    PROVE  Offers(Check!Decision(found, ch, v))
<1> DEFINE stable == Check!Highest(found \ Pre)
           cand == IF ch = "stable" THEN stable ELSE Check!Highest(found)
           d == Check!Decision(found, ch, v)
<1>1. /\ d.current = v /\ d.channel = ch /\ d.target = (IF cand > v THEN cand ELSE 0)
      /\ d.ahead = (v \in Pre /\ v > stable)
  BY Zenon DEF Check!Decision, Check!None
<1>2. stable # 0 => stable \in found \ Pre
  BY Zenon, HighestIsOne
<1>3. Check!Highest(found) # 0 => Check!Highest(found) \in found
  BY Zenon, HighestIsOne
<1>4. cand # 0 => cand \in Versions /\ (ch = "stable" => cand \notin Pre)
  BY Zenon, <1>2, <1>3
<1> HIDE DEF stable, cand, d
<1>5. cand > v => cand # 0
  BY VersionsAssumption
<1>6. d.target # 0 => d.target = cand /\ cand > v
  BY Zenon, <1>1
<1>7. d.target \in Versions \cup {0}
  BY Zenon, <1>1, <1>4, <1>5
<1> QED BY Zenon, <1>1, <1>4, <1>5, <1>6, <1>7 DEF Offers, d

LEMMA ResponseOffers ==
    ASSUME NEW s, Offers(s), NEW ch \in Check!Channels
    PROVE  Offers(Check!response_from_snapshot(s, ch))
<1> DEFINE drifted == s.current # running \/ s.channel # ch
           r == Check!response_from_snapshot(s, ch)
<1>1. /\ r.current = running /\ r.channel = ch /\ r.target = (IF drifted THEN 0 ELSE s.target)
      /\ r.ahead = (~drifted /\ s.ahead)
  BY Zenon DEF Check!response_from_snapshot, Check!None
<1> HIDE DEF r
<1>2. CASE drifted
  BY Zenon, <1>1, <1>2 DEF Offers, r
<1>3. CASE ~drifted
  BY Zenon, <1>1, <1>3 DEF Offers, r
<1> QED BY Zenon, <1>2, <1>3

LEMMA CheckStarts == ASSUME Check!Init PROVE CheckInv
BY Zenon, NothingOffered, VersionsAssumption DEF Check!Init, CheckInv

LEMMA CheckKept == ASSUME CheckInv, [Check!Next]_(Check!vars) PROVE CheckInv'
<1> USE DEF CheckInv
<1>1. CASE UNCHANGED Check!vars
  BY Zenon, <1>1 DEF Check!vars
<1>2. CASE Check!poll_if_due \/ Check!PollFails \/ \E ch \in Check!Channels : Check!check_update(ch)
  <2>1. checker' \in [Check!Tasks -> TaskType]
    BY <1>2, NothingOffered DEF Check!poll_if_due, Check!PollFails, Check!check_update, Check!Tasks, TaskType
  <2> QED BY Zenon, <1>2, <2>1 DEF Check!poll_if_due, Check!PollFails, Check!check_update
<1>3. ASSUME NEW t \in Check!Tasks, Check!Fetched(t) PROVE CheckInv'
  <2>1. checker' \in [Check!Tasks -> TaskType]
    BY <1>3 DEF Check!Fetched, Check!Tasks, TaskType
  <2> QED BY Zenon, <1>3, <2>1 DEF Check!Fetched
<1>4. ASSUME NEW t \in Check!Tasks, NEW s, Offers(s), Check!store_snapshot(s),
             releases' = checker[t].got, checker' = [checker EXCEPT ![t] = Check!Idle],
             UNCHANGED <<feed, running, channel>>, Offers(told)'
      PROVE  CheckInv'
  <2>1. checker[t].got \subseteq Versions
    BY <1>4 DEF TaskType
  <2>2. checker' \in [Check!Tasks -> TaskType]
    BY Zenon, <1>4, NothingOffered
  <2>3. Offers(mem)' /\ Offers(disk)'
    BY Zenon, <1>4, NothingOffered DEF Check!store_snapshot
  <2> QED BY Zenon, <1>4, <2>1, <2>2, <2>3
<1>5. "poll" \in Check!Tasks /\ "check" \in Check!Tasks
  BY Zenon DEF Check!Tasks
<1>6. \A t \in Check!Tasks : checker[t].got \in SUBSET Versions /\ checker[t].channel \in Check!Channels
  BY DEF TaskType
<1>7. CASE Check!poll_and_refresh
  <2>1. Offers(Check!Decision(checker["poll"].got, channel, running))
    BY Zenon, <1>5, <1>6, DecisionOffers
  <2>2. told' = told /\ Offers(told)'
    BY Zenon, <1>7 DEF Check!poll_and_refresh, Offers
  <2> QED BY Zenon, <1>4, <1>5, <1>7, <2>1, <2>2 DEF Check!poll_and_refresh
<1>8. CASE Check!CheckEnds
  <2> DEFINE s == Check!Decision(checker["check"].got, checker["check"].channel, running)
  <2>1. Offers(s)
    BY Zenon, <1>5, <1>6, DecisionOffers
  <2> HIDE DEF s
  <2>2. told' = Check!response_from_snapshot(s, checker["check"].channel)
    BY Zenon, <1>8 DEF Check!CheckEnds, s
  <2>3. Offers(Check!response_from_snapshot(s, checker["check"].channel))
    BY Zenon, <1>5, <1>6, <2>1, ResponseOffers
  <2>4. Offers(told)'
    BY Zenon, <2>2, <2>3 DEF Offers
  <2> QED BY Zenon, <1>4, <1>5, <1>8, <2>1, <2>4 DEF Check!CheckEnds, s
<1>9. CASE Check!CheckFails
  <2>1. Offers(Check!response_from_snapshot(mem, checker["check"].channel))
    BY Zenon, <1>5, <1>6, ResponseOffers
  <2>2. Offers(Check!Decision(releases, checker["check"].channel, running))
    BY Zenon, <1>5, <1>6, DecisionOffers
  <2>3. \/ told' = Check!response_from_snapshot(mem, checker["check"].channel)
        \/ told' = Check!Decision(releases, checker["check"].channel, running)
    BY Zenon, <1>9 DEF Check!CheckFails
  <2>4. Offers(told)'
    BY Zenon, <2>1, <2>2, <2>3 DEF Offers
  <2>5. checker' \in [Check!Tasks -> TaskType]
    BY Zenon, <1>5, <1>9, NothingOffered DEF Check!CheckFails
  <2> QED BY Zenon, <1>9, <2>4, <2>5 DEF Check!CheckFails
<1>10. CASE Check!cached_update_status
  <2>1. Offers(Check!response_from_snapshot(mem, channel))
    BY Zenon, ResponseOffers
  <2>2. Offers(told)'
    BY Zenon, <1>10, <2>1 DEF Check!cached_update_status, Check!CachedAnswer, Offers
  <2> QED BY Zenon, <1>10, <2>2 DEF Check!cached_update_status
<1>11. CASE Check!Publish \/ Check!TimePasses
  BY Zenon, <1>11 DEF Check!Publish, Check!TimePasses
<1>12. ASSUME NEW ch \in Check!Channels, Check!set_update_channel(ch) PROVE CheckInv'
  BY Zenon, <1>12 DEF Check!set_update_channel
<1>13. ASSUME NEW v \in Versions, Check!Boot(v) PROVE CheckInv'
  BY Zenon, <1>13, NothingOffered DEF Check!Boot, Offers
<1> QED BY Zenon, <1>1, <1>2, <1>3, <1>7, <1>8, <1>9, <1>10, <1>11, <1>12, <1>13 DEF Check!Next

-----------------------------------------------------------------------------
(* DaemonStart, for any number of overlapping calls of start().            *)

ASSUME StartAssumption == Ceiling \in Nat /\ MaxFlips \in Nat

PollType == [armed : BOOLEAN, elapsed : 0 .. Ceiling, ticks : Nat, late : Nat]

StartTypes ==
    /\ up \in BOOLEAN /\ flips \in 0 .. MaxFlips
    /\ probe \in {"none", "yes", "no"} /\ connected \in {"unknown", "yes", "no"}
    /\ phase \in Begin!Phases /\ accept \in BOOLEAN /\ pending \in BOOLEAN /\ diagnosed \in BOOLEAN
    /\ poll \in PollType
    /\ host \in [Calls -> Seq(Begin!Phases)] /\ events \in Seq(Begin!Phases)

StartInv == StartTypes /\ Begin!NoFailureWhileConnected

LEMMA StartStarts == ASSUME Begin!Init PROVE StartInv
<1>1. up \in BOOLEAN /\ flips \in 0 .. MaxFlips /\ poll \in PollType
  BY StartAssumption DEF Begin!Init, Begin!NoPoll, PollType
<1>2. /\ probe \in {"none", "yes", "no"} /\ connected \in {"unknown", "yes", "no"}
      /\ phase \in Begin!Phases /\ accept \in BOOLEAN /\ pending \in BOOLEAN /\ diagnosed \in BOOLEAN
  BY Zenon DEF Begin!Init, Begin!Phases
<1>3. host \in [Calls -> Seq(Begin!Phases)] /\ events \in Seq(Begin!Phases)
  BY DEF Begin!Init
<1> QED BY Zenon, <1>1, <1>2, <1>3 DEF StartInv, StartTypes, Begin!NoFailureWhileConnected, Begin!Init

\* What the poll's counters become stays in their types.
LEMMA PollKept ==
    ASSUME StartTypes,
           \/ Begin!ClearPoll \/ Begin!PollFires \/ Begin!PollStep \/ Begin!PollTimesOut
           \/ poll' = poll \/ poll' = [poll EXCEPT !.armed = TRUE, !.elapsed = 0]
    PROVE  poll' \in PollType
<1>1. poll \in PollType
  BY Zenon DEF StartTypes
<1>2. poll.elapsed \in 0 .. Ceiling /\ poll.ticks \in Nat /\ poll.late \in Nat
  BY <1>1 DEF PollType
<1>3. 0 \in 0 .. Ceiling /\ Ceiling \in 0 .. Ceiling /\ poll.ticks + 1 \in Nat /\ poll.late + 1 \in Nat
  BY <1>2, StartAssumption
<1>4. CASE Begin!ClearPoll \/ poll' = poll \/ poll' = [poll EXCEPT !.armed = TRUE, !.elapsed = 0]
  BY Zenon, <1>1, <1>3, <1>4 DEF Begin!ClearPoll, PollType
<1>5. CASE Begin!PollFires
  <2>1. poll' = [poll EXCEPT !.armed = FALSE, !.ticks = poll.ticks] \/ poll' = [poll EXCEPT !.armed = FALSE, !.ticks = poll.ticks + 1]
    BY Zenon, <1>1, <1>5 DEF Begin!PollFires, PollType
  <2> QED BY Zenon, <1>1, <1>2, <1>3, <2>1 DEF PollType
<1>6. CASE Begin!PollStep
  <2>1. poll.ticks - 1 \in Nat
    BY <1>2, <1>6 DEF Begin!PollStep
  <2>2. poll.elapsed + 1 < Ceiling => poll.elapsed + 1 \in 0 .. Ceiling
    BY <1>2, StartAssumption
  <2>3. ~(poll.elapsed + 1 >= Ceiling) => poll.elapsed + 1 < Ceiling
    BY <1>2, StartAssumption
  <2>4. \/ poll' = [poll EXCEPT !.ticks = poll.ticks - 1]
        \/ poll' = [poll EXCEPT !.ticks = poll.ticks - 1, !.elapsed = Ceiling, !.late = poll.late + 1]
        \/ /\ poll' = [poll EXCEPT !.ticks = poll.ticks - 1, !.elapsed = poll.elapsed + 1, !.armed = TRUE]
           /\ ~(poll.elapsed + 1 >= Ceiling)
    BY Zenon, <1>1, <1>6 DEF Begin!PollStep, PollType
  <2> QED BY Zenon, <1>1, <1>2, <1>3, <2>1, <2>2, <2>3, <2>4 DEF PollType
<1>7. CASE Begin!PollTimesOut
  <2>1. poll.late - 1 \in Nat
    BY <1>2, <1>7 DEF Begin!PollTimesOut
  <2>2. poll' = [poll EXCEPT !.late = poll.late - 1]
    BY Zenon, <1>1, <1>7 DEF Begin!PollTimesOut, PollType
  <2> QED BY Zenon, <1>1, <2>1, <2>2 DEF PollType
<1> QED BY Zenon, <1>4, <1>5, <1>6, <1>7

LEMMA StartKept == ASSUME StartInv, [Begin!Next]_(Begin!vars) PROVE StartInv'
<1> USE DEF StartInv, StartTypes, Begin!NoFailureWhileConnected, Begin!front
<1>1. CASE UNCHANGED Begin!vars
  BY Zenon, <1>1 DEF Begin!vars
<1>2. CASE Begin!Tick
  BY Zenon, <1>2 DEF Begin!Tick
<1>3. CASE Begin!Answer
  <2>1. poll' \in PollType
    BY Zenon, <1>3, PollKept DEF Begin!Answer
  <2>2. "idle" \in Begin!Phases
    BY Zenon DEF Begin!Phases
  <2> QED BY Zenon, <1>3, <2>1, <2>2 DEF Begin!Answer
<1>4. CASE Begin!Event
  <2>1. events' \in Seq(Begin!Phases) /\ Head(events) \in Begin!Phases
    BY <1>4 DEF Begin!Event
  <2> QED BY Zenon, <1>4, <2>1 DEF Begin!Event
<1>5. CASE Begin!PollFires \/ Begin!PollStep
  <2>1. poll' \in PollType
    BY Zenon, <1>5, PollKept
  <2>2. UNCHANGED <<up, flips, probe, connected, phase, accept, pending, diagnosed, host, events>>
    BY Zenon, <1>5 DEF Begin!PollFires, Begin!PollStep
  <2> QED BY Zenon, <2>1, <2>2
<1>6. CASE Begin!PollTimesOut
  <2>1. poll' \in PollType
    BY Zenon, <1>6, PollKept
  <2>2. "idle" \in Begin!Phases
    BY Zenon DEF Begin!Phases
  <2> QED BY Zenon, <1>6, <2>1, <2>2 DEF Begin!PollTimesOut, Begin!Diagnose
<1>7. CASE Begin!Flip
  <2>1. flips' \in 0 .. MaxFlips
    BY <1>7, StartAssumption DEF Begin!Flip
  <2> QED BY Zenon, <1>7, <2>1 DEF Begin!Flip
<1>8. ASSUME NEW c \in Calls, Begin!Start(c) PROVE StartInv'
  <2>1. poll' \in PollType
    BY Zenon, <1>8, PollKept DEF Begin!Start
  <2>2. host' \in [Calls -> Seq(Begin!Phases)]
    <3>1. Begin!Plans \subseteq Seq(Begin!Phases)
      BY DEF Begin!Plans, Begin!Phases
    <3> QED BY Zenon, <1>8, <3>1 DEF Begin!Start
  <2>3. "starting" \in Begin!Phases
    BY Zenon DEF Begin!Phases
  <2> QED BY Zenon, <1>8, <2>1, <2>2, <2>3 DEF Begin!Start
<1>9. ASSUME NEW c \in Calls, Begin!HostStep(c) PROVE StartInv'
  <2>1. host[c] \in Seq(Begin!Phases) /\ host[c] # <<>>
    BY Zenon, <1>9 DEF Begin!HostStep
  <2>2. Head(host[c]) \in Begin!Phases /\ Tail(host[c]) \in Seq(Begin!Phases)
    BY <2>1
  <2>3. events' \in Seq(Begin!Phases)
    BY <1>9, <2>2 DEF Begin!HostStep
  <2>4. host' \in [Calls -> Seq(Begin!Phases)]
    BY Zenon, <1>9, <2>2 DEF Begin!HostStep
  <2> QED BY Zenon, <1>9, <2>3, <2>4 DEF Begin!HostStep
<1>10. ASSUME NEW c \in Calls, Begin!HostEnds(c) PROVE StartInv'
  <2>1. <<>> \in Seq(Begin!Phases)
    OBVIOUS
  <2>2. host' \in [Calls -> Seq(Begin!Phases)]
    BY Zenon, <1>10, <2>1 DEF Begin!HostEnds
  <2> QED BY Zenon, <1>10, <2>2 DEF Begin!HostEnds
<1>11. ASSUME NEW c \in Calls, Begin!Threw(c) \/ Begin!Launched(c) PROVE StartInv'
  <2>1. accept' \in BOOLEAN /\ pending' \in BOOLEAN
    BY Zenon, <1>11 DEF Begin!Threw, Begin!Launched
  <2>2. UNCHANGED <<up, flips, probe, connected, phase, diagnosed, poll, host, events>>
    BY Zenon, <1>11 DEF Begin!Threw, Begin!Launched
  <2> QED BY Zenon, <2>1, <2>2
<1>12. ASSUME NEW c \in Calls, Begin!Diagnosed(c) PROVE StartInv'
  BY Zenon, <1>12 DEF Begin!Diagnosed, Begin!Diagnose, Begin!Phases
<1>13. ASSUME NEW c \in Calls, Begin!Refreshed(c) PROVE StartInv'
  <2>1. poll' \in PollType
    BY Zenon, <1>13, PollKept DEF Begin!Refreshed
  <2>2. "idle" \in Begin!Phases /\ "running" \in Begin!Phases
    BY Zenon DEF Begin!Phases
  <2> QED BY Zenon, <1>13, <2>1, <2>2 DEF Begin!Refreshed
<1> QED BY Zenon, <1>1, <1>2, <1>3, <1>4, <1>5, <1>6, <1>7, <1>8, <1>9, <1>10, <1>11, <1>12, <1>13
        DEF Begin!Next, Begin!Advance

-----------------------------------------------------------------------------
(* What the three report.                                                  *)

\* TunnelManager, UpdateCheck, DaemonStart: what the user is told is so, however many
\* clients start and stop the tunnel, whatever versions the feed offers and however many
\* starts of the daemon overlap.
THEOREM ReportsAlwaysTrue == FlowSpec => []ReportsTrue
<1> DEFINE Inv == /\ part = "tunnel" => TunnelInv
                  /\ part = "updates" => CheckInv
                  /\ part = "start" => StartInv
<1>1. FlowInit => Inv
  BY Zenon, TunnelStarts, CheckStarts, StartStarts DEF FlowInit
<1>2. Inv /\ [FlowNext]_<<part, flowVars>> => Inv'
  <2> SUFFICES ASSUME Inv, [FlowNext]_<<part, flowVars>> PROVE Inv'
    OBVIOUS
  <2>1. part' = part
    BY Zenon DEF FlowNext
  <2>2. part = "tunnel" => TunnelInv'
    BY Zenon, TunnelKept DEF FlowNext, flowVars, tunnelVars, Tunnel!vars
  <2>3. part = "updates" => CheckInv'
    BY Zenon, CheckKept DEF FlowNext, flowVars, checkVars, Check!vars
  <2>4. part = "start" => StartInv'
    BY Zenon, StartKept DEF FlowNext, flowVars, beginVars, Begin!vars, Begin!front
  <2> QED BY Zenon, <2>1, <2>2, <2>3, <2>4
<1>3. Inv => ReportsTrue
  <2>1. CheckInv => Check!TypeOK /\ Check!OffersAreUpdates
    BY Zenon DEF CheckInv, Offers, Check!TypeOK, Check!OffersAreUpdates, Check!None
  <2>2. StartInv => Begin!TypeOK /\ Begin!NoFailureWhileConnected
    <3>1. poll \in PollType => poll.elapsed \in 0 .. Ceiling /\ poll.ticks \in Nat /\ poll.late \in Nat
      BY Zenon DEF PollType
    <3> QED BY Zenon, <3>1 DEF StartInv, StartTypes, Begin!TypeOK
  <2> QED BY Zenon, TunnelTrue, <2>1, <2>2 DEF ReportsTrue
<1> QED BY <1>1, <1>2, <1>3, PTL DEF FlowSpec

-----------------------------------------------------------------------------
(* The other parts, and all of them on small instances.                    *)

VARIABLES v1, v2, v3, v4, v5, v6, v7, v8, v9, v10, v11, v12, v13, v14

slots == <<v1, v2, v3, v4, v5, v6, v7, v8, v9, v10, v11, v12, v13, v14>>
partsVars == <<part, vars, flowVars, slots>>

Q == INSTANCE ProxyRequest WITH Sites <- {"app"}, MaxRequests <- 1, MaxChanges <- 1,
      linked <- v1, secure <- v2, port <- v3, guard <- v4, prepend <- v5, backend <- v6,
      token <- v7, pin <- v8, req <- v9, snap <- v10, answer <- v11, hops <- v12, asked <- v13,
      changes <- v14
U == INSTANCE ProxyUpstream WITH via <- v1, tls <- v2, host <- v3, asks <- v4, stage <- v5,
      passed <- v6, gave <- v7, answer <- v8, ends <- v9
S == INSTANCE ProxyServer WITH Loops <- {"http", "https"}, Conns <- {"c1", "c2"},
      filter <- v1, signalled <- v2, loop <- v3, serve <- v4,
      conn <- v5, from <- v6, lan <- v7, issued <- v8, held <- v9, cache <- v10,
      certFile <- v11, keyFile <- v12
W == INSTANCE FcgiWire WITH
      Lengths <- {0, 1, 127, 128, 129, 255, 256, 65535, 65536, 16777216, 2147483647},
      MaxPayload <- 3, MaxFrame <- 7, MaxText <- 5, MaxHead <- 4, text <- v1, fed <- v2,
      buf <- v3, found <- v4, name <- v5, value <- v6, pair <- v7, frame <- v8, records <- v9
CoversMC == [p \in Exact |-> IF p = "a.app" THEN "*.app" ELSE NoOne]

\* The slots from the n-th on, in a behaviour of a part that has fewer variables.
Free14 == v14 = 0
Free13 == v13 = 0 /\ Free14
Free12 == v12 = 0 /\ Free13
Free11 == v11 = 0 /\ Free12
Free10 == v10 = 0 /\ Free11
Free9 == v9 = 0 /\ Free10
Free8 == v8 = 0 /\ Free9
Free7 == v7 = 0 /\ Free8
Free6 == v6 = 0 /\ Free7
Free5 == v5 = 0 /\ Free6
Free4 == v4 = 0 /\ Free5
Free3 == v3 = 0 /\ Free4
Free2 == v2 = 0 /\ Free3
Free1 == v1 = 0 /\ Free2
Kept14 == UNCHANGED v14
Kept13 == UNCHANGED v13 /\ Kept14
Kept12 == UNCHANGED v12 /\ Kept13
Kept11 == UNCHANGED v11 /\ Kept12
Kept10 == UNCHANGED v10 /\ Kept11
Kept9 == UNCHANGED v9 /\ Kept10
Kept8 == UNCHANGED v8 /\ Kept9
Kept7 == UNCHANGED v7 /\ Kept8
Kept6 == UNCHANGED v6 /\ Kept7
Kept5 == UNCHANGED v5 /\ Kept6
Kept4 == UNCHANGED v4 /\ Kept5
Kept3 == UNCHANGED v3 /\ Kept4
Kept2 == UNCHANGED v2 /\ Kept3
Kept1 == UNCHANGED v1 /\ Kept2

Rests == Init /\ NoTunnel /\ NoCheck /\ NoBegin /\ NoFcgi

PartsInit ==
    \/ FlowInit /\ Init /\ Free1
    \/ part = "router" /\ Rests /\ Free1
    \/ part = "request" /\ Q!Init /\ Rests
    \/ part = "upstream" /\ U!Init /\ Free10 /\ Rests
    \/ part = "server" /\ S!Init /\ Free13 /\ Rests
    \/ part = "wire" /\ W!Init /\ Free10 /\ Rests

PartsNext ==
    \/ FlowNext /\ UNCHANGED vars /\ Kept1
    \/ part = "router" /\ Next /\ UNCHANGED <<part, flowVars>> /\ Kept1
    \/ part = "request" /\ Q!Next /\ UNCHANGED <<part, vars, flowVars>>
    \/ part = "upstream" /\ U!Next /\ UNCHANGED <<part, vars, flowVars>> /\ Kept10
    \/ part = "server" /\ S!Next /\ UNCHANGED <<part, vars, flowVars>> /\ Kept13
    \/ part = "wire" /\ W!Next /\ UNCHANGED <<part, vars, flowVars>> /\ Kept10

\* What the parts outside the one that steps keep.
ByTunnel == part = "tunnel" /\ UNCHANGED <<part, vars, checkVars, beginVars, fcgiVars, slots>>
ByCheck == part = "updates" /\ UNCHANGED <<part, vars, tunnelVars, beginVars, fcgiVars, slots>>
ByBegin == part = "start" /\ UNCHANGED <<part, vars, tunnelVars, checkVars, fcgiVars, slots>>
ByFcgi == part = "exchange" /\ UNCHANGED <<part, vars, tunnelVars, checkVars, beginVars, slots>>
ByOther == UNCHANGED <<part, vars, flowVars>>

Fairness ==
    /\ WF_slots(part = "upstream" /\ U!Step /\ ByOther /\ Kept10)
    /\ WF_slots(part = "server" /\ S!LoopStep /\ ByOther /\ Kept13)
    /\ WF_slots(part = "server" /\ S!Return /\ ByOther /\ Kept13)
    /\ WF_fcgiVars(ByFcgi /\ Fcgi!WriterStep)
    /\ WF_fcgiVars(ByFcgi /\ Fcgi!ReaderStep)
    /\ \A c \in Clients :
          WF_tunnelVars(ByTunnel /\ (Tunnel!Advance(c) \/ Tunnel!Gone(c) \/ Tunnel!FailStop(c)))
    /\ WF_checkVars(ByCheck /\ Check!poll_if_due)
    /\ SF_checkVars(ByCheck /\ Check!Fetched("poll"))
    /\ WF_checkVars(ByCheck /\ Check!poll_and_refresh)
    /\ WF_checkVars(ByCheck /\ Check!TimePasses)
    /\ WF_checkVars(ByCheck /\ (Check!CheckEnds \/ Check!CheckFails))
    /\ WF_beginVars(ByBegin /\ (Begin!Tick \/ Begin!Answer))
    /\ WF_beginVars(ByBegin /\ Begin!Event)
    /\ WF_beginVars(ByBegin /\ Begin!PollFires)
    /\ WF_beginVars(ByBegin /\ Begin!PollStep)
    /\ WF_beginVars(ByBegin /\ Begin!PollTimesOut)
    /\ \A c \in Calls : WF_beginVars(ByBegin /\ Begin!Advance(c))

PartsSpec == PartsInit /\ [][PartsNext]_partsVars /\ Fairness

-----------------------------------------------------------------------------
\* Router, ProxyRequest, ProxyUpstream, ProxyServer, FcgiWire: what is served is what the
\* tables say and may be served. A host leads to the site or proxy that claims it, redirects
\* end, a secure site gives nothing over plain HTTP, files stay inside the root, hop-by-hop
\* headers stop here, a peer outside the LAN is not served, and heads, lengths and frames
\* cross the FastCGI socket as they were sent.
ProxyServesRight ==
    /\ [](TypeOK /\ HostsReachOwners)
    /\ [](part = "request" => Q!TypeOK /\ Q!RedirectsEnd /\ Q!SecureOnlyOverHttps)
    /\ [](part = "upstream" => U!TypeOK /\ U!HopByHopStops)
    /\ [](part = "server" => S!TypeOK /\ S!FilteredUnserved)
    /\ [](part = "wire" => W!TypeOK /\ W!HeadAsSent /\ W!LengthsArrive /\ W!FrameNeverEnds)
    /\ [][part = "request" =>
            Q!ServedFilesAllowed /\ Q!TokenSpentOnForward /\ Q!DeadPinDropped]_partsVars

\* Who waits in the part.  The clients of tunnels are alike: c1 stands for each of them.
Waits ==
    \/ part = "tunnel" /\ Tunnel!StartWaits("c1")
    \/ part = "upstream" /\ U!SetUpWaits
    \/ part = "server" /\ S!ServeWaits
    \/ part = "exchange" /\ Fcgi!WorkerWaits
    \/ part = "start" /\ Begin!StartWaits

\* Whoever waits is told in the end: every tunnel start is answered, the update state
\* catches up with the feed, an upstream is connected or given up, the proxy stops when
\* asked to once both of its loops run, a PHP worker is set free, and the start of the daemon
\* is seen to its end.
EveryWaitEnds ==
    /\ Waits ~> ~Waits
    /\ <>[](part = "updates" => Check!UpToDate)
=============================================================================
