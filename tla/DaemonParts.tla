----------------------------- MODULE DaemonParts -----------------------------
(***************************************************************************)
(* Five parts of the daemon that share no state: the site groups of the    *)
(* configuration, the watcher of the filesystem, the one-time codes of LAN *)
(* mode, starts and restarts, and the sockets of a start.  A behaviour     *)
(* picks a part and steps it alone, with the variables of the others at    *)
(* rest.  The theorems hold for every value of the constants that the      *)
(* named assumptions allow; MCParts gives them small values and adds the   *)
(* parts that are only model-checked.                                      *)
(***************************************************************************)
EXTENDS SiteGroups, FiniteSets, TLAPS

CONSTANTS
    Roots, Projects, RootOf, MaxChanges,                 \* FsWatch
    Clients, TTL, MAX_CONNS, MaxCodes, MaxClock,         \* RemoteSetup
    Gui, MaxBoots,                                       \* DaemonLifecycle, with Clients
    Desired, Fallback, DnsPorts, AnyPorts, RETRY_BUDGET, MaxMoves   \* Listeners

VARIABLES
    part,
    web, gen, stamp, changes, parked, router, cache, tracked, kernel, event, dirty, pc, wanted,
    unseen,
    lan, bound, code, holder, task, clock, minted, conns, fetched,
    file, lock, ca, boot, conn, acked, gui, raced,
    os, lan_mode, may, desired, fallback, dns_port, lan_ip, others, step, tried, again, http,
    https, udp, tcp, attempt, moves

Watch == INSTANCE FsWatch WITH desired <- wanted
Lan == INSTANCE RemoteSetup
Life == INSTANCE DaemonLifecycle
Bind == INSTANCE Listeners WITH lan <- lan_mode

NoWatch ==
    /\ web = 0 /\ gen = 0 /\ stamp = 0 /\ changes = 0 /\ parked = 0 /\ router = 0 /\ cache = 0
    /\ tracked = 0 /\ kernel = 0 /\ event = 0 /\ dirty = 0 /\ pc = 0 /\ wanted = 0 /\ unseen = 0
NoLan ==
    /\ lan = 0 /\ bound = 0 /\ code = 0 /\ holder = 0 /\ task = 0 /\ clock = 0 /\ minted = 0
    /\ conns = 0 /\ fetched = 0
NoLife == file = 0 /\ lock = 0 /\ ca = 0 /\ boot = 0 /\ conn = 0 /\ acked = 0 /\ gui = 0 /\ raced = 0
NoBind ==
    /\ os = 0 /\ lan_mode = 0 /\ may = 0 /\ desired = 0 /\ fallback = 0 /\ dns_port = 0
    /\ lan_ip = 0 /\ others = 0 /\ step = 0 /\ tried = 0 /\ again = 0 /\ http = 0 /\ https = 0
    /\ udp = 0 /\ tcp = 0 /\ attempt = 0 /\ moves = 0

watchVars ==
    <<web, gen, stamp, changes, parked, router, cache, tracked, kernel, event, dirty, pc, wanted, unseen>>
lanVars == <<lan, bound, code, holder, task, clock, minted, conns, fetched>>
lifeVars == <<file, lock, ca, boot, conn, acked, gui, raced>>
bindVars ==
    <<os, lan_mode, may, desired, fallback, dns_port, lan_ip, others, step, tried, again, http, https,
      udp, tcp, attempt, moves>>
daemonVars == <<vars, watchVars, lanVars, lifeVars, bindVars>>

DaemonInit ==
    \/ part = "groups" /\ Init /\ NoWatch /\ NoLan /\ NoLife /\ NoBind
    \/ part = "watch" /\ Watch!Init /\ Init /\ NoLan /\ NoLife /\ NoBind
    \/ part = "setup" /\ Lan!Init /\ Init /\ NoWatch /\ NoLife /\ NoBind
    \/ part = "lifecycle" /\ Life!Init /\ Init /\ NoWatch /\ NoLan /\ NoBind
    \/ part = "listeners" /\ Bind!Init /\ Init /\ NoWatch /\ NoLan /\ NoLife

DaemonNext ==
    /\ UNCHANGED part
    /\ \/ part = "groups" /\ Next /\ UNCHANGED <<watchVars, lanVars, lifeVars, bindVars>>
       \/ part = "watch" /\ Watch!Next /\ UNCHANGED <<vars, lanVars, lifeVars, bindVars>>
       \/ part = "setup" /\ Lan!Next /\ UNCHANGED <<vars, watchVars, lifeVars, bindVars>>
       \/ part = "lifecycle" /\ Life!Next /\ UNCHANGED <<vars, watchVars, lanVars, bindVars>>
       \/ part = "listeners" /\ Bind!Next /\ UNCHANGED <<vars, watchVars, lanVars, lifeVars>>

DaemonSpec == DaemonInit /\ [][DaemonNext]_<<part, daemonVars>>

-----------------------------------------------------------------------------
\* FsWatch: at rest the router serves what is on disk wherever a watch reported the
\* changes, what is unresolved is watched, and no watch outlives its purpose.
WatchesServe == part = "watch" => Watch!ReportedChangesServed /\ Watch!NoStrayWatch

\* RemoteSetup: no live code while LAN mode is off, and no code used twice.
CodeLiveOnlyWhileOn == part = "setup" => Lan!CodeLiveOnlyWhileOn

\* DaemonLifecycle: what was acknowledged is served by the next boot, and a changed port is
\* applied by a restart of the right daemon, unless a boot went on with a configuration that
\* another process had changed since; the authority on disk is always the one served.
RestartsSafe ==
    part = "lifecycle" => Life!TypeOK /\ Life!AckedServed /\ Life!AuthorityOnDisk /\ Life!PortChangeApplied

\* Listeners: ports are held in whole pairs, and DNS answers addresses that lead here.
PortsWhole == part = "listeners" => Bind!TypeOK /\ Bind!PairsWhole /\ Bind!AnswersReachable

-----------------------------------------------------------------------------
(* The groups of the configuration, for any sets of sites and spellings.   *)
(* The invariant also says that no two groups of the order have the same   *)
(* name up to case: a rename that found the wrong one of two would move    *)
(* the members and not the entry.                                          *)

Distinct == \A i, j \in DOMAIN order : Same(order[i], order[j]) => i = j

GroupsInv ==
    /\ order \in Seq(Spellings)
    /\ members \in [Sites -> Spellings \cup {Unallocated}]
    /\ Distinct
    /\ MembersCanonical

LEMMA CreateKeeps ==
    ASSUME FoldsSpellings, GroupsInv, NEW g \in Spellings, apply_create_group(g)
    PROVE  GroupsInv'
<1> USE DEF FoldsSpellings
<1>1. order' = Append(order, g) /\ members' = members
  BY Zenon DEF apply_create_group, Commit
<1>2. order' \in Seq(Spellings)
  BY <1>1 DEF GroupsInv
<1>3. Distinct'
  BY Zenon, <1>1 DEF apply_create_group, Commit, validate_groups, Distinct
<1>4. \A i \in DOMAIN order : i \in DOMAIN order' /\ order'[i] = order[i]
  BY <1>1 DEF GroupsInv
<1>5. MembersCanonical'
  BY Zenon, <1>1, <1>4 DEF GroupsInv, MembersCanonical
<1> QED BY Zenon, <1>1, <1>2, <1>3, <1>5 DEF GroupsInv

LEMMA DeleteKeeps ==
    ASSUME FoldsSpellings, GroupsInv, NEW g \in Spellings, apply_delete_group(g)
    PROVE  GroupsInv'
<1> USE DEF FoldsSpellings
<1>1. CASE order' = order /\ members' = members
  BY Zenon, <1>1 DEF GroupsInv, Distinct, MembersCanonical, Same
<1>2. CASE \E i \in DOMAIN order :
             /\ Same(order[i], g)
             /\ Commit(Without(order, i),
                       [s \in Sites |-> IF s \in Member(g) THEN Unallocated ELSE members[s]])
  <2>1. PICK i \in DOMAIN order :
             /\ Same(order[i], g)
             /\ Commit(Without(order, i),
                       [s \in Sites |-> IF s \in Member(g) THEN Unallocated ELSE members[s]])
    BY Zenon, <1>2
  <2>2. order' = Without(order, i)
    BY Zenon, <2>1 DEF Commit
  <2>3. members' = [s \in Sites |-> IF s \in Member(g) THEN Unallocated ELSE members[s]]
    BY Zenon, <2>1 DEF Commit
  <2>4. i \in 1 .. Len(order) /\ Len(order) \in Nat
    BY DEF GroupsInv
  <2>5. order' \in Seq(Spellings)
    BY <2>2, <2>4 DEF GroupsInv, Without
  <2>6. Distinct'
    BY Zenon, <2>1, <2>2 DEF Commit, validate_groups, Distinct
  <2>7. \A k \in DOMAIN order : k # i => \E j \in DOMAIN order' : order'[j] = order[k]
    <3> SUFFICES ASSUME NEW k \in DOMAIN order, k # i
                 PROVE  \E j \in DOMAIN order' : order'[j] = order[k]
      BY Zenon
    <3>1. k \in 1 .. Len(order)
      BY DEF GroupsInv
    <3>2. DOMAIN order' = 1 .. Len(order) - 1
      BY Zenon, <2>2 DEF Without
    <3>3. CASE k < i
      <4>1. k \in DOMAIN order' /\ order'[k] = order[k]
        BY <2>2, <2>4, <3>1, <3>2, <3>3 DEF Without
      <4> QED BY Zenon, <4>1
    <3>4. CASE k > i
      <4>1. k - 1 \in DOMAIN order' /\ order'[k - 1] = order[k]
        BY <2>2, <2>4, <3>1, <3>2, <3>4 DEF Without
      <4> QED BY Zenon, <4>1
    <3> QED BY <2>4, <3>1, <3>3, <3>4
  <2>8. ASSUME NEW s \in Sites, members'[s] # Unallocated
        PROVE  \E j \in DOMAIN order' : order'[j] = members'[s]
    <3>1. s \notin Member(g) /\ members'[s] = members[s]
      BY Zenon, <2>3, <2>8
    <3>2. ~Same(members[s], g)
      BY Zenon, <2>8, <3>1 DEF Member
    <3>3. PICK k \in DOMAIN order : order[k] = members[s]
      BY Zenon, <2>8, <3>1 DEF GroupsInv, MembersCanonical
    <3>4. k # i
      BY Zenon, <2>1, <3>2, <3>3
    <3> QED BY Zenon, <2>7, <3>1, <3>3, <3>4
  <2>9. members' \in [Sites -> Spellings \cup {Unallocated}]
    BY Zenon, <2>3 DEF GroupsInv
  <2> QED BY Zenon, <2>5, <2>6, <2>8, <2>9 DEF GroupsInv, MembersCanonical
<1> QED BY Zenon, <1>1, <1>2 DEF apply_delete_group, Commit

LEMMA OrderKeeps ==
    ASSUME FoldsSpellings, GroupsInv, NEW want \in [DOMAIN order -> Spellings], apply_set_group_order(want)
    PROVE  GroupsInv'
<1> USE DEF FoldsSpellings
<1>1. order' = want /\ members' = members
  BY Zenon DEF apply_set_group_order, Commit
<1>2. order' \in Seq(Spellings)
  BY <1>1 DEF GroupsInv
<1>3. Distinct'
  BY Zenon, <1>1 DEF apply_set_group_order, Commit, validate_groups, Distinct
<1>4. \A i \in DOMAIN order : \E j \in DOMAIN order' : order'[j] = order[i]
  BY Zenon, <1>1 DEF apply_set_group_order, Permutes
<1>5. MembersCanonical'
  BY <1>1, <1>4 DEF GroupsInv, MembersCanonical
<1> QED BY Zenon, <1>1, <1>2, <1>3, <1>5 DEF GroupsInv

LEMMA AssignKeeps ==
    ASSUME FoldsSpellings, GroupsInv, NEW s \in Sites, NEW g \in Spellings,
           apply_set_site_group(s, g) \/ Ungroup(s)
    PROVE  GroupsInv'
<1> USE DEF FoldsSpellings
<1>1. CASE Ungroup(s)
  BY Zenon, <1>1 DEF Ungroup, Commit, GroupsInv, Distinct, Same, MembersCanonical
<1>2. CASE apply_set_site_group(s, g)
  <2>1. PICK i \in DOMAIN order : order' = order /\ members' = [members EXCEPT ![s] = order[i]]
    BY Zenon, <1>2 DEF apply_set_site_group, Commit
  <2>2. order[i] \in Spellings
    BY DEF GroupsInv
  <2> QED BY Zenon, <2>1, <2>2 DEF GroupsInv, Distinct, Same, MembersCanonical
<1> QED BY Zenon, <1>1, <1>2

LEMMA RenameKeeps ==
    ASSUME FoldsSpellings, GroupsInv, NEW from \in Spellings, NEW to \in Spellings,
           apply_rename_group(from, to)
    PROVE  GroupsInv'
<1> USE DEF FoldsSpellings
<1>1. PICK i \in DOMAIN order :
        /\ Same(order[i], from)
        /\ Commit([order EXCEPT ![i] = to],
                  [s \in Sites |-> IF s \in Member(from) THEN to ELSE members[s]])
  BY Zenon DEF apply_rename_group
<1>2. order' = [order EXCEPT ![i] = to]
  BY Zenon, <1>1 DEF Commit
<1>3. members' = [s \in Sites |-> IF s \in Member(from) THEN to ELSE members[s]]
  BY Zenon, <1>1 DEF Commit
<1>4. order' \in Seq(Spellings) /\ DOMAIN order' = DOMAIN order /\ order'[i] = to
  BY <1>2 DEF GroupsInv
<1>5. members' \in [Sites -> Spellings \cup {Unallocated}]
  BY Zenon, <1>3 DEF GroupsInv
<1>6. Distinct'
  BY Zenon, <1>1, <1>2 DEF Commit, validate_groups, Distinct
<1>7. ASSUME NEW s \in Sites, members'[s] # Unallocated
      PROVE  \E j \in DOMAIN order' : order'[j] = members'[s]
  <2>1. CASE s \in Member(from)
    BY Zenon, <1>3, <1>4, <2>1
  <2>2. CASE s \notin Member(from)
    <3>1. members'[s] = members[s]
      BY Zenon, <1>3, <2>2
    <3>2. ~Same(members[s], from)
      BY Zenon, <1>7, <2>2, <3>1 DEF Member
    <3>3. PICK k \in DOMAIN order : order[k] = members[s]
      BY Zenon, <1>7, <3>1 DEF GroupsInv, MembersCanonical
    <3>4. k # i
      BY Zenon, <1>1, <3>2, <3>3
    <3>5. order'[k] = order[k]
      BY Zenon, <1>2, <3>4 DEF GroupsInv
    <3> QED BY Zenon, <1>4, <3>1, <3>3, <3>5
  <2> QED BY Zenon, <2>1, <2>2
<1> QED BY Zenon, <1>4, <1>5, <1>6, <1>7 DEF GroupsInv, MembersCanonical

\* Member values always equal an entry of the group order, whatever sites and
\* spellings there are (mutate.rs, apply_set_site_group and apply_rename_group).
THEOREM MembersAlwaysCanonical == Spec => []MembersCanonical
<1>1. Init => GroupsInv
  BY DEF Init, GroupsInv, Distinct, MembersCanonical
<1>2. GroupsInv /\ [Next]_vars => GroupsInv'
  <2> SUFFICES ASSUME GroupsInv, [Next]_vars PROVE GroupsInv'
    BY Zenon
  <2>1. CASE UNCHANGED vars
    BY Zenon, <2>1 DEF vars, GroupsInv, Distinct, Same, MembersCanonical
  <2>2. ASSUME NEW g \in Spellings, apply_create_group(g) \/ apply_delete_group(g)
        PROVE  GroupsInv'
    BY Zenon, SiteGroupsAssumption, <2>2, CreateKeeps, DeleteKeeps
  <2>3. ASSUME NEW g \in Spellings, NEW h \in Spellings, apply_rename_group(g, h)
        PROVE  GroupsInv'
    BY Zenon, SiteGroupsAssumption, <2>3, RenameKeeps
  <2>4. ASSUME NEW s \in Sites, Ungroup(s) \/ \E g \in Spellings : apply_set_site_group(s, g)
        PROVE  GroupsInv'
    BY Zenon, SiteGroupsAssumption, <2>4, AssignKeeps DEF FoldsSpellings
  <2>5. ASSUME NEW want \in [DOMAIN order -> Spellings], apply_set_group_order(want)
        PROVE  GroupsInv'
    BY Zenon, SiteGroupsAssumption, <2>5, OrderKeeps
  <2> QED BY Zenon, <2>1, <2>2, <2>3, <2>4, <2>5 DEF Next
<1>3. GroupsInv => MembersCanonical
  BY Zenon DEF GroupsInv
<1> QED BY <1>1, <1>2, <1>3, PTL DEF Spec

-----------------------------------------------------------------------------
(* Listeners.  What the configuration's validation guarantees of ports: no *)
(* port is 0 but DNS's, which means any, the two of a pair differ, and the *)
(* fallback pair needs no privilege.                                       *)

Pairs == {p \in (Nat \ {0}) \X (Nat \ {0}) : p[1] # p[2]}

ASSUME PortsAssumption ==
    /\ Desired \subseteq Pairs
    /\ Fallback \subseteq {p \in Pairs : p[1] >= 1024 /\ p[2] >= 1024}
    /\ DnsPorts \subseteq Nat /\ AnyPorts \subseteq Nat \ {0}
    /\ RETRY_BUDGET \in Nat \ {0} /\ MaxMoves \in Nat

WebSteps == {"http", "https", "classify", "fallback", "fallback_https", "classify_fallback"}
DnsSteps == {"dns", "dns_tcp", "up"}

BindTypes ==
    /\ os \in {"linux", "macos"} /\ lan_mode \in BOOLEAN /\ may \in BOOLEAN /\ lan_ip \in BOOLEAN
    /\ desired \in Desired /\ fallback \in Fallback /\ dns_port \in DnsPorts
    /\ others \subseteq Nat /\ {http, https, udp, tcp} \subseteq Nat /\ moves \in 0 .. MaxMoves
    /\ step \in WebSteps \cup DnsSteps
    /\ attempt \in 0 .. RETRY_BUDGET /\ (step \in WebSteps => attempt = 0)
    /\ step = "dns" => attempt < RETRY_BUDGET
    /\ DOMAIN tried = {1, 2} /\ DOMAIN again = {1, 2}

\* The sockets held are those of the attempts so far, step by step, until the
\* pair is kept or dropped as a whole.
BindInv ==
    /\ BindTypes
    /\ step = "http" => http = 0 /\ https = 0
    /\ step = "https" => http = Bind!Taken(Bind!Want[1], tried[1]) /\ https = 0
    /\ step = "classify" => http = Bind!Taken(Bind!Want[1], tried[1])
                              /\ https = Bind!Taken(Bind!Want[2], tried[2])
    /\ step \in {"fallback", "fallback_https", "classify_fallback"} => ~Bind!BothOk(tried)
    /\ step = "fallback" => http = 0 /\ https = 0
    /\ step = "fallback_https" => http = Bind!Taken(fallback[1], again[1]) /\ https = 0
    /\ step = "classify_fallback" => http = Bind!Taken(fallback[1], again[1])
                                      /\ https = Bind!Taken(fallback[2], again[2])
    /\ step \in DnsSteps => \/ http = Bind!Want[1] /\ https = Bind!Want[2]
                            \/ /\ ~Bind!BothOk(tried)
                               /\ \/ http = fallback[1] /\ https = fallback[2]
                                  \/ http = 0 /\ https = 0
    /\ step # "dns_tcp" => udp = tcp
    /\ step \in WebSteps \cup {"dns"} => udp = 0
    /\ step = "dns_tcp" => tcp = 0
    /\ dns_port # 0 /\ udp # 0 => udp = dns_port

LEMMA WantIsPair ==
    ASSUME BindTypes PROVE Bind!Want \in Pairs /\ (os = "macos" => Bind!Want[1] >= 1024 /\ Bind!Want[2] >= 1024)
BY PortsAssumption DEF BindTypes, Bind!Want, Bind!strip_privileged_desired, Bind!is_privileged,
     Bind!PRIVILEGED_PORT_CEILING, Pairs

LEMMA BindStarts == ASSUME Bind!Init PROVE BindInv
BY PortsAssumption DEF Bind!Init, BindInv, BindTypes, WebSteps, DnsSteps, Bind!BothOk

\* Each attempt sets one socket; a classification keeps or drops the pair.
LEMMA WebStepKeeps ==
    ASSUME BindInv,
           Bind!BindHttp \/ Bind!BindHttps \/ Bind!ClassifyDesired \/ Bind!FallbackHttp
             \/ Bind!FallbackHttps \/ Bind!ClassifyFallback
    PROVE  BindInv'
<1> USE DEF BindInv, Bind!conf, WebSteps, DnsSteps
<1>1. Bind!Want \in Pairs /\ fallback \in Pairs
  BY WantIsPair, PortsAssumption DEF BindTypes
<1>2. Bind!Want' = Bind!Want
  BY Zenon DEF Bind!Want, Bind!strip_privileged_desired, Bind!is_privileged, Bind!BindHttp,
         Bind!BindHttps, Bind!ClassifyDesired, Bind!FallbackHttp, Bind!FallbackHttps,
         Bind!ClassifyFallback
<1>3. CASE Bind!BindHttp
  BY <1>1, <1>2, <1>3 DEF Bind!BindHttp, BindTypes, Bind!Taken, Bind!BothOk, Pairs
<1>4. CASE Bind!BindHttps
  BY <1>1, <1>2, <1>4 DEF Bind!BindHttps, BindTypes, Bind!Taken, Bind!BothOk, Pairs
<1>5. CASE Bind!ClassifyDesired
  BY <1>1, <1>2, <1>5, PortsAssumption
     DEF Bind!ClassifyDesired, Bind!classify_desired, Bind!Settle, BindTypes, Bind!Taken, Bind!BothOk, Pairs
<1>6. CASE Bind!FallbackHttp
  BY <1>1, <1>2, <1>6 DEF Bind!FallbackHttp, BindTypes, Bind!Taken, Bind!BothOk, Pairs
<1>7. CASE Bind!FallbackHttps
  BY <1>1, <1>2, <1>7 DEF Bind!FallbackHttps, BindTypes, Bind!Taken, Bind!BothOk, Pairs
<1>8. CASE Bind!ClassifyFallback
  BY <1>1, <1>2, <1>8, PortsAssumption
     DEF Bind!ClassifyFallback, Bind!Settle, BindTypes, Bind!Taken, Bind!BothOk, Pairs
<1> QED BY Zenon, <1>3, <1>4, <1>5, <1>6, <1>7, <1>8

\* Bound::bind holds UDP and TCP on one port, or neither.
LEMMA DnsStepKeeps ==
    ASSUME BindInv,
           \/ Bind!BindUdp \/ Bind!BindTcp
           \/ \E port \in AnyPorts \cup UNION {{p[1], p[2]} : p \in Desired \cup Fallback} : Bind!OthersMove(port)
    PROVE  BindInv'
<1> USE DEF BindInv, Bind!conf, WebSteps, DnsSteps
<1>2. Bind!Want' = Bind!Want
  BY Zenon DEF Bind!Want, Bind!strip_privileged_desired, Bind!is_privileged, Bind!BindUdp,
         Bind!BindTcp, Bind!OthersMove
<1>3. CASE Bind!BindUdp
  BY <1>2, <1>3, PortsAssumption DEF Bind!BindUdp, BindTypes, Bind!BothOk
<1>4. CASE Bind!BindTcp
  BY <1>2, <1>4, PortsAssumption DEF Bind!BindTcp, BindTypes, Bind!Taken, Bind!BothOk
<1>5. ASSUME NEW port \in AnyPorts \cup UNION {{p[1], p[2]} : p \in Desired \cup Fallback},
             Bind!OthersMove(port)
      PROVE  BindInv'
  <2>1. port \in Nat
    BY PortsAssumption DEF Pairs
  <2> QED BY <1>2, <1>5, <2>1, PortsAssumption DEF Bind!OthersMove, BindTypes, Bind!BothOk, Bind!Taken
<1> QED BY Zenon, <1>3, <1>4, <1>5

\* What the responder answers depends on the configuration alone.
LEMMA BindAnswers == ASSUME BindTypes PROVE Bind!AnswersReachable
BY DEF BindTypes, Bind!AnswersReachable, Bind!Reaching, Bind!Sources, Bind!QNames, Bind!QTypes,
       Bind!handle_request, Bind!answer, Bind!a_record_for

LEMMA BindSafe == ASSUME BindInv PROVE Bind!TypeOK /\ Bind!PairsWhole /\ Bind!AnswersReachable
<1> USE DEF BindInv
<1>1. Bind!Want \in Pairs /\ fallback \in Pairs
  BY WantIsPair, PortsAssumption DEF BindTypes
<1>2. Bind!TypeOK
  BY Zenon DEF BindTypes, Bind!TypeOK
<1>3. Bind!PairsWhole
  BY <1>1, WantIsPair, PortsAssumption
     DEF Bind!PairsWhole, BindTypes, DnsSteps, WebSteps, Bind!web_ports, Bind!is_privileged,
         Bind!PRIVILEGED_PORT_CEILING, Pairs
<1> QED BY Zenon, <1>2, <1>3, BindAnswers

\* However many ports other programs take meanwhile, a start holds both web sockets on one
\* configured pair or neither, DNS on UDP and TCP alike or not at all, and answers every
\* source with an address that leads here, for every validated configuration.
THEOREM PortsStayWhole == DaemonSpec => []PortsWhole
<1> DEFINE Inv == part = "listeners" => BindInv
<1>1. DaemonInit => Inv
  BY Zenon, BindStarts DEF DaemonInit
<1>2. Inv /\ [DaemonNext]_<<part, daemonVars>> => Inv'
  <2>1. BindInv /\ UNCHANGED Bind!vars => BindInv'
    BY DEF Bind!vars, Bind!conf, BindInv, BindTypes, Bind!Want, Bind!strip_privileged_desired,
           Bind!is_privileged, Bind!Taken, Bind!BothOk
  <2>2. BindInv /\ Bind!Next => BindInv'
    BY Zenon, WebStepKeeps, DnsStepKeeps DEF Bind!Next
  <2> QED BY Zenon, <2>1, <2>2 DEF DaemonNext, daemonVars, bindVars, Bind!vars, Bind!conf
<1>3. Inv => PortsWhole
  BY Zenon, BindSafe DEF PortsWhole
<1> QED BY <1>1, <1>2, <1>3, PTL DEF DaemonSpec

-----------------------------------------------------------------------------
(* RemoteSetup.  No client is called "free", which stands for a lock that  *)
(* nobody holds, and codes and ticks are counted.                          *)

ASSUME CodesAssumption == "free" \notin Clients /\ MaxCodes \in Nat /\ TTL \in Nat

\* Only the holder of the config lock is in the middle of anything, a mint that passed
\* its check still finds LAN on, and a code outlives LAN only until its switch is over.
LockInv ==
    /\ lan \in BOOLEAN
    /\ task \in [Clients -> {"idle", "minting", "enabling", "disabling"}]
    /\ \A c \in Clients : task[c] # "idle" => holder = c
    /\ \A c \in Clients : task[c] = "minting" => lan
    /\ \A c \in Clients : task[c] = "enabling" => lan
    /\ ~lan /\ code # Lan!NoCode => \E c \in Clients : task[c] = "disabling"

\* A code is spent the first time it serves the script, and a later code is a new one.
FetchInv ==
    /\ minted \in Nat /\ clock \in Nat
    /\ code \in [value : Nat, expires_at : Nat, used : BOOLEAN]
    /\ code.value <= minted
    /\ fetched \in [1 .. MaxCodes -> {0, 1}]
    /\ \A v \in 1 .. MaxCodes : v > minted => fetched[v] = 0
    /\ \A v \in 1 .. MaxCodes : v = code.value /\ ~code.used => fetched[v] = 0

\* The program starts without a code and with nobody in the middle of anything.
LEMMA LanStarts == ASSUME Lan!Init PROVE LockInv /\ FetchInv
BY CodesAssumption DEF Lan!Init, LockInv, FetchInv, Lan!NoCode

\* Under the config lock a mint and a switch exclude each other, so that a switch to off
\* revokes whatever was minted before it and nothing is minted after it.
LEMMA LockKept == ASSUME LockInv, [Lan!Next]_(Lan!vars) PROVE LockInv'
<1> USE DEF LockInv
<1>1. ASSUME NEW c \in Clients, Lan!MintBegins(c) PROVE LockInv'
  BY Zenon, <1>1, CodesAssumption DEF Lan!MintBegins, Lan!Lock
<1>2. ASSUME NEW c \in Clients, Lan!Mint(c) PROVE LockInv'
  BY Zenon, <1>2 DEF Lan!Mint, Lan!Unlock
<1>3. ASSUME NEW c \in Clients, NEW e \in BOOLEAN, Lan!SwitchBegins(c, e) PROVE LockInv'
  <2>1. \A d \in Clients : task[d] = "idle"
    BY Zenon, <1>3, CodesAssumption DEF Lan!SwitchBegins, Lan!Lock
  <2> QED BY Zenon, <1>3, <2>1 DEF Lan!SwitchBegins, Lan!Lock
<1>4. ASSUME NEW c \in Clients, Lan!Switch(c) PROVE LockInv'
  <2>1. \A d \in Clients : d # c => task[d] = "idle"
    BY Zenon, <1>4 DEF Lan!Switch
  <2> QED BY Zenon, <1>4, <2>1 DEF Lan!Switch, Lan!Unlock
<1>5. ASSUME NEW req \in Lan!Requests, Lan!Handle(req) PROVE LockInv'
  <2>1. code # Lan!NoCode
    BY <1>5 DEF Lan!Handle, Lan!decide, Lan!classify, Lan!consume_code, Lan!Requests, Lan!NoCode
  <2> QED BY Zenon, <1>5, <2>1 DEF Lan!Handle
<1>6. CASE Lan!Restart
  BY Zenon, <1>6 DEF Lan!Restart, Lan!NoCode
<1>7. CASE (\E p \in BOOLEAN : Lan!Accept(p)) \/ Lan!Hangup \/ Lan!Tick \/ UNCHANGED Lan!vars
  BY Zenon, <1>7 DEF Lan!Accept, Lan!Hangup, Lan!Tick, Lan!vars
<1> QED BY Zenon, <1>1, <1>2, <1>3, <1>4, <1>5, <1>6, <1>7 DEF Lan!Next

\* Serving the script spends the code in the same step, and a code value is never drawn
\* twice.
LEMMA FetchKept == ASSUME FetchInv, [Lan!Next]_(Lan!vars) PROVE FetchInv'
<1> USE DEF FetchInv
<1>1. ASSUME NEW c \in Clients, Lan!Mint(c) PROVE FetchInv'
  BY <1>1, CodesAssumption DEF Lan!Mint
<1>2. ASSUME NEW req \in Lan!Requests, Lan!Handle(req) PROVE FetchInv'
  <2>1. /\ req.code \in 1 .. MaxCodes /\ req.code = code.value /\ ~code.used
    BY <1>2, CodesAssumption DEF Lan!Handle, Lan!decide, Lan!classify, Lan!consume_code, Lan!Requests
  <2>2. fetched[req.code] = 0
    BY Zenon, <2>1
  <2>3. fetched' = [fetched EXCEPT ![req.code] = 1]
    BY <1>2, <2>2 DEF Lan!Handle
  <2>4. UNCHANGED <<minted, clock>> /\ code' = [code EXCEPT !.used = TRUE]
    BY Zenon, <1>2 DEF Lan!Handle
  <2>5. code'.used /\ code'.value = code.value
          /\ code' \in [value : Nat, expires_at : Nat, used : BOOLEAN]
    BY Zenon, <2>4
  <2>6. fetched' \in [1 .. MaxCodes -> {0, 1}]
    BY Zenon, <2>3
  <2>7. \A v \in 1 .. MaxCodes : v > minted => fetched'[v] = 0
    BY <2>1, <2>3
  <2> QED BY Zenon, <2>4, <2>5, <2>6, <2>7
<1>3. ASSUME NEW c \in Clients, Lan!Switch(c) PROVE FetchInv'
  BY <1>3 DEF Lan!Switch, Lan!NoCode
<1>4. CASE Lan!Restart
  BY <1>4 DEF Lan!Restart, Lan!NoCode
<1>5. CASE Lan!Tick
  BY <1>5 DEF Lan!Tick
<1>6. ASSUME NEW c \in Clients,
             Lan!MintBegins(c) \/ (\E e \in BOOLEAN : Lan!SwitchBegins(c, e))
      PROVE FetchInv'
  BY Zenon, <1>6 DEF Lan!MintBegins, Lan!SwitchBegins
<1>7. CASE (\E p \in BOOLEAN : Lan!Accept(p)) \/ Lan!Hangup \/ UNCHANGED Lan!vars
  BY Zenon, <1>7 DEF Lan!Accept, Lan!Hangup, Lan!vars
<1> QED BY Zenon, <1>1, <1>2, <1>3, <1>4, <1>5, <1>6, <1>7 DEF Lan!Next

\* For any number of clients and of codes: with LAN off and no request in progress no
\* code is live, and no code serves the script twice (mint_remote_setup_code,
\* set_lan_enabled, consume_code).
THEOREM CodeDiesWithLan == DaemonSpec => []CodeLiveOnlyWhileOn
<1> DEFINE Inv == part = "setup" => LockInv /\ FetchInv
<1>1. DaemonInit => Inv
  BY Zenon, LanStarts DEF DaemonInit
<1>2. Inv /\ [DaemonNext]_<<part, daemonVars>> => Inv'
  BY Zenon, LockKept, FetchKept DEF DaemonNext, daemonVars, lanVars, Lan!vars
<1>3. Inv => CodeLiveOnlyWhileOn
  <2> SUFFICES ASSUME LockInv, FetchInv PROVE Lan!CodeLiveOnlyWhileOn
    BY Zenon DEF CodeLiveOnlyWhileOn
  <2>1. ~lan /\ holder = "free" => code = Lan!NoCode
    BY Zenon, CodesAssumption DEF LockInv
  <2>2. \A v \in DOMAIN fetched : fetched[v] <= 1
    BY DEF FetchInv
  <2> QED BY Zenon, <2>1, <2>2 DEF Lan!CodeLiveOnlyWhileOn
<1> QED BY <1>1, <1>2, <1>3, PTL DEF DaemonSpec

-----------------------------------------------------------------------------
(* FsWatch.  A project lies in a root and is not one; there is a project.  *)

ASSUME TreeAssumption ==
    /\ RootOf \in [Projects -> Roots] /\ Roots \cap Projects = {} /\ Projects # {}
    /\ MaxChanges \in Nat

WatchTypes ==
    /\ web \in [Projects -> {"missing", "none", "empty", "index"}]
    /\ gen \in [Roots \cup Projects -> Nat] /\ changes \in Nat
    /\ \A p \in Projects : web[p] # "missing" => gen[p] # 0
    /\ stamp \in [Projects -> 0 .. changes]
    /\ cache \in [Projects -> [stamp : 0 .. changes, found : {"root", "public"}]]
    /\ router \in [Projects -> {"absent", "root", "public"}]
    /\ parked \subseteq Roots /\ unseen \subseteq Projects
    /\ event \in BOOLEAN /\ dirty \in BOOLEAN /\ pc \in {"woken", "scanned", "idle"}

\* A cached answer under the present stamp is the present answer, unless a change went
\* unreported.
CacheInv ==
    \A p \in Projects \ unseen :
        web[p] # "missing" /\ cache[p].stamp = stamp[p] => cache[p].found = Watch!Now(p)

\* Every wake that was consumed has led, or will lead, to a rebuild and then to a
\* reconcile with what the rebuild found.
WakeInv ==
    /\ ~event /\ pc # "woken" => \A p \in Projects \ unseen : router[p] = Watch!Actual(p)
    /\ ~dirty /\ pc = "scanned" => wanted = Watch!WatchRoots(parked, router)
    /\ ~dirty /\ ~event /\ pc = "idle" => \A p \in Projects \ unseen : router[p] = "root" => p \in tracked
    /\ ~dirty /\ pc = "idle" /\ unseen = {} => tracked \subseteq Watch!WatchRoots(parked, router)

\* The operating system has no watch that the daemon forgot.
KernelInv == \A w \in kernel : w[1] \in tracked

WatchInv == WatchTypes /\ CacheInv /\ WakeInv /\ KernelInv

LEMMA NowIs ==
    ASSUME WatchTypes, NEW p \in Projects
    PROVE  /\ web[p] = "missing" => Watch!Now(p) = "absent"
           /\ web[p] = "index" => Watch!Now(p) = "public"
           /\ web[p] \in {"none", "empty"} => Watch!Now(p) = "root"
           /\ web[p] # "missing" => Watch!Now(p) \in {"root", "public"}
BY Zenon DEF WatchTypes, Watch!Now

LEMMA WatchStarts == ASSUME Watch!Init PROVE WatchInv
<1>1. WatchTypes
  <2>1. web \in [Projects -> {"missing", "none", "empty", "index"}] /\ changes = 1 /\ unseen = {}
    BY Zenon DEF Watch!Init
  <2>2. gen \in [Roots \cup Projects -> Nat] /\ \A p \in Projects : web[p] # "missing" => gen[p] # 0
    BY DEF Watch!Init
  <2>3. \A p \in Projects : Watch!Now(p) \in {"absent", "root", "public"}
          /\ (web[p] # "missing" => Watch!Now(p) \in {"root", "public"})
    BY Zenon, <2>1 DEF Watch!Now
  <2>4. stamp \in [Projects -> 0 .. changes]
    BY DEF Watch!Init
  <2>5. cache \in [Projects -> [stamp : 0 .. changes, found : {"root", "public"}]]
    BY <2>3 DEF Watch!Init, Watch!Fresh
  <2>6. router \in [Projects -> {"absent", "root", "public"}]
    BY Zenon, <2>3 DEF Watch!Init, Watch!Actual
  <2>7. parked \subseteq Roots /\ event \in BOOLEAN /\ dirty \in BOOLEAN /\ pc = "woken"
    BY Zenon DEF Watch!Init
  <2> QED BY Zenon, <2>1, <2>2, <2>4, <2>5, <2>6, <2>7 DEF WatchTypes
<1>2. CacheInv
  BY DEF Watch!Init, Watch!Fresh, CacheInv
<1>3. WakeInv /\ KernelInv
  BY Zenon DEF Watch!Init, WakeInv, KernelInv
<1> QED BY Zenon, <1>1, <1>2, <1>3 DEF WatchInv

\* What a rebuild serves and remembers is true of every project it leaves out of unseen.
LEMMA ScanIsTrue ==
    ASSUME WatchTypes, CacheInv, NEW roots \in SUBSET Roots, Watch!build_routing(roots),
           UNCHANGED Watch!fs, parked' = roots
    PROVE  /\ router' \in [Projects -> {"absent", "root", "public"}]
           /\ cache' \in [Projects -> [stamp : 0 .. changes, found : {"root", "public"}]]
           /\ unseen' \subseteq unseen
           /\ \A p \in Projects \ unseen' : router'[p] = Watch!Actual(p)'
           /\ CacheInv'
<1> DEFINE scanned == {p \in Projects : RootOf[p] \in roots /\ web[p] # "missing"}
<1>1. /\ router' = [p \in Projects |-> IF p \in scanned THEN Watch!detect(p) ELSE "absent"]
      /\ cache' = [p \in Projects |-> IF p \in scanned THEN [stamp |-> stamp[p], found |-> Watch!detect(p)]
                                      ELSE cache[p]]
      /\ unseen' = {p \in unseen : IF p \in scanned THEN Watch!detect(p) # Watch!Now(p)
                                    ELSE web[p] # "missing"}
  BY Zenon DEF Watch!build_routing, Watch!freshness_stamp
<1>2. web' = web /\ stamp' = stamp /\ changes' = changes
  BY Zenon DEF Watch!fs
<1>3. \A p \in Projects : Watch!Now(p)' = Watch!Now(p)
  BY Zenon, <1>2 DEF Watch!Now
<1>4. \A p \in scanned : Watch!detect(p) \in {"root", "public"}
  BY Zenon, NowIs DEF WatchTypes, Watch!detect
<1>5. \A p \in scanned \ unseen' : Watch!detect(p) = Watch!Now(p)
  BY Zenon, <1>1 DEF CacheInv, Watch!detect, Watch!freshness_stamp
<1>6. router' \in [Projects -> {"absent", "root", "public"}]
  BY Zenon, <1>1, <1>4
<1>7. cache' \in [Projects -> [stamp : 0 .. changes, found : {"root", "public"}]]
  BY Zenon, <1>1, <1>4 DEF WatchTypes
<1>8. ASSUME NEW p \in Projects \ unseen' PROVE router'[p] = Watch!Actual(p)'
  BY Zenon, <1>1, <1>3, <1>5, NowIs DEF Watch!Actual
<1>9. ASSUME NEW p \in Projects \ unseen', web'[p] # "missing", cache'[p].stamp = stamp'[p]
      PROVE  cache'[p].found = Watch!Now(p)'
  <2>1. CASE p \in scanned
    BY Zenon, <1>1, <1>3, <1>5, <2>1
  <2>2. CASE p \notin scanned
    BY Zenon, <1>1, <1>2, <1>3, <1>9, <2>2 DEF CacheInv
  <2> QED BY Zenon, <2>1, <2>2
<1> HIDE DEF scanned
<1> QED BY Zenon, <1>1, <1>6, <1>7, <1>8, <1>9 DEF CacheInv

\* Wake, Recompute, RecomputeFails, Reconcile.
LEMMA WatcherKeeps ==
    ASSUME WatchInv, Watch!Wake \/ Watch!Recompute \/ Watch!RecomputeFails \/ Watch!Reconcile
    PROVE  WatchInv'
<1> USE DEF WatchInv
<1>1. CASE Watch!Wake
  <2>1. UNCHANGED <<web, gen, stamp, changes, parked, router, cache, tracked, kernel, wanted, unseen>>
    BY Zenon, <1>1 DEF Watch!Wake, Watch!fs
  <2>2. pc' = "woken" /\ event' \in BOOLEAN /\ dirty' \in BOOLEAN
    BY Zenon, <1>1 DEF Watch!Wake, WatchTypes
  <2> QED BY Zenon, <2>1, <2>2 DEF WatchTypes, CacheInv, WakeInv, KernelInv, Watch!Now
<1>2. CASE Watch!Recompute
  <2>1. /\ Watch!build_routing(parked) /\ UNCHANGED Watch!fs /\ parked' = parked
        /\ wanted' = Watch!WatchRoots(parked, router') /\ pc' = "scanned"
        /\ UNCHANGED <<web, gen, stamp, changes, tracked, kernel, event, dirty>>
    BY Zenon, <1>2 DEF Watch!Recompute, Watch!fs
  <2>2. /\ router' \in [Projects -> {"absent", "root", "public"}]
        /\ cache' \in [Projects -> [stamp : 0 .. changes, found : {"root", "public"}]]
        /\ unseen' \subseteq unseen
        /\ \A p \in Projects \ unseen' : router'[p] = Watch!Actual(p)'
        /\ CacheInv'
    BY Zenon, <2>1, ScanIsTrue DEF WatchTypes
  <2>3. WatchTypes'
    BY Zenon, <2>1, <2>2 DEF WatchTypes
  <2>4. WakeInv'
    BY Zenon, <2>1, <2>2 DEF WakeInv
  <2> QED BY Zenon, <2>1, <2>2, <2>3, <2>4 DEF KernelInv
<1>3. CASE Watch!RecomputeFails
  <2>1. /\ UNCHANGED <<web, gen, stamp, changes, parked, router, cache, tracked, kernel, event, dirty, wanted>>
        /\ unseen' = Projects /\ pc' = "idle"
    BY Zenon, <1>3 DEF Watch!RecomputeFails, Watch!fs
  <2> QED BY Zenon, <2>1, TreeAssumption DEF WatchTypes, CacheInv, WakeInv, KernelInv
<1>4. CASE Watch!Reconcile
  <2> DEFINE stale == tracked \ wanted
             added == {path \in wanted \ tracked : gen[path] # 0}
  <2>1. /\ pc = "scanned" /\ pc' = "idle"
        /\ tracked' = (tracked \ stale) \cup added
        /\ kernel' = {w \in kernel : w[1] \notin stale} \cup {<<path, gen[path]>> : path \in added}
        /\ UNCHANGED <<web, gen, stamp, changes, parked, router, cache, event, dirty, wanted, unseen>>
    BY Zenon, <1>4 DEF Watch!Reconcile, Watch!fs
  <2>2. WatchTypes' /\ CacheInv'
    BY Zenon, <2>1 DEF WatchTypes, CacheInv, Watch!Now
  <2>3. KernelInv'
    BY <2>1 DEF KernelInv
  <2>4. tracked' \subseteq wanted
    BY Zenon, <2>1
  <2>5. \A p \in Projects : Watch!Actual(p)' = Watch!Actual(p)
    BY Zenon, <2>1 DEF Watch!Actual, Watch!Now
  <2>6. ASSUME ~event, ~dirty, NEW p \in Projects \ unseen, router[p] = "root"
        PROVE  p \in tracked'
    <3>1. p \in wanted
      BY Zenon, <2>1, <2>6 DEF WakeInv, Watch!WatchRoots
    <3>2. Watch!Actual(p) = "root"
      BY Zenon, <2>1, <2>6 DEF WakeInv
    <3>3. web[p] # "missing"
      BY Zenon, <3>2, NowIs DEF Watch!Actual
    <3>4. gen[p] # 0
      BY Zenon, <3>3 DEF WatchTypes
    <3> QED BY Zenon, <2>1, <3>1, <3>4
  <2>7. WakeInv'
    <3>1. ~event' => \A p \in Projects \ unseen' : router'[p] = Watch!Actual(p)'
      BY Zenon, <2>1, <2>5 DEF WakeInv
    <3>2. ~dirty' => tracked' \subseteq Watch!WatchRoots(parked', router')
      BY Zenon, <2>1, <2>4 DEF WakeInv
    <3> QED BY Zenon, <2>1, <2>6, <3>1, <3>2 DEF WakeInv
  <2> QED BY Zenon, <2>2, <2>3, <2>7
<1> QED BY Zenon, <1>1, <1>2, <1>3, <1>4

\* A mutation scans with the configuration it is about to commit, and leaves a permit.
LEMMA MutationKeeps ==
    ASSUME WatchInv, NEW r \in Roots, Watch!Mutate(r) PROVE WatchInv'
<1> USE DEF WatchInv
<1>1. PICK new \in SUBSET Roots : parked' = new /\ Watch!build_routing(new)
  BY Zenon DEF Watch!Mutate, WatchTypes
<1>2. UNCHANGED Watch!fs /\ UNCHANGED <<web, gen, stamp, changes, tracked, kernel, event, pc, wanted>> /\ dirty' = TRUE
  BY Zenon DEF Watch!Mutate, Watch!fs
<1>3. /\ router' \in [Projects -> {"absent", "root", "public"}]
      /\ cache' \in [Projects -> [stamp : 0 .. changes, found : {"root", "public"}]]
      /\ unseen' \subseteq unseen
      /\ \A p \in Projects \ unseen' : router'[p] = Watch!Actual(p)'
      /\ CacheInv'
  BY Zenon, <1>1, <1>2, ScanIsTrue
<1>4. WatchTypes'
  BY Zenon, <1>1, <1>2, <1>3 DEF WatchTypes
<1> QED BY Zenon, <1>2, <1>3, <1>4 DEF WakeInv, KernelInv

\* A change stamps the project anew or goes unreported; a reported one leaves an event.
LEMMA ChangeKeeps ==
    ASSUME WatchInv, NEW p \in Projects,
           Watch!CreateProject(p) \/ Watch!RemoveProject(p) \/ Watch!ChangeEntry(p) \/ Watch!ChangeInside(p)
    PROVE  WatchInv'
<1> USE DEF WatchInv
<1>1. PICK seen \in BOOLEAN :
        /\ changes' = changes + 1 /\ event' = (event \/ seen)
        /\ unseen' = IF seen THEN unseen ELSE unseen \cup {p}
        /\ UNCHANGED <<parked, router, cache, tracked, dirty, pc, wanted>>
        /\ Watch!ChangeInside(p) => ~seen
  BY Zenon DEF Watch!CreateProject, Watch!RemoveProject, Watch!ChangeEntry, Watch!ChangeInside, Watch!Changed
<1>2. PICK w \in {"missing", "none", "empty", "index"} : web' = [web EXCEPT ![p] = w]
  BY Zenon DEF Watch!CreateProject, Watch!RemoveProject, Watch!ChangeEntry, Watch!ChangeInside, WatchTypes
<1>3. \A q \in Projects : q # p => web'[q] = web[q]
  BY Zenon, <1>2 DEF WatchTypes
<1>4. /\ gen' \in [Roots \cup Projects -> Nat]
      /\ \A q \in Projects : web'[q] # "missing" => gen'[q] # 0
      /\ stamp' \in [Projects -> 0 .. changes + 1]
      /\ \A q \in Projects : q # p => stamp'[q] = stamp[q]
      /\ web'[p] = "missing" \/ Watch!ChangeInside(p) \/ stamp'[p] = changes + 1
  <2>1. CASE Watch!CreateProject(p)
    <3>1. gen' = [gen EXCEPT ![p] = changes + 1] /\ stamp' = [stamp EXCEPT ![p] = changes + 1]
      BY Zenon, <2>1 DEF Watch!CreateProject
    <3> QED BY <1>3, <3>1 DEF WatchTypes
  <2>2. CASE Watch!RemoveProject(p)
    <3>1. gen' = [gen EXCEPT ![p] = 0] /\ stamp' = stamp /\ web'[p] = "missing"
      BY Zenon, <2>2 DEF Watch!RemoveProject, WatchTypes
    <3> QED BY <1>3, <3>1 DEF WatchTypes
  <2>3. CASE Watch!ChangeEntry(p)
    <3>1. gen' = gen /\ stamp' = [stamp EXCEPT ![p] = changes + 1] /\ web[p] # "missing"
      BY Zenon, <2>3 DEF Watch!ChangeEntry
    <3> QED BY <1>3, <3>1 DEF WatchTypes
  <2>4. CASE Watch!ChangeInside(p)
    <3>1. gen' = gen /\ stamp' = stamp /\ web[p] # "missing"
      BY Zenon, <2>4 DEF Watch!ChangeInside
    <3> QED BY <1>3, <2>4, <3>1 DEF WatchTypes
  <2> QED BY Zenon, <2>1, <2>2, <2>3, <2>4
<1>5. kernel' \subseteq kernel
  BY Zenon DEF Watch!CreateProject, Watch!RemoveProject, Watch!ChangeEntry, Watch!ChangeInside
<1>6. cache' \in [Projects -> [stamp : 0 .. changes + 1, found : {"root", "public"}]]
  BY <1>1 DEF WatchTypes
<1>7. WatchTypes'
  <2>1. web' \in [Projects -> {"missing", "none", "empty", "index"}]
    BY Zenon, <1>2 DEF WatchTypes
  <2>2. event' \in BOOLEAN /\ unseen' \subseteq Projects
    BY Zenon, <1>1 DEF WatchTypes
  <2> QED BY <1>1, <1>4, <1>6, <2>1, <2>2 DEF WatchTypes
<1>8. \A q \in Projects \ {p} : web'[q] = web[q] /\ Watch!Now(q)' = Watch!Now(q) /\ Watch!Actual(q)' = Watch!Actual(q)
  BY Zenon, <1>1, <1>2 DEF Watch!Now, Watch!Actual, WatchTypes
<1>9. CacheInv'
  <2> SUFFICES ASSUME NEW q \in Projects \ unseen', web'[q] # "missing", cache'[q].stamp = stamp'[q]
               PROVE  cache'[q].found = Watch!Now(q)'
    BY Zenon DEF CacheInv
  <2>1. q \notin unseen
    BY Zenon, <1>1
  <2>2. CASE q # p
    BY Zenon, <1>1, <1>4, <1>8, <2>1, <2>2 DEF CacheInv
  <2>3. CASE q = p
    <3>1. ~Watch!ChangeInside(p)
      BY Zenon, <1>1, <2>3
    <3>2. stamp'[p] = changes + 1
      BY Zenon, <1>4, <2>3, <3>1
    <3>3. cache[p].stamp \in 0 .. changes
      BY Zenon DEF WatchTypes
    <3> QED BY <1>1, <2>3, <3>2, <3>3 DEF WatchTypes
  <2> QED BY Zenon, <2>2, <2>3
<1>10. WakeInv'
  <2>1. ~event' => ~event /\ unseen' = unseen \cup {p}
    BY Zenon, <1>1
  <2>2. unseen' = {} => unseen = {}
    BY Zenon, <1>1
  <2> QED BY Zenon, <1>1, <1>8, <2>1, <2>2 DEF WakeInv
<1> QED BY Zenon, <1>1, <1>5, <1>7, <1>9, <1>10 DEF KernelInv

LEMMA RootKeeps == ASSUME WatchInv, NEW r \in Roots, Watch!ChangeRoot(r) PROVE WatchInv'
<1> USE DEF WatchInv
<1>1. /\ changes' = changes + 1 /\ event' \in BOOLEAN /\ (event => event') /\ kernel' \subseteq kernel
      /\ UNCHANGED <<web, stamp, parked, router, cache, tracked, dirty, pc, wanted, unseen>>
  BY Zenon DEF Watch!ChangeRoot, WatchTypes
<1>2. gen' \in [Roots \cup Projects -> Nat] /\ \A p \in Projects : gen'[p] = gen[p]
  BY TreeAssumption DEF Watch!ChangeRoot, WatchTypes
<1>3. stamp' \in [Projects -> 0 .. changes + 1]
  BY <1>1 DEF WatchTypes
<1>4. cache' \in [Projects -> [stamp : 0 .. changes + 1, found : {"root", "public"}]]
  BY <1>1 DEF WatchTypes
<1>5. WatchTypes'
  BY <1>1, <1>2, <1>3, <1>4 DEF WatchTypes
<1>6. \A p \in Projects : Watch!Now(p)' = Watch!Now(p) /\ Watch!Actual(p)' = Watch!Actual(p)
  BY Zenon, <1>1 DEF Watch!Now, Watch!Actual
<1>7. CacheInv' /\ WakeInv'
  BY Zenon, <1>1, <1>6 DEF CacheInv, WakeInv
<1> QED BY Zenon, <1>1, <1>5, <1>7 DEF KernelInv

\* For any tree of parked roots and projects, whatever changes, mutations and failed scans
\* interleave with the watcher: at rest what a watch reported is served, what is unresolved
\* is watched, and no watch is left over (fs_watch.rs: no wake is lost).
THEOREM WatchesAlwaysServe == DaemonSpec => []WatchesServe
<1> DEFINE Inv == part = "watch" => WatchInv
<1>1. DaemonInit => Inv
  BY Zenon, WatchStarts DEF DaemonInit
<1>2. Inv /\ [DaemonNext]_<<part, daemonVars>> => Inv'
  <2>1. WatchInv /\ UNCHANGED Watch!vars => WatchInv'
    BY DEF Watch!vars, Watch!fs, Watch!daemon, WatchInv, WatchTypes, CacheInv, WakeInv, KernelInv,
           Watch!Now, Watch!Actual, Watch!WatchRoots
  <2>2. WatchInv /\ Watch!Next => WatchInv'
    BY Zenon, WatcherKeeps, MutationKeeps, ChangeKeeps, RootKeeps DEF Watch!Next
  <2> QED BY Zenon, <2>1, <2>2 DEF DaemonNext, daemonVars, watchVars, Watch!vars, Watch!fs, Watch!daemon
<1>3. Inv => WatchesServe
  BY Zenon DEF WatchesServe, WatchInv, WakeInv, KernelInv, Watch!ReportedChangesServed, Watch!NoStrayWatch, Watch!AtRest
<1> QED BY <1>1, <1>2, <1>3, PTL DEF DaemonSpec

-----------------------------------------------------------------------------
(* DaemonLifecycle, with boots that overlap.  Which of them may touch the  *)
(* authority and serve is settled by the lock, and the invariant says of   *)
(* the configuration only what the holder of the lock has in memory.       *)

ASSUME BootsAssumption == MaxBoots \in Nat /\ Gui \in Clients

\* A process that has a runtime, and a request that a handler of it has under way.
Runs == {"serving", "ending", "exiting", "restarting"}
UnderWay(c) == conn[c].st \in {"asked", "saved", "reply", "refuse"}

\* From InstanceLock::acquire to the end of the drain a boot holds the lock.
Holding == {"locked", "cert", "bind", "serving", "ending"}
HoldInv == \A b \in Life!Boots : boot[b].pc \in Holding => lock = b

\* A request under way has a runtime to run in.
ConnInv ==
    /\ \A c \in Clients : UnderWay(c) => conn[c].to \in Life!Boots /\ boot[conn[c].to].pc \in Runs
    /\ \A c \in Clients : conn[c].st = "idle" => conn[c].to = Life!NoBoot
    /\ \A c \in Clients : conn[c].st = "saved" => conn[c].kind = "change"

\* The change of c is in the file and its client is yet to be told.
Changed(c) == conn[c].st = "saved" \/ (conn[c].st = "reply" /\ conn[c].kind = "change")

\* The file and the memory of the lock's holder have what was acknowledged, and what may be
\* acknowledged next.
MemInv == ~raced =>
    /\ acked \subseteq file
    /\ \A b \in Life!Boots : lock = b => acked \subseteq boot[b].mem
    /\ \A c \in Clients : Changed(c) => c \in file
    /\ \A c \in Clients, b \in Life!Boots :
         Changed(c) /\ lock = b /\ (b # conn[c].to \/ conn[c].st = "reply") => c \in boot[b].mem

\* Certificate and key are of one boot once both are there, unless the key is torn.
CaInv ==
    /\ ca.key # 0 => ca.cert # 0 /\ (ca.torn \/ ca.cert = ca.key)
    /\ ca.torn => ca.key # 0
    /\ \A b \in Life!Boots :
         /\ boot[b].pc = "cert" => ca.cert = b /\ ca.key = 0
         /\ boot[b].pc \in {"bind", "serving"} => boot[b].ca = ca.cert /\ boot[b].ca = ca.key /\ ca.key # 0
         /\ boot[b].pc = "refused" => ca.torn

Early == {"none", "loaded", "locked", "cert", "bind"}

\* A boot that knows of the port change began with it or is the one that took it.
GuiInv ==
    /\ gui.pc = "idle" => conn[Gui].st = "idle" /\ Gui \notin acked
    /\ UnderWay(Gui) /\ conn[Gui].kind = "change" => conn[Gui].to = gui.took
    /\ \A b \in Life!Boots :
         Gui \in boot[b].mem => Gui \in boot[b].with \/ (gui.pc # "idle" /\ gui.took = b)
    /\ gui.pc \in {"restart", "poll", "ok"} => Gui \in acked
    /\ gui.pc = "ok" =>
         /\ gui.answered \in Life!Boots /\ boot[gui.answered].pc \notin Early
         /\ "web" \in boot[gui.answered].bound
         /\ gui.base = gui.took /\ ~raced => Gui \in boot[gui.answered].with

LifeInv == Life!TypeOK /\ HoldInv /\ ConnInv /\ MemInv /\ CaInv /\ GuiInv

LEMMA BootsAreNumbers == Life!Boots \subseteq Nat \ {0}
BY BootsAssumption DEF Life!Boots

LEMMA LifeStarts == ASSUME Life!Init PROVE LifeInv
<1>1. Life!TypeOK
  BY Zenon DEF Life!Init, Life!TypeOK, Life!BootType, Life!ConnType, Life!GuiType, Life!NoBoot
<1>2. HoldInv /\ ConnInv /\ MemInv /\ GuiInv
  BY Zenon, BootsAssumption DEF Life!Init, HoldInv, Holding, ConnInv, MemInv, Changed, GuiInv, UnderWay, Life!NoBoot
<1>3. CaInv
  BY Zenon DEF Life!Init, CaInv, Life!NoBoot
<1> QED BY Zenon, <1>1, <1>2, <1>3 DEF LifeInv

\* Two boots never hold the lock.
LEMMA HolderAlone ==
    ASSUME HoldInv, NEW b \in Life!Boots, boot[b].pc \in Holding
    PROVE  \A a \in Life!Boots \ {b} : boot[a].pc \notin Holding
BY Zenon DEF HoldInv

\* Start and ReExec: b is the new boot and reads the file.
Loads(b) ==
    /\ boot' \in [Life!Boots -> Life!BootType]
    /\ boot'[b].pc = "loaded" /\ boot'[b].mem = file /\ boot'[b].with = file
    /\ \A a \in Life!Boots \ {b} :
         /\ boot'[a].mem = boot[a].mem /\ boot'[a].with = boot[a].with
         /\ boot'[a].ca = boot[a].ca /\ boot'[a].bound = boot[a].bound
         /\ boot'[a].pc # boot[a].pc => boot[a].pc = "exec" /\ boot'[a].pc = "dead"

LEMMA BeginLoads ==
    ASSUME LifeInv, NEW b \in Life!Boots,
           Life!Start(b) \/ \E a \in Life!Boots : Life!ReExec(a, b)
    PROVE  Loads(b) /\ boot[b].pc = "none" /\ UNCHANGED <<file, lock, ca, conn, acked, gui, raced>>
<1> USE DEF LifeInv
<1>1. boot[b].pc = "none"
  BY Zenon DEF Life!Start, Life!ReExec, Life!Fresh, Life!At
<1>2. UNCHANGED <<file, lock, ca, conn, acked, gui, raced>>
  BY Zenon DEF Life!Start, Life!ReExec
<1> DEFINE new == [boot[b] EXCEPT !.pc = "loaded", !.mem = file, !.with = file]
<1>3. /\ new \in Life!BootType /\ new.pc = "loaded" /\ new.mem = file /\ new.with = file
  BY Zenon DEF Life!TypeOK, Life!BootType, Life!Alive
<1>4. CASE Life!Start(b)
  <2>1. boot' = [boot EXCEPT ![b] = new]
    BY Zenon, <1>4 DEF Life!Start, Life!TypeOK
  <2> HIDE DEF new
  <2>3. boot' \in [Life!Boots -> Life!BootType] /\ boot'[b] = new
          /\ \A a \in Life!Boots \ {b} : boot'[a] = boot[a]
    BY Zenon, <1>3, <2>1 DEF Life!TypeOK
  <2> QED BY Zenon, <1>1, <1>2, <1>3, <2>3 DEF Loads
<1>5. ASSUME NEW e \in Life!Boots, Life!ReExec(e, b) PROVE Loads(b)
  <2>1. boot[e].pc = "exec" /\ e # b
    BY Zenon, <1>1, <1>5 DEF Life!ReExec, Life!At
  <2> DEFINE old == [boot[e] EXCEPT !.pc = "dead"]
  <2>2. boot' = [boot EXCEPT ![e] = old, ![b] = new]
    BY Zenon, <1>5, <2>1 DEF Life!ReExec, Life!TypeOK
  <2>3. /\ old \in Life!BootType /\ old.pc = "dead" /\ old.mem = boot[e].mem /\ old.with = boot[e].with
        /\ old.ca = boot[e].ca /\ old.bound = boot[e].bound
    BY DEF Life!TypeOK, Life!BootType
  <2> HIDE DEF new, old
  <2>5. boot' \in [Life!Boots -> Life!BootType] /\ boot'[b] = new /\ boot'[e] = old
          /\ \A a \in Life!Boots \ {b, e} : boot'[a] = boot[a]
    BY Zenon, <1>3, <2>1, <2>2, <2>3 DEF Life!TypeOK
  <2> QED BY Zenon, <1>3, <2>1, <2>3, <2>5 DEF Loads
<1> QED BY Zenon, <1>1, <1>2, <1>4, <1>5

\* What the boots keep of themselves is enough for the desktop application's part.
LEMMA GuiStays ==
    ASSUME GuiInv, gui' = gui, acked' = acked, ~raced' => ~raced,
           conn'[Gui] = conn[Gui] \/ (conn'[Gui].st = "done" /\ conn[Gui].st # "idle"),
           \A b \in Life!Boots : \/ boot'[b].mem = boot[b].mem /\ boot'[b].with = boot[b].with
                                 \/ boot'[b].mem = boot'[b].with,
           \A b \in Life!Boots : boot[b].pc \notin Early =>
             /\ boot'[b].pc \notin Early
             /\ boot'[b].with = boot[b].with /\ boot'[b].bound = boot[b].bound
    PROVE  GuiInv'
<1>1. gui'.pc = "idle" => conn'[Gui].st = "idle" /\ Gui \notin acked'
  BY Zenon DEF GuiInv
<1>2. UnderWay(Gui)' /\ conn'[Gui].kind = "change" => conn'[Gui].to = gui'.took
  BY Zenon DEF GuiInv, UnderWay
<1>3. ASSUME NEW b \in Life!Boots, Gui \in boot'[b].mem
      PROVE  Gui \in boot'[b].with \/ (gui'.pc # "idle" /\ gui'.took = b)
  <2>1. CASE boot'[b].mem = boot[b].mem /\ boot'[b].with = boot[b].with
    BY Zenon, <1>3, <2>1 DEF GuiInv
  <2> QED BY Zenon, <1>3, <2>1
<1>4. gui'.pc \in {"restart", "poll", "ok"} => Gui \in acked'
  BY Zenon DEF GuiInv
<1>5. gui'.pc = "ok" =>
        /\ gui'.answered \in Life!Boots /\ boot'[gui'.answered].pc \notin Early
        /\ "web" \in boot'[gui'.answered].bound
        /\ gui'.base = gui'.took /\ ~raced' => Gui \in boot'[gui'.answered].with
  BY Zenon DEF GuiInv
<1> QED BY Zenon, <1>1, <1>2, <1>3, <1>4, <1>5 DEF GuiInv

LEMMA BeginKeeps ==
    ASSUME LifeInv, NEW b \in Life!Boots, Loads(b), boot[b].pc = "none",
           UNCHANGED <<file, lock, ca, conn, acked, gui, raced>>
    PROVE  LifeInv'
<1> USE DEF LifeInv, Loads
<1>1. Life!TypeOK'
  BY Zenon DEF Life!TypeOK
<1>2. HoldInv'
  BY Zenon DEF HoldInv, Holding
<1>3. ConnInv'
  BY Zenon DEF ConnInv, UnderWay, Runs
<1>4. MemInv'
  BY Zenon DEF MemInv, Changed
<1>5. CaInv'
  BY DEF CaInv
<1>6. GuiInv'
  <2>1. \A a \in Life!Boots : \/ boot'[a].mem = boot[a].mem /\ boot'[a].with = boot[a].with
                              \/ boot'[a].mem = boot'[a].with
    BY Zenon
  <2>2. \A a \in Life!Boots : boot[a].pc \notin Early =>
          /\ boot'[a].pc \notin Early
          /\ boot'[a].with = boot[a].with /\ boot'[a].bound = boot[a].bound
    BY Zenon DEF Early
  <2> QED BY Zenon, <2>1, <2>2, GuiStays
<1> QED BY Zenon, <1>1, <1>2, <1>3, <1>4, <1>5, <1>6

\* A process b takes a step, and the requests under way stay or are dropped.
Moves(b) ==
    /\ boot[b].pc \in Life!Alive
    /\ boot' \in [Life!Boots -> Life!BootType]
    /\ \A a \in Life!Boots \ {b} : boot'[a] = boot[a]
    /\ boot'[b].mem = boot[b].mem /\ boot'[b].with = boot[b].with
    /\ boot'[b].pc # "none"
    /\ boot[b].pc \notin Early => boot'[b].pc \notin Early /\ boot'[b].bound = boot[b].bound

\* The lock stays where it is, is given back by b or is taken by b.
LockMoves(b) ==
    /\ \/ lock' = lock /\ raced' = raced
       \/ lock = b /\ lock' = 0 /\ raced' = raced
       \/ lock = 0 /\ lock' = b /\ raced' = (raced \/ boot[b].mem # file)
    /\ boot'[b].pc \in Holding => lock' = b

LEMMA ReleaseMoves ==
    ASSUME NEW b \in Life!Boots, Life!Release(b), raced' = raced, boot'[b].pc \notin Holding
    PROVE  LockMoves(b)
BY Zenon DEF Life!Release, LockMoves, Life!NoBoot

LEMMA HeldMoves ==
    ASSUME HoldInv, NEW b \in Life!Boots, lock' = lock, raced' = raced,
           boot'[b].pc \in Holding => boot[b].pc \in Holding
    PROVE  LockMoves(b)
BY Zenon DEF HoldInv, LockMoves

LEMMA MoveKeeps ==
    ASSUME LifeInv, NEW b \in Life!Boots, Moves(b), LockMoves(b), UNCHANGED <<file, acked, gui>>,
           \A c \in Clients : conn'[c] = conn[c] \/ (conn'[c].st = "done" /\ conn[c].st # "idle"),
           \A c \in Clients : conn'[c] = conn[c] /\ conn[c].to = b /\ UnderWay(c) => boot'[b].pc \in Runs
    PROVE  HoldInv' /\ ConnInv' /\ MemInv' /\ GuiInv' /\ lock' \in Life!Boots \cup {0} /\ raced' \in BOOLEAN
<1> USE DEF LifeInv, Moves, LockMoves
<1>0. b # 0 /\ \A a \in Life!Boots : a # 0
  BY Zenon, BootsAreNumbers
<1>1. HoldInv'
  <2> SUFFICES ASSUME NEW a \in Life!Boots, boot'[a].pc \in Holding PROVE lock' = a
    BY Zenon DEF HoldInv
  <2>1. CASE a = b
    BY Zenon, <2>1
  <2>2. CASE a # b
    <3>1. lock = a
      BY Zenon, <2>2 DEF HoldInv
    <3> QED BY Zenon, <1>0, <2>2, <3>1
  <2> QED BY Zenon, <2>1, <2>2
<1>2. ConnInv'
  BY DEF ConnInv, UnderWay, Runs
<1>3. MemInv'
  <2> SUFFICES ASSUME ~raced' PROVE MemInv'
    BY Zenon DEF MemInv
  <2>1. ~raced /\ \A a \in Life!Boots : boot'[a].mem = boot[a].mem
    <3>1. ~raced
      BY Zenon DEF Life!TypeOK
    <3>2. ASSUME NEW a \in Life!Boots PROVE boot'[a].mem = boot[a].mem
      <4>1. CASE a = b
        BY Zenon, <4>1
      <4>2. CASE a # b
        BY Zenon, <4>2
      <4> QED BY Zenon, <4>1, <4>2
    <3> QED BY Zenon, <3>1, <3>2
  <2>2. lock' # lock => lock' = 0 \/ (lock' = b /\ boot[b].mem = file)
    BY Zenon, <2>1
  <2>3. \A c \in Clients : Changed(c)' => Changed(c) /\ conn'[c] = conn[c]
    BY Zenon DEF Changed
  <2>4. ASSUME NEW a \in Life!Boots, lock' = a
        PROVE  /\ acked \subseteq boot[a].mem
               /\ \A c \in Clients : Changed(c) /\ (a # conn[c].to \/ conn[c].st = "reply") => c \in boot[a].mem
    BY Zenon, <1>0, <2>1, <2>2, <2>4 DEF MemInv
  <2>5. acked' \subseteq file' /\ \A c \in Clients : Changed(c)' => c \in file'
    BY Zenon, <2>1, <2>3 DEF MemInv
  <2>6. \A a \in Life!Boots : lock' = a => acked' \subseteq boot'[a].mem
    BY Zenon, <2>1, <2>4
  <2>7. \A c \in Clients, a \in Life!Boots :
          Changed(c)' /\ lock' = a /\ (a # conn'[c].to \/ conn'[c].st = "reply") => c \in boot'[a].mem
    BY Zenon, <2>1, <2>3, <2>4
  <2> QED BY Zenon, <2>5, <2>6, <2>7 DEF MemInv
<1>4. GuiInv'
  <2>1. ASSUME NEW a \in Life!Boots
        PROVE  /\ boot'[a].mem = boot[a].mem /\ boot'[a].with = boot[a].with
               /\ boot[a].pc \notin Early => boot'[a].pc \notin Early /\ boot'[a].bound = boot[a].bound
    <3>1. CASE a = b
      BY Zenon, <3>1
    <3>2. CASE a # b
      BY Zenon, <3>2
    <3> QED BY Zenon, <3>1, <3>2
  <2>2. ~raced' => ~raced
    BY Zenon
  <2> QED BY Zenon, <2>1, <2>2, GuiStays, BootsAssumption
<1>5. lock' \in Life!Boots \cup {0} /\ raced' \in BOOLEAN
  BY Zenon DEF Life!TypeOK, Life!NoBoot
<1> QED BY Zenon, <1>1, <1>2, <1>3, <1>4, <1>5

\* A step of b alone: what it leaves of the record of its boot.
LEMMA GoesMoves ==
    ASSUME LifeInv, NEW b \in Life!Boots, boot[b].pc \in Life!Alive,
           NEW to \in Life!Alive \cup {"exec", "dead", "refused"}, Life!Goes(b, to),
           boot[b].pc \notin Early => to \notin Early
    PROVE  /\ Moves(b) /\ boot'[b].pc = to
           /\ boot'[b].ca = boot[b].ca /\ boot'[b].bound = boot[b].bound
<1> DEFINE new == [boot[b] EXCEPT !.pc = to]
<1>1. boot' = [boot EXCEPT ![b] = new]
  BY Zenon DEF Life!Goes, LifeInv, Life!TypeOK
<1>2. /\ new \in Life!BootType /\ new.pc = to /\ new.mem = boot[b].mem /\ new.with = boot[b].with
      /\ new.ca = boot[b].ca /\ new.bound = boot[b].bound
  BY Zenon DEF LifeInv, Life!TypeOK, Life!BootType
<1> HIDE DEF new
<1>3. boot' \in [Life!Boots -> Life!BootType] /\ boot'[b] = new /\ \A a \in Life!Boots \ {b} : boot'[a] = boot[a]
  BY Zenon, <1>1, <1>2 DEF LifeInv, Life!TypeOK
<1> QED BY Zenon, <1>2, <1>3 DEF Moves, Life!Alive

\* bring_up, up to the listeners.
LEMMA BringUpKeeps ==
    ASSUME LifeInv, NEW b \in Life!Boots,
           Life!Acquire(b) \/ Life!LoadCa(b) \/ Life!WriteCert(b) \/ Life!WriteKey(b) \/ Life!TearKey(b)
             \/ Life!Bind(b) \/ Life!BindFails(b)
    PROVE  LifeInv'
<1> USE DEF LifeInv, Life!At
<1>0. b \in Nat \ {0}
  BY Zenon, BootsAreNumbers
<1>1. boot[b].pc \in Life!Alive /\ boot[b].pc \in Early
  BY Zenon DEF Life!Acquire, Life!LoadCa, Life!WriteCert, Life!WriteKey, Life!TearKey, Life!Bind, Life!BindFails, Life!Alive, Early
<1>2. UNCHANGED <<file, conn, acked, gui>>
  BY Zenon DEF Life!Acquire, Life!LoadCa, Life!WriteCert, Life!WriteKey, Life!TearKey, Life!Bind, Life!BindFails
<1>3. \A c \in Clients : UnderWay(c) => conn[c].to # b
  BY Zenon, <1>1 DEF ConnInv, Runs, Early
<1>4. ~Life!Acquire(b) => boot[b].pc \in Holding /\ \A a \in Life!Boots \ {b} : boot[a].pc \notin Holding
  <2>1. ~Life!Acquire(b) => boot[b].pc \in Holding
    BY Zenon DEF Life!LoadCa, Life!WriteCert, Life!WriteKey, Life!TearKey, Life!Bind, Life!BindFails, Holding
  <2> QED BY Zenon, <2>1, HolderAlone
<1>5. ~Life!Acquire(b) /\ lock' = lock /\ raced' = raced => LockMoves(b)
  BY Zenon, <1>4, HeldMoves
<1>6. ASSUME Moves(b), LockMoves(b), ca' \in [cert : Life!Boots \cup {Life!NoBoot}, key : Life!Boots \cup {Life!NoBoot}, torn : BOOLEAN],
             CaInv'
      PROVE  LifeInv'
  <2>2. HoldInv' /\ ConnInv' /\ MemInv' /\ GuiInv' /\ lock' \in Life!Boots \cup {0} /\ raced' \in BOOLEAN
    BY Zenon, <1>2, <1>3, <1>6, MoveKeeps
  <2>1. Life!TypeOK'
    BY Zenon, <1>2, <1>6, <2>2 DEF Life!TypeOK, Moves, Life!NoBoot
  <2> QED BY Zenon, <1>6, <2>1, <2>2
<1>7. ca \in [cert : Life!Boots \cup {Life!NoBoot}, key : Life!Boots \cup {Life!NoBoot}, torn : BOOLEAN]
  BY Zenon DEF Life!TypeOK
<1>8. CASE Life!Acquire(b)
  <2>1. ca' = ca /\ boot[b].pc = "loaded" /\ \E to \in {"locked", "dead"} : Life!Goes(b, to)
    BY Zenon, <1>8 DEF Life!Acquire
  <2>2. Moves(b) /\ boot'[b].pc \in {"locked", "dead"}
    BY Zenon, <1>1, <2>1, GoesMoves DEF Life!Alive
  <2>3. CaInv'
    BY <2>1, <2>2 DEF CaInv, Moves
  <2>4. LockMoves(b)
    <3>1. CASE lock = 0
      BY Zenon, <1>8, <3>1 DEF Life!Acquire, LockMoves, Life!NoBoot
    <3>2. CASE lock # 0
      <4>1. lock' = lock /\ raced' = raced /\ Life!Goes(b, "dead")
        BY Zenon, <1>8, <3>2 DEF Life!Acquire, Life!NoBoot
      <4>2. boot'[b].pc = "dead"
        BY Zenon, <1>1, <4>1, GoesMoves
      <4> QED BY Zenon, <4>1, <4>2 DEF LockMoves, Holding
    <3> QED BY Zenon, <3>1, <3>2
  <2> QED BY Zenon, <1>6, <1>7, <2>1, <2>2, <2>3, <2>4
<1>9. CASE Life!LoadCa(b)
  <2>1. CASE ca.torn \/ ca.cert # ca.key
    <3>1. ca' = ca /\ Life!Goes(b, "refused") /\ ca.torn /\ Life!Release(b) /\ raced' = raced
      BY Zenon, <1>9, <2>1 DEF Life!LoadCa, CaInv, Life!NoBoot
    <3>2. Moves(b) /\ boot'[b].pc = "refused"
      BY Zenon, <1>1, <3>1, GoesMoves
    <3>4. LockMoves(b)
      BY Zenon, <3>1, <3>2, ReleaseMoves DEF Holding
    <3>3. CaInv'
      BY Zenon, <3>1, <3>2 DEF CaInv, Moves
    <3> QED BY Zenon, <1>6, <1>7, <3>1, <3>2, <3>3, <3>4
  <2>2. CASE ~(ca.torn \/ ca.cert # ca.key)
    <3> DEFINE new == [boot[b] EXCEPT !.pc = "bind", !.ca = ca.cert]
    <3>1. ca' = ca /\ boot' = [boot EXCEPT ![b] = new] /\ ca.cert # 0 /\ lock' = lock /\ raced' = raced
      BY Zenon, <1>9, <2>2 DEF Life!LoadCa, Life!TypeOK, Life!NoBoot
    <3>2. /\ new \in Life!BootType /\ new.pc = "bind" /\ new.mem = boot[b].mem /\ new.with = boot[b].with
          /\ new.ca = ca.cert
      BY Zenon, <1>7 DEF Life!TypeOK, Life!BootType, Life!Alive
    <3> HIDE DEF new
    <3>3. boot' \in [Life!Boots -> Life!BootType] /\ boot'[b] = new /\ \A a \in Life!Boots \ {b} : boot'[a] = boot[a]
      BY Zenon, <3>1, <3>2 DEF Life!TypeOK
    <3>4. Moves(b)
      BY Zenon, <1>1, <3>2, <3>3 DEF Moves
    <3>5. CaInv'
      BY Zenon, <2>2, <3>1, <3>2, <3>3 DEF CaInv
    <3>6. LockMoves(b)
      BY Zenon, <1>5, <1>9, <3>1 DEF Life!Acquire, Life!LoadCa
    <3> QED BY Zenon, <1>6, <1>7, <3>1, <3>4, <3>5, <3>6
  <2> QED BY Zenon, <2>1, <2>2
<1>10. CASE Life!WriteCert(b)
  <2>1. boot[b].pc = "locked" /\ ca.key = 0 /\ ~ca.torn
    BY Zenon, <1>10 DEF Life!WriteCert, CaInv, Life!NoBoot
  <2>2. ca' = [cert |-> b, key |-> 0, torn |-> FALSE]
    BY Zenon, <1>7, <1>10, <2>1 DEF Life!WriteCert
  <2>3. Moves(b) /\ boot'[b].pc = "cert"
    BY Zenon, <1>1, <1>10, GoesMoves DEF Life!WriteCert, Life!Alive
  <2>4. CaInv'
    <3>1. ca'.cert = b /\ ca'.key = 0 /\ ~ca'.torn
      BY Zenon, <2>2
    <3>2. ASSUME NEW a \in Life!Boots
          PROVE  boot'[a].pc \notin {"bind", "serving", "refused"} /\ (boot'[a].pc = "cert" => a = b)
      <4>1. CASE a = b
        BY Zenon, <2>3, <4>1
      <4>2. CASE a # b
        <5>1. boot'[a] = boot[a] /\ boot[a].pc \notin Holding
          BY Zenon, <1>4, <2>1, <2>3, <4>2 DEF Moves, Life!Acquire
        <5>2. boot[a].pc # "refused"
          BY Zenon, <2>1 DEF CaInv
        <5> QED BY Zenon, <5>1, <5>2 DEF Holding
      <4> QED BY Zenon, <4>1, <4>2
    <3> QED BY Zenon, <3>1, <3>2 DEF CaInv
  <2>5. ca' \in [cert : Life!Boots \cup {Life!NoBoot}, key : Life!Boots \cup {Life!NoBoot}, torn : BOOLEAN]
    BY Zenon, <2>2 DEF Life!NoBoot
  <2>6. LockMoves(b)
    BY Zenon, <1>5, <1>10, <2>1 DEF Life!Acquire, Life!WriteCert
  <2> QED BY Zenon, <1>6, <2>3, <2>4, <2>5, <2>6
<1>11. CASE Life!WriteKey(b)
  <2> DEFINE new == [boot[b] EXCEPT !.pc = "bind", !.ca = b]
  <2>1. ca.cert = b /\ ca.key = 0 /\ ~ca.torn
    BY Zenon, <1>11 DEF Life!WriteKey, CaInv
  <2>2. ca' = [cert |-> b, key |-> b, torn |-> FALSE]
    BY Zenon, <1>7, <1>11, <2>1 DEF Life!WriteKey
  <2>3. boot' = [boot EXCEPT ![b] = new]
    BY Zenon, <1>11 DEF Life!WriteKey, Life!TypeOK
  <2>4. /\ new \in Life!BootType /\ new.pc = "bind" /\ new.mem = boot[b].mem /\ new.with = boot[b].with
        /\ new.ca = b
    BY Zenon DEF Life!TypeOK, Life!BootType, Life!Alive
  <2> HIDE DEF new
  <2>5. boot' \in [Life!Boots -> Life!BootType] /\ boot'[b] = new /\ \A a \in Life!Boots \ {b} : boot'[a] = boot[a]
    BY Zenon, <2>3, <2>4 DEF Life!TypeOK
  <2>6. Moves(b)
    BY Zenon, <1>1, <2>4, <2>5 DEF Moves
  <2>9. LockMoves(b) /\ \A a \in Life!Boots \ {b} : boot[a].pc \notin Holding
    BY Zenon, <1>4, <1>5, <1>11 DEF Life!Acquire, Life!WriteKey
  <2>7. CaInv'
    BY Zenon, <1>0, <2>1, <2>2, <2>4, <2>5, <2>9 DEF CaInv, Holding
  <2>8. ca' \in [cert : Life!Boots \cup {Life!NoBoot}, key : Life!Boots \cup {Life!NoBoot}, torn : BOOLEAN]
    BY Zenon, <2>2
  <2> QED BY Zenon, <1>6, <2>6, <2>7, <2>8, <2>9
<1>12. CASE Life!TearKey(b)
  <2>1. ca.cert = b /\ ca.key = 0 /\ ~ca.torn
    BY Zenon, <1>12 DEF Life!TearKey, CaInv
  <2>2. ca' = [cert |-> b, key |-> b, torn |-> TRUE]
    BY Zenon, <1>7, <1>12, <2>1 DEF Life!TearKey
  <2>3. Moves(b) /\ boot'[b].pc = "dead"
    BY Zenon, <1>1, <1>12, GoesMoves DEF Life!TearKey
  <2>6. LockMoves(b)
    BY Zenon, <1>12, <2>3, ReleaseMoves DEF Life!TearKey, Holding
  <2>7. \A a \in Life!Boots \ {b} : boot[a].pc \notin Holding
    BY Zenon, <1>4, <1>12 DEF Life!Acquire, Life!TearKey
  <2>4. CaInv'
    <3>1. ca'.cert = b /\ ca'.key = b /\ ca'.torn /\ b # 0
      BY Zenon, <1>0, <2>2
    <3>2. \A a \in Life!Boots : boot'[a].pc \notin {"cert", "bind", "serving"}
      BY Zenon, <2>3, <2>7 DEF Moves, Holding
    <3> QED BY Zenon, <3>1, <3>2 DEF CaInv
  <2>5. ca' \in [cert : Life!Boots \cup {Life!NoBoot}, key : Life!Boots \cup {Life!NoBoot}, torn : BOOLEAN]
    BY Zenon, <2>2
  <2> QED BY Zenon, <1>6, <2>3, <2>4, <2>5, <2>6
<1>13. CASE Life!Bind(b)
  <2>1. PICK got \in {Life!Listeners, Life!Listeners \ {"web"}} :
          boot[b].pc = "bind" /\ ca' = ca /\ lock' = lock /\ raced' = raced /\ boot' = [boot EXCEPT ![b].pc = "serving", ![b].bound = got]
    BY Zenon, <1>13 DEF Life!Bind
  <2> DEFINE new == [boot[b] EXCEPT !.pc = "serving", !.bound = got]
  <2>2. boot' = [boot EXCEPT ![b] = new]
    BY Zenon, <2>1 DEF Life!TypeOK
  <2>9. got \subseteq Life!Listeners
    BY Zenon
  <2>3. /\ new \in Life!BootType /\ new.pc = "serving" /\ new.mem = boot[b].mem /\ new.with = boot[b].with
        /\ new.ca = boot[b].ca
    BY Zenon, <2>9 DEF Life!TypeOK, Life!BootType, Life!Alive
  <2> HIDE DEF new
  <2>4. boot' \in [Life!Boots -> Life!BootType] /\ boot'[b] = new /\ \A a \in Life!Boots \ {b} : boot'[a] = boot[a]
    BY Zenon, <2>2, <2>3 DEF Life!TypeOK
  <2>5. Moves(b)
    BY Zenon, <1>1, <2>3, <2>4 DEF Moves
  <2>6. CaInv'
    BY Zenon, <2>1, <2>3, <2>4 DEF CaInv
  <2>7. LockMoves(b)
    BY Zenon, <1>5, <2>1 DEF Life!Acquire
  <2> QED BY Zenon, <1>6, <1>7, <2>1, <2>5, <2>6, <2>7
<1>14. CASE Life!BindFails(b)
  <2>1. ca' = ca /\ Moves(b) /\ boot'[b].pc = "dead"
    BY Zenon, <1>1, <1>14, GoesMoves DEF Life!BindFails
  <2>3. LockMoves(b)
    BY Zenon, <1>14, <2>1, ReleaseMoves DEF Life!BindFails, Holding
  <2>2. CaInv'
    BY Zenon, <2>1 DEF CaInv, Moves
  <2> QED BY Zenon, <1>6, <1>7, <2>1, <2>2, <2>3
<1> QED BY Zenon, <1>8, <1>9, <1>10, <1>11, <1>12, <1>13, <1>14

\* run_until_shutdown and main: the runtime goes with its handlers.
LEMMA EndKeeps ==
    ASSUME LifeInv, NEW b \in Life!Boots,
           Life!Signal(b) \/ Life!Drain(b) \/ Life!Unlock(b) \/ Life!DropRuntime(b) \/ Life!Crash(b)
    PROVE  LifeInv'
<1> USE DEF LifeInv, Life!At
<1>1. UNCHANGED <<file, ca, acked, gui>>
  BY Zenon DEF Life!Signal, Life!Drain, Life!Unlock, Life!DropRuntime, Life!Crash
<1>2. lock' = lock /\ raced' = raced /\ (boot'[b].pc \in Holding => boot[b].pc \in Holding) => LockMoves(b)
  BY Zenon, HeldMoves
<1>3. ASSUME Moves(b), LockMoves(b), boot'[b].pc # "refused", boot'[b].ca = boot[b].ca,
             boot'[b].pc \in {"bind", "serving", "cert"} => boot'[b].pc = boot[b].pc,
             \/ conn' = conn /\ boot'[b].pc \in Runs
             \/ Life!DropHandlers(b)
      PROVE  LifeInv'
  <2>1. /\ conn' \in [Clients -> Life!ConnType]
        /\ \A c \in Clients : conn'[c] = conn[c] \/ (conn'[c].st = "done" /\ conn[c].st # "idle")
        /\ \A c \in Clients : conn'[c] = conn[c] /\ conn[c].to = b /\ UnderWay(c) => boot'[b].pc \in Runs
    <3>1. CASE conn' = conn /\ boot'[b].pc \in Runs
      BY Zenon, <3>1 DEF Life!TypeOK
    <3>2. CASE Life!DropHandlers(b)
      <4>1. b # Life!NoBoot
        BY Zenon, BootsAreNumbers DEF Life!NoBoot
      <4>2. \A c \in Clients : conn'[c] = IF conn[c].to = b /\ conn[c].st # "done" THEN [conn[c] EXCEPT !.st = "done"] ELSE conn[c]
        BY Zenon, <3>2 DEF Life!DropHandlers
      <4>3. \A c \in Clients : conn[c] \in Life!ConnType /\ [conn[c] EXCEPT !.st = "done"] \in Life!ConnType
              /\ [conn[c] EXCEPT !.st = "done"].st = "done"
        BY Zenon DEF Life!TypeOK, Life!ConnType
      <4>4. conn' \in [Clients -> Life!ConnType]
        BY Zenon, <3>2, <4>3 DEF Life!DropHandlers
      <4>5. \A c \in Clients : conn'[c] = conn[c] \/ (conn'[c].st = "done" /\ conn[c].st # "idle")
        BY Zenon, <4>1, <4>2, <4>3 DEF ConnInv
      <4>6. ASSUME NEW c \in Clients, conn'[c] = conn[c], conn[c].to = b, UnderWay(c) PROVE FALSE
        BY Zenon, <4>2, <4>3, <4>6 DEF UnderWay
      <4> QED BY Zenon, <4>4, <4>5, <4>6
    <3> QED BY Zenon, <1>3, <3>1, <3>2
  <2>3. HoldInv' /\ ConnInv' /\ MemInv' /\ GuiInv' /\ lock' \in Life!Boots \cup {0} /\ raced' \in BOOLEAN
    BY Zenon, <1>1, <1>3, <2>1, MoveKeeps
  <2>2. Life!TypeOK'
    BY Zenon, <1>1, <1>3, <2>1, <2>3 DEF Life!TypeOK, Moves, Life!NoBoot
  <2>4. CaInv'
    BY <1>1, <1>3 DEF CaInv, Moves
  <2> QED BY Zenon, <2>2, <2>3, <2>4
<1>4. CASE Life!Signal(b)
  <2> DEFINE new == [boot[b] EXCEPT !.shutdown = TRUE, !.signalled = TRUE]
  <2>1. boot' = [boot EXCEPT ![b] = new] /\ boot[b].pc = "serving" /\ conn' = conn /\ lock' = lock /\ raced' = raced
    BY Zenon, <1>4 DEF Life!Signal, Life!TypeOK
  <2>2. /\ new \in Life!BootType /\ new.pc = boot[b].pc /\ new.mem = boot[b].mem /\ new.with = boot[b].with
        /\ new.ca = boot[b].ca /\ new.bound = boot[b].bound
    BY Zenon DEF Life!TypeOK, Life!BootType
  <2> HIDE DEF new
  <2>3. boot' \in [Life!Boots -> Life!BootType] /\ boot'[b] = new /\ \A a \in Life!Boots \ {b} : boot'[a] = boot[a]
    BY Zenon, <2>1, <2>2 DEF Life!TypeOK
  <2>4. Moves(b)
    BY Zenon, <2>1, <2>2, <2>3 DEF Moves, Life!Alive
  <2>5. LockMoves(b)
    BY Zenon, <1>2, <2>1, <2>2, <2>3
  <2> QED BY Zenon, <1>3, <2>1, <2>2, <2>3, <2>4, <2>5 DEF Runs
<1>5. CASE Life!Drain(b)
  <2>1. boot[b].pc = "serving" /\ Life!Goes(b, "ending") /\ conn' = conn /\ lock' = lock /\ raced' = raced
    BY Zenon, <1>5 DEF Life!Drain
  <2>2. Moves(b) /\ boot'[b].pc = "ending" /\ boot'[b].ca = boot[b].ca
    BY Zenon, <2>1, GoesMoves DEF Life!Alive, Early
  <2>3. LockMoves(b)
    BY Zenon, <1>2, <2>1, <2>2 DEF Holding
  <2> QED BY Zenon, <1>3, <2>1, <2>2, <2>3 DEF Runs
<1>6. CASE Life!Unlock(b)
  <2>1. PICK to \in {"restarting", "exiting"} : boot[b].pc = "ending" /\ Life!Goes(b, to) /\ conn' = conn
          /\ Life!Release(b) /\ raced' = raced
    BY Zenon, <1>6 DEF Life!Unlock
  <2>2. Moves(b) /\ boot'[b].pc = to /\ boot'[b].ca = boot[b].ca
    BY Zenon, <2>1, GoesMoves DEF Life!Alive, Early
  <2>3. LockMoves(b)
    BY Zenon, <2>1, <2>2, ReleaseMoves DEF Holding
  <2> QED BY Zenon, <1>3, <2>1, <2>2, <2>3 DEF Runs
<1>7. CASE Life!DropRuntime(b)
  <2>1. PICK to \in {"dead", "exec"} : boot[b].pc \in {"exiting", "restarting"} /\ Life!Goes(b, to) /\ Life!DropHandlers(b)
          /\ lock' = lock /\ raced' = raced
    BY Zenon, <1>7 DEF Life!DropRuntime
  <2>2. Moves(b) /\ boot'[b].pc = to /\ boot'[b].ca = boot[b].ca
    BY Zenon, <2>1, GoesMoves DEF Life!Alive, Early
  <2>3. LockMoves(b)
    BY Zenon, <1>2, <2>1, <2>2 DEF Holding
  <2> QED BY Zenon, <1>3, <2>1, <2>2, <2>3
<1>8. CASE Life!Crash(b)
  <2>1. boot[b].pc \in Life!Alive /\ Life!Goes(b, "dead") /\ Life!DropHandlers(b) /\ Life!Release(b) /\ raced' = raced
    BY Zenon, <1>8 DEF Life!Crash
  <2>2. Moves(b) /\ boot'[b].pc = "dead" /\ boot'[b].ca = boot[b].ca
    BY Zenon, <2>1, GoesMoves DEF Early
  <2>3. LockMoves(b)
    BY Zenon, <2>1, <2>2, ReleaseMoves DEF Holding
  <2> QED BY Zenon, <1>3, <2>1, <2>2, <2>3
<1> QED BY Zenon, <1>4, <1>5, <1>6, <1>7, <1>8

\* handle_client: a handler of a boot writes the file, then the memory, then
\* answers.  What its connection becomes.
Handles(c, st) ==
    /\ conn' \in [Clients -> Life!ConnType]
    /\ conn'[c].to = conn[c].to /\ conn'[c].kind = conn[c].kind /\ conn'[c].st = st
    /\ \A d \in Clients \ {c} : conn'[d] = conn[d]

LEMMA StHandles ==
    ASSUME Life!TypeOK, NEW c \in Clients, NEW st \in {"saved", "reply", "refuse", "done"},
           conn' = [conn EXCEPT ![c].st = st]
    PROVE  Handles(c, st)
<1> DEFINE new == [conn[c] EXCEPT !.st = st]
<1>1. conn' = [conn EXCEPT ![c] = new]
  BY Zenon DEF Life!TypeOK
<1>2. new \in Life!ConnType /\ new.to = conn[c].to /\ new.kind = conn[c].kind /\ new.st = st
  BY Zenon DEF Life!TypeOK, Life!ConnType
<1> HIDE DEF new
<1>3. conn' \in [Clients -> Life!ConnType] /\ conn'[c] = new /\ \A d \in Clients \ {c} : conn'[d] = conn[d]
  BY Zenon, <1>1, <1>2 DEF Life!TypeOK
<1> QED BY Zenon, <1>2, <1>3 DEF Handles

\* The boots as far as the invariant speaks of them: only the change of c may enter the
\* memory of the boot that has its request.
SameBoots(c) ==
    /\ boot' \in [Life!Boots -> Life!BootType]
    /\ \A b \in Life!Boots :
         /\ boot'[b].pc = boot[b].pc /\ boot'[b].with = boot[b].with
         /\ boot'[b].ca = boot[b].ca /\ boot'[b].bound = boot[b].bound
         /\ boot'[b].mem = boot[b].mem
              \/ (b = conn[c].to /\ conn[c].kind = "change" /\ boot'[b].mem = boot[b].mem \cup {c})

LEMMA HandlerStep ==
    ASSUME LifeInv, NEW c \in Clients, UnderWay(c), NEW st \in {"saved", "reply", "refuse", "done"},
           st = "saved" => conn[c].kind = "change",
           Handles(c, st), SameBoots(c), MemInv', UNCHANGED <<lock, ca, gui>>, file' \in SUBSET Clients,
           raced' \in BOOLEAN, raced => raced',
           acked' = acked \/ (acked' = acked \cup {c} /\ conn[c].kind = "change")
    PROVE  LifeInv'
<1> USE DEF LifeInv, SameBoots, Handles
<1>1. Life!TypeOK'
  BY Zenon DEF Life!TypeOK
<1>2. HoldInv' /\ CaInv'
  BY DEF HoldInv, CaInv
<1>3. ConnInv'
  <2>1. \A d \in Clients : UnderWay(d)' => UnderWay(d) /\ conn'[d].to = conn[d].to
    BY Zenon DEF UnderWay
  <2>2. \A d \in Clients : conn'[d].st = "idle" => conn'[d] = conn[d]
    BY Zenon
  <2>3. ASSUME NEW d \in Clients, UnderWay(d)'
        PROVE  conn'[d].to \in Life!Boots /\ boot'[conn'[d].to].pc \in Runs
    <3>1. conn'[d].to = conn[d].to /\ conn[d].to \in Life!Boots /\ boot[conn[d].to].pc \in Runs
      BY Zenon, <2>1, <2>3 DEF ConnInv
    <3>2. boot'[conn[d].to].pc = boot[conn[d].to].pc
      BY Zenon, <3>1
    <3> QED BY Zenon, <3>1, <3>2
  <2>4. \A d \in Clients : conn'[d].st = "saved" => conn'[d].kind = "change"
    BY Zenon DEF ConnInv
  <2> QED BY Zenon, <2>2, <2>3, <2>4 DEF ConnInv
<1>5. GuiInv'
  <2>1. gui'.pc = "idle" => conn'[Gui].st = "idle" /\ Gui \notin acked'
    BY Zenon, BootsAssumption DEF GuiInv, UnderWay
  <2>3. UnderWay(Gui)' /\ conn'[Gui].kind = "change" => conn'[Gui].to = gui'.took
    BY Zenon, BootsAssumption DEF GuiInv, UnderWay
  <2>4. ASSUME NEW b \in Life!Boots, Gui \in boot'[b].mem
        PROVE  Gui \in boot'[b].with \/ (gui'.pc # "idle" /\ gui'.took = b)
    <3>1. CASE Gui \in boot[b].mem
      BY Zenon, <3>1 DEF GuiInv
    <3>2. CASE Gui \notin boot[b].mem
      <4>0. b = conn[c].to /\ conn[c].kind = "change" /\ boot'[b].mem = boot[b].mem \cup {c}
        BY Zenon, <2>4, <3>2
      <4>1. c = Gui /\ b = conn[Gui].to /\ conn[Gui].kind = "change"
        BY Zenon, <2>4, <3>2, <4>0
      <4> QED BY Zenon, <4>1 DEF GuiInv, UnderWay
    <3> QED BY Zenon, <3>1, <3>2
  <2>5. gui'.pc \in {"restart", "poll", "ok"} => Gui \in acked'
    BY Zenon DEF GuiInv
  <2>6. gui'.pc = "ok" =>
          /\ gui'.answered \in Life!Boots /\ boot'[gui'.answered].pc \notin Early
          /\ "web" \in boot'[gui'.answered].bound
          /\ gui'.base = gui'.took /\ ~raced' => Gui \in boot'[gui'.answered].with
    BY Zenon DEF GuiInv
  <2> QED BY Zenon, <2>1, <2>3, <2>4, <2>5, <2>6 DEF GuiInv
<1> QED BY Zenon, <1>1, <1>2, <1>3, <1>5

LEMMA HandlersKeep ==
    ASSUME LifeInv, NEW c \in Clients,
           Life!Save(c) \/ Life!SaveFails(c) \/ Life!Swap(c) \/ Life!FlagRestart(c) \/ Life!Reply(c) \/ Life!ReplyFails(c)
    PROVE  LifeInv'
<1> USE DEF LifeInv
<1> DEFINE b == conn[c].to
<1>1. UnderWay(c)
  BY Zenon DEF UnderWay, Life!Save, Life!SaveFails, Life!Swap, Life!FlagRestart, Life!Reply, Life!ReplyFails
<1>2. b \in Life!Boots
  BY Zenon, <1>1 DEF ConnInv
<1>3. raced \in BOOLEAN
  BY Zenon DEF Life!TypeOK
<1>5. boot[b] \in Life!BootType
  BY Zenon, <1>2 DEF Life!TypeOK
<1> HIDE DEF b
<1>6. CASE Life!Save(c)
  <2>1. /\ conn[c].kind = "change" /\ file' = boot[b].mem \cup {c} /\ conn' = [conn EXCEPT ![c].st = "saved"]
        /\ UNCHANGED <<lock, ca, boot, acked, gui>>
        /\ raced' = (raced \/ boot[b].mem # file \/ lock \notin {b, 0})
    BY Zenon, <1>6 DEF Life!Save, b, Life!NoBoot
  <2>2. Handles(c, "saved")
    BY Zenon, <2>1, StHandles
  <2>3. MemInv'
    <3> SUFFICES ASSUME ~raced' PROVE MemInv'
      BY Zenon DEF MemInv
    <3>1. ~raced /\ file' = file \cup {c} /\ lock \in {b, 0}
      BY Zenon, <2>1
    <3>2. conn'[c].to = b /\ conn'[c].st = "saved" /\ \A d \in Clients \ {c} : conn'[d] = conn[d]
      BY Zenon, <2>2 DEF Handles, b
    <3>3. \A d \in Clients : Changed(d)' => d = c \/ (Changed(d) /\ conn'[d] = conn[d])
      BY Zenon, <3>2 DEF Changed
    <3>4. \A d \in Clients, a \in Life!Boots :
            Changed(d)' /\ lock' = a /\ (a # conn'[d].to \/ conn'[d].st = "reply") => d \in boot'[a].mem
      <4>1. \A a \in Life!Boots : a # 0
        BY Zenon, BootsAreNumbers
      <4> QED BY Zenon, <2>1, <3>1, <3>2, <3>3, <4>1 DEF MemInv
    <3> QED BY Zenon, <2>1, <3>1, <3>3, <3>4 DEF MemInv
  <2>4. file' \in SUBSET Clients /\ SameBoots(c)
    BY Zenon, <1>5, <2>1 DEF SameBoots, Life!TypeOK, Life!BootType
  <2>5. raced' \in BOOLEAN /\ (raced => raced')
    BY Zenon, <2>1
  <2> QED BY Zenon, <1>1, <2>1, <2>2, <2>3, <2>4, <2>5, HandlerStep
<1>7. CASE Life!SaveFails(c)
  <2>1. conn' = [conn EXCEPT ![c].st = "refuse"] /\ UNCHANGED <<file, lock, ca, boot, acked, gui, raced>>
    BY Zenon, <1>7 DEF Life!SaveFails
  <2>2. Handles(c, "refuse")
    BY Zenon, <2>1, StHandles
  <2>3. MemInv' /\ SameBoots(c)
    BY Zenon, <2>1, <2>2 DEF MemInv, Changed, Handles, SameBoots, Life!TypeOK
  <2>4. file' \in SUBSET Clients
    BY Zenon, <2>1 DEF Life!TypeOK
  <2> QED BY Zenon, <1>1, <1>3, <2>1, <2>2, <2>3, <2>4, HandlerStep
<1>8. CASE Life!Swap(c)
  <2> DEFINE new == [boot[b] EXCEPT !.mem = boot[b].mem \cup {c}]
  <2>1. /\ conn[c].st = "saved" /\ conn[c].kind = "change"
        /\ boot' = [boot EXCEPT ![b] = new] /\ conn' = [conn EXCEPT ![c].st = "reply"]
        /\ UNCHANGED <<file, lock, ca, acked, gui, raced>>
    BY Zenon, <1>2, <1>8 DEF Life!Swap, Life!TypeOK, ConnInv, b
  <2>2. Handles(c, "reply")
    BY Zenon, <2>1, StHandles
  <2>3. /\ new \in Life!BootType /\ new.pc = boot[b].pc /\ new.mem = boot[b].mem \cup {c} /\ new.with = boot[b].with
        /\ new.ca = boot[b].ca /\ new.bound = boot[b].bound
    BY Zenon, <1>5 DEF Life!BootType
  <2> HIDE DEF new
  <2>4. boot' \in [Life!Boots -> Life!BootType] /\ boot'[b] = new /\ \A a \in Life!Boots \ {b} : boot'[a] = boot[a]
    BY Zenon, <1>2, <2>1, <2>3 DEF Life!TypeOK
  <2>5. SameBoots(c) /\ \A a \in Life!Boots : boot[a].mem \subseteq boot'[a].mem
    BY Zenon, <1>2, <2>1, <2>3, <2>4 DEF SameBoots, b
  <2>6. MemInv'
    <3> SUFFICES ASSUME ~raced PROVE MemInv'
      BY Zenon, <2>1 DEF MemInv
    <3>1. conn'[c].to = b /\ \A d \in Clients \ {c} : conn'[d] = conn[d]
      BY Zenon, <2>2 DEF Handles, b
    <3>2. Changed(c) /\ conn[c].to = b
      BY Zenon, <2>1 DEF Changed, b
    <3>3. \A d \in Clients : Changed(d)' => Changed(d)
      BY Zenon, <3>1, <3>2 DEF Changed
    <3>4. ASSUME NEW d \in Clients, NEW a \in Life!Boots, Changed(d)', lock = a,
                 a # conn'[d].to \/ conn'[d].st = "reply"
          PROVE  d \in boot'[a].mem
      <4>1. CASE d = c /\ a = b
        BY Zenon, <2>3, <2>4, <4>1
      <4>2. CASE d = c /\ a # b
        BY Zenon, <2>5, <3>2, <3>4, <4>2 DEF MemInv
      <4>3. CASE d # c
        BY Zenon, <2>5, <3>1, <3>3, <3>4, <4>3 DEF MemInv
      <4> QED BY Zenon, <4>1, <4>2, <4>3
    <3>5. acked \subseteq file /\ \A d \in Clients : Changed(d)' => d \in file
      BY Zenon, <3>3 DEF MemInv
    <3>6. \A a \in Life!Boots : lock = a => acked \subseteq boot'[a].mem
      BY Zenon, <2>5 DEF MemInv
    <3> QED BY Zenon, <2>1, <3>4, <3>5, <3>6 DEF MemInv
  <2>7. file' \in SUBSET Clients
    BY Zenon, <2>1 DEF Life!TypeOK
  <2> QED BY Zenon, <1>1, <1>3, <2>1, <2>2, <2>5, <2>6, <2>7, HandlerStep
<1>9. CASE Life!FlagRestart(c)
  <2> DEFINE new == [boot[b] EXCEPT !.restart = TRUE]
  <2>1. /\ conn[c].kind = "restart" /\ boot' = [boot EXCEPT ![b] = new] /\ conn' = [conn EXCEPT ![c].st = "reply"]
        /\ UNCHANGED <<file, lock, ca, acked, gui, raced>>
    BY Zenon, <1>2, <1>9 DEF Life!FlagRestart, Life!TypeOK, b
  <2>2. Handles(c, "reply")
    BY Zenon, <2>1, StHandles
  <2>3. /\ new \in Life!BootType /\ new.pc = boot[b].pc /\ new.mem = boot[b].mem /\ new.with = boot[b].with
        /\ new.ca = boot[b].ca /\ new.bound = boot[b].bound
    BY Zenon, <1>5 DEF Life!BootType
  <2> HIDE DEF new
  <2>4. boot' \in [Life!Boots -> Life!BootType] /\ boot'[b] = new /\ \A a \in Life!Boots \ {b} : boot'[a] = boot[a]
    BY Zenon, <1>2, <2>1, <2>3 DEF Life!TypeOK
  <2>5. SameBoots(c) /\ \A a \in Life!Boots : boot'[a].mem = boot[a].mem
    BY Zenon, <1>2, <2>3, <2>4 DEF SameBoots
  <2>6. MemInv'
    <3>1. \A d \in Clients : Changed(d)' => Changed(d) /\ conn'[d] = conn[d]
      BY Zenon, <2>1, <2>2 DEF Changed, Handles
    <3> QED BY Zenon, <2>1, <2>5, <3>1 DEF MemInv
  <2>7. file' \in SUBSET Clients
    BY Zenon, <2>1 DEF Life!TypeOK
  <2> QED BY Zenon, <1>1, <1>3, <2>1, <2>2, <2>5, <2>6, <2>7, HandlerStep
<1>10. CASE Life!Reply(c)
  <2> DEFINE new == [boot[b] EXCEPT !.shutdown = boot[b].shutdown \/ boot[b].restart]
  <2>1. /\ boot' = [boot EXCEPT ![b] = new] /\ conn' = [conn EXCEPT ![c].st = "done"]
        /\ UNCHANGED <<file, lock, ca, gui, raced>>
    BY Zenon, <1>2, <1>10 DEF Life!Reply, Life!TypeOK, b
  <2>2. Handles(c, "done")
    BY Zenon, <2>1, StHandles
  <2>3. /\ new \in Life!BootType /\ new.pc = boot[b].pc /\ new.mem = boot[b].mem /\ new.with = boot[b].with
        /\ new.ca = boot[b].ca /\ new.bound = boot[b].bound
    BY Zenon, <1>5 DEF Life!BootType
  <2> HIDE DEF new
  <2>4. boot' \in [Life!Boots -> Life!BootType] /\ boot'[b] = new /\ \A a \in Life!Boots \ {b} : boot'[a] = boot[a]
    BY Zenon, <1>2, <2>1, <2>3 DEF Life!TypeOK
  <2>5. SameBoots(c) /\ \A a \in Life!Boots : boot'[a].mem = boot[a].mem
    BY Zenon, <1>2, <2>3, <2>4 DEF SameBoots
  <2>6. \/ acked' = acked
        \/ acked' = acked \cup {c} /\ conn[c].kind = "change" /\ conn[c].st = "reply"
    BY Zenon, <1>10 DEF Life!Reply
  <2>8. MemInv'
    <3> SUFFICES ASSUME ~raced PROVE MemInv'
      BY Zenon, <2>1 DEF MemInv
    <3>1. \A d \in Clients : Changed(d)' => Changed(d) /\ conn'[d] = conn[d]
      BY Zenon, <2>2 DEF Changed, Handles
    <3>2. acked' \subseteq file /\ \A a \in Life!Boots : lock = a => acked' \subseteq boot[a].mem
      BY Zenon, <2>6 DEF MemInv, Changed
    <3> QED BY Zenon, <2>1, <2>5, <3>1, <3>2 DEF MemInv
  <2>9. file' \in SUBSET Clients
    BY Zenon, <2>1 DEF Life!TypeOK
  <2> QED BY Zenon, <1>1, <1>3, <2>1, <2>2, <2>5, <2>6, <2>8, <2>9, HandlerStep
<1>11. CASE Life!ReplyFails(c)
  <2>1. conn' = [conn EXCEPT ![c].st = "done"] /\ UNCHANGED <<file, lock, ca, boot, acked, gui, raced>>
    BY Zenon, <1>11 DEF Life!ReplyFails
  <2>2. Handles(c, "done")
    BY Zenon, <2>1, StHandles
  <2>3. MemInv' /\ SameBoots(c)
    BY Zenon, <2>1, <2>2 DEF MemInv, Changed, Handles, SameBoots, Life!TypeOK
  <2>4. file' \in SUBSET Clients
    BY Zenon, <2>1 DEF Life!TypeOK
  <2> QED BY Zenon, <1>1, <1>3, <2>1, <2>2, <2>3, <2>4, HandlerStep
<1> QED BY Zenon, <1>6, <1>7, <1>8, <1>9, <1>10, <1>11

\* A client other than the desktop application, or the desktop application's
\* setter or restart, has its request accepted by a serving boot.
LEMMA Asked ==
    ASSUME LifeInv, NEW c \in Clients, NEW b \in Life!Boots, boot[b].pc = "serving",
           NEW kind \in {"change", "restart"},
           conn' = [conn EXCEPT ![c] = [to |-> b, st |-> "asked", kind |-> kind]],
           UNCHANGED <<file, lock, ca, boot, acked, raced>>, gui' \in Life!GuiType
    PROVE  /\ Life!TypeOK' /\ HoldInv' /\ ConnInv' /\ MemInv' /\ CaInv'
           /\ conn'[c] = [to |-> b, st |-> "asked", kind |-> kind]
           /\ \A d \in Clients \ {c} : conn'[d] = conn[d]
<1> USE DEF LifeInv
<1>1. [to |-> b, st |-> "asked", kind |-> kind] \in Life!ConnType
  BY Zenon DEF Life!ConnType
<1>2. /\ conn' \in [Clients -> Life!ConnType]
      /\ conn'[c] = [to |-> b, st |-> "asked", kind |-> kind]
      /\ \A d \in Clients \ {c} : conn'[d] = conn[d]
  BY Zenon, <1>1 DEF Life!TypeOK
<1>3. Life!TypeOK'
  BY Zenon, <1>2 DEF Life!TypeOK, Life!GuiType
<1>4. HoldInv' /\ CaInv'
  BY Zenon DEF HoldInv, CaInv
<1>5. ConnInv'
  BY Zenon, <1>2 DEF ConnInv, UnderWay, Runs
<1>6. MemInv'
  BY Zenon, <1>2 DEF MemInv, Changed
<1> QED BY Zenon, <1>2, <1>3, <1>4, <1>5, <1>6

LEMMA AskKeeps ==
    ASSUME LifeInv, NEW c \in Clients, NEW b \in Life!Boots, NEW kind \in {"change", "restart"}, Life!Ask(c, b, kind)
    PROVE  LifeInv'
<1>1. /\ c # Gui /\ boot[b].pc = "serving" /\ UNCHANGED <<file, lock, ca, boot, acked, gui, raced>>
      /\ conn' = [conn EXCEPT ![c] = [to |-> b, st |-> "asked", kind |-> kind]]
  BY Zenon DEF Life!Ask, Life!Request, Life!At
<1>2. gui' \in Life!GuiType
  BY Zenon, <1>1 DEF LifeInv, Life!TypeOK, Life!GuiType
<1>3. /\ Life!TypeOK' /\ HoldInv' /\ ConnInv' /\ MemInv' /\ CaInv'
      /\ \A d \in Clients \ {c} : conn'[d] = conn[d]
  BY Zenon, <1>1, <1>2, Asked
<1>4. conn'[Gui] = conn[Gui]
  BY Zenon, <1>1, <1>3, BootsAssumption
<1>5. GuiInv'
  BY Zenon, <1>1, <1>4 DEF GuiInv, LifeInv, UnderWay
<1> QED BY Zenon, <1>3, <1>5 DEF LifeInv

\* The desktop application's record changes and nothing else.
LEMMA OnlyGui ==
    ASSUME LifeInv, gui' \in Life!GuiType, UNCHANGED <<file, lock, ca, boot, conn, acked, raced>>, GuiInv'
    PROVE  LifeInv'
<1>1. Life!TypeOK'
  BY Zenon DEF LifeInv, Life!TypeOK, Life!GuiType
<1>2. HoldInv' /\ ConnInv' /\ MemInv' /\ CaInv'
  BY Zenon DEF LifeInv, HoldInv, ConnInv, MemInv, Changed, CaInv, UnderWay
<1> QED BY Zenon, <1>1, <1>2 DEF LifeInv

LEMMA GuiKeeps ==
    ASSUME LifeInv, Life!GuiBaseline \/ Life!GuiRestart \/ Life!GuiPolls \/ Life!GuiPoll \/ Life!GuiTimesOut
    PROVE  LifeInv'
<1> USE DEF LifeInv
<1>0. gui \in Life!GuiType
  BY Zenon DEF Life!TypeOK, Life!GuiType
<1>1. CASE Life!GuiBaseline
  <2>1. PICK seen \in Life!Boots \cup {Life!NoBoot}, b \in Life!Boots :
          /\ gui.pc = "idle" /\ boot[b].pc = "serving" /\ conn[Gui].st = "idle"
          /\ conn' = [conn EXCEPT ![Gui] = [to |-> b, st |-> "asked", kind |-> "change"]]
          /\ gui' = [gui EXCEPT !.pc = "set", !.base = seen, !.took = b]
          /\ UNCHANGED <<file, lock, ca, boot, acked, raced>>
    BY Zenon, <1>1 DEF Life!GuiBaseline, Life!Request, Life!At
  <2>2. gui' \in Life!GuiType /\ gui'.pc = "set" /\ gui'.took = b
    BY Zenon, <1>0, <2>1 DEF Life!GuiType
  <2>3. /\ Life!TypeOK' /\ HoldInv' /\ ConnInv' /\ MemInv' /\ CaInv'
        /\ conn'[Gui] = [to |-> b, st |-> "asked", kind |-> "change"]
    BY Zenon, <2>1, <2>2, Asked, BootsAssumption
  <2>4. Gui \notin acked'
    BY Zenon, <2>1 DEF GuiInv
  <2>5. GuiInv'
    BY <2>1, <2>2, <2>3, <2>4 DEF GuiInv
  <2> QED BY Zenon, <2>3, <2>5
<1>2. CASE Life!GuiRestart
  <2>1. gui.pc = "set" /\ conn[Gui].st = "done" /\ UNCHANGED <<file, lock, ca, boot, acked, raced>>
    BY Zenon, <1>2 DEF Life!GuiRestart
  <2>2. CASE UNCHANGED conn
    <3>1. \/ gui' = [gui EXCEPT !.pc = "failed"]
          \/ gui' = [gui EXCEPT !.pc = "poll"] /\ Gui \in acked
          \/ \E b \in Life!Boots :
               /\ conn' = [conn EXCEPT ![Gui] = [to |-> b, st |-> "asked", kind |-> "restart"]]
      BY Zenon, <1>2 DEF Life!GuiRestart
    <3>2. ~\E b \in Life!Boots : conn' = [conn EXCEPT ![Gui] = [to |-> b, st |-> "asked", kind |-> "restart"]]
      BY <2>1, <2>2, BootsAssumption DEF Life!TypeOK
    <3>3. /\ gui' \in Life!GuiType /\ gui'.took = gui.took /\ gui'.pc \in {"failed", "poll"}
          /\ gui'.pc = "poll" => Gui \in acked
      BY Zenon, <1>0, <3>1, <3>2 DEF Life!GuiType
    <3>4. GuiInv'
      BY Zenon, <2>1, <2>2, <3>3 DEF GuiInv, UnderWay
    <3> QED BY Zenon, <2>1, <2>2, <3>3, <3>4, OnlyGui
  <2>3. CASE ~UNCHANGED conn
    <3>1. PICK b \in Life!Boots :
            /\ Gui \in acked /\ boot[b].pc = "serving"
            /\ conn' = [conn EXCEPT ![Gui] = [to |-> b, st |-> "asked", kind |-> "restart"]]
            /\ gui' = [gui EXCEPT !.pc = "restart"]
      BY Zenon, <1>2, <2>3 DEF Life!GuiRestart, Life!At
    <3>2. gui' \in Life!GuiType /\ gui'.pc = "restart" /\ gui'.took = gui.took
      BY Zenon, <1>0, <3>1 DEF Life!GuiType
    <3>3. /\ Life!TypeOK' /\ HoldInv' /\ ConnInv' /\ MemInv' /\ CaInv'
          /\ conn'[Gui] = [to |-> b, st |-> "asked", kind |-> "restart"]
      BY Zenon, <2>1, <3>1, <3>2, Asked, BootsAssumption
    <3>4. GuiInv'
      BY <2>1, <3>1, <3>2, <3>3 DEF GuiInv
    <3> QED BY Zenon, <3>3, <3>4
  <2> QED BY Zenon, <2>2, <2>3
<1>3. CASE Life!GuiPolls \/ Life!GuiTimesOut
  <2>1. /\ gui.pc \in {"restart", "poll"} /\ UNCHANGED <<file, lock, ca, boot, conn, acked, raced>>
        /\ gui' = [gui EXCEPT !.pc = "poll"] \/ gui' = [gui EXCEPT !.pc = "failed"]
    BY Zenon, <1>3 DEF Life!GuiPolls, Life!GuiTimesOut
  <2>2. gui' \in Life!GuiType /\ gui'.pc \in {"poll", "failed"} /\ gui'.took = gui.took
    BY Zenon, <1>0, <2>1 DEF Life!GuiType
  <2>3. GuiInv'
    BY Zenon, <2>1, <2>2 DEF GuiInv, UnderWay
  <2> QED BY Zenon, <2>1, <2>2, <2>3, OnlyGui
<1>4. CASE Life!GuiPoll
  <2>1. PICK b \in Life!Boots :
          /\ gui.pc = "poll" /\ boot[b].pc = "serving" /\ b # gui.base
          /\ gui' = [gui EXCEPT !.pc = IF "web" \in boot[b].bound THEN "ok" ELSE "failed", !.answered = b]
          /\ UNCHANGED <<file, lock, ca, boot, conn, acked, raced>>
    BY Zenon, <1>4 DEF Life!GuiPoll, Life!At
  <2>2. /\ gui' \in Life!GuiType /\ gui'.pc \in {"ok", "failed"} /\ gui'.took = gui.took /\ gui'.base = gui.base
        /\ gui'.answered = b /\ (gui'.pc = "ok" => "web" \in boot[b].bound)
    BY Zenon, <1>0, <2>1 DEF Life!GuiType
  <2>3. Gui \in acked
    BY Zenon, <2>1 DEF GuiInv
  <2>4. ~raced => Gui \in boot[b].mem
    BY Zenon, <2>1, <2>3 DEF HoldInv, Holding, MemInv
  <2>5. gui.base = gui.took /\ ~raced => Gui \in boot[b].with
    BY Zenon, <2>1, <2>4 DEF GuiInv
  <2>6. GuiInv'
    BY Zenon, <2>1, <2>2, <2>3, <2>5 DEF GuiInv, UnderWay, Early
  <2> QED BY Zenon, <2>1, <2>2, <2>6, OnlyGui
<1> QED BY Zenon, <1>1, <1>2, <1>3, <1>4

LEMMA LifeKept == ASSUME LifeInv, [Life!Next]_(Life!vars) PROVE LifeInv'
<1>1. CASE UNCHANGED Life!vars
  BY Zenon, <1>1 DEF Life!vars, LifeInv, Life!TypeOK, HoldInv, ConnInv, MemInv, Changed, CaInv, GuiInv, UnderWay
<1>2. CASE Life!Next
  <2>1. ASSUME NEW b \in Life!Boots, Life!Start(b) \/ \E a \in Life!Boots : Life!ReExec(a, b) PROVE LifeInv'
    BY Zenon, <2>1, BeginLoads, BeginKeeps
  <2>2. ASSUME NEW b \in Life!Boots,
               Life!Acquire(b) \/ Life!LoadCa(b) \/ Life!WriteCert(b) \/ Life!WriteKey(b) \/ Life!TearKey(b)
                 \/ Life!Bind(b) \/ Life!BindFails(b)
        PROVE  LifeInv'
    BY Zenon, <2>2, BringUpKeeps
  <2>3. ASSUME NEW b \in Life!Boots,
               Life!Signal(b) \/ Life!Drain(b) \/ Life!Unlock(b) \/ Life!DropRuntime(b) \/ Life!Crash(b)
        PROVE  LifeInv'
    BY Zenon, <2>3, EndKeeps
  <2> QED BY Zenon, <1>2, <2>1, <2>2, <2>3, AskKeeps, HandlersKeep, GuiKeeps DEF Life!Next
<1> QED BY Zenon, <1>1, <1>2

\* For any number of boots and of clients, with crashes at every step and boots that start
\* beside a process that still runs: a serving boot signs with the authority on disk, and
\* unless one went on with a configuration that another had changed since, what a client was
\* told is saved is in the memory of every boot that serves, and a port change reported as
\* applied is in force in the boot that answered (bring_up, commit_config,
\* load_or_generate_ca, run_until_shutdown, applyAndRestart).
THEOREM RestartsAlwaysSafe == DaemonSpec => []RestartsSafe
<1> DEFINE Inv == part = "lifecycle" => LifeInv
<1>1. DaemonInit => Inv
  BY Zenon, LifeStarts DEF DaemonInit
<1>2. Inv /\ [DaemonNext]_<<part, daemonVars>> => Inv'
  BY Zenon, LifeKept DEF DaemonNext, daemonVars, lifeVars, Life!vars
<1>3. Inv => RestartsSafe
  <2> SUFFICES ASSUME LifeInv
               PROVE  Life!TypeOK /\ Life!AckedServed /\ Life!AuthorityOnDisk /\ Life!PortChangeApplied
    BY Zenon DEF RestartsSafe
  <2>1. Life!AckedServed
    BY Zenon DEF LifeInv, HoldInv, Holding, MemInv, Life!AckedServed, Life!At
  <2>2. Life!AuthorityOnDisk
    BY Zenon DEF LifeInv, CaInv, Life!AuthorityOnDisk, Life!At
  <2>3. Life!PortChangeApplied
    BY Zenon DEF LifeInv, GuiInv, Life!PortChangeApplied
  <2> QED BY Zenon, <2>1, <2>2, <2>3 DEF LifeInv
<1> QED BY <1>1, <1>2, <1>3, PTL DEF DaemonSpec
=============================================================================
