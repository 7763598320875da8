---------------------------- MODULE NamedTunnels ----------------------------
(***************************************************************************)
(* The one named tunnel of Orcker: bin/orckerd/src/tunnel/named.rs and the *)
(* zone cache of credentials.rs.  Four places know of a tunnel: the        *)
(* Cloudflare account, its credentials file, the configuration and the     *)
(* process that the tunnel manager runs.  create, delete, start and login  *)
(* change them one after the other under tunnel_mutate; a step may fail, a *)
(* command may time out after it took effect, and the daemon may die.      *)
(*                                                                         *)
(* A tunnel id is a number, the n-th login writes the n-th certificate,    *)
(* and the zone of a certificate has its number.  A site has at most one   *)
(* hostname, so a mapping is the set of sites that have one.               *)
(***************************************************************************)
EXTENDS Naturals, FiniteSets, TLAPS

CONSTANTS
    Clients,    \* requests in progress, numbered from 1
    Names,      \* tunnel names, numbered from 1
    Sites,      \* sites that may get a hostname
    MaxTunnels, \* bound: tunnels made on the account
    MaxLogins   \* bound: logins that write a certificate

None == 0
Foreign == 1    \* a tunnel that somebody else made on the account

VARIABLES
    account,    \* account[n]: the id of the tunnel named n at Cloudflare
    creds,      \* creds[n]: the id that the credentials file of n is for
    named,      \* config: tunnel.named
    sites,      \* config: the sites of tunnel.sites
    proc,       \* the id that the manager's cloudflared runs
    cert,       \* the origin certificate on disk
    zone,       \* ZONE_CACHE: of which certificate, and which zone
    holder,     \* who holds tunnel_mutate
    task,       \* task[c]: the request of c and how far it is
    made        \* ids handed out

vars == <<account, creds, named, sites, proc, cert, zone, holder, task, made>>

cloud == <<account, creds, made>>
config == <<named, sites>>
login == <<cert, zone>>

Idle == [op |-> "idle", name |-> None, pc |-> "idle", id |-> None]

Init ==
    /\ account \in [Names -> {None, Foreign}]
    /\ Cardinality({n \in Names : account[n] = Foreign}) < 2
    /\ creds = [n \in Names |-> None]
    /\ named = [n \in Names |-> None]
    /\ sites = {}
    /\ proc = None
    /\ cert = None
    /\ zone = [of |-> None, is |-> None]
    /\ holder = None
    /\ task = [c \in Clients |-> Idle]
    /\ made = Foreign

At(c, op, pc) == task[c].op = op /\ task[c].pc = pc
Name(c) == task[c].name
Goes(c, pc) == task' = [task EXCEPT ![c].pc = pc] /\ UNCHANGED holder
Takes(c, pc, id) == task' = [task EXCEPT ![c].pc = pc, ![c].id = id] /\ UNCHANGED holder

\* The handler returns and drops the guard.
Ends(c) == task' = [task EXCEPT ![c] = Idle] /\ holder' = None

\* All but a login want the certificate to be there, and look before they wait.
is_logged_in == cert # None
Asks(c, op, n) ==
    /\ task[c] = Idle
    /\ op # "login" => is_logged_in
    /\ task' = [task EXCEPT ![c] = [op |-> op, name |-> n, pc |-> "wait", id |-> None]]
    /\ UNCHANGED <<cloud, config, proc, login, holder>>

Locks(c) ==
    /\ task[c].pc = "wait" /\ task[c].op # "list"
    /\ holder = None
    /\ holder' = c
    /\ task' = [task EXCEPT ![c].pc = "check"]
    /\ UNCHANGED <<cloud, config, proc, login>>

\* ----------------------------------------------------------------- cloudflared
\* tunnel create: a name is free on the account or the command fails.  It writes the
\* credentials after the tunnel is made; one that is killed at its time limit may have
\* done the first or both.
Makes(c, id, written) ==
    /\ account[Name(c)] = None
    /\ account' = [account EXCEPT ![Name(c)] = id]
    /\ creds' = [creds EXCEPT ![Name(c)] = IF written THEN id ELSE @]
    /\ made' = id

\* tunnel delete, by name.
Unmakes(c) ==
    /\ account[Name(c)] # None
    /\ account' = [account EXCEPT ![Name(c)] = None]

\* ------------------------------------------------------------------ the handlers
create(c) ==
    /\ At(c, "create", "check")
    /\ IF \E n \in Names \ {Name(c)} : named[n] # None THEN Ends(c) ELSE Goes(c, "run")
    /\ UNCHANGED <<cloud, config, proc, login>>

CreateRuns(c) ==
    /\ At(c, "create", "run")
    /\ \/ made < MaxTunnels /\ Makes(c, made + 1, TRUE) /\ Takes(c, "save", made + 1)
       \/ made < MaxTunnels /\ \E w \in BOOLEAN : Makes(c, made + 1, w) /\ Ends(c)
       \/ Ends(c) /\ UNCHANGED cloud
    /\ UNCHANGED <<config, proc, login>>

CreateSaves(c) ==
    /\ At(c, "create", "save")
    /\ named' \in {named, [named EXCEPT ![Name(c)] = task[c].id]}
    /\ Ends(c)
    /\ UNCHANGED <<cloud, sites, proc, login>>

\* Only the recorded tunnel may be deleted.
delete(c) ==
    /\ At(c, "delete", "check")
    /\ IF named[Name(c)] = None THEN Ends(c) ELSE Goes(c, "stop")
    /\ UNCHANGED <<cloud, config, proc, login>>

\* A stop that fails drops the instance too, and with it the process.
DeleteStops(c) ==
    /\ At(c, "delete", "stop")
    /\ proc' = None
    /\ Goes(c, "run") \/ (proc # None /\ Ends(c))
    /\ UNCHANGED <<cloud, config, login>>

DeleteRuns(c) ==
    /\ At(c, "delete", "run")
    /\ \/ /\ Unmakes(c)
          /\ creds' \in {creds, [creds EXCEPT ![Name(c)] = None]}
          /\ Goes(c, "save")
       \/ (Unmakes(c) \/ UNCHANGED account) /\ Ends(c) /\ UNCHANGED creds
    /\ UNCHANGED <<made, config, proc, login>>

DeleteSaves(c) ==
    /\ At(c, "delete", "save")
    /\ \/ named' = [named EXCEPT ![Name(c)] = None] /\ sites' = {}
       \/ UNCHANGED config
    /\ Ends(c)
    /\ UNCHANGED <<cloud, proc, login>>

\* The recorded tunnel with every site that has a hostname and is still served.
start(c) ==
    /\ At(c, "start", "check")
    /\ \/ \E n \in Names :
            /\ named[n] # None /\ sites # {}
            /\ task' = [task EXCEPT ![c].name = n, ![c].pc = "stop", ![c].id = named[n]]
            /\ UNCHANGED holder
       \/ Ends(c)
    /\ UNCHANGED <<cloud, config, proc, login>>

StartStops(c) ==
    /\ At(c, "start", "stop")
    /\ proc' = None
    /\ Goes(c, "run") \/ (proc # None /\ Ends(c))
    /\ UNCHANGED <<cloud, config, login>>

StartRuns(c) ==
    /\ At(c, "start", "run")
    /\ \/ proc' = task[c].id /\ Goes(c, "ready")
       \/ Ends(c) /\ UNCHANGED proc
    /\ UNCHANGED <<cloud, config, login>>

\* Cloudflare lets a tunnel in that exists and proves to be itself; a start that does
\* not get there stops the process.
StartReady(c) ==
    /\ At(c, "start", "ready")
    /\ \/ proc = account[Name(c)] /\ proc = creds[Name(c)] /\ UNCHANGED proc
       \/ proc' = None
    /\ Ends(c)
    /\ UNCHANGED <<cloud, config, login>>

login_streamed(c) ==
    /\ At(c, "login", "check")
    /\ cert' \in {cert} \cup ({cert + 1} \cap 1 .. MaxLogins)
    /\ Ends(c)
    /\ UNCHANGED <<cloud, config, proc, zone>>

\* stop needs no guard but the manager's; a cloudflared may also exit by itself.
stop ==
    /\ proc # None
    /\ proc' = None
    /\ UNCHANGED <<cloud, config, login, holder, task>>

\* A hostname is set for a site that is served, and cleared for any.
set_site_hostname(s) ==
    /\ sites' \in {sites \cup {s}, sites \ {s}}
    /\ UNCHANGED <<cloud, named, proc, login, holder, task>>

\* ------------------------------------------------------------------ the zone
\* The time of the certificate, then its text: another process may replace the file in
\* between.
cached_zone(mtime) == zone.of = mtime

list(c) ==
    /\ At(c, "list", "wait")
    /\ IF ~is_logged_in \/ cached_zone(cert)
       THEN task' = [task EXCEPT ![c] = Idle] /\ UNCHANGED holder
       ELSE Takes(c, "pem", cert)
    /\ UNCHANGED <<cloud, config, proc, login>>

\* The text is read, and the answer kept under the time read before.
resolve_zone(c, pem) == zone' = [of |-> task[c].id, is |-> pem]

ReadPem(c) ==
    /\ At(c, "list", "pem")
    /\ task' = [task EXCEPT ![c].pc = "fetch", ![c].name = cert]
    /\ UNCHANGED <<cloud, config, proc, login, holder>>

Fetched(c) ==
    /\ At(c, "list", "fetch")
    /\ resolve_zone(c, task[c].name) \/ UNCHANGED zone
    /\ task' = [task EXCEPT ![c] = Idle]
    /\ UNCHANGED <<cloud, config, proc, cert, holder>>

\* The daemon dies with its requests and comes back; the configuration is on disk.
Crash ==
    /\ task' = [c \in Clients |-> Idle]
    /\ holder' = None
    /\ proc' = None
    /\ zone' = [of |-> None, is |-> None]
    /\ UNCHANGED <<cloud, config, cert>>

Next ==
    \/ \E c \in Clients :
        \/ \E op \in {"create", "delete"}, n \in Names : Asks(c, op, n)
        \/ \E op \in {"start", "login", "list"} : Asks(c, op, None)
        \/ Locks(c)
        \/ create(c) \/ CreateRuns(c) \/ CreateSaves(c)
        \/ delete(c) \/ DeleteStops(c) \/ DeleteRuns(c) \/ DeleteSaves(c)
        \/ start(c) \/ StartStops(c) \/ StartRuns(c) \/ StartReady(c)
        \/ login_streamed(c)
        \/ list(c) \/ ReadPem(c) \/ Fetched(c)
    \/ stop \/ \E s \in Sites : set_site_hostname(s)
    \/ Crash

Spec == Init /\ [][Next]_vars

\* ----------------------------------------------------------------- properties
\* Only a request that has the guard is past its check, and ids are those handed out.
TypeOK ==
    /\ \A c \in Clients :
        task[c].op \notin {"idle", "list"} /\ task[c].pc # "wait" => holder = c
    /\ \A n \in Names : {account[n], creds[n], named[n]} \subseteq 0 .. made
    /\ sites \subseteq Sites
    /\ proc \in 0 .. made
    /\ cert \in 0 .. MaxLogins

\* There is one named tunnel: two requests that create different ones at the same time
\* do not both get theirs recorded (named.rs: "v1 supports a single tunnel").
OneTunnel == \A m, n \in Names : named[m] # None /\ named[n] # None => m = n

\* The process that runs is that of the tunnel that is recorded, also after deletes and
\* creates that failed half-way.
RunsRecorded == proc # None => \E n \in Names : named[n] = proc

\* A tunnel that is forgotten is gone: no process runs, the account has it no more, and
\* no hostname is left for the next tunnel (delete: "the clean slate").
DeletedIsGone ==
    \A n \in Names : named[n] # None /\ named'[n] = None =>
        proc' = None /\ account'[n] # named[n] /\ sites' = {}

\* A tunnel that Orcker did not make is neither deleted nor recorded (delete: "a stray
\* request can't destroy an unrelated account tunnel").
ForeignKept == \A n \in Names : account[n] = Foreign => account'[n] = Foreign /\ named'[n] # Foreign

\* A zone answered from the cache is that of the certificate on disk, although logins
\* replace the file while it is read and its zone is fetched.
ZoneIsCurrent == cached_zone(cert) => zone.is = cert

\* ------------------------------------------------------------------ the proofs
\* What the proofs assume of the constants.
Numbered ==
    /\ Clients \subseteq Nat \ {None} /\ Names \subseteq Nat \ {None}
    /\ MaxTunnels \in Nat /\ MaxLogins \in Nat

\* What a task can be.
Ops == {"idle", "create", "delete", "start", "login", "list"}
Pcs == {"idle", "wait", "check", "run", "save", "stop", "ready", "pem", "fetch"}
Tasks == [op : Ops, name : Nat, pc : Pcs, id : Nat]

Types ==
    /\ account \in [Names -> Nat] /\ creds \in [Names -> Nat] /\ named \in [Names -> Nat]
    /\ proc \in Nat /\ made \in Nat /\ cert \in Nat
    /\ task \in [Clients -> Tasks]

\* A request that is past the guard.
Past(c) == task[c].op \notin {"idle", "list"} /\ task[c].pc # "wait"

\* What a request has made sure of, at each step of it.
CreateInv(c) ==
    /\ At(c, "create", "run") \/ At(c, "create", "save") =>
        \A n \in Names \ {Name(c)} : named[n] = None
    /\ At(c, "create", "save") => proc = None /\ task[c].id # None

DeleteInv(c) ==
    /\ At(c, "delete", "run") => proc = None
    /\ At(c, "delete", "save") => proc = None /\ account[Name(c)] = None

StartInv(c) ==
    /\ task[c].op = "start" /\ task[c].pc \in {"stop", "run", "ready"} =>
        Name(c) \in Names /\ named[Name(c)] = task[c].id
    /\ At(c, "start", "run") => proc = None
    /\ At(c, "start", "ready") => proc \in {None, task[c].id}

ClientInv(c) ==
    /\ Past(c) => holder = c
    /\ task[c].op \in {"create", "delete"} => Name(c) \in Names
    /\ CreateInv(c) /\ DeleteInv(c) /\ StartInv(c)

\* A process that no start is waiting for is one that Cloudflare let in.
ProcInv ==
    proc # None =>
        \/ \E n \in Names : named[n] = proc /\ account[n] = proc
        \/ \E c \in Clients : At(c, "start", "ready")

\* The inductive invariant: what each request past the guard knows, and that nothing else
\* changes it, since it has the guard.
NamedInv == Types /\ (\A c \in Clients : ClientInv(c)) /\ ProcInv /\ OneTunnel

\* An idle client has promised nothing.
LEMMA IdleInv == ASSUME NEW c, task[c] = Idle PROVE ClientInv(c)
BY DEF Idle, ClientInv, Past, CreateInv, DeleteInv, StartInv, At, Name

\* The idle task is a task.
LEMMA IdleTask == Idle \in Tasks
BY DEF Idle, Tasks, Ops, Pcs, None

\* The daemon starts with no tunnel recorded and no request in progress.
LEMMA NamedInit == ASSUME Numbered, Init PROVE NamedInv
<1>1. \A c \in Clients : task[c] = Idle
  BY DEF Init
<1>2. \A c \in Clients : ClientInv(c)
  BY <1>1, IdleInv
<1>3. Types
  BY IdleTask DEF Init, Types, None, Foreign
<1>4. ProcInv /\ OneTunnel
  BY DEF Init, ProcInv, OneTunnel
<1> QED BY <1>2, <1>3, <1>4 DEF NamedInv

\* The three ways in which a step moves the task of a client.
LEMMA GoesTo ==
    ASSUME Types, NEW c \in Clients, NEW pc \in Pcs, Goes(c, pc)
    PROVE  /\ task' \in [Clients -> Tasks] /\ UNCHANGED holder
           /\ \A d \in Clients \ {c} : task'[d] = task[d]
           /\ task'[c].op = task[c].op /\ task'[c].name = task[c].name
           /\ task'[c].pc = pc /\ task'[c].id = task[c].id
BY DEF Types, Goes, Tasks

\* As GoesTo, with the id that the step found out.
LEMMA TakesTo ==
    ASSUME Types, NEW c \in Clients, NEW pc \in Pcs, NEW id \in Nat, Takes(c, pc, id)
    PROVE  /\ task' \in [Clients -> Tasks] /\ UNCHANGED holder
           /\ \A d \in Clients \ {c} : task'[d] = task[d]
           /\ task'[c].op = task[c].op /\ task'[c].name = task[c].name
           /\ task'[c].pc = pc /\ task'[c].id = id
BY Zenon DEF Types, Takes, Tasks

\* As GoesTo, for a request that ends.
LEMMA EndsIdle ==
    ASSUME Types, NEW c \in Clients, Ends(c)
    PROVE  /\ task' \in [Clients -> Tasks] /\ holder' = None
           /\ \A d \in Clients \ {c} : task'[d] = task[d]
           /\ task'[c] = Idle
BY IdleTask DEF Types, Ends
\* A client that goes idle promises nothing.
LEMMA IdleNext == ASSUME NEW c, task'[c] = Idle PROVE ClientInv(c)'
BY DEF Idle, ClientInv, Past, CreateInv, DeleteInv, StartInv, At, Name

\* Whatever happens to the rest, a client before its guard has promised nothing.
LEMMA BeforeGuard ==
    ASSUME NEW d \in Clients, ClientInv(d), ~Past(d), task'[d] = task[d]
    PROVE  ClientInv(d)'
BY DEF ClientInv, Past, CreateInv, DeleteInv, StartInv, At, Name

\* The other clients keep what they promised while the holder of the guard moves.
LEMMA Alone ==
    ASSUME NamedInv, NEW c \in Clients, holder = c,
           \A d \in Clients \ {c} : task'[d] = task[d]
    PROVE  \A d \in Clients \ {c} : ~Past(d) /\ ClientInv(d)'
<1>1. \A d \in Clients \ {c} : ClientInv(d) /\ ~Past(d)
  BY DEF NamedInv, ClientInv
<1> QED BY <1>1, BeforeGuard

\* Nobody but the holder waits for a process to come up.
LEMMA NoStart ==
    ASSUME NamedInv, NEW c \in Clients, holder = c, task[c].op # "start"
    PROVE  proc # None => \E n \in Names : named[n] = proc /\ account[n] = proc
BY DEF NamedInv, ClientInv, ProcInv, Past, At

\* create: the check, the command and the save.
LEMMA CreateKeeps ==
    ASSUME Numbered, NamedInv, NEW c \in Clients, create(c) \/ CreateRuns(c) \/ CreateSaves(c)
    PROVE  NamedInv'
<1>0. holder = c /\ task[c].op = "create" /\ Name(c) \in Names /\ Types /\ ClientInv(c)
  BY Zenon DEF NamedInv, ClientInv, Past, create, CreateRuns, CreateSaves, At
<1>p. proc # None => \E n \in Names : named[n] = proc /\ account[n] = proc
  BY <1>0, NoStart
<1>1. CASE create(c)
  <2>1. CASE Ends(c)
    <3>1. Types' /\ \A d \in Clients : ClientInv(d)'
      BY <1>0, <1>1, <2>1, EndsIdle, Alone, IdleNext DEF create, cloud, config, login, Types
    <3> QED BY <1>1, <1>p, <3>1 DEF NamedInv, ProcInv, OneTunnel, create, cloud, config
  <2>2. CASE Goes(c, "run") /\ \A n \in Names \ {Name(c)} : named[n] = None
    <3>1. Types' /\ \A d \in Clients \ {c} : ClientInv(d)'
      BY <1>0, <1>1, <2>2, GoesTo, Alone DEF create, cloud, config, login, Types, Pcs
    <3>2. ClientInv(c)'
      BY <1>0, <1>1, <2>2, GoesTo
         DEF create, cloud, config, Pcs, ClientInv, Past, CreateInv, DeleteInv, StartInv, At, Name
    <3> QED BY <1>1, <1>p, <3>1, <3>2 DEF NamedInv, ProcInv, OneTunnel, create, cloud, config
  <2> QED BY <1>1, <2>1, <2>2 DEF create
<1>2. CASE CreateRuns(c)
  <2>0. /\ At(c, "create", "run") /\ UNCHANGED <<config, proc, login>>
        /\ \A n \in Names \ {Name(c)} : named[n] = None
    BY <1>0, <1>2 DEF CreateRuns, ClientInv, CreateInv
  <2>1. ASSUME NEW w \in BOOLEAN, Makes(c, made + 1, w) PROVE proc = None
    BY <1>p, <2>0, <2>1 DEF Makes
  <2>2. CASE Makes(c, made + 1, TRUE) /\ Takes(c, "save", made + 1)
    <3>1. Types' /\ \A d \in Clients \ {c} : ClientInv(d)'
      BY <1>0, <2>0, <2>2, TakesTo, Alone DEF Makes, config, login, Types, Pcs
    <3>2. /\ UNCHANGED holder /\ task'[c].id = made + 1 /\ made + 1 # None
          /\ task'[c].op = "create" /\ task'[c].pc = "save" /\ task'[c].name = task[c].name
      BY <1>0, <2>2, TakesTo DEF Types, Pcs, None
    <3>3. proc' = None /\ UNCHANGED named
      BY Zenon, <2>0, <2>1, <2>2 DEF config
    <3>4. ClientInv(c)'
      BY <1>0, <2>0, <3>2, <3>3
         DEF ClientInv, Past, CreateInv, DeleteInv, StartInv, At, Name
    <3> QED BY Zenon, <2>0, <2>1, <2>2, <3>1, <3>4 DEF NamedInv, ProcInv, OneTunnel, config
  <2>3. ASSUME NEW w \in BOOLEAN, Makes(c, made + 1, w), Ends(c) PROVE NamedInv'
    <3>1. Types' /\ \A d \in Clients : ClientInv(d)'
      BY <1>0, <2>0, <2>3, EndsIdle, Alone, IdleNext DEF Makes, config, login, Types
    <3> QED BY <2>0, <2>1, <2>3, <3>1 DEF NamedInv, ProcInv, OneTunnel, config
  <2>4. CASE Ends(c) /\ UNCHANGED cloud
    <3>1. Types' /\ \A d \in Clients : ClientInv(d)'
      BY <1>0, <2>0, <2>4, EndsIdle, Alone, IdleNext DEF cloud, config, login, Types
    <3> QED BY <1>p, <2>0, <2>4, <3>1 DEF NamedInv, ProcInv, OneTunnel, config, cloud
  <2> QED BY Zenon, <1>2, <2>2, <2>3, <2>4 DEF CreateRuns
<1>3. CASE CreateSaves(c)
  <2>1. /\ proc = None /\ proc' = None /\ Ends(c) /\ UNCHANGED <<cloud, login>>
        /\ \A n \in Names \ {Name(c)} : named[n] = None
    BY <1>0, <1>3 DEF CreateSaves, ClientInv, CreateInv
  <2>2. /\ named' \in [Names -> Nat]
        /\ \A n \in Names \ {Name(c)} : named'[n] = None
    BY <1>0, <1>3, <2>1 DEF CreateSaves, Types, Tasks
  <2>3. Types' /\ \A d \in Clients : ClientInv(d)'
    BY <1>0, <2>1, <2>2, EndsIdle, Alone, IdleNext DEF cloud, login, Types
  <2>4. OneTunnel'
    BY <2>2 DEF OneTunnel
  <2> QED BY <2>1, <2>3, <2>4 DEF NamedInv, ProcInv
<1> QED BY <1>1, <1>2, <1>3
\* delete: the check, the stop, the command and the save.
LEMMA DeleteKeeps ==
    ASSUME Numbered, NamedInv, NEW c \in Clients,
           delete(c) \/ DeleteStops(c) \/ DeleteRuns(c) \/ DeleteSaves(c)
    PROVE  NamedInv'
<1>0. holder = c /\ task[c].op = "delete" /\ Name(c) \in Names /\ Types /\ ClientInv(c)
  BY DEF NamedInv, ClientInv, Past, delete, DeleteStops, DeleteRuns, DeleteSaves, At
<1>p. proc # None => \E n \in Names : named[n] = proc /\ account[n] = proc
  BY <1>0, NoStart
<1>1. CASE delete(c)
  <2>1. CASE Ends(c)
    <3>1. Types' /\ \A d \in Clients : ClientInv(d)'
      BY <1>0, <1>1, <2>1, EndsIdle, Alone, IdleNext DEF delete, cloud, config, login, Types
    <3> QED BY <1>1, <1>p, <3>1 DEF NamedInv, ProcInv, OneTunnel, delete, cloud, config
  <2>2. CASE Goes(c, "stop")
    <3>1. Types' /\ \A d \in Clients \ {c} : ClientInv(d)'
      BY <1>0, <1>1, <2>2, GoesTo, Alone DEF delete, cloud, config, login, Types, Pcs
    <3>2. ClientInv(c)'
      BY <1>0, <2>2, GoesTo
         DEF Pcs, ClientInv, Past, CreateInv, DeleteInv, StartInv, At, Name
    <3> QED BY <1>1, <1>p, <3>1, <3>2 DEF NamedInv, ProcInv, OneTunnel, delete, cloud, config
  <2> QED BY <1>1, <2>1, <2>2 DEF delete
<1>2. CASE DeleteStops(c)
  <2>1. CASE proc' = None /\ Ends(c)
    <3>1. Types' /\ \A d \in Clients : ClientInv(d)'
      BY <1>0, <1>2, <2>1, EndsIdle, Alone, IdleNext DEF DeleteStops, cloud, config, login, Types, None
    <3> QED BY <1>2, <2>1, <3>1 DEF NamedInv, ProcInv, OneTunnel, DeleteStops, cloud, config
  <2>2. CASE proc' = None /\ Goes(c, "run")
    <3>1. Types' /\ \A d \in Clients \ {c} : ClientInv(d)'
      BY <1>0, <1>2, <2>2, GoesTo, Alone DEF DeleteStops, cloud, config, login, Types, Pcs, None
    <3>2. ClientInv(c)'
      BY <1>0, <2>2, GoesTo
         DEF Pcs, ClientInv, Past, CreateInv, DeleteInv, StartInv, At, Name
    <3> QED BY <1>2, <2>2, <3>1, <3>2 DEF NamedInv, ProcInv, OneTunnel, DeleteStops, cloud, config
  <2> QED BY <1>2, <2>1, <2>2 DEF DeleteStops
<1>3. CASE DeleteRuns(c)
  <2>0. /\ proc = None /\ proc' = None /\ UNCHANGED <<made, config, login>>
        /\ account' \in [Names -> Nat] /\ creds' \in [Names -> Nat]
    BY <1>0, <1>3 DEF DeleteRuns, ClientInv, DeleteInv, Unmakes, Types, None
  <2>1. CASE Ends(c)
    <3>1. Types' /\ \A d \in Clients : ClientInv(d)'
      BY <1>0, <2>0, <2>1, EndsIdle, Alone, IdleNext DEF config, login, Types
    <3> QED BY <2>0, <3>1 DEF NamedInv, ProcInv, OneTunnel, config
  <2>2. CASE Unmakes(c) /\ Goes(c, "save")
    <3>1. Types' /\ \A d \in Clients \ {c} : ClientInv(d)'
      BY <1>0, <2>0, <2>2, GoesTo, Alone DEF config, login, Types, Pcs
    <3>2. account'[Name(c)] = None
      BY <1>0, <2>2 DEF Unmakes, Types
    <3>3. /\ UNCHANGED holder /\ task'[c].op = "delete" /\ task'[c].pc = "save"
          /\ task'[c].name = task[c].name
      BY <1>0, <2>2, GoesTo DEF Pcs
    <3>4. ClientInv(c)'
      BY <1>0, <2>0, <3>2, <3>3
         DEF ClientInv, Past, CreateInv, DeleteInv, StartInv, At, Name
    <3> QED BY <2>0, <3>1, <3>4 DEF NamedInv, ProcInv, OneTunnel, config
  <2> QED BY <1>3, <2>1, <2>2 DEF DeleteRuns
<1>4. CASE DeleteSaves(c)
  <2>1. /\ proc' = None /\ Ends(c) /\ UNCHANGED <<cloud, login>>
        /\ named' \in [Names -> Nat]
        /\ \A n \in Names : named'[n] \in {named[n], None}
    BY <1>0, <1>4 DEF DeleteSaves, ClientInv, DeleteInv, config, Types, None
  <2>2. Types' /\ \A d \in Clients : ClientInv(d)'
    BY <1>0, <2>1, EndsIdle, Alone, IdleNext DEF cloud, login, Types, None
  <2> QED BY <2>1, <2>2 DEF NamedInv, ProcInv, OneTunnel
<1> QED BY <1>1, <1>2, <1>3, <1>4

\* start: the check, the stop, the process and its way to Cloudflare.
LEMMA StartKeeps ==
    ASSUME Numbered, NamedInv, NEW c \in Clients,
           start(c) \/ StartStops(c) \/ StartRuns(c) \/ StartReady(c)
    PROVE  NamedInv'
<1>0. /\ holder = c /\ task[c].op = "start" /\ Types /\ ClientInv(c) /\ UNCHANGED <<cloud, config, login>>
      /\ \A d \in Clients \ {c} : ~Past(d)
  BY Zenon DEF NamedInv, ClientInv, Past, start, StartStops, StartRuns, StartReady, At
<1>p. task[c].pc # "ready" /\ proc # None => \E n \in Names : named[n] = proc /\ account[n] = proc
  BY <1>0 DEF NamedInv, ProcInv, Past, At
<1>e. ASSUME Ends(c), proc' \in Nat, proc' # None => \E n \in Names : named[n] = proc' /\ account[n] = proc'
      PROVE NamedInv'
  <2>1. Types' /\ \A d \in Clients : ClientInv(d)'
    BY <1>0, <1>e, EndsIdle, Alone, IdleNext DEF cloud, config, login, Types
  <2> QED BY <1>0, <1>e, <2>1 DEF NamedInv, ProcInv, OneTunnel, cloud, config
<1>1. CASE start(c)
  <2>1. CASE Ends(c)
    BY <1>0, <1>1, <1>p, <1>e, <2>1 DEF start, At, Types
  <2>2. ASSUME NEW n \in Names, UNCHANGED holder,
               task' = [task EXCEPT ![c].name = n, ![c].pc = "stop", ![c].id = named[n]]
        PROVE  NamedInv'
    <3>0. n \in Nat /\ named[n] \in Nat
      BY <1>0 DEF Numbered, Types
    <3>1. /\ task' \in [Clients -> Tasks]
          /\ \A d \in Clients \ {c} : task'[d] = task[d]
          /\ task'[c].op = "start" /\ task'[c].name = n
          /\ task'[c].pc = "stop" /\ task'[c].id = named[n]
      BY Zenon, <1>0, <2>2, <3>0 DEF Types, Tasks, Pcs
    <3>2. Types' /\ \A d \in Clients \ {c} : ClientInv(d)'
      BY Zenon, <1>0, <1>1, <3>1, Alone DEF start, cloud, config, login, Types
    <3>3. ClientInv(c)'
      BY <1>0, <2>2, <3>1
         DEF config, ClientInv, Past, CreateInv, DeleteInv, StartInv, At, Name
    <3> QED BY Zenon, <1>0, <1>1, <1>p, <3>2, <3>3 DEF start, At, NamedInv, ProcInv, OneTunnel, cloud, config
  <2> QED BY Zenon, <1>1, <2>1, <2>2 DEF start
<1>2. CASE StartStops(c)
  <2>1. CASE proc' = None /\ Ends(c)
    BY <1>e, <2>1 DEF None
  <2>2. CASE proc' = None /\ Goes(c, "run")
    <3>1. Types' /\ \A d \in Clients \ {c} : ClientInv(d)'
      BY <1>0, <2>2, GoesTo, Alone DEF cloud, config, login, Types, Pcs, None
    <3>2. ClientInv(c)'
      BY <1>0, <1>2, <2>2, GoesTo
         DEF StartStops, config, Pcs, ClientInv, Past, CreateInv, DeleteInv, StartInv, At, Name
    <3> QED BY <1>0, <2>2, <3>1, <3>2 DEF NamedInv, ProcInv, OneTunnel, config
  <2> QED BY <1>2, <2>1, <2>2 DEF StartStops
<1>3. CASE StartRuns(c)
  <2>1. CASE Ends(c) /\ UNCHANGED proc
    BY <1>0, <1>3, <1>p, <1>e, <2>1 DEF StartRuns, At, Types
  <2>2. CASE proc' = task[c].id /\ Goes(c, "ready")
    <3>1. Types' /\ \A d \in Clients \ {c} : ClientInv(d)'
      BY <1>0, <2>2, GoesTo, Alone DEF cloud, config, login, Types, Pcs, Tasks
    <3>2. /\ UNCHANGED holder /\ task'[c].op = "start" /\ task'[c].pc = "ready"
          /\ task'[c].name = task[c].name /\ task'[c].id = task[c].id
      BY <1>0, <2>2, GoesTo DEF Pcs
    <3>3. ClientInv(c)'
      BY <1>0, <1>3, <2>2, <3>2
         DEF StartRuns, config, ClientInv, Past, CreateInv, DeleteInv, StartInv, At, Name
    <3> QED BY <1>0, <3>1, <3>2, <3>3 DEF NamedInv, ProcInv, OneTunnel, config, At
  <2> QED BY <1>3, <2>1, <2>2 DEF StartRuns
<1>4. CASE StartReady(c)
  <2>1. Ends(c) /\ proc' \in Nat
    BY <1>0, <1>4 DEF StartReady, Types, None
  <2>2. proc' # None => proc' = task[c].id /\ proc' = account[Name(c)]
    BY <1>0, <1>4 DEF StartReady, ClientInv, StartInv
  <2>3. Name(c) \in Names /\ named[Name(c)] = task[c].id
    BY <1>0, <1>4 DEF StartReady, ClientInv, StartInv, At
  <2> QED BY <1>e, <2>1, <2>2, <2>3
<1> QED BY <1>1, <1>2, <1>3, <1>4
\* The steps of a client that leave tunnel, record and process alone.
LEMMA QuietKeeps ==
    ASSUME NamedInv, NEW c \in Clients, UNCHANGED <<cloud, config, proc>>, cert' \in Nat,
           task' \in [Clients -> Tasks], ~Past(c)',
           \A d \in Clients \ {c} : task'[d] = task[d] /\ ClientInv(d)',
           task'[c].op \in {"create", "delete"} => task'[c].name \in Names,
           ~At(c, "start", "ready")
    PROVE  NamedInv'
<1>1. ClientInv(c)'
  BY DEF ClientInv, Past, CreateInv, DeleteInv, StartInv, At, Name
<1>2. ProcInv'
  BY DEF NamedInv, ProcInv, cloud, config, At
<1> QED BY <1>1, <1>2 DEF NamedInv, Types, OneTunnel, cloud, config

\* A client that keeps its task keeps its promises while the rest stands still.
LEMMA Still ==
    ASSUME NamedInv, NEW c \in Clients, UNCHANGED <<cloud, config, proc, holder>>,
           \A d \in Clients \ {c} : task'[d] = task[d]
    PROVE  \A d \in Clients \ {c} : ClientInv(d)'
BY DEF NamedInv, ClientInv, Past, CreateInv, DeleteInv, StartInv, At, Name, cloud, config

\* A request that arrives waits for the guard.
LEMMA AsksKeeps ==
    ASSUME Numbered, NamedInv, NEW c \in Clients, NEW op \in Ops \ {"idle"}, NEW n \in Names \cup {None},
           op \in {"create", "delete"} => n \in Names, Asks(c, op, n)
    PROVE  NamedInv'
<1>1. Types /\ n \in Nat /\ task[c] = Idle
  BY DEF NamedInv, Numbered, None, Asks
<1>2. [op |-> op, name |-> n, pc |-> "wait", id |-> None] \in Tasks
  BY <1>1 DEF Tasks, Pcs, None
<1>3. /\ task' \in [Clients -> Tasks]
      /\ \A d \in Clients \ {c} : task'[d] = task[d]
      /\ task'[c].op = op /\ task'[c].name = n /\ task'[c].pc = "wait"
  BY <1>1, <1>2 DEF Asks, Types
<1>4. UNCHANGED <<cloud, config, proc, holder>> /\ cert' \in Nat
  BY <1>1 DEF Asks, Types, login
<1>5. ~Past(c)' /\ ~At(c, "start", "ready")
  BY <1>1, <1>3 DEF Past, At, Idle
<1> QED BY <1>3, <1>4, <1>5, Still, QuietKeeps

\* A request takes the guard when nobody has it.
LEMMA LocksKeeps == ASSUME Numbered, NamedInv, NEW c \in Clients, Locks(c) PROVE NamedInv'
<1>0. Types /\ UNCHANGED <<cloud, config, proc, login>> /\ holder' = c /\ task[c].pc = "wait"
  BY DEF NamedInv, Locks
<1>1. \A d \in Clients : ~Past(d) /\ ClientInv(d)
  BY DEF Locks, NamedInv, ClientInv, Numbered
<1>2. /\ task' \in [Clients -> Tasks]
      /\ \A d \in Clients \ {c} : task'[d] = task[d]
      /\ task'[c].op = task[c].op /\ task'[c].name = task[c].name /\ task'[c].pc = "check"
  BY <1>0 DEF Locks, Types, Tasks, Pcs
<1>3. \A d \in Clients \ {c} : ClientInv(d)'
  BY <1>1, <1>2, BeforeGuard
<1>4. ClientInv(c)'
  BY <1>0, <1>1, <1>2 DEF ClientInv, Past, CreateInv, DeleteInv, StartInv, At, Name
<1>5. ProcInv'
  BY <1>0, <1>1 DEF NamedInv, ProcInv, Past, At, cloud, config
<1> QED BY <1>0, <1>2, <1>3, <1>4, <1>5 DEF NamedInv, Types, OneTunnel, cloud, config, login

\* A login changes the certificate only.
LEMMA LoginKeeps == ASSUME Numbered, NamedInv, NEW c \in Clients, login_streamed(c) PROVE NamedInv'
<1>1. holder = c /\ Types /\ Ends(c) /\ UNCHANGED <<cloud, config, proc>> /\ ~At(c, "start", "ready")
  BY DEF NamedInv, ClientInv, Past, login_streamed, At
<1>2. cert' \in Nat
  BY <1>1 DEF login_streamed, Types
<1>3. ~Past(c)' /\ task'[c].op = "idle"
  BY <1>1, EndsIdle DEF Past, Idle
<1> QED BY <1>1, <1>2, <1>3, EndsIdle, Alone, QuietKeeps

\* A listing reads without the guard and changes the zone cache only.
LEMMA ListKeeps ==
    ASSUME Numbered, NamedInv, NEW c \in Clients, list(c) \/ ReadPem(c) \/ Fetched(c)
    PROVE  NamedInv'
<1>1. /\ Types /\ UNCHANGED <<cloud, config, proc, holder, cert>> /\ task[c].op = "list"
      /\ cert' \in Nat
  BY DEF NamedInv, Types, list, ReadPem, Fetched, At, Takes, login
<1>2. /\ task' \in [Clients -> Tasks]
      /\ \A d \in Clients \ {c} : task'[d] = task[d]
      /\ task'[c].op \in {"idle", "list"}
  <2>1. CASE task' = [task EXCEPT ![c] = Idle]
    BY <1>1, <2>1, IdleTask DEF Types, Idle
  <2>2. CASE Takes(c, "pem", cert)
    BY <1>1, <2>2, TakesTo DEF Types, Pcs
  <2>3. CASE task' = [task EXCEPT ![c].pc = "fetch", ![c].name = cert]
    BY Zenon, <1>1, <2>3 DEF Types, Tasks, Pcs
  <2> QED BY <2>1, <2>2, <2>3 DEF list, ReadPem, Fetched
<1>3. ~Past(c)' /\ ~At(c, "start", "ready")
  BY <1>1, <1>2 DEF Past, At
<1> QED BY <1>1, <1>2, <1>3, Still, QuietKeeps

\* A process that goes away breaks no promise.
LEMMA StopKeeps == ASSUME NamedInv, stop PROVE NamedInv'
<1>1. Types' /\ ProcInv' /\ OneTunnel'
  BY DEF NamedInv, Types, ProcInv, OneTunnel, stop, cloud, config, login, None
<1>2. \A c \in Clients : ClientInv(c)'
  BY DEF NamedInv, ClientInv, Past, CreateInv, DeleteInv, StartInv, At, Name, stop, cloud, config
<1> QED BY <1>1, <1>2 DEF NamedInv

\* A hostname is not part of the invariant; a crash ends every request.
LEMMA RestKeeps ==
    ASSUME Numbered, NamedInv, stop \/ (\E s \in Sites : set_site_hostname(s)) \/ Crash \/ UNCHANGED vars
    PROVE  NamedInv'
<1>1. CASE (\E s \in Sites : set_site_hostname(s)) \/ UNCHANGED vars
  <2>1. UNCHANGED <<account, creds, named, proc, cert, holder, task, made>>
    BY <1>1 DEF set_site_hostname, vars, cloud, login
  <2> QED BY <2>1 DEF NamedInv, Types, ProcInv, OneTunnel, ClientInv, Past, CreateInv, DeleteInv,
               StartInv, At, Name
<1>2. CASE Crash
  <2>1. \A c \in Clients : task'[c] = Idle
    BY <1>2 DEF Crash
  <2>2. Types' /\ ProcInv' /\ OneTunnel'
    BY <1>2, IdleTask DEF NamedInv, Types, ProcInv, OneTunnel, Crash, cloud, config, None
  <2> QED BY <2>1, <2>2, IdleNext DEF NamedInv
<1> QED BY <1>1, <1>2, StopKeeps

\* Every step keeps the invariant.
LEMMA NamedKeeps == ASSUME Numbered, NamedInv, [Next]_vars PROVE NamedInv'
<1>1. ASSUME NEW c \in Clients, NEW op \in {"create", "delete"}, NEW n \in Names, Asks(c, op, n)
      PROVE  NamedInv'
  BY <1>1, AsksKeeps DEF Ops
<1>2. ASSUME NEW c \in Clients, NEW op \in {"start", "login", "list"}, Asks(c, op, None)
      PROVE  NamedInv'
  BY <1>2, AsksKeeps DEF Ops
<1> QED BY <1>1, <1>2, LocksKeeps, CreateKeeps, DeleteKeeps, StartKeeps, LoginKeeps, ListKeeps, RestKeeps
        DEF Next

\* Only a delete that ran to its end forgets a tunnel.
LEMMA Forgets == ASSUME Numbered, NamedInv, [Next]_vars PROVE DeletedIsGone
<1> SUFFICES ASSUME NEW n \in Names, named[n] # None, named'[n] = None
             PROVE  proc' = None /\ account'[n] # named[n] /\ sites' = {}
  BY DEF DeletedIsGone
<1>1. PICK c \in Clients : CreateSaves(c) \/ DeleteSaves(c)
  BY Zenon DEF Next, vars, Asks, Locks, create, CreateRuns, delete, DeleteStops, DeleteRuns, start, StartStops,
         StartRuns, StartReady, login_streamed, list, ReadPem, Fetched, stop, set_site_hostname, Crash, config
<1>2. ClientInv(c) /\ Types
  BY DEF NamedInv
<1>3. CASE CreateSaves(c)
  BY <1>2, <1>3 DEF CreateSaves, ClientInv, CreateInv, Types, None
<1>4. CASE DeleteSaves(c)
  <2>1. n = Name(c) /\ sites' = {}
    BY <1>2, <1>4 DEF DeleteSaves, config, Types
  <2>2. proc' = None /\ account'[Name(c)] = None
    BY <1>2, <1>4 DEF DeleteSaves, ClientInv, DeleteInv, cloud
  <2> QED BY <2>1, <2>2
<1> QED BY <1>1, <1>3, <1>4

\* For any number of requests, names, tunnels and logins: one tunnel is recorded, the
\* process that runs is that of the recorded tunnel, and a tunnel is forgotten only once
\* it is gone (tunnel/named.rs under tunnel_mutate).
THEOREM NamedTunnelsWhole ==
    ASSUME Numbered
    PROVE  Spec => [](OneTunnel /\ RunsRecorded) /\ [][DeletedIsGone]_vars
<1>1. Init => NamedInv
  BY NamedInit
<1>2. NamedInv /\ [Next]_vars => NamedInv' /\ DeletedIsGone
  BY NamedKeeps, Forgets
<1>3. NamedInv => OneTunnel /\ RunsRecorded
  <2> SUFFICES ASSUME NamedInv, proc # None PROVE \E n \in Names : named[n] = proc
    BY DEF NamedInv, RunsRecorded
  <2>1. ASSUME NEW c \in Clients, At(c, "start", "ready")
        PROVE  Name(c) \in Names /\ named[Name(c)] = proc
    BY <2>1 DEF NamedInv, ClientInv, StartInv, At
  <2> QED BY <2>1 DEF NamedInv, ProcInv
<1> QED BY <1>1, <1>2, <1>3, PTL DEF Spec
=============================================================================
