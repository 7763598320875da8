----------------------------- MODULE RemoteSetup -----------------------------
(***************************************************************************)
(* The one-time code that lets a device fetch the LAN installer script:    *)
(* minting and LAN switching (orckerd/src/ipc_server.rs), redeeming        *)
(* (lan_setup.rs) and the listener that start-up binds (lib.rs).           *)
(*                                                                         *)
(* Minting and switching run under the config lock, redeeming only under   *)
(* the code's own lock.  The listener lives as long as the process: it     *)
(* outlasts a switch to off.                                               *)
(***************************************************************************)
EXTENDS Naturals

CONSTANTS
    Clients,    \* IPC connections that mint and switch
    TTL,        \* the life of a code, in ticks of the clock
    MAX_CONNS,  \* connections the listener serves at a time
    MaxCodes,   \* bound: codes minted
    MaxClock    \* bound: ticks

VARIABLES
    lan,        \* config.lan_enabled, in memory and on disk
    bound,      \* lan_setup_bound: this process serves the script
    code,       \* remote_setup_code: [value, expires_at, used], value 0 for None
    holder,     \* who holds the config lock: a client or "free"
    task,       \* [Clients -> what the client is in the middle of]
    clock,
    minted,     \* codes minted so far; a value is never drawn twice
    conns,      \* connections being served
    fetched     \* history: how often the script was served for each code

vars == <<lan, bound, code, holder, task, clock, minted, conns, fetched>>

NoCode == [value |-> 0, expires_at |-> 0, used |-> FALSE]

Lock(c) == holder = "free" /\ holder' = c
Unlock == holder' = "free"

\* mint_remote_setup_code: the lock and the checks, then the new code.
MintBegins_unlocked(c) ==
    /\ task[c] = "idle" /\ minted < MaxCodes
    /\ lan /\ bound
    /\ holder = "free" /\ holder' = holder
    /\ task' = [task EXCEPT ![c] = "minting"]
    /\ UNCHANGED <<lan, bound, code, clock, minted, conns, fetched>>
MintBegins(c) ==
    /\ task[c] = "idle" /\ minted < MaxCodes
    /\ lan /\ bound
    /\ Lock(c)
    /\ task' = [task EXCEPT ![c] = "minting"]
    /\ UNCHANGED <<lan, bound, code, clock, minted, conns, fetched>>
Mint(c) ==
    /\ task[c] = "minting"
    /\ minted' = minted + 1
    /\ code' = [value |-> minted + 1, expires_at |-> clock + TTL, used |-> FALSE]
    /\ task' = [task EXCEPT ![c] = "idle"]
    /\ Unlock
    /\ UNCHANGED <<lan, bound, clock, conns, fetched>>

\* set_lan_enabled: save and publish, then revoke, then let go of the lock.
SwitchBegins(c, enabled) ==
    /\ task[c] = "idle"
    /\ Lock(c)
    /\ lan' = enabled
    /\ task' = [task EXCEPT ![c] = IF enabled THEN "enabling" ELSE "disabling"]
    /\ UNCHANGED <<bound, code, clock, minted, conns, fetched>>

Switch(c) ==
    /\ task[c] \in {"enabling", "disabling"}
    /\ code' = IF task[c] = "disabling" THEN NoCode ELSE code
    /\ task' = [task EXCEPT ![c] = "idle"]
    /\ Unlock
    /\ UNCHANGED <<lan, bound, clock, minted, conns, fetched>>

\* serve: a peer outside the local network, or one too many, is dropped at accept.
Accept(is_lan_source) ==
    /\ bound
    /\ is_lan_source /\ conns < MAX_CONNS
    /\ conns' = conns + 1
    /\ UNCHANGED <<lan, bound, code, holder, task, clock, minted, fetched>>

\* A connection closed by its peer, or dropped after CONN_TIMEOUT, frees its place.
Hangup ==
    /\ conns > 0 /\ conns' = conns - 1
    /\ UNCHANGED <<lan, bound, code, holder, task, clock, minted, fetched>>

\* A request as decide sees it: its method and path, and the first non-empty code of its
\* query, 0 for none.
Requests == [is_get : BOOLEAN, path : {"/remote-setup", "other"}, code : 0 .. MaxCodes]

classify(path) == IF path = "/remote-setup" THEN "Script" ELSE "NotFound"

\* consume_code: a mismatch changes nothing.
consume_code(v) == code.value = v /\ ~code.used /\ clock < code.expires_at

\* decide: the script, or the status of the refusal.
decide(req) ==
    CASE ~req.is_get -> 405
      [] req.is_get /\ classify(req.path) = "NotFound" -> 404
      [] req.is_get /\ classify(req.path) = "Script" ->
           IF req.code # 0 /\ consume_code(req.code) THEN 200 ELSE 403

\* handle_request on an open connection: a match spends the code and serves the script.
Handle(req) ==
    /\ conns > 0
    /\ decide(req) = 200
    /\ code' = [code EXCEPT !.used = TRUE]
    /\ fetched' = [fetched EXCEPT ![req.code] = @ + 1]
    /\ UNCHANGED <<lan, bound, holder, task, clock, minted, conns>>

\* The process ends and a new one starts on the saved configuration.  The
\* listener is bound if LAN is on and the port is free.
Restart ==
    /\ bound' \in {b \in BOOLEAN : b => lan}
    /\ code' = NoCode
    /\ holder' = "free"
    /\ task' = [c \in Clients |-> "idle"]
    /\ conns' = 0
    /\ UNCHANGED <<lan, clock, minted, fetched>>

Tick ==
    /\ clock < MaxClock
    /\ clock' = clock + 1
    /\ UNCHANGED <<lan, bound, code, holder, task, minted, conns, fetched>>

Init ==
    /\ lan \in BOOLEAN
    /\ bound \in {b \in BOOLEAN : b => lan}
    /\ code = NoCode
    /\ holder = "free"
    /\ task = [c \in Clients |-> "idle"]
    /\ clock = 0 /\ minted = 0 /\ conns = 0
    /\ fetched = [v \in 1 .. MaxCodes |-> 0]

Next ==
    \/ \E c \in Clients :
         MintBegins(c) \/ Mint(c) \/ Switch(c) \/ \E e \in BOOLEAN : SwitchBegins(c, e)
    \/ \E p \in BOOLEAN : Accept(p)
    \/ Hangup
    \/ \E req \in Requests : Handle(req)
    \/ Restart \/ Tick

Spec == Init /\ [][Next]_vars

\* Once LAN mode is off no code is live, whatever mints, switches, fetches and
\* restarts interleave (set_lan_enabled: a mint cannot "store a live code
\* *after* disablement completed"), and no code ever serves the script twice.
CodeLiveOnlyWhileOn ==
    /\ ~lan /\ holder = "free" => code = NoCode
    /\ \A v \in DOMAIN fetched : fetched[v] <= 1
=============================================================================
