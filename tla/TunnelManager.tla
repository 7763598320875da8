---------------------------- MODULE TunnelManager ----------------------------
(***************************************************************************)
(* The supervisor of one site's cloudflared child (orcker-tunnel's         *)
(* manager.rs and supervise/supervisor.rs) and the requests that drive it  *)
(* (orckerd/src/tunnel/mod.rs).                                            *)
(*                                                                         *)
(* A start request registers an instance and then calls advance once per   *)
(* tick, dropping the manager's lock in between.  Stop requests, other     *)
(* start requests and their drivers run in the gaps, all on the instance   *)
(* that the site has at that moment.  Every method of the manager holds    *)
(* the lock throughout, so it is one action.  Instances of other sites are *)
(* independent: one site is modelled.                                      *)
(***************************************************************************)
EXTENDS Naturals, FiniteSets

CONSTANTS
    Clients,                \* connections that start or stop the tunnel
    max_restart_attempts,   \* SupervisorPolicy::tunnel()
    Window,                 \* bound: readiness checks within the health-check window
    MaxRequests             \* bound: start requests

VARIABLES
    inst,       \* the site's Instance, or NoInstance
    procs,      \* the cloudflared processes that are alive
    log,        \* the process whose URL is in the site's logfile, 0 when none
    driver,     \* [Clients -> "idle", "driving", "failing"]
    spawned,    \* processes spawned so far; the next one's pid is one more
    requests    \* start requests so far

vars == <<inst, procs, log, driver, spawned, requests>>

NoInstance ==
    [state |-> "None", attempts |-> 0, pid |-> 0, pending |-> "None", child |-> 0,
     url |-> 0, checks |-> 0]

Registered(i) == i.state # "None"

-----------------------------------------------------------------------------
(* transition, for the events the manager feeds: it never feeds the stop   *)
(* events, a stop drops the instance.                                      *)

To(state, attempts, pid, action) ==
    [state |-> state, attempts |-> attempts, pid |-> pid, action |-> action]

transition(i) ==
    LET on(state, pending) == i.state = state /\ i.pending = pending IN
    CASE on("Stopped", "EnsureRequested") -> To("Starting", 1, 0, "Spawn")
      [] on("Starting", "SpawnSucceeded") -> To("Starting", i.attempts, i.child, "HealthCheck")
      [] on("Starting", "HealthCheckOk") /\ i.pid # 0 -> To("Running", 0, i.pid, "None")
      [] on("Starting", "HealthCheckTick") -> To("Starting", i.attempts, i.pid, "HealthCheck")
      [] on("Starting", "WindowElapsed") -> To("Starting", i.attempts, i.pid, "Kill")
      [] on("Starting", "Crashed") -> To("Failed", i.attempts, 0, "Backoff")
      [] on("Failed", "BackoffElapsed") /\ i.attempts < max_restart_attempts ->
            To("Starting", i.attempts + 1, 0, "Spawn")
      [] on("Failed", "BackoffElapsed") /\ i.attempts >= max_restart_attempts ->
            To("Failed", i.attempts, 0, "EmitError")
      [] OTHER -> To(i.state, i.attempts, i.pid, "None")

Moved(i, t) == [i EXCEPT !.state = t.state, !.attempts = t.attempts, !.pid = t.pid]

Drive(c, to) == driver' = [driver EXCEPT ![c] = to]

-----------------------------------------------------------------------------
(* advance, by the action that the transition asks for.                    *)

\* The logfile is truncated as the command is built.
build_cmd == log' = 0

\* Wait for a child that has been signalled, killing it after the grace period.
graceful_reap(p) == procs' = procs \ {p}

\* The logfile is truncated, then the child is spawned.
do_spawn_keeps_log(c, i) ==
    /\ log' = log
    /\ spawned' = spawned + 1
    /\ procs' = procs \cup {spawned + 1}
    /\ inst' = [i EXCEPT !.child = spawned + 1, !.pending = "SpawnSucceeded", !.checks = 0]
    /\ Drive(c, "driving")
do_spawn(c, i) ==
    /\ build_cmd
    /\ spawned' = spawned + 1
    /\ procs' = procs \cup {spawned + 1}
    /\ inst' = [i EXCEPT !.child = spawned + 1, !.pending = "SpawnSucceeded", !.checks = 0]
    /\ Drive(c, "driving")

\* The spawn fails: the instance keeps its child and its pending event.
SpawnFails(c, i) ==
    /\ build_cmd
    /\ inst' = i
    /\ Drive(c, "failing")
    /\ UNCHANGED <<spawned, procs>>

\* A crash first, then the logfile, then the time: the tick that sees the
\* window elapsed may be any, and is the Window-th at the latest.
do_health_check(c, i) ==
    LET crashed == i.child # 0 /\ i.child \notin procs IN
    /\ \/ crashed /\ inst' = [i EXCEPT !.child = 0, !.pending = "Crashed"]
       \/ ~crashed /\ log # 0 /\ inst' = [i EXCEPT !.url = log, !.pending = "HealthCheckOk"]
       \/ /\ ~crashed /\ log = 0
          /\ \E late \in {"HealthCheckTick", "WindowElapsed"} :
                /\ i.checks + 1 >= Window => late = "WindowElapsed"
                /\ inst' = [i EXCEPT !.pending = late, !.checks = @ + 1]
    /\ UNCHANGED <<log, spawned, procs, driver>>

\* Terminate the child, wait for it, and count it as crashed.
do_kill(c, i) ==
    /\ graceful_reap(i.child)
    /\ inst' = [i EXCEPT !.child = 0, !.pending = "Crashed"]
    /\ UNCHANGED <<log, spawned, driver>>

\* The child has exited and a status request has reaped it: the signal finds
\* no process group and advance fails.
KillFails(c, i) ==
    /\ i.child \notin procs
    /\ inst' = [i EXCEPT !.child = 0]
    /\ Drive(c, "failing")
    /\ UNCHANGED <<log, spawned, procs>>

Advance(c) ==
    /\ driver[c] = "driving"
    /\ Registered(inst)
    /\ UNCHANGED requests
    /\ LET t == transition(inst)
           i == Moved(inst, t)
       IN  \/ t.action = "Spawn" /\ (do_spawn(c, i) \/ SpawnFails(c, i))
           \/ t.action = "HealthCheck" /\ do_health_check(c, i)
           \/ t.action = "Kill" /\ (do_kill(c, i) \/ KillFails(c, i))
           \/ /\ t.action = "Backoff"
              /\ inst' = [i EXCEPT !.pending = "BackoffElapsed"]
              /\ UNCHANGED <<log, spawned, procs, driver>>
           \/ /\ t.action \in {"None", "EmitError"}
              /\ inst' = i
              /\ Drive(c, IF t.action = "None" /\ i.state = "Running" THEN "idle" ELSE "failing")
              /\ UNCHANGED <<log, spawned, procs>>

\* The instance was stopped meanwhile: the request is answered.
Gone(c) ==
    /\ driver[c] = "driving"
    /\ ~Registered(inst)
    /\ Drive(c, "idle")
    /\ UNCHANGED <<inst, procs, log, spawned, requests>>

-----------------------------------------------------------------------------
(* begin and stop.                                                         *)

\* An instance that is alive or in progress is left alone.
Busy(i) == Registered(i) /\ ((i.child # 0 /\ i.child \in procs) \/ i.state = "Starting")

begin(c) ==
    LET fresh == [NoInstance EXCEPT !.state = "Stopped", !.pending = "EnsureRequested"]
        first == Moved(fresh, transition(fresh))
    IN  /\ driver[c] = "idle"
        /\ requests < MaxRequests
        /\ requests' = requests + 1
        /\ \/ Busy(inst) /\ UNCHANGED <<inst, procs, log, driver, spawned>>
           \/ ~Busy(inst) /\ do_spawn(c, first)
           \/ ~Busy(inst) /\ inst' = NoInstance /\ log' = 0 /\ UNCHANGED <<procs, driver, spawned>>

\* Drop the instance, terminate its child and wait for it.  Where the signal
\* fails the dropped handle kills the child, and the state is the same.
stop ==
    /\ inst' = NoInstance
    /\ graceful_reap(inst.child)
    /\ UNCHANGED <<log, spawned, requests>>

StopTunnel(c) == driver[c] = "idle" /\ Registered(inst) /\ stop /\ UNCHANGED driver

\* The driver that got an error stops whatever the site has by then.
FailStop(c) == driver[c] = "failing" /\ stop /\ Drive(c, "idle")

-----------------------------------------------------------------------------
(* The child.                                                              *)

Exits(p) ==
    /\ procs' = procs \ {p}
    /\ UNCHANGED <<inst, log, driver, spawned, requests>>

Connects(p) ==
    /\ log = 0
    /\ log' = p
    /\ UNCHANGED <<inst, procs, driver, spawned, requests>>

Init ==
    /\ inst = NoInstance /\ procs = {} /\ log = 0
    /\ driver = [c \in Clients |-> "idle"]
    /\ spawned = 0 /\ requests = 0

Next ==
    \/ \E c \in Clients : begin(c) \/ Advance(c) \/ Gone(c) \/ FailStop(c) \/ StopTunnel(c)
    \/ \E p \in procs : Exits(p) \/ Connects(p)

\* A driver's loop goes on until it returns; the child owes nothing.
Fairness == \A c \in Clients : WF_vars(Advance(c) \/ Gone(c) \/ FailStop(c))

Spec == Init /\ [][Next]_vars /\ Fairness

-----------------------------------------------------------------------------
(* Properties.                                                             *)

\* A stop reaches every cloudflared and nothing is left half-started: the only
\* live process is the child of the registered instance, whatever requests
\* interleave, and an instance that nobody drives has been up (manager.rs,
\* begin: a start cannot "overwrite a still-running instance and spawn a
\* duplicate").
NothingLeftBehind ==
    /\ procs \subseteq {inst.child}
    /\ (\A c \in Clients : driver[c] = "idle") => inst.state \in {"None", "Running"}

\* The URL shown for a running tunnel was printed by the process that runs,
\* not by one before it (build_cmd: "a stale URL from a prior run is not
\* re-parsed").
UrlIsOwn == inst.state = "Running" => inst.url = inst.pid /\ inst.child = inst.pid

\* A start request has not been answered yet: run_to_ready still drives the instance,
\* which other requests may stop, replace or drive.
StartWaits(c) == driver[c] # "idle"
=============================================================================
