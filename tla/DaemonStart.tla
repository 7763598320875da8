------------------------------ MODULE DaemonStart ------------------------------
(***************************************************************************)
(* Starting the daemon from the desktop application.  The frontend         *)
(* (composables/useDaemonStart.ts over useDaemon.ts) keeps one phase for   *)
(* the whole application; the host (src-tauri/src/daemon.rs, autostart.rs) *)
(* walks a plan of steps, each under a time budget, and announces the      *)
(* phase of each step with an event; meanwhile one status poller decides   *)
(* whether the application is connected.                                   *)
(*                                                                         *)
(* JavaScript runs one piece of code at a time and switches at an await,   *)
(* so an action is the code between two awaits, with the watchers it       *)
(* triggers.  A call of start() whose phase another piece of code reset    *)
(* goes on after its await: two calls may overlap.                         *)
(***************************************************************************)
EXTENDS Naturals, Sequences

CONSTANTS Calls,     \* calls of start()
          Ceiling,   \* RUNNING_CEILING_MS in poll steps
          MaxFlips   \* how often the daemon comes up or goes down

VARIABLES up,         \* the daemon answers on its socket
          flips,
          probe,      \* useDaemon's tick in flight: "none", or what it will find
          connected,  \* "unknown", "yes" or "no"
          phase, accept, pending, diagnosed,
          call,       \* where each call of start() is
          poll,       \* the readiness poll: timer set, steps elapsed, ticks that
                      \* wait for their refresh, diagnoses it has asked for
          host,       \* the phases the host has still to announce for a call
          events      \* phase events on their way to the frontend

front == <<phase, accept, pending, diagnosed>>
vars == <<up, flips, probe, connected, front, call, poll, host, events>>

Phases == {"idle", "installing", "upgrading", "starting", "running"}
NoPoll == [armed |-> FALSE, elapsed |-> 0, ticks |-> 0, late |-> 0]

TypeOK ==
    /\ up \in BOOLEAN /\ flips \in 0 .. MaxFlips
    /\ probe \in {"none", "yes", "no"} /\ connected \in {"unknown", "yes", "no"}
    /\ phase \in Phases /\ accept \in BOOLEAN /\ pending \in BOOLEAN /\ diagnosed \in BOOLEAN
    /\ poll.elapsed \in 0 .. Ceiling /\ poll.ticks \in Nat /\ poll.late \in Nat

Init ==
    /\ up \in BOOLEAN /\ flips = 0
    /\ probe = "none" /\ connected = "unknown"
    /\ phase = "idle" /\ accept = FALSE /\ pending = FALSE /\ diagnosed = FALSE
    /\ call = [c \in Calls |-> "new"] /\ poll = NoPoll
    /\ host = [c \in Calls |-> <<>>] /\ events = <<>>

-----------------------------------------------------------------------------
(***************************************************************************)
(* useDaemon: one status request at a time; its answer sets connected, and *)
(* the watcher of connected clears what a start has shown.                 *)
(***************************************************************************)
Tick ==
    /\ probe = "none" /\ probe' = IF up THEN "yes" ELSE "no"
    /\ UNCHANGED <<up, flips, connected, front, call, poll, host, events>>

ClearPoll == poll' = [poll EXCEPT !.armed = FALSE]

\* The watcher runs on a change to "yes" only.
Answer ==
    /\ probe # "none" /\ probe' = "none" /\ connected' = probe
    /\ IF probe = "yes" /\ connected # "yes"
       THEN phase' = "idle" /\ accept' = FALSE /\ pending' = FALSE /\ diagnosed' = FALSE
            /\ ClearPoll
       ELSE UNCHANGED <<front, poll>>
    /\ UNCHANGED <<up, flips, call, host, events>>

-----------------------------------------------------------------------------
(***************************************************************************)
(* start() and what the host does for it.                                  *)
(***************************************************************************)
\* plan_start: an installation that is not current is installed or upgraded
\* first.
Plans == {<<"starting">>, <<"installing", "starting">>, <<"upgrading", "starting">>}

Goto(c, pc) == call' = [call EXCEPT ![c] = pc]

\* The guard on phase, reset(), and the call of startDaemon.
Start(c) ==
    /\ call[c] = "new"
    /\ IF phase # "idle"
       THEN Goto(c, "done") /\ UNCHANGED <<front, poll, host>>
       ELSE /\ Goto(c, "host") /\ ClearPoll
            /\ phase' = "starting" /\ accept' = TRUE /\ pending' = FALSE /\ diagnosed' = FALSE
            /\ \E p \in Plans : host' = [host EXCEPT ![c] = p]
    /\ UNCHANGED <<up, flips, probe, connected, events>>

\* A step of the plan begins with its event ...
HostStep(c) ==
    /\ call[c] = "host" /\ host[c] # <<>>
    /\ events' = Append(events, Head(host[c]))
    /\ host' = [host EXCEPT ![c] = Tail(@)]
    /\ UNCHANGED <<up, flips, probe, connected, front, call, poll>>

\* ... and the plan ends in success, or at the step that failed or ran out of
\* its budget.
HostEnds(c) ==
    /\ call[c] = "host"
    /\ \/ host[c] = <<>> /\ Goto(c, "launched") /\ UNCHANGED host
       \/ Goto(c, "threw") /\ host' = [host EXCEPT ![c] = <<>>]
    /\ UNCHANGED <<up, flips, probe, connected, front, poll, events>>

\* The listener of daemon-start-phase.
Event ==
    /\ events # <<>> /\ events' = Tail(events)
    /\ phase' = IF accept THEN Head(events) ELSE phase
    /\ UNCHANGED <<up, flips, probe, connected, accept, pending, diagnosed, call, poll, host>>

\* startDaemon threw: gather diagnostics, an await of their own.
Threw(c) ==
    /\ call[c] = "threw" /\ Goto(c, "diagnosing") /\ accept' = FALSE
    /\ UNCHANGED <<up, flips, probe, connected, phase, pending, diagnosed, poll, host, events>>

\* diagnose() shows nothing that contradicts a connection made meanwhile.
Diagnose ==
    IF connected = "yes" THEN UNCHANGED <<pending, diagnosed>>
    ELSE \/ pending' = TRUE /\ diagnosed' = FALSE
         \/ diagnosed' = TRUE /\ UNCHANGED pending

Diagnosed(c) ==
    /\ call[c] = "diagnosing" /\ Goto(c, "done")
    /\ Diagnose /\ phase' = "idle"
    /\ UNCHANGED <<up, flips, probe, connected, accept, poll, host, events>>

\* startDaemon returned; beforeProbe, where the caller gives one, may find the
\* daemon waiting for approval.
Launched(c) ==
    /\ call[c] = "launched" /\ Goto(c, "refreshing") /\ accept' = FALSE
    /\ pending' \in {pending, TRUE, FALSE}
    /\ UNCHANGED <<up, flips, probe, connected, phase, diagnosed, poll, host, events>>

\* The refresh returned (at once, when a tick was already in flight).
Refreshed(c) ==
    /\ call[c] = "refreshing" /\ Goto(c, "done")
    /\ IF connected = "yes" \/ pending
       THEN phase' = "idle" /\ UNCHANGED poll
       ELSE phase' = "running" /\ poll' = [poll EXCEPT !.armed = TRUE, !.elapsed = 0]
    /\ UNCHANGED <<up, flips, probe, connected, accept, pending, diagnosed, host, events>>

-----------------------------------------------------------------------------
\* The readiness poll of beginPolling: its timer fires ...
PollFires ==
    /\ poll.armed
    /\ poll' = [poll EXCEPT !.armed = FALSE, !.ticks = IF phase = "idle" THEN @ ELSE @ + 1]
    /\ UNCHANGED <<up, flips, probe, connected, front, call, host, events>>

\* ... and after its refresh the tick stops, sets the next timer, or has used
\* up the ceiling.  Clearing the timer does not stop a tick at its refresh.
PollStep ==
    /\ poll.ticks > 0
    /\ poll' = IF phase = "idle" \/ connected = "yes" THEN [poll EXCEPT !.ticks = @ - 1]
               ELSE IF poll.elapsed + 1 >= Ceiling
               THEN [poll EXCEPT !.ticks = @ - 1, !.elapsed = Ceiling, !.late = @ + 1]
               ELSE [poll EXCEPT !.ticks = @ - 1, !.elapsed = @ + 1, !.armed = TRUE]
    /\ UNCHANGED <<up, flips, probe, connected, front, call, host, events>>

PollTimesOut ==
    /\ poll.late > 0 /\ poll' = [poll EXCEPT !.late = @ - 1]
    /\ Diagnose /\ phase' = "idle"
    /\ UNCHANGED <<up, flips, probe, connected, accept, call, host, events>>

Flip ==
    /\ flips < MaxFlips /\ flips' = flips + 1 /\ up' = ~up
    /\ UNCHANGED <<probe, connected, front, call, poll, host, events>>

Advance(c) ==
    HostStep(c) \/ HostEnds(c) \/ Threw(c) \/ Diagnosed(c) \/ Launched(c) \/ Refreshed(c)

Next ==
    \/ Tick \/ Answer \/ Event \/ PollFires \/ PollStep \/ PollTimesOut \/ Flip
    \/ \E c \in Calls : Start(c) \/ Advance(c)

\* Timers fire, promises settle, and every step of the host has a budget.
Fairness ==
    /\ WF_vars(Tick \/ Answer) /\ WF_vars(Event) /\ WF_vars(PollFires) /\ WF_vars(PollStep)
    /\ WF_vars(PollTimesOut)
    /\ \A c \in Calls : WF_vars(Advance(c))

Spec == Init /\ [][Next]_vars /\ Fairness

-----------------------------------------------------------------------------
\* A connected application never shows that the start failed.
NoFailureWhileConnected == connected = "yes" => ~diagnosed

\* A start has not come to its end: the button spins.
StartWaits == phase # "idle"
=============================================================================
