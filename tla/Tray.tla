--------------------------------- MODULE Tray ---------------------------------
(***************************************************************************)
(* The tray menu of the desktop application                                *)
(* (apps/orcker-gui/src-tauri/src/tray.rs).  Three kinds of task install a *)
(* menu: the poller, which fetches the daemon's state every few seconds    *)
(* and rebuilds only on a difference with what it applied last; a          *)
(* lifecycle action (start, restart, stop), which owns the menu while      *)
(* TRANSITION is set; and a refresh after an update check or a change of   *)
(* the icon.  Each fetches first and applies later.  MENU_LOCK makes "test *)
(* TRANSITION and set the menu" one step.                                  *)
(*                                                                         *)
(* A state of the daemon, and the menu built from it, is a number: 0 is a  *)
(* daemon that does not answer, the others are running daemons whose ports,*)
(* update or unread mail differ.  A probe that times out also yields 0.    *)
(***************************************************************************)
EXTENDS Naturals

CONSTANTS Running,      \* the snapshots of a running daemon, a set of positive numbers
          SettleSteps,  \* SETTLE_STEPS, probes before a lifecycle action gives up
          MaxActions    \* lifecycle actions and refreshes

VARIABLES daemon, boot,  \* the daemon's state and its boot_id, one of two
          menu,          \* the snapshot the menu shows, or Transient
          last,          \* the poller's last applied snapshot, a set of at most one
          transition, poll, life, refresh, actions

vars == <<daemon, boot, menu, last, transition, poll, life, refresh, actions>>

Snapshots == {0} \cup Running
Transient == 100
Kinds == {"start", "restart", "stop"}
Resting == [pc |-> "idle", got |-> 0]
NoLife == [pc |-> "idle", kind |-> "stop", prev |-> {}, down |-> FALSE, left |-> 0, got |-> 0]

TypeOK ==
    /\ daemon \in Snapshots /\ boot \in 0 .. 1
    /\ menu \in Snapshots \cup {Transient} /\ last \in SUBSET Snapshots
    /\ transition \in BOOLEAN /\ actions \in 0 .. MaxActions
    /\ poll.pc \in {"idle", "fetch", "apply"} /\ refresh.pc \in {"idle", "fetch", "apply"}
    /\ life.pc \in {"idle", "claim", "act", "settle", "fetch", "apply"}

Init ==
    /\ daemon \in Snapshots /\ boot = 0 /\ menu = 0 /\ last = {}
    /\ transition = FALSE /\ poll = Resting /\ refresh = Resting /\ life = NoLife
    /\ actions = 0

\* fetch_state: an unreachable daemon, or a probe that times out, is the
\* default snapshot.
Fetched(got) == got \in {daemon, 0}

-----------------------------------------------------------------------------
\* One tick of spawn_tray_poller, up to its fetch.
PollTick ==
    /\ poll.pc = "idle" /\ ~transition
    /\ poll' = [Resting EXCEPT !.pc = "fetch"]
    /\ UNCHANGED <<daemon, boot, menu, last, transition, life, refresh, actions>>

PollFetch ==
    /\ poll.pc = "fetch"
    /\ \E got \in Snapshots : Fetched(got) /\ poll' = [pc |-> "apply", got |-> got]
    /\ UNCHANGED <<daemon, boot, menu, last, transition, life, refresh, actions>>

\* The rest of the tick.
PollApply ==
    /\ poll.pc = "apply" /\ poll' = Resting
    /\ IF last = {poll.got} \/ transition THEN UNCHANGED <<menu, last>>
       ELSE menu' = poll.got /\ last' = {poll.got}
    /\ UNCHANGED <<daemon, boot, transition, life, refresh, actions>>

-----------------------------------------------------------------------------
\* refresh_now, and run_update_check before it.
Refresh ==
    /\ refresh.pc = "idle" /\ actions < MaxActions /\ actions' = actions + 1
    /\ refresh' = [Resting EXCEPT !.pc = "fetch"]
    /\ UNCHANGED <<daemon, boot, menu, last, transition, poll, life>>

RefreshFetch ==
    /\ refresh.pc = "fetch"
    /\ \E got \in Snapshots : Fetched(got) /\ refresh' = [pc |-> "apply", got |-> got]
    /\ UNCHANGED <<daemon, boot, menu, last, transition, poll, life, actions>>

RefreshApply ==
    /\ refresh.pc = "apply" /\ refresh' = Resting
    /\ menu' = IF transition THEN menu ELSE refresh.got
    /\ UNCHANGED <<daemon, boot, last, transition, poll, life, actions>>

-----------------------------------------------------------------------------
\* The lifecycle items build_menu offers.
Offered(kind) == IF kind = "start" THEN menu = 0 ELSE menu \in Running

\* spawn_lifecycle claims TRANSITION ...
Click(kind) ==
    /\ Offered(kind) /\ ~transition /\ actions < MaxActions
    /\ actions' = actions + 1 /\ transition' = TRUE
    /\ life' = [NoLife EXCEPT !.pc = "claim", !.kind = kind]
    /\ UNCHANGED <<daemon, boot, menu, last, poll, refresh>>

\* ... shows the transient menu ...
ApplyTransient ==
    /\ life.pc = "claim" /\ menu' = Transient
    /\ life' = [life EXCEPT !.pc = "act", !.prev = IF daemon # 0 THEN {boot} ELSE {}]
    /\ UNCHANGED <<daemon, boot, last, transition, poll, refresh, actions>>

\* ... asks, which a daemon may ignore or be slow about (see Daemon) ...
Act ==
    /\ life.pc = "act" /\ life' = [life EXCEPT !.pc = "settle"]
    /\ UNCHANGED <<daemon, boot, menu, last, transition, poll, refresh, actions>>

\* wait_until_reachable and wait_until_restarted.
Settled ==
    CASE life.kind = "start" -> daemon # 0
      [] life.kind = "stop" -> daemon = 0
      [] life.prev = {} -> daemon # 0 /\ life.down
      [] OTHER -> daemon # 0 /\ boot \notin life.prev

\* ... probes until it is so or the steps are used up ...
Probe ==
    /\ life.pc = "settle"
    /\ life' = IF Settled \/ life.left = SettleSteps
               THEN [life EXCEPT !.pc = "fetch", !.left = 0]
               ELSE [life EXCEPT !.left = @ + 1, !.down = @ \/ daemon = 0]
    /\ UNCHANGED <<daemon, boot, menu, last, transition, poll, refresh, actions>>

LifeFetch ==
    /\ life.pc = "fetch"
    /\ \E got \in Snapshots : Fetched(got) /\ life' = [life EXCEPT !.pc = "apply", !.got = got]
    /\ UNCHANGED <<daemon, boot, menu, last, transition, poll, refresh, actions>>

\* ... and installs what it finds, giving TRANSITION back under MENU_LOCK.
LifeApply ==
    /\ life.pc = "apply" /\ life' = NoLife
    /\ menu' = life.got /\ transition' = FALSE
    /\ UNCHANGED <<daemon, boot, last, poll, refresh, actions>>

\* The daemon starts, stops, restarts or changes what it reports.
Daemon(d) ==
    /\ d # daemon /\ daemon' = d
    /\ boot' = IF daemon = 0 THEN 1 - boot ELSE boot
    /\ UNCHANGED <<menu, last, transition, poll, life, refresh, actions>>

Next ==
    \/ PollTick \/ PollFetch \/ PollApply
    \/ Refresh \/ RefreshFetch \/ RefreshApply
    \/ \E k \in Kinds : Click(k)
    \/ ApplyTransient \/ Act \/ Probe \/ LifeFetch \/ LifeApply
    \/ \E d \in Snapshots : Daemon(d)

Spec == Init /\ [][Next]_vars

-----------------------------------------------------------------------------
\* While a lifecycle action owns the menu nothing else shows: not a tick, and
\* not a refresh, that began its fetch before the action did.
TransientOwned == life.pc \in {"act", "settle", "fetch", "apply"} => menu = Transient

\* A tick that ends outside a transition leaves the menu showing what it
\* fetched ("the tray must stay correct while the main window is closed").
TickLeavesMenuTrue == [][PollApply /\ ~transition => menu' = poll.got]_vars
=============================================================================
