---------------------------- MODULE DaemonLocks ----------------------------
(***************************************************************************)
(* The locks of DaemonState (bin/orckerd/src/state.rs) and the order in    *)
(* which the daemon's concurrent tasks take and drop them.                 *)
(*                                                                         *)
(* A request is the sequence of lock operations its handler performs; what *)
(* it computes in between is left out.  tokio's Mutex and RwLock are fair: *)
(* waiters queue in the order they came and only the head of the queue is  *)
(* let in, so a waiting writer holds up the readers that come after it.    *)
(***************************************************************************)
EXTENDS Integers, Sequences, FiniteSets

CONSTANTS
  Tasks,      \* connections, proxied requests and watcher ticks in flight
  Served      \* the requests these tasks make

Locks == {"config", "router", "wordpress_sites", "laravel_sites",
          "remote_setup_code", "lan_setup_script_sha256",
          "tunnel_mutate", "tunnel_manager", "cloudflared_resolution",
          "tool_mutate", "shim_reconcile"}

-----------------------------------------------------------------------------
(* The lock operations of each handler, in the order it performs them.  A  *)
(* mutex is taken in mode "w".  Slow is work whose length the daemon does  *)
(* not control (a download, a child process, a tunnel coming up).          *)

Acquire(l, m) == [op |-> "acquire", lock |-> l, mode |-> m, skip |-> 0]
Release(l)    == [op |-> "release", lock |-> l, mode |-> "w", skip |-> 0]
Slow          == [op |-> "slow", lock |-> "config", mode |-> "w", skip |-> 0]
Return        == [op |-> "return", lock |-> "config", mode |-> "w", skip |-> 0]
Branch(n)     == [op |-> "branch", lock |-> "config", mode |-> "w", skip |-> n]

\* A part of the handler that the request may go around; an early return.
Maybe(p)    == <<Branch(Len(p))>> \o p
Exit        == Maybe(<<Return>>)
Brief(l, m) == <<Acquire(l, m), Release(l)>>

\* Swapping in a rebuilt router: three write guards, each dropped at once.
swap_router ==
  Brief("router", "w") \o Brief("wordpress_sites", "w") \o Brief("laravel_sites", "w")

handle_mutation ==
  <<Acquire("config", "w")>> \o Brief("router", "r") \o Exit \o swap_router
  \o <<Release("config")>>

\* A relinked directory reads its domain and returns.
handle_link_project ==
  <<Acquire("config", "w")>> \o Exit \o Maybe(Brief("router", "r") \o <<Return>>)
  \o swap_router \o <<Release("config")>> \o Brief("router", "r")

handle_group_mutation ==
  <<Acquire("config", "w")>> \o Brief("router", "r") \o Exit \o <<Release("config")>>

\* A change of a port, a switch or a channel leaves the router alone.
set_config == <<Acquire("config", "w")>> \o Exit \o <<Release("config")>>

\* Mutant of recompute: the router is locked before the config.
recompute_router_first ==
  <<Acquire("router", "w"), Acquire("config", "w")>> \o Exit
  \o <<Release("config"), Release("router")>>

recompute == <<Acquire("config", "w")>> \o Exit \o swap_router \o <<Release("config")>>

list_sites ==
  <<Acquire("router", "r"), Acquire("wordpress_sites", "r"), Acquire("laravel_sites", "r"),
    Release("laravel_sites"), Release("wordpress_sites"), Release("router")>>

list_projects ==
  <<Acquire("router", "r"), Acquire("config", "w"), Release("config"), Release("router")>>

list_proxies ==
  <<Acquire("config", "w"), Acquire("router", "r"), Release("router"), Release("config")>>

list_routes == list_proxies

list_groups == Brief("config", "w")

\* The config is locked again for the sites of a running named tunnel.
shared_site_count == Brief("tunnel_manager", "w") \o Exit \o Brief("config", "w")

build_status_report == list_proxies \o shared_site_count

proxy_request == Brief("router", "r")

set_lan_enabled ==
  <<Acquire("config", "w")>> \o Exit \o Maybe(Brief("remote_setup_code", "w"))
  \o <<Release("config")>>

mint_remote_setup_code ==
  <<Acquire("config", "w")>> \o Exit \o Brief("lan_setup_script_sha256", "w") \o Exit
  \o Brief("remote_setup_code", "w") \o <<Release("config")>>

consume_code == Brief("remote_setup_code", "w")

\* The cached cloudflared, else a probe and a write.
resolved_cloudflared ==
  Brief("cloudflared_resolution", "r")
  \o Maybe(<<Slow>> \o Brief("cloudflared_resolution", "w"))

tunnels_response == Brief("tunnel_manager", "w") \o resolved_cloudflared

\* The router is read, and its guard dropped, before the caller takes another lock.
resolve_site == Brief("router", "r")

\* A child that is killed is waited for under the manager's lock.
Reaping == <<Acquire("tunnel_manager", "w")>> \o Maybe(<<Slow>>) \o <<Release("tunnel_manager")>>

\* One readiness tick stands for all: each takes the manager and drops it.
\* A tunnel that is already up has none; one that fails is stopped.
run_to_ready ==
  Exit \o Brief("tunnel_manager", "w") \o Exit
  \o Maybe(<<Slow>> \o Reaping \o Maybe(Reaping \o <<Return>>)) \o tunnels_response

start_quick_tunnel ==
  resolved_cloudflared \o Exit \o resolve_site \o Exit \o run_to_ready

stop_tunnel == Reaping \o Exit \o tunnels_response

\* Mutant of start_named: the named tunnel is serialised by the config lock
\* instead of tunnel_mutate.
start_named_under_config ==
  resolved_cloudflared \o Exit \o <<Acquire("config", "w"), Acquire("tunnel_mutate", "w")>> \o Exit
  \o resolve_site \o Exit \o Reaping \o Exit
  \o run_to_ready \o <<Release("tunnel_mutate"), Release("config")>>

start_named ==
  resolved_cloudflared \o Exit \o <<Acquire("tunnel_mutate", "w")>> \o Brief("config", "w") \o Exit
  \o resolve_site \o Exit \o Reaping \o Exit
  \o run_to_ready \o <<Release("tunnel_mutate")>>

create_named ==
  resolved_cloudflared \o Exit \o <<Acquire("tunnel_mutate", "w")>> \o Brief("config", "w")
  \o Exit \o <<Slow>> \o Exit \o set_config \o <<Release("tunnel_mutate")>>

delete_named ==
  resolved_cloudflared \o Exit \o <<Acquire("tunnel_mutate", "w")>> \o Brief("config", "w") \o Exit
  \o Reaping \o Exit \o <<Slow>> \o Exit
  \o set_config \o <<Release("tunnel_mutate")>>

stop_named == stop_tunnel

\* The zone is asked of Cloudflare, unless it is cached, with the config free.
list_named == list_groups \o Maybe(<<Slow>>)

route_dns == resolved_cloudflared \o Exit \o <<Slow>>

\* The site is looked up before the config is locked.
set_site_hostname == Maybe(resolve_site \o Exit) \o set_config

\* The job of a login: the browser's answer is awaited under tunnel_mutate.
login_streamed ==
  resolved_cloudflared \o Exit \o <<Acquire("tunnel_mutate", "w"), Slow, Release("tunnel_mutate")>>

install_cloudflared ==
  <<Acquire("tunnel_mutate", "w"), Slow, Release("tunnel_mutate")>>
  \o Maybe(Brief("cloudflared_resolution", "w"))

reconcile_tool_shims_now == Exit \o Brief("shim_reconcile", "w")

install_tool ==
  <<Acquire("tool_mutate", "w"), Slow>> \o Exit \o reconcile_tool_shims_now
  \o <<Release("tool_mutate")>>

Program ==
  [Mutation |-> handle_mutation,
   LinkProject |-> handle_link_project,
   Set |-> set_config,
   GroupMutation |-> handle_group_mutation,
   Recompute |-> recompute,
   ListSites |-> list_sites,
   ListProjects |-> list_projects,
   ListProxies |-> list_proxies,
   ListRoutes |-> list_routes,
   ListGroups |-> list_groups,
   Status |-> build_status_report,
   ProxyRequest |-> proxy_request,
   SetLan |-> set_lan_enabled,
   MintCode |-> mint_remote_setup_code,
   RedeemCode |-> consume_code,
   StartQuick |-> start_quick_tunnel,
   StopTunnel |-> stop_tunnel,
   StartNamed |-> start_named,
   CreateNamed |-> create_named,
   DeleteNamed |-> delete_named,
   StopNamed |-> stop_named,
   ListNamed |-> list_named,
   RouteDns |-> route_dns,
   Login |-> login_streamed,
   TunnelStatus |-> tunnels_response,
   SetHostname |-> set_site_hostname,
   InstallCloudflared |-> install_cloudflared,
   InstallTool |-> install_tool]

Requests == DOMAIN Program

\* The instances for TLC: every request but the one that deadlocks, and, for three
\* tasks, without the requests that take their locks the way a part of another request
\* does (a listed proxy is the start of a status report, a stop the end of a start).
AllButListProjects == Requests \ {"ListProjects"}
Representative ==
  AllButListProjects \ {"ListProxies", "ListRoutes", "ListGroups", "StopTunnel", "StopNamed",
                        "TunnelStatus", "ListNamed", "RouteDns", "Login", "RedeemCode",
                        "Set", "ProxyRequest", "GroupMutation", "CreateNamed"}
Listing == {"Mutation", "ListProjects"}

ASSUME ServedAssumption == Served \subseteq Requests

VARIABLES
  req,      \* req[t]: the request t is handling, or "idle"
  pc,       \* pc[t]: the next operation of its handler
  held,     \* held[l]: the guards of l, as pairs of a task and a mode
  queue     \* queue[l]: the tasks waiting for l, first come first

vars == <<req, pc, held, queue>>

Modes == {"r", "w"}
Idle == "idle"

Init ==
  /\ req = [t \in Tasks |-> Idle]
  /\ pc = [t \in Tasks |-> 1]
  /\ held = [l \in Locks |-> {}]
  /\ queue = [l \in Locks |-> <<>>]

Busy(t) == req[t] # Idle
Op(t) == Program[req[t]][pc[t]]
AtEnd(t) == pc[t] > Len(Program[req[t]])
At(t, o) == Busy(t) /\ ~AtEnd(t) /\ Op(t).op = o
Holds(t, l) == \E h \in held[l] : h[1] = t
Waiting(t, l) == \E i \in DOMAIN queue[l] : queue[l][i][1] = t

Advance(t, n) == pc' = [pc EXCEPT ![t] = @ + n]

Begin(t, r) ==
  /\ ~Busy(t)
  /\ req' = [req EXCEPT ![t] = r]
  /\ pc' = [pc EXCEPT ![t] = 1]
  /\ UNCHANGED <<held, queue>>

\* lock(), read(), write(): the task joins the lock's queue and is suspended.
Enqueue(t) ==
  /\ At(t, "acquire")
  /\ ~Waiting(t, Op(t).lock)
  /\ queue' = [queue EXCEPT ![Op(t).lock] = Append(@, <<t, Op(t).mode>>)]
  /\ UNCHANGED <<req, pc, held>>

\* A reader is let in beside readers, a writer alone.
Compatible(l, m) == \A h \in held[l] : m = "r" /\ h[2] = "r"

\* The head of the queue gets its guard and resumes.
Grant(l) ==
  /\ queue[l] # <<>>
  /\ LET w == Head(queue[l]) IN
       /\ Compatible(l, w[2])
       /\ held' = [held EXCEPT ![l] = @ \cup {w}]
       /\ Advance(w[1], 1)
  /\ queue' = [queue EXCEPT ![l] = Tail(@)]
  /\ UNCHANGED req

Drop(t, S) == [l \in Locks |-> IF l \in S THEN {h \in held[l] : h[1] # t} ELSE held[l]]

ReleaseStep(t) ==
  /\ At(t, "release")
  /\ held' = Drop(t, {Op(t).lock})
  /\ Advance(t, 1)
  /\ UNCHANGED <<req, queue>>

SlowStep(t) ==
  /\ At(t, "slow")
  /\ Advance(t, 1)
  /\ UNCHANGED <<req, held, queue>>

BranchStep(t) ==
  /\ At(t, "branch")
  /\ \/ Advance(t, 1)
     \/ Advance(t, 1 + Op(t).skip)
  /\ UNCHANGED <<req, held, queue>>

\* The handler returns, dropping what guards it still holds.
Answer(t) ==
  /\ Busy(t)
  /\ AtEnd(t) \/ At(t, "return")
  /\ req' = [req EXCEPT ![t] = Idle]
  /\ pc' = [pc EXCEPT ![t] = 1]
  /\ held' = Drop(t, Locks)
  /\ UNCHANGED queue

Work(t) == Enqueue(t) \/ ReleaseStep(t) \/ SlowStep(t) \/ BranchStep(t) \/ Answer(t)

Next ==
  \/ \E t \in Tasks : Work(t) \/ \E r \in Served : Begin(t, r)
  \/ \E l \in Locks : Grant(l)

Spec == Init /\ [][Next]_vars

(* A task that can move is polled again, a waiter whose turn has come is   *)
(* woken, and slow work ends: downloads and child processes are bounded.   *)
FairSpec == Spec /\ \A t \in Tasks : WF_vars(Work(t)) /\ \A l \in Locks : WF_vars(Grant(l))

-----------------------------------------------------------------------------
(* Properties.                                                             *)

\* Every task is at an operation of the request it handles, and only tasks
\* at work hold guards or wait for them.
TypeOK ==
  /\ req \in [Tasks -> Served \cup {Idle}]
  /\ pc \in [Tasks -> Nat]
  /\ \A t \in Tasks : pc[t] \in 1 .. (IF Busy(t) THEN Len(Program[req[t]]) + 1 ELSE 1)
  /\ held \in [Locks -> SUBSET (Tasks \X Modes)]
  /\ queue \in [Locks -> Seq(Tasks \X Modes)]

\* t waits for its next lock behind u: u holds a guard t's cannot coexist
\* with, or stands before t in the queue.
BlockedBy(t, u) ==
  At(t, "acquire") /\
  \E i \in DOMAIN queue[Op(t).lock] :
    /\ queue[Op(t).lock][i][1] = t
    /\ \/ \E h \in held[Op(t).lock] : h[1] = u /\ ~(h[2] = "r" /\ Op(t).mode = "r")
       \/ \E j \in 1 .. (i - 1) : queue[Op(t).lock][j][1] = u

\* No set of tasks waits on itself (state.rs: "there is no cross-lock cycle"):
\* in every set of tasks, one is not held up by a member of the set.
NoWaitCycle ==
  \A S \in SUBSET Tasks : S # {} => \E t \in S : \A u \in S : ~BlockedBy(t, u)

\* Whoever holds the config or the router does no slow work, nor waits for a
\* lock whose holder does: a download, a cloudflared command, a tunnel coming
\* up or a child being stopped holds up neither the proxy nor a mutation.
SlowLeavesConfigFree ==
  \A t, u \in Tasks :
    At(u, "slow") /\ (t = u \/ BlockedBy(t, u)) => ~Holds(t, "config") /\ ~Holds(t, "router")

-----------------------------------------------------------------------------
\* The tasks are alike (for TLC).
TaskSymmetry ==
  {[t \in Tasks |-> p[t]] :
     p \in {q \in [Tasks -> Tasks] : \A t, u \in Tasks : q[t] = q[u] => t = u}}
=============================================================================
