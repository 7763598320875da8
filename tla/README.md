# A verification of Orcker in TLA+

Orcker is a local development environment: a daemon (`orckerd`) that serves
sites under a private TLD, and the programs around it (`orcker`, the desktop
application, a privileged one-shot helper, an installer script for LAN devices).
This directory holds TLA+ models of these parts, TLC configurations that check
them on small instances, and proofs that TLAPS checks for every value of the
constants. `PROJECT.json` maps every definition to the lines it models and lists
every part of the system with its status.

## The system

The daemon answers requests over a local socket. A mutation edits a clone of the
configuration under the config mutex, saves the file, builds a router from it
and publishes both; a file watcher rebuilds the router when directories change.
The proxy routes a request by that router, redirects it, serves a file or
forwards it to PHP or an upstream. Long work (tool and `cloudflared` installs,
the Cloudflare login) runs as a job that clients poll. Tunnels are child
processes under a supervisor. The helper changes what needs root: resolver, port
redirects, trust stores. Updates travel from a release feed over a check and a
staging directory to an applier that swaps the installation and restarts the
daemon. The command line, the desktop application and an MCP server are clients
that see all this over the socket, while the daemon restarts or is of another
version.

## Modules

*The daemon's state*

| module | state and actions | code |
|---|---|---|
| `JobRegistry` | the map of jobs, log windows, cancel channels, mutate locks, what a task and a client remember. Every method takes the mutex once and is one action, but `create` draws its id before: `CreateDraw`, `CreateInsert`. A log line is its ordinal, so a lost or repeated one shows | `jobs.rs`, the streamed jobs |
| `DaemonLocks` | a request is the sequence of lock operations of its handler, early returns included. Guards queue as in tokio: first come, first served, a waiting writer holds up later readers | `state.rs`, every handler |
| `SiteConfig` | first the operators from a configuration and a scan to a router: effective domains, primaries, the claim loop, `build`, `resolve_route`, collisions. Then the state: memory, file, router, descriptors, directories, the ports this boot has bound. An edit (`apply_*`), `validate`, `commit_config`, `Publish`; `Crash` may fall between. A directory may be listed in any order | `domain.rs`, `site_domains.rs`, `mutate.rs`, `link.rs`, `ipc_server.rs`, `startup.rs` |
| `Router`, `HostTable` | the two host indexes beside the claims of every site; `HostTable` is what they promise, a table in which a name claims and gives back all its hosts in one step | `router.rs` |
| `SiteGroups` | group order and members, with case folding as a function on spellings | `mutate.rs` |
| `ConfigFile` | files of every schema version: migrations, conversion, validation, what is written back | `orcker-config` |
| `FsWatch` | directories with generations, the watcher between its awaits, the kernel's watches beside the set the daemon believes in, the detection cache | `fs_watch.rs`, `detect_cache.rs` |
| `DaemonLifecycle` | boots that may overlap, instance lock, authority files, handlers that outlive the drain, re-execution, crashes; the port editor that waits for the new daemon | `lib.rs`, `startup.rs`, `useFallbackPorts.ts` |
| `Listeners` | the web pair and its fallback, the DNS pair with retries, other programs taking ports in between; what DNS answers to whom | `port_plan.rs`, `startup.rs`, `orcker-dns` |
| `MailStore` | index in memory and on disk, message files; every file operation may fail or be the last | `store.rs` |

*Tunnels, tools and updates*

| module | state and actions | code |
|---|---|---|
| `TunnelManager` | one site's instance, its children and log, and any number of requests that start, drive and stop it | `orcker-tunnel`, `tunnel/mod.rs` |
| `NamedTunnels` | account, credentials file, configuration and process, changed one after the other by create, delete, start and login; commands that time out after they took effect; the zone cache | `tunnel/named.rs`, `credentials.rs` |
| `CloudflaredCache` | which binary is in use beside slow resolutions, an install, and a system binary that comes and goes | `tunnel/mod.rs`, `install.rs` |
| `ToolInstall` | a tool's directory and shims under two requests at once and crashes | `tools/` |
| `UpdateCheck` | poll, `CheckUpdate`, cached status, channel, snapshot, restarts as another version | `self_update.rs` |
| `ReleaseFeed` | the job that mirrors releases to the CDN and writes the manifest; the choice of a target from it | `cdn-sync.yml`, `xtask/cdn.rs`, `orcker-release-manifest` |
| `UpdateArtifact`, `UpdateApply` | the asset a host takes and how its kind reaches the installer; two updaters that stage, swap and restart | `artifact.rs`, `self_update.rs`, `apply.rs` |

*The request path*

| module | state and actions | code |
|---|---|---|
| `ProxyServer` | accept loops, peer filter, shutdown notification, the store that issues a leaf certificate | `orcker-proxy/server.rs`, `cert_store.rs` |
| `ProxyRequest` | a browser with its cookie, request after request, while sites are relinked and secured: redirects, path rules, file lookup with the symlink guard, login tokens, the backend picker | `server.rs`, `static_file.rs`, `script_file.rs`, `pure/` |
| `ProxyUpstream` | connect, TLS, headers both ways, upgrades; an upstream that is silent or dies | `forward/proxy.rs`, `upgrade.rs` |
| `FcgiExchange`, `FcgiWire` | the tasks, pipes and channel of one FastCGI exchange, every writer blocking when its pipe is full; and the codec, input by input | `forward/fcgi.rs`, `pure/` |

*The host, the LAN and the clients*

| module | state and actions | code |
|---|---|---|
| `PfRedirect`, `ResolverSetup`, `Elevation` | what the helper changes, file by file and command by command, killed at any step; the sessions that run it | `orcker-helper`, `elevate.rs`, `uninstall.rs` |
| `HelperArgv` | the words of an invocation and the two parsers that read them | `orcker-platform/helper.rs`, the helper's `cli.rs` |
| `PathBlock` | one shell start-up file edited by two processes and the user | `path_cmd.rs`, `shell_profile.rs` |
| `RemoteSetup`, `RemoteInstall` | the one-time code and its listener; the script that a device runs | `lan_setup.rs` |
| `FrameStream`, `IpcContract` | one direction of a connection cut into pieces; requests and the answers the dispatcher can give | `orcker-ipc` |
| `CliSession`, `McpServer`, `GuiData` | the three clients: a command as a script of exchanges, a JSON-RPC session, the application's commands and its shared cache | `bin/orcker`, `orcker-mcp`, `apps/orcker-gui` |
| `DaemonStart`, `Tray`, `GuiAutostart` | the start button, the tray's three writers of one menu, registration with macOS | `apps/orcker-gui` |

*Instances and proofs.* A module that is run alone ends with the definitions its
cfg substitutes. `DaemonParts`, `DaemonFlows` and `DaemonWaits` compose parts that
share no state: the variable `part` picks the one that moves, the others rest, and
every property is the conjunction of properties of the parts, each restricted to
its part. `DaemonParts` holds five parts with their theorems; `MCParts` extends it
with the twenty that are only model-checked and gives all of them small constants.
`DaemonFlows` extends `Router` and holds its theorems and those of four more parts,
then the four that are only model-checked. `DaemonWaits` extends `DaemonLocks` in
the same way. `JobRegistryProofs`, `SiteConfigProofs` and `SiteRequestProofs` hold
the proofs about `JobRegistry` and `SiteConfig`; `PfRedirect` and `NamedTunnels` end
with theirs.

## Runs

| run | instance | what it shows |
|---|---|---|
| `jobs` | 3 jobs, 2 clients, a log of one line, one finished job kept | every eviction, pruning, cancellation and late insert |
| `locks` | 3 tasks, 13 kinds of request | no set of tasks waits on itself; whoever holds the config or the router does no slow work and waits for nobody who does |
| `waits` | 2 tasks with every request but `ListProjects`; 2 jobs of every kind | every request is answered, every job ends, every client is told |
| `locks_list_projects` | `ListProjects` and a mutation | **violation**: they wait for each other |
| `sites_domains` | 2 names, a sub-domain, its wildcard, 2 directories, 2 customisations | the file stays loadable; an accepted edit has its effect and takes nothing from others |
| `sites_projects` | 2 names, 1 directory, 2 ports, boots that bind either or none, crashes, a changing filesystem | disk, memory and router agree; links and flags reach what is served |
| `sites_hand_written` | a family of hand-edited files | claims, router, primaries and the doctor's report follow the collision rules |
| `sites_project_shadowed` | a parked site and a project of one name | **violation**: the linked project is never routed |
| `parts` | 25 parts, 4.4 million states | the daemon's smaller parts, the host, the messages, the desktop, updates and tools |
| `flows` | 9 parts, 0.7 million states | the request path, and the tunnel, update and start flows a user waits for |
| `watch_stale_detection` | one project | **violation**: a rebuild keeps a stale web root |
| `mail_ids_reused` | 3 messages, cap 2 | **violation**: an id of a deleted message is handed out again |

What the properties say, by part (a run's composite property is named in
brackets):

- *Jobs.* `LogWindow`: the retained log is the newest lines, gap-free.
  `ClientMissesNothing`: a client loses only evicted lines, gets none twice, and
  has the last one when told of the end. `RunningNeverPruned`,
  `CancelledOnlyIfAsked`, `TerminalIsFinal`; pruning takes only old finished jobs
  and two jobs never work under one lock [`RegistrySound`].
- *Locks.* `NoWaitCycle`, `SlowLeavesConfigFree`; every request and job client is
  answered [`EveryoneAnswered`].
- *Sites.* `FileStaysLoadable`: the daemon can start on what it saved.
  `DiskIsMemory`, `RouterFollowsConfig`: outside a commit file, memory and router
  agree. `DomainTakesEffect`, `LinkTakesEffect`, `SecureTakesEffect`: Ok means
  that the change is served. `DomainsOfOthersKept`, `CustomisationFollowsSite`: and
  that nothing else is lost. `ProjectsSound`: no two projects share a port, and no
  request puts one on a port that the running daemon has bound. Which ports those
  are is known at each boot only; a boot may well come up on the port of a project
  that is there already, since neither `SetFallbackPorts` nor `Config::validate`
  compares the two. `ClaimsFollowTheRules`, `NothingDropped`, `PrimaryIsRouted`,
  `LossesReported`: the claim loop agrees with a declarative reading of the rules,
  a primary routes to its site as long as the site has won any exact domain, and
  the doctor reports every loss.
- *Router.* `IndexIsClaims`: the indexes are exactly the claims.
  `ImplementsTable`: the router refines `HostTable`, with the owner of a host as
  refinement mapping.  A host leads to whoever claims it, exact name before
  wildcard, and to nobody who has left [`ProxyServesRight`].
- *Groups.* `MembersCanonical`: a member's group is spelled as in the order.
- *Configuration file.* What is saved is read back as it was, through every
  migration, and a refused file is left as it is [`SavedReloads`].
- *Watcher.* No wake is lost, no watch outlives its purpose [`WatchesServe`].
- *Life cycle.* A serving boot signs with the authority on disk. What was
  acknowledged is in the memory of every later boot that serves, and a port change
  reported as applied is in force [`RestartsSafe`]. The last two hold unless a boot
  has gone on with a configuration that another process had changed since it was
  loaded: the configuration is loaded before the instance lock is taken, and a
  handler may outlive the lock of its process. The variable `raced` records
  exactly that. Ports are held in whole pairs, and DNS answers an address that
  leads here, to a LAN device the LAN address or, without one, none
  [`PortsWhole`].
- *Mail.* An acknowledged message outlives crashes and failed writes until it is
  deleted or evicted, a listed message opens with its own content, no file is
  written over [`MailKept`].
- *LAN code.* `CodeLiveOnlyWhileOn`: none is live once LAN mode is off, none
  serves twice.
- *What is the user's.* Lines and pristine backup of a shell profile, a resolver
  file, a root certificate, a tunnel on the account: none is lost to Orcker
  [`UsersThingsKept`]. Two windows of the code are excepted: what the user saves
  between the comparison of the profile and the rename is lost, and a backup whose
  copy failed, or that came after a first change without a file, is not pristine.
- *Host, devices, tunnels on the account.* pf.conf never names a missing anchor,
  an installed redirect stands until its own kind is run again, an operation may
  be repeated, a resolver install that reports success is in effect, a failed
  NetworkManager install and a failed device install leave no trace, an exit code
  speaks for every target, an uninstall reports what it left; one named tunnel is
  recorded, the process that runs is its, a forgotten tunnel is gone, a cached zone
  belongs to the certificate on disk [`HostSetUpWhole`]. Excepted: a resolver
  install that finds its drop-in in place succeeds without a reload, although the
  run that wrote it may have failed at that reload; and snippets that could not be
  put back stay, with a warning.
- *Messages.* Frames arrive whole and in order or the connection ends; the helper
  does the operation it was asked for or none; exit code 0 means done; a daemon
  of another version is left untouched; a client understands every answer it can
  get; every JSON-RPC id is answered once; the MCP gate holds; the installer is of
  the artifact's kind [`MessagesUnderstood`].
- *Desktop.* A refresh forced after a write shows it, a wrapper never makes up an
  answer, a transition owns the menu, an older copy does not replace a newer
  one's daemon, the login item is kept [`DesktopFollows`]. The older copy goes by
  a record, so the property excepts the cases in which that record slipped: the
  newer copy ended between registering and recording, the record could not be
  saved or was overwritten by the migration of the login item, or `launchctl` did
  not answer.
- *Updates and tools.* After updates that ended by themselves an installation is
  there and its daemon runs, unless a bundle that was moved aside could not be
  moved back; no version is installed from a torn file; a copy survives a killed
  applier; the mirror converges, a manifest is never ahead of its files, drafts
  stay; shims follow the tool unless a reconciliation failed or was skipped since,
  an old tool is in its place or whole under a backup's name until the new one is
  in place [`InstallsWhole`].
- *Request path.* Redirects end, a secure site gives nothing over plain HTTP,
  served files are allowed by the guard, a login token is spent on the forward, a
  dead pin is dropped, hop-by-hop headers stop, a peer outside the LAN is not
  served [`ProxyServesRight`]. A truncated upload is not ended like a whole one, a
  cleanly ended response is whole, an upload is not cut by an early answer,
  lengths and heads arrive as sent over any chunk boundary [`FcgiFaithful`].
- *Reports and waits.* The only live tunnel process is the registered one, a URL
  is of the process that runs, an offered update is one, a start that succeeded
  is not shown as failed [`ReportsTrue`]. A tunnel start, an upstream's set-up, a
  FastCGI exchange and a daemon start end, a shutdown that is asked for once both
  accept loops run ends, and update knowledge settles [`EveryWaitEnds`].
  `notify_waiters` wakes only who already waits: a shutdown before a loop first
  polls its notification is lost to that loop (`server.rs:119`), which is why the
  property begins where it does.

FPM, FrankenPHP, login tokens and FastCGI are library code of `orcker-proxy`.
Today's daemon never reaches them: its resolver refuses every document-root site
(`backend_resolver.rs:20-30`) and its token consumer knows no token, so that only
proxies and projects are forwarded. `ProxyRequest`, `FcgiExchange` and `FcgiWire`
model the library for any resolver it may be given.

*Why the bounds are enough.* Every bound is named in its module and given in the
cfg or, for parts, at the `INSTANCE`. Log and finished-job caps of one make every
second line evict and every second job prune; three jobs allow a late insert
between two others. Two tasks show a cycle over two locks, the third closes
longer ones and queues a writer before a reader; for three tasks the requests are
left out that take their locks the way a part of another does; for any number of
tasks `NeverWaitsInACycle` is proved. Two names, one shared sub-domain with a
wildcard and two directories give every pair of claimant kinds a contested
domain; `MaxCustom` of two is the least with which two sites contest a domain or
one site's set changes twice. Two ports and boots that bind either or none let a
project be linked to a port that an earlier boot had, or the next one gets. Three
runs of the helper let a third run meet what
a killed second one left of the first. Two boots overlap, meet a handler of the old process, and
crash at any step. Three changes of the filesystem fall before, during and after
a scan. Two updaters, two editors of one file or two creators of a
tunnel are the least that can race; three tunnels on the account allow a foreign
one, a first and its successor. Pipes and channels hold one or two records, so
that every writer can block. Versions, authorities, addresses and ports are two
or three, enough for old, new and foreign. Symmetry is used over tasks and
clients where no liveness is checked.

*Fairness.* Weak fairness of what the code's own tasks do: a ready task runs, a
lock that is free is granted to the head of its queue (tokio's queues are first
come, first served), a download, login or connection set-up ends (each has a time
limit), a driver's and a poller's loop goes on, an accept loop that was woken
ends, the writer and the reader of an exchange step. One strong fairness: a
release list that is fetched again and again arrives at some time. Children,
upstreams, PHP, browsers and users owe nothing. Runs whose bound stops the system
say `CHECK_DEADLOCK FALSE`; in the lock model a deadlock is an error.

## Disagreements between code and documents

1. `ListProjects` holds the router's read guard while it waits for the config
   mutex; mutations take them in the other order. `state.rs` says there is "no
   cross-lock cycle". The two requests, and all later ones, wait forever.
2. `LinkProject` does not look at parked sites, although `link.rs` says that a
   name taken by a site is refused. The project is registered and unreachable.
3. The detection cache's stamp misses an `index.php` created inside an existing
   web directory; `detect_cache.rs` says that the stamp captures every way the
   web root can change.
4. The mail id counter is seeded from what is left, so deleted ids come back
   after a restart; `store.rs` says they are "never reused, even across `clear`".
5. In LAN mode without a LAN address a device's query gets no record, as
   `orcker-dns` documents. `startup.rs:202`, the log line below it and the text of
   `orcker lan` (`bin/orcker/src/lib.rs:378`) say that answers fall back to
   loopback, which only this host's own queries get. No run is needed to see it:
   `PortsWhole` states what the code does.

Some modules state a further property that does not hold, or not in every
environment the constants allow, and that no run lists. They are kept as
questions to the code, with what TLC answers:

- `OnlyHolderSaves`, `SignalEnds` (`DaemonLifecycle`): a handler may save after its
  process gave the instance lock back; a `RestartDaemon` that arrives during the
  drain after a signal turns the shutdown into a restart.
- `PrefKept` (`GuiAutostart`): a flow that loaded the settings earlier writes its
  copy back over a preference stored meanwhile.
- `TickLeavesMenuTrue` (`Tray`): a tick equal to the last tick does not repaint a
  menu that a refresh has set in between.
- `GuidanceIsTrue` (`McpServer`): while the daemon is down a blocked call reports the
  toggle as it was last read.
- `UninstallIsUnelevate` (`Elevation`): with an unreadable `orcker.toml` the
  resolver stays and is not reported.
- `UndoRestoresUser` (`ResolverSetup`): on macOS a second undo removes the file that
  the first one restored. `StaleRouteReported`: under systemd-resolved a drop-in
  for an earlier port still counts as installed.
- `UserLinesKept` needs `BreaksMarker = FALSE` (`PathBlock`): a user who breaks a
  marker of the block may lose lines. `RerunSucceeds` needs `TornWrites = FALSE`
  (`PfRedirect`): a temporary file left by a failed write makes the next run fail.
- `DeadUpstreamIs502` (`ProxyUpstream`): an upstream that dies after the connection
  was set up gives 500.
- `AppliedMeansRestarted` (`UpdateApply`, `Root = TRUE`): run as root, the applier
  leaves the user's daemon running the old version. `GuiComesBack`: an applier that
  refuses its artifact ends without relaunching the application.

Seen while modelling, where no document claims otherwise:

- *Sites.* Unlinking a promoted site overwrites the customisation its parked
  successor got meanwhile (`mutate.rs:250`). Removing an added domain equal to
  the apex answers Ok and the apex keeps routing (`mutate.rs:715`). A directory
  linked under two names by concurrent requests is registered twice
  (`ipc_server.rs:1265`). A failed rebuild is not retried (`fs_watch.rs:96`), and a
  directory removed and created again within one debounce window stays tracked
  without a watch (`fs_watch.rs:121`).
- *Daemon.* A failed reply to `RestartDaemon` leaves the restart flag set
  (`ipc_server.rs:110`). A crash while the authority's key is written makes later
  starts fail until it is removed. Job ids restart with the daemon. Saved files
  are renamed without fsync (`io.rs:25`).
- *Mail.* After a failed or interrupted delete a restart lists messages without
  files, and files that nothing lists are never removed. A message cut off by a
  disconnect is stored as complete (`io/server.rs:115`).
- *Tunnels.* A create that dies before its save leaves a tunnel on the account
  that Orcker will not delete; a delete whose save failed leaves a record that a
  second delete cannot remove, while a create of the same name replaces it. A
  concurrent refresh may cache an older `cloudflared` than the one just installed.
- *Updates and tools.* A crash between the two renames of a swap leaves nothing
  in place; the backup remains beside it. A rolled-back tool install beside a
  reconciliation leaves its shims pruned until the next one.
- *Host.* Two helpers that edit `pf.conf` at once may lose one edit. On Linux a
  failed trust tool after the anchor was removed makes a re-run exit 0. A device's
  failed re-run leaves the browser trust of the earlier one
  (`lan_setup.rs:428`), and a device's uninstall does not reload its resolver.
- *Proxy.* A login token is consumed even when no login script can be prepended;
  a late clear-cookie can erase a newer pin; a cached leaf is not renewed before
  the process restarts; a FrankenPHP forward keeps hop-by-hop headers; open
  connections outlive a shutdown (`server.rs:79`).

## Proofs

`Spec =>` is to be read with the specification of the module named at the left.

| theorem | statement |
|---|---|
| `JobRegistryProofs`: `TypeCorrect`, `NeverPrunesRunning`, `LogIsWindow`, `MutexExclusive`, `CancelledIfAsked`, `ClientsServed`, `RegistryIsSound` | `Spec => []` of `TypeOK`, `RunningNeverPruned`, `LogWindow`, `MutexHeldByWorker`, `CancelledOnlyIfAsked`, `ClientMissesNothing`, `RegistrySound` |
| `TerminalStateIsFinal` | `Spec => TerminalIsFinal`, an action property |
| `DaemonWaits`: `GuardsFollowPrograms`, `NeverWaitsInACycle`, `ConfigStaysFree` | without `ListProjects`, `Spec => []` of `LockInv`, `NoWaitCycle`, `SlowLeavesConfigFree` |
| `SiteConfigProofs`: `FileAlwaysLoadable`, `DiskAlwaysMemory`, `RouterAlwaysFollows`, `ClaimsAlwaysFollow`, `NobodyEverDropped`, `PrimaryAlwaysRouted`, `LossesAlwaysReported` | `Spec => []` of `FileStaysLoadable`, `DiskIsMemory`, `RouterFollowsConfig`, `ClaimsFollowTheRules`, `NothingDropped`, `PrimaryIsRouted`, `LossesReported` |
| `ProjectsStaySound` | `Spec => ProjectsSound`, when no hand-written file has two projects on one port |
| `SiteRequestProofs`: `DomainAlwaysTakesEffect`, `DomainsOfOthersAlwaysKept`, `SecureAlwaysTakesEffect` | `Spec =>` the action properties `DomainTakesEffect`, `DomainsOfOthersKept`, `SecureTakesEffect` |
| `LinkAlwaysTakesEffect` | `Spec => LinkTakesEffect`, when no hand-written file suppresses the apex of a name that no proxy and no project has |
| `DaemonFlows`: `IndexAlwaysClaims`, `HostsAlwaysReachOwners`, `RefinesTable` | `Router!Spec => []` of `IndexIsClaims`, `HostsReachOwners`; `Router!Spec => HostTable!Spec` under the refinement mapping |
| `ExchangeAlwaysFaithful`, `ReportsAlwaysTrue` | `FlowSpec => []` of `FcgiFaithful`, `ReportsTrue` |
| `DaemonParts`: `MembersAlwaysCanonical` | `SiteGroups!Spec => []MembersCanonical` |
| `PortsStayWhole`, `CodeDiesWithLan`, `WatchesAlwaysServe`, `RestartsAlwaysSafe` | `DaemonSpec => []` of `PortsWhole`, `CodeLiveOnlyWhileOn`, `WatchesServe`, `RestartsSafe` |
| `PfRedirect`: `NeverDangling`, `AckedRedirectStands` | `Spec => []` of `NoDanglingAnchor`, `RedirectStands` |
| `NamedTunnels`: `NamedTunnelsWhole` | `Spec => [](OneTunnel /\ RunsRecorded) /\ [][DeletedIsGone]_vars` |

*Job registry.* Assumed: caps and bounds are naturals, the log cap is positive,
kinds are the three that exist. None of the properties is inductive alone.
`TaskInv` ties the place of a task to the job's state in the map (an id not yet
drawn has nothing; a task at work has a running job), which gives
`RunningNeverPruned`, and with it the mutex and cancellation properties.
`QueueInv` says that lines in flight are the newest, in order; with it a push
keeps `LogWindow`. `ClientInv` says that a cursor never passes the end of the
log and that a client told of the end has a cursor at the last line. That pruning
leaves the youngest finished jobs is a counting argument over the ids.

*Locks.* Assumed, and evaluated by TLC in full: every handler but `ListProjects`
takes the locks in the order of `Rank` and does slow work only under `SlowLocks`
(`HandlersOrdered`). `LockInv` says that a task holds no lock that its handler does
not hold there and queues once, for its next lock. Among tasks that all wait, the
one that is first in the queue of the highest lock waits for a holder, and that
holder could only wait for a higher one.

*Site configuration.* Assumed: the types of the constants, a boot may bind nothing,
and subsets of the directories have a cardinality, as finite sets do. `CommitInv`
says what holds in the middle of a commit: what was saved is what is about to be
published, it validates, and its router is one that it gives for some set of
directories. Every mutation goes through one lemma about `commit_config`, so that
part does not depend on what the edits do. `TypeInv` does: `Kept` says of each edit
that the new configuration is well formed, gives no project the port of another or
of the daemon, and leaves no apex suppressed. The loops (effective domains,
claims, plans, the scan) are recursive functions of the number of elements passed.
What they compute is proved without an induction scheme: a first pass at which a
claim fails would be a minimum of a well-founded order (`EveryPass`). `ClaimsAreRight`
then says that the claim loop gives each domain to its rightful owner, from which
the theorems about routers follow. The request theorems compare the claimants
before and after an edit; those about domains have the hypothesis `Settled`, that
the live router is the one the directories now give, without which a directory
that appeared meanwhile may win the domain first.

*Router.* Assumed: exact names and wildcards are distinct. `RouterInv` says that
the indexes are the claims. The refinement follows: a step that inserts found all
its patterns free in the indexes, hence free in the table.

*FastCGI exchange.* Assumed: body and buffers are counted by naturals. `UpInv`
counts frames from the client to the worker: a terminator is on its way only once
the last frame was taken. `DownInv` says by the reader's place what of the response
is in pipe, channel and client; a response that did not fail is whole in them.

*Tunnel, updates, start.* Assumed: bounds are naturals, there is a newest version.
`TunnelInv` says that while a child is waited for the logfile is empty or holds
that child's URL, and that no process lives but the registered child. `CheckInv`
says that every stored and reported snapshot offers an update of the version it
was made for. `StartInv` adds the types to the property.

*Groups.* Assumed: case folding is idempotent and the mark of a site without a
group is not a spelling. `GroupsInv` adds that group names are distinct up to case;
without it a rename or a delete could leave a member of the second of two equal
groups behind.

*Listeners.* Assumed: what validation guarantees of ports (positive, the two of a
pair differ, fallback ports need no privilege). `BindInv` says which sockets are
held at each step of the two attempts.

*Setup code.* Assumed: no client is called "free", bounds are naturals. `LockInv`
says that only the holder of the config lock is in the middle of a mint or a
switch and that a code outlives LAN mode only until that switch is over;
`FetchInv` that an unspent code has not served and a value is never drawn again.

*Watcher.* Assumed: every project lies in a root and is none. `WakeInv` says that a
consumed wake has led, or will lead, to a rebuild and to watches for what it found,
`CacheInv` that a cached detection under the present stamp is the present one
unless a change went unreported, `KernelInv` that no watch is left over.

*Life cycle.* Assumed: boots are counted, the application is one of the clients.
`HoldInv` ties the steps of a boot to the instance lock, `CaInv` the authority files
to the boot that writes them, `MemInv` says what the file and the lock's holder know
while nobody `raced`, `GuiInv` which boots know of the port change.

*Port redirects.* Assumed: "none" is not a port. The invariant says, for each step
of a run, which files it has already changed; with the order in which install
writes and uninstall removes, a reference to an anchor implies its file at every
step, kills included.

*Named tunnels.* Assumed: requests and names are numbered from one, bounds are
naturals. `ClientInv` says what a request past the guard has made sure of at each
step: a create that no other name is recorded and, before its save, that no
process runs; a delete that the process is gone and then the tunnel; a start
which record it serves. `ProcInv` says that a process no start is waiting for is
one that Cloudflare let in, so that its tunnel exists: this is what keeps a create
that succeeds from meeting the process of an earlier tunnel. Since only the holder
of the guard is past its check, a step disturbs nobody else's promises.

*Only model-checked*: all liveness (`EveryoneAnswered`, `EveryWaitEnds`), since
fairness is out of the prover's reach here; `CustomisationFollowsSite`, which
relates the customisations of four maps over several requests; `SavedReloads`, and
the codecs within `ProxyServesRight`, which compute by recursion over a text or a
document; `MailKept`, `UsersThingsKept`, `MessagesUnderstood`, `DesktopFollows`,
`InstallsWhole` and the rest of `HostSetUpWhole` and `ProxyServesRight`, each a
conjunction over several small protocols whose actors are fixed in number.

## Extent

The map names 966 definitions. Counted line by line, at most 150 lines to a
definition, they stand for between a quarter and three tenths of the 81,180 lines
of the implementation files, unit tests inside those files included; the higher
figure counts every entry of the map.

## Not modelled

- Views, texts, icons and layout of the desktop application; what it writes,
  refreshes and polls is in `GuiData`.
- SMTP's line protocol and MIME decoding: the store sees a completed DATA only.
- Framework and engine detection, the doctor's other checks and the text of
  container stacks: pure classification and text without state across requests.
- Developer scripts and the build.
- Within modelled parts: web-root, front-controller and PHP settings of a site;
  DNS records that a routed tunnel leaves at Cloudflare; the search for tools on
  the user's PATH; two helpers at once; a power failure that loses what was not
  synced; cryptography, TLS, HTTP and TOML libraries, which succeed or fail.
