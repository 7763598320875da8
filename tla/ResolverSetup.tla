--------------------------- MODULE ResolverSetup ---------------------------
(***************************************************************************)
(* How queries for the TLD reach the daemon's DNS responder: the helper's  *)
(* install-resolver and uninstall-resolver over the three mechanisms it    *)
(* knows, with the commands that make a written file effective, a helper   *)
(* killed between two steps, a daemon that restarts on another port, and   *)
(* the resolver file the user had before.                                  *)
(*                                                                         *)
(* What a route leads to is a number: None, an address of the daemon, or   *)
(* the user's own server (User; Junk for a file that names no server).     *)
(***************************************************************************)
EXTENDS Naturals, Sequences, SequencesExt

CONSTANTS Addrs,      \* addresses the DNS responder may be bound to
          Backends,   \* subset of {"macos", "resolved", "nm", "other"}
          MaxRuns     \* bound on helper runs

None == 0
User == 8
Junk == 9

Contents == Addrs \cup {None, User, Junk}
Linux == {"resolved", "nm", "other"}

VARIABLES
    backend, \* the host's resolver, as detect_linux_backend sees it on Linux
    addr,    \* where the daemon's responder is bound now, or None
    route,   \* /etc/resolver/TLD on macOS, the systemd-resolved drop-in on Linux
    nm,      \* is Orcker's NetworkManager snippet on disk?
    dm,      \* Orcker's dnsmasq snippet: what it leads to, or None
    live,    \* where the running resolver sends queries for the TLD
    unread,  \* did Orcker's files change since the running resolver last read them?
    backups, \* macOS: replaced resolver files, oldest first
    user,    \* the resolver file the user had before Orcker, as long as it is owed back
    taken,   \* has Orcker replaced that file ("taken"), undone that ("undone"), or removed
             \* it without having replaced it ("gone")?
    run, runs, last

files == <<route, nm, dm, backups>>
vars == <<backend, addr, files, live, unread, user, taken, run, runs, last>>

Idle == [op |-> "none", pc |-> "idle", to |-> None, nm |-> FALSE, dm |-> None]
NoEnd == [op |-> "none", result |-> "none", to |-> None, warned |-> FALSE]

Steps == {"idle", "look", "backup", "write", "reload", "nmwrite", "dmwrite", "nmreload",
          "wait", "restore", "remove"}

TypeOK ==
    /\ backend \in Backends
    /\ addr \in Addrs \cup {None}
    /\ route \in Contents /\ live \in Contents /\ user \in {None, User, Junk}
    /\ nm \in BOOLEAN /\ dm \in Addrs \cup {None} /\ unread \in BOOLEAN
    /\ taken \in {"no", "taken", "undone", "gone"}
    /\ backups \in Seq(Contents)
    /\ run \in [op : {"none", "install", "uninstall"}, pc : Steps,
                to : Addrs \cup {None}, nm : BOOLEAN, dm : Addrs \cup {None}]
    /\ runs \in Nat
    /\ last \in [op : {"none", "install", "uninstall"},
                 result : {"none", "ok", "error", "skipped", "killed"},
                 to : Addrs \cup {None}, warned : BOOLEAN]

Init ==
    /\ backend \in Backends
    /\ addr \in Addrs \cup {None}
    /\ user \in IF backend = "macos" THEN {None, User, Junk} ELSE {None}
    /\ route = user
    /\ live = user
    /\ unread = FALSE
    /\ nm = FALSE
    /\ dm = None
    /\ backups = <<>>
    /\ taken = "no"
    /\ run = Idle
    /\ runs = 0
    /\ last = NoEnd

\* ------------------------------------------------------------ the host
\* What the resolver uses once it has read its configuration.
Effective(be, r, n, d) ==
    CASE be \in {"macos", "resolved"} -> r
      [] be = "nm" -> IF n THEN d ELSE None
      [] OTHER -> None

Reloaded(r, n, d) == live' = Effective(backend, r, n, d) /\ unread' = FALSE
NotReloaded == unread' = TRUE /\ UNCHANGED live

\* macOS reads the file at the next query.
MacReads(r) == live' = r

\* networkmanager_ready: the query sent through 127.0.0.1 is answered by the daemon.
NmReady == live # None /\ live = addr

\* The files Orcker writes, parsed back: /etc/resolver/TLD leads to an address; a
\* drop-in that parses names the TLD, wherever it leads; the dnsmasq snippet is compared
\* with its address.
FileMatches(f, a) == f = a
DropInNamesTld(f) == f \in Addrs
DnsmasqMatches(f, a) == f = a

\* The probe behind status and doctor.
Installed ==
    IF backend = "macos" THEN FileMatches(route, addr)
    ELSE DropInNamesTld(route) \/ (nm /\ DnsmasqMatches(dm, addr))

\* ------------------------------------------------------------- the runs
At(op, step) == run.op = op /\ run.pc = step
Ends(result, warned) ==
    run' = Idle /\ last' = [op |-> run.op, result |-> result, to |-> run.to, warned |-> warned]
End(result) == Ends(result, FALSE)
Goes(step) == run' = [run EXCEPT !.pc = step] /\ UNCHANGED last

fixed == <<backend, addr, user, taken, runs>>

\* plan_invocation refuses to install a route to a responder that is not bound.
StartInstall ==
    /\ run = Idle /\ runs < MaxRuns /\ addr # None
    /\ runs' = runs + 1
    /\ run' = [Idle EXCEPT !.op = "install", !.pc = "look", !.to = addr]
    /\ last' = NoEnd
    /\ UNCHANGED <<backend, addr, user, taken, files, live, unread>>

StartUninstall ==
    /\ run = Idle /\ runs < MaxRuns
    /\ runs' = runs + 1
    /\ run' = [Idle EXCEPT !.op = "uninstall", !.pc = "remove"]
    /\ last' = NoEnd
    /\ UNCHANGED <<backend, addr, user, taken, files, live, unread>>

\* A file already as it should be is not written again; only NetworkManager is asked
\* whether it answers.
LookMac ==
    /\ At("install", "look") /\ backend = "macos"
    /\ Goes(IF route = None \/ FileMatches(route, run.to) THEN "write" ELSE "backup")
    /\ UNCHANGED <<fixed, files, live, unread>>

LookResolved ==
    /\ At("install", "look") /\ backend = "resolved"
    /\ IF route = run.to THEN End("ok") ELSE Goes("write")
    /\ UNCHANGED <<fixed, files, live, unread>>

\* dnsmasq or nmcli may be missing.
LookNm ==
    /\ At("install", "look") /\ backend = "nm"
    /\ \/ IF nm /\ DnsmasqMatches(dm, run.to) /\ NmReady
          THEN End("ok")
          ELSE /\ run' = [run EXCEPT !.pc = "nmwrite", !.nm = nm, !.dm = dm]
               /\ UNCHANGED last
       \/ End("error")
    /\ UNCHANGED <<fixed, files, live, unread>>

LookOther ==
    /\ At("install", "look") /\ backend = "other"
    /\ End("skipped")
    /\ UNCHANGED <<fixed, files, live, unread>>

\* macos_back_up_existing.  A copy that cannot be made is logged, and the file is given
\* up.
Backup ==
    /\ At("install", "backup")
    /\ \/ backups' = Append(backups, route) /\ UNCHANGED user
       \/ backups' = backups /\ user' = None
    /\ Goes("write")
    /\ UNCHANGED <<backend, addr, taken, runs, route, nm, dm, live, unread>>

WriteRoute ==
    /\ At("install", "write")
    /\ \/ /\ route' = run.to
          /\ taken' = IF taken = "no" THEN "taken" ELSE taken
          /\ IF backend = "macos" THEN End("ok") /\ MacReads(run.to) /\ UNCHANGED unread
             ELSE Goes("reload") /\ NotReloaded
       \/ End("error") /\ UNCHANGED <<route, taken, live, unread>>
    /\ UNCHANGED <<backend, addr, user, runs, nm, dm, backups>>

\* systemctl reload-or-restart systemd-resolved; the written file stays when it fails.
ReloadResolved ==
    /\ At("install", "reload")
    /\ \/ Reloaded(route, nm, dm) /\ End("ok")
       \/ NotReloaded /\ End("error")
    /\ UNCHANGED <<fixed, files>>

\* restore_file: each snippet is put back as it was; a failure is only warned of.
RestoreFiles ==
    \E ok, ok2 \in BOOLEAN :
      /\ nm' = (IF ok THEN run.nm ELSE nm) /\ dm' = (IF ok2 THEN run.dm ELSE dm)
      /\ Ends("error", ~ok \/ ~ok2)

\* The two snippets; a failed write restores both.
WriteNm ==
    /\ At("install", "nmwrite")
    /\ \/ nm' = TRUE /\ Goes("dmwrite") /\ NotReloaded /\ UNCHANGED dm
       \/ RestoreFiles /\ UNCHANGED <<live, unread>>
    /\ UNCHANGED <<fixed, route, backups>>

WriteDm ==
    /\ At("install", "dmwrite")
    /\ \/ dm' = run.to /\ Goes("nmreload") /\ UNCHANGED nm
       \/ RestoreFiles
    /\ UNCHANGED <<fixed, route, backups, live, unread>>

ReloadNm ==
    /\ At("install", "nmreload")
    /\ \/ Reloaded(route, nm, dm) /\ Goes("wait")
       \/ NotReloaded /\ Goes("restore")
    /\ UNCHANGED <<fixed, files>>

\* The first of 20 probes that is answered ends the wait; NetworkManager may also take
\* longer than all of them.
WaitNm ==
    /\ At("install", "wait")
    /\ (NmReady /\ End("ok")) \/ Goes("restore")
    /\ UNCHANGED <<fixed, files, live, unread>>

\* Both snippets are put back and NetworkManager is reloaded, best effort.
RestoreNm ==
    /\ At("install", "restore")
    /\ RestoreFiles
    /\ Reloaded(route, nm', dm') \/ NotReloaded
    /\ UNCHANGED <<fixed, route, backups>>

\* Linux: every snippet goes, whatever the backend; a file that cannot be removed ends
\* the run there. The reloads are best effort.
RemoveLinux ==
    /\ At("uninstall", "remove") /\ backend \in Linux
    /\ \/ /\ route' = None /\ nm' = FALSE /\ dm' = None
          /\ Reloaded(None, FALSE, None) \/ NotReloaded
          /\ End("ok")
       \/ /\ \/ UNCHANGED <<route, nm, dm>>
             \/ route' = None /\ UNCHANGED <<nm, dm>>
             \/ route' = None /\ nm' = FALSE /\ UNCHANGED dm
          /\ NotReloaded
          /\ End("error")
    /\ UNCHANGED <<fixed, backups>>

\* The newest backup, if it names a server.
Restorable(bs) == bs # <<>> /\ Last(bs) # Junk

\* macOS: the newest backup comes back and all backups go; else the file is removed.
RemoveMac ==
    /\ At("uninstall", "remove") /\ backend = "macos"
    /\ IF Restorable(backups)
       THEN route' = Last(backups) /\ backups' = <<>>
       ELSE route' = None /\ UNCHANGED backups
    /\ MacReads(route')
    /\ taken' = CASE taken = "taken" -> "undone"
                  [] taken = "no" -> "gone"
                  [] OTHER -> taken
    /\ End("ok")
    /\ UNCHANGED <<backend, addr, user, runs, nm, dm, unread>>

Kill ==
    /\ run # Idle
    /\ End("killed")
    /\ UNCHANGED <<fixed, files, live, unread>>

\* ------------------------------------------------------- daemon and host
DaemonRestarts ==
    /\ addr' \in (Addrs \cup {None}) \ {addr}
    /\ UNCHANGED <<backend, files, live, unread, user, taken, run, runs, last>>

\* Both Linux resolvers read their configuration when the host boots.
HostReboots ==
    /\ run = Idle
    /\ Reloaded(route, nm, dm)
    /\ UNCHANGED <<fixed, files, run, last>>

\* The user moves a Linux host from one resolver to the other.
BackendSwitches ==
    /\ run = Idle /\ backend \in Linux
    /\ backend' \in (Backends \cap Linux) \ {backend}
    /\ live' = Effective(backend', route, nm, dm) /\ unread' = FALSE
    /\ last' = NoEnd
    /\ UNCHANGED <<addr, user, taken, runs, files, run>>

Next ==
    \/ StartInstall \/ StartUninstall
    \/ LookMac \/ LookResolved \/ LookNm \/ LookOther
    \/ Backup \/ WriteRoute \/ ReloadResolved
    \/ WriteNm \/ WriteDm \/ ReloadNm \/ WaitNm \/ RestoreNm
    \/ RemoveLinux \/ RemoveMac
    \/ Kill \/ DaemonRestarts \/ HostReboots \/ BackendSwitches

Spec == Init /\ [][Next]_vars

\* ---------------------------------------------------------------- properties
\* The helper reports success only when queries for the TLD really go where the command
\* was told to send them, or where the daemon has moved to while it ran. The one exception
\* is in the code: under systemd-resolved a run that finds its file in place returns at
\* once, also when the run that wrote it failed to reload or was killed before that.
OkIsLive ==
    (run.op = "install" /\ run' = Idle /\ last'.result = "ok")
       => \/ live' \in {run.to, addr}
          \/ backend = "resolved" /\ route = run.to /\ unread

\* The resolver file the user had is never lost by installing: it is in place, or, once
\* replaced and until an undo, among the backups, whatever step a run was killed at.
UserFileKept ==
    (user # None /\ taken = "taken") => user \in Range(backups)

\* An install through NetworkManager that reports an error has put back both snippets, or
\* has warned that it could not.
FailedNmLeavesNoTrace ==
    (backend = "nm" /\ run.op = "install" /\ run' = Idle /\ last'.result = "error")
       => \/ nm' = nm /\ dm' = dm /\ run.pc = "look"
          \/ nm' = run.nm /\ dm' = run.dm
          \/ last'.warned

\* docs/guide/dns.md: undoing the resolver setup is a restore, and undoing twice, or
\* undoing what was never set up, changes nothing more.
UndoRestoresUser ==
    (user = User /\ taken = "undone" /\ last.op = "uninstall" /\ last.result = "ok")
        => route = User

\* docs/guide/dns.md: a route that leads to a port where nothing listens any more is
\* reported, because the probe compares it with the daemon's address.
StaleRouteReported ==
    (addr # None /\ live \in Addrs /\ live # addr) => ~Installed
=============================================================================
