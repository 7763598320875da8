---------------------------- MODULE UpdateApply ----------------------------
(***************************************************************************)
(* Installing an update.  Two updaters, `orcker update` and the desktop    *)
(* application, each ask the daemon to stage the newest release and then   *)
(* run the applier: on macOS it swaps the application bundle by renames    *)
(* while the daemon is stopped, on Linux it has the package installed as   *)
(* root.  Both write the same staging directory, replace the same          *)
(* installation and restart the same daemon.                               *)
(*                                                                         *)
(* The service manager is taken to start what it is asked to start, from   *)
(* whatever is installed; the package tools replace a package or leave it. *)
(***************************************************************************)
EXTENDS Naturals

CONSTANTS
  Root,        \* may `orcker update` be run as root
  MaxVersion,  \* bound: releases
  MaxKills     \* bound: appliers killed half way

Updaters == {"cli", "gui"}
Versions == 1..MaxVersion
None == 0

VARIABLES
  host,        \* "macos" or "linux"
  root,        \* is `orcker update` run as root (Linux)
  owned,       \* does the desktop application own the daemon's registration (macOS)
  newest,      \* the newest release
  artifact,    \* of each version, the staged file: "none", "torn" or "whole"
  minisig,     \* of each version, is its signature staged
  bundle,      \* the version installed, None while moved aside
  backup,      \* of each updater, the version it moved aside
  daemon,      \* the version of the running daemon, or None
  gui,         \* is the desktop application running
  upd,         \* of each updater: where it is, its version, has it stopped the daemon, and
               \* what it installs from: the staged file as it was when it read it
  unrestored,  \* could a bundle that was moved aside not be moved back
  kills

vars == <<host, root, owned, newest, artifact, minisig, bundle, backup, daemon, gui, upd,
          unrestored, kills>>

Fresh == [at |-> "idle", v |-> None, stopped |-> FALSE, got |-> "none"]

Init ==
    /\ host \in {"macos", "linux"} /\ root \in (IF Root /\ host = "linux" THEN BOOLEAN ELSE {FALSE})
    /\ owned \in (IF host = "macos" THEN BOOLEAN ELSE {FALSE})
    /\ newest = 2 /\ artifact = [v \in Versions |-> "none"] /\ minisig = [v \in Versions |-> FALSE]
    /\ bundle = 1 /\ backup = [u \in Updaters |-> None] /\ daemon = 1 /\ gui = TRUE
    /\ upd = [u \in Updaters |-> Fresh] /\ unrestored = FALSE /\ kills = 0

At(u, p) == upd[u].at = p
Go(u, p) == upd' = [upd EXCEPT ![u].at = p]

Released ==
    /\ newest < MaxVersion /\ newest' = newest + 1
    /\ UNCHANGED <<host, root, owned, artifact, minisig, bundle, backup, daemon, gui, upd, unrestored, kills>>

\* ----------------------------------------------------------- staging (daemon)
\* stage_update: the newest release is chosen, downloaded and verified, if it is newer
\* than the daemon that answers.
stage_update(u) ==
    /\ At(u, "idle") /\ daemon # None /\ newest > daemon /\ (u = "gui" => gui)
    /\ upd' = [upd EXCEPT ![u].at = "write artifact", ![u].v = newest]
    /\ artifact' = [artifact EXCEPT ![newest] = "torn"]
    /\ UNCHANGED <<host, root, owned, newest, minisig, bundle, backup, daemon, gui, unrestored, kills>>

\* The one write ends and the next begins, which empties the file first.
WriteArtifact(u) ==
    /\ At(u, "write artifact") /\ daemon # None
    /\ artifact' = [artifact EXCEPT ![upd[u].v] = "whole"] /\ Go(u, "write signature")
    /\ minisig' = [minisig EXCEPT ![upd[u].v] = FALSE]
    /\ UNCHANGED <<host, root, owned, newest, bundle, backup, daemon, gui, unrestored, kills>>

WriteSignature(u) ==
    /\ At(u, "write signature") /\ daemon # None
    /\ minisig' = [minisig EXCEPT ![upd[u].v] = TRUE] /\ Go(u, "staged")
    /\ UNCHANGED <<host, root, owned, newest, artifact, bundle, backup, daemon, gui, unrestored, kills>>

\* The daemon went away, or a write failed: the request does, and nothing is applied.
StageFails(u) ==
    /\ upd[u].at \in {"write artifact", "write signature"}
    /\ upd' = [upd EXCEPT ![u] = [Fresh EXCEPT !.at = "refused"]]
    /\ UNCHANGED <<host, root, owned, newest, artifact, minisig, bundle, backup, daemon, gui, unrestored, kills>>

\* apply_update and spawn_applier: the desktop application leaves the rest to the
\* applier and quits.
spawn_applier(u) ==
    /\ At(u, "staged") /\ Go(u, "reverify") /\ gui' = (gui /\ u # "gui")
    /\ UNCHANGED <<host, root, owned, newest, artifact, minisig, bundle, backup, daemon, unrestored, kills>>

\* ---------------------------------------------------------------- the applier
Genuine(u) == artifact[upd[u].v] = "whole" /\ minisig[upd[u].v]

\* reverify: a staged file that does not match its signature ends the applier at once.
reverify(u) ==
    /\ At(u, "reverify")
    /\ Go(u, IF ~Genuine(u) THEN "failed" ELSE IF host = "macos" THEN "extract" ELSE "install")
    /\ UNCHANGED <<host, root, owned, newest, artifact, minisig, bundle, backup, daemon, gui, unrestored, kills>>

\* run's error arm: the desktop application is opened again if it asked for that.
Fail(u) == Go(u, "failed") /\ gui' \in (IF u = "gui" THEN {TRUE} ELSE {gui})

\* ServiceCtl: stop, and restart from whatever is installed.
service_stop == daemon' = None
service_restart == daemon' = bundle

\* Without an installed daemon there is nothing to restart.
restart_daemon == IF bundle # None THEN service_restart ELSE UNCHANGED daemon

\* What the updater goes on to install from, and where it goes.
Took(u, p) == upd' = [upd EXCEPT ![u].at = p, ![u].got = artifact[upd[u].v]]

\* apply_macos up to the extraction: where the bundle is, the directory, the archive. The
\* staged file is read again, unverified; tar refuses a torn archive.
Extract(u) ==
    /\ At(u, "extract")
    /\ \/ artifact[upd[u].v] = "whole" /\ Took(u, "stop") /\ UNCHANGED gui
       \/ Fail(u)
    /\ UNCHANGED <<host, root, owned, newest, artifact, minisig, bundle, backup, daemon, unrestored, kills>>

stop_daemon(u) ==
    /\ At(u, "stop") /\ service_stop
    /\ upd' = [upd EXCEPT ![u].at = "aside", ![u].stopped = TRUE]
    /\ UNCHANGED <<host, root, owned, newest, artifact, minisig, bundle, backup, gui, unrestored, kills>>

\* swap_bundle, the first rename: the installed bundle, if there is one, becomes this
\* applier's backup.  It may have gone between the look and the rename.
MoveAside(u) ==
    /\ At(u, "aside")
    /\ \/ /\ bundle # None /\ Go(u, "in")
          /\ backup' = [backup EXCEPT ![u] = bundle] /\ bundle' = None
       \/ bundle = None /\ Go(u, "in") /\ UNCHANGED <<backup, bundle>>
       \/ Go(u, "undo") /\ UNCHANGED <<backup, bundle>>
    /\ UNCHANGED <<host, root, owned, newest, artifact, minisig, daemon, gui, unrestored, kills>>

\* The backup is then removed, and nobody is told when it cannot be.
MovedIn(u) ==
    /\ bundle = None /\ bundle' = upd[u].v /\ Go(u, "restart") /\ UNCHANGED unrestored
    /\ backup' = [backup EXCEPT ![u] = None] \/ UNCHANGED backup

MoveIn_no_restore(u) ==
    /\ At(u, "in")
    /\ MovedIn(u) \/ (Go(u, "undo") /\ UNCHANGED <<bundle, backup, unrestored>>)
    /\ UNCHANGED <<host, root, owned, newest, artifact, minisig, daemon, gui, kills>>

\* The second rename, and if it fails the backup goes back, unless another applier has
\* put a bundle there. That rename may fail too, and nobody is told.
MoveIn(u) ==
    /\ At(u, "in")
    /\ \/ MovedIn(u)
       \/ /\ Go(u, "undo") /\ bundle = None /\ backup[u] # None
          /\ bundle' = backup[u] /\ backup' = [backup EXCEPT ![u] = None] /\ UNCHANGED unrestored
       \/ /\ Go(u, "undo") /\ UNCHANGED <<bundle, backup>>
          /\ unrestored' = (unrestored \/ (bundle = None /\ backup[u] # None))
    /\ UNCHANGED <<host, root, owned, newest, artifact, minisig, daemon, gui, kills>>

\* The error arm of apply_macos: a daemon that was stopped is started again.
Undo(u) ==
    /\ At(u, "undo") /\ Fail(u)
    /\ IF upd[u].stopped THEN restart_daemon ELSE UNCHANGED daemon
    /\ UNCHANGED <<host, root, owned, newest, artifact, minisig, bundle, backup, unrestored, kills>>

\* finish_gui_owned_update: the desktop application, if it opens, registers the daemon
\* again; if it did not open or no daemon answers, the applier restarts the daemon.
FinishGuiOwned ==
    \/ gui' = TRUE /\ restart_daemon
    \/ gui' = TRUE /\ (IF daemon # None THEN UNCHANGED daemon ELSE restart_daemon)
    \/ UNCHANGED gui /\ restart_daemon

\* restart_services: the daemon, then the desktop application if it is to come back.
restart_services(u) ==
    /\ At(u, "restart") /\ Go(u, "applied")
    /\ IF u = "gui" /\ owned THEN FinishGuiOwned
       ELSE restart_daemon /\ gui' = (gui \/ u = "gui")
    /\ UNCHANGED <<host, root, owned, newest, artifact, minisig, bundle, backup, unrestored, kills>>

\* elevated_install: the staged bytes are read and verified once, as root...
elevated_read(u) ==
    /\ At(u, "install")
    /\ (Genuine(u) /\ Took(u, "package") /\ UNCHANGED gui) \/ Fail(u)
    /\ UNCHANGED <<host, root, owned, newest, artifact, minisig, bundle, backup, daemon, unrestored,
                   kills>>

\* ... and a copy of them is installed.  An applier that already is root has nothing left
\* to do.
elevated_install(u) ==
    /\ At(u, "package")
    /\ \/ /\ bundle' = upd[u].v /\ UNCHANGED gui
          /\ Go(u, IF u = "cli" /\ root THEN "applied" ELSE "restart")
       \/ Fail(u) /\ UNCHANGED bundle
    /\ UNCHANGED <<host, root, owned, newest, artifact, minisig, backup, daemon, unrestored, kills>>

Ended == {"idle", "refused", "failed", "applied", "killed"}

Killed(u) ==
    /\ kills < MaxKills /\ kills' = kills + 1 /\ upd[u].at \notin Ended /\ Go(u, "killed")
    /\ UNCHANGED <<host, root, owned, newest, artifact, minisig, bundle, backup, daemon, gui, unrestored>>

Next ==
    \/ Released
    \/ \E u \in Updaters :
         \/ stage_update(u) \/ WriteArtifact(u) \/ WriteSignature(u) \/ StageFails(u)
         \/ spawn_applier(u) \/ reverify(u) \/ Extract(u) \/ stop_daemon(u) \/ MoveAside(u)
         \/ MoveIn(u) \/ Undo(u) \/ restart_services(u) \/ elevated_read(u)
         \/ elevated_install(u) \/ Killed(u)

Spec == Init /\ [][Next]_vars

\* ---------------------------------------------------------------- properties
TypeOK ==
    /\ bundle \in Versions \cup {None} /\ daemon \in Versions \cup {None}
    /\ \A u \in Updaters : backup[u] \in Versions \cup {None} /\ upd[u].v \in Versions \cup {None}

AllEnded == \A u \in Updaters : upd[u].at \in Ended

\* However two updates interleave and wherever they fail, once both appliers have ended by
\* themselves Orcker is installed and its daemon runs, unless a bundle that had been moved
\* aside could not be moved back.
UpdateLeavesDaemon ==
    (AllEnded /\ kills = 0 /\ ~unrestored) => bundle # None /\ daemon # None

\* Two stagings of one release overwrite each other's files and a failed one leaves them
\* torn: a version takes the installed one's place only from a file that was whole when it
\* was read, whatever became of it since, or by being put back.
TornNeverInstalled ==
    bundle' \in {bundle, None} \/ \E u \in Updaters :
       \/ bundle' = backup[u]
       \/ bundle' = upd[u].v /\ upd[u].got = "whole"

\* Even an applier killed between the two renames leaves a copy of Orcker, in place or
\* under the backup's name.
NeverLost == bundle # None \/ \E u \in Updaters : backup[u] # None

\* An applier that reported "update applied" has restarted the daemon.
AppliedMeansRestarted ==
    \A u \in Updaters :
        (At(u, "applied") /\ \A w \in Updaters \ {u} : At(w, "idle")) => daemon = bundle

\* The applier relaunches the desktop application when it finishes.
GuiComesBack == upd["gui"].at \in {"failed", "applied"} => gui
============================================================================
