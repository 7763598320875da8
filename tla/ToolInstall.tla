---------------------------- MODULE ToolInstall ----------------------------
(***************************************************************************)
(* A developer tool (Node, Bun) that the daemon installs, updates and      *)
(* removes: a streamed job and a plain request may be under way at once.   *)
(* tool_mutate serialises the changes of {data}/tools; the shims in        *)
(* {data}/bin are reconciled under a mutex of their own, the streamed job  *)
(* after it has let tool_mutate go.  The shims name the versioned          *)
(* directory of the tool.  The daemon may crash and start again.           *)
(***************************************************************************)
EXTENDS Naturals

CONSTANTS
  MaxVersion,  \* bound: upstream releases
  MaxOps,      \* bound: requests
  MaxCrashes   \* bound: crashes of the daemon

Actors == {"stream", "call", "startup"}
Versions == 1..MaxVersion
None == 0
Half == MaxVersion + 1   \* a tree without its marker; shims of which some were replaced

VARIABLES
  tree,        \* the version in {data}/tools/<id>, by its .version marker
  backup,      \* the version moved aside by the install under way
  previous,    \* versions that an earlier install left aside
  shim,        \* the version the shims lead to, None without shims
  mutate,      \* who holds tool_mutate
  reconciling, \* who holds shim_reconcile
  op,          \* of each actor: what it does, where it is, its version, what it saw
  good,        \* the version last installed and not asked to be removed since
  stranded,    \* has a crash or a failed rename left the tool aside
  behind,      \* since the shims were last right: has an install been rolled back, a removal
               \* stopped midway or a reconcile failed
  ops, crashes

vars == <<tree, backup, previous, shim, mutate, reconciling, op, good, stranded, behind, ops,
          crashes>>

Idle == [what |-> "none", at |-> "idle", v |-> None, saw |-> None]

Init ==
    /\ tree = None /\ backup = None /\ previous = {} /\ shim = None /\ mutate = "free"
    /\ reconciling = "free" /\ op = [a \in Actors |-> Idle] /\ good = None /\ stranded = FALSE
    /\ behind = FALSE /\ ops = 0 /\ crashes = 0

\* installed_version
Installed == IF tree = Half THEN None ELSE tree

At(a, p) == op[a].at = p
Go(a, p) == op' = [op EXCEPT ![a].at = p]
End(a) == op' = [op EXCEPT ![a] = Idle] /\ mutate' = IF mutate = a THEN "free" ELSE mutate

\* ------------------------------------------------------------------ requests
Begin(a, what) ==
    /\ ops < MaxOps /\ ops' = ops + 1 /\ At(a, "idle") /\ a # "startup"
    /\ a = "stream" => what = "install"
    /\ op' = [op EXCEPT ![a] = [Idle EXCEPT !.what = what, !.at = "lock"]]
    /\ UNCHANGED <<tree, backup, previous, shim, mutate, reconciling, good, stranded, behind, crashes>>

Lock(a) ==
    /\ At(a, "lock") /\ mutate = "free" /\ mutate' = a
    /\ Go(a, IF op[a].what = "install" THEN "download" ELSE "remove")
    /\ UNCHANGED <<tree, backup, previous, shim, reconciling, good, stranded, behind, ops, crashes>>

\* install up to the swap: release list, checksums, archive, verification, unpacking into
\* a staging directory.  The streamed job may be cancelled at these awaits.
Download(a) ==
    /\ At(a, "download")
    /\ \E v \in Versions : op' = [op EXCEPT ![a].at = "aside", ![a].v = v]
    /\ UNCHANGED <<tree, backup, previous, shim, mutate, reconciling, good, stranded, behind, ops,
                   crashes>>

DownloadFails(a) ==
    /\ At(a, "download") /\ End(a)
    /\ UNCHANGED <<tree, backup, previous, shim, reconciling, good, stranded, behind, ops, crashes>>

\* stage_and_swap, the renames.
MoveAside(a) ==
    /\ At(a, "aside")
    /\ \/ Go(a, "in") /\ backup' = tree /\ tree' = None /\ UNCHANGED mutate
       \/ tree # None /\ End(a) /\ UNCHANGED <<backup, tree>>
    /\ UNCHANGED <<previous, shim, reconciling, good, stranded, behind, ops, crashes>>

Leave == previous' = previous \cup ({backup} \ {None})

\* Installed: the streamed job drops the guard here, the plain request keeps it. What was
\* moved aside is removed, and nobody is told when it cannot be.
MoveIn(a) ==
    /\ At(a, "in") /\ tree' = op[a].v /\ good' = op[a].v /\ backup' = None /\ Go(a, "reconcile")
    /\ UNCHANGED previous \/ Leave
    /\ stranded' = FALSE
    /\ mutate' = IF a = "stream" THEN "free" ELSE mutate
    /\ UNCHANGED <<shim, reconciling, behind, ops, crashes>>

\* The old tool is moved back, and nobody is told when it cannot be.
MoveInFails(a) ==
    /\ At(a, "in") /\ End(a) /\ backup' = None
    /\ \/ tree' = backup /\ UNCHANGED <<previous, stranded>>
       \/ backup # None /\ tree' = None /\ stranded' = TRUE /\ Leave
    /\ behind' = (behind \/ backup # None)
    /\ UNCHANGED <<shim, reconciling, good, ops, crashes>>

\* remove_dir_all may fail before or after it has removed the marker.
uninstall(a) ==
    /\ At(a, "remove") /\ good' = None
    /\ \/ tree' = None /\ Go(a, "reconcile") /\ UNCHANGED <<mutate, behind>>
       \/ tree # None /\ End(a) /\ tree' \in {tree, Half} /\ behind' = (behind \/ tree' # tree)
    /\ UNCHANGED <<backup, previous, shim, reconciling, stranded, ops, crashes>>

\* ------------------------------------------------------------------ the shims
\* reconcile_tool_shims_now: without the orcker binary beside the daemon it does nothing.
reconcile_lock(a) ==
    /\ At(a, "reconcile") /\ reconciling = "free" /\ reconciling' = a /\ Go(a, "look")
    /\ UNCHANGED <<tree, backup, previous, shim, mutate, good, stranded, behind, ops, crashes>>

reconcile_skip(a) ==
    /\ At(a, "reconcile") /\ End(a) /\ behind' = TRUE
    /\ UNCHANGED <<tree, backup, previous, shim, reconciling, good, stranded, ops, crashes>>

\* reconcile_tool_shims: the marker and the versioned directory are read...
reconcile_look(a) ==
    /\ At(a, "look") /\ op' = [op EXCEPT ![a].at = "place", ![a].saw = Installed]
    /\ UNCHANGED <<tree, backup, previous, shim, mutate, reconciling, good, stranded, behind, ops,
                   crashes>>

\* ... then the links are replaced, or pruned by name. A failure is logged, and the request
\* is answered as if there were none.
reconcile_place(a) ==
    /\ At(a, "place") /\ End(a) /\ reconciling' = "free"
    /\ \/ shim' = op[a].saw /\ behind' = (behind /\ op[a].saw # Installed)
       \/ shim' \in {shim, Half} /\ behind' = TRUE
    /\ UNCHANGED <<tree, backup, previous, good, stranded, ops, crashes>>

\* ---------------------------------------------------------- crash and restart
Crash ==
    /\ crashes < MaxCrashes /\ crashes' = crashes + 1
    /\ op' = [a \in Actors |-> IF a = "startup" THEN [Idle EXCEPT !.at = "reconcile"] ELSE Idle]
    /\ mutate' = "free" /\ reconciling' = "free"
    /\ backup' = None /\ Leave /\ stranded' = (stranded \/ backup # None)
    /\ \/ UNCHANGED <<tree, good>>
       \/ (\E a \in Actors : At(a, "remove")) /\ tree # None /\ tree' = Half /\ good' = None
    /\ UNCHANGED <<shim, behind, ops>>

Next ==
    \/ Crash
    \/ \E a \in Actors :
         \/ \E what \in {"install", "uninstall"} : Begin(a, what)
         \/ Lock(a) \/ Download(a) \/ DownloadFails(a) \/ MoveAside(a) \/ MoveIn(a)
         \/ MoveInFails(a) \/ uninstall(a) \/ reconcile_lock(a) \/ reconcile_skip(a)
         \/ reconcile_look(a) \/ reconcile_place(a)

Spec == Init /\ [][Next]_vars

\* ---------------------------------------------------------------- properties
TypeOK ==
    /\ {tree, backup, shim} \cup previous \subseteq Versions \cup {None, Half}
    /\ good \in Versions \cup {None}

Quiet == \A a \in Actors : At(a, "idle")

\* When nothing is under way the shims lead to the version installed, or there are none
\* when it is not installed, however requests interleaved and wherever the daemon crashed,
\* unless, since they were last right, an install was rolled back, a removal stopped
\* midway or a reconcile failed, which the daemon only logs.
ShimsFollowTool == (Quiet /\ ~behind) => shim = Installed

\* A tool that was installed and not removed is never lost: at every step of an update it
\* is in its place or whole under a backup's name, and when nothing is under way it is in
\* its place unless a crash between the renames or a failed rename back left it aside.
OldToolKept ==
    good # None => /\ good \in {tree, backup} \cup previous
                   /\ Quiet => tree = good \/ stranded
============================================================================
