------------------------------- MODULE FsWatch -------------------------------
(***************************************************************************)
(* The filesystem watcher of the daemon (orckerd/src/fs_watch.rs) with the *)
(* detection cache (detect_cache.rs) and the part of the scan it drives    *)
(* (startup.rs).                                                           *)
(*                                                                         *)
(* A project is a child directory of a parked root.  Its web root is found *)
(* when a sub-directory holds an index.php; until then the project is      *)
(* "root", unresolved, and its directory is watched.  The operating system *)
(* watches a directory object, the daemon remembers a path: a directory    *)
(* that is removed and created again has a new generation.                 *)
(***************************************************************************)
EXTENDS Naturals, FiniteSets

CONSTANTS
    Roots,      \* directories a user may park
    Projects,   \* their child directories
    RootOf,     \* [Projects -> Roots]
    MaxChanges  \* bound: changes to the filesystem

\* For TLC: all projects below one root.
OneRoot == [p \in Projects |-> CHOOSE r \in Roots : TRUE]

VARIABLES
    web,        \* [Projects -> "missing", "none", "empty", "index"]: the web directory inside
    gen,        \* [Roots \cup Projects -> Nat]: the generation of the directory, 0 when missing
    stamp,      \* [Projects -> Nat]: the newest of the directory's and composer.json's mtime
    changes,    \* filesystem changes so far; also the clock that stamps and generations use
    parked,     \* config.parked.paths
    router,     \* [Projects -> "absent", "root", "public"]: what the live router serves
    cache,      \* DetectCache: [Projects -> [stamp, found]]
    tracked,    \* the watcher's own set of watched paths
    kernel,     \* the watches the operating system has: <<path, generation>>
    event,      \* an event is in the debouncer or in the channel
    dirty,      \* the permit of watch_dirty
    pc,         \* the watcher task: "woken", "scanned", "idle"
    desired,    \* the watch set the last recompute returned
    unseen      \* history: projects changed without an event and not yet picked up

fs == <<web, gen, stamp, changes>>
daemon == <<parked, router, cache, tracked, kernel, event, dirty, pc, desired>>
vars == <<fs, daemon, unseen>>

Watching(path) == <<path, gen[path]>> \in kernel

\* What a look at the directory itself would find, and what should be served.
Now(p) ==
    CASE web[p] = "missing" -> "absent" [] web[p] = "index" -> "public" [] OTHER -> "root"
Actual(p) == IF RootOf[p] \in parked THEN Now(p) ELSE "absent"

-----------------------------------------------------------------------------
(* The scan.                                                               *)

\* The project's mtime, or that of a composer.json changed in place.
freshness_stamp(p) == stamp[p]

\* DetectCache::detect on a directory that exists.
detect(p) == IF cache[p].stamp = freshness_stamp(p) THEN cache[p].found ELSE Now(p)

\* build_routing for a set of parked roots: the router, the cache it leaves
\* behind, and the unseen changes that it picked up.
build_routing(roots) ==
    LET scanned == {p \in Projects : RootOf[p] \in roots /\ web[p] # "missing"}
        found == [p \in scanned |-> detect(p)]
    IN  /\ router' = [p \in Projects |-> IF p \in scanned THEN found[p] ELSE "absent"]
        /\ cache' = [p \in Projects |->
                        IF p \in scanned THEN [stamp |-> freshness_stamp(p), found |-> found[p]]
                        ELSE cache[p]]
        /\ unseen' = {p \in unseen : IF p \in scanned THEN found[p] # Now(p)
                                      ELSE web[p] # "missing"}

WatchRoots(roots, r) == roots \cup {p \in Projects : r[p] = "root"}

-----------------------------------------------------------------------------
(* The watcher task.                                                       *)

\* select!: one wake source is consumed per turn of the loop.
Wake ==
    /\ pc = "idle" /\ (event \/ dirty)
    /\ pc' = "woken"
    /\ \/ event /\ event' = FALSE /\ dirty' = dirty
       \/ dirty /\ dirty' = FALSE /\ event' = event
    /\ UNCHANGED <<fs, parked, router, cache, tracked, kernel, desired, unseen>>

\* The rebuild, under the config lock.
Recompute ==
    /\ pc = "woken"
    /\ build_routing(parked)
    /\ desired' = WatchRoots(parked, router')
    /\ pc' = "scanned"
    /\ UNCHANGED <<fs, parked, tracked, kernel, event, dirty>>

\* A parked root that cannot be read: the old router stays, nothing retries.
RecomputeFails ==
    /\ pc = "woken"
    /\ parked # {}
    /\ pc' = "idle"
    /\ unseen' = Projects
    /\ UNCHANGED <<fs, parked, router, cache, tracked, kernel, event, dirty, desired>>

\* Unwatch what is no longer wanted, watch what is new; a missing path fails
\* and is not tracked.
Reconcile_drains ==
    LET stale == tracked \ desired
        added == {path \in desired \ tracked : gen[path] # 0}
    IN  /\ pc = "scanned"
        /\ tracked' = (tracked \ stale) \cup added
        /\ kernel' = {w \in kernel : w[1] \notin stale}
                        \cup {<<path, gen[path]>> : path \in added}
        /\ pc' = "idle" /\ event' = FALSE
        /\ UNCHANGED <<fs, parked, router, cache, dirty, desired, unseen>>
Reconcile ==
    LET stale == tracked \ desired
        added == {path \in desired \ tracked : gen[path] # 0}
    IN  /\ pc = "scanned"
        /\ tracked' = (tracked \ stale) \cup added
        /\ kernel' = {w \in kernel : w[1] \notin stale}
                        \cup {<<path, gen[path]>> : path \in added}
        /\ pc' = "idle"
        /\ UNCHANGED <<fs, parked, router, cache, event, dirty, desired, unseen>>

\* A mutation that parks or unparks: it scans with its own configuration,
\* swaps the router and leaves a permit for the watcher.
Mutate(root) ==
    LET new == IF root \in parked THEN parked \ {root} ELSE parked \cup {root} IN
    /\ parked' = new
    /\ build_routing(new)
    /\ dirty' = TRUE
    /\ UNCHANGED <<fs, tracked, kernel, event, pc, desired>>

-----------------------------------------------------------------------------
(* The filesystem.  A watched directory reports changes of its own entries *)
(* and its removal, not what happens deeper.                               *)

\* One change to project p (or to a root), reported if a watch sees it.
Changed(p, seen) ==
    /\ changes < MaxChanges
    /\ changes' = changes + 1
    /\ event' = (event \/ seen)
    /\ unseen' = IF seen THEN unseen ELSE unseen \cup {p}
    /\ UNCHANGED <<parked, router, cache, tracked, dirty, pc, desired>>

CreateProject(p) ==
    /\ web[p] = "missing" /\ gen[RootOf[p]] # 0
    /\ \E w \in {"none", "index"} : web' = [web EXCEPT ![p] = w]
    /\ gen' = [gen EXCEPT ![p] = changes + 1]
    /\ stamp' = [stamp EXCEPT ![p] = changes + 1]
    /\ Changed(p, Watching(RootOf[p]))
    /\ UNCHANGED kernel

RemoveProject(p) ==
    /\ web[p] # "missing"
    /\ web' = [web EXCEPT ![p] = "missing"]
    /\ gen' = [gen EXCEPT ![p] = 0]
    /\ Changed(p, Watching(RootOf[p]) \/ Watching(p))
    /\ kernel' = {w \in kernel : w[1] # p \/ w[2] # gen[p]}
    /\ UNCHANGED stamp

\* A web directory appears in the project, with or without its index.php, or
\* disappears.
ChangeEntry(p) ==
    /\ web[p] # "missing"
    /\ \E w \in {"none", "empty", "index"} \ {web[p]} :
          /\ w # "none" => web[p] = "none"
          /\ web' = [web EXCEPT ![p] = w]
    /\ stamp' = [stamp EXCEPT ![p] = changes + 1]
    /\ Changed(p, Watching(p))
    /\ UNCHANGED <<gen, kernel>>

\* An index.php appears in an existing web directory, or disappears from it.
ChangeInside(p) ==
    /\ web[p] \in {"empty", "index"}
    /\ web' = [web EXCEPT ![p] = IF @ = "empty" THEN "index" ELSE "empty"]
    /\ Changed(p, FALSE)
    /\ UNCHANGED <<gen, stamp, kernel>>

\* A root is removed once it is empty, or created.
ChangeRoot(r) ==
    /\ \A p \in Projects : RootOf[p] = r => web[p] = "missing"
    /\ changes < MaxChanges
    /\ changes' = changes + 1
    /\ gen' = [gen EXCEPT ![r] = IF @ = 0 THEN changes + 1 ELSE 0]
    /\ event' = (event \/ Watching(r))
    /\ kernel' = {w \in kernel : w[1] # r \/ w[2] # gen[r]}
    /\ UNCHANGED <<web, stamp, parked, router, cache, tracked, dirty, pc, desired, unseen>>

Fresh(p) == IF web[p] = "missing" THEN [stamp |-> 0, found |-> "root"]
            ELSE [stamp |-> stamp[p], found |-> Now(p)]

\* The router of start-up is fresh; the watcher begins with a recompute.
Init ==
    /\ web \in [Projects -> {"missing", "none", "empty", "index"}]
    /\ gen = [path \in Roots \cup Projects |->
                IF path \in Projects /\ web[path] = "missing" THEN 0 ELSE 1]
    /\ stamp = [p \in Projects |-> 1]
    /\ changes = 1
    /\ parked \in SUBSET Roots
    /\ router = [p \in Projects |-> Actual(p)]
    /\ cache = [p \in Projects |->
                  IF RootOf[p] \in parked THEN Fresh(p) ELSE [stamp |-> 0, found |-> "root"]]
    /\ tracked = {} /\ kernel = {} /\ desired = {}
    /\ event = FALSE /\ dirty = FALSE
    /\ pc = "woken"
    /\ unseen = {}

Next ==
    \/ Wake \/ Recompute \/ RecomputeFails \/ Reconcile
    \/ \E r \in Roots : Mutate(r) \/ ChangeRoot(r)
    \/ \E p \in Projects :
         CreateProject(p) \/ RemoveProject(p) \/ ChangeEntry(p) \/ ChangeInside(p)

Spec == Init /\ [][Next]_vars

-----------------------------------------------------------------------------
(* Properties.                                                             *)

AtRest == pc = "idle" /\ ~event /\ ~dirty

\* When the watcher has nothing left to do, the live router serves what is on
\* disk for every project whose changes some watch reported, and every
\* project it serves unresolved is watched (fs_watch.rs: both wake sources
\* lead to a rebuild, then to a reconcile; no wake is lost).
ReportedChangesServed ==
    AtRest => \A p \in Projects \ unseen :
        /\ router[p] = Actual(p)
        /\ router[p] = "root" => p \in tracked

\* Watches do not accumulate: at rest the daemon tracks only parked roots and
\* unresolved projects, unless the last rebuild failed, and the operating
\* system never has a watch that the daemon does not track.
NoStrayWatch ==
    /\ \A w \in kernel : w[1] \in tracked
    /\ AtRest /\ unseen = {} => tracked \subseteq WatchRoots(parked, router)

\* A rebuild finds the web root every project has at that moment.  The cache's
\* stamp is said to capture "the two ways a project's web root can change".
RebuildIsFresh ==
    [][pc = "woken" /\ pc' = "scanned" => \A p \in Projects : router'[p] = Actual(p)]_vars
=============================================================================
