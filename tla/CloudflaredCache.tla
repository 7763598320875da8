-------------------------- MODULE CloudflaredCache --------------------------
(***************************************************************************)
(* Which cloudflared binary the daemon uses: the copy it manages, or one   *)
(* found on PATH that is new enough.  Resolutions run at any time and are  *)
(* cached; an install job replaces the managed binary and overwrites the   *)
(* cache; the user may add or remove the system's binary.                  *)
(***************************************************************************)
EXTENDS Naturals

CONSTANTS Resolvers, MaxResolves, MaxInstalls, MaxMoves

VARIABLES
  managed,     \* is the managed binary there
  system,      \* the binary on PATH: "none", "old" or "new"
  cached,      \* cloudflared_resolution: "none", "managed" or "system"
  res,         \* of each resolution: where it is and what it found
  job,         \* the install job: "idle", "running", "installed", "failed" or "succeeded"
  answer,      \* the last answer: what it names, and had a job succeeded before it began
  resolves, installs, moves

vars == <<managed, system, cached, res, job, answer, resolves, installs, moves>>

Rest == [at |-> "idle", found |-> "none", after |-> FALSE]

Init ==
    /\ managed = FALSE /\ system \in {"none", "old", "new"} /\ cached = "none"
    /\ res = [r \in Resolvers |-> Rest] /\ job = "idle" /\ answer = [named |-> "none", after |-> FALSE]
    /\ resolves = 0 /\ installs = 0 /\ moves = 0

Answer(r, named) ==
    /\ res' = [res EXCEPT ![r] = Rest]
    /\ answer' = [named |-> named, after |-> res[r].after]

\* ---------------------------------------------------------------- a resolution
Begin(r) ==
    /\ res[r] = Rest /\ resolves < MaxResolves /\ resolves' = resolves + 1
    /\ res' = [res EXCEPT ![r] = [Rest EXCEPT !.at = "cache", !.after = (job = "succeeded")]]
    /\ UNCHANGED <<managed, system, cached, job, answer, installs, moves>>

\* cached_cloudflared_if_valid: a managed entry is trusted, a system one has to be there.
cached_cloudflared_if_valid(r) ==
    /\ res[r].at = "cache"
    /\ IF cached = "managed" \/ (cached = "system" /\ system # "none")
       THEN Answer(r, cached)
       ELSE res' = [res EXCEPT ![r].at = "managed"] /\ UNCHANGED answer
    /\ UNCHANGED <<managed, system, cached, job, resolves, installs, moves>>

\* resolve: the managed copy first...
resolve_managed(r) ==
    /\ res[r].at = "managed"
    /\ res' = [res EXCEPT ![r].at = IF managed THEN "store" ELSE "path",
                          ![r].found = IF managed THEN "managed" ELSE "none"]
    /\ UNCHANGED <<managed, system, cached, job, answer, resolves, installs, moves>>

\* ... then the PATH search and the version probe, which may fail.
resolve_path(r) ==
    /\ res[r].at = "path"
    /\ \E found \in (IF system = "new" THEN {"system", "none"} ELSE {"none"}) :
         res' = [res EXCEPT ![r].at = "store", ![r].found = found]
    /\ UNCHANGED <<managed, system, cached, job, answer, resolves, installs, moves>>

is_downgrade(existing, fresh) == existing = "managed" /\ fresh # "managed"

\* The check and the write are made under the cache's write lock.
resolved_cloudflared(r) ==
    /\ res[r].at = "store"
    /\ IF is_downgrade(cached, res[r].found)
       THEN Answer(r, cached) /\ UNCHANGED cached
       ELSE Answer(r, res[r].found) /\ cached' = res[r].found
    /\ UNCHANGED <<managed, system, job, resolves, installs, moves>>

\* ---------------------------------------------------------------- the install
StartInstall ==
    /\ installs < MaxInstalls /\ installs' = installs + 1 /\ job \in {"idle", "failed", "succeeded"}
    /\ job' = IF job = "succeeded" THEN "succeeded again" ELSE "running"
    /\ UNCHANGED <<managed, system, cached, res, answer, resolves, moves>>

Running == job \in {"running", "succeeded again"}

\* install_binary: the verified binary is renamed into place, then its version is noted.
install_binary ==
    /\ Running /\ managed' = TRUE /\ job' = "installed"
    /\ UNCHANGED <<system, cached, res, answer, resolves, installs, moves>>

\* Before the rename, or at the note after it.
InstallFails ==
    /\ Running /\ managed' \in {managed, TRUE}
    /\ job' = IF job = "running" THEN "failed" ELSE "succeeded"
    /\ UNCHANGED <<system, cached, res, answer, resolves, installs, moves>>

refresh_cloudflared_cache_after_install ==
    /\ job = "installed" /\ cached' = "managed" /\ job' = "succeeded"
    /\ UNCHANGED <<managed, system, res, answer, resolves, installs, moves>>

SystemMoves ==
    /\ moves < MaxMoves /\ moves' = moves + 1
    /\ \E s \in {"none", "old", "new"} : s # system /\ system' = s
    /\ UNCHANGED <<managed, cached, res, job, answer, resolves, installs>>

Next ==
    \/ StartInstall \/ install_binary \/ InstallFails \/ refresh_cloudflared_cache_after_install
    \/ SystemMoves
    \/ \E r \in Resolvers :
         \/ Begin(r) \/ cached_cloudflared_if_valid(r) \/ resolve_managed(r)
         \/ resolve_path(r) \/ resolved_cloudflared(r)

Spec == Init /\ [][Next]_vars

\* ---------------------------------------------------------------- properties
TypeOK == cached \in {"none", "managed", "system"} /\ answer.named \in {"none", "managed", "system"}

\* Once an install job has succeeded, whoever asks gets the managed binary: no slower
\* resolution that began earlier puts the system's back into the cache.
InstalledIsUsed == answer.after => answer.named = "managed"
============================================================================
