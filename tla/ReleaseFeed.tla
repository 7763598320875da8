---------------------------- MODULE ReleaseFeed ----------------------------
(***************************************************************************)
(* From GitHub's releases to the update an installation is offered: the    *)
(* job that mirrors release assets to the CDN (plan, uploads, deletes) and *)
(* regenerates latest.json, and the choice of a target from that file.     *)
(* GitHub may change while a run of the job is under way, and a run may    *)
(* stop anywhere.                                                          *)
(*                                                                         *)
(* A tag is its version's rank; PreTags carry a semver pre-release part,   *)
(* tag 0 does not parse as a version.  Every release has one asset, "a";   *)
(* "b" is an object left over on the CDN.                                  *)
(***************************************************************************)
EXTENDS Naturals, FiniteSets, FiniteSetsExt

CONSTANTS PreTags, MaxMoves

Tags == 0..3
None == 99
Objects == (Tags \X {"a"}) \cup {<<1, "b">>}

VARIABLES
  github,      \* of each tag: "absent", "draft", "public" or "flagged" (public, pre-release)
  cdn,         \* of each object: 0 absent, 1 as on GitHub, 2 other content of the same size
  sums,        \* are the SHA256SUMS there to compare
  api,         \* the releases the run works from
  plan,        \* the objects it is to put and to delete, and whether it deletes at all
  drafts,      \* the draft tags it read again before deleting
  step,        \* where the run is
  latest,      \* latest.json: the releases it names and the objects it links to
  moves        \* bound: changes of GitHub during the run

vars == <<github, cdn, sums, api, plan, drafts, step, latest, moves>>

Public(rel) == {t \in Tags : rel[t] \in {"public", "flagged"}}
Drafts(rel) == {t \in Tags : rel[t] = "draft"}

parse_tag(t) == t # 0
is_prerelease(rel, t) == rel[t] = "flagged" \/ t \in PreTags

Highest(S) == IF S = {} THEN None ELSE Max(S)
Exceeds(a, b) == a # None /\ (b = None \/ a > b)

\* ------------------------------------------------------------- the manifests
Kept(rel) == {t \in Public(rel) : parse_tag(t)}

rewrite_urls(t, mirrored) == IF <<t, "a">> \in mirrored THEN {<<t, "a">>} ELSE {}

\* The highest stable release, and the highest pre-release if it is newer than that.
build_manifests(rel, mirrored) ==
    LET stable == Highest({t \in Kept(rel) : ~is_prerelease(rel, t)})
        pre == Highest({t \in Kept(rel) : is_prerelease(rel, t)})
        rc == IF Exceeds(pre, stable) THEN pre ELSE None
        named == {stable, rc} \ {None}
    IN [from |-> rel, named |-> named, links |-> UNION {rewrite_urls(t, mirrored) : t \in named}]

\* select_target: the channel's highest, if it is newer than what runs.
select_target(rel, offered, channel, current) ==
    LET latest_stable == Highest({t \in offered : ~is_prerelease(rel, t)})
        candidate == IF channel = "stable" THEN latest_stable ELSE Highest(offered)
    IN IF candidate # None /\ candidate > current THEN candidate ELSE None

\* ------------------------------------------------------------------ the plan
Present == {o \in Objects : cdn[o] # 0}
Expected(rel) == {<<t, "a">> : t \in Public(rel)}

\* An object is seen to differ by its checksum, if there is one to compare with.
Differs(o) == cdn[o] = 2 /\ sums

reconcile(rel) ==
    [prune |-> TRUE,
     put |-> {o \in Expected(rel) : o \notin Present \/ Differs(o)},
     delete |-> IF Expected(rel) = {} THEN {}
                ELSE {o \in Present \ Expected(rel) : rel[o[1]] # "draft"}]

\* ------------------------------------------------------------------- the run
Init ==
    /\ github \in {g \in [Tags -> {"absent", "draft", "public", "flagged"}] : g[0] \in {"absent", "public"}}
    /\ cdn \in {c \in [Objects -> 0..2] : c[<<0, "a">>] = 0 /\ \A o \in Objects : c[o] = 2 => o = <<3, "a">>}
    /\ sums \in BOOLEAN /\ api = github /\ plan = [put |-> {}, delete |-> {}, prune |-> TRUE] /\ drafts = {}
    /\ step = "read" /\ moves = 0
    /\ latest = [from |-> github, named |-> {}, links |-> {}]

\* The releases are read; none at all stops the run.
ReadReleases ==
    /\ step = "read" /\ api' = github
    /\ step' = IF \A t \in Tags : github[t] = "absent" THEN "stopped" ELSE "plan"
    /\ UNCHANGED <<github, cdn, sums, plan, drafts, latest, moves>>

Plan ==
    /\ step = "plan" /\ plan' = reconcile(api) /\ step' = "guard"
    /\ UNCHANGED <<github, cdn, sums, api, drafts, latest, moves>>

\* The inputs of the run: an additive-only run deletes nothing, and a dry run or one with
\* more to delete than it may ends here.
GuardPlan == \E apply, include_deletes \in BOOLEAN, max_deletes \in {1, Cardinality(Objects)} :
    LET delete == IF include_deletes THEN plan.delete ELSE {} IN
    /\ step = "guard"
    /\ plan' = [plan EXCEPT !.delete = delete, !.prune = include_deletes]
    /\ step' = IF apply /\ Cardinality(delete) <= max_deletes THEN "put" ELSE "stopped"
    /\ UNCHANGED <<github, cdn, sums, api, drafts, latest, moves>>

\* What is uploaded is what GitHub has now; a tag that went away ends the run.
Put ==
    /\ step = "put" /\ plan.put # {}
    /\ \E o \in plan.put :
         /\ plan' = [plan EXCEPT !.put = @ \ {o}]
         /\ IF github[o[1]] = "absent" THEN step' = "stopped" /\ UNCHANGED cdn
            ELSE cdn' = [cdn EXCEPT ![o] = 1] /\ UNCHANGED step
    /\ UNCHANGED <<github, sums, api, drafts, latest, moves>>

ReadDrafts ==
    /\ step = "put" /\ plan.put = {} /\ drafts' = Drafts(github) /\ step' = "delete"
    /\ UNCHANGED <<github, cdn, sums, api, plan, latest, moves>>

Delete ==
    /\ step = "delete" /\ plan.delete # {}
    /\ \E o \in plan.delete :
         /\ plan' = [plan EXCEPT !.delete = @ \ {o}]
         /\ cdn' = IF o[1] \in drafts THEN cdn ELSE [cdn EXCEPT ![o] = 0]
    /\ UNCHANGED <<github, sums, api, drafts, step, latest, moves>>

\* The manifest is made from a listing taken after the uploads and the deletes.
WriteManifests ==
    /\ step = "delete" /\ plan.delete = {} /\ step' = "done"
    /\ latest' = build_manifests(api, Present)
    /\ UNCHANGED <<github, cdn, sums, api, plan, drafts, moves>>

\* A release is published, flagged, reverted to a draft or removed.
GitHubMoves ==
    /\ moves < MaxMoves /\ moves' = moves + 1 /\ step # "read"
    /\ \E t \in Tags \ {0}, s \in {"absent", "draft", "public", "flagged"} :
         s # github[t] /\ github' = [github EXCEPT ![t] = s]
    /\ UNCHANGED <<cdn, sums, api, plan, drafts, step, latest>>

Next == ReadReleases \/ Plan \/ GuardPlan \/ Put \/ ReadDrafts \/ Delete \/ WriteManifests \/ GitHubMoves

Spec == Init /\ [][Next]_vars

\* ---------------------------------------------------------------- properties
TypeOK == plan.put \subseteq Objects /\ plan.delete \subseteq Objects /\ latest.named \subseteq Tags

\* The two releases in latest.json are enough: on either channel and from any version, the
\* update chosen from them is the one chosen from all the releases it was made from.
ManifestSuffices ==
    step = "done" => \A channel \in {"stable", "edge"}, current \in Tags :
        select_target(api, latest.named, channel, current)
          = select_target(api, Kept(api), channel, current)

\* A run that ends without GitHub having moved leaves on the CDN the assets of the public
\* releases and the objects of drafts and nothing else (nothing is pruned in an
\* additive-only run, or if GitHub shows no public release), with the right content where
\* it can be compared, and every link of the manifest leads to an object that is there.
SyncConverges ==
    (step = "done" /\ github = api)
      => /\ latest.links \subseteq Present
         /\ Expected(api) \subseteq Present
         /\ (Expected(api) # {} /\ plan.prune) => \A o \in Present \ Expected(api) : o[1] \in Drafts(api)
         /\ sums => \A o \in Expected(api) : cdn[o] = 1

\* The assets of a release that has been reverted to a draft are not pruned, whenever
\* before the deletes it was reverted.
DraftsKept == \A o \in Objects : (cdn[o] # 0 /\ o[1] \in drafts) => cdn'[o] # 0
============================================================================
