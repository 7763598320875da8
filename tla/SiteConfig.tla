----------------------------- MODULE SiteConfig -----------------------------
(***************************************************************************)
(* The configuration of the daemon, its file on disk and the routing table *)
(* derived from it: the mutations of orckerd/src/mutate.rs and link.rs,    *)
(* the commit of ipc_server.rs, the scan and start-up of startup.rs, the   *)
(* validation of orcker-config/src/parse.rs and the rebuild of fs_watch.rs.*)
(*                                                                         *)
(* A mutation runs under the config lock.  It edits a clone, validates it, *)
(* builds a router, saves the file, and only then publishes the clone and  *)
(* the router.  The process may die between the save and the publication.  *)
(***************************************************************************)
EXTENDS Integers, Sequences, FiniteSets, Functions

-----------------------------------------------------------------------------
(***************************************************************************)
(* How a configuration and the directories found become a routing table:   *)
(* orcker-core/src/domain.rs, orcker-core/src/router.rs and                *)
(* orckerd/src/site_domains.rs, as pure operators.                         *)
(*                                                                         *)
(* A domain is the part of a host name in front of the TLD.  The apex of a *)
(* site is the exact domain equal to the site's name, so names are domains *)
(* here.  A wildcard is a separate value; WildcardOf gives the wildcard    *)
(* that covers an exact domain.                                            *)
(***************************************************************************)
CONSTANTS
    Names,          \* site names; the name is also its apex domain
    Subs,           \* exact domains that are not a site's name ("api.blog")
    Wildcards,      \* "*.blog"
    WildcardOf,     \* [Exact -> Wildcards \cup {NoDomain}]
    NoDomain,       \* absent domain, owner or primary
    Dirs            \* document roots

Exact == Names \cup Subs
Domains == Exact \cup Wildcards

ASSUME WildcardOfAssumption ==
    /\ NoDomain \notin Domains
    /\ WildcardOf \in [Exact -> Wildcards \cup {NoDomain}]

(***************************************************************************)
(* The persisted customisation of one claimant's domains.  An absent entry *)
(* and an empty one mean the same: every mutation prunes an empty delta.   *)
(***************************************************************************)
NoDelta == [added |-> <<>>, suppressed |-> {}, primary |-> NoDomain]

\* A loop over a sequence is a function of the number of elements it has passed.

\* The elements of s that are in S, in their order.
KeptUpTo(s, S) ==
    LET kept[n \in 0 .. Len(s)] ==
            IF n = 0 THEN <<>>
            ELSE IF s[n] \in S THEN Append(kept[n - 1], s[n]) ELSE kept[n - 1]
    IN  kept
OnlyIn(s, S) == KeptUpTo(s, S)[Len(s)]

Included(ds, d) == IF d \in Range(ds) THEN ds ELSE Append(ds, d)

HasExact(ds) == \E d \in Range(ds) : d \in Exact

\* Apex unless suppressed, then the added domains, each once; a set without
\* an exact domain gets the apex back.
Normalised(name, out) == IF HasExact(out) THEN out ELSE <<name>> \o out

EffectiveUpTo(name, delta) ==
    LET out[n \in 0 .. Len(delta.added)] ==
            IF n = 0 THEN IF name \in delta.suppressed THEN <<>> ELSE <<name>>
            ELSE Included(out[n - 1], delta.added[n])
    IN  out
effective_domains(name, delta) ==
    Normalised(name, EffectiveUpTo(name, delta)[Len(delta.added)])

\* The stored primary if it is exact and present, else the apex if present,
\* else the first exact domain, else the apex although it is absent.
choose_primary_trusting(name, effective, stored) ==
    IF stored # NoDomain THEN stored ELSE name
choose_primary(name, effective, stored) ==
    CASE stored \in Exact /\ stored \in Range(effective) -> stored
      [] stored \notin Exact \cap Range(effective)
            /\ (name \in Range(effective) \/ ~HasExact(effective)) -> name
      [] OTHER -> OnlyIn(effective, Exact)[1]

(***************************************************************************)
(* Planning.  A site is [kind, name, dir, secure]; cfg carries the deltas  *)
(* linked by name, parked by directory and proxy by name.                  *)
(***************************************************************************)
WithFirst(kept, e) ==
    IF \E i \in DOMAIN kept : kept[i].name = e.name THEN kept ELSE Append(kept, e)

FirstsUpTo(s) ==
    LET kept[n \in 0 .. Len(s)] == IF n = 0 THEN <<>> ELSE WithFirst(kept[n - 1], s[n])
    IN  kept
FirstOfEachName(s) == FirstsUpTo(s)[Len(s)]

delta_for(cfg, site) ==
    CASE site.kind = "linked" -> cfg.domains.linked[site.name]
      [] site.kind = "parked" -> cfg.domains.parked[site.dir]
      [] OTHER -> cfg.domains.proxy[site.name]

PlanWith(site, effective, stored, eligible) ==
    [site |-> site, effective |-> effective, eligible |-> eligible,
     primary |-> choose_primary(site.name, effective, stored)]

Plans(cfg, kept, taken) ==
    [i \in DOMAIN kept |->
        PlanWith(kept[i], effective_domains(kept[i].name, delta_for(cfg, kept[i])),
                 delta_for(cfg, kept[i]).primary, kept[i].name \notin taken)]

plan_sites(cfg, sites) == Plans(cfg, FirstOfEachName(sites), {})

project_proxies(projects) ==
    [i \in DOMAIN projects |->
        [kind |-> "project", name |-> projects[i].name, dir |-> projects[i].dir,
         secure |-> projects[i].secure]]

ConfiguredProxies(cfg) ==
    [i \in DOMAIN cfg.proxies |->
        [kind |-> "proxy", name |-> cfg.proxies[i].name, dir |-> NoDomain,
         secure |-> cfg.proxies[i].secure]]

SiteNames(plans) == {plans[i].site.name : i \in DOMAIN plans}

\* A proxy whose name a site has is planned, and not eligible.
plan_proxies(cfg, site_plans) ==
    Plans(cfg, FirstOfEachName(ConfiguredProxies(cfg) \o project_proxies(cfg.projects)),
          SiteNames(site_plans))

AndProxies(cfg, site_plans) == site_plans \o plan_proxies(cfg, site_plans)
claimants(cfg, sites) == AndProxies(cfg, plan_sites(cfg, sites))

(***************************************************************************)
(* The claim loop: claimants in order, each claimant's domains in order;   *)
(* an explicit claim replaces an implicit one, nothing else is replaced.   *)
(***************************************************************************)
NoClaim == [idx |-> 0, explicit |-> FALSE]

Claim(claim, i, explicit) ==
    IF claim.idx # 0 /\ (claim.explicit \/ ~explicit) THEN claim
    ELSE [idx |-> i, explicit |-> explicit]

ClaimAll(claims, i, c) ==
    [d \in Domains |-> IF d \in Range(c.effective) THEN Claim(claims[d], i, d # c.site.name)
                       ELSE claims[d]]

ClaimsUpTo(cs) ==
    LET claims[n \in 0 .. Len(cs)] ==
            IF n = 0 THEN [d \in Domains |-> NoClaim]
            ELSE IF cs[n].eligible THEN ClaimAll(claims[n - 1], n, cs[n]) ELSE claims[n - 1]
    IN  claims

build_claims_last_wins(cs) ==
    LET wants(d) == {i \in DOMAIN cs : cs[i].eligible /\ d \in Range(cs[i].effective)}
    IN  [d \in Domains |-> IF wants(d) = {} THEN 0 ELSE CHOOSE i \in wants(d) : \A j \in wants(d) : j <= i]
build_claims(cs) == [d \in Domains |-> ClaimsUpTo(cs)[Len(cs)][d].idx]

(***************************************************************************)
(* The router: who is registered under each name, the domain index, the    *)
(* primaries and the path rules.                                           *)
(***************************************************************************)
EmptyRouter ==
    [sites |-> {}, owner |-> [d \in Domains |-> NoDomain],
     primary |-> [n \in Names |-> NoDomain], rules |-> [n \in Names |-> {}]]

Registered(r) == {s.name : s \in r.sites}

\* SiteRouter::get: a site of that name, never a whole-host proxy.
get(r, name) ==
    {s \in r.sites : s.name = name /\ s.kind \in {"linked", "parked"}}

\* Refused, leaving no partial state, when the name or a domain is taken.
insert_with_domains(r, site, won, primary) ==
    IF site.name \in Registered(r) \/ \E d \in Range(won) : r.owner[d] # NoDomain
    THEN r
    ELSE [r EXCEPT !.sites = @ \cup {site},
                   !.owner = [d \in Domains |-> IF d \in Range(won) THEN site.name ELSE @[d]],
                   !.primary = [@ EXCEPT ![site.name] = primary]]

RulesOf(cfg, site) ==
    CASE site.kind = "linked" -> cfg.rules.linked[site.name]
      [] site.kind = "parked" -> cfg.rules.parked[site.dir]
      [] OTHER -> {}

\* Each claimant is inserted with the domains it won.
Insert(r, c, won) ==
    insert_with_domains(r, c.site, won, choose_primary(c.site.name, won, c.primary))

Won(cs, claims, i) == OnlyIn(cs[i].effective, {d \in Domains : claims[d] = i})

RoutersUpTo(cs, claims) ==
    LET router[n \in 0 .. Len(cs)] ==
            IF n = 0 THEN EmptyRouter
            ELSE IF cs[n].eligible THEN Insert(router[n - 1], cs[n], Won(cs, claims, n))
            ELSE router[n - 1]
    IN  router
InsertAll(cs, claims) == RoutersUpTo(cs, claims)[Len(cs)]

WithRules(cfg, r) ==
    [r EXCEPT !.rules = [n \in Names |-> UNION {RulesOf(cfg, s) : s \in {t \in r.sites : t.name = n}}]]

Route(cfg, cs) == WithRules(cfg, InsertAll(cs, build_claims(cs)))
build(cfg, sites) == Route(cfg, claimants(cfg, sites))

\* The registered name a request for exact host h is served by: its exact
\* entry, else the entry of the wildcard that covers it.
resolve_route_wildcard_first(r, h) ==
    IF WildcardOf[h] # NoDomain /\ r.owner[WildcardOf[h]] # NoDomain
    THEN r.owner[WildcardOf[h]] ELSE r.owner[h]
resolve_route(r, h) ==
    CASE r.owner[h] # NoDomain -> r.owner[h]
      [] r.owner[h] = NoDomain /\ WildcardOf[h] # NoDomain -> r.owner[WildcardOf[h]]
      [] OTHER -> NoDomain

\* What the doctor is told: each contested domain that somebody owns, with
\* the index of the winner and of every loser.
Lost(claims, wanted) ==
    {[domain |-> d, winner |-> claims[d], losers |-> wanted[d] \ {claims[d]}] :
        d \in {e \in Domains : (\E i, j \in wanted[e] : i # j) /\ claims[e] # 0}}

collisions_skipping_shadowed(cs) ==
    Lost(build_claims(cs),
         [d \in Domains |-> {i \in DOMAIN cs : cs[i].eligible /\ d \in Range(cs[i].effective)}])
collisions(cs) ==
    Lost(build_claims(cs), [d \in Domains |-> {i \in DOMAIN cs : d \in Range(cs[i].effective)}])

-----------------------------------------------------------------------------
(* The daemon's configuration and the requests that change it.             *)

CONSTANTS
    Roots,          \* directories a user may park
    RootOrder,      \* the order in which the parked set is iterated
    Parent,         \* [Dirs -> Roots]: the parent directory of a document root
    DirName,        \* [Dirs -> Names]: the site name a directory's name normalises to
    Paths,          \* path prefixes of proxy and routing rules
    Ports,          \* the project port range, as naturals
    Bindings,       \* the sets of web ports a boot may come up on
    Ops,            \* the kinds of request the clients of a run send
    HandWritten,    \* the configuration files the daemon may first be started on
    Clients,        \* concurrent LinkProject requests
    MaxCustom       \* bound: domains added or suppressed and rules, over the whole configuration

ASSUME SiteConfigAssumption ==
    /\ Parent \in [Dirs -> Roots]
    /\ DirName \in [Dirs -> Names]
    /\ Range(RootOrder) = Roots
    /\ Ports \subseteq Nat \ {0}
    /\ {} \in Bindings              \* a boot that binds no web port serves nothing
    /\ \A dirs \in SUBSET Dirs : Cardinality(dirs) \in Nat     \* as for any finite set

VARIABLES
    disk,       \* the configuration file
    memory,     \* DaemonState::config
    router,     \* DaemonState::router
    pending,    \* the clone and router of a commit that has saved: {} or a singleton
    up,         \* whether a daemon process is running
    bound,      \* the web ports it listens on
    present,    \* the document roots that exist
    descriptor, \* [Dirs -> Names \cup {NoDomain}]: the site named by <dir>/orcker.yml
    linking,    \* [Clients -> the LinkProject requests that have read the descriptor]
    wake        \* the watcher has been pinged or has seen a filesystem event

vars == <<disk, memory, router, pending, up, bound, present, descriptor, linking, wake>>

DefaultConfig ==
    [parked |-> {}, linked |-> <<>>, proxies |-> <<>>, projects |-> <<>>,
     override |-> [d \in Dirs |-> "unset"],
     domains |-> [linked |-> [n \in Names |-> NoDelta], parked |-> [d \in Dirs |-> NoDelta],
                  proxy |-> [n \in Names |-> NoDelta]],
     rules |-> [linked |-> [n \in Names |-> {}], parked |-> [d \in Dirs |-> {}]]]

DeltaType == [added : Seq(Domains), suppressed : SUBSET Domains, primary : Domains \cup {NoDomain}]

LinkedType == [name : Names, dir : Dirs, secure : BOOLEAN]
ProxyType == [name : Names, secure : BOOLEAN]
ProjectType == [name : Names, dir : Dirs, port : Nat, secure : BOOLEAN]
DomainsType ==
    [linked : [Names -> DeltaType], parked : [Dirs -> DeltaType], proxy : [Names -> DeltaType]]
RulesType == [linked : [Names -> SUBSET Paths], parked : [Dirs -> SUBSET Paths]]

ConfigType ==
    [parked : SUBSET Roots, linked : Seq(LinkedType), proxies : Seq(ProxyType),
     projects : Seq(ProjectType), override : [Dirs -> {"unset", "on", "off"}],
     domains : DomainsType, rules : RulesType]

\* A site that is not a whole-host proxy has a document root.
SiteType ==
    {s \in [kind : {"linked", "parked", "proxy", "project"}, name : Names,
            dir : Dirs \cup {NoDomain}, secure : BOOLEAN] :
        s.kind \in {"linked", "parked"} => s.dir \in Dirs}

RouterType ==
    [sites : SUBSET SiteType, owner : [Domains -> Names \cup {NoDomain}],
     primary : [Names -> Exact \cup {NoDomain}], rules : [Names -> SUBSET Paths]]

\* A hand-written file has passed the parser, and not yet Config::validate.
ASSUME HandWrittenAssumption == HandWritten \subseteq ConfigType

NamesIn(s) == {s[i].name : i \in DOMAIN s}
PortsIn(s) == {s[i].port : i \in DOMAIN s}
Unnamed(s, name) == OnlyIn(s, {e \in Range(s) : e.name # name})
Secured(s, name, secure) ==
    [i \in DOMAIN s |-> IF s[i].name = name THEN [s[i] EXCEPT !.secure = secure] ELSE s[i]]

-----------------------------------------------------------------------------
(* Config::validate, the rules about sites, proxies, projects and domains. *)

validate_unique_linked(c) == Cardinality(NamesIn(c.linked)) = Len(c.linked)

validate_proxies(c) ==
    /\ Cardinality(NamesIn(c.proxies)) = Len(c.proxies)
    /\ NamesIn(c.proxies) \cap NamesIn(c.linked) = {}

validate_projects(c) ==
    /\ Cardinality(NamesIn(c.projects)) = Len(c.projects)
    /\ NamesIn(c.projects) \cap (NamesIn(c.linked) \cup NamesIn(c.proxies)) = {}
    /\ 0 \notin PortsIn(c.projects)
    /\ Cardinality(PortsIn(c.projects)) = Len(c.projects)

Deltas(c) ==
    Range(c.domains.linked) \cup Range(c.domains.parked) \cup Range(c.domains.proxy)

validate_domains(c) ==
    \A delta \in Deltas(c) :
        /\ Cardinality(Range(delta.added)) = Len(delta.added)
        /\ Range(delta.added) \cap delta.suppressed = {}
        /\ delta.primary \notin Wildcards

validate_route_rules(c) ==
    \A n \in Names : c.rules.linked[n] # {} => n \in NamesIn(c.linked)

validate(c) ==
    /\ validate_unique_linked(c) /\ validate_domains(c) /\ validate_proxies(c)
    /\ validate_projects(c) /\ validate_route_rules(c)

-----------------------------------------------------------------------------
(* scan_sites: the parked directories, root by root, in whatever order the *)
(* filesystem lists them, skipping names a linked site has; then the       *)
(* linked sites.                                                           *)

parked_site_name(c, d) ==
    IF DirName[d] \in NamesIn(c.linked) THEN NoDomain ELSE DirName[d]

build_parked_site(c, d) ==
    [kind |-> "parked", name |-> DirName[d], dir |-> d, secure |-> c.override[d] = "on"]

LinkedSites(c) ==
    [i \in DOMAIN c.linked |->
        [kind |-> "linked", name |-> c.linked[i].name, dir |-> c.linked[i].dir,
         secure |-> c.linked[i].secure]]

RootIndex(d) == CHOOSE i \in DOMAIN RootOrder : RootOrder[i] = Parent[d]

Listings(c, dirs) ==
    LET visible == {d \in dirs : Parent[d] \in c.parked /\ parked_site_name(c, d) # NoDomain}
    IN  {s \in [1 .. Cardinality(visible) -> visible] :
            /\ Range(s) = visible
            /\ \A i, j \in DOMAIN s : i < j => RootIndex(s[i]) <= RootIndex(s[j])}

scan_sites_parked_only(c, dirs) ==
    {[i \in DOMAIN s |-> build_parked_site(c, s[i])] : s \in Listings(c, dirs)}
scan_sites(c, dirs) ==
    {[i \in DOMAIN s |-> build_parked_site(c, s[i])] \o LinkedSites(c) : s \in Listings(c, dirs)}

\* The routers a build may give: one per order the directories may be listed in.
build_router(c, dirs) == {build(c, sites) : sites \in scan_sites(c, dirs)}

-----------------------------------------------------------------------------
(* mutate.rs.  Each apply_ operator gives the set of edited configurations:*)
(* one when the request is accepted, none when it is refused.              *)

apply_park(c, root) == {[c EXCEPT !.parked = @ \cup {root}]}

\* What was customised for the parked directory moves to the linked name.
Promote(byDir, byName, dir, name, none) ==
    IF byDir[dir] = none THEN byName ELSE [byName EXCEPT ![name] = byDir[dir]]

apply_link_keeps_parked_delta(c, name, dir) ==
    {[c EXCEPT !.linked = Append(@, [name |-> name, dir |-> dir, secure |-> FALSE])] :
        x \in {y \in {0} : name \notin NamesIn(c.linked)}}
apply_link(c, name, dir) ==
    LET linked == Append(c.linked, [name |-> name, dir |-> dir, secure |-> FALSE])
        domains == [linked |-> Promote(c.domains.parked, c.domains.linked, dir, name, NoDelta),
                    parked |-> [c.domains.parked EXCEPT ![dir] = NoDelta],
                    proxy |-> c.domains.proxy]
        rules == [linked |-> Promote(c.rules.parked, c.rules.linked, dir, name, {}),
                  parked |-> [c.rules.parked EXCEPT ![dir] = {}]]
    IN  IF name \in NamesIn(c.linked) THEN {}
        ELSE {[c EXCEPT !.linked = linked, !.domains = domains, !.rules = rules]}

is_under_root(dir, root) == Parent[dir] = root

apply_unpark(c, root) ==
    {[c EXCEPT !.parked = @ \ {root},
               !.domains.parked = [d \in Dirs |-> IF is_under_root(d, root) THEN NoDelta ELSE @[d]],
               !.rules.parked = [d \in Dirs |-> IF is_under_root(d, root) THEN {} ELSE @[d]]]}

parent_is_parked_root(c, dir) == Parent[dir] \in c.parked

\* What the linked site carried goes back to its directory when that is
\* under a parked root, overwriting what is recorded there.
Demote(byName, byDir, name, dir, none, reparks) ==
    IF reparks /\ byName[name] # none THEN [byDir EXCEPT ![dir] = byName[name]] ELSE byDir

UnlinkProject(c, name) ==
    [c EXCEPT !.projects = Unnamed(@, name), !.domains.proxy[name] = NoDelta]

UnlinkSite(c, name) ==
    LET dir == (CHOOSE s \in Range(c.linked) : s.name = name).dir
        reparks == parent_is_parked_root(c, dir)
    IN  [c EXCEPT
            !.linked = Unnamed(@, name),
            !.domains.linked[name] = NoDelta,
            !.domains.parked = Demote(c.domains.linked, @, name, dir, NoDelta, reparks),
            !.rules.linked[name] = {},
            !.rules.parked = Demote(c.rules.linked, @, name, dir, {}, reparks)]

apply_unlink(c, name) ==
    CASE name \in NamesIn(c.projects) -> {UnlinkProject(c, name)}
      [] name \in NamesIn(c.linked) \ NamesIn(c.projects) -> {UnlinkSite(c, name)}
      [] OTHER -> {}

apply_set_secure_project_first(c, r, name, secure) ==
    CASE name \in NamesIn(c.projects) -> {[c EXCEPT !.projects = Secured(@, name, secure)]}
      [] name \in NamesIn(c.linked) -> {[c EXCEPT !.linked = Secured(@, name, secure)]}
      [] OTHER -> {[c EXCEPT !.override[s.dir] = IF secure THEN "on" ELSE "off"] : s \in get(r, name)}
apply_set_secure(c, r, name, secure) ==
    CASE name \in NamesIn(c.linked) -> {[c EXCEPT !.linked = Secured(@, name, secure)]}
      [] name \notin NamesIn(c.linked) /\ get(r, name) # {} ->
            {[c EXCEPT !.override[s.dir] = IF secure THEN "on" ELSE "off"] : s \in get(r, name)}
      [] name \notin NamesIn(c.linked) /\ get(r, name) = {} /\ name \in NamesIn(c.proxies) ->
            {[c EXCEPT !.proxies = Secured(@, name, secure)]}
      [] name \notin NamesIn(c.linked \o c.proxies) /\ get(r, name) = {}
            /\ name \in NamesIn(c.projects) ->
            {[c EXCEPT !.projects = Secured(@, name, secure)]}
      [] OTHER -> {}

\* A target under the TLD is refused before any of this; targets are not modelled.
apply_add_proxy(c, r, name) ==
    IF get(r, name) # {} \/ name \in NamesIn(c.proxies) \/ r.owner[name] # NoDomain THEN {}
    ELSE {[c EXCEPT !.proxies = Append(@, [name |-> name, secure |-> FALSE])]}

apply_remove_proxy(c, name) ==
    IF name \notin NamesIn(c.proxies) THEN {}
    ELSE {[c EXCEPT !.proxies = Unnamed(@, name), !.domains.proxy[name] = NoDelta]}

\* Proxy rules and routing rules are kept alike; a rule is its path prefix.
apply_add_rule(c, r, name, path) ==
    UNION {IF path \in RulesOf(c, s) THEN {}
           ELSE IF s.kind = "linked" THEN {[c EXCEPT !.rules.linked[name] = @ \cup {path}]}
           ELSE {[c EXCEPT !.rules.parked[s.dir] = @ \cup {path}]} : s \in get(r, name)}

apply_remove_rule(c, r, name, path) ==
    UNION {IF path \notin RulesOf(c, s) THEN {}
           ELSE IF s.kind = "linked" THEN {[c EXCEPT !.rules.linked[name] = @ \ {path}]}
           ELSE {[c EXCEPT !.rules.parked[s.dir] = @ \ {path}]} : s \in get(r, name)}

-----------------------------------------------------------------------------
(* The domains of a linked site, a parked site or a whole-host proxy.      *)

resolve_domain_target(c, r, name) ==
    CASE name \in NamesIn(c.linked) -> {[map |-> "linked", key |-> name]}
      [] name \notin NamesIn(c.linked) /\ get(r, name) # {} ->
            {[map |-> "parked", key |-> s.dir] : s \in get(r, name)}
      [] name \notin NamesIn(c.linked) /\ get(r, name) = {} /\ name \in NamesIn(c.proxies) ->
            {[map |-> "proxy", key |-> name]}
      [] OTHER -> {}

delta_mut(c, t) == c.domains[t.map][t.key]
WithDelta(c, t, delta) == [c EXCEPT !.domains[t.map][t.key] = delta]

claimed_elsewhere(r, name, dom) == r.owner[dom] \notin {NoDomain, name}

exact_count(name, added, suppressed) ==
    (IF name \in suppressed THEN 0 ELSE 1) + Len(OnlyIn(added, Exact))

apply_add_domain_unchecked(c, r, name, dom) ==
    {WithDelta(c, t, [delta_mut(c, t) EXCEPT !.added = Included(@, dom)]) :
        t \in resolve_domain_target(c, r, name)}
apply_add_domain(c, r, name, dom) ==
    {WithDelta(c, t, IF dom = name
                     THEN [delta_mut(c, t) EXCEPT !.suppressed = @ \ {name}]
                     ELSE [delta_mut(c, t) EXCEPT !.added = Included(@, dom)]) :
        t \in {u \in resolve_domain_target(c, r, name) : ~claimed_elsewhere(r, name, dom)}}

apply_remove_domain(c, r, name, dom) ==
    LET old(t) == delta_mut(c, t)
        added(t) == OnlyIn(old(t).added, Domains \ {dom})
        suppressed(t) == IF dom \in Range(old(t).added) THEN old(t).suppressed
                         ELSE old(t).suppressed \cup {name}
    IN  {WithDelta(c, t, [added |-> added(t), suppressed |-> suppressed(t),
                          primary |-> IF old(t).primary = dom THEN NoDomain ELSE old(t).primary]) :
            t \in {u \in resolve_domain_target(c, r, name) :
                     /\ dom = name \/ dom \in Range(old(u).added)
                     /\ exact_count(name, added(u), suppressed(u)) # 0}}

apply_set_primary_domain_only_stores(c, r, name, dom) ==
    {WithDelta(c, t, [delta_mut(c, t) EXCEPT !.primary = dom]) :
        t \in {u \in resolve_domain_target(c, r, name) : dom \notin Wildcards}}
apply_set_primary_domain(c, r, name, dom) ==
    {WithDelta(c, t, IF dom = name
                     THEN [delta_mut(c, t) EXCEPT !.suppressed = @ \ {name}, !.primary = NoDomain]
                     ELSE [delta_mut(c, t) EXCEPT !.added = Included(@, dom), !.primary = dom]) :
        t \in {u \in resolve_domain_target(c, r, name) :
                 dom \notin Wildcards /\ ~claimed_elsewhere(r, name, dom)}}

apply_reset_domains(c, r, name) ==
    {WithDelta(c, t, NoDelta) : t \in resolve_domain_target(c, r, name)}

-----------------------------------------------------------------------------
(* link.rs: where a project is registered and on which port.               *)

derive_name(dir, requested, existing) ==
    CASE requested # NoDomain -> requested
      [] requested = NoDomain /\ existing # NoDomain -> existing
      [] OTHER -> DirName[dir]

\* The lowest port of the range that no project has and nothing listens on.
allocate_port(taken, busy) ==
    {p \in Ports \ (taken \cup busy) : \A q \in Ports \ (taken \cup busy) : p <= q}

\* The projects a link may register: none when it is refused or already done.
plan_link(c, q, busy) ==
    LET name == derive_name(q.dir, q.requested, q.existing)
        ports == IF q.port # 0 THEN {q.port} \ PortsIn(c.projects)
                 ELSE allocate_port(PortsIn(c.projects), busy)
    IN  IF name \in NamesIn(c.projects) \cup NamesIn(c.linked) \cup NamesIn(c.proxies) THEN {}
        ELSE {[name |-> name, dir |-> q.dir, port |-> p, secure |-> FALSE] : p \in ports}

project_loop_unchecked(project) == FALSE
project_loop_refusal(project) == project.port \in bound

-----------------------------------------------------------------------------
Custom(c) ==
    LET changed(m) == {e \in (DOMAIN m) \X Domains :
                          e[2] \in Range(m[e[1]].added) \cup m[e[1]].suppressed}
        rules(m) == {e \in (DOMAIN m) \X Paths : e[2] \in m[e[1]]}
    IN  Cardinality(changed(c.domains.linked)) + Cardinality(changed(c.domains.parked))
          + Cardinality(changed(c.domains.proxy))
          + Cardinality(rules(c.rules.linked)) + Cardinality(rules(c.rules.parked))

Init ==
    /\ disk \in HandWritten
    /\ memory = DefaultConfig
    /\ router = EmptyRouter
    /\ pending = {}
    /\ up = FALSE
    /\ bound = {}
    /\ present \in (IF "fs" \in Ops THEN {{}, Dirs} ELSE {Dirs})
    /\ descriptor = [d \in Dirs |-> NoDomain]
    /\ linking = [c \in Clients |-> {}]
    /\ wake = FALSE

\* Each boot binds anew: the configured ports, the fallback ports SetFallbackPorts last saved,
\* or none; it does not look at the ports of the projects, and neither does Config::validate.
BindWebPorts == bound' \in Bindings

\* An invalid file refuses to start; a valid one gives the first router.
Start ==
    /\ ~up
    /\ validate(disk)
    /\ \E r \in build_router(disk, present) : router' = r
    /\ memory' = disk
    /\ up' = TRUE
    /\ BindWebPorts
    /\ UNCHANGED <<disk, pending, present, descriptor, linking, wake>>

\* The config lock is held from the edit to the publication.
Locked == pending # {}

commit_config_publishes_first(new) ==
    /\ validate(new)
    /\ \E r \in build_router(new, present) : pending' = {[config |-> new, router |-> r]}
    /\ memory' = new
    /\ UNCHANGED <<disk, router>>
commit_config_unvalidated(new) ==
    /\ \E r \in build_router(new, present) : pending' = {[config |-> new, router |-> r]}
    /\ disk' = new
    /\ UNCHANGED <<memory, router>>
commit_config_stale_router(new) ==
    /\ validate(new)
    /\ pending' = {[config |-> new, router |-> router]}
    /\ disk' = new
    /\ UNCHANGED <<memory, router>>
commit_config(new) ==
    /\ validate(new)
    /\ \E r \in build_router(new, present) : pending' = {[config |-> new, router |-> r]}
    /\ disk' = new
    /\ UNCHANGED <<memory, router>>

Publish ==
    /\ Locked
    /\ \E p \in pending : memory' = p.config /\ router' = p.router
    /\ pending' = {}
    /\ wake' = TRUE
    /\ UNCHANGED <<disk, up, bound, present, descriptor, linking>>

\* An accepted mutation; a refused or failed one changes nothing.
handle_mutation(edits) ==
    /\ up /\ ~Locked
    /\ \E new \in edits : Custom(new) <= MaxCustom /\ commit_config(new)
    /\ UNCHANGED <<up, bound, present, descriptor, linking, wake>>

Park(root) == "park" \in Ops /\ handle_mutation(apply_park(memory, root))
Unpark(root) == "park" \in Ops /\ handle_mutation(apply_unpark(memory, root))
Link(name, dir) ==
    "link" \in Ops /\ dir \in present /\ handle_mutation(apply_link(memory, name, dir))
Unlink(name) == Ops \cap {"link", "project"} # {} /\ handle_mutation(apply_unlink(memory, name))
SetSecure(name, secure) ==
    "secure" \in Ops /\ handle_mutation(apply_set_secure(memory, router, name, secure))
AddProxy(name) == "proxy" \in Ops /\ handle_mutation(apply_add_proxy(memory, router, name))
RemoveProxy(name) == "proxy" \in Ops /\ handle_mutation(apply_remove_proxy(memory, name))
AddRule(name, path) ==
    "rules" \in Ops /\ handle_mutation(apply_add_rule(memory, router, name, path))
RemoveRule(name, path) ==
    "rules" \in Ops /\ handle_mutation(apply_remove_rule(memory, router, name, path))
AddDomain(name, dom) ==
    "domains" \in Ops /\ handle_mutation(apply_add_domain(memory, router, name, dom))
RemoveDomain(name, dom) ==
    "domains" \in Ops /\ handle_mutation(apply_remove_domain(memory, router, name, dom))
SetPrimaryDomain(name, dom) ==
    "domains" \in Ops /\ handle_mutation(apply_set_primary_domain(memory, router, name, dom))
ResetDomains(name) ==
    "domains" \in Ops /\ handle_mutation(apply_reset_domains(memory, router, name))

\* LinkProject reads the descriptor before it takes the config lock.
LinkProjectRead(c, dir, requested, port) ==
    /\ "project" \in Ops
    /\ up /\ dir \in present
    /\ linking[c] = {}
    /\ linking' = [linking EXCEPT ![c] =
                      {[dir |-> dir, requested |-> requested, port |-> port,
                        existing |-> descriptor[dir]]}]
    /\ UNCHANGED <<disk, memory, router, pending, up, bound, present, descriptor, wake>>

Described(q, project) ==
    IF q.existing = NoDomain THEN [descriptor EXCEPT ![q.dir] = project.name] ELSE descriptor

LinkProject(c, q, busy) ==
    /\ up /\ ~Locked
    /\ q \in linking[c]
    /\ \E project \in plan_link(memory, q, busy) :
          /\ ~project_loop_refusal(project)
          /\ descriptor' = Described(q, project)
          /\ commit_config([memory EXCEPT !.projects = Append(@, project)])
    /\ linking' = [linking EXCEPT ![c] = {}]
    /\ UNCHANGED <<up, bound, present, wake>>

\* Refused, already linked, or failed in the commit after the descriptor was written.
LinkProjectFails(c, q, busy) ==
    /\ up /\ ~Locked
    /\ q \in linking[c]
    /\ LET plan == {p \in plan_link(memory, q, busy) :
                      ~project_loop_refusal(p)}
       IN  \/ plan = {} /\ descriptor' = descriptor
           \/ \E project \in plan : descriptor' = Described(q, project)
    /\ linking' = [linking EXCEPT ![c] = {}]
    /\ UNCHANGED <<disk, memory, router, pending, up, bound, present, wake>>

\* The watcher rebuilds from the current configuration under the same lock;
\* an unreadable root keeps the router it had.
Recompute ==
    /\ up /\ ~Locked /\ wake
    /\ router' = router \/ \E r \in build_router(memory, present) : router' = r
    /\ wake' = FALSE
    /\ UNCHANGED <<disk, memory, pending, up, bound, present, descriptor, linking>>

\* Somebody creates or removes a directory.
ChangeDirs(dir) ==
    /\ "fs" \in Ops
    /\ present' = IF dir \in present THEN present \ {dir} ELSE present \cup {dir}
    /\ wake' = (wake \/ up)
    /\ UNCHANGED <<disk, memory, router, pending, up, bound, descriptor, linking>>

Crash ==
    /\ "crash" \in Ops
    /\ up
    /\ up' = FALSE
    /\ bound' = {}
    /\ pending' = {}
    /\ wake' = FALSE
    /\ memory' = DefaultConfig
    /\ router' = EmptyRouter
    /\ linking' = [c \in Clients |-> {}]
    /\ UNCHANGED <<disk, present, descriptor>>

Next ==
    \/ Start \/ Publish \/ Recompute \/ Crash
    \/ \E root \in Roots : Park(root) \/ Unpark(root)
    \/ \E name \in Names, dir \in Dirs : Link(name, dir)
    \/ \E name \in Names : Unlink(name) \/ AddProxy(name) \/ RemoveProxy(name) \/ ResetDomains(name)
    \/ \E name \in Names, secure \in BOOLEAN : SetSecure(name, secure)
    \/ \E name \in Names, path \in Paths : AddRule(name, path) \/ RemoveRule(name, path)
    \/ \E name \in Names, dom \in Domains :
         AddDomain(name, dom) \/ RemoveDomain(name, dom) \/ SetPrimaryDomain(name, dom)
    \/ \E c \in Clients, dir \in Dirs, requested \in Names \cup {NoDomain},
         port \in Ports \cup {0} : LinkProjectRead(c, dir, requested, port)
    \/ \E c \in Clients, busy \in SUBSET Ports : \E q \in linking[c] :
         LinkProject(c, q, busy) \/ LinkProjectFails(c, q, busy)
    \/ \E dir \in Dirs : ChangeDirs(dir)

Spec == Init /\ [][Next]_vars

-----------------------------------------------------------------------------
\* The configurations on disk and in memory, the router, the pending commit
\* and the descriptors are well formed.
TypeOK ==
    /\ disk \in ConfigType /\ memory \in ConfigType /\ router \in RouterType
    /\ pending \subseteq [config : ConfigType, router : RouterType]
    /\ \A p, q \in pending : p = q
    /\ up \in BOOLEAN /\ wake \in BOOLEAN /\ bound \in Bindings
    /\ present \subseteq Dirs
    /\ descriptor \in [Dirs -> Names \cup {NoDomain}]

\* Whatever sequence of mutations, crashes and restarts has run, the file the
\* daemon wrote is one it can start on: Config::validate accepts it.
FileStaysLoadable == up => validate(disk)

\* While nobody is in a commit, the file and the configuration in memory are
\* the same (handle_mutation: a failed mutation leaves both untouched).
DiskIsMemory == up /\ ~Locked => disk = memory

\* While nobody is in a commit, the live router is one that the current
\* configuration gives for some set of existing directories: no mutation is
\* served by the routes of an older configuration.
RouterFollowsConfig ==
    up /\ ~Locked => \E dirs \in SUBSET Dirs : router \in build_router(memory, dirs)

\* A commit of one of the given edits is under way: what it will publish.
Commits(edits) == ~Locked /\ \E p \in pending' : p.config \in edits
Candidate == (CHOOSE p \in pending' : TRUE).router

\* Two claimants want the domain: what the doctor reports.
Contested(d) ==
    \E sites \in scan_sites(memory, present) :
        \E x \in collisions(claimants(memory, sites)) : x.domain = d

\* The directories are as the router saw them, and their order decides nothing.
Settled == build_router(memory, present) = {router}

\* After AddDomain or SetPrimaryDomain answers Ok the domain routes to the
\* site, and the primary is the one asked for: a claim that the guard lets
\* pass is not lost to a claimant that comes before.
DomainTakesEffect ==
    [][Settled => \A n \in Names, d \in Domains :
        /\ Commits(apply_add_domain(memory, router, n, d)) => Candidate.owner[d] = n
        /\ Commits(apply_set_primary_domain(memory, router, n, d)) =>
             Candidate.owner[d] = n /\ Candidate.primary[n] = d]_vars

\* Editing the domains of one site takes no domain from another.
DomainsOfOthersKept ==
    [][Settled => \A n \in Names :
        Commits((UNION {apply_add_domain(memory, router, n, d)
                        \cup apply_set_primary_domain(memory, router, n, d)
                        \cup apply_remove_domain(memory, router, n, d) : d \in Domains})
                \cup apply_reset_domains(memory, router, n)) =>
            \A e \in Domains : router.owner[e] \in {n, NoDomain, Candidate.owner[e]}]_vars

\* After Link(name, dir) answers Ok the name is served from dir; after
\* AddProxy(name) the apex routes to the proxy, unless a directory that came
\* since the last rebuild has it.
LinkTakesEffect ==
    [][\A n \in Names :
        /\ \A d \in Dirs : Commits(apply_link(memory, n, d)) =>
              \E s \in Candidate.sites : s.name = n /\ s.dir = d /\ s.kind = "linked"
        /\ Commits(apply_add_proxy(memory, router, n)) /\ Settled => Candidate.owner[n] = n]_vars

\* SetSecure reaches what is served under the name, whether that is a linked
\* site, a parked site with a project of the same name, a proxy or a project
\* (unless another directory has taken the name since the last rebuild).
SecureTakesEffect ==
    [][\A n \in Names, on \in BOOLEAN :
        Commits(apply_set_secure(memory, router, n, on)) =>
            \A s \in Candidate.sites :
                s.name = n /\ (\E t \in router.sites : t.name = n /\ t.kind = s.kind /\ t.dir = s.dir) =>
                    s.secure = on]_vars

\* Linking a parked site under its own name keeps the domains that route to
\* it and its path rules.
CustomisationFollowsSite ==
    [][\A s \in router.sites :
        s.kind = "parked" /\ Commits(apply_link(memory, s.name, s.dir)) =>
            /\ \A e \in Domains :
                 router.owner[e] = s.name => Candidate.owner[e] = s.name \/ Contested(e)
            /\ Candidate.rules[s.name] = router.rules[s.name]]_vars

\* After LinkProject answers "created" the project's name reaches the project
\* (link.rs: a name taken by a site is refused, "so linking would shadow it").
LinkedProjectIsRouted ==
    [][~Locked => \A p \in pending' : \A i \in DOMAIN p.config.projects :
        i > Len(memory.projects) =>
            \E s \in p.router.sites : s.name = p.config.projects[i].name /\ s.kind = "project"]_vars

\* Who should win a domain: the first eligible claimant that added it, and
\* only if nobody added it the first whose apex it is.
RightfulOwner(cs, d) ==
    LET wants == {i \in DOMAIN cs : cs[i].eligible /\ d \in Range(cs[i].effective)}
        explicit == {i \in wants : d # cs[i].site.name}
        first(S) == CHOOSE i \in S : \A j \in S : i <= j
    IN  CASE explicit # {} -> first(explicit)
          [] explicit = {} /\ wants # {} -> first(wants)
          [] OTHER -> 0

\* The claimants, in each order in which the directories may be listed.
Claimants == {claimants(memory, sites) : sites \in scan_sites(memory, present)}

\* The claim loop gives every domain to its rightful owner, for every order in
\* which the directories may be listed (site_domains.rs, collision rules).
ClaimsFollowTheRules ==
    up => \A cs \in Claimants :
        build_claims(cs) = [d \in Domains |-> RightfulOwner(cs, d)]

\* Which claimant's name answers for a domain.
Served(cs, d) ==
    IF d = NoDomain \/ RightfulOwner(cs, d) = 0 THEN NoDomain
    ELSE cs[RightfulOwner(cs, d)].site.name

\* No claimant is dropped by the router's safety nets: every eligible one is
\* registered and reached by every host it won, and by no other host; a
\* wildcard serves only hosts that nobody owns exactly (site_domains.rs: the
\* error arms of the inserts are unreachable).
NothingDropped ==
    up => \A cs \in Claimants : \A r \in {Route(memory, cs)} :
        /\ r.sites = {cs[i].site : i \in {j \in DOMAIN cs : cs[j].eligible}}
        /\ \A h \in Exact : resolve_route(r, h) =
              IF Served(cs, h) # NoDomain THEN Served(cs, h) ELSE Served(cs, WildcardOf[h])

\* Every claimant has an exact primary in its effective set, and the primary
\* shown for a registered one routes to it unless it lost every exact domain
\* (domain.rs: zero-exact normalisation; choose_primary over what was won).
PrimaryIsRouted ==
    up => \A cs \in Claimants : \A r \in {Route(memory, cs)} :
        /\ \A i \in DOMAIN cs : cs[i].primary \in Exact \cap Range(cs[i].effective)
        /\ \A s \in r.sites :
             (\E d \in Exact : r.owner[d] = s.name) => r.owner[r.primary[s.name]] = s.name

\* Every claimant that lost a domain to another is in the doctor's report with
\* the owner the router has, a proxy shadowed by a site's name included.
LossesReported ==
    up => \A cs \in Claimants : \A r \in {Route(memory, cs)} : \A report \in {collisions(cs)} :
        \A i \in DOMAIN cs : \A d \in Range(cs[i].effective) :
            RightfulOwner(cs, d) \notin {0, i} =>
                \E x \in report :
                    x.domain = d /\ i \in x.losers /\ cs[x.winner].site.name = r.owner[d]

\* No two projects share a port.
PortsDistinct ==
    \A i, j \in DOMAIN disk.projects : i # j => disk.projects[i].port # disk.projects[j].port

\* No request puts a project on a port this daemon listens on, where it would forward to
\* itself.  Only a boot may come up on the port of a project that is there already.
OwnPortsRefused == up => PortsIn(disk'.projects) \cap bound \subseteq PortsIn(disk.projects)

\* The state is well formed, no two projects ever share a port, and while a daemon runs none
\* comes to have one of its own, whichever ports this boot has bound.
ProjectsSound == [](TypeOK /\ PortsDistinct) /\ [][OwnPortsRefused]_vars
-----------------------------------------------------------------------------
(* Instances: two site names, one further host name below the first with   *)
(* its wildcard, one parked directory and one or two document roots in it. *)

OneWildcard == [h \in Exact |-> IF h = "api" THEN "star" ELSE NoDomain]
UnderOneRoot == [d \in Dirs |-> "r1"]
DirNames == [d \in Dirs |-> IF d = "d1" THEN "a" ELSE "b"]
OneRoot == <<"r1">>
NoFile == {DefaultConfig}

\* Configurations a user may have written: a linked site and a proxy or a project under
\* either name, over a parked root, each with its own domains.
WrittenDeltas ==
    {NoDelta}
      \cup {[added |-> <<x>>, suppressed |-> s, primary |-> p] :
              x \in {"a", "b", "api", "star"}, s \in {{}, {"a"}, {"b"}}, p \in {NoDomain, "a", "api"}}
WrittenFiles ==
    {[DefaultConfig EXCEPT !.parked = {"r1"}, !.linked = l, !.proxies = x, !.projects = y,
                           !.domains = [linked |-> [n \in Names |-> IF l = <<>> THEN NoDelta ELSE dl],
                                        parked |-> [d \in Dirs |-> IF d = "d1" THEN dp ELSE NoDelta],
                                        proxy |-> [n \in Names |-> dx]]] :
        l \in {<<>>, <<[name |-> "b", dir |-> "d1", secure |-> FALSE]>>},
        x \in {<<>>, <<[name |-> "a", secure |-> FALSE]>>},
        y \in {<<>>, <<[name |-> "b", dir |-> "d2", port |-> 1, secure |-> FALSE]>>},
        dl \in WrittenDeltas, dp \in WrittenDeltas,
        dx \in {NoDelta, [NoDelta EXCEPT !.added = <<"api">>], [NoDelta EXCEPT !.added = <<"b">>]}}
=============================================================================
