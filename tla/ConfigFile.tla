---------------------------- MODULE ConfigFile ----------------------------
(***************************************************************************)
(* orcker.toml: what a file of any schema version means (migrate, wire     *)
(* mirrors, conversion, validation) and what the daemon writes back.  A    *)
(* document is a function from the top-level keys it holds to their raw    *)
(* values; an optional value is a set of at most one element; names, paths *)
(* and versions are members of small sets that the validators tell apart.  *)
(* The file is edited by hand, loaded, changed by requests and saved.      *)
(***************************************************************************)
EXTENDS Integers, Sequences, SequencesExt, FiniteSets, TLC

CurrentVersion == 24
FirstUnprivileged == 1024
MaxSets == 1
Empty == [x \in {} |-> x]

VARIABLES
    version,    \* the file's version key
    doc,        \* the file's other keys
    mem,        \* the configuration the daemon runs with
    up,         \* is the daemon running?
    sets        \* changes made, at most MaxSets

vars == <<version, doc, mem, up, sets>>

Keys == {"tld", "dns_port", "update_channel", "symlink_protection", "mcp_enabled", "lan_enabled",
         "lan_setup_port", "ports", "php", "parked", "linked", "overrides", "services", "mail", "dumps",
         "tunnel", "groups", "domains", "proxies", "proxy_rules", "route_rules", "projects"}

BothSides == [linked |-> Empty, parked |-> Empty]

\* The defaults of the wire mirrors, for keys a file leaves out.
WireDefault ==
    [tld |-> "test", dns_port |-> 1053, update_channel |-> "stable", symlink_protection |-> TRUE,
     mcp_enabled |-> FALSE, lan_enabled |-> FALSE, lan_setup_port |-> 7073,
     ports |-> [http |-> 80, https |-> 443, fallback_http |-> {}, fallback_https |-> {}],
     php |-> [default |-> "8.3", settings |-> {}, extensions |-> Empty, version_settings |-> Empty,
              directives |-> Empty, pool |-> FALSE],
     parked |-> {}, linked |-> <<>>, overrides |-> <<>>, services |-> [array |-> {}, tables |-> Empty],
     mail |-> [enabled |-> {}, port |-> {}],
     dumps |-> [enabled |-> FALSE, port |-> {}, persist |-> FALSE, features |-> {}],
     tunnel |-> [named |-> Empty, sites |-> Empty], groups |-> [order |-> <<>>, members |-> Empty],
     domains |-> [linked |-> Empty, parked |-> Empty, proxy |-> Empty], proxies |-> <<>>,
     proxy_rules |-> BothSides, route_rules |-> BothSides, projects |-> <<>>]

Or(option, default) == IF option = {} THEN default ELSE CHOOSE x \in option : TRUE
Keep(f, P(_)) == [x \in {y \in DOMAIN f : P(f[y])} |-> f[x]]
Values(f) == {f[x] : x \in DOMAIN f}
Distinct(s) == \A i, j \in 1..Len(s) : s[i] = s[j] => i = j
Names(s) == [i \in 1..Len(s) |-> s[i].name]

-----------------------------------------------------------------------------
(* migrate.rs *)

\* split_wire_id: the service type and the site of an instance key.
Split(key) == CASE key = "reverb:a" -> <<"reverb", {"a"}>> [] key = "redis:a" -> <<"redis", {"a"}>>
                [] OTHER -> <<key, {}>>

Instance(enabled) == [enabled |-> enabled, site |-> {}, overrides |-> {}]

\* v2 to v3: the array of enabled names becomes one table per name.
ServiceTables(s) ==
    [array |-> {}, tables |-> [k \in s.array |-> Instance({TRUE})] @@ s.tables]

\* v14 to v15: every instance without a site starts with the daemon, as all did.
StartExisting(s) ==
    [s EXCEPT !.tables = [k \in DOMAIN s.tables |->
        IF Split(k)[2] = {} THEN [s.tables[k] EXCEPT !.enabled = {TRUE}] ELSE s.tables[k]]]

\* The steps that only set the version.
VersionOnly(n) == n \notin {2, 14}

\* STEPS[n], a migration step.
Step(n, d) ==
    CASE VersionOnly(n) \/ "services" \notin DOMAIN d -> d
      [] n = 2 -> [d EXCEPT !.services = ServiceTables(@)]
      [] n = 14 -> [d EXCEPT !.services = StartExisting(@)]

\* migrate::up from the version found.
Up(found, d) ==
    FoldLeft(LAMBDA e, n : Step(n, e), d, [i \in 1..(CurrentVersion - found) |-> found + i - 1])

-----------------------------------------------------------------------------
(* TryFrom<Wire>: conversions, which fail on a name, version or URL that    *)
(* does not parse and drop settings that do not validate                   *)

PhpVersions == {"8.3", "8.4"}
Labels == {"a", "b", "c"}

\* The text of a target: scheme, host, is the host in brackets?, and port, if it has one.
Url(scheme, host, boxed, port) == [scheme |-> scheme, host |-> host, boxed |-> boxed, port |-> port]
LowerAscii(text) == CASE text = "HTTP" -> "http" [] text = "App.dev" -> "app.dev" [] OTHER -> text
HasColon(host) == host = "::1"

\* split_host_port: an address with colons of its own is a host only within brackets.
SplitsHostPort(u) == u.boxed \/ ~HasColon(u.host)
IsValidHost(host) == host \notin {"", "a b"}

\* UpstreamTarget::from_url_str
UrlPort(u) == Or(u.port, IF LowerAscii(u.scheme) = "https" THEN 443 ELSE 80)
ParsesUrl(u) ==
    /\ LowerAscii(u.scheme) \in {"http", "https"} /\ SplitsHostPort(u) /\ IsValidHost(u.host)
    /\ UrlPort(u) \in 1..65535
FromUrl(u) == [secure |-> LowerAscii(u.scheme) = "https", host |-> LowerAscii(u.host), port |-> UrlPort(u)]

\* Display for UpstreamTarget
Display(t) == Url(IF t.secure THEN "https" ELSE "http", t.host, HasColon(t.host), {t.port})

\* ProxyRule::new and RouteRule::new: an absolute prefix, its trailing slash dropped.
ValidPrefix(prefix) == prefix \in {"/x", "/x/"}
Normalized(prefix) == IF prefix = "/x/" THEN "/x" ELSE prefix
WithPrefixes(section) == [side \in DOMAIN section |-> [site \in DOMAIN section[side] |->
    [i \in 1..Len(section[side][site]) |-> [section[side][site][i] EXCEPT !.prefix = Normalized(@)]]]]
WithTargets(section, T(_)) == [side \in DOMAIN section |-> [site \in DOMAIN section[side] |->
    [i \in 1..Len(section[side][site]) |-> [section[side][site][i] EXCEPT !.target = T(@)]]]]

SingleServices == {"redis", "mysql"}
PerSiteServices == {"reverb"}

Converts(d) ==
    /\ d.tld = "test" /\ d.php.default \in PhpVersions
    /\ DOMAIN d.php.extensions \cup DOMAIN d.php.version_settings \cup DOMAIN d.php.directives \subseteq PhpVersions
    /\ \A i \in 1..Len(d.overrides) : d.overrides[i].php \subseteq PhpVersions
    /\ \A i \in 1..Len(d.linked) : d.linked[i].php \in PhpVersions /\ d.linked[i].name \in Labels
    /\ \A i \in 1..Len(d.proxies) : ParsesUrl(d.proxies[i].target) /\ d.proxies[i].name \in Labels
    /\ \A i \in 1..Len(d.projects) : d.projects[i].name \in Labels
    /\ \A side \in {"linked", "parked"} : \A rules \in Values(d.proxy_rules[side]) :
         \A i \in 1..Len(rules) : ValidPrefix(rules[i].prefix) /\ ParsesUrl(rules[i].target)
    /\ \A side \in {"linked", "parked"} : \A rules \in Values(d.route_rules[side]) :
         \A i \in 1..Len(rules) : ValidPrefix(rules[i].prefix) /\ rules[i].target # ".."
    /\ \A side \in {"linked", "parked", "proxy"} : \A delta \in Values(d.domains[side]) :
         "" \notin ToSet(delta.added) \cup delta.suppressed \cup delta.primary

\* convert_version_settings, convert_directives: bad entries are left out, and
\* a version left with none.
Lenient(f) == Keep([v \in DOMAIN f |-> f[v] \ {"bad"}], LAMBDA e : e # {})

\* convert_extensions: a missing name is the file's base name.
Extensions(f) == [v \in DOMAIN f |-> [i \in 1..Len(f[v]) |->
                    [name |-> Or(f[v][i].name, f[v][i].path), path |-> f[v][i].path]]]

\* The last of two [[overrides]] for a path is kept.
Overrides(s) == [p \in {s[i].path : i \in 1..Len(s)} |->
                   LET last == CHOOSE i \in 1..Len(s) : s[i].path = p /\ \A j \in i+1..Len(s) : s[j].path # p
                   IN  [php |-> s[last].php, web_root |-> s[last].web_root]]

\* default_autostart_for_key and convert_service_overrides.
Service(key, i) ==
    [enabled |-> Or(i.enabled, Split(key)[1] \notin PerSiteServices), site |-> i.site,
     overrides |-> IF Split(key)[1] \in SingleServices THEN i.overrides \ {"bad"} ELSE {}]

Config(d) ==
    [d EXCEPT
       !.ports = [@ EXCEPT !.fallback_http = Or(@, 8080), !.fallback_https = Or(@, 8443)],
       !.php = [x \in {"default", "settings", "extensions", "version_settings", "directives"} |->
                  CASE x = "extensions" -> Extensions(d.php[x])
                    [] x \in {"version_settings", "directives"} -> Lenient(d.php[x])
                    [] OTHER -> d.php[x]],
       !.overrides = Overrides(@),
       !.proxies = [i \in 1..Len(@) |-> [@[i] EXCEPT !.target = FromUrl(@)]],
       !.proxy_rules = WithTargets(WithPrefixes(@), FromUrl), !.route_rules = WithPrefixes(@),
       !.services = [k \in DOMAIN d.services.tables |-> Service(k, d.services.tables[k])],
       !.mail = [enabled |-> Or(@.enabled, TRUE), port |-> Or(@.port, 2525)],
       !.dumps = [@ EXCEPT !.port = Or(@, 2304)]]

-----------------------------------------------------------------------------
(* validate *)

ValidPorts(c) ==
    /\ 0 \notin {c.ports.http, c.ports.https, c.mail.port, c.dumps.port}
    /\ c.ports.http # c.ports.https /\ c.ports.fallback_http # c.ports.fallback_https
    /\ \A p \in {c.ports.fallback_http, c.ports.fallback_https, c.lan_setup_port} : p >= FirstUnprivileged

LinkedNames(c) == ToSet(Names(c.linked))

ValidPaths(c) ==
    /\ "" \notin c.parked \cup DOMAIN c.overrides
    /\ \A i \in 1..Len(c.linked) : c.linked[i].web # ".."
    /\ \A p \in DOMAIN c.overrides : ".." \notin c.overrides[p].web_root

ValidServices(c) == \A k \in DOMAIN c.services :
    /\ \/ Split(k)[1] \in SingleServices /\ Split(k)[2] = {}
       \/ Split(k)[1] \in PerSiteServices /\ Split(k)[2] # {} /\ Split(k)[2] \subseteq Labels
    /\ c.services[k].site # {} => c.services[k].site = Split(k)[2]

ValidPhp(c) ==
    /\ "bad" \notin c.php.settings
    /\ \A entries \in Values(c.php.extensions) :
         Distinct(Names(entries)) /\ \A i \in 1..Len(entries) : entries[i].path # "" /\ entries[i].name # ""

SafeKey(s) == s \notin {"", "a/b"}

ValidTunnel(c) ==
    /\ Cardinality(DOMAIN c.tunnel.named) <= 1
    /\ \A name \in DOMAIN c.tunnel.named : SafeKey(name) /\ SafeKey(c.tunnel.named[name])
    /\ \A site \in DOMAIN c.tunnel.sites : SafeKey(site) /\ c.tunnel.sites[site] \notin {"", "nodot"}
    /\ \A s, t \in DOMAIN c.tunnel.sites : c.tunnel.sites[s] = c.tunnel.sites[t] => s = t

Lower(name) == IF name = "Blog" THEN "blog" ELSE name

ValidGroups(c) ==
    LET order == [i \in 1..Len(c.groups.order) |-> Lower(c.groups.order[i])]
    IN  /\ {"", "Unallocated"} \cap ToSet(order) = {} /\ Distinct(order)
        /\ \A g \in Values(c.groups.members) : Lower(g) \in ToSet(order)

ValidDomains(c) == \A side \in {"linked", "parked", "proxy"} : \A d \in Values(c.domains[side]) :
    Distinct(d.added) /\ ToSet(d.added) \cap d.suppressed = {} /\ "*" \notin d.primary

UniquePrefixes(rules) == Distinct([i \in 1..Len(rules) |-> rules[i].prefix])
UnderTld(host) == host \in {"test", "blog.test"}
NoLoop(rules) == \A i \in 1..Len(rules) : ~UnderTld(rules[i].target.host)

ValidProxies(c) ==
    /\ Distinct(Names(c.linked \o c.proxies)) /\ NoLoop(c.proxies)
    /\ DOMAIN c.proxy_rules.linked \subseteq LinkedNames(c)
    /\ \A side \in {"linked", "parked"} : \A rules \in Values(c.proxy_rules[side]) :
         UniquePrefixes(rules) /\ NoLoop(rules)

ValidRouteRules(c) ==
    /\ DOMAIN c.route_rules.linked \subseteq LinkedNames(c)
    /\ \A side \in {"linked", "parked"} : \A rules \in Values(c.route_rules[side]) : UniquePrefixes(rules)

ValidProjects(c) ==
    /\ Distinct(Names(c.linked \o c.proxies \o c.projects))
    /\ \A i \in 1..Len(c.projects) : c.projects[i].port # 0
    /\ Distinct([i \in 1..Len(c.projects) |-> c.projects[i].port])

Validate(c) ==
    /\ ValidPorts(c) /\ ValidPaths(c) /\ ValidServices(c) /\ ValidPhp(c) /\ ValidTunnel(c) /\ ValidGroups(c)
    /\ ValidDomains(c) /\ ValidProxies(c) /\ ValidProjects(c) /\ ValidRouteRules(c)
    /\ c.update_channel \in {"stable", "edge"}

-----------------------------------------------------------------------------
(* parse_toml and to_toml *)

Wire(v, d) == Up(v, d) @@ WireDefault

\* An array of enabled services that no migration rewrote is not a table.
Loads(v, d) ==
    /\ v <= CurrentVersion
    /\ LET w == Wire(v, d) IN w.services.array = {} /\ Converts(w) /\ Validate(Config(w))

\* Empty rule lists and empty domain deltas are not written.
Rules(section) == [side \in DOMAIN section |-> Keep(section[side], LAMBDA rules : rules # <<>>)]
Deltas(section) == [side \in DOMAIN section |->
    Keep(section[side], LAMBDA d : ~(d.added = <<>> /\ d.suppressed = {} /\ d.primary = {}))]

Pruned(c) ==
    [c EXCEPT !.proxy_rules = Rules(@), !.route_rules = Rules(@), !.domains = Deltas(@)]

Emitted_skips_false(c) ==
    [Pruned(c) EXCEPT
       !.ports = [@ EXCEPT !.fallback_http = {@}, !.fallback_https = {@}],
       !.php = @ @@ [pool |-> FALSE],
       !.php.extensions = [v \in DOMAIN @ |-> [i \in 1..Len(@[v]) |-> [@[v][i] EXCEPT !.name = {@}]]],
       !.overrides = SetToSeq({[path |-> p, php |-> c.overrides[p].php, web_root |-> c.overrides[p].web_root] :
                               p \in DOMAIN c.overrides}),
       !.services = [array |-> {}, tables |-> [k \in DOMAIN @ |-> [@[k] EXCEPT !.enabled = {@} \ {FALSE}]]],
       !.proxies = [i \in 1..Len(@) |-> [@[i] EXCEPT !.target = Display(@)]],
       !.proxy_rules = WithTargets(@, Display),
       !.mail = [enabled |-> {@.enabled} \ {FALSE}, port |-> {@.port}],
       !.dumps = [@ EXCEPT !.port = {@}]]

\* to_toml: every value as the mirror of the section emits it.
Emitted(c) ==
    [Pruned(c) EXCEPT
       !.ports = [@ EXCEPT !.fallback_http = {@}, !.fallback_https = {@}],
       !.php = @ @@ [pool |-> FALSE],
       !.php.extensions = [v \in DOMAIN @ |-> [i \in 1..Len(@[v]) |-> [@[v][i] EXCEPT !.name = {@}]]],
       !.overrides = SetToSeq({[path |-> p, php |-> c.overrides[p].php, web_root |-> c.overrides[p].web_root] :
                               p \in DOMAIN c.overrides}),
       !.services = [array |-> {}, tables |-> [k \in DOMAIN @ |-> [@[k] EXCEPT !.enabled = {@}]]],
       !.proxies = [i \in 1..Len(@) |-> [@[i] EXCEPT !.target = Display(@)]],
       !.proxy_rules = WithTargets(@, Display),
       !.mail = [enabled |-> {@.enabled}, port |-> {@.port}],
       !.dumps = [@ EXCEPT !.port = {@}]]

DefaultConfig == Config(WireDefault)

\* Sections that are left out when they hold their default.
Skippable == {"overrides", "services", "mail", "dumps", "tunnel", "groups", "domains", "proxies", "proxy_rules",
              "route_rules", "projects"}
Written(c) == LET p == Pruned(c) IN Keys \ {k \in Skippable : p[k] = DefaultConfig[k]}
ToToml(c) == LET e == Emitted(c) IN [k \in Written(c) |-> e[k]]

-----------------------------------------------------------------------------
(* What a hand-edited file may hold under a key: legal and illegal forms.   *)

Rule(p, t) == [prefix |-> p, target |-> t]
Delta(a, s, p) == [added |-> a, suppressed |-> s, primary |-> p]
Site(n, php, web) == [name |-> n, php |-> php, web |-> web]
Override(p, php, web) == [path |-> p, php |-> php, web_root |-> web]
Proxy(n, t) == [name |-> n, target |-> t]
Project(n, p) == [name |-> n, port |-> p]
Php(settings, ext, vs, pool) ==
    [default |-> "8.3", settings |-> settings, extensions |-> ext, version_settings |-> vs, directives |-> vs,
     pool |-> pool]
PortPairs(h, hs, fh, fhs) == [http |-> h, https |-> hs, fallback_http |-> fh, fallback_https |-> fhs]

AnyUrl == Url("HTTP", "App.dev", FALSE, {})
Urls == {AnyUrl, Url("ftp", "app.dev", FALSE, {}), Url("http", "a b", FALSE, {}), Url("http", "::1", FALSE, {}),
         Url("https", "::1", TRUE, {65535}), Url("http", "app.dev", FALSE, {65536}), Url("http", "app.dev", FALSE, {0}),
         Url("http", "blog.test", FALSE, {8080}), Url("http", "", FALSE, {80})}

Raw(k) ==
    CASE k = "tld" -> {"test", "no tld"}
      [] k = "dns_port" -> {0, 53}
      [] k = "update_channel" -> {"edge", "nightly"}
      [] k \in {"symlink_protection", "mcp_enabled", "lan_enabled"} -> BOOLEAN
      [] k = "lan_setup_port" -> {1023, 1024}
      [] k = "ports" -> {PortPairs(80, 80, {}, {}), PortPairs(0, 443, {}, {}), PortPairs(8080, 8443, {}, {8443}),
                         PortPairs(80, 443, {1023}, {}), PortPairs(80, 443, {8443}, {})}
      [] k = "php" -> {Php({"fine"}, Empty, "8.3" :> {"fine", "bad"}, TRUE), Php({"bad"}, Empty, Empty, FALSE),
                       Php({}, "8.4" :> <<[name |-> {}, path |-> "x"]>>, "8.3" :> {"bad"}, FALSE),
                       Php({}, "8.4" :> <<[name |-> {"x"}, path |-> "y"], [name |-> {}, path |-> "x"]>>, Empty, FALSE),
                       Php({}, Empty, "8" :> {}, FALSE)}
      [] k = "parked" -> {{"/p"}, {""}}
      [] k = "linked" -> {<<Site("a", "8.3", "")>>, <<Site("a", "8.3", "public"), Site("b", "8.4", "")>>,
                          <<Site("a", "8.3", ""), Site("a", "8.4", "")>>, <<Site("a", "8", "")>>,
                          <<Site("a", "8.3", "..")>>}
      [] k = "overrides" -> {<<Override("/p", {"8.4"}, {}), Override("/p", {}, {"public"})>>,
                             <<Override("/p", {}, {".."})>>, <<Override("", {}, {})>>}
      [] k = "services" ->
           {[array |-> a, tables |-> t] : a \in {{}, {"redis"}, {"redis", "mongo"}},
              t \in {Empty, "mysql" :> Instance({FALSE}), "reverb:a" :> Instance({}), "reverb" :> Instance({}),
                     "redis" :> [enabled |-> {}, site |-> {}, overrides |-> {"fine", "bad"}],
                     "reverb:a" :> [enabled |-> {TRUE}, site |-> {"a"}, overrides |-> {"fine"}],
                     "reverb:a" :> [enabled |-> {TRUE}, site |-> {"b"}, overrides |-> {}]}}
      [] k = "mail" -> {[enabled |-> {FALSE}, port |-> {}], [enabled |-> {}, port |-> {0}],
                        [enabled |-> {TRUE}, port |-> {2525}]}
      [] k = "dumps" -> {[enabled |-> FALSE, port |-> {}, persist |-> TRUE, features |-> {"x"}],
                         [enabled |-> TRUE, port |-> {0}, persist |-> FALSE, features |-> {}]}
      [] k = "tunnel" -> {[named |-> n, sites |-> s] : n \in {Empty, "t" :> "u", ("t" :> "u") @@ ("x" :> "u"), "a/b" :> "u"},
                            s \in {Empty, "a" :> "h.dev", ("a" :> "h.dev") @@ ("b" :> "h.dev"), "a" :> "nodot"}}
      [] k = "groups" -> {[order |-> o, members |-> m] : o \in {<<>>, <<"Blog">>, <<"Blog", "blog">>, <<"Unallocated">>},
                            m \in {Empty, "a" :> "blog", "a" :> "other"}}
      [] k = "domains" -> {[linked |-> "a" :> d, parked |-> Empty, proxy |-> Empty] :
                             d \in {Delta(<<>>, {}, {}), Delta(<<"x">>, {"a"}, {"x"}), Delta(<<"x", "x">>, {}, {}),
                                    Delta(<<"x">>, {"x"}, {}), Delta(<<"*">>, {}, {"*"}), Delta(<<"">>, {}, {})}}
      [] k = "proxies" -> {<<Proxy("b", u)>> : u \in Urls} \cup
                            {<<Proxy("a", AnyUrl)>>, <<Proxy("b", AnyUrl), Proxy("b", AnyUrl)>>}
      [] k = "proxy_rules" -> {[linked |-> l, parked |-> Empty] :
                                 l \in {"a" :> <<>>, "a" :> <<Rule("/x", Url("https", "::1", TRUE, {}))>>,
                                        "a" :> <<Rule("/x/", Url("http", "blog.test", FALSE, {}))>>,
                                        "a" :> <<Rule("/x", AnyUrl), Rule("/x/", AnyUrl)>>}}
      [] k = "route_rules" -> {[linked |-> Empty, parked |-> p] :
                                 p \in {"/p" :> <<>>, "/p" :> <<Rule("/x/", "y")>>, "/p" :> <<Rule("/x", "..")>>,
                                        "/p" :> <<Rule("/x", "y"), Rule("/x/", "z")>>, "/p" :> <<Rule("x", "y")>>}}
      [] k = "projects" -> {<<Project("c", 20000)>>, <<Project("c", 0)>>, <<Project("a", 20000)>>,
                            <<Project("c", 20000), Project("b", 20000)>>}

\* The versions next to the two structural migrations, the ends and beyond.
Versions == {0, 2, 3, 14, 15, 23, 24, 25}

-----------------------------------------------------------------------------
Init ==
    /\ version \in Versions /\ up = FALSE /\ mem = DefaultConfig /\ sets = 0
    /\ doc \in {Empty, "linked" :> <<Site("a", "8.3", "")>>}

HandEdit == \E k \in Keys : \E r \in Raw(k) :
    /\ ~up /\ Cardinality(DOMAIN doc) <= 1
    /\ doc' = (k :> r) @@ doc
    /\ UNCHANGED <<version, mem, up, sets>>

\* load_or_default_config: a file that does not load stops the start.
Load ==
    /\ ~up /\ Loads(version, doc)
    /\ mem' = Config(Wire(version, doc)) /\ up' = TRUE
    /\ UNCHANGED <<version, doc, sets>>

\* A request changes one section to a value that validates, and saves.
Set == \E k \in {"mcp_enabled", "mail", "services", "php", "domains", "proxy_rules"} : \E r \in Raw(k) :
    LET new == Config((k :> r) @@ Emitted(mem))
    IN  /\ up /\ sets < MaxSets /\ sets' = sets + 1
        /\ Converts((k :> r) @@ WireDefault) /\ Validate(new)
        /\ mem' = new /\ doc' = ToToml(new) /\ version' = CurrentVersion
        /\ UNCHANGED up

\* Any request that saves what it found.
Save ==
    /\ up /\ doc' = ToToml(mem) /\ version' = CurrentVersion
    /\ UNCHANGED <<mem, up, sets>>

Next == HandEdit \/ Load \/ Set \/ Save
Spec == Init /\ [][Next]_vars

-----------------------------------------------------------------------------
\* What the daemon has saved loads, whatever file it began with, and gives the
\* next start the configuration this one runs with, empty lists aside.
SavedReloads ==
    up /\ version = CurrentVersion =>
        Loads(version, doc) /\ Pruned(Config(Wire(version, doc))) = Pruned(mem)

\* The services an old file means: all that are named in its array or have a
\* table, those without a site starting with the daemon before version 15.
MeantServices(v, s) ==
    [k \in DOMAIN s.tables \cup s.array |->
       IF (v <= 2 /\ k \in s.array) \/ (v <= 14 /\ Split(k)[2] = {}) THEN TRUE
       ELSE Or(s.tables[k].enabled, Split(k)[1] # "reverb")]

\* A file of any older version loads into the services it named, each starting
\* with the daemon exactly if it did under the release that wrote the file,
\* and every other section as it stands in the file.
OldFileKept ==
    up /\ version # CurrentVersion =>
        LET s == (doc @@ WireDefault).services
        IN  /\ [k \in DOMAIN mem.services |-> mem.services[k].enabled] = MeantServices(version, s)
            /\ [mem EXCEPT !.services = Empty] = [Config(doc @@ WireDefault) EXCEPT !.services = Empty]
=============================================================================
