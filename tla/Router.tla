------------------------------- MODULE Router -------------------------------
(***************************************************************************)
(* SiteRouter: sites and proxies by name, the patterns each one answers    *)
(* to, and the two indexes the proxy looks a host up in, one of exact      *)
(* names and one of wildcards.  The indexes are kept beside the claims and *)
(* have to agree with them through every insert and removal; a failed      *)
(* insert changes nothing.                                                 *)
(***************************************************************************)
CONSTANTS
  Claimants,   \* names of sites and proxies
  Exact, Wild, \* the patterns: exact sub-parts and wildcards
  Covers,      \* the wildcard, if any, that stands for an exact sub-part
  NoOne        \* no owner

ASSUME PatternsAssumption ==
    /\ Exact \cap Wild = {} /\ NoOne \notin Claimants \cup Exact \cup Wild
    /\ Covers \in [Exact -> Wild \cup {NoOne}]

Patterns == Exact \cup Wild

VARIABLES
  sites, proxies,        \* the names present, as PHP sites and as proxies
  domains,               \* of each name, its effective patterns
  primaries,             \* of each name, its primary pattern
  exact, wildcards,      \* the indexes
  proxy_rules, route_rules  \* the names that have rules

vars == <<sites, proxies, domains, primaries, exact, wildcards, proxy_rules, route_rules>>

Init ==
    /\ sites = {} /\ proxies = {} /\ domains = [n \in Claimants |-> {}]
    /\ primaries = [n \in Claimants |-> NoOne]
    /\ exact = [d \in Exact |-> NoOne] /\ wildcards = [d \in Wild |-> NoOne]
    /\ proxy_rules = {} /\ route_rules = {}

Taken_exact_only(d) == d \in Exact /\ exact[d] # NoOne

Taken(d) == IF d \in Wild THEN wildcards[d] # NoOne ELSE exact[d] # NoOne

\* The common part of the two inserts: a name that is present or a pattern that is taken
\* refuses the whole insert, then all of the patterns are entered.
Insertable(n, effective) == n \notin sites \cup proxies /\ \A d \in effective : ~Taken(d)

Enter(n, effective, primary) ==
    /\ exact' = [d \in Exact |-> IF d \in effective THEN n ELSE exact[d]]
    /\ wildcards' = [d \in Wild |-> IF d \in effective THEN n ELSE wildcards[d]]
    /\ primaries' = [primaries EXCEPT ![n] = primary]
    /\ domains' = [domains EXCEPT ![n] = effective]
    /\ UNCHANGED <<proxy_rules, route_rules>>

insert_with_domains(n, effective, primary) ==
    /\ Insertable(n, effective) /\ Enter(n, effective, primary)
    /\ sites' = sites \cup {n} /\ UNCHANGED proxies

insert_proxy_with_domains(n, effective, primary) ==
    /\ Insertable(n, effective) /\ Enter(n, effective, primary)
    /\ proxies' = proxies \cup {n} /\ UNCHANGED sites

Leave_exact_only(n) ==
    /\ exact' = [d \in Exact |-> IF d \in domains[n] /\ exact[d] = n THEN NoOne ELSE exact[d]]
    /\ wildcards' = wildcards
    /\ domains' = [domains EXCEPT ![n] = {}] /\ primaries' = [primaries EXCEPT ![n] = NoOne]

\* The common part of the two removals: the patterns the name holds are given back.
Leave(n) ==
    /\ exact' = [d \in Exact |-> IF d \in domains[n] /\ exact[d] = n THEN NoOne ELSE exact[d]]
    /\ wildcards' = [d \in Wild |-> IF d \in domains[n] /\ wildcards[d] = n THEN NoOne ELSE wildcards[d]]
    /\ domains' = [domains EXCEPT ![n] = {}] /\ primaries' = [primaries EXCEPT ![n] = NoOne]

remove(n) ==
    /\ n \in sites /\ sites' = sites \ {n} /\ Leave(n)
    /\ proxy_rules' = proxy_rules \ {n} /\ route_rules' = route_rules \ {n}
    /\ UNCHANGED proxies

remove_proxy(n) ==
    /\ n \in proxies /\ proxies' = proxies \ {n} /\ Leave(n)
    /\ UNCHANGED <<sites, proxy_rules, route_rules>>

\* Rules may be set for a name that is not there: nobody asks for them until it is.
set_proxy_rules(n, some) ==
    /\ proxy_rules' = IF some THEN proxy_rules \cup {n} ELSE proxy_rules \ {n}
    /\ UNCHANGED <<sites, proxies, domains, primaries, exact, wildcards, route_rules>>

set_route_rules(n, some) ==
    /\ route_rules' = IF some THEN route_rules \cup {n} ELSE route_rules \ {n}
    /\ UNCHANGED <<sites, proxies, domains, primaries, exact, wildcards, proxy_rules>>

Next ==
    \E n \in Claimants :
      \/ remove(n) \/ remove_proxy(n)
      \/ \E some \in BOOLEAN : set_proxy_rules(n, some) \/ set_route_rules(n, some)
      \/ \E effective \in SUBSET Patterns, primary \in Patterns :
           insert_with_domains(n, effective, primary) \/ insert_proxy_with_domains(n, effective, primary)

Spec == Init /\ [][Next]_vars

\* ------------------------------------------------------------------ lookups
domain_owner(d) == IF d \in Wild THEN wildcards[d] ELSE exact[d]

\* resolve_route: the exact name first, then the wildcard one label up.
resolve_route(h) ==
    LET up == Covers[h]
    IN IF exact[h] # NoOne THEN exact[h]
       ELSE IF up # NoOne THEN wildcards[up] ELSE NoOne

\* ---------------------------------------------------------------- properties
TypeOK ==
    /\ sites \subseteq Claimants /\ proxies \subseteq Claimants /\ sites \cap proxies = {}
    /\ domains \in [Claimants -> SUBSET Patterns] /\ primaries \in [Claimants -> Patterns \cup {NoOne}]
    /\ exact \in [Exact -> Claimants \cup {NoOne}] /\ wildcards \in [Wild -> Claimants \cup {NoOne}]

\* The indexes hold what the claims say and nothing else, so no pattern has two owners and
\* a removed name answers no host.
IndexIsClaims ==
    /\ \A d \in Patterns, n \in Claimants : domain_owner(d) = n <=> d \in domains[n]
    /\ \A n \in Claimants : domains[n] # {} => n \in sites \cup proxies

\* A host leads to whoever claims it, by its exact name before any wildcard, and to nobody
\* who has left.  A primary that its name did not claim (its domains may all have gone to
\* others) leads elsewhere or nowhere: the inserts do not look at it.
HostsReachOwners ==
    \A h \in Exact :
      /\ \A n \in Claimants : h \in domains[n] => resolve_route(h) = n
      /\ resolve_route(h) # NoOne =>
           /\ resolve_route(h) \in sites \cup proxies
           /\ {h, Covers[h]} \cap domains[resolve_route(h)] # {}

\* The router implements the table of hosts.
Owners == [d \in Patterns |-> domain_owner(d)]

Table == INSTANCE HostTable WITH owner <- Owners

ImplementsTable == Table!Spec
=============================================================================
