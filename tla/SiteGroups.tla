----------------------------- MODULE SiteGroups -----------------------------
(***************************************************************************)
(* The site groups of the configuration: the mutations of orckerd's        *)
(* mutate.rs and validate_groups of orcker-config's parse.rs.              *)
(*                                                                         *)
(* Group names are compared without regard to case and shown as entered.   *)
(* A spelling is a value; Fold maps it to the spelling in lower case.      *)
(***************************************************************************)
EXTENDS Naturals, Sequences

CONSTANTS
    Sites,          \* site names that requests mention, in lower case
    Spellings,      \* group names as clients spell them
    Fold,           \* [Spellings -> Spellings]: to_ascii_lowercase
    Reserved,       \* the spelling "unallocated", in lower case
    Unallocated     \* a site without a group

\* to_ascii_lowercase leaves what is in lower case alone.
FoldsSpellings ==
    /\ Fold \in [Spellings -> Spellings]
    /\ \A s \in Spellings : Fold[Fold[s]] = Fold[s]
    /\ Reserved \in Spellings
    /\ Unallocated \notin Spellings

ASSUME SiteGroupsAssumption == FoldsSpellings

VARIABLES
    order,      \* groups.order
    members     \* groups.members: [Sites -> Spellings \cup {Unallocated}]

vars == <<order, members>>

Same(g, h) == Fold[g] = Fold[h]
Member(g) == {s \in Sites : members[s] # Unallocated /\ Same(members[s], g)}

\* Config::validate, the part about groups.
validate_groups(ord, mem) ==
    /\ \A i \in DOMAIN ord : ~Same(ord[i], Reserved)
    /\ \A i, j \in DOMAIN ord : Same(ord[i], ord[j]) => i = j
    /\ \A s \in Sites : mem[s] # Unallocated => \E i \in DOMAIN ord : Same(ord[i], mem[s])

\* handle_group_mutation: a request whose result is invalid changes nothing.
Commit(ord, mem) == validate_groups(ord, mem) /\ order' = ord /\ members' = mem

apply_create_group(name) ==
    /\ ~Same(name, Reserved)
    /\ \A i \in DOMAIN order : ~Same(order[i], name)
    /\ Commit(Append(order, name), members)

\* Names are unique, so the retain drops at most one group; an absent group is
\* a successful no-op.
Without(ord, i) == [k \in 1 .. Len(ord) - 1 |-> IF k < i THEN ord[k] ELSE ord[k + 1]]

apply_delete_group(name) ==
    \/ /\ \A i \in DOMAIN order : ~Same(order[i], name)
       /\ Commit(order, members)
    \/ \E i \in DOMAIN order :
         /\ Same(order[i], name)
         /\ Commit(Without(order, i),
                   [s \in Sites |-> IF s \in Member(name) THEN Unallocated ELSE members[s]])

\* The new order has exactly the groups of the old one, spelled the same.
Permutes(want, have) ==
    /\ DOMAIN want = DOMAIN have
    /\ \A i \in DOMAIN have : \E j \in DOMAIN want : want[j] = have[i]

apply_set_group_order(want) == Permutes(want, order) /\ Commit(want, members)

\* The spelling of the existing group is recorded, not the client's.
apply_set_site_group_as_typed(site, name) ==
    \E i \in DOMAIN order :
        /\ Same(order[i], name)
        /\ Commit(order, [members EXCEPT ![site] = name])
apply_set_site_group(site, name) ==
    \E i \in DOMAIN order :
        /\ Same(order[i], name)
        /\ Commit(order, [members EXCEPT ![site] = order[i]])

Ungroup(site) == Commit(order, [members EXCEPT ![site] = Unallocated])

apply_rename_group(from, to) ==
    /\ ~Same(to, Reserved)
    /\ \E i \in DOMAIN order :
        /\ Same(order[i], from)
        /\ \A j \in DOMAIN order : j # i => ~Same(order[j], to)
        /\ Commit([order EXCEPT ![i] = to],
                  [s \in Sites |-> IF s \in Member(from) THEN to ELSE members[s]])

Init == order = <<>> /\ members = [s \in Sites |-> Unallocated]

Next ==
    \/ \E g \in Spellings : apply_create_group(g) \/ apply_delete_group(g)
    \/ \E g, h \in Spellings : apply_rename_group(g, h)
    \/ \E s \in Sites : Ungroup(s) \/ \E g \in Spellings : apply_set_site_group(s, g)
    \/ \E want \in [DOMAIN order -> Spellings] : apply_set_group_order(want)

Spec == Init /\ [][Next]_vars

\* Every member value is, letter by letter, an entry of the group order, after
\* any sequence of requests from a default configuration, case-only renames
\* included (mutate.rs: "a member value always exactly equals its `order` entry
\* (the GUI keys sections off that exact string)").
MembersCanonical ==
    \A s \in Sites : members[s] # Unallocated => \E i \in DOMAIN order : order[i] = members[s]
=============================================================================
