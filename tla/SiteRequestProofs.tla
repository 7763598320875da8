------------------------- MODULE SiteRequestProofs -------------------------
(***************************************************************************)
(* What an answered request has done, for every set of names, domains,     *)
(* directories, ports, clients and hand-written files: a domain that was   *)
(* added, removed or made primary is so in the live router, nobody else's  *)
(* domains have moved, a secured site is served as asked, and a linked     *)
(* site answers.                                                           *)
(*                                                                         *)
(* A commit publishes a router built from the new configuration and a scan *)
(* (CommitGives).  What such a router serves follows from who its          *)
(* claimants are (ClaimantsOf) and from the rules of SiteConfigProofs that *)
(* give every domain to its rightful owner.                                *)
(***************************************************************************)
EXTENDS SiteConfigProofs

-----------------------------------------------------------------------------
(* Who claims what. *)

\* The whole-host proxies, those of the file before those of the projects.
ProxySites(c) == ConfiguredProxies(c) \o project_proxies(c.projects)

\* The sites of the claimants, in their order.
ClaimantSites(c, sites) == FirstOfEachName(sites) \o FirstOfEachName(ProxySites(c))

\* A claimant with the domains and the primary that the configuration c gives it.
PlannedBy(c, p) ==
    /\ p.effective = effective_domains(p.site.name, delta_for(c, p.site))
    /\ p.primary = choose_primary(p.site.name, p.effective, delta_for(c, p.site).primary)

\* plan_sites and plan_proxies, claimant by claimant.
LEMMA ClaimantsFrom ==
  ASSUME NEW c \in ConfigType, NEW sites \in Seq(SiteType)
  PROVE  /\ Len(claimants(c, sites)) = Len(ClaimantSites(c, sites))
         /\ Len(FirstOfEachName(sites)) \in Nat
         /\ \A i \in DOMAIN claimants(c, sites) :
              /\ claimants(c, sites)[i].site = ClaimantSites(c, sites)[i]
              /\ PlannedBy(c, claimants(c, sites)[i])
              /\ i <= Len(FirstOfEachName(sites)) =>
                   /\ claimants(c, sites)[i].eligible
                   /\ claimants(c, sites)[i].site \in Range(FirstOfEachName(sites))
              /\ ~(i <= Len(FirstOfEachName(sites))) =>
                   /\ claimants(c, sites)[i].eligible =
                        (claimants(c, sites)[i].site.name \notin NamesIn(FirstOfEachName(sites)))
                   /\ claimants(c, sites)[i].site \in Range(FirstOfEachName(ProxySites(c)))
<1>1. PICK kept : kept = FirstOfEachName(sites)
  BY Zenon
<1>2. PICK sp : sp = Plans(c, kept, {})
  BY Zenon
<1>3. PICK pkept : pkept = FirstOfEachName(ProxySites(c))
  BY Zenon
<1>4. PICK pp : pp = Plans(c, pkept, SiteNames(sp))
  BY Zenon
<1>5. PICK cs : cs = sp \o pp
  BY Zenon
<1>6. claimants(c, sites) = cs
  BY Zenon, <1>1, <1>2, <1>3, <1>4, <1>5 DEF claimants, AndProxies, plan_sites, plan_proxies, ProxySites
<1>7. kept \in Seq(SiteType) /\ DOMAIN kept = 1 .. Len(kept) /\ Len(kept) \in Nat
  BY Zenon, <1>1, FirstsAre, SeqIs
<1>8. pkept \in Seq(SiteType) /\ DOMAIN pkept = 1 .. Len(pkept) /\ Len(pkept) \in Nat
  <2>1. PICK ps : ps = ProxySites(c)
    BY Zenon
  <2>2. ps \in Seq(SiteType) /\ pkept = FirstOfEachName(ps)
    BY Zenon, <1>3, <2>1, ProxySitesAre DEF ProxySites
  <2> QED BY Zenon, <2>2, FirstsAre, SeqIs
<1>9. ASSUME NEW k \in Seq(SiteType), NEW taken, NEW i \in 1 .. Len(k)
      PROVE  PlannedBy(c, Plans(c, k, taken)[i])
  <2>1. DOMAIN k = 1 .. Len(k)
    BY Zenon, SeqIs
  <2>2. PICK eff : eff = effective_domains(k[i].name, delta_for(c, k[i]))
    BY Zenon
  <2>3. PICK pr : pr = choose_primary(k[i].name, eff, delta_for(c, k[i]).primary)
    BY Zenon
  <2>4. PICK el : el = (k[i].name \notin taken)
    BY Zenon
  <2>5. Plans(c, k, taken)[i] = [site |-> k[i], effective |-> eff, eligible |-> el, primary |-> pr]
    BY Zenon, <2>1, <2>2, <2>3, <2>4 DEF Plans, PlanWith
  <2>6. PICK p : p = Plans(c, k, taken)[i]
    BY Zenon
  <2>7. p.site = k[i] /\ p.effective = eff /\ p.primary = pr
    BY <2>5, <2>6
  <2> QED BY Zenon, <2>2, <2>3, <2>6, <2>7 DEF PlannedBy
<1>10. /\ sp \in Seq(PlanType) /\ Len(sp) = Len(kept)
       /\ \A i \in 1 .. Len(kept) : sp[i].site = kept[i] /\ sp[i].eligible /\ PlannedBy(c, sp[i])
  <2>1. /\ sp \in Seq(PlanType) /\ Len(sp) = Len(kept)
        /\ \A i \in 1 .. Len(kept) : sp[i].site = kept[i] /\ sp[i].eligible = (kept[i].name \notin {})
    BY <1>2, <1>7, PlansAre
  <2> QED BY Zenon, <1>2, <1>7, <1>9, <2>1
<1>11. SiteNames(sp) = NamesIn(kept)
  <2>1. DOMAIN sp = 1 .. Len(kept)
    BY Zenon, <1>10, SeqIs
  <2> QED BY <1>7, <1>10, <2>1 DEF SiteNames, NamesIn
<1>12. /\ pp \in Seq(PlanType) /\ Len(pp) = Len(pkept)
       /\ \A i \in 1 .. Len(pkept) : /\ pp[i].site = pkept[i]
                                     /\ pp[i].eligible = (pkept[i].name \notin NamesIn(kept))
                                     /\ PlannedBy(c, pp[i])
  <2>1. /\ pp \in Seq(PlanType) /\ Len(pp) = Len(pkept)
        /\ \A i \in 1 .. Len(pkept) : /\ pp[i].site = pkept[i]
                                      /\ pp[i].eligible = (pkept[i].name \notin SiteNames(sp))
    BY <1>4, <1>8, PlansAre
  <2> QED BY Zenon, <1>4, <1>8, <1>9, <1>11, <2>1
<1>13. PICK ss : ss = kept \o pkept
  BY Zenon
<1>14. ss = ClaimantSites(c, sites)
  BY Zenon, <1>1, <1>3, <1>13 DEF ClaimantSites
<1>15. /\ cs \in Seq(PlanType) /\ Len(cs) = Len(kept) + Len(pkept)
       /\ \A i \in 1 .. Len(kept) + Len(pkept) :
            cs[i] = IF i <= Len(kept) THEN sp[i] ELSE pp[i - Len(kept)]
  <2>1. sp \in Seq(PlanType) /\ pp \in Seq(PlanType)
    BY Zenon, <1>10, <1>12
  <2>2. /\ cs \in Seq(PlanType) /\ Len(cs) = Len(sp) + Len(pp)
        /\ \A i \in 1 .. Len(sp) + Len(pp) : cs[i] = IF i <= Len(sp) THEN sp[i] ELSE pp[i - Len(sp)]
    BY Zenon, <1>5, <2>1, Concat
  <2>3. Len(sp) = Len(kept) /\ Len(pp) = Len(pkept)
    BY Zenon, <1>10, <1>12
  <2> QED BY Zenon, <2>2, <2>3
<1>16. /\ ss \in Seq(SiteType) /\ Len(ss) = Len(kept) + Len(pkept)
       /\ \A i \in 1 .. Len(kept) + Len(pkept) :
            ss[i] = IF i <= Len(kept) THEN kept[i] ELSE pkept[i - Len(kept)]
  BY Zenon, <1>7, <1>8, <1>13, Concat
<1>17. DOMAIN cs = 1 .. Len(kept) + Len(pkept)
  BY Zenon, <1>15, SeqIs
<1>18. ASSUME NEW i \in DOMAIN cs
       PROVE  /\ cs[i].site = ss[i] /\ PlannedBy(c, cs[i])
              /\ i <= Len(kept) => cs[i].eligible /\ cs[i].site \in Range(kept)
              /\ ~(i <= Len(kept)) => /\ cs[i].eligible = (cs[i].site.name \notin NamesIn(kept))
                                      /\ cs[i].site \in Range(pkept)
  <2>1. CASE i <= Len(kept)
    <3>1. i \in 1 .. Len(kept) /\ i \in 1 .. Len(kept) + Len(pkept)
      BY <1>7, <1>8, <1>17, <2>1
    <3>2. cs[i] = sp[i] /\ ss[i] = kept[i]
      BY Zenon, <1>15, <1>16, <2>1, <3>1
    <3> QED BY Zenon, <1>7, <1>10, <2>1, <3>1, <3>2 DEF Range
  <2>2. CASE ~(i <= Len(kept))
    <3>1. PICK j \in 1 .. Len(pkept) : j = i - Len(kept)
      BY <1>7, <1>8, <1>17, <2>2
    <3>2. cs[i] = pp[j] /\ ss[i] = pkept[j]
      BY Zenon, <1>15, <1>16, <1>17, <2>2, <3>1
    <3> QED BY Zenon, <1>8, <1>12, <2>2, <3>2 DEF Range
  <2> QED BY Zenon, <2>1, <2>2
<1> QED BY Zenon, <1>1, <1>3, <1>6, <1>7, <1>14, <1>15, <1>16, <1>18

\* A site of the configuration c in one of the directories dirs, or linked.
SiteOf(c, s) ==
    \/ s.kind = "linked" /\ \E k \in DOMAIN c.linked :
         s.name = c.linked[k].name /\ s.dir = c.linked[k].dir /\ s.secure = c.linked[k].secure
    \/ /\ s.kind = "parked" /\ s.dir \in Dirs /\ s.name = DirName[s.dir] /\ s.name \notin NamesIn(c.linked)
       /\ s.secure = (c.override[s.dir] = "on")

\* What a scan finds: parked directories whose names no linked site has, and the linked sites.
LEMMA ScannedFrom ==
  ASSUME NEW c \in ConfigType, NEW dirs \in SUBSET Dirs, NEW sites \in scan_sites(c, dirs)
  PROVE  /\ \A s \in Range(sites) : SiteOf(c, s)
         /\ \A k \in DOMAIN c.linked :
              [kind |-> "linked", name |-> c.linked[k].name, dir |-> c.linked[k].dir,
               secure |-> c.linked[k].secure] \in Range(sites)
<1>1. PICK s \in Listings(c, dirs) :
         sites = [i \in DOMAIN s |-> build_parked_site(c, s[i])] \o LinkedSites(c)
  BY Zenon DEF scan_sites
<1>2. PICK N, visible : /\ N = Cardinality(visible) /\ s \in [1 .. N -> visible]
                        /\ visible = {d \in dirs : Parent[d] \in c.parked /\ parked_site_name(c, d) # NoDomain}
  BY Zenon, <1>1 DEF Listings
<1>3. N \in Nat
  <2>1. visible \in SUBSET Dirs
    BY Zenon, <1>2
  <2> QED BY Zenon, <1>2, <2>1, SiteConfigAssumption
<1>4. PICK a : a = [i \in DOMAIN s |-> build_parked_site(c, s[i])]
  BY Zenon
<1>5. PICK b : b = LinkedSites(c)
  BY Zenon
<1>6. DOMAIN s = 1 .. N /\ \A i \in 1 .. N : s[i] \in Dirs /\ DirName[s[i]] \in Names
                                          /\ DirName[s[i]] \notin NamesIn(c.linked)
  BY Zenon, <1>2, SiteConfigAssumption DEF parked_site_name
<1>7. a \in Seq(SiteType) /\ Len(a) = N /\ \A i \in 1 .. N : SiteOf(c, a[i])
  <2>1. ASSUME NEW i \in 1 .. N PROVE a[i] \in SiteType /\ SiteOf(c, a[i])
    <3>1. a[i] = [kind |-> "parked", name |-> DirName[s[i]], dir |-> s[i], secure |-> c.override[s[i]] = "on"]
      BY Zenon, <1>4, <1>6 DEF build_parked_site
    <3>2. PICK x : x = a[i]
      BY Zenon
    <3>3. /\ x.kind = "parked" /\ x.name = DirName[s[i]] /\ x.dir = s[i]
          /\ x.secure = (c.override[s[i]] = "on") /\ x \in SiteType
      BY <1>6, <3>1, <3>2 DEF SiteType
    <3>4. SiteOf(c, x)
      BY Zenon, <1>6, <3>3 DEF SiteOf
    <3> QED BY Zenon, <3>2, <3>3, <3>4
  <2>2. a \in [1 .. N -> SiteType]
    <3>1. a = [i \in 1 .. N |-> a[i]]
      BY Zenon, <1>4, <1>6
    <3> QED BY Zenon, <2>1, <3>1
  <2>3. a \in Seq(SiteType) /\ Len(a) = N
    BY Zenon, <1>3, <2>2, IsSeq
  <2> QED BY Zenon, <2>1, <2>3
<1>8. /\ DOMAIN c.linked = 1 .. Len(c.linked) /\ Len(c.linked) \in Nat
      /\ \A i \in 1 .. Len(c.linked) : c.linked[i] \in LinkedType
  BY Zenon, ConfigIs, SeqIs
<1>9. /\ b \in Seq(SiteType) /\ Len(b) = Len(c.linked)
      /\ \A i \in 1 .. Len(c.linked) :
           /\ SiteOf(c, b[i])
           /\ b[i] = [kind |-> "linked", name |-> c.linked[i].name, dir |-> c.linked[i].dir,
                      secure |-> c.linked[i].secure]
  <2>1. ASSUME NEW i \in 1 .. Len(c.linked)
        PROVE  /\ b[i] = [kind |-> "linked", name |-> c.linked[i].name, dir |-> c.linked[i].dir,
                          secure |-> c.linked[i].secure]
               /\ b[i] \in SiteType /\ SiteOf(c, b[i])
    <3>1. b[i] = [kind |-> "linked", name |-> c.linked[i].name, dir |-> c.linked[i].dir,
                  secure |-> c.linked[i].secure]
      BY Zenon, <1>5, <1>8 DEF LinkedSites
    <3>2. PICK x : x = b[i]
      BY Zenon
    <3>3. /\ x.kind = "linked" /\ x.name = c.linked[i].name /\ x.dir = c.linked[i].dir
          /\ x.secure = c.linked[i].secure /\ x \in SiteType
      BY <1>8, <3>1, <3>2 DEF SiteType, LinkedType
    <3>4. SiteOf(c, x)
      BY Zenon, <1>8, <3>3 DEF SiteOf
    <3> QED BY Zenon, <3>1, <3>2, <3>3, <3>4
  <2>2. b \in [1 .. Len(c.linked) -> SiteType]
    <3>1. b = [i \in 1 .. Len(c.linked) |-> b[i]]
      BY Zenon, <1>5, <1>8 DEF LinkedSites
    <3> QED BY Zenon, <2>1, <3>1
  <2>3. b \in Seq(SiteType) /\ Len(b) = Len(c.linked)
    BY Zenon, <1>8, <2>2, IsSeq
  <2> QED BY Zenon, <2>1, <2>3
<1>10. Range(sites) = Range(a) \cup Range(b)
  <2>1. sites = a \o b
    BY Zenon, <1>1, <1>4, <1>5
  <2>2. a \in Seq(SiteType) /\ b \in Seq(SiteType)
    BY Zenon, <1>7, <1>9
  <2> QED BY <2>1, <2>2, Joined
<1>11. DOMAIN a = 1 .. N /\ DOMAIN b = 1 .. Len(c.linked)
  BY Zenon, <1>7, <1>9, SeqIs
<1> QED BY Zenon, <1>7, <1>8, <1>9, <1>10, <1>11 DEF Range

\* The whole-host proxies of a configuration, entry by entry.
ProxyOf(c, s) ==
    \/ s.kind = "proxy" /\ \E k \in DOMAIN c.proxies :
         s.name = c.proxies[k].name /\ s.secure = c.proxies[k].secure
    \/ s.kind = "project" /\ \E k \in DOMAIN c.projects :
         s.name = c.projects[k].name /\ s.secure = c.projects[k].secure

\* The proxies of the file come first, and nobody is left out.
LEMMA ProxySitesFrom ==
  ASSUME NEW c \in ConfigType
  PROVE  /\ ProxySites(c) \in Seq(SiteType)
         /\ \A s \in Range(ProxySites(c)) : ProxyOf(c, s)
         /\ \A k \in DOMAIN c.proxies :
              /\ k \in DOMAIN ProxySites(c) /\ ProxySites(c)[k].kind = "proxy"
              /\ ProxySites(c)[k].name = c.proxies[k].name
         /\ \A k \in DOMAIN c.projects : \E s \in Range(ProxySites(c)) : s.name = c.projects[k].name
<1>1. PICK a : a = ConfiguredProxies(c)
  BY Zenon
<1>2. PICK b : b = project_proxies(c.projects)
  BY Zenon
<1>3. /\ DOMAIN c.proxies = 1 .. Len(c.proxies) /\ Len(c.proxies) \in Nat
      /\ \A i \in 1 .. Len(c.proxies) : c.proxies[i] \in ProxyType
      /\ DOMAIN c.projects = 1 .. Len(c.projects) /\ Len(c.projects) \in Nat
      /\ \A i \in 1 .. Len(c.projects) : c.projects[i] \in ProjectType
  BY Zenon, ConfigIs, SeqIs
<1>4. ASSUME NEW i \in 1 .. Len(c.proxies)
      PROVE  /\ a[i] \in SiteType /\ ProxyOf(c, a[i]) /\ a[i].kind = "proxy"
             /\ a[i].name = c.proxies[i].name
  <2>1. PICK x : x = a[i]
    BY Zenon
  <2>2. x = [kind |-> "proxy", name |-> c.proxies[i].name, dir |-> NoDomain, secure |-> c.proxies[i].secure]
    BY Zenon, <1>1, <1>3, <2>1 DEF ConfiguredProxies
  <2>3. x \in SiteType /\ x.kind = "proxy" /\ x.name = c.proxies[i].name /\ x.secure = c.proxies[i].secure
    BY Zenon, <1>3, <2>2 DEF SiteType, ProxyType
  <2>4. ProxyOf(c, x)
    BY Zenon, <1>3, <2>3 DEF ProxyOf
  <2> QED BY Zenon, <2>1, <2>3, <2>4
<1>5. ASSUME NEW i \in 1 .. Len(c.projects)
      PROVE  /\ b[i] \in SiteType /\ ProxyOf(c, b[i]) /\ b[i].name = c.projects[i].name
  <2>1. PICK x : x = b[i]
    BY Zenon
  <2>2. x = [kind |-> "project", name |-> c.projects[i].name, dir |-> c.projects[i].dir,
             secure |-> c.projects[i].secure]
    BY Zenon, <1>2, <1>3, <2>1 DEF project_proxies
  <2>3. x \in SiteType /\ x.kind = "project" /\ x.name = c.projects[i].name /\ x.secure = c.projects[i].secure
    BY Zenon, <1>3, <2>2 DEF SiteType, ProjectType
  <2>4. ProxyOf(c, x)
    BY Zenon, <1>3, <2>3 DEF ProxyOf
  <2> QED BY Zenon, <2>1, <2>3, <2>4
<1>6. a \in [1 .. Len(c.proxies) -> SiteType] /\ b \in [1 .. Len(c.projects) -> SiteType]
  <2>1. a = [i \in 1 .. Len(c.proxies) |-> a[i]] /\ b = [i \in 1 .. Len(c.projects) |-> b[i]]
    BY Zenon, <1>1, <1>2, <1>3 DEF ConfiguredProxies, project_proxies
  <2> QED BY Zenon, <1>4, <1>5, <2>1
<1>7. a \in Seq(SiteType) /\ Len(a) = Len(c.proxies) /\ b \in Seq(SiteType) /\ Len(b) = Len(c.projects)
  BY Zenon, <1>3, <1>6, IsSeq
<1>8. PICK ps : ps = ProxySites(c)
  BY Zenon
<1>9. a \in Seq(SiteType) /\ b \in Seq(SiteType) /\ ps = a \o b
  BY Zenon, <1>1, <1>2, <1>7, <1>8 DEF ProxySites
<1>10. /\ ps \in Seq(SiteType) /\ Len(ps) = Len(a) + Len(b)
       /\ \A i \in 1 .. Len(a) + Len(b) : ps[i] = IF i <= Len(a) THEN a[i] ELSE b[i - Len(a)]
  BY Zenon, <1>9, Concat
<1>11. Range(ps) = Range(a) \cup Range(b)
  BY <1>9, Joined
<1>12. DOMAIN ps = 1 .. Len(a) + Len(b) /\ DOMAIN a = 1 .. Len(a) /\ DOMAIN b = 1 .. Len(b)
  BY Zenon, <1>9, <1>10, SeqIs
<1>13. ASSUME NEW s \in Range(ps) PROVE ProxyOf(c, s)
  BY Zenon, <1>4, <1>5, <1>7, <1>11, <1>12 DEF Range
<1>14. ASSUME NEW k \in DOMAIN c.proxies
       PROVE  k \in DOMAIN ps /\ ps[k].kind = "proxy" /\ ps[k].name = c.proxies[k].name
  <2>0. Len(a) = Len(c.proxies) /\ Len(a) \in Nat /\ Len(b) \in Nat /\ k \in 1 .. Len(c.proxies)
    BY Zenon, <1>3, <1>7
  <2>1. k \in 1 .. Len(c.proxies) /\ k \in 1 .. Len(a) + Len(b) /\ k <= Len(a)
    BY <2>0
  <2>2. ps[k] = a[k]
    BY Zenon, <1>10, <2>1
  <2> QED BY Zenon, <1>4, <1>12, <2>1, <2>2
<1>15. ASSUME NEW k \in DOMAIN c.projects PROVE \E s \in Range(ps) : s.name = c.projects[k].name
  <2>1. b[k] \in Range(b) /\ b[k].name = c.projects[k].name
    BY Zenon, <1>3, <1>5, <1>7, <1>12 DEF Range
  <2> QED BY Zenon, <1>11, <2>1
<1> QED BY Zenon, <1>8, <1>10, <1>13, <1>14, <1>15

\* cs are the claimants of configuration c over the scanned sites: the eligible ones are
\* sites, one for each name, and proxies whose names no site has, one for each such name,
\* of several the first; the domains are those of the customisation.
ClaimantsOf(c, sites, cs) ==
    /\ \A i \in DOMAIN cs : PlannedBy(c, cs[i])
    /\ \A i \in DOMAIN cs : cs[i].eligible =>
         \/ cs[i].site \in Range(sites) /\ SiteOf(c, cs[i].site)
         \/ cs[i].site \in Range(ProxySites(c)) /\ ProxyOf(c, cs[i].site)
              /\ cs[i].site.name \notin NamesIn(sites)
    /\ \A s \in Range(sites) :
         \E i \in DOMAIN cs : cs[i].eligible /\ cs[i].site.name = s.name /\ cs[i].site \in Range(sites)
    /\ \A s \in Range(ProxySites(c)) : s.name \notin NamesIn(sites) =>
         \E i \in DOMAIN cs : cs[i].eligible /\ cs[i].site.name = s.name
    /\ \A k \in DOMAIN ProxySites(c) :
         /\ \A j \in 1 .. k - 1 : ProxySites(c)[j].name # ProxySites(c)[k].name
         /\ ProxySites(c)[k].name \notin NamesIn(sites)
         => \E i \in DOMAIN cs : cs[i].eligible /\ cs[i].site = ProxySites(c)[k]

\* claimants gives the claimants.
LEMMA TheClaimants ==
  ASSUME NEW c \in ConfigType, NEW dirs \in SUBSET Dirs, NEW sites \in scan_sites(c, dirs),
         NEW cs, cs = claimants(c, sites)
  PROVE  /\ sites \in Seq(SiteType)
         /\ cs \in Seq(PlanType) /\ NamesApart(cs) /\ ClaimantsOf(c, sites, cs)
<1>1. sites \in Seq(SiteType)
  BY Zenon, ScannedAre
<1>2. cs \in Seq(PlanType) /\ NamesApart(cs) /\ DOMAIN cs = 1 .. Len(cs) /\ Len(cs) \in Nat
  BY Zenon, <1>1, ClaimantsAre, SeqIs
<1>3. PICK kept : kept = FirstOfEachName(sites)
  BY Zenon
<1>4. PICK ps : ps = ProxySites(c)
  BY Zenon
<1>5. PICK pkept : pkept = FirstOfEachName(ps)
  BY Zenon
<1>6. ps \in Seq(SiteType) /\ \A s \in Range(ps) : ProxyOf(c, s)
  BY Zenon, <1>4, ProxySitesFrom
<1>7. kept \in Seq(SiteType) /\ pkept \in Seq(SiteType)
  BY Zenon, <1>1, <1>3, <1>5, <1>6, FirstsAre
<1>8. /\ Range(kept) \in SUBSET Range(sites)
      /\ \A k \in DOMAIN sites : \E e \in Range(kept) : e.name = sites[k].name
  BY Zenon, <1>1, <1>3, FirstsAre
<1>9. /\ Range(pkept) \in SUBSET Range(ps)
      /\ \A k \in DOMAIN ps : \E e \in Range(pkept) : e.name = ps[k].name
      /\ \A k \in DOMAIN ps : (\A j \in 1 .. k - 1 : ps[j].name # ps[k].name) => ps[k] \in Range(pkept)
  BY Zenon, <1>5, <1>6, FirstsAre
<1>10. NamesIn(kept) = NamesIn(sites)
  <2>1. NamesIn(kept) \in SUBSET NamesIn(sites)
    BY <1>8 DEF NamesIn, Range
  <2>2. NamesIn(sites) \in SUBSET NamesIn(kept)
    <3>1. ASSUME NEW k \in DOMAIN sites PROVE sites[k].name \in NamesIn(kept)
      <4>1. PICK e \in Range(kept) : e.name = sites[k].name
        BY Zenon, <1>8
      <4>2. PICK j \in DOMAIN kept : kept[j] = e
        BY Zenon, <4>1 DEF Range
      <4> QED BY Zenon, <4>1, <4>2 DEF NamesIn
    <3> QED BY Zenon, <3>1 DEF NamesIn
  <2> QED BY Zenon, <2>1, <2>2
<1>11. PICK ss : ss = kept \o pkept
  BY Zenon
<1>12. /\ Len(cs) = Len(ss) /\ Len(kept) \in Nat
       /\ \A i \in DOMAIN cs :
            /\ cs[i].site = ss[i] /\ PlannedBy(c, cs[i])
            /\ i <= Len(kept) => cs[i].eligible /\ cs[i].site \in Range(kept)
            /\ ~(i <= Len(kept)) => /\ cs[i].eligible = (cs[i].site.name \notin NamesIn(kept))
                                    /\ cs[i].site \in Range(pkept)
  BY Zenon, <1>1, <1>3, <1>4, <1>5, <1>11, ClaimantsFrom DEF ClaimantSites
<1>13. /\ Len(ss) = Len(kept) + Len(pkept) /\ Len(pkept) \in Nat
       /\ DOMAIN kept = 1 .. Len(kept) /\ DOMAIN pkept = 1 .. Len(pkept)
       /\ \A i \in 1 .. Len(kept) + Len(pkept) :
            ss[i] = IF i <= Len(kept) THEN kept[i] ELSE pkept[i - Len(kept)]
  <2>1. /\ Len(kept) \in Nat /\ Len(pkept) \in Nat
        /\ DOMAIN kept = 1 .. Len(kept) /\ DOMAIN pkept = 1 .. Len(pkept)
    BY Zenon, <1>7, SeqIs
  <2>2. /\ Len(ss) = Len(kept) + Len(pkept)
        /\ \A i \in 1 .. Len(kept) + Len(pkept) :
             ss[i] = IF i <= Len(kept) THEN kept[i] ELSE pkept[i - Len(kept)]
    BY Zenon, <1>7, <1>11, Concat
  <2> QED BY Zenon, <2>1, <2>2
<1>14. ASSUME NEW s \in Range(kept) PROVE \E i \in DOMAIN cs : cs[i].eligible /\ cs[i].site = s
  <2>1. PICK i \in 1 .. Len(kept) : s = kept[i]
    BY Zenon, <1>13 DEF Range
  <2>2. i \in 1 .. Len(kept) + Len(pkept) /\ i <= Len(kept) /\ i \in DOMAIN cs
    BY <1>2, <1>12, <1>13
  <2>3. ss[i] = kept[i]
    BY Zenon, <1>13, <2>2
  <2> QED BY Zenon, <1>12, <2>1, <2>2, <2>3
<1>15. ASSUME NEW s \in Range(pkept), s.name \notin NamesIn(kept)
       PROVE  \E i \in DOMAIN cs : cs[i].eligible /\ cs[i].site = s
  <2>1. PICK k \in 1 .. Len(pkept) : s = pkept[k]
    BY Zenon, <1>13 DEF Range
  <2>2. PICK i \in 1 .. Len(kept) + Len(pkept) : i = k + Len(kept)
    BY <1>12, <1>13
  <2>3. ~(i <= Len(kept)) /\ i - Len(kept) = k /\ i \in DOMAIN cs
    BY <1>2, <1>12, <1>13, <2>2
  <2>4. ss[i] = pkept[k]
    BY Zenon, <1>13, <2>3
  <2> QED BY Zenon, <1>12, <1>15, <2>1, <2>3, <2>4
<1>16. \A i \in DOMAIN cs : PlannedBy(c, cs[i])
  BY Zenon, <1>12
<1>17. ASSUME NEW i \in DOMAIN cs, cs[i].eligible
       PROVE  \/ cs[i].site \in Range(sites) /\ SiteOf(c, cs[i].site)
              \/ cs[i].site \in Range(ps) /\ ProxyOf(c, cs[i].site) /\ cs[i].site.name \notin NamesIn(sites)
  <2>1. CASE i <= Len(kept)
    BY Zenon, <1>8, <1>12, <2>1, ScannedFrom
  <2>2. CASE ~(i <= Len(kept))
    BY Zenon, <1>6, <1>9, <1>10, <1>12, <1>17, <2>2
  <2> QED BY Zenon, <2>1, <2>2
<1>18. ASSUME NEW s \in Range(sites)
       PROVE  \E i \in DOMAIN cs : cs[i].eligible /\ cs[i].site.name = s.name /\ cs[i].site \in Range(sites)
  <2>1. PICK k \in DOMAIN sites : s = sites[k]
    BY Zenon DEF Range
  <2>2. PICK e \in Range(kept) : e.name = s.name
    BY Zenon, <1>8, <2>1
  <2> QED BY <1>8, <1>14, <2>2
<1>19. ASSUME NEW s \in Range(ps), s.name \notin NamesIn(sites)
       PROVE  \E i \in DOMAIN cs : cs[i].eligible /\ cs[i].site.name = s.name
  <2>1. PICK k \in DOMAIN ps : s = ps[k]
    BY Zenon DEF Range
  <2>2. PICK e \in Range(pkept) : e.name = s.name
    BY Zenon, <1>9, <2>1
  <2> QED BY <1>10, <1>15, <1>19, <2>2
<1>20. ASSUME NEW k \in DOMAIN ps, \A j \in 1 .. k - 1 : ps[j].name # ps[k].name,
              ps[k].name \notin NamesIn(sites)
       PROVE  \E i \in DOMAIN cs : cs[i].eligible /\ cs[i].site = ps[k]
  <2>1. ps[k] \in Range(pkept)
    BY Zenon, <1>9, <1>20
  <2> QED BY Zenon, <1>10, <1>15, <1>20, <2>1
<1>21. ClaimantsOf(c, sites, cs)
  BY Zenon, <1>4, <1>16, <1>17, <1>18, <1>19, <1>20 DEF ClaimantsOf
<1> QED BY Zenon, <1>1, <1>2, <1>21

\* A scan depends on the parked roots, the linked sites and the overrides alone.
LEMMA SameScan ==
  ASSUME NEW c, NEW new, NEW dirs,
         new.parked = c.parked, new.linked = c.linked, new.override = c.override
  PROVE  scan_sites(new, dirs) = scan_sites(c, dirs)
<1>1. \A d : parked_site_name(new, d) = parked_site_name(c, d) /\ build_parked_site(new, d) = build_parked_site(c, d)
  BY Zenon DEF parked_site_name, build_parked_site
<1>2. LinkedSites(new) = LinkedSites(c)
  BY Zenon DEF LinkedSites
<1>3. Listings(new, dirs) = Listings(c, dirs)
  <2>1. {d \in dirs : Parent[d] \in new.parked /\ parked_site_name(new, d) # NoDomain}
          = {d \in dirs : Parent[d] \in c.parked /\ parked_site_name(c, d) # NoDomain}
    BY Zenon, <1>1
  <2> QED BY Zenon, <2>1 DEF Listings
<1>4. \A s : [i \in DOMAIN s |-> build_parked_site(new, s[i])] = [i \in DOMAIN s |-> build_parked_site(c, s[i])]
  BY Zenon, <1>1
<1> QED BY Zenon, <1>2, <1>3, <1>4 DEF scan_sites

\* The registered sites of a router are the eligible claimants.
LEMMA RegisteredAre ==
  ASSUME NEW c \in ConfigType, NEW cs \in Seq(PlanType), NamesApart(cs), NEW s
  PROVE  s \in Route(c, cs).sites <=> \E i \in DOMAIN cs : cs[i].eligible /\ s = cs[i].site
<1>1. Route(c, cs).sites = {cs[i].site : i \in {j \in 1 .. Len(cs) : cs[j].eligible}}
  BY Zenon, RouteIs DEF RightRouter
<1>2. DOMAIN cs = 1 .. Len(cs)
  BY Zenon, SeqIs
<1> QED BY Zenon, <1>1, <1>2

\* A domain has nobody else's name when the router has no other owner for it.
LEMMA OwnerNamed ==
  ASSUME NEW c \in ConfigType, NEW cs \in Seq(PlanType), NamesApart(cs), NEW d \in Domains,
         NEW i \in 1 .. Len(cs), cs[i].eligible
  PROVE  /\ Route(c, cs).owner[d] \in {NoDomain, cs[i].site.name} <=> RightfulOwner(cs, d) \in {0, i}
         /\ RightfulOwner(cs, d) \in 1 .. Len(cs) =>
              Route(c, cs).owner[d] = cs[RightfulOwner(cs, d)].site.name
<1>1. PICK k : k = RightfulOwner(cs, d)
  BY Zenon
<1>2. PICK o : o = Route(c, cs).owner[d]
  BY Zenon
<1>3. o = Served(cs, d)
  BY Zenon, <1>2, OwnerServes
<1>4. d # NoDomain
  BY Zenon, WildcardOfAssumption
<1>5. o = IF k = 0 THEN NoDomain ELSE cs[k].site.name
  BY Zenon, <1>1, <1>3, <1>4 DEF Served
<1>6. \/ k = 0
      \/ k \in 1 .. Len(cs) /\ k # 0 /\ cs[k].eligible
  <2>1. \/ k = 0
        \/ k \in 1 .. Len(cs) /\ FirstClaim(cs, d, k)
    BY Zenon, <1>1, OwnerIs
  <2>2. FirstClaim(cs, d, k) => cs[k].eligible
    BY Zenon DEF FirstClaim, Wants, Adds
  <2>3. 0 \notin 1 .. Len(cs)
    OBVIOUS
  <2> QED BY Zenon, <2>1, <2>2, <2>3
<1>7. DOMAIN cs = 1 .. Len(cs) /\ \A j \in 1 .. Len(cs) : cs[j].site.name # NoDomain
  <2>1. DOMAIN cs = 1 .. Len(cs) /\ \A j \in 1 .. Len(cs) : cs[j] \in PlanType
    BY Zenon, SeqIs
  <2>2. NoDomain \notin Names
    BY Zenon, WildcardOfAssumption DEF Domains, Exact
  <2> QED BY Zenon, <2>1, <2>2, PlanIs
<1>8. k \in 1 .. Len(cs) /\ k # i /\ cs[k].eligible => cs[k].site.name # cs[i].site.name
  BY Zenon, <1>7 DEF NamesApart
<1>9. i # 0 /\ 0 \notin 1 .. Len(cs)
  OBVIOUS
<1>10. o \in {NoDomain, cs[i].site.name} <=> k \in {0, i}
  <2>1. CASE k = 0
    BY Zenon, <1>5, <2>1
  <2>2. CASE k = i
    BY Zenon, <1>5, <1>9, <2>2
  <2>3. CASE k # 0 /\ k # i
    BY Zenon, <1>5, <1>6, <1>7, <1>8, <2>3
  <2> QED BY Zenon, <2>1, <2>2, <2>3
<1>11. k \in 1 .. Len(cs) => o = cs[k].site.name
  BY Zenon, <1>5, <1>9
<1> QED BY Zenon, <1>1, <1>2, <1>10, <1>11

-----------------------------------------------------------------------------
(* What a commit publishes. *)

\* The router that a commit of one of the edits is going to publish.
LEMMA CommitGives ==
  CommitInv /\ [Next]_vars => \A edits : Commits(edits) =>
      \E new \in edits : \E sites \in scan_sites(new, present) :
         /\ validate(new) /\ Candidate = build(new, sites)
         /\ up /\ pending = {} /\ Gives(memory, router) /\ \E p \in pending' : new = p.config
\* A commit begins with a router that the new configuration gives for the directories
\* there are; nothing but a commit makes anything pending.
<1>CommitBegins.
    ASSUME CommitInv, [Next]_vars, pending = {}, NEW p \in pending'
    PROVE  pending' = {p} /\ validate(p.config) /\ p.router \in build_router(p.config, present) /\ up
  <2> USE <1>CommitBegins
  <2> DEFINE Goal == pending' = {p} /\ validate(p.config) /\ p.router \in build_router(p.config, present) /\ up
  <2>1. ASSUME NEW new, commit_config(new), up PROVE Goal
    <3>1. PICK r \in build_router(new, present) : pending' = {[config |-> new, router |-> r]}
      BY Zenon, <2>1 DEF commit_config
    <3>2. p = [config |-> new, router |-> r]
      BY Zenon, <3>1
    <3> QED BY Zenon, <2>1, <3>1, <3>2 DEF commit_config
  <2>2. ASSUME NEW edits, handle_mutation(edits) PROVE Goal
    BY Zenon, <2>1, <2>2 DEF handle_mutation
  <2>3. CASE Start \/ Publish \/ Recompute \/ Crash
    BY Zenon, <2>3 DEF Start, Publish, Recompute, Crash
  <2>4. ASSUME NEW root \in Roots, Park(root) \/ Unpark(root) PROVE Goal
    BY Zenon, <2>2, <2>4 DEF Park, Unpark
  <2>5. ASSUME NEW name \in Names, NEW dir \in Dirs, Link(name, dir) PROVE Goal
    BY Zenon, <2>2, <2>5 DEF Link
  <2>6. ASSUME NEW name \in Names,
               Unlink(name) \/ AddProxy(name) \/ RemoveProxy(name) \/ ResetDomains(name)
        PROVE Goal
    BY Zenon, <2>2, <2>6 DEF Unlink, AddProxy, RemoveProxy, ResetDomains
  <2>7. ASSUME NEW name \in Names, NEW secure \in BOOLEAN, SetSecure(name, secure) PROVE Goal
    BY <2>2, <2>7 DEF SetSecure
  <2>8. ASSUME NEW name \in Names, NEW path \in Paths, AddRule(name, path) \/ RemoveRule(name, path)
        PROVE Goal
    BY Zenon, <2>2, <2>8 DEF AddRule, RemoveRule
  <2>9. ASSUME NEW name \in Names, NEW dom \in Domains,
               AddDomain(name, dom) \/ RemoveDomain(name, dom) \/ SetPrimaryDomain(name, dom)
        PROVE Goal
    BY Zenon, <2>2, <2>9 DEF AddDomain, RemoveDomain, SetPrimaryDomain
  <2>10. ASSUME NEW c, NEW dir, NEW requested, NEW port, LinkProjectRead(c, dir, requested, port)
         PROVE Goal
    BY Zenon, <2>10 DEF LinkProjectRead
  <2>11. ASSUME NEW c, NEW q, NEW busy, LinkProject(c, q, busy) PROVE Goal
    BY Zenon, <2>1, <2>11 DEF LinkProject
  <2>12. ASSUME NEW c, NEW q, NEW busy, LinkProjectFails(c, q, busy) PROVE Goal
    BY Zenon, <2>12 DEF LinkProjectFails
  <2>13. ASSUME NEW dir \in Dirs, ChangeDirs(dir) PROVE Goal
    BY Zenon, <2>13 DEF ChangeDirs
  <2>14. CASE UNCHANGED vars
    BY <2>14 DEF vars
  <2> QED
    BY Zenon, <2>3, <2>4, <2>5, <2>6, <2>7, <2>8, <2>9, <2>10, <2>11, <2>12, <2>13, <2>14 DEF Next
<1>1.
    ASSUME CommitInv, [Next]_vars, NEW edits, Commits(edits)
    PROVE  \E new \in edits : \E sites \in scan_sites(new, present) :
              /\ validate(new) /\ Candidate = build(new, sites)
              /\ up /\ pending = {} /\ Gives(memory, router) /\ \E p \in pending' : new = p.config
  <2> USE <1>1
  <2>1. PICK p \in pending' : p.config \in edits
    BY Zenon DEF Commits
  <2>2. pending = {}
    BY Zenon DEF Commits, Locked
  <2>3. pending' = {p} /\ validate(p.config) /\ p.router \in build_router(p.config, present) /\ up
    BY Zenon, <2>2, <1>CommitBegins
  <2>4. Candidate = p.router
    <3>1. (CHOOSE x \in pending' : TRUE) = p
      BY Zenon, <2>3
    <3> QED BY Zenon, <3>1 DEF Candidate
  <2>5. PICK sites \in scan_sites(p.config, present) : p.router = build(p.config, sites)
    BY Zenon, <2>3 DEF build_router
  <2> QED BY Zenon, <2>1, <2>2, <2>3, <2>4, <2>5 DEF CommitInv
<1> QED BY Zenon, <1>1

\* When the router is settled it is what every order of the directories gives.
LEMMA SettledGives ==
  ASSUME Settled, NEW sites \in scan_sites(memory, present)
  PROVE  router = build(memory, sites)
BY Zenon DEF Settled, build_router

\* What an accepted edit of a name's domains publishes.
LEMMA DomainSteps ==
  /\ TypeInv /\ CommitInv /\ [Next]_vars /\ Settled => \A n \in Names, d \in Domains :
         /\ Commits(apply_add_domain(memory, router, n, d)) => Candidate.owner[d] = n
         /\ Commits(apply_set_primary_domain(memory, router, n, d)) =>
              Candidate.owner[d] = n /\ Candidate.primary[n] = d
  /\ TypeInv /\ CommitInv /\ [Next]_vars /\ Settled => \A n \in Names :
         Commits((UNION {apply_add_domain(memory, router, n, d)
                           \cup apply_set_primary_domain(memory, router, n, d)
                           \cup apply_remove_domain(memory, router, n, d) : d \in Domains})
                 \cup apply_reset_domains(memory, router, n)) =>
         \A e \in Domains :
         router.owner[e] \in {n, NoDomain, Candidate.owner[e]}
\* Only claimant i has other domains in new than in cs, among those that may claim.
<1> DEFINE
    EditedAt(cs, new, i) ==
        /\ cs \in Seq(PlanType) /\ new \in Seq(PlanType) /\ Len(new) = Len(cs)
        /\ i \in 1 .. Len(cs) /\ cs[i].eligible
        /\ \A j \in 1 .. Len(cs) : new[j].site = cs[j].site /\ new[j].eligible = cs[j].eligible
        /\ \A j \in 1 .. Len(cs) : j # i /\ cs[j].eligible => new[j].effective = cs[j].effective
<1> HIDE DEF EditedAt
\* The claims of everybody else are what they were.
<1>OthersAsBefore.
    ASSUME NEW cs, NEW new, NEW i, EditedAt(cs, new, i), NEW d
    PROVE  /\ Wants(new, d, Len(new)) \ {i} = Wants(cs, d, Len(cs)) \ {i}
           /\ Adds(new, d, Len(new)) \ {i} = Adds(cs, d, Len(cs)) \ {i}
           /\ i \in Wants(new, d, Len(new)) <=> d \in Range(new[i].effective)
           /\ i \in Wants(cs, d, Len(cs)) <=> d \in Range(cs[i].effective)
           /\ i \in Adds(new, d, Len(new)) <=> d \in Range(new[i].effective) /\ d # cs[i].site.name
           /\ i \in Adds(cs, d, Len(cs)) <=> d \in Range(cs[i].effective) /\ d # cs[i].site.name
           /\ Adds(cs, d, Len(cs)) \in SUBSET Wants(cs, d, Len(cs))
           /\ Adds(new, d, Len(new)) \in SUBSET Wants(new, d, Len(new))
           /\ Wants(cs, d, Len(cs)) \in SUBSET Nat /\ Wants(new, d, Len(new)) \in SUBSET Nat
  <2> USE <1>OthersAsBefore
  <2>1. ASSUME NEW j
        PROVE  /\ j \in Wants(new, d, Len(new)) <=>
                    j \in 1 .. Len(cs) /\ cs[j].eligible /\ d \in Range(new[j].effective)
               /\ j \in Adds(new, d, Len(new)) <=>
                    j \in Wants(new, d, Len(new)) /\ d # cs[j].site.name
    BY Zenon DEF EditedAt, Wants, Adds
  <2>2. ASSUME NEW j
        PROVE  /\ j \in Wants(cs, d, Len(cs)) <=>
                    j \in 1 .. Len(cs) /\ cs[j].eligible /\ d \in Range(cs[j].effective)
               /\ j \in Adds(cs, d, Len(cs)) <=>
                    j \in Wants(cs, d, Len(cs)) /\ d # cs[j].site.name
    BY Zenon DEF Wants, Adds
  <2>3. ASSUME NEW j, j # i
        PROVE  /\ j \in Wants(new, d, Len(new)) <=> j \in Wants(cs, d, Len(cs))
               /\ j \in Adds(new, d, Len(new)) <=> j \in Adds(cs, d, Len(cs))
    BY Zenon, <2>1, <2>2, <2>3 DEF EditedAt
  <2>4. i \in 1 .. Len(cs) /\ cs[i].eligible
    BY Zenon DEF EditedAt
  <2>5. 1 .. Len(cs) \in SUBSET Nat
    BY DEF EditedAt
  <2> QED BY Zenon, <2>1, <2>2, <2>3, <2>4, <2>5
\* Whoever now wants a domain that nobody else had gets it, over claimants before it too.
<1>GainsDomain.
    ASSUME NEW cs, NEW new, NEW i, EditedAt(cs, new, i), NEW d \in Domains,
           RightfulOwner(cs, d) \in {0, i}, d \in Range(new[i].effective)
    PROVE  RightfulOwner(new, d) = i
  <2> USE <1>GainsDomain
  <2>0. PICK w, a, x, y : /\ w = Wants(cs, d, Len(cs)) /\ a = Adds(cs, d, Len(cs))
                          /\ x = Wants(new, d, Len(new)) /\ y = Adds(new, d, Len(new))
    BY Zenon
  <2>1. /\ x \ {i} = w \ {i} /\ y \ {i} = a \ {i} /\ i \in x
        /\ i \in w <=> d \in Range(cs[i].effective)
        /\ i \in y <=> d # cs[i].site.name
        /\ i \in a <=> d \in Range(cs[i].effective) /\ d # cs[i].site.name
        /\ a \in SUBSET w /\ y \in SUBSET x /\ x \in SUBSET Nat
    BY <2>0, <1>OthersAsBefore
  <2>2. cs \in Seq(PlanType) /\ new \in Seq(PlanType) /\ i \in Nat /\ i # 0
    BY DEF EditedAt
  <2>3. \/ w = {}
        \/ i \in a /\ \A j \in a : i <= j
        \/ a = {} /\ i \in w /\ \A j \in w : i <= j
    BY <2>0, <2>2, OwnerIs DEF FirstClaim
  <2>4. \/ i \in y /\ \A j \in y : i <= j
        \/ y = {} /\ i \in x /\ \A j \in x : i <= j
    BY <2>1, <2>2, <2>3
  <2>5. FirstClaim(new, d, i)
    BY Zenon, <2>0, <2>4 DEF FirstClaim
  <2> QED BY Zenon, <2>2, <2>5, OwnerIs
\* A domain that somebody else owns stays theirs when i wants nothing new but its apex.
<1>KeepsDomain.
    ASSUME NEW cs, NEW new, NEW i, EditedAt(cs, new, i), NamesApart(cs), NEW d \in Domains,
           RightfulOwner(cs, d) \notin {0, i},
           d \in Range(new[i].effective) => d \in Range(cs[i].effective) \/ d = cs[i].site.name
    PROVE  RightfulOwner(new, d) = RightfulOwner(cs, d)
  <2> USE <1>KeepsDomain
  <2>0. PICK w, a, x, y : /\ w = Wants(cs, d, Len(cs)) /\ a = Adds(cs, d, Len(cs))
                          /\ x = Wants(new, d, Len(new)) /\ y = Adds(new, d, Len(new))
    BY Zenon
  <2>1. PICK k : k = RightfulOwner(cs, d)
    BY Zenon
  <2>2. /\ x \ {i} = w \ {i} /\ y \ {i} = a \ {i}
        /\ i \in x => i \in w \/ d = cs[i].site.name
        /\ i \in y => i \in a
        /\ d = cs[i].site.name => i \notin a
        /\ a \in SUBSET w /\ y \in SUBSET x /\ x \in SUBSET Nat /\ w \in SUBSET Nat
    BY <2>0, <1>OthersAsBefore
  <2>3. cs \in Seq(PlanType) /\ new \in Seq(PlanType) /\ i \in 1 .. Len(cs) /\ cs[i].eligible
    BY Zenon DEF EditedAt
  <2>4. k # i /\ k \in 1 .. Len(cs) /\ FirstClaim(cs, d, k)
    BY Zenon, <2>1, <2>3, OwnerIs
  <2>5. \/ k \in a /\ \A j \in a : k <= j
        \/ a = {} /\ k \in w /\ \A j \in w : k <= j
    BY Zenon, <2>0, <2>4 DEF FirstClaim
  <2>6. d = cs[i].site.name => k \in a
    <3>1. k \in w /\ cs[k].eligible
      BY Zenon, <2>0, <2>2, <2>5 DEF Wants
    <3>2. DOMAIN cs = 1 .. Len(cs)
      BY <2>3
    <3>3. cs[k].site.name # cs[i].site.name
      BY Zenon, <2>3, <2>4, <3>1, <3>2 DEF NamesApart
    <3>4. d = cs[i].site.name => d # cs[k].site.name
      BY Zenon, <3>3
    <3> QED BY Zenon, <2>0, <3>1, <3>4 DEF Adds
  <2>7. \/ k \in y /\ \A j \in y : k <= j
        \/ y = {} /\ k \in x /\ \A j \in x : k <= j
    <3>1. CASE k \in a /\ \A j \in a : k <= j
      BY Zenon, <2>2, <2>4, <3>1
    <3>2. CASE a = {} /\ k \in w /\ \A j \in w : k <= j
      BY Zenon, <2>2, <2>4, <2>6, <3>2
    <3> QED BY Zenon, <2>5, <3>1, <3>2
  <2>8. FirstClaim(new, d, k)
    BY Zenon, <2>0, <2>7 DEF FirstClaim
  <2> QED BY Zenon, <2>1, <2>3, <2>8, OwnerIs
\* What is customised for site s is kept under target t.
<1> DEFINE
    Keyed(s, t) ==
        \/ s.kind = "linked" /\ t.map = "linked" /\ t.key = s.name
        \/ s.kind = "parked" /\ t.map = "parked" /\ t.key = s.dir
        \/ s.kind \in {"proxy", "project"} /\ t.map = "proxy" /\ t.key = s.name
<1> HIDE DEF Keyed
\* An edit of one customisation is seen by the sites it is kept for, and by nobody else.
<1>OneDeltaEdited.
    ASSUME NEW c \in ConfigType, NEW t \in TargetType, NEW delta \in DeltaType,
           NEW new, new = WithDelta(c, t, delta)
    PROVE  /\ new \in ConfigType
           /\ new.parked = c.parked /\ new.linked = c.linked /\ new.override = c.override
           /\ new.proxies = c.proxies /\ new.projects = c.projects
           /\ \A s \in SiteType : /\ delta_for(new, s) = IF Keyed(s, t) THEN delta ELSE delta_for(c, s)
                                  /\ Keyed(s, t) => delta_mut(c, t) = delta_for(c, s)
  <2> USE <1>OneDeltaEdited
  <2>0. new \in ConfigType
    BY Zenon, WithDeltaIs DEF Kept
  <2>1. PICK ds : ds = [c.domains EXCEPT ![t.map][t.key] = delta]
    BY Zenon
  <2>2. new = [c EXCEPT !.domains = ds]
    BY Zenon, <2>1 DEF WithDelta
  <2>3. /\ new.parked = c.parked /\ new.linked = c.linked /\ new.override = c.override
        /\ new.proxies = c.proxies /\ new.projects = c.projects /\ new.domains = ds
    BY Zenon, <2>2 DEF ConfigType
  <2>4. /\ c.domains \in DomainsType
        /\ c.domains.linked \in [Names -> DeltaType] /\ c.domains.parked \in [Dirs -> DeltaType]
        /\ c.domains.proxy \in [Names -> DeltaType]
    BY Zenon, ConfigIs
  <2>5. ASSUME NEW s \in SiteType
        PROVE  /\ delta_for(new, s) = IF Keyed(s, t) THEN delta ELSE delta_for(c, s)
               /\ Keyed(s, t) => delta_mut(c, t) = delta_for(c, s)
    <3>1. /\ s.kind \in {"linked", "parked", "proxy", "project"} /\ s.name \in Names
          /\ s.kind = "parked" => s.dir \in Dirs
      BY Zenon DEF SiteType
    <3>2. CASE t.map = "linked" /\ t.key \in Names
      <4>1. /\ ds.linked = [c.domains.linked EXCEPT ![t.key] = delta]
            /\ ds.parked = c.domains.parked /\ ds.proxy = c.domains.proxy
        BY Zenon, <2>1, <2>4, <3>2 DEF DomainsType
      <4> QED BY Zenon, <2>3, <2>4, <3>1, <3>2, <4>1 DEF delta_for, delta_mut, Keyed
    <3>3. CASE t.map = "parked" /\ t.key \in Dirs
      <4>1. /\ ds.parked = [c.domains.parked EXCEPT ![t.key] = delta]
            /\ ds.linked = c.domains.linked /\ ds.proxy = c.domains.proxy
        BY Zenon, <2>1, <2>4, <3>3 DEF DomainsType
      <4> QED BY Zenon, <2>3, <2>4, <3>1, <3>3, <4>1 DEF delta_for, delta_mut, Keyed
    <3>4. CASE t.map = "proxy" /\ t.key \in Names
      <4>1. /\ ds.proxy = [c.domains.proxy EXCEPT ![t.key] = delta]
            /\ ds.linked = c.domains.linked /\ ds.parked = c.domains.parked
        BY Zenon, <2>1, <2>4, <3>4 DEF DomainsType
      <4> QED BY Zenon, <2>3, <2>4, <3>1, <3>4, <4>1 DEF delta_for, delta_mut, Keyed
    <3> QED BY Zenon, <3>2, <3>3, <3>4 DEF TargetType
  <2> QED BY Zenon, <2>0, <2>3, <2>5
\* Who claims, and whether it may, depends on the sites, the proxies and the projects alone.
<1>SameClaimants.
    ASSUME NEW c \in ConfigType, NEW new \in ConfigType, NEW sites \in Seq(SiteType),
           new.proxies = c.proxies, new.projects = c.projects
    PROVE  /\ Len(claimants(new, sites)) = Len(claimants(c, sites))
           /\ \A i \in 1 .. Len(claimants(c, sites)) :
                /\ claimants(new, sites)[i].site = claimants(c, sites)[i].site
                /\ claimants(new, sites)[i].eligible = claimants(c, sites)[i].eligible
  <2> USE <1>SameClaimants
  <2>1. PICK cs : cs = claimants(c, sites)
    BY Zenon
  <2>2. PICK ds : ds = claimants(new, sites)
    BY Zenon
  <2>3. ProxySites(new) = ProxySites(c)
    BY Zenon DEF ProxySites, ConfiguredProxies
  <2>4. ClaimantSites(new, sites) = ClaimantSites(c, sites)
    BY Zenon, <2>3 DEF ClaimantSites
  <2>5. PICK m : m = Len(FirstOfEachName(sites))
    BY Zenon
  <2>6. PICK names : names = NamesIn(FirstOfEachName(sites))
    BY Zenon
  <2>7. /\ Len(cs) = Len(ClaimantSites(c, sites))
        /\ \A i \in DOMAIN cs : /\ cs[i].site = ClaimantSites(c, sites)[i]
                                /\ i <= m => cs[i].eligible
                                /\ ~(i <= m) => cs[i].eligible = (cs[i].site.name \notin names)
    BY ZenonT(30), <2>1, <2>5, <2>6, ClaimantsFrom
  <2>8. /\ Len(ds) = Len(ClaimantSites(new, sites))
        /\ \A i \in DOMAIN ds : /\ ds[i].site = ClaimantSites(new, sites)[i]
                                /\ i <= m => ds[i].eligible
                                /\ ~(i <= m) => ds[i].eligible = (ds[i].site.name \notin names)
    BY Zenon, <2>2, <2>5, <2>6, ClaimantsFrom
  <2>9. cs \in Seq(PlanType) /\ ds \in Seq(PlanType)
    BY Zenon, <2>1, <2>2, ClaimantsAre
  <2>10. /\ DOMAIN cs = 1 .. Len(cs) /\ DOMAIN ds = 1 .. Len(ds)
         /\ \A i \in 1 .. Len(cs) : cs[i] \in PlanType
         /\ \A i \in 1 .. Len(ds) : ds[i] \in PlanType
    BY Zenon, <2>9, SeqIs
  <2>11. Len(ds) = Len(cs)
    BY Zenon, <2>4, <2>7, <2>8
  <2>12. ASSUME NEW i \in 1 .. Len(cs) PROVE ds[i].site = cs[i].site /\ ds[i].eligible = cs[i].eligible
    <3>1. ds[i].eligible \in BOOLEAN /\ cs[i].eligible \in BOOLEAN
      BY Zenon, <2>10, <2>11, PlanIs
    <3>2. ds[i].site = cs[i].site
      BY <2>4, <2>7, <2>8, <2>10, <2>11
    <3>3. CASE i <= m
      BY Zenon, <2>7, <2>8, <2>10, <2>11, <3>1, <3>2, <3>3
    <3>4. CASE ~(i <= m)
      BY <2>7, <2>8, <2>10, <2>11, <3>2, <3>4
    <3> QED BY Zenon, <3>2, <3>3, <3>4
  <2> QED BY Zenon, <2>1, <2>2, <2>11, <2>12
\* resolve_domain_target finds the customisation of the claimant that has the name.
<1>TargetClaimant.
    ASSUME NEW c \in ConfigType, NEW dirs \in SUBSET Dirs, NEW sites \in scan_sites(c, dirs),
           NEW cs, cs = claimants(c, sites), NEW r, r = Route(c, cs),
           NEW name \in Names, NEW t \in resolve_domain_target(c, r, name)
    PROVE  \E i \in DOMAIN cs :
              /\ cs[i].eligible /\ cs[i].site.name = name /\ Keyed(cs[i].site, t)
              /\ \A j \in DOMAIN cs : j # i /\ cs[j].eligible => ~Keyed(cs[j].site, t)
  <2> USE <1>TargetClaimant
  <2>1. cs \in Seq(PlanType) /\ NamesApart(cs) /\ ClaimantsOf(c, sites, cs) /\ sites \in Seq(SiteType)
    BY Zenon, TheClaimants
  <2>2. ASSUME NEW s PROVE s \in r.sites <=> \E i \in DOMAIN cs : cs[i].eligible /\ s = cs[i].site
    BY <2>1, RegisteredAre
  <2>3. ASSUME NEW i \in DOMAIN cs, cs[i].eligible
        PROVE  \/ cs[i].site \in Range(sites) /\ SiteOf(c, cs[i].site)
               \/ /\ ProxyOf(c, cs[i].site) /\ cs[i].site.name \notin NamesIn(sites)
                  /\ cs[i].site.kind \in {"proxy", "project"}
    BY Zenon, <2>1, <2>3 DEF ClaimantsOf, ProxyOf
  <2>4. ASSUME NEW i \in DOMAIN cs, cs[i].eligible, cs[i].site.name = name, Keyed(cs[i].site, t)
        PROVE  \A j \in DOMAIN cs : j # i /\ cs[j].eligible => ~Keyed(cs[j].site, t)
    <3> SUFFICES ASSUME NEW j \in DOMAIN cs, j # i, cs[j].eligible, Keyed(cs[j].site, t) PROVE FALSE
      BY Zenon
    <3>1. cs[j].site.name # cs[i].site.name
      BY Zenon, <2>1, <2>4 DEF NamesApart
    <3>2. CASE t.map # "parked"
      BY Zenon, <2>4, <3>1, <3>2 DEF Keyed
    <3>3. CASE t.map = "parked"
      <4>1. /\ cs[i].site.kind = "parked" /\ cs[j].site.kind = "parked"
            /\ cs[i].site.dir = cs[j].site.dir
        BY Zenon, <2>4, <3>3 DEF Keyed
      <4>2. SiteOf(c, cs[i].site) /\ SiteOf(c, cs[j].site)
        BY Zenon, <2>3, <2>4, <4>1
      <4> QED BY Zenon, <3>1, <4>1, <4>2 DEF SiteOf
    <3> QED BY Zenon, <3>2, <3>3
  <2>5. CASE name \in NamesIn(c.linked)
    <3>1. t = [map |-> "linked", key |-> name]
      BY Zenon, <2>5 DEF resolve_domain_target
    <3>2. PICK k \in DOMAIN c.linked : name = c.linked[k].name
      BY Zenon, <2>5 DEF NamesIn
    <3>3. PICK s \in Range(sites) : s.name = name
      <4>1. [kind |-> "linked", name |-> c.linked[k].name, dir |-> c.linked[k].dir,
             secure |-> c.linked[k].secure] \in Range(sites)
        BY Zenon, ScannedFrom
      <4> QED BY Zenon, <3>2, <4>1
    <3>4. PICK i \in DOMAIN cs : cs[i].eligible /\ cs[i].site.name = name /\ cs[i].site \in Range(sites)
      BY Zenon, <2>1, <3>3 DEF ClaimantsOf
    <3>5. SiteOf(c, cs[i].site)
      BY Zenon, <3>4, ScannedFrom
    <3>6. cs[i].site.kind = "linked"
      BY Zenon, <2>5, <3>4, <3>5 DEF SiteOf
    <3>7. Keyed(cs[i].site, t)
      BY Zenon, <3>1, <3>4, <3>6 DEF Keyed
    <3> QED BY Zenon, <2>4, <3>4, <3>7
  <2>6. CASE name \notin NamesIn(c.linked) /\ get(r, name) # {}
    <3>1. PICK s \in get(r, name) : t = [map |-> "parked", key |-> s.dir]
      BY Zenon, <2>6 DEF resolve_domain_target
    <3>2. s \in r.sites /\ s.name = name /\ s.kind \in {"linked", "parked"}
      BY Zenon DEF get
    <3>3. PICK i \in DOMAIN cs : cs[i].eligible /\ s = cs[i].site
      BY Zenon, <2>2, <3>2
    <3>4. SiteOf(c, s)
      BY Zenon, <2>3, <3>2, <3>3
    <3>5. s.kind = "parked"
      BY Zenon, <2>6, <3>2, <3>4 DEF SiteOf, NamesIn
    <3>6. Keyed(s, t)
      BY Zenon, <3>1, <3>5 DEF Keyed
    <3> QED BY Zenon, <2>4, <3>2, <3>3, <3>6
  <2>7. CASE name \notin NamesIn(c.linked) /\ get(r, name) = {}
    <3>1. name \in NamesIn(c.proxies) /\ t = [map |-> "proxy", key |-> name]
      BY Zenon, <2>7 DEF resolve_domain_target
    <3>2. name \notin NamesIn(sites)
      <4> SUFFICES ASSUME name \in NamesIn(sites) PROVE FALSE
        BY Zenon
      <4>1. PICK s \in Range(sites) : s.name = name
        BY Zenon DEF NamesIn, Range
      <4>2. PICK i \in DOMAIN cs : cs[i].eligible /\ cs[i].site.name = name /\ cs[i].site \in Range(sites)
        BY Zenon, <2>1, <4>1 DEF ClaimantsOf
      <4>3. cs[i].site.kind \in {"linked", "parked"}
        <5>1. SiteOf(c, cs[i].site)
          BY Zenon, <4>2, ScannedFrom
        <5> QED BY Zenon, <5>1 DEF SiteOf
      <4>4. cs[i].site \in get(r, name)
        BY Zenon, <2>2, <4>2, <4>3 DEF get
      <4> QED BY Zenon, <2>7, <4>4
    <3>3. PICK s \in Range(ProxySites(c)) : s.name = name
      <4>1. PICK k \in DOMAIN c.proxies : name = c.proxies[k].name
        BY Zenon, <3>1 DEF NamesIn
      <4>2. k \in DOMAIN ProxySites(c) /\ ProxySites(c)[k].name = name
        BY Zenon, <4>1, ProxySitesFrom
      <4> QED BY Zenon, <4>2 DEF Range
    <3>4. PICK i \in DOMAIN cs : cs[i].eligible /\ cs[i].site.name = name
      BY Zenon, <2>1, <3>2, <3>3 DEF ClaimantsOf
    <3>5. cs[i].site.kind \in {"proxy", "project"}
      BY Zenon, <2>3, <3>2, <3>4 DEF NamesIn, Range
    <3>6. Keyed(cs[i].site, t)
      BY Zenon, <3>1, <3>4, <3>5 DEF Keyed
    <3> QED BY Zenon, <2>4, <3>4, <3>6
  <2> QED BY Zenon, <2>5, <2>6, <2>7
\* The claimants before and after the domains of one name are edited.
<1>DomainEdited.
    ASSUME NEW c \in ConfigType, NEW dirs \in SUBSET Dirs, NEW sites \in scan_sites(c, dirs),
           NEW cs, cs = claimants(c, sites), NEW name \in Names,
           NEW t \in resolve_domain_target(c, Route(c, cs), name), NEW delta \in DeltaType,
           NEW new, new = WithDelta(c, t, delta), NEW ds, ds = claimants(new, sites)
    PROVE  /\ new \in ConfigType /\ delta_mut(c, t) \in DeltaType
           /\ NamesApart(cs) /\ NamesApart(ds)
           /\ \E i \in 1 .. Len(cs) :
                /\ EditedAt(cs, ds, i) /\ cs[i].site.name = name
                /\ cs[i].effective = effective_domains(name, delta_mut(c, t))
                /\ ds[i].effective = effective_domains(name, delta)
                /\ ds[i].primary = choose_primary(name, ds[i].effective, delta.primary)
  <2> USE <1>DomainEdited
  <2>1. cs \in Seq(PlanType) /\ NamesApart(cs) /\ ClaimantsOf(c, sites, cs) /\ sites \in Seq(SiteType)
    BY Zenon, TheClaimants
  <2>2. PICK i \in DOMAIN cs :
              /\ cs[i].eligible /\ cs[i].site.name = name /\ Keyed(cs[i].site, t)
              /\ \A j \in DOMAIN cs : j # i /\ cs[j].eligible => ~Keyed(cs[j].site, t)
    BY <1>TargetClaimant
  <2>3. t \in TargetType
    <3>1. PICK r : r = Route(c, cs)
      BY Zenon
    <3>2. r \in RouterType
      BY Zenon, <2>1, <3>1, RouteIs DEF RightRouter
    <3> QED BY Zenon, <3>1, <3>2, TargetIs
  <2>4. /\ new \in ConfigType
        /\ new.parked = c.parked /\ new.linked = c.linked /\ new.override = c.override
        /\ new.proxies = c.proxies /\ new.projects = c.projects
        /\ \A s \in SiteType : /\ delta_for(new, s) = IF Keyed(s, t) THEN delta ELSE delta_for(c, s)
                               /\ Keyed(s, t) => delta_mut(c, t) = delta_for(c, s)
    BY <2>3, <1>OneDeltaEdited
  <2>5. sites \in scan_sites(new, dirs)
    BY <2>4, SameScan
  <2>6. ds \in Seq(PlanType) /\ NamesApart(ds) /\ ClaimantsOf(new, sites, ds)
    BY Zenon, <2>4, <2>5, TheClaimants
  <2>7. /\ Len(ds) = Len(cs)
        /\ \A j \in 1 .. Len(cs) : ds[j].site = cs[j].site /\ ds[j].eligible = cs[j].eligible
    BY <2>1, <2>4, <1>SameClaimants
  <2>8. /\ DOMAIN cs = 1 .. Len(cs) /\ DOMAIN ds = 1 .. Len(cs)
        /\ \A j \in 1 .. Len(cs) : cs[j] \in PlanType
    BY Zenon, <2>1, <2>6, <2>7, SeqIs
  <2>9. ASSUME NEW j \in 1 .. Len(cs)
        PROVE  /\ cs[j].site \in SiteType
               /\ cs[j].effective = effective_domains(cs[j].site.name, delta_for(c, cs[j].site))
               /\ ds[j].effective = effective_domains(cs[j].site.name, delta_for(new, cs[j].site))
               /\ ds[j].primary = choose_primary(cs[j].site.name, ds[j].effective,
                                                 delta_for(new, cs[j].site).primary)
    <3>1. PlannedBy(c, cs[j]) /\ PlannedBy(new, ds[j])
      BY Zenon, <2>1, <2>6, <2>8 DEF ClaimantsOf
    <3> QED BY Zenon, <2>7, <2>8, <3>1, PlanIs DEF PlannedBy
  <2>10. ASSUME NEW j \in 1 .. Len(cs), j # i, cs[j].eligible PROVE ds[j].effective = cs[j].effective
    <3>1. ~Keyed(cs[j].site, t)
      BY Zenon, <2>2, <2>8, <2>10
    <3>2. delta_for(new, cs[j].site) = delta_for(c, cs[j].site)
      BY Zenon, <2>4, <2>9, <3>1
    <3> QED BY <2>9, <3>2
  <2>11. EditedAt(cs, ds, i)
    BY Zenon, <2>1, <2>2, <2>6, <2>7, <2>8, <2>10 DEF EditedAt
  <2>12. delta_for(new, cs[i].site) = delta /\ delta_for(c, cs[i].site) = delta_mut(c, t)
    BY Zenon, <2>2, <2>4, <2>8, <2>9
  <2>13. /\ cs[i].effective = effective_domains(name, delta_mut(c, t))
         /\ ds[i].effective = effective_domains(name, delta)
         /\ ds[i].primary = choose_primary(name, ds[i].effective, delta.primary)
    BY <2>2, <2>8, <2>9, <2>12
  <2>14. delta_mut(c, t) \in DeltaType
    BY Zenon, <2>3, WithDeltaIs
  <2> QED BY Zenon, <2>1, <2>2, <2>4, <2>6, <2>8, <2>11, <2>13, <2>14
\* Adding a domain to those included.
<1>IncludedRange.
    ASSUME NEW ds \in Seq(Domains), NEW d \in Domains
    PROVE  Range(Included(ds, d)) = Range(ds) \cup {d}
  <2> USE <1>IncludedRange
  <2>1. CASE d \in Range(ds)
    BY Zenon, <2>1 DEF Included
  <2>2. CASE d \notin Range(ds)
    BY <2>2, Appended DEF Included
  <2> QED BY Zenon, <2>1, <2>2
\* The edit of AddDomain and SetPrimaryDomain: the domain wanted, with a new primary or not.
<1> DEFINE
    Wanting(delta, name, dom, primary) ==
        IF dom = name THEN [added |-> delta.added, suppressed |-> delta.suppressed \ {name}, primary |-> primary]
        ELSE [added |-> Included(delta.added, dom), suppressed |-> delta.suppressed, primary |-> primary]
<1> HIDE DEF Wanting
\* After such an edit the domain is asked for, and nothing else that was not.
<1>WantingIs.
    ASSUME NEW delta \in DeltaType, NEW name \in Names, NEW dom \in Domains,
           NEW primary \in Domains \cup {NoDomain}
    PROVE  /\ Wanting(delta, name, dom, primary) \in DeltaType
           /\ Wanting(delta, name, dom, primary).primary = primary
           /\ dom \in Range(effective_domains(name, Wanting(delta, name, dom, primary)))
           /\ \A e \in Range(effective_domains(name, Wanting(delta, name, dom, primary))) :
                e \in Range(effective_domains(name, delta)) \/ e \in {name, dom}
  <2> USE <1>WantingIs
  <2>1. delta.added \in Seq(Domains) /\ delta.suppressed \in SUBSET Domains
    BY Zenon DEF DeltaType
  <2>2. PICK w : w = Wanting(delta, name, dom, primary)
    BY Zenon
  <2>3. PICK inc : inc = Included(delta.added, dom)
    BY Zenon
  <2>4. inc \in Seq(Domains) /\ Range(inc) = Range(delta.added) \cup {dom}
    BY Zenon, <2>1, <2>3, IncludedIs, <1>IncludedRange
  <2>5. /\ w \in DeltaType /\ w.primary = primary
        /\ dom = name => Range(w.added) = Range(delta.added) /\ w.suppressed = delta.suppressed \ {name}
        /\ dom # name => Range(w.added) = Range(delta.added) \cup {dom} /\ w.suppressed = delta.suppressed
    <3>1. CASE dom = name
      <4>1. w = [added |-> delta.added, suppressed |-> delta.suppressed \ {name}, primary |-> primary]
        BY Zenon, <2>2, <3>1 DEF Wanting
      <4>2. /\ w.primary = primary /\ w.added = delta.added /\ w.suppressed = delta.suppressed \ {name}
            /\ w \in DeltaType
        BY Zenon, <2>1, <4>1 DEF DeltaType
      <4> QED BY Zenon, <3>1, <4>2
    <3>2. CASE dom # name
      <4>1. w = [added |-> inc, suppressed |-> delta.suppressed, primary |-> primary]
        BY Zenon, <2>2, <2>3, <3>2 DEF Wanting
      <4>2. /\ w.primary = primary /\ w.added = inc /\ w.suppressed = delta.suppressed
            /\ w \in DeltaType
        BY Zenon, <2>1, <2>4, <4>1 DEF DeltaType
      <4> QED BY Zenon, <2>4, <3>2, <4>2
    <3> QED BY Zenon, <3>1, <3>2
  <2>6. Range(effective_domains(name, w)) =
          Asked(name, w) \cup (IF Asked(name, w) \cap Exact = {} THEN {name} ELSE {})
    BY Zenon, <2>5, EffectivesAre
  <2>7. Range(effective_domains(name, delta)) =
          Asked(name, delta) \cup (IF Asked(name, delta) \cap Exact = {} THEN {name} ELSE {})
    BY Zenon, EffectivesAre
  <2>8. dom \in Asked(name, w) /\ \A e \in Asked(name, w) : e \in Asked(name, delta) \/ e \in {name, dom}
    <3>1. CASE dom = name
      BY Zenon, <2>5, <3>1 DEF Asked
    <3>2. CASE dom # name
      BY Zenon, <2>5, <3>2 DEF Asked
    <3> QED BY Zenon, <3>1, <3>2
  <2>9. \A e \in Range(effective_domains(name, w)) :
          e \in Range(effective_domains(name, delta)) \/ e \in {name, dom}
    BY Zenon, <2>6, <2>7, <2>8
  <2> QED BY Zenon, <2>2, <2>5, <2>6, <2>8, <2>9
\* Nobody asked for anything new: the edit of RemoveDomain and ResetDomains.
<1>FewerAsked.
    ASSUME NEW delta \in DeltaType, NEW new \in DeltaType, NEW name \in Names,
           Range(new.added) \in SUBSET Range(delta.added)
    PROVE  \A e \in Range(effective_domains(name, new)) :
             e \in Range(effective_domains(name, delta)) \/ e = name
  <2> USE <1>FewerAsked
  <2>1. Range(effective_domains(name, new)) =
          Asked(name, new) \cup (IF Asked(name, new) \cap Exact = {} THEN {name} ELSE {})
    BY Zenon, EffectivesAre
  <2>2. Range(effective_domains(name, delta)) =
          Asked(name, delta) \cup (IF Asked(name, delta) \cap Exact = {} THEN {name} ELSE {})
    BY Zenon, EffectivesAre
  <2>3. \A e \in Asked(name, new) : e \in Asked(name, delta) \/ e = name
    BY Zenon DEF Asked
  <2> QED BY Zenon, <2>1, <2>2, <2>3
\* The domain goes to the name, no domain is taken from anybody else, and the primary is
\* the domain where that was asked for.
<1>DomainWanted.
    ASSUME NEW c \in ConfigType, NEW dirs \in SUBSET Dirs, NEW sites \in scan_sites(c, dirs),
           NEW r, r = build(c, sites), NEW name \in Names, NEW dom \in Domains,
           NEW t \in resolve_domain_target(c, r, name), ~claimed_elsewhere(r, name, dom),
           NEW primary \in Domains \cup {NoDomain},
           NEW new, new = WithDelta(c, t, Wanting(delta_mut(c, t), name, dom, primary)),
           NEW q, q = build(new, sites)
    PROVE  /\ q.owner[dom] = name
           /\ \A e \in Domains : r.owner[e] \in {name, NoDomain, q.owner[e]}
           /\ dom \in Exact /\ primary = (IF dom = name THEN NoDomain ELSE dom) => q.primary[name] = dom
  <2> USE <1>DomainWanted
  <2>1. PICK cs : cs = claimants(c, sites)
    BY Zenon
  <2>2. PICK ds : ds = claimants(new, sites)
    BY Zenon
  <2>3. r = Route(c, cs) /\ q = Route(new, ds)
    BY Zenon, <2>1, <2>2 DEF build
  <2>4. PICK delta : delta = Wanting(delta_mut(c, t), name, dom, primary)
    BY Zenon
  <2>5. cs \in Seq(PlanType) /\ NamesApart(cs)
    BY Zenon, <2>1, TheClaimants
  <2>6. delta_mut(c, t) \in DeltaType
    <3>1. r \in RouterType
      BY Zenon, <2>3, <2>5, RouteIs DEF RightRouter
    <3> QED BY Zenon, <3>1, TargetIs, WithDeltaIs
  <2>7. /\ delta \in DeltaType /\ delta.primary = primary
        /\ dom \in Range(effective_domains(name, delta))
        /\ \A e \in Range(effective_domains(name, delta)) :
             e \in Range(effective_domains(name, delta_mut(c, t))) \/ e \in {name, dom}
    BY <2>4, <2>6, <1>WantingIs
  <2>8. t \in resolve_domain_target(c, Route(c, cs), name) /\ new = WithDelta(c, t, delta)
    BY Zenon, <2>3, <2>4
  <2>9. /\ new \in ConfigType /\ NamesApart(ds)
        /\ \E i \in 1 .. Len(cs) :
                /\ EditedAt(cs, ds, i) /\ cs[i].site.name = name
                /\ cs[i].effective = effective_domains(name, delta_mut(c, t))
                /\ ds[i].effective = effective_domains(name, delta)
                /\ ds[i].primary = choose_primary(name, ds[i].effective, delta.primary)
    BY <2>1, <2>2, <2>7, <2>8, <1>DomainEdited
  <2>10. PICK i \in 1 .. Len(cs) :
                /\ EditedAt(cs, ds, i) /\ cs[i].site.name = name
                /\ cs[i].effective = effective_domains(name, delta_mut(c, t))
                /\ ds[i].effective = effective_domains(name, delta)
                /\ ds[i].primary = choose_primary(name, ds[i].effective, delta.primary)
    BY Zenon, <2>9
  <2>11. /\ ds \in Seq(PlanType) /\ Len(ds) = Len(cs) /\ cs[i].eligible /\ ds[i].eligible
         /\ \A j \in 1 .. Len(cs) : ds[j].site = cs[j].site
    BY Zenon, <2>10 DEF EditedAt
  <2>12. RightfulOwner(cs, dom) \in {0, i}
    <3>1. r.owner[dom] \in {NoDomain, cs[i].site.name}
      BY Zenon, <2>10 DEF claimed_elsewhere
    <3> QED BY ZenonT(30), <2>3, <2>5, <2>11, <3>1, OwnerNamed
  <2>13. RightfulOwner(ds, dom) = i
    BY <2>7, <2>10, <2>12, <1>GainsDomain
  <2>14. q.owner[dom] = name
    <3>1. q.owner[dom] = ds[i].site.name
      BY <2>3, <2>9, <2>11, <2>13, OwnerNamed
    <3> QED BY ZenonT(30), <2>10, <2>11, <3>1
  <2>15. ASSUME NEW e \in Domains, r.owner[e] \notin {name, NoDomain} PROVE q.owner[e] = r.owner[e]
    <3>1. PICK k : k = RightfulOwner(cs, e)
      BY Zenon
    <3>2. k \notin {0, i}
      BY <2>3, <2>5, <2>10, <2>11, <2>15, <3>1, OwnerNamed
    <3>3. e # dom
      BY Zenon, <2>12, <3>1, <3>2
    <3>4. e \in Range(ds[i].effective) => e \in Range(cs[i].effective) \/ e = cs[i].site.name
      BY Zenon, <2>7, <2>10, <3>3
    <3>5. RightfulOwner(ds, e) = k
      BY <2>5, <2>10, <3>1, <3>2, <3>4, <1>KeepsDomain
    <3>6. k \in 1 .. Len(cs)
      BY Zenon, <2>5, <3>1, <3>2, OwnerIs
    <3>7. r.owner[e] = cs[k].site.name /\ q.owner[e] = ds[k].site.name
      BY <2>3, <2>5, <2>9, <2>11, <3>1, <3>5, <3>6, OwnerNamed
    <3> QED BY Zenon, <2>11, <3>6, <3>7
  <2>16. ASSUME dom \in Exact, primary = (IF dom = name THEN NoDomain ELSE dom) PROVE q.primary[name] = dom
    <3>1. PICK won : won = Won(ds, build_claims(ds), i)
      BY Zenon
    <3>2. q.primary[name] = choose_primary(name, won, ds[i].primary)
      <4>1. RightRouter(ds, build_claims(ds), Len(ds), q)
        BY Zenon, <2>3, <2>9, <2>11, RouteIs
      <4> QED BY Zenon, <2>10, <2>11, <3>1, <4>1 DEF RightRouter
    <3>3. dom \in Range(won)
      <4>1. ClaimsWanted(ds, build_claims(ds)) /\ build_claims(ds)[dom] = i
        BY Zenon, <2>11, <2>13, ClaimsAreOwners DEF ClaimsWanted
      <4> QED BY Zenon, <2>11, <3>1, <4>1, WonIs
    <3>4. NoDomain \notin Exact
      BY Zenon, WildcardOfAssumption DEF Domains
    <3>5. ds[i].primary = dom
      <4>1. dom \in Range(ds[i].effective) /\ ds[i].primary = choose_primary(name, ds[i].effective, primary)
        BY Zenon, <2>7, <2>10
      <4>2. CASE dom = name
        BY Zenon, <2>16, <3>4, <4>1, <4>2 DEF choose_primary
      <4>3. CASE dom # name
        BY Zenon, <2>16, <4>1, <4>3 DEF choose_primary
      <4> QED BY Zenon, <4>2, <4>3
    <3> QED BY Zenon, <2>16, <3>2, <3>3, <3>5 DEF choose_primary
  <2> QED BY Zenon, <2>14, <2>15, <2>16
\* Removing or resetting the domains of a name takes no domain from anybody else.
<1>DomainUnwanted.
    ASSUME NEW c \in ConfigType, NEW dirs \in SUBSET Dirs, NEW sites \in scan_sites(c, dirs),
           NEW r, r = build(c, sites), NEW name \in Names,
           NEW t \in resolve_domain_target(c, r, name), NEW delta \in DeltaType,
           Range(delta.added) \in SUBSET Range(delta_mut(c, t).added),
           NEW new, new = WithDelta(c, t, delta), NEW q, q = build(new, sites)
    PROVE  \A e \in Domains : r.owner[e] \in {name, NoDomain, q.owner[e]}
  <2> USE <1>DomainUnwanted
  <2>1. PICK cs : cs = claimants(c, sites)
    BY Zenon
  <2>2. PICK ds : ds = claimants(new, sites)
    BY Zenon
  <2>3. r = Route(c, cs) /\ q = Route(new, ds)
    BY Zenon, <2>1, <2>2 DEF build
  <2>4. cs \in Seq(PlanType) /\ NamesApart(cs)
    BY Zenon, <2>1, TheClaimants
  <2>5. t \in resolve_domain_target(c, Route(c, cs), name)
    BY Zenon, <2>3
  <2>6. /\ new \in ConfigType /\ NamesApart(ds) /\ delta_mut(c, t) \in DeltaType
        /\ \E i \in 1 .. Len(cs) :
                /\ EditedAt(cs, ds, i) /\ cs[i].site.name = name
                /\ cs[i].effective = effective_domains(name, delta_mut(c, t))
                /\ ds[i].effective = effective_domains(name, delta)
    BY <2>1, <2>2, <2>5, <1>DomainEdited
  <2>7. PICK i \in 1 .. Len(cs) :
                /\ EditedAt(cs, ds, i) /\ cs[i].site.name = name
                /\ cs[i].effective = effective_domains(name, delta_mut(c, t))
                /\ ds[i].effective = effective_domains(name, delta)
    BY Zenon, <2>6
  <2>8. /\ ds \in Seq(PlanType) /\ Len(ds) = Len(cs) /\ cs[i].eligible /\ ds[i].eligible
        /\ \A j \in 1 .. Len(cs) : ds[j].site = cs[j].site
    BY Zenon, <2>7 DEF EditedAt
  <2>9. ASSUME NEW e \in Domains, r.owner[e] \notin {name, NoDomain} PROVE q.owner[e] = r.owner[e]
    <3>1. PICK k : k = RightfulOwner(cs, e)
      BY ZenonT(30)
    <3>2. k \notin {0, i}
      BY <2>3, <2>4, <2>7, <2>8, <2>9, <3>1, OwnerNamed
    <3>3. e \in Range(ds[i].effective) => e \in Range(cs[i].effective) \/ e = cs[i].site.name
      BY Zenon, <2>6, <2>7, <1>FewerAsked
    <3>4. RightfulOwner(ds, e) = k
      BY Zenon, <2>4, <2>7, <3>1, <3>2, <3>3, <1>KeepsDomain
    <3>5. k \in 1 .. Len(cs)
      BY ZenonT(30), <2>4, <3>1, <3>2, OwnerIs
    <3>6. r.owner[e] = cs[k].site.name /\ q.owner[e] = ds[k].site.name
      BY <2>3, <2>4, <2>6, <2>8, <3>1, <3>4, <3>5, OwnerNamed
    <3> QED BY Zenon, <2>8, <3>5, <3>6
  <2> QED BY Zenon, <2>9
\* The four requests as edits of one customisation.
<1>DomainRequests.
    ASSUME NEW c \in ConfigType, NEW r \in RouterType, NEW name \in Names, NEW dom \in Domains, NEW new
    PROVE  /\ new \in apply_add_domain(c, r, name, dom) =>
                \E t \in resolve_domain_target(c, r, name) :
                  /\ ~claimed_elsewhere(r, name, dom)
                  /\ delta_mut(c, t).primary \in Domains \cup {NoDomain}
                  /\ new = WithDelta(c, t, Wanting(delta_mut(c, t), name, dom, delta_mut(c, t).primary))
           /\ new \in apply_set_primary_domain(c, r, name, dom) =>
                /\ dom \in Exact
                /\ \E t \in resolve_domain_target(c, r, name) :
                     /\ ~claimed_elsewhere(r, name, dom)
                     /\ new = WithDelta(c, t, Wanting(delta_mut(c, t), name, dom,
                                                      IF dom = name THEN NoDomain ELSE dom))
           /\ new \in apply_remove_domain(c, r, name, dom) \cup apply_reset_domains(c, r, name) =>
                \E t \in resolve_domain_target(c, r, name) : \E delta \in DeltaType :
                  Range(delta.added) \in SUBSET Range(delta_mut(c, t).added) /\ new = WithDelta(c, t, delta)
  <2> USE <1>DomainRequests
  <2>1. ASSUME NEW t \in resolve_domain_target(c, r, name)
        PROVE  /\ delta_mut(c, t) \in DeltaType
               /\ delta_mut(c, t).added \in Seq(Domains)
               /\ delta_mut(c, t).suppressed \in SUBSET Domains
               /\ delta_mut(c, t).primary \in Domains \cup {NoDomain}
    <3>1. delta_mut(c, t) \in DeltaType
      BY Zenon, TargetIs, WithDeltaIs
    <3> QED BY Zenon, <3>1 DEF DeltaType
  <2>2. ASSUME new \in apply_add_domain(c, r, name, dom)
        PROVE  \E t \in resolve_domain_target(c, r, name) :
                  /\ ~claimed_elsewhere(r, name, dom)
                  /\ delta_mut(c, t).primary \in Domains \cup {NoDomain}
                  /\ new = WithDelta(c, t, Wanting(delta_mut(c, t), name, dom, delta_mut(c, t).primary))
    <3>1. PICK t \in resolve_domain_target(c, r, name) :
             /\ ~claimed_elsewhere(r, name, dom)
             /\ new = WithDelta(c, t, IF dom = name
                                      THEN [delta_mut(c, t) EXCEPT !.suppressed = @ \ {name}]
                                      ELSE [delta_mut(c, t) EXCEPT !.added = Included(@, dom)])
      BY Zenon, <2>2 DEF apply_add_domain
    <3>2. PICK old \in DeltaType : old = delta_mut(c, t)
      BY Zenon, <2>1
    <3>3. /\ [old EXCEPT !.suppressed = @ \ {name}] =
               [added |-> old.added, suppressed |-> old.suppressed \ {name}, primary |-> old.primary]
          /\ [old EXCEPT !.added = Included(@, dom)] =
               [added |-> Included(old.added, dom), suppressed |-> old.suppressed, primary |-> old.primary]
      <4>1. PICK a, s, p : old = [added |-> a, suppressed |-> s, primary |-> p]
        BY Zenon DEF DeltaType
      <4>2. [old EXCEPT !.suppressed = @ \ {name}] =
               [added |-> old.added, suppressed |-> old.suppressed \ {name}, primary |-> old.primary]
        BY <4>1
      <4>3. [old EXCEPT !.added = Included(@, dom)] =
               [added |-> Included(old.added, dom), suppressed |-> old.suppressed, primary |-> old.primary]
        BY <4>1
      <4> QED BY Zenon, <4>2, <4>3
    <3> QED BY Zenon, <2>1, <3>1, <3>2, <3>3 DEF Wanting
  <2>3. ASSUME new \in apply_set_primary_domain(c, r, name, dom)
        PROVE  /\ dom \in Exact
               /\ \E t \in resolve_domain_target(c, r, name) :
                    /\ ~claimed_elsewhere(r, name, dom)
                    /\ new = WithDelta(c, t, Wanting(delta_mut(c, t), name, dom,
                                                     IF dom = name THEN NoDomain ELSE dom))
    <3>1. PICK t \in resolve_domain_target(c, r, name) :
             /\ ~claimed_elsewhere(r, name, dom) /\ dom \notin Wildcards
             /\ new = WithDelta(c, t, IF dom = name
                       THEN [delta_mut(c, t) EXCEPT !.suppressed = @ \ {name}, !.primary = NoDomain]
                       ELSE [delta_mut(c, t) EXCEPT !.added = Included(@, dom), !.primary = dom])
      BY Zenon, <2>3 DEF apply_set_primary_domain
    <3>2. PICK old \in DeltaType : old = delta_mut(c, t)
      BY Zenon, <2>1
    <3>3. /\ [old EXCEPT !.suppressed = @ \ {name}, !.primary = NoDomain] =
               [added |-> old.added, suppressed |-> old.suppressed \ {name}, primary |-> NoDomain]
          /\ [old EXCEPT !.added = Included(@, dom), !.primary = dom] =
               [added |-> Included(old.added, dom), suppressed |-> old.suppressed, primary |-> dom]
      <4>0. PICK x, y : x = Included(old.added, dom) /\ y = old.suppressed \ {name}
        BY Zenon
      <4>1. PICK a, s, p : old = [added |-> a, suppressed |-> s, primary |-> p]
        BY Zenon DEF DeltaType
      <4>2. /\ [old EXCEPT !.suppressed = y] = [added |-> a, suppressed |-> y, primary |-> p]
            /\ [old EXCEPT !.added = x] = [added |-> x, suppressed |-> s, primary |-> p]
            /\ old.added = a /\ old.suppressed = s
        BY <4>1
      <4>3. PICK e, f : /\ e = [added |-> a, suppressed |-> y, primary |-> p]
                        /\ f = [added |-> x, suppressed |-> s, primary |-> p]
        BY Zenon
      <4>4. [e EXCEPT !.primary = NoDomain] = [added |-> a, suppressed |-> y, primary |-> NoDomain]
        BY <4>3
      <4>5. [f EXCEPT !.primary = dom] = [added |-> x, suppressed |-> s, primary |-> dom]
        BY <4>3
      <4>6. [old EXCEPT !.suppressed = y, !.primary = NoDomain] =
               [added |-> old.added, suppressed |-> y, primary |-> NoDomain]
        BY <4>2, <4>3, <4>4, Zenon
      <4>7. [old EXCEPT !.added = x, !.primary = dom] =
               [added |-> x, suppressed |-> old.suppressed, primary |-> dom]
        BY <4>2, <4>3, <4>5, Zenon
      <4> QED BY <4>0, <4>6, <4>7, Zenon
    <3>4. dom \in Exact
      BY Zenon, <3>1 DEF Domains
    <3> QED BY Zenon, <3>1, <3>2, <3>3, <3>4 DEF Wanting
  <2>4. ASSUME new \in apply_remove_domain(c, r, name, dom)
        PROVE  \E t \in resolve_domain_target(c, r, name) : \E delta \in DeltaType :
                  Range(delta.added) \in SUBSET Range(delta_mut(c, t).added) /\ new = WithDelta(c, t, delta)
    <3>1. PICK t, delta :
             /\ t \in resolve_domain_target(c, r, name)
             /\ new = WithDelta(c, t, delta)
             /\ delta = [added |-> OnlyIn(delta_mut(c, t).added, Domains \ {dom}),
                         suppressed |-> IF dom \in Range(delta_mut(c, t).added)
                                        THEN delta_mut(c, t).suppressed
                                        ELSE delta_mut(c, t).suppressed \cup {name},
                         primary |-> IF delta_mut(c, t).primary = dom THEN NoDomain
                                     ELSE delta_mut(c, t).primary]
      BY Zenon, <2>4 DEF apply_remove_domain
    <3>2. PICK kept : kept = OnlyIn(delta_mut(c, t).added, Domains \ {dom})
      BY Zenon
    <3>0. t \in resolve_domain_target(c, r, name)
      BY Zenon, <3>1
    <3>3. kept \in Seq(Domains) /\ Range(kept) = Range(delta_mut(c, t).added) \cap (Domains \ {dom})
      BY <2>1, <3>0, <3>2, OnlyInIs
    <3>4. name \in Domains
      BY Zenon DEF Domains, Exact
    <3>5. delta \in DeltaType /\ delta.added = kept
      BY Zenon, <2>1, <3>0, <3>1, <3>2, <3>3, <3>4 DEF DeltaType
    <3>6. Range(delta.added) \in SUBSET Range(delta_mut(c, t).added)
      BY Zenon, <3>3, <3>5
    <3> QED BY Zenon, <3>1, <3>5, <3>6
  <2>5. ASSUME new \in apply_reset_domains(c, r, name)
        PROVE  \E t \in resolve_domain_target(c, r, name) : \E delta \in DeltaType :
                  Range(delta.added) \in SUBSET Range(delta_mut(c, t).added) /\ new = WithDelta(c, t, delta)
    <3>1. PICK t \in resolve_domain_target(c, r, name) : new = WithDelta(c, t, NoDelta)
      BY Zenon, <2>5 DEF apply_reset_domains
    <3>2. Range(NoDelta.added) = {}
      BY DEF NoDelta, Range
    <3> QED BY Zenon, <3>1, <3>2, NoDeltaIs
  <2> QED BY Zenon, <2>2, <2>3, <2>4, <2>5
\* Editing domains changes nothing a scan depends on.
<1>ScansAgree.
    ASSUME NEW c, NEW t, NEW delta, NEW dirs, c \in ConfigType
    PROVE  scan_sites(WithDelta(c, t, delta), dirs) = scan_sites(c, dirs)
  <2> USE <1>ScansAgree
  <2>1. PICK new : new = WithDelta(c, t, delta)
    BY Zenon
  <2>2. PICK ds : ds = [c.domains EXCEPT ![t.map][t.key] = delta]
    BY Zenon
  <2>3. new = [c EXCEPT !.domains = ds]
    BY Zenon, <2>1, <2>2 DEF WithDelta
  <2>4. new.parked = c.parked /\ new.linked = c.linked /\ new.override = c.override
    BY Zenon, <2>3 DEF ConfigType
  <2> QED BY Zenon, <2>1, <2>4, SameScan
\* A domain that AddDomain or SetPrimaryDomain accepted goes to the name, over claimants
\* that come before it too, and becomes its primary where that was asked for.
<1>DomainsTakeEffect.
    ASSUME TypeInv, CommitInv, [Next]_vars, Settled, NEW n \in Names, NEW d \in Domains
    PROVE  /\ Commits(apply_add_domain(memory, router, n, d)) => Candidate.owner[d] = n
           /\ Commits(apply_set_primary_domain(memory, router, n, d)) =>
                Candidate.owner[d] = n /\ Candidate.primary[n] = d
  <2> USE <1>DomainsTakeEffect
  <2>0. memory \in ConfigType /\ router \in RouterType /\ present \in SUBSET Dirs
    BY Zenon DEF TypeInv
  <2>1. ASSUME Commits(apply_add_domain(memory, router, n, d)) PROVE Candidate.owner[d] = n
    <3>1. PICK new, sites :
            new \in apply_add_domain(memory, router, n, d) /\ sites \in scan_sites(new, present) /\ Candidate = build(new, sites)
      BY Zenon, <2>1, CommitGives
    <3>2. PICK t \in resolve_domain_target(memory, router, n) :
             /\ ~claimed_elsewhere(router, n, d)
             /\ delta_mut(memory, t).primary \in Domains \cup {NoDomain}
             /\ new = WithDelta(memory, t, Wanting(delta_mut(memory, t), n, d, delta_mut(memory, t).primary))
      BY <2>0, <3>1, <1>DomainRequests
    <3>3. sites \in scan_sites(memory, present)
      BY <2>0, <3>1, <3>2, <1>ScansAgree
    <3>4. router = build(memory, sites)
      BY Zenon, <3>3, SettledGives
    <3> QED BY <2>0, <3>1, <3>2, <3>3, <3>4, <1>DomainWanted
  <2>2. ASSUME Commits(apply_set_primary_domain(memory, router, n, d))
        PROVE  Candidate.owner[d] = n /\ Candidate.primary[n] = d
    <3>1. PICK new, sites :
            new \in apply_set_primary_domain(memory, router, n, d) /\ sites \in scan_sites(new, present) /\ Candidate = build(new, sites)
      BY Zenon, <2>2, CommitGives
    <3>2. d \in Exact
      BY Zenon, <2>0, <3>1, <1>DomainRequests
    <3>3. PICK primary \in Domains \cup {NoDomain} : primary = IF d = n THEN NoDomain ELSE d
      BY Zenon
    <3>4. PICK t \in resolve_domain_target(memory, router, n) :
             /\ ~claimed_elsewhere(router, n, d)
             /\ new = WithDelta(memory, t, Wanting(delta_mut(memory, t), n, d, primary))
      BY <2>0, <3>1, <3>3, <1>DomainRequests
    <3>5. sites \in scan_sites(memory, present)
      BY <2>0, <3>1, <3>4, <1>ScansAgree
    <3>6. router = build(memory, sites)
      BY Zenon, <3>5, SettledGives
    <3>7. /\ Candidate.owner[d] = n
          /\ d \in Exact /\ primary = (IF d = n THEN NoDomain ELSE d) => Candidate.primary[n] = d
      BY <2>0, <3>1, <3>4, <3>5, <3>6, <1>DomainWanted
    <3> QED BY Zenon, <3>2, <3>3, <3>7
  <2> QED BY Zenon, <2>1, <2>2
\* No edit of one name's domains takes a domain from another.
<1>OthersKeepDomains.
    ASSUME TypeInv, CommitInv, [Next]_vars, Settled, NEW n \in Names,
           Commits((UNION {apply_add_domain(memory, router, n, d)
                          \cup apply_set_primary_domain(memory, router, n, d)
                          \cup apply_remove_domain(memory, router, n, d) : d \in Domains})
                  \cup apply_reset_domains(memory, router, n)),
           NEW e \in Domains
    PROVE  router.owner[e] \in {n, NoDomain, Candidate.owner[e]}
  <2> USE <1>OthersKeepDomains
  <2>0. memory \in ConfigType /\ router \in RouterType /\ present \in SUBSET Dirs
    BY Zenon DEF TypeInv
  <2>1. PICK new, sites :
          /\ sites \in scan_sites(new, present) /\ Candidate = build(new, sites)
          /\ \/ \E d \in Domains : new \in apply_add_domain(memory, router, n, d)
             \/ \E d \in Domains : new \in apply_set_primary_domain(memory, router, n, d)
             \/ \E d \in Domains : new \in apply_remove_domain(memory, router, n, d)
             \/ new \in apply_reset_domains(memory, router, n)
    <3>1. PICK edits : edits = (UNION {apply_add_domain(memory, router, n, d)
                          \cup apply_set_primary_domain(memory, router, n, d)
                          \cup apply_remove_domain(memory, router, n, d) : d \in Domains})
                  \cup apply_reset_domains(memory, router, n)
      BY Zenon
    <3>2. PICK new, sites :
            new \in edits /\ sites \in scan_sites(new, present) /\ Candidate = build(new, sites)
      BY Zenon, <3>1, CommitGives
    <3>3. \/ \E d \in Domains : new \in apply_add_domain(memory, router, n, d)
          \/ \E d \in Domains : new \in apply_set_primary_domain(memory, router, n, d)
          \/ \E d \in Domains : new \in apply_remove_domain(memory, router, n, d)
          \/ new \in apply_reset_domains(memory, router, n)
      <4>1. CASE new \in apply_reset_domains(memory, router, n)
        BY Zenon, <4>1
      <4>2. CASE new \in UNION {apply_add_domain(memory, router, n, d)
                          \cup apply_set_primary_domain(memory, router, n, d)
                          \cup apply_remove_domain(memory, router, n, d) : d \in Domains}
        <5>1. PICK d \in Domains : new \in apply_add_domain(memory, router, n, d)
                          \cup apply_set_primary_domain(memory, router, n, d)
                          \cup apply_remove_domain(memory, router, n, d)
          BY <4>2, Zenon
        <5> QED BY Zenon, <5>1
      <4> QED BY Zenon, <3>1, <3>2, <4>1, <4>2
    <3> QED BY Zenon, <3>2, <3>3
  <2>2. n \in Domains
    BY Zenon DEF Domains, Exact
  <2>3. ASSUME NEW d \in Domains, NEW primary \in Domains \cup {NoDomain},
               NEW t \in resolve_domain_target(memory, router, n), ~claimed_elsewhere(router, n, d),
               new = WithDelta(memory, t, Wanting(delta_mut(memory, t), n, d, primary))
        PROVE  router.owner[e] \in {n, NoDomain, Candidate.owner[e]}
    <3>1. sites \in scan_sites(memory, present)
      BY <2>0, <2>1, <2>3, <1>ScansAgree
    <3>2. router = build(memory, sites)
      BY Zenon, <3>1, SettledGives
    <3> QED BY <2>0, <2>1, <2>3, <3>1, <3>2, <1>DomainWanted
  <2>4. ASSUME NEW t \in resolve_domain_target(memory, router, n), NEW delta \in DeltaType,
               Range(delta.added) \in SUBSET Range(delta_mut(memory, t).added),
               new = WithDelta(memory, t, delta)
        PROVE  router.owner[e] \in {n, NoDomain, Candidate.owner[e]}
    <3>1. sites \in scan_sites(memory, present)
      BY <2>0, <2>1, <2>4, <1>ScansAgree
    <3>2. router = build(memory, sites)
      BY Zenon, <3>1, SettledGives
    <3> QED BY <2>0, <2>1, <2>4, <3>1, <3>2, <1>DomainUnwanted
  <2>5. ASSUME NEW d \in Domains, new \in apply_add_domain(memory, router, n, d)
        PROVE  router.owner[e] \in {n, NoDomain, Candidate.owner[e]}
    BY <2>0, <2>3, <2>5, <1>DomainRequests
  <2>6. ASSUME NEW d \in Domains, new \in apply_set_primary_domain(memory, router, n, d)
        PROVE  router.owner[e] \in {n, NoDomain, Candidate.owner[e]}
    <3>1. PICK primary \in Domains \cup {NoDomain} : primary = IF d = n THEN NoDomain ELSE d
      BY Zenon
    <3>2. PICK t \in resolve_domain_target(memory, router, n) :
             /\ ~claimed_elsewhere(router, n, d)
             /\ new = WithDelta(memory, t, Wanting(delta_mut(memory, t), n, d, primary))
      BY <2>0, <2>6, <3>1, <1>DomainRequests
    <3> QED BY Zenon, <2>3, <3>2
  <2>7. ASSUME NEW d \in Domains,
               new \in apply_remove_domain(memory, router, n, d) \cup apply_reset_domains(memory, router, n)
        PROVE  router.owner[e] \in {n, NoDomain, Candidate.owner[e]}
    BY <2>0, <2>4, <2>7, <1>DomainRequests
  <2> QED BY Zenon, <2>1, <2>2, <2>5, <2>6, <2>7
<1> QED BY Zenon, <1>DomainsTakeEffect, <1>OthersKeepDomains

\* The registered sites: one for each name, a linked or parked site or a whole-host proxy
\* whose name no site has; every scanned name is registered with a site.
LEMMA Published ==
  ASSUME NEW c \in ConfigType, NEW dirs \in SUBSET Dirs, NEW sites \in scan_sites(c, dirs)
  PROVE  /\ \A s \in build(c, sites).sites :
              SiteOf(c, s) \/ (ProxyOf(c, s) /\ s.name \notin NamesIn(sites))
         /\ \A s, t \in build(c, sites).sites : s.name = t.name => s = t
         /\ \A s \in Range(sites) : \E t \in build(c, sites).sites : t.name = s.name /\ SiteOf(c, t)
<1>1. PICK cs : cs = claimants(c, sites)
  BY Zenon
<1>2. cs \in Seq(PlanType) /\ NamesApart(cs) /\ ClaimantsOf(c, sites, cs)
  BY Zenon, <1>1, TheClaimants
<1>3. PICK r : r = build(c, sites)
  BY Zenon
<1>4. \A s : s \in r.sites <=> \E i \in DOMAIN cs : cs[i].eligible /\ s = cs[i].site
  BY <1>1, <1>2, <1>3, RegisteredAre DEF build
<1>5. \A s \in r.sites : SiteOf(c, s) \/ (ProxyOf(c, s) /\ s.name \notin NamesIn(sites))
  BY <1>2, <1>4 DEF ClaimantsOf
<1>6. \A s, t \in r.sites : s.name = t.name => s = t
  BY <1>2, <1>4 DEF NamesApart
<1>7. ASSUME NEW s \in Range(sites) PROVE \E t \in r.sites : t.name = s.name /\ SiteOf(c, t)
  <2>1. PICK i \in DOMAIN cs : cs[i].eligible /\ cs[i].site.name = s.name /\ cs[i].site \in Range(sites)
    BY Zenon, <1>2 DEF ClaimantsOf
  <2>2. SiteOf(c, cs[i].site)
    BY Zenon, <2>1, ScannedFrom
  <2> QED BY Zenon, <1>4, <2>1, <2>2
<1> QED BY Zenon, <1>3, <1>5, <1>6, <1>7

\* A name that is linked is never served as anything else.
LEMMA LinkedServed ==
  ASSUME NEW c \in ConfigType, NEW dirs \in SUBSET Dirs, NEW sites \in scan_sites(c, dirs),
         NEW n \in NamesIn(c.linked)
  PROVE  /\ \E s \in build(c, sites).sites : s.name = n
         /\ \A s \in build(c, sites).sites : s.name = n =>
              s.kind = "linked" /\ \E k \in DOMAIN c.linked :
                n = c.linked[k].name /\ s.dir = c.linked[k].dir /\ s.secure = c.linked[k].secure
<1>1. PICK k \in DOMAIN c.linked : n = c.linked[k].name
  BY Zenon DEF NamesIn
<1>2. PICK e \in Range(sites) : e.name = n
  <2>1. [kind |-> "linked", name |-> c.linked[k].name, dir |-> c.linked[k].dir,
         secure |-> c.linked[k].secure] \in Range(sites)
    BY Zenon, ScannedFrom
  <2> QED BY Zenon, <1>1, <2>1
<1>3. PICK t \in build(c, sites).sites : t.name = n /\ SiteOf(c, t)
  BY <1>2, Published
<1>4. ASSUME NEW s \in build(c, sites).sites, s.name = n
      PROVE  s.kind = "linked" /\ \E j \in DOMAIN c.linked :
               n = c.linked[j].name /\ s.dir = c.linked[j].dir /\ s.secure = c.linked[j].secure
  <2>1. s = t
    BY <1>3, <1>4, Published
  <2> QED BY ZenonT(30), <1>3, <1>4, <2>1 DEF SiteOf
<1> QED BY Zenon, <1>3, <1>4

\* What the claims of a free name rest on, throughout.
LEMMA ApexesStayFree ==
  ASSUME \A c \in HandWritten : ApexesFree(c)
  PROVE  Spec => []ApexesFree(disk)
<1>1. Init => ApexesFree(disk)
  BY Zenon DEF Init
<1>2. TypeInv /\ CommitInv /\ ApexesFree(disk) /\ [Next]_vars => ApexesFree(disk)'
  <2> SUFFICES ASSUME TypeInv, CommitInv, ApexesFree(disk), [Next]_vars PROVE ApexesFree(disk')
    BY Zenon DEF ApexesFree
  <2> QED BY Zenon, NextTyped
<1> QED BY <1>1, <1>2, TypeInvHolds, CommitInvHolds, PTL DEF Spec

-----------------------------------------------------------------------------
(* The theorems. *)

\* AddDomain and SetPrimaryDomain do what they answered Ok to, whoever else claims what.
THEOREM DomainAlwaysTakesEffect == Spec => DomainTakesEffect
<1>1. TypeInv /\ CommitInv /\ [Next]_vars =>
        [Settled => \A n \in Names, d \in Domains :
           /\ Commits(apply_add_domain(memory, router, n, d)) => Candidate.owner[d] = n
           /\ Commits(apply_set_primary_domain(memory, router, n, d)) =>
                Candidate.owner[d] = n /\ Candidate.primary[n] = d]_vars
  BY Zenon, DomainSteps
<1> QED BY <1>1, TypeInvHolds, CommitInvHolds, PTL DEF Spec, DomainTakesEffect

\* Editing the domains of one site takes no domain from another.
THEOREM DomainsOfOthersAlwaysKept == Spec => DomainsOfOthersKept
<1>1. TypeInv /\ CommitInv /\ [Next]_vars =>
        [Settled => \A n \in Names :
          Commits((UNION {apply_add_domain(memory, router, n, d)
                          \cup apply_set_primary_domain(memory, router, n, d)
                          \cup apply_remove_domain(memory, router, n, d) : d \in Domains})
                  \cup apply_reset_domains(memory, router, n)) =>
              \A e \in Domains : router.owner[e] \in {n, NoDomain, Candidate.owner[e]}]_vars
  BY Zenon, DomainSteps
<1> QED BY <1>1, TypeInvHolds, CommitInvHolds, PTL DEF Spec, DomainsOfOthersKept

\* SetSecure reaches whatever is served under the name, in whichever of the four places its
\* flag is kept.
THEOREM SecureAlwaysTakesEffect == Spec => SecureTakesEffect
\* The entries of a name after its flag was set have the flag, and are the ones there were.
<1>SecuredOn.
    ASSUME NEW T, NEW s \in Seq(T), NEW name, NEW on, \A e \in T : [e EXCEPT !.secure = on].name = e.name,
           \A e \in T : [e EXCEPT !.secure = on].secure = on
    PROVE  /\ NamesIn(Secured(s, name, on)) = NamesIn(s)
           /\ \A k \in DOMAIN Secured(s, name, on) :
                Secured(s, name, on)[k].name = name => Secured(s, name, on)[k].secure = on
  <2> USE <1>SecuredOn
  <2>1. /\ DOMAIN Secured(s, name, on) = DOMAIN s /\ NamesIn(Secured(s, name, on)) = NamesIn(s)
        /\ \A k \in DOMAIN s : Secured(s, name, on)[k].name = s[k].name
    BY SecuredNames
  <2>2. \A k \in DOMAIN s : s[k] \in T
    BY SeqIs
  <2>3. \A k \in DOMAIN s : s[k].name = name => Secured(s, name, on)[k].secure = on
    BY Zenon, <2>2 DEF Secured
  <2> QED BY Zenon, <2>1, <2>3
\* apply_set_secure sets the flag where the site served under the name has it.
<1>SecureReaches.
    ASSUME NEW c \in ConfigType, NEW was \in SUBSET Dirs, NEW r \in build_router(c, was),
           NEW n \in Names, NEW on \in BOOLEAN, NEW new \in apply_set_secure(c, r, n, on), validate(new),
           NEW dirs \in SUBSET Dirs, NEW sites \in scan_sites(new, dirs), new \in ConfigType,
           NEW s \in build(new, sites).sites, s.name = n,
           NEW t \in r.sites, t.name = n, t.kind = s.kind, t.dir = s.dir
    PROVE  s.secure = on
  <2> USE <1>SecureReaches
  <2>0. NamesIn(c.linked \o c.proxies) = NamesIn(c.linked) \cup NamesIn(c.proxies)
    <3>1. PICK a, b : a = c.linked /\ b = c.proxies
      BY Zenon
    <3>2. a \in Seq(LinkedType) /\ b \in Seq(ProxyType)
      BY ZenonT(30), <3>1, ConfigIs
    <3>3. a \in Seq(LinkedType \cup ProxyType) /\ b \in Seq(LinkedType \cup ProxyType)
      BY <3>2
    <3>4. Range(a \o b) = Range(a) \cup Range(b)
      BY ZenonT(30), <3>3, Joined
    <3>5. \A q : NamesIn(q) = {e.name : e \in Range(q)}
      BY Zenon DEF NamesIn, Range
    <3> QED BY Zenon, <3>1, <3>4, <3>5
  <2>1. SiteOf(new, s) \/ ProxyOf(new, s)
    BY Zenon, Published
  <2>2. CASE n \in NamesIn(c.linked)
    <3>1. new = [c EXCEPT !.linked = Secured(@, n, on)]
      <4>1. apply_set_secure(c, r, n, on) = {[c EXCEPT !.linked = Secured(@, n, on)]}
        BY Zenon, <2>0, <2>2 DEF apply_set_secure
      <4> QED BY Zenon, <4>1
    <3>2. new.linked = Secured(c.linked, n, on)
      BY Zenon, <3>1 DEF ConfigType
    <3>3. /\ \A e \in LinkedType : [e EXCEPT !.secure = on].name = e.name
          /\ \A e \in LinkedType : [e EXCEPT !.secure = on].secure = on
      BY Zenon DEF LinkedType
    <3>4. c.linked \in Seq(LinkedType)
      BY Zenon, ConfigIs
    <3>5. /\ NamesIn(new.linked) = NamesIn(c.linked)
          /\ \A k \in DOMAIN new.linked : new.linked[k].name = n => new.linked[k].secure = on
      BY <3>2, <3>3, <3>4, <1>SecuredOn
    <3>6. PICK k \in DOMAIN new.linked : n = new.linked[k].name /\ s.secure = new.linked[k].secure
      BY <2>2, <3>5, LinkedServed
    <3> QED BY Zenon, <3>5, <3>6
  <2>3. CASE n \notin NamesIn(c.linked) /\ get(r, n) # {}
    <3>1. PICK e \in get(r, n) : new = [c EXCEPT !.override[e.dir] = IF on THEN "on" ELSE "off"]
      BY Zenon, <2>3 DEF apply_set_secure
    <3>2. e \in r.sites /\ e.name = n /\ e.kind \in {"linked", "parked"}
      BY ZenonT(30) DEF get
    <3>3. e = t
      <4>1. PICK seen \in scan_sites(c, was) : r = build(c, seen)
        BY Zenon DEF build_router
      <4> QED BY <3>2, <4>1, Published
    <3>4. SiteOf(new, s)
      BY Zenon, <2>1, <3>2, <3>3 DEF ProxyOf
    <3>5. s.kind = "parked" /\ s.dir \in Dirs /\ s.secure = (new.override[s.dir] = "on")
      <4>1. NamesIn(new.linked) = NamesIn(c.linked)
        BY Zenon, <3>1 DEF ConfigType
      <4> QED BY Zenon, <2>3, <3>4, <4>1 DEF SiteOf, NamesIn
    <3>6. new.override[s.dir] = IF on THEN "on" ELSE "off"
      BY Zenon, <3>1, <3>3, <3>5 DEF ConfigType
    <3> QED BY Zenon, <3>5, <3>6
  <2>4. ASSUME get(r, n) = {} PROVE ProxyOf(new, s) /\ s.kind \in {"proxy", "project"}
    <3>1. s.kind \notin {"linked", "parked"}
      BY Zenon, <2>4 DEF get
    <3> QED BY Zenon, <2>1, <3>1 DEF SiteOf, ProxyOf
  <2>5. CASE n \notin NamesIn(c.linked) /\ get(r, n) = {} /\ n \in NamesIn(c.proxies)
    <3>1. new = [c EXCEPT !.proxies = Secured(@, n, on)]
      <4>1. apply_set_secure(c, r, n, on) = {[c EXCEPT !.proxies = Secured(@, n, on)]}
        BY Zenon, <2>0, <2>5 DEF apply_set_secure
      <4> QED BY Zenon, <4>1
    <3>2. new.proxies = Secured(c.proxies, n, on)
      BY Zenon, <3>1 DEF ConfigType
    <3>3. /\ \A e \in ProxyType : [e EXCEPT !.secure = on].name = e.name
          /\ \A e \in ProxyType : [e EXCEPT !.secure = on].secure = on
      BY Zenon DEF ProxyType
    <3>4. c.proxies \in Seq(ProxyType)
      BY Zenon, ConfigIs
    <3>5. /\ NamesIn(new.proxies) = NamesIn(c.proxies)
          /\ \A k \in DOMAIN new.proxies : new.proxies[k].name = n => new.proxies[k].secure = on
      BY <3>2, <3>3, <3>4, <1>SecuredOn
    <3>6. n \notin NamesIn(new.projects)
      BY Zenon, <2>5, <3>5 DEF validate, validate_projects
    <3>7. PICK k \in DOMAIN new.proxies : n = new.proxies[k].name /\ s.secure = new.proxies[k].secure
      BY Zenon, <2>4, <2>5, <3>6 DEF ProxyOf, NamesIn
    <3> QED BY Zenon, <3>5, <3>7
  <2>6. CASE n \notin NamesIn(c.linked) /\ get(r, n) = {} /\ n \notin NamesIn(c.proxies)
    <3>1. new = [c EXCEPT !.projects = Secured(@, n, on)]
      <4>0. c.linked \in Seq(LinkedType) /\ c.proxies \in Seq(ProxyType)
        BY Zenon, ConfigIs
      <4> QED BY Zenon, <2>6 DEF apply_set_secure
    <3>2. new.projects = Secured(c.projects, n, on) /\ new.proxies = c.proxies
      BY Zenon, <3>1 DEF ConfigType
    <3>3. /\ \A e \in ProjectType : [e EXCEPT !.secure = on].name = e.name
          /\ \A e \in ProjectType : [e EXCEPT !.secure = on].secure = on
      BY Zenon DEF ProjectType
    <3>4. c.projects \in Seq(ProjectType)
      BY Zenon, ConfigIs
    <3>5. \A k \in DOMAIN new.projects : new.projects[k].name = n => new.projects[k].secure = on
      BY <3>2, <3>3, <3>4, <1>SecuredOn
    <3>6. PICK k \in DOMAIN new.projects : n = new.projects[k].name /\ s.secure = new.projects[k].secure
      BY ZenonT(30), <2>4, <2>6, <3>2 DEF ProxyOf, NamesIn
    <3> QED BY Zenon, <3>5, <3>6
  <2> QED BY Zenon, <2>2, <2>3, <2>5, <2>6
<1>1. ASSUME TypeInv, CommitInv, [Next]_vars, NEW n \in Names, NEW on \in BOOLEAN,
             Commits(apply_set_secure(memory, router, n, on)), NEW s \in Candidate.sites, s.name = n,
             NEW t \in router.sites, t.name = n, t.kind = s.kind, t.dir = s.dir
      PROVE  s.secure = on
  <2>0. memory \in ConfigType /\ router \in RouterType /\ present \in SUBSET Dirs
    BY ZenonT(30), <1>1 DEF TypeInv
  <2>1. PICK new, sites : /\ new \in apply_set_secure(memory, router, n, on)
                          /\ sites \in scan_sites(new, present) /\ validate(new)
                          /\ Candidate = build(new, sites) /\ Gives(memory, router)
                          /\ \E p \in pending' : new = p.config
    BY Zenon, <1>1, CommitGives
  <2>2. new \in ConfigType
    BY ZenonT(30), <1>1, <2>1, NextTyped DEF TypeInv
  <2>3. PICK was \in SUBSET Dirs : router \in build_router(memory, was)
    BY Zenon, <2>1 DEF Gives
  <2> QED BY <1>1, <2>0, <2>1, <2>2, <2>3, <1>SecureReaches
<1>2. TypeInv /\ CommitInv /\ [Next]_vars =>
        [\A n \in Names, on \in BOOLEAN :
           Commits(apply_set_secure(memory, router, n, on)) =>
             \A s \in Candidate.sites :
               s.name = n /\ (\E t \in router.sites : t.name = n /\ t.kind = s.kind /\ t.dir = s.dir) =>
                 s.secure = on]_vars
  BY <1>1
<1> QED BY <1>2, TypeInvHolds, CommitInvHolds, PTL DEF Spec, SecureTakesEffect

\* A linked name is served from its directory, whatever else has the name; a new proxy has its
\* apex when the router has seen the directories there are.  No hand-written file suppresses
\* the apex of a name that neither a proxy nor a project has.
THEOREM LinkAlwaysTakesEffect ==
  ASSUME \A c \in HandWritten : ApexesFree(c)
  PROVE  Spec => LinkTakesEffect
\* The first claimants are the sites, whatever proxies there are.
<1>FirstClaimants.
    ASSUME NEW c \in ConfigType, NEW new \in ConfigType, NEW sites \in Seq(SiteType),
           NEW j \in DOMAIN claimants(new, sites), j <= Len(FirstOfEachName(sites))
    PROVE  /\ j \in DOMAIN claimants(c, sites) /\ claimants(c, sites)[j].eligible
           /\ claimants(c, sites)[j].site = claimants(new, sites)[j].site
  <2> USE <1>FirstClaimants
  <2>1. PICK kept : kept = FirstOfEachName(sites)
    BY Zenon
  <2>2. kept \in Seq(SiteType) /\ Len(kept) \in Nat
    BY <2>1, FirstsAre
  <2>3. j \in 1 .. Len(kept)
    <3>1. claimants(new, sites) \in Seq(PlanType)
      BY Zenon, ClaimantsAre
    <3> QED BY <2>1, <2>2, <3>1
  <2>4. ASSUME NEW x \in ConfigType
        PROVE  /\ j \in DOMAIN claimants(x, sites) /\ claimants(x, sites)[j].eligible
               /\ claimants(x, sites)[j].site = kept[j]
    <3>1. PICK ps : ps = ProxySites(x)
      BY Zenon
    <3>2. PICK b : b = FirstOfEachName(ps)
      BY Zenon
    <3>3. b \in Seq(SiteType) /\ Len(b) \in Nat
      <4>1. ps \in Seq(SiteType)
        BY Zenon, <3>1, ProxySitesFrom
      <4> QED BY <3>2, <4>1, FirstsAre
    <3>4. Len(kept \o b) = Len(kept) + Len(b) /\ (kept \o b)[j] = kept[j]
      <4>1. kept \in Seq(SiteType) /\ b \in Seq(SiteType)
        BY Zenon, <2>2, <3>3
      <4> QED BY <2>3, <4>1
    <3>5. ClaimantSites(x, sites) = kept \o b
      BY Zenon, <2>1, <3>1, <3>2 DEF ClaimantSites
    <3>6. PICK cs : cs = claimants(x, sites)
      BY Zenon
    <3>7. cs \in Seq(PlanType) /\ DOMAIN cs = 1 .. Len(cs)
      BY Zenon, <3>6, ClaimantsAre, SeqIs
    <3>8. j \in DOMAIN cs
      <4>1. Len(cs) = Len(kept) + Len(b)
        BY Zenon, <3>4, <3>5, <3>6, ClaimantsFrom
      <4> QED BY <2>2, <2>3, <3>3, <3>7, <4>1
    <3>9. cs[j].site = ClaimantSites(x, sites)[j] /\ cs[j].eligible
      BY Zenon, <3>6, <3>8, ClaimantsFrom
    <3> QED BY Zenon, <3>4, <3>5, <3>6, <3>8, <3>9
  <2> QED BY Zenon, <2>4
\* apply_link gives the name to the directory, whatever else has the name.
<1>LinkReaches.
    ASSUME NEW c \in ConfigType, NEW n \in Names, NEW d \in Dirs, NEW new \in apply_link(c, n, d),
           new \in ConfigType, NEW dirs \in SUBSET Dirs, NEW sites \in scan_sites(new, dirs)
    PROVE  \E s \in build(new, sites).sites : s.name = n /\ s.dir = d /\ s.kind = "linked"
  <2> USE <1>LinkReaches
  <2>1. PICK e : e = [name |-> n, dir |-> d, secure |-> FALSE]
    BY Zenon
  <2>2. PICK ls : ls = c.linked
    BY Zenon
  <2>3. n \notin NamesIn(ls) /\ new.linked = Append(ls, e)
    BY Zenon, <2>1, <2>2 DEF apply_link, ConfigType
  <2>4. ls \in Seq(LinkedType) /\ e \in LinkedType
    BY Zenon, <2>1, <2>2, ConfigIs DEF LinkedType
  <2>5. n \in NamesIn(new.linked)
    BY <2>1, <2>3, <2>4, NamesGrow
  <2>6. PICK s \in build(new, sites).sites : s.name = n
    BY <2>5, LinkedServed
  <2>7. s.kind = "linked" /\ \E k \in DOMAIN new.linked : n = new.linked[k].name /\ s.dir = new.linked[k].dir
    BY <2>5, <2>6, LinkedServed
  <2>8. PICK k \in DOMAIN new.linked : n = new.linked[k].name /\ s.dir = new.linked[k].dir
    BY Zenon, <2>7
  <2>9. new.linked[k] = e
    <3>1. PICK u : u = Append(ls, e)
      BY Zenon
    <3>2. /\ u \in Seq(LinkedType) /\ Len(u) = Len(ls) + 1 /\ u[Len(ls) + 1] = e
          /\ \A i \in 1 .. Len(ls) : u[i] = ls[i]
      BY <2>4, <3>1, Appended
    <3>3. DOMAIN u = 1 .. Len(ls) + 1 /\ DOMAIN ls = 1 .. Len(ls) /\ Len(ls) \in Nat
      BY <2>4, <3>2
    <3>4. k \in DOMAIN u /\ u[k].name = n
      BY Zenon, <2>3, <2>8, <3>1
    <3>5. k \notin DOMAIN ls
      BY Zenon, <2>3, <3>2, <3>3, <3>4 DEF NamesIn
    <3>6. k = Len(ls) + 1
      BY <3>3, <3>4, <3>5
    <3> QED BY Zenon, <2>3, <3>1, <3>2, <3>6
  <2> QED BY <2>1, <2>6, <2>7, <2>8, <2>9
\* A domain without an owner is wanted by nobody.
<1>Unowned.
    ASSUME NEW c \in ConfigType, NEW cs \in Seq(PlanType), NamesApart(cs), NEW d \in Domains,
           Route(c, cs).owner[d] = NoDomain
    PROVE  Wants(cs, d, Len(cs)) = {}
  <2> USE <1>Unowned
  <2>1. CASE RightfulOwner(cs, d) = 0 /\ Wants(cs, d, Len(cs)) = {}
    BY Zenon, <2>1
  <2>2. CASE RightfulOwner(cs, d) \in 1 .. Len(cs) /\ FirstClaim(cs, d, RightfulOwner(cs, d))
    <3>1. PICK i \in 1 .. Len(cs) : i = RightfulOwner(cs, d)
      BY Zenon, <2>2
    <3>2. cs[i].eligible
      BY ZenonT(30), <2>2, <3>1 DEF FirstClaim, Adds, Wants
    <3>3. Route(c, cs).owner[d] = cs[i].site.name
      BY <3>1, <3>2, OwnerNamed
    <3>4. cs[i].site.name \in Names
      <4>1. cs[i] \in PlanType
        BY Zenon, SeqIs
      <4> QED BY Zenon, <4>1 DEF PlanType, SiteType
    <3>5. NoDomain \notin Names
      BY Zenon, WildcardOfAssumption DEF Domains, Exact
    <3> QED BY Zenon, <3>3, <3>4, <3>5
  <2> QED BY Zenon, <2>1, <2>2, OwnerIs
\* The domains of whoever may claim are those of its own customisation.
<1>EffectiveOf.
    ASSUME NEW c, NEW sites, NEW cs, ClaimantsOf(c, sites, cs), NEW i \in DOMAIN cs
    PROVE  /\ cs[i].effective = effective_domains(cs[i].site.name, delta_for(c, cs[i].site))
           /\ cs[i].eligible /\ cs[i].site.name \notin NamesIn(sites) =>
                /\ ProxyOf(c, cs[i].site)
                /\ delta_for(c, cs[i].site) = c.domains.proxy[cs[i].site.name]
  <2> USE <1>EffectiveOf
  <2>1. cs[i].effective = effective_domains(cs[i].site.name, delta_for(c, cs[i].site))
    BY Zenon DEF ClaimantsOf, PlannedBy
  <2>2. ASSUME cs[i].eligible, cs[i].site.name \notin NamesIn(sites) PROVE ProxyOf(c, cs[i].site)
    BY Zenon, <2>2 DEF ClaimantsOf, NamesIn, Range
  <2>3. ASSUME ProxyOf(c, cs[i].site) PROVE delta_for(c, cs[i].site) = c.domains.proxy[cs[i].site.name]
    BY Zenon, <2>3 DEF ProxyOf, delta_for
  <2> QED BY Zenon, <2>1, <2>2, <2>3
\* A proxy more claims its name and changes nobody else's claims.
<1>ProxyClaims.
    ASSUME NEW c \in ConfigType, NEW new \in ConfigType, NEW dirs \in SUBSET Dirs,
           NEW sites \in scan_sites(c, dirs), sites \in scan_sites(new, dirs), NEW n \in Names,
           NEW e \in ProxyType, e.name = n, new.proxies = Append(c.proxies, e),
           new.projects = c.projects, new.domains = c.domains, n \notin NamesIn(c.proxies),
           n \notin NamesIn(sites), n \notin c.domains.proxy[n].suppressed,
           NEW cs, cs = claimants(c, sites), Wants(cs, n, Len(cs)) = {},
           NEW ds, ds = claimants(new, sites)
    PROVE  \E i \in DOMAIN ds : ds[i].site.name = n /\ Wants(ds, n, Len(ds)) = {i}
  <2> USE <1>ProxyClaims
  <2>1. /\ sites \in Seq(SiteType) /\ cs \in Seq(PlanType) /\ ds \in Seq(PlanType) /\ NamesApart(ds)
        /\ ClaimantsOf(c, sites, cs) /\ ClaimantsOf(new, sites, ds)
    BY ZenonT(30), TheClaimants
  <2>2. /\ DOMAIN cs = 1 .. Len(cs) /\ DOMAIN ds = 1 .. Len(ds) /\ Len(cs) \in Nat /\ Len(ds) \in Nat
        /\ \A i \in DOMAIN ds : ds[i].site \in SiteType /\ ds[i].site.name \in Names
    <3>1. \A i \in DOMAIN ds : ds[i] \in PlanType
      BY <2>1, SeqIs
    <3> QED BY <2>1, <3>1 DEF PlanType, SiteType
  <2>3. PICK ps : ps = c.proxies
    BY Zenon
  <2>4. /\ ps \in Seq(ProxyType) /\ Len(ps) \in Nat /\ DOMAIN ps = 1 .. Len(ps)
    BY Zenon, <2>3, ConfigIs, SeqIs
  <2>5. PICK qs : qs = Append(ps, e)
    BY Zenon
  <2>6. /\ qs \in Seq(ProxyType) /\ Len(qs) = Len(ps) + 1 /\ qs[Len(ps) + 1] = e
        /\ \A k \in 1 .. Len(ps) : qs[k] = ps[k]
    BY <2>4, <2>5, Appended
  <2>7. DOMAIN qs = 1 .. Len(ps) + 1 /\ new.proxies = qs
    BY <2>3, <2>5, <2>6
  <2>8. \A k \in DOMAIN ps : ps[k].name # n
    BY ZenonT(30), <2>3 DEF NamesIn
  <2>9. PICK i \in DOMAIN ds : ds[i].eligible /\ ds[i].site.name = n
    <3>1. PICK K : K = Len(ps) + 1
      BY Zenon
    <3>2. K \in DOMAIN qs /\ qs[K].name = n
      BY <2>4, <2>6, <2>7, <3>1
    <3>3. K \in DOMAIN ProxySites(new) /\ ProxySites(new)[K].name = n
      BY Zenon, <2>7, <3>2, ProxySitesFrom
    <3>4. PICK s : s = ProxySites(new)[K]
      BY Zenon
    <3>5. s \in Range(ProxySites(new)) /\ s.name = n
      BY Zenon, <3>3, <3>4 DEF Range
    <3>6. s.name \notin NamesIn(sites) => \E i \in DOMAIN ds : ds[i].eligible /\ ds[i].site.name = s.name
      BY Zenon, <2>1, <3>5 DEF ClaimantsOf
    <3> QED BY Zenon, <3>5, <3>6
  <2>10. n \in Range(ds[i].effective)
    <3>1. ds[i].effective = effective_domains(n, c.domains.proxy[n])
      BY <2>1, <2>9, <1>EffectiveOf
    <3>2. c.domains.proxy[n] \in DeltaType
      BY Zenon, ConfigIs
    <3>3. n \in Asked(n, c.domains.proxy[n])
      BY Zenon DEF Asked
    <3> QED BY ZenonT(30), <3>1, <3>2, <3>3, EffectivesAre
  <2>11. ASSUME NEW j \in DOMAIN ds, j # i, ds[j].eligible, n \in Range(ds[j].effective) PROVE FALSE
    <3>1. PICK m \in Names : m = ds[j].site.name
      BY Zenon, <2>2
    <3>2. m # n
      BY Zenon, <2>1, <2>9, <2>11, <3>1 DEF NamesApart
    <3>3. ASSUME NEW k \in DOMAIN cs, cs[k].eligible, cs[k].effective = ds[j].effective PROVE FALSE
      BY Zenon, <2>2, <2>11, <3>3 DEF Wants
    <3>4. CASE m \notin NamesIn(sites)
      <4>1. ds[j].effective = effective_domains(m, c.domains.proxy[m]) /\ ProxyOf(new, ds[j].site)
        BY <2>1, <2>11, <3>1, <3>4, <1>EffectiveOf
      <4>2. PICK s \in Range(ProxySites(c)) : s.name = m
        <5>1. CASE \E k \in DOMAIN new.proxies : m = new.proxies[k].name
          <6>1. PICK k \in DOMAIN qs : m = qs[k].name
            BY Zenon, <2>7, <5>1
          <6>2. k \in DOMAIN ps /\ m = ps[k].name
            BY <2>4, <2>6, <2>7, <3>2, <6>1
          <6>3. k \in DOMAIN ProxySites(c) /\ ProxySites(c)[k].name = m
            BY Zenon, <2>3, <6>2, ProxySitesFrom
          <6> QED BY Zenon, <6>3 DEF Range
        <5>2. CASE \E k \in DOMAIN c.projects : m = c.projects[k].name
          <6>1. PICK k \in DOMAIN c.projects : m = c.projects[k].name
            BY Zenon, <5>2
          <6>2. \E s \in Range(ProxySites(c)) : s.name = c.projects[k].name
            BY Zenon, ProxySitesFrom
          <6> QED BY Zenon, <6>1, <6>2
        <5> QED BY Zenon, <3>1, <4>1, <5>1, <5>2 DEF ProxyOf
      <4>3. PICK k \in DOMAIN cs : cs[k].eligible /\ cs[k].site.name = m
        <5>1. m \notin NamesIn(sites) => \E k \in DOMAIN cs : cs[k].eligible /\ cs[k].site.name = s.name
          BY Zenon, <2>1, <4>2 DEF ClaimantsOf
        <5> QED BY Zenon, <3>4, <4>2, <5>1
      <4>4. cs[k].effective = effective_domains(m, c.domains.proxy[m])
        BY <2>1, <3>4, <4>3, <1>EffectiveOf
      <4> QED BY Zenon, <3>3, <4>1, <4>3, <4>4
    <3>5. CASE m \in NamesIn(sites)
      <4>1. j <= Len(FirstOfEachName(sites))
        <5> SUFFICES ASSUME ~(j <= Len(FirstOfEachName(sites))) PROVE FALSE
          BY Zenon
        <5>1. m \notin NamesIn(FirstOfEachName(sites))
          BY ZenonT(30), <2>1, <2>11, <3>1, ClaimantsFrom
        <5>2. PICK k \in DOMAIN sites : sites[k].name = m
          BY ZenonT(30), <3>5 DEF NamesIn
        <5>3. PICK f \in Range(FirstOfEachName(sites)) : f.name = m
          BY ZenonT(30), <2>1, <5>2, FirstsAre
        <5> QED BY Zenon, <5>1, <5>3 DEF NamesIn, Range
      <4>2. j \in DOMAIN cs /\ cs[j].site = ds[j].site /\ cs[j].eligible
        BY <2>1, <2>2, <2>11, <4>1, <1>FirstClaimants
      <4>3. delta_for(new, ds[j].site) = delta_for(c, ds[j].site)
        BY Zenon DEF delta_for
      <4>4. cs[j].effective = ds[j].effective
        BY <2>1, <2>11, <4>2, <4>3, <1>EffectiveOf
      <4> QED BY Zenon, <3>3, <4>2, <4>4
    <3> QED BY Zenon, <3>4, <3>5
  <2>12. Wants(ds, n, Len(ds)) = {i}
    BY Zenon, <2>2, <2>9, <2>10, <2>11 DEF Wants
  <2> QED BY Zenon, <2>9, <2>12
\* Whoever alone wants its name has it.
<1>AloneOwns.
    ASSUME NEW c \in ConfigType, NEW cs \in Seq(PlanType), NamesApart(cs), NEW n \in Names,
           NEW i \in DOMAIN cs, cs[i].site.name = n, Wants(cs, n, Len(cs)) = {i}
    PROVE  Route(c, cs).owner[n] = n
  <2> USE <1>AloneOwns
  <2>1. n \in Domains
    BY Zenon DEF Domains, Exact
  <2>2. i \in 1 .. Len(cs) /\ cs[i].eligible
    BY Zenon DEF Wants
  <2>3. FirstClaim(cs, n, i)
    <3>1. Adds(cs, n, Len(cs)) = {}
      BY Zenon DEF Adds
    <3> QED BY <2>2, <3>1 DEF FirstClaim
  <2>4. RightfulOwner(cs, n) = i
    BY Zenon, <2>1, <2>3, OwnerIs
  <2> QED BY <2>1, <2>2, <2>4, OwnerNamed
\* apply_add_proxy gives the proxy its apex.
<1>ProxyReaches.
    ASSUME NEW c \in ConfigType, ApexesFree(c), NEW dirs \in SUBSET Dirs, NEW sites \in scan_sites(c, dirs),
           NEW r, r = build(c, sites), NEW n \in Names, NEW new \in apply_add_proxy(c, r, n), validate(new),
           new \in ConfigType
    PROVE  sites \in scan_sites(new, dirs) /\ build(new, sites).owner[n] = n
  <2> USE <1>ProxyReaches
  <2>1. PICK e \in ProxyType : e = [name |-> n, secure |-> FALSE]
    BY ZenonT(30) DEF ProxyType
  <2>2. /\ get(r, n) = {} /\ n \notin NamesIn(c.proxies) /\ r.owner[n] = NoDomain
        /\ new = [c EXCEPT !.proxies = Append(@, e)]
    BY Zenon, <2>1 DEF apply_add_proxy
  <2>3. /\ new.proxies = Append(c.proxies, e) /\ new.projects = c.projects /\ new.domains = c.domains
        /\ new.parked = c.parked /\ new.linked = c.linked /\ new.override = c.override
    BY <2>2 DEF ConfigType
  <2>4. sites \in scan_sites(new, dirs)
    BY Zenon, <2>3, SameScan
  <2>5. n \notin NamesIn(sites)
    <3> SUFFICES ASSUME n \in NamesIn(sites) PROVE FALSE
      BY Zenon
    <3>1. PICK s \in Range(sites) : s.name = n
      BY Zenon DEF NamesIn, Range
    <3>2. PICK t \in r.sites : t.name = n /\ SiteOf(c, t)
      BY Zenon, <3>1, Published
    <3>3. t \in get(r, n)
      BY Zenon, <3>2 DEF SiteOf, get
    <3> QED BY Zenon, <2>2, <3>3
  <2>6. n \notin c.domains.proxy[n].suppressed
    <3>1. n \in NamesIn(new.proxies)
      <4>1. c.proxies \in Seq(ProxyType)
        BY Zenon, ConfigIs
      <4> QED BY <2>1, <2>3, <4>1, NamesGrow
    <3>2. n \notin NamesIn(c.projects)
      BY Zenon, <2>3, <3>1 DEF validate, validate_projects
    <3> QED BY Zenon, <2>2, <3>2 DEF ApexesFree
  <2>7. PICK cs, ds : cs = claimants(c, sites) /\ ds = claimants(new, sites)
    BY Zenon
  <2>8. cs \in Seq(PlanType) /\ NamesApart(cs) /\ ds \in Seq(PlanType) /\ NamesApart(ds)
    BY Zenon, <2>4, <2>7, TheClaimants
  <2>9. Wants(cs, n, Len(cs)) = {}
    <3>1. n \in Domains
      BY Zenon DEF Domains, Exact
    <3>2. Route(c, cs).owner[n] = NoDomain
      BY Zenon, <2>2, <2>7 DEF build
    <3> QED BY Zenon, <2>8, <3>1, <3>2, <1>Unowned
  <2>10. PICK i \in DOMAIN ds : ds[i].site.name = n /\ Wants(ds, n, Len(ds)) = {i}
    <3>1. e.name = n
      BY Zenon, <2>1
    <3>2. n \notin NamesIn(c.proxies)
      BY Zenon, <2>2
    <3>3. new.proxies = Append(c.proxies, e) /\ new.projects = c.projects /\ new.domains = c.domains
      BY Zenon, <2>3
    <3> QED BY <2>4, <2>5, <2>6, <2>7, <2>9, <3>1, <3>2, <3>3, <1>ProxyClaims
  <2>11. Route(new, ds).owner[n] = n
    BY Zenon, <2>8, <2>10, <1>AloneOwns
  <2> QED BY Zenon, <2>4, <2>7, <2>11 DEF build
<1>1. ASSUME TypeInv, CommitInv, [Next]_vars, NEW n \in Names, NEW d \in Dirs,
             Commits(apply_link(memory, n, d))
      PROVE  \E s \in Candidate.sites : s.name = n /\ s.dir = d /\ s.kind = "linked"
  <2>0. memory \in ConfigType /\ present \in SUBSET Dirs
    BY Zenon, <1>1 DEF TypeInv
  <2>1. PICK new, sites : /\ new \in apply_link(memory, n, d) /\ sites \in scan_sites(new, present)
                          /\ Candidate = build(new, sites) /\ \E p \in pending' : new = p.config
    BY Zenon, <1>1, CommitGives
  <2>2. new \in ConfigType
    BY Zenon, <1>1, <2>1, NextTyped DEF TypeInv
  <2> QED BY <2>0, <2>1, <2>2, <1>LinkReaches
<1>2. ASSUME TypeInv, CommitInv, ApexesFree(disk), [Next]_vars, NEW n \in Names,
             Commits(apply_add_proxy(memory, router, n)), Settled
      PROVE  Candidate.owner[n] = n
  <2>0. memory \in ConfigType /\ router \in RouterType /\ present \in SUBSET Dirs
    BY Zenon, <1>2 DEF TypeInv
  <2>1. PICK new, sites : /\ new \in apply_add_proxy(memory, router, n)
                          /\ sites \in scan_sites(new, present) /\ validate(new)
                          /\ Candidate = build(new, sites) /\ up /\ pending = {}
                          /\ \E p \in pending' : new = p.config
    BY Zenon, <1>2, CommitGives
  <2>2. new \in ConfigType
    BY Zenon, <1>2, <2>1, NextTyped DEF TypeInv
  <2>3. ApexesFree(memory)
    BY Zenon, <1>2, <2>1 DEF CommitInv
  <2>4. sites \in scan_sites(memory, present)
    <3>1. new.parked = memory.parked /\ new.linked = memory.linked /\ new.override = memory.override
      BY Zenon, <2>0, <2>1 DEF apply_add_proxy, ConfigType
    <3> QED BY Zenon, <2>1, <3>1, SameScan
  <2>5. router = build(memory, sites)
    BY Zenon, <1>2, <2>4, SettledGives
  <2> QED BY <2>0, <2>1, <2>2, <2>3, <2>4, <2>5, <1>ProxyReaches
<1>3. TypeInv /\ CommitInv /\ ApexesFree(disk) /\ [Next]_vars =>
        [\A n \in Names :
          /\ \A d \in Dirs : Commits(apply_link(memory, n, d)) =>
                \E s \in Candidate.sites : s.name = n /\ s.dir = d /\ s.kind = "linked"
          /\ Commits(apply_add_proxy(memory, router, n)) /\ Settled => Candidate.owner[n] = n]_vars
  BY Zenon, <1>1, <1>2
<1> QED BY <1>3, TypeInvHolds, CommitInvHolds, ApexesStayFree, PTL DEF Spec, LinkTakesEffect
=============================================================================
