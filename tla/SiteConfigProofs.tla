-------------------------- MODULE SiteConfigProofs --------------------------
(***************************************************************************)
(* For every set of names, domains, directories, ports, clients and        *)
(* hand-written files: the file stays loadable, file and memory agree, the *)
(* live router is one the current configuration gives, the state is well   *)
(* formed, no two projects share a port, and the router gives every domain *)
(* to its rightful owner and drops nobody.                                 *)
(*                                                                         *)
(* The loops of SiteConfig are functions of the number of elements they    *)
(* have passed.  A claim about a loop is proved in two steps: the function *)
(* exists, so that its value after n elements is one pass applied to its   *)
(* value after n - 1; and what holds before the first pass and is kept by  *)
(* each holds after the last (EveryPass).                                  *)
(***************************************************************************)
EXTENDS SiteConfig, WellFoundedInduction, TLAPS

-----------------------------------------------------------------------------
(* Loops. *)

\* A set of naturals has a least member.
LEMMA LeastOf ==
  ASSUME NEW S \in SUBSET Nat, S # {}
  PROVE  \E m \in S : \A n \in S : m <= n
<1> DEFINE Less == {p \in Nat \X Nat : p[1] < p[2]}
<1>1. IsWellFoundedOn(Less, Nat)
  BY Zenon, NatLessThanWellFounded DEF OpToRel
<1> HIDE DEF Less
<1>2. PICK m \in S : \A n \in S : ~(<<n, m>> \in Less)
  BY Zenon, <1>1, WFMin
<1>3. \A n \in S : ~(n < m)
  BY Zenon, <1>2 DEF Less
<1> QED BY <1>3

\* What holds before a loop and is kept by each of its passes holds after every one.
LEMMA EveryPass ==
  ASSUME NEW N \in Nat, NEW G, 0 \in G, \A n \in 0 .. N - 1 : n \in G => n + 1 \in G
  PROVE  N \in G
<1> SUFFICES ASSUME N \notin G PROVE FALSE
  BY Zenon
<1> DEFINE Bad == {n \in 0 .. N : n \notin G}
<1>1. Bad \in SUBSET Nat /\ Bad # {}
  OBVIOUS
<1>2. PICK m \in Bad : \A n \in Bad : m <= n
  BY Zenon, <1>1, LeastOf
<1>3. m - 1 \in 0 .. N - 1 /\ m - 1 \in G
  BY <1>2
<1> QED BY <1>2, <1>3

\* The passes of a loop are the one before its first element and one for each.
LEMMA FirstPassAndRest ==
  ASSUME NEW N \in Nat
  PROVE  0 \in 0 .. N /\ \A n \in 1 .. N : n \in 0 .. N /\ n # 0
OBVIOUS

\* The pass after one that is not the last is that of an element.
LEMMA NextPass ==
  ASSUME NEW N \in Nat, NEW n \in 0 .. N - 1
  PROVE  n \in Nat /\ n + 1 \in 1 .. N /\ (n + 1) - 1 = n
OBVIOUS

\* A sequence is a function on 1 .. Len.
LEMMA SeqIs ==
  ASSUME NEW T, NEW s \in Seq(T)
  PROVE  /\ Len(s) \in Nat /\ DOMAIN s = 1 .. Len(s) /\ s \in [1 .. Len(s) -> T]
         /\ Range(s) \in SUBSET T /\ \A i \in 1 .. Len(s) : s[i] \in T /\ s[i] \in Range(s)
BY DEF Range

\* A function on 1 .. N is a sequence.
LEMMA IsSeq ==
  ASSUME NEW T, NEW N \in Nat, NEW f \in [1 .. N -> T]
  PROVE  f \in Seq(T) /\ Len(f) = N /\ DOMAIN f = 1 .. N
OBVIOUS

\* What Append adds to the members of a sequence.
LEMMA Appended ==
  ASSUME NEW T, NEW s \in Seq(T), NEW e \in T
  PROVE  /\ Append(s, e) \in Seq(T) /\ Len(Append(s, e)) = Len(s) + 1
         /\ Append(s, e)[Len(s) + 1] = e /\ \A i \in 1 .. Len(s) : Append(s, e)[i] = s[i]
         /\ Range(Append(s, e)) = Range(s) \cup {e}
<1>1. /\ Append(s, e) \in Seq(T) /\ Len(Append(s, e)) = Len(s) + 1
      /\ Append(s, e)[Len(s) + 1] = e /\ \A i \in 1 .. Len(s) : Append(s, e)[i] = s[i]
  OBVIOUS
<1>2. DOMAIN s = 1 .. Len(s) /\ DOMAIN Append(s, e) = 1 .. Len(s) + 1 /\ Len(s) \in Nat
  OBVIOUS
<1>3. ASSUME NEW x PROVE x \in Range(Append(s, e)) <=> x \in Range(s) \cup {e}
  <2>1. ASSUME x \in Range(Append(s, e)) PROVE x \in Range(s) \cup {e}
    <3>1. PICK i \in 1 .. Len(s) + 1 : x = Append(s, e)[i]
      BY Zenon, <1>2, <2>1 DEF Range
    <3>2. i \in 1 .. Len(s) \/ i = Len(s) + 1
      BY <1>2
    <3> QED BY Zenon, <1>1, <1>2, <3>1, <3>2 DEF Range
  <2>2. ASSUME x \in Range(s) PROVE x \in Range(Append(s, e))
    <3>1. PICK i \in 1 .. Len(s) : x = s[i]
      BY Zenon, <1>2, <2>2 DEF Range
    <3>2. i \in DOMAIN Append(s, e) /\ x = Append(s, e)[i]
      BY <1>1, <1>2, <3>1
    <3> QED BY Zenon, <3>2 DEF Range
  <2>3. e \in Range(Append(s, e))
    <3>1. Len(s) + 1 \in DOMAIN Append(s, e)
      BY <1>2
    <3> QED BY Zenon, <1>1, <3>1 DEF Range
  <2> QED BY Zenon, <2>1, <2>2, <2>3
<1> QED BY Zenon, <1>1, <1>3

\* Two sequences, one after the other.
LEMMA Concat ==
  ASSUME NEW T, NEW a \in Seq(T), NEW b \in Seq(T)
  PROVE  /\ a \o b \in Seq(T) /\ Len(a \o b) = Len(a) + Len(b)
         /\ \A i \in 1 .. Len(a) + Len(b) : (a \o b)[i] = IF i <= Len(a) THEN a[i] ELSE b[i - Len(a)]
OBVIOUS

\* The elements of two sequences, one after the other.
LEMMA Joined ==
  ASSUME NEW T, NEW a \in Seq(T), NEW b \in Seq(T)
  PROVE  Range(a \o b) = Range(a) \cup Range(b)
<1>1. PICK s : s = a \o b
  BY Zenon
<1>2. /\ s \in Seq(T) /\ Len(s) = Len(a) + Len(b)
      /\ \A i \in 1 .. Len(a) + Len(b) : s[i] = IF i <= Len(a) THEN a[i] ELSE b[i - Len(a)]
  BY Zenon, <1>1, Concat
<1>3. /\ DOMAIN s = 1 .. Len(a) + Len(b) /\ DOMAIN a = 1 .. Len(a) /\ DOMAIN b = 1 .. Len(b)
      /\ Len(a) \in Nat /\ Len(b) \in Nat
  BY Zenon, <1>2, SeqIs
<1>4. ASSUME NEW i \in DOMAIN s PROVE s[i] \in Range(a) \cup Range(b)
  <2>1. CASE i <= Len(a)
    <3>1. i \in DOMAIN a /\ s[i] = a[i]
      BY <1>2, <1>3, <2>1
    <3> QED BY Zenon, <3>1 DEF Range
  <2>2. CASE ~(i <= Len(a))
    <3>1. i - Len(a) \in DOMAIN b /\ s[i] = b[i - Len(a)]
      BY <1>2, <1>3, <2>2
    <3> QED BY Zenon, <3>1 DEF Range
  <2> QED BY Zenon, <2>1, <2>2
<1>5. ASSUME NEW i \in DOMAIN a PROVE a[i] \in Range(s)
  <2>1. i \in DOMAIN s /\ i <= Len(a)
    BY <1>3
  <2>2. s[i] = a[i]
    BY Zenon, <1>2, <1>3, <2>1
  <2> QED BY Zenon, <2>1, <2>2 DEF Range
<1>6. ASSUME NEW i \in DOMAIN b PROVE b[i] \in Range(s)
  <2>1. PICK j \in DOMAIN s : j = i + Len(a)
    BY <1>3
  <2>2. ~(j <= Len(a)) /\ j - Len(a) = i
    BY <1>3, <2>1
  <2>3. s[j] = b[i]
    BY Zenon, <1>2, <1>3, <2>2
  <2> QED BY Zenon, <2>3 DEF Range
<1>7. Range(s) \in SUBSET (Range(a) \cup Range(b))
  BY Zenon, <1>4 DEF Range
<1>8. Range(a) \cup Range(b) \in SUBSET Range(s)
  BY Zenon, <1>5, <1>6 DEF Range
<1> QED BY Zenon, <1>1, <1>7, <1>8

\* OnlyIn gives the members of s that are in S, and each of them as often as it is in s.
LEMMA OnlyInIs ==
  \A T : \A s \in Seq(T) : \A S :
      /\ OnlyIn(s, S) \in Seq(T)
      /\ Range(OnlyIn(s, S)) = Range(s) \cap S
      /\ \A i, j \in DOMAIN OnlyIn(s, S) : i # j =>
           \E k, l \in DOMAIN s : k # l /\ OnlyIn(s, S)[i] = s[k] /\ OnlyIn(s, S)[j] = s[l]
<1> DEFINE
    KeepOne(g, s, S, n) ==
        IF n = 0 THEN <<>> ELSE IF s[n] \in S THEN Append(g[n - 1], s[n]) ELSE g[n - 1]
<1> HIDE DEF KeepOne
\* The loop of OnlyIn: its value after n elements is one pass over its value after n - 1.
<1>KeptPasses.
    ASSUME NEW s, NEW S, Len(s) \in Nat
    PROVE  \A n \in 0 .. Len(s) : KeptUpTo(s, S)[n] = KeepOne(KeptUpTo(s, S), s, S, n)
  <2> USE <1>KeptPasses
  <2> DEFINE G == {N \in Nat : \E g : g = [n \in 0 .. N |-> KeepOne(g, s, S, n)]}
  <2>1. 0 \in G
    <3> DEFINE g == [n \in 0 .. 0 |-> <<>>]
    <3>1. g = [n \in 0 .. 0 |-> KeepOne(g, s, S, n)]
      BY DEF KeepOne
    <3> QED BY Zenon, <3>1
  <2>2. ASSUME NEW N \in 0 .. Len(s) - 1, N \in G PROVE N + 1 \in G
    <3>1. PICK g : g = [n \in 0 .. N |-> KeepOne(g, s, S, n)]
      BY Zenon, <2>2
    <3> DEFINE h == [n \in 0 .. N + 1 |-> KeepOne(g, s, S, n)]
    <3>2. \A n \in 0 .. N : h[n] = g[n]
      BY <3>1
    <3> HIDE DEF h
    <3>3. ASSUME NEW n \in 0 .. N + 1 PROVE KeepOne(g, s, S, n) = KeepOne(h, s, S, n)
      <4>1. n = 0 \/ n - 1 \in 0 .. N
        OBVIOUS
      <4> QED BY Zenon, <3>2, <4>1 DEF KeepOne
    <3>4. h = [n \in 0 .. N + 1 |-> KeepOne(h, s, S, n)]
      BY Zenon, <3>3 DEF h
    <3> QED BY <3>4
  <2>3. Len(s) \in G
    <3>1. \A n \in 0 .. Len(s) - 1 : n \in G => n + 1 \in G
      BY Zenon, <2>2
    <3> HIDE DEF G
    <3> QED BY Zenon, <2>1, <3>1, EveryPass
  <2>4. \E g : g = [n \in 0 .. Len(s) |-> KeepOne(g, s, S, n)]
    BY Zenon, <2>3
  <2>5. KeptUpTo(s, S) = [n \in 0 .. Len(s) |-> KeepOne(KeptUpTo(s, S), s, S, n)]
    BY Zenon, <2>4 DEF KeptUpTo, KeepOne
  <2> QED BY Zenon, <2>5
<1>1.
    ASSUME NEW T, NEW s \in Seq(T), NEW S
    PROVE  /\ OnlyIn(s, S) \in Seq(T)
           /\ Range(OnlyIn(s, S)) = Range(s) \cap S
           /\ \A i, j \in DOMAIN OnlyIn(s, S) : i # j =>
                \E k, l \in DOMAIN s : k # l /\ OnlyIn(s, S)[i] = s[k] /\ OnlyIn(s, S)[j] = s[l]
  <2> USE <1>1
  <2>0. PICK K : K = KeptUpTo(s, S)
    BY Zenon
  <2> DEFINE Good(n) == /\ K[n] \in Seq(T)
                        /\ Range(K[n]) = {s[m] : m \in 1 .. n} \cap S
                        /\ \A i, j \in DOMAIN K[n] : i # j =>
                             \E k, l \in 1 .. n : k # l /\ K[n][i] = s[k] /\ K[n][j] = s[l]
             G == {n \in Nat : Good(n)}
  <2>1. Len(s) \in Nat /\ \A n \in 1 .. Len(s) : s[n] \in T
    BY Zenon, SeqIs
  <2>2. K[0] = <<>> /\ \A n \in 1 .. Len(s) : K[n] = IF s[n] \in S THEN Append(K[n - 1], s[n]) ELSE K[n - 1]
    <3>1. Len(s) \in Nat
      BY Zenon, <2>1
    <3>2. \A n \in 0 .. Len(s) : K[n] = KeepOne(K, s, S, n)
      BY Zenon, <2>0, <3>1, <1>KeptPasses
    <3> QED BY Zenon, <3>1, <3>2, FirstPassAndRest DEF KeepOne
  <2>3. 0 \in G
    <3>1. Range(K[0]) = {} /\ DOMAIN K[0] = {} /\ K[0] \in Seq(T)
      BY <2>2 DEF Range
    <3>2. {s[m] : m \in 1 .. 0} = {}
      OBVIOUS
    <3> QED BY Zenon, <3>1, <3>2
  <2>4. ASSUME NEW n \in 0 .. Len(s) - 1, n \in G PROVE n + 1 \in G
    <3>1. Good(n) /\ n \in Nat /\ n + 1 \in 1 .. Len(s) /\ s[n + 1] \in T
      BY <2>1, <2>4
    <3>2. {s[m] : m \in 1 .. n + 1} = {s[m] : m \in 1 .. n} \cup {s[n + 1]}
      <4>1. \A m : m \in 1 .. n + 1 <=> m \in 1 .. n \/ m = n + 1
        BY <3>1
      <4> QED BY Zenon, <4>1
    <3>3. CASE s[n + 1] \in S
      <4>1. K[n + 1] = Append(K[n], s[n + 1])
        <5>1. (n + 1) - 1 = n
          BY <3>1
        <5> QED BY Zenon, <2>2, <3>1, <3>3, <5>1
      <4>2. K[n + 1] \in Seq(T) /\ Range(K[n + 1]) = Range(K[n]) \cup {s[n + 1]}
        BY <3>1, <4>1, Appended
      <4>3. Range(K[n + 1]) = {s[m] : m \in 1 .. n + 1} \cap S
        BY <3>1, <3>2, <3>3, <4>2
      <4>4. /\ DOMAIN K[n + 1] = 1 .. Len(K[n]) + 1 /\ DOMAIN K[n] = 1 .. Len(K[n]) /\ Len(K[n]) \in Nat
            /\ K[n + 1][Len(K[n]) + 1] = s[n + 1] /\ \A i \in 1 .. Len(K[n]) : K[n + 1][i] = K[n][i]
        BY <3>1, <4>1, Appended
      <4>5. \A i \in 1 .. Len(K[n]) : \E k \in 1 .. n : K[n][i] = s[k]
        <5>1. \A i \in 1 .. Len(K[n]) : K[n][i] \in Range(K[n])
          BY Zenon, <3>1, SeqIs
        <5> QED BY Zenon, <3>1, <5>1
      <4>6. ASSUME NEW i \in DOMAIN K[n + 1], NEW j \in DOMAIN K[n + 1], i # j
            PROVE  \E k, l \in 1 .. n + 1 : k # l /\ K[n + 1][i] = s[k] /\ K[n + 1][j] = s[l]
        <5>1. CASE i = Len(K[n]) + 1
          <6>0. j \in 1 .. Len(K[n])
            BY <4>4, <4>6, <5>1
          <6>1. PICK l \in 1 .. n : K[n + 1][j] = s[l]
            BY Zenon, <4>4, <4>5, <6>0
          <6>2. n + 1 \in 1 .. n + 1 /\ l \in 1 .. n + 1 /\ n + 1 # l
            BY <3>1
          <6> QED BY Zenon, <4>4, <5>1, <6>1, <6>2
        <5>2. CASE j = Len(K[n]) + 1
          <6>0. i \in 1 .. Len(K[n])
            BY <4>4, <4>6, <5>2
          <6>1. PICK k \in 1 .. n : K[n + 1][i] = s[k]
            BY Zenon, <4>4, <4>5, <6>0
          <6>2. n + 1 \in 1 .. n + 1 /\ k \in 1 .. n + 1 /\ n + 1 # k
            BY <3>1
          <6> QED BY Zenon, <4>4, <5>2, <6>1, <6>2
        <5>3. CASE i \in 1 .. Len(K[n]) /\ j \in 1 .. Len(K[n])
          <6>1. PICK k \in 1 .. n, l \in 1 .. n : k # l /\ K[n][i] = s[k] /\ K[n][j] = s[l]
            BY <3>1, <4>4, <4>6, <5>3
          <6>2. k \in 1 .. n + 1 /\ l \in 1 .. n + 1
            BY <3>1
          <6>3. K[n + 1][i] = s[k] /\ K[n + 1][j] = s[l]
            BY Zenon, <4>4, <5>3, <6>1
          <6> QED BY Zenon, <6>1, <6>2, <6>3
        <5> QED BY <4>4, <5>1, <5>2, <5>3
      <4> QED BY <3>1, <4>2, <4>3, <4>6
    <3>4. CASE s[n + 1] \notin S
      <4>1. K[n + 1] = K[n]
        BY <2>2, <3>1, <3>4
      <4>2. \A m \in 1 .. n : m \in 1 .. n + 1
        BY <3>1
      <4>3. \A i, j \in DOMAIN K[n + 1] : i # j =>
              \E k, l \in 1 .. n + 1 : k # l /\ K[n + 1][i] = s[k] /\ K[n + 1][j] = s[l]
        BY <3>1, <4>1, <4>2
      <4>4. Range(K[n + 1]) = {s[m] : m \in 1 .. n + 1} \cap S
        BY Zenon, <3>1, <3>2, <3>4, <4>1
      <4>5. K[n + 1] \in Seq(T)
        BY <3>1, <4>1
      <4> QED BY <3>1, <4>3, <4>4, <4>5
    <3> QED BY Zenon, <3>3, <3>4
  <2>5. Len(s) \in G
    <3>1. \A n \in 0 .. Len(s) - 1 : n \in G => n + 1 \in G
      BY Zenon, <2>4
    <3> HIDE DEF G
    <3> QED BY Zenon, <2>1, <2>3, <3>1, EveryPass
  <2>6. Good(Len(s)) /\ K[Len(s)] = OnlyIn(s, S)
    BY Zenon, <2>0, <2>5 DEF OnlyIn
  <2>7. {s[m] : m \in 1 .. Len(s)} = Range(s) /\ DOMAIN s = 1 .. Len(s)
    BY DEF Range
  <2> QED BY <2>6, <2>7
<1> QED BY Zenon, <1>1

-----------------------------------------------------------------------------
(* What commits keep. *)

\* r is a router that configuration c gives for some existing directories.
Gives(c, r) == \E dirs \in SUBSET Dirs : r \in build_router(c, dirs)

\* The inductive invariant.  While a commit is saved but not published, memory
\* and router still belong to the old configuration, and what is pending is
\* the saved configuration with a router of its own.
CommitInv ==
    /\ present \in SUBSET Dirs
    /\ ~up => pending = {}
    /\ up => validate(disk) /\ Gives(memory, router)
    /\ up /\ pending = {} => disk = memory
    /\ \A p \in pending : p.config = disk /\ Gives(p.config, p.router)

\* The invariant holds throughout.
LEMMA CommitInvHolds == Spec => []CommitInv
\* The start state: nothing runs.
<1>InitEstablishesCommitInv.
    Init => CommitInv
  <2> QED
    BY Zenon DEF Init, CommitInv
\* Saving a validated configuration with a router built from it.
<1>CommitPreserves.
      ASSUME CommitInv, NEW new, up, pending = {}, commit_config(new),
             UNCHANGED <<up, present>>
      PROVE  CommitInv'
  <2> USE <1>CommitPreserves
  <2>1. PICK r \in build_router(new, present) : pending' = {[config |-> new, router |-> r]}
    BY Zenon DEF commit_config
  <2>2. Gives(new, r)
    BY Zenon, <2>1 DEF CommitInv, Gives
  <2>3. \A p \in pending' : p.config = disk' /\ Gives(p.config, p.router)
    BY <2>1, <2>2 DEF commit_config
  <2> QED
    BY Zenon, <2>1, <2>3 DEF commit_config, CommitInv
\* Every mutation is an edit that goes through the commit.
<1>MutationPreserves.
      ASSUME CommitInv, NEW edits, handle_mutation(edits)
      PROVE  CommitInv'
  <2> USE <1>MutationPreserves
  <2>1. PICK new \in edits : commit_config(new)
    BY Zenon DEF handle_mutation
  <2> QED
    BY Zenon, <2>1, <1>CommitPreserves DEF handle_mutation, Locked
\* One step of the daemon, of a client or of the filesystem.
<1>NextPreservesCommitInv.
    CommitInv /\ [Next]_vars => CommitInv'
  <2> SUFFICES ASSUME CommitInv, [Next]_vars PROVE CommitInv'
    BY Zenon
  <2>1. CASE Start
    <3>1. PICK r \in build_router(disk, present) : router' = r
      BY Zenon, <2>1 DEF Start
    <3>2. Gives(memory', router')
      BY Zenon, <2>1, <3>1 DEF Start, Gives, CommitInv
    <3> QED BY <2>1, <3>2 DEF Start, CommitInv
  <2>2. CASE Publish
    <3>1. PICK p \in pending : memory' = p.config /\ router' = p.router
      BY Zenon, <2>2 DEF Publish
    <3>2. up /\ p.config = disk /\ Gives(p.config, p.router)
      BY Zenon, <2>2, <3>1 DEF CommitInv
    <3> QED BY Zenon, <2>2, <3>1, <3>2 DEF Publish, CommitInv
  <2>3. CASE Recompute
    <3>1. Gives(memory', router')
      BY Zenon, <2>3 DEF Recompute, Gives, CommitInv
    <3> QED BY Zenon, <2>3, <3>1 DEF Recompute, CommitInv
  <2>4. CASE Crash
    BY Zenon, <2>4 DEF Crash, CommitInv
  <2>5. ASSUME NEW edits, handle_mutation(edits) PROVE CommitInv'
    BY Zenon, <2>5, <1>MutationPreserves
  <2>6. ASSUME NEW root \in Roots, Park(root) \/ Unpark(root) PROVE CommitInv'
    BY <2>5, <2>6 DEF Park, Unpark
  <2>7. ASSUME NEW name \in Names, NEW dir \in Dirs, Link(name, dir) PROVE CommitInv'
    BY Zenon, <2>5, <2>7 DEF Link
  <2>8. ASSUME NEW name \in Names,
               Unlink(name) \/ AddProxy(name) \/ RemoveProxy(name) \/ ResetDomains(name)
        PROVE CommitInv'
    BY Zenon, <2>5, <2>8 DEF Unlink, AddProxy, RemoveProxy, ResetDomains
  <2>9. ASSUME NEW name \in Names, NEW secure \in BOOLEAN, SetSecure(name, secure)
        PROVE CommitInv'
    BY Zenon, <2>5, <2>9 DEF SetSecure
  <2>10. ASSUME NEW name \in Names, NEW path \in Paths,
                AddRule(name, path) \/ RemoveRule(name, path)
         PROVE CommitInv'
    BY Zenon, <2>5, <2>10 DEF AddRule, RemoveRule
  <2>11. ASSUME NEW name \in Names, NEW dom \in Domains,
                AddDomain(name, dom) \/ RemoveDomain(name, dom) \/ SetPrimaryDomain(name, dom)
         PROVE CommitInv'
    BY Zenon, <2>5, <2>11 DEF AddDomain, RemoveDomain, SetPrimaryDomain
  <2>12. ASSUME NEW c, NEW dir, NEW requested, NEW port,
                LinkProjectRead(c, dir, requested, port)
         PROVE CommitInv'
    BY Zenon, <2>12 DEF LinkProjectRead, CommitInv
  <2>13. ASSUME NEW c, NEW q, NEW busy, LinkProject(c, q, busy) PROVE CommitInv'
    <3>1. PICK project \in plan_link(memory, q, busy) :
                commit_config([memory EXCEPT !.projects = Append(@, project)])
      BY Zenon, <2>13 DEF LinkProject
    <3> QED BY Zenon, <2>13, <3>1, <1>CommitPreserves DEF LinkProject, Locked
  <2>14. ASSUME NEW c, NEW q, NEW busy, LinkProjectFails(c, q, busy) PROVE CommitInv'
    BY Zenon, <2>14 DEF LinkProjectFails, CommitInv
  <2>15. ASSUME NEW dir \in Dirs, ChangeDirs(dir) PROVE CommitInv'
    BY Zenon, <2>15 DEF ChangeDirs, CommitInv
  <2>16. CASE UNCHANGED vars
    BY Zenon, <2>16 DEF vars, CommitInv
  <2> QED
    BY Zenon, <2>1, <2>2, <2>3, <2>4, <2>6, <2>7, <2>8, <2>9, <2>10, <2>11, <2>12, <2>13, <2>14,
       <2>15, <2>16 DEF Next
<1> QED
  BY <1>InitEstablishesCommitInv, <1>NextPreservesCommitInv, PTL DEF Spec

-----------------------------------------------------------------------------
(* Configurations and domains. *)

\* The fields of a configuration.
LEMMA ConfigIs ==
  ASSUME NEW c \in ConfigType
  PROVE  /\ c.parked \in SUBSET Roots
         /\ c.linked \in Seq(LinkedType) /\ c.proxies \in Seq(ProxyType)
         /\ c.projects \in Seq(ProjectType)
         /\ c.override \in [Dirs -> {"unset", "on", "off"}]
         /\ c.domains \in DomainsType /\ c.rules \in RulesType
         /\ c.domains.linked \in [Names -> DeltaType] /\ c.domains.parked \in [Dirs -> DeltaType]
         /\ c.domains.proxy \in [Names -> DeltaType]
         /\ c.rules.linked \in [Names -> SUBSET Paths] /\ c.rules.parked \in [Dirs -> SUBSET Paths]
BY Zenon DEF ConfigType, DomainsType, RulesType

\* The empty customisation is well formed.
LEMMA NoDeltaIs == NoDelta \in DeltaType
<1>1. <<>> \in Seq(Domains)
  OBVIOUS
<1> QED BY Zenon, <1>1 DEF NoDelta, DeltaType

\* The domains a claimant asked for: its apex unless suppressed, and what it added.
Asked(name, delta) == (IF name \in delta.suppressed THEN {} ELSE {name}) \cup Range(delta.added)

\* What a site answers for: domains, an exact one among them, its apex unless that is
\* suppressed, and what was added.
LEMMA EffectivesAre ==
  /\ \A name \in Names, delta \in DeltaType :
         effective_domains(name, delta) \in Seq(Domains) /\ HasExact(effective_domains(name, delta))
  /\ \A name \in Names, delta \in DeltaType :
         Range(effective_domains(name, delta)) =
           Asked(name, delta) \cup (IF Asked(name, delta) \cap Exact = {} THEN {name} ELSE {})
<1> DEFINE
    ExtendOne(g, name, delta, n) ==
        IF n = 0 THEN IF name \in delta.suppressed THEN <<>> ELSE <<name>>
        ELSE Included(g[n - 1], delta.added[n])
<1> HIDE DEF ExtendOne
\* The loop of effective_domains, pass by pass.
<1>EffectivePasses.
    ASSUME NEW name, NEW delta, Len(delta.added) \in Nat
    PROVE  \A n \in 0 .. Len(delta.added) :
              EffectiveUpTo(name, delta)[n] = ExtendOne(EffectiveUpTo(name, delta), name, delta, n)
  <2> USE <1>EffectivePasses
  <2> DEFINE G == {N \in Nat : \E g : g = [n \in 0 .. N |-> ExtendOne(g, name, delta, n)]}
  <2>1. 0 \in G
    <3> DEFINE g == [n \in 0 .. 0 |-> IF name \in delta.suppressed THEN <<>> ELSE <<name>>]
    <3>1. g = [n \in 0 .. 0 |-> ExtendOne(g, name, delta, n)]
      BY DEF ExtendOne
    <3> QED BY Zenon, <3>1
  <2>2. ASSUME NEW N \in 0 .. Len(delta.added) - 1, N \in G PROVE N + 1 \in G
    <3>1. PICK g : g = [n \in 0 .. N |-> ExtendOne(g, name, delta, n)]
      BY Zenon, <2>2
    <3> DEFINE h == [n \in 0 .. N + 1 |-> ExtendOne(g, name, delta, n)]
    <3>2. \A n \in 0 .. N : h[n] = g[n]
      BY <3>1
    <3> HIDE DEF h
    <3>3. ASSUME NEW n \in 0 .. N + 1 PROVE ExtendOne(g, name, delta, n) = ExtendOne(h, name, delta, n)
      <4>1. n = 0 \/ n - 1 \in 0 .. N
        OBVIOUS
      <4> QED BY Zenon, <3>2, <4>1 DEF ExtendOne
    <3>4. h = [n \in 0 .. N + 1 |-> ExtendOne(h, name, delta, n)]
      BY Zenon, <3>3 DEF h
    <3> QED BY <3>4
  <2>3. Len(delta.added) \in G
    <3>1. \A n \in 0 .. Len(delta.added) - 1 : n \in G => n + 1 \in G
      BY Zenon, <2>2
    <3> HIDE DEF G
    <3> QED BY Zenon, <2>1, <3>1, EveryPass
  <2>4. \E g : g = [n \in 0 .. Len(delta.added) |-> ExtendOne(g, name, delta, n)]
    BY Zenon, <2>3
  <2>5. EffectiveUpTo(name, delta) =
          [n \in 0 .. Len(delta.added) |-> ExtendOne(EffectiveUpTo(name, delta), name, delta, n)]
    BY Zenon, <2>4 DEF EffectiveUpTo, ExtendOne
  <2> QED BY Zenon, <2>5
\* The effective domains are domains, and one of them is exact.
<1>EffectiveIs.
    ASSUME NEW name \in Names, NEW delta \in DeltaType
    PROVE  effective_domains(name, delta) \in Seq(Domains) /\ HasExact(effective_domains(name, delta))
  <2> USE <1>EffectiveIs
  <2>0. PICK K : K = EffectiveUpTo(name, delta)
    BY Zenon
  <2>1. /\ delta.added \in Seq(Domains) /\ Len(delta.added) \in Nat
        /\ \A n \in 1 .. Len(delta.added) : delta.added[n] \in Domains
    BY Zenon, SeqIs DEF DeltaType
  <2>2. /\ K[0] = IF name \in delta.suppressed THEN <<>> ELSE <<name>>
        /\ \A n \in 1 .. Len(delta.added) : K[n] = Included(K[n - 1], delta.added[n])
    <3>1. Len(delta.added) \in Nat
      BY Zenon, <2>1
    <3>2. \A n \in 0 .. Len(delta.added) : K[n] = ExtendOne(K, name, delta, n)
      BY Zenon, <2>0, <3>1, <1>EffectivePasses
    <3> QED BY Zenon, <3>1, <3>2, FirstPassAndRest DEF ExtendOne
  <2> DEFINE G == {n \in Nat : K[n] \in Seq(Domains)}
  <2>3. name \in Domains /\ name \in Exact
    BY Zenon DEF Domains, Exact
  <2>4. 0 \in G
    <3>1. <<>> \in Seq(Domains) /\ <<name>> \in Seq(Domains)
      BY <2>3
    <3>2. K[0] \in Seq(Domains)
      BY Zenon, <2>2, <3>1
    <3> QED BY Zenon, <3>2
  <2>5. ASSUME NEW n \in 0 .. Len(delta.added) - 1, n \in G PROVE n + 1 \in G
    <3>1. n \in Nat /\ n + 1 \in 1 .. Len(delta.added) /\ (n + 1) - 1 = n /\ K[n] \in Seq(Domains)
      <4>1. Len(delta.added) \in Nat
        BY Zenon, <2>1
      <4> QED BY Zenon, <2>5, <4>1, NextPass
    <3>2. K[n + 1] = Included(K[n], delta.added[n + 1]) /\ delta.added[n + 1] \in Domains
      BY Zenon, <2>1, <2>2, <3>1
    <3>3. K[n + 1] \in Seq(Domains)
      BY <3>1, <3>2 DEF Included
    <3> QED BY <3>1, <3>3
  <2>6. Len(delta.added) \in G
    <3>1. \A n \in 0 .. Len(delta.added) - 1 : n \in G => n + 1 \in G
      BY Zenon, <2>5
    <3> HIDE DEF G
    <3> QED BY Zenon, <2>1, <2>4, <3>1, EveryPass
  <2>7. PICK out \in Seq(Domains) : effective_domains(name, delta) = Normalised(name, out)
    BY Zenon, <2>0, <2>6 DEF effective_domains
  <2>8. CASE HasExact(out)
    BY Zenon, <2>7, <2>8 DEF Normalised
  <2>9. CASE ~HasExact(out)
    <3>1. effective_domains(name, delta) = <<name>> \o out
      BY Zenon, <2>7, <2>9 DEF Normalised
    <3>2. /\ <<name>> \o out \in Seq(Domains) /\ (<<name>> \o out)[1] = name
          /\ 1 \in DOMAIN (<<name>> \o out)
      BY <2>3
    <3>3. name \in Range(<<name>> \o out)
      BY Zenon, <3>2 DEF Range
    <3> QED BY Zenon, <2>3, <3>1, <3>2, <3>3 DEF HasExact
  <2> QED BY Zenon, <2>8, <2>9
\* The effective domains are those asked for, with the apex when none of them is exact.
<1>EffectiveAre.
    ASSUME NEW name \in Names, NEW delta \in DeltaType
    PROVE  Range(effective_domains(name, delta)) =
             Asked(name, delta) \cup (IF Asked(name, delta) \cap Exact = {} THEN {name} ELSE {})
  <2> USE <1>EffectiveAre
  <2>0. PICK K : K = EffectiveUpTo(name, delta)
    BY Zenon
  <2>1. /\ delta.added \in Seq(Domains) /\ Len(delta.added) \in Nat
        /\ \A n \in 1 .. Len(delta.added) : delta.added[n] \in Domains
        /\ DOMAIN delta.added = 1 .. Len(delta.added)
    BY Zenon, SeqIs DEF DeltaType
  <2>2. /\ K[0] = IF name \in delta.suppressed THEN <<>> ELSE <<name>>
        /\ \A n \in 1 .. Len(delta.added) : K[n] = Included(K[n - 1], delta.added[n])
    <3>1. Len(delta.added) \in Nat
      BY Zenon, <2>1
    <3>2. \A n \in 0 .. Len(delta.added) : K[n] = ExtendOne(K, name, delta, n)
      BY Zenon, <2>0, <3>1, <1>EffectivePasses
    <3> QED BY Zenon, <3>1, <3>2, FirstPassAndRest DEF ExtendOne
  <2>3. name \in Domains /\ name \in Exact
    BY Zenon DEF Domains, Exact
  <2>4. PICK A : A = IF name \in delta.suppressed THEN {} ELSE {name}
    BY Zenon
  <2> DEFINE G == {n \in Nat : K[n] \in Seq(Domains) /\ Range(K[n]) = A \cup {delta.added[m] : m \in 1 .. n}}
  <2>5. 0 \in G
    <3>1. /\ <<>> \in Seq(Domains) /\ <<name>> \in Seq(Domains)
          /\ Range(<<>>) = {} /\ Range(<<name>>) = {name}
      BY <2>3 DEF Range
    <3>2. K[0] \in Seq(Domains) /\ Range(K[0]) = A
      BY Zenon, <2>2, <2>4, <3>1
    <3>3. {delta.added[m] : m \in 1 .. 0} = {}
      OBVIOUS
    <3> QED BY Zenon, <3>2, <3>3
  <2>6. ASSUME NEW n \in 0 .. Len(delta.added) - 1, n \in G PROVE n + 1 \in G
    <3>1. /\ n \in Nat /\ n + 1 \in 1 .. Len(delta.added) /\ (n + 1) - 1 = n /\ K[n] \in Seq(Domains)
          /\ Range(K[n]) = A \cup {delta.added[m] : m \in 1 .. n}
      <4>1. Len(delta.added) \in Nat
        BY Zenon, <2>1
      <4> QED BY Zenon, <2>6, <4>1, NextPass
    <3>2. PICK k \in Seq(Domains), e \in Domains : k = K[n] /\ e = delta.added[n + 1]
      BY Zenon, <2>1, <3>1
    <3>3. K[n + 1] = Included(k, e)
      BY Zenon, <2>2, <3>1, <3>2
    <3>4. Included(k, e) \in Seq(Domains) /\ Range(Included(k, e)) = Range(k) \cup {e}
      <4>1. CASE e \in Range(k)
        BY Zenon, <4>1 DEF Included
      <4>2. CASE e \notin Range(k)
        BY <4>2, Appended DEF Included
      <4> QED BY Zenon, <4>1, <4>2
    <3>5. {delta.added[m] : m \in 1 .. n + 1} = {delta.added[m] : m \in 1 .. n} \cup {delta.added[n + 1]}
      <4>1. 1 .. n + 1 = (1 .. n) \cup {n + 1}
        BY <3>1
      <4> QED BY Zenon, <4>1
    <3> QED BY <3>1, <3>2, <3>3, <3>4, <3>5
  <2>7. Len(delta.added) \in G
    <3>1. \A n \in 0 .. Len(delta.added) - 1 : n \in G => n + 1 \in G
      BY Zenon, <2>6
    <3> HIDE DEF G
    <3> QED BY Zenon, <2>1, <2>5, <3>1, EveryPass
  <2>8. PICK out : out = K[Len(delta.added)]
    BY Zenon
  <2>9. out \in Seq(Domains) /\ Range(out) = Asked(name, delta)
    BY Zenon, <2>1, <2>4, <2>7, <2>8 DEF Asked, Range
  <2>10. effective_domains(name, delta) = Normalised(name, out)
    BY Zenon, <2>0, <2>8 DEF effective_domains
  <2>11. CASE HasExact(out)
    BY Zenon, <2>9, <2>10, <2>11 DEF Normalised, HasExact
  <2>12. CASE ~HasExact(out)
    <3>1. Range(<<name>> \o out) = {name} \cup Range(out)
      <4>1. PICK a : a = <<name>>
        BY Zenon
      <4>2. a \in Seq(Domains) /\ Range(a) = {name}
        BY <2>3, <4>1 DEF Range
      <4>3. Range(a \o out) = Range(a) \cup Range(out)
        BY <2>9, <4>2, Joined
      <4> QED BY Zenon, <4>1, <4>2, <4>3
    <3> QED BY Zenon, <2>9, <2>10, <2>12, <3>1 DEF Normalised, HasExact
  <2> QED BY Zenon, <2>11, <2>12
<1> QED BY Zenon, <1>EffectiveIs, <1>EffectiveAre

\* A primary is exact, and it is one of the given domains if one of them is exact.
LEMMA PrimaryIs ==
  ASSUME NEW name \in Names, NEW ds \in Seq(Domains), NEW stored
  PROVE  /\ choose_primary(name, ds, stored) \in Exact
         /\ HasExact(ds) => choose_primary(name, ds, stored) \in Range(ds)
<1>1. name \in Exact
  BY Zenon DEF Exact
<1>2. CASE stored \in Exact /\ stored \in Range(ds)
  <2>1. choose_primary(name, ds, stored) = stored
    BY Zenon, <1>2 DEF choose_primary
  <2> QED BY Zenon, <1>2, <2>1
<1>3. CASE stored \notin Exact \cap Range(ds) /\ (name \in Range(ds) \/ ~HasExact(ds))
  <2>1. choose_primary(name, ds, stored) = name
    BY Zenon, <1>3 DEF choose_primary
  <2> QED BY Zenon, <1>1, <1>3, <2>1
<1>4. CASE stored \notin Exact \cap Range(ds) /\ name \notin Range(ds) /\ HasExact(ds)
  <2>1. choose_primary(name, ds, stored) = OnlyIn(ds, Exact)[1]
    BY Zenon, <1>4 DEF choose_primary
  <2>2. OnlyIn(ds, Exact) \in Seq(Domains) /\ Range(OnlyIn(ds, Exact)) = Range(ds) \cap Exact
    BY Zenon, OnlyInIs
  <2>3. Range(OnlyIn(ds, Exact)) # {}
    BY Zenon, <1>4, <2>2 DEF HasExact
  <2>4. 1 \in DOMAIN OnlyIn(ds, Exact)
    <3>1. DOMAIN OnlyIn(ds, Exact) # {}
      BY Zenon, <2>3 DEF Range
    <3> QED BY <2>2, <3>1, SeqIs
  <2>5. OnlyIn(ds, Exact)[1] \in Range(OnlyIn(ds, Exact))
    BY Zenon, <2>4 DEF Range
  <2> QED BY Zenon, <2>1, <2>2, <2>5
<1> QED BY Zenon, <1>2, <1>3, <1>4

\* first_of_each_name keeps the first site of each name, and nothing else.
LEMMA FirstsAre ==
  /\ \A T : \A s \in Seq(T) :
         /\ FirstOfEachName(s) \in Seq(T)
         /\ \A i, j \in DOMAIN FirstOfEachName(s) :
              i # j => FirstOfEachName(s)[i].name # FirstOfEachName(s)[j].name
  /\ \A T : \A s \in Seq(T) :
         /\ Range(FirstOfEachName(s)) \in SUBSET Range(s)
         /\ \A k \in DOMAIN s : \E e \in Range(FirstOfEachName(s)) : e.name = s[k].name
         /\ \A k \in DOMAIN s : (\A j \in 1 .. k - 1 : s[j].name # s[k].name) =>
              s[k] \in Range(FirstOfEachName(s))
<1> DEFINE
    FirstOne(g, s, n) == IF n = 0 THEN <<>> ELSE WithFirst(g[n - 1], s[n])
<1> HIDE DEF FirstOne
\* The loop that keeps the first site of each name, pass by pass.
<1>FirstsPasses.
    ASSUME NEW s, Len(s) \in Nat
    PROVE  \A n \in 0 .. Len(s) : FirstsUpTo(s)[n] = FirstOne(FirstsUpTo(s), s, n)
  <2> USE <1>FirstsPasses
  <2> DEFINE G == {N \in Nat : \E g : g = [n \in 0 .. N |-> FirstOne(g, s, n)]}
  <2>1. 0 \in G
    <3> DEFINE g == [n \in 0 .. 0 |-> <<>>]
    <3>1. g = [n \in 0 .. 0 |-> FirstOne(g, s, n)]
      BY DEF FirstOne
    <3> QED BY Zenon, <3>1
  <2>2. ASSUME NEW N \in 0 .. Len(s) - 1, N \in G PROVE N + 1 \in G
    <3>1. PICK g : g = [n \in 0 .. N |-> FirstOne(g, s, n)]
      BY Zenon, <2>2
    <3> DEFINE h == [n \in 0 .. N + 1 |-> FirstOne(g, s, n)]
    <3>2. \A n \in 0 .. N : h[n] = g[n]
      BY <3>1
    <3> HIDE DEF h
    <3>3. ASSUME NEW n \in 0 .. N + 1 PROVE FirstOne(g, s, n) = FirstOne(h, s, n)
      <4>1. n = 0 \/ n - 1 \in 0 .. N
        OBVIOUS
      <4> QED BY Zenon, <3>2, <4>1 DEF FirstOne
    <3>4. h = [n \in 0 .. N + 1 |-> FirstOne(h, s, n)]
      BY Zenon, <3>3 DEF h
    <3> QED BY <3>4
  <2>3. Len(s) \in G
    <3>1. \A n \in 0 .. Len(s) - 1 : n \in G => n + 1 \in G
      BY Zenon, <2>2
    <3> HIDE DEF G
    <3> QED BY Zenon, <2>1, <3>1, EveryPass
  <2>4. \E g : g = [n \in 0 .. Len(s) |-> FirstOne(g, s, n)]
    BY Zenon, <2>3
  <2>5. FirstsUpTo(s) = [n \in 0 .. Len(s) |-> FirstOne(FirstsUpTo(s), s, n)]
    BY Zenon, <2>4 DEF FirstsUpTo, FirstOne
  <2> QED BY Zenon, <2>5
\* Of the elements with the same name one is kept.
<1>FirstOfEachNameIs.
    ASSUME NEW T, NEW s \in Seq(T)
    PROVE  /\ FirstOfEachName(s) \in Seq(T)
           /\ \A i, j \in DOMAIN FirstOfEachName(s) :
                i # j => FirstOfEachName(s)[i].name # FirstOfEachName(s)[j].name
  <2> USE <1>FirstOfEachNameIs
  <2>0. PICK K : K = FirstsUpTo(s)
    BY Zenon
  <2>1. Len(s) \in Nat /\ \A n \in 1 .. Len(s) : s[n] \in T
    BY Zenon, SeqIs
  <2>2. K[0] = <<>> /\ \A n \in 1 .. Len(s) : K[n] = WithFirst(K[n - 1], s[n])
    <3>1. Len(s) \in Nat
      BY Zenon, <2>1
    <3>2. \A n \in 0 .. Len(s) : K[n] = FirstOne(K, s, n)
      BY Zenon, <2>0, <3>1, <1>FirstsPasses
    <3> QED BY Zenon, <3>1, <3>2, FirstPassAndRest DEF FirstOne
  <2> DEFINE Good(k) == k \in Seq(T) /\ \A i, j \in DOMAIN k : i # j => k[i].name # k[j].name
             G == {n \in Nat : Good(K[n])}
  <2>3. 0 \in G
    <3>1. K[0] \in Seq(T) /\ DOMAIN K[0] = {}
      BY <2>2
    <3> QED BY Zenon, <3>1
  <2>4. ASSUME NEW n \in 0 .. Len(s) - 1, n \in G PROVE n + 1 \in G
    <3>1. n \in Nat /\ n + 1 \in 1 .. Len(s) /\ (n + 1) - 1 = n /\ Good(K[n]) /\ s[n + 1] \in T
      <4>1. n \in Nat /\ n + 1 \in 1 .. Len(s) /\ (n + 1) - 1 = n
        BY Zenon, <2>1, NextPass
      <4> QED BY Zenon, <2>1, <2>4, <4>1
    <3>2. PICK k \in Seq(T), e \in T : k = K[n] /\ e = s[n + 1]
      BY Zenon, <3>1
    <3>3. K[n + 1] = WithFirst(k, e) /\ Good(k)
      BY Zenon, <2>2, <3>1, <3>2
    <3>4. CASE \E i \in DOMAIN k : k[i].name = e.name
      <4>1. WithFirst(k, e) = k
        BY Zenon, <3>4 DEF WithFirst
      <4> QED BY <3>1, <3>3, <4>1
    <3>5. CASE \A i \in DOMAIN k : k[i].name # e.name
      <4>1. WithFirst(k, e) = Append(k, e)
        BY Zenon, <3>5 DEF WithFirst
      <4>2. /\ Append(k, e) \in Seq(T) /\ DOMAIN Append(k, e) = 1 .. Len(k) + 1 /\ Len(k) \in Nat
            /\ DOMAIN k = 1 .. Len(k)
            /\ Append(k, e)[Len(k) + 1] = e /\ \A i \in 1 .. Len(k) : Append(k, e)[i] = k[i]
        BY <3>2
      <4>3. ASSUME NEW i \in DOMAIN Append(k, e), NEW j \in DOMAIN Append(k, e), i # j
            PROVE  Append(k, e)[i].name # Append(k, e)[j].name
        BY <3>3, <3>5, <4>2, <4>3
      <4>4. Good(Append(k, e))
        BY Zenon, <4>2, <4>3
      <4>5. Good(K[n + 1])
        <5> HIDE DEF Good
        <5> QED BY Zenon, <3>3, <4>1, <4>4
      <4> QED BY <3>1, <4>5
    <3> QED BY Zenon, <3>4, <3>5
  <2>5. Len(s) \in G
    <3>1. \A n \in 0 .. Len(s) - 1 : n \in G => n + 1 \in G
      BY Zenon, <2>4
    <3> HIDE DEF G
    <3> QED BY Zenon, <2>1, <2>3, <3>1, EveryPass
  <2>6. Good(K[Len(s)]) /\ K[Len(s)] = FirstOfEachName(s)
    BY Zenon, <2>0, <2>5 DEF FirstOfEachName
  <2> QED BY Zenon, <2>6
\* Nobody is kept who was not there, every name is, and whoever is the first of a name.
<1>FirstsAreKept.
    ASSUME NEW T, NEW s \in Seq(T)
    PROVE  /\ Range(FirstOfEachName(s)) \in SUBSET Range(s)
           /\ \A k \in DOMAIN s : \E e \in Range(FirstOfEachName(s)) : e.name = s[k].name
           /\ \A k \in DOMAIN s : (\A j \in 1 .. k - 1 : s[j].name # s[k].name) =>
                s[k] \in Range(FirstOfEachName(s))
  <2> USE <1>FirstsAreKept
  <2>0. PICK K : K = FirstsUpTo(s)
    BY Zenon
  <2>1. Len(s) \in Nat /\ DOMAIN s = 1 .. Len(s) /\ \A n \in 1 .. Len(s) : s[n] \in T
    BY Zenon, SeqIs
  <2>2. K[0] = <<>> /\ \A n \in 1 .. Len(s) : K[n] = WithFirst(K[n - 1], s[n])
    <3>1. Len(s) \in Nat
      BY Zenon, <2>1
    <3>2. \A n \in 0 .. Len(s) : K[n] = FirstOne(K, s, n)
      BY Zenon, <2>0, <3>1, <1>FirstsPasses
    <3> QED BY Zenon, <3>1, <3>2, FirstPassAndRest DEF FirstOne
  <2> DEFINE Good(R, n) == /\ R \in SUBSET {s[m] : m \in 1 .. n}
                           /\ \A k \in 1 .. n : \E e \in R : e.name = s[k].name
                           /\ \A k \in 1 .. n : (\A j \in 1 .. k - 1 : s[j].name # s[k].name) => s[k] \in R
             G == {n \in Nat : K[n] \in Seq(T) /\ Good(Range(K[n]), n)}
  <2>3. 0 \in G
    <3>1. K[0] \in Seq(T) /\ Range(K[0]) = {}
      BY <2>2 DEF Range
    <3> QED BY <3>1
  <2>4. ASSUME NEW n \in 0 .. Len(s) - 1, n \in G PROVE n + 1 \in G
    <3>1. /\ n \in Nat /\ n + 1 \in 1 .. Len(s) /\ (n + 1) - 1 = n /\ s[n + 1] \in T
          /\ K[n] \in Seq(T) /\ Good(Range(K[n]), n)
      <4>1. n \in Nat /\ n + 1 \in 1 .. Len(s) /\ (n + 1) - 1 = n
        BY Zenon, <2>1, NextPass
      <4> QED BY Zenon, <2>1, <2>4, <4>1
    <3>2. PICK k \in Seq(T), e \in T : k = K[n] /\ e = s[n + 1]
      BY Zenon, <3>1
    <3>3. K[n + 1] = WithFirst(k, e) /\ Good(Range(k), n)
      BY Zenon, <2>2, <3>1, <3>2
    <3>4. \A m : m \in 1 .. n + 1 <=> m \in 1 .. n \/ m = n + 1
      BY <3>1
    <3>5. CASE \E i \in DOMAIN k : k[i].name = e.name
      <4>1. WithFirst(k, e) = k
        BY Zenon, <3>5 DEF WithFirst
      <4>2. PICK x \in Range(k) : x.name = e.name
        BY Zenon, <3>5 DEF Range
      <4>3. PICK m \in 1 .. n : x = s[m]
        BY Zenon, <3>3, <4>2
      <4>4. m \in 1 .. (n + 1) - 1 /\ s[m].name = s[n + 1].name
        BY Zenon, <3>1, <3>2, <4>2, <4>3
      <4>5. Range(k) \in SUBSET {s[l] : l \in 1 .. n + 1}
        BY Zenon, <3>3, <3>4
      <4>6. \A l \in 1 .. n + 1 : \E y \in Range(k) : y.name = s[l].name
        BY Zenon, <3>2, <3>3, <3>4, <4>2
      <4>7. \A l \in 1 .. n + 1 : (\A j \in 1 .. l - 1 : s[j].name # s[l].name) => s[l] \in Range(k)
        BY Zenon, <3>3, <3>4, <4>4
      <4>8. Good(Range(k), n + 1)
        BY Zenon, <4>5, <4>6, <4>7
      <4> QED
        <5> HIDE DEF Good
        <5>1. n + 1 \in Nat /\ K[n + 1] \in Seq(T) /\ K[n + 1] = k
          BY <3>1, <3>2, <3>3, <4>1
        <5> QED BY Zenon, <4>8, <5>1
    <3>6. CASE \A i \in DOMAIN k : k[i].name # e.name
      <4>1. WithFirst(k, e) = Append(k, e)
        BY Zenon, <3>6 DEF WithFirst
      <4>2. Append(k, e) \in Seq(T) /\ Range(Append(k, e)) = Range(k) \cup {e}
        BY <3>2, Appended
      <4>3. PICK R : R = Range(k) \cup {e}
        BY Zenon
      <4>4. R \in SUBSET {s[m] : m \in 1 .. n + 1}
        BY <3>2, <3>3, <3>4, <4>3
      <4>5. \A l \in 1 .. n + 1 : \E x \in R : x.name = s[l].name
        BY Zenon, <3>2, <3>3, <3>4, <4>3
      <4>6. \A l \in 1 .. n + 1 : (\A j \in 1 .. l - 1 : s[j].name # s[l].name) => s[l] \in R
        BY Zenon, <3>2, <3>3, <3>4, <4>3
      <4>7. Good(R, n + 1)
        BY Zenon, <4>4, <4>5, <4>6
      <4> QED
        <5> HIDE DEF Good
        <5>1. n + 1 \in Nat /\ K[n + 1] \in Seq(T) /\ Range(K[n + 1]) = R
          BY <3>1, <3>3, <4>1, <4>2, <4>3
        <5> QED BY Zenon, <4>7, <5>1
    <3> QED BY Zenon, <3>5, <3>6
  <2>5. Len(s) \in G
    <3>1. \A n \in 0 .. Len(s) - 1 : n \in G => n + 1 \in G
      BY Zenon, <2>4
    <3> HIDE DEF G
    <3> QED BY Zenon, <2>1, <2>3, <3>1, EveryPass
  <2>6. Good(Range(K[Len(s)]), Len(s)) /\ K[Len(s)] = FirstOfEachName(s)
    BY Zenon, <2>0, <2>5 DEF FirstOfEachName
  <2>7. {s[m] : m \in 1 .. Len(s)} = Range(s)
    BY Zenon, <2>1 DEF Range
  <2> QED BY Zenon, <2>1, <2>6, <2>7
<1> QED BY Zenon, <1>FirstOfEachNameIs, <1>FirstsAreKept

-----------------------------------------------------------------------------
(* Claims and routers. *)

PlanType == [site : SiteType, effective : Seq(Domains), eligible : BOOLEAN, primary : Exact]

\* Who among the first n claimants wants domain d, and who of them added it.
Wants(cs, d, n) == {i \in 1 .. n : cs[i].eligible /\ d \in Range(cs[i].effective)}

Adds(cs, d, n) == {i \in Wants(cs, d, n) : d # cs[i].site.name}

\* c is the claim on d that the rules give after n claimants.
RightClaim(cs, d, n, c) ==
    /\ c.idx \in Nat /\ c.explicit \in BOOLEAN
    /\ c.idx = 0 => ~c.explicit /\ Wants(cs, d, n) = {}
    /\ c.idx # 0 /\ c.explicit =>
         c.idx \in Adds(cs, d, n) /\ \A j \in Adds(cs, d, n) : c.idx <= j
    /\ c.idx # 0 /\ ~c.explicit =>
         Adds(cs, d, n) = {} /\ c.idx \in Wants(cs, d, n) /\ \A j \in Wants(cs, d, n) : c.idx <= j

\* Claimant k has the claim on d that wins.
FirstClaim(cs, d, k) ==
    \/ k \in Adds(cs, d, Len(cs)) /\ \A j \in Adds(cs, d, Len(cs)) : k <= j
    \/ /\ Adds(cs, d, Len(cs)) = {}
       /\ k \in Wants(cs, d, Len(cs)) /\ \A j \in Wants(cs, d, Len(cs)) : k <= j

\* The claim loop gives every domain the claim that the rules give.
LEMMA ClaimsAreRight ==
  \A cs \in Seq(PlanType), d \in Domains :
      RightClaim(cs, d, Len(cs), ClaimsUpTo(cs)[Len(cs)][d])
<1> DEFINE
    ClaimOne(g, cs, n) ==
        IF n = 0 THEN [d \in Domains |-> NoClaim]
        ELSE IF cs[n].eligible THEN ClaimAll(g[n - 1], n, cs[n]) ELSE g[n - 1]
<1> HIDE DEF ClaimOne
\* The claim loop of build_claims, pass by pass.
<1>ClaimsPasses.
    ASSUME NEW cs, Len(cs) \in Nat
    PROVE  \A n \in 0 .. Len(cs) : ClaimsUpTo(cs)[n] = ClaimOne(ClaimsUpTo(cs), cs, n)
  <2> USE <1>ClaimsPasses
  <2> DEFINE G == {N \in Nat : \E g : g = [n \in 0 .. N |-> ClaimOne(g, cs, n)]}
  <2>1. 0 \in G
    <3> DEFINE g == [n \in 0 .. 0 |-> [d \in Domains |-> NoClaim]]
    <3>1. g = [n \in 0 .. 0 |-> ClaimOne(g, cs, n)]
      BY DEF ClaimOne
    <3> QED BY Zenon, <3>1
  <2>2. ASSUME NEW N \in 0 .. Len(cs) - 1, N \in G PROVE N + 1 \in G
    <3>1. PICK g : g = [n \in 0 .. N |-> ClaimOne(g, cs, n)]
      BY Zenon, <2>2
    <3> DEFINE h == [n \in 0 .. N + 1 |-> ClaimOne(g, cs, n)]
    <3>2. \A n \in 0 .. N : h[n] = g[n]
      BY <3>1
    <3> HIDE DEF h
    <3>3. ASSUME NEW n \in 0 .. N + 1 PROVE ClaimOne(g, cs, n) = ClaimOne(h, cs, n)
      <4>1. n = 0 \/ n - 1 \in 0 .. N
        OBVIOUS
      <4> QED BY Zenon, <3>2, <4>1 DEF ClaimOne
    <3>4. h = [n \in 0 .. N + 1 |-> ClaimOne(h, cs, n)]
      BY Zenon, <3>3 DEF h
    <3> QED BY <3>4
  <2>3. Len(cs) \in G
    <3>1. \A n \in 0 .. Len(cs) - 1 : n \in G => n + 1 \in G
      BY Zenon, <2>2
    <3> HIDE DEF G
    <3> QED BY Zenon, <2>1, <3>1, EveryPass
  <2>4. \E g : g = [n \in 0 .. Len(cs) |-> ClaimOne(g, cs, n)]
    BY Zenon, <2>3
  <2>5. ClaimsUpTo(cs) = [n \in 0 .. Len(cs) |-> ClaimOne(ClaimsUpTo(cs), cs, n)]
    BY Zenon, <2>4 DEF ClaimsUpTo, ClaimOne
  <2> QED BY Zenon, <2>5
\* One more claimant: an explicit claim replaces an implicit one, nothing else.
<1>ClaimKept.
    ASSUME NEW cs, NEW d, NEW n \in Nat, NEW c, RightClaim(cs, d, n, c),
           cs[n + 1].eligible \in BOOLEAN
    PROVE  RightClaim(cs, d, n + 1,
             IF cs[n + 1].eligible /\ d \in Range(cs[n + 1].effective)
             THEN Claim(c, n + 1, d # cs[n + 1].site.name) ELSE c)
  <2> USE <1>ClaimKept
  <2>1. \A i : i \in 1 .. n + 1 <=> i \in 1 .. n \/ i = n + 1
    OBVIOUS
  <2>2. CASE ~(cs[n + 1].eligible /\ d \in Range(cs[n + 1].effective))
    <3>1. Wants(cs, d, n + 1) = Wants(cs, d, n)
      BY Zenon, <2>1, <2>2 DEF Wants
    <3>2. Adds(cs, d, n + 1) = Adds(cs, d, n)
      BY <3>1 DEF Adds
    <3> QED BY Zenon, <2>2, <3>1, <3>2 DEF RightClaim
  <2>3. CASE cs[n + 1].eligible /\ d \in Range(cs[n + 1].effective)
    <3>1. Wants(cs, d, n + 1) = Wants(cs, d, n) \cup {n + 1}
      BY Zenon, <2>1, <2>3 DEF Wants
    <3>2. Wants(cs, d, n) \in SUBSET (1 .. n) /\ Adds(cs, d, n) \in SUBSET (1 .. n)
      BY Zenon DEF Wants, Adds
    <3>3. CASE d # cs[n + 1].site.name
      <4>1. Adds(cs, d, n + 1) = Adds(cs, d, n) \cup {n + 1}
        BY Zenon, <3>1, <3>3 DEF Adds
      <4>2. CASE c.idx # 0 /\ c.explicit
        <5>1. Claim(c, n + 1, TRUE) = c
          BY Zenon, <4>2 DEF Claim
        <5>2. RightClaim(cs, d, n + 1, c)
          BY <3>2, <4>1, <4>2 DEF RightClaim
        <5> QED BY Zenon, <2>3, <3>3, <5>1, <5>2
      <4>3. CASE ~(c.idx # 0 /\ c.explicit)
        <5>1. Claim(c, n + 1, TRUE) = [idx |-> n + 1, explicit |-> TRUE]
          BY <4>3 DEF Claim, RightClaim
        <5>2. Adds(cs, d, n) = {}
          BY Zenon, <4>3 DEF RightClaim, Adds
        <5>3. RightClaim(cs, d, n + 1, [idx |-> n + 1, explicit |-> TRUE])
          BY <4>1, <5>2 DEF RightClaim
        <5> QED BY Zenon, <2>3, <3>3, <5>1, <5>3
      <4> QED BY Zenon, <4>2, <4>3
    <3>4. CASE d = cs[n + 1].site.name
      <4>1. Adds(cs, d, n + 1) = Adds(cs, d, n)
        BY Zenon, <3>1, <3>4 DEF Adds
      <4>2. CASE c.idx # 0
        <5>1. Claim(c, n + 1, FALSE) = c
          BY Zenon, <4>2 DEF Claim
        <5>2. RightClaim(cs, d, n + 1, c)
          BY <3>1, <3>2, <4>1, <4>2 DEF RightClaim
        <5> QED BY Zenon, <2>3, <3>4, <5>1, <5>2
      <4>3. CASE c.idx = 0
        <5>1. Claim(c, n + 1, FALSE) = [idx |-> n + 1, explicit |-> FALSE]
          BY Zenon, <4>3 DEF Claim
        <5>2. Wants(cs, d, n) = {} /\ Adds(cs, d, n) = {}
          BY <4>3 DEF RightClaim, Adds
        <5>3. RightClaim(cs, d, n + 1, [idx |-> n + 1, explicit |-> FALSE])
          BY <3>1, <4>1, <5>2 DEF RightClaim
        <5> QED BY Zenon, <2>3, <3>4, <5>1, <5>3
      <4> QED BY Zenon, <4>2, <4>3
    <3> QED BY Zenon, <3>3, <3>4
  <2> QED BY Zenon, <2>2, <2>3
<1>1.
    ASSUME NEW cs \in Seq(PlanType), NEW d \in Domains
    PROVE  RightClaim(cs, d, Len(cs), ClaimsUpTo(cs)[Len(cs)][d])
  <2> USE <1>1
  <2>0. PICK K : K = ClaimsUpTo(cs)
    BY Zenon
  <2>1. Len(cs) \in Nat /\ \A n \in 1 .. Len(cs) : cs[n].eligible \in BOOLEAN
    <3>1. Len(cs) \in Nat /\ \A n \in 1 .. Len(cs) : cs[n] \in PlanType
      BY Zenon, SeqIs
    <3> QED BY Zenon, <3>1 DEF PlanType
  <2>2. \A n \in 0 .. Len(cs) : K[n] = ClaimOne(K, cs, n)
    BY Zenon, <2>0, <2>1, <1>ClaimsPasses
  <2> DEFINE G == {n \in Nat : RightClaim(cs, d, n, K[n][d])}
  <2>3. 0 \in G
    <3>1. K[0][d] = [idx |-> 0, explicit |-> FALSE]
      <4>1. 0 \in 0 .. Len(cs)
        BY <2>1
      <4>2. K[0] = [e \in Domains |-> NoClaim]
        BY Zenon, <2>2, <4>1 DEF ClaimOne
      <4> QED BY Zenon, <4>2 DEF NoClaim
    <3>2. Wants(cs, d, 0) = {}
      BY DEF Wants
    <3>3. RightClaim(cs, d, 0, [idx |-> 0, explicit |-> FALSE])
      BY Zenon, <3>2 DEF RightClaim
    <3> QED BY Zenon, <3>1, <3>3
  <2>4. ASSUME NEW n \in 0 .. Len(cs) - 1, n \in G PROVE n + 1 \in G
    <3>1. n \in Nat /\ n + 1 \in 0 .. Len(cs) /\ n + 1 \in 1 .. Len(cs) /\ (n + 1) - 1 = n /\ n + 1 # 0
      BY <2>1
    <3>2. RightClaim(cs, d, n, K[n][d]) /\ cs[n + 1].eligible \in BOOLEAN
      BY Zenon, <2>1, <2>4, <3>1
    <3>3. K[n + 1] = IF cs[n + 1].eligible THEN ClaimAll(K[n], n + 1, cs[n + 1]) ELSE K[n]
      BY Zenon, <2>2, <3>1 DEF ClaimOne
    <3>4. K[n + 1][d] = IF cs[n + 1].eligible /\ d \in Range(cs[n + 1].effective)
                        THEN Claim(K[n][d], n + 1, d # cs[n + 1].site.name) ELSE K[n][d]
      BY <3>2, <3>3 DEF ClaimAll
    <3>5. RightClaim(cs, d, n + 1, K[n + 1][d])
      BY <3>1, <3>2, <3>4, <1>ClaimKept
    <3> QED BY <3>1, <3>5
  <2>5. Len(cs) \in G
    <3>1. \A n \in 0 .. Len(cs) - 1 : n \in G => n + 1 \in G
      BY Zenon, <2>4
    <3> HIDE DEF G
    <3> QED BY Zenon, <2>1, <2>3, <3>1, EveryPass
  <2> QED BY Zenon, <2>0, <2>5
<1> QED BY Zenon, <1>1

\* The claims are the rightful owners: eligible claimants that want the domain.
LEMMA ClaimsAreOwners ==
  \A cs \in Seq(PlanType) :
      /\ build_claims(cs) = [d \in Domains |-> RightfulOwner(cs, d)]
      /\ \A d \in Domains : \/ build_claims(cs)[d] = 0
                            \/ build_claims(cs)[d] \in Wants(cs, d, Len(cs))
\* The least element is the one CHOOSE gives.
<1>LeastIsFirst.
    ASSUME NEW S \in SUBSET Nat, NEW i \in S, \A j \in S : i <= j
    PROVE  (CHOOSE k \in S : \A j \in S : k <= j) = i
  <2> USE <1>LeastIsFirst
  <2>1. PICK k \in S : k = CHOOSE m \in S : \A j \in S : m <= j
    BY Zenon
  <2>2. \A j \in S : k <= j
    BY Zenon, <2>1
  <2> QED BY <2>1, <2>2
<1>1.
    ASSUME NEW cs \in Seq(PlanType)
    PROVE  /\ build_claims(cs) = [d \in Domains |-> RightfulOwner(cs, d)]
           /\ \A d \in Domains : \/ build_claims(cs)[d] = 0
                                 \/ build_claims(cs)[d] \in Wants(cs, d, Len(cs))
  <2> USE <1>1
  <2>0. DOMAIN cs = 1 .. Len(cs)
    OBVIOUS
  <2>1. ASSUME NEW d \in Domains
        PROVE  /\ build_claims(cs)[d] = RightfulOwner(cs, d)
               /\ build_claims(cs)[d] = 0 \/ build_claims(cs)[d] \in Wants(cs, d, Len(cs))
    <3> DEFINE W == {i \in DOMAIN cs : cs[i].eligible /\ d \in Range(cs[i].effective)}
               E == {i \in W : d # cs[i].site.name}
               first(S) == CHOOSE i \in S : \A j \in S : i <= j
    <3>1. RightfulOwner(cs, d) = CASE E # {} -> first(E)
                                   [] E = {} /\ W # {} -> first(W)
                                   [] OTHER -> 0
      BY Zenon DEF RightfulOwner
    <3>2. W = Wants(cs, d, Len(cs)) /\ E = Adds(cs, d, Len(cs)) /\ E \in SUBSET W /\ W \in SUBSET Nat
      BY <2>0 DEF Wants, Adds
    <3>3. PICK c : c = ClaimsUpTo(cs)[Len(cs)][d]
      BY Zenon
    <3>4. RightClaim(cs, d, Len(cs), c) /\ build_claims(cs)[d] = c.idx
      BY Zenon, <3>3, ClaimsAreRight DEF build_claims
    <3> HIDE DEF W, E
    <3>5. \A S \in SUBSET Nat : \A i \in S : (\A j \in S : i <= j) => first(S) = i
      BY Zenon, <1>LeastIsFirst
    <3> HIDE DEF first
    <3>6. CASE c.idx = 0
      BY Zenon, <3>1, <3>2, <3>4, <3>6 DEF RightClaim
    <3>7. CASE c.idx # 0 /\ c.explicit
      <4>1. c.idx \in E /\ \A j \in E : c.idx <= j
        BY Zenon, <3>2, <3>4, <3>7 DEF RightClaim
      <4>2. first(E) = c.idx
        BY Zenon, <3>2, <3>5, <4>1
      <4> QED BY Zenon, <3>1, <3>2, <3>4, <4>1, <4>2
    <3>8. CASE c.idx # 0 /\ ~c.explicit
      <4>1. E = {} /\ c.idx \in W /\ \A j \in W : c.idx <= j
        BY Zenon, <3>2, <3>4, <3>8 DEF RightClaim
      <4>2. first(W) = c.idx
        BY Zenon, <3>2, <3>5, <4>1
      <4> QED BY Zenon, <3>1, <3>2, <3>4, <4>1, <4>2
    <3> QED BY Zenon, <3>6, <3>7, <3>8
  <2>2. build_claims(cs) = [d \in Domains |-> build_claims(cs)[d]]
    BY Zenon DEF build_claims
  <2> QED BY Zenon, <2>1, <2>2
<1> QED BY Zenon, <1>1

\* The rightful owner has the winning claim, and whoever has it is the rightful owner.
LEMMA OwnerIs ==
  ASSUME NEW cs \in Seq(PlanType), NEW d \in Domains
  PROVE  /\ \/ RightfulOwner(cs, d) = 0 /\ Wants(cs, d, Len(cs)) = {}
            \/ RightfulOwner(cs, d) \in 1 .. Len(cs) /\ FirstClaim(cs, d, RightfulOwner(cs, d))
         /\ \A k : FirstClaim(cs, d, k) => RightfulOwner(cs, d) = k
<1>1. PICK k : k = RightfulOwner(cs, d)
  BY Zenon
<1>2. PICK c : c = ClaimsUpTo(cs)[Len(cs)][d]
  BY Zenon
<1>3. RightClaim(cs, d, Len(cs), c) /\ k = c.idx
  BY Zenon, <1>1, <1>2, ClaimsAreRight, ClaimsAreOwners DEF build_claims
<1>4. Len(cs) \in Nat /\ Wants(cs, d, Len(cs)) \in SUBSET (1 .. Len(cs))
      /\ Adds(cs, d, Len(cs)) \in SUBSET Wants(cs, d, Len(cs))
  BY DEF Wants, Adds
<1>5. \/ k = 0 /\ Wants(cs, d, Len(cs)) = {}
      \/ k \in 1 .. Len(cs) /\ FirstClaim(cs, d, k)
  <2>1. CASE c.idx = 0
    BY Zenon, <1>3, <2>1 DEF RightClaim
  <2>2. CASE c.idx # 0 /\ c.explicit
    <3>1. k \in Adds(cs, d, Len(cs)) /\ \A j \in Adds(cs, d, Len(cs)) : k <= j
      BY Zenon, <1>3, <2>2 DEF RightClaim
    <3> QED BY Zenon, <1>4, <3>1 DEF FirstClaim
  <2>3. CASE c.idx # 0 /\ ~c.explicit
    <3>1. /\ Adds(cs, d, Len(cs)) = {}
          /\ k \in Wants(cs, d, Len(cs)) /\ \A j \in Wants(cs, d, Len(cs)) : k <= j
      BY Zenon, <1>3, <2>3 DEF RightClaim
    <3> QED BY Zenon, <1>4, <3>1 DEF FirstClaim
  <2> QED BY Zenon, <2>1, <2>2, <2>3
<1>6. ASSUME NEW m, FirstClaim(cs, d, m) PROVE k = m
  <2>1. m \in Wants(cs, d, Len(cs)) /\ m \in 1 .. Len(cs)
    BY Zenon, <1>4, <1>6 DEF FirstClaim
  <2>2. k \in 1 .. Len(cs) /\ FirstClaim(cs, d, k)
    BY Zenon, <1>5, <2>1
  <2>3. k <= m /\ m <= k
    BY Zenon, <1>4, <1>6, <2>1, <2>2 DEF FirstClaim
  <2> QED BY <1>4, <2>1, <2>2, <2>3
<1> QED BY Zenon, <1>1, <1>5, <1>6

\* Eligible claimants have names of their own.
NamesApart(cs) ==
    \A i, j \in DOMAIN cs :
        i # j /\ cs[i].eligible /\ cs[j].eligible => cs[i].site.name # cs[j].site.name

\* Only a claimant that may have a domain is given it.
ClaimsWanted(cs, claims) ==
    \A d \in Domains : claims[d] = 0 \/ claims[d] \in Wants(cs, d, Len(cs))

\* r has the first n claimants with everything they won.
RightRouter(cs, claims, n, r) ==
    /\ r \in RouterType
    /\ r.sites = {cs[i].site : i \in {j \in 1 .. n : cs[j].eligible}}
    /\ \A d \in Domains : r.owner[d] = IF claims[d] \in 1 .. n THEN cs[claims[d]].site.name ELSE NoDomain
    /\ \A i \in 1 .. n : cs[i].eligible =>
         r.primary[cs[i].site.name]
           = choose_primary(cs[i].site.name, Won(cs, claims, i), cs[i].primary)

\* The fields of a claimant.
LEMMA PlanIs ==
  ASSUME NEW c \in PlanType
  PROVE  /\ c.site \in SiteType /\ c.site.name \in Names /\ c.effective \in Seq(Domains)
         /\ c.eligible \in BOOLEAN /\ c.primary \in Exact
BY Zenon DEF PlanType, SiteType

\* What a claimant won: the domains whose claim it has.
LEMMA WonIs ==
  ASSUME NEW cs \in Seq(PlanType), NEW claims, ClaimsWanted(cs, claims), NEW i \in 1 .. Len(cs)
  PROVE  /\ Won(cs, claims, i) \in Seq(Domains)
         /\ \A d \in Domains : d \in Range(Won(cs, claims, i)) <=> claims[d] = i
         /\ Range(Won(cs, claims, i)) \in SUBSET Domains
<1>1. cs[i] \in PlanType
  BY Zenon, SeqIs
<1>2. cs[i].effective \in Seq(Domains)
  BY Zenon, <1>1, PlanIs
<1>3. /\ Won(cs, claims, i) \in Seq(Domains)
      /\ Range(Won(cs, claims, i)) = Range(cs[i].effective) \cap {d \in Domains : claims[d] = i}
  BY <1>2, OnlyInIs DEF Won
<1>4. \A d \in Domains : claims[d] = i => d \in Range(cs[i].effective)
  BY DEF ClaimsWanted, Wants
<1> QED BY Zenon, <1>3, <1>4

\* Building a router loses nothing: the claims are the rightful ones, and the router
\* has every eligible claimant with what it won.
LEMMA RouteIs ==
  \A c \in ConfigType, cs \in Seq(PlanType) : NamesApart(cs) =>
      /\ ClaimsWanted(cs, build_claims(cs))
      /\ RightRouter(cs, build_claims(cs), Len(cs), Route(c, cs))
<1> DEFINE
    InsertOne(g, cs, claims, n) ==
        IF n = 0 THEN EmptyRouter
        ELSE IF cs[n].eligible THEN Insert(g[n - 1], cs[n], Won(cs, claims, n))
        ELSE g[n - 1]
<1> HIDE DEF InsertOne
\* The insertion loop of build, pass by pass.
<1>RoutersPasses.
    ASSUME NEW cs, NEW claims, Len(cs) \in Nat
    PROVE  \A n \in 0 .. Len(cs) :
              RoutersUpTo(cs, claims)[n] = InsertOne(RoutersUpTo(cs, claims), cs, claims, n)
  <2> USE <1>RoutersPasses
  <2> DEFINE G == {N \in Nat : \E g : g = [n \in 0 .. N |-> InsertOne(g, cs, claims, n)]}
  <2>1. 0 \in G
    <3> DEFINE g == [n \in 0 .. 0 |-> EmptyRouter]
    <3>1. g = [n \in 0 .. 0 |-> InsertOne(g, cs, claims, n)]
      BY DEF InsertOne
    <3> QED BY Zenon, <3>1
  <2>2. ASSUME NEW N \in 0 .. Len(cs) - 1, N \in G PROVE N + 1 \in G
    <3>1. PICK g : g = [n \in 0 .. N |-> InsertOne(g, cs, claims, n)]
      BY Zenon, <2>2
    <3> DEFINE h == [n \in 0 .. N + 1 |-> InsertOne(g, cs, claims, n)]
    <3>2. \A n \in 0 .. N : h[n] = g[n]
      BY <3>1
    <3> HIDE DEF h
    <3>3. ASSUME NEW n \in 0 .. N + 1 PROVE InsertOne(g, cs, claims, n) = InsertOne(h, cs, claims, n)
      <4>1. n = 0 \/ n - 1 \in 0 .. N
        OBVIOUS
      <4> QED BY Zenon, <3>2, <4>1 DEF InsertOne
    <3>4. h = [n \in 0 .. N + 1 |-> InsertOne(h, cs, claims, n)]
      BY Zenon, <3>3 DEF h
    <3> QED BY <3>4
  <2>3. Len(cs) \in G
    <3>1. \A n \in 0 .. Len(cs) - 1 : n \in G => n + 1 \in G
      BY Zenon, <2>2
    <3> HIDE DEF G
    <3> QED BY Zenon, <2>1, <3>1, EveryPass
  <2>4. \E g : g = [n \in 0 .. Len(cs) |-> InsertOne(g, cs, claims, n)]
    BY Zenon, <2>3
  <2>5. RoutersUpTo(cs, claims) = [n \in 0 .. Len(cs) |-> InsertOne(RoutersUpTo(cs, claims), cs, claims, n)]
    BY Zenon, <2>4 DEF RoutersUpTo, InsertOne
  <2> QED BY Zenon, <2>5
\* One more claimant is accepted with everything it won.
<1>RouterKept.
    ASSUME NEW cs \in Seq(PlanType), NamesApart(cs), NEW claims, ClaimsWanted(cs, claims),
           NEW n \in 0 .. Len(cs) - 1, NEW r, RightRouter(cs, claims, n, r)
    PROVE  RightRouter(cs, claims, n + 1,
              IF cs[n + 1].eligible THEN Insert(r, cs[n + 1], Won(cs, claims, n + 1)) ELSE r)
  <2> USE <1>RouterKept
  <2>0. /\ Len(cs) \in Nat /\ n \in Nat /\ n + 1 \in 1 .. Len(cs) /\ DOMAIN cs = 1 .. Len(cs)
        /\ cs[n + 1] \in PlanType /\ \A i \in 1 .. Len(cs) : cs[i] \in PlanType
        /\ \A i \in 1 .. n : i \in 1 .. Len(cs) /\ i # n + 1
        /\ \A i : i \in 1 .. n + 1 <=> i \in 1 .. n \/ i = n + 1
        /\ n + 1 \notin 1 .. n
    BY SeqIs
  <2>1. CASE ~cs[n + 1].eligible
    <3>1. {j \in 1 .. n + 1 : cs[j].eligible} = {j \in 1 .. n : cs[j].eligible}
      BY Zenon, <2>0, <2>1
    <3>2. \A d \in Domains : claims[d] # n + 1
      BY <2>0, <2>1 DEF ClaimsWanted, Wants
    <3> QED BY Zenon, <2>0, <2>1, <3>1, <3>2 DEF RightRouter
  <2>2. CASE cs[n + 1].eligible
    <3> DEFINE c == cs[n + 1]
               won == Won(cs, claims, n + 1)
               p == choose_primary(c.site.name, won, c.primary)
    <3>1. PICK nm : nm = c.site.name
      BY Zenon
    <3>2. nm \in Names /\ c.site \in SiteType
      BY Zenon, <2>0, <3>1, PlanIs
    <3>3. /\ won \in Seq(Domains) /\ Range(won) \in SUBSET Domains
          /\ \A d \in Domains : d \in Range(won) <=> claims[d] = n + 1
      BY <2>0, WonIs
    <3>4. p \in Exact
      BY Zenon, <3>1, <3>2, <3>3, PrimaryIs
    <3>5. nm \notin Registered(r)
      <4>1. \A i \in 1 .. n : cs[i].eligible => cs[i].site.name # nm
        BY Zenon, <2>0, <2>2, <3>1 DEF NamesApart
      <4>2. r.sites = {cs[i].site : i \in {j \in 1 .. n : cs[j].eligible}}
        BY Zenon DEF RightRouter
      <4> QED BY Zenon, <4>1, <4>2 DEF Registered
    <3>6. ~(\E d \in Range(won) : r.owner[d] # NoDomain)
      BY Zenon, <2>0, <3>3 DEF RightRouter
    <3> HIDE DEF won, p, c
    <3>7. PICK q : q = Insert(r, cs[n + 1], Won(cs, claims, n + 1))
      BY Zenon
    <3>8. q = [r EXCEPT !.sites = @ \cup {c.site},
                        !.owner = [d \in Domains |-> IF d \in Range(won) THEN nm ELSE @[d]],
                        !.primary = [@ EXCEPT ![nm] = p]]
      BY Zenon, <3>1, <3>5, <3>6, <3>7 DEF Insert, insert_with_domains, c, won, p
    <3>9. /\ r \in RouterType
          /\ r.owner \in [Domains -> Names \cup {NoDomain}]
          /\ r.primary \in [Names -> Exact \cup {NoDomain}]
          /\ r.sites \in SUBSET SiteType /\ r.rules \in [Names -> SUBSET Paths]
      BY Zenon DEF RightRouter, RouterType
    <3>10. q = [sites |-> r.sites \cup {c.site},
                owner |-> [d \in Domains |-> IF d \in Range(won) THEN nm ELSE r.owner[d]],
                primary |-> [r.primary EXCEPT ![nm] = p], rules |-> r.rules]
      BY Zenon, <3>8, <3>9 DEF RouterType
    <3>11. /\ [d \in Domains |-> IF d \in Range(won) THEN nm ELSE r.owner[d]]
                \in [Domains -> Names \cup {NoDomain}]
           /\ [r.primary EXCEPT ![nm] = p] \in [Names -> Exact \cup {NoDomain}]
           /\ r.sites \cup {c.site} \in SUBSET SiteType
      BY Zenon, <3>2, <3>4, <3>9 DEF c
    <3>12. q \in RouterType
      BY Zenon, <3>9, <3>10, <3>11 DEF RouterType
    <3>13. q.sites = {cs[i].site : i \in {j \in 1 .. n + 1 : cs[j].eligible}}
      <4>1. {j \in 1 .. n + 1 : cs[j].eligible} = {j \in 1 .. n : cs[j].eligible} \cup {n + 1}
        BY Zenon, <2>0, <2>2
      <4>2. q.sites = r.sites \cup {cs[n + 1].site}
        BY Zenon, <3>10 DEF c
      <4>3. r.sites = {cs[i].site : i \in {j \in 1 .. n : cs[j].eligible}}
        BY Zenon DEF RightRouter
      <4> QED BY <4>1, <4>2, <4>3
    <3>14. ASSUME NEW d \in Domains
           PROVE  q.owner[d] = IF claims[d] \in 1 .. n + 1 THEN cs[claims[d]].site.name ELSE NoDomain
      <4>1. q.owner[d] = IF d \in Range(won) THEN nm ELSE r.owner[d]
        BY Zenon, <3>10
      <4>2. r.owner[d] = IF claims[d] \in 1 .. n THEN cs[claims[d]].site.name ELSE NoDomain
        BY Zenon DEF RightRouter
      <4> QED BY Zenon, <2>0, <3>1, <3>3, <4>1, <4>2 DEF c
    <3>15. ASSUME NEW i \in 1 .. n + 1, cs[i].eligible
           PROVE  q.primary[cs[i].site.name]
                    = choose_primary(cs[i].site.name, Won(cs, claims, i), cs[i].primary)
      <4>1. CASE i = n + 1
        BY Zenon, <3>1, <3>2, <3>9, <3>10, <4>1 DEF c, won, p
      <4>2. CASE i \in 1 .. n
        <5>1. cs[i].site.name # nm /\ cs[i].site.name \in Names
          BY Zenon, <2>0, <2>2, <3>1, <3>15, <4>2, PlanIs DEF NamesApart, c
        <5>2. q.primary[cs[i].site.name] = r.primary[cs[i].site.name]
          BY Zenon, <3>9, <3>10, <5>1
        <5> QED BY Zenon, <3>15, <4>2, <5>2 DEF RightRouter
      <4> QED BY Zenon, <2>0, <4>1, <4>2
    <3>16. RightRouter(cs, claims, n + 1, q)
      BY Zenon, <3>12, <3>13, <3>14, <3>15 DEF RightRouter
    <3> QED BY Zenon, <2>2, <3>7, <3>16
  <2> QED BY Zenon, <2>1, <2>2
\* The loop drops nobody: every eligible claimant is in the router with what it won.
<1>RoutersAreRight.
    ASSUME NEW cs \in Seq(PlanType), NamesApart(cs), NEW claims, ClaimsWanted(cs, claims)
    PROVE  RightRouter(cs, claims, Len(cs), InsertAll(cs, claims))
  <2> USE <1>RoutersAreRight
  <2>0. PICK K : K = RoutersUpTo(cs, claims)
    BY Zenon
  <2>1. Len(cs) \in Nat
    OBVIOUS
  <2>2. \A n \in 0 .. Len(cs) : K[n] = InsertOne(K, cs, claims, n)
    BY Zenon, <2>0, <2>1, <1>RoutersPasses
  <2> DEFINE G == {n \in Nat : RightRouter(cs, claims, n, K[n])}
  <2>3. 0 \in G
    <3>1. K[0] = EmptyRouter
      BY <2>1, <2>2 DEF InsertOne
    <3>2. EmptyRouter \in RouterType
      BY Zenon DEF EmptyRouter, RouterType
    <3>3. {cs[i].site : i \in {j \in 1 .. 0 : cs[j].eligible}} = {}
      OBVIOUS
    <3>4. RightRouter(cs, claims, 0, EmptyRouter)
      BY <3>2, <3>3 DEF RightRouter, EmptyRouter
    <3> QED BY Zenon, <3>1, <3>4
  <2>4. ASSUME NEW n \in 0 .. Len(cs) - 1, n \in G PROVE n + 1 \in G
    <3>1. n \in Nat /\ n + 1 \in 0 .. Len(cs) /\ n + 1 # 0 /\ (n + 1) - 1 = n /\ n + 1 \in Nat
      BY <2>1
    <3>2. K[n + 1] = IF cs[n + 1].eligible THEN Insert(K[n], cs[n + 1], Won(cs, claims, n + 1)) ELSE K[n]
      BY Zenon, <2>2, <3>1 DEF InsertOne
    <3>3. RightRouter(cs, claims, n + 1, K[n + 1])
      BY Zenon, <2>4, <3>2, <1>RouterKept
    <3> QED BY Zenon, <3>1, <3>3
  <2>5. Len(cs) \in G
    <3>1. \A n \in 0 .. Len(cs) - 1 : n \in G => n + 1 \in G
      BY Zenon, <2>4
    <3> HIDE DEF G
    <3> QED BY Zenon, <2>1, <2>3, <3>1, EveryPass
  <2> QED BY Zenon, <2>0, <2>5 DEF InsertAll
\* The path rules of a site are path prefixes.
<1>RulesOfIs.
    ASSUME NEW c \in ConfigType, NEW s \in SiteType
    PROVE  RulesOf(c, s) \in SUBSET Paths
  <2> USE <1>RulesOfIs
  <2>1. s.name \in Names /\ (s.kind = "parked" => s.dir \in Dirs)
    BY Zenon DEF SiteType
  <2> QED BY Zenon, <2>1, ConfigIs DEF RulesOf
<1>1.
    ASSUME NEW c \in ConfigType, NEW cs \in Seq(PlanType), NamesApart(cs)
    PROVE  /\ ClaimsWanted(cs, build_claims(cs))
           /\ RightRouter(cs, build_claims(cs), Len(cs), Route(c, cs))
  <2> USE <1>1
  <2>1. ClaimsWanted(cs, build_claims(cs))
    BY Zenon, ClaimsAreOwners DEF ClaimsWanted
  <2>2. PICK r : r = InsertAll(cs, build_claims(cs))
    BY Zenon
  <2>3. RightRouter(cs, build_claims(cs), Len(cs), r)
    BY Zenon, <2>1, <2>2, <1>RoutersAreRight
  <2>4. PICK rules : rules = [n \in Names |-> UNION {RulesOf(c, s) : s \in {t \in r.sites : t.name = n}}]
    BY Zenon
  <2>5. r \in RouterType /\ r.sites \in SUBSET SiteType
    BY Zenon, <2>3 DEF RightRouter, RouterType
  <2>6. rules \in [Names -> SUBSET Paths]
    <3>1. ASSUME NEW n \in Names
          PROVE  UNION {RulesOf(c, s) : s \in {t \in r.sites : t.name = n}} \in SUBSET Paths
      <4>1. \A s \in r.sites : RulesOf(c, s) \in SUBSET Paths
        BY Zenon, <2>5, <1>RulesOfIs
      <4> QED BY Zenon, <4>1
    <3> QED BY Zenon, <2>4, <3>1
  <2>7. Route(c, cs) = [r EXCEPT !.rules = rules]
    BY Zenon, <2>2, <2>4 DEF Route, WithRules
  <2>8. [r EXCEPT !.rules = rules] \in RouterType
    BY Zenon, <2>5, <2>6 DEF RouterType
  <2>9. PICK q : q = Route(c, cs)
    BY Zenon
  <2>10. q \in RouterType /\ q.sites = r.sites /\ q.owner = r.owner /\ q.primary = r.primary
    BY Zenon, <2>5, <2>7, <2>8, <2>9 DEF RouterType
  <2>11. RightRouter(cs, build_claims(cs), Len(cs), q)
    BY Zenon, <2>3, <2>10 DEF RightRouter
  <2> QED BY Zenon, <2>1, <2>9, <2>11
<1> QED BY Zenon, <1>1

\* One claimant per site kept; its primary is one of its exact domains.
LEMMA PlansAre ==
  \A c \in ConfigType, kept \in Seq(SiteType) : \A taken :
      /\ Plans(c, kept, taken) \in Seq(PlanType)
      /\ Len(Plans(c, kept, taken)) = Len(kept)
      /\ \A i \in 1 .. Len(kept) :
           /\ Plans(c, kept, taken)[i].site = kept[i]
           /\ Plans(c, kept, taken)[i].eligible = (kept[i].name \notin taken)
           /\ Plans(c, kept, taken)[i].primary \in Range(Plans(c, kept, taken)[i].effective)
\* The customisation of a site is well formed.
<1>DeltaForIs.
    ASSUME NEW c \in ConfigType, NEW site \in SiteType
    PROVE  delta_for(c, site) \in DeltaType
  <2> USE <1>DeltaForIs
  <2>1. /\ c.domains.linked \in [Names -> DeltaType] /\ c.domains.parked \in [Dirs -> DeltaType]
        /\ c.domains.proxy \in [Names -> DeltaType]
    BY Zenon, ConfigIs
  <2>2. site.name \in Names /\ (site.kind = "parked" => site.dir \in Dirs)
    BY Zenon DEF SiteType
  <2> QED BY Zenon, <2>1, <2>2 DEF delta_for
<1>1.
    ASSUME NEW c \in ConfigType, NEW kept \in Seq(SiteType), NEW taken
    PROVE  /\ Plans(c, kept, taken) \in Seq(PlanType)
           /\ Len(Plans(c, kept, taken)) = Len(kept)
           /\ \A i \in 1 .. Len(kept) :
                /\ Plans(c, kept, taken)[i].site = kept[i]
                /\ Plans(c, kept, taken)[i].eligible = (kept[i].name \notin taken)
                /\ Plans(c, kept, taken)[i].primary \in Range(Plans(c, kept, taken)[i].effective)
  <2> USE <1>1
  <2> DEFINE P == Plans(c, kept, taken)
  <2>1. Len(kept) \in Nat /\ DOMAIN kept = 1 .. Len(kept) /\ \A i \in 1 .. Len(kept) : kept[i] \in SiteType
    BY Zenon, SeqIs
  <2>2. ASSUME NEW i \in 1 .. Len(kept)
        PROVE  /\ P[i] \in PlanType /\ P[i].site = kept[i]
               /\ P[i].eligible = (kept[i].name \notin taken)
               /\ P[i].primary \in Range(P[i].effective)
    <3>1. PICK eff : eff = effective_domains(kept[i].name, delta_for(c, kept[i]))
      BY Zenon
    <3>2. PICK pr : pr = choose_primary(kept[i].name, eff, delta_for(c, kept[i]).primary)
      BY Zenon
    <3>3. P[i] = [site |-> kept[i], effective |-> eff, eligible |-> kept[i].name \notin taken, primary |-> pr]
      BY Zenon, <2>1, <3>1, <3>2 DEF Plans, PlanWith
    <3>4. kept[i] \in SiteType /\ kept[i].name \in Names
      BY Zenon, <2>1 DEF SiteType
    <3>5. eff \in Seq(Domains) /\ HasExact(eff)
      BY Zenon, <3>1, <3>4, <1>DeltaForIs, EffectivesAre
    <3>6. pr \in Exact /\ pr \in Range(eff)
      BY Zenon, <3>2, <3>4, <3>5, PrimaryIs
    <3> QED BY <3>3, <3>4, <3>5, <3>6 DEF PlanType
  <2>3. P \in [1 .. Len(kept) -> PlanType]
    <3>1. P = [i \in 1 .. Len(kept) |-> P[i]]
      BY Zenon, <2>1 DEF Plans
    <3> HIDE DEF P
    <3> QED BY Zenon, <2>2, <3>1
  <2> HIDE DEF P
  <2>4. P \in Seq(PlanType) /\ Len(P) = Len(kept)
    BY Zenon, <2>1, <2>3, IsSeq
  <2> QED BY Zenon, <2>2, <2>4 DEF P
<1> QED BY Zenon, <1>1

\* The whole-host proxies are sites without a document root of their own.
LEMMA ProxySitesAre ==
  ASSUME NEW c \in ConfigType
  PROVE  ConfiguredProxies(c) \o project_proxies(c.projects) \in Seq(SiteType)
<1>1. ConfiguredProxies(c) \in Seq(SiteType)
  <2>1. /\ DOMAIN c.proxies = 1 .. Len(c.proxies) /\ Len(c.proxies) \in Nat
        /\ \A i \in 1 .. Len(c.proxies) : c.proxies[i] \in ProxyType
    BY Zenon, ConfigIs, SeqIs
  <2>2. ConfiguredProxies(c) \in [1 .. Len(c.proxies) -> SiteType]
    BY Zenon, <2>1 DEF ConfiguredProxies, SiteType, ProxyType
  <2> QED BY Zenon, <2>1, <2>2, IsSeq
<1>2. project_proxies(c.projects) \in Seq(SiteType)
  <2>1. /\ DOMAIN c.projects = 1 .. Len(c.projects) /\ Len(c.projects) \in Nat
        /\ \A i \in 1 .. Len(c.projects) : c.projects[i] \in ProjectType
    BY Zenon, ConfigIs, SeqIs
  <2>2. project_proxies(c.projects) \in [1 .. Len(c.projects) -> SiteType]
    BY Zenon, <2>1 DEF project_proxies, SiteType, ProjectType
  <2> QED BY Zenon, <2>1, <2>2, IsSeq
<1> QED BY <1>1, <1>2

\* The claimants: one per name among those that may claim, each with an exact primary.
LEMMA ClaimantsAre ==
  ASSUME NEW c \in ConfigType, NEW sites \in Seq(SiteType)
  PROVE  /\ claimants(c, sites) \in Seq(PlanType)
         /\ NamesApart(claimants(c, sites))
         /\ \A i \in DOMAIN claimants(c, sites) :
              claimants(c, sites)[i].primary \in Exact \cap Range(claimants(c, sites)[i].effective)
<1>1. PICK kept : kept = FirstOfEachName(sites)
  BY Zenon
<1>2. PICK sp : sp = Plans(c, kept, {})
  BY Zenon
<1>3. PICK pkept : pkept = FirstOfEachName(ConfiguredProxies(c) \o project_proxies(c.projects))
  BY Zenon
<1>4. PICK pp : pp = Plans(c, pkept, SiteNames(sp))
  BY Zenon
<1>5. PICK cs : cs = sp \o pp
  BY Zenon
<1>6. claimants(c, sites) = cs
  BY Zenon, <1>1, <1>2, <1>3, <1>4, <1>5 DEF claimants, AndProxies, plan_sites, plan_proxies
<1>7. /\ kept \in Seq(SiteType) /\ DOMAIN kept = 1 .. Len(kept)
      /\ \A i, j \in DOMAIN kept : i # j => kept[i].name # kept[j].name
  BY <1>1, FirstsAre
<1>8. /\ pkept \in Seq(SiteType) /\ DOMAIN pkept = 1 .. Len(pkept)
      /\ \A i, j \in DOMAIN pkept : i # j => pkept[i].name # pkept[j].name
  <2>1. PICK ps : ps = ConfiguredProxies(c) \o project_proxies(c.projects)
    BY Zenon
  <2>2. ps \in Seq(SiteType) /\ pkept = FirstOfEachName(ps)
    BY Zenon, <1>3, <2>1, ProxySitesAre
  <2> QED BY <2>2, FirstsAre
<1>9. /\ sp \in Seq(PlanType) /\ Len(sp) = Len(kept)
      /\ \A i \in 1 .. Len(kept) : sp[i].site = kept[i] /\ sp[i].primary \in Range(sp[i].effective)
  BY <1>2, <1>7, PlansAre
<1>10. /\ pp \in Seq(PlanType) /\ Len(pp) = Len(pkept)
       /\ \A i \in 1 .. Len(pkept) : /\ pp[i].site = pkept[i]
                                     /\ pp[i].eligible = (pkept[i].name \notin SiteNames(sp))
                                     /\ pp[i].primary \in Range(pp[i].effective)
  BY <1>4, <1>8, PlansAre
<1>11. /\ cs \in Seq(PlanType) /\ Len(cs) = Len(sp) + Len(pp) /\ DOMAIN cs = 1 .. Len(cs)
       /\ Len(sp) \in Nat /\ Len(pp) \in Nat /\ DOMAIN sp = 1 .. Len(sp)
       /\ \A i \in 1 .. Len(sp) : cs[i] = sp[i]
       /\ \A i \in Len(sp) + 1 .. Len(cs) : cs[i] = pp[i - Len(sp)] /\ i - Len(sp) \in 1 .. Len(pp)
       /\ \A i \in DOMAIN cs : i \in 1 .. Len(sp) \/ i \in Len(sp) + 1 .. Len(cs)
  <2>1. sp \in Seq(PlanType) /\ pp \in Seq(PlanType)
    BY Zenon, <1>9, <1>10
  <2>2. /\ cs \in Seq(PlanType) /\ Len(cs) = Len(sp) + Len(pp) /\ DOMAIN cs = 1 .. Len(cs)
        /\ Len(sp) \in Nat /\ Len(pp) \in Nat /\ DOMAIN sp = 1 .. Len(sp)
        /\ \A i \in 1 .. Len(sp) : cs[i] = sp[i]
    BY <1>5, <2>1
  <2>3. ASSUME NEW i \in Len(sp) + 1 .. Len(cs)
        PROVE  cs[i] = pp[i - Len(sp)] /\ i - Len(sp) \in 1 .. Len(pp)
    BY <1>5, <2>1, <2>2
  <2> QED BY <2>2, <2>3
<1>12. ASSUME NEW i \in DOMAIN cs
       PROVE  cs[i].primary \in Exact \cap Range(cs[i].effective)
  <2>1. cs[i].primary \in Exact
    BY Zenon, <1>11, SeqIs, PlanIs
  <2>2. CASE i \in 1 .. Len(sp)
    BY Zenon, <1>9, <1>11, <2>1, <2>2
  <2>3. CASE i \in Len(sp) + 1 .. Len(cs)
    BY Zenon, <1>10, <1>11, <2>1, <2>3
  <2> QED BY Zenon, <1>11, <2>2, <2>3
<1>13. ASSUME NEW i \in 1 .. Len(sp), NEW j \in Len(sp) + 1 .. Len(cs), cs[j].eligible
       PROVE  cs[i].site.name # cs[j].site.name
  <2>1. sp[i].site.name \in SiteNames(sp)
    BY Zenon, <1>11 DEF SiteNames
  <2>2. cs[i] = sp[i] /\ cs[j] = pp[j - Len(sp)] /\ j - Len(sp) \in 1 .. Len(pkept)
    BY Zenon, <1>10, <1>11
  <2> QED BY Zenon, <1>10, <1>13, <2>1, <2>2
<1>14. ASSUME NEW i \in DOMAIN cs, NEW j \in DOMAIN cs, i # j, cs[i].eligible, cs[j].eligible
       PROVE  cs[i].site.name # cs[j].site.name
  <2>1. CASE i \in 1 .. Len(sp) /\ j \in 1 .. Len(sp)
    <3>1. cs[i].site = kept[i] /\ cs[j].site = kept[j]
      BY Zenon, <1>9, <1>11, <2>1
    <3> QED BY <1>7, <1>9, <1>14, <2>1, <3>1
  <2>2. CASE i \in Len(sp) + 1 .. Len(cs) /\ j \in Len(sp) + 1 .. Len(cs)
    <3>1. PICK k \in 1 .. Len(pkept), l \in 1 .. Len(pkept) :
             k # l /\ cs[i].site = pkept[k] /\ cs[j].site = pkept[l]
      <4>1. i - Len(sp) # j - Len(sp)
        BY <1>11, <1>14
      <4>2. /\ i - Len(sp) \in 1 .. Len(pkept) /\ j - Len(sp) \in 1 .. Len(pkept)
            /\ cs[i].site = pkept[i - Len(sp)] /\ cs[j].site = pkept[j - Len(sp)]
        BY Zenon, <1>10, <1>11, <2>2
      <4> QED BY Zenon, <4>1, <4>2
    <3> QED BY Zenon, <1>8, <3>1
  <2>3. CASE i \in 1 .. Len(sp) /\ j \in Len(sp) + 1 .. Len(cs)
    BY Zenon, <1>13, <1>14, <2>3
  <2>4. CASE j \in 1 .. Len(sp) /\ i \in Len(sp) + 1 .. Len(cs)
    BY Zenon, <1>13, <1>14, <2>4
  <2> QED BY Zenon, <1>11, <2>1, <2>2, <2>3, <2>4
<1>15. NamesApart(cs)
  BY <1>14 DEF NamesApart
<1> QED BY Zenon, <1>6, <1>11, <1>12, <1>15

\* Whatever order the directories are listed in, what is scanned are sites.
LEMMA ScannedAre ==
  ASSUME NEW c \in ConfigType, NEW dirs \in SUBSET Dirs, NEW sites \in scan_sites(c, dirs)
  PROVE  sites \in Seq(SiteType)
<1>1. PICK s \in Listings(c, dirs) :
         sites = [i \in DOMAIN s |-> build_parked_site(c, s[i])] \o LinkedSites(c)
  BY Zenon DEF scan_sites
<1>2. PICK N, visible : N = Cardinality(visible) /\ visible \in SUBSET dirs /\ s \in [1 .. N -> visible]
  BY Zenon, <1>1 DEF Listings
<1>3. N \in Nat
  <2>1. visible \in SUBSET Dirs
    BY Zenon, <1>2
  <2> QED BY <1>2, <2>1, SiteConfigAssumption
<1>4. [i \in DOMAIN s |-> build_parked_site(c, s[i])] \in Seq(SiteType)
  <2>1. ASSUME NEW i \in 1 .. N PROVE build_parked_site(c, s[i]) \in SiteType
    <3>1. s[i] \in Dirs /\ DirName[s[i]] \in Names
      BY Zenon, <1>2, SiteConfigAssumption
    <3> QED BY Zenon, <3>1 DEF build_parked_site, SiteType
  <2>2. [i \in DOMAIN s |-> build_parked_site(c, s[i])] \in [1 .. N -> SiteType]
    BY Zenon, <1>2, <2>1
  <2> QED BY Zenon, <1>3, <2>2, IsSeq
<1>5. LinkedSites(c) \in Seq(SiteType)
  <2>1. /\ DOMAIN c.linked = 1 .. Len(c.linked) /\ Len(c.linked) \in Nat
        /\ \A i \in 1 .. Len(c.linked) : c.linked[i] \in LinkedType
    BY ConfigIs, SeqIs
  <2>2. LinkedSites(c) \in [1 .. Len(c.linked) -> SiteType]
    BY Zenon, <2>1 DEF LinkedSites, SiteType, LinkedType
  <2> QED BY Zenon, <2>1, <2>2, IsSeq
<1> QED BY <1>1, <1>4, <1>5

\* Every router a build may give is well formed.
LEMMA RoutersAre ==
  ASSUME NEW c \in ConfigType, NEW dirs \in SUBSET Dirs, NEW r \in build_router(c, dirs)
  PROVE  r \in RouterType
<1>1. PICK sites \in scan_sites(c, dirs) : r = Route(c, claimants(c, sites))
  BY Zenon DEF build_router, build
<1>2. sites \in Seq(SiteType)
  BY Zenon, <1>1, ScannedAre
<1>3. PICK cs : cs = claimants(c, sites)
  BY Zenon
<1>4. cs \in Seq(PlanType) /\ NamesApart(cs)
  BY Zenon, <1>2, <1>3, ClaimantsAre
<1> QED BY <1>1, <1>3, <1>4, RouteIs DEF RightRouter

\* The owner of a domain in the router is the name its rightful owner goes by.
LEMMA OwnerServes ==
  ASSUME NEW c \in ConfigType, NEW cs \in Seq(PlanType), NamesApart(cs), NEW d \in Domains
  PROVE  Route(c, cs).owner[d] = Served(cs, d)
<1>1. RightRouter(cs, build_claims(cs), Len(cs), Route(c, cs))
  BY Zenon, RouteIs
<1>2. PICK k : k = build_claims(cs)[d]
  BY Zenon
<1>3. /\ k = RightfulOwner(cs, d)
      /\ k = 0 \/ k \in 1 .. Len(cs)
  <2>1. /\ build_claims(cs) = [e \in Domains |-> RightfulOwner(cs, e)]
        /\ \A e \in Domains : build_claims(cs)[e] = 0 \/ build_claims(cs)[e] \in Wants(cs, e, Len(cs))
    BY Zenon, ClaimsAreOwners
  <2> QED BY Zenon, <1>2, <2>1 DEF Wants
<1>4. Route(c, cs).owner[d] = IF k \in 1 .. Len(cs) THEN cs[k].site.name ELSE NoDomain
  BY Zenon, <1>1, <1>2 DEF RightRouter
<1>5. d # NoDomain
  BY Zenon, WildcardOfAssumption
<1>6. Len(cs) \in Nat
  OBVIOUS
<1> QED BY <1>3, <1>4, <1>5, <1>6 DEF Served

\* What the router of a well-formed configuration does for its claimants.
LEMMA RoutesRight ==
  /\ memory \in ConfigType /\ present \in SUBSET Dirs => ClaimsFollowTheRules
  /\ memory \in ConfigType /\ present \in SUBSET Dirs => NothingDropped
  /\ memory \in ConfigType /\ present \in SUBSET Dirs => PrimaryIsRouted
  /\ memory \in ConfigType /\ present \in SUBSET Dirs => LossesReported
\* The claimants of the configuration in memory.
<1>ClaimantsHere.
    ASSUME memory \in ConfigType, present \in SUBSET Dirs, NEW cs \in Claimants
    PROVE  /\ cs \in Seq(PlanType) /\ NamesApart(cs)
           /\ \A i \in DOMAIN cs : cs[i].primary \in Exact \cap Range(cs[i].effective)
  <2> USE <1>ClaimantsHere
  <2>1. PICK sites \in scan_sites(memory, present) : cs = claimants(memory, sites)
    BY Zenon DEF Claimants
  <2>2. sites \in Seq(SiteType)
    BY Zenon, <2>1, ScannedAre
  <2> QED BY Zenon, <2>1, <2>2, ClaimantsAre
\* build_claims computes the rightful owner of every domain.
<1>RulesFollowed.
    memory \in ConfigType /\ present \in SUBSET Dirs => ClaimsFollowTheRules
  <2> QED
    BY Zenon, <1>ClaimantsHere, ClaimsAreOwners DEF ClaimsFollowTheRules
\* Every eligible claimant is registered and every host resolves to whoever won it.
<1>NobodyDropped.
    memory \in ConfigType /\ present \in SUBSET Dirs => NothingDropped
  <2> SUFFICES ASSUME memory \in ConfigType, present \in SUBSET Dirs, NEW cs \in Claimants,
                      NEW r, r = Route(memory, cs)
               PROVE  /\ r.sites = {cs[i].site : i \in {j \in DOMAIN cs : cs[j].eligible}}
                      /\ \A h \in Exact : resolve_route(r, h) =
                           IF Served(cs, h) # NoDomain THEN Served(cs, h) ELSE Served(cs, WildcardOf[h])
    BY Zenon DEF NothingDropped
  <2>1. cs \in Seq(PlanType) /\ NamesApart(cs)
    BY Zenon, <1>ClaimantsHere
  <2>2. r.sites = {cs[i].site : i \in {j \in 1 .. Len(cs) : cs[j].eligible}}
    BY Zenon, <2>1, RouteIs DEF RightRouter
  <2>3. DOMAIN cs = 1 .. Len(cs)
    BY <2>1
  <2>4. ASSUME NEW h \in Exact
        PROVE  resolve_route(r, h) =
                 IF Served(cs, h) # NoDomain THEN Served(cs, h) ELSE Served(cs, WildcardOf[h])
    <3>1. r.owner[h] = Served(cs, h)
      BY Zenon, <2>1, OwnerServes DEF Domains
    <3>2. CASE WildcardOf[h] = NoDomain
      <4>1. Served(cs, WildcardOf[h]) = NoDomain
        BY Zenon, <3>2 DEF Served
      <4> QED BY Zenon, <3>1, <3>2, <4>1 DEF resolve_route
    <3>3. CASE WildcardOf[h] # NoDomain
      <4>1. WildcardOf[h] \in Domains
        BY Zenon, <3>3, WildcardOfAssumption DEF Domains
      <4>2. r.owner[WildcardOf[h]] = Served(cs, WildcardOf[h])
        BY Zenon, <2>1, <4>1, OwnerServes
      <4> QED BY Zenon, <3>1, <3>3, <4>2 DEF resolve_route
    <3> QED BY Zenon, <3>2, <3>3
  <2> QED BY Zenon, <2>2, <2>3, <2>4
\* A primary is exact and effective, and routes to its site when the site won an exact domain.
<1>PrimariesRouted.
    memory \in ConfigType /\ present \in SUBSET Dirs => PrimaryIsRouted
  <2> SUFFICES ASSUME memory \in ConfigType, present \in SUBSET Dirs, NEW cs \in Claimants,
                      NEW r, r = Route(memory, cs)
               PROVE  /\ \A i \in DOMAIN cs : cs[i].primary \in Exact \cap Range(cs[i].effective)
                      /\ \A s \in r.sites : (\E d \in Exact : r.owner[d] = s.name) =>
                           r.owner[r.primary[s.name]] = s.name
    BY Zenon DEF PrimaryIsRouted
  <2>1. /\ cs \in Seq(PlanType) /\ NamesApart(cs)
        /\ \A i \in DOMAIN cs : cs[i].primary \in Exact \cap Range(cs[i].effective)
    BY Zenon, <1>ClaimantsHere
  <2>2. PICK claims : claims = build_claims(cs)
    BY Zenon
  <2>3. ClaimsWanted(cs, claims) /\ RightRouter(cs, claims, Len(cs), r)
    BY Zenon, <2>1, <2>2, RouteIs
  <2>4. ASSUME NEW s \in r.sites, NEW d \in Exact, r.owner[d] = s.name
        PROVE  r.owner[r.primary[s.name]] = s.name
    <3>1. PICK i \in 1 .. Len(cs) : cs[i].eligible /\ s = cs[i].site
      BY Zenon, <2>3, <2>4 DEF RightRouter
    <3>2. DOMAIN cs = 1 .. Len(cs) /\ Len(cs) \in Nat /\ cs[i] \in PlanType
      BY Zenon, <2>1, SeqIs
    <3>3. s.name \in Names /\ s.name # NoDomain
      BY Zenon, <3>1, <3>2, PlanIs, WildcardOfAssumption DEF Domains, Exact
    <3>4. d \in Domains
      BY Zenon DEF Domains
    <3>5. claims[d] \in 1 .. Len(cs) /\ cs[claims[d]].site.name = s.name /\ cs[claims[d]].eligible
      BY <2>3, <2>4, <3>3, <3>4 DEF RightRouter, ClaimsWanted, Wants
    <3>6. claims[d] = i
      BY Zenon, <2>1, <3>1, <3>2, <3>5 DEF NamesApart
    <3>7. PICK won : won = Won(cs, claims, i)
      BY Zenon
    <3>8. /\ won \in Seq(Domains) /\ \A e \in Domains : e \in Range(won) <=> claims[e] = i
          /\ Range(won) \in SUBSET Domains
      BY <2>1, <2>3, <3>7, WonIs
    <3>9. HasExact(won)
      BY Zenon, <3>4, <3>6, <3>8 DEF HasExact
    <3>10. PICK p : p = r.primary[s.name]
      BY Zenon
    <3>11. p = choose_primary(s.name, won, cs[i].primary)
      BY Zenon, <2>3, <3>1, <3>7, <3>10 DEF RightRouter
    <3>12. p \in Range(won)
      BY Zenon, <3>3, <3>8, <3>9, <3>11, PrimaryIs
    <3>13. p \in Domains /\ claims[p] = i
      BY Zenon, <3>8, <3>12
    <3> QED BY Zenon, <2>3, <3>1, <3>10, <3>13 DEF RightRouter
  <2> QED BY Zenon, <2>1, <2>4
\* A claimant that lost a domain is among the losers that collisions reports.
<1>EveryLossReported.
    memory \in ConfigType /\ present \in SUBSET Dirs => LossesReported
  <2> SUFFICES ASSUME memory \in ConfigType, present \in SUBSET Dirs, NEW cs \in Claimants,
                      NEW i \in DOMAIN cs, NEW d \in Range(cs[i].effective),
                      RightfulOwner(cs, d) \notin {0, i}
               PROVE  \E x \in collisions(cs) :
                        /\ x.domain = d /\ i \in x.losers
                        /\ cs[x.winner].site.name = Route(memory, cs).owner[d]
    BY DEF LossesReported
  <2>1. cs \in Seq(PlanType) /\ NamesApart(cs)
    BY Zenon, <1>ClaimantsHere
  <2>2. /\ DOMAIN cs = 1 .. Len(cs) /\ Len(cs) \in Nat
        /\ \A j \in DOMAIN cs : cs[j] \in PlanType /\ cs[j].effective \in Seq(Domains)
    BY <2>1, SeqIs, PlanIs
  <2>3. d \in Domains
    BY Zenon, <2>2, SeqIs
  <2>4. PICK k : k = build_claims(cs)[d]
    BY Zenon
  <2>5. k = RightfulOwner(cs, d) /\ k \in Wants(cs, d, Len(cs))
    <3>1. /\ build_claims(cs) = [e \in Domains |-> RightfulOwner(cs, e)]
          /\ \A e \in Domains : build_claims(cs)[e] = 0 \/ build_claims(cs)[e] \in Wants(cs, e, Len(cs))
      BY Zenon, <2>1, ClaimsAreOwners
    <3> QED BY Zenon, <2>3, <2>4, <3>1
  <2>6. k # 0 /\ k # i /\ k \in DOMAIN cs /\ d \in Range(cs[k].effective)
    BY Zenon, <2>2, <2>5 DEF Wants
  <2>7. PICK wanted : wanted = [e \in Domains |-> {j \in DOMAIN cs : e \in Range(cs[j].effective)}]
    BY Zenon
  <2>8. i \in wanted[d] /\ k \in wanted[d] /\ wanted[d] \in SUBSET (1 .. Len(cs))
    BY Zenon, <2>2, <2>3, <2>6, <2>7
  <2>9. \E p, q \in wanted[d] : p # q
    BY Zenon, <2>6, <2>8
  <2> DEFINE x == [domain |-> d, winner |-> k, losers |-> wanted[d] \ {k}]
  <2>10. x \in collisions(cs)
    <3>1. collisions(cs) = Lost(build_claims(cs), wanted)
      BY Zenon, <2>7 DEF collisions
    <3> QED BY Zenon, <2>3, <2>4, <2>6, <2>9, <3>1 DEF Lost
  <2>11. Route(memory, cs).owner[d] = cs[k].site.name
    <3>1. Route(memory, cs).owner[d] = Served(cs, d)
      BY Zenon, <2>1, <2>3, OwnerServes
    <3>2. d # NoDomain
      BY Zenon, <2>3, WildcardOfAssumption
    <3> QED BY Zenon, <2>5, <2>6, <3>1, <3>2 DEF Served
  <2>12. x.domain = d /\ i \in x.losers /\ cs[x.winner].site.name = Route(memory, cs).owner[d]
    BY Zenon, <2>6, <2>8, <2>11
  <2> QED BY Zenon, <2>10, <2>12
<1> QED BY Zenon, <1>RulesFollowed, <1>NobodyDropped, <1>PrimariesRouted, <1>EveryLossReported

-----------------------------------------------------------------------------
(* The state is well formed. *)

\* The ports of a configuration's projects are their own.
PortsOwn(c) ==
    \A i, j \in DOMAIN c.projects : i # j => c.projects[i].port # c.projects[j].port

\* An edit puts no project on a port the daemon listens on.
NoneBound(c, new) == PortsIn(new.projects) \cap bound \in SUBSET PortsIn(c.projects)

\* What is customised for a name that no proxy and no project has does not suppress it.
ApexesFree(c) ==
    \A n \in Names : n \in NamesIn(c.proxies) \cup NamesIn(c.projects)
                      \/ n \notin c.domains.proxy[n].suppressed

\* An edit gives a well-formed configuration, takes nobody's port and none of the daemon's,
\* and leaves no name behind suppressed.
Kept(c, new) ==
    /\ new \in ConfigType
    /\ PortsOwn(c) => PortsOwn(new)
    /\ NoneBound(c, new)
    /\ ApexesFree(c) => ApexesFree(new)

\* What the domains of a name are kept under.
TargetType == [map : {"linked", "proxy"}, key : Names] \cup [map : {"parked"}, key : Dirs]

\* A LinkProject request between its two halves.
LinkType == [dir : Dirs, requested : Names \cup {NoDomain}, port : Ports \cup {0},
             existing : Names \cup {NoDomain}]

\* The inductive invariant behind TypeOK.
TypeInv ==
    /\ disk \in ConfigType /\ memory \in ConfigType /\ router \in RouterType
    /\ pending \in SUBSET [config : ConfigType, router : RouterType]
    /\ pending = {} \/ \E p : pending = {p}
    /\ up \in BOOLEAN /\ wake \in BOOLEAN /\ bound \in Bindings
    /\ present \in SUBSET Dirs
    /\ descriptor \in [Dirs -> Names \cup {NoDomain}]
    /\ linking \in [Clients -> SUBSET LinkType]

\* The default configuration and the empty router are well formed.
LEMMA DefaultIs == DefaultConfig \in ConfigType /\ EmptyRouter \in RouterType
<1>1. <<>> \in Seq(LinkedType) /\ <<>> \in Seq(ProxyType) /\ <<>> \in Seq(ProjectType)
  OBVIOUS
<1>2. /\ [linked |-> [n \in Names |-> NoDelta], parked |-> [d \in Dirs |-> NoDelta],
          proxy |-> [n \in Names |-> NoDelta]] \in DomainsType
      /\ [linked |-> [n \in Names |-> {}], parked |-> [d \in Dirs |-> {}]] \in RulesType
  BY Zenon, NoDeltaIs DEF DomainsType, RulesType
<1>3. DefaultConfig \in ConfigType
  BY Zenon, <1>1, <1>2 DEF DefaultConfig, ConfigType
<1>4. EmptyRouter \in RouterType
  BY Zenon DEF EmptyRouter, RouterType
<1> QED BY Zenon, <1>3, <1>4

\* Setting the secure flag renames nobody.
LEMMA SecuredNames ==
  ASSUME NEW T, NEW s \in Seq(T), NEW name, NEW secure, \A e \in T : [e EXCEPT !.secure = secure].name = e.name
  PROVE  /\ DOMAIN Secured(s, name, secure) = DOMAIN s
         /\ \A i \in DOMAIN s : Secured(s, name, secure)[i].name = s[i].name
         /\ NamesIn(Secured(s, name, secure)) = NamesIn(s)
<1>1. \A i \in DOMAIN s : s[i] \in T
  BY SeqIs
<1>2. /\ DOMAIN Secured(s, name, secure) = DOMAIN s
      /\ \A i \in DOMAIN s : Secured(s, name, secure)[i].name = s[i].name
  BY Zenon, <1>1 DEF Secured
<1> QED BY <1>2 DEF NamesIn

\* An entry more is a name more.
LEMMA NamesGrow ==
  ASSUME NEW T, NEW s \in Seq(T), NEW e \in T
  PROVE  NamesIn(Append(s, e)) = NamesIn(s) \cup {e.name}
<1>1. PICK u : u = Append(s, e)
  BY Zenon
<1>2. /\ u \in Seq(T) /\ Len(u) = Len(s) + 1 /\ u[Len(s) + 1] = e
      /\ \A i \in 1 .. Len(s) : u[i] = s[i]
  BY <1>1, Appended
<1>3. DOMAIN u = 1 .. Len(s) + 1 /\ DOMAIN s = 1 .. Len(s) /\ Len(s) \in Nat
  BY <1>2
<1>4. \A i \in DOMAIN s : i \in DOMAIN u /\ u[i] = s[i]
  BY <1>2, <1>3
<1>5. Len(s) + 1 \in DOMAIN u /\ \A i \in DOMAIN u : i \in DOMAIN s \/ i = Len(s) + 1
  BY <1>3
<1> QED BY <1>1, <1>2, <1>4, <1>5 DEF NamesIn

\* The sites a name may be looked up to have a document root.
LEMMA GetIs ==
  ASSUME NEW r \in RouterType, NEW name, NEW s \in get(r, name)
  PROVE  s \in SiteType /\ s.dir \in Dirs /\ s.name = name /\ s.kind \in {"linked", "parked"}
<1>1. r.sites \in SUBSET SiteType
  BY Zenon DEF RouterType
<1> QED BY Zenon, <1>1 DEF get, SiteType

\* A domain request addresses one of the three maps of customisations.
LEMMA TargetIs ==
  ASSUME NEW c, NEW r \in RouterType, NEW name \in Names, NEW t \in resolve_domain_target(c, r, name)
  PROVE  t \in TargetType /\ (t.map = "proxy" => t.key \in NamesIn(c.proxies))
<1>1. \/ t = [map |-> "linked", key |-> name]
      \/ t = [map |-> "proxy", key |-> name] /\ name \in NamesIn(c.proxies)
      \/ \E s \in get(r, name) : t = [map |-> "parked", key |-> s.dir]
  BY Zenon DEF resolve_domain_target
<1> QED BY <1>1, GetIs DEF TargetType

\* The customisation under a target is well formed, and may be replaced by another.
LEMMA WithDeltaIs ==
  ASSUME NEW c \in ConfigType, NEW t \in TargetType
  PROVE  /\ delta_mut(c, t) \in DeltaType
         /\ \A delta \in DeltaType : WithDelta(c, t, delta) \in ConfigType
         /\ (t.map = "proxy" => t.key \in NamesIn(c.proxies)) =>
              \A delta \in DeltaType : Kept(c, WithDelta(c, t, delta))
<1>1. c \in ConfigType
  BY Zenon
<1>2. \/ t.map = "linked" /\ t.key \in Names
      \/ t.map = "proxy" /\ t.key \in Names
      \/ t.map = "parked" /\ t.key \in Dirs
  BY Zenon DEF TargetType
<1>3. delta_mut(c, t) \in DeltaType
  BY Zenon, <1>1, <1>2, ConfigIs DEF delta_mut
<1>4. ASSUME NEW delta \in DeltaType
      PROVE  /\ WithDelta(c, t, delta) \in ConfigType
             /\ WithDelta(c, t, delta).projects = c.projects
             /\ WithDelta(c, t, delta).proxies = c.proxies
             /\ \A n \in Names : t # [map |-> "proxy", key |-> n] =>
                   WithDelta(c, t, delta).domains.proxy[n] = c.domains.proxy[n]
  <2>1. PICK ds : ds = [c.domains EXCEPT ![t.map][t.key] = delta]
    BY Zenon
  <2>2. ds \in DomainsType
    <3>0. c.domains \in DomainsType
      BY Zenon, <1>1, ConfigIs
    <3>1. CASE t.map = "linked" /\ t.key \in Names
      BY Zenon, <2>1, <3>0, <3>1 DEF DomainsType
    <3>2. CASE t.map = "proxy" /\ t.key \in Names
      BY Zenon, <2>1, <3>0, <3>2 DEF DomainsType
    <3>3. CASE t.map = "parked" /\ t.key \in Dirs
      BY Zenon, <2>1, <3>0, <3>3 DEF DomainsType
    <3> QED BY Zenon, <1>2, <3>1, <3>2, <3>3
  <2>3. WithDelta(c, t, delta) = [c EXCEPT !.domains = ds]
    BY Zenon, <2>1 DEF WithDelta
  <2>4. \A n \in Names : t # [map |-> "proxy", key |-> n] => ds.proxy[n] = c.domains.proxy[n]
    <3>0. c.domains \in DomainsType
      BY Zenon, <1>1, ConfigIs
    <3>1. CASE t.map = "linked" /\ t.key \in Names
      BY Zenon, <2>1, <3>0, <3>1 DEF DomainsType
    <3>2. CASE t.map = "proxy" /\ t.key \in Names
      <4>1. t = [map |-> "proxy", key |-> t.key]
        BY Zenon, <3>2 DEF TargetType
      <4>2. ds.proxy = [c.domains.proxy EXCEPT ![t.key] = delta]
        BY Zenon, <2>1, <3>0, <3>2 DEF DomainsType
      <4>3. c.domains.proxy \in [Names -> DeltaType]
        BY Zenon, <1>1, ConfigIs
      <4> QED BY Zenon, <4>1, <4>2, <4>3
    <3>3. CASE t.map = "parked" /\ t.key \in Dirs
      BY Zenon, <2>1, <3>0, <3>3 DEF DomainsType
    <3> QED BY Zenon, <1>2, <3>1, <3>2, <3>3
  <2> QED BY Zenon, <1>1, <2>2, <2>3, <2>4 DEF ConfigType
<1>5. ASSUME t.map = "proxy" => t.key \in NamesIn(c.proxies), NEW delta \in DeltaType
      PROVE  Kept(c, WithDelta(c, t, delta))
  <2>1. PICK new : new = WithDelta(c, t, delta)
    BY Zenon
  <2>2. /\ new \in ConfigType /\ new.projects = c.projects /\ new.proxies = c.proxies
        /\ \A n \in Names : t # [map |-> "proxy", key |-> n] => new.domains.proxy[n] = c.domains.proxy[n]
    BY Zenon, <1>4, <2>1
  <2>3. \A n \in Names : t = [map |-> "proxy", key |-> n] => n \in NamesIn(c.proxies)
    BY <1>5
  <2>4. ApexesFree(c) => ApexesFree(new)
    BY Zenon, <2>2, <2>3 DEF ApexesFree
  <2>5. PortsOwn(c) => PortsOwn(new)
    BY <2>2 DEF PortsOwn
  <2>6. NoneBound(c, new)
    BY Zenon, <2>2 DEF NoneBound
  <2> QED BY Zenon, <2>1, <2>2, <2>4, <2>5, <2>6 DEF Kept
<1>6. \A delta \in DeltaType : WithDelta(c, t, delta) \in ConfigType
  BY Zenon, <1>4
<1> QED BY Zenon, <1>3, <1>5, <1>6

\* Adding a domain keeps a sequence of domains.
LEMMA IncludedIs ==
  ASSUME NEW ds \in Seq(Domains), NEW d \in Domains
  PROVE  Included(ds, d) \in Seq(Domains)
BY DEF Included

\* One step keeps the state well formed and takes nobody's port.
LEMMA NextTyped ==
  ASSUME TypeInv, CommitInv, [Next]_vars
  PROVE  /\ TypeInv'
         /\ (PortsOwn(disk) => PortsOwn(disk')) /\ (ApexesFree(disk) => ApexesFree(disk'))
         /\ up => NoneBound(disk, disk')
\* Nobody goes and nothing is suppressed: what was free stays free.
<1>NobodyGone.
    ASSUME NEW c, NEW new, new.domains.proxy = c.domains.proxy,
           NamesIn(c.proxies) \in SUBSET NamesIn(new.proxies),
           NamesIn(c.projects) \in SUBSET NamesIn(new.projects)
    PROVE  ApexesFree(c) => ApexesFree(new)
  <2> USE <1>NobodyGone
  <2> QED
    BY Zenon DEF ApexesFree
\* A name goes with everything that is customised for it.
<1>NameGone.
    ASSUME NEW c \in ConfigType, NEW new, NEW name \in Names,
           new.domains.proxy = [c.domains.proxy EXCEPT ![name] = NoDelta],
           NamesIn(c.proxies) \cup NamesIn(c.projects) \in
              SUBSET (NamesIn(new.proxies) \cup NamesIn(new.projects) \cup {name})
    PROVE  ApexesFree(c) => ApexesFree(new)
  <2> USE <1>NameGone
  <2>1. c.domains.proxy \in [Names -> DeltaType]
    BY Zenon, ConfigIs
  <2>2. NoDelta.suppressed = {}
    BY Zenon DEF NoDelta
  <2> QED BY Zenon, <2>1, <2>2 DEF ApexesFree
\* An edit that leaves the proxies and the projects alone leaves their ports alone.
<1>SameProjects.
    ASSUME NEW c, NEW new \in ConfigType, new.projects = c.projects, new.proxies = c.proxies,
           new.domains.proxy = c.domains.proxy
    PROVE  Kept(c, new)
  <2> USE <1>SameProjects
  <2>1. PortsOwn(c) => PortsOwn(new)
    BY Zenon DEF PortsOwn
  <2>2. ApexesFree(c) => ApexesFree(new)
    BY Zenon DEF ApexesFree
  <2>3. NoneBound(c, new)
    BY Zenon DEF NoneBound
  <2> QED BY Zenon, <2>1, <2>2, <2>3 DEF Kept
\* So does one that touches the proxies and gives up no name of theirs.
<1>OnlyProxies.
    ASSUME NEW c, NEW new \in ConfigType, new.projects = c.projects,
           NamesIn(c.proxies) \in SUBSET NamesIn(new.proxies), new.domains.proxy = c.domains.proxy
    PROVE  Kept(c, new)
  <2> USE <1>OnlyProxies
  <2>1. PortsOwn(c) => PortsOwn(new)
    BY Zenon DEF PortsOwn
  <2>2. ApexesFree(c) => ApexesFree(new)
    BY Zenon, <1>NobodyGone
  <2>3. NoneBound(c, new)
    BY Zenon DEF NoneBound
  <2> QED BY Zenon, <2>1, <2>2, <2>3 DEF Kept
\* Removing a name leaves elements of the sequence, each at most as often as it was there.
<1>UnnamedIs.
    ASSUME NEW T, NEW s \in Seq(T), NEW name
    PROVE  /\ Unnamed(s, name) \in Seq(T)
           /\ \A i, j \in DOMAIN Unnamed(s, name) : i # j =>
                \E k, l \in DOMAIN s : k # l /\ Unnamed(s, name)[i] = s[k] /\ Unnamed(s, name)[j] = s[l]
           /\ \A i \in DOMAIN Unnamed(s, name) : \E k \in DOMAIN s : Unnamed(s, name)[i] = s[k]
           /\ NamesIn(s) \in SUBSET (NamesIn(Unnamed(s, name)) \cup {name})
  <2> USE <1>UnnamedIs
  <2>1. PICK S : S = {e \in Range(s) : e.name # name}
    BY Zenon
  <2>2. PICK u : u = OnlyIn(s, S)
    BY Zenon
  <2>3. Unnamed(s, name) = u
    BY Zenon, <2>1, <2>2 DEF Unnamed
  <2>4. /\ u \in Seq(T) /\ Range(u) = Range(s) \cap S
        /\ \A i, j \in DOMAIN u : i # j => \E k, l \in DOMAIN s : k # l /\ u[i] = s[k] /\ u[j] = s[l]
    BY <2>2, OnlyInIs
  <2>5. \A i \in DOMAIN u : \E k \in DOMAIN s : u[i] = s[k]
    <3>1. \A i \in DOMAIN u : u[i] \in Range(s)
      BY <2>4 DEF Range
    <3> QED BY Zenon, <3>1 DEF Range
  <2>6. NamesIn(s) \in SUBSET (NamesIn(u) \cup {name})
    <3>1. ASSUME NEW k \in DOMAIN s, s[k].name # name PROVE s[k].name \in NamesIn(u)
      <4>1. s[k] \in Range(u)
        BY Zenon, <2>1, <2>4, <3>1 DEF Range
      <4> QED BY Zenon, <4>1 DEF Range, NamesIn
    <3> QED BY Zenon, <3>1 DEF NamesIn
  <2> QED BY <2>3, <2>4, <2>5, <2>6
\* Setting the secure flag keeps the entries well formed.
<1>SecuredIs.
    ASSUME NEW T, NEW s \in Seq(T), NEW name, NEW secure,
           \A e \in T : [e EXCEPT !.secure = secure] \in T
    PROVE  Secured(s, name, secure) \in Seq(T)
  <2> USE <1>SecuredIs
  <2>1. DOMAIN s = 1 .. Len(s) /\ Len(s) \in Nat /\ \A i \in 1 .. Len(s) : s[i] \in T
    BY Zenon, SeqIs
  <2>2. Secured(s, name, secure) \in [1 .. Len(s) -> T]
    BY Zenon, <2>1 DEF Secured
  <2> QED BY Zenon, <2>1, <2>2, IsSeq
\* apply_park and apply_unpark.
<1>ParkKeeps.
    ASSUME NEW c \in ConfigType, NEW root \in Roots, NEW new \in apply_park(c, root) \cup apply_unpark(c, root)
    PROVE  Kept(c, new)
  <2> USE <1>ParkKeeps
  <2>1. c \in ConfigType
    BY Zenon
  <2>2. CASE new \in apply_park(c, root)
    <3>1. /\ new \in ConfigType /\ new.projects = c.projects
          /\ new.proxies = c.proxies /\ new.domains.proxy = c.domains.proxy
      BY Zenon, <2>1, <2>2 DEF apply_park, ConfigType
    <3> QED BY Zenon, <2>1, <3>1, <1>SameProjects
  <2>3. CASE new \in apply_unpark(c, root)
    <3>1. PICK dp : dp = [d \in Dirs |-> IF is_under_root(d, root) THEN NoDelta ELSE c.domains.parked[d]]
      BY Zenon
    <3>2. PICK rp : rp = [d \in Dirs |-> IF is_under_root(d, root) THEN {} ELSE c.rules.parked[d]]
      BY Zenon
    <3>3. dp \in [Dirs -> DeltaType] /\ rp \in [Dirs -> SUBSET Paths]
      BY Zenon, <2>1, <3>1, <3>2, NoDeltaIs, ConfigIs
    <3>4. new = [c EXCEPT !.parked = @ \ {root}, !.domains.parked = dp, !.rules.parked = rp]
      BY Zenon, <2>3, <3>1, <3>2 DEF apply_unpark
    <3>5. /\ new \in ConfigType /\ new.projects = c.projects
          /\ new.proxies = c.proxies /\ new.domains.proxy = c.domains.proxy
      BY Zenon, <2>1, <3>3, <3>4 DEF ConfigType, DomainsType, RulesType
    <3> QED BY Zenon, <2>1, <3>5, <1>SameProjects
  <2> QED BY Zenon, <2>2, <2>3
\* apply_link, which moves what was customised for the directory.
<1>LinkKeeps.
    ASSUME NEW c \in ConfigType, NEW name \in Names, NEW dir \in Dirs, NEW new \in apply_link(c, name, dir)
    PROVE  Kept(c, new)
  <2> USE <1>LinkKeeps
  <2>1. c \in ConfigType
    BY Zenon
  <2>2. PICK dl : dl = Promote(c.domains.parked, c.domains.linked, dir, name, NoDelta)
    BY Zenon
  <2>3. PICK rl : rl = Promote(c.rules.parked, c.rules.linked, dir, name, {})
    BY Zenon
  <2>4. PICK dp : dp = [c.domains.parked EXCEPT ![dir] = NoDelta]
    BY Zenon
  <2>5. PICK rp : rp = [c.rules.parked EXCEPT ![dir] = {}]
    BY Zenon
  <2>6. PICK li : li = Append(c.linked, [name |-> name, dir |-> dir, secure |-> FALSE])
    BY Zenon
  <2>7. dl \in [Names -> DeltaType] /\ rl \in [Names -> SUBSET Paths]
    BY Zenon, <2>1, <2>2, <2>3, ConfigIs DEF Promote
  <2>8. dp \in [Dirs -> DeltaType] /\ rp \in [Dirs -> SUBSET Paths]
    BY Zenon, <2>1, <2>4, <2>5, ConfigIs, NoDeltaIs
  <2>9. li \in Seq(LinkedType)
    <3>1. [name |-> name, dir |-> dir, secure |-> FALSE] \in LinkedType
      BY Zenon DEF LinkedType
    <3> QED BY Zenon, <2>1, <2>6, <3>1, ConfigIs, Appended
  <2>10. new = [c EXCEPT !.linked = li,
                         !.domains = [linked |-> dl, parked |-> dp, proxy |-> c.domains.proxy],
                         !.rules = [linked |-> rl, parked |-> rp]]
    BY Zenon, <2>2, <2>3, <2>4, <2>5, <2>6 DEF apply_link
  <2>11. /\ [linked |-> dl, parked |-> dp, proxy |-> c.domains.proxy] \in DomainsType
         /\ [linked |-> rl, parked |-> rp] \in RulesType
    BY Zenon, <2>1, <2>7, <2>8, ConfigIs DEF DomainsType, RulesType
  <2>12. /\ new \in ConfigType /\ new.projects = c.projects
         /\ new.proxies = c.proxies /\ new.domains.proxy = c.domains.proxy
    BY Zenon, <2>1, <2>9, <2>10, <2>11 DEF ConfigType
  <2> QED BY Zenon, <2>1, <2>12, <1>SameProjects
\* apply_unlink, of a project or of a linked site.
<1>UnlinkKeeps.
    ASSUME NEW c \in ConfigType, NEW name \in Names, NEW new \in apply_unlink(c, name)
    PROVE  Kept(c, new)
  <2> USE <1>UnlinkKeeps
  <2>1. c \in ConfigType
    BY Zenon
  <2>2. new = UnlinkProject(c, name) \/ (name \in NamesIn(c.linked) /\ new = UnlinkSite(c, name))
    BY Zenon DEF apply_unlink
  <2>3. CASE new = UnlinkProject(c, name)
    <3>1. PICK u : u = Unnamed(c.projects, name)
      BY Zenon
    <3>2. /\ u \in Seq(ProjectType)
          /\ \A i, j \in DOMAIN u : i # j =>
               \E k, l \in DOMAIN c.projects : k # l /\ u[i] = c.projects[k] /\ u[j] = c.projects[l]
          /\ \A i \in DOMAIN u : \E k \in DOMAIN c.projects : u[i] = c.projects[k]
      <4>1. PICK ps : ps = c.projects
        BY Zenon
      <4>2. ps \in Seq(ProjectType) /\ u = Unnamed(ps, name)
        BY Zenon, <2>1, <3>1, <4>1, ConfigIs
      <4>3. /\ u \in Seq(ProjectType)
            /\ \A i, j \in DOMAIN u : i # j =>
                 \E k, l \in DOMAIN ps : k # l /\ u[i] = ps[k] /\ u[j] = ps[l]
            /\ \A i \in DOMAIN u : \E k \in DOMAIN ps : u[i] = ps[k]
        BY <4>2, <1>UnnamedIs
      <4> QED BY <4>1, <4>3
    <3>3. PICK dx : dx = [c.domains.proxy EXCEPT ![name] = NoDelta]
      BY Zenon
    <3>4. dx \in [Names -> DeltaType]
      BY Zenon, <2>1, <3>3, ConfigIs, NoDeltaIs
    <3>5. new = [c EXCEPT !.projects = u, !.domains.proxy = dx]
      BY Zenon, <2>3, <3>1, <3>3 DEF UnlinkProject
    <3>6. new \in ConfigType /\ new.projects = u /\ new.proxies = c.proxies /\ new.domains.proxy = dx
      BY Zenon, <2>1, <3>2, <3>4, <3>5 DEF ConfigType, DomainsType
    <3>7. PortsOwn(c) => PortsOwn(new)
      BY <2>1, <3>2, <3>6 DEF PortsOwn
    <3>8. NamesIn(c.projects) \in SUBSET (NamesIn(u) \cup {name})
      BY Zenon, <2>1, <3>1, ConfigIs, <1>UnnamedIs
    <3>9. ApexesFree(c) => ApexesFree(new)
      BY Zenon, <2>1, <3>3, <3>6, <3>8, <1>NameGone
    <3>10. NoneBound(c, new)
      <4>1. \A i \in DOMAIN u : u[i].port \in PortsIn(c.projects)
        BY Zenon, <3>2 DEF PortsIn
      <4>2. PortsIn(u) \in SUBSET PortsIn(c.projects)
        BY Zenon, <4>1 DEF PortsIn
      <4> QED BY Zenon, <3>6, <4>2 DEF NoneBound
    <3> QED BY Zenon, <3>6, <3>7, <3>9, <3>10 DEF Kept
  <2>4. CASE name \in NamesIn(c.linked) /\ new = UnlinkSite(c, name)
    <3>0. PICK e : e = CHOOSE s \in Range(c.linked) : s.name = name
      BY Zenon
    <3>1. e \in Range(c.linked)
      BY Zenon, <2>4, <3>0 DEF NamesIn, Range
    <3>2. e.dir \in Dirs
      <4>1. e \in LinkedType
        BY Zenon, <2>1, <3>1, ConfigIs, SeqIs
      <4> QED BY Zenon, <4>1 DEF LinkedType
    <3>3. PICK dir : dir = e.dir
      BY Zenon
    <3>4. PICK rep : rep = parent_is_parked_root(c, dir)
      BY Zenon
    <3>5. PICK li : li = Unnamed(c.linked, name)
      BY Zenon
    <3>6. PICK dl : dl = [c.domains.linked EXCEPT ![name] = NoDelta]
      BY Zenon
    <3>7. PICK rl : rl = [c.rules.linked EXCEPT ![name] = {}]
      BY Zenon
    <3>8. PICK dp : dp = Demote(c.domains.linked, c.domains.parked, name, dir, NoDelta, rep)
      BY Zenon
    <3>9. PICK rp : rp = Demote(c.rules.linked, c.rules.parked, name, dir, {}, rep)
      BY Zenon
    <3>10. li \in Seq(LinkedType)
      BY Zenon, <2>1, <3>5, ConfigIs, <1>UnnamedIs
    <3>11. dl \in [Names -> DeltaType] /\ rl \in [Names -> SUBSET Paths]
      BY ZenonT(30), <2>1, <3>6, <3>7, ConfigIs, NoDeltaIs
    <3>12. dp \in [Dirs -> DeltaType] /\ rp \in [Dirs -> SUBSET Paths]
      BY <2>1, <3>2, <3>3, <3>8, <3>9, ConfigIs DEF Demote
    <3>13. new = [c EXCEPT !.linked = li, !.domains.linked = dl, !.domains.parked = dp,
                           !.rules.linked = rl, !.rules.parked = rp]
      BY <2>4, <3>0, <3>3, <3>4, <3>5, <3>6, <3>7, <3>8, <3>9 DEF UnlinkSite
    <3>14. /\ new \in ConfigType /\ new.projects = c.projects
           /\ new.proxies = c.proxies /\ new.domains.proxy = c.domains.proxy
      BY Zenon, <2>1, <3>10, <3>11, <3>12, <3>13 DEF ConfigType, DomainsType, RulesType
    <3> QED BY Zenon, <2>1, <3>14, <1>SameProjects
  <2> QED BY Zenon, <2>2, <2>3, <2>4
\* apply_set_secure, whichever of the four places the flag is kept in.
<1>SecureKeeps.
    ASSUME NEW c \in ConfigType, NEW r \in RouterType, NEW name \in Names, NEW secure \in BOOLEAN,
           NEW new \in apply_set_secure(c, r, name, secure)
    PROVE  Kept(c, new)
  <2> USE <1>SecureKeeps
  <2>1. c \in ConfigType
    BY Zenon
  <2>2. \/ new = [c EXCEPT !.linked = Secured(@, name, secure)]
        \/ new = [c EXCEPT !.proxies = Secured(@, name, secure)]
        \/ new = [c EXCEPT !.projects = Secured(@, name, secure)]
        \/ \E s \in get(r, name) : new = [c EXCEPT !.override[s.dir] = IF secure THEN "on" ELSE "off"]
    BY Zenon DEF apply_set_secure
  <2>3. CASE new = [c EXCEPT !.linked = Secured(@, name, secure)]
    <3>0. \A e \in LinkedType : [e EXCEPT !.secure = secure] \in LinkedType
      BY Zenon DEF LinkedType
    <3>1. Secured(c.linked, name, secure) \in Seq(LinkedType)
      BY Zenon, <2>1, <3>0, ConfigIs, <1>SecuredIs
    <3>2. /\ new \in ConfigType /\ new.projects = c.projects
          /\ new.proxies = c.proxies /\ new.domains.proxy = c.domains.proxy
      BY Zenon, <2>1, <2>3, <3>1 DEF ConfigType
    <3> QED BY <2>1, <3>2, <1>SameProjects
  <2>4. CASE new = [c EXCEPT !.proxies = Secured(@, name, secure)]
    <3>0. \A e \in ProxyType : [e EXCEPT !.secure = secure] \in ProxyType
      BY Zenon DEF ProxyType
    <3>1. Secured(c.proxies, name, secure) \in Seq(ProxyType)
      BY Zenon, <2>1, <3>0, ConfigIs, <1>SecuredIs
    <3>2. /\ new \in ConfigType /\ new.projects = c.projects /\ new.domains.proxy = c.domains.proxy
          /\ new.proxies = Secured(c.proxies, name, secure)
      BY Zenon, <2>1, <2>4, <3>1 DEF ConfigType
    <3>3. NamesIn(new.proxies) = NamesIn(c.proxies)
      <4>1. \A e \in ProxyType : [e EXCEPT !.secure = secure].name = e.name
        BY Zenon DEF ProxyType
      <4>2. c.proxies \in Seq(ProxyType)
        BY Zenon, <2>1, ConfigIs
      <4> QED BY <3>2, <4>1, <4>2, SecuredNames
    <3> QED BY Zenon, <2>1, <3>2, <3>3, <1>OnlyProxies
  <2>5. CASE new = [c EXCEPT !.projects = Secured(@, name, secure)]
    <3>0. \A e \in ProjectType : [e EXCEPT !.secure = secure] \in ProjectType
      BY Zenon DEF ProjectType
    <3>1. Secured(c.projects, name, secure) \in Seq(ProjectType)
      BY Zenon, <2>1, <3>0, ConfigIs, <1>SecuredIs
    <3>2. /\ new \in ConfigType /\ new.projects = Secured(c.projects, name, secure)
          /\ new.proxies = c.proxies /\ new.domains.proxy = c.domains.proxy
      BY Zenon, <2>1, <2>5, <3>1 DEF ConfigType
    <3>3. /\ DOMAIN new.projects = DOMAIN c.projects
          /\ \A i \in DOMAIN c.projects : new.projects[i].port = c.projects[i].port
      <4>1. \A i \in DOMAIN c.projects : c.projects[i] \in ProjectType
        BY Zenon, <2>1, ConfigIs, SeqIs
      <4> QED BY <3>2, <4>1 DEF Secured, ProjectType
    <3>4. PortsOwn(c) => PortsOwn(new)
      BY Zenon, <2>1, <3>3 DEF PortsOwn
    <3>5. NamesIn(new.projects) = NamesIn(c.projects)
      <4>1. \A e \in ProjectType : [e EXCEPT !.secure = secure].name = e.name
        BY Zenon DEF ProjectType
      <4>2. c.projects \in Seq(ProjectType)
        BY Zenon, <2>1, ConfigIs
      <4> QED BY <3>2, <4>1, <4>2, SecuredNames
    <3>6. ApexesFree(c) => ApexesFree(new)
      BY Zenon, <3>2, <3>5, <1>NobodyGone
    <3>7. NoneBound(c, new)
      BY Zenon, <3>3 DEF NoneBound, PortsIn
    <3> QED BY Zenon, <3>2, <3>4, <3>6, <3>7 DEF Kept
  <2>6. ASSUME NEW s \in get(r, name),
               new = [c EXCEPT !.override[s.dir] = IF secure THEN "on" ELSE "off"]
        PROVE  Kept(c, new)
    <3>1. s.dir \in Dirs
      BY Zenon, GetIs
    <3>2. /\ new \in ConfigType /\ new.projects = c.projects
          /\ new.proxies = c.proxies /\ new.domains.proxy = c.domains.proxy
      BY Zenon, <2>1, <2>6, <3>1 DEF ConfigType
    <3> QED BY Zenon, <2>1, <3>2, <1>SameProjects
  <2> QED BY Zenon, <2>2, <2>3, <2>4, <2>5, <2>6
\* apply_add_proxy and apply_remove_proxy.
<1>ProxyKeeps.
    ASSUME NEW c \in ConfigType, NEW r \in RouterType, NEW name \in Names,
           NEW new \in apply_add_proxy(c, r, name) \cup apply_remove_proxy(c, name)
    PROVE  Kept(c, new)
  <2> USE <1>ProxyKeeps
  <2>1. c \in ConfigType
    BY Zenon
  <2>2. CASE new \in apply_add_proxy(c, r, name)
    <3>1. [name |-> name, secure |-> FALSE] \in ProxyType
      BY Zenon DEF ProxyType
    <3>2. Append(c.proxies, [name |-> name, secure |-> FALSE]) \in Seq(ProxyType)
      BY Zenon, <2>1, <3>1, ConfigIs, Appended
    <3>3. new = [c EXCEPT !.proxies = Append(@, [name |-> name, secure |-> FALSE])]
      BY Zenon, <2>2 DEF apply_add_proxy
    <3>4. /\ new \in ConfigType /\ new.projects = c.projects /\ new.domains.proxy = c.domains.proxy
          /\ new.proxies = Append(c.proxies, [name |-> name, secure |-> FALSE])
      BY ZenonT(30), <2>1, <3>2, <3>3 DEF ConfigType
    <3>5. NamesIn(c.proxies) \in SUBSET NamesIn(new.proxies)
      BY <2>1, <3>1, <3>4, ConfigIs, NamesGrow
    <3> QED BY Zenon, <2>1, <3>4, <3>5, <1>OnlyProxies
  <2>3. CASE new \in apply_remove_proxy(c, name)
    <3>1. PICK u : u = Unnamed(c.proxies, name)
      BY Zenon
    <3>2. u \in Seq(ProxyType)
      BY Zenon, <2>1, <3>1, ConfigIs, <1>UnnamedIs
    <3>3. PICK dx : dx = [c.domains.proxy EXCEPT ![name] = NoDelta]
      BY Zenon
    <3>4. dx \in [Names -> DeltaType]
      BY Zenon, <2>1, <3>3, ConfigIs, NoDeltaIs
    <3>5. new = [c EXCEPT !.proxies = u, !.domains.proxy = dx]
      BY Zenon, <2>3, <3>1, <3>3 DEF apply_remove_proxy
    <3>6. new \in ConfigType /\ new.projects = c.projects /\ new.proxies = u /\ new.domains.proxy = dx
      BY Zenon, <2>1, <3>2, <3>4, <3>5 DEF ConfigType, DomainsType
    <3>7. NamesIn(c.proxies) \in SUBSET (NamesIn(u) \cup {name})
      BY Zenon, <2>1, <3>1, ConfigIs, <1>UnnamedIs
    <3>8. ApexesFree(c) => ApexesFree(new)
      BY Zenon, <2>1, <3>3, <3>6, <3>7, <1>NameGone
    <3>9. PortsOwn(c) => PortsOwn(new)
      BY Zenon, <3>6 DEF PortsOwn
    <3>10. NoneBound(c, new)
      BY Zenon, <3>6 DEF NoneBound
    <3> QED BY Zenon, <3>6, <3>8, <3>9, <3>10 DEF Kept
  <2> QED BY Zenon, <2>2, <2>3
\* The edits of path rules.
<1>RuleKeeps.
    ASSUME NEW c \in ConfigType, NEW r \in RouterType, NEW name \in Names, NEW path \in Paths,
           NEW new \in apply_add_rule(c, r, name, path) \cup apply_remove_rule(c, r, name, path)
    PROVE  Kept(c, new)
  <2> USE <1>RuleKeeps
  <2>1. c \in ConfigType
    BY Zenon
  <2>2. PICK s \in get(r, name) :
           \/ new = [c EXCEPT !.rules.linked[name] = @ \cup {path}]
           \/ new = [c EXCEPT !.rules.parked[s.dir] = @ \cup {path}]
           \/ new = [c EXCEPT !.rules.linked[name] = @ \ {path}]
           \/ new = [c EXCEPT !.rules.parked[s.dir] = @ \ {path}]
    BY Zenon DEF apply_add_rule, apply_remove_rule
  <2>3. s.dir \in Dirs
    BY Zenon, GetIs
  <2>4. PICK x : \/ x \in [Names -> SUBSET Paths] /\ new = [c EXCEPT !.rules.linked = x]
                 \/ x \in [Dirs -> SUBSET Paths] /\ new = [c EXCEPT !.rules.parked = x]
    <3>1. c.rules.linked \in [Names -> SUBSET Paths] /\ c.rules.parked \in [Dirs -> SUBSET Paths]
      BY Zenon, <2>1, ConfigIs
    <3>2. CASE new = [c EXCEPT !.rules.linked[name] = @ \cup {path}]
      <4> DEFINE x == [c.rules.linked EXCEPT ![name] = @ \cup {path}]
      <4>1. x \in [Names -> SUBSET Paths] /\ new = [c EXCEPT !.rules.linked = x]
        BY Zenon, <3>1, <3>2
      <4> QED BY Zenon, <4>1
    <3>3. CASE new = [c EXCEPT !.rules.parked[s.dir] = @ \cup {path}]
      <4> DEFINE x == [c.rules.parked EXCEPT ![s.dir] = @ \cup {path}]
      <4>1. x \in [Dirs -> SUBSET Paths] /\ new = [c EXCEPT !.rules.parked = x]
        BY Zenon, <2>3, <3>1, <3>3
      <4> QED BY Zenon, <4>1
    <3>4. CASE new = [c EXCEPT !.rules.linked[name] = @ \ {path}]
      <4> DEFINE x == [c.rules.linked EXCEPT ![name] = @ \ {path}]
      <4>1. x \in [Names -> SUBSET Paths] /\ new = [c EXCEPT !.rules.linked = x]
        BY Zenon, <3>1, <3>4
      <4> QED BY Zenon, <4>1
    <3>5. CASE new = [c EXCEPT !.rules.parked[s.dir] = @ \ {path}]
      <4> DEFINE x == [c.rules.parked EXCEPT ![s.dir] = @ \ {path}]
      <4>1. x \in [Dirs -> SUBSET Paths] /\ new = [c EXCEPT !.rules.parked = x]
        BY Zenon, <2>3, <3>1, <3>5
      <4> QED BY Zenon, <4>1
    <3> QED BY Zenon, <2>2, <3>2, <3>3, <3>4, <3>5
  <2>5. CASE x \in [Names -> SUBSET Paths] /\ new = [c EXCEPT !.rules.linked = x]
    <3>1. /\ new \in ConfigType /\ new.projects = c.projects
          /\ new.proxies = c.proxies /\ new.domains.proxy = c.domains.proxy
      BY Zenon, <2>1, <2>5 DEF ConfigType, RulesType
    <3> QED BY Zenon, <3>1, <1>SameProjects
  <2>6. CASE x \in [Dirs -> SUBSET Paths] /\ new = [c EXCEPT !.rules.parked = x]
    <3>1. /\ new \in ConfigType /\ new.projects = c.projects
          /\ new.proxies = c.proxies /\ new.domains.proxy = c.domains.proxy
      BY Zenon, <2>1, <2>6 DEF ConfigType, RulesType
    <3> QED BY Zenon, <3>1, <1>SameProjects
  <2> QED BY Zenon, <2>4, <2>5, <2>6
\* The four edits of domains.
<1>DomainEditsKeep.
    ASSUME NEW c \in ConfigType, NEW r \in RouterType, NEW name \in Names, NEW dom \in Domains,
           NEW new \in apply_add_domain(c, r, name, dom) \cup apply_remove_domain(c, r, name, dom)
                         \cup apply_set_primary_domain(c, r, name, dom)
                         \cup apply_reset_domains(c, r, name)
    PROVE  Kept(c, new)
  <2> USE <1>DomainEditsKeep
  <2>1. ASSUME NEW t \in resolve_domain_target(c, r, name), NEW delta \in DeltaType,
               new = WithDelta(c, t, delta)
        PROVE  Kept(c, new)
    BY Zenon, <2>1, TargetIs, WithDeltaIs
  <2>2. ASSUME NEW t \in resolve_domain_target(c, r, name)
        PROVE  /\ delta_mut(c, t) \in DeltaType
               /\ delta_mut(c, t).added \in Seq(Domains)
               /\ delta_mut(c, t).suppressed \in SUBSET Domains
               /\ delta_mut(c, t).primary \in Domains \cup {NoDomain}
    <3>1. delta_mut(c, t) \in DeltaType
      BY Zenon, TargetIs, WithDeltaIs
    <3> QED BY Zenon, <3>1 DEF DeltaType
  <2>3. name \in Domains
    BY Zenon DEF Domains, Exact
  <2>4. CASE new \in apply_add_domain(c, r, name, dom)
    <3>1. PICK t \in resolve_domain_target(c, r, name) :
             new = WithDelta(c, t, IF dom = name
                                   THEN [delta_mut(c, t) EXCEPT !.suppressed = @ \ {name}]
                                   ELSE [delta_mut(c, t) EXCEPT !.added = Included(@, dom)])
      BY Zenon, <2>4 DEF apply_add_domain
    <3>2. Included(delta_mut(c, t).added, dom) \in Seq(Domains)
      BY Zenon, <2>2, IncludedIs
    <3>3. /\ [delta_mut(c, t) EXCEPT !.suppressed = @ \ {name}] \in DeltaType
          /\ [delta_mut(c, t) EXCEPT !.added = Included(@, dom)] \in DeltaType
      BY Zenon, <2>2, <3>2 DEF DeltaType
    <3> QED BY Zenon, <2>1, <3>1, <3>3
  <2>5. CASE new \in apply_set_primary_domain(c, r, name, dom)
    <3>1. PICK t \in resolve_domain_target(c, r, name) :
             new = WithDelta(c, t, IF dom = name
                       THEN [delta_mut(c, t) EXCEPT !.suppressed = @ \ {name}, !.primary = NoDomain]
                       ELSE [delta_mut(c, t) EXCEPT !.added = Included(@, dom), !.primary = dom])
      BY Zenon, <2>5 DEF apply_set_primary_domain
    <3>2. Included(delta_mut(c, t).added, dom) \in Seq(Domains)
      BY Zenon, <2>2, IncludedIs
    <3>3. /\ [delta_mut(c, t) EXCEPT !.suppressed = @ \ {name}, !.primary = NoDomain] \in DeltaType
          /\ [delta_mut(c, t) EXCEPT !.added = Included(@, dom), !.primary = dom] \in DeltaType
      BY Zenon, <2>2, <3>2 DEF DeltaType
    <3> QED BY Zenon, <2>1, <3>1, <3>3
  <2>6. CASE new \in apply_remove_domain(c, r, name, dom)
    <3>1. PICK t \in resolve_domain_target(c, r, name) :
             new = WithDelta(c, t,
                     [added |-> OnlyIn(delta_mut(c, t).added, Domains \ {dom}),
                      suppressed |-> IF dom \in Range(delta_mut(c, t).added) THEN delta_mut(c, t).suppressed
                                     ELSE delta_mut(c, t).suppressed \cup {name},
                      primary |-> IF delta_mut(c, t).primary = dom THEN NoDomain
                                  ELSE delta_mut(c, t).primary])
      BY Zenon, <2>6 DEF apply_remove_domain
    <3>2. OnlyIn(delta_mut(c, t).added, Domains \ {dom}) \in Seq(Domains)
      BY Zenon, <2>2, OnlyInIs
    <3>3. [added |-> OnlyIn(delta_mut(c, t).added, Domains \ {dom}),
           suppressed |-> IF dom \in Range(delta_mut(c, t).added) THEN delta_mut(c, t).suppressed
                          ELSE delta_mut(c, t).suppressed \cup {name},
           primary |-> IF delta_mut(c, t).primary = dom THEN NoDomain
                       ELSE delta_mut(c, t).primary] \in DeltaType
      BY Zenon, <2>2, <2>3, <3>2 DEF DeltaType
    <3> QED BY Zenon, <2>1, <3>1, <3>3
  <2>7. CASE new \in apply_reset_domains(c, r, name)
    <3>1. PICK t \in resolve_domain_target(c, r, name) : new = WithDelta(c, t, NoDelta)
      BY Zenon, <2>7 DEF apply_reset_domains
    <3> QED BY Zenon, <2>1, <3>1, NoDeltaIs
  <2> QED BY Zenon, <2>4, <2>5, <2>6, <2>7
\* A project that is registered has a port nobody else has.
<1>PlanLinkKeeps.
    ASSUME NEW c \in ConfigType, NEW q \in LinkType, NEW busy, NEW project \in plan_link(c, q, busy),
           ~project_loop_refusal(project)
    PROVE  project \in ProjectType /\ Kept(c, [c EXCEPT !.projects = Append(@, project)])
  <2> USE <1>PlanLinkKeeps
  <2>1. c \in ConfigType
    BY Zenon
  <2>2. PICK name : name = derive_name(q.dir, q.requested, q.existing)
    BY Zenon
  <2>3. q.dir \in Dirs /\ name \in Names
    BY Zenon, <2>2, SiteConfigAssumption DEF LinkType, derive_name
  <2>4. PICK p : /\ p \in IF q.port # 0 THEN {q.port} \ PortsIn(c.projects)
                          ELSE allocate_port(PortsIn(c.projects), busy)
                 /\ project = [name |-> name, dir |-> q.dir, port |-> p, secure |-> FALSE]
    BY Zenon, <2>2 DEF plan_link
  <2>5. p \in Nat /\ p \notin PortsIn(c.projects)
    <3>1. q.port \in Ports \cup {0} /\ Ports \in SUBSET Nat
      BY Zenon, SiteConfigAssumption DEF LinkType
    <3> QED BY Zenon, <2>4, <3>1 DEF allocate_port
  <2>6. project \in ProjectType /\ project.port = p
    BY Zenon, <2>3, <2>4, <2>5 DEF ProjectType
  <2>7. PICK ps : ps = c.projects
    BY Zenon
  <2>8. ps \in Seq(ProjectType)
    BY Zenon, <2>1, <2>7, ConfigIs
  <2>9. PICK qs : qs = Append(ps, project)
    BY Zenon
  <2>10. /\ qs \in Seq(ProjectType) /\ Len(qs) = Len(ps) + 1 /\ qs[Len(ps) + 1] = project
         /\ \A i \in 1 .. Len(ps) : qs[i] = ps[i]
    BY <2>6, <2>8, <2>9, Appended
  <2>11. DOMAIN qs = 1 .. Len(ps) + 1 /\ DOMAIN ps = 1 .. Len(ps) /\ Len(ps) \in Nat
    BY <2>8, <2>10
  <2>12. PICK new : new = [c EXCEPT !.projects = Append(@, project)]
    BY Zenon
  <2>13. /\ new \in ConfigType /\ new.projects = qs
         /\ new.proxies = c.proxies /\ new.domains.proxy = c.domains.proxy
    BY Zenon, <2>1, <2>7, <2>9, <2>10, <2>12 DEF ConfigType
  <2>14. \A i \in DOMAIN ps : ps[i].port # p
    BY Zenon, <2>5, <2>7 DEF PortsIn
  <2>15. p \notin bound
    BY Zenon, <2>6 DEF project_loop_refusal
  <2>16. ASSUME PortsOwn(c) PROVE PortsOwn(new)
    <3>1. \A i, j \in DOMAIN ps : i # j => ps[i].port # ps[j].port
      BY Zenon, <2>7, <2>16 DEF PortsOwn
    <3>3. ASSUME NEW i \in DOMAIN qs, NEW j \in DOMAIN qs, i # j PROVE qs[i].port # qs[j].port
      <4>1. (i \in DOMAIN ps \/ i = Len(ps) + 1) /\ (j \in DOMAIN ps \/ j = Len(ps) + 1)
        BY <2>11
      <4> QED BY <2>6, <2>10, <2>11, <2>14, <3>1, <3>3, <4>1
    <3> QED BY Zenon, <2>13, <3>3 DEF PortsOwn
  <2>17. NamesIn(c.projects) \in SUBSET NamesIn(new.projects)
    BY <2>6, <2>7, <2>8, <2>9, <2>13, NamesGrow
  <2>18. ApexesFree(c) => ApexesFree(new)
    BY Zenon, <2>13, <2>17, <1>NobodyGone
  <2>19. NoneBound(c, new)
    <3>1. ASSUME NEW i \in DOMAIN qs, qs[i].port \in bound PROVE qs[i].port \in PortsIn(ps)
      <4>1. i \in DOMAIN ps
        BY <2>6, <2>10, <2>11, <2>15, <3>1
      <4>2. qs[i] = ps[i]
        BY <2>10, <2>11, <4>1
      <4> QED BY Zenon, <4>1, <4>2 DEF PortsIn
    <3>2. PortsIn(qs) \cap bound \in SUBSET PortsIn(ps)
      BY Zenon, <3>1 DEF PortsIn
    <3> QED BY Zenon, <2>7, <2>13, <3>2 DEF NoneBound
  <2> QED BY Zenon, <2>6, <2>12, <2>13, <2>16, <2>18, <2>19 DEF Kept
\* A commit of an edit of the configuration in memory.
<1>CommitTyped.
    ASSUME TypeInv, CommitInv, up, pending = {}, NEW new, Kept(memory, new), commit_config(new),
           UNCHANGED <<up, bound, wake, present>>,
           descriptor' \in [Dirs -> Names \cup {NoDomain}], linking' \in [Clients -> SUBSET LinkType]
    PROVE  /\ TypeInv'
           /\ (PortsOwn(disk) => PortsOwn(disk')) /\ (ApexesFree(disk) => ApexesFree(disk'))
           /\ up => NoneBound(disk, disk')
  <2> USE <1>CommitTyped
  <2>1. /\ new \in ConfigType /\ disk = memory /\ disk' = new
        /\ PortsOwn(memory) => PortsOwn(new)
        /\ ApexesFree(memory) => ApexesFree(new)
        /\ NoneBound(memory, new)
    BY Zenon DEF Kept, CommitInv, commit_config
  <2>2. PICK r \in build_router(new, present) : pending' = {[config |-> new, router |-> r]}
    BY Zenon DEF commit_config
  <2>3. r \in RouterType
    BY Zenon, <2>1, <2>2, RoutersAre DEF TypeInv
  <2>4. pending' \in SUBSET [config : ConfigType, router : RouterType] /\ \E p : pending' = {p}
    <3>1. [config |-> new, router |-> r] \in [config : ConfigType, router : RouterType]
      BY Zenon, <2>1, <2>3
    <3> QED BY Zenon, <2>2, <3>1
  <2>5. TypeInv'
    BY Zenon, <2>1, <2>4 DEF TypeInv, commit_config
  <2>6. NoneBound(disk, disk')
    <3>1. NoneBound(disk, new)
      BY Zenon, <2>1 DEF NoneBound
    <3> QED BY Zenon, <2>1, <3>1 DEF NoneBound
  <2> QED BY Zenon, <2>1, <2>5, <2>6
\* Every mutation is an edit that goes through the commit.
<1>MutationTyped.
    ASSUME TypeInv, CommitInv, NEW edits, \A new \in edits : Kept(memory, new), handle_mutation(edits)
    PROVE  /\ TypeInv'
           /\ (PortsOwn(disk) => PortsOwn(disk')) /\ (ApexesFree(disk) => ApexesFree(disk'))
           /\ up => NoneBound(disk, disk')
  <2> USE <1>MutationTyped
  <2>1. PICK new \in edits : commit_config(new)
    BY Zenon DEF handle_mutation
  <2>2. /\ up /\ pending = {} /\ UNCHANGED <<up, bound, wake, present>>
        /\ descriptor' \in [Dirs -> Names \cup {NoDomain}] /\ linking' \in [Clients -> SUBSET LinkType]
    BY Zenon DEF handle_mutation, Locked, TypeInv
  <2> QED BY Zenon, <2>1, <2>2, <1>CommitTyped
<1> DEFINE Goal == /\ TypeInv'
                   /\ (PortsOwn(disk) => PortsOwn(disk')) /\ (ApexesFree(disk) => ApexesFree(disk'))
                   /\ up => NoneBound(disk, disk')
<1>0. memory \in ConfigType /\ router \in RouterType
  BY Zenon DEF TypeInv
\* A step that leaves the file alone takes no port and frees no name.
<1>SameFile.
    ASSUME disk' = disk, TypeInv' PROVE Goal
  <2> USE <1>SameFile
  <2>1. PortsOwn(disk) => PortsOwn(disk')
    BY Zenon
  <2>2. ApexesFree(disk) => ApexesFree(disk')
    BY Zenon
  <2>3. NoneBound(disk, disk')
    BY Zenon DEF NoneBound
  <2> QED BY Zenon, <2>1, <2>2, <2>3 DEF Goal
<1>Edited. ASSUME NEW edits, handle_mutation(edits), \A new \in edits : Kept(memory, new) PROVE Goal
  BY Zenon, <1>Edited, <1>MutationTyped
<1> HIDE DEF Goal
<1>1. ASSUME Start PROVE Goal
  <2>1. router' \in RouterType
    BY Zenon, <1>1, RoutersAre DEF Start, TypeInv
  <2>2. TypeInv' /\ disk' = disk
    BY Zenon, <1>1, <2>1 DEF Start, BindWebPorts, TypeInv
  <2> QED BY Zenon, <2>2, <1>SameFile
<1>2. ASSUME Publish PROVE Goal
  <2>1. PICK p \in pending : memory' = p.config /\ router' = p.router
    BY Zenon, <1>2 DEF Publish
  <2>2. p.config \in ConfigType /\ p.router \in RouterType
    BY Zenon, <2>1 DEF TypeInv
  <2>3. TypeInv' /\ disk' = disk
    BY Zenon, <1>2, <2>1, <2>2 DEF Publish, TypeInv
  <2> QED BY Zenon, <2>3, <1>SameFile
<1>3. ASSUME Recompute PROVE Goal
  <2>1. router' \in RouterType
    BY Zenon, <1>3, RoutersAre DEF Recompute, TypeInv
  <2>2. TypeInv' /\ disk' = disk
    BY Zenon, <1>3, <2>1 DEF Recompute, TypeInv
  <2> QED BY Zenon, <2>2, <1>SameFile
<1>4. ASSUME Crash PROVE Goal
  <2>1. TypeInv' /\ disk' = disk
    BY Zenon, <1>4, DefaultIs, SiteConfigAssumption DEF Crash, TypeInv
  <2> QED BY Zenon, <2>1, <1>SameFile
<1>6. ASSUME NEW root \in Roots, Park(root) \/ Unpark(root) PROVE Goal
  <2>1. \A new \in apply_park(memory, root) \cup apply_unpark(memory, root) : Kept(memory, new)
    BY Zenon, <1>0, <1>ParkKeeps
  <2> QED BY Zenon, <1>Edited, <1>6, <2>1 DEF Park, Unpark
<1>7. ASSUME NEW name \in Names, NEW dir \in Dirs, Link(name, dir) PROVE Goal
  <2>1. \A new \in apply_link(memory, name, dir) : Kept(memory, new)
    BY Zenon, <1>0, <1>LinkKeeps
  <2> QED BY Zenon, <1>Edited, <1>7, <2>1 DEF Link
<1>8. ASSUME NEW name \in Names, Unlink(name) PROVE Goal
  <2>1. \A new \in apply_unlink(memory, name) : Kept(memory, new)
    BY Zenon, <1>0, <1>UnlinkKeeps
  <2> QED BY Zenon, <1>Edited, <1>8, <2>1 DEF Unlink
<1>9. ASSUME NEW name \in Names, AddProxy(name) \/ RemoveProxy(name) PROVE Goal
  <2>1. \A new \in apply_add_proxy(memory, router, name) \cup apply_remove_proxy(memory, name) :
           Kept(memory, new)
    BY Zenon, <1>0, <1>ProxyKeeps
  <2> QED BY Zenon, <1>Edited, <1>9, <2>1 DEF AddProxy, RemoveProxy
<1>10. ASSUME NEW name \in Names, ResetDomains(name) PROVE Goal
  <2>1. \A new \in apply_reset_domains(memory, router, name) : Kept(memory, new)
    <3>1. name \in Domains
      BY Zenon DEF Domains, Exact
    <3> QED BY Zenon, <1>0, <3>1, <1>DomainEditsKeep
  <2> QED BY Zenon, <1>Edited, <1>10, <2>1 DEF ResetDomains
<1>11. ASSUME NEW name \in Names, NEW secure \in BOOLEAN, SetSecure(name, secure) PROVE Goal
  <2>1. \A new \in apply_set_secure(memory, router, name, secure) : Kept(memory, new)
    BY Zenon, <1>0, <1>SecureKeeps
  <2> QED BY Zenon, <1>Edited, <1>11, <2>1 DEF SetSecure
<1>12. ASSUME NEW name \in Names, NEW path \in Paths, AddRule(name, path) \/ RemoveRule(name, path)
       PROVE  Goal
  <2>1. \A new \in apply_add_rule(memory, router, name, path)
                     \cup apply_remove_rule(memory, router, name, path) : Kept(memory, new)
    BY Zenon, <1>0, <1>RuleKeeps
  <2> QED BY Zenon, <1>Edited, <1>12, <2>1 DEF AddRule, RemoveRule
<1>13. ASSUME NEW name \in Names, NEW dom \in Domains,
              AddDomain(name, dom) \/ RemoveDomain(name, dom) \/ SetPrimaryDomain(name, dom)
       PROVE  Goal
  <2>1. \A new \in apply_add_domain(memory, router, name, dom)
                     \cup apply_remove_domain(memory, router, name, dom)
                     \cup apply_set_primary_domain(memory, router, name, dom)
                     \cup apply_reset_domains(memory, router, name) : Kept(memory, new)
    BY Zenon, <1>0, <1>DomainEditsKeep
  <2> QED BY Zenon, <1>Edited, <1>13, <2>1 DEF AddDomain, RemoveDomain, SetPrimaryDomain
<1>14. ASSUME NEW c \in Clients, NEW dir \in Dirs, NEW requested \in Names \cup {NoDomain},
              NEW port \in Ports \cup {0}, LinkProjectRead(c, dir, requested, port)
       PROVE  Goal
  <2>1. PICK q : q = [dir |-> dir, requested |-> requested, port |-> port, existing |-> descriptor[dir]]
    BY Zenon
  <2>2. q \in LinkType
    BY Zenon, <2>1 DEF LinkType, TypeInv
  <2>3. linking' = [linking EXCEPT ![c] = {q}]
    BY Zenon, <1>14, <2>1 DEF LinkProjectRead
  <2>4. linking' \in [Clients -> SUBSET LinkType]
    BY Zenon, <2>2, <2>3 DEF TypeInv
  <2>5. TypeInv' /\ disk' = disk
    BY Zenon, <1>14, <2>4 DEF LinkProjectRead, TypeInv
  <2> QED BY Zenon, <2>5, <1>SameFile
<1>15. ASSUME NEW c \in Clients, NEW q \in linking[c], NEW project, project.name \in Names
       PROVE  Described(q, project) \in [Dirs -> Names \cup {NoDomain}] /\ q \in LinkType
  BY Zenon, <1>15 DEF Described, TypeInv, LinkType
<1>16. ASSUME NEW c \in Clients
       PROVE  [linking EXCEPT ![c] = {}] \in [Clients -> SUBSET LinkType]
  BY Zenon DEF TypeInv
<1>17. ASSUME NEW c \in Clients, NEW q \in linking[c], NEW busy,
              NEW project \in plan_link(memory, q, busy), ~project_loop_refusal(project)
       PROVE  /\ Described(q, project) \in [Dirs -> Names \cup {NoDomain}]
              /\ Kept(memory, [memory EXCEPT !.projects = Append(@, project)])
  <2>1. q \in LinkType
    BY Zenon DEF TypeInv
  <2>2. project \in ProjectType /\ Kept(memory, [memory EXCEPT !.projects = Append(@, project)])
    BY Zenon, <1>0, <1>17, <2>1, <1>PlanLinkKeeps
  <2>3. project.name \in Names
    BY Zenon, <2>2 DEF ProjectType
  <2> QED BY Zenon, <1>15, <2>2, <2>3
<1>18. ASSUME NEW c \in Clients, NEW busy, NEW q \in linking[c], LinkProject(c, q, busy) PROVE Goal
  <2>1. PICK project \in plan_link(memory, q, busy) :
           /\ ~project_loop_refusal(project)
           /\ descriptor' = Described(q, project)
           /\ commit_config([memory EXCEPT !.projects = Append(@, project)])
    BY Zenon, <1>18 DEF LinkProject
  <2>2. /\ descriptor' \in [Dirs -> Names \cup {NoDomain}]
        /\ Kept(memory, [memory EXCEPT !.projects = Append(@, project)])
    BY Zenon, <1>17, <2>1
  <2>3. up /\ pending = {} /\ UNCHANGED <<up, bound, wake, present>> /\ linking' \in [Clients -> SUBSET LinkType]
    BY Zenon, <1>16, <1>18 DEF LinkProject, Locked
  <2> QED BY Zenon, <2>1, <2>2, <2>3, <1>CommitTyped DEF Goal
<1>19. ASSUME NEW c \in Clients, NEW busy, NEW q \in linking[c], LinkProjectFails(c, q, busy) PROVE Goal
  <2>1. descriptor' \in [Dirs -> Names \cup {NoDomain}]
    <3>1. \/ descriptor' = descriptor
          \/ \E project \in plan_link(memory, q, busy) :
                ~project_loop_refusal(project) /\ descriptor' = Described(q, project)
      BY Zenon, <1>19 DEF LinkProjectFails
    <3>2. CASE descriptor' = descriptor
      BY Zenon, <3>2 DEF TypeInv
    <3>3. ASSUME NEW project \in plan_link(memory, q, busy), ~project_loop_refusal(project),
                 descriptor' = Described(q, project)
          PROVE  descriptor' \in [Dirs -> Names \cup {NoDomain}]
      BY Zenon, <1>17, <3>3
    <3> QED BY Zenon, <3>1, <3>2, <3>3
  <2>2. linking' \in [Clients -> SUBSET LinkType]
    BY Zenon, <1>16, <1>19 DEF LinkProjectFails
  <2>3. TypeInv' /\ disk' = disk
    BY Zenon, <1>19, <2>1, <2>2 DEF LinkProjectFails, TypeInv
  <2> QED BY Zenon, <2>3, <1>SameFile
<1>20. ASSUME NEW dir \in Dirs, ChangeDirs(dir) PROVE Goal
  <2>1. present' \in SUBSET Dirs /\ wake' \in BOOLEAN
    BY Zenon, <1>20 DEF ChangeDirs, TypeInv
  <2>2. TypeInv' /\ disk' = disk
    BY Zenon, <1>20, <2>1 DEF ChangeDirs, TypeInv
  <2> QED BY Zenon, <2>2, <1>SameFile
<1>21. ASSUME UNCHANGED vars PROVE Goal
  <2>1. TypeInv' /\ disk' = disk
    BY Zenon, <1>21 DEF vars, TypeInv
  <2> QED BY Zenon, <2>1, <1>SameFile
<1>22. Goal
  BY ZenonT(30), <1>1, <1>2, <1>3, <1>4, <1>6, <1>7, <1>8, <1>9, <1>10, <1>11, <1>12, <1>13, <1>14, <1>18,
     <1>19, <1>20, <1>21 DEF Next
<1> QED BY Zenon, <1>22 DEF Goal

\* The state is well formed throughout.
LEMMA TypeInvHolds == Spec => []TypeInv
\* A start on any hand-written file that parses.
<1>InitTyped.
    Init => TypeInv
  <2> QED
    BY Zenon, DefaultIs, HandWrittenAssumption, SiteConfigAssumption DEF Init, TypeInv
<1>1. TypeInv /\ CommitInv /\ [Next]_vars => TypeInv'
  BY Zenon, NextTyped
<1> QED BY <1>1, <1>InitTyped, CommitInvHolds, PTL DEF Spec

-----------------------------------------------------------------------------
(* The theorems. *)

\* The file the daemon wrote is always one Config::validate accepts.
THEOREM FileAlwaysLoadable == Spec => []FileStaysLoadable
<1>1. CommitInv => FileStaysLoadable
  BY Zenon DEF CommitInv, FileStaysLoadable
<1> QED BY <1>1, CommitInvHolds, PTL

\* Outside a commit the file and the configuration in memory agree.
THEOREM DiskAlwaysMemory == Spec => []DiskIsMemory
<1>1. CommitInv => DiskIsMemory
  BY Zenon DEF CommitInv, DiskIsMemory, Locked
<1> QED BY <1>1, CommitInvHolds, PTL

\* Outside a commit the live router is one the current configuration gives.
THEOREM RouterAlwaysFollows == Spec => []RouterFollowsConfig
<1>1. CommitInv => RouterFollowsConfig
  BY Zenon DEF CommitInv, RouterFollowsConfig, Gives
<1> QED BY <1>1, CommitInvHolds, PTL

\* Nothing the daemon or its clients do gives two projects one port, when no hand-written
\* file does, or puts a project on a port the running daemon has bound, whichever ports each
\* boot comes up on; the whole state stays well formed.
THEOREM ProjectsStaySound ==
  ASSUME \A c \in HandWritten : PortsOwn(c)
  PROVE  Spec => ProjectsSound
<1>1. Init => PortsOwn(disk)
  BY Zenon DEF Init
<1>2. PortsOwn(disk) /\ TypeInv /\ CommitInv /\ [Next]_vars => PortsOwn(disk)'
  <2> SUFFICES ASSUME PortsOwn(disk), TypeInv, CommitInv, [Next]_vars PROVE PortsOwn(disk)'
    BY Zenon
  <2>1. PortsOwn(disk')
    BY Zenon, NextTyped
  <2> QED BY Zenon, <2>1 DEF PortsOwn
<1>3. PortsOwn(disk) /\ TypeInv => TypeOK /\ PortsDistinct
  <2> SUFFICES ASSUME PortsOwn(disk), TypeInv PROVE TypeOK /\ PortsDistinct
    BY Zenon
  <2>1. \A p, q \in pending : p = q
    BY Zenon DEF TypeInv
  <2>2. TypeOK
    BY Zenon, <2>1 DEF TypeInv, TypeOK
  <2>3. PortsDistinct
    BY Zenon DEF PortsOwn, PortsDistinct
  <2> QED BY Zenon, <2>2, <2>3
<1>4. TypeInv /\ CommitInv /\ [Next]_vars => [OwnPortsRefused]_vars
  <2> SUFFICES ASSUME TypeInv, CommitInv, [Next]_vars PROVE OwnPortsRefused
    BY Zenon
  <2>1. up => NoneBound(disk, disk')
    BY Zenon, NextTyped
  <2> QED BY Zenon, <2>1 DEF NoneBound, OwnPortsRefused
<1> QED BY <1>1, <1>2, <1>3, <1>4, TypeInvHolds, CommitInvHolds, PTL DEF Spec, ProjectsSound

\* Every domain goes to the first eligible claimant that added it, and to the one it is the
\* apex of only when nobody added it, in whatever order the directories are listed.
THEOREM ClaimsAlwaysFollow == Spec => []ClaimsFollowTheRules
<1>1. TypeInv => ClaimsFollowTheRules
  BY Zenon, RoutesRight DEF TypeInv
<1> QED BY <1>1, TypeInvHolds, PTL

\* The error arms of the router's inserts are unreachable: every eligible claimant is
\* registered and answers for exactly the hosts it won.
THEOREM NobodyEverDropped == Spec => []NothingDropped
<1>1. TypeInv => NothingDropped
  BY Zenon, RoutesRight DEF TypeInv
<1> QED BY <1>1, TypeInvHolds, PTL

\* The primary of a claimant is exact and its own, and routes to it while it has won an
\* exact domain at all.
THEOREM PrimaryAlwaysRouted == Spec => []PrimaryIsRouted
<1>1. TypeInv => PrimaryIsRouted
  BY Zenon, RoutesRight DEF TypeInv
<1> QED BY <1>1, TypeInvHolds, PTL

\* Whoever loses a domain is in the doctor's report, with the owner the router has.
THEOREM LossesAlwaysReported == Spec => []LossesReported
<1>1. TypeInv => LossesReported
  BY Zenon, RoutesRight DEF TypeInv
<1> QED BY <1>1, TypeInvHolds, PTL
=============================================================================
