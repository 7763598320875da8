----------------------------- MODULE DaemonWaits -----------------------------
(***************************************************************************)
(* Who waits in the daemon.                                                *)
(*                                                                         *)
(* First, that no wait cycle arises for any number of tasks.  The handlers *)
(* follow an order of the locks: a fact about the programs alone, which    *)
(* TLC evaluates in full (HandlersOrdered).  The proof carries it over to  *)
(* every interleaving: among tasks that all wait, the one that waits first *)
(* for the highest lock waits for a holder that can only wait still higher.*)
(*                                                                         *)
(* Then the instance on which TLC checks that every wait ends: handlers    *)
(* that wait for locks, and clients of background jobs.  A behaviour picks *)
(* one of the two and steps it alone.                                      *)
(***************************************************************************)
EXTENDS DaemonLocks, WellFoundedInduction, TLAPS

\* The order in which locks are taken: tunnel_mutate or tool_mutate, the config,
\* the router, the site lists, and the locks that are dropped before the next.
Rank ==
  [tunnel_mutate |-> 1, tool_mutate |-> 1, config |-> 2, router |-> 3,
   wordpress_sites |-> 4, laravel_sites |-> 5, remote_setup_code |-> 6,
   lan_setup_script_sha256 |-> 6, tunnel_manager |-> 6, cloudflared_resolution |-> 6,
   shim_reconcile |-> 6]

\* The locks under which slow work is done.
SlowLocks == {"tunnel_mutate", "tool_mutate", "tunnel_manager"}

Takes(p, i, l) == p[i].op = "acquire" /\ p[i].lock = l
Drops(p, i, l) == p[i].op = "release" /\ p[i].lock = l

\* The locks that program p holds when it comes to its i-th operation.
Guarded(p, i) ==
  {l \in Locks : \E j \in 1 .. (i - 1) :
                   Takes(p, j, l) /\ \A k \in (j + 1) .. (i - 1) : ~Drops(p, k, l)}

\* A lock is taken only above the ones held, a branch joins where the same locks
\* are held, slow work is done under SlowLocks only, and a task that holds the
\* config or the router takes none of these.
Ordered(p) ==
  \A i \in DOMAIN p :
    /\ p[i].op = "acquire" =>
         /\ \A l \in Guarded(p, i) : Rank[l] < Rank[p[i].lock]
         /\ Guarded(p, i) \cap {"config", "router"} # {} => p[i].lock \notin SlowLocks
    /\ p[i].op = "branch" =>
         /\ i + p[i].skip <= Len(p)
         /\ Guarded(p, i + 1 + p[i].skip) = Guarded(p, i)
    /\ p[i].op = "slow" => Guarded(p, i) \subseteq SlowLocks

Operations ==
  [op : {"acquire", "release", "slow", "return", "branch"}, lock : Locks, mode : Modes,
   skip : Nat]

ASSUME ProgramsTyped == \A r \in Requests : Program[r] \in Seq(Operations)
ASSUME HandlersOrdered == \A r \in Requests \ {"ListProjects"} : Ordered(Program[r])

-----------------------------------------------------------------------------
\* What ties a task's guards and its place in a queue to its program: it holds no
\* lock its program does not hold there, and it queues once, for its next lock.
GuardsInv ==
  \A t \in Tasks, l \in Locks : Holds(t, l) => Busy(t) /\ l \in Guarded(Program[req[t]], pc[t])
QueueInv ==
  \A l \in Locks : \A i \in DOMAIN queue[l] :
    /\ At(queue[l][i][1], "acquire")
    /\ Op(queue[l][i][1]).lock = l
    /\ \A j \in DOMAIN queue[l] : queue[l][j][1] = queue[l][i][1] => j = i
LockInv == TypeOK /\ GuardsInv /\ QueueInv

\* What one operation does to the guards of a program: a lock that is held stays
\* held unless the operation drops it, and a lock that is taken is held.
LEMMA GuardedStep ==
  ASSUME NEW p \in Seq(Operations), NEW i \in DOMAIN p
  PROVE  /\ \A l \in Guarded(p, i) : ~Drops(p, i, l) => l \in Guarded(p, i + 1)
         /\ p[i].op = "acquire" => p[i].lock \in Guarded(p, i + 1)
<1>1. i \in Nat /\ i >= 1 /\ p[i] \in Operations
  OBVIOUS
<1>2. ASSUME NEW l \in Guarded(p, i), ~Drops(p, i, l) PROVE l \in Guarded(p, i + 1)
  <2>1. PICK j \in 1 .. (i - 1) : Takes(p, j, l) /\ \A k \in (j + 1) .. (i - 1) : ~Drops(p, k, l)
    BY <1>2 DEF Guarded
  <2>2. \A k \in (j + 1) .. ((i + 1) - 1) : ~Drops(p, k, l)
    BY <1>1, <1>2, <2>1
  <2>3. j \in 1 .. ((i + 1) - 1) /\ l \in Locks
    BY <1>1, <1>2, <2>1 DEF Guarded
  <2> QED  BY <2>1, <2>2, <2>3 DEF Guarded
<1>3. ASSUME p[i].op = "acquire" PROVE p[i].lock \in Guarded(p, i + 1)
  <2>1. p[i].lock \in Locks
    BY <1>1 DEF Operations
  <2>2. i \in 1 .. ((i + 1) - 1) /\ Takes(p, i, p[i].lock)
    BY <1>1, <1>3 DEF Takes
  <2>3. \A k \in (i + 1) .. ((i + 1) - 1) : ~Drops(p, k, p[i].lock)
    BY <1>1
  <2> QED  BY <2>1, <2>2, <2>3 DEF Guarded
<1> QED  BY <1>2, <1>3

\* The program of a task at work, and its next operation.
LEMMA ProgramOf ==
  ASSUME TypeOK, "ListProjects" \notin Served, NEW t \in Tasks, Busy(t)
  PROVE  /\ Program[req[t]] \in Seq(Operations) /\ Ordered(Program[req[t]])
         /\ pc[t] \in 1 .. (Len(Program[req[t]]) + 1)
         /\ ~AtEnd(t) => pc[t] \in DOMAIN Program[req[t]] /\ Op(t) \in Operations
<1>1. req[t] \in Requests \ {"ListProjects"}
  BY ServedAssumption DEF TypeOK, Busy
<1>2. Program[req[t]] \in Seq(Operations) /\ Ordered(Program[req[t]])
  BY <1>1, ProgramsTyped, HandlersOrdered
<1>3. pc[t] \in 1 .. (Len(Program[req[t]]) + 1)
  BY DEF TypeOK
<1>4. ASSUME ~AtEnd(t) PROVE pc[t] \in DOMAIN Program[req[t]] /\ Op(t) \in Operations
  BY <1>2, <1>3, <1>4 DEF AtEnd, Op
<1> QED  BY <1>2, <1>3, <1>4

-----------------------------------------------------------------------------
\* A step of one task that leaves all queues alone keeps the order of waiting:
\* the others do not move, and a task that waits takes no such step.
LEMMA QueueKept ==
  ASSUME LockInv, NEW t \in Tasks, UNCHANGED queue,
         \A u \in Tasks \ {t} : req'[u] = req[u] /\ pc'[u] = pc[u],
         \A l \in Locks : \A i \in DOMAIN queue[l] : queue[l][i][1] # t
  PROVE  QueueInv'
<1> SUFFICES ASSUME NEW l \in Locks, NEW i \in DOMAIN queue[l]
             PROVE  /\ At(queue[l][i][1], "acquire")'
                    /\ (Op(queue[l][i][1]).lock)' = l
                    /\ \A j \in DOMAIN queue[l] : queue[l][j][1] = queue[l][i][1] => j = i
  BY DEF QueueInv
<1>1. queue[l][i][1] \in Tasks \ {t}
  BY DEF LockInv, TypeOK
<1>2. /\ At(queue[l][i][1], "acquire") /\ Op(queue[l][i][1]).lock = l
      /\ \A j \in DOMAIN queue[l] : queue[l][j][1] = queue[l][i][1] => j = i
  BY DEF LockInv, QueueInv
<1> QED  BY Zenon, <1>1, <1>2 DEF At, Op, AtEnd, Busy

\* Who is not at an acquire waits nowhere.
LEMMA OnlyAcquirersQueue ==
  ASSUME LockInv, NEW t \in Tasks, ~At(t, "acquire")
  PROVE  \A l \in Locks : \A i \in DOMAIN queue[l] : queue[l][i][1] # t
BY DEF LockInv, QueueInv

\* The other tasks' guards stay within their programs when one task moves.
LEMMA GuardsKept ==
  ASSUME LockInv, NEW t \in Tasks,
         \A u \in Tasks \ {t} : req'[u] = req[u] /\ pc'[u] = pc[u],
         \A u \in Tasks \ {t}, l \in Locks : Holds(u, l)' => Holds(u, l),
         \A l \in Locks : Holds(t, l)' => Busy(t)' /\ l \in Guarded(Program[req'[t]], pc'[t])
  PROVE  GuardsInv'
BY DEF LockInv, GuardsInv, Busy

\* A move within the program keeps the types.
LEMMA MoveTyped ==
  ASSUME LockInv, NEW t \in Tasks, Busy(t), NEW n \in 1 .. (Len(Program[req[t]]) + 1),
         pc' = [pc EXCEPT ![t] = n], UNCHANGED req,
         held' \in [Locks -> SUBSET (Tasks \X Modes)], queue' \in [Locks -> Seq(Tasks \X Modes)]
  PROVE  TypeOK'
<1>1. pc \in [Tasks -> Nat] /\ n \in Nat
  BY DEF LockInv, TypeOK
<1>2. pc' \in [Tasks -> Nat] /\ pc'[t] = n /\ \A u \in Tasks \ {t} : pc'[u] = pc[u]
  BY <1>1
<1>3. \A u \in Tasks : pc'[u] \in 1 .. (IF Busy(u)' THEN Len(Program[req'[u]]) + 1 ELSE 1)
  BY <1>2 DEF LockInv, TypeOK, Busy
<1> QED  BY <1>2, <1>3 DEF LockInv, TypeOK

\* A move from one operation to the next, holding no more than the program does.
LEMMA MoveOn ==
  ASSUME LockInv, "ListProjects" \notin Served, NEW t \in Tasks, Busy(t), ~AtEnd(t),
         ~At(t, "acquire"), pc' = [pc EXCEPT ![t] = @ + 1], UNCHANGED <<req, queue>>,
         held' \in [Locks -> SUBSET (Tasks \X Modes)],
         \A u \in Tasks, l \in Locks : Holds(u, l)' => Holds(u, l),
         \A l \in Locks : Holds(t, l)' => ~Drops(Program[req[t]], pc[t], l)
  PROVE  LockInv'
<1> DEFINE p == Program[req[t]]
<1>1. p \in Seq(Operations) /\ pc[t] \in DOMAIN p /\ pc[t] \in 1 .. (Len(p) + 1)
  BY ProgramOf DEF LockInv
<1>2. pc[t] + 1 \in 1 .. (Len(p) + 1) /\ pc \in [Tasks -> Nat]
  BY <1>1 DEF LockInv, TypeOK
<1>3. pc'[t] = pc[t] + 1 /\ \A u \in Tasks \ {t} : req'[u] = req[u] /\ pc'[u] = pc[u]
  BY <1>2
<1>4. TypeOK'
  BY Zenon, <1>2, MoveTyped DEF LockInv, TypeOK
<1>5. ASSUME NEW l \in Locks, Holds(t, l)' PROVE Busy(t)' /\ l \in Guarded(Program[req'[t]], pc'[t])
  <2>1. l \in Guarded(p, pc[t]) /\ ~Drops(p, pc[t], l)
    BY <1>5 DEF LockInv, GuardsInv
  <2>2. l \in Guarded(p, pc[t] + 1)
    BY <1>1, <2>1, GuardedStep
  <2> QED  BY <1>3, <2>2 DEF Busy
<1>6. GuardsInv'
  BY <1>3, <1>5, GuardsKept
<1>7. QueueInv'
  BY <1>3, QueueKept, OnlyAcquirersQueue
<1> QED  BY <1>4, <1>6, <1>7 DEF LockInv

\* Every step of every task keeps the guards and queues within the programs.
LEMMA LockInvStep ==
  ASSUME "ListProjects" \notin Served
  PROVE  LockInv /\ [Next]_vars => LockInv'
<1> SUFFICES ASSUME LockInv, [Next]_vars PROVE LockInv'
  OBVIOUS
<1>1. ASSUME NEW t \in Tasks, NEW r \in Served, Begin(t, r) PROVE LockInv'
  <2>1. ~At(t, "acquire") /\ \A l \in Locks : ~Holds(t, l)
    BY <1>1 DEF Begin, At, LockInv, GuardsInv
  <2>2. \A u \in Tasks \ {t} : req'[u] = req[u] /\ pc'[u] = pc[u]
    BY <1>1 DEF Begin, LockInv, TypeOK
  <2>3. TypeOK'
    <3>1. req' \in [Tasks -> Served \cup {Idle}] /\ pc' \in [Tasks -> Nat] /\ req'[t] = r /\ pc'[t] = 1
      BY <1>1 DEF Begin, LockInv, TypeOK
    <3>2. Len(Program[r]) \in Nat
      BY ServedAssumption, ProgramsTyped
    <3>3. ASSUME NEW u \in Tasks
          PROVE  pc'[u] \in 1 .. (IF Busy(u)' THEN Len(Program[req'[u]]) + 1 ELSE 1)
      <4>1. CASE u = t
        BY <3>1, <3>2, <4>1
      <4>2. CASE u # t
        BY <2>2, <4>2 DEF LockInv, TypeOK, Busy
      <4> QED  BY <4>1, <4>2
    <3> QED  BY <1>1, <3>1, <3>3 DEF Begin, LockInv, TypeOK
  <2>4. GuardsInv'
    BY <1>1, <2>1, <2>2, GuardsKept DEF Begin, Holds
  <2>5. QueueInv'
    BY <1>1, <2>1, <2>2, QueueKept, OnlyAcquirersQueue DEF Begin
  <2> QED  BY <2>3, <2>4, <2>5 DEF LockInv
<1>2. ASSUME NEW t \in Tasks, Enqueue(t) PROVE LockInv'
  <2> DEFINE m == Op(t).lock
             w == <<t, Op(t).mode>>
  <2>1. m \in Locks /\ w \in Tasks \X Modes /\ At(t, "acquire") /\ ~Waiting(t, m)
    BY <1>2, ProgramOf DEF Enqueue, At, Operations, LockInv
  <2>2. /\ queue \in [Locks -> Seq(Tasks \X Modes)]
        /\ queue' = [queue EXCEPT ![m] = Append(@, w)]
        /\ UNCHANGED <<req, pc, held>>
    BY <1>2 DEF Enqueue, LockInv, TypeOK
  <2>3. TypeOK'
    BY <2>1, <2>2 DEF LockInv, TypeOK, Busy
  <2>4. GuardsInv'
    BY <2>2 DEF LockInv, GuardsInv, Holds, Busy
  <2>5. QueueInv'
    <3>0. \A u : At(u, "acquire")' = At(u, "acquire") /\ (Op(u).lock)' = Op(u).lock
      BY <2>2 DEF At, Op, AtEnd, Busy
    <3> SUFFICES ASSUME NEW l \in Locks, NEW i \in DOMAIN queue'[l]
                 PROVE  /\ At(queue'[l][i][1], "acquire") /\ Op(queue'[l][i][1]).lock = l
                        /\ \A j \in DOMAIN queue'[l] : queue'[l][j][1] = queue'[l][i][1] => j = i
      <4> SUFFICES ASSUME NEW l \in Locks, NEW i \in DOMAIN queue'[l]
                   PROVE  /\ At(queue[l][i][1], "acquire")' /\ (Op(queue[l][i][1]).lock)' = l
                          /\ \A j \in DOMAIN queue'[l] : queue'[l][j][1] = queue'[l][i][1] => j = i
        BY Zenon DEF QueueInv
      <4> QED  BY Zenon, <3>0
    <3>1. CASE l # m
      BY <2>2, <3>1 DEF LockInv, QueueInv
    <3>2. CASE l = m
      <4>1. queue'[m] = Append(queue[m], w) /\ queue[m] \in Seq(Tasks \X Modes)
        BY <2>1, <2>2
      <4>2. /\ DOMAIN queue'[m] = 1 .. (Len(queue[m]) + 1) /\ Len(queue[m]) \in Nat
            /\ DOMAIN queue[m] = 1 .. Len(queue[m])
            /\ queue'[m][Len(queue[m]) + 1] = w
            /\ \A j \in 1 .. Len(queue[m]) : queue'[m][j] = queue[m][j]
        BY <4>1
      <4>3. w[1] = t /\ \A j \in DOMAIN queue[m] : queue[m][j][1] # t
        BY <2>1 DEF Waiting
      <4>4. CASE i = Len(queue[m]) + 1
        <5>1. queue'[l][i][1] = t
          BY <3>2, <4>2, <4>3, <4>4
        <5>2. \A j \in DOMAIN queue'[l] : queue'[l][j][1] = t => j = i
          BY <3>2, <4>2, <4>3, <4>4
        <5> QED  BY <2>1, <3>2, <5>1, <5>2
      <4>5. CASE i \in DOMAIN queue[m]
        <5>1. At(queue[m][i][1], "acquire") /\ Op(queue[m][i][1]).lock = m
          BY <2>1, <4>5 DEF LockInv, QueueInv
        <5>2. \A j \in DOMAIN queue[m] : queue[m][j][1] = queue[m][i][1] => j = i
          BY <2>1, <4>5 DEF LockInv, QueueInv
        <5>3. queue'[l][i] = queue[m][i]
          BY <3>2, <4>2, <4>5
        <5>4. ASSUME NEW j \in DOMAIN queue'[l], queue'[l][j][1] = queue[m][i][1]
              PROVE  j = i
          <6>1. j # Len(queue[m]) + 1
            BY <3>2, <4>2, <4>3, <4>5, <5>4
          <6>2. j \in DOMAIN queue[m] /\ queue'[m][j] = queue[m][j]
            BY <3>2, <4>2, <6>1
          <6> QED  BY <3>2, <5>2, <5>4, <6>2
        <5> QED  BY <3>2, <5>1, <5>3, <5>4
      <4> QED  BY <3>2, <4>2, <4>4, <4>5
    <3> QED  BY ZenonT(40), <3>1, <3>2
  <2> QED  BY Zenon, <2>3, <2>4, <2>5 DEF LockInv
<1>3. ASSUME NEW t \in Tasks, ReleaseStep(t) PROVE LockInv'
  <2>0. Busy(t) /\ ~AtEnd(t) /\ ~At(t, "acquire")
    BY <1>3 DEF ReleaseStep, At
  <2>1. Busy(t) /\ ~AtEnd(t) /\ ~At(t, "acquire") /\ Op(t).lock \in Locks
    <3>1. Op(t) \in Operations
      BY Zenon, <2>0, ProgramOf DEF LockInv
    <3> QED  BY <2>0, <3>1 DEF Operations
  <2>2. held' \in [Locks -> SUBSET (Tasks \X Modes)]
    BY <1>3 DEF ReleaseStep, Drop, LockInv, TypeOK
  <2>3. \A u \in Tasks, l \in Locks : Holds(u, l)' => Holds(u, l)
    BY <1>3 DEF ReleaseStep, Drop, Holds
  <2>4. \A l \in Locks : Holds(t, l)' => ~Drops(Program[req[t]], pc[t], l)
    BY <1>3 DEF ReleaseStep, Drop, Holds, Drops, Op
  <2> QED  BY Zenon, <1>3, <2>1, <2>2, <2>3, <2>4, MoveOn DEF ReleaseStep, Advance
<1>4. ASSUME NEW t \in Tasks, SlowStep(t) PROVE LockInv'
  <2>1. Busy(t) /\ ~AtEnd(t) /\ ~At(t, "acquire")
    BY <1>4 DEF SlowStep, At
  <2>2. held' \in [Locks -> SUBSET (Tasks \X Modes)] /\ \A u \in Tasks, l \in Locks : Holds(u, l)' => Holds(u, l)
    BY <1>4 DEF SlowStep, LockInv, TypeOK, Holds
  <2>3. \A l \in Locks : ~Drops(Program[req[t]], pc[t], l)
    BY <1>4 DEF SlowStep, At, Drops, Op
  <2> QED  BY Zenon, <1>4, <2>1, <2>2, <2>3, MoveOn DEF SlowStep, Advance
<1>5. ASSUME NEW t \in Tasks, BranchStep(t) PROVE LockInv'
  <2> DEFINE p == Program[req[t]]
             n == pc[t] + (1 + Op(t).skip)
  <2>1. Busy(t) /\ ~AtEnd(t) /\ ~At(t, "acquire") /\ Op(t).op = "branch"
    BY <1>5 DEF BranchStep, At
  <2>2. held' \in [Locks -> SUBSET (Tasks \X Modes)] /\ \A u \in Tasks, l \in Locks : Holds(u, l)' => Holds(u, l)
    BY <1>5 DEF BranchStep, LockInv, TypeOK, Holds
  <2>3. \A l \in Locks : ~Drops(p, pc[t], l)
    BY <2>1 DEF Drops, Op
  <2>4. CASE Advance(t, 1)
    BY Zenon, <1>5, <2>1, <2>2, <2>3, <2>4, MoveOn DEF BranchStep, Advance
  <2>5. CASE Advance(t, 1 + Op(t).skip)
    <3>1. pc[t] \in DOMAIN p /\ Op(t) \in Operations /\ Ordered(p) /\ p \in Seq(Operations)
      BY <2>1, ProgramOf DEF LockInv
    <3>2. Op(t).skip \in Nat /\ pc[t] + Op(t).skip <= Len(p) /\ Guarded(p, n) = Guarded(p, pc[t])
      BY <2>1, <3>1 DEF Ordered, Operations, Op
    <3>3. n \in 1 .. (Len(p) + 1) /\ pc' = [pc EXCEPT ![t] = n]
      <4>1. pc[t] \in Nat \ {0} /\ Len(p) \in Nat
        BY <3>1
      <4>2. n \in 1 .. (Len(p) + 1)
        BY <3>2, <4>1
      <4> QED  BY <2>5, <4>2 DEF Advance
    <3>4. TypeOK'
      BY Zenon, <1>5, <2>1, <2>2, <3>3, MoveTyped DEF BranchStep, LockInv, TypeOK
    <3>5. pc'[t] = n /\ \A u \in Tasks \ {t} : req'[u] = req[u] /\ pc'[u] = pc[u]
      BY <1>5, <3>3 DEF BranchStep, LockInv, TypeOK
    <3>6. \A l \in Locks : Holds(t, l)' => Busy(t)' /\ l \in Guarded(Program[req'[t]], pc'[t])
      BY <1>5, <2>1, <2>2, <3>2, <3>5 DEF BranchStep, LockInv, GuardsInv, Busy
    <3>7. GuardsInv'
      BY <2>2, <3>5, <3>6, GuardsKept
    <3>8. QueueInv'
      BY <1>5, <2>1, <3>5, QueueKept, OnlyAcquirersQueue DEF BranchStep
    <3> QED  BY <3>4, <3>7, <3>8 DEF LockInv
  <2> QED  BY <1>5, <2>4, <2>5 DEF BranchStep
<1>6. ASSUME NEW t \in Tasks, Answer(t) PROVE LockInv'
  <2>1. ~At(t, "acquire")
    BY <1>6 DEF Answer, At
  <2>2. \A u \in Tasks \ {t} : req'[u] = req[u] /\ pc'[u] = pc[u]
    BY <1>6 DEF Answer, LockInv, TypeOK
  <2>3. TypeOK'
    <3>1. req' \in [Tasks -> Served \cup {Idle}] /\ pc' \in [Tasks -> Nat] /\ req'[t] = Idle /\ pc'[t] = 1
      BY <1>6 DEF Answer, LockInv, TypeOK
    <3>2. ASSUME NEW u \in Tasks
          PROVE  pc'[u] \in 1 .. (IF Busy(u)' THEN Len(Program[req'[u]]) + 1 ELSE 1)
      <4>1. CASE u = t
        BY <3>1, <4>1 DEF Busy
      <4>2. CASE u # t
        BY <2>2, <4>2 DEF LockInv, TypeOK, Busy
      <4> QED  BY Zenon, <4>1, <4>2
    <3> QED  BY <1>6, <3>1, <3>2 DEF Answer, Drop, LockInv, TypeOK
  <2>4. \A l \in Locks : ~Holds(t, l)'
    BY <1>6 DEF Answer, Drop, Holds
  <2>5. \A u \in Tasks \ {t}, l \in Locks : Holds(u, l)' => Holds(u, l)
    BY <1>6 DEF Answer, Drop, Holds
  <2>6. GuardsInv'
    BY <2>2, <2>4, <2>5, GuardsKept
  <2>7. QueueInv'
    BY <1>6, <2>1, <2>2, QueueKept, OnlyAcquirersQueue DEF Answer
  <2> QED  BY <2>3, <2>6, <2>7 DEF LockInv
<1>7. ASSUME NEW m \in Locks, Grant(m) PROVE LockInv'
  <2>1. queue[m] \in Seq(Tasks \X Modes) /\ queue[m] # << >> /\ Head(queue[m]) = queue[m][1]
    BY <1>7 DEF Grant, LockInv, TypeOK
  <2>2. PICK t \in Tasks, w \in Tasks \X Modes : w = queue[m][1] /\ w[1] = t
    BY <2>1
  <2> DEFINE p == Program[req[t]]
  <2>3. /\ held' = [held EXCEPT ![m] = @ \cup {w}] /\ pc' = [pc EXCEPT ![t] = @ + 1]
        /\ queue' = [queue EXCEPT ![m] = Tail(@)] /\ UNCHANGED req
    BY Zenon, <1>7, <2>1, <2>2 DEF Grant, Advance
  <2>4. /\ 1 \in DOMAIN queue[m] /\ At(t, "acquire") /\ Op(t).lock = m
        /\ \A j \in DOMAIN queue[m] : queue[m][j][1] = t => j = 1
    BY <2>1, <2>2 DEF LockInv, QueueInv
  <2>5. p \in Seq(Operations) /\ pc[t] \in DOMAIN p /\ Busy(t)
    BY <2>4, ProgramOf DEF At, LockInv
  <2>6. pc[t] + 1 \in 1 .. (Len(p) + 1) /\ pc'[t] = pc[t] + 1 /\ \A u \in Tasks \ {t} : req'[u] = req[u] /\ pc'[u] = pc[u]
    BY <2>3, <2>5 DEF LockInv, TypeOK
  <2>7. TypeOK'
    <3>1. held' \in [Locks -> SUBSET (Tasks \X Modes)] /\ queue' \in [Locks -> Seq(Tasks \X Modes)]
      BY <2>1, <2>3 DEF LockInv, TypeOK
    <3>2. pc' = [pc EXCEPT ![t] = pc[t] + 1]
      BY <2>3
    <3> QED  BY Zenon, <2>3, <2>5, <2>6, <3>1, <3>2, MoveTyped
  <2>8. \A l \in Locks : held'[l] = IF l = m THEN held[m] \cup {w} ELSE held[l]
    BY <2>3 DEF LockInv, TypeOK
  <2>9. \A u \in Tasks \ {t}, l \in Locks : Holds(u, l)' => Holds(u, l)
    BY <2>2, <2>8 DEF Holds
  <2>10. ASSUME NEW l \in Locks, Holds(t, l)' PROVE Busy(t)' /\ l \in Guarded(Program[req'[t]], pc'[t])
    <3>1. l = m \/ Holds(t, l)
      BY <2>8, <2>10 DEF Holds
    <3>2. l = m \/ l \in Guarded(p, pc[t])
      BY <3>1 DEF LockInv, GuardsInv
    <3>3. p[pc[t]].op = "acquire" /\ p[pc[t]].lock = m /\ ~Drops(p, pc[t], l)
      BY <2>4 DEF At, Op, Drops
    <3>4. l \in Guarded(p, pc[t] + 1)
      BY <2>5, <3>2, <3>3, GuardedStep
    <3> QED  BY <2>3, <2>5, <2>6, <3>4 DEF Busy
  <2>11. GuardsInv'
    BY <2>6, <2>9, <2>10, GuardsKept
  <2>12. QueueInv'
    <3>1. \A u \in Tasks \ {t} : At(u, "acquire") => At(u, "acquire")' /\ (Op(u).lock)' = Op(u).lock
      BY <2>6 DEF At, Op, AtEnd, Busy
    <3> SUFFICES ASSUME NEW l \in Locks, NEW i \in DOMAIN queue'[l]
                 PROVE  /\ queue'[l][i][1] \in Tasks \ {t}
                        /\ At(queue'[l][i][1], "acquire") /\ Op(queue'[l][i][1]).lock = l
                        /\ \A j \in DOMAIN queue'[l] : queue'[l][j][1] = queue'[l][i][1] => j = i
      BY <3>1 DEF QueueInv
    <3>2. CASE l # m
      <4>1. queue'[l] = queue[l] /\ queue[l][i] \in Tasks \X Modes
        BY <2>3, <3>2 DEF LockInv, TypeOK
      <4>2. /\ At(queue[l][i][1], "acquire") /\ Op(queue[l][i][1]).lock = l
            /\ \A j \in DOMAIN queue[l] : queue[l][j][1] = queue[l][i][1] => j = i
        BY <4>1 DEF LockInv, QueueInv
      <4>3. queue[l][i][1] # t
        BY <2>4, <3>2, <4>2
      <4> QED  BY <4>1, <4>2, <4>3
    <3>3. CASE l = m
      <4>1. /\ queue'[m] = Tail(queue[m]) /\ Len(queue[m]) \in Nat
            /\ DOMAIN queue'[m] = 1 .. (Len(queue[m]) - 1) /\ DOMAIN queue[m] = 1 .. Len(queue[m])
            /\ \A j \in DOMAIN queue'[m] : queue'[m][j] = queue[m][j + 1]
        BY <2>1, <2>3 DEF LockInv, TypeOK
      <4>2. i + 1 \in DOMAIN queue[m] /\ i + 1 # 1 /\ queue'[m][i] = queue[m][i + 1] /\ queue[m][i + 1] \in Tasks \X Modes
        BY <2>1, <3>3, <4>1
      <4>3. /\ At(queue[m][i + 1][1], "acquire") /\ Op(queue[m][i + 1][1]).lock = m
            /\ \A j \in DOMAIN queue[m] : queue[m][j][1] = queue[m][i + 1][1] => j = i + 1
        BY <4>2 DEF LockInv, QueueInv
      <4>4. queue[m][i + 1][1] # t
        BY <2>4, <4>2
      <4>5. ASSUME NEW j \in DOMAIN queue'[m], queue'[m][j][1] = queue'[m][i][1] PROVE j = i
        <5>0. j \in Nat /\ i \in Nat /\ j + 1 \in DOMAIN queue[m]
          BY <3>3, <4>1
        <5>1. queue'[m][j] = queue[m][j + 1]
          BY Zenon, <4>1
        <5>2. j + 1 = i + 1
          BY Zenon, <4>2, <4>3, <4>5, <5>0, <5>1
        <5> QED  BY <5>0, <5>2
      <4> QED  BY <3>3, <4>2, <4>3, <4>4, <4>5
    <3> QED  BY <3>2, <3>3
  <2> QED  BY <2>7, <2>11, <2>12 DEF LockInv
<1>8. CASE UNCHANGED vars
  <2>1. TypeOK'
    BY <1>8 DEF vars, LockInv, TypeOK, Busy
  <2>2. GuardsInv'
    BY <1>8 DEF vars, LockInv, GuardsInv, Holds, Busy
  <2>3. QueueInv'
    <3>1. \A u : At(u, "acquire")' = At(u, "acquire") /\ (Op(u).lock)' = Op(u).lock
      BY <1>8 DEF vars, At, Op, AtEnd, Busy
    <3> QED  BY <1>8, <3>1 DEF vars, LockInv, QueueInv
  <2> QED  BY <2>1, <2>2, <2>3 DEF LockInv
<1> QED  BY <1>1, <1>2, <1>3, <1>4, <1>5, <1>6, <1>7, <1>8 DEF Next, Work

\* The invariant of the locks, for any number of tasks: no task holds a lock that its
\* handler does not hold there, and a task waits once, for its handler's next lock.
THEOREM GuardsFollowPrograms ==
  ASSUME "ListProjects" \notin Served
  PROVE  Spec => []LockInv
<1>1. Init => LockInv
  <2> SUFFICES ASSUME Init PROVE LockInv
    OBVIOUS
  <2>1. TypeOK
    BY DEF Init, TypeOK, Busy
  <2>2. GuardsInv
    BY DEF Init, GuardsInv, Holds
  <2>3. QueueInv
    BY DEF Init, QueueInv
  <2> QED  BY <2>1, <2>2, <2>3 DEF LockInv
<1>2. LockInv /\ [Next]_vars => LockInv'
  BY LockInvStep
<1> QED  BY <1>1, <1>2, PTL DEF Spec

-----------------------------------------------------------------------------
LEMMA HighestRank ==
  ASSUME NEW R \in SUBSET (1 .. 6), R # {}
  PROVE  \E m \in R : \A n \in R : n <= m
<1>1. CASE 6 \in R
  BY <1>1
<1>2. CASE 6 \notin R /\ 5 \in R
  BY <1>2
<1>3. CASE 6 \notin R /\ 5 \notin R /\ 4 \in R
  BY <1>3
<1>4. CASE 6 \notin R /\ 5 \notin R /\ 4 \notin R /\ 3 \in R
  BY <1>4
<1>5. CASE 6 \notin R /\ 5 \notin R /\ 4 \notin R /\ 3 \notin R /\ 2 \in R
  BY <1>5
<1>6. CASE 6 \notin R /\ 5 \notin R /\ 4 \notin R /\ 3 \notin R /\ 2 \notin R
  <2>1. \A n \in R : n = 1
    BY <1>6
  <2>2. \E m \in R : m = 1
    BY Zenon, <2>1
  <2> QED  BY <2>1, <2>2
<1> QED  BY <1>1, <1>2, <1>3, <1>4, <1>5, <1>6

LEMMA FirstIndex ==
  ASSUME NEW I \in SUBSET Nat, I # {}
  PROVE  \E m \in I : \A n \in I : m <= n
<1> DEFINE Less == {p \in Nat \X Nat : p[1] < p[2]}
<1>1. IsWellFoundedOn(Less, Nat)
  BY NatLessThanWellFounded DEF OpToRel
<1> HIDE DEF Less
<1>2. PICK m \in I : \A n \in I : ~(<<n, m>> \in Less)
  BY Zenon, <1>1, WFMin
<1>3. \A n \in I : ~(n < m)
  BY Zenon, <1>2 DEF Less
<1> QED  BY <1>3

\* A task that holds a lock waits, if at all, for a lock of a higher rank.
LEMMA WaitsAbove ==
  ASSUME LockInv, "ListProjects" \notin Served, NEW u \in Tasks, NEW l \in Locks,
         Holds(u, l), At(u, "acquire")
  PROVE  Rank[l] < Rank[Op(u).lock]
<1>1. Busy(u) /\ l \in Guarded(Program[req[u]], pc[u])
  BY DEF LockInv, GuardsInv
<1>2. Ordered(Program[req[u]]) /\ pc[u] \in DOMAIN Program[req[u]]
  BY <1>1, ProgramOf DEF At, LockInv
<1> QED  BY <1>1, <1>2 DEF Ordered, At, Op

LEMMA OrderedNeverWaitsInACycle ==
  ASSUME LockInv, "ListProjects" \notin Served
  PROVE  NoWaitCycle
<1> SUFFICES ASSUME NEW S \in SUBSET Tasks, S # {},
                    \A t \in S : \E u \in S : BlockedBy(t, u)
             PROVE  FALSE
  BY DEF NoWaitCycle
<1>1. \A t \in S : At(t, "acquire") /\ Op(t).lock \in Locks /\ Rank[Op(t).lock] \in 1 .. 6
  <2> TAKE t \in S
  <2>1. At(t, "acquire") /\ Busy(t) /\ ~AtEnd(t)
    BY DEF BlockedBy, At
  <2>2. Op(t).lock \in Locks
    BY <2>1, ProgramOf DEF Operations, LockInv
  <2> QED  BY <2>1, <2>2 DEF Locks, Rank
<1>2. PICK t0 \in S : \A t \in S : Rank[Op(t).lock] <= Rank[Op(t0).lock]
  <2> DEFINE R == {Rank[Op(t).lock] : t \in S}
  <2>1. R \in SUBSET (1 .. 6) /\ R # {}
    BY <1>1
  <2>2. PICK m \in R : \A n \in R : n <= m
    BY Zenon, <2>1, HighestRank
  <2> QED  BY Zenon, <2>2
<1>3. PICK l \in Locks : l = Op(t0).lock
  BY <1>1
<1> DEFINE I == {i \in DOMAIN queue[l] : queue[l][i][1] \in S}
<1>4. I \in SUBSET Nat /\ I # {}
  <2>1. \E i \in DOMAIN queue[l] : queue[l][i][1] = t0
    BY <1>2, <1>3 DEF BlockedBy
  <2>2. DOMAIN queue[l] \subseteq Nat
    <3>1. queue \in [Locks -> Seq(Tasks \X Modes)]
      BY Zenon DEF LockInv, TypeOK
    <3> QED  BY <3>1
  <2> QED  BY Zenon, <2>1, <2>2
<1>5. PICK i0 \in I : \A i \in I : i0 <= i
  BY Zenon, <1>4, FirstIndex
<1>6. PICK t1 \in S : t1 = queue[l][i0][1]
  BY <1>5
<1>7. Op(t1).lock = l /\ \A j \in DOMAIN queue[l] : queue[l][j][1] = t1 => j = i0
  BY <1>5, <1>6 DEF LockInv, QueueInv
<1>8. PICK u \in S : BlockedBy(t1, u)
  OBVIOUS
<1>9. Holds(u, l)
  <2>1. PICK i \in DOMAIN queue[l] :
          /\ queue[l][i][1] = t1
          /\ Holds(u, l) \/ \E j \in 1 .. (i - 1) : queue[l][j][1] = u
    BY <1>7, <1>8 DEF BlockedBy, Holds
  <2>2. i = i0
    BY <1>7, <2>1
  <2>3. ASSUME NEW j \in 1 .. (i - 1), queue[l][j][1] = u PROVE FALSE
    <3>1. j \in DOMAIN queue[l] /\ j < i
      <4>1. queue[l] \in Seq(Tasks \X Modes)
        BY DEF LockInv, TypeOK
      <4>2. DOMAIN queue[l] = 1 .. Len(queue[l]) /\ Len(queue[l]) \in Nat
        BY <4>1
      <4> QED  BY <2>1, <4>2
    <3> QED  BY <1>4, <1>5, <2>2, <2>3, <3>1
  <2> QED  BY <2>1, <2>3
<1>10. Rank[l] < Rank[Op(u).lock]
  BY <1>1, <1>9, WaitsAbove
<1> QED  BY <1>1, <1>2, <1>3, <1>10

\* No set of tasks ever waits on itself, however many tasks there are, when none of
\* them lists projects: the claim of state.rs, with the exception that breaks it.
THEOREM NeverWaitsInACycle ==
  ASSUME "ListProjects" \notin Served
  PROVE  Spec => []NoWaitCycle
BY GuardsFollowPrograms, OrderedNeverWaitsInACycle, PTL

\* Whoever holds the config or the router does no slow work, nor waits for a lock whose
\* holder does, however many tasks there are.
THEOREM ConfigStaysFree ==
  ASSUME "ListProjects" \notin Served
  PROVE  Spec => []SlowLeavesConfigFree
<1>1. LockInv => SlowLeavesConfigFree
  <2> SUFFICES ASSUME LockInv, NEW t \in Tasks, NEW u \in Tasks, At(u, "slow"),
                      t = u \/ BlockedBy(t, u), NEW g \in {"config", "router"}, Holds(t, g)
               PROVE  FALSE
    BY DEF SlowLeavesConfigFree
  <2>1. g \in Locks /\ g \notin SlowLocks
    BY DEF Locks, SlowLocks
  <2>2. ASSUME NEW l \in Locks, Holds(u, l) PROVE l \in SlowLocks
    <3>1. Busy(u) /\ l \in Guarded(Program[req[u]], pc[u])
      BY <2>2 DEF LockInv, GuardsInv
    <3>2. Ordered(Program[req[u]]) /\ pc[u] \in DOMAIN Program[req[u]]
      BY <3>1, ProgramOf DEF At, LockInv
    <3> QED  BY <3>1, <3>2 DEF Ordered, At, Op
  <2>3. t # u
    BY <2>1, <2>2
  <2>4. Busy(t) /\ g \in Guarded(Program[req[t]], pc[t]) /\ At(t, "acquire")
    BY <2>1, <2>3 DEF LockInv, GuardsInv, BlockedBy
  <2>5. /\ Ordered(Program[req[t]]) /\ pc[t] \in DOMAIN Program[req[t]]
        /\ Op(t).lock \in Locks
    BY <2>4, ProgramOf DEF At, LockInv, Operations
  <2>6. Op(t).lock \notin SlowLocks
    BY <2>4, <2>5 DEF Ordered, At, Op
  <2>7. ~Holds(u, Op(t).lock)
    BY <2>2, <2>5, <2>6
  <2>8. PICK j \in DOMAIN queue[Op(t).lock] : queue[Op(t).lock][j][1] = u
    <3>1. PICK i \in DOMAIN queue[Op(t).lock] : \E j \in 1 .. (i - 1) : queue[Op(t).lock][j][1] = u
      BY <2>3, <2>7 DEF BlockedBy, Holds
    <3>2. queue[Op(t).lock] \in Seq(Tasks \X Modes)
      BY <2>5 DEF LockInv, TypeOK
    <3> QED  BY <3>1, <3>2
  <2>9. At(u, "acquire")
    BY <2>5, <2>8 DEF LockInv, QueueInv
  <2> QED  BY <2>9 DEF At
<1> QED  BY <1>1, GuardsFollowPrograms, PTL

-----------------------------------------------------------------------------
(* The instance. *)

CONSTANTS t1, t2   \* two tasks, and two clients of jobs

VARIABLES part, v1, v2, v3, v4, v5, v6, v7, v8, v9, v10, v11, v12

slots == <<v1, v2, v3, v4, v5, v6, v7, v8, v9, v10, v11, v12>>
partsVars == <<vars, part, slots>>

J == INSTANCE JobRegistry WITH LogCap <- 1, TerminalCap <- 1, MaxJobs <- 2, MaxLines <- 1,
      JobKinds <- {"tool", "cloudflared", "login"}, Clients <- Tasks, next <- v1, state <- v2,
      log <- v3, dropped <- v4, cancel <- v5, kind <- v6, task <- v7, outcome <- v8,
      queue <- v9, emitted <- v10, holder <- v11, client <- v12

\* The slots from the n-th on, in a behaviour of a part that has fewer variables.
Free12 == v12 = 0
Free11 == v11 = 0 /\ Free12
Free10 == v10 = 0 /\ Free11
Free9 == v9 = 0 /\ Free10
Free8 == v8 = 0 /\ Free9
Free7 == v7 = 0 /\ Free8
Free6 == v6 = 0 /\ Free7
Free5 == v5 = 0 /\ Free6
Free4 == v4 = 0 /\ Free5
Free3 == v3 = 0 /\ Free4
Free2 == v2 = 0 /\ Free3
Free1 == v1 = 0 /\ Free2
Kept12 == UNCHANGED v12
Kept11 == UNCHANGED v11 /\ Kept12
Kept10 == UNCHANGED v10 /\ Kept11
Kept9 == UNCHANGED v9 /\ Kept10
Kept8 == UNCHANGED v8 /\ Kept9
Kept7 == UNCHANGED v7 /\ Kept8
Kept6 == UNCHANGED v6 /\ Kept7
Kept5 == UNCHANGED v5 /\ Kept6
Kept4 == UNCHANGED v4 /\ Kept5
Kept3 == UNCHANGED v3 /\ Kept4
Kept2 == UNCHANGED v2 /\ Kept3
Kept1 == UNCHANGED v1 /\ Kept2

PartsInit ==
    \/ part = "locks" /\ Init /\ Free1
    \/ part = "jobs" /\ J!Init /\ Init

PartsNext ==
    \/ part = "locks" /\ Next /\ UNCHANGED part /\ Kept1
    \/ part = "jobs" /\ J!Next /\ UNCHANGED <<vars, part>>

Fairness ==
    /\ \A i \in J!Ids : WF_partsVars(part = "jobs" /\ J!CreateInsert(i) /\ UNCHANGED <<vars, part>>)
    /\ \A i \in J!Ids : WF_partsVars(part = "jobs" /\ J!Acquire(i) /\ UNCHANGED <<vars, part>>)
    /\ \A i \in J!Ids : WF_partsVars(part = "jobs" /\ J!Drain(i) /\ UNCHANGED <<vars, part>>)
    /\ \A i \in J!Ids : WF_partsVars(part = "jobs" /\ J!Finish(i) /\ UNCHANGED <<vars, part>>)
    /\ \A i \in J!Ids : WF_partsVars(part = "jobs" /\ (\E s \in J!Terminal : J!EndWork(i, s)) /\ UNCHANGED <<vars, part>>)
    /\ \A c \in Tasks : WF_partsVars(part = "jobs" /\ J!poll(c) /\ UNCHANGED <<vars, part>>)
    /\ \A t \in Tasks : WF_partsVars(part = "locks" /\ Work(t) /\ UNCHANGED part /\ Kept1)
    /\ \A l \in Locks : WF_partsVars(part = "locks" /\ Grant(l) /\ UNCHANGED part /\ Kept1)

PartsSpec == PartsInit /\ [][PartsNext]_partsVars /\ Fairness

-----------------------------------------------------------------------------
\* Who waits for the n-th answer of the part.  The tasks and clients are alike: t1 stands
\* for each of them.
Waits(n) ==
    \/ part = "locks" /\ n = 1 /\ Busy(t1)
    \/ part = "jobs" /\ IF n < 3 THEN J!JobWaits(n - 1) ELSE J!ClientWaits(t1)

\* Every request is answered and every job ends: no handler waits forever for a lock, a
\* streamed job gets its mutate lock and comes to its end, and its client learns of it.
EveryoneAnswered ==
    /\ []TypeOK
    /\ \A n \in 1 .. 3 : Waits(n) ~> ~Waits(n)
=============================================================================
