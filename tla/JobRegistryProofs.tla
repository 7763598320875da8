------------------------- MODULE JobRegistryProofs -------------------------
(***************************************************************************)
(* Safety of the job registry for every number of jobs, clients and lines  *)
(* and every LOG_CAP and TERMINAL_CAP.                                     *)
(***************************************************************************)
EXTENDS JobRegistry, SequenceTheorems, FiniteSetTheorems, WellFoundedInduction, TLAPS

\* Where the task of a job stands fixes what the map may hold for it.
TaskInv ==
  \A i \in Ids :
    /\ i >= next <=> task[i] = "none"
    /\ task[i] \in {"none", "drawn"} =>
         /\ state[i] = "absent" /\ log[i] = <<>> /\ dropped[i] = 0
         /\ queue[i] = <<>> /\ emitted[i] = 0
    /\ task[i] \in {"waiting", "working", "draining"} <=> state[i] = "running"
    /\ task[i] = "done" => queue[i] = <<>>

\* The lines in flight are the newest ones, in order.
QueueInv ==
  \A i \in Ids : \A k \in 1 .. Len(queue[i]) :
    queue[i][k] = emitted[i] - Len(queue[i]) + k

\* What a client was told about its job.
Told(c) ==
  LET i == client[c].job IN
    /\ i < next
    /\ i = NoJob => client[c].saw = "nothing"
    /\ i # NoJob /\ task[i] = "drawn" => client[c].cursor = 0 /\ client[c].saw = "nothing"
    /\ client[c].saw \in Terminal => task[i] = "done" /\ client[c].cursor = emitted[i]
    /\ i # NoJob /\ state[i] # "absent" => client[c].cursor <= dropped[i] + Len(log[i])

ClientInv == \A c \in Clients : Told(c)

-----------------------------------------------------------------------------

\* What is left of a sequence after its first n elements.
LEMMA TailProperties ==
  ASSUME NEW S, NEW s \in Seq(S), NEW n \in 0 .. Len(s)
  PROVE  /\ Tail_(s, n) \in Seq(S)
         /\ Len(Tail_(s, n)) = Len(s) - n
         /\ \A k \in 1 .. Len(s) - n : Tail_(s, n)[k] = s[n + k]
BY SubSeqProperties DEF Tail_

\* `poll' never starts before the retained log or behind its end.
LEMMA StartInLog ==
  ASSUME TypeOK, NEW i \in Ids, NEW cursor \in Nat
  PROVE  Start(i, cursor) \in 0 .. Len(log[i])
<1>1. Len(log[i]) \in Nat /\ dropped[i] \in Nat
  BY DEF TypeOK
<1> QED BY <1>1 DEF Start

\* `push_log' evicts no more lines than there are.
LEMMA OverInLog ==
  ASSUME NEW s \in Seq(Nat)
  PROVE  Over(s) \in 0 .. Len(s)
BY LogCapAssumption DEF Over

\* Initially every variable has its type.
LEMMA InitType == Init => TypeOK
BY MaxJobsAssumption DEF Init, TypeOK, Client, Ids, NoJob, JobStates, Kinds, Terminal, Mutexes

\* Every step keeps every variable in its type.
LEMMA NextType == TypeOK /\ [Next]_vars => TypeOK'
<1> SUFFICES ASSUME TypeOK, [Next]_vars PROVE TypeOK'
  BY Zenon
<1>1. ASSUME NEW c \in Clients, NEW k \in JobKinds, CreateDraw(c, k) PROVE TypeOK'
  <2>1. next \in Ids /\ next + 1 \in 0 .. MaxJobs
    BY <1>1, MaxJobsAssumption DEF CreateDraw, TypeOK, Ids
  <2>2. [job |-> next, cursor |-> 0, got |-> <<>>, saw |-> "nothing"] \in Client
    BY <2>1 DEF Client
  <2>3. k \in Kinds
    BY Zenon, JobKindsAssumption DEF Kinds
  <2> QED BY Zenon, <1>1, <2>1, <2>2, <2>3 DEF CreateDraw, TypeOK
<1>2. ASSUME NEW i \in Ids, CreateInsert(i) PROVE TypeOK'
  BY <1>2 DEF CreateInsert, TypeOK, JobStates
<1>3. ASSUME NEW c \in Clients, poll(c) PROVE TypeOK'
  <2> DEFINE i == client[c].job
             lines == Tail_(log[i], Start(i, client[c].cursor))
             told == [job |-> i, cursor |-> dropped[i] + Len(log[i]),
                      got |-> client[c].got \o lines, saw |-> state[i]]
             lost == [job |-> i, cursor |-> client[c].cursor, got |-> client[c].got,
                      saw |-> "not_found"]
  <2>1. client[c] \in Client
    BY Zenon DEF TypeOK
  <2>2. i \in Ids /\ client[c].cursor \in Nat /\ client[c].got \in Seq(Nat)
    BY Zenon, <1>3, <2>1 DEF poll, following, Client
  <2>3. log[i] \in Seq(Nat) /\ dropped[i] \in Nat /\ state[i] \in JobStates
    BY Zenon, <2>2 DEF TypeOK
  <2>4. lines \in Seq(Nat)
    BY <2>2, <2>3, StartInLog, TailProperties, Zenon
  <2>5. client[c].got \o lines \in Seq(Nat)
    BY Zenon, <2>2, <2>4, ConcatProperties
  <2>6. state[i] # "absent" => told \in Client
    BY <2>1, <2>2, <2>3, <2>5 DEF Client, JobStates
  <2>7. lost \in Client
    BY Zenon, <2>2 DEF Client
  <2>8. client' = [client EXCEPT ![c] = IF state[i] = "absent" THEN lost ELSE told]
    BY Zenon, <1>3 DEF poll
  <2>9. client' \in [Clients -> Client]
    <3> HIDE DEF lost, told
    <3> QED BY Zenon, <2>6, <2>7, <2>8 DEF TypeOK
  <2> QED BY Zenon, <1>3, <2>9 DEF poll, TypeOK, registry, tasks
<1>4. ASSUME NEW c \in Clients, CancelJob(c) PROVE TypeOK'
  BY <1>4, Zenon DEF CancelJob, TypeOK, tasks, following
<1>5. ASSUME NEW i \in Ids, Acquire(i) PROVE TypeOK'
  BY Zenon, <1>5 DEF Acquire, TypeOK, registry, mutex, Mutexes
<1>6. ASSUME NEW i \in Ids, CancelWaiting(i) PROVE TypeOK'
  BY Zenon, <1>6 DEF CancelWaiting, TypeOK, registry, Terminal
<1>7. ASSUME NEW i \in Ids, Emit(i) PROVE TypeOK'
  <2>1. emitted[i] + 1 \in Nat /\ Append(queue[i], emitted[i] + 1) \in Seq(Nat)
    BY DEF TypeOK
  <2> QED BY Zenon, <1>7, <2>1 DEF Emit, TypeOK, registry
<1>8. ASSUME NEW i \in Ids, Drain(i) PROVE TypeOK'
  <2> DEFINE longer == Append(log[i], Head(queue[i]))
  <2>1. Head(queue[i]) \in Nat /\ Tail(queue[i]) \in Seq(Nat)
    BY <1>8 DEF Drain, TypeOK
  <2>2. longer \in Seq(Nat)
    BY <2>1 DEF TypeOK
  <2>3. Over(longer) \in 0 .. Len(longer) /\ Tail_(longer, Over(longer)) \in Seq(Nat)
    BY <2>2, OverInLog, TailProperties, Zenon
  <2>4. dropped[i] + Over(longer) \in Nat
    BY <2>2, <2>3 DEF TypeOK
  <2>5. log' \in [Ids -> Seq(Nat)] /\ dropped' \in [Ids -> Nat]
    BY <1>8, <2>3, <2>4, Zenon DEF Drain, push_log, TypeOK
  <2> QED BY <1>8, <2>1, <2>5, Zenon DEF Drain, TypeOK
<1>9. ASSUME NEW i \in Ids, NEW s \in Terminal, EndWork(i, s) PROVE TypeOK'
  BY <1>9, Zenon DEF EndWork, TypeOK, registry, NoJob
<1>10. ASSUME NEW i \in Ids, Finish(i) PROVE TypeOK'
  BY Zenon, <1>10 DEF Finish, finish, TypeOK, NoJob, JobStates
<1>11. CASE UNCHANGED vars
  BY Zenon, <1>11 DEF TypeOK, vars
<1> QED BY Zenon, <1>1, <1>2, <1>3, <1>4, <1>5, <1>6, <1>7, <1>8, <1>9, <1>10, <1>11 DEF Next

\* Every variable keeps its type.
THEOREM TypeCorrect == Spec => []TypeOK
BY InitType, NextType, PTL DEF Spec

-----------------------------------------------------------------------------
(* The task of a job and its entry in the map. *)

\* A freshly drawn id has no task and no entry; afterwards both move together.
LEMMA NextTask == TypeOK /\ TaskInv /\ [Next]_vars => TaskInv'
<1> SUFFICES ASSUME TypeOK, TaskInv, [Next]_vars PROVE TaskInv'
  BY Zenon
<1>1. ASSUME NEW c \in Clients, NEW k \in JobKinds, CreateDraw(c, k) PROVE TaskInv'
  BY <1>1 DEF CreateDraw, TypeOK, TaskInv, Ids
<1>2. ASSUME NEW i \in Ids, CreateInsert(i) PROVE TaskInv'
  BY Zenon, <1>2 DEF CreateInsert, TypeOK, TaskInv, prune_terminal, is_terminal, Terminal
<1>3. ASSUME NEW c \in Clients, poll(c) \/ CancelJob(c) PROVE TaskInv'
  BY <1>3, Zenon DEF poll, CancelJob, TaskInv, registry, tasks
<1>4. ASSUME NEW i \in Ids, Acquire(i) \/ CancelWaiting(i) PROVE TaskInv'
  BY <1>4 DEF Acquire, CancelWaiting, TypeOK, TaskInv, registry
<1>5. ASSUME NEW i \in Ids, Emit(i) PROVE TaskInv'
  BY Zenon, <1>5 DEF Emit, TypeOK, TaskInv, registry
<1>6. ASSUME NEW i \in Ids, Drain(i) PROVE TaskInv'
  <2>1. task[i] \in {"waiting", "working", "draining"}
    BY Zenon, <1>6 DEF Drain, TypeOK, TaskInv
  <2>2. \A j \in Ids \ {i} : log'[j] = log[j] /\ dropped'[j] = dropped[j] /\ queue'[j] = queue[j]
    BY Zenon, <1>6 DEF Drain, push_log, TypeOK
  <2> QED BY Zenon, <1>6, <2>1, <2>2 DEF Drain, TaskInv
<1>7. ASSUME NEW i \in Ids, NEW s \in Terminal, EndWork(i, s) PROVE TaskInv'
  BY Zenon, <1>7 DEF EndWork, TypeOK, TaskInv, registry
<1>8. ASSUME NEW i \in Ids, Finish(i) PROVE TaskInv'
  BY <1>8, Zenon DEF Finish, finish, TypeOK, TaskInv, Terminal
<1>9. CASE UNCHANGED vars
  BY Zenon, <1>9 DEF TaskInv, vars
<1> QED BY Zenon, <1>1, <1>2, <1>3, <1>4, <1>5, <1>6, <1>7, <1>8, <1>9 DEF Next

LEMMA InitTask == Init => TaskInv
BY MaxJobsAssumption DEF Init, TaskInv, Ids

\* The registry never forgets a job at work, and never shows one that is not.
THEOREM NeverPrunesRunning == Spec => []RunningNeverPruned
<1>1. TaskInv => RunningNeverPruned
  BY Zenon DEF TaskInv, RunningNeverPruned
<1> QED BY <1>1, InitType, NextType, InitTask, NextTask, PTL DEF Spec

-----------------------------------------------------------------------------
(* The log. *)

\* The log l, with d lines evicted before it and the lines q in flight, is the
\* window of the e lines emitted; and q is their end.
Window(l, d, q, e) ==
  /\ Len(l) <= LogCap
  /\ \A k \in 1 .. Len(l) : l[k] = d + k
  /\ d + Len(l) + Len(q) = e
Newest(q, e) == \A k \in 1 .. Len(q) : q[k] = e - Len(q) + k

\* A line handed to the drain task is the newest one in flight.
LEMMA EmitLine ==
  ASSUME NEW l \in Seq(Nat), NEW d \in Nat, NEW q \in Seq(Nat), NEW e \in Nat,
         Newest(q, e)
  PROVE  /\ Newest(Append(q, e + 1), e + 1)
         /\ Window(l, d, q, e) => Window(l, d, Append(q, e + 1), e + 1)
<1> DEFINE r == Append(q, e + 1)
<1>1. Len(r) = Len(q) + 1 /\ Len(q) \in Nat
  OBVIOUS
<1>2. ASSUME NEW k \in 1 .. Len(r) PROVE r[k] = e + 1 - Len(r) + k
  <2>1. CASE k = Len(q) + 1
    BY <1>1, <2>1
  <2>2. CASE k # Len(q) + 1
    <3>1. k \in 1 .. Len(q)
      BY <1>1, <2>2
    <3>2. r[k] = q[k] /\ q[k] = e - Len(q) + k
      BY <3>1 DEF Newest
    <3> QED BY <1>1, <3>1, <3>2
  <2> QED BY Zenon, <2>1, <2>2
<1>3. Newest(r, e + 1)
  BY <1>2 DEF Newest
<1>4. Window(l, d, q, e) => Window(l, d, r, e + 1)
  BY <1>1 DEF Window
<1> QED BY Zenon, <1>3, <1>4

\* A line goes from the queue to the log, and o lines are evicted.
LEMMA SumKept ==
  \A d, n, m, o, e \in Nat : d + n + m = e => d + o + (n + 1 - o) + (m - 1) = e
OBVIOUS

\* `push_log' of the oldest line in flight moves the window on by that line and
\* evicts exactly the excess.
LEMMA PushLine ==
  ASSUME NEW l \in Seq(Nat), NEW d \in Nat, NEW q \in Seq(Nat), NEW e \in Nat,
         q # <<>>, Window(l, d, q, e), Newest(q, e),
         NEW longer, longer = Append(l, Head(q))
  PROVE  /\ Newest(Tail(q), e)
         /\ Window(Tail_(longer, Over(longer)), d + Over(longer), Tail(q), e)
<1>1. /\ Len(q) \in Nat \ {0} /\ Head(q) = q[1] /\ Len(l) \in Nat
      /\ Tail(q) \in Seq(Nat) /\ Len(Tail(q)) = Len(q) - 1
  OBVIOUS
<1>2. ASSUME NEW k \in 1 .. Len(Tail(q)) PROVE Tail(q)[k] = e - Len(Tail(q)) + k
  <2>1. k + 1 \in 1 .. Len(q) /\ Tail(q)[k] = q[k + 1]
    BY <1>1
  <2>2. q[k + 1] = e - Len(q) + (k + 1)
    BY Zenon, <2>1 DEF Newest
  <2> QED BY <1>1, <2>1, <2>2
<1>3. q[1] = e - Len(q) + 1
  BY <1>1 DEF Newest
<1>4. Head(q) = d + Len(l) + 1 /\ Head(q) \in Nat
  <2>1. d + Len(l) + Len(q) = e /\ Head(q) \in Nat
    BY <1>1 DEF Window
  <2>2. \A a, b, x \in Nat : a + b = x => x - b + 1 = a + 1
    OBVIOUS
  <2> QED BY <1>1, <1>3, <2>1, <2>2
<1>5. longer \in Seq(Nat) /\ Len(longer) = Len(l) + 1
  BY <1>4
<1>6. ASSUME NEW k \in 1 .. Len(longer) PROVE longer[k] = d + k
  <2>1. CASE k = Len(l) + 1
    BY <1>1, <1>4, <2>1
  <2>2. CASE k # Len(l) + 1
    <3>1. k \in 1 .. Len(l)
      BY <1>1, <1>5, <2>2
    <3>2. longer[k] = l[k] /\ l[k] = d + k
      BY <3>1, <1>4 DEF Window
    <3> QED BY Zenon, <3>2
  <2> QED BY Zenon, <2>1, <2>2
<1> DEFINE over == Over(longer)
           rest == Tail_(longer, over)
<1>7. over \in 0 .. Len(longer) /\ Len(longer) - over <= LogCap
  BY <1>1, <1>5, LogCapAssumption DEF Over
<1> HIDE DEF over
<1>8. /\ Len(rest) = Len(longer) - over
      /\ \A k \in 1 .. Len(longer) - over : rest[k] = longer[over + k]
  BY <1>5, <1>7, TailProperties, Zenon
<1>9. ASSUME NEW k \in 1 .. Len(rest) PROVE rest[k] = d + over + k
  <2>1. over + k \in 1 .. Len(longer) /\ k \in 1 .. Len(longer) - over
    BY <1>1, <1>5, <1>7, <1>8
  <2>2. rest[k] = longer[over + k] /\ longer[over + k] = d + (over + k)
    BY Zenon, <1>6, <1>8, <2>1
  <2>3. over \in Nat /\ k \in Nat /\ d + (over + k) = d + over + k
    BY <1>7, <2>1
  <2> QED BY <2>2, <2>3, Zenon
<1> HIDE DEF rest
<1>10. d + over + Len(rest) + Len(Tail(q)) = e
  <2>1. d + Len(l) + Len(q) = e
    BY Zenon DEF Window
  <2>2. d \in Nat /\ e \in Nat /\ Len(l) \in Nat /\ Len(q) \in Nat /\ over \in Nat
    BY <1>1, <1>5, <1>7
  <2>3. Len(rest) = Len(l) + 1 - over /\ Len(Tail(q)) = Len(q) - 1
    <3>1. Len(rest) = Len(longer) - over /\ Len(longer) = Len(l) + 1 /\ Len(Tail(q)) = Len(q) - 1
      BY ONLY <1>1, <1>5, <1>8, Zenon
    <3> QED BY ONLY <2>2, <3>1, SMT
  <2>4. d + over + (Len(l) + 1 - over) + (Len(q) - 1) = e
    BY ONLY <2>1, <2>2, SumKept, SMT
  <2> QED BY ONLY <2>3, <2>4, Zenon
<1>11. Window(rest, d + over, Tail(q), e)
  BY Zenon, <1>7, <1>8, <1>9, <1>10 DEF Window
<1> QED BY Zenon, <1>2, <1>11 DEF Newest, rest, over

\* Every step keeps the log of a known job the window of the lines emitted.
LEMMA NextLog ==
  TypeOK /\ TaskInv /\ QueueInv /\ LogWindow /\ [Next]_vars => QueueInv' /\ LogWindow'
<1> SUFFICES ASSUME TypeOK, TaskInv, QueueInv, LogWindow, [Next]_vars
             PROVE  QueueInv' /\ LogWindow'
  BY Zenon
<1> DEFINE Q(i) == Newest(queue[i], emitted[i])
           W(i) == state[i] # "absent" => Window(log[i], dropped[i], queue[i], emitted[i])
<1>a. \A i \in Ids : Q(i) /\ W(i)
  BY Zenon DEF QueueInv, LogWindow, Newest, Window
<1>b. SUFFICES \A i \in Ids : Q(i)' /\ W(i)'
  BY Zenon DEF QueueInv, LogWindow, Newest, Window
<1>c. \A i \in Ids : log[i] \in Seq(Nat) /\ queue[i] \in Seq(Nat) /\ dropped[i] \in Nat /\ emitted[i] \in Nat
  BY Zenon DEF TypeOK
<1>0. ASSUME UNCHANGED <<state, log, dropped, queue, emitted>> PROVE \A i \in Ids : Q(i)' /\ W(i)'
  BY Zenon, <1>0, <1>a
<1>1. ASSUME NEW c \in Clients, NEW k \in JobKinds, CreateDraw(c, k) PROVE \A i \in Ids : Q(i)' /\ W(i)'
  BY Zenon, <1>0, <1>1 DEF CreateDraw
<1>2. ASSUME NEW i \in Ids, CreateInsert(i), NEW j \in Ids PROVE Q(j)' /\ W(j)'
  <2>1. queue'[j] = queue[j] /\ emitted'[j] = emitted[j]
    BY Zenon, <1>2 DEF CreateInsert
  <2>2. CASE j = i
    <3>1. log'[j] = <<>> /\ dropped'[j] = 0 /\ queue'[j] = <<>> /\ emitted'[j] = 0
      BY Zenon, <1>2, <2>2 DEF CreateInsert, TaskInv
    <3>2. Window(<<>>, 0, <<>>, 0) /\ Newest(<<>>, 0)
      BY LogCapAssumption DEF Window, Newest
    <3> QED BY Zenon, <3>1, <3>2
  <2>3. CASE j # i
    <3>1. state'[j] # "absent" =>
            state[j] # "absent" /\ log'[j] = log[j] /\ dropped'[j] = dropped[j]
      BY Zenon, <1>2, <2>3 DEF CreateInsert
    <3> QED BY Zenon, <1>a, <2>1, <3>1
  <2> QED BY Zenon, <2>2, <2>3
<1>3. ASSUME NEW c \in Clients, poll(c) \/ CancelJob(c) PROVE \A i \in Ids : Q(i)' /\ W(i)'
  BY <1>0, <1>3, Zenon DEF poll, CancelJob, registry, tasks
<1>4. ASSUME NEW i \in Ids, Acquire(i) \/ CancelWaiting(i) PROVE \A j \in Ids : Q(j)' /\ W(j)'
  BY Zenon, <1>0, <1>4 DEF Acquire, CancelWaiting, registry
<1>5. ASSUME NEW i \in Ids, Emit(i), NEW j \in Ids PROVE Q(j)' /\ W(j)'
  <2>1. UNCHANGED <<state, log, dropped>>
    BY Zenon, <1>5 DEF Emit, registry
  <2>2. CASE j = i
    <3>1. emitted'[i] = emitted[i] + 1 /\ queue'[i] = Append(queue[i], emitted[i] + 1)
      BY Zenon, <1>5 DEF Emit, TypeOK
    <3> QED BY <1>a, <1>c, <2>1, <2>2, <3>1, EmitLine
  <2>3. CASE j # i
    <3>1. emitted'[j] = emitted[j] /\ queue'[j] = queue[j]
      BY Zenon, <1>5, <2>3 DEF Emit, TypeOK
    <3> QED BY Zenon, <1>a, <2>1, <3>1
  <2> QED BY Zenon, <2>2, <2>3
<1>6. ASSUME NEW i \in Ids, Drain(i), NEW j \in Ids PROVE Q(j)' /\ W(j)'
  <2>1. state[i] = "running" /\ queue[i] # <<>> /\ UNCHANGED <<state, emitted>>
    BY Zenon, <1>6 DEF Drain, TypeOK, TaskInv
  <2>2. CASE j = i
    <3> DEFINE longer == Append(log[i], Head(queue[i]))
    <3>1. /\ queue'[i] = Tail(queue[i]) /\ log'[i] = Tail_(longer, Over(longer))
          /\ dropped'[i] = dropped[i] + Over(longer)
      BY Zenon, <1>6, <2>1 DEF Drain, push_log, TypeOK
    <3>2. /\ Newest(Tail(queue[i]), emitted[i])
          /\ Window(Tail_(longer, Over(longer)), dropped[i] + Over(longer), Tail(queue[i]), emitted[i])
      BY <1>a, <1>c, <2>1, PushLine, Zenon
    <3> QED BY Zenon, <2>1, <2>2, <3>1, <3>2
  <2>3. CASE j # i
    <3>1. log'[j] = log[j] /\ dropped'[j] = dropped[j] /\ queue'[j] = queue[j]
      BY Zenon, <1>6, <2>3 DEF Drain, push_log, TypeOK
    <3> QED BY Zenon, <1>a, <2>1, <3>1
  <2> QED BY Zenon, <2>2, <2>3
<1>7. ASSUME NEW i \in Ids, NEW s \in Terminal, EndWork(i, s) PROVE \A j \in Ids : Q(j)' /\ W(j)'
  BY Zenon, <1>0, <1>7 DEF EndWork, registry
<1>8. ASSUME NEW i \in Ids, Finish(i), NEW j \in Ids PROVE Q(j)' /\ W(j)'
  <2>1. UNCHANGED <<log, dropped, queue, emitted>> /\ (state'[j] # "absent" => state[j] # "absent")
    BY Zenon, <1>8 DEF Finish, finish, TypeOK
  <2> QED BY Zenon, <1>a, <2>1
<1>9. CASE UNCHANGED vars
  BY Zenon, <1>0, <1>9 DEF vars
<1> HIDE DEF Q, W
<1> QED BY Zenon, <1>1, <1>2, <1>3, <1>4, <1>5, <1>6, <1>7, <1>8, <1>9 DEF Next

LEMMA InitLog == Init => QueueInv /\ LogWindow
BY DEF Init, QueueInv, LogWindow

\* The retained log is always the newest lines pushed, without a hole.
THEOREM LogIsWindow == Spec => []LogWindow
BY InitType, NextType, InitTask, NextTask, InitLog, NextLog, PTL DEF Spec

-----------------------------------------------------------------------------
(* The mutate locks and cancellation. *)

\* A step that does not give a job the lock of another one keeps the locks exclusive.
LEMMA NextMutex == TypeOK /\ TaskInv /\ MutexHeldByWorker /\ [Next]_vars => MutexHeldByWorker'
<1> SUFFICES ASSUME TypeOK, TaskInv, MutexHeldByWorker, [Next]_vars PROVE MutexHeldByWorker'
  BY Zenon
<1>1. ASSUME NEW c \in Clients, NEW k \in JobKinds, CreateDraw(c, k) PROVE MutexHeldByWorker'
  BY Zenon, <1>1 DEF CreateDraw, TypeOK, MutexHeldByWorker, mutex
<1>2. ASSUME NEW i \in Ids, CreateInsert(i) PROVE MutexHeldByWorker'
  BY Zenon, <1>2 DEF CreateInsert, TypeOK, MutexHeldByWorker, mutex
<1>3. ASSUME NEW c \in Clients, poll(c) \/ CancelJob(c) PROVE MutexHeldByWorker'
  BY <1>3, Zenon DEF poll, CancelJob, MutexHeldByWorker, mutex, tasks
<1>4. ASSUME NEW i \in Ids, Acquire(i) PROVE MutexHeldByWorker'
  BY <1>4 DEF Acquire, TypeOK, MutexHeldByWorker, mutex, Mutexes, Ids, NoJob
<1>5. ASSUME NEW i \in Ids, CancelWaiting(i) \/ Emit(i) \/ Drain(i) PROVE MutexHeldByWorker'
  BY Zenon, <1>5 DEF CancelWaiting, Emit, Drain, TypeOK, MutexHeldByWorker, mutex
<1>6. ASSUME NEW i \in Ids, NEW s \in Terminal, EndWork(i, s) PROVE MutexHeldByWorker'
  BY <1>6 DEF EndWork, TypeOK, MutexHeldByWorker, mutex, Mutexes
<1>7. ASSUME NEW i \in Ids, Finish(i) PROVE MutexHeldByWorker'
  BY Zenon, <1>7 DEF Finish, TypeOK, MutexHeldByWorker, mutex, Mutexes
<1>8. CASE UNCHANGED vars
  BY Zenon, <1>8 DEF MutexHeldByWorker, mutex, vars
<1> QED BY Zenon, <1>1, <1>2, <1>3, <1>4, <1>5, <1>6, <1>7, <1>8 DEF Next

\* Two installs, or an install and a login, never work under one mutate lock.
THEOREM MutexExclusive == Spec => []MutexHeldByWorker
<1>1. Init => MutexHeldByWorker
  BY Zenon DEF Init, MutexHeldByWorker
<1> QED BY <1>1, InitType, NextType, InitTask, NextTask, NextMutex, PTL DEF Spec

\* A running job keeps its cancel channel, so only a request closes it.
LEMMA NextCancelled == TypeOK /\ TaskInv /\ CancelledOnlyIfAsked /\ [Next]_vars => CancelledOnlyIfAsked'
<1> SUFFICES ASSUME TypeOK, TaskInv, CancelledOnlyIfAsked, [Next]_vars PROVE CancelledOnlyIfAsked'
  BY Zenon
<1>1. ASSUME NEW c \in Clients, NEW k \in JobKinds, CreateDraw(c, k) PROVE CancelledOnlyIfAsked'
  BY Zenon, <1>1 DEF CreateDraw, TypeOK, CancelledOnlyIfAsked
<1>2. ASSUME NEW i \in Ids, CreateInsert(i) PROVE CancelledOnlyIfAsked'
  BY Zenon, <1>2 DEF CreateInsert, TypeOK, TaskInv, CancelledOnlyIfAsked, prune_terminal, is_terminal, Terminal
<1>3. ASSUME NEW c \in Clients, poll(c) \/ CancelJob(c) PROVE CancelledOnlyIfAsked'
  BY <1>3, Zenon DEF poll, CancelJob, TypeOK, CancelledOnlyIfAsked, registry, tasks
<1>4. ASSUME NEW i \in Ids, Acquire(i) \/ Emit(i) \/ Drain(i) \/ Finish(i) PROVE CancelledOnlyIfAsked'
  BY Zenon, <1>4 DEF Acquire, Emit, Drain, Finish, TypeOK, CancelledOnlyIfAsked, registry
<1>5. ASSUME NEW i \in Ids, CancelWaiting(i) PROVE CancelledOnlyIfAsked'
  BY Zenon, <1>5 DEF CancelWaiting, cancel_changed, TypeOK, TaskInv, CancelledOnlyIfAsked, registry
<1>6. ASSUME NEW i \in Ids, NEW s \in Terminal, EndWork(i, s) PROVE CancelledOnlyIfAsked'
  BY Zenon, <1>6 DEF EndWork, cancel_changed, TypeOK, TaskInv, CancelledOnlyIfAsked, registry
<1>7. CASE UNCHANGED vars
  BY Zenon, <1>7 DEF CancelledOnlyIfAsked, vars
<1> QED BY Zenon, <1>1, <1>2, <1>3, <1>4, <1>5, <1>6, <1>7 DEF Next

\* No job is reported cancelled unless a client asked for it.
THEOREM CancelledIfAsked == Spec => []CancelledOnlyIfAsked
<1>1. Init => CancelledOnlyIfAsked
  BY Zenon DEF Init, CancelledOnlyIfAsked
<1> QED BY <1>1, InitType, NextType, InitTask, NextTask, NextCancelled, PTL DEF Spec

-----------------------------------------------------------------------------
(* What the clients are told. *)

\* The log l numbers its lines from d + 1; the lines g a client holds lie below
\* cursor c, are increasing, and miss none of the first c but the d evicted.
Numbered(l, d) == \A k \in 1 .. Len(l) : l[k] = d + k
Below(g, c) == \A k \in 1 .. Len(g) : g[k] <= c
Increasing(g) == \A k \in 1 .. Len(g) - 1 : g[k] < g[k + 1]
NoHole(g, c, d) == \A n \in 1 .. c : n <= d \/ \E k \in 1 .. Len(g) : g[k] = n

\* Two facts of arithmetic about positions in a concatenation.
LEMMA BelowNext == \A a, b, x, y \in Nat : a <= b /\ b <= x + y => a < x + y + 1
OBVIOUS
LEMMA InSecondPart == \A a, b \in Nat : \A j \in 1 .. b : a + j \in 1 .. a + b
OBVIOUS

\* The last position of the first part, with another behind it; and a position
\* behind the first part that is not the last, counted from there.
LEMMA LastOfFirst ==
  \A a, b, n \in Nat : \A k \in 1 .. n - 1 : n = a + b /\ k = a => k \in 1 .. a /\ 1 \in 1 .. b
OBVIOUS
LEMMA FromSecondPart ==
  \A a, b, n \in Nat : \A k \in 1 .. n - 1 :
    n = a + b /\ k > a => k - a \in 1 .. b /\ k = a + (k - a) /\ (k - a) + 1 \in 1 .. b
OBVIOUS

\* A client that holds nothing misses nothing below cursor 0.
LEMMA NothingHeld == \A d : Below(<<>>, 0) /\ Increasing(<<>>) /\ NoHole(<<>>, 0, d)
BY DEF Below, Increasing, NoHole

\* The fields of what a client remembers.
LEMMA ClientFields ==
  \A j, n, g, s :
    /\ [job |-> j, cursor |-> n, got |-> g, saw |-> s].job = j
    /\ [job |-> j, cursor |-> n, got |-> g, saw |-> s].cursor = n
    /\ [job |-> j, cursor |-> n, got |-> g, saw |-> s].got = g
    /\ [job |-> j, cursor |-> n, got |-> g, saw |-> s].saw = s
BY Zenon

\* A job number below the counter stays below it; a sum without its last part.
LEMMA BelowSuccessor == \A n \in Nat, j \in Int : j < n => j < n + 1
OBVIOUS
LEMMA NoneInFlight == Len(<<>>) = 0 /\ \A a, b \in Nat : a + b + 0 = a + b
OBVIOUS

\* The lines a poll appends to those a client holds: all above its cursor, up to
\* the new one, without a hole behind the evicted lines.
LEMMA PollLines ==
  ASSUME NEW l \in Seq(Nat), NEW d \in Nat, NEW cur \in Nat, NEW got \in Seq(Nat),
         cur <= d + Len(l),
         NEW st \in 0 .. Len(l), st = IF cur > d THEN cur - d ELSE 0,
         Numbered(l, d), Below(got, cur), Increasing(got), NoHole(got, cur, d),
         NEW new, new = got \o Tail_(l, st)
  PROVE  Below(new, d + Len(l)) /\ Increasing(new) /\ NoHole(new, d + Len(l), d)
<1> DEFINE r == Tail_(l, st)
<1>1. /\ r \in Seq(Nat) /\ Len(r) = Len(l) - st /\ Len(l) \in Nat /\ Len(got) \in Nat /\ st \in Nat
      /\ \A k \in 1 .. Len(l) - st : r[k] = l[st + k]
  <2>1. Len(l) \in Nat /\ Len(got) \in Nat
    OBVIOUS
  <2>2. \A S : \A s \in Seq(S) : \A n \in 0 .. Len(s) :
          /\ Tail_(s, n) \in Seq(S) /\ Len(Tail_(s, n)) = Len(s) - n
          /\ \A k \in 1 .. Len(s) - n : Tail_(s, n)[k] = s[n + k]
    BY Zenon, TailProperties
  <2>3. /\ r \in Seq(Nat) /\ Len(r) = Len(l) - st
        /\ \A k \in 1 .. Len(l) - st : r[k] = l[st + k]
    BY <2>2, Zenon
  <2>4. st \in Nat
    BY <2>1
  <2> QED BY Zenon, <2>1, <2>3, <2>4
<1>2. \A k \in 1 .. Len(r) : r[k] = d + st + k
  <2> SUFFICES ASSUME NEW k \in 1 .. Len(r) PROVE r[k] = d + st + k
    BY Zenon
  <2>1. k \in 1 .. Len(l) - st /\ st + k \in 1 .. Len(l)
    BY <1>1
  <2>2. r[k] = d + (st + k)
    BY <1>1, <2>1, Zenon DEF Numbered
  <2>3. d + (st + k) = d + st + k
    BY <2>1
  <2> QED BY Zenon, <2>2, <2>3
<1> HIDE DEF r
<1>3. /\ new \in Seq(Nat) /\ Len(new) = Len(got) + Len(r)
      /\ \A k \in 1 .. Len(got) : new[k] = got[k]
      /\ \A k \in 1 .. Len(r) : new[Len(got) + k] = r[k]
  BY <1>1, ConcatProperties DEF r
<1>4. cur <= d + st
  OBVIOUS
<1>5. ASSUME NEW k \in 1 .. Len(new) PROVE new[k] <= d + Len(l)
  <2>1. CASE k \in 1 .. Len(got)
    <3>1. new[k] <= cur /\ new[k] \in Nat
      BY <1>3, <2>1 DEF Below
    <3> QED BY <1>1, <3>1
  <2>2. CASE k \notin 1 .. Len(got)
    <3>1. PICK j \in 1 .. Len(r) : k = Len(got) + j
      <4>1. k - Len(got) \in 1 .. Len(r) /\ k = Len(got) + (k - Len(got))
        BY <1>1, <1>3, <2>2
      <4> QED BY Zenon, <4>1
    <3>2. new[k] = d + st + j
      BY Zenon, <1>2, <1>3, <3>1
    <3> QED BY <1>1, <3>1, <3>2
  <2> QED BY Zenon, <2>1, <2>2
<1>6. ASSUME NEW k \in 1 .. Len(new) - 1 PROVE new[k] < new[k + 1]
  <2>1. CASE k + 1 <= Len(got)
    <3>1. k \in 1 .. Len(got) - 1 /\ k \in 1 .. Len(got) /\ k + 1 \in 1 .. Len(got)
      BY <1>1, <2>1
    <3>2. got[k] < got[k + 1]
      BY Zenon, <3>1 DEF Increasing
    <3> QED BY Zenon, <1>3, <3>1, <3>2
  <2>2. CASE k = Len(got)
    <3>1. k \in 1 .. Len(got) /\ 1 \in 1 .. Len(r)
      <4>1. Len(new) \in Nat /\ Len(r) \in Nat /\ Len(got) \in Nat
        BY <1>1, <1>3
      <4> QED BY <1>3, <1>6, <2>2, <4>1, LastOfFirst, Zenon
    <3>2. new[k] <= cur /\ new[k] \in Nat
      BY <1>3, <3>1 DEF Below
    <3>3. new[k + 1] = d + st + 1
      BY Zenon, <1>2, <1>3, <2>2, <3>1
    <3>4. new[k] < d + st + 1
      BY <1>1, <1>4, <3>2, BelowNext, Zenon
    <3> QED BY <3>3, <3>4, Zenon
  <2>3. CASE k > Len(got)
    <3>1. PICK j \in 1 .. Len(r) : k = Len(got) + j /\ j + 1 \in 1 .. Len(r)
      <4>1. Len(new) \in Nat /\ Len(r) \in Nat /\ Len(got) \in Nat
        BY <1>1, <1>3
      <4> DEFINE j == k - Len(got)
      <4>2. j \in 1 .. Len(r) /\ k = Len(got) + j /\ j + 1 \in 1 .. Len(r)
        BY <1>3, <1>6, <2>3, <4>1, FromSecondPart, Zenon
      <4> HIDE DEF j
      <4> QED BY Zenon, <4>2
    <3>2. new[k] = d + st + j
      BY Zenon, <1>2, <1>3, <3>1
    <3>3. k + 1 = Len(got) + (j + 1)
      BY <1>1, <3>1
    <3>4. new[k + 1] = d + st + (j + 1)
      BY <1>2, <1>3, <3>1, <3>3, Zenon
    <3> QED BY <3>1, <3>2, <3>4
  <2>4. k \in Nat
    BY <1>1, <1>3
  <2> QED BY <1>1, <2>1, <2>2, <2>3, <2>4
<1>7. ASSUME NEW n \in 1 .. d + Len(l), ~(n <= d) PROVE \E k \in 1 .. Len(new) : new[k] = n
  <2>1. CASE n <= cur
    <3>1. PICK k \in 1 .. Len(got) : got[k] = n
      BY <1>7, <2>1 DEF NoHole
    <3>2. k \in 1 .. Len(new) /\ new[k] = n
      BY <1>1, <1>3, <3>1
    <3> QED BY Zenon, <3>2
  <2>2. CASE n > cur
    <3>1. n - (d + st) \in 1 .. Len(r) /\ d + st + (n - (d + st)) = n
      BY <1>1, <1>7, <2>2
    <3>2. PICK j \in 1 .. Len(r) : d + st + j = n
      BY <3>1, Zenon
    <3>3. new[Len(got) + j] = n
      BY <1>2, <1>3, <3>2, Zenon
    <3>4. Len(got) + j \in 1 .. Len(new)
      <4>1. Len(r) \in Nat
        BY <1>1
      <4> QED BY <1>1, <1>3, <3>2, <4>1, InSecondPart, Zenon
    <3> QED BY Zenon, <3>3, <3>4
  <2> QED BY <2>1, <2>2
<1> QED BY Zenon, <1>5, <1>6, <1>7 DEF Below, Increasing, NoHole

\* What a client holds of a job the map still knows.
Holds(c) ==
  LET i == client[c].job IN
    /\ Below(client[c].got, client[c].cursor)
    /\ Increasing(client[c].got)
    /\ i # NoJob /\ state[i] # "absent" => NoHole(client[c].got, client[c].cursor, dropped[i])

\* How the registry and the task of a job move under a client that does nothing:
\* a job is not drawn again, the end stands, and the log only moves on.
Onward(i) ==
  /\ task'[i] = "drawn" => task[i] = "drawn"
  /\ task[i] = "done" => task'[i] = "done" /\ emitted'[i] = emitted[i]
  /\ state'[i] # "absent" =>
       \/ task[i] = "drawn" /\ dropped'[i] = 0
       \/ /\ state[i] # "absent"
          /\ dropped[i] <= dropped'[i]
          /\ dropped[i] + Len(log[i]) <= dropped'[i] + Len(log'[i])

\* Two facts of arithmetic about a window that moves on.
LEMMA StillBelow == \A c, a, b, x, y \in Nat : c <= a + b /\ a + b <= x + y => c <= x + y
OBVIOUS
LEMMA MovesOn ==
  \A a, b, q, x, y, r, e \in Nat : a + b + q = e /\ x + y + r = e /\ r <= q => a + b <= x + y
OBVIOUS

\* The steps that are not a client's.
TaskStep ==
  \E i \in Ids : \/ CreateInsert(i) \/ Acquire(i) \/ CancelWaiting(i)
                 \/ Emit(i) \/ Drain(i) \/ Finish(i)
                 \/ \E s \in Terminal : EndWork(i, s)

LEMMA TaskStepOnward ==
  ASSUME TypeOK, TaskInv, LogWindow, LogWindow', TypeOK', TaskStep, NEW j \in Ids
  PROVE  Onward(j)
<1>a. /\ log[j] \in Seq(Nat) /\ dropped[j] \in Nat /\ Len(log[j]) \in Nat
      /\ emitted[j] \in Nat /\ Len(queue[j]) \in Nat
      /\ log'[j] \in Seq(Nat) /\ dropped'[j] \in Nat /\ Len(log'[j]) \in Nat
      /\ Len(queue'[j]) \in Nat
  BY DEF TypeOK
<1>1. ASSUME NEW i \in Ids, CreateInsert(i) PROVE Onward(j)
  <2>1. CASE j = i
    BY Zenon, <1>1, <1>a, <2>1 DEF CreateInsert, Onward, TaskInv, TypeOK
  <2>2. CASE j # i
    BY <1>1, <1>a, <2>2 DEF CreateInsert, Onward, TypeOK
  <2> QED BY Zenon, <2>1, <2>2
<1>2. ASSUME NEW i \in Ids, Acquire(i) \/ CancelWaiting(i) PROVE Onward(j)
  BY <1>2, <1>a DEF Acquire, CancelWaiting, Onward, TypeOK, registry
<1>3. ASSUME NEW i \in Ids, Emit(i) PROVE Onward(j)
  BY <1>3, <1>a DEF Emit, Onward, TypeOK, registry
<1>4. ASSUME NEW i \in Ids, Drain(i) PROVE Onward(j)
  <2>1. CASE j = i
    <3>1. /\ state[j] = "running" /\ UNCHANGED <<state, task, emitted>>
          /\ queue'[j] = Tail(queue[j]) /\ queue[j] # <<>>
      BY Zenon, <1>4, <2>1 DEF Drain, TypeOK, TaskInv
    <3>2. Len(queue'[j]) <= Len(queue[j])
      BY <3>1 DEF TypeOK
    <3>3. /\ dropped[j] + Len(log[j]) + Len(queue[j]) = emitted[j]
          /\ dropped'[j] + Len(log'[j]) + Len(queue'[j]) = emitted[j]
      BY <3>1, Zenon DEF LogWindow
    <3>4. dropped[j] + Len(log[j]) <= dropped'[j] + Len(log'[j])
      BY <1>a, <3>2, <3>3, MovesOn, Zenon
    <3>5. dropped[j] <= dropped'[j]
      <4> DEFINE longer == Append(log[j], Head(queue[j]))
      <4>0. queue[j] \in Seq(Nat)
        BY Zenon DEF TypeOK
      <4>1. Head(queue[j]) \in Nat
        BY <3>1, <4>0
      <4>2. longer \in Seq(Nat)
        BY <1>a, <4>1
      <4>3. dropped'[j] = dropped[j] + Over(longer)
        BY Zenon, <1>4, <2>1, <3>1 DEF Drain, push_log, TypeOK
      <4> HIDE DEF longer
      <4>4. Over(longer) \in Nat
        BY <4>2, OverInLog
      <4> QED BY <1>a, <4>3, <4>4
    <3> QED BY Zenon, <3>1, <3>4, <3>5 DEF Onward
  <2>2. CASE j # i
    BY <1>4, <1>a, <2>2 DEF Drain, push_log, Onward, TypeOK
  <2> QED BY Zenon, <2>1, <2>2
<1>5. ASSUME NEW i \in Ids, Finish(i) PROVE Onward(j)
  BY <1>5, <1>a DEF Finish, finish, Onward, TypeOK
<1>6. ASSUME NEW i \in Ids, NEW s \in Terminal, EndWork(i, s) PROVE Onward(j)
  BY <1>6, <1>a DEF EndWork, Onward, TypeOK, registry
<1> QED BY Zenon, <1>1, <1>2, <1>3, <1>4, <1>5, <1>6 DEF TaskStep

\* A larger number of evicted lines leaves no more to hold.
LEMMA NoHoleMonotone ==
  ASSUME NEW g, NEW c \in Nat, NEW d \in Nat, NEW e \in Nat, d <= e, NoHole(g, c, d)
  PROVE  NoHole(g, c, e)
BY DEF NoHole

\* Every step keeps what the clients hold consistent with the registry.
\* A step that leaves the client and the jobs alone.
LEMMA Unmoved ==
  ASSUME NEW c, Told(c), Holds(c), client'[c] = client[c],
         UNCHANGED <<next, state, log, dropped, task, emitted>>
  PROVE  Told(c)' /\ Holds(c)'
<1>1. /\ next' = next /\ state' = state /\ log' = log /\ dropped' = dropped
      /\ task' = task /\ emitted' = emitted
  BY Zenon
<1>2. Told(c)'
  BY <1>1, Zenon DEF Told
<1>3. Holds(c)'
  BY <1>1, Zenon DEF Holds
<1> QED BY Zenon, <1>2, <1>3

LEMMA NextClient ==
  /\ TypeOK /\ TaskInv /\ LogWindow /\ ClientInv /\ (\A c \in Clients : Holds(c))
  /\ [Next]_vars /\ TypeOK' /\ TaskInv' /\ LogWindow'
  => ClientInv' /\ \A c \in Clients : Holds(c)'
<1>0. SUFFICES ASSUME TypeOK, TaskInv, LogWindow, ClientInv, \A c \in Clients : Holds(c),
                      [Next]_vars, TypeOK', TaskInv', LogWindow'
               PROVE  ClientInv' /\ \A c \in Clients : Holds(c)'
  BY Zenon
<1>t. TypeOK
  BY Zenon, <1>0
<1>u. TypeOK'
  BY Zenon, <1>0
<1>k. TaskInv
  BY Zenon, <1>0
<1>l. LogWindow
  BY Zenon, <1>0
<1>a. SUFFICES ASSUME NEW c \in Clients PROVE Told(c)' /\ Holds(c)'
  BY Zenon DEF ClientInv
<1>b. Told(c) /\ Holds(c)
  BY Zenon, <1>0, <1>a DEF ClientInv
<1>c. /\ client[c] \in Client /\ client[c].job \in Ids \cup {NoJob}
      /\ client[c].cursor \in Nat /\ client[c].got \in Seq(Nat)
      /\ client[c].saw \in {"nothing", "not_found", "running"} \cup Terminal
  BY Zenon, <1>t DEF TypeOK, Client
<1>d. NoJob \notin Ids /\ NoJob < 0 /\ next \in Nat
  BY MaxJobsAssumption, <1>t DEF Ids, NoJob, TypeOK
<1>1. CASE TaskStep
  <2>1. client'[c] = client[c] /\ next' = next
    BY Zenon, <1>1 DEF TaskStep, CreateInsert, Acquire, CancelWaiting, Emit, Drain, Finish, EndWork, registry
  <2>2. CASE client[c].job = NoJob
    <3>1. client[c].saw \notin Terminal
      BY <1>b, <2>2, Zenon DEF Terminal, Told
    <3> QED BY Zenon, <1>b, <2>1, <2>2, <3>1 DEF Holds, Told
  <2>3. CASE client[c].job # NoJob
    <3> DEFINE i == client[c].job
    <3>1. i \in Ids /\ Onward(i)
      BY Zenon, <1>0, <1>c, <1>1, <2>3, TaskStepOnward
    <3>2. dropped[i] \in Nat /\ dropped'[i] \in Nat /\ Len(log[i]) \in Nat /\ Len(log'[i]) \in Nat
      BY <3>1, <1>t, <1>u DEF TypeOK
    <3>3. Told(c)'
      <4>1. state'[i] # "absent" => client[c].cursor <= dropped'[i] + Len(log'[i])
        <5>1. CASE task[i] = "drawn"
          BY <1>b, <2>3, <3>2, <5>1 DEF Told
        <5>2. CASE state[i] # "absent" /\ dropped[i] + Len(log[i]) <= dropped'[i] + Len(log'[i])
          <6>1. client[c].cursor <= dropped[i] + Len(log[i])
            BY Zenon, <1>b, <2>3, <5>2 DEF Told
          <6>2. client[c].cursor \in Nat
            BY Zenon, <1>c
          <6> HIDE DEF i
          <6>3. client[c].cursor <= dropped'[i] + Len(log'[i])
            BY <3>2, <5>2, <6>1, <6>2, StillBelow, Zenon
          <6> QED BY <6>3, Zenon
        <5> QED BY <3>1, <5>1, <5>2, Zenon DEF Onward
      <4>2. /\ task'[i] = "drawn" => task[i] = "drawn"
            /\ task[i] = "done" => task'[i] = "done" /\ emitted'[i] = emitted[i]
        BY Zenon, <3>1 DEF Onward
      <4> QED BY <1>b, <2>1, <2>3, <4>1, <4>2, Zenon DEF Told
    <3>4. state'[i] # "absent" => NoHole(client[c].got, client[c].cursor, dropped'[i])
      <4>1. CASE task[i] = "drawn"
        BY <1>b, <2>3, <4>1 DEF NoHole, Told
      <4>2. CASE state[i] # "absent" /\ dropped[i] <= dropped'[i]
        BY Zenon, <1>b, <1>c, <2>3, <3>2, <4>2, NoHoleMonotone DEF Holds
      <4> QED BY <3>1, <4>1, <4>2, Zenon DEF Onward
    <3> QED BY Zenon, <1>b, <2>1, <3>3, <3>4 DEF Holds
  <2> QED BY <2>2, <2>3, Zenon
<1>2. ASSUME NEW e \in Clients, NEW k \in JobKinds, CreateDraw(e, k) PROVE Told(c)' /\ Holds(c)'
  <2>1. CASE c = e
    <3> DEFINE told == [job |-> next, cursor |-> 0, got |-> <<>>, saw |-> "nothing"]
    <3>1. client'[c] = told /\ next' = next + 1
      BY Zenon, <1>2, <2>1, <1>t DEF CreateDraw, TypeOK
    <3>2. next \in Ids /\ state'[next] = state[next] /\ state[next] = "absent"
      BY <1>2, MaxJobsAssumption, <1>t, <1>k DEF CreateDraw, TypeOK, TaskInv, Ids
    <3>3. told.job = next /\ told.cursor = 0 /\ told.got = <<>> /\ told.saw = "nothing"
      BY ClientFields, Zenon
    <3> HIDE DEF told
    <3>4. /\ client'[c].job = next /\ client'[c].cursor = 0
          /\ client'[c].got = <<>> /\ client'[c].saw = "nothing"
      BY <3>1, <3>3, Zenon
    <3>5. next < next' /\ next # NoJob /\ "nothing" \notin Terminal
      BY <1>d, <3>1, <3>2 DEF Terminal
    <3>6. Told(c)'
      BY <3>2, <3>4, <3>5, Zenon DEF Told
    <3>7. Holds(c)'
      BY <3>2, <3>4, NothingHeld, Zenon DEF Holds
    <3> QED BY <3>6, <3>7, Zenon
  <2>2. CASE c # e
    <3>1. client'[c] = client[c] /\ next' = next + 1 /\ UNCHANGED <<state, log, dropped, emitted>>
      BY Zenon, <1>2, <2>2, <1>t DEF CreateDraw, TypeOK
    <3>2. client[c].job \in Ids => task'[client[c].job] = task[client[c].job]
      <4>1. task' = [task EXCEPT ![next] = "drawn"] /\ DOMAIN task = Ids
        BY Zenon, <1>2, <1>t DEF CreateDraw, TypeOK
      <4>2. client[c].job # next
        BY <1>b, <1>c, <1>d DEF Ids, NoJob, Told
      <4> QED BY <4>1, <4>2, Zenon
    <3>3. client[c].job < next'
      <4>1. client[c].job \in Int
        BY <1>c DEF Ids, NoJob
      <4>2. client[c].job < next
        BY <1>b, Zenon DEF Told
      <4> QED BY <1>d, <3>1, <4>1, <4>2, BelowSuccessor, Zenon
    <3>4. CASE client[c].job = NoJob
      <4>1. client[c].saw \notin Terminal
        BY Zenon, <1>b, <3>4 DEF Terminal, Told
      <4> QED BY <1>b, <3>1, <3>3, <3>4, <4>1, Zenon DEF Holds, Told
    <3>5. CASE client[c].job # NoJob
      <4>1. client[c].job \in Ids /\ task'[client[c].job] = task[client[c].job]
        BY <1>c, <3>2, <3>5, Zenon
      <4>2. state' = state /\ log' = log /\ dropped' = dropped /\ emitted' = emitted
        BY Zenon, <3>1
      <4>3. Told(c)'
        BY <1>b, <3>1, <3>3, <3>5, <4>1, <4>2, Zenon DEF Told
      <4>4. Holds(c)'
        BY <1>b, <3>1, <4>2, Zenon DEF Holds
      <4> QED BY Zenon, <4>3, <4>4
    <3> QED BY Zenon, <3>4, <3>5
  <2> QED BY Zenon, <2>1, <2>2
<1>3. ASSUME NEW e \in Clients, CancelJob(e) PROVE Told(c)' /\ Holds(c)'
  <2>1. client'[c] = client[c] /\ UNCHANGED <<next, state, log, dropped, task, emitted>>
    BY Zenon, <1>3 DEF CancelJob, tasks
  <2> QED BY Zenon, <1>b, <2>1, Unmoved
<1>4. ASSUME NEW e \in Clients, poll(e) PROVE Told(c)' /\ Holds(c)'
  <2>0. UNCHANGED <<next, state, log, dropped, task, emitted, queue>>
    BY Zenon, <1>4 DEF poll, registry, tasks
  <2>1. CASE c # e
    <3>1. client'[c] = client[c]
      BY Zenon, <1>4, <2>1, <1>t DEF poll, TypeOK
    <3>2. UNCHANGED <<next, state, log, dropped, task, emitted>>
      BY Zenon, <2>0
    <3> QED BY Zenon, <1>b, <3>1, <3>2, Unmoved
  <2>2. CASE c = e
    <3> DEFINE i == client[c].job
               st == Start(i, client[c].cursor)
               new == client[c].got \o Tail_(log[i], st)
    <3>1. i \in Ids /\ task[i] # "drawn" /\ i # NoJob
      BY Zenon, <1>4, <1>c, <2>2 DEF poll, following
    <3>2. CASE state[i] = "absent"
      <4>1. client'[c] = [job |-> i, cursor |-> client[c].cursor, got |-> client[c].got, saw |-> "not_found"]
        BY Zenon, <1>4, <2>2, <3>2, <1>t DEF poll, TypeOK
      <4>2. /\ client'[c].job = i /\ client'[c].cursor = client[c].cursor
            /\ client'[c].got = client[c].got /\ client'[c].saw = "not_found"
        <5> DEFINE told == [job |-> i, cursor |-> client[c].cursor, got |-> client[c].got, saw |-> "not_found"]
        <5>1. told.job = i /\ told.cursor = client[c].cursor /\ told.got = client[c].got /\ told.saw = "not_found"
          BY ClientFields, Zenon
        <5> QED BY <4>1, <5>1, Zenon
      <4> QED BY Zenon, <1>b, <2>0, <3>1, <3>2, <4>2 DEF Holds, Terminal, Told
    <3>3. CASE state[i] # "absent"
      <4>1. client'[c] = [job |-> i, cursor |-> dropped[i] + Len(log[i]), got |-> new, saw |-> state[i]]
        BY Zenon, <1>4, <2>2, <3>3, <1>t DEF poll, TypeOK
      <4>2. log[i] \in Seq(Nat) /\ dropped[i] \in Nat /\ Len(log[i]) \in Nat
        BY <3>1, <1>t DEF TypeOK
      <4>3. client[c].cursor <= dropped[i] + Len(log[i])
        BY <1>b, <3>1, <3>3, Zenon DEF Told
      <4>4. st \in 0 .. Len(log[i]) /\ st = IF client[c].cursor > dropped[i] THEN client[c].cursor - dropped[i] ELSE 0
        BY <1>c, <4>2, <4>3 DEF Start
      <4>5. Numbered(log[i], dropped[i])
        BY Zenon, <3>1, <3>3, <1>l DEF LogWindow, Numbered
      <4>6. /\ Below(new, dropped[i] + Len(log[i])) /\ Increasing(new)
            /\ NoHole(new, dropped[i] + Len(log[i]), dropped[i])
        <5> HIDE DEF st
        <5> QED BY <1>b, <1>c, <3>1, <3>3, <4>2, <4>3, <4>4, <4>5, PollLines, ZenonT(60) DEF Holds
      <4>7. state[i] \in Terminal => task[i] = "done" /\ dropped[i] + Len(log[i]) = emitted[i]
        <5> SUFFICES ASSUME state[i] \in Terminal
                     PROVE  task[i] = "done" /\ dropped[i] + Len(log[i]) = emitted[i]
          BY Zenon
        <5>1. task[i] = "done" /\ queue[i] = <<>>
          BY <3>1, <3>3, <1>t, <1>k, Zenon DEF TaskInv, TypeOK, Terminal
        <5>2. dropped[i] + Len(log[i]) + Len(queue[i]) = emitted[i]
          BY Zenon, <3>1, <3>3, <1>l DEF LogWindow
        <5>3. Len(queue[i]) = 0
          BY <5>1, NoneInFlight, Zenon
        <5>4. dropped[i] + Len(log[i]) = emitted[i]
          <6>1. dropped[i] + Len(log[i]) + 0 = emitted[i]
            BY <5>2, <5>3, Zenon
          <6>2. dropped[i] + Len(log[i]) + 0 = dropped[i] + Len(log[i])
            BY <4>2, NoneInFlight, Zenon
          <6> QED BY <6>1, <6>2, Zenon
        <5> QED BY <5>1, <5>4, Zenon
      <4> HIDE DEF new
      <4>8. /\ client'[c].job = i /\ client'[c].cursor = dropped[i] + Len(log[i])
            /\ client'[c].got = new /\ client'[c].saw = state[i]
        <5> DEFINE told == [job |-> i, cursor |-> dropped[i] + Len(log[i]), got |-> new, saw |-> state[i]]
        <5>1. /\ told.job = i /\ told.cursor = dropped[i] + Len(log[i])
              /\ told.got = new /\ told.saw = state[i]
          BY ClientFields, Zenon
        <5> QED BY <4>1, <5>1, Zenon
      <4>9. i < next
        BY Zenon, <1>b DEF Told
      <4> HIDE DEF i
      <4>10. dropped[i] + Len(log[i]) <= dropped[i] + Len(log[i])
        BY <4>2
      <4>11. Told(c)'
        BY Zenon, <2>0, <3>1, <4>7, <4>8, <4>9, <4>10 DEF Told
      <4>12. Holds(c)'
        <5> QED BY Zenon, <2>0, <4>6, <4>8 DEF Holds
      <4> QED BY Zenon, <4>11, <4>12
    <3> QED BY Zenon, <3>2, <3>3
  <2> QED BY Zenon, <2>1, <2>2
<1>5. CASE UNCHANGED vars
  <2>1. client'[c] = client[c] /\ UNCHANGED <<next, state, log, dropped, task, emitted>>
    BY Zenon, <1>5 DEF vars
  <2> QED BY Zenon, <1>b, <2>1, Unmoved
<1> QED BY Zenon, <1>0, <1>1, <1>2, <1>3, <1>4, <1>5 DEF Next, TaskStep

LEMMA InitClient == Init => ClientInv /\ \A c \in Clients : Holds(c)
BY DEF Init, ClientInv, Told, Holds, Below, Increasing, NoJob, Terminal

\* A client that follows its cursor misses only lines the registry has evicted,
\* is given no line twice or out of order, and holds the last line when it is
\* told that the job has ended.
THEOREM ClientsServed == Spec => []ClientMissesNothing
<1> DEFINE IndInv == /\ TypeOK /\ TaskInv /\ QueueInv /\ LogWindow
                     /\ ClientInv /\ \A c \in Clients : Holds(c)
<1>1. Init => IndInv
  BY Zenon, InitType, InitTask, InitLog, InitClient
<1>2. IndInv /\ [Next]_vars => IndInv'
  BY Zenon, NextType, NextTask, NextLog, NextClient
<1>3. IndInv => ClientMissesNothing
  BY Zenon DEF ClientMissesNothing, ClientInv, Told, Holds, NoHole, Increasing, NoSilentLoss, DeliveredInOrder, TerminalIsLast
<1> QED BY <1>1, <1>2, <1>3, PTL DEF Spec

-----------------------------------------------------------------------------
(* Which finished jobs are forgotten. *)

\* The jobs that have ended and are in the map, those of S above i, and those of S with
\* fewer than n others of S above them: the n youngest.
Ended == {j \in Ids : is_terminal(j)}
Above(S, i) == {j \in S : j > i}
Youngest(S, n) == {j \in S : Cardinality(Above(S, j)) < n}

\* A set of naturals has a least member.
LEMMA LeastOf ==
  ASSUME NEW S \in SUBSET Nat, S # {}
  PROVE  \E m \in S : \A n \in S : m <= n
<1> DEFINE Less == {p \in Nat \X Nat : p[1] < p[2]}
<1>1. IsWellFoundedOn(Less, Nat)
  BY Zenon, NatLessThanWellFounded DEF OpToRel
<1> HIDE DEF Less
<1>2. PICK m \in S : \A n \in S : ~(<<n, m>> \in Less)
  BY Zenon, <1>1, WFMin
<1>3. \A n \in S : ~(n < m)
  BY Zenon, <1>2 DEF Less
<1> QED BY <1>3

\* A set of ids is finite, and its subsets have no more members.
LEMMA IdSets ==
  ASSUME NEW S \in SUBSET Ids
  PROVE  /\ IsFiniteSet(S) /\ Cardinality(S) \in Nat
         /\ \A T \in SUBSET S : Cardinality(T) \in Nat /\ Cardinality(T) <= Cardinality(S)
<1>1. IsFiniteSet(Ids)
  BY MaxJobsAssumption, FS_Interval DEF Ids
<1>2. IsFiniteSet(S)
  BY Zenon, <1>1, FS_Subset
<1> QED BY Zenon, <1>2, FS_Subset, FS_CardinalityType

\* Of n or more ids, n are the youngest: by the smallest set that would have fewer.
LEMMA EnoughYoungest ==
  ASSUME NEW n \in Nat
  PROVE  \A S \in SUBSET Ids : Cardinality(S) >= n => Cardinality(Youngest(S, n)) >= n
<1> DEFINE Bad(S) == Cardinality(S) >= n /\ ~(Cardinality(Youngest(S, n)) >= n)
           Sizes == {k \in Nat : \E S \in SUBSET Ids : Cardinality(S) = k /\ Bad(S)}
<1>1. \A S \in SUBSET Ids : Cardinality(Youngest(S, n)) \in Nat /\ Cardinality(S) \in Nat
  BY Zenon, IdSets DEF Youngest
<1> SUFFICES ASSUME NEW B \in SUBSET Ids, Bad(B) PROVE FALSE
  BY Zenon
<1>2. Sizes # {} /\ Sizes \in SUBSET Nat
  BY Zenon, <1>1
<1>3. PICK k \in Sizes : \A l \in Sizes : k <= l
  BY Zenon, <1>2, LeastOf
<1>4. PICK S \in SUBSET Ids : Cardinality(S) = k /\ Bad(S)
  BY Zenon, <1>3
<1> HIDE DEF Sizes
<1>5. CASE k = n
  <2>1. ASSUME NEW j \in S PROVE j \in Youngest(S, n)
    <3>1. j \in Int /\ Above(S, j) \in SUBSET (S \ {j})
      BY DEF Above, Ids
    <3>2. Cardinality(S \ {j}) = n - 1 /\ S \ {j} \in SUBSET Ids
      BY <1>4, <1>5, IdSets, FS_RemoveElement
    <3>3. Cardinality(Above(S, j)) <= n - 1 /\ Cardinality(Above(S, j)) \in Nat
      BY Zenon, <3>1, <3>2, IdSets
    <3> QED BY <3>3 DEF Youngest
  <2>2. Youngest(S, n) = S
    BY Zenon, <2>1 DEF Youngest
  <2> QED BY Zenon, <1>4, <1>5, <2>2
<1>6. CASE k # n
  <2>1. k \in Nat /\ k > n
    BY <1>1, <1>4, <1>6
  <2>2. S # {} /\ S \in SUBSET Nat
    BY <1>4, <2>1, FS_EmptySet DEF Ids
  <2>3. PICK m \in S : \A j \in S : m <= j
    BY Zenon, <2>2, LeastOf
  <2> DEFINE R == S \ {m}
  <2>4. R \in SUBSET Ids /\ Cardinality(R) = k - 1 /\ k - 1 \in Nat
    BY <1>4, <2>1, <2>3, IdSets, FS_RemoveElement
  <2>5. \A j \in R : Above(R, j) = Above(S, j)
    BY <2>2, <2>3 DEF Above
  <2>6. Youngest(R, n) \in SUBSET Youngest(S, n) /\ Youngest(S, n) \in SUBSET Ids
    BY Zenon, <2>5 DEF Youngest
  <2> HIDE DEF R
  <2>7. Cardinality(Youngest(R, n)) <= Cardinality(Youngest(S, n))
    BY Zenon, <2>6, IdSets
  <2>8. ~(Cardinality(Youngest(R, n)) >= n)
    BY <1>1, <1>4, <2>4, <2>6, <2>7
  <2>9. k - 1 \in Sizes
    BY <2>1, <2>4, <2>8 DEF Sizes
  <2> QED BY <1>3, <2>1, <2>9
<1> QED BY Zenon, <1>5, <1>6

\* Pruning leaves the youngest ended jobs, so that a job with enough ended ones above it
\* still has them.
LEMMA PruneLeavesEnough ==
  ASSUME NEW i \in Ids, Cardinality(Above(Ended, i)) >= TerminalCap
  PROVE  Cardinality(Above(Ended \ prune_terminal, i)) >= TerminalCap
<1> DEFINE S == Above(Ended, i)
<1>1. S \in SUBSET Ids /\ Ended \in SUBSET Ids
  BY Zenon DEF Above, Ended
<1>2. Cardinality(Youngest(S, TerminalCap)) >= TerminalCap
  BY Zenon, <1>1, TerminalCapAssumption, EnoughYoungest
<1>3. ASSUME NEW j \in S PROVE Above(Ended, j) = Above(S, j)
  BY DEF Above, Ended, Ids
<1>4. \A j \in Ids : {l \in Ids : is_terminal(l) /\ l > j} = Above(Ended, j)
  BY Zenon DEF Above, Ended
<1>5. ASSUME NEW j \in Youngest(S, TerminalCap)
      PROVE  j \in Above(Ended \ prune_terminal, i)
  <2>1. j \in S /\ j \in Ended /\ j \in Ids /\ j > i
    BY Zenon DEF Youngest, Above, Ended
  <2>2. Cardinality(Above(Ended, j)) < TerminalCap /\ Cardinality(Above(Ended, j)) \in Nat
    <3>1. Above(S, j) \in SUBSET Ids
      BY Zenon, <1>1 DEF Above
    <3> QED BY Zenon, <1>3, <2>1, <3>1, IdSets DEF Youngest
  <2>3. j \notin prune_terminal
    <3> SUFFICES ASSUME j \in prune_terminal PROVE FALSE
      BY Zenon
    <3>1. Cardinality({l \in Ids : is_terminal(l) /\ l > j}) >= TerminalCap
      BY Zenon DEF prune_terminal
    <3>2. Cardinality(Above(Ended, j)) >= TerminalCap
      BY Zenon, <1>4, <2>1, <3>1
    <3> QED BY <2>2, <3>2, TerminalCapAssumption
  <2> QED BY Zenon, <2>1, <2>3 DEF Above
<1>6. Youngest(S, TerminalCap) \in SUBSET Above(Ended \ prune_terminal, i) /\ Above(Ended \ prune_terminal, i) \in SUBSET Ids
  BY Zenon, <1>1, <1>5 DEF Above
<1> HIDE DEF S
<1>7. /\ Cardinality(Youngest(S, TerminalCap)) <= Cardinality(Above(Ended \ prune_terminal, i))
      /\ Cardinality(Youngest(S, TerminalCap)) \in Nat
      /\ Cardinality(Above(Ended \ prune_terminal, i)) \in Nat
  BY Zenon, <1>6, IdSets
<1> QED BY <1>2, <1>7, TerminalCapAssumption

\* A job is forgotten only with enough younger ended jobs in the map; a job that ends adds
\* one, and pruning takes none of those that count.
LEMMA NextForgotten ==
  TypeOK /\ TaskInv /\ ForgottenOnlyWhenOld /\ [Next]_vars => ForgottenOnlyWhenOld'
<1> SUFFICES ASSUME TypeOK, TaskInv, ForgottenOnlyWhenOld, [Next]_vars PROVE ForgottenOnlyWhenOld'
  BY Zenon
<1> DEFINE Gone(i) == task[i] = "done" /\ state[i] = "absent"
<1>1. \A i \in Ids : Gone(i) => Cardinality(Above(Ended, i)) >= TerminalCap
  <2>1. \A i : {j \in Ids : is_terminal(j) /\ j > i} = Above(Ended, i)
    BY Zenon DEF Above, Ended
  <2> QED BY Zenon, <2>1 DEF ForgottenOnlyWhenOld
<1>2. (\A i \in Ids : Gone(i)' => Cardinality(Above(Ended', i)) >= TerminalCap) => ForgottenOnlyWhenOld'
  <2>1. \A i : {j \in Ids : is_terminal(j)' /\ j > i} = Above(Ended', i)
    BY Zenon DEF Above, Ended
  <2> QED BY Zenon, <2>1 DEF ForgottenOnlyWhenOld
<1>3. ASSUME Ended \in SUBSET Ended', \A i \in Ids : Gone(i)' => Gone(i) PROVE ForgottenOnlyWhenOld'
  <2>1. \A i \in Ids : Above(Ended, i) \in SUBSET Above(Ended', i) /\ Above(Ended', i) \in SUBSET Ids
    BY Zenon, <1>3 DEF Above, Ended
  <2>2. \A i \in Ids : /\ Cardinality(Above(Ended, i)) <= Cardinality(Above(Ended', i))
                       /\ Cardinality(Above(Ended, i)) \in Nat /\ Cardinality(Above(Ended', i)) \in Nat
    BY Zenon, <2>1, IdSets
  <2>3. \A i \in Ids : Gone(i)' => Cardinality(Above(Ended', i)) >= TerminalCap
    <3> SUFFICES ASSUME NEW i \in Ids, Gone(i)' PROVE Cardinality(Above(Ended', i)) >= TerminalCap
      BY Zenon
    <3>1. Cardinality(Above(Ended, i)) >= TerminalCap
      BY Zenon, <1>1, <1>3
    <3>2. /\ Cardinality(Above(Ended, i)) <= Cardinality(Above(Ended', i))
          /\ Cardinality(Above(Ended, i)) \in Nat /\ Cardinality(Above(Ended', i)) \in Nat
      BY Zenon, <2>2
    <3> QED BY <3>1, <3>2, TerminalCapAssumption
  <2> QED BY Zenon, <1>2, <2>3
<1>4. ASSUME UNCHANGED state, \A i \in Ids : task'[i] = "done" => task[i] = "done" PROVE ForgottenOnlyWhenOld'
  <2>1. Ended' = Ended
    BY Zenon, <1>4 DEF Ended, is_terminal
  <2> QED BY Zenon, <1>3, <1>4, <2>1
<1>5. ASSUME NEW c \in Clients, NEW k \in JobKinds, CreateDraw(c, k) PROVE ForgottenOnlyWhenOld'
  BY Zenon, <1>4, <1>5 DEF CreateDraw, TypeOK
<1>6. ASSUME NEW c \in Clients, poll(c) \/ CancelJob(c) PROVE ForgottenOnlyWhenOld'
  BY <1>4, <1>6, Zenon DEF poll, CancelJob, registry, tasks
<1>7. ASSUME NEW i \in Ids, Acquire(i) \/ CancelWaiting(i) \/ Emit(i) \/ Drain(i) PROVE ForgottenOnlyWhenOld'
  BY Zenon, <1>4, <1>7 DEF Acquire, CancelWaiting, Emit, Drain, TypeOK, registry
<1>8. ASSUME NEW i \in Ids, NEW s \in Terminal, EndWork(i, s) PROVE ForgottenOnlyWhenOld'
  BY Zenon, <1>4, <1>8 DEF EndWork, TypeOK, registry
<1>9. ASSUME NEW i \in Ids, Finish(i) PROVE ForgottenOnlyWhenOld'
  <2>1. state[i] = "running" /\ outcome[i] \in Terminal
    BY Zenon, <1>9 DEF Finish, TaskInv, TypeOK
  <2>2. state' = [state EXCEPT ![i] = outcome[i]] /\ task' = [task EXCEPT ![i] = "done"]
    BY Zenon, <1>9, <2>1 DEF Finish, finish
  <2>3. Ended \in SUBSET Ended'
    BY Zenon, <2>1, <2>2 DEF Ended, is_terminal, Terminal, TypeOK
  <2>4. \A j \in Ids : Gone(j)' => Gone(j)
    BY Zenon, <2>1, <2>2 DEF Terminal, TypeOK
  <2> QED BY Zenon, <1>3, <2>3, <2>4
<1>10. ASSUME NEW i \in Ids, CreateInsert(i) PROVE ForgottenOnlyWhenOld'
  <2>1. state[i] = "absent" /\ task[i] = "drawn"
    BY Zenon, <1>10 DEF CreateInsert, TaskInv
  <2>2. \A j \in Ids : state'[j] = IF j = i THEN "running" ELSE IF j \in prune_terminal THEN "absent" ELSE state[j]
    BY Zenon, <1>10 DEF CreateInsert
  <2>3. Ended' = Ended \ prune_terminal
    BY Zenon, <2>1, <2>2 DEF Ended, is_terminal, Terminal
  <2>4. ASSUME NEW j \in Ids, Gone(j)' PROVE Cardinality(Above(Ended', j)) >= TerminalCap
    <3>1. j # i /\ task[j] = "done"
      BY Zenon, <1>10, <2>4 DEF CreateInsert, TypeOK
    <3>2. Gone(j) \/ j \in prune_terminal
      BY Zenon, <2>2, <2>4, <3>1
    <3>3. CASE Gone(j)
      BY Zenon, <1>1, <2>3, <3>3, PruneLeavesEnough
    <3>4. CASE j \in prune_terminal
      <4>1. {l \in Ids : is_terminal(l) /\ l > j} = Above(Ended, j)
        BY Zenon DEF Above, Ended
      <4>2. Cardinality(Above(Ended, j)) >= TerminalCap
        BY Zenon, <3>4, <4>1 DEF prune_terminal
      <4> QED BY Zenon, <2>3, <4>2, PruneLeavesEnough
    <3> QED BY Zenon, <3>2, <3>3, <3>4
  <2> QED BY Zenon, <1>2, <2>4
<1>11. CASE UNCHANGED vars
  BY Zenon, <1>4, <1>11 DEF vars
<1> QED BY Zenon, <1>5, <1>6, <1>7, <1>8, <1>9, <1>10, <1>11 DEF Next

\* The registry is sound for every number of jobs, clients and lines and every cap: its
\* fields are well formed, the youngest TERMINAL_CAP finished jobs are known however the
\* concurrent `create's draw and insert, and a job works under its own mutate lock.
THEOREM RegistryIsSound == Spec => []RegistrySound
<1>1. Init => ForgottenOnlyWhenOld /\ MutexHeldByWorker
  BY Zenon DEF Init, ForgottenOnlyWhenOld, MutexHeldByWorker
<1>2. TypeOK /\ ForgottenOnlyWhenOld /\ MutexHeldByWorker => RegistrySound
  BY Zenon DEF RegistrySound
<1> QED BY <1>1, <1>2, InitType, NextType, InitTask, NextTask, NextMutex, NextForgotten, PTL DEF Spec

\* A terminal state is only ever followed by the job's removal: `finish' moves a running
\* job, and `create' inserts an id that is not in the map.
THEOREM TerminalStateIsFinal == Spec => TerminalIsFinal
<1>1. TypeOK /\ TaskInv /\ [Next]_vars
        => [\A i \in Ids : is_terminal(i) => state'[i] \in {state[i], "absent"}]_vars
  <2> SUFFICES ASSUME TypeOK, TaskInv, Next, NEW j \in Ids, is_terminal(j)
               PROVE  state'[j] \in {state[j], "absent"}
    BY Zenon
  <2>1. ASSUME NEW i \in Ids, CreateInsert(i) PROVE state'[j] \in {state[j], "absent"}
    BY Zenon, <2>1 DEF CreateInsert, TaskInv, is_terminal, Terminal
  <2>2. ASSUME NEW i \in Ids, Finish(i) PROVE state'[j] \in {state[j], "absent"}
    BY Zenon, <2>2 DEF Finish, finish, TaskInv, TypeOK, is_terminal, Terminal
  <2>3. CASE UNCHANGED state
    BY Zenon, <2>3
  <2> QED BY <2>1, <2>2, <2>3, Zenon
        DEF Next, CreateDraw, poll, CancelJob, Acquire, CancelWaiting, Emit, Drain, EndWork, registry
<1> QED BY <1>1, InitType, NextType, InitTask, NextTask, PTL DEF Spec, TerminalIsFinal
=============================================================================
