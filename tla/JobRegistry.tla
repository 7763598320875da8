---------------------------- MODULE JobRegistry ----------------------------
(***************************************************************************)
(* The daemon's registry of background jobs (bin/orckerd/src/jobs.rs), the *)
(* streamed jobs that feed it (tool install, cloudflared install and       *)
(* cloudflared login) and the clients that poll it.                        *)
(*                                                                         *)
(* A log line is its ordinal among the non-blank lines of its job in the   *)
(* order its drain tasks take them from the work, so the log of a job is   *)
(* 1, 2, 3, ...  Each operation of the registry takes the registry's mutex *)
(* once and is one action; `create' is two, because the id is drawn from   *)
(* the atomic counter before the mutex is taken.                           *)
(***************************************************************************)
EXTENDS Integers, Sequences, FiniteSets

CONSTANTS
  LogCap,       \* LOG_CAP: log lines retained per job
  TerminalCap,  \* TERMINAL_CAP: terminal jobs `create' leaves in the map
  MaxJobs,      \* bound: ids drawn from the counter
  MaxLines,     \* bound: lines a job emits
  JobKinds,     \* the streamed requests the clients make
  Clients       \* clients that start a job and poll it to the end

ASSUME LogCapAssumption      == LogCap \in Nat \ {0}
ASSUME TerminalCapAssumption == TerminalCap \in Nat
ASSUME MaxJobsAssumption     == MaxJobs \in Nat
ASSUME MaxLinesAssumption    == MaxLines \in Nat
ASSUME JobKindsAssumption    == JobKinds \subseteq {"tool", "cloudflared", "login"}

Ids       == 0 .. MaxJobs - 1
NoJob     == -1
Kinds     == {"tool", "cloudflared", "login"}
Mutexes   == {"tool_mutate", "tunnel_mutate"}
Terminal  == {"succeeded", "failed", "cancelled"}
JobStates == {"absent", "running"} \cup Terminal

VARIABLES
  next,      \* the atomic counter ids are drawn from
  state,     \* JobState per id, "absent" when the map has no entry
  log,       \* retained log tail per id
  dropped,   \* lines evicted before the first retained one, per id
  cancel,    \* value of the job's cancel channel
  kind,      \* which streamed request the job serves
  task,      \* where the job's spawned task stands
  outcome,   \* the terminal state the task has decided on
  queue,     \* lines handed to the drain task and not yet pushed
  emitted,   \* lines the work has emitted
  holder,    \* the job whose task holds each mutate lock, or NoJob
  client     \* the job each client follows, its cursor and what it was told

registry == <<next, state, log, dropped, cancel>>
tasks    == <<kind, task, outcome, queue, emitted, holder>>
vars     == <<next, state, log, dropped, cancel,
              kind, task, outcome, queue, emitted, holder, client>>

Client == [job : Ids \cup {NoJob}, cursor : Nat, got : Seq(Nat),
           saw : {"nothing", "not_found", "running"} \cup Terminal]

TypeOK ==
  /\ next \in 0 .. MaxJobs
  /\ state \in [Ids -> JobStates]
  /\ log \in [Ids -> Seq(Nat)]
  /\ dropped \in [Ids -> Nat]
  /\ cancel \in [Ids -> BOOLEAN]
  /\ kind \in [Ids -> Kinds]
  /\ task \in [Ids -> {"none", "drawn", "waiting", "working", "draining", "done"}]
  /\ outcome \in [Ids -> Terminal]
  /\ queue \in [Ids -> Seq(Nat)]
  /\ emitted \in [Ids -> Nat]
  /\ holder \in [Mutexes -> Ids \cup {NoJob}]
  /\ client \in [Clients -> Client]

Init ==
  /\ next = 0
  /\ state = [i \in Ids |-> "absent"]
  /\ log = [i \in Ids |-> <<>>]
  /\ dropped = [i \in Ids |-> 0]
  /\ cancel = [i \in Ids |-> FALSE]
  /\ kind = [i \in Ids |-> "tool"]
  /\ task = [i \in Ids |-> "none"]
  /\ outcome = [i \in Ids |-> "succeeded"]
  /\ queue = [i \in Ids |-> <<>>]
  /\ emitted = [i \in Ids |-> 0]
  /\ holder = [m \in Mutexes |-> NoJob]
  /\ client = [c \in Clients |-> [job |-> NoJob, cursor |-> 0, got |-> <<>>,
                                  saw |-> "nothing"]]

-----------------------------------------------------------------------------
(* The registry. *)

is_terminal(i) == state[i] \in Terminal

\* Mutant of prune_terminal: running jobs are victims too.
prune_any ==
  {i \in Ids : /\ state[i] # "absent"
               /\ Cardinality({j \in Ids : state[j] # "absent" /\ j > i}) >= TerminalCap}

\* The oldest terminal jobs beyond TerminalCap: those with at least
\* TerminalCap younger terminal jobs in the map.
prune_terminal ==
  {i \in Ids : /\ is_terminal(i)
               /\ Cardinality({j \in Ids : is_terminal(j) /\ j > i}) >= TerminalCap}

\* The retained log after one more line: the newest LogCap lines.
Tail_(s, n) == SubSeq(s, n + 1, Len(s))
Over(s) == IF Len(s) > LogCap THEN Len(s) - LogCap ELSE 0

\* Mutant of push_log: an evicted line is not counted.
push_log_uncounted(i, line) ==
  /\ log' = [log EXCEPT ![i] = Tail_(Append(@, line), Over(Append(@, line)))]
  /\ UNCHANGED dropped

push_log(i, line) ==
  IF state[i] = "absent"
  THEN UNCHANGED <<log, dropped>>
  ELSE LET longer == Append(log[i], line)
       IN  /\ log' = [log EXCEPT ![i] = Tail_(longer, Over(longer))]
           /\ dropped' = [dropped EXCEPT ![i] = @ + Over(longer)]

finish(i, s) ==
  state' = IF state[i] = "absent" THEN state ELSE [state EXCEPT ![i] = s]

\* First half of `create': the id is drawn, nothing is in the map yet.
CreateDraw(c, k) ==
  /\ client[c].job = NoJob \/ client[c].saw \notin {"nothing", "running"}
  /\ next < MaxJobs
  /\ next' = next + 1
  /\ task' = [task EXCEPT ![next] = "drawn"]
  /\ kind' = [kind EXCEPT ![next] = k]
  /\ client' = [client EXCEPT ![c] = [job |-> next, cursor |-> 0, got |-> <<>>,
                                      saw |-> "nothing"]]
  /\ UNCHANGED <<state, log, dropped, cancel, outcome, queue, emitted, holder>>

\* Second half: under the mutex, prune and then insert; the task is spawned
\* and the client is told the id.
CreateInsert(i) ==
  /\ task[i] = "drawn"
  /\ state' = [j \in Ids |-> IF j = i THEN "running"
                             ELSE IF j \in prune_terminal THEN "absent"
                             ELSE state[j]]
  /\ log' = [j \in Ids |-> IF j \in prune_terminal THEN <<>> ELSE log[j]]
  /\ dropped' = [j \in Ids |-> IF j \in prune_terminal THEN 0 ELSE dropped[j]]
  /\ cancel' = [j \in Ids |-> cancel[j] /\ j \notin prune_terminal]
  /\ task' = [task EXCEPT ![i] = "waiting"]
  /\ UNCHANGED <<next, kind, outcome, queue, emitted,
                 holder, client>>

\* A client's JobStatus: the lines after its cursor and the next cursor.
Start(i, cursor) ==
  LET past == IF cursor > dropped[i] THEN cursor - dropped[i] ELSE 0
  IN  IF past < Len(log[i]) THEN past ELSE Len(log[i])

following(c) ==
  /\ client[c].job # NoJob
  /\ task[client[c].job] # "drawn"
  /\ client[c].saw \in {"nothing", "running"}

poll(c) ==
  /\ following(c)
  /\ LET i == client[c].job
         lines == Tail_(log[i], Start(i, client[c].cursor))
     IN  client' = [client EXCEPT ![c] =
           IF state[i] = "absent"
           THEN [job |-> i, cursor |-> @.cursor, got |-> @.got, saw |-> "not_found"]
           ELSE [job |-> i, cursor |-> dropped[i] + Len(log[i]),
                 got |-> @.got \o lines, saw |-> state[i]]]
  /\ UNCHANGED <<registry, tasks>>

\* Mutant of CancelJob: the handler itself marks the job cancelled.
CancelJob_marks(c) ==
  /\ following(c)
  /\ cancel' = [cancel EXCEPT ![client[c].job] = TRUE]
  /\ finish(client[c].job, "cancelled")
  /\ UNCHANGED <<next, log, dropped, tasks, client>>

\* A client's JobCancel.  An unknown job is an error and changes nothing.
CancelJob(c) ==
  /\ following(c)
  /\ LET i == client[c].job
     IN  cancel' = [cancel EXCEPT ![i] = @ \/ state[i] # "absent"]
  /\ UNCHANGED <<next, state, log, dropped, tasks, client>>

-----------------------------------------------------------------------------
(* The streamed jobs. *)

mutex(k) == IF k = "tool" THEN "tool_mutate" ELSE "tunnel_mutate"

\* Mutant of Acquire: the lock is not awaited.
Acquire_unlocked(i) ==
  /\ task[i] = "waiting"
  /\ holder' = [holder EXCEPT ![mutex(kind[i])] = i]
  /\ task' = [task EXCEPT ![i] = "working"]
  /\ UNCHANGED <<registry, kind, outcome, queue, emitted, client>>

\* The task gets its mutate lock.
Acquire(i) ==
  /\ task[i] = "waiting"
  /\ holder[mutex(kind[i])] = NoJob
  /\ holder' = [holder EXCEPT ![mutex(kind[i])] = i]
  /\ task' = [task EXCEPT ![i] = "working"]
  /\ UNCHANGED <<registry, kind, outcome, queue, emitted, client>>

\* The receiver's `changed()' completes when cancellation is requested, and
\* also when the map's entry, which owns the sender, is gone.
cancel_changed(i) == cancel[i] \/ state[i] = "absent"

\* Only the cloudflared install selects on cancellation while it waits.
CancelWaiting(i) ==
  /\ task[i] = "waiting"
  /\ kind[i] = "cloudflared"
  /\ cancel_changed(i)
  /\ task' = [task EXCEPT ![i] = "draining"]
  /\ outcome' = [outcome EXCEPT ![i] = "cancelled"]
  /\ UNCHANGED <<registry, kind, queue, emitted, holder, client>>

\* The work emits one line into the channel (or pipe) of the drain task.
Emit(i) ==
  /\ task[i] = "working"
  /\ emitted[i] < MaxLines
  /\ emitted' = [emitted EXCEPT ![i] = @ + 1]
  /\ queue' = [queue EXCEPT ![i] = Append(@, emitted[i] + 1)]
  /\ UNCHANGED <<registry, kind, task, outcome, holder, client>>

\* The drain task pushes the next line into the registry.
Drain(i) ==
  /\ queue[i] # <<>>
  /\ push_log(i, Head(queue[i]))
  /\ queue' = [queue EXCEPT ![i] = Tail(@)]
  /\ UNCHANGED <<next, state, cancel, kind, task, outcome, emitted, holder, client>>

\* The work ends on its own or is cancelled.  An install drops its lock now,
\* a login keeps it to the end of the task.
EndWork(i, s) ==
  /\ task[i] = "working"
  /\ s = "cancelled" => cancel_changed(i)
  /\ outcome' = [outcome EXCEPT ![i] = s]
  /\ task' = [task EXCEPT ![i] = "draining"]
  /\ holder' = IF kind[i] = "login" THEN holder
               ELSE [holder EXCEPT ![mutex(kind[i])] = NoJob]
  /\ UNCHANGED <<registry, kind, queue, emitted, client>>

\* Mutants of Finish: the drain task is not joined; the lock is never released.
Finish_unjoined(i) ==
  /\ task[i] = "draining"
  /\ finish(i, outcome[i])
  /\ task' = [task EXCEPT ![i] = "done"]
  /\ holder' = [m \in Mutexes |-> IF holder[m] = i THEN NoJob ELSE holder[m]]
  /\ UNCHANGED <<next, log, dropped, cancel, kind, outcome, queue, emitted, client>>
Finish_leaks(i) ==
  /\ task[i] = "draining"
  /\ queue[i] = <<>>
  /\ finish(i, outcome[i])
  /\ task' = [task EXCEPT ![i] = "done"]
  /\ UNCHANGED <<next, log, dropped, cancel, kind, outcome, queue, emitted, holder, client>>

\* Once the drain task is joined the job is moved to its terminal state.
Finish(i) ==
  /\ task[i] = "draining"
  /\ queue[i] = <<>>
  /\ finish(i, outcome[i])
  /\ task' = [task EXCEPT ![i] = "done"]
  /\ holder' = [m \in Mutexes |-> IF holder[m] = i THEN NoJob ELSE holder[m]]
  /\ UNCHANGED <<next, log, dropped, cancel, kind, outcome, queue, emitted, client>>

Next ==
  \/ \E c \in Clients, k \in JobKinds : CreateDraw(c, k)
  \/ \E c \in Clients : poll(c) \/ CancelJob(c)
  \/ \E i \in Ids : \/ CreateInsert(i) \/ Acquire(i) \/ CancelWaiting(i)
                    \/ Emit(i) \/ Drain(i) \/ Finish(i)
                    \/ \E s \in Terminal : EndWork(i, s)

Spec == Init /\ [][Next]_vars

\* The tokio scheduler runs every ready task, the lock is handed to a waiter,
\* an install or a login ends (its downloads and its child are bounded by
\* timeouts), and a client polls until it is told a terminal state.
Fairness ==
  /\ \A i \in Ids : /\ WF_vars(CreateInsert(i)) /\ WF_vars(Acquire(i))
                    /\ WF_vars(Drain(i)) /\ WF_vars(Finish(i))
                    /\ WF_vars(\E s \in Terminal : EndWork(i, s))
  /\ \A c \in Clients : WF_vars(poll(c))

FairSpec == Spec /\ Fairness

-----------------------------------------------------------------------------
(* Properties. *)

\* The retained log is the newest lines pushed, in order and without a hole,
\* `dropped' of them evicted: whatever the eviction, the cursor arithmetic of
\* `poll' (dropped + len) names the right line.
LogWindow ==
  \A i \in Ids : state[i] # "absent" =>
    /\ Len(log[i]) <= LogCap
    /\ \A k \in 1 .. Len(log[i]) : log[i][k] = dropped[i] + k
    /\ dropped[i] + Len(log[i]) + Len(queue[i]) = emitted[i]

\* A client that polls with the cursor it was given holds every line up to that
\* cursor except lines the registry has evicted ("it never silently loses
\* position", jobs.rs).
NoSilentLoss ==
  \A c \in Clients : LET i == client[c].job IN
    i # NoJob /\ state[i] # "absent" =>
      /\ client[c].cursor <= dropped[i] + Len(log[i])
      /\ \A n \in 1 .. client[c].cursor :
           n <= dropped[i] \/ \E k \in 1 .. Len(client[c].got) : client[c].got[k] = n

\* No line is delivered twice or out of order.
DeliveredInOrder ==
  \A c \in Clients : \A k \in 1 .. Len(client[c].got) - 1 :
    client[c].got[k] < client[c].got[k + 1]

\* A client stops polling at the first terminal state it is told.  By then it
\* has been offered every line the job emitted: the drain task is joined before
\* `finish', so no line can arrive behind the terminal state.
TerminalIsLast ==
  \A c \in Clients :
    client[c].saw \in Terminal => client[c].cursor = emitted[client[c].job]

\* What a polling client relies on: no line lost but evicted ones, none twice
\* or out of order, and none behind the terminal state.
ClientMissesNothing == NoSilentLoss /\ DeliveredInOrder /\ TerminalIsLast

\* A job whose task is still at work is in the map: neither pruning nor a
\* `create' that draws its id early and inserts late makes it unknown.
RunningNeverPruned ==
  \A i \in Ids : task[i] \in {"waiting", "working", "draining"} <=> state[i] = "running"

\* A finished job is forgotten only while TerminalCap younger finished jobs are
\* remembered, whatever order the concurrent `create's insert in.
ForgottenOnlyWhenOld ==
  \A i \in Ids : task[i] = "done" /\ state[i] = "absent" =>
    Cardinality({j \in Ids : is_terminal(j) /\ j > i}) >= TerminalCap

\* A terminal state is final: a job that has been reported finished is never
\* reported running, or finished otherwise, later.
TerminalIsFinal ==
  [][\A i \in Ids : is_terminal(i) => state'[i] \in {state[i], "absent"}]_vars

\* A job ends cancelled only when a client asked for it: the cancel channel of a
\* job at work is never closed under it by another client's `create'.
CancelledOnlyIfAsked ==
  \A i \in Ids : task[i] = "draining" /\ outcome[i] = "cancelled" => cancel[i]

\* Two jobs never work under the same mutate lock.
MutexHeldByWorker ==
  \A i \in Ids : task[i] = "working" => holder[mutex(kind[i])] = i

\* The registry's fields are well formed, the newest TerminalCap finished jobs are
\* still known, and a job works only under its own mutate lock.
RegistrySound == TypeOK /\ ForgottenOnlyWhenOld /\ MutexHeldByWorker

\* A job that a client was promised has not ended yet; it may wait for its mutate lock.
JobWaits(i) == task[i] \notin {"none", "done"}

\* A client polls a job and was told neither that it ended nor that it is not known.
ClientWaits(c) == client[c].job # NoJob /\ client[c].saw \notin Terminal \cup {"not_found"}

\* The clients are alike (for TLC).
ClientSymmetry ==
  {[c \in Clients |-> p[c]] :
     p \in {q \in [Clients -> Clients] : \A c, d \in Clients : q[c] = q[d] => c = d}}
=============================================================================
