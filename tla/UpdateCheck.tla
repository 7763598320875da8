---------------------------- MODULE UpdateCheck ----------------------------
(***************************************************************************)
(* The daemon's knowledge of updates: a background poll and any client's   *)
(* CheckUpdate fetch the signed list of releases, decide, and store the    *)
(* decision on disk and in memory; CachedUpdateStatus answers from what is *)
(* stored.  The channel may change, and the daemon may be restarted or     *)
(* replaced by another version, between any two of these steps.            *)
(***************************************************************************)
EXTENDS Naturals

CONSTANTS
  Versions,    \* the versions there are, in order
  Pre,         \* those that are pre-releases
  MaxCommands, \* bound: checks, channel changes and cached reads by clients
  MaxBoots     \* bound: starts of the daemon

None == 0
Channels == {"stable", "edge"}
Tasks == {"poll", "check"}

VARIABLES
  feed,        \* the releases published
  running,     \* the version of the running daemon
  channel,     \* the saved channel
  mem, disk,   \* the snapshot in the daemon's state and in update-check.json
  cache,       \* the releases of the last fetch
  due,         \* has the check interval passed since the last stored check
  task,        \* of the poll and the check: where it is, its channel, what it fetched
  told,        \* the last status a client was given
  commands, boots

vars == <<feed, running, channel, mem, disk, cache, due, task, told, commands, boots>>

Highest(S) == IF S = {} THEN None ELSE CHOOSE v \in S : \A w \in S : w <= v

\* UpdateDecision: what one channel offers the running version.
Decision(releases, ch, current) ==
    LET latest_stable == Highest(releases \ Pre)
        candidate == IF ch = "stable" THEN latest_stable ELSE Highest(releases)
    IN [current |-> current, channel |-> ch,
        target |-> IF candidate > current THEN candidate ELSE None,
        ahead |-> current \in Pre /\ current > latest_stable]

NoSnapshot == [current |-> None, channel |-> "stable", target |-> None, ahead |-> FALSE]
Idle == [at |-> "idle", channel |-> "stable", got |-> {}]

\* A snapshot of another version or channel offers nothing.
response_from_snapshot(snap, effective) ==
    LET drifted == snap.current # running \/ snap.channel # effective
    IN [current |-> running, channel |-> effective,
        target |-> IF drifted THEN None ELSE snap.target,
        ahead |-> ~drifted /\ snap.ahead]

CachedAnswer == response_from_snapshot(mem, channel)

Init ==
    /\ feed \in {{}, {1}} /\ running = 1 /\ channel \in Channels
    /\ mem = NoSnapshot /\ disk = NoSnapshot /\ cache = {} /\ due = TRUE
    /\ task = [t \in Tasks |-> Idle] /\ told = NoSnapshot /\ commands = 0 /\ boots = 1

\* ------------------------------------------------------------------ the poll

is_check_due == mem = NoSnapshot \/ due

poll_if_due ==
    /\ task["poll"] = Idle /\ is_check_due
    /\ task' = [task EXCEPT !["poll"].at = "fetch"]
    /\ UNCHANGED <<feed, running, channel, mem, disk, cache, due, told, commands, boots>>

\* fetch_releases: body and signature are downloaded, verified and decoded, or nothing is.
Fetched(t) ==
    /\ task[t].at = "fetch"
    /\ task' = [task EXCEPT ![t].at = "fetched", ![t].got = feed]
    /\ UNCHANGED <<feed, running, channel, mem, disk, cache, due, told, commands, boots>>

\* store_snapshot: best effort on disk, then in memory.
store_snapshot(snap) == mem' = snap /\ disk' \in {snap, disk, NoSnapshot} /\ due' = FALSE

\* The poll decides for the channel saved when the fetch is over.
poll_and_refresh ==
    /\ task["poll"].at = "fetched"
    /\ store_snapshot(Decision(task["poll"].got, channel, running))
    /\ cache' = task["poll"].got /\ task' = [task EXCEPT !["poll"] = Idle]
    /\ UNCHANGED <<feed, running, channel, told, commands, boots>>

PollFails ==
    /\ task["poll"].at = "fetch" /\ task' = [task EXCEPT !["poll"] = Idle]
    /\ UNCHANGED <<feed, running, channel, mem, disk, cache, due, told, commands, boots>>

\* ----------------------------------------------------------- client requests
Command == commands < MaxCommands /\ commands' = commands + 1

\* CheckUpdate: for the given channel, or for the one saved now.
check_update(ch) ==
    /\ Command /\ task["check"] = Idle
    /\ task' = [task EXCEPT !["check"] = [at |-> "fetch", channel |-> ch, got |-> {}]]
    /\ UNCHANGED <<feed, running, channel, mem, disk, cache, due, told, boots>>

CheckEnds ==
    /\ task["check"].at = "fetched"
    /\ LET snap == Decision(task["check"].got, task["check"].channel, running)
       IN store_snapshot(snap) /\ told' = response_from_snapshot(snap, task["check"].channel)
    /\ cache' = task["check"].got /\ task' = [task EXCEPT !["check"] = Idle]
    /\ UNCHANGED <<feed, running, channel, commands, boots>>

\* Offline, the last snapshot answers, and without one the last releases seen.
CheckFails ==
    /\ task["check"].at = "fetch"
    /\ told' = IF mem # NoSnapshot THEN response_from_snapshot(mem, task["check"].channel)
               ELSE Decision(cache, task["check"].channel, running)
    /\ task' = [task EXCEPT !["check"] = Idle]
    /\ UNCHANGED <<feed, running, channel, mem, disk, cache, due, commands, boots>>

cached_update_status ==
    /\ Command /\ told' = CachedAnswer
    /\ UNCHANGED <<feed, running, channel, mem, disk, cache, due, task, boots>>

set_update_channel(ch) ==
    /\ Command /\ ch # channel /\ channel' = ch
    /\ UNCHANGED <<feed, running, mem, disk, cache, due, task, told, boots>>

\* -------------------------------------------------------------- the world
Publish ==
    /\ \E v \in Versions \ feed : feed' = feed \cup {v}
    /\ UNCHANGED <<running, channel, mem, disk, cache, due, task, told, commands, boots>>

TimePasses ==
    /\ ~due /\ due' = TRUE
    /\ UNCHANGED <<feed, running, channel, mem, disk, cache, task, told, commands, boots>>

\* The daemon starts again, as the same or another version: load_snapshot reads the disk.
Boot(v) ==
    /\ boots < MaxBoots /\ boots' = boots + 1 /\ running' = v
    /\ mem' = disk /\ cache' = {} /\ task' = [t \in Tasks |-> Idle]
    /\ UNCHANGED <<feed, channel, disk, due, told, commands>>

Next ==
    \/ poll_if_due \/ poll_and_refresh \/ PollFails \/ CheckEnds \/ CheckFails
    \/ cached_update_status \/ Publish \/ TimePasses
    \/ \E t \in Tasks : Fetched(t)
    \/ \E ch \in Channels : check_update(ch) \/ set_update_channel(ch)
    \/ \E v \in Versions : Boot(v)

\* The loop wakes again and again, and the network answers again and again.
Fairness ==
    /\ WF_vars(poll_if_due) /\ SF_vars(Fetched("poll")) /\ WF_vars(poll_and_refresh)
    /\ WF_vars(TimePasses) /\ WF_vars(CheckEnds \/ CheckFails)

Spec == Init /\ [][Next]_vars

FairSpec == Spec /\ Fairness

\* ---------------------------------------------------------------- properties
TypeOK ==
    /\ feed \subseteq Versions /\ cache \subseteq Versions /\ running \in Versions
    /\ \A s \in {mem, disk, told} : s.target \in Versions \cup {None} /\ s.channel \in Channels

\* Whatever was stored, by whichever version and for whichever channel, a client is offered
\* only a version newer than the one that answered, and a pre-release only on the edge
\* channel; and only a running pre-release is said to be ahead of stable.
OffersAreUpdates ==
    /\ told.target # None =>
         told.target > told.current /\ (told.channel = "stable" => told.target \notin Pre)
    /\ told.ahead => told.current \in Pre

\* The cached status is the decision for the releases published, the saved channel and the
\* running version.
UpToDate == CachedAnswer = Decision(feed, channel, running)
============================================================================
