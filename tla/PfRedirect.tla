----------------------------- MODULE PfRedirect -----------------------------
(***************************************************************************)
(* The privileged helper's four macOS port-redirect operations: install    *)
(* and uninstall of the loopback redirect ("web") and of the LAN redirect  *)
(* ("lan").  Both edit the one /etc/pf.conf, each keeps an anchor file and *)
(* a LaunchDaemon plist of its own.  A helper run is a sequence of file    *)
(* and command steps; it may be killed between any two of them, a command  *)
(* may be refused, the machine may reboot, and the user may edit pf.conf.  *)
(* One elevated session runs at a time.                                    *)
(***************************************************************************)
EXTENDS Naturals, TLAPS

CONSTANTS Ports,      \* rootless ports a redirect may lead to
          TornWrites, \* may a helper die inside atomic_write, or the write fail?
          MaxRuns     \* bound on helper runs

None == 0

Kinds == {"web", "lan"}
Ops == {"install", "uninstall"}

VARIABLES
    anchor,  \* anchor[k]: the port the rules in k's anchor file lead to, or None
    refs,    \* the kinds whose marked lines are in /etc/pf.conf
    sound,   \* the user's own lines of pf.conf are accepted by pfctl
    live,    \* live[k]: the port the loaded rules lead to, or None
    plist,   \* the kinds whose LaunchDaemon plist is on disk
    booted,  \* the kinds whose LaunchDaemon launchd has loaded
    tmp,     \* the files beside which a temporary file of a dead run lies
    run,     \* the helper's run: operation, step, locals
    runs,    \* number of helper runs so far
    last,    \* how the last run ended
    acked    \* acked[k]: the port of an install of k that ended well, or None

vars == <<anchor, refs, sound, live, plist, booted, tmp, run, runs, last, acked>>

Idle == [op |-> "none", kind |-> "web", pc |-> "idle", port |-> None,
         original |-> {}, fault |-> FALSE]
NoEnd == [op |-> "none", kind |-> "web", result |-> "none", fault |-> FALSE]

\* The files a run writes through atomic_write.
Paths == (({"anchor", "plist"}) \X Kinds) \cup {<<"conf", "pf.conf">>}
Conf == <<"conf", "pf.conf">>

Steps == {"rules", "conf", "load", "plist", "bootstrap", "bootout", "strip", "reload",
          "files"}

TypeOK ==
    /\ anchor \in [Kinds -> Ports \cup {None}]
    /\ refs \subseteq Kinds
    /\ sound \in BOOLEAN
    /\ live \in [Kinds -> Ports \cup {None}]
    /\ plist \subseteq Kinds
    /\ booted \subseteq Kinds
    /\ tmp \subseteq Paths
    /\ run \in [op : Ops \cup {"none"}, kind : Kinds, pc : Steps \cup {"idle"},
                port : Ports \cup {None}, original : SUBSET Kinds, fault : BOOLEAN]
    /\ runs \in Nat
    /\ last \in [op : Ops \cup {"none"}, kind : Kinds,
                 result : {"none", "ok", "error", "killed"}, fault : BOOLEAN]
    /\ acked \in [Kinds -> Ports \cup {None}]

Init ==
    /\ anchor = [k \in Kinds |-> None]
    /\ refs = {}
    /\ sound = TRUE
    /\ live = [k \in Kinds |-> None]
    /\ plist = {}
    /\ booted = {}
    /\ tmp = {}
    /\ run = Idle
    /\ runs = 0
    /\ last = NoEnd
    /\ acked = [k \in Kinds |-> None]

\* ------------------------------------------------------------- pf and pf.conf
InsertRefs(conf, k) == conf \cup {k}

RemoveRefs(conf, k) == conf \ {k}

\* pfctl refuses a file that loads an anchor from a missing path.
Loads == sound /\ \A k \in refs : anchor[k] # None
Loaded == [k \in Kinds |-> IF k \in refs THEN anchor[k] ELSE None]

\* ------------------------------------------------------------------ the runs
At(op, step) == run.op = op /\ run.pc = step

End(result, fault) ==
    /\ run' = Idle
    /\ last' = [op |-> run.op, kind |-> run.kind, result |-> result, fault |-> fault]

Fails(fault) == End("error", run.fault \/ fault) /\ UNCHANGED acked

Goes(step) == run' = [run EXCEPT !.pc = step] /\ UNCHANGED <<last, acked>>

\* The temporary file is created with create_new, under a name that depends on the
\* destination only: one that a dead run left refuses every later write.
WriteRefused(path) == path \in tmp /\ Fails(FALSE) /\ UNCHANGED tmp

\* The write or the fsync fails: the temporary file stays.
WriteTorn(path) == TornWrites /\ path \notin tmp /\ tmp' = tmp \cup {path} /\ Fails(TRUE)

Written(path) == path \notin tmp /\ UNCHANGED tmp

files == <<anchor, refs, plist>>
world == <<sound, runs>>
system == <<live, booted>>

StartInstall_lines_first(k, p) ==
    /\ run = Idle
    /\ runs < MaxRuns
    /\ runs' = runs + 1
    /\ run' = [Idle EXCEPT !.op = "install", !.kind = k, !.pc = "conf", !.port = p]
    /\ acked' = [acked EXCEPT ![k] = None]
    /\ UNCHANGED <<files, system, sound, tmp, last>>

\* dispatch: the flags were validated (ports not 0, the LAN address routable).
StartInstall(k, p) ==
    /\ run = Idle
    /\ runs < MaxRuns
    /\ runs' = runs + 1
    /\ run' = [Idle EXCEPT !.op = "install", !.kind = k, !.pc = "rules", !.port = p]
    /\ acked' = [acked EXCEPT ![k] = None]
    /\ UNCHANGED <<files, system, sound, tmp, last>>

StartUninstall(k) ==
    /\ run = Idle
    /\ runs < MaxRuns
    /\ runs' = runs + 1
    /\ run' = [Idle EXCEPT !.op = "uninstall", !.kind = k, !.pc = "bootout"]
    /\ acked' = [acked EXCEPT ![k] = None]
    /\ UNCHANGED <<files, system, sound, tmp, last>>

WriteRules ==
    /\ At("install", "rules")
    /\ LET path == <<"anchor", run.kind>>
       IN \/ /\ Written(path)
             /\ anchor' = [anchor EXCEPT ![run.kind] = run.port]
             /\ Goes("conf")
          \/ (WriteRefused(path) \/ WriteTorn(path)) /\ UNCHANGED anchor
    /\ UNCHANGED <<refs, plist, system, world>>

\* The file is rewritten only when the lines are not there yet.
WriteConf ==
    /\ At("install", "conf")
    /\ LET updated == InsertRefs(refs, run.kind)
       IN \/ /\ (updated = refs \/ Conf \notin tmp)
             /\ refs' = updated
             /\ run' = [run EXCEPT !.pc = "load", !.original = refs]
             /\ UNCHANGED <<tmp, last, acked>>
          \/ /\ updated # refs
             /\ WriteRefused(Conf) \/ WriteTorn(Conf)
             /\ UNCHANGED refs
    /\ UNCHANGED <<anchor, plist, system, world>>

\* pfctl -f, then pfctl -e whose failure is ignored.  A refused file is rolled back
\* to what was read, best effort.
LoadConf ==
    /\ At("install", "load")
    /\ \/ Loads /\ live' = Loaded /\ Goes("plist") /\ UNCHANGED <<refs, tmp>>
       \/ \E fault \in BOOLEAN :
            /\ fault \/ ~Loads
            /\ \/ Conf \notin tmp /\ refs' = run.original /\ UNCHANGED tmp
               \/ (Conf \in tmp \/ TornWrites) /\ refs' = refs
                    /\ tmp' = IF refs = run.original THEN tmp ELSE tmp \cup {Conf}
            /\ Fails(fault \/ ~sound)
            /\ UNCHANGED live
    /\ UNCHANGED <<anchor, plist, booted, world>>

\* The plist is written, and given to root.
WritePlist ==
    /\ At("install", "plist")
    /\ LET path == <<"plist", run.kind>>
       IN \/ /\ Written(path)
             /\ plist' = plist \cup {run.kind}
             /\ Goes("bootstrap") \/ Fails(TRUE)
          \/ (WriteRefused(path) \/ WriteTorn(path)) /\ UNCHANGED plist
    /\ UNCHANGED <<anchor, refs, system, world>>

\* launchctl bootout, whose failure is ignored, then bootstrap, which launchd refuses
\* for a service it has loaded already.
Bootstrap ==
    /\ At("install", "bootstrap")
    /\ \/ /\ booted' = booted \cup {run.kind}
          /\ acked' = [acked EXCEPT ![run.kind] = run.port]
          /\ End("ok", run.fault)
       \/ \E left \in {booted, booted \ {run.kind}} : booted' = left /\ Fails(TRUE)
    /\ UNCHANGED <<files, tmp, live, world>>

\* launchctl bootout: the service may not be loaded.
Bootout ==
    /\ At("uninstall", "bootout")
    /\ booted' \in {booted, booted \ {run.kind}}
    /\ Goes("strip")
    /\ UNCHANGED <<files, tmp, live, world>>

StripConf ==
    /\ At("uninstall", "strip")
    /\ LET cleaned == RemoveRefs(refs, run.kind)
       IN \/ cleaned = refs /\ Goes("files") /\ UNCHANGED <<refs, tmp>>
          \/ cleaned # refs /\ Written(Conf) /\ refs' = cleaned /\ Goes("reload")
          \/ cleaned # refs /\ (WriteRefused(Conf) \/ WriteTorn(Conf)) /\ UNCHANGED refs
    /\ UNCHANGED <<anchor, plist, system, world>>

\* pfctl -f of the cleaned file: a failure is ignored.
Reload ==
    /\ At("uninstall", "reload")
    /\ (Loads /\ live' = Loaded) \/ UNCHANGED live
    /\ Goes("files")
    /\ UNCHANGED <<files, tmp, booted, world>>

RemoveFiles ==
    /\ At("uninstall", "files")
    /\ anchor' = [anchor EXCEPT ![run.kind] = None]
    /\ \/ plist' = plist \ {run.kind} /\ End("ok", run.fault) /\ UNCHANGED acked
       \/ plist' = plist /\ Fails(TRUE)
    /\ UNCHANGED <<refs, tmp, system, world>>

\* The run is killed between two steps, or, inside atomic_write, after the temporary
\* file was created.
PathOfStep ==
    CASE run.pc = "rules" -> {<<"anchor", run.kind>>}
      [] run.pc = "plist" -> {<<"plist", run.kind>>}
      [] run.pc \in {"conf", "strip"} -> {Conf}
      [] OTHER -> {}

Kill ==
    /\ run # Idle
    /\ tmp' \in IF TornWrites THEN {tmp, tmp \cup PathOfStep} ELSE {tmp}
    /\ End("killed", TRUE)
    /\ UNCHANGED <<files, system, world, acked>>

\* -------------------------------------------------------------- the host
\* launchd loads every plist in /Library/LaunchDaemons, and each runs pfctl -E -f.
Reboot ==
    /\ run = Idle
    /\ booted' = plist
    /\ live' = IF plist # {} /\ Loads THEN Loaded ELSE [k \in Kinds |-> None]
    /\ UNCHANGED <<files, tmp, world, run, last, acked>>

UserEditsConf ==
    /\ run = Idle
    /\ sound' = ~sound
    /\ UNCHANGED <<files, tmp, system, run, runs, last, acked>>

Next ==
    \/ \E k \in Kinds : (\E p \in Ports : StartInstall(k, p)) \/ StartUninstall(k)
    \/ WriteRules \/ WriteConf \/ LoadConf \/ WritePlist \/ Bootstrap
    \/ Bootout \/ StripConf \/ Reload \/ RemoveFiles
    \/ Kill \/ Reboot \/ UserEditsConf

Spec == Init /\ [][Next]_vars

\* ---------------------------------------------------------------- properties
\* pf.conf never references an anchor file that is not there, whatever step a run dies
\* at: install writes the rules before the lines, uninstall removes the lines first.
NoDanglingAnchor == \A k \in refs : anchor[k] # None

\* An install that ended well stands until the next run of the same kind: runs of the
\* other kind, complete, failed or killed, leave its rules, its lines and its boot entry,
\* so that a reboot with a pf.conf that loads brings the redirect back.
RedirectStands ==
    \A k \in Kinds : acked[k] # None =>
        anchor[k] = acked[k] /\ k \in refs /\ k \in plist

\* Every operation may be repeated: a run in which no command and no write fails for a
\* reason of its own ends well, whatever earlier runs left behind.
RerunSucceeds == last.result = "error" => last.fault

\* ---------------------------------------------------------------- the proofs
RunTypes == [op : Ops \cup {"none"}, kind : Kinds, pc : Steps \cup {"idle"},
             port : Ports \cup {None}, original : SUBSET Kinds, fault : BOOLEAN]

\* What is on disk at each step of a run: an install has its rules in place before the
\* lines, can roll back to what it read, and holds all three pieces when it ends well; an
\* uninstall has its lines out before the rules go.
InstallInv ==
    run.op = "install" =>
        /\ run.port # None
        /\ run.pc \in {"rules", "conf", "load", "plist", "bootstrap"}
        /\ run.pc # "rules" => anchor[run.kind] = run.port
        /\ run.pc \in {"load", "plist", "bootstrap"} => run.kind \in refs
        /\ run.pc = "load" => refs = run.original \cup {run.kind}
        /\ run.pc = "bootstrap" => run.kind \in plist
UninstallInv ==
    run.op = "uninstall" =>
        /\ run.pc \in {"bootout", "strip", "reload", "files"}
        /\ run.pc \in {"reload", "files"} => run.kind \notin refs

PfInv ==
    /\ anchor \in [Kinds -> Ports \cup {None}]
    /\ acked \in [Kinds -> Ports \cup {None}]
    /\ refs \subseteq Kinds /\ plist \subseteq Kinds
    /\ run \in RunTypes
    /\ InstallInv /\ UninstallInv
    /\ run.op # "none" => acked[run.kind] = None
    /\ NoDanglingAnchor /\ RedirectStands

LEMMA PfInit == ASSUME None \notin Ports, Init PROVE PfInv
BY DEF Init, PfInv, RunTypes, Idle, None, InstallInv, UninstallInv, NoDanglingAnchor,
       RedirectStands, Ops, Kinds, Steps

LEMMA IdleTyped == Idle \in RunTypes /\ Idle.op = "none"
BY DEF Idle, RunTypes, Ops, Kinds, Steps, None

\* Beginning a run takes the earlier acknowledgement of its kind back.
LEMMA PfStart ==
    ASSUME None \notin Ports, PfInv, NEW k \in Kinds,
           StartUninstall(k) \/ \E p \in Ports : StartInstall(k, p)
    PROVE  PfInv'
<1> USE DEF PfInv, InstallInv, UninstallInv, NoDanglingAnchor, RedirectStands, RunTypes,
            files, Ops, Steps
<1>1. CASE StartUninstall(k)
  <2>1. /\ run' = [Idle EXCEPT !.op = "uninstall", !.kind = k, !.pc = "bootout"]
        /\ acked' = [acked EXCEPT ![k] = None]
    BY <1>1 DEF StartUninstall
  <2>2. run' \in RunTypes /\ run'.op = "uninstall" /\ run'.kind = k /\ run'.pc = "bootout"
    BY Zenon, <2>1, IdleTyped
  <2> QED BY <1>1, <2>1, <2>2 DEF StartUninstall
<1>2. CASE \E p \in Ports : StartInstall(k, p)
  <2>0. PICK p \in Ports : StartInstall(k, p)
    BY <1>2
  <2>1. /\ run' = [Idle EXCEPT !.op = "install", !.kind = k, !.pc = "rules", !.port = p]
        /\ acked' = [acked EXCEPT ![k] = None]
    BY Zenon, <2>0 DEF StartInstall
  <2>2. /\ run' \in RunTypes /\ run'.op = "install" /\ run'.kind = k
        /\ run'.pc = "rules" /\ run'.port = p
    BY Zenon, <2>1, IdleTyped
  <2>3. UNCHANGED <<anchor, refs, plist>>
    BY Zenon, <2>0 DEF StartInstall
  <2>4. InstallInv' /\ UninstallInv'
    BY <2>2
  <2>5. NoDanglingAnchor' /\ RedirectStands'
    BY <2>1, <2>3
  <2> QED BY <2>1, <2>2, <2>3, <2>4, <2>5
<1> QED BY <1>1, <1>2

\* A run that ends without success, wherever it ends, leaves an invariant state when it
\* leaves the files as they are.
LEMMA PfEnd ==
    ASSUME None \notin Ports, PfInv, run' = Idle, UNCHANGED <<anchor, refs, plist, acked>>
    PROVE  PfInv'
BY DEF PfInv, InstallInv, UninstallInv, NoDanglingAnchor, RedirectStands, RunTypes, Idle,
       Ops, Steps, Kinds, None

LEMMA PfInstall ==
    ASSUME None \notin Ports, PfInv,
           WriteRules \/ WriteConf \/ LoadConf \/ WritePlist \/ Bootstrap
    PROVE  PfInv'
<1> USE DEF PfInv, InstallInv, UninstallInv, NoDanglingAnchor, RedirectStands, RunTypes,
            Ops, Steps, At
<1>1. CASE WriteRules
  <2>1. CASE Goes("conf") /\ anchor' = [anchor EXCEPT ![run.kind] = run.port]
    BY <1>1, <2>1 DEF WriteRules, Goes
  <2>2. CASE run' = Idle /\ UNCHANGED <<anchor, acked>>
    BY <1>1, <2>2, PfEnd DEF WriteRules
  <2> QED BY <1>1, <2>1, <2>2 DEF WriteRules, WriteRefused, WriteTorn, Fails, End
<1>2. CASE WriteConf
  <2>1. CASE /\ refs' = refs \cup {run.kind}
             /\ run' = [run EXCEPT !.pc = "load", !.original = refs]
             /\ UNCHANGED acked
    BY Zenon, <1>2, <2>1 DEF WriteConf
  <2>2. CASE run' = Idle /\ UNCHANGED <<refs, acked>>
    BY <1>2, <2>2, PfEnd DEF WriteConf
  <2> QED BY <1>2, <2>1, <2>2
          DEF WriteConf, InsertRefs, WriteRefused, WriteTorn, Fails, End
<1>3. CASE LoadConf
  <2>1. CASE Goes("plist") /\ UNCHANGED refs
    BY <1>3, <2>1 DEF LoadConf, Goes
  <2>2. CASE run' = Idle /\ refs' = refs /\ UNCHANGED acked
    BY <1>3, <2>2, PfEnd DEF LoadConf
  <2>3. CASE run' = Idle /\ refs' = run.original /\ UNCHANGED acked
    BY <1>3, <2>3, IdleTyped DEF LoadConf
  <2> QED BY <1>3, <2>1, <2>2, <2>3 DEF LoadConf, Fails, End
<1>4. CASE WritePlist
  <2>1. CASE Goes("bootstrap") /\ plist' = plist \cup {run.kind}
    BY <1>4, <2>1 DEF WritePlist, Goes
  <2>2. CASE run' = Idle /\ plist' = plist \cup {run.kind} /\ UNCHANGED acked
    BY <1>4, <2>2, IdleTyped DEF WritePlist
  <2>3. CASE run' = Idle /\ UNCHANGED <<plist, acked>>
    BY <1>4, <2>3, PfEnd DEF WritePlist
  <2> QED BY <1>4, <2>1, <2>2, <2>3
          DEF WritePlist, WriteRefused, WriteTorn, Fails, End
<1>5. CASE Bootstrap
  <2>1. CASE run' = Idle /\ acked' = [acked EXCEPT ![run.kind] = run.port]
    BY <1>5, <2>1, IdleTyped DEF Bootstrap, files
  <2>2. CASE run' = Idle /\ UNCHANGED acked
    BY <1>5, <2>2, PfEnd DEF Bootstrap, files
  <2> QED BY <1>5, <2>1, <2>2 DEF Bootstrap, Fails, End
<1> QED BY <1>1, <1>2, <1>3, <1>4, <1>5

LEMMA PfUninstall ==
    ASSUME None \notin Ports, PfInv, Bootout \/ StripConf \/ Reload \/ RemoveFiles
    PROVE  PfInv'
<1> USE DEF PfInv, InstallInv, UninstallInv, NoDanglingAnchor, RedirectStands, RunTypes,
            Ops, Steps, At
<1>1. CASE Bootout
  BY <1>1 DEF Bootout, Goes, files
<1>2. CASE StripConf
  <2>1. CASE refs' = refs \ {run.kind} /\ (Goes("files") \/ Goes("reload"))
    BY <1>2, <2>1 DEF StripConf, Goes
  <2>2. CASE run' = Idle /\ UNCHANGED <<refs, acked>>
    BY <1>2, <2>2, PfEnd DEF StripConf
  <2> QED BY <1>2, <2>1, <2>2
          DEF StripConf, RemoveRefs, WriteRefused, WriteTorn, Fails, End
<1>3. CASE Reload
  BY <1>3 DEF Reload, Goes, files
<1>4. CASE RemoveFiles
  <2>1. run' = Idle /\ UNCHANGED acked /\ plist' \in {plist, plist \ {run.kind}}
    BY <1>4 DEF RemoveFiles, Fails, End
  <2> QED BY <1>4, <2>1, IdleTyped DEF RemoveFiles
<1> QED BY <1>1, <1>2, <1>3, <1>4

LEMMA PfNext == ASSUME None \notin Ports, PfInv, [Next]_vars PROVE PfInv'
<1>1. CASE Kill
  BY <1>1, PfEnd DEF Kill, End, files
<1>2. CASE Reboot \/ UserEditsConf \/ UNCHANGED vars
  BY <1>2 DEF Reboot, UserEditsConf, vars, files, PfInv, InstallInv, UninstallInv,
              NoDanglingAnchor, RedirectStands
<1> QED BY <1>1, <1>2, PfStart, PfInstall, PfUninstall DEF Next

\* For any ports and any number of runs, failed writes included: pf.conf never refers to
\* a missing anchor file (pf.rs, lan_pf.rs: the order of the writes and of the removals).
THEOREM NeverDangling == ASSUME None \notin Ports PROVE Spec => []NoDanglingAnchor
<1>1. PfInv => NoDanglingAnchor
  BY DEF PfInv
<1> QED BY PfInit, PfNext, <1>1, PTL DEF Spec

\* An install that ended well keeps its rules, its lines and its boot entry whatever runs
\* of the other kind do, their roll-backs included.
THEOREM AckedRedirectStands == ASSUME None \notin Ports PROVE Spec => []RedirectStands
<1>1. PfInv => RedirectStands
  BY DEF PfInv
<1> QED BY PfInit, PfNext, <1>1, PTL DEF Spec
=============================================================================
