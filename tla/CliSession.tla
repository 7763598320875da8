----------------------------- MODULE CliSession -----------------------------
(***************************************************************************)
(* The orcker command line: one command after another against a daemon     *)
(* that others restart, that may crash in the middle of an exchange, and   *)
(* that may be of another protocol version.  A command is one exchange or  *)
(* a short script of them (bin/orcker/src/lib.rs); every exchange opens    *)
(* its own connection.                                                     *)
(***************************************************************************)
EXTENDS IpcContract, Naturals

CONSTANTS
    MaxBoots,     \* how often the daemon process starts
    MaxPolls      \* polls of a job or of the boot id before the command gives up

VARIABLES
    daemon,   \* phase, boot, the saved and the live LAN setting, other version or not
    cli,      \* the command, --json, its step, what it remembers, its exit code
    carried   \* the requests of this command the daemon has carried out

vars == <<daemon, cli, carried>>

\* ------------------------------------------------------- commands (cli.rs)
\* Commands that are one exchange, with the request map.rs gives them.
SiteCommands ==
    "ping" :> "Ping" @@ "park" :> "Park" @@ "link" :> "LinkProject"
      @@ "unlink" :> "Unlink" @@ "unpark" :> "Unpark" @@ "secure" :> "SetSecure"
      @@ "root" :> "SetWebRoot" @@ "front-controller" :> "SetFrontController"
      @@ "list parked" :> "ListParked"

ToolCommands == "tools" :> "ListTools" @@ "uninstall tool" :> "UninstallTool"

DomainCommands ==
    "domain add" :> "AddDomain" @@ "domain remove" :> "RemoveDomain"
      @@ "domain primary" :> "SetPrimaryDomain" @@ "domain reset" :> "ResetDomains"

ProxyCommands ==
    "proxy list" :> "ListProxies" @@ "proxy add" :> "AddProxy"
      @@ "proxy add path" :> "AddProxyRule" @@ "proxy remove" :> "RemoveProxy"
      @@ "proxy remove path" :> "RemoveProxyRule"

RouteCommands ==
    "route list" :> "ListRoutes" @@ "route add" :> "AddRouteRule"
      @@ "route remove" :> "RemoveRouteRule"

TunnelCommands ==
    "tunnel share" :> "StartQuickTunnel" @@ "tunnel stop" :> "StopTunnel"
      @@ "tunnel status" :> "TunnelStatus" @@ "tunnel create" :> "CreateNamedTunnel"
      @@ "tunnel delete" :> "DeleteNamedTunnel" @@ "tunnel list" :> "ListNamedTunnels"
      @@ "tunnel route" :> "RouteTunnelDns" @@ "tunnel set-host" :> "SetSiteTunnel"
      @@ "tunnel publish" :> "StartNamedTunnel" @@ "tunnel unpublish" :> "StopNamedTunnel"

OtherCommands ==
    "mail list" :> "ListMails" @@ "mail show" :> "GetMail" @@ "mail clear" :> "ClearMails"
      @@ "doctor" :> "Diagnose" @@ "doctor fix" :> "DoctorFix"
      @@ "restart daemon" :> "RestartDaemon" @@ "update" :> "CheckUpdate"
      @@ "remote-setup" :> "MintRemoteSetupCode"

PlainRequest ==
    SiteCommands @@ ToolCommands @@ DomainCommands @@ ProxyCommands @@ RouteCommands
      @@ TunnelCommands @@ OtherCommands

\* Commands that follow a job, and the request that starts it; with --json they are a
\* single exchange (a tool install through the request that is not a job).
StreamRequest ==
    "install tool" :> "InstallToolStreamed"
      @@ "tunnel install" :> "InstallCloudflaredStreamed"
      @@ "tunnel login" :> "CloudflaredLogin"

JsonRequest ==
    PlainRequest @@ "install tool" :> "InstallTool"
      @@ "tunnel install" :> "InstallCloudflaredStreamed"
      @@ "tunnel login" :> "CloudflaredLogin"

\* Commands answered by a script of their own.
Scripts == {"sites", "status", "lan status", "domain list", "route list of", "lan",
            "update apply"}

\* Commands whose arguments are checked before any connection.
Checked == {"unlink", "secure", "root", "front-controller", "link", "park"}
             \cup DOMAIN DomainCommands
             \cup (DOMAIN ProxyCommands \ {"proxy list"})
             \cup (DOMAIN RouteCommands \ {"route list"})

\* -------------------------------------------------------------- the exchange
Lost == {"down", "closed", "broken"}

\* What transport::exchange can end with: no connection, a connection the daemon closes
\* or breaks as it dies, or an answer.
Outcomes(r) ==
    IF daemon.phase # "up" THEN {"down"}
    ELSE {"closed", "broken"} \cup ExchangeAnswers(r, daemon.skewed)

\* A carried request has its effect in the daemon.  A restart is answered first.  A
\* connection is closed by a daemon that stops, before or after it carried the request
\* out; one that breaks may also never have been accepted.
Effect(r, o, on, done) ==
    LET saved == IF done /\ r = "SetLanEnabled" THEN on ELSE daemon.lan
        phase == IF o = "closed" \/ (o = "broken" /\ done) THEN "down"
                 ELSE IF done /\ r = "RestartDaemon" THEN "closing" ELSE daemon.phase
    IN  /\ daemon' = [daemon EXCEPT !.lan = saved, !.phase = phase]
        /\ carried' = IF done /\ r \in Changes THEN carried \cup {r} ELSE carried

Exchange(r, o) ==
    /\ o \in Outcomes(r)
    /\ \E done \in BOOLEAN :
         /\ o = "down" => ~done
         /\ o \notin Lost => done = Carried(o)
         /\ done => \E a \in ExchangeAnswers(r, daemon.skewed) : Carried(a)
         /\ Effect(r, o, cli.on, done)

\* ------------------------------------------------------------- the exit code
\* The kinds of response that are printed as text; the others are "unexpected".
PrintedSites == {"Sites", "Projects", "Project", "Parked", "RemoteSetup"}
PrintedRules == {"Proxies", "Routes"}
PrintedTunnels == {"Mails", "Mail", "Tools", "Tunnels", "NamedTunnels"}
PrintedStatus == {"Status"}
PrintedReports == {"Diagnoses", "DoctorFix", "UpdateStatus"}
Printed == {"Pong", "Ok", Refused, Mismatch} \cup PrintedSites \cup PrintedRules
             \cup PrintedTunnels \cup PrintedStatus \cup PrintedReports

Render(a, json) ==
    IF a \in {Refused, Mismatch} \/ (~json /\ a \notin Printed) THEN {1}
    ELSE IF a \in {"Diagnoses", "DoctorFix"} THEN {0, 1} ELSE {0}

LostCode(o) == IF o = "broken" THEN 74 ELSE 69

Exit(code, odd) == cli' = [cli EXCEPT !.step = "done", !.code = code, !.odd = odd]

\* ------------------------------------------------------------------ commands
Idle == [cmd |-> "", json |-> FALSE, step |-> "idle", on |-> FALSE, before |-> {},
         saved |-> {}, job |-> "", polls |-> 0, code |-> 0, odd |-> FALSE]

Init ==
    /\ daemon = [phase |-> "up", boot |-> 1, lan |-> FALSE, live |-> FALSE,
                 skewed |-> FALSE]
    /\ cli = Idle
    /\ carried = {}

Begin(c, json, on, step) ==
    /\ cli.step \in {"idle", "done"}
    /\ cli' = [Idle EXCEPT !.cmd = c, !.json = json, !.on = on, !.step = step]
    /\ carried' = {}
    /\ UNCHANGED daemon

RunPlain ==
    \E json \in BOOLEAN :
      \E c \in IF json THEN DOMAIN JsonRequest ELSE DOMAIN PlainRequest :
        Begin(c, json, FALSE, "one")

RunStream == \E c \in DOMAIN StreamRequest : Begin(c, FALSE, FALSE, "start job")

RunScript ==
    \E c \in Scripts, json, on \in BOOLEAN :
      /\ on => c \in {"lan", "update apply"}
      /\ Begin(c, json, on,
               CASE c = "lan" -> "read boot"
                 [] c = "update apply" -> IF json THEN "one" ELSE IF on THEN "set channel" ELSE "check"
                 [] c = "domain list" -> "info"
                 [] OTHER -> "read")

\* A bad argument, and --json on an update that is to be applied, end before connecting.
Usage ==
    /\ cli.step = "one"
    /\ cli.cmd \in Checked \cup {"update apply"}
    /\ Exit(2, FALSE)
    /\ UNCHANGED <<daemon, carried>>

PlainOf(c, json) == IF json THEN JsonRequest[c] ELSE PlainRequest[c]

\* The common path of run: exchange, render, exit.  The doctor prints its own finding
\* when no daemon answers.
One ==
    /\ cli.step = "one" /\ cli.cmd # "update apply"
    /\ LET r == PlainOf(cli.cmd, cli.json)
       IN  \E o \in Outcomes(r) :
             /\ Exchange(r, o)
             /\ \E code \in IF o \in Lost
                            THEN {IF o # "broken" /\ cli.cmd \in {"doctor", "doctor fix"}
                                  THEN 1 ELSE LostCode(o)}
                            ELSE Render(o, cli.json) :
                  Exit(code, o \notin Lost /\ ~cli.json /\ o \notin Printed)

\* ------------------------------------------------------------------ the jobs
StartJob ==
    /\ cli.step = "start job"
    /\ LET r == StreamRequest[cli.cmd]
       IN  \E o \in Outcomes(r) :
             /\ Exchange(r, o)
             /\ IF o = "JobStarted" THEN cli' = [cli EXCEPT !.step = "poll job", !.job = "running"]
                ELSE IF o \in Lost THEN Exit(LostCode(o), FALSE)
                ELSE IF o \in {Refused, Mismatch} THEN Exit(1, FALSE) ELSE Exit(74, TRUE)

\* A restarted daemon does not know the job and answers that there is none.
PollJob ==
    /\ cli.step = "poll job"
    /\ \E o \in Outcomes("JobStatus") :
         /\ o \in JobStates => cli.job # ""
         /\ Exchange("JobStatus", o)
         /\ CASE o = "running" ->
                   /\ cli.polls < MaxPolls
                   /\ cli' = [cli EXCEPT !.polls = @ + 1]
              [] o = "succeeded" -> Exit(0, FALSE)
              [] o \in {"failed", "cancelled", Refused, Mismatch} -> Exit(1, FALSE)
              [] o \in Lost -> Exit(LostCode(o), FALSE)
              [] OTHER -> Exit(74, TRUE)

\* ------------------------------------------------- sites, status, domain list
\* sites: the projects of the second exchange are left out if anything goes wrong.
\* status: so is the docker section, with a note.  lan status needs only the report.
ReadRequest(c) ==
    CASE c = "sites" -> "ListSites" [] c = "route list of" -> "ListRoutes"
      [] c \in {"status", "lan status"} -> "Status" [] OTHER -> "ListSites"

ReadKind(c) ==
    CASE c = "route list of" -> "Routes" [] c \in {"status", "lan status"} -> "Status"
      [] OTHER -> "Sites"

\* The domain listing needs the TLD first; any answer but Info is unexpected there.
Info ==
    /\ cli.step = "info"
    /\ \E o \in Outcomes("DaemonInfo") :
         /\ Exchange("DaemonInfo", o)
         /\ IF o = "Info" THEN cli' = [cli EXCEPT !.step = "read"]
            ELSE IF o \in Lost THEN Exit(LostCode(o), FALSE) ELSE Exit(74, o # Mismatch)

Read ==
    /\ cli.step = "read"
    /\ LET r == ReadRequest(cli.cmd)
       IN  \E o \in Outcomes(r) :
             /\ Exchange(r, o)
             /\ IF o = ReadKind(cli.cmd)
                THEN IF cli.cmd \in {"sites", "status"}
                     THEN cli' = [cli EXCEPT !.step = "second"]
                     ELSE Exit(0, FALSE)
                ELSE IF o \in Lost
                THEN Exit(IF cli.cmd \in {"domain list", "route list of"}
                          THEN LostCode(o) ELSE 69, FALSE)
                ELSE Exit(1, o # Mismatch)

Second ==
    /\ cli.step = "second"
    /\ LET r == IF cli.cmd = "sites" THEN "ListProjects" ELSE "EngineStatus"
       IN  \E o \in Outcomes(r) :
             /\ Exchange(r, o)
             /\ Exit(0, o \notin Lost \cup {"Projects", "EngineStatus", Mismatch})

\* ---------------------------------------------------------------- lan toggle
\* The boot id is read first, so that a later one proves a restart after the save.
ReadBoot ==
    /\ cli.step = "read boot"
    /\ \E o \in Outcomes("Status") :
         /\ Exchange("Status", o)
         /\ IF o = "Status"
            THEN cli' = [cli EXCEPT !.step = "toggle", !.before = {daemon.boot}]
            ELSE Exit(69, o \notin Lost \cup {Mismatch})

Toggle ==
    /\ cli.step = "toggle"
    /\ \E o \in Outcomes("SetLanEnabled") :
         /\ Exchange("SetLanEnabled", o)
         /\ IF o = "Ok" THEN cli' = [cli EXCEPT !.step = "restart", !.saved = {daemon.boot}]
            ELSE IF o \in Lost THEN Exit(69, FALSE)
            ELSE Exit(1, o \notin {Refused, Mismatch})

\* The outcome of the restart request is ignored.
Restart ==
    /\ cli.step = "restart"
    /\ \E o \in Outcomes("RestartDaemon") :
         /\ Exchange("RestartDaemon", o)
         /\ cli' = [cli EXCEPT !.step = "await boot"]

NewBoot(before) == daemon.boot \notin before

AwaitBoot ==
    /\ cli.step = "await boot"
    /\ \E o \in Outcomes("Status") :
         /\ Exchange("Status", o)
         /\ IF o = "Status" /\ NewBoot(cli.before) THEN Exit(0, FALSE)
            ELSE IF cli.polls = MaxPolls THEN Exit(74, FALSE)
            ELSE cli' = [cli EXCEPT !.polls = @ + 1]

\* --------------------------------------------------------------- update apply
\* The channel, then the check, then the staging; the installer runs afterwards.
SetChannel ==
    /\ cli.step = "set channel"
    /\ \E o \in Outcomes("SetUpdateChannel") :
         /\ Exchange("SetUpdateChannel", o)
         /\ IF o = "Ok" THEN cli' = [cli EXCEPT !.step = "check"]
            ELSE IF o \in Lost THEN Exit(LostCode(o), FALSE)
            ELSE IF o \in {Refused, Mismatch} THEN Exit(1, FALSE) ELSE Exit(74, TRUE)

Check ==
    /\ cli.step = "check"
    /\ \E o \in Outcomes("CheckUpdate") :
         /\ Exchange("CheckUpdate", o)
         /\ IF o = "UpdateStatus"
            THEN \/ Exit(0, FALSE)
                 \/ cli' = [cli EXCEPT !.step = "stage"]
            ELSE IF o \in Lost THEN Exit(LostCode(o), FALSE)
            ELSE IF o \in {Refused, Mismatch} THEN Exit(1, FALSE) ELSE Exit(74, TRUE)

Stage ==
    /\ cli.step = "stage"
    /\ \E o \in Outcomes("StageUpdate") :
         /\ Exchange("StageUpdate", o)
         /\ IF o = "Staged" THEN \E code \in {0, 1, 74} : Exit(code, FALSE)
            ELSE IF o \in Lost THEN Exit(LostCode(o), FALSE)
            ELSE IF o \in {Refused, Mismatch} THEN Exit(1, FALSE) ELSE Exit(74, TRUE)

\* ------------------------------------------------------------ the environment
\* A process image that starts reads the LAN setting, forgets the jobs, and may be of
\* another build than the command line when it starts afresh (a re-exec runs the file
\* now on disk, which an upgrade may have replaced).
Boot ==
    /\ daemon.phase \in {"closing", "down"} /\ daemon.boot < MaxBoots
    /\ \E s \in BOOLEAN :
         daemon' = [daemon EXCEPT !.phase = "up", !.boot = @ + 1, !.live = daemon.lan,
                                  !.skewed = s]
    /\ cli' = [cli EXCEPT !.job = ""]
    /\ UNCHANGED carried

Crash ==
    /\ daemon.phase = "up"
    /\ daemon' = [daemon EXCEPT !.phase = "down"]
    /\ UNCHANGED <<cli, carried>>

\* Another client asks for a restart.
OtherRestarts ==
    /\ daemon.phase = "up"
    /\ daemon' = [daemon EXCEPT !.phase = "closing"]
    /\ UNCHANGED <<cli, carried>>

Command == RunPlain \/ RunStream \/ RunScript
Step == Usage \/ One \/ StartJob \/ PollJob \/ Info \/ Read \/ Second
LanStep == ReadBoot \/ Toggle \/ Restart \/ AwaitBoot
UpdateStep == SetChannel \/ Check \/ Stage

Next == Command \/ Step \/ LanStep \/ UpdateStep \/ Boot \/ Crash \/ OtherRestarts

Spec == Init /\ [][Next]_vars

\* ------------------------------------------------------------------ properties
\* The types of the daemon's phase and of the command's step and exit code.
TypeOK ==
    /\ daemon.phase \in {"up", "closing", "down"} /\ daemon.boot \in 1 .. MaxBoots
    /\ cli.code \in {0, 1, 2, 69, 74} /\ carried \subseteq Changes

\* What a command has asked the daemon to change.
Wanted ==
    CASE cli.cmd = "lan" -> {"SetLanEnabled"}
      [] cli.cmd = "update apply" -> IF cli.on THEN {"SetUpdateChannel"} ELSE {}
      [] cli.cmd \in Scripts -> {}
      [] cli.cmd \in DOMAIN StreamRequest /\ ~cli.json -> {StreamRequest[cli.cmd]}
      [] OTHER -> {PlainOf(cli.cmd, cli.json)} \cap Changes

\* A command that exits 0 has had every change it asks for carried out by the daemon,
\* whatever crashed, restarted or was refused on the way (the exit codes of lib.rs and
\* the doctor_exit_code that --json shares with the text output).
ExitZeroMeansDone ==
    cli.step = "done" /\ cli.code = 0 => Wanted \subseteq carried

\* The command line never meets a response it does not know how to treat: for every
\* command, with and without --json, each answer the dispatcher gives is either used,
\* printed or reported as the error it is (the `unexpected response` arms of lib.rs and
\* map.rs are unreachable).
AnswersUnderstood == ~cli.odd

\* A daemon of another protocol version is not changed by any command: the Hello of the
\* same connection is refused before the request goes out.
SkewedUntouched == daemon.skewed => carried' \in {carried, {}}

\* When `orcker lan enable` or `disable` reports success, the daemon that answered has
\* started with the new setting, whatever restart or crash follows the save and whether
\* or not the restart request itself got through.  (The boot id is read before the save:
\* the statement leaves out a daemon restarted by someone else between the two.)
LanToggleIsLive ==
    (cli.cmd = "lan" /\ cli.step = "done" /\ cli.code = 0 /\ daemon.phase = "up"
       /\ cli.saved = cli.before)
    => daemon.live = cli.on
=============================================================================
