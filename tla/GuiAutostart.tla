----------------------------- MODULE GuiAutostart -----------------------------
(***************************************************************************)
(* The desktop application's part in keeping the daemon and itself         *)
(* registered with macOS (apps/orcker-gui/src-tauri/src/autostart.rs and   *)
(* smappservice.rs): the settings file gui-settings.json, the self-repair  *)
(* thread that runs at every launch, and the commands that start the       *)
(* daemon, switch its login item, switch the application's own login item  *)
(* and store a preference.                                                 *)
(*                                                                         *)
(* Several of these run at the same time, on threads of their own.  The    *)
(* settings file is written in two ways.  update_settings holds            *)
(* SETTINGS_LOCK over its read, its change and its write, and is one step  *)
(* here.  save_settings locks the write alone: the flows that use it load  *)
(* the file, talk to macOS for seconds and then write back the copy they   *)
(* loaded, and here the load and the write are steps of their own.         *)
(* DAEMON_REG_LOCK serialises ensure_daemon_registration and smapp_enable. *)
(*                                                                         *)
(* A version is a number; 0 stands for none.  reg is what SMAppService     *)
(* holds for the daemon and job what launchd would run.  Copies of the     *)
(* application of several versions may be launched one after another       *)
(* (tauri-plugin-single-instance lets one run at a time), and replacing    *)
(* the bundle may lose the registration or the job.                        *)
(***************************************************************************)
EXTENDS Naturals, FiniteSets

CONSTANTS Workers,      \* threads that run commands
          Setup,        \* the thread setup_app starts
          MaxVersion,   \* versions of the application, 1 .. MaxVersion
          MaxLaunches,  \* launches of the application
          MaxCommands   \* commands over the whole behaviour

VARIABLES app,      \* version of the running application
          file,     \* gui-settings.json
          asked,    \* the preference the user stored last
          reg,      \* the daemon's SMAppService registration
          job,      \* version of the launchd job
          legacy,   \* the daemon's loose plist of an earlier release exists
          login,    \* the application's login item
          lock,     \* holder of DAEMON_REG_LOCK, a set of at most one thread
          th,       \* what every thread is doing
          slipped,  \* since a registration was last recorded: did the application end
                    \* before it recorded one, a record fail to be saved or an old one
                    \* come back, or launchctl not answer?
          launches, commands

vars == <<app, file, asked, reg, job, legacy, login, lock, th, slipped, launches, commands>>

Threads == Workers \cup {Setup}
Versions == 1 .. MaxVersion
Prefs == 0 .. 1
Settings == [autostart : BOOLEAN, ver : 0 .. MaxVersion, conflict : 0 .. MaxVersion,
             migrated : BOOLEAN, pref : Prefs]

\* status_means_registered: pending approval counts as registered.
Registered == reg.ver # 0

\* What macOS would run as the daemon, whatever registered it.
Owner == IF job # 0 THEN job ELSE reg.ver

Flows == {"start", "on", "off", "login_on", "login_off"}

TypeOK ==
    /\ app \in Versions /\ file \in Settings /\ asked \in Prefs
    /\ reg \in [ver : 0 .. MaxVersion, enabled : BOOLEAN]
    /\ job \in 0 .. MaxVersion /\ legacy \in BOOLEAN
    /\ login \in [loose : BOOLEAN, reg : BOOLEAN, wanted : BOOLEAN]
    /\ lock \subseteq Threads /\ Cardinality(lock) <= 1
    /\ \A t \in Threads : th[t].copy \in Settings

\* A thread that holds no copy of the settings.
Unloaded == [autostart |-> FALSE, ver |-> 0, conflict |-> 0, migrated |-> FALSE, pref |-> 0]
Thread(pc, flow) == [pc |-> pc, flow |-> flow, copy |-> Unloaded, again |-> FALSE]

\* A new installation, or one of an earlier release with its loose login items.
Init ==
    /\ app \in Versions
    /\ \E m \in BOOLEAN : file = [Unloaded EXCEPT !.migrated = m]
    /\ asked = 0
    /\ reg = [ver |-> 0, enabled |-> FALSE] /\ job = 0 /\ legacy \in BOOLEAN
    /\ \E l \in BOOLEAN : login = [loose |-> l, reg |-> FALSE, wanted |-> l]
    /\ lock = {}
    /\ th = [t \in Threads |-> IF t = Setup THEN Thread("migrate", "setup") ELSE Thread("idle", "idle")]
    /\ slipped = FALSE /\ launches = 1 /\ commands = 0

-----------------------------------------------------------------------------
(***************************************************************************)
(* Moves of one thread.                                                    *)
(***************************************************************************)
At(t, pc) == th[t].pc = pc
Goto(t, pc) ==
    th' = [th EXCEPT ![t].pc = pc,
                     ![t].copy = IF pc \in {"login_clean", "migrate_save"} THEN @ ELSE Unloaded]
With(t, pc, copy) == th' = [th EXCEPT ![t].pc = pc, ![t].copy = copy]

\* What follows a function that returned Ok, and one that failed: only the
\* launch-time repair tries again, once.
Returned(t) ==
    LET next == CASE th[t].flow = "setup" -> "idle"
                  [] At(t, "kick") \/ At(t, "autostart") -> "idle"
                  [] th[t].pc \in {"enable", "enable_record"} ->
                       IF th[t].flow = "start" THEN "kick" ELSE "autostart"
                  [] OTHER -> "enable"
    IN  Goto(t, next)
Failed(t) ==
    IF th[t].flow = "setup" /\ ~th[t].again
    THEN th' = [th EXCEPT ![t] = [Thread("ensure", "setup") EXCEPT !.again = TRUE]]
    ELSE Goto(t, "idle")

\* It has registered the daemon and is still to record that.
Unrecorded(t) == th[t].pc \in {"reload", "record", "enable_load", "enable_record"}

Outside == <<app, asked, launches, commands>>
Macos == <<reg, job, legacy, login>>

\* update_settings: load, change and save under SETTINGS_LOCK.
update_settings(changed) == file' = changed

\* save_settings: the copy the flow loaded replaces the file; that it could not be written
\* is ignored.
Save(t) ==
    LET copy == th[t].copy
    IN  \/ /\ file' = copy
           /\ slipped' = (th[t].pc \notin {"record", "enable_record"} /\ (slipped \/ (~At(t, "clear") /\ copy.ver # file.ver)))
        \/ UNCHANGED file /\ slipped' = (slipped \/ copy.ver # file.ver)

-----------------------------------------------------------------------------
(***************************************************************************)
(* The daemon's registration.                                              *)
(***************************************************************************)

Decide(gui, stored) ==
    IF stored = 0 \/ gui > stored THEN "Reconcile"
    ELSE IF gui = stored THEN "UpToDate" ELSE "Conflict"

RegAction(decision, phantom) ==
    CASE decision = "Conflict" -> "Refuse"
      [] decision = "Reconcile" \/ phantom -> "Reregister"
      [] OTHER -> "NoOp"

\* What launchctl print says of the daemon's job: a call that times out counts as no job
\* where a job is a reason to register again, and as a job where its absence is one.
daemon_launchd_job_exists(answers) == answers /\ job # 0
daemon_launchd_job_missing(answers) == answers /\ job = 0

\* ensure_daemon_registration up to its first save or its first change.
Ensure(t) == \E answers \in BOOLEAN :
    LET has == file.autostart \/ Registered \/ daemon_launchd_job_exists(answers)
        decision == Decide(app, file.ver)
        act == RegAction(decision, /\ decision = "UpToDate" /\ Registered /\ reg.enabled
                                   /\ daemon_launchd_job_missing(answers))
        cleared == [file EXCEPT !.ver = 0, !.conflict = 0]
        conflict == [file EXCEPT !.conflict = IF act = "Refuse" THEN file.ver ELSE 0]
    IN  /\ At(t, "ensure") /\ lock = {}
        /\ \/ /\ ~has /\ cleared # file
              /\ With(t, "clear", cleared) /\ lock' = {t}
           \/ /\ ~has /\ cleared = file
              /\ Returned(t) /\ UNCHANGED lock
           \/ /\ has /\ act # "Reregister" /\ conflict # file
              /\ With(t, IF act = "Refuse" THEN "refuse_save" ELSE "ensure_save", conflict)
              /\ lock' = {t}
           \/ /\ has /\ act = "Refuse" /\ conflict = file
              /\ Failed(t) /\ UNCHANGED lock
           \/ /\ has /\ act = "NoOp" /\ conflict = file
              /\ Returned(t) /\ UNCHANGED lock
           \/ /\ has /\ act = "Reregister"
              /\ Goto(t, "unregister") /\ lock' = {t}
        /\ slipped' = (slipped \/ (~has /\ job # 0))
        /\ UNCHANGED <<file, Macos, Outside>>

EnsureSave(t) ==
    /\ \/ th[t].pc \in {"clear", "ensure_save"} /\ Returned(t)
       \/ At(t, "record") /\ Returned(t)
       \/ At(t, "refuse_save") /\ Failed(t)
    /\ Save(t) /\ lock' = {}
    /\ UNCHANGED <<Macos, Outside>>

\* Errors of this unregistration are ignored, so it may leave things as they are.
Unregister(t) ==
    /\ At(t, "unregister") /\ Goto(t, "register")
    /\ \/ reg' = [ver |-> 0, enabled |-> FALSE] /\ job' = 0
       \/ UNCHANGED <<reg, job>>
    /\ UNCHANGED <<file, lock, legacy, login, Outside, slipped>>

\* register: the agent of the running bundle, started at once when the user
\* has approved it.  register_repairing unregisters before its second try.
Registers ==
    \E ok \in BOOLEAN :
        /\ reg' = [ver |-> app, enabled |-> ok]
        /\ job' = IF ok THEN app ELSE 0
RegisterFails ==
    /\ reg' = [ver |-> 0, enabled |-> FALSE] /\ job' = 0

Register(t) ==
    /\ At(t, "register")
    /\ \/ Registers /\ Goto(t, "reload") /\ UNCHANGED lock
       \/ RegisterFails /\ Failed(t) /\ lock' = {}
    /\ UNCHANGED <<file, legacy, login, Outside, slipped>>

Reload(t) ==
    /\ At(t, "reload")
    /\ With(t, "record", [file EXCEPT !.ver = app, !.conflict = 0])
    /\ UNCHANGED <<file, lock, Macos, Outside, slipped>>

\* smapp_enable; cleanup_legacy boots out the label the two agents share, and
\* only when the loose plist exists.
Enable(t) ==
    /\ At(t, "enable") /\ lock = {}
    /\ \/ /\ Registered
          /\ Returned(t) /\ UNCHANGED <<lock, legacy, job>>
       \/ /\ ~Registered
          /\ lock' = {t} /\ Goto(t, "enable_register")
          /\ legacy' = FALSE
          /\ job' = IF legacy THEN 0 ELSE job
    /\ UNCHANGED <<file, reg, login, Outside, slipped>>

EnableRegister(t) ==
    /\ At(t, "enable_register")
    /\ \/ Registers /\ Goto(t, "enable_load") /\ UNCHANGED lock
       \/ RegisterFails /\ Failed(t) /\ lock' = {}
    /\ UNCHANGED <<file, legacy, login, Outside, slipped>>

EnableLoad(t) ==
    /\ At(t, "enable_load")
    /\ With(t, "enable_record", [file EXCEPT !.ver = app])
    /\ UNCHANGED <<file, lock, Macos, Outside, slipped>>

EnableSave(t) ==
    /\ At(t, "enable_record")
    /\ Returned(t) /\ Save(t) /\ lock' = {}
    /\ UNCHANGED <<Macos, Outside>>

\* The last step of a start: launchctl kickstart, without -k.
Kick(t) ==
    /\ At(t, "kick") /\ Returned(t)
    /\ job' = IF job = 0 /\ reg.enabled THEN reg.ver ELSE job
    /\ UNCHANGED <<file, lock, reg, legacy, login, Outside, slipped>>

\* daemon_set_login(off): looked up first, without DAEMON_REG_LOCK ...
OffCheck(t) ==
    /\ At(t, "off")
    /\ Goto(t, IF ~Registered THEN "off_clean"
               ELSE IF app < file.ver THEN "idle" ELSE "off_unregister")
    /\ UNCHANGED <<file, lock, Macos, Outside, slipped>>

\* ... and acted on later.
OffUnregister(t) ==
    /\ At(t, "off_unregister")
    /\ \/ reg' = [ver |-> 0, enabled |-> FALSE] /\ job' = 0 /\ Goto(t, "off_clean")
       \/ Goto(t, "idle") /\ UNCHANGED <<reg, job>>
    /\ UNCHANGED <<file, lock, legacy, login, Outside, slipped>>

OffClean(t) ==
    /\ At(t, "off_clean") /\ Goto(t, "autostart")
    /\ legacy' = FALSE /\ job' = IF legacy THEN 0 ELSE job
    /\ UNCHANGED <<file, lock, reg, login, Outside, slipped>>

\* set_autostart_daemon ends with update_settings.
StoreAutostart(t) ==
    /\ At(t, "autostart") /\ Returned(t)
    /\ update_settings([file EXCEPT !.autostart = th[t].flow = "on"])
    /\ UNCHANGED <<lock, Macos, Outside, slipped>>

-----------------------------------------------------------------------------
(***************************************************************************)
(* The application's own login item.                                       *)
(***************************************************************************)
AfterLogin(t) == IF th[t].flow = "setup" THEN "migrate_save" ELSE "idle"

\* migrate_gui_login_if_needed loads the settings it will write back.
Migrate(t) ==
    /\ At(t, "migrate")
    /\ With(t, IF file.migrated THEN "ensure"
               ELSE IF login.loose THEN "login" ELSE "migrate_save",
            [file EXCEPT !.migrated = TRUE])
    /\ UNCHANGED <<file, lock, Macos, Outside, slipped>>

MigrateSave(t) ==
    /\ At(t, "migrate_save") /\ Goto(t, "ensure")
    /\ Save(t)
    /\ UNCHANGED <<lock, Macos, Outside>>

\* gui_smapp_enable registers before it removes the loose plist.
LoginRegister(t) ==
    /\ At(t, "login")
    /\ \/ /\ Goto(t, "login_clean")
          /\ login' = [login EXCEPT !.reg = TRUE, !.wanted = @ \/ th[t].flow = "login_on"]
       \/ /\ ~login.reg
          /\ Goto(t, IF th[t].flow = "setup" THEN "ensure" ELSE "idle")
          /\ UNCHANGED login
    /\ UNCHANGED <<file, lock, reg, job, legacy, Outside, slipped>>

\* gui_cleanup_legacy: the loose plist may stay.
LoginClean(t) == \E stays \in BOOLEAN :
    /\ At(t, "login_clean") /\ Goto(t, AfterLogin(t))
    /\ login' = [login EXCEPT !.loose = @ /\ stays, !.wanted = @ /\ th[t].flow # "login_off"]
    /\ UNCHANGED <<file, lock, reg, job, legacy, Outside, slipped>>

\* gui_smapp_disable: a failed unregistration leaves the loose plist too.
LoginOff(t) ==
    /\ At(t, "login_off")
    /\ \/ Goto(t, "login_clean") /\ login' = [login EXCEPT !.reg = FALSE, !.wanted = FALSE]
       \/ login.reg /\ Goto(t, "idle") /\ UNCHANGED login
    /\ UNCHANGED <<file, lock, reg, job, legacy, Outside, slipped>>

-----------------------------------------------------------------------------
(***************************************************************************)
(* The user, and the world outside.                                        *)
(***************************************************************************)
Command(t, flow) ==
    /\ At(t, "idle") /\ t # Setup /\ commands < MaxCommands
    /\ commands' = commands + 1
    /\ th' = [th EXCEPT ![t] = Thread(CASE flow \in {"start", "on"} -> "ensure"
                                        [] flow = "login_on" -> "login"
                                        [] OTHER -> flow, flow)]
    /\ UNCHANGED <<app, file, asked, lock, Macos, launches, slipped>>

\* A preference command (set_gui_minimized, set_preferred_ide, ...): one
\* update_settings.
SetPref(p) ==
    /\ p # asked /\ commands < MaxCommands
    /\ commands' = commands + 1
    /\ asked' = p /\ update_settings([file EXCEPT !.pref = p])
    /\ UNCHANGED <<app, lock, Macos, th, launches, slipped>>

Approve ==
    /\ Registered /\ ~reg.enabled
    /\ reg' = [reg EXCEPT !.enabled = TRUE] /\ job' = reg.ver
    /\ UNCHANGED <<file, lock, legacy, login, th, Outside, slipped>>

\* The application ends, in whatever it was doing, and a copy of some version
\* is launched.  A replaced bundle may lose its registration or its job.
Relaunch(v) ==
    /\ launches < MaxLaunches /\ launches' = launches + 1
    /\ app' = v
    /\ \/ UNCHANGED <<reg, job>>
       \/ v # app /\ job # 0 /\ reg' = [ver |-> 0, enabled |-> FALSE] /\ UNCHANGED job
       \/ v # app /\ Registered /\ job' = 0 /\ UNCHANGED reg
    /\ lock' = {} /\ slipped' = (slipped \/ \E t \in Threads : Unrecorded(t))
    /\ th' = [t \in Threads |-> IF t = Setup THEN Thread("migrate", "setup")
                                ELSE Thread("idle", "idle")]
    /\ UNCHANGED <<file, asked, legacy, login, commands>>

Step(t) ==
    \/ Ensure(t) \/ EnsureSave(t) \/ Unregister(t) \/ Register(t) \/ Reload(t)
    \/ Enable(t) \/ EnableRegister(t) \/ EnableLoad(t) \/ EnableSave(t) \/ Kick(t)
    \/ OffCheck(t) \/ OffUnregister(t) \/ OffClean(t) \/ StoreAutostart(t)
    \/ Migrate(t) \/ MigrateSave(t) \/ LoginRegister(t) \/ LoginClean(t) \/ LoginOff(t)

Next ==
    \/ \E t \in Threads : Step(t)
    \/ \E t \in Workers, flow \in Flows : Command(t, flow)
    \/ \E p \in Prefs : SetPref(p)
    \/ Approve
    \/ \E v \in Versions : Relaunch(v)

Spec == Init /\ [][Next]_vars

\* What the settings screen shows of the application's login item.
gui_login_enabled == login.reg \/ login.loose

-----------------------------------------------------------------------------
\* An older copy of the application neither replaces nor removes the daemon a newer one
\* registered, whatever lost registrations, lost jobs and commands came before, unless the
\* record that it goes by slipped: the newer copy ended between registering and recording
\* it, the record could not be saved or was written over by the migration of the login item
\* with what it had loaded before, or launchctl did not answer.
OlderGuiRefused ==
    Owner # 0 =>
      \/ Owner' >= Owner
      \/ Owner' = 0 /\ (Owner <= app \/ app' # app)
      \/ slipped

\* The application starts at login from when the user turned that on until it is turned
\* off, however often its registration fails on the way from one login item to the other.
LoginItemKept == login.wanted => gui_login_enabled

\* A preference the user stored stays stored ("holding it across
\* load-mutate-save additionally stops two updates to different fields from
\* losing one another").
PrefKept == file.pref = asked
=============================================================================
