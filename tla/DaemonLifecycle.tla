-------------------------- MODULE DaemonLifecycle --------------------------
(***************************************************************************)
(* Starts, restarts and ends of orckerd: the configuration is loaded, the  *)
(* instance lock taken, the certificate authority loaded or generated and  *)
(* the listeners bound; requests are then served until a signal or a       *)
(* RestartDaemon request shuts the process down, which drops the lock, then*)
(* the runtime with whatever handlers still run, and re-executes itself if *)
(* a restart was asked for.  A boot is one run of the program; crashes are *)
(* allowed at every step.  The configuration is the set of changes in it.  *)
(***************************************************************************)
EXTENDS Naturals, FiniteSets

CONSTANTS
    Clients,        \* each makes one change or asks for one restart
    Gui,            \* the client that edits ports (useFallbackPorts.ts)
    MaxBoots

Boots == 1..MaxBoots
NoBoot == 0
Listeners == {"web", "dns", "mail"}
Alive == {"loaded", "locked", "cert", "bind", "serving", "ending", "exiting", "restarting"}

VARIABLES
    file,       \* changes in orcker.toml
    lock,       \* boot that holds orcker.lock
    ca,         \* ca.cert.pem and ca.key.pem: absent, torn or the boot that generated it
    boot,       \* the processes
    conn,       \* the request a client has under way
    acked,      \* changes whose client was told Ok
    gui,        \* applyAndRestart
    raced       \* has a boot gone on with a configuration that is not the file's any more?

vars == <<file, lock, ca, boot, conn, acked, gui, raced>>

BootType ==
    [pc : Alive \cup {"none", "exec", "dead", "refused"}, mem : SUBSET Clients, with : SUBSET Clients,
     ca : Boots \cup {NoBoot}, bound : SUBSET Listeners, restart : BOOLEAN, shutdown : BOOLEAN, signalled : BOOLEAN]
ConnType == [to : Boots \cup {NoBoot}, st : {"idle", "asked", "saved", "reply", "refuse", "done"},
             kind : {"change", "restart"}]
GuiType == [pc : {"idle", "set", "restart", "poll", "ok", "failed"}, base : Boots \cup {NoBoot},
            took : Boots \cup {NoBoot}, answered : Boots \cup {NoBoot}]

TypeOK ==
    /\ file \in SUBSET Clients /\ acked \in SUBSET Clients
    /\ lock \in Boots \cup {NoBoot}
    /\ ca \in [cert : Boots \cup {NoBoot}, key : Boots \cup {NoBoot}, torn : BOOLEAN]
    /\ boot \in [Boots -> BootType]
    /\ conn \in [Clients -> ConnType]
    /\ gui \in GuiType /\ raced \in BOOLEAN

Init ==
    /\ file = {} /\ lock = NoBoot /\ acked = {}
    /\ ca = [cert |-> NoBoot, key |-> NoBoot, torn |-> FALSE]
    /\ boot = [b \in Boots |-> [pc |-> "none", mem |-> {}, with |-> {}, ca |-> NoBoot,
                                bound |-> {}, restart |-> FALSE, shutdown |-> FALSE, signalled |-> FALSE]]
    /\ conn = [c \in Clients |-> [to |-> NoBoot, st |-> "idle", kind |-> "change"]]
    /\ gui = [pc |-> "idle", base |-> NoBoot, took |-> NoBoot, answered |-> NoBoot]
    /\ raced = FALSE

At(b, pc) == boot[b].pc = pc
Goes(b, pc) == boot' = [boot EXCEPT ![b].pc = pc]
Release(b) == lock' = IF lock = b THEN NoBoot ELSE lock

\* The runtime of b is gone: its handlers are dropped where they are, their
\* connections close.
DropHandlers(b) ==
    conn' = [c \in Clients |->
               IF conn[c].to = b /\ conn[c].st # "done" THEN [conn[c] EXCEPT !.st = "done"] ELSE conn[c]]

-----------------------------------------------------------------------------
(* bring_up *)

Fresh(b) == At(b, "none") /\ \A a \in Boots : a < b => ~At(a, "none")

\* The user, a service manager or the desktop application starts the daemon, be it
\* beside a process that still runs; bring_up reads the configuration first.
Start(b) ==
    /\ Fresh(b)
    /\ boot' = [boot EXCEPT ![b].pc = "loaded", ![b].mem = file, ![b].with = file]
    /\ UNCHANGED <<file, lock, ca, conn, acked, gui, raced>>

\* restart_in_place: the new image of a re-executed process loads.
ReExec(a, b) ==
    /\ At(a, "exec") /\ Fresh(b)
    /\ boot' = [boot EXCEPT ![a].pc = "dead", ![b].pc = "loaded", ![b].mem = file, ![b].with = file]
    /\ UNCHANGED <<file, lock, ca, conn, acked, gui, raced>>

\* InstanceLock::acquire: taken, or AlreadyRunning and the process exits.  The configuration
\* loaded before may have been changed by the process that had the lock.
Acquire(b) ==
    /\ At(b, "loaded")
    /\ \/ lock = NoBoot /\ lock' = b /\ Goes(b, "locked") /\ raced' = (raced \/ boot[b].mem # file)
       \/ lock # NoBoot /\ Goes(b, "dead") /\ UNCHANGED <<lock, raced>>
    /\ UNCHANGED <<file, ca, conn, acked, gui>>

\* load_or_generate_ca with both files there: they must parse and match.
LoadCa(b) ==
    /\ At(b, "locked") /\ ca.cert # NoBoot /\ ca.key # NoBoot
    /\ IF ca.torn \/ ca.cert # ca.key
         THEN Goes(b, "refused") /\ Release(b)
         ELSE boot' = [boot EXCEPT ![b].pc = "bind", ![b].ca = ca.cert] /\ UNCHANGED lock
    /\ UNCHANGED <<file, ca, conn, acked, gui, raced>>

\* Otherwise a new authority: the certificate is written, then the key.
WriteCert(b) ==
    /\ At(b, "locked") /\ (ca.cert = NoBoot \/ ca.key = NoBoot)
    /\ ca' = [ca EXCEPT !.cert = b, !.torn = FALSE]
    /\ Goes(b, "cert")
    /\ UNCHANGED <<file, lock, conn, acked, gui, raced>>

WriteKey(b) ==
    /\ At(b, "cert")
    /\ ca' = [ca EXCEPT !.key = b]
    /\ boot' = [boot EXCEPT ![b].pc = "bind", ![b].ca = b]
    /\ UNCHANGED <<file, lock, conn, acked, gui, raced>>

\* A crash in the middle of the key's write leaves a file that does not parse.
TearKey(b) ==
    /\ At(b, "cert")
    /\ ca' = [ca EXCEPT !.key = b, !.torn = TRUE]
    /\ Goes(b, "dead") /\ Release(b)
    /\ UNCHANGED <<file, conn, acked, gui, raced>>

\* The router is built and the ports are bound; a port another program holds
\* leaves its listener out and the daemon serves without it.
Bind(b) == \E got \in {Listeners, Listeners \ {"web"}} :
    /\ At(b, "bind")
    /\ boot' = [boot EXCEPT ![b].pc = "serving", ![b].bound = got]
    /\ UNCHANGED <<file, lock, ca, conn, acked, gui, raced>>

\* A parked root cannot be read, the socket cannot be created: start-up fails.
BindFails(b) ==
    /\ At(b, "bind") /\ Goes(b, "dead") /\ Release(b)
    /\ UNCHANGED <<file, ca, conn, acked, gui, raced>>

-----------------------------------------------------------------------------
(* handle_client: tasks of the boot's runtime, which nothing waits for *)

Request(c, b, kind) ==
    /\ At(b, "serving") /\ conn[c].st = "idle"
    /\ conn' = [conn EXCEPT ![c] = [to |-> b, st |-> "asked", kind |-> kind]]

Ask(c, b, kind) ==
    /\ c # Gui /\ Request(c, b, kind)
    /\ UNCHANGED <<file, lock, ca, boot, acked, gui, raced>>

\* commit_config under the configuration's mutex: saved, then swapped in.  A handler that
\* the lock was dropped under saves all the same, over what the next process has loaded.
Save(c) == LET b == conn[c].to IN
    /\ conn[c].st = "asked" /\ conn[c].kind = "change" /\ boot[b].pc \in Alive
    /\ \A d \in Clients : ~(conn[d].to = b /\ conn[d].st = "saved")
    /\ file' = boot[b].mem \cup {c}
    /\ conn' = [conn EXCEPT ![c].st = "saved"]
    /\ raced' = (raced \/ boot[b].mem # file \/ lock \notin {b, NoBoot})
    /\ UNCHANGED <<lock, ca, boot, acked, gui>>

SaveFails(c) == LET b == conn[c].to IN
    /\ conn[c].st = "asked" /\ conn[c].kind = "change" /\ boot[b].pc \in Alive
    /\ \A d \in Clients : ~(conn[d].to = b /\ conn[d].st = "saved")
    /\ conn' = [conn EXCEPT ![c].st = "refuse"]
    /\ UNCHANGED <<file, lock, ca, boot, acked, gui, raced>>

Swap_forgotten(c) ==
    /\ conn[c].st = "saved"
    /\ conn' = [conn EXCEPT ![c].st = "reply"]
    /\ UNCHANGED <<file, lock, ca, boot, acked, gui, raced>>
Swap(c) == LET b == conn[c].to IN
    /\ conn[c].st = "saved"
    /\ boot' = [boot EXCEPT ![b].mem = @ \cup {c}]
    /\ conn' = [conn EXCEPT ![c].st = "reply"]
    /\ UNCHANGED <<file, lock, ca, acked, gui, raced>>

\* RestartDaemon only sets the flag.
FlagRestart(c) == LET b == conn[c].to IN
    /\ conn[c].st = "asked" /\ conn[c].kind = "restart"
    /\ boot' = [boot EXCEPT ![b].restart = TRUE]
    /\ conn' = [conn EXCEPT ![c].st = "reply"]
    /\ UNCHANGED <<file, lock, ca, acked, gui, raced>>

\* The answer is written; a handler that then sees the flag shuts down.
Reply(c) == LET b == conn[c].to IN
    /\ conn[c].st \in {"reply", "refuse"}
    /\ boot' = [boot EXCEPT ![b].shutdown = @ \/ boot[b].restart]
    /\ conn' = [conn EXCEPT ![c].st = "done"]
    /\ acked' = IF conn[c].st = "reply" /\ conn[c].kind = "change" THEN acked \cup {c} ELSE acked
    /\ UNCHANGED <<file, lock, ca, gui, raced>>

\* The client has gone: the write fails and the handler returns at once.
ReplyFails(c) ==
    /\ c # Gui /\ conn[c].st \in {"reply", "refuse"}
    /\ conn' = [conn EXCEPT ![c].st = "done"]
    /\ UNCHANGED <<file, lock, ca, boot, acked, gui, raced>>

-----------------------------------------------------------------------------
(* run_until_shutdown and main *)

\* wait_for_shutdown: SIGTERM or Ctrl-C.
Signal(b) ==
    /\ At(b, "serving") /\ ~boot[b].shutdown
    /\ boot' = [boot EXCEPT ![b].shutdown = TRUE, ![b].signalled = TRUE]
    /\ UNCHANGED <<file, lock, ca, conn, acked, gui, raced>>

\* The tasks of run_until_shutdown end or are given up after their timeouts;
\* the accept loop stops, the handlers it spawned go on.
Drain(b) ==
    /\ At(b, "serving") /\ boot[b].shutdown
    /\ Goes(b, "ending")
    /\ UNCHANGED <<file, lock, ca, conn, acked, gui, raced>>

\* The outcome is read off the flag and the lock is dropped.
Unlock(b) ==
    /\ At(b, "ending")
    /\ Goes(b, IF boot[b].restart THEN "restarting" ELSE "exiting") /\ Release(b)
    /\ UNCHANGED <<file, ca, conn, acked, gui, raced>>

\* main: the runtime is dropped, then the process exits or re-executes.
DropRuntime(b) ==
    /\ \/ At(b, "exiting") /\ Goes(b, "dead")
       \/ At(b, "restarting") /\ Goes(b, "exec")
    /\ DropHandlers(b)
    /\ UNCHANGED <<file, lock, ca, acked, gui, raced>>

Crash(b) ==
    /\ boot[b].pc \in Alive
    /\ Goes(b, "dead") /\ Release(b) /\ DropHandlers(b)
    /\ UNCHANGED <<file, ca, acked, gui, raced>>

-----------------------------------------------------------------------------
(* useFallbackPorts.applyAndRestart *)

\* The boot id of the last status report, any boot that has served.
GuiBaseline == \E seen \in {a \in Boots : boot[a].bound # {}} \cup {NoBoot} : \E b \in Boots :
    /\ gui.pc = "idle" /\ Request(Gui, b, "change")
    /\ gui' = [gui EXCEPT !.pc = "set", !.base = seen, !.took = b]
    /\ UNCHANGED <<file, lock, ca, boot, acked, raced>>

\* The setter was refused or the connection lost; otherwise ask for the restart.
GuiRestart ==
    /\ gui.pc = "set" /\ conn[Gui].st = "done"
    /\ IF Gui \notin acked THEN gui' = [gui EXCEPT !.pc = "failed"] /\ UNCHANGED conn
       ELSE \/ \E b \in Boots :
                 /\ At(b, "serving")
                 /\ conn' = [conn EXCEPT ![Gui] = [to |-> b, st |-> "asked", kind |-> "restart"]]
                 /\ gui' = [gui EXCEPT !.pc = "restart"]
            \/ /\ \A b \in Boots : ~At(b, "serving")
               /\ gui' = [gui EXCEPT !.pc = "poll"] /\ UNCHANGED conn
    /\ UNCHANGED <<file, lock, ca, boot, acked, raced>>

\* Answered or cut off, the restart is taken to be under way.
GuiPolls ==
    /\ gui.pc = "restart" /\ conn[Gui].st = "done"
    /\ gui' = [gui EXCEPT !.pc = "poll"]
    /\ UNCHANGED <<file, lock, ca, boot, conn, acked, raced>>

GuiPoll == \E b \in Boots :
    /\ gui.pc = "poll" /\ At(b, "serving") /\ b # gui.base
    /\ gui' = [gui EXCEPT !.pc = IF "web" \in boot[b].bound THEN "ok" ELSE "failed", !.answered = b]
    /\ UNCHANGED <<file, lock, ca, boot, conn, acked, raced>>

GuiTimesOut ==
    /\ gui.pc = "poll" /\ gui' = [gui EXCEPT !.pc = "failed"]
    /\ UNCHANGED <<file, lock, ca, boot, conn, acked, raced>>

-----------------------------------------------------------------------------
Next ==
    \/ \E b \in Boots :
         \/ Start(b) \/ Acquire(b) \/ LoadCa(b) \/ WriteCert(b) \/ WriteKey(b) \/ TearKey(b)
         \/ Bind(b) \/ BindFails(b) \/ Signal(b) \/ Drain(b) \/ Unlock(b) \/ DropRuntime(b) \/ Crash(b)
         \/ \E a \in Boots : ReExec(a, b)
         \/ \E c \in Clients, kind \in {"change", "restart"} : Ask(c, b, kind)
    \/ \E c \in Clients : Save(c) \/ SaveFails(c) \/ Swap(c) \/ FlagRestart(c) \/ Reply(c) \/ ReplyFails(c)
    \/ GuiBaseline \/ GuiRestart \/ GuiPolls \/ GuiPoll \/ GuiTimesOut

Spec == Init /\ [][Next]_vars

-----------------------------------------------------------------------------
\* A change that a client was told is saved is known to every later boot that
\* serves, whatever crashes, signals and restarts came in between and however the
\* processes overlap, unless one of them changed the file after another had loaded it
\* and that one then took the lock, held it already or saved in its turn.
AckedServed == \A b \in Boots : At(b, "serving") /\ ~raced => acked \subseteq boot[b].mem

\* The authority a serving boot signs with is the one on disk that was given
\* to the trust stores, and a start is refused for it only after a torn write:
\* a crash between certificate and key does not keep the daemon from starting.
AuthorityOnDisk == \A b \in Boots :
    /\ At(b, "serving") => boot[b].ca = ca.cert /\ boot[b].ca = ca.key
    /\ At(b, "refused") => ca.torn

\* When the desktop application reports a port change as applied, the boot
\* that answered it came up with that change and has bound the ports, if the
\* status report it took its baseline from was the one of the boot it then changed
\* and no process went on with an old configuration.
PortChangeApplied ==
    (gui.pc = "ok" /\ gui.base = gui.took /\ ~raced) =>
        Gui \in boot[gui.answered].with /\ "web" \in boot[gui.answered].bound

\* single_instance.rs: the lock keeps two daemons of a user from running at
\* once, so only its holder saves the configuration.
OnlyHolderSaves == [][\A c \in Clients : Save(c) => lock = conn[c].to]_vars

\* daemon.rs: the daemon shuts down on SIGTERM, so a boot that was signalled
\* is not followed by a re-execution of itself.
SignalEnds == \A b \in Boots : boot[b].signalled => ~At(b, "exec")
=============================================================================
