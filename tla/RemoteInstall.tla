--------------------------- MODULE RemoteInstall ---------------------------
(***************************************************************************)
(* The installer script a LAN device fetches from the daemon and runs as   *)
(* root: it points the TLD's names at the daemon and makes the device      *)
(* trust the daemon's authority, or takes both away again.  The script     *)
(* stops at the first command that fails, with what the exit trap of that  *)
(* moment undoes; commands it runs "|| true" may fail unnoticed.           *)
(***************************************************************************)
EXTENDS Integers

CONSTANTS
  Authorities,   \* versions of the daemon's authority
  MaxRuns,       \* runs of the script
  MaxHostChanges \* changes of the device's resolver between runs

VARIABLES
  os, getent, browsers,  \* the system; has it getent, and certutil with browser stores?
  resolver,   \* the active resolver that can forward: "nm", "dnsmasq" or "none"
  anchor,     \* is there a known anchor directory?
  ca_file,    \* the authority in the anchor directory, 0 for none
  trusted,    \* the authority the system store was last refreshed with
  conf,       \* the resolvers whose configuration forwards the TLD
  live,       \* does the resolver forward it?
  nss,        \* the authority the browsers trust
  run,        \* the run of the script: [step, ca], step "idle" between runs
  exit,       \* exit status of the last run: -1 none, 0, 1
  last,       \* what the last run was: "none", "install" or "uninstall"
  slipped,    \* has a command failed unnoticed?
  runs, changes

device == <<os, getent, browsers, resolver, anchor>>
host == <<ca_file, trusted, conf, live, nss>>
vars == <<device, host, run, exit, last, slipped, runs, changes>>

Idle == [step |-> "idle", ca |-> 0]
At(s) == run.step = s
Goes(s) == run' = [run EXCEPT !.step = s] /\ UNCHANGED <<exit, last>>
Exits(status) == run' = Idle /\ exit' = status /\ UNCHANGED last

\* A command whose failure the script ignores: its effect, or none.
BestEffort(var, value) == {[now |-> value, slip |-> FALSE]} \cup
                            IF var = value THEN {} ELSE {[now |-> var, slip |-> TRUE]}

Init ==
    /\ os \in {"macos", "linux"} /\ getent \in BOOLEAN /\ browsers \in BOOLEAN
    /\ resolver \in {"nm", "dnsmasq", "none"} /\ anchor \in BOOLEAN
    /\ ca_file = 0 /\ trusted = 0 /\ conf = {} /\ live = FALSE /\ nss = 0
    /\ run = Idle /\ exit = -1 /\ last = "none" /\ slipped = FALSE /\ runs = 0 /\ changes = 0

Start(mode, ca) ==
    /\ At("idle") /\ runs < MaxRuns /\ runs' = runs + 1 /\ last' = mode /\ exit' = -1
    /\ run' = [step |-> (IF mode = "install" THEN (IF os = "macos" THEN "resolver_file" ELSE "choose")
                         ELSE "remove"), ca |-> ca]
    /\ UNCHANGED <<device, host, slipped, changes>>

\* The user switches the device to another resolver.
HostChanges ==
    /\ At("idle") /\ os = "linux" /\ changes < MaxHostChanges /\ changes' = changes + 1
    /\ resolver' \in {"nm", "dnsmasq", "none"} \ {resolver} /\ live' = (resolver' \in conf)
    /\ UNCHANGED <<os, getent, browsers, anchor, ca_file, trusted, conf, nss, run, exit, last, slipped, runs>>

\* ------------------------------------------------------------------- macOS
\* The resolver file takes effect at once; once it is written the trap removes it.
WriteResolverFile == \E ok \in BOOLEAN :
    /\ At("resolver_file")
    /\ conf' = (IF ok THEN {"file"} ELSE conf) /\ live' = (ok \/ live)
    /\ (IF ok THEN Goes("keychain_clean") ELSE Exits(1))
    /\ UNCHANGED <<device, ca_file, trusted, nss, slipped, runs, changes>>

macos_remove_ca == \E r \in BestEffort(trusted, 0) :
    /\ At("keychain_clean") /\ trusted' = r.now /\ slipped' = (slipped \/ r.slip) /\ Goes("keychain_add")
    /\ UNCHANGED <<device, ca_file, conf, live, nss, runs, changes>>

AddTrustedCert == \E ok \in BOOLEAN :
    /\ At("keychain_add")
    /\ trusted' = (IF ok THEN run.ca ELSE trusted)
    /\ conf' = (IF ok THEN conf ELSE {}) /\ live' = ok
    /\ Exits(IF ok THEN 0 ELSE 1)
    /\ UNCHANGED <<device, ca_file, nss, slipped, runs, changes>>

\* ------------------------------------------------------------------- Linux
\* Both targets are chosen before anything is touched.
ChooseTargets ==
    /\ At("choose") /\ (IF resolver = "none" \/ ~anchor THEN Exits(1) ELSE Goes("copy"))
    /\ UNCHANGED <<device, host, slipped, runs, changes>>

\* The trap that rolls back is set after this command; a copy that fails may have emptied
\* the file.
CopyCa == \E ok \in BOOLEAN :
    /\ At("copy") /\ ca_file' \in (IF ok THEN {run.ca} ELSE {ca_file, 0})
    /\ (IF ok THEN Goes("refresh") ELSE Exits(1))
    /\ UNCHANGED <<device, trusted, conf, live, nss, slipped, runs, changes>>

RefreshStore == \E ok \in BOOLEAN :
    /\ At("refresh") /\ trusted' = (IF ok THEN ca_file ELSE trusted)
    /\ Goes(IF ok THEN "conf" ELSE "roll_back")
    /\ UNCHANGED <<device, ca_file, conf, live, nss, slipped, runs, changes>>

WriteConf == \E ok \in BOOLEAN :
    /\ At("conf") /\ conf' = (IF ok THEN conf \cup {resolver} ELSE conf)
    /\ Goes(IF ok THEN "reload" ELSE "roll_back")
    /\ UNCHANGED <<device, ca_file, trusted, live, nss, slipped, runs, changes>>

ReloadResolver == \E ok \in BOOLEAN :
    /\ At("reload") /\ live' = (ok \/ live) /\ Goes("probe")
    /\ UNCHANGED <<device, ca_file, trusted, conf, nss, slipped, runs, changes>>

\* resolves: a probe name through the system's resolver; without getent it counts as success.
resolves ==
    /\ At("probe") /\ Goes(IF getent /\ ~live THEN "roll_back" ELSE "browsers")
    /\ UNCHANGED <<device, host, slipped, runs, changes>>

\* nss_install, after the trap was lifted.
nss_install == \E r \in IF browsers THEN BestEffort(nss, run.ca) ELSE {[now |-> nss, slip |-> FALSE]} :
    /\ At("browsers") /\ nss' = r.now /\ slipped' = (slipped \/ r.slip) /\ Exits(0)
    /\ UNCHANGED <<device, ca_file, trusted, conf, live, runs, changes>>

\* The exit trap: both files go, then the store and the resolver are refreshed.
RollBack == \E s \in BestEffort(trusted, 0), w \in BestEffort(live, FALSE) :
    /\ At("roll_back") /\ ca_file' = 0 /\ conf' = conf \ {resolver}
    /\ trusted' = s.now /\ live' = w.now /\ slipped' = (slipped \/ s.slip \/ w.slip) /\ Exits(1)
    /\ UNCHANGED <<device, nss, runs, changes>>

\* --------------------------------------------------------------- uninstall
nss_uninstall == IF os = "linux" /\ browsers THEN BestEffort(nss, 0) ELSE {[now |-> nss, slip |-> FALSE]}

\* On macOS the resolver file and the keychain entries; on Linux the files, the refreshed
\* store and nss_uninstall, without a reload of the resolver.
Uninstall == \E s \in BestEffort(trusted, 0), n \in nss_uninstall :
    /\ At("remove") /\ conf' = {} /\ ca_file' = 0
    /\ trusted' = s.now /\ nss' = n.now /\ slipped' = (slipped \/ s.slip \/ n.slip)
    /\ live' = (os = "linux" /\ live) /\ Exits(0)
    /\ UNCHANGED <<device, runs, changes>>

Next ==
    \/ \E ca \in Authorities : Start("install", ca) \/ Start("uninstall", ca)
    \/ HostChanges \/ WriteResolverFile \/ macos_remove_ca \/ AddTrustedCert
    \/ ChooseTargets \/ CopyCa \/ RefreshStore \/ WriteConf \/ ReloadResolver \/ resolves \/ nss_install
    \/ RollBack \/ Uninstall

Spec == Init /\ [][Next]_vars

TypeOK ==
    /\ {ca_file, trusted, nss} \subseteq Authorities \cup {0} /\ conf \subseteq {"file", "nm", "dnsmasq"} /\ {live, slipped} \subseteq BOOLEAN
    /\ exit \in {-1, 0, 1} /\ runs \in 0..MaxRuns /\ changes \in 0..MaxHostChanges

\* A run that reports success has done its work: after an install the device trusts the
\* authority the script carried and, where it could be probed, resolves the names; after an
\* uninstall it trusts none. A run that failed never leaves the device trusting an authority
\* whose names it is not set up to resolve. Commands that failed unnoticed are excepted.
SetupAllOrNothing ==
    At("idle") /\ ~slipped =>
      /\ last = "install" /\ exit = 0 =>
           trusted # 0 /\ conf # {} /\ (changes = 0 /\ getent => live) /\ (browsers /\ os = "linux" => nss = trusted)
      /\ last = "install" /\ exit = 1 => (trusted # 0 => conf # {})
      /\ last = "uninstall" => trusted = 0 /\ conf = {} /\ nss = 0
=============================================================================
