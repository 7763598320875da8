----------------------------- MODULE Elevation -----------------------------
(***************************************************************************)
(* `orcker elevate`, `orcker unelevate` and `orcker uninstall`: sessions   *)
(* that gather facts from the daemon (or, to uninstall, from disk), plan   *)
(* one helper invocation per target and report how it went, and the        *)
(* helper's operations on the system trust store and on the browsers'.     *)
(* The resolver and port operations have modules of their own              *)
(* (ResolverSetup, PfRedirect); here they end with an exit code and leave  *)
(* their change in place or not.  Certificates are numbers: Orcker's CAs,  *)
(* each made by one life of the data directory, and a root of the user's.  *)
(***************************************************************************)
EXTENDS Naturals, Sequences, SequencesExt

CONSTANTS Authorities, \* fingerprints of the CAs Orcker makes, 1 .. n
          Stores,      \* browser certificate databases of the user
          MaxSessions  \* bound on sessions

None == 0
Foreign == 9

Prints == Authorities \cup {Foreign}
Targets == {"trust", "resolver", "ports", "lan"}
DefaultTargets == <<"trust", "resolver", "ports">>

VARIABLES
    os,       \* "linux" or "macos"
    daemon,   \* is the daemon up?
    ca,       \* fingerprint of {data}/ca.cert.pem, or None
    caSafe,   \* the file is the user's, and only the user may write it
    store,    \* certificates in the system's anchor directory or keychain
    trusted,  \* certificates the system's TLS stack trusts
    login,    \* certificates trusted in the user's login keychain (macOS)
    dbs,      \* browser databases that exist
    browsers, \* browsers[d]: Orcker's CA in database d, or None
    inPlace,  \* the changes of "resolver", "ports" and "lan" in place
    tldKnown, \* orcker.toml can be loaded
    session,  \* the running session
    sessions, \* sessions so far
    gone,     \* has an uninstall completed?
    residue   \* what it reported as left behind

host == <<store, trusted, login, dbs, browsers, inPlace>>
vars == <<os, daemon, ca, caSafe, host, tldKnown, session, sessions, gone, residue>>

NoSession == [verb |-> "none", todo |-> <<>>, asked |-> {}, done |-> {}, failed |-> {},
              planned |-> {}, pc |-> "idle", fp |-> None, exit |-> 0]

Pcs == {"idle", "facts", "targets", "browsers", "revert", "reap", "remove", "ended"}

TypeOK ==
    /\ os \in {"linux", "macos"}
    /\ daemon \in BOOLEAN
    /\ ca \in Prints \cup {None} /\ caSafe \in BOOLEAN
    /\ store \cup trusted \cup login \subseteq Prints /\ dbs \subseteq Stores
    /\ browsers \in [Stores -> Prints \cup {None}]
    /\ inPlace \subseteq Targets \ {"trust"}
    /\ tldKnown \in BOOLEAN
    /\ session.pc \in Pcs /\ session.exit \in {0, 1, 69, 74, 77, 126}
    /\ session.done \cup session.failed \subseteq Targets
    /\ sessions \in Nat /\ gone \in BOOLEAN
    /\ residue \subseteq Targets \cup {"files"}

Init ==
    /\ os \in {"linux", "macos"}
    /\ daemon = FALSE
    /\ ca \in {1, Foreign}
    /\ caSafe \in BOOLEAN
    /\ store = {Foreign}
    /\ trusted = {Foreign}
    /\ login = {}
    /\ dbs \in {{}, Stores}
    /\ browsers = [d \in Stores |-> None]
    /\ inPlace = {}
    /\ tldKnown \in BOOLEAN
    /\ session = NoSession
    /\ sessions = 0
    /\ gone = FALSE
    /\ residue = {}

world == <<os, daemon, ca, caSafe, tldKnown, sessions>>
ended == <<gone, residue>>

\* ------------------------------------------------- the helper's operations
\* Exit codes: done, unsupported on this host, refused input, any other failure.
Ok == 0
Unsupported == 78
Refused == 65
Failed == 75
Codes == {Ok, Unsupported, Refused, Failed}

\* Linux: the anchor file is written, then the distribution's tool compiles the anchors.
InstallCaLinux(fp, code) ==
    \/ code = Ok /\ store' = store \cup {fp} /\ trusted' = trusted \cup {fp}
    \/ code = Failed /\ store' \in {store, store \cup {fp}} /\ UNCHANGED trusted

\* macOS: a copy in the System keychain is deleted, then the certificate is added.
InstallCaMac(fp, code) ==
    \/ code = Ok /\ store' = store \cup {fp} /\ trusted' = trusted \cup {fp}
    \/ code = Failed /\ UNCHANGED <<store, trusted>>
    \/ /\ code = Failed /\ fp \in store
       /\ store' = store \ {fp} /\ trusted' = trusted \ {fp}

\* The certificate file is read again and must hold the fingerprint the caller named.
InstallCa(fp, code) ==
    IF fp # ca THEN code = Refused /\ UNCHANGED <<store, trusted>>
    ELSE IF os = "linux" THEN InstallCaLinux(fp, code) ELSE InstallCaMac(fp, code)

\* The store is searched by fingerprint, and a certificate is Orcker's by its common name.
Held(fp) == fp \in store
Owned(fp) == fp \in Authorities

\* A certificate that is not there is no error; one whose common name is not that of
\* Orcker's CA is refused.  On Linux the file goes first, then the tool runs.
UninstallCa(fp, code) ==
    \/ ~Held(fp) /\ code = Ok /\ UNCHANGED <<store, trusted>>
    \/ Held(fp) /\ ~Owned(fp) /\ code = Refused /\ UNCHANGED <<store, trusted>>
    \/ /\ Held(fp) /\ Owned(fp) /\ code = Ok
       /\ store' = store \ {fp} /\ trusted' = trusted \ {fp}
    \/ /\ code = Failed /\ UNCHANGED trusted
       /\ store' \in {store, IF os = "linux" /\ Owned(fp) THEN store \ {fp}
                             ELSE store}

\* The operations modelled elsewhere: a failed one may leave its change half done.
Change(t, undo, code) ==
    LET after == IF undo THEN inPlace \ {t} ELSE inPlace \cup {t}
    IN \/ code = Ok /\ inPlace' = after
       \/ code = Failed /\ inPlace' \in {inPlace, after}
       \/ code = Unsupported /\ t = "resolver" /\ os = "linux" /\ ~undo
            /\ UNCHANGED inPlace

Helper(t, undo, fp, code) ==
    /\ IF t = "trust"
       THEN /\ IF undo THEN UninstallCa(fp, code) ELSE InstallCa(fp, code)
            /\ UNCHANGED inPlace
       ELSE Change(t, undo, code) /\ UNCHANGED <<store, trusted>>
    /\ UNCHANGED <<login, dbs, browsers>>

\* ---------------------------------------------------------- elevate, unelevate
Begin(verb, todo, root) ==
    /\ session.pc \in {"idle", "ended"}
    /\ ~gone
    /\ sessions < MaxSessions
    /\ sessions' = sessions + 1
    /\ session' = IF root
                  THEN [NoSession EXCEPT !.verb = verb, !.todo = todo,
                                         !.asked = ToSet(todo), !.pc = "facts"]
                  ELSE [NoSession EXCEPT !.verb = verb, !.pc = "ended", !.exit = 77]
    /\ UNCHANGED <<os, daemon, ca, caSafe, host, tldKnown, ended>>

\* plan_invocation: what is refused before the helper runs, given the web ports the daemon
\* reports, its DNS health and its LAN address.
Plannable(t, undo, web, dns, lan) ==
    CASE undo \/ t = "trust" -> TRUE
      [] t = "resolver" -> dns
      [] t = "ports" -> os = "linux" \/ web = "rootless"
      [] t = "lan" -> os = "linux" \/ (web = "rootless" /\ lan)

\* The application runs the same command through the host's authorisation prompt, which
\* the user may dismiss.
GuiBegin(verb, t) ==
    \/ Begin(verb, <<t>>, TRUE)
    \/ /\ session.pc \in {"idle", "ended"} /\ ~gone /\ sessions < MaxSessions
       /\ sessions' = sessions + 1
       /\ session' = [NoSession EXCEPT !.verb = verb, !.pc = "ended", !.exit = 126]
       /\ UNCHANGED <<os, daemon, ca, caSafe, host, tldKnown, ended>>

\* DaemonInfo, and Status for the DNS health a resolver install needs.  The daemon
\* serves whatever it could bind when it started.  No daemon, or no helper beside the
\* binary, ends the session.
FetchFacts ==
    /\ session.verb \in {"elevate", "unelevate"} /\ session.pc = "facts"
    /\ \/ /\ daemon
          /\ \E web \in {"rootless", "privileged", "unbound"}, dns, lan \in BOOLEAN :
               session' = [session EXCEPT !.pc = "targets", !.fp = ca,
                 !.planned = {t \in session.asked :
                                Plannable(t, session.verb = "unelevate", web, dns, lan)}]
       \/ \E code \in {69, 74} : session' = [session EXCEPT !.pc = "ended", !.exit = code]
    /\ UNCHANGED <<world, host, ended>>

\* require_user_owned comes first, for a CA about to be trusted.
Planned(t, undo) == t \in session.planned /\ (t = "trust" /\ ~undo => caSafe)

\* Linux capabilities are not dropped: the command prints what to run.
Guidance(t, undo) == os = "linux" /\ undo /\ t \in {"ports", "lan"}

Succeeded(code) == code \in {Ok, Unsupported}

\* run_one: one target, whatever became of the ones before.
RunOne ==
    /\ session.pc = "targets" /\ session.todo # <<>>
    /\ LET t == Head(session.todo)
           undo == session.verb = "unelevate"
           Done == session' = [session EXCEPT !.todo = Tail(@), !.done = @ \cup {t}]
           NotDone == session' = [session EXCEPT !.todo = Tail(@), !.failed = @ \cup {t}]
       IN \/ Guidance(t, undo) /\ Done /\ UNCHANGED host
          \/ ~Guidance(t, undo) /\ ~Planned(t, undo) /\ NotDone /\ UNCHANGED host
          \/ /\ ~Guidance(t, undo) /\ Planned(t, undo)
             /\ \E code \in Codes :
                  /\ Helper(t, undo, session.fp, code)
                  /\ IF Succeeded(code) THEN Done ELSE NotDone
    /\ UNCHANGED <<world, ended>>

TargetsRun ==
    /\ session.pc = "targets" /\ session.todo = <<>>
    /\ session' = [session EXCEPT !.planned = {},
                    !.pc = IF "trust" \in session.done THEN "browsers" ELSE "ended",
                    !.exit = IF session.failed # {} THEN 1 ELSE 0]
    /\ UNCHANGED <<world, host, ended>>

\* nss install: on Linux the shared database is created if need be; in every database
\* found, the nickname is deleted and then added again, and either may fail.
Created == IF os = "linux" THEN dbs \cup (Stores \cap {"pki"}) ELSE dbs

\* discover: on macOS only Firefox keeps a database of its own.
Discovered(found) == IF os = "linux" THEN found ELSE found \ {"pki"}

NssInstall ==
    /\ dbs' \in {dbs, Created}
    /\ \E added \in SUBSET Discovered(dbs') :
         browsers' = [d \in Stores |-> IF d \in added THEN ca ELSE None]

NssUninstall ==
    /\ UNCHANGED dbs
    /\ \E removed \in SUBSET Discovered(dbs) :
         browsers' = [d \in Stores |-> IF d \in removed THEN None ELSE browsers[d]]

\* TrustBrowsers, carried out by the daemon as the user.  certutil may be missing, and
\* the daemon may be gone.
Browsers ==
    /\ session.pc = "browsers"
    /\ \/ daemon /\ (IF session.verb = "elevate" THEN NssInstall ELSE NssUninstall)
       \/ UNCHANGED <<dbs, browsers>>
    /\ session' = [session EXCEPT !.pc = "ended"]
    /\ UNCHANGED <<world, store, trusted, login, inPlace, ended>>

\* The application's own trust on macOS: a verified CA file goes into the login keychain
\* and is trusted there, and the trust settings are removed again.
GuiTrust ==
    /\ os = "macos" /\ daemon /\ caSafe /\ ~gone
    /\ login' = login \cup {ca}
    /\ UNCHANGED <<world, store, trusted, dbs, browsers, inPlace, session, ended>>

GuiUntrust ==
    /\ os = "macos" /\ daemon /\ caSafe /\ ~gone
    /\ login' = login \ {ca}
    /\ UNCHANGED <<world, store, trusted, dbs, browsers, inPlace, session, ended>>

\* A browser started for the first time makes its database.
BrowserStarts ==
    /\ dbs # Stores /\ ~gone
    /\ dbs' = Stores
    /\ UNCHANGED <<world, store, trusted, login, browsers, inPlace, session, ended>>

\* ------------------------------------------------------------------ uninstall
\* CapturedFacts: the TLD and the fingerprint are read from disk before anything goes.
\* Without root, or without the helper, all of elevate's changes are reported as left.
Reverts == IF os = "macos" THEN <<"trust", "resolver", "ports", "lan">>
           ELSE <<"trust", "resolver">>

CaptureFacts ==
    /\ session.verb \in {"uninstall", "uninstall as user"} /\ session.pc = "facts"
    /\ \/ /\ session.verb = "uninstall"
          /\ session' = [session EXCEPT !.fp = ca, !.pc = "revert", !.todo = Reverts]
          /\ residue' = {}
       \/ /\ session' = [session EXCEPT !.fp = ca, !.pc = "reap"]
          /\ residue' = Targets
    /\ UNCHANGED <<world, host, gone>>

\* revert_system_changes, one helper run at a time; a failure is noted, never fatal.
\* No fingerprint on disk is noted too; no TLD on disk is not.
Unknown(t) == (t = "trust" /\ session.fp = None) \/ (t = "resolver" /\ ~tldKnown)

Revert ==
    /\ session.pc = "revert" /\ session.todo # <<>>
    /\ LET t == Head(session.todo)
           Noted == residue' = residue \cup {t}
       IN \/ Unknown(t) /\ UNCHANGED host
               /\ IF t = "trust" THEN Noted ELSE UNCHANGED residue
          \/ /\ ~Unknown(t)
             /\ \E code \in {Ok, Refused, Failed} :
                  /\ Helper(t, TRUE, session.fp, code)
                  /\ IF code = Ok THEN UNCHANGED residue ELSE Noted
    /\ session' = [session EXCEPT !.todo = Tail(@)]
    /\ UNCHANGED <<world, gone>>

Reverted ==
    /\ session.pc = "revert" /\ session.todo = <<>>
    /\ session' = [session EXCEPT !.pc = "reap"]
    /\ UNCHANGED <<world, host, ended>>

\* The service is disabled and stopped; a daemon still there after 30 s is killed.
Reap ==
    /\ session.pc = "reap"
    /\ daemon' = FALSE
    /\ session' = [session EXCEPT !.pc = "remove"]
    /\ UNCHANGED <<os, ca, caSafe, tldKnown, sessions, host, ended>>

\* The PATH block, the service unit, the user's directories and the binaries go; a
\* directory that cannot be removed is noted.
RemoveFiles ==
    /\ session.pc = "remove"
    /\ \/ ca' = None /\ UNCHANGED residue
       \/ UNCHANGED ca /\ residue' = residue \cup {"files"}
    /\ gone' = TRUE
    /\ session' = [session EXCEPT !.pc = "ended", !.exit = 0]
    /\ UNCHANGED <<os, daemon, caSafe, tldKnown, sessions, host>>

\* ------------------------------------------------------------------ the rest
DaemonStarts ==
    /\ ~gone /\ ~daemon /\ ca # None
    /\ daemon' = TRUE
    /\ UNCHANGED <<os, ca, caSafe, host, tldKnown, session, sessions, ended>>

DaemonStops ==
    /\ ~gone /\ daemon
    /\ daemon' = FALSE
    /\ UNCHANGED <<os, ca, caSafe, host, tldKnown, session, sessions, ended>>

\* A daemon started without its CA makes a new one.
NewAuthority ==
    /\ ~gone /\ ~daemon
    /\ ca # Foreign
    /\ ca' \in {f \in Authorities : f > ca}
    /\ UNCHANGED <<os, daemon, caSafe, host, tldKnown, session, sessions, ended>>

Next ==
    \/ \E root \in BOOLEAN :
         \/ \E v \in {"elevate", "unelevate"} :
              Begin(v, DefaultTargets, root) \/ \E t \in Targets : Begin(v, <<t>>, root)
    \/ Begin("uninstall", <<>>, TRUE) \/ Begin("uninstall as user", <<>>, TRUE)
    \/ \E v \in {"elevate", "unelevate"}, t \in Targets \ {"lan"} : GuiBegin(v, t)
    \/ FetchFacts \/ RunOne \/ TargetsRun \/ Browsers
    \/ GuiTrust \/ GuiUntrust \/ BrowserStarts
    \/ CaptureFacts \/ Revert \/ Reverted \/ Reap \/ RemoveFiles
    \/ DaemonStarts \/ DaemonStops \/ NewAuthority

Spec == Init /\ [][Next]_vars

\* ---------------------------------------------------------------- properties
\* Undoing never costs the user a root of their own: `unelevate` and `uninstall` leave a
\* certificate that is not Orcker's in the system store, even when the data directory
\* holds it and its fingerprint is the one named to the helper.
ForeignRootKept ==
    session.verb # "elevate" => store \ Authorities \subseteq store'

\* The exit code speaks for every target: 0 only if each one asked for was carried out
\* or does not apply, and 1 only after every one was tried.
ExitSpeaksForAll ==
    (session.pc = "ended" /\ session.verb \in {"elevate", "unelevate"}
        /\ session.exit \in {0, 1}) =>
        /\ session.asked = session.done \cup session.failed
        /\ session.exit = 0 <=> session.failed = {}

\* After an uninstall as root, a change of the current installation that is still in
\* place was reported, as long as orcker.toml could be read.
LeftoversReported ==
    (gone /\ session.verb = "uninstall" /\ tldKnown) =>
        /\ (inPlace \cap ToSet(Reverts)) \subseteq residue
        /\ session.fp \in trusted => "trust" \in residue \/ session.fp \notin store

\* docs/guide/elevation.md: an uninstall as root "runs this same `unelevate`".  When it
\* reports no leftovers, what `unelevate` undoes is undone: no route to a daemon that is
\* gone, and no browser that trusts its CA.
UninstallIsUnelevate ==
    (gone /\ residue = {}) =>
        /\ "resolver" \notin inPlace
        /\ \A d \in Stores : browsers[d] \notin Authorities
=============================================================================
