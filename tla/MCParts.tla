------------------------------ MODULE MCParts -------------------------------
(***************************************************************************)
(* The parts of the daemon and of the host that share no state, and the    *)
(* messages between Orcker's programs, each on a small instance: a         *)
(* behaviour picks a part and steps it alone.  The parts that DaemonParts  *)
(* does not have use the same variables, v1 to v17, and a part with fewer  *)
(* of them leaves the others at rest.                                      *)
(***************************************************************************)
EXTENDS DaemonParts, TLC

CONSTANTS blog, Blog, shop, unallocated   \* spellings of group names

VARIABLES v1, v2, v3, v4, v5, v6, v7, v8, v9, v10, v11, v12, v13, v14, v15, v16, v17

slots == <<v1, v2, v3, v4, v5, v6, v7, v8, v9, v10, v11, v12, v13, v14, v15, v16, v17>>
partsVars == <<part, daemonVars, slots>>

Mail == INSTANCE MailStore WITH Cap <- 2, MaxMails <- 4, entries <- v1, next_id <- v2,
      index <- v3, eml <- v4, op <- v5, sent <- v6, acked <- v7, idOf <- v8
Tool == INSTANCE ToolInstall WITH MaxVersion <- 2, MaxOps <- 3, MaxCrashes <- 1, tree <- v1,
      backup <- v2, previous <- v3, shim <- v4, mutate <- v5, reconciling <- v6, op <- v7,
      good <- v8, stranded <- v9, behind <- v10, ops <- v11, crashes <- v12
Cloudflared == INSTANCE CloudflaredCache WITH Resolvers <- {"r1", "r2"}, MaxResolves <- 3,
      MaxInstalls <- 2, MaxMoves <- 2, managed <- v1, system <- v2, cached <- v3, res <- v4,
      job <- v5, answer <- v6, resolves <- v7, installs <- v8, moves <- v9
Named == INSTANCE NamedTunnels WITH Clients <- {1, 2}, Names <- {1, 2}, Sites <- {"s1"},
      MaxTunnels <- 3, MaxLogins <- 2, account <- v1, creds <- v2, named <- v3, sites <- v4,
      proc <- v5, cert <- v6, zone <- v7, holder <- v8, task <- v9, made <- v10
Elev == INSTANCE Elevation WITH Authorities <- {1, 2}, Stores <- {"pki", "firefox"},
      MaxSessions <- 2, os <- v1, daemon <- v2, ca <- v3, caSafe <- v4, store <- v5,
      trusted <- v6, login <- v7, dbs <- v8, browsers <- v9, inPlace <- v10, tldKnown <- v11,
      session <- v12, sessions <- v13, gone <- v14, residue <- v15
Path == INSTANCE PathBlock WITH Procs <- {"p", "q"}, UserLines <- {"u", "v"},
      BreaksMarker <- FALSE, MaxEdits <- 1, file <- v1, bak <- v2, proc <- v3, edits <- v4,
      pristine <- v5, missed <- v6
Resolver == INSTANCE ResolverSetup WITH Addrs <- {1, 2},
      Backends <- {"macos", "resolved", "nm", "other"}, MaxRuns <- 3, backend <- v1, addr <- v2,
      route <- v3, nm <- v4, dm <- v5, live <- v6, unread <- v7, backups <- v8, user <- v9,
      taken <- v10, run <- v11, runs <- v12, last <- v13
Pf == INSTANCE PfRedirect WITH Ports <- {1, 2}, TornWrites <- FALSE, MaxRuns <- 3, anchor <- v1,
      refs <- v2, sound <- v3, live <- v4, plist <- v5, booted <- v6, tmp <- v7, run <- v8,
      runs <- v9, last <- v10, acked <- v11
Device == INSTANCE RemoteInstall WITH Authorities <- {1, 2}, MaxRuns <- 3, MaxHostChanges <- 1,
      os <- v1, getent <- v2, browsers <- v3, resolver <- v4, anchor <- v5, ca_file <- v6,
      trusted <- v7, conf <- v8, live <- v9, nss <- v10, run <- v11, exit <- v12, last <- v13,
      slipped <- v14, runs <- v15, changes <- v16
Argv == INSTANCE HelperArgv WITH inv <- v1, argv <- v2, run <- v3, pc <- v4
Frames == INSTANCE FrameStream WITH max <- 1, writer_max <- 2, READ_CHUNK <- 6,
      MaxMessages <- 3, sent <- v1, cut <- v2, open <- v3, wire <- v4, buf <- v5,
      poisoned <- v6, got <- v7, end <- v8
Cli == INSTANCE CliSession WITH MaxBoots <- 3, MaxPolls <- 2, daemon <- v1, cli <- v2,
      carried <- v3
Mcp == INSTANCE McpServer WITH daemon <- v1, server <- v2, line <- v3, called <- v4
Data == INSTANCE GuiData WITH MaxWrites <- 2, writes <- v1, entry <- v2, callers <- v3,
      shown <- v4
Tray == INSTANCE Tray WITH Running <- {1, 2}, SettleSteps <- 2, MaxActions <- 2, daemon <- v1,
      boot <- v2, menu <- v3, last <- v4, transition <- v5, poll <- v6, life <- v7,
      refresh <- v8, actions <- v9
Autostart == INSTANCE GuiAutostart WITH Workers <- {"w1"}, Setup <- "setup", MaxVersion <- 2,
      MaxLaunches <- 3, MaxCommands <- 2, app <- v1, file <- v2, asked <- v3, reg <- v4,
      job <- v5, legacy <- v6, login <- v7, lock <- v8, th <- v9, slipped <- v10,
      launches <- v11, commands <- v12
File == INSTANCE ConfigFile WITH version <- v1, doc <- v2, mem <- v3, up <- v4, sets <- v5
Apply == INSTANCE UpdateApply WITH Root <- FALSE, MaxVersion <- 3, MaxKills <- 1, host <- v1,
      root <- v2, owned <- v3, newest <- v4, artifact <- v5, minisig <- v6, bundle <- v7,
      backup <- v8, daemon <- v9, gui <- v10, upd <- v11, unrestored <- v12,
      kills <- v13
Artifact == INSTANCE UpdateArtifact WITH platform <- v1, format <- v2, assets <- v3,
      signed <- v4, summed <- v5, step <- v6, picked <- v7, kind <- v8, word <- v9,
      installer <- v10
Feed == INSTANCE ReleaseFeed WITH PreTags <- {2}, MaxMoves <- 1, github <- v1, cdn <- v2,
      sums <- v3, api <- v4, plan <- v5, drafts <- v6, step <- v7, latest <- v8, moves <- v9

MCRootOf == [p \in Projects |-> "r1"]
MCDesired == {<<80, 443>>, <<8080, 8081>>}
MCFallback == {<<8080, 8443>>, <<8081, 8443>>}
MCFold == (blog :> blog @@ Blog :> blog @@ shop :> shop @@ unallocated :> unallocated)

\* The slots from the n-th on, in a behaviour of a part that has fewer variables.
Free17 == v17 = 0
Free16 == v16 = 0 /\ Free17
Free15 == v15 = 0 /\ Free16
Free14 == v14 = 0 /\ Free15
Free13 == v13 = 0 /\ Free14
Free12 == v12 = 0 /\ Free13
Free11 == v11 = 0 /\ Free12
Free10 == v10 = 0 /\ Free11
Free9 == v9 = 0 /\ Free10
Free8 == v8 = 0 /\ Free9
Free7 == v7 = 0 /\ Free8
Free6 == v6 = 0 /\ Free7
Free5 == v5 = 0 /\ Free6
Free4 == v4 = 0 /\ Free5
Free3 == v3 = 0 /\ Free4
Free2 == v2 = 0 /\ Free3
Free1 == v1 = 0 /\ Free2
Kept17 == UNCHANGED v17
Kept16 == UNCHANGED v16 /\ Kept17
Kept15 == UNCHANGED v15 /\ Kept16
Kept14 == UNCHANGED v14 /\ Kept15
Kept13 == UNCHANGED v13 /\ Kept14
Kept12 == UNCHANGED v12 /\ Kept13
Kept11 == UNCHANGED v11 /\ Kept12
Kept10 == UNCHANGED v10 /\ Kept11
Kept9 == UNCHANGED v9 /\ Kept10
Kept8 == UNCHANGED v8 /\ Kept9
Kept7 == UNCHANGED v7 /\ Kept8
Kept6 == UNCHANGED v6 /\ Kept7
Kept5 == UNCHANGED v5 /\ Kept6
Kept4 == UNCHANGED v4 /\ Kept5
Kept3 == UNCHANGED v3 /\ Kept4
Kept2 == UNCHANGED v2 /\ Kept3
Kept1 == UNCHANGED v1 /\ Kept2

DaemonRests == Init /\ NoWatch /\ NoLan /\ NoLife /\ NoBind

PartsInit ==
    \/ DaemonInit /\ Free1
    \/ part = "mail" /\ Mail!Init /\ Free9 /\ DaemonRests
    \/ part = "tools" /\ Tool!Init /\ Free13 /\ DaemonRests
    \/ part = "cloudflared" /\ Cloudflared!Init /\ Free10 /\ DaemonRests
    \/ part = "named" /\ Named!Init /\ Free11 /\ DaemonRests
    \/ part = "elevation" /\ Elev!Init /\ Free16 /\ DaemonRests
    \/ part = "path" /\ Path!Init /\ Free7 /\ DaemonRests
    \/ part = "resolver" /\ Resolver!Init /\ Free14 /\ DaemonRests
    \/ part = "redirect" /\ Pf!Init /\ Free12 /\ DaemonRests
    \/ part = "device" /\ Device!Init /\ Free17 /\ DaemonRests
    \/ part = "argv" /\ Argv!Init /\ Free5 /\ DaemonRests
    \/ part = "frames" /\ Frames!Init /\ Free9 /\ DaemonRests
    \/ part = "cli" /\ Cli!Init /\ Free4 /\ DaemonRests
    \/ part = "mcp" /\ Mcp!Init /\ Free5 /\ DaemonRests
    \/ part = "gui" /\ Data!Init /\ Free5 /\ DaemonRests
    \/ part = "tray" /\ Tray!Init /\ Free10 /\ DaemonRests
    \/ part = "autostart" /\ Autostart!Init /\ Free13 /\ DaemonRests
    \/ part = "config" /\ File!Init /\ Free6 /\ DaemonRests
    \/ part = "apply" /\ Apply!Init /\ Free14 /\ DaemonRests
    \/ part = "artifact" /\ Artifact!Init /\ Free11 /\ DaemonRests
    \/ part = "feed" /\ Feed!Init /\ Free10 /\ DaemonRests

PartsNext ==
    \/ DaemonNext /\ Kept1
    \/ part = "mail" /\ Mail!Next /\ UNCHANGED <<part, daemonVars>> /\ Kept9
    \/ part = "tools" /\ Tool!Next /\ UNCHANGED <<part, daemonVars>> /\ Kept13
    \/ part = "cloudflared" /\ Cloudflared!Next /\ UNCHANGED <<part, daemonVars>> /\ Kept10
    \/ part = "named" /\ Named!Next /\ UNCHANGED <<part, daemonVars>> /\ Kept11
    \/ part = "elevation" /\ Elev!Next /\ UNCHANGED <<part, daemonVars>> /\ Kept16
    \/ part = "path" /\ Path!Next /\ UNCHANGED <<part, daemonVars>> /\ Kept7
    \/ part = "resolver" /\ Resolver!Next /\ UNCHANGED <<part, daemonVars>> /\ Kept14
    \/ part = "redirect" /\ Pf!Next /\ UNCHANGED <<part, daemonVars>> /\ Kept12
    \/ part = "device" /\ Device!Next /\ UNCHANGED <<part, daemonVars>> /\ Kept17
    \/ part = "argv" /\ Argv!Next /\ UNCHANGED <<part, daemonVars>> /\ Kept5
    \/ part = "frames" /\ Frames!Next /\ UNCHANGED <<part, daemonVars>> /\ Kept9
    \/ part = "cli" /\ Cli!Next /\ UNCHANGED <<part, daemonVars>> /\ Kept4
    \/ part = "mcp" /\ Mcp!Next /\ UNCHANGED <<part, daemonVars>> /\ Kept5
    \/ part = "gui" /\ Data!Next /\ UNCHANGED <<part, daemonVars>> /\ Kept5
    \/ part = "tray" /\ Tray!Next /\ UNCHANGED <<part, daemonVars>> /\ Kept10
    \/ part = "autostart" /\ Autostart!Next /\ UNCHANGED <<part, daemonVars>> /\ Kept13
    \/ part = "config" /\ File!Next /\ UNCHANGED <<part, daemonVars>> /\ Kept6
    \/ part = "apply" /\ Apply!Next /\ UNCHANGED <<part, daemonVars>> /\ Kept14
    \/ part = "artifact" /\ Artifact!Next /\ UNCHANGED <<part, daemonVars>> /\ Kept11
    \/ part = "feed" /\ Feed!Next /\ UNCHANGED <<part, daemonVars>> /\ Kept10

PartsSpec == PartsInit /\ [][PartsNext]_partsVars

-----------------------------------------------------------------------------
\* MailStore: an acknowledged message outlives crashes and failed writes, a listed message
\* opens with its own content, and no message file is written over.
MailKept ==
    /\ [](part = "mail" => Mail!AckedKept /\ Mail!ListedIsOwn)
    /\ [][part = "mail" => Mail!EmlKept]_partsVars

\* PathBlock, ResolverSetup, Elevation, NamedTunnels: what belongs to the user is left alone.
\* The lines of a shell profile survive edits by two processes, unless the user changes them
\* in the last moment before the rename, and the backup is pristine, unless it could not be
\* made; a resolver file of the user's is kept, and no certificate and no tunnel on the
\* account that is not Orcker's is removed.
UsersThingsKept ==
    /\ [](part = "path" => Path!TypeOK /\ Path!BackupIsPristine)
    /\ [](part = "resolver" => Resolver!TypeOK /\ Resolver!UserFileKept)
    /\ [](part = "elevation" => Elev!TypeOK)
    /\ [][/\ part = "path" => Path!UserLinesKept
          /\ part = "elevation" => Elev!ForeignRootKept
          /\ part = "named" => Named!ForeignKept]_partsVars

\* Elevation, ResolverSetup, PfRedirect, RemoteInstall, NamedTunnels: a step that reports
\* success has done its work in every place it changes, what it could not take back is
\* reported, a failed one leaves nothing that breaks the host, and it can be run again. The
\* one named tunnel is the same in the account, the configuration and the process. The
\* exceptions are the resolver's: an installation it finds in place although systemd-resolved
\* never read it, and snippets that could not be put back, of which it warns.
HostSetUpWhole ==
    /\ [](part = "elevation" => Elev!ExitSpeaksForAll /\ Elev!LeftoversReported)
    /\ [](part = "redirect" => Pf!TypeOK /\ Pf!NoDanglingAnchor /\ Pf!RedirectStands /\ Pf!RerunSucceeds)
    /\ [](part = "device" => Device!TypeOK /\ Device!SetupAllOrNothing)
    /\ [](part = "named" => Named!TypeOK /\ Named!OneTunnel /\ Named!RunsRecorded /\ Named!ZoneIsCurrent)
    /\ [][/\ part = "resolver" => Resolver!OkIsLive /\ Resolver!FailedNmLeavesNoTrace
          /\ part = "named" => Named!DeletedIsGone]_partsVars

\* HelperArgv, FrameStream, CliSession, McpServer, UpdateArtifact: what one program says is
\* what the next understands. A helper runs the call it was given, frames arrive whole and
\* in order, an exit status of zero means done, every MCP request is answered and gated by
\* what the daemon last said, and the file installed fits the installer and the host.
MessagesUnderstood ==
    /\ [](part = "argv" => Argv!TypeOK /\ Argv!CallArrives /\ Argv!NothingInvented)
    /\ [](part = "frames" => Frames!TypeOK /\ Frames!FramesArrive)
    /\ [](part = "cli" => Cli!TypeOK /\ Cli!ExitZeroMeansDone /\ Cli!AnswersUnderstood /\ Cli!LanToggleIsLive)
    /\ [](part = "mcp" => Mcp!EveryIdAnswered /\ Mcp!GateHolds /\ Mcp!EnablingIsNoticed)
    /\ [](part = "artifact" => Artifact!TypeOK /\ Artifact!FittingInstaller)
    /\ [][part = "cli" => Cli!SkewedUntouched]_partsVars

\* GuiData, Tray, GuiAutostart: what the desktop application shows and registers follows
\* what the user did. A refresh shows the write before it, a transient tray label goes with
\* its owner, the login item stays until it is switched off, and an older copy of the
\* application never replaces the daemon of a newer one whose registration it could record.
DesktopFollows ==
    /\ [](part = "gui" => Data!RefreshShowsWrite /\ Data!WrappersNeverInvent)
    /\ [](part = "tray" => Tray!TypeOK /\ Tray!TransientOwned)
    /\ [](part = "autostart" => Autostart!TypeOK /\ Autostart!LoginItemKept)
    /\ [][part = "autostart" => Autostart!OlderGuiRefused]_partsVars

\* ConfigFile: a file the daemon writes is read back as it was, and a file of an older
\* schema is kept beside the migrated one.
SavedReloads == part = "config" => File!SavedReloads /\ File!OldFileKept

\* UpdateApply, ReleaseFeed, ToolInstall, CloudflaredCache: an update ends with one whole
\* installation and a daemon running, and none is made from a torn file, the feed offers what
\* its mirror holds, a failed or interrupted tool install leaves the tool that was there, if
\* only aside, shims follow what is installed once they were reconciled, and an installed
\* cloudflared is the one used.
InstallsWhole ==
    /\ [](part = "apply" => Apply!TypeOK /\ Apply!UpdateLeavesDaemon /\ Apply!NeverLost)
    /\ [](part = "feed" => Feed!TypeOK /\ Feed!ManifestSuffices /\ Feed!SyncConverges)
    /\ [](part = "tools" => Tool!TypeOK /\ Tool!ShimsFollowTool /\ Tool!OldToolKept)
    /\ [](part = "cloudflared" => Cloudflared!TypeOK /\ Cloudflared!InstalledIsUsed)
    /\ [][/\ part = "feed" => Feed!DraftsKept
          /\ part = "apply" => Apply!TornNeverInstalled]_partsVars
=============================================================================
