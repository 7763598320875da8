------------------------------- MODULE GuiData -------------------------------
(***************************************************************************)
(* The data path of the desktop application: the Tauri command of every    *)
(* request, the typed wrapper the views call, and the cache (useResource)  *)
(* that several views share.  One cached key is followed: "sites", read by *)
(* the Sites view and by the command palette, or "share-page", read by the *)
(* Share view alone, which also writes the cache itself (mutate).          *)
(***************************************************************************)
EXTENDS IpcContract, Naturals, FiniteSets

CONSTANT MaxWrites      \* writes the views make in all

VARIABLES
    writes,    \* the writes the daemon has carried out
    entry,     \* the cache entry: key, data, epoch, and the fetch in flight
    callers,   \* the views and the poll timer, each in the middle of one refresh
    shown      \* the last wrapper called, and what it made of the response

vars == <<writes, entry, callers, shown>>

\* ------------------------------------------------- commands and their requests
SiteCommands ==
    "list_sites" :> "ListSites" @@ "park" :> "Park" @@ "link" :> "Link"
      @@ "unlink" :> "Unlink" @@ "list_parked" :> "ListParked" @@ "unpark" :> "Unpark"
      @@ "set_secure" :> "SetSecure" @@ "set_web_root" :> "SetWebRoot"
      @@ "set_front_controller" :> "SetFrontController"

DomainCommands ==
    "add_domain" :> "AddDomain" @@ "remove_domain" :> "RemoveDomain"
      @@ "set_primary_domain" :> "SetPrimaryDomain" @@ "reset_domains" :> "ResetDomains"

ProxyCommands ==
    "list_proxies" :> "ListProxies" @@ "add_proxy" :> "AddProxy"
      @@ "remove_proxy" :> "RemoveProxy" @@ "add_proxy_rule" :> "AddProxyRule"
      @@ "remove_proxy_rule" :> "RemoveProxyRule" @@ "list_routes" :> "ListRoutes"
      @@ "add_route_rule" :> "AddRouteRule" @@ "remove_route_rule" :> "RemoveRouteRule"

GroupCommands ==
    "list_groups" :> "ListGroups" @@ "create_group" :> "CreateGroup"
      @@ "delete_group" :> "DeleteGroup" @@ "set_group_order" :> "SetGroupOrder"
      @@ "set_site_group" :> "SetSiteGroup" @@ "rename_group" :> "RenameGroup"

UpdateCommands ==
    "check_updates" :> "CheckUpdate" @@ "cached_update_status" :> "CachedUpdateStatus"
      @@ "set_update_channel" :> "SetUpdateChannel" @@ "apply_update" :> "StageUpdate"
      @@ "restart_daemon" :> "RestartDaemon"

MailCommands ==
    "list_mails" :> "ListMails" @@ "get_mail" :> "GetMail" @@ "clear_mails" :> "ClearMails"
      @@ "delete_mails" :> "DeleteMails" @@ "mark_mails_read" :> "MarkMailsRead"

SettingCommands ==
    "set_mail_port" :> "SetMailPort" @@ "set_fallback_ports" :> "SetFallbackPorts"
      @@ "set_dns_port" :> "SetDnsPort" @@ "set_mail_enabled" :> "SetMailEnabled"
      @@ "set_symlink_protection" :> "SetSymlinkProtection"
      @@ "set_mcp_enabled" :> "SetMcpEnabled"

HostCommands ==
    "status" :> "Status" @@ "diagnose" :> "Diagnose" @@ "doctor_fix" :> "DoctorFix"
      @@ "daemon_info" :> "DaemonInfo" @@ "trust_ca" :> "TrustBrowsers"
      @@ "list_tools" :> "ListTools" @@ "uninstall_tool" :> "UninstallTool"
      @@ "install_tool_streamed" :> "InstallToolStreamed" @@ "job_status" :> "JobStatus"

TunnelCommands ==
    "install_cloudflared_streamed" :> "InstallCloudflaredStreamed"
      @@ "start_quick_tunnel" :> "StartQuickTunnel" @@ "stop_tunnel" :> "StopTunnel"
      @@ "tunnel_status" :> "TunnelStatus" @@ "cloudflared_login" :> "CloudflaredLogin"
      @@ "create_named_tunnel" :> "CreateNamedTunnel"
      @@ "delete_named_tunnel" :> "DeleteNamedTunnel"
      @@ "list_named_tunnels" :> "ListNamedTunnels"
      @@ "route_tunnel_dns" :> "RouteTunnelDns" @@ "set_site_tunnel" :> "SetSiteTunnel"
      @@ "start_named_tunnel" :> "StartNamedTunnel"
      @@ "stop_named_tunnel" :> "StopNamedTunnel"

CommandRequest ==
    SiteCommands @@ DomainCommands @@ ProxyCommands @@ GroupCommands @@ UpdateCommands
      @@ MailCommands @@ SettingCommands @@ HostCommands @@ TunnelCommands

\* --------------------------------------------------------- wrappers (client.ts)
\* The kind of response a wrapper reads a value from; a wrapper that is not listed here
\* returns nothing and takes any success.
Reads ==
    "list_sites" :> {"Sites"} @@ "list_parked" :> {"Parked"} @@ "list_groups" :> {"Groups"}
      @@ "list_proxies" :> {"Proxies"} @@ "list_routes" :> {"Routes"}
      @@ "list_mails" :> {"Mails"} @@ "diagnose" :> {"Diagnoses"}
      @@ "list_tools" :> {"Tools"} @@ "get_mail" :> {"Mail"} @@ "status" :> {"Status"}
      @@ "apply_update" :> {"Staged"} @@ "install_tool_streamed" :> {"JobStarted"}
      @@ "install_cloudflared_streamed" :> {"JobStarted"}
      @@ "cloudflared_login" :> {"JobStarted"} @@ "job_status" :> JobStates
      @@ "check_updates" :> {"UpdateStatus"} @@ "cached_update_status" :> {"UpdateStatus"}
      @@ "doctor_fix" :> {"DoctorFix"} @@ "daemon_info" :> {"Info"}
      @@ "start_quick_tunnel" :> {"Tunnels"} @@ "stop_tunnel" :> {"Tunnels"}
      @@ "start_named_tunnel" :> {"Tunnels"} @@ "stop_named_tunnel" :> {"Tunnels"}
      @@ "tunnel_status" :> {"Tunnels"} @@ "list_named_tunnels" :> {"NamedTunnels"}

\* On any other success these return an empty list, and these fail; the rest read the
\* fields of whatever came.
Empties == {"list_sites", "list_parked", "list_groups", "list_proxies", "list_routes",
            "list_mails", "diagnose"}
Throws == {"list_tools", "get_mail", "status", "install_tool_streamed",
           "install_cloudflared_streamed", "cloudflared_login", "apply_update"}

\* The bridge (finish) turns an error response into a failure of the command.
Finish(a) == IF Carried(a) THEN a ELSE "failure"

Unwrap(c, a) ==
    IF Finish(a) = "failure" THEN IF c = "trust_ca" THEN "value" ELSE "error"
    ELSE IF c \notin DOMAIN Reads \/ a \in Reads[c] THEN "value"
    ELSE IF c \in Empties THEN "made up" ELSE IF c \in Throws THEN "odd" ELSE "misread"

\* --------------------------------------------------------------------- the state
Keys == {"sites", "share-page"}
Views(key) == IF key = "sites" THEN {"view", "palette"} ELSE {"view"}

Rest == [step |-> "rest", wrote |-> {}, shows |-> FALSE]

Nothing == [cmd |-> "", as |-> "value"]

Init ==
    /\ writes = {}
    /\ \E key \in Keys :
         /\ entry = [key |-> key, data |-> {}, epoch |-> 0, fetch |-> {}]
         /\ callers = [c \in Views(key) \cup {"poll"} |-> Rest]
    /\ shown = Nothing

\* A wrapper called outside the followed key; a daemon of another build may answer.
Call ==
    /\ entry.fetch = {} /\ writes = {} /\ \A v \in DOMAIN callers : callers[v] = Rest
    /\ \E c \in DOMAIN CommandRequest, skewed \in BOOLEAN :
         \E a \in BridgeAnswers(CommandRequest[c], skewed) :
           shown' = [cmd |-> c, as |-> Unwrap(c, a)]
    /\ UNCHANGED <<writes, entry, callers>>

\* ------------------------------------------------------------- a write of a view
\* A view writes through the daemon and waits for the answer.
Write(v) ==
    /\ callers[v].step = "rest" /\ Cardinality(writes) < MaxWrites
    /\ callers' = [callers EXCEPT ![v] = [Rest EXCEPT !.step = "writing"]]
    /\ shown' = Nothing
    /\ UNCHANGED <<writes, entry>>

DaemonWrites(v) ==
    /\ callers[v].step = "writing" /\ callers[v].wrote = {}
    /\ Cardinality(writes) < MaxWrites
    /\ LET w == Cardinality(writes) + 1
       IN  /\ writes' = writes \cup {w}
           /\ callers' = [callers EXCEPT ![v].wrote = {w}]
    /\ UNCHANGED <<entry, shown>>

WriteRefused(v) ==
    /\ callers[v].step = "writing" /\ callers[v].wrote = {}
    /\ callers' = [callers EXCEPT ![v] = Rest]
    /\ UNCHANGED <<writes, entry, shown>>

\* ------------------------------------------------------------- the cache (useResource)

\* A forced call does not settle for a fetch already in flight: it chains its own.
Chained(fetch, force) == force /\ fetch # {}

\* The start of revalidate: wait for the fetch in flight, or start one.
Revalidate(v, force) ==
    IF Chained(entry.fetch, force)
    THEN /\ callers' = [callers EXCEPT ![v].step = "chained"]
         /\ UNCHANGED entry
    ELSE /\ callers' = [callers EXCEPT ![v].step = "waiting", ![v].shows = TRUE]
         /\ entry' = IF entry.fetch # {} THEN entry
                     ELSE [entry EXCEPT !.fetch = {[epoch |-> entry.epoch, saw |-> {}]}]

\* The write is answered, and the view refreshes: `await write; await refresh({force})`.
Refresh(v) ==
    /\ callers[v].step = "writing" /\ callers[v].wrote # {}
    /\ Revalidate(v, TRUE)
    /\ UNCHANGED <<writes, shown>>

Mutate_no_epoch(w) ==
    entry' = [entry EXCEPT !.data = IF @ = {} THEN @ ELSE {d \cup w : d \in @}]

\* A write into the cache: the epoch moves on, and with it every fetch in flight is
\* stale.  Before the first load there is nothing to update.
Mutate(w) ==
    entry' = [entry EXCEPT !.epoch = @ + 1,
                           !.data = IF @ = {} THEN @ ELSE {d \cup w : d \in @}]

\* The Share view folds the answer to its write into the cache instead.
FoldIn(v) ==
    /\ entry.key = "share-page" /\ v = "view"
    /\ callers[v].step = "writing" /\ callers[v].wrote # {}
    /\ Mutate(callers[v].wrote)
    /\ callers' = [callers EXCEPT ![v].step = "done", ![v].shows = entry.data # {}]
    /\ UNCHANGED <<writes, shown>>

\* A chained call runs once the fetch it waited for has settled; another caller may
\* have started the next one meanwhile.
ChainRuns(v) ==
    /\ callers[v].step = "linked"
    /\ Revalidate(v, FALSE)
    /\ UNCHANGED <<writes, shown>>

\* The poll timer, a mount or the window becoming visible: the Sites view polls plainly,
\* the Share view with force, and only while none of its own actions is running.
Poll ==
    /\ callers["poll"].step = "rest"
    /\ entry.key = "share-page" => callers["view"].step \in {"rest", "done"}
    /\ Revalidate("poll", entry.key = "share-page")
    /\ shown' = Nothing
    /\ UNCHANGED writes

DaemonReads ==
    /\ \E f \in entry.fetch :
         /\ f.saw = {}
         /\ entry' = [entry EXCEPT !.fetch = {[f EXCEPT !.saw = {writes}]}]
    /\ UNCHANGED <<writes, callers, shown>>

\* Those who wait for a fetch go on when it settles: the chained ones to their own turn.
Settle(shows) ==
    callers' = [c \in DOMAIN callers |->
                  CASE callers[c].step = "waiting" /\ c = "poll" -> Rest
                    [] callers[c].step = "waiting" ->
                         [callers[c] EXCEPT !.step = "done", !.shows = shows]
                    [] callers[c].step = "chained" -> [callers[c] EXCEPT !.step = "linked"]
                    [] OTHER -> callers[c]]

\* A fetch that no write into the cache has overtaken becomes the data.
FetchEnds ==
    /\ \E f \in entry.fetch :
         /\ f.saw # {}
         /\ entry' = [entry EXCEPT !.fetch = {},
                                   !.data = IF entry.epoch = f.epoch THEN f.saw ELSE @]
         /\ Settle(TRUE)
    /\ UNCHANGED <<writes, shown>>

\* A failure keeps the last good data, and the callers go on all the same.
FetchFails ==
    /\ entry.fetch # {}
    /\ entry' = [entry EXCEPT !.fetch = {}]
    /\ Settle(FALSE)
    /\ UNCHANGED <<writes, shown>>

Leave(v) ==
    /\ callers[v].step = "done"
    /\ callers' = [callers EXCEPT ![v] = Rest]
    /\ UNCHANGED <<writes, entry, shown>>

View(v) ==
    \/ Write(v) \/ DaemonWrites(v) \/ WriteRefused(v) \/ Refresh(v) \/ FoldIn(v) \/ Leave(v)

Next ==
    \/ Call \/ Poll \/ DaemonReads \/ FetchEnds \/ FetchFails
    \/ \E v \in DOMAIN callers : ChainRuns(v)
    \/ \E v \in Views(entry.key) : View(v)

Spec == Init /\ [][Next]_vars

\* ---------------------------------------------------------------------- properties
\* The views' data: when the refresh that follows a write is over, and its fetch did not
\* fail, the shared cache holds that write, and it goes on holding it: no fetch begun
\* before the write, and no fetch of another view, puts the older state back.
RefreshShowsWrite ==
    \A v \in Views(entry.key) :
      callers[v].step = "done" /\ callers[v].shows
        => \E d \in entry.data : callers[v].wrote \subseteq d

\* No wrapper hands a view a value the daemon did not send: for every command, and from
\* a daemon of either version, the response is of the kind that is read, or it is an
\* error that the view is told of.
WrappersNeverInvent == shown.as \in {"value", "error"}
=============================================================================
