---------------------------- MODULE IpcContract ----------------------------
(***************************************************************************)
(* What the daemon and its clients agree on: the requests of orcker-ipc,   *)
(* the kinds of response, and, for every request, the responses that the   *)
(* daemon's dispatcher can give.  Request and response payloads are left   *)
(* out, except for the state of a job and for the error code that tells a  *)
(* version disagreement from every other refusal.                          *)
(***************************************************************************)
EXTENDS TLC

\* ------------------------------------------------------------ the requests
SiteWrites == {"Park", "Link", "Unlink", "Unpark", "SetSecure", "SetWebRoot",
               "SetFrontController"}
DomainWrites == {"AddDomain", "RemoveDomain", "SetPrimaryDomain", "ResetDomains"}
ProxyWrites == {"AddProxy", "RemoveProxy", "AddProxyRule", "RemoveProxyRule"}
RouteWrites == {"AddRouteRule", "RemoveRouteRule"}
GroupWrites == {"CreateGroup", "DeleteGroup", "SetGroupOrder", "SetSiteGroup",
                "RenameGroup"}
MailWrites == {"ClearMails", "DeleteMails", "MarkMailsRead"}
SettingWrites == {"SetMailPort", "SetFallbackPorts", "SetDnsPort", "SetMailEnabled",
                  "SetSymlinkProtection", "SetMcpEnabled", "SetLanEnabled",
                  "SetUpdateChannel"}
ToolWrites == {"InstallTool", "UninstallTool"}
TunnelMoves == {"StartQuickTunnel", "StopTunnel", "StartNamedTunnel", "StopNamedTunnel"}
TunnelWrites == {"CreateNamedTunnel", "DeleteNamedTunnel", "RouteTunnelDns",
                 "SetSiteTunnel"}

\* The requests the daemon answers with plain success or a refusal.
Writes == SiteWrites \cup DomainWrites \cup ProxyWrites \cup RouteWrites
            \cup GroupWrites \cup MailWrites \cup SettingWrites \cup ToolWrites
            \cup TunnelWrites

\* ------------------------------------------------------------ the responses
Refused == "Error"
Mismatch == "VersionMismatch"
JobStates == {"running", "succeeded", "failed", "cancelled"}

\* ------------------------------------------------- the daemon's dispatcher
\* Reads of daemon state: one kind of answer, and no failure.
ReadAnswers ==
    "Ping" :> {"Pong"} @@ "ListSites" :> {"Sites"} @@ "ListProjects" :> {"Projects"}
      @@ "ListParked" :> {"Parked"} @@ "DaemonInfo" :> {"Info"}
      @@ "ListProxies" :> {"Proxies"} @@ "ListRoutes" :> {"Routes"}
      @@ "ListGroups" :> {"Groups"} @@ "Status" :> {"Status"}
      @@ "EngineStatus" :> {"EngineStatus"} @@ "Diagnose" :> {"Diagnoses"}
      @@ "ListMails" :> {"Mails"} @@ "ListTools" :> {"Tools"}

\* A fix run reports, and a restart is acknowledged before it happens.
HostAnswers ==
    "DoctorFix" :> {"DoctorFix"} @@ "RestartDaemon" :> {"Ok"}
      @@ "TrustBrowsers" :> {"BrowserTrust", Refused}

MailAnswers == "GetMail" :> {"Mail", Refused}

LanAnswers == "MintRemoteSetupCode" :> {"RemoteSetup", Refused}

LinkAnswers == "LinkProject" :> {"Project", Refused}

WriteAnswers == [r \in Writes |-> {"Ok", Refused}]

JobAnswers ==
    "InstallToolStreamed" :> {"JobStarted", Refused}
      @@ "InstallCloudflaredStreamed" :> {"JobStarted"}
      @@ "CloudflaredLogin" :> {"JobStarted", Refused}
      @@ "JobStatus" :> JobStates \cup {Refused} @@ "JobCancel" :> {"Ok", Refused}

UpdateAnswers ==
    "CheckUpdate" :> {"UpdateStatus"} @@ "CachedUpdateStatus" :> {"UpdateStatus"}
      @@ "StageUpdate" :> {"Staged", Refused}

TunnelAnswers ==
    [r \in TunnelMoves |-> {"Tunnels", Refused}]
      @@ "TunnelStatus" :> {"Tunnels"} @@ "ListNamedTunnels" :> {"NamedTunnels"}

Answers ==
    ReadAnswers @@ HostAnswers @@ MailAnswers @@ LanAnswers @@ LinkAnswers
      @@ WriteAnswers @@ JobAnswers @@ UpdateAnswers @@ TunnelAnswers

Requests == DOMAIN Answers

\* The requests that change something in the daemon or on the host.
Changes == Requests \ (DOMAIN ReadAnswers \cup {"DoctorFix", "GetMail", "JobStatus",
                         "CheckUpdate", "CachedUpdateStatus", "TunnelStatus",
                         "ListNamedTunnels"})

\* The daemon carried a request out when it answers with anything but a refusal.
Carried(a) == a \notin {Refused, Mismatch}

\* What one exchange of the CLI ends with, given whether the two builds speak the same
\* protocol version: the connect-time Hello is answered first, and a daemon of another
\* version refuses there, before the request is sent.
ExchangeAnswers(r, skewed) == IF skewed THEN {Mismatch} ELSE Answers[r]

\* The desktop application sends its request without a Hello: a daemon of another
\* version answers what it understands and refuses what it cannot decode.
BridgeAnswers(r, skewed) ==
    IF skewed THEN Answers[r] \cup {Mismatch} ELSE Answers[r]
=============================================================================
