--------------------------- MODULE ProxyRequest ---------------------------
(***************************************************************************)
(* One browser talking to the reverse proxy, request after request, while  *)
(* the daemon relinks and secures sites, flips the public HTTPS port and   *)
(* toggles the symlink guard.  A request is routed under the router's read *)
(* guard, redirected, forwarded or answered from the site's document root; *)
(* the browser keeps the pin cookie and follows redirects.                 *)
(*                                                                         *)
(* Names are abstract: a path is the shape the code tells apart, a file is *)
(* what its name resolves to (kind) and where (inside the document root or *)
(* outside).  serve_php_fpm sees one state of the file system.             *)
(***************************************************************************)
EXTENDS Naturals, Sequences, SequencesExt

CONSTANTS Sites,        \* names a site may have
          MaxRequests,  \* bound: requests the browser types, redirects not counted
          MaxChanges    \* bound: changes the daemon makes meanwhile

None == "none"
Hub == "hub"            \* the host of a whole-host proxy; it is configured secure

VARIABLES
  linked, secure,       \* the router: the sites it holds, and those that are secure
  port,                 \* is there an HTTPS listener to redirect to
  guard,                \* the symlink guard
  prepend,              \* the login bootstrap script could be written at start
  backend,              \* what the resolver gives for a document-root site
  token,                \* the login token of a site: "none", "valid" or "spent"
  pin,                  \* the browser's orcker-site cookie
  req, snap, answer,    \* the request in flight, what it was routed to, its answer
  hops, asked, changes  \* redirects followed in a row, requests typed, daemon changes

vars == <<linked, secure, port, guard, prepend, backend, token, pin, req, snap, answer,
          hops, asked, changes>>

Config == <<linked, secure, port, guard, prepend, backend>>

\* ---------------------------------------------------------------- the paths
\* "f" a name without and "s.php" one with a PHP extension, "d/" a directory, "wp" and
\* "wp/" one below /wp-admin, "switch" the path /~name, "~" the clearing switch, "dots" a path with
\* a segment that is refused.
Paths == {"/", "d/", "f", "s.php", "wp", "wp/", "dots", "~", "switch"}

resolve_segments(path) == path # "dots"
static_candidate(path) == path \in {"f", "s.php", "wp"} /\ resolve_segments(path)
directory_candidate(path) == path \in {"/", "d/", "wp/"} /\ resolve_segments(path)
is_clear_switch(path) == path = "~"
parse_switch(r) == IF r.path = "switch" THEN r.to ELSE None
directory_redirect_location(path) == IF path = "wp" THEN "wp/" ELSE "d/"
Admin(path) == path \in {"wp", "wp/"}

\* ---------------------------------------------------------------- the files
Files == [kind : {"text", "php", "dir"}, place : {"inside", "outside"}]
Missing == [kind |-> None, place |-> "inside"]
PhpNamed(name) == name \in {"s.php", "index.php"}

canonical_within(file) ==
    IF file = Missing THEN None ELSE IF file.place = "inside" THEN "ok" ELSE "escaped"

\* What a lookup may go on with: a file inside, or any file when the guard is off.
Reached(file, protection) ==
    canonical_within(file) = "ok" \/ (canonical_within(file) = "escaped" /\ ~protection)

NotFound == [what |-> "not_found"]
Serve(file) == [what |-> "file", file |-> file]
symlink_escape_response == [what |-> "forbidden"]

\* A regular file that is no PHP source, judged by what the name resolves to.
serve_contained_file(reads, name, file, protection) ==
    IF ~reads THEN NotFound
    ELSE IF canonical_within(file) = "escaped" /\ protection THEN symlink_escape_response
    ELSE IF Reached(file, protection) /\ file.kind = "text" THEN Serve(file) ELSE NotFound

try_serve(reads, path, file, protection) ==
    IF static_candidate(path) THEN serve_contained_file(reads, path, file, protection)
    ELSE NotFound

\* index.html, then index.htm; an escaped one is remembered, and refused only when the
\* other could not be served.
IndexOutcome(pages, protection) ==
    LET servable == {i \in DOMAIN pages : Reached(pages[i], protection) /\ pages[i].kind = "text"}
        escaped == {i \in DOMAIN pages : canonical_within(pages[i]) = "escaped" /\ protection}
    IN IF servable # {} THEN Serve(pages[CHOOSE i \in servable : \A j \in servable : i <= j])
       ELSE IF escaped # {} THEN symlink_escape_response ELSE NotFound

\* d: the directory, its index.php, its index pages.
try_serve_index(reads, path, d, protection) ==
    IF ~reads \/ ~directory_candidate(path) THEN NotFound
    ELSE IF canonical_within(d.at) = "escaped" /\ protection THEN symlink_escape_response
    ELSE IF ~Reached(d.at, protection) \/ d.at.kind # "dir" \/ d.php # Missing THEN NotFound
    ELSE IndexOutcome(d.pages, protection)

existing_php_file(name, file, protection) ==
    PhpNamed(name) /\ Reached(file, protection) /\ file.kind # "dir"

is_existing_directory(file, protection) == Reached(file, protection) /\ file.kind = "dir"

Script(file) == [what |-> "script", file |-> file]
Fallback == [what |-> "fallback"]
DirectoryRedirect == [what |-> "slash"]

resolve_script(path, file, d, protection) ==
    IF static_candidate(path)
    THEN IF existing_php_file(path, file, protection) THEN Script(file)
         ELSE IF is_existing_directory(file, protection) THEN DirectoryRedirect ELSE Fallback
    ELSE IF directory_candidate(path) /\ existing_php_file("index.php", d.php, protection)
    THEN Script(d.php) ELSE Fallback

resolve_script_if_allowed(allowed, path, file, d, protection) ==
    IF allowed THEN resolve_script(path, file, d, protection) ELSE Fallback

\* The site's routing rule: none (the root's index page is tried), a PHP or a static target.
apply_route(reads, rule, home, target, protection) ==
    CASE rule = None -> LET page == try_serve_index(reads, "/", home, protection)
                        IN IF page = NotFound THEN Fallback ELSE page
      [] rule = "php" -> IF existing_php_file("index.php", target, protection)
                         THEN Script(target) ELSE Fallback
      [] rule = "static" ->
           IF ~reads THEN [what |-> "not_allowed"]
           ELSE LET page == serve_contained_file(reads, "f", target, protection)
                IN IF page = NotFound THEN Fallback ELSE page

\* ---------------------------------------------------------- the document root
\* What the document root answers: a response, a slash redirect, or the script to run.
Lookup(r, rule, allowed, disk, protection) ==
    LET reads == r.method = "GET"
        plain == try_serve(reads, r.path, disk.at, protection)
        index == try_serve_index(reads, r.path, disk.dir, protection)
        script == resolve_script_if_allowed(allowed, r.path, disk.at, disk.dir, protection)
    IN CASE plain # NotFound -> plain
         [] plain = NotFound /\ index # NotFound -> index
         [] plain = NotFound /\ index = NotFound ->
              IF script.what = "script" \/ (script.what = "slash" /\ reads) THEN script
              ELSE apply_route(reads, rule, disk.home, disk.target, protection)

\* The files a request can meet: the named one, the directory it names, the site's root
\* and the rule's target.
Some(kinds) == {Missing} \cup {f \in Files : f.kind \in kinds}
NoDirectory == [at |-> Missing, php |-> Missing, pages |-> <<Missing, Missing>>]
Directory ==
    [at : {f \in Files : f.kind = "dir"}, php : Some({"php"}),
     pages : {<<a, b>> : a \in Some({"text", "php"}), b \in Some({"text"})}]
Home ==
    {d \in Directory : /\ d.at.place = "inside" /\ d.php.place = "inside"
                       /\ d.pages[2] = Missing /\ d.pages[1].kind # "php"}
Disks(r, rule) ==
    [at : IF static_candidate(r.path) THEN {Missing} \cup Files ELSE {Missing},
     dir : {NoDirectory} \cup IF directory_candidate(r.path) /\ r.method = "GET"
                              THEN Directory ELSE {},
     home : {NoDirectory} \cup IF rule = None /\ r.method = "GET" THEN Home ELSE {},
     target : {Missing} \cup IF rule = None THEN {} ELSE Files]

consume_login_token_if_present(r, site) == Admin(r.path) /\ r.token = site /\ token = "valid"

build_params(file, login) == [what |-> "php", file |-> file, login |-> login]

\* The root's index.php, which nothing looked up.
FrontController == [kind |-> "php", place |-> "unchecked"]

\* The token is looked at once the request is to be handed to PHP; without the bootstrap
\* script it is consumed all the same, and nobody is logged in.
serve_php_fpm(found) ==
    IF found.what \in {"script", "fallback"}
    THEN LET consumed == consume_login_token_if_present(req, snap.site)
         IN /\ token' = IF consumed THEN "spent" ELSE token
            /\ answer' = build_params(IF found.what = "script" THEN found.file
                                      ELSE FrontController, consumed /\ prepend)
    ELSE answer' = found /\ UNCHANGED token

\* ---------------------------------------------------------------- the router
Idle == [host |-> None]
Unrouted == [site |-> None]

decide_picker(html, clear) ==
    [what |-> IF html THEN "picker" ELSE "missing", pin |-> IF clear THEN "clear" ELSE "keep"]

is_html_get(r) == r.method = "GET" /\ r.html

\* A loopback host names no site: the site header decides, then the switching path, then
\* the pin.  The result is a site to serve or an answer.
classify_unbound(r) ==
    IF r.header # None
    THEN IF r.header \in linked THEN [what |-> "serve", site |-> r.header]
         ELSE [what |-> "missing", pin |-> "keep"]
    ELSE IF is_clear_switch(r.path) THEN [what |-> "cleared", pin |-> "clear"]
    ELSE IF parse_switch(r) # None
    THEN IF parse_switch(r) \in linked THEN [what |-> "switch", pin |-> parse_switch(r)]
         ELSE decide_picker(is_html_get(r), FALSE)
    ELSE IF r.cookie # None
    THEN IF r.cookie \in linked THEN [what |-> "serve", site |-> r.cookie]
         ELSE decide_picker(is_html_get(r), TRUE)
    ELSE decide_picker(is_html_get(r), FALSE)

is_loopback_host(host) == host = "localhost"

Bound(site, unbound, matched, rule) ==
    [site |-> site, unbound |-> unbound, matched |-> matched, rule |-> rule,
     secure |-> site \in secure \cup {Hub}]

\* The rules of the site, which the router holds beside it: a path rule that forwards,
\* a routing rule, both or neither.
Rules == BOOLEAN \X {None, "php", "static"}

resolve_request ==
    /\ req # Idle /\ snap = Unrouted /\ answer = NotFound
    /\ \/ /\ req.host \in linked
          /\ \E m \in Rules : snap' = Bound(req.host, FALSE, m[1], m[2])
          /\ UNCHANGED answer
       \/ /\ req.host = Hub
          /\ snap' = Bound(Hub, FALSE, TRUE, None)
          /\ UNCHANGED answer
       \/ /\ req.host \notin linked \cup {Hub}
          /\ ~is_loopback_host(req.host)
          /\ answer' = [what |-> IF req.host = "absent" THEN "bad_request" ELSE "missing",
                        pin |-> "keep"]
          /\ UNCHANGED snap
       \/ /\ req.host \notin linked
          /\ is_loopback_host(req.host)
          /\ LET c == classify_unbound(req)
             IN IF c.what = "serve"
                THEN /\ \E m \in Rules : snap' = Bound(c.site, TRUE, m[1], m[2])
                     /\ UNCHANGED answer
                ELSE answer' = c /\ UNCHANGED snap
    /\ UNCHANGED <<Config, token, pin, req, hops, asked, changes>>

\* Before the site is looked at again, its clone decides: router changes no longer count.
Redirects_after_rules == req.listener = "http" /\ ~snap.unbound /\ snap.secure /\ port /\ ~snap.matched
Redirects == req.listener = "http" /\ ~snap.unbound /\ snap.secure /\ port

https_redirect == [what |-> "https", pin |-> "keep"]

dispatch ==
    /\ snap # Unrouted /\ answer = NotFound
    /\ IF Redirects THEN answer' = https_redirect /\ UNCHANGED token
       ELSE IF snap.matched THEN answer' = [what |-> "forwarded"] /\ UNCHANGED token
       ELSE \/ /\ backend = None
               /\ answer' = [what |-> "failed"] /\ UNCHANGED token
            \/ /\ backend # None /\ req.upgrade
               /\ answer' = [what |-> IF backend = "franken" THEN "forwarded" ELSE "unsupported"]
               /\ UNCHANGED token
            \/ /\ backend = "franken" /\ ~req.upgrade
               /\ answer' = [what |-> "forwarded"] /\ UNCHANGED token
            \/ /\ backend = "fpm" /\ ~req.upgrade
               /\ \E found \in {Lookup(req, snap.rule, allowed, disk, guard) :
                              allowed \in BOOLEAN, disk \in Disks(req, snap.rule)} :
                    serve_php_fpm(found)
    /\ UNCHANGED <<Config, pin, req, snap, hops, asked, changes>>

\* --------------------------------------------------------------- the browser
Hosts == Sites \cup {Hub, "localhost", "elsewhere", "absent"}

\* A request carries the cookie it was sent with; what is typed is every shape the code
\* tells apart, not every combination of them.
Request(host, method, path, to, header, html, upgrade, tok) ==
    [listener |-> "http", host |-> host, method |-> method, path |-> path, to |-> to,
     header |-> header, html |-> html, upgrade |-> upgrade, token |-> tok, cookie |-> pin]

Ask ==
    /\ req = Idle /\ asked < MaxRequests
    /\ \E host \in Hosts, method \in {"GET", "POST"}, path \in Paths, html, upgrade \in BOOLEAN,
          to, header \in {None, "gone"} \cup Sites, tok \in {None} \cup Sites :
         /\ path = "switch" <=> to # None
         /\ is_loopback_host(host) \/ (header = None /\ html /\ path \notin {"~", "switch"})
         /\ header # None => path \in {"f", "~"}
         /\ upgrade => method = "GET" /\ path = "f"
         /\ tok # None => Admin(path) /\ method = "GET"
         /\ req' = Request(host, method, path, to, header, html, upgrade, tok)
    /\ asked' = asked + 1 /\ hops' = 0
    /\ UNCHANGED <<Config, token, pin, snap, answer, changes>>

Kept == IF "pin" \in DOMAIN answer THEN answer.pin ELSE "keep"

\* The browser stores the cookie of the answer and follows a redirect with the same query.
Receive ==
    /\ answer # NotFound
    /\ pin' = IF Kept = "clear" THEN None ELSE IF Kept = "keep" THEN pin ELSE Kept
    /\ req' = CASE answer.what = "https" -> [req EXCEPT !.listener = "https", !.cookie = pin']
                [] answer.what = "slash" ->
                     [req EXCEPT !.path = directory_redirect_location(@), !.cookie = pin']
                [] answer.what \in {"switch", "cleared"} -> [req EXCEPT !.path = "/", !.to = None, !.cookie = pin']
                [] OTHER -> Idle
    /\ hops' = IF req' = Idle THEN 0 ELSE hops + 1
    /\ snap' = Unrouted /\ answer' = NotFound
    /\ UNCHANGED <<Config, token, asked, changes>>

\* ---------------------------------------------------------------- the daemon
Changes ==
    /\ changes < MaxChanges /\ changes' = changes + 1
    /\ UNCHANGED <<port, prepend, backend, pin, req, snap, answer, hops, asked>>

Relink ==
    /\ \E s \in Sites : linked' = IF s \in linked THEN linked \ {s} ELSE linked \cup {s}
    /\ secure' = secure \cap linked'
    /\ Changes /\ UNCHANGED <<guard, token>>

SetSecure ==
    /\ \E s \in linked : secure' = IF s \in secure THEN secure \ {s} ELSE secure \cup {s}
    /\ Changes /\ UNCHANGED <<linked, guard, token>>

SetSymlinkProtection ==
    /\ guard' = ~guard
    /\ Changes /\ UNCHANGED <<linked, secure, token>>

Mint ==
    /\ token = None /\ token' = "valid"
    /\ Changes /\ UNCHANGED <<linked, secure, guard>>

Init ==
    /\ linked = Sites /\ secure = {} /\ guard = TRUE
    /\ backend \in {None, "franken", "fpm"}
    /\ port \in BOOLEAN /\ prepend \in IF backend = "fpm" THEN BOOLEAN ELSE {TRUE}
    /\ token = None /\ pin = None /\ req = Idle /\ snap = Unrouted /\ answer = NotFound
    /\ hops = 0 /\ asked = 0 /\ changes = 0

Next == Ask \/ resolve_request \/ dispatch \/ Receive \/ Relink \/ SetSecure
          \/ SetSymlinkProtection \/ Mint

Spec == Init /\ [][Next]_vars

\* ---------------------------------------------------------------- properties
TypeOK ==
    /\ linked \subseteq Sites /\ secure \subseteq linked /\ token \in {None, "valid", "spent"}
    /\ pin \in {None} \cup Sites /\ hops \in 0..3 /\ asked \in 0..MaxRequests

\* A redirect the proxy answers leads somewhere: after the HTTPS redirect and the slash
\* redirect (or the switch) of one request no further redirect follows, whatever the daemon
\* changes meanwhile.
RedirectsEnd == hops <= 2

\* A file the proxy hands out itself is no PHP source, whatever its name says, and while
\* the symlink guard is on neither it nor a script that was looked up lies outside the
\* document root.
ServedFilesAllowed ==
    LET found == answer' IN
    /\ found.what = "file" => found.file.kind = "text"
    /\ (answer # answer' /\ found.what \in {"file", "php"} /\ guard)
         => found.file.place # "outside"

\* A login token is spent only by a request that reaches PHP: neither the HTTPS nor the
\* slash redirect nor a file served in between burns it.
TokenSpentOnForward ==
    token # "spent" /\ token' = "spent" => answer'.what = "php"

\* While there is an HTTPS listener, a request that names a secure site or proxy by its
\* host gets nothing over plain HTTP but the redirect.
SecureOnlyOverHttps ==
    (snap # Unrouted /\ answer # NotFound /\ ~snap.unbound /\ snap.secure /\ port
       /\ req.listener = "http") => answer.what = "https"

\* A pin whose site is gone does not come back to life: the answer that found it dead
\* takes the cookie with it.
DeadPinDropped ==
    (req # Idle /\ is_loopback_host(req.host) /\ req.header = None /\ req.path # "switch"
       /\ answer.what \in {"picker", "missing"}) => (req' # req => pin' = None)
============================================================================
