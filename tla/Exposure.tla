------------------------------ MODULE Exposure ------------------------------
(***************************************************************************)
(* Which surfaces are reachable from where: Caddy's site blocks, and the   *)
(* guard by which the backend enforces the same boundary a second time.    *)
(* The actions are the ordinary events that undo the first lock: handle    *)
(* blocks are dropped from the Caddyfile, the tunnel is pointed at the     *)
(* backend, the stack runs without Caddy, and the two sides have read the  *)
(* admin entry token at different times.                                   *)
(***************************************************************************)
EXTENDS Naturals, Sequences

CONSTANTS
    Visitor,            \* addresses on the internet
    Owner,              \* addresses on the tailnet
    Token               \* values of ADMIN_ENTRY_TOKEN

VARIABLES
    ingress,            \* the tunnel in use: Funnel or cloudflared
    target,             \*   and where it ends: at Caddy or at the backend
    caddy,              \* whether Caddy runs
    denied,             \*   the surfaces that its public block answers 404
    stamped,            \*   the marker that its admin block sets
    expected,           \* the marker that the backend expects
    token               \* ADMIN_ENTRY_TOKEN in .env

exposureVars == <<ingress, target, caddy, denied, stamped, expected, token>>

Inside == {"caddy", "gateway", "cloudflared", "noc"}

ASSUME AddressesApart == (Visitor \cup Owner) \cap Inside = {}
Unset == "admin"        \* what both sides take for an empty token

\* The entry markers that anyone can put on a request, "none" being no header:
\* a tunnel passes the header on as it came. A token is none of them.
OpenMarker == {"none", "public", Unset}

ASSUME TokensAreSecret == Token \cap OpenMarker = {}

\* "admin_api" is /api/v1/admin and /api/v1/auth, "admin_page" is /admin.
Surface == {"internal", "admin_api", "admin_page", "api", "site"}
AdminSurface == {"admin_api", "admin_page"}
NonPublic == AdminSurface \cup {"internal"}

\* A request as the next hop sees it: the peer, the header X-Forwarded-For
\* (whether it is there, and its chain), the entry marker and the mark that
\* Tailscale puts on what comes through Funnel.
Request(surface, entry, peer, proxied, chain, funnel) ==
    [surface |-> surface, entry |-> entry, peer |-> peer, proxied |-> proxied,
     chain |-> chain, funnel |-> funnel]

-----------------------------------------------------------------------------
(* The backend.                                                            *)

TrustedProxies == {"caddy"}

\* The last address of the chain that is not a trusted proxy's.
LastUntrusted(chain) ==
    LET untrusted == {i \in DOMAIN chain : chain[i] \notin TrustedProxies}
    IN  IF untrusted = {} THEN chain[1]
        ELSE chain[CHOOSE i \in untrusted : \A j \in untrusted : j <= i]

\* client_ip, once ProxyHeadersMiddleware, the outermost, has been by.
ClientOf(r) ==
    IF r.proxied /\ r.peer \in TrustedProxies /\ r.chain # << >>
      THEN LastUntrusted(r.chain) ELSE r.peer

_is_private_peer(address) == address \in Inside

\* Mutant: what came through Funnel is refused outright.
RefusedIfFunnel(r) ==
    \/ r.funnel
    \/ r.surface = "internal" /\ (r.proxied \/ ~_is_private_peer(ClientOf(r)))
    \/ r.surface \in AdminSurface /\ r.proxied /\ r.entry # expected

\* ExposureGuardMiddleware: the funnel's mark first, then the rule of the path.
Refused(r) ==
    \/ r.surface \in NonPublic /\ r.funnel
    \/ r.surface = "internal" /\ (r.proxied \/ ~_is_private_peer(ClientOf(r)))
    \/ r.surface \in AdminSurface /\ r.proxied /\ r.entry # expected

Backend(r) == IF Refused(r) THEN "404" ELSE "served"

-----------------------------------------------------------------------------
(* Caddy.                                                                  *)

\* /api goes to the backend, anything else to the frontend's static files.
Forward(r) ==
    IF r.surface \in {"admin_api", "api"} THEN Backend(r) ELSE "page"

\* Mutant: the chain grows by a hop, as reverse_proxy has it by default.
Appended(r) ==
    [r EXCEPT !.peer = "caddy", !.entry = "public",
              !.proxied = TRUE, !.chain = Append(@, r.peer)]

\* Mutant: the entry is marked unless it carries a marker already.
MarkedIfAbsent(r) ==
    [r EXCEPT !.peer = "caddy", !.proxied = TRUE,
              !.entry = IF @ = "none" THEN "public" ELSE @]

\* The public block pins X-Forwarded-For to what came in, and marks the entry
\* over whatever marker it came with.
MarkedPublic(r) ==
    [r EXCEPT !.peer = "caddy", !.entry = "public", !.proxied = TRUE]

PublicBlock(r) ==
    IF r.surface \in denied THEN "404" ELSE Forward(MarkedPublic(r))

MarkedAdmin(r) ==
    [r EXCEPT !.peer = "caddy", !.entry = stamped,
              !.proxied = TRUE, !.chain = Append(@, r.peer)]

AdminBlock(r) ==
    IF r.surface = "internal" THEN "404" ELSE Forward(MarkedAdmin(r))

-----------------------------------------------------------------------------
(* Who asks.                                                               *)

\* A visitor's request where the tunnel ends: both kinds of tunnel report the
\* visitor's address and leave the entry header as it was sent, and Funnel
\* marks what it brings.
FromInternet(v, surface, entry) ==
    IF ingress = "funnel"
      THEN Request(surface, entry, "gateway", TRUE, <<v>>, TRUE)
      ELSE Request(surface, entry, "cloudflared", TRUE, <<v>>, FALSE)

AnswerToVisitor(v, surface, entry) ==
    LET r == FromInternet(v, surface, entry) IN
    CASE target = "backend" -> Backend(r)
      [] target = "caddy" /\ caddy -> PublicBlock(r)
      [] OTHER -> "down"

AnswerToOwner(o, surface, entry) ==
    IF caddy THEN AdminBlock(Request(surface, entry, o, FALSE, << >>, FALSE))
             ELSE "down"

\* noc/monitor.py asks the backend itself.
AnswerToNoc == Backend(Request("internal", "none", "noc", FALSE, << >>, FALSE))

-----------------------------------------------------------------------------
(* What the operator does.                                                 *)

ExposureInit ==
    /\ ingress \in {"funnel", "cloudflare"}
    /\ target = "caddy"
    /\ caddy = TRUE
    /\ denied = NonPublic
    /\ token \in Token \cup {Unset}
    /\ stamped = token
    /\ expected = token

\* The Caddyfile is edited, and reloaded: Caddy keeps its environment.
EditCaddyfile(surfaces) ==
    /\ denied' = surfaces
    /\ UNCHANGED <<ingress, target, caddy, stamped, expected, token>>

PointTunnel(i, t) ==
    /\ ingress' = i
    /\ target' = t
    /\ UNCHANGED <<caddy, denied, stamped, expected, token>>

ChangeToken(t) ==
    /\ token' = t
    /\ UNCHANGED <<ingress, target, caddy, denied, stamped, expected>>

StopCaddy ==
    /\ caddy
    /\ caddy' = FALSE
    /\ UNCHANGED <<ingress, target, denied, stamped, expected, token>>

\* Both sides read the same variable, each when its container is created.
StartCaddy ==
    /\ ~caddy
    /\ caddy' = TRUE
    /\ stamped' = token
    /\ UNCHANGED <<ingress, target, denied, expected, token>>

RestartBackend ==
    /\ expected' = token
    /\ UNCHANGED <<ingress, target, caddy, denied, stamped, token>>

ExposureNext ==
    \/ \E surfaces \in SUBSET NonPublic : EditCaddyfile(surfaces)
    \/ \E i \in {"funnel", "cloudflare"}, t \in {"caddy", "backend"} : PointTunnel(i, t)
    \/ \E t \in Token \cup {Unset} : ChangeToken(t)
    \/ StopCaddy \/ StartCaddy \/ RestartBackend

ExposureSpec == ExposureInit /\ [][ExposureNext]_exposureVars

-----------------------------------------------------------------------------
(* Properties.                                                             *)

\* The types of the configuration.
ExposureTypeOK ==
    /\ ingress \in {"funnel", "cloudflare"}
    /\ target \in {"caddy", "backend"}
    /\ caddy \in BOOLEAN
    /\ denied \subseteq NonPublic
    /\ {stamped, expected, token} \subseteq Token \cup {Unset}

\* Whatever has become of Caddy's rules, of Caddy and of the tunnel, and
\* whatever marker a visitor's request carries, the backend serves it no
\* internal surface, and an admin surface only where all of this comes
\* together: cloudflared's tunnel, which leaves no mark, ends at the backend,
\* the backend expects the default marker, and the request carries that.
\* (The pages of /admin are the frontend's, which has no second lock.)
PublicStaysOut ==
    \A v \in Visitor, s \in NonPublic, e \in OpenMarker :
        AnswerToVisitor(v, s, e) = "served" =>
            /\ ingress = "cloudflare" /\ target = "backend"
            /\ s \in AdminSurface
            /\ expected = Unset /\ e = Unset

\* The guard refuses nobody that it should serve: the NOC always reads the
\* metrics, the owner is refused by the admin API only while the two sides have
\* not read the same token, and then always, and a visitor is served the site
\* through Caddy, whatever rules are missing.
NobodyIsLockedOut ==
    /\ AnswerToNoc = "served"
    /\ caddy
         => \A o \in Owner, e \in OpenMarker :
               /\ AnswerToOwner(o, "admin_page", e) = "page"
               /\ AnswerToOwner(o, "admin_api", e) = "served"
                     <=> stamped = expected
    /\ caddy /\ target = "caddy"
         => \A v \in Visitor, e \in OpenMarker :
               /\ AnswerToVisitor(v, "api", e) = "served"
               /\ AnswerToVisitor(v, "site", e) = "page"

\* What comes to the backend through Caddy counts under the address of the one
\* who asks: visitors are told apart by analytics and by the login limiter.
CallersAreThemselves ==
    \A s \in Surface, e \in OpenMarker :
        /\ \A v \in Visitor : ClientOf(MarkedPublic(FromInternet(v, s, e))) = v
        /\ \A o \in Owner :
              ClientOf(MarkedAdmin(Request(s, e, o, FALSE, << >>, FALSE))) = o

=============================================================================
