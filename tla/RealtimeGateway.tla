--------------------------- MODULE RealtimeGateway ---------------------------
(***************************************************************************)
(* The websocket gateway (realtime/server.mjs) with the live verifier it   *)
(* asks (lib/ws-session.ts, POST /api/internal/ws-session) and the alert   *)
(* the application publishes (lib/realtime.ts).                            *)
(*                                                                         *)
(* The gateway is one event loop: each action is what runs between two     *)
(* awaits.  Between them the clock moves, the account behind the cookie is *)
(* suspended, demoted or moved to another organization, the verifier reads *)
(* the database and its answer arrives late, or never does.  Public topics *)
(* go to every open socket and change nothing; what is modelled is who     *)
(* receives a restricted topic.                                            *)
(***************************************************************************)
EXTENDS Integers

CONSTANTS
    Sockets,
    Orgs,               \* organizations an alert can be about
    RevalidateTicks,    \* REVALIDATE_INTERVAL_MS
    SessionEnds,        \* exp of the session cookie
    MaxClock,           \* bound: last instant looked at
    MaxAccountChanges   \* bound: changes an administrator makes to the account

ASSUME GatewayBounds ==
    /\ RevalidateTicks \in Nat \ {0} /\ SessionEnds \in Nat
    /\ MaxClock \in Nat /\ MaxAccountChanges \in Nat

VARIABLES
    clock,
    viewer,         \* the User row behind the cookie
    viewerChanges,  \* changes made to it (bound)
    sock,           \* per socket: connection state, meta, and its verifier request
    alert,          \* the restricted broadcast under way
    alerted,        \* sockets written to by the broadcast that just ended
    entitledAt,     \* per organization: last earlier instant its alerts were the account's to see
    stopping        \* shuttingDown

gatewayVars == <<clock, viewer, viewerChanges, sock, alert, alerted, entitledAt, stopping>>

AdminRoles == {"ADMIN", "SUPERADMIN"}
Never == -MaxClock - RevalidateTicks

-----------------------------------------------------------------------------
(* The verifier                                                             *)

\* resolveWsSessionIdentity: unexpired, ACTIVE, and the token's version (0) current.
SessionCurrent == clock < SessionEnds /\ viewer.active /\ viewer.tokenVersion = 0

\* What the verifier answers if it reads the database now: role and
\* organization come from the row, never from the token.
resolveWsSessionIdentity ==
    IF SessionCurrent
    THEN [status |-> "valid", role |-> viewer.role, org |-> viewer.org]
    ELSE [status |-> "revoked", role |-> "USER", org |-> viewer.org]

Unanswered == [status |-> "unavailable", role |-> "USER", org |-> viewer.org]

\* What the account may see now: an ADMIN its own organization, a SUPERADMIN all.
EntitledTo(o) ==
    SessionCurrent /\ (viewer.role = "SUPERADMIN" \/ (viewer.role = "ADMIN" /\ viewer.org = o))
Entitled == [o \in Orgs |-> IF EntitledTo(o) THEN clock ELSE entitledAt[o]]

-----------------------------------------------------------------------------
(* Sockets                                                                  *)

\* Fresh metadata for every socket.
FreshMeta ==
    [state |-> "new", cookie |-> FALSE, token |-> FALSE, verified |-> FALSE,
     identified |-> FALSE, role |-> "USER", org |-> viewer.org,
     validatedAt |-> 0, revalidateAt |-> 0, timer |-> FALSE,
     request |-> "none", startedAt |-> 0, answer |-> Unanswered]

Open(s) == sock[s].state = "open"
isStale(m) == clock - m.validatedAt >= RevalidateTicks

\* Mutant: the age of an identity counts from when the answer arrived.
AgedFromAnswer(m) ==
    LET privileged == m.answer.role \in AdminRoles
    IN [m EXCEPT !.role = m.answer.role, !.org = m.answer.org, !.identified = TRUE,
                 !.verified = TRUE, !.validatedAt = clock, !.token = @ /\ privileged,
                 !.timer = m.token /\ privileged, !.revalidateAt = clock + RevalidateTicks]

\* applyIdentity, with the age measured from the start of the request; only
\* privileged sockets keep the cookie and are revalidated.
applyIdentity(m) ==
    LET privileged == m.answer.role \in AdminRoles
    IN [m EXCEPT !.role = m.answer.role, !.org = m.answer.org, !.identified = TRUE,
                 !.verified = TRUE, !.validatedAt = m.startedAt, !.token = @ /\ privileged,
                 !.timer = m.token /\ privileged, !.revalidateAt = m.startedAt + RevalidateTicks]

\* forget: no cookie, no timers, no longer a client.
forget(m) == [m EXCEPT !.state = "closed", !.token = FALSE, !.timer = FALSE]

\* The identity an answer leaves: an answer already past its expiry is a revocation.
Settled(m) ==
    CASE m.answer.status = "valid" /\ clock < SessionEnds -> applyIdentity(m)
      [] m.answer.status = "unavailable" ->
             [m EXCEPT !.verified = FALSE, !.timer = TRUE, !.revalidateAt = clock + RevalidateTicks]
      [] OTHER -> forget(m)

\* The upgrade's own answer: an outage keeps the cookie and retries, a
\* revoked or missing session leaves an anonymous socket.
Upgraded(m) ==
    CASE m.answer.status = "valid" /\ clock < SessionEnds ->
             applyIdentity([m EXCEPT !.state = "open", !.token = TRUE])
      [] m.answer.status = "unavailable" ->
             [m EXCEPT !.state = "open", !.token = TRUE, !.timer = TRUE,
                       !.revalidateAt = clock + RevalidateTicks]
      [] OTHER -> [m EXCEPT !.state = "open"]

Asking(m) == [m EXCEPT !.request = "asked", !.startedAt = clock]

-----------------------------------------------------------------------------
\* handleUpgrade up to its await: with a cookie the verifier is asked first.
Connects(s, cookie) ==
    /\ sock[s].state = "new" /\ ~stopping
    /\ sock' = [sock EXCEPT ![s] =
           IF cookie THEN Asking([FreshMeta EXCEPT !.state = "upgrading", !.cookie = TRUE])
           ELSE [FreshMeta EXCEPT !.state = "open"]]
    /\ UNCHANGED <<clock, viewer, viewerChanges, alert, alerted, entitledAt, stopping>>

\* The verifier reads the account.
VerifierReads(s) ==
    /\ sock[s].request = "asked"
    /\ sock' = [sock EXCEPT ![s].request = "read", ![s].answer = resolveWsSessionIdentity]
    /\ UNCHANGED <<clock, viewer, viewerChanges, alert, alerted, entitledAt, stopping>>

\* The request times out, the verifier is down or its answer is unusable.
VerifierFails(s) ==
    /\ sock[s].request \in {"asked", "read"}
    /\ sock' = [sock EXCEPT ![s].request = "answered", ![s].answer = Unanswered]
    /\ UNCHANGED <<clock, viewer, viewerChanges, alert, alerted, entitledAt, stopping>>

VerifierAnswers(s) ==
    /\ sock[s].request = "read"
    /\ sock' = [sock EXCEPT ![s].request = "answered"]
    /\ UNCHANGED <<clock, viewer, viewerChanges, alert, alerted, entitledAt, stopping>>

\* The continuation after verify(): a socket closed meanwhile is left alone.
Continues(s) ==
    /\ sock[s].request = "answered"
    /\ sock' = [sock EXCEPT ![s] =
           LET m == [sock[s] EXCEPT !.request = "none"]
           IN IF m.state = "upgrading" THEN Upgraded(m)
              ELSE IF m.state = "open" /\ ~stopping THEN Settled(m) ELSE m]
    /\ alert' = [alert EXCEPT !.waiting = @ \ {s}]
    /\ UNCHANGED <<clock, viewer, viewerChanges, alerted, entitledAt, stopping>>

\* scheduleRevalidation's timer: 30 s after the last request started.
RevalidateTimer(s) ==
    /\ Open(s) /\ sock[s].timer /\ clock >= sock[s].revalidateAt
    /\ sock[s].token /\ sock[s].request = "none" /\ ~stopping
    /\ sock' = [sock EXCEPT ![s] = Asking([@ EXCEPT !.timer = FALSE])]
    /\ UNCHANGED <<clock, viewer, viewerChanges, alert, alerted, entitledAt, stopping>>

\* scheduleExpiry's timer: the socket is closed once its session ended.
ExpiryTimer(s) ==
    /\ Open(s) /\ sock[s].identified /\ clock >= SessionEnds
    /\ sock' = [sock EXCEPT ![s] = forget(@)]
    /\ UNCHANGED <<clock, viewer, viewerChanges, alert, alerted, entitledAt, stopping>>

\* The peer closes, or the connection fails.
Disconnects(s) ==
    /\ sock[s].state \in {"upgrading", "open"}
    /\ sock' = [sock EXCEPT ![s] = forget(@)]
    /\ UNCHANGED <<clock, viewer, viewerChanges, alert, alerted, entitledAt, stopping>>

-----------------------------------------------------------------------------
(* broadcast of a restricted topic                                          *)

NoAlert == [pc |-> "idle", org |-> CHOOSE o \in Orgs : TRUE, waiting |-> {}]

\* publishRealtime and parsePublishedEvent: a security-alert names its
\* organization; stale or unverified identities are refreshed first.
PublishAlert(o) ==
    /\ alert.pc = "idle" /\ ~stopping
    /\ LET refresh == {s \in Sockets : Open(s) /\ sock[s].token
                                          /\ (~sock[s].verified \/ isStale(sock[s]))}
       IN /\ alert' = [pc |-> "refreshing", org |-> o, waiting |-> refresh]
          /\ sock' = [s \in Sockets |->
                 IF s \in refresh /\ sock[s].request = "none" THEN Asking(sock[s]) ELSE sock[s]]
    /\ alerted' = {}
    /\ UNCHANGED <<clock, viewer, viewerChanges, entitledAt, stopping>>

mayReceiveRestricted(s, o) ==
    /\ Open(s) /\ sock[s].verified /\ sock[s].identified
    /\ sock[s].role \in AdminRoles
    /\ clock < SessionEnds /\ ~isStale(sock[s])
    /\ sock[s].role = "SUPERADMIN" \/ sock[s].org = o

\* After every refresh settled, to whoever may receive it now.
DeliverAlert ==
    /\ alert.pc = "refreshing" /\ alert.waiting = {}
    /\ alerted' = {s \in Sockets : mayReceiveRestricted(s, alert.org)}
    /\ alert' = [alert EXCEPT !.pc = "idle"]
    /\ UNCHANGED <<clock, viewer, viewerChanges, sock, entitledAt, stopping>>

\* close(): every timer, cookie and socket goes, requests are aborted.
ShutsDown ==
    /\ ~stopping
    /\ stopping' = TRUE
    /\ sock' = [s \in Sockets |->
           [forget(sock[s]) EXCEPT !.request = IF @ = "none" THEN @ ELSE "answered",
                                   !.answer = Unanswered]]
    /\ UNCHANGED <<clock, viewer, viewerChanges, alert, alerted, entitledAt>>

-----------------------------------------------------------------------------
(* The world around the gateway                                             *)

ClockTicks ==
    /\ clock < MaxClock
    /\ clock' = clock + 1
    /\ entitledAt' = Entitled /\ alerted' = {}
    /\ UNCHANGED <<viewer, viewerChanges, sock, alert, stopping>>

\* Suspension, a tokenVersion bump (logout everywhere, new password), a role
\* change or a move to another organization.
AccountChanges ==
    /\ viewerChanges < MaxAccountChanges
    /\ \/ viewer' = [viewer EXCEPT !.active = ~@]
       \/ viewer.tokenVersion = 0 /\ viewer' = [viewer EXCEPT !.tokenVersion = 1]
       \/ \E r \in {"USER", "ADMIN", "SUPERADMIN"} \ {viewer.role} :
              viewer' = [viewer EXCEPT !.role = r]
       \/ \E o \in Orgs \ {viewer.org} : viewer' = [viewer EXCEPT !.org = o]
    /\ viewerChanges' = viewerChanges + 1
    /\ entitledAt' = Entitled /\ alerted' = {}
    /\ UNCHANGED <<clock, sock, alert, stopping>>

GatewayInit ==
    /\ clock = 0 /\ viewerChanges = 0 /\ stopping = FALSE
    /\ viewer \in [active : {TRUE}, tokenVersion : {0}, role : {"ADMIN", "SUPERADMIN"}, org : Orgs]
    /\ sock = [s \in Sockets |-> FreshMeta]
    /\ alert = NoAlert /\ alerted = {}
    /\ entitledAt = [o \in Orgs |-> Never]

GatewayNext ==
    \/ \E s \in Sockets :
           \/ \E cookie \in BOOLEAN : Connects(s, cookie)
           \/ VerifierReads(s) \/ VerifierFails(s) \/ VerifierAnswers(s) \/ Continues(s)
           \/ RevalidateTimer(s) \/ ExpiryTimer(s) \/ Disconnects(s)
    \/ \E o \in Orgs : PublishAlert(o)
    \/ DeliverAlert \/ ShutsDown \/ ClockTicks \/ AccountChanges

GatewaySpec == GatewayInit /\ [][GatewayNext]_gatewayVars

-----------------------------------------------------------------------------
\* A restricted alert is written only to a socket whose account really was
\* entitled to that organization's alerts less than 30 s before: a suspension,
\* a demotion, a move or a new token version takes effect within the interval
\* however slowly the verifier answers and however broadcasts, timers and
\* answers interleave (server.mjs:9, 254-258, 301-308).
AlertsToTheEntitled ==
    alerted # {} => clock - Entitled[alert.org] < RevalidateTicks
=============================================================================
