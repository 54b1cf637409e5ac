--------------------------- MODULE DisplaySession ---------------------------
(***************************************************************************)
(* The dashboards of an Android viewer: the session cookie it obtains with *)
(* its native key (shared/display-session.ts), the check the proxy makes   *)
(* with that cookie, the page scope signed for the Node-RED manager        *)
(* (nodered-bridge.ts, manager.mjs) and the scoped socket of the tenant    *)
(* runtime (display-scope.cjs).                                            *)
(*                                                                         *)
(* One viewer row; its administrator may disable it, replace its key for   *)
(* new hardware, and assign other pages between any two awaits of a        *)
(* request.  The old hardware keeps its old key and cookies.  A key stands *)
(* for itself and its fingerprint, a page for its paths, a widget for the  *)
(* packets about it.  Signatures and encryption are assumed unforgeable.   *)
(***************************************************************************)
EXTENDS Naturals, FiniteSets

CONSTANTS
    DvPages,        \* dashboard pages of the tenant
    DvWidgets,      \* widgets on them
    Lifetime,       \* LIFETIME of the cookie, in ticks
    Lease,          \* life of a signed scope, in ticks
    MaxDvClock,     \* ticks in a behaviour
    MaxDvEdits      \* administrators' and editors' changes in a behaviour

ASSUME DvAssumption ==
    /\ Lifetime \in Nat /\ Lease \in Nat /\ Lease > 0
    /\ MaxDvClock \in Nat /\ MaxDvEdits \in Nat

VARIABLES
    vrow,       \* the kiosk row: enabled, key, and the pages its layouts show
    vtenant,    \* the tenant is active
    vflows,     \* widget -> page, as deployed
    jar,        \* each device's latest cookie: asker's key, key fingerprint, expiry
    asking,     \* POST display-session under way
    check,      \* GET _check under way, or the scope it obtained
    sock,       \* the dashboard socket of the viewer
    vclock,
    vedits,     \* ghost: changes so far
    keyOk,      \* ghost: key -> last tick at which it was the enabled viewer's
    pageOk      \* ghost: page -> last tick at which it was assigned

dvVars == <<vrow, vtenant, vflows, jar, asking, check, sock, vclock, vedits, keyOk, pageOk>>

\* A key is replaced at most once a change, so keys are numbered by changes.
Keys == 0..MaxDvEdits
Never == 0

NoAsk == [at |-> "none", asker |-> 0, key |-> 0]
NoCheck == [at |-> "none", asker |-> 0, key |-> 0, began |-> 0, pages |-> {},
            expires |-> 0, page |-> CHOOSE p \in DvPages : TRUE]
NoSock == [open |-> FALSE, key |-> 0, began |-> 0, pages |-> {}, expires |-> 0,
           base |-> {}, widgets |-> {}]

DvInit ==
    /\ vrow = [enabled |-> TRUE, key |-> 0, pages |-> DvPages]
    /\ vtenant = TRUE
    /\ vflows \in [DvWidgets -> DvPages]
    /\ jar = {}
    /\ asking = NoAsk
    /\ check = NoCheck
    /\ sock = NoSock
    /\ vclock = 1
    /\ vedits = 0
    /\ keyOk = [k \in Keys |-> IF k = 0 THEN 1 ELSE Never]
    /\ pageOk = [p \in DvPages |-> IF p \in vrow.pages THEN 1 ELSE Never]

\* The ghosts record every tick at which a key or a page is authorised.
Record(row, now) ==
    /\ keyOk' = [k \in Keys |-> IF row.enabled /\ row.key = k THEN now ELSE keyOk[k]]
    /\ pageOk' = [p \in DvPages |-> IF p \in row.pages THEN now ELSE pageOk[p]]

Tick ==
    /\ vclock < MaxDvClock
    /\ vclock' = vclock + 1
    /\ Record(vrow, vclock + 1)
    /\ UNCHANGED <<vrow, vtenant, vflows, jar, asking, check, sock, vedits>>

----------------------------------------------------------------------------
(* Changes by administrators and dashboard editors. *)
Edit(row) ==
    /\ vedits < MaxDvEdits
    /\ vedits' = vedits + 1
    /\ vrow' = row
    /\ Record(row, vclock)
    /\ UNCHANGED <<vtenant, vflows, jar, asking, check, sock, vclock>>

SetEnabled == Edit([vrow EXCEPT !.enabled = ~@])

(* replaceKioskKey: new hardware takes the row over. *)
replaceKioskKey == Edit([vrow EXCEPT !.key = vedits + 1])

(* What viewerAssignment computes changes: layouts, cells or entities were edited. *)
Reassign(ps) == ps # vrow.pages /\ Edit([vrow EXCEPT !.pages = ps])

DeactivateTenant ==
    /\ vedits < MaxDvEdits
    /\ vedits' = vedits + 1
    /\ vtenant' = ~vtenant
    /\ UNCHANGED <<vrow, vflows, jar, asking, check, sock, vclock, keyOk, pageOk>>

\* A redeploy moves a widget to another page.
Redeploy(w, p) ==
    /\ vedits < MaxDvEdits
    /\ vflows[w] # p
    /\ vedits' = vedits + 1
    /\ vflows' = [vflows EXCEPT ![w] = p]
    /\ UNCHANGED <<vrow, vtenant, jar, asking, check, sock, vclock, keyOk, pageOk>>

----------------------------------------------------------------------------
(* The middleware with a Bearer key: verifyKioskKey matches the key of the row, *)
DeviceAsks(k) ==
    /\ asking.at = "none"
    /\ vtenant
    /\ vrow.enabled /\ vrow.key = k
    /\ asking' = [at |-> "verified", asker |-> k, key |-> k]
    /\ UNCHANGED <<vrow, vtenant, vflows, jar, check, sock, vclock, vedits, keyOk, pageOk>>

\* ... and the row is read again afterwards, as the request's kioskProfile.
ReadProfile ==
    /\ asking.at = "verified"
    /\ asking' = IF vrow.enabled THEN [asking EXCEPT !.at = "profile", !.key = vrow.key] ELSE NoAsk
    /\ UNCHANGED <<vrow, vtenant, vflows, jar, check, sock, vclock, vedits, keyOk, pageOk>>

(* POST /api/kiosk/display-session: the cookie names the profile's key. *)
IssueCookie ==
    /\ asking.at = "profile"
    /\ jar' = {c \in jar : c.asker # asking.asker}
                 \cup {[asker |-> asking.asker, key |-> asking.key,
                        expires |-> vclock + Lifetime]}
    /\ asking' = NoAsk
    /\ UNCHANGED <<vrow, vtenant, vflows, check, sock, vclock, vedits, keyOk, pageOk>>

(* GET /api/kiosk/_check with the cookie: its expiry and its tenant, *)
CookieAlive(c) == c.expires > vclock

CheckBegins(c, p) ==
    /\ check.at = "none"
    /\ CookieAlive(c)
    /\ vtenant
    /\ check' = [NoCheck EXCEPT !.at = "kiosk", !.asker = c.asker, !.key = c.key, !.page = p,
                                !.began = vclock]
    /\ UNCHANGED <<vrow, vtenant, vflows, jar, asking, sock, vclock, vedits, keyOk, pageOk>>

IgnoresKey(key) == vrow.enabled

(* ... the row: enabled, and still the key the cookie names, *)
KioskMatches(key) == vrow.enabled /\ vrow.key = key

CheckKiosk ==
    /\ check.at = "kiosk"
    /\ check' = IF KioskMatches(check.key) THEN [check EXCEPT !.at = "pages"] ELSE NoCheck
    /\ UNCHANGED <<vrow, vtenant, vflows, jar, asking, sock, vclock, vedits, keyOk, pageOk>>

(* ... its dashboard assignment, *)
viewerAssignment == vrow.pages

CheckPages ==
    /\ check.at = "pages"
    /\ check' = [check EXCEPT !.at = "sign", !.pages = viewerAssignment]
    /\ UNCHANGED <<vrow, vtenant, vflows, jar, asking, sock, vclock, vedits, keyOk, pageOk>>

(* displayDashboardRequestAllowed: the requested path belongs to an assigned page. *)
displayDashboardRequestAllowed == check.page \in check.pages

(* ... and signDisplayScope for all the pages assigned. *)
signDisplayScope ==
    /\ check.at = "sign"
    /\ check' = IF displayDashboardRequestAllowed
                THEN [check EXCEPT !.at = "scope", !.expires = vclock + Lease]
                ELSE NoCheck
    /\ UNCHANGED <<vrow, vtenant, vflows, jar, asking, sock, vclock, vedits, keyOk, pageOk>>

----------------------------------------------------------------------------
(* The manager validates the scope (displayScope) and the runtime opens the socket *)
(* with it (scopeSocket).                                                          *)
ScopeValid(expires) == expires > vclock /\ expires <= vclock + Lease

scopeSocket ==
    /\ check.at = "scope"
    /\ check' = NoCheck
    /\ sock' = IF ScopeValid(check.expires)
               THEN [NoSock EXCEPT !.open = TRUE, !.key = check.key, !.began = check.began,
                                   !.pages = check.pages,
                                   !.expires = check.expires]
               ELSE sock
    /\ UNCHANGED <<vrow, vtenant, vflows, jar, asking, vclock, vedits, keyOk, pageOk>>

(* expired(), evaluated for every packet *)
expired == vclock >= sock.expires

\* The lease's timer, however late it fires, and a client that goes away.
SocketCloses ==
    /\ sock.open
    /\ sock' = NoSock
    /\ UNCHANGED <<vrow, vtenant, vflows, jar, asking, check, vclock, vedits, keyOk, pageOk>>

(* filter of a ui-config packet: the widgets on the pages of the scope *)
AllowedWidgets == {w \in DvWidgets : vflows[w] \in sock.pages}

(* filter: a packet after the lease closes the transport. *)
ConfigPacket ==
    /\ sock.open
    /\ sock' = IF expired THEN NoSock
               ELSE [sock EXCEPT !.widgets = AllowedWidgets,
                                 !.base = {<<w, vflows[w]>> : w \in DvWidgets}]
    /\ UNCHANGED <<vrow, vtenant, vflows, jar, asking, check, vclock, vedits, keyOk, pageOk>>

(* A packet about a widget, sent, broadcast or received, gets through when its  *)
(* widget is allowed; after the lease it closes the transport instead.          *)
Passes(w) == sock.open /\ ~expired /\ w \in sock.widgets

WidgetPacket ==
    /\ sock.open
    /\ expired
    /\ sock' = NoSock
    /\ UNCHANGED <<vrow, vtenant, vflows, jar, asking, check, vclock, vedits, keyOk, pageOk>>

----------------------------------------------------------------------------
DvNext ==
    \/ Tick
    \/ SetEnabled \/ replaceKioskKey \/ DeactivateTenant
    \/ \E ps \in SUBSET DvPages : Reassign(ps)
    \/ \E w \in DvWidgets, p \in DvPages : Redeploy(w, p)
    \/ \E k \in Keys : DeviceAsks(k)
    \/ ReadProfile \/ IssueCookie
    \/ \E c \in jar, p \in DvPages : CheckBegins(c, p)
    \/ CheckKiosk \/ CheckPages \/ signDisplayScope \/ scopeSocket
    \/ SocketCloses \/ ConfigPacket \/ WidgetPacket

DvSpec == DvInit /\ [][DvNext]_dvVars

----------------------------------------------------------------------------
(* Properties. *)

(* Every packet that can reach the viewer is about a page that was assigned to *)
(* it, under the key its cookie names and while it was enabled, no earlier   *)
(* than the check behind its lease; and the lease has not run out.  So an    *)
(* unassigned page, a disabled viewer or a replaced key stops a running      *)
(* socket within one lease (deploy/README.md:174-177).                       *)
StaleByOneLease ==
    \A m \in sock.base : Passes(m[1]) =>
        /\ vclock < sock.expires
        /\ keyOk[sock.key] >= sock.began
        /\ pageOk[m[2]] >= sock.began

=============================================================================
