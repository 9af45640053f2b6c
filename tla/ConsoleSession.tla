--------------------------- MODULE ConsoleSession ---------------------------
(* Signing in to the web console and out again.  The operator's token lives *)
(* in an encrypted cookie that all windows of a browser share, next to the   *)
(* permissions the operator had when it was issued; the admin API keeps the  *)
(* sessions and reads the role afresh for every call.  Two windows use the   *)
(* cookie while sessions expire and the operator's role is changed.          *)
EXTENDS Naturals, FiniteSets

CONSTANTS
    Window,
    Token,
    OperatorRoles,  \* the rights the operator may be given: [perms, scope]
    NoCookie,
    MaxChanges      \* changes of role

ASSUME SessionAssumption == MaxChanges \in Nat

VARIABLES
    cookie,         \* the browser's session cookie
    sessions,       \* tokens of unexpired rows of the sessions table
    issued,         \* tokens handed out
    rights,         \* what the operator's role grants now
    win,            \* per window: the screen, the request under way
    changes

sessionVars == <<cookie, sessions, issued, rights, win, changes>>

Pages == {"providers", "apikeys", "usage"}

(* A window: what it shows and from which cookie its navigation was drawn,   *)
(* the request it waits for, and the cookie that went with it.               *)
Showing(screen, nav) == [screen |-> screen, nav |-> nav, wait |-> "no", target |-> "none", sent |-> NoCookie]
Closed == Showing("closed", NoCookie)
LoginScreen == Showing("login", NoCookie)
CookieFor(k) == [token |-> k, perms |-> rights.perms, scope |-> rights.scope]
Waiting(w, for, target, c) ==
    [screen |-> win[w].screen, nav |-> win[w].nav, wait |-> for, target |-> target, sent |-> c]

----------------------------------------------------------------------------
(* Rights.                                                                   *)

has(c, perm) == "*" \in c.perms \/ perm \in c.perms
NAV_PERMS(p) ==
    CASE p = "providers" -> "provider.read" [] p = "apikeys" -> "api_key.read" [] p = "usage" -> "usage.read"

\* Mutant: the links are gated by permission alone.
NavLinksByPermission(c) == {p \in Pages : has(c, NAV_PERMS(p))}

(* Global pages for a global scope, tenant pages for a tenant scope.         *)
NavLinks(c) ==
    {p \in Pages : /\ has(c, NAV_PERMS(p))
                   /\ p = "providers" => c.scope = "global"
                   /\ p = "apikeys" => c.scope = "tenant"}

(* The first page after login.                                               *)
Landing(c) ==
    IF has(c, "provider.read") THEN "providers"
    ELSE IF "api_key.read" \in c.perms THEN "apikeys"
    ELSE IF "usage.read" \in c.perms THEN "usage" ELSE "providers"

(* requireSuperAdmin, requireTenantAdmin with requirePermission, and no gate *)
(* beyond authentication.                                                    *)
Granted(p, r) ==
    CASE p = "providers" -> "*" \in r.perms
      [] p = "apikeys" -> r.scope = "tenant" /\ "api_key.read" \in r.perms
      [] p = "usage" -> TRUE

(* The HTTP status of an admin call for page p made with a cookie.           *)
StatusOf(p, sent) ==
    IF sent = NoCookie THEN 401 ELSE IF sent.token \notin sessions THEN 401
    ELSE IF Granted(p, rights) THEN 200 ELSE 403

----------------------------------------------------------------------------
SessionInit ==
    /\ cookie = NoCookie /\ sessions = {} /\ issued = {}
    /\ rights \in OperatorRoles
    /\ win = [w \in Window |-> LoginScreen]
    /\ changes = 0

(* loginAction: POST /auth/login creates a session ...                       *)
LoginAction(w) ==
    /\ win[w].screen = "login" /\ win[w].wait = "no"
    /\ issued # Token
    /\ LET k == CHOOSE k \in Token : k \notin issued IN
          /\ issued' = issued \cup {k} /\ sessions' = sessions \cup {k}
          /\ win' = [win EXCEPT ![w] = Waiting(w, "me", "none", CookieFor(k))]
    /\ UNCHANGED <<cookie, rights, changes>>

(* ... and GET /api/v1/me, made with its token, tells who it is for; only    *)
(* then is the cookie set.  A failed call leaves a session nobody knows.     *)
IdentityArrives(w) ==
    /\ win[w].wait = "me"
    /\ \/ /\ win[w].sent.token \in sessions
          /\ cookie' = CookieFor(win[w].sent.token)
          /\ win' = [win EXCEPT ![w] = Waiting(w, "load", Landing(rights), cookie')]
       \/ /\ win' = [win EXCEPT ![w] = LoginScreen]
          /\ UNCHANGED cookie
    /\ UNCHANGED <<sessions, issued, rights, changes>>

----------------------------------------------------------------------------
(* A page is asked for by a link of the navigation or by its address.  The   *)
(* layout sends a request without a cookie to the login page.                *)
OpenPage(w) ==
    /\ win[w].screen # "closed" /\ win[w].wait = "no"
    /\ \E p \in Pages :
          win' = [win EXCEPT ![w] = IF cookie = NoCookie THEN LoginScreen ELSE Waiting(w, "load", p, cookie)]
    /\ UNCHANGED <<cookie, sessions, issued, rights, changes>>

\* Mutant: a refused page is treated like an expired session.
handleAdminErrorBoth(status) == status \in {401, 403}

(* A 401 while a page renders leads to /logout; a 403 is a notice.           *)
handleAdminError(status) == status = 401

RenderPage(w) ==
    /\ win[w].wait = "load"
    /\ LET p == win[w].target c == win[w].sent s == StatusOf(p, c) IN
       win' = [win EXCEPT ![w] =
                 CASE handleAdminError(s) -> Waiting(w, "logout", p, c)
                   [] s = 200 -> Showing(p, c)
                   [] OTHER -> [Showing("forbidden", c) EXCEPT !.target = p]]
    /\ UNCHANGED <<cookie, sessions, issued, rights, changes>>

(* GET /logout clears whatever cookie the browser has by then.               *)
LogoutRoute(w) ==
    /\ win[w].wait = "logout"
    /\ cookie' = NoCookie
    /\ win' = [win EXCEPT ![w] = LoginScreen]
    /\ UNCHANGED <<sessions, issued, rights, changes>>

----------------------------------------------------------------------------
(* A Server Action of the page.  The actions that unwrap their answer clear  *)
(* the cookie on a 401; the others show it like any other error.             *)
StartAction(w) ==
    /\ win[w].screen \in Pages \ {"usage"} /\ win[w].wait = "no"
    /\ win' = [win EXCEPT ![w] = Waiting(w, "action", win[w].screen, cookie)]
    /\ UNCHANGED <<cookie, sessions, issued, rights, changes>>

toFormError(p, status) == p = "apikeys" /\ status = 401

EndAction(w) ==
    /\ win[w].wait = "action"
    /\ LET p == win[w].target s == StatusOf(p, win[w].sent) IN
       /\ cookie' = IF toFormError(p, s) THEN NoCookie ELSE cookie
       /\ win' = [win EXCEPT ![w] = IF toFormError(p, s) THEN LoginScreen ELSE Showing(p, win[w].nav)]
    /\ UNCHANGED <<sessions, issued, rights, changes>>

(* logoutAction clears the cookie; the session stays until it expires.       *)
LogoutAction(w) ==
    /\ win[w].screen \in Pages \cup {"forbidden"} /\ win[w].wait = "no"
    /\ cookie' = NoCookie
    /\ win' = [win EXCEPT ![w] = LoginScreen]
    /\ UNCHANGED <<sessions, issued, rights, changes>>

----------------------------------------------------------------------------
(* Sessions end by their TTL or with the operator; an administrator changes  *)
(* the role's permissions.                                                   *)
Expire ==
    /\ \E k \in sessions : sessions' = sessions \ {k}
    /\ UNCHANGED <<cookie, issued, rights, win, changes>>

ChangeRole ==
    /\ issued # {} /\ changes < MaxChanges /\ changes' = changes + 1
    /\ rights' \in {r \in OperatorRoles \ {rights} : r.scope = rights.scope}
    /\ UNCHANGED <<cookie, sessions, issued, win>>

SessionNext ==
    \/ \E w \in Window :
          \/ LoginAction(w) \/ IdentityArrives(w) \/ OpenPage(w) \/ RenderPage(w)
          \/ LogoutRoute(w) \/ StartAction(w) \/ EndAction(w) \/ LogoutAction(w)
    \/ Expire \/ ChangeRole

SessionSpec == SessionInit /\ [][SessionNext]_sessionVars

----------------------------------------------------------------------------
(* Properties.                                                               *)

(* A cookie whose session is alive is dropped only by signing out, or by a   *)
(* request that was sent with a session dead by then; a refused page never   *)
(* signs anybody out.                                                        *)
LiveCookieKept ==
    [][cookie # NoCookie /\ cookie' # cookie /\ cookie.token \in sessions =>
         \E w \in Window :
            \/ LogoutAction(w)
            \/ win[w].wait = "me"
            \/ win[w].wait \in {"logout", "action"} /\ (win[w].sent = NoCookie \/ win[w].sent.token \notin sessions)]_sessionVars

(* A link drawn for a super-admin or a tenant-admin whose rights have not    *)
(* changed since opens its page.                                             *)
BuiltIn(c) ==
    (c.perms = {"*"} /\ c.scope = "global") \/ c.perms = {"api_key.read", "usage.read"}
NavLinksOpen ==
    \A w \in Window :
        LET c == win[w].nav IN
        win[w].screen = "forbidden" /\ win[w].wait = "no" /\ c.perms = rights.perms /\ BuiltIn(c) /\ changes = 0
        => win[w].target \notin NavLinks(c)
=============================================================================
