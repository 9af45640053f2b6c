---------------------------- MODULE ConsoleProofs ----------------------------
(* Proofs about the web console: the session that the windows of a browser   *)
(* share (ConsoleSession), and the pages, Server Actions and admin handlers  *)
(* over one database (Console).                                              *)
EXTENDS Console, ConsoleSession, SequenceTheorems, FiniteSetTheorems, TLAPS

----------------------------------------------------------------------------
(* The session.  Cookies carry an issued token and the rights of some role.  *)

Cookie ==
    [token : Token, perms : {r.perms : r \in OperatorRoles}, scope : {r.scope : r \in OperatorRoles}]

SessionTypeOK ==
    /\ changes \in Nat /\ rights \in OperatorRoles
    /\ issued \subseteq Token /\ sessions \subseteq issued
    /\ cookie \in Cookie \cup {NoCookie}
    /\ win \in [Window -> [screen : Pages \cup {"closed", "login", "forbidden"},
                           nav : Cookie \cup {NoCookie},
                           wait : {"no", "me", "load", "logout", "action"},
                           target : Pages \cup {"none"},
                           sent : Cookie \cup {NoCookie}]]

(* Nobody holds a token that was not handed out.                             *)
TokensIssued ==
    /\ cookie # NoCookie => cookie.token \in issued
    /\ \A w \in Window : win[w].sent # NoCookie => win[w].sent.token \in issued

(* Which request a window waits for: one for a page has a page, and one that *)
(* leads to /logout was refused for its session.                             *)
RequestsSound ==
    \A w \in Window :
        /\ win[w].wait \in {"load", "logout", "action"} => win[w].target \in Pages
        /\ win[w].wait = "logout" => win[w].sent = NoCookie \/ win[w].sent.token \notin sessions

(* Until a role is changed, all copies of the operator's rights agree with   *)
(* it, and a page found forbidden is one the role does not grant.            *)
Agrees(c) == c # NoCookie => c.perms = rights.perms /\ c.scope = rights.scope
CopiesAgree ==
    changes = 0 =>
        /\ Agrees(cookie)
        /\ \A w \in Window :
              /\ Agrees(win[w].sent) /\ Agrees(win[w].nav)
              /\ win[w].screen = "forbidden" /\ win[w].wait = "no" =>
                    /\ win[w].nav # NoCookie
                    /\ win[w].target \in Pages /\ ~Granted(win[w].target, rights)

SessionInv == SessionTypeOK /\ TokensIssued /\ RequestsSound /\ CopiesAgree

LEMMA SessionStarts == SessionInit => SessionInv
  BY DEF SessionInit, SessionInv, SessionTypeOK, TokensIssued, RequestsSound, CopiesAgree, Agrees,
         LoginScreen, Showing, Pages

(* A step that moves one window, hands out tokens and sets the cookie keeps  *)
(* the invariant when what it puts in place is sound.                        *)
WindowState ==
    [screen : Pages \cup {"closed", "login", "forbidden"}, nav : Cookie \cup {NoCookie},
     wait : {"no", "me", "load", "logout", "action"}, target : Pages \cup {"none"},
     sent : Cookie \cup {NoCookie}]

WindowSound(x) ==
    /\ x \in WindowState
    /\ x.sent # NoCookie => x.sent.token \in issued'
    /\ x.wait \in {"load", "logout", "action"} => x.target \in Pages
    /\ x.wait = "logout" => x.sent = NoCookie \/ x.sent.token \notin sessions'
    /\ changes = 0 => /\ Agrees(x.sent) /\ Agrees(x.nav)
                      /\ x.screen = "forbidden" /\ x.wait = "no" =>
                            /\ x.nav # NoCookie
                            /\ x.target \in Pages /\ ~Granted(x.target, rights)

LEMMA WindowStep ==
  ASSUME SessionInv, NEW w \in Window, NEW x, WindowSound(x), win' = [win EXCEPT ![w] = x],
         rights' = rights, changes' = changes,
         issued \subseteq issued', issued' \subseteq Token, sessions' \subseteq issued',
         sessions' \cap issued \subseteq sessions,
         cookie' \in Cookie \cup {NoCookie}, cookie' # NoCookie => cookie'.token \in issued',
         changes = 0 => Agrees(cookie')
  PROVE  SessionInv'
<1>1. /\ win' \in [Window -> WindowState]
      /\ \A v \in Window : win'[v] = IF v = w THEN x ELSE win[v]
      /\ \A v \in Window : win[v] \in WindowState
  BY DEF SessionInv, SessionTypeOK, WindowSound, WindowState
<1>2. SessionTypeOK'
  BY <1>1 DEF SessionInv, SessionTypeOK, WindowState
<1>3. TokensIssued'
  BY <1>1 DEF SessionInv, TokensIssued, WindowSound
<1>4. RequestsSound'
  <2> SUFFICES ASSUME NEW v \in Window
               PROVE  /\ win'[v].wait \in {"load", "logout", "action"} => win'[v].target \in Pages
                      /\ win'[v].wait = "logout" =>
                            win'[v].sent = NoCookie \/ win'[v].sent.token \notin sessions'
    BY DEF RequestsSound
  <2> QED BY <1>1 DEF SessionInv, RequestsSound, TokensIssued, WindowSound
<1>5. CopiesAgree'
  <2> SUFFICES ASSUME changes = 0, NEW v \in Window
               PROVE  /\ Agrees(cookie)'
                      /\ Agrees(win[v].sent)' /\ Agrees(win[v].nav)'
                      /\ win'[v].screen = "forbidden" /\ win'[v].wait = "no" =>
                            /\ win'[v].nav # NoCookie
                            /\ win'[v].target \in Pages /\ ~Granted(win'[v].target, rights')
    BY DEF CopiesAgree, Agrees
  <2>1. Agrees(cookie)'
    BY DEF Agrees
  <2>2. CASE v = w
    BY <1>1, <2>1, <2>2 DEF WindowSound, Agrees
  <2>3. CASE v # w
    <3>1. win'[v] = win[v]
      BY <1>1, <2>3
    <3> QED BY <2>1, <3>1 DEF SessionInv, CopiesAgree, Agrees
  <2> QED BY <2>2, <2>3
<1> QED BY <1>2, <1>3, <1>4, <1>5 DEF SessionInv

LEMMA LoginKeeps ==
  ASSUME SessionInv, NEW w \in Window, LoginAction(w)  PROVE SessionInv'
<1> DEFINE k == CHOOSE x \in Token : x \notin issued
<1>1. k \in Token /\ k \notin issued
  BY DEF LoginAction, SessionInv, SessionTypeOK
<1> HIDE DEF k
<1>2. /\ issued' = issued \cup {k} /\ sessions' = sessions \cup {k}
      /\ win' = [win EXCEPT ![w] = Waiting(w, "me", "none", CookieFor(k))]
      /\ UNCHANGED <<cookie, rights, changes>>
      /\ win[w].screen = "login"
  BY DEF LoginAction, k
<1>3. CookieFor(k) \in Cookie /\ CookieFor(k).token = k /\ Agrees(CookieFor(k))
  BY <1>1 DEF CookieFor, Cookie, SessionInv, SessionTypeOK, Agrees
<1> DEFINE c == CookieFor(k)
           x == Waiting(w, "me", "none", c)
<1> HIDE DEF c
<1>4. /\ x.screen = win[w].screen /\ x.nav = win[w].nav /\ x.wait = "me" /\ x.target = "none"
      /\ x.sent = c /\ x \in WindowState
  BY <1>3 DEF Waiting, SessionInv, SessionTypeOK, WindowState, c
<1> HIDE DEF x
<1>5. WindowSound(x)
  <2>1. c.token \in issued'
    BY <1>2, <1>3 DEF c
  <2> QED BY <1>2, <1>3, <1>4, <2>1 DEF WindowSound, c, SessionInv, CopiesAgree
<1>6. changes = 0 => Agrees(cookie')
  BY <1>2 DEF SessionInv, CopiesAgree, Agrees
<1>7. win' = [win EXCEPT ![w] = x]
  BY <1>2 DEF x, c
<1> QED BY <1>1, <1>2, <1>5, <1>6, <1>7, WindowStep DEF SessionInv, SessionTypeOK, TokensIssued

(* Back to the login page, whatever becomes of the cookie.                   *)
LEMMA LoginScreenKeeps ==
  ASSUME SessionInv, NEW w \in Window, win' = [win EXCEPT ![w] = LoginScreen],
         cookie' \in {cookie, NoCookie}, UNCHANGED <<sessions, issued, rights, changes>>
  PROVE  SessionInv'
<1>1. /\ LoginScreen \in WindowState /\ LoginScreen.wait = "no" /\ LoginScreen.sent = NoCookie
      /\ LoginScreen.nav = NoCookie /\ LoginScreen.screen = "login"
  BY DEF LoginScreen, Showing, WindowState
<1>2. WindowSound(LoginScreen)
  BY <1>1 DEF WindowSound, Agrees
<1>3. changes = 0 => Agrees(cookie')
  BY DEF SessionInv, CopiesAgree, Agrees
<1> QED BY <1>2, <1>3, WindowStep DEF SessionInv, SessionTypeOK, TokensIssued

(* A request for a page or of an action, sent with the browser's cookie.     *)
LEMMA AsksKeeps ==
  ASSUME SessionInv, NEW w \in Window, NEW p \in Pages, NEW for \in {"load", "action"},
         win' = [win EXCEPT ![w] = Waiting(w, for, p, cookie)],
         UNCHANGED <<cookie, sessions, issued, rights, changes>>
  PROVE  SessionInv'
<1> DEFINE x == Waiting(w, for, p, cookie)
<1>1. /\ x.screen = win[w].screen /\ x.nav = win[w].nav /\ x.wait = for /\ x.target = p
      /\ x.sent = cookie /\ x \in WindowState
  BY DEF Waiting, SessionInv, SessionTypeOK, WindowState
<1>2. win' = [win EXCEPT ![w] = x]
  OBVIOUS
<1> HIDE DEF x
<1>3. WindowSound(x)
  BY <1>1 DEF WindowSound, SessionInv, CopiesAgree, TokensIssued
<1>4. changes = 0 => Agrees(cookie')
  BY DEF SessionInv, CopiesAgree, Agrees
<1> QED BY <1>2, <1>3, <1>4, WindowStep DEF SessionInv, SessionTypeOK, TokensIssued

LEMMA IdentityKeeps ==
  ASSUME SessionInv, NEW w \in Window, IdentityArrives(w)  PROVE SessionInv'
<1>1. CASE /\ win[w].sent.token \in sessions
           /\ cookie' = CookieFor(win[w].sent.token)
           /\ win' = [win EXCEPT ![w] = Waiting(w, "load", Landing(rights), cookie')]
  <2> DEFINE c == CookieFor(win[w].sent.token)
             x == Waiting(w, "load", Landing(rights), c)
  <2>1. c \in Cookie /\ c.token \in issued /\ Agrees(c) /\ Landing(rights) \in Pages
    BY <1>1 DEF CookieFor, Cookie, SessionInv, SessionTypeOK, Agrees, Landing, Pages
  <2>2. cookie' = c /\ UNCHANGED <<sessions, issued, rights, changes>>
    BY <1>1 DEF IdentityArrives
  <2> HIDE DEF c
  <2>3. /\ x.screen = win[w].screen /\ x.nav = win[w].nav /\ x.wait = "load" /\ x.target \in Pages
        /\ x.sent = c /\ x \in WindowState
    BY <2>1 DEF Waiting, SessionInv, SessionTypeOK, WindowState
  <2>4. win' = [win EXCEPT ![w] = x]
    BY <1>1, <2>2
  <2> HIDE DEF x
  <2>5. WindowSound(x)
    BY <2>1, <2>2, <2>3 DEF WindowSound, SessionInv, CopiesAgree
  <2>6. cookie' \in Cookie \cup {NoCookie} /\ cookie'.token \in issued' /\ Agrees(cookie')
    BY <2>1, <2>2
  <2> QED BY <2>2, <2>4, <2>5, <2>6, WindowStep DEF SessionInv, SessionTypeOK
<1>2. CASE win' = [win EXCEPT ![w] = LoginScreen] /\ UNCHANGED cookie
  BY <1>2, LoginScreenKeeps DEF IdentityArrives
<1> QED BY <1>1, <1>2 DEF IdentityArrives

LEMMA OpenKeeps ==
  ASSUME SessionInv, NEW w \in Window, OpenPage(w)  PROVE SessionInv'
<1> PICK p \in Pages :
       win' = [win EXCEPT ![w] = IF cookie = NoCookie THEN LoginScreen ELSE Waiting(w, "load", p, cookie)]
  BY DEF OpenPage
<1>1. CASE cookie = NoCookie
  BY <1>1, LoginScreenKeeps DEF OpenPage
<1>2. CASE cookie # NoCookie
  <2>1. win' = [win EXCEPT ![w] = Waiting(w, "load", p, cookie)]
    BY <1>2
  <2> QED BY <2>1, AsksKeeps DEF OpenPage
<1> QED BY <1>1, <1>2

LEMMA StartKeeps ==
  ASSUME SessionInv, NEW w \in Window, StartAction(w)  PROVE SessionInv'
  BY AsksKeeps DEF StartAction

LEMMA RenderKeeps ==
  ASSUME SessionInv, NEW w \in Window, RenderPage(w)  PROVE SessionInv'
<1> DEFINE p == win[w].target
           c == win[w].sent
           s == StatusOf(p, c)
<1>1. /\ win[w].wait = "load" /\ p \in Pages /\ c \in Cookie \cup {NoCookie}
      /\ c # NoCookie => c.token \in issued
      /\ changes = 0 => Agrees(c)
  BY DEF RenderPage, SessionInv, SessionTypeOK, RequestsSound, TokensIssued, CopiesAgree
<1>2. /\ s = 401 => c = NoCookie \/ c.token \notin sessions
      /\ s \notin {200, 401} => c # NoCookie /\ ~Granted(p, rights)
  BY DEF StatusOf
<1>3. UNCHANGED <<cookie, sessions, issued, rights, changes>>
  BY DEF RenderPage
<1>4. /\ SessionTypeOK
      /\ changes = 0 => Agrees(win[w].nav)
      /\ cookie # NoCookie => cookie.token \in issued
      /\ changes = 0 => Agrees(cookie')
  BY <1>3 DEF SessionInv, TokensIssued, CopiesAgree, Agrees
<1>5. CASE s = 401
  <2> DEFINE x == Waiting(w, "logout", p, c)
  <2>1. win' = [win EXCEPT ![w] = x]
    BY <1>5 DEF RenderPage, handleAdminError
  <2>2. /\ x \in WindowState /\ x.screen = win[w].screen /\ x.nav = win[w].nav /\ x.wait = "logout"
        /\ x.target = p /\ x.sent = c
    BY <1>1, <1>4 DEF Waiting, SessionTypeOK, WindowState
  <2> HIDE DEF x, p, c, s
  <2>3. WindowSound(x)
    BY <1>4, <1>1, <1>2, <1>3, <1>5, <2>2 DEF WindowSound
  <2> QED BY <1>4, <1>3, <2>1, <2>3, WindowStep DEF SessionTypeOK
<1>6. CASE s # 401
  <2> DEFINE x == IF s = 200 THEN Showing(p, c) ELSE [Showing("forbidden", c) EXCEPT !.target = p]
  <2>1. win' = [win EXCEPT ![w] = x]
    BY <1>6 DEF RenderPage, handleAdminError
  <2>2. /\ x \in WindowState /\ x.nav = c /\ x.wait = "no" /\ x.sent = NoCookie
        /\ s = 200 => x.screen = p
        /\ s # 200 => x.screen = "forbidden" /\ x.target = p
    BY <1>1 DEF Showing, WindowState
  <2> HIDE DEF x, p, c, s
  <2>3. p # "forbidden"
    BY <1>1 DEF Pages
  <2>4. WindowSound(x)
    BY <1>4, <1>1, <1>2, <1>3, <1>6, <2>2, <2>3 DEF WindowSound, Agrees
  <2> QED BY <1>4, <1>3, <2>1, <2>4, WindowStep DEF SessionTypeOK
<1> QED BY <1>5, <1>6

LEMMA EndKeeps ==
  ASSUME SessionInv, NEW w \in Window, EndAction(w)  PROVE SessionInv'
<1> DEFINE p == win[w].target
           e == toFormError(p, StatusOf(p, win[w].sent))
<1>1. /\ cookie' = IF e THEN NoCookie ELSE cookie
      /\ win' = [win EXCEPT ![w] = IF e THEN LoginScreen ELSE Showing(p, win[w].nav)]
      /\ UNCHANGED <<sessions, issued, rights, changes>>
      /\ win[w].wait = "action"
  BY DEF EndAction
<1>2. p \in Pages
  BY <1>1 DEF SessionInv, RequestsSound
<1> HIDE DEF p, e
<1>3. CASE e
  BY <1>1, <1>3, LoginScreenKeeps
<1>4. CASE ~e
  <2> DEFINE x == Showing(p, win[w].nav)
  <2>1. win' = [win EXCEPT ![w] = x] /\ cookie' = cookie
    BY <1>1, <1>4
  <2>2. x \in WindowState /\ x.nav = win[w].nav /\ x.wait = "no" /\ x.sent = NoCookie /\ x.screen = p
    BY <1>2 DEF Showing, WindowState, SessionInv, SessionTypeOK
  <2> HIDE DEF x
  <2>3. p # "forbidden"
    BY <1>2 DEF Pages
  <2>4. WindowSound(x)
    BY <1>1, <2>2, <2>3 DEF WindowSound, Agrees, SessionInv, CopiesAgree
  <2>5. changes = 0 => Agrees(cookie')
    BY <1>1, <2>1 DEF SessionInv, CopiesAgree, Agrees
  <2> QED BY <1>1, <2>1, <2>4, <2>5, WindowStep DEF SessionInv, SessionTypeOK, TokensIssued
<1> QED BY <1>3, <1>4

LEMMA ExpireKeeps ==
  ASSUME SessionInv, Expire  PROVE SessionInv'
<1>1. sessions' \subseteq sessions /\ UNCHANGED <<cookie, issued, rights, win, changes>>
  BY DEF Expire
<1>2. SessionTypeOK' /\ TokensIssued' /\ RequestsSound'
  BY <1>1 DEF SessionInv, SessionTypeOK, TokensIssued, RequestsSound
<1>3. CopiesAgree'
  BY <1>1 DEF SessionInv, CopiesAgree, Agrees
<1> QED BY <1>2, <1>3 DEF SessionInv

LEMMA ChangeRoleKeeps ==
  ASSUME SessionInv, ChangeRole  PROVE SessionInv'
<1>1. /\ changes' = changes + 1 /\ rights' \in OperatorRoles
      /\ UNCHANGED <<cookie, sessions, issued, win>>
  BY DEF ChangeRole
<1>2. changes' \in Nat /\ changes' # 0
  BY <1>1 DEF SessionInv, SessionTypeOK
<1>3. SessionTypeOK' /\ TokensIssued' /\ RequestsSound'
  BY <1>1, <1>2 DEF SessionInv, SessionTypeOK, TokensIssued, RequestsSound
<1>4. CopiesAgree'
  BY <1>2 DEF CopiesAgree
<1> QED BY <1>3, <1>4 DEF SessionInv

LEMMA SessionInvariant == SessionSpec => []SessionInv
<1>1. ASSUME SessionInv, [SessionNext]_sessionVars  PROVE SessionInv'
  <2>1. CASE UNCHANGED sessionVars
    BY <1>1, <2>1 DEF sessionVars, SessionInv, SessionTypeOK, TokensIssued, RequestsSound, CopiesAgree, Agrees
  <2>2. ASSUME NEW w \in Window, LogoutRoute(w) \/ LogoutAction(w)  PROVE SessionInv'
    BY <1>1, <2>2, LoginScreenKeeps DEF LogoutRoute, LogoutAction
  <2> QED BY <1>1, <2>1, <2>2, LoginKeeps, IdentityKeeps, OpenKeeps, RenderKeeps, StartKeeps, EndKeeps,
             ExpireKeeps, ChangeRoleKeeps DEF SessionNext
<1> QED BY <1>1, SessionStarts, PTL DEF SessionSpec

(* What the navigation offers a built-in role, its rights grant.             *)
LEMMA LinkedIsGranted ==
  ASSUME NEW c, NEW r, NEW p, BuiltIn(c), p \in NavLinks(c), c.perms = r.perms, c.scope = r.scope
  PROVE  Granted(p, r)
<1>1. CASE p = "usage"
  BY <1>1 DEF Granted
<1>2. CASE p = "providers"
  BY <1>2 DEF Granted, NavLinks, has, NAV_PERMS, BuiltIn
<1>3. CASE p = "apikeys"
  BY <1>3 DEF Granted, NavLinks, has, NAV_PERMS, BuiltIn
<1> QED BY <1>1, <1>2, <1>3 DEF NavLinks, Pages

(* However logins, requests and expiring sessions of any number of windows   *)
(* interleave, a link drawn for a built-in role opens its page until the     *)
(* role is changed (layout.tsx against rbac.go).                             *)
THEOREM LinksOpen == SessionSpec => []NavLinksOpen
<1>1. SessionInv => NavLinksOpen
  <2> SUFFICES ASSUME SessionInv, NEW w \in Window, win[w].screen = "forbidden", win[w].wait = "no",
                      win[w].nav.perms = rights.perms, BuiltIn(win[w].nav), changes = 0
               PROVE  win[w].target \notin NavLinks(win[w].nav)
    BY DEF NavLinksOpen
  <2>1. /\ ~Granted(win[w].target, rights)
        /\ win[w].nav.perms = rights.perms /\ win[w].nav.scope = rights.scope
    BY DEF SessionInv, CopiesAgree, Agrees
  <2> QED BY <2>1, LinkedIsGranted, Zenon
<1> QED BY <1>1, SessionInvariant, PTL

(* A cookie with a live session is dropped only by signing out or for a      *)
(* request whose session was dead, however the windows' requests interleave  *)
(* with logins and expiry (errors.ts, logout/route.ts).                      *)
THEOREM LiveCookiesKept == SessionSpec => LiveCookieKept
<1> DEFINE Kept ==
      cookie # NoCookie /\ cookie' # cookie /\ cookie.token \in sessions =>
         \E w \in Window :
            \/ LogoutAction(w)
            \/ win[w].wait = "me"
            \/ win[w].wait \in {"logout", "action"} /\ (win[w].sent = NoCookie \/ win[w].sent.token \notin sessions)
<1>1. ASSUME SessionInv, [SessionNext]_sessionVars  PROVE [Kept]_sessionVars
  <2> SUFFICES ASSUME cookie' # cookie
               PROVE  \E w \in Window :
                         \/ LogoutAction(w)
                         \/ win[w].wait = "me"
                         \/ win[w].wait \in {"logout", "action"}
                            /\ (win[w].sent = NoCookie \/ win[w].sent.token \notin sessions)
    OBVIOUS
  <2>1. PICK w \in Window : IdentityArrives(w) \/ LogoutRoute(w) \/ EndAction(w) \/ LogoutAction(w)
    BY <1>1 DEF SessionNext, sessionVars, LoginAction, OpenPage, RenderPage, StartAction, Expire, ChangeRole
  <2>2. CASE IdentityArrives(w)
    BY <2>2 DEF IdentityArrives
  <2>3. CASE LogoutRoute(w)
    BY <1>1, <2>3 DEF LogoutRoute, SessionInv, RequestsSound
  <2>4. CASE EndAction(w)
    BY <2>4 DEF EndAction, toFormError, StatusOf
  <2> QED BY <2>1, <2>2, <2>3, <2>4
<1> QED BY <1>1, SessionInvariant, PTL DEF SessionSpec, LiveCookieKept

----------------------------------------------------------------------------
(* The pages.  A submitted action is filled from pages rendered earlier: its *)
(* name and body fit the tables, whatever has happened to the row since.     *)

(* A copy of a versioned row: not newer than the row, and equal to it when   *)
(* the versions are.                                                         *)
RowBehind(row, now) ==
    now # Absent /\ row.version <= now.version /\ (row.version = now.version => row = now)
Earlier(d, e) ==
    \A u \in Unit :
        /\ d.budget[u] # Absent => RowBehind(d.budget[u], e.budget[u])
        /\ d.reservation[u] # Absent => RowBehind(d.reservation[u], e.reservation[u])

Credential == [ref : Reference \cup {""}, key : BOOLEAN]
ProviderFilled(a) ==
    /\ a.name \in Provider
    /\ a.form = "delete" \/ (a.form \in {"create", "edit"} /\ a.body \in Credential)

(* An edited model keeps the prices of the rows that nobody filled in.       *)
PricesKept(row, body) ==
    \A j \in DOMAIN body.rows \ body.typed :
        \E i \in DOMAIN row : row[i][1] = body.rows[j][1] /\ SameCents(row[i][2], body.rows[j][2])
ModelFilled(a) ==
    /\ a.name \in Alias
    /\ \/ a.form = "delete"
       \/ a.form = "create" /\ a.body.rows \in Entries
       \/ a.form = "edit" /\ a.body.rows \in Entries /\ PricesKept(a.row, a.body)
RouteFilled(a) ==
    a.name \in Alias /\ (a.form = "delete" \/ (a.form \in {"create", "edit"} /\ a.body \in Entries))
PluginFilled(a) ==
    a.name \in Scope /\ (a.form = "delete" \/ (a.form \in {"create", "edit"} /\ a.body \in Num))
TenantFilled(a) == a.name \in Unit /\ a.form \in {"create", "disable", "enable"}
GroupFilled(a) == a.name \in Unit /\ a.form \in {"create", "disable", "enable", "delete"}
ApplicationFilled(a) ==
    /\ a.name \in Unit
    /\ a.form \in {"disable", "enable", "delete"} \/ (a.form = "create" /\ a.body \in Unit \cup {Nil})
Identity == [group : Unit, app : Unit, models : BOOLEAN, bind : BOOLEAN]
APIKeyFilled(a) ==
    a.name \in Unit /\ (a.form = "delete" \/ (a.form \in {"create", "edit"} /\ a.body \in Identity))
OperatorFilled(a) ==
    /\ a.name \in Unit
    /\ a.form \in {"edit", "delete"} \/ (a.form = "create" /\ a.body \in Role \cup {Nil})
RoleFilled(a) ==
    a.name \in Role /\ (a.form = "delete" \/ (a.form \in {"create", "edit"} /\ a.body \in Perms))
BudgetFilled(a, d) ==
    /\ a.name \in Unit
    /\ \/ /\ a.form = "create" /\ a.body \in [limit : Num, enabled : BOOLEAN]
          /\ d.budget[a.name] = Absent
       \/ /\ a.form = "edit" /\ a.body \in [limit : Num \cup {Nil}, enabled : BOOLEAN]
          /\ a.row \in BudgetRow /\ RowBehind(a.row, d.budget[a.name])
ReservationFilled(a, d) ==
    /\ a.name \in Unit /\ a.form = "resolve"
    /\ a.row \in ReservationRow /\ RowBehind(a.row, d.reservation[a.name])

Filled(p, a, d) ==
    CASE p = "providers" -> ProviderFilled(a) [] p = "models" -> ModelFilled(a)
      [] p = "routes" -> RouteFilled(a) [] p = "plugins" -> PluginFilled(a)
      [] p = "tenants" -> TenantFilled(a) [] p = "groups" -> GroupFilled(a)
      [] p = "applications" -> ApplicationFilled(a) [] p = "apikeys" -> APIKeyFilled(a)
      [] p = "operators" -> OperatorFilled(a) [] p = "roles" -> RoleFilled(a)
      [] p = "budgets" -> BudgetFilled(a, d) [] p = "reservations" -> ReservationFilled(a, d)

(* The statements an action has still to run.  A provider saved with a key   *)
(* and the long handlers commit something on the way; in the others there is *)
(* one statement that writes, with a check before it or not.                 *)
Keyed(p, a) == p = "providers" /\ a.form # "delete" /\ a.body.key
Long(p, a) ==
    \/ p = "roles" /\ a.form = "edit"
    \/ p = "applications" /\ a.form # "delete"
    \/ p = "operators" /\ a.form \in {"edit", "delete"}
Checked(p, a) ==
    \/ p \in {"models", "roles"} \/ (p = "routes" /\ a.form # "delete")
    \/ p \in {"providers", "groups", "applications"} /\ a.form = "delete"
Writes(p, a) ==
    CASE p = "providers" -> (CASE a.form = "create" -> "upsert" [] a.form = "edit" -> "patch" [] OTHER -> "delete")
      [] p \in {"models", "routes"} -> (IF a.form = "delete" THEN "delete" ELSE "write")
      [] p = "operators" /\ a.body = Nil -> "invalid"
      [] p = "operators" /\ a.body # Nil -> "create"
      [] OTHER -> a.form
LongLeft(p, a) ==
    CASE p = "roles" -> {<<>>, <<"read">>, <<"edit", "read">>, <<"describe", "edit", "read">>,
                         <<"guard", "describe", "edit", "read">>}
      [] p = "applications" -> {<<>>, <<"read">>, <<a.form, "read">>}
      [] p = "operators" -> IF a.form = "edit" THEN {<<>>, <<"read">>, <<"edit", "read">>}
                            ELSE {<<>>, <<"delete">>, <<"sessions", "delete">>, <<"guard", "sessions", "delete">>}
Left(p, a) ==
    IF Keyed(p, a)
    THEN IF a.form = "create" THEN {<<>>, <<"persist">>, <<"upsert", "persist">>}
         ELSE {<<>>, <<"put">>, <<"get", "put">>, <<"persist", "get", "put">>,
               <<"patch", "persist", "get", "put">>}
    ELSE IF Long(p, a) THEN LongLeft(p, a)
    ELSE {<<>>, <<Writes(p, a)>>} \cup (IF Checked(p, a) THEN {<<"guard", Writes(p, a)>>} ELSE {})

(* What an earlier statement of the handler has found, when s is next.       *)
Held(p, s, a, d) ==
    CASE p = "providers" ->
            /\ s = "delete" => ProviderReferencedBy(a.name, d) = {}
            /\ s \in {"persist", "get"} => d.provider[a.name] # Absent
            /\ s \in {"get", "put"} => a.name \in d.key
      [] p = "models" -> s \in {"write", "delete"} => ModelAccepted(a, d)
      [] p = "routes" -> s = "write" => RouteAccepted(a, d)
      [] p = "applications" -> s = "read" => d.application[a.name] # Absent
      [] p = "operators" ->
            /\ s \in {"sessions", "delete"} => OperatorDeletable(a.name, d)
            /\ s = "read" => d.operator[a.name] # Absent
      [] p = "roles" -> s \in {"describe", "edit", "read"} => d.role[a.name] # Absent
      [] OTHER -> TRUE

(* The statements that come after one that commits.                          *)
Late(p, a, s) ==
    /\ CommitsEarly(p, a)
    /\ \/ s \in {"persist", "get", "put", "read"}
       \/ p = "roles" /\ s = "edit"
       \/ p = "operators" /\ s = "delete"

(* What a statement of an action does to the tables.                         *)
NoLoss(d, e) ==
    /\ e \in Database /\ Earlier(d, e)
    /\ TenancyReferences(d) => TenancyReferences(e)
    /\ \A k \in Unit : d.apikey[k] # Absent =>
          /\ d.apikey[k].group # Nil => e.apikey[k].group = d.apikey[k].group
          /\ d.apikey[k].app # Nil => e.apikey[k].app = d.apikey[k].app
OwnWrites(p, a, d, e) ==
    /\ p = "providers" \/ (e.provider = d.provider /\ e.key = d.key)
    /\ \A u \in Unit : d.budget[u] # Absent /\ e.budget[u] # d.budget[u] =>
          p = "budgets" /\ a.row = d.budget[u]
    /\ \A u \in Unit : d.reservation[u] # Absent /\ e.reservation[u] # d.reservation[u] =>
          p = "reservations" /\ a.row = d.reservation[u]
    /\ \A u \in Unit : d.budget[u] = Absent /\ e.budget[u] # Absent =>
          p = "budgets" /\ a.form = "create" /\ a.name = u
    /\ \A m \in Alias : e.model[m] # d.model[m] /\ a.form = "edit" => e.model[m] = a.body.rows
    /\ \A k \in Unit : d.apikey[k] = Absent /\ e.apikey[k] # Absent =>
          p = "apikeys" /\ a.form = "create" /\ a.name = k
Guarded(p, s, a, d, e) ==
    Held(p, s, a, d) => /\ References(d) => References(e)
                        /\ Supers(d.operator) # {} => Supers(e.operator) # {}
StepSound(p, s, a, d, r) ==
    /\ r.ok \in BOOLEAN /\ r.beside \in BOOLEAN
    /\ ~r.ok \/ s = "guard" => r.db = d /\ ~r.beside
    /\ NoLoss(d, r.db) /\ OwnWrites(p, a, d, r.db) /\ Guarded(p, s, a, d, r.db)

----------------------------------------------------------------------------
(* One table changes, the others stay.                                       *)

SameBut(d, e, tables) ==
    /\ "provider" \in tables \/ e.provider = d.provider
    /\ "key" \in tables \/ e.key = d.key
    /\ "model" \in tables \/ e.model = d.model
    /\ "route" \in tables \/ e.route = d.route
    /\ "plugin" \in tables \/ e.plugin = d.plugin
    /\ "tenant" \in tables \/ e.tenant = d.tenant
    /\ "group" \in tables \/ e.group = d.group
    /\ "application" \in tables \/ e.application = d.application
    /\ "apikey" \in tables \/ e.apikey = d.apikey
    /\ "operator" \in tables \/ e.operator = d.operator
    /\ "role" \in tables \/ e.role = d.role
    /\ "budget" \in tables \/ e.budget = d.budget
    /\ "reservation" \in tables \/ e.reservation = d.reservation

LEMMA PutProvider ==
  ASSUME NEW d \in Database, NEW n \in Provider, NEW v \in Reference \cup {Absent}
  PROVE  LET e == [d EXCEPT !.provider[n] = v] IN
         e \in Database /\ SameBut(d, e, {"provider"}) /\ e.provider = [d.provider EXCEPT ![n] = v]
  BY DEF Database, Table, SameBut

LEMMA PutKey ==
  ASSUME NEW d \in Database, NEW n \in Provider
  PROVE  LET e == [d EXCEPT !.key = @ \cup {n}] IN
         e \in Database /\ SameBut(d, e, {"key"}) /\ e.key = d.key \cup {n}
  BY DEF Database, Table, SameBut

LEMMA DropProvider ==
  ASSUME NEW d \in Database, NEW n \in Provider
  PROVE  LET e == [d EXCEPT !.provider[n] = Absent, !.key = @ \ {n}] IN
         /\ e \in Database /\ SameBut(d, e, {"provider", "key"})
         /\ e.provider = [d.provider EXCEPT ![n] = Absent] /\ e.key = d.key \ {n}
  BY DEF Database, Table, SameBut

LEMMA PutModel ==
  ASSUME NEW d \in Database, NEW n \in Alias, NEW v \in Entries \cup {Absent}
  PROVE  LET e == [d EXCEPT !.model[n] = v] IN
         e \in Database /\ SameBut(d, e, {"model"}) /\ e.model = [d.model EXCEPT ![n] = v]
  BY DEF Database, Table, SameBut

LEMMA PutRoute ==
  ASSUME NEW d \in Database, NEW n \in Alias, NEW v \in Entries \cup {Absent}
  PROVE  LET e == [d EXCEPT !.route[n] = v] IN
         e \in Database /\ SameBut(d, e, {"route"}) /\ e.route = [d.route EXCEPT ![n] = v]
  BY DEF Database, Table, SameBut

LEMMA PutPlugin ==
  ASSUME NEW d \in Database, NEW n \in Scope, NEW v \in Num \cup {Absent}
  PROVE  LET e == [d EXCEPT !.plugin[n] = v] IN
         e \in Database /\ SameBut(d, e, {"plugin"})
  BY DEF Database, Table, SameBut

LEMMA PutTenant ==
  ASSUME NEW d \in Database, NEW n \in Unit, NEW v \in Statuses
  PROVE  LET e == [d EXCEPT !.tenant[n] = v] IN
         e \in Database /\ SameBut(d, e, {"tenant"})
  BY DEF Database, Table, SameBut

LEMMA PutGroup ==
  ASSUME NEW d \in Database, NEW n \in Unit, NEW v \in Statuses
  PROVE  LET e == [d EXCEPT !.group[n] = v] IN
         e \in Database /\ SameBut(d, e, {"group"}) /\ e.group = [d.group EXCEPT ![n] = v]
  BY DEF Database, Table, SameBut

LEMMA DropGroup ==
  ASSUME NEW d \in Database, NEW n \in Unit
  PROVE  LET e == [d EXCEPT !.group[n] = Absent, !.spent = @ \cup {<<"groups", n>>}] IN
         e \in Database /\ SameBut(d, e, {"group"}) /\ e.group = [d.group EXCEPT ![n] = Absent]
<1> DEFINE w == d.spent \cup {<<"groups", n>>}
<1>1. w \in SUBSET ({"groups", "applications", "operators", "roles"} \X (Unit \cup Role))
  BY DEF Database
<1> HIDE DEF w
<1>2. LET e == [d EXCEPT !.group[n] = Absent, !.spent = w] IN
      e \in Database /\ SameBut(d, e, {"group"}) /\ e.group = [d.group EXCEPT ![n] = Absent]
  BY <1>1 DEF Database, Table, SameBut
<1> QED BY <1>2 DEF w

LEMMA PutApplication ==
  ASSUME NEW d \in Database, NEW n \in Unit, NEW v \in ApplicationRow
  PROVE  LET e == [d EXCEPT !.application[n] = v] IN
         /\ e \in Database /\ SameBut(d, e, {"application"})
         /\ e.application = [d.application EXCEPT ![n] = v]
  BY DEF Database, Table, SameBut

LEMMA DropApplication ==
  ASSUME NEW d \in Database, NEW n \in Unit
  PROVE  LET e == [d EXCEPT !.application[n] = Absent, !.spent = @ \cup {<<"applications", n>>}] IN
         /\ e \in Database /\ SameBut(d, e, {"application"})
         /\ e.application = [d.application EXCEPT ![n] = Absent]
<1> DEFINE w == d.spent \cup {<<"applications", n>>}
<1>1. w \in SUBSET ({"groups", "applications", "operators", "roles"} \X (Unit \cup Role))
  BY DEF Database
<1> HIDE DEF w
<1>2. LET e == [d EXCEPT !.application[n] = Absent, !.spent = w] IN
      e \in Database /\ SameBut(d, e, {"application"}) /\ e.application = [d.application EXCEPT ![n] = Absent]
  BY <1>1 DEF Database, Table, SameBut
<1> QED BY <1>2 DEF w

LEMMA PutAPIKey ==
  ASSUME NEW d \in Database, NEW n \in Unit, NEW v \in APIKeyRow
  PROVE  LET e == [d EXCEPT !.apikey[n] = v] IN
         e \in Database /\ SameBut(d, e, {"apikey"}) /\ e.apikey = [d.apikey EXCEPT ![n] = v]
  BY DEF Database, Table, SameBut

LEMMA PutOperator ==
  ASSUME NEW d \in Database, NEW n \in Unit, NEW v \in Role
  PROVE  LET e == [d EXCEPT !.operator[n] = v] IN
         e \in Database /\ SameBut(d, e, {"operator"}) /\ e.operator = [d.operator EXCEPT ![n] = v]
  BY DEF Database, Table, SameBut

LEMMA DropOperator ==
  ASSUME NEW d \in Database, NEW n \in Unit
  PROVE  LET e == [d EXCEPT !.operator[n] = Absent, !.spent = @ \cup {<<"operators", n>>}] IN
         e \in Database /\ SameBut(d, e, {"operator"}) /\ e.operator = [d.operator EXCEPT ![n] = Absent]
<1> DEFINE w == d.spent \cup {<<"operators", n>>}
<1>1. w \in SUBSET ({"groups", "applications", "operators", "roles"} \X (Unit \cup Role))
  BY DEF Database
<1> HIDE DEF w
<1>2. LET e == [d EXCEPT !.operator[n] = Absent, !.spent = w] IN
      e \in Database /\ SameBut(d, e, {"operator"}) /\ e.operator = [d.operator EXCEPT ![n] = Absent]
  BY <1>1 DEF Database, Table, SameBut
<1> QED BY <1>2 DEF w

LEMMA PutRole ==
  ASSUME NEW d \in Database, NEW n \in Role, NEW v \in Perms
  PROVE  LET e == [d EXCEPT !.role[n] = v] IN
         e \in Database /\ SameBut(d, e, {"role"}) /\ e.role = [d.role EXCEPT ![n] = v]
  BY DEF Database, Table, SameBut

LEMMA DropRole ==
  ASSUME NEW d \in Database, NEW n \in Role
  PROVE  LET e == [d EXCEPT !.role[n] = Absent, !.spent = @ \cup {<<"roles", n>>}] IN
         e \in Database /\ SameBut(d, e, {"role"}) /\ e.role = [d.role EXCEPT ![n] = Absent]
<1> DEFINE w == d.spent \cup {<<"roles", n>>}
<1>1. w \in SUBSET ({"groups", "applications", "operators", "roles"} \X (Unit \cup Role))
  BY DEF Database
<1> HIDE DEF w
<1>2. LET e == [d EXCEPT !.role[n] = Absent, !.spent = w] IN
      e \in Database /\ SameBut(d, e, {"role"}) /\ e.role = [d.role EXCEPT ![n] = Absent]
  BY <1>1 DEF Database, Table, SameBut
<1> QED BY <1>2 DEF w

LEMMA PutBudget ==
  ASSUME NEW d \in Database, NEW n \in Unit, NEW v \in BudgetRow
  PROVE  LET e == [d EXCEPT !.budget[n] = v] IN
         e \in Database /\ SameBut(d, e, {"budget"}) /\ e.budget = [d.budget EXCEPT ![n] = v]
  BY DEF Database, Table, SameBut

LEMMA PutReservation ==
  ASSUME NEW d \in Database, NEW n \in Unit, NEW v \in ReservationRow
  PROVE  LET e == [d EXCEPT !.reservation[n] = v] IN
         /\ e \in Database /\ SameBut(d, e, {"reservation"})
         /\ e.reservation = [d.reservation EXCEPT ![n] = v]
  BY DEF Database, Table, SameBut

----------------------------------------------------------------------------
(* What does not depend on the changed table.                                *)

LEMMA RowNotBehindItself ==
  ASSUME NEW d \in Database, NEW u \in Unit
  PROVE  /\ d.budget[u] # Absent => d.budget[u] \in BudgetRow /\ RowBehind(d.budget[u], d.budget[u])
         /\ d.reservation[u] # Absent =>
               d.reservation[u] \in ReservationRow /\ RowBehind(d.reservation[u], d.reservation[u])
<1>1. /\ d.budget[u] \in BudgetRow \cup {Absent}
      /\ d.reservation[u] \in ReservationRow \cup {Absent}
  BY DEF Database, Table
<1>2. ASSUME NEW n \in Nat  PROVE n <= n
  OBVIOUS
<1>3. /\ d.budget[u] # Absent => d.budget[u].version \in Nat
      /\ d.reservation[u] # Absent => d.reservation[u].version \in Nat
  BY <1>1 DEF BudgetRow, ReservationRow
<1> QED BY <1>1, <1>2, <1>3 DEF RowBehind

LEMMA VersionsSame ==
  ASSUME NEW d \in Database, NEW e, e.budget = d.budget, e.reservation = d.reservation
  PROVE  Earlier(d, e)
  BY RowNotBehindItself DEF Earlier

LEMMA TenancySame ==
  ASSUME NEW d, NEW e, TenancyReferences(d), e.group = d.group, e.application = d.application,
         e.apikey = d.apikey, e.operator = d.operator, e.role = d.role
  PROVE  TenancyReferences(e)
  BY DEF TenancyReferences, Stored

LEMMA ReferencesSame ==
  ASSUME NEW d, NEW e, References(d), e.provider = d.provider, e.model = d.model, e.route = d.route
  PROVE  References(e)
  BY DEF References, Stored

(* A statement that touches none of the tables the properties relate.        *)
LEMMA QuietStep ==
  ASSUME NEW d \in Database, NEW e \in Database, NEW p, NEW s, NEW a, NEW tables,
         tables \subseteq {"plugin", "tenant", "key"}, SameBut(d, e, tables),
         p = "providers" \/ "key" \notin tables
  PROVE  NoLoss(d, e) /\ OwnWrites(p, a, d, e) /\ Guarded(p, s, a, d, e)
<1>1. /\ e.provider = d.provider /\ e.model = d.model /\ e.route = d.route /\ e.group = d.group
      /\ e.application = d.application /\ e.apikey = d.apikey /\ e.operator = d.operator
      /\ e.role = d.role /\ e.budget = d.budget /\ e.reservation = d.reservation
  BY DEF SameBut
<1>2. NoLoss(d, e)
  BY <1>1, VersionsSame, TenancySame DEF NoLoss
<1>3. OwnWrites(p, a, d, e)
  BY <1>1 DEF OwnWrites, SameBut
<1>4. Guarded(p, s, a, d, e)
  BY <1>1, ReferencesSame DEF Guarded
<1> QED BY <1>2, <1>3, <1>4

(* A refusal, or a check.                                                    *)
LEMMA StandStill ==
  ASSUME NEW d \in Database, NEW p, NEW s, NEW a, NEW ok \in BOOLEAN
  PROVE  StepSound(p, s, a, d, Result(ok, d))
<1>1. SameBut(d, d, {})
  BY DEF SameBut
<1>2. Result(ok, d).ok = ok /\ Result(ok, d).db = d /\ Result(ok, d).beside = FALSE
  BY DEF Result
<1>3. NoLoss(d, d) /\ OwnWrites(p, a, d, d) /\ Guarded(p, s, a, d, d)
  BY <1>1, QuietStep
<1> QED BY <1>2, <1>3 DEF StepSound

(* A write to a column that is not modelled.                                 *)
LEMMA BesideSound ==
  ASSUME NEW d \in Database, NEW p, NEW s, NEW a, s # "guard"
  PROVE  StepSound(p, s, a, d, Beside(d))
<1>1. SameBut(d, d, {})
  BY DEF SameBut
<1>2. Beside(d).ok = TRUE /\ Beside(d).db = d /\ Beside(d).beside = TRUE
  BY DEF Beside
<1>3. NoLoss(d, d) /\ OwnWrites(p, a, d, d) /\ Guarded(p, s, a, d, d)
  BY <1>1, QuietStep
<1> QED BY <1>2, <1>3 DEF StepSound

LEMMA WriteSound ==
  ASSUME NEW d \in Database, NEW p, NEW s, NEW a, s # "guard", NEW e,
         NoLoss(d, e), OwnWrites(p, a, d, e), Guarded(p, s, a, d, e)
  PROVE  StepSound(p, s, a, d, Done(e))
<1>1. Done(e).ok = TRUE /\ Done(e).db = e /\ Done(e).beside = FALSE
  BY DEF Done, Result
<1> QED BY <1>1 DEF StepSound

(* Groups, applications, keys, operators and roles stay: everything but the  *)
(* references of the configuration.                                          *)
LEMMA ConfigStep ==
  ASSUME NEW d \in Database, NEW e \in Database, NEW p, NEW s, NEW a,
         SameBut(d, e, {"provider", "key", "model", "route", "plugin", "tenant"}),
         p = "providers" \/ (e.provider = d.provider /\ e.key = d.key),
         \A m \in Alias : e.model[m] # d.model[m] /\ a.form = "edit" => e.model[m] = a.body.rows,
         Held(p, s, a, d) /\ References(d) => References(e)
  PROVE  NoLoss(d, e) /\ OwnWrites(p, a, d, e) /\ Guarded(p, s, a, d, e)
<1>1. /\ e.group = d.group
      /\ e.application = d.application /\ e.apikey = d.apikey /\ e.operator = d.operator
      /\ e.role = d.role /\ e.budget = d.budget /\ e.reservation = d.reservation
  BY DEF SameBut
<1>2. NoLoss(d, e)
  BY <1>1, VersionsSame, TenancySame DEF NoLoss
<1>3. OwnWrites(p, a, d, e)
  BY <1>1 DEF OwnWrites
<1>4. Guarded(p, s, a, d, e)
  BY <1>1 DEF Guarded
<1> QED BY <1>2, <1>3, <1>4

----------------------------------------------------------------------------
(* The statements of the configuration pages.                                *)

LEMMA ProviderStored ==
  ASSUME NEW d \in Database, NEW e \in Database, NEW n \in Provider, NEW v \in Reference,
         e.provider = [d.provider EXCEPT ![n] = v], e.model = d.model, e.route = d.route, References(d)
  PROVE  References(e)
<1>1. Stored(d.provider) \subseteq Stored(e.provider)
  BY ConsoleTenancyAssumption DEF Stored, Database, Table
<1> QED BY <1>1 DEF References, Stored

LEMMA ProviderBodyFits ==
  ASSUME NEW a, ProviderFilled(a), a.form \in {"create", "edit"}
  PROVE  /\ ProviderBody(a) \in Reference
         /\ a.body.ref # "" => a.body.ref \in Reference
         /\ a.body.key \in BOOLEAN
  BY DEF ProviderFilled, ProviderBody, Credential, Reference

LEMMA ProviderStep ==
  ASSUME NEW d \in Database, NEW a, ProviderFilled(a), NEW s,
         \/ a.form = "create" /\ s \in {"upsert", "persist"}
         \/ a.form = "edit" /\ s \in {"patch", "persist", "get", "put"}
         \/ a.form = "delete" /\ s \in {"guard", "delete"}
  PROVE  StepSound("providers", s, a, d, ProviderStatement(s, a, d))
<1> DEFINE n == a.name
<1>1. n \in Provider /\ d.provider \in [Provider -> Reference \cup {Absent}]
  BY DEF ProviderFilled, Database, Table
<1>2. CASE s = "upsert"
  <2> DEFINE e == [d EXCEPT !.provider[n] = ProviderBody(a)]
  <2>1. ProviderBody(a) \in Reference
    BY <1>2, ProviderBodyFits
  <2>2. e \in Database /\ SameBut(d, e, {"provider"}) /\ e.provider = [d.provider EXCEPT ![n] = ProviderBody(a)]
    BY <1>1, <2>1, PutProvider
  <2>3. ProviderStatement(s, a, d) = Done(e)
    BY <1>2 DEF ProviderStatement
  <2> HIDE DEF e
  <2>4. References(d) => References(e)
    BY <1>1, <2>1, <2>2, ProviderStored DEF SameBut
  <2>5. NoLoss(d, e) /\ OwnWrites("providers", a, d, e) /\ Guarded("providers", s, a, d, e)
    BY <2>2, <2>4, ConfigStep DEF SameBut
  <2> QED BY <1>2, <2>3, <2>5, WriteSound
<1>3. CASE s = "patch"
  <2> DEFINE v == IF a.body.key \/ a.body.ref = "" THEN d.provider[n] ELSE a.body.ref
             e == [d EXCEPT !.provider[n] = v]
  <2>1. CASE d.provider[n] = Absent
    BY <1>3, <2>1, StandStill DEF ProviderStatement, Refused
  <2>2. CASE d.provider[n] # Absent
    <3>1. v \in Reference
      BY <1>1, <1>3, <2>2, ProviderBodyFits
    <3>2. ProviderStatement(s, a, d) = Done(e)
      BY <1>3, <2>2 DEF ProviderStatement
    <3> HIDE DEF v
    <3>3. e \in Database /\ SameBut(d, e, {"provider"}) /\ e.provider = [d.provider EXCEPT ![n] = v]
      BY <1>1, <3>1, PutProvider
    <3> HIDE DEF e
    <3>4. References(d) => References(e)
      BY <1>1, <3>1, <3>3, ProviderStored DEF SameBut
    <3>5. NoLoss(d, e) /\ OwnWrites("providers", a, d, e) /\ Guarded("providers", s, a, d, e)
      BY <3>3, <3>4, ConfigStep DEF SameBut
    <3> QED BY <1>3, <3>2, <3>5, WriteSound
  <2> QED BY <2>1, <2>2
<1>4. CASE s = "persist"
  <2> DEFINE e == [d EXCEPT !.key = @ \cup {n}]
  <2>1. CASE d.provider[n] = Absent
    BY <1>4, <2>1, StandStill DEF ProviderStatement, Refused
  <2>2. CASE d.provider[n] # Absent
    <3>1. ProviderStatement(s, a, d) = Done(e)
      BY <1>4, <2>2 DEF ProviderStatement
    <3>2. e \in Database /\ SameBut(d, e, {"key"})
      BY <1>1, PutKey
    <3> HIDE DEF e
    <3>3. NoLoss(d, e) /\ OwnWrites("providers", a, d, e) /\ Guarded("providers", s, a, d, e)
      BY <3>2, QuietStep
    <3> QED BY <1>4, <3>1, <3>3, WriteSound
  <2> QED BY <2>1, <2>2
<1>5. CASE s = "get"
  <2>1. ProviderStatement(s, a, d) \in {Result(FALSE, d), Result(TRUE, d)}
    BY <1>5 DEF ProviderStatement, Refused, Done
  <2> QED BY <2>1, StandStill
<1>6. CASE s = "put"
  <2> DEFINE e == [d EXCEPT !.provider[n] = "db"]
  <2>1. "db" \in Reference
    BY DEF Reference
  <2>2. e \in Database /\ SameBut(d, e, {"provider"}) /\ e.provider = [d.provider EXCEPT ![n] = "db"]
    BY <1>1, <2>1, PutProvider
  <2>3. ProviderStatement(s, a, d) = Done(e)
    BY <1>6 DEF ProviderStatement
  <2> HIDE DEF e
  <2>4. References(d) => References(e)
    BY <1>1, <2>1, <2>2, ProviderStored DEF SameBut
  <2>5. NoLoss(d, e) /\ OwnWrites("providers", a, d, e) /\ Guarded("providers", s, a, d, e)
    BY <2>2, <2>4, ConfigStep DEF SameBut
  <2> QED BY <1>6, <2>3, <2>5, WriteSound
<1>7. CASE s = "guard"
  <2>1. ProviderStatement(s, a, d) = Result(ProviderReferencedBy(n, d) = {}, d)
    BY <1>7 DEF ProviderStatement
  <2> QED BY <2>1, StandStill
<1>8. CASE s = "delete"
  <2> DEFINE e == [d EXCEPT !.provider[n] = Absent, !.key = @ \ {n}]
  <2>1. e \in Database /\ SameBut(d, e, {"provider", "key"}) /\ e.provider = [d.provider EXCEPT ![n] = Absent]
    BY <1>1, DropProvider
  <2>2. ProviderStatement(s, a, d) = Done(e)
    BY <1>8 DEF ProviderStatement
  <2> HIDE DEF e
  <2>3. ASSUME References(d), ProviderReferencedBy(n, d) = {}  PROVE References(e)
    <3>1. /\ \A m \in Stored(d.model) : n \notin Names(d.model[m])
          /\ \A m \in Stored(d.route) : n \notin Names(d.route[m])
      BY <2>3 DEF ProviderReferencedBy
    <3>2. Stored(d.provider) \ {n} \subseteq Stored(e.provider)
      BY <1>1, <2>1 DEF Stored
    <3>3. e.model = d.model /\ e.route = d.route
      BY <2>1 DEF SameBut
    <3> QED BY <2>3, <3>1, <3>2, <3>3 DEF References
  <2>4. Held("providers", s, a, d) => ProviderReferencedBy(n, d) = {}
    BY <1>8 DEF Held
  <2>5. NoLoss(d, e) /\ OwnWrites("providers", a, d, e) /\ Guarded("providers", s, a, d, e)
    BY <2>1, <2>3, <2>4, ConfigStep DEF SameBut
  <2> QED BY <1>8, <2>2, <2>5, WriteSound
<1> QED BY <1>2, <1>3, <1>4, <1>5, <1>6, <1>7, <1>8

LEMMA ModelStep ==
  ASSUME NEW d \in Database, NEW a, ModelFilled(a), NEW s,
         s = "guard" \/ s = IF a.form = "delete" THEN "delete" ELSE "write"
  PROVE  StepSound("models", s, a, d, ModelStatement(s, a, d))
<1> DEFINE n == a.name
<1>1. n \in Alias /\ d.model \in [Alias -> Entries \cup {Absent}]
  BY DEF ModelFilled, Database, Table
<1>2. CASE s = "guard"
  <2>1. ModelStatement(s, a, d) = Result(ModelAccepted(a, d), d) /\ ModelAccepted(a, d) \in BOOLEAN
    BY <1>2 DEF ModelStatement, ModelAccepted
  <2> QED BY <2>1, StandStill
<1>3. CASE s = "delete"
  <2> DEFINE e == [d EXCEPT !.model[n] = Absent]
  <2>1. e \in Database /\ SameBut(d, e, {"model"}) /\ e.model = [d.model EXCEPT ![n] = Absent]
    BY <1>1, PutModel
  <2>2. ModelStatement(s, a, d) = Done(e) /\ a.form = "delete"
    BY <1>3 DEF ModelStatement
  <2> HIDE DEF e
  <2>3. ASSUME References(d), d.route[n] = Absent  PROVE References(e)
    <3>1. /\ Stored(e.model) \subseteq Stored(d.model) \ {n}
          /\ \A m \in Alias \ {n} : e.model[m] = d.model[m]
      BY <1>1, <2>1 DEF Stored
    <3>2. n \notin Stored(d.route) /\ Stored(d.route) \subseteq Alias
      BY <2>3 DEF Stored, Database, Table
    <3>3. e.provider = d.provider /\ e.route = d.route
      BY <2>1 DEF SameBut
    <3>4. Stored(d.model) \subseteq Alias
      BY <1>1 DEF Stored
    <3> QED BY <2>3, <3>1, <3>2, <3>3, <3>4 DEF References
  <2>4. Held("models", s, a, d) => d.route[n] = Absent
    BY <1>3, <2>2 DEF Held, ModelAccepted
  <2>5. NoLoss(d, e) /\ OwnWrites("models", a, d, e) /\ Guarded("models", s, a, d, e)
    BY <2>1, <2>2, <2>3, <2>4, ConfigStep DEF SameBut
  <2> QED BY <1>3, <2>2, <2>5, WriteSound
<1>4. CASE s = "write"
  <2> DEFINE e == [d EXCEPT !.model[n] = a.body.rows]
  <2>1. CASE a.form = "edit" /\ d.model[n] = Absent
    BY <1>4, <2>1, StandStill DEF ModelStatement, Refused
  <2>2. CASE ~(a.form = "edit" /\ d.model[n] = Absent)
    <3>1. ModelStatement(s, a, d) = Done(e) /\ a.form # "delete"
      BY <1>4, <2>2 DEF ModelStatement
    <3>2. a.body.rows \in Entries
      BY <3>1 DEF ModelFilled
    <3>3. e \in Database /\ SameBut(d, e, {"model"}) /\ e.model = [d.model EXCEPT ![n] = a.body.rows]
      BY <1>1, <3>2, PutModel
    <3> HIDE DEF e
    <3>4. ASSUME References(d), ModelAccepted(a, d)  PROVE References(e)
      <4>1. /\ Names(a.body.rows) \subseteq Stored(d.provider)
            /\ d.route[n] # Absent => Names(d.route[n]) \subseteq Names(a.body.rows)
        BY <3>1, <3>4 DEF ModelAccepted
      <4>2. /\ Stored(e.model) \subseteq Stored(d.model) \cup {n}
            /\ e.model[n] = a.body.rows /\ e.model[n] # Absent
            /\ \A m \in Alias \ {n} : e.model[m] = d.model[m]
        BY <1>1, <3>2, <3>3, ConsoleTenancyAssumption DEF Stored
      <4>3. e.provider = d.provider /\ e.route = d.route
        BY <3>3 DEF SameBut
      <4>4. Stored(d.model) \subseteq Alias /\ Stored(d.route) \subseteq Alias
            /\ (n \in Stored(d.route) => d.route[n] # Absent)
        BY <1>1 DEF Stored, Database, Table
      <4> QED BY <3>4, <4>1, <4>2, <4>3, <4>4 DEF References
    <3>5. Held("models", s, a, d) => ModelAccepted(a, d)
      BY <1>4 DEF Held
    <3>6. \A m \in Alias : e.model[m] # d.model[m] /\ a.form = "edit" => e.model[m] = a.body.rows
      BY <1>1, <3>3
    <3>7. NoLoss(d, e) /\ OwnWrites("models", a, d, e) /\ Guarded("models", s, a, d, e)
      BY <3>3, <3>4, <3>5, <3>6, ConfigStep DEF SameBut
    <3> QED BY <1>4, <3>1, <3>7, WriteSound
  <2> QED BY <2>1, <2>2
<1> QED BY <1>2, <1>3, <1>4

LEMMA RouteStep ==
  ASSUME NEW d \in Database, NEW a, RouteFilled(a), NEW s,
         IF a.form = "delete" THEN s = "delete" ELSE s \in {"guard", "write"}
  PROVE  StepSound("routes", s, a, d, RouteStatement(s, a, d))
<1> DEFINE n == a.name
<1>1. n \in Alias /\ d.route \in [Alias -> Entries \cup {Absent}]
  BY DEF RouteFilled, Database, Table
<1>2. CASE s = "guard"
  <2>1. RouteStatement(s, a, d) = Result(RouteAccepted(a, d), d) /\ RouteAccepted(a, d) \in BOOLEAN
    BY <1>2 DEF RouteStatement, RouteAccepted
  <2> QED BY <2>1, StandStill
<1>3. CASE s = "delete"
  <2> DEFINE e == [d EXCEPT !.route[n] = Absent]
  <2>1. e \in Database /\ SameBut(d, e, {"route"}) /\ e.route = [d.route EXCEPT ![n] = Absent]
    BY <1>1, PutRoute
  <2>2. RouteStatement(s, a, d) = Done(e)
    BY <1>3 DEF RouteStatement
  <2> HIDE DEF e
  <2>3. e.provider = d.provider /\ e.model = d.model
    BY <2>1 DEF SameBut
  <2>4. ASSUME References(d)  PROVE References(e)
    <3>1. /\ Stored(e.route) \subseteq Stored(d.route)
          /\ \A m \in Stored(e.route) : e.route[m] = d.route[m]
      BY <1>1, <2>1 DEF Stored
    <3> QED BY <2>3, <2>4, <3>1 DEF References
  <2>5. NoLoss(d, e) /\ OwnWrites("routes", a, d, e) /\ Guarded("routes", s, a, d, e)
    BY <2>1, <2>3, <2>4, ConfigStep DEF SameBut
  <2> QED BY <1>3, <2>2, <2>5, WriteSound
<1>4. CASE s = "write"
  <2> DEFINE e == [d EXCEPT !.route[n] = a.body]
  <2>1. CASE a.form = "edit" /\ d.route[n] = Absent
    BY <1>4, <2>1, StandStill DEF RouteStatement, Refused
  <2>2. CASE ~(a.form = "edit" /\ d.route[n] = Absent)
    <3>1. RouteStatement(s, a, d) = Done(e)
      BY <1>4, <2>2 DEF RouteStatement
    <3>2. a.body \in Entries
      BY <1>4 DEF RouteFilled
    <3>3. e \in Database /\ SameBut(d, e, {"route"}) /\ e.route = [d.route EXCEPT ![n] = a.body]
      BY <1>1, <3>2, PutRoute
    <3> HIDE DEF e
    <3>4. e.provider = d.provider /\ e.model = d.model
      BY <3>3 DEF SameBut
    <3>5. ASSUME References(d), RouteAccepted(a, d)  PROVE References(e)
      <4>1. /\ Stored(e.route) \subseteq Stored(d.route) \cup {n}
            /\ e.route[n] = a.body
            /\ \A m \in Alias \ {n} : e.route[m] = d.route[m]
            /\ Stored(d.route) \subseteq Alias
        BY <1>1, <3>3 DEF Stored
      <4> QED BY <3>4, <3>5, <4>1 DEF References, RouteAccepted
    <3>6. Held("routes", s, a, d) => RouteAccepted(a, d)
      BY <1>4 DEF Held
    <3>7. NoLoss(d, e) /\ OwnWrites("routes", a, d, e) /\ Guarded("routes", s, a, d, e)
      BY <3>3, <3>4, <3>5, <3>6, ConfigStep DEF SameBut
    <3> QED BY <1>4, <3>1, <3>7, WriteSound
  <2> QED BY <2>1, <2>2
<1> QED BY <1>2, <1>3, <1>4

LEMMA PluginStep ==
  ASSUME NEW d \in Database, NEW a, PluginFilled(a)
  PROVE  StepSound("plugins", a.form, a, d, PluginStatement(a, d))
<1> DEFINE e(v) == [d EXCEPT !.plugin[a.name] = v]
<1>1. \A v \in Num \cup {Absent} : e(v) \in Database /\ SameBut(d, e(v), {"plugin"})
  BY PutPlugin DEF PluginFilled
<1>2. \/ PluginStatement(a, d) = Refused(d)
      \/ \E v \in Num \cup {Absent} : PluginStatement(a, d) = Done(e(v))
  BY DEF PluginStatement, PluginFilled
<1>3. a.form # "guard"
  BY DEF PluginFilled
<1> HIDE DEF e
<1>4. CASE PluginStatement(a, d) = Refused(d)
  BY <1>4, StandStill DEF Refused
<1>5. ASSUME NEW v \in Num \cup {Absent}, PluginStatement(a, d) = Done(e(v))
      PROVE  StepSound("plugins", a.form, a, d, PluginStatement(a, d))
  BY <1>1, <1>3, <1>5, QuietStep, WriteSound
<1> QED BY <1>2, <1>4, <1>5

LEMMA TenantStep ==
  ASSUME NEW d \in Database, NEW a, TenantFilled(a)
  PROVE  StepSound("tenants", a.form, a, d, TenantStatement(a, d))
<1> DEFINE e(v) == [d EXCEPT !.tenant[a.name] = v]
<1>1. \A v \in Statuses : e(v) \in Database /\ SameBut(d, e(v), {"tenant"})
  BY PutTenant DEF TenantFilled
<1>2. \/ TenantStatement(a, d) = Refused(d)
      \/ \E v \in Statuses : TenantStatement(a, d) = Done(e(v))
  BY DEF TenantStatement, TenantFilled, Statuses
<1>3. a.form # "guard"
  BY DEF TenantFilled
<1> HIDE DEF e
<1>4. CASE TenantStatement(a, d) = Refused(d)
  BY <1>4, StandStill DEF Refused
<1>5. ASSUME NEW v \in Statuses, TenantStatement(a, d) = Done(e(v))
      PROVE  StepSound("tenants", a.form, a, d, TenantStatement(a, d))
  BY <1>1, <1>3, <1>5, QuietStep, WriteSound
<1> QED BY <1>2, <1>4, <1>5

----------------------------------------------------------------------------
(* The statements of the tenancy pages.                                      *)

LEMMA TenancyStep ==
  ASSUME NEW d \in Database, NEW e \in Database, NEW p, NEW s, NEW a,
         SameBut(d, e, {"group", "application", "operator", "role"}),
         TenancyReferences(d) => TenancyReferences(e),
         Held(p, s, a, d) /\ Supers(d.operator) # {} => Supers(e.operator) # {}
  PROVE  NoLoss(d, e) /\ OwnWrites(p, a, d, e) /\ Guarded(p, s, a, d, e)
<1>1. /\ e.provider = d.provider /\ e.key = d.key /\ e.model = d.model /\ e.route = d.route
      /\ e.apikey = d.apikey /\ e.budget = d.budget /\ e.reservation = d.reservation
  BY DEF SameBut
<1>2. NoLoss(d, e)
  BY <1>1, VersionsSame DEF NoLoss
<1>3. OwnWrites(p, a, d, e)
  BY <1>1 DEF OwnWrites
<1>4. Guarded(p, s, a, d, e)
  BY <1>1, ReferencesSame DEF Guarded
<1> QED BY <1>2, <1>3, <1>4

LEMMA GroupStored ==
  ASSUME NEW d \in Database, NEW n \in Unit, NEW v \in Statuses, TenancyReferences(d)
  PROVE  TenancyReferences([d EXCEPT !.group[n] = v])
<1> DEFINE e == [d EXCEPT !.group[n] = v]
<1>1. e \in Database /\ SameBut(d, e, {"group"}) /\ e.group = [d.group EXCEPT ![n] = v]
  BY PutGroup
<1> HIDE DEF e
<1>2. Stored(d.group) \subseteq Stored(e.group)
  BY <1>1, ConsoleTenancyAssumption DEF Stored, Database, Table
<1>3. /\ e.application = d.application /\ e.apikey = d.apikey /\ e.operator = d.operator
      /\ e.role = d.role
  BY <1>1 DEF SameBut
<1>4. TenancyReferences(e)
  BY <1>2, <1>3 DEF TenancyReferences
<1> QED BY <1>4 DEF e

LEMMA GroupStep ==
  ASSUME NEW d \in Database, NEW a, GroupFilled(a), NEW s,
         IF a.form = "delete" THEN s \in {"guard", "delete"} ELSE s = a.form
  PROVE  StepSound("groups", s, a, d, GroupStatement(s, a, d))
<1> DEFINE n == a.name
           put(v) == [d EXCEPT !.group[n] = v]
           drop == [d EXCEPT !.group[n] = Absent, !.spent = @ \cup {<<"groups", n>>}]
<1>1. n \in Unit /\ d.group \in [Unit -> Statuses \cup {Absent}]
  BY DEF GroupFilled, Database, Table
<1>2. \/ \E ok \in BOOLEAN : GroupStatement(s, a, d) = Result(ok, d)
      \/ s # "guard" /\ \E v \in Statuses : GroupStatement(s, a, d) = Done(put(v))
      \/ s = "delete" /\ GroupReferencedBy(n, d) = {} /\ GroupStatement(s, a, d) = Done(drop)
  <2>1. CASE s = "guard"
    BY <2>1 DEF GroupStatement
  <2>2. CASE s = "delete"
    BY <2>2 DEF GroupStatement, Refused
  <2>3. CASE s \in {"create", "disable", "enable"}
    BY <2>3 DEF GroupStatement, Refused, Statuses
  <2> QED BY <2>1, <2>2, <2>3 DEF GroupFilled
<1>3. ASSUME NEW ok \in BOOLEAN, GroupStatement(s, a, d) = Result(ok, d)
      PROVE  StepSound("groups", s, a, d, GroupStatement(s, a, d))
  BY <1>3, StandStill
<1>4. ASSUME s # "guard", NEW v \in Statuses, GroupStatement(s, a, d) = Done(put(v))
      PROVE  StepSound("groups", s, a, d, GroupStatement(s, a, d))
  <2>1. put(v) \in Database /\ SameBut(d, put(v), {"group"})
    BY <1>1, PutGroup
  <2>2. TenancyReferences(d) => TenancyReferences(put(v))
    BY <1>1, GroupStored
  <2> HIDE DEF put
  <2>3. put(v).operator = d.operator
    BY <2>1 DEF SameBut
  <2>4. NoLoss(d, put(v)) /\ OwnWrites("groups", a, d, put(v)) /\ Guarded("groups", s, a, d, put(v))
    BY <2>1, <2>2, <2>3, TenancyStep DEF SameBut
  <2> QED BY <1>4, <2>4, WriteSound
<1>5. ASSUME s = "delete", GroupReferencedBy(n, d) = {}, GroupStatement(s, a, d) = Done(drop)
      PROVE  StepSound("groups", s, a, d, GroupStatement(s, a, d))
  <2>1. drop \in Database /\ SameBut(d, drop, {"group"}) /\ drop.group = [d.group EXCEPT ![n] = Absent]
    BY <1>1, DropGroup
  <2> HIDE DEF drop
  <2>2. /\ drop.application = d.application /\ drop.apikey = d.apikey /\ drop.operator = d.operator
        /\ drop.role = d.role
    BY <2>1 DEF SameBut
  <2>3. /\ \A k \in Stored(d.apikey) : d.apikey[k].group # n
        /\ \A x \in Stored(d.application) : d.application[x].owner # n
    BY <1>5 DEF GroupReferencedBy
  <2>4. Stored(d.group) \ {n} \subseteq Stored(drop.group)
    BY <1>1, <2>1 DEF Stored
  <2>5. TenancyReferences(d) => TenancyReferences(drop)
    BY <2>2, <2>3, <2>4 DEF TenancyReferences
  <2>6. NoLoss(d, drop) /\ OwnWrites("groups", a, d, drop) /\ Guarded("groups", s, a, d, drop)
    BY <2>1, <2>2, <2>5, TenancyStep DEF SameBut
  <2> QED BY <1>5, <2>6, WriteSound
<1> QED BY <1>2, <1>3, <1>4, <1>5

LEMMA ApplicationStored ==
  ASSUME NEW d \in Database, NEW n \in Unit, NEW v \in ApplicationRow, v.owner \in Stored(d.group),
         TenancyReferences(d)
  PROVE  TenancyReferences([d EXCEPT !.application[n] = v])
<1> DEFINE e == [d EXCEPT !.application[n] = v]
<1>1. /\ e \in Database /\ SameBut(d, e, {"application"})
      /\ e.application = [d.application EXCEPT ![n] = v]
  BY PutApplication
<1> HIDE DEF e
<1>2. /\ Stored(d.application) \subseteq Stored(e.application)
      /\ Stored(e.application) \subseteq Stored(d.application) \cup {n}
      /\ e.application[n] = v
      /\ \A x \in Stored(d.application) \ {n} : e.application[x] = d.application[x]
  BY <1>1, ConsoleTenancyAssumption DEF Stored, Database, Table
<1>3. e.group = d.group /\ e.apikey = d.apikey /\ e.operator = d.operator /\ e.role = d.role
  BY <1>1 DEF SameBut
<1>4. TenancyReferences(e)
  BY <1>2, <1>3 DEF TenancyReferences
<1> QED BY <1>4 DEF e

LEMMA ApplicationStep ==
  ASSUME NEW d \in Database, NEW a, ApplicationFilled(a), NEW s,
         IF a.form = "delete" THEN s \in {"guard", "delete"} ELSE s \in {a.form, "read"}
  PROVE  StepSound("applications", s, a, d, ApplicationStatement(s, a, d))
<1> DEFINE n == a.name
           keys == {k \in Stored(d.apikey) : d.apikey[k].app = n}
           put(v) == [d EXCEPT !.application[n] = v]
           drop == [d EXCEPT !.application[n] = Absent, !.spent = @ \cup {<<"applications", n>>}]
           Fits(v) == TenancyReferences(d) => v.owner \in Stored(d.group)
<1>1. /\ n \in Unit /\ d.application \in [Unit -> ApplicationRow \cup {Absent}]
      /\ d.group \in [Unit -> Statuses \cup {Absent}]
  BY DEF ApplicationFilled, Database, Table
<1>2. \/ \E ok \in BOOLEAN : ApplicationStatement(s, a, d) = Result(ok, d)
      \/ s # "guard" /\ \E v \in ApplicationRow : Fits(v) /\ ApplicationStatement(s, a, d) = Done(put(v))
      \/ s = "delete" /\ keys = {} /\ ApplicationStatement(s, a, d) = Done(drop)
  <2>1. CASE s = "guard"
    BY <2>1 DEF ApplicationStatement
  <2>2. CASE s \in {"delete", "read"}
    BY <2>2 DEF ApplicationStatement, Refused
  <2>3. CASE s = "create"
    <3> DEFINE v == [status |-> "on", owner |-> a.body]
    <3>1. CASE a.body = Nil \/ d.application[n] # Absent
      BY <2>3, <3>1 DEF ApplicationStatement, Refused
    <3>2. CASE ~(a.body = Nil \/ d.application[n] # Absent)
      <4>1. a.body \in Unit
        BY <2>3, <3>2 DEF ApplicationFilled
      <4>2. CASE d.group[a.body] = Absent
        BY <2>3, <3>2, <4>2 DEF ApplicationStatement, Refused
      <4>3. CASE d.group[a.body] # Absent
        <5>1. ApplicationStatement(s, a, d) = Done(put(v))
          BY <2>3, <3>2, <4>3 DEF ApplicationStatement
        <5>2. v \in ApplicationRow /\ v.owner = a.body
          BY <4>1 DEF ApplicationRow, Statuses
        <5>3. a.body \in Stored(d.group)
          BY <1>1, <4>1, <4>3 DEF Stored
        <5> QED BY <2>3, <5>1, <5>2, <5>3
      <4> QED BY <4>2, <4>3
    <3> QED BY <3>1, <3>2
  <2>4. CASE s \in {"disable", "enable"}
    <3> DEFINE on == IF s = "disable" THEN "off" ELSE "on"
               v == [status |-> on, owner |-> d.application[n].owner]
    <3>1. CASE d.application[n] = Absent
      BY <2>4, <3>1 DEF ApplicationStatement, Refused
    <3>2. CASE d.application[n] # Absent
      <4>1. ApplicationStatement(s, a, d) = Done(put(v))
        BY <2>4, <3>2 DEF ApplicationStatement
      <4>2. d.application[n] \in ApplicationRow /\ n \in Stored(d.application)
        BY <1>1, <3>2 DEF Stored
      <4>3. v \in ApplicationRow /\ v.owner = d.application[n].owner
        BY <4>2 DEF ApplicationRow, Statuses
      <4>4. Fits(v)
        BY <4>2, <4>3 DEF TenancyReferences
      <4> QED BY <2>4, <4>1, <4>3, <4>4
    <3> QED BY <3>1, <3>2
  <2> QED BY <2>1, <2>2, <2>3, <2>4 DEF ApplicationFilled
<1>3. ASSUME NEW ok \in BOOLEAN, ApplicationStatement(s, a, d) = Result(ok, d)
      PROVE  StepSound("applications", s, a, d, ApplicationStatement(s, a, d))
  BY <1>3, StandStill
<1>4. ASSUME s # "guard", NEW v \in ApplicationRow, Fits(v), ApplicationStatement(s, a, d) = Done(put(v))
      PROVE  StepSound("applications", s, a, d, ApplicationStatement(s, a, d))
  <2>1. put(v) \in Database /\ SameBut(d, put(v), {"application"})
    BY <1>1, PutApplication
  <2>2. TenancyReferences(d) => TenancyReferences(put(v))
    BY <1>1, <1>4, ApplicationStored
  <2> HIDE DEF put
  <2>3. put(v).operator = d.operator
    BY <2>1 DEF SameBut
  <2>4. /\ NoLoss(d, put(v)) /\ OwnWrites("applications", a, d, put(v))
        /\ Guarded("applications", s, a, d, put(v))
    BY <2>1, <2>2, <2>3, TenancyStep DEF SameBut
  <2> QED BY <1>4, <2>4, WriteSound
<1>5. ASSUME s = "delete", keys = {}, ApplicationStatement(s, a, d) = Done(drop)
      PROVE  StepSound("applications", s, a, d, ApplicationStatement(s, a, d))
  <2>1. /\ drop \in Database /\ SameBut(d, drop, {"application"})
        /\ drop.application = [d.application EXCEPT ![n] = Absent]
    BY <1>1, DropApplication
  <2> HIDE DEF drop
  <2>2. drop.group = d.group /\ drop.apikey = d.apikey /\ drop.operator = d.operator /\ drop.role = d.role
    BY <2>1 DEF SameBut
  <2>3. \A k \in Stored(d.apikey) : d.apikey[k].app # n
    BY <1>5
  <2>4. /\ Stored(d.application) \ {n} \subseteq Stored(drop.application)
        /\ Stored(drop.application) \subseteq Stored(d.application)
        /\ \A x \in Stored(drop.application) : drop.application[x] = d.application[x]
    BY <1>1, <2>1 DEF Stored
  <2>5. TenancyReferences(d) => TenancyReferences(drop)
    BY <2>2, <2>3, <2>4 DEF TenancyReferences
  <2>6. NoLoss(d, drop) /\ OwnWrites("applications", a, d, drop) /\ Guarded("applications", s, a, d, drop)
    BY <2>1, <2>2, <2>5, TenancyStep DEF SameBut
  <2> QED BY <1>5, <2>6, WriteSound
<1> QED BY <1>2, <1>3, <1>4, <1>5

LEMMA APIKeyStored ==
  ASSUME NEW d \in Database, NEW n \in Unit, NEW v \in APIKeyRow, NEW s, NEW a,
         TenancyReferences(d) /\ Bound(v) => v.group \in Stored(d.group) /\ v.app \in Stored(d.application),
         d.apikey[n] = Absent => a.form = "create" /\ a.name = n,
         d.apikey[n] # Absent => /\ d.apikey[n].group # Nil => v.group = d.apikey[n].group
                                 /\ d.apikey[n].app # Nil => v.app = d.apikey[n].app,
         s # "guard"
  PROVE  StepSound("apikeys", s, a, d, Done([d EXCEPT !.apikey[n] = v]))
<1> DEFINE e == [d EXCEPT !.apikey[n] = v]
<1>1. e \in Database /\ SameBut(d, e, {"apikey"}) /\ e.apikey = [d.apikey EXCEPT ![n] = v]
  BY PutAPIKey
<1> HIDE DEF e
<1>2. /\ e.provider = d.provider /\ e.key = d.key /\ e.model = d.model /\ e.route = d.route
      /\ e.group = d.group /\ e.application = d.application /\ e.operator = d.operator
      /\ e.role = d.role /\ e.budget = d.budget /\ e.reservation = d.reservation
  BY <1>1 DEF SameBut
<1>3. /\ Stored(e.apikey) \subseteq Stored(d.apikey) \cup {n}
      /\ \A k \in Unit : e.apikey[k] = IF k = n THEN v ELSE d.apikey[k]
      /\ Stored(d.apikey) \subseteq Unit
  BY <1>1 DEF Stored, Database, Table
<1>4. TenancyReferences(d) => TenancyReferences(e)
  BY <1>2, <1>3 DEF TenancyReferences
<1>5. NoLoss(d, e)
  BY <1>1, <1>2, <1>3, <1>4, VersionsSame DEF NoLoss
<1>6. OwnWrites("apikeys", a, d, e)
  BY <1>2, <1>3 DEF OwnWrites
<1>7. Guarded("apikeys", s, a, d, e)
  BY <1>2, ReferencesSame DEF Guarded
<1>8. StepSound("apikeys", s, a, d, Done(e))
  BY <1>5, <1>6, <1>7, WriteSound
<1> QED BY <1>8 DEF e

LEMMA APIKeyStep ==
  ASSUME NEW d \in Database, NEW a, APIKeyFilled(a)
  PROVE  StepSound("apikeys", a.form, a, d, APIKeyStatement(a, d))
<1> DEFINE n == a.name
           k == d.apikey[n]
           b == a.body
           put(v) == [d EXCEPT !.apikey[n] = v]
<1>1. /\ n \in Unit /\ k \in APIKeyRow \cup {Absent}
      /\ d.group \in [Unit -> Statuses \cup {Absent}]
      /\ d.application \in [Unit -> ApplicationRow \cup {Absent}]
      /\ d.apikey \in [Unit -> APIKeyRow \cup {Absent}]
  BY DEF APIKeyFilled, Database, Table
<1>2. k # Absent => n \in Stored(d.apikey)
  BY <1>1 DEF Stored
<1>3. ASSUME b \in Identity, ValidIdentity(b, d)
      PROVE  b.group \in Stored(d.group) /\ b.app \in Stored(d.application)
  <2>1. b.group \in Unit /\ b.app \in Unit
    BY <1>3 DEF Identity
  <2>2. Absent # "on"
    BY ConsoleTenancyAssumption DEF Statuses
  <2> QED BY <1>1, <1>3, <2>1, <2>2 DEF ValidIdentity, Stored
<1>4. CASE a.form = "create"
  <2> DEFINE v == [group |-> b.group, app |-> b.app, models |-> b.models, revoked |-> FALSE]
  <2>1. CASE k # Absent \/ ~ValidIdentity(b, d)
    BY <1>4, <2>1, StandStill DEF APIKeyStatement, Refused
  <2>2. CASE ~(k # Absent \/ ~ValidIdentity(b, d))
    <3>1. APIKeyStatement(a, d) = Done(put(v))
      BY <1>4, <2>2 DEF APIKeyStatement
    <3>2. b \in Identity
      BY <1>4 DEF APIKeyFilled
    <3>3. v \in APIKeyRow /\ v.group = b.group /\ v.app = b.app
      BY <3>2 DEF APIKeyRow, Identity
    <3> HIDE DEF v
    <3>4. StepSound("apikeys", a.form, a, d, Done(put(v)))
      BY <1>1, <1>3, <1>4, <2>2, <3>2, <3>3, APIKeyStored
    <3> QED BY <3>1, <3>4
  <2> QED BY <2>1, <2>2
<1>5. CASE a.form = "edit"
  <2> DEFINE v == [group |-> IF b.bind THEN b.group ELSE k.group,
                   app |-> IF b.bind THEN b.app ELSE k.app,
                   models |-> k.models \/ b.models, revoked |-> FALSE]
  <2>1. CASE ~APIKeyUpdate(a, d)
    BY <1>5, <2>1, StandStill DEF APIKeyStatement, Refused
  <2>2. CASE APIKeyUpdate(a, d)
    <3>1. APIKeyStatement(a, d) = Done(put(v))
      BY <1>5, <2>2 DEF APIKeyStatement
    <3>2. /\ b \in Identity /\ k \in APIKeyRow /\ k # Absent
          /\ b.bind => /\ k.group \in {Nil, b.group} /\ k.app \in {Nil, b.app}
                       /\ Bound(k) \/ ValidIdentity(b, d)
      BY <1>1, <1>5, <2>2 DEF APIKeyFilled, APIKeyUpdate
    <3>3. /\ v \in APIKeyRow
          /\ v.group = IF b.bind THEN b.group ELSE k.group
          /\ v.app = IF b.bind THEN b.app ELSE k.app
      BY <3>2 DEF APIKeyRow, Identity
    <3> HIDE DEF v
    <3>4. ASSUME TenancyReferences(d), Bound(v)
          PROVE  v.group \in Stored(d.group) /\ v.app \in Stored(d.application)
      <4>1. Bound(k) => k.group \in Stored(d.group) /\ k.app \in Stored(d.application)
        BY <1>2, <3>2, <3>4 DEF TenancyReferences
      <4>2. CASE b.bind /\ ValidIdentity(b, d)
        BY <1>3, <3>2, <3>3, <4>2
      <4>3. CASE b.bind /\ Bound(k)
        BY <3>2, <3>3, <4>1, <4>3 DEF Bound
      <4>4. CASE ~b.bind
        BY <3>3, <3>4, <4>1, <4>4 DEF Bound
      <4> QED BY <3>2, <4>2, <4>3, <4>4
    <3>5. StepSound("apikeys", a.form, a, d, Done(put(v)))
      <4>1. /\ k.group # Nil => v.group = k.group
            /\ k.app # Nil => v.app = k.app
        BY <3>2, <3>3
      <4> QED BY <1>1, <1>5, <3>2, <3>3, <3>4, <4>1, APIKeyStored
    <3> QED BY <3>1, <3>5
  <2> QED BY <2>1, <2>2
<1>6. CASE a.form = "delete"
  <2> DEFINE v == [k EXCEPT !.revoked = TRUE]
  <2>1. CASE k = Absent \/ k.revoked
    BY <1>6, <2>1, StandStill DEF APIKeyStatement, Refused
  <2>2. CASE ~(k = Absent \/ k.revoked)
    <3>1. APIKeyStatement(a, d) = Done(put(v))
      BY <1>6, <2>2 DEF APIKeyStatement
    <3>2. k \in APIKeyRow /\ k # Absent
      BY <1>1, <2>2
    <3>3. v \in APIKeyRow /\ v.group = k.group /\ v.app = k.app
      BY <3>2 DEF APIKeyRow
    <3> HIDE DEF v
    <3>4. TenancyReferences(d) /\ Bound(v) => v.group \in Stored(d.group) /\ v.app \in Stored(d.application)
      BY <1>2, <3>2, <3>3 DEF TenancyReferences, Bound
    <3>5. StepSound("apikeys", a.form, a, d, Done(put(v)))
      BY <1>1, <1>6, <3>2, <3>3, <3>4, APIKeyStored
    <3> QED BY <3>1, <3>5
  <2> QED BY <2>1, <2>2
<1> QED BY <1>4, <1>5, <1>6 DEF APIKeyFilled

LEMMA LastSuperStays ==
  ASSUME NEW d \in Database, NEW n \in Unit, OperatorDeletable(n, d), Supers(d.operator) # {},
         NEW e, e.operator = [d.operator EXCEPT ![n] = Absent]
  PROVE  Supers(e.operator) # {}
<1>1. d.operator \in [Unit -> Role \cup {Absent}] /\ Super # Absent
  BY ConsoleTenancyAssumption DEF Database, Table
<1>2. Supers(d.operator) \ {n} \subseteq Supers(e.operator)
  BY <1>1 DEF Supers, Stored
<1>3. CASE d.operator[n] # Super
  BY <1>1, <1>2, <1>3 DEF Supers
<1>4. CASE d.operator[n] = Super
  <2>1. Cardinality(Supers(d.operator)) > 1
    BY <1>4 DEF OperatorDeletable
  <2>2. Cardinality({n}) = 1
    BY FS_Singleton
  <2>3. Supers(d.operator) # {n}
    BY <2>1, <2>2
  <2> QED BY <1>2, <2>3
<1> QED BY <1>3, <1>4

LEMMA OperatorStep ==
  ASSUME NEW d \in Database, NEW a, OperatorFilled(a), NEW s,
         CASE a.form = "delete" -> s \in {"guard", "sessions", "delete"}
           [] a.form = "edit" -> s \in {"edit", "read"}
           [] OTHER -> s = IF a.body = Nil THEN "invalid" ELSE "create"
  PROVE  StepSound("operators", s, a, d, OperatorStatement(s, a, d))
<1> DEFINE n == a.name
           put(v) == [d EXCEPT !.operator[n] = v]
           drop == [d EXCEPT !.operator[n] = Absent, !.spent = @ \cup {<<"operators", n>>}]
<1>1. /\ n \in Unit /\ d.operator \in [Unit -> Role \cup {Absent}]
      /\ d.role \in [Role -> Perms \cup {Absent}]
  BY DEF OperatorFilled, Database, Table
<1>2. CASE s = "guard"
  <2>1. OperatorStatement(s, a, d) = Result(OperatorDeletable(n, d), d) /\ OperatorDeletable(n, d) \in BOOLEAN
    BY <1>2 DEF OperatorStatement, OperatorDeletable
  <2> QED BY <2>1, StandStill
<1>3. CASE s = "invalid"
  BY <1>3, StandStill DEF OperatorStatement, Refused
<1>4. CASE s \in {"edit", "read", "sessions"}
  <2>1. OperatorStatement(s, a, d) \in {Result(TRUE, d), Result(FALSE, d), Beside(d)}
    BY <1>4 DEF OperatorStatement, Refused
  <2> QED BY <1>4, <2>1, StandStill, BesideSound
<1>5. CASE s = "create"
  <2>1. a.body \in Role
    BY <1>5 DEF OperatorFilled
  <2>2. CASE d.operator[n] # Absent \/ d.role[a.body] = Absent
    BY <1>5, <2>2, StandStill DEF OperatorStatement, Refused
  <2>3. CASE ~(d.operator[n] # Absent \/ d.role[a.body] = Absent)
    <3> DEFINE e == put(a.body)
    <3>1. OperatorStatement(s, a, d) = Done(e)
      BY <1>5, <2>3 DEF OperatorStatement
    <3>2. e \in Database /\ SameBut(d, e, {"operator"}) /\ e.operator = [d.operator EXCEPT ![n] = a.body]
      BY <1>1, <2>1, PutOperator
    <3> HIDE DEF e
    <3>3. /\ Stored(e.operator) \subseteq Stored(d.operator) \cup {n}
          /\ e.operator[n] = a.body
          /\ \A u \in Stored(d.operator) : u # n /\ e.operator[u] = d.operator[u] /\ u \in Stored(e.operator)
      BY <1>1, <2>3, <3>2 DEF Stored
    <3>4. a.body \in Stored(d.role)
      BY <1>1, <2>1, <2>3 DEF Stored
    <3>5. e.group = d.group /\ e.application = d.application /\ e.apikey = d.apikey /\ e.role = d.role
      BY <3>2 DEF SameBut
    <3>6. TenancyReferences(d) => TenancyReferences(e)
      BY <3>3, <3>4, <3>5 DEF TenancyReferences
    <3>7. Supers(d.operator) \subseteq Supers(e.operator)
      BY <3>3 DEF Supers
    <3>8. NoLoss(d, e) /\ OwnWrites("operators", a, d, e) /\ Guarded("operators", s, a, d, e)
      BY <3>2, <3>6, <3>7, TenancyStep DEF SameBut
    <3> QED BY <1>5, <3>1, <3>8, WriteSound
  <2> QED BY <2>2, <2>3
<1>6. CASE s = "delete"
  <2>1. CASE d.operator[n] = Absent
    BY <1>6, <2>1, StandStill DEF OperatorStatement, Refused
  <2>2. CASE d.operator[n] # Absent
    <3>1. OperatorStatement(s, a, d) = Done(drop)
      BY <1>6, <2>2 DEF OperatorStatement
    <3>2. /\ drop \in Database /\ SameBut(d, drop, {"operator"})
          /\ drop.operator = [d.operator EXCEPT ![n] = Absent]
      BY <1>1, DropOperator
    <3> HIDE DEF drop
    <3>3. /\ Stored(drop.operator) \subseteq Stored(d.operator)
          /\ \A u \in Stored(drop.operator) : drop.operator[u] = d.operator[u]
      BY <1>1, <3>2 DEF Stored
    <3>4. /\ drop.group = d.group /\ drop.application = d.application /\ drop.apikey = d.apikey
          /\ drop.role = d.role
      BY <3>2 DEF SameBut
    <3>5. TenancyReferences(d) => TenancyReferences(drop)
      BY <3>3, <3>4 DEF TenancyReferences
    <3>6. Held("operators", s, a, d) => OperatorDeletable(n, d)
      BY <1>6 DEF Held
    <3>7. Held("operators", s, a, d) /\ Supers(d.operator) # {} => Supers(drop.operator) # {}
      BY <1>1, <3>2, <3>6, LastSuperStays
    <3>8. NoLoss(d, drop) /\ OwnWrites("operators", a, d, drop) /\ Guarded("operators", s, a, d, drop)
      BY <3>2, <3>5, <3>7, TenancyStep DEF SameBut
    <3> QED BY <1>6, <3>1, <3>8, WriteSound
  <2> QED BY <2>1, <2>2
<1> QED BY <1>2, <1>3, <1>4, <1>5, <1>6 DEF OperatorFilled

LEMMA RoleStep ==
  ASSUME NEW d \in Database, NEW a, RoleFilled(a), NEW s,
         s \in {"guard", a.form} \/ (a.form = "edit" /\ s \in {"describe", "read"})
  PROVE  StepSound("roles", s, a, d, RoleStatement(s, a, d))
<1> DEFINE n == a.name
           users == {u \in Stored(d.operator) : d.operator[u] = n}
           put(v) == [d EXCEPT !.role[n] = v]
           drop == [d EXCEPT !.role[n] = Absent, !.spent = @ \cup {<<"roles", n>>}]
<1>1. /\ n \in Role /\ d.role \in [Role -> Perms \cup {Absent}]
      /\ d.operator \in [Unit -> Role \cup {Absent}]
      /\ a.form \in {"create", "edit", "delete"}
  BY DEF RoleFilled, Database, Table
<1>2. \/ \E ok \in BOOLEAN : RoleStatement(s, a, d) = Result(ok, d)
      \/ s = "describe" /\ RoleStatement(s, a, d) = Beside(d)
      \/ s \in {"create", "edit"} /\ RoleStatement(s, a, d) = Done(put(a.body))
      \/ s = "delete" /\ users = {} /\ RoleStatement(s, a, d) = Done(drop)
  <2>1. CASE s = "guard"
    <3>1. CASE a.form = "create"
      BY <2>1, <3>1 DEF RoleStatement
    <3>2. CASE a.form = "edit"
      BY <2>1, <3>2 DEF RoleStatement
    <3>3. CASE a.form = "delete"
      BY <2>1, <3>3 DEF RoleStatement
    <3> QED BY <1>1, <3>1, <3>2, <3>3
  <2>2. CASE s = "create"
    BY <2>2 DEF RoleStatement, Refused
  <2>3. CASE s = "edit"
    BY <2>3 DEF RoleStatement
  <2>4. CASE s \in {"describe", "read"}
    BY <2>4 DEF RoleStatement, Done
  <2>5. CASE s = "delete"
    BY <2>5 DEF RoleStatement, Refused
  <2> QED BY <1>1, <2>1, <2>2, <2>3, <2>5, <2>4
<1>3. ASSUME NEW ok \in BOOLEAN, RoleStatement(s, a, d) = Result(ok, d)
      PROVE  StepSound("roles", s, a, d, RoleStatement(s, a, d))
  BY <1>3, StandStill
<1>4. ASSUME s \in {"create", "edit"}, RoleStatement(s, a, d) = Done(put(a.body))
      PROVE  StepSound("roles", s, a, d, RoleStatement(s, a, d))
  <2> DEFINE e == put(a.body)
  <2>1. a.body \in Perms
    BY <1>1, <1>4 DEF RoleFilled
  <2>2. e \in Database /\ SameBut(d, e, {"role"}) /\ e.role = [d.role EXCEPT ![n] = a.body]
    BY <1>1, <2>1, PutRole
  <2> HIDE DEF e
  <2>3. a.body # Absent
    BY <2>1, ConsoleTenancyAssumption
  <2>4. Stored(d.role) \subseteq Stored(e.role)
    BY <1>1, <2>2, <2>3 DEF Stored
  <2>5. e.group = d.group /\ e.application = d.application /\ e.apikey = d.apikey /\ e.operator = d.operator
    BY <2>2 DEF SameBut
  <2>6. TenancyReferences(d) => TenancyReferences(e)
    BY <2>4, <2>5 DEF TenancyReferences
  <2>7. NoLoss(d, e) /\ OwnWrites("roles", a, d, e) /\ Guarded("roles", s, a, d, e)
    BY <2>2, <2>5, <2>6, TenancyStep DEF SameBut
  <2> QED BY <1>4, <2>7, WriteSound DEF e
<1>5. ASSUME s = "delete", users = {}, RoleStatement(s, a, d) = Done(drop)
      PROVE  StepSound("roles", s, a, d, RoleStatement(s, a, d))
  <2>1. drop \in Database /\ SameBut(d, drop, {"role"}) /\ drop.role = [d.role EXCEPT ![n] = Absent]
    BY <1>1, DropRole
  <2> HIDE DEF drop
  <2>2. /\ drop.group = d.group /\ drop.application = d.application /\ drop.apikey = d.apikey
        /\ drop.operator = d.operator
    BY <2>1 DEF SameBut
  <2>3. Stored(d.role) \ {n} \subseteq Stored(drop.role)
    BY <1>1, <2>1 DEF Stored
  <2>4. \A u \in Stored(d.operator) : d.operator[u] # n
    BY <1>5
  <2>5. TenancyReferences(d) => TenancyReferences(drop)
    BY <2>2, <2>3, <2>4 DEF TenancyReferences
  <2>6. NoLoss(d, drop) /\ OwnWrites("roles", a, d, drop) /\ Guarded("roles", s, a, d, drop)
    BY <2>1, <2>2, <2>5, TenancyStep DEF SameBut
  <2> QED BY <1>5, <2>6, WriteSound
<1>6. ASSUME s = "describe", RoleStatement(s, a, d) = Beside(d)
      PROVE  StepSound("roles", s, a, d, RoleStatement(s, a, d))
  BY <1>6, BesideSound
<1> QED BY <1>2, <1>3, <1>4, <1>5, <1>6

----------------------------------------------------------------------------
(* Budgets and reservations: a write makes a newer version of the row that   *)
(* the form showed.                                                          *)

LEMMA VersionedStep ==
  ASSUME NEW d \in Database, NEW e \in Database, NEW p, NEW s, NEW a, s # "guard",
         SameBut(d, e, {"budget", "reservation"}), Earlier(d, e),
         \A u \in Unit : d.budget[u] # Absent /\ e.budget[u] # d.budget[u] =>
            p = "budgets" /\ a.row = d.budget[u],
         \A u \in Unit : d.reservation[u] # Absent /\ e.reservation[u] # d.reservation[u] =>
            p = "reservations" /\ a.row = d.reservation[u],
         \A u \in Unit : d.budget[u] = Absent /\ e.budget[u] # Absent =>
            p = "budgets" /\ a.form = "create" /\ a.name = u
  PROVE  StepSound(p, s, a, d, Done(e))
<1>1. /\ e.provider = d.provider /\ e.key = d.key /\ e.model = d.model /\ e.route = d.route /\ e.group = d.group
      /\ e.application = d.application /\ e.apikey = d.apikey /\ e.operator = d.operator
      /\ e.role = d.role
  BY DEF SameBut
<1>2. NoLoss(d, e)
  BY <1>1, TenancySame DEF NoLoss
<1>3. OwnWrites(p, a, d, e)
  BY <1>1 DEF OwnWrites
<1>4. Guarded(p, s, a, d, e)
  BY <1>1, ReferencesSame DEF Guarded
<1> QED BY <1>2, <1>3, <1>4, WriteSound

LEMMA BudgetStep ==
  ASSUME NEW d \in Database, NEW a, BudgetFilled(a, d)
  PROVE  StepSound("budgets", a.form, a, d, BudgetStatement(a, d))
<1> DEFINE n == a.name
           b == d.budget[n]
           put(v) == [d EXCEPT !.budget[n] = v]
<1>1. /\ n \in Unit /\ b \in BudgetRow \cup {Absent} /\ Absent \notin BudgetRow
      /\ d.budget \in [Unit -> BudgetRow \cup {Absent}]
  BY ConsoleTenancyAssumption DEF BudgetFilled, Database, Table
<1>2. ASSUME NEW v \in BudgetRow
      PROVE  /\ put(v) \in Database /\ SameBut(d, put(v), {"budget"})
             /\ \A u \in Unit : put(v).budget[u] = IF u = n THEN v ELSE d.budget[u]
             /\ put(v).reservation = d.reservation
  <2>1. put(v) \in Database /\ SameBut(d, put(v), {"budget"}) /\ put(v).budget = [d.budget EXCEPT ![n] = v]
    BY <1>1, PutBudget
  <2> HIDE DEF put
  <2> QED BY <1>1, <2>1 DEF SameBut
<1>3. CASE a.form = "create"
  <2> DEFINE v == [version |-> 1, limit |-> a.body.limit, enabled |-> a.body.enabled]
  <2>1. v \in BudgetRow /\ BudgetStatement(a, d) = Done(put(v)) /\ b = Absent
    BY <1>3 DEF BudgetFilled, BudgetRow, BudgetStatement
  <2> HIDE DEF v, put
  <2>2. Earlier(d, put(v))
    BY <1>2, <2>1, RowNotBehindItself DEF Earlier
  <2>3. StepSound("budgets", a.form, a, d, Done(put(v)))
    BY <1>2, <1>3, <2>1, <2>2, VersionedStep DEF SameBut
  <2> QED BY <2>1, <2>3
<1>4. CASE a.form = "edit"
  <2> DEFINE v == [version |-> b.version + 1, enabled |-> a.body.enabled,
                   limit |-> IF a.body.limit = Nil THEN b.limit ELSE a.body.limit]
  <2>1. CASE ~BudgetCurrent(a, d)
    BY <1>4, <2>1, StandStill DEF BudgetStatement, Refused
  <2>2. CASE BudgetCurrent(a, d)
    <3>1. b # Absent /\ a.row = b
      BY <1>4, <2>2 DEF BudgetFilled, BudgetCurrent, RowBehind
    <3>2. b \in BudgetRow /\ b.version \in Nat
      BY <1>1, <3>1 DEF BudgetRow
    <3>3. v \in BudgetRow /\ v.version = b.version + 1 /\ BudgetStatement(a, d) = Done(put(v))
      BY <1>4, <2>2, <3>2 DEF BudgetFilled, BudgetRow, BudgetStatement
    <3> HIDE DEF v, put
    <3>4. RowBehind(b, v)
      BY <1>1, <3>2, <3>3 DEF RowBehind
    <3>5. Earlier(d, put(v))
      BY <1>2, <3>3, <3>4, RowNotBehindItself DEF Earlier
    <3>6. StepSound("budgets", a.form, a, d, Done(put(v)))
      BY <1>2, <1>4, <3>1, <3>3, <3>5, VersionedStep DEF SameBut
    <3> QED BY <3>3, <3>6
  <2> QED BY <2>1, <2>2
<1> QED BY <1>3, <1>4 DEF BudgetFilled

LEMMA ReservationStep ==
  ASSUME NEW d \in Database, NEW a, ReservationFilled(a, d)
  PROVE  StepSound("reservations", a.form, a, d, ResolveStatement(a, d))
<1> DEFINE n == a.name
           b == d.reservation[n]
           to == CASE a.body = "settle" -> "settled" [] a.body = "release" -> "released"
                   [] OTHER -> "released_unknown"
           v == [version |-> b.version + 1, status |-> to]
           put == [d EXCEPT !.reservation[n] = v]
<1>1. /\ n \in Unit /\ b \in ReservationRow \cup {Absent} /\ Absent \notin ReservationRow
      /\ d.reservation \in [Unit -> ReservationRow \cup {Absent}]
  BY ConsoleTenancyAssumption DEF ReservationFilled, Database, Table
<1>2. b # Absent /\ b \in ReservationRow /\ b.version \in Nat /\ a.form = "resolve"
  BY <1>1 DEF ReservationFilled, RowBehind, ReservationRow
<1>3. CASE b.version # a.row.version
  BY <1>3, StandStill DEF ResolveStatement, Refused
<1>4. CASE b.version = a.row.version
  <2>1. a.row = b
    BY <1>4 DEF ReservationFilled, RowBehind
  <2>2. to \in {"settled", "released", "released_unknown"}
    OBVIOUS
  <2>3. ResolveStatement(a, d) = Done(put)
    BY <1>4 DEF ResolveStatement
  <2> HIDE DEF to
  <2>4. v \in ReservationRow /\ v.version = b.version + 1
    BY <1>2, <2>2 DEF ReservationRow
  <2> HIDE DEF v
  <2>5. put \in Database /\ SameBut(d, put, {"reservation"}) /\ put.reservation = [d.reservation EXCEPT ![n] = v]
    BY <1>1, <2>4, PutReservation
  <2> HIDE DEF put
  <2>6. /\ \A u \in Unit : put.reservation[u] = IF u = n THEN v ELSE d.reservation[u]
        /\ put.budget = d.budget
    BY <1>1, <2>5 DEF SameBut
  <2>7. RowBehind(b, v)
    BY <1>1, <1>2, <2>4 DEF RowBehind
  <2>8. Earlier(d, put)
    BY <2>6, <2>7, RowNotBehindItself DEF Earlier
  <2>9. StepSound("reservations", a.form, a, d, Done(put))
    BY <1>2, <2>1, <2>5, <2>6, <2>8, VersionedStep DEF SameBut
  <2> QED BY <2>3, <2>9
<1> QED BY <1>3, <1>4

----------------------------------------------------------------------------
(* A statement of any page.                                                  *)

(* Which statement can be next.                                              *)
LEMMA ShortSequences ==
  /\ \A x : Head(<<x>>) = x /\ Tail(<<x>>) = <<>>
  /\ \A x, y : Head(<<x, y>>) = x /\ Tail(<<x, y>>) = <<y>>
  OBVIOUS
LEMMA NextHeads ==
  /\ Head(<<"persist">>) = "persist" /\ Head(<<"put">>) = "put" /\ Head(<<"read">>) = "read"
  /\ Head(<<"delete">>) = "delete"
  /\ Head(<<"get", "put">>) = "get" /\ Head(<<"persist", "get", "put">>) = "persist"
  /\ Head(<<"edit", "read">>) = "edit" /\ Head(<<"describe", "edit", "read">>) = "describe"
  /\ Head(<<"sessions", "delete">>) = "sessions"
  OBVIOUS

PlainNext(p, a, c) ==
    \/ Head(c) = Writes(p, a) /\ Tail(c) = <<>>
    \/ Head(c) = "guard" /\ Checked(p, a) /\ Tail(c) = <<Writes(p, a)>>
KeyedNext(a, c) ==
    IF a.form = "create"
    THEN \/ Head(c) = "upsert" /\ Tail(c) = <<"persist">>
         \/ Head(c) = "persist" /\ Tail(c) = <<>>
    ELSE \/ Head(c) = "patch" /\ Tail(c) = <<"persist", "get", "put">>
         \/ Head(c) = "persist" /\ Tail(c) = <<"get", "put">>
         \/ Head(c) = "get" /\ Tail(c) = <<"put">>
         \/ Head(c) = "put" /\ Tail(c) = <<>>
LongNext(p, a, c) ==
    \/ Head(c) = "read" /\ Tail(c) = <<>> /\ (p = "operators" => a.form = "edit")
    \/ /\ p = "roles"
       /\ \/ Head(c) = "guard" /\ Tail(c) = <<"describe", "edit", "read">>
          \/ Head(c) = "describe" /\ Tail(c) = <<"edit", "read">>
          \/ Head(c) = "edit" /\ Tail(c) = <<"read">>
    \/ p = "applications" /\ Head(c) = a.form /\ Tail(c) = <<"read">>
    \/ p = "operators" /\ a.form = "edit" /\ Head(c) = "edit" /\ Tail(c) = <<"read">>
    \/ /\ p = "operators" /\ a.form = "delete"
       /\ \/ Head(c) = "guard" /\ Tail(c) = <<"sessions", "delete">>
          \/ Head(c) = "sessions" /\ Tail(c) = <<"delete">>
          \/ Head(c) = "delete" /\ Tail(c) = <<>>
NextOf(p, a, c) ==
    IF Keyed(p, a) THEN KeyedNext(a, c) ELSE IF Long(p, a) THEN LongNext(p, a, c) ELSE PlainNext(p, a, c)

LEMMA NextStatement ==
  ASSUME NEW p, NEW a, NEW c, c \in Left(p, a), c # <<>>
  PROVE  Tail(c) \in Left(p, a) /\ NextOf(p, a, c)
<1>1. CASE ~Keyed(p, a) /\ ~Long(p, a)
  <2>1. c = <<Writes(p, a)>> \/ (c = <<"guard", Writes(p, a)>> /\ Checked(p, a))
    BY <1>1 DEF Left
  <2>2. PlainNext(p, a, c)
    BY <2>1, ShortSequences, Zenon DEF PlainNext
  <2>3. Tail(c) \in {<<>>, <<Writes(p, a)>>}
    BY <2>2, Zenon DEF PlainNext
  <2> QED BY <1>1, <2>2, <2>3 DEF Left, NextOf
<1>2. CASE Keyed(p, a) /\ a.form = "create"
  <2>1. c \in {<<"persist">>, <<"upsert", "persist">>}
    BY <1>2 DEF Left
  <2>2. KeyedNext(a, c)
    <3>1. CASE c = <<"persist">>
      BY <1>2, <3>1 DEF KeyedNext
    <3>2. CASE c = <<"upsert", "persist">>
      BY <1>2, <3>2 DEF KeyedNext
    <3> QED BY <2>1, <3>1, <3>2
  <2>3. Tail(c) \in {<<>>, <<"persist">>}
    BY <1>2, <2>2, Zenon DEF KeyedNext
  <2> QED BY <1>2, <2>2, <2>3 DEF Left, NextOf
<1>3. CASE Keyed(p, a) /\ a.form # "create"
  <2>1. c \in {<<"put">>, <<"get", "put">>, <<"persist", "get", "put">>, <<"patch", "persist", "get", "put">>}
    BY <1>3 DEF Left
  <2>2. KeyedNext(a, c)
    <3>1. CASE c = <<"put">>
      BY <1>3, <3>1 DEF KeyedNext
    <3>2. CASE c = <<"get", "put">>
      BY <1>3, <3>2 DEF KeyedNext
    <3>3. CASE c = <<"persist", "get", "put">>
      BY <1>3, <3>3 DEF KeyedNext
    <3>4. CASE c = <<"patch", "persist", "get", "put">>
      BY <1>3, <3>4 DEF KeyedNext
    <3> QED BY <2>1, <3>1, <3>2, <3>3, <3>4
  <2>3. Tail(c) \in {<<>>, <<"put">>, <<"get", "put">>, <<"persist", "get", "put">>}
    BY <1>3, <2>2, Zenon DEF KeyedNext
  <2> QED BY <1>3, <2>2, <2>3 DEF Left, NextOf
<1>4. CASE ~Keyed(p, a) /\ Long(p, a)
  <2>1. Left(p, a) = LongLeft(p, a) /\ (NextOf(p, a, c) <=> LongNext(p, a, c))
    BY <1>4 DEF Left, NextOf
  <2>2. CASE p = "roles"
    <3>1. c \in {<<"read">>, <<"edit", "read">>, <<"describe", "edit", "read">>,
                <<"guard", "describe", "edit", "read">>}
      BY <2>1, <2>2 DEF LongLeft
    <3>2. LongNext(p, a, c) /\ Tail(c) \in {<<>>, <<"read">>, <<"edit", "read">>, <<"describe", "edit", "read">>}
      <4>1. CASE c = <<"read">>
        BY <2>2, <4>1 DEF LongNext
      <4>2. CASE c = <<"edit", "read">>
        BY <2>2, <4>2 DEF LongNext
      <4>3. CASE c = <<"describe", "edit", "read">>
        BY <2>2, <4>3 DEF LongNext
      <4>4. CASE c = <<"guard", "describe", "edit", "read">>
        BY <2>2, <4>4 DEF LongNext
      <4> QED BY <3>1, <4>1, <4>2, <4>3, <4>4
    <3> QED BY <2>1, <2>2, <3>2 DEF LongLeft
  <2>3. CASE p = "applications"
    <3>1. c \in {<<"read">>, <<a.form, "read">>}
      BY <2>1, <2>3 DEF LongLeft
    <3>2. LongNext(p, a, c) /\ Tail(c) \in {<<>>, <<"read">>}
      <4>1. CASE c = <<"read">>
        BY <2>3, <4>1 DEF LongNext
      <4>2. CASE c = <<a.form, "read">>
        BY <2>3, <4>2 DEF LongNext
      <4> QED BY <3>1, <4>1, <4>2
    <3> QED BY <2>1, <2>3, <3>2 DEF LongLeft
  <2>4. CASE p = "operators" /\ a.form = "edit"
    <3>1. c \in {<<"read">>, <<"edit", "read">>}
      BY <2>1, <2>4 DEF LongLeft
    <3>2. LongNext(p, a, c) /\ Tail(c) \in {<<>>, <<"read">>}
      <4>1. CASE c = <<"read">>
        BY <2>4, <4>1 DEF LongNext
      <4>2. CASE c = <<"edit", "read">>
        BY <2>4, <4>2 DEF LongNext
      <4> QED BY <3>1, <4>1, <4>2
    <3> QED BY <2>1, <2>4, <3>2 DEF LongLeft
  <2>5. CASE p = "operators" /\ a.form = "delete"
    <3>1. c \in {<<"delete">>, <<"sessions", "delete">>, <<"guard", "sessions", "delete">>}
      BY <2>1, <2>5 DEF LongLeft
    <3>2. LongNext(p, a, c) /\ Tail(c) \in {<<>>, <<"delete">>, <<"sessions", "delete">>}
      <4>1. CASE c = <<"delete">>
        BY <2>5, <4>1 DEF LongNext
      <4>2. CASE c = <<"sessions", "delete">>
        BY <2>5, <4>2 DEF LongNext
      <4>3. CASE c = <<"guard", "sessions", "delete">>
        BY <2>5, <4>3 DEF LongNext
      <4> QED BY <3>1, <4>1, <4>2, <4>3
    <3> QED BY <2>1, <2>5, <3>2 DEF LongLeft
  <2> QED BY <1>4, <2>2, <2>3, <2>4, <2>5 DEF Long
<1> QED BY <1>1, <1>2, <1>3, <1>4

LEMMA ExecuteStep ==
  ASSUME NEW d \in Database, NEW p \in PageName, NEW a, Filled(p, a, d),
         NEW c, c \in Left(p, a), c # <<>>
  PROVE  StepSound(p, Head(c), a, d, Execute(p, Head(c), a, d))
<1> DEFINE s == Head(c)
<1>1. NextOf(p, a, c)
  BY NextStatement
<1>2. CASE p = "providers"
  <2>1. ProviderFilled(a)
    BY <1>2 DEF Filled
  <2>2. \/ a.form = "create" /\ s \in {"upsert", "persist"}
        \/ a.form = "edit" /\ s \in {"patch", "persist", "get", "put"}
        \/ a.form = "delete" /\ s \in {"guard", "delete"}
    BY <1>1, <1>2, <2>1 DEF NextOf, Long, Keyed, KeyedNext, PlainNext, Writes, Checked, ProviderFilled
  <2>3. StepSound("providers", s, a, d, ProviderStatement(s, a, d))
    BY <2>1, <2>2, ProviderStep
  <2> QED BY <1>2, <2>3 DEF Execute
<1> DEFINE plain == s = Writes(p, a) \/ (s = "guard" /\ Checked(p, a))
<1>3. p # "providers" /\ ~Long(p, a) => plain
  BY <1>1 DEF NextOf, Keyed, PlainNext
<1>4. Long(p, a) => LongNext(p, a, c)
  BY <1>1 DEF NextOf, Keyed, Long
<1> HIDE DEF s
<1>5. CASE p = "models"
  <2>1. ModelFilled(a) /\ (s = "guard" \/ s = IF a.form = "delete" THEN "delete" ELSE "write")
    BY <1>3, <1>5 DEF Filled, Long, Writes
  <2> QED BY <1>5, <2>1, ModelStep DEF Execute, s
<1>6. CASE p = "routes"
  <2>1. RouteFilled(a) /\ (IF a.form = "delete" THEN s = "delete" ELSE s \in {"guard", "write"})
    BY <1>3, <1>6 DEF Filled, Long, Writes, Checked
  <2> QED BY <1>6, <2>1, RouteStep DEF Execute, s
<1>7. CASE p = "plugins"
  <2>1. PluginFilled(a) /\ s = a.form
    BY <1>3, <1>7 DEF Filled, Long, Writes, Checked
  <2> QED BY <1>7, <2>1, PluginStep DEF Execute, s
<1>8. CASE p = "tenants"
  <2>1. TenantFilled(a) /\ s = a.form
    BY <1>3, <1>8 DEF Filled, Long, Writes, Checked
  <2> QED BY <1>8, <2>1, TenantStep DEF Execute, s
<1>9. CASE p = "groups"
  <2>1. GroupFilled(a) /\ (IF a.form = "delete" THEN s \in {"guard", "delete"} ELSE s = a.form)
    BY <1>3, <1>9 DEF Filled, Long, Writes, Checked
  <2> QED BY <1>9, <2>1, GroupStep DEF Execute, s
<1>10. CASE p = "applications"
  <2>1. ApplicationFilled(a) /\ (IF a.form = "delete" THEN s \in {"guard", "delete"} ELSE s \in {a.form, "read"})
    BY <1>3, <1>10, <1>4 DEF Filled, Long, LongNext, Writes, Checked, s
  <2> QED BY <1>10, <2>1, ApplicationStep DEF Execute, s
<1>11. CASE p = "apikeys"
  <2>1. APIKeyFilled(a) /\ s = a.form
    BY <1>3, <1>11 DEF Filled, Long, Writes, Checked
  <2> QED BY <1>11, <2>1, APIKeyStep DEF Execute, s
<1>12. CASE p = "operators"
  <2>1. /\ OperatorFilled(a)
        /\ CASE a.form = "delete" -> s \in {"guard", "sessions", "delete"}
             [] a.form = "edit" -> s \in {"edit", "read"}
             [] OTHER -> s = IF a.body = Nil THEN "invalid" ELSE "create"
    BY <1>3, <1>12, <1>4 DEF Filled, Long, LongNext, Writes, Checked, s
  <2> QED BY <1>12, <2>1, OperatorStep DEF Execute, s
<1>13. CASE p = "roles"
  <2>1. RoleFilled(a) /\ (IF a.form = "edit" THEN s \in {"guard", "describe", "edit", "read"} ELSE s \in {"guard", a.form})
    BY <1>3, <1>13, <1>4 DEF Filled, Long, LongNext, Writes, Checked, s
  <2> QED BY <1>13, <2>1, RoleStep DEF Execute, s
<1>14. CASE p = "budgets"
  <2>1. BudgetFilled(a, d) /\ s = a.form
    BY <1>3, <1>14 DEF Filled, Long, Writes, Checked
  <2> QED BY <1>14, <2>1, BudgetStep DEF Execute, s
<1>15. CASE p = "reservations"
  <2>1. ReservationFilled(a, d) /\ s = a.form
    BY <1>3, <1>15 DEF Filled, Long, Writes, Checked
  <2> QED BY <1>15, <2>1, ReservationStep DEF Execute, s
<1> QED BY <1>2, <1>5, <1>6, <1>7, <1>8, <1>9, <1>10, <1>11, <1>12, <1>13, <1>14, <1>15 DEF PageName

(* A handler starts with a statement that relies on nothing.                 *)
LEMMA CallsStart ==
  ASSUME NEW d, NEW p \in PageName, NEW a, Filled(p, a, d)
  PROVE  /\ Calls(p, a) \in Left(p, a) /\ Calls(p, a) # <<>>
         /\ \A e : Held(p, Head(Calls(p, a)), a, e)
<1>1. CASE p = "providers"
  <2>1. ProviderFilled(a) /\ Calls(p, a) = ProviderCalls(a)
    BY <1>1 DEF Filled, Calls
  <2> DEFINE c == ProviderCalls(a)
  <2>2. CASE a.form = "create"
    <3>1. c = IF a.body.key THEN <<"upsert", "persist">> ELSE <<"upsert">>
      BY <2>2 DEF ProviderCalls
    <3> HIDE DEF c
    <3>2. c \in Left(p, a) /\ c # <<>> /\ Head(c) = "upsert"
      BY <1>1, <2>2, <3>1 DEF Left, Keyed, Long, Writes
    <3> QED BY <1>1, <2>1, <3>2 DEF Held, c
  <2>3. CASE a.form = "edit"
    <3>1. c = IF a.body.key THEN <<"patch", "persist", "get", "put">> ELSE <<"patch">>
      BY <2>3 DEF ProviderCalls
    <3> HIDE DEF c
    <3>2. c \in Left(p, a) /\ c # <<>> /\ Head(c) = "patch"
      BY <1>1, <2>3, <3>1 DEF Left, Keyed, Long, Writes
    <3> QED BY <1>1, <2>1, <3>2 DEF Held, c
  <2>4. CASE a.form = "delete"
    <3>1. c = <<"guard", "delete">>
      BY <2>4 DEF ProviderCalls
    <3> HIDE DEF c
    <3>2. c \in Left(p, a) /\ c # <<>> /\ Head(c) = "guard"
      BY <1>1, <2>4, <3>1 DEF Left, Keyed, Long, Writes, Checked
    <3> QED BY <1>1, <2>1, <3>2 DEF Held, c
  <2> QED BY <2>1, <2>2, <2>3, <2>4 DEF ProviderFilled
<1>2. CASE p # "providers" /\ ~Long(p, a)
  <2> DEFINE w == Writes(p, a)
             c == Calls(p, a)
  <2>1. c = IF Checked(p, a) THEN <<"guard", w>> ELSE <<w>>
    <3>1. CASE p \in {"models", "routes"}
      BY <1>2, <3>1 DEF Calls, ModelCalls, RouteCalls, Writes, Checked
    <3>2. CASE p \in {"groups", "applications"}
      BY <1>2, <3>2 DEF Calls, GroupCalls, ApplicationCalls, Long, Writes, Checked
    <3>3. CASE p = "operators"
      BY <1>2, <3>3 DEF Calls, OperatorCalls, Long, Writes, Checked
    <3>4. CASE p = "roles"
      BY <1>2, <3>4 DEF Calls, RoleCalls, Long, Writes, Checked
    <3>5. CASE p \in {"plugins", "tenants", "apikeys", "budgets", "reservations"}
      BY <1>2, <3>5 DEF Calls, Writes, Checked
    <3> QED BY <1>2, <3>1, <3>2, <3>3, <3>4, <3>5 DEF PageName
  <2>2. /\ p \in {"models", "roles"} => Checked(p, a)
        /\ p = "routes" => (~Checked(p, a) => w = "delete")
        /\ p = "applications" => Checked(p, a)
        /\ p = "operators" => (~Checked(p, a) => w \in {"invalid", "create"})
    BY <1>2 DEF Checked, Writes, Filled, OperatorFilled, Long
  <2>3. ~Keyed(p, a)
    BY <1>2 DEF Keyed
  <2> HIDE DEF c, w
  <2>4. c \in Left(p, a) /\ c # <<>> /\ Head(c) = IF Checked(p, a) THEN "guard" ELSE w
    BY <1>2, <2>1, <2>3 DEF Left, w
  <2>5. \A e : Held(p, Head(c), a, e)
    BY <1>2, <2>2, <2>4 DEF Held
  <2> QED BY <2>4, <2>5 DEF c
<1>3. CASE Long(p, a)
  <2> DEFINE c == Calls(p, a)
  <2>1. Left(p, a) = LongLeft(p, a)
    BY <1>3 DEF Left, Keyed, Long
  <2>2. CASE p = "roles"
    <3>1. c = <<"guard", "describe", "edit", "read">>
      BY <1>3, <2>2 DEF Long, Calls, RoleCalls
    <3>2. c \in LongLeft(p, a) /\ c # <<>> /\ Head(c) = "guard"
      BY <2>2, <3>1 DEF LongLeft
    <3> QED BY <2>1, <2>2, <3>2 DEF Held
  <2>3. CASE p = "applications"
    <3>1. c = <<a.form, "read">> /\ a.form # "read"
      BY <1>3, <2>3 DEF Long, Calls, ApplicationCalls, Filled, ApplicationFilled
    <3>2. c \in LongLeft(p, a) /\ c # <<>> /\ Head(c) = a.form
      BY <2>3, <3>1 DEF LongLeft
    <3> QED BY <2>1, <2>3, <3>1, <3>2 DEF Held
  <2>4. CASE p = "operators" /\ a.form = "edit"
    <3>1. c = <<"edit", "read">>
      BY <2>4 DEF Calls, OperatorCalls
    <3>2. c \in LongLeft(p, a) /\ c # <<>> /\ Head(c) = "edit"
      BY <2>4, <3>1 DEF LongLeft
    <3> QED BY <2>1, <2>4, <3>2 DEF Held
  <2>5. CASE p = "operators" /\ a.form = "delete"
    <3>1. c = <<"guard", "sessions", "delete">>
      BY <2>5 DEF Calls, OperatorCalls
    <3>2. c \in LongLeft(p, a) /\ c # <<>> /\ Head(c) = "guard"
      BY <2>5, <3>1 DEF LongLeft
    <3> QED BY <2>1, <2>5, <3>2 DEF Held
  <2> QED BY <1>3, <2>2, <2>3, <2>4, <2>5 DEF Long
<1> QED BY <1>1, <1>2, <1>3

(* A statement that is done has found what the next one relies on.           *)
LEMMA HeldNext ==
  ASSUME NEW d \in Database, NEW p \in PageName, NEW a, Filled(p, a, d),
         NEW c, c \in Left(p, a), c # <<>>, Tail(c) # <<>>, Held(p, Head(c), a, d),
         Execute(p, Head(c), a, d).ok
  PROVE  Held(p, Head(Tail(c)), a, Execute(p, Head(c), a, d).db)
<1> DEFINE s == Head(c)
           n == Head(Tail(c))
           r == Execute(p, s, a, d)
<1>1. NextOf(p, a, c)
  BY NextStatement
<1>2. CASE ~Keyed(p, a) /\ ~Long(p, a)
  <2>1. s = "guard" /\ Checked(p, a) /\ n = Writes(p, a)
    BY <1>1, <1>2, ShortSequences, Zenon DEF NextOf, PlainNext
  <2>2. CASE p = "providers"
    <3>1. ProviderStatement(s, a, d) = Result(ProviderReferencedBy(a.name, d) = {}, d) /\ n = "delete"
      BY <2>1, <2>2 DEF ProviderStatement, Checked, Writes
    <3>2. r = Result(ProviderReferencedBy(a.name, d) = {}, d)
      BY <2>2, <3>1 DEF Execute
    <3>3. r.db = d /\ ProviderReferencedBy(a.name, d) = {}
      <4>1. r.ok = (ProviderReferencedBy(a.name, d) = {}) /\ r.db = d
        BY <3>2 DEF Result
      <4> QED BY <4>1, Zenon
    <3> QED BY <2>2, <3>1, <3>3 DEF Held
  <2>3. CASE p = "models"
    <3>1. ModelStatement(s, a, d) = Result(ModelAccepted(a, d), d)
      BY <2>1 DEF ModelStatement
    <3> QED BY <2>3, <3>1 DEF Execute, Result, Held
  <2>4. CASE p = "routes"
    <3>1. RouteStatement(s, a, d) = Result(RouteAccepted(a, d), d)
      BY <2>1 DEF RouteStatement
    <3> QED BY <2>4, <3>1 DEF Execute, Result, Held
  <2>5. CASE p \in {"applications", "roles"}
    <3>1. n # "read" /\ (p = "roles" => n \notin {"describe", "edit"})
      BY <1>2, <2>1, <2>5 DEF Writes, Long, Filled, ApplicationFilled, RoleFilled
    <3> QED BY <2>5, <3>1 DEF Held
  <2>6. CASE p \notin {"providers", "models", "routes", "applications", "operators", "roles"}
    BY <2>6 DEF Held
  <2> QED BY <1>2, <2>1, <2>2, <2>3, <2>4, <2>5, <2>6 DEF Checked
<1>3. CASE Long(p, a)
  <2>1. LongNext(p, a, c)
    BY <1>1, <1>3 DEF NextOf, Keyed, Long
  <2>2. CASE p = "roles"
    <3>1. RoleFilled(a) /\ a.form = "edit" /\ r = RoleStatement(s, a, d)
      BY <1>3, <2>2 DEF Filled, Long, Execute
    <3>2. \/ s = "guard" /\ n = "describe"
          \/ s = "describe" /\ n = "edit"
          \/ s = "edit" /\ n = "read"
      BY <2>1, <2>2, NextHeads, Zenon DEF LongNext
    <3>3. r.db.role[a.name] # Absent
      <4>1. CASE s = "guard"
        <5>1. r = Result(d.role[a.name] # Absent, d)
          BY <3>1, <4>1 DEF RoleStatement
        <5>2. r.ok = (d.role[a.name] # Absent) /\ r.db = d
          BY <5>1 DEF Result
        <5> QED BY <5>2, Zenon
      <4>2. CASE s = "describe"
        <5>1. d.role[a.name] # Absent
          BY <2>2, <4>2 DEF Held
        <5>2. r.db = d
          BY <3>1, <4>2 DEF RoleStatement, Done, Beside, Result
        <5> QED BY <5>1, <5>2
      <4>3. CASE s = "edit"
        <5> DEFINE e == [d EXCEPT !.role[a.name] = a.body]
        <5>1. d.role[a.name] # Absent
          BY <2>2, <4>3 DEF Held
        <5>2. r.db = e
          BY <3>1, <4>3, <5>1 DEF RoleStatement, Done, Result
        <5>3. a.name \in Role /\ a.body \in Perms /\ a.body # Absent /\ d.role \in [Role -> Perms \cup {Absent}]
          BY <3>1, ConsoleTenancyAssumption DEF RoleFilled, Database, Table
        <5>4. e.role = [d.role EXCEPT ![a.name] = a.body]
          BY <5>3, PutRole
        <5> HIDE DEF e
        <5> QED BY <5>2, <5>3, <5>4
      <4> QED BY <3>2, <4>1, <4>2, <4>3
    <3> QED BY <2>2, <3>3 DEF Held
  <2>3. CASE p = "applications"
    <3>1. ApplicationFilled(a) /\ r = ApplicationStatement(s, a, d) /\ a.form # "delete"
      BY <1>3, <2>3 DEF Filled, Long, Execute
    <3>2. s = a.form /\ n = "read"
      BY <2>1, <2>3, NextHeads, Zenon DEF LongNext
    <3>3. r.db.application[a.name] # Absent
      <4>1. a.name \in Unit /\ d.application \in [Unit -> ApplicationRow \cup {Absent}] /\ Absent \notin ApplicationRow
        BY <3>1, ConsoleTenancyAssumption DEF ApplicationFilled, Database, Table
      <4>2. PICK row \in ApplicationRow : r.db = [d EXCEPT !.application[a.name] = row]
        <5>1. CASE a.form = "create"
          <6>1. a.body \in Unit /\ r.db = [d EXCEPT !.application[a.name] = [status |-> "on", owner |-> a.body]]
            BY <3>1, <3>2, <5>1 DEF ApplicationStatement, ApplicationFilled, Refused, Done, Result
          <6>2. [status |-> "on", owner |-> a.body] \in ApplicationRow
            BY <6>1 DEF ApplicationRow, Statuses
          <6> QED BY <6>1, <6>2, Zenon
        <5>2. CASE a.form \in {"disable", "enable"}
          <6> DEFINE st == IF a.form = "disable" THEN "off" ELSE "on"
                     row == [status |-> st, owner |-> d.application[a.name].owner]
          <6>1. d.application[a.name] # Absent /\ r.db = [d EXCEPT !.application[a.name] = row]
            BY <3>1, <3>2, <5>2 DEF ApplicationStatement, Refused, Done, Result
          <6>2. row \in ApplicationRow
            BY <4>1, <6>1 DEF ApplicationRow, Statuses
          <6> QED BY <6>1, <6>2, Zenon
        <5> QED BY <3>1, <5>1, <5>2 DEF ApplicationFilled
      <4> DEFINE e == [d EXCEPT !.application[a.name] = row]
      <4>3. e.application = [d.application EXCEPT ![a.name] = row]
        BY <4>1, PutApplication
      <4> HIDE DEF e
      <4>4. e.application[a.name] = row /\ row # Absent
        BY <4>1, <4>3
      <4> QED BY <4>2, <4>4 DEF e
    <3> QED BY <2>3, <3>2, <3>3 DEF Held
  <2>4. CASE p = "operators"
    <3>1. r = OperatorStatement(s, a, d)
      BY <2>4 DEF Execute
    <3>2. \/ s = "edit" /\ n = "read"
          \/ s = "guard" /\ n = "sessions"
          \/ s = "sessions" /\ n = "delete"
      BY <1>3, <2>1, <2>4, NextHeads, Zenon DEF LongNext
    <3>3. CASE s = "edit"
      <4>1. d.operator[a.name] # Absent /\ r.db = d
        BY <3>1, <3>3 DEF OperatorStatement, Refused, Beside, Result
      <4> QED BY <2>4, <3>2, <3>3, <4>1 DEF Held
    <3>4. CASE s = "guard"
      <4>1. r = Result(OperatorDeletable(a.name, d), d)
        BY <3>1, <3>4 DEF OperatorStatement
      <4>2. r.ok = OperatorDeletable(a.name, d) /\ r.db = d
        BY <4>1 DEF Result
      <4>3. OperatorDeletable(a.name, d)
        BY <4>2, Zenon
      <4> QED BY <2>4, <3>2, <3>4, <4>2, <4>3 DEF Held
    <3>5. CASE s = "sessions"
      <4>1. r.db = d /\ OperatorDeletable(a.name, d)
        BY <2>4, <3>1, <3>5 DEF OperatorStatement, Beside, Held
      <4> QED BY <2>4, <3>2, <3>5, <4>1 DEF Held
    <3> QED BY <3>2, <3>3, <3>4, <3>5
  <2> QED BY <1>3, <2>2, <2>3, <2>4 DEF Long
<1>4. CASE Keyed(p, a)
  <2>1. p = "providers" /\ a.form \in {"create", "edit"} /\ ProviderFilled(a) /\ r = ProviderStatement(s, a, d)
    BY <1>4 DEF Keyed, Filled, ProviderFilled, Execute
  <2>2. a.name \in Provider /\ d.provider \in [Provider -> Reference \cup {Absent}]
    BY <2>1 DEF ProviderFilled, Database, Table
  <2>3. CASE s = "upsert"
    <3> DEFINE e == [d EXCEPT !.provider[a.name] = ProviderBody(a)]
    <3>1. ProviderBody(a) \in Reference /\ ProviderBody(a) # Absent
      BY <2>1, ProviderBodyFits, ConsoleTenancyAssumption
    <3>2. r.db = e /\ e.provider[a.name] = ProviderBody(a) /\ n = "persist"
      <4>1. r = Done(e)
        BY <2>1, <2>3 DEF ProviderStatement
      <4>2. e.provider = [d.provider EXCEPT ![a.name] = ProviderBody(a)]
        BY <2>2, <3>1, PutProvider
      <4>3. n = "persist"
        BY <1>1, <1>4, <2>3, ShortSequences DEF NextOf, KeyedNext
      <4> HIDE DEF e
      <4> QED BY <2>2, <4>1, <4>2, <4>3 DEF Done, Result
    <3> QED BY <2>1, <3>1, <3>2 DEF Held
  <2>4. CASE s = "patch"
    <3> DEFINE e == [d EXCEPT !.provider[a.name] = d.provider[a.name]]
    <3>1. a.body.key
      BY <1>4 DEF Keyed
    <3>2. n = "persist"
      <4>1. Tail(c) = <<"persist", "get", "put">>
        BY <1>1, <1>4, <2>4 DEF NextOf, KeyedNext
      <4> QED BY <4>1, NextHeads, Zenon
    <3>3. d.provider[a.name] # Absent /\ r = Done(e)
      BY <2>1, <2>4, <3>1 DEF ProviderStatement, Refused, Result
    <3>4. e.provider = [d.provider EXCEPT ![a.name] = d.provider[a.name]]
      BY <2>2, PutProvider
    <3> HIDE DEF e
    <3>5. r.db.provider[a.name] # Absent
      BY <2>2, <3>3, <3>4 DEF Done, Result
    <3> QED BY <2>1, <3>2, <3>5 DEF Held
  <2>5. CASE s = "persist"
    <3> DEFINE e == [d EXCEPT !.key = @ \cup {a.name}]
    <3>1. n = "get"
      <4>1. Tail(c) = <<"get", "put">>
        BY <1>1, <1>4, <2>5 DEF NextOf, KeyedNext
      <4> QED BY <4>1, NextHeads, Zenon
    <3>2. r = Done(e)
      BY <2>1, <2>5 DEF ProviderStatement, Refused, Result
    <3>3. e.key = d.key \cup {a.name} /\ e.provider = d.provider
      BY <2>2, PutKey DEF SameBut
    <3> HIDE DEF e
    <3>4. a.name \in r.db.key /\ r.db.provider[a.name] # Absent
      BY <2>1, <2>5, <3>2, <3>3 DEF Done, Result, Held
    <3> QED BY <2>1, <3>1, <3>4 DEF Held
  <2>6. CASE s = "get"
    <3>1. n = "put" /\ a.name \in d.key
      BY <1>1, <1>4, <2>1, <2>6, ShortSequences DEF NextOf, KeyedNext, Held
    <3>2. r = Done(d)
      BY <2>1, <2>6 DEF ProviderStatement, Refused, Result
    <3> QED BY <2>1, <3>1, <3>2 DEF Held, Done, Result
  <2> QED BY <1>1, <1>4, <2>3, <2>4, <2>5, <2>6 DEF NextOf, KeyedNext
<1> QED BY <1>2, <1>4, <1>3

(* What follows a statement that may write comes late, and what comes late   *)
(* is never refused when it finds what the handler relies on.                *)
LEMMA LateNext ==
  ASSUME NEW d, NEW p \in PageName, NEW a, Filled(p, a, d),
         NEW c, c \in Left(p, a), c # <<>>, Tail(c) # <<>>, Head(c) # "guard"
  PROVE  Late(p, a, Head(Tail(c)))
<1> DEFINE n == Head(Tail(c))
<1>1. NextOf(p, a, c)
  BY NextStatement
<1>2. CASE Keyed(p, a)
  <2>1. n \in {"persist", "get", "put"}
    BY <1>1, <1>2, NextHeads, Zenon DEF NextOf, KeyedNext
  <2>2. CommitsEarly(p, a)
    BY <1>2 DEF Keyed, Filled, ProviderFilled, CommitsEarly
  <2> QED BY <2>1, <2>2 DEF Late
<1>3. CASE ~Keyed(p, a) /\ Long(p, a)
  <2>1. LongNext(p, a, c)
    BY <1>1, <1>3 DEF NextOf
  <2>2. n = "read" \/ (p = "roles" /\ n = "edit") \/ (p = "operators" /\ n = "delete")
    BY <2>1, NextHeads, Zenon DEF LongNext
  <2>3. CommitsEarly(p, a)
    BY <1>3 DEF Long, Filled, ApplicationFilled, CommitsEarly
  <2> QED BY <2>2, <2>3 DEF Late
<1>4. CASE ~Keyed(p, a) /\ ~Long(p, a)
  BY <1>1, <1>4 DEF NextOf, PlainNext
<1> QED BY <1>2, <1>3, <1>4

LEMMA LateSucceeds ==
  ASSUME NEW d, NEW p \in PageName, NEW a, Filled(p, a, d), NEW c, c \in Left(p, a), c # <<>>,
         Late(p, a, Head(c)), Held(p, Head(c), a, d)
  PROVE  Execute(p, Head(c), a, d).ok
<1> DEFINE s == Head(c)
<1>1. NextOf(p, a, c)
  BY NextStatement
<1>2. CASE p = "providers"
  <2>1. s \in {"persist", "get", "put"}
    BY <1>1, <1>2 DEF Late, CommitsEarly, NextOf, Keyed, KeyedNext
  <2> HIDE DEF s
  <2> QED BY <1>2, <2>1 DEF Execute, ProviderStatement, Held, Done, Result, s
<1>3. CASE p = "roles"
  <2>1. s \in {"edit", "read"}
    BY <1>1, <1>3 DEF Late, CommitsEarly, NextOf, Keyed, Long, LongNext
  <2>2. d.role[a.name] # Absent
    BY <1>3, <2>1 DEF Held
  <2>3. Execute(p, s, a, d) = RoleStatement(s, a, d)
    BY <1>3 DEF Execute
  <2>4. CASE s = "edit"
    BY <2>2, <2>3, <2>4 DEF RoleStatement, Done, Result
  <2>5. CASE s = "read"
    <3>1. RoleStatement(s, a, d) = Result(d.role[a.name] # Absent, d)
      BY <2>5 DEF RoleStatement
    <3>2. Execute(p, s, a, d).ok = (d.role[a.name] # Absent)
      BY <2>3, <3>1 DEF Result
    <3> QED BY <2>2, <3>2, Zenon
  <2> QED BY <2>1, <2>4, <2>5
<1>4. CASE p = "applications"
  <2>1. s = "read"
    BY <1>1, <1>4 DEF Late, CommitsEarly, NextOf, Keyed, Long, LongNext
  <2>2. d.application[a.name] # Absent
    BY <1>4, <2>1 DEF Held
  <2>3. Execute(p, s, a, d) = Result(d.application[a.name] # Absent, d)
    BY <1>4, <2>1 DEF Execute, ApplicationStatement
  <2>4. Execute(p, s, a, d).ok = (d.application[a.name] # Absent)
    BY <2>3 DEF Result
  <2> QED BY <2>2, <2>4, Zenon
<1>5. CASE p = "operators"
  <2>1. s \in {"read", "delete"}
    BY <1>1, <1>5 DEF Late, CommitsEarly, NextOf, Keyed, Long, LongNext
  <2>2. d.operator[a.name] # Absent
    BY <1>5, <2>1 DEF Held, OperatorDeletable
  <2>3. Execute(p, s, a, d) = OperatorStatement(s, a, d)
    BY <1>5 DEF Execute
  <2>4. CASE s = "delete"
    BY <2>2, <2>3, <2>4 DEF OperatorStatement, Done, Result
  <2>5. CASE s = "read"
    <3>1. OperatorStatement(s, a, d) = Result(d.operator[a.name] # Absent, d)
      BY <2>5 DEF OperatorStatement
    <3>2. Execute(p, s, a, d).ok = (d.operator[a.name] # Absent)
      BY <2>3, <3>1 DEF Result
    <3> QED BY <2>2, <3>2, Zenon
  <2> QED BY <2>1, <2>4, <2>5
<1> QED BY <1>2, <1>3, <1>4, <1>5 DEF Late, CommitsEarly

(* A provider comes to refer to a key it does not have only when it is       *)
(* created with one, or when the reference itself is written.                *)
Owed(p, d) == d.provider[p] = "db" /\ p \notin d.key

LEMMA KeysOwedBy ==
  ASSUME NEW d \in Database, NEW a, ProviderFilled(a), NEW s, Held("providers", s, a, d),
         \/ a.form = "create" /\ s \in {"upsert", "persist"}
         \/ a.form = "edit" /\ s \in {"patch", "persist", "get", "put"}
         \/ a.form = "delete" /\ s \in {"guard", "delete"},
         NEW p \in Provider, Owed(p, ProviderStatement(s, a, d).db),
         ~(/\ p = a.name /\ a.form # "delete" /\ ~a.body.key
           /\ ProviderStatement(s, a, d).db # d /\ ProviderStatement(s, a, d).db.provider[p] = "db")
  PROVE  \/ Owed(p, d) /\ (s = "persist" => p # a.name)
         \/ s = "upsert" /\ p = a.name /\ a.body.key
<1> DEFINE n == a.name
           r == ProviderStatement(s, a, d)
<1>1. n \in Provider /\ d.provider \in [Provider -> Reference \cup {Absent}] /\ Absent \notin Reference
  BY ConsoleTenancyAssumption DEF ProviderFilled, Database, Table
<1>2. CASE s = "upsert"
  <2> DEFINE e == [d EXCEPT !.provider[n] = ProviderBody(a)]
  <2>1. r.db = e
    BY <1>2 DEF ProviderStatement, Done, Result
  <2>2. ProviderBody(a) \in Reference
    BY <1>2, ProviderBodyFits
  <2>3. e.provider = [d.provider EXCEPT ![n] = ProviderBody(a)] /\ e.key = d.key
    BY <1>1, <2>2, PutProvider DEF SameBut
  <2> HIDE DEF e
  <2>4. CASE p # n
    BY <1>1, <1>2, <2>1, <2>3, <2>4 DEF Owed
  <2>5. CASE p = n /\ r.db = d
    BY <1>2, <2>5 DEF Owed
  <2>6. CASE p = n /\ r.db # d
    <3>1. a.body.key
      BY <1>2, <2>6 DEF Owed
    <3> QED BY <1>2, <2>6, <3>1
  <2> QED BY <2>4, <2>5, <2>6
<1>3. CASE s = "patch"
  <2> DEFINE v == IF a.body.key \/ a.body.ref = "" THEN d.provider[n] ELSE a.body.ref
             e == [d EXCEPT !.provider[n] = v]
  <2>1. CASE d.provider[n] = Absent
    BY <1>3, <2>1 DEF ProviderStatement, Refused, Result
  <2>2. CASE d.provider[n] # Absent
    <3>1. r.db = e
      BY <1>3, <2>2 DEF ProviderStatement, Done, Result
    <3>2. v \in Reference
      BY <1>1, <1>3, <2>2, ProviderBodyFits
    <3>3. a.body.key => v = d.provider[n]
      OBVIOUS
    <3> HIDE DEF v
    <3>4. e.provider = [d.provider EXCEPT ![n] = v] /\ e.key = d.key
      BY <1>1, <3>2, PutProvider DEF SameBut
    <3> HIDE DEF e
    <3>5. CASE p # n
      BY <1>1, <1>3, <3>1, <3>4, <3>5 DEF Owed
    <3>6. CASE p = n /\ r.db = d
      BY <1>3, <3>6 DEF Owed
    <3>7. CASE p = n /\ r.db # d
      <4>1. a.body.key
        BY <1>3, <3>7 DEF Owed
      <4> QED BY <1>1, <1>3, <3>1, <3>3, <3>4, <3>7, <4>1 DEF Owed
    <3> QED BY <3>5, <3>6, <3>7
  <2> QED BY <2>1, <2>2
<1>4. CASE s = "persist"
  <2> DEFINE e == [d EXCEPT !.key = @ \cup {n}]
  <2>1. r.db = e
    BY <1>4 DEF Held, ProviderStatement, Done, Result
  <2>2. e.provider = d.provider /\ e.key = d.key \cup {n}
    BY <1>1, PutKey DEF SameBut
  <2> HIDE DEF e
  <2> QED BY <2>1, <2>2 DEF Owed
<1>5. CASE s \in {"get", "guard"}
  <2>1. r.db = d
    BY <1>5 DEF ProviderStatement, Refused, Done, Result
  <2> QED BY <1>5, <2>1
<1>6. CASE s = "put"
  <2> DEFINE e == [d EXCEPT !.provider[n] = "db"]
  <2>1. r.db = e /\ n \in d.key
    BY <1>6 DEF Held, ProviderStatement, Done, Result
  <2>2. e.provider = [d.provider EXCEPT ![n] = "db"] /\ e.key = d.key
    BY <1>1, PutProvider DEF SameBut, Reference
  <2> HIDE DEF e
  <2> QED BY <1>1, <1>6, <2>1, <2>2 DEF Owed
<1>7. CASE s = "delete"
  <2> DEFINE e == [d EXCEPT !.provider[n] = Absent, !.key = @ \ {n}]
  <2>1. r.db = e
    BY <1>7 DEF ProviderStatement, Done, Result
  <2>2. e.provider = [d.provider EXCEPT ![n] = Absent] /\ e.key = d.key \ {n}
    BY <1>1, DropProvider
  <2>3. Absent # "db"
    BY <1>1 DEF Reference
  <2> HIDE DEF e
  <2> QED BY <1>1, <1>7, <2>1, <2>2, <2>3 DEF Owed
<1> QED BY <1>2, <1>3, <1>4, <1>5, <1>6, <1>7

----------------------------------------------------------------------------
(* The rows of the model and route forms.                                    *)

LEMMA EntriesFit ==
  ASSUME NEW s
  PROVE  s \in Entries <=> s \in Seq(Provider \X Num) /\ Len(s) <= MaxRows
<1>1. MaxRows \in Nat
  BY ConsoleConfigAssumption
<1>2. ASSUME s \in Entries  PROVE s \in Seq(Provider \X Num) /\ Len(s) <= MaxRows
  <2>1. PICK n \in 0..MaxRows : s \in [1..n -> Provider \X Num]
    BY <1>2 DEF Entries
  <2> HIDE DEF Entries
  <2> QED BY <1>1, <2>1
<1>3. ASSUME s \in Seq(Provider \X Num), Len(s) <= MaxRows  PROVE s \in Entries
  <2>1. s \in [1..Len(s) -> Provider \X Num] /\ Len(s) \in 0..MaxRows
    BY <1>1, <1>3
  <2> QED BY <2>1 DEF Entries
<1> QED BY <1>2, <1>3

LEMMA NoEntries == <<>> \in Entries
<1>1. <<>> \in Seq(Provider \X Num) /\ Len(<<>>) = 0
  OBVIOUS
<1>2. 0 <= MaxRows
  BY ConsoleConfigAssumption
<1> QED BY <1>1, <1>2, EntriesFit

LEMMA RowAdded ==
  ASSUME NEW s \in Entries, NEW options \in SUBSET Provider, NEW b \in AddRow(s, options)
  PROVE  b \in Entries /\ Len(b) = Len(s) + 1 /\ \A j \in 1..Len(s) : b[j] = s[j]
<1>1. s \in Seq(Provider \X Num) /\ Len(s) <= MaxRows /\ MaxRows \in Nat /\ Typed \subseteq Num
  BY EntriesFit, ConsoleConfigAssumption
<1>2. Len(s) < MaxRows /\ \E p \in options, x \in Typed : b = Append(s, <<p, x>>)
  <2>1. Len(s) # MaxRows /\ \E p \in options, x \in Typed : b = Append(s, <<p, x>>)
    BY DEF AddRow
  <2>2. Len(s) \in Nat
    BY <1>1
  <2> QED BY <1>1, <2>1, <2>2
<1>3. PICK p \in options, x \in Typed : b = Append(s, <<p, x>>)
  BY <1>2
<1>4. <<p, x>> \in Provider \X Num
  BY <1>1
<1> DEFINE e == <<p, x>>
<1> HIDE DEF e
<1>5. b = Append(s, e) /\ e \in Provider \X Num
  BY <1>3, <1>4 DEF e
<1>6. b \in Seq(Provider \X Num) /\ Len(b) = Len(s) + 1 /\ \A j \in 1..Len(s) : b[j] = s[j]
  BY <1>1, <1>5
<1>7. Len(b) <= MaxRows
  BY <1>1, <1>2, <1>6
<1> QED BY <1>6, <1>7, EntriesFit

LEMMA RowRemoved ==
  ASSUME NEW s \in Entries, NEW i \in DOMAIN s
  PROVE  /\ RemoveAt(s, i) \in Entries /\ Len(RemoveAt(s, i)) = Len(s) - 1
         /\ \A j \in 1..(Len(s) - 1) : RemoveAt(s, i)[j] = s[IF j < i THEN j ELSE j + 1]
         /\ i \in 1..Len(s)
<1>1. s \in Seq(Provider \X Num) /\ Len(s) <= MaxRows /\ MaxRows \in Nat /\ i \in 1..Len(s)
  BY EntriesFit, ConsoleConfigAssumption
<1> DEFINE S == Provider \X Num
           u == SubSeq(s, 1, i - 1)
           v == SubSeq(s, i + 1, Len(s))
<1> HIDE DEF S
<1>2. s \in Seq(S)
  BY <1>1 DEF S
<1>3. /\ u \in Seq(S) /\ Len(u) = i - 1 /\ \A j \in 1..(i - 1) : u[j] = s[j]
      /\ v \in Seq(S) /\ Len(v) = Len(s) - i /\ \A j \in 1..(Len(s) - i) : v[j] = s[i + j]
  BY <1>1, <1>2
<1> HIDE DEF u, v
<1>4. /\ u \o v \in Seq(S) /\ Len(u \o v) = Len(s) - 1
      /\ \A j \in 1..(Len(s) - 1) : (u \o v)[j] = IF j < i THEN u[j] ELSE v[j - i + 1]
  <2>1. /\ u \o v \in Seq(S) /\ Len(u \o v) = Len(u) + Len(v)
        /\ \A j \in 1..(Len(u) + Len(v)) : (u \o v)[j] = IF j <= Len(u) THEN u[j] ELSE v[j - Len(u)]
    BY <1>3, ConcatProperties
  <2>2. Len(s) \in Nat /\ Len(u) + Len(v) = Len(s) - 1
    BY <1>1, <1>2, <1>3
  <2>3. \A j \in 1..(Len(s) - 1) : (j <= i - 1 <=> j < i) /\ j - (i - 1) = j - i + 1
    BY <1>1, <2>2
  <2>4. \A j \in 1..(Len(s) - 1) : (u \o v)[j] = IF j <= i - 1 THEN u[j] ELSE v[j - (i - 1)]
    <3>1. Len(u) = i - 1
      BY <1>3
    <3> QED BY <2>1, <2>2, <3>1
  <2>5. ASSUME NEW j \in 1..(Len(s) - 1)  PROVE (u \o v)[j] = IF j < i THEN u[j] ELSE v[j - i + 1]
    BY <2>3, <2>4
  <2> QED BY <2>1, <2>2, <2>5
<1>5. ASSUME NEW j \in 1..(Len(s) - 1)  PROVE (u \o v)[j] = s[IF j < i THEN j ELSE j + 1]
  <2>1. j \in Nat /\ i \in Nat /\ Len(s) \in Nat
    BY <1>1
  <2>2. CASE j < i
    BY <1>1, <1>3, <1>4, <2>1, <2>2
  <2>3. CASE ~(j < i)
    <3>1. j - i + 1 \in 1..(Len(s) - i) /\ i + (j - i + 1) = j + 1
      BY <1>1, <2>1, <2>3
    <3>2. v[j - i + 1] = s[i + (j - i + 1)]
      BY <1>3, <3>1
    <3> QED BY <1>4, <2>3, <3>1, <3>2
  <2> QED BY <2>2, <2>3
<1>6. RemoveAt(s, i) = u \o v
  BY DEF RemoveAt, u, v
<1>7. Len(u \o v) <= MaxRows
  BY <1>1, <1>2, <1>4
<1> QED BY <1>1, <1>4, <1>5, <1>6, <1>7, EntriesFit DEF S

(* A displayed price is within half a cent of the stored one.               *)
LEMMA DisplayedNear ==
  ASSUME NEW x \in Nat
  PROVE  SameCents(x, Displayed(x))
<1> DEFINE q == (x + 5000) \div 10000
<1>1. q \in Nat /\ q * 10000 <= x + 5000 /\ x + 5000 < q * 10000 + 10000
  OBVIOUS
<1>2. Displayed(x) = q * 10000
  BY DEF Displayed, Cent
<1>3. x % 10000 = 0 => q * 10000 = x
  OBVIOUS
<1> HIDE DEF q
<1> QED BY <1>1, <1>2, <1>3 DEF SameCents, Cent

LEMMA PrefilledFits ==
  ASSUME NEW s \in Entries
  PROVE  /\ Prefilled(s) \in Entries /\ Len(Prefilled(s)) = Len(s) /\ Len(s) \in Nat
         /\ DOMAIN Prefilled(s) = 1..Len(s) /\ DOMAIN s = 1..Len(s)
         /\ \A i \in 1..Len(s) : /\ Prefilled(s)[i][1] = s[i][1]
                                 /\ SameCents(s[i][2], Prefilled(s)[i][2])
<1> DEFINE k == Prefilled(s)
<1>1. s \in Seq(Provider \X Num) /\ Len(s) <= MaxRows /\ MaxRows \in Nat
  BY EntriesFit, ConsoleConfigAssumption
<1>2. DOMAIN s = 1..Len(s) /\ Len(s) \in Nat
  BY <1>1
<1>3. ASSUME NEW i \in 1..Len(s)
      PROVE  /\ <<s[i][1], Displayed(s[i][2])>> \in Provider \X Num
             /\ SameCents(s[i][2], Displayed(s[i][2]))
  <2>1. s[i] \in Provider \X Num
    BY <1>1, <1>2
  <2>2. s[i][1] \in Provider /\ s[i][2] \in Num
    BY <2>1
  <2>3. Displayed(s[i][2]) \in Num /\ s[i][2] \in Nat
    BY <2>2, ConsoleConfigAssumption
  <2> QED BY <2>2, <2>3, DisplayedNear
<1>4. k = [i \in 1..Len(s) |-> <<s[i][1], Displayed(s[i][2])>>]
  BY <1>2 DEF Prefilled
<1> HIDE DEF k
<1>5. k \in [1..Len(s) -> Provider \X Num]
  BY <1>3, <1>4
<1>6. k \in Seq(Provider \X Num) /\ Len(k) = Len(s)
  BY <1>2, <1>5
<1>7. ASSUME NEW i \in 1..Len(s)  PROVE k[i][1] = s[i][1] /\ SameCents(s[i][2], k[i][2])
  <2>1. k[i] = <<s[i][1], Displayed(s[i][2])>>
    BY <1>4
  <2>2. k[i][1] = s[i][1] /\ k[i][2] = Displayed(s[i][2])
    BY <2>1
  <2> QED BY <1>3, <2>2
<1>8. k \in Entries
  BY <1>1, <1>6, EntriesFit
<1> QED BY <1>2, <1>5, <1>6, <1>7, <1>8 DEF k

LEMMA RowReplaced ==
  ASSUME NEW s \in Entries, NEW i \in DOMAIN s, NEW e \in Provider \X Num
  PROVE  /\ [s EXCEPT ![i] = e] \in Entries /\ DOMAIN [s EXCEPT ![i] = e] = DOMAIN s
         /\ \A j \in DOMAIN s \ {i} : [s EXCEPT ![i] = e][j] = s[j]
<1> DEFINE u == [s EXCEPT ![i] = e]
<1>1. s \in Seq(Provider \X Num) /\ Len(s) <= MaxRows /\ MaxRows \in Nat
  BY EntriesFit, ConsoleConfigAssumption
<1>2. u \in Seq(Provider \X Num) /\ Len(u) = Len(s)
  BY <1>1
<1>3. DOMAIN u = DOMAIN s /\ \A j \in DOMAIN s \ {i} : u[j] = s[j]
  OBVIOUS
<1> HIDE DEF u
<1>4. u \in Entries
  BY <1>1, <1>2, EntriesFit
<1> QED BY <1>3, <1>4 DEF u

(* The rows a model form submits fit the table, and those that nobody filled *)
(* in keep their provider and, up to the display, their price.               *)
LEMMA UpstreamsFit ==
  ASSUME NEW s \in Entries, NEW options \in SUBSET Provider, NEW b \in UpstreamForm(s, options)
  PROVE  b.rows \in Entries /\ PricesKept(s, b)
<1> DEFINE k == Prefilled(s)
           Same(x, i) == s[i][1] = x[1] /\ SameCents(s[i][2], x[2])
<1>1. /\ k \in Entries /\ Len(k) = Len(s) /\ Len(s) \in Nat
      /\ DOMAIN k = 1..Len(s) /\ DOMAIN s = 1..Len(s)
      /\ \A i \in 1..Len(s) : Same(k[i], i)
  BY PrefilledFits
<1>2. Typed \subseteq Num
  BY ConsoleConfigAssumption
<1>3. /\ \A i \in 1..Len(s) : k[i][1] \in Provider /\ k[i][2] \in Num
  <2>1. k \in Seq(Provider \X Num)
    BY <1>1, EntriesFit
  <2>2. ASSUME NEW i \in 1..Len(s)  PROVE k[i][1] \in Provider /\ k[i][2] \in Num
    <3>1. k[i] \in Provider \X Num
      BY <1>1, <2>1
    <3> QED BY <3>1
  <2> QED BY <2>2
<1>4. \/ b = Upstreams(k, {})
      \/ \E u \in AddRow(k, options) : b = Upstreams(u, {Len(u)})
      \/ \E i \in DOMAIN k : b \in RowEdits(k, i, options)
  BY DEF UpstreamForm
<1> HIDE DEF k, Same
<1>5. ASSUME NEW rows, NEW typed, b = Upstreams(rows, typed), rows \in Entries,
             \A j \in DOMAIN rows \ typed : \E i \in DOMAIN s : Same(rows[j], i)
      PROVE  b.rows \in Entries /\ PricesKept(s, b)
  <2>1. b.rows = rows /\ b.typed = typed
    BY <1>5 DEF Upstreams
  <2> QED BY <1>5, <2>1 DEF PricesKept, Same
<1>6. CASE b = Upstreams(k, {})
  BY <1>1, <1>5, <1>6
<1>7. ASSUME NEW u \in AddRow(k, options), b = Upstreams(u, {Len(u)})
      PROVE  b.rows \in Entries /\ PricesKept(s, b)
  <2>1. u \in Entries /\ Len(u) = Len(k) + 1 /\ \A j \in 1..Len(k) : u[j] = k[j]
    BY <1>1, <1>7, RowAdded
  <2>2. DOMAIN u = 1..Len(u)
    BY <2>1, EntriesFit
  <2>3. \A j \in DOMAIN u \ {Len(u)} : j \in 1..Len(s)
    BY <1>1, <2>1, <2>2
  <2> QED BY <1>1, <1>5, <1>7, <2>1, <2>3
<1>8. ASSUME NEW i \in DOMAIN k, b = Upstreams(RemoveUpstreamRow(k, i), {})
      PROVE  b.rows \in Entries /\ PricesKept(s, b)
  <2> DEFINE u == RemoveAt(k, i)
  <2>1. /\ u \in Entries /\ Len(u) = Len(k) - 1 /\ i \in 1..Len(k)
        /\ \A j \in 1..(Len(k) - 1) : u[j] = k[IF j < i THEN j ELSE j + 1]
    BY <1>1, <1>8, RowRemoved
  <2>2. b = Upstreams(u, {})
    BY <1>8 DEF RemoveUpstreamRow
  <2> HIDE DEF u
  <2>3. DOMAIN u = 1..(Len(k) - 1)
    BY <2>1, EntriesFit
  <2>4. ASSUME NEW j \in DOMAIN u  PROVE \E n \in DOMAIN s : Same(u[j], n)
    <3>1. (IF j < i THEN j ELSE j + 1) \in 1..Len(s)
      BY <1>1, <2>1, <2>3
    <3> QED BY <1>1, <2>1, <2>3, <3>1
  <2> QED BY <1>5, <2>1, <2>2, <2>4
<1>9. ASSUME NEW i \in DOMAIN k, NEW p \in Provider, NEW x \in Num, b = Upstreams([k EXCEPT ![i] = <<p, x>>], {i})
      PROVE  b.rows \in Entries /\ PricesKept(s, b)
  <2> DEFINE u == [k EXCEPT ![i] = <<p, x>>]
  <2>1. <<p, x>> \in Provider \X Num
    OBVIOUS
  <2>2. u \in Entries /\ DOMAIN u = DOMAIN k /\ \A j \in DOMAIN k \ {i} : u[j] = k[j]
    BY <1>1, <2>1, RowReplaced
  <2> HIDE DEF u
  <2>3. b = Upstreams(u, {i})
    BY <1>9 DEF u
  <2> QED BY <1>1, <1>5, <2>2, <2>3
<1>10. ASSUME NEW i \in DOMAIN k, b \in RowEdits(k, i, options)
       PROVE  b.rows \in Entries /\ PricesKept(s, b)
  <2>1. k[i][1] \in Provider /\ k[i][2] \in Num
    BY <1>1, <1>3
  <2>2. \/ b = Upstreams(RemoveUpstreamRow(k, i), {})
        \/ \E p \in options : b = Upstreams([k EXCEPT ![i] = <<p, k[i][2]>>], {i})
        \/ \E x \in Typed : b = Upstreams([k EXCEPT ![i] = <<k[i][1], x>>], {i})
    BY <1>10 DEF RowEdits
  <2>3. ASSUME NEW p \in options, b = Upstreams([k EXCEPT ![i] = <<p, k[i][2]>>], {i})
        PROVE  b.rows \in Entries /\ PricesKept(s, b)
    BY <1>9, <2>1, <2>3
  <2>4. ASSUME NEW x \in Typed, b = Upstreams([k EXCEPT ![i] = <<k[i][1], x>>], {i})
        PROVE  b.rows \in Entries /\ PricesKept(s, b)
    BY <1>2, <1>9, <2>1, <2>4
  <2> QED BY <1>8, <2>2, <2>3, <2>4
<1> QED BY <1>4, <1>6, <1>7, <1>10

LEMMA RouteRowRemoved ==
  ASSUME NEW s \in Entries, NEW i \in DOMAIN s
  PROVE  RemoveRouteRow(s, i) \in Entries
<1> DEFINE b == RemoveAt(s, i)
           r == [j \in DOMAIN b |-> <<b[j][1], IF b[j][2] # 0 THEN b[j][2] ELSE s[j][2]>>]
<1>1. /\ b \in Entries /\ b \in Seq(Provider \X Num) /\ Len(b) = Len(s) - 1 /\ s \in Seq(Provider \X Num)
      /\ Len(s) <= MaxRows /\ MaxRows \in Nat
  BY RowRemoved, EntriesFit, ConsoleConfigAssumption
<1>2. RemoveRouteRow(s, i) = r
  BY DEF RemoveRouteRow
<1> HIDE DEF b
<1>3. DOMAIN b = 1..Len(b) /\ Len(b) \in Nat /\ Len(b) <= MaxRows /\ 1..Len(b) \subseteq DOMAIN s
  BY <1>1
<1>4. ASSUME NEW j \in DOMAIN b
      PROVE  <<b[j][1], IF b[j][2] # 0 THEN b[j][2] ELSE s[j][2]>> \in Provider \X Num
  <2>1. b[j] \in Provider \X Num /\ s[j] \in Provider \X Num
    BY <1>1, <1>3
  <2>2. b[j][1] \in Provider /\ b[j][2] \in Num /\ s[j][2] \in Num
    BY <2>1
  <2> QED BY <2>2
<1>5. r \in [1..Len(b) -> Provider \X Num]
  BY <1>3, <1>4
<1> HIDE DEF r
<1>6. r \in Entries
  BY <1>1, <1>3, <1>5 DEF Entries
<1> QED BY <1>2, <1>6

----------------------------------------------------------------------------
(* Dialogs and forms: what they submit is filled, whatever earlier tables    *)
(* the dialog and the page were rendered from.                               *)

RowForms(p) ==
    CASE p \in {"providers", "models", "routes", "plugins", "apikeys", "operators", "roles"} ->
            {"edit", "delete"}
      [] p = "tenants" -> {"disable"}
      [] p \in {"groups", "applications"} -> {"disable", "delete"}
      [] p = "budgets" -> {"edit"}
      [] p = "reservations" -> {"resolve"}
OnRow(x, forms, v) == x.form \in forms /\ x.name \in Stored(v.rows) /\ x.row = v.rows[x.name]
IsDialog(x) == x \in [form : {x.form}, name : {x.name}, row : {x.row}]

LEMMA DialogFields ==
  ASSUME NEW form, NEW name, NEW row
  PROVE  LET x == Dialog(form, name, row) IN
         x.form = form /\ x.name = name /\ x.row = row /\ IsDialog(x)
  BY DEF Dialog, IsDialog

LEMMA RowDialogsFit ==
  ASSUME NEW form, NEW v, NEW x \in RowDialogs(form, v)
  PROVE  OnRow(x, {form}, v) /\ IsDialog(x)
  BY DialogFields DEF RowDialogs, OnRow

LEMMA OfferFit ==
  ASSUME NEW p \in PageName, NEW v, NEW x \in Offer(p, v)
  PROVE  /\ IsDialog(x)
         /\ \/ x = Dialog("create", Nil, Nil) /\ p # "reservations"
            \/ OnRow(x, RowForms(p), v)
<1>1. /\ x \in Create => x = Dialog("create", Nil, Nil) /\ IsDialog(x)
      /\ \A form : x \in RowDialogs(form, v) => OnRow(x, {form}, v) /\ IsDialog(x)
      /\ \A forms : \A form \in forms : OnRow(x, {form}, v) => OnRow(x, forms, v)
  BY RowDialogsFit, DialogFields DEF Create, OnRow
<1>2. CASE p = "providers"
  <2>1. x \in Create \/ x \in RowDialogs("edit", v) \/ x \in RowDialogs("delete", v)
    BY <1>2 DEF Offer, ProvidersOffer, Create
  <2> QED BY <1>1, <1>2, <2>1 DEF RowForms
<1>3. CASE p = "models"
  <2>1. x \in Create \/ x \in RowDialogs("edit", v) \/ x \in RowDialogs("delete", v)
    BY <1>3 DEF Offer, ModelsOffer, Create
  <2> QED BY <1>1, <1>3, <2>1 DEF RowForms
<1>4. CASE p = "routes"
  <2>1. x \in Create \/ x \in RowDialogs("edit", v) \/ x \in RowDialogs("delete", v)
    BY <1>4 DEF Offer, RoutesOffer, Create
  <2> QED BY <1>1, <1>4, <2>1 DEF RowForms
<1>5. CASE p = "plugins"
  <2>1. x \in Create \/ x \in RowDialogs("edit", v) \/ x \in RowDialogs("delete", v)
    BY <1>5 DEF Offer, PluginsOffer, Create
  <2> QED BY <1>1, <1>5, <2>1 DEF RowForms
<1>6. CASE p = "tenants"
  <2>1. x \in Create \/ x \in RowDialogs("disable", v)
    BY <1>6 DEF Offer, TenantsOffer
  <2> QED BY <1>1, <1>6, <2>1 DEF RowForms
<1>7. CASE p = "groups"
  <2>1. x \in Create \/ x \in RowDialogs("disable", v) \/ x \in RowDialogs("delete", v)
    BY <1>7 DEF Offer, GroupsOffer
  <2> QED BY <1>1, <1>7, <2>1 DEF RowForms
<1>8. CASE p = "applications"
  <2>1. x \in Create \/ x \in RowDialogs("disable", v) \/ x \in RowDialogs("delete", v)
    BY <1>8 DEF Offer, ApplicationsOffer
  <2> QED BY <1>1, <1>8, <2>1 DEF RowForms
<1>9. CASE p = "apikeys"
  <2>1. x \in Create \/ x \in RowDialogs("edit", v) \/ x \in RowDialogs("delete", v)
    BY <1>9 DEF Offer, APIKeysOffer
  <2> QED BY <1>1, <1>9, <2>1 DEF RowForms
<1>10. CASE p = "operators"
  <2>1. x \in Create \/ x \in RowDialogs("edit", v) \/ x \in RowDialogs("delete", v)
    BY <1>10 DEF Offer, OperatorsOffer
  <2> QED BY <1>1, <1>10, <2>1 DEF RowForms
<1>11. CASE p = "roles"
  <2>1. x \in Create \/ x \in RowDialogs("edit", v) \/ x \in RowDialogs("delete", v)
    BY <1>11 DEF Offer, RolesOffer
  <2> QED BY <1>1, <1>11, <2>1 DEF RowForms
<1>12. CASE p = "budgets"
  <2>1. x \in Create \/ x \in RowDialogs("edit", v)
    BY <1>12 DEF Offer, BudgetsOffer
  <2> QED BY <1>1, <1>12, <2>1 DEF RowForms
<1>13. CASE p = "reservations"
  <2>1. x \in RowDialogs("resolve", v)
    BY <1>13 DEF Offer, ReservationsOffer
  <2> QED BY <1>1, <1>13, <2>1 DEF RowForms
<1> QED BY <1>2, <1>3, <1>4, <1>5, <1>6, <1>7, <1>8, <1>9, <1>10, <1>11, <1>12, <1>13 DEF PageName

(* The names and rows a page lists.                                          *)
PageNames(p) ==
    CASE p = "providers" -> Provider
      [] p \in {"models", "routes"} -> Alias
      [] p = "plugins" -> Scope
      [] p = "roles" -> Role
      [] p \in {"tenants", "groups", "applications", "apikeys", "operators", "budgets", "reservations"} -> Unit
PageRows(p) ==
    CASE p = "providers" -> Reference
      [] p \in {"models", "routes"} -> Entries
      [] p = "apikeys" -> APIKeyRow
      [] p = "budgets" -> BudgetRow
      [] p = "reservations" -> ReservationRow

LEMMA PageRowsFit ==
  ASSUME NEW p \in PageName, NEW e \in Database, NEW n \in Stored(Render(p, e).rows)
  PROVE  /\ n \in PageNames(p)
         /\ p \in {"providers", "models", "routes", "apikeys", "budgets", "reservations"} =>
               Render(p, e).rows[n] \in PageRows(p)
         /\ p = "budgets" => Render(p, e).rows[n] = e.budget[n] /\ e.budget[n] # Absent
         /\ p = "reservations" => Render(p, e).rows[n] = e.reservation[n] /\ e.reservation[n] # Absent
<1>1. CASE p = "providers"
  <2>1. Render(p, e).rows = [q \in Provider |-> IF e.provider[q] = Absent THEN Absent
                                                ELSE maskAPIKeyRef(e.provider[q])]
    BY <1>1 DEF Render, ProvidersPage
  <2>2. n \in Provider /\ e.provider[n] \in Reference /\ Render(p, e).rows[n] = maskAPIKeyRef(e.provider[n])
    BY <2>1 DEF Stored, Database, Table
  <2> QED BY <1>1, <2>2 DEF PageNames, PageRows, maskAPIKeyRef, Reference
<1>2. CASE p = "models"
  <2>1. Render(p, e).rows = e.model
    BY <1>2 DEF Render, ModelsPage
  <2> QED BY <1>2, <2>1 DEF PageNames, PageRows, Stored, Database, Table
<1>3. CASE p = "routes"
  <2>1. Render(p, e).rows = e.route
    BY <1>3 DEF Render, RoutesPage
  <2> QED BY <1>3, <2>1 DEF PageNames, PageRows, Stored, Database, Table
<1>4. CASE p = "plugins"
  <2>1. Render(p, e).rows = e.plugin
    BY <1>4 DEF Render, PluginsPage
  <2> QED BY <1>4, <2>1 DEF PageNames, Stored, Database, Table
<1>5. CASE p = "tenants"
  <2>1. Render(p, e).rows = e.tenant
    BY <1>5 DEF Render, TenantsPage
  <2> QED BY <1>5, <2>1 DEF PageNames, Stored, Database, Table
<1>6. CASE p = "groups"
  <2>1. Render(p, e).rows = e.group
    BY <1>6 DEF Render, GroupsPage
  <2> QED BY <1>6, <2>1 DEF PageNames, Stored, Database, Table
<1>7. CASE p = "applications"
  <2>1. Render(p, e).rows = e.application
    BY <1>7 DEF Render, ApplicationsPage
  <2> QED BY <1>7, <2>1 DEF PageNames, Stored, Database, Table
<1>8. CASE p = "apikeys"
  <2>1. Render(p, e).rows = [k \in Unit |-> IF e.apikey[k] = Absent \/ e.apikey[k].revoked
                                            THEN Absent ELSE e.apikey[k]]
    BY <1>8 DEF Render, APIKeysPage
  <2>2. n \in Unit /\ e.apikey[n] \in APIKeyRow /\ Render(p, e).rows[n] = e.apikey[n]
    BY <2>1 DEF Stored, Database, Table
  <2> QED BY <1>8, <2>2 DEF PageNames, PageRows
<1>9. CASE p = "operators"
  <2>1. Render(p, e).rows = e.operator
    BY <1>9 DEF Render, OperatorsPage
  <2> QED BY <1>9, <2>1 DEF PageNames, Stored, Database, Table
<1>10. CASE p = "roles"
  <2>1. Render(p, e).rows = e.role
    BY <1>10 DEF Render, RolesPage
  <2> QED BY <1>10, <2>1 DEF PageNames, Stored, Database, Table
<1>11. CASE p = "budgets"
  <2>1. Render(p, e).rows = e.budget
    BY <1>11 DEF Render, BudgetsPage
  <2> QED BY <1>11, <2>1 DEF PageNames, PageRows, Stored, Database, Table
<1>12. CASE p = "reservations"
  <2>1. Render(p, e).rows = e.reservation
    BY <1>12 DEF Render, ReservationsPage
  <2> QED BY <1>12, <2>1 DEF PageNames, PageRows, Stored, Database, Table
<1> QED BY <1>1, <1>2, <1>3, <1>4, <1>5, <1>6, <1>7, <1>8, <1>9, <1>10, <1>11, <1>12 DEF PageName

Fills(a, dlg, f) == a.form = dlg.form /\ a.name = f.name /\ a.body = f.body /\ a.row = dlg.row

(* What the lemmas below assume of the dialog: that of Offer.                *)
DialogFits(p, dlg, e) ==
    \/ dlg.form = "create" /\ dlg.row = Nil /\ p # "reservations"
    \/ OnRow(dlg, RowForms(p), Render(p, e))

LEMMA ProviderFills ==
  ASSUME NEW e \in Database, NEW dlg, DialogFits("providers", dlg, e), dlg.form \in {"create", "edit"},
         NEW f \in ProviderForm(dlg), NEW a, Fills(a, dlg, f)
  PROVE  ProviderFilled(a)
<1>1. dlg.form = "edit" => dlg.name \in Provider /\ dlg.row \in Reference
  BY PageRowsFit DEF DialogFits, OnRow, PageNames, PageRows, PageName
<1>2. PICK c \in CredChoices(dlg.row), p \in IF dlg.form = "edit" THEN {dlg.name} ELSE Provider :
         f = [name |-> p, body |-> c]
  BY DEF ProviderForm
<1>3. f.name \in Provider /\ f.body = c
  BY <1>1, <1>2
<1>4. dlg.form = "create" => dlg.row = Nil
  BY DEF DialogFits, OnRow, RowForms
<1>5. c \in Credential
  <2>1. CASE \E r \in {"", "env", "db"} : c = [ref |-> r, key |-> FALSE]
    <3>1. PICK r \in {"", "env", "db"} : c = [ref |-> r, key |-> FALSE]
      BY <2>1
    <3>2. r \in Reference \cup {""}
      BY DEF Reference
    <3> QED BY <3>1, <3>2 DEF Credential
  <2>2. CASE c = [ref |-> "", key |-> TRUE]
    BY <2>2 DEF Credential
  <2>3. CASE c = [ref |-> dlg.row, key |-> FALSE] /\ dlg.row \notin {Nil, "none"}
    <3>1. dlg.row \in Reference
      BY <1>1, <1>4, <2>3
    <3> QED BY <2>3, <3>1 DEF Credential
  <2> QED BY <2>1, <2>2, <2>3 DEF CredChoices
<1> QED BY <1>3, <1>5 DEF Fills, ProviderFilled

LEMMA ModelFills ==
  ASSUME NEW e \in Database, NEW c \in Database, NEW dlg, DialogFits("models", dlg, e),
         dlg.form \in {"create", "edit"},
         NEW f \in ModelForm(dlg, Render("models", c)), NEW a, Fills(a, dlg, f)
  PROVE  ModelFilled(a)
<1> DEFINE s == IF dlg.form = "edit" THEN dlg.row ELSE <<>>
           o == Render("models", c).providers
<1>1. dlg.form = "edit" => dlg.name \in Alias /\ dlg.row \in Entries
  BY PageRowsFit DEF DialogFits, OnRow, PageNames, PageRows, PageName
<1>2. o \in SUBSET Provider
  BY DEF Render, ModelsPage, Stored, Database, Table
<1>3. s \in Entries
  BY <1>1, NoEntries
<1>4. f.name \in Alias /\ f.body \in UpstreamForm(s, o)
  BY <1>1 DEF ModelForm
<1> HIDE DEF o, s
<1>5. f.body.rows \in Entries /\ PricesKept(s, f.body)
  BY <1>2, <1>3, <1>4, UpstreamsFit
<1>6. dlg.form = "edit" => PricesKept(dlg.row, f.body)
  BY <1>5 DEF s
<1> QED BY <1>4, <1>5, <1>6 DEF Fills, ModelFilled

LEMMA RouteFills ==
  ASSUME NEW e \in Database, NEW c \in Database, NEW dlg, DialogFits("routes", dlg, e),
         dlg.form \in {"create", "edit"},
         NEW f \in RouteForm(dlg, Render("routes", c)), NEW a, Fills(a, dlg, f)
  PROVE  RouteFilled(a)
<1> DEFINE s == IF dlg.form = "edit" THEN dlg.row ELSE <<>>
           v == Render("routes", c)
<1>1. dlg.form = "edit" => dlg.name \in Alias /\ dlg.row \in Entries
  BY PageRowsFit DEF DialogFits, OnRow, PageNames, PageRows, PageName
<1>2. v.providers \in SUBSET Provider /\ Stored(v.models) \subseteq Alias
  BY DEF Render, RoutesPage, Stored, Database, Table
<1>3. s \in Entries
  BY <1>1, NoEntries
<1>4. PICK n \in IF dlg.form = "edit" THEN {dlg.name} ELSE Stored(v.models) :
        \E r \in {s} \cup AddRow(s, allowedProviders(n, v)) \cup {RemoveRouteRow(s, i) : i \in DOMAIN s} :
           f = [name |-> n, body |-> r]
  BY DEF RouteForm
<1>5. allowedProviders(n, v) \in SUBSET Provider
  BY <1>2 DEF allowedProviders
<1>6. /\ f.name = n /\ n \in Alias
      /\ f.body = s \/ f.body \in AddRow(s, allowedProviders(n, v)) \/ \E i \in DOMAIN s : f.body = RemoveRouteRow(s, i)
  BY <1>1, <1>2, <1>4
<1> HIDE DEF s, v
<1>7. f.body \in Entries
  BY <1>3, <1>5, <1>6, RowAdded, RouteRowRemoved
<1> QED BY <1>6, <1>7 DEF Fills, RouteFilled

LEMMA APIKeyFills ==
  ASSUME NEW e \in Database, NEW c \in Database, NEW dlg, DialogFits("apikeys", dlg, e),
         dlg.form \in {"create", "edit"},
         NEW f \in APIKeyForm(dlg, Render("apikeys", c)), NEW a, Fills(a, dlg, f)
  PROVE  APIKeyFilled(a)
<1> DEFINE v == Render("apikeys", c)
<1>1. dlg.form = "edit" => dlg.name \in Unit /\ dlg.row \in APIKeyRow
  BY PageRowsFit DEF DialogFits, OnRow, PageNames, PageRows, PageName
<1>2. v.groups \subseteq Unit /\ v.applications \subseteq Unit
  BY DEF Render, APIKeysPage, Stored, Database, Table
<1> HIDE DEF v
<1>3. f.name \in Unit /\ f.body \in Identity
  <2>1. CASE dlg.form = "create"
    <3>1. PICK u \in Unit, g \in v.groups, x \in v.applications, m \in BOOLEAN :
             f = [name |-> u, body |-> [group |-> g, app |-> x, models |-> m, bind |-> TRUE]]
      BY <2>1 DEF APIKeyForm, v
    <3> QED BY <1>2, <3>1 DEF Identity
  <2>2. CASE dlg.form = "edit"
    <3>1. PICK g \in IF dlg.row.group = Nil THEN v.groups ELSE {dlg.row.group},
               x \in IF dlg.row.app = Nil THEN v.applications ELSE {dlg.row.app}, m \in BOOLEAN :
             f = [name |-> dlg.name, body |-> [group |-> g, app |-> x, models |-> m, bind |-> ~Bound(dlg.row)]]
      BY <2>2 DEF APIKeyForm, v
    <3>2. g \in Unit /\ x \in Unit
      BY <1>1, <1>2, <2>2, <3>1 DEF APIKeyRow
    <3>3. (~Bound(dlg.row)) \in BOOLEAN
      BY DEF Bound
    <3> QED BY <1>1, <2>2, <3>1, <3>2, <3>3 DEF Identity
  <2> QED BY <2>1, <2>2
<1> QED BY <1>3 DEF Fills, APIKeyFilled

LEMMA TenancyFills ==
  ASSUME NEW e \in Database, NEW c \in Database, NEW p \in {"plugins", "tenants", "groups", "applications",
                                                           "operators", "roles"},
         NEW dlg, DialogFits(p, dlg, e), dlg.form \in {"create", "edit"},
         NEW f \in Form(p, dlg, Render(p, c)), NEW a, Fills(a, dlg, f), NEW d
  PROVE  Filled(p, a, d)
<1>1. dlg.form # "create" => dlg.form \in RowForms(p) /\ dlg.name \in PageNames(p)
  BY PageRowsFit DEF DialogFits, OnRow, PageName
<1>2. CASE p = "plugins"
  <2>1. f.name \in Scope /\ f.body \in Num
    BY <1>2, ConsoleConfigAssumption DEF Form, PluginForm
  <2> QED BY <1>2, <2>1 DEF Filled, PluginFilled, Fills
<1>3. CASE p = "tenants"
  <2>1. f.name \in Unit /\ dlg.form = "create"
    BY <1>1, <1>3 DEF Form, TenantForm, RowForms
  <2> QED BY <1>3, <2>1 DEF Filled, TenantFilled, Fills
<1>4. CASE p = "groups"
  <2>1. f.name \in Unit /\ dlg.form = "create"
    BY <1>1, <1>4 DEF Form, GroupForm, RowForms
  <2> QED BY <1>4, <2>1 DEF Filled, GroupFilled, Fills
<1>5. CASE p = "applications"
  <2>1. Render(p, c).groups \subseteq Unit
    BY <1>5 DEF Render, ApplicationsPage, Stored, Database, Table
  <2>2. f.name \in Unit /\ f.body \in Unit \cup {Nil} /\ dlg.form = "create"
    BY <1>1, <1>5, <2>1 DEF Form, ApplicationForm, RowForms
  <2> QED BY <1>5, <2>2 DEF Filled, ApplicationFilled, Fills
<1>6. CASE p = "operators"
  <2>1. Render(p, c).roles \subseteq Role
    BY <1>6 DEF Render, OperatorsPage, Stored, Database, Table
  <2>2. f.name \in Unit /\ (dlg.form = "create" => f.body \in Role \cup {Nil})
    BY <1>1, <1>6, <2>1 DEF Form, OperatorForm, PageNames
  <2> QED BY <1>6, <2>2 DEF Filled, OperatorFilled, Fills
<1>7. CASE p = "roles"
  <2>1. f.name \in Role /\ f.body \in Perms
    BY <1>1, <1>7 DEF Form, RoleForm, PageNames, Perms
  <2> QED BY <1>7, <2>1 DEF Filled, RoleFilled, Fills
<1> QED BY <1>2, <1>3, <1>4, <1>5, <1>6, <1>7

LEMMA VersionedFills ==
  ASSUME NEW e \in Database, NEW p \in {"budgets", "reservations"}, NEW v,
         NEW dlg, DialogFits(p, dlg, e), dlg.form \in {"create", "edit", "resolve"},
         NEW f \in Form(p, dlg, v), NEW a, Fills(a, dlg, f), NEW d, Earlier(e, d),
         p = "budgets" /\ dlg.form = "create" => d.budget[f.name] = Absent
  PROVE  Filled(p, a, d)
<1>1. dlg.form # "create" => dlg.form \in RowForms(p) /\ dlg.name \in Stored(Render(p, e).rows)
                             /\ dlg.row = Render(p, e).rows[dlg.name]
  BY DEF DialogFits, OnRow
<1>2. CASE p = "budgets" /\ dlg.form = "create"
  <2>1. PICK u \in Unit, x \in Typed : f = [name |-> u, body |-> [limit |-> x, enabled |-> TRUE]]
    BY <1>2 DEF Form, BudgetForm
  <2>2. f.name \in Unit /\ f.body \in [limit : Num, enabled : BOOLEAN]
    BY <2>1, ConsoleConfigAssumption
  <2> QED BY <1>2, <2>2 DEF Filled, BudgetFilled, Fills
<1>3. CASE p = "budgets" /\ dlg.form # "create"
  <2>1. /\ dlg.form = "edit" /\ dlg.name \in Unit /\ dlg.row = e.budget[dlg.name]
        /\ dlg.row \in BudgetRow /\ dlg.row # Absent
    BY <1>1, <1>3, PageRowsFit DEF RowForms, PageNames, PageRows, PageName
  <2>2. PICK x \in (Typed \ {Displayed(dlg.row.limit)}) \cup {Nil}, on \in BOOLEAN :
           f = [name |-> dlg.name, body |-> [limit |-> x, enabled |-> on]]
    BY <1>3 DEF Form, BudgetForm
  <2>3. f.name = dlg.name /\ f.body \in [limit : Num \cup {Nil}, enabled : BOOLEAN]
    BY <2>2, ConsoleConfigAssumption
  <2>4. RowBehind(dlg.row, d.budget[dlg.name])
    BY <2>1 DEF Earlier
  <2> QED BY <1>3, <2>1, <2>3, <2>4 DEF Filled, BudgetFilled, Fills
<1>4. CASE p = "reservations"
  <2>1. dlg.form # "create"
    BY <1>4 DEF DialogFits, OnRow, RowForms
  <2>2. /\ dlg.form = "resolve" /\ dlg.name \in Unit /\ dlg.row = e.reservation[dlg.name]
        /\ dlg.row \in ReservationRow /\ dlg.row # Absent
    BY <1>1, <1>4, <2>1, PageRowsFit DEF RowForms, PageNames, PageRows, PageName
  <2>3. f.name = dlg.name
    BY <1>4 DEF Form, ResolveForm
  <2>4. RowBehind(dlg.row, d.reservation[dlg.name])
    BY <2>2 DEF Earlier
  <2> QED BY <1>4, <2>2, <2>3, <2>4 DEF Filled, ReservationFilled, Fills
<1> QED BY <1>2, <1>3, <1>4

LEMMA FormFills ==
  ASSUME NEW p \in PageName, NEW e \in Database, NEW c \in Database, NEW d, Earlier(e, d),
         NEW dlg, DialogFits(p, dlg, e), dlg.form \in {"create", "edit", "resolve"},
         NEW f \in Form(p, dlg, Render(p, c)), NEW a, Fills(a, dlg, f),
         p = "budgets" /\ dlg.form = "create" => d.budget[f.name] = Absent
  PROVE  Filled(p, a, d)
<1>1. CASE p = "providers"
  BY <1>1, ProviderFills DEF Form, Filled, DialogFits, OnRow, RowForms
<1>2. CASE p = "models"
  BY <1>2, ModelFills DEF Form, Filled, DialogFits, OnRow, RowForms
<1>3. CASE p = "routes"
  BY <1>3, RouteFills DEF Form, Filled, DialogFits, OnRow, RowForms
<1>4. CASE p = "apikeys"
  BY <1>4, APIKeyFills DEF Form, Filled, DialogFits, OnRow, RowForms
<1>5. CASE p \in {"plugins", "tenants", "groups", "applications", "operators", "roles"}
  <2>1. dlg.form \in {"create", "edit"}
    BY <1>5 DEF DialogFits, OnRow, RowForms
  <2> QED BY <1>5, <2>1, TenancyFills
<1>6. CASE p \in {"budgets", "reservations"}
  BY <1>6, VersionedFills
<1> QED BY <1>1, <1>2, <1>3, <1>4, <1>5, <1>6 DEF PageName

(* The dialogs that only ask for confirmation, and the enable button.        *)
LEMMA ConfirmFills ==
  ASSUME NEW p \in PageName, NEW e \in Database, NEW d, NEW dlg, DialogFits(p, dlg, e),
         dlg.form \in {"delete", "disable"}, NEW a, a.form = dlg.form, a.name = dlg.name
  PROVE  Filled(p, a, d)
<1>1. a.form \in RowForms(p) /\ a.name \in PageNames(p)
  BY PageRowsFit DEF DialogFits, OnRow
<1>2. CASE p \in {"providers", "models", "routes", "plugins"}
  BY <1>1, <1>2 DEF RowForms, PageNames, Filled, ProviderFilled, ModelFilled, RouteFilled, PluginFilled
<1>3. CASE p \in {"tenants", "groups", "applications"}
  BY <1>1, <1>3 DEF RowForms, PageNames, Filled, TenantFilled, GroupFilled, ApplicationFilled
<1>4. CASE p \in {"apikeys", "operators", "roles"}
  BY <1>1, <1>4 DEF RowForms, PageNames, Filled, APIKeyFilled, OperatorFilled, RoleFilled
<1>5. CASE p \in {"budgets", "reservations"}
  BY <1>1, <1>5 DEF RowForms
<1> QED BY <1>2, <1>3, <1>4, <1>5 DEF PageName

LEMMA EnableFills ==
  ASSUME NEW p \in PageName, NEW e \in Database, NEW n \in EnableOffer(p, Render(p, e)), NEW d,
         NEW a, a.form = "enable", a.name = n
  PROVE  Filled(p, a, d)
<1>1. p \in {"tenants", "groups", "applications"} /\ n \in Stored(Render(p, e).rows)
  BY DEF EnableOffer
<1>2. n \in Unit
  BY <1>1, PageRowsFit DEF PageNames
<1> QED BY <1>1, <1>2 DEF Filled, TenantFilled, GroupFilled, ApplicationFilled

----------------------------------------------------------------------------
(* Actions and their queue.                                                  *)

IsAction(a) ==
    a \in [form : {a.form}, name : {a.name}, body : {a.body}, row : {a.row}, calls : {a.calls},
           ok : {a.ok}, lost : {a.lost}, wrote : {a.wrote}, mounted : {a.mounted},
           here : {a.here}]
SameForm(a, b) == b.form = a.form /\ b.name = a.name /\ b.body = a.body /\ b.row = a.row

LEMMA AfterFields ==
  ASSUME NEW a, IsAction(a), NEW r
  PROVE  LET b == After(a, r) IN
         /\ IsAction(b) /\ SameForm(a, b)
         /\ b.calls = (IF r.ok THEN Tail(a.calls) ELSE <<>>) /\ b.ok = r.ok /\ b.lost = a.lost
         /\ b.wrote = (a.wrote \/ r.db # db \/ r.beside) /\ b.mounted = a.mounted /\ b.here = a.here
  BY DEF IsAction, After, SameForm

LEMMA FailedFields ==
  ASSUME NEW a, IsAction(a)
  PROVE  LET b == Failed(a) IN
         /\ IsAction(b) /\ SameForm(a, b)
         /\ b.calls = <<>> /\ b.ok = FALSE /\ b.lost = a.lost
         /\ b.wrote = a.wrote /\ b.mounted = a.mounted /\ b.here = a.here
  BY DEF IsAction, Failed, SameForm

LEMMA LostFields ==
  ASSUME NEW a, IsAction(a)
  PROVE  LET b == [Failed(a) EXCEPT !.lost = TRUE] IN
         /\ IsAction(b) /\ SameForm(a, b)
         /\ b.calls = <<>> /\ b.ok = FALSE /\ b.lost = TRUE
         /\ b.wrote = a.wrote /\ b.mounted = a.mounted /\ b.here = a.here
  BY DEF IsAction, Failed, SameForm

LEMMA UnmountedFields ==
  ASSUME NEW a, IsAction(a)
  PROVE  LET b == [a EXCEPT !.mounted = FALSE] IN
         /\ IsAction(b) /\ SameForm(a, b)
         /\ b.calls = a.calls /\ b.ok = a.ok /\ b.lost = a.lost
         /\ b.wrote = a.wrote /\ b.mounted = FALSE /\ b.here = a.here
  BY DEF IsAction, SameForm

LEMMA OrphanedFields ==
  ASSUME NEW a, IsAction(a)
  PROVE  LET b == [a EXCEPT !.mounted = FALSE, !.here = FALSE] IN
         /\ IsAction(b) /\ SameForm(a, b)
         /\ b.calls = a.calls /\ b.ok = a.ok /\ b.lost = a.lost
         /\ b.wrote = a.wrote /\ b.mounted = FALSE /\ b.here = FALSE
  BY DEF IsAction, SameForm

LEMMA SameAction ==
  ASSUME NEW p, NEW a, NEW b, SameForm(a, b)
  PROVE  /\ \A d : Filled(p, a, d) => Filled(p, b, d)
         /\ Left(p, b) = Left(p, a) /\ Calls(p, b) = Calls(p, a)
         /\ CommitsEarly(p, a) => CommitsEarly(p, b)
         /\ \A s : Late(p, a, s) => Late(p, b, s)
         /\ \A s, d : Held(p, s, a, d) => Held(p, s, b, d)
<1>1. ASSUME NEW d, Filled(p, a, d)  PROVE Filled(p, b, d)
  BY <1>1 DEF SameForm, Filled, ProviderFilled, ModelFilled, RouteFilled, PluginFilled, TenantFilled,
              GroupFilled, ApplicationFilled, APIKeyFilled, OperatorFilled, RoleFilled, BudgetFilled,
              ReservationFilled
<1>2. /\ Keyed(p, b) = Keyed(p, a) /\ Checked(p, b) = Checked(p, a) /\ Writes(p, b) = Writes(p, a)
      /\ Long(p, b) = Long(p, a) /\ LongLeft(p, b) = LongLeft(p, a)
  BY DEF SameForm, Keyed, Checked, Writes, Long, LongLeft
<1>3. Left(p, b) = Left(p, a)
  BY <1>2 DEF SameForm, Left
<1>4. Calls(p, b) = Calls(p, a)
  BY DEF SameForm, Calls, ProviderCalls, ModelCalls, RouteCalls, GroupCalls, ApplicationCalls,
         OperatorCalls, RoleCalls
<1>5. ASSUME NEW s, NEW d, Held(p, s, a, d)  PROVE Held(p, s, b, d)
  BY <1>5 DEF SameForm, Held, ModelAccepted, RouteAccepted
<1>6. CommitsEarly(p, a) => CommitsEarly(p, b)
  BY DEF SameForm, CommitsEarly
<1>7. \A s : Late(p, a, s) => Late(p, b, s)
  BY <1>6 DEF Late
<1> QED BY <1>1, <1>3, <1>4, <1>5, <1>6, <1>7

LEMMA ActionFields ==
  ASSUME NEW p, NEW f, NEW n, NEW x, NEW y, NEW b, b = Action(p, f, n, x, y)
  PROVE  b.form = f /\ b.name = n /\ b.body = x /\ b.row = y /\ b.calls = Calls(p, b)
<1> DEFINE c == [form |-> f, body |-> x]
<1>1. b.form = f /\ b.name = n /\ b.body = x /\ b.row = y /\ b.calls = Calls(p, c)
  BY DEF Action
<1>2. c.form = f /\ c.body = x
  OBVIOUS
<1> HIDE DEF c
<1>3. Calls(p, c) = Calls(p, b)
  BY <1>1, <1>2 DEF Calls, ProviderCalls, ModelCalls, RouteCalls, GroupCalls, ApplicationCalls,
                    OperatorCalls, RoleCalls
<1> QED BY <1>1, <1>3

(* An entry of the queue of a tab on page p, over the tables d: a refresh,   *)
(* or an action that is filled as long as it has statements to run.  One     *)
(* that has written and still runs is past the point where it is refused;    *)
(* one that has written and failed commits early, or its answer was lost.    *)
Item(p, a, d) ==
    \/ a = Refreshing
    \/ /\ IsAction(a) /\ a.form \notin {"refresh", "reveal", "none"}
       /\ {a.ok, a.lost, a.wrote, a.mounted, a.here} \subseteq BOOLEAN
       /\ a.calls \in Left(p, a) /\ (a.mounted => a.here)
       /\ a.calls # <<>> => /\ Filled(p, a, d) /\ a.ok /\ ~a.lost
                            /\ a.wrote => Late(p, a, Head(a.calls))
       /\ a.wrote /\ ~a.ok /\ ~a.lost => CommitsEarly(p, a)
(* Only the first entry has begun.                                           *)
Fresh(p, a) == a = Refreshing \/ (a.calls = Calls(p, a) /\ ~a.wrote)
Queued(p, q, d) ==
    /\ \E X : q \in Seq(X)
    /\ \A i \in 1..Len(q) : Item(p, q[i], d) /\ (i > 1 => Fresh(p, q[i]))

CreateNames(q) == {q[i].name : i \in {j \in DOMAIN q : q[j].form = "create"}}
MountedAt(q) == {i \in DOMAIN q : q[i].form = "create" /\ q[i].mounted}
Once(q) ==
    \A i, j \in DOMAIN q : q[i].form = "create" /\ q[j].form = "create" /\ q[i].name = q[j].name => i = j

(* The three ways a queue changes: an entry joins, the first one leaves, and *)
(* entries change their state.                                               *)
LEMMA Joins ==
  ASSUME NEW p, NEW d, NEW q, Queued(p, q, d), NEW a, Item(p, a, d), Fresh(p, a)
  PROVE  LET r == Append(q, a) IN
         /\ Queued(p, r, d)
         /\ CreateNames(r) = CreateNames(q) \cup (IF a.form = "create" THEN {a.name} ELSE {})
         /\ Once(q) /\ (a.form = "create" => a.name \notin CreateNames(q)) => Once(r)
         /\ MountedAt(r) \subseteq MountedAt(q) \cup {Len(q) + 1}
         /\ a.form # "create" => MountedAt(r) \subseteq MountedAt(q)
         /\ r # <<>> /\ Head(r) = (IF q = <<>> THEN a ELSE Head(q))
<1> DEFINE r == Append(q, a)
<1>1. PICK X : q \in Seq(X)
  BY DEF Queued
<1>2. r \in Seq(X \cup {a}) /\ Len(r) = Len(q) + 1 /\ Len(q) \in Nat
  BY <1>1
<1>3. /\ \A i \in 1..Len(q) : r[i] = q[i]
      /\ r[Len(q) + 1] = a
      /\ DOMAIN q = 1..Len(q) /\ DOMAIN r = 1..(Len(q) + 1)
      /\ r # <<>> /\ Head(r) = (IF q = <<>> THEN a ELSE Head(q))
  BY <1>1
<1> HIDE DEF r
<1>4. DOMAIN r = DOMAIN q \cup {Len(q) + 1} /\ Len(q) + 1 \notin DOMAIN q
  BY <1>2, <1>3
<1>5. Queued(p, r, d)
  <2>1. \A i \in 1..Len(r) : Item(p, r[i], d) /\ (i > 1 => Fresh(p, r[i]))
    BY <1>2, <1>3, <1>4 DEF Queued
  <2> QED BY <1>2, <2>1 DEF Queued
<1>6. CreateNames(r) = CreateNames(q) \cup (IF a.form = "create" THEN {a.name} ELSE {})
  BY <1>3, <1>4 DEF CreateNames
<1>7. Once(q) /\ (a.form = "create" => a.name \notin CreateNames(q)) => Once(r)
  BY <1>3, <1>4 DEF Once, CreateNames
<1>8. /\ MountedAt(r) \subseteq MountedAt(q) \cup {Len(q) + 1}
      /\ a.form # "create" => MountedAt(r) \subseteq MountedAt(q)
  BY <1>3, <1>4 DEF MountedAt
<1> QED BY <1>3, <1>5, <1>6, <1>7, <1>8 DEF r

LEMMA Leaves ==
  ASSUME NEW p, NEW d, NEW q, Queued(p, q, d), q # <<>>
  PROVE  LET r == Tail(q) IN
         /\ Queued(p, r, d)
         /\ CreateNames(q) = CreateNames(r) \cup (IF Head(q).form = "create" THEN {Head(q).name} ELSE {})
         /\ Once(q) => Once(r)
         /\ \A i \in MountedAt(r) : i + 1 \in MountedAt(q) /\ i + 1 # 1
         /\ r # <<>> => Fresh(p, Head(r)) /\ Item(p, Head(r), d)
         /\ Item(p, Head(q), d) /\ Head(q) = q[1] /\ 1 \in DOMAIN q
<1> DEFINE r == Tail(q)
<1>1. PICK X : q \in Seq(X)
  BY DEF Queued
<1>2. r \in Seq(X) /\ Len(r) = Len(q) - 1 /\ Len(q) \in Nat /\ Len(q) > 0
  BY <1>1
<1>3. /\ \A i \in 1..Len(r) : r[i] = q[i + 1]
      /\ DOMAIN q = 1..Len(q) /\ DOMAIN r = 1..Len(r)
      /\ Head(q) = q[1] /\ (r # <<>> => Len(r) > 0 /\ Head(r) = r[1])
  BY <1>1, <1>2
<1> HIDE DEF r
<1>4. /\ \A i \in DOMAIN r : i + 1 \in DOMAIN q /\ i + 1 > 1 /\ r[i] = q[i + 1]
      /\ \A j \in DOMAIN q : j = 1 \/ (j - 1 \in DOMAIN r /\ q[j] = r[j - 1])
      /\ 1 \in DOMAIN q
  <2>1. 1 \in DOMAIN q /\ \A i \in DOMAIN r : i + 1 \in DOMAIN q /\ i + 1 > 1 /\ r[i] = q[i + 1]
    BY <1>2, <1>3
  <2>2. ASSUME NEW j \in DOMAIN q, j # 1  PROVE j - 1 \in DOMAIN r /\ q[j] = r[j - 1]
    <3>1. j - 1 \in 1..Len(r) /\ (j - 1) + 1 = j
      BY <1>2, <1>3, <2>2
    <3> QED BY <1>3, <3>1
  <2> QED BY <2>1, <2>2
<1>5. Queued(p, r, d)
  <2>1. ASSUME NEW i \in 1..Len(r)  PROVE Item(p, r[i], d) /\ Fresh(p, r[i])
    BY <1>3, <1>4 DEF Queued
  <2> QED BY <1>2, <2>1 DEF Queued
<1>6. CreateNames(q) = CreateNames(r) \cup (IF Head(q).form = "create" THEN {Head(q).name} ELSE {})
  <2>1. CreateNames(r) \subseteq CreateNames(q)
    BY <1>4 DEF CreateNames
  <2>2. Head(q).form = "create" => Head(q).name \in CreateNames(q)
    BY <1>3, <1>4 DEF CreateNames
  <2>3. ASSUME NEW n \in CreateNames(q)
        PROVE  n \in CreateNames(r) \/ (Head(q).form = "create" /\ n = Head(q).name)
    <3>1. PICK j \in DOMAIN q : q[j].form = "create" /\ n = q[j].name
      BY DEF CreateNames
    <3> QED BY <1>3, <1>4, <3>1 DEF CreateNames
  <2> QED BY <2>1, <2>2, <2>3
<1>7. Once(q) => Once(r)
  <2> SUFFICES ASSUME Once(q), NEW i \in DOMAIN r, NEW j \in DOMAIN r, r[i].form = "create",
                      r[j].form = "create", r[i].name = r[j].name
               PROVE  i = j
    BY DEF Once
  <2>1. i + 1 = j + 1
    BY <1>4 DEF Once
  <2> QED BY <1>2, <1>3, <2>1
<1>8. \A i \in MountedAt(r) : i + 1 \in MountedAt(q) /\ i + 1 # 1
  <2> SUFFICES ASSUME NEW i \in MountedAt(r)  PROVE i + 1 \in MountedAt(q) /\ i + 1 # 1
    OBVIOUS
  <2>1. i \in DOMAIN r /\ r[i].form = "create" /\ r[i].mounted /\ i \in 1..Len(r)
    BY <1>3 DEF MountedAt
  <2>2. i + 1 # 1
    BY <1>2, <2>1
  <2> QED BY <1>4, <2>1, <2>2 DEF MountedAt
<1>9. r # <<>> => Fresh(p, Head(r)) /\ Item(p, Head(r), d)
  <2> SUFFICES ASSUME r # <<>>  PROVE Fresh(p, Head(r)) /\ Item(p, Head(r), d)
    OBVIOUS
  <2>1. 1 \in DOMAIN r /\ Head(r) = r[1]
    BY <1>2, <1>3
  <2>2. 2 \in 1..Len(q) /\ Head(r) = q[2]
    BY <1>2, <1>3, <2>1
  <2> QED BY <2>2 DEF Queued
<1>10. Item(p, Head(q), d)
  BY <1>3, <1>4 DEF Queued
<1> QED BY <1>3, <1>4, <1>5, <1>6, <1>7, <1>8, <1>9, <1>10 DEF r

Changed(p, q, r, e) ==
    /\ r = [i \in DOMAIN q |-> r[i]]
    /\ \A i \in DOMAIN q :
          /\ Item(p, r[i], e) /\ (i > 1 => Fresh(p, r[i])) /\ r[i].form = q[i].form
          /\ q[i].form = "create" => r[i].name = q[i].name /\ (r[i].mounted => q[i].mounted)

LEMMA ChangesKeep ==
  ASSUME NEW p, NEW d, NEW e, NEW q, Queued(p, q, d), NEW r, Changed(p, q, r, e)
  PROVE  /\ Queued(p, r, e) /\ (Once(q) => Once(r)) /\ MountedAt(r) \subseteq MountedAt(q)
         /\ q # <<>> => r # <<>>
<1>1. PICK X : q \in Seq(X)
  BY DEF Queued
<1>2. DOMAIN q = 1..Len(q) /\ Len(q) \in Nat
  BY <1>1
<1>3. DOMAIN r = DOMAIN q
  BY DEF Changed
<1>4. r \in [1..Len(q) -> {r[i] : i \in DOMAIN q}]
  BY <1>2, <1>3 DEF Changed
<1>5. r \in Seq({r[i] : i \in DOMAIN q}) /\ Len(r) = Len(q)
  BY <1>2, <1>4
<1>6. Queued(p, r, e)
  <2>1. \E X1 : r \in Seq(X1)
    BY <1>5
  <2> QED BY <1>2, <1>5, <2>1 DEF Queued, Changed
<1>7. Once(q) => Once(r)
  BY <1>3 DEF Once, Changed
<1>8. MountedAt(r) \subseteq MountedAt(q)
  BY <1>3 DEF MountedAt, Changed
<1>9. q # <<>> => r # <<>>
  BY <1>1, <1>2, <1>5
<1> QED BY <1>6, <1>7, <1>8, <1>9

LEMMA ChangesNames ==
  ASSUME NEW p, NEW d, NEW e, NEW q, Queued(p, q, d), NEW r, Changed(p, q, r, e)
  PROVE  CreateNames(r) = CreateNames(q) /\ (q # <<>> => Head(r) = r[1])
<1>1. DOMAIN r = DOMAIN q
  BY DEF Changed
<1>2. {j \in DOMAIN r : r[j].form = "create"} = {j \in DOMAIN q : q[j].form = "create"}
  BY <1>1 DEF Changed
<1>3. CreateNames(r) = CreateNames(q)
  BY <1>1, <1>2 DEF CreateNames, Changed
<1>4. PICK X : r \in Seq(X)
  BY ChangesKeep DEF Queued
<1>5. q # <<>> => Head(r) = r[1]
  BY <1>4, ChangesKeep
<1> QED BY <1>3, <1>5

(* A form is closed or a page left: entries lose who waits for them.         *)
Quieter(a, b) ==
    \/ b = a
    \/ /\ a # Refreshing
       /\ b = [a EXCEPT !.mounted = FALSE] \/ b = [a EXCEPT !.mounted = FALSE, !.here = FALSE]
SameState(a, b) ==
    SameForm(a, b) /\ b.calls = a.calls /\ b.ok = a.ok /\ b.lost = a.lost /\ b.wrote = a.wrote

LEMMA QuieterKeeps ==
  ASSUME NEW p, NEW d, NEW a, Item(p, a, d), NEW b, Quieter(a, b)
  PROVE  /\ Item(p, b, d) /\ (Fresh(p, a) => Fresh(p, b)) /\ b.form = a.form
         /\ a.form = "create" => b.name = a.name /\ (b.mounted => a.mounted)
         /\ a = Refreshing <=> b = Refreshing
         /\ a # Refreshing => SameState(a, b)
<1>1. CASE b = a
  BY <1>1 DEF SameState, SameForm
<1>2. CASE b # a
  <2>1. a # Refreshing /\ IsAction(a) /\ a.form \notin {"refresh", "reveal", "none"}
    BY <1>2 DEF Quieter, Item
  <2>2. /\ IsAction(b) /\ SameForm(a, b)
        /\ b.calls = a.calls /\ b.ok = a.ok /\ b.lost = a.lost
        /\ b.wrote = a.wrote /\ b.mounted = FALSE /\ (b.here = a.here \/ b.here = FALSE)
    <3>1. CASE b = [a EXCEPT !.mounted = FALSE]
      BY <2>1, <3>1, UnmountedFields
    <3>2. CASE b = [a EXCEPT !.mounted = FALSE, !.here = FALSE]
      BY <2>1, <3>2, OrphanedFields
    <3> QED BY <1>2, <3>1, <3>2 DEF Quieter
  <2>3. /\ \A e : Filled(p, a, e) => Filled(p, b, e)
        /\ Left(p, b) = Left(p, a) /\ Calls(p, b) = Calls(p, a)
        /\ CommitsEarly(p, a) => CommitsEarly(p, b)
        /\ \A s : Late(p, a, s) => Late(p, b, s)
    BY <2>2, SameAction
  <2>4. Item(p, b, d)
    <3>1. /\ {a.ok, a.lost, a.wrote, a.mounted, a.here} \subseteq BOOLEAN /\ a.calls \in Left(p, a)
          /\ a.calls # <<>> => Filled(p, a, d) /\ a.ok /\ ~a.lost /\ (a.wrote => Late(p, a, Head(a.calls)))
          /\ a.wrote /\ ~a.ok /\ ~a.lost => CommitsEarly(p, a)
      BY <2>1 DEF Item
    <3>2. {b.ok, b.lost, b.wrote, b.mounted, b.here} \subseteq BOOLEAN
      BY <2>2, <3>1
    <3>3. b.form \notin {"refresh", "reveal", "none"}
      BY <2>1, <2>2 DEF SameForm
    <3>4. b.calls # <<>> => Filled(p, b, d) /\ b.ok /\ ~b.lost /\ (b.wrote => Late(p, b, Head(b.calls)))
      BY <2>2, <2>3, <3>1
    <3>5. b.calls \in Left(p, b) /\ ~b.mounted
      BY <2>2, <2>3, <3>1
    <3>6. b.wrote /\ ~b.ok /\ ~b.lost => CommitsEarly(p, b)
      BY <2>2, <2>3, <3>1
    <3> QED BY <2>2, <3>2, <3>3, <3>4, <3>5, <3>6 DEF Item
  <2>5. Fresh(p, a) => Fresh(p, b)
    BY <2>1, <2>2, <2>3 DEF Fresh
  <2>6. b # Refreshing
    BY <2>1, <2>2 DEF SameForm, Refreshing
  <2> QED BY <2>1, <2>2, <2>4, <2>5, <2>6 DEF SameState, SameForm
<1> QED BY <1>1, <1>2

LEMMA QueueQuiets ==
  ASSUME NEW p, NEW d, NEW q, Queued(p, q, d), NEW r, r = [i \in DOMAIN q |-> r[i]],
         \A i \in DOMAIN q : Quieter(q[i], r[i])
  PROVE  /\ Queued(p, r, d) /\ CreateNames(r) = CreateNames(q) /\ (Once(q) => Once(r))
         /\ MountedAt(r) \subseteq MountedAt(q) /\ DOMAIN r = DOMAIN q
         /\ q # <<>> <=> r # <<>>
         /\ q # <<>> => /\ 1 \in DOMAIN q /\ Head(q) = q[1] /\ Head(r) = r[1]
                        /\ Head(q) = Refreshing <=> Head(r) = Refreshing
                        /\ Head(q) # Refreshing => SameState(Head(q), Head(r))
<1>1. ASSUME NEW i \in DOMAIN q
      PROVE  /\ Item(p, r[i], d) /\ (i > 1 => Fresh(p, r[i])) /\ r[i].form = q[i].form
             /\ q[i].form = "create" => r[i].name = q[i].name /\ (r[i].mounted => q[i].mounted)
             /\ q[i] = Refreshing <=> r[i] = Refreshing
             /\ q[i] # Refreshing => SameState(q[i], r[i])
  <2>1. Item(p, q[i], d) /\ (i > 1 => Fresh(p, q[i]))
    <3>1. i \in 1..Len(q)
      BY DEF Queued
    <3> QED BY <3>1 DEF Queued
  <2>2. Quieter(q[i], r[i])
    OBVIOUS
  <2> QED BY <2>1, <2>2, QuieterKeeps
<1>2. Changed(p, q, r, d)
  BY <1>1 DEF Changed
<1>3. /\ Queued(p, r, d) /\ CreateNames(r) = CreateNames(q) /\ (Once(q) => Once(r))
      /\ MountedAt(r) \subseteq MountedAt(q) /\ (q # <<>> => r # <<>> /\ Head(r) = r[1])
  <2>1. /\ Queued(p, r, d) /\ (Once(q) => Once(r)) /\ MountedAt(r) \subseteq MountedAt(q)
        /\ q # <<>> => r # <<>>
    BY <1>2, ChangesKeep, Zenon
  <2>2. CreateNames(r) = CreateNames(q) /\ (q # <<>> => Head(r) = r[1])
    <3>1. Queued(p, q, d) /\ Changed(p, q, r, d)
      BY <1>2
    <3> QED BY ONLY <3>1, ChangesNames
  <2> QED BY <2>1, <2>2
<1>4. DOMAIN r = DOMAIN q
  OBVIOUS
<1>5. r # <<>> => q # <<>>
  <2>1. q = <<>> => DOMAIN r = {}
    BY <1>4
  <2>2. PICK X : r \in Seq(X)
    BY <1>3 DEF Queued
  <2> QED BY <2>1, <2>2
<1>6. q # <<>> => 1 \in DOMAIN q /\ Head(q) = q[1]
  BY Leaves
<1> QED BY <1>1, <1>3, <1>4, <1>5, <1>6

(* The page goes away: nobody waits any more.                                *)
LEMMA OrphanedQueue ==
  ASSUME NEW p, NEW d, NEW q, Queued(p, q, d)
  PROVE  LET r == Orphaned(q) IN
         /\ Queued(p, r, d) /\ CreateNames(r) = CreateNames(q) /\ (Once(q) => Once(r))
         /\ MountedAt(r) = {}
         /\ q # <<>> <=> r # <<>>
         /\ q # <<>> => /\ Head(q) = Refreshing <=> Head(r) = Refreshing
                        /\ Head(q) # Refreshing => SameState(Head(q), Head(r))
<1> DEFINE r == Orphaned(q)
           gone(a) == [a EXCEPT !.mounted = FALSE, !.here = FALSE]
<1>1. r = [i \in DOMAIN q |-> r[i]]
  BY DEF Orphaned
<1>2. \A i \in DOMAIN q : r[i] = IF q[i] = Refreshing THEN q[i] ELSE gone(q[i])
  BY DEF Orphaned
<1> HIDE DEF r
<1>3. \A i \in DOMAIN q : Quieter(q[i], r[i])
  BY <1>2 DEF Quieter
<1>4. /\ Queued(p, r, d) /\ CreateNames(r) = CreateNames(q) /\ (Once(q) => Once(r))
      /\ MountedAt(r) \subseteq MountedAt(q) /\ DOMAIN r = DOMAIN q
      /\ q # <<>> <=> r # <<>>
      /\ q # <<>> => /\ Head(q) = Refreshing <=> Head(r) = Refreshing
                     /\ Head(q) # Refreshing => SameState(Head(q), Head(r))
  <2>1. /\ Queued(p, r, d) /\ CreateNames(r) = CreateNames(q) /\ (Once(q) => Once(r))
        /\ MountedAt(r) \subseteq MountedAt(q) /\ DOMAIN r = DOMAIN q
        /\ q # <<>> <=> r # <<>>
        /\ q # <<>> => /\ 1 \in DOMAIN q /\ Head(q) = q[1] /\ Head(r) = r[1]
                       /\ Head(q) = Refreshing <=> Head(r) = Refreshing
                       /\ Head(q) # Refreshing => SameState(Head(q), Head(r))
    BY <1>1, <1>3, QueueQuiets, Zenon
  <2> QED BY <2>1, Zenon
<1>5. MountedAt(r) = {}
  <2> SUFFICES ASSUME NEW i \in MountedAt(r)  PROVE FALSE
    OBVIOUS
  <2>1. i \in DOMAIN q /\ r[i].form = "create" /\ r[i].mounted
    BY <1>4 DEF MountedAt
  <2>2. Item(p, q[i], d)
    <3>1. i \in 1..Len(q)
      BY <2>1 DEF Queued
    <3> QED BY <3>1 DEF Queued
  <2>3. q[i] # Refreshing
    <3> SUFFICES ASSUME q[i] = Refreshing  PROVE FALSE
      OBVIOUS
    <3>1. r[i] = Refreshing
      BY <1>2, <2>1
    <3>2. Refreshing.form = "refresh"
      BY DEF Refreshing
    <3> QED BY <2>1, <3>1, <3>2
  <2>4. IsAction(q[i])
    BY <2>2, <2>3 DEF Item
  <2>5. r[i].mounted = FALSE
    <3>1. r[i] = gone(q[i])
      BY <1>2, <2>1, <2>3
    <3> QED BY <2>4, <3>1, OrphanedFields
  <2> QED BY <2>1, <2>5
<1> QED BY <1>4, <1>5 DEF r

----------------------------------------------------------------------------
(* The inductive invariant.                                                  *)

TabsTyped ==
    /\ page \in [Tab -> PageName] /\ unseen \in [Tab -> BOOLEAN]
    /\ view = [t \in Tab |-> view[t]] /\ dialog = [t \in Tab |-> dialog[t]]
    /\ queue = [t \in Tab |-> queue[t]]
    /\ overlap \in BOOLEAN /\ faults \in Nat

(* Pages and dialogs were rendered from earlier tables.                      *)
ViewFits(p, v, d) == v = Nil \/ \E e \in Database : Earlier(e, d) /\ v = Render(p, e)
OpenFits(p, x, d) ==
    \/ x = NoDialog
    \/ IsDialog(x) /\ x.form = "reveal"
    \/ IsDialog(x) /\ \E e \in Database : Earlier(e, d) /\ DialogFits(p, x, e)
PagesFit ==
    \A t \in Tab :
        ViewFits(page[t], view[t], db) /\ OpenFits(page[t], dialog[t], db) /\ Queued(page[t], queue[t], db)

(* The database assigns the ids: no two budgets are created under one.       *)
BudgetsApart ==
    /\ \A t \in Tab : page[t] = "budgets" => Once(queue[t])
    /\ \A t, u \in Tab : page[t] = "budgets" /\ page[u] = "budgets" /\ t # u =>
          CreateNames(queue[t]) \cap CreateNames(queue[u]) = {}

(* As long as no handler was overtaken, what a running one has found holds.  *)
Undisturbed ==
    ~overlap =>
        /\ References(db) /\ Supers(db.operator) # {}
        /\ \A t \in Tab : Running(t) => Held(page[t], Head(Head(queue[t]).calls), Head(queue[t]), db)

(* A provider whose key is missing is being created, and its key is next,    *)
(* unless the reference was written by hand or put back.                     *)
Owing(t, p) ==
    /\ Running(t) /\ page[t] = "providers" /\ Head(queue[t]).name = p
    /\ Head(Head(queue[t]).calls) = "persist"
KeysOwed ==
    ~overlap /\ faults = 0 =>
        \A p \in Provider : Owed(p, db) /\ p \notin claimed => \E t \in Tab : Owing(t, p)

(* A form that waits for its new key is the open one, and there is one.      *)
KeyForms ==
    \A t \in Tab : page[t] = "apikeys" =>
        \A i \in MountedAt(queue[t]) : dialog[t].form = "create" /\ \A j \in MountedAt(queue[t]) : j = i

(* Keys of tab t that are still to be accounted for.                         *)
KeysAt(p, q, x) ==
    (IF x.form = "reveal" THEN {x.name} ELSE {}) \cup (IF p = "apikeys" THEN CreateNames(q) ELSE {})
KeysSomewhere ==
    \A k \in Stored(db.apikey) : k \in accounted \/ \E t \in Tab : k \in KeysAt(page[t], queue[t], dialog[t])

(* A handler that has written and then failed was overtaken, or a call of it *)
(* failed on the way.                                                        *)
Excused(q, o, f) ==
    q # <<>> /\ Head(q) # Refreshing /\ Head(q).wrote /\ ~Head(q).ok /\ ~Head(q).lost => o \/ f # 0

(* A write that the page does not show is still to be answered there, or the *)
(* page is the notice that it could not be read.                             *)
Shows(q, v) == v = Nil \/ (q # <<>> /\ Head(q) # Refreshing /\ Head(q).here)

ConsoleInv ==
    /\ TabsTyped /\ db \in Database /\ TenancyReferences(db) /\ PagesFit /\ BudgetsApart
    /\ Undisturbed /\ KeysOwed /\ KeyForms /\ KeysSomewhere
    /\ \A t \in Tab : Excused(queue[t], overlap, faults)
    /\ \A t \in Tab : unseen[t] => Shows(queue[t], view[t])

(* A step of the browser: the tables stay, and one tab changes.              *)
Going(q) == q # <<>> /\ Head(q) # Refreshing /\ Head(q).calls # <<>>
BrowserStep(t, q, v, x, b) ==
    /\ UNCHANGED <<db, page, overlap, claimed>> /\ faults' \in Nat /\ (faults' = 0 => faults = 0)
    /\ queue' = [queue EXCEPT ![t] = q] /\ view' = [view EXCEPT ![t] = v]
    /\ dialog' = [dialog EXCEPT ![t] = x] /\ unseen' = [unseen EXCEPT ![t] = b]
    /\ ViewFits(page[t], v, db) /\ OpenFits(page[t], x, db) /\ Queued(page[t], q, db)
    /\ b \in BOOLEAN /\ (b => Shows(q, v)) /\ Excused(q, overlap, faults')
    /\ page[t] = "budgets" => /\ Once(q)
                              /\ \A u \in Tab \ {t} : page[u] = "budgets" =>
                                    CreateNames(q) \cap CreateNames(queue[u]) = {}
    /\ Going(q) => \/ Head(q).calls = Calls(page[t], Head(q))
                   \/ Running(t) /\ SameForm(Head(queue[t]), Head(q)) /\ Head(q).calls = Head(queue[t]).calls
    /\ Running(t) /\ faults' = 0 =>
          Going(q) /\ Head(q).name = Head(queue[t]).name /\ Head(q).calls = Head(queue[t]).calls
    /\ page[t] = "apikeys" => \A i \in MountedAt(q) : x.form = "create" /\ \A j \in MountedAt(q) : j = i
    /\ accounted \subseteq accounted'
    /\ KeysAt(page[t], queue[t], dialog[t]) \subseteq accounted' \cup KeysAt(page[t], q, x)

LEMMA BrowserKeeps ==
  ASSUME ConsoleInv, NEW t \in Tab, NEW q, NEW v, NEW x, NEW b, BrowserStep(t, q, v, x, b)
  PROVE  ConsoleInv'
<1>1. TabsTyped
  BY DEF ConsoleInv
<1>2. /\ \A u \in Tab : queue'[u] = (IF u = t THEN q ELSE queue[u])
      /\ \A u \in Tab : view'[u] = (IF u = t THEN v ELSE view[u])
      /\ \A u \in Tab : dialog'[u] = (IF u = t THEN x ELSE dialog[u])
      /\ \A u \in Tab : unseen'[u] = (IF u = t THEN b ELSE unseen[u])
      /\ db' = db /\ page' = page /\ overlap' = overlap /\ claimed' = claimed
  BY <1>1 DEF TabsTyped, BrowserStep
<1>3. TabsTyped'
  BY <1>1 DEF TabsTyped, BrowserStep
<1>4. db' \in Database /\ TenancyReferences(db')
  BY <1>2 DEF ConsoleInv
<1>5. PagesFit'
  BY <1>2 DEF ConsoleInv, PagesFit, BrowserStep
<1>6. BudgetsApart'
  <2>1. ASSUME NEW u \in Tab, page[u] = "budgets"  PROVE Once(queue'[u])
    BY <1>2, <2>1 DEF ConsoleInv, BudgetsApart, BrowserStep
  <2>2. ASSUME NEW u \in Tab, NEW w \in Tab, page[u] = "budgets", page[w] = "budgets", u # w
        PROVE  CreateNames(queue'[u]) \cap CreateNames(queue'[w]) = {}
    <3>1. CreateNames(queue[u]) \cap CreateNames(queue[w]) = {}
      BY <2>2 DEF ConsoleInv, BudgetsApart
    <3>2. CASE u = t
      BY <1>2, <2>2, <3>2 DEF BrowserStep
    <3>3. CASE w = t
      <4>1. CreateNames(q) \cap CreateNames(queue[u]) = {}
        BY <2>2, <3>3 DEF BrowserStep
      <4> QED BY <1>2, <2>2, <3>3, <4>1
    <3>4. CASE u # t /\ w # t
      BY <1>2, <3>1, <3>4
    <3> QED BY <3>2, <3>3, <3>4
  <2> QED BY <1>2, <2>1, <2>2 DEF BudgetsApart
<1>7. ASSUME NEW u \in Tab  PROVE Running(u)' = Going(queue'[u]) /\ Running(u) = Going(queue[u])
  BY DEF Running, Going
<1>8. Undisturbed'
  <2> SUFFICES ASSUME ~overlap, NEW u \in Tab, Running(u)'
               PROVE  Held(page[u], Head(Head(queue'[u]).calls), Head(queue'[u]), db)
    BY <1>2 DEF ConsoleInv, Undisturbed
  <2>1. CASE u # t
    <3>1. queue'[u] = queue[u] /\ Running(u)
      BY <1>2, <1>7, <2>1
    <3> QED BY <3>1 DEF ConsoleInv, Undisturbed
  <2>2. CASE u = t
    <3> DEFINE a == Head(q)
    <3>1. queue'[u] = q /\ Going(q)
      BY <1>2, <1>7, <2>2
    <3>2. CASE a.calls = Calls(page[t], a)
      <4>1. Item(page[t], a, db)
        BY <3>1, Leaves DEF BrowserStep, Going
      <4>2. Filled(page[t], a, db)
        BY <3>1, <4>1 DEF Item, Going
      <4>3. page[t] \in PageName
        BY <1>1 DEF TabsTyped
      <4> QED BY <2>2, <3>1, <3>2, <4>2, <4>3, CallsStart
    <3>3. CASE Running(t) /\ SameForm(Head(queue[t]), a) /\ a.calls = Head(queue[t]).calls
      <4>1. Held(page[t], Head(a.calls), Head(queue[t]), db)
        BY <3>3 DEF ConsoleInv, Undisturbed
      <4>2. Held(page[t], Head(a.calls), a, db)
        <5>1. SameForm(Head(queue[t]), a)
          BY <3>3
        <5> HIDE DEF a
        <5> QED BY <4>1, <5>1, SameAction, Zenon
      <4> QED BY <2>2, <3>1, <4>2
    <3> QED BY <3>1, <3>2, <3>3 DEF BrowserStep
  <2> QED BY <2>1, <2>2
<1>9. KeysOwed'
  <2> SUFFICES ASSUME ~overlap, faults' = 0, NEW p \in Provider, Owed(p, db), p \notin claimed
               PROVE  \E u \in Tab : Owing(u, p)'
    BY <1>2 DEF KeysOwed
  <2>1. faults = 0
    BY DEF BrowserStep
  <2>2. PICK u \in Tab : Owing(u, p)
    BY <2>1 DEF ConsoleInv, KeysOwed
  <2>3. Owing(u, p)'
    <3>1. CASE u # t
      BY <1>2, <1>7, <2>2, <3>1 DEF Owing
    <3>2. CASE u = t
      <4>1. queue'[u] = q /\ Going(q) /\ Head(q).name = Head(queue[t]).name /\ Head(q).calls = Head(queue[t]).calls
        BY <1>2, <2>2, <3>2 DEF BrowserStep, Owing
      <4> QED BY <1>2, <1>7, <2>2, <3>2, <4>1 DEF Owing
    <3> QED BY <3>1, <3>2
  <2> QED BY <2>3
<1>10. KeyForms'
  BY <1>2 DEF ConsoleInv, KeyForms, BrowserStep
<1>11. KeysSomewhere'
  <2> SUFFICES ASSUME NEW k \in Stored(db.apikey)
               PROVE  k \in accounted' \/ \E u \in Tab : k \in KeysAt(page[u], queue'[u], dialog'[u])
    BY <1>2 DEF KeysSomewhere
  <2>1. k \in accounted \/ \E u \in Tab : k \in KeysAt(page[u], queue[u], dialog[u])
    BY DEF ConsoleInv, KeysSomewhere
  <2>2. CASE k \in accounted
    BY <2>2 DEF BrowserStep
  <2>3. ASSUME NEW u \in Tab, k \in KeysAt(page[u], queue[u], dialog[u])
        PROVE  k \in accounted' \/ \E w \in Tab : k \in KeysAt(page[w], queue'[w], dialog'[w])
    <3>1. CASE u = t
      BY <1>2, <2>3, <3>1 DEF BrowserStep
    <3>2. CASE u # t
      BY <1>2, <2>3, <3>2
    <3> QED BY <3>1, <3>2
  <2> QED BY <2>1, <2>2, <2>3
<1>12. \A u \in Tab : unseen'[u] => Shows(queue'[u], view'[u])
  BY <1>2 DEF ConsoleInv, BrowserStep
<1>13. \A u \in Tab : Excused(queue'[u], overlap', faults')
  <2> SUFFICES ASSUME NEW u \in Tab  PROVE Excused(queue'[u], overlap, faults')
    BY <1>2
  <2>1. CASE u = t
    BY <1>2, <2>1 DEF BrowserStep
  <2>2. CASE u # t
    <3>1. Excused(queue[u], overlap, faults) /\ (faults # 0 => faults' # 0)
      BY DEF ConsoleInv, BrowserStep
    <3> QED BY <1>2, <2>2, <3>1 DEF Excused
  <2> QED BY <2>1, <2>2
<1> QED BY <1>3, <1>4, <1>5, <1>6, <1>8, <1>9, <1>10, <1>11, <1>12, <1>13 DEF ConsoleInv

----------------------------------------------------------------------------
(* The operator's steps.                                                     *)

(* What the invariant says of one tab.                                       *)
LEMMA TabFacts ==
  ASSUME ConsoleInv, NEW t \in Tab
  PROVE  /\ page[t] \in PageName /\ db \in Database /\ unseen[t] \in BOOLEAN /\ faults \in Nat
         /\ ViewFits(page[t], view[t], db) /\ OpenFits(page[t], dialog[t], db)
         /\ Queued(page[t], queue[t], db) /\ (unseen[t] => Shows(queue[t], view[t]))
         /\ Excused(queue[t], overlap, faults)
         /\ queue = [queue EXCEPT ![t] = queue[t]] /\ view = [view EXCEPT ![t] = view[t]]
         /\ dialog = [dialog EXCEPT ![t] = dialog[t]] /\ unseen = [unseen EXCEPT ![t] = unseen[t]]
         /\ page[t] = "budgets" => /\ Once(queue[t])
                                   /\ \A u \in Tab \ {t} : page[u] = "budgets" =>
                                         CreateNames(queue[t]) \cap CreateNames(queue[u]) = {}
         /\ Running(t) = Going(queue[t])
         /\ page[t] = "apikeys" => \A i \in MountedAt(queue[t]) :
               dialog[t].form = "create" /\ \A j \in MountedAt(queue[t]) : j = i
<1>1. TabsTyped /\ PagesFit /\ BudgetsApart /\ KeyForms
  BY DEF ConsoleInv
<1>2. /\ page[t] \in PageName /\ db \in Database /\ unseen[t] \in BOOLEAN /\ faults \in Nat
      /\ queue = [queue EXCEPT ![t] = queue[t]] /\ view = [view EXCEPT ![t] = view[t]]
      /\ dialog = [dialog EXCEPT ![t] = dialog[t]] /\ unseen = [unseen EXCEPT ![t] = unseen[t]]
  BY <1>1 DEF TabsTyped, ConsoleInv
<1>3. Running(t) = Going(queue[t])
  BY DEF Running, Going
<1>4. (unseen[t] => Shows(queue[t], view[t])) /\ Excused(queue[t], overlap, faults)
  BY DEF ConsoleInv
<1>5. /\ ViewFits(page[t], view[t], db) /\ OpenFits(page[t], dialog[t], db)
      /\ Queued(page[t], queue[t], db)
  BY <1>1 DEF PagesFit
<1>6. page[t] = "budgets" => /\ Once(queue[t])
                             /\ \A u \in Tab \ {t} : page[u] = "budgets" =>
                                   CreateNames(queue[t]) \cap CreateNames(queue[u]) = {}
  BY <1>1 DEF BudgetsApart
<1>7. page[t] = "apikeys" => \A i \in MountedAt(queue[t]) :
         dialog[t].form = "create" /\ \A j \in MountedAt(queue[t]) : j = i
  BY <1>1 DEF KeyForms
<1> QED BY <1>2, <1>3, <1>4, <1>5, <1>6, <1>7

(* A dialog opens or closes and the queue stays.                             *)
LEMMA DialogKeeps ==
  ASSUME ConsoleInv, NEW t \in Tab, NEW x, OpenFits(page[t], x, db), dialog' = [dialog EXCEPT ![t] = x],
         UNCHANGED <<db, page, view, queue, enabling, acts, faults, overlap, claimed, unseen>>,
         accounted \subseteq accounted', MountedAt(queue[t]) = {} \/ page[t] # "apikeys",
         dialog[t].form = "reveal" => dialog[t].name \in accounted'
  PROVE  ConsoleInv'
<1>1. BrowserStep(t, queue[t], view[t], x, unseen[t])
  <2>1. KeysAt(page[t], queue[t], dialog[t]) \subseteq accounted' \cup KeysAt(page[t], queue[t], x)
    BY DEF KeysAt
  <2>2. /\ queue' = [queue EXCEPT ![t] = queue[t]] /\ view' = [view EXCEPT ![t] = view[t]]
        /\ unseen' = [unseen EXCEPT ![t] = unseen[t]]
    BY TabFacts
  <2>3. SameForm(Head(queue[t]), Head(queue[t]))
    BY DEF SameForm
  <2> QED BY <2>1, <2>2, <2>3, TabFacts DEF BrowserStep
<1> QED BY <1>1, BrowserKeeps

LEMMA OfferedFits ==
  ASSUME NEW p \in PageName, NEW v, ViewFits(p, v, db), v # Nil, NEW x \in Offer(p, v)
  PROVE  OpenFits(p, x, db) /\ x.form # "reveal"
<1>1. PICK e \in Database : Earlier(e, db) /\ v = Render(p, e)
  BY DEF ViewFits
<1>2. /\ IsDialog(x)
      /\ \/ x = Dialog("create", Nil, Nil) /\ p # "reservations"
         \/ OnRow(x, RowForms(p), Render(p, e))
  BY <1>1, OfferFit
<1>3. DialogFits(p, x, e)
  BY <1>2, DialogFields DEF DialogFits
<1>4. x.form # "reveal"
  BY <1>2, DialogFields DEF OnRow, RowForms, PageName
<1> QED BY <1>1, <1>2, <1>3, <1>4 DEF OpenFits

LEMMA OpenDialogKeeps ==
  ASSUME ConsoleInv, NEW t \in Tab, OpenDialog(t)  PROVE ConsoleInv'
<1>1. PICK x \in Offer(page[t], view[t]) : dialog' = [dialog EXCEPT ![t] = x]
  BY DEF OpenDialog
<1>2. OpenFits(page[t], x, db)
  BY TabFacts, OfferedFits DEF OpenDialog
<1>3. dialog[t].form = "none"
  BY DialogFields DEF OpenDialog, NoDialog
<1>4. MountedAt(queue[t]) = {} \/ page[t] # "apikeys"
  BY <1>3, TabFacts
<1> QED BY <1>1, <1>2, <1>3, <1>4, DialogKeeps DEF OpenDialog

LEMMA SavedKeyKeeps ==
  ASSUME ConsoleInv, NEW t \in Tab, SavedKey(t)  PROVE ConsoleInv'
<1>1. MountedAt(queue[t]) = {} \/ page[t] # "apikeys"
  BY TabFacts DEF SavedKey
<1>2. OpenFits(page[t], NoDialog, db)
  BY DEF OpenFits
<1> QED BY <1>1, <1>2, DialogKeeps DEF SavedKey

LEMMA OpenForms ==
  ASSUME NEW p \in PageName, NEW x, NEW d, OpenFits(p, x, d)
  PROVE  /\ x.form \in {"none", "reveal", "create", "edit", "delete", "disable", "resolve"}
         /\ x.form = "none" \/ x # NoDialog
<1>1. NoDialog.form = "none"
  BY DialogFields DEF NoDialog
<1>2. RowForms(p) \subseteq {"edit", "delete", "disable", "resolve"}
  BY DEF RowForms, PageName
<1> QED BY <1>1, <1>2 DEF OpenFits, DialogFits, OnRow

LEMMA ItemForms ==
  ASSUME NEW p, NEW d, NEW a, Item(p, a, d)
  PROVE  /\ a = Refreshing => a.form = "refresh"
         /\ a # Refreshing => a.form \notin {"refresh", "reveal", "none"} /\ IsAction(a)
  BY DEF Item, Refreshing

LEMMA CloseDialogKeeps ==
  ASSUME ConsoleInv, NEW t \in Tab, CloseDialog(t)  PROVE ConsoleInv'
<1> DEFINE p == page[t]
           q == queue[t]
           f == dialog[t].form
           r == [i \in DOMAIN q |-> IF q[i].form = f THEN [q[i] EXCEPT !.mounted = FALSE] ELSE q[i]]
<1>1. /\ dialog' = [dialog EXCEPT ![t] = NoDialog] /\ queue' = [queue EXCEPT ![t] = r]
      /\ UNCHANGED <<db, page, view, faults, overlap, claimed, unseen, accounted>>
      /\ f # "reveal"
  BY DEF CloseDialog, Closable
<1>2. Queued(p, q, db) /\ p \in PageName /\ OpenFits(p, dialog[t], db)
  BY TabFacts
<1>3. f # "refresh"
  BY <1>2, OpenForms
<1>4. ASSUME NEW i \in DOMAIN q
      PROVE  /\ Quieter(q[i], r[i]) /\ (q[i] # Refreshing => r[i].here = q[i].here)
             /\ q[i].form = "create" /\ f = "create" => ~r[i].mounted
  <2>1. Item(p, q[i], db)
    <3>1. i \in 1..Len(q)
      BY <1>2 DEF Queued
    <3> QED BY <1>2, <3>1 DEF Queued
  <2>2. CASE q[i].form # f
    <3>1. r[i] = q[i]
      BY <2>2
    <3> QED BY <2>2, <3>1 DEF Quieter
  <2>3. CASE q[i].form = f
    <3> DEFINE a == q[i]
               b == [a EXCEPT !.mounted = FALSE]
    <3>1. r[i] = b
      BY <2>3
    <3>2. a # Refreshing /\ IsAction(a)
      BY <1>3, <2>1, <2>3, ItemForms
    <3>3. b.mounted = FALSE /\ b.here = a.here
      BY <3>2, UnmountedFields
    <3> QED BY <3>1, <3>2, <3>3 DEF Quieter
  <2> QED BY <2>2, <2>3
<1>5. r = [i \in DOMAIN q |-> r[i]]
  OBVIOUS
<1>6. /\ NoDialog.form = "none" /\ OpenFits(p, NoDialog, db)
  BY DialogFields DEF NoDialog, OpenFits
<1> HIDE DEF r
<1>7. /\ Queued(p, r, db) /\ CreateNames(r) = CreateNames(q) /\ (Once(q) => Once(r))
      /\ MountedAt(r) \subseteq MountedAt(q) /\ DOMAIN r = DOMAIN q
      /\ q # <<>> <=> r # <<>>
      /\ q # <<>> => /\ 1 \in DOMAIN q /\ Head(q) = q[1] /\ Head(r) = r[1]
                     /\ Head(q) = Refreshing <=> Head(r) = Refreshing
                     /\ Head(q) # Refreshing => SameState(Head(q), Head(r))
  <2>1. \A i \in DOMAIN q : Quieter(q[i], r[i])
    BY <1>4
  <2> HIDE DEF q, p
  <2> QED BY <1>2, <1>5, <2>1, QueueQuiets
<1>8. p = "apikeys" => MountedAt(r) = {}
  <2> SUFFICES ASSUME p = "apikeys", NEW i \in MountedAt(r)  PROVE FALSE
    OBVIOUS
  <2>1. f = "create" /\ i \in MountedAt(q)
    BY <1>7, TabFacts
  <2> QED BY <1>4, <2>1 DEF MountedAt
<1>9. Running(t) = Going(q)
  BY TabFacts
<1>10. /\ Going(r) => Running(t) /\ SameForm(Head(q), Head(r)) /\ Head(r).calls = Head(q).calls
       /\ Running(t) => Going(r) /\ Head(r).name = Head(q).name /\ Head(r).calls = Head(q).calls
  BY <1>7, <1>9 DEF Going, SameState, SameForm
<1>11. (unseen[t] => Shows(r, view[t])) /\ Excused(r, overlap, faults)
  <2>1. (unseen[t] => Shows(q, view[t])) /\ Excused(q, overlap, faults)
    BY TabFacts
  <2>2. q # <<>> /\ Head(q) # Refreshing => Head(r).here = Head(q).here
    BY <1>4, <1>7
  <2> QED BY <1>7, <2>1, <2>2 DEF Shows, Excused, SameState
<1>12. KeysAt(p, q, dialog[t]) \subseteq accounted' \cup KeysAt(p, r, NoDialog)
  BY <1>1, <1>7 DEF KeysAt
<1>13. /\ view' = [view EXCEPT ![t] = view[t]] /\ unseen' = [unseen EXCEPT ![t] = unseen[t]]
       /\ ViewFits(p, view[t], db) /\ unseen[t] \in BOOLEAN /\ faults' \in Nat
       /\ p = "budgets" => /\ Once(q)
                           /\ \A u \in Tab \ {t} : page[u] = "budgets" =>
                                 CreateNames(q) \cap CreateNames(queue[u]) = {}
  BY <1>1, TabFacts
<1> HIDE DEF f
<1>14. BrowserStep(t, r, view[t], NoDialog, unseen[t])
  BY <1>1, <1>6, <1>7, <1>8, <1>10, <1>12, <1>13, <1>11 DEF BrowserStep
<1> QED BY <1>14, BrowserKeeps


(* An action joins the queue.                                                *)
LEMMA ActionStarts ==
  ASSUME ConsoleInv, NEW t \in Tab, NEW f, NEW n, NEW b, NEW y,
         f \notin {"refresh", "reveal", "none"},
         Start(t, Action(page[t], f, n, b, y)), UNCHANGED dialog,
         Filled(page[t], Action(page[t], f, n, b, y), db),
         page[t] = "budgets" /\ f = "create" => \A u \in Tab : n \notin CreateNames(queue[u]),
         page[t] = "apikeys" /\ f = "create" => MountedAt(queue[t]) = {} /\ dialog[t].form = "create"
  PROVE  ConsoleInv'
<1> DEFINE p == page[t]
           q == queue[t]
           a == Action(page[t], f, n, b, y)
           r == Append(q, a)
<1>1. /\ queue' = [queue EXCEPT ![t] = r] /\ dialog' = dialog
      /\ UNCHANGED <<db, page, view, faults, overlap, claimed, unseen, accounted>>
  BY DEF Start
<1>2. a = Action(page[t], f, n, b, y) /\ Filled(p, a, db)
  OBVIOUS
<1> HIDE DEF a
<1>3. /\ IsAction(a) /\ a.form = f /\ a.name = n
      /\ a.calls = Calls(p, a) /\ a.ok = TRUE /\ a.lost = FALSE /\ a.wrote = FALSE /\ a.mounted = TRUE
      /\ a.here = TRUE
  <2>1. a.form = f /\ a.name = n /\ a.calls = Calls(p, a)
    BY <1>2, ActionFields
  <2>2. IsAction(a) /\ a.ok = TRUE /\ a.lost = FALSE /\ a.wrote = FALSE /\ a.mounted = TRUE /\ a.here = TRUE
    BY <1>2 DEF Action, IsAction
  <2> QED BY <2>1, <2>2
<1>4. Filled(p, a, db)
  BY <1>2
<1>5. Queued(p, q, db) /\ p \in PageName /\ Running(t) = Going(q)
  BY TabFacts
<1>6. Item(p, a, db) /\ Fresh(p, a)
  <2>1. a.calls \in Left(p, a)
    BY <1>3, <1>4, <1>5, CallsStart
  <2> QED BY <1>3, <1>4, <2>1 DEF Item, Fresh
<1>7. /\ Queued(p, r, db)
      /\ CreateNames(r) = CreateNames(q) \cup (IF f = "create" THEN {n} ELSE {})
      /\ Once(q) /\ (f = "create" => n \notin CreateNames(q)) => Once(r)
      /\ MountedAt(r) \subseteq MountedAt(q) \cup {Len(q) + 1}
      /\ f # "create" => MountedAt(r) \subseteq MountedAt(q)
      /\ r # <<>> /\ Head(r) = (IF q = <<>> THEN a ELSE Head(q))
  BY <1>3, <1>5, <1>6, Joins
<1> HIDE DEF r
<1>8. /\ Going(r) => \/ Head(r).calls = Calls(p, Head(r))
                     \/ Running(t) /\ SameForm(Head(q), Head(r)) /\ Head(r).calls = Head(q).calls
      /\ Running(t) => Going(r) /\ Head(r).name = Head(q).name /\ Head(r).calls = Head(q).calls
  <2>1. CASE q = <<>>
    BY <1>3, <1>5, <1>7, <2>1 DEF Going
  <2>2. CASE q # <<>>
    BY <1>5, <1>7, <2>2 DEF Going, SameForm
  <2> QED BY <2>1, <2>2
<1>9. p = "apikeys" => \A i \in MountedAt(r) : dialog[t].form = "create" /\ \A j \in MountedAt(r) : j = i
  <2>1. CASE f = "create"
    BY <1>7, <2>1
  <2>2. CASE f # "create"
    BY <1>7, <2>2, TabFacts
  <2> QED BY <2>1, <2>2
<1>10. p = "budgets" => /\ Once(r)
                       /\ \A u \in Tab \ {t} : page[u] = "budgets" =>
                             CreateNames(r) \cap CreateNames(queue[u]) = {}
  <2>1. p = "budgets" => /\ Once(q)
                         /\ \A u \in Tab \ {t} : page[u] = "budgets" =>
                               CreateNames(q) \cap CreateNames(queue[u]) = {}
    BY TabFacts
  <2> QED BY <1>7, <2>1
<1>11. KeysAt(p, q, dialog[t]) \subseteq accounted' \cup KeysAt(p, r, dialog[t])
  BY <1>7 DEF KeysAt
<1>12. /\ view' = [view EXCEPT ![t] = view[t]] /\ unseen' = [unseen EXCEPT ![t] = unseen[t]]
       /\ dialog' = [dialog EXCEPT ![t] = dialog[t]]
       /\ ViewFits(p, view[t], db) /\ OpenFits(p, dialog[t], db) /\ unseen[t] \in BOOLEAN /\ faults' \in Nat
  BY <1>1, TabFacts
<1>13. (unseen[t] => Shows(r, view[t])) /\ Excused(r, overlap, faults)
  <2>1. (unseen[t] => Shows(q, view[t])) /\ Excused(q, overlap, faults)
    BY TabFacts
  <2> QED BY <1>3, <1>7, <2>1 DEF Shows, Excused
<1>14. BrowserStep(t, r, view[t], dialog[t], unseen[t])
  BY <1>1, <1>7, <1>8, <1>9, <1>10, <1>11, <1>12, <1>13 DEF BrowserStep
<1> QED BY <1>14, BrowserKeeps

LEMMA SubmitKeeps ==
  ASSUME ConsoleInv, NEW t \in Tab, Submit(t)  PROVE ConsoleInv'
<1> DEFINE p == page[t]
           x == dialog[t]
<1>1. PICK f \in Form(p, x, view[t]) :
         /\ x.form = "create" => FreshId(t, f.name)
         /\ Start(t, Action(p, x.form, f.name, f.body, x.row))
  BY DEF Submit
<1> DEFINE a == Action(p, x.form, f.name, f.body, x.row)
<1>2. a = Action(p, x.form, f.name, f.body, x.row)
  OBVIOUS
<1> HIDE DEF a
<1>3. /\ a.form = x.form /\ a.name = f.name /\ a.body = f.body /\ a.row = x.row
      /\ x.form \in {"create", "edit", "resolve"} /\ UNCHANGED dialog
  BY <1>2, ActionFields DEF Submit
<1>4. /\ ViewFits(p, view[t], db) /\ OpenFits(p, x, db) /\ p \in PageName
  BY TabFacts
<1>5. PICK c \in Database : view[t] = Render(p, c)
  BY <1>4 DEF ViewFits, Submit
<1>6. PICK e \in Database : Earlier(e, db) /\ DialogFits(p, x, e)
  <2>1. x # NoDialog /\ x.form # "reveal"
    BY <1>3, DialogFields DEF NoDialog
  <2> QED BY <1>4, <2>1 DEF OpenFits
<1>7. Filled(p, a, db)
  <2>1. p = "budgets" /\ x.form = "create" => db.budget[f.name] = Absent
    BY <1>1 DEF FreshId
  <2>2. Fills(a, x, f)
    BY <1>3 DEF Fills
  <2>3. f \in Form(p, x, Render(p, c))
    BY <1>5
  <2> HIDE DEF x, p
  <2> QED BY <1>3, <1>4, <1>6, <2>1, <2>2, <2>3, FormFills
<1>8. p = "budgets" /\ x.form = "create" => \A u \in Tab : f.name \notin CreateNames(queue[u])
  <2> SUFFICES ASSUME p = "budgets", x.form = "create", NEW u \in Tab, f.name \in CreateNames(queue[u])
               PROVE  FALSE
    OBVIOUS
  <2>1. PICK i \in DOMAIN queue[u] : queue[u][i].form = "create" /\ queue[u][i].name = f.name
    BY DEF CreateNames
  <2>2. queue[u][i] # Refreshing
    BY <2>1 DEF Refreshing
  <2> QED BY <1>1, <2>1, <2>2 DEF FreshId
<1>9. p = "apikeys" /\ x.form = "create" => MountedAt(queue[t]) = {}
  BY DEF Submit, Pending, MountedAt
<1> QED BY <1>1, <1>3, <1>7, <1>8, <1>9, ActionStarts DEF a

LEMMA ConfirmKeeps ==
  ASSUME ConsoleInv, NEW t \in Tab, Confirm(t)  PROVE ConsoleInv'
<1> DEFINE p == page[t]
           x == dialog[t]
           a == Action(p, x.form, x.name, Nil, x.row)
<1>1. a = Action(p, x.form, x.name, Nil, x.row) /\ Start(t, a)
  BY DEF Confirm
<1> HIDE DEF a
<1>2. /\ x.form \in {"delete", "disable"} /\ UNCHANGED dialog
      /\ a.form = x.form /\ a.name = x.name
  BY <1>1, ActionFields DEF Confirm
<1>3. OpenFits(p, x, db) /\ p \in PageName
  BY TabFacts
<1>4. PICK e \in Database : Earlier(e, db) /\ DialogFits(p, x, e)
  <2>1. x # NoDialog /\ x.form # "reveal"
    BY <1>2, DialogFields DEF NoDialog
  <2> QED BY <1>3, <2>1 DEF OpenFits
<1>5. Filled(p, a, db)
  <2> HIDE DEF x, p
  <2> QED BY <1>2, <1>3, <1>4, ConfirmFills
<1> QED BY <1>1, <1>2, <1>5, ActionStarts DEF a

LEMMA EnableKeeps ==
  ASSUME ConsoleInv, NEW t \in Tab, Enable(t)  PROVE ConsoleInv'
<1> DEFINE p == page[t]
<1>1. PICK n \in EnableOffer(p, view[t]) : Start(t, Action(p, "enable", n, Nil, Nil))
  BY DEF Enable
<1> DEFINE a == Action(p, "enable", n, Nil, Nil)
<1>2. a = Action(p, "enable", n, Nil, Nil)
  OBVIOUS
<1> HIDE DEF a
<1>3. a.form = "enable" /\ a.name = n /\ UNCHANGED dialog
  BY <1>2, ActionFields DEF Enable
<1>4. ViewFits(p, view[t], db) /\ p \in PageName
  BY TabFacts
<1>5. PICK c \in Database : view[t] = Render(p, c)
  BY <1>4 DEF ViewFits, Enable
<1>6. Filled(p, a, db)
  <2>1. n \in EnableOffer(p, Render(p, c))
    BY <1>5
  <2> HIDE DEF p
  <2> QED BY <1>3, <1>4, <2>1, EnableFills
<1> QED BY <1>1, <1>3, <1>6, ActionStarts DEF a

----------------------------------------------------------------------------
(* The answer of an action, a refresh, and the page visited again.           *)

LEMMA RenderedFits ==
  ASSUME NEW p, NEW d \in Database  PROVE ViewFits(p, Render(p, d), d)
  BY VersionsSame DEF ViewFits

LEMMA HeadLeaves ==
  ASSUME NEW p, NEW d, NEW q, Queued(p, q, d), q # <<>>, NEW r,
         r = Tail(q) \/ r = Append(Tail(q), Refreshing)
  PROVE  /\ Queued(p, r, d) /\ (Once(q) => Once(r))
         /\ CreateNames(q) = CreateNames(r) \cup (IF Head(q).form = "create" THEN {Head(q).name} ELSE {})
         /\ \A i \in MountedAt(r) : i + 1 \in MountedAt(q) /\ i + 1 # 1
         /\ \A i, j \in MountedAt(r) : i + 1 = j + 1 => i = j
         /\ Going(r) => Head(r).calls = Calls(p, Head(r))
         /\ r # <<>> => Head(r) = Refreshing \/ ~Head(r).wrote
<1> DEFINE s == Tail(q)
<1>1. /\ Queued(p, s, d) /\ (Once(q) => Once(s))
      /\ CreateNames(q) = CreateNames(s) \cup (IF Head(q).form = "create" THEN {Head(q).name} ELSE {})
      /\ \A i \in MountedAt(s) : i + 1 \in MountedAt(q) /\ i + 1 # 1
      /\ s # <<>> => Fresh(p, Head(s)) /\ Item(p, Head(s), d)
  BY Leaves
<1> HIDE DEF s
<1>2. \A i, j \in MountedAt(r) : i + 1 = j + 1 => i = j
  <2>1. PICK X : s \in Seq(X)
    BY <1>1 DEF Queued
  <2>2. r \in Seq(X \cup {Refreshing})
    BY <2>1 DEF s
  <2>3. MountedAt(r) \subseteq Nat
    BY <2>2 DEF MountedAt
  <2> QED BY <2>3
<1>3. CASE r = s
  BY <1>1, <1>2, <1>3 DEF Going, Fresh
<1>4. CASE r = Append(s, Refreshing)
  <2>1. PICK w : w = Refreshing
    OBVIOUS
  <2>2. Item(p, w, d) /\ Fresh(p, w) /\ w.form = "refresh" /\ r = Append(s, w)
    BY <1>4, <2>1 DEF Item, Fresh, Refreshing
  <2>3. /\ Queued(p, r, d) /\ CreateNames(r) = CreateNames(s) /\ (Once(s) => Once(r))
        /\ MountedAt(r) \subseteq MountedAt(s)
        /\ Head(r) = (IF s = <<>> THEN w ELSE Head(s))
    <3>1. Queued(p, s, d) /\ Item(p, w, d) /\ Fresh(p, w)
      BY <1>1, <2>2
    <3>2. LET u == Append(s, w) IN
          /\ Queued(p, u, d)
          /\ CreateNames(u) = CreateNames(s) \cup (IF w.form = "create" THEN {w.name} ELSE {})
          /\ Once(s) /\ (w.form = "create" => w.name \notin CreateNames(s)) => Once(u)
          /\ MountedAt(u) \subseteq MountedAt(s) \cup {Len(s) + 1}
          /\ w.form # "create" => MountedAt(u) \subseteq MountedAt(s)
          /\ u # <<>> /\ Head(u) = (IF s = <<>> THEN w ELSE Head(s))
      BY <3>1, Joins
    <3> QED BY <2>2, <3>2
  <2>4. Going(r) => Head(r).calls = Calls(p, Head(r))
    BY <1>1, <2>1, <2>3 DEF Going, Fresh
  <2>5. r # <<>> => Head(r) = Refreshing \/ ~Head(r).wrote
    BY <1>1, <2>1, <2>3 DEF Fresh
  <2> QED BY <1>1, <1>2, <2>3, <2>4, <2>5
<1> QED BY <1>3, <1>4 DEF s

LEMMA AnswerKeeps ==
  ASSUME ConsoleInv, NEW t \in Tab, Answer(t)  PROVE ConsoleInv'
<1> DEFINE p == page[t]
           q == queue[t]
           a == Head(q)
           v == Revalidated(t, a)
           x == DialogAfter(t, a)
           r == Followed(t, a)
           b == unseen[t] /\ (a.here => a.ok /\ v # Render(p, db))
<1>1. /\ q # <<>> /\ a # Refreshing /\ a.calls = <<>> /\ ~Going(q)
      /\ UNCHANGED <<db, page, faults, overlap, claimed>>
      /\ view' = [view EXCEPT ![t] = v] /\ dialog' = [dialog EXCEPT ![t] = x]
      /\ queue' = [queue EXCEPT ![t] = r]
      /\ accounted' = accounted \cup Unshown(t, a, a.ok /\ a.mounted)
  BY DEF Answer, Answered, Going
<1>2. unseen' = [unseen EXCEPT ![t] = b]
  <2>1. view'[t] = v
    BY <1>1 DEF ConsoleInv, TabsTyped
  <2> QED BY <2>1 DEF Answer
<1>3. /\ p \in PageName /\ db \in Database /\ Queued(p, q, db) /\ ViewFits(p, view[t], db)
      /\ OpenFits(p, dialog[t], db) /\ Running(t) = Going(q) /\ faults \in Nat
      /\ unseen[t] \in BOOLEAN /\ (unseen[t] => Shows(q, view[t]))
      /\ p = "budgets" => /\ Once(q)
                          /\ \A u \in Tab \ {t} : page[u] = "budgets" =>
                                CreateNames(q) \cap CreateNames(queue[u]) = {}
      /\ p = "apikeys" => \A i \in MountedAt(q) :
            dialog[t].form = "create" /\ \A j \in MountedAt(q) : j = i
  BY TabFacts
<1>4. ViewFits(p, v, db)
  BY <1>3, RenderedFits DEF Revalidated
<1>5. r = Tail(q) \/ r = Append(Tail(q), Refreshing)
  BY DEF Followed
<1>6. Item(p, a, db) /\ a = q[1] /\ 1 \in DOMAIN q
  BY <1>1, <1>3, Leaves
<1>7. /\ IsAction(a) /\ {a.ok, a.lost, a.wrote, a.mounted, a.here} \subseteq BOOLEAN
      /\ a.form \notin {"reveal", "none"} /\ (a.mounted => a.here)
  BY <1>1, <1>6 DEF Item
<1>8. b \in BOOLEAN /\ (b => Shows(r, v))
  <2>1. a.here /\ a.ok => v = Render(p, db)
    BY DEF Revalidated
  <2>2. ~a.here => v = view[t]
    BY DEF Revalidated
  <2>3. b => ~a.here
    BY <1>7, <2>1
  <2>4. b => v = Nil
    BY <1>3, <2>2, <2>3 DEF Shows
  <2>5. b \in BOOLEAN
    BY <1>3
  <2> QED BY <2>4, <2>5 DEF Shows
<1>9. /\ x = dialog[t] \/ x = NoDialog \/ x = Dialog("reveal", a.name, Nil)
      /\ x # dialog[t] => a.ok /\ HandlerRuns(t, a) /\ dialog[t].form = a.form
      /\ a.ok /\ a.here /\ a.mounted /\ dialog[t].form = a.form /\ p = "apikeys" /\ a.form = "create" =>
            x = Dialog("reveal", a.name, Nil)
  BY DEF DialogAfter, HandlerRuns
<1>10. OpenFits(p, x, db)
  BY <1>3, <1>9, DialogFields DEF OpenFits
<1> HIDE DEF r, x, v, b
<1>11. /\ Queued(p, r, db) /\ (Once(q) => Once(r))
       /\ CreateNames(q) = CreateNames(r) \cup (IF a.form = "create" THEN {a.name} ELSE {})
       /\ \A i \in MountedAt(r) : i + 1 \in MountedAt(q) /\ i + 1 # 1
       /\ \A i, j \in MountedAt(r) : i + 1 = j + 1 => i = j
       /\ Going(r) => Head(r).calls = Calls(p, Head(r))
       /\ r # <<>> => Head(r) = Refreshing \/ ~Head(r).wrote
  BY <1>1, <1>3, <1>5, HeadLeaves
<1>12. p = "apikeys" => \A i \in MountedAt(r) : x.form = "create" /\ \A j \in MountedAt(r) : j = i
  <2> SUFFICES ASSUME p = "apikeys", NEW i \in MountedAt(r)
               PROVE  x.form = "create" /\ \A j \in MountedAt(r) : j = i
    OBVIOUS
  <2>1. dialog[t].form = "create" /\ i + 1 \in MountedAt(q) /\ i + 1 # 1 /\ \A j \in MountedAt(q) : j = i + 1
    BY <1>3, <1>11
  <2>2. \A j \in MountedAt(r) : j = i
    BY <1>11, <2>1
  <2>3. x = dialog[t]
    <3>1. 1 \notin MountedAt(q)
      BY <2>1
    <3>2. ~(a.form = "create" /\ a.mounted)
      BY <1>6, <3>1 DEF MountedAt
    <3>3. a.form = "create" => ~HandlerRuns(t, a)
      BY <3>2 DEF HandlerRuns
    <3> QED BY <1>9, <2>1, <3>3
  <2> QED BY <2>1, <2>2, <2>3
<1>13. accounted \subseteq accounted' /\ KeysAt(p, q, dialog[t]) \subseteq accounted' \cup KeysAt(p, r, x)
  <2>1. dialog[t].form = "reveal" => x = dialog[t]
    BY <1>7, <1>9
  <2>2. p = "apikeys" /\ a.form = "create" => a.name \in accounted' \/ (x.form = "reveal" /\ x.name = a.name)
    <3> SUFFICES ASSUME p = "apikeys", a.form = "create", a.ok, a.mounted
                 PROVE  x.form = "reveal" /\ x.name = a.name
      BY <1>1 DEF Unshown
    <3>1. 1 \in MountedAt(q)
      BY <1>6 DEF MountedAt
    <3>2. dialog[t].form = "create"
      BY <1>3, <3>1
    <3> QED BY <1>7, <1>9, <3>2, DialogFields
  <2> QED BY <1>1, <1>11, <2>1, <2>2 DEF KeysAt
<1>14. p = "budgets" => /\ Once(r)
                        /\ \A u \in Tab \ {t} : page[u] = "budgets" =>
                              CreateNames(r) \cap CreateNames(queue[u]) = {}
  BY <1>3, <1>11
<1>15. Excused(r, overlap, faults')
  BY <1>11 DEF Excused
<1>16. BrowserStep(t, r, v, x, b)
  BY <1>1, <1>2, <1>3, <1>8, <1>4, <1>10, <1>11, <1>12, <1>13, <1>14, <1>15 DEF BrowserStep
<1> QED BY <1>16, BrowserKeeps

LEMMA RefreshKeeps ==
  ASSUME ConsoleInv, NEW t \in Tab, Refresh(t)  PROVE ConsoleInv'
<1> DEFINE p == page[t]
           q == queue[t]
           r == Tail(q)
<1>1. /\ q # <<>> /\ Head(q) = Refreshing /\ ~Going(q)
      /\ UNCHANGED <<db, page, dialog, faults, overlap, claimed, accounted>>
      /\ view' = [view EXCEPT ![t] = Render(p, db)] /\ queue' = [queue EXCEPT ![t] = r]
      /\ unseen' = [unseen EXCEPT ![t] = FALSE]
  BY DEF Refresh, Going
<1>2. /\ p \in PageName /\ db \in Database /\ Queued(p, q, db) /\ OpenFits(p, dialog[t], db)
      /\ Running(t) = Going(q) /\ faults \in Nat /\ dialog = [dialog EXCEPT ![t] = dialog[t]]
      /\ p = "budgets" => /\ Once(q)
                          /\ \A u \in Tab \ {t} : page[u] = "budgets" =>
                                CreateNames(q) \cap CreateNames(queue[u]) = {}
      /\ p = "apikeys" => \A i \in MountedAt(q) :
            dialog[t].form = "create" /\ \A j \in MountedAt(q) : j = i
  BY TabFacts
<1>3. Head(q).form = "refresh" /\ r = Tail(q)
  BY <1>1 DEF Refreshing
<1> HIDE DEF r
<1>4. /\ Queued(p, r, db) /\ (Once(q) => Once(r)) /\ CreateNames(q) = CreateNames(r)
      /\ \A i \in MountedAt(r) : i + 1 \in MountedAt(q) /\ i + 1 # 1
      /\ \A i, j \in MountedAt(r) : i + 1 = j + 1 => i = j
      /\ Going(r) => Head(r).calls = Calls(p, Head(r))
      /\ r # <<>> => Head(r) = Refreshing \/ ~Head(r).wrote
  <2>1. r = Tail(q) \/ r = Append(Tail(q), Refreshing)
    BY <1>3
  <2>2. CreateNames(q) = CreateNames(r) \cup (IF Head(q).form = "create" THEN {Head(q).name} ELSE {})
    BY <1>1, <1>2, <2>1, HeadLeaves
  <2>3. CreateNames(q) = CreateNames(r)
    BY <1>3, <2>2
  <2> QED BY <1>1, <1>2, <2>1, <2>3, HeadLeaves
<1>5. p = "apikeys" => \A i \in MountedAt(r) : dialog[t].form = "create" /\ \A j \in MountedAt(r) : j = i
  BY <1>2, <1>4
<1>6. KeysAt(p, q, dialog[t]) \subseteq accounted' \cup KeysAt(p, r, dialog[t])
  BY <1>4 DEF KeysAt
<1>7. ViewFits(p, Render(p, db), db)
  BY <1>2, RenderedFits
<1>8. Excused(r, overlap, faults')
  BY <1>4 DEF Excused
<1>9. BrowserStep(t, r, Render(p, db), dialog[t], FALSE)
  BY <1>1, <1>2, <1>4, <1>5, <1>6, <1>7, <1>8 DEF BrowserStep
<1> QED BY <1>9, BrowserKeeps

LEMMA RevisitKeeps ==
  ASSUME ConsoleInv, NEW t \in Tab, Revisit(t)  PROVE ConsoleInv'
<1> DEFINE p == page[t]
           q == queue[t]
           r == Orphaned(q)
<1>1. /\ UNCHANGED <<db, page, faults, overlap, claimed>> /\ queue' = [queue EXCEPT ![t] = r]
      /\ view' = [view EXCEPT ![t] = Render(p, db)] /\ dialog' = [dialog EXCEPT ![t] = NoDialog]
      /\ unseen' = [unseen EXCEPT ![t] = FALSE] /\ accounted' = accounted \cup Revealed(t)
  BY DEF Revisit
<1>2. /\ p \in PageName /\ db \in Database /\ Queued(p, q, db) /\ Excused(q, overlap, faults)
      /\ Running(t) = Going(q) /\ faults \in Nat
      /\ p = "budgets" => /\ Once(q)
                          /\ \A u \in Tab \ {t} : page[u] = "budgets" =>
                                CreateNames(q) \cap CreateNames(queue[u]) = {}
  BY TabFacts
<1>3. /\ Queued(p, r, db) /\ CreateNames(r) = CreateNames(q) /\ (Once(q) => Once(r))
      /\ MountedAt(r) = {}
      /\ q # <<>> <=> r # <<>>
      /\ q # <<>> => /\ Head(q) = Refreshing <=> Head(r) = Refreshing
                     /\ Head(q) # Refreshing => SameState(Head(q), Head(r))
  BY <1>2, OrphanedQueue
<1> HIDE DEF r
<1>4. KeysAt(p, q, dialog[t]) \subseteq accounted' \cup KeysAt(p, r, NoDialog)
  BY <1>1, <1>3 DEF KeysAt, Revealed
<1>5. ViewFits(p, Render(p, db), db) /\ OpenFits(p, NoDialog, db)
  BY <1>2, RenderedFits DEF OpenFits
<1>6. /\ Going(r) => Running(t) /\ SameForm(Head(q), Head(r)) /\ Head(r).calls = Head(q).calls
      /\ Running(t) => Going(r) /\ Head(r).name = Head(q).name /\ Head(r).calls = Head(q).calls
  BY <1>2, <1>3 DEF Going, SameState, SameForm
<1>7. Excused(r, overlap, faults')
  BY <1>1, <1>2, <1>3 DEF Excused, SameState
<1>8. BrowserStep(t, r, Render(p, db), NoDialog, FALSE)
  BY <1>1, <1>2, <1>3, <1>4, <1>5, <1>6, <1>7 DEF BrowserStep
<1> QED BY <1>8, BrowserKeeps

(* The notice of a page that could not be read takes the page's place.       *)
LEMMA NoticeKeeps ==
  ASSUME ConsoleInv, NEW t \in Tab, NEW s, s = Tail(queue[t]) \/ s = Append(Tail(queue[t]), Refreshing),
         queue[t] # <<>>, ~Going(queue[t]), Unreadable(t, s),
         UNCHANGED <<db, page, overlap, claimed, unseen>>,
         accounted \subseteq accounted', Revealed(t) \subseteq accounted',
         page[t] = "apikeys" /\ Head(queue[t]).form = "create" => Head(queue[t]).name \in accounted'
  PROVE  ConsoleInv'
<1> DEFINE p == page[t]
           q == queue[t]
           r == Orphaned(s)
<1>1. /\ queue' = [queue EXCEPT ![t] = r] /\ view' = [view EXCEPT ![t] = Nil]
      /\ dialog' = [dialog EXCEPT ![t] = NoDialog] /\ faults' = faults + 1
  BY DEF Unreadable
<1>2. /\ p \in PageName /\ db \in Database /\ Queued(p, q, db)
      /\ Running(t) = Going(q) /\ faults \in Nat /\ unseen[t] \in BOOLEAN
      /\ unseen = [unseen EXCEPT ![t] = unseen[t]]
      /\ p = "budgets" => /\ Once(q)
                          /\ \A u \in Tab \ {t} : page[u] = "budgets" =>
                                CreateNames(q) \cap CreateNames(queue[u]) = {}
  BY TabFacts
<1>3. /\ Queued(p, s, db) /\ (Once(q) => Once(s))
      /\ CreateNames(q) = CreateNames(s) \cup (IF Head(q).form = "create" THEN {Head(q).name} ELSE {})
      /\ Going(s) => Head(s).calls = Calls(p, Head(s))
  BY <1>2, HeadLeaves
<1>4. /\ Queued(p, r, db) /\ CreateNames(r) = CreateNames(s) /\ (Once(s) => Once(r))
      /\ MountedAt(r) = {}
      /\ s # <<>> <=> r # <<>>
      /\ s # <<>> => /\ Head(s) = Refreshing <=> Head(r) = Refreshing
                     /\ Head(s) # Refreshing => SameState(Head(s), Head(r))
  BY <1>3, OrphanedQueue
<1> HIDE DEF r
<1>5. Going(r) => Head(r).calls = Calls(p, Head(r))
  <2> SUFFICES ASSUME Going(r)  PROVE Head(r).calls = Calls(p, Head(r))
    OBVIOUS
  <2>1. SameState(Head(s), Head(r)) /\ Going(s)
    BY <1>4 DEF Going, SameState
  <2>2. Calls(p, Head(r)) = Calls(p, Head(s))
    BY <2>1, SameAction DEF SameState
  <2> QED BY <1>3, <2>1, <2>2 DEF SameState
<1>6. KeysAt(p, q, dialog[t]) \subseteq accounted' \cup KeysAt(p, r, NoDialog)
  BY <1>1, <1>3, <1>4 DEF KeysAt, Revealed
<1>7. ViewFits(p, Nil, db) /\ OpenFits(p, NoDialog, db)
  BY DEF ViewFits, OpenFits
<1>8. faults' \in Nat /\ faults' # 0
  BY <1>1, <1>2
<1>9. Excused(r, overlap, faults') /\ Shows(r, Nil)
  BY <1>8 DEF Excused, Shows
<1>10. p = "budgets" => /\ Once(r)
                        /\ \A u \in Tab \ {t} : page[u] = "budgets" =>
                              CreateNames(r) \cap CreateNames(queue[u]) = {}
  BY <1>2, <1>3, <1>4
<1>11. BrowserStep(t, r, Nil, NoDialog, unseen[t])
  BY <1>1, <1>2, <1>4, <1>5, <1>6, <1>7, <1>8, <1>9, <1>10 DEF BrowserStep
<1> QED BY <1>11, BrowserKeeps

LEMMA AnswerUnreadKeeps ==
  ASSUME ConsoleInv, NEW t \in Tab, AnswerUnread(t)  PROVE ConsoleInv'
<1> DEFINE a == Head(queue[t])
           b == [a EXCEPT !.mounted = FALSE]
           s == Followed(t, b)
<1>1. /\ queue[t] # <<>> /\ a # Refreshing /\ ~Going(queue[t]) /\ Unreadable(t, s)
      /\ UNCHANGED <<db, page, overlap, claimed, unseen>>
      /\ accounted' = accounted \cup Revealed(t) \cup Unshown(t, b, FALSE)
  BY DEF AnswerUnread, Answered, Going
<1>2. Item(page[t], a, db)
  BY <1>1, TabFacts, Leaves
<1>3. b.form = a.form /\ b.name = a.name
  BY <1>1, <1>2, UnmountedFields DEF Item, SameForm
<1>4. s = Tail(queue[t]) \/ s = Append(Tail(queue[t]), Refreshing)
  BY DEF Followed
<1> HIDE DEF b, s
<1>5. /\ accounted \subseteq accounted' /\ Revealed(t) \subseteq accounted'
      /\ page[t] = "apikeys" /\ a.form = "create" => a.name \in accounted'
  BY <1>1, <1>3 DEF Unshown
<1> QED BY <1>1, <1>4, <1>5, NoticeKeeps

LEMMA RefreshFailsKeeps ==
  ASSUME ConsoleInv, NEW t \in Tab, RefreshFails(t)  PROVE ConsoleInv'
<1>1. /\ queue[t] # <<>> /\ Head(queue[t]).form = "refresh" /\ ~Going(queue[t])
      /\ Unreadable(t, Tail(queue[t])) /\ UNCHANGED <<db, page, overlap, claimed, unseen>>
      /\ accounted' = accounted \cup Revealed(t)
  BY DEF RefreshFails, Going, Refreshing
<1> QED BY <1>1, NoticeKeeps

----------------------------------------------------------------------------
(* The servers' steps.  The first entry of a queue changes.                  *)

HeadFits(p, q, b, e) ==
    /\ Item(p, b, e) /\ b.form = Head(q).form /\ b.name = Head(q).name /\ (b.mounted => Head(q).mounted)
    /\ \A i \in DOMAIN q : i > 1 => Item(p, q[i], e)

HeadReplaced(q, b, r) == r = [q EXCEPT ![1] = b]

LEMMA HeadChanges ==
  ASSUME NEW p, NEW d, NEW e, NEW q, Queued(p, q, d), q # <<>>, NEW b, HeadFits(p, q, b, e),
         NEW r, HeadReplaced(q, b, r)
  PROVE  /\ Queued(p, r, e) /\ CreateNames(r) = CreateNames(q) /\ (Once(q) => Once(r))
         /\ MountedAt(r) \subseteq MountedAt(q) /\ r # <<>> /\ Head(r) = b
<1>1. PICK X : q \in Seq(X)
  BY DEF Queued
<1>2. DOMAIN q = 1..Len(q) /\ 1 \in DOMAIN q /\ Head(q) = q[1] /\ Len(q) \in Nat
  BY <1>1
<1>3. /\ r = [i \in DOMAIN q |-> r[i]] /\ r[1] = b
      /\ \A i \in DOMAIN q : i = 1 \/ (i > 1 /\ r[i] = q[i])
  <2>1. DOMAIN r = DOMAIN q /\ r = [i \in DOMAIN r |-> r[i]]
    BY DEF HeadReplaced
  <2>2. r[1] = b /\ \A i \in DOMAIN q : i # 1 => r[i] = q[i]
    BY <1>2 DEF HeadReplaced
  <2>3. \A i \in DOMAIN q : i = 1 \/ i > 1
    BY <1>2
  <2> QED BY <2>1, <2>2, <2>3
<1>4. Changed(p, q, r, e)
  <2> SUFFICES ASSUME NEW i \in DOMAIN q
               PROVE  /\ Item(p, r[i], e) /\ (i > 1 => Fresh(p, r[i])) /\ r[i].form = q[i].form
                      /\ q[i].form = "create" => r[i].name = q[i].name /\ (r[i].mounted => q[i].mounted)
    BY <1>3 DEF Changed
  <2>1. CASE i = 1
    BY <1>2, <1>3, <2>1 DEF HeadFits
  <2>2. CASE i # 1
    BY <1>2, <1>3, <2>2 DEF Queued, HeadFits
  <2> QED BY <2>1, <2>2
<1>5. Queued(p, r, e) /\ (Once(q) => Once(r)) /\ MountedAt(r) \subseteq MountedAt(q) /\ r # <<>>
  BY <1>4, ChangesKeep
<1>6. CreateNames(r) = CreateNames(q) /\ Head(r) = r[1]
  BY <1>4, ChangesNames
<1> QED BY <1>3, <1>5, <1>6

(* What is known of the action that runs.                                    *)
LEMMA RunningFacts ==
  ASSUME ConsoleInv, NEW t \in Tab, Running(t), NEW a, a = Head(queue[t])
  PROVE  /\ queue[t] # <<>> /\ a = queue[t][1] /\ 1 \in DOMAIN queue[t]
         /\ IsAction(a) /\ a.form \notin {"refresh", "reveal", "none"}
         /\ {a.ok, a.lost, a.wrote, a.mounted, a.here} \subseteq BOOLEAN /\ (a.mounted => a.here)
         /\ a.calls \in Left(page[t], a) /\ a.calls # <<>> /\ Filled(page[t], a, db)
         /\ a.ok /\ ~a.lost /\ (a.wrote => Late(page[t], a, Head(a.calls)))
<1>1. Queued(page[t], queue[t], db)
  BY TabFacts
<1>2. queue[t] # <<>> /\ a # Refreshing /\ a.calls # <<>>
  BY DEF Running
<1>3. Item(page[t], a, db) /\ a = queue[t][1] /\ 1 \in DOMAIN queue[t]
  BY <1>1, <1>2, Leaves
<1> QED BY <1>2, <1>3 DEF Item

LEMMA NothingLeft ==
  ASSUME NEW p, NEW a  PROVE <<>> \in Left(p, a)
<1>1. CASE Keyed(p, a)
  BY <1>1 DEF Left
<1>2. CASE ~Keyed(p, a) /\ Long(p, a)
  <2>1. <<>> \in LongLeft(p, a)
    BY <1>2 DEF Long, LongLeft
  <2> QED BY <1>2, <2>1 DEF Left
<1>3. CASE ~Keyed(p, a) /\ ~Long(p, a)
  BY <1>3 DEF Left
<1> QED BY <1>1, <1>2, <1>3

LEMMA FaultBeforeKeeps ==
  ASSUME ConsoleInv, NEW t \in Tab, FaultBefore(t)  PROVE ConsoleInv'
<1> DEFINE p == page[t]
           q == queue[t]
           a == Head(q)
           b == Failed(a)
           r == [q EXCEPT ![1] = b]
<1>1. /\ Running(t) /\ queue' = [queue EXCEPT ![t] = r] /\ faults' = faults + 1
      /\ UNCHANGED <<db, page, view, dialog, overlap, claimed, unseen, accounted>>
  BY DEF FaultBefore
<1>2. /\ q # <<>> /\ IsAction(a) /\ a.form \notin {"refresh", "reveal", "none"}
      /\ {a.ok, a.lost, a.wrote, a.mounted, a.here} \subseteq BOOLEAN /\ (a.mounted => a.here)
      /\ a.wrote => Late(p, a, Head(a.calls))
  BY <1>1, RunningFacts
<1>3. /\ IsAction(b) /\ SameForm(a, b) /\ b.calls = <<>> /\ b.ok = FALSE /\ b.lost = a.lost
      /\ b.wrote = a.wrote /\ b.mounted = a.mounted /\ b.here = a.here
  BY <1>2, FailedFields
<1>4. HeadReplaced(q, b, r)
  BY DEF HeadReplaced
<1> HIDE DEF b, r
<1>5. /\ p \in PageName /\ Queued(p, q, db) /\ faults \in Nat
      /\ view' = [view EXCEPT ![t] = view[t]] /\ unseen' = [unseen EXCEPT ![t] = unseen[t]]
      /\ dialog' = [dialog EXCEPT ![t] = dialog[t]] /\ unseen[t] \in BOOLEAN
      /\ ViewFits(p, view[t], db) /\ OpenFits(p, dialog[t], db) /\ (unseen[t] => Shows(q, view[t]))
      /\ p = "budgets" => /\ Once(q)
                          /\ \A u \in Tab \ {t} : page[u] = "budgets" =>
                                CreateNames(q) \cap CreateNames(queue[u]) = {}
      /\ p = "apikeys" => \A i \in MountedAt(q) :
            dialog[t].form = "create" /\ \A j \in MountedAt(q) : j = i
  BY <1>1, TabFacts
<1>6. Item(p, b, db)
  <2>1. <<>> \in Left(p, b)
    BY NothingLeft
  <2>2. CommitsEarly(p, a) => CommitsEarly(p, b)
    BY <1>3, SameAction
  <2>3. b.wrote => CommitsEarly(p, b)
    BY <1>2, <1>3, <2>2 DEF Late
  <2>4. {b.ok, b.lost, b.wrote, b.mounted, b.here} \subseteq BOOLEAN /\ (b.mounted => b.here)
    BY <1>2, <1>3
  <2>5. b.form \notin {"refresh", "reveal", "none"}
    BY <1>2, <1>3 DEF SameForm
  <2> QED BY <1>3, <2>1, <2>3, <2>4, <2>5 DEF Item
<1>7. \A i \in DOMAIN q : i > 1 => Item(p, q[i], db)
  <2> SUFFICES ASSUME NEW i \in DOMAIN q  PROVE Item(p, q[i], db)
    OBVIOUS
  <2>1. i \in 1..Len(q)
    BY <1>5 DEF Queued
  <2> QED BY <1>5, <2>1 DEF Queued
<1>8. /\ Queued(p, r, db) /\ CreateNames(r) = CreateNames(q) /\ (Once(q) => Once(r))
      /\ MountedAt(r) \subseteq MountedAt(q) /\ r # <<>> /\ Head(r) = b
  <2>1. HeadFits(p, q, b, db)
    BY <1>3, <1>6, <1>7 DEF SameForm, HeadFits
  <2> QED BY <1>2, <1>4, <1>5, <2>1, HeadChanges
<1>9. ~Going(r)
  BY <1>3, <1>8 DEF Going
<1>10. faults' \in Nat /\ faults' # 0
  BY <1>1, <1>5
<1>11. KeysAt(p, q, dialog[t]) \subseteq accounted' \cup KeysAt(p, r, dialog[t])
  BY <1>8 DEF KeysAt
<1>12. (unseen[t] => Shows(r, view[t])) /\ Excused(r, overlap, faults')
  <2>1. b # Refreshing
    <3>1. Refreshing.form = "refresh" /\ b.form # "refresh"
      BY <1>2, <1>3 DEF Refreshing, SameForm
    <3> QED BY <3>1
  <2>2. unseen[t] => Shows(r, view[t])
    BY <1>3, <1>5, <1>8, <2>1 DEF Shows
  <2> QED BY <1>10, <2>2 DEF Excused
<1>13. BrowserStep(t, r, view[t], dialog[t], unseen[t])
  BY <1>1, <1>5, <1>8, <1>9, <1>10, <1>11, <1>12 DEF BrowserStep
<1> QED BY <1>13, BrowserKeeps

LEMMA EarlierTrans ==
  ASSUME NEW c \in Database, NEW d \in Database, NEW e \in Database, Earlier(c, d), Earlier(d, e)
  PROVE  Earlier(c, e)
<1> SUFFICES ASSUME NEW u \in Unit
             PROVE  /\ c.budget[u] # Absent => RowBehind(c.budget[u], e.budget[u])
                    /\ c.reservation[u] # Absent => RowBehind(c.reservation[u], e.reservation[u])
  BY DEF Earlier
<1>1. /\ \A x \in {c, d, e} : x.budget[u] # Absent => x.budget[u].version \in Nat
      /\ \A x \in {c, d, e} : x.reservation[u] # Absent => x.reservation[u].version \in Nat
  BY DEF Database, Table, BudgetRow, ReservationRow
<1>2. \A k, m, n \in Nat : k <= m /\ m <= n => k <= n /\ (k = n => k = m /\ m = n)
  OBVIOUS
<1>3. c.budget[u] # Absent => RowBehind(c.budget[u], e.budget[u])
  BY <1>1, <1>2 DEF Earlier, RowBehind
<1>4. c.reservation[u] # Absent => RowBehind(c.reservation[u], e.reservation[u])
  BY <1>1, <1>2 DEF Earlier, RowBehind
<1> QED BY <1>3, <1>4

(* What was filled stays so, whatever is written meanwhile.                  *)
LEMMA FilledStays ==
  ASSUME NEW p \in PageName, NEW d \in Database, NEW e \in Database, Earlier(d, e), NEW a, Filled(p, a, d),
         p = "budgets" /\ a.form = "create" => e.budget[a.name] = Absent
  PROVE  Filled(p, a, e)
<1>1. CASE p \notin {"budgets", "reservations"}
  BY <1>1 DEF Filled, PageName
<1>2. ASSUME NEW x, NEW y, NEW z, x.version \in Nat, y # Absent => y.version \in Nat,
             z # Absent => z.version \in Nat, RowBehind(x, y), RowBehind(y, z)
      PROVE  RowBehind(x, z)
  <2>1. \A k, m, n \in Nat : k <= m /\ m <= n => k <= n /\ (k = n => k = m /\ m = n)
    OBVIOUS
  <2> QED BY <1>2, <2>1 DEF RowBehind
<1>3. CASE p = "budgets"
  <2>1. BudgetFilled(a, d) /\ a.name \in Unit
    BY <1>3 DEF Filled, BudgetFilled
  <2>2. CASE a.form = "create"
    BY <1>3, <2>1, <2>2 DEF Filled, BudgetFilled
  <2>3. CASE a.form # "create"
    <3>1. a.row \in BudgetRow /\ RowBehind(a.row, d.budget[a.name])
      BY <2>1, <2>3 DEF BudgetFilled
    <3>2. RowBehind(d.budget[a.name], e.budget[a.name])
      BY <2>1, <3>1 DEF Earlier, RowBehind
    <3>3. /\ a.row.version \in Nat /\ (d.budget[a.name] # Absent => d.budget[a.name].version \in Nat)
          /\ e.budget[a.name] # Absent => e.budget[a.name].version \in Nat
      BY <2>1, <3>1 DEF Database, Table, BudgetRow
    <3>4. RowBehind(a.row, e.budget[a.name])
      BY <1>2, <3>1, <3>2, <3>3
    <3> QED BY <1>3, <2>1, <2>3, <3>4 DEF Filled, BudgetFilled
  <2> QED BY <2>2, <2>3
<1>4. CASE p = "reservations"
  <2>1. ReservationFilled(a, d) /\ a.name \in Unit
    BY <1>4 DEF Filled, ReservationFilled
  <2>2. a.row \in ReservationRow /\ RowBehind(a.row, d.reservation[a.name])
    BY <2>1 DEF ReservationFilled
  <2>3. RowBehind(d.reservation[a.name], e.reservation[a.name])
    BY <2>1, <2>2 DEF Earlier, RowBehind
  <2>4. /\ a.row.version \in Nat /\ (d.reservation[a.name] # Absent => d.reservation[a.name].version \in Nat)
        /\ e.reservation[a.name] # Absent => e.reservation[a.name].version \in Nat
    BY <2>1, <2>2 DEF Database, Table, ReservationRow
  <2>5. RowBehind(a.row, e.reservation[a.name])
    BY <1>2, <2>2, <2>3, <2>4
  <2> QED BY <1>4, <2>1, <2>5 DEF Filled, ReservationFilled
<1> QED BY <1>1, <1>3, <1>4

(* A statement runs, and its answer arrives or is lost.                      *)
Ran(t, b) ==
    LET a == Head(queue[t])
        r == Execute(page[t], Head(a.calls), a, db) IN
    /\ Running(t) /\ Stored1(t, r) /\ queue' = [queue EXCEPT ![t][1] = b]
    /\ UNCHANGED <<page, view, dialog, accounted>>
    /\ IsAction(b) /\ SameForm(a, b) /\ b.mounted = a.mounted /\ b.here = a.here
    /\ b.wrote = (a.wrote \/ r.db # db \/ r.beside)
    /\ \/ /\ faults' = faults /\ b.calls = (IF r.ok THEN Tail(a.calls) ELSE <<>>)
          /\ b.ok = r.ok /\ b.lost = a.lost
       \/ faults' = faults + 1 /\ b.calls = <<>> /\ b.ok = FALSE /\ b.lost = TRUE

LEMMA StatementRan ==
  ASSUME ConsoleInv, NEW t \in Tab, Statement(t)  PROVE \E b : Ran(t, b)
<1> DEFINE a == Head(queue[t])
           r == Execute(page[t], Head(a.calls), a, db)
           b == After(a, r)
<1>1. Running(t) /\ Stored1(t, r) /\ queue' = [queue EXCEPT ![t][1] = b]
      /\ UNCHANGED <<page, view, dialog, accounted, faults>>
  BY DEF Statement
<1>2. IsAction(a)
  BY <1>1, RunningFacts
<1>3. /\ IsAction(b) /\ SameForm(a, b)
      /\ b.calls = (IF r.ok THEN Tail(a.calls) ELSE <<>>) /\ b.ok = r.ok /\ b.lost = a.lost
      /\ b.wrote = (a.wrote \/ r.db # db \/ r.beside) /\ b.mounted = a.mounted /\ b.here = a.here
  BY <1>2, AfterFields
<1>4. Ran(t, b)
  BY <1>1, <1>3 DEF Ran
<1> QED BY <1>4

LEMMA FaultAfterRan ==
  ASSUME ConsoleInv, NEW t \in Tab, FaultAfter(t)  PROVE \E b : Ran(t, b)
<1> DEFINE a == Head(queue[t])
           r == Execute(page[t], Head(a.calls), a, db)
           c == After(a, r)
           b == [Failed(c) EXCEPT !.lost = TRUE]
<1>1. Running(t) /\ Stored1(t, r) /\ queue' = [queue EXCEPT ![t][1] = b]
      /\ UNCHANGED <<page, view, dialog, accounted>> /\ faults' = faults + 1
  BY DEF FaultAfter
<1>2. IsAction(a)
  BY <1>1, RunningFacts
<1>3. /\ IsAction(c) /\ SameForm(a, c) /\ c.wrote = (a.wrote \/ r.db # db \/ r.beside)
      /\ c.mounted = a.mounted /\ c.here = a.here
  BY <1>2, AfterFields
<1>4. /\ IsAction(b) /\ SameForm(c, b) /\ b.calls = <<>> /\ b.ok = FALSE /\ b.lost = TRUE
      /\ b.wrote = c.wrote /\ b.mounted = c.mounted /\ b.here = c.here
  BY <1>3, LostFields
<1>5. SameForm(a, b)
  BY <1>3, <1>4 DEF SameForm
<1>6. Ran(t, b)
  BY <1>1, <1>3, <1>4, <1>5 DEF Ran
<1> QED BY <1>6

(* What such a step is known to do, for the parts of the invariant below.    *)
Effect(t, a, r, b) ==
    /\ a = Head(queue[t]) /\ r = Execute(page[t], Head(a.calls), a, db)
    /\ StepSound(page[t], Head(a.calls), a, db, r) /\ db' = r.db /\ r.db \in Database
    /\ IsAction(b) /\ SameForm(a, b) /\ b.mounted = a.mounted /\ b.here = a.here
    /\ {b.ok, b.lost, b.wrote, b.mounted, b.here} \subseteq BOOLEAN /\ (b.mounted => b.here)
    /\ b.wrote => a.wrote \/ r.db # db \/ r.beside
    /\ b.calls = <<>> \/ (r.ok /\ ~b.lost /\ b.calls = Tail(a.calls))
    /\ ~b.lost => b.ok = r.ok
    /\ faults' = 0 => faults = 0 /\ (r.ok => b.calls = Tail(a.calls))
    /\ faults' \in Nat

LEMMA RanEffect ==
  ASSUME ConsoleInv, NEW t \in Tab, NEW b, Ran(t, b)
  PROVE  \E a, r : Effect(t, a, r, b)
<1>1. PICK a, r : a = Head(queue[t]) /\ r = Execute(page[t], Head(a.calls), a, db)
  OBVIOUS
<1>2. /\ Running(t) /\ Stored1(t, r) /\ IsAction(b) /\ SameForm(a, b) /\ b.mounted = a.mounted
      /\ b.here = a.here /\ b.wrote = (a.wrote \/ r.db # db \/ r.beside)
      /\ \/ /\ faults' = faults /\ b.calls = (IF r.ok THEN Tail(a.calls) ELSE <<>>)
            /\ b.ok = r.ok /\ b.lost = a.lost
         \/ faults' = faults + 1 /\ b.calls = <<>> /\ b.ok = FALSE /\ b.lost = TRUE
  BY <1>1 DEF Ran
<1>3. /\ {a.ok, a.lost, a.wrote, a.mounted, a.here} \subseteq BOOLEAN /\ ~a.lost /\ (a.mounted => a.here)
      /\ a.calls \in Left(page[t], a) /\ a.calls # <<>> /\ Filled(page[t], a, db)
  BY <1>1, <1>2, RunningFacts
<1>4. page[t] \in PageName /\ db \in Database /\ faults \in Nat
  BY TabFacts
<1>5. StepSound(page[t], Head(a.calls), a, db, r)
  BY <1>1, <1>3, <1>4, ExecuteStep
<1>6. db' = r.db /\ r.db \in Database /\ r.ok \in BOOLEAN /\ r.beside \in BOOLEAN
  BY <1>2, <1>5 DEF Stored1, StepSound, NoLoss
<1>7. /\ {b.ok, b.lost, b.wrote, b.mounted, b.here} \subseteq BOOLEAN /\ (b.mounted => b.here)
      /\ b.wrote => a.wrote \/ r.db # db \/ r.beside
  BY <1>2, <1>3, <1>6
<1>8. /\ b.calls = <<>> \/ (r.ok /\ ~b.lost /\ b.calls = Tail(a.calls))
      /\ ~b.lost => b.ok = r.ok
  BY <1>2, <1>3, <1>6
<1>9. faults' \in Nat /\ (faults' = 0 => faults = 0 /\ (r.ok => b.calls = Tail(a.calls)))
  BY <1>2, <1>4
<1>10. Effect(t, a, r, b)
  BY <1>1, <1>2, <1>5, <1>6, <1>7, <1>8, <1>9 DEF Effect
<1> QED BY <1>10

(* The action that ran, as the entry it becomes.                             *)
LEMMA RanItem ==
  ASSUME ConsoleInv, NEW t \in Tab, Running(t), NEW a, NEW r, NEW b, Effect(t, a, r, b)
  PROVE  Item(page[t], b, r.db)
<1> DEFINE p == page[t]
           c == a.calls
<1>1. /\ a.form \notin {"refresh", "reveal", "none"} /\ c \in Left(p, a) /\ c # <<>> /\ Filled(p, a, db)
      /\ a.wrote => Late(p, a, Head(c))
  BY RunningFacts DEF Effect
<1>2. p \in PageName
  BY TabFacts
<1>3. Tail(c) \in Left(p, a) /\ NextOf(p, a, c)
  BY <1>1, NextStatement
<1>4. SameForm(a, b)
  BY DEF Effect
<1>5. /\ Left(p, b) = Left(p, a) /\ \A d : Filled(p, a, d) => Filled(p, b, d)
      /\ CommitsEarly(p, a) => CommitsEarly(p, b)
      /\ \A s : Late(p, a, s) => Late(p, b, s)
  BY <1>4, SameAction
<1>6. b.calls \in Left(p, b)
  <2>1. <<>> \in Left(p, a)
    BY NothingLeft
  <2> QED BY <1>3, <1>5, <2>1 DEF Effect
<1>7. b.calls # <<>> => Filled(p, b, r.db) /\ b.ok /\ ~b.lost
  <2> SUFFICES ASSUME b.calls # <<>>  PROVE Filled(p, b, r.db) /\ b.ok /\ ~b.lost
    OBVIOUS
  <2>1. Tail(c) # <<>> /\ r.ok
    BY DEF Effect
  <2>2. p \notin {"budgets", "reservations"}
    BY <1>3, <2>1 DEF NextOf, Keyed, Long, PlainNext, Checked
  <2>3. Filled(p, a, r.db)
    BY <1>1, <1>2, <2>2 DEF Filled, PageName
  <2>4. ~b.lost
    BY <2>1 DEF Effect
  <2> QED BY <1>5, <2>1, <2>3, <2>4 DEF Effect
<1>8. b.calls # <<>> /\ b.wrote => Late(p, b, Head(b.calls))
  <2> SUFFICES ASSUME b.calls # <<>>, b.wrote  PROVE Late(p, b, Head(b.calls))
    OBVIOUS
  <2>1. b.calls = Tail(c) /\ Tail(c) # <<>>
    BY DEF Effect
  <2>2. Head(c) # "guard"
    <3> SUFFICES ASSUME Head(c) = "guard"  PROVE FALSE
      OBVIOUS
    <3>1. r.db = db /\ ~r.beside
      BY DEF Effect, StepSound
    <3>2. a.wrote
      BY <3>1 DEF Effect
    <3> QED BY <1>1, <3>2 DEF Late
  <2>3. Late(p, a, Head(Tail(c)))
    BY <1>1, <1>2, <2>1, <2>2, LateNext
  <2> QED BY <1>5, <2>1, <2>3
<1>9. b.wrote /\ ~b.ok /\ ~b.lost => CommitsEarly(p, b)
  <2> SUFFICES ASSUME b.wrote, ~b.ok, ~b.lost  PROVE CommitsEarly(p, b)
    OBVIOUS
  <2>1. ~r.ok
    BY DEF Effect
  <2>2. r.db = db /\ ~r.beside
    BY <2>1 DEF Effect, StepSound
  <2>3. a.wrote
    BY <2>2 DEF Effect
  <2> QED BY <1>1, <1>5, <2>3 DEF Late
<1>10. b.form \notin {"refresh", "reveal", "none"}
  BY <1>1, <1>4 DEF SameForm
<1>11. /\ IsAction(b) /\ {b.ok, b.lost, b.wrote, b.mounted, b.here} \subseteq BOOLEAN /\ (b.mounted => b.here)
  BY DEF Effect
<1> QED BY <1>6, <1>7, <1>8, <1>10, <1>9, <1>11 DEF Item

(* The other entries stay filled: nobody else creates the budget they do.    *)
LEMMA OthersStay ==
  ASSUME ConsoleInv, NEW t \in Tab, Running(t), NEW a, NEW r, NEW b, Effect(t, a, r, b),
         NEW u \in Tab, NEW i \in DOMAIN queue[u], u # t \/ i # 1
  PROVE  Item(page[u], queue[u][i], r.db)
<1> DEFINE x == queue[u][i]
<1>1. /\ page[u] \in PageName /\ Queued(page[u], queue[u], db) /\ db \in Database
      /\ page[t] = "budgets" => /\ Once(queue[t])
                                /\ \A w \in Tab \ {t} : page[w] = "budgets" =>
                                      CreateNames(queue[t]) \cap CreateNames(queue[w]) = {}
  BY TabFacts
<1>2. Item(page[u], x, db)
  <2>1. i \in 1..Len(queue[u])
    BY <1>1 DEF Queued
  <2> QED BY <1>1, <2>1 DEF Queued
<1>3. /\ r.db \in Database /\ NoLoss(db, r.db) /\ OwnWrites(page[t], a, db, r.db)
  BY DEF Effect, StepSound
<1>4. a = queue[t][1] /\ 1 \in DOMAIN queue[t]
  BY RunningFacts DEF Effect
<1>5. ASSUME x # Refreshing, Filled(page[u], x, db)  PROVE Filled(page[u], x, r.db)
  <2>1. page[u] = "budgets" /\ x.form = "create" => r.db.budget[x.name] = Absent
    <3> SUFFICES ASSUME page[u] = "budgets", x.form = "create", r.db.budget[x.name] # Absent  PROVE FALSE
      OBVIOUS
    <3>1. x.name \in Unit /\ db.budget[x.name] = Absent
      BY <1>5 DEF Filled, BudgetFilled
    <3>2. page[t] = "budgets" /\ a.form = "create" /\ a.name = x.name
      BY <1>3, <3>1 DEF OwnWrites
    <3>3. x.name \in CreateNames(queue[u]) /\ x.name \in CreateNames(queue[t])
      BY <1>4, <3>2 DEF CreateNames
    <3>4. u = t
      BY <1>1, <3>2, <3>3
    <3>5. i = 1
      BY <1>1, <1>4, <3>2, <3>4 DEF Once
    <3> QED BY <3>4, <3>5
  <2>2. Earlier(db, r.db)
    BY <1>3 DEF NoLoss
  <2> HIDE DEF x
  <2> QED BY <1>1, <1>3, <1>5, <2>1, <2>2, FilledStays
<1> HIDE DEF x
<1>6. Item(page[u], x, r.db)
  BY <1>2, <1>5 DEF Item
<1> QED BY <1>6 DEF x

(* The part of the invariant about pages and queues.                         *)
LEMMA RanPages ==
  ASSUME ConsoleInv, NEW t \in Tab, NEW a, NEW r, NEW b, Ran(t, b), Effect(t, a, r, b)
  PROVE  /\ TabsTyped' /\ PagesFit' /\ BudgetsApart' /\ KeyForms'
         /\ queue'[t] # <<>> /\ Head(queue'[t]) = b
         /\ \A u \in Tab : u # t => queue'[u] = queue[u]
         /\ \A u \in Tab : CreateNames(queue'[u]) = CreateNames(queue[u])
<1> DEFINE q == queue[t]
           n == [q EXCEPT ![1] = b]
<1>1. Running(t) /\ UNCHANGED <<page, view, dialog, accounted>> /\ queue' = [queue EXCEPT ![t] = n]
  BY DEF Ran
<1>2. /\ TabsTyped /\ PagesFit /\ BudgetsApart /\ KeyForms
  BY DEF ConsoleInv
<1>3. HeadReplaced(q, b, n)
  BY DEF HeadReplaced
<1> HIDE DEF n
<1>4. queue'[t] = n /\ \A u \in Tab : u # t => queue'[u] = queue[u]
  BY <1>1, <1>2 DEF TabsTyped
<1>5. /\ Queued(page[t], q, db) /\ q # <<>>
  BY <1>1, TabFacts DEF Running
<1>6. HeadFits(page[t], q, b, r.db)
  <2>1. Item(page[t], b, r.db)
    BY <1>1, RanItem
  <2>2. b.form = Head(q).form /\ b.name = Head(q).name /\ (b.mounted => Head(q).mounted)
    BY DEF Effect, SameForm
  <2>3. ASSUME NEW i \in DOMAIN q, i > 1  PROVE Item(page[t], q[i], r.db)
    <3>1. i # 1
      BY <2>3
    <3> QED BY <1>1, <3>1, OthersStay
  <2> QED BY <2>1, <2>2, <2>3 DEF HeadFits
<1>7. /\ Queued(page[t], n, r.db) /\ CreateNames(n) = CreateNames(q) /\ (Once(q) => Once(n))
      /\ MountedAt(n) \subseteq MountedAt(q) /\ n # <<>> /\ Head(n) = b
  BY <1>3, <1>5, <1>6, HeadChanges
<1>8. ASSUME NEW u \in Tab  PROVE Queued(page[u], queue'[u], r.db)
  <2>1. CASE u = t
    BY <1>4, <1>7, <2>1
  <2>2. CASE u # t
    <3>1. Queued(page[u], queue[u], db)
      BY TabFacts
    <3>2. DOMAIN queue[u] = 1..Len(queue[u])
      BY <3>1 DEF Queued
    <3>3. \A i \in DOMAIN queue[u] : Item(page[u], queue[u][i], r.db)
      BY <1>1, <2>2, OthersStay
    <3>4. Queued(page[u], queue[u], r.db)
      BY <3>1, <3>2, <3>3 DEF Queued
    <3> QED BY <1>4, <2>2, <3>4
  <2> QED BY <2>1, <2>2
<1>9. \A u \in Tab : CreateNames(queue'[u]) = CreateNames(queue[u])
  BY <1>4, <1>7
<1>10. TabsTyped'
  <2>1. overlap' \in BOOLEAN /\ unseen' \in [Tab -> BOOLEAN]
    BY <1>2 DEF Ran, Stored1, TabsTyped
  <2>2. queue' = [u \in Tab |-> queue'[u]]
    BY <1>1, <1>2 DEF TabsTyped
  <2> QED BY <1>1, <1>2, <2>1, <2>2 DEF TabsTyped, Effect
<1>11. PagesFit'
  <2> SUFFICES ASSUME NEW u \in Tab
               PROVE  ViewFits(page[u], view[u], r.db) /\ OpenFits(page[u], dialog[u], r.db)
    BY <1>1, <1>8 DEF PagesFit, Effect
  <2>1. ViewFits(page[u], view[u], db) /\ OpenFits(page[u], dialog[u], db) /\ db \in Database
    BY TabFacts
  <2>2. r.db \in Database /\ Earlier(db, r.db)
    BY DEF Effect, StepSound, NoLoss
  <2>3. \A e \in Database : Earlier(e, db) => Earlier(e, r.db)
    BY <2>1, <2>2, EarlierTrans
  <2> QED BY <2>1, <2>3 DEF ViewFits, OpenFits
<1>12. BudgetsApart'
  BY <1>1, <1>2, <1>4, <1>7, <1>9 DEF BudgetsApart
<1>13. KeyForms'
  BY <1>1, <1>2, <1>4, <1>7 DEF KeyForms
<1> QED BY <1>4, <1>7, <1>9, <1>10, <1>11, <1>12, <1>13

(* What running handlers rely on still holds, unless one was overtaken.      *)
LEMMA RanUndisturbed ==
  ASSUME ConsoleInv, NEW t \in Tab, NEW a, NEW r, NEW b, Ran(t, b), Effect(t, a, r, b)
  PROVE  Undisturbed'
<1> DEFINE p == page[t]
           c == a.calls
<1>1. Running(t) /\ page' = page /\ db' = r.db
      /\ overlap' = (overlap \/ (r.db # db /\ \E u \in Tab \ {t} : Midway(u)))
  BY DEF Ran, Effect, Stored1
<1>2. /\ queue'[t] # <<>> /\ Head(queue'[t]) = b
      /\ \A u \in Tab : u # t => queue'[u] = queue[u]
  BY RanPages
<1>3. c \in Left(p, a) /\ c # <<>> /\ Filled(p, a, db)
  BY <1>1, RunningFacts DEF Effect
<1>4. p \in PageName /\ db \in Database
  BY TabFacts
<1> SUFFICES ASSUME ~overlap'
             PROVE  /\ References(r.db) /\ Supers(r.db.operator) # {}
                    /\ \A u \in Tab : Running(u)' =>
                          Held(page[u], Head(Head(queue'[u]).calls), Head(queue'[u]), r.db)
  BY <1>1 DEF Undisturbed
<1>5. ~overlap /\ (r.db = db \/ \A u \in Tab \ {t} : ~Midway(u))
  BY <1>1
<1>6. Held(p, Head(c), a, db) /\ References(db) /\ Supers(db.operator) # {}
  BY <1>1, <1>5 DEF ConsoleInv, Undisturbed, Effect
<1>7. References(r.db) /\ Supers(r.db.operator) # {}
  BY <1>6 DEF Effect, StepSound, Guarded
<1>8. ASSUME NEW u \in Tab, Running(u)'
      PROVE  Held(page[u], Head(Head(queue'[u]).calls), Head(queue'[u]), r.db)
  <2>1. CASE u = t
    <3>1. b.calls # <<>>
      BY <1>2, <1>8, <2>1 DEF Running
    <3>2. r.ok /\ b.calls = Tail(c) /\ Tail(c) # <<>> /\ SameForm(a, b)
          /\ r = Execute(p, Head(c), a, db)
      BY <3>1 DEF Effect
    <3>3. Held(p, Head(Tail(c)), a, r.db)
      BY <1>3, <1>4, <1>6, <3>2, HeldNext
    <3>4. Held(p, Head(b.calls), b, r.db)
      BY <3>2, <3>3, SameAction
    <3> QED BY <1>2, <2>1, <3>4
  <2>2. CASE u # t
    <3>1. queue'[u] = queue[u] /\ Running(u)
      BY <1>2, <1>8, <2>2 DEF Running
    <3> DEFINE x == Head(queue[u])
    <3>2. CASE r.db = db
      BY <1>5, <3>1, <3>2 DEF ConsoleInv, Undisturbed
    <3>3. CASE r.db # db
      <4>1. x.calls = Calls(page[u], x)
        BY <1>5, <2>2, <3>1, <3>3 DEF Midway
      <4>2. Filled(page[u], x, db)
        BY <3>1, RunningFacts
      <4>3. page[u] \in PageName
        BY TabFacts
      <4>4. Held(page[u], Head(Calls(page[u], x)), x, r.db)
        BY <4>2, <4>3, CallsStart
      <4> QED BY <3>1, <4>1, <4>4
    <3> QED BY <3>2, <3>3
  <2> QED BY <2>1, <2>2
<1> QED BY <1>7, <1>8

(* A missing key is the next statement of the tab that creates the provider. *)
LEMMA RanKeysOwed ==
  ASSUME ConsoleInv, NEW t \in Tab, NEW a, NEW r, NEW b, Ran(t, b), Effect(t, a, r, b)
  PROVE  KeysOwed'
<1> DEFINE c == a.calls
           s == Head(c)
<1>1. Running(t) /\ page' = page /\ db' = r.db
      /\ overlap' = (overlap \/ (r.db # db /\ \E u \in Tab \ {t} : Midway(u)))
      /\ claimed' = (claimed \cup Claims(t, r)) \ r.db.key
  BY DEF Ran, Effect, Stored1
<1>2. /\ queue'[t] # <<>> /\ Head(queue'[t]) = b
      /\ \A u \in Tab : u # t => queue'[u] = queue[u]
  BY RanPages
<1> SUFFICES ASSUME ~overlap', faults' = 0, NEW p \in Provider, Owed(p, r.db), p \notin claimed'
             PROVE  \E u \in Tab : Owing(u, p)'
  BY <1>1 DEF KeysOwed
<1>3. ~overlap /\ p \notin claimed /\ p \notin Claims(t, r) /\ faults = 0 /\ (r.ok => b.calls = Tail(c))
  BY <1>1 DEF Effect, Owed
<1>4. ASSUME NEW u \in Tab, u # t, Owing(u, p)  PROVE \E w \in Tab : Owing(w, p)'
  <2>1. Owing(u, p)'
    BY <1>1, <1>2, <1>4 DEF Owing, Running
  <2> QED BY <2>1
<1>5. Owed(p, db) => \E u \in Tab : Owing(u, p)
  BY <1>3 DEF ConsoleInv, KeysOwed
<1>6. CASE page[t] # "providers"
  <2>1. r.db.provider = db.provider /\ r.db.key = db.key
    BY <1>6 DEF Effect, StepSound, OwnWrites
  <2>2. Owed(p, db)
    BY <2>1 DEF Owed
  <2>3. PICK u \in Tab : Owing(u, p)
    BY <1>5, <2>2
  <2> QED BY <1>4, <1>6, <2>3 DEF Owing
<1>7. CASE page[t] = "providers"
  <2>1. c \in Left(page[t], a) /\ c # <<>> /\ Filled(page[t], a, db)
    BY <1>1, RunningFacts DEF Effect
  <2>2. ProviderFilled(a)
    BY <1>7, <2>1 DEF Filled
  <2>3. NextOf(page[t], a, c)
    BY <2>1, NextStatement
  <2>4. \/ a.form = "create" /\ s \in {"upsert", "persist"}
        \/ a.form = "edit" /\ s \in {"patch", "persist", "get", "put"}
        \/ a.form = "delete" /\ s \in {"guard", "delete"}
    BY <1>7, <2>2, <2>3 DEF NextOf, Long, Keyed, KeyedNext, PlainNext, Writes, Checked, ProviderFilled
  <2>5. r = ProviderStatement(s, a, db) /\ a = Head(queue[t])
    BY <1>7 DEF Effect, Execute
  <2>6. ~(/\ p = a.name /\ a.form # "delete" /\ ~a.body.key
          /\ ProviderStatement(s, a, db).db # db /\ ProviderStatement(s, a, db).db.provider[p] = "db")
    BY <1>3, <1>7, <2>5 DEF Claims
  <2>7. Held("providers", s, a, db)
    BY <1>1, <1>3, <1>7, <2>5 DEF ConsoleInv, Undisturbed
  <2>8. db \in Database
    BY TabFacts
  <2> HIDE DEF s
  <2>9. \/ Owed(p, db) /\ (s = "persist" => p # a.name)
        \/ s = "upsert" /\ p = a.name /\ a.body.key
    BY <2>2, <2>4, <2>5, <2>6, <2>7, <2>8, KeysOwedBy
  <2>10. CASE Owed(p, db) /\ (s = "persist" => p # a.name)
    <3>1. PICK u \in Tab : Owing(u, p)
      BY <1>5, <2>10
    <3>2. u # t
      BY <2>5, <2>10, <3>1 DEF Owing, s
    <3> QED BY <1>4, <3>1, <3>2
  <2>11. CASE s = "upsert" /\ p = a.name /\ a.body.key
    <3>1. a.form = "create" /\ Keyed(page[t], a)
      BY <1>7, <2>4, <2>11 DEF Keyed
    <3>2. Tail(c) = <<"persist">>
      BY <2>3, <2>11, <3>1 DEF NextOf, KeyedNext, s
    <3>3. r.ok
      BY <2>5, <2>11 DEF ProviderStatement, Done, Result
    <3>4. b.calls = <<"persist">> /\ b.name = p
      BY <1>3, <2>11, <3>2, <3>3 DEF Effect, SameForm
    <3>5. b.calls # <<>> /\ Head(b.calls) = "persist" /\ b # Refreshing
      <4>1. a.form # "refresh"
        BY <1>1, RunningFacts DEF Effect
      <4>2. b.form = a.form
        BY DEF Effect, SameForm
      <4>3. Refreshing.form = "refresh"
        BY DEF Refreshing
      <4> QED BY <3>4, <4>1, <4>2, <4>3
    <3>6. Owing(t, p)'
      BY <1>1, <1>2, <1>7, <3>4, <3>5 DEF Owing, Running
    <3> QED BY <3>6
  <2> QED BY <2>9, <2>10, <2>11
<1> QED BY <1>6, <1>7

LEMMA RanKeeps ==
  ASSUME ConsoleInv, NEW t \in Tab, NEW b, Ran(t, b)
  PROVE  ConsoleInv'
<1>1. PICK a, r : Effect(t, a, r, b)
  BY RanEffect
<1>2. /\ TabsTyped' /\ PagesFit' /\ BudgetsApart' /\ KeyForms'
      /\ queue'[t] # <<>> /\ Head(queue'[t]) = b
      /\ \A u \in Tab : u # t => queue'[u] = queue[u]
      /\ \A u \in Tab : CreateNames(queue'[u]) = CreateNames(queue[u])
  BY <1>1, RanPages
<1>3. Undisturbed' /\ KeysOwed'
  BY <1>1, RanUndisturbed, RanKeysOwed
<1>4. db' = r.db /\ r.db \in Database /\ NoLoss(db, r.db) /\ OwnWrites(page[t], a, db, r.db)
  BY <1>1 DEF Effect, StepSound
<1>5. TenancyReferences(db')
  BY <1>4 DEF ConsoleInv, NoLoss
<1>6. KeysSomewhere'
  <2> SUFFICES ASSUME NEW k \in Stored(r.db.apikey)
               PROVE  k \in accounted \/ \E u \in Tab : k \in KeysAt(page[u], queue'[u], dialog[u])
    BY <1>4 DEF KeysSomewhere, Ran
  <2>1. CASE k \in Stored(db.apikey)
    <3>1. k \in accounted \/ \E u \in Tab : k \in KeysAt(page[u], queue[u], dialog[u])
      BY <2>1 DEF ConsoleInv, KeysSomewhere
    <3> QED BY <1>2, <3>1 DEF KeysAt
  <2>2. CASE k \notin Stored(db.apikey)
    <3>1. k \in Unit /\ db.apikey[k] = Absent /\ r.db.apikey[k] # Absent
      BY <1>4, <2>2, TabFacts DEF Stored, Database, Table
    <3>2. page[t] = "apikeys" /\ a.form = "create" /\ a.name = k
      BY <1>4, <3>1 DEF OwnWrites
    <3>3. a = queue[t][1] /\ 1 \in DOMAIN queue[t]
      BY <1>1, RunningFacts DEF Effect, Ran
    <3>4. k \in CreateNames(queue[t])
      BY <3>2, <3>3 DEF CreateNames
    <3>5. k \in KeysAt(page[t], queue'[t], dialog[t])
      BY <1>2, <3>2, <3>4 DEF KeysAt
    <3> QED BY <3>5
  <2> QED BY <2>1, <2>2
<1>7. \A u \in Tab : unseen'[u] => Shows(queue'[u], view'[u])
  <2> SUFFICES ASSUME NEW u \in Tab, unseen'[u]  PROVE Shows(queue'[u], view[u])
    BY DEF Ran
  <2>1. unseen[u] => Shows(queue[u], view[u])
    BY TabFacts
  <2>2. CASE u # t
    <3>1. unseen'[u] = unseen[u]
      BY <2>2 DEF Ran, Stored1, ConsoleInv, TabsTyped
    <3> QED BY <1>2, <2>1, <2>2, <3>1
  <2>3. CASE u = t
    <3>1. unseen[t] \/ a.here
      BY <1>1, <2>3 DEF Ran, Stored1, ConsoleInv, TabsTyped, Effect
    <3>2. b.here = a.here /\ a = Head(queue[t])
      BY <1>1 DEF Effect
    <3>3. b # Refreshing
      <4>1. Refreshing.form = "refresh" /\ a.form # "refresh"
        BY <1>1, RunningFacts DEF Refreshing, Effect, Ran
      <4>2. b.form = a.form
        BY <1>1 DEF Effect, SameForm
      <4> QED BY <4>1, <4>2
    <3> QED BY <1>2, <2>1, <2>3, <3>1, <3>2, <3>3 DEF Shows
  <2> QED BY <2>2, <2>3
<1>8. \A u \in Tab : Excused(queue'[u], overlap', faults')
  <2>1. (overlap => overlap') /\ (faults # 0 => faults' # 0)
    BY <1>1 DEF Ran, Stored1, Effect
  <2>2. ASSUME NEW u \in Tab, u # t  PROVE Excused(queue'[u], overlap', faults')
    <3>1. Excused(queue[u], overlap, faults)
      BY TabFacts
    <3> QED BY <1>2, <2>1, <2>2, <3>1 DEF Excused
  <2>3. Excused(queue'[t], overlap', faults')
    <3> SUFFICES ASSUME b.wrote, ~b.ok, ~b.lost, ~overlap'  PROVE FALSE
      BY <1>2 DEF Excused
    <3>1. ~r.ok
      BY <1>1 DEF Effect
    <3>2. r.db = db /\ ~r.beside
      BY <1>1, <3>1 DEF Effect, StepSound
    <3>3. a.wrote
      BY <1>1, <3>2 DEF Effect
    <3>4. /\ a.calls \in Left(page[t], a) /\ a.calls # <<>> /\ Filled(page[t], a, db)
          /\ Late(page[t], a, Head(a.calls)) /\ page[t] \in PageName
      BY <1>1, <3>3, RunningFacts, TabFacts DEF Effect, Ran
    <3>5. Held(page[t], Head(a.calls), a, db)
      BY <1>1, <2>1 DEF ConsoleInv, Undisturbed, Ran, Effect
    <3>6. Execute(page[t], Head(a.calls), a, db).ok
      BY <3>4, <3>5, LateSucceeds
    <3> QED BY <1>1, <3>1, <3>6 DEF Effect
  <2> QED BY <2>2, <2>3
<1> QED BY <1>2, <1>3, <1>4, <1>5, <1>6, <1>7, <1>8 DEF ConsoleInv

----------------------------------------------------------------------------
(* The invariant.                                                            *)

LEMMA ConsoleStarts == Init => ConsoleInv
<1> SUFFICES ASSUME Init  PROVE ConsoleInv
  OBVIOUS
<1>1. PICK s \in Seed : page = s.pages /\ db = s.db
  BY DEF Init
<1>2. /\ page \in [Tab -> PageName] /\ db \in Database
      /\ References(db) /\ TenancyReferences(db) /\ Supers(db.operator) # {}
      /\ \A p \in Stored(db.provider) : db.provider[p] = "db" => p \in db.key
  BY <1>1, ConsoleAssumption
<1>3. /\ view = [t \in Tab |-> Render(page[t], db)] /\ dialog = [t \in Tab |-> NoDialog]
      /\ queue = [t \in Tab |-> <<>>] /\ faults = 0 /\ overlap = FALSE /\ claimed = {}
      /\ unseen = [t \in Tab |-> FALSE] /\ accounted = Stored(db.apikey)
  BY DEF Init
<1>4. TabsTyped
  BY <1>2, <1>3 DEF TabsTyped
<1>5. \A d, p : Queued(p, <<>>, d)
  BY DEF Queued
<1>6. PagesFit
  BY <1>2, <1>3, <1>5, RenderedFits DEF PagesFit, OpenFits
<1>7. CreateNames(<<>>) = {} /\ MountedAt(<<>>) = {} /\ Once(<<>>)
  BY DEF CreateNames, MountedAt, Once
<1>8. \A t \in Tab : queue[t] = <<>> /\ ~Running(t)
  BY <1>3 DEF Running
<1>9. BudgetsApart /\ KeyForms
  BY <1>7, <1>8 DEF BudgetsApart, KeyForms
<1>10. Undisturbed
  BY <1>2, <1>8 DEF Undisturbed
<1>11. KeysOwed
  <2>1. ASSUME NEW p \in Provider, Owed(p, db)  PROVE FALSE
    <3>1. p \in Stored(db.provider)
      BY <1>2, <2>1, ConsoleTenancyAssumption DEF Owed, Stored, Database, Table, Reference
    <3> QED BY <1>2, <2>1, <3>1 DEF Owed
  <2> QED BY <2>1 DEF KeysOwed
<1>12. KeysSomewhere
  BY <1>3 DEF KeysSomewhere
<1>13. \A t \in Tab : Excused(queue[t], overlap, faults) /\ (unseen[t] => Shows(queue[t], view[t]))
  BY <1>3 DEF Excused
<1> QED BY <1>2, <1>4, <1>6, <1>9, <1>10, <1>11, <1>12, <1>13 DEF ConsoleInv

LEMMA ConsoleStep == ConsoleInv /\ [Next]_vars => ConsoleInv'
<1> SUFFICES ASSUME ConsoleInv, [Next]_vars  PROVE ConsoleInv'
  OBVIOUS
<1>1. CASE UNCHANGED vars
  BY <1>1 DEF vars, ConsoleInv, TabsTyped, PagesFit, BudgetsApart, Undisturbed, KeysOwed, Owing, KeyForms,
              KeysSomewhere, Running, ViewFits, OpenFits
<1>2. ASSUME NEW t \in Tab,
             \/ OpenDialog(t) \/ CloseDialog(t) \/ SavedKey(t) \/ Submit(t) \/ Confirm(t) \/ Enable(t)
             \/ Statement(t) \/ FaultBefore(t) \/ FaultAfter(t)
             \/ Answer(t) \/ AnswerUnread(t) \/ Refresh(t) \/ RefreshFails(t) \/ Revisit(t)
      PROVE  ConsoleInv'
  <2>1. CASE OpenDialog(t) \/ CloseDialog(t) \/ SavedKey(t)
    BY <2>1, OpenDialogKeeps, CloseDialogKeeps, SavedKeyKeeps
  <2>2. CASE Submit(t) \/ Confirm(t) \/ Enable(t)
    BY <2>2, SubmitKeeps, ConfirmKeeps, EnableKeeps
  <2>3. CASE Statement(t) \/ FaultAfter(t)
    BY <2>3, StatementRan, FaultAfterRan, RanKeeps
  <2>4. CASE FaultBefore(t) \/ Answer(t) \/ AnswerUnread(t)
    BY <2>4, FaultBeforeKeeps, AnswerKeeps, AnswerUnreadKeeps
  <2>5. CASE Refresh(t) \/ RefreshFails(t) \/ Revisit(t)
    BY <2>5, RefreshKeeps, RefreshFailsKeeps, RevisitKeeps
  <2> QED BY <1>2, <2>1, <2>2, <2>3, <2>4, <2>5
<1> QED BY <1>1, <1>2 DEF Next

LEMMA ConsoleInvariant == Spec => []ConsoleInv
  BY ConsoleStarts, ConsoleStep, PTL DEF Spec

----------------------------------------------------------------------------
(* What the invariant is for.                                                *)

(* Whatever two tabs do from stale pages, rows stay well formed, references  *)
(* lead somewhere, a provider that names its stored key has one and some     *)
(* operator has the role super-admin.  The exceptions are the executions in  *)
(* which a handler of the admin API was overtaken between its check and its  *)
(* write; for keys also those with a failed call, and the providers whose    *)
(* reference was typed, or put back by an older form, without a key.         *)
THEOREM DatabaseStaysSound == Spec => []DatabaseSound
<1>1. ASSUME ConsoleInv  PROVE DatabaseSound
  <2>1. ConsoleTypeOK
    <3>1. ASSUME NEW t \in Tab, dialog[t].form \in {"edit", "delete", "disable", "resolve"}
          PROVE  dialog[t].row # Absent
      <4>1. OpenFits(page[t], dialog[t], db)
        BY <1>1, TabFacts
      <4>2. dialog[t] # NoDialog
        BY <3>1, DialogFields DEF NoDialog
      <4>3. PICK e : DialogFits(page[t], dialog[t], e)
        BY <3>1, <4>1, <4>2 DEF OpenFits
      <4> QED BY <3>1, <4>3 DEF DialogFits, OnRow, Stored
    <3> QED BY <1>1, <3>1 DEF ConsoleTypeOK, ConsoleInv
  <2>2. ConsoleReferencesIntact /\ TenancyIntact /\ SuperAdminRemains
    BY <1>1 DEF ConsoleInv, Undisturbed, ConsoleReferencesIntact, TenancyIntact, SuperAdminRemains
  <2>3. KeyBehindReference
    <3> SUFFICES ASSUME ~overlap, ~(faults > 0), \A t \in Tab : ~Running(t),
                        NEW p \in Stored(db.provider), db.provider[p] = "db", p \notin db.key \cup claimed
                 PROVE  FALSE
      BY DEF KeyBehindReference
    <3>1. faults = 0
      BY <1>1 DEF ConsoleInv, TabsTyped
    <3>2. p \in Provider
      BY <1>1 DEF ConsoleInv, Database, Table, Stored
    <3>3. PICK t \in Tab : Owing(t, p)
      BY <1>1, <3>1, <3>2 DEF ConsoleInv, KeysOwed, Owed
    <3> QED BY <3>3 DEF Owing
  <2> QED BY <2>1, <2>2, <2>3 DEF DatabaseSound
<1> QED BY <1>1, ConsoleInvariant, PTL

(* A tab at rest shows its own last successful write, or the notice that the *)
(* page could not be read: every other way a queue empties ends in a page    *)
(* that was read after the write.                                            *)
THEOREM OwnWritesShown == Spec => []PageShowsOwnWrites
<1>1. ConsoleInv => PageShowsOwnWrites
  BY DEF ConsoleInv, PageShowsOwnWrites, Shows
<1> QED BY <1>1, ConsoleInvariant, PTL

(* An action that answers with an error has stored nothing, unless its       *)
(* answer was lost.  A handler that commits in several steps may have stored *)
(* the first of them, but only if a call failed on the way or it was         *)
(* overtaken: what comes after its first write is never refused otherwise.   *)
THEOREM FailureStoresNothing == Spec => []FailureStoredNothing
<1>1. ASSUME ConsoleInv  PROVE FailureStoredNothing
  <2> SUFFICES ASSUME NEW t \in Tab, Answered(t), ~Head(queue[t]).ok, ~Head(queue[t]).lost, Head(queue[t]).wrote
               PROVE  CommitsEarly(page[t], Head(queue[t])) /\ (overlap \/ faults > 0)
    BY DEF FailureStoredNothing
  <2>1. Item(page[t], Head(queue[t]), db) /\ Excused(queue[t], overlap, faults) /\ faults \in Nat
    BY <1>1, TabFacts, Leaves DEF Answered
  <2>2. CommitsEarly(page[t], Head(queue[t]))
    BY <2>1 DEF Item, Answered
  <2>3. overlap \/ faults > 0
    BY <2>1 DEF Excused, Answered
  <2> QED BY <2>2, <2>3
<1> QED BY <1>1, ConsoleInvariant, PTL

(* The plaintext of a stored key is on screen, still to be answered, saved,  *)
(* or given up, by the operator who leaves or by a page that cannot be read: *)
(* a mounted form is the open one, so its answer is shown, and what is shown *)
(* is replaced by nothing else.                                              *)
THEOREM KeysStayAccounted == Spec => []KeysAccounted
<1>1. ASSUME ConsoleInv  PROVE KeysAccounted
  <2> SUFFICES ASSUME NEW k \in Stored(db.apikey), k \notin accounted
               PROVE  \/ \E t \in Tab : dialog[t].form = "reveal" /\ k = dialog[t].name
                      \/ \E t \in Tab : page[t] = "apikeys" /\ \E i \in Pending(t, "create") : k = queue[t][i].name
    BY DEF KeysAccounted
  <2>1. PICK t \in Tab : k \in KeysAt(page[t], queue[t], dialog[t])
    BY <1>1 DEF ConsoleInv, KeysSomewhere
  <2> QED BY <2>1 DEF KeysAt, CreateNames, Pending
<1> QED BY <1>1, ConsoleInvariant, PTL

LEMMA WhoWrites ==
  ASSUME ConsoleInv, Next
  PROVE  db' = db \/ \E t \in Tab : \E b, a, r : Ran(t, b) /\ Effect(t, a, r, b)
<1>1. PICK t \in Tab :
         \/ OpenDialog(t) \/ CloseDialog(t) \/ SavedKey(t) \/ Submit(t) \/ Confirm(t) \/ Enable(t)
         \/ Statement(t) \/ FaultBefore(t) \/ FaultAfter(t)
         \/ Answer(t) \/ AnswerUnread(t) \/ Refresh(t) \/ RefreshFails(t) \/ Revisit(t)
  BY DEF Next
<1>2. CASE Statement(t) \/ FaultAfter(t)
  <2>1. PICK b : Ran(t, b)
    BY <1>2, StatementRan, FaultAfterRan
  <2>2. PICK a, r : Effect(t, a, r, b)
    BY <2>1, RanEffect
  <2> QED BY <2>1, <2>2
<1>3. CASE OpenDialog(t) \/ CloseDialog(t) \/ SavedKey(t) \/ Submit(t) \/ Confirm(t) \/ Enable(t)
  BY <1>3 DEF OpenDialog, CloseDialog, SavedKey, Submit, Confirm, Enable, Start
<1>4. CASE FaultBefore(t) \/ Answer(t) \/ AnswerUnread(t) \/ Refresh(t) \/ RefreshFails(t) \/ Revisit(t)
  BY <1>4 DEF FaultBefore, Answer, AnswerUnread, Refresh, RefreshFails, Revisit
<1> QED BY <1>1, <1>2, <1>3, <1>4

(* An edit changes only what its form showed: prices that the operator did   *)
(* not fill in stay with their provider up to the rounding of the display,   *)
(* budgets and reservations change only from the version the form was filled *)
(* from, and a completed key identity is never replaced.                     *)
THEOREM EditsKeepTheOthers == Spec => EditsKeepTheRest
<1> DEFINE Prices ==
      \A m \in Alias, t \in Tab :
         LET a == Head(queue[t]) IN
         /\ Running(t) /\ queue'[t] # queue[t] /\ page[t] = "models" /\ a.form = "edit" /\ a.name = m
         /\ db'.model[m] # db.model[m] /\ db'.model[m] # Absent
         => \A j \in DOMAIN db'.model[m] \ a.body.typed :
               \E i \in DOMAIN a.row : /\ a.row[i][1] = db'.model[m][j][1]
                                       /\ SameCents(a.row[i][2], db'.model[m][j][2])
    Blind ==
      \A u \in Unit :
         /\ db.budget[u] # Absent /\ db'.budget[u] # db.budget[u] =>
               \E t \in Tab : Running(t) /\ page[t] = "budgets" /\ Head(queue[t]).row = db.budget[u]
         /\ db.reservation[u] # Absent /\ db'.reservation[u] # db.reservation[u] =>
               \E t \in Tab : Running(t) /\ page[t] = "reservations"
                              /\ Head(queue[t]).row = db.reservation[u]
    Final ==
      \A k \in Unit : db.apikey[k] # Absent =>
         /\ db.apikey[k].group # Nil => db'.apikey[k].group = db.apikey[k].group
         /\ db.apikey[k].app # Nil => db'.apikey[k].app = db.apikey[k].app
<1>1. ASSUME ConsoleInv, Next, NEW m \in Alias, NEW t \in Tab, Running(t), queue'[t] # queue[t],
             page[t] = "models", Head(queue[t]).form = "edit", Head(queue[t]).name = m,
             db'.model[m] # db.model[m], db'.model[m] # Absent
      PROVE  \A j \in DOMAIN db'.model[m] \ Head(queue[t]).body.typed :
                \E i \in DOMAIN Head(queue[t]).row :
                   /\ Head(queue[t]).row[i][1] = db'.model[m][j][1]
                   /\ SameCents(Head(queue[t]).row[i][2], db'.model[m][j][2])
  <2>1. PICK u \in Tab : \E b, a, r : Ran(u, b) /\ Effect(u, a, r, b)
    BY <1>1, WhoWrites
  <2>2. PICK b, a, r : Ran(u, b) /\ Effect(u, a, r, b)
    BY <2>1
  <2>3. u = t
    BY <1>1, <2>2, RanPages
  <2>4. a = Head(queue[t]) /\ db' = r.db /\ OwnWrites("models", a, db, r.db)
    BY <1>1, <2>2, <2>3 DEF Effect, StepSound
  <2>5. db'.model[m] = a.body.rows
    BY <1>1, <2>4 DEF OwnWrites
  <2>6. ModelFilled(a)
    BY <1>1, <2>4, RunningFacts DEF Filled
  <2> QED BY <1>1, <2>4, <2>5, <2>6 DEF ModelFilled, PricesKept
<1>2. ASSUME ConsoleInv, Next, NEW u \in Unit
      PROVE  /\ db.budget[u] # Absent /\ db'.budget[u] # db.budget[u] =>
                  \E t \in Tab : Running(t) /\ page[t] = "budgets" /\ Head(queue[t]).row = db.budget[u]
             /\ db.reservation[u] # Absent /\ db'.reservation[u] # db.reservation[u] =>
                  \E t \in Tab : Running(t) /\ page[t] = "reservations"
                                 /\ Head(queue[t]).row = db.reservation[u]
             /\ db.apikey[u] # Absent =>
                  /\ db.apikey[u].group # Nil => db'.apikey[u].group = db.apikey[u].group
                  /\ db.apikey[u].app # Nil => db'.apikey[u].app = db.apikey[u].app
  <2>1. CASE db' = db
    BY <2>1
  <2>2. ASSUME NEW t \in Tab, NEW b, NEW a, NEW r, Ran(t, b), Effect(t, a, r, b)
        PROVE  /\ db.budget[u] # Absent /\ db'.budget[u] # db.budget[u] =>
                    Running(t) /\ page[t] = "budgets" /\ Head(queue[t]).row = db.budget[u]
               /\ db.reservation[u] # Absent /\ db'.reservation[u] # db.reservation[u] =>
                    Running(t) /\ page[t] = "reservations" /\ Head(queue[t]).row = db.reservation[u]
               /\ db.apikey[u] # Absent =>
                    /\ db.apikey[u].group # Nil => db'.apikey[u].group = db.apikey[u].group
                    /\ db.apikey[u].app # Nil => db'.apikey[u].app = db.apikey[u].app
    <3>1. Running(t) /\ a = Head(queue[t]) /\ db' = r.db /\ OwnWrites(page[t], a, db, r.db) /\ NoLoss(db, r.db)
      BY <2>2 DEF Effect, StepSound, Ran
    <3> QED BY <3>1 DEF OwnWrites, NoLoss
  <2> QED BY <1>2, <2>1, <2>2, WhoWrites
<1>3. ASSUME ConsoleInv, [Next]_vars  PROVE [Prices]_vars /\ [Blind]_vars /\ [Final]_vars
  <2>1. CASE UNCHANGED vars
    BY <2>1
  <2>2. CASE Next
    <3>1. Prices
      BY <1>1, <1>3, <2>2
    <3>2. Blind /\ Final
      BY <1>2, <1>3, <2>2
    <3> QED BY <3>1, <3>2
  <2> QED BY <1>3, <2>1, <2>2
<1> QED BY <1>3, ConsoleInvariant, PTL
        DEF Spec, EditsKeepTheRest, PricesFollowProviders, NoBlindWrite, KeyIdentityFinal

=============================================================================
