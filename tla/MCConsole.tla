------------------------------ MODULE MCConsole ------------------------------
(* Two tabs on each pair of pages whose forms and handlers meet, from a      *)
(* database with something in it to lose; and two windows of one browser     *)
(* that share a session.  No step belongs to both: an execution is one or    *)
(* the other.                                                                *)
EXTENDS Console, ConsoleSession

CONSTANTS t1, t2, p1, p2, m1, s1, s2, u1, u2, reader

Empty(S) == [x \in S |-> Absent]

(* p1 has a reference, p2 a stored key; m1 uses both and its route one.      *)
ConfigTablesOf(models, routes) ==
    [provider |-> [p \in Provider |-> IF p = p1 THEN "env" ELSE "db"],
     key |-> {p2}, model |-> models, route |-> routes, plugin |-> Empty(Scope)]
NoConfig ==
    [provider |-> Empty(Provider), key |-> {}, model |-> Empty(Alias), route |-> Empty(Alias),
     plugin |-> Empty(Scope)]
(* Every installation has the roles and the first super-admin.               *)
RoleData == (Super :> {"*"}) @@ (reader :> {"read"})
NoTenancy ==
    [tenant |-> Empty(Unit), group |-> Empty(Unit), application |-> Empty(Unit),
     apikey |-> Empty(Unit), operator |-> (u1 :> Super) @@ Empty(Unit), role |-> RoleData,
     budget |-> Empty(Unit), reservation |-> Empty(Unit), spent |-> {}]

Both == <<<<p1, 14000>>, <<p2, 0>>>>
ConfigData == {NoTenancy @@ ConfigTablesOf([m \in Alias |-> Both], [m \in Alias |-> <<<<p2, 0>>>>])}
RouteData == {NoTenancy @@ ConfigTablesOf([m \in Alias |-> Both], [m \in Alias |-> Both])}
ProviderData == {NoTenancy @@ [NoConfig EXCEPT !.provider[p1] = "env"]}
(* A provider with a stored key, and nothing for the other tab to do.        *)
OwnKeyData == {NoTenancy @@ [NoConfig EXCEPT !.provider[p1] = "db", !.key = {p1}]}
PluginData == {NoTenancy @@ [NoConfig EXCEPT !.plugin[s1] = 14000]}

Key(g, a, r) == [group |-> g, app |-> a, models |-> FALSE, revoked |-> r]
(* Groups, an application and a key made before keys had an identity.        *)
KeyData ==
    {NoConfig @@ [NoTenancy EXCEPT !.group = [u \in Unit |-> "on"],
                                   !.application[u1] = [status |-> "on", owner |-> u1],
                                   !.apikey[u1] = Key(Nil, Nil, FALSE)]}
(* A second group and an application that nothing uses yet.                  *)
GroupData ==
    {NoConfig @@ [NoTenancy EXCEPT !.group = (u1 :> "on" @@ u2 :> s),
                                   !.application[u1] = [status |-> "on", owner |-> u1]] :
        s \in {"on", "off"}}
OperatorData ==
    {NoConfig @@ [NoTenancy EXCEPT !.operator[u2] = x] :
        x \in {Super, reader}}
RoleOnly == {NoConfig @@ NoTenancy}
BudgetData ==
    {NoConfig @@ [NoTenancy EXCEPT !.budget[u1] = [version |-> 1, limit |-> 14000, enabled |-> TRUE]]}
ReservationData ==
    {NoConfig @@ [NoTenancy EXCEPT !.reservation =
        (u1 :> [version |-> 1, status |-> "unknown"]) @@ (u2 :> [version |-> 1, status |-> "released_unknown"])]}
TenantData == {NoConfig @@ [NoTenancy EXCEPT !.tenant[u1] = "on"]}

(* Three events, or two: n of the MaxActs are used up.  An event is an action *)
(* or a fault (Eventful).                                                    *)
Tabs(a, b, data, n) ==
    {[pages |-> (t1 :> pq[1]) @@ (t2 :> pq[2]), db |-> d, acts |-> n] : pq \in {<<a, b>>, <<b, a>>}, d \in data}
On(a, b, data) == Tabs(a, b, data, 1)
Symmetry == Permutations(Tab)

MCSeed ==
    Tabs("providers", "reservations", OwnKeyData, 0) \cup Tabs("apikeys", "reservations", KeyData, 0)
    \cup On("providers", "models", ConfigData)
    \cup On("providers", "routes", ConfigData)
    \cup On("models", "routes", ConfigData \cup RouteData) \cup On("providers", "providers", ProviderData)
    \cup On("plugins", "plugins", PluginData) \cup Tabs("tenants", "tenants", TenantData, 0)
    \cup On("groups", "applications", GroupData) \cup On("groups", "apikeys", GroupData)
    \cup On("applications", "apikeys", GroupData) \cup On("apikeys", "apikeys", KeyData)
    \cup On("applications", "applications", KeyData) \cup On("roles", "roles", RoleOnly)
    \cup On("roles", "operators", OperatorData) \cup On("operators", "operators", OperatorData)
    \cup On("budgets", "budgets", BudgetData) \cup Tabs("reservations", "reservations", ReservationData, 0)

(* The built-in roles, a custom role of each scope.                          *)
MCOperatorRoles ==
    {[perms |-> {"*"}, scope |-> "global"], [perms |-> {"provider.read"}, scope |-> "global"],
     [perms |-> {"api_key.read", "usage.read"}, scope |-> "tenant"], [perms |-> {"usage.read"}, scope |-> "tenant"]}

NoSession ==
    /\ cookie = NoCookie /\ sessions = {} /\ issued = {} /\ changes = 0
    /\ rights = [perms |-> {}, scope |-> "tenant"]
    /\ win = [w \in Window |-> Closed]
NoTabs ==
    /\ page = [t \in Tab |-> "tenants"] /\ db = NoConfig @@ NoTenancy
    /\ view = [t \in Tab |-> Render(page[t], db)]
    /\ dialog = [t \in Tab |-> NoDialog] /\ queue = [t \in Tab |-> <<>>]
    /\ enabling = [t \in Tab |-> Nil]
    /\ acts = MaxActs /\ faults = 0 /\ claimed = {}
    /\ overlap = FALSE /\ unseen = [t \in Tab |-> FALSE] /\ accounted = {}

MCInit == (Init /\ NoSession) \/ (NoTabs /\ SessionInit)
Eventful == acts' + faults' <= MaxActs
MCNext == (Next /\ Eventful /\ UNCHANGED sessionVars) \/ (SessionNext /\ UNCHANGED vars)
MCSpec == MCInit /\ [][MCNext]_<<vars, sessionVars>>
=============================================================================
