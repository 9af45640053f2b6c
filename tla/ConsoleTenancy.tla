--------------------------- MODULE ConsoleTenancy ---------------------------
(* The pages of the web console that manage who may use the gateway:         *)
(* Tenants, Groups, Applications, API keys, Operators, Roles, and the Budgets *)
(* page with its reservations.  Laid out like ConsoleConfig.                  *)
EXTENDS ConsoleConfig

CONSTANTS
    Unit,       \* names of tenants, groups, applications, keys, operators, budgets
    Role,       \* role names
    Super       \* the built-in role super-admin

----------------------------------------------------------------------------
(* What is stored.  A row that was deleted never comes back under its name:  *)
(* "spent" lists the deleted ones (rows are addressed by id).                *)

Statuses == {"on", "off"}
Perms == SUBSET {"*", "read"}
ApplicationRow == [status : Statuses, owner : Unit]
APIKeyRow == [group : Unit \cup {Nil}, app : Unit \cup {Nil}, models : BOOLEAN, revoked : BOOLEAN]
BudgetRow == [version : Nat, limit : Num, enabled : BOOLEAN]
ReservationRow == [version : Nat, status : {"unknown", "released_unknown", "settled", "released"}]

Table(names, rows) == [names -> rows \cup {Absent}]

Database ==
    [provider : Table(Provider, Reference), key : SUBSET Provider,
     model : Table(Alias, Entries), route : Table(Alias, Entries), plugin : Table(Scope, Num),
     tenant : Table(Unit, Statuses), group : Table(Unit, Statuses),
     application : Table(Unit, ApplicationRow), apikey : Table(Unit, APIKeyRow),
     operator : Table(Unit, Role), role : Table(Role, Perms),
     budget : Table(Unit, BudgetRow), reservation : Table(Unit, ReservationRow),
     spent : SUBSET ({"groups", "applications", "operators", "roles"} \X (Unit \cup Role))]

(* No row is the mark of a missing one.                                      *)
ASSUME ConsoleTenancyAssumption ==
    /\ Super \in Role
    /\ Absent \notin Reference /\ Absent \notin Entries /\ Absent \notin Num
    /\ Absent \notin Statuses /\ Absent \notin ApplicationRow /\ Absent \notin APIKeyRow
    /\ Absent \notin Role /\ \A q \in Perms : q # Absent
    /\ Absent \notin BudgetRow /\ Absent \notin ReservationRow

Bound(k) == k.group # Nil /\ k.app # Nil
Supers(table) == {u \in Stored(table) : table[u] = Super}

----------------------------------------------------------------------------
(* Reading.                                                                  *)

TenantsPage(d) == [rows |-> d.tenant]
GroupsPage(d) == [rows |-> d.group]
ApplicationsPage(d) == [rows |-> d.application, groups |-> Stored(d.group)]
(* Revoked keys are not listed; disabled applications are not offered, while *)
(* disabled groups are.                                                      *)
APIKeysPage(d) ==
    [rows |-> [k \in Unit |-> IF d.apikey[k] = Absent \/ d.apikey[k].revoked
                              THEN Absent ELSE d.apikey[k]],
     groups |-> Stored(d.group),
     applications |-> {a \in Stored(d.application) : d.application[a].status = "on"}]
OperatorsPage(d) == [rows |-> d.operator, roles |-> Stored(d.role)]
RolesPage(d) == [rows |-> d.role]
BudgetsPage(d) == [rows |-> d.budget]
ReservationsPage(d) == [rows |-> d.reservation]

----------------------------------------------------------------------------
(* Buttons.  An enabled row offers "disable" behind a dialog; a disabled one *)
(* offers "enable", which asks nothing (EnableOffer).                        *)

Create == {Dialog("create", Nil, Nil)}
TenantsOffer(v) ==
    Create \cup {x \in RowDialogs("disable", v) : x.row = "on"}
GroupsOffer(v) ==
    Create \cup {x \in RowDialogs("disable", v) : x.row = "on"} \cup RowDialogs("delete", v)
ApplicationsOffer(v) ==
    Create \cup {x \in RowDialogs("disable", v) : x.row.status = "on"} \cup RowDialogs("delete", v)
EnableOffer(page, v) ==
    CASE page \in {"tenants", "groups"} -> {n \in Stored(v.rows) : v.rows[n] = "off"}
      [] page = "applications" -> {n \in Stored(v.rows) : v.rows[n].status = "off"}
      [] OTHER -> {}

APIKeysOffer(v) == Create \cup RowDialogs("edit", v) \cup RowDialogs("delete", v)
(* The last super-admin among the rows of the page has no delete button.     *)
OperatorsOffer(v) ==
    Create \cup RowDialogs("edit", v)
    \cup {x \in RowDialogs("delete", v) : ~(x.row = Super /\ Cardinality(Supers(v.rows)) <= 1)}
RolesOffer(v) ==
    Create \cup RowDialogs("edit", v) \cup {x \in RowDialogs("delete", v) : x.name # Super}
BudgetsOffer(v) == Create \cup RowDialogs("edit", v)
ReservationsOffer(v) ==
    {x \in RowDialogs("resolve", v) : x.row.status \in {"unknown", "released_unknown"}}

----------------------------------------------------------------------------
(* Forms.                                                                    *)

TenantForm == {[name |-> u, body |-> Nil] : u \in Unit}
GroupForm == {[name |-> u, body |-> Nil] : u \in Unit}
(* Nothing makes the user pick an owner: Nil is an unpicked one.             *)
ApplicationForm(v) == {[name |-> u, body |-> g] : u \in Unit, g \in v.groups \cup {Nil}}

(* Submit is disabled until group and application are chosen.  What a bound  *)
(* row has is fixed; "bind" is the hidden field that sends the identity.     *)
APIKeyForm(dlg, v) ==
    IF dlg.form = "create"
    THEN {[name |-> u, body |-> [group |-> g, app |-> a, models |-> m, bind |-> TRUE]] :
             u \in Unit, g \in v.groups, a \in v.applications, m \in BOOLEAN}
    ELSE {[name |-> dlg.name, body |-> [group |-> g, app |-> a, models |-> m, bind |-> ~Bound(dlg.row)]] :
             g \in IF dlg.row.group = Nil THEN v.groups ELSE {dlg.row.group},
             a \in IF dlg.row.app = Nil THEN v.applications ELSE {dlg.row.app}, m \in BOOLEAN}

(* The role is chosen on creation only, and may be left unchosen.            *)
OperatorForm(dlg, v) ==
    IF dlg.form = "create" THEN {[name |-> u, body |-> r] : u \in Unit, r \in v.roles \cup {Nil}}
    ELSE {[name |-> dlg.name, body |-> Nil]}

(* The wildcard replaces the other permissions.                              *)
RoleForm(dlg) ==
    {[name |-> r, body |-> q] : r \in IF dlg.form = "create" THEN Role ELSE {dlg.name},
                                q \in {{"*"}, {"read"}, {}}}

(* Nil is a limit whose display did not change, which is not sent.           *)
BudgetForm(dlg) ==
    IF dlg.form = "create"
    THEN {[name |-> u, body |-> [limit |-> x, enabled |-> TRUE]] : u \in Unit, x \in Typed}
    ELSE {[name |-> dlg.name, body |-> [limit |-> x, enabled |-> e]] :
             x \in (Typed \ {Displayed(dlg.row.limit)}) \cup {Nil}, e \in BOOLEAN}

ResolveForm(dlg) ==
    {[name |-> dlg.name, body |-> x] :
        x \in IF dlg.row.status = "released_unknown" THEN {"settle"}
              ELSE {"settle", "release", "release_unknown"}}

----------------------------------------------------------------------------
(* The handlers.  The tables of these pages are tied by foreign keys.        *)

TenantStatement(a, d) ==
    CASE a.form = "create" -> IF d.tenant[a.name] # Absent THEN Refused(d)
                              ELSE Done([d EXCEPT !.tenant[a.name] = "on"])
      [] a.form = "disable" -> Done([d EXCEPT !.tenant[a.name] = "off"])
      [] a.form = "enable" -> Done([d EXCEPT !.tenant[a.name] = "on"])

(* A revoked key still counts.                                               *)
GroupReferencedBy(g, d) ==
    {k \in Stored(d.apikey) : d.apikey[k].group = g}
    \cup {x \in Stored(d.application) : d.application[x].owner = g}

GroupCalls(a) == IF a.form = "delete" THEN <<"guard", "delete">> ELSE <<a.form>>

GroupStatement(s, a, d) ==
    LET g == a.name
        Set(status) == IF d.group[g] = Absent THEN Refused(d) ELSE Done([d EXCEPT !.group[g] = status]) IN
    CASE s = "create" -> IF d.group[g] # Absent THEN Refused(d) ELSE Done([d EXCEPT !.group[g] = "on"])
      [] s = "guard" -> Result(GroupReferencedBy(g, d) = {}, d)
      [] s = "delete" -> IF d.group[g] = Absent \/ GroupReferencedBy(g, d) # {} THEN Refused(d)
                         ELSE Done([d EXCEPT !.group[g] = Absent, !.spent = @ \cup {<<"groups", g>>}])
      [] s = "disable" -> Set("off")
      [] s = "enable" -> Set("on")

(* The handler reads the row back for its answer, and fails when it is gone. *)
ApplicationCalls(a) == IF a.form = "delete" THEN <<"guard", "delete">> ELSE <<a.form, "read">>

ApplicationStatement(s, a, d) ==
    LET x == a.name
        keys == {k \in Stored(d.apikey) : d.apikey[k].app = x}
        Set(status) == IF d.application[x] = Absent THEN Refused(d)
                       ELSE Done([d EXCEPT !.application[x] = [status |-> status, owner |-> @.owner]]) IN
    CASE s = "create" -> IF a.body = Nil \/ d.application[x] # Absent THEN Refused(d)
                         ELSE IF d.group[a.body] = Absent THEN Refused(d)
                         ELSE Done([d EXCEPT !.application[x] = [status |-> "on", owner |-> a.body]])
      [] s = "read" -> Result(d.application[x] # Absent, d)
      [] s = "guard" -> Result(keys = {}, d)
      [] s = "delete" -> IF d.application[x] = Absent \/ keys # {} THEN Refused(d)
                         ELSE Done([d EXCEPT !.application[x] = Absent,
                                             !.spent = @ \cup {<<"applications", x>>}])
      [] s = "disable" -> Set("off")
      [] s = "enable" -> Set("on")

(* The tenant of the console's operator is taken to be enabled, the models of *)
(* a key's list to exist; its environment is left out.                       *)
ValidIdentity(b, d) ==
    /\ d.group[b.group] = "on"
    /\ d.application[b.app] # Absent /\ d.application[b.app].status = "on"

(* updateAPIKey omits an empty model list only when it binds an identity and *)
(* the row had none; the handler refuses the empty list and an empty patch,  *)
(* and an identity that differs from the stored one.                         *)
APIKeyUpdate(a, d) ==
    LET k == d.apikey[a.name] IN
    /\ k # Absent /\ ~k.revoked
    /\ a.body.models \/ (a.body.bind /\ ~a.row.models)
    /\ a.body.bind => /\ k.group \in {Nil, a.body.group} /\ k.app \in {Nil, a.body.app}
                      /\ Bound(k) \/ ValidIdentity(a.body, d)

APIKeyStatement(a, d) ==
    LET k == d.apikey[a.name] IN
    CASE a.form = "create" ->
            IF k # Absent \/ ~ValidIdentity(a.body, d) THEN Refused(d)
            ELSE Done([d EXCEPT !.apikey[a.name] = [group |-> a.body.group, app |-> a.body.app,
                                                    models |-> a.body.models, revoked |-> FALSE]])
      [] a.form = "edit" ->
            IF ~APIKeyUpdate(a, d) THEN Refused(d)
            ELSE Done([d EXCEPT !.apikey[a.name] =
                         [group |-> IF a.body.bind THEN a.body.group ELSE k.group,
                          app |-> IF a.body.bind THEN a.body.app ELSE k.app,
                          models |-> k.models \/ a.body.models, revoked |-> FALSE]])
      [] a.form = "delete" ->
            IF k = Absent \/ k.revoked THEN Refused(d) ELSE Done([d EXCEPT !.apikey[a.name] = [k EXCEPT !.revoked = TRUE]])

(* A deletion revokes the operator's sessions first; an update of the email  *)
(* or the password reads the operator back for its answer.                   *)
OperatorCalls(a) ==
    CASE a.form = "delete" -> <<"guard", "sessions", "delete">>
      [] a.form = "edit" -> <<"edit", "read">>
      [] OTHER -> IF a.body = Nil THEN <<"invalid">> ELSE <<"create">>

OperatorDeletable(u, d) ==
    /\ d.operator[u] # Absent
    /\ d.operator[u] = Super => Cardinality(Supers(d.operator)) > 1

OperatorStatement(s, a, d) ==
    LET u == a.name IN
    CASE s = "invalid" -> Refused(d)
      [] s = "create" -> IF d.operator[u] # Absent \/ d.role[a.body] = Absent THEN Refused(d)
                         ELSE Done([d EXCEPT !.operator[u] = a.body])
      [] s = "edit" -> IF d.operator[u] = Absent THEN Refused(d) ELSE Beside(d)
      [] s = "read" -> Result(d.operator[u] # Absent, d)
      [] s = "guard" -> Result(OperatorDeletable(u, d), d)
      [] s = "sessions" -> Beside(d)
      [] s = "delete" -> IF d.operator[u] = Absent THEN Refused(d)
                         ELSE Done([d EXCEPT !.operator[u] = Absent, !.spent = @ \cup {<<"operators", u>>}])

(* An edit is taken to give a description, too, which is written first; the  *)
(* handler then reads the role back and fails when it is gone.               *)
RoleCalls(a) ==
    IF a.form = "edit" THEN <<"guard", "describe", "edit", "read">> ELSE <<"guard", a.form>>

RoleStatement(s, a, d) ==
    LET r == a.name
        users == {u \in Stored(d.operator) : d.operator[u] = r} IN
    CASE s = "guard" ->
            Result(CASE a.form = "create" -> d.role[r] = Absent
                     [] a.form = "edit" -> d.role[r] # Absent
                     [] a.form = "delete" -> d.role[r] # Absent /\ r # Super /\ users = {}, d)
      [] s = "create" -> IF d.role[r] # Absent THEN Refused(d) ELSE Done([d EXCEPT !.role[r] = a.body])
      [] s = "describe" -> IF d.role[r] # Absent /\ r # Super THEN Beside(d) ELSE Done(d)
      [] s = "read" -> Result(d.role[r] # Absent, d)
      [] s = "edit" -> IF d.role[r] # Absent THEN Done([d EXCEPT !.role[r] = a.body])
                       ELSE Result(a.body = {}, d)
      [] s = "delete" -> IF users # {} THEN Refused(d)
                         ELSE Done([d EXCEPT !.role[r] = Absent, !.spent = @ \cup {<<"roles", r>>}])

BudgetCurrent(a, d) == d.budget[a.name].version = a.row.version

BudgetStatement(a, d) ==
    LET b == d.budget[a.name] IN
    IF a.form = "create" THEN Done([d EXCEPT !.budget[a.name] =
                                  [version |-> 1, limit |-> a.body.limit, enabled |-> a.body.enabled]])
    ELSE IF ~BudgetCurrent(a, d) THEN Refused(d)
         ELSE Done([d EXCEPT !.budget[a.name] =
                      [version |-> b.version + 1, enabled |-> a.body.enabled,
                       limit |-> IF a.body.limit = Nil THEN b.limit ELSE a.body.limit]])

ResolveStatement(a, d) ==
    LET r == d.reservation[a.name] IN
    IF r.version # a.row.version THEN Refused(d)
    ELSE Done([d EXCEPT !.reservation[a.name] =
                 [version |-> r.version + 1,
                  status |-> CASE a.body = "settle" -> "settled" [] a.body = "release" -> "released"
                               [] OTHER -> "released_unknown"]])

----------------------------------------------------------------------------
(* What the foreign keys are for.                                            *)
TenancyReferences(d) ==
    /\ \A x \in Stored(d.application) : d.application[x].owner \in Stored(d.group)
    /\ \A k \in Stored(d.apikey) : Bound(d.apikey[k]) =>
          d.apikey[k].group \in Stored(d.group) /\ d.apikey[k].app \in Stored(d.application)
    /\ \A u \in Stored(d.operator) : d.operator[u] \in Stored(d.role)
=============================================================================
