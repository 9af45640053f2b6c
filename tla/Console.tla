------------------------------ MODULE Console ------------------------------
(* The web console at work: two browser tabs, each on one of the pages of    *)
(* ConsoleConfig and ConsoleTenancy, over one database.  A dialog submits a  *)
(* Server Action; Next.js runs the actions and refreshes of a tab one at a   *)
(* time; the admin handler runs statement by statement between those of the  *)
(* other tab; the answer brings a re-read page and runs the client's handler *)
(* against whatever dialog is open by then.  The operator may leave the page *)
(* and come back at any time, and reading a page may fail.                   *)
EXTENDS ConsoleTenancy

CONSTANTS
    Tab,
    Seed,        \* initial states: the tabs' pages, the database, and how
                 \* many of the MaxActs actions are no longer to be had
    MaxActs,     \* Server Actions submitted, and pages left while one is awaited
    MaxFaults    \* admin calls that fail on the way, page reads included

PageName ==
    {"providers", "models", "routes", "plugins", "tenants", "groups", "applications", "apikeys",
     "operators", "roles", "budgets", "reservations"}

(* Seeded databases are such as the admin API leaves behind: references lead *)
(* somewhere, and there is a super-admin.                                    *)
ASSUME ConsoleAssumption ==
    /\ MaxActs \in Nat /\ MaxFaults \in Nat
    /\ \A s \in Seed :
          /\ s.pages \in [Tab -> PageName] /\ s.db \in Database
          /\ References(s.db) /\ TenancyReferences(s.db) /\ Supers(s.db.operator) # {}
          /\ \A p \in Stored(s.db.provider) : s.db.provider[p] = "db" => p \in s.db.key

VARIABLES
    db,          \* the tables
    page,        \* page[t]: where tab t is
    view,        \* view[t]: the rows and options the page was rendered from, or
                 \* Nil: the notice of a page that could not be read
    dialog,      \* dialog[t]: the open dialog
    queue,       \* queue[t]: Server Actions and refreshes, the first one running
    enabling,    \* enabling[t]: the row whose enable button is disabled
    acts, faults,
    \* history, read by the properties only
    overlap,     \* a statement changed the tables in the middle of another handler
    claimed,     \* providers told to use their stored key when they had none
    unseen,      \* unseen[t]: a successful write of t that its page does not show
    accounted    \* keys whose plaintext was saved by the operator, or given up

vars == <<db, page, view, dialog, queue, enabling, acts, faults, overlap, claimed, unseen, accounted>>

----------------------------------------------------------------------------
(* The page of a tab.                                                        *)

Render(p, d) ==
    CASE p = "providers" -> ProvidersPage(d) [] p = "models" -> ModelsPage(d)
      [] p = "routes" -> RoutesPage(d) [] p = "plugins" -> PluginsPage(d)
      [] p = "tenants" -> TenantsPage(d) [] p = "groups" -> GroupsPage(d)
      [] p = "applications" -> ApplicationsPage(d) [] p = "apikeys" -> APIKeysPage(d)
      [] p = "operators" -> OperatorsPage(d) [] p = "roles" -> RolesPage(d)
      [] p = "budgets" -> BudgetsPage(d) [] p = "reservations" -> ReservationsPage(d)

Offer(p, v) ==
    CASE p = "providers" -> ProvidersOffer(v) [] p = "models" -> ModelsOffer(v)
      [] p = "routes" -> RoutesOffer(v) [] p = "plugins" -> PluginsOffer(v)
      [] p = "tenants" -> TenantsOffer(v) [] p = "groups" -> GroupsOffer(v)
      [] p = "applications" -> ApplicationsOffer(v) [] p = "apikeys" -> APIKeysOffer(v)
      [] p = "operators" -> OperatorsOffer(v) [] p = "roles" -> RolesOffer(v)
      [] p = "budgets" -> BudgetsOffer(v) [] p = "reservations" -> ReservationsOffer(v)

Form(p, dlg, v) ==
    CASE p = "providers" -> ProviderForm(dlg) [] p = "models" -> ModelForm(dlg, v)
      [] p = "routes" -> RouteForm(dlg, v) [] p = "plugins" -> PluginForm(dlg)
      [] p = "tenants" -> TenantForm [] p = "groups" -> GroupForm
      [] p = "applications" -> ApplicationForm(v) [] p = "apikeys" -> APIKeyForm(dlg, v)
      [] p = "operators" -> OperatorForm(dlg, v) [] p = "roles" -> RoleForm(dlg)
      [] p = "budgets" -> BudgetForm(dlg) [] p = "reservations" -> ResolveForm(dlg)

Calls(p, a) ==
    CASE p = "providers" -> ProviderCalls(a) [] p = "models" -> ModelCalls(a)
      [] p = "routes" -> RouteCalls(a) [] p = "groups" -> GroupCalls(a)
      [] p = "applications" -> ApplicationCalls(a) [] p = "operators" -> OperatorCalls(a)
      [] p = "roles" -> RoleCalls(a) [] OTHER -> <<a.form>>

Execute(p, s, a, d) ==
    CASE p = "providers" -> ProviderStatement(s, a, d) [] p = "models" -> ModelStatement(s, a, d)
      [] p = "routes" -> RouteStatement(s, a, d) [] p = "plugins" -> PluginStatement(a, d)
      [] p = "tenants" -> TenantStatement(a, d) [] p = "groups" -> GroupStatement(s, a, d)
      [] p = "applications" -> ApplicationStatement(s, a, d) [] p = "apikeys" -> APIKeyStatement(a, d)
      [] p = "operators" -> OperatorStatement(s, a, d) [] p = "roles" -> RoleStatement(s, a, d)
      [] p = "budgets" -> BudgetStatement(a, d) [] p = "reservations" -> ResolveStatement(a, d)

----------------------------------------------------------------------------
(* Server Actions.  "mounted" says that the form that submitted it is still   *)
(* open, "here" that the operator has not left the page since.               *)

Refreshing == [form |-> "refresh"]
Action(p, form, name, body, row) ==
    [form |-> form, name |-> name, body |-> body, row |-> row,
     calls |-> Calls(p, [form |-> form, body |-> body]), ok |-> TRUE, lost |-> FALSE,
     wrote |-> FALSE, mounted |-> TRUE, here |-> TRUE]

Running(t) == queue[t] # <<>> /\ Head(queue[t]) # Refreshing /\ Head(queue[t]).calls # <<>>
Answered(t) == queue[t] # <<>> /\ Head(queue[t]) # Refreshing /\ Head(queue[t]).calls = <<>>
Pending(t, form) == {i \in DOMAIN queue[t] : queue[t][i].form = form}

(* What is queued when the page goes away: its answers reach nobody.         *)
Orphaned(items) ==
    [i \in DOMAIN items |-> IF items[i] = Refreshing THEN items[i]
                            ELSE [items[i] EXCEPT !.mounted = FALSE, !.here = FALSE]]

(* The handler of tab t's action has run some of its statements and not all. *)
Midway(t) == Running(t) /\ Head(queue[t]).calls # Calls(page[t], Head(queue[t]))

Start(t, a) ==
    /\ acts < MaxActs /\ acts' = acts + 1
    /\ queue' = [queue EXCEPT ![t] = Append(@, a)]
    /\ UNCHANGED <<db, page, view, faults, overlap, claimed, unseen, accounted>>

----------------------------------------------------------------------------
(* What the operator does.                                                   *)

Init ==
    /\ \E s \in Seed : page = s.pages /\ db = s.db /\ acts = s.acts
    /\ view = [t \in Tab |-> Render(page[t], db)]
    /\ dialog = [t \in Tab |-> NoDialog]
    /\ queue = [t \in Tab |-> <<>>]
    /\ enabling = [t \in Tab |-> Nil]
    /\ faults = 0
    /\ overlap = FALSE /\ claimed = {} /\ unseen = [t \in Tab |-> FALSE]
    /\ accounted = Stored(db.apikey)

OpenDialog(t) ==
    /\ dialog[t] = NoDialog /\ view[t] # Nil
    /\ acts < MaxActs
    /\ \E x \in Offer(page[t], view[t]) : dialog' = [dialog EXCEPT ![t] = x]
    /\ UNCHANGED <<db, page, view, queue, enabling, acts, faults, overlap, claimed, unseen, accounted>>

\* Mutant: the modal that shows a new key closes like any other.
ClosableAny(dlg) == dlg # NoDialog

(* Escape, the backdrop and the cross do nothing in the modal of a new key.  *)
Closable(dlg) == dlg # NoDialog /\ dlg.form # "reveal"

(* A dialog may be closed while its action runs; the form is then unmounted. *)
CloseDialog(t) ==
    /\ Closable(dialog[t])
    /\ dialog' = [dialog EXCEPT ![t] = NoDialog]
    /\ queue' = [queue EXCEPT ![t] =
          [i \in DOMAIN queue[t] |-> IF queue[t][i].form = dialog[t].form
                                     THEN [queue[t][i] EXCEPT !.mounted = FALSE] ELSE queue[t][i]]]
    /\ UNCHANGED <<db, page, view, enabling, acts, faults, overlap, claimed, unseen, accounted>>

(* The button of the modal that shows a new key.                             *)
SavedKey(t) ==
    /\ dialog[t].form = "reveal"
    /\ accounted' = accounted \cup {dialog[t].name}
    /\ dialog' = [dialog EXCEPT ![t] = NoDialog]
    /\ UNCHANGED <<db, page, view, queue, enabling, acts, faults, overlap, claimed, unseen>>

(* The database assigns the ids: a new row never has the id of another one.  *)
FreshId(t, name) ==
    /\ <<page[t], name>> \notin db.spent
    /\ page[t] = "budgets" =>
          db.budget[name] = Absent /\ \A u \in Tab : \A i \in DOMAIN queue[u] :
             queue[u][i] # Refreshing => queue[u][i].name # name

Submit(t) ==
    /\ dialog[t].form \in {"create", "edit", "resolve"} /\ view[t] # Nil
    /\ ~\E i \in Pending(t, dialog[t].form) : queue[t][i].mounted
    /\ \E f \in Form(page[t], dialog[t], view[t]) :
          /\ dialog[t].form = "create" => FreshId(t, f.name)
          /\ Start(t, Action(page[t], dialog[t].form, f.name, f.body, dialog[t].row))
    /\ UNCHANGED <<dialog, enabling>>

(* The confirm button of a table is disabled while its action runs; each row *)
(* of the roles table has a button of its own.                               *)
Confirm(t) ==
    /\ dialog[t].form \in {"delete", "disable"}
    /\ \A i \in Pending(t, dialog[t].form) :
          queue[t][i].here => page[t] = "roles" /\ queue[t][i].name # dialog[t].name
    /\ Start(t, Action(page[t], dialog[t].form, dialog[t].name, Nil, dialog[t].row))
    /\ UNCHANGED <<dialog, enabling>>

Enable(t) ==
    /\ dialog[t] = NoDialog /\ view[t] # Nil
    /\ \E n \in EnableOffer(page[t], view[t]) \ {enabling[t]} :
          /\ Start(t, Action(page[t], "enable", n, Nil, Nil))
          /\ enabling' = [enabling EXCEPT ![t] = n]
    /\ UNCHANGED dialog

----------------------------------------------------------------------------
(* What the servers do.                                                      *)

Failed(a) == [a EXCEPT !.calls = <<>>, !.ok = FALSE]
After(a, r) ==
    [a EXCEPT !.calls = IF r.ok THEN Tail(@) ELSE <<>>, !.ok = r.ok,
              !.wrote = @ \/ r.db # db \/ r.beside]

(* Without a new key, the reference to the stored one was typed, or put back *)
(* by a form that was opened when the provider had one.                      *)
Claims(t, r) ==
    LET a == Head(queue[t]) IN
    IF page[t] = "providers" /\ a.form # "delete" /\ ~a.body.key /\ r.db # db
       /\ r.db.provider[a.name] = "db"
    THEN {a.name} ELSE {}

Stored1(t, r) ==
    /\ db' = r.db
    /\ claimed' = (claimed \cup Claims(t, r)) \ r.db.key
    /\ overlap' = (overlap \/ (r.db # db /\ \E u \in Tab \ {t} : Midway(u)))
    /\ unseen' = [unseen EXCEPT ![t] = @ \/ (r.db # db /\ Head(queue[t]).here)]

Statement(t) ==
    /\ Running(t)
    /\ LET a == Head(queue[t])
           r == Execute(page[t], Head(a.calls), a, db) IN
       /\ Stored1(t, r)
       /\ queue' = [queue EXCEPT ![t][1] = After(a, r)]
    /\ UNCHANGED <<page, view, dialog, enabling, acts, faults, accounted>>

(* The admin API or its database fails before the next statement ...         *)
FaultBefore(t) ==
    /\ Running(t) /\ faults < MaxFaults /\ faults' = faults + 1
    /\ queue' = [queue EXCEPT ![t][1] = Failed(Head(queue[t]))]
    /\ UNCHANGED <<db, page, view, dialog, enabling, acts, overlap, claimed, unseen, accounted>>

(* ... or the statement is done and its answer lost.                         *)
FaultAfter(t) ==
    /\ Running(t) /\ faults < MaxFaults /\ faults' = faults + 1
    /\ LET a == Head(queue[t])
           r == Execute(page[t], Head(a.calls), a, db) IN
       /\ Stored1(t, r)
       /\ queue' = [queue EXCEPT ![t][1] = [Failed(After(a, r)) EXCEPT !.lost = TRUE]]
    /\ UNCHANGED <<page, view, dialog, enabling, acts, accounted>>

----------------------------------------------------------------------------
(* The answer.  A successful action revalidated its page: the answer carries *)
(* the page as it reads now.  It reaches the page only if that is still the  *)
(* one that submitted.                                                       *)

\* Mutant: the action does not revalidate the page.
RevalidatedNot(t, a) == view[t]

Revalidated(t, a) == IF a.ok /\ a.here THEN Render(page[t], db) ELSE view[t]

(* The handlers written as client functions run whatever is mounted; those   *)
(* in the effect of a form run only while the form is.                       *)
HandlerRuns(t, a) ==
    \/ a.form \in {"delete", "disable", "enable"}
    \/ page[t] \in {"providers", "budgets", "reservations"}
    \/ a.mounted

(* It closes the dialog of its kind, be it the one that submitted or not.    *)
DialogAfter(t, a) ==
    LET closes == a.ok /\ a.here /\ HandlerRuns(t, a) /\ dialog[t].form = a.form
                  /\ (page[t] = "roles" /\ a.form = "delete" => dialog[t].name = a.name) IN
    IF ~closes THEN dialog[t]
    ELSE IF page[t] = "apikeys" /\ a.form = "create" THEN Dialog("reveal", a.name, Nil)
    ELSE NoDialog

(* What follows an answer on the queue: the client's handler refreshes.      *)
Followed(t, a) ==
    IF a.form = "enable" \/ (a.ok /\ HandlerRuns(t, a))
    THEN Append(Tail(queue[t]), Refreshing) ELSE Tail(queue[t])

(* The keys whose plaintext an answer brings to nobody.                      *)
Unshown(t, a, shown) == IF page[t] = "apikeys" /\ a.form = "create" /\ ~shown THEN {a.name} ELSE {}

Answer(t) ==
    /\ Answered(t)
    /\ LET a == Head(queue[t]) IN
       /\ view' = [view EXCEPT ![t] = Revalidated(t, a)]
       /\ dialog' = [dialog EXCEPT ![t] = DialogAfter(t, a)]
       /\ queue' = [queue EXCEPT ![t] = Followed(t, a)]
       /\ enabling' = IF a.form = "enable" /\ a.here THEN [enabling EXCEPT ![t] = Nil] ELSE enabling
       /\ unseen' = [unseen EXCEPT ![t] = @ /\ (a.here => a.ok /\ view'[t] # Render(page[t], db))]
       /\ accounted' = accounted \cup Unshown(t, a, a.ok /\ a.mounted)
    /\ UNCHANGED <<db, page, acts, faults, overlap, claimed>>

(* The notice replaces the page, and with it every form and modal.           *)
Unreadable(t, items) ==
    /\ faults < MaxFaults /\ faults' = faults + 1
    /\ view' = [view EXCEPT ![t] = Nil]
    /\ dialog' = [dialog EXCEPT ![t] = NoDialog]
    /\ enabling' = [enabling EXCEPT ![t] = Nil]
    /\ queue' = [queue EXCEPT ![t] = Orphaned(items)]

(* The key on screen in tab t, which goes with the page.                     *)
Revealed(t) == IF dialog[t].form = "reveal" THEN {dialog[t].name} ELSE {}

(* The action succeeded and the page it revalidated could not be read.       *)
AnswerUnread(t) ==
    /\ Answered(t) /\ Head(queue[t]).ok /\ Head(queue[t]).here
    /\ LET a == [Head(queue[t]) EXCEPT !.mounted = FALSE] IN
       /\ Unreadable(t, Followed(t, a))
       /\ accounted' = accounted \cup Revealed(t) \cup Unshown(t, a, FALSE)
    /\ UNCHANGED <<db, page, acts, overlap, claimed, unseen>>

Refresh(t) ==
    /\ queue[t] # <<>> /\ Head(queue[t]) = Refreshing
    /\ view' = [view EXCEPT ![t] = Render(page[t], db)]
    /\ queue' = [queue EXCEPT ![t] = Tail(@)]
    /\ unseen' = [unseen EXCEPT ![t] = FALSE]
    /\ UNCHANGED <<db, page, dialog, enabling, acts, faults, overlap, claimed, accounted>>

RefreshFails(t) ==
    /\ queue[t] # <<>> /\ Head(queue[t]) = Refreshing
    /\ Unreadable(t, Tail(queue[t]))
    /\ accounted' = accounted \cup Revealed(t)
    /\ UNCHANGED <<db, page, acts, overlap, claimed, unseen>>

(* An answer that this page waits for.                                       *)
Awaited(t) == \E i \in DOMAIN queue[t] : queue[t][i] # Refreshing /\ queue[t][i].here

(* The operator leaves the page and comes back to it: nothing keeps him,     *)
(* neither a running action, which goes on without him, nor a key on screen. *)
Revisit(t) ==
    /\ view[t] # Render(page[t], db) \/ dialog[t].form = "reveal" \/ Awaited(t)
    /\ Awaited(t) => acts < MaxActs
    /\ acts' = IF Awaited(t) THEN acts + 1 ELSE acts
    /\ view' = [view EXCEPT ![t] = Render(page[t], db)]
    /\ dialog' = [dialog EXCEPT ![t] = NoDialog]
    /\ enabling' = [enabling EXCEPT ![t] = Nil]
    /\ queue' = [queue EXCEPT ![t] = Orphaned(@)]
    /\ unseen' = [unseen EXCEPT ![t] = FALSE]
    /\ accounted' = accounted \cup Revealed(t)
    /\ UNCHANGED <<db, page, faults, overlap, claimed>>

Next == \E t \in Tab :
    \/ OpenDialog(t) \/ CloseDialog(t) \/ SavedKey(t)
    \/ Submit(t) \/ Confirm(t) \/ Enable(t)
    \/ Statement(t) \/ FaultBefore(t) \/ FaultAfter(t)
    \/ Answer(t) \/ AnswerUnread(t) \/ Refresh(t) \/ RefreshFails(t) \/ Revisit(t)

Spec == Init /\ [][Next]_vars

----------------------------------------------------------------------------
(* Properties.                                                               *)

(* The tables hold what their columns and the admin API allow: in particular *)
(* a provider saved without a credential has no reference, not an empty one, *)
(* whatever the form sent.                                                   *)
ConsoleTypeOK ==
    /\ db \in Database
    /\ \A t \in Tab : dialog[t].form \in {"edit", "delete", "disable", "resolve"} => dialog[t].row # Absent

(* Models name stored providers and routes name upstreams of their model,    *)
(* unless a handler was overtaken between its check and its write: the delete *)
(* guards and the write checks of crud_provider.go, crud_model.go and        *)
(* crud_route.go hold whatever stale page a form was filled from.            *)
ConsoleReferencesIntact == overlap \/ References(db)

(* Applications, keys and operators never point at a deleted row, overtaken  *)
(* or not: the guard of groups.DELETE is backed by the foreign keys.         *)
TenancyIntact == TenancyReferences(db)

(* A tab at rest shows the last successful write made from its page, also    *)
(* when the form was closed before the answer and its effect never ran; or   *)
(* the notice that the page could not be read.                               *)
PageShowsOwnWrites == \A t \in Tab : queue[t] = <<>> => ~unseen[t] \/ view[t] = Nil

(* The actions whose handlers commit something and can fail afterwards: a    *)
(* provider saved together with a new key, a role's description and its      *)
(* permissions, a row read back for the answer, an operator's sessions.      *)
CommitsEarly(p, a) ==
    \/ p = "providers" /\ a.form \in {"create", "edit"} /\ a.body.key
    \/ p = "roles" /\ a.form = "edit"
    \/ p = "applications" /\ a.form \in {"create", "enable", "disable"}
    \/ p = "operators" /\ a.form \in {"edit", "delete"}

(* An action that answers with an error has stored nothing, unless the answer *)
(* itself was lost.  The handlers of CommitsEarly may have stored the first  *)
(* part, but only when a call failed on the way or another handler got in    *)
(* between: no refusal of theirs comes after a write.                        *)
FailureStoredNothing ==
    \A t \in Tab : Answered(t) =>
        LET a == Head(queue[t]) IN
        ~a.ok /\ ~a.lost /\ a.wrote => CommitsEarly(page[t], a) /\ (overlap \/ faults > 0)

(* Between actions a provider that refers to its stored key has one, unless  *)
(* one of the two writes of a key failed or was overtaken, or the reference  *)
(* was written without a key: typed by hand, or put back by a form opened    *)
(* before the provider was deleted and made again.                           *)
KeyBehindReference ==
    \/ overlap \/ faults > 0 \/ \E t \in Tab : Running(t)
    \/ \A p \in Stored(db.provider) : db.provider[p] = "db" => p \in db.key \cup claimed

(* There is always an operator with the role super-admin, unless two         *)
(* deletions overtook each other: a page that still shows two does not help. *)
(* What the role may do is another matter: its permissions can be edited.    *)
SuperAdminRemains == overlap \/ Supers(db.operator) # {}

(* Whatever two tabs do from whatever stale pages, the database stays sound. *)
(* Its parts: the rows are well formed (ConsoleTypeOK), models, routes,      *)
(* applications, keys and operators refer to what exists, a reference to a   *)
(* stored key that the console made leads to one, and some operator has the  *)
(* role super-admin.  Where the admin API checks and writes in separate      *)
(* statements, the part exempts exactly the executions in which a handler    *)
(* was overtaken in between; the key of a provider also needs both of its    *)
(* writes.                                                                   *)
DatabaseSound ==
    /\ ConsoleTypeOK /\ ConsoleReferencesIntact /\ TenancyIntact
    /\ KeyBehindReference /\ SuperAdminRemains

(* The plaintext of a stored key is on screen, still to be answered, saved by *)
(* the operator, or given up: by closing the form or leaving the page before *)
(* it was shown or saved, by a lost answer, or by a page that could not be   *)
(* read again.  Nothing else takes it off the screen.                        *)
KeysAccounted ==
    Stored(db.apikey) \subseteq accounted
        \cup {dialog[t].name : t \in {u \in Tab : dialog[u].form = "reveal"}}
        \cup UNION {{queue[t][i].name : i \in Pending(t, "create")} : t \in {u \in Tab : page[u] = "apikeys"}}

(* The same price up to the display: a whole number of cents is kept, other  *)
(* prices move by half a cent at most.                                       *)
SameCents(old, new) ==
    IF old % Cent = 0 THEN new = old ELSE new <= old + 5000 /\ old <= new + 5000

(* An upstream of a saved model that the operator did not fill in has the    *)
(* provider of an upstream his form was opened on and that one's own price:  *)
(* rows removed from the form take their prices along, and rows added or     *)
(* refilled leave the others alone (create-form.tsx, row.idx).  The price is *)
(* the displayed one: saving rounds it to the cent.  The action that saves   *)
(* is the one whose queue moves.                                             *)
PricesFollowProviders ==
    [][\A m \in Alias, t \in Tab :
          LET a == Head(queue[t]) IN
          /\ Running(t) /\ queue'[t] # queue[t] /\ page[t] = "models" /\ a.form = "edit" /\ a.name = m
          /\ db'.model[m] # db.model[m] /\ db'.model[m] # Absent
          => \A j \in DOMAIN db'.model[m] \ a.body.typed :
                \E i \in DOMAIN a.row : /\ a.row[i][1] = db'.model[m][j][1]
                                        /\ SameCents(a.row[i][2], db'.model[m][j][2])]_vars

(* A budget or a reservation changes only from the version its form showed.  *)
NoBlindWrite ==
    [][\A u \in Unit :
          /\ db.budget[u] # Absent /\ db'.budget[u] # db.budget[u] =>
                \E t \in Tab : Running(t) /\ page[t] = "budgets" /\ Head(queue[t]).row = db.budget[u]
          /\ db.reservation[u] # Absent /\ db'.reservation[u] # db.reservation[u] =>
                \E t \in Tab : Running(t) /\ page[t] = "reservations"
                               /\ Head(queue[t]).row = db.reservation[u]]_vars

(* Once a key has a group or an application it keeps it, whoever completes   *)
(* its identity from an older page.                                          *)
KeyIdentityFinal ==
    [][\A k \in Unit : db.apikey[k] # Absent =>
          /\ db.apikey[k].group # Nil => db'.apikey[k].group = db.apikey[k].group
          /\ db.apikey[k].app # Nil => db'.apikey[k].app = db.apikey[k].app]_vars

(* An edit changes only what its form showed: prices stay with their         *)
(* provider up to the rounding of the display, budgets and reservations      *)
(* change only from the version the form was filled from, and a completed    *)
(* key identity is never replaced.                                           *)
EditsKeepTheRest == PricesFollowProviders /\ NoBlindWrite /\ KeyIdentityFinal

(* updateProvider: "the form's api_key_ref field may hold a masked value we  *)
(* must not persist".                                                        *)
NoMaskedStored == \A p \in Stored(db.provider) : db.provider[p] # "masked"
=============================================================================
