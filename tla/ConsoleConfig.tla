--------------------------- MODULE ConsoleConfig ---------------------------
(* The global configuration pages of the web console: Providers, Models,    *)
(* Routes and Plugins.  For each page: what it reads, which buttons it      *)
(* offers, what its forms can submit, and what the admin handlers do with a *)
(* Server Action, statement by statement.  Console runs them.               *)
EXTENDS Naturals, Sequences, SequencesExt, FiniteSets

CONSTANTS
    Provider,   \* provider names
    Alias,      \* model aliases
    Scope,      \* scopes of the one plugin there is
    Num,        \* prices in micro-units, weights, limits and settings; 0 is left empty
    Typed,      \* those a user enters
    MaxRows,    \* rows a form may hold
    Absent, Nil

(* Prices are displayed with two decimals, rounded half up: to the cent.    *)
Cent == 10000
Displayed(x) == ((x + 5000) \div Cent) * Cent

ASSUME ConsoleConfigAssumption ==
    /\ 0 \in Num /\ Num \subseteq Nat /\ \A x \in Num : Displayed(x) \in Num
    /\ Typed \subseteq Num
    /\ Absent # Nil /\ MaxRows \in Nat

----------------------------------------------------------------------------
(* What is stored.  An upstream or route entry pairs a provider with its    *)
(* price or weight; 0 is "not given".  An upstream has two prices, and they *)
(* are handled alike: one stands for both.  Its currency is always USD.     *)

Entries == UNION {[1..n -> Provider \X Num] : n \in 0..MaxRows}
Names(s) == {s[i][1] : i \in DOMAIN s}

(* "db" stands for db://provider/<name>, "env" for any other reference,     *)
(* "masked" for what maskAPIKeyRef makes of it.                             *)
Reference == {"none", "env", "db", "masked"}

Stored(table) == {n \in DOMAIN table : table[n] # Absent}

----------------------------------------------------------------------------
(* Reading: the GET handlers, as the page's server component calls them.    *)

maskAPIKeyRef(ref) == IF ref = "env" THEN "masked" ELSE ref

ProvidersPage(d) ==
    [rows |-> [p \in Provider |-> IF d.provider[p] = Absent THEN Absent
                                  ELSE maskAPIKeyRef(d.provider[p])],
     providers |-> {}, models |-> Nil]
ModelsPage(d) ==
    [rows |-> d.model, providers |-> Stored(d.provider), models |-> Nil]
RoutesPage(d) ==
    [rows |-> d.route, providers |-> Stored(d.provider), models |-> d.model]
PluginsPage(d) ==
    [rows |-> d.plugin, providers |-> {}, models |-> Nil]

----------------------------------------------------------------------------
(* The buttons a page offers: the dialogs they open.  A dialog keeps the    *)
(* row it was opened on, not its name alone.                                *)

Dialog(form, name, row) == [form |-> form, name |-> name, row |-> row]
NoDialog == Dialog("none", Nil, Nil)
RowDialogs(form, v) == {Dialog(form, n, v.rows[n]) : n \in Stored(v.rows)}

ProvidersOffer(v) ==
    {Dialog("create", Nil, Nil)} \cup RowDialogs("edit", v) \cup RowDialogs("delete", v)
ModelsOffer(v) ==
    (IF v.providers # {} THEN {Dialog("create", Nil, Nil)} ELSE {})
    \cup RowDialogs("edit", v) \cup RowDialogs("delete", v)
RoutesOffer(v) ==
    (IF Stored(v.models) # {} THEN {Dialog("create", Nil, Nil)} ELSE {})
    \cup RowDialogs("edit", v) \cup RowDialogs("delete", v)
PluginsOffer(v) ==
    {Dialog("create", Nil, Nil)} \cup RowDialogs("edit", v) \cup RowDialogs("delete", v)

----------------------------------------------------------------------------
(* The forms: the bodies a user can submit from a dialog.  "ref" and "key"  *)
(* are what FormData holds: "" is an empty or an unrendered input.          *)

(* One of two inputs, never both: a key, or a reference that starts as the  *)
(* row's own and is left, cleared or replaced by any text, also by that of  *)
(* a reference to a stored key.                                             *)
CredChoices(row) ==
    {[ref |-> r, key |-> FALSE] : r \in {"", "env", "db"}} \cup {[ref |-> "", key |-> TRUE]}
    \cup (IF row \in {Nil, "none"} THEN {} ELSE {[ref |-> row, key |-> FALSE]})

ProviderForm(dlg) ==
    {[name |-> p, body |-> c] :
        p \in IF dlg.form = "edit" THEN {dlg.name} ELSE Provider, c \in CredChoices(dlg.row)}

\* Mutant: the remaining rows are filled from their position.
RemoveUpstreamRowByPosition(s, i) ==
    [j \in 1..(Len(s) - 1) |-> <<RemoveAt(s, i)[j][1], s[j][2]>>]

(* A removed row takes its own price along: every remaining row keeps the   *)
(* index it was filled from.                                                *)
RemoveUpstreamRow(s, i) == RemoveAt(s, i)

(* Nothing keeps the user from adding a provider twice.                      *)
AddRow(s, options) ==
    IF Len(s) = MaxRows THEN {} ELSE {Append(s, <<p, x>>) : p \in options, x \in Typed}

(* Opening the form puts the displayed prices into its inputs, and saving it *)
(* sends them whether they were touched or not.                              *)
Prefilled(s) == [i \in DOMAIN s |-> <<s[i][1], Displayed(s[i][2])>>]

(* What is submitted: the rows, and those the user filled in: an added row,  *)
(* or one given another provider or another price in place.  The last is     *)
(* history, read by the properties only.                                     *)
Upstreams(rows, typed) == [rows |-> rows, typed |-> typed]

RowEdits(s, i, options) ==
    {Upstreams(RemoveUpstreamRow(s, i), {})}
    \cup {Upstreams([s EXCEPT ![i] = <<p, s[i][2]>>], {i}) : p \in options}
    \cup {Upstreams([s EXCEPT ![i] = <<s[i][1], x>>], {i}) : x \in Typed}

UpstreamForm(stored, options) ==
    LET s == Prefilled(stored) IN
    {Upstreams(s, {})} \cup {Upstreams(u, {Len(u)}) : u \in AddRow(s, options)}
    \cup UNION {RowEdits(s, i, options) : i \in DOMAIN s}

ModelForm(dlg, v) ==
    {[name |-> a, body |-> u] :
        a \in IF dlg.form = "edit" THEN {dlg.name} ELSE Alias,
        u \in UpstreamForm(IF dlg.form = "edit" THEN dlg.row ELSE <<>>, v.providers)}

(* The weight inputs of a route take their default by position.  An input    *)
(* that was filled keeps its text when its default changes; an empty one     *)
(* shows the new default, the weight of the row that used to stand there.    *)
RemoveRouteRow(s, i) ==
    LET rest == RemoveAt(s, i) IN
    [j \in DOMAIN rest |-> <<rest[j][1], IF rest[j][2] # 0 THEN rest[j][2] ELSE s[j][2]>>]

allowedProviders(alias, v) ==
    IF v.models[alias] = Absent THEN v.providers
    ELSE v.providers \cap Names(v.models[alias])

RouteForm(dlg, v) ==
    LET start == IF dlg.form = "edit" THEN dlg.row ELSE <<>> IN
    UNION {{[name |-> a, body |-> r] :
              r \in {start} \cup AddRow(start, allowedProviders(a, v))
                    \cup {RemoveRouteRow(start, i) : i \in DOMAIN start}} :
           a \in IF dlg.form = "edit" THEN {dlg.name} ELSE Stored(v.models)}

(* The scope is part of the identity and stays an editable input.           *)
PluginForm(dlg) == {[name |-> s, body |-> x] : s \in Scope, x \in Typed}

----------------------------------------------------------------------------
(* The admin handlers.  A handler is a list of statements, each of its own  *)
(* transaction; a statement answers [ok, db, beside], the last when it has  *)
(* written a column that is not modelled.                                   *)

Result(ok, d) == [ok |-> ok, db |-> d, beside |-> FALSE]
Refused(d) == Result(FALSE, d)
Done(d) == Result(TRUE, d)
Beside(d) == [ok |-> TRUE, db |-> d, beside |-> TRUE]

ProviderCalls(a) ==
    CASE a.form = "create" -> IF a.body.key THEN <<"upsert", "persist">> ELSE <<"upsert">>
      [] a.form = "edit" -> IF a.body.key THEN <<"patch", "persist", "get", "put">> ELSE <<"patch">>
      [] a.form = "delete" -> <<"guard", "delete">>

(* createProvider: a submitted key wins over the reference.                  *)
ProviderBody(a) ==
    IF a.body.key THEN "db" ELSE IF a.body.ref = "" THEN "none" ELSE a.body.ref

ProviderReferencedBy(p, d) ==
    {m \in Stored(d.model) : p \in Names(d.model[m])}
    \cup {m \in Stored(d.route) : p \in Names(d.route[m])}

ProviderStatement(s, a, d) ==
    LET p == a.name row == d.provider[a.name] IN
    CASE s = "upsert" -> Done([d EXCEPT !.provider[p] = ProviderBody(a)])
      [] s = "patch" ->
            IF row = Absent THEN Refused(d)
            ELSE Done([d EXCEPT !.provider[p] = IF a.body.key \/ a.body.ref = "" THEN @ ELSE a.body.ref])
      [] s = "persist" -> IF row = Absent THEN Refused(d) ELSE Done([d EXCEPT !.key = @ \cup {p}])
      [] s = "get" -> IF row = Absent THEN Refused(d) ELSE Done(d)
      [] s = "put" -> Done([d EXCEPT !.provider[p] = "db"])
      [] s = "guard" -> Result(ProviderReferencedBy(p, d) = {}, d)
      [] s = "delete" -> Done([d EXCEPT !.provider[p] = Absent, !.key = @ \ {p}])

\* Mutant: the write comes before its checks.
ModelCallsWriteFirst(a) == <<IF a.form = "delete" THEN "delete" ELSE "write", "guard">>

ModelCalls(a) == <<"guard", IF a.form = "delete" THEN "delete" ELSE "write">>

\* Mutant: the orphan check of the model handlers is dropped.
ModelAcceptedUnchecked(a, d) ==
    IF a.form = "delete" THEN d.route[a.name] = Absent ELSE Names(a.body.rows) \subseteq Stored(d.provider)

(* Known providers only, and no route may lose one of its providers.        *)
ModelAccepted(a, d) ==
    IF a.form = "delete" THEN d.route[a.name] = Absent
    ELSE /\ a.form = "edit" => d.model[a.name] # Absent
         /\ Names(a.body.rows) \subseteq Stored(d.provider)
         /\ d.route[a.name] # Absent => Names(d.route[a.name]) \subseteq Names(a.body.rows)

ModelStatement(s, a, d) ==
    CASE s = "guard" -> Result(ModelAccepted(a, d), d)
      [] s = "delete" -> Done([d EXCEPT !.model[a.name] = Absent])
      [] s = "write" ->
            IF a.form = "edit" /\ d.model[a.name] = Absent THEN Refused(d)
            ELSE Done([d EXCEPT !.model[a.name] = a.body.rows])

RouteCalls(a) == IF a.form = "delete" THEN <<"delete">> ELSE <<"guard", "write">>

RouteAccepted(a, d) ==
    /\ a.form = "edit" => d.route[a.name] # Absent
    /\ Names(a.body) \subseteq Stored(d.provider)
    /\ d.model[a.name] # Absent /\ Names(a.body) \subseteq Names(d.model[a.name])

RouteStatement(s, a, d) ==
    CASE s = "guard" -> Result(RouteAccepted(a, d), d)
      [] s = "delete" -> Done([d EXCEPT !.route[a.name] = Absent])
      [] s = "write" ->
            IF a.form = "edit" /\ d.route[a.name] = Absent THEN Refused(d)
            ELSE Done([d EXCEPT !.route[a.name] = a.body])

PluginStatement(a, d) ==
    CASE a.form = "create" -> Done([d EXCEPT !.plugin[a.name] = a.body])
      [] a.form = "edit" -> IF d.plugin[a.name] = Absent THEN Refused(d)
                            ELSE Done([d EXCEPT !.plugin[a.name] = a.body])
      [] a.form = "delete" -> Done([d EXCEPT !.plugin[a.name] = Absent])

----------------------------------------------------------------------------
(* What the guards are for.                                                 *)
References(d) ==
    /\ \A m \in Stored(d.model) : Names(d.model[m]) \subseteq Stored(d.provider)
    /\ \A m \in Stored(d.route) : d.model[m] # Absent /\ Names(d.route[m]) \subseteq Names(d.model[m])
=============================================================================
