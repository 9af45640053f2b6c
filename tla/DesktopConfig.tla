--------------------------- MODULE DesktopConfig ---------------------------
(* The configuration editor of the desktop application: the Providers,    *)
(* Models, Routes and Settings pages of desktop-ui over the /api/v1       *)
(* handlers of the desktop gateway, which keep everything in one YAML     *)
(* file and rebuild the dispatcher from it.                               *)
(*                                                                        *)
(* The handlers share no lock: each reads the file, changes its own copy  *)
(* and renames the copy over the file; only the rebuild is serialised.    *)
(* The user may close a dialog or leave a page while its request is still *)
(* running, and may edit the YAML by hand.                                *)
EXTENDS Naturals, FiniteSets

CONSTANTS
    Provider,     \* provider names
    Alias,        \* model aliases
    Cred,         \* credential references a user can store
    Resolvable,   \* the references ResolveSecret can resolve
    Setting,      \* what the Settings form can be saved with: gateway section, trace knobs
    InitSetting,  \* the settings in the file at start
    InitProvider, \* the providers the file has at start, all tuned by hand
    Request,      \* slots for requests in flight (bound)
    Load,         \* slots for page loads in flight (bound)
    MaxWrites,    \* bound: requests the user sends
    MaxHandEdits, \* bound: edits of the YAML outside the application
    Absent, Nil   \* "no entry" and "the file could not be read"

ASSUME ConfigAssumption ==
    /\ Resolvable \subseteq Cred /\ Resolvable # {}
    /\ InitProvider \subseteq Provider /\ InitSetting \in Setting
    /\ Setting \subseteq [gateway : {s.gateway : s \in Setting}, trace : {"on", "off"}]
    /\ MaxWrites \in Nat /\ MaxHandEdits \in Nat

VARIABLES
    file,      \* the YAML: does it parse, its dynamic part, its gateway section
    live,      \* the configuration the current dispatcher was built from
    req,       \* the requests in flight, by slot
    page, view, loading, loads, dialog,   \* the mounted page
    writes, handEdits,                    \* bounds
    unread,    \* history: a hand edit no build has read yet
    overlap,   \* history: two writes have been in flight together
    recreated, \* history: providers some create request stored
    typed      \* history: credentials the user gave to each provider

server == <<file, live>>
history == <<unread, overlap, recreated, typed>>
vars == <<file, live, req, page, view, loading, loads, dialog,
          writes, handEdits, unread, overlap, recreated, typed>>

----------------------------------------------------------------------------
(* The stored configuration *)

(* A provider's entry: its credential, and the timeouts and weight that the *)
(* form does not show.  The timeouts an endpoint may have of its own are    *)
(* left out: every save drops them, and nothing here says they survive.     *)
Entry == [cred : Cred, hidden : {"tuned", "default"}]
Config == [provider : [Provider -> Entry \cup {Absent}],
           model : [Alias -> SUBSET Provider],
           route : [Alias -> SUBSET Provider],
           trace : {"on", "off"}]

(* No entry is the missing one, no configuration is that of an unreadable file. *)
ASSUME SentinelAssumption == Absent \notin Entry /\ Nil \notin Config

EmptyConfig == [provider |-> [p \in Provider |-> Absent],
                model |-> [a \in Alias |-> {}],
                route |-> [a \in Alias |-> {}],
                trace |-> "off"]

Known(c) == {p \in Provider : c.provider[p] # Absent}
Models(c) == {a \in Alias : c.model[a] # {}}
Routes(c) == {a \in Alias : c.route[a] # {}}

(* BuildDispatcher fails only when a provider's secret cannot be resolved. *)
Buildable(c) == \A p \in Known(c) : c.provider[p].cred \in Resolvable

(* What the watcher's source returns, and what rebuild makes of it: a file *)
(* that cannot be read is nil, and nil is the empty configuration.         *)
Source == IF file.ok THEN file.cfg ELSE Nil
Effective(c) == IF c = Nil THEN EmptyConfig ELSE c

----------------------------------------------------------------------------
(* Requests *)

Idle == [stage |-> "idle"]
Busy(r) == req[r].stage # "idle"
InFlight == {r \in Request : Busy(r)}
Owned(o) == \E r \in Request : Busy(r) /\ req[r].owner = o

(* "same" is history: the form showed the entry the file has and nothing was *)
(* typed into its key field.                                                 *)
NewRequest(verb, kind, name, body, owner, same) ==
    [verb |-> verb, kind |-> kind, name |-> name, body |-> body, same |-> same,
     owner |-> owner, ok |-> FALSE, copy |-> Nil, gw |-> Nil, read |-> Nil,
     stage |-> CASE verb = "reload" -> "build"
                 [] kind \in {"model", "route"} /\ verb \in {"create", "update"} -> "validate"
                 [] OTHER -> "load"]

SendForm(verb, kind, name, body, owner, same) ==
    /\ writes < MaxWrites
    /\ \E r \in Request :
         /\ ~Busy(r)
         /\ req' = [req EXCEPT ![r] = NewRequest(verb, kind, name, body, owner, same)]
    /\ writes' = writes + 1
    /\ overlap' = (overlap \/ (InFlight # {} /\ verb # "reload"))
Send(verb, kind, name, body, owner) == SendForm(verb, kind, name, body, owner, FALSE)

\* Mutant: the delete handler only looks at the routes.
UnreferencedByRoutes(p, c) == \A a \in Alias : p \notin c.route[a]

(* handleDeleteProvider: no model upstream and no route names the provider. *)
Unreferenced(p, c) == \A a \in Alias : p \notin c.model[a] \cup c.route[a]

(* The check a handler makes on the copy it has read, and its change to it. *)
Accepts(q, c) ==
    CASE q.kind = "settings" -> TRUE
      [] q.kind = "provider" /\ q.verb = "create" -> q.name \notin Known(c)
      [] q.kind = "provider" /\ q.verb = "update" -> q.name \in Known(c)
      [] q.kind = "provider" /\ q.verb = "delete" ->
            q.name \in Known(c) /\ Unreferenced(q.name, c)
      [] q.kind = "model" /\ q.verb = "create" -> q.name \notin Models(c)
      [] q.kind = "model" /\ q.verb = "update" -> q.name \in Models(c)
      [] q.kind = "model" /\ q.verb = "delete" ->
            q.name \in Models(c) /\ q.name \notin Routes(c)
      [] q.kind = "route" /\ q.verb = "create" -> q.name \notin Routes(c)
      [] q.kind = "route" /\ q.verb # "create" -> q.name \in Routes(c)

Apply(q, c) ==
    CASE q.kind = "settings" -> [c EXCEPT !.trace = q.body.trace]
      [] q.kind = "provider" ->
            [c EXCEPT !.provider[q.name] = IF q.verb = "delete" THEN Absent ELSE q.body]
      [] q.kind = "model" ->
            [c EXCEPT !.model[q.name] = IF q.verb = "delete" THEN {} ELSE q.body]
      [] q.kind = "route" ->
            [c EXCEPT !.route[q.name] = IF q.verb = "delete" THEN {} ELSE q.body]

----------------------------------------------------------------------------
(* The handlers *)

ui == <<page, view, loading, loads, dialog>>
Advance(r, q) == req' = [req EXCEPT ![r] = q]

(* What a handler no longer needs is dropped from its record. *)
Forget(q, stage) ==
    [q EXCEPT !.stage = stage, !.name = Nil, !.body = Nil, !.same = FALSE,
              !.copy = Nil, !.gw = Nil, !.read = Nil]
Refuse(r) == Advance(r, Forget(req[r], "answer"))

(* validateModelUpstreams, validateRouteProviders: a read of their own *)
Validate(r) ==
    /\ req[r].stage = "validate"
    /\ IF file.ok /\ req[r].body \subseteq Known(file.cfg)
         THEN Advance(r, [req[r] EXCEPT !.stage = "load"])
         ELSE Refuse(r)
    /\ UNCHANGED <<server, ui, history, writes, handEdits>>

(* loadConfig, the handler's check and its change to the copy *)
LoadConfig(r) ==
    /\ req[r].stage = "load"
    /\ IF file.ok /\ Accepts(req[r], file.cfg)
         THEN LET q == [req[r] EXCEPT !.copy = Apply(req[r], file.cfg)]
              IN  Advance(r, IF q.kind = "settings"
                               THEN [q EXCEPT !.gw = q.body.gateway, !.stage = "rename"]
                               ELSE [q EXCEPT !.stage = "gateway"])
         ELSE Refuse(r)
    /\ UNCHANGED <<server, ui, history, writes, handEdits>>

\* Mutant: the section is the one read at startup.
ReadGatewayCached(r) ==
    /\ req[r].stage = "gateway"
    /\ Advance(r, [req[r] EXCEPT !.gw = InitSetting.gateway, !.stage = "rename"])
    /\ UNCHANGED <<server, ui, history, writes, handEdits>>

(* SaveFile without an override takes the gateway section from the file *)
ReadGateway(r) ==
    /\ req[r].stage = "gateway"
    /\ IF file.ok
         THEN Advance(r, [req[r] EXCEPT !.gw = file.gateway, !.stage = "rename"])
         ELSE Refuse(r)
    /\ UNCHANGED <<server, ui, history, writes, handEdits>>

(* ... and renames the new file over the old one *)
Rename(r) ==
    /\ req[r].stage = "rename"
    /\ file' = [ok |-> TRUE, cfg |-> req[r].copy, gateway |-> req[r].gw]
    /\ Advance(r, Forget(req[r], "build"))
    /\ recreated' = IF req[r].kind = "provider" /\ req[r].verb = "create"
                      THEN recreated \cup {req[r].name} ELSE recreated
    /\ UNCHANGED <<live, ui, unread, overlap, typed, writes, handEdits>>

\* Mutant: rebuild without its mutex.
UnlockedAlways == TRUE

(* rebuild holds its mutex from the read of the source to the swap. *)
Unlocked == \A o \in Request : req[o].stage # "swap"

BuildRead(r) ==
    /\ req[r].stage = "build"
    /\ Unlocked
    /\ Advance(r, [req[r] EXCEPT !.read = Source, !.stage = "swap"])
    /\ unread' = FALSE
    /\ UNCHANGED <<server, ui, overlap, recreated, typed, writes, handEdits>>

(* A failed build keeps the last good dispatcher; a write is acknowledged *)
(* all the same, with a warning, while a reload is answered with an error.*)
Swap(r) ==
    /\ req[r].stage = "swap"
    /\ LET c == Effective(req[r].read) IN
         /\ live' = IF Buildable(c) THEN c ELSE live
         /\ Advance(r, [Forget(req[r], "answer")
                          EXCEPT !.ok = (req[r].verb # "reload" \/ Buildable(c))])
    /\ UNCHANGED <<file, ui, history, writes, handEdits>>

----------------------------------------------------------------------------
(* The mounted page.  Every list call of a load is a request of its own;   *)
(* Promise.all waits for all of them or fails with the first.              *)

Page == {"provider", "model", "route", "settings", "other"}

ProvidersLoad == {"provider"}
ModelsLoad == {"model", "provider"}
RoutesLoad == {"route", "model", "provider"}
SettingsLoad == {"trace"}

Sections(p) == CASE p = "provider" -> ProvidersLoad
                 [] p = "model" -> ModelsLoad
                 [] p = "route" -> RoutesLoad
                 [] p = "settings" -> SettingsLoad
                 [] p = "other" -> {}

NoDialog == [kind |-> "none"]
NoLoad == [on |-> FALSE]
NewLoad(p) == [on |-> TRUE, bad |-> FALSE, todo |-> Sections(p), got |-> EmptyConfig]

(* While loading, the page shows a skeleton in place of everything else, so *)
(* the form and the confirm dialog lose their state; the page keeps its.    *)
Detached(o) ==
    [r \in Request |->
        IF req[r].stage # "idle" /\ req[r].owner \in {"form", "confirm"}
          THEN [req[r] EXCEPT !.owner = o] ELSE req[r]]

(* Following a link unmounts the page: nothing it awaits can touch the UI.  *)
Navigate(p) ==
    /\ p # page
    /\ page' = p
    /\ view' = EmptyConfig
    /\ loading' = (Sections(p) # {})
    /\ loads' = LET first == CHOOSE l \in Load : TRUE IN
                  [l \in Load |-> IF l = first /\ Sections(p) # {} THEN NewLoad(p) ELSE NoLoad]
    /\ dialog' = NoDialog
    /\ req' = [r \in Request |-> IF Busy(r) THEN [req[r] EXCEPT !.owner = "none"] ELSE req[r]]
    /\ UNCHANGED <<server, history, writes, handEdits>>

(* One list call: the handler reads the file, or answers 500. *)
ReadList(l) ==
    /\ loads[l].on /\ ~loads[l].bad
    /\ \E s \in loads[l].todo :
         loads' = [loads EXCEPT ![l] =
            IF file.ok
              THEN [loads[l] EXCEPT !.todo = @ \ {s}, !.got[s] = file.cfg[s]]
              ELSE [loads[l] EXCEPT !.bad = TRUE]]
    /\ UNCHANGED <<server, req, page, view, loading, dialog, history, writes, handEdits>>

(* The load settles: rows or the error, and the skeleton goes in both cases *)
FinishLoad(l) ==
    /\ loads[l].on /\ (loads[l].bad \/ loads[l].todo = {})
    /\ view' = IF loads[l].bad THEN view ELSE loads[l].got
    /\ loading' = FALSE
    /\ loads' = [loads EXCEPT ![l] = NoLoad]
    /\ UNCHANGED <<server, req, page, dialog, history, writes, handEdits>>

----------------------------------------------------------------------------
(* What the pages offer.  An open dialog covers the page behind it. *)

Clickable == ~loading /\ dialog = NoDialog

ProvidersOffer ==
    {[kind |-> "create"]}
      \cup [kind : {"edit"}, name : Known(view)]
      \cup [kind : {"delete"}, name : Known(view)]
ModelsOffer ==
    {d \in {[kind |-> "create"]} : Known(view) # {}}
      \cup [kind : {"edit"}, name : Models(view)]
      \cup [kind : {"delete"}, name : Models(view)]
RoutesOffer ==
    {d \in {[kind |-> "create"]} : Models(view) # {}}
      \cup [kind : {"edit"}, name : Routes(view)]
      \cup [kind : {"delete"}, name : Routes(view)]
      \cup [kind : {"detail"}, name : Routes(view)]

(* The edit dialog keeps the row as the table had it when it was opened. *)
OpenDialog ==
    /\ Clickable
    /\ \E d \in CASE page = "provider" -> ProvidersOffer
                  [] page = "model" -> ModelsOffer
                  [] page = "route" -> RoutesOffer
                  [] OTHER -> {} :
         dialog' = IF d.kind = "edit"
                     THEN [kind |-> "edit", name |-> d.name, row |-> view[page][d.name]]
                     ELSE d
    /\ UNCHANGED <<server, req, page, view, loading, loads, history, writes, handEdits>>

(* Escape, the backdrop and the X close a dialog even while it is pending.  *)
(* The form unmounts with it; the confirm dialog only hides.                *)
CloseDialog ==
    /\ ~loading /\ dialog # NoDialog
    /\ dialog' = NoDialog
    /\ req' = [r \in Request |-> IF Busy(r) /\ req[r].owner = "form"
                                  THEN [req[r] EXCEPT !.owner = "page"] ELSE req[r]]
    /\ UNCHANGED <<server, page, view, loading, loads, history, writes, handEdits>>

\* Mutant: every save sends the default timeouts and weight.
ProviderBodyDefaults(c) ==
    [cred |-> IF c = Nil THEN dialog.row.cred ELSE c, hidden |-> "default"]
(* ProviderForm.onSubmit: a blank key on edit sends the row's reference     *)
(* again, as old as the row is; timeouts and weight are the row's, or the   *)
(* defaults for a new provider.                                             *)
Blank == Nil
ProviderBody(c) ==
    IF dialog.kind = "create" THEN [cred |-> c, hidden |-> "default"]
    ELSE [cred |-> IF c = Blank THEN dialog.row.cred ELSE c, hidden |-> dialog.row.hidden]

SubmitProvider ==
    /\ page = "provider"
    /\ \E c \in Cred \cup {Blank}, n \in Provider :
         /\ IF dialog.kind = "create" THEN c # Blank ELSE n = dialog.name
         /\ SendForm(IF dialog.kind = "create" THEN "create" ELSE "update",
                     "provider", n, ProviderBody(c), "form",
                     c = Blank /\ dialog.row = file.cfg.provider[n])
         /\ typed' = IF c = Blank THEN typed ELSE [typed EXCEPT ![n] = @ \cup {c}]

(* The ModelForm: an upstream's provider is chosen from the provider list   *)
(* the page holds, or is already in the row; the alias of a row is fixed.   *)
ModelFormChoices ==
    IF dialog.kind = "create" THEN [name : Alias, rows : SUBSET Known(view)]
    ELSE [name : {dialog.name}, rows : SUBSET (Known(view) \cup dialog.row)]

(* ModelForm.onSubmit: at least one upstream *)
SubmitModel ==
    /\ page = "model"
    /\ \E f \in ModelFormChoices :
         /\ f.rows # {}
         /\ Send(IF dialog.kind = "create" THEN "create" ELSE "update",
                 "model", f.name, f.rows, "form")
    /\ UNCHANGED typed

(* allowedProviders: those of the selected model's upstreams *)
AllowedProviders(a) ==
    IF a \in Models(view) THEN Known(view) \cap view.model[a] ELSE Known(view)

(* The RouteForm: rows chosen before the model was, or under another one,   *)
(* are kept, so a new route may name every provider of the list.            *)
RouteFormChoices ==
    IF dialog.kind = "create" THEN [name : Models(view), rows : SUBSET Known(view)]
    ELSE [name : {dialog.name},
          rows : SUBSET (dialog.row \cup AllowedProviders(dialog.name))]

(* RouteForm.onSubmit: at least one candidate *)
SubmitRoute ==
    /\ page = "route"
    /\ \E f \in RouteFormChoices :
         /\ f.rows # {}
         /\ Send(IF dialog.kind = "create" THEN "create" ELSE "update",
                 "route", f.name, f.rows, "form")
    /\ UNCHANGED typed

Submit ==
    /\ ~loading /\ dialog.kind \in {"create", "edit"}
    /\ ~Owned("form")
    /\ SubmitProvider \/ SubmitModel \/ SubmitRoute
    /\ UNCHANGED <<server, ui, handEdits, unread, recreated>>

(* ConfirmModal.handleConfirm *)
Confirm ==
    /\ ~loading /\ dialog.kind = "delete"
    /\ ~Owned("confirm")
    /\ Send("delete", page, dialog.name, Nil, "confirm")
    /\ UNCHANGED <<server, ui, handEdits, unread, recreated, typed>>

(* Settings.onSave *)
SaveSettings ==
    /\ page = "settings" /\ ~loading
    /\ ~Owned("form")
    /\ \E s \in Setting : Send("update", "settings", Nil, s, "form")
    /\ UNCHANGED <<server, ui, handEdits, unread, recreated, typed>>

(* Ctrl+R and the sidebar's reload button work on every page. *)
Reload ==
    /\ Send("reload", Nil, Nil, Nil, "none")
    /\ UNCHANGED <<server, ui, handEdits, unread, recreated, typed>>

(* The answer arrives.  A success closes the dialog of its kind, whichever  *)
(* entry that dialog is showing by now, and loads the page again.           *)
Closes(verb) == CASE verb = "create" -> "create" [] verb = "update" -> "edit" [] OTHER -> "delete"

Answer(r) ==
    /\ req[r].stage = "answer"
    /\ IF req[r].ok /\ req[r].owner # "none" /\ req[r].kind # "settings"
         THEN /\ \E l \in Load :
                   /\ ~loads[l].on
                   /\ loads' = [loads EXCEPT ![l] = NewLoad(page)]
              /\ dialog' = IF dialog.kind = Closes(req[r].verb) THEN NoDialog ELSE dialog
              /\ loading' = TRUE
              /\ req' = [Detached("page") EXCEPT ![r] = Idle]
         ELSE /\ req' = [req EXCEPT ![r] = Idle]
              /\ UNCHANGED <<loads, dialog, loading>>
    /\ UNCHANGED <<server, page, view, history, writes, handEdits>>

(* The user breaks the YAML in an editor, or repairs it. *)
HandEdit ==
    /\ handEdits < MaxHandEdits
    /\ file' = [file EXCEPT !.ok = ~@]
    /\ unread' = TRUE
    /\ handEdits' = handEdits + 1
    /\ UNCHANGED <<live, req, ui, writes, overlap, recreated, typed>>

----------------------------------------------------------------------------
Init ==
    /\ \E c \in Resolvable :
         LET first == [provider |-> [p \in Provider |->
                                       IF p \in InitProvider
                                         THEN [cred |-> c, hidden |-> "tuned"] ELSE Absent],
                       model |-> [a \in Alias |-> InitProvider],
                       route |-> [a \in Alias |-> {}],
                       trace |-> InitSetting.trace]
         IN  /\ file = [ok |-> TRUE, cfg |-> first, gateway |-> InitSetting.gateway]
             /\ live = first
             /\ typed = [p \in Provider |-> IF p \in InitProvider THEN {c} ELSE {}]
    /\ req = [r \in Request |-> Idle]
    /\ page = "other" /\ view = EmptyConfig /\ loading = FALSE
    /\ loads = [l \in Load |-> NoLoad] /\ dialog = NoDialog
    /\ writes = 0 /\ handEdits = 0
    /\ unread = FALSE /\ overlap = FALSE /\ recreated = {}

Serve(r) == Validate(r) \/ LoadConfig(r) \/ ReadGateway(r) \/ Rename(r)
              \/ BuildRead(r) \/ Swap(r) \/ Answer(r)
Fetch(l) == ReadList(l) \/ FinishLoad(l)

Next ==
    \/ \E r \in Request : Serve(r)
    \/ \E l \in Load : Fetch(l)
    \/ \E p \in Page : Navigate(p)
    \/ OpenDialog \/ CloseDialog \/ Submit \/ Confirm \/ SaveSettings \/ Reload
    \/ HandEdit

(* The gateway and the network make progress; the user need not. *)
Spec == /\ Init /\ [][Next]_vars
        /\ \A r \in Request : WF_vars(Serve(r))
        /\ \A l \in Load : WF_vars(Fetch(l))

----------------------------------------------------------------------------
(* Properties *)

(* When no write is between its rename and its build, and no hand edit is     *)
(* still unread, the gateway runs what the file says, or the file cannot be   *)
(* built: concurrent rebuilds never leave an older file live (rebuild's       *)
(* mutex, saveConfigAndReload).                                               *)
LiveNotBehind ==
    (~unread /\ \A r \in Request : req[r].stage \notin {"build", "swap"})
      => live = Effective(Source) \/ ~Buildable(Effective(Source))

(* Editing a provider loses nothing the form does not show: whatever rows     *)
(* were saved in whatever order, the provider's own timeouts and weight set   *)
(* in the YAML are still there, and its credential is one the user gave to    *)
(* this provider.  Which one: a save of the entry the file has, with the key  *)
(* left blank, keeps the stored credential unless another write overlapped    *)
(* it.  A save of an older row puts that row's credential back, and every     *)
(* save drops the timeouts of the endpoints: neither is excluded.             *)
EntriesKept ==
    \A p \in Known(file.cfg) :
        /\ file.cfg.provider[p].cred \in typed[p]
        /\ p \in InitProvider \ recreated => file.cfg.provider[p].hidden = "tuned"
BlankKeeps(r) ==
    (req[r].stage = "rename" /\ req'[r].stage = "build" /\ req[r].same /\ ~overlap)
      => file'.cfg.provider[req[r].name] = file.cfg.provider[req[r].name]
UntouchedFieldsKept == [][EntriesKept' /\ \A r \in Request : BlankKeeps(r)]_vars

(* As long as no two writes overlapped, every provider a model or a route     *)
(* names is in the file: the checks of create, update and delete leave no gap.*)
ReferencesIntact ==
    ~overlap => \A a \in Alias :
        file.cfg.model[a] \cup file.cfg.route[a] \subseteq Known(file.cfg)

(* A write that only touches providers, models or routes leaves the gateway   *)
(* section and the trace settings as they are, unless it overlapped another.  *)
CrudKeepsSettings ==
    [][\A r \in Request :
         (req[r].stage = "rename" /\ req'[r].stage = "build" /\ ~overlap
            /\ req[r].kind # "settings")
           => file'.gateway = file.gateway /\ file'.cfg.trace = file.cfg.trace]_vars

(* cmd/desktop/config/load.go: after a read error the watcher "keeps the      *)
(* last-good dispatcher".                                                     *)
LastGoodKept ==
    [][\A r \in Request :
         (req[r].stage = "swap" /\ req'[r].stage = "answer" /\ req[r].read = Nil)
           => live' = live]_vars
=============================================================================
