------------------------ MODULE DesktopConfigProofs ------------------------
(* Proofs about DesktopConfig, for any number of providers, aliases,      *)
(* credentials and settings, of requests and page loads in flight and of  *)
(* edits.                                                                 *)
EXTENDS DesktopConfig, TLAPS

----------------------------------------------------------------------------
(* Types *)

Gateways == {s.gateway : s \in Setting}

Names == Provider \cup Alias \cup {Nil}
Bodies == Entry \cup (SUBSET Provider) \cup Setting \cup {Nil}
MaybeConfig == Config \cup {Nil}
MaybeGateway == Gateways \cup {Nil}

(* A request record; what its fields mean depends on its stage and kind. *)
Requested ==
    [verb : {"create", "update", "delete", "reload"},
     kind : {"provider", "model", "route", "settings", Nil},
     name : Names,
     body : Bodies,
     same : BOOLEAN,
     owner : {"form", "confirm", "page", "none"},
     ok : BOOLEAN,
     copy : MaybeConfig,
     gw : MaybeGateway,
     read : MaybeConfig,
     stage : {"validate", "load", "gateway", "rename", "build", "swap", "answer"}]

(* Requests that have still to write the file. *)
Preparing(q) == q.stage \in {"validate", "load"}
Copied(q) == q.stage \in {"gateway", "rename"}

(* The body a handler was sent fits its kind; the copy it made is a config. *)
RequestForm(q) ==
    /\ Preparing(q) \/ Copied(q) => q.verb # "reload"
    /\ Preparing(q) =>
         \/ q.kind = "settings" /\ q.body \in Setting
         \/ /\ q.kind = "provider" /\ q.name \in Provider
            /\ q.verb # "delete" => q.body \in Entry
         \/ /\ q.kind \in {"model", "route"} /\ q.name \in Alias
            /\ q.verb # "delete" => q.body \in SUBSET Provider
    /\ Copied(q) => q.copy \in Config /\ (q.kind = "provider" => q.name \in Provider)
    /\ q.stage = "rename" => q.gw \in Gateways

Loaded == [on : {TRUE}, bad : BOOLEAN,
           todo : SUBSET {"provider", "model", "route", "trace"}, got : Config]

EntryNames(p) == IF p = "provider" THEN Provider ELSE Alias
EntryRows(p) == IF p = "provider" THEN Entry ELSE SUBSET Provider

(* A dialog belongs to a page with a table, and shows an entry of its kind. *)
Dialogs(p) ==
    {NoDialog} \cup
    (IF p \in {"provider", "model", "route"}
       THEN {[kind |-> "create"]} \cup [kind : {"delete", "detail"}, name : EntryNames(p)]
              \cup [kind : {"edit"}, name : EntryNames(p), row : EntryRows(p)]
       ELSE {})

StateTypes ==
    /\ file \in [ok : BOOLEAN, cfg : Config, gateway : Gateways]
    /\ live \in Config
    /\ page \in Page /\ view \in Config /\ loading \in BOOLEAN
    /\ loads \in [Load -> {NoLoad} \cup Loaded]
    /\ dialog \in Dialogs(page)
    /\ writes \in Nat /\ handEdits \in Nat
    /\ unread \in BOOLEAN /\ overlap \in BOOLEAN
    /\ recreated \subseteq Provider
    /\ typed \in [Provider -> SUBSET Cred]

(* The file, the dispatcher's configuration, the requests and the mounted     *)
(* page are well formed.                                                      *)
DesktopTypeOK ==
    /\ StateTypes
    /\ req \in [Request -> {Idle} \cup Requested]
    /\ \A r \in Request : Busy(r) => RequestForm(req[r])

----------------------------------------------------------------------------
(* The inductive invariant *)

(* Between a change of the file and the next swap a build is to come, or the  *)
(* build under way, which is the only one, has read the file as it is.        *)
BuildsFollow ==
    /\ \A r1, r2 \in Request :
         req[r1].stage = "swap" /\ req[r2].stage = "swap" => r1 = r2
    /\ ~unread /\ (\A r \in Request : req[r].stage # "build") =>
         \/ \E r \in Request : req[r].stage = "swap" /\ req[r].read = Source
         \/ /\ \A r \in Request : req[r].stage # "swap"
            /\ live = Effective(Source) \/ ~Buildable(Effective(Source))

(* An entry whose credential the user gave to p, and whose hidden fields are  *)
(* the tuned ones unless p was created anew.                                  *)
KeptEntry(p, e, given, created) ==
    e.cred \in given[p] /\ (p \in InitProvider \ created => e.hidden = "tuned")
KeptTable(t, given, created) ==
    \A p \in Provider : t[p] # Absent => KeptEntry(p, t[p], given, created)

Creates(q) == IF q.kind = "provider" /\ q.verb = "create" THEN {q.name} ELSE {}

KeptRequest(q, given, created) ==
    /\ Preparing(q) /\ q.kind = "provider" /\ q.verb # "delete" =>
         KeptEntry(q.name, q.body, given, created \cup Creates(q))
    /\ Copied(q) => KeptTable(q.copy.provider, given, created \cup Creates(q))

TablesKept ==
    /\ KeptTable(file.cfg.provider, typed, recreated)
    /\ KeptTable(view.provider, typed, recreated)
    /\ \A l \in Load : loads[l].on => KeptTable(loads[l].got.provider, typed, recreated)
    /\ page = "provider" /\ dialog.kind = "edit" =>
         KeptEntry(dialog.name, dialog.row, typed, recreated)

(* Every copy of a provider's entry on its way back to the file keeps what    *)
(* the user did not touch.                                                    *)
RowsKept ==
    /\ TablesKept
    /\ \A r \in Request : Busy(r) => KeptRequest(req[r], typed, recreated)

Writing(q) == q.stage # "idle" /\ q.verb # "reload"
References(c) == \A a \in Alias : c.model[a] \cup c.route[a] \subseteq Known(c)

(* What the only write in flight knows about the file f. *)
CopyCurrent(q, f) ==
    /\ q.stage = "load" /\ q.kind \in {"model", "route"} /\ q.verb # "delete" =>
         q.body \subseteq Known(f.cfg)
    /\ Copied(q) => /\ References(q.copy)
                    /\ q.kind # "settings" => q.copy.trace = f.cfg.trace
    /\ q.stage = "rename" /\ q.kind # "settings" => q.gw = f.gateway
    /\ q.same => /\ Preparing(q) => /\ q.kind = "provider" /\ q.verb = "update"
                                    /\ q.body = f.cfg.provider[q.name]
                 /\ Copied(q) => q.copy.provider[q.name] = f.cfg.provider[q.name]

(* As long as no two writes overlapped, the write in flight is the only one,  *)
(* and what it has read of the file still holds when it renames.              *)
SoleWriter ==
    ~overlap =>
      /\ \A r1, r2 \in Request : Writing(req[r1]) /\ Writing(req[r2]) => r1 = r2
      /\ References(file.cfg)
      /\ \A r \in Request : Busy(r) => CopyCurrent(req[r], file)

DesktopInv == DesktopTypeOK /\ BuildsFollow /\ RowsKept /\ SoleWriter

----------------------------------------------------------------------------
(* Requests and their records *)

Owner == {"form", "confirm", "page", "none"}
Stage == {"validate", "load", "gateway", "rename", "build", "swap", "answer"}

(* x is the request q, whoever waits for it. *)
Like(x, q) ==
    /\ x \in {Idle} \cup Requested
    /\ x.stage = q.stage
    /\ q.stage # "idle" =>
         /\ x.verb = q.verb /\ x.kind = q.kind /\ x.name = q.name /\ x.body = q.body
         /\ x.same = q.same
         /\ x.copy = q.copy /\ x.gw = q.gw /\ x.read = q.read

(* A step changes at most the requests in the slots S. *)
RequestsMove(S) ==
    /\ req' \in [Request -> {Idle} \cup Requested]
    /\ \A o \in Request \ S : Like(req'[o], req[o])

(* An idle slot holds no request; a request is never idle. *)
LEMMA IdleOrBusy ==
    /\ Idle.stage = "idle"
    /\ \A q \in Requested : q.stage # "idle" /\ q.stage \in Stage
    /\ \A q \in {Idle} \cup Requested : q.stage # "idle" => q \in Requested
  <1>1. Idle.stage = "idle"
    BY DEF Idle
  <1>2. \A q \in Requested : q.stage # "idle" /\ q.stage \in Stage
    BY DEF Requested, Stage
  <1> QED BY <1>1, <1>2

LEMMA RequestTypes ==
  ASSUME DesktopTypeOK, NEW r \in Request
  PROVE  /\ req[r] \in {Idle} \cup Requested
         /\ req[r].stage # "idle" => req[r] \in Requested /\ RequestForm(req[r])
  <1>1. req[r] \in {Idle} \cup Requested
    BY DEF DesktopTypeOK
  <1>2. req[r].stage # "idle" => RequestForm(req[r])
    BY DEF DesktopTypeOK, Busy
  <1> QED BY <1>1, <1>2, IdleOrBusy

LEMMA LikeItself ==
  ASSUME NEW q \in {Idle} \cup Requested
  PROVE  Like(q, q)
  BY DEF Like

(* The record of a request whose owner has gone. *)
LEMMA OwnerChanged ==
  ASSUME NEW q \in Requested, NEW o \in Owner
  PROVE  Like([q EXCEPT !.owner = o], q)
  <1> DEFINE x == [q EXCEPT !.owner = o]
  <1>1. x \in Requested
    BY DEF Requested, Owner
  <1>2. /\ x.stage = q.stage /\ x.verb = q.verb /\ x.kind = q.kind /\ x.name = q.name
        /\ x.body = q.body /\ x.same = q.same /\ x.copy = q.copy /\ x.gw = q.gw /\ x.read = q.read
    BY DEF Requested
  <1> HIDE DEF x
  <1>3. Like(x, q)
    BY <1>1, <1>2 DEF Like
  <1> QED BY <1>3 DEF x

(* A handler that has answered, or has renamed, knows no more than its verb. *)
LEMMA ForgetSound ==
  ASSUME NEW q \in Requested, NEW stage \in {"build", "answer"}, NEW x, x = Forget(q, stage)
  PROVE  /\ x \in Requested
         /\ x.stage = stage /\ x.verb = q.verb /\ x.kind = q.kind
  <1>1. /\ q.verb \in {"create", "update", "delete", "reload"}
        /\ q.kind \in {"provider", "model", "route", "settings", Nil}
        /\ q.owner \in {"form", "confirm", "page", "none"} /\ q.ok \in BOOLEAN
    BY DEF Requested
  <1>2. x = [verb |-> q.verb, kind |-> q.kind, name |-> Nil, body |-> Nil, same |-> FALSE,
             owner |-> q.owner, ok |-> q.ok, copy |-> Nil, gw |-> Nil, read |-> Nil,
             stage |-> stage]
    BY DEF Forget, Requested
  <1>3. /\ Nil \in Names /\ Nil \in Bodies /\ Nil \in MaybeConfig /\ Nil \in MaybeGateway
    BY DEF Names, Bodies, MaybeConfig, MaybeGateway
  <1>4. x \in Requested
    BY <1>1, <1>2, <1>3 DEF Requested
  <1> QED BY <1>2, <1>4

(* One slot changes by itself. *)
LEMMA OneMoves ==
  ASSUME DesktopTypeOK, NEW r \in Request, NEW x \in {Idle} \cup Requested,
         req' = [req EXCEPT ![r] = x]
  PROVE  RequestsMove({r}) /\ req'[r] = x
  <1>1. req \in [Request -> {Idle} \cup Requested]
    BY DEF DesktopTypeOK
  <1>2. req' \in [Request -> {Idle} \cup Requested] /\ req'[r] = x
    BY <1>1
  <1>3. ASSUME NEW o \in Request \ {r} PROVE Like(req'[o], req[o])
    <2>1. req'[o] = req[o] /\ req[o] \in {Idle} \cup Requested
      BY <1>1
    <2> QED BY <2>1, LikeItself
  <1> QED BY <1>2, <1>3 DEF RequestsMove

LEMMA NoneMoves ==
  ASSUME DesktopTypeOK, req' = req
  PROVE  RequestsMove({})
  <1>1. req \in [Request -> {Idle} \cup Requested]
    BY DEF DesktopTypeOK
  <1> QED BY <1>1, LikeItself DEF RequestsMove

(* Requests whose owner closes or leaves go on. *)
LEMMA OwnersLeave ==
  ASSUME DesktopTypeOK, NEW S \in SUBSET Request, \A r \in S : Busy(r),
         NEW o \in Owner, NEW f,
         f = [r \in Request |-> IF r \in S THEN [req[r] EXCEPT !.owner = o] ELSE req[r]]
  PROVE  /\ f \in [Request -> {Idle} \cup Requested]
         /\ \A r \in Request : Like(f[r], req[r])
  <1>1. ASSUME NEW r \in Request PROVE Like(f[r], req[r])
    <2>1. CASE r \in S
      <3>1. req[r] \in Requested
        BY <2>1, RequestTypes DEF Busy
      <3>2. f[r] = [req[r] EXCEPT !.owner = o]
        BY <2>1
      <3> QED BY <3>1, <3>2, OwnerChanged
    <2>2. CASE r \notin S
      <3>1. f[r] = req[r]
        BY <2>2
      <3> QED BY <3>1, RequestTypes, LikeItself
    <2> QED BY <2>1, <2>2
  <1>2. \A r \in Request : f[r] \in {Idle} \cup Requested
    BY <1>1 DEF Like
  <1>3. f \in [Request -> {Idle} \cup Requested]
    BY <1>2
  <1> QED BY <1>1, <1>3

----------------------------------------------------------------------------
(* What a step has to show of the requests it moves, by part of the invariant *)

LEMMA LikeForm ==
  ASSUME NEW q, NEW x, Like(x, q), q.stage # "idle"
  PROVE  /\ RequestForm(q) => RequestForm(x)
         /\ \A given, created : KeptRequest(q, given, created) => KeptRequest(x, given, created)
         /\ \A f : CopyCurrent(q, f) => CopyCurrent(x, f)
  <1>0. /\ x.stage = q.stage /\ x.verb = q.verb /\ x.kind = q.kind /\ x.name = q.name
        /\ x.body = q.body /\ x.same = q.same /\ x.copy = q.copy /\ x.gw = q.gw /\ x.read = q.read
    BY DEF Like
  <1>1. RequestForm(q) => RequestForm(x)
    BY <1>0, Zenon DEF RequestForm, Preparing, Copied
  <1>2. ASSUME NEW given, NEW created, KeptRequest(q, given, created)
        PROVE  KeptRequest(x, given, created)
    <2>1. Creates(x) = Creates(q)
      BY <1>0 DEF Creates
    <2> QED BY <1>0, <1>2, <2>1, Zenon DEF KeptRequest, Preparing, Copied
  <1>3. ASSUME NEW f, CopyCurrent(q, f) PROVE CopyCurrent(x, f)
    BY <1>0, <1>3, Zenon DEF CopyCurrent, Preparing, Copied
  <1> QED BY <1>1, <1>2, <1>3

(* Types. *)
LEMMA MovedForms ==
  ASSUME DesktopTypeOK, NEW S \in SUBSET Request, RequestsMove(S),
         \A r \in S : req'[r].stage # "idle" => RequestForm(req'[r])
  PROVE  \A o \in Request : req'[o].stage # "idle" => RequestForm(req'[o])
  <1> SUFFICES ASSUME NEW o \in Request, req'[o].stage # "idle"
               PROVE  RequestForm(req'[o])
    OBVIOUS
  <1>1. CASE o \in S
    BY <1>1
  <1>2. CASE o \notin S
    <2>1. Like(req'[o], req[o])
      BY <1>2 DEF RequestsMove
    <2>2. req[o].stage # "idle"
      BY <2>1 DEF Like
    <2> QED BY <2>1, <2>2, LikeForm, RequestTypes
  <1> QED BY <1>1, <1>2

(* The user's credentials and the providers created anew only grow. *)
Grown ==
    /\ \A p \in Provider : typed[p] \subseteq typed'[p]
    /\ recreated \subseteq recreated'

LEMMA KeptGrows ==
  ASSUME Grown, NEW S
  PROVE  /\ \A p \in Provider : \A e : KeptEntry(p, e, typed, recreated \cup S) =>
                                     KeptEntry(p, e, typed', recreated' \cup S)
         /\ \A t : KeptTable(t, typed, recreated \cup S) =>
                     KeptTable(t, typed', recreated' \cup S)
  <1>1. ASSUME NEW p \in Provider, NEW e, KeptEntry(p, e, typed, recreated \cup S)
        PROVE  KeptEntry(p, e, typed', recreated' \cup S)
    BY <1>1 DEF KeptEntry, Grown
  <1> QED BY <1>1 DEF KeptTable

LEMMA KeptTableGrows ==
  ASSUME Grown
  PROVE  /\ \A p \in Provider : \A e : KeptEntry(p, e, typed, recreated) =>
                                     KeptEntry(p, e, typed', recreated')
         /\ \A t : KeptTable(t, typed, recreated) => KeptTable(t, typed', recreated')
  <1>1. recreated \cup {} = recreated /\ recreated' \cup {} = recreated'
    OBVIOUS
  <1> QED BY <1>1, KeptGrows

LEMMA KeptRequestGrows ==
  ASSUME Grown, NEW q, RequestForm(q), KeptRequest(q, typed, recreated)
  PROVE  KeptRequest(q, typed', recreated')
  <1>1. ASSUME Preparing(q), q.kind = "provider", q.verb # "delete"
        PROVE  KeptEntry(q.name, q.body, typed', recreated' \cup Creates(q))
    <2>1. q.name \in Provider
      BY <1>1 DEF RequestForm
    <2>2. KeptEntry(q.name, q.body, typed, recreated \cup Creates(q))
      BY <1>1 DEF KeptRequest
    <2> QED BY <2>1, <2>2, KeptGrows
  <1>2. ASSUME Copied(q)
        PROVE  KeptTable(q.copy.provider, typed', recreated' \cup Creates(q))
    BY <1>2, KeptGrows DEF KeptRequest
  <1> QED BY <1>1, <1>2 DEF KeptRequest

LEMMA MovedKept ==
  ASSUME DesktopTypeOK, RowsKept, Grown, NEW S \in SUBSET Request, RequestsMove(S),
         \A r \in S : req'[r].stage # "idle" => KeptRequest(req'[r], typed', recreated')
  PROVE  \A o \in Request : req'[o].stage # "idle" => KeptRequest(req'[o], typed', recreated')
  <1> SUFFICES ASSUME NEW o \in Request, req'[o].stage # "idle"
               PROVE  KeptRequest(req'[o], typed', recreated')
    OBVIOUS
  <1>1. CASE o \in S
    BY <1>1
  <1>2. CASE o \notin S
    <2>1. Like(req'[o], req[o])
      BY <1>2 DEF RequestsMove
    <2>2. req[o].stage # "idle"
      BY <2>1 DEF Like
    <2>3. KeptRequest(req[o], typed, recreated)
      BY <2>2 DEF RowsKept, Busy
    <2>4. KeptRequest(req[o], typed', recreated')
      BY <2>2, <2>3, RequestTypes, KeptRequestGrows
    <2> QED BY <2>1, <2>2, <2>4, LikeForm
  <1> QED BY <1>1, <1>2

(* Builds: a step away from the file, the dispatcher and the rebuild. *)
LEMMA QuietBuilds ==
  ASSUME DesktopTypeOK, BuildsFollow, NEW S \in SUBSET Request, RequestsMove(S),
         UNCHANGED <<file, live, unread>>,
         \A r \in S : req[r].stage \notin {"build", "swap"} /\ req'[r].stage # "swap"
  PROVE  BuildsFollow'
  <1>1. ASSUME NEW r \in Request
        PROVE  /\ req'[r].stage = "swap" <=> req[r].stage = "swap"
               /\ req[r].stage = "swap" => req'[r].read = req[r].read
               /\ req[r].stage = "build" => req'[r].stage = "build"
    <2>1. CASE r \in S
      BY <2>1
    <2>2. CASE r \notin S
      <3>1. Like(req'[r], req[r])
        BY <2>2 DEF RequestsMove
      <3> QED BY <3>1 DEF Like
    <2> QED BY <2>1, <2>2
  <1>2. Source' = Source /\ live' = live /\ unread' = unread
    BY DEF Source
  <1>3. /\ Effective(Source)' = Effective(Source)
        /\ Buildable(Effective(Source))' <=> Buildable(Effective(Source))
    BY DEF Effective, Buildable, Known, Source
  <1> QED BY <1>1, <1>2, <1>3 DEF BuildsFollow

(* Writers: a step that leaves the content of the file. *)
LEMMA MovedSole ==
  ASSUME DesktopTypeOK, SoleWriter, NEW S \in SUBSET Request, RequestsMove(S),
         \A r1, r2 \in S : r1 = r2,
         file'.cfg = file.cfg, file'.gateway = file.gateway, overlap => overlap',
         \A r \in S :
           ~overlap' /\ req'[r].stage # "idle" =>
             /\ CopyCurrent(req'[r], file')
             /\ Writing(req'[r]) => Writing(req[r]) \/ \A o \in Request : ~Writing(req[o])
  PROVE  SoleWriter'
  <1> SUFFICES ASSUME ~overlap'
               PROVE  /\ \A r1, r2 \in Request : Writing(req'[r1]) /\ Writing(req'[r2]) => r1 = r2
                      /\ References(file'.cfg)
                      /\ \A r \in Request : req'[r].stage # "idle" => CopyCurrent(req'[r], file')
    BY DEF SoleWriter, Writing, References, Known, CopyCurrent, Busy, Copied
  <1>0. /\ \A r1, r2 \in Request : Writing(req[r1]) /\ Writing(req[r2]) => r1 = r2
        /\ References(file.cfg)
        /\ \A r \in Request : req[r].stage # "idle" => CopyCurrent(req[r], file)
    BY DEF SoleWriter, Busy
  <1>1. ASSUME NEW r \in Request \ S
        PROVE  /\ Writing(req'[r]) => Writing(req[r])
               /\ req'[r].stage # "idle" => CopyCurrent(req'[r], file')
    <2>1. Like(req'[r], req[r])
      BY DEF RequestsMove
    <2>2. Writing(req'[r]) => Writing(req[r])
      BY <2>1 DEF Like, Writing
    <2>3. ASSUME req'[r].stage # "idle" PROVE CopyCurrent(req'[r], file')
      <3>1. req[r].stage # "idle"
        BY <2>1, <2>3 DEF Like
      <3>2. CopyCurrent(req'[r], file)
        BY <1>0, <2>1, <3>1, LikeForm
      <3> QED BY <3>2 DEF CopyCurrent
    <2> QED BY <2>2, <2>3
  <1>2. \A r \in S : Writing(req'[r]) =>
                       Writing(req[r]) \/ \A o \in Request : ~Writing(req[o])
    BY DEF Writing
  <1>3. ASSUME NEW r1 \in Request, NEW r2 \in Request, Writing(req'[r1]), Writing(req'[r2])
        PROVE  r1 = r2
    BY <1>0, <1>1, <1>2, <1>3
  <1>4. \A r \in Request : req'[r].stage # "idle" => CopyCurrent(req'[r], file')
    BY <1>1
  <1> QED BY <1>0, <1>3, <1>4

----------------------------------------------------------------------------
(* What a handler does to its copy *)

WithProvider(c, n, e) == [c EXCEPT !.provider[n] = e]
WithModel(c, n, e) == [c EXCEPT !.model[n] = e]
WithRoute(c, n, e) == [c EXCEPT !.route[n] = e]

(* A provider's entry is stored or taken away. *)
LEMMA ProviderChanged ==
  ASSUME NEW c \in Config, NEW n \in Provider, NEW e \in Entry \cup {Absent}, NEW d,
         d = WithProvider(c, n, e)
  PROVE  /\ d \in Config
         /\ d.trace = c.trace /\ d.model = c.model /\ d.route = c.route
         /\ \A p \in Provider : d.provider[p] = IF p = n THEN e ELSE c.provider[p]
  <1> DEFINE t == [c.provider EXCEPT ![n] = e]
  <1>1. c.provider \in [Provider -> Entry \cup {Absent}]
    BY DEF Config
  <1>2. /\ t \in [Provider -> Entry \cup {Absent}]
        /\ \A p \in Provider : t[p] = IF p = n THEN e ELSE c.provider[p]
    BY <1>1
  <1>3. d = [c EXCEPT !.provider = t]
    BY DEF WithProvider
  <1> HIDE DEF t
  <1>4. /\ d \in Config /\ d.provider = t
        /\ d.trace = c.trace /\ d.model = c.model /\ d.route = c.route
    BY <1>2, <1>3 DEF Config
  <1> QED BY <1>2, <1>4

(* A model's upstreams are stored, or taken away; ... *)
LEMMA ModelChanged ==
  ASSUME NEW c \in Config, NEW n \in Alias, NEW e \in SUBSET Provider, NEW d,
         d = WithModel(c, n, e)
  PROVE  /\ d \in Config
         /\ d.trace = c.trace /\ d.provider = c.provider /\ d.route = c.route
         /\ \A a \in Alias : d.model[a] = IF a = n THEN e ELSE c.model[a]
  <1> DEFINE t == [c.model EXCEPT ![n] = e]
  <1>1. c.model \in [Alias -> SUBSET Provider]
    BY DEF Config
  <1>2. /\ t \in [Alias -> SUBSET Provider]
        /\ \A a \in Alias : t[a] = IF a = n THEN e ELSE c.model[a]
    BY <1>1
  <1>3. d = [c EXCEPT !.model = t]
    BY DEF WithModel
  <1> HIDE DEF t
  <1>4. /\ d \in Config /\ d.model = t
        /\ d.trace = c.trace /\ d.provider = c.provider /\ d.route = c.route
    BY <1>2, <1>3 DEF Config
  <1> QED BY <1>2, <1>4

(* ... and so are a route's candidates. *)
LEMMA RouteChanged ==
  ASSUME NEW c \in Config, NEW n \in Alias, NEW e \in SUBSET Provider, NEW d,
         d = WithRoute(c, n, e)
  PROVE  /\ d \in Config
         /\ d.trace = c.trace /\ d.provider = c.provider /\ d.model = c.model
         /\ \A a \in Alias : d.route[a] = IF a = n THEN e ELSE c.route[a]
  <1> DEFINE t == [c.route EXCEPT ![n] = e]
  <1>1. c.route \in [Alias -> SUBSET Provider]
    BY DEF Config
  <1>2. /\ t \in [Alias -> SUBSET Provider]
        /\ \A a \in Alias : t[a] = IF a = n THEN e ELSE c.route[a]
    BY <1>1
  <1>3. d = [c EXCEPT !.route = t]
    BY DEF WithRoute
  <1> HIDE DEF t
  <1>4. /\ d \in Config /\ d.route = t
        /\ d.trace = c.trace /\ d.provider = c.provider /\ d.model = c.model
    BY <1>2, <1>3 DEF Config
  <1> QED BY <1>2, <1>4

(* The body of a request and the copy of the file it is applied to. *)
BodyKnown(q, c) ==
    q.kind \in {"model", "route"} /\ q.verb # "delete" => q.body \subseteq Known(c)

(* A change that was accepted makes a config of a config, touches the trace   *)
(* settings only for the Settings page, keeps the rows the user did not touch *)
(* and names no provider that is not there.                                   *)
LEMMA ApplySound ==
  ASSUME NEW q, q.stage = "load", RequestForm(q), NEW c \in Config, Accepts(q, c),
         NEW d, d = Apply(q, c), NEW given, NEW created
  PROVE  /\ d \in Config
         /\ q.kind # "settings" => d.trace = c.trace
         /\ KeptTable(c.provider, given, created) /\ KeptRequest(q, given, created) =>
              KeptTable(d.provider, given, created \cup Creates(q))
         /\ References(c) /\ BodyKnown(q, c) => References(d)
  <1> DEFINE Kept == KeptTable(c.provider, given, created) /\ KeptRequest(q, given, created)
             Goal == /\ d \in Config
                     /\ q.kind # "settings" => d.trace = c.trace
                     /\ Kept => KeptTable(d.provider, given, created \cup Creates(q))
                     /\ References(c) /\ BodyKnown(q, c) => References(d)
  <1>0. Preparing(q) /\ KeptTable(c.provider, given, created) =>
          KeptTable(c.provider, given, created \cup Creates(q))
    BY DEF KeptTable, KeptEntry
  <1>a. Preparing(q)
    BY DEF Preparing
  <1>1. CASE q.kind = "settings"
    <2>1. d = [c EXCEPT !.trace = q.body.trace]
      BY <1>1 DEF Apply
    <2>2. q.body.trace \in {"on", "off"}
      BY <1>1, <1>a, ConfigAssumption DEF RequestForm
    <2>3. /\ d \in Config
          /\ d.provider = c.provider /\ d.model = c.model /\ d.route = c.route
      BY <2>1, <2>2 DEF Config
    <2>4. Known(d) = Known(c)
      BY <2>3 DEF Known
    <2> QED BY <1>0, <1>1, <1>a, <2>3, <2>4 DEF References
  <1>2. CASE q.kind = "provider"
    <2> DEFINE e == IF q.verb = "delete" THEN Absent ELSE q.body
    <2>1. d = WithProvider(c, q.name, e)
      BY <1>2 DEF Apply, WithProvider
    <2>2. /\ q.name \in Provider /\ e \in Entry \cup {Absent}
          /\ q.verb # "delete" => e = q.body /\ e # Absent
          /\ q.verb = "delete" => e = Absent
      BY <1>2, <1>a, SentinelAssumption DEF RequestForm
    <2> HIDE DEF e
    <2>3. /\ d \in Config
          /\ d.trace = c.trace /\ d.model = c.model /\ d.route = c.route
          /\ \A p \in Provider : d.provider[p] = IF p = q.name THEN e ELSE c.provider[p]
      BY <2>1, <2>2, ProviderChanged
    <2>4. Kept => KeptTable(d.provider, given, created \cup Creates(q))
      <3> SUFFICES ASSUME Kept, NEW p \in Provider, d.provider[p] # Absent
                   PROVE  KeptEntry(p, d.provider[p], given, created \cup Creates(q))
        BY DEF KeptTable
      <3>1. CASE p = q.name
        <4>1. d.provider[p] = e
          BY <2>3, <3>1
        <4>2. e = q.body /\ q.verb # "delete"
          BY <2>2, <4>1
        <4> QED BY <1>2, <1>a, <3>1, <4>1, <4>2 DEF KeptRequest
      <3>2. CASE p # q.name
        BY <1>0, <1>a, <2>3, <3>2 DEF KeptTable
      <3> QED BY <3>1, <3>2
    <2>5. References(c) => References(d)
      <3> SUFFICES ASSUME References(c), NEW a \in Alias, NEW p \in c.model[a] \cup c.route[a]
                   PROVE  p \in Known(d)
        BY <2>3 DEF References
      <3>1. p \in Known(c) /\ p \in Provider /\ c.provider[p] # Absent
        BY DEF References, Known
      <3>2. CASE p # q.name
        BY <2>3, <3>1, <3>2 DEF Known
      <3>3. CASE p = q.name
        <4>1. q.verb # "delete"
          BY <1>2, <3>3 DEF Accepts, Unreferenced
        <4> QED BY <2>2, <2>3, <3>1, <3>3, <4>1 DEF Known
      <3> QED BY <3>2, <3>3
    <2> QED BY <2>3, <2>4, <2>5
  <1>3. CASE q.kind \in {"model", "route"}
    <2> DEFINE e == IF q.verb = "delete" THEN {} ELSE q.body
    <2>1. /\ q.name \in Alias /\ e \in SUBSET Provider
          /\ BodyKnown(q, c) => e \subseteq Known(c)
      BY <1>3, <1>a DEF RequestForm, BodyKnown
    <2>2. \/ d = WithModel(c, q.name, e)
          \/ d = WithRoute(c, q.name, e)
      BY <1>3 DEF Apply, WithModel, WithRoute
    <2> HIDE DEF e
    <2>3. /\ d \in Config /\ d.trace = c.trace /\ d.provider = c.provider
          /\ \A a \in Alias : d.model[a] \cup d.route[a] \subseteq
                                c.model[a] \cup c.route[a] \cup e
      <3>1. CASE d = WithModel(c, q.name, e)
        <4>1. /\ d \in Config /\ d.trace = c.trace /\ d.provider = c.provider
              /\ d.route = c.route
              /\ \A a \in Alias : d.model[a] = IF a = q.name THEN e ELSE c.model[a]
          BY <2>1, <3>1, ModelChanged
        <4> QED BY <4>1
      <3>2. CASE d = WithRoute(c, q.name, e)
        <4>1. /\ d \in Config /\ d.trace = c.trace /\ d.provider = c.provider
              /\ d.model = c.model
              /\ \A a \in Alias : d.route[a] = IF a = q.name THEN e ELSE c.route[a]
          BY <2>1, <3>2, RouteChanged
        <4> QED BY <4>1
      <3> QED BY <2>2, <3>1, <3>2
    <2>4. Known(d) = Known(c)
      BY <2>3 DEF Known
    <2>5. References(c) /\ BodyKnown(q, c) => References(d)
      BY <2>1, <2>3, <2>4 DEF References
    <2> QED BY <1>0, <1>a, <2>3, <2>5
  <1>4. \/ q.kind = "settings" \/ q.kind = "provider" \/ q.kind \in {"model", "route"}
    BY <1>a DEF RequestForm
  <1> QED BY <1>1, <1>2, <1>3, <1>4

(* A save of a provider stores the body it was sent. *)
LEMMA ApplyUpdates ==
  ASSUME NEW q, q.stage = "load", RequestForm(q), q.kind = "provider", q.verb = "update",
         NEW c \in Config, NEW d, d = Apply(q, c)
  PROVE  d.provider[q.name] = q.body
  <1>1. q.name \in Provider /\ q.body \in Entry \cup {Absent}
    BY DEF RequestForm, Preparing
  <1>2. d = WithProvider(c, q.name, q.body)
    BY DEF Apply, WithProvider
  <1> QED BY <1>1, <1>2, ProviderChanged

----------------------------------------------------------------------------
(* Steps *)

(* A request that has just become x is sound beside the file f. *)
RequestSound(x, f, given, created, over) ==
    x.stage # "idle" =>
      /\ RequestForm(x)
      /\ KeptRequest(x, given, created)
      /\ ~over => CopyCurrent(x, f)

(* A request that has no copy and no body left claims nothing. *)
LEMMA SpentSound ==
  ASSUME NEW x, x.stage \in {"idle", "build", "swap", "answer"}
  PROVE  \A f, given, created, over : RequestSound(x, f, given, created, over)
  BY DEF RequestSound, RequestForm, KeptRequest, CopyCurrent, Preparing, Copied

LEMMA TypesAssembled ==
  ASSUME DesktopTypeOK, StateTypes', NEW S \in SUBSET Request, RequestsMove(S),
         \A r \in S : RequestSound(req'[r], file', typed', recreated', overlap')
  PROVE  DesktopTypeOK'
  <1>1. \A o \in Request : req'[o].stage # "idle" => RequestForm(req'[o])
    BY MovedForms DEF RequestSound
  <1>2. (\A o \in Request : Busy(o) => RequestForm(req[o]))'
    BY <1>1 DEF Busy, RequestForm, Preparing, Copied
  <1> QED BY <1>2 DEF DesktopTypeOK, RequestsMove

LEMMA RowsAssembled ==
  ASSUME DesktopTypeOK, RowsKept, Grown, TablesKept', NEW S \in SUBSET Request,
         RequestsMove(S),
         \A r \in S : RequestSound(req'[r], file', typed', recreated', overlap')
  PROVE  RowsKept'
  <1>1. \A o \in Request :
          req'[o].stage # "idle" => KeptRequest(req'[o], typed', recreated')
    BY MovedKept DEF RequestSound
  <1>2. (\A o \in Request : Busy(o) => KeptRequest(req[o], typed, recreated))'
    BY <1>1 DEF Busy, KeptRequest, Preparing, Copied, KeptTable, KeptEntry, Creates
  <1> QED BY <1>2 DEF RowsKept

(* What a step that leaves the content of the file has to show. *)
LEMMA Assembled ==
  ASSUME DesktopInv, StateTypes', BuildsFollow', TablesKept', Grown,
         file'.cfg = file.cfg, file'.gateway = file.gateway, overlap => overlap',
         NEW S \in SUBSET Request, RequestsMove(S), \A r1, r2 \in S : r1 = r2,
         \A r \in S :
           /\ RequestSound(req'[r], file', typed', recreated', overlap')
           /\ ~overlap' /\ Writing(req'[r]) =>
                Writing(req[r]) \/ \A o \in Request : ~Writing(req[o])
  PROVE  DesktopInv'
  <1>1. DesktopTypeOK'
    BY TypesAssembled DEF DesktopInv
  <1>2. RowsKept'
    BY RowsAssembled DEF DesktopInv
  <1>3. SoleWriter'
    <2>1. \A r \in S :
            ~overlap' /\ req'[r].stage # "idle" =>
              /\ CopyCurrent(req'[r], file')
              /\ Writing(req'[r]) => Writing(req[r]) \/ \A o \in Request : ~Writing(req[o])
      BY DEF RequestSound
    <2> QED BY <2>1, MovedSole DEF DesktopInv
  <1> QED BY <1>1, <1>2, <1>3 DEF DesktopInv

(* A handler's step away from the file, the page and the rebuild. *)
LEMMA HandlerAssembled ==
  ASSUME DesktopInv, UNCHANGED <<server, ui, history, writes, handEdits>>,
         NEW r \in Request, NEW x \in {Idle} \cup Requested, req' = [req EXCEPT ![r] = x],
         req[r].stage \notin {"build", "swap"}, x.stage # "swap",
         RequestSound(x, file, typed, recreated, overlap),
         Writing(x) => Writing(req[r])
  PROVE  DesktopInv'
  <1>1. RequestsMove({r}) /\ req'[r] = x
    BY OneMoves DEF DesktopInv
  <1>2. StateTypes'
    <2>1. dialog' \in Dialogs(page')
      BY DEF DesktopInv, DesktopTypeOK, StateTypes, ui
    <2> QED BY <2>1 DEF DesktopInv, DesktopTypeOK, StateTypes, server, ui, history
  <1>3. TablesKept'
    BY DEF DesktopInv, RowsKept, TablesKept, server, ui, history, KeptTable, KeptEntry
  <1>4. Grown
    BY DEF Grown, history
  <1>5. BuildsFollow'
    BY <1>1, QuietBuilds DEF DesktopInv, server, history
  <1>6. RequestSound(req'[r], file', typed', recreated', overlap')
    BY <1>1 DEF server, history
  <1> QED BY <1>1, <1>2, <1>3, <1>4, <1>5, <1>6, Assembled DEF server, history

----------------------------------------------------------------------------
(* The handlers *)

(* A request that is refused. *)
LEMMA RefuseKeeps ==
  ASSUME DesktopInv, UNCHANGED <<server, ui, history, writes, handEdits>>,
         NEW r \in Request, req[r].stage \in {"validate", "load", "gateway"}, Refuse(r)
  PROVE  DesktopInv'
  <1> DEFINE x == Forget(req[r], "answer")
  <1>1. req[r] \in Requested /\ req[r].stage # "idle"
    BY RequestTypes DEF DesktopInv
  <1>2. x \in Requested /\ x.stage = "answer" /\ x.verb = req[r].verb
    BY <1>1, ForgetSound
  <1>3. req' = [req EXCEPT ![r] = x]
    BY DEF Refuse, Advance
  <1> HIDE DEF x
  <1>4. RequestSound(x, file, typed, recreated, overlap)
    BY <1>2, SpentSound
  <1>5. Writing(x) => Writing(req[r])
    BY <1>1, <1>2 DEF Writing
  <1> QED BY <1>2, <1>3, <1>4, <1>5, HandlerAssembled

LEMMA ValidateKeeps ==
  ASSUME DesktopInv, NEW r \in Request, Validate(r)
  PROVE  DesktopInv'
  <1> DEFINE x == [req[r] EXCEPT !.stage = "load"]
  <1>0. /\ req[r].stage = "validate"
        /\ UNCHANGED <<server, ui, history, writes, handEdits>>
    BY DEF Validate
  <1>1. CASE Refuse(r)
    BY <1>0, <1>1, RefuseKeeps
  <1>2. CASE /\ req[r].body \subseteq Known(file.cfg)
             /\ Advance(r, x)
    <2>1. /\ req[r] \in Requested /\ RequestForm(req[r])
          /\ KeptRequest(req[r], typed, recreated)
          /\ ~overlap => CopyCurrent(req[r], file)
      BY <1>0, RequestTypes DEF DesktopInv, RowsKept, SoleWriter, Busy
    <2>2. /\ x \in Requested /\ x.stage = "load"
          /\ x.verb = req[r].verb /\ x.kind = req[r].kind
          /\ x.name = req[r].name /\ x.body = req[r].body /\ x.same = req[r].same
      BY <2>1 DEF Requested
    <2>3. req' = [req EXCEPT ![r] = x]
      BY <1>2 DEF Advance
    <2> HIDE DEF x
    <2>4. RequestForm(x)
      BY <1>0, <2>1, <2>2 DEF RequestForm, Preparing, Copied
    <2>5. KeptRequest(x, typed, recreated)
      BY <1>0, <2>1, <2>2 DEF KeptRequest, Preparing, Copied, Creates
    <2>6. ~overlap => CopyCurrent(x, file)
      BY <1>0, <1>2, <2>1, <2>2 DEF CopyCurrent, Preparing, Copied
    <2>7. RequestSound(x, file, typed, recreated, overlap)
      BY <2>4, <2>5, <2>6 DEF RequestSound
    <2>8. Writing(x) => Writing(req[r])
      BY <1>0, <2>2 DEF Writing
    <2> QED BY <1>0, <2>2, <2>3, <2>7, <2>8, HandlerAssembled
  <1> QED BY <1>1, <1>2 DEF Validate

LEMMA ReadGatewayKeeps ==
  ASSUME DesktopInv, NEW r \in Request, ReadGateway(r)
  PROVE  DesktopInv'
  <1> DEFINE x == [req[r] EXCEPT !.gw = file.gateway, !.stage = "rename"]
  <1>0. /\ req[r].stage = "gateway"
        /\ UNCHANGED <<server, ui, history, writes, handEdits>>
    BY DEF ReadGateway
  <1>1. CASE Refuse(r)
    BY <1>0, <1>1, RefuseKeeps
  <1>2. CASE Advance(r, x)
    <2>1. /\ req[r] \in Requested /\ RequestForm(req[r])
          /\ KeptRequest(req[r], typed, recreated)
          /\ ~overlap => CopyCurrent(req[r], file)
      BY <1>0, RequestTypes DEF DesktopInv, RowsKept, SoleWriter, Busy
    <2>2. file.gateway \in Gateways /\ file.gateway \in MaybeGateway
      BY DEF DesktopInv, DesktopTypeOK, StateTypes, MaybeGateway
    <2>3. /\ x \in Requested /\ x.stage = "rename" /\ x.gw = file.gateway
          /\ x.verb = req[r].verb /\ x.kind = req[r].kind
          /\ x.name = req[r].name /\ x.copy = req[r].copy /\ x.same = req[r].same
      BY <2>1, <2>2 DEF Requested
    <2>4. req' = [req EXCEPT ![r] = x]
      BY <1>2 DEF Advance
    <2> HIDE DEF x
    <2>5. RequestForm(x)
      BY <1>0, <2>1, <2>2, <2>3 DEF RequestForm, Preparing, Copied
    <2>6. KeptRequest(x, typed, recreated)
      BY <1>0, <2>1, <2>3 DEF KeptRequest, Preparing, Copied, Creates
    <2>7. ~overlap => CopyCurrent(x, file)
      BY <1>0, <2>1, <2>3 DEF CopyCurrent, Preparing, Copied
    <2>8. RequestSound(x, file, typed, recreated, overlap)
      BY <2>5, <2>6, <2>7 DEF RequestSound
    <2>9. Writing(x) => Writing(req[r])
      BY <1>0, <2>3 DEF Writing
    <2> QED BY <1>0, <2>3, <2>4, <2>8, <2>9, HandlerAssembled
  <1> QED BY <1>1, <1>2 DEF ReadGateway

LEMMA LoadConfigKeeps ==
  ASSUME DesktopInv, NEW r \in Request, LoadConfig(r)
  PROVE  DesktopInv'
  <1> DEFINE c == file.cfg
             d == Apply(req[r], c)
             y == [req[r] EXCEPT !.copy = d]
             x == IF y.kind = "settings"
                    THEN [y EXCEPT !.gw = y.body.gateway, !.stage = "rename"]
                    ELSE [y EXCEPT !.stage = "gateway"]
  <1>0. /\ req[r].stage = "load"
        /\ UNCHANGED <<server, ui, history, writes, handEdits>>
    BY DEF LoadConfig
  <1>1. CASE Refuse(r)
    BY <1>0, <1>1, RefuseKeeps
  <1>2. CASE Accepts(req[r], c) /\ Advance(r, x)
    <2>1. /\ req[r] \in Requested /\ RequestForm(req[r])
          /\ KeptRequest(req[r], typed, recreated)
          /\ ~overlap => CopyCurrent(req[r], file) /\ References(c)
          /\ Preparing(req[r]) /\ req[r].verb # "reload"
      BY <1>0, RequestTypes DEF DesktopInv, RowsKept, SoleWriter, Busy, Preparing, RequestForm
    <2>2. c \in Config /\ KeptTable(c.provider, typed, recreated)
      BY DEF DesktopInv, DesktopTypeOK, StateTypes, RowsKept, TablesKept
    <2>3. ~overlap => BodyKnown(req[r], c)
      BY <1>0, <2>1 DEF CopyCurrent, BodyKnown
    <2> HIDE DEF c, d
    <2>4. /\ d \in Config
          /\ req[r].kind # "settings" => d.trace = c.trace
          /\ KeptTable(d.provider, typed, recreated \cup Creates(req[r]))
          /\ ~overlap => References(d)
          /\ req[r].kind = "provider" /\ req[r].verb = "update" =>
               d.provider[req[r].name] = req[r].body
      <3>1. d = Apply(req[r], c)
        BY DEF d
      <3>2. req[r].kind = "provider" /\ req[r].verb = "update" =>
              d.provider[req[r].name] = req[r].body
        BY <1>0, <2>1, <2>2, <3>1, ApplyUpdates
      <3> QED BY <1>0, <1>2, <2>1, <2>2, <2>3, <3>1, <3>2, ApplySound
    <2>5. /\ y \in Requested /\ y.copy = d
          /\ y.verb = req[r].verb /\ y.kind = req[r].kind
          /\ y.name = req[r].name /\ y.body = req[r].body /\ y.same = req[r].same
      <3>1. d \in MaybeConfig
        BY <2>4 DEF MaybeConfig
      <3> QED BY <2>1, <3>1 DEF Requested
    <2>6. req' = [req EXCEPT ![r] = x]
      BY <1>2 DEF Advance
    <2> HIDE DEF y
    <2>7. /\ x \in Requested /\ Copied(x) /\ x.copy = d
          /\ x.verb = req[r].verb /\ x.kind = req[r].kind /\ x.name = req[r].name
          /\ x.same = req[r].same
          /\ x.stage = "rename" => x.kind = "settings" /\ x.gw \in Gateways
          /\ x.stage # "swap"
      <3>1. CASE y.kind = "settings"
        <4>1. y.body \in Setting
          BY <2>1, <2>5, <3>1 DEF RequestForm
        <4>2. y.body.gateway \in Gateways /\ y.body.gateway \in MaybeGateway
          BY <4>1 DEF Gateways, MaybeGateway
        <4>3. x = [y EXCEPT !.gw = y.body.gateway, !.stage = "rename"]
          BY <3>1
        <4> QED BY <2>5, <3>1, <4>2, <4>3 DEF Requested, Copied
      <3>2. CASE y.kind # "settings"
        <4>1. x = [y EXCEPT !.stage = "gateway"]
          BY <3>2
        <4> QED BY <2>5, <4>1 DEF Requested, Copied
      <3> QED BY <3>1, <3>2
    <2> HIDE DEF x
    <2>8. RequestForm(x)
      BY <2>1, <2>4, <2>7 DEF RequestForm, Preparing, Copied
    <2>9. KeptRequest(x, typed, recreated)
      <3>1. Creates(x) = Creates(req[r])
        BY <2>7 DEF Creates
      <3> QED BY <2>4, <2>7, <3>1 DEF KeptRequest, Preparing, Copied
    <2>10. ~overlap => CopyCurrent(x, file)
      <3>1. ~overlap /\ x.same => x.copy.provider[x.name] = file.cfg.provider[x.name]
        BY <2>1, <2>4, <2>7 DEF CopyCurrent, c
      <3>2. ~Preparing(x)
        BY <2>7 DEF Preparing, Copied
      <3> QED BY <2>4, <2>7, <3>1, <3>2 DEF CopyCurrent, Copied, c
    <2>11. RequestSound(x, file, typed, recreated, overlap)
      BY <2>8, <2>9, <2>10 DEF RequestSound
    <2>12. Writing(x) => Writing(req[r])
      BY <1>0, <2>7 DEF Writing
    <2> QED BY <1>0, <2>6, <2>7, <2>11, <2>12, HandlerAssembled
  <1> QED BY <1>1, <1>2 DEF LoadConfig

(* The file changes: the copy becomes its content. *)
LEMMA RenameKeeps ==
  ASSUME DesktopInv, NEW r \in Request, Rename(r)
  PROVE  DesktopInv'
  <1> DEFINE x == Forget(req[r], "build")
  <1>0. req[r].stage = "rename"
    BY DEF Rename
  <1>1. /\ req[r] \in Requested /\ RequestForm(req[r])
        /\ KeptRequest(req[r], typed, recreated)
        /\ ~overlap => CopyCurrent(req[r], file)
    BY <1>0, RequestTypes DEF DesktopInv, RowsKept, SoleWriter, Busy
  <1>2. /\ Copied(req[r]) /\ req[r].copy \in Config /\ req[r].gw \in Gateways
        /\ req[r].kind = "provider" => req[r].name \in Provider
        /\ KeptTable(req[r].copy.provider, typed, recreated \cup Creates(req[r]))
        /\ ~overlap => References(req[r].copy)
        /\ Writing(req[r])
    BY <1>0, <1>1 DEF RequestForm, KeptRequest, CopyCurrent, Copied, Writing
  <1>3. x \in Requested /\ x.stage = "build"
    BY <1>1, ForgetSound
  <1>4. /\ UNCHANGED <<live, page, view, loading, loads, dialog, unread, overlap, typed,
                       writes, handEdits>>
        /\ recreated' = recreated \cup Creates(req[r])
        /\ file' = [ok |-> TRUE, cfg |-> req[r].copy, gateway |-> req[r].gw]
        /\ req' = [req EXCEPT ![r] = x]
    BY DEF Rename, Advance, Creates, ui
  <1> HIDE DEF x
  <1>5. RequestsMove({r}) /\ req'[r] = x
    BY <1>3, <1>4, OneMoves DEF DesktopInv
  <1>6. file' \in [ok : BOOLEAN, cfg : Config, gateway : Gateways] /\ file'.cfg = req[r].copy
    BY <1>2, <1>4
  <1>7. RequestSound(x, file', typed', recreated', overlap')
    BY <1>3, SpentSound
  <1>8. DesktopTypeOK'
    <2>1. recreated' \subseteq Provider
      BY <1>2, <1>4 DEF DesktopInv, DesktopTypeOK, StateTypes, Creates
    <2>2. dialog' \in Dialogs(page')
      BY <1>4 DEF DesktopInv, DesktopTypeOK, StateTypes
    <2>3. StateTypes'
      BY <1>4, <1>6, <2>1, <2>2 DEF DesktopInv, DesktopTypeOK, StateTypes
    <2> QED BY <1>5, <1>7, <2>3, TypesAssembled DEF DesktopInv
  <1>9. RowsKept'
    <2>1. Grown
      BY <1>4 DEF Grown
    <2>2. KeptTable(file'.cfg.provider, typed', recreated')
      BY <1>2, <1>4, <1>6
    <2>3. TablesKept
      BY DEF DesktopInv, RowsKept
    <2>4. /\ KeptTable(view'.provider, typed', recreated')
          /\ \A l \in Load : loads'[l].on => KeptTable(loads'[l].got.provider, typed', recreated')
      BY <1>4, <2>1, <2>3, KeptTableGrows DEF TablesKept
    <2>5. ASSUME page = "provider", dialog.kind = "edit"
          PROVE  KeptEntry(dialog.name, dialog.row, typed', recreated')
      BY <1>4, <2>3, <2>5 DEF TablesKept, KeptEntry
    <2>6. TablesKept'
      BY <1>4, <2>2, <2>4, <2>5 DEF TablesKept, KeptTable, KeptEntry
    <2> QED BY <1>5, <1>7, <2>1, <2>6, RowsAssembled DEF DesktopInv
  <1>10. BuildsFollow'
    <2>1. req'[r].stage = "build"
      BY <1>3, <1>5
    <2>2. ASSUME NEW o \in Request, req'[o].stage = "swap" PROVE req[o].stage = "swap"
      <3>1. o # r
        BY <2>1, <2>2
      <3>2. Like(req'[o], req[o])
        BY <1>5, <3>1 DEF RequestsMove
      <3> QED BY <2>2, <3>2 DEF Like
    <2>3. \A r1, r2 \in Request : req'[r1].stage = "swap" /\ req'[r2].stage = "swap" => r1 = r2
      BY <2>2 DEF DesktopInv, BuildsFollow
    <2>4. (\E o \in Request : req[o].stage = "build")'
      BY <2>1
    <2> QED BY <2>3, <2>4 DEF BuildsFollow
  <1>11. SoleWriter'
    <2> SUFFICES ASSUME ~overlap
                 PROVE  /\ \A r1, r2 \in Request :
                             Writing(req'[r1]) /\ Writing(req'[r2]) => r1 = r2
                        /\ References(file'.cfg)
                        /\ \A o \in Request : req'[o].stage # "idle" => CopyCurrent(req'[o], file')
      BY <1>4 DEF SoleWriter, Writing, References, Known, CopyCurrent, Busy, Copied
    <2>1. \A r1, r2 \in Request : Writing(req[r1]) /\ Writing(req[r2]) => r1 = r2
      BY DEF DesktopInv, SoleWriter
    <2>2. ASSUME NEW o \in Request, o # r
          PROVE  /\ ~Writing(req'[o])
                 /\ req'[o].stage # "idle" => CopyCurrent(req'[o], file')
      <3>1. Like(req'[o], req[o])
        BY <1>5, <2>2 DEF RequestsMove
      <3>2. ~Writing(req[o])
        BY <1>2, <2>1, <2>2
      <3>3. ~Writing(req'[o])
        BY <3>1, <3>2 DEF Writing, Like
      <3>4. req'[o].stage # "idle" => ~Preparing(req'[o]) /\ ~Copied(req'[o])
        <4>1. req'[o].stage # "idle" => RequestForm(req'[o])
          BY <1>8 DEF DesktopTypeOK, Busy, RequestForm, Preparing, Copied
        <4> QED BY <3>3, <4>1 DEF RequestForm, Writing
      <3>5. req'[o].stage # "idle" => CopyCurrent(req'[o], file')
        BY <3>4 DEF CopyCurrent, Preparing, Copied
      <3> QED BY <3>3, <3>5
    <2>3. req'[r].stage # "idle" => CopyCurrent(req'[r], file')
      BY <1>3, <1>5 DEF CopyCurrent, Preparing, Copied
    <2>4. References(file'.cfg)
      BY <1>2, <1>6
    <2> QED BY <2>2, <2>3, <2>4
  <1> QED BY <1>8, <1>9, <1>10, <1>11 DEF DesktopInv

(* Steps that leave the file, the page and what the user typed alone. *)
LEMMA RebuildAssembled ==
  ASSUME DesktopInv, UNCHANGED <<file, ui, overlap, recreated, typed, writes, handEdits>>,
         live' \in Config, unread' \in BOOLEAN, BuildsFollow',
         NEW r \in Request, NEW x \in Requested, req' = [req EXCEPT ![r] = x],
         x.stage \in {"swap", "answer"}, Writing(x) => Writing(req[r])
  PROVE  DesktopInv'
  <1>1. RequestsMove({r}) /\ req'[r] = x
    BY OneMoves DEF DesktopInv
  <1>2. StateTypes'
    <2>1. dialog' \in Dialogs(page')
      BY DEF DesktopInv, DesktopTypeOK, StateTypes, ui
    <2> QED BY <2>1 DEF DesktopInv, DesktopTypeOK, StateTypes, ui
  <1>3. TablesKept'
    BY DEF DesktopInv, RowsKept, TablesKept, ui, KeptTable, KeptEntry
  <1>4. Grown
    BY DEF Grown
  <1>5. RequestSound(req'[r], file', typed', recreated', overlap')
    BY <1>1, SpentSound
  <1> QED BY <1>1, <1>2, <1>3, <1>4, <1>5, Assembled

LEMMA SourceType ==
  ASSUME DesktopInv
  PROVE  Source \in MaybeConfig
  BY DEF DesktopInv, DesktopTypeOK, StateTypes, Source, MaybeConfig

LEMMA EmptyConfigType == EmptyConfig \in Config
  BY DEF EmptyConfig, Config

(* The rebuild reads the file under its lock: it is now the build under way. *)
LEMMA BuildReadKeeps ==
  ASSUME DesktopInv, NEW r \in Request, BuildRead(r)
  PROVE  DesktopInv'
  <1> DEFINE x == [req[r] EXCEPT !.read = Source, !.stage = "swap"]
  <1>0. /\ req[r].stage = "build" /\ Unlocked /\ unread' = FALSE
        /\ UNCHANGED <<server, ui, overlap, recreated, typed, writes, handEdits>>
        /\ req' = [req EXCEPT ![r] = x]
    BY DEF BuildRead, Advance
  <1>1. req[r] \in Requested /\ Source \in MaybeConfig
    BY <1>0, RequestTypes, SourceType DEF DesktopInv
  <1>2. /\ x \in Requested /\ x.stage = "swap" /\ x.read = Source /\ x.verb = req[r].verb
    BY <1>1 DEF Requested
  <1> HIDE DEF x
  <1>3. RequestsMove({r}) /\ req'[r] = x
    BY <1>0, <1>2, OneMoves DEF DesktopInv
  <1>4. \A o \in Request : req'[o].stage = "swap" => o = r
    BY <1>0, <1>3 DEF RequestsMove, Like, Unlocked
  <1>5. (\E o \in Request : req[o].stage = "swap" /\ req[o].read = Source)'
    BY <1>0, <1>2, <1>3 DEF Source, server
  <1>6. BuildsFollow'
    BY <1>4, <1>5 DEF BuildsFollow
  <1>7. Writing(x) => Writing(req[r])
    BY <1>0, <1>2 DEF Writing
  <1>8. live' \in Config
    BY <1>0 DEF DesktopInv, DesktopTypeOK, StateTypes, server
  <1> QED BY <1>0, <1>2, <1>6, <1>7, <1>8, RebuildAssembled DEF server

(* The swap ends the build under way: no other has read the file. *)
LEMMA SwapKeeps ==
  ASSUME DesktopInv, NEW r \in Request, Swap(r)
  PROVE  DesktopInv'
  <1> DEFINE c == Effective(req[r].read)
             y == Forget(req[r], "answer")
             x == [y EXCEPT !.ok = (req[r].verb # "reload" \/ Buildable(c))]
  <1>0. /\ req[r].stage = "swap" /\ live' = IF Buildable(c) THEN c ELSE live
        /\ UNCHANGED <<file, ui, history, writes, handEdits>>
        /\ req' = [req EXCEPT ![r] = x]
    BY DEF Swap, Advance
  <1>1. req[r] \in Requested
    BY <1>0, RequestTypes DEF DesktopInv
  <1>2. y \in Requested /\ y.stage = "answer" /\ y.verb = req[r].verb
    BY <1>1, ForgetSound
  <1> HIDE DEF y
  <1>3. x \in Requested /\ x.stage = "answer" /\ x.verb = req[r].verb
    <2>1. (req[r].verb # "reload" \/ Buildable(c)) \in BOOLEAN
      OBVIOUS
    <2> HIDE DEF c
    <2> QED BY <1>2, <2>1 DEF Requested
  <1> HIDE DEF x
  <1>4. RequestsMove({r}) /\ req'[r] = x
    BY <1>0, <1>3, OneMoves DEF DesktopInv
  <1>5. live' \in Config
    <2>1. req[r].read \in MaybeConfig
      BY <1>1 DEF Requested
    <2>2. c \in Config
      BY <2>1, EmptyConfigType DEF Effective, MaybeConfig
    <2> HIDE DEF c
    <2> QED BY <1>0, <2>2 DEF DesktopInv, DesktopTypeOK, StateTypes
  <1>6. BuildsFollow'
    <2>1. \A o \in Request : req[o].stage = "swap" => o = r
      BY <1>0 DEF DesktopInv, BuildsFollow
    <2>2. ASSUME NEW o \in Request
          PROVE  /\ req'[o].stage # "swap"
                 /\ req[o].stage = "build" => req'[o].stage = "build"
      <3>1. CASE o = r
        BY <1>0, <1>3, <1>4, <3>1
      <3>2. CASE o # r
        BY <1>4, <2>1, <3>2 DEF RequestsMove, Like
      <3> QED BY <3>1, <3>2
    <2>3. ASSUME ~unread, \A o \in Request : req'[o].stage # "build"
          PROVE  live' = Effective(Source) \/ ~Buildable(Effective(Source))
      <3>1. \A o \in Request : req[o].stage # "build"
        BY <2>2, <2>3
      <3>2. req[r].read = Source
        BY <1>0, <2>1, <2>3, <3>1 DEF DesktopInv, BuildsFollow
      <3> QED BY <1>0, <3>2
    <2>4. /\ Source' = Source /\ unread' = unread
          /\ Effective(Source)' = Effective(Source)
          /\ Buildable(Effective(Source))' <=> Buildable(Effective(Source))
      BY <1>0 DEF Effective, Buildable, Known, Source, history
    <2> QED BY <2>2, <2>3, <2>4 DEF BuildsFollow
  <1>7. Writing(x) => Writing(req[r])
    BY <1>0, <1>3 DEF Writing
  <1>8. unread' \in BOOLEAN
    BY <1>0 DEF DesktopInv, DesktopTypeOK, StateTypes, history
  <1> QED BY <1>0, <1>3, <1>5, <1>6, <1>7, <1>8, RebuildAssembled DEF history

----------------------------------------------------------------------------
(* The mounted page *)

LoadKept(x) == x.on => KeptTable(x.got.provider, typed, recreated)

(* A step of the page alone, which may also end the request in a slot. *)
LEMMA PageAssembled ==
  ASSUME DesktopInv, UNCHANGED <<server, history, writes, handEdits>>,
         page' \in Page, view' \in Config, loading' \in BOOLEAN,
         loads' \in [Load -> {NoLoad} \cup Loaded], dialog' \in Dialogs(page'),
         KeptTable(view'.provider, typed, recreated),
         \A l \in Load : LoadKept(loads'[l]),
         page' = "provider" /\ dialog'.kind = "edit" =>
           KeptEntry(dialog'.name, dialog'.row, typed, recreated),
         NEW S \in SUBSET Request, RequestsMove(S), \A r1, r2 \in S : r1 = r2,
         \A r \in S : req'[r] = Idle /\ req[r].stage = "answer"
  PROVE  DesktopInv'
  <1>1. StateTypes'
    BY DEF DesktopInv, DesktopTypeOK, StateTypes, server, history
  <1>2. TablesKept'
    <2>1. KeptTable(file'.cfg.provider, typed', recreated')
      BY DEF DesktopInv, RowsKept, TablesKept, server, history
    <2>2. typed' = typed /\ recreated' = recreated
      BY DEF history
    <2> QED BY <2>1, <2>2 DEF TablesKept, LoadKept, KeptTable, KeptEntry
  <1>3. Grown
    BY DEF Grown, history
  <1>4. \A r \in S : req'[r].stage = "idle"
    BY IdleOrBusy
  <1>5. BuildsFollow'
    BY <1>4, QuietBuilds DEF DesktopInv, server, history
  <1>6. \A r \in S : RequestSound(req'[r], file', typed', recreated', overlap')
                     /\ ~Writing(req'[r])
    BY <1>4, SpentSound DEF Writing
  <1> QED BY <1>1, <1>2, <1>3, <1>5, <1>6, Assembled DEF server, history

(* The page as it is. *)
LEMMA PageTypes ==
  ASSUME DesktopInv
  PROVE  /\ page \in Page /\ view \in Config /\ loading \in BOOLEAN
         /\ loads \in [Load -> {NoLoad} \cup Loaded] /\ dialog \in Dialogs(page)
         /\ KeptTable(view.provider, typed, recreated)
         /\ \A l \in Load : LoadKept(loads[l])
         /\ page = "provider" /\ dialog.kind = "edit" =>
              KeptEntry(dialog.name, dialog.row, typed, recreated)
         /\ file.cfg \in Config /\ KeptTable(file.cfg.provider, typed, recreated)
  BY DEF DesktopInv, DesktopTypeOK, StateTypes, RowsKept, TablesKept, LoadKept

(* A load that starts, a slot without one, and a page not loaded yet. *)
LEMMA EmptySound ==
  /\ NoLoad \in {NoLoad} \cup Loaded /\ LoadKept(NoLoad)
  /\ \A p \in Page : NewLoad(p) \in Loaded /\ LoadKept(NewLoad(p))
  /\ EmptyConfig \in Config /\ KeptTable(EmptyConfig.provider, typed, recreated)
  /\ \A p : NoDialog \in Dialogs(p)
  /\ NoDialog.kind # "edit"
  <1>1. EmptyConfig \in Config /\ KeptTable(EmptyConfig.provider, typed, recreated)
    BY EmptyConfigType DEF KeptTable, EmptyConfig
  <1>2. NoLoad \in {NoLoad} \cup Loaded /\ LoadKept(NoLoad)
    BY DEF NoLoad, LoadKept
  <1>3. ASSUME NEW p \in Page PROVE NewLoad(p) \in Loaded /\ LoadKept(NewLoad(p))
    <2> DEFINE x == NewLoad(p)
    <2>1. Sections(p) \in SUBSET {"provider", "model", "route", "trace"}
      BY DEF Sections, Page, ProvidersLoad, ModelsLoad, RoutesLoad, SettingsLoad
    <2>2. x \in Loaded /\ x.got = EmptyConfig
      BY <1>1, <2>1 DEF NewLoad, Loaded
    <2> QED BY <1>1, <2>2 DEF LoadKept
  <1>4. (\A p : NoDialog \in Dialogs(p)) /\ NoDialog.kind # "edit"
    BY DEF Dialogs, NoDialog
  <1> QED BY <1>1, <1>2, <1>3, <1>4

LEMMA NavigateKeeps ==
  ASSUME DesktopInv, NEW p \in Page, Navigate(p)
  PROVE  DesktopInv'
  <1> DEFINE S == {r \in Request : Busy(r)}
             first == CHOOSE l \in Load : TRUE
  <1>1. RequestsMove({})
    <2>1. req' = [r \in Request |-> IF r \in S THEN [req[r] EXCEPT !.owner = "none"]
                                    ELSE req[r]]
      BY DEF Navigate
    <2>2. S \in SUBSET Request /\ \A r \in S : Busy(r)
      OBVIOUS
    <2> HIDE DEF S
    <2>3. "none" \in Owner
      BY DEF Owner
    <2> QED BY <2>1, <2>2, <2>3, OwnersLeave DEF DesktopInv, RequestsMove
  <1>2. loads' = [l \in Load |-> IF l = first /\ Sections(p) # {} THEN NewLoad(p) ELSE NoLoad]
    BY DEF Navigate
  <1> HIDE DEF first
  <1>3. /\ loads' \in [Load -> {NoLoad} \cup Loaded]
        /\ \A l \in Load : LoadKept(loads'[l])
    BY <1>2, EmptySound
  <1>4. /\ page' = p /\ view' = EmptyConfig /\ loading' \in BOOLEAN /\ dialog' = NoDialog
        /\ UNCHANGED <<server, history, writes, handEdits>>
    BY DEF Navigate
  <1> QED BY <1>1, <1>3, <1>4, EmptySound, PageAssembled

(* A list call stores one section of the file. *)
LEMMA ReadListKeeps ==
  ASSUME DesktopInv, NEW l \in Load, ReadList(l)
  PROVE  DesktopInv'
  <1>0. /\ UNCHANGED <<server, req, page, view, loading, dialog, history, writes, handEdits>>
        /\ loads[l].on
    BY DEF ReadList
  <1>1. loads[l] \in Loaded /\ LoadKept(loads[l])
    BY <1>0, PageTypes DEF NoLoad
  <1> DEFINE y(s) == [loads[l] EXCEPT !.todo = loads[l].todo \ {s}, !.got[s] = file.cfg[s]]
             z == [loads[l] EXCEPT !.bad = TRUE]
  <1>2. PICK s \in loads[l].todo :
          loads' = [loads EXCEPT ![l] = IF file.ok THEN y(s) ELSE z]
    BY DEF ReadList
  <1>3. s \in {"provider", "model", "route", "trace"} /\ loads[l].got \in Config
        /\ loads[l].todo \in SUBSET {"provider", "model", "route", "trace"}
    BY <1>1 DEF Loaded
  <1> DEFINE got == [loads[l].got EXCEPT ![s] = file.cfg[s]]
             x == IF file.ok THEN [loads[l] EXCEPT !.todo = loads[l].todo \ {s}, !.got = got]
                  ELSE [loads[l] EXCEPT !.bad = TRUE]
  <1>4. loads' = [loads EXCEPT ![l] = x]
    <2>1. y(s) = [loads[l] EXCEPT !.todo = loads[l].todo \ {s}, !.got = got]
      BY <1>1 DEF Loaded
    <2>2. x = IF file.ok THEN y(s) ELSE z
      BY <2>1
    <2> HIDE DEF x, y, z
    <2> QED BY <1>2, <2>2
  <1>5. /\ got \in Config
        /\ got.provider = loads[l].got.provider \/ got.provider = file.cfg.provider
    BY <1>3, PageTypes DEF Config
  <1> HIDE DEF got
  <1>6. x \in Loaded /\ LoadKept(x)
    <2>1. CASE file.ok
      <3>1. x = [loads[l] EXCEPT !.todo = loads[l].todo \ {s}, !.got = got]
        BY <2>1
      <3>2. loads[l].todo \ {s} \in SUBSET {"provider", "model", "route", "trace"}
        BY <1>3
      <3>3. x \in Loaded /\ x.got = got /\ x.on = TRUE
        BY <1>1, <1>5, <3>1, <3>2 DEF Loaded
      <3> QED BY <1>0, <1>1, <1>5, <3>3, PageTypes DEF LoadKept
    <2>2. CASE ~file.ok
      <3>1. x = [loads[l] EXCEPT !.bad = TRUE]
        BY <2>2
      <3>2. x \in Loaded /\ x.got = loads[l].got
        BY <1>1, <3>1 DEF Loaded
      <3> QED BY <1>0, <1>1, <3>2 DEF LoadKept
    <2> QED BY <2>1, <2>2
  <1> HIDE DEF x
  <1>7. /\ loads' \in [Load -> {NoLoad} \cup Loaded]
        /\ \A j \in Load : LoadKept(loads'[j])
    BY <1>4, <1>6, PageTypes
  <1>8. RequestsMove({})
    BY <1>0, NoneMoves DEF DesktopInv
  <1> QED BY <1>0, <1>7, <1>8, PageTypes, PageAssembled

LEMMA FinishLoadKeeps ==
  ASSUME DesktopInv, NEW l \in Load, FinishLoad(l)
  PROVE  DesktopInv'
  <1>0. /\ UNCHANGED <<server, req, page, dialog, history, writes, handEdits>>
        /\ loads[l].on /\ loading' = FALSE /\ loads' = [loads EXCEPT ![l] = NoLoad]
        /\ view' = view \/ view' = loads[l].got
    BY DEF FinishLoad
  <1>1. loads[l] \in Loaded /\ LoadKept(loads[l])
    BY <1>0, PageTypes DEF NoLoad
  <1>2. loads[l].got \in Config
    BY <1>1 DEF Loaded
  <1>3. view' \in Config /\ KeptTable(view'.provider, typed, recreated)
    BY <1>0, <1>1, <1>2, PageTypes DEF LoadKept
  <1>4. /\ loads' \in [Load -> {NoLoad} \cup Loaded]
        /\ \A j \in Load : LoadKept(loads'[j])
    BY <1>0, EmptySound, PageTypes
  <1>5. RequestsMove({})
    BY <1>0, NoneMoves DEF DesktopInv
  <1> QED BY <1>0, <1>3, <1>4, <1>5, PageTypes, PageAssembled

(* The row an edit dialog shows is the table's, and a provider's is an entry. *)
LEMMA OpenDialogKeeps ==
  ASSUME DesktopInv, OpenDialog
  PROVE  DesktopInv'
  <1> DEFINE Offer == CASE page = "provider" -> ProvidersOffer
                        [] page = "model" -> ModelsOffer
                        [] page = "route" -> RoutesOffer
                        [] OTHER -> {}
  <1>0. UNCHANGED <<server, req, page, view, loading, loads, history, writes, handEdits>>
    BY DEF OpenDialog
  <1>1. PICK d \in Offer :
          dialog' = IF d.kind = "edit"
                      THEN [kind |-> "edit", name |-> d.name, row |-> view[page][d.name]]
                      ELSE d
    BY DEF OpenDialog
  <1>2. page \in {"provider", "model", "route"}
    BY PageTypes DEF Page
  <1>3. /\ Known(view) \subseteq Provider
        /\ Models(view) \subseteq Alias /\ Routes(view) \subseteq Alias
    BY DEF Known, Models, Routes
  <1> DEFINE Shown == IF page = "provider" THEN Known(view)
                      ELSE IF page = "model" THEN Models(view) ELSE Routes(view)
  <1>4. \/ d = [kind |-> "create"]
        \/ d \in [kind : {"delete", "detail"}, name : Shown]
        \/ d \in [kind : {"edit"}, name : Shown]
    BY <1>1, <1>2 DEF ProvidersOffer, ModelsOffer, RoutesOffer
  <1>5. Shown \subseteq EntryNames(page)
    BY <1>2, <1>3 DEF EntryNames
  <1>6. CASE d = [kind |-> "create"]
    <2>1. dialog' = d /\ d.kind # "edit"
      BY <1>1, <1>6
    <2>2. d \in Dialogs(page)
      BY <1>2, <1>6 DEF Dialogs
    <2>3. RequestsMove({})
      BY <1>0, NoneMoves DEF DesktopInv
    <2> QED BY <1>0, <2>1, <2>2, <2>3, PageTypes, PageAssembled
  <1>7. CASE d \in [kind : {"delete", "detail"}, name : Shown]
    <2>1. dialog' = d /\ d.kind # "edit"
      BY <1>1, <1>7
    <2>2. d \in Dialogs(page)
      BY <1>2, <1>5, <1>7 DEF Dialogs
    <2>3. RequestsMove({})
      BY <1>0, NoneMoves DEF DesktopInv
    <2> QED BY <1>0, <2>1, <2>2, <2>3, PageTypes, PageAssembled
  <1>8. CASE d \in [kind : {"edit"}, name : Shown]
    <2> DEFINE row == view[page][d.name]
    <2>1. dialog' = [kind |-> "edit", name |-> d.name, row |-> row]
      BY <1>1, <1>8
    <2>2. d.name \in Shown /\ d.name \in EntryNames(page)
      BY <1>5, <1>8
    <2>3. row \in EntryRows(page)
      <3>1. CASE page = "provider"
        BY <2>2, <3>1, PageTypes DEF EntryRows, Config, Known
      <3>2. CASE page = "model"
        BY <2>2, <3>2, PageTypes DEF EntryRows, Config, Models
      <3>3. CASE page = "route"
        BY <2>2, <3>3, PageTypes DEF EntryRows, Config, Routes
      <3> QED BY <1>2, <3>1, <3>2, <3>3
    <2>4. page = "provider" => KeptEntry(d.name, row, typed, recreated)
      BY <2>2, PageTypes DEF KeptTable, Known
    <2> HIDE DEF row
    <2>5. dialog' \in Dialogs(page) /\ dialog'.name = d.name /\ dialog'.row = row
      BY <1>2, <2>1, <2>2, <2>3 DEF Dialogs
    <2>6. RequestsMove({})
      BY <1>0, NoneMoves DEF DesktopInv
    <2> QED BY <1>0, <2>4, <2>5, <2>6, PageTypes, PageAssembled
  <1> QED BY <1>4, <1>6, <1>7, <1>8

LEMMA CloseDialogKeeps ==
  ASSUME DesktopInv, CloseDialog
  PROVE  DesktopInv'
  <1> DEFINE S == {r \in Request : Busy(r) /\ req[r].owner = "form"}
  <1>0. /\ UNCHANGED <<server, page, view, loading, loads, history, writes, handEdits>>
        /\ dialog' = NoDialog
    BY DEF CloseDialog
  <1>1. RequestsMove({})
    <2>1. req' = [r \in Request |-> IF r \in S THEN [req[r] EXCEPT !.owner = "page"]
                                    ELSE req[r]]
      BY DEF CloseDialog
    <2>2. S \in SUBSET Request /\ \A r \in S : Busy(r)
      OBVIOUS
    <2> HIDE DEF S
    <2>3. "page" \in Owner
      BY DEF Owner
    <2> QED BY <2>1, <2>2, <2>3, OwnersLeave DEF DesktopInv, RequestsMove
  <1> QED BY <1>0, <1>1, EmptySound, PageTypes, PageAssembled

LEMMA AnswerKeeps ==
  ASSUME DesktopInv, NEW r \in Request, Answer(r)
  PROVE  DesktopInv'
  <1>0. /\ UNCHANGED <<server, page, view, history, writes, handEdits>>
        /\ req[r].stage = "answer"
    BY DEF Answer
  <1>1. CASE req' = [req EXCEPT ![r] = Idle] /\ UNCHANGED <<loads, dialog, loading>>
    <2>1. RequestsMove({r}) /\ req'[r] = Idle
      BY <1>1, OneMoves DEF DesktopInv
    <2> QED BY <1>0, <1>1, <2>1, PageTypes, PageAssembled
  <1>2. CASE /\ \E l \in Load : loads' = [loads EXCEPT ![l] = NewLoad(page)]
             /\ dialog' = dialog \/ dialog' = NoDialog
             /\ loading' = TRUE
             /\ req' = [Detached("page") EXCEPT ![r] = Idle]
    <2> DEFINE S == {o \in Request : req[o].stage # "idle" /\ req[o].owner \in {"form", "confirm"}}
               f == Detached("page")
    <2>1. f = [o \in Request |-> IF o \in S THEN [req[o] EXCEPT !.owner = "page"] ELSE req[o]]
      BY DEF Detached
    <2>2. S \in SUBSET Request /\ \A o \in S : Busy(o)
      BY DEF Busy
    <2> HIDE DEF S, f
    <2>3. "page" \in Owner
      BY DEF Owner
    <2>4. /\ f \in [Request -> {Idle} \cup Requested]
          /\ \A o \in Request : Like(f[o], req[o])
      BY <2>1, <2>2, <2>3, OwnersLeave DEF DesktopInv
    <2>5. req' = [f EXCEPT ![r] = Idle]
      BY <1>2 DEF f
    <2>6. /\ req' \in [Request -> {Idle} \cup Requested] /\ req'[r] = Idle
          /\ \A o \in Request \ {r} : req'[o] = f[o]
      BY <2>4, <2>5
    <2>7. RequestsMove({r})
      BY <2>4, <2>6 DEF RequestsMove
    <2>8. /\ loads' \in [Load -> {NoLoad} \cup Loaded]
          /\ \A l \in Load : LoadKept(loads'[l])
      <3>1. PICK l \in Load : loads' = [loads EXCEPT ![l] = NewLoad(page)]
        BY <1>2
      <3>2. NewLoad(page) \in Loaded /\ LoadKept(NewLoad(page))
        BY EmptySound, PageTypes
      <3> QED BY <3>1, <3>2, PageTypes
    <2>9. /\ dialog' \in Dialogs(page')
          /\ page' = "provider" /\ dialog'.kind = "edit" =>
               KeptEntry(dialog'.name, dialog'.row, typed, recreated)
      BY <1>0, <1>2, EmptySound, PageTypes
    <2> QED BY <1>0, <1>2, <2>6, <2>7, <2>8, <2>9, PageTypes, PageAssembled
  <1> QED BY <1>1, <1>2 DEF Answer

----------------------------------------------------------------------------
(* What the user sends, and what is edited outside *)

(* A new request, of a kind its body fits, with credentials the user gave. *)
LEMMA SendKeeps ==
  ASSUME DesktopInv, UNCHANGED <<server, ui, handEdits, unread, recreated>>,
         typed' \in [Provider -> SUBSET Cred], \A p \in Provider : typed[p] \subseteq typed'[p],
         NEW verb \in {"create", "update", "delete", "reload"},
         NEW kind \in {"provider", "model", "route", "settings", Nil},
         NEW name \in Names, NEW body \in Bodies, NEW owner \in Owner, NEW same \in BOOLEAN,
         SendForm(verb, kind, name, body, owner, same),
         same => kind = "provider" /\ verb = "update" /\ body = file.cfg.provider[name],
         verb # "reload" =>
           \/ kind = "settings" /\ body \in Setting
           \/ /\ kind = "provider" /\ name \in Provider
              /\ verb # "delete" => /\ body \in Entry
                                    /\ body.cred \in typed'[name]
                                    /\ verb = "create" \/ KeptEntry(name, body, typed', recreated)
           \/ /\ kind \in {"model", "route"} /\ name \in Alias
              /\ verb # "delete" => body \in SUBSET Provider
  PROVE  DesktopInv'
  <1> DEFINE x == NewRequest(verb, kind, name, body, owner, same)
  <1>0. PICK r \in Request : ~Busy(r) /\ req' = [req EXCEPT ![r] = x]
    BY DEF SendForm
  <1>1. /\ writes' = writes + 1
        /\ overlap' = (overlap \/ (InFlight # {} /\ verb # "reload"))
    BY DEF SendForm
  <1>2. /\ x \in Requested
        /\ x.verb = verb /\ x.kind = kind /\ x.name = name /\ x.body = body
        /\ x.same = same
        /\ x.stage = CASE verb = "reload" -> "build"
                       [] kind \in {"model", "route"} /\ verb \in {"create", "update"} -> "validate"
                       [] OTHER -> "load"
    <2> DEFINE stage == CASE verb = "reload" -> "build"
                          [] kind \in {"model", "route"} /\ verb \in {"create", "update"} -> "validate"
                          [] OTHER -> "load"
    <2>1. stage \in {"validate", "load", "build"}
      OBVIOUS
    <2>2. x = [verb |-> verb, kind |-> kind, name |-> name, body |-> body,
               same |-> same, owner |-> owner, ok |-> FALSE, copy |-> Nil, gw |-> Nil, read |-> Nil,
               stage |-> stage]
      BY DEF NewRequest
    <2>3. Nil \in MaybeConfig /\ Nil \in MaybeGateway
      BY DEF MaybeConfig, MaybeGateway
    <2> HIDE DEF stage
    <2>4. x \in Requested
      BY <2>1, <2>2, <2>3 DEF Requested, Owner
    <2>5. /\ x.verb = verb /\ x.kind = kind /\ x.name = name /\ x.body = body
          /\ x.same = same /\ x.stage = stage
      BY <2>2
    <2> QED BY <2>4, <2>5 DEF stage
  <1> HIDE DEF x
  <1>3. /\ x.stage \in {"validate", "load", "build"}
        /\ x.stage = "build" <=> verb = "reload"
        /\ x.stage = "load" => ~(kind \in {"model", "route"} /\ verb # "delete")
    BY <1>2
  <1>4. RequestsMove({r}) /\ req'[r] = x /\ req[r].stage = "idle"
    BY <1>0, <1>2, OneMoves DEF DesktopInv, Busy
  <1>5. StateTypes'
    <2>1. dialog' \in Dialogs(page')
      BY DEF DesktopInv, DesktopTypeOK, StateTypes, ui
    <2>2. writes' \in Nat
      BY <1>1 DEF DesktopInv, DesktopTypeOK, StateTypes
    <2>3. overlap' \in BOOLEAN
      BY <1>1
    <2> QED BY <2>1, <2>2, <2>3 DEF DesktopInv, DesktopTypeOK, StateTypes, server, ui
  <1>6. Grown
    BY DEF Grown
  <1>7. TablesKept'
    <2>1. /\ KeptTable(file.cfg.provider, typed', recreated')
          /\ KeptTable(view.provider, typed', recreated')
          /\ \A l \in Load : loads[l].on => KeptTable(loads[l].got.provider, typed', recreated')
      BY <1>6, KeptTableGrows, PageTypes DEF LoadKept
    <2>2. ASSUME page = "provider", dialog.kind = "edit"
          PROVE  KeptEntry(dialog.name, dialog.row, typed', recreated')
      <3>1. dialog.name \in Provider
        BY <2>2, PageTypes DEF Dialogs, NoDialog, EntryNames
      <3> QED BY <1>6, <2>2, <3>1, KeptTableGrows, PageTypes
    <2> QED BY <2>1, <2>2 DEF TablesKept, server, ui, KeptTable, KeptEntry
  <1>8. BuildsFollow'
    BY <1>3, <1>4, QuietBuilds DEF DesktopInv, server
  <1>9. RequestForm(x)
    BY <1>2, <1>3 DEF RequestForm, Preparing, Copied
  <1>10. KeptRequest(x, typed', recreated')
    <2>1. ~Copied(x)
      BY <1>3 DEF Copied
    <2>2. ASSUME Preparing(x), x.kind = "provider", x.verb # "delete"
          PROVE  KeptEntry(x.name, x.body, typed', recreated' \cup Creates(x))
      <3>1. /\ name \in Provider /\ body.cred \in typed'[name]
            /\ verb = "create" \/ KeptEntry(name, body, typed', recreated)
        BY <1>2, <1>3, <2>2 DEF Preparing
      <3>2. verb = "create" => name \in Creates(x)
        BY <1>2, <2>2 DEF Creates
      <3> QED BY <1>2, <3>1, <3>2 DEF KeptEntry
    <2> QED BY <2>1, <2>2 DEF KeptRequest
  <1>11. CopyCurrent(x, file')
    <2>1. ~Copied(x)
      BY <1>3 DEF Copied
    <2>2. file' = file
      BY DEF server
    <2> QED BY <1>2, <1>3, <2>1, <2>2 DEF CopyCurrent, Copied
  <1>12. RequestSound(x, file', typed', recreated', overlap')
    BY <1>9, <1>10, <1>11 DEF RequestSound
  <1>13. ~overlap' /\ Writing(x) => \A o \in Request : ~Writing(req[o])
    <2> SUFFICES ASSUME ~overlap', Writing(x) PROVE \A o \in Request : ~Writing(req[o])
      OBVIOUS
    <2>1. InFlight = {}
      BY <1>1, <1>2 DEF Writing
    <2> QED BY <2>1 DEF InFlight, Busy, Writing
  <1> QED BY <1>1, <1>4, <1>5, <1>6, <1>7, <1>8, <1>12, <1>13, Assembled DEF server

(* A request that is no save of a form left blank. *)
LEMMA PlainSendKeeps ==
  ASSUME DesktopInv, UNCHANGED <<server, ui, handEdits, unread, recreated, typed>>,
         NEW verb \in {"create", "update", "delete", "reload"},
         NEW kind \in {"provider", "model", "route", "settings", Nil},
         NEW name \in Names, NEW body \in Bodies, NEW owner \in Owner,
         Send(verb, kind, name, body, owner),
         verb # "reload" =>
           \/ kind = "settings" /\ body \in Setting
           \/ kind = "provider" /\ name \in Provider /\ verb = "delete"
           \/ /\ kind \in {"model", "route"} /\ name \in Alias
              /\ verb # "delete" => body \in SUBSET Provider
  PROVE  DesktopInv'
  <1>1. SendForm(verb, kind, name, body, owner, FALSE)
    BY DEF Send
  <1>2. /\ typed' \in [Provider -> SUBSET Cred]
        /\ \A p \in Provider : typed[p] \subseteq typed'[p]
    BY DEF DesktopInv, DesktopTypeOK, StateTypes
  <1> QED BY <1>1, <1>2, SendKeeps

(* What the entry of a dialog tells. *)
LEMMA DialogTypes ==
  ASSUME DesktopInv
  PROVE  /\ dialog.kind \in {"create", "edit", "delete", "detail"} =>
              page \in {"provider", "model", "route"}
         /\ dialog.kind = "delete" => dialog.name \in EntryNames(page)
         /\ dialog.kind = "edit" => dialog.name \in EntryNames(page)
                                    /\ dialog.row \in EntryRows(page)
  BY PageTypes DEF Dialogs, NoDialog

LEMMA SubmitProviderKeeps ==
  ASSUME DesktopInv, UNCHANGED <<server, ui, handEdits, unread, recreated>>,
         dialog.kind \in {"create", "edit"}, SubmitProvider
  PROVE  DesktopInv'
  <1>0. page = "provider" /\ typed \in [Provider -> SUBSET Cred]
    BY DEF SubmitProvider, DesktopInv, DesktopTypeOK, StateTypes
  <1> DEFINE verb == IF dialog.kind = "create" THEN "create" ELSE "update"
  <1>1. PICK c \in Cred \cup {Blank}, n \in Provider :
          /\ IF dialog.kind = "create" THEN c # Blank ELSE n = dialog.name
          /\ SendForm(verb, "provider", n, ProviderBody(c), "form",
                      c = Blank /\ dialog.row = file.cfg.provider[n])
          /\ typed' = IF c = Blank THEN typed ELSE [typed EXCEPT ![n] = @ \cup {c}]
    BY DEF SubmitProvider
  <1>2. /\ typed' \in [Provider -> SUBSET Cred]
        /\ \A p \in Provider : typed[p] \subseteq typed'[p]
        /\ c # Blank => c \in typed'[n]
    <2>1. CASE c = Blank
      BY <1>0, <1>1, <2>1
    <2>2. CASE c # Blank
      BY <1>0, <1>1, <2>2
    <2> QED BY <2>1, <2>2
  <1> DEFINE body == ProviderBody(c)
  <1> DEFINE same == c = Blank /\ dialog.row = file.cfg.provider[n]
  <1>3. /\ body \in Entry /\ body.cred \in typed'[n]
        /\ verb = "create" \/ KeptEntry(n, body, typed', recreated)
        /\ same => verb = "update" /\ body = file.cfg.provider[n]
    <2>1. CASE dialog.kind = "create"
      <3>1. body = [cred |-> c, hidden |-> "default"] /\ c \in Cred
        BY <1>1, <2>1 DEF ProviderBody
      <3> QED BY <1>1, <1>2, <2>1, <3>1 DEF Entry
    <2>2. CASE dialog.kind = "edit"
      <3> DEFINE cred == IF c = Blank THEN dialog.row.cred ELSE c
      <3>1. body = [cred |-> cred, hidden |-> dialog.row.hidden]
        BY <2>2 DEF ProviderBody
      <3>2. /\ n = dialog.name /\ dialog.row \in Entry
            /\ KeptEntry(n, dialog.row, typed, recreated)
        BY <1>0, <1>1, <2>2, DialogTypes, PageTypes DEF EntryRows
      <3>3. /\ dialog.row.cred \in Cred /\ dialog.row.hidden \in {"tuned", "default"}
        BY <3>2 DEF Entry
      <3>4. cred \in Cred /\ cred \in typed'[n]
        BY <1>2, <3>2, <3>3 DEF KeptEntry
      <3> HIDE DEF cred
      <3>5. body \in Entry /\ body.cred = cred /\ body.hidden = dialog.row.hidden
        BY <3>1, <3>3, <3>4 DEF Entry
      <3>6. KeptEntry(n, body, typed', recreated)
        BY <3>2, <3>4, <3>5 DEF KeptEntry
      <3>7. same => body = dialog.row
        BY <3>1, <3>2 DEF Entry, cred
      <3> QED BY <2>2, <3>4, <3>5, <3>6, <3>7
    <2> QED BY <2>1, <2>2
  <1> HIDE DEF body
  <1>4. verb \in {"create", "update", "delete", "reload"}
    OBVIOUS
  <1>5. SendForm(verb, "provider", n, body, "form", same)
    BY <1>1 DEF body
  <1>7. same \in BOOLEAN
    OBVIOUS
  <1> HIDE DEF verb, same
  <1>6. n \in Names /\ body \in Bodies /\ "form" \in Owner
    BY <1>3 DEF Names, Bodies, Owner
  <1> QED BY <1>2, <1>3, <1>4, <1>5, <1>6, <1>7, SendKeeps

(* A model or route form sends providers the page knows or the row names. *)
LEMMA SubmitRowsKeeps ==
  ASSUME DesktopInv, UNCHANGED <<server, ui, handEdits, unread, recreated, typed>>,
         dialog.kind \in {"create", "edit"}, SubmitModel \/ SubmitRoute
  PROVE  DesktopInv'
  <1> DEFINE verb == IF dialog.kind = "create" THEN "create" ELSE "update"
             Forms == [name : Alias, rows : SUBSET Provider]
  <1>0. /\ Known(view) \subseteq Provider
        /\ Models(view) \subseteq Alias
        /\ \A a : AllowedProviders(a) \subseteq Known(view)
    BY DEF Known, Models, AllowedProviders
  <1>1. \E kind \in {"model", "route"}, f \in Forms : Send(verb, kind, f.name, f.rows, "form")
    <2>1. CASE SubmitModel
      <3>1. page = "model"
        BY <2>1 DEF SubmitModel
      <3>2. dialog.kind = "edit" => dialog.name \in Alias /\ dialog.row \in SUBSET Provider
        BY <3>1, DialogTypes DEF EntryNames, EntryRows
      <3>3. ModelFormChoices \subseteq Forms
        BY <1>0, <3>2 DEF ModelFormChoices
      <3>4. PICK f \in ModelFormChoices : Send(verb, "model", f.name, f.rows, "form")
        BY <2>1 DEF SubmitModel
      <3> QED BY <3>3, <3>4
    <2>2. CASE SubmitRoute
      <3>1. page = "route"
        BY <2>2 DEF SubmitRoute
      <3>2. dialog.kind = "edit" => dialog.name \in Alias /\ dialog.row \in SUBSET Provider
        BY <3>1, DialogTypes DEF EntryNames, EntryRows
      <3>3. RouteFormChoices \subseteq Forms
        BY <1>0, <3>2 DEF RouteFormChoices
      <3>4. PICK f \in RouteFormChoices : Send(verb, "route", f.name, f.rows, "form")
        BY <2>2 DEF SubmitRoute
      <3> QED BY <3>3, <3>4
    <2> QED BY <2>1, <2>2
  <1>2. PICK kind \in {"model", "route"}, f \in Forms : Send(verb, kind, f.name, f.rows, "form")
    BY <1>1
  <1> DEFINE name == f.name
             rows == f.rows
  <1>3. name \in Alias /\ rows \in SUBSET Provider
    BY <1>2
  <1>4. /\ verb \in {"create", "update", "delete", "reload"}
        /\ kind \in {"provider", "model", "route", "settings", Nil}
        /\ Send(verb, kind, name, rows, "form")
    BY <1>2
  <1> HIDE DEF verb, name, rows
  <1>5. name \in Names /\ rows \in Bodies /\ "form" \in Owner
    BY <1>3 DEF Names, Bodies, Owner
  <1> QED BY <1>2, <1>3, <1>4, <1>5, PlainSendKeeps

LEMMA SubmitKeeps ==
  ASSUME DesktopInv, Submit
  PROVE  DesktopInv'
  <1>0. /\ UNCHANGED <<server, ui, handEdits, unread, recreated>>
        /\ dialog.kind \in {"create", "edit"}
        /\ SubmitProvider \/ SubmitModel \/ SubmitRoute
    BY DEF Submit
  <1>1. CASE SubmitProvider
    BY <1>0, <1>1, SubmitProviderKeeps
  <1>2. CASE SubmitModel \/ SubmitRoute
    <2>1. typed' = typed
      BY <1>2 DEF SubmitModel, SubmitRoute
    <2> QED BY <1>0, <1>2, <2>1, SubmitRowsKeeps
  <1> QED BY <1>0, <1>1, <1>2

LEMMA ConfirmKeeps ==
  ASSUME DesktopInv, Confirm
  PROVE  DesktopInv'
  <1>0. /\ UNCHANGED <<server, ui, handEdits, unread, recreated, typed>>
        /\ dialog.kind = "delete" /\ Send("delete", page, dialog.name, Nil, "confirm")
    BY DEF Confirm
  <1>1. page \in {"provider", "model", "route"} /\ dialog.name \in EntryNames(page)
    BY <1>0, DialogTypes
  <1>2. /\ page = "provider" => dialog.name \in Provider
        /\ page # "provider" => dialog.name \in Alias
    BY <1>1 DEF EntryNames
  <1>3. dialog.name \in Names /\ Nil \in Bodies /\ "confirm" \in Owner
    BY <1>2 DEF Names, Bodies, Owner
  <1> QED BY <1>0, <1>1, <1>2, <1>3, PlainSendKeeps

LEMMA SaveSettingsKeeps ==
  ASSUME DesktopInv, SaveSettings
  PROVE  DesktopInv'
  <1>0. UNCHANGED <<server, ui, handEdits, unread, recreated, typed>>
    BY DEF SaveSettings
  <1>1. PICK s \in Setting : Send("update", "settings", Nil, s, "form")
    BY DEF SaveSettings
  <1>2. Nil \in Names /\ s \in Bodies /\ "form" \in Owner
    BY DEF Names, Bodies, Owner
  <1> QED BY <1>0, <1>1, <1>2, PlainSendKeeps

LEMMA ReloadKeeps ==
  ASSUME DesktopInv, Reload
  PROVE  DesktopInv'
  <1>0. /\ UNCHANGED <<server, ui, handEdits, unread, recreated, typed>>
        /\ Send("reload", Nil, Nil, Nil, "none")
    BY DEF Reload
  <1>1. Nil \in Names /\ Nil \in Bodies /\ "none" \in Owner
    BY DEF Names, Bodies, Owner
  <1> QED BY <1>0, <1>1, PlainSendKeeps

(* A hand edit is unread until a build reads it. *)
LEMMA HandEditKeeps ==
  ASSUME DesktopInv, HandEdit
  PROVE  DesktopInv'
  <1>0. /\ file' = [file EXCEPT !.ok = ~file.ok] /\ unread' = TRUE
        /\ handEdits' = handEdits + 1
        /\ UNCHANGED <<live, req, ui, writes, overlap, recreated, typed>>
    BY DEF HandEdit
  <1>1. file \in [ok : BOOLEAN, cfg : Config, gateway : Gateways]
    BY DEF DesktopInv, DesktopTypeOK, StateTypes
  <1>2. /\ file' \in [ok : BOOLEAN, cfg : Config, gateway : Gateways]
        /\ file'.cfg = file.cfg /\ file'.gateway = file.gateway
    BY <1>0, <1>1
  <1>3. StateTypes'
    <2>1. dialog' \in Dialogs(page')
      BY <1>0 DEF DesktopInv, DesktopTypeOK, StateTypes, ui
    <2>2. handEdits' \in Nat
      BY <1>0 DEF DesktopInv, DesktopTypeOK, StateTypes
    <2> QED BY <1>0, <1>2, <2>1, <2>2 DEF DesktopInv, DesktopTypeOK, StateTypes, ui
  <1>4. TablesKept'
    BY <1>0, <1>2 DEF DesktopInv, RowsKept, TablesKept, ui, KeptTable, KeptEntry
  <1>5. BuildsFollow'
    BY <1>0 DEF DesktopInv, BuildsFollow
  <1>6. RequestsMove({}) /\ Grown
    BY <1>0, NoneMoves DEF DesktopInv, Grown
  <1> QED BY <1>0, <1>2, <1>3, <1>4, <1>5, <1>6, Assembled

LEMMA StutterKeeps ==
  ASSUME DesktopInv, UNCHANGED vars
  PROVE  DesktopInv'
  <1>0. UNCHANGED <<server, history, writes, handEdits, req, page, view, loading, loads, dialog>>
    BY DEF vars, server, history
  <1>1. RequestsMove({})
    BY <1>0, NoneMoves DEF DesktopInv
  <1> QED BY <1>0, <1>1, PageTypes, PageAssembled

----------------------------------------------------------------------------
(* The invariant *)

LEMMA InitDesktopInv == Init => DesktopInv
  <1> SUFFICES ASSUME Init PROVE DesktopInv
    OBVIOUS
  <1>1. PICK c \in Resolvable :
          LET first == [provider |-> [p \in Provider |->
                                        IF p \in InitProvider
                                          THEN [cred |-> c, hidden |-> "tuned"] ELSE Absent],
                        model |-> [a \in Alias |-> InitProvider],
                        route |-> [a \in Alias |-> {}],
                        trace |-> InitSetting.trace]
          IN  /\ file = [ok |-> TRUE, cfg |-> first, gateway |-> InitSetting.gateway]
              /\ live = first
              /\ typed = [p \in Provider |-> IF p \in InitProvider THEN {c} ELSE {}]
    BY DEF Init
  <1> DEFINE e == [cred |-> c, hidden |-> "tuned"]
             t == [p \in Provider |-> IF p \in InitProvider THEN e ELSE Absent]
             first == [provider |-> t, model |-> [a \in Alias |-> InitProvider],
                       route |-> [a \in Alias |-> {}], trace |-> InitSetting.trace]
  <1>2. /\ c \in Cred /\ InitProvider \subseteq Provider
        /\ InitSetting.trace \in {"on", "off"} /\ InitSetting.gateway \in Gateways
    BY ConfigAssumption DEF Gateways
  <1>3. e \in Entry /\ e # Absent /\ e.cred = c /\ e.hidden = "tuned"
    BY <1>2, SentinelAssumption DEF Entry
  <1>4. /\ file = [ok |-> TRUE, cfg |-> first, gateway |-> InitSetting.gateway]
        /\ live = first
        /\ typed = [p \in Provider |-> IF p \in InitProvider THEN {c} ELSE {}]
    BY <1>1
  <1> HIDE DEF e
  <1>5. t \in [Provider -> Entry \cup {Absent}]
    BY <1>3
  <1>6. \A p \in Provider : t[p] = IF p \in InitProvider THEN e ELSE Absent
    OBVIOUS
  <1> HIDE DEF t
  <1>7. /\ first \in Config /\ first.provider = t
        /\ \A a \in Alias : first.model[a] = InitProvider /\ first.route[a] = {}
    BY <1>2, <1>5 DEF Config
  <1> HIDE DEF first
  <1>8. file \in [ok : BOOLEAN, cfg : Config, gateway : Gateways] /\ file.cfg = first /\ file.ok
    BY <1>2, <1>4, <1>7
  <1>9. /\ req = [r \in Request |-> Idle]
        /\ page = "other" /\ view = EmptyConfig /\ loading = FALSE
        /\ loads = [l \in Load |-> NoLoad] /\ dialog = NoDialog
        /\ writes = 0 /\ handEdits = 0 /\ unread = FALSE /\ overlap = FALSE /\ recreated = {}
    BY DEF Init
  <1>10. \A r \in Request : req[r].stage = "idle" /\ ~Busy(r) /\ ~Writing(req[r])
    BY <1>9, IdleOrBusy DEF Busy, Writing
  <1>11. DesktopTypeOK
    <2>1. typed \in [Provider -> SUBSET Cred]
      BY <1>2, <1>4
    <2>2. StateTypes
      BY <1>4, <1>7, <1>8, <1>9, <2>1, EmptySound DEF StateTypes, Page
    <2> QED BY <1>9, <1>10, <2>2 DEF DesktopTypeOK
  <1>12. RowsKept
    <2>1. KeptTable(t, typed, recreated)
      BY <1>3, <1>4, <1>6 DEF KeptTable, KeptEntry
    <2>2. TablesKept
      BY <1>7, <1>8, <1>9, <2>1, EmptySound DEF TablesKept, LoadKept
    <2> QED BY <1>10, <2>2 DEF RowsKept
  <1>13. BuildsFollow
    <2>1. Source = first /\ first # Nil
      BY <1>7, <1>8, SentinelAssumption DEF Source
    <2>2. live = Effective(Source)
      BY <1>4, <2>1 DEF Effective
    <2> QED BY <1>10, <2>2 DEF BuildsFollow
  <1>14. SoleWriter
    <2>1. References(file.cfg)
      BY <1>2, <1>3, <1>6, <1>7, <1>8 DEF References, Known
    <2> QED BY <1>10, <2>1 DEF SoleWriter
  <1> QED BY <1>11, <1>12, <1>13, <1>14 DEF DesktopInv

LEMMA NextDesktopInv == DesktopInv /\ [Next]_vars => DesktopInv'
  <1> SUFFICES ASSUME DesktopInv, [Next]_vars PROVE DesktopInv'
    OBVIOUS
  <1>1. ASSUME NEW r \in Request, Serve(r) PROVE DesktopInv'
    BY <1>1, ValidateKeeps, LoadConfigKeeps, ReadGatewayKeeps, RenameKeeps, BuildReadKeeps,
       SwapKeeps, AnswerKeeps DEF Serve
  <1>2. ASSUME NEW l \in Load, Fetch(l) PROVE DesktopInv'
    BY <1>2, ReadListKeeps, FinishLoadKeeps DEF Fetch
  <1>3. ASSUME NEW p \in Page, Navigate(p) PROVE DesktopInv'
    BY <1>3, NavigateKeeps
  <1>4. CASE OpenDialog \/ CloseDialog
    BY <1>4, OpenDialogKeeps, CloseDialogKeeps
  <1>5. CASE Submit \/ Confirm \/ SaveSettings \/ Reload
    BY <1>5, SubmitKeeps, ConfirmKeeps, SaveSettingsKeeps, ReloadKeeps
  <1>6. CASE HandEdit
    BY <1>6, HandEditKeeps
  <1>7. CASE UNCHANGED vars
    BY <1>7, StutterKeeps
  <1> QED BY <1>1, <1>2, <1>3, <1>4, <1>5, <1>6, <1>7 DEF Next

LEMMA DesktopInvHolds == Spec => []DesktopInv
  BY InitDesktopInv, NextDesktopInv, PTL DEF Spec

(* Without an overlap the write about to rename is the only one. *)
LEMMA OnlyRename ==
  ASSUME DesktopInv, ~overlap, NEW o \in Request, NEW r \in Request,
         req[o].stage = "rename", req[r].stage = "rename"
  PROVE  o = r
  <1>1. RequestForm(req[o]) /\ RequestForm(req[r])
    BY RequestTypes DEF DesktopInv
  <1>2. Writing(req[o]) /\ Writing(req[r])
    BY <1>1 DEF Writing, RequestForm, Copied
  <1> QED BY <1>2 DEF DesktopInv, SoleWriter

(* Only a rename changes what the file says. *)
LEMMA FileChanges ==
  ASSUME DesktopInv, [Next]_vars
  PROVE  \/ file'.cfg = file.cfg /\ file'.gateway = file.gateway
         \/ \E o \in Request : Rename(o)
  <1>1. ASSUME NEW o \in Request, Serve(o) PROVE Rename(o) \/ file' = file
    BY <1>1 DEF Serve, Validate, LoadConfig, ReadGateway, BuildRead, Swap, Answer, server
  <1>2. ASSUME NEW l \in Load, Fetch(l) PROVE file' = file
    BY <1>2 DEF Fetch, ReadList, FinishLoad, server
  <1>3. ASSUME NEW p \in Page, Navigate(p) PROVE file' = file
    BY <1>3 DEF Navigate, server
  <1>4. ASSUME OpenDialog \/ CloseDialog \/ Submit \/ Confirm \/ SaveSettings \/ Reload
        PROVE  file' = file
    BY <1>4 DEF OpenDialog, CloseDialog, Submit, Confirm, SaveSettings, Reload, server
  <1>5. ASSUME HandEdit PROVE file'.cfg = file.cfg /\ file'.gateway = file.gateway
    <2>1. file \in [ok : BOOLEAN, cfg : Config, gateway : Gateways]
      BY DEF DesktopInv, DesktopTypeOK, StateTypes
    <2> QED BY <1>5, <2>1 DEF HandEdit
  <1> QED BY <1>1, <1>2, <1>3, <1>4, <1>5 DEF Next, vars

----------------------------------------------------------------------------
(* The theorems *)

(* The file, the requests, the lists and the dialogs stay well formed: every  *)
(* body a handler is sent fits its kind, every copy it writes is a config.    *)
THEOREM DesktopTypeCorrect == Spec => []DesktopTypeOK
  <1>1. DesktopInv => DesktopTypeOK
    BY DEF DesktopInv
  <1> QED BY <1>1, DesktopInvHolds, PTL

(* However saves, reloads and rebuilds interleave, once none is under way the *)
(* gateway runs what the file says, unless the file cannot be built: the      *)
(* mutex of rebuild is enough, although the handlers share no lock.           *)
THEOREM LiveIsNotBehind == Spec => []LiveNotBehind
  <1>1. DesktopInv => LiveNotBehind
    BY DEF DesktopInv, BuildsFollow, LiveNotBehind
  <1> QED BY <1>1, DesktopInvHolds, PTL

(* However many forms hold however old a row, no save of a provider loses the *)
(* timeouts and weight set in the YAML or stores a credential the user did    *)
(* not give to that provider; and a save of the entry the file has, its key   *)
(* left blank, keeps the stored credential unless another write overlapped it *)
(* (ProviderForm.onSubmit, handleUpdateProvider).                             *)
THEOREM UntouchedFieldsAreKept == Spec => UntouchedFieldsKept
  <1>1. DesktopInv => EntriesKept
    BY DEF DesktopInv, RowsKept, TablesKept, KeptTable, KeptEntry, Known, EntriesKept
  <1>2. ASSUME DesktopInv, [Next]_vars PROVE \A r \in Request : BlankKeeps(r)
    <2> SUFFICES ASSUME NEW r \in Request, req[r].stage = "rename", req'[r].stage = "build",
                        req[r].same, ~overlap
                 PROVE  file'.cfg.provider[req[r].name] = file.cfg.provider[req[r].name]
      BY DEF BlankKeeps
    <2>1. CopyCurrent(req[r], file)
      BY <1>2 DEF DesktopInv, SoleWriter, Busy
    <2>2. CASE file'.cfg = file.cfg
      BY <2>2
    <2>3. ASSUME NEW o \in Request, Rename(o)
          PROVE  file'.cfg.provider[req[r].name] = file.cfg.provider[req[r].name]
      <3>1. o = r
        BY <1>2, <2>3, OnlyRename DEF Rename
      <3>2. req[r].copy.provider[req[r].name] = file.cfg.provider[req[r].name]
        BY <2>1 DEF CopyCurrent, Copied
      <3> QED BY <2>3, <3>1, <3>2 DEF Rename
    <2> QED BY <1>2, <2>2, <2>3, FileChanges
  <1> DEFINE Kept == EntriesKept' /\ \A r \in Request : BlankKeeps(r)
  <1>3. ASSUME DesktopInv, DesktopInv', [Next]_vars PROVE [Kept]_vars
    <2>1. EntriesKept'
      BY <1>1, <1>3, PTL
    <2> QED BY <1>2, <1>3, <2>1
  <1> QED BY <1>3, DesktopInvHolds, PTL DEF Spec, UntouchedFieldsKept

(* Until two writes overlap, every provider a model or a route names is in    *)
(* the file (validateModelUpstreams, validateRouteProviders and the checks of *)
(* handleDeleteProvider).                                                     *)
THEOREM ReferencesStayIntact == Spec => []ReferencesIntact
  <1>1. DesktopInv => ReferencesIntact
    BY DEF DesktopInv, SoleWriter, References, ReferencesIntact
  <1> QED BY <1>1, DesktopInvHolds, PTL

(* Until two writes overlap, a save of a provider, a model or a route leaves  *)
(* the gateway section and the trace settings alone, although saveConfig      *)
(* reads that section again after the handler has read the file.              *)
THEOREM SettingsSurviveCrud == Spec => CrudKeepsSettings
  <1> DEFINE Kept ==
        \A r \in Request :
          (req[r].stage = "rename" /\ req'[r].stage = "build" /\ ~overlap
             /\ req[r].kind # "settings")
            => file'.gateway = file.gateway /\ file'.cfg.trace = file.cfg.trace
  <1>1. ASSUME DesktopInv, [Next]_vars PROVE [Kept]_vars
    <2> SUFFICES ASSUME NEW r \in Request, req[r].stage = "rename", req'[r].stage = "build",
                        ~overlap, req[r].kind # "settings"
                 PROVE  file'.gateway = file.gateway /\ file'.cfg.trace = file.cfg.trace
      OBVIOUS
    <2>1. CopyCurrent(req[r], file)
      BY <1>1 DEF DesktopInv, SoleWriter, Busy
    <2>2. ASSUME NEW o \in Request, Rename(o)
          PROVE  file'.gateway = file.gateway /\ file'.cfg.trace = file.cfg.trace
      <3>1. o = r
        BY <1>1, <2>2, OnlyRename DEF Rename
      <3> QED BY <2>1, <2>2, <3>1 DEF Rename, CopyCurrent, Copied
    <2> QED BY <1>1, <2>2, FileChanges
  <1> QED BY <1>1, DesktopInvHolds, PTL DEF Spec, CrudKeepsSettings

=============================================================================
