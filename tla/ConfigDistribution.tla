------------------------- MODULE ConfigDistribution -------------------------
(***************************************************************************)
(* How a configuration change reaches the data plane: ConfigRepo and        *)
(* ConfigSnapshotRepo in PostgreSQL (internal/store/config.go,              *)
(* config_snapshot.go), the admin plane's conditional GET                   *)
(* (internal/admin/server.go), the poller of each gateway                   *)
(* (internal/config/poller.go) and the watcher that rebuilds its dispatcher *)
(* (internal/app/watcher.go), started by cmd/gateway/main.go.               *)
(*                                                                          *)
(* A snapshot is not read in one transaction: the version is read first,    *)
(* then each section by a statement of its own, and writes may commit in    *)
(* between.  The content of a section is the generation that wrote it.      *)
(***************************************************************************)
EXTENDS Integers

CONSTANTS
  Gateway,        \* data-plane instances
  Saver,          \* bound: goroutines saving history at a time
  NSections,      \* providers, models, routes, plugins, settings: 5 in the code
  Unbuildable,    \* generations whose providers no dispatcher can be built from
  MaxGeneration,  \* bound: number of configuration writes
  MaxOutages      \* bound: number of times the admin plane becomes unreachable

ASSUME ConfigAssumption ==
  /\ NSections \in Nat \ {0}
  /\ MaxGeneration \in Nat
  /\ MaxOutages \in Nat
  /\ Unbuildable \subseteq Nat \ {0}

Generation == 0..MaxGeneration
Section == 1..NSections  \* in the order Snapshot reads them
Content == [Section -> Generation]
NoVersion == -1

Snapshot == [version: Generation \cup {NoVersion}, content: Content]
InitialContent == [i \in Section |-> 0]
EmptySnapshot == [version |-> NoVersion, content |-> InitialContent]

\* A call of ConfigRepo.Snapshot: at 0 it reads the version next, at i section
\* i; past NSections it is complete.
Read == [at: 0..NSections + 1, snapshot: Snapshot]
NewRead == [at |-> 0, snapshot |-> EmptySnapshot]

VARIABLES
  generation,  \* config_generation.version
  content,     \* the config tables
  log,         \* history: the content committed with each generation
  history,     \* config_snapshots: content per version, or {} when absent
  saver,       \* [Saver -> [busy, read]]
  adminUp,     \* the admin plane answers
  outages,
  phase,       \* [Gateway -> "starting", "building", "serving"]
  polling,     \* [Gateway -> BOOLEAN]: the poll loop was started
  fetch,       \* [Gateway -> [busy, read]]: a request in flight
  store,       \* [Gateway -> Snapshot]: config.Store
  dispatcher   \* [Gateway -> Snapshot]: what the dispatcher was built from

adminVars == <<generation, content, log, history>>
gatewayVars == <<phase, polling, fetch, store, dispatcher>>
vars == <<adminVars, saver, adminUp, outages, gatewayVars>>

Idle == [busy |-> FALSE, read |-> NewRead]
Task == [busy: BOOLEAN, read: Read]

\* Every variable holds a well-formed value.
ConfigTypeOK ==
  /\ generation \in Generation
  /\ content \in Content
  /\ log \in [Generation -> Content]
  /\ history \in [Generation -> {{}} \cup {{c} : c \in Content}]
  /\ saver \in [Saver -> Task]
  /\ adminUp \in BOOLEAN
  /\ outages \in 0..MaxOutages
  /\ phase \in [Gateway -> {"starting", "building", "serving"}]
  /\ polling \in [Gateway -> BOOLEAN]
  /\ fetch \in [Gateway -> Task]
  /\ store \in [Gateway -> Snapshot]
  /\ dispatcher \in [Gateway -> Snapshot]

ConfigInit ==
  /\ generation = 0
  /\ content = InitialContent
  /\ log = [k \in Generation |-> InitialContent]
  /\ history = [k \in Generation |-> {}]
  /\ saver = [s \in Saver |-> Idle]
  /\ adminUp \in BOOLEAN
  /\ outages = 0
  /\ phase = [g \in Gateway |-> "starting"]
  /\ polling = [g \in Gateway |-> FALSE]
  /\ fetch = [g \in Gateway |-> Idle]
  /\ store = [g \in Gateway |-> EmptySnapshot]
  /\ dispatcher = [g \in Gateway |-> EmptySnapshot]

-----------------------------------------------------------------------------
(***************************************************************************)
(* Writes.  Each commits its rows and the bumped generation together.       *)
(***************************************************************************)
\* Mutant: the write forgets to bump the generation.
CommitWithoutBump(c) ==
  /\ generation < MaxGeneration
  /\ content' = c
  /\ log' = [log EXCEPT ![generation] = c]
  /\ UNCHANGED generation

Commit(c) ==
  /\ generation < MaxGeneration
  /\ generation' = generation + 1
  /\ content' = c
  /\ log' = [log EXCEPT ![generation + 1] = c]

\* An upsert, patch or delete of one section, after which a goroutine saves the
\* history; a save that fails is only logged.
Mutate(i) ==
  /\ Commit([content EXCEPT ![i] = generation + 1])
  /\ \/ \E s \in Saver : /\ ~saver[s].busy
                         /\ saver' = [saver EXCEPT ![s].busy = TRUE]
     \/ UNCHANGED saver
  /\ UNCHANGED <<history, adminUp, outages, gatewayVars>>

Rollback(v) ==
  /\ v > 0
  /\ \E c \in history[v] : Commit(c)
  /\ UNCHANGED <<history, saver, adminUp, outages, gatewayVars>>

-----------------------------------------------------------------------------
(***************************************************************************)
(* ConfigRepo.Snapshot, one statement at a time.                            *)
(***************************************************************************)
\* Mutant: the version is read after the sections.
ReadVersionLast(read) ==
  IF read.at < NSections
  THEN [read EXCEPT !.at = @ + 1,
                    !.snapshot.content[read.at + 1] = content[read.at + 1]]
  ELSE [read EXCEPT !.at = @ + 1, !.snapshot.version = generation]

ReadNext(read) ==
  IF read.at = 0
  THEN [read EXCEPT !.at = 1, !.snapshot.version = generation]
  ELSE [read EXCEPT !.at = @ + 1, !.snapshot.content[read.at] = content[read.at]]

Complete(task) == task.busy /\ task.read.at = NSections + 1
Reading(task) == task.busy /\ task.read.at <= NSections

SaverReads(s) ==
  /\ Reading(saver[s])
  /\ saver' = [saver EXCEPT ![s].read = ReadNext(@)]
  /\ UNCHANGED <<adminVars, adminUp, outages, gatewayVars>>

\* SaveSnapshot: ON CONFLICT (version) DO NOTHING.
SaverSaves(s) ==
  /\ Complete(saver[s])
  /\ LET v == saver[s].read.snapshot.version
     IN history' = [history EXCEPT ![v] =
                      IF @ = {} THEN {saver[s].read.snapshot.content} ELSE @]
  /\ saver' = [saver EXCEPT ![s] = Idle]
  /\ UNCHANGED <<generation, content, log, adminUp, outages, gatewayVars>>

-----------------------------------------------------------------------------
(***************************************************************************)
(* The gateway.  Start fetches once and only then starts the poll loop;     *)
(* main carries on without it when the first fetch fails.                   *)
(***************************************************************************)
MayFetch(g) ==
  /\ ~fetch[g].busy
  /\ phase[g] = "starting" \/ polling[g]

FetchStarts(g) ==
  /\ adminUp
  /\ MayFetch(g)
  /\ fetch' = [fetch EXCEPT ![g].busy = TRUE]
  /\ UNCHANGED <<adminVars, saver, adminUp, outages, phase, polling, store, dispatcher>>

\* The handler of the admin plane works on the answer.
FetchReads(g) ==
  /\ adminUp
  /\ Reading(fetch[g])
  /\ fetch' = [fetch EXCEPT ![g].read = ReadNext(@)]
  /\ UNCHANGED <<adminVars, saver, adminUp, outages, phase, polling, store, dispatcher>>

\* The end of the initial fetch lets main go on.
StartReturns(g, ok) ==
  IF phase[g] = "starting"
  THEN /\ phase' = [phase EXCEPT ![g] = "building"]
       /\ polling' = [polling EXCEPT ![g] = ok]
  ELSE UNCHANGED <<phase, polling>>

\* 200 with the snapshot, or 304 when If-None-Match names its version.
FetchEnds(g) ==
  /\ adminUp
  /\ Complete(fetch[g])
  /\ store' = [store EXCEPT ![g] =
                 IF fetch[g].read.snapshot.version = @.version
                 THEN @
                 ELSE fetch[g].read.snapshot]
  /\ fetch' = [fetch EXCEPT ![g] = Idle]
  /\ StartReturns(g, TRUE)
  /\ UNCHANGED <<adminVars, saver, adminUp, outages, dispatcher>>

FetchFails(g) ==
  /\ ~adminUp
  /\ MayFetch(g) \/ fetch[g].busy
  /\ fetch' = [fetch EXCEPT ![g] = Idle]
  /\ StartReturns(g, FALSE)
  /\ UNCHANGED <<adminVars, saver, adminUp, outages, store, dispatcher>>

Buildable(c) == c[1] \notin Unbuildable

\* BuildDispatcher: on an error the last good dispatcher stays.
Rebuilt(g) ==
  IF Buildable(store[g].content) THEN store[g] ELSE dispatcher[g]

Build(g) ==
  /\ phase[g] = "building"
  /\ dispatcher' = [dispatcher EXCEPT ![g] = Rebuilt(g)]
  /\ phase' = [phase EXCEPT ![g] = "serving"]
  /\ UNCHANGED <<adminVars, saver, adminUp, outages, polling, fetch, store>>

Refresh(g) ==
  /\ phase[g] = "serving"
  /\ store[g].version # dispatcher[g].version
  /\ dispatcher' = [dispatcher EXCEPT ![g] = Rebuilt(g)]
  /\ UNCHANGED <<adminVars, saver, adminUp, outages, phase, polling, fetch, store>>

\* The admin plane goes away (also: its database) and comes back.
AdminFails ==
  /\ adminUp
  /\ outages < MaxOutages
  /\ adminUp' = FALSE
  /\ outages' = outages + 1
  /\ UNCHANGED <<adminVars, saver, gatewayVars>>

AdminRecovers ==
  /\ ~adminUp
  /\ adminUp' = TRUE
  /\ UNCHANGED <<adminVars, saver, outages, gatewayVars>>

-----------------------------------------------------------------------------
SaverStep(s) == SaverReads(s) \/ SaverSaves(s)

GatewayStep(g) ==
  \/ FetchStarts(g) \/ FetchReads(g) \/ FetchEnds(g) \/ FetchFails(g)
  \/ Build(g) \/ Refresh(g)

ConfigNext ==
  \/ \E i \in Section : Mutate(i)
  \/ \E v \in Generation : Rollback(v)
  \/ \E s \in Saver : SaverStep(s)
  \/ \E g \in Gateway : GatewayStep(g)
  \/ AdminFails
  \/ AdminRecovers

ConfigSpec == ConfigInit /\ [][ConfigNext]_vars

\* Goroutines run, the poll and watch tickers fire, an outage ends.
ConfigFairness ==
  /\ \A s \in Saver : WF_vars(SaverStep(s))
  /\ \A g \in Gateway :
       /\ WF_vars(FetchStarts(g) \/ FetchReads(g) \/ FetchEnds(g) \/ FetchFails(g))
       /\ WF_vars(Build(g))
       /\ WF_vars(Refresh(g))
  /\ WF_vars(AdminRecovers)

FairConfigSpec == ConfigSpec /\ ConfigFairness

-----------------------------------------------------------------------------
\* Every section in a snapshot was live in the generation the snapshot names or
\* in a later one up to now: a torn snapshot errs towards newer content only,
\* because Snapshot reads the version before the sections.  The same holds of the
\* history rows that a rollback restores.
NotOlder(snapshot) ==
  snapshot.version # NoVersion =>
    \A i \in Section : \E k \in snapshot.version..generation :
      snapshot.content[i] = log[k][i]

SnapshotsNotOlder ==
  /\ \A g \in Gateway : NotOlder(store[g]) /\ NotOlder(dispatcher[g])
  /\ \A v \in Generation : \A c \in history[v] : NotOlder([version |-> v, content |-> c])

\* A gateway that is at the current generation has exactly the current content:
\* answering 304 on an equal version never hides a change, neither from the
\* poller nor from the watcher, which compares the same version.
VersionTellsContent ==
  \A g \in Gateway :
    /\ store[g].version = generation => store[g].content = content
    /\ dispatcher[g].version = generation => dispatcher[g].content = content

\* Once writes stop, every polling gateway ends up with the current content, in
\* its store and, if a dispatcher can be built from it, in its dispatcher,
\* however the snapshots it read on the way were torn or interrupted.
ConfigConverges ==
  \A g \in Gateway :
    <>[](polling[g] => /\ store[g].content = content
                       /\ Buildable(content) => dispatcher[g].content = content)

(***************************************************************************)
(* What the repository says and the code does not do.                       *)
(***************************************************************************)
\* "chat returns 501 until config arrives" (cmd/gateway/main.go): once the admin
\* plane answers, a gateway receives its configuration.
ConfigArrives == \A g \in Gateway : <>(store[g].version # NoVersion)

=============================================================================
