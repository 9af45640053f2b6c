# A TLA+ model of voxeltoad

voxeltoad is an LLM gateway: a *data plane* in Go (`cmd/gateway`) that proxies
OpenAI- and Anthropic-style requests to upstream providers, a *management plane*
in Go (`cmd/admin`) that owns the configuration and the tenants, a *web console*
(Next.js, `web/`) over the admin API, and a *desktop edition* that runs the proxy
on one machine with a YAML file, SQLite and a React user interface (`desktop-ui/`).
This directory holds TLA+ modules for the parts where the order of steps decides
about money, availability, configuration or what a user is shown, the TLC
instances that check them, and TLAPS proofs about all of them: the gateway, the
desktop configuration and its list pages, the trace viewers, the web console and its
session.

    tlc -workers 2 -config MCAccountingQuota.cfg MCAccounting
    tlapm AccountingLedgerProofs.tla

## 1. Inventory

| Component | State it keeps | Operations | What is hard about it | Modelled by |
|---|---|---|---|---|
| Spend store (`internal/store/accounting.go`, `budget.go`, `quota.go`) | quotas, budget policies and period accounts, reservations, their items, events | Reserve, MarkDispatched, Finish, RetryPending, MarkStale, Resolve, TopUp, Create/Patch policy | two-phase finish, crash between the phases, retries by three parties, late charges, period rollover | `Accounting` |
| Billing of a request (`internal/billing/plugin*.go`, `internal/proxy/dispatcher.go`, `stream.go`, `router.go`) | the request's `plugin.Context` | reserve, account each attempt, settle, deferred finalize | lost answers, failed attempts that may have consumed tokens, crashes, broken streams | `RequestBilling` |
| Configuration distribution (`internal/store/config*.go`, `internal/config/poller.go`, `internal/app/watcher.go`, `internal/admin/server.go`) | config tables, generation, history; a store and a dispatcher per gateway | write, save history, roll back, conditional GET, poll, rebuild | snapshot read without a transaction, concurrent history savers, outages, unbuildable configurations | `ConfigDistribution` |
| Routing and failover (`internal/proxy/router_select.go`, `breaker.go`, `dispatcher.go`, `forward.go`) | breakers, round-robin cursor | select, filter, try, mark | health checked under one lock and used under none; results of old requests | `Failover` |
| Rate limiter (`internal/plugin/ratelimit`) | sliding windows, LRU list | Allow, Debit, evict | debit after the answer, eviction of live counters | planned |
| Async recorders (`internal/billing/async.go`, `internal/observability`) | bounded buffer, drop counter | Record, Close, drain | full buffer, close race | planned |
| Legacy quota (`QuotaRepo.TryDebit/Settle`, `internal/billing/store.go`) | balances | pre-debit, settle | leak on paths that skip settle | planned |
| Tenants, groups, applications, keys, operators, roles (`internal/store`, `internal/admin`) | rows and their foreign keys | CRUD, revoke, bind | guards and writes in separate statements, last-admin protection | `ConsoleTenancy` |
| Provider credentials (`internal/credential`, `internal/admin/crud_provider.go`) | references, stored keys | store, rotate, mask | two writes per save, masked values coming back | `ConsoleConfig`, references only |
| Operator sessions (`internal/admin`, `web/src/lib/session.ts`, `errors.ts`) | session rows, the browser's cookie | login, logout, expiry, 401 and 403 handling | windows sharing a cookie, rights changing under a session | `ConsoleSession` |
| Web console (`web/src/app`) | per tab: the rendered page, the open dialog, the queue of Server Actions | open, submit, close, refresh | stale pages, dialogs closed while an action runs, lost answers | `Console` |
| Desktop configuration (`internal/desktopapi`, `cmd/desktop`, `desktop-ui/src/pages`) | one YAML file, the live dispatcher, the mounted page | load, create, edit, delete, save settings, rebuild | no lock around read, change and rename; hand edits | `DesktopConfig` |
| Desktop lists (`desktop-ui/src/pages`: Sessions, RequestLogs, Prompts, Overview, Logs) | query, rows, fetches in flight | filter, page, refresh, poll, delete, star | answers out of order, rows disappearing under the pager | `ListPages` |
| Trace viewers (`TraceViewer.tsx`, `trace-categories.tsx`, `trace-baseline.ts`, both user interfaces) | timeline, selection, cache, panel | select, load, compare, take apart | late answers, interleaved stream deltas, unknown content | `TraceView`, `TraceCategories` |
| TypeScript SDK (`sdk/typescript`) | none | typed fetch, unwrap | the error contract | its errors, in `ConsoleSession` |
| Authentication of API keys (`internal/auth`) | key cache | verify, revoke | stale cache | planned |
| Data-plane registry (`internal/store/data_plane.go`) | instance rows | register, heartbeat, drain | expiry against a late heartbeat | planned |
| Adapters, ingress codecs, normalisation, `pkg/sse` | per-stream encoder state | decode, encode | stream encoder states | planned in part |
| Guards (sensitive words, PII, injection, moderation), response cache | rules, cache entries | Pre/Post checks | text matching, out of a model checker's reach; the cache is planned | not modelled |
| Ledgers and reports, log ring, retention, tray and update check, deployment | rows, files | inserts, queries | I/O and presentation | not modelled |

How they interact: the handler (`serveChat`) runs the plugin chain, whose billing
plugin calls the spend store; the dispatcher it then calls asks the router for
candidates, the router asks the breakers, and each attempt is reported both to
the breaker and to the billing context. The dispatcher is replaced whenever the
watcher finds a new version in the store that the poller fills from the admin
plane. The recovery goroutine of `OpenStores` works on the same reservations as
the requests, and so do operators through the admin API. The console calls the
admin API from Server Actions, which Next.js runs one at a time per tab; the
desktop pages call the handlers of `internal/desktopapi` directly, any number at
a time.

`PROJECT.json` lists the components, every run with its properties, the hazards
at their source lines, and which lines each definition stands for.

## 2. The modules

### Accounting

The variables are the tables of migration 00031: `quotas`, `policies`, `accounts`
(one per policy and period), `reservations`, `items` (what each reservation drew
from each quota or account) and `events`; `period` is the wall clock's calendar
period and `deposited` a history variable for the conservation law. Every
database transaction is one action, because each takes its row locks in one
order (tenant, reservation, quotas, accounts) and keeps them to its end; a
transaction that fails is rolled back and is no step. `Finish` is two
transactions and hence two actions, `PersistResult` and `ApplyPending`; the
latter is also what `RetryPending` does for each row. `ApplyReservation` is the
whole of `applyReservation`: balances, accounts, items, alerts, usage and
attempt-risk rows, and the reservation row.

`Reserve` takes any period up to the current one: `now` is read before the
transaction begins and the locks may be granted after the period has ended.
Amounts are unbounded integers: the code computes them in PostgreSQL `numeric`
and the cast to `bigint` aborts the transaction on overflow. Accounting alone
lets any client call any operation at any time.

### SpendLedger and AccountingLedger

`SpendLedger` is what the spend store promises, in one page: a claim takes the
same amount from every pot it draws on, is decided at most once, and is closed at
most once at what was decided; it may be let go at an operator's risk, and a
charge that arrives later is still taken. `AccountingLedger` maps a reservation
row to a claim (dispatch markers and parking are invisible, a persisted result is
"due", an applied one "closed") and the missing money of each quota and account to
`taken`. That Accounting implements it is checked by TLC and proved.

### RequestBilling

It extends Accounting with the handler of each request: `req` is the part of
`plugin.Context` that billing uses and the place the handler has reached.
Store calls may fail, or commit with the answer lost, and the process may crash
between any two steps. `truth` records what the upstreams really consumed, which
no guard of the gateway reads; `view` is the row an operator has read.
`CompleteWith` gives the number of times settle is tried: `runPost` and the
deferred `BillingFinalize`, or only the latter on the exits that skip `runPost`
(a Pre rejection, a stream that cannot be opened). A usage that an upstream
reports is taken for the final one: the code bills the last usage chunk it saw.

### ConfigDistribution

The content of a section is the generation that wrote it. `ConfigRepo.Snapshot`
is a sequence of statements without a transaction, so `ReadNext` is one of them
and writes commit in between; the history savers (`saver`) and the handlers of
conditional GETs (`fetch`) use the same operator. `Saver` bounds the number of
goroutines saving at a time; a mutation may also start none, which stands for
a save that fails. `adminUp` is false during an outage of the admin plane or its
database. The gateway goes through "starting" (the synchronous first fetch),
"building" and "serving"; `polling` says whether the poll loop was started.

### Failover

One route, requests that run concurrently, and one breaker per endpoint. Each
breaker call is its own critical section, so `CheckHealth` is one step per
candidate; `Begin` excludes a second request in "filter" because `Candidates`
holds the router's lock. Time is the number of ticks that an open breaker still
has to cool down. The weighted order is random and the session order is a hash,
so both may be any permutation; the run takes the priority order. A route may
list a provider twice, which `crud_route.go` does not reject, and nothing assumes
that it does not. `ClientLeaves` is the cancelled context: it
surfaces as a transport error of the upstream, and where no billing plugin
refuses the next call every further candidate fails the same way. Timeouts are
optional (`schema.go:113-121`) and the overall one is for calls that do not stream
(`forward.go:45`): `CallLimited` says which calls have to end, those to a provider in
`TimeLimited` that are not `Streaming`, and cancelled ones. A configuration
reload, which installs fresh breakers, is not modelled.

### DesktopConfig

The Providers, Models, Routes and Settings pages over the configuration handlers
of the desktop gateway. A write is a chain of steps of one slot of `req`: read the
file, check, re-read the gateway section, rename, build, swap, answer; only build
and swap are under a mutex (`Unlocked`). The page loads its lists in parallel
(`loads`), may be left or reloaded at any time, and keeps a dialog whose form holds
what was on the page when it opened. A provider is its credential reference and
`hidden`, which stands for its own timeouts and its weight, the fields the form
carries without showing them. The timeouts of single endpoints are not among
them: every save drops those. A credential left blank is sent as the one of the row
the form was opened on, so a save of an old row puts its older credential back.
`UntouchedFieldsKept` says both what survives every save (`EntriesKept`) and that a
blank save of the entry the file has keeps it as it is (`BlankKeeps`). The user may
also edit the YAML by hand, into something that does not parse and back.

### ListPages

One module for the five list pages, whose effects differ in what they cancel and
what starts a fetch: `kind` picks the page. The server's table grows while requests
are recorded and shrinks by deletions. A fetch is served in two statements, `Count`
and `Serve`, with writes in between, either may fail, and the answer is delivered
later, in any order. Confirmation dialogs close whether the call succeeded or not.
`SettledAnswersQuery` and `RowsInReach` say when the
rows can be trusted; the histories `order`, `moved` and `grown` name exactly the
circumstances in which the pages without a cancel flag cannot promise it. That
retention spares favourites is not distinguished: rows go only by deletions.

### TraceCategories and TraceView

`TraceCategories` is the pure part of both trace viewers: the baseline, the split
into system, carried and turn messages, the blocks of a message, and the reading of
a recorded stream (`ParseOutput`), on texts that are sequences of pieces. What can be
recorded is `DetailOf`: any number of messages, parts, calls, chunks and deltas. A line
of a transcript is a chunk with `choices`, a frame without (`"event"`: what the
Anthropic ingress records), or something else; `reassembleSSE` reads `choices` only, so a
transcript of frames reads as empty, and `StreamReadsWhole` says what is read of each.
Content that is null and content that is `""` have the same signature. `TraceView`
is the machinery around it: the desktop viewer with its cache and cancel flag, and
the web viewer, which cancels nothing but whose Server Actions run one after the
other; its `setTimeout(0)` before a load is part of `LoadTimeline`. The properties are
stated on what the panel shows, so each algorithm is
compared with its meaning on every session of the instance.

### ConsoleConfig, ConsoleTenancy, Console

The first two modules list, per page of the web console, what it reads, what it
offers, what its forms can submit, and what the admin handler does with it as a
sequence of statements. `Console` runs them in two tabs: dialogs are filled from
the `view` the page was rendered from, a submitted action waits in the tab's
`queue`, its statements interleave with those of the other tab, a call may fail
before or after it took effect, and the answer re-reads the page and runs the
client's handler against whatever dialog is open by then. `overlap` records that a
handler was overtaken between two statements, `claimed` the providers that were told
to use a stored key they did not have.

A handler that commits more than once is as many statements: a role's description and
then its permissions, an operator's sessions and then its row, an application or an
operator and then the row read back for the answer, which may be gone or fail to be
read. A statement that commits only columns outside the model, such as the
description, returns `Beside`: the action has written, the tables are the same.

The operator may leave a page at any time (`Revisit`): while an action runs, whose
answer then finds no form (`Orphaned`), and while a new key is on screen. A page may
also fail to be read, after an action (`AnswerUnread`) or by itself (`RefreshFails`);
its place is then taken by the notice, the view `Nil`, and the client's state is gone.

Prices are micro-units. The upstream form fills in what `microToDisplay` shows
(`Prefilled`, `Displayed`), rounded to the cent, and sends it back, so a save rounds
every price of the model. In one form the operator adds a row, removes one, or changes
the provider or the price of one; one price stands for the input and the output price,
and the currency, which the form sends as USD, is left out. A credential may be typed as
any reference, also as `db://`, which the API stores with no key behind it.

Simplifications that only allow more: a key may be given to a group of a disabled
tenant (`tenant.go:314-319`), and any list of models is taken for an allowed one
(`tenant_handlers.go:110-122`); the environment of a key is left out. An action of a
page that was left still holds up the actions of its tab, as in Next.js.

### ConsoleSession

Two windows share one cookie, which carries a token and the permissions of the
moment it was issued; the admin API reads the role afresh. Sessions expire, the role
is changed once, requests are answered after the cookie they were sent with is gone.

## 3. The runs

| Run | Instance | Shows |
|---|---|---|
| `accounting_quota` | 2 reservations, 1 quota, amounts 0 to 2 | types, conservation of money, lifecycle, bounded overdraft, exactly-once ledger rows, no refund without a verdict, and the refinement `ImplementsLedger` |
| `accounting_budget` | 2 reservations, 1 enforced policy, 2 periods, 1 patch | account totals, bounded overspend, complete alerts |
| `accounting_recovery` | 1 reservation, quota and soft policy, 2 currencies, fair recovery loop | settlement never blocked, pending results are applied, nothing stays in flight |
| `request_billing` | 1 request, 2 attempts, amounts 1 and 2 | no silent refund, true cost, optimistic locking |
| `config_distribution` | 1 gateway, 1 saver, 2 sections, 3 writes, 1 outage, generation 2 unbuildable | torn snapshots are never older, equal version means equal content, convergence |
| `failover` | 2 requests of 2 protocols, one of them streaming, a route p1, p2, p1 in priority order, 1 endpoint that cannot serve the alias and 1 with an overall timeout, threshold 2, cooldown of 2 ticks | cooling endpoints avoided, degraded fallback, every request ends or waits in a call nothing bounds, every cooldown elapses |
| `desktop_config` | 2 providers, 1 alias, 2 requests and 2 loads in flight, 2 writes, 1 hand edit | the live dispatcher is not behind the file, saves keep what the form carries unseen and a blank credential of a current entry, references and settings survive writes that do not overlap |
| `desktop_views` | lists of 2 rows that may grow to 3, page sizes 1 and 2, 2 fetches in flight, 3 events among clicks, 1 request recorded and 1 fault; every session of 3 requests over 6 message lists, every transcript of up to 3 lines, window 2 | rows answer the query, no dead-end page, the panel shows the selected row, the best baseline, nothing hidden, streams read whole |
| `console` | 2 tabs on 14 pairs of pages with 2 events and on 4 more (tenants, reservations, and providers and keys beside a page with nothing to do) with 3, of which 1 may be a fault; prices 0, 1, 1.4 and 2 cents, of which 1.4 displays as 1; 2 windows, 2 tokens, 1 change of role | the database stays sound, pages show their own writes, errors follow a write only in named handlers and circumstances, keys are accounted for, edits keep the rest up to the cent, links open, live cookies are kept |
| `config_arrives`, `desktop_last_good`, `console_masked` | | three statements of the repository that the code does not keep, see section 6 |

Why the bounds are enough. Interference in the spend store is between two
reservations on one pot, or between one reservation's own settlers; two
reservations and amounts 0, 1, 2 give estimates that are too high, exact and
too low, and balances that reach zero and go below it. Two periods and one patch
suffice for a late settlement of a closed period and a limit lowered under
running requests. Two sections are the least for a torn snapshot and three
writes let two of them fall into one read, with a rollback among them. Two
requests are the least for a result that arrives late, a threshold of two
distinguishes one failure from tripping, and a cooldown of two ticks leaves room
for a failure in the middle of it. In the user interfaces the interference is
between two writes, two fetches or two selections; three rows on pages of one or
two make the last page disappear, and three lines of a stream let the deltas of two
calls interleave. The pairs of console pages are those whose forms or handlers
touch the same rows. An event is an action
submitted, a page left while one is awaited, or a fault; the third is for one tab alone, which deletes a provider, makes it again
and saves a form opened before, or creates, revokes and leaves keys. One price with a
fraction of a cent is enough to tell a kept price from a rounded one. Reservations, request slots, tags and tabs are
symmetric in safety runs, and no liveness run uses symmetry.

`CHECK_DEADLOCK FALSE` is set where the instance may stop: when deposits,
patches, periods, ids, writes or clicks are used up and everything has
settled. The failover instance never stops, and there deadlock is checked.

Fairness. `RecoveryFairness`: the goroutine of `OpenStores` calls `RetryPending`
and `MarkStale` every minute for the life of the process, so each result that
stays pending is retried and each row that stays unfinished grows older than a
day and is marked; nothing is assumed of requests or operators. The batch limits
(100 and 500) are not modelled: since no result is ever inapplicable
(`SettlementAlwaysApplicable`) a batch makes progress. `ConfigFairness`: tickers fire,
goroutines run and outages end; writers are not obliged to write. `FairFailoverSpec`:
handlers run (`OwnStep`), a call that a timeout or a cancelled context limits ends, and
time passes; no particular outcome of a call is fair. Nothing is assumed of other
calls, so `RequestsEnd` says that a request ends or stays for ever in one of those.

## 4. What is proved

TLAPS proves the following for every value of the constants: any number of
reservations, requests, gateways, providers, page loads, tabs and windows, any amounts,
any seeded database, any recorded session and any bounds.
A theorem that states a property of a run names the same definition.

| module | theorem | property |
| --- | --- | --- |
| `AccountingProofs` | `TypeCorrect` | `TypeOK` |
| | `LifecycleCorrect` | `LifecycleConsistent` |
| | `LedgerExactlyOnce` | `LedgerRowsExactlyOnce` |
| | `SettlementNeverBlocked` | `SettlementAlwaysApplicable` |
| | `FinalityHolds` | `SettledIsFinal` (no run) |
| | `RefundsNeedVerdict` | `NoRefundWithoutVerdict` |
| | `MoneyConserved` | `MoneyMovesWithItems` (no run) |
| `AccountingLedgerProofs` | `QuotasConserved` | `QuotaConservation` |
| | `AccountsAgree` | `AccountsMatchItems` |
| | `OverdraftIsBounded` | `OverdraftBounded` |
| | `AlertsAreComplete` | `AlertsComplete` |
| | `LedgerImplemented` | `ImplementsLedger` |
| `RequestBillingProofs` | `RequestTypeCorrect` | `RequestTypeOK` (no run) |
| | `RequestsUseStore` | `RequestSpec => Spec` |
| | `ConsumedStaysCharged` | `ConsumedNeverReleasedSilently` |
| | `SettlementsAreTrue` | `SettledAtTrueCost` |
| | `VersionsDetectChange` | `VersionDetectsChange` |
| `ConfigDistributionProofs` | `ConfigTypeCorrect` | `ConfigTypeOK` (no run) |
| | `SnapshotsAreNotOlder` | `SnapshotsNotOlder` |
| | `VersionsTellContent` | `VersionTellsContent` |
| `FailoverProofs` | `FailoverTypeCorrect` | `FailoverTypeOK` (no run) |
| | `CoolingIsAvoided` | `CoolingAvoided` |
| | `ExhaustedMeansTried` | `NeverExhaustedUntried` |
| `DesktopConfigProofs` | `DesktopTypeCorrect` | `DesktopTypeOK` (no run) |
| | `LiveIsNotBehind` | `LiveNotBehind` |
| | `UntouchedFieldsAreKept` | `UntouchedFieldsKept` |
| | `ReferencesStayIntact` | `ReferencesIntact` |
| | `SettingsSurviveCrud` | `CrudKeepsSettings` |
| `ViewsProofs` | `ListTypeCorrect` | `ListTypeOK` (no run) |
| | `SettledPagesAnswer` | `SettledAnswersQuery` |
| | `RowsStayInReach` | `RowsInReach` |
| | `ViewerFollowsSelection` | `ShownIsSelected` |
| | `BaselineIsBest` | `BaselineBest` |
| | `RequestShownWhole` | `NothingHidden` |
| | `StreamsReadWhole` | `StreamReadsWhole` |
| `ConsoleProofs` | `LinksOpen` | `NavLinksOpen` |
| | `LiveCookiesKept` | `LiveCookieKept` |
| | `DatabaseStaysSound` | `DatabaseSound` |
| | `OwnWritesShown` | `PageShowsOwnWrites` |
| | `FailureStoresNothing` | `FailureStoredNothing` |
| | `KeysStayAccounted` | `KeysAccounted` |
| | `EditsKeepTheOthers` | `EditsKeepTheRest` |

Assumptions. The types of the constants (`ConstantsAssumption`,
`MaxAttemptsAssumption`, `ConfigAssumption`, `FailoverAssumption`, `ListAssumption`,
`TraceAssumption`, `ConsoleConfigAssumption`, `SessionAssumption`); that quota scopes
and accounts are different things (`PotAssumption`); that the reservations made in a
behaviour are finitely many (`FiniteAssumption`), without which the sums over them
mean nothing; that there is an ingress protocol (in `FailoverAssumption`); that what a
price displays as is a price (in `ConsoleConfigAssumption`); that the markers for a missing entry and an unreadable
file are neither entries nor configurations (`SentinelAssumption`), and that no row of
the console's tables is the mark of a missing one (`ConsoleTenancyAssumption`); that the
databases the console starts from are sound, with a super-admin, as the migrations and
the admin API leave them (`ConsoleAssumption`); that a recorded session is a sequence of
records of the form `DetailOf` (in `TraceAssumption`). TLC evaluates all of them in the runs.

### The spend store

None of the invariants is inductive alone. That ledger rows are
written once needs that `applied` is set exactly on settled and released rows, which
is part of the lifecycle; that committed amounts equal the result needs the type
invariant; that a settlement is applicable needs that a row with items has a
currency. `Inv` is the conjunction of the four; the proof has one lemma per action
and shows each conjunct separately. For the action properties `AccountsOpened`
is added: an account that was never opened has zero totals, which is why opening it on
demand in `Reserve` moves no money.

The totals are sums over all reservations. `SumFunctionOnSet` is a recursive function
on the subsets of the reservations; what it computes is shown with minimal
counterexamples (finite sets are well founded under inclusion), once for the sum of a
function that changes at one point and once for monotonicity. With these two facts
each transaction is local: it changes the items of one reservation, and
`MoneyMovesWithItems` says that balance and totals move by the same amount.
`OverdraftBounded` needs more (`OverdraftInv`): held, committed and released together
are never less than what was reserved (`NoShortfall`), so that each item's overrun is
a natural number and a balance falls below zero only by overruns; and a policy that
was never created has no open account and admits nothing (`UncreatedUnused`), so that
the bound speaks of a limit that exists.

For the refinement each transaction is a ledger step (`ReserveMakes`,
`PersistDecides`, `PendingCloses`, `OperatorResolves`) or invisible
(`RestStutters`). It rests on `ItemHold`: in every pot a claim draws on, held plus
committed is what the claim holds. That is a consequence of the lifecycle, and the
reason why one number per claim is enough in the abstract ledger.

### Billing of a request

`RequestInv` relates three things that no step reads together: the handler's context,
the upstreams' consumption (`truth`) and the durable result. While the handler may
still learn of consumption, a consumed token leaves `chargePossible`, and a stray one
leaves doubt or a risk (`ContextSound`); a result that no operator decided is true
of the consumption, and once it is stored the handler never returns to a stage that
calls an upstream (`ResultSound`). `RequestsUseStore` shows that every step of a
handler, also one whose answer is lost, is a step of Accounting or leaves the store
alone: the theorems about the spend store hold of the gateway using it.

### Configuration distribution

`SnapshotsNotOlder` speaks of finished snapshots. A snapshot is read in several
statements, so the invariant says it of reads in progress: every section read so far
was live in some generation between the version read first and now (`ReadsSound`,
over the history variable `log`). `VersionTellsContent` follows: between a generation
and itself there is only one content.

### Failover

`FailoverInv` carries the claim of `CoolingAvoided` from the health check to the call:
the breaker of every candidate a request has kept that is cooling down opened while
the request held it, or the request is degraded (`CandidatesSound`). The step that
needs care is another request's `MarkFailure`: opening a breaker, it notes in `stale`
every request that holds the key at that moment (`Holding`), so the claim is made good
where it would break, whether the request is still selecting or already trying, and
however often the route names the provider. `SelectionSound` keeps the orders within
the route (`OrdersSound`, also for the rotation of round robin and any permutation),
`TriedSound` says that a request that has tried no candidate still has one if it can use
any, `BreakerSound` that a closed breaker is below its threshold.

### The desktop configuration

`DesktopInv` has one part per property. `BuildsFollow`: between a change of the file
and the next swap a build is to come, or the only build under way has read the file as
it is. `RowsKept`: every copy of a provider's entry on its way back to the file (in a
list being loaded, on the page, in a dialog, in a request body, in a handler's copy)
has a credential given to that provider and, unless a create request made it anew, its
tuned fields. `SoleWriter`: until two writes overlap, the write in flight is the only
one, and what it has read of the file still holds when it renames; this is also why a
blank save of the entry the file has writes that entry. That the file's
handlers share no lock is visible here: without the premise `~overlap` the last part
is not an invariant, and section 6 lists what is then lost.

### The list pages and the trace viewers

`SettledAnswersQuery` speaks of a page at rest, and a page comes to rest by its last
answer. `ListInv` therefore says the same of the fetch on its way (`NewestReads`): as
long as the newest fetch is out it asks for the query of now and carries what the table
holds, unless a write has succeeded whose refetch is due (`RefreshDue`) or the gateway
has recorded something. `LogsWait` is the weaker claim that a cancel flag alone gives,
`CoverEnds` that whatever covers the rows will be taken away; `ShownReads` and
`WriteAsksAgain` say the same of the rows shown and of a write under way. `RowsInReach`
needs only the types: whatever the count, the pager offers the first page, as a button of
its own or in its window, and that page has rows when the list has any.

`TraceInv` is the difference between the two viewers: on the desktop every load that is
not cancelled is of the selected row; on the web nothing is cancelled, but the loads
are answered in the order of the clicks, so the last one is (`LoadsFollow`).

The other three properties of the trace viewer say what loops compute, so their proofs
have two halves. The behaviour is `RecordInv`: the rows that are loaded, shown and
compared are rows of the session (`RowsKnown`); as long as nothing failed, each of the
rows before a loaded one is still asked for or there, from the cache or the server
(`NoneMissed`), so that what is shown was compared with all of them (`ComparedWithAll`).
`NoneMissed` is what makes `BaselineBest` inductive: a load is finished when nothing is
asked for any more, and then it has every candidate.

The loops are inductions over data. The library's induction theorems take an operator,
which the provers cannot instantiate, but the minimum of a well-founded order (`WFMin`)
takes a set: from it `UpTo` derives induction up to n for a set of numbers that holds 0,
and `FoldRuns` that a left fold is the last value of a function on 0..n that starts with
the base and makes one step each time. What a loop keeps is then a set of positions:

- `PickIsBest`: after k candidates the baseline is the closest of the best among them;
- `WithinConcat`: filtering a concatenation filters its halves, so that carried and turn
  messages together are the messages that are not of the system, and no message is in
  two sections (`AnalyzeParts`); `OpenShowsAll` is the opened message;
- `Gathers`: after any number of deltas there is one entry for each index sent, with the
  names and arguments sent for it so far in their order (`GathersOne` for a delta,
  `GathersMore` for a chunk, `GatherAllIs` for the transcript). `SortedExists`, by
  induction on a bound of the indices, gives the order in which `reassembleSSE` returns
  the calls (`CallsInOrder`).

### The web console and its session

`SessionInv`: until a role changes, every copy of the rights (cookie, navigation,
cookies requests were sent with) agrees with the role (`CopiesAgree`), and a window on
its way to `/logout` was refused for a session that is dead (`RequestsSound`).

`ConsoleInv` carries what a form or a handler has seen to the moment it is used.

- `PagesFit`: every view and every open dialog was rendered from tables that are
  `Earlier` than the present ones (a versioned row in them is not newer than the stored
  one, and equal to it when the versions are), and every queued action fits its page and
  the row its form was opened on. Edits keep the rest because of it.
- `Undisturbed`: unless a handler was overtaken, references lead somewhere, a super-admin
  is left, and what each running handler has checked still holds (`Held`) when it comes
  to write. This is the argument that the separate statements of the admin handlers are
  safe one at a time, and the premise shows that it is the only one. The super-admin is
  an operator with that role; what the role permits can be edited.
- `KeysOwed`: a reference without its key is being repaired by a tab whose next
  statement stores the key, unless a fault or an overlap came between or the reference
  was `claimed`.
- `Excused`: an action that has written and failed since was overtaken or met a fault.
  It rests on what a running action may have done: one that has written and still runs
  is past the last statement that refuses (`Late`, only in handlers of `CommitsEarly`).
- `Shows`: a write the page does not show yet is still to be answered on this page, or
  the page is the notice that it could not be read.
- `BudgetsApart`: no two budgets in creation have one name, so a version tells a row.
- `KeyForms`, `KeysSomewhere`: a mounted form that creates a key is the open dialog and
  there is at most one, so no other form can be shown in the place of the plaintext;
  every stored key is accounted for or belongs to such a form or its answer.

The tenancy references need no premise: they rest on foreign keys. The proof has one
lemma per kind of statement (`StepSound`: what it may write, given what it found), one
about the browser's steps, which leave the database alone (`BrowserKeeps`), and one for
the effect of a statement on the tab that runs it.

### Only model-checked

Liveness (`PendingEventuallyApplied`, `NothingStaysInFlight`, `ConfigConverges`,
`RequestsEnd`, `CooldownElapses`) is out of the prover's reach. The three properties of
the runs that expect a violation are false. Every other property of the runs is stated
by a theorem above.

## 5. Mutants

Operators commented "Mutant:" are forms of the definition after them with
one plausible bug (a missing guard, a missing reset, a swapped order).
They take no part in any specification; put in the place of the definition
named in `PROJECT.json` each makes TLC report the property it is listed with.

## 6. What the repository says and the code does not do

With a run that shows it:

1. `config_arrives`: a gateway whose first fetch fails never starts its poll loop
   (`poller.go` `Start`), while `main` carries on and expects config to arrive.
2. `desktop_last_good`: an unreadable YAML file at rebuild time replaces the running
   configuration by the empty one; the comment of `Load` says the last good
   dispatcher is kept.
3. `console_masked`: editing a provider without touching its credential stores the
   masked reference, which the comment of `updateProvider` says must not happen.

Met while modelling, and part of the models, without a run of their own.

Gateway. A history row may hold later content than its version (migration 00005).
`Rollback` starts no saver, so the generation it creates has no history row until
the next write, although `config/history/actions.ts` says it "produces a new
snapshot version, so it is auditable via history"; and it deletes the providers
before it inserts them again, which cascades to their stored keys, although
`config_snapshot.go` calls it "a fully consistent restore". Any
number of requests may probe a half-open endpoint (`breaker.go:42`). A healthy
candidate that cannot serve the alias suppresses the degraded fallback
(`router_select.go:53`). Clients that cancel trip the breaker of a sound upstream
(`forward.go:197`).

Desktop. Overlapping writes lose updates, and the gateway section can be lost
between its re-read and the rename, although `SaveFile` says a write "must not
clobber it". The provider form drops per-endpoint timeouts (`Providers.tsx:295-299`
against its comments at 229 and 286). A blank credential is that of the row the form was
opened on, so an old row puts its older credential back, although the hint at 420 says
that the stored one is kept. `validateModelUpstreams` counts on a check that
`BuildDispatcher` does not make. The answer for a closed dialog closes another open
dialog of the same kind. Late list answers stay on the page; prompts can be left on
an empty second page; after a failed load the settings form shows defaults. The
favourite draft is wiped when metrics arrive, and an error of the trace viewer is
permanent. The signature of a message ignores its tool calls. Transcripts of Anthropic
streams are shown empty, on the web as well.

Web console. Checks and writes of the admin handlers are separate statements, so
concurrent tabs can leave a dangling reference, delete the last two super-admins,
or store a reference to a key that was never saved (`overlap` and `faults` in
`DatabaseSound`). A provider's form that was opened before the provider was deleted and
made again with another credential puts the old `db://` reference back, and there is
no key behind it; neither is there behind one that is typed (`claimed`). Saving a model
rounds every price of it to the cent, touched or not, the bug that the comment at
`budgets/actions.ts:75` avoids for budgets. An error may follow a commit: of a role's
description, an application, an operator or an operator's sessions (`CommitsEarly`). A
role PATCH may strip the built-in role of `*` while operators hold it. The weight of an
empty input changes when a row is removed. A provider may appear twice in a model or
route. Most actions show a 401 inline, although `errors.ts` says they bounce to
`/login`; a late 401 of one window can clear the cookie of a newer login. Links drawn
for custom global roles lead to a 403. A key whose form is closed before the answer
is never revealed, nor is one whose page is left or cannot be read again before it was
copied. Pages that call several endpoints read them non-atomically.

## 7. Not modelled, and the plan

Not modelled: what guards and codecs do with text, cost and calendar arithmetic,
list cursors and reports, encryption, presentation. They are pure functions of
strings and numbers that unit tests reach, or I/O.

In order of what it would add:

1. RateLimiter (debit after the answer, eviction), AsyncRecorder (full buffer, close),
   the data-plane registry, the key cache, and a lock-level module for deadlock
   freedom of the store's transactions: hazards without a property today.
2. Rollback together with provider credentials, which it does not restore.
3. Proofs of the components in 1, the rate limiter's window and the recorder's count of
   losses first.
4. The configuration history, quota and settings pages of the console.
5. Algorithms against reference definitions: cost and its overflow check, period
   bounds, rendezvous hashing, the stream encoders.
