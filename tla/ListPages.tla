----------------------------- MODULE ListPages -----------------------------
(* The pages of desktop-ui that show the rows of a query: Sessions,        *)
(* RequestLogs, Prompts, Overview and Logs.  A change of the query starts  *)
(* a fetch in an effect; only Logs cancels the fetches of the query before *)
(* it.  Sessions and Prompts also write, and fetch again when the write    *)
(* has been answered; meanwhile the gateway records new requests.          *)
EXTENDS Naturals, Sequences, SequencesExt

CONSTANTS
    Item,        \* ids of sessions, request logs, prompts or log lines
    Tag,         \* what a filter can ask for: an agent, a tag, a time range
    All,         \* the empty filter
    PageSize,    \* PAGE_SIZE_OPTIONS
    MaxPage,     \* Pagination's maxPage
    InitLen,     \* bound: rows at the start
    MaxFetches,  \* bound: fetches in flight
    MaxClicks,   \* bound: what the user does
    MaxRecorded, \* bound: items the gateway records
    MaxFaults    \* bound: calls that fail

ASSUME ListAssumption ==
    /\ All \notin Tag /\ InitLen \in Nat /\ PageSize \subseteq Nat \ {0} /\ PageSize # {}
    /\ MaxPage \in Nat \ {0} /\ MaxFetches \in Nat \ {0}
    /\ MaxClicks \in Nat /\ MaxRecorded \in Nat /\ MaxFaults \in Nat

VARIABLES
    kind,      \* the mounted page
    stored,    \* its table on the server: <<[id, tag, star]>>, newest first
    query,     \* the filter bar and the pager
    fetches,   \* the fetches in flight, in the order they were started
    shown,     \* the rows on the page and the query they answer
    loading,   \* the skeleton is up, or the refresh button disabled
    failed,    \* an error is shown
    dialog,    \* the open dialog
    call,      \* the write in flight
    clicks, recorded, faults,  \* bounds
    order,     \* history: has the newest fetch been delivered, or an older one since
    moved,     \* history: the query changed while a write was in flight
    grown      \* history: the table changed, not by this page, since the newest fetch read it

listVars == <<kind, stored, query, fetches, shown, loading, failed, dialog, call,
              clicks, recorded, faults, order, moved, grown>>
page == <<query, shown, loading, failed, dialog>>
bounds == <<clicks, recorded, faults>>

ListKind == {"sessions", "requests", "prompts", "overview", "logs"}
Paged == kind \in {"sessions", "requests", "prompts"}

Least(a, b) == IF a <= b THEN a ELSE b
Most(a, b) == IF a >= b THEN a ELSE b

----------------------------------------------------------------------------
(* The server *)

Matches(r, f) == f = All \/ r.tag = f

Matching(rows, f) == SelectSeq(rows, LAMBDA r : Matches(r, f))
FavoritesFirst(rows) ==
    SelectSeq(rows, LAMBDA r : r.star) \o SelectSeq(rows, LAMBDA r : ~r.star)

(* ListSessions orders favourites first, then by the last request; the     *)
(* others are newest first.                                                *)
Sorted(rows) == IF kind = "sessions" THEN FavoritesFirst(rows) ELSE rows

MatchingRows(f) == Sorted(Matching(stored, f))

(* One page of the rows, the last `tail` lines, or the aggregate over all *)
Answer(q) ==
    LET m == MatchingRows(q.filter)
    IN  CASE kind = "logs" -> SubSeq(stored, 1, Least(q.size, Len(stored)))
          [] kind = "overview" -> m
          [] OTHER -> SubSeq(m, (q.page - 1) * q.size + 1, Least(q.page * q.size, Len(m)))
Total(q) == Len(MatchingRows(q.filter))

----------------------------------------------------------------------------
(* components/ui/pagination.tsx *)

Ceil(a, b) == (a + b - 1) \div b

TotalPages(total, size) == Most(1, Least(Ceil(total, size), MaxPage))
SafePage(p, pages) == Least(Most(p, 1), pages)

(* buildPageWindow without its ellipses *)
PageWindow(current, pages) ==
    IF pages <= 7 THEN 1..pages
    ELSE {1, pages} \cup Most(2, current - 2)..Least(pages - 1, current + 2)

\* Mutant: the pager leaves the page it calls the current one out.
PageButtonsOther(p, total, size) ==
    PageWindow(SafePage(p, TotalPages(total, size)), TotalPages(total, size))
      \ {SafePage(p, TotalPages(total, size))}

(* The numbered buttons, first, previous, next and last *)
PageButtons(p, total, size) ==
    LET pages == TotalPages(total, size)
        safe == SafePage(p, pages)
    IN  PageWindow(safe, pages)
          \cup (IF safe > 1 THEN {1, safe - 1} ELSE {})
          \cup (IF safe < pages THEN {safe + 1, pages} ELSE {})

----------------------------------------------------------------------------
(* The effects *)

NoDialog == [kind |-> "none"]
NoCall == [stage |-> "none"]
NoRows == [query |-> [filter |-> All, page |-> 0, size |-> 0], rows |-> <<>>, total |-> 0]
NewFetch(q) == [query |-> q, stage |-> "sent", rows |-> <<>>, total |-> 0, live |-> TRUE]

(* A fetch covers the rows of the paged lists with a skeleton and disables  *)
(* Overview's refresh button; Logs shows nothing.                           *)
Covered ==
    IF loading = "skeleton" \/ kind = "logs" THEN loading
    ELSE IF kind = "overview" THEN "refresh" ELSE "skeleton"

(* The cleanup of the Logs effect cancels what the old tail asked for.     *)
Cancelled(old) ==
    IF kind = "logs" THEN [i \in 1..Len(old) |-> [old[i] EXCEPT !.live = FALSE]] ELSE old

StartFetch(q, old) ==
    /\ Len(old) < MaxFetches
    /\ fetches' = Append(old, NewFetch(q))
    /\ loading' = Covered
    /\ order' = "open"

Click == clicks < MaxClicks /\ clicks' = clicks + 1

(* A new query: the effect's dependencies have changed. *)
Ask(q) ==
    /\ Click
    /\ query' = q
    /\ StartFetch(q, Cancelled(fetches))
    /\ moved' = (call.stage # "none")
    /\ UNCHANGED <<kind, stored, shown, failed, dialog, call, recorded, faults, grown>>

(* The filter bars of Sessions, RequestLogs and Prompts go back to page 1; *)
(* Overview's presets and the tail of Logs have no pages.                  *)
SessionsFilter(f) == kind = "sessions" /\ Ask([query EXCEPT !.filter = f, !.page = 1])
RequestsFilter(f) == kind = "requests" /\ Ask([query EXCEPT !.filter = f, !.page = 1])
PromptsFilter(f) == kind = "prompts" /\ Ask([query EXCEPT !.filter = f, !.page = 1])
OverviewPreset(f) == kind = "overview" /\ loading # "skeleton" /\ Ask([query EXCEPT !.filter = f])
LogsTail(n) == kind = "logs" /\ n # query.size /\ Ask([query EXCEPT !.size = n])

SetFilter ==
    /\ dialog = NoDialog
    /\ \E f \in (Tag \cup {All}) \ {query.filter} :
         SessionsFilter(f) \/ RequestsFilter(f) \/ PromptsFilter(f) \/ OverviewPreset(f)

SetTail == \E n \in PageSize : LogsTail(n)

(* Sessions and RequestLogs show the pager under every table, Prompts only  *)
(* under rows.                                                              *)
PagerShown ==
    /\ Paged /\ loading = "none" /\ dialog = NoDialog
    /\ kind = "prompts" => shown.rows # <<>>

Paginate ==
    /\ PagerShown
    /\ \/ \E p \in PageButtons(query.page, shown.total, query.size) \ {query.page} :
            Ask([query EXCEPT !.page = p])
       \/ \E s \in PageSize \ {query.size} : Ask([query EXCEPT !.size = s, !.page = 1])

(* The 3 s timer of Logs, the refresh button of Overview *)
Poll ==
    /\ kind = "logs" \/ (kind = "overview" /\ loading = "none")
    /\ Click
    /\ StartFetch(query, fetches)
    /\ UNCHANGED <<kind, stored, query, shown, failed, dialog, call, recorded, faults, moved, grown>>

(* The handler of a paged list counts first, in a statement of its own.     *)
Count(i) ==
    /\ Paged /\ fetches[i].stage = "sent"
    /\ fetches' = [fetches EXCEPT ![i] = [fetches[i] EXCEPT
         !.stage = "counted", !.total = Total(fetches[i].query)]]
    /\ UNCHANGED <<kind, stored, page, call, bounds, order, moved, grown>>

(* Then it reads the rows. *)
Serve(i) ==
    /\ fetches[i].stage = (IF Paged THEN "counted" ELSE "sent")
    /\ fetches' = [fetches EXCEPT ![i] = [fetches[i] EXCEPT
         !.stage = "rows", !.rows = Answer(fetches[i].query)]]
    /\ grown' = (grown /\ ~(order = "open" /\ i = Len(fetches)))
    /\ UNCHANGED <<kind, stored, page, call, bounds, order, moved>>

(* The call fails, at either statement. *)
ServeFails(i) ==
    /\ fetches[i].stage \in {"sent", "counted"}
    /\ faults < MaxFaults /\ faults' = faults + 1
    /\ fetches' = [fetches EXCEPT ![i] = [fetches[i] EXCEPT
         !.stage = "failed", !.total = 0]]
    /\ UNCHANGED <<kind, stored, page, call, clicks, recorded, order, moved, grown>>

Delivered(i) ==
    CASE order = "open" /\ i = Len(fetches) -> "done"
      [] order = "done" -> "late"
      [] OTHER -> order

(* then, catch and finally of a fetch; a cancelled one does nothing *)
Deliver(i) ==
    /\ fetches[i].stage \in {"rows", "failed"}
    /\ fetches' = RemoveAt(fetches, i)
    /\ IF fetches[i].live
         THEN /\ order' = Delivered(i)
              /\ shown' = IF fetches[i].stage = "rows"
                            THEN [query |-> fetches[i].query, rows |-> fetches[i].rows,
                                  total |-> fetches[i].total]
                            ELSE shown
              /\ failed' = (fetches[i].stage = "failed")
              /\ loading' = "none"
         ELSE UNCHANGED <<order, shown, failed, loading>>
    /\ UNCHANGED <<kind, stored, query, dialog, call, bounds, moved, grown>>

----------------------------------------------------------------------------
(* Writes *)

RowsOffered == IF loading = "none" THEN {r.id : r \in ToSet(shown.rows)} ELSE {}

(* Both tables offer a delete; Prompts also create and edit. *)
PromptDialogs ==
    {[kind |-> "create"]} \cup [kind : {"edit", "delete"}, id : RowsOffered]
SessionDialogs == [kind : {"delete"}, id : RowsOffered]

OpenDialog ==
    /\ dialog = NoDialog
    /\ dialog' \in (CASE kind = "prompts" -> PromptDialogs
                      [] kind = "sessions" -> SessionDialogs
                      [] OTHER -> {})
    /\ UNCHANGED <<kind, stored, query, fetches, shown, loading, failed, call,
                   bounds, order, moved, grown>>

CloseDialog ==
    /\ dialog # NoDialog
    /\ dialog' = NoDialog
    /\ UNCHANGED <<kind, stored, query, fetches, shown, loading, failed, call,
                   bounds, order, moved, grown>>

(* One write in flight (bound); what it will do on the server is fixed now, *)
(* and Prompts also fixes the query its refresh will ask for.               *)
SendCall(verb, id, tag) ==
    /\ Click
    /\ call.stage = "none"
    /\ call' = [stage |-> "sent", verb |-> verb, id |-> id, tag |-> tag, query |-> query,
                ok |-> FALSE, live |-> TRUE]
    /\ UNCHANGED <<kind, stored, page, fetches, recorded, faults, order, moved, grown>>

(* toggleFavorite asks for the opposite of the flag the row shows *)
ToggleFavorite ==
    /\ kind = "sessions" /\ loading = "none" /\ dialog = NoDialog
    /\ \E r \in ToSet(shown.rows) : SendCall(IF r.star THEN "unstar" ELSE "star", r.id, All)

ConfirmDelete == dialog.kind = "delete" /\ SendCall("delete", dialog.id, All)

(* PromptFormModal.onSubmit *)
SubmitPrompt ==
    \E t \in Tag :
        \/ dialog.kind = "edit" /\ SendCall("edit", dialog.id, t)
        \/ /\ dialog.kind = "create"
           /\ \E i \in Item \ {r.id : r \in ToSet(stored)} : SendCall("create", i, t)

Effect(c) ==
    CASE c.verb = "delete" -> SelectSeq(stored, LAMBDA r : r.id # c.id)
      [] c.verb \in {"star", "unstar"} ->
            [i \in 1..Len(stored) |-> IF stored[i].id = c.id
                THEN [stored[i] EXCEPT !.star = (c.verb = "star")] ELSE stored[i]]
      [] c.verb = "edit" ->
            [i \in 1..Len(stored) |-> IF stored[i].id = c.id
                THEN [stored[i] EXCEPT !.tag = c.tag] ELSE stored[i]]
      [] c.verb = "create" -> <<[id |-> c.id, tag |-> c.tag, star |-> FALSE]>> \o stored

(* The server applies the write (in one transaction), or it fails. *)
ServeCall ==
    /\ call.stage = "sent"
    /\ \/ stored' = Effect(call) /\ faults' = faults
       \/ faults < MaxFaults /\ faults' = faults + 1 /\ stored' = stored
    /\ call' = [call EXCEPT !.stage = "answer", !.ok = (faults' = faults)]
    /\ grown' = (grown \/ ~call.live)
    /\ UNCHANGED <<kind, page, fetches, clicks, recorded, order, moved>>

Closes(c) == CASE c.verb = "delete" -> "delete" [] c.verb = "edit" -> "edit"
               [] c.verb = "create" -> "create" [] OTHER -> "none"

(* A confirm dialog goes away in every case: the handlers of both pages      *)
(* catch the error.  The form of Prompts goes away on success.              *)
DialogAfter ==
    IF dialog.kind = Closes(call) /\ (call.ok \/ call.verb = "delete") THEN NoDialog ELSE dialog

\* Mutant: only the failure is reported, the table is not fetched again.
AnswerCallNoTick ==
    /\ call.stage = "answer"
    /\ call' = NoCall
    /\ dialog' = IF call.live THEN DialogAfter ELSE dialog
    /\ UNCHANGED <<fetches, loading, order, kind, stored, query, shown, failed, bounds, moved, grown>>

(* A success fetches again: Sessions through its tick, so for the query of  *)
(* now, Prompts through the refresh of the render that sent the write.      *)
AnswerCall ==
    /\ call.stage = "answer"
    /\ call' = NoCall
    /\ dialog' = IF call.live THEN DialogAfter ELSE dialog
    /\ IF call.live /\ call.ok
         THEN StartFetch(IF kind = "prompts" THEN call.query ELSE query, fetches)
         ELSE UNCHANGED <<fetches, loading, order>>
    /\ UNCHANGED <<kind, stored, query, shown, failed, bounds, moved, grown>>

(* The gateway records a request: a new row, or a session seen again.  The   *)
(* mark of a favourite outlives the requests of its session, so a session    *)
(* that comes back may have one.                                             *)
Record ==
    /\ kind # "prompts"
    /\ recorded < MaxRecorded /\ recorded' = recorded + 1
    /\ \E i \in Item, t \in Tag, s \in BOOLEAN :
         /\ \A r \in ToSet(stored) : r.id = i => kind = "sessions" /\ r.tag = t /\ r.star = s
         /\ kind # "sessions" => ~s
         /\ stored' = <<[id |-> i, tag |-> t, star |-> s]>>
                        \o SelectSeq(stored, LAMBDA r : r.id # i)
    /\ grown' = TRUE
    /\ UNCHANGED <<kind, page, fetches, call, clicks, faults, order, moved>>

(* Leaving the page and coming back: the component starts over, and what    *)
(* the old one was waiting for finds nobody.                                *)
Remount ==
    /\ Click
    /\ query' = [filter |-> All, page |-> 1, size |-> CHOOSE s \in PageSize : TRUE]
    /\ fetches' = <<NewFetch(query')>>
    /\ shown' = NoRows /\ loading' = "skeleton" /\ failed' = FALSE /\ dialog' = NoDialog
    /\ call' = IF call.stage = "none" THEN call ELSE [call EXCEPT !.live = FALSE]
    /\ order' = "open" /\ moved' = FALSE
    /\ UNCHANGED <<kind, stored, recorded, faults, grown>>

----------------------------------------------------------------------------
ListInit ==
    /\ kind \in ListKind
    /\ \E tags \in [1..InitLen -> Tag] :
         stored = [i \in 1..InitLen |->
                     [id |-> SetToSeq(Item)[i], tag |-> tags[i], star |-> FALSE]]
    /\ query = [filter |-> All, page |-> 1, size |-> CHOOSE s \in PageSize : TRUE]
    /\ fetches = <<NewFetch(query)>>
    /\ shown = NoRows /\ loading = "skeleton" /\ failed = FALSE /\ dialog = NoDialog
    /\ call = NoCall /\ clicks = 0 /\ recorded = 0 /\ faults = 0
    /\ order = "open" /\ moved = FALSE /\ grown = FALSE

ListNext ==
    \/ SetFilter \/ SetTail \/ Paginate \/ Poll
    \/ OpenDialog \/ CloseDialog \/ ToggleFavorite \/ ConfirmDelete \/ SubmitPrompt
    \/ \E i \in DOMAIN fetches : Count(i) \/ Serve(i) \/ ServeFails(i) \/ Deliver(i)
    \/ ServeCall \/ AnswerCall \/ Record \/ Remount

ListSpec == ListInit /\ [][ListNext]_listVars

----------------------------------------------------------------------------
(* Properties *)

Settled == fetches = <<>> /\ ~failed

(* Once every fetch has been answered the skeleton and the disabled refresh  *)
(* button are gone, and the rows are the answer to what the filter bar and   *)
(* the pager say, with every write of the page in it.  The pages that cancel *)
(* nothing need the newest answer to be the last one to arrive, Prompts also *)
(* that the query stood still during its write; for Logs the cancel flag is  *)
(* enough.                                                                   *)
SettledAnswersQuery ==
    /\ fetches = <<>> => loading = "none"
    /\ (Settled /\ (kind = "logs" \/ order # "late") /\ ~(kind = "prompts" /\ moved))
         => /\ shown.query = query
            /\ (order # "late" /\ call.stage # "answer" /\ ~grown) => shown.rows = Answer(query)

(* Beyond the first page Sessions and RequestLogs never leave the user on an *)
(* empty page without a button to one that has rows now, even after deletes  *)
(* have taken the last page away, and however old the count is that the      *)
(* pager goes by: it offers the page it has clamped to.  An empty first page *)
(* is the business of SettledAnswersQuery.                                   *)
RowsInReach ==
    (kind \in {"sessions", "requests"} /\ loading = "none" /\ query.page > 1
       /\ shown.rows = <<>> /\ Total(query) > 0)
      => \E p \in PageButtons(query.page, shown.total, query.size) \ {query.page} :
            Answer([query EXCEPT !.page = p]) # <<>>
============================================================================
