----------------------------- MODULE TraceView -----------------------------
(* The trace viewer of a session, in both user interfaces.                 *)
(*                                                                         *)
(* desktop: TraceViewer.tsx loads the timeline, selects its first row, and *)
(* for every selection pulls the row and up to BASELINE_WINDOW rows before *)
(* it, through a cache; a cancel flag discards the answers of an earlier   *)
(* selection.                                                              *)
(* web: the session page gets the timeline with the document; a selection  *)
(* calls a Server Action for the row and the one before it.  Nothing is    *)
(* cancelled, but Server Actions of a tab run one after the other.         *)
EXTENDS TraceCategories

CONSTANTS
    Script,       \* the sessions to look at: sequences of rows
    Window,       \* BASELINE_WINDOW
    MaxLoads,     \* bound: selections being loaded
    MaxSelects,   \* bound: clicks on the timeline
    MaxRowFaults, \* bound: row fetches that fail
    Nil

ASSUME TraceAssumption ==
    /\ Script \subseteq Seq(DetailOf)
    /\ Window \in Nat \ {0} /\ MaxLoads \in Nat \ {0} /\ MaxSelects \in Nat /\ MaxRowFaults \in Nat

VARIABLES
    ui,        \* "desktop" or "web"
    script,    \* the rows the server has for this session
    timeline,  \* "loading", "failed" or "ready"
    selected,  \* the selected row, 0 for none
    loads,     \* the loads of selections in flight, in their order
    cache,     \* rows the viewer has a copy of (desktop)
    panel,     \* what the right-hand side shows
    metrics,   \* the request-log figures of the shown row, and the favourite form
    selects, rowFaults   \* bounds

traceVars == <<ui, script, timeline, selected, loads, cache, panel, metrics, selects, rowFaults>>

Rows == 1..Len(script)
NoDetail == [row |-> 0, baseline |-> <<>>]
Skeleton == [state |-> "loading", show |-> NoDetail]
NoMetrics == [state |-> "none", steps |-> "none", draft |-> "closed"]

Mounted == [state |-> "loading", steps |-> "loading", draft |-> "closed"]

----------------------------------------------------------------------------
(* prevIds: up to Window rows before the selected one, closest first *)
PrevIds(row) ==
    [i \in 1..(IF row - 1 < Window THEN row - 1 ELSE Window) |-> row - i]

(* The web action asks for the predecessor only. *)
Predecessor(row) == IF row > 1 THEN <<row - 1>> ELSE <<>>

Candidates(row) == IF ui = "desktop" THEN PrevIds(row) ELSE Predecessor(row)

(* A load: the row, what has still to be fetched, which candidates it has *)
NewLoad(row) ==
    [row |-> row, live |-> TRUE, bad |-> FALSE,
     todo |-> {row} \cup (ToSet(Candidates(row)) \ cache),
     got |-> ToSet(Candidates(row)) \cap cache]

\* Mutant: the cleanup of the effect is missing.
CancelLoadsNot == loads

(* The cleanup of the desktop's effect; the web page has none. *)
CancelLoads ==
    IF ui = "desktop" THEN [i \in 1..Len(loads) |-> [loads[i] EXCEPT !.live = FALSE]] ELSE loads

(* The desktop's first effect.  The web page arrives with its rows and loads *)
(* the first one after a timeout of zero, which is part of this step.        *)
LoadTimeline ==
    /\ timeline = "loading"
    /\ \/ /\ timeline' = "ready"
          /\ selected' = IF script = <<>> THEN 0 ELSE 1
          /\ loads' = IF script = <<>> THEN <<>> ELSE <<NewLoad(1)>>
          /\ UNCHANGED rowFaults
       \/ /\ ui = "desktop" /\ rowFaults < MaxRowFaults /\ rowFaults' = rowFaults + 1
          /\ timeline' = "failed"
          /\ UNCHANGED <<selected, loads>>
    /\ UNCHANGED <<ui, script, cache, panel, metrics, selects>>

(* A click on the timeline.  On the desktop an error replaces the page, the *)
(* timeline included, so nothing can be selected any more.                  *)
Select(row) ==
    /\ timeline = "ready" /\ panel.state # "dead"
    /\ row # selected
    /\ metrics.draft = "closed"
    /\ selects < MaxSelects /\ selects' = selects + 1
    /\ Len(loads) < MaxLoads
    /\ selected' = row
    /\ loads' = Append(CancelLoads, NewLoad(row))
    /\ panel' = [panel EXCEPT !.state = "loading"]
    /\ metrics' = NoMetrics
    /\ UNCHANGED <<ui, script, timeline, cache, rowFaults>>

(* A row is answered.  On the desktop a candidate that fails is left out and *)
(* the row itself fails the whole load; what arrives is cached in any case.  *)
(* For the web action a predecessor that is gone (404) is left out, any      *)
(* other failure fails the pair.                                             *)
FetchRow(i) ==
    /\ ui = "desktop" \/ i = 1
    /\ ~loads[i].bad
    /\ \E r \in loads[i].todo :
         \/ /\ loads' = [loads EXCEPT ![i].todo = @ \ {r},
                                      ![i].got = IF r = loads[i].row THEN @ ELSE @ \cup {r}]
            /\ cache' = IF ui = "desktop" THEN cache \cup {r} ELSE cache
            /\ UNCHANGED rowFaults
         \/ /\ rowFaults < MaxRowFaults /\ rowFaults' = rowFaults + 1
            /\ \/ r # loads[i].row /\ loads' = [loads EXCEPT ![i].todo = @ \ {r}]
               \/ (r = loads[i].row \/ ui = "web") /\ loads' = [loads EXCEPT ![i].bad = TRUE]
            /\ UNCHANGED cache
    /\ UNCHANGED <<ui, script, timeline, selected, panel, metrics, selects>>

(* The candidates that arrived, in the order of Candidates *)
Arrived(l) == Within(Candidates(l.row), l.got)

(* The desktop compares the candidates, web takes its only one. *)
Baseline(l) ==
    LET rows == [i \in 1..Len(Arrived(l)) |-> script[Arrived(l)[i]]]
    IN  IF ui = "desktop" THEN PickBaseline(MessagesOf(script[l.row]), rows) ELSE rows

(* The load settles; on the desktop a failure shows an error for good, the  *)
(* web panel can be left by another selection.                              *)
FinishLoad(i) ==
    /\ loads[i].bad \/ loads[i].todo = {}
    /\ ui = "desktop" \/ i = 1
    /\ loads' = RemoveAt(loads, i)
    /\ IF ~loads[i].live THEN UNCHANGED <<panel, metrics>>
       ELSE IF loads[i].bad
         THEN /\ panel' = [state |-> IF ui = "desktop" THEN "dead" ELSE "error", show |-> NoDetail]
              /\ metrics' = NoMetrics
         ELSE /\ panel' = [state |-> "ready",
                           show |-> [row |-> loads[i].row, baseline |-> Baseline(loads[i])]]
              /\ metrics' = IF ui = "desktop" THEN Mounted ELSE NoMetrics
    /\ UNCHANGED <<ui, script, timeline, selected, cache, selects, rowFaults>>

(* DetailView: the figures of the request log arrive, if it has them yet.    *)
(* Its render hands the favourite form a new `initial`, which seeds it again.*)
MetricsArrive ==
    /\ metrics.state = "loading"
    /\ \E s \in {"shown", "missing"} :
         metrics' = [metrics EXCEPT !.state = s,
                                    !.draft = IF @ = "closed" THEN "closed" ELSE "seed"]
    /\ UNCHANGED <<ui, script, timeline, selected, loads, cache, panel, selects, rowFaults>>

(* DispatchPath: the candidates tried for the request, or nothing at all;    *)
(* it has a state of its own and leaves DetailView alone.                    *)
StepsArrive ==
    /\ metrics.steps = "loading"
    /\ \E s \in {"shown", "hidden"} : metrics' = [metrics EXCEPT !.steps = s]
    /\ UNCHANGED <<ui, script, timeline, selected, loads, cache, panel, selects, rowFaults>>

(* The favourite form: opened with the messages, edited, saved or closed *)
Favorite ==
    /\ ui = "desktop" /\ panel.state = "ready"
    /\ \/ metrics.draft = "closed" /\ metrics' = [metrics EXCEPT !.draft = "seed"]
       \/ metrics.draft = "seed" /\ metrics' = [metrics EXCEPT !.draft = "typed"]
       \/ metrics.draft # "closed" /\ metrics' = [metrics EXCEPT !.draft = "closed"]
    /\ UNCHANGED <<ui, script, timeline, selected, loads, cache, panel, selects, rowFaults>>

----------------------------------------------------------------------------
TraceInit ==
    /\ ui \in {"desktop", "web"}
    /\ script \in Script
    /\ timeline = "loading" /\ selected = 0 /\ loads = <<>> /\ cache = {}
    /\ panel = Skeleton /\ metrics = NoMetrics
    /\ selects = 0 /\ rowFaults = 0

TraceNext ==
    \/ LoadTimeline
    \/ \E r \in Rows : Select(r)
    \/ \E i \in DOMAIN loads : FetchRow(i) \/ FinishLoad(i)
    \/ MetricsArrive \/ StepsArrive \/ Favorite

TraceSpec == TraceInit /\ [][TraceNext]_traceVars

----------------------------------------------------------------------------
(* Properties *)

Shown == panel.state = "ready"
ShownRow == script[panel.show.row]
ShownParts == Analyze(ShownRow, panel.show.baseline)

(* When nothing is loading any more, the panel shows the selected row, or its *)
(* failure; on the desktop a row that is no longer selected is never shown at *)
(* all, however late its answer is.                                           *)
ShownIsSelected ==
    /\ (Shown /\ (ui = "desktop" \/ loads = <<>>)) => panel.show.row = selected
    /\ (timeline = "ready" /\ loads = <<>> /\ selected # 0) => panel.state # "loading"

(* Unless a row could not be fetched, the baseline is one of the Window rows  *)
(* before the shown one, none of them shares more with it, none closer shares *)
(* as much, and without anything in common there is no baseline               *)
(* (trace-baseline.ts), whichever rows the cache had.                         *)
BaselineBest ==
    (Shown /\ ui = "desktop") =>
      LET cur == MessagesOf(ShownRow)
          Common(r) == CommonPrefixLength(cur, MessagesOf(script[r]))
          near == ToSet(PrevIds(panel.show.row))
          best == IF panel.show.baseline = <<>> THEN 0
                  ELSE CommonPrefixLength(cur, MessagesOf(panel.show.baseline[1]))
      IN  \/ rowFaults > 0
          \/ /\ \A r \in near : Common(r) <= best
             /\ best = 0 <=> panel.show.baseline = <<>>
             /\ best > 0 => \E r \in near :
                  /\ panel.show.baseline = <<script[r]>> /\ Common(r) = best
                  /\ \A c \in near : c > r => Common(c) < best

(* Nothing of the recorded request is hidden or shown twice: the sections     *)
(* hold every message once and in order, what is carried over stands in the   *)
(* baseline with the same role and parts, and an opened message shows all     *)
(* of its text, the arguments of its calls and parts of unknown kind included.*)
NothingHidden ==
    Shown =>
      LET parts == ShownParts
          cur == MessagesOf(ShownRow)
          prev == IF panel.show.baseline = <<>> THEN <<>> ELSE MessagesOf(panel.show.baseline[1])
      IN  /\ parts.carried \o parts.turn = Within(cur, OthersOf(cur))
          /\ Len(parts.system) + Len(parts.carried) + Len(parts.turn) = Len(cur)
          /\ \A m \in ToSet(parts.carried) :
               \E p \in ToSet(prev) : p.role = m.role /\ p.content.parts = m.content.parts
          /\ \A m \in ToSet(cur) :
               LET raw == ToSet(MessageNode(m, TRUE)) IN
                 /\ \A p \in ToSet(m.content.parts) :
                      IF p.type = "image_url" THEN "[image]" \in raw ELSE ToSet(p.text) \subseteq raw
                 /\ \A c \in ToSet(m.calls) : ToSet(c) \subseteq raw

(* The deltas of a transcript, and those of one call *)
Sent(chunks) == FlattenSeq([i \in 1..Len(chunks) |-> chunks[i].calls])
SentFor(sent, k) == Within(sent, {tc \in ToSet(sent) : tc.index = k})

(* A transcript reads as what its chat-completion chunks carry: the text is    *)
(* their deltas in order, and every tool call has exactly the pieces sent for *)
(* its index, in index order, however the deltas of different calls are        *)
(* interleaved.  Frames without choices add nothing, so a transcript that has *)
(* only those, as an Anthropic answer does, reads as an empty text.           *)
StreamReadsWhole ==
    (Shown /\ ShownRow.response.form = "sse" /\ SawAny(ShownRow.response.lines)) =>
      LET out == ParseOutput(ShownRow.response)[1]
          chunks == Chunks(ShownRow.response.lines)
          sent == Sent(chunks)
          order == Ascending({tc.index : tc \in ToSet(sent)})
          Of(k) == SentFor(sent, order[k])
      IN  /\ out.text = FlattenSeq([i \in 1..Len(chunks) |-> chunks[i].content])
          /\ Len(out.calls) = Len(order)
          /\ \A k \in 1..Len(order) :
               /\ out.calls[k].name = FlattenSeq([i \in 1..Len(Of(k)) |-> Of(k)[i].name])
               /\ out.calls[k].args = FlattenSeq([i \in 1..Len(Of(k)) |-> Of(k)[i].args])
=============================================================================
