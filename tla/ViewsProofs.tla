---------------------------- MODULE ViewsProofs ----------------------------
(***************************************************************************)
(* Proofs about the list pages of desktop-ui and about the trace viewer,    *)
(* for any table, any recorded session, any number of fetches in flight and  *)
(* any bounds.                                                              *)
(***************************************************************************)
EXTENDS ListPages, TraceView, SequenceTheorems, FiniteSetTheorems, WellFoundedInduction, TLAPS

-----------------------------------------------------------------------------
(***************************************************************************)
(* The list pages: types.                                                   *)
(***************************************************************************)
Query == [filter : Tag \cup {All}, page : Nat \ {0}, size : PageSize]

\* The query NoRows answers: none that can be asked.
NoQuery == [filter |-> All, page |-> 0, size |-> 0]

\* Fetches, rows on the page and writes; R is any set with the rows they carry,
\* I any set with the ids.
FetchOf(R) ==
  [query : Query, stage : {"sent", "counted", "rows", "failed"}, rows : R, total : Nat,
   live : BOOLEAN]
ShownOf(R) == [query : Query \cup {NoQuery}, rows : R, total : Nat]
CallOf(I) ==
  [stage : {"sent", "answer"}, verb : {"star", "unstar", "delete", "edit", "create"},
   id : I, tag : Tag \cup {All}, query : Query, ok : BOOLEAN, live : BOOLEAN]

\* The state of a list page is well formed, whatever its rows look like.
ListTypeOK ==
  /\ kind \in ListKind
  /\ query \in Query
  /\ \E R : fetches \in Seq(FetchOf(R))
  /\ \E R : shown \in ShownOf(R)
  /\ \E I : call \in CallOf(I) \cup {NoCall}
  /\ loading \in {"none", "refresh", "skeleton"}
  /\ order \in {"open", "done", "late"}
  /\ failed \in BOOLEAN /\ moved \in BOOLEAN /\ grown \in BOOLEAN
  /\ faults \in Nat

-----------------------------------------------------------------------------
(***************************************************************************)
(* The invariant behind SettledAnswersQuery.                                *)
(***************************************************************************)
Newest == fetches[Len(fetches)]

\* Answer as a function of the page, its table and the query.
AnswerFrom(k, table, q) ==
  LET m == IF k = "sessions" THEN FavoritesFirst(Matching(table, q.filter))
           ELSE Matching(table, q.filter)
  IN  CASE k = "logs" -> SubSeq(table, 1, Least(q.size, Len(table)))
        [] k = "overview" -> m
        [] OTHER -> SubSeq(m, (q.page - 1) * q.size + 1,
                           Least(q.page * q.size, Len(m)))

\* The query stood still while a write of Prompts was in flight.
Still == ~(kind = "prompts" /\ moved)

\* A write has succeeded and its page has still to fetch again.
RefreshDue == call.stage = "answer" /\ call.ok /\ call.live

\* What covers the rows goes away with a fetch that is not cancelled.
CoverEnds ==
  loading # "none" => \E i \in 1..Len(fetches) : fetches[i].live

\* Only Logs cancels; what it has not cancelled asks for the query of now, and the
\* page shows that query's rows, an error, or is waiting for it.
LogsWait ==
  /\ kind # "logs" => \A i \in 1..Len(fetches) : fetches[i].live
  /\ kind = "logs" =>
       /\ \A i \in 1..Len(fetches) : fetches[i].live => fetches[i].query = query
       /\ \/ failed \/ shown.query = query
          \/ \E i \in 1..Len(fetches) : fetches[i].live

\* While the newest fetch is out, it asks for the query of now and what it has
\* read is what the table holds, unless something else changed the table.
NewestReads ==
  order = "open" =>
    /\ Len(fetches) > 0
    /\ Newest.live
    /\ Still => Newest.query = query
    /\ (Newest.stage = "rows" /\ ~grown /\ ~RefreshDue)
         => Newest.rows = AnswerFrom(kind, stored, Newest.query)

\* Once it has been delivered the same is true of the page.
ShownReads ==
  (order = "done" /\ Still /\ ~failed) =>
    /\ shown.query = query
    /\ (~grown /\ ~RefreshDue) => shown.rows = AnswerFrom(kind, stored, query)

\* A write of Prompts that nobody walked away from will fetch the query of now.
WriteAsksAgain ==
  (kind = "prompts" /\ ~moved /\ call.stage # "none" /\ call.live) => call.query = query

ListInv ==
  ListTypeOK /\ CoverEnds /\ LogsWait /\ NewestReads /\ ShownReads /\ WriteAsksAgain

-----------------------------------------------------------------------------
(***************************************************************************)
(* Sequences of fetches.                                                    *)
(***************************************************************************)
\* RemoveAt takes one element out and keeps the order of the others.
LEMMA RemoveAtSeq ==
  ASSUME NEW S, NEW s \in Seq(S), NEW i \in 1..Len(s)
  PROVE  /\ RemoveAt(s, i) \in Seq(S)
         /\ Len(RemoveAt(s, i)) = Len(s) - 1
         /\ \A j \in 1..(Len(s) - 1) :
              RemoveAt(s, i)[j] = IF j < i THEN s[j] ELSE s[j + 1]
  <1> DEFINE a == SubSeq(s, 1, i - 1)
             b == SubSeq(s, i + 1, Len(s))
  <1>1. /\ a \in Seq(S) /\ Len(a) = i - 1
        /\ \A j \in 1..(i - 1) : a[j] = s[j]
    OBVIOUS
  <1>2. /\ b \in Seq(S) /\ Len(b) = Len(s) - i
        /\ \A j \in 1..(Len(s) - i) : b[j] = s[i + j]
    BY SubSeqProperties
  <1>3. RemoveAt(s, i) = a \o b
    BY Zenon DEF RemoveAt
  <1> HIDE DEF a, b
  <1>4. /\ a \o b \in Seq(S)
        /\ Len(a \o b) = Len(a) + Len(b)
        /\ \A j \in 1..(Len(a) + Len(b)) :
             (a \o b)[j] = IF j <= Len(a) THEN a[j] ELSE b[j - Len(a)]
    BY <1>1, <1>2, ConcatProperties
  <1>5. Len(s) \in Nat
    OBVIOUS
  <1>6. ASSUME NEW j \in 1..(Len(s) - 1)
        PROVE  (a \o b)[j] = IF j < i THEN s[j] ELSE s[j + 1]
    <2>1. CASE j < i
      BY <2>1, <1>1, <1>2, <1>4, <1>5
    <2>2. CASE ~(j < i)
      <3>1. /\ j \in 1..(Len(a) + Len(b)) /\ ~(j <= Len(a))
            /\ j - Len(a) \in 1..(Len(s) - i) /\ i + (j - Len(a)) = j + 1
        BY <2>2, <1>1, <1>2, <1>5
      <3> QED BY <3>1, <2>2, <1>2, <1>4
    <2> QED BY <2>1, <2>2
  <1> QED BY <1>1, <1>2, <1>3, <1>4, <1>5, <1>6

\* Replacing an element by one of a larger set.
LEMMA PutSeq ==
  ASSUME NEW S, NEW T, S \subseteq T, NEW s \in Seq(S), NEW i \in 1..Len(s), NEW x \in T
  PROVE  /\ [s EXCEPT ![i] = x] \in Seq(T)
         /\ Len([s EXCEPT ![i] = x]) = Len(s)
         /\ \A j \in 1..Len(s) :
              [s EXCEPT ![i] = x][j] = IF j = i THEN x ELSE s[j]
  <1>1. s \in Seq(T)
    BY SeqMonotonic
  <1> QED BY <1>1

\* Appending an element of a larger set.
LEMMA AppendSeq ==
  ASSUME NEW S, NEW T, S \subseteq T, NEW s \in Seq(S), NEW x \in T
  PROVE  /\ Append(s, x) \in Seq(T)
         /\ Len(Append(s, x)) = Len(s) + 1
         /\ \A j \in 1..Len(s) : Append(s, x)[j] = s[j]
         /\ Append(s, x)[Len(s) + 1] = x
  <1>1. s \in Seq(T)
    BY SeqMonotonic
  <1> QED BY <1>1

\* More rows, more fetches.
LEMMA FetchMonotonic ==
  ASSUME NEW R, NEW Q, R \subseteq Q
  PROVE  FetchOf(R) \subseteq FetchOf(Q)
  BY DEF FetchOf

\* A new fetch at the end of the others.
LEMMA StartSeq ==
  ASSUME NEW R, NEW old \in Seq(FetchOf(R)), NEW q \in Query
  PROVE  /\ \E Q : Append(old, NewFetch(q)) \in Seq(FetchOf(Q))
         /\ Len(old) \in Nat
         /\ Len(Append(old, NewFetch(q))) = Len(old) + 1
         /\ \A j \in 1..Len(old) : Append(old, NewFetch(q))[j] = old[j]
         /\ Append(old, NewFetch(q))[Len(old) + 1] = NewFetch(q)
  <1> DEFINE Q == R \cup {<<>>}
  <1>1. NewFetch(q) \in FetchOf(Q)
    BY DEF NewFetch, FetchOf
  <1>2. FetchOf(R) \subseteq FetchOf(Q)
    BY FetchMonotonic
  <1> HIDE DEF Q
  <1> QED BY <1>1, <1>2, AppendSeq

\* Cancelling clears the flags of Logs and does nothing elsewhere.
LEMMA CancelledSeq ==
  ASSUME NEW R, fetches \in Seq(FetchOf(R))
  PROVE  /\ Cancelled(fetches) \in Seq(FetchOf(R))
         /\ Len(Cancelled(fetches)) = Len(fetches)
         /\ kind # "logs" => Cancelled(fetches) = fetches
         /\ kind = "logs" => \A i \in 1..Len(fetches) : ~Cancelled(fetches)[i].live
  <1>1. CASE kind # "logs"
    BY <1>1 DEF Cancelled
  <1>2. CASE kind = "logs"
    <2> DEFINE c(i) == [fetches[i] EXCEPT !.live = FALSE]
    <2>1. ASSUME NEW i \in 1..Len(fetches)
          PROVE  c(i) \in FetchOf(R) /\ ~c(i).live
      <3>1. fetches[i] \in FetchOf(R)
        BY ElementOfSeq
      <3> QED BY <3>1 DEF FetchOf
    <2>2. Cancelled(fetches) = [i \in 1..Len(fetches) |-> c(i)]
      BY <1>2 DEF Cancelled
    <2>3. Len(fetches) \in Nat
      OBVIOUS
    <2> HIDE DEF c
    <2>4. [i \in 1..Len(fetches) |-> c(i)] \in Seq(FetchOf(R))
      BY <2>1, <2>3
    <2> QED BY <1>2, <2>1, <2>2, <2>3, <2>4
  <1> QED BY <1>1, <1>2

\* AnswerFrom is what the server answers.
LEMMA AnswerIs ==
  ASSUME NEW q
  PROVE  Answer(q) = AnswerFrom(kind, stored, q)
  BY Zenon DEF Answer, AnswerFrom, MatchingRows, Sorted

\* A total is a number.
LEMMA TotalType ==
  ASSUME NEW q
  PROVE  Total(q) \in Nat
  BY DEF Total

-----------------------------------------------------------------------------
(***************************************************************************)
(* The pager.                                                               *)
(***************************************************************************)
\* There is at least one page.
LEMMA TotalPagesType ==
  ASSUME NEW total \in Nat, NEW size \in Nat \ {0}
  PROVE  TotalPages(total, size) \in Nat \ {0}
  <1>1. Ceil(total, size) \in Nat
    BY DEF Ceil
  <1> QED BY <1>1, ListAssumption DEF TotalPages, Most, Least

\* Every button of the pager leads to a page, counted from 1.
LEMMA PageButtonsType ==
  ASSUME NEW p \in Nat \ {0}, NEW total \in Nat, NEW size \in Nat \ {0}
  PROVE  PageButtons(p, total, size) \subseteq Nat \ {0}
  <1> DEFINE pages == TotalPages(total, size)
             safe == SafePage(p, pages)
  <1>1. pages \in Nat \ {0}
    BY TotalPagesType
  <1> HIDE DEF pages
  <1>2. safe \in Nat \ {0}
    BY <1>1 DEF SafePage, Least, Most
  <1> HIDE DEF safe
  <1>3. PageWindow(safe, pages) \subseteq Nat \ {0}
    BY <1>1, <1>2 DEF PageWindow, Least, Most
  <1>4. PageButtons(p, total, size)
          = PageWindow(safe, pages)
              \cup (IF safe > 1 THEN {1, safe - 1} ELSE {})
              \cup (IF safe < pages THEN {safe + 1, pages} ELSE {})
    BY Zenon DEF PageButtons, pages, safe
  <1> QED BY <1>1, <1>2, <1>3, <1>4

\* The first page has a button.
LEMMA FirstPageOffered ==
  ASSUME NEW p \in Nat \ {0}, NEW total \in Nat, NEW size \in Nat \ {0}
  PROVE  1 \in PageButtons(p, total, size)
  <1> DEFINE pages == TotalPages(total, size)
             safe == SafePage(p, pages)
  <1>1. pages \in Nat \ {0}
    BY TotalPagesType
  <1> HIDE DEF pages
  <1>2. 1 \in PageWindow(safe, pages)
    BY <1>1 DEF PageWindow
  <1> HIDE DEF safe
  <1> QED BY <1>2 DEF PageButtons, pages, safe

\* The sizes on offer are positive.
LEMMA SizeType == PageSize \subseteq Nat \ {0}
  BY ListAssumption

\* What the filter bars and the pager ask for is a query.
LEMMA ChangedQueryType ==
  ASSUME query \in Query, NEW f \in Tag \cup {All}, NEW p \in Nat \ {0}, NEW s \in PageSize
  PROVE  /\ [query EXCEPT !.filter = f, !.page = 1] \in Query
         /\ [query EXCEPT !.filter = f] \in Query
         /\ [query EXCEPT !.page = p] \in Query
         /\ [query EXCEPT !.size = s] \in Query
         /\ [query EXCEPT !.size = s, !.page = 1] \in Query
         /\ [filter |-> All, page |-> 1, size |-> s] \in Query
  <1>0. 1 \in Nat \ {0}
    OBVIOUS
  <1>1. \A n \in Nat \ {0} : [query EXCEPT !.filter = f, !.page = n] \in Query
    BY DEF Query
  <1>2. [query EXCEPT !.filter = f] \in Query
    BY DEF Query
  <1>3. [query EXCEPT !.page = p] \in Query
    BY DEF Query
  <1>4. [query EXCEPT !.size = s] \in Query
    BY DEF Query
  <1>5. \A n \in Nat \ {0} : [query EXCEPT !.size = s, !.page = n] \in Query
    BY DEF Query
  <1>6. [filter |-> All, page |-> 1, size |-> s] \in Query
    BY DEF Query
  <1> QED BY <1>0, <1>1, <1>2, <1>3, <1>4, <1>5, <1>6, Zenon

\* An empty page of the answer lies behind the rows.
LEMMA AnswerEmptyBehind ==
  ASSUME kind \in {"sessions", "requests"}, NEW q \in Query, Answer(q) = <<>>, Total(q) > 0
  PROVE  Total(q) <= (q.page - 1) * q.size
  <1> DEFINE m == MatchingRows(q.filter)
             a == (q.page - 1) * q.size + 1
             b == Least(q.page * q.size, Len(m))
             S == {m[i] : i \in a..b}
  <1>1. Answer(q) = SubSeq(m, a, b) /\ Total(q) = Len(m)
    BY Zenon DEF Answer, Total
  <1>2. q.page \in Nat \ {0} /\ q.size \in Nat \ {0}
    BY SizeType DEF Query
  <1>3. Len(m) \in Nat
    BY TotalType DEF Total
  <1> HIDE DEF m
  <1>4. q.page * q.size \in Nat /\ (q.page - 1) * q.size \in Nat
        /\ q.page * q.size = (q.page - 1) * q.size + q.size
    BY <1>2
  <1>5. a \in Int /\ b \in Int
    BY <1>3, <1>4 DEF Least
  <1> HIDE DEF a, b
  <1>6. Len(SubSeq(m, a, b)) = IF a <= b THEN b - a + 1 ELSE 0
    BY <1>5, SubSeqProperties
  <1>7. b < a
    BY <1>1, <1>5, <1>6
  <1> QED BY <1>1, <1>2, <1>3, <1>4, <1>7 DEF a, b, Least

-----------------------------------------------------------------------------
(***************************************************************************)
(* Every action of a list page keeps the invariant.                         *)
(***************************************************************************)
\* What StartFetch leaves behind.
LEMMA StartFacts ==
  ASSUME ListTypeOK, NEW q \in Query, NEW R, NEW old \in Seq(FetchOf(R)),
         StartFetch(q, old)
  PROVE  /\ \E Q : fetches' \in Seq(FetchOf(Q))
         /\ Len(old) \in Nat /\ Len(fetches') = Len(old) + 1
         /\ \A j \in 1..Len(old) : fetches'[j] = old[j]
         /\ fetches'[Len(old) + 1].live /\ fetches'[Len(old) + 1].query = q
         /\ fetches'[Len(old) + 1].stage = "sent"
         /\ loading' \in {"none", "refresh", "skeleton"} /\ order' = "open"
  <1>1. /\ fetches' = Append(old, NewFetch(q)) /\ loading' = Covered
        /\ order' = "open"
    BY DEF StartFetch
  <1>2. loading' \in {"none", "refresh", "skeleton"}
    BY <1>1 DEF Covered, ListTypeOK
  <1>3. /\ NewFetch(q).live /\ NewFetch(q).query = q /\ NewFetch(q).stage = "sent"
    BY DEF NewFetch
  <1> QED BY <1>1, <1>2, <1>3, StartSeq

\* A query that changes with its fetch.
LEMMA AskKeeps ==
  ASSUME ListInv, NEW q \in Query, Ask(q)
  PROVE  ListInv'
  <1>1. PICK R : fetches \in Seq(FetchOf(R))
    BY DEF ListInv, ListTypeOK
  <1> DEFINE old == Cancelled(fetches)
             n == Len(old)
  <1>2. /\ old \in Seq(FetchOf(R)) /\ n = Len(fetches)
        /\ kind # "logs" => old = fetches
        /\ kind = "logs" => \A i \in 1..Len(fetches) : ~old[i].live
    BY <1>1, CancelledSeq
  <1>3. /\ StartFetch(q, old)
        /\ query' = q /\ moved' = (call.stage # "none")
        /\ kind' = kind /\ stored' = stored /\ shown' = shown /\ failed' = failed
        /\ call' = call /\ faults' = faults /\ grown' = grown
    BY Zenon DEF Ask
  <1> HIDE DEF old
  <1>4. /\ \E Q : fetches' \in Seq(FetchOf(Q))
        /\ n \in Nat /\ Len(fetches') = n + 1
        /\ \A j \in 1..n : fetches'[j] = old[j]
        /\ fetches'[n + 1].live /\ fetches'[n + 1].query = q
        /\ fetches'[n + 1].stage = "sent"
        /\ loading' \in {"none", "refresh", "skeleton"} /\ order' = "open"
    BY <1>2, <1>3, StartFacts DEF ListInv
  <1>5. ListTypeOK'
    BY <1>3, <1>4 DEF ListInv, ListTypeOK
  <1>6. CoverEnds'
    BY <1>4 DEF CoverEnds
  <1>7. LogsWait'
    BY <1>2, <1>3, <1>4 DEF ListInv, LogsWait
  <1>8. NewestReads'
    BY <1>3, <1>4 DEF NewestReads, Newest
  <1>9. ShownReads'
    BY <1>4 DEF ShownReads
  <1>10. WriteAsksAgain'
    BY <1>3 DEF WriteAsksAgain
  <1> QED BY <1>5, <1>6, <1>7, <1>8, <1>9, <1>10 DEF ListInv

\* Another fetch for the query of now, or after a write of Prompts for the query
\* of the render that sent it.
LEMMA FetchAgainKeeps ==
  ASSUME ListInv, NEW q \in Query, StartFetch(q, fetches), Still => q = query,
         kind = "logs" => q = query,
         query' = query, moved' = moved, kind' = kind, shown' = shown,
         failed' = failed, faults' = faults, grown' = grown,
         call' = call \/ call' = NoCall
  PROVE  ListInv'
  <1> DEFINE n == Len(fetches)
  <1>1. PICK R : fetches \in Seq(FetchOf(R))
    BY DEF ListInv, ListTypeOK
  <1>2. /\ \E Q : fetches' \in Seq(FetchOf(Q))
        /\ n \in Nat /\ Len(fetches') = n + 1
        /\ \A j \in 1..n : fetches'[j] = fetches[j]
        /\ fetches'[n + 1].live /\ fetches'[n + 1].query = q
        /\ fetches'[n + 1].stage = "sent"
        /\ loading' \in {"none", "refresh", "skeleton"} /\ order' = "open"
    BY <1>1, StartFacts DEF ListInv
  <1>3. ListTypeOK'
    BY <1>2 DEF ListInv, ListTypeOK
  <1>4. CoverEnds'
    BY <1>2 DEF CoverEnds
  <1>5. LogsWait'
    BY <1>2 DEF ListInv, LogsWait
  <1>6. NewestReads'
    BY <1>2 DEF NewestReads, Newest, Still
  <1>7. ShownReads'
    BY <1>2 DEF ShownReads
  <1>8. WriteAsksAgain'
    BY DEF ListInv, WriteAsksAgain, NoCall
  <1> QED BY <1>3, <1>4, <1>5, <1>6, <1>7, <1>8 DEF ListInv

\* A step that leaves the fetches, the query and the page alone.
LEMMA RestKeeps ==
  ASSUME ListInv, kind' = kind, query' = query, fetches' = fetches, shown' = shown,
         loading' = loading, failed' = failed, order' = order, moved' = moved,
         grown' \in BOOLEAN, faults' \in Nat, \E I : call' \in CallOf(I) \cup {NoCall},
         grown' \/ RefreshDue' \/ (stored' = stored /\ ~grown /\ ~RefreshDue)
           \/ (stored' = stored /\ grown' = grown /\ RefreshDue' = RefreshDue),
         WriteAsksAgain'
  PROVE  ListInv'
  <1>1. ListTypeOK'
    BY DEF ListInv, ListTypeOK
  <1>2. CoverEnds' /\ LogsWait'
    BY DEF ListInv, CoverEnds, LogsWait
  <1>3. NewestReads'
    BY DEF ListInv, NewestReads, Newest, Still
  <1>4. ShownReads'
    BY DEF ListInv, ShownReads, Still
  <1> QED BY <1>1, <1>2, <1>3, <1>4 DEF ListInv

\* One fetch moves on to x at the server: counted or failed, or with its rows.
FetchMoves(i, x) ==
  /\ fetches' = [fetches EXCEPT ![i] = x]
  /\ kind' = kind /\ stored' = stored /\ query' = query /\ shown' = shown
  /\ loading' = loading /\ failed' = failed /\ call' = call
  /\ order' = order /\ moved' = moved
  /\ x.live = fetches[i].live /\ x.query = fetches[i].query
  /\ \/ x.stage # "rows" /\ grown' = grown
     \/ /\ x.rows = AnswerFrom(kind, stored, x.query)
        /\ grown' = (grown /\ ~(order = "open" /\ i = Len(fetches)))

LEMMA FetchMovesKeeps ==
  ASSUME ListInv, NEW i \in 1..Len(fetches), NEW R, NEW Q, fetches \in Seq(FetchOf(R)),
         FetchOf(R) \subseteq FetchOf(Q), NEW x \in FetchOf(Q), FetchMoves(i, x),
         faults' \in Nat
  PROVE  ListInv'
  <1>1. /\ fetches' \in Seq(FetchOf(Q)) /\ Len(fetches') = Len(fetches)
        /\ fetches'[i] = x
        /\ \A j \in 1..Len(fetches) :
             /\ j # i => fetches'[j] = fetches[j]
             /\ fetches'[j].live = fetches[j].live
             /\ fetches'[j].query = fetches[j].query
    BY PutSeq DEF FetchMoves
  <1>2. Len(fetches) \in Nat
    OBVIOUS
  <1>3. /\ kind' = kind /\ stored' = stored /\ query' = query
        /\ shown' = shown /\ loading' = loading /\ failed' = failed /\ call' = call
        /\ order' = order /\ moved' = moved
    BY DEF FetchMoves
  <1>4. \/ x.stage # "rows" /\ grown' = grown
        \/ /\ x.rows = AnswerFrom(kind, stored, x.query)
           /\ grown' = (grown /\ ~(order = "open" /\ i = Len(fetches)))
    BY DEF FetchMoves
  <1>5. ListTypeOK'
    <2>0. grown \in BOOLEAN
      BY DEF ListInv, ListTypeOK
    <2>1. grown' \in BOOLEAN
      BY <2>0, <1>4, Zenon
    <2>2. \E P : fetches' \in Seq(FetchOf(P))
      BY <1>1
    <2> QED BY <1>3, <2>1, <2>2 DEF ListInv, ListTypeOK
  <1>6. CoverEnds' /\ LogsWait'
    BY <1>1, <1>3 DEF ListInv, CoverEnds, LogsWait
  <1>7. NewestReads'
    <2>1. CASE i = Len(fetches)
      BY <2>1, <1>1, <1>2, <1>3, <1>4
         DEF ListInv, NewestReads, Newest, Still, RefreshDue
    <2>2. CASE i # Len(fetches)
      <3>1. grown => grown'
        BY <2>2, <1>4
      <3>2. CASE Len(fetches) > 0
        <4>1. Newest' = Newest
          BY <2>2, <3>2, <1>1, <1>2 DEF Newest
        <4> QED BY <3>1, <4>1, <1>1, <1>3
                DEF ListInv, NewestReads, Still, RefreshDue
      <3> QED BY <3>2, <1>3 DEF ListInv, NewestReads
    <2> QED BY <2>1, <2>2
  <1>8. ShownReads'
    BY <1>3, <1>4 DEF ListInv, ShownReads, Still, RefreshDue
  <1>9. WriteAsksAgain'
    BY <1>3 DEF ListInv, WriteAsksAgain
  <1> QED BY <1>5, <1>6, <1>7, <1>8, <1>9 DEF ListInv

\* The server counts for a fetch, reads its rows, or fails it.
LEMMA ServeKeeps ==
  ASSUME ListInv, NEW i \in 1..Len(fetches), Count(i) \/ Serve(i) \/ ServeFails(i)
  PROVE  ListInv'
  <1> DEFINE f == fetches[i]
             rows == Answer(fetches[i].query)
             total == Total(fetches[i].query)
             counted == [fetches[i] EXCEPT !.stage = "counted", !.total = total]
             read == [fetches[i] EXCEPT !.stage = "rows", !.rows = rows]
             lost == [fetches[i] EXCEPT !.stage = "failed", !.total = 0]
  <1>1. PICK R : fetches \in Seq(FetchOf(R))
    BY DEF ListInv, ListTypeOK
  <1> DEFINE Q == R \cup {rows}
  <1>2. f \in FetchOf(R)
    BY <1>1, ElementOfSeq
  <1>3. FetchOf(R) \subseteq FetchOf(Q)
    BY FetchMonotonic
  <1>4. total \in Nat /\ rows = AnswerFrom(kind, stored, f.query)
    BY TotalType, AnswerIs
  <1>5. faults \in Nat
    BY DEF ListInv, ListTypeOK
  <1> HIDE DEF total, rows
  <1>6. CASE Count(i)
    <2>1. /\ counted \in FetchOf(Q) /\ counted.live = f.live /\ counted.query = f.query
          /\ counted.stage = "counted"
      BY <1>2, <1>4 DEF FetchOf
    <2>2. FetchMoves(i, counted) /\ faults' = faults
      <3>1. fetches' = [fetches EXCEPT ![i] = counted]
        BY <1>6 DEF Count, total
      <3> HIDE DEF counted
      <3> QED BY <1>6, <2>1, <3>1 DEF Count, FetchMoves, page, bounds
    <2> HIDE DEF counted
    <2> QED BY <1>1, <1>3, <1>5, <2>1, <2>2, FetchMovesKeeps
  <1>7. CASE Serve(i)
    <2>1. /\ read \in FetchOf(Q) /\ read.live = f.live /\ read.query = f.query
          /\ read.rows = rows
      BY <1>2 DEF FetchOf
    <2>2. FetchMoves(i, read) /\ faults' = faults
      <3>1. fetches' = [fetches EXCEPT ![i] = read]
        BY <1>7 DEF Serve, rows
      <3> HIDE DEF read
      <3> QED BY <1>4, <1>7, <2>1, <3>1 DEF Serve, FetchMoves, page, bounds
    <2> HIDE DEF read
    <2> QED BY <1>1, <1>3, <1>5, <2>1, <2>2, FetchMovesKeeps
  <1>8. CASE ServeFails(i)
    <2>1. /\ lost \in FetchOf(Q) /\ lost.live = f.live /\ lost.query = f.query
          /\ lost.stage = "failed"
      BY <1>2 DEF FetchOf
    <2>2. FetchMoves(i, lost) /\ faults' = faults + 1
      <3>1. fetches' = [fetches EXCEPT ![i] = lost]
        BY <1>8 DEF ServeFails
      <3> HIDE DEF lost
      <3> QED BY <1>8, <2>1, <3>1 DEF ServeFails, FetchMoves, page
    <2> HIDE DEF lost
    <2> QED BY <1>1, <1>3, <1>5, <2>1, <2>2, FetchMovesKeeps
  <1> QED BY <1>6, <1>7, <1>8

\* A fetch comes back.
LEMMA DeliverKeeps ==
  ASSUME ListInv, NEW i \in 1..Len(fetches), Deliver(i)
  PROVE  ListInv'
  <1> DEFINE f == fetches[i]
             n == Len(fetches)
  <1>1. PICK R : fetches \in Seq(FetchOf(R))
    BY DEF ListInv, ListTypeOK
  <1>2. f \in FetchOf(R) /\ n \in Nat
    BY <1>1, ElementOfSeq
  <1>3. /\ fetches' \in Seq(FetchOf(R)) /\ Len(fetches') = n - 1
        /\ \A j \in 1..(n - 1) :
             fetches'[j] = IF j < i THEN fetches[j] ELSE fetches[j + 1]
    BY <1>1, RemoveAtSeq DEF Deliver
  <1>4. /\ f.stage \in {"rows", "failed"} /\ kind' = kind /\ stored' = stored /\ query' = query
        /\ call' = call /\ faults' = faults /\ moved' = moved /\ grown' = grown
    BY DEF Deliver, bounds
  <1>5. \A j \in 1..n : j # i =>
          \E k \in 1..(n - 1) : fetches'[k] = fetches[j]
    <2> SUFFICES ASSUME NEW j \in 1..n, j # i
                 PROVE  \E k \in 1..(n - 1) : fetches'[k] = fetches[j]
      OBVIOUS
    <2>1. CASE j < i
      BY <2>1, <1>2, <1>3
    <2>2. CASE j > i
      <3>1. j - 1 \in 1..(n - 1) /\ ~(j - 1 < i) /\ (j - 1) + 1 = j
        BY <2>2, <1>2
      <3> QED BY <3>1, <1>3
    <2> QED BY <2>1, <2>2
  <1>6. \A k \in 1..(n - 1) : \E j \in 1..n : fetches'[k] = fetches[j]
    BY <1>2, <1>3
  <1>7. i # n => n - 1 > 0 /\ fetches'[n - 1] = fetches[n]
    BY <1>2, <1>3
  <1>8. CASE ~f.live
    <2>1. /\ order' = order /\ shown' = shown /\ failed' = failed
          /\ loading' = loading
      BY <1>8 DEF Deliver
    <2>2. ListTypeOK'
      BY <1>3, <1>4, <2>1 DEF ListInv, ListTypeOK
    <2>3. CoverEnds'
      BY <1>3, <1>5, <1>8, <2>1 DEF ListInv, CoverEnds
    <2>4. LogsWait'
      <3>1. CASE kind # "logs"
        BY <3>1, <1>8 DEF ListInv, LogsWait
      <3>2. CASE kind = "logs"
        <4>1. \A k \in 1..Len(fetches') :
                fetches'[k].live => fetches'[k].query = query'
          BY <3>2, <1>3, <1>4, <1>6 DEF ListInv, LogsWait
        <4>2. (\E j \in 1..n : fetches[j].live)
                => \E k \in 1..Len(fetches') : fetches'[k].live
          BY <1>3, <1>5, <1>8
        <4> QED BY <3>2, <4>1, <4>2, <1>4, <2>1 DEF ListInv, LogsWait
      <3> QED BY <3>1, <3>2
    <2>5. NewestReads'
      BY <1>2, <1>3, <1>4, <1>7, <1>8, <2>1
         DEF ListInv, NewestReads, Newest, Still, RefreshDue
    <2>6. ShownReads' /\ WriteAsksAgain'
      BY <1>4, <2>1 DEF ListInv, ShownReads, WriteAsksAgain, Still, RefreshDue
    <2> QED BY <2>2, <2>3, <2>4, <2>5, <2>6 DEF ListInv
  <1>9. CASE f.live
    <2>1. /\ order' = Delivered(i) /\ failed' = (f.stage = "failed")
          /\ loading' = "none"
          /\ shown' = IF f.stage = "rows"
                        THEN [query |-> f.query, rows |-> f.rows, total |-> f.total]
                        ELSE shown
      BY <1>9 DEF Deliver
    <2>2. /\ f.stage = "rows" => /\ shown'.query = f.query /\ shown'.rows = f.rows
                                 /\ ~failed'
                                 /\ shown' \in ShownOf(R)
          /\ f.stage # "rows" => failed' /\ shown' = shown
      BY <1>2, <1>4, <2>1 DEF FetchOf, ShownOf
    <2>3. order' \in {"open", "done", "late"}
      BY <2>1 DEF Delivered, ListInv, ListTypeOK
    <2>4. ListTypeOK'
      <3>1. \E Q : shown' \in ShownOf(Q)
        BY <2>2 DEF ListInv, ListTypeOK
      <3> QED BY <1>3, <1>4, <2>1, <2>3, <3>1 DEF ListInv, ListTypeOK
    <2>5. CoverEnds'
      BY <2>1 DEF CoverEnds
    <2>6. LogsWait'
      BY <1>3, <1>4, <1>6, <1>9, <2>2 DEF ListInv, LogsWait
    <2>7. /\ order' = "open" => order = "open" /\ i # n
          /\ order' = "done" => order = "open" /\ i = n
      BY <2>1 DEF Delivered, ListInv, ListTypeOK
    <2>8. NewestReads'
      BY <1>2, <1>3, <1>4, <1>7, <2>7
         DEF ListInv, NewestReads, Newest, Still, RefreshDue
    <2>9. ShownReads'
      BY <1>4, <2>2, <2>7
         DEF ListInv, NewestReads, Newest, ShownReads, Still, RefreshDue
    <2>10. WriteAsksAgain'
      BY <1>4 DEF ListInv, WriteAsksAgain
    <2> QED BY <2>4, <2>5, <2>6, <2>8, <2>9, <2>10 DEF ListInv
  <1> QED BY <1>8, <1>9

\* A write is sent.
LEMMA SendCallKeeps ==
  ASSUME ListInv, NEW verb \in {"star", "unstar", "delete", "edit", "create"}, NEW id,
         NEW t \in Tag \cup {All}, SendCall(verb, id, t)
  PROVE  ListInv'
  <1> DEFINE c == [stage |-> "sent", verb |-> verb, id |-> id, tag |-> t,
                   query |-> query, ok |-> FALSE, live |-> TRUE]
  <1>1. /\ call.stage = "none" /\ call' = c
        /\ kind' = kind /\ stored' = stored /\ query' = query /\ fetches' = fetches
        /\ shown' = shown /\ loading' = loading /\ failed' = failed
        /\ faults' = faults /\ order' = order /\ moved' = moved /\ grown' = grown
    BY DEF SendCall, page
  <1>2. query \in Query
    BY DEF ListInv, ListTypeOK
  <1>3. c \in CallOf({id}) /\ c.stage = "sent" /\ c.query = query
    BY <1>2 DEF CallOf
  <1> HIDE DEF c
  <1>4. \E I : call' \in CallOf(I) \cup {NoCall}
    BY <1>1, <1>3
  <1>5. ~RefreshDue /\ ~RefreshDue'
    BY <1>1, <1>3 DEF RefreshDue
  <1>6. WriteAsksAgain'
    BY <1>1, <1>3 DEF WriteAsksAgain
  <1>7. grown \in BOOLEAN /\ faults \in Nat
    BY DEF ListInv, ListTypeOK
  <1> QED BY <1>1, <1>4, <1>5, <1>6, <1>7, RestKeeps

\* The server applies the write, or it fails.
LEMMA ServeCallKeeps ==
  ASSUME ListInv, ServeCall
  PROVE  ListInv'
  <1>1. /\ call.stage = "sent"
        /\ \/ stored' = Effect(call) /\ faults' = faults
           \/ faults' = faults + 1 /\ stored' = stored
        /\ call' = [call EXCEPT !.stage = "answer", !.ok = (faults' = faults)]
        /\ grown' = (grown \/ ~call.live)
        /\ kind' = kind /\ query' = query /\ fetches' = fetches
        /\ shown' = shown /\ loading' = loading /\ failed' = failed
        /\ order' = order /\ moved' = moved
    BY DEF ServeCall, page
  <1>2. PICK I : call \in CallOf(I) \cup {NoCall}
    BY DEF ListInv, ListTypeOK
  <1>3. call \in CallOf(I)
    BY <1>1, <1>2 DEF NoCall
  <1> DEFINE b == (faults' = faults)
  <1>4. b \in BOOLEAN
    OBVIOUS
  <1> HIDE DEF b
  <1>5. call' = [call EXCEPT !.stage = "answer", !.ok = b]
    BY <1>1 DEF b
  <1>6. /\ call' \in CallOf(I) /\ call'.stage = "answer" /\ call'.ok = b
        /\ call'.live = call.live /\ call'.query = call.query /\ call.live \in BOOLEAN
    BY <1>3, <1>4, <1>5 DEF CallOf
  <1>7. grown \in BOOLEAN /\ faults \in Nat
    BY DEF ListInv, ListTypeOK
  <1>8. grown' \in BOOLEAN
    BY <1>1, <1>6, <1>7, Zenon
  <1>9. faults' \in Nat /\ (b \/ stored' = stored)
    BY <1>1, <1>7 DEF b
  <1>10. ~RefreshDue
    BY <1>1 DEF RefreshDue
  <1>11. grown' \/ RefreshDue' \/ (stored' = stored /\ ~grown)
    BY <1>1, <1>6, <1>9 DEF RefreshDue
  <1>12. WriteAsksAgain'
    BY <1>1, <1>6 DEF ListInv, WriteAsksAgain
  <1>13. \E J : call' \in CallOf(J) \cup {NoCall}
    BY <1>6
  <1> QED BY <1>1, <1>8, <1>9, <1>10, <1>11, <1>12, <1>13, RestKeeps

\* The page hears of its write.
LEMMA AnswerCallKeeps ==
  ASSUME ListInv, AnswerCall
  PROVE  ListInv'
  <1>1. /\ call.stage = "answer" /\ call' = NoCall
        /\ kind' = kind /\ stored' = stored /\ query' = query /\ shown' = shown
        /\ failed' = failed /\ faults' = faults /\ moved' = moved /\ grown' = grown
    BY DEF AnswerCall, bounds
  <1>2. CASE call.live /\ call.ok
    <2> DEFINE q == IF kind = "prompts" THEN call.query ELSE query
    <2>1. StartFetch(q, fetches)
      BY <1>2 DEF AnswerCall
    <2>2. PICK I : call \in CallOf(I) \cup {NoCall}
      BY DEF ListInv, ListTypeOK
    <2>3. call \in CallOf(I)
      BY <1>1, <2>2 DEF NoCall
    <2>4. q \in Query
      BY <2>3 DEF ListInv, ListTypeOK, CallOf
    <2>5. (Still => q = query) /\ (kind = "logs" => q = query)
      BY <1>1, <1>2 DEF ListInv, WriteAsksAgain, Still
    <2> HIDE DEF q
    <2> QED BY <1>1, <2>1, <2>4, <2>5, FetchAgainKeeps
  <1>3. CASE ~(call.live /\ call.ok)
    <2>1. fetches' = fetches /\ loading' = loading /\ order' = order
      BY <1>3 DEF AnswerCall
    <2>2. ~RefreshDue /\ ~RefreshDue'
      BY <1>1, <1>3 DEF RefreshDue, NoCall
    <2>3. WriteAsksAgain'
      BY <1>1 DEF WriteAsksAgain, NoCall
    <2>4. grown \in BOOLEAN /\ faults \in Nat
      BY DEF ListInv, ListTypeOK
    <2>5. \E J : call' \in CallOf(J) \cup {NoCall}
      BY <1>1
    <2> QED BY <1>1, <2>1, <2>2, <2>3, <2>4, <2>5, RestKeeps
  <1> QED BY <1>2, <1>3

\* The gateway records a request, or a dialog opens or closes.
LEMMA OthersKeep ==
  ASSUME ListInv, Record \/ OpenDialog \/ CloseDialog
  PROVE  ListInv'
  <1>1. /\ kind' = kind /\ query' = query /\ fetches' = fetches
        /\ shown' = shown /\ loading' = loading /\ failed' = failed
        /\ order' = order /\ moved' = moved /\ call' = call /\ faults' = faults
        /\ grown' \/ (stored' = stored /\ grown' = grown)
        /\ grown' = TRUE \/ grown' = grown
    BY Zenon DEF Record, OpenDialog, CloseDialog, page, bounds
  <1>2. /\ grown \in BOOLEAN /\ faults \in Nat
        /\ \E I : call \in CallOf(I) \cup {NoCall}
    BY DEF ListInv, ListTypeOK
  <1>3. RefreshDue' = RefreshDue /\ WriteAsksAgain'
    BY <1>1 DEF ListInv, RefreshDue, WriteAsksAgain
  <1> QED BY <1>1, <1>2, <1>3, RestKeeps

\* The query and the fetch of a page that has just been mounted.
FirstQuery == [filter |-> All, page |-> 1, size |-> CHOOSE s \in PageSize : TRUE]

LEMMA FirstFetch ==
  /\ FirstQuery \in Query
  /\ <<NewFetch(FirstQuery)>> \in Seq(FetchOf({<<>>}))
  /\ Len(<<NewFetch(FirstQuery)>>) = 1
  /\ <<NewFetch(FirstQuery)>>[1] = NewFetch(FirstQuery)
  /\ NewFetch(FirstQuery).live /\ NewFetch(FirstQuery).query = FirstQuery
  /\ NewFetch(FirstQuery).stage = "sent"
  /\ NoRows \in ShownOf({<<>>})
  <1>1. (CHOOSE s \in PageSize : TRUE) \in PageSize
    BY ListAssumption
  <1>2. FirstQuery \in Query
    BY <1>1 DEF Query, FirstQuery
  <1>3. NewFetch(FirstQuery) \in FetchOf({<<>>})
    BY <1>2 DEF NewFetch, FetchOf
  <1>4. /\ NewFetch(FirstQuery).live /\ NewFetch(FirstQuery).query = FirstQuery
        /\ NewFetch(FirstQuery).stage = "sent"
    BY DEF NewFetch
  <1>5. NoRows \in ShownOf({<<>>})
    BY DEF NoRows, ShownOf, NoQuery
  <1> QED BY <1>2, <1>3, <1>4, <1>5

\* A page that has just been mounted, with or without a write of the old one.
LEMMA MountedKeeps ==
  ASSUME kind' \in ListKind, query' = FirstQuery, fetches' = <<NewFetch(FirstQuery)>>,
         shown' = NoRows, loading' = "skeleton", failed' = FALSE, order' = "open",
         moved' = FALSE, grown' \in BOOLEAN, faults' \in Nat,
         \E I : call' \in CallOf(I) \cup {NoCall},
         call'.stage = "none" \/ ~call'.live
  PROVE  ListInv'
  <1>1. ListTypeOK'
    <2>1. \E R : fetches' \in Seq(FetchOf(R))
      BY FirstFetch
    <2>2. \E R : shown' \in ShownOf(R)
      BY FirstFetch
    <2> QED BY <2>1, <2>2, FirstFetch DEF ListTypeOK
  <1>2. /\ Len(fetches') = 1 /\ fetches'[1].live /\ fetches'[1].query = query'
        /\ fetches'[1].stage = "sent"
    BY FirstFetch
  <1>3. CoverEnds' /\ LogsWait'
    BY <1>2 DEF CoverEnds, LogsWait
  <1>4. NewestReads' /\ ShownReads'
    BY <1>2 DEF NewestReads, ShownReads, Newest
  <1>5. WriteAsksAgain'
    BY DEF WriteAsksAgain
  <1> QED BY <1>1, <1>3, <1>4, <1>5 DEF ListInv

LEMMA RemountKeeps ==
  ASSUME ListInv, Remount
  PROVE  ListInv'
  <1>1. /\ query' = FirstQuery /\ fetches' = <<NewFetch(query')>>
        /\ shown' = NoRows /\ loading' = "skeleton" /\ failed' = FALSE
        /\ call' = IF call.stage = "none" THEN call ELSE [call EXCEPT !.live = FALSE]
        /\ order' = "open" /\ moved' = FALSE
        /\ kind' = kind /\ faults' = faults /\ grown' = grown
    BY DEF Remount, FirstQuery
  <1>2. PICK I : call \in CallOf(I) \cup {NoCall}
    BY DEF ListInv, ListTypeOK
  <1>3. /\ \E J : call' \in CallOf(J) \cup {NoCall}
        /\ call'.stage = "none" \/ ~call'.live
    <2>1. CASE call.stage = "none"
      BY <1>1, <1>2, <2>1
    <2>2. CASE call.stage # "none"
      <3>1. call \in CallOf(I)
        BY <1>2, <2>2 DEF NoCall
      <3>2. call' = [call EXCEPT !.live = FALSE]
        BY <1>1, <2>2
      <3>3. call' \in CallOf(I) /\ ~call'.live
        BY <3>1, <3>2 DEF CallOf
      <3> QED BY <3>3
    <2> QED BY <2>1, <2>2
  <1>4. kind \in ListKind /\ grown \in BOOLEAN /\ faults \in Nat
    BY DEF ListInv, ListTypeOK
  <1>5. fetches' = <<NewFetch(FirstQuery)>>
    BY <1>1
  <1> QED BY <1>1, <1>3, <1>4, <1>5, MountedKeeps

LEMMA ListInitHolds == ListInit => ListInv
  <1> SUFFICES ASSUME ListInit
               PROVE  ListInv
    OBVIOUS
  <1>1. /\ kind \in ListKind /\ query = FirstQuery /\ fetches = <<NewFetch(FirstQuery)>>
        /\ shown = NoRows /\ loading = "skeleton" /\ failed = FALSE /\ order = "open"
        /\ moved = FALSE /\ grown = FALSE /\ faults = 0 /\ call = NoCall
    BY DEF ListInit, FirstQuery
  <1>2. ListTypeOK
    <2>1. \E R : fetches \in Seq(FetchOf(R))
      BY <1>1, FirstFetch
    <2>2. \E R : shown \in ShownOf(R)
      BY <1>1, FirstFetch
    <2>3. \E I : call \in CallOf(I) \cup {NoCall}
      BY <1>1
    <2> QED BY <1>1, <2>1, <2>2, <2>3, FirstFetch DEF ListTypeOK
  <1>3. /\ Len(fetches) = 1 /\ fetches[1].live /\ fetches[1].query = query
        /\ fetches[1].stage = "sent"
    BY <1>1, FirstFetch
  <1>4. CoverEnds /\ LogsWait
    BY <1>3 DEF CoverEnds, LogsWait
  <1>5. NewestReads /\ ShownReads
    BY <1>1, <1>3 DEF NewestReads, ShownReads, Newest
  <1>6. WriteAsksAgain
    BY <1>1 DEF WriteAsksAgain, NoCall
  <1> QED BY <1>2, <1>4, <1>5, <1>6 DEF ListInv

\* A change of the filter, the tail, the page or the page size asks for a query.
LEMMA QueryChangesAsk ==
  ASSUME ListTypeOK, SetFilter \/ SetTail \/ Paginate
  PROVE  \E q \in Query : Ask(q)
  <1>1. query \in Query /\ All \in Tag \cup {All} /\ 1 \in Nat \ {0}
    BY DEF ListTypeOK
  <1>2. CASE SetFilter
    <2>1. PICK f \in Tag \cup {All} :
            \/ Ask([query EXCEPT !.filter = f, !.page = 1])
            \/ Ask([query EXCEPT !.filter = f])
      BY <1>2, Zenon DEF SetFilter, SessionsFilter, RequestsFilter, PromptsFilter,
                         OverviewPreset
    <2>2. /\ [query EXCEPT !.filter = f, !.page = 1] \in Query
          /\ [query EXCEPT !.filter = f] \in Query
      BY <1>1, ListAssumption, ChangedQueryType
    <2> QED BY <2>1, <2>2
  <1>3. CASE SetTail
    <2>1. PICK n \in PageSize : Ask([query EXCEPT !.size = n])
      BY <1>3, Zenon DEF SetTail, LogsTail
    <2>2. [query EXCEPT !.size = n] \in Query
      BY <1>1, ChangedQueryType
    <2> QED BY <2>1, <2>2
  <1>4. CASE Paginate
    <2>1. PICK R : shown \in ShownOf(R)
      BY DEF ListTypeOK
    <2>2. shown.total \in Nat /\ query.page \in Nat \ {0} /\ query.size \in Nat \ {0}
      BY <1>1, <2>1, SizeType DEF ShownOf, Query
    <2>3. PageButtons(query.page, shown.total, query.size) \subseteq Nat \ {0}
      BY <2>2, PageButtonsType
    <2>4. \/ \E p \in PageButtons(query.page, shown.total, query.size) :
               Ask([query EXCEPT !.page = p])
          \/ \E s \in PageSize : Ask([query EXCEPT !.size = s, !.page = 1])
      BY <1>4, Zenon DEF Paginate
    <2>5. \A p \in Nat \ {0} : [query EXCEPT !.page = p] \in Query
      BY <1>1, ListAssumption, ChangedQueryType
    <2>6. \A s \in PageSize : [query EXCEPT !.size = s, !.page = 1] \in Query
      BY <1>1, ChangedQueryType
    <2> QED BY <2>3, <2>4, <2>5, <2>6, Zenon
  <1> QED BY <1>2, <1>3, <1>4

\* The buttons that write send a call.
LEMMA WritesSend ==
  ASSUME ToggleFavorite \/ ConfirmDelete \/ SubmitPrompt
  PROVE  \E verb \in {"star", "unstar", "delete", "edit", "create"},
            t \in Tag \cup {All} : \E id : SendCall(verb, id, t)
  BY Zenon DEF ToggleFavorite, ConfirmDelete, SubmitPrompt

LEMMA ListNextKeeps ==
  ASSUME ListInv, [ListNext]_listVars
  PROVE  ListInv'
  <1>1. CASE SetFilter \/ SetTail \/ Paginate
    BY <1>1, QueryChangesAsk, AskKeeps DEF ListInv
  <1>2. CASE Poll
    <2>1. /\ StartFetch(query, fetches) /\ query' = query /\ moved' = moved
          /\ kind' = kind /\ shown' = shown /\ failed' = failed /\ faults' = faults
          /\ grown' = grown /\ call' = call
      BY <1>2 DEF Poll
    <2>2. query \in Query
      BY DEF ListInv, ListTypeOK
    <2> QED BY <2>1, <2>2, FetchAgainKeeps
  <1>3. CASE \E i \in DOMAIN fetches :
               Count(i) \/ Serve(i) \/ ServeFails(i) \/ Deliver(i)
    <2>1. DOMAIN fetches = 1..Len(fetches)
      BY LenProperties DEF ListInv, ListTypeOK
    <2> QED BY <1>3, <2>1, ServeKeeps, DeliverKeeps
  <1>4. CASE ToggleFavorite \/ ConfirmDelete \/ SubmitPrompt
    BY <1>4, WritesSend, SendCallKeeps
  <1>5. CASE UNCHANGED listVars
    <2>1. /\ kind' = kind /\ stored' = stored /\ query' = query /\ fetches' = fetches
          /\ shown' = shown /\ loading' = loading /\ failed' = failed /\ call' = call
          /\ faults' = faults /\ order' = order /\ moved' = moved /\ grown' = grown
      BY <1>5 DEF listVars
    <2>2. /\ grown \in BOOLEAN /\ faults \in Nat
          /\ \E I : call \in CallOf(I) \cup {NoCall}
      BY DEF ListInv, ListTypeOK
    <2>3. RefreshDue' = RefreshDue /\ WriteAsksAgain'
      BY <2>1 DEF ListInv, RefreshDue, WriteAsksAgain
    <2> QED BY <2>1, <2>2, <2>3, RestKeeps
  <1> QED BY <1>1, <1>2, <1>3, <1>4, <1>5, ServeCallKeeps, AnswerCallKeeps, OthersKeep,
             RemountKeeps, Zenon DEF ListNext

\* ListInv gives the property: with no fetch left the newest has been delivered,
\* so either the page shows its rows or, on Logs, those of an equal query.
LEMMA ListInvSettles ==
  ASSUME ListInv
  PROVE  SettledAnswersQuery
  <1>1. ASSUME fetches = <<>>
        PROVE  Len(fetches) = 0
    BY <1>1
  <1>2. fetches = <<>> => loading = "none"
    BY <1>1 DEF ListInv, CoverEnds
  <1>3. ASSUME Settled, kind = "logs" \/ order # "late", ~(kind = "prompts" /\ moved)
        PROVE  /\ shown.query = query
               /\ (order # "late" /\ call.stage # "answer" /\ ~grown)
                    => shown.rows = Answer(query)
    <2>1. Len(fetches) = 0 /\ ~failed /\ Still
      BY <1>1, <1>3 DEF Settled, Still
    <2>2. order # "open" /\ order \in {"open", "done", "late"}
      BY <2>1 DEF ListInv, ListTypeOK, NewestReads
    <2>3. shown.query = query
      BY <1>3, <2>1, <2>2 DEF ListInv, LogsWait, ShownReads
    <2>4. ASSUME order # "late", call.stage # "answer", ~grown
          PROVE  shown.rows = Answer(query)
      BY <2>1, <2>2, <2>4, AnswerIs DEF ListInv, ShownReads, RefreshDue
    <2> QED BY <2>3, <2>4
  <1> QED BY <1>2, <1>3 DEF SettledAnswersQuery

\* The state of a list page is always well formed.
THEOREM ListTypeCorrect == ListSpec => []ListTypeOK
  <1>1. ListInv => ListTypeOK
    BY DEF ListInv
  <1>2. ListInv /\ [ListNext]_listVars => ListInv'
    BY ListNextKeeps
  <1> QED BY <1>1, <1>2, ListInitHolds, PTL DEF ListSpec

\* Once every fetch has been answered a list page shows the rows of its query, its
\* own writes included, if the newest answer came last or the page cancels older
\* ones (SettledAnswersQuery).
THEOREM SettledPagesAnswer == ListSpec => []SettledAnswersQuery
  <1>1. ListInv => SettledAnswersQuery
    BY ListInvSettles
  <1>2. ListInv /\ [ListNext]_listVars => ListInv'
    BY ListNextKeeps
  <1> QED BY <1>1, <1>2, ListInitHolds, PTL DEF ListSpec

-----------------------------------------------------------------------------
(***************************************************************************)
(* RowsInReach: page 1 always has a button, and has rows if any page has.   *)
(***************************************************************************)
LEMMA FirstPageReaches ==
  ASSUME ListInv
  PROVE  RowsInReach
  <1> SUFFICES ASSUME kind \in {"sessions", "requests"}, query.page > 1,
                      Total(query) > 0
               PROVE  \E p \in PageButtons(query.page, shown.total, query.size)
                                 \ {query.page} :
                        Answer([query EXCEPT !.page = p]) # <<>>
    BY DEF RowsInReach
  <1> DEFINE q == [query EXCEPT !.page = 1]
  <1>1. PICK R : shown \in ShownOf(R)
    BY DEF ListInv, ListTypeOK
  <1>2. /\ shown.total \in Nat /\ query.page \in Nat \ {0} /\ query.size \in Nat \ {0}
    BY <1>1, SizeType DEF ListInv, ListTypeOK, ShownOf, Query
  <1>3. q \in Query /\ q.page = 1 /\ q.filter = query.filter
    BY DEF ListInv, ListTypeOK, Query
  <1> HIDE DEF q
  <1>4. Answer(q) # <<>>
    <2> SUFFICES ASSUME Answer(q) = <<>> PROVE FALSE
      OBVIOUS
    <2>1. Total(q) \in Nat /\ Total(q) # 0
      BY <1>3, TotalType DEF Total
    <2>2. Total(q) <= (q.page - 1) * q.size
      BY <1>3, <2>1, AnswerEmptyBehind
    <2>3. (q.page - 1) * q.size = 0
      <3>1. q.size \in Nat
        BY <1>3, SizeType DEF Query
      <3> QED BY <1>3, <3>1
    <2> QED BY <2>1, <2>2, <2>3
  <1>5. 1 \in PageButtons(query.page, shown.total, query.size)
    BY <1>2, FirstPageOffered
  <1>6. 1 # query.page
    BY <1>2
  <1> QED BY <1>4, <1>5, <1>6 DEF q

\* Beyond the first page Sessions and RequestLogs always offer a way from an empty
\* page to one with rows (RowsInReach), for every page size, page limit and table,
\* whenever the rows and the count on the page were read.
THEOREM RowsStayInReach == ListSpec => []RowsInReach
  <1>1. ListInv => RowsInReach
    BY FirstPageReaches
  <1>2. ListInv /\ [ListNext]_listVars => ListInv'
    BY ListNextKeeps
  <1> QED BY <1>1, <1>2, ListInitHolds, PTL DEF ListSpec

-----------------------------------------------------------------------------
(***************************************************************************)
(* The trace viewer.                                                        *)
(***************************************************************************)
Load ==
  [row : Nat, live : BOOLEAN, bad : BOOLEAN, todo : SUBSET Nat, got : SUBSET Nat]

\* The right-hand side; B is any set with the baseline it shows.
PanelOf(B) ==
  [state : {"loading", "ready", "error", "dead"}, show : [row : Nat, baseline : B]]

\* The state of the viewer is well formed, whatever its rows look like.
TraceTypeOK ==
  /\ ui \in {"desktop", "web"}
  /\ timeline \in {"loading", "ready", "failed"}
  /\ selected \in Nat
  /\ loads \in Seq(Load)
  /\ cache \in SUBSET Nat
  /\ \E B : panel \in PanelOf(B)
  /\ Len(script) \in Nat

\* Before the timeline there is nothing.
TimelineFirst ==
  timeline = "loading" => loads = <<>> /\ selected = 0 /\ panel.state = "loading"

\* On the desktop every load but the one of the selected row is cancelled; on the
\* web none is, and the last one is of the selected row.
LoadsFollow ==
  /\ ui = "desktop" => \A i \in 1..Len(loads) : loads[i].live => loads[i].row = selected
  /\ ui = "web" => /\ \A i \in 1..Len(loads) : loads[i].live
                   /\ Len(loads) > 0 => loads[Len(loads)].row = selected

\* Somebody will end the skeleton.
SkeletonEnds ==
  (timeline = "ready" /\ selected # 0 /\ panel.state = "loading")
    => \E i \in 1..Len(loads) : loads[i].live

\* What is shown is selected, unless the web still loads.
ShownFollows ==
  (Shown /\ (ui = "desktop" \/ Len(loads) = 0)) => panel.show.row = selected

TraceInv ==
  TraceTypeOK /\ TimelineFirst /\ LoadsFollow /\ SkeletonEnds /\ ShownFollows

LEMMA NewLoadType ==
  ASSUME TraceTypeOK, NEW r \in Nat \ {0}
  PROVE  NewLoad(r) \in Load /\ NewLoad(r).live /\ NewLoad(r).row = r
  <1> DEFINE c == ToSet(Candidates(r))
  <1>1. c \subseteq Nat
    <2>1. CASE ui = "desktop"
      <3> DEFINE k == IF r - 1 < Window THEN r - 1 ELSE Window
      <3>1. k \in Nat /\ k <= r - 1
        BY TraceAssumption
      <3>2. Candidates(r) = [i \in 1..k |-> r - i]
        BY <2>1 DEF Candidates, PrevIds
      <3> HIDE DEF k
      <3>3. \A i \in 1..k : r - i \in Nat
        BY <3>1
      <3> QED BY <3>2, <3>3 DEF ToSet
    <2>2. CASE ui # "desktop"
      BY <2>2 DEF Candidates, Predecessor, ToSet
    <2> QED BY <2>1, <2>2
  <1> HIDE DEF c
  <1>2. /\ {r} \cup (c \ cache) \in SUBSET Nat /\ c \cap cache \in SUBSET Nat
    BY <1>1
  <1>3. NewLoad(r) = [row |-> r, live |-> TRUE, bad |-> FALSE,
                      todo |-> {r} \cup (c \ cache), got |-> c \cap cache]
    BY DEF NewLoad, c
  <1> QED BY <1>2, <1>3 DEF Load

LEMMA LoadTimelineKeeps ==
  ASSUME TraceInv, LoadTimeline
  PROVE  TraceInv'
  <1>1. /\ timeline = "loading" /\ ui' = ui /\ script' = script /\ cache' = cache
        /\ panel' = panel /\ loads = <<>> /\ selected = 0 /\ panel.state = "loading"
    BY DEF LoadTimeline, TraceInv, TimelineFirst
  <1>2. \/ /\ timeline' = "ready" /\ selected' = 0 /\ loads' = <<>>
        \/ /\ timeline' = "ready" /\ selected' = 1 /\ loads' = <<NewLoad(1)>>
        \/ /\ timeline' = "failed" /\ selected' = selected /\ loads' = loads
    BY DEF LoadTimeline
  <1>3. NewLoad(1) \in Load /\ NewLoad(1).live /\ NewLoad(1).row = 1
    BY NewLoadType DEF TraceInv
  <1>4. /\ loads' \in Seq(Load)
        /\ \/ Len(loads') = 0 /\ (timeline' = "ready" => selected' = 0)
           \/ Len(loads') = 1 /\ loads'[1].live /\ loads'[1].row = selected'
    <2>1. CASE timeline' = "ready" /\ selected' = 1 /\ loads' = <<NewLoad(1)>>
      <3> DEFINE x == NewLoad(1)
      <3>1. loads' = <<x>>
        BY <2>1
      <3> HIDE DEF x
      <3>2. loads' \in Seq({x}) /\ Len(loads') = 1 /\ loads'[1] = x
        BY <3>1
      <3>3. loads' \in Seq(Load)
        BY <1>3, <3>2, SeqMonotonic DEF x
      <3> QED BY <1>3, <2>1, <3>2, <3>3 DEF x
    <2>2. CASE loads' = <<>> /\ (timeline' = "ready" => selected' = 0)
      BY <2>2
    <2> QED BY <1>1, <1>2, <2>1, <2>2
  <1>5. TraceTypeOK'
    BY <1>1, <1>2, <1>4 DEF TraceInv, TraceTypeOK
  <1>6. TimelineFirst' /\ ShownFollows'
    BY <1>1, <1>2 DEF TimelineFirst, ShownFollows, Shown
  <1>7. LoadsFollow' /\ SkeletonEnds'
    BY <1>4 DEF LoadsFollow, SkeletonEnds
  <1> QED BY <1>5, <1>6, <1>7 DEF TraceInv

LEMMA SelectKeeps ==
  ASSUME TraceInv, NEW r \in Nat \ {0}, Select(r)
  PROVE  TraceInv'
  <1> DEFINE old == CancelLoads
             n == Len(old)
  <1>1. /\ timeline = "ready" /\ timeline' = "ready" /\ ui' = ui /\ script' = script
        /\ cache' = cache /\ selected' = r /\ loads' = Append(old, NewLoad(r))
        /\ panel' = [panel EXCEPT !.state = "loading"]
    BY DEF Select
  <1>2. /\ old \in Seq(Load)
        /\ ui # "desktop" => old = loads
        /\ ui = "desktop" => \A i \in 1..n : ~old[i].live
    <2>1. loads \in Seq(Load)
      BY DEF TraceInv, TraceTypeOK
    <2>2. CASE ui # "desktop"
      BY <2>1, <2>2 DEF CancelLoads
    <2>3. CASE ui = "desktop"
      <3> DEFINE c(i) == [loads[i] EXCEPT !.live = FALSE]
      <3>1. ASSUME NEW i \in 1..Len(loads)
            PROVE  c(i) \in Load /\ ~c(i).live
        <4>1. loads[i] \in Load
          BY <2>1, ElementOfSeq
        <4> QED BY <4>1 DEF Load
      <3>2. old = [i \in 1..Len(loads) |-> c(i)]
        BY <2>3 DEF CancelLoads
      <3>3. Len(loads) \in Nat
        BY <2>1
      <3> HIDE DEF c, old
      <3>4. old \in Seq(Load) /\ Len(old) = Len(loads)
        BY <3>1, <3>2, <3>3
      <3> QED BY <2>3, <3>1, <3>2, <3>3, <3>4
    <2> QED BY <2>2, <2>3
  <1>3. NewLoad(r) \in Load /\ NewLoad(r).live /\ NewLoad(r).row = r
    BY NewLoadType DEF TraceInv
  <1> HIDE DEF old
  <1>4. /\ loads' \in Seq(Load) /\ n \in Nat /\ Len(loads') = n + 1
        /\ \A j \in 1..n : loads'[j] = old[j]
        /\ loads'[n + 1].live /\ loads'[n + 1].row = r
    BY <1>1, <1>2, <1>3, AppendSeq
  <1>5. panel'.state = "loading" /\ \E B : panel' \in PanelOf(B)
    <2>1. PICK B : panel \in PanelOf(B)
      BY DEF TraceInv, TraceTypeOK
    <2> QED BY <2>1, <1>1 DEF PanelOf
  <1>6. TraceTypeOK'
    BY <1>1, <1>4, <1>5 DEF TraceInv, TraceTypeOK
  <1>7. TimelineFirst' /\ ShownFollows'
    BY <1>1, <1>5 DEF TimelineFirst, ShownFollows, Shown
  <1>8. LoadsFollow'
    BY <1>1, <1>2, <1>4 DEF TraceInv, TraceTypeOK, LoadsFollow
  <1>9. SkeletonEnds'
    BY <1>4 DEF SkeletonEnds
  <1> QED BY <1>6, <1>7, <1>8, <1>9 DEF TraceInv

\* A row arrives, or cannot be fetched.
LEMMA FetchRowKeeps ==
  ASSUME TraceInv, NEW i \in 1..Len(loads), FetchRow(i)
  PROVE  TraceInv'
  <1>1. loads \in Seq(Load) /\ Len(loads) \in Nat /\ cache \in SUBSET Nat
    BY DEF TraceInv, TraceTypeOK
  <1>2. loads[i] \in Load
    BY <1>1, ElementOfSeq
  <1>3. PICK r \in loads[i].todo :
          \/ /\ loads' = [loads EXCEPT ![i].todo = @ \ {r},
                                       ![i].got = IF r = loads[i].row THEN @ ELSE @ \cup {r}]
             /\ cache' = IF ui = "desktop" THEN cache \cup {r} ELSE cache
          \/ loads' = [loads EXCEPT ![i].todo = @ \ {r}] /\ cache' = cache
          \/ loads' = [loads EXCEPT ![i].bad = TRUE] /\ cache' = cache
    BY DEF FetchRow
  <1>4. r \in Nat
    BY <1>2, <1>3 DEF Load
  <1>5. /\ ui' = ui /\ script' = script /\ timeline' = timeline
        /\ selected' = selected /\ panel' = panel
    BY DEF FetchRow
  <1>6. \E x \in Load : /\ loads' = [loads EXCEPT ![i] = x]
                        /\ x.row = loads[i].row /\ x.live = loads[i].live
    <2> DEFINE l == loads[i]
               t == l.todo \ {r}
               g == IF r = l.row THEN l.got ELSE l.got \cup {r}
               a == [l EXCEPT !.todo = t, !.got = g]
               b == [l EXCEPT !.todo = t]
               c == [l EXCEPT !.bad = TRUE]
    <2>1. t \in SUBSET Nat /\ g \in SUBSET Nat
      BY <1>2, <1>4 DEF Load
    <2>2. \/ loads' = [loads EXCEPT ![i] = a]
          \/ loads' = [loads EXCEPT ![i] = b]
          \/ loads' = [loads EXCEPT ![i] = c]
      BY <1>1, <1>2, <1>3 DEF Load
    <2> HIDE DEF t, g
    <2>3. a \in Load /\ a.row = l.row /\ a.live = l.live
      BY <1>2, <2>1 DEF Load
    <2>4. b \in Load /\ b.row = l.row /\ b.live = l.live
      BY <1>2, <2>1 DEF Load
    <2>5. c \in Load /\ c.row = l.row /\ c.live = l.live
      BY <1>2 DEF Load
    <2> HIDE DEF a, b, c
    <2> QED BY <2>2, <2>3, <2>4, <2>5
  <1>7. /\ loads' \in Seq(Load) /\ Len(loads') = Len(loads)
        /\ \A j \in 1..Len(loads) : /\ loads'[j].row = loads[j].row
                                    /\ loads'[j].live = loads[j].live
    BY <1>1, <1>6, PutSeq
  <1>8. cache' \in SUBSET Nat
    BY <1>1, <1>3, <1>4
  <1>9. TraceTypeOK'
    BY <1>5, <1>7, <1>8 DEF TraceInv, TraceTypeOK
  <1>10. timeline # "loading"
    BY <1>1 DEF TraceInv, TimelineFirst
  <1>11. TimelineFirst' /\ SkeletonEnds' /\ ShownFollows'
    BY <1>1, <1>5, <1>7, <1>10
       DEF TraceInv, TimelineFirst, SkeletonEnds, ShownFollows, Shown
  <1>12. LoadsFollow'
    BY <1>1, <1>5, <1>7 DEF TraceInv, LoadsFollow
  <1> QED BY <1>9, <1>11, <1>12 DEF TraceInv

\* A load settles.
LEMMA FinishLoadKeeps ==
  ASSUME TraceInv, NEW i \in 1..Len(loads), FinishLoad(i)
  PROVE  TraceInv'
  <1> DEFINE l == loads[i]
             n == Len(loads)
  <1>1. loads \in Seq(Load) /\ n \in Nat /\ ui \in {"desktop", "web"}
    BY DEF TraceInv, TraceTypeOK
  <1>2. l \in Load
    BY <1>1, ElementOfSeq
  <1>3. /\ ui' = ui /\ script' = script /\ timeline' = timeline /\ cache' = cache
        /\ selected' = selected /\ (ui = "desktop" \/ i = 1)
    BY DEF FinishLoad
  <1>4. /\ loads' \in Seq(Load) /\ Len(loads') = n - 1
        /\ \A j \in 1..(n - 1) : loads'[j] = IF j < i THEN loads[j] ELSE loads[j + 1]
    BY <1>1, RemoveAtSeq DEF FinishLoad
  <1>5. timeline # "loading"
    BY <1>1 DEF TraceInv, TimelineFirst
  <1>6. LoadsFollow'
    <2>1. \A j \in 1..(n - 1) : \E k \in 1..n : loads'[j] = loads[k]
      BY <1>1, <1>4
    <2>2. CASE ui = "desktop"
      BY <2>1, <2>2, <1>3, <1>4 DEF TraceInv, LoadsFollow
    <2>3. CASE ui = "web"
      <3>1. i = 1
        BY <2>3, <1>3
      <3>2. n - 1 > 0 => loads'[n - 1] = loads[n]
        BY <3>1, <1>1, <1>4
      <3> QED BY <2>1, <2>3, <3>2, <1>3, <1>4 DEF TraceInv, LoadsFollow
    <2> QED BY <1>1, <2>2, <2>3
  <1>7. CASE ~l.live
    <2>1. panel' = panel /\ ui = "desktop"
      BY <1>1, <1>7 DEF FinishLoad, TraceInv, LoadsFollow
    <2>2. \A j \in 1..n : j # i => \E k \in 1..(n - 1) : loads'[k] = loads[j]
      <3> SUFFICES ASSUME NEW j \in 1..n, j # i
                   PROVE  \E k \in 1..(n - 1) : loads'[k] = loads[j]
        OBVIOUS
      <3>1. CASE j < i
        BY <3>1, <1>1, <1>4
      <3>2. CASE j > i
        <4>1. j - 1 \in 1..(n - 1) /\ ~(j - 1 < i) /\ (j - 1) + 1 = j
          BY <3>2, <1>1
        <4> QED BY <4>1, <1>4
      <3> QED BY <3>1, <3>2
    <2>3. TraceTypeOK'
      BY <1>3, <1>4, <2>1 DEF TraceInv, TraceTypeOK
    <2>4. SkeletonEnds'
      BY <1>3, <1>4, <1>7, <2>1, <2>2 DEF TraceInv, SkeletonEnds
    <2>5. ShownFollows' /\ TimelineFirst'
      BY <1>3, <1>5, <2>1 DEF TraceInv, ShownFollows, Shown, TimelineFirst
    <2> QED BY <1>6, <2>3, <2>4, <2>5 DEF TraceInv
  <1>8. CASE l.live
    <2>1. \/ panel' = [state |-> IF ui = "desktop" THEN "dead" ELSE "error",
                       show |-> NoDetail]
          \/ panel' = [state |-> "ready",
                       show |-> [row |-> l.row, baseline |-> Baseline(l)]]
      BY <1>8 DEF FinishLoad
    <2>2. /\ \E B : panel' \in PanelOf(B)
          /\ panel'.state # "loading"
          /\ panel'.state = "ready" => panel'.show.row = l.row
      <3>1. CASE panel' = [state |-> IF ui = "desktop" THEN "dead" ELSE "error",
                           show |-> NoDetail]
        <4>1. panel' \in PanelOf({<<>>})
          BY <3>1 DEF PanelOf, NoDetail
        <4>2. panel'.state \in {"dead", "error"}
          BY <3>1
        <4> QED BY <4>1, <4>2
      <3>2. CASE panel' = [state |-> "ready",
                           show |-> [row |-> l.row, baseline |-> Baseline(l)]]
        <4> DEFINE b == Baseline(l)
        <4>1. panel' = [state |-> "ready", show |-> [row |-> l.row, baseline |-> b]]
          BY <3>2
        <4> HIDE DEF b
        <4>2. panel' \in PanelOf({b})
          BY <4>1, <1>2 DEF PanelOf, Load
        <4>3. panel'.state = "ready" /\ panel'.show.row = l.row
          BY <4>1
        <4> QED BY <4>2, <4>3
      <3> QED BY <2>1, <3>1, <3>2
    <2>3. TraceTypeOK'
      BY <1>3, <1>4, <2>2 DEF TraceInv, TraceTypeOK
    <2>4. SkeletonEnds' /\ TimelineFirst'
      BY <1>3, <1>5, <2>2 DEF SkeletonEnds, TimelineFirst
    <2>5. (ui = "desktop" \/ n - 1 = 0) => l.row = selected
      BY <1>1, <1>8 DEF TraceInv, LoadsFollow
    <2>6. ShownFollows'
      BY <1>3, <1>4, <2>2, <2>5 DEF ShownFollows, Shown
    <2> QED BY <1>6, <2>3, <2>4, <2>6 DEF TraceInv
  <1> QED BY <1>7, <1>8

LEMMA TraceNextKeeps ==
  ASSUME TraceInv, [TraceNext]_traceVars
  PROVE  TraceInv'
  <1>1. CASE \E r \in Rows : Select(r)
    <2>1. Rows \subseteq Nat \ {0}
      BY DEF Rows, TraceInv, TraceTypeOK
    <2> QED BY <1>1, <2>1, SelectKeeps
  <1>2. CASE \E i \in DOMAIN loads : FetchRow(i) \/ FinishLoad(i)
    <2>1. DOMAIN loads = 1..Len(loads)
      BY LenProperties DEF TraceInv, TraceTypeOK
    <2> QED BY <1>2, <2>1, FetchRowKeeps, FinishLoadKeeps
  <1>3. CASE MetricsArrive \/ StepsArrive \/ Favorite \/ UNCHANGED traceVars
    <2>1. /\ ui' = ui /\ script' = script /\ timeline' = timeline
          /\ selected' = selected /\ loads' = loads /\ cache' = cache /\ panel' = panel
      BY <1>3, Zenon DEF MetricsArrive, StepsArrive, Favorite, traceVars
    <2> QED BY <2>1 DEF TraceInv, TraceTypeOK, TimelineFirst, LoadsFollow, SkeletonEnds,
                        ShownFollows, Shown
  <1> QED BY <1>1, <1>2, <1>3, LoadTimelineKeeps, Zenon DEF TraceNext

LEMMA TraceInitHolds == TraceInit => TraceInv
  <1> SUFFICES ASSUME TraceInit
               PROVE  TraceInv
    OBVIOUS
  <1>1. /\ ui \in {"desktop", "web"} /\ timeline = "loading" /\ selected = 0
        /\ loads = <<>> /\ cache = {} /\ panel = Skeleton
    BY DEF TraceInit
  <1>2. panel.state = "loading" /\ panel \in PanelOf({<<>>})
    BY <1>1 DEF Skeleton, NoDetail, PanelOf
  <1>3. loads \in Seq(Load) /\ Len(loads) = 0
    BY <1>1
  <1>4. Len(script) \in Nat
    OBVIOUS
  <1>5. TraceTypeOK
    BY <1>1, <1>2, <1>3, <1>4 DEF TraceTypeOK
  <1>6. TimelineFirst /\ LoadsFollow /\ SkeletonEnds /\ ShownFollows
    BY <1>1, <1>2, <1>3 DEF TimelineFirst, LoadsFollow, SkeletonEnds, ShownFollows, Shown
  <1> QED BY <1>5, <1>6 DEF TraceInv

\* The trace viewer shows the row that is selected, or its failure: on the desktop
\* always, on the web once nothing is loading any more (ShownIsSelected).
THEOREM ViewerFollowsSelection == TraceSpec => []ShownIsSelected
  <1>1. TraceInv => ShownIsSelected
    <2> SUFFICES ASSUME TraceInv
                 PROVE  ShownIsSelected
      OBVIOUS
    <2>1. loads = <<>> => Len(loads) = 0
      OBVIOUS
    <2> QED BY <2>1 DEF TraceInv, ShownFollows, SkeletonEnds, ShownIsSelected
  <1>2. TraceInv /\ [TraceNext]_traceVars => TraceInv'
    BY TraceNextKeeps
  <1> QED BY <1>1, <1>2, TraceInitHolds, PTL DEF TraceSpec

-----------------------------------------------------------------------------
(***************************************************************************)
(* Loops over sequences.  The provers take no predicate as a parameter, so   *)
(* an induction is stated for the set of numbers for which the claim holds,  *)
(* and a fold for the function that makes its steps.                         *)
(***************************************************************************)
\* A nonempty set of naturals has a least element.
LEMMA LeastNatural ==
  ASSUME NEW T, T \subseteq Nat, T # {}
  PROVE  \E x \in T : \A y \in T : ~(y < x)
  <1>1. IsWellFoundedOn(OpToRel(<, Nat), Nat)
    BY NatLessThanWellFounded, Zenon
  <1>2. \E x \in T : \A y \in T : ~(<<y, x>> \in OpToRel(<, Nat))
    BY <1>1, WFMin, Zenon
  <1> QED BY <1>2 DEF OpToRel

\* Induction up to n: the numbers for which a claim holds are given as a set.
LEMMA UpTo ==
  ASSUME NEW n \in Nat, NEW T, 0 \in T,
         \A k \in 1..n : k - 1 \in T => k \in T
  PROVE  \A k \in 0..n : k \in T
  <1> DEFINE Bad == {k \in 0..n : k \notin T}
  <1> SUFFICES ASSUME Bad # {} PROVE FALSE
    OBVIOUS
  <1>1. PICK m \in Bad : \A k \in Bad : ~(k < m)
    <2>1. Bad \subseteq Nat
      OBVIOUS
    <2> HIDE DEF Bad
    <2> QED BY <2>1, LeastNatural
  <1>2. m \in 1..n /\ m - 1 \in 0..n
    OBVIOUS
  <1> QED BY <1>1, <1>2

\* A nonempty set of numbers up to n has a greatest element.
LEMMA MaxUpTo ==
  ASSUME NEW n \in Nat, NEW S, S \subseteq 0..n, S # {}
  PROVE  Max(S) \in S /\ \A x \in S : x <= Max(S)
  <1> DEFINE T == {n - x : x \in S}
  <1>1. PICK z \in T : \A y \in T : ~(y < z)
    <2>1. ASSUME NEW x \in S PROVE n - x \in Nat
      OBVIOUS
    <2>2. T \subseteq Nat
      BY <2>1
    <2>3. T # {}
      OBVIOUS
    <2> HIDE DEF T
    <2> QED BY <2>2, <2>3, LeastNatural
  <1>2. PICK m \in S : z = n - m
    OBVIOUS
  <1>3. ASSUME NEW x \in S PROVE m >= x
    <2>1. n - x \in T
      OBVIOUS
    <2>2. ~(n - x < n - m)
      BY <1>1, <1>2, <2>1
    <2> QED BY <2>2
  <1>4. Max(S) \in S /\ \A x \in S : Max(S) >= x
    BY <1>3, Zenon DEF Max
  <1> QED BY <1>4

(***************************************************************************)
(* Folds.  FoldLeft(op, base, s) is a recursive function on the subsets of  *)
(* DOMAIN s; op is given as a function F of position and value.             *)
(***************************************************************************)
Closed(F, n, V) == \A k \in 1..n, v \in V : F[<<k, v>>] \in V
Runs(h, n, b, F) == h[0] = b /\ \A k \in 1..n : h[k] = F[<<k, h[k - 1]>>]
Obeys(c, n, V, F) ==
  \A u \in SUBSET (1..n) :
    u # {} /\ c[u \ {Max(u)}] \in V => c[u] = F[<<Max(u), c[u \ {Max(u)}]>>]
Folds(g, n, b, F) ==
  g = [s \in SUBSET (1..n) |-> IF s = {} THEN b ELSE F[<<Max(s), g[s \ {Max(s)}]>>]]
FoldLoop(c, n, b, V, F) ==
  n \in Nat /\ b \in V /\ Closed(F, n, V) /\ c[{}] = b /\ Obeys(c, n, V, F)

\* Taking its maximum from a set of positions leaves a set of positions.
LEMMA MaxRemoved ==
  ASSUME NEW n \in Nat, NEW s \in SUBSET (1..n), s # {}
  PROVE  /\ Max(s) \in 1..n /\ Max(s) \in s
         /\ \A x \in s : x <= Max(s)
         /\ s \ {Max(s)} \in SUBSET (1..(n - 1))
         /\ s \ {Max(s)} \in SUBSET (1..n)
  <1>1. s \subseteq 0..n
    OBVIOUS
  <1>2. Max(s) \in s /\ \A x \in s : x <= Max(s)
    BY <1>1, MaxUpTo
  <1>3. Max(s) \in 1..n
    BY <1>2
  <1>4. ASSUME NEW x \in s \ {Max(s)}
        PROVE  x \in 1..(n - 1) /\ x \in 1..n
    <2>1. x \in 1..n /\ x <= Max(s) /\ x # Max(s)
      BY <1>2
    <2> HIDE DEF Max
    <2> QED BY <1>3, <2>1
  <1> QED BY <1>2, <1>3, <1>4

\* The recursive function of a fold exists when its steps stay in V.
LEMMA FoldExists ==
  ASSUME NEW n \in Nat, NEW V, NEW b \in V, NEW F, Closed(F, n, V)
  PROVE  \E g \in [SUBSET (1..n) -> V] : Folds(g, n, b, F)
  <1> USE DEF Closed
  <1> DEFINE T == {k \in 0..n : \E g \in [SUBSET (1..k) -> V] : Folds(g, k, b, F)}
  <1>1. 0 \in T
    <2> DEFINE g == [s \in SUBSET (1..0) |-> b]
    <2>1. g \in [SUBSET (1..0) -> V]
      OBVIOUS
    <2>2. Folds(g, 0, b, F)
      BY DEF Folds
    <2> QED BY <2>1, <2>2
  <1>2. ASSUME NEW k \in 1..n, k - 1 \in T
        PROVE  k \in T
    <2>1. PICK g \in [SUBSET (1..(k-1)) -> V] : Folds(g, k - 1, b, F)
      BY <1>2
    <2> DEFINE h == [s \in SUBSET (1..k) |-> IF k \in s THEN F[<<k, g[s \ {k}]>>] ELSE g[s]]
    <2>2. ASSUME NEW s \in SUBSET (1..k)
          PROVE  /\ s \ {k} \in SUBSET (1..(k-1))
                 /\ k \notin s => s \in SUBSET (1..(k-1))
      OBVIOUS
    <2>3. h \in [SUBSET (1..k) -> V]
      BY <2>2
    <2>4. ASSUME NEW s \in SUBSET (1..k)
          PROVE  h[s] = IF s = {} THEN b ELSE F[<<Max(s), h[s \ {Max(s)}]>>]
      <3>1. CASE s = {}
        BY <2>1, <3>1 DEF Folds
      <3>2. CASE k \in s
        <4>1. Max(s) \in s /\ k <= Max(s)
          BY <3>2, MaxRemoved
        <4>2. Max(s) = k
          <5>1. Max(s) \in 1..k
            BY <4>1
          <5> QED BY <4>1, <5>1
        <4>3. h[s] = F[<<k, g[s \ {k}]>>]
          BY <3>2
        <4>4. s \ {k} \in SUBSET (1..k) /\ h[s \ {k}] = g[s \ {k}]
          BY <2>2
        <4> HIDE DEF h
        <4> QED BY <3>2, <4>2, <4>3, <4>4
      <3>3. CASE k \notin s /\ s # {}
        <4>1. s \in SUBSET (1..(k-1)) /\ k - 1 \in Nat
          BY <2>2, <3>3
        <4>2. s \ {Max(s)} \in SUBSET (1..(k-1))
          BY <4>1
        <4>3. h[s] = g[s]
          BY <3>3
        <4>4. h[s \ {Max(s)}] = g[s \ {Max(s)}]
          BY <4>2, <3>3
        <4>5. g[s] = F[<<Max(s), g[s \ {Max(s)}]>>]
          BY <2>1, <3>3, <4>1 DEF Folds
        <4> HIDE DEF h
        <4> QED BY <3>3, <4>3, <4>4, <4>5
      <3> QED BY <3>1, <3>2, <3>3
    <2>5. Folds(h, k, b, F)
      BY <2>4 DEF Folds
    <2> HIDE DEF h
    <2>6. \E f \in [SUBSET (1..k) -> V] : Folds(f, k, b, F)
      BY <2>3, <2>5
    <2> QED BY <2>6
  <1>3. \A k \in 0..n : k \in T
    <2> HIDE DEF T
    <2> QED BY <1>1, <1>2, UpTo
  <1>4. n \in T
    <2> HIDE DEF T
    <2> QED BY <1>3
  <1> QED BY <1>4

\* The maximum of 1..k, and what is left without it.
LEMMA MaxOfInterval ==
  ASSUME NEW n \in Nat, NEW k \in 1..n
  PROVE  /\ 1..k \in SUBSET (1..n) /\ 1..k # {}
         /\ Max(1..k) = k /\ (1..k) \ {k} = 1..(k - 1)
  <1>1. 1..k \in SUBSET (1..n) /\ 1..k # {}
    OBVIOUS
  <1>2. Max(1..k) \in 1..k /\ \A x \in 1..k : x <= Max(1..k)
    BY <1>1, MaxRemoved
  <1> HIDE DEF Max
  <1>3. k <= Max(1..k) /\ Max(1..k) \in Int /\ Max(1..k) <= k
    BY <1>2
  <1>4. Max(1..k) = k
    BY <1>3
  <1>5. ASSUME NEW x PROVE x \in (1..k) \ {k} <=> x \in 1..(k - 1)
    OBVIOUS
  <1>6. (1..k) \ {k} = 1..(k - 1)
    BY <1>5
  <1> QED BY <1>1, <1>4, <1>6

\* What a function on the subsets that obeys the equation of a fold computes: the
\* values of a loop over 1..n.
LEMMA FoldRuns ==
  ASSUME NEW c, NEW n, NEW b, NEW V, NEW F, FoldLoop(c, n, b, V, F)
  PROVE  \E h \in [0..n -> V] : Runs(h, n, b, F) /\ c[1..n] = h[n]
  <1>0. n \in Nat /\ b \in V /\ Closed(F, n, V) /\ c[{}] = b /\ Obeys(c, n, V, F)
    BY DEF FoldLoop
  <1> DEFINE T == {k \in 0..n : c[1..k] \in V}
  <1>1. c[1..0] = b
    <2>1. 1..0 = {}
      OBVIOUS
    <2> QED BY <1>0, <2>1, Zenon
  <1>2. ASSUME NEW k \in 1..n, c[1..(k - 1)] \in V
        PROVE  c[1..k] = F[<<k, c[1..(k - 1)]>>]
    <2>1. /\ 1..k \in SUBSET (1..n) /\ 1..k # {}
          /\ Max(1..k) = k /\ (1..k) \ {k} = 1..(k - 1)
      BY <1>0, MaxOfInterval
    <2> QED BY <1>0, <1>2, <2>1 DEF Obeys
  <1>3. ASSUME NEW k \in 0..n PROVE c[1..k] \in V
    <2>1. 0 \in T
      <3>1. c[1..0] \in V
        BY <1>0, <1>1, Zenon
      <3> QED BY <1>0, <3>1
    <2>2. ASSUME NEW j \in 1..n, j - 1 \in T PROVE j \in T
      <3>1. c[1..(j - 1)] \in V
        BY <2>2
      <3>2. F[<<j, c[1..(j - 1)]>>] \in V
        BY <1>0, <3>1 DEF Closed
      <3>3. c[1..j] \in V
        BY <1>2, <3>1, <3>2
      <3> QED BY <1>0, <3>3
    <2>3. \A j \in 0..n : j \in T
      <3> HIDE DEF T
      <3> QED BY <1>0, <2>1, <2>2, UpTo
    <2> QED BY <2>3
  <1> DEFINE h == [k \in 0..n |-> c[1..k]]
  <1>4. h \in [0..n -> V]
    BY <1>3
  <1>5. h[0] = b /\ h[n] = c[1..n]
    BY <1>0, <1>1
  <1>6. ASSUME NEW k \in 1..n PROVE h[k] = F[<<k, h[k - 1]>>]
    <2>1. k - 1 \in 0..n /\ k \in 0..n
      BY <1>0
    <2>2. c[1..k] = F[<<k, c[1..(k - 1)]>>]
      BY <1>2, <1>3, <2>1
    <2> QED BY <2>1, <2>2
  <1> HIDE DEF h
  <1> QED BY <1>4, <1>5, <1>6 DEF Runs

-----------------------------------------------------------------------------
(* Within: one element at a time.                                            *)
WithinRuns(h, s, S) ==
  /\ h[0] = <<>>
  /\ \A k \in 1..Len(s) : h[k] = IF s[k] \in S THEN Append(h[k - 1], s[k]) ELSE h[k - 1]

\* Within runs through the sequence once and keeps what is in S.
LEMMA WithinSteps ==
  ASSUME NEW X, NEW s \in Seq(X), NEW S
  PROVE  \E h \in [0..Len(s) -> Seq(X)] : WithinRuns(h, s, S) /\ Within(s, S) = h[Len(s)]
  <1> DEFINE n == Len(s)
             V == Seq(X)
             Op(v, x) == IF x \in S THEN Append(v, x) ELSE v
             G(it) == it = [u \in SUBSET DOMAIN s |->
                              IF u = {} THEN <<>> ELSE Op(it[u \ {Max(u)}], s[Max(u)])]
             c == CHOOSE it : G(it)
             F == [p \in (1..n) \X V |-> Op(p[2], s[p[1]])]
  <1>1. Within(s, S) = c[DOMAIN s]
    BY Zenon DEF Within, FoldLeft, MapThenFoldSet
  <1>2. n \in Nat /\ DOMAIN s = 1..n /\ <<>> \in V /\ \A k \in 1..n : s[k] \in X
    OBVIOUS
  <1>3. \A k \in 1..n, v \in V : F[<<k, v>>] \in V /\ F[<<k, v>>] = Op(v, s[k])
    BY <1>2
  <1> HIDE DEF F, n, V, Op
  <1>4. PICK g \in [SUBSET (1..n) -> V] : Folds(g, n, <<>>, F)
    <2>1. Closed(F, n, V)
      BY <1>3 DEF Closed
    <2> QED BY <1>2, <2>1, FoldExists
  <1>5. G(g)
    <2>1. ASSUME NEW u \in SUBSET (1..n), u # {}
          PROVE  g[u] = Op(g[u \ {Max(u)}], s[Max(u)])
      <3>1. Max(u) \in 1..n /\ u \ {Max(u)} \in SUBSET (1..n)
        BY <1>2, <2>1, MaxRemoved
      <3>2. g[u] = F[<<Max(u), g[u \ {Max(u)}]>>]
        BY <1>4, <2>1 DEF Folds
      <3> QED BY <1>3, <3>1, <3>2
    <2>2. g[{}] = <<>>
      BY <1>4 DEF Folds
    <2>3. g = [u \in SUBSET (1..n) |-> g[u]]
      OBVIOUS
    <2> QED BY <1>2, <2>1, <2>2, <2>3
  <1>6. G(c)
    <2> HIDE DEF G
    <2> QED BY <1>5
  <1> HIDE DEF c
  <1>7. c[{}] = <<>>
    BY <1>6
  <1>8. ASSUME NEW u \in SUBSET (1..n), u # {}, c[u \ {Max(u)}] \in V
        PROVE  c[u] = F[<<Max(u), c[u \ {Max(u)}]>>]
    <2>1. Max(u) \in 1..n
      BY <1>2, <1>8, MaxRemoved
    <2>2. c[u] = Op(c[u \ {Max(u)}], s[Max(u)])
      BY <1>2, <1>6, <1>8
    <2> QED BY <1>3, <1>8, <2>1, <2>2
  <1>9. PICK h \in [0..n -> V] : Runs(h, n, <<>>, F) /\ c[1..n] = h[n]
    <2>1. Closed(F, n, V)
      BY <1>3 DEF Closed
    <2>2. Obeys(c, n, V, F)
      BY <1>8 DEF Obeys
    <2>3. FoldLoop(c, n, <<>>, V, F)
      BY <1>2, <1>7, <2>1, <2>2, Zenon DEF FoldLoop
    <2> HIDE DEF G
    <2> QED BY <2>3, FoldRuns
  <1>10. ASSUME NEW k \in 1..n PROVE h[k] = Op(h[k - 1], s[k])
    <2>1. k - 1 \in 0..n
      BY <1>2
    <2>2. h[k - 1] \in V
      BY <2>1
    <2> QED BY <1>3, <1>9, <2>2 DEF Runs
  <1> QED BY <1>1, <1>2, <1>9, <1>10 DEF WithinRuns, Runs, Op, n, V

\* What is kept is a sequence over the same set.
LEMMA WithinType ==
  ASSUME NEW X, NEW s \in Seq(X), NEW S
  PROVE  Within(s, S) \in Seq(X)
  <1>1. PICK h \in [0..Len(s) -> Seq(X)] : Within(s, S) = h[Len(s)]
    BY WithinSteps
  <1>2. Len(s) \in 0..Len(s)
    OBVIOUS
  <1> QED BY <1>1, <1>2

\* Every element of the result is an element of s and of S.
LEMMA WithinOnly ==
  ASSUME NEW X, NEW s \in Seq(X), NEW S
  PROVE  /\ Within(s, S) \in Seq(ToSet(s) \cap S)
         /\ \A x \in ToSet(Within(s, S)) : x \in ToSet(s) /\ x \in S
  <1> DEFINE Y == ToSet(s)
             n == Len(s)
  <1>1. s \in Seq(Y) /\ n \in Nat /\ \A k \in 1..n : s[k] \in Y
    BY DEF ToSet
  <1> HIDE DEF Y
  <1>2. PICK h \in [0..n -> Seq(Y)] : WithinRuns(h, s, S) /\ Within(s, S) = h[n]
    BY <1>1, WithinSteps
  <1> DEFINE T == {k \in 0..n : h[k] \in Seq(Y \cap S)}
  <1>3. 0 \in T
    BY <1>1, <1>2 DEF WithinRuns
  <1>4. ASSUME NEW k \in 1..n, k - 1 \in T PROVE k \in T
    <2>1. h[k - 1] \in Seq(Y \cap S) /\ s[k] \in Y
      BY <1>1, <1>4
    <2>2. h[k] = IF s[k] \in S THEN Append(h[k - 1], s[k]) ELSE h[k - 1]
      BY <1>2 DEF WithinRuns
    <2>3. h[k] \in Seq(Y \cap S)
      BY <2>1, <2>2
    <2> QED BY <2>3
  <1>5. \A k \in 0..n : k \in T
    <2> HIDE DEF T
    <2> QED BY <1>1, <1>3, <1>4, UpTo
  <1>6. Within(s, S) \in Seq(Y \cap S)
    BY <1>1, <1>2, <1>5
  <1> QED BY <1>6 DEF Y, ToSet

\* What has S in common with s decides.
LEMMA WithinSame ==
  ASSUME NEW X, NEW s \in Seq(X), NEW S, NEW R,
         \A k \in 1..Len(s) : s[k] \in S <=> s[k] \in R
  PROVE  Within(s, S) = Within(s, R)
  <1> DEFINE n == Len(s)
  <1>0. n \in Nat
    OBVIOUS
  <1>1. PICK h \in [0..n -> Seq(X)] : WithinRuns(h, s, S) /\ Within(s, S) = h[n]
    BY WithinSteps
  <1>2. PICK g \in [0..n -> Seq(X)] : WithinRuns(g, s, R) /\ Within(s, R) = g[n]
    BY WithinSteps
  <1> DEFINE T == {k \in 0..n : h[k] = g[k]}
  <1>3. 0 \in T
    BY <1>1, <1>2 DEF WithinRuns
  <1>4. ASSUME NEW k \in 1..n, k - 1 \in T PROVE k \in T
    <2>1. h[k - 1] = g[k - 1]
      BY <1>4
    <2>2. h[k] = g[k]
      BY <1>1, <1>2, <2>1 DEF WithinRuns
    <2> QED BY <2>2
  <1>5. \A k \in 0..n : k \in T
    <2> HIDE DEF T
    <2> QED BY <1>0, <1>3, <1>4, UpTo
  <1>6. h[n] = g[n]
    BY <1>0, <1>5
  <1> QED BY <1>1, <1>2, <1>6

\* Two sets that split s split its length.
LEMMA WithinLengths ==
  ASSUME NEW X, NEW s \in Seq(X), NEW S, NEW R,
         \A k \in 1..Len(s) : s[k] \in S <=> s[k] \notin R
  PROVE  Len(Within(s, S)) + Len(Within(s, R)) = Len(s)
  <1> DEFINE n == Len(s)
  <1>0. n \in Nat /\ \A k \in 1..n : s[k] \in X
    OBVIOUS
  <1>1. PICK h \in [0..n -> Seq(X)] : WithinRuns(h, s, S) /\ Within(s, S) = h[n]
    BY WithinSteps
  <1>2. PICK g \in [0..n -> Seq(X)] : WithinRuns(g, s, R) /\ Within(s, R) = g[n]
    BY WithinSteps
  <1> DEFINE T == {k \in 0..n : Len(h[k]) + Len(g[k]) = k}
  <1>3. 0 \in T
    BY <1>1, <1>2 DEF WithinRuns
  <1>4. ASSUME NEW k \in 1..n, k - 1 \in T PROVE k \in T
    <2>1. /\ h[k - 1] \in Seq(X) /\ g[k - 1] \in Seq(X) /\ s[k] \in X
          /\ Len(h[k - 1]) + Len(g[k - 1]) = k - 1
      BY <1>0, <1>4
    <2>2. /\ h[k] = IF s[k] \in S THEN Append(h[k - 1], s[k]) ELSE h[k - 1]
          /\ g[k] = IF s[k] \in R THEN Append(g[k - 1], s[k]) ELSE g[k - 1]
          /\ s[k] \in S <=> s[k] \notin R
      BY <1>1, <1>2 DEF WithinRuns
    <2>3. /\ Len(Append(h[k - 1], s[k])) = Len(h[k - 1]) + 1
          /\ Len(Append(g[k - 1], s[k])) = Len(g[k - 1]) + 1
          /\ Len(h[k - 1]) \in Nat /\ Len(g[k - 1]) \in Nat
      BY <2>1
    <2>4. Len(h[k]) + Len(g[k]) = k
      <3>1. CASE s[k] \in S
        <4>1. Len(h[k]) = Len(h[k - 1]) + 1 /\ Len(g[k]) = Len(g[k - 1])
          BY <2>2, <2>3, <3>1
        <4> QED BY <2>1, <2>3, <4>1
      <3>2. CASE s[k] \notin S
        <4>1. Len(h[k]) = Len(h[k - 1]) /\ Len(g[k]) = Len(g[k - 1]) + 1
          BY <2>2, <2>3, <3>2
        <4> QED BY <2>1, <2>3, <4>1
      <3> QED BY <3>1, <3>2
    <2> QED BY <2>4
  <1>5. \A k \in 0..n : k \in T
    <2> HIDE DEF T
    <2> QED BY <1>0, <1>3, <1>4, UpTo
  <1>6. n \in T
    <2> HIDE DEF T
    <2> QED BY <1>0, <1>5
  <1> QED BY <1>1, <1>2, <1>6

\* A sequence inside S is kept.
LEMMA WithinAll ==
  ASSUME NEW X, NEW s \in Seq(X), NEW S, \A k \in 1..Len(s) : s[k] \in S
  PROVE  Within(s, S) = s
  <1> DEFINE n == Len(s)
  <1>0. n \in Nat /\ \A k \in 1..n : s[k] \in X
    OBVIOUS
  <1>1. PICK h \in [0..n -> Seq(X)] : WithinRuns(h, s, S) /\ Within(s, S) = h[n]
    BY WithinSteps
  <1> DEFINE T == {k \in 0..n : Len(h[k]) = k /\ \A i \in 1..k : h[k][i] = s[i]}
  <1>3. 0 \in T
    BY <1>1 DEF WithinRuns
  <1>4. ASSUME NEW k \in 1..n, k - 1 \in T PROVE k \in T
    <2>1. /\ h[k - 1] \in Seq(X) /\ s[k] \in X
          /\ Len(h[k - 1]) = k - 1 /\ \A i \in 1..(k - 1) : h[k - 1][i] = s[i]
      BY <1>0, <1>4
    <2>2. h[k] = Append(h[k - 1], s[k])
      BY <1>1 DEF WithinRuns
    <2>3. Len(h[k]) = k /\ \A i \in 1..k : h[k][i] = s[i]
      BY <2>1, <2>2
    <2> QED BY <2>3
  <1>5. \A k \in 0..n : k \in T
    <2> HIDE DEF T
    <2> QED BY <1>0, <1>3, <1>4, UpTo
  <1>6. n \in T /\ h[n] \in Seq(X)
    BY <1>0, <1>5
  <1>7. Len(h[n]) = n /\ \A i \in 1..n : h[n][i] = s[i]
    BY <1>6
  <1>8. h[n] = s
    BY <1>6, <1>7
  <1> QED BY <1>1, <1>8

LastMoves(a, b, x) == Append(a \o b, x) = a \o Append(b, x)

\* An element appended to a concatenation is appended to its second part.
LEMMA AppendLast ==
  ASSUME NEW X, NEW a \in Seq(X), NEW b \in Seq(X), NEW x \in X
  PROVE  LastMoves(a, b, x)
  <1> DEFINE u == Append(a \o b, x)
             v == a \o Append(b, x)
  <1>1. u \in Seq(X) /\ v \in Seq(X) /\ Len(u) = Len(v)
    OBVIOUS
  <1>2. ASSUME NEW i \in 1..Len(u) PROVE u[i] = v[i]
    OBVIOUS
  <1> HIDE DEF u, v
  <1>3. u = v
    BY <1>1, <1>2
  <1> QED BY <1>3 DEF u, v, LastMoves

WithinSplits(a, b, S) == Within(a \o b, S) = Within(a, S) \o Within(b, S)

\* Filtering a concatenation filters both parts.
LEMMA WithinConcat ==
  ASSUME NEW X, NEW a \in Seq(X), NEW b \in Seq(X), NEW S
  PROVE  WithinSplits(a, b, S)
  <1> DEFINE s == a \o b
             m == Len(a)
             n == Len(b)
  <1>0. /\ s \in Seq(X) /\ m \in Nat /\ n \in Nat /\ Len(s) = m + n
        /\ \A k \in 1..m : s[k] = a[k]
        /\ \A k \in 1..n : s[m + k] = b[k] /\ b[k] \in X
    OBVIOUS
  <1> HIDE DEF s
  <1>1. PICK h \in [0..Len(s) -> Seq(X)] : WithinRuns(h, s, S) /\ Within(s, S) = h[Len(s)]
    <2>1. s \in Seq(X)
      BY <1>0
    <2> QED BY <2>1, WithinSteps
  <1>2. PICK f \in [0..m -> Seq(X)] : WithinRuns(f, a, S) /\ Within(a, S) = f[m]
    BY WithinSteps
  <1>3. PICK g \in [0..n -> Seq(X)] : WithinRuns(g, b, S) /\ Within(b, S) = g[n]
    BY WithinSteps
  <1> HIDE DEF m, n
  <1> DEFINE T == {k \in 0..m : h[k] = f[k]}
             U == {k \in 0..n : h[m + k] = f[m] \o g[k]}
  <1>4. \A k \in 0..m : k \in T
    <2>1. 0 \in T
      BY <1>0, <1>1, <1>2 DEF WithinRuns
    <2>2. ASSUME NEW k \in 1..m, k - 1 \in T PROVE k \in T
      <3>0. h[k - 1] = f[k - 1]
        BY <2>2
      <3>1. k \in 1..Len(s) /\ h[k - 1] = f[k - 1] /\ s[k] = a[k]
        BY <1>0, <3>0
      <3>2. h[k] = IF s[k] \in S THEN Append(h[k - 1], s[k]) ELSE h[k - 1]
        BY <1>1, <3>1 DEF WithinRuns
      <3>3. f[k] = IF a[k] \in S THEN Append(f[k - 1], a[k]) ELSE f[k - 1]
        BY <1>2 DEF WithinRuns, m
      <3>4. h[k] = f[k]
        BY <3>1, <3>2, <3>3
      <3> QED BY <3>4
    <2> HIDE DEF T
    <2> QED BY <1>0, <2>1, <2>2, UpTo
  <1>5. h[m] = f[m] /\ f[m] \in Seq(X)
    BY <1>0, <1>4
  <1>6. \A k \in 0..n : k \in U
    <2>1. 0 \in U
      <3>1. g[0] = <<>>
        BY <1>3 DEF WithinRuns
      <3>2. h[m + 0] = f[m] \o g[0]
        BY <1>0, <1>5, <3>1
      <3> QED BY <1>0, <3>2
    <2>2. ASSUME NEW k \in 1..n, k - 1 \in U PROVE k \in U
      <3>0. h[m + (k - 1)] = f[m] \o g[k - 1]
        BY <2>2
      <3>1. /\ m + k \in 1..Len(s) /\ (m + k) - 1 = m + (k - 1)
            /\ s[m + k] = b[k] /\ b[k] \in X /\ k - 1 \in 0..n
        BY <1>0
      <3>6. g[k - 1] \in Seq(X)
        BY <3>1
      <3>2. h[m + k] = IF s[m + k] \in S THEN Append(h[(m + k) - 1], s[m + k]) ELSE h[(m + k) - 1]
        BY <1>1, <3>1 DEF WithinRuns
      <3>3. g[k] = IF b[k] \in S THEN Append(g[k - 1], b[k]) ELSE g[k - 1]
        BY <1>3 DEF WithinRuns, n
      <3>4. Append(f[m] \o g[k - 1], b[k]) = f[m] \o Append(g[k - 1], b[k])
        <4>1. LastMoves(f[m], g[k - 1], b[k])
          BY <1>5, <3>1, <3>6, AppendLast
        <4> QED BY <4>1 DEF LastMoves
      <3>5. h[m + k] = f[m] \o g[k]
        BY <3>0, <3>1, <3>2, <3>3, <3>4
      <3>7. k \in 0..n
        BY <1>0
      <3> QED BY <3>5, <3>7, Zenon
    <2> HIDE DEF U
    <2> QED BY <1>0, <2>1, <2>2, UpTo
  <1>7. h[m + n] = f[m] \o g[n]
    <2>1. n \in 0..n
      BY <1>0
    <2>2. n \in U
      <3> HIDE DEF U
      <3> QED BY <1>6, <2>1
    <2> QED BY <2>2, Zenon
  <1> QED BY <1>0, <1>1, <1>2, <1>3, <1>7 DEF s, WithinSplits

\* Filtering one more element keeps it or leaves it out.
LEMMA WithinAppend ==
  ASSUME NEW X, NEW a \in Seq(X), NEW x \in X, NEW S
  PROVE  Within(Append(a, x), S) = IF x \in S THEN Append(Within(a, S), x) ELSE Within(a, S)
  <1> DEFINE b == <<x>>
  <1>1. b \in Seq(X) /\ Len(b) = 1 /\ b[1] = x /\ Append(a, x) = a \o b
    OBVIOUS
  <1>2. Within(Append(a, x), S) = Within(a, S) \o Within(b, S)
    <2> HIDE DEF b
    <2>1. WithinSplits(a, b, S)
      BY <1>1, WithinConcat
    <2> QED BY <1>1, <2>1 DEF WithinSplits
  <1>3. Within(b, S) = IF x \in S THEN <<x>> ELSE <<>>
    <2> HIDE DEF b
    <2>1. PICK h \in [0..Len(b) -> Seq(X)] : WithinRuns(h, b, S) /\ Within(b, S) = h[Len(b)]
      BY <1>1, WithinSteps
    <2>2. 1 \in 1..Len(b) /\ 1 - 1 = 0
      BY <1>1
    <2>3. h[0] = <<>> /\ h[1] = IF b[1] \in S THEN Append(h[0], b[1]) ELSE h[0]
      BY <2>1, <2>2 DEF WithinRuns
    <2> QED BY <1>1, <2>1, <2>3
  <1>4. Within(a, S) \in Seq(X)
    BY WithinType
  <1> HIDE DEF b
  <1> QED BY <1>2, <1>3, <1>4

\* A loop over 1..n that stays in V can be run.
LEMMA LoopExists ==
  ASSUME NEW n \in Nat, NEW V, NEW b \in V, NEW F, Closed(F, n, V)
  PROVE  \E h \in [0..n -> V] : Runs(h, n, b, F)
  <1>1. PICK g \in [SUBSET (1..n) -> V] : Folds(g, n, b, F)
    BY FoldExists
  <1>2. g[{}] = b
    BY <1>1 DEF Folds
  <1>3. Obeys(g, n, V, F)
    BY <1>1 DEF Folds, Obeys
  <1>4. FoldLoop(g, n, b, V, F)
    BY <1>2, <1>3 DEF FoldLoop
  <1> QED BY <1>4, FoldRuns

-----------------------------------------------------------------------------
(* FlattenSeq: one part at a time.                                           *)
FlattenRuns(h, ss) ==
  h[0] = <<>> /\ \A k \in 1..Len(ss) : h[k] = h[k - 1] \o ss[k]

\* FlattenSeq appends one sequence after the other.
LEMMA FlattenSteps ==
  ASSUME NEW X, NEW ss \in Seq(Seq(X))
  PROVE  \E h \in [0..Len(ss) -> Seq(X)] : FlattenRuns(h, ss) /\ FlattenSeq(ss) = h[Len(ss)]
  <1> DEFINE n == Len(ss)
             V == Seq(X)
             F == [p \in (1..n) \X V |-> p[2] \o ss[p[1]]]
             G(it) == it = [i \in 1..n |-> IF i = 1 THEN ss[i] ELSE it[i - 1] \o ss[i]]
             c == CHOOSE it : G(it)
  <1>1. FlattenSeq(ss) = IF n = 0 THEN ss ELSE c[n]
    BY Zenon DEF FlattenSeq
  <1>2. n \in Nat /\ <<>> \in V /\ \A k \in 1..n : ss[k] \in V
    OBVIOUS
  <1>3. ASSUME NEW k \in 1..n, NEW v \in V
        PROVE  F[<<k, v>>] \in V /\ F[<<k, v>>] = v \o ss[k]
    <2>1. v \in Seq(X) /\ ss[k] \in Seq(X)
      BY <1>2
    <2>2. v \o ss[k] \in V
      BY <2>1
    <2>3. F[<<k, v>>] = v \o ss[k]
      <3>1. <<k, v>> \in (1..n) \X V
        OBVIOUS
      <3> HIDE DEF n, V
      <3> QED BY <3>1
    <2> QED BY <2>2, <2>3
  <1>4. n = 0 => ss = <<>>
    OBVIOUS
  <1> HIDE DEF F, n
  <1>5. PICK h \in [0..n -> V] : Runs(h, n, <<>>, F)
    <2>1. Closed(F, n, V)
      BY <1>3 DEF Closed
    <2> HIDE DEF V
    <2> QED BY <1>2, <2>1, LoopExists
  <1>6. ASSUME NEW k \in 1..n PROVE h[k - 1] \in V /\ h[k] = h[k - 1] \o ss[k]
    <2>1. k - 1 \in 0..n
      BY <1>2
    <2>2. h[k - 1] \in V
      BY <2>1
    <2> QED BY <1>3, <1>5, <2>2 DEF Runs
  <1>7. h[0] = <<>>
    BY <1>5 DEF Runs
  <1>8. 1 \in 1..n => h[1] = ss[1]
    <2> SUFFICES ASSUME 1 \in 1..n PROVE h[1] = ss[1]
      OBVIOUS
    <2>a. ss[1] \in Seq(X)
      BY <1>2
    <2>b. 1 - 1 = 0
      OBVIOUS
    <2>c. h[1] = h[1 - 1] \o ss[1]
      BY <1>6, Zenon
    <2>1. ss[1] \in Seq(X) /\ h[1] = h[1 - 1] \o ss[1] /\ 1 - 1 = 0
      BY <2>a, <2>b, <2>c, Zenon
    <2>2. h[1] = <<>> \o ss[1]
      BY <1>7, <2>1
    <2>3. <<>> \o ss[1] = ss[1]
      BY <2>1
    <2> QED BY <2>2, <2>3
  <1>9. G(c)
    <2> DEFINE f == [i \in 1..n |-> h[i]]
    <2>1. ASSUME NEW i \in 1..n
          PROVE  f[i] = IF i = 1 THEN ss[i] ELSE f[i - 1] \o ss[i]
      <3>1. CASE i = 1
        BY <1>8, <3>1
      <3>2. CASE i # 1
        <4>1. i - 1 \in 1..n /\ f[i - 1] = h[i - 1] /\ f[i] = h[i]
          BY <1>2, <3>2
        <4> QED BY <1>6, <3>2, <4>1
      <3> QED BY <3>1, <3>2
    <2>2. f = [i \in 1..n |-> f[i]]
      OBVIOUS
    <2>3. G(f)
      <3> HIDE DEF f
      <3> QED BY <2>1, <2>2
    <2> HIDE DEF G, f
    <2> QED BY <2>3
  <1> HIDE DEF c
  <1> DEFINE T == {k \in 0..n : k > 0 => c[k] = h[k]}
  <1>10. \A k \in 0..n : k \in T
    <2>1. 0 \in T
      BY <1>2
    <2>2. ASSUME NEW k \in 1..n, k - 1 \in T PROVE k \in T
      <3>1. k \in Int /\ (k - 1 > 0 => c[k - 1] = h[k - 1])
        BY <1>2, <2>2
      <3>2. c[k] = IF k = 1 THEN ss[k] ELSE c[k - 1] \o ss[k]
        BY <1>9
      <3>3. c[k] = h[k]
        <4>1. CASE k = 1
          BY <1>8, <3>2, <4>1
        <4>2. CASE k # 1
          <5>1. k - 1 > 0
            BY <1>2, <3>1, <4>2
          <5>2. c[k] = h[k - 1] \o ss[k]
            BY <3>1, <3>2, <4>2, <5>1, Zenon
          <5> QED BY <1>6, <5>2, Zenon
        <4> QED BY <4>1, <4>2
      <3>4. k \in 0..n
        BY <1>2
      <3> QED BY <3>3, <3>4, Zenon
    <2> HIDE DEF T
    <2> QED BY <1>2, <2>1, <2>2, UpTo
  <1>11. FlattenSeq(ss) = h[n]
    <2>1. CASE n = 0
      BY <1>1, <1>4, <1>7, <2>1
    <2>2. CASE n # 0
      <3>1. n \in 0..n /\ n > 0
        BY <1>2, <2>2
      <3>2. c[n] = h[n]
        BY <1>10, <3>1
      <3> QED BY <1>1, <2>2, <3>2
    <2> QED BY <2>1, <2>2
  <1> QED BY <1>6, <1>7, <1>11 DEF FlattenRuns, n

\* Flattening sequences over X gives a sequence over X.
LEMMA FlattenType ==
  ASSUME NEW X, NEW ss \in Seq(Seq(X))
  PROVE  FlattenSeq(ss) \in Seq(X)
  <1>1. PICK h \in [0..Len(ss) -> Seq(X)] : FlattenSeq(ss) = h[Len(ss)]
    BY FlattenSteps
  <1>2. Len(ss) \in 0..Len(ss)
    OBVIOUS
  <1> QED BY <1>1, <1>2

\* Two runs over sequences that begin alike begin alike.
Extends(a, b) ==
  Len(a) \in Nat /\ Len(b) \in Nat /\ Len(a) <= Len(b) /\ \A k \in 1..Len(a) : a[k] = b[k]

LEMMA FlattenAgree ==
  ASSUME NEW h, NEW g, NEW a, NEW b, Extends(a, b), FlattenRuns(h, a), FlattenRuns(g, b)
  PROVE  h[Len(a)] = g[Len(a)]
  <1> DEFINE n == Len(a)
             m == Len(b)
  <1>0. n \in Nat /\ m \in Nat /\ n <= m /\ \A k \in 1..n : a[k] = b[k]
    BY DEF Extends
  <1> DEFINE T == {k \in 0..n : h[k] = g[k]}
  <1>1. 0 \in T
    BY <1>0 DEF FlattenRuns
  <1>2. ASSUME NEW k \in 1..n, k - 1 \in T PROVE k \in T
    <2>1. h[k - 1] = g[k - 1] /\ k \in 1..m /\ a[k] = b[k]
      BY <1>0, <1>2
    <2>2. h[k] = h[k - 1] \o a[k] /\ g[k] = g[k - 1] \o b[k]
      BY <2>1 DEF FlattenRuns
    <2>3. h[k] = g[k] /\ k \in 0..n
      BY <1>0, <2>1, <2>2
    <2> QED BY <2>3
  <1>3. \A k \in 0..n : k \in T
    <2> HIDE DEF T
    <2> QED BY <1>0, <1>1, <1>2, UpTo
  <1>4. n \in 0..n
    BY <1>0
  <1>5. n \in T
    <2> HIDE DEF T
    <2> QED BY <1>3, <1>4
  <1> QED BY <1>5

\* One more sequence is appended to the flattened ones.
LEMMA FlattenAppend ==
  ASSUME NEW X, NEW ss \in Seq(Seq(X)), NEW t \in Seq(X)
  PROVE  FlattenSeq(Append(ss, t)) = FlattenSeq(ss) \o t
  <1> DEFINE n == Len(ss)
             m == n + 1
             tt == Append(ss, t)
  <1>1. /\ n \in Nat /\ m \in Nat /\ n <= m /\ m - 1 = n /\ m \in 1..m
        /\ tt \in Seq(Seq(X)) /\ Len(tt) = m /\ tt[m] = t
        /\ \A k \in 1..n : ss[k] = tt[k]
    OBVIOUS
  <1>2. PICK h \in [0..n -> Seq(X)] : FlattenRuns(h, ss) /\ FlattenSeq(ss) = h[n]
    BY FlattenSteps
  <1> HIDE DEF tt
  <1>3. PICK g \in [0..m -> Seq(X)] : FlattenRuns(g, tt) /\ FlattenSeq(tt) = g[m]
    <2>1. PICK g \in [0..Len(tt) -> Seq(X)] : FlattenRuns(g, tt) /\ FlattenSeq(tt) = g[Len(tt)]
      BY <1>1, FlattenSteps
    <2> QED BY <1>1, <2>1
  <1>4. g[m] = g[m - 1] \o tt[m]
    BY <1>1, <1>3 DEF FlattenRuns
  <1>5. h[n] = g[n]
    <2>1. Extends(ss, tt)
      BY <1>1 DEF Extends
    <2> QED BY <1>2, <1>3, <2>1, FlattenAgree
  <1>6. FlattenSeq(tt) = FlattenSeq(ss) \o t
    BY <1>1, <1>2, <1>3, <1>4, <1>5
  <1> QED BY <1>6 DEF tt

\* Every part is in the result.
LEMMA FlattenHolds ==
  ASSUME NEW X, NEW ss \in Seq(Seq(X)), NEW i \in 1..Len(ss)
  PROVE  ToSet(ss[i]) \subseteq ToSet(FlattenSeq(ss))
  <1> DEFINE n == Len(ss)
  <1>1. n \in Nat /\ i \in 1..n /\ \A k \in 1..n : ss[k] \in Seq(X)
    OBVIOUS
  <1>2. PICK h \in [0..n -> Seq(X)] : FlattenRuns(h, ss) /\ FlattenSeq(ss) = h[n]
    BY FlattenSteps
  <1> DEFINE T == {k \in 0..n : i <= k => ToSet(ss[i]) \subseteq ToSet(h[k])}
  <1>3. 0 \in T
    BY <1>1
  <1>4. ASSUME NEW k \in 1..n, k - 1 \in T PROVE k \in T
    <2>0. i <= k - 1 => ToSet(ss[i]) \subseteq ToSet(h[k - 1])
      BY <1>4
    <2>a. k - 1 \in 0..n
      BY <1>1
    <2>b. h[k - 1] \in Seq(X)
      BY <2>a, Zenon
    <2>c. ss[k] \in Seq(X)
      BY <1>1, Zenon
    <2>d. k \in 0..n
      BY <1>1
    <2>1. h[k - 1] \in Seq(X) /\ ss[k] \in Seq(X) /\ k \in 0..n
      BY <2>b, <2>c, <2>d, Zenon
    <2>2. h[k] = h[k - 1] \o ss[k]
      BY <1>2 DEF FlattenRuns
    <2>3. ToSet(h[k - 1]) \subseteq ToSet(h[k]) /\ ToSet(ss[k]) \subseteq ToSet(h[k])
      <3> DEFINE a == h[k - 1]
                 b == ss[k]
      <3>1. a \in Seq(X) /\ b \in Seq(X) /\ h[k] = a \o b
        BY <2>1, <2>2
      <3> HIDE DEF a, b
      <3>2. \A j \in 1..Len(a) : (a \o b)[j] = a[j] /\ j \in 1..Len(a \o b)
        BY <3>1
      <3>3. \A j \in 1..Len(b) : (a \o b)[Len(a) + j] = b[j] /\ Len(a) + j \in 1..Len(a \o b)
        BY <3>1
      <3>4. DOMAIN a = 1..Len(a) /\ DOMAIN b = 1..Len(b) /\ DOMAIN (a \o b) = 1..Len(a \o b)
        BY <3>1
      <3>5. ToSet(a) \subseteq ToSet(a \o b) /\ ToSet(b) \subseteq ToSet(a \o b)
        BY <3>2, <3>3, <3>4 DEF ToSet
      <3> QED BY <3>1, <3>5 DEF a, b
    <2>4. i <= k => ToSet(ss[i]) \subseteq ToSet(h[k])
      <3>1. i <= k => i <= k - 1 \/ i = k
        BY <1>1
      <3> QED BY <2>0, <2>3, <3>1
    <2> QED BY <2>1, <2>4, Zenon
  <1>5. \A k \in 0..n : k \in T
    <2> HIDE DEF T
    <2> QED BY <1>1, <1>3, <1>4, UpTo
  <1>6. n \in 0..n /\ i <= n
    BY <1>1
  <1> QED BY <1>2, <1>5, <1>6

-----------------------------------------------------------------------------
(* The common prefix and the baseline.                                       *)
\* commonPrefixLength is defined, fits both arrays, and up to it the signatures agree.
LEMMA CommonPrefixIs ==
  ASSUME NEW a \in Seq(MessageOf), NEW b \in Seq(MessageOf)
  PROVE  /\ CommonPrefixLength(a, b) \in Nat
         /\ CommonPrefixLength(a, b) <= Len(a) /\ CommonPrefixLength(a, b) <= Len(b)
         /\ \A i \in 1..CommonPrefixLength(a, b) : Signature(a[i]) = Signature(b[i])
  <1> DEFINE n == IF Len(a) < Len(b) THEN Len(a) ELSE Len(b)
             Same(k) == \A i \in 1..k : Signature(a[i]) = Signature(b[i])
             Fits(k) == Same(k) /\ (k = n \/ ~Same(k + 1))
             S == {k \in 0..n : Same(k)}
             c == CHOOSE k \in 0..n : Fits(k)
  <1>1. n \in Nat /\ n <= Len(a) /\ n <= Len(b)
    OBVIOUS
  <1>2. CommonPrefixLength(a, b) = c
    BY DEF CommonPrefixLength
  <1> HIDE DEF n
  <1>3. PICK m \in S : \A x \in S : x <= m
    <2>1. S \subseteq 0..n
      OBVIOUS
    <2>2. Same(0)
      OBVIOUS
    <2>3. 0 \in S
      BY <1>1, <2>2
    <2> HIDE DEF S
    <2>4. S # {}
      BY <2>3
    <2> QED BY <1>1, <2>1, <2>4, MaxUpTo
  <1> HIDE DEF Same
  <1>4. m \in 0..n /\ Same(m)
    OBVIOUS
  <1>5. m = n \/ ~Same(m + 1)
    <2> SUFFICES ASSUME m # n, Same(m + 1) PROVE FALSE
      OBVIOUS
    <2>1. m + 1 \in 0..n
      BY <1>1, <1>4
    <2>2. m + 1 \in S
      BY <2>1
    <2>3. m + 1 <= m
      BY <1>3, <2>2
    <2> QED BY <1>1, <1>4, <2>3
  <1>6. Fits(m)
    BY <1>4, <1>5
  <1> HIDE DEF Fits
  <1>7. c \in 0..n /\ Fits(c)
    BY <1>4, <1>6
  <1> HIDE DEF c
  <1>8. \A i \in 1..c : Signature(a[i]) = Signature(b[i])
    BY <1>7 DEF Fits, Same
  <1>9. c \in Nat /\ c <= Len(a) /\ c <= Len(b)
    BY <1>1, <1>7
  <1> QED BY <1>2, <1>8, <1>9

\* messagesOf gives an array of messages, whatever the detail holds.
LEMMA MessagesType ==
  ASSUME NEW d \in DetailOf
  PROVE  MessagesOf(d) \in Seq(MessageOf)
  <1> DEFINE S == Seq(MessageOf)
  <1>1. <<>> \in S
    OBVIOUS
  <1>2. d.messages \in [form : {"null"}] \cup [form : {"array"}, list : S]
    BY DEF DetailOf
  <1> HIDE DEF S
  <1>3. d.messages.form = "array" => d.messages.list \in S
    BY <1>2
  <1>4. MessagesOf(d) \in S
    BY <1>1, <1>3 DEF MessagesOf
  <1> QED BY <1>4 DEF S

Picks(h, cur, cands) ==
  /\ h[0] = [len |-> 0, row |-> <<>>]
  /\ \A k \in 1..Len(cands) :
       LET len == CommonPrefixLength(cur, MessagesOf(cands[k]))
       IN  h[k] = IF len > h[k - 1].len THEN [len |-> len, row |-> <<cands[k]>>] ELSE h[k - 1]

Choice == [len : Nat, row : Seq(DetailOf)]

\* pickBaseline looks at one candidate after the other.
LEMMA PickSteps ==
  ASSUME NEW cur \in Seq(MessageOf), NEW s \in Seq(DetailOf)
  PROVE  \E h \in [0..Len(s) -> Choice] : Picks(h, cur, s) /\ PickBaseline(cur, s) = h[Len(s)].row
  <1> DEFINE n == Len(s)
             V == Choice
             b == [len |-> 0, row |-> <<>>]
             Op(v, x) == LET len == CommonPrefixLength(cur, MessagesOf(x))
                         IN  IF len > v.len THEN [len |-> len, row |-> <<x>>] ELSE v
             G(it) == it = [u \in SUBSET DOMAIN s |->
                              IF u = {} THEN b ELSE Op(it[u \ {Max(u)}], s[Max(u)])]
             c == CHOOSE it : G(it)
             F == [p \in (1..n) \X V |-> Op(p[2], s[p[1]])]
  <1>1. PickBaseline(cur, s) = c[DOMAIN s].row
    BY Zenon DEF PickBaseline, FoldLeft, MapThenFoldSet
  <1>2. n \in Nat /\ DOMAIN s = 1..n /\ b \in V /\ \A k \in 1..n : s[k] \in DetailOf
    BY DEF Choice
  <1>3. ASSUME NEW k \in 1..n, NEW v \in V
        PROVE  F[<<k, v>>] \in V /\ F[<<k, v>>] = Op(v, s[k])
    <2>1. s[k] \in DetailOf
      BY <1>2
    <2>2. MessagesOf(s[k]) \in Seq(MessageOf)
      BY <2>1, MessagesType
    <2>3. CommonPrefixLength(cur, MessagesOf(s[k])) \in Nat
      BY <2>2, CommonPrefixIs
    <2>4. <<s[k]>> \in Seq(DetailOf)
      BY <2>1
    <2>5. Op(v, s[k]) \in V
      BY <2>3, <2>4 DEF Choice
    <2>6. F[<<k, v>>] = Op(v, s[k])
      <3> HIDE DEF n, V, Op
      <3> QED OBVIOUS
    <2> QED BY <2>5, <2>6
  <1> HIDE DEF F, n, V, Op, b
  <1>4. PICK g \in [SUBSET (1..n) -> V] : Folds(g, n, b, F)
    <2>1. Closed(F, n, V)
      BY <1>3 DEF Closed
    <2> QED BY <1>2, <2>1, FoldExists
  <1>5. G(g)
    <2>1. ASSUME NEW u \in SUBSET (1..n), u # {}
          PROVE  g[u] = Op(g[u \ {Max(u)}], s[Max(u)])
      <3>1. Max(u) \in 1..n /\ u \ {Max(u)} \in SUBSET (1..n)
        BY <1>2, <2>1, MaxRemoved
      <3>2. g[u] = F[<<Max(u), g[u \ {Max(u)}]>>]
        BY <1>4, <2>1 DEF Folds
      <3> QED BY <1>3, <3>1, <3>2
    <2>2. g[{}] = b
      BY <1>4 DEF Folds
    <2>3. g = [u \in SUBSET (1..n) |-> g[u]]
      OBVIOUS
    <2> QED BY <1>2, <2>1, <2>2, <2>3
  <1>6. G(c)
    <2> HIDE DEF G
    <2> QED BY <1>5
  <1> HIDE DEF c
  <1>7. c[{}] = b
    BY <1>6
  <1>8. ASSUME NEW u \in SUBSET (1..n), u # {}, c[u \ {Max(u)}] \in V
        PROVE  c[u] = F[<<Max(u), c[u \ {Max(u)}]>>]
    <2>1. Max(u) \in 1..n
      BY <1>2, <1>8, MaxRemoved
    <2>2. c[u] = Op(c[u \ {Max(u)}], s[Max(u)])
      BY <1>2, <1>6, <1>8
    <2> QED BY <1>3, <1>8, <2>1, <2>2
  <1>9. PICK h \in [0..n -> V] : Runs(h, n, b, F) /\ c[1..n] = h[n]
    <2>1. Closed(F, n, V)
      BY <1>3 DEF Closed
    <2>2. Obeys(c, n, V, F)
      BY <1>8 DEF Obeys
    <2>3. FoldLoop(c, n, b, V, F)
      BY <1>2, <1>7, <2>1, <2>2, Zenon DEF FoldLoop
    <2> HIDE DEF G
    <2> QED BY <2>3, FoldRuns
  <1>10. ASSUME NEW k \in 1..n PROVE h[k] = Op(h[k - 1], s[k])
    <2>1. k - 1 \in 0..n
      BY <1>2
    <2>2. h[k - 1] \in V
      BY <2>1
    <2> QED BY <1>3, <1>9, <2>2 DEF Runs
  <1>11. PickBaseline(cur, s) = h[n].row
    BY <1>1, <1>2, <1>9
  <1>12. Picks(h, cur, s)
    <2>1. h[0] = b
      BY <1>9 DEF Runs
    <2> QED BY <1>10, <2>1, Zenon DEF Picks, Op, b, n
  <1> QED BY <1>11, <1>12 DEF n, V

\* What the fold has found after k candidates.
FoundAt(v, cur, s, k) ==
  LET Common(i) == CommonPrefixLength(cur, MessagesOf(s[i]))
  IN  \/ v.len = 0 /\ v.row = <<>> /\ \A j \in 1..k : Common(j) = 0
      \/ \E i \in 1..k :
           /\ v.row = <<s[i]>> /\ v.len = Common(i) /\ Common(i) > 0
           /\ \A j \in 1..k : Common(j) <= Common(i)
           /\ \A j \in 1..(i - 1) : Common(j) < Common(i)

\* pickBaseline: the first of the candidates with the longest common prefix, none
\* when no candidate has one.
LEMMA PickIsBest ==
  ASSUME NEW cur \in Seq(MessageOf), NEW s \in Seq(DetailOf)
  PROVE  \E v \in Choice : v.row = PickBaseline(cur, s) /\ FoundAt(v, cur, s, Len(s))
  <1> DEFINE n == Len(s)
             C(i) == CommonPrefixLength(cur, MessagesOf(s[i]))
  <1>0. n \in Nat
    OBVIOUS
  <1>1. PICK h \in [0..n -> Choice] : Picks(h, cur, s) /\ PickBaseline(cur, s) = h[n].row
    BY PickSteps
  <1>2. ASSUME NEW k \in 1..n PROVE C(k) \in Nat
    <2>1. s[k] \in DetailOf
      OBVIOUS
    <2>2. MessagesOf(s[k]) \in Seq(MessageOf)
      BY <2>1, MessagesType
    <2> QED BY <2>2, CommonPrefixIs
  <1>3. ASSUME NEW k \in 1..n
        PROVE  h[k] = IF C(k) > h[k - 1].len THEN [len |-> C(k), row |-> <<s[k]>>] ELSE h[k - 1]
    BY <1>1, Zenon DEF Picks
  <1>4. h[0] = [len |-> 0, row |-> <<>>]
    BY <1>1 DEF Picks
  <1> DEFINE T == {k \in 0..n : FoundAt(h[k], cur, s, k)}
  <1>5. 0 \in T
    <2>1. FoundAt(h[0], cur, s, 0)
      BY <1>4 DEF FoundAt
    <2> QED BY <1>0, <2>1
  <1>6. ASSUME NEW k \in 1..n, k - 1 \in T PROVE k \in T
    <2> DEFINE v == h[k - 1]
               w == h[k]
    <2>1. FoundAt(v, cur, s, k - 1)
      BY <1>6
    <2>2. k \in Int /\ 1 <= k /\ k \in 0..n /\ k - 1 \in 0..n
      BY <1>0
    <2>3. \A j \in 1..k : C(j) \in Nat
      <3>1. \A j \in 1..k : j \in 1..n
        BY <1>0
      <3> HIDE DEF C
      <3> QED BY <1>2, <3>1
    <2>4. w = IF C(k) > v.len THEN [len |-> C(k), row |-> <<s[k]>>] ELSE v
      BY <1>3
    <2>5. v.len \in Nat
      BY <2>2 DEF Choice
    <2>6. \/ v.len = 0 /\ v.row = <<>> /\ \A j \in 1..(k - 1) : C(j) = 0
          \/ \E i \in 1..(k - 1) :
               /\ v.row = <<s[i]>> /\ v.len = C(i) /\ C(i) > 0
               /\ \A j \in 1..(k - 1) : C(j) <= C(i)
               /\ \A j \in 1..(i - 1) : C(j) < C(i)
      BY <2>1 DEF FoundAt
    <2> HIDE DEF C, v, w
    <2>7. \/ w.len = 0 /\ w.row = <<>> /\ \A j \in 1..k : C(j) = 0
          \/ \E i \in 1..k :
               /\ w.row = <<s[i]>> /\ w.len = C(i) /\ C(i) > 0
               /\ \A j \in 1..k : C(j) <= C(i)
               /\ \A j \in 1..(i - 1) : C(j) < C(i)
      <3>1. CASE C(k) > v.len
        <4>1. w.row = <<s[k]>> /\ w.len = C(k) /\ C(k) > 0
          BY <2>2, <2>3, <2>4, <2>5, <3>1
        <4>2. \A j \in 1..(k - 1) : C(j) < C(k)
          BY <2>2, <2>3, <2>5, <2>6, <3>1
        <4>3. \A j \in 1..k : C(j) <= C(k)
          BY <2>2, <2>3, <4>2
        <4>4. k \in 1..k
          BY <2>2
        <4> QED BY <4>1, <4>2, <4>3, <4>4
      <3>2. CASE ~(C(k) > v.len)
        <4>1. w = v
          BY <2>4, <3>2
        <4>2. k \in 1..k /\ C(k) \in Nat /\ C(k) <= v.len
          BY <2>2, <2>3, <2>5, <3>2
        <4>3. CASE v.len = 0 /\ v.row = <<>> /\ \A j \in 1..(k - 1) : C(j) = 0
          BY <2>2, <4>1, <4>2, <4>3
        <4>4. CASE \E i \in 1..(k - 1) :
                     /\ v.row = <<s[i]>> /\ v.len = C(i) /\ C(i) > 0
                     /\ \A j \in 1..(k - 1) : C(j) <= C(i)
                     /\ \A j \in 1..(i - 1) : C(j) < C(i)
          <5>1. PICK i \in 1..(k - 1) :
                     /\ v.row = <<s[i]>> /\ v.len = C(i) /\ C(i) > 0
                     /\ \A j \in 1..(k - 1) : C(j) <= C(i)
                     /\ \A j \in 1..(i - 1) : C(j) < C(i)
            BY <4>4
          <5>2. i \in 1..k
            BY <2>2
          <5>3. \A j \in 1..k : C(j) <= C(i)
            BY <2>2, <4>2, <5>1
          <5> QED BY <4>1, <5>1, <5>2, <5>3
        <4> QED BY <2>6, <4>3, <4>4
      <3> QED BY <3>1, <3>2
    <2>8. FoundAt(h[k], cur, s, k)
      BY <2>7 DEF FoundAt, C, w
    <2> QED BY <2>2, <2>8
  <1>7. \A k \in 0..n : k \in T
    <2> HIDE DEF T
    <2> QED BY <1>0, <1>5, <1>6, UpTo
  <1>8. n \in 0..n
    BY <1>0
  <1>9. h[n] \in Choice /\ FoundAt(h[n], cur, s, n)
    BY <1>7, <1>8
  <1> QED BY <1>1, <1>9

-----------------------------------------------------------------------------
(* What is shown of a request.                                                *)
\* A sequence is its first k elements and the rest.
LEMMA PrefixAndRest ==
  ASSUME NEW X, NEW s \in Seq(X), NEW k \in 0..Len(s)
  PROVE  /\ SubSeq(s, 1, k) \in Seq(X) /\ SubSeq(s, k + 1, Len(s)) \in Seq(X)
         /\ Len(SubSeq(s, 1, k)) = k /\ \A i \in 1..k : SubSeq(s, 1, k)[i] = s[i]
         /\ SubSeq(s, 1, k) \o SubSeq(s, k + 1, Len(s)) = s
  <1> DEFINE a == SubSeq(s, 1, k)
             b == SubSeq(s, k + 1, Len(s))
  <1>1. a \in Seq(X) /\ Len(a) = k /\ \A i \in 1..k : a[i] = s[i]
    OBVIOUS
  <1>2. b \in Seq(X) /\ Len(b) = Len(s) - k /\ \A i \in 1..(Len(s) - k) : b[i] = s[k + i]
    OBVIOUS
  <1> HIDE DEF a, b
  <1>0. Len(s) \in Nat /\ k \in Nat
    OBVIOUS
  <1>3. a \o b \in Seq(X) /\ Len(a \o b) = Len(s)
    <2>1. a \o b \in Seq(X) /\ Len(a \o b) = Len(a) + Len(b)
      BY <1>1, <1>2, ConcatProperties
    <2>2. Len(a \o b) = k + (Len(s) - k)
      BY <1>1, <1>2, <2>1
    <2> QED BY <1>0, <2>1, <2>2
  <1>4. ASSUME NEW i \in 1..Len(s) PROVE (a \o b)[i] = s[i]
    <2>1. CASE i <= k
      BY <1>1, <1>2, <2>1
    <2>2. CASE i > k
      <3>1. (a \o b)[i] = b[i - k] /\ i - k \in 1..(Len(s) - k) /\ k + (i - k) = i
        BY <1>1, <1>2, <2>2
      <3> QED BY <1>2, <3>1
    <2>3. i <= k \/ i > k
      BY <1>0
    <2> QED BY <2>1, <2>2, <2>3, Zenon
  <1>5. a \o b = s
    <2> DEFINE c == a \o b
    <2>1. c \in Seq(X) /\ Len(c) = Len(s) /\ \A i \in 1..Len(s) : c[i] = s[i]
      BY <1>3, <1>4
    <2> HIDE DEF c
    <2>2. c = s
      BY <2>1
    <2> QED BY <2>2 DEF c
  <1> QED BY <1>1, <1>2, <1>5 DEF a, b

\* Content that signs alike has the same parts.
LEMMA SignedParts ==
  ASSUME NEW x \in ContentOf, NEW y \in ContentOf, SignedContent(x) = SignedContent(y)
  PROVE  x.parts = y.parts
  <1>1. SignedContent(x).parts = x.parts
    BY DEF SignedContent, ContentOf
  <1>2. SignedContent(y).parts = y.parts
    BY DEF SignedContent, ContentOf
  <1> QED BY <1>1, <1>2

\* The sections hold every message once and in order, and what is carried over
\* stands in the baseline.
LEMMA AnalyzeParts ==
  ASSUME NEW d \in DetailOf, NEW baseline \in Seq(DetailOf)
  PROVE  LET parts == Analyze(d, baseline)
             cur == MessagesOf(d)
             prev == IF baseline = <<>> THEN <<>> ELSE MessagesOf(baseline[1])
         IN  /\ parts.carried \o parts.turn = Within(cur, OthersOf(cur))
             /\ Len(parts.system) + Len(parts.carried) + Len(parts.turn) = Len(cur)
             /\ \A m \in ToSet(parts.carried) :
                  \E p \in ToSet(prev) : p.role = m.role /\ p.content.parts = m.content.parts
  <1> DEFINE X == MessageOf
             cur == MessagesOf(d)
             prev == IF baseline = <<>> THEN <<>> ELSE MessagesOf(baseline[1])
             k == CommonPrefixLength(cur, prev)
             O == OthersOf(cur)
             a == SubSeq(cur, 1, k)
             b == SubSeq(cur, k + 1, Len(cur))
  <1>1. cur \in Seq(X)
    BY MessagesType
  <1>2. prev \in Seq(X)
    <2>1. CASE baseline = <<>>
      BY <2>1
    <2>2. CASE baseline # <<>>
      <3>1. baseline[1] \in DetailOf
        BY <2>2
      <3> QED BY <2>2, <3>1, MessagesType
    <2> QED BY <2>1, <2>2
  <1>3. Analyze(d, baseline) = [system |-> Within(cur, SystemOf(cur)),
                                carried |-> Within(a, O), turn |-> Within(b, O)]
    BY Zenon DEF Analyze
  <1> HIDE DEF cur, prev
  <1>4. /\ k \in Nat /\ k <= Len(cur) /\ k <= Len(prev)
        /\ \A i \in 1..k : Signature(cur[i]) = Signature(prev[i])
    BY <1>1, <1>2, CommonPrefixIs
  <1> HIDE DEF k, X
  <1>5. k \in 0..Len(cur)
    BY <1>1, <1>4
  <1>6. /\ a \in Seq(X) /\ b \in Seq(X) /\ Len(a) = k /\ a \o b = cur
        /\ \A i \in 1..k : a[i] = cur[i]
    BY <1>1, <1>5, PrefixAndRest
  <1> HIDE DEF a, b, O
  <1>7. Within(a, O) \o Within(b, O) = Within(cur, O)
    <2>1. WithinSplits(a, b, O)
      BY <1>6, WithinConcat
    <2> QED BY <1>6, <2>1 DEF WithinSplits
  <1>8. /\ Within(a, O) \in Seq(X) /\ Within(b, O) \in Seq(X)
        /\ Within(cur, SystemOf(cur)) \in Seq(X)
    BY <1>1, <1>6, WithinType
  <1>9. Len(Within(cur, SystemOf(cur))) + Len(Within(cur, O)) = Len(cur)
    <2> DEFINE S == SystemOf(cur)
    <2>1. \A i \in 1..Len(cur) : cur[i] \in S <=> cur[i] \notin O
      <3>1. \A i \in 1..Len(cur) : cur[i] \in ToSet(cur)
        BY <1>1 DEF ToSet
      <3> QED BY <3>1 DEF SystemOf, OthersOf, O
    <2> HIDE DEF S
    <2>2. Len(Within(cur, S)) + Len(Within(cur, O)) = Len(cur)
      BY <1>1, <2>1, WithinLengths
    <2> QED BY <2>2 DEF S
  <1>10. Len(Within(cur, O)) = Len(Within(a, O)) + Len(Within(b, O))
    <2> DEFINE u == Within(a, O)
               v == Within(b, O)
    <2>1. u \in Seq(X) /\ v \in Seq(X) /\ u \o v = Within(cur, O)
      BY <1>7, <1>8
    <2> HIDE DEF u, v
    <2>2. Len(u \o v) = Len(u) + Len(v)
      BY <2>1
    <2> QED BY <2>1, <2>2 DEF u, v
  <1>11. /\ Len(Within(cur, SystemOf(cur))) \in Nat /\ Len(Within(a, O)) \in Nat
         /\ Len(Within(b, O)) \in Nat
    BY <1>8
  <1>12. Len(Within(cur, SystemOf(cur))) + Len(Within(a, O)) + Len(Within(b, O)) = Len(cur)
    BY <1>9, <1>10, <1>11
  <1>13. ASSUME NEW m \in ToSet(Within(a, O))
         PROVE  \E p \in ToSet(prev) : p.role = m.role /\ p.content.parts = m.content.parts
    <2>1. m \in ToSet(a)
      BY <1>6, WithinOnly
    <2>2. PICK i \in 1..k : m = cur[i]
      <3>1. DOMAIN a = 1..k
        BY <1>6
      <3>2. PICK i \in 1..k : m = a[i]
        BY <2>1, <3>1 DEF ToSet
      <3> QED BY <1>6, <3>2
    <2>3. Signature(m) = Signature(prev[i])
      BY <1>4, <2>2
    <2>4. prev[i].role = m.role /\ SignedContent(prev[i].content) = SignedContent(m.content)
      BY <2>3 DEF Signature
    <2>5. i \in DOMAIN prev
      BY <1>2, <1>4
    <2>6. m \in MessageOf /\ prev[i] \in MessageOf
      BY <1>1, <1>2, <1>4, <2>2 DEF X
    <2>7. prev[i].content.parts = m.content.parts
      BY <2>4, <2>6, SignedParts DEF MessageOf
    <2> QED BY <2>4, <2>5, <2>7 DEF ToSet
  <1> QED BY <1>3, <1>7, <1>12, <1>13 DEF cur, prev, O

\* A block that is a call has a name.
Part == [type : STRING, text : TextOf]
Block ==
  {b \in [kind : {"text", "image", "thinking", "unknown", "tool_result", "tool_use"},
          text : TextOf] :
     b.kind = "tool_use" => b.text # <<>>}

\* The block of a tool's answer.
LEMMA ResultBlock ==
  ASSUME NEW t \in TextOf
  PROVE  [kind |-> "tool_result", text |-> t] \in Block
  <1> DEFINE b == [kind |-> "tool_result", text |-> t]
  <1>1. b.kind = "tool_result" /\ b.text = t
    OBVIOUS
  <1>2. b \in [kind : {"text", "image", "thinking", "unknown", "tool_result", "tool_use"},
               text : TextOf]
    OBVIOUS
  <1> QED BY <1>1, <1>2 DEF Block

\* The block of a call.
LEMMA CallBlock ==
  ASSUME NEW t \in TextOf, t # <<>>
  PROVE  [kind |-> "tool_use", text |-> t] \in Block
  <1> DEFINE b == [kind |-> "tool_use", text |-> t]
  <1>1. b.kind = "tool_use" /\ b.text = t
    OBVIOUS
  <1>2. b \in [kind : {"text", "image", "thinking", "unknown", "tool_result", "tool_use"},
               text : TextOf]
    OBVIOUS
  <1> HIDE DEF b
  <1>3. b \in Block
    BY <1>1, <1>2 DEF Block
  <1> QED BY <1>3 DEF b

\* The block of a part keeps its text, and only an image is drawn as one.
LEMMA PartBlockIs ==
  ASSUME NEW p \in Part
  PROVE  /\ PartBlock(p) \in Block /\ PartBlock(p).text = p.text
         /\ PartBlock(p).kind = "image" <=> p.type = "image_url"
  <1> DEFINE k == CASE p.type = "text" -> "text"
                    [] p.type = "image_url" -> "image"
                    [] p.type \in {"thinking", "reasoning"} -> "thinking"
                    [] OTHER -> "unknown"
             b == [kind |-> k, text |-> p.text]
  <1>1. p.text \in TextOf
    BY DEF Part
  <1>2. k \in {"text", "image", "thinking", "unknown"} /\ (k = "image" <=> p.type = "image_url")
    <2>1. CASE p.type = "text"
      BY <2>1
    <2>2. CASE p.type = "image_url"
      BY <2>2
    <2>3. CASE p.type \in {"thinking", "reasoning"}
      BY <2>3
    <2>4. CASE p.type \notin {"text", "image_url", "thinking", "reasoning"}
      BY <2>4
    <2> QED BY <2>1, <2>2, <2>3, <2>4
  <1>3. PartBlock(p) = b
    BY Zenon DEF PartBlock
  <1> HIDE DEF k
  <1>4. b.kind = k /\ b.text = p.text
    OBVIOUS
  <1>5. b \in [kind : {"text", "image", "thinking", "unknown", "tool_result", "tool_use"},
               text : TextOf]
    BY <1>1, <1>2
  <1> HIDE DEF b
  <1>6. b \in Block
    BY <1>2, <1>4, <1>5 DEF Block
  <1> QED BY <1>2, <1>3, <1>4, <1>6

\* The parts and the calls of a message.
LEMMA MessageFields ==
  ASSUME NEW m \in MessageOf
  PROVE  m.content.parts \in Seq(Part) /\ m.calls \in Seq(TextOf \ {<<>>})
  <1>1. m.content \in ContentOf /\ m.calls \in CallsOf
    BY DEF MessageOf
  <1>2. m.content.parts \in Seq(Part)
    BY <1>1 DEF ContentOf, Part
  <1> QED BY <1>1, <1>2 DEF CallsOf

\* The text of a content is a text.
LEMMA ContentTextType ==
  ASSUME NEW m \in MessageOf
  PROVE  ContentText(m.content) \in TextOf
  <1> DEFINE ps == m.content.parts
             ts == [i \in 1..Len(ps) |-> ps[i].text]
  <1>1. ps \in Seq(Part) /\ Len(ps) \in Nat
    BY MessageFields
  <1>2. ASSUME NEW i \in 1..Len(ps) PROVE ps[i].text \in TextOf
    <2>1. ps[i] \in Part
      BY <1>1
    <2> QED BY <2>1 DEF Part
  <1>3. ContentText(m.content) = FlattenSeq(ts)
    BY DEF ContentText
  <1> HIDE DEF ps
  <1>4. ts \in Seq(TextOf)
    BY <1>1, <1>2
  <1> HIDE DEF ts
  <1>5. FlattenSeq(ts) \in Seq(STRING)
    BY <1>4, FlattenType DEF TextOf
  <1> QED BY <1>3, <1>5 DEF TextOf

Joins(s, a, b) ==
  /\ Len(a) \in Nat /\ Len(b) \in Nat /\ Len(s) = Len(a) + Len(b)
  /\ \A i \in 1..Len(a) : s[i] = a[i]
  /\ \A i \in 1..Len(b) : s[Len(a) + i] = b[i]

\* Where the elements of a concatenation stand.
LEMMA ConcatJoins ==
  ASSUME NEW X, NEW a \in Seq(X), NEW b \in Seq(X)
  PROVE  a \o b \in Seq(X) /\ Joins(a \o b, a, b)
  BY DEF Joins

\* The blocks of a message: first that of a tool's answer, then one for each part,
\* then one for each call.
LEMMA BlocksAre ==
  ASSUME NEW m \in MessageOf
  PROVE  /\ BlocksOf(m) \in Seq(Block)
         /\ \A j \in 1..Len(m.content.parts) :
              \E i \in 1..Len(BlocksOf(m)) : BlocksOf(m)[i] = PartBlock(m.content.parts[j])
         /\ \A j \in 1..Len(m.calls) :
              \E i \in 1..Len(BlocksOf(m)) :
                BlocksOf(m)[i] = [kind |-> "tool_use", text |-> m.calls[j]]
  <1> DEFINE ps == m.content.parts
             cs == m.calls
             P == Len(ps)
             C == Len(cs)
             Use(t) == [kind |-> "tool_use", text |-> t]
             x == [kind |-> "tool_result", text |-> ContentText(m.content)]
             a == IF m.role = "tool" \/ m.callId # NoneId THEN <<x>> ELSE <<>>
             b == [i \in 1..P |-> PartBlock(ps[i])]
             c == [i \in 1..C |-> Use(cs[i])]
  <1>1. ps \in Seq(Part) /\ P \in Nat /\ cs \in Seq(TextOf \ {<<>>}) /\ C \in Nat
    BY MessageFields
  <1>2. x \in Block
    BY ContentTextType, ResultBlock
  <1>3. \A i \in 1..P : PartBlock(ps[i]) \in Block
    BY <1>1, PartBlockIs
  <1>4. \A i \in 1..C : Use(cs[i]) \in Block
    <2>1. \A i \in 1..C : cs[i] \in TextOf /\ cs[i] # <<>>
      BY <1>1
    <2> QED BY <2>1, CallBlock
  <1>5. BlocksOf(m) = (a \o b) \o c
    BY Zenon DEF BlocksOf
  <1> HIDE DEF x, ps, cs, Use, P, C
  <1>6. a \in Seq(Block) /\ Len(a) \in Nat
    BY <1>2
  <1>7. b \in Seq(Block) /\ Len(b) = P /\ \A i \in 1..P : b[i] = PartBlock(ps[i])
    BY <1>1, <1>3
  <1>8. c \in Seq(Block) /\ Len(c) = C /\ \A i \in 1..C : c[i] = Use(cs[i])
    BY <1>1, <1>4
  <1> HIDE DEF a, b, c
  <1> DEFINE ab == a \o b
             s == ab \o c
  <1>9. ab \in Seq(Block) /\ Len(ab) = Len(a) + P /\ \A i \in 1..P : ab[Len(a) + i] = b[i]
    <2>1. ab \in Seq(Block) /\ Joins(ab, a, b)
      BY <1>6, <1>7, ConcatJoins
    <2> HIDE DEF ab
    <2> QED BY <1>7, <2>1 DEF Joins
  <1> HIDE DEF ab
  <1>10. /\ s \in Seq(Block) /\ Len(s) = Len(ab) + C
         /\ \A i \in 1..Len(ab) : s[i] = ab[i]
         /\ \A i \in 1..C : s[Len(ab) + i] = c[i]
    <2>1. s \in Seq(Block) /\ Joins(s, ab, c)
      BY <1>8, <1>9, ConcatJoins
    <2> HIDE DEF s
    <2> QED BY <1>8, <2>1 DEF Joins
  <1>11. BlocksOf(m) = s
    BY <1>5 DEF ab
  <1> HIDE DEF s
  <1>13. ASSUME NEW j \in 1..P
         PROVE  \E i \in 1..Len(s) : s[i] = PartBlock(ps[j])
    <2>1. Len(a) + j \in 1..Len(s) /\ Len(a) + j \in 1..Len(ab)
      BY <1>1, <1>6, <1>9, <1>10
    <2>2. s[Len(a) + j] = PartBlock(ps[j])
      BY <1>7, <1>9, <1>10, <2>1
    <2> QED BY <2>1, <2>2
  <1>14. ASSUME NEW j \in 1..C
         PROVE  \E i \in 1..Len(s) : s[i] = Use(cs[j])
    <2>1. Len(ab) + j \in 1..Len(s)
      BY <1>1, <1>6, <1>9, <1>10
    <2>2. s[Len(ab) + j] = Use(cs[j])
      BY <1>8, <1>10
    <2> QED BY <2>1, <2>2
  <1> QED BY <1>10, <1>11, <1>13, <1>14 DEF P, C, ps, cs, Use

\* An opened message shows what every block of it was made from.
LEMMA OpenShowsBlocks ==
  ASSUME NEW m \in MessageOf, NEW i \in 1..Len(BlocksOf(m))
  PROVE  ToSet(BlockRaw(BlocksOf(m)[i])) \subseteq ToSet(MessageNode(m, TRUE))
  <1> DEFINE X == STRING \cup {"[image]"}
             s == BlocksOf(m)
             n == Len(s)
             chips == [j \in 1..n |-> BlockChip(s[j])]
             raws == [j \in 1..n |-> BlockRaw(s[j])]
  <1>1. s \in Seq(Block)
    BY BlocksAre
  <1>2. MessageNode(m, TRUE) = FlattenSeq(chips) \o FlattenSeq(raws)
    BY Zenon DEF MessageNode
  <1>3. i \in 1..n
    OBVIOUS
  <1> HIDE DEF s
  <1>4. n \in Nat /\ \A j \in 1..n : s[j] \in Block
    BY <1>1
  <1> HIDE DEF n
  <1>a. STRING \subseteq X /\ "[image]" \in X
    OBVIOUS
  <1> HIDE DEF X
  <1>b. <<"[image]">> \in Seq(X) /\ <<>> \in Seq(X) /\ TextOf \subseteq Seq(X)
    <2>1. <<"[image]">> \in Seq(X) /\ <<>> \in Seq(X)
      BY <1>a
    <2>2. Seq(STRING) \subseteq Seq(X)
      <3>1. ASSUME NEW t \in Seq(STRING) PROVE t \in Seq(X)
        BY <1>a, SeqMonotonic
      <3> QED BY <3>1
    <2> QED BY <2>1, <2>2 DEF TextOf
  <1>5. ASSUME NEW j \in 1..n
        PROVE  BlockChip(s[j]) \in Seq(X) /\ BlockRaw(s[j]) \in Seq(X)
    <2> DEFINE t == s[j].text
    <2>0. t \in TextOf /\ (s[j].kind = "tool_use" => t # <<>>)
      BY <1>4 DEF Block
    <2>1. t \in Seq(X) /\ (s[j].kind = "tool_use" => t # <<>>)
      BY <1>b, <2>0
    <2> HIDE DEF t
    <2>2. t # <<>> => <<Head(t)>> \in Seq(X)
      BY <2>1
    <2>4. BlockChip(s[j]) \in Seq(X)
      BY <1>b, <2>1, <2>2 DEF BlockChip, t
    <2>5. BlockRaw(s[j]) \in Seq(X)
      BY <1>b, <2>1 DEF BlockRaw, t
    <2> QED BY <2>4, <2>5
  <1>6. chips \in Seq(Seq(X))
    BY <1>4, <1>5
  <1>7. raws \in Seq(Seq(X)) /\ Len(raws) = n /\ raws[i] = BlockRaw(s[i])
    BY <1>3, <1>4, <1>5
  <1> HIDE DEF chips, raws
  <1> DEFINE u == FlattenSeq(chips)
             v == FlattenSeq(raws)
  <1>8. u \in Seq(X) /\ v \in Seq(X)
    BY <1>6, <1>7, FlattenType
  <1>9. ToSet(raws[i]) \subseteq ToSet(v)
    <2>1. i \in 1..Len(raws)
      BY <1>3, <1>7
    <2> QED BY <1>7, <2>1, FlattenHolds
  <1> HIDE DEF u, v
  <1>10. ToSet(v) \subseteq ToSet(u \o v)
    <2>1. \A j \in 1..Len(v) : (u \o v)[Len(u) + j] = v[j] /\ Len(u) + j \in 1..Len(u \o v)
      BY <1>8
    <2>2. DOMAIN v = 1..Len(v) /\ DOMAIN (u \o v) = 1..Len(u \o v)
      BY <1>8
    <2> QED BY <2>1, <2>2 DEF ToSet
  <1>11. ToSet(BlockRaw(s[i])) \subseteq ToSet(u \o v)
    BY <1>7, <1>9, <1>10
  <1> QED BY <1>2, <1>11 DEF u, v, s

\* An opened message shows every part and every call.
LEMMA OpenShowsAll ==
  ASSUME NEW m \in MessageOf
  PROVE  LET raw == ToSet(MessageNode(m, TRUE)) IN
           /\ \A p \in ToSet(m.content.parts) :
                IF p.type = "image_url" THEN "[image]" \in raw ELSE ToSet(p.text) \subseteq raw
           /\ \A c \in ToSet(m.calls) : ToSet(c) \subseteq raw
  <1> DEFINE ps == m.content.parts
             cs == m.calls
             raw == ToSet(MessageNode(m, TRUE))
             bs == BlocksOf(m)
  <1>1. ps \in Seq(Part) /\ cs \in Seq(TextOf \ {<<>>})
    BY MessageFields
  <1>2. /\ \A j \in 1..Len(ps) : \E i \in 1..Len(bs) : bs[i] = PartBlock(ps[j])
        /\ \A j \in 1..Len(cs) :
             \E i \in 1..Len(bs) : bs[i] = [kind |-> "tool_use", text |-> cs[j]]
    BY BlocksAre
  <1>3. \A i \in 1..Len(bs) : ToSet(BlockRaw(bs[i])) \subseteq raw
    BY OpenShowsBlocks
  <1> HIDE DEF ps, cs, raw, bs
  <1>4. ASSUME NEW p \in ToSet(ps)
        PROVE  IF p.type = "image_url" THEN "[image]" \in raw ELSE ToSet(p.text) \subseteq raw
    <2>1. PICK j \in 1..Len(ps) : p = ps[j]
      <3>1. DOMAIN ps = 1..Len(ps)
        BY <1>1
      <3> QED BY <3>1 DEF ToSet
    <2>2. p \in Part
      BY <1>1, <2>1
    <2>3. /\ PartBlock(p).text = p.text
          /\ PartBlock(p).kind = "image" <=> p.type = "image_url"
      BY <2>2, PartBlockIs
    <2>4. ToSet(BlockRaw(PartBlock(p))) \subseteq raw
      BY <1>2, <1>3, <2>1
    <2>5. CASE p.type = "image_url"
      <3>1. BlockRaw(PartBlock(p)) = <<"[image]">>
        BY <2>3, <2>5 DEF BlockRaw
      <3>2. "[image]" \in ToSet(<<"[image]">>)
        BY DEF ToSet
      <3> QED BY <2>4, <2>5, <3>1, <3>2, Zenon
    <2>6. CASE p.type # "image_url"
      <3>1. BlockRaw(PartBlock(p)) = p.text
        BY <2>3, <2>6 DEF BlockRaw
      <3> QED BY <2>4, <2>6, <3>1
    <2> QED BY <2>5, <2>6
  <1>5. ASSUME NEW c \in ToSet(cs) PROVE ToSet(c) \subseteq raw
    <2> DEFINE b == [kind |-> "tool_use", text |-> c]
    <2>1. PICK j \in 1..Len(cs) : c = cs[j]
      <3>1. DOMAIN cs = 1..Len(cs)
        BY <1>1
      <3> QED BY <3>1 DEF ToSet
    <2>2. PICK i \in 1..Len(bs) : bs[i] = b
      BY <1>2, <2>1
    <2>3. BlockRaw(b) = c
      BY DEF BlockRaw
    <2> QED BY <1>3, <2>2, <2>3
  <1> QED BY <1>4, <1>5 DEF ps, cs, raw

-----------------------------------------------------------------------------
(* What the loads of a recorded session have in hand.                         *)

\* The rows before row, closest first.
Before(row) == [i \in 1..Len(PrevIds(row)) |-> script[PrevIds(row)[i]]]

\* The session is what was recorded, loads are of its rows, and what is shown is a
\* row of it with rows of it as baseline.
RowsKnown ==
  /\ script \in Seq(DetailOf) /\ rowFaults \in Nat
  /\ \A i \in 1..Len(loads) : loads[i].row \in Rows
  /\ Shown => panel.show.row \in Rows /\ panel.show.baseline \in Seq(DetailOf)

\* As long as nothing failed, a row before the loaded one is either still asked for
\* or there, from the cache or from the server.
NoneMissed ==
  (ui = "desktop" /\ rowFaults = 0)
    => \A i \in 1..Len(loads) :
         ToSet(PrevIds(loads[i].row)) \subseteq loads[i].todo \cup loads[i].got

\* ... and what is shown was compared with all of them.
ComparedWithAll ==
  (Shown /\ ui = "desktop" /\ rowFaults = 0)
    => panel.show.baseline = PickBaseline(MessagesOf(ShownRow), Before(panel.show.row))

RecordInv == RowsKnown /\ NoneMissed /\ ComparedWithAll

\* The rows before a row are rows, in number at most the window.
LEMMA PrevIdsAre ==
  ASSUME NEW r \in Nat \ {0}
  PROVE  /\ PrevIds(r) \in Seq(1..(r - 1))
         /\ \A i \in 1..Len(PrevIds(r)) : PrevIds(r)[i] = r - i
         /\ r \notin ToSet(PrevIds(r))
  <1> DEFINE k == IF r - 1 < Window THEN r - 1 ELSE Window
  <1>1. k \in Nat /\ k <= r - 1
    BY TraceAssumption
  <1>2. PrevIds(r) = [i \in 1..k |-> r - i]
    BY DEF PrevIds
  <1> HIDE DEF k
  <1>3. \A i \in 1..k : r - i \in 1..(r - 1)
    BY <1>1
  <1> DEFINE s == PrevIds(r)
  <1>4. s \in Seq(1..(r - 1)) /\ Len(s) = k /\ \A i \in 1..k : s[i] = r - i
    BY <1>1, <1>2, <1>3
  <1> HIDE DEF s
  <1>5. r \notin ToSet(s)
    <2>1. \A i \in DOMAIN s : s[i] \in 1..(r - 1)
      BY <1>4
    <2>2. ToSet(s) \subseteq 1..(r - 1)
      BY <2>1 DEF ToSet
    <2>3. r \notin 1..(r - 1)
      OBVIOUS
    <2> QED BY <2>2, <2>3
  <1> QED BY <1>4, <1>5 DEF s

\* The candidates that arrived are rows of the session.
LEMMA ArrivedRows ==
  ASSUME script \in Seq(DetailOf), NEW l, l.row \in Rows
  PROVE  /\ Arrived(l) \in Seq(Rows)
         /\ [i \in 1..Len(Arrived(l)) |-> script[Arrived(l)[i]]] \in Seq(DetailOf)
  <1> DEFINE r == l.row
             c == Candidates(r)
             a == Arrived(l)
  <1>0. Len(script) \in Nat /\ r \in Nat \ {0} /\ r <= Len(script)
    BY DEF Rows
  <1> HIDE DEF r
  <1>1. c \in Seq(Rows)
    <2>1. CASE ui = "desktop"
      <3>1. PrevIds(r) \in Seq(1..(r - 1))
        BY <1>0, PrevIdsAre
      <3>2. 1..(r - 1) \subseteq Rows
        BY <1>0 DEF Rows
      <3>3. PrevIds(r) \in Seq(Rows)
        BY <3>1, <3>2, SeqMonotonic
      <3> QED BY <2>1, <3>3 DEF Candidates
    <2>2. CASE ui # "desktop"
      <3>1. r > 1 => r - 1 \in Rows
        BY <1>0 DEF Rows
      <3> HIDE DEF Rows
      <3>2. Predecessor(r) \in Seq(Rows)
        BY <3>1 DEF Predecessor
      <3> QED BY <2>2, <3>2 DEF Candidates
    <2> QED BY <2>1, <2>2
  <1>2. a = Within(c, l.got)
    BY DEF Arrived, r
  <1> HIDE DEF c, a
  <1>3. a \in Seq(Rows)
    BY <1>1, <1>2, WithinType
  <1>4. Len(a) \in Nat /\ \A i \in 1..Len(a) : a[i] \in Rows
    BY <1>3
  <1>5. \A i \in 1..Len(a) : script[a[i]] \in DetailOf
    BY <1>4 DEF Rows
  <1>6. [i \in 1..Len(a) |-> script[a[i]]] \in Seq(DetailOf)
    BY <1>4, <1>5
  <1> QED BY <1>3, <1>6 DEF a

\* A baseline is a recorded request.
LEMMA PickType ==
  ASSUME NEW cur \in Seq(MessageOf), NEW s \in Seq(DetailOf)
  PROVE  PickBaseline(cur, s) \in Seq(DetailOf)
  <1>1. PICK v \in Choice : v.row = PickBaseline(cur, s)
    BY PickIsBest
  <1> QED BY <1>1 DEF Choice

\* ... on the web too, where the predecessor is taken as it is.
LEMMA BaselineType ==
  ASSUME script \in Seq(DetailOf), NEW l, l.row \in Rows
  PROVE  Baseline(l) \in Seq(DetailOf)
  <1> DEFINE rows == [i \in 1..Len(Arrived(l)) |-> script[Arrived(l)[i]]]
             cur == MessagesOf(script[l.row])
  <1>1. rows \in Seq(DetailOf)
    BY ArrivedRows
  <1>2. cur \in Seq(MessageOf)
    <2>1. script[l.row] \in DetailOf
      BY DEF Rows
    <2> QED BY <2>1, MessagesType
  <1>3. Baseline(l) = IF ui = "desktop" THEN PickBaseline(cur, rows) ELSE rows
    BY Zenon DEF Baseline
  <1> HIDE DEF rows, cur
  <1>4. PickBaseline(cur, rows) \in Seq(DetailOf)
    BY <1>1, <1>2, PickType
  <1> QED BY <1>1, <1>3, <1>4

\* With all of them there, all of them are compared.
LEMMA BaselineOfAll ==
  ASSUME script \in Seq(DetailOf), ui = "desktop", NEW l, l.row \in Rows,
         ToSet(PrevIds(l.row)) \subseteq l.got
  PROVE  Baseline(l) = PickBaseline(MessagesOf(script[l.row]), Before(l.row))
  <1> DEFINE s == PrevIds(l.row)
  <1>1. s \in Seq(1..(l.row - 1))
    BY PrevIdsAre DEF Rows
  <1>2. \A i \in 1..Len(s) : s[i] \in l.got
    <2>1. DOMAIN s = 1..Len(s)
      BY <1>1
    <2> QED BY <2>1 DEF ToSet
  <1>3. Arrived(l) = Within(s, l.got)
    BY DEF Arrived, Candidates
  <1> HIDE DEF s
  <1>4. Arrived(l) = s
    BY <1>1, <1>2, <1>3, WithinAll
  <1> QED BY <1>4, Zenon DEF Baseline, Before, s

\* A new load asks for every row before it that the cache does not have.
LEMMA NewLoadMisses ==
  ASSUME NEW r
  PROVE  /\ NewLoad(r).row = r
         /\ ui = "desktop" => ToSet(PrevIds(r)) \subseteq NewLoad(r).todo \cup NewLoad(r).got
  BY DEF NewLoad, Candidates

\* The invariant holds when the viewer opens.
LEMMA RecordInit == TraceInit => RecordInv
  <1> SUFFICES ASSUME TraceInit
               PROVE  RecordInv
    OBVIOUS
  <1>1. script \in Seq(DetailOf) /\ rowFaults = 0 /\ loads = <<>> /\ panel = Skeleton
    BY TraceAssumption DEF TraceInit
  <1>2. panel.state = "loading"
    BY <1>1 DEF Skeleton
  <1> QED BY <1>1, <1>2 DEF RecordInv, RowsKnown, NoneMissed, ComparedWithAll, Shown

\* The timeline arrives, or fails.
LEMMA RecordTimeline ==
  ASSUME TraceInv, RecordInv, LoadTimeline
  PROVE  RecordInv'
  <1>1. /\ ui' = ui /\ script' = script /\ panel' = panel /\ loads = <<>>
        /\ panel.state = "loading"
    BY DEF LoadTimeline, TraceInv, TimelineFirst
  <1>2. \/ loads' = <<>> /\ rowFaults' = rowFaults
        \/ loads' = <<>> /\ rowFaults' = rowFaults + 1
        \/ loads' = <<NewLoad(1)>> /\ script # <<>> /\ rowFaults' = rowFaults
    BY <1>1 DEF LoadTimeline
  <1>3. script \in Seq(DetailOf) /\ rowFaults \in Nat
    BY DEF RecordInv, RowsKnown
  <1>4. Rows' = Rows /\ (script # <<>> => 1 \in Rows)
    BY <1>1, <1>3 DEF Rows
  <1>5. \/ Len(loads') = 0
        \/ Len(loads') = 1 /\ loads'[1] = NewLoad(1) /\ script # <<>>
    <2>1. CASE loads' = <<>>
      BY <2>1
    <2>2. CASE loads' = <<NewLoad(1)>> /\ script # <<>>
      <3> DEFINE x == NewLoad(1)
      <3>1. loads' = <<x>>
        BY <2>2
      <3> HIDE DEF x
      <3>2. Len(loads') = 1 /\ loads'[1] = x
        BY <3>1
      <3> QED BY <2>2, <3>2 DEF x
    <2> QED BY <1>2, <2>1, <2>2
  <1>6. /\ NewLoad(1).row = 1
        /\ ui = "desktop" => ToSet(PrevIds(1)) \subseteq NewLoad(1).todo \cup NewLoad(1).got
    BY NewLoadMisses
  <1>7. \A i \in 1..Len(loads') :
          /\ loads'[i].row \in Rows
          /\ ui = "desktop"
               => ToSet(PrevIds(loads'[i].row)) \subseteq loads'[i].todo \cup loads'[i].got
    BY <1>4, <1>5, <1>6
  <1>8. rowFaults' \in Nat
    BY <1>2, <1>3
  <1>9. RowsKnown'
    BY <1>1, <1>3, <1>4, <1>7, <1>8 DEF RowsKnown, Shown
  <1>10. NoneMissed'
    BY <1>1, <1>7 DEF NoneMissed
  <1>11. ComparedWithAll'
    BY <1>1 DEF ComparedWithAll, Shown
  <1> QED BY <1>9, <1>10, <1>11 DEF RecordInv

\* A click starts a load of its own and leaves what the others have.
LEMMA RecordSelect ==
  ASSUME TraceInv, RecordInv, NEW r \in Rows, Select(r)
  PROVE  RecordInv'
  <1> DEFINE old == CancelLoads
             n == Len(old)
             x == NewLoad(r)
  <1>1. /\ ui' = ui /\ script' = script /\ rowFaults' = rowFaults
        /\ loads' = Append(old, x) /\ panel' = [panel EXCEPT !.state = "loading"]
    BY DEF Select
  <1>2. loads \in Seq(Load) /\ Len(loads) \in Nat
    BY DEF TraceInv, TraceTypeOK
  <1>3. /\ old \in Seq(Load) /\ n = Len(loads)
        /\ \A i \in 1..n : /\ old[i].row = loads[i].row
                           /\ old[i].todo = loads[i].todo /\ old[i].got = loads[i].got
    <2>1. CASE ui # "desktop"
      BY <1>2, <2>1 DEF CancelLoads
    <2>2. CASE ui = "desktop"
      <3> DEFINE c(i) == [loads[i] EXCEPT !.live = FALSE]
      <3>1. ASSUME NEW i \in 1..Len(loads)
            PROVE  /\ c(i) \in Load /\ c(i).row = loads[i].row
                   /\ c(i).todo = loads[i].todo /\ c(i).got = loads[i].got
        <4>1. loads[i] \in Load
          BY <1>2, ElementOfSeq
        <4> QED BY <4>1 DEF Load
      <3>2. old = [i \in 1..Len(loads) |-> c(i)]
        BY <2>2 DEF CancelLoads
      <3> HIDE DEF c, old
      <3>3. old \in Seq(Load) /\ Len(old) = Len(loads)
        BY <1>2, <3>1, <3>2
      <3> QED BY <1>2, <3>1, <3>2, <3>3
    <2> QED BY <2>1, <2>2
  <1>4. r \in Nat \ {0}
    BY DEF Rows, TraceInv, TraceTypeOK
  <1>5. x \in Load /\ x.row = r
    BY <1>4, NewLoadType DEF TraceInv
  <1>6. ui = "desktop" => ToSet(PrevIds(r)) \subseteq x.todo \cup x.got
    BY NewLoadMisses
  <1>7. panel'.state = "loading"
    <2>1. PICK B : panel \in PanelOf(B)
      BY DEF TraceInv, TraceTypeOK
    <2> QED BY <2>1, <1>1 DEF PanelOf
  <1> HIDE DEF old, x
  <1>8. /\ n \in Nat /\ Len(loads') = n + 1
        /\ \A i \in 1..n : loads'[i] = old[i]
        /\ loads'[n + 1] = x
    BY <1>1, <1>2, <1>3, <1>5, AppendSeq
  <1> HIDE DEF n
  <1>9. Rows' = Rows
    BY <1>1 DEF Rows
  <1>10. \A i \in 1..Len(loads') :
           \/ i \in 1..Len(loads) /\ loads'[i].row = loads[i].row
              /\ loads'[i].todo = loads[i].todo /\ loads'[i].got = loads[i].got
           \/ loads'[i] = x
    <2> SUFFICES ASSUME NEW i \in 1..Len(loads')
                 PROVE  \/ i \in 1..Len(loads) /\ loads'[i].row = loads[i].row
                           /\ loads'[i].todo = loads[i].todo /\ loads'[i].got = loads[i].got
                        \/ loads'[i] = x
      OBVIOUS
    <2>1. i \in 1..n \/ i = n + 1
      BY <1>8
    <2> QED BY <1>3, <1>8, <2>1
  <1>11. RowsKnown'
    BY <1>1, <1>5, <1>7, <1>9, <1>10 DEF RecordInv, RowsKnown, Shown
  <1>12. NoneMissed'
    BY <1>1, <1>5, <1>6, <1>10 DEF RecordInv, NoneMissed
  <1>13. ComparedWithAll'
    BY <1>7 DEF ComparedWithAll, Shown
  <1> QED BY <1>11, <1>12, <1>13 DEF RecordInv

\* A row that arrives moves from what is asked for to what is there.
LEMMA RecordFetch ==
  ASSUME TraceInv, RecordInv, NEW i \in 1..Len(loads), FetchRow(i)
  PROVE  RecordInv'
  <1> DEFINE l == loads[i]
  <1>1. loads \in Seq(Load) /\ Len(loads) \in Nat
    BY DEF TraceInv, TraceTypeOK
  <1>2. l \in Load
    BY <1>1, ElementOfSeq
  <1>0. /\ script \in Seq(DetailOf) /\ rowFaults \in Nat
        /\ \A j \in 1..Len(loads) : loads[j].row \in Rows
    BY DEF RecordInv, RowsKnown
  <1>3. PICK r \in l.todo :
          \/ /\ loads' = [loads EXCEPT ![i].todo = @ \ {r},
                                       ![i].got = IF r = loads[i].row THEN @ ELSE @ \cup {r}]
             /\ rowFaults' = rowFaults
          \/ loads' = [loads EXCEPT ![i].todo = @ \ {r}] /\ rowFaults' = rowFaults + 1
          \/ loads' = [loads EXCEPT ![i].bad = TRUE] /\ rowFaults' = rowFaults + 1
    BY DEF FetchRow
  <1>4. ui' = ui /\ script' = script /\ panel' = panel
    BY DEF FetchRow
  <1>5. r \in Nat
    BY <1>2 DEF Load
  <1>6. \E x \in Load : /\ loads' = [loads EXCEPT ![i] = x] /\ x.row = l.row
                        /\ \/ rowFaults' = rowFaults + 1
                           \/ /\ rowFaults' = rowFaults
                              /\ x.todo = l.todo \ {r}
                              /\ x.got = IF r = l.row THEN l.got ELSE l.got \cup {r}
    <2> DEFINE t == l.todo \ {r}
               g == IF r = l.row THEN l.got ELSE l.got \cup {r}
               a == [l EXCEPT !.todo = t, !.got = g]
               b == [l EXCEPT !.todo = t]
               c == [l EXCEPT !.bad = TRUE]
    <2>1. t \in SUBSET Nat /\ g \in SUBSET Nat
      BY <1>2, <1>5 DEF Load
    <2>2. \/ loads' = [loads EXCEPT ![i] = a] /\ rowFaults' = rowFaults
          \/ loads' = [loads EXCEPT ![i] = b] /\ rowFaults' = rowFaults + 1
          \/ loads' = [loads EXCEPT ![i] = c] /\ rowFaults' = rowFaults + 1
      BY <1>1, <1>2, <1>3 DEF Load
    <2> HIDE DEF t, g
    <2>3. a \in Load /\ a.row = l.row /\ a.todo = t /\ a.got = g
      BY <1>2, <2>1 DEF Load
    <2>4. b \in Load /\ b.row = l.row
      BY <1>2, <2>1 DEF Load
    <2>5. c \in Load /\ c.row = l.row
      BY <1>2 DEF Load
    <2> HIDE DEF a, b, c
    <2> QED BY <2>2, <2>3, <2>4, <2>5 DEF t, g
  <1>7. PICK x \in Load : /\ loads' = [loads EXCEPT ![i] = x] /\ x.row = l.row
                          /\ \/ rowFaults' = rowFaults + 1
                             \/ /\ rowFaults' = rowFaults
                                /\ x.todo = l.todo \ {r}
                                /\ x.got = IF r = l.row THEN l.got ELSE l.got \cup {r}
    BY <1>6
  <1>8. /\ Len(loads') = Len(loads) /\ loads'[i] = x
        /\ \A j \in 1..Len(loads) : j # i => loads'[j] = loads[j]
    BY <1>1, <1>7, PutSeq
  <1>9. \A j \in 1..Len(loads) : loads'[j].row = loads[j].row
    BY <1>7, <1>8
  <1>10. rowFaults' \in Nat /\ (rowFaults' = 0 => rowFaults = 0 /\ rowFaults' = rowFaults)
    BY <1>0, <1>7
  <1>11. Rows' = Rows
    BY <1>4 DEF Rows
  <1>12. RowsKnown'
    BY <1>0, <1>4, <1>8, <1>9, <1>10, <1>11 DEF RecordInv, RowsKnown, Shown
  <1>13. NoneMissed'
    <2> SUFFICES ASSUME ui' = "desktop", rowFaults' = 0, NEW j \in 1..Len(loads)
                 PROVE  ToSet(PrevIds(loads'[j].row)) \subseteq loads'[j].todo \cup loads'[j].got
      BY <1>8 DEF NoneMissed
    <2>1. ToSet(PrevIds(loads[j].row)) \subseteq loads[j].todo \cup loads[j].got
      BY <1>4, <1>10 DEF RecordInv, NoneMissed
    <2>2. CASE j # i
      BY <1>8, <2>1, <2>2
    <2>3. CASE j = i
      <3>1. /\ x.todo = l.todo \ {r}
            /\ x.got = IF r = l.row THEN l.got ELSE l.got \cup {r}
        BY <1>0, <1>7, <1>10
      <3>2. l.row \notin ToSet(PrevIds(l.row))
        <4>1. l.row \in Nat \ {0}
          BY <1>0 DEF Rows
        <4> QED BY <4>1, PrevIdsAre
      <3>3. ToSet(PrevIds(l.row)) \subseteq x.todo \cup x.got
        BY <2>1, <2>3, <3>1, <3>2
      <3> QED BY <1>7, <1>8, <2>3, <3>3
    <2> QED BY <2>2, <2>3
  <1>14. ComparedWithAll'
    <2> SUFFICES ASSUME Shown', ui' = "desktop", rowFaults' = 0
                 PROVE  (panel.show.baseline
                          = PickBaseline(MessagesOf(ShownRow), Before(panel.show.row)))'
      BY DEF ComparedWithAll
    <2>1. panel.show.baseline = PickBaseline(MessagesOf(ShownRow), Before(panel.show.row))
      BY <1>4, <1>10 DEF RecordInv, ComparedWithAll, Shown
    <2> QED BY <1>4, <2>1 DEF ShownRow, Before
  <1> QED BY <1>12, <1>13, <1>14 DEF RecordInv

\* A load that settles shows its row, compared with what arrived.
LEMMA RecordFinish ==
  ASSUME TraceInv, RecordInv, NEW i \in 1..Len(loads), FinishLoad(i)
  PROVE  RecordInv'
  <1> DEFINE l == loads[i]
             n == Len(loads)
  <1>1. loads \in Seq(Load) /\ n \in Nat
    BY DEF TraceInv, TraceTypeOK
  <1>2. /\ script \in Seq(DetailOf) /\ rowFaults \in Nat
        /\ \A j \in 1..n : loads[j].row \in Rows
    BY DEF RecordInv, RowsKnown
  <1>3. ui' = ui /\ script' = script /\ rowFaults' = rowFaults
    BY DEF FinishLoad
  <1>4. /\ Len(loads') = n - 1
        /\ \A j \in 1..(n - 1) : \E k \in 1..n : loads'[j] = loads[k]
    <2>1. /\ Len(loads') = n - 1
          /\ \A j \in 1..(n - 1) : loads'[j] = IF j < i THEN loads[j] ELSE loads[j + 1]
      BY <1>1, RemoveAtSeq DEF FinishLoad
    <2> QED BY <1>1, <2>1
  <1>5. Rows' = Rows
    BY <1>3 DEF Rows
  <1>6. \A j \in 1..Len(loads') : loads'[j].row \in Rows
    BY <1>2, <1>4
  <1>7. NoneMissed'
    BY <1>3, <1>4 DEF RecordInv, NoneMissed
  <1>8. CASE panel' = panel
    <2>1. RowsKnown'
      BY <1>2, <1>3, <1>5, <1>6, <1>8 DEF RecordInv, RowsKnown, Shown
    <2>2. ComparedWithAll'
      BY <1>3, <1>8 DEF RecordInv, ComparedWithAll, Shown, ShownRow, Before
    <2> QED BY <1>7, <2>1, <2>2 DEF RecordInv
  <1>9. CASE panel'.state # "ready"
    <2>1. RowsKnown'
      BY <1>2, <1>3, <1>5, <1>6, <1>9 DEF RowsKnown, Shown
    <2>2. ComparedWithAll'
      BY <1>9 DEF ComparedWithAll, Shown
    <2> QED BY <1>7, <2>1, <2>2 DEF RecordInv
  <1>10. CASE /\ ~l.bad
              /\ panel' = [state |-> "ready", show |-> [row |-> l.row, baseline |-> Baseline(l)]]
    <2> DEFINE b == Baseline(l)
    <2>1. b \in Seq(DetailOf)
      BY <1>2, BaselineType
    <2>2. l.todo = {}
      BY <1>10 DEF FinishLoad
    <2>3. ui = "desktop" /\ rowFaults = 0
            => b = PickBaseline(MessagesOf(script[l.row]), Before(l.row))
      <3> SUFFICES ASSUME ui = "desktop", rowFaults = 0
                   PROVE  b = PickBaseline(MessagesOf(script[l.row]), Before(l.row))
        OBVIOUS
      <3>1. ToSet(PrevIds(l.row)) \subseteq l.got
        BY <2>2 DEF RecordInv, NoneMissed
      <3> QED BY <1>2, <3>1, BaselineOfAll
    <2>4. panel' = [state |-> "ready", show |-> [row |-> l.row, baseline |-> b]]
      BY <1>10
    <2> HIDE DEF b
    <2>5. panel'.show.row = l.row /\ panel'.show.baseline = b
      BY <2>4
    <2>6. RowsKnown'
      BY <1>2, <1>3, <1>5, <1>6, <2>1, <2>5 DEF RowsKnown
    <2>7. ComparedWithAll'
      <3>1. ShownRow' = script[l.row] /\ Before(panel.show.row)' = Before(l.row)
        BY <1>3, <2>5 DEF ShownRow, Before
      <3> QED BY <1>3, <2>3, <2>5, <3>1 DEF ComparedWithAll
    <2> QED BY <1>7, <2>6, <2>7 DEF RecordInv
  <1>11. \/ panel' = panel
         \/ panel' = [state |-> IF ui = "desktop" THEN "dead" ELSE "error", show |-> NoDetail]
         \/ /\ ~l.bad
            /\ panel' = [state |-> "ready", show |-> [row |-> l.row, baseline |-> Baseline(l)]]
    BY Zenon DEF FinishLoad
  <1>12. panel' = [state |-> IF ui = "desktop" THEN "dead" ELSE "error", show |-> NoDetail]
           => panel'.state # "ready"
    OBVIOUS
  <1> QED BY <1>8, <1>9, <1>10, <1>11, <1>12, Zenon

\* Every step keeps the invariant.
LEMMA RecordNext ==
  ASSUME TraceInv, RecordInv, [TraceNext]_traceVars
  PROVE  RecordInv'
  <1>1. CASE \E i \in DOMAIN loads : FetchRow(i) \/ FinishLoad(i)
    <2>1. DOMAIN loads = 1..Len(loads)
      BY LenProperties DEF TraceInv, TraceTypeOK
    <2> QED BY <1>1, <2>1, RecordFetch, RecordFinish
  <1>2. CASE MetricsArrive \/ StepsArrive \/ Favorite \/ UNCHANGED traceVars
    <2>1. /\ ui' = ui /\ script' = script /\ loads' = loads /\ panel' = panel
          /\ rowFaults' = rowFaults
      BY <1>2, Zenon DEF MetricsArrive, StepsArrive, Favorite, traceVars
    <2> QED BY <2>1 DEF RecordInv, RowsKnown, NoneMissed, ComparedWithAll, Rows, Shown,
                        ShownRow, Before
  <1> QED BY <1>1, <1>2, RecordTimeline, RecordSelect, Zenon DEF TraceNext

\* The first longest prefix among the rows before the shown one, by position.
LEMMA RecordShowsBest == RecordInv => BaselineBest
  <1> SUFFICES ASSUME RecordInv, Shown, ui = "desktop", rowFaults = 0
               PROVE  BaselineBest
    BY DEF BaselineBest, RecordInv, RowsKnown
  <1> DEFINE row == panel.show.row
             b == panel.show.baseline
             cur == MessagesOf(ShownRow)
             ids == PrevIds(row)
             n == Len(ids)
             near == ToSet(ids)
             Common(r) == CommonPrefixLength(cur, MessagesOf(script[r]))
             best == IF b = <<>> THEN 0 ELSE CommonPrefixLength(cur, MessagesOf(b[1]))
             s == Before(row)
             C(i) == CommonPrefixLength(cur, MessagesOf(s[i]))
  <1>1. script \in Seq(DetailOf) /\ row \in Rows /\ b = PickBaseline(cur, s)
    BY DEF RecordInv, RowsKnown, ComparedWithAll
  <1>2. row \in Nat \ {0} /\ row <= Len(script) /\ Len(script) \in Nat
    BY <1>1 DEF Rows
  <1>3. cur \in Seq(MessageOf)
    <2>1. ShownRow \in DetailOf
      BY <1>1 DEF ShownRow, Rows
    <2> QED BY <2>1, MessagesType
  <1>4. ids \in Seq(1..(row - 1)) /\ \A i \in 1..n : ids[i] = row - i
    BY <1>2, PrevIdsAre
  <1>5. /\ n \in Nat
        /\ \A i \in 1..n : ids[i] \in 1..(row - 1)
        /\ DOMAIN ids = 1..n
    <2> DEFINE X == 1..(row - 1)
    <2>1. ids \in Seq(X)
      BY <1>4
    <2> HIDE DEF ids, X
    <2>2. n \in Nat /\ DOMAIN ids = 1..n /\ \A i \in 1..n : ids[i] \in X
      BY <2>1
    <2> QED BY <2>2 DEF X
  <1>6. s = [i \in 1..n |-> script[ids[i]]]
    BY DEF Before
  <1>7. \A i \in 1..n : script[ids[i]] \in DetailOf
    BY <1>1, <1>2, <1>5
  <1>8. /\ near = {ids[i] : i \in 1..n}
    BY <1>5 DEF ToSet
  <1> HIDE DEF row, b, cur, ids, n, near, s
  <1>9. s \in Seq(DetailOf) /\ Len(s) = n /\ \A i \in 1..n : s[i] = script[ids[i]]
    BY <1>5, <1>6, <1>7
  <1>10. PICK v \in Choice : v.row = b /\ FoundAt(v, cur, s, n)
    BY <1>1, <1>3, <1>9, PickIsBest
  <1>11. \/ b = <<>> /\ \A j \in 1..n : C(j) = 0
         \/ \E i \in 1..n : /\ b = <<s[i]>> /\ C(i) > 0
                            /\ \A j \in 1..n : C(j) <= C(i)
                            /\ \A j \in 1..(i - 1) : C(j) < C(i)
    BY <1>10 DEF FoundAt
  <1>12. \A i \in 1..n : C(i) = Common(ids[i])
    BY <1>9
  <1>13. \A i \in 1..n : C(i) \in Nat
    <2> SUFFICES ASSUME NEW i \in 1..n PROVE C(i) \in Nat
      OBVIOUS
    <2>1. s[i] \in DetailOf
      BY <1>7, <1>9
    <2>2. MessagesOf(s[i]) \in Seq(MessageOf)
      BY <2>1, MessagesType
    <2> QED BY <1>3, <2>2, CommonPrefixIs
  <1>14. \A i \in 1..n : b = <<s[i]>> => b # <<>> /\ best = C(i)
    OBVIOUS
  <1>15. b = <<>> => best = 0
    OBVIOUS
  <1> HIDE DEF C, Common, best
  <1>16. /\ \A r \in near : Common(r) <= best
         /\ best = 0 <=> b = <<>>
         /\ best > 0 => \E r \in near :
              /\ b = <<script[r]>> /\ Common(r) = best
              /\ \A c \in near : c > r => Common(c) < best
    <2>1. CASE b = <<>> /\ \A j \in 1..n : C(j) = 0
      BY <1>8, <1>12, <1>15, <2>1
    <2>2. CASE \E i \in 1..n : /\ b = <<s[i]>> /\ C(i) > 0
                               /\ \A j \in 1..n : C(j) <= C(i)
                               /\ \A j \in 1..(i - 1) : C(j) < C(i)
      <3>1. PICK i \in 1..n : /\ b = <<s[i]>> /\ C(i) > 0
                              /\ \A j \in 1..n : C(j) <= C(i)
                              /\ \A j \in 1..(i - 1) : C(j) < C(i)
        BY <2>2
      <3>2. b # <<>> /\ best = C(i)
        BY <1>14, <3>1
      <3>3. \A r \in near : Common(r) <= best
        BY <1>8, <1>12, <3>1, <3>2
      <3>4. best > 0 /\ best # 0
        BY <1>13, <3>1, <3>2
      <3>5. ids[i] \in near /\ b = <<script[ids[i]]>> /\ Common(ids[i]) = best
        BY <1>8, <1>9, <1>12, <3>1, <3>2
      <3>6. ASSUME NEW c \in near, c > ids[i] PROVE Common(c) < best
        <4>1. PICK j \in 1..n : c = ids[j]
          BY <1>8
        <4>2. ids[j] = row - j /\ ids[i] = row - i
          BY <1>4
        <4>3. j \in 1..(i - 1)
          BY <1>2, <1>5, <3>6, <4>1, <4>2
        <4> QED BY <1>12, <3>1, <3>2, <4>1, <4>3
      <3> QED BY <3>2, <3>3, <3>4, <3>5, <3>6
    <2> QED BY <1>11, <2>1, <2>2
  <1> QED BY <1>16, Zenon DEF BaselineBest, Common, best, near, ids, b, cur, row

\* The sections and the opened messages of the shown row.
LEMMA RecordShowsAll == RecordInv => NothingHidden
  <1> SUFFICES ASSUME RecordInv, Shown
               PROVE  NothingHidden
    BY DEF NothingHidden
  <1> DEFINE d == ShownRow
             b == panel.show.baseline
             cur == MessagesOf(d)
  <1>1. d \in DetailOf /\ b \in Seq(DetailOf)
    BY DEF RecordInv, RowsKnown, ShownRow, Rows
  <1>2. LET parts == Analyze(d, b)
            prev == IF b = <<>> THEN <<>> ELSE MessagesOf(b[1])
        IN  /\ parts.carried \o parts.turn = Within(cur, OthersOf(cur))
            /\ Len(parts.system) + Len(parts.carried) + Len(parts.turn) = Len(cur)
            /\ \A m \in ToSet(parts.carried) :
                 \E p \in ToSet(prev) : p.role = m.role /\ p.content.parts = m.content.parts
    BY <1>1, AnalyzeParts
  <1>3. ASSUME NEW m \in ToSet(cur)
        PROVE  LET raw == ToSet(MessageNode(m, TRUE)) IN
                 /\ \A p \in ToSet(m.content.parts) :
                      IF p.type = "image_url" THEN "[image]" \in raw
                      ELSE ToSet(p.text) \subseteq raw
                 /\ \A c \in ToSet(m.calls) : ToSet(c) \subseteq raw
    <2>1. cur \in Seq(MessageOf)
      BY <1>1, MessagesType
    <2>2. m \in MessageOf
      <3> HIDE DEF cur
      <3> QED BY <2>1 DEF ToSet
    <2> QED BY <2>2, OpenShowsAll, Zenon
  <1> QED BY <1>2, <1>3, Zenon DEF NothingHidden, ShownParts

\* On the desktop, unless a row could not be fetched, the baseline of the shown row is
\* the closest of those among the Window rows before it that share the longest prefix
\* with it, and none when no row shares anything: whichever of them the cache had, and
\* however the answers of this and of earlier selections arrived (BaselineBest).
THEOREM BaselineIsBest == TraceSpec => []BaselineBest
  <1>1. TraceInv /\ RecordInv /\ [TraceNext]_traceVars => TraceInv' /\ RecordInv'
    BY TraceNextKeeps, RecordNext
  <1> QED BY <1>1, TraceInitHolds, RecordInit, RecordShowsBest, PTL DEF TraceSpec

\* For every recorded session: the sections of analyze hold every message of the shown
\* request once and in order, what is carried over stands in the baseline with the same
\* role and parts, and an opened message shows all of its parts and calls
\* (NothingHidden).
THEOREM RequestShownWhole == TraceSpec => []NothingHidden
  <1>1. TraceInv /\ RecordInv /\ [TraceNext]_traceVars => TraceInv' /\ RecordInv'
    BY TraceNextKeeps, RecordNext
  <1> QED BY <1>1, TraceInitHolds, RecordInit, RecordShowsAll, PTL DEF TraceSpec

-----------------------------------------------------------------------------
(* A streamed answer.                                                         *)
Chunk == {l \in LineOf : l.form = "chunk"}
CallRec == [id : STRING \cup {NoneId}, name : TextOf, args : TextOf]
CallMap == UNION {[D -> CallRec] : D \in SUBSET Nat}

\* What a chunk carries.
LEMMA ChunkFields ==
  ASSUME NEW c \in Chunk
  PROVE  c.content \in TextOf /\ c.calls \in Seq(DeltaOf)
  BY DEF Chunk, LineOf

\* Two texts joined are a text.
LEMMA TextJoin ==
  ASSUME NEW a \in TextOf, NEW b \in TextOf
  PROVE  a \o b \in TextOf
  BY DEF TextOf

\* One delta changes the call of its index and no other.
LEMMA MergeIs ==
  ASSUME NEW m \in CallMap, NEW tc \in DeltaOf
  PROVE  LET old == IF tc.index \in DOMAIN m THEN m[tc.index] ELSE NoCallYet
             new == MergeCall(m, tc)
         IN  /\ new \in CallMap
             /\ DOMAIN new = DOMAIN m \cup {tc.index}
             /\ \A i \in DOMAIN m : i # tc.index => new[i] = m[i]
             /\ new[tc.index].name = old.name \o tc.name
             /\ new[tc.index].args = old.args \o tc.args
  <1> DEFINE k == tc.index
             old == IF k \in DOMAIN m THEN m[k] ELSE NoCallYet
             x == [id |-> IF tc.id # NoneId THEN tc.id ELSE old.id,
                   name |-> old.name \o tc.name, args |-> old.args \o tc.args]
             new == [i \in DOMAIN m \cup {k} |-> IF i = k THEN x ELSE m[i]]
  <1>1. PICK D \in SUBSET Nat : m \in [D -> CallRec]
    BY DEF CallMap
  <1>2. k \in Nat /\ tc.id \in STRING /\ tc.name \in TextOf /\ tc.args \in TextOf
    BY DEF DeltaOf
  <1>3. NoCallYet \in CallRec
    <2>1. <<>> \in TextOf
      BY DEF TextOf
    <2> QED BY <2>1 DEF NoCallYet, CallRec
  <1>4. old \in CallRec
    BY <1>1, <1>3
  <1>5. MergeCall(m, tc) = new
    BY Zenon DEF MergeCall
  <1> HIDE DEF old
  <1>6. old.name \o tc.name \in TextOf /\ old.args \o tc.args \in TextOf
    <2>1. old.name \in TextOf /\ old.args \in TextOf
      BY <1>4 DEF CallRec
    <2> QED BY <1>2, <2>1, TextJoin
  <1>7. x \in CallRec /\ x.name = old.name \o tc.name /\ x.args = old.args \o tc.args
    <2> DEFINE nm == old.name \o tc.name
               ag == old.args \o tc.args
               id == IF tc.id # NoneId THEN tc.id ELSE old.id
    <2>1. nm \in TextOf /\ ag \in TextOf
      BY <1>6
    <2>2. id \in STRING \cup {NoneId}
      BY <1>2, <1>4 DEF CallRec
    <2>3. x = [id |-> id, name |-> nm, args |-> ag]
      OBVIOUS
    <2> HIDE DEF nm, ag, id, x
    <2>4. x \in CallRec /\ x.name = nm /\ x.args = ag
      BY <2>1, <2>2, <2>3 DEF CallRec
    <2> QED BY <2>4 DEF nm, ag
  <1> HIDE DEF x, k
  <1>8. new \in [D \cup {k} -> CallRec] /\ D \cup {k} \in SUBSET Nat
    BY <1>1, <1>2, <1>7 DEF k
  <1>9. new \in CallMap
    BY <1>8 DEF CallMap
  <1>10. /\ DOMAIN new = DOMAIN m \cup {k} /\ new[k] = x
         /\ \A i \in DOMAIN m : i # k => new[i] = m[i]
    OBVIOUS
  <1> HIDE DEF new
  <1> QED BY <1>5, <1>7, <1>9, <1>10 DEF old, k

MergeAll(m, ds) == FoldLeft(MergeCall, m, ds)
MergeRuns(h, m, ds) == h[0] = m /\ \A k \in 1..Len(ds) : h[k] = MergeCall(h[k - 1], ds[k])

\* The loop over delta.tool_calls, one delta after the other.
LEMMA MergeSteps ==
  ASSUME NEW m \in CallMap, NEW s \in Seq(DeltaOf)
  PROVE  \E h \in [0..Len(s) -> CallMap] : MergeRuns(h, m, s) /\ MergeAll(m, s) = h[Len(s)]
  <1> DEFINE n == Len(s)
             V == CallMap
             b == m
             Op(v, x) == MergeCall(v, x)
             G(it) == it = [u \in SUBSET DOMAIN s |->
                              IF u = {} THEN b ELSE Op(it[u \ {Max(u)}], s[Max(u)])]
             c == CHOOSE it : G(it)
             F == [p \in (1..n) \X V |-> Op(p[2], s[p[1]])]
  <1>1. MergeAll(m, s) = c[DOMAIN s]
    BY Zenon DEF MergeAll, FoldLeft, MapThenFoldSet
  <1>2. n \in Nat /\ DOMAIN s = 1..n /\ b \in V /\ \A k \in 1..n : s[k] \in DeltaOf
    OBVIOUS
  <1>3. ASSUME NEW k \in 1..n, NEW v \in V
        PROVE  F[<<k, v>>] \in V /\ F[<<k, v>>] = Op(v, s[k])
    <2>1. s[k] \in DeltaOf
      BY <1>2
    <2>5. Op(v, s[k]) \in V
      BY <2>1, MergeIs
    <2>6. F[<<k, v>>] = Op(v, s[k])
      <3> HIDE DEF n, V, Op
      <3> QED OBVIOUS
    <2> QED BY <2>5, <2>6
  <1> HIDE DEF F, n, V, Op, b
  <1>4. PICK g \in [SUBSET (1..n) -> V] : Folds(g, n, b, F)
    <2>1. Closed(F, n, V)
      BY <1>3 DEF Closed
    <2> QED BY <1>2, <2>1, FoldExists
  <1>5. G(g)
    <2>1. ASSUME NEW u \in SUBSET (1..n), u # {}
          PROVE  g[u] = Op(g[u \ {Max(u)}], s[Max(u)])
      <3>1. Max(u) \in 1..n /\ u \ {Max(u)} \in SUBSET (1..n)
        BY <1>2, <2>1, MaxRemoved
      <3>2. g[u] = F[<<Max(u), g[u \ {Max(u)}]>>]
        BY <1>4, <2>1 DEF Folds
      <3> QED BY <1>3, <3>1, <3>2
    <2>2. g[{}] = b
      BY <1>4 DEF Folds
    <2>3. g = [u \in SUBSET (1..n) |-> g[u]]
      OBVIOUS
    <2> QED BY <1>2, <2>1, <2>2, <2>3
  <1>6. G(c)
    <2> HIDE DEF G
    <2> QED BY <1>5
  <1> HIDE DEF c
  <1>7. c[{}] = b
    BY <1>6
  <1>8. ASSUME NEW u \in SUBSET (1..n), u # {}, c[u \ {Max(u)}] \in V
        PROVE  c[u] = F[<<Max(u), c[u \ {Max(u)}]>>]
    <2>1. Max(u) \in 1..n
      BY <1>2, <1>8, MaxRemoved
    <2>2. c[u] = Op(c[u \ {Max(u)}], s[Max(u)])
      BY <1>2, <1>6, <1>8
    <2> QED BY <1>3, <1>8, <2>1, <2>2
  <1>9. PICK h \in [0..n -> V] : Runs(h, n, b, F) /\ c[1..n] = h[n]
    <2>1. Closed(F, n, V)
      BY <1>3 DEF Closed
    <2>2. Obeys(c, n, V, F)
      BY <1>8 DEF Obeys
    <2>3. FoldLoop(c, n, b, V, F)
      BY <1>2, <1>7, <2>1, <2>2, Zenon DEF FoldLoop
    <2> HIDE DEF G
    <2> QED BY <2>3, FoldRuns
  <1>10. ASSUME NEW k \in 1..n PROVE h[k] = Op(h[k - 1], s[k])
    <2>1. k - 1 \in 0..n
      BY <1>2
    <2>2. h[k - 1] \in V
      BY <2>1
    <2> QED BY <1>3, <1>9, <2>2 DEF Runs
  <1>11. MergeAll(m, s) = h[n]
    BY <1>1, <1>2, <1>9
  <1>12. MergeRuns(h, m, s)
    <2>1. h[0] = b
      BY <1>9 DEF Runs
    <2> QED BY <1>10, <2>1, Zenon DEF MergeRuns, Op, b, n
  <1> QED BY <1>11, <1>12 DEF n, V

\* The calls put together are calls.
LEMMA MergeAllType ==
  ASSUME NEW m \in CallMap, NEW s \in Seq(DeltaOf)
  PROVE  MergeAll(m, s) \in CallMap
  <1>1. PICK h \in [0..Len(s) -> CallMap] : MergeAll(m, s) = h[Len(s)]
    BY MergeSteps
  <1>2. Len(s) \in 0..Len(s)
    OBVIOUS
  <1> QED BY <1>1, <1>2

Acc == [content : TextOf, calls : CallMap]
NoAcc == [content |-> <<>>, calls |-> [i \in {} |-> NoCallYet]]
Gather(v, x) == [content |-> v.content \o x.content, calls |-> MergeAll(v.calls, x.calls)]
GatherRuns(h, s) == h[0] = NoAcc /\ \A k \in 1..Len(s) : h[k] = Gather(h[k - 1], s[k])
GatherAll(s) == FoldLeft(Gather, NoAcc, s)

\* One chunk appends its text and merges its deltas.
LEMMA GatherType ==
  ASSUME NEW v \in Acc, NEW x \in Chunk
  PROVE  /\ Gather(v, x) \in Acc
         /\ Gather(v, x).content = v.content \o x.content
         /\ Gather(v, x).calls = MergeAll(v.calls, x.calls)
  <1> DEFINE t == v.content \o x.content
             m == MergeAll(v.calls, x.calls)
             y == [content |-> t, calls |-> m]
  <1>1. v.content \in TextOf /\ v.calls \in CallMap
    BY DEF Acc
  <1>2. x.content \in TextOf /\ x.calls \in Seq(DeltaOf)
    BY ChunkFields
  <1>3. t \in TextOf
    BY <1>1, <1>2, TextJoin
  <1>4. m \in CallMap
    BY <1>1, <1>2, MergeAllType
  <1>5. Gather(v, x) = y
    BY DEF Gather
  <1> HIDE DEF t, m
  <1>6. y \in Acc /\ y.content = t /\ y.calls = m
    BY <1>3, <1>4 DEF Acc
  <1> QED BY <1>5, <1>6 DEF t, m

\* Nothing is gathered before the first chunk.
LEMMA NoAccType == NoAcc \in Acc
  <1>1. <<>> \in TextOf
    BY DEF TextOf
  <1>2. [i \in {} |-> NoCallYet] \in [{} -> CallRec]
    OBVIOUS
  <1>3. [i \in {} |-> NoCallYet] \in CallMap
    BY <1>2 DEF CallMap
  <1> QED BY <1>1, <1>3 DEF NoAcc, Acc

\* reassembleSSE goes through the chunks once.
LEMMA GatherSteps ==
  ASSUME NEW s \in Seq(Chunk)
  PROVE  \E h \in [0..Len(s) -> Acc] : GatherRuns(h, s) /\ GatherAll(s) = h[Len(s)]
  <1> DEFINE n == Len(s)
             V == Acc
             b == NoAcc
             Op(v, x) == Gather(v, x)
             G(it) == it = [u \in SUBSET DOMAIN s |->
                              IF u = {} THEN b ELSE Op(it[u \ {Max(u)}], s[Max(u)])]
             c == CHOOSE it : G(it)
             F == [p \in (1..n) \X V |-> Op(p[2], s[p[1]])]
  <1>1. GatherAll(s) = c[DOMAIN s]
    BY Zenon DEF GatherAll, FoldLeft, MapThenFoldSet
  <1>2. n \in Nat /\ DOMAIN s = 1..n /\ b \in V /\ \A k \in 1..n : s[k] \in Chunk
    BY NoAccType
  <1>3. ASSUME NEW k \in 1..n, NEW v \in V
        PROVE  F[<<k, v>>] \in V /\ F[<<k, v>>] = Op(v, s[k])
    <2>1. s[k] \in Chunk
      BY <1>2
    <2>5. Op(v, s[k]) \in V
      BY <2>1, GatherType
    <2>6. F[<<k, v>>] = Op(v, s[k])
      <3> HIDE DEF n, V, Op
      <3> QED OBVIOUS
    <2> QED BY <2>5, <2>6
  <1> HIDE DEF F, n, V, Op, b
  <1>4. PICK g \in [SUBSET (1..n) -> V] : Folds(g, n, b, F)
    <2>1. Closed(F, n, V)
      BY <1>3 DEF Closed
    <2> QED BY <1>2, <2>1, FoldExists
  <1>5. G(g)
    <2>1. ASSUME NEW u \in SUBSET (1..n), u # {}
          PROVE  g[u] = Op(g[u \ {Max(u)}], s[Max(u)])
      <3>1. Max(u) \in 1..n /\ u \ {Max(u)} \in SUBSET (1..n)
        BY <1>2, <2>1, MaxRemoved
      <3>2. g[u] = F[<<Max(u), g[u \ {Max(u)}]>>]
        BY <1>4, <2>1 DEF Folds
      <3> QED BY <1>3, <3>1, <3>2
    <2>2. g[{}] = b
      BY <1>4 DEF Folds
    <2>3. g = [u \in SUBSET (1..n) |-> g[u]]
      OBVIOUS
    <2> QED BY <1>2, <2>1, <2>2, <2>3
  <1>6. G(c)
    <2> HIDE DEF G
    <2> QED BY <1>5
  <1> HIDE DEF c
  <1>7. c[{}] = b
    BY <1>6
  <1>8. ASSUME NEW u \in SUBSET (1..n), u # {}, c[u \ {Max(u)}] \in V
        PROVE  c[u] = F[<<Max(u), c[u \ {Max(u)}]>>]
    <2>1. Max(u) \in 1..n
      BY <1>2, <1>8, MaxRemoved
    <2>2. c[u] = Op(c[u \ {Max(u)}], s[Max(u)])
      BY <1>2, <1>6, <1>8
    <2> QED BY <1>3, <1>8, <2>1, <2>2
  <1>9. PICK h \in [0..n -> V] : Runs(h, n, b, F) /\ c[1..n] = h[n]
    <2>1. Closed(F, n, V)
      BY <1>3 DEF Closed
    <2>2. Obeys(c, n, V, F)
      BY <1>8 DEF Obeys
    <2>3. FoldLoop(c, n, b, V, F)
      BY <1>2, <1>7, <2>1, <2>2, Zenon DEF FoldLoop
    <2> HIDE DEF G
    <2> QED BY <2>3, FoldRuns
  <1>10. ASSUME NEW k \in 1..n PROVE h[k] = Op(h[k - 1], s[k])
    <2>1. k - 1 \in 0..n
      BY <1>2
    <2>2. h[k - 1] \in V
      BY <2>1
    <2> QED BY <1>3, <1>9, <2>2 DEF Runs
  <1>11. GatherAll(s) = h[n]
    BY <1>1, <1>2, <1>9
  <1>12. GatherRuns(h, s)
    <2>1. h[0] = b
      BY <1>9 DEF Runs
    <2> QED BY <1>10, <2>1, Zenon DEF GatherRuns, Op, b, n
  <1> QED BY <1>11, <1>12 DEF n, V


\* With a JSON frame there is one output: the text and the calls in index order.
LEMMA ReassembleIs ==
  ASSUME NEW lines, SawAny(lines)
  PROVE  ReassembleSSE(lines)
           = <<[text |-> GatherAll(Chunks(lines)).content,
                calls |-> ByIndex(GatherAll(Chunks(lines)).calls)]>>
  BY Zenon DEF ReassembleSSE, GatherAll, Gather, NoAcc, MergeAll

\* The pieces sent for one call.
AtIndex(k) == {tc \in DeltaOf : tc.index = k}

\* The deltas of one call, by a set that does not depend on the transcript.
LEMMA SentForIs ==
  ASSUME NEW sent \in Seq(DeltaOf), NEW k
  PROVE  SentFor(sent, k) = Within(sent, AtIndex(k)) /\ SentFor(sent, k) \in Seq(DeltaOf)
  <1> DEFINE S == {tc \in ToSet(sent) : tc.index = k}
             R == AtIndex(k)
  <1>1. \A i \in 1..Len(sent) : sent[i] \in ToSet(sent) /\ sent[i] \in DeltaOf
    BY DEF ToSet
  <1>2. \A i \in 1..Len(sent) : sent[i] \in S <=> sent[i] \in R
    BY <1>1 DEF AtIndex
  <1>3. SentFor(sent, k) = Within(sent, S)
    BY DEF SentFor
  <1> HIDE DEF S, R
  <1>4. Within(sent, S) = Within(sent, R)
    BY <1>2, WithinSame
  <1>5. Within(sent, R) \in Seq(DeltaOf)
    BY WithinType
  <1> QED BY <1>3, <1>4, <1>5 DEF R

\* One more delta belongs to the call of its index.
LEMMA SentForAppend ==
  ASSUME NEW sent \in Seq(DeltaOf), NEW tc \in DeltaOf, NEW k
  PROVE  SentFor(Append(sent, tc), k)
           = IF tc.index = k THEN Append(SentFor(sent, k), tc) ELSE SentFor(sent, k)
  <1> DEFINE s == Append(sent, tc)
             R == AtIndex(k)
  <1>1. s \in Seq(DeltaOf)
    OBVIOUS
  <1>2. SentFor(s, k) = Within(s, R)
    <2> HIDE DEF s
    <2> QED BY <1>1, SentForIs
  <1>3. SentFor(sent, k) = Within(sent, R)
    BY SentForIs
  <1>4. tc \in R <=> tc.index = k
    BY DEF AtIndex
  <1> HIDE DEF R
  <1>5. Within(s, R) = IF tc \in R THEN Append(Within(sent, R), tc) ELSE Within(sent, R)
    BY WithinAppend
  <1> QED BY <1>2, <1>3, <1>4, <1>5

\* An index nobody sent has no deltas.
LEMMA SentForNone ==
  ASSUME NEW sent \in Seq(DeltaOf), NEW k, \A tc \in ToSet(sent) : tc.index # k
  PROVE  SentFor(sent, k) = <<>>
  <1> DEFINE S == {tc \in ToSet(sent) : tc.index = k}
  <1>1. S = {}
    OBVIOUS
  <1>2. SentFor(sent, k) = Within(sent, S)
    BY DEF SentFor
  <1> HIDE DEF S
  <1>3. Within(sent, S) \in Seq(ToSet(sent) \cap S)
    BY WithinOnly
  <1>4. Within(sent, S) \in Seq({})
    BY <1>1, <1>3
  <1> DEFINE w == Within(sent, S)
  <1>5. w \in Seq({})
    BY <1>4
  <1> HIDE DEF w
  <1>6. w = <<>>
    BY <1>5
  <1> QED BY <1>2, <1>6 DEF w

Names(ds) == FlattenSeq([i \in 1..Len(ds) |-> ds[i].name])
Args(ds) == FlattenSeq([i \in 1..Len(ds) |-> ds[i].args])

\* Nothing flattened is nothing.
LEMMA FlattenNothing ==
  ASSUME NEW ss, ss = <<>>
  PROVE  FlattenSeq(ss) = <<>>
  BY DEF FlattenSeq

\* No deltas have no name and no arguments.
LEMMA PiecesOfNone == Names(<<>>) = <<>> /\ Args(<<>>) = <<>>
  <1>1. [i \in 1..Len(<<>>) |-> <<>>[i].name] = <<>>
    OBVIOUS
  <1>2. [i \in 1..Len(<<>>) |-> <<>>[i].args] = <<>>
    OBVIOUS
  <1>3. Names(<<>>) = <<>>
    BY <1>1, FlattenNothing, Zenon DEF Names
  <1>4. Args(<<>>) = <<>>
    BY <1>2, FlattenNothing, Zenon DEF Args
  <1> QED BY <1>3, <1>4

\* The name grows by the piece of the delta.
LEMMA NamesAppend ==
  ASSUME NEW ds \in Seq(DeltaOf), NEW tc \in DeltaOf
  PROVE  Names(Append(ds, tc)) = Names(ds) \o tc.name
  <1> DEFINE n == Len(ds)
             e == Append(ds, tc)
             a == [i \in 1..n |-> ds[i].name]
             b == [i \in 1..Len(e) |-> e[i].name]
             t == tc.name
  <1>1. /\ n \in Nat /\ Len(e) = n + 1 /\ e[n + 1] = tc
        /\ \A i \in 1..n : e[i] = ds[i] /\ ds[i] \in DeltaOf
    OBVIOUS
  <1>2. t \in TextOf
    BY DEF DeltaOf
  <1>3. \A i \in 1..n : ds[i].name \in TextOf
    BY <1>1 DEF DeltaOf
  <1> HIDE DEF e, n
  <1>4. a \in Seq(TextOf) /\ Len(a) = n /\ \A i \in 1..n : a[i] = ds[i].name
    BY <1>1, <1>3
  <1>5. b = Append(a, t)
    <2> DEFINE c == Append(a, t)
    <2>1. \A i \in 1..(n + 1) : e[i].name \in TextOf
      <3> SUFFICES ASSUME NEW i \in 1..(n + 1) PROVE e[i].name \in TextOf
        OBVIOUS
      <3>1. i \in 1..n \/ i = n + 1
        BY <1>1
      <3> QED BY <1>1, <1>2, <1>3, <3>1
    <2>2. b \in Seq(TextOf) /\ Len(b) = n + 1 /\ \A i \in 1..(n + 1) : b[i] = e[i].name
      BY <1>1, <2>1
    <2> HIDE DEF a, b, t
    <2>3. /\ c \in Seq(TextOf) /\ Len(c) = n + 1 /\ c[n + 1] = t
          /\ \A i \in 1..n : c[i] = a[i]
      BY <1>1, <1>2, <1>4
    <2> HIDE DEF c
    <2>4. ASSUME NEW i \in 1..(n + 1) PROVE b[i] = c[i]
      <3>1. i \in 1..n \/ i = n + 1
        BY <1>1
      <3>2. CASE i \in 1..n
        BY <1>1, <1>4, <2>2, <2>3, <3>2
      <3>3. CASE i = n + 1
        BY <1>1, <2>2, <2>3, <3>3 DEF t
      <3> QED BY <3>1, <3>2, <3>3
    <2>5. b = c
      BY <2>2, <2>3, <2>4
    <2> QED BY <2>5 DEF c
  <1>6. Names(e) = FlattenSeq(b) /\ Names(ds) = FlattenSeq(a)
    BY DEF Names, n
  <1> HIDE DEF a, b, t
  <1>7. FlattenSeq(Append(a, t)) = FlattenSeq(a) \o t
    BY <1>2, <1>4, FlattenAppend DEF TextOf
  <1> QED BY <1>5, <1>6, <1>7 DEF e, t

\* The arguments grow by the piece of the delta.
LEMMA ArgsAppend ==
  ASSUME NEW ds \in Seq(DeltaOf), NEW tc \in DeltaOf
  PROVE  Args(Append(ds, tc)) = Args(ds) \o tc.args
  <1> DEFINE n == Len(ds)
             e == Append(ds, tc)
             a == [i \in 1..n |-> ds[i].args]
             b == [i \in 1..Len(e) |-> e[i].args]
             t == tc.args
  <1>1. /\ n \in Nat /\ Len(e) = n + 1 /\ e[n + 1] = tc
        /\ \A i \in 1..n : e[i] = ds[i] /\ ds[i] \in DeltaOf
    OBVIOUS
  <1>2. t \in TextOf
    BY DEF DeltaOf
  <1>3. \A i \in 1..n : ds[i].args \in TextOf
    BY <1>1 DEF DeltaOf
  <1> HIDE DEF e, n
  <1>4. a \in Seq(TextOf) /\ Len(a) = n /\ \A i \in 1..n : a[i] = ds[i].args
    BY <1>1, <1>3
  <1>5. b = Append(a, t)
    <2> DEFINE c == Append(a, t)
    <2>1. \A i \in 1..(n + 1) : e[i].args \in TextOf
      <3> SUFFICES ASSUME NEW i \in 1..(n + 1) PROVE e[i].args \in TextOf
        OBVIOUS
      <3>1. i \in 1..n \/ i = n + 1
        BY <1>1
      <3> QED BY <1>1, <1>2, <1>3, <3>1
    <2>2. b \in Seq(TextOf) /\ Len(b) = n + 1 /\ \A i \in 1..(n + 1) : b[i] = e[i].args
      BY <1>1, <2>1
    <2> HIDE DEF a, b, t
    <2>3. /\ c \in Seq(TextOf) /\ Len(c) = n + 1 /\ c[n + 1] = t
          /\ \A i \in 1..n : c[i] = a[i]
      BY <1>1, <1>2, <1>4
    <2> HIDE DEF c
    <2>4. ASSUME NEW i \in 1..(n + 1) PROVE b[i] = c[i]
      <3>1. i \in 1..n \/ i = n + 1
        BY <1>1
      <3>2. CASE i \in 1..n
        BY <1>1, <1>4, <2>2, <2>3, <3>2
      <3>3. CASE i = n + 1
        BY <1>1, <2>2, <2>3, <3>3 DEF t
      <3> QED BY <3>1, <3>2, <3>3
    <2>5. b = c
      BY <2>2, <2>3, <2>4
    <2> QED BY <2>5 DEF c
  <1>6. Args(e) = FlattenSeq(b) /\ Args(ds) = FlattenSeq(a)
    BY DEF Args, n
  <1> HIDE DEF a, b, t
  <1>7. FlattenSeq(Append(a, t)) = FlattenSeq(a) \o t
    BY <1>2, <1>4, FlattenAppend DEF TextOf
  <1> QED BY <1>5, <1>6, <1>7 DEF e, t

\* The calls put together so far are those of the deltas read so far.
Gathers(m, sent) ==
  /\ DOMAIN m = {tc.index : tc \in ToSet(sent)}
  /\ \A i \in DOMAIN m : /\ m[i].name = Names(SentFor(sent, i))
                         /\ m[i].args = Args(SentFor(sent, i))

\* One delta.
LEMMA GathersOne ==
  ASSUME NEW m \in CallMap, NEW sent \in Seq(DeltaOf), NEW tc \in DeltaOf, Gathers(m, sent)
  PROVE  Gathers(MergeCall(m, tc), Append(sent, tc))
  <1> DEFINE s == Append(sent, tc)
             new == MergeCall(m, tc)
             k == tc.index
             old == IF k \in DOMAIN m THEN m[k] ELSE NoCallYet
  <1>1. /\ DOMAIN new = DOMAIN m \cup {k}
        /\ \A i \in DOMAIN m : i # k => new[i] = m[i]
        /\ new[k].name = old.name \o tc.name
        /\ new[k].args = old.args \o tc.args
    BY MergeIs
  <1>2. ToSet(s) = ToSet(sent) \cup {tc}
    <2> DEFINE n == Len(sent)
    <2>1. /\ n \in Nat /\ DOMAIN s = 1..(n + 1) /\ DOMAIN sent = 1..n /\ s[n + 1] = tc
          /\ \A i \in 1..n : s[i] = sent[i]
      OBVIOUS
    <2> HIDE DEF s, n
    <2>2. \A i \in 1..(n + 1) : i \in 1..n \/ i = n + 1
      BY <2>1
    <2>3. n + 1 \in 1..(n + 1) /\ \A i \in 1..n : i \in 1..(n + 1)
      BY <2>1
    <2>4. ToSet(s) = {s[i] : i \in 1..(n + 1)} /\ ToSet(sent) = {sent[i] : i \in 1..n}
      BY <2>1 DEF ToSet
    <2>5. ASSUME NEW x PROVE x \in ToSet(s) <=> x \in ToSet(sent) \cup {tc}
      BY <2>1, <2>2, <2>3, <2>4
    <2> QED BY <2>5
  <1>3. \A i : SentFor(s, i) = IF k = i THEN Append(SentFor(sent, i), tc) ELSE SentFor(sent, i)
    BY SentForAppend
  <1>4. \A i : SentFor(sent, i) \in Seq(DeltaOf)
    BY SentForIs
  <1>5. /\ DOMAIN m = {x.index : x \in ToSet(sent)}
        /\ \A i \in DOMAIN m : /\ m[i].name = Names(SentFor(sent, i))
                               /\ m[i].args = Args(SentFor(sent, i))
    BY DEF Gathers
  <1> HIDE DEF new, s
  <1>6. DOMAIN new = {x.index : x \in ToSet(s)}
    <2>1. ASSUME NEW i PROVE i \in DOMAIN new <=> i \in {x.index : x \in ToSet(s)}
      BY <1>1, <1>2, <1>5
    <2> QED BY <2>1
  <1>7. old.name = Names(SentFor(sent, k)) /\ old.args = Args(SentFor(sent, k))
    <2>1. CASE k \in DOMAIN m
      BY <1>5, <2>1
    <2>2. CASE k \notin DOMAIN m
      <3>1. \A x \in ToSet(sent) : x.index # k
        BY <1>5, <2>2
      <3>2. SentFor(sent, k) = <<>>
        BY <3>1, SentForNone
      <3>3. old.name = <<>> /\ old.args = <<>>
        BY <2>2 DEF NoCallYet
      <3> QED BY <3>2, <3>3, PiecesOfNone
    <2> QED BY <2>1, <2>2
  <1> HIDE DEF old
  <1>8. new[k].name = Names(SentFor(s, k)) /\ new[k].args = Args(SentFor(s, k))
    <2> DEFINE ds == SentFor(sent, k)
    <2>1. ds \in Seq(DeltaOf) /\ SentFor(s, k) = Append(ds, tc)
      BY <1>3, <1>4
    <2> HIDE DEF ds
    <2>2. /\ Names(Append(ds, tc)) = Names(ds) \o tc.name
          /\ Args(Append(ds, tc)) = Args(ds) \o tc.args
      BY <2>1, NamesAppend, ArgsAppend
    <2>3. old.name = Names(ds) /\ old.args = Args(ds)
      BY <1>7 DEF ds
    <2> QED BY <1>1, <2>1, <2>2, <2>3
  <1>9. ASSUME NEW i \in DOMAIN new
        PROVE  new[i].name = Names(SentFor(s, i)) /\ new[i].args = Args(SentFor(s, i))
    <2>1. CASE i = k
      BY <1>8, <2>1
    <2>2. CASE i # k
      <3>1. i \in DOMAIN m /\ new[i] = m[i] /\ SentFor(s, i) = SentFor(sent, i)
        BY <1>1, <1>3, <2>2
      <3> QED BY <1>5, <3>1
    <2> QED BY <2>1, <2>2
  <1> QED BY <1>6, <1>9 DEF Gathers, new, s

\* The deltas of one chunk.
LEMMA GathersMore ==
  ASSUME NEW m \in CallMap, NEW sent \in Seq(DeltaOf), NEW ds \in Seq(DeltaOf),
         Gathers(m, sent)
  PROVE  Gathers(MergeAll(m, ds), sent \o ds)
  <1> DEFINE n == Len(ds)
             P(k) == SubSeq(ds, 1, k)
  <1>0. n \in Nat
    OBVIOUS
  <1>1. PICK h \in [0..n -> CallMap] : MergeRuns(h, m, ds) /\ MergeAll(m, ds) = h[n]
    BY MergeSteps
  <1>2. \A k \in 0..n : P(k) \in Seq(DeltaOf)
    BY PrefixAndRest
  <1>3. \A k \in 1..n : P(k) = Append(P(k - 1), ds[k]) /\ ds[k] \in DeltaOf
    <2> SUFFICES ASSUME NEW k \in 1..n
                 PROVE  P(k) = Append(P(k - 1), ds[k]) /\ ds[k] \in DeltaOf
      OBVIOUS
    <2> DEFINE p == P(k)
               q == P(k - 1)
    <2>1. k \in 0..n /\ k - 1 \in 0..n /\ ds[k] \in DeltaOf
      BY <1>0
    <2>2. /\ p \in Seq(DeltaOf) /\ Len(p) = k /\ \A i \in 1..k : p[i] = ds[i]
          /\ q \in Seq(DeltaOf) /\ Len(q) = k - 1 /\ \A i \in 1..(k - 1) : q[i] = ds[i]
      BY <2>1, PrefixAndRest
    <2> HIDE DEF p, q
    <2> DEFINE c == Append(q, ds[k])
    <2>3. /\ c \in Seq(DeltaOf) /\ Len(c) = k /\ \A i \in 1..(k - 1) : c[i] = q[i]
          /\ c[k] = ds[k]
      BY <2>1, <2>2
    <2> HIDE DEF c
    <2>4. ASSUME NEW i \in 1..k PROVE p[i] = c[i]
      <3>1. i \in 1..(k - 1) \/ i = k
        BY <1>0
      <3> QED BY <2>2, <2>3, <3>1
    <2>5. p = c
      BY <2>2, <2>3, <2>4
    <2> QED BY <2>1, <2>5 DEF p, q, c
  <1>4. P(0) = <<>> /\ P(n) = ds
    <2>1. P(0) \in Seq(DeltaOf) /\ Len(P(0)) = 0
      BY <1>0, PrefixAndRest
    <2>2. P(n) \in Seq(DeltaOf) /\ Len(P(n)) = n /\ \A i \in 1..n : P(n)[i] = ds[i]
      BY <1>0, PrefixAndRest
    <2>3. P(0) = <<>>
      BY <2>1
    <2> DEFINE p == P(n)
    <2>4. p \in Seq(DeltaOf) /\ Len(p) = n /\ \A i \in 1..n : p[i] = ds[i]
      BY <2>2
    <2> HIDE DEF p
    <2>5. p = ds
      BY <2>4
    <2> QED BY <2>3, <2>5 DEF p
  <1> HIDE DEF P
  <1> DEFINE T == {k \in 0..n : Gathers(h[k], sent \o P(k))}
  <1>5. 0 \in T
    <2>1. sent \o P(0) = sent
      BY <1>4
    <2>2. h[0] = m
      BY <1>1 DEF MergeRuns
    <2>3. Gathers(h[0], sent \o P(0))
      BY <2>1, <2>2, Zenon
    <2> QED BY <1>0, <2>3
  <1>6. ASSUME NEW k \in 1..n, k - 1 \in T PROVE k \in T
    <2>1. Gathers(h[k - 1], sent \o P(k - 1))
      BY <1>6
    <2>2. k - 1 \in 0..n /\ k \in 0..n
      BY <1>0
    <2>3. h[k - 1] \in CallMap /\ P(k - 1) \in Seq(DeltaOf) /\ ds[k] \in DeltaOf
      BY <1>2, <1>3, <2>2
    <2> DEFINE s == sent \o P(k - 1)
    <2>4. s \in Seq(DeltaOf)
      BY <2>3
    <2>5. sent \o P(k) = Append(s, ds[k])
      <3>1. LastMoves(sent, P(k - 1), ds[k])
        BY <2>3, AppendLast
      <3>2. P(k) = Append(P(k - 1), ds[k])
        BY <1>3
      <3> QED BY <3>1, <3>2, Zenon DEF LastMoves
    <2>6. h[k] = MergeCall(h[k - 1], ds[k])
      BY <1>1 DEF MergeRuns
    <2> HIDE DEF s
    <2>7. Gathers(h[k - 1], s)
      BY <2>1 DEF s
    <2>8. Gathers(MergeCall(h[k - 1], ds[k]), Append(s, ds[k]))
      BY <2>3, <2>4, <2>7, GathersOne
    <2>9. Gathers(h[k], sent \o P(k))
      BY <2>5, <2>6, <2>8, Zenon
    <2> QED BY <2>2, <2>9, Zenon
  <1>7. \A k \in 0..n : k \in T
    <2> HIDE DEF T
    <2> QED BY <1>0, <1>5, <1>6, UpTo
  <1>8. n \in 0..n
    BY <1>0
  <1>9. Gathers(h[n], sent \o P(n))
    BY <1>7, <1>8
  <1> QED BY <1>1, <1>4, <1>9, Zenon

\* A whole transcript: the text is that of the chunks, the calls those of their deltas.
LEMMA GatherAllIs ==
  ASSUME NEW s \in Seq(Chunk)
  PROVE  /\ GatherAll(s) \in Acc /\ Sent(s) \in Seq(DeltaOf)
         /\ GatherAll(s).content = FlattenSeq([i \in 1..Len(s) |-> s[i].content])
         /\ Gathers(GatherAll(s).calls, Sent(s))
  <1> DEFINE n == Len(s)
             a == [i \in 1..n |-> s[i].content]
             b == [i \in 1..n |-> s[i].calls]
  <1>1. n \in Nat /\ \A i \in 1..n : s[i] \in Chunk
    OBVIOUS
  <1>2. \A i \in 1..n : s[i].content \in TextOf /\ s[i].calls \in Seq(DeltaOf)
    BY <1>1, ChunkFields
  <1>3. PICK h \in [0..n -> Acc] : GatherRuns(h, s) /\ GatherAll(s) = h[n]
    BY GatherSteps
  <1> DEFINE Y == Seq(DeltaOf)
  <1>4. a \in Seq(TextOf) /\ Len(a) = n /\ \A i \in 1..n : a[i] = s[i].content
    BY <1>1, <1>2
  <1>5. b \in Seq(Y) /\ Len(b) = n /\ \A i \in 1..n : b[i] = s[i].calls
    <2>1. \A i \in 1..n : s[i].calls \in Y
      BY <1>2
    <2> HIDE DEF Y, n
    <2> QED BY <1>1, <2>1
  <1>6. Sent(s) = FlattenSeq(b)
    BY DEF Sent
  <1> HIDE DEF n, a, b
  <1>7. PICK f \in [0..n -> TextOf] : FlattenRuns(f, a) /\ FlattenSeq(a) = f[n]
    <2>1. a \in Seq(Seq(STRING))
      BY <1>4 DEF TextOf
    <2>2. PICK f \in [0..Len(a) -> Seq(STRING)] : FlattenRuns(f, a) /\ FlattenSeq(a) = f[Len(a)]
      BY <2>1, FlattenSteps
    <2> QED BY <1>4, <2>2, Zenon DEF TextOf
  <1>8. PICK g \in [0..n -> Y] : FlattenRuns(g, b) /\ FlattenSeq(b) = g[n]
    <2>1. PICK g \in [0..Len(b) -> Y] : FlattenRuns(g, b) /\ FlattenSeq(b) = g[Len(b)]
      BY <1>5, FlattenSteps
    <2> QED BY <1>5, <2>1, Zenon
  <1> HIDE DEF Y
  <1>9. ASSUME NEW k \in 1..n
        PROVE  /\ h[k] = Gather(h[k - 1], s[k])
               /\ f[k] = f[k - 1] \o s[k].content
               /\ g[k] = g[k - 1] \o s[k].calls
    <2>1. k \in 1..Len(s) /\ k \in 1..Len(a) /\ k \in 1..Len(b)
      BY <1>4, <1>5 DEF n
    <2>2. h[k] = Gather(h[k - 1], s[k])
      BY <1>3, <2>1 DEF GatherRuns
    <2>3. f[k] = f[k - 1] \o s[k].content
      <3>1. f[k] = f[k - 1] \o a[k]
        BY <1>7, <2>1 DEF FlattenRuns
      <3> QED BY <1>4, <3>1, Zenon
    <2>4. g[k] = g[k - 1] \o s[k].calls
      <3>1. g[k] = g[k - 1] \o b[k]
        BY <1>8, <2>1 DEF FlattenRuns
      <3> QED BY <1>5, <3>1, Zenon
    <2> QED BY <2>2, <2>3, <2>4
  <1> DEFINE T == {k \in 0..n : h[k].content = f[k] /\ Gathers(h[k].calls, g[k])}
  <1>10. 0 \in T
    <2>1. h[0] = NoAcc /\ f[0] = <<>> /\ g[0] = <<>>
      BY <1>3, <1>7, <1>8 DEF GatherRuns, FlattenRuns
    <2>2. NoAcc.content = <<>> /\ NoAcc.calls = [i \in {} |-> NoCallYet]
      BY DEF NoAcc
    <2>3. Gathers([i \in {} |-> NoCallYet], <<>>)
      BY DEF Gathers, ToSet
    <2>4. h[0].content = f[0] /\ Gathers(h[0].calls, g[0])
      BY <2>1, <2>2, <2>3, Zenon
    <2> QED BY <1>1, <2>4
  <1>11. ASSUME NEW k \in 1..n, k - 1 \in T PROVE k \in T
    <2>1. h[k - 1].content = f[k - 1] /\ Gathers(h[k - 1].calls, g[k - 1])
      BY <1>11
    <2>2. k - 1 \in 0..n /\ k \in 0..n
      BY <1>1
    <2>3. h[k - 1] \in Acc /\ g[k - 1] \in Seq(DeltaOf) /\ s[k] \in Chunk
      BY <1>1, <2>2 DEF Y
    <2>4. /\ h[k].content = h[k - 1].content \o s[k].content
          /\ h[k].calls = MergeAll(h[k - 1].calls, s[k].calls)
      <3>1. h[k] = Gather(h[k - 1], s[k])
        BY <1>9
      <3>2. /\ Gather(h[k - 1], s[k]).content = h[k - 1].content \o s[k].content
            /\ Gather(h[k - 1], s[k]).calls = MergeAll(h[k - 1].calls, s[k].calls)
        BY <2>3, GatherType
      <3> QED BY <3>1, <3>2, Zenon
    <2>5. h[k].content = f[k]
      BY <1>9, <2>1, <2>4, Zenon
    <2>6. h[k - 1].calls \in CallMap
      BY <2>3 DEF Acc
    <2>7. s[k].calls \in Seq(DeltaOf)
      BY <2>3, ChunkFields
    <2>8. Gathers(MergeAll(h[k - 1].calls, s[k].calls), g[k - 1] \o s[k].calls)
      <3> DEFINE m == h[k - 1].calls
                 sent == g[k - 1]
                 ds == s[k].calls
      <3>1. m \in CallMap /\ sent \in Seq(DeltaOf) /\ ds \in Seq(DeltaOf) /\ Gathers(m, sent)
        BY <2>1, <2>3, <2>6, <2>7
      <3> HIDE DEF m, sent, ds
      <3>2. Gathers(MergeAll(m, ds), sent \o ds)
        BY <3>1, GathersMore
      <3> QED BY <3>2 DEF m, sent, ds
    <2>9. Gathers(h[k].calls, g[k])
      BY <1>9, <2>4, <2>8, Zenon
    <2> QED BY <2>2, <2>5, <2>9, Zenon
  <1>12. \A k \in 0..n : k \in T
    <2> HIDE DEF T
    <2> QED BY <1>1, <1>10, <1>11, UpTo
  <1>13. n \in 0..n
    BY <1>1
  <1>14. h[n] \in Acc /\ g[n] \in Seq(DeltaOf)
    BY <1>13 DEF Y
  <1>15. h[n].content = f[n] /\ Gathers(h[n].calls, g[n])
    BY <1>12, <1>13
  <1>16. FlattenSeq(a) = FlattenSeq([i \in 1..Len(s) |-> s[i].content])
    BY DEF a, n
  <1> QED BY <1>3, <1>6, <1>7, <1>8, <1>14, <1>15, <1>16, Zenon

-----------------------------------------------------------------------------
(* The order of the calls.                                                    *)
InOrder(s, S) == \A i, j \in 1..Cardinality(S) : i < j => s[i] < s[j]

\* Numbers below N can be put in order.
LEMMA SortedExists ==
  ASSUME NEW N \in Nat, NEW S \in SUBSET (0..(N - 1))
  PROVE  /\ Cardinality(S) \in Nat
         /\ \E s \in [1..Cardinality(S) -> S] : InOrder(s, S)
  <1> DEFINE Can(R) == \E s \in [1..Cardinality(R) -> R] : InOrder(s, R)
             T == {k \in 0..N : \A R \in SUBSET (0..(k - 1)) : Can(R)}
  <1>1. \A k \in 0..N : \A R \in SUBSET (0..(k - 1)) : IsFiniteSet(R) /\ Cardinality(R) \in Nat
    <2> SUFFICES ASSUME NEW k \in 0..N, NEW R \in SUBSET (0..(k - 1))
                 PROVE  IsFiniteSet(R) /\ Cardinality(R) \in Nat
      OBVIOUS
    <2>1. IsFiniteSet(0..(k - 1))
      <3>1. 0 \in Int /\ k - 1 \in Int
        OBVIOUS
      <3> QED BY <3>1, FS_Interval
    <2>2. IsFiniteSet(R)
      BY <2>1, FS_Subset
    <2> QED BY <2>2, FS_CardinalityType
  <1>2. 0 \in T
    <2>1. ASSUME NEW R \in SUBSET (0..(0 - 1)) PROVE Can(R)
      <3>1. R = {}
        OBVIOUS
      <3>2. Cardinality(R) = 0
        BY <3>1, FS_EmptySet
      <3>3. <<>> \in [1..0 -> R] /\ 1..0 = {}
        OBVIOUS
      <3>4. InOrder(<<>>, R)
        BY <3>2, <3>3 DEF InOrder
      <3> QED BY <3>2, <3>3, <3>4
    <2> HIDE DEF Can
    <2> QED BY <2>1
  <1>3. ASSUME NEW k \in 1..N, k - 1 \in T PROVE k \in T
    <2>1. ASSUME NEW R \in SUBSET (0..(k - 1)) PROVE Can(R)
      <3> DEFINE Q == R \ {k - 1}
                 q == Cardinality(Q)
      <3>1. Q \in SUBSET (0..((k - 1) - 1)) /\ k - 1 \in 0..N /\ k \in 0..N
        OBVIOUS
      <3>2. PICK s \in [1..q -> Q] : InOrder(s, Q)
        BY <1>3, <3>1
      <3>3. q \in Nat /\ IsFiniteSet(R)
        BY <1>1, <3>1
      <3>4. CASE k - 1 \notin R
        <4>1. Q = R
          BY <3>4
        <4> QED BY <3>2, <4>1
      <3>5. CASE k - 1 \in R
        <4>1. Cardinality(R) \in Nat /\ q = Cardinality(R) - 1
          BY <1>1, <3>1, <3>3, <3>5, FS_RemoveElement
        <4>2. Cardinality(R) = q + 1
          BY <4>1
        <4> HIDE DEF q
        <4> DEFINE t == [i \in 1..(q + 1) |-> IF i = q + 1 THEN k - 1 ELSE s[i]]
        <4>3. \A i \in 1..q : s[i] \in R /\ s[i] \in Nat /\ s[i] < k - 1
          <5>1. \A i \in 1..q : s[i] \in Q
            OBVIOUS
          <5>2. \A x \in Q : x \in R /\ x \in Nat /\ x < k - 1
            BY <3>1
          <5> QED BY <5>1, <5>2
        <4>4. \A i \in 1..(q + 1) : i \in 1..q \/ i = q + 1
          BY <3>3
        <4>5. t \in [1..(q + 1) -> R]
          BY <3>5, <4>3, <4>4
        <4>6. ASSUME NEW i \in 1..(q + 1), NEW j \in 1..(q + 1), i < j PROVE t[i] < t[j]
          <5>1. i \in 1..q /\ i # q + 1
            BY <3>3, <4>6
          <5>2. t[i] = s[i]
            BY <5>1
          <5>3. CASE j = q + 1
            BY <4>3, <5>1, <5>2, <5>3
          <5>4. CASE j # q + 1
            <6>1. j \in 1..q /\ t[j] = s[j]
              BY <4>4, <5>4
            <6> QED BY <3>2, <4>6, <5>1, <5>2, <6>1 DEF InOrder, q
          <5> QED BY <5>3, <5>4
        <4> HIDE DEF t
        <4>7. InOrder(t, R)
          BY <4>2, <4>6 DEF InOrder
        <4> QED BY <4>2, <4>5, <4>7
      <3> QED BY <3>4, <3>5
    <2>2. k \in 0..N
      OBVIOUS
    <2> HIDE DEF Can
    <2> QED BY <2>1, <2>2
  <1>4. \A k \in 0..N : k \in T
    <2> HIDE DEF T
    <2> QED BY <1>2, <1>3, UpTo
  <1>5. N \in 0..N
    OBVIOUS
  <1>6. Can(S)
    <2> HIDE DEF Can
    <2> QED BY <1>4, <1>5
  <1> QED BY <1>1, <1>5, <1>6

\* The order is a sequence of them.
LEMMA AscendingIs ==
  ASSUME NEW N \in Nat, NEW S \in SUBSET (0..(N - 1))
  PROVE  Ascending(S) \in Seq(S)
  <1> DEFINE c == Cardinality(S)
             a == CHOOSE s \in [1..c -> S] : InOrder(s, S)
  <1>1. c \in Nat /\ \E s \in [1..c -> S] : InOrder(s, S)
    BY SortedExists
  <1>2. Ascending(S) = a
    BY Zenon DEF Ascending, InOrder
  <1> HIDE DEF c
  <1>3. a \in [1..c -> S]
    BY <1>1
  <1> HIDE DEF a
  <1> QED BY <1>1, <1>2, <1>3

\* The indexes of the deltas are bounded.
LEMMA IndexesBounded ==
  ASSUME NEW sent \in Seq(DeltaOf)
  PROVE  \E N \in Nat : {tc.index : tc \in ToSet(sent)} \in SUBSET (0..(N - 1))
  <1> DEFINE n == Len(sent)
             T == {k \in 0..n : \E N \in Nat : \A i \in 1..k : sent[i].index < N}
  <1>1. n \in Nat /\ DOMAIN sent = 1..n /\ \A i \in 1..n : sent[i] \in DeltaOf
    OBVIOUS
  <1>2. \A i \in 1..n : sent[i].index \in Nat
    BY <1>1 DEF DeltaOf
  <1> HIDE DEF n
  <1>3. 0 \in T
    BY <1>1
  <1>4. ASSUME NEW k \in 1..n, k - 1 \in T PROVE k \in T
    <2>1. PICK N \in Nat : \A i \in 1..(k - 1) : sent[i].index < N
      BY <1>4
    <2> DEFINE x == sent[k].index
               M == IF x < N THEN N ELSE x + 1
    <2>2. x \in Nat /\ k \in 0..n
      BY <1>1, <1>2
    <2>3. M \in Nat /\ N <= M /\ x < M
      BY <2>2
    <2> HIDE DEF M
    <2>4. \A i \in 1..k : sent[i].index < M
      <3> SUFFICES ASSUME NEW i \in 1..k PROVE sent[i].index < M
        OBVIOUS
      <3>1. i \in 1..(k - 1) \/ i = k
        BY <1>1
      <3>2. i \in 1..n
        BY <1>1
      <3>3. CASE i = k
        BY <2>3, <3>3
      <3>4. CASE i \in 1..(k - 1)
        <4>1. sent[i].index < N /\ sent[i].index \in Nat
          BY <1>2, <2>1, <3>2, <3>4
        <4> QED BY <2>3, <4>1
      <3> QED BY <3>1, <3>3, <3>4
    <2>5. \E K \in Nat : \A i \in 1..k : sent[i].index < K
      BY <2>3, <2>4
    <2> QED BY <2>2, <2>5
  <1>5. \A k \in 0..n : k \in T
    <2> HIDE DEF T
    <2> QED BY <1>1, <1>3, <1>4, UpTo
  <1>6. PICK N \in Nat : \A i \in 1..n : sent[i].index < N
    <2>1. n \in 0..n
      BY <1>1
    <2> QED BY <1>5, <2>1
  <1>7. ASSUME NEW tc \in ToSet(sent) PROVE tc.index \in 0..(N - 1)
    <2>1. PICK i \in 1..n : tc = sent[i]
      BY <1>1 DEF ToSet
    <2>2. tc.index \in Nat /\ tc.index < N
      BY <1>2, <1>6, <2>1
    <2> QED BY <2>2
  <1> QED BY <1>7

\* The calls of a transcript come out in the order of their indexes.
LEMMA CallsInOrder ==
  ASSUME NEW sent \in Seq(DeltaOf), NEW m, Gathers(m, sent)
  PROVE  LET asc == Ascending({tc.index : tc \in ToSet(sent)})
         IN  /\ Len(ByIndex(m)) = Len(asc)
             /\ \A k \in 1..Len(asc) :
                  /\ ByIndex(m)[k].name = Names(SentFor(sent, asc[k]))
                  /\ ByIndex(m)[k].args = Args(SentFor(sent, asc[k]))
  <1> DEFINE S == {tc.index : tc \in ToSet(sent)}
             asc == Ascending(S)
             out == [i \in 1..Len(asc) |-> m[asc[i]]]
  <1>1. /\ DOMAIN m = S
        /\ \A i \in DOMAIN m : /\ m[i].name = Names(SentFor(sent, i))
                               /\ m[i].args = Args(SentFor(sent, i))
    BY DEF Gathers
  <1>2. PICK N \in Nat : S \in SUBSET (0..(N - 1))
    BY IndexesBounded
  <1>3. ByIndex(m) = out
    BY <1>1, Zenon DEF ByIndex
  <1> HIDE DEF S
  <1>4. asc \in Seq(S)
    BY <1>2, AscendingIs
  <1> HIDE DEF asc
  <1>5. Len(asc) \in Nat /\ \A i \in 1..Len(asc) : asc[i] \in S
    BY <1>4
  <1>6. Len(out) = Len(asc) /\ \A i \in 1..Len(asc) : out[i] = m[asc[i]]
    BY <1>5
  <1> HIDE DEF out
  <1>7. ASSUME NEW k \in 1..Len(asc)
        PROVE  /\ out[k].name = Names(SentFor(sent, asc[k]))
               /\ out[k].args = Args(SentFor(sent, asc[k]))
    <2>1. asc[k] \in DOMAIN m /\ out[k] = m[asc[k]]
      BY <1>1, <1>5, <1>6
    <2> QED BY <1>1, <2>1
  <1> QED BY <1>3, <1>6, <1>7, Zenon DEF asc, S

\* The output of the shown row.
LEMMA RecordReadsWhole == RecordInv => StreamReadsWhole
  <1> SUFFICES ASSUME RecordInv, Shown, ShownRow.response.form = "sse",
                      SawAny(ShownRow.response.lines)
               PROVE  StreamReadsWhole
    BY DEF StreamReadsWhole
  <1> DEFINE r == ShownRow.response
             lines == r.lines
             chunks == Chunks(lines)
             sent == Sent(chunks)
             all == GatherAll(chunks)
             out == ParseOutput(r)[1]
             S == {tc.index : tc \in ToSet(sent)}
             asc == Ascending(S)
  <1>1. ShownRow \in DetailOf
    BY DEF RecordInv, RowsKnown, ShownRow, Rows
  <1>2. lines \in Seq(LineOf)
    <2> DEFINE Q == Seq(LineOf)
    <2>1. r \in [form : {"none", "other"}]
                  \cup [form : {"json"}, content : ContentOf, calls : CallsOf]
                  \cup [form : {"sse"}, lines : Q]
      BY <1>1 DEF DetailOf, ResponseOf
    <2> HIDE DEF r, Q
    <2>2. r.form = "sse"
      BY DEF r
    <2>3. r.lines \in Q
      BY <2>1, <2>2
    <2> QED BY <2>3 DEF Q
  <1>3. chunks \in Seq(Chunk)
    <2> DEFINE R == {l \in ToSet(lines) : l.form = "chunk"}
    <2>0. chunks = Within(lines, R)
      BY DEF Chunks
    <2>1. R \subseteq Chunk
      <3>1. ToSet(lines) \subseteq LineOf
        <4> HIDE DEF lines
        <4> QED BY <1>2 DEF ToSet
      <3> QED BY <3>1 DEF Chunk
    <2> HIDE DEF lines, R, chunks
    <2>2. Within(lines, R) \in Seq(ToSet(lines) \cap R)
      BY <1>2, WithinOnly
    <2>3. ToSet(lines) \cap R \subseteq Chunk
      BY <2>1
    <2> QED BY <2>0, <2>2, <2>3, SeqMonotonic
  <1>4. out = [text |-> all.content, calls |-> ByIndex(all.calls)]
    <2> DEFINE x == [text |-> all.content, calls |-> ByIndex(all.calls)]
    <2>1. ReassembleSSE(lines) = <<x>>
      BY ReassembleIs
    <2> HIDE DEF x
    <2>2. ReassembleSSE(lines) # <<>>
      BY <2>1
    <2>3. r.form = "sse"
      OBVIOUS
    <2>4. ParseOutput(r) = <<x>>
      <3> HIDE DEF r
      <3> QED BY <2>1, <2>2, <2>3 DEF ParseOutput
    <2>5. ParseOutput(r)[1] = x
      BY <2>4
    <2> QED BY <2>5 DEF x
  <1> HIDE DEF r, lines, chunks
  <1>5. /\ sent \in Seq(DeltaOf)
        /\ all.content = FlattenSeq([i \in 1..Len(chunks) |-> chunks[i].content])
        /\ Gathers(all.calls, sent)
    BY <1>3, GatherAllIs
  <1> HIDE DEF sent, all
  <1>6. /\ Len(ByIndex(all.calls)) = Len(asc)
        /\ \A k \in 1..Len(asc) :
             /\ ByIndex(all.calls)[k].name = Names(SentFor(sent, asc[k]))
             /\ ByIndex(all.calls)[k].args = Args(SentFor(sent, asc[k]))
    BY <1>5, CallsInOrder
  <1>7. out.text = all.content /\ out.calls = ByIndex(all.calls)
    <2> DEFINE t == all.content
               c == ByIndex(all.calls)
    <2>1. out = [text |-> t, calls |-> c]
      BY <1>4
    <2> HIDE DEF t, c, out
    <2>2. out.text = t /\ out.calls = c
      BY <2>1
    <2> QED BY <2>2 DEF t, c
  <1> HIDE DEF out, asc, S
  <1>8. /\ out.text = FlattenSeq([i \in 1..Len(chunks) |-> chunks[i].content])
        /\ Len(out.calls) = Len(asc)
        /\ \A k \in 1..Len(asc) : /\ out.calls[k].name = Names(SentFor(sent, asc[k]))
                                    /\ out.calls[k].args = Args(SentFor(sent, asc[k]))
    BY <1>5, <1>6, <1>7, Zenon
  <1> QED BY <1>8, Zenon DEF StreamReadsWhole, out, asc, S, sent, chunks, lines, r, Names, Args

\* For every transcript with a JSON frame: reassembleSSE gives the text of the
\* chat-completion chunks in order (none where every frame is an Anthropic event), and for every index that was sent one call, in index order, with exactly the
\* name and arguments sent for it, however the deltas are interleaved (StreamReadsWhole).
THEOREM StreamsReadWhole == TraceSpec => []StreamReadsWhole
  <1>1. TraceInv /\ RecordInv /\ [TraceNext]_traceVars => TraceInv' /\ RecordInv'
    BY TraceNextKeeps, RecordNext
  <1> QED BY <1>1, TraceInitHolds, RecordInit, RecordReadsWhole, PTL DEF TraceSpec

=============================================================================
