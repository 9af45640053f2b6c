--------------------------- MODULE MCDesktopViews ---------------------------
(* Instances of ListPages and TraceView for TLC.  A window shows one page,   *)
(* so the two take turns only in the choice of the initial state.            *)
EXTENDS ListPages, TraceView

CONSTANTS i1, i2, i3, t1, t2

Text(x) == [form |-> "string", parts |-> <<[type |-> "text", text |-> <<x>>]>>]
Parts == [form |-> "array", parts |-> <<[type |-> "image_url", text |-> <<>>],
                                        [type |-> "audio", text |-> <<"wav">>]>>]
Nothing == [form |-> "none", parts |-> <<>>]
Msg(role, content, callId, calls) ==
    [role |-> role, content |-> content, callId |-> callId, calls |-> calls]

Sys == Msg("system", Text("main"), "", <<>>)
Sub == Msg("system", Text("sub"), "", <<>>)
Ask1 == Msg("user", Text("hello"), "", <<>>)
Echo == Msg("assistant", Text("hello"), "", <<>>)
Look == Msg("user", Parts, "", <<>>)
Call1 == Msg("assistant", Nothing, "", << <<"read", "a.txt">> >>)
Call2 == Msg("assistant", Nothing, "", << <<"write", "b.txt">> >>)
Result == Msg("tool", Text("done"), "c1", <<>>)

Array(l) == [form |-> "array", list |-> l]
MCMessages == {[form |-> "null"], Array(<<Sys, Ask1>>), Array(<<Sub, Ask1>>),
               Array(<<Sys, Ask1, Call1, Result, Look>>), Array(<<Sys, Ask1, Call2>>),
               Array(<<Sys, Echo>>)}

Chunk(content, calls) == [form |-> "chunk", content |-> content, calls |-> calls]
Delta(i, id, name, args) == [index |-> i, id |-> id, name |-> name, args |-> args]
MCLines == {[form |-> "other"], [form |-> "event", text |-> <<"z">>], Chunk(<<"x">>, <<>>),
            Chunk(<<>>, <<Delta(0, "c1", <<"read">>, <<>>), Delta(1, "c2", <<"write">>, <<"{">>)>>),
            Chunk(<<>>, <<Delta(1, "", <<>>, <<"}">>)>>),
            Chunk(<<"y">>, <<Delta(0, "", <<>>, <<"{}">>)>>)}
MCResponses == {[form |-> "none"], [form |-> "other"],
                [form |-> "json", content |-> Parts, calls |-> <<>>]}
               \cup [form : {"sse"}, lines : UNION {[1..n -> MCLines] : n \in 1..3}]

Row(m, r) == [messages |-> m, response |-> r]
MCScript ==
    {<<>>} \cup {<<Row([form |-> "null"], r)>> : r \in MCResponses}
    \cup {<<Row(m[1], [form |-> "none"]), Row(m[2], [form |-> "none"]), Row(m[3], [form |-> "none"])>> :
             m \in [1..3 -> MCMessages]}

Symmetric == Permutations({t1, t2})

(* The page that is not mounted rests in one state. *)
ListUnmounted ==
    /\ kind = "logs" /\ stored = <<>> /\ query = [filter |-> All, page |-> 1, size |-> 1]
    /\ fetches = <<>> /\ shown = NoRows /\ loading = "none" /\ failed = TRUE
    /\ dialog = NoDialog /\ call = NoCall
    /\ clicks = 0 /\ recorded = 0 /\ faults = 0
    /\ order = "open" /\ moved = FALSE /\ grown = FALSE
TraceUnmounted ==
    /\ ui = "none" /\ script = <<>> /\ timeline = "none" /\ selected = 0 /\ loads = <<>>
    /\ cache = {} /\ panel = Skeleton /\ metrics = NoMetrics /\ selects = 0 /\ rowFaults = 0

Init == (ListInit /\ TraceUnmounted) \/ (TraceInit /\ ListUnmounted)
(* A list page meets three events in all: clicks, recorded requests, faults. *)
FewEvents == clicks' + recorded' + faults' <= MaxClicks
Next == \/ ui = "none" /\ ListNext /\ FewEvents /\ UNCHANGED traceVars
        \/ ui # "none" /\ TraceNext /\ UNCHANGED listVars
Spec == Init /\ [][Next]_<<listVars, traceVars>>
=============================================================================
