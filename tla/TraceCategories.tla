-------------------------- MODULE TraceCategories --------------------------
(* How one recorded request is taken apart for display: trace-categories.tsx *)
(* (the same in desktop-ui and in web) and trace-baseline.ts.                *)
(*                                                                          *)
(* A text is a sequence of pieces.  The content of a message is a string     *)
(* (one part of type "text", none when it is empty), an array of parts, or   *)
(* missing.  The response is nothing, a completion, a transcript of a stream *)
(* or anything else.                                                         *)
EXTENDS Naturals, Sequences, SequencesExt, FiniteSets

NoneId == ""

----------------------------------------------------------------------------
(* What is recorded *)

TextOf == Seq(STRING)
ContentOf == [form : {"string", "array", "none"}, parts : Seq([type : STRING, text : TextOf])]
CallsOf == Seq(TextOf \ {<<>>})
MessageOf == [role : STRING, content : ContentOf, callId : STRING, calls : CallsOf]
DeltaOf == [index : Nat, id : STRING, name : TextOf, args : TextOf]

(* A line of a transcript: a chat-completion chunk, a JSON frame without choices   *)
(* (an Anthropic event, whose text sits elsewhere), or nothing that parses.  *)
LineOf ==
    [form : {"other"}] \cup [form : {"event"}, text : TextOf]
      \cup [form : {"chunk"}, content : TextOf, calls : Seq(DeltaOf)]
ResponseOf ==
    [form : {"none", "other"}] \cup [form : {"json"}, content : ContentOf, calls : CallsOf]
      \cup [form : {"sse"}, lines : Seq(LineOf)]

(* TraceDetailLike, the fields that are shown *)
DetailOf ==
    [messages : [form : {"null"}] \cup [form : {"array"}, list : Seq(MessageOf)],
     response : ResponseOf]

(* The elements of s that are in S, in their order *)
Within(s, S) ==
    FoldLeft(LAMBDA kept, x : IF x \in S THEN Append(kept, x) ELSE kept, <<>>, s)

(* A finite set of numbers, in order *)
Ascending(S) ==
    CHOOSE s \in [1..Cardinality(S) -> S] : \A i, j \in 1..Cardinality(S) : i < j => s[i] < s[j]

----------------------------------------------------------------------------
(* The messages *)

(* messagesOf: a detail without a message array has no messages. *)
MessagesOf(d) == IF d.messages.form = "array" THEN d.messages.list ELSE <<>>

(* Missing content signs like an empty string. *)
SignedContent(c) == IF c.form = "none" THEN [c EXCEPT !.form = "string"] ELSE c

\* Mutant: the role does not count.
SignatureNoRole(m) == <<SignedContent(m.content), m.callId>>

(* signature: the tool calls of a message are no part of it *)
Signature(m) == <<m.role, SignedContent(m.content), m.callId>>

(* commonPrefixLength *)
CommonPrefixLength(a, b) ==
    LET n == IF Len(a) < Len(b) THEN Len(a) ELSE Len(b)
        Same(k) == \A i \in 1..k : Signature(a[i]) = Signature(b[i])
    IN  CHOOSE k \in 0..n : Same(k) /\ (k = n \/ ~Same(k + 1))

\* Mutant: on a tie the candidate farther away wins.
PickBaselineLast(cur, cands) ==
    LET Step(best, c) ==
          IF CommonPrefixLength(cur, MessagesOf(c)) >= best.len
            THEN [len |-> CommonPrefixLength(cur, MessagesOf(c)), row |-> <<c>>] ELSE best
    IN  FoldLeft(Step, [len |-> 0, row |-> <<>>], cands).row

(* pickBaseline over the candidates, closest first: the first with the      *)
(* strictly longest common prefix, none when every prefix is empty.         *)
PickBaseline(cur, cands) ==
    LET Step(best, c) ==
          LET len == CommonPrefixLength(cur, MessagesOf(c))
          IN  IF len > best.len THEN [len |-> len, row |-> <<c>>] ELSE best
    IN  FoldLeft(Step, [len |-> 0, row |-> <<>>], cands).row

SystemOf(msgs) == {m \in ToSet(msgs) : m.role = "system"}
OthersOf(msgs) == {m \in ToSet(msgs) : m.role # "system"}

(* analyze: system messages apart, then those carried over from the         *)
(* baseline, then the new ones                                              *)
Analyze(d, baseline) ==
    LET cur == MessagesOf(d)
        prev == IF baseline = <<>> THEN <<>> ELSE MessagesOf(baseline[1])
        k == CommonPrefixLength(cur, prev)
    IN  [system |-> Within(cur, SystemOf(cur)),
         carried |-> Within(SubSeq(cur, 1, k), OthersOf(cur)),
         turn |-> Within(SubSeq(cur, k + 1, Len(cur)), OthersOf(cur))]

----------------------------------------------------------------------------
(* The blocks of a message: [kind, text], the text what it was made from *)

PartBlock(p) ==
    [kind |-> CASE p.type = "text" -> "text"
                [] p.type = "image_url" -> "image"
                [] p.type \in {"thinking", "reasoning"} -> "thinking"
                [] OTHER -> "unknown",
     text |-> p.text]

ContentText(c) == FlattenSeq([i \in 1..Len(c.parts) |-> c.parts[i].text])

(* blocksOf: the answer of a tool first, then the content, then the calls. *)
BlocksOf(m) ==
    (IF m.role = "tool" \/ m.callId # NoneId
       THEN <<[kind |-> "tool_result", text |-> ContentText(m.content)]>> ELSE <<>>)
      \o [i \in 1..Len(m.content.parts) |-> PartBlock(m.content.parts[i])]
      \o [i \in 1..Len(m.calls) |-> [kind |-> "tool_use", text |-> m.calls[i]]]

(* BlockChip, the closed node: a text and a thought only give their length  *)
BlockChip(b) == IF b.kind = "tool_use" THEN <<Head(b.text)>> ELSE <<>>

\* Mutant: a block of unknown kind is drawn like an image, by a mark.
BlockRawMark(b) == IF b.kind \in {"image", "unknown"} THEN <<"[image]">> ELSE b.text

(* BlockRaw, the open node: the text, the call with its arguments, the raw   *)
(* JSON of what is unknown; only an image is a mark.                         *)
BlockRaw(b) == IF b.kind = "image" THEN <<"[image]">> ELSE b.text

(* MessageNode: closed it shows the chips, open also the raw blocks *)
MessageNode(m, open) ==
    LET b == BlocksOf(m)
    IN  FlattenSeq([i \in 1..Len(b) |-> BlockChip(b[i])])
          \o (IF open THEN FlattenSeq([i \in 1..Len(b) |-> BlockRaw(b[i])]) ELSE <<>>)

(* flattenContent: the texts of the parts, an image as a mark of its own *)
FlattenContent(c) ==
    FlattenSeq([i \in 1..Len(c.parts) |->
        CASE c.parts[i].type = "text" -> c.parts[i].text
          [] c.parts[i].type = "image_url" -> <<"[image]">>
          [] OTHER -> <<c.parts[i].type>>])

----------------------------------------------------------------------------
(* The output *)

NoCallYet == [id |-> NoneId, name |-> <<>>, args |-> <<>>]

\* Mutant: every delta goes to the first call.
MergeCallFirst(byIndex, tc) ==
    LET old == IF 0 \in DOMAIN byIndex THEN byIndex[0] ELSE NoCallYet
        new == [id |-> IF tc.id # NoneId THEN tc.id ELSE old.id,
                name |-> old.name \o tc.name, args |-> old.args \o tc.args]
    IN  [i \in DOMAIN byIndex \cup {0} |-> IF i = 0 THEN new ELSE byIndex[i]]

(* The body of the loop over delta.tool_calls *)
MergeCall(byIndex, tc) ==
    LET old == IF tc.index \in DOMAIN byIndex THEN byIndex[tc.index] ELSE NoCallYet
        new == [id |-> IF tc.id # NoneId THEN tc.id ELSE old.id,
                name |-> old.name \o tc.name, args |-> old.args \o tc.args]
    IN  [i \in DOMAIN byIndex \cup {tc.index} |-> IF i = tc.index THEN new ELSE byIndex[i]]

ByIndex(byIndex) ==
    LET order == Ascending(DOMAIN byIndex)
    IN  [i \in 1..Len(order) |-> byIndex[order[i]]]

(* sawAny: lines that are no data, [DONE] and broken JSON are passed over. *)
SawAny(lines) == \E l \in ToSet(lines) : l.form # "other"

(* Only the first entry of choices is read: an event adds nothing. *)
Chunks(lines) == Within(lines, {l \in ToSet(lines) : l.form = "chunk"})

(* reassembleSSE: without a single JSON frame there is no output. *)
ReassembleSSE(lines) ==
    LET chunks == Chunks(lines)
        Step(acc, c) == [content |-> acc.content \o c.content,
                         calls |-> FoldLeft(MergeCall, acc.calls, c.calls)]
        all == FoldLeft(Step, [content |-> <<>>, calls |-> [i \in {} |-> NoCallYet]], chunks)
    IN  IF ~SawAny(lines) THEN <<>>
        ELSE <<[text |-> all.content, calls |-> ByIndex(all.calls)]>>

Raw(r) == <<[text |-> <<"raw">>, calls |-> <<>>]>>

(* parseOutput *)
ParseOutput(r) ==
    CASE r.form = "none" -> <<>>
      [] r.form = "json" -> <<[text |-> FlattenContent(r.content), calls |-> r.calls]>>
      [] r.form = "sse" -> IF ReassembleSSE(r.lines) = <<>> THEN Raw(r) ELSE ReassembleSSE(r.lines)
      [] OTHER -> Raw(r)
=============================================================================
