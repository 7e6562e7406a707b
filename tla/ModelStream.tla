----------------------------- MODULE ModelStream -----------------------------
(* One request to a language model (crates/quine-llm) and the streaming of  *)
(* its answer into a turn (engine.rs, call_llm_interruptible): retries before  *)
(* the stream opens, server-sent events in pieces the server chooses, tool  *)
(* calls whose arguments arrive in fragments, tags in the text, and the     *)
(* ways a stream ends. Providers: "openai" (OpenAiCompatProvider), "qwen"   *)
(* (the same with a Qwen model, whose tool calls may be in the text),       *)
(* "anthropic", and "web" (OpenAiWebProvider, one answer without a stream). *)
(* Text is a sequence of words and halves of tags; "<think" and ">" are     *)
(* the halves of a tag, and a tool's name stands for the body of a          *)
(* well-formed call of that tool.                                           *)
EXTENDS Naturals, Integers, Sequences, SequencesExt

CONSTANTS
    Scripts,        \* what is asked and what the server has to say, see Init
    Fragments       \* pieces in which the arguments of a call are sent

VARIABLES
    script,         \* what this request is, and what the server will say
    api,            \* the request: url, phase, attempts, the delay, the log of answers
    sent,           \* how much of the script the server has sent, and what the network cut
    reader,         \* the state of the stream that is being parsed
    turn            \* what the turn collected, and how it ended

streamVars == <<script, api, sent, reader, turn>>

MaxAttempts == 4
MaxBackoff == 5000
ToolNames == {"read", "quine_search", "web_search", "quine_open_url"}
Tags == {"<think", "</think", "<tool_call", "</tool_call"}

Reads(p) == script.provider = p
IsQwen == Reads("qwen")
Least(S) == CHOOSE i \in S : \A j \in S : i <= j
Greatest(S) == CHOOSE i \in S : \A j \in S : j <= i
After(s, i) == SubSeq(s, i + 1, Len(s))
Find(tag, s) == {i \in 1..(Len(s) - 1) : s[i] = tag /\ s[i + 1] = ">"}

----------------------------------------------------------------------------
(* The conversation as the provider wants it. A message of the history is   *)
(* [role, calls, answers]: the calls it asks for, or the call it answers.   *)
IsResults(m) == m.role = "user" /\ m.answers # <<>>

MergeResult(messages, m) ==
    IF messages # <<>> /\ IsResults(Last(messages))
    THEN [messages EXCEPT ![Len(messages)].answers = @ \o m.answers]
    ELSE Append(messages, [m EXCEPT !.role = "user"])

ConvertAnthropic(messages, m) == IF m.role = "tool" THEN MergeResult(messages, m) ELSE Append(messages, m)

ConvertMessages(history) ==
    IF Reads("anthropic") THEN FoldLeft(ConvertAnthropic, <<>>, history) ELSE history

ProviderToolName(n) == IF n = "web_search" THEN "quine_search" ELSE n
Offered(tools) == IF Reads("anthropic") THEN tools ELSE {ProviderToolName(n) : n \in tools \ {"web_open"}}
NoTool == "no tool"
InternalToolName(n) ==
    CASE n = "quine_search" -> "web_search"
      [] n = "quine_open_url" -> "web_open"
      [] n = "web_search" -> NoTool
      [] OTHER -> n

----------------------------------------------------------------------------
(* Opening the stream, with retries.                                        *)
ShouldRetry(answer) == answer \in {"busy", "not_implemented", "transport"}
ShouldFallBack(answer) == answer \in {"not_found", "not_implemented", "tools_rejected"}

NextBackoff(d) == IF 2 * d > MaxBackoff THEN MaxBackoff ELSE 2 * d
JitterDelay(d, attempt) ==
    LET window == IF d \div 4 > 1 THEN d \div 4 ELSE 1
        offset == (attempt * 97) % (2 * window + 1)
        up == IF offset > window THEN offset - window ELSE 0
    IN IF d + up > MaxBackoff THEN MaxBackoff ELSE d + up

Nothing == <<>>
EmptyReader == [thinking |-> FALSE, pending |-> <<>>, texts |-> 0, calls |-> <<>>, ids |-> 0]

Opened(url) == [url |-> url, phase |-> "sending", attempt |-> 1, backoff |-> 250, log |-> <<>>, request |-> <<>>]

StreamInit ==
    /\ script \in Scripts
    /\ api = [Opened(IF Reads("web") THEN "responses" ELSE "chat") EXCEPT !.request = ConvertMessages(script.history)]
    /\ sent = [text |-> 0, fragments |-> [c \in DOMAIN script.calls |-> 0], cut |-> FALSE, torn |-> Nothing]
    /\ reader = EmptyReader
    /\ turn = [text |-> <<>>, calls |-> <<>>, result |-> "none"]

Waits(answer) == IF answer = "transport" THEN JitterDelay(api.backoff, api.attempt) ELSE JitterDelay(api.backoff, 1)
Logged(answer, wait) == Append(api.log, [url |-> api.url, answer |-> answer, wait |-> wait])

Retry(answer) ==
    /\ ShouldRetry(answer) /\ api.attempt < MaxAttempts
    /\ \E wait \in {Waits(answer)} \cup (IF answer = "busy" THEN {0, MaxBackoff} ELSE {}) :
          api' = [api EXCEPT !.log = Logged(answer, wait), !.attempt = @ + 1, !.backoff = NextBackoff(@)]
    /\ UNCHANGED turn

GiveUp(answer) ==
    /\ ~(ShouldRetry(answer) /\ api.attempt < MaxAttempts)
    /\ IF Reads("web") /\ api.url = "responses" /\ ShouldFallBack(answer)
       THEN /\ api' = [Opened("chat") EXCEPT !.log = Logged(answer, 0), !.request = api.request]
            /\ UNCHANGED turn
       ELSE /\ api' = [api EXCEPT !.log = Logged(answer, 0), !.phase = "closed"]
            /\ turn' = [turn EXCEPT !.result = "failed"]

(* Both requests of the web provider read the whole body at once.           *)
Accepted ==
    /\ api' = [Opened(api.url) EXCEPT !.phase = IF Reads("web") THEN "closed" ELSE "reading", !.request = api.request]
    /\ turn' = [turn EXCEPT !.result = IF Reads("web") THEN "web" ELSE @]

ReceiveAnswer(answer) ==
    /\ api.phase = "sending"
    /\ IF answer = "ok" THEN Accepted ELSE Retry(answer) \/ GiveUp(answer)
    /\ UNCHANGED <<script, sent, reader>>

----------------------------------------------------------------------------
(* Text: reasoning tags are taken out of each delta on its own, while the   *)
(* parser for the calls of Qwen models keeps what may be half a tag.        *)
RECURSIVE SplitReasoning(_, _)
SplitReasoning(s, thinking) ==
    LET at == Find(IF thinking THEN "</think" ELSE "<think", s)
        shown(n) == IF thinking THEN <<>> ELSE SubSeq(s, 1, n)
    IN IF at = {} THEN [visible |-> shown(Len(s)), thinking |-> thinking]
       ELSE LET rest == SplitReasoning(After(s, Least(at) + 1), ~thinking)
            IN [rest EXCEPT !.visible = shown(Least(at) - 1) \o @]

\* Mutant: text is passed on up to its end, the start of a tag included.
WholePrefix(s) == Len(s)

SafePrefix(s) ==
    LET open == {i \in DOMAIN s : s[i] \in Tags}
        closed(i) == \E j \in i..Len(s) : s[j] = ">" \/ s[j] \in ToolNames
    IN IF open = {} \/ closed(Greatest(open)) THEN Len(s) ELSE Greatest(open) - 1

Parsed(pending, text, calls, ids) == [pending |-> pending, text |-> text, calls |-> calls, ids |-> ids]
IsCall(block) == Len(block) = 5 /\ block[3] \in ToolNames
TextCall(block, n) == [id |-> <<"qwen", n>>, name |-> block[3], args |-> <<>>]

RECURSIVE PushText(_, _)
PushText(s, ids) ==
    LET starts == Find("<tool_call", s)
        i == Least(starts)
        ends == {j \in Find("</tool_call", s) : j > i}
        j == Least(ends)
        block == SubSeq(s, i, j + 1)
        rest == PushText(After(s, j + 1), ids + 1)
    IN IF starts = {} THEN Parsed(After(s, SafePrefix(s)), SubSeq(s, 1, SafePrefix(s)), <<>>, ids)
       ELSE IF ends = {} THEN Parsed(After(s, i - 1), SubSeq(s, 1, i - 1), <<>>, ids)
       ELSE IF IsCall(block)
       THEN [rest EXCEPT !.text = SubSeq(s, 1, i - 1) \o @, !.calls = <<TextCall(block, ids + 1)>> \o @]
       ELSE [rest EXCEPT !.text = SubSeq(s, 1, j + 1) \o @]

Show(visible, thinking) ==
    IF IsQwen /\ visible # <<>>
    THEN LET p == PushText(reader.pending \o visible, reader.texts)
         IN /\ reader' = [reader EXCEPT !.thinking = thinking, !.pending = p.pending, !.texts = p.ids]
            /\ turn' = [turn EXCEPT !.text = @ \o p.text, !.calls = @ \o p.calls]
    ELSE /\ reader' = [reader EXCEPT !.thinking = thinking]
         /\ turn' = [turn EXCEPT !.text = @ \o visible]

CutsTag(n) ==
    /\ n < Len(script.text)
    /\ script.text[n] \in {"<think", "</think"} /\ script.text[n + 1] = ">"

(* What comes from the network is decoded piece by piece: a piece that ends *)
(* within a character garbles it. At most one is, the i-th word of the text *)
(* or the i-th fragment of a call (bound).                                  *)
Tears(whose, places) ==
    {sent.torn} \cup (IF sent.torn = Nothing THEN {<<whose, i>> : i \in places} ELSE {})

TheText == 0
Received(torn) == [i \in DOMAIN script.text |-> IF torn = <<TheText, i>> THEN "garbled" ELSE script.text[i]]

ReadText(n) ==
    /\ api.phase = "reading" /\ n \in (sent.text + 1)..Len(script.text)
    /\ \E torn \in Tears(TheText, {i \in (sent.text + 1)..n : script.text[i] = "word"}) :
          /\ sent' = [sent EXCEPT !.text = n, !.torn = torn, !.cut = @ \/ (CutsTag(n) /\ ~Reads("anthropic"))]
          /\ LET delta == SubSeq(Received(torn), sent.text + 1, n)
                 split == SplitReasoning(delta, reader.thinking)
             IN IF Reads("anthropic") THEN Show(delta, FALSE) ELSE Show(split.visible, split.thinking)
    /\ UNCHANGED <<script, api>>

----------------------------------------------------------------------------
(* Tool calls. A delta for call c carries fragments of its arguments, and   *)
(* its index, id and name when the server says them.                        *)
NoIndex == -1
NoId == <<>>
Fresh(id, name) == [id |-> id, name |-> name, args |-> <<>>]
Grown(calls, k) ==
    [n \in 1..Greatest({k, Len(calls)}) |-> IF n <= Len(calls) THEN calls[n] ELSE Fresh(NoId, "")]

Position(delta) ==
    LET known == {k \in DOMAIN reader.calls : reader.calls[k].id = delta.id}
    IN IF delta.index # NoIndex THEN delta.index + 1
       ELSE IF ~IsQwen THEN 1
       ELSE IF delta.id # NoId /\ known # {} THEN Least(known)
       ELSE Len(reader.calls) + 1

Filled(call, delta, n) ==
    LET id == IF delta.id # NoId THEN delta.id ELSE IF call.id # NoId THEN call.id ELSE <<"openai", n + 1>>
    IN [id |-> id, name |-> IF delta.name # "" THEN delta.name ELSE call.name, args |-> call.args \o delta.args]

ProcessDelta(delta) ==
    LET k == Position(delta)
        calls == Grown(reader.calls, k)
        named == delta.id # NoId \/ calls[k].id # NoId
    IN reader' = [reader EXCEPT !.calls = [calls EXCEPT ![k] = Filled(calls[k], delta, reader.ids)],
                                !.ids = IF named THEN @ ELSE @ + 1]

(* The tracker of the Anthropic stream: a block is started, then grows.     *)
StartTool(c) == reader' = [reader EXCEPT !.calls = Append(@, [Fresh(script.calls[c].id, script.calls[c].name)
                                                              EXCEPT !.args = <<>>] @@ [block |-> c])]

AppendArguments(c, pieces) ==
    LET k == Greatest({n \in DOMAIN reader.calls : reader.calls[n].block = c})
    IN reader' = [reader EXCEPT !.calls[k].args = @ \o pieces]

Pieces(c, from, to, torn) ==
    [n \in 1..(to - from) |-> <<c, from + n, IF torn = <<c, from + n>> THEN "garbled" ELSE "as sent">>]

DeltaOf(c, pieces) ==
    LET call == script.calls[c]
        first == sent.fragments[c] = 0
    IN [index |-> IF script.numbered = "index" THEN c - 1 ELSE NoIndex,
        id |-> IF first \/ script.numbered = "id" THEN call.id ELSE NoId,
        name |-> IF first THEN call.name ELSE "",
        args |-> pieces]

(* The server sends a call without index or id in one piece.                *)
Reaches(c) == IF script.numbered = "whole" THEN {Fragments} ELSE (sent.fragments[c] + 1)..Fragments
NotStarted(c) == \A k \in DOMAIN reader.calls : reader.calls[k].block # c

ReadStart(c) ==
    /\ Reads("anthropic") /\ NotStarted(c)
    /\ \A b \in 1..(c - 1) : sent.fragments[b] = Fragments
    /\ StartTool(c) /\ UNCHANGED sent

ReadFragments(c) ==
    \E n \in Reaches(c) : \E torn \in Tears(c, (sent.fragments[c] + 1)..n) :
        LET pieces == Pieces(c, sent.fragments[c], n, torn)
        IN /\ sent' = [sent EXCEPT !.fragments[c] = n, !.torn = torn]
           /\ IF Reads("anthropic") THEN ~NotStarted(c) /\ AppendArguments(c, pieces)
                                    ELSE ProcessDelta(DeltaOf(c, pieces))

ReadCall(c) ==
    /\ api.phase = "reading" /\ sent.fragments[c] < Fragments
    /\ ReadStart(c) \/ ReadFragments(c)
    /\ UNCHANGED <<script, api, turn>>

(* A garbled character is text like any other, and its arguments parse.     *)
Arguments(args) ==
    IF args # <<>> /\ args = Pieces(args[1][1], 0, Fragments, sent.torn) THEN args ELSE <<>>

CompletedCall(call) ==
    [id |-> call.id, args |-> Arguments(call.args),
     name |-> IF Reads("anthropic") THEN call.name ELSE InternalToolName(call.name)]

TakeCompleted ==
    LET done == [k \in DOMAIN reader.calls |-> CompletedCall(reader.calls[k])]
    IN SelectSeq(done, LAMBDA call : call.id # NoId /\ call.name # NoTool)

----------------------------------------------------------------------------
(* The ends of a stream.                                                    *)
FinishReason ==
    /\ api.phase = "reading" /\ ~Reads("anthropic") /\ reader.calls # <<>>
    /\ \A c \in DOMAIN script.calls : sent.fragments[c] = Fragments
    /\ turn' = [turn EXCEPT !.calls = @ \o TakeCompleted]
    /\ reader' = [reader EXCEPT !.calls = <<>>, !.ids = 0]
    /\ UNCHANGED <<script, api, sent>>

Deduplicated(calls) ==
    LET first(k) == \A j \in 1..(k - 1) : calls[j].id # calls[k].id
        kept == {k \in DOMAIN calls : first(k)}
    IN [n \in 1..Cardinality(kept) |->
          calls[CHOOSE k \in kept : Cardinality({j \in kept : j < k}) = n - 1]]

Finished ==
    LET calls == Deduplicated(turn.calls \o TakeCompleted)
    IN turn' = [text |-> turn.text \o reader.pending, calls |-> calls,
                result |-> IF calls = <<>> THEN "text" ELSE "calls"]

AllSent == sent.text = Len(script.text) /\ \A c \in DOMAIN script.calls : sent.fragments[c] = Fragments

(* [DONE] or message_stop, or a connection that is closed in good order,    *)
(* which may be before everything was said.                                 *)
EndOfStream ==
    /\ api.phase = "reading"
    /\ Finished
    /\ api' = [api EXCEPT !.phase = IF AllSent THEN "done" ELSE "closed"]
    /\ UNCHANGED <<script, sent, reader>>

(* A read error, or a line that is not a chunk.                             *)
ReadFails ==
    /\ api.phase = "reading"
    /\ turn' = [turn EXCEPT !.result = "failed"]
    /\ api' = [api EXCEPT !.phase = "closed"]
    /\ UNCHANGED <<script, sent, reader>>

Interrupt ==
    /\ api.phase \in {"sending", "reading"} /\ ~Reads("web")
    /\ turn' = [turn EXCEPT !.result = "interrupted"]
    /\ api' = [api EXCEPT !.phase = "closed"]
    /\ UNCHANGED <<script, sent, reader>>

StreamNext ==
    \/ \E answer \in {"ok", "busy", "transport", "refused", "not_found", "not_implemented", "tools_rejected"} :
          ReceiveAnswer(answer)
    \/ \E n \in 1..Len(script.text) : ReadText(n)
    \/ \E c \in DOMAIN script.calls : ReadCall(c)
    \/ FinishReason
    \/ EndOfStream
    \/ ReadFails
    \/ Interrupt

StreamSpec == StreamInit /\ [][StreamNext]_streamVars

----------------------------------------------------------------------------
(* What the text of the script means, read as a whole.                      *)
Hidden(s, i) == \E o \in Find("<think", s) : o <= i /\ \A c \in Find("</think", s) : c > o => i <= c + 1
Visible(s) ==
    IF Reads("anthropic") THEN s
    ELSE LET shown == {i \in DOMAIN s : ~Hidden(s, i)}
         IN [n \in 1..Cardinality(shown) |-> s[CHOOSE i \in shown : Cardinality({j \in shown : j < i}) = n - 1]]

CallsAt(s) == {i \in Find("<tool_call", s) : IsQwen /\ i + 4 <= Len(s) /\ IsCall(SubSeq(s, i, i + 4))}
Plain(s) ==
    LET rest == {i \in DOMAIN s : \A k \in CallsAt(s) : i \notin k..(k + 4)}
    IN [n \in 1..Cardinality(rest) |-> s[CHOOSE i \in rest : Cardinality({j \in rest : j < i}) = n - 1]]

(* However the server cuts the text into deltas, the turn gets the same     *)
(* text and the same calls out of it as from the text in one piece          *)
(* (QwenToolCallParser, split_reasoning_tags), unless a cut went through a  *)
(* reasoning tag, which no parser puts together again. A character that the *)
(* network cut is garbled, and nothing else is.                             *)
TextOf(text) ==
    LET whole == Visible(text)
        found == SelectSeq(turn.calls, LAMBDA call : call.id[1] = "qwen")
    IN /\ turn.text = Plain(whole)
       /\ Len(found) = Cardinality(CallsAt(whole))
       /\ \A i \in CallsAt(whole) : \E k \in DOMAIN found : found[k].name = whole[i + 2]

ChunksDoNotMatter == api.phase = "done" /\ ~sent.cut => TextOf(Received(sent.torn))

(* The calls of tools that were offered reach the turn once each, under the *)
(* tool's own name and with all their arguments, whether the server numbers *)
(* its calls, names them by id or sends them whole, and whether or not it   *)
(* says that the calls are finished before it ends the stream; but several  *)
(* calls without numbers are told apart for Qwen models only.               *)
CallsOf(torn) ==
    LET asked == {c \in DOMAIN script.calls : script.calls[c].name \in Offered(script.tools)}
        made == SelectSeq(turn.calls, LAMBDA call : call.id[1] # "qwen")
    IN /\ Len(made) = Cardinality(asked)
       /\ \A c \in asked : \E k \in DOMAIN made :
             /\ made[k].args = Pieces(c, 0, Fragments, torn)
             /\ made[k].name \in script.tools
             /\ script.calls[c].name \in {made[k].name, ProviderToolName(made[k].name)}

ToldApart == Reads("openai") /\ script.numbered # "index" => Len(script.calls) <= 1

CallsArriveWhole == api.phase = "done" /\ ToldApart => CallsOf(sent.torn)

(* Not kept: that it does not matter where the network cuts the answer, and *)
(* that calls without numbers reach the turn from any model.                *)
NetworkCutsDoNotMatter ==
    /\ api.phase = "done" /\ ~sent.cut => TextOf(script.text)
    /\ api.phase = "done" /\ ToldApart => CallsOf(Nothing)

UnnumberedCallsArrive == api.phase = "done" => CallsOf(sent.torn)

(* A request is sent again only after an answer that a later one may better *)
(* (send_with_retry), at most four times to an address, and each wait that  *)
(* the server did not choose is longer than the one before it.              *)
RetriesArePaced ==
    \A i, j \in DOMAIN api.log :
        i < j /\ api.log[i].url = api.log[j].url =>
            /\ api.log[i].answer \in {"busy", "transport", "not_implemented"}
            /\ j - i < MaxAttempts
            /\ api.log[i].wait \notin {0, MaxBackoff} /\ api.log[j].wait \notin {0, MaxBackoff} =>
                  api.log[i].wait < api.log[j].wait

(* The results of a round of calls are in the one message after the calls,  *)
(* as the Anthropic API demands (anthropic.rs, convert_messages).           *)
ResultsFollowTheirCalls ==
    Reads("anthropic") => \A i \in DOMAIN api.request :
        api.request[i].calls # <<>> /\ i < Len(api.request) => api.request[i + 1].answers = api.request[i].calls
=============================================================================
