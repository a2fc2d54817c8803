---------------------------- MODULE ChatHistory ----------------------------
(***************************************************************************)
(* The way in: the transcript a client replays becomes the chat messages    *)
(* that an upstream accepts, is cut to the operator's budget and takes the  *)
(* form of the upstream's own protocol.  Upstreams refuse a tool message    *)
(* that does not answer a call of the assistant message before it, and a    *)
(* call that is not answered.                                               *)
(*                                                                          *)
(* Items of the transcript are numbered as they are read.  A call has the   *)
(* number of its item for an id; a message names the item it comes from, 0  *)
(* for one the gateway makes up.                                            *)
(***************************************************************************)
EXTENDS Naturals, Sequences, SequencesExt

CONSTANTS
    MaxItems,      \* bound: items (or turns) of a transcript
    Budget,        \* the values of ZKAI_TRIM_HISTORY_TOKENS, 0 for none
    Reserve,       \* _PLACEHOLDER_RESERVE
    ToolsCost      \* what the tools' schema adds to the estimate

HistoryAssumption ==
    /\ MaxItems \in Nat
    /\ Budget \subseteq Nat
    /\ Reserve \in Nat
    /\ ToolsCost \in Nat

ASSUME HistoryAssumption

Api == {"messages", "responses", "chat"}

(* What the items are: a call, the answer to a call (0: to none that is      *)
(* known), an image of its own, readable or not, a message, a reasoning item.   *)
(* A message may have the role of a tool: an orphan, which has no call to      *)
(* answer.                                                                     *)
CallItem == [kind |-> "call", of |-> 0]
OutputItem(c) == [kind |-> "output", of |-> c]
ImageItem(readable) == [kind |-> IF readable THEN "image" ELSE "noise", of |-> 0]
MessageItem(role) == [kind |-> role, of |-> 0]
ReasoningItem == [kind |-> "reasoning", of |-> 0]
Speaker == {"user", "assistant", "system", "orphan"}

VARIABLES
    history,   \* what has become of the transcript: "reading", "sent", "answered"
    api,       \* the endpoint the client speaks to
    items,     \* the transcript read so far
    messages,  \* the chat messages made of it
    pending,   \* calls not yet put into an assistant message
    openCalls, \* calls of the last assistant messages without an answer
    deferred,  \* images, and texts in place of images, that wait until the round is over
    trimmed    \* the budget applied and the messages there were before

historyVars == <<history, api, items, messages, pending, openCalls, deferred, trimmed>>

NotTrimmed == [budget |-> 0, before |-> <<>>]
NothingDeferred == [images |-> <<>>, texts |-> <<>>]

HistoryInit ==
    /\ history = "reading"
    /\ api \in Api
    /\ items = <<>>
    /\ messages = <<>>
    /\ pending = <<>>
    /\ openCalls = <<>>
    /\ deferred = NothingDeferred
    /\ trimmed = NotTrimmed

-----------------------------------------------------------------------------
(* Messages *)

Said(role, item) == [role |-> role, calls |-> <<>>, answers |-> 0, item |-> item, image |-> FALSE]
Pictured(item) == [Said("user", item) EXCEPT !.image = TRUE]
Calling(calls, item) == [Said("assistant", item) EXCEPT !.calls = calls]
Answering(call, item) == [Said("tool", item) EXCEPT !.answers = call]

(* The messages of role "tool": those with a tool_call_id, and the orphans. *)
IsTool(m) == m.role \in {"tool", "orphan"}

Here == Len(items) + 1

(* flush_calls: the calls read in a row become one assistant message. *)
Flushed(ms) == IF pending = <<>> THEN ms ELSE Append(ms, Calling(pending, 0))
OpenAfterFlush == openCalls \o pending

(* answer_open_calls: calls that never got their output get a made-up one. *)
Answered(ms, open) == ms \o [i \in DOMAIN open |-> Answering(open[i], 0)]

(* flush_deferred: images first, then the texts that stand for images. *)
Deferred(ms) == ms \o deferred.images \o deferred.texts

-----------------------------------------------------------------------------
(* ResponsesRequest._translate_input, one item of the input at a time *)

Read(item) ==
    /\ history = "reading" /\ api = "responses" /\ Len(items) < MaxItems
    /\ items' = Append(items, item)
    /\ UNCHANGED <<history, api, trimmed>>

ReadCall ==
    /\ Read(CallItem)
    /\ pending' = Append(pending, Here)
    /\ UNCHANGED <<messages, openCalls, deferred>>

ReadOutput(c) ==
    /\ Read(OutputItem(c))
    /\ pending' = <<>>
    /\ IF Contains(OpenAfterFlush, c)
       THEN LET ms == Append(Flushed(messages), Answering(c, Here))
                open == RemoveFirst(OpenAfterFlush, c)
            IN  /\ openCalls' = open
                /\ messages' = IF open = <<>> THEN Deferred(ms) ELSE ms
                /\ deferred' = IF open = <<>> THEN NothingDeferred ELSE deferred
       ELSE /\ messages' = Flushed(messages)
            /\ openCalls' = OpenAfterFlush
            /\ UNCHANGED deferred

(* A bare image; one that cannot be read leaves a line of text behind. *)
ReadImage(readable) ==
    LET message == IF readable THEN Pictured(Here) ELSE Said("user", Here)
    IN  /\ Read(ImageItem(readable))
        /\ IF pending # <<>> \/ openCalls # <<>>
           THEN /\ deferred' = IF readable
                               THEN [deferred EXCEPT !.images = Append(@, message)]
                               ELSE [deferred EXCEPT !.texts = Append(@, message)]
                /\ UNCHANGED messages
           ELSE messages' = Append(messages, message) /\ UNCHANGED deferred
        /\ UNCHANGED <<pending, openCalls>>

(* A message ends the round, and an orphan goes upstream like any other. *)
ReadMessage(role) ==
    /\ Read(MessageItem(role))
    /\ messages' = Append(Answered(Flushed(messages), OpenAfterFlush), Said(role, Here))
    /\ pending' = <<>> /\ openCalls' = <<>>
    /\ UNCHANGED deferred

ReadReasoning ==
    /\ Read(ReasoningItem)
    /\ UNCHANGED <<messages, pending, openCalls, deferred>>

-----------------------------------------------------------------------------
(* AnthropicMessagesRequest._translate_message, one turn at a time.  The     *)
(* client's own protocol makes it answer every call at the head of the next  *)
(* turn; the calls of a turn carry the ids <<turn, 1>>, <<turn, 2>>, ...      *)
(* encoded as turn * 10 + k.                                                *)

CallIds(turn, n) == [k \in 1..n |-> turn * 10 + k]

Turn(role) ==
    /\ history = "reading" /\ api = "messages" /\ Len(items) < MaxItems
    /\ items' = Append(items, MessageItem(role))
    /\ UNCHANGED <<history, api, pending, deferred, trimmed>>

AssistantTurn(n) ==
    /\ openCalls = <<>>
    /\ Turn("assistant")
    /\ messages' = Append(messages, Calling(CallIds(Here, n), Here))
    /\ openCalls' = CallIds(Here, n)

(* Results become tool messages, what the user adds a message after them;    *)
(* a turn with neither becomes an empty user message.                       *)
UserTurn(adds) ==
    LET results == [i \in DOMAIN openCalls |-> Answering(openCalls[i], Here)]
        text == IF adds \/ results = <<>> THEN <<Said("user", Here)>> ELSE <<>>
    IN  /\ Turn("user")
        /\ messages' = messages \o results \o text
        /\ openCalls' = <<>>

-----------------------------------------------------------------------------
(* trim_history *)

(* A tool's output is dearer than a message, an image dearer than both. *)
Cost(m) == IF m.image THEN 3 ELSE IF m.role = "tool" THEN 2 ELSE 1
Tokens(ms) ==
    LET total[n \in 0..Len(ms)] == IF n = 0 THEN 0 ELSE total[n - 1] + Cost(ms[n])
    IN  total[Len(ms)]
Estimate(ms) == Tokens(ms) + ToolsCost

PreambleEnd(ms) ==
    CHOOSE n \in 0..Len(ms) :
        /\ \A i \in 1..n : ms[i].role = "system"
        /\ n < Len(ms) => ms[n + 1].role # "system"

(* The walk that forgets that an end must not begin with a tool message. *)
WalkAnywhere(ms, from, budget) ==
    LET walk[k \in 0..(Len(ms) - from)] ==
            IF k = 0 THEN [running |-> 0, over |-> FALSE, cut |-> 0]
            ELSE LET w == walk[k - 1]
                     i == Len(ms) - k + 1
                     running == w.running + Cost(ms[i])
                 IN  IF w.over \/ running > budget
                     THEN [w EXCEPT !.over = TRUE]
                     ELSE [running |-> running, over |-> FALSE, cut |-> i]
    IN  walk[Len(ms) - from].cut

(* The walk backwards, with the running cost and whether the budget has been *)
(* passed: the earliest cut that still fits, 0 if there is none.             *)
Walk(ms, from, budget) ==
    LET walk[k \in 0..(Len(ms) - from)] ==
            IF k = 0 THEN [running |-> 0, over |-> FALSE, cut |-> 0]
            ELSE LET w == walk[k - 1]
                     i == Len(ms) - k + 1
                     running == w.running + Cost(ms[i])
                 IN  IF w.over \/ running > budget
                     THEN [w EXCEPT !.over = TRUE]
                     ELSE [running |-> running, over |-> FALSE,
                           cut |-> IF IsTool(ms[i]) THEN w.cut ELSE i]
    IN  walk[Len(ms) - from].cut

Placeholder == Said("user", 0)

Trim(ms, budget) ==
    LET head == PreambleEnd(ms)
        room == budget - Tokens(SubSeq(ms, 1, head)) - Reserve
        cut == Walk(ms, head, room)
        shorter == SubSeq(ms, 1, head) \o <<Placeholder>> \o SubSeq(ms, cut, Len(ms))
    IN  IF /\ budget > 0 /\ Estimate(ms) > budget /\ Len(ms) >= 3
           /\ budget > Tokens(SubSeq(ms, 1, head)) + Reserve
           /\ cut - head - 1 >= 2
           /\ Tokens(shorter) <= budget
        THEN shorter
        ELSE ms

(* The end of the input, and RequestService._budget_history. *)
Send(budget) ==
    LET whole == IF api = "responses"
                 THEN Deferred(Answered(Flushed(messages), OpenAfterFlush))
                 ELSE messages
    IN  /\ history = "reading" /\ items # <<>>
        /\ api = "messages" => openCalls = <<>>
        /\ history' = "sent"
        /\ messages' = Trim(whole, budget)
        /\ trimmed' = [budget |-> budget, before |-> whole]
        /\ pending' = <<>> /\ openCalls' = <<>> /\ deferred' = NothingDeferred
        /\ UNCHANGED <<api, items>>

HistoryNext ==
    \/ ReadCall
    \/ \E c \in 0..Len(items) :
        /\ c # 0 => items[c].kind = "call"
        /\ ReadOutput(c)
    \/ \E readable \in BOOLEAN : ReadImage(readable)
    \/ \E role \in Speaker : ReadMessage(role)
    \/ ReadReasoning
    \/ \E n \in 0..2 : AssistantTurn(n)
    \/ \E adds \in BOOLEAN : UserTurn(adds)
    \/ \E budget \in Budget : Send(budget)

-----------------------------------------------------------------------------
(* AnthropicProvider._convert_messages: system messages leave the list, and  *)
(* a tool message joins the user turn before it when that turn is a list.     *)
(* Results are by the calls they name; that of an orphan is for "unknown".    *)

IsList(turn) == turn.role = "user" /\ turn.list
Results(m) == IF m.role = "tool" THEN <<m.answers>> ELSE <<>>
AnthropicTurn(m) ==
    [role |-> IF m.role = "assistant" THEN "assistant" ELSE "user",
     calls |-> m.calls, results |-> Results(m), list |-> IsTool(m) \/ m.image]
Added(turns, m) ==
    IF m.role = "system" THEN turns
    ELSE IF IsTool(m) /\ turns # <<>> /\ IsList(Last(turns))
         THEN [turns EXCEPT ![Len(turns)].results = @ \o Results(m)]
         ELSE Append(turns, AnthropicTurn(m))
ToAnthropic(ms) ==
    LET turns[n \in 0..Len(ms)] == IF n = 0 THEN <<>> ELSE Added(turns[n - 1], ms[n])
    IN  turns[Len(ms)]

(* GeminiProvider._convert_contents: a response goes by the name of the call, *)
(* looked up by the call's id among the calls seen so far (an orphan has none  *)
(* and goes by "function").  Which are found.                                  *)
ToGemini(ms) ==
    [j \in {n \in DOMAIN ms : ms[n].role = "tool"} |->
        \E i \in 1..(j - 1) : Contains(ms[i].calls, ms[j].answers)]

-----------------------------------------------------------------------------
(* Properties *)

(* Every call of an assistant message is answered by exactly one of the tool *)
(* messages that follow it at once, and every one of these answers one.  An   *)
(* orphan is no answer: it stands after the round like anybody's message.     *)
AnswersAfter(ms, i) ==
    {j \in (i + 1)..Len(ms) : \A k \in (i + 1)..j : ms[k].role = "tool"}
Strict(ms) ==
    /\ \A i \in DOMAIN ms :
        LET answers == AnswersAfter(ms, i)
        IN  ms[i].role # "tool" =>
              /\ {ms[j].answers : j \in answers} = ToSet(ms[i].calls)
              /\ \A j, k \in answers : ms[j].answers = ms[k].answers => j = k
    /\ ms # <<>> => Head(ms).role # "tool"

StrictTurns(ts) ==
    \A i \in DOMAIN ts :
        /\ ts[i].calls # <<>> =>
              i < Len(ts) /\ ToSet(ts[i + 1].results) = ToSet(ts[i].calls)
        /\ ts[i].results # <<>> => i > 1 /\ ts[i - 1].calls # <<>>

(* A client that calls again while a call of the round that is being         *)
(* answered still has no answer.                                            *)
Unanswered(c, n) == \A i \in c..n : items[i] # OutputItem(c)
Overlapping ==
    \E c, o, d \in DOMAIN items :
        /\ c < o /\ o < d
        /\ items[c] = CallItem /\ items[o].kind = "output" /\ items[d] = CallItem
        /\ Unanswered(c, d)
        /\ \A i \in c..d : items[i].kind \notin Speaker

(* What is kept of a history that was cut: the preamble, a line that says so, *)
(* and the longest end that fits and does not begin with a tool message.     *)
Kept(ms, whole, budget) ==
    LET head == PreambleEnd(whole)
        n == Len(ms) - head - 1
        room == budget - Tokens(SubSeq(whole, 1, head)) - Reserve
        end(k) == SubSeq(whole, Len(whole) - k + 1, Len(whole))
    IN  /\ n >= 1
        /\ ms = SubSeq(whole, 1, head) \o <<Placeholder>> \o end(n)
        /\ Tokens(ms) <= budget
        /\ \A k \in (n + 1)..(Len(whole) - head) :
              IsTool(Head(end(k))) \/ Tokens(end(k)) > room

(* What an upstream is sent is a history it can accept, in the chat form and  *)
(* in Anthropic's, and trimming takes no more than it must.  A history whose  *)
(* client calls again in the middle of a round is left out: its later        *)
(* answers stand after the wrong assistant message.  A Gemini upstream gets   *)
(* every response under its call's name.  What is not said is that an orphan   *)
(* of the client is acceptable: it goes upstream as it came, and is the one    *)
(* message of a tool there that answers nothing.                              *)
HistoryIsServable ==
    history = "sent" =>
        /\ ~Overlapping => Strict(messages) /\ StrictTurns(ToAnthropic(messages))
        /\ ~Overlapping => \A j \in DOMAIN ToGemini(messages) : ToGemini(messages)[j]
        /\ messages # trimmed.before => Kept(messages, trimmed.before, trimmed.budget)

(* The output of a tool reaches the model as the answer to its call: a made-up *)
(* answer never takes its place, unless a message of somebody ended the round  *)
(* before the output came.                                                    *)
OutputsReachTheModel ==
    (history = "sent" /\ api = "responses") =>
        \A o \in DOMAIN items :
            LET c == items[o].of
                fresh == /\ items[o].kind = "output" /\ c # 0 /\ c < o
                         /\ Unanswered(c, o - 1)
                         /\ \A i \in c..o : items[i].kind \notin Speaker
            IN  fresh => \E m \in ToSet(trimmed.before) : m = Answering(c, o)
=============================================================================
