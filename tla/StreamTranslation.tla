-------------------------- MODULE StreamTranslation --------------------------
(***************************************************************************)
(* The way out: an adapter turns what an upstream streams into chunks, and   *)
(* the endpoint turns chunks into the events of the client's protocol.       *)
(*                                                                          *)
(* What the upstream says is cut into numbered pieces of text, of thinking   *)
(* or of a tool call; an item of the client shows the pieces it was given.   *)
(***************************************************************************)
EXTENDS Naturals, Sequences, FiniteSets, SequencesExt

CONSTANTS
    Dialect,     \* the upstreams' protocols
    MaxPieces,   \* bound: pieces of an answer
    MaxCalls     \* bound: tool calls of an answer

StreamAssumption ==
    /\ Dialect \subseteq {"openai", "unindexed", "anthropic", "gemini", "ollama"}
    /\ MaxPieces \in Nat /\ MaxCalls \in Nat

ASSUME StreamAssumption

(* OpenAI-compatible upstreams number the calls of an answer and send them   *)
(* in parts, or send each one whole and without a number.                    *)
Compatible == {"openai", "unindexed"}

Slot == {"text", "thinking", "call"}

(* How an upstream ends an answer: with its word for a stop, at a limit of    *)
(* its own (too long, or filtered), over a call that it got wrong (Gemini),   *)
(* with a word the gateway does not know, or without any.                     *)
Ending == {"ended", "length", "malformed", "other", "cut"}

VARIABLES
    stage,      \* "idle", "open" while the upstream streams, "over" at its end
    dialect,    \* the upstream's protocol
    protocol,   \* the client's
    strip,      \* strip_reasoning
    sent,       \* the pieces the upstream has sent: what each is part of
    calls,      \* tool calls it has begun
    block,      \* the kind of its current block (Anthropic)
    toolIndex,  \* the adapter's number for the latest call
    bursts,     \* messages that carried calls (Ollama)
    end,        \* how it ended: "no", one of Ending, "error"
    slots,      \* the assembler's open blocks or items, in opening order
    stopReason, \* its stop reason
    outbox,     \* events that it has still to yield
    item, ended \* what the client has been shown

upstream == <<sent, calls, block, bursts>>
streamVars == <<stage, dialect, protocol, strip, upstream, toolIndex, end,
                slots, stopReason, outbox, item, ended>>

StreamInit ==
    /\ stage = "idle"
    /\ dialect = "none" /\ protocol = "none" /\ strip = FALSE
    /\ sent = <<>> /\ calls = 0 /\ block = "none" /\ bursts = 0
    /\ toolIndex = 0
    /\ end = "no"
    /\ slots = <<>> /\ stopReason = "none" /\ outbox = <<>>
    /\ item = <<>> /\ ended = "no"

-----------------------------------------------------------------------------
(* Chunks: a piece of content, perhaps recovered from the reasoning, a piece *)
(* of reasoning, parts of calls, a finish reason.  Piece 0 is none.          *)

Blank == [text |-> 0, recovered |-> FALSE, thinking |-> 0, calls |-> <<>>, finish |-> "none"]

NoIndex == 0
Part(index, id, piece) == [index |-> index, id |-> id, piece |-> piece]

NextPiece == Len(sent) + 1

(* The recovery that does not mark what it recovers. *)
RecoveredUnmarked(chunk) ==
    IF chunk.thinking # 0 /\ chunk.text = 0
    THEN [chunk EXCEPT !.text = chunk.thinking, !.thinking = 0]
    ELSE chunk

(* ChatCompletionChunkChoice.recover_reasoning_only_delta *)
Recovered(chunk) ==
    IF chunk.thinking # 0 /\ chunk.text = 0
    THEN [chunk EXCEPT !.text = chunk.thinking, !.recovered = TRUE, !.thinking = 0]
    ELSE chunk

-----------------------------------------------------------------------------
(* The assemblers: _StreamAssembler.feed_chunk, _ResponsesAssembler.feed_chunk *)
(* and, for chat, the chunk itself as a client merges it.                     *)

Opens(n, kind, id) == [do |-> "open", index |-> n, kind |-> kind, id |-> id, piece |-> 0]
Says(n, p) == [do |-> "say", index |-> n, kind |-> "", id |-> 0, piece |-> p]
Closes(n) == [do |-> "close", index |-> n, kind |-> "", id |-> 0, piece |-> 0]
Ends(how) == [do |-> how, index |-> 0, kind |-> "", id |-> 0, piece |-> 0]

(* _ensure_singleton, _ensure_message, _ensure_tool_block, _open_call: the    *)
(* place of a slot, at the end when it has to be opened.                     *)
SlotOf(kind, key) == [kind |-> kind, key |-> key]
Place(ss, slot) ==
    IF Contains(ss, slot)
    THEN CHOOSE n \in DOMAIN ss : ss[n] = slot
    ELSE Len(ss) + 1

CallSlots(ss) == Cardinality({i \in DOMAIN ss : ss[i].kind = "call"})

Feed(work, kind, index, id, piece) ==
    LET slot == SlotOf(kind, IF index = NoIndex /\ kind = "call"
                             THEN CallSlots(work.slots) + 1 ELSE index)
        n == Place(work.slots, slot)
        opening == IF Contains(work.slots, slot) THEN <<>> ELSE <<Opens(n, kind, id)>>
        saying == IF piece = 0 THEN <<>> ELSE <<Says(n, piece)>>
    IN  [slots |-> IF opening = <<>> THEN work.slots ELSE Append(work.slots, slot),
         events |-> work.events \o opening \o saying]

FedCalls(work, chunk) ==
    LET fed[k \in 0..Len(chunk.calls)] ==
            IF k = 0 THEN work
            ELSE LET part == chunk.calls[k]
                 IN  Feed(fed[k - 1], "call", part.index, part.id, part.piece)
    IN  fed[Len(chunk.calls)]
FedText(work, chunk) ==
    IF chunk.text # 0 /\ ~(chunk.recovered /\ strip)
    THEN Feed(work, "text", 0, 0, chunk.text) ELSE work
FedThinking(work, chunk) ==
    IF chunk.thinking # 0 /\ ~strip
    THEN Feed(work, "thinking", 0, 0, chunk.thinking) ELSE work

MessagesFeed(work, chunk) == FedCalls(FedText(FedThinking(work, chunk), chunk), chunk)
ResponsesFeed(work, chunk) == FedCalls(FedText(work, chunk), chunk)
ChatFeed(work, chunk) == FedCalls(FedText(FedThinking(work, chunk), chunk), chunk)

Fed(chunk) ==
    LET work == [slots |-> slots, events |-> <<>>]
    IN  CASE protocol = "messages" -> MessagesFeed(work, chunk)
          [] protocol = "responses" -> ResponsesFeed(work, chunk)
          [] protocol = "chat" -> ChatFeed(work, chunk)

Emit(chunk) ==
    LET fed == Fed(chunk)
    IN  /\ outbox' = fed.events
        /\ slots' = fed.slots
        /\ stopReason' = IF chunk.finish = "none" THEN stopReason ELSE chunk.finish

-----------------------------------------------------------------------------
(* What the upstream sends next, and what its adapter makes of it *)

Streaming(d) == stage = "open" /\ end = "no" /\ outbox = <<>> /\ dialect \in d
Rest == <<stage, dialect, protocol, strip, end, item, ended>>
Sends(kind, call) == sent' = Append(sent, [kind |-> kind, call |-> call])
Room(n) == Len(sent) + n <= MaxPieces

(* OpenAICompatibleProvider.stream *)
CompatibleText ==
    /\ Streaming(Compatible) /\ Room(1)
    /\ Sends("text", 0)
    /\ Emit([Blank EXCEPT !.text = NextPiece])
    /\ UNCHANGED <<Rest, calls, block, bursts, toolIndex>>

CompatibleThinking ==
    /\ Streaming(Compatible) /\ Room(1)
    /\ Sends("thinking", 0)
    /\ Emit(Recovered([Blank EXCEPT !.thinking = NextPiece]))
    /\ UNCHANGED <<Rest, calls, block, bursts, toolIndex>>

CompatibleBoth ==
    /\ Streaming(Compatible) /\ Room(2)
    /\ sent' = sent \o <<[kind |-> "thinking", call |-> 0], [kind |-> "text", call |-> 0]>>
    /\ Emit(Recovered([Blank EXCEPT !.thinking = NextPiece, !.text = NextPiece + 1]))
    /\ UNCHANGED <<Rest, calls, block, bursts, toolIndex>>

CompatibleCall(c) ==
    /\ Streaming(Compatible) /\ Room(1)
    /\ c <= MaxCalls
    /\ c = calls + 1 \/ (c \in 1..calls /\ dialect = "openai")
    /\ Sends("call", c)
    /\ calls' = IF c > calls THEN c ELSE calls
    /\ Emit([Blank EXCEPT !.calls =
                <<Part(IF dialect = "openai" THEN c ELSE NoIndex, c, NextPiece)>>])
    /\ UNCHANGED <<Rest, block, bursts, toolIndex>>

(* AnthropicProvider.stream: the start of a block says what it is, the start *)
(* of a call is a chunk of its own, deltas belong to the latest block.       *)
BlockStart(kind) ==
    /\ Streaming({"anthropic"})
    /\ kind = "call" => calls < MaxCalls
    /\ kind # block \/ kind = "call"
    /\ block' = kind
    /\ IF kind = "call"
       THEN /\ calls' = calls + 1 /\ toolIndex' = toolIndex + 1
            /\ Emit([Blank EXCEPT !.calls = <<Part(toolIndex + 1, calls + 1, 0)>>])
       ELSE UNCHANGED <<calls, toolIndex, slots, stopReason, outbox>>
    /\ UNCHANGED <<Rest, sent, bursts>>

BlockDelta ==
    /\ Streaming({"anthropic"}) /\ Room(1) /\ block # "none"
    /\ Sends(block, IF block = "call" THEN calls ELSE 0)
    /\ Emit(CASE block = "text" -> [Blank EXCEPT !.text = NextPiece]
              [] block = "thinking" -> [Blank EXCEPT !.thinking = NextPiece]
              [] block = "call" ->
                    [Blank EXCEPT !.calls = <<Part(toolIndex, 0, NextPiece)>>])
    /\ UNCHANGED <<Rest, calls, block, bursts, toolIndex>>

(* GeminiProvider.stream: parts that are text (a thought is one, too) or a   *)
(* whole function call, which the adapter numbers.                           *)
GeminiText(kind) ==
    /\ Streaming({"gemini"}) /\ Room(1)
    /\ Sends(kind, 0)
    /\ Emit([Blank EXCEPT !.text = NextPiece])
    /\ UNCHANGED <<Rest, calls, block, bursts, toolIndex>>

(* A call that keeps the number of the one before it. *)
GeminiCallUnnumbered ==
    /\ Streaming({"gemini"}) /\ Room(1) /\ calls < MaxCalls
    /\ Sends("call", calls + 1)
    /\ calls' = calls + 1
    /\ Emit([Blank EXCEPT !.calls = <<Part(toolIndex + 1, calls + 1, NextPiece)>>])
    /\ UNCHANGED <<Rest, block, bursts, toolIndex>>

GeminiCall ==
    /\ Streaming({"gemini"}) /\ Room(1) /\ calls < MaxCalls
    /\ Sends("call", calls + 1)
    /\ calls' = calls + 1 /\ toolIndex' = toolIndex + 1
    /\ Emit([Blank EXCEPT !.calls = <<Part(toolIndex + 1, calls + 1, NextPiece)>>])
    /\ UNCHANGED <<Rest, block, bursts>>

(* OllamaProvider.stream: a message may carry content and whole calls, which *)
(* _normalize_tool_calls numbers from the first of this message on.  They    *)
(* travel in two chunks, the content in the first.                           *)
OllamaMessage(text, n) ==
    LET base == Len(sent) + (IF text THEN 1 ELSE 0)
    IN  /\ Streaming({"ollama"})
        /\ text \/ n > 0
        /\ base + n <= MaxPieces /\ calls + n <= MaxCalls
        /\ sent' = sent \o (IF text THEN <<[kind |-> "text", call |-> 0]>> ELSE <<>>)
                        \o [k \in 1..n |-> [kind |-> "call", call |-> calls + k]]
        /\ calls' = calls + n
        /\ bursts' = IF n > 0 THEN bursts + 1 ELSE bursts
        /\ Emit([Blank EXCEPT
                !.text = IF text THEN base ELSE 0,
                !.calls = [k \in 1..n |-> Part(k, calls + k, base + k)]])
        /\ UNCHANGED <<Rest, block, toolIndex>>

-----------------------------------------------------------------------------
(* The end: in its own form, without one, or with an error *)

(* The upstream's reason in the words of the gateway: Gemini and Ollama say    *)
(* "stop" of an answer that calls tools, too; a malformed call of Gemini is    *)
(* translated as a call; a word that is not in the table stays as it is.       *)
Reason(how) ==
    CASE how = "ended" -> IF calls > 0 /\ dialect \notin {"gemini", "ollama"}
                          THEN "tool_calls" ELSE "stop"
      [] how = "malformed" -> "tool_calls"
      [] how = "cut" -> "none"
      [] OTHER -> how

(* The last chunk of the adapter. *)
FinalReason(how) ==
    LET reason == IF Reason(how) = "none" /\ dialect \notin Compatible
                  THEN "stop" ELSE Reason(how)
    IN  IF dialect = "gemini" /\ toolIndex > 0 /\ reason = "stop" THEN "tool_calls" ELSE reason

(* /v1/messages has words of its own, and "end_turn" for whatever is not among *)
(* those it translates.                                                        *)
ReasonTold(reason) ==
    IF protocol = "messages" /\ reason \in {"none", "other"} THEN "stop" ELSE reason

(* Only as many items closed as there are calls. *)
FinishCalls ==
    [n \in 1..CallSlots(slots) |-> Closes(n)] \o <<Ends("completed")>>

(* The assemblers' finish(): every open block or item is closed, in opening   *)
(* order, and then the answer.                                               *)
Finish == [n \in DOMAIN slots |-> Closes(n)] \o <<Ends("completed")>>

UpstreamEnds(how) ==
    /\ Streaming(Dialect)
    /\ how # "cut" => sent # <<>> \/ calls > 0
    /\ how = "malformed" => dialect = "gemini"
    /\ end' = how
    /\ stopReason' = ReasonTold(FinalReason(how))
    /\ outbox' = Finish
    /\ slots' = <<>>
    /\ UNCHANGED <<stage, dialect, protocol, strip, upstream, toolIndex, item, ended>>

(* error_event(), failed(): the items stay as they are. *)
UpstreamFails ==
    /\ Streaming(Dialect)
    /\ sent # <<>> \/ calls > 0
    /\ end' = "error"
    /\ outbox' = <<Ends("failed")>>
    /\ UNCHANGED <<stage, dialect, protocol, strip, upstream, toolIndex, slots,
                   stopReason, item, ended>>

-----------------------------------------------------------------------------
(* The client does what it is told, sensible or not. *)

Shown(e) ==
    CASE e.do = "open" ->
            LET fresh == [kind |-> e.kind, id |-> e.id, said |-> <<>>, open |-> TRUE]
            IN  IF e.index \in DOMAIN item THEN [item EXCEPT ![e.index] = fresh]
                ELSE Append(item, fresh)
      [] e.do = "say" -> [item EXCEPT ![e.index].said = Append(@, e.piece)]
      [] e.do = "close" -> [item EXCEPT ![e.index].open = FALSE]
      [] OTHER -> item

Yield ==
    /\ stage = "open" /\ outbox # <<>>
    /\ outbox' = Tail(outbox)
    /\ item' = Shown(Head(outbox))
    /\ ended' = IF Head(outbox).do \in {"completed", "failed"} THEN Head(outbox).do ELSE ended
    /\ stage' = IF ended' = "no" THEN "open" ELSE "over"
    /\ UNCHANGED <<dialect, protocol, strip, upstream, toolIndex, end, slots, stopReason>>

(* The client goes away. *)
Leave ==
    /\ stage = "open"
    /\ stage' = "over"
    /\ UNCHANGED <<dialect, protocol, strip, upstream, toolIndex, end, slots,
                   stopReason, outbox, item, ended>>

StreamNext ==
    \/ CompatibleText \/ CompatibleThinking \/ CompatibleBoth
    \/ \E c \in 1..MaxCalls : CompatibleCall(c)
    \/ \E kind \in Slot : BlockStart(kind)
    \/ BlockDelta
    \/ \E kind \in {"text", "thinking"} : GeminiText(kind)
    \/ GeminiCall
    \/ \E text \in BOOLEAN, n \in 0..MaxCalls : OllamaMessage(text, n)
    \/ \E how \in Ending : UpstreamEnds(how)
    \/ UpstreamFails
    \/ Yield
    \/ Leave

-----------------------------------------------------------------------------
(* The same answer without streaming: normalize_response of the adapter,     *)
(* _recover_reasoning_only_content, and the endpoint's rendering.            *)

InOrder(P) ==
    CHOOSE s \in [1..Cardinality(P) -> P] : \A i, j \in DOMAIN s : i < j => s[i] < s[j]

Spoken(kind) == InOrder({p \in DOMAIN sent : sent[p].kind = kind})
CallPieces(c) == InOrder({p \in DOMAIN sent : sent[p].kind = "call" /\ sent[p].call = c})

CallsSent == [c \in 1..calls |-> CallPieces(c)]

NormalizeCompatible ==
    [text |-> Spoken("text"), thinking |-> Spoken("thinking"), calls |-> CallsSent]
NormalizeAnthropic ==
    [text |-> Spoken("text"), thinking |-> Spoken("thinking"), calls |-> CallsSent]
(* Thoughts do not get into the answer. *)
NormalizeGemini == [text |-> Spoken("text"), thinking |-> <<>>, calls |-> CallsSent]
NormalizeOllama == [text |-> Spoken("text"), thinking |-> <<>>, calls |-> CallsSent]

(* Thinking takes the place of an answer that has neither text nor calls. *)
Recover(r) ==
    IF r.text = <<>> /\ r.calls = <<>> /\ r.thinking # <<>>
    THEN [text |-> r.thinking, thinking |-> <<>>, calls |-> <<>>, recovered |-> TRUE]
    ELSE [text |-> r.text, thinking |-> r.thinking, calls |-> r.calls, recovered |-> FALSE]

Normalized ==
    Recover(CASE dialect \in Compatible -> NormalizeCompatible
              [] dialect = "anthropic" -> NormalizeAnthropic
              [] dialect = "gemini" -> NormalizeGemini
              [] dialect = "ollama" -> NormalizeOllama)

Given(kind, id, said) == [kind |-> kind, id |-> id, said |-> said]
If(shown, kind, said) == IF shown /\ said # <<>> THEN {Given(kind, 0, said)} ELSE {}
GivenCalls(r) == {Given("call", c, r.calls[c]) : c \in DOMAIN r.calls}

MessagePayload(r) ==
    If(~strip, "thinking", r.thinking) \cup If(TRUE, "text", r.text) \cup GivenCalls(r)

ResponsesOutput(r) == If(~(strip /\ r.recovered), "text", r.text) \cup GivenCalls(r)

ChatBody(r) ==
    If(~strip, "thinking", r.thinking) \cup If(~(strip /\ r.recovered), "text", r.text)
        \cup GivenCalls(r)

WholeAnswer ==
    CASE protocol = "messages" -> MessagePayload(Normalized)
      [] protocol = "responses" -> ResponsesOutput(Normalized)
      [] protocol = "chat" -> ChatBody(Normalized)

StreamedAnswer == {Given(item[i].kind, item[i].id, item[i].said) : i \in DOMAIN item}

-----------------------------------------------------------------------------
(* Properties *)

Grammar == INSTANCE EventGrammar WITH
    Kind <- Slot, Id <- 0..MaxCalls, Piece <- 1..MaxPieces

(* Both SSE endpoints keep to the grammar their clients rely on: items are    *)
(* announced, filled, closed and only then is the answer complete.            *)
FollowsGrammar == Grammar!Spec

(* Where the two translations are known to disagree: an OpenAI-compatible      *)
(* stream moves reasoning into the text before it can know that text follows;  *)
(* an Anthropic stream cannot promote thinking that nothing follows, and       *)
(* /v1/messages shows promoted thinking that it should hide; Gemini's thoughts *)
(* are only dropped without streaming; Ollama's calls are numbered anew in     *)
(* every message, which makes one of two.                                      *)
OnlyThinking == Spoken("text") = <<>> /\ calls = 0 /\ Spoken("thinking") # <<>>
ModesDiffer ==
    \/ dialect \in Compatible /\ ~strip /\ Spoken("thinking") # <<>> /\ ~OnlyThinking
    \/ OnlyThinking /\ dialect = "anthropic"
    \/ OnlyThinking /\ strip /\ protocol = "messages"
    \/ dialect = "gemini" /\ Spoken("thinking") # <<>>
    \/ bursts > 1

(* A client sees the same answer streamed and whole: no piece is lost, shown   *)
(* twice or out of order, and no call gets a piece of another.                 *)
ModesAgree == (ended = "completed" /\ ~ModesDiffer) => StreamedAnswer = WholeAnswer

(* strip_reasoning hides every piece of thinking in a stream, the recovered    *)
(* ones, too; Gemini's thoughts are not known to be thinking.                  *)
ThinkingIsHidden ==
    (strip /\ dialect # "gemini") =>
        \A i \in DOMAIN item : \A k \in DOMAIN item[i].said :
            sent[item[i].said[k]].kind # "thinking"

(* An agent goes on only when the answer says that it stopped to call tools:   *)
(* what chat and messages say of a stream that ended as it should is that it   *)
(* hit a limit, or else that it calls tools exactly when it shows calls.  It    *)
(* is not said of Ollama, which says "stop" of calls, too; of a call that       *)
(* Gemini got wrong, which is reported as a call and is none; or of a word the  *)
(* gateway does not know, which messages turns into the end of a turn even      *)
(* after calls.  /v1/responses keeps the reason and never shows it.             *)
StopReasonFits ==
    (/\ ended = "completed" /\ end \in {"ended", "length"}
     /\ dialect # "ollama" /\ protocol # "responses") =>
        stopReason = IF end = "length" THEN "length"
                     ELSE IF \E i \in DOMAIN item : item[i].kind = "call"
                          THEN "tool_calls" ELSE "stop"
=============================================================================
