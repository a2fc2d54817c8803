------------------------------- MODULE MCClient -------------------------------
(* A transcript of five items and an answer of four pieces with at most two calls, for every *)
(* endpoint and every kind of upstream.                                                      *)
EXTENDS ClientTurn

-----------------------------------------------------------------------------
\* What reaches the model (ChatHistory): messages an upstream accepts, but for what a client says
\* in the name of a tool without a call, with every output of a tool it sent (_translate_input,
\* _trim_request).
HistoryIsWhole == HistoryIsServable /\ OutputsReachTheModel

\* What the client is shown (StreamTranslation): hidden thinking stays hidden, and the stop
\* reason says whether a limit was hit or calls are shown, but for Ollama, malformed calls and
\* unknown words (recover_reasoning_only_delta, _normalize_finish_reason, the endpoints' finish).
AnswerIsProper == ThinkingIsHidden /\ StopReasonFits

\* Streaming and not streaming show the same (api/messages.py, api/responses.py, api/chat.py).
StreamingIsNoDifferent == ModesAgree
=============================================================================
