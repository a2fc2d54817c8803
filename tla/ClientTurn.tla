----------------------------- MODULE ClientTurn -----------------------------
(***************************************************************************)
(* One turn of a client: its transcript is translated and sent to an         *)
(* upstream, whose answer is translated back.  The two translations share    *)
(* the client's protocol and nothing else.                                   *)
(***************************************************************************)
EXTENDS ChatHistory, StreamTranslation

turnVars == <<historyVars, streamVars>>

TurnInit == HistoryInit /\ StreamInit

(* _stream_response: the scheduler has opened a stream with some upstream;   *)
(* the messages of a chat client go to it as they are.                       *)
Reply ==
    /\ stage = "idle"
    /\ history = "sent" \/ (api = "chat" /\ history = "reading")
    /\ stage' = "open"
    /\ protocol' = api
    /\ dialect' \in Dialect
    /\ strip' \in BOOLEAN
    /\ history' = "answered" /\ items' = <<>> /\ messages' = <<>> /\ trimmed' = NotTrimmed
    /\ UNCHANGED <<api, pending, openCalls, deferred, upstream, toolIndex, end,
                   slots, stopReason, outbox, item, ended>>

TurnNext ==
    \/ HistoryNext /\ UNCHANGED streamVars
    \/ Reply
    \/ StreamNext /\ UNCHANGED historyVars

TurnSpec == TurnInit /\ [][TurnNext]_turnVars
=============================================================================
