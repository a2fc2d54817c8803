----------------------------- MODULE RequestAudit -----------------------------
(***************************************************************************)
(* What the gateway writes down about the requests it serves: the row in   *)
(* requests, the rows in request_attempts and the bill in usage_records    *)
(* (app/services/request_service.py, app/database/repositories/request.py, *)
(* app/services/usage_service.py), and the endpoints that read the stream  *)
(* and stop reading it (app/api/chat.py, messages.py, responses.py).       *)
(*                                                                         *)
(* Sessions of the database are serialized by one lock and served first    *)
(* come first served, so a write is one step and a write that goes on in   *)
(* the background (asyncio.shield) still comes before the next one.        *)
(***************************************************************************)
EXTENDS Naturals, FiniteSets

CONSTANTS
    Calls,          \* the client requests
    Ids,            \* request ids: a client may send the X-Request-Id it likes
    MaxAttempts,    \* bound: upstream attempts of a call
    MaxMishaps      \* bound: database writes that fail and crashes of the process

VARIABLES
    pc,         \* [Calls -> where the call stands]
    mode,       \* [Calls -> "whole", "chat" or "events"]: no stream, /v1/chat/completions,
                \*  /v1/messages and /v1/responses
    rid,        \* [Calls -> request_id]
    tried,      \* [Calls -> upstream attempts made]
    known,      \* [Calls -> outcomes the service has in hand (attempts_sink, exc.attempts)]
    flags,      \* [Calls -> what the finalizer will know: "meta", "error", "cancelled",
                \*  "terminated"]
    fate,       \* history: [Calls -> what really happened: "open", "answered", "failed",
                \*  "left", "cut" (left while its answer was being booked)]
    left,       \* [Calls -> the client was cancelled, once]
    row,        \* [Ids -> the row in requests, NoRow when there is none]
    trail,      \* [Ids -> rows in request_attempts]
    bill,       \* [Ids -> rows in usage_records]
    up,         \* the process runs
    mishaps,
    spoilt      \* history: ids whose record a failed write, a crash or a sweep cut short

callVars == <<pc, mode, rid, tried, known, flags, fate, left>>
tables == <<row, trail, bill>>
hist == <<up, mishaps, spoilt>>
vars == <<callVars, tables, hist>>

NoRow == [status |-> "none", count |-> 0]
Statuses == {"none", "pending", "success", "error", "cancelled"}

Streams == {"chat", "events"}

TypeOK ==
    /\ pc \in [Calls -> {"idle", "start", "gate", "upstream", "chunks", "broken", "usage",
                         "meta", "end", "bill", "trail", "close", "over"}]
    /\ mode \in [Calls -> {"whole"} \cup Streams] /\ rid \in [Calls -> Ids]
    /\ tried \in [Calls -> 0 .. MaxAttempts] /\ known \in [Calls -> 0 .. MaxAttempts]
    /\ flags \in [Calls -> SUBSET {"meta", "error", "cancelled", "terminated"}]
    /\ left \in [Calls -> BOOLEAN]
    /\ fate \in [Calls -> {"open", "answered", "failed", "left", "cut"}]
    /\ row \in [Ids -> [status : Statuses, count : 0 .. MaxAttempts]]
    /\ trail \in [Ids -> Nat] /\ bill \in [Ids -> Nat]
    /\ up \in BOOLEAN /\ mishaps \in 0 .. MaxMishaps
    /\ spoilt \subseteq Ids

Init ==
    /\ pc = [c \in Calls |-> "idle"]
    /\ mode \in [Calls -> {"whole"} \cup Streams] /\ rid \in [Calls -> Ids]
    /\ tried = [c \in Calls |-> 0] /\ known = [c \in Calls |-> 0]
    /\ flags = [c \in Calls |-> {}] /\ left = [c \in Calls |-> FALSE]
    /\ fate = [c \in Calls |-> "open"]
    /\ row = [i \in Ids |-> NoRow]
    /\ trail = [i \in Ids |-> 0] /\ bill = [i \in Ids |-> 0]
    /\ up = TRUE /\ mishaps = 0 /\ spoilt = {}

-----------------------------------------------------------------------------
(* Steps of a call: guarded by up and by where the call stands. *)

At(c, where) == up /\ pc[c] = where
Goto(c, where) == pc' = [pc EXCEPT ![c] = where]
Ends(c, how) == fate' = [fate EXCEPT ![c] = how]
Flag(c, what) == flags' = [flags EXCEPT ![c] = @ \cup {what}]
Whole(c) == mode[c] = "whole"

\* A write to the database does what ok says, or fails and is logged away.
Write(c, ok) ==
    \/ ok /\ UNCHANGED <<mishaps, spoilt>>
    \/ /\ mishaps < MaxMishaps /\ mishaps' = mishaps + 1
       /\ spoilt' = spoilt \cup {rid[c]}
       /\ UNCHANGED tables

\* chat() weighs the request before there is a row for it (estimated_input_tokens may be
\* more than any deployment takes); stream() writes the row first.
Arrive(c) ==
    /\ At(c, "idle")
    /\ \/ Goto(c, "start") /\ UNCHANGED fate
       \/ Whole(c) /\ Goto(c, "over") /\ Ends(c, "failed")
    /\ UNCHANGED <<mode, rid, tried, known, flags, left, tables, hist>>

\* start: a second row under the id of a first one violates the primary key: not made.
Start(c) ==
    /\ At(c, "start") /\ Goto(c, IF Whole(c) THEN "upstream" ELSE "gate")
    /\ Write(c, IF row[rid[c]].status = "none"
                THEN /\ row' = [row EXCEPT ![rid[c]] = [NoRow EXCEPT !.status = "pending"]]
                     /\ UNCHANGED <<trail, bill>>
                ELSE UNCHANGED tables)
    /\ UNCHANGED <<mode, rid, tried, known, flags, fate, left, up>>

\* The gate of stream() is inside the try block, so a refused request is finalized too.
Gate(c) ==
    /\ At(c, "gate")
    /\ \/ Goto(c, "upstream") /\ UNCHANGED <<flags, fate>>
       \/ Goto(c, "bill") /\ Flag(c, "error") /\ Ends(c, "failed")
    /\ UNCHANGED <<mode, rid, tried, known, left, tables, hist>>

\* An attempt fails and the scheduler goes on to the next one.
AttemptFails(c) ==
    /\ At(c, "upstream") /\ tried[c] < MaxAttempts
    /\ tried' = [tried EXCEPT ![c] = @ + 1] /\ known' = [known EXCEPT ![c] = @ + 1]
    /\ UNCHANGED <<pc, mode, rid, flags, fate, left, tables, hist>>

\* No further attempt. AllAttemptsFailedError carries the attempts; the error of a call not
\* worth repeating (ABORT) and that of the time budget do not, and chat() knows of the
\* attempts only what the error tells it.
GivesUp(c) ==
    /\ At(c, "upstream")
    /\ \E told \in BOOLEAN :
        known' = [known EXCEPT ![c] = IF Whole(c) /\ ~told THEN 0 ELSE @]
    /\ Goto(c, IF Whole(c) THEN "trail" ELSE "bill")
    /\ Flag(c, "error") /\ Ends(c, "failed")
    /\ UNCHANGED <<mode, rid, tried, left, tables, hist>>

\* The whole answer, or the first chunk of a stream, whose attempt is known when it ended.
Opens(c) ==
    /\ At(c, "upstream") /\ tried[c] < MaxAttempts
    /\ tried' = [tried EXCEPT ![c] = @ + 1]
    /\ IF Whole(c)
       THEN /\ known' = [known EXCEPT ![c] = @ + 1]
            /\ Goto(c, "bill") /\ Flag(c, "meta") /\ Ends(c, "answered")
       ELSE Goto(c, "chunks") /\ UNCHANGED <<known, flags, fate>>
    /\ UNCHANGED <<mode, rid, left, tables, hist>>

StreamEnds(c) ==
    /\ At(c, "chunks")
    /\ known' = [known EXCEPT ![c] = @ + 1]
    /\ Goto(c, "usage") /\ Ends(c, "answered")
    /\ UNCHANGED <<mode, rid, tried, flags, left, tables, hist>>

\* The error event passes the service on its way to the reader.
StreamBreaks(c) ==
    /\ At(c, "chunks")
    /\ Goto(c, "broken") /\ Flag(c, "error") /\ Ends(c, "failed")
    /\ UNCHANGED <<mode, rid, tried, known, left, tables, hist>>

\* /v1/chat/completions reads on and the scheduler records the attempt; the others close the
\* generator at once, which to the service looks like a client that left.
ErrorRead(c) ==
    /\ At(c, "broken")
    /\ IF mode[c] = "chat"
       THEN known' = [known EXCEPT ![c] = @ + 1] /\ Goto(c, "usage") /\ UNCHANGED flags
       ELSE Goto(c, "bill") /\ Flag(c, "cancelled") /\ UNCHANGED known
    /\ UNCHANGED <<mode, rid, tried, fate, left, tables, hist>>

UsageRead(c) ==
    /\ At(c, "usage") /\ Goto(c, "meta") /\ Flag(c, "meta")
    /\ UNCHANGED <<mode, rid, tried, known, fate, left, tables, hist>>

MetaRead(c) ==
    /\ At(c, "meta") /\ Goto(c, "end") /\ Flag(c, "terminated")
    /\ UNCHANGED <<mode, rid, tried, known, fate, left, tables, hist>>

\* mutant: closing the generator always counts as a client that left.
EndAsLeaving(c) ==
    /\ At(c, "end") /\ Goto(c, "bill") /\ Flag(c, "cancelled")
    /\ UNCHANGED <<mode, rid, tried, known, fate, left, tables, hist>>

\* The reader stops at the end event and closes the generator: terminated, not cancelled.
EndRead(c) ==
    /\ At(c, "end") /\ Goto(c, "bill")
    /\ UNCHANGED <<mode, rid, tried, known, flags, fate, left, tables, hist>>

-----------------------------------------------------------------------------
(* The client goes away, or whoever awaits the call cancels it. *)

\* During _start the cancellation hits _guard, which swallows it: the call goes on.
LeaveAtStart(c) == At(c, "start") /\ UNCHANGED <<pc, tried, known, flags, fate>>

\* execute() and stream() record the attempt as cancelled; chat() drops the list. Nothing is
\* in flight while the scheduler waits for a key or backs off.
LeaveUpstream(c) ==
    /\ At(c, "upstream")
    /\ \E n \in {0, 1} :
        /\ tried[c] + n <= MaxAttempts
        /\ tried' = [tried EXCEPT ![c] = @ + n]
        /\ known' = [known EXCEPT ![c] = IF Whole(c) THEN 0 ELSE @ + n]
    /\ Goto(c, IF Whole(c) THEN "trail" ELSE "bill")
    /\ Flag(c, "cancelled") /\ Ends(c, "left")

\* A stream left before its end event: an attempt still in flight is on no list.
LeaveStream(c) ==
    /\ \E where \in {"chunks", "broken", "usage", "meta"} : At(c, where)
    /\ Goto(c, "bill") /\ Flag(c, "cancelled")
    /\ Ends(c, IF fate[c] = "open" THEN "left" ELSE fate[c])
    /\ UNCHANGED <<tried, known>>

\* chat() books the usage of an answer without a shield: nothing more is written.
LeaveBooking(c) ==
    /\ At(c, "bill") /\ Whole(c)
    /\ Goto(c, "over") /\ Ends(c, "cut")
    /\ UNCHANGED <<tried, known, flags>>

\* The writes of the finalizers are shielded and swallow the cancellation.
Leave(c) ==
    /\ ~left[c] /\ left' = [left EXCEPT ![c] = TRUE]
    /\ LeaveAtStart(c) \/ LeaveUpstream(c) \/ LeaveStream(c) \/ LeaveBooking(c)
    /\ UNCHANGED <<mode, rid, tables, hist>>

-----------------------------------------------------------------------------
(* The finalizers: _finalize_success, _finalize_failure, _finish_stream *)

\* usage.record, once the answer (of a stream: its metadata) is there; a failure is logged.
Bill(c) ==
    /\ At(c, "bill") /\ Goto(c, "trail")
    /\ IF "meta" \in flags[c]
       THEN Write(c, bill' = [bill EXCEPT ![rid[c]] = @ + 1] /\ UNCHANGED <<row, trail>>)
       ELSE UNCHANGED <<tables, mishaps, spoilt>>
    /\ UNCHANGED <<mode, rid, tried, known, flags, fate, left, up>>

\* add_attempts: writes all the attempts or none, and none without the row they refer to
\* (foreign key). A stream whose attempts cannot be written is not closed either: one _guard
\* is around both writes.
Trail(c) ==
    /\ At(c, "trail")
    /\ \/ /\ known[c] = 0
          /\ Goto(c, "close") /\ UNCHANGED <<tables, mishaps, spoilt>>
       \/ /\ known[c] > 0 /\ row[rid[c]].status # "none"
          /\ trail' = [trail EXCEPT ![rid[c]] = @ + known[c]]
          /\ Goto(c, "close") /\ UNCHANGED <<row, bill, mishaps, spoilt>>
       \/ /\ known[c] > 0
          /\ IF row[rid[c]].status = "none" THEN UNCHANGED mishaps
             ELSE mishaps < MaxMishaps /\ mishaps' = mishaps + 1
          /\ spoilt' = spoilt \cup {rid[c]}
          /\ Goto(c, IF Whole(c) THEN "close" ELSE "over") /\ UNCHANGED tables
    /\ UNCHANGED <<mode, rid, tried, known, flags, fate, left, up>>

Verdict(c) ==
    IF "cancelled" \in flags[c] THEN "cancelled"
    ELSE IF "meta" \in flags[c] /\ "error" \notin flags[c] THEN "success" ELSE "error"

\* meta.attempt of a stream is the number of its last attempt.
Count(c) == IF Whole(c) \/ "meta" \notin flags[c] THEN known[c] ELSE tried[c]

\* mutant: the row of an answered call only is closed.
CloseAnswered(c) ==
    /\ At(c, "close") /\ Goto(c, "over")
    /\ Write(c, /\ row' = IF row[rid[c]].status = "none" \/ "meta" \notin flags[c] THEN row
                          ELSE [row EXCEPT ![rid[c]] = [status |-> Verdict(c), count |-> Count(c)]]
                /\ UNCHANGED <<trail, bill>>)
    /\ UNCHANGED <<mode, rid, tried, known, flags, fate, left, up>>

\* finish: a request without a row is only logged.
Close(c) ==
    /\ At(c, "close") /\ Goto(c, "over")
    /\ Write(c, /\ row' = IF row[rid[c]].status = "none" THEN row
                          ELSE [row EXCEPT ![rid[c]] = [status |-> Verdict(c), count |-> Count(c)]]
                /\ UNCHANGED <<trail, bill>>)
    /\ UNCHANGED <<mode, rid, tried, known, flags, fate, left, up>>

-----------------------------------------------------------------------------
(* The process and the clock. *)

Live(c) == pc[c] \notin {"idle", "over"}

Crash ==
    /\ up /\ mishaps < MaxMishaps
    /\ up' = FALSE /\ mishaps' = mishaps + 1
    /\ pc' = [c \in Calls |-> IF Live(c) THEN "over" ELSE pc[c]]
    /\ spoilt' = spoilt \cup {rid[c] : c \in {d \in Calls : Live(d)}}
    /\ UNCHANGED <<mode, rid, tried, known, flags, fate, left, tables>>

\* purge_older_than: the bills, then the rows and by the foreign key their attempts.
Prune(old, swept) ==
    /\ row' = [i \in Ids |-> IF i \in old THEN NoRow ELSE swept[i]]
    /\ trail' = [i \in Ids |-> IF i \in old THEN 0 ELSE trail[i]]
    /\ bill' = [i \in Ids |-> IF i \in old /\ row[i] # NoRow THEN 0 ELSE bill[i]]

\* The container starts after any time: close_stale_pending closes the rows that are pending
\* for more than 900 s, and those of more than 14 days are purged.
Restart ==
    /\ ~up /\ up' = TRUE
    /\ \E stale \in SUBSET Ids : \E old \in SUBSET stale :
        LET stuck == {i \in stale : row[i].status = "pending"}
        IN  /\ Prune(old, [i \in Ids |-> IF i \in stuck THEN [row[i] EXCEPT !.status = "cancelled"]
                                         ELSE row[i]])
            /\ spoilt' = spoilt \cup stuck
    /\ UNCHANGED <<callVars, mishaps>>

-----------------------------------------------------------------------------
Step(c) ==
    \/ Start(c) \/ Gate(c)
    \/ AttemptFails(c) \/ GivesUp(c) \/ Opens(c) \/ StreamEnds(c) \/ StreamBreaks(c)
    \/ ErrorRead(c) \/ UsageRead(c) \/ MetaRead(c) \/ EndRead(c)
    \/ Bill(c) \/ Trail(c) \/ Close(c)

Next ==
    \/ \E c \in Calls : Arrive(c) \/ Step(c) \/ Leave(c)
    \/ Crash \/ Restart

\* Every await of a call ends: attempts have timeouts, a reader reads on or is seen to have
\* left, and the lock of the database is granted in turn.
Fair == \A c \in Calls : WF_vars(Step(c))

Spec == Init /\ [][Next]_vars /\ Fair

-----------------------------------------------------------------------------
(* Properties *)

Sole(i, c) == {d \in Calls : pc[d] # "idle" /\ rid[d] = i} = {c}
Closed(i) == row[i].status \in {"success", "error", "cancelled"}

\* Of a request that alone bears its id, and whose record no failed write, crash or sweep cut
\* short, the row tells what happened: success only of an answer, error only of a failure,
\* and cancelled of a client that left (or of a stream that failed under an endpoint that
\* stops reading there).
HonestAudit ==
    \A i \in Ids \ spoilt, c \in Calls :
        Closed(i) /\ Sole(i, c) =>
            CASE row[i].status = "success" -> fate[c] = "answered"
              [] row[i].status = "error" -> fate[c] = "failed"
              [] OTHER -> left[c] \/ (mode[c] = "events" /\ fate[c] = "failed")

\* The attempt_count of a closed request is the number of its rows in request_attempts,
\* however its attempts ended and whoever counted them.
AuditAddsUp ==
    \A i \in Ids \ spoilt, c \in Calls :
        Closed(i) /\ Sole(i, c) => row[i].count = trail[i]

\* The bills agree with the requests: at most one for each call, one for a success, and none
\* for a request that has been forgotten.
BillsAgree ==
    \A i \in Ids :
        /\ bill[i] <= Cardinality({c \in Calls : rid[c] = i /\ tried[c] > 0})
        /\ i \notin spoilt => /\ row[i].status = "success" => bill[i] > 0
                              /\ row[i].status = "none" => bill[i] = 0 /\ trail[i] = 0

\* A request that went upstream does not stay "pending", unless a write failed, the process
\* died or its caller was cancelled while the answer was being booked.
RowsClose ==
    \A c \in Calls :
        pc[c] = "upstream" ~> \/ row[rid[c]].status # "pending"
                              \/ rid[c] \in spoilt \/ fate[c] = "cut"
=============================================================================
