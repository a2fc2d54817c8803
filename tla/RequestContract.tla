--------------------------- MODULE RequestContract ---------------------------
(***************************************************************************)
(* What the gateway promises of one client request, whatever it does       *)
(* inside: a bounded number of upstream calls, one at a time, none after   *)
(* the first byte went to the client, none once the time budget is spent,  *)
(* and the outcome of a call on record before the next call is made.       *)
(***************************************************************************)
EXTENDS Naturals

CONSTANT MaxCalls

VARIABLES
    state,      \* "open", "streaming" (bytes went to the client) or "closed"
    calls,      \* upstream calls made
    settled,    \* upstream calls whose outcome is on record
    overtime    \* the time budget is spent

vars == <<state, calls, settled, overtime>>

Init == state = "open" /\ calls = 0 /\ settled = 0 /\ overtime = FALSE

Call ==
    /\ state = "open" /\ ~overtime
    /\ calls = settled /\ calls < MaxCalls
    /\ calls' = calls + 1
    /\ UNCHANGED <<state, settled, overtime>>

\* The outcome of the call is recorded; it may be the last one.
Settle ==
    /\ state # "closed" /\ settled < calls
    /\ settled' = calls
    /\ \/ state = "open" /\ state' = "open"
       \/ state' = "closed"
    /\ UNCHANGED <<calls, overtime>>

FirstByte ==
    /\ state = "open" /\ settled < calls
    /\ state' = "streaming"
    /\ UNCHANGED <<calls, settled, overtime>>

\* The request ends between calls, or its client leaves.
Close ==
    /\ state # "closed"
    /\ state' = "closed"
    /\ UNCHANGED <<calls, settled, overtime>>

TimeUp == overtime' = TRUE /\ UNCHANGED <<state, calls, settled>>

Next == Call \/ Settle \/ FirstByte \/ Close \/ TimeUp

Spec == Init /\ [][Next]_vars

=============================================================================
