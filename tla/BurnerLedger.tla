----------------------------- MODULE BurnerLedger -----------------------------
(***************************************************************************)
(* The credit budget of one account of the burner (scripts/               *)
(* burn_sensenova.py): requests reserve an estimate and are booked at what *)
(* they cost, in a five-hour window that slides (or is anchored) and in a  *)
(* week that is fixed; an account without room is parked until there is    *)
(* some.  Around it the ledger file, the hot reload of burner.yaml, stops, *)
(* kills and restarts, and the operator's reconciliation, with which the   *)
(* gateway writes into the ledger (app/services/burner_service).           *)
(*                                                                         *)
(* Accounts are independent of each other and have the same settings: one  *)
(* is modelled.  Time is counted in ticks and events are kept by age; what *)
(* passes within a minute (the 30 and 60 seconds added to a parking) is    *)
(* less than a tick.  The pace of the requests (keys, cooldowns, adaptive  *)
(* concurrency) only decides when a worker comes by, which is left open.   *)
(***************************************************************************)
EXTENDS Integers, FiniteSets

CONSTANTS
    W5,             \* ticks in the five-hour window
    WW,             \* ticks in the week
    Day,            \* ticks of parking when a request fits no window
    QuotaPark,      \* ticks of parking after "entitlement exhausted"
    Configs,        \* possible burner.yaml: [cap5, capw, capTotal, cost], cost of the dearest request
    Fills,          \* what an operator may fill in: [left5, leftw, total], NoFill for nothing
    MaxFlight,      \* bound: requests in flight
    MaxTotal,       \* bound: credits_total is counted up to here, no less than any capTotal
    MaxUpsets,      \* bound: edits of burner.yaml, reconciliations, stops and kills

    OthersExhausted,    \* the other accounts of the process, if any, are exhausted
    NoFill

Ages == 0 .. WW - 1
Forever == -1

VARIABLES
    clock,      \* position in the anchored windows
    anchored,   \* the account has anchors of its own
    events,     \* [Ages -> Int], credits booked, by age
    total,      \* credits_total
    parked,     \* ticks until parked_until, 0 when it has passed, Forever
    busy,       \* requests in flight, each has reserved est
    up,         \* the process runs
    est,        \* _est_cost
    args,       \* the settings in use
    yaml,       \* the settings in the file
    file,       \* burn_state.json: [events, total]
    upsets,     \* edits, reconciliations, stops and kills so far
    disturbed   \* the settings of this process were changed under it, or it has loaded
                \* bookings below zero, which a reconciliation makes

vars == <<clock, anchored, events, total, parked, busy, up, est, args, yaml, file, upsets, disturbed>>

TypeOK ==
    /\ clock \in 0 .. W5 * WW - 1 /\ anchored \in BOOLEAN
    /\ events \in [Ages -> Int] /\ file.events \in [Ages -> Int]
    /\ total \in 0 .. MaxTotal /\ file.total \in 0 .. MaxTotal
    /\ parked \in {Forever} \cup Nat /\ busy \in 0 .. MaxFlight
    /\ up \in BOOLEAN /\ disturbed \in BOOLEAN /\ upsets \in 0 .. MaxUpsets
    /\ est \in Nat /\ args \in Configs /\ yaml \in Configs

Least(S) == CHOOSE x \in S : \A y \in S : x <= y
Most(S) == CHOOSE x \in S : \A y \in S : x >= y

-----------------------------------------------------------------------------
(* AccountState *)

Since(ev, age) ==
    LET sum[g \in Ages] == ev[g] + (IF g = 0 THEN 0 ELSE sum[g - 1]) IN sum[age]

\* How old the oldest booking is that still counts.
Oldest5 == IF anchored THEN clock % W5 ELSE W5 - 1
OldestW == clock % WW

Burned5(ev) == Since(ev, Oldest5)
BurnedW(ev) == Since(ev, OldestW)

\* mutant: what is in flight is not deducted.
AvailableBooked(ev) == Least({args.cap5 - Burned5(ev), args.capw - BurnedW(ev)})

Available(ev) == Least({args.cap5 - Burned5(ev), args.capw - BurnedW(ev)}) - busy * est

\* resume_time, the sliding window: the oldest bookings go until enough is released.
Sliding(need) ==
    LET release == Burned5(events) - (args.cap5 - need)
        gone(g) == Burned5(events) - (IF g = 0 THEN 0 ELSE Since(events, g - 1))
        ages == {g \in 0 .. W5 - 1 : events[g] # 0 /\ gone(g) >= release}
    IN  IF release <= 0 THEN 0 ELSE IF ages = {} THEN Day ELSE W5 - Most(ages)

\* resume_time: when each window has room for need.
Resume(need) ==
    Most({IF args.cap5 < need THEN Day
          ELSE IF ~anchored THEN Sliding(need)
          ELSE IF Burned5(events) > args.cap5 - need THEN W5 - Oldest5 ELSE 0,
          IF args.capw < need THEN Day
          ELSE IF BurnedW(events) > args.capw - need THEN WW - OldestW ELSE 0})

-----------------------------------------------------------------------------
(* Burner *)

Exhausted == args.capTotal > 0 /\ total >= args.capTotal
Unlimited == args.cap5 <= 0 /\ args.capw <= 0

Init ==
    /\ clock = 0 /\ anchored \in BOOLEAN
    /\ events = [g \in Ages |-> 0] /\ total = 0
    /\ parked = 0 /\ busy = 0
    /\ up = FALSE /\ est = 0 /\ upsets = 0 /\ disturbed = FALSE
    /\ yaml \in Configs /\ args = yaml
    /\ file = [events |-> events, total |-> 0]

\* main: the ledger is loaded, without the parkings; the estimate is made once, in run.
Start ==
    /\ ~up /\ up' = TRUE
    /\ events' = file.events /\ total' = file.total
    /\ args' = yaml /\ est' = yaml.cost
    /\ disturbed' = (\E g \in Ages : file.events[g] < 0)
    /\ UNCHANGED <<clock, anchored, parked, busy, yaml, file, upsets>>

\* _worker: an account that is neither parked nor full is asked for its budget. It is parked
\* when it has reached the absolute limit or has no room, else the request goes out.
Look ==
    /\ up /\ parked = 0 /\ busy < MaxFlight
    /\ \/ /\ Exhausted
          /\ parked' = Forever /\ UNCHANGED busy
       \/ /\ ~Exhausted /\ (Unlimited \/ Available(events) >= est)
          /\ busy' = busy + 1 /\ UNCHANGED parked
       \/ /\ ~Exhausted /\ ~Unlimited /\ Available(events) < est
          /\ parked' = Resume(est) /\ UNCHANGED busy
          /\ parked' # parked
    /\ UNCHANGED <<clock, anchored, events, total, up, est, args, yaml, file, upsets, disturbed>>

\* burn_once: the answer is booked at the rates in use now.
Succeed ==
    /\ up /\ busy > 0 /\ busy' = busy - 1
    /\ \E c \in 1 .. args.cost :
        /\ events' = [events EXCEPT ![0] = @ + c]
        /\ total' = Least({total + c, MaxTotal})
    /\ UNCHANGED <<clock, anchored, parked, up, est, args, yaml, file, upsets, disturbed>>

\* A refusal or a broken stream books nothing; "exhausted" parks the account.
Fail ==
    /\ up /\ busy > 0 /\ busy' = busy - 1
    /\ parked' \in {parked, QuotaPark}
    /\ UNCHANGED <<clock, anchored, events, total, up, est, args, yaml, file, upsets, disturbed>>

Saved == [events |-> events, total |-> total]

\* The process ends: requests in flight are cancelled and its memory is lost.
Over ==
    /\ up' = FALSE /\ busy' = 0 /\ parked' = 0 /\ est' = 0 /\ disturbed' = FALSE
    /\ events' = [g \in Ages |-> 0] /\ total' = 0 /\ args' = yaml

Ends == OthersExhausted /\ Exhausted /\ parked = Forever

\* reload_config: rates and limits, not the estimate that was made in run.
Reload == args' = yaml /\ disturbed' = (disturbed \/ yaml # args)

\* periodic_summary: ends when all is burned, else loads burner.yaml and saves the ledger.
Summary ==
    /\ up /\ file' = Saved
    /\ \/ Ends /\ Over
       \/ /\ ~Ends /\ Reload
          /\ UNCHANGED <<up, busy, events, total, parked, est>>
    /\ UNCHANGED <<clock, anchored, yaml, upsets>>

\* Ctrl-C, --max-seconds or dead keys: the ledger is saved.
Quit ==
    /\ up /\ file' = Saved /\ Over
    /\ upsets < MaxUpsets /\ upsets' = upsets + 1
    /\ UNCHANGED <<clock, anchored, yaml>>

\* The service manager and the tray kill the process: nothing is saved.
Kill ==
    /\ up /\ Over
    /\ upsets < MaxUpsets /\ upsets' = upsets + 1
    /\ UNCHANGED <<clock, anchored, yaml, file>>

\* PUT /admin/burner/config, or an editor.
Edit ==
    /\ upsets < MaxUpsets /\ upsets' = upsets + 1
    /\ yaml' \in Configs \ {yaml} /\ args' = IF up THEN args ELSE yaml'
    /\ UNCHANGED <<clock, anchored, events, total, parked, busy, up, est, file, disturbed>>

\* apply_reconcile: what is left according to the operator becomes a booking of the
\* difference, at the start of an anchored window, else now. Both differences are taken from
\* the ledger as it was, and without anchors the week slides.
Reconcile ==
    /\ upsets < MaxUpsets /\ upsets' = upsets + 1
    /\ \E f \in Fills :
        LET atLeast0(x) == Most({0, x})
            ev == file.events
            gap5 == IF f.left5 = NoFill THEN 0
                    ELSE (yaml.cap5 - Least({f.left5, atLeast0(yaml.cap5)})) - atLeast0(Burned5(ev))
            oldw == IF anchored THEN OldestW ELSE WW - 1
            gapw == IF f.leftw = NoFill THEN 0
                    ELSE (yaml.capw - Least({f.leftw, atLeast0(yaml.capw)})) - atLeast0(Since(ev, oldw))
            at5 == IF anchored THEN Oldest5 ELSE 0
            atw == IF anchored THEN OldestW ELSE 0
        IN  file' = [events |-> [g \in Ages |-> ev[g] + (IF g = at5 THEN gap5 ELSE 0)
                                                      + (IF g = atw THEN gapw ELSE 0)],
                     total |-> IF f.total = NoFill THEN file.total ELSE f.total]
    /\ UNCHANGED <<clock, anchored, events, total, parked, busy, up, est, args, yaml, disturbed>>

Older(ev) == [g \in Ages |-> IF g = 0 THEN 0 ELSE ev[g - 1]]

Tick ==
    /\ clock' = (clock + 1) % (IF anchored THEN W5 * WW ELSE WW)
    /\ events' = Older(events) /\ file' = [file EXCEPT !.events = Older(@)]
    /\ parked' = IF parked > 0 THEN parked - 1 ELSE parked
    /\ UNCHANGED <<anchored, total, busy, up, est, args, yaml, upsets, disturbed>>

Next == Start \/ Look \/ Succeed \/ Fail \/ Summary \/ Quit \/ Kill \/ Edit \/ Reconcile \/ Tick

\* Workers come back every second at least, requests time out, summaries and time go on, and
\* the service manager starts the burner again.
Spec == Init /\ [][Next]_vars /\ WF_vars(Look) /\ WF_vars(Succeed \/ Fail) /\ WF_vars(Summary)
             /\ WF_vars(Tick) /\ WF_vars(Start)

-----------------------------------------------------------------------------
(* Properties *)

\* Requests in flight together cannot take more than the windows have left: while one is in
\* flight, what is booked and what is reserved stay within both, through any order of
\* answers, window changes and restarts, unless settings were changed under the process or bookings below zero were
\* reconciled into its ledger (they leave the windows while requests are in flight).
NeverOversubscribed ==
    busy > 0 /\ ~disturbed /\ ~Unlimited =>
        /\ Burned5(events) + busy * est <= args.cap5
        /\ BurnedW(events) + busy * est <= args.capw

\* An account that is parked for want of room comes back exactly when the bookings leave room
\* for one request, not a tick earlier or later: the reference tries every tick.
Later(ev, n) == [g \in Ages |-> IF g >= n THEN ev[g - n] ELSE 0]
RoomIn(n) ==
    LET ev == Later(events, n)
        old5 == IF anchored THEN (clock + n) % W5 ELSE W5 - 1
    IN  /\ Since(ev, old5) <= args.cap5 - est
        /\ Since(ev, (clock + n) % WW) <= args.capw - est
ResumesInTime ==
    up /\ est <= args.cap5 /\ est <= args.capw /\ (\A g \in Ages : events[g] >= 0)
        => Resume(est) = Least({n \in 0 .. WW : RoomIn(n)})
=============================================================================
