----------------------------- MODULE EventCenter -----------------------------
(***************************************************************************)
(* The event center (app/services/events/service.py over                   *)
(* app/database/repositories/event.py): events are ingested, claimed by    *)
(* workers, completed, decided by a human, and breed further events.       *)
(*                                                                         *)
(* A repository call is one transaction under a process-wide lock, hence   *)
(* one step; a handler is a sequence of such calls, and other handlers run *)
(* between any two of them.  What a handler still has to do is kept as the *)
(* list of its calls.                                                      *)
(***************************************************************************)
EXTENDS Naturals, Sequences, FiniteSets

CONSTANTS
    Alerts,         \* what sources report, by semantic key
    Workers,
    Handlers,       \* requests the gateway works on at the same time
    None,
    MaxHops,        \* events_max_hops
    MaxAttempts,    \* events_max_attempts
    Parallel,       \* parallel of the (one) rule group
    WindowEnds,     \* whether a dedupe window may be over within a behaviour
    MaxEvents,      \* bound: ingest requests made in a behaviour
    MaxRestarts     \* bound: restarts of the gateway

ASSUME EventAssumption ==
    /\ MaxHops \in Nat /\ MaxAttempts \in Nat \ {0} /\ Parallel \in Nat \ {0}
    /\ MaxEvents \in Nat /\ MaxRestarts \in Nat /\ WindowEnds \in BOOLEAN
    /\ None \notin Nat

VARIABLES
    events,     \* the event table: [Ids -> Event]
    last,       \* the highest id given out
    laters,     \* the events with a review scheduled
    work,       \* the calls each handler has still to make
    job,        \* the event each worker runs, or None
    asked,      \* ingest requests made so far
    restarts

vars == <<events, last, laters, work, job, asked, restarts>>

-----------------------------------------------------------------------------
(* State *)

Ids == 1..MaxEvents

\* The dedupe key: what a source reported, or which event it derives from and how.
Derivations == {"next", "later", "approved", "rejected"}
Keys == [kind : {"alert"}, of : Alerts] \cup [kind : Derivations, of : Ids]

Parent(key) == IF key.kind = "alert" THEN None ELSE key.of

Open == {"received", "running"}
Settled == {"waiting_decision", "done", "failed", "dropped"}

Event == [state    : Open \cup Settled \cup {"none", "gone"},
          key      : Keys \cup {None},
          hops     : Nat,
          attempts : 0..MaxAttempts]

NoEvent == [state |-> "none", key |-> None, hops |-> 0, attempts |-> 0]

\* The repository calls a handler may have before it.
Finishing(i, s) == [call |-> "finish", id |-> i, state |-> s]
Scheduling(i) == [call |-> "later", id |-> i]
Looking(key) == [call |-> "look", key |-> key]
Creating(key, hops, state) == [call |-> "create", key |-> key, hops |-> hops, state |-> state]

Calls ==
    [call : {"finish"}, id : Ids, state : {"waiting_decision", "done", "failed"}]
        \cup [call : {"later"}, id : Ids]
        \cup [call : {"look"}, key : Keys]
        \cup [call : {"create"}, key : Keys, hops : Nat,
              state : {"received", "failed", "dropped"}]

TypeOK ==
    /\ events \in [Ids -> Event] /\ last \in 0..MaxEvents
    /\ laters \subseteq Ids
    /\ work \in [Handlers -> Seq(Calls)]
    /\ job \in [Workers -> Ids \cup {None}]
    /\ asked \in 0..MaxEvents /\ restarts \in 0..MaxRestarts

Init ==
    /\ events = [i \in Ids |-> NoEvent] /\ last = 0
    /\ laters = {}
    /\ work = [h \in Handlers |-> <<>>]
    /\ job = [w \in Workers |-> None]
    /\ asked = 0 /\ restarts = 0

Exists(i) == events[i].state \notin {"none", "gone"}
Idle(h) == work[h] = <<>>

-----------------------------------------------------------------------------
(* The calls of a handler *)

Doing(h, call) == work[h] # <<>> /\ Head(work[h]).call = call
Done(h) == work' = [work EXCEPT ![h] = Tail(@)]

\* ingest is asked to take an event in.
Ask == asked < MaxEvents /\ asked' = asked + 1

\* mutant: one hop too many is dispatched.
OverLimitLate(hops) == hops > MaxHops + 1

OverLimit(hops) == hops > MaxHops

\* The depth is counted here, from the parent if it is (still) there.
Hops(key) == IF Parent(key) \in Ids /\ Exists(Parent(key)) THEN events[Parent(key)].hops + 1
             ELSE 0

FirstState(hops, matched) ==
    IF OverLimit(hops) THEN "failed" ELSE IF matched THEN "received" ELSE "dropped"

Known(key) == \E i \in Ids : Exists(i) /\ events[i].key = key

\* The rule is matched, the parent read, and an event with the same key looked for that
\* was received within the dedupe window.
Look(h) ==
    /\ Doing(h, "look")
    /\ LET key == Head(work[h]).key IN
       \/ Known(key) /\ Done(h)
       \/ /\ Known(key) => WindowEnds
          /\ \E matched \in BOOLEAN :
                work' = [work EXCEPT ![h] =
                            <<Creating(key, Hops(key), FirstState(Hops(key), matched))>>
                                \o Tail(@)]
    /\ UNCHANGED <<events, last, laters, job, asked, restarts>>

Create(h) ==
    /\ Doing(h, "create") /\ last < MaxEvents
    /\ LET new == Head(work[h]) IN
       events' = [events EXCEPT ![last + 1] =
           [state |-> new.state, key |-> new.key, hops |-> new.hops, attempts |-> 0]]
    /\ last' = last + 1
    /\ Done(h)
    /\ UNCHANGED <<laters, job, asked, restarts>>

\* repository.finish: whatever the state has become since the handler read it.
Finish(h) ==
    /\ Doing(h, "finish")
    /\ LET write == Head(work[h]) IN
       events' = [events EXCEPT ![write.id].state = write.state]
    /\ Done(h)
    /\ UNCHANGED <<last, laters, job, asked, restarts>>

\* A new date for a review replaces the pending one; a receipt may also call it off.
ScheduleLater(h) ==
    /\ Doing(h, "later")
    /\ LET reviewed == {Head(work[h]).id} IN laters' \in {laters \cup reviewed, laters \ reviewed}
    /\ Done(h)
    /\ UNCHANGED <<events, last, job, asked, restarts>>

HandlerStep(h) == Look(h) \/ Create(h) \/ Finish(h) \/ ScheduleLater(h)

-----------------------------------------------------------------------------
(* The requests *)

\* A source reports something, again or for the first time.
Submit(h, a) ==
    /\ Idle(h) /\ Ask
    /\ work' = [work EXCEPT ![h] = <<Looking([kind |-> "alert", of |-> a])>>]
    /\ UNCHANGED <<events, last, laters, job, restarts>>

Running == {i \in Ids : events[i].state = "running"}

\* mutant: the group limit is not looked at.
ClaimableAlways(i) == events[i].state = "received"

Claimable(i) == events[i].state = "received" /\ Cardinality(Running) < Parallel

\* The oldest claimable event; the answer may get lost on its way to the worker.
Claim(w) ==
    /\ job[w] = None
    /\ \E i \in Ids :
        /\ Claimable(i) /\ \A j \in 1..(i - 1) : ~Claimable(j)
        /\ events' = [events EXCEPT ![i] =
               [state |-> "running", key |-> @.key, hops |-> @.hops,
                attempts |-> @.attempts + 1]]
        /\ job' = [job EXCEPT ![w] = i] \/ UNCHANGED job
    /\ UNCHANGED <<last, laters, work, asked, restarts>>

\* What the worker reports: ok or not, a question to a human, a receipt that asks for a
\* further event or a review.
Reports(i) ==
    {<<Finishing(i, s)>> : s \in {"waiting_decision", "done", "failed"}}
        \cup {<<Finishing(i, s), Scheduling(i)>> : s \in {"waiting_decision", "done"}}

ReportsMore(i) ==
    {<<Finishing(i, s), Looking([kind |-> "next", of |-> i])>> :
        s \in {"waiting_decision", "done"}}

\* complete: a settled event is left alone, any other is finished.
Complete(w, h) ==
    /\ job[w] # None /\ Idle(h)
    /\ job' = [job EXCEPT ![w] = None]
    /\ IF events[job[w]].state \in Open
       THEN \/ /\ \E calls \in Reports(job[w]) : work' = [work EXCEPT ![h] = calls]
               /\ UNCHANGED asked
            \/ /\ \E calls \in ReportsMore(job[w]) : work' = [work EXCEPT ![h] = calls]
               /\ Ask
       ELSE UNCHANGED <<work, asked>>
    /\ UNCHANGED <<events, last, laters, restarts>>

\* The worker dies, or its report does not arrive: it is not sent again.
Abandon(w) ==
    /\ job[w] # None
    /\ job' = [job EXCEPT ![w] = None]
    /\ UNCHANGED <<events, last, laters, work, asked, restarts>>

\* decide: only an event that waits for it; the decision becomes an event unless the
\* caller wants it on record only.
Decide(h, i, word) ==
    /\ Idle(h) /\ events[i].state = "waiting_decision"
    /\ \/ /\ work' = [work EXCEPT ![h] = <<Finishing(i, "done"),
                                           Looking([kind |-> word, of |-> i])>>]
          /\ Ask
       \/ /\ work' = [work EXCEPT ![h] = <<Finishing(i, "done")>>]
          /\ UNCHANGED asked
    /\ UNCHANGED <<events, last, laters, job, restarts>>

\* drain_laters: a review that is due is taken (one transaction), then made an event.
Drain(h, i) ==
    /\ Idle(h) /\ Ask
    /\ i \in laters
    /\ laters' = laters \ {i}
    /\ work' = [work EXCEPT ![h] = <<Looking([kind |-> "later", of |-> i])>>]
    /\ UNCHANGED <<events, last, job, restarts>>

-----------------------------------------------------------------------------
(* Time and failure *)

\* mutant: what has used up its attempts is not given back, nor declared dead.
ReclaimedNotDead(e) ==
    IF e.attempts >= MaxAttempts THEN e
    ELSE [e EXCEPT !.state = "received"]

Reclaimed(e) ==
    [e EXCEPT !.state = IF e.attempts >= MaxAttempts THEN "failed" ELSE "received"]

\* The running events claimed longer ago than events_claim_timeout; any claim looks for
\* them now and then.
Reclaim(S) ==
    /\ S \subseteq Running /\ S # {}
    /\ events' = [i \in Ids |-> IF i \in S THEN Reclaimed(events[i]) ELSE events[i]]
    /\ UNCHANGED <<last, laters, work, job, asked, restarts>>

Expires(i) == \E S \in SUBSET Running : i \in S /\ Reclaim(S)

\* The gateway restarts: handlers are gone, workers go on with what they have; every claim
\* is given back and old settled events are purged.
Restart ==
    /\ restarts < MaxRestarts
    /\ restarts' = restarts + 1
    /\ work' = [h \in Handlers |-> <<>>]
    /\ \E old \in SUBSET {i \in Ids : events[i].state \in Settled} :
        events' = [i \in Ids |->
            IF i \in Running THEN Reclaimed(events[i])
            ELSE IF i \in old THEN [events[i] EXCEPT !.state = "gone"]
            ELSE events[i]]
    /\ UNCHANGED <<last, laters, job, asked>>

JobEnds(w) == Abandon(w) \/ \E h \in Handlers : Complete(w, h)

Next ==
    \/ \E h \in Handlers :
        \/ HandlerStep(h)
        \/ \E a \in Alerts : Submit(h, a)
        \/ \E i \in Ids : \/ \E word \in {"approved", "rejected"} : Decide(h, i, word)
                          \/ Drain(h, i)
    \/ \E w \in Workers : Claim(w) \/ JobEnds(w)
    \/ \E S \in SUBSET Ids : Reclaim(S)
    \/ Restart

Spec == Init /\ [][Next]_vars

\* Handlers get on with their calls, workers poll and stop running a job at some time
\* (the executor has a timeout), claims grow old and are looked at by the polls.
FairSpec ==
    /\ Spec
    /\ \A h \in Handlers : WF_vars(HandlerStep(h))
    /\ \A w \in Workers : WF_vars(Claim(w)) /\ WF_vars(JobEnds(w))
    /\ \A i \in Ids : WF_vars(Expires(i))

-----------------------------------------------------------------------------
(* Properties *)

\* Agents that wake each other die out: the depth is counted from the parent, whatever
\* derived the event, and one that is too deep is recorded but never handed to a worker.
ChainsDie ==
    \A i \in 1..last :
        LET e == events[i] p == Parent(e.key) IN
        /\ e.hops > MaxHops => e.state \in {"failed", "gone"} /\ e.attempts = 0
        /\ p # None /\ Exists(p) => e.hops = events[p].hops + 1
        /\ e.hops > 0 => p \in 1..(i - 1)

\* Work derived from an event starts only when the event has a verdict, and the verdict
\* stays: no late claim, report or reclaim of the parent brings it back.
DerivedAfterVerdict ==
    \A i \in 1..last :
        Parent(events[i].key) # None =>
            events[Parent(events[i].key)].state \in Settled \cup {"gone"}

\* Work that follows from work is bounded, and never runs ahead of what it follows from.
DerivedWorkIsTamed == ChainsDie /\ DerivedAfterVerdict

\* The center as a queue of its events.
QueueState ==
    [i \in Ids |-> IF events[i].state = "none" THEN "none"
                   ELSE IF events[i].state = "received" THEN "queued"
                   ELSE IF events[i].state = "running" THEN "leased" ELSE "settled"]
Deliveries == [i \in Ids |-> events[i].attempts]

Queue == INSTANCE WorkQueue WITH
    Items <- Ids, MaxDeliveries <- MaxAttempts, Limit <- Parallel,
    state <- QueueState, deliveries <- Deliveries

\* Claims, late reports, reclaims, decisions and restarts together keep the promises of a
\* work queue: bounded deliveries, the group limit, and a settled event stays settled.
KeepsQueue == Queue!Spec

\* However often its workers die and the claims and reports get lost, an event that was
\* taken in is settled in the end.
EventuallySettled == \A i \in Ids : events[i].state \in Open ~> events[i].state \notin Open

\* A test of the repository (the same decision twice does not open two tasks): at most one
\* event follows from the decision on an event.
DecidedOnce ==
    \A i, j \in 1..last :
        /\ events[i].key.kind \in {"approved", "rejected"}
        /\ events[j].key.kind \in {"approved", "rejected"}
        /\ events[i].key.of = events[j].key.of
        => i = j

=============================================================================
