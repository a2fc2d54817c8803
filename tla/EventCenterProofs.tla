-------------------------- MODULE EventCenterProofs --------------------------
(***************************************************************************)
(* Proofs about EventCenter, for any number of alerts, workers, concurrent *)
(* handlers, events and restarts and any limits: chains of events die, and *)
(* the center implements WorkQueue.                                        *)
(*                                                                         *)
(* The inductive invariant is about the table (Table: what a row may look  *)
(* like, whatever was done to it) and about what the handlers have yet to  *)
(* do (Plan): a handler that is going to write a verdict writes it to a    *)
(* row that may be worked on, and one that is going to derive an event     *)
(* either finds the parent settled or settles it first.                    *)
(***************************************************************************)
EXTENDS EventCenter, TLAPS

-----------------------------------------------------------------------------
(* The inductive invariant *)

Verdict(i) == events[i].state \in Settled \cup {"gone"}

\* What derives from an event is looked at when the event has its verdict.
Due(key) == Parent(key) # None => Parent(key) \in 1..last /\ Verdict(Parent(key))

\* The depth is that of the parent and one, unless the parent was purged before.
Depth(key, hops) ==
    LET p == Parent(key) IN
    IF p = None THEN hops = 0
    ELSE \/ hops = events[p].hops + 1
         \/ hops = 0 /\ events[p].state = "gone"

Row(i) ==
    LET e == events[i] IN
    /\ e.state # "none" /\ e.key \in Keys
    /\ Due(e.key) /\ Depth(e.key, e.hops)
    /\ Parent(e.key) # None => Parent(e.key) < i
    /\ e.hops > MaxHops => e.state \in {"failed", "gone"} /\ e.attempts = 0
    /\ e.state = "received" => e.attempts < MaxAttempts

Table ==
    /\ \A i \in Ids : i <= last => Row(i)
    /\ \A i \in Ids : i > last => events[i] = NoEvent
    /\ \A i \in laters : i <= last /\ Verdict(i)

\* A call that may be made at once.
Ready(c) ==
    /\ c \in Calls
    /\ c.call = "finish" => /\ c.id \in 1..last
                            /\ events[c.id].hops <= MaxHops /\ events[c.id].state # "gone"
    /\ c.call = "later" => c.id \in 1..last /\ Verdict(c.id)
    /\ c.call = "look" => Due(c.key)
    /\ c.call = "create" => /\ Due(c.key) /\ Depth(c.key, c.hops)
                            /\ c.hops > MaxHops => c.state = "failed"

\* A call that may be made once the event has its verdict.
After(i, c) ==
    /\ c \in Calls
    /\ \/ c.call = "later" /\ c.id = i
       \/ c.call = "look" /\ Parent(c.key) = i

Plan(s) ==
    \/ s = <<>>
    \/ \E c \in Calls : s = <<c>> /\ Ready(c)
    \/ \E c, d \in Calls : s = <<c, d>> /\ Ready(c) /\ c.call = "finish" /\ After(c.id, d)

IInv ==
    /\ TypeOK
    /\ Table
    /\ \A h \in Handlers : Plan(work[h])

-----------------------------------------------------------------------------
(* Types of the parts *)

\* An event derives from no event, or from one that has an id.
LEMMA KeyFacts ==
    ASSUME NEW key \in Keys
    PROVE  /\ Parent(key) \in Ids \cup {None}
           /\ Parent(key) # None => Parent(key) \in Nat
           /\ None \notin Nat
  BY EventAssumption DEF Keys, Parent, Ids

\* The fields of a call.
LEMMA CallFacts ==
    ASSUME NEW c \in Calls
    PROVE  /\ c.call \in {"finish", "later", "look", "create"}
           /\ c.call = "finish" => /\ c.id \in Ids
                                   /\ c.state \in {"waiting_decision", "done", "failed"}
           /\ c.call = "later" => c.id \in Ids
           /\ c.call = "look" => c.key \in Keys
           /\ c.call = "create" => /\ c.key \in Keys /\ c.hops \in Nat
                                   /\ c.state \in {"received", "failed", "dropped"}
  BY DEF Calls

\* The calls the requests make are calls.
LEMMA CallTypes ==
    /\ \A i \in Ids : \A s \in {"waiting_decision", "done", "failed"} :
          Finishing(i, s) \in Calls
    /\ \A i \in Ids : Scheduling(i) \in Calls
    /\ \A key \in Keys : Looking(key) \in Calls
    /\ \A key \in Keys, hops \in Nat, s \in {"received", "failed", "dropped"} :
          Creating(key, hops, s) \in Calls
  BY DEF Calls, Finishing, Scheduling, Looking, Creating

\* The keys of derived events.
LEMMA DerivedKeys ==
    ASSUME NEW i \in Ids, NEW kind \in Derivations
    PROVE  /\ [kind |-> kind, of |-> i] \in Keys
           /\ Parent([kind |-> kind, of |-> i]) = i
           /\ i # None
  BY EventAssumption DEF Keys, Parent, Ids, Derivations

\* The fields of a row, and what replacing its state or its attempts gives.
LEMMA EventFacts ==
    ASSUME NEW e \in Event
    PROVE  /\ e.hops \in Nat /\ e.attempts \in 0..MaxAttempts
           /\ e.state \in Open \cup Settled \cup {"none", "gone"}
           /\ \A s \in Open \cup Settled \cup {"none", "gone"} :
                 /\ [e EXCEPT !.state = s] \in Event
                 /\ [e EXCEPT !.state = s].state = s
                 /\ [e EXCEPT !.state = s].key = e.key
                 /\ [e EXCEPT !.state = s].hops = e.hops
                 /\ [e EXCEPT !.state = s].attempts = e.attempts
  BY DEF Event

\* A handler's plan is a sequence of calls.
LEMMA PlanType ==
    ASSUME NEW s, Plan(s) PROVE s \in Seq(Calls)
  <1>1. /\ <<>> \in Seq(Calls)
        /\ \A c \in Calls : <<c>> \in Seq(Calls)
        /\ \A c, d \in Calls : <<c, d>> \in Seq(Calls)
    OBVIOUS
  <1>. QED BY <1>1 DEF Plan

\* What a handler does next may be done, and only a verdict has something after it.
LEMMA PlanHead ==
    ASSUME NEW s, Plan(s), s # <<>>
    PROVE  /\ Head(s) \in Calls /\ Ready(Head(s))
           /\ Head(s).call # "finish" => Tail(s) = <<>>
           /\ Head(s).call = "finish" =>
                 \/ Tail(s) = <<>>
                 \/ \E d \in Calls : Tail(s) = <<d>> /\ After(Head(s).id, d)
  <1>1. CASE \E c \in Calls : s = <<c>> /\ Ready(c)
    BY <1>1
  <1>2. CASE \E c, d \in Calls :
                s = <<c, d>> /\ Ready(c) /\ c.call = "finish" /\ After(c.id, d)
    <2>1. PICK c \in Calls, d \in Calls :
                s = <<c, d>> /\ Ready(c) /\ c.call = "finish" /\ After(c.id, d)
      BY <1>2
    <2>2. Head(s) = c /\ Tail(s) = <<d>>
      BY <2>1
    <2>. QED BY <2>1, <2>2
  <1>. QED BY <1>1, <1>2 DEF Plan

-----------------------------------------------------------------------------
(* What no step takes back *)

\* Rows keep their key and depth, verdicts stay verdicts, ids are not used again.
Steady ==
    /\ last <= last' /\ last' \in 0..MaxEvents
    /\ \A i \in 1..last :
          /\ events'[i].key = events[i].key /\ events'[i].hops = events[i].hops
          /\ Verdict(i) => Verdict(i)'
          /\ events[i].state = "gone" => events'[i].state = "gone"

NothingPurged == \A i \in 1..last : events'[i].state = "gone" => events[i].state = "gone"

LEMMA DueStays ==
    ASSUME TypeOK, Steady, NEW key \in Keys, Due(key)
    PROVE  /\ Due(key)'
           /\ \A hops \in Nat : Depth(key, hops) => Depth(key, hops)'
  <1>1. CASE Parent(key) = None
    BY <1>1 DEF Due, Depth, Parent
  <1>2. CASE Parent(key) # None
    <2> DEFINE p == Parent(key)
    <2>1. p \in 1..last /\ Verdict(p)
      BY <1>2 DEF Due
    <2>2. p \in 1..last' /\ Verdict(p)' /\ events'[p].hops = events[p].hops
          /\ (events[p].state = "gone" => events'[p].state = "gone")
      BY <2>1 DEF Steady, TypeOK
    <2>. QED BY <2>1, <2>2 DEF Due, Depth, Parent
  <1>. QED BY <1>1, <1>2

LEMMA ReadyStays ==
    ASSUME TypeOK, Steady, NothingPurged, NEW c \in Calls, Ready(c)
    PROVE  Ready(c)'
  <1>1. CASE c.call = "finish"
    <2>1. c.id \in 1..last
      BY <1>1 DEF Ready
    <2>2. c.id \in 1..last' /\ events'[c.id].hops <= MaxHops /\ events'[c.id].state # "gone"
      BY <1>1, <2>1 DEF Ready, Steady, NothingPurged, TypeOK
    <2>. QED BY <1>1, <2>2 DEF Ready
  <1>2. CASE c.call = "later"
    <2>1. c.id \in 1..last' /\ Verdict(c.id)'
      BY <1>2 DEF Ready, Steady, TypeOK
    <2>. QED BY <1>2, <2>1 DEF Ready
  <1>3. CASE c.call = "look"
    BY <1>3, CallFacts, DueStays DEF Ready
  <1>4. CASE c.call = "create"
    <2>1. c.key \in Keys /\ c.hops \in Nat
      BY <1>4, CallFacts
    <2>2. Due(c.key)' /\ Depth(c.key, c.hops)'
      BY <1>4, <2>1, DueStays DEF Ready
    <2>. QED BY <1>4, <2>2 DEF Ready
  <1>. QED BY <1>1, <1>2, <1>3, <1>4, CallFacts

\* The plan of a handler stays possible while others take steps.
LEMMA PlanStays ==
    ASSUME TypeOK, Steady, NothingPurged, NEW s, Plan(s)
    PROVE  Plan(s)'
  <1>1. CASE s = <<>>
    BY <1>1 DEF Plan
  <1>2. CASE \E c \in Calls : s = <<c>> /\ Ready(c)
    BY <1>2, ReadyStays DEF Plan
  <1>3. CASE \E c, d \in Calls :
                s = <<c, d>> /\ Ready(c) /\ c.call = "finish" /\ After(c.id, d)
    <2>1. PICK c \in Calls, d \in Calls :
                s = <<c, d>> /\ Ready(c) /\ c.call = "finish" /\ After(c.id, d)
      BY <1>3
    <2>2. Ready(c)'
      BY <2>1, ReadyStays
    <2>3. After(c.id, d)'
      BY <2>1 DEF After, Parent
    <2>. QED BY <2>1, <2>2, <2>3 DEF Plan
  <1>. QED BY <1>1, <1>2, <1>3 DEF Plan

\* A row stays possible if its new state is.
LEMMA RowStays ==
    ASSUME TypeOK, Steady, NEW i \in Ids, i <= last, Row(i),
           events'[i].state # "none",
           events'[i].hops > MaxHops =>
               events'[i].state \in {"failed", "gone"} /\ events'[i].attempts = 0,
           events'[i].state = "received" => events'[i].attempts < MaxAttempts
    PROVE  Row(i)'
  <1>1. events'[i].key = events[i].key /\ events'[i].hops = events[i].hops
        /\ events[i].key \in Keys
    BY DEF Steady, Row, Ids, TypeOK
  <1>2. events[i].hops \in Nat
    BY EventFacts DEF TypeOK
  <1>3. Due(events[i].key)' /\ Depth(events[i].key, events[i].hops)'
    BY <1>1, <1>2, DueStays DEF Row
  <1>. QED BY <1>1, <1>2, <1>3 DEF Row, Due, Depth, Parent

-----------------------------------------------------------------------------
(* Steps that leave the table alone *)

\* The parts of IInv that are about the table and the handlers' plans are kept by a step
\* that changes neither rows nor reviews.
LEMMA Quiet ==
    ASSUME IInv, UNCHANGED <<events, last, laters>>
    PROVE  /\ Table'
           /\ \A s : Plan(s) => Plan(s)'
  <1>1. Steady /\ NothingPurged
    BY DEF IInv, TypeOK, Steady, NothingPurged, Verdict
  <1>2. Table'
    BY DEF IInv, Table, Row, Due, Depth, Parent, Verdict
  <1>. QED BY <1>1, <1>2, PlanStays DEF IInv

LEMMA PlanTypes == \A s : Plan(s) => s \in Seq(Calls)
  BY PlanType

\* A handler goes on to a new plan.
LEMMA NewPlan ==
    ASSUME IInv, \A s : Plan(s) => Plan(s)',
           NEW h \in Handlers, NEW s, work' = [work EXCEPT ![h] = s], Plan(s)'
    PROVE  /\ work' \in [Handlers -> Seq(Calls)]
           /\ \A g \in Handlers : Plan(work[g])'
  <1>1. (PlanTypes)'
    BY PlanTypes, PTL
  <1>2. \A g \in Handlers : work'[g] = IF g = h THEN s ELSE work[g]
    BY DEF IInv, TypeOK
  <1>3. s \in Seq(Calls)
    BY <1>1 DEF PlanTypes
  <1>4. \A g \in Handlers : Plan(work[g])'
    BY <1>2 DEF IInv
  <1>. QED BY <1>3, <1>4 DEF IInv, TypeOK

\* Other handlers keep their plans.
LEMMA SamePlans ==
    ASSUME IInv, \A s : Plan(s) => Plan(s)', UNCHANGED work
    PROVE  /\ work' \in [Handlers -> Seq(Calls)]
           /\ \A g \in Handlers : Plan(work[g])'
  BY DEF IInv, TypeOK

\* A row that may be worked on: its verdict may be planned, and what follows from it.
LEMMA VerdictPlans ==
    ASSUME NEW i \in Ids, i <= last, events[i].hops <= MaxHops, events[i].state # "gone",
           NEW s \in {"waiting_decision", "done", "failed"}
    PROVE  /\ Plan(<<Finishing(i, s)>>)
           /\ Plan(<<Finishing(i, s), Scheduling(i)>>)
           /\ \A kind \in Derivations :
                 Plan(<<Finishing(i, s), Looking([kind |-> kind, of |-> i])>>)
  <1>a. Finishing(i, s) \in Calls
    BY CallTypes
  <1>b. Finishing(i, s).call = "finish" /\ Finishing(i, s).id = i
    BY DEF Finishing
  <1>c. i \in 1..last
    BY DEF Ids
  <1>1. Ready(Finishing(i, s))
    BY <1>a, <1>b, <1>c DEF Ready
  <1>2. Scheduling(i) \in Calls /\ After(i, Scheduling(i))
    BY CallTypes DEF After, Scheduling
  <1>3. ASSUME NEW kind \in Derivations
        PROVE  /\ Looking([kind |-> kind, of |-> i]) \in Calls
               /\ After(i, Looking([kind |-> kind, of |-> i]))
    BY CallTypes, DerivedKeys DEF After, Looking
  <1>. QED BY <1>a, <1>b, <1>1, <1>2, <1>3 DEF Plan

\* A row that is not settled may be worked on.
LEMMA Workable ==
    ASSUME IInv, NEW i \in Ids, events[i].state \in Open \cup {"waiting_decision"}
    PROVE  /\ i <= last /\ events[i].hops <= MaxHops /\ events[i].state # "gone"
           /\ events[i].attempts < MaxAttempts \/ events[i].state # "received"
  <1>1. i <= last
    <2>1. events[i].state # "none"
      BY DEF Open
    <2>2. NoEvent.state = "none"
      BY DEF NoEvent
    <2>. QED BY <2>1, <2>2 DEF IInv, Table, TypeOK, Ids
  <1>2. Row(i)
    BY <1>1 DEF IInv, Table
  <1>3. events[i].hops \in Nat
    BY EventFacts DEF IInv, TypeOK
  <1>. QED BY <1>1, <1>2, <1>3, EventAssumption DEF Row, Open

-----------------------------------------------------------------------------
(* The calls of a handler *)

LEMMA LookStep ==
    ASSUME IInv, NEW h \in Handlers, Look(h) PROVE IInv'
  <1> DEFINE key == Head(work[h]).key
  <1>1. /\ Head(work[h]) \in Calls /\ Ready(Head(work[h]))
        /\ Head(work[h]).call = "look" /\ Tail(work[h]) = <<>>
    BY PlanHead DEF IInv, Look, Doing
  <1>2. key \in Keys /\ Due(key)
    BY <1>1, CallFacts DEF Ready
  <1>3. /\ Table' /\ \A s : Plan(s) => Plan(s)'
    BY Quiet DEF Look
  <1>4. Hops(key) \in Nat /\ Depth(key, Hops(key))
    <2>1. CASE Parent(key) = None
      BY <2>1, EventAssumption DEF Hops, Depth, Ids
    <2>2. CASE Parent(key) # None
      <3>1. Parent(key) \in Ids /\ Parent(key) <= last
        BY <1>2, <2>2, KeyFacts DEF Due, Ids
      <3>2. Row(Parent(key)) /\ events[Parent(key)].hops \in Nat
        BY <3>1, EventFacts DEF IInv, Table, TypeOK
      <3>3. Exists(Parent(key)) \/ events[Parent(key)].state = "gone"
        BY <3>2 DEF Row, Exists
      <3>4. CASE Exists(Parent(key))
        <4>1. Hops(key) = events[Parent(key)].hops + 1
          BY <3>1, <3>4 DEF Hops
        <4>. QED BY <2>2, <3>2, <4>1 DEF Depth
      <3>5. CASE ~Exists(Parent(key))
        <4>1. Hops(key) = 0
          BY <3>5 DEF Hops
        <4>. QED BY <2>2, <3>3, <3>5, <4>1 DEF Depth
      <3>. QED BY <3>4, <3>5
    <2>. QED BY <2>1, <2>2
  <1>5. ASSUME NEW matched \in BOOLEAN
        PROVE  Plan(<<Creating(key, Hops(key), FirstState(Hops(key), matched))>>)
    <2> DEFINE state == FirstState(Hops(key), matched)
               c == Creating(key, Hops(key), state)
    <2>1. /\ state \in {"received", "failed", "dropped"}
          /\ Hops(key) > MaxHops => state = "failed"
      BY DEF FirstState, OverLimit
    <2> HIDE DEF state
    <2>2. c \in Calls
      BY <1>2, <1>4, <2>1, CallTypes
    <2>3. c.call = "create" /\ c.key = key /\ c.hops = Hops(key) /\ c.state = state
      BY DEF Creating
    <2> HIDE DEF c
    <2>4. Ready(c)
      BY <1>2, <1>4, <2>1, <2>2, <2>3 DEF Ready
    <2>. QED BY <2>2, <2>4 DEF Plan, c, state
  <1>6. \E s : work' = [work EXCEPT ![h] = s] /\ Plan(s)
    <2>1. CASE Done(h)
      BY <1>1, <2>1 DEF Done, Plan
    <2>2. CASE \E matched \in BOOLEAN :
                  work' = [work EXCEPT ![h] =
                      <<Creating(key, Hops(key), FirstState(Hops(key), matched))>>
                          \o Tail(@)]
      <3>1. PICK matched \in BOOLEAN :
                  work' = [work EXCEPT ![h] =
                      <<Creating(key, Hops(key), FirstState(Hops(key), matched))>>
                          \o Tail(@)]
        BY <2>2
      <3> DEFINE c == Creating(key, Hops(key), FirstState(Hops(key), matched))
      <3>2. <<c>> \o <<>> = <<c>>
        OBVIOUS
      <3>. QED BY <1>1, <1>5, <3>1, <3>2
    <2>. QED BY <2>1, <2>2 DEF Look
  <1>. QED BY <1>3, <1>6, NewPlan DEF IInv, TypeOK, Look

LEMMA CreateStep ==
    ASSUME IInv, NEW h \in Handlers, Create(h) PROVE IInv'
  <1>1. PICK c \in Calls : /\ c = Head(work[h]) /\ Ready(c) /\ c.call = "create"
                            /\ Tail(work[h]) = <<>>
    BY PlanHead DEF IInv, Create, Doing
  <1> DEFINE row == [state |-> c.state, key |-> c.key, hops |-> c.hops, attempts |-> 0]
  <1>2. /\ c.key \in Keys /\ c.hops \in Nat /\ c.state \in {"received", "failed", "dropped"}
        /\ Due(c.key) /\ Depth(c.key, c.hops) /\ (c.hops > MaxHops => c.state = "failed")
    BY <1>1, CallFacts DEF Ready
  <1>3. PICK n \in Ids : /\ n = last + 1 /\ last' = n /\ last \in Nat
                         /\ events' = [events EXCEPT ![n] = row] /\ last' \in 0..MaxEvents
    <2>1. events' = [events EXCEPT ![last + 1] = row] /\ last' = last + 1 /\ last < MaxEvents
      BY <1>1 DEF Create
    <2>2. last \in 0..MaxEvents
      BY DEF IInv, TypeOK
    <2> HIDE DEF row
    <2>3. last + 1 \in Ids /\ last \in Nat /\ last + 1 \in 0..MaxEvents
      BY <2>1, <2>2, EventAssumption DEF Ids
    <2>. QED BY <2>1, <2>3
  <1>4. row \in Event
    BY <1>2, EventAssumption DEF Event, Open, Settled
  <1>5. /\ events' \in [Ids -> Event] /\ events'[n] = row
        /\ \A i \in Ids : i # n => events'[i] = events[i]
    BY <1>3, <1>4 DEF IInv, TypeOK
  <1>6. Steady /\ NothingPurged
    BY <1>3, <1>5 DEF Steady, NothingPurged, Verdict, Ids, IInv, TypeOK
  <1>7. \A s : Plan(s) => Plan(s)'
    BY <1>6, PlanStays DEF IInv
  <1>8. Due(c.key)' /\ Depth(c.key, c.hops)'
    <2>1. TypeOK
      BY DEF IInv
    <2>. QED BY <1>2, <1>6, <2>1, DueStays
  <1>9. Row(n)'
    <2>1. events'[n].key = c.key /\ events'[n].hops = c.hops
          /\ events'[n].state = c.state /\ events'[n].attempts = 0
      BY <1>5
    <2>2. Parent(c.key) # None => Parent(c.key) < n
      BY <1>2, <1>3 DEF Due
    <2>. QED BY <1>2, <1>8, <2>1, <2>2, EventAssumption DEF Row, Due, Depth, Parent
  <1>10. ASSUME NEW i \in Ids, i <= last PROVE Row(i)'
    <2>1. Row(i) /\ events'[i] = events[i]
      BY <1>3, <1>5, <1>10 DEF IInv, Table, Ids
    <2>. QED BY <1>6, <1>10, <2>1, RowStays DEF IInv, Row
  <1>11. Table'
    <2>1. \A i \in laters' : i <= last' /\ Verdict(i)'
      BY <1>3, <1>5 DEF IInv, Table, Create, Verdict, TypeOK, Ids
    <2>2. \A i \in Ids : i > last' => events'[i] = NoEvent
      BY <1>3, <1>5 DEF IInv, Table, Ids
    <2>3. \A i \in Ids : i <= last' => Row(i)'
      BY <1>3, <1>9, <1>10 DEF Ids
    <2>. QED BY <2>1, <2>2, <2>3 DEF Table
  <1>12. Plan(<<>>)' /\ work' = [work EXCEPT ![h] = <<>>]
    BY <1>1 DEF Create, Done, Plan
  <1>. QED BY <1>3, <1>5, <1>7, <1>11, <1>12, NewPlan DEF IInv, TypeOK, Create

\* A step that replaces the state of one row by a verdict.
LEMMA FinishStep ==
    ASSUME IInv, NEW h \in Handlers, Finish(h) PROVE IInv'
  <1>1. PICK c \in Calls : c = Head(work[h]) /\ Ready(c) /\ c.call = "finish"
    BY PlanHead DEF IInv, Finish, Doing
  <1>2. PICK i \in Ids : i = c.id /\ i \in 1..last
                         /\ events[i].hops <= MaxHops /\ events[i].state # "gone"
    BY <1>1, CallFacts DEF Ready
  <1>3. PICK s \in {"waiting_decision", "done", "failed"} : s = c.state
    BY <1>1, CallFacts
  <1>4. /\ events[i] \in Event
        /\ events' = [events EXCEPT ![i] = [events[i] EXCEPT !.state = s]]
        /\ UNCHANGED <<last, laters, job, asked, restarts>>
    BY <1>1, <1>2, <1>3 DEF Finish, IInv, TypeOK
  <1>5. /\ [events[i] EXCEPT !.state = s] \in Event
        /\ [events[i] EXCEPT !.state = s].state = s
        /\ [events[i] EXCEPT !.state = s].key = events[i].key
        /\ [events[i] EXCEPT !.state = s].hops = events[i].hops
    BY <1>4, EventFacts DEF Settled
  <1>6. /\ events' \in [Ids -> Event]
        /\ events'[i].state = s /\ events'[i].key = events[i].key
        /\ events'[i].hops = events[i].hops
        /\ \A j \in Ids : j # i => events'[j] = events[j]
    BY <1>4, <1>5 DEF IInv, TypeOK
  <1>7. Verdict(i)'
    BY <1>6 DEF Verdict, Settled
  <1>8. Steady /\ NothingPurged
    BY <1>2, <1>4, <1>6, <1>7 DEF Steady, NothingPurged, Verdict, Ids, IInv, TypeOK
  <1>9. \A t : Plan(t) => Plan(t)'
    BY <1>8, PlanStays DEF IInv
  <1>10. Table'
    <2>1. ASSUME NEW j \in Ids, j <= last' PROVE Row(j)'
      <3>1. Row(j) /\ TypeOK /\ j <= last
        BY <1>4, <2>1 DEF IInv, Table
      <3>2. CASE j = i
        <4>1. ~(events'[j].hops > MaxHops)
          BY <1>2, <1>4, <1>6, <3>2, EventFacts, EventAssumption
        <4>. QED BY <1>6, <1>8, <3>1, <3>2, <4>1, RowStays
      <3>3. CASE j # i
        BY <1>6, <1>8, <3>1, <3>3, RowStays DEF Row
      <3>. QED BY <3>2, <3>3
    <2>2. \A j \in Ids : j > last' => events'[j] = NoEvent
      BY <1>2, <1>4, <1>6 DEF IInv, Table, TypeOK, Ids
    <2>3. \A j \in laters' : j <= last' /\ Verdict(j)'
      BY <1>4, <1>8 DEF IInv, Table, TypeOK, Steady, Ids
    <2>. QED BY <2>1, <2>2, <2>3 DEF Table
  <1>11. \E t : work' = [work EXCEPT ![h] = t] /\ Plan(t)'
    <2>1. CASE Tail(work[h]) = <<>>
      <3>1. work' = [work EXCEPT ![h] = <<>>]
        BY <2>1 DEF Finish, Done
      <3>2. Plan(<<>>)'
        BY DEF Plan
      <3>. QED BY <3>1, <3>2
    <2>2. CASE \E d \in Calls : Tail(work[h]) = <<d>> /\ After(Head(work[h]).id, d)
      <3>1. PICK d \in Calls : Tail(work[h]) = <<d>> /\ After(i, d)
        BY <1>1, <1>2, <2>2
      <3>2. i <= last' /\ i \in 1..last'
        BY <1>2, <1>4
      <3>3. Ready(d)'
        BY <1>7, <3>1, <3>2 DEF Ready, After, Due, Parent
      <3>4. work' = [work EXCEPT ![h] = <<d>>]
        BY <3>1 DEF Finish, Done
      <3>. QED BY <3>3, <3>4 DEF Plan
    <2>. QED BY <1>1, <2>1, <2>2, PlanHead DEF IInv, Finish, Doing
  <1>. QED BY <1>4, <1>6, <1>9, <1>10, <1>11, NewPlan DEF IInv, TypeOK

LEMMA LaterStep ==
    ASSUME IInv, NEW h \in Handlers, ScheduleLater(h) PROVE IInv'
  <1>1. PICK c \in Calls : /\ c = Head(work[h]) /\ Ready(c) /\ c.call = "later"
                            /\ Tail(work[h]) = <<>>
    BY PlanHead DEF IInv, ScheduleLater, Doing
  <1>2. c.id \in 1..last /\ Verdict(c.id) /\ c.id \in Ids
    BY <1>1, CallFacts DEF Ready
  <1>3. laters' \subseteq laters \cup {c.id} /\ UNCHANGED <<events, last, job, asked, restarts>>
    BY <1>1 DEF ScheduleLater
  <1>4. Steady /\ NothingPurged
    BY <1>3 DEF IInv, TypeOK, Steady, NothingPurged, Verdict
  <1>5. \A s : Plan(s) => Plan(s)'
    BY <1>4, PlanStays DEF IInv
  <1>6. Table'
    <2>1. \A i \in Ids : i <= last' => Row(i)'
      BY <1>3 DEF IInv, Table, Row, Due, Depth, Parent, Verdict
    <2>. QED BY <1>2, <1>3, <2>1 DEF IInv, Table, Verdict
  <1>7. Plan(<<>>)' /\ work' = [work EXCEPT ![h] = <<>>]
    BY <1>1 DEF ScheduleLater, Done, Plan
  <1>. QED BY <1>2, <1>3, <1>5, <1>6, <1>7, NewPlan DEF IInv, TypeOK

-----------------------------------------------------------------------------
(* The requests *)

LEMMA SubmitStep ==
    ASSUME IInv, NEW h \in Handlers, NEW a \in Alerts, Submit(h, a) PROVE IInv'
  <1> DEFINE key == [kind |-> "alert", of |-> a]
  <1>1. key \in Keys /\ Parent(key) = None
    BY DEF Keys, Parent
  <1> HIDE DEF key
  <1>2. Looking(key) \in Calls /\ Looking(key).call = "look" /\ Looking(key).key = key
    BY <1>1, CallTypes DEF Looking
  <1>3. Plan(<<Looking(key)>>)
    BY <1>1, <1>2 DEF Plan, Ready, Due
  <1>4. /\ Table' /\ \A s : Plan(s) => Plan(s)'
    BY Quiet DEF Submit
  <1>5. \E s : work' = [work EXCEPT ![h] = s] /\ Plan(s)'
    BY <1>3, <1>4 DEF Submit, key
  <1>6. asked' \in 0..MaxEvents
    BY EventAssumption DEF Submit, Ask, IInv, TypeOK
  <1>. QED BY <1>4, <1>5, <1>6, NewPlan DEF IInv, TypeOK, Submit

LEMMA DecideStep ==
    ASSUME IInv, NEW h \in Handlers, NEW i \in Ids, NEW word \in {"approved", "rejected"},
           Decide(h, i, word)
    PROVE  IInv'
  <1>1. i <= last /\ events[i].hops <= MaxHops /\ events[i].state # "gone"
    BY Workable DEF Decide
  <1>2. /\ Table' /\ \A s : Plan(s) => Plan(s)'
    BY Quiet DEF Decide
  <1>3. \E s : work' = [work EXCEPT ![h] = s] /\ Plan(s)'
    BY <1>1, <1>2, VerdictPlans DEF Decide, Derivations
  <1>4. asked' \in 0..MaxEvents
    BY EventAssumption DEF Decide, Ask, IInv, TypeOK
  <1>. QED BY <1>2, <1>3, <1>4, NewPlan DEF IInv, TypeOK, Decide

LEMMA DrainStep ==
    ASSUME IInv, NEW h \in Handlers, NEW i \in Ids, Drain(h, i) PROVE IInv'
  <1> DEFINE key == [kind |-> "later", of |-> i]
  <1>1. key \in Keys /\ Parent(key) = i
    BY DerivedKeys DEF Derivations
  <1>2. i <= last /\ Verdict(i) /\ i \in 1..last
    BY DEF Drain, IInv, Table, Ids
  <1> HIDE DEF key
  <1>3. Looking(key) \in Calls /\ Looking(key).call = "look" /\ Looking(key).key = key
    BY <1>1, CallTypes DEF Looking
  <1>4. Plan(<<Looking(key)>>)
    BY <1>1, <1>2, <1>3 DEF Plan, Ready, Due
  <1>5. UNCHANGED <<events, last>> /\ laters' \subseteq laters
    BY DEF Drain
  <1>6. Steady /\ NothingPurged
    BY <1>5 DEF IInv, TypeOK, Steady, NothingPurged, Verdict
  <1>7. \A s : Plan(s) => Plan(s)'
    BY <1>6, PlanStays DEF IInv
  <1>8. Table'
    <2>1. \A j \in Ids : j <= last' => Row(j)'
      BY <1>5 DEF IInv, Table, Row, Due, Depth, Parent, Verdict
    <2>. QED BY <1>5, <2>1 DEF IInv, Table, Verdict
  <1>9. \E s : work' = [work EXCEPT ![h] = s] /\ Plan(s)'
    BY <1>4, <1>7 DEF Drain, key
  <1>10. asked' \in 0..MaxEvents
    BY EventAssumption DEF Drain, Ask, IInv, TypeOK
  <1>. QED BY <1>5, <1>7, <1>8, <1>9, <1>10, NewPlan DEF IInv, TypeOK, Drain

-----------------------------------------------------------------------------
(* The workers *)

LEMMA ClaimStep ==
    ASSUME IInv, NEW w \in Workers, Claim(w) PROVE IInv'
  <1>1. PICK i \in Ids :
            /\ events[i].state = "received"
            /\ events' = [events EXCEPT ![i] =
                   [state |-> "running", key |-> @.key, hops |-> @.hops,
                    attempts |-> @.attempts + 1]]
            /\ job' = [job EXCEPT ![w] = i] \/ UNCHANGED job
    BY DEF Claim, Claimable
  <1>2. /\ i <= last /\ events[i].hops <= MaxHops /\ events[i].attempts < MaxAttempts
        /\ events[i] \in Event /\ events[i].attempts \in 0..MaxAttempts
    BY <1>1, Workable, EventFacts DEF Open, IInv, TypeOK
  <1> DEFINE e == [state |-> "running", key |-> events[i].key, hops |-> events[i].hops,
                   attempts |-> events[i].attempts + 1]
  <1>3. e \in Event /\ events[i].attempts + 1 \in 0..MaxAttempts
    BY <1>2, EventAssumption DEF Event, Open
  <1>4. events' = [events EXCEPT ![i] = e]
    BY <1>1, <1>2 DEF Event, IInv, TypeOK
  <1>5. /\ events' \in [Ids -> Event]
        /\ events'[i].state = "running" /\ events'[i].key = events[i].key
        /\ events'[i].hops = events[i].hops
        /\ \A j \in Ids : j # i => events'[j] = events[j]
    BY <1>3, <1>4 DEF IInv, TypeOK
  <1>6. UNCHANGED <<last, laters, work, asked, restarts>> /\ job' \in [Workers -> Ids \cup {None}]
    BY <1>1 DEF Claim, IInv, TypeOK
  <1>7. ~Verdict(i)
    BY <1>1 DEF Verdict, Settled
  <1>8. Steady /\ NothingPurged
    <2>1. last' = last /\ last \in 0..MaxEvents /\ \A j \in 1..last : j \in Ids
      BY <1>6, EventAssumption DEF IInv, TypeOK, Ids
    <2>2. ASSUME NEW j \in 1..last
          PROVE  /\ events'[j].key = events[j].key /\ events'[j].hops = events[j].hops
                 /\ Verdict(j) => Verdict(j)'
                 /\ events[j].state = "gone" <=> events'[j].state = "gone"
      BY <1>1, <1>5, <1>7, <2>1 DEF Verdict
    <2>. QED BY <2>1, <2>2 DEF Steady, NothingPurged
  <1>9. \A s : Plan(s) => Plan(s)'
    BY <1>8, PlanStays DEF IInv
  <1>10. Table'
    <2>1. ASSUME NEW j \in Ids, j <= last' PROVE Row(j)'
      <3>1. Row(j) /\ TypeOK /\ j <= last
        BY <1>6, <2>1 DEF IInv, Table
      <3>2. CASE j = i
        <4>1. ~(events'[j].hops > MaxHops)
          BY <1>2, <1>5, <3>2, EventFacts, EventAssumption
        <4>. QED BY <1>5, <1>8, <3>1, <3>2, <4>1, RowStays
      <3>3. CASE j # i
        BY <1>5, <1>8, <3>1, <3>3, RowStays DEF Row
      <3>. QED BY <3>2, <3>3
    <2>2. \A j \in Ids : j > last' => events'[j] = NoEvent
      BY <1>2, <1>5, <1>6 DEF IInv, Table, TypeOK, Ids
    <2>3. \A j \in laters' : j <= last' /\ Verdict(j)'
      BY <1>6, <1>8 DEF IInv, Table, TypeOK, Steady, Ids
    <2>. QED BY <2>1, <2>2, <2>3 DEF Table
  <1>. QED BY <1>5, <1>6, <1>9, <1>10, SamePlans DEF IInv, TypeOK

LEMMA CompleteStep ==
    ASSUME IInv, NEW w \in Workers, NEW h \in Handlers, Complete(w, h) PROVE IInv'
  <1>1. PICK i \in Ids : i = job[w]
    BY DEF Complete, IInv, TypeOK
  <1>2. /\ Table' /\ \A s : Plan(s) => Plan(s)'
    BY Quiet DEF Complete
  <1>3. job' \in [Workers -> Ids \cup {None}] /\ UNCHANGED <<events, last, laters, restarts>>
    BY DEF Complete, IInv, TypeOK
  <1>4. asked' \in 0..MaxEvents
    BY EventAssumption DEF Complete, Ask, IInv, TypeOK
  <1>5. CASE events[i].state \in Open
    <2>1. i <= last /\ events[i].hops <= MaxHops /\ events[i].state # "gone"
      BY <1>5, Workable
    <2>2. PICK calls \in Reports(i) \cup ReportsMore(i) : work' = [work EXCEPT ![h] = calls]
      BY <1>1, <1>5 DEF Complete
    <2>3. Plan(calls)
      BY <2>1, VerdictPlans DEF Reports, ReportsMore, Derivations
    <2>4. Plan(calls)'
      BY <1>2, <2>3
    <2>. QED BY <1>2, <1>3, <1>4, <2>2, <2>4, NewPlan DEF IInv, TypeOK
  <1>6. CASE events[i].state \notin Open
    <2>1. UNCHANGED work
      BY <1>1, <1>6 DEF Complete
    <2>. QED BY <1>2, <1>3, <1>4, <2>1, SamePlans DEF IInv, TypeOK
  <1>. QED BY <1>5, <1>6

LEMMA AbandonStep ==
    ASSUME IInv, NEW w \in Workers, Abandon(w) PROVE IInv'
  <1>1. /\ Table' /\ \A s : Plan(s) => Plan(s)'
    BY Quiet DEF Abandon
  <1>2. job' \in [Workers -> Ids \cup {None}] /\ UNCHANGED <<events, last, laters, work, asked, restarts>>
    BY DEF Abandon, IInv, TypeOK
  <1>. QED BY <1>1, <1>2, SamePlans DEF IInv, TypeOK

-----------------------------------------------------------------------------
(* Claims given back *)

\* An expired claim returns the event, or ends it after the last delivery.
LEMMA ReclaimedFacts ==
    ASSUME NEW e \in Event
    PROVE  /\ Reclaimed(e) \in Event
           /\ Reclaimed(e).key = e.key /\ Reclaimed(e).hops = e.hops
           /\ Reclaimed(e).attempts = e.attempts
           /\ Reclaimed(e).state = IF e.attempts >= MaxAttempts THEN "failed" ELSE "received"
           /\ Reclaimed(e).state = "received" => Reclaimed(e).attempts < MaxAttempts
  <1>1. e.attempts \in 0..MaxAttempts /\ MaxAttempts \in Nat
    BY EventFacts, EventAssumption
  <1> DEFINE s == IF e.attempts >= MaxAttempts THEN "failed" ELSE "received"
  <1>2. s \in Open \cup Settled \cup {"none", "gone"}
    BY DEF Open, Settled
  <1>3. Reclaimed(e) = [e EXCEPT !.state = s]
    BY DEF Reclaimed
  <1>4. s = "received" => e.attempts < MaxAttempts
    BY <1>1
  <1> HIDE DEF s
  <1>5. /\ [e EXCEPT !.state = s] \in Event /\ [e EXCEPT !.state = s].state = s
        /\ [e EXCEPT !.state = s].key = e.key /\ [e EXCEPT !.state = s].hops = e.hops
        /\ [e EXCEPT !.state = s].attempts = e.attempts
    BY <1>2, EventFacts
  <1>. QED BY <1>3, <1>4, <1>5 DEF s

\* The claims in S are given back and the settled rows in old are purged.
GiveBack(S, old) ==
    /\ S \subseteq Running /\ \A i \in old : events[i].state \in Settled
    /\ events' = [i \in Ids |->
           IF i \in S THEN Reclaimed(events[i])
           ELSE IF i \in old THEN [events[i] EXCEPT !.state = "gone"]
           ELSE events[i]]
    /\ UNCHANGED <<last, laters>>

LEMMA GivenBack ==
    ASSUME IInv, NEW S, NEW old, GiveBack(S, old)
    PROVE  events' \in [Ids -> Event] /\ Table' /\ Steady /\ (old = {} => NothingPurged)
  <1>1. ASSUME NEW i \in Ids
        PROVE  /\ events[i] \in Event /\ events'[i] \in Event
               /\ events'[i].key = events[i].key /\ events'[i].hops = events[i].hops
               /\ events'[i].attempts = events[i].attempts
               /\ \/ events'[i] = events[i]
                  \/ /\ events[i].state = "running"
                     /\ events'[i].state \in {"received", "failed"}
                     /\ events'[i].state = "received" => events[i].attempts < MaxAttempts
                  \/ /\ events[i].state \in Settled /\ old # {}
                     /\ events'[i].state = "gone"
    <2>1. events[i] \in Event
      BY DEF IInv, TypeOK
    <2>2. CASE i \in S
      <3>1. events'[i] = Reclaimed(events[i]) /\ events[i].state = "running"
        BY <2>2 DEF GiveBack, Running
      <3>. QED BY <2>1, <3>1, ReclaimedFacts
    <2>3. CASE i \notin S /\ i \in old
      <3>1. events'[i] = [events[i] EXCEPT !.state = "gone"] /\ events[i].state \in Settled
        BY <2>3 DEF GiveBack
      <3>. QED BY <2>1, <2>3, <3>1, EventFacts
    <2>4. CASE i \notin S /\ i \notin old
      <3>1. events'[i] = events[i]
        BY <2>4 DEF GiveBack
      <3>. QED BY <2>1, <3>1
    <2>. QED BY <2>2, <2>3, <2>4
  <1>2. events' \in [Ids -> Event]
    <2>1. events' = [i \in Ids |-> events'[i]]
      BY DEF GiveBack
    <2>. QED BY <1>1, <2>1
  <1>a. /\ last' = last /\ laters' = laters /\ last \in 0..MaxEvents /\ laters \subseteq Ids
        /\ \A i \in 1..last : i \in Ids
    BY EventAssumption DEF IInv, TypeOK, Ids, GiveBack
  <1>3. Steady
    <2>2. ASSUME NEW i \in 1..last
          PROVE  /\ Verdict(i) => Verdict(i)'
                 /\ events[i].state = "gone" => events'[i].state = "gone"
      <3>1. i \in Ids
        BY <1>a
      <3>. QED BY <1>1, <3>1 DEF Verdict, Settled
    <2>. QED BY <1>1, <1>a, <2>2 DEF Steady
  <1>4. old = {} => NothingPurged
    BY <1>1, <1>a DEF NothingPurged
  <1>5. Table'
    <2>1. ASSUME NEW i \in Ids, i <= last' PROVE Row(i)'
      <3>1. Row(i) /\ TypeOK /\ i <= last
        BY <1>a, <2>1 DEF IInv, Table
      <3>2. events'[i].state # "none"
        BY <1>1, <3>1 DEF Row
      <3>3. events'[i].hops > MaxHops =>
                events'[i].state \in {"failed", "gone"} /\ events'[i].attempts = 0
        BY <1>1, <3>1 DEF Row
      <3>4. events'[i].state = "received" => events'[i].attempts < MaxAttempts
        BY <1>1, <3>1 DEF Row
      <3>. QED BY <1>3, <3>1, <3>2, <3>3, <3>4, RowStays
    <2>2. ASSUME NEW i \in Ids, i > last' PROVE events'[i] = NoEvent
      <3>1. events[i] = NoEvent
        BY <1>a, <2>2 DEF IInv, Table
      <3>2. events[i].state \notin Settled \cup {"running"}
        BY <3>1 DEF NoEvent, Settled
      <3>. QED BY <1>1, <3>1, <3>2
    <2>3. \A i \in laters' : i <= last' /\ Verdict(i)'
      BY <1>3, <1>a DEF IInv, Table, Steady, Ids
    <2>. QED BY <2>1, <2>2, <2>3 DEF Table
  <1>. QED BY <1>2, <1>3, <1>4, <1>5

LEMMA ReclaimStep ==
    ASSUME IInv, NEW S, Reclaim(S) PROVE IInv'
  <1>1. GiveBack(S, {}) /\ UNCHANGED <<last, laters, work, job, asked, restarts>>
    BY DEF Reclaim, GiveBack
  <1>2. events' \in [Ids -> Event] /\ Table' /\ Steady /\ NothingPurged
    BY <1>1, GivenBack
  <1>3. \A s : Plan(s) => Plan(s)'
    BY <1>2, PlanStays DEF IInv
  <1>. QED BY <1>1, <1>2, <1>3, SamePlans DEF IInv, TypeOK

LEMMA RestartStep ==
    ASSUME IInv, Restart PROVE IInv'
  <1>1. PICK old \in SUBSET {i \in Ids : events[i].state \in Settled} : GiveBack(Running, old)
    BY DEF Restart, GiveBack
  <1>2. UNCHANGED <<last, laters, job, asked>> /\ work' = [h \in Handlers |-> <<>>]
    BY DEF Restart
  <1>3. events' \in [Ids -> Event] /\ Table'
    BY <1>1, GivenBack
  <1>4. work' \in [Handlers -> Seq(Calls)] /\ \A h \in Handlers : Plan(work[h])'
    BY <1>2 DEF Plan
  <1>5. restarts' \in 0..MaxRestarts
    BY EventAssumption DEF Restart, IInv, TypeOK
  <1>. QED BY <1>2, <1>3, <1>4, <1>5 DEF IInv, TypeOK

-----------------------------------------------------------------------------
(* The invariant *)

LEMMA InitIInv == Init => IInv
  <1>. SUFFICES ASSUME Init PROVE IInv
    OBVIOUS
  <1>1. NoEvent \in Event
    BY EventAssumption DEF NoEvent, Event
  <1>2. TypeOK
    BY <1>1, EventAssumption DEF Init, TypeOK
  <1>3. Table
    BY EventAssumption DEF Init, Table, Ids
  <1>. QED BY <1>2, <1>3 DEF IInv, Init, Plan

LEMMA NextIInv == IInv /\ [Next]_vars => IInv'
  <1>. SUFFICES ASSUME IInv, [Next]_vars PROVE IInv'
    OBVIOUS
  <1>a. CASE UNCHANGED vars
    <2>1. /\ Table' /\ \A s : Plan(s) => Plan(s)'
      BY <1>a, Quiet DEF vars
    <2>. QED BY <1>a, <2>1, SamePlans DEF vars, IInv, TypeOK
  <1>b. CASE Next
    <2>1. ASSUME NEW h \in Handlers, HandlerStep(h) PROVE IInv'
      BY <2>1, LookStep, CreateStep, FinishStep, LaterStep DEF HandlerStep
    <2>2. ASSUME NEW w \in Workers, JobEnds(w) PROVE IInv'
      BY <2>2, CompleteStep, AbandonStep DEF JobEnds
    <2>. QED BY <1>b, <2>1, <2>2, SubmitStep, DecideStep, DrainStep, ClaimStep, ReclaimStep,
                RestartStep DEF Next
  <1>. QED BY <1>a, <1>b

\* The inductive invariant holds in every reachable state.
THEOREM Inductive == Spec => []IInv
  BY InitIInv, NextIInv, PTL DEF Spec

\* Rows, plans and counters stay in their ranges; no row is used twice.
THEOREM EventTypesCorrect == Spec => []TypeOK
  <1>1. IInv => TypeOK
    BY DEF IInv
  <1>. QED BY <1>1, Inductive, PTL

\* However events are derived and whatever is purged in between, depth is counted from the
\* parent and an event too deep is never handed to a worker.
THEOREM ChainsEnd == Spec => []ChainsDie
  <1>1. IInv => ChainsDie
    <2>. SUFFICES ASSUME IInv, NEW i \in 1..last
                  PROVE  LET e == events[i] p == Parent(e.key) IN
                         /\ e.hops > MaxHops => e.state \in {"failed", "gone"} /\ e.attempts = 0
                         /\ p # None /\ Exists(p) => e.hops = events[p].hops + 1
                         /\ e.hops > 0 => p \in 1..(i - 1)
      BY DEF ChainsDie
    <2>1. i \in Ids /\ i <= last /\ last \in Nat
      BY EventAssumption DEF IInv, TypeOK, Ids
    <2>2. Row(i)
      BY <2>1 DEF IInv, Table
    <2>. QED BY <2>1, <2>2 DEF Row, Due, Depth, Exists
  <1>. QED BY <1>1, Inductive, PTL

\* Work that derives from an event exists only when the event has a verdict, for good.
THEOREM DerivedWorkWaits == Spec => []DerivedAfterVerdict
  <1>1. IInv => DerivedAfterVerdict
    <2>. SUFFICES ASSUME IInv, NEW i \in 1..last, Parent(events[i].key) # None
                  PROVE  events[Parent(events[i].key)].state \in Settled \cup {"gone"}
      BY DEF DerivedAfterVerdict
    <2>1. i \in Ids /\ i <= last
      BY EventAssumption DEF IInv, TypeOK, Ids
    <2>2. Row(i)
      BY <2>1 DEF IInv, Table
    <2>. QED BY <2>2 DEF Row, Due, Verdict
  <1>. QED BY <1>1, Inductive, PTL

\* Both.
THEOREM DerivedWorkTamed == Spec => []DerivedWorkIsTamed
  <1>1. ChainsDie /\ DerivedAfterVerdict => DerivedWorkIsTamed
    BY DEF DerivedWorkIsTamed
  <1>. QED BY <1>1, ChainsEnd, DerivedWorkWaits, PTL

-----------------------------------------------------------------------------
(* The refinement *)

\* What a row is to the queue.
LEMMA View ==
    TypeOK => \A i \in Ids :
        /\ QueueState[i] = "none" <=> events[i].state = "none"
        /\ QueueState[i] = "queued" <=> events[i].state = "received"
        /\ QueueState[i] = "leased" <=> events[i].state = "running"
        /\ QueueState[i] = "settled" <=> Verdict(i)
        /\ QueueState[i] \in {"none", "queued", "leased", "settled"}
        /\ Deliveries[i] = events[i].attempts
  <1>. SUFFICES ASSUME TypeOK, NEW i \in Ids
                PROVE  /\ QueueState[i] = "none" <=> events[i].state = "none"
                       /\ QueueState[i] = "queued" <=> events[i].state = "received"
                       /\ QueueState[i] = "leased" <=> events[i].state = "running"
                       /\ QueueState[i] = "settled" <=> Verdict(i)
                       /\ QueueState[i] \in {"none", "queued", "leased", "settled"}
                       /\ Deliveries[i] = events[i].attempts
    OBVIOUS
  <1>1. events[i].state \in Open \cup Settled \cup {"none", "gone"}
    BY EventFacts DEF TypeOK
  <1>. QED BY <1>1 DEF QueueState, Deliveries, Verdict, Open, Settled

\* A step that changes one row changes one item.
LEMMA OneItem ==
    ASSUME NEW n \in Ids, \A i \in Ids : i # n => events'[i] = events[i]
    PROVE  /\ QueueState' = [QueueState EXCEPT ![n] = QueueState'[n]]
           /\ Deliveries' = [Deliveries EXCEPT ![n] = events'[n].attempts]
  BY DEF QueueState, Deliveries

LEMMA NoItem ==
    ASSUME UNCHANGED events PROVE UNCHANGED Queue!vars
  BY DEF QueueState, Deliveries, Queue!vars

LEMMA CreateAdds ==
    ASSUME IInv, IInv', NEW h \in Handlers, Create(h) PROVE Queue!Next
  <1>1. PICK c \in Calls : c = Head(work[h]) /\ c.call = "create"
    BY PlanHead DEF IInv, Create, Doing
  <1>2. c.state \in {"received", "failed", "dropped"}
    BY <1>1, CallFacts
  <1>3. PICK n \in Ids : n > last /\ n = last + 1
    BY EventAssumption DEF Create, IInv, TypeOK, Ids
  <1>4. /\ events'[n].state = c.state /\ events'[n].attempts = 0
        /\ \A i \in Ids : i # n => events'[i] = events[i]
    BY <1>1, <1>3 DEF Create, IInv, TypeOK
  <1>5. events[n].state = "none" /\ events[n].attempts = 0
    BY <1>3 DEF IInv, Table, NoEvent
  <1>6. QueueState[n] = "none" /\ QueueState'[n] \in {"queued", "settled"}
    BY <1>2, <1>4, <1>5 DEF QueueState
  <1>7. Deliveries' = Deliveries
    BY <1>4, <1>5 DEF Deliveries
  <1>8. Queue!Add(n)
    BY <1>4, <1>6, <1>7, OneItem DEF Queue!Add
  <1>. QED BY <1>8 DEF Queue!Next

LEMMA FinishSettles ==
    ASSUME IInv, IInv', NEW h \in Handlers, Finish(h) PROVE [Queue!Next]_(Queue!vars)
  <1>1. PICK c \in Calls : c = Head(work[h]) /\ Ready(c) /\ c.call = "finish"
    BY PlanHead DEF IInv, Finish, Doing
  <1>2. PICK i \in Ids : i = c.id /\ i <= last
    BY <1>1, CallFacts DEF Ready
  <1>3. c.state \in {"waiting_decision", "done", "failed"}
    BY <1>1, CallFacts
  <1>4. /\ events'[i].state = c.state /\ events'[i].attempts = events[i].attempts
        /\ \A j \in Ids : j # i => events'[j] = events[j]
    <2>1. events[i] \in Event
      BY DEF IInv, TypeOK
    <2>2. events' = [events EXCEPT ![i] = [events[i] EXCEPT !.state = c.state]]
      BY <1>1, <1>2 DEF Finish, IInv, TypeOK
    <2>3. [events[i] EXCEPT !.state = c.state].state = c.state
          /\ [events[i] EXCEPT !.state = c.state].attempts = events[i].attempts
      BY <1>3, <2>1, EventFacts DEF Settled
    <2>. QED BY <2>2, <2>3 DEF IInv, TypeOK
  <1>5. QueueState'[i] = "settled" /\ Deliveries' = Deliveries
    BY <1>3, <1>4 DEF QueueState, Deliveries
  <1>6. QueueState' = [QueueState EXCEPT ![i] = "settled"]
    BY <1>4, <1>5, OneItem
  <1>7. events[i].state # "none"
    BY <1>2 DEF IInv, Table, Row
  <1>8. CASE QueueState[i] \in {"queued", "leased"}
    BY <1>5, <1>6, <1>8 DEF Queue!Settle, Queue!Next
  <1>9. CASE QueueState[i] = "settled"
    <2>1. QueueState' = QueueState
      BY <1>6, <1>9 DEF QueueState
    <2>. QED BY <1>5, <2>1 DEF Queue!vars
  <1>. QED BY <1>7, <1>8, <1>9, View DEF IInv

LEMMA ClaimDelivers ==
    ASSUME IInv, IInv', NEW w \in Workers, Claim(w) PROVE Queue!Next
  <1>1. PICK i \in Ids :
            /\ events[i].state = "received" /\ Cardinality(Running) < Parallel
            /\ events' = [events EXCEPT ![i] =
                   [state |-> "running", key |-> @.key, hops |-> @.hops,
                    attempts |-> @.attempts + 1]]
    BY DEF Claim, Claimable
  <1>2. events[i].attempts < MaxAttempts
    BY <1>1, Workable DEF Open
  <1>3. /\ events'[i].state = "running" /\ events'[i].attempts = events[i].attempts + 1
        /\ \A j \in Ids : j # i => events'[j] = events[j]
    BY <1>1 DEF IInv, TypeOK
  <1>4. QueueState'[i] = "leased" /\ QueueState[i] = "queued"
        /\ Deliveries[i] = events[i].attempts
    BY <1>1, <1>3 DEF QueueState, Deliveries
  <1>5. Queue!Leased = Running
    BY View DEF Queue!Leased, Running, IInv
  <1>a. Queue!Cardinality(Running) = Cardinality(Running)
    BY DEF Cardinality, Queue!Cardinality
  <1>6. Queue!Deliver(i)
    BY <1>1, <1>2, <1>3, <1>4, <1>5, <1>a, OneItem DEF Queue!Deliver
  <1>. QED BY <1>6 DEF Queue!Next

LEMMA GivenBackReturns ==
    ASSUME IInv, IInv', NEW S, NEW old, GiveBack(S, old) PROVE Queue!Next
  <1>1. Queue!Leased = Running
    BY View DEF Queue!Leased, Running, IInv
  <1>2. ASSUME NEW i \in Ids
        PROVE  /\ events'[i].attempts = events[i].attempts
               /\ QueueState'[i] = IF i \notin S THEN QueueState[i]
                                   ELSE IF Deliveries[i] < MaxAttempts THEN "queued"
                                   ELSE "settled"
    <2>1. events[i] \in Event /\ events[i].attempts \in Nat /\ MaxAttempts \in Nat
      BY EventFacts, EventAssumption DEF IInv, TypeOK
    <2>2. CASE i \in S
      <3>1. events'[i] = Reclaimed(events[i])
        BY <2>2 DEF GiveBack
      <3>. QED BY <2>1, <2>2, <3>1, ReclaimedFacts DEF QueueState, Deliveries
    <2>3. CASE i \notin S /\ i \in old
      <3>1. events'[i] = [events[i] EXCEPT !.state = "gone"] /\ events[i].state \in Settled
        BY <2>3 DEF GiveBack
      <3>2. events'[i].state = "gone" /\ events'[i].attempts = events[i].attempts
        BY <2>1, <3>1, EventFacts
      <3>. QED BY <2>3, <3>1, <3>2 DEF QueueState, Settled
    <2>4. CASE i \notin S /\ i \notin old
      <3>1. events'[i] = events[i]
        BY <2>4 DEF GiveBack
      <3>. QED BY <2>4, <3>1 DEF QueueState
    <2>. QED BY <2>2, <2>3, <2>4
  <1>3. Deliveries' = Deliveries
    BY <1>2 DEF Deliveries
  <1>4. QueueState' = [i \in Ids |-> IF i \notin S THEN QueueState[i]
                                     ELSE IF Deliveries[i] < MaxAttempts THEN "queued"
                                     ELSE "settled"]
    <2>1. QueueState' = [i \in Ids |-> QueueState'[i]]
      BY DEF QueueState
    <2>. QED BY <1>2, <2>1
  <1>5. S \subseteq Running /\ S \in SUBSET Ids
    BY DEF GiveBack, Running
  <1>6. Queue!Return(S)
    BY <1>1, <1>3, <1>4, <1>5 DEF Queue!Return
  <1>. QED BY <1>5, <1>6 DEF Queue!Next

LEMMA NextQueue == IInv /\ IInv' /\ [Next]_vars => [Queue!Next]_(Queue!vars)
  <1>. SUFFICES ASSUME IInv, IInv', [Next]_vars PROVE [Queue!Next]_(Queue!vars)
    OBVIOUS
  <1>1. CASE UNCHANGED events
    BY <1>1, NoItem
  <1>2. ASSUME NEW h \in Handlers, HandlerStep(h) PROVE [Queue!Next]_(Queue!vars)
    BY <1>2, CreateAdds, FinishSettles, NoItem DEF HandlerStep, Look, ScheduleLater
  <1>3. ASSUME NEW h \in Handlers, \/ \E a \in Alerts : Submit(h, a)
                                   \/ \E i \in Ids : \/ \E word \in {"approved", "rejected"} :
                                                            Decide(h, i, word)
                                                     \/ Drain(h, i)
        PROVE  UNCHANGED events
    BY <1>3 DEF Submit, Decide, Drain
  <1>4. ASSUME NEW w \in Workers, JobEnds(w) PROVE UNCHANGED events
    BY <1>4 DEF JobEnds, Complete, Abandon
  <1>5. ASSUME NEW S, Reclaim(S) PROVE Queue!Next
    <2>1. GiveBack(S, {})
      BY <1>5 DEF Reclaim, GiveBack
    <2>. QED BY <2>1, GivenBackReturns
  <1>6. ASSUME Restart PROVE Queue!Next
    <2>1. PICK old \in SUBSET {i \in Ids : events[i].state \in Settled} :
                GiveBack(Running, old)
      BY <1>6 DEF Restart, GiveBack
    <2>. QED BY <2>1, GivenBackReturns
  <1>7. CASE Next
    BY <1>1, <1>2, <1>3, <1>4, <1>5, <1>6, <1>7, ClaimDelivers DEF Next
  <1>8. CASE UNCHANGED vars
    BY <1>1, <1>8 DEF vars
  <1>. QED BY <1>7, <1>8

\* EventCenter implements WorkQueue: bounded deliveries, the group limit, and no event is
\* handed out again once it is settled, for any number of workers, handlers and restarts.
THEOREM QueueKept == Spec => KeepsQueue
  <1>1. Init => Queue!Init
    <2>. SUFFICES ASSUME Init PROVE Queue!Init
      OBVIOUS
    <2>1. \A i \in Ids : events[i].state = "none" /\ events[i].attempts = 0
      BY DEF Init, NoEvent
    <2>. QED BY <2>1 DEF QueueState, Deliveries, Queue!Init
  <1>. QED BY <1>1, Inductive, NextQueue, PTL DEF Spec, KeepsQueue, Queue!Spec

=============================================================================
