--------------------------- MODULE WorkersProofs ---------------------------
(***************************************************************************)
(* Three of the programs that work beside the gateway.                     *)
(*                                                                         *)
(* Delegation, for any number of runs, any tools, timeout and lease that   *)
(* outlasts it: what a delegation reports is true and on the books, work   *)
(* in a space is done under its lease, and a space that was left is free.  *)
(* The properties speak of runs that have ended; IInv says what holds on   *)
(* the way there: when a program may be there, how the age of a run and    *)
(* the age of its lease belong together, and by how much the runs are      *)
(* ahead of the ledger.                                                    *)
(*                                                                         *)
(* The tray, for any number of restart threads and of child processes:     *)
(* OneGateway.  A thread that starts a gateway first stops the one there   *)
(* is, and it does both under the lock.  TrayInv adds what a thread knows  *)
(* at each place of start(): that it holds the lock, that the process it   *)
(* has read is still the only one, and that none runs once it has been     *)
(* terminated.  All of it ends when the tray quits, for quit_ stops the    *)
(* child without the lock.                                                 *)
(*                                                                         *)
(* The burner, for windows of any length and any settings: BudgetIsKept.   *)
(* It is about sums over windows, which are recursive functions of an age: *)
(* that there are such functions and what they come to is proved by        *)
(* induction over the ages, for the set of ages a statement holds of,      *)
(* which rests on every set of numbers having a least one.                 *)
(***************************************************************************)
EXTENDS MCWorkers, Integers, FiniteSetTheorems, WellFoundedInduction, TLAPS

-----------------------------------------------------------------------------
(* Delegation: the inductive invariant *)

Phases == {"idle", "asking", "ready", "running", "ended", "leaving", "done", "lost"}
Procs == {"none", "working", "prompting", "exited", "killed"}
Alive == {"working", "prompting"}

Typed ==
    /\ path \in [Runs -> {"none", "single", "batch", "call", "event"}]
    /\ place \in [Runs -> Runs \cup Named \cup {"none"}]
    /\ tool = [r \in Runs |-> tool[r]] /\ end = [r \in Runs |-> end[r]]
    /\ todo \in [Runs -> Int] /\ phase \in [Runs -> Phases] /\ age \in [Runs -> Nat]
    /\ proc \in [Runs -> Procs] /\ result \in [Runs -> {"none", "ok", "auth", "quota", "failed"}]
    /\ ran \in [Runs -> Int] /\ booked \in [Runs -> Int]
    /\ lease \in [Runs -> Nat \cup {NoLease}] /\ noted \subseteq Runs

\* A program is only there while its run is, or after a crash; MCP has none.
ProgramBelongs(d) ==
    /\ proc[d] \in Alive => phase[d] \in {"running", "lost"}
    /\ phase[d] \in {"running", "ended"} /\ IsMcp(d) => proc[d] = "none"

\* Only its own run leases a space, until it leaves.
LeaseBelongs(d) ==
    place[d] # d \/ phase[d] \in {"idle", "done"} => lease[d] = NoLease /\ d \notin noted

\* One task is one run: lease and run are of the same age.
LeaseLasts(d) ==
    path[d] \in {"single", "event"} /\ place[d] = d =>
        /\ phase[d] = "ready" => todo[d] = 1 /\ lease[d] \in {LeaseTime, NoLease}
        /\ phase[d] = "running" => todo[d] = 1 /\ age[d] <= Timeout /\ (lease[d] = NoLease \/ lease[d] + age[d] = LeaseTime)
        /\ phase[d] = "ended" => todo[d] = 1
        /\ phase[d] # "asking"

RunIsBooked(d) ==
    /\ phase[d] \in {"idle", "asking", "ready", "leaving", "done"} => booked[d] = ran[d]
    /\ phase[d] \in {"running", "ended"} => ran[d] = booked[d] + 1

\* ResultsAreTrue, of one run.
ResultIsTrue(d) ==
    phase[d] = "ended" /\ ~IsMcp(d) =>
        /\ result[d] = "ok" => proc[d] = "exited" /\ end[d].code = 0
        /\ proc[d] = "exited" /\ age[d] < Timeout =>
             IF tool[d].kind = "codebuddy" /\ end[d].says = "log in" THEN result[d] = "auth"
             ELSE (result[d] = "ok") <=> (end[d].code = 0)

Good(d) ==
    ProgramBelongs(d) /\ LeaseBelongs(d) /\ LeaseLasts(d) /\ RunIsBooked(d) /\ ResultIsTrue(d)

IInv == Typed /\ \A d \in Runs : Good(d)

-----------------------------------------------------------------------------

\* What the assumption says of the numbers.
LEMMA Times ==
    /\ Timeout \in Nat /\ LeaseTime \in Nat /\ Timeout < LeaseTime /\ NoLease \notin Nat
    /\ \A x \in Nat : x <= Timeout => x # LeaseTime
  <1>1. Timeout \in Nat /\ LeaseTime \in Nat /\ Timeout < LeaseTime /\ NoLease \notin Nat
    BY LeaseAssumption, Zenon
  <1>. QED BY <1>1

\* What a step leaves of run d.
Same(d) ==
    /\ path'[d] = path[d] /\ place'[d] = place[d] /\ tool'[d] = tool[d] /\ todo'[d] = todo[d]
    /\ phase'[d] = phase[d] /\ age'[d] = age[d] /\ proc'[d] = proc[d] /\ end'[d] = end[d]
    /\ result'[d] = result[d] /\ ran'[d] = ran[d] /\ booked'[d] = booked[d]
    /\ lease'[d] = lease[d] /\ (d \in noted' <=> d \in noted)

LEMMA SameIsGood == ASSUME NEW d \in Runs, Good(d), Same(d) PROVE Good(d)'
  BY DEF Good, Same, ProgramBelongs, LeaseBelongs, LeaseLasts, RunIsBooked, ResultIsTrue, IsMcp

\* A step of one run has to care for that run only.
LEMMA OneRun ==
    ASSUME IInv, Typed', NEW e \in Runs, \A d \in Runs : d # e => Same(d), Good(e)'
    PROVE  IInv'
  <1>1. ASSUME NEW d \in Runs PROVE Good(d)'
    <2>1. CASE d = e
      BY <2>1
    <2>2. CASE d # e
      BY <2>2, SameIsGood DEF IInv
    <2>. QED BY <2>1, <2>2
  <1>. QED BY <1>1 DEF IInv

LEMMA InitIInv == Init => IInv
  <1>. SUFFICES ASSUME Init PROVE IInv
    OBVIOUS
  <1>1. /\ path = [d \in Runs |-> "none"] /\ place = [d \in Runs |-> "none"]
        /\ tool = [d \in Runs |-> "none"] /\ proc = [d \in Runs |-> "none"]
        /\ result = [d \in Runs |-> "none"]
        /\ todo = [d \in Runs |-> 0] /\ age = [d \in Runs |-> 0] /\ ran = [d \in Runs |-> 0]
        /\ booked = [d \in Runs |-> 0]
    BY DEF Init
  <1>2. Typed
    <2>1. /\ path \in [Runs -> {"none", "single", "batch", "call", "event"}]
          /\ place \in [Runs -> Runs \cup Named \cup {"none"}]
          /\ proc \in [Runs -> Procs] /\ result \in [Runs -> {"none", "ok", "auth", "quota", "failed"}]
      BY <1>1 DEF Procs
    <2>2. /\ tool = [r \in Runs |-> tool[r]] /\ end = [r \in Runs |-> end[r]]
      BY <1>1 DEF Init
    <2>3. /\ todo \in [Runs -> Int] /\ age \in [Runs -> Nat]
          /\ ran \in [Runs -> Int] /\ booked \in [Runs -> Int]
      BY <1>1
    <2>4. phase \in [Runs -> Phases]
      BY DEF Init, Phases
    <2>5. lease \in [Runs -> Nat \cup {NoLease}] /\ noted \subseteq Runs
      BY DEF Init
    <2>. QED BY <2>1, <2>2, <2>3, <2>4, <2>5 DEF Typed
  <1>3. ASSUME NEW d \in Runs PROVE Good(d)
    <2>1. /\ path[d] = "none" /\ proc[d] = "none" /\ phase[d] = "idle" /\ ran[d] = booked[d]
          /\ lease[d] = NoLease /\ d \notin noted
      BY <1>1 DEF Init
    <2>. QED BY <2>1 DEF Good, ProgramBelongs, LeaseBelongs, LeaseLasts, RunIsBooked, ResultIsTrue, Alive
  <1>. QED BY <1>2, <1>3 DEF IInv

-----------------------------------------------------------------------------
(* The types *)

LEMMA PathTyped == ASSUME Typed, [Next]_vars PROVE (path \in [Runs -> {"none", "single", "batch", "call", "event"}])'
  <1>1. CASE UNCHANGED path
    BY <1>1 DEF Typed
  <1>2. ASSUME NEW d \in Runs, NEW by \in {"single", "batch", "call", "event"}, NEW with \in Tools,
               NEW tasks \in 1 .. Segments, EnterSpace(d, by, with, tasks)
        PROVE  (path \in [Runs -> {"none", "single", "batch", "call", "event"}])'
    BY <1>2 DEF Typed, EnterSpace, Accept
  <1>3. ASSUME NEW d \in Runs, NEW by \in {"single", "batch", "call", "event"}, NEW with \in Tools,
               NEW where \in Named, EnterNamed(d, by, where, with)
        PROVE  (path \in [Runs -> {"none", "single", "batch", "call", "event"}])'
    BY <1>3 DEF Typed, EnterNamed, Accept
  <1>. QED
    BY <1>1, <1>2, <1>3 DEF Next, vars, asked, progVars, spaceVars, Approve, Refuse, Step, Book,
       Leave, StartFails, Starts, Write, Exit, Read, Finish, Answer, TimeOut, Tick, Crash,
       ForceRelease, Concludes, Begins, GiveBack, Release, Kill

LEMMA PlaceTyped == ASSUME Typed, [Next]_vars PROVE (place \in [Runs -> Runs \cup Named \cup {"none"}])'
  <1>1. CASE UNCHANGED place
    BY <1>1 DEF Typed
  <1>2. ASSUME NEW d \in Runs, NEW by \in {"single", "batch", "call", "event"}, NEW with \in Tools,
               NEW tasks \in 1 .. Segments, EnterSpace(d, by, with, tasks)
        PROVE  (place \in [Runs -> Runs \cup Named \cup {"none"}])'
    BY <1>2 DEF Typed, EnterSpace, Accept
  <1>3. ASSUME NEW d \in Runs, NEW by \in {"single", "batch", "call", "event"}, NEW with \in Tools,
               NEW where \in Named, EnterNamed(d, by, where, with)
        PROVE  (place \in [Runs -> Runs \cup Named \cup {"none"}])'
    BY <1>3 DEF Typed, EnterNamed, Accept
  <1>. QED
    BY <1>1, <1>2, <1>3 DEF Next, vars, asked, progVars, spaceVars, Approve, Refuse, Step, Book,
       Leave, StartFails, Starts, Write, Exit, Read, Finish, Answer, TimeOut, Tick, Crash,
       ForceRelease, Concludes, Begins, GiveBack, Release, Kill

LEMMA ToolTyped == ASSUME Typed, [Next]_vars PROVE (tool = [r \in Runs |-> tool[r]])'
  <1>1. CASE UNCHANGED tool
    BY <1>1 DEF Typed
  <1>2. ASSUME NEW d \in Runs, NEW by \in {"single", "batch", "call", "event"}, NEW with \in Tools,
               NEW tasks \in 1 .. Segments, EnterSpace(d, by, with, tasks)
        PROVE  (tool = [r \in Runs |-> tool[r]])'
    BY <1>2 DEF Typed, EnterSpace, Accept
  <1>3. ASSUME NEW d \in Runs, NEW by \in {"single", "batch", "call", "event"}, NEW with \in Tools,
               NEW where \in Named, EnterNamed(d, by, where, with)
        PROVE  (tool = [r \in Runs |-> tool[r]])'
    BY <1>3 DEF Typed, EnterNamed, Accept
  <1>. QED
    BY <1>1, <1>2, <1>3 DEF Next, vars, asked, progVars, spaceVars, Approve, Refuse, Step, Book,
       Leave, StartFails, Starts, Write, Exit, Read, Finish, Answer, TimeOut, Tick, Crash,
       ForceRelease, Concludes, Begins, GiveBack, Release, Kill

LEMMA TodoTyped == ASSUME Typed, [Next]_vars PROVE (todo \in [Runs -> Int])'
  <1>1. CASE UNCHANGED todo
    BY <1>1 DEF Typed
  <1>2. ASSUME NEW d \in Runs, NEW by \in {"single", "batch", "call", "event"}, NEW with \in Tools,
               NEW tasks \in 1 .. Segments, EnterSpace(d, by, with, tasks)
        PROVE  (todo \in [Runs -> Int])'
    BY <1>2 DEF Typed, EnterSpace, Accept
  <1>3. ASSUME NEW d \in Runs, NEW by \in {"single", "batch", "call", "event"}, NEW with \in Tools,
               NEW where \in Named, EnterNamed(d, by, where, with)
        PROVE  (todo \in [Runs -> Int])'
    BY <1>3 DEF Typed, EnterNamed, Accept
  <1>4. ASSUME NEW d \in Runs, Book(d)
        PROVE  (todo \in [Runs -> Int])'
    BY <1>4 DEF Typed, Book
  <1>. QED
    BY <1>1, <1>2, <1>3, <1>4 DEF Next, vars, asked, progVars, spaceVars, Approve, Refuse, Step,
       Leave, StartFails, Starts, Write, Exit, Read, Finish, Answer, TimeOut, Tick, Crash,
       ForceRelease, Concludes, Begins, GiveBack, Release, Kill

LEMMA PhaseTyped == ASSUME Typed, [Next]_vars PROVE (phase \in [Runs -> Phases])'
  <1>1. CASE UNCHANGED phase
    BY <1>1 DEF Typed
  <1>2. ASSUME NEW d \in Runs, NEW by \in {"single", "batch", "call", "event"}, NEW with \in Tools,
               NEW tasks \in 1 .. Segments, EnterSpace(d, by, with, tasks)
        PROVE  (phase \in [Runs -> Phases])'
    BY <1>2 DEF Typed, EnterSpace, Accept, Phases
  <1>3. ASSUME NEW d \in Runs, NEW by \in {"single", "batch", "call", "event"}, NEW with \in Tools,
               NEW where \in Named, EnterNamed(d, by, where, with)
        PROVE  (phase \in [Runs -> Phases])'
    BY <1>3 DEF Typed, EnterNamed, Accept, Phases
  <1>4. ASSUME NEW d \in Runs, Approve(d) \/ Refuse(d) \/ Leave(d) \/ Starts(d)
        PROVE  (phase \in [Runs -> Phases])'
    BY <1>4 DEF Typed, Phases, Approve, Refuse, Leave, Starts
  <1>5. ASSUME NEW d \in Runs, Book(d)
        PROVE  (phase \in [Runs -> Phases])'
    BY <1>5 DEF Typed, Phases, Book
  <1>6. ASSUME NEW d \in Runs, StartFails(d) \/ Finish(d) \/ Answer(d) \/ TimeOut(d)
        PROVE  (phase \in [Runs -> Phases])'
    BY <1>6 DEF Typed, Phases, StartFails, Finish, Answer, TimeOut, Concludes
  <1>7. CASE Crash
    BY <1>7 DEF Typed, Phases, Crash
  <1>. QED
    BY <1>1, <1>2, <1>3, <1>4, <1>5, <1>6, <1>7 DEF Next, vars, asked, progVars, spaceVars, Step,
       Write, Exit, Read, Tick, ForceRelease, Begins, GiveBack, Release, Kill

LEMMA AgeTyped == ASSUME Typed, [Next]_vars PROVE (age \in [Runs -> Nat])'
  <1>1. CASE UNCHANGED age
    BY <1>1 DEF Typed
  <1>2. ASSUME NEW d \in Runs, Starts(d)
        PROVE  (age \in [Runs -> Nat])'
    BY <1>2, LeaseAssumption DEF Typed, Starts
  <1>3. CASE Tick
    <2>1. \A d \in Runs : (IF phase[d] = "running" THEN age[d] + 1 ELSE age[d]) \in Nat
      BY DEF Typed
    <2>2. age' = [r \in Runs |-> age'[r]] /\ \A d \in Runs : age'[d] \in Nat
      BY <1>3, <2>1 DEF Tick
    <2>. QED BY <2>2
  <1>. QED
    BY <1>1, <1>2, <1>3 DEF Next, vars, asked, progVars, spaceVars, EnterSpace, EnterNamed, Accept,
       Approve, Refuse, Step, Book, Leave, StartFails, Write, Exit, Read, Finish, Answer, TimeOut,
       Crash, ForceRelease, Concludes, Begins, GiveBack, Release, Kill

LEMMA ProcTyped == ASSUME Typed, [Next]_vars PROVE (proc \in [Runs -> Procs])'
  <1>1. CASE UNCHANGED proc
    BY <1>1 DEF Typed
  <1>2. ASSUME NEW d \in Runs, StartFails(d) \/ Starts(d)
        PROVE  (proc \in [Runs -> Procs])'
    BY <1>2 DEF Typed, Procs, StartFails, Starts
  <1>3. ASSUME NEW d \in Runs, Write(d) \/ Exit(d)
        PROVE  (proc \in [Runs -> Procs])'
    BY <1>3 DEF Typed, Procs, Write, Exit
  <1>4. ASSUME NEW d \in Runs, TimeOut(d)
        PROVE  (proc \in [Runs -> Procs])'
    BY <1>4 DEF Typed, Procs, TimeOut, Kill
  <1>. QED
    BY <1>1, <1>2, <1>3, <1>4 DEF Next, vars, asked, progVars, spaceVars, EnterSpace, EnterNamed,
       Accept, Approve, Refuse, Step, Book, Leave, Read, Finish, Answer, Tick, Crash, ForceRelease,
       Concludes, Begins, GiveBack, Release

LEMMA EndTyped == ASSUME Typed, [Next]_vars PROVE (end = [r \in Runs |-> end[r]])'
  <1>1. CASE UNCHANGED end
    BY <1>1 DEF Typed
  <1>2. ASSUME NEW d \in Runs, Starts(d) \/ Exit(d)
        PROVE  (end = [r \in Runs |-> end[r]])'
    BY <1>2 DEF Typed, Starts, Exit
  <1>. QED
    BY <1>1, <1>2 DEF Next, vars, asked, progVars, spaceVars, EnterSpace, EnterNamed, Accept,
       Approve, Refuse, Step, Book, Leave, StartFails, Write, Read, Finish, Answer, TimeOut, Tick,
       Crash, ForceRelease, Concludes, Begins, GiveBack, Release, Kill

LEMMA ResultTyped == ASSUME Typed, [Next]_vars PROVE (result \in [Runs -> {"none", "ok", "auth", "quota", "failed"}])'
  <1>1. CASE UNCHANGED result
    BY <1>1 DEF Typed
  <1>2. ASSUME NEW d \in Runs, StartFails(d) \/ Finish(d) \/ Answer(d) \/ TimeOut(d)
        PROVE  (result \in [Runs -> {"none", "ok", "auth", "quota", "failed"}])'
    <2>1. Verdict(d) \in {"ok", "auth", "quota", "failed"}
      BY DEF Verdict, Classified
    <2>2. Replies \subseteq {"ok", "auth", "quota", "failed"}
      BY DEF Replies, Classified
    <2>3. PICK kind \in {"ok", "auth", "quota", "failed"} : Concludes(d, kind)
      BY <1>2, <2>1, <2>2 DEF StartFails, Finish, Answer, TimeOut
    <2>. QED
      BY <2>3 DEF Typed, Concludes
  <1>. QED
    BY <1>1, <1>2 DEF Next, vars, asked, progVars, spaceVars, EnterSpace, EnterNamed, Accept,
       Approve, Refuse, Step, Book, Leave, Starts, Write, Exit, Read, Tick, Crash, ForceRelease,
       Begins, GiveBack, Release, Kill

LEMMA RanTyped == ASSUME Typed, [Next]_vars PROVE (ran \in [Runs -> Int])'
  <1>1. CASE UNCHANGED ran
    BY <1>1 DEF Typed
  <1>2. ASSUME NEW d \in Runs, StartFails(d) \/ Starts(d)
        PROVE  (ran \in [Runs -> Int])'
    BY <1>2 DEF Typed, StartFails, Starts, Begins
  <1>. QED
    BY <1>1, <1>2 DEF Next, vars, asked, progVars, spaceVars, EnterSpace, EnterNamed, Accept,
       Approve, Refuse, Step, Book, Leave, Write, Exit, Read, Finish, Answer, TimeOut, Tick, Crash,
       ForceRelease, Concludes, GiveBack, Release, Kill

LEMMA BookedTyped == ASSUME Typed, [Next]_vars PROVE (booked \in [Runs -> Int])'
  <1>1. CASE UNCHANGED booked
    BY <1>1 DEF Typed
  <1>2. ASSUME NEW d \in Runs, Book(d)
        PROVE  (booked \in [Runs -> Int])'
    BY <1>2 DEF Typed, Book
  <1>. QED
    BY <1>1, <1>2 DEF Next, vars, asked, progVars, spaceVars, EnterSpace, EnterNamed, Accept,
       Approve, Refuse, Step, Leave, StartFails, Starts, Write, Exit, Read, Finish, Answer,
       TimeOut, Tick, Crash, ForceRelease, Concludes, Begins, GiveBack, Release, Kill

LEMMA LeaseTyped == ASSUME Typed, [Next]_vars PROVE (lease \in [Runs -> Nat \cup {NoLease}])'
  <1>1. CASE UNCHANGED lease
    BY <1>1 DEF Typed
  <1>2. ASSUME NEW d \in Runs, NEW by \in {"single", "batch", "call", "event"}, NEW with \in Tools,
               NEW tasks \in 1 .. Segments, EnterSpace(d, by, with, tasks)
        PROVE  (lease \in [Runs -> Nat \cup {NoLease}])'
    BY <1>2, LeaseAssumption DEF Typed, EnterSpace, Lease
  <1>3. ASSUME NEW d \in Runs, Release(d)
        PROVE  (lease \in [Runs -> Nat \cup {NoLease}])'
    BY <1>3 DEF Typed, Release
  <1>4. CASE Tick
    <2>1. ASSUME NEW d \in Runs
          PROVE  (IF lease[d] \in Nat /\ lease[d] > 0 THEN lease[d] - 1 ELSE lease[d]) \in Nat \cup {NoLease}
      BY DEF Typed
    <2>2. lease' = [r \in Runs |-> lease'[r]] /\ \A d \in Runs : lease'[d] \in Nat \cup {NoLease}
      BY <1>4, <2>1 DEF Tick
    <2>. QED BY <2>2
  <1>. QED
    BY <1>1, <1>2, <1>3, <1>4 DEF Next, vars, asked, progVars, spaceVars, EnterNamed, Accept,
       Approve, Refuse, Step, Book, Leave, StartFails, Starts, Write, Exit, Read, Finish, Answer,
       TimeOut, Crash, ForceRelease, Concludes, Begins, GiveBack, Kill

LEMMA NotedTyped == ASSUME Typed, [Next]_vars PROVE (noted \subseteq Runs)'
  <1>1. CASE UNCHANGED noted
    BY <1>1 DEF Typed
  <1>2. ASSUME NEW d \in Runs, NEW by \in {"single", "batch", "call", "event"}, NEW with \in Tools,
               NEW tasks \in 1 .. Segments, EnterSpace(d, by, with, tasks)
        PROVE  (noted \subseteq Runs)'
    BY <1>2 DEF Typed, EnterSpace
  <1>3. ASSUME NEW d \in Runs, Release(d)
        PROVE  (noted \subseteq Runs)'
    BY <1>3 DEF Typed, Release
  <1>. QED
    BY <1>1, <1>2, <1>3 DEF Next, vars, asked, progVars, spaceVars, EnterNamed, Accept, Approve,
       Refuse, Step, Book, Leave, StartFails, Starts, Write, Exit, Read, Finish, Answer, TimeOut,
       Tick, Crash, ForceRelease, Concludes, Begins, GiveBack, Kill

LEMMA NextTyped == ASSUME Typed, [Next]_vars PROVE Typed'
  BY PathTyped, PlaceTyped, ToolTyped, TodoTyped, PhaseTyped, AgeTyped, ProcTyped, EndTyped,
     ResultTyped, RanTyped, BookedTyped, LeaseTyped, NotedTyped DEF Typed
-----------------------------------------------------------------------------
(* A delegation before and after its runs *)

\* A lease is taken with the space: one task is ready at once.
LEMMA EnterSpaceKeeps ==
    ASSUME IInv, Typed', NEW e \in Runs, NEW by \in {"single", "batch", "call", "event"}, NEW with \in Tools,
           NEW tasks \in 1 .. Segments, EnterSpace(e, by, with, tasks)
    PROVE  IInv'
  <1>1. Typed /\ Good(e)
    BY DEF IInv
  <1>2. \A d \in Runs : d # e => Same(d)
    BY <1>1 DEF Typed, Same, EnterSpace, Accept, Lease, asked, progVars, spaceVars
  <1>3. /\ phase[e] = "idle" /\ path'[e] = by /\ place'[e] = e /\ todo'[e] = tasks
        /\ phase'[e] = (IF by = "call" THEN "asking" ELSE "ready") /\ lease'[e] = LeaseTime
        /\ tasks = 1 \/ by = "batch"
        /\ proc'[e] = proc[e] /\ ran'[e] = ran[e] /\ booked'[e] = booked[e]
    BY <1>1 DEF Typed, EnterSpace, Accept, Lease, asked, progVars, spaceVars
  <1>4. Good(e)'
    BY <1>1, <1>3 DEF Good, ProgramBelongs, LeaseBelongs, LeaseLasts, RunIsBooked, ResultIsTrue, IsMcp, Alive
  <1>. QED BY <1>2, <1>4, OneRun

\* Nobody leases a directory that has a name.
LEMMA EnterNamedKeeps ==
    ASSUME IInv, Typed', NEW e \in Runs, NEW by \in {"single", "batch", "call", "event"}, NEW with \in Tools,
           NEW where \in Named, EnterNamed(e, by, where, with)
    PROVE  IInv'
  <1>1. Typed /\ Good(e)
    BY DEF IInv
  <1>2. \A d \in Runs : d # e => Same(d)
    BY <1>1 DEF Typed, Same, EnterNamed, Accept, asked, progVars, spaceVars
  <1>3. /\ phase[e] = "idle" /\ path'[e] = by /\ place'[e] = where /\ where # e
        /\ phase'[e] = (IF by = "call" THEN "asking" ELSE "ready")
        /\ proc'[e] = proc[e] /\ ran'[e] = ran[e] /\ booked'[e] = booked[e] /\ lease'[e] = lease[e] /\ noted' = noted
    BY <1>1, LeaseAssumption DEF Typed, Named, EnterNamed, Accept, asked, progVars, spaceVars
  <1>4. Good(e)'
    BY <1>1, <1>3 DEF Good, ProgramBelongs, LeaseBelongs, LeaseLasts, RunIsBooked, ResultIsTrue, IsMcp, Alive
  <1>. QED BY <1>2, <1>4, OneRun

\* Nothing that was asked about is a single task or an event.
LEMMA ApproveKeeps ==
    ASSUME IInv, Typed', NEW e \in Runs, Approve(e)
    PROVE  IInv'
  <1>1. Typed /\ Good(e)
    BY DEF IInv
  <1>2. \A d \in Runs : d # e => Same(d)
    BY <1>1 DEF Typed, Same, Approve, asked, progVars, spaceVars
  <1>3. /\ phase[e] = "asking" /\ phase'[e] = "ready" /\ noted' = noted
        /\ path'[e] = path[e] /\ place'[e] = place[e] /\ proc'[e] = proc[e] /\ ran'[e] = ran[e] /\ booked'[e] = booked[e] /\ lease'[e] = lease[e]
    BY <1>1 DEF Typed, Approve, asked, progVars, spaceVars
  <1>4. Good(e)'
    BY <1>1, <1>3 DEF Good, ProgramBelongs, LeaseBelongs, LeaseLasts, RunIsBooked, ResultIsTrue, IsMcp, Alive
  <1>. QED BY <1>2, <1>4, OneRun

\* A refusal gives the lease back.
LEMMA RefuseKeeps ==
    ASSUME IInv, Typed', NEW e \in Runs, Refuse(e)
    PROVE  IInv'
  <1>1. Typed /\ Good(e)
    BY DEF IInv
  <1>2. \A d \in Runs : d # e => Same(d)
    BY <1>1 DEF Typed, Same, Refuse, GiveBack, Release, asked, progVars, spaceVars
  <1>3. /\ phase[e] = "asking" /\ phase'[e] = "done"
        /\ path'[e] = path[e] /\ place'[e] = place[e] /\ proc'[e] = proc[e] /\ ran'[e] = ran[e] /\ booked'[e] = booked[e]
        /\ IF place[e] = e THEN lease'[e] = NoLease /\ e \notin noted' ELSE lease'[e] = lease[e] /\ noted' = noted
    BY <1>1 DEF Typed, Refuse, GiveBack, Release, asked, progVars, spaceVars
  <1>4. Good(e)'
    BY <1>1, <1>3 DEF Good, ProgramBelongs, LeaseBelongs, LeaseLasts, RunIsBooked, ResultIsTrue, IsMcp, Alive
  <1>. QED BY <1>2, <1>4, OneRun

\* The ledger gets its row; only a batch has a next task.
LEMMA BookKeeps ==
    ASSUME IInv, Typed', NEW e \in Runs, Book(e)
    PROVE  IInv'
  <1>1. Typed /\ Good(e)
    BY DEF IInv
  <1>2. \A d \in Runs : d # e => Same(d)
    BY <1>1 DEF Typed, Same, Book, asked, progVars, spaceVars
  <1>3. /\ phase[e] = "ended" /\ booked'[e] = booked[e] + 1 /\ noted' = noted
        /\ phase'[e] = "leaving" \/ (phase'[e] = "ready" /\ todo[e] > 1)
        /\ booked[e] \in Int /\ ran[e] \in Int
        /\ path'[e] = path[e] /\ place'[e] = place[e] /\ proc'[e] = proc[e] /\ ran'[e] = ran[e] /\ lease'[e] = lease[e]
    BY <1>1 DEF Typed, Book, asked, progVars, spaceVars
  <1>4. Good(e)'
    <2>1. ProgramBelongs(e)' /\ LeaseBelongs(e)' /\ ResultIsTrue(e)'
      BY <1>1, <1>3 DEF Good, ProgramBelongs, LeaseBelongs, ResultIsTrue, IsMcp, Alive
    <2>2. LeaseLasts(e)'
      BY <1>1, <1>3 DEF Good, LeaseLasts
    <2>3. RunIsBooked(e)'
      BY <1>1, <1>3 DEF Good, RunIsBooked
    <2>. QED BY <2>1, <2>2, <2>3 DEF Good
  <1>. QED BY <1>2, <1>4, OneRun

\* What leaves gives the lease back.
LEMMA LeaveKeeps ==
    ASSUME IInv, Typed', NEW e \in Runs, Leave(e)
    PROVE  IInv'
  <1>1. Typed /\ Good(e)
    BY DEF IInv
  <1>2. \A d \in Runs : d # e => Same(d)
    BY <1>1 DEF Typed, Same, Leave, GiveBack, Release, asked, progVars, spaceVars
  <1>3. /\ phase[e] = "leaving" /\ phase'[e] = "done"
        /\ path'[e] = path[e] /\ place'[e] = place[e] /\ proc'[e] = proc[e] /\ ran'[e] = ran[e] /\ booked'[e] = booked[e]
        /\ IF place[e] = e THEN lease'[e] = NoLease /\ e \notin noted' ELSE lease'[e] = lease[e] /\ noted' = noted
    BY <1>1 DEF Typed, Leave, GiveBack, Release, asked, progVars, spaceVars
  <1>4. Good(e)'
    BY <1>1, <1>3 DEF Good, ProgramBelongs, LeaseBelongs, LeaseLasts, RunIsBooked, ResultIsTrue, IsMcp, Alive
  <1>. QED BY <1>2, <1>4, OneRun
-----------------------------------------------------------------------------
(* A run *)

\* A start that failed left no program.
LEMMA StartFailsKeeps ==
    ASSUME IInv, Typed', NEW e \in Runs, StartFails(e)
    PROVE  IInv'
  <1>1. Typed /\ Good(e)
    BY DEF IInv
  <1>2. \A d \in Runs : d # e => Same(d)
    BY <1>1 DEF Typed, Same, StartFails, Begins, Concludes, asked, progVars, spaceVars
  <1>3. /\ phase[e] = "ready" /\ phase'[e] = "ended" /\ result'[e] = "failed" /\ proc'[e] = "none"
        /\ booked[e] \in Int /\ ran[e] \in Int /\ ran'[e] = ran[e] + 1 /\ noted' = noted
        /\ path'[e] = path[e] /\ place'[e] = place[e] /\ tool'[e] = tool[e] /\ todo'[e] = todo[e] /\ booked'[e] = booked[e] /\ lease'[e] = lease[e]
    BY <1>1 DEF Typed, StartFails, Begins, Concludes, asked, progVars, spaceVars
  <1>4. Good(e)'
    <2>1. ProgramBelongs(e)' /\ LeaseBelongs(e)'
      BY <1>1, <1>3 DEF Good, ProgramBelongs, LeaseBelongs, IsMcp, Alive
    <2>2. LeaseLasts(e)'
      BY <1>1, <1>3 DEF Good, LeaseLasts
    <2>3. RunIsBooked(e)'
      BY <1>1, <1>3 DEF Good, RunIsBooked
    <2>4. ResultIsTrue(e)'
      BY <1>1, <1>3 DEF Good, ProgramBelongs, ResultIsTrue, IsMcp, Alive
    <2>. QED BY <2>1, <2>2, <2>3, <2>4 DEF Good
  <1>. QED BY <1>2, <1>4, OneRun

\* Run and lease begin together.
LEMMA StartsKeeps ==
    ASSUME IInv, Typed', NEW e \in Runs, Starts(e)
    PROVE  IInv'
  <1>1. Typed /\ Good(e)
    BY DEF IInv
  <1>2. \A d \in Runs : d # e => Same(d)
    BY <1>1 DEF Typed, Same, Starts, Begins, asked, progVars, spaceVars
  <1>3. /\ phase[e] = "ready" /\ phase'[e] = "running" /\ age'[e] = 0
        /\ booked[e] \in Int /\ ran[e] \in Int /\ ran'[e] = ran[e] + 1 /\ noted' = noted
        /\ path'[e] = path[e] /\ place'[e] = place[e] /\ tool'[e] = tool[e] /\ todo'[e] = todo[e] /\ booked'[e] = booked[e] /\ lease'[e] = lease[e]
    BY <1>1 DEF Typed, Starts, Begins, asked, progVars, spaceVars
  <1>4. Good(e)'
    <2>0. IsMcp(e) => proc'[e] = "none"
      <3>1. ASSUME IsMcp(e), NEW state \in {"none"}, proc' = [proc EXCEPT ![e] = state]
            PROVE  proc'[e] = "none"
        BY <1>1, <3>1 DEF Typed
      <3>. QED BY <3>1 DEF Starts
    <2>1. ProgramBelongs(e)' /\ LeaseBelongs(e)'
      BY <1>1, <1>3, <2>0 DEF Good, ProgramBelongs, LeaseBelongs, IsMcp, Alive
    <2>2. LeaseLasts(e)'
      <3>1. lease[e] = LeaseTime => lease[e] + 0 = LeaseTime /\ 0 <= Timeout
        BY Times
      <3>. QED BY <1>1, <1>3, <3>1, Times DEF Good, LeaseLasts
    <2>3. RunIsBooked(e)'
      BY <1>1, <1>3 DEF Good, RunIsBooked
    <2>4. ResultIsTrue(e)'
      BY <1>1, <1>3 DEF Good, ProgramBelongs, ResultIsTrue, IsMcp, Alive
    <2>. QED BY <2>1, <2>2, <2>3, <2>4 DEF Good
  <1>. QED BY <1>2, <1>4, OneRun

\* A program that outlived its run is killed when it writes.
LEMMA WriteKeeps ==
    ASSUME IInv, Typed', NEW e \in Runs, Write(e)
    PROVE  IInv'
  <1>1. Typed /\ Good(e)
    BY DEF IInv
  <1>2. \A d \in Runs : d # e => Same(d)
    BY <1>1 DEF Typed, Same, Write, asked, progVars, spaceVars
  <1>3. /\ proc[e] = "working" /\ (proc'[e] = proc[e] \/ proc'[e] = "killed") /\ noted' = noted
        /\ path'[e] = path[e] /\ place'[e] = place[e] /\ tool'[e] = tool[e] /\ todo'[e] = todo[e] /\ phase'[e] = phase[e] /\ age'[e] = age[e]
        /\ end'[e] = end[e] /\ result'[e] = result[e] /\ ran'[e] = ran[e] /\ booked'[e] = booked[e] /\ lease'[e] = lease[e]
    BY <1>1 DEF Typed, Write, asked, progVars, spaceVars
  <1>4. Good(e)'
    <2>1. ProgramBelongs(e)' /\ LeaseBelongs(e)'
      BY <1>1, <1>3 DEF Good, ProgramBelongs, LeaseBelongs, IsMcp, Alive
    <2>2. LeaseLasts(e)'
      BY <1>1, <1>3 DEF Good, LeaseLasts
    <2>3. RunIsBooked(e)'
      BY <1>1, <1>3 DEF Good, RunIsBooked
    <2>4. ResultIsTrue(e)'
      BY <1>1, <1>3 DEF Good, ProgramBelongs, ResultIsTrue, IsMcp, Alive
    <2>. QED BY <2>1, <2>2, <2>3, <2>4 DEF Good
  <1>. QED BY <1>2, <1>4, OneRun

\* A program exits while its run goes on.
LEMMA ExitKeeps ==
    ASSUME IInv, Typed', NEW e \in Runs, Exit(e)
    PROVE  IInv'
  <1>1. Typed /\ Good(e)
    BY DEF IInv
  <1>2. \A d \in Runs : d # e => Same(d)
    BY <1>1 DEF Typed, Same, Exit, asked, progVars, spaceVars
  <1>3. /\ proc[e] = "working" /\ proc'[e] = "exited" /\ noted' = noted
        /\ path'[e] = path[e] /\ place'[e] = place[e] /\ tool'[e] = tool[e] /\ todo'[e] = todo[e] /\ phase'[e] = phase[e] /\ age'[e] = age[e]
        /\ result'[e] = result[e] /\ ran'[e] = ran[e] /\ booked'[e] = booked[e] /\ lease'[e] = lease[e]
    BY <1>1 DEF Typed, Exit, asked, progVars, spaceVars
  <1>4. Good(e)'
    <2>1. ProgramBelongs(e)' /\ LeaseBelongs(e)'
      BY <1>1, <1>3 DEF Good, ProgramBelongs, LeaseBelongs, IsMcp, Alive
    <2>2. LeaseLasts(e)'
      BY <1>1, <1>3 DEF Good, LeaseLasts
    <2>3. RunIsBooked(e)'
      BY <1>1, <1>3 DEF Good, RunIsBooked
    <2>4. ResultIsTrue(e)'
      BY <1>1, <1>3 DEF Good, ProgramBelongs, ResultIsTrue, IsMcp, Alive
    <2>. QED BY <2>1, <2>2, <2>3, <2>4 DEF Good
  <1>. QED BY <1>2, <1>4, OneRun

\* The verdict is on the exit.
LEMMA FinishKeeps ==
    ASSUME IInv, Typed', NEW e \in Runs, Finish(e)
    PROVE  IInv'
  <1>1. Typed /\ Good(e)
    BY DEF IInv
  <1>2. \A d \in Runs : d # e => Same(d)
    BY <1>1 DEF Typed, Same, Finish, Concludes, asked, progVars, spaceVars
  <1>3. /\ phase[e] = "running" /\ proc[e] = "exited" /\ phase'[e] = "ended" /\ result'[e] = Verdict(e)
        /\ path'[e] = path[e] /\ place'[e] = place[e] /\ tool'[e] = tool[e] /\ todo'[e] = todo[e] /\ proc'[e] = proc[e] /\ noted' = noted
        /\ end'[e] = end[e] /\ ran'[e] = ran[e] /\ booked'[e] = booked[e] /\ lease'[e] = lease[e]
    BY <1>1 DEF Typed, Finish, Concludes, asked, progVars, spaceVars
  <1>4. Good(e)'
    <2>1. ProgramBelongs(e)' /\ LeaseBelongs(e)'
      BY <1>1, <1>3 DEF Good, ProgramBelongs, LeaseBelongs, IsMcp, Alive
    <2>2. LeaseLasts(e)'
      BY <1>1, <1>3 DEF Good, LeaseLasts
    <2>3. RunIsBooked(e)'
      BY <1>1, <1>3 DEF Good, RunIsBooked
    <2>4. ResultIsTrue(e)'
      BY <1>1, <1>3 DEF Good, ProgramBelongs, ResultIsTrue, IsMcp, Alive, Verdict, Classified
    <2>. QED BY <2>1, <2>2, <2>3, <2>4 DEF Good
  <1>. QED BY <1>2, <1>4, OneRun

\* MCP has no program.
LEMMA AnswerKeeps ==
    ASSUME IInv, Typed', NEW e \in Runs, Answer(e)
    PROVE  IInv'
  <1>1. Typed /\ Good(e)
    BY DEF IInv
  <1>2. \A d \in Runs : d # e => Same(d)
    BY <1>1 DEF Typed, Same, Answer, Concludes, asked, progVars, spaceVars
  <1>3. /\ phase[e] = "running" /\ IsMcp(e) /\ phase'[e] = "ended"
        /\ path'[e] = path[e] /\ place'[e] = place[e] /\ tool'[e] = tool[e] /\ todo'[e] = todo[e] /\ proc'[e] = proc[e] /\ noted' = noted
        /\ ran'[e] = ran[e] /\ booked'[e] = booked[e] /\ lease'[e] = lease[e]
    BY <1>1 DEF Typed, Answer, Concludes, asked, progVars, spaceVars
  <1>4. Good(e)'
    <2>1. ProgramBelongs(e)' /\ LeaseBelongs(e)'
      BY <1>1, <1>3 DEF Good, ProgramBelongs, LeaseBelongs, IsMcp, Alive
    <2>2. LeaseLasts(e)'
      BY <1>1, <1>3 DEF Good, LeaseLasts
    <2>3. RunIsBooked(e)'
      BY <1>1, <1>3 DEF Good, RunIsBooked
    <2>4. ResultIsTrue(e)'
      BY <1>1, <1>3 DEF Good, ProgramBelongs, ResultIsTrue, IsMcp, Alive
    <2>. QED BY <2>1, <2>2, <2>3, <2>4 DEF Good
  <1>. QED BY <1>2, <1>4, OneRun

\* The timeout ends the program and is a failure, whatever it had come to.
LEMMA TimeOutKeeps ==
    ASSUME IInv, Typed', NEW e \in Runs, TimeOut(e)
    PROVE  IInv'
  <1>1. Typed /\ Good(e)
    BY DEF IInv
  <1>2. \A d \in Runs : d # e => Same(d)
    BY <1>1 DEF Typed, Same, TimeOut, Concludes, Kill, Late, asked, progVars, spaceVars
  <1>3. /\ phase[e] = "running" /\ age[e] = Timeout /\ phase'[e] = "ended" /\ result'[e] = "failed"
        /\ proc'[e] = (IF proc[e] \in {"working", "prompting"} THEN "killed" ELSE proc[e])
        /\ path'[e] = path[e] /\ place'[e] = place[e] /\ tool'[e] = tool[e] /\ todo'[e] = todo[e] /\ age'[e] = age[e] /\ noted' = noted
        /\ ran'[e] = ran[e] /\ booked'[e] = booked[e] /\ lease'[e] = lease[e]
    BY <1>1, Times DEF Typed, TimeOut, Concludes, Kill, Late, asked, progVars, spaceVars
  <1>4. Good(e)'
    <2>1. ProgramBelongs(e)' /\ LeaseBelongs(e)'
      BY <1>1, <1>3 DEF Good, ProgramBelongs, LeaseBelongs, IsMcp, Alive
    <2>2. LeaseLasts(e)'
      BY <1>1, <1>3, Times DEF Good, LeaseLasts
    <2>3. RunIsBooked(e)'
      BY <1>1, <1>3 DEF Good, RunIsBooked
    <2>4. ResultIsTrue(e)'
      <3>1. ~(age'[e] < Timeout) /\ result'[e] # "ok"
        BY <1>3, Times
      <3>. QED BY <3>1 DEF ResultIsTrue, IsMcp
    <2>. QED BY <2>1, <2>2, <2>3, <2>4 DEF Good
  <1>. QED BY <1>2, <1>4, OneRun

\* A forced release leaves no lease, not a wrong one.
LEMMA ForceReleaseKeeps ==
    ASSUME IInv, Typed', NEW e \in Runs, ForceRelease(e)
    PROVE  IInv'
  <1>1. Typed /\ Good(e)
    BY DEF IInv
  <1>2. \A d \in Runs : d # e => Same(d)
    BY <1>1 DEF Typed, Same, ForceRelease, Release, asked, progVars, spaceVars
  <1>3. /\ lease'[e] = NoLease /\ e \notin noted'
        /\ path'[e] = path[e] /\ place'[e] = place[e] /\ tool'[e] = tool[e] /\ todo'[e] = todo[e] /\ phase'[e] = phase[e] /\ age'[e] = age[e] /\ proc'[e] = proc[e]
        /\ end'[e] = end[e] /\ result'[e] = result[e] /\ ran'[e] = ran[e] /\ booked'[e] = booked[e]
    BY <1>1 DEF Typed, ForceRelease, Release, asked, progVars, spaceVars
  <1>4. Good(e)'
    <2>1. ProgramBelongs(e)' /\ LeaseBelongs(e)'
      BY <1>1, <1>3 DEF Good, ProgramBelongs, LeaseBelongs, IsMcp, Alive
    <2>2. LeaseLasts(e)'
      BY <1>1, <1>3 DEF Good, LeaseLasts
    <2>3. RunIsBooked(e)'
      BY <1>1, <1>3 DEF Good, RunIsBooked
    <2>4. ResultIsTrue(e)'
      BY <1>1, <1>3 DEF Good, ProgramBelongs, ResultIsTrue, IsMcp, Alive
    <2>. QED BY <2>1, <2>2, <2>3, <2>4 DEF Good
  <1>. QED BY <1>2, <1>4, OneRun

LEMMA ReadKeeps ==
    ASSUME IInv, Typed', NEW e \in Runs, Read(e)
    PROVE  IInv'
  <1>1. \A d \in Runs : Same(d)
    BY DEF Same, Read, asked, progVars, spaceVars
  <1>2. Good(e)'
    BY <1>1, SameIsGood DEF IInv
  <1>. QED BY <1>1, <1>2, OneRun

-----------------------------------------------------------------------------
(* Time and crashes *)

\* A tick takes the same from the lease as it gives to the run.
LEMMA TickKeeps == ASSUME IInv, Typed', Tick PROVE IInv'
  <1>1. ASSUME NEW d \in Runs PROVE Good(d)'
    <2>1. Typed /\ Good(d)
      BY DEF IInv
    <2>2. /\ path'[d] = path[d] /\ place'[d] = place[d] /\ tool'[d] = tool[d] /\ todo'[d] = todo[d]
          /\ phase'[d] = phase[d] /\ phase[d] \notin {"ready", "ended"} /\ proc'[d] = proc[d]
          /\ ran'[d] = ran[d] /\ booked'[d] = booked[d] /\ noted' = noted
      BY DEF Tick, asked, progVars
    <2>3. /\ phase[d] = "running" => age[d] < Timeout /\ age'[d] = age[d] + 1
          /\ lease'[d] = IF lease[d] \in Nat /\ lease[d] > 0 THEN lease[d] - 1 ELSE lease[d]
      BY DEF Tick
    <2>4. age[d] \in Nat /\ lease[d] \in Nat \cup {NoLease}
      BY <2>1 DEF Typed
    <2>5. ProgramBelongs(d)' /\ LeaseBelongs(d)'
      BY <2>1, <2>2, <2>3, Times DEF Good, ProgramBelongs, LeaseBelongs, IsMcp, Alive
    <2>6. LeaseLasts(d)'
      <3>1. SUFFICES ASSUME path[d] \in {"single", "event"}, place[d] = d, phase[d] = "running"
                     PROVE  /\ todo[d] = 1 /\ age'[d] <= Timeout
                            /\ lease'[d] = NoLease \/ lease'[d] + age'[d] = LeaseTime
        BY <2>1, <2>2 DEF Good, LeaseLasts
      <3>2. todo[d] = 1 /\ (lease[d] = NoLease \/ lease[d] + age[d] = LeaseTime)
        BY <2>1, <3>1 DEF Good, LeaseLasts
      <3>3. age'[d] <= Timeout
        BY <2>3, <2>4, <3>1, Times
      <3>4. CASE lease[d] = NoLease
        BY <2>3, <3>2, <3>3, <3>4, Times
      <3>5. CASE lease[d] \in Nat
        <4>1. lease[d] + age[d] = LeaseTime /\ age[d] < Timeout
          BY <2>3, <3>1, <3>2, <3>5, Times
        <4>2. lease[d] > 0
          BY <2>4, <3>5, <4>1, Times
        <4>3. lease'[d] = lease[d] - 1 /\ age'[d] = age[d] + 1
          BY <2>3, <3>1, <3>5, <4>2
        <4>. QED BY <2>4, <3>2, <3>3, <3>5, <4>1, <4>3, Times
      <3>. QED BY <2>4, <3>4, <3>5
    <2>7. RunIsBooked(d)' /\ ResultIsTrue(d)'
      BY <2>1, <2>2 DEF Good, RunIsBooked, ResultIsTrue
    <2>. QED BY <2>5, <2>6, <2>7 DEF Good
  <1>. QED BY <1>1 DEF IInv

\* A crash leaves programs and leases, and runs that nobody waits for.
LEMMA CrashKeeps == ASSUME IInv, Typed', Crash PROVE IInv'
  <1>1. ASSUME NEW d \in Runs PROVE Good(d)'
    <2>1. Typed /\ Good(d)
      BY DEF IInv
    <2>2. /\ path'[d] = path[d] /\ place'[d] = place[d] /\ tool'[d] = tool[d] /\ todo'[d] = todo[d]
          /\ age'[d] = age[d] /\ proc'[d] = proc[d] /\ end'[d] = end[d] /\ result'[d] = result[d]
          /\ ran'[d] = ran[d] /\ booked'[d] = booked[d] /\ lease'[d] = lease[d] /\ noted' = noted
      BY DEF Crash, asked, progVars, spaceVars
    <2>3. phase'[d] = phase[d] \/ (phase'[d] = "lost" /\ phase[d] \notin {"idle", "done"})
      BY DEF Crash
    <2>. QED BY <2>1, <2>2, <2>3 DEF Good, ProgramBelongs, LeaseBelongs, LeaseLasts, RunIsBooked,
                ResultIsTrue, IsMcp, Alive
  <1>. QED BY <1>1 DEF IInv

-----------------------------------------------------------------------------
(* The theorems *)

LEMMA NextIInv == IInv /\ [Next]_vars => IInv'
  <1>. SUFFICES ASSUME IInv, [Next]_vars PROVE IInv'
    OBVIOUS
  <1>0. Typed'
    BY NextTyped DEF IInv
  <1>1. ASSUME NEW d \in Runs, NEW by \in {"single", "batch", "call", "event"}, NEW with \in Tools,
               NEW tasks \in 1 .. Segments, EnterSpace(d, by, with, tasks)
        PROVE  IInv'
    BY <1>0, <1>1, EnterSpaceKeeps
  <1>2. ASSUME NEW d \in Runs, NEW by \in {"single", "batch", "call", "event"}, NEW with \in Tools,
               NEW where \in Named, EnterNamed(d, by, where, with)
        PROVE  IInv'
    BY <1>0, <1>2, EnterNamedKeeps
  <1>3. ASSUME NEW d \in Runs, Approve(d) \/ Refuse(d) PROVE IInv'
    BY <1>0, <1>3, ApproveKeeps, RefuseKeeps
  <1>4. ASSUME NEW d \in Runs, Step(d) PROVE IInv'
    BY <1>0, <1>4, BookKeeps, LeaveKeeps, StartFailsKeeps, StartsKeeps, ReadKeeps, FinishKeeps,
       AnswerKeeps, TimeOutKeeps DEF Step
  <1>5. ASSUME NEW d \in Runs, Write(d) \/ Exit(d) \/ ForceRelease(d) PROVE IInv'
    BY <1>0, <1>5, WriteKeeps, ExitKeeps, ForceReleaseKeeps
  <1>6. CASE Tick \/ Crash
    BY <1>0, <1>6, TickKeeps, CrashKeeps
  <1>7. CASE UNCHANGED vars
    <2>1. \A d \in Runs : Same(d)
      BY <1>7 DEF vars, asked, progVars, spaceVars, Same
    <2>. QED BY <1>0, <2>1, SameIsGood DEF IInv
  <1>. QED BY <1>1, <1>2, <1>3, <1>4, <1>5, <1>6, <1>7 DEF Next

THEOREM Inductive == Spec => []IInv
  BY InitIInv, NextIInv, PTL DEF Spec

\* A delegation reports what its program came to, and the ledger has a row for each run,
\* for every number of delegations, tools, timeout and lease (run_delegation, fatal_output,
\* record_delegation).
THEOREM ReportsStayTrue == Spec => []ReportsAreTrue
  <1>1. IInv => ReportsAreTrue
    BY DEF IInv, Good, RunIsBooked, ResultIsTrue, ReportsAreTrue, ResultsAreTrue, EveryRunIsBooked
  <1>. QED BY <1>1, Inductive, PTL

\* A delegation that is over has left its space, and a single task or an event works under a
\* lease that lasts, as long as the lease is longer than the timeout (taskspace.py).
THEOREM SpacesStayKept == Spec => []SpacesAreKept
  <1>1. ASSUME IInv, NEW d \in Runs, phase[d] = "done"
        PROVE  lease[d] = NoLease /\ d \notin noted /\ proc[d] \notin {"working", "prompting"}
    BY <1>1 DEF IInv, Good, ProgramBelongs, LeaseBelongs, Alive
  <1>2. ASSUME IInv, NEW d \in Runs, phase[d] = "running", place[d] = d, path[d] \in {"single", "event"}
        PROVE  lease[d] # 0
    <2>1. age[d] \in Nat /\ age[d] <= Timeout /\ (lease[d] = NoLease \/ lease[d] + age[d] = LeaseTime)
      BY <1>2 DEF IInv, Typed, Good, LeaseLasts
    <2>2. CASE lease[d] = NoLease
      BY <2>2, Times
    <2>3. CASE lease[d] + age[d] = LeaseTime
      <3>1. 0 + age[d] # LeaseTime
        BY <2>1, Times
      <3>. QED BY <2>3, <3>1
    <2>. QED BY <2>1, <2>2, <2>3
  <1>3. IInv => SpacesAreKept
    BY <1>1, <1>2 DEF SpacesAreKept, SpacesAreLeft, WorkIsCovered
  <1>. QED BY <1>3, Inductive, PTL

-----------------------------------------------------------------------------
(* The tray: the inductive invariant *)

Places == {"absent", "idle", "start", "read", "clear", "wait", "guard", "spawn",
           "menu", "icon", "over", "sleep", "gateway?", "stop?", "start?", "restart?", "mark", "ended"}

\* Places of start(), and those of start() at which nothing runs.
Inside == {"read", "clear", "wait", "guard", "spawn"}
Cleared == {"wait", "guard", "spawn"}

\* Places of the heartbeat at which it serves the burner's requests.
OfBurner == {"stop?", "start?", "restart?"}

TrayTyped ==
    /\ kids \in [Kids -> {"none", "up", "told"}]
    /\ pc \in [Keeper!Threads -> Places] /\ then \in [Keeper!Threads -> Places]
    /\ mine \in [Keeper!Threads -> Kids \cup {Nobody}] /\ child \in Kids \cup {Nobody}

\* Until the tray that keeps the gateway quits.
Kept == mode = "gateway" /\ then["main"] = "menu"

NoneUp == \A k \in Kids : kids[k] # "up"

\* start() is left for a place that is not one of its own; no gateway's heartbeat serves the burner.
Away ==
    /\ \A t \in Keeper!Threads : then[t] \notin Inside /\ (t = "beat" => then[t] = "idle")
    /\ pc["beat"] \notin OfBurner

\* What the threads know.
Lone ==
    /\ \A t \in Keeper!Threads : pc[t] \in Inside => lock = t
    /\ \A k \in Kids : kids[k] = "up" => child = k
    /\ \A t \in Keeper!Threads : pc[t] = "clear" => mine[t] = child \/ NoneUp
    /\ \A t \in Keeper!Threads : pc[t] \in Cleared => NoneUp

TrayInv == TrayTyped /\ (Kept => Away /\ Lone)

-----------------------------------------------------------------------------

\* The tray starts with no gateway, or beside systemd's one unit.
LEMMA TrayInitial == Keeper!Init => TrayInv
  <1>. SUFFICES ASSUME Keeper!Init PROVE TrayInv
    OBVIOUS
  <1>1. TrayTyped
    <2>1. kids \in [Kids -> {"none", "up", "told"}]
      BY DEF Keeper!Init
    <2>2. pc \in [Keeper!Threads -> Places]
      BY DEF Keeper!Init, Places
    <2>3. then \in [Keeper!Threads -> Places]
      BY DEF Keeper!Init, Places
    <2>4. mine \in [Keeper!Threads -> Kids \cup {Nobody}]
      BY DEF Keeper!Init
    <2>5. child \in Kids \cup {Nobody}
      BY DEF Keeper!Init
    <2>. QED BY <2>1, <2>2, <2>3, <2>4, <2>5 DEF TrayTyped
  <1>2. ASSUME Kept PROVE Away /\ Lone
    BY <1>2 DEF Kept, Keeper!Init, Away, Lone, Inside, OfBurner, Cleared, NoneUp, Keeper!Threads
  <1>. QED BY <1>1, <1>2 DEF TrayInv

-----------------------------------------------------------------------------
(* The types *)

LEMMA KidsTyped ==
    ASSUME TrayTyped, [Keeper!Next]_(Keeper!vars)
    PROVE  (kids \in [Kids -> {"none", "up", "told"}])'
  <1>1. CASE UNCHANGED kids
    BY <1>1 DEF TrayTyped
  <1>2. ASSUME NEW t \in Keeper!Threads, Keeper!Clear(t) \/ Keeper!Guard(t) \/ Keeper!Spawn(t)
        PROVE  (kids \in [Kids -> {"none", "up", "told"}])'
    BY <1>2 DEF TrayTyped, Keeper!Clear, Keeper!Guard, Keeper!Spawn, Keeper!processes
  <1>3. ASSUME NEW k \in Kids, Keeper!Dies(k) PROVE (kids \in [Kids -> {"none", "up", "told"}])'
    BY <1>3 DEF TrayTyped, Keeper!Dies
  <1>4. ASSUME NEW v \in {"stop", "start", "restart"}, Keeper!Ask(v)
        PROVE  (kids \in [Kids -> {"none", "up", "told"}])'
    BY <1>4 DEF TrayTyped, Keeper!Ask, Keeper!Systemctl, Keeper!processes
  <1>5. CASE Keeper!Respawn
    BY <1>5 DEF TrayTyped, Keeper!Respawn
  <1>. QED
    BY <1>1, <1>2, <1>3, <1>4, <1>5 DEF Keeper!Next, Keeper!Child, Keeper!Beat, Keeper!Acquire,
       Keeper!Read, Keeper!Wait, Keeper!Open, Keeper!MenuRestart, Keeper!MenuQuit, Keeper!Exit,
       Keeper!Wake, Keeper!Consume, Keeper!Serve, Keeper!ConsumeGateway, Keeper!Mark, Keeper!Tick,
       Keeper!Save, Keeper!Request, Keeper!vars, Keeper!processes

LEMMA ThenTyped ==
    ASSUME TrayTyped, [Keeper!Next]_(Keeper!vars)
    PROVE  (then \in [Keeper!Threads -> Places])'
  <1>1. CASE UNCHANGED then
    BY <1>1 DEF TrayTyped
  <1>2. CASE Keeper!MenuQuit
    BY <1>2 DEF TrayTyped, Keeper!MenuQuit, Places
  <1>3. CASE Keeper!Consume
    BY <1>3 DEF TrayTyped, Keeper!Consume, Keeper!Serve, Places
  <1>. QED
    BY <1>1, <1>2, <1>3 DEF Keeper!Next, Keeper!Child, Keeper!Beat, Keeper!Acquire, Keeper!Read,
       Keeper!Clear, Keeper!Wait, Keeper!Guard, Keeper!Spawn, Keeper!Open, Keeper!MenuRestart,
       Keeper!Exit, Keeper!Wake, Keeper!ConsumeGateway, Keeper!Mark, Keeper!Tick, Keeper!Save,
       Keeper!Request, Keeper!Dies, Keeper!Ask, Keeper!Respawn, Keeper!vars, Keeper!threads

LEMMA ChildTyped ==
    ASSUME TrayTyped, [Keeper!Next]_(Keeper!vars)
    PROVE  (child \in Kids \cup {Nobody})'
  <1>1. CASE UNCHANGED child
    BY <1>1 DEF TrayTyped
  <1>2. CASE child' = Nobody
    BY <1>2
  <1>3. ASSUME NEW t \in Keeper!Threads, Keeper!Spawn(t) PROVE (child \in Kids \cup {Nobody})'
    BY <1>3 DEF TrayTyped, Keeper!Spawn, Keeper!processes
  <1>4. ASSUME NEW k \in Kids, Keeper!Dies(k) PROVE (child \in Kids \cup {Nobody})'
    BY <1>4 DEF TrayTyped, Keeper!Dies
  <1>. QED
    BY <1>1, <1>2, <1>3, <1>4 DEF Keeper!Next, Keeper!Child, Keeper!Beat, Keeper!Acquire,
       Keeper!Read, Keeper!Clear, Keeper!Wait, Keeper!Guard, Keeper!Open, Keeper!MenuQuit,
       Keeper!MenuRestart, Keeper!Exit, Keeper!Wake, Keeper!Consume, Keeper!Serve,
       Keeper!ConsumeGateway, Keeper!Mark, Keeper!Tick, Keeper!Save, Keeper!Request, Keeper!Ask,
       Keeper!Respawn, Keeper!vars, Keeper!processes

LEMMA MineTyped ==
    ASSUME TrayTyped, [Keeper!Next]_(Keeper!vars)
    PROVE  (mine \in [Keeper!Threads -> Kids \cup {Nobody}])'
  <1>1. CASE UNCHANGED mine
    BY <1>1 DEF TrayTyped
  <1>2. ASSUME NEW t \in Keeper!Threads, Keeper!Wait(t) \/ Keeper!Read(t)
        PROVE  (mine \in [Keeper!Threads -> Kids \cup {Nobody}])'
    BY <1>2 DEF TrayTyped, Keeper!Wait, Keeper!Read
  <1>3. CASE Keeper!Exit
    BY <1>3 DEF Keeper!Exit
  <1>. QED
    BY <1>1, <1>2, <1>3 DEF Keeper!Next, Keeper!Child, Keeper!Beat, Keeper!Acquire, Keeper!Clear,
       Keeper!Guard, Keeper!Spawn, Keeper!Open, Keeper!MenuQuit, Keeper!MenuRestart, Keeper!Wake,
       Keeper!Consume, Keeper!Serve, Keeper!ConsumeGateway, Keeper!Mark, Keeper!Tick, Keeper!Save,
       Keeper!Request, Keeper!Dies, Keeper!Ask, Keeper!Respawn, Keeper!vars, Keeper!threads

LEMMA PcTyped ==
    ASSUME TrayTyped, [Keeper!Next]_(Keeper!vars)
    PROVE  (pc \in [Keeper!Threads -> Places])'
  <1>. USE DEF Keeper!Goes
  <1>1. CASE UNCHANGED pc
    BY <1>1 DEF TrayTyped
  <1>2. ASSUME NEW t \in Keeper!Threads, Keeper!Child(t) PROVE (pc \in [Keeper!Threads -> Places])'
    BY <1>2 DEF TrayTyped, Places, Keeper!Child, Keeper!Acquire, Keeper!Read, Keeper!Clear,
       Keeper!Wait, Keeper!Guard, Keeper!Spawn, Keeper!Unlocks
  <1>3. CASE Keeper!Beat
    <2>1. CASE Keeper!Wake \/ Keeper!Mark
      BY <2>1 DEF TrayTyped, Places, Keeper!Wake, Keeper!Mark
    <2>2. CASE Keeper!Consume
      BY <2>2 DEF TrayTyped, Places, Keeper!Consume, Keeper!Serve
    <2>3. CASE Keeper!ConsumeGateway
      BY <2>3 DEF TrayTyped, Places, Keeper!ConsumeGateway
    <2>. QED BY <1>3, <2>1, <2>2, <2>3 DEF Keeper!Beat
  <1>4. CASE Keeper!Open \/ Keeper!MenuQuit
    BY <1>4 DEF TrayTyped, Places, Keeper!Open, Keeper!MenuQuit
  <1>5. ASSUME NEW r \in Restarts, Keeper!MenuRestart(r) PROVE (pc \in [Keeper!Threads -> Places])'
    BY <1>5 DEF TrayTyped, Places, Keeper!MenuRestart, Keeper!Restart
  <1>6. CASE Keeper!Exit
    BY <1>6 DEF Keeper!Exit, Places
  <1>. QED
    BY <1>1, <1>2, <1>3, <1>4, <1>5, <1>6 DEF Keeper!Next, Keeper!Tick, Keeper!Save,
       Keeper!Request, Keeper!Dies, Keeper!Ask, Keeper!Respawn, Keeper!vars, Keeper!threads

LEMMA TrayStaysTyped ==
    ASSUME TrayTyped, [Keeper!Next]_(Keeper!vars)
    PROVE  TrayTyped'
  BY KidsTyped, PcTyped, ThenTyped, MineTyped, ChildTyped DEF TrayTyped

-----------------------------------------------------------------------------
(* What the threads know *)

\* A tray that keeps the gateway and has not quit has not quit before.
LEMMA KeptBefore == ASSUME TrayTyped, [Keeper!Next]_(Keeper!vars), Kept' PROVE Kept
  <1>1. mode' = mode
    BY DEF Keeper!Next, Keeper!Child, Keeper!Beat, Keeper!Acquire, Keeper!Read, Keeper!Clear,
       Keeper!Wait, Keeper!Guard, Keeper!Spawn, Keeper!Open, Keeper!MenuRestart, Keeper!MenuQuit,
       Keeper!Exit, Keeper!Wake, Keeper!Consume, Keeper!Serve, Keeper!ConsumeGateway, Keeper!Mark,
       Keeper!Tick, Keeper!Save, Keeper!Request, Keeper!Dies, Keeper!Ask, Keeper!Respawn,
       Keeper!vars
  <1>2. CASE UNCHANGED then
    BY <1>1, <1>2 DEF Kept
  <1>3. ~Keeper!MenuQuit
    BY DEF TrayTyped, Kept, Keeper!MenuQuit, Keeper!Threads
  <1>4. CASE Keeper!Consume
    BY <1>1, <1>4 DEF TrayTyped, Kept, Keeper!Consume, Keeper!Serve, Keeper!Threads
  <1>. QED
    BY <1>2, <1>3, <1>4 DEF Keeper!Next, Keeper!Child, Keeper!Beat, Keeper!Acquire, Keeper!Read,
       Keeper!Clear, Keeper!Wait, Keeper!Guard, Keeper!Spawn, Keeper!Open, Keeper!MenuRestart,
       Keeper!Exit, Keeper!Wake, Keeper!ConsumeGateway, Keeper!Mark, Keeper!Tick, Keeper!Save,
       Keeper!Request, Keeper!Dies, Keeper!Ask, Keeper!Respawn, Keeper!vars, Keeper!threads

\* Threads that stay where they are, or go to places outside of start(), and processes that stay.
LEMMA StaysLone ==
    ASSUME Lone, UNCHANGED <<lock, mine, kids, child>>,
           \A t \in Keeper!Threads : pc'[t] = pc[t] \/ pc'[t] \notin Inside
    PROVE  Lone'
  BY DEF Lone, NoneUp, Inside, Cleared

LEMMA ChildLone ==
    ASSUME Nobody \notin Keeper!Threads, TrayTyped, TrayTyped', Away, Lone, Kept,
           NEW t \in Keeper!Threads, Keeper!Child(t)
    PROVE  Lone'
  <1>. USE DEF Keeper!Goes, TrayTyped, Keeper!threads, Keeper!processes
  <1>0. \A s \in Keeper!Threads : s # t => pc'[s] = pc[s]
    BY DEF Keeper!Child, Keeper!Acquire, Keeper!Read, Keeper!Clear, Keeper!Wait, Keeper!Guard,
       Keeper!Spawn, Keeper!Unlocks
  <1>1. CASE Keeper!Acquire(t)
    <2>1. \A s \in Keeper!Threads : pc[s] \notin Inside
      BY <1>1 DEF Keeper!Acquire, Lone
    <2>2. lock' = t /\ pc'[t] = "read" /\ UNCHANGED <<kids, child>>
      BY <1>1 DEF Keeper!Acquire
    <2>. QED BY <1>0, <2>1, <2>2 DEF Lone, NoneUp, Inside, Cleared
  <1>2. CASE Keeper!Read(t)
    <2>1. lock = t /\ pc'[t] = "clear" /\ mine'[t] = child /\ UNCHANGED <<lock, kids, child>>
      BY <1>2 DEF Keeper!Read, Lone, Inside
    <2>2. \A s \in Keeper!Threads : s # t => pc[s] \notin Inside
      BY <2>1 DEF Lone
    <2>. QED BY <1>0, <2>1, <2>2 DEF Lone, NoneUp, Inside, Cleared
  <1>3. CASE Keeper!Clear(t)
    <2>1. lock = t /\ pc'[t] = "wait" /\ lock' = lock
      BY <1>3 DEF Keeper!Clear, Lone, Inside
    <2>2. NoneUp'
      <3>1. mine[t] = child \/ NoneUp
        BY <1>3 DEF Keeper!Clear, Lone
      <3>2. \A k \in Kids : kids'[k] = IF k = mine[t] /\ kids[k] = "up" THEN "told" ELSE kids[k]
        BY <1>3 DEF Keeper!Clear
      <3>. QED BY <3>1, <3>2 DEF Lone, NoneUp
    <2>3. \A s \in Keeper!Threads : s # t => pc[s] \notin Inside
      BY <2>1 DEF Lone
    <2>. QED BY <1>0, <2>1, <2>2, <2>3 DEF Lone, NoneUp, Inside, Cleared
  <1>4. CASE Keeper!Wait(t)
    <2>1. lock = t /\ pc'[t] = "guard" /\ UNCHANGED <<lock, kids, child>> /\ NoneUp
      BY <1>4 DEF Keeper!Wait, Lone, Inside, Cleared
    <2>2. \A s \in Keeper!Threads : s # t => pc[s] \notin Inside
      BY <2>1 DEF Lone
    <2>. QED BY <1>0, <2>1, <2>2 DEF Lone, NoneUp, Inside, Cleared
  <1>5. CASE Keeper!Guard(t)
    <2>1. lock = t /\ NoneUp
      BY <1>5 DEF Keeper!Guard, Lone, Inside, Cleared
    <2>2. NoneUp' /\ UNCHANGED child
      BY <1>5, <2>1 DEF Keeper!Guard, NoneUp
    <2>3. (pc'[t] = "spawn" /\ lock' = lock) \/ pc'[t] \notin Inside
      BY <1>5 DEF Keeper!Guard, Keeper!Unlocks, Away, Inside
    <2>4. \A s \in Keeper!Threads : s # t => pc[s] \notin Inside
      BY <2>1 DEF Lone
    <2>. QED BY <1>0, <2>1, <2>2, <2>3, <2>4 DEF Lone, NoneUp, Inside, Cleared
  <1>6. CASE Keeper!Spawn(t)
    <2>1. lock = t /\ NoneUp
      BY <1>6 DEF Keeper!Spawn, Lone, Inside, Cleared
    <2>2. pc'[t] \notin Inside
      BY <1>6 DEF Keeper!Spawn, Keeper!Unlocks, Away, Inside
    <2>3. \A k \in Kids : kids'[k] = "up" => child' = k
      BY <1>6, <2>1 DEF Keeper!Spawn, NoneUp
    <2>4. \A s \in Keeper!Threads : s # t => pc[s] \notin Inside
      BY <2>1 DEF Lone
    <2>. QED BY <1>0, <2>1, <2>2, <2>3, <2>4 DEF Lone, NoneUp, Inside, Cleared
  <1>. QED BY <1>1, <1>2, <1>3, <1>4, <1>5, <1>6 DEF Keeper!Child

\* The tray that restarts nothing by itself: requests of the console, menu clicks, ends of children.
LEMMA OthersLone ==
    ASSUME TrayTyped, TrayTyped', Away, Lone, Kept, Kept', [Keeper!Next]_(Keeper!vars),
           \A t \in Keeper!Threads : ~Keeper!Child(t)
    PROVE  Lone'
  <1>. USE DEF Keeper!Goes, TrayTyped, Keeper!threads, Keeper!processes
  <1>1. CASE UNCHANGED <<pc, lock, mine, kids, child>>
    BY <1>1, StaysLone
  <1>2. ASSUME NEW k \in Kids, Keeper!Dies(k) PROVE Lone'
    <2>1. \A j \in Kids : kids'[j] = "up" => kids[j] = "up" /\ j # k
      BY <1>2 DEF Keeper!Dies
    <2>2. child' = child \/ (child = k /\ NoneUp')
      <3>1. child' = child \/ child = k
        BY <1>2 DEF Keeper!Dies
      <3>2. child = k => NoneUp'
        BY <2>1 DEF Lone, NoneUp
      <3>. QED BY <3>1, <3>2
    <2>3. NoneUp => NoneUp'
      BY <2>1 DEF NoneUp
    <2>4. UNCHANGED <<pc, lock, mine>>
      BY <1>2 DEF Keeper!Dies
    <2>. QED BY <2>1, <2>2, <2>3, <2>4 DEF Lone, NoneUp
  <1>3. CASE Keeper!Open
    BY <1>3, StaysLone DEF Keeper!Open, Inside
  <1>4. ASSUME NEW r \in Restarts, Keeper!MenuRestart(r) PROVE Lone'
    BY <1>4, StaysLone DEF Keeper!MenuRestart, Keeper!Restart, Inside
  <1>5. ~Keeper!MenuQuit
    BY DEF Kept, Keeper!MenuQuit, Keeper!Threads
  <1>6. CASE Keeper!Exit
    <2>1. pc["main"] = "over" /\ (\A t \in Keeper!Threads : pc'[t] \notin Inside) /\ UNCHANGED <<kids, child>>
      BY <1>6 DEF Keeper!Exit, Inside
    <2>. QED BY <2>1 DEF Lone, Inside, Cleared
  <1>7. CASE Keeper!Beat
    <2>1. CASE Keeper!Wake \/ Keeper!Mark
      BY <2>1, StaysLone DEF Keeper!Wake, Keeper!Mark, Inside
    <2>2. ~Keeper!Consume
      BY DEF Away, OfBurner, Keeper!Consume, Keeper!Serve
    <2>3. CASE Keeper!ConsumeGateway
      BY <2>3, StaysLone DEF Keeper!ConsumeGateway, Inside
    <2>. QED BY <1>7, <2>1, <2>2, <2>3 DEF Keeper!Beat
  <1>8. ASSUME NEW v \in {"stop", "start", "restart"}, Keeper!Ask(v) PROVE Lone'
    BY <1>1, <1>8 DEF Keeper!Ask, Kept
  <1>9. ~Keeper!Respawn
    BY DEF Keeper!Respawn, Kept
  <1>10. CASE Keeper!Tick \/ Keeper!Save \/ Keeper!Request \/ UNCHANGED Keeper!vars
    BY <1>1, <1>10 DEF Keeper!Tick, Keeper!Save, Keeper!Request, Keeper!vars
  <1>. QED BY <1>2, <1>3, <1>4, <1>5, <1>6, <1>7, <1>8, <1>9, <1>10 DEF Keeper!Next
LEMMA KeepsAway ==
    ASSUME TrayTyped, TrayTyped', Away, Kept, Kept', [Keeper!Next]_(Keeper!vars)
    PROVE  Away'
  <1>. USE DEF Keeper!Goes, TrayTyped, Keeper!threads
  <1>1. ~Keeper!MenuQuit /\ ~Keeper!Consume
    BY DEF Kept, Keeper!MenuQuit, Keeper!Threads, Away, OfBurner, Keeper!Consume, Keeper!Serve
  <1>2. UNCHANGED then
    BY <1>1 DEF Keeper!Next, Keeper!Child, Keeper!Beat, Keeper!Acquire, Keeper!Read, Keeper!Clear,
       Keeper!Wait, Keeper!Guard, Keeper!Spawn, Keeper!Open, Keeper!MenuRestart, Keeper!Exit,
       Keeper!Wake, Keeper!ConsumeGateway, Keeper!Mark, Keeper!Tick, Keeper!Save, Keeper!Request,
       Keeper!Dies, Keeper!Ask, Keeper!Respawn, Keeper!vars
  <1>3. pc'["beat"] \notin OfBurner
    <2>1. "beat" \in Keeper!Threads
      BY DEF Keeper!Threads
    <2>2. CASE UNCHANGED pc
      BY <2>2 DEF Away
    <2>3. ASSUME NEW t \in Keeper!Threads, Keeper!Child(t) PROVE pc'["beat"] \notin OfBurner
      BY <2>1, <2>3 DEF Away, OfBurner, Kept, Keeper!Child, Keeper!Acquire, Keeper!Read,
         Keeper!Clear, Keeper!Wait, Keeper!Guard, Keeper!Spawn, Keeper!Unlocks
    <2>4. ASSUME NEW r \in Restarts, Keeper!MenuRestart(r) PROVE pc'["beat"] \notin OfBurner
      BY <2>1, <2>4 DEF Away, OfBurner, Keeper!MenuRestart, Keeper!Restart
    <2>5. CASE Keeper!Wake \/ Keeper!Mark \/ Keeper!Open \/ Keeper!Exit
      BY <2>1, <2>5 DEF Away, OfBurner, Kept, Keeper!Wake, Keeper!Mark, Keeper!Open, Keeper!Exit
    <2>6. CASE Keeper!ConsumeGateway
      BY <2>1, <2>6 DEF Away, OfBurner, Keeper!ConsumeGateway
    <2>. QED
      BY <1>1, <2>2, <2>3, <2>4, <2>5, <2>6 DEF Keeper!Next, Keeper!Beat, Keeper!Tick, Keeper!Save,
         Keeper!Request, Keeper!Dies, Keeper!Ask, Keeper!Respawn, Keeper!vars
  <1>. QED BY <1>2, <1>3 DEF Away

LEMMA TrayNext ==
    ASSUME Nobody \notin Keeper!Threads, TrayInv, [Keeper!Next]_(Keeper!vars)
    PROVE  TrayInv'
  <1>1. TrayTyped'
    BY TrayStaysTyped DEF TrayInv
  <1>2. ASSUME Kept' PROVE Away' /\ Lone'
    <2>1. Kept /\ Away /\ Lone
      BY <1>2, KeptBefore DEF TrayInv
    <2>2. Away'
      BY <1>1, <1>2, <2>1, KeepsAway DEF TrayInv
    <2>3. Lone'
      BY <1>1, <1>2, <2>1, ChildLone, OthersLone DEF TrayInv
    <2>. QED BY <2>2, <2>3
  <1>. QED BY <1>1, <1>2 DEF TrayInv

\* At most one is up: the one the tray knows.
LEMMA OneIsKept == TrayInv => Keeper!OneGateway
  <1>0. \A S : Keeper!Cardinality(S) = Cardinality(S)
    BY DEF Keeper!Cardinality, Cardinality
  <1>. SUFFICES ASSUME TrayInv, mode = "gateway", then["main"] = "menu"
                PROVE  Cardinality({k \in Kids : kids[k] = "up"}) <= 1
    BY <1>0 DEF Keeper!OneGateway
  <1>1. {k \in Kids : kids[k] = "up"} \subseteq {child}
    BY DEF TrayInv, Kept, Lone
  <1>2. IsFiniteSet({child}) /\ Cardinality({child}) = 1
    BY FS_Singleton
  <1>. QED BY <1>1, <1>2, FS_Subset

\* Clicks and requests that overlap never leave two gateways, however many restart threads
\* there are (_ChildProcess.start holds its lock from the stop to the start).
THEOREM NeverTwoGateways == MCSpec => []OneGateway
  <1>1. MCInit => TrayInv
    BY TrayInitial DEF MCInit
  <1>2. ASSUME TrayInv, [MCNext]_all PROVE TrayInv'
    <2>1. Nobody \notin Keeper!Threads
      BY ThreadsAssumption DEF Keeper!Threads
    <2>2. Keeper!Next \/ UNCHANGED trayVars
      BY <1>2 DEF MCNext, OnlyBurner, OnlyPace, OnlyProgram, all
    <2>3. [Keeper!Next]_(Keeper!vars)
      BY <2>2 DEF trayVars, Keeper!vars, Keeper!threads, Keeper!processes, Keeper!console,
         Keeper!clock
    <2>. QED BY <1>2, <2>1, <2>3, TrayNext
  <1>3. TrayInv => OneGateway
    BY OneIsKept DEF OneGateway
  <1>. QED BY <1>1, <1>2, <1>3, PTL DEF MCSpec

-----------------------------------------------------------------------------
(* The burner: numbers, remainders and sums *)

\* A set of numbers that is not empty has a least one.
LEMMA LeastNumber ==
  ASSUME NEW T \in SUBSET Nat, T # {}
  PROVE  \E x \in T : \A y \in T : x <= y
  <1>1. \E x \in T : \A y \in T : ~ (<<y, x>> \in OpToRel(<, Nat))
    <2>. HIDE DEF OpToRel
    <2>. QED BY NatLessThanWellFounded, WFMin
  <1>2. PICK x \in T : \A y \in T : ~ (<<y, x>> \in OpToRel(<, Nat))
    BY <1>1
  <1>3. \A y \in T : ~ (y < x)
    BY <1>2 DEF OpToRel
  <1>. QED BY <1>3

\* Induction, for the set of numbers that a statement holds of.
LEMMA SetInduction ==
  ASSUME NEW S, 0 \in S, \A n \in Nat : n \in S => n + 1 \in S
  PROVE  Nat \subseteq S
  <1>. SUFFICES ASSUME Nat \ S # {} PROVE FALSE
    OBVIOUS
  <1>1. PICK x \in Nat \ S : \A y \in Nat \ S : x <= y
    BY LeastNumber
  <1>2. x # 0 /\ x - 1 \in Nat
    BY <1>1
  <1>3. x - 1 \in S
    BY <1>1, <1>2
  <1>. QED BY <1>1, <1>2, <1>3

\* The remainder is the only one.
LEMMA Remainder ==
  ASSUME NEW q \in Int, NEW W \in Nat \ {0}, NEW r \in 0 .. W - 1
  PROVE  (q * W + r) % W = r
  OBVIOUS

\* A number is a multiple of W and its remainder.
LEMMA Divides ==
  ASSUME NEW x \in Nat, NEW W \in Nat \ {0}
  PROVE  \E q \in Int : x = q * W + (x % W)
  <1>1. x \div W \in Int /\ x = (x \div W) * W + (x % W)
    OBVIOUS
  <1>. QED BY <1>1

\* A remainder is less than what is divided by, and no more than what is divided.
LEMMA Remainders ==
  ASSUME NEW x \in Nat, NEW W \in Nat \ {0}
  PROVE  x % W \in 0 .. W - 1 /\ x % W <= x
  OBVIOUS

\* Remainders add up.
LEMMA SumRemainder ==
  ASSUME NEW x \in Nat, NEW n \in Nat, NEW W \in Nat \ {0}
  PROVE  (x + n) % W = ((x % W) + n) % W
  <1>1. PICK q \in Int : x = q * W + (x % W)
    BY Divides
  <1>2. (x % W) + n \in Nat
    OBVIOUS
  <1>3. PICK p \in Int : (x % W) + n = p * W + (((x % W) + n) % W)
    BY <1>2, Divides
  <1>4. (((x % W) + n) % W) \in 0 .. W - 1
    BY <1>2, Remainders
  <1>5. ASSUME NEW s \in Int, NEW r \in Int, x = q * W + r, r + n = p * W + s
        PROVE  x + n = (q + p) * W + s
    BY <1>5
  <1>6. x + n = (q + p) * W + (((x % W) + n) % W)
    <2>1. x % W \in Int /\ ((x % W) + n) % W \in Int
      BY <1>4, Remainders
    <2>. QED BY <1>1, <1>3, <1>5, <2>1, Zenon
  <1>7. ((q + p) * W + (((x % W) + n) % W)) % W = ((x % W) + n) % W
    BY <1>4, Remainder, q + p \in Int
  <1>. QED BY <1>6, <1>7, Zenon

\* The position in a window one tick later.
LEMMA NextRemainder ==
  ASSUME NEW x \in Nat, NEW W \in Nat \ {0}
  PROVE  (x + 1) % W = IF (x % W) + 1 = W THEN 0 ELSE (x % W) + 1
  <1>1. (x + 1) % W = ((x % W) + 1) % W
    BY SumRemainder
  <1>2. CASE (x % W) + 1 = W
    BY <1>1, <1>2, Remainder, 1 * W + 0 = W, 0 \in 0 .. W - 1
  <1>3. CASE (x % W) + 1 # W
    <2>1. (x % W) + 1 \in 0 .. W - 1
      BY <1>3
    <2>. QED BY <1>1, <1>3, <2>1
  <1>. QED BY <1>2, <1>3

\* What is booked: credits of each age.
Ages == Ledger!Ages
Amounts == [Ages -> Int]

\* The ages are 0 .. WW - 1.
LEMMA AgesAre == Ages = 0 .. WW - 1 /\ WW \in Nat \ {0} /\ 0 \in Ages
  BY BudgetAssumption DEF Ages, Ledger!Ages

\* Induction over the ages.
LEMMA AgeInduction ==
  ASSUME NEW S, 0 \in S, \A g \in Ages : g \in S /\ g + 1 \in Ages => g + 1 \in S
  PROVE  Ages \subseteq S
  <1>. DEFINE T == S \cup {n \in Nat : n \notin Ages}
  <1>1. 0 \in T
    OBVIOUS
  <1>2. ASSUME NEW n \in Nat, n \in T PROVE n + 1 \in T
    BY <1>2, AgesAre
  <1>3. Nat \subseteq T
    <2>. HIDE DEF T
    <2>. QED BY <1>1, <1>2, SetInduction
  <1>. QED BY <1>3, AgesAre

\* There is a function as Since defines it; up to an age by induction, up to the last one in the
\* end.
LEMMA SumExists ==
  ASSUME NEW ev \in Amounts
  PROVE  \E sum : sum = [g \in Ages |-> ev[g] + (IF g = 0 THEN 0 ELSE sum[g - 1])]
  <1>. DEFINE Sums(f, n) == \A g \in 0 .. n : f[g] = ev[g] + (IF g = 0 THEN 0 ELSE f[g - 1])
              S == {n \in Ages : \E f \in [0 .. n -> Int] : Sums(f, n)}
  <1>1. 0 \in S
    <2>1. [g \in 0 .. 0 |-> ev[0]] \in [0 .. 0 -> Int] /\ Sums([g \in 0 .. 0 |-> ev[0]], 0)
      BY AgesAre DEF Amounts
    <2>. QED BY <2>1, AgesAre
  <1>2. ASSUME NEW n \in Ages, n \in S, n + 1 \in Ages PROVE n + 1 \in S
    <2>1. PICK f \in [0 .. n -> Int] : Sums(f, n)
      BY <1>2
    <2>. DEFINE h == [g \in 0 .. n + 1 |-> IF g = n + 1 THEN ev[n + 1] + f[n] ELSE f[g]]
    <2>2. h \in [0 .. n + 1 -> Int]
      BY <1>2, AgesAre DEF Amounts
    <2>3. Sums(h, n + 1)
      BY <2>1, AgesAre
    <2>. QED BY <1>2, <2>2, <2>3
  <1>3. WW - 1 \in S
    <2>. HIDE DEF S
    <2>. QED BY <1>1, <1>2, AgeInduction, AgesAre
  <1>4. PICK f \in [0 .. WW - 1 -> Int] : Sums(f, WW - 1)
    BY <1>3
  <1>5. f = [g \in Ages |-> ev[g] + (IF g = 0 THEN 0 ELSE f[g - 1])]
    BY <1>4, AgesAre
  <1>. QED BY <1>5, Zenon

\* So Since is the sum: of what is booked at an age, and since.
LEMMA SumUnfolds ==
  ASSUME NEW ev \in Amounts
  PROVE  \A g \in Ages :
            /\ Ledger!Since(ev, g) = ev[g] + (IF g = 0 THEN 0 ELSE Ledger!Since(ev, g - 1))
            /\ Ledger!Since(ev, g) \in Int
  <1>1. ASSUME NEW g \in Ages
        PROVE  Ledger!Since(ev, g) = ev[g] + (IF g = 0 THEN 0 ELSE Ledger!Since(ev, g - 1))
    BY SumExists DEF Ledger!Since, Ages
  <1>. DEFINE S == {g \in Ages : Ledger!Since(ev, g) \in Int}
  <1>2. 0 \in S
    BY <1>1, AgesAre DEF Amounts
  <1>3. ASSUME NEW g \in Ages, g \in S, g + 1 \in Ages PROVE g + 1 \in S
    BY <1>1, <1>3, AgesAre DEF Amounts
  <1>4. Ages \subseteq S
    <2>. HIDE DEF S
    <2>. QED BY <1>2, <1>3, AgeInduction
  <1>. QED BY <1>1, <1>4

\* The sum up to the next age.
LEMMA SumNext ==
  ASSUME NEW ev \in Amounts, NEW g \in Ages, g + 1 \in Ages
  PROVE  /\ Ledger!Since(ev, g + 1) = ev[g + 1] + Ledger!Since(ev, g)
         /\ Ledger!Since(ev, g + 1) \in Int /\ Ledger!Since(ev, g) \in Int /\ ev[g + 1] \in Int
  <1>1. g + 1 # 0 /\ (g + 1) - 1 = g
    BY AgesAre
  <1>2. ev[g + 1] \in Int
    BY DEF Amounts
  <1>. QED BY <1>1, <1>2, SumUnfolds

\* The sum of what was booked now.
LEMMA SumFirst ==
  ASSUME NEW ev \in Amounts
  PROVE  Ledger!Since(ev, 0) = ev[0] /\ ev[0] \in Int
  <1>1. 0 \in Ages
    BY AgesAre
  <1>2. ev[0] \in Int
    BY <1>1 DEF Amounts
  <1>3. Ledger!Since(ev, 0) = ev[0] + (IF 0 = 0 THEN 0 ELSE Ledger!Since(ev, 0 - 1))
    BY <1>1, SumUnfolds
  <1>. QED BY <1>2, <1>3

\* Bookings that are not below zero: sums grow with the age.
LEMMA SumsGrow ==
  ASSUME NEW ev \in Amounts, \A g \in Ages : ev[g] >= 0
  PROVE  \A g \in Ages : \A h \in 0 .. g :
            0 <= Ledger!Since(ev, h) /\ Ledger!Since(ev, h) <= Ledger!Since(ev, g)
  <1>. DEFINE S == {g \in Ages : \A h \in 0 .. g :
                      0 <= Ledger!Since(ev, h) /\ Ledger!Since(ev, h) <= Ledger!Since(ev, g)}
  <1>1. \A g \in Ages : ev[g] \in Int
    BY DEF Amounts
  <1>2. 0 \in S
    BY <1>1, SumFirst, SumUnfolds, AgesAre
  <1>3. ASSUME NEW g \in Ages, g \in S, g + 1 \in Ages PROVE g + 1 \in S
    <2>1. Ledger!Since(ev, g + 1) = ev[g + 1] + Ledger!Since(ev, g)
      BY <1>3, SumNext
    <2>2. Ledger!Since(ev, g) \in Int /\ ev[g + 1] >= 0 /\ ev[g + 1] \in Int
      BY <1>1, <1>3, SumNext
    <2>3. Ledger!Since(ev, g) <= Ledger!Since(ev, g + 1)
      BY <2>1, <2>2
    <2>4. ASSUME NEW h \in 0 .. g
          PROVE  /\ Ledger!Since(ev, h) \in Int /\ 0 <= Ledger!Since(ev, h)
                 /\ Ledger!Since(ev, h) <= Ledger!Since(ev, g + 1)
      <3>1. Ledger!Since(ev, h) \in Int
        BY SumUnfolds, AgesAre
      <3>. QED BY <1>3, <2>1, <2>2, <3>1
    <2>5. 0 <= Ledger!Since(ev, g + 1)
      BY <2>2, <2>3, <2>4, <2>1, AgesAre, g \in 0 .. g
    <2>6. \A h \in 0 .. g + 1 : h = g + 1 \/ h \in 0 .. g
      BY AgesAre
    <2>. QED BY <1>3, <2>1, <2>2, <2>4, <2>5, <2>6
  <1>4. Ages \subseteq S
    <2>. HIDE DEF S
    <2>. QED BY <1>2, <1>3, AgeInduction
  <1>. QED BY <1>4

\* Where nothing was booked the sum does not grow.
LEMMA FlatSums ==
  ASSUME NEW ev \in Amounts, NEW h \in Ages
  PROVE  \A j \in Ages : h <= j /\ (\A i \in h + 1 .. j : ev[i] = 0)
            => Ledger!Since(ev, j) = Ledger!Since(ev, h)
  <1>. DEFINE S == {j \in Ages : h <= j /\ (\A i \in h + 1 .. j : ev[i] = 0)
                      => Ledger!Since(ev, j) = Ledger!Since(ev, h)}
  <1>1. 0 \in S
    BY AgesAre
  <1>2. ASSUME NEW j \in Ages, j \in S, j + 1 \in Ages PROVE j + 1 \in S
    <2>1. Ledger!Since(ev, j + 1) = ev[j + 1] + Ledger!Since(ev, j) /\ Ledger!Since(ev, j) \in Int
      BY <1>2, SumNext
    <2>2. CASE h = j + 1
      BY <1>2, <2>2
    <2>3. CASE h <= j
      BY <1>2, <2>1, <2>3, AgesAre
    <2>4. CASE ~(h <= j + 1)
      BY <1>2, <2>4
    <2>. QED BY <2>2, <2>3, <2>4, AgesAre
  <1>3. Ages \subseteq S
    <2>. HIDE DEF S
    <2>. QED BY <1>1, <1>2, AgeInduction
  <1>. QED BY <1>3

\* What is booked now counts at every age.
LEMMA BookedSums ==
  ASSUME NEW ev \in Amounts, NEW c \in Int
  PROVE  /\ [ev EXCEPT ![0] = @ + c] \in Amounts
         /\ \A g \in Ages : Ledger!Since([ev EXCEPT ![0] = @ + c], g) = Ledger!Since(ev, g) + c
  <1>. DEFINE new == [ev EXCEPT ![0] = @ + c]
              S == {g \in Ages : Ledger!Since(new, g) = Ledger!Since(ev, g) + c}
  <1>1. new \in Amounts /\ new[0] = ev[0] + c /\ ev[0] \in Int
    BY AgesAre DEF Amounts
  <1>2. \A g \in Ages : g # 0 => new[g] = ev[g] /\ ev[g] \in Int
    BY AgesAre DEF Amounts
  <1>. HIDE DEF new
  <1>3. 0 \in S
    BY <1>1, SumFirst, AgesAre
  <1>4. ASSUME NEW g \in Ages, g \in S, g + 1 \in Ages PROVE g + 1 \in S
    <2>1. /\ Ledger!Since(ev, g + 1) = ev[g + 1] + Ledger!Since(ev, g) /\ Ledger!Since(ev, g) \in Int
          /\ Ledger!Since(new, g + 1) = new[g + 1] + Ledger!Since(new, g)
      BY <1>1, <1>4, SumNext
    <2>2. g + 1 # 0
      BY AgesAre
    <2>. QED BY <1>2, <1>4, <2>1, <2>2
  <1>5. Ages \subseteq S
    <2>. HIDE DEF S
    <2>. QED BY <1>3, <1>4, AgeInduction
  <1>. QED BY <1>1, <1>5 DEF new

\* What was booked is n older n ticks later.
LEMMA LaterSums ==
  ASSUME NEW ev \in Amounts, NEW n \in Nat
  PROVE  /\ Ledger!Later(ev, n) \in Amounts
         /\ \A g \in Ages : Ledger!Since(Ledger!Later(ev, n), g) =
                              IF g < n THEN 0 ELSE Ledger!Since(ev, g - n)
  <1>. DEFINE new == Ledger!Later(ev, n)
              S == {g \in Ages : Ledger!Since(new, g) = IF g < n THEN 0 ELSE Ledger!Since(ev, g - n)}
  <1>1. new \in Amounts /\ \A g \in Ages : new[g] = IF g >= n THEN ev[g - n] ELSE 0
    BY AgesAre DEF Ledger!Later, Amounts, Ages
  <1>2. \A g \in Ages : new[g] \in Int /\ ev[g] \in Int
    BY <1>1 DEF Amounts
  <1>. HIDE DEF new
  <1>3. 0 \in S
    BY <1>1, <1>2, SumFirst, AgesAre
  <1>4. ASSUME NEW g \in Ages, g \in S, g + 1 \in Ages PROVE g + 1 \in S
    <2>1. Ledger!Since(new, g + 1) = new[g + 1] + Ledger!Since(new, g)
      BY <1>1, <1>4, SumNext
    <2>2. CASE g + 1 < n
      BY <1>1, <1>4, <2>1, <2>2, AgesAre
    <2>3. CASE g + 1 = n
      <3>1. new[g + 1] = ev[0] /\ Ledger!Since(new, g) = 0 /\ Ledger!Since(ev, 0) = ev[0]
        BY <1>1, <1>2, <1>4, <2>3, SumFirst, AgesAre
      <3>. QED BY <1>2, <1>4, <2>1, <2>3, <3>1, AgesAre
    <2>4. CASE g + 1 > n
      <3>1. /\ g - n \in Ages /\ (g + 1) - n \in Ages /\ (g + 1) - n # 0 /\ (g - n) + 1 = (g + 1) - n
            /\ ~(g < n) /\ ~(g + 1 < n)
        BY <1>4, <2>4, AgesAre
      <3>2. Ledger!Since(ev, (g + 1) - n) = ev[(g + 1) - n] + Ledger!Since(ev, g - n)
        BY <3>1, SumNext
      <3>3. new[g + 1] = ev[(g + 1) - n] /\ Ledger!Since(new, g) = Ledger!Since(ev, g - n)
        BY <1>1, <1>4, <2>4, <3>1, AgesAre
      <3>4. Ledger!Since(new, g + 1) = Ledger!Since(ev, (g + 1) - n)
        BY <2>1, <3>2, <3>3
      <3>5. (IF g + 1 < n THEN 0 ELSE Ledger!Since(ev, (g + 1) - n)) = Ledger!Since(ev, (g + 1) - n)
        BY <3>1
      <3>6. Ledger!Since(new, g + 1) =
              (IF g + 1 < n THEN 0 ELSE Ledger!Since(ev, (g + 1) - n))
        BY <3>4, <3>5, Zenon
      <3>. QED BY <1>4, <3>6, Zenon
    <2>. QED BY <2>2, <2>3, <2>4, AgesAre
  <1>5. Ages \subseteq S
    <2>. HIDE DEF S
    <2>. QED BY <1>3, <1>4, AgeInduction
  <1>. QED BY <1>1, <1>5 DEF new

-----------------------------------------------------------------------------
(* The burner: when a parked account comes back *)

\* What Least and Most choose.
LEMMA LeastIs ==
  ASSUME NEW T \in SUBSET Int, NEW m \in T, \A x \in T : m <= x
  PROVE  Ledger!Least(T) = m
  <1>1. Ledger!Least(T) \in T /\ \A y \in T : Ledger!Least(T) <= y
    BY DEF Ledger!Least
  <1>2. Ledger!Least(T) \in Int /\ m \in Int /\ Ledger!Least(T) <= m /\ m <= Ledger!Least(T)
    BY <1>1
  <1>. QED BY <1>2

\* Likewise.
LEMMA MostIs ==
  ASSUME NEW T \in SUBSET Int, NEW m \in T, \A x \in T : m >= x
  PROVE  Ledger!Most(T) = m
  <1>1. Ledger!Most(T) \in T /\ \A y \in T : Ledger!Most(T) >= y
    BY DEF Ledger!Most
  <1>2. Ledger!Most(T) \in Int /\ m \in Int /\ Ledger!Most(T) <= m /\ m <= Ledger!Most(T)
    BY <1>1
  <1>. QED BY <1>2

\* The lesser and the greater of two.
LEMMA OfTwo ==
  ASSUME NEW x \in Int, NEW y \in Int
  PROVE  /\ Ledger!Least({x, y}) = IF x <= y THEN x ELSE y
         /\ Ledger!Most({x, y}) = IF x >= y THEN x ELSE y
  <1>1. CASE x <= y
    <2>1. Ledger!Least({x, y}) = x
      BY <1>1, LeastIs
    <2>2. Ledger!Most({x, y}) = y
      BY <1>1, MostIs
    <2>. QED BY <1>1, <2>1, <2>2
  <1>2. CASE ~(x <= y)
    <2>1. Ledger!Least({x, y}) = y
      BY <1>2, LeastIs
    <2>2. Ledger!Most({x, y}) = x
      BY <1>2, MostIs
    <2>. QED BY <1>2, <2>1, <2>2
  <1>. QED BY <1>1, <1>2

\* What has started anew is younger than the time that passed since.
LEMMA PastRemainder ==
  ASSUME NEW x \in Nat, NEW W \in Nat \ {0}, x >= W
  PROVE  x % W \in Nat /\ x % W <= x - W
  <1>. DEFINE y == x - W
  <1>1. y \in Nat /\ x = W + y /\ 0 + y = y /\ W \in Nat
    OBVIOUS
  <1>. HIDE DEF y
  <1>2. W % W = 0
    BY Remainder, 1 * W + 0 = W, 0 \in 0 .. W - 1
  <1>3. (W + y) % W = ((W % W) + y) % W
    BY <1>1, SumRemainder, Zenon
  <1>4. x % W = y % W
    BY <1>1, <1>2, <1>3, Zenon
  <1>5. y % W \in Nat /\ y % W <= y
    BY <1>1, Remainders
  <1>. QED BY <1>4, <1>5 DEF y

\* A window that starts anew every W ticks, and is x % W old: n ticks from now it has room
\* for what fits into an empty one if it has room now or will have started anew.
LEMMA WindowOpens ==
  ASSUME NEW ev \in Amounts, NEW W \in 1 .. WW, NEW x \in Nat, NEW room \in Nat, NEW n \in 0 .. WW
  PROVE  /\ Ledger!Since(Ledger!Later(ev, n), (x + n) % W) <= room <=>
              n >= (IF Ledger!Since(ev, x % W) > room THEN W - (x % W) ELSE 0)
         /\ (IF Ledger!Since(ev, x % W) > room THEN W - (x % W) ELSE 0) \in 0 .. WW
  <1>1. W \in Nat \ {0} /\ n \in Nat /\ x % W \in 0 .. W - 1 /\ x % W \in Ages
    BY AgesAre, Remainders
  <1>2. (x + n) % W = ((x % W) + n) % W
    BY <1>1, SumRemainder
  <1>3. Ledger!Since(ev, x % W) \in Int
    BY <1>1, SumUnfolds
  <1>4. CASE (x % W) + n < W
    <2>1. (x + n) % W = (x % W) + n
      BY <1>1, <1>2, <1>4
    <2>2. (x % W) + n \in Ages /\ ~((x % W) + n < n) /\ ((x % W) + n) - n = x % W
      BY <1>1, <1>4, AgesAre
    <2>3. Ledger!Since(Ledger!Later(ev, n), (x + n) % W) = Ledger!Since(ev, x % W)
      BY <1>1, <2>1, <2>2, LaterSums
    <2>. QED BY <1>1, <1>3, <1>4, <2>3, AgesAre
  <1>5. CASE (x % W) + n >= W
    <2>1. (x + n) % W \in Nat /\ (x + n) % W <= ((x % W) + n) - W
      BY <1>1, <1>2, <1>5, PastRemainder, (x % W) + n \in Nat
    <2>2. (x + n) % W \in Ages /\ (x + n) % W < n
      BY <1>1, <1>2, <2>1, AgesAre, Remainders, x + n \in Nat
    <2>3. Ledger!Since(Ledger!Later(ev, n), (x + n) % W) = 0
      BY <1>1, <2>2, LaterSums
    <2>. QED BY <1>1, <1>3, <1>5, <2>3, AgesAre
  <1>. QED BY <1>1, <1>4, <1>5

\* The window that slides: it has room for one more request as soon as enough of the oldest
\* bookings have left it.
LEMMA SlidingOpens ==
  ASSUME events \in Amounts, \A g \in Ages : events[g] >= 0, ~anchored,
         args.cap5 \in Int, est \in Nat, est <= args.cap5, NEW n \in 0 .. WW
  PROVE  /\ Ledger!Since(Ledger!Later(events, n), W5 - 1) <= args.cap5 - est
              <=> n >= Ledger!Sliding(est)
         /\ Ledger!Sliding(est) \in 0 .. WW
  <1>. DEFINE Sum(g) == Ledger!Since(events, g)
              B == Sum(W5 - 1)
              room == args.cap5 - est
              release == Ledger!Burned5(events) - (args.cap5 - est)
              gone(g) == Ledger!Burned5(events) - (IF g = 0 THEN 0 ELSE Sum(g - 1))
              ages == {g \in 0 .. W5 - 1 : events[g] # 0 /\ gone(g) >= release}
  <1>1. /\ W5 - 1 \in Ages /\ \A g \in 0 .. W5 - 1 : g \in Ages /\ (g # 0 => g - 1 \in Ages)
        /\ W5 \in Nat \ {0} /\ W5 <= WW /\ n \in Nat
    BY BudgetAssumption, AgesAre
  <1>2. \A g \in Ages : Sum(g) \in Int /\ Sum(g) >= 0
    <2>1. \A g \in Ages : g \in 0 .. g
      BY AgesAre
    <2>. QED BY <2>1, SumUnfolds, SumsGrow
  <1>a. Ledger!Burned5(events) = B
    BY Zenon DEF Ledger!Burned5, Ledger!Oldest5
  <1>b. B \in Int
    BY <1>1, <1>2
  <1>3. Ledger!Burned5(events) = B /\ B \in Int
    BY <1>a, <1>b
  <1>4. room \in Nat /\ release = B - room
    BY <1>3
  <1>5. Ledger!Sliding(est) =
          IF release <= 0 THEN 0 ELSE IF ages = {} THEN Day ELSE W5 - Ledger!Most(ages)
    BY DEF Ledger!Sliding
  <1>6. Ledger!Since(Ledger!Later(events, n), W5 - 1) = IF W5 - 1 < n THEN 0 ELSE Sum((W5 - 1) - n)
    BY <1>1, LaterSums
  <1>. HIDE DEF room, release
  <1>7. CASE B <= room
    <2>1. Ledger!Sliding(est) = 0
      BY <1>3, <1>4, <1>5, <1>7
    <2>2. CASE W5 - 1 < n
      BY <1>1, <1>4, <1>6, <2>1, <2>2, AgesAre DEF room
    <2>3. CASE ~(W5 - 1 < n)
      <3>1. (W5 - 1) - n \in 0 .. W5 - 1
        BY <1>1, <2>3
      <3>2. Sum((W5 - 1) - n) <= B /\ Sum((W5 - 1) - n) \in Int
        BY <1>1, <1>2, <3>1, SumsGrow
      <3>. QED BY <1>1, <1>3, <1>4, <1>6, <1>7, <2>1, <2>3, <3>2, AgesAre DEF room
    <2>. QED BY <2>2, <2>3
  <1>8. CASE B > room
    <2>1. ASSUME NEW h \in -1 .. W5 - 1, h >= 0 => Sum(h) <= room
          PROVE  \E j \in ages : j > h
      <3>. DEFINE T == {i \in h + 1 .. W5 - 1 : events[i] # 0}
      <3>1. T # {}
        <4>. SUFFICES ASSUME T = {} PROVE FALSE
          OBVIOUS
        <4>1. CASE h >= 0
          <5>1. h \in Ages /\ h <= W5 - 1
            BY <1>1, <4>1
          <5>2. B = Sum(h)
            BY <1>1, <5>1, FlatSums
          <5>. QED BY <1>2, <1>3, <1>4, <1>8, <2>1, <4>1, <5>1, <5>2
        <4>2. CASE h = -1
          <5>1. events[0] = 0 /\ \A i \in 0 + 1 .. W5 - 1 : events[i] = 0
            BY <1>1, <4>2
          <5>2. B = Sum(0)
            BY <1>1, <5>1, FlatSums, AgesAre
          <5>3. B = 0
            BY <5>1, <5>2, SumFirst
          <5>. QED BY <1>4, <1>8, <5>3
        <4>. QED BY <4>1, <4>2
      <3>2. T \in SUBSET Nat
        OBVIOUS
      <3>3. PICK j \in T : \A i \in T : j <= i
        BY <3>1, <3>2, LeastNumber
      <3>4. j \in 0 .. W5 - 1 /\ j > h /\ events[j] # 0
        BY <1>1, <3>3
      <3>5. \A i \in h + 1 .. j - 1 : events[i] = 0
        BY <1>1, <3>3, <3>4
      <3>6. CASE j = 0
        <4>1. gone(j) = B
          BY <1>3, <3>6
        <4>. QED BY <1>3, <1>4, <3>4, <4>1
      <3>7. CASE j # 0
        <4>1. j - 1 \in Ages
          BY <1>1, <3>4, <3>7
        <4>2. Sum(j - 1) <= room
          <5>1. CASE h >= 0
            <6>1. h \in Ages /\ h <= j - 1
              BY <1>1, <3>4, <5>1
            <6>2. Sum(j - 1) = Sum(h)
              BY <3>5, <4>1, <6>1, FlatSums
            <6>. QED BY <2>1, <5>1, <6>2
          <5>2. CASE h = -1
            <6>1. events[0] = 0 /\ 0 <= j - 1 /\ \A i \in 0 + 1 .. j - 1 : events[i] = 0
              BY <3>4, <3>5, <3>7, <5>2
            <6>2. Sum(j - 1) = Sum(0)
              BY <4>1, <6>1, FlatSums, AgesAre
            <6>. QED BY <1>4, <6>1, <6>2, SumFirst
          <5>. QED BY <5>1, <5>2
        <4>3. gone(j) = B - Sum(j - 1)
          BY <1>3, <3>7
        <4>4. gone(j) >= release
          BY <1>2, <1>3, <1>4, <4>1, <4>2, <4>3
        <4>. QED BY <3>4, <4>4
      <3>. QED BY <3>6, <3>7
    <2>2. \A g \in ages : g \in 0 .. W5 - 1
      OBVIOUS
    <2>. HIDE DEF ages
    <2>3. ages # {}
      <3>1. -1 \in -1 .. W5 - 1 /\ ~(-1 >= 0)
        BY <1>1
      <3>. QED BY <2>1, <3>1
    <2>4. PICK m \in ages : \A g \in ages : m >= g
      <3>. DEFINE T == {W5 - g : g \in ages}
      <3>1. T \in SUBSET Nat /\ T # {}
        BY <1>1, <2>2, <2>3
      <3>2. PICK t \in T : \A u \in T : t <= u
        BY <3>1, LeastNumber
      <3>3. PICK m \in ages : t = W5 - m
        BY <3>2
      <3>4. \A g \in ages : W5 - m <= W5 - g
        BY <3>2, <3>3
      <3>. QED BY <1>1, <2>2, <3>3, <3>4
    <2>5. Ledger!Most(ages) = m /\ m \in 0 .. W5 - 1
      BY <2>2, <2>4, MostIs
    <2>6. Ledger!Sliding(est) = W5 - m /\ W5 - m \in 1 .. WW
      <3>1. ~(release <= 0)
        BY <1>3, <1>4, <1>8
      <3>2. Ledger!Sliding(est) = W5 - m
        BY <1>5, <2>3, <2>5, <3>1, Zenon
      <3>. QED BY <1>1, <2>5, <3>2, AgesAre
    <2>7. m # 0 => Sum(m - 1) <= room
      <3>1. gone(m) >= release
        BY DEF ages
      <3>2. m # 0 => gone(m) = B - Sum(m - 1) /\ m - 1 \in Ages
        BY <1>1, <1>3, <2>5
      <3>. QED BY <1>2, <1>3, <1>4, <3>1, <3>2
    <2>8. CASE n >= W5 - m
      <3>1. CASE W5 - 1 < n
        BY <1>4, <1>6, <2>6, <2>8, <3>1 DEF room
      <3>2. CASE ~(W5 - 1 < n)
        <4>1. m # 0 /\ m - 1 \in Ages /\ (W5 - 1) - n \in 0 .. m - 1
          BY <1>1, <2>5, <2>8, <3>2
        <4>2. Sum((W5 - 1) - n) <= Sum(m - 1) /\ Sum((W5 - 1) - n) \in Int /\ Sum(m - 1) \in Int
          <5>1. \A g \in Ages : \A h \in 0 .. g : Sum(h) <= Sum(g)
            BY <1>2, SumsGrow
          <5>2. Sum((W5 - 1) - n) <= Sum(m - 1)
            BY <4>1, <5>1
          <5>3. (W5 - 1) - n \in Ages
            BY <4>1, AgesAre
          <5>. QED BY <1>2, <4>1, <5>2, <5>3, SumUnfolds
        <4>3. Sum((W5 - 1) - n) <= room
          BY <1>4, <2>7, <4>1, <4>2
        <4>. QED BY <1>6, <2>6, <2>8, <3>2, <4>3 DEF room
      <3>. QED BY <3>1, <3>2
    <2>9. CASE ~(n >= W5 - m)
      <3>1. (W5 - 1) - n \in -1 .. W5 - 1 /\ (W5 - 1) - n >= m /\ ~(W5 - 1 < n)
        BY <1>1, <2>5, <2>9
      <3>2. ~(Sum((W5 - 1) - n) <= room)
        BY <2>1, <2>2, <2>4, <3>1
      <3>. QED BY <1>6, <2>6, <2>9, <3>1, <3>2 DEF room
    <2>. QED BY <2>8, <2>9
  <1>. QED BY <1>3, <1>4, <1>7, <1>8

\* Resume is the first tick in which there is room in both windows (ResumesInTime).
LEMMA ResumesWhenThereIsRoom ==
  ASSUME events \in Amounts, \A g \in Ages : events[g] >= 0, clock \in Nat, anchored \in BOOLEAN,
         args.cap5 \in Int, args.capw \in Int, est \in Nat, est <= args.cap5, est <= args.capw
  PROVE  Ledger!Resume(est) = Ledger!Least({n \in 0 .. WW : Ledger!RoomIn(n)})
  <1>. DEFINE r5 == IF ~anchored THEN Ledger!Sliding(est)
                    ELSE IF Ledger!Burned5(events) > args.cap5 - est THEN W5 - Ledger!Oldest5 ELSE 0
              rw == IF Ledger!BurnedW(events) > args.capw - est THEN WW - Ledger!OldestW ELSE 0
              later(n) == Ledger!Later(events, n)
              Room5(n) == Ledger!Since(later(n), IF anchored THEN (clock + n) % W5 ELSE W5 - 1)
                            <= args.cap5 - est
              RoomW(n) == Ledger!Since(later(n), (clock + n) % WW) <= args.capw - est
  <1>1. Ledger!Resume(est) = Ledger!Most({r5, rw})
    <2>1. ~(args.cap5 < est) /\ ~(args.capw < est)
      OBVIOUS
    <2>. QED BY <2>1, Zenon DEF Ledger!Resume
  <1>2. \A n \in 0 .. WW : Ledger!RoomIn(n) <=> Room5(n) /\ RoomW(n)
    BY Zenon DEF Ledger!RoomIn
  <1>3. ASSUME NEW n \in 0 .. WW
        PROVE  (RoomW(n) <=> n >= rw) /\ rw \in 0 .. WW
    <2>1. WW \in 1 .. WW /\ args.capw - est \in Nat
      BY AgesAre
    <2>. QED BY <2>1, WindowOpens, Zenon DEF Ledger!BurnedW, Ledger!OldestW
  <1>4. ASSUME NEW n \in 0 .. WW
        PROVE  (Room5(n) <=> n >= r5) /\ r5 \in 0 .. WW
    <2>1. CASE anchored
      <3>1. W5 \in 1 .. WW /\ args.cap5 - est \in Nat
        BY AgesAre, BudgetAssumption
      <3>2. r5 = IF Ledger!Since(events, clock % W5) > args.cap5 - est THEN W5 - (clock % W5) ELSE 0
        BY <2>1, Zenon DEF Ledger!Burned5, Ledger!Oldest5
      <3>3. Room5(n) <=> Ledger!Since(later(n), (clock + n) % W5) <= args.cap5 - est
        BY <2>1, Zenon
      <3>4. /\ Ledger!Since(later(n), (clock + n) % W5) <= args.cap5 - est <=>
                  n >= (IF Ledger!Since(events, clock % W5) > args.cap5 - est
                        THEN W5 - (clock % W5) ELSE 0)
            /\ (IF Ledger!Since(events, clock % W5) > args.cap5 - est THEN W5 - (clock % W5) ELSE 0)
                  \in 0 .. WW
        BY <3>1, WindowOpens, Zenon
      <3>. QED BY <3>2, <3>3, <3>4, Zenon
    <2>2. CASE ~anchored
      BY <2>2, SlidingOpens, Zenon
    <2>. QED BY <2>1, <2>2
  <1>. HIDE DEF r5, rw, Room5, RoomW
  <1>5. r5 \in 0 .. WW /\ rw \in 0 .. WW /\ WW \in Nat
    <2>1. 0 \in 0 .. WW /\ WW \in Nat
      BY AgesAre
    <2>2. r5 \in 0 .. WW
      BY <1>4, <2>1
    <2>3. rw \in 0 .. WW
      BY <1>3, <2>1
    <2>. QED BY <2>1, <2>2, <2>3
  <1>6. Ledger!Most({r5, rw}) = IF r5 >= rw THEN r5 ELSE rw
    <2>1. r5 \in Int /\ rw \in Int
      BY <1>5
    <2>. QED BY <2>1, OfTwo, Zenon
  <1>. DEFINE m == IF r5 >= rw THEN r5 ELSE rw
              T == {n \in 0 .. WW : Ledger!RoomIn(n)}
  <1>7. m \in T /\ T \in SUBSET Int /\ \A n \in T : m <= n
    BY <1>2, <1>3, <1>4, <1>5
  <1>8. Ledger!Least(T) = m
    <2>. HIDE DEF m, T
    <2>. QED BY <1>7, LeastIs
  <1>. QED BY <1>1, <1>6, <1>8

-----------------------------------------------------------------------------
(* The burner's budget: the inductive invariant *)

\* Types; requests in flight belong to a process; one whose settings were not changed under it
\* estimates a request at its dearest, and has no bookings below zero, so that they only leave
\* the windows; and NeverOversubscribed.
BudgetInv ==
    /\ clock \in Nat /\ anchored \in BOOLEAN /\ up \in BOOLEAN /\ disturbed \in BOOLEAN
    /\ events \in Amounts /\ busy \in Nat /\ est \in Nat
    /\ file = [events |-> file.events, total |-> file.total] /\ file.events \in Amounts
    /\ args \in Configs /\ yaml \in Configs
    /\ busy > 0 => up
    /\ up /\ ~disturbed => est = args.cost /\ \A g \in Ages : events[g] >= 0
    /\ Ledger!NeverOversubscribed

\* It implies both properties.
LEMMA BudgetSuffices == BudgetInv => BudgetIsKept
  <1>. SUFFICES ASSUME BudgetInv PROVE Ledger!NeverOversubscribed /\ Ledger!ResumesInTime
    BY DEF BudgetIsKept
  <1>1. args.cap5 \in Int /\ args.capw \in Int
    BY BudgetAssumption DEF BudgetInv
  <1>2. Ledger!ResumesInTime
    BY <1>1, ResumesWhenThereIsRoom DEF BudgetInv, Ledger!ResumesInTime, Ages
  <1>. QED BY <1>2 DEF BudgetInv

\* It holds at first.
LEMMA BudgetInitial == Ledger!Init => BudgetInv
  <1>. SUFFICES ASSUME Ledger!Init PROVE BudgetInv
    OBVIOUS
  <1>1. events \in Amounts /\ \A g \in Ages : events[g] >= 0
    BY DEF Ledger!Init, Amounts, Ages
  <1>2. file = [events |-> events, total |-> 0]
    BY DEF Ledger!Init
  <1>3. file = [events |-> file.events, total |-> file.total] /\ file.events \in Amounts
    BY <1>1, <1>2
  <1>4. busy = 0 /\ up = FALSE /\ est = 0 /\ disturbed = FALSE /\ clock = 0
        /\ anchored \in BOOLEAN /\ yaml \in Configs /\ args = yaml
    BY DEF Ledger!Init
  <1>5. ~(busy > 0) /\ 0 \in Nat
    BY <1>4
  <1>6. Ledger!NeverOversubscribed
    BY <1>5 DEF Ledger!NeverOversubscribed
  <1>. QED BY <1>1, <1>3, <1>4, <1>5, <1>6, Zenon DEF BudgetInv

\* The oldest bookings that count are no older than their windows.
LEMMA WindowsAre ==
  ASSUME clock \in Nat
  PROVE  Ledger!Oldest5 \in 0 .. W5 - 1 /\ Ledger!OldestW \in 0 .. WW - 1
         /\ Ledger!Oldest5 \in Ages /\ Ledger!OldestW \in Ages
  <1>1. W5 \in Nat \ {0} /\ WW \in Nat \ {0} /\ W5 <= WW
    BY BudgetAssumption, AgesAre
  <1>2. clock % W5 \in 0 .. W5 - 1 /\ clock % WW \in 0 .. WW - 1
    BY <1>1, Remainders
  <1>. QED BY <1>1, <1>2, AgesAre DEF Ledger!Oldest5, Ledger!OldestW

-----------------------------------------------------------------------------
(* The burner: its steps *)

\* The numbers NeverOversubscribed compares.
LEMMA LedgerTypes ==
  ASSUME BudgetInv
  PROVE  /\ Ledger!Burned5(events) \in Int /\ Ledger!BurnedW(events) \in Int
         /\ args.cap5 \in Int /\ args.capw \in Int /\ args.cost \in Nat /\ yaml.cost \in Nat
         /\ busy * est \in Nat /\ est \in Nat /\ busy \in Nat
  <1>1. Ledger!Burned5(events) \in Int /\ Ledger!BurnedW(events) \in Int
    BY WindowsAre, SumUnfolds DEF BudgetInv, Ledger!Burned5, Ledger!BurnedW
  <1>2. args.cap5 \in Int /\ args.capw \in Int /\ args.cost \in Nat /\ yaml.cost \in Nat
    BY BudgetAssumption DEF BudgetInv
  <1>. QED BY <1>1, <1>2 DEF BudgetInv

\* A request goes out when the windows have room for one more.
LEMMA BudgetLook == ASSUME BudgetInv, Ledger!Look PROVE BudgetInv'
  <1>. USE DEF Ledger!Look
  <1>1. UNCHANGED <<clock, anchored, events, total, up, est, args, yaml, file, ledgerUpsets,
                    disturbed>>
    OBVIOUS
  <1>2. busy' = busy \/ /\ busy' = busy + 1
                        /\ Ledger!Unlimited \/ Ledger!Available(events) >= est
    OBVIOUS
  <1>3. busy' \in Nat /\ up
    BY <1>2 DEF BudgetInv
  <1>4. Ledger!NeverOversubscribed'
    <2>1. /\ Ledger!Unlimited' <=> Ledger!Unlimited
          /\ Ledger!Burned5(events)' = Ledger!Burned5(events)
          /\ Ledger!BurnedW(events)' = Ledger!BurnedW(events)
      BY <1>1 DEF Ledger!Unlimited, Ledger!Burned5, Ledger!BurnedW, Ledger!Oldest5, Ledger!OldestW
    <2>2. CASE busy' = busy
      BY <1>1, <2>1, <2>2 DEF BudgetInv, Ledger!NeverOversubscribed
    <2>3. CASE busy' = busy + 1 /\ Ledger!Unlimited
      BY <2>1, <2>3 DEF Ledger!NeverOversubscribed
    <2>4. CASE busy' = busy + 1 /\ Ledger!Available(events) >= est
      <3>. DEFINE a == args.cap5 - Ledger!Burned5(events)
                  b == args.capw - Ledger!BurnedW(events)
      <3>1. a \in Int /\ b \in Int
        BY LedgerTypes
      <3>2. Ledger!Least({a, b}) \in Int /\ Ledger!Least({a, b}) <= a /\ Ledger!Least({a, b}) <= b
        <4>. HIDE DEF a, b
        <4>. QED BY <3>1, OfTwo
      <3>3. Ledger!Least({a, b}) - busy * est >= est
        BY <2>4, Zenon DEF Ledger!Available
      <3>4. (busy + 1) * est = busy * est + est
        BY LedgerTypes
      <3>5. /\ Ledger!Burned5(events) + (busy + 1) * est <= args.cap5
            /\ Ledger!BurnedW(events) + (busy + 1) * est <= args.capw
        <4>. DEFINE bu == busy * est
                    l == Ledger!Least({a, b})
        <4>1. /\ bu \in Nat /\ l \in Int /\ l <= a /\ l <= b /\ l - bu >= est
              /\ (busy + 1) * est = bu + est
          BY <3>2, <3>3, <3>4, LedgerTypes
        <4>. HIDE DEF bu, l
        <4>. QED BY <4>1, LedgerTypes
      <3>. QED BY <1>1, <2>1, <2>4, <3>5 DEF Ledger!NeverOversubscribed
    <2>. QED BY <1>2, <2>2, <2>3, <2>4
  <1>. QED BY <1>1, <1>3, <1>4 DEF BudgetInv

\* One request less is in flight, and at most as much is booked as was reserved for it.
LEMMA LessReserved ==
  ASSUME NEW n \in Nat, NEW e \in Nat, n > 0
  PROVE  (n - 1) * e \in Nat /\ (n - 1) * e + e = n * e
  OBVIOUS

\* A request that fails gives back what was reserved for it.
LEMMA BudgetFail == ASSUME BudgetInv, Ledger!Fail PROVE BudgetInv'
  <1>. USE DEF Ledger!Fail
  <1>1. /\ UNCHANGED <<clock, anchored, events, up, est, args, yaml, file, disturbed>>
        /\ busy' = busy - 1 /\ busy > 0 /\ up
    OBVIOUS
  <1>2. busy' \in Nat
    BY <1>1 DEF BudgetInv
  <1>3. Ledger!NeverOversubscribed'
    <2>1. /\ Ledger!Unlimited' <=> Ledger!Unlimited
          /\ Ledger!Burned5(events)' = Ledger!Burned5(events)
          /\ Ledger!BurnedW(events)' = Ledger!BurnedW(events)
      BY <1>1 DEF Ledger!Unlimited, Ledger!Burned5, Ledger!BurnedW, Ledger!Oldest5, Ledger!OldestW
    <2>2. (busy - 1) * est \in Nat /\ (busy - 1) * est <= busy * est
      BY <1>1, LedgerTypes, LessReserved
    <2>3. ~disturbed /\ ~Ledger!Unlimited =>
              /\ Ledger!Burned5(events) + (busy - 1) * est <= args.cap5
              /\ Ledger!BurnedW(events) + (busy - 1) * est <= args.capw
      BY <1>1, <2>2, LedgerTypes DEF BudgetInv, Ledger!NeverOversubscribed
    <2>. QED BY <1>1, <2>1, <2>3 DEF Ledger!NeverOversubscribed
  <1>. QED BY <1>1, <1>2, <1>3 DEF BudgetInv

\* One that succeeds books at most what was reserved: the estimate is the dearest cost as long
\* as the settings are those the process began with.
LEMMA BudgetSucceed == ASSUME BudgetInv, Ledger!Succeed PROVE BudgetInv'
  <1>. USE DEF Ledger!Succeed
  <1>1. /\ UNCHANGED <<clock, anchored, up, est, args, yaml, file, disturbed>>
        /\ busy' = busy - 1 /\ busy > 0 /\ up
    OBVIOUS
  <1>2. PICK c \in 1 .. args.cost : events' = [events EXCEPT ![0] = @ + c]
    OBVIOUS
  <1>3. busy' \in Nat /\ c \in Nat /\ c <= args.cost
    BY <1>1, LedgerTypes DEF BudgetInv
  <1>4. events \in Amounts /\ clock \in Nat
    BY DEF BudgetInv
  <1>5. /\ events' \in Amounts
        /\ \A g \in Ages : Ledger!Since(events', g) = Ledger!Since(events, g) + c
    <2>1. c \in Int
      BY <1>3
    <2>. QED BY <1>2, <1>4, <2>1, BookedSums, Zenon
  <1>6. (\A g \in Ages : events[g] >= 0) => \A g \in Ages : events'[g] >= 0
    <2>1. \A g \in Ages : events[g] \in Int /\ events'[g] = IF g = 0 THEN events[0] + c ELSE events[g]
      BY <1>2, <1>4 DEF Amounts
    <2>2. SUFFICES ASSUME \A g \in Ages : events[g] >= 0, NEW g \in Ages PROVE events'[g] >= 0
      OBVIOUS
    <2>3. events[0] \in Int /\ events[0] >= 0 /\ events[g] >= 0
      BY <2>1, <2>2, AgesAre
    <2>. QED BY <1>3, <2>1, <2>3
  <1>7. Ledger!NeverOversubscribed'
    <2>1. /\ Ledger!Unlimited' <=> Ledger!Unlimited
          /\ Ledger!Burned5(events)' = Ledger!Burned5(events) + c
          /\ Ledger!BurnedW(events)' = Ledger!BurnedW(events) + c
      <3>1. Ledger!Unlimited' <=> Ledger!Unlimited
        BY <1>1 DEF Ledger!Unlimited
      <3>2. Ledger!Oldest5' = Ledger!Oldest5 /\ Ledger!OldestW' = Ledger!OldestW
        BY <1>1 DEF Ledger!Oldest5, Ledger!OldestW
      <3>3. Ledger!Oldest5 \in Ages /\ Ledger!OldestW \in Ages
        BY <1>4, WindowsAre
      <3>. QED BY <1>5, <3>1, <3>2, <3>3, Zenon DEF Ledger!Burned5, Ledger!BurnedW
    <2>2. (busy - 1) * est \in Nat /\ (busy - 1) * est + est = busy * est
      BY <1>1, LedgerTypes, LessReserved
    <2>3. ~disturbed /\ ~Ledger!Unlimited =>
              /\ Ledger!Burned5(events) + c + (busy - 1) * est <= args.cap5
              /\ Ledger!BurnedW(events) + c + (busy - 1) * est <= args.capw
      BY <1>1, <1>3, <2>2, LedgerTypes DEF BudgetInv, Ledger!NeverOversubscribed
    <2>. QED BY <1>1, <2>1, <2>3 DEF Ledger!NeverOversubscribed
  <1>. QED BY <1>1, <1>3, <1>5, <1>6, <1>7 DEF BudgetInv

\* The position in a window, kept modulo a multiple of its length.
LEMMA NestedRemainder ==
  ASSUME NEW x \in Nat, NEW V \in Nat \ {0}, NEW W \in Nat \ {0}
  PROVE  (x % (V * W)) % V = x % V /\ (x % (V * W)) % W = x % W
  <1>. DEFINE r == x % (V * W)
  <1>1. V * W \in Nat \ {0}
    OBVIOUS
  <1>2. r \in Nat
    BY <1>1, Remainders
  <1>3. PICK q \in Int : x = q * (V * W) + r
    BY <1>1, Divides
  <1>. HIDE DEF r
  <1>4. ASSUME NEW A \in Nat \ {0}, NEW B \in Nat \ {0}, V * W = A * B
        PROVE  r % A = x % A
    <2>1. PICK p \in Int : r = p * A + (r % A)
      BY <1>2, Divides
    <2>2. r % A \in 0 .. A - 1
      BY <1>2, Remainders
    <2>3. ASSUME NEW s \in Int, r = p * A + s PROVE x = (q * B + p) * A + s
      <3>1. q * (A * B) = (q * B) * A
        OBVIOUS
      <3>2. (q * B + p) * A = (q * B) * A + p * A
        OBVIOUS
      <3>. QED BY <1>3, <1>4, <2>3, <3>1, <3>2
    <2>4. x = (q * B + p) * A + (r % A)
      BY <2>1, <2>2, <2>3
    <2>5. ((q * B + p) * A + (r % A)) % A = r % A
      BY <2>2, Remainder, q * B + p \in Int
    <2>. QED BY <2>4, <2>5, Zenon
  <1>5. V * W = W * V
    OBVIOUS
  <1>. QED BY <1>4, <1>5 DEF r

\* A tick: what is a tick older, in a window that is a tick older or starts anew.
LEMMA TickedSums ==
  ASSUME NEW ev \in Amounts, \A g \in Ages : ev[g] >= 0, NEW x \in Ages, NEW y \in Ages,
         y = 0 \/ y = x + 1 \/ y = x
  PROVE  /\ Ledger!Since(Ledger!Older(ev), y) <= Ledger!Since(ev, x)
         /\ Ledger!Since(Ledger!Older(ev), y) \in Int
  <1>1. Ledger!Older(ev) = Ledger!Later(ev, 1)
    BY AgesAre DEF Ledger!Older, Ledger!Later, Ages
  <1>2. Ledger!Since(Ledger!Older(ev), y) = IF y < 1 THEN 0 ELSE Ledger!Since(ev, y - 1)
    BY <1>1, LaterSums
  <1>3. /\ \A h \in 0 .. x : Ledger!Since(ev, h) <= Ledger!Since(ev, x) /\ Ledger!Since(ev, h) >= 0
        /\ \A h \in Ages : Ledger!Since(ev, h) \in Int
    BY SumsGrow, SumUnfolds
  <1>4. x \in Nat /\ y \in Nat /\ x \in 0 .. x
    BY AgesAre
  <1>5. CASE y < 1
    BY <1>2, <1>3, <1>4, <1>5
  <1>6. CASE ~(y < 1)
    <2>1. y - 1 \in 0 .. x /\ y - 1 \in Ages
      BY <1>4, <1>6, AgesAre
    <2>. QED BY <1>2, <1>3, <1>6, <2>1
  <1>. QED BY <1>5, <1>6

\* What is older is as much.
LEMMA OlderAmounts ==
  ASSUME NEW ev \in Amounts
  PROVE  /\ Ledger!Older(ev) \in Amounts
         /\ (\A g \in Ages : ev[g] >= 0) => \A g \in Ages : Ledger!Older(ev)[g] >= 0
  <1>1. \A g \in Ages : Ledger!Older(ev)[g] = IF g = 0 THEN 0 ELSE ev[g - 1]
    BY DEF Ledger!Older, Ages
  <1>2. \A g \in Ages : g # 0 => g - 1 \in Ages
    BY AgesAre
  <1>3. Ledger!Older(ev) = [g \in Ages |-> Ledger!Older(ev)[g]]
    BY DEF Ledger!Older, Ages
  <1>4. \A g \in Ages : Ledger!Older(ev)[g] \in Int
    BY <1>1, <1>2 DEF Amounts
  <1>5. Ledger!Older(ev) \in Amounts
    BY <1>3, <1>4 DEF Amounts
  <1>. QED BY <1>1, <1>2, <1>5

\* Bookings only leave the windows as time passes.
LEMMA BudgetTick == ASSUME BudgetInv, Ledger!Tick PROVE BudgetInv'
  <1>. USE DEF Ledger!Tick
  <1>1. /\ UNCHANGED <<anchored, busy, up, est, args, yaml, disturbed>>
        /\ events' = Ledger!Older(events) /\ file' = [file EXCEPT !.events = Ledger!Older(@)]
        /\ clock' = (clock + 1) % (IF anchored THEN W5 * WW ELSE WW)
    OBVIOUS
  <1>2. events \in Amounts /\ clock \in Nat /\ file.events \in Amounts
        /\ file = [events |-> file.events, total |-> file.total]
    BY DEF BudgetInv
  <1>3. events' \in Amounts /\ ((\A g \in Ages : events[g] >= 0) => \A g \in Ages : events'[g] >= 0)
    BY <1>1, <1>2, OlderAmounts
  <1>4. file' = [events |-> file'.events, total |-> file'.total] /\ file'.events \in Amounts
    <2>1. file' = [events |-> Ledger!Older(file.events), total |-> file.total]
      BY <1>1, <1>2
    <2>2. Ledger!Older(file.events) \in Amounts
      BY <1>2, OlderAmounts
    <2>. QED BY <2>1, <2>2
  <1>5. W5 \in Nat \ {0} /\ WW \in Nat \ {0} /\ W5 * WW \in Nat \ {0}
    BY BudgetAssumption, AgesAre
  <1>6. clock' \in Nat
    BY <1>1, <1>2, <1>5, Remainders
  <1>7. anchored => clock' % W5 = (clock + 1) % W5
    <2>. SUFFICES ASSUME anchored PROVE clock' % W5 = (clock + 1) % W5
      OBVIOUS
    <2>1. clock' = (clock + 1) % (W5 * WW) /\ clock + 1 \in Nat
      BY <1>1, <1>2
    <2>2. ((clock + 1) % (W5 * WW)) % W5 = (clock + 1) % W5
      BY <1>5, <2>1, NestedRemainder
    <2>. QED BY <2>1, <2>2, Zenon
  <1>8. clock' % WW = (clock + 1) % WW
    <2>1. CASE anchored
      <3>1. clock' = (clock + 1) % (W5 * WW) /\ clock + 1 \in Nat
        BY <1>1, <1>2, <2>1
      <3>2. ((clock + 1) % (W5 * WW)) % WW = (clock + 1) % WW
        BY <1>5, <3>1, NestedRemainder
      <3>. QED BY <3>1, <3>2, Zenon
    <2>2. CASE ~anchored
      <3>1. (clock + 1) % WW \in 0 .. WW - 1
        BY <1>2, <1>5, Remainders
      <3>. QED BY <1>1, <1>5, <2>2, <3>1
    <2>. QED BY <2>1, <2>2
  <1>9. /\ Ledger!Oldest5 \in Ages /\ Ledger!Oldest5' \in Ages
        /\ Ledger!OldestW \in Ages /\ Ledger!OldestW' \in Ages
    <2>1. Ledger!Oldest5 \in Ages /\ Ledger!OldestW \in Ages
      BY <1>2, WindowsAre
    <2>2. clock' % W5 \in Ages /\ clock' % WW \in Ages /\ W5 - 1 \in Ages
      <3>1. clock' % W5 \in 0 .. W5 - 1 /\ clock' % WW \in 0 .. WW - 1
        BY <1>5, <1>6, Remainders
      <3>. QED BY <1>5, <3>1, BudgetAssumption, AgesAre
    <2>. QED BY <2>1, <2>2 DEF Ledger!Oldest5, Ledger!OldestW
  <1>10. \/ Ledger!Oldest5' = 0 \/ Ledger!Oldest5' = Ledger!Oldest5 + 1
         \/ Ledger!Oldest5' = Ledger!Oldest5
    BY <1>1, <1>2, <1>5, <1>7, NextRemainder DEF Ledger!Oldest5
  <1>11. \/ Ledger!OldestW' = 0 \/ Ledger!OldestW' = Ledger!OldestW + 1
         \/ Ledger!OldestW' = Ledger!OldestW
    BY <1>1, <1>2, <1>5, <1>8, NextRemainder DEF Ledger!OldestW
  <1>12. (\A g \in Ages : events[g] >= 0) =>
            /\ Ledger!Burned5(events)' <= Ledger!Burned5(events) /\ Ledger!Burned5(events)' \in Int
            /\ Ledger!BurnedW(events)' <= Ledger!BurnedW(events) /\ Ledger!BurnedW(events)' \in Int
    BY <1>1, <1>2, <1>9, <1>10, <1>11, TickedSums DEF Ledger!Burned5, Ledger!BurnedW
  <1>13. Ledger!NeverOversubscribed'
    <2>1. Ledger!Unlimited' <=> Ledger!Unlimited
      BY <1>1 DEF Ledger!Unlimited
    <2>. QED BY <1>1, <1>12, <2>1, LedgerTypes DEF BudgetInv, Ledger!NeverOversubscribed
  <1>. QED BY <1>1, <1>3, <1>4, <1>6, <1>13 DEF BudgetInv

\* The process loads its ledger, or ends; in between nothing is in flight.
LEMMA BudgetAtRest ==
  ASSUME BudgetInv, clock' = clock, anchored' = anchored,
         up' \in BOOLEAN, disturbed' \in BOOLEAN, events' \in Amounts, busy' = 0, est' \in Nat,
         file' = [events |-> file'.events, total |-> file'.total], file'.events \in Amounts,
         args' \in Configs, yaml' \in Configs,
         up' /\ ~disturbed' => est' = args'.cost /\ \A g \in Ages : events'[g] >= 0
  PROVE  BudgetInv'
  <1>1. ~(busy' > 0) /\ busy' \in Nat
    OBVIOUS
  <1>2. Ledger!NeverOversubscribed'
    BY <1>1 DEF Ledger!NeverOversubscribed
  <1>. QED BY <1>1, <1>2, Zenon DEF BudgetInv

\* An empty ledger.
LEMMA NothingBooked == [g \in Ages |-> 0] \in Amounts
  BY DEF Amounts

\* A process that starts has nothing in flight; bookings below zero disturb it.
LEMMA BudgetStart == ASSUME BudgetInv, Ledger!Start PROVE BudgetInv'
  <1>. USE DEF Ledger!Start
  <1>1. busy' = 0
    BY DEF BudgetInv
  <1>2. clock' = clock /\ anchored' = anchored /\ up' = TRUE /\ yaml' = yaml /\ file' = file
        /\ events' = file.events /\ args' = yaml /\ est' = yaml.cost
        /\ disturbed' = (\E g \in Ages : file.events[g] < 0)
    BY DEF Ages
  <1>3. \A g \in Ages : events'[g] \in Int
    <2>1. events' \in Amounts
      BY <1>2 DEF BudgetInv
    <2>. QED BY <2>1 DEF Amounts
  <1>4. ~disturbed' => est' = args'.cost /\ \A g \in Ages : events'[g] >= 0
    <2>1. ~disturbed' => \A g \in Ages : ~(events'[g] < 0)
      BY <1>2, Zenon
    <2>. QED BY <1>2, <1>3, <2>1
  <1>5. est' \in Nat
    BY <1>2, LedgerTypes
  <1>6. disturbed' \in BOOLEAN
    BY <1>2
  <1>. QED BY <1>1, <1>2, <1>4, <1>5, <1>6, BudgetAtRest DEF BudgetInv

\* A process that ends takes its requests with it.
LEMMA BudgetOver ==
  ASSUME BudgetInv, Ledger!Over, clock' = clock, anchored' = anchored, yaml' = yaml,
         file' = [events |-> file'.events, total |-> file'.total], file'.events \in Amounts
  PROVE  BudgetInv'
  <1>1. /\ up' = FALSE /\ busy' = 0 /\ est' = 0 /\ disturbed' = FALSE
        /\ events' = [g \in Ages |-> 0] /\ args' = yaml
    BY DEF Ledger!Over, Ages
  <1>2. events' \in Amounts
    BY <1>1, NothingBooked
  <1>. QED BY <1>1, <1>2, BudgetAtRest DEF BudgetInv

\* The ledger that is saved is one.
LEMMA SavedIs ==
  ASSUME BudgetInv, file' = Ledger!Saved
  PROVE  file' = [events |-> file'.events, total |-> file'.total] /\ file'.events \in Amounts
  <1>1. file' = [events |-> events, total |-> total]
    BY DEF Ledger!Saved
  <1>. QED BY <1>1 DEF BudgetInv

\* Only the settings, the ledger file or the parking change.
LEMMA BudgetUndisturbed ==
  ASSUME BudgetInv,
         clock' = clock, anchored' = anchored, events' = events, busy' = busy, up' = up, est' = est,
         disturbed' \in BOOLEAN, disturbed \/ args' # args => disturbed' \/ ~up,
         file' = [events |-> file'.events, total |-> file'.total], file'.events \in Amounts,
         args' \in Configs, yaml' \in Configs
  PROVE  BudgetInv'
  <1>1. up' /\ ~disturbed' => up /\ ~disturbed /\ args' = args
    OBVIOUS
  <1>2. up' /\ ~disturbed' => est' = args'.cost /\ \A g \in Ages : events'[g] >= 0
    BY <1>1 DEF BudgetInv
  <1>3. Ledger!NeverOversubscribed'
    <2>1. CASE busy > 0 /\ ~disturbed'
      <3>1. up /\ ~disturbed /\ args' = args
        BY <1>1, <2>1 DEF BudgetInv
      <3>2. /\ Ledger!Unlimited' <=> Ledger!Unlimited
            /\ Ledger!Burned5(events)' = Ledger!Burned5(events)
            /\ Ledger!BurnedW(events)' = Ledger!BurnedW(events)
        BY <3>1 DEF Ledger!Unlimited, Ledger!Burned5, Ledger!BurnedW, Ledger!Oldest5, Ledger!OldestW
      <3>. QED BY <3>1, <3>2 DEF BudgetInv, Ledger!NeverOversubscribed
    <2>2. CASE ~(busy > 0 /\ ~disturbed')
      BY <2>2 DEF Ledger!NeverOversubscribed
    <2>. QED BY <2>1, <2>2
  <1>. QED BY <1>2, <1>3 DEF BudgetInv

\* The summary saves the ledger, and loads settings, which may disturb the process.
LEMMA BudgetSummary == ASSUME BudgetInv, Ledger!Summary PROVE BudgetInv'
  <1>. USE DEF Ledger!Summary
  <1>1. file' = [events |-> file'.events, total |-> file'.total] /\ file'.events \in Amounts
    BY SavedIs
  <1>2. CASE Ledger!Over
    BY <1>1, <1>2, BudgetOver
  <1>3. CASE Ledger!Reload /\ UNCHANGED <<up, busy, events, total, parked, est>>
    <2>1. args' = yaml /\ disturbed' = (disturbed \/ yaml # args)
      BY <1>3 DEF Ledger!Reload
    <2>2. disturbed' \in BOOLEAN /\ (disturbed \/ args' # args => disturbed' \/ ~up)
      BY <2>1
    <2>. QED BY <1>1, <1>3, <2>1, <2>2, BudgetUndisturbed DEF BudgetInv
  <1>. QED BY <1>2, <1>3

\* An edit reaches a process that runs with the next summary only.
LEMMA BudgetEdit == ASSUME BudgetInv, Ledger!Edit PROVE BudgetInv'
  <1>. USE DEF Ledger!Edit
  <1>1. /\ UNCHANGED <<clock, anchored, events, busy, up, est, file, disturbed>>
        /\ yaml' \in Configs /\ args' = IF up THEN args ELSE yaml'
    OBVIOUS
  <1>2. args' \in Configs /\ (disturbed \/ args' # args => disturbed' \/ ~up)
    BY <1>1 DEF BudgetInv
  <1>. QED BY <1>1, <1>2, BudgetUndisturbed DEF BudgetInv

\* A reconciliation writes into the file only, whole numbers at each age.
LEMMA BudgetReconcile == ASSUME BudgetInv, Ledger!Reconcile PROVE BudgetInv'
  <1>. USE DEF Ledger!Reconcile
  <1>1. UNCHANGED <<clock, anchored, events, busy, up, est, args, yaml, disturbed>>
    OBVIOUS
  <1>2. file' = [events |-> file'.events, total |-> file'.total] /\ file'.events \in Amounts
    <2>1. /\ file.events \in Amounts /\ clock \in Nat /\ yaml.cap5 \in Int /\ yaml.capw \in Int
          /\ Ledger!Burned5(file.events) \in Int
          /\ Ledger!Since(file.events, IF anchored THEN Ledger!OldestW ELSE WW - 1) \in Int
      <3>1. file.events \in Amounts /\ clock \in Nat /\ yaml \in Configs
        BY DEF BudgetInv
      <3>2. yaml.cap5 \in Int /\ yaml.capw \in Int
        BY <3>1, BudgetAssumption
      <3>3. Ledger!Oldest5 \in Ages /\ (IF anchored THEN Ledger!OldestW ELSE WW - 1) \in Ages
        BY <3>1, WindowsAre, AgesAre
      <3>. QED BY <3>1, <3>2, <3>3, SumUnfolds DEF Ledger!Burned5
    <2>2. \A x \in Int, y \in Int : Ledger!Most({x, y}) \in Int /\ Ledger!Least({x, y}) \in Int
      BY OfTwo
    <2>. DEFINE oldw == IF anchored THEN Ledger!OldestW ELSE WW - 1
                atLeast0(x) == Ledger!Most({0, x})
                gap5(f) == IF f.left5 = NoFill THEN 0
                           ELSE (yaml.cap5 - Ledger!Least({f.left5, atLeast0(yaml.cap5)}))
                                - atLeast0(Ledger!Burned5(file.events))
                gapw(f) == IF f.leftw = NoFill THEN 0
                           ELSE (yaml.capw - Ledger!Least({f.leftw, atLeast0(yaml.capw)}))
                                - atLeast0(Ledger!Since(file.events, oldw))
                at5 == IF anchored THEN Ledger!Oldest5 ELSE 0
                atw == IF anchored THEN Ledger!OldestW ELSE 0
                new(f) == [g \in Ages |-> file.events[g] + (IF g = at5 THEN gap5(f) ELSE 0)
                                                       + (IF g = atw THEN gapw(f) ELSE 0)]
    <2>3. PICK f \in Fills :
            file' = [events |-> new(f), total |-> IF f.total = NoFill THEN file.total ELSE f.total]
      BY Zenon DEF Ages
    <2>4. gap5(f) \in Int
      <3>1. CASE f.left5 = NoFill
        BY <3>1
      <3>2. CASE f.left5 \in Int
        <4>1. atLeast0(yaml.cap5) \in Int /\ atLeast0(Ledger!Burned5(file.events)) \in Int
          BY <2>1, <2>2, 0 \in Int
        <4>2. Ledger!Least({f.left5, atLeast0(yaml.cap5)}) \in Int
          BY <2>2, <3>2, <4>1
        <4>. QED BY <2>1, <4>1, <4>2
      <3>. QED BY <3>1, <3>2, BudgetAssumption
    <2>5. gapw(f) \in Int
      <3>1. CASE f.leftw = NoFill
        BY <3>1
      <3>2. CASE f.leftw \in Int
        <4>1. /\ atLeast0(yaml.capw) \in Int
              /\ atLeast0(Ledger!Since(file.events, oldw)) \in Int
          BY <2>1, <2>2, 0 \in Int, Zenon
        <4>2. Ledger!Least({f.leftw, atLeast0(yaml.capw)}) \in Int
          BY <2>2, <3>2, <4>1
        <4>. QED BY <2>1, <4>1, <4>2
      <3>. QED BY <3>1, <3>2, BudgetAssumption
    <2>. HIDE DEF gap5, gapw, at5, atw, oldw
    <2>6. new(f) \in Amounts
      BY <2>1, <2>4, <2>5 DEF Amounts
    <2>. QED BY <2>3, <2>6
  <1>. QED BY <1>1, <1>2, BudgetUndisturbed DEF BudgetInv

\* Every step of the burner keeps the invariant.
LEMMA BudgetNext ==
  ASSUME BudgetInv, [Ledger!Next]_ledgerVars PROVE BudgetInv'
  <1>1. CASE Ledger!Start
    BY <1>1, BudgetStart
  <1>2. CASE Ledger!Look
    BY <1>2, BudgetLook
  <1>3. CASE Ledger!Succeed
    BY <1>3, BudgetSucceed
  <1>4. CASE Ledger!Fail
    BY <1>4, BudgetFail
  <1>5. CASE Ledger!Summary
    BY <1>5, BudgetSummary
  <1>6. CASE Ledger!Quit \/ Ledger!Kill
    <2>1. Ledger!Over /\ UNCHANGED <<clock, anchored, yaml>> /\ (file' = Ledger!Saved \/ file' = file)
      BY <1>6 DEF Ledger!Quit, Ledger!Kill
    <2>2. file' = [events |-> file'.events, total |-> file'.total] /\ file'.events \in Amounts
      BY <2>1, SavedIs DEF BudgetInv
    <2>. QED BY <2>1, <2>2, BudgetOver
  <1>7. CASE Ledger!Edit
    BY <1>7, BudgetEdit
  <1>8. CASE Ledger!Reconcile
    BY <1>8, BudgetReconcile
  <1>9. CASE Ledger!Tick
    BY <1>9, BudgetTick
  <1>10. CASE UNCHANGED ledgerVars
    BY <1>10, BudgetUndisturbed DEF ledgerVars, BudgetInv
  <1>. QED BY <1>1, <1>2, <1>3, <1>4, <1>5, <1>6, <1>7, <1>8, <1>9, <1>10 DEF Ledger!Next

\* Requests in flight never take more than the windows have left, and a parked account comes
\* back exactly when there is room, for windows of any length, any settings, any number of
\* requests in flight and of edits, kills and reconciliations (Burner._worker, AccountState).
THEOREM BudgetStaysKept == MCSpec => []BudgetIsKept
  <1>1. MCInit => BudgetInv
    BY BudgetInitial DEF MCInit
  <1>2. ASSUME BudgetInv, [MCNext]_all PROVE BudgetInv'
    <2>1. [Ledger!Next]_ledgerVars
      BY <1>2, Zenon DEF MCNext, all, OnlyBurner, OnlyPace, OnlyProgram, OnlyTray
    <2>. QED BY <1>2, <2>1, BudgetNext
  <1>. QED BY <1>1, <1>2, BudgetSuffices, PTL DEF MCSpec
==============================================================================
