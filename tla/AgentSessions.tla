--------------------------- MODULE AgentSessions ---------------------------
(***************************************************************************)
(* The agent service: sessions whose rows live in the database and whose    *)
(* loops live in memory.  A loop asks the model, carries out the batch of   *)
(* tool calls it answers with, parks on an approval before a dangerous one, *)
(* and waits for the child sessions it spawns.                              *)
(*                                                                          *)
(* A database transaction is one step, with the code that runs between it   *)
(* and the next await: asyncio runs that code without interruption, and the *)
(* process-wide transaction lock is first come, first served.  A session id *)
(* names its row; a run is one _Running object, and the dictionary _running *)
(* maps a session to the run registered for it.  Sessions and runs are      *)
(* numbered in the order they are created.                                  *)
(***************************************************************************)
EXTENDS Naturals, Sequences, FiniteSets

CONSTANTS
    MaxSessions,       \* bound: sessions ever created
    Client,            \* requests that create or continue a session
    Kind,              \* the kinds of run the clients ask for
    Batch,             \* the batches of tool calls the model may answer with
    Segments,          \* segments of a delegation batch
    MaxRuns,           \* bound: runs ever created
    MaxSteps,          \* agent_max_steps
    MaxConcurrent,     \* agent_max_concurrent
    MaxChildrenTotal,  \* agent_max_children_total
    MaxLiveChildren,   \* agent_max_live_children
    MaxDepth,          \* agent_max_depth
    MaxFaults          \* bound: restarts of the process, exceptions in a task, and
                       \* requests that continue a session which is still served

Session == 1..MaxSessions
Nobody == 0
Run == 1..MaxRuns
NoRun == 0


(* What a tool call is to the loop: "read" stands for every call that ends *)
(* with its result at once (a read-only tool, an unknown name, arguments    *)
(* that are not JSON, a command on the blocklist).                          *)
Dangerous == {"write", "delegate"}
Tool == {"read", "spawn"} \cup Dangerous

AgentAssumption ==
    /\ Kind \subseteq {"loop", "single", "batch"}
    /\ Batch \subseteq Seq(Tool)
    /\ {MaxSessions, MaxRuns, MaxSteps, MaxConcurrent, MaxChildrenTotal, Segments}
        \subseteq Nat \ {0}
    /\ {MaxLiveChildren, MaxDepth, MaxFaults} \subseteq Nat

ASSUME AgentAssumption

Active == {"running", "waiting_approval"}
Resumable == {"done", "failed", "cancelled", "interrupted"}

VARIABLES
    row,        \* the session's row: its status, "none" before, "deleted" after
    transcript, \* its messages: "open" while tool calls lack their results,
                \* "torn" when a crash left them so for good
    running,    \* AgentService._running
    pc,         \* where each run's task is
    kind,       \* which task it is
    sess,       \* its session
    parent,     \* the run that spawned it
    cancelled,  \* run.cancelled
    allowed,    \* approvals.always_allow
    answer,     \* its pending approval: "none", "open", "yes", "no"
    calls,      \* tool calls (or delegation segments) still to be carried out
    steps,      \* model answers so far
    live,       \* run.live_kids
    reserved,   \* run.reserved
    spawned,    \* run.spawned_batch
    kid,        \* the child run it waits for
    outcome,    \* what it put on its done queue
    consent,    \* what its user has allowed each dangerous tool: history only
    client,     \* requests between two of their transactions
    seen,       \* rows list_sessions read as active and has not looked at yet
    server,     \* "up", or "starting" until the stale rows are marked
    faults,
    overlapped  \* sessions continued, since the last start, while still served: history only

memory == <<running, pc, kind, sess, parent, cancelled, allowed, answer, calls,
            steps, live, reserved, spawned, kid, outcome, consent>>
vars == <<row, transcript, memory, client, seen, server, faults, overlapped>>

NoConsent == [t \in Dangerous |-> "never"]
IdleClient == [at |-> "idle", sess |-> Nobody, kind |-> "loop", run |-> NoRun]

Init ==
    /\ row = [s \in Session |-> "none"]
    /\ transcript = [s \in Session |-> "whole"]
    /\ running = [s \in Session |-> NoRun]
    /\ pc = [r \in Run |-> "free"]
    /\ kind = [r \in Run |-> "loop"]
    /\ sess = [r \in Run |-> Nobody]
    /\ parent = [r \in Run |-> NoRun]
    /\ cancelled = [r \in Run |-> FALSE]
    /\ allowed = [r \in Run |-> {}]
    /\ answer = [r \in Run |-> "none"]
    /\ calls = [r \in Run |-> <<>>]
    /\ steps = [r \in Run |-> 0]
    /\ live = [r \in Run |-> 0]
    /\ reserved = [r \in Run |-> 0]
    /\ spawned = [r \in Run |-> 0]
    /\ kid = [r \in Run |-> NoRun]
    /\ outcome = [r \in Run |-> "none"]
    /\ consent = [r \in Run |-> NoConsent]
    /\ client = [c \in Client |-> IdleClient]
    /\ seen = {}
    /\ server = "up"
    /\ faults = 0
    /\ overlapped = {}

-----------------------------------------------------------------------------
(* Rows and runs *)

Exists(s) == row[s] \notin {"none", "deleted"}

(* AgentRepository.update_status: nothing happens when the row is gone. *)
WithStatus(s, status) == IF Exists(s) THEN [row EXCEPT ![s] = status] ELSE row
SetStatus(s, status) == row' = WithStatus(s, status)

Free(r) == pc[r] = "free" /\ \A q \in Run : pc[q] = "free" => r <= q

New(s) == row[s] = "none" /\ \A q \in Session : row[q] = "none" => s <= q

(* Bound: a run is left for each request that has still to create its own. *)
Room == Cardinality({c \in Client : client[c].at = "created"})
            < Cardinality({r \in Run : pc[r] = "free"})

(* Nobody can name a session in a request before the transaction that       *)
(* follows its creation: its id is in no answer, and the requests of one     *)
(* who has listed it queue behind that transaction.  A batch of delegations  *)
(* has more transactions than one before its run is registered.             *)
Known(s) ==
    /\ \A c \in Client :
        ~(client[c].at = "created" /\ client[c].sess = s /\ client[c].kind # "batch")
    /\ \A r \in Run : pc[r] = "unborn" => sess[r] # s

(* A run of this session is registered, or a request is about to do so.  A  *)
(* followup looks at the status only, which may be over before the run is:  *)
(* a second run then serves the session beside the first.                   *)
Busy(s) ==
    \/ running[s] # NoRun
    \/ \E c \in Client : client[c].sess = s
    \/ \E r \in Run : pc[r] = "unborn" /\ sess[r] = s

Continues(s) ==
    IF Busy(s)
    THEN /\ faults < MaxFaults /\ faults' = faults + 1
         /\ overlapped' = overlapped \cup {s}
    ELSE UNCHANGED <<faults, overlapped>>

(* A _Running object is created; its coroutine is left at a control point. *)
NewRun(r, s, k, p) ==
    /\ sess' = [sess EXCEPT ![r] = s]
    /\ kind' = [kind EXCEPT ![r] = k]
    /\ parent' = [parent EXCEPT ![r] = p]

(* Where the task of a run begins. *)
Entry(k) == IF k = "loop" THEN "gate" ELSE "enter"

(* A loop's run as far as its own tool calls are concerned. *)
loopVars == <<allowed, answer, calls, steps, reserved, spawned, kid, consent>>
requestVars == <<client, seen, server, faults, overlapped>>

(* What a run does when its task ends: the outcome goes on the done queue   *)
(* (kept here only if a parent waits for it) and the session's entry leaves *)
(* _running, whichever run it names.  What only the task could read is      *)
(* forgotten.                                                               *)
Leave(r, status) ==
    /\ outcome' = [outcome EXCEPT ![r] = IF \E p \in Run : kid[p] = r THEN status ELSE @]
    /\ running' = [running EXCEPT ![sess[r]] = NoRun]
    /\ allowed' = [allowed EXCEPT ![r] = {}]
    /\ answer' = [answer EXCEPT ![r] = "none"]
    /\ calls' = [calls EXCEPT ![r] = <<>>]
    /\ steps' = [steps EXCEPT ![r] = 0]
    /\ live' = [live EXCEPT ![r] = 0]
    /\ reserved' = [reserved EXCEPT ![r] = 0]
    /\ spawned' = [spawned EXCEPT ![r] = 0]
    /\ kid' = [kid EXCEPT ![r] = NoRun]
    /\ consent' = [consent EXCEPT ![r] = NoConsent]
    /\ kind' = [kind EXCEPT ![r] = "loop"]
    /\ parent' = [parent EXCEPT ![r] = NoRun]
    /\ UNCHANGED sess

(* The ordinary end of a task: its last status is written, then it leaves. *)
Finish(r, status) ==
    /\ SetStatus(sess[r], status)
    /\ Leave(r, status)
    /\ pc' = [pc EXCEPT ![r] = "gone"]
    /\ cancelled' = [cancelled EXCEPT ![r] = FALSE]
    /\ UNCHANGED <<transcript, requestVars>>

-----------------------------------------------------------------------------
(* Requests that create or continue a session *)

(* start, start_delegation, start_delegations: the row is created "running" *)
(* in a transaction of its own.                                             *)
Create(c, s, k) ==
    /\ server = "up" /\ client[c].at = "idle" /\ New(s)
    /\ Room
    /\ row' = [row EXCEPT ![s] = "running"]
    /\ client' = [client EXCEPT ![c] =
                    [at |-> "created", sess |-> s, kind |-> k, run |-> NoRun]]
    /\ UNCHANGED <<transcript, memory, seen, server, faults, overlapped>>

(* An attachment of a new task is refused (_store_files, _normalise_images): *)
(* the request fails and leaves the row behind.                              *)
CreateFails(c) ==
    /\ client[c].at = "created" /\ client[c].kind = "loop"
    /\ client' = [client EXCEPT ![c] = IdleClient]
    /\ UNCHANGED <<row, transcript, memory, seen, server, faults, overlapped>>

(* The task is recorded, the run registered and its task spawned; a batch   *)
(* of delegations first writes the status.                                  *)
Enlist(c) ==
    LET s == client[c].sess
        k == client[c].kind
    IN  /\ client[c].at = "created"
        /\ \E r \in Run :
            /\ Free(r)
            /\ NewRun(r, s, k, NoRun)
            /\ running' = [running EXCEPT ![s] = r]
            /\ pc' = [pc EXCEPT ![r] = IF k = "batch" THEN "hold" ELSE Entry(k)]
            /\ client' = [client EXCEPT ![c] =
                            IF k = "batch"
                            THEN [at |-> "registered", sess |-> s, kind |-> k, run |-> r]
                            ELSE IdleClient]
        /\ UNCHANGED <<row, transcript, cancelled, loopVars, live, outcome,
                       seen, server, faults, overlapped>>

(* followup and followup_delegation: the status just read decides, and the  *)
(* run is registered before anything else is awaited.                       *)
Followup(c, s, k) ==
    /\ server = "up" /\ client[c].at = "idle"
    /\ Known(s) /\ row[s] \in Resumable /\ Continues(s)
    /\ k # "batch" /\ Room
    /\ \E r \in Run :
        /\ Free(r)
        /\ NewRun(r, s, k, NoRun)
        /\ running' = [running EXCEPT ![s] = r]
        /\ pc' = [pc EXCEPT ![r] = "hold"]
        /\ client' = [client EXCEPT ![c] =
                        [at |-> "registered", sess |-> s, kind |-> k, run |-> r]]
    /\ UNCHANGED <<row, transcript, cancelled, loopVars, live, outcome,
                   seen, server>>

(* An attachment of a followup is refused after the run was registered: the *)
(* request fails, and nothing ever spawns the run or takes it out again.    *)
FollowupFails(c) ==
    /\ client[c].at = "registered" /\ client[c].kind = "loop"
    /\ client' = [client EXCEPT ![c] = IdleClient]
    /\ UNCHANGED <<row, transcript, memory, seen, server, faults, overlapped>>

(* start_delegations on a session that exists: the status just read decides, *)
(* the tasks are recorded, and only then is the run registered.              *)
Admit(c, s) ==
    /\ server = "up" /\ client[c].at = "idle"
    /\ Known(s) /\ row[s] \in Resumable /\ Continues(s)
    /\ Room
    /\ client' = [client EXCEPT ![c] =
                    [at |-> "created", sess |-> s, kind |-> "batch", run |-> NoRun]]
    /\ UNCHANGED <<row, transcript, memory, seen, server>>

(* The status is written and the task of a registered run spawned. *)
Launch(c) ==
    /\ client[c].at = "registered"
    /\ SetStatus(client[c].sess, "running")
    /\ pc' = [pc EXCEPT ![client[c].run] = Entry(client[c].kind)]
    /\ client' = [client EXCEPT ![c] = IdleClient]
    /\ UNCHANGED <<transcript, running, kind, sess, parent, cancelled, loopVars,
                   live, outcome, seen, server, faults, overlapped>>

-----------------------------------------------------------------------------
(* Requests on a session *)

(* Mutant: "do not ask again" is remembered of a refusal too. *)
ResolveRemembersRefusal(r, approved, remember) ==
    LET tool == Head(calls[r])
    IN  /\ answer' = [answer EXCEPT ![r] = IF approved THEN "yes" ELSE "no"]
        /\ allowed' = [allowed EXCEPT ![r] = IF remember THEN @ \cup {tool} ELSE @]

(* SessionApprovals.resolve: the answer to the one pending approval. *)
Resolve(r, approved, remember) ==
    LET tool == Head(calls[r])
    IN  /\ answer' = [answer EXCEPT ![r] = IF approved THEN "yes" ELSE "no"]
        /\ allowed' = [allowed EXCEPT ![r] =
                         IF approved /\ remember THEN @ \cup {tool} ELSE @]

(* SessionApprovals.deny_all *)
DenyAll(r) ==
    answer' = [answer EXCEPT ![r] = IF @ = "open" THEN "no" ELSE @]

(* decide: only a run that is registered can be answered. *)
Decide(s, approved, remember) ==
    LET r == running[s]
    IN  /\ server = "up" /\ r # NoRun /\ answer[r] = "open"
        /\ Resolve(r, approved, remember)
        /\ consent' = [consent EXCEPT ![r][Head(calls[r])] =
                         CASE ~approved -> @
                           [] approved /\ remember -> "always"
                           [] OTHER -> "once"]
        /\ UNCHANGED <<row, transcript, running, pc, kind, sess, parent, cancelled,
                       calls, steps, live, reserved, spawned, kid, outcome,
                       requestVars>>

(* cancel: a registered run is told, and everything it waits for refused; a *)
(* row without a run is only rewritten.                                     *)
Cancel(s) ==
    /\ server = "up" /\ Exists(s) /\ Known(s)
    /\ IF running[s] = NoRun
       THEN /\ row[s] \in Active
            /\ SetStatus(s, "cancelled")
            /\ UNCHANGED <<cancelled, answer>>
       ELSE /\ cancelled' = [cancelled EXCEPT ![running[s]] = TRUE]
            /\ DenyAll(running[s])
            /\ UNCHANGED row
    /\ UNCHANGED <<transcript, running, pc, kind, sess, parent, allowed, calls, steps,
                   live, reserved, spawned, kid, outcome, consent, requestVars>>

(* delete: refused while a run is registered. *)
Delete(s) ==
    /\ server = "up" /\ Exists(s) /\ Known(s) /\ running[s] = NoRun
    /\ row' = [row EXCEPT ![s] = "deleted"]
    /\ UNCHANGED <<transcript, memory, requestVars>>

Orphaned(s) == row[s] \in Active /\ running[s] = NoRun

(* session_detail, and the events stream that begins with it. *)
SessionDetail(s) ==
    /\ server = "up" /\ Orphaned(s) /\ Known(s)
    /\ SetStatus(s, "interrupted")
    /\ UNCHANGED <<transcript, memory, requestVars>>

(* Mutant: every active row is taken for an orphan. *)
ListTakesAllForOrphans ==
    /\ server = "up" /\ seen = {}
    /\ \E s \in Session : row[s] \in Active /\ SetStatus(s, "interrupted")
    /\ UNCHANGED <<transcript, memory, client, seen, server, faults, overlapped>>

(* list_sessions reads every row and then looks at them one after another,  *)
(* without a pause as long as it has nothing to write: at its first orphan  *)
(* later holds the rows it has still to look at, every other orphan among   *)
(* them.                                                                    *)
ListSessions ==
    /\ server = "up" /\ seen = {}
    /\ \E s \in Session :
        /\ Orphaned(s)
        /\ SetStatus(s, "interrupted")
        /\ \E later \in SUBSET ({q \in Session : row[q] \in Active} \ {s}) :
            /\ {q \in Session : Orphaned(q)} \subseteq later \cup {s}
            /\ seen' = later
    /\ UNCHANGED <<transcript, memory, client, server, faults, overlapped>>

(* After each write the next rows are looked at: their status is the one    *)
(* read at the start, their run the one registered now.                     *)
ListNext ==
    /\ seen # {}
    /\ LET orphans == {s \in seen : running[s] = NoRun}
       IN  IF orphans = {}
           THEN seen' = {} /\ UNCHANGED row
           ELSE \E s \in orphans :
                    /\ SetStatus(s, "interrupted")
                    /\ \E later \in SUBSET (seen \ {s}) :
                        orphans \subseteq later \cup {s} /\ seen' = later
    /\ UNCHANGED <<transcript, memory, client, server, faults, overlapped>>

-----------------------------------------------------------------------------
(* The process stops and starts again *)

Crash ==
    /\ faults < MaxFaults /\ server = "up"
    /\ server' = "starting" /\ faults' = faults + 1
    /\ transcript' = [s \in Session |->
                        IF transcript[s] = "open" THEN "torn" ELSE transcript[s]]
    /\ running' = [s \in Session |-> NoRun]
    /\ pc' = [r \in Run |-> IF pc[r] = "free" THEN "free" ELSE "gone"]
    /\ cancelled' = [r \in Run |-> FALSE]
    /\ allowed' = [r \in Run |-> {}]
    /\ answer' = [r \in Run |-> "none"]
    /\ calls' = [r \in Run |-> <<>>]
    /\ steps' = [r \in Run |-> 0]
    /\ live' = [r \in Run |-> 0]
    /\ reserved' = [r \in Run |-> 0]
    /\ spawned' = [r \in Run |-> 0]
    /\ kid' = [r \in Run |-> NoRun]
    /\ outcome' = [r \in Run |-> "none"]
    /\ consent' = [r \in Run |-> NoConsent]
    /\ client' = [c \in Client |-> IdleClient]
    /\ seen' = {}
    /\ kind' = [r \in Run |-> "loop"]
    /\ sess' = [r \in Run |-> Nobody]
    /\ parent' = [r \in Run |-> NoRun]
    /\ overlapped' = {}
    /\ UNCHANGED row

(* mark_stale_interrupted before the server takes requests; an error stops  *)
(* it half way, and is only logged.                                         *)
Startup ==
    /\ server = "starting"
    /\ \E marked \in SUBSET {s \in Session : row[s] \in Active} :
        row' = [s \in Session |-> IF s \in marked THEN "interrupted" ELSE row[s]]
    /\ server' = "up"
    /\ UNCHANGED <<transcript, memory, client, seen, faults, overlapped>>

-----------------------------------------------------------------------------
(* The task of a session: _guarded_loop and _loop *)

(* A task inside its semaphore. *)
InLoop == {"begin", "top", "chat", "call", "ask", "park", "perform", "born", "kid", "render"}

(* Mutant: children and roots share one semaphore. *)
HoldersShared(q) == {r \in Run : pc[r] \in InLoop}

(* The runs that hold a slot of the semaphore q needs. *)
Holders(q) ==
    {r \in Run : pc[r] \in InLoop /\ (parent[r] = NoRun) = (parent[q] = NoRun)}

(* Children queue for a semaphore of their own, so that a parent that holds *)
(* a slot never waits for a slot it holds.                                  *)
Slots(r) == IF parent[r] = NoRun THEN MaxConcurrent ELSE MaxChildrenTotal

EnterGate(r) ==
    /\ pc[r] = "gate"
    /\ Cardinality(Holders(r)) < Slots(r)
    /\ pc' = [pc EXCEPT ![r] = "begin"]
    /\ UNCHANGED <<row, transcript, running, kind, sess, parent, cancelled, loopVars,
                   live, outcome, requestVars>>

Begin(r) ==
    /\ pc[r] = "begin"
    /\ SetStatus(sess[r], "running")
    /\ pc' = [pc EXCEPT ![r] = "top"]
    /\ UNCHANGED <<transcript, running, kind, sess, parent, cancelled, loopVars,
                   live, outcome, requestVars>>

(* The head of the loop: the only place where a cancelled loop ends. *)
Top(r) ==
    /\ pc[r] = "top"
    /\ \/ cancelled[r] /\ Finish(r, "cancelled")
       \/ ~cancelled[r] /\ steps[r] >= MaxSteps /\ Finish(r, "done")
       \/ /\ ~cancelled[r] /\ steps[r] < MaxSteps
          /\ pc' = [pc EXCEPT ![r] = "chat"]
          /\ UNCHANGED <<row, transcript, running, kind, sess, parent, cancelled,
                         loopVars, live, outcome, requestVars>>

ChatFails(r) == pc[r] = "chat" /\ Finish(r, "failed")

(* An answer without tool calls ends the task, whatever happened meanwhile. *)
ChatEnds(r) == pc[r] = "chat" /\ Finish(r, "done")

Spawns(batch) == Cardinality({i \in DOMAIN batch : batch[i] = "spawn"})

ChatCalls(r, batch) ==
    /\ pc[r] = "chat" /\ batch # <<>>
    /\ SetStatus(sess[r], "running")
    /\ transcript' = [transcript EXCEPT ![sess[r]] = IF @ = "torn" THEN @ ELSE "open"]
    /\ steps' = [steps EXCEPT ![r] = @ + 1]
    /\ calls' = [calls EXCEPT ![r] = batch]
    /\ reserved' = [reserved EXCEPT ![r] = Spawns(batch)]
    /\ pc' = [pc EXCEPT ![r] = "call"]
    /\ UNCHANGED <<running, kind, sess, parent, cancelled, allowed, answer, live,
                   spawned, kid, outcome, consent, requestVars>>
-----------------------------------------------------------------------------
(* Tool calls: _execute_tool and what it dispatches to *)

(* The result of the call at hand is recorded and the next one is due; the  *)
(* end of a batch clears its two counters.                                  *)
Answered(r, left) ==
    LET rest == Tail(calls[r])
    IN  /\ calls' = [calls EXCEPT ![r] = rest]
        /\ pc' = [pc EXCEPT ![r] = IF rest = <<>> THEN "top" ELSE "call"]
        /\ reserved' = [reserved EXCEPT ![r] = IF rest = <<>> THEN 0 ELSE left]
        /\ spawned' = [spawned EXCEPT ![r] = IF rest = <<>> THEN 0 ELSE @]
        /\ transcript' = [transcript EXCEPT ![sess[r]] =
                            IF rest = <<>> /\ @ = "open" THEN "whole" ELSE @]

(* Spawns of the batch that are not yet due once the call at hand is. *)
Left(r) == IF Head(calls[r]) = "spawn" THEN reserved[r] - 1 ELSE reserved[r]

(* Mutant: a cancelled loop ends in the middle of a batch. *)
CallOrCancelled(r) ==
    /\ pc[r] = "call"
    /\ \/ cancelled[r] /\ Finish(r, "cancelled")
       \/ /\ ~cancelled[r] /\ Answered(r, Left(r))
          /\ UNCHANGED <<row, running, kind, sess, parent, cancelled, allowed, answer,
                         steps, live, kid, outcome, consent, requestVars>>

(* A call that is carried out, or refused, without waiting for anybody. *)
CallAtOnce(r) ==
    /\ pc[r] = "call"
    /\ Answered(r, Left(r))
    /\ UNCHANGED <<row, running, kind, sess, parent, cancelled, allowed, answer,
                   steps, live, kid, outcome, consent, requestVars>>

(* A dangerous call needs an approval unless its tool is always allowed in   *)
(* this run; only a root session may delegate.                               *)
CallDangerous(r) ==
    LET tool == Head(calls[r])
    IN  /\ pc[r] = "call" /\ tool \in Dangerous
        /\ tool = "delegate" => parent[r] = NoRun
        /\ IF tool \in allowed[r]
           THEN /\ pc' = [pc EXCEPT ![r] = "perform"]
                /\ UNCHANGED answer
           ELSE /\ pc' = [pc EXCEPT ![r] = "ask"]
                /\ answer' = [answer EXCEPT ![r] = "open"]
        /\ UNCHANGED <<row, transcript, running, kind, sess, parent, cancelled, allowed,
                       calls, steps, live, reserved, spawned, kid, outcome, consent,
                       requestVars>>

(* The approval is registered; the status says so to whoever can give it. *)
Ask(r) ==
    /\ pc[r] = "ask"
    /\ SetStatus(sess[r], "waiting_approval")
    /\ pc' = [pc EXCEPT ![r] = "park"]
    /\ UNCHANGED <<transcript, running, kind, sess, parent, cancelled, loopVars,
                   live, outcome, requestVars>>

(* The answer wakes the loop: the call is carried out or refused. *)
Wake(r) ==
    /\ pc[r] = "park" /\ answer[r] # "open"
    /\ SetStatus(sess[r], "running")
    /\ answer' = [answer EXCEPT ![r] = "none"]
    /\ IF answer[r] = "yes"
       THEN /\ pc' = [pc EXCEPT ![r] = "perform"]
            /\ UNCHANGED <<transcript, calls, reserved, spawned>>
       ELSE Answered(r, reserved[r])
    /\ UNCHANGED <<running, kind, sess, parent, cancelled, allowed, steps, live, kid,
                   outcome, consent, requestVars>>

(* A consent that was given once is used up. *)
Perform(r) ==
    /\ pc[r] = "perform"
    /\ consent' = [consent EXCEPT ![r][Head(calls[r])] = IF @ = "once" THEN "never" ELSE @]
    /\ Answered(r, reserved[r])
    /\ UNCHANGED <<row, running, kind, sess, parent, cancelled, allowed, answer, steps,
                   live, kid, outcome, requestVars>>

(* The largest of the three counts that stand for children in use. *)
InUse(r) ==
    LET counts == {live[r], spawned[r], Left(r)}
    IN  CHOOSE n \in counts : \A m \in counts : m <= n

Depth(r) == IF parent[r] = NoRun THEN 1 ELSE 2

(* _spawn_child: past the gate, the child's row is created. *)
SpawnChild(r, q, s) ==
    /\ pc[r] = "call" /\ Head(calls[r]) = "spawn"
    /\ parent[r] = NoRun /\ Depth(r) < MaxDepth /\ InUse(r) < MaxLiveChildren
    /\ Free(q) /\ Room /\ New(s)
    /\ row' = [row EXCEPT ![s] = "running"]
    /\ NewRun(q, s, "loop", r)
    /\ pc' = [pc EXCEPT ![r] = "born", ![q] = "unborn"]
    /\ kid' = [kid EXCEPT ![r] = q]
    /\ spawned' = [spawned EXCEPT ![r] = @ + 1]
    /\ reserved' = [reserved EXCEPT ![r] = Left(r)]
    /\ UNCHANGED <<transcript, running, cancelled, allowed, answer, calls, steps, live,
                   outcome, consent, requestVars>>

(* The child is registered and its task spawned; the parent waits for it. *)
ChildStarts(r) ==
    /\ pc[r] = "born"
    /\ running' = [running EXCEPT ![sess[kid[r]]] = kid[r]]
    /\ pc' = [pc EXCEPT ![r] = "kid", ![kid[r]] = "gate"]
    /\ live' = [live EXCEPT ![r] = @ + 1]
    /\ UNCHANGED <<row, transcript, kind, sess, parent, cancelled, loopVars, outcome,
                   requestVars>>

(* The parent stops waiting: whatever run its child's session has now is    *)
(* cancelled, but nothing it waits for is refused.                          *)
Abandon(r) ==
    LET now == running[sess[kid[r]]]
    IN  /\ live' = [live EXCEPT ![r] = @ - 1]
        /\ kid' = [kid EXCEPT ![r] = NoRun]
        /\ outcome' = [outcome EXCEPT ![kid[r]] = "none"]
        /\ cancelled' = IF now = NoRun THEN cancelled
                                       ELSE [cancelled EXCEPT ![now] = TRUE]
        /\ Answered(r, reserved[r])
        /\ UNCHANGED <<row, running, kind, sess, parent, allowed, answer, steps, consent,
                       requestVars>>

(* _wait_child looks for an approval first, so that a parent does not wait  *)
(* for the user of its child, and then for the child's outcome.             *)
ChildParked(r) == pc[r] = "kid" /\ answer[kid[r]] = "open" /\ Abandon(r)

ChildFails(r) ==
    /\ pc[r] = "kid" /\ answer[kid[r]] # "open"
    /\ outcome[kid[r]] \notin {"none", "done"}
    /\ Abandon(r)

(* The conclusion of a child that is done is read from its transcript. *)
ChildDone(r) ==
    /\ pc[r] = "kid" /\ answer[kid[r]] # "open" /\ outcome[kid[r]] = "done"
    /\ pc' = [pc EXCEPT ![r] = "render"]
    /\ UNCHANGED <<row, transcript, running, kind, sess, parent, cancelled, loopVars,
                   live, outcome, requestVars>>

Render(r) == pc[r] = "render" /\ Abandon(r)

-----------------------------------------------------------------------------
(* Delegations run without a model: _delegation and _delegation_batch *)

(* The task space is entered, or its lease is held by somebody else. *)
EnterSpace(r) ==
    /\ pc[r] = "enter"
    /\ \/ Finish(r, "failed")
       \/ /\ SetStatus(sess[r], "running")
          /\ pc' = [pc EXCEPT ![r] = "segment"]
          /\ UNCHANGED <<transcript, running, kind, sess, parent, cancelled, loopVars,
                         live, outcome, requestVars>>

(* A batch looks for a cancellation before each segment, a single           *)
(* delegation when its executor has answered: that cannot be interrupted.   *)
Segment(r) ==
    /\ pc[r] = "segment"
    /\ \/ kind[r] = "batch" /\ cancelled[r] /\ Finish(r, "cancelled")
       \/ /\ ~(kind[r] = "batch" /\ cancelled[r])
          /\ pc' = [pc EXCEPT ![r] = "exec"]
          /\ UNCHANGED <<row, transcript, running, kind, sess, parent, cancelled,
                         loopVars, live, outcome, requestVars>>

ExecSingle(r) ==
    /\ pc[r] = "exec" /\ kind[r] = "single"
    /\ \E status \in {"done", "failed"} :
        Finish(r, IF cancelled[r] THEN "cancelled" ELSE status)

ExecSegment(r) ==
    /\ pc[r] = "exec" /\ kind[r] = "batch"
    /\ \/ Finish(r, "failed")
       \/ steps[r] + 1 = Segments /\ Finish(r, "done")
       \/ /\ steps[r] + 1 < Segments
          /\ steps' = [steps EXCEPT ![r] = @ + 1]
          /\ pc' = [pc EXCEPT ![r] = "segment"]
          /\ UNCHANGED <<row, transcript, running, kind, sess, parent, cancelled, allowed,
                         answer, calls, live, reserved, spawned, kid, outcome, consent,
                         requestVars>>

(* An exception ends a task as failed; when it came from the database, the  *)
(* status may not be written either.  A child that was not yet registered   *)
(* never is.                                                                *)
Breakable == {"begin", "top", "chat", "call", "ask", "perform", "born", "enter",
              "segment", "exec"}

TaskBreaks(r) ==
    /\ faults < MaxFaults /\ faults' = faults + 1
    /\ pc[r] \in Breakable \/ (pc[r] = "park" /\ answer[r] # "open")
    /\ SetStatus(sess[r], "failed") \/ UNCHANGED row
    /\ Leave(r, "failed")
    /\ pc' = [q \in Run |-> IF q = r \/ (pc[r] = "born" /\ q = kid[r]) THEN "gone" ELSE pc[q]]
    /\ cancelled' = [cancelled EXCEPT ![r] = FALSE]
    /\ transcript' = [transcript EXCEPT ![sess[r]] = IF @ = "open" THEN "torn" ELSE @]
    /\ UNCHANGED <<client, seen, server, overlapped>>

-----------------------------------------------------------------------------
(* Specification *)

(* What the task of a run does next, the semaphore and the user apart. *)
Advance(r) ==
    \/ Begin(r) \/ Top(r) \/ ChatFails(r) \/ ChatEnds(r)
    \/ \E batch \in Batch : ChatCalls(r, batch)
    \/ CallAtOnce(r) \/ CallDangerous(r) \/ Ask(r) \/ Wake(r) \/ Perform(r)
    \/ \E q \in Run, s \in Session : SpawnChild(r, q, s)
    \/ ChildStarts(r) \/ ChildParked(r) \/ ChildFails(r) \/ ChildDone(r) \/ Render(r)
    \/ EnterSpace(r) \/ Segment(r) \/ ExecSingle(r) \/ ExecSegment(r)

Submit(c) ==
    \E s \in Session :
        \/ \E k \in Kind : Create(c, s, k) \/ Followup(c, s, k)
        \/ "batch" \in Kind /\ Admit(c, s)

Proceed(c) == CreateFails(c) \/ Enlist(c) \/ FollowupFails(c) \/ Launch(c)

Next ==
    \/ \E c \in Client : Submit(c) \/ Proceed(c)
    \/ \E s \in Session :
        \/ \E approved, remember \in BOOLEAN : Decide(s, approved, remember)
        \/ Cancel(s) \/ Delete(s) \/ SessionDetail(s)
    \/ ListSessions \/ ListNext
    \/ \E r \in Run : EnterGate(r) \/ Advance(r) \/ TaskBreaks(r)
    \/ Crash \/ Startup

(* Tasks and requests that can go on do; a semaphore is first come, first   *)
(* served; the user answers the approvals that are shown, and the console   *)
(* goes on listing the sessions.                                            *)
Fairness ==
    /\ \A r \in Run : WF_vars(Advance(r)) /\ SF_vars(EnterGate(r))
    /\ \A c \in Client : WF_vars(Proceed(c))
    /\ \A s \in Session :
        WF_vars(\E approved, remember \in BOOLEAN : Decide(s, approved, remember))
    /\ WF_vars(ListSessions) /\ WF_vars(ListNext) /\ WF_vars(Startup)

Spec == Init /\ [][Next]_vars /\ Fairness

-----------------------------------------------------------------------------
(* Properties *)

(* A loop that is parked on an approval is shown as waiting for it and is   *)
(* the one that answers reach, so that the one who can give them finds it:  *)
(* no listing, startup, cancellation or child overwrites that, and no       *)
(* followup but one that came while the session was still served, which     *)
(* followup does not look for (service.py:210-222): it puts a run of its    *)
(* own in the place of the first and rewrites the status of both.           *)
WaitingIsVisible ==
    \A r \in Run :
        pc[r] = "park" /\ answer[r] = "open" /\ Exists(sess[r]) /\ sess[r] \notin overlapped
            => row[sess[r]] = "waiting_approval" /\ running[sess[r]] = r

(* A session that ended as done or cancelled has the result of every tool   *)
(* call in its transcript, so that a followup replays a conversation the    *)
(* upstreams accept: in particular a cancellation never cuts a batch short. *)
(* Two runs that write to one transcript are excepted.                      *)
ResumableTranscript ==
    \A s \in Session \ overlapped :
        row[s] \in {"done", "cancelled"} /\ running[s] = NoRun => transcript[s] # "open"

(* A dangerous call is carried out only with its user's consent: an approval *)
(* of that very call, or of its tool for the rest of the run, given by a     *)
(* person and not by a cancellation, a refusal or another session's memory.  *)
ConsentedOnly ==
    [][\A r \in Run :
        pc[r] = "perform" /\ pc'[r] \notin {"perform", "gone"}
            => consent[r][Head(calls[r])] # "never"]_vars

(* Every run whose task is spawned ends, if its user answers the approvals   *)
(* it shows: no parent waits for ever for a child, no child for a slot.  A   *)
(* run whose place another has taken can be answered by nobody, and keeps    *)
(* its slot from all others: nothing is claimed once a session is overlapped.*)
EveryRunEnds ==
    \A r \in Run : pc[r] \notin {"free", "hold"} ~> pc[r] = "gone" \/ overlapped # {}

(* A row that says active without a run behind it (a crash, a database      *)
(* error, a request that failed half way) does not say so for ever.         *)
OrphansAreSwept == \A s \in Session : Orphaned(s) ~> ~Orphaned(s)

(* Work comes to an end, in the process and in the table (_loop, list_sessions).*)
RunsEnd == EveryRunEnds /\ OrphansAreSwept
=============================================================================
