------------------------- MODULE AgentSessionsProofs -------------------------
(***************************************************************************)
(* Agent sessions for any number of clients, sessions and runs and any     *)
(* batches of tool calls.  A dangerous call is carried out only with its    *)
(* user's consent; a parked approval is shown, and what can be resumed has   *)
(* no open calls, except in a session that somebody continued while it was  *)
(* still served (overlapped).                                               *)
(*                                                                         *)
(* All of it speaks of a run that the session has registered.  IInv says    *)
(* what makes that sense: where an answer or a consent may be pending       *)
(* (Trusted), that a run which is still held back, or a child that is still  *)
(* unborn, belongs to one request or parent (Held, Family), and that a       *)
(* session which is not overlapped has at most one run (Served, Single).    *)
(***************************************************************************)
EXTENDS AgentSessions, TLAPS

-----------------------------------------------------------------------------
(* The inductive invariant *)

Places == {"free", "hold", "gate", "begin", "top", "chat", "call", "ask", "park", "perform",
           "born", "unborn", "kid", "render", "enter", "segment", "exec", "gone"}
Statuses == {"none", "deleted"} \cup Active \cup Resumable
Kinds == {"loop", "single", "batch"}
Requests == [at : {"idle", "created", "registered"}, sess : Session \cup {Nobody},
             kind : Kinds, run : Run \cup {NoRun}]

TypeOK ==
    /\ row \in [Session -> Statuses]
    /\ transcript \in [Session -> {"whole", "open", "torn"}]
    /\ running \in [Session -> Run \cup {NoRun}]
    /\ pc \in [Run -> Places]
    /\ kind \in [Run -> Kinds]
    /\ sess \in [Run -> Session \cup {Nobody}]
    /\ parent \in [Run -> Run \cup {NoRun}]
    /\ cancelled \in [Run -> BOOLEAN]
    /\ allowed \in [Run -> SUBSET Dangerous]
    /\ answer \in [Run -> {"none", "open", "yes", "no"}]
    /\ calls \in [Run -> Seq(Tool)]
    /\ steps \in [Run -> Nat]
    /\ kid \in [Run -> Run \cup {NoRun}]
    /\ outcome \in [Run -> {"none", "done", "failed", "cancelled"}]
    /\ consent \in [Run -> [Dangerous -> {"never", "once", "always"}]]
    /\ client \in [Client -> Requests]
    /\ seen \subseteq Session
    /\ server \in {"up", "starting"}
    /\ faults \in Nat
    /\ overlapped \subseteq Session

\* The calls at hand, and what its user has said of them.
InBatch == {"call", "ask", "park", "perform", "born", "kid", "render"}

Trusted(r) ==
    /\ pc[r] \in InBatch => calls[r] # <<>>
    /\ pc[r] \in {"ask", "park", "perform"} => Head(calls[r]) \in Dangerous
    /\ answer[r] # "none" => pc[r] \in {"ask", "park"}
    /\ answer[r] = "open" => Head(calls[r]) \notin allowed[r]
    /\ answer[r] = "yes" \/ pc[r] = "perform" => consent[r][Head(calls[r])] # "never"
    /\ \A t \in allowed[r] : consent[r][t] = "always"

\* A run that is held back is that of the one request that will launch it.
Held(c) ==
    /\ client[c].at # "idle" => client[c].sess \in Session
    /\ client[c].at = "registered" =>
        /\ client[c].run \in Run /\ pc[client[c].run] = "hold"
        /\ sess[client[c].run] = client[c].sess
        /\ \A o \in Client : client[o].at = "registered" /\ client[o].run = client[c].run => o = c

\* A child is unborn as long as its parent has still to start it.
Family(r) ==
    /\ pc[r] = "born" =>
        kid[r] \in Run /\ pc[kid[r]] = "unborn" /\ parent[kid[r]] = r
    /\ pc[r] \in {"kid", "render"} => kid[r] \in Run
    /\ pc[r] \notin {"free", "gone"} => sess[r] \in Session

Consents == (\A r \in Run : Trusted(r) /\ Family(r)) /\ (\A c \in Client : Held(c))

\* A task that is under way, or held back, is the one its session has registered: true of
\* the sessions that are not overlapped, each for itself.
Serving == Places \ {"free", "gone", "unborn"}

Served(r) ==
    /\ pc[r] \in Serving => running[sess[r]] = r
    /\ pc[r] = "unborn" =>
        /\ running[sess[r]] = NoRun /\ row[sess[r]] # "none"
        /\ \A q \in Run : pc[q] = "unborn" /\ sess[q] = sess[r] => q = r
    /\ pc[r] = "park" /\ answer[r] = "open" /\ Exists(sess[r]) => row[sess[r]] = "waiting_approval"

\* A request is alone with its session.
Single(c) ==
    /\ client[c].at # "idle" =>
        /\ row[client[c].sess] # "none"
        /\ \A o \in Client : client[o].sess = client[c].sess => o = c
        /\ \A r \in Run : pc[r] = "unborn" => sess[r] # client[c].sess
    /\ client[c].at = "created" => running[client[c].sess] = NoRun

Owned(s) ==
    /\ running[s] # NoRun => pc[running[s]] \in Serving /\ sess[running[s]] = s /\ row[s] # "none"
    /\ transcript[s] = "open" => running[s] # NoRun /\ pc[running[s]] \in InBatch

Quiet == /\ \A s \in Session : running[s] = NoRun
         /\ \A r \in Run : pc[r] \in {"free", "gone"}
         /\ \A c \in Client : client[c].at = "idle"

Careful ==
    /\ \A r \in Run : sess[r] \notin overlapped => Served(r)
    /\ \A c \in Client :
        /\ client[c].at = "idle" => client[c].sess = Nobody
        /\ client[c].sess \notin overlapped => Single(c)
    /\ \A s \in Session \ overlapped : Owned(s)
    /\ server = "starting" => Quiet

IInv == TypeOK /\ Consents /\ Careful

LEMMA Numbers == NoRun \notin Run /\ Nobody \notin Session
  BY DEF NoRun, Run, Nobody, Session

LEMMA InitIInv == Init => IInv
  <1>. SUFFICES ASSUME Init PROVE IInv
    OBVIOUS
  <1>. USE DEF Init
  <1>1. TypeOK
    <2>1. NoConsent \in [Dangerous -> {"never", "once", "always"}] /\ IdleClient \in Requests
      BY DEF NoConsent, IdleClient, Requests, Kinds
    <2>. QED BY <2>1 DEF TypeOK, Statuses, Places, Kinds
  <1>2. Consents
    BY DEF Consents, Trusted, Family, Held, InBatch, IdleClient
  <1>3. Careful
    BY DEF Careful, Served, Single, Owned, Serving, Places, IdleClient
  <1>. QED BY <1>1, <1>2, <1>3 DEF IInv

-----------------------------------------------------------------------------
(* The types: what the parts of the actions write, and then each action *)

Ends == {"done", "failed", "cancelled"}

LEMMA StatusTyped ==
    ASSUME TypeOK, NEW s, NEW status \in Active \cup Resumable
    PROVE  WithStatus(s, status) \in [Session -> Statuses]
  BY DEF TypeOK, WithStatus, Statuses

LEMMA LeaveTyped ==
    ASSUME TypeOK, NEW r \in Run, NEW status \in Ends, Leave(r, status)
    PROVE  /\ running' \in [Session -> Run \cup {NoRun}]
           /\ kind' \in [Run -> Kinds]
           /\ sess' \in [Run -> Session \cup {Nobody}]
           /\ parent' \in [Run -> Run \cup {NoRun}]
           /\ allowed' \in [Run -> SUBSET Dangerous]
           /\ answer' \in [Run -> {"none", "open", "yes", "no"}]
           /\ calls' \in [Run -> Seq(Tool)]
           /\ steps' \in [Run -> Nat]
           /\ kid' \in [Run -> Run \cup {NoRun}]
           /\ outcome' \in [Run -> {"none", "done", "failed", "cancelled"}]
           /\ consent' \in [Run -> [Dangerous -> {"never", "once", "always"}]]
  <1>1. /\ running' \in [Session -> Run \cup {NoRun}]
        /\ kind' \in [Run -> Kinds] /\ sess' \in [Run -> Session \cup {Nobody}]
        /\ parent' \in [Run -> Run \cup {NoRun}] /\ kid' \in [Run -> Run \cup {NoRun}]
    BY DEF Leave, TypeOK, Kinds
  <1>2. /\ allowed' \in [Run -> SUBSET Dangerous]
        /\ answer' \in [Run -> {"none", "open", "yes", "no"}]
        /\ calls' \in [Run -> Seq(Tool)] /\ steps' \in [Run -> Nat]
    BY DEF Leave, TypeOK
  <1>3. outcome' \in [Run -> {"none", "done", "failed", "cancelled"}]
    BY DEF Leave, TypeOK, Ends
  <1>4. NoConsent \in [Dangerous -> {"never", "once", "always"}]
    BY DEF NoConsent
  <1>5. consent' \in [Run -> [Dangerous -> {"never", "once", "always"}]]
    BY <1>4 DEF Leave, TypeOK
  <1>. QED BY <1>1, <1>2, <1>3, <1>5

LEMMA FinishTyped ==
    ASSUME TypeOK, NEW r \in Run, NEW status \in Ends, Finish(r, status)
    PROVE  TypeOK'
  <1>1. row' \in [Session -> Statuses]
    BY StatusTyped DEF Finish, SetStatus, Ends, Resumable, TypeOK
  <1>2. pc' \in [Run -> Places] /\ cancelled' \in [Run -> BOOLEAN]
    BY DEF Finish, TypeOK, Places
  <1>3. UNCHANGED <<transcript, client, seen, server, faults, overlapped>> /\ Leave(r, status)
    BY DEF Finish, requestVars
  <1>. QED BY <1>1, <1>2, <1>3, LeaveTyped DEF TypeOK

LEMMA AnsweredTyped ==
    ASSUME TypeOK, NEW r \in Run, calls[r] # <<>>, NEW left, Answered(r, left)
    PROVE  /\ calls' \in [Run -> Seq(Tool)]
           /\ pc' \in [Run -> Places]
           /\ transcript' \in [Session -> {"whole", "open", "torn"}]
  <1>1. Tail(calls[r]) \in Seq(Tool)
    BY DEF TypeOK
  <1>2. calls' \in [Run -> Seq(Tool)]
    BY <1>1 DEF TypeOK, Answered
  <1>3. pc' \in [Run -> Places]
    BY DEF TypeOK, Answered, Places
  <1>4. transcript' \in [Session -> {"whole", "open", "torn"}]
    BY DEF TypeOK, Answered
  <1>. QED BY <1>2, <1>3, <1>4

LEMMA AbandonTyped ==
    ASSUME TypeOK, NEW r \in Run, calls[r] # <<>>, Abandon(r)
    PROVE  TypeOK'
  <1>1. /\ kid' \in [Run -> Run \cup {NoRun}]
        /\ outcome' \in [Run -> {"none", "done", "failed", "cancelled"}]
        /\ cancelled' \in [Run -> BOOLEAN]
    BY DEF Abandon, TypeOK
  <1>2. /\ Answered(r, reserved[r])
        /\ UNCHANGED <<row, running, kind, sess, parent, allowed, answer, steps, consent,
                       client, seen, server, faults, overlapped>>
    BY DEF Abandon, requestVars
  <1>. QED BY <1>1, <1>2, AnsweredTyped DEF TypeOK

\* Requests.
LEMMA SubmitTyped == ASSUME TypeOK, NEW c \in Client, Submit(c) PROVE TypeOK'
  <1>. PICK s \in Session : \/ \E k \in Kind : Create(c, s, k) \/ Followup(c, s, k)
                            \/ Admit(c, s)
    BY DEF Submit
  <1>. Kind \subseteq Kinds
    BY AgentAssumption DEF AgentAssumption, Kinds
  <1>1. ASSUME NEW k \in Kind, Create(c, s, k) PROVE TypeOK'
    BY <1>1 DEF TypeOK, Create, memory, Requests, Statuses, Active
  <1>2. ASSUME NEW k \in Kind, Followup(c, s, k) PROVE TypeOK'
    BY <1>2 DEF TypeOK, Followup, Continues, NewRun, loopVars, Requests, Places
  <1>3. CASE Admit(c, s)
    BY <1>3 DEF TypeOK, Admit, Continues, memory, Requests, Kinds
  <1>. QED BY <1>1, <1>2, <1>3

LEMMA EnlistTyped == ASSUME TypeOK, NEW c \in Client, Enlist(c) PROVE TypeOK'
  <1>. PICK r \in Run :
        /\ NewRun(r, client[c].sess, client[c].kind, NoRun)
        /\ running' = [running EXCEPT ![client[c].sess] = r]
        /\ pc' = [pc EXCEPT ![r] = IF client[c].kind = "batch" THEN "hold" ELSE Entry(client[c].kind)]
        /\ client' = [client EXCEPT ![c] =
                IF client[c].kind = "batch"
                THEN [at |-> "registered", sess |-> client[c].sess, kind |-> client[c].kind, run |-> r]
                ELSE IdleClient]
    BY DEF Enlist
  <1>1. UNCHANGED <<row, transcript, cancelled, allowed, answer, calls, steps, kid, consent,
                    outcome, seen, server, faults, overlapped>>
    BY DEF Enlist, loopVars
  <1>2. client[c].sess \in Session \cup {Nobody} /\ client[c].kind \in Kinds
    BY DEF TypeOK, Requests
  <1>3. client' \in [Client -> Requests]
    BY <1>2 DEF TypeOK, IdleClient, Requests, Kinds
  <1>4. /\ kind' \in [Run -> Kinds] /\ sess' \in [Run -> Session \cup {Nobody}]
        /\ parent' \in [Run -> Run \cup {NoRun}]
    BY <1>2 DEF TypeOK, NewRun
  <1>5. pc' \in [Run -> Places] /\ running' \in [Session -> Run \cup {NoRun}]
    BY <1>2 DEF TypeOK, Entry, Places
  <1>. QED BY <1>1, <1>3, <1>4, <1>5 DEF TypeOK

LEMMA ProceedTyped == ASSUME TypeOK, NEW c \in Client, Proceed(c) PROVE TypeOK'
  <1>1. CASE CreateFails(c) \/ FollowupFails(c)
    <2>1. IdleClient \in Requests
      BY DEF IdleClient, Requests, Kinds
    <2>2. client' = [client EXCEPT ![c] = IdleClient]
      BY <1>1 DEF CreateFails, FollowupFails
    <2>3. UNCHANGED <<row, transcript, memory, seen, server, faults, overlapped>>
      BY <1>1 DEF CreateFails, FollowupFails
    <2>. QED BY <2>1, <2>2, <2>3 DEF TypeOK, memory
  <1>2. CASE Launch(c)
    <2>1. row' \in [Session -> Statuses]
      BY <1>2, StatusTyped DEF Launch, SetStatus, Active
    <2>. QED BY <1>2, <2>1 DEF TypeOK, Launch, Entry, Places, loopVars, IdleClient, Requests, Kinds
  <1>. QED BY <1>1, <1>2, EnlistTyped DEF Proceed

LEMMA DecideTyped ==
    ASSUME TypeOK, Consents, NEW s \in Session, NEW approved \in BOOLEAN, NEW remember \in BOOLEAN,
           Decide(s, approved, remember)
    PROVE  TypeOK'
  <1>1. running[s] \in Run /\ answer[running[s]] = "open"
    BY DEF Decide, TypeOK
  <1>2. Head(calls[running[s]]) \in Dangerous
    BY <1>1 DEF Consents, Trusted
  <1>. QED BY <1>1, <1>2 DEF TypeOK, Decide, Resolve, requestVars

LEMMA RequestTyped ==
    ASSUME TypeOK, NEW s \in Session, Cancel(s) \/ Delete(s) \/ SessionDetail(s)
    PROVE  TypeOK'
  <1>1. CASE Cancel(s)
    <2>1. row' \in [Session -> Statuses]
      BY <1>1, StatusTyped DEF Cancel, SetStatus, Resumable, TypeOK
    <2>2. cancelled' \in [Run -> BOOLEAN]
      BY <1>1 DEF Cancel, TypeOK
    <2>3. answer' \in [Run -> {"none", "open", "yes", "no"}]
      <3>1. answer' = answer \/ DenyAll(running[s])
        BY <1>1 DEF Cancel
      <3>2. answer \in [Run -> {"none", "open", "yes", "no"}]
        BY DEF TypeOK
      <3>3. DenyAll(running[s]) => answer' \in [Run -> {"none", "open", "yes", "no"}]
        BY <3>2 DEF DenyAll
      <3>. QED BY <3>1, <3>2, <3>3
    <2>. QED BY <1>1, <2>1, <2>2, <2>3 DEF TypeOK, Cancel, requestVars
  <1>2. CASE Delete(s)
    BY <1>2 DEF TypeOK, Delete, memory, requestVars, Statuses
  <1>3. CASE SessionDetail(s)
    BY <1>3, StatusTyped DEF TypeOK, SessionDetail, SetStatus, Resumable, memory, requestVars
  <1>. QED BY <1>1, <1>2, <1>3

LEMMA ListingTyped == ASSUME TypeOK, ListSessions \/ ListNext \/ Startup PROVE TypeOK'
  <1>1. CASE ListSessions
    BY <1>1, StatusTyped DEF TypeOK, ListSessions, SetStatus, Resumable, memory
  <1>2. CASE ListNext
    BY <1>2, StatusTyped DEF TypeOK, ListNext, SetStatus, Resumable, memory
  <1>3. CASE Startup
    BY <1>3 DEF TypeOK, Startup, memory, Statuses, Resumable
  <1>. QED BY <1>1, <1>2, <1>3

LEMMA CrashTyped == ASSUME TypeOK, Crash PROVE TypeOK'
  BY DEF TypeOK, Crash, Places, NoConsent, IdleClient, Requests, Kinds

\* What the task of a run does.
LEMMA LoopTyped ==
    ASSUME TypeOK, NEW r \in Run,
           \/ EnterGate(r) \/ Begin(r) \/ Top(r) \/ ChatFails(r) \/ ChatEnds(r)
           \/ \E batch \in Batch : ChatCalls(r, batch)
    PROVE  TypeOK'
  <1>1. CASE EnterGate(r)
    BY <1>1 DEF TypeOK, EnterGate, loopVars, requestVars, Places
  <1>2. CASE Begin(r)
    BY <1>2, StatusTyped DEF TypeOK, Begin, SetStatus, Active, loopVars, requestVars, Places
  <1>3. CASE Top(r)
    <2>1. CASE Finish(r, "cancelled") \/ Finish(r, "done")
      BY <2>1, FinishTyped DEF Ends
    <2>2. CASE /\ pc' = [pc EXCEPT ![r] = "chat"]
               /\ UNCHANGED <<row, transcript, running, kind, sess, parent, cancelled,
                              loopVars, live, outcome, requestVars>>
      BY <2>2 DEF TypeOK, loopVars, requestVars, Places
    <2>. QED BY <1>3, <2>1, <2>2 DEF Top
  <1>4. CASE ChatFails(r) \/ ChatEnds(r)
    BY <1>4, FinishTyped DEF ChatFails, ChatEnds, Ends
  <1>5. ASSUME NEW batch \in Batch, ChatCalls(r, batch) PROVE TypeOK'
    <2>1. batch \in Seq(Tool)
      BY AgentAssumption DEF AgentAssumption
    <2>2. row' \in [Session -> Statuses]
      BY <1>5, StatusTyped DEF ChatCalls, SetStatus, Active
    <2>3. pc' \in [Run -> Places] /\ steps' \in [Run -> Nat]
      BY <1>5 DEF TypeOK, ChatCalls, Places
    <2>4. /\ calls' \in [Run -> Seq(Tool)]
          /\ transcript' \in [Session -> {"whole", "open", "torn"}]
      BY <1>5, <2>1 DEF TypeOK, ChatCalls
    <2>. QED BY <1>5, <2>2, <2>3, <2>4 DEF TypeOK, ChatCalls, requestVars
  <1>. QED BY <1>1, <1>2, <1>3, <1>4, <1>5

LEMMA CallTyped ==
    ASSUME TypeOK, Consents, NEW r \in Run,
           CallAtOnce(r) \/ CallDangerous(r) \/ Ask(r) \/ Wake(r) \/ Perform(r)
    PROVE  TypeOK'
  <1>. pc[r] \in InBatch => calls[r] # <<>>
    BY DEF Consents, Trusted
  <1>1. CASE CallAtOnce(r)
    BY <1>1, AnsweredTyped DEF TypeOK, CallAtOnce, requestVars, InBatch
  <1>2. CASE CallDangerous(r)
    BY <1>2 DEF TypeOK, CallDangerous, requestVars, Places
  <1>3. CASE Ask(r)
    BY <1>3, StatusTyped DEF TypeOK, Ask, SetStatus, Active, loopVars, requestVars, Places
  <1>4. CASE Wake(r)
    <2>1. row' \in [Session -> Statuses]
      BY <1>4, StatusTyped DEF Wake, SetStatus, Active
    <2>2. answer' \in [Run -> {"none", "open", "yes", "no"}]
      BY <1>4 DEF Wake, TypeOK
    <2>3. /\ calls' \in [Run -> Seq(Tool)] /\ pc' \in [Run -> Places]
          /\ transcript' \in [Session -> {"whole", "open", "torn"}]
      BY <1>4, AnsweredTyped DEF Wake, TypeOK, InBatch, Places
    <2>. QED BY <1>4, <2>1, <2>2, <2>3 DEF Wake, TypeOK, requestVars
  <1>5. CASE Perform(r)
    <2>1. consent' \in [Run -> [Dangerous -> {"never", "once", "always"}]]
      <3>1. consent \in [Run -> [Dangerous -> {"never", "once", "always"}]]
        BY DEF TypeOK
      <3>2. consent' = [consent EXCEPT ![r][Head(calls[r])] = IF @ = "once" THEN "never" ELSE @]
        BY <1>5 DEF Perform
      <3>. QED BY <3>1, <3>2
    <2>. QED BY <1>5, <2>1, AnsweredTyped DEF TypeOK, Perform, requestVars, InBatch
  <1>. QED BY <1>1, <1>2, <1>3, <1>4, <1>5

LEMMA ChildTyped ==
    ASSUME TypeOK, Consents, NEW r \in Run,
           \/ \E q \in Run, s \in Session : SpawnChild(r, q, s)
           \/ ChildStarts(r) \/ ChildParked(r) \/ ChildFails(r) \/ ChildDone(r) \/ Render(r)
    PROVE  TypeOK'
  <1>1. ASSUME NEW q \in Run, NEW s \in Session, SpawnChild(r, q, s) PROVE TypeOK'
    <2>1. row' \in [Session -> Statuses] /\ pc' \in [Run -> Places]
      BY <1>1 DEF SpawnChild, TypeOK, Statuses, Active, Places
    <2>2. /\ sess' \in [Run -> Session \cup {Nobody}] /\ kind' \in [Run -> Kinds]
          /\ parent' \in [Run -> Run \cup {NoRun}] /\ kid' \in [Run -> Run \cup {NoRun}]
      BY <1>1 DEF SpawnChild, NewRun, TypeOK, Kinds
    <2>. QED BY <1>1, <2>1, <2>2 DEF TypeOK, SpawnChild, requestVars
  <1>2. CASE ChildStarts(r)
    BY <1>2 DEF TypeOK, ChildStarts, loopVars, requestVars, Places
  <1>3. CASE ChildParked(r) \/ ChildFails(r) \/ Render(r)
    BY <1>3, AbandonTyped DEF ChildParked, ChildFails, Render, Consents, Trusted, InBatch
  <1>4. CASE ChildDone(r)
    BY <1>4 DEF TypeOK, ChildDone, loopVars, requestVars, Places
  <1>. QED BY <1>1, <1>2, <1>3, <1>4

LEMMA DelegationTyped ==
    ASSUME TypeOK, NEW r \in Run, EnterSpace(r) \/ Segment(r) \/ ExecSingle(r) \/ ExecSegment(r)
    PROVE  TypeOK'
  <1>1. CASE \E status \in Ends : Finish(r, status)
    BY <1>1, FinishTyped
  <1>2. CASE /\ pc' = [pc EXCEPT ![r] = "exec"]
             /\ UNCHANGED <<row, transcript, running, kind, sess, parent, cancelled,
                            loopVars, live, outcome, requestVars>>
    BY <1>2 DEF TypeOK, loopVars, requestVars, Places
  <1>3. CASE /\ SetStatus(sess[r], "running") /\ pc' = [pc EXCEPT ![r] = "segment"]
             /\ UNCHANGED <<transcript, running, kind, sess, parent, cancelled, loopVars,
                            live, outcome, requestVars>>
    BY <1>3, StatusTyped DEF TypeOK, SetStatus, Active, loopVars, requestVars, Places
  <1>4. CASE /\ steps' = [steps EXCEPT ![r] = @ + 1] /\ pc' = [pc EXCEPT ![r] = "segment"]
             /\ UNCHANGED <<row, transcript, running, kind, sess, parent, cancelled, allowed,
                            answer, calls, live, reserved, spawned, kid, outcome, consent,
                            requestVars>>
    BY <1>4 DEF TypeOK, requestVars, Places
  <1>5. CASE EnterSpace(r)
    BY <1>5, <1>1, <1>3 DEF EnterSpace, Ends
  <1>6. CASE Segment(r)
    BY <1>6, <1>1, <1>2 DEF Segment, Ends
  <1>7. CASE ExecSingle(r)
    BY <1>7, <1>1 DEF ExecSingle, Ends
  <1>8. CASE ExecSegment(r)
    BY <1>8, <1>1, <1>4 DEF ExecSegment, Ends
  <1>. QED BY <1>5, <1>6, <1>7, <1>8

LEMMA BreakTyped == ASSUME TypeOK, NEW r \in Run, TaskBreaks(r) PROVE TypeOK'
  <1>1. row' \in [Session -> Statuses]
    BY StatusTyped DEF TaskBreaks, SetStatus, Resumable, TypeOK
  <1>2. cancelled' = [cancelled EXCEPT ![r] = FALSE] /\ faults' = faults + 1
    BY DEF TaskBreaks
  <1>3. cancelled' \in [Run -> BOOLEAN] /\ faults' \in Nat
    BY <1>2 DEF TypeOK
  <1>4. transcript' = [transcript EXCEPT ![sess[r]] = IF @ = "open" THEN "torn" ELSE @]
    BY DEF TaskBreaks
  <1>5. transcript' \in [Session -> {"whole", "open", "torn"}]
    BY <1>4 DEF TypeOK
  <1>6. pc' \in [Run -> Places]
    BY DEF TaskBreaks, TypeOK, Places
  <1>7. Leave(r, "failed") /\ UNCHANGED <<client, seen, server, overlapped>>
    BY DEF TaskBreaks
  <1>. QED BY <1>1, <1>3, <1>5, <1>6, <1>7, LeaveTyped DEF TypeOK, Ends

LEMMA StepTyped == ASSUME TypeOK, Consents, [Next]_vars PROVE TypeOK'
  <1>1. CASE UNCHANGED vars
    BY <1>1 DEF TypeOK, vars, memory
  <1>2. ASSUME NEW c \in Client, Submit(c) \/ Proceed(c) PROVE TypeOK'
    BY <1>2, SubmitTyped, ProceedTyped
  <1>3. ASSUME NEW s \in Session, Cancel(s) \/ Delete(s) \/ SessionDetail(s) PROVE TypeOK'
    BY <1>3, RequestTyped
  <1>4. ASSUME NEW s \in Session, NEW approved \in BOOLEAN, NEW remember \in BOOLEAN,
               Decide(s, approved, remember)
        PROVE  TypeOK'
    BY <1>4, DecideTyped
  <1>5. ASSUME NEW r \in Run, EnterGate(r) \/ Advance(r) PROVE TypeOK'
    BY <1>5, LoopTyped, CallTyped, ChildTyped, DelegationTyped DEF Advance
  <1>6. ASSUME NEW r \in Run, TaskBreaks(r) PROVE TypeOK'
    BY <1>6, BreakTyped
  <1>. QED BY <1>1, <1>2, <1>3, <1>4, <1>5, <1>6, ListingTyped, CrashTyped DEF Next

-----------------------------------------------------------------------------
(* Steps that only concern one run *)

\* Nothing of another run changes, and a row or transcript at most that of the run's session;
\* the run goes on, and is not launched or stopped by it.
OwnStep(r) ==
    /\ \A q \in Run : q # r =>
        /\ pc'[q] = pc[q] /\ calls'[q] = calls[q] /\ answer'[q] = answer[q]
        /\ allowed'[q] = allowed[q] /\ consent'[q] = consent[q] /\ kid'[q] = kid[q]
    /\ pc'[r] = pc[r] \/ {pc[r], pc'[r]} \subseteq Serving \ {"hold", "born"}
    /\ UNCHANGED <<running, sess, parent, client, server, overlapped>>
    /\ \A s \in Session : s # sess[r] => row'[s] = row[s] /\ transcript'[s] = transcript[s]
    /\ \A s \in Session : row'[s] = "none" <=> row[s] = "none"

\* What it shows of itself: the status of a parked run, and open calls while it is in a batch.
Shown(r) ==
    /\ pc[r] = "park" /\ answer[r] = "open" /\ Exists(sess[r]) => row[sess[r]] = "waiting_approval"
    /\ transcript[sess[r]] = "open" => pc[r] \in InBatch

LEMMA OwnConsents ==
    ASSUME TypeOK, TypeOK', Consents, NEW r \in Run, OwnStep(r), Trusted(r)', Family(r)'
    PROVE  Consents'
  <1>1. ASSUME NEW q \in Run, q # r PROVE Trusted(q)'
    BY <1>1 DEF Consents, Trusted, OwnStep
  <1>2. ASSUME NEW q \in Run, q # r PROVE Family(q)'
    BY <1>2 DEF Consents, Family, OwnStep, Serving
  <1>3. ASSUME NEW c \in Client PROVE Held(c)'
    BY DEF Consents, Held, OwnStep
  <1>. QED BY <1>1, <1>2, <1>3 DEF Consents

LEMMA OwnCareful ==
    ASSUME TypeOK, TypeOK', Consents, Careful, NEW r \in Run, OwnStep(r),
           sess[r] \notin overlapped => pc[r] \in Serving /\ Shown(r)', server # "starting"
    PROVE  Careful'
  <1>. sess[r] \notin overlapped =>
            sess[r] \in Session /\ running[sess[r]] = r /\ pc'[r] \in Serving
    BY DEF Consents, Family, Careful, Served, Serving, OwnStep, TypeOK
  <1>. UNCHANGED <<overlapped, sess, running, client>>
    BY DEF OwnStep
  <1>1. ASSUME NEW q \in Run, sess[q] \notin overlapped PROVE Served(q)'
    <2>1. CASE q = r
      BY <1>1, <2>1 DEF Served, Shown, Serving, OwnStep
    <2>2. CASE q # r /\ pc[q] = "unborn"
      <3>1. \A o \in Run : pc'[o] = "unborn" => pc[o] = "unborn"
        BY DEF OwnStep, Serving
      <3>2. Served(q) /\ pc'[q] = "unborn" /\ sess[q] \in Session
        BY <1>1, <2>2 DEF Careful, Consents, Family, OwnStep
      <3>. QED BY <2>2, <3>1, <3>2 DEF Served, OwnStep, Serving
    <2>3. CASE q # r /\ pc[q] # "unborn"
      <3>1. pc[q] \in Serving => running[sess[q]] = q /\ sess[q] # sess[r] /\ sess[q] \in Session
        BY <1>1, <2>3 DEF Careful, Served, Consents, Family, Serving
      <3>2. pc'[q] = pc[q] /\ answer'[q] = answer[q]
        BY <2>3 DEF OwnStep
      <3>3. pc[q] = "park" => row'[sess[q]] = row[sess[q]]
        BY <3>1 DEF OwnStep, Serving, Places
      <3>. QED BY <1>1, <2>3, <3>1, <3>2, <3>3 DEF Careful, Served, Exists, Serving, Places
    <2>. QED BY <2>1, <2>2, <2>3
  <1>2. ASSUME NEW c \in Client, client[c].sess \notin overlapped PROVE Single(c)'
    <2>1. Single(c) /\ (client[c].at # "idle" => client[c].sess \in Session)
      BY <1>2 DEF Careful, Consents, Held
    <2>2. \A q \in Run : pc'[q] = "unborn" => pc[q] = "unborn"
      BY DEF OwnStep, Serving
    <2>. QED BY <2>1, <2>2 DEF Single, OwnStep
  <1>3. ASSUME NEW s \in Session \ overlapped PROVE Owned(s)'
    <2>1. CASE s = sess[r]
      BY <2>1, Numbers DEF Careful, Owned, OwnStep, Shown
    <2>2. CASE s # sess[r]
      <3>1. Owned(s) /\ running[s] # r /\ running[s] \in Run \cup {NoRun}
        BY <2>2, Numbers DEF Careful, Owned, TypeOK
      <3>. QED BY <2>2, <3>1 DEF Owned, OwnStep
    <2>. QED BY <2>1, <2>2
  <1>4. server' # "starting"
    BY DEF OwnStep
  <1>. QED BY <1>1, <1>2, <1>3, <1>4 DEF Careful

\* Nothing is under way before the service has started.
LEMMA Started == ASSUME IInv, NEW r \in Run, pc[r] \notin {"free", "gone"} PROVE server # "starting"
  BY DEF IInv, Careful, Quiet

\* The two together, as they are used.
LEMMA Own ==
    ASSUME TypeOK', IInv, NEW r \in Run, OwnStep(r), pc[r] \in Serving, Trusted(r)', Family(r)', Shown(r)'
    PROVE  IInv'
  BY OwnConsents, OwnCareful, Started DEF IInv, Serving

\* Nobody else's session has open calls or an approval when this run has none.
LEMMA NothingOpen ==
    ASSUME IInv, NEW r \in Run, pc[r] \in Serving \ InBatch, sess[r] \notin overlapped
    PROVE  transcript[sess[r]] # "open"
  BY DEF IInv, Consents, Family, Careful, Served, Owned, Serving

-----------------------------------------------------------------------------
(* The end of a run *)

LEMMA Leaving ==
    ASSUME TypeOK', IInv, NEW r \in Run, NEW status \in Ends,
           pc[r] \in Serving \ {"hold"}, Leave(r, status),
           pc' = [q \in Run |-> IF q = r \/ (pc[r] = "born" /\ q = kid[r]) THEN "gone" ELSE pc[q]],
           \A s \in Session : s # sess[r] => row'[s] = row[s] /\ transcript'[s] = transcript[s],
           \A s \in Session : row'[s] = "none" <=> row[s] = "none",
           sess[r] \notin overlapped => transcript'[sess[r]] # "open",
           UNCHANGED <<client, server, overlapped>>
    PROVE  IInv'
  <1>. /\ TypeOK /\ Consents /\ sess[r] \in Session /\ pc[r] # "unborn" /\ pc'[r] = "gone"
       /\ sess' = sess /\ running' = [running EXCEPT ![sess[r]] = NoRun]
    BY DEF IInv, Consents, Family, Serving, Leave
  <1>1. ASSUME NEW q \in Run PROVE Trusted(q)'
    <2>1. /\ q = r => answer'[q] = "none" /\ allowed'[q] = {}
          /\ q # r => answer'[q] = answer[q] /\ allowed'[q] = allowed[q]
                        /\ calls'[q] = calls[q] /\ consent'[q] = consent[q]
      BY DEF Leave, TypeOK
    <2>2. pc'[q] = "gone" \/ (q # r /\ pc'[q] = pc[q])
      OBVIOUS
    <2>3. pc'[q] = "gone" /\ q # r => pc[q] = "unborn" \/ pc[q] = "gone"
      BY DEF Consents, Family
    <2>. QED BY <2>1, <2>2, <2>3 DEF Consents, Trusted, InBatch
  <1>2. ASSUME NEW q \in Run PROVE Family(q)'
    <2>1. q # r => kid'[q] = kid[q]
      BY DEF Leave, TypeOK
    <2>2. CASE pc'[q] = "gone"
      BY <2>2 DEF Family
    <2>3. CASE q # r /\ pc'[q] = pc[q]
      <3>1. pc[q] = "born" => /\ kid[q] \in Run /\ pc[kid[q]] = "unborn" /\ parent[kid[q]] = q
                              /\ kid[q] # r /\ ~(pc[r] = "born" /\ kid[q] = kid[r])
        BY <2>3 DEF Consents, Family
      <3>2. pc[q] = "born" => pc'[kid[q]] = "unborn" /\ parent'[kid[q]] = q
        BY <3>1 DEF Leave, TypeOK
      <3>. QED BY <2>1, <2>3, <3>1, <3>2 DEF Consents, Family
    <2>. QED BY <2>2, <2>3
  <1>3. ASSUME NEW c \in Client PROVE Held(c)'
    BY DEF Consents, Held, Family, Serving
  <1>4. Careful'
    <2>. Careful /\ (sess[r] \notin overlapped => running[sess[r]] = r)
      BY DEF IInv, Careful, Served
    <2>1. ASSUME NEW q \in Run, sess[q] \notin overlapped PROVE Served(q)'
      <3>. Served(q)
        BY <2>1 DEF Careful
      <3>1. CASE pc'[q] = "gone"
        BY <3>1 DEF Served, Serving
      <3>2. CASE q # r /\ pc'[q] = pc[q] /\ pc[q] = "unborn"
        <4>1. sess[q] # sess[r] /\ sess[q] \in Session
          BY <2>1, <3>2, Numbers DEF Served, Consents, Family
        <4>. QED BY <3>2, <4>1 DEF Served, Serving, TypeOK
      <3>3. CASE q # r /\ pc'[q] = pc[q] /\ pc[q] \in Serving
        <4>1. sess[q] # sess[r] /\ sess[q] \in Session
          BY <2>1, <3>3 DEF Served, Consents, Family, Serving
        <4>2. answer'[q] = answer[q] /\ row'[sess[q]] = row[sess[q]] /\ running'[sess[q]] = q
          BY <3>3, <4>1 DEF Leave, TypeOK, Served
        <4>. QED BY <3>3, <4>1, <4>2 DEF Served, Exists, Serving
      <3>4. CASE q # r /\ pc'[q] = pc[q] /\ pc[q] \in {"free", "gone"}
        BY <3>4 DEF Served, Serving
      <3>. QED BY <3>1, <3>2, <3>3, <3>4 DEF TypeOK, Serving
    <2>2. ASSUME NEW c \in Client, client[c].sess \notin overlapped PROVE Single(c)'
      <3>1. Single(c) /\ (client[c].at # "idle" => client[c].sess \in Session)
        BY <2>2 DEF Careful, Consents, Held
      <3>. QED BY <3>1 DEF Single, TypeOK
    <2>3. ASSUME NEW s \in Session \ overlapped PROVE Owned(s)'
      <3>1. CASE s = sess[r]
        BY <3>1 DEF Owned, TypeOK
      <3>2. CASE s # sess[r]
        <4>1. running'[s] = running[s] /\ Owned(s) /\ running[s] \in Run \cup {NoRun}
          BY <3>2 DEF TypeOK, Careful
        <4>2. running[s] # NoRun => running[s] # r /\ pc'[running[s]] = pc[running[s]]
          BY <3>2, <4>1 DEF Owned, Consents, Family, Serving
        <4>. QED BY <3>2, <4>1, <4>2 DEF Owned
      <3>. QED BY <3>1, <3>2
    <2>4. server' # "starting"
      BY DEF Careful, Quiet, Serving
    <2>. QED BY <2>1, <2>2, <2>3, <2>4 DEF Careful
  <1>. QED BY <1>1, <1>2, <1>3, <1>4 DEF IInv, Consents

LEMMA Finishing ==
    ASSUME TypeOK', IInv, NEW r \in Run, NEW status \in Ends,
           pc[r] \in Serving \ (InBatch \cup {"hold"}), Finish(r, status)
    PROVE  IInv'
  <1>1. /\ Leave(r, status) /\ UNCHANGED <<transcript, client, server, overlapped>>
        /\ pc' = [q \in Run |-> IF q = r \/ (pc[r] = "born" /\ q = kid[r]) THEN "gone" ELSE pc[q]]
    BY DEF Finish, requestVars, IInv, TypeOK, InBatch
  <1>2. /\ \A s \in Session : s # sess[r] => row'[s] = row[s] /\ transcript'[s] = transcript[s]
        /\ \A s \in Session : row'[s] = "none" <=> row[s] = "none"
    BY DEF Finish, SetStatus, WithStatus, Exists, IInv, TypeOK, Ends, requestVars
  <1>. QED BY <1>1, <1>2, NothingOpen, Leaving

LEMMA Breaking == ASSUME TypeOK', IInv, NEW r \in Run, TaskBreaks(r) PROVE IInv'
  <1>1. pc[r] \in Serving \ {"hold"} /\ "failed" \in Ends /\ sess[r] \in Session
    BY DEF TaskBreaks, Breakable, Serving, Places, IInv, Consents, Family, Ends
  <1>2. /\ Leave(r, "failed") /\ UNCHANGED <<client, server, overlapped>>
        /\ pc' = [q \in Run |-> IF q = r \/ (pc[r] = "born" /\ q = kid[r]) THEN "gone" ELSE pc[q]]
    BY DEF TaskBreaks
  <1>3. /\ \A s \in Session : s # sess[r] => row'[s] = row[s]
        /\ \A s \in Session : row'[s] = "none" <=> row[s] = "none"
    BY DEF TaskBreaks, SetStatus, WithStatus, Exists, IInv, TypeOK
  <1>4. /\ \A s \in Session : s # sess[r] => transcript'[s] = transcript[s]
        /\ transcript'[sess[r]] # "open"
    BY <1>1 DEF TaskBreaks, IInv, TypeOK
  <1>. QED BY <1>1, <1>2, <1>3, <1>4, Leaving

-----------------------------------------------------------------------------
(* What the task of a run does next *)

\* Outside of its batches a run goes from one place to the next.
LEMMA Onward ==
    ASSUME TypeOK', IInv, NEW r \in Run, pc[r] \in Serving \ (InBatch \cup {"hold"}),
           NEW to \in {"begin", "top", "chat", "segment", "exec"}, pc' = [pc EXCEPT ![r] = to],
           UNCHANGED row \/ SetStatus(sess[r], "running"),
           UNCHANGED <<transcript, calls, answer, allowed, consent, kid, running, sess, parent,
                       client, server, overlapped>>
    PROVE  IInv'
  <1>1. pc'[r] = to /\ to \in Serving \ {"hold", "born", "unborn", "park"}
    BY DEF IInv, TypeOK, Serving, Places
  <1>2. \A s \in Session : (s # sess[r] => row'[s] = row[s]) /\ (row'[s] = "none" <=> row[s] = "none")
    BY DEF SetStatus, WithStatus, Exists, IInv, TypeOK
  <1>3. OwnStep(r)
    BY <1>1, <1>2 DEF OwnStep, IInv, TypeOK, InBatch
  <1>4. Trusted(r)' /\ Family(r)'
    BY <1>1 DEF IInv, Consents, Trusted, Family, InBatch, Serving
  <1>5. sess[r] \notin overlapped => Shown(r)'
    BY <1>1, NothingOpen DEF Shown
  <1>. QED BY <1>3, <1>4, <1>5, OwnConsents, OwnCareful, Started DEF IInv, Serving

\* The call at hand has its result.
LEMMA CallEnds ==
    ASSUME TypeOK', IInv, NEW r \in Run, pc[r] \in InBatch \ {"born"}, NEW left, Answered(r, left),
           UNCHANGED row \/ SetStatus(sess[r], "running"),
           answer'[r] = "none", \A q \in Run : q # r => answer'[q] = answer[q] /\ kid'[q] = kid[q],
           \A q \in Run : q # r => consent'[q] = consent[q],
           \A t \in allowed[r] : consent'[r][t] = "always",
           UNCHANGED <<allowed, running, sess, parent, client, server, overlapped>>
    PROVE  IInv'
  <1>1. /\ pc' = [pc EXCEPT ![r] = IF Tail(calls[r]) = <<>> THEN "top" ELSE "call"]
        /\ calls' = [calls EXCEPT ![r] = Tail(calls[r])]
        /\ transcript' = [transcript EXCEPT ![sess[r]] =
                            IF Tail(calls[r]) = <<>> /\ @ = "open" THEN "whole" ELSE @]
    BY DEF Answered
  <1>2. /\ TypeOK /\ sess[r] \in Session
        /\ pc'[r] = IF Tail(calls[r]) = <<>> THEN "top" ELSE "call"
        /\ calls'[r] = Tail(calls[r])
        /\ Tail(calls[r]) = <<>> => transcript'[sess[r]] # "open"
    BY <1>1, SMTT(30) DEF IInv, TypeOK, Consents, Family, InBatch
  <1>3. \A s \in Session : (s # sess[r] => row'[s] = row[s]) /\ (row'[s] = "none" <=> row[s] = "none")
    BY <1>2 DEF SetStatus, WithStatus, Exists, TypeOK
  <1>4. OwnStep(r)
    <2>1. {pc[r], pc'[r]} \subseteq Serving \ {"hold", "born"}
      BY <1>2 DEF Serving, Places, InBatch
    <2>2. \A q \in Run : q # r => pc'[q] = pc[q] /\ calls'[q] = calls[q]
      BY <1>1, <1>2 DEF TypeOK
    <2>3. \A s \in Session : s # sess[r] => transcript'[s] = transcript[s]
      BY <1>1, <1>2 DEF TypeOK
    <2>. QED BY <1>3, <2>1, <2>2, <2>3 DEF OwnStep
  <1>5. Trusted(r)'
    BY <1>2 DEF Trusted, InBatch
  <1>6. Family(r)' /\ Shown(r)' /\ pc[r] \in Serving
    BY <1>2 DEF Family, Shown, InBatch, Serving, Places
  <1>. QED BY <1>4, <1>5, <1>6, Own

LEMMA LoopKeeps ==
    ASSUME TypeOK', IInv, NEW r \in Run,
           \/ EnterGate(r) \/ Begin(r) \/ Top(r) \/ ChatFails(r) \/ ChatEnds(r)
           \/ \E batch \in Batch : ChatCalls(r, batch)
    PROVE  IInv'
  <1>1. CASE EnterGate(r)
    BY <1>1, Onward DEF EnterGate, loopVars, requestVars, Serving, Places, InBatch
  <1>2. CASE Begin(r)
    BY <1>2, Onward DEF Begin, loopVars, requestVars, Serving, Places, InBatch
  <1>3. CASE Top(r)
    <2>1. pc[r] \in Serving \ (InBatch \cup {"hold"})
      BY <1>3 DEF Top, Serving, Places, InBatch
    <2>2. CASE Finish(r, "cancelled") \/ Finish(r, "done")
      BY <2>1, <2>2, Finishing DEF Ends
    <2>3. CASE /\ pc' = [pc EXCEPT ![r] = "chat"]
               /\ UNCHANGED <<row, transcript, running, kind, sess, parent, cancelled,
                              loopVars, live, outcome, requestVars>>
      BY <2>1, <2>3, Onward DEF loopVars, requestVars
    <2>. QED BY <1>3, <2>2, <2>3 DEF Top
  <1>4. CASE ChatFails(r) \/ ChatEnds(r)
    BY <1>4, Finishing DEF ChatFails, ChatEnds, Ends, Serving, Places, InBatch
  <1>5. ASSUME NEW batch \in Batch, ChatCalls(r, batch) PROVE IInv'
    <2>1. /\ TypeOK /\ pc[r] = "chat" /\ sess[r] \in Session /\ pc'[r] = "call" /\ calls'[r] = batch
          /\ batch # <<>>
      BY <1>5 DEF IInv, TypeOK, Consents, Family, ChatCalls
    <2>2. UNCHANGED <<answer, allowed, consent, kid, running, sess, parent, client, server, overlapped>>
      BY <1>5 DEF ChatCalls, requestVars
    <2>3. \A s \in Session : (s # sess[r] => row'[s] = row[s]) /\ (row'[s] = "none" <=> row[s] = "none")
      BY <1>5 DEF ChatCalls, SetStatus, WithStatus, Exists, IInv, TypeOK
    <2>4. \A s \in Session : s # sess[r] => transcript'[s] = transcript[s]
      BY <1>5 DEF ChatCalls, IInv, TypeOK
    <2>5. \A q \in Run : q # r => pc'[q] = pc[q] /\ calls'[q] = calls[q]
      BY <1>5 DEF ChatCalls, IInv, TypeOK
    <2>6. OwnStep(r) /\ pc[r] \in Serving
      BY <2>1, <2>2, <2>3, <2>4, <2>5 DEF OwnStep, Serving, Places
    <2>7. Trusted(r)' /\ Family(r)' /\ Shown(r)'
      BY <2>1, <2>2 DEF IInv, Consents, Trusted, Family, Shown, InBatch
    <2>. QED BY <2>6, <2>7, Own
  <1>. QED BY <1>1, <1>2, <1>3, <1>4, <1>5

LEMMA CallKeeps ==
    ASSUME TypeOK', IInv, NEW r \in Run,
           CallAtOnce(r) \/ CallDangerous(r) \/ Ask(r) \/ Wake(r) \/ Perform(r)
    PROVE  IInv'
  <1>. TypeOK /\ Trusted(r) /\ Family(r)
    BY DEF IInv, Consents
  <1>. DEFINE tool == Head(calls[r])
  <1>1. CASE CallAtOnce(r)
    <2>1. pc[r] = "call" /\ Answered(r, Left(r))
          /\ UNCHANGED <<row, answer, allowed, consent, kid, running, sess, parent, client, server, overlapped>>
      BY <1>1 DEF CallAtOnce, requestVars
    <2>2. answer[r] = "none"
      BY <2>1 DEF Trusted
    <2>. QED BY <2>1, <2>2, CallEnds DEF Trusted, InBatch
  <1>2. CASE CallDangerous(r)
    <2>1. /\ pc[r] = "call" /\ tool \in Dangerous /\ sess[r] \in Session
          /\ UNCHANGED <<row, transcript, calls, allowed, consent, kid, running, sess, parent, client, server, overlapped>>
          /\ calls[r] # <<>> /\ answer[r] = "none"
      BY <1>2 DEF CallDangerous, requestVars, Trusted, Family, InBatch
    <2>2. /\ \A q \in Run : q # r => pc'[q] = pc[q] /\ answer'[q] = answer[q]
          /\ IF tool \in allowed[r] THEN pc'[r] = "perform" /\ answer'[r] = "none"
                                    ELSE pc'[r] = "ask" /\ answer'[r] = "open"
      BY <1>2, <2>1 DEF CallDangerous, TypeOK
    <2>3. OwnStep(r) /\ pc[r] \in Serving
      BY <2>1, <2>2 DEF OwnStep, Serving, Places
    <2>4. Trusted(r)'
      BY <2>1, <2>2 DEF Trusted, InBatch
    <2>5. Family(r)' /\ Shown(r)'
      BY <2>1, <2>2 DEF Family, Shown, InBatch
    <2>. QED BY <2>3, <2>4, <2>5, Own
  <1>3. CASE Ask(r)
    <2>1. /\ pc[r] = "ask" /\ pc' = [pc EXCEPT ![r] = "park"] /\ SetStatus(sess[r], "waiting_approval")
          /\ sess[r] \in Session
          /\ UNCHANGED <<transcript, answer, calls, allowed, consent, kid, running, sess, parent, client, server, overlapped>>
      BY <1>3 DEF Ask, loopVars, requestVars, Family
    <2>2. /\ \A s \in Session : (s # sess[r] => row'[s] = row[s]) /\ (row'[s] = "none" <=> row[s] = "none")
          /\ row'[sess[r]] \notin {"none", "deleted"} => row'[sess[r]] = "waiting_approval"
      BY <2>1 DEF SetStatus, WithStatus, Exists, TypeOK
    <2>3. OwnStep(r) /\ pc[r] \in Serving /\ pc'[r] = "park"
      BY <2>1, <2>2 DEF OwnStep, Serving, Places, TypeOK
    <2>4. Trusted(r)' /\ Family(r)'
      BY <2>1, <2>3 DEF Trusted, Family, InBatch
    <2>5. Shown(r)'
      BY <2>1, <2>2, <2>3 DEF Shown, Exists, InBatch
    <2>. QED BY <2>3, <2>4, <2>5, Own
  <1>4. CASE Wake(r)
    <2>1. /\ pc[r] = "park" /\ answer[r] # "open" /\ sess[r] \in Session
          /\ SetStatus(sess[r], "running")
          /\ answer'[r] = "none" /\ \A q \in Run : q # r => answer'[q] = answer[q]
          /\ UNCHANGED <<allowed, consent, kid, running, sess, parent, client, server, overlapped>>
      BY <1>4 DEF Wake, requestVars, Family, TypeOK
    <2>2. CASE answer[r] = "yes"
      <3>1. pc' = [pc EXCEPT ![r] = "perform"] /\ UNCHANGED <<transcript, calls>>
        BY <1>4, <2>2 DEF Wake
      <3>2. \A s \in Session : (s # sess[r] => row'[s] = row[s]) /\ (row'[s] = "none" <=> row[s] = "none")
        BY <2>1 DEF SetStatus, WithStatus, Exists, TypeOK
      <3>3. OwnStep(r) /\ pc[r] \in Serving /\ pc'[r] = "perform"
        BY <2>1, <3>1, <3>2 DEF OwnStep, Serving, Places, TypeOK
      <3>4. Trusted(r)' /\ Family(r)' /\ Shown(r)'
        BY <2>1, <2>2, <3>1, <3>3 DEF Trusted, Family, Shown, InBatch
      <3>. QED BY <3>3, <3>4, Own
    <2>3. CASE answer[r] # "yes"
      BY <1>4, <2>1, <2>3, CallEnds DEF Wake, Trusted, InBatch
    <2>. QED BY <2>2, <2>3
  <1>5. CASE Perform(r)
    <2>1. /\ pc[r] = "perform" /\ Answered(r, reserved[r]) /\ answer[r] = "none"
          /\ consent' = [consent EXCEPT ![r][tool] = IF @ = "once" THEN "never" ELSE @]
          /\ UNCHANGED <<row, answer, allowed, kid, running, sess, parent, client, server, overlapped>>
      BY <1>5 DEF Perform, requestVars, Trusted
    <2>2. /\ \A q \in Run : q # r => consent'[q] = consent[q]
          /\ \A t \in allowed[r] : consent'[r][t] = "always"
      BY <2>1 DEF TypeOK, Trusted
    <2>. QED BY <2>1, <2>2, CallEnds DEF InBatch
  <1>. QED BY <1>1, <1>2, <1>3, <1>4, <1>5

LEMMA DelegationKeeps ==
    ASSUME TypeOK', IInv, NEW r \in Run,
           EnterSpace(r) \/ Segment(r) \/ ExecSingle(r) \/ ExecSegment(r)
    PROVE  IInv'
  <1>1. pc[r] \in Serving \ (InBatch \cup {"hold"})
    BY DEF EnterSpace, Segment, ExecSingle, ExecSegment, Serving, Places, InBatch
  <1>2. CASE \E status \in Ends : Finish(r, status)
    BY <1>1, <1>2, Finishing
  <1>3. CASE /\ \E to \in {"segment", "exec"} : pc' = [pc EXCEPT ![r] = to]
             /\ UNCHANGED row \/ SetStatus(sess[r], "running")
             /\ UNCHANGED <<transcript, calls, answer, allowed, consent, kid, running, sess,
                            parent, client, server, overlapped>>
    BY <1>1, <1>3, Onward
  <1>4. CASE EnterSpace(r)
    BY <1>4, <1>2, <1>3 DEF EnterSpace, Ends, loopVars, requestVars
  <1>5. CASE Segment(r)
    BY <1>5, <1>2, <1>3 DEF Segment, Ends, loopVars, requestVars
  <1>6. CASE ExecSingle(r)
    BY <1>6, <1>2 DEF ExecSingle, Ends
  <1>7. CASE ExecSegment(r)
    BY <1>7, <1>2, <1>3 DEF ExecSegment, Ends, requestVars
  <1>. QED BY <1>4, <1>5, <1>6, <1>7

\* Children.  A child's session is new, so that nobody else has to do with it.
LEMMA ChildKeeps ==
    ASSUME TypeOK', IInv, NEW r \in Run,
           \/ \E q \in Run, s \in Session : SpawnChild(r, q, s)
           \/ ChildStarts(r) \/ ChildParked(r) \/ ChildFails(r) \/ ChildDone(r) \/ Render(r)
    PROVE  IInv'
  <1>. TypeOK /\ Consents /\ Trusted(r) /\ Family(r)
    BY DEF IInv, Consents
  <1>1. ASSUME NEW q \in Run, NEW s \in Session, SpawnChild(r, q, s) PROVE IInv'
    <2>1. /\ pc[r] = "call" /\ pc[q] = "free" /\ q # r /\ row[s] = "none" /\ sess[r] \in Session
          /\ calls[r] # <<>>
      BY <1>1 DEF SpawnChild, Free, New, Family, Trusted, InBatch
    <2>2. /\ pc'[r] = "born" /\ pc'[q] = "unborn" /\ \A x \in Run \ {r, q} : pc'[x] = pc[x]
          /\ sess'[q] = s /\ parent'[q] = r
          /\ \A x \in Run \ {q} : sess'[x] = sess[x] /\ parent'[x] = parent[x]
          /\ kid'[r] = q /\ \A x \in Run \ {r} : kid'[x] = kid[x]
          /\ row'[s] = "running" /\ \A p \in Session \ {s} : row'[p] = row[p]
      BY <1>1, <2>1 DEF SpawnChild, NewRun, TypeOK
    <2>3. UNCHANGED <<transcript, running, allowed, answer, calls, consent, client, server, overlapped>>
      BY <1>1 DEF SpawnChild, requestVars
    <2>4. ASSUME NEW x \in Run PROVE Trusted(x)'
      <3>1. Trusted(x)
        BY DEF Consents
      <3>2. x \in {r, q} \/ pc'[x] = pc[x]
        BY <2>2
      <3>. QED BY <2>1, <2>2, <2>3, <3>1, <3>2 DEF Trusted, InBatch
    <2>5. ASSUME NEW x \in Run PROVE Family(x)'
      <3>1. CASE x \in {r, q}
        BY <2>1, <2>2, <3>1 DEF Family
      <3>2. CASE x \notin {r, q}
        <4>1. Family(x) /\ (pc[x] = "born" => kid[x] \notin {r, q})
          BY <2>1 DEF Consents, Family
        <4>. QED BY <2>2, <3>2, <4>1 DEF Family
      <3>. QED BY <3>1, <3>2
    <2>6. ASSUME NEW c \in Client PROVE Held(c)'
      BY <2>1, <2>2, <2>3 DEF Consents, Held
    <2>7. Careful'
      <3>. Careful /\ (s \notin overlapped => running[s] = NoRun)
        BY <2>1 DEF IInv, Careful, Owned
      <3>1. \A x \in Run : sess[x] \notin overlapped /\ pc[x] \in Serving \cup {"unborn"}
                => sess[x] # s /\ sess[x] \in Session
        BY <2>1, Numbers DEF Careful, Served, Consents, Family, Serving
      <3>2. ASSUME NEW x \in Run, sess'[x] \notin overlapped PROVE Served(x)'
        <4>1. CASE x = r
          BY <2>1, <2>2, <2>3, <3>2, <4>1 DEF Careful, Served, Serving, Places
        <4>2. CASE x = q
          BY <2>1, <2>2, <2>3, <3>1, <3>2, <4>2 DEF Served, Serving
        <4>3. CASE x \notin {r, q}
          <5>1. Served(x) /\ pc'[x] = pc[x] /\ sess'[x] = sess[x] /\ answer'[x] = answer[x]
            BY <2>2, <2>3, <3>2, <4>3 DEF Careful
          <5>2. pc[x] \in Serving \cup {"unborn"} => row'[sess[x]] = row[sess[x]] /\ sess[x] # s
            BY <2>2, <3>1, <3>2, <4>3
          <5>3. \A o \in Run : pc'[o] = "unborn" /\ sess'[o] = sess[x] =>
                    o = q \/ (pc[o] = "unborn" /\ sess[o] = sess[x])
            BY <2>1, <2>2
          <5>. QED BY <2>2, <2>3, <5>1, <5>2, <5>3 DEF Served, Serving, Places, Exists
        <4>. QED BY <4>1, <4>2, <4>3
      <3>3. ASSUME NEW c \in Client, client[c].sess \notin overlapped PROVE Single(c)'
        <4>1. Single(c) /\ (client[c].at # "idle" => client[c].sess # s /\ client[c].sess \in Session)
          BY <2>1, <3>3 DEF Careful, Single, Consents, Held
        <4>2. \A x \in Run : pc'[x] = "unborn" => x = q \/ (pc[x] = "unborn" /\ sess'[x] = sess[x])
          BY <2>1, <2>2
        <4>. QED BY <2>2, <2>3, <4>1, <4>2 DEF Single
      <3>4. ASSUME NEW p \in Session \ overlapped PROVE Owned(p)'
        <4>1. Owned(p) /\ running[p] \in Run \cup {NoRun}
          BY DEF Careful, TypeOK
        <4>2. running[p] # NoRun => running[p] # q /\ sess'[running[p]] = sess[running[p]]
          BY <2>1, <2>2, <4>1 DEF Owned, Serving
        <4>3. running[p] # NoRun => pc'[running[p]] = pc[running[p]]
                    \/ (pc'[running[p]] \in InBatch \cap Serving)
          BY <2>1, <2>2, <4>1, <4>2 DEF InBatch, Serving, Places
        <4>4. row[p] # "none" => row'[p] # "none"
          BY <2>2
        <4>. QED BY <2>3, <4>1, <4>2, <4>3, <4>4 DEF Owned
      <3>5. server' # "starting"
        BY <2>1, <2>3 DEF Careful, Quiet
      <3>. QED BY <2>3, <3>2, <3>3, <3>4, <3>5 DEF Careful
    <2>. QED BY <2>4, <2>5, <2>6, <2>7 DEF IInv, Consents
  <1>2. CASE ChildStarts(r)
    <2>. DEFINE k == kid[r]
    <2>1. /\ pc[r] = "born" /\ k \in Run /\ pc[k] = "unborn" /\ parent[k] = r /\ k # r
          /\ sess[k] \in Session /\ sess[r] \in Session /\ calls[r] # <<>>
      BY <1>2 DEF ChildStarts, Consents, Family, Trusted, InBatch
    <2>2. /\ pc'[r] = "kid" /\ pc'[k] = "gate" /\ \A x \in Run \ {r, k} : pc'[x] = pc[x]
          /\ running'[sess[k]] = k /\ \A p \in Session \ {sess[k]} : running'[p] = running[p]
      BY <1>2, <2>1 DEF ChildStarts, TypeOK
    <2>3. UNCHANGED <<row, transcript, sess, parent, kid, allowed, answer, calls, consent, client, server, overlapped>>
      BY <1>2 DEF ChildStarts, loopVars, requestVars
    <2>4. ASSUME NEW x \in Run PROVE Trusted(x)'
      <3>1. Trusted(x) /\ (x \in {r, k} \/ pc'[x] = pc[x])
        BY <2>2 DEF Consents
      <3>. QED BY <2>1, <2>2, <2>3, <3>1 DEF Trusted, InBatch
    <2>5. ASSUME NEW x \in Run PROVE Family(x)'
      <3>1. CASE x \in {r, k}
        BY <2>1, <2>2, <2>3, <3>1 DEF Family
      <3>2. CASE x \notin {r, k}
        <4>1. Family(x) /\ (pc[x] = "born" => kid[x] \notin {r, k})
          BY <2>1, <3>2 DEF Consents, Family
        <4>. QED BY <2>2, <2>3, <3>2, <4>1 DEF Family
      <3>. QED BY <3>1, <3>2
    <2>6. ASSUME NEW c \in Client PROVE Held(c)'
      <3>1. Held(c) /\ (client[c].at = "registered" => client[c].run \notin {r, k})
        BY <2>1 DEF Consents, Held
      <3>. QED BY <2>2, <2>3, <3>1 DEF Held
    <2>7. Careful'
      <3>. Careful /\ (sess[k] \notin overlapped => running[sess[k]] = NoRun /\ row[sess[k]] # "none")
        BY <2>1 DEF IInv, Careful, Served
      <3>1. \A x \in Run \ {k} : sess[x] \notin overlapped /\ pc[x] \in Serving \cup {"unborn"}
                => sess[x] # sess[k] /\ sess[x] \in Session
        BY <2>1, Numbers DEF Careful, Served, Consents, Family, Serving
      <3>2. ASSUME NEW x \in Run, sess[x] \notin overlapped PROVE Served(x)'
        <4>1. CASE x = k
          BY <2>1, <2>2, <2>3, <3>2, <4>1 DEF Served, Serving
        <4>2. CASE x # k
          <5>1. Served(x) /\ (pc[x] \in Serving \cup {"unborn"} => running'[sess[x]] = running[sess[x]])
            BY <2>2, <3>1, <3>2, <4>2 DEF Careful
          <5>2. pc'[x] = pc[x] \/ (x = r /\ pc'[x] = "kid" /\ pc[x] \in Serving)
            BY <2>1, <2>2, <4>2 DEF Serving, Places
          <5>3. \A o \in Run : pc'[o] = "unborn" => pc[o] = "unborn"
            BY <2>2
          <5>. QED BY <2>3, <5>1, <5>2, <5>3 DEF Served, Serving, Exists
        <4>. QED BY <4>1, <4>2
      <3>3. ASSUME NEW c \in Client, client[c].sess \notin overlapped PROVE Single(c)'
        <4>1. /\ Single(c)
              /\ client[c].at # "idle" => client[c].sess # sess[k] /\ client[c].sess \in Session
          BY <2>1, <3>3 DEF Careful, Single, Consents, Held
        <4>2. \A x \in Run : pc'[x] = "unborn" => pc[x] = "unborn"
          BY <2>2
        <4>. QED BY <2>2, <2>3, <4>1, <4>2 DEF Single
      <3>4. ASSUME NEW p \in Session \ overlapped PROVE Owned(p)'
        <4>1. Owned(p) /\ running[p] \in Run \cup {NoRun}
          BY <2>1 DEF Careful, TypeOK
        <4>2. CASE p = sess[k]
          BY <2>1, <2>2, <2>3, <4>1, <4>2, Numbers DEF Owned, Serving, Places
        <4>3. CASE p # sess[k]
          <5>1. running'[p] = running[p] /\ (running[p] # NoRun => running[p] # k)
            BY <2>1, <2>2, <4>1, <4>3 DEF Owned, Serving
          <5>2. running[p] # NoRun => pc'[running[p]] = pc[running[p]]
                    \/ (pc'[running[p]] \in InBatch \cap Serving)
            BY <2>2, <4>1, <5>1 DEF InBatch, Serving, Places
          <5>. QED BY <2>3, <4>1, <5>1, <5>2 DEF Owned
        <4>. QED BY <4>2, <4>3
      <3>5. server' # "starting"
        BY <2>1, <2>3 DEF Careful, Quiet
      <3>. QED BY <2>3, <3>2, <3>3, <3>4, <3>5 DEF Careful
    <2>. QED BY <2>4, <2>5, <2>6, <2>7 DEF IInv, Consents
  <1>3. CASE ChildParked(r) \/ ChildFails(r) \/ Render(r)
    <2>1. pc[r] \in {"kid", "render"} /\ Abandon(r)
      BY <1>3 DEF ChildParked, ChildFails, Render
    <2>2. /\ Answered(r, reserved[r]) /\ kid' = [kid EXCEPT ![r] = NoRun]
          /\ UNCHANGED <<row, answer, allowed, consent, running, sess, parent, client, server, overlapped>>
      BY <2>1 DEF Abandon, requestVars
    <2>3. answer[r] = "none" /\ \A q \in Run : q # r => kid'[q] = kid[q]
      BY <2>1, <2>2 DEF Trusted, TypeOK
    <2>. QED BY <2>1, <2>2, <2>3, CallEnds DEF Trusted, InBatch
  <1>4. CASE ChildDone(r)
    <2>1. /\ pc[r] = "kid" /\ pc' = [pc EXCEPT ![r] = "render"]
          /\ UNCHANGED <<row, transcript, answer, calls, allowed, consent, kid, running, sess,
                         parent, client, server, overlapped>>
      BY <1>4 DEF ChildDone, loopVars, requestVars
    <2>2. OwnStep(r) /\ pc[r] \in Serving /\ pc'[r] = "render"
      BY <2>1 DEF OwnStep, Serving, Places, TypeOK
    <2>3. Trusted(r)' /\ Family(r)' /\ Shown(r)'
      BY <2>1, <2>2 DEF Trusted, Family, Shown, InBatch
    <2>. QED BY <2>2, <2>3, Own
  <1>. QED BY <1>1, <1>2, <1>3, <1>4

-----------------------------------------------------------------------------
(* Requests, restarts *)

\* Rows change only where no run is registered, and none of them appears.
LEMMA RowsKeep ==
    ASSUME TypeOK', IInv,
           \A p \in Session \ overlapped :
                row'[p] = row[p] \/ (running[p] = NoRun /\ row[p] # "none" /\ row'[p] # "none"),
           UNCHANGED <<transcript, running, pc, sess, parent, kid, calls, answer, allowed, consent,
                       client, overlapped>>,
           server' \in {server, "up"}
    PROVE  IInv'
  <1>1. Consents'
    BY DEF IInv, Consents, Trusted, Family, Held
  <1>2. Careful'
    <2>. Careful /\ Consents
      BY DEF IInv
    <2>1. ASSUME NEW r \in Run, sess[r] \notin overlapped PROVE Served(r)'
      <3>1. Served(r) /\ (pc[r] \in Serving \cup {"unborn"} => sess[r] \in Session)
        BY <2>1 DEF Careful, Consents, Family, Serving
      <3>2. pc[r] \in Serving => row'[sess[r]] = row[sess[r]]
        BY <2>1, <3>1, Numbers DEF Served
      <3>3. pc[r] = "unborn" => row'[sess[r]] # "none"
        BY <2>1, <3>1 DEF Served
      <3>. QED BY <3>1, <3>2, <3>3 DEF Served, Exists, Serving, Places
    <2>2. ASSUME NEW c \in Client, client[c].sess \notin overlapped PROVE Single(c)'
      <3>1. Single(c) /\ (client[c].at # "idle" => client[c].sess \in Session)
        BY <2>2 DEF Careful, Consents, Held
      <3>. QED BY <2>2, <3>1 DEF Single
    <2>3. ASSUME NEW s \in Session \ overlapped PROVE Owned(s)'
      BY DEF Careful, Owned
    <2>4. server' = "starting" => Quiet'
      BY DEF Careful, Quiet
    <2>. QED BY <2>1, <2>2, <2>3, <2>4 DEF Careful
  <1>. QED BY <1>1, <1>2 DEF IInv

LEMMA DecideKeeps ==
    ASSUME TypeOK', IInv, NEW s \in Session, NEW approved \in BOOLEAN, NEW remember \in BOOLEAN,
           Decide(s, approved, remember)
    PROVE  IInv'
  <1>. PICK r \in Run : r = running[s]
    BY DEF Decide, IInv, TypeOK
  <1>. DEFINE tool == Head(calls[r])
  <1>1. /\ TypeOK /\ Consents /\ answer[r] = "open" /\ Trusted(r) /\ Family(r)
        /\ UNCHANGED <<row, transcript, running, pc, sess, parent, calls, kid, client, server, overlapped>>
    BY DEF Decide, IInv, Consents, TypeOK, requestVars
  <1>2. pc[r] \in {"ask", "park"} /\ tool \in Dangerous \ allowed[r] /\ calls[r] # <<>>
    BY <1>1 DEF Trusted, InBatch
  <1>3. \A q \in Run : q # r =>
            answer'[q] = answer[q] /\ allowed'[q] = allowed[q] /\ consent'[q] = consent[q]
    BY <1>1 DEF Decide, Resolve, TypeOK
  <1>4. /\ answer'[r] = (IF approved THEN "yes" ELSE "no")
        /\ allowed'[r] = (IF approved /\ remember THEN allowed[r] \cup {tool} ELSE allowed[r])
    BY <1>1 DEF Decide, Resolve, TypeOK
  <1>5. /\ approved => consent'[r][tool] = (IF remember THEN "always" ELSE "once")
        /\ \A t \in Dangerous : t # tool => consent'[r][t] = consent[r][t]
        /\ ~approved => consent'[r] = consent[r]
    <2>1. consent' = [consent EXCEPT ![r][tool] = CASE ~approved -> @
                                                    [] approved /\ remember -> "always"
                                                    [] OTHER -> "once"]
      BY DEF Decide
    <2>2. consent[r] \in [Dangerous -> {"never", "once", "always"}]
      BY <1>1 DEF TypeOK
    <2>3. CASE ~approved
      BY <1>1, <1>2, <2>1, <2>2, <2>3 DEF TypeOK
    <2>4. CASE approved /\ remember
      BY <1>1, <1>2, <2>1, <2>2, <2>4 DEF TypeOK
    <2>5. CASE approved /\ ~remember
      BY <1>1, <1>2, <2>1, <2>2, <2>5 DEF TypeOK
    <2>. QED BY <2>3, <2>4, <2>5
  <1>6. OwnStep(r)
    BY <1>1, <1>3 DEF OwnStep
  <1>7. Trusted(r)'
    <2>1. \A t \in allowed'[r] : consent'[r][t] = "always"
      BY <1>1, <1>2, <1>4, <1>5 DEF Trusted, TypeOK
    <2>2. answer'[r] = "yes" => consent'[r][tool] # "never"
      BY <1>4, <1>5
    <2>. QED BY <1>1, <1>2, <1>4, <2>1, <2>2 DEF Trusted
  <1>8. Family(r)'
    BY <1>1 DEF Family
  <1>9. Consents'
    BY <1>1, <1>6, <1>7, <1>8, OwnConsents
  <1>10. Shown(r)'
    BY <1>1, <1>2, <1>4 DEF Shown, InBatch
  <1>11. Careful'
    BY <1>1, <1>2, <1>6, <1>10, OwnCareful, Started DEF IInv, Serving, Places
  <1>. QED BY <1>9, <1>11 DEF IInv

LEMMA CancelKeeps == ASSUME TypeOK', IInv, NEW s \in Session, Cancel(s) PROVE IInv'
  <1>. TypeOK /\ Consents
    BY DEF IInv
  <1>1. CASE running[s] = NoRun
    <2>1. /\ SetStatus(s, "cancelled") /\ Exists(s)
          /\ UNCHANGED <<transcript, running, pc, sess, parent, kid, calls, answer, allowed,
                         consent, client, server, overlapped>>
      BY <1>1 DEF Cancel, requestVars
    <2>. QED BY <1>1, <2>1, RowsKeep DEF SetStatus, WithStatus, Exists, TypeOK
  <1>2. CASE running[s] # NoRun
    <2>. PICK r \in Run : r = running[s]
      BY <1>2 DEF TypeOK
    <2>1. /\ Trusted(r) /\ Family(r)
          /\ answer' = [answer EXCEPT ![r] = IF @ = "open" THEN "no" ELSE @]
          /\ UNCHANGED <<row, transcript, running, pc, sess, parent, calls, allowed, consent, kid,
                         client, server, overlapped>>
      BY <1>2 DEF Cancel, DenyAll, requestVars, TypeOK, Consents
    <2>2. /\ \A q \in Run : q # r => answer'[q] = answer[q]
          /\ answer'[r] # "open" /\ (answer'[r] = "no" \/ answer'[r] = answer[r])
          /\ answer'[r] # "none" => answer[r] # "none"
      BY <2>1 DEF TypeOK
    <2>3. OwnStep(r)
      BY <2>1, <2>2 DEF OwnStep
    <2>4. Trusted(r)' /\ Family(r)'
      BY <2>1, <2>2 DEF Trusted, Family
    <2>5. Careful'
      <3>1. \A q \in Run : answer'[q] = "open" => answer[q] = "open"
        BY <2>2
      <3>. QED BY <2>1, <3>1 DEF IInv, Careful, Served, Single, Owned, Quiet, Exists
    <2>. QED BY <2>3, <2>4, <2>5, OwnConsents DEF IInv
  <1>. QED BY <1>1, <1>2

LEMMA RequestKeeps ==
    ASSUME TypeOK', IInv, NEW s \in Session, Cancel(s) \/ Delete(s) \/ SessionDetail(s)
    PROVE  IInv'
  <1>1. CASE Delete(s)
    BY <1>1, RowsKeep DEF Delete, Exists, memory, requestVars, IInv, TypeOK
  <1>2. CASE SessionDetail(s)
    BY <1>2, RowsKeep DEF SessionDetail, Orphaned, Active, SetStatus, WithStatus, Exists, memory,
                          requestVars, IInv, TypeOK
  <1>. QED BY <1>1, <1>2, CancelKeeps

LEMMA ListingKeeps == ASSUME TypeOK', IInv, ListSessions \/ ListNext \/ Startup PROVE IInv'
  <1>. TypeOK
    BY DEF IInv
  <1>1. CASE ListSessions
    <2>1. PICK s \in Session : Orphaned(s) /\ SetStatus(s, "interrupted")
      BY <1>1 DEF ListSessions
    <2>2. UNCHANGED <<transcript, memory, client, server, overlapped>>
      BY <1>1 DEF ListSessions
    <2>. QED BY <2>1, <2>2, RowsKeep DEF Orphaned, Active, SetStatus, WithStatus, Exists, memory, TypeOK
  <1>2. CASE ListNext
    <2>1. UNCHANGED row \/ \E s \in Session : running[s] = NoRun /\ SetStatus(s, "interrupted")
      BY <1>2 DEF ListNext, TypeOK
    <2>2. UNCHANGED <<transcript, memory, client, server, overlapped>>
      BY <1>2 DEF ListNext
    <2>3. CASE UNCHANGED row
      BY <2>2, <2>3, RowsKeep DEF memory
    <2>4. ASSUME NEW s \in Session, running[s] = NoRun, SetStatus(s, "interrupted") PROVE IInv'
      BY <2>2, <2>4, RowsKeep DEF SetStatus, WithStatus, Exists, memory, TypeOK
    <2>. QED BY <2>1, <2>3, <2>4
  <1>3. CASE Startup
    <2>1. \A p \in Session : row'[p] = row[p] \/ (row[p] # "none" /\ row'[p] # "none")
      <3>1. PICK marked \in SUBSET {s \in Session : row[s] \in Active} :
                row' = [s \in Session |-> IF s \in marked THEN "interrupted" ELSE row[s]]
        BY <1>3 DEF Startup
      <3>. QED BY <3>1 DEF Active
    <2>2. \A p \in Session : running[p] = NoRun
      BY <1>3 DEF Startup, IInv, Careful, Quiet
    <2>. QED BY <1>3, <2>1, <2>2, RowsKeep DEF Startup, memory
  <1>. QED BY <1>1, <1>2, <1>3

LEMMA CrashKeeps == ASSUME TypeOK', IInv, Crash PROVE IInv'
  <1>1. /\ \A r \in Run : pc'[r] \in {"free", "gone"} /\ answer'[r] = "none" /\ allowed'[r] = {}
        /\ \A s \in Session : running'[s] = NoRun /\ transcript'[s] # "open"
        /\ \A c \in Client : client'[c].at = "idle" /\ client'[c].sess = Nobody
    BY DEF Crash, IdleClient
  <1>2. Consents'
    BY <1>1 DEF Consents, Trusted, Family, Held, InBatch
  <1>3. Careful'
    BY <1>1 DEF Careful, Served, Single, Owned, Quiet, Serving
  <1>. QED BY <1>2, <1>3 DEF IInv

\* A request changes nothing but its own state: it gives up.
LEMMA GivesUp ==
    ASSUME TypeOK', IInv, NEW c \in Client, CreateFails(c) \/ FollowupFails(c) PROVE IInv'
  <1>1. /\ client' = [client EXCEPT ![c] = IdleClient]
        /\ UNCHANGED <<row, transcript, memory, seen, server, faults, overlapped>>
    BY DEF CreateFails, FollowupFails
  <1>2. /\ client'[c].at = "idle" /\ client'[c].sess = Nobody
        /\ \A o \in Client : o # c => client'[o] = client[o]
    BY <1>1 DEF IInv, TypeOK, IdleClient
  <1>3. Consents'
    BY <1>1, <1>2 DEF IInv, Consents, Trusted, Family, Held, memory
  <1>4. Careful'
    <2>. Careful
      BY DEF IInv
    <2>1. ASSUME NEW o \in Client, client'[o].sess \notin overlapped PROVE Single(o)'
      BY <1>1, <1>2, <2>1, Numbers DEF Careful, Single, memory, IInv, Consents, Held
    <2>2. \A o \in Client : client'[o].at = "idle" => client'[o].sess = Nobody
      BY <1>2 DEF Careful
    <2>. QED BY <1>1, <1>2, <2>1, <2>2 DEF Careful, Served, Owned, Quiet, Exists, memory
  <1>. QED BY <1>3, <1>4 DEF IInv

\* It creates a session, or takes one up that nobody serves.
LEMMA CreateKeeps ==
    ASSUME TypeOK', IInv, NEW c \in Client, NEW s \in Session,
           (\E k \in Kind : Create(c, s, k)) \/ Admit(c, s)
    PROVE  IInv'
  <1>1. /\ server = "up" /\ client[c].at = "idle" /\ row'[s] # "none"
        /\ client'[c].at = "created" /\ client'[c].sess = s
        /\ \A o \in Client : o # c => client'[o] = client[o]
        /\ \A p \in Session : p # s => row'[p] = row[p]
        /\ UNCHANGED <<transcript, memory, server>>
    BY DEF Create, Admit, Resumable, IInv, TypeOK
  <1>2. Consents'
    BY <1>1 DEF IInv, Consents, Trusted, Family, Held, memory
  <1>3. Careful'
    <2>. Careful /\ Consents /\ overlapped \subseteq overlapped'
      BY DEF IInv, Create, Admit, Continues
    <2>1. ASSUME s \notin overlapped'
          PROVE  /\ running[s] = NoRun /\ (row'[s] = row[s] \/ row[s] = "none")
                 /\ \A o \in Client : client[o].sess # s
                 /\ \A r \in Run : pc[r] = "unborn" => sess[r] # s
      <3>1. CASE Admit(c, s)
        BY <2>1, <3>1 DEF Admit, Continues, Busy
      <3>2. CASE row[s] = "none"
        BY <2>1, <3>2, Numbers DEF Careful, Single, Served, Owned
      <3>. QED BY <3>1, <3>2 DEF Create, New
    <2>2. ASSUME NEW r \in Run, sess[r] \notin overlapped' PROVE Served(r)'
      <3>1. Served(r) /\ (pc[r] \in Serving \cup {"unborn"} => sess[r] \in Session)
        BY <2>2 DEF Careful, Consents, Family, Serving
      <3>2. pc[r] \in Serving \cup {"unborn"} => row'[sess[r]] = row[sess[r]]
        BY <1>1, <2>1, <2>2, <3>1, Numbers DEF Served
      <3>. QED BY <1>1, <3>1, <3>2 DEF Served, Serving, Places, Exists, memory
    <2>3. ASSUME NEW o \in Client, client'[o].sess \notin overlapped' PROVE Single(o)'
      <3>1. CASE o = c
        BY <1>1, <2>1, <2>3, <3>1 DEF Single, memory
      <3>2. CASE o # c
        <4>1. Single(o) /\ client'[o] = client[o]
              /\ (client[o].at # "idle" => client[o].sess \in Session)
          BY <1>1, <2>3, <3>2 DEF Careful, Consents, Held
        <4>2. client[o].sess # s
          BY <2>1, <2>3, <4>1
        <4>. QED BY <1>1, <3>2, <4>1, <4>2 DEF Single, memory
      <3>. QED BY <3>1, <3>2
    <2>4. ASSUME NEW p \in Session \ overlapped' PROVE Owned(p)'
      BY <1>1, <2>1, <2>4 DEF Careful, Owned, memory
    <2>5. \A o \in Client : client'[o].at = "idle" => client'[o].sess = Nobody
      BY <1>1 DEF Careful
    <2>. QED BY <1>1, <2>2, <2>3, <2>4, <2>5 DEF Careful, memory
  <1>. QED BY <1>2, <1>3 DEF IInv

\* A run is registered: that of a new session, or that of one nobody serves.
LEMMA RegisterKeeps ==
    ASSUME TypeOK', IInv, NEW c \in Client, NEW s \in Session, NEW r \in Run,
           pc[r] = "free", sess' = [sess EXCEPT ![r] = s], running' = [running EXCEPT ![s] = r],
           NEW at \in {"hold", "gate", "enter"}, pc' = [pc EXCEPT ![r] = at],
           parent' = [parent EXCEPT ![r] = NoRun],
           \A o \in Client : o # c => client'[o] = client[o],
           IF at = "hold"
           THEN client'[c].at = "registered" /\ client'[c].sess = s /\ client'[c].run = r
           ELSE client'[c].at = "idle" /\ client'[c].sess = Nobody,
           UNCHANGED <<row, transcript, kid, calls, answer, allowed, consent, server>>,
           server = "up", overlapped \subseteq overlapped',
           s \notin overlapped' =>
                /\ running[s] = NoRun /\ row[s] # "none"
                /\ \A o \in Client : o # c => client[o].sess # s
                /\ \A q \in Run : pc[q] = "unborn" => sess[q] # s
    PROVE  IInv'
  <1>. TypeOK /\ Consents
    BY DEF IInv
  <1>1. /\ pc'[r] = at /\ sess'[r] = s /\ \A q \in Run : q # r => pc'[q] = pc[q] /\ sess'[q] = sess[q]
        /\ \A q \in Run : q # r => parent'[q] = parent[q]
        /\ running'[s] = r /\ \A p \in Session : p # s => running'[p] = running[p]
    BY DEF TypeOK
  <1>2. ASSUME NEW q \in Run PROVE Trusted(q)'
    BY <1>1 DEF Consents, Trusted, InBatch
  <1>3. ASSUME NEW q \in Run PROVE Family(q)'
    <2>1. Family(q) /\ (pc[q] = "born" => kid[q] # r)
      BY DEF Consents, Family
    <2>. QED BY <1>1, <2>1 DEF Family
  <1>4. ASSUME NEW o \in Client PROVE Held(o)'
    <2>1. \A x \in Client : client[x].at = "registered" => client[x].run # r
      BY DEF Consents, Held
    <2>2. CASE o = c
      BY <1>1, <2>1, <2>2 DEF Held
    <2>3. CASE o # c
      BY <1>1, <2>1, <2>3 DEF Consents, Held
    <2>. QED BY <2>2, <2>3
  <1>5. Careful'
    <2>. Careful
      BY DEF IInv
    <2>1. ASSUME NEW q \in Run, sess'[q] \notin overlapped' PROVE Served(q)'
      <3>1. CASE q = r
        BY <1>1, <3>1 DEF Served
      <3>2. CASE q # r
        <4>1. Served(q) /\ (pc[q] \in Serving \cup {"unborn"} => sess[q] # s /\ sess[q] \in Session)
          BY <1>1, <2>1, <3>2, Numbers DEF Careful, Served, Consents, Family, Serving
        <4>2. \A o \in Run : pc'[o] = "unborn" => pc[o] = "unborn" /\ sess'[o] = sess[o]
          BY <1>1
        <4>. QED BY <1>1, <3>2, <4>1, <4>2 DEF Served, Exists
      <3>. QED BY <3>1, <3>2
    <2>2. ASSUME NEW o \in Client, client'[o].sess \notin overlapped' PROVE Single(o)'
      <3>1. \A q \in Run : pc'[q] = "unborn" => pc[q] = "unborn" /\ sess'[q] = sess[q]
        BY <1>1
      <3>2. CASE o = c
        BY <2>2, <3>1, <3>2, Numbers DEF Single
      <3>3. CASE o # c
        <4>1. Single(o) /\ client[o].sess # s /\ (client[o].at # "idle" => client[o].sess \in Session)
          BY <2>2, <3>3 DEF Careful, Consents, Held
        <4>2. \A x \in Client : client'[x].sess = client[o].sess /\ client[o].at # "idle"
                    => client[x].sess = client[o].sess
          BY <4>1, Numbers
        <4>. QED BY <1>1, <3>1, <3>3, <4>1, <4>2 DEF Single
      <3>. QED BY <3>2, <3>3
    <2>3. ASSUME NEW p \in Session \ overlapped' PROVE Owned(p)'
      <3>1. CASE p = s
        BY <1>1, <2>3, <3>1 DEF Careful, Owned, Serving, Places
      <3>2. CASE p # s
        <4>1. Owned(p) /\ running[p] \in Run \cup {NoRun} /\ (running[p] # NoRun => running[p] # r)
          BY <2>3 DEF Careful, Owned, Serving, TypeOK
        <4>. QED BY <1>1, <3>2, <4>1 DEF Owned
      <3>. QED BY <3>1, <3>2
    <2>4. \A o \in Client : client'[o].at = "idle" => client'[o].sess = Nobody
      BY DEF Careful
    <2>. QED BY <2>1, <2>2, <2>3, <2>4 DEF Careful
  <1>. QED BY <1>2, <1>3, <1>4, <1>5 DEF IInv, Consents

LEMMA EnlistKeeps == ASSUME TypeOK', IInv, NEW c \in Client, Enlist(c) PROVE IInv'
  <1>. DEFINE s == client[c].sess
              k == client[c].kind
              at == IF k = "batch" THEN "hold" ELSE Entry(k)
  <1>1. client[c].at = "created" /\ s \in Session
    BY DEF Enlist, IInv, Consents, Held
  <1>2. PICK r \in Run :
        /\ Free(r) /\ NewRun(r, s, k, NoRun) /\ running' = [running EXCEPT ![s] = r]
        /\ pc' = [pc EXCEPT ![r] = at]
        /\ client' = [client EXCEPT ![c] =
                IF k = "batch" THEN [at |-> "registered", sess |-> s, kind |-> k, run |-> r]
                               ELSE IdleClient]
    BY DEF Enlist
  <1>3. at \in {"hold", "gate", "enter"} /\ (at = "hold" <=> k = "batch")
    BY DEF Entry
  <1>4. UNCHANGED <<row, transcript, kid, calls, answer, allowed, consent, server, overlapped>>
    BY DEF Enlist, loopVars
  <1>5. IF at = "hold"
        THEN client'[c].at = "registered" /\ client'[c].sess = s /\ client'[c].run = r
        ELSE client'[c].at = "idle" /\ client'[c].sess = Nobody
    BY <1>2, <1>3 DEF IInv, TypeOK, IdleClient
  <1>6. \A o \in Client : o # c => client'[o] = client[o]
    BY <1>2 DEF IInv, TypeOK
  <1>7. /\ server = "up"
        /\ s \notin overlapped =>
            /\ running[s] = NoRun /\ row[s] # "none"
            /\ \A o \in Client : o # c => client[o].sess # s
            /\ \A q \in Run : pc[q] = "unborn" => sess[q] # s
    BY <1>1 DEF IInv, TypeOK, Careful, Single, Quiet
  <1>8. pc[r] = "free" /\ sess' = [sess EXCEPT ![r] = s] /\ parent' = [parent EXCEPT ![r] = NoRun]
    BY <1>2 DEF Free, NewRun
  <1>. HIDE DEF at, s, k
  <1>. QED BY <1>1, <1>2, <1>3, <1>4, <1>5, <1>6, <1>7, <1>8, RegisterKeeps

LEMMA FollowupKeeps ==
    ASSUME TypeOK', IInv, NEW c \in Client, NEW s \in Session, NEW k \in Kind, Followup(c, s, k)
    PROVE  IInv'
  <1>1. PICK r \in Run :
        /\ Free(r) /\ NewRun(r, s, k, NoRun) /\ running' = [running EXCEPT ![s] = r]
        /\ pc' = [pc EXCEPT ![r] = "hold"]
        /\ client' = [client EXCEPT ![c] = [at |-> "registered", sess |-> s, kind |-> k, run |-> r]]
    BY DEF Followup
  <1>2. UNCHANGED <<row, transcript, kid, calls, answer, allowed, consent, server>>
    BY DEF Followup, loopVars
  <1>3. /\ client'[c].at = "registered" /\ client'[c].sess = s /\ client'[c].run = r
        /\ \A o \in Client : o # c => client'[o] = client[o]
    BY <1>1 DEF IInv, TypeOK
  <1>4. pc[r] = "free" /\ sess' = [sess EXCEPT ![r] = s] /\ parent' = [parent EXCEPT ![r] = NoRun]
    BY <1>1 DEF Free, NewRun
  <1>5. /\ server = "up" /\ overlapped \subseteq overlapped'
        /\ s \notin overlapped' =>
            /\ running[s] = NoRun /\ row[s] # "none"
            /\ \A o \in Client : o # c => client[o].sess # s
            /\ \A q \in Run : pc[q] = "unborn" => sess[q] # s
    BY DEF Followup, Continues, Busy, Resumable
  <1>. QED BY <1>1, <1>2, <1>3, <1>4, <1>5, RegisterKeeps

\* The task of a registered run is spawned.
LEMMA LaunchKeeps == ASSUME TypeOK', IInv, NEW c \in Client, Launch(c) PROVE IInv'
  <1>. DEFINE s == client[c].sess
              r == client[c].run
  <1>. TypeOK /\ Consents
    BY DEF IInv
  <1>1. /\ client[c].at = "registered" /\ r \in Run /\ s \in Session
        /\ pc[r] = "hold" /\ sess[r] = s
        /\ \A o \in Client : client[o].at = "registered" /\ client[o].run = r => o = c
    BY DEF Launch, Consents, Held
  <1>2. /\ pc'[r] \in {"gate", "enter"} /\ \A q \in Run : q # r => pc'[q] = pc[q]
        /\ client'[c].at = "idle" /\ client'[c].sess = Nobody
        /\ \A o \in Client : o # c => client'[o] = client[o]
    BY <1>1 DEF Launch, Entry, TypeOK, IdleClient
  <1>3. \A p \in Session : (p # s => row'[p] = row[p]) /\ (row'[p] = "none" <=> row[p] = "none")
    BY <1>1 DEF Launch, SetStatus, WithStatus, Exists, TypeOK
  <1>4. UNCHANGED <<transcript, running, sess, parent, kid, calls, answer, allowed, consent, server,
                    overlapped>>
    BY DEF Launch, loopVars
  <1>5. ASSUME NEW q \in Run PROVE Trusted(q)' /\ Family(q)'
    <2>1. Trusted(q) /\ Family(q) /\ (pc[q] = "born" => kid[q] # r)
      BY <1>1 DEF Consents, Family
    <2>2. Trusted(q)'
      BY <1>1, <1>2, <1>4, <2>1 DEF Trusted, InBatch
    <2>3. Family(q)'
      BY <1>1, <1>2, <1>4, <2>1 DEF Family
    <2>. QED BY <2>2, <2>3
  <1>6. ASSUME NEW o \in Client PROVE Held(o)'
    <2>1. CASE o = c
      BY <1>2, <2>1 DEF Held
    <2>2. CASE o # c
      BY <1>1, <1>2, <1>4, <2>2 DEF Consents, Held
    <2>. QED BY <2>1, <2>2
  <1>7. Careful'
    <2>. Careful /\ (s \notin overlapped => running[s] = r)
      BY <1>1 DEF IInv, Careful, Served, Serving, Places
    <2>1. ASSUME NEW q \in Run, sess[q] \notin overlapped PROVE Served(q)'
      <3>1. CASE q = r
        BY <1>1, <1>2, <1>4, <2>1, <3>1 DEF Served
      <3>2. CASE q # r
        <4>1. Served(q) /\ (pc[q] \in Serving \cup {"unborn"} => sess[q] # s /\ sess[q] \in Session)
          BY <1>1, <2>1, <3>2, Numbers DEF Careful, Served, Consents, Family, Serving
        <4>2. \A o \in Run : pc'[o] = "unborn" => pc[o] = "unborn"
          BY <1>2
        <4>. QED BY <1>2, <1>3, <1>4, <3>2, <4>1, <4>2 DEF Served, Exists, Serving, Places
      <3>. QED BY <3>1, <3>2
    <2>2. ASSUME NEW o \in Client, client'[o].sess \notin overlapped PROVE Single(o)'
      <3>1. \A q \in Run : pc'[q] = "unborn" => pc[q] = "unborn"
        BY <1>2
      <3>2. CASE o = c
        BY <1>2, <3>2 DEF Single
      <3>3. CASE o # c
        <4>1. Single(o) /\ (client[o].at # "idle" => client[o].sess \in Session)
          BY <1>2, <2>2, <3>3 DEF Careful, Consents, Held
        <4>2. \A x \in Client : client'[x].sess = client[o].sess /\ client[o].at # "idle"
                    => client[x].sess = client[o].sess
          BY <1>2, <4>1, Numbers
        <4>. QED BY <1>2, <1>3, <1>4, <3>1, <3>3, <4>1, <4>2 DEF Single
      <3>. QED BY <3>2, <3>3
    <2>3. ASSUME NEW p \in Session \ overlapped PROVE Owned(p)'
      <3>1. Owned(p) /\ running[p] \in Run \cup {NoRun} /\ (p # s => running[p] # r)
        BY <1>1, Numbers DEF Careful, Owned, TypeOK
      <3>2. CASE p = s
        BY <1>1, <1>2, <1>3, <1>4, <3>1, <3>2 DEF Owned, Serving, Places, InBatch
      <3>3. CASE p # s
        BY <1>2, <1>3, <1>4, <3>1, <3>3 DEF Owned
      <3>. QED BY <3>2, <3>3
    <2>4. server' # "starting"
      BY <1>1, <1>4 DEF Careful, Quiet
    <2>5. \A o \in Client : client'[o].at = "idle" => client'[o].sess = Nobody
      BY <1>2 DEF Careful
    <2>. QED BY <1>4, <2>1, <2>2, <2>3, <2>4, <2>5 DEF Careful
  <1>. QED BY <1>5, <1>6, <1>7 DEF IInv, Consents

-----------------------------------------------------------------------------
(* The theorems *)

\* No step of the service breaks the invariant.
LEMMA StepKeeps == ASSUME IInv, [Next]_vars PROVE IInv'
  <1>. TypeOK'
    BY StepTyped DEF IInv
  <1>1. CASE UNCHANGED vars
    <2>. USE <1>1 DEF vars, memory
    <2>1. Consents'
      BY DEF IInv, Consents, Trusted, Family, Held
    <2>2. Careful'
      BY DEF IInv, Careful, Served, Single, Owned, Quiet, Exists
    <2>. QED BY <2>1, <2>2 DEF IInv
  <1>2. ASSUME NEW c \in Client, Submit(c) PROVE IInv'
    BY <1>2, CreateKeeps, FollowupKeeps DEF Submit
  <1>3. ASSUME NEW c \in Client, Proceed(c) PROVE IInv'
    BY <1>3, GivesUp, EnlistKeeps, LaunchKeeps DEF Proceed
  <1>4. ASSUME NEW s \in Session, Cancel(s) \/ Delete(s) \/ SessionDetail(s) PROVE IInv'
    BY <1>4, RequestKeeps
  <1>5. ASSUME NEW s \in Session, NEW approved \in BOOLEAN, NEW remember \in BOOLEAN,
               Decide(s, approved, remember)
        PROVE  IInv'
    BY <1>5, DecideKeeps
  <1>6. ASSUME NEW r \in Run, EnterGate(r) \/ Advance(r) PROVE IInv'
    BY <1>6, LoopKeeps, CallKeeps, ChildKeeps, DelegationKeeps DEF Advance
  <1>7. ASSUME NEW r \in Run, TaskBreaks(r) PROVE IInv'
    BY <1>7, Breaking
  <1>. QED BY <1>1, <1>2, <1>3, <1>4, <1>5, <1>6, <1>7, ListingKeeps, CrashKeeps DEF Next

\* The invariant holds in every state the service reaches.
THEOREM Inductive == Spec => []IInv
  BY InitIInv, StepKeeps, PTL DEF Spec

\* Every variable of the agent service keeps its type, however requests, tasks and restarts
\* interleave.
THEOREM AgentTypesCorrect == Spec => []TypeOK
  <1>1. IInv => TypeOK
    BY DEF IInv
  <1>. QED BY <1>1, Inductive, PTL

\* A dangerous call is carried out only with its user's consent (_execute_tool, resolve), with
\* no hypothesis on how the clients use the service.
THEOREM ConsentIsAsked == Spec => ConsentedOnly
  <1>1. ASSUME IInv, NEW r \in Run, pc[r] = "perform"
        PROVE  consent[r][Head(calls[r])] # "never"
    BY <1>1 DEF IInv, Consents, Trusted
  <1>. DEFINE Given == \A r \in Run : pc[r] = "perform" /\ pc'[r] \notin {"perform", "gone"}
                                        => consent[r][Head(calls[r])] # "never"
  <1>2. IInv => [Given]_vars
    BY <1>1
  <1>. QED BY <1>2, Inductive, PTL DEF ConsentedOnly

\* A parked approval is shown as such, whatever requests, listings, children and restarts do
\* meanwhile, unless its session was continued while it was still served (update_status in
\* followup, list_sessions, cancel, the startup).
THEOREM ParkedIsShown == Spec => []WaitingIsVisible
  <1>1. IInv => WaitingIsVisible
    BY DEF IInv, Careful, Served, WaitingIsVisible, Serving, Places
  <1>. QED BY <1>1, Inductive, PTL

\* What a followup can resume has the result of each of its calls, unless two runs write to
\* the session (_loop, _execute_tool, cancel, followup).
THEOREM WholeTranscripts == Spec => []ResumableTranscript
  <1>1. IInv => ResumableTranscript
    BY DEF IInv, Careful, Owned, ResumableTranscript
  <1>. QED BY <1>1, Inductive, PTL

==============================================================================
