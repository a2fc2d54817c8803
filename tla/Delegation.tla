------------------------------ MODULE Delegation ------------------------------
(***************************************************************************)
(* Work handed to another program of this machine: a command-line agent or  *)
(* an MCP service (app/services/agent/cli), started by a session of its own *)
(* ("single", "batch"), by a model that was allowed to ("call") or by the   *)
(* worker of the event center ("event", scripts/agent_worker.py).  Each     *)
(* gets a task space, a new directory with a lease (taskspace.py), unless   *)
(* the caller names a directory.                                            *)
(*                                                                          *)
(* Time is counted in ticks; output in chunks.  Ids of task spaces are new  *)
(* (_new_id), so that nobody else ever asks for the lease.  Not modelled:   *)
(* children of the program, and what the session makes of the result        *)
(* (AgentSessions, EventCenter).                                            *)
(***************************************************************************)
EXTENDS Naturals, FiniteSets

CONSTANTS
    Runs,           \* delegations, and the task space each would have
    Tools,          \* a subset of [kind : DOMAIN Flags \cup {"mcp"}, mode : Modes]
    Timeout,        \* of a tool, in ticks (1800 s at most)
    LeaseTime,      \* DEFAULT_LEASE_TTL (1900 s)
    Chunks,         \* bound: what a program writes
    ReadLimit,      \* _MAX_STREAM_BYTES
    PipeRoom,       \* what the pipe and the reader hold unread
    Segments,       \* bound: the tasks of a batch
    MaxUpsets,      \* bound: crashes and forced releases
    NoLease

\* A lease outlasts a run; the names of spaces are no other directories'.
ASSUME LeaseAssumption ==
    /\ Timeout \in Nat /\ LeaseTime \in Nat /\ Timeout < LeaseTime /\ NoLease \notin Nat
    /\ Runs \cap {"none", "workspace", "another task space"} = {}

VARIABLES
    unattended,     \* agent_permission_mode is "bypass"
    path, place, tool,  \* who asks, where it works, with what
    todo,       \* tasks left
    phase,      \* "idle", "asking", "ready", "running", "ended", "leaving", "done" or "lost"
    age,        \* of the run, in ticks
    proc,       \* the program: "none", "working", "prompting", "exited" or "killed"
    out, piped, read,   \* chunks to write, written and read
    end,        \* how it exited: [code, says]
    result,     \* CliResult: "none", "ok", "auth", "quota" or "failed"
    ran, booked,    \* history: runs, and rows in the ledger
    lease,      \* state.lock of a space: ticks left, 0 once expired
    noted,      \* spaces whose state.json names an owner
    upsets

asked == <<unattended, path, place, tool>>
progVars == <<proc, out, piped, read, end>>
spaceVars == <<lease, noted>>
vars == <<asked, todo, phase, age, progVars, result, ran, booked, spaceVars, upsets>>

\* Directories that a caller may name.
Named == {"workspace", "another task space"}

\* What the adapters make of an approval mode ("none": no such argument).
Table(plan, default, bypass) == [plan |-> plan, default |-> default, bypass |-> bypass]
Flags == [qwen |-> Table("plan", "default", "default"),
          claude |-> Table("none", "none", "skip-permissions"),
          codex |-> Table("read-only", "none", "bypass-approvals"),
          qoder |-> Table("dont_ask", "default", "bypass_permissions"),
          codebuddy |-> Table("plan", "default", "bypassPermissions"),
          gemini |-> Table("plan", "default", "yolo"),
          generic |-> Table("none", "none", "none")]

\* allow_bypass: in a task space, but not for an event whose cwd names one.
AllowBypass(d) ==
    unattended /\ place[d] # "workspace" /\ (path[d] = "event" => place[d] = d)

\* run_delegation: the gateway may lift the mode of a tool.
ModeOf(d) == IF AllowBypass(d) THEN "bypass" ELSE tool[d].mode

IsMcp(d) == tool[d].kind = "mcp"

\* The interactive mode of a program may wait for a person, and there is none.
Asks(d) == Flags[tool[d].kind][ModeOf(d)] = "default"

\* What the program says at its end.
Says == {"answer", "log in", "quota used up"}
NoEnd == [code |-> 0, says |-> "nothing"]

Init ==
    /\ unattended \in BOOLEAN
    /\ path = [d \in Runs |-> "none"] /\ place = path /\ tool = path
    /\ todo = [d \in Runs |-> 0] /\ phase = [d \in Runs |-> "idle"] /\ age = todo
    /\ proc = path /\ out = todo /\ piped = todo /\ read = todo
    /\ end = [d \in Runs |-> NoEnd]
    /\ result = path /\ ran = todo /\ booked = todo
    /\ lease = [d \in Runs |-> NoLease] /\ noted = {} /\ upsets = 0

-----------------------------------------------------------------------------
(* A delegation before and after its runs *)

Accept(d, by, where, with, tasks) ==
    /\ phase[d] = "idle"
    /\ path' = [path EXCEPT ![d] = by] /\ place' = [place EXCEPT ![d] = where]
    /\ tool' = [tool EXCEPT ![d] = with] /\ todo' = [todo EXCEPT ![d] = tasks]
    /\ phase' = [phase EXCEPT ![d] = IF by = "call" THEN "asking" ELSE "ready"]
    /\ UNCHANGED <<unattended, age, progVars, result, ran, booked, upsets>>

Lease == LeaseTime

\* create and acquire: the directory is new, so its lock file can be created.
EnterSpace(d, by, with, tasks) ==
    /\ tasks > 1 => by = "batch"
    /\ Accept(d, by, d, with, tasks)
    /\ lease' = [lease EXCEPT ![d] = Lease] /\ noted' = noted \cup {d}

\* A directory named by a model or by an event, a task space perhaps: no lease.
EnterNamed(d, by, where, with) ==
    /\ by \in {"call", "event"}
    /\ Accept(d, by, where, with, 1) /\ UNCHANGED spaceVars

\* release: by its owner only.
Release(d) == lease' = [lease EXCEPT ![d] = NoLease] /\ noted' = noted \ {d}

\* mutant: a refusal returns before the lease is given back.
ReleaseOnResult(d) == IF phase[d] = "asking" THEN UNCHANGED spaceVars ELSE Release(d)

GiveBack(d) == IF place[d] = d THEN Release(d) ELSE UNCHANGED spaceVars

\* prepare, _approve and perform: the person agrees; or refuses, or the role is not there.
Approve(d) ==
    /\ phase[d] = "asking" /\ phase' = [phase EXCEPT ![d] = "ready"]
    /\ UNCHANGED <<asked, todo, age, progVars, result, ran, booked, spaceVars, upsets>>

Refuse(d) ==
    /\ phase[d] = "asking" /\ phase' = [phase EXCEPT ![d] = "done"]
    /\ GiveBack(d)
    /\ UNCHANGED <<asked, todo, age, progVars, result, ran, booked, upsets>>

\* record_delegation, then the next task of a batch that has not failed or been cancelled.
Book(d) ==
    /\ phase[d] = "ended"
    /\ booked' = [booked EXCEPT ![d] = @ + 1]
    /\ todo' = [todo EXCEPT ![d] = @ - 1]
    /\ \/ phase' = [phase EXCEPT ![d] = "leaving"]
       \/ todo[d] > 1 /\ result[d] = "ok" /\ phase' = [phase EXCEPT ![d] = "ready"]
    /\ UNCHANGED <<asked, age, progVars, result, ran, spaceVars, upsets>>

Leave(d) ==
    /\ phase[d] = "leaving" /\ phase' = [phase EXCEPT ![d] = "done"]
    /\ GiveBack(d)
    /\ UNCHANGED <<asked, todo, age, progVars, result, ran, booked, upsets>>

-----------------------------------------------------------------------------
(* run_delegation *)

Concludes(d, kind) ==
    /\ phase' = [phase EXCEPT ![d] = "ended"] /\ result' = [result EXCEPT ![d] = kind]
    /\ UNCHANGED <<asked, todo, booked, spaceVars, upsets>>

Begins(d) == phase[d] = "ready" /\ ran' = [ran EXCEPT ![d] = @ + 1]

\* resolve_command finds nothing it can start, or the start fails.
StartFails(d) ==
    /\ Begins(d) /\ ~IsMcp(d)
    /\ Concludes(d, "failed")
    /\ proc' = [proc EXCEPT ![d] = "none"]
    /\ UNCHANGED <<age, out, piped, read, end>>

Starts(d) ==
    /\ Begins(d)
    /\ phase' = [phase EXCEPT ![d] = "running"] /\ age' = [age EXCEPT ![d] = 0]
    /\ \E state \in IF IsMcp(d) THEN {"none"}
                    ELSE {"working"} \cup (IF Asks(d) THEN {"prompting"} ELSE {}) :
            proc' = [proc EXCEPT ![d] = state]
    /\ \E n \in 0 .. Chunks : out' = [out EXCEPT ![d] = IF IsMcp(d) THEN 0 ELSE n]
    /\ piped' = [piped EXCEPT ![d] = 0] /\ read' = [read EXCEPT ![d] = 0]
    /\ end' = [end EXCEPT ![d] = NoEnd]
    /\ UNCHANGED <<asked, todo, result, booked, spaceVars, upsets>>

\* The program: it writes, waiting while the pipe is full, and exits.
Write(d) ==
    /\ proc[d] = "working" /\ out[d] > 0
    /\ IF phase[d] = "running"
       THEN /\ piped[d] < PipeRoom /\ piped' = [piped EXCEPT ![d] = @ + 1]
            /\ out' = [out EXCEPT ![d] = @ - 1] /\ UNCHANGED proc
       ELSE proc' = [proc EXCEPT ![d] = "killed"] /\ UNCHANGED <<out, piped>>
    /\ UNCHANGED <<asked, todo, phase, age, read, end, result, ran, booked, spaceVars, upsets>>

Exit(d) ==
    /\ proc[d] = "working" /\ out[d] = 0 /\ proc' = [proc EXCEPT ![d] = "exited"]
    /\ \E code \in {0, 1}, says \in Says : end' = [end EXCEPT ![d] = [code |-> code, says |-> says]]
    /\ UNCHANGED <<asked, todo, phase, age, out, piped, read, result, ran, booked, spaceVars, upsets>>

\* _read_limited
Read(d) ==
    /\ phase[d] = "running" /\ piped[d] > 0 /\ read[d] < ReadLimit
    /\ piped' = [piped EXCEPT ![d] = @ - 1] /\ read' = [read EXCEPT ![d] = @ + 1]
    /\ UNCHANGED <<asked, todo, phase, age, proc, out, end, result, ran, booked, spaceVars, upsets>>

\* classify_failure, over patterns of login first, then of quota.
Classified(says) ==
    CASE says = "log in" -> "auth" [] says = "quota used up" -> "quota" [] OTHER -> "failed"

\* mutant: the exit code alone decides.
VerdictOfCode(d) == IF end[d].code = 0 THEN "ok" ELSE Classified(end[d].says)

\* fatal_output: CodeBuddy exits with 0 when it is not logged in.
Verdict(d) ==
    IF end[d].code = 0 /\ ~(tool[d].kind = "codebuddy" /\ end[d].says = "log in")
    THEN "ok" ELSE Classified(end[d].says)

\* Both streams are read to their end or to the limit, and the exit code is there.
Finish(d) ==
    /\ phase[d] = "running" /\ proc[d] = "exited"
    /\ piped[d] = 0 \/ read[d] >= ReadLimit
    /\ Concludes(d, Verdict(d))
    /\ UNCHANGED <<age, progVars, ran>>

\* call_tool: initialize, then the tool; an answer, or an error of either.
Replies == {"ok"} \cup {Classified(says) : says \in Says}

\* _run_mcp
Answer(d) ==
    /\ phase[d] = "running" /\ IsMcp(d)
    /\ \E reply \in Replies : Concludes(d, reply)
    /\ UNCHANGED <<age, progVars, ran>>

Kill(d) == proc' = [proc EXCEPT ![d] = IF @ \in {"working", "prompting"} THEN "killed" ELSE @]

\* mutant: the timeout is the program's own affair.
NeverLate(d) == FALSE

Late(d) == age[d] = Timeout

TimeOut(d) ==
    /\ phase[d] = "running" /\ Late(d)
    /\ Concludes(d, "failed") /\ Kill(d)
    /\ UNCHANGED <<age, out, piped, read, end, ran>>

-----------------------------------------------------------------------------

\* The timer of wait_for is on time, and what a tick leaves undone waits for others.
Tick ==
    /\ \A d \in Runs : /\ phase[d] \notin {"ready", "ended", "leaving"}
                       /\ phase[d] = "running" => age[d] < Timeout
    /\ age' = [d \in Runs |-> IF phase[d] = "running" THEN age[d] + 1 ELSE age[d]]
    /\ lease' = [s \in Runs |-> IF lease[s] \in Nat /\ lease[s] > 0 THEN lease[s] - 1 ELSE lease[s]]
    /\ UNCHANGED <<asked, todo, phase, progVars, result, ran, booked, noted, upsets>>

\* The gateway dies, or the worker: the programs go on, and the leases stay.
Crash ==
    /\ upsets < MaxUpsets /\ upsets' = upsets + 1
    /\ \E worker \in BOOLEAN :
            phase' = [d \in Runs |-> IF phase[d] \in {"idle", "done"} \/ (path[d] = "event") # worker
                                     THEN phase[d] ELSE "lost"]
    /\ UNCHANGED <<asked, todo, age, progVars, result, ran, booked, spaceVars>>

\* force_release, from the console.
ForceRelease(s) ==
    /\ upsets < MaxUpsets /\ upsets' = upsets + 1
    /\ lease[s] # NoLease /\ Release(s)
    /\ UNCHANGED <<asked, todo, phase, age, progVars, result, ran, booked>>

Step(d) ==
    \/ Book(d) \/ Leave(d) \/ StartFails(d) \/ Starts(d)
    \/ Read(d) \/ Finish(d) \/ Answer(d) \/ TimeOut(d)

Next ==
    \/ \E d \in Runs, by \in {"single", "batch", "call", "event"}, with \in Tools :
            \/ \E tasks \in 1 .. Segments : EnterSpace(d, by, with, tasks)
            \/ \E where \in Named : EnterNamed(d, by, where, with)
    \/ \E d \in Runs : Approve(d) \/ Refuse(d) \/ Step(d) \/ Write(d) \/ Exit(d) \/ ForceRelease(d)
    \/ Tick \/ Crash

\* The event loop serves what is ready and its timers; nothing is assumed of the program, of
\* the MCP service or of the person who approves.
GoesOn(d) == Book(d) \/ Leave(d) \/ StartFails(d) \/ Starts(d)

Fair == WF_vars(Tick) /\ \A d \in Runs : WF_vars(GoesOn(d)) /\ WF_vars(TimeOut(d))

Spec == Init /\ [][Next]_vars /\ Fair

-----------------------------------------------------------------------------
(* Properties *)

\* The result is what the program came to: success only after an exit with code 0 that was not
\* a request to log in, and never failure after one ("success was judged a failure",
\* "judged a success and the login prompt taken for the answer": run_delegation, fatal_output).
ResultsAreTrue ==
    \A d \in Runs :
        phase[d] = "ended" /\ ~IsMcp(d) =>
            /\ result[d] = "ok" => proc[d] = "exited" /\ end[d].code = 0
            /\ proc[d] = "exited" /\ age[d] < Timeout =>
                 IF tool[d].kind = "codebuddy" /\ end[d].says = "log in" THEN result[d] = "auth"
                 ELSE (result[d] = "ok") <=> (end[d].code = 0)

\* Whatever way a delegation ended (refused, failed, timed out, in the middle of a batch),
\* its lease is gone, also from state.json, and no program of it works in its space.
SpacesAreLeft ==
    \A d \in Runs :
        phase[d] = "done" =>
            lease[d] = NoLease /\ d \notin noted /\ proc[d] \notin {"working", "prompting"}

\* "An executor takes 1800 s at most, the lease a little more": the program of a delegation
\* that is not asked about and has one task works under a lease that has not expired.
WorkIsCovered ==
    \A d \in Runs :
        phase[d] = "running" /\ place[d] = d /\ path[d] \in {"single", "event"} => lease[d] # 0

\* The ledger has a row for each run, whatever came of it: "what a month has burned".
EveryRunIsBooked == \A d \in Runs : phase[d] \in {"leaving", "done"} => booked[d] = ran[d]

\* What a delegation reports is what the program came to, and the ledger says that it ran.
ReportsAreTrue == ResultsAreTrue /\ EveryRunIsBooked

\* Work in a space is done under its lease, and a delegation that is over has left its space.
SpacesAreKept == SpacesAreLeft /\ WorkIsCovered
=============================================================================
